----------------------------- MODULE MCExecutor -----------------------------
(***************************************************************************)
(* Two deployments of Executor.                                            *)
(***************************************************************************)
EXTENDS Executor

TargetOf == [c \in Candidates |-> IF c = "c" THEN "y" ELSE "x"]

\* One request over three endpoints on two channels, the second transcoded, the
\* third with a key of its own: a cap of two candidates, three calls, an empty
\* answer asked again once.
Failover ==
  [clients |-> {"r1"}, plans |-> {<<"a", "b", "c">>, <<"c", "b">>},
   identity |-> [r \in Requests |-> None], strategy |-> [ch \in Channels |-> "random"],
   pools |-> [ch \in Channels |-> IF ch = "x" THEN <<"k1", "k2">> ELSE <<"k1">>],
   saved |-> {}, modes |-> {"unary", "stream", "passthrough"},
   answers |-> {"Unauthenticated", "UpstreamError", "NotFound", "InvalidRequest", "ok",
                "empty", "odd"},
   attemptCap |-> 2, maxCalls |-> 3, emptyRetries |-> 1, strict |-> FALSE,
   attemptsMax |-> 15, callsMax |-> 15, edits |-> 0]

\* Two requests of one identity on a sticky pool of two keys that may be
\* shortened, lengthened or deleted, without a limit on calls and with narrow
\* counters.
SharedKeys ==
  [clients |-> {"r1", "r2"}, plans |-> {<<"a">>},
   identity |-> [r \in Requests |-> "u"], strategy |-> [ch \in Channels |-> "sticky"],
   pools |-> [ch \in Channels |-> IF ch = "x" THEN <<"k1", "k2">> ELSE Gone],
   saved |-> {<<"k2">>, <<"k2", "k1", "k3">>}, modes |-> {"unary"}, answers |-> {"ok", "RateLimited"},
   attemptCap |-> 0, maxCalls |-> 0, emptyRetries |-> 0, strict |-> FALSE,
   attemptsMax |-> 3, callsMax |-> 3, edits |-> 1]

Both == {Failover, SharedKeys}
=============================================================================

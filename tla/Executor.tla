------------------------------ MODULE Executor ------------------------------
(***************************************************************************)
(* One call of the route executor: the candidates of a plan are tried in   *)
(* health order, on each of them the keys of the channel's pool in turn,   *)
(* on each key again when the answer was empty; and the key selector that  *)
(* concurrent requests share.                                              *)
(*                                                                         *)
(* A request works on the channels it was planned with (an Arc of the      *)
(* snapshot), so `pools` is captured when it begins.  Whether a candidate  *)
(* is suspended is one set here; module Health is how it comes about.      *)
(* The answer of an upstream is an error kind or one of four kinds of 200. *)
(***************************************************************************)
EXTENDS Integers, Sequences

CONSTANTS
  Requests, Candidates, Channels, Keys, Identities, None,
  ChannelOf,      (* the channel of a candidate                             *)
  Transcoded,     (* candidates whose protocol is not the client's          *)
  OwnKey,         (* candidates whose endpoint has a credential of its own  *)
  MaxPool,        (* the largest pool, for the history                      *)
  CursorModulus,  (* u64 of the cursors                                     *)
  Deployments     (* what is configured and asked: one is chosen            *)

VARIABLES
  deployment,
  pools,    (* the keys of each channel, as saved                           *)
  down,     (* candidates whose endpoint is suspended                       *)
  cursors,  (* KeySelector: round-robin cursor per channel                  *)
  sticky,   (* KeySelector: pool index bound to <<channel, identity>>       *)
  req,      (* the requests                                                 *)
  lastKey,  (* history: the key of an identity's last success on a channel, *)
            (* None once its pool is edited or its binding let go of        *)
  edits

vars == <<deployment, pools, down, cursors, sticky, req, lastKey, edits>>

Clients      == deployment.clients      \* the requests there are
Plans        == deployment.plans        \* what the planner hands over
Identity     == deployment.identity     \* the API key of a request, None without one
Strategy     == deployment.strategy     \* key strategy of a channel
InitialPools == deployment.pools        \* the keys of a channel, in order
SavedPools   == deployment.saved        \* the pools an administrator may save
Modes        == deployment.modes        \* of "unary", "stream", "passthrough"
Answers      == deployment.answers      \* what upstreams answer
AttemptCap   == deployment.attemptCap   \* max_attempts; 0 is no limit
MaxCalls     == deployment.maxCalls     \* max_upstream_calls; 0 is no limit
EmptyRetries == deployment.emptyRetries \* max_retries of the empty-response policy
Strict       == deployment.strict       \* reject_nonstandard_200
AttemptsMax  == deployment.attemptsMax  \* u8 of the attempts
CallsMax     == deployment.callsMax     \* u32 of the calls
MaxEdits     == deployment.edits        \* bound on administrators' writes

Retryable  == {"RateLimited", "UpstreamError", "Timeout", "Unauthenticated", "PermissionDenied"}
KeyFailure == {"Unauthenticated", "PermissionDenied", "RateLimited"}
AffectsHealth == KeyFailure \cup {"UpstreamError", "InvalidUpstreamResponse", "Timeout",
                                  "Configuration", "NotFound"}
ErrorKinds == AffectsHealth \cup {"InvalidRequest", "NoAvailableChannel", "PayloadTooLarge"}

\* 200 with output; with none; with no body; in no shape of the protocol.
Successes == {"ok", "empty", "blank", "odd"}

Indexes == 0..(MaxPool - 1)
Pools   == UNION {[1..n -> Keys] : n \in 1..MaxPool}
Gone    == <<>>    \* the pool of a deleted channel

\* collect: a plan has each endpoint once.
NoRepeats(s) == \A i, j \in 1..Len(s) : s[i] = s[j] => i = j

ASSUME ExecutorAssumption ==
  /\ ChannelOf \in [Candidates -> Channels]
  /\ Transcoded \subseteq Candidates /\ OwnKey \subseteq Candidates
  /\ MaxPool \in Nat \ {0} /\ CursorModulus \in Nat \ {0}
  /\ None \notin Identities /\ None \notin Keys /\ None \notin Indexes
  /\ None \notin ErrorKinds \cup Successes
  /\ \A d \in Deployments :
       /\ d.clients \subseteq Requests
       /\ \A plan \in d.plans : plan \in Seq(Candidates) /\ NoRepeats(plan)
       /\ d.identity \in [Requests -> Identities \cup {None}]
       /\ d.strategy \in [Channels -> {"round_robin", "sticky", "random"}]
       /\ d.pools \in [Channels -> Pools \cup {Gone}] /\ d.saved \subseteq Pools
       /\ d.modes \subseteq {"unary", "stream", "passthrough"}
       /\ d.answers \subseteq ErrorKinds \cup Successes /\ d.strict \in BOOLEAN
       /\ {d.attemptCap, d.maxCalls, d.emptyRetries, d.attemptsMax, d.callsMax, d.edits}
            \subseteq Nat
       /\ d.maxCalls <= d.callsMax

Unasked == [c \in Candidates |-> [k \in Indexes |-> None]]

Rotator(first) == [index |-> first, tried |-> 1, exhausted |-> FALSE]

Idle == [pc |-> "idle", mode |-> "unary", unencodable |-> {}, pools |-> InitialPools,
         todo |-> <<>>, cand |-> None, rot |-> Rotator(0), empties |-> 0,
         calls |-> 0, attempts |-> 0, result |-> None,
         plan |-> <<>>, downAtStart |-> {}, visited |-> {},
         seen |-> Unasked, blamed |-> [c \in Candidates |-> None]]

Init ==
  /\ deployment \in Deployments
  /\ pools = InitialPools
  /\ down \in SUBSET UNION {{plan[i] : i \in 1..Len(plan)} : plan \in Plans}
  /\ cursors = [ch \in Channels |-> None]
  /\ sticky = [b \in Channels \X Identities |-> None]
  /\ req = [r \in Requests |-> Idle]
  /\ lastKey = [b \in Channels \X Identities |-> None]
  /\ edits = 0

-----------------------------------------------------------------------------
(***************************************************************************)
(* Order of the candidates                                                 *)
(***************************************************************************)
Smaller(a, b) == IF a < b THEN a ELSE b

\* The elements of s that are in S, in their order.
Keep(s, S) ==
  LET kept[i \in 0..Len(s)] ==
        IF i = 0 THEN <<>>
        ELSE IF s[i] \in S THEN Append(kept[i - 1], s[i]) ELSE kept[i - 1]
  IN  kept[Len(s)]

\* attempt_cap.max(1), a cap of 0 standing for usize::MAX.
Truncate(s) ==
  IF AttemptCap = 0 THEN s ELSE SubSeq(s, 1, Smaller(AttemptCap, Len(s)))

\* Mutant: the cap is applied to the plan, before the health order.
PrioritizeTruncated(plan) ==
  Keep(Truncate(plan), Candidates \ down) \o Keep(Truncate(plan), down)

\* prioritize: suspended candidates are the last resort; the cap comes after.
Prioritize(plan) == Truncate(Keep(plan, Candidates \ down) \o Keep(plan, down))

(***************************************************************************)
(* Key selection and rotation                                              *)
(***************************************************************************)
\* key_pool: an endpoint's own credential replaces the channel's pool.
PoolOf(r, c) ==
  IF c \in OwnKey THEN <<"own">> ELSE req[r].pools[ChannelOf[c]]

Size(r) == Len(PoolOf(r, req[r].cand))

\* next_cursor
NextCursor(ch, n) ==
  LET cursor == IF cursors[ch] = None THEN 0 ELSE cursors[ch]
  IN  [index |-> cursor % n,
       cursors |-> [cursors EXCEPT ![ch] = (cursor + 1) % CursorModulus]]

\* The binding of the request's identity, if the strategy asks for one.
BindingOf(r, c) == <<ChannelOf[c], Identity[r]>>
Bound(r, c) ==
  IF c \notin OwnKey /\ Strategy[ChannelOf[c]] = "sticky" /\ Identity[r] # None
  THEN sticky[BindingOf(r, c)] ELSE None

\* A binding to a key the request's pool does not have.
Outdated(r, c) == Bound(r, c) # None /\ Bound(r, c) >= Len(PoolOf(r, c))

\* The next key in turn; an endpoint's own credential is a pool of one.
InTurn(r, c, index) ==
  LET next == NextCursor(ChannelOf[c], Len(PoolOf(r, c)))
  IN  index = next.index /\ cursors' = next.cursors

\* first_index: the key a rotator starts with.
FirstIndex(r, c, index) ==
  IF c \notin OwnKey /\ Strategy[ChannelOf[c]] = "random"
  THEN index \in 0..(Len(PoolOf(r, c)) - 1) /\ UNCHANGED cursors
  ELSE IF Bound(r, c) # None
  THEN index = Bound(r, c) /\ UNCHANGED cursors
  ELSE InTurn(r, c, index)

\* Mutant: the pool counts as used up one key too late.
CanRotateOneMore(rot, n, kind) ==
  kind \in KeyFailure /\ ~rot.exhausted /\ n >= 2 /\ rot.tried <= n

CanRotate(rot, n, kind) ==
  kind \in KeyFailure /\ ~rot.exhausted /\ n >= 2 /\ rot.tried < n

\* Mutant: the keys tried are not counted.
RotateForever(rot, n) == [rot EXCEPT !.index = (rot.index + 1) % n]

\* KeyRotator::rotate, to the next key of the pool.
Rotate(rot, n) ==
  [rot EXCEPT !.index = (rot.index + 1) % n, !.tried = rot.tried + 1]

\* Mutant: nothing is bound on success.
CommitNothing(r) == UNCHANGED sticky

\* KeyRotator::commit, on success only.
Commit(r) ==
  LET c == req[r].cand
  IN  IF c \notin OwnKey /\ Strategy[ChannelOf[c]] = "sticky" /\ Identity[r] # None
      THEN sticky' = [sticky EXCEPT ![BindingOf(r, c)] = req[r].rot.index]
      ELSE UNCHANGED sticky

-----------------------------------------------------------------------------
(***************************************************************************)
(* A request                                                               *)
(***************************************************************************)
Count(n, max) == IF n < max THEN n + 1 ELSE n    \* saturating_add(1)

\* The gateway executes a plan that is not empty.  Transcoding may be
\* impossible: for some targets, or for all when the body does not decode.
Begin(r, mode, plan, unencodable) ==
  /\ req[r].pc = "idle" /\ r \in Clients
  /\ \A i \in 1..Len(plan) : pools[ChannelOf[plan[i]]] # Gone
  /\ req' = [req EXCEPT ![r] =
       [Idle EXCEPT !.pc = "next", !.mode = mode, !.unencodable = unencodable,
                    !.pools = pools, !.todo = Prioritize(plan),
                    !.result = "NoAvailableChannel",
                    !.plan = plan, !.downAtStart = down]]
  /\ UNCHANGED <<deployment, pools, down, cursors, sticky, lastKey, edits>>

\* execute_passthrough has no transcoding: it leaves such candidates out.
Foreign(r, c) == c \in Transcoded /\ req[r].mode = "passthrough"

\* The loop takes the next candidate, and skips it where the request cannot be
\* put into its protocol.  An outdated binding is let go of under a second lock.
Enter(r) ==
  /\ req[r].pc = "next" /\ req[r].todo # <<>>
  /\ LET c == Head(req[r].todo)
         skipped == [req[r] EXCEPT !.todo = Tail(@), !.visited = @ \cup {c}]
         counted == [skipped EXCEPT !.attempts = Count(@, AttemptsMax)]
     IN  IF Foreign(r, c)
         THEN /\ req' = [req EXCEPT ![r] = skipped]
              /\ UNCHANGED cursors
         ELSE IF c \in req[r].unencodable
         THEN /\ req' = [req EXCEPT ![r] = [counted EXCEPT !.result = "InvalidRequest"]]
              /\ UNCHANGED cursors
         ELSE IF Outdated(r, c)
         THEN /\ req' = [req EXCEPT ![r] = [counted EXCEPT !.pc = "unbind", !.cand = c]]
              /\ UNCHANGED cursors
         ELSE \E index \in Indexes :
                /\ FirstIndex(r, c, index)
                /\ req' = [req EXCEPT ![r] =
                     [counted EXCEPT !.pc = "send", !.cand = c,
                                     !.rot = Rotator(index), !.empties = 0]]
  /\ UNCHANGED <<deployment, pools, down, sticky, lastKey, edits>>

\* Whatever the identity is bound to by now is forgotten, and a key taken in turn.
Unbind(r) ==
  /\ req[r].pc = "unbind"
  /\ LET c == req[r].cand
         b == BindingOf(r, c)
     IN  /\ sticky' = [sticky EXCEPT ![b] = None]
         /\ lastKey' = [lastKey EXCEPT ![b] = None]
         /\ \E index \in Indexes :
              /\ InTurn(r, c, index)
              /\ req' = [req EXCEPT ![r] =
                   [@ EXCEPT !.pc = "send", !.rot = Rotator(index), !.empties = 0]]
  /\ UNCHANGED <<deployment, pools, down, edits>>

\* No candidate is left: the last error is the answer.
GiveUp(r) ==
  /\ req[r].pc = "next" /\ req[r].todo = <<>>
  /\ req' = [req EXCEPT ![r].pc = "done"]
  /\ UNCHANGED <<deployment, pools, down, cursors, sticky, lastKey, edits>>

\* Mutant: the budget allows one call more.
BudgetLeftOver(r) == MaxCalls = 0 \/ req[r].calls <= MaxCalls

BudgetLeft(r) == MaxCalls = 0 \/ req[r].calls < MaxCalls

\* check_budget, then the call.
Send(r) ==
  /\ req[r].pc = "send"
  /\ req' = [req EXCEPT ![r] =
       IF BudgetLeft(r)
       THEN [req[r] EXCEPT !.pc = "wait", !.calls = Count(@, CallsMax)]
       ELSE [req[r] EXCEPT !.pc = "done", !.result = "NoAvailableChannel"]]
  /\ UNCHANGED <<deployment, pools, down, cursors, sticky, lastKey, edits>>

\* The preflight of a stream that ended before its first valid event.
NoValidEvent == "UpstreamError"

\* What a 200 amounts to once its empty retries are used up; an error is
\* itself.  The codecs call a body that is not an object an invalid request.
Verdict(mode, c, answer) ==
  CASE answer \in {"odd", "blank"} /\ mode # "passthrough" ->
         IF Strict THEN "InvalidUpstreamResponse"
         ELSE IF mode = "stream" THEN NoValidEvent
         ELSE IF c \in Transcoded THEN "InvalidRequest" ELSE "ok"
    [] answer \in ErrorKinds -> answer
    [] OTHER -> "ok"

RetriesEmpty(r, answer) ==
  /\ req[r].empties < EmptyRetries
  /\ \/ answer = "empty" /\ req[r].mode # "passthrough"
     \/ answer = "blank" /\ req[r].mode = "unary"

Noted(r, answer) == [req[r] EXCEPT !.seen[req[r].cand][req[r].rot.index] = answer]

AnswerEmpty(r, answer) ==
  /\ req[r].pc = "wait" /\ RetriesEmpty(r, answer)
  /\ req' = [req EXCEPT ![r] =
       [Noted(r, answer) EXCEPT !.pc = "send", !.empties = @ + 1,
                                !.attempts = Count(@, AttemptsMax)]]
  /\ UNCHANGED <<deployment, pools, down, cursors, sticky, lastKey, edits>>

\* record_success (a stream is recorded by the gateway, when it ends), commit.
AnswerOk(r, answer) ==
  /\ req[r].pc = "wait" /\ ~RetriesEmpty(r, answer)
  /\ Verdict(req[r].mode, req[r].cand, answer) = "ok"
  /\ req' = [req EXCEPT ![r] = [Noted(r, answer) EXCEPT !.pc = "done", !.result = "ok"]]
  /\ down' = IF req[r].mode = "stream" THEN down ELSE down \ {req[r].cand}
  /\ Commit(r)
  /\ LET c == req[r].cand
         b == BindingOf(r, c)
         current == req[r].pools[ChannelOf[c]] = pools[ChannelOf[c]]
     IN  lastKey' = IF c \notin OwnKey /\ Identity[r] # None
                    THEN [lastKey EXCEPT ![b] =
                            IF current THEN PoolOf(r, c)[req[r].rot.index + 1] ELSE None]
                    ELSE lastKey
  /\ UNCHANGED <<deployment, pools, cursors, edits>>

\* Mutant: the call with the next key is not counted as an attempt.
TryNextKeyUncounted(r, answer) ==
  /\ req[r].pc = "wait" /\ ~RetriesEmpty(r, answer)
  /\ CanRotate(req[r].rot, Size(r), Verdict(req[r].mode, req[r].cand, answer))
  /\ req' = [req EXCEPT ![r] =
       [Noted(r, answer) EXCEPT !.pc = "send", !.rot = Rotate(@, Size(r))]]
  /\ UNCHANGED <<deployment, pools, down, cursors, sticky, lastKey, edits>>

\* on_failure, RotateKey: the same endpoint with the next key.
TryNextKey(r, answer) ==
  /\ req[r].pc = "wait" /\ ~RetriesEmpty(r, answer)
  /\ CanRotate(req[r].rot, Size(r), Verdict(req[r].mode, req[r].cand, answer))
  /\ req' = [req EXCEPT ![r] =
       [Noted(r, answer) EXCEPT !.pc = "send", !.rot = Rotate(@, Size(r)),
                                !.attempts = Count(@, AttemptsMax)]]
  /\ UNCHANGED <<deployment, pools, down, cursors, sticky, lastKey, edits>>

\* Mutant: every failure moves on to the next candidate.
AlwaysMoveOn(kind) == "next"

\* handle_failure: MoveOn, or the request ends here.
AfterFailure(kind) == IF kind \in Retryable THEN "next" ELSE "done"

\* Mutant: a failure is charged to the endpoint before the other keys are tried.
ChargeAtOnce(r, answer) ==
  /\ req[r].pc = "wait" /\ ~RetriesEmpty(r, answer)
  /\ LET kind == Verdict(req[r].mode, req[r].cand, answer)
         c    == req[r].cand
     IN  /\ kind # "ok"
         /\ req' = [req EXCEPT ![r] =
              [Noted(r, answer) EXCEPT !.pc = AfterFailure(kind), !.result = kind,
                                       !.blamed[c] = IF kind \in AffectsHealth THEN kind ELSE @]]
         /\ down' \in IF kind \in AffectsHealth THEN {down, down \cup {c}} ELSE {down}
  /\ UNCHANGED <<deployment, pools, cursors, sticky, lastKey, edits>>

\* on_failure, no key to rotate to: the endpoint's health takes the failure,
\* and the breaker may trip.
ChargeEndpoint(r, answer) ==
  /\ req[r].pc = "wait" /\ ~RetriesEmpty(r, answer)
  /\ LET kind == Verdict(req[r].mode, req[r].cand, answer)
         c    == req[r].cand
     IN  /\ kind # "ok" /\ ~CanRotate(req[r].rot, Size(r), kind)
         /\ req' = [req EXCEPT ![r] =
              [Noted(r, answer) EXCEPT !.pc = AfterFailure(kind), !.result = kind,
                                       !.rot.exhausted = @ \/ kind \in KeyFailure,
                                       !.blamed[c] = IF kind \in AffectsHealth THEN kind ELSE @]]
         /\ down' \in IF kind \in AffectsHealth THEN {down, down \cup {c}} ELSE {down}
  /\ UNCHANGED <<deployment, pools, cursors, sticky, lastKey, edits>>

Answer(r) ==
  \E answer \in Answers :
    AnswerEmpty(r, answer) \/ AnswerOk(r, answer) \/ TryNextKey(r, answer)
      \/ ChargeEndpoint(r, answer)

\* The caller has its answer; the next request of this client may begin.
Return(r) ==
  /\ req[r].pc = "done"
  /\ req' = [req EXCEPT ![r] = Idle]
  /\ UNCHANGED <<deployment, pools, down, cursors, sticky, lastKey, edits>>

(***************************************************************************)
(* The environment                                                         *)
(***************************************************************************)
\* A suspension runs out or is reset.
Recover(c) ==
  /\ c \in down
  /\ down' = down \ {c}
  /\ UNCHANGED <<deployment, pools, cursors, sticky, req, lastKey, edits>>

Forget(ch) == [b \in Channels \X Identities |-> IF b[1] = ch THEN None ELSE lastKey[b]]

SavePool(ch, pool) ==
  /\ edits < MaxEdits /\ pools[ch] # Gone /\ pools[ch] # pool
  /\ pools' = [pools EXCEPT ![ch] = pool]
  /\ lastKey' = Forget(ch)
  /\ edits' = edits + 1
  /\ UNCHANGED <<deployment, down, cursors, sticky, req>>

\* delete_impl: the row and the snapshot; forget_channel has no caller.
DeleteChannel(ch) ==
  /\ edits < MaxEdits /\ pools[ch] # Gone
  /\ pools' = [pools EXCEPT ![ch] = Gone]
  /\ lastKey' = Forget(ch)
  /\ edits' = edits + 1
  /\ UNCHANGED <<deployment, down, cursors, sticky, req>>

Next ==
  \/ \E r \in Requests :
       \/ \E mode \in Modes, plan \in Plans :
            \E unencodable \in SUBSET {c \in Transcoded : \E i \in 1..Len(plan) : plan[i] = c} :
              Begin(r, mode, plan, unencodable)
       \/ Enter(r) \/ Unbind(r) \/ GiveUp(r) \/ Send(r) \/ Answer(r) \/ Return(r)
  \/ \E c \in Candidates : Recover(c)
  \/ \E ch \in Channels :
       \/ \E pool \in SavedPools : SavePool(ch, pool)
       \/ DeleteChannel(ch)

Spec == Init /\ [][Next]_vars

\* The runtime runs a request on, and a call ends: the client has a timeout
\* for every request and an idle timeout for every read of a stream.
FairSpec ==
  /\ Spec
  /\ \A r \in Requests : WF_vars(Enter(r) \/ Unbind(r) \/ GiveUp(r) \/ Send(r) \/ Answer(r) \/ Return(r))

-----------------------------------------------------------------------------
Rotators == [index : Indexes, tried : 1..MaxPool, exhausted : BOOLEAN]

\* Types; a key index is one of the pool in use.
TypeOK ==
  /\ deployment \in Deployments
  /\ pools \in [Channels -> Pools \cup {Gone}]
  /\ down \subseteq Candidates
  /\ cursors \in [Channels -> 0..(CursorModulus - 1) \cup {None}]
  /\ sticky \in [Channels \X Identities -> Indexes \cup {None}]
  /\ edits \in 0..MaxEdits
  /\ \A r \in Requests :
       LET q == req[r]
       IN  /\ q.pc \in {"idle", "next", "unbind", "send", "wait", "done"}
           /\ q.calls \in 0..CallsMax /\ q.attempts \in 0..AttemptsMax
           /\ q.empties \in 0..EmptyRetries
           /\ q.result \in ErrorKinds \cup {"ok", None}
           /\ q.pc \in {"send", "wait"} => /\ q.cand \in Candidates
                                           /\ q.rot.index < Size(r) /\ q.rot.tried <= Size(r)

\* The budget bounds the calls of a request over all its candidates, keys and
\* empty retries together (check_budget).
BudgetRespected ==
  \A r \in Requests : MaxCalls > 0 => req[r].calls <= MaxCalls

\* The attempts written to the request log never understate the calls made,
\* however rotation and empty retries interleave.
AttemptsCoverCalls ==
  \A r \in Requests :
    req[r].attempts >= req[r].calls \/ req[r].attempts = AttemptsMax

\* The two counters of a request over all the loops it goes through: the budget
\* binds, and the log does not understate (check_budget, attempts).
CallsAreCounted == BudgetRespected /\ AttemptsCoverCalls

\* KeyRotator: a key that failed is not called again by the same request on
\* the same endpoint; only an empty answer earns a second call.
NoSecondChance ==
  [][\A r \in Requests :
       (req[r].pc = "send" /\ req'[r].pc = "wait")
         => req[r].seen[req[r].cand][req[r].rot.index] \in {None, "empty", "blank"}]_vars

\* on_failure: "one bad key must not suspend the whole channel".  An endpoint
\* is charged with a key's failure only after every key of its pool failed.
BlameNeedsWholePool ==
  \A r \in Requests : \A c \in Candidates :
    req[r].blamed[c] \in KeyFailure =>
      \A k \in 0..(Len(PoolOf(r, c)) - 1) : req[r].seen[c][k] \in KeyFailure

\* A success, and a failure no other channel could mend, are the last call of
\* a request.
FinalAnswerIsFinal ==
  [][\A r \in Requests :
       (req[r].pc = "send" /\ req'[r].pc = "wait")
         => \A c \in Candidates : \A k \in Indexes :
              LET answer == req[r].seen[c][k]
              IN  answer \in {None, "empty", "blank"}
                    \/ Verdict(req[r].mode, c, answer) \in Retryable]_vars

\* The health order comes before the cap: a suspended endpoint is tried only
\* when every healthy one of the plan has had its turn.
HealthyFirst ==
  \A r \in Requests :
    LET q == req[r]
    IN  q.visited \cap q.downAtStart # {} =>
          \A i \in 1..Len(q.plan) : q.plan[i] \in q.downAtStart \cup q.visited

\* Sticky keys: on a pool that is still the saved one, a request of an
\* identity starts with the key of its last success, whatever requests of the
\* same identity, with this or an older pool, ended meanwhile; and it lets go of
\* no binding to such a key.  Only a request on an older pool, which may lack
\* the key, and one that was overtaken as it let go of an older binding, do.
StickyFollowsSuccess ==
  [][\A r \in Requests :
       (req[r].pc = "next" /\ req'[r].pc \in {"send", "unbind"}) =>
         LET c    == req'[r].cand
             ch   == ChannelOf[c]
             pool == req'[r].pools[ch]
             key  == IF Identity[r] = None THEN None ELSE lastKey[<<ch, Identity[r]>>]
         IN  (Strategy[ch] = "sticky" /\ c \notin OwnKey /\ key # None /\ pool = pools[ch])
               => req'[r].pc = "send" /\ pool[req'[r].rot.index + 1] = key]_vars

\* Every request ends, with any pool, any cap and no budget at all.
EveryRequestEnds ==
  \A r \in Requests : req[r].pc = "next" ~> req[r].pc = "done"

\* A call is made only when it may help: healthy endpoints have had their turn,
\* the key has not failed here, and no answer was final.
CallsAreWorthMaking == []HealthyFirst /\ NoSecondChance /\ FinalAnswerIsFinal

\* A pool of keys is judged by its keys: the endpoint is charged when all of
\* them failed, and the one that worked last is used first.
PoolIsJudgedByItsKeys == []BlameNeedsWholePool /\ StickyFollowsSuccess
=============================================================================

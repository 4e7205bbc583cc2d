--------------------------- MODULE MCControlPlane ---------------------------
\* The parts of the control plane share nothing: each behaviour puts one of
\* them on stage, and the others stay as they start.
EXTENDS ControlPlane, TLC

VARIABLE stage

Process(tls, exposed, auth, legacy, starts, renews, requests) ==
  [tls |-> tls, exposed |-> exposed, auth |-> auth, legacy |-> legacy, boots |-> starts,
   renewals |-> renews, work |-> requests]

\* Starts of a fresh and of an old database; one that needs no token but is
\* exposed; a certificate renewed three times, one file at a time; requests.
MCSetups ==
  {Process(FALSE, e, TRUE, l, 3, 0, 0) : e, l \in BOOLEAN} \cup
  {Process(FALSE, TRUE, FALSE, FALSE, 2, 0, 0), Process(TRUE, FALSE, FALSE, FALSE, 1, 3, 2),
   Process(FALSE, FALSE, FALSE, FALSE, 1, 0, 3)}

Backup == [channels |-> ("c" :> "s2"), keys |-> {"a1", "a2"},
           settings |-> [n \in {"routing", "retention", "pricing"} |-> 2]]

CaseOf(ops, n, broken, explicit, channels) ==
  [ops |-> ops, edits |-> n, document |-> Backup, broken |-> broken, explicit |-> explicit,
   channels |-> channels, callers |-> {"a1", "a3"}]

\* Changes of one setting and of a pair, over rows no reader understands;
\* imports over other channels and keys; the master key set, replaced and
\* taken away while channels are saved or imported.
MCCases == {
  CaseOf({"set"}, 3, {"routing"}, NoKey, {}), CaseOf({"set", "notify"}, 2, {"pricing"}, NoKey, {}),
  CaseOf({"notify"}, 2, {"webhook"}, NoKey, {}), CaseOf({"notify"}, 3, {}, NoKey, {}),
  CaseOf({"import"}, 2, {}, NoKey, {"d"}),
  CaseOf({"key", "edit"}, 3, {}, NoKey, {"c"}), CaseOf({"key", "edit"}, 3, {}, "k1", {"c"}),
  CaseOf({"key", "import"}, 2, {}, "k1", {"c", "d"})}

FirstSetup == CHOOSE s \in MCSetups : s.boots = 1
FirstCase  == CHOOSE c \in MCCases : c.edits = 2

Init ==
  /\ ControlInit
  /\ stage \in {"process", "settings", "realtime"}
  /\ stage # "process" => setup = FirstSetup
  /\ stage # "settings" => given = FirstCase

Next ==
  /\ UNCHANGED stage
  /\ \/ stage = "process" /\ ProcessMoves
     \/ stage = "settings" /\ SettingsMove
     \/ stage = "realtime" /\ SessionsMove

Spec == Init /\ [][Next]_<<stage, controlVars>> /\ ServerFairness /\ RealtimeFairness
=============================================================================

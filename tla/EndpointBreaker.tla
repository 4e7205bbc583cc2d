-------------------------- MODULE EndpointBreaker --------------------------
(***************************************************************************)
(* What a circuit breaker promises route planning, with no database, no    *)
(* cache and no operation in flight: per endpoint a count of consecutive   *)
(* failures and the instant until which it is skipped (0: it is eligible). *)
(* Success, failure and reset take effect at once; time alone ends a       *)
(* suspension.  Health implements it as long as operations do not overlap. *)
(***************************************************************************)
EXTENDS BreakerPolicy

CONSTANTS Endpoints, Policies, Holds

VARIABLES fails, until, policy, now

vars == <<fails, until, policy, now>>

Init ==
  /\ fails = [e \in Endpoints |-> 0]
  /\ until = [e \in Endpoints |-> 0]
  /\ policy \in Policies
  /\ now = 1

Recover(e) ==
  /\ fails' = [fails EXCEPT ![e] = 0]
  /\ until' = [until EXCEPT ![e] = 0]
  /\ UNCHANGED <<policy, now>>

Fail(e, hold) ==
  LET deadline == Deadline(policy, fails[e] + 1, hold, now)
  IN  /\ fails' = [fails EXCEPT ![e] = @ + 1]
      /\ until' = [until EXCEPT ![e] =
                     IF deadline = 0 THEN @
                     ELSE IF deadline > now THEN deadline ELSE 0]
      /\ UNCHANGED <<policy, now>>

ChangePolicy ==
  /\ policy' \in Policies
  /\ UNCHANGED <<fails, until, now>>

Elapse ==
  /\ now' = now + 1
  /\ until' = [e \in Endpoints |-> IF until[e] > now' THEN until[e] ELSE 0]
  /\ UNCHANGED <<fails, policy>>

Next ==
  \/ \E e \in Endpoints :
       \/ Recover(e)
       \/ \E hold \in Holds \cup {NoHold} : Fail(e, hold)
  \/ ChangePolicy
  \/ Elapse

Spec == Init /\ [][Next]_vars
=============================================================================

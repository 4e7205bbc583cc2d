------------------------------- MODULE Health -------------------------------
(***************************************************************************)
(* Endpoint health and the circuit breaker: HealthRepo of refract-store.   *)
(*                                                                         *)
(* The health of an endpoint lives twice: in a row of `channel_health`     *)
(* (consecutive failures, suspension deadline) and in an in-process cache  *)
(* of deadlines, the only thing route planning looks at.  Every writer     *)
(* commits the row first and touches the cache afterwards, with other      *)
(* requests running in between, so the two halves are separate actions of  *)
(* a caller's operation.                                                   *)
(*                                                                         *)
(* Time is a natural number of seconds starting at 1; the instant 0 stands *)
(* for SQL NULL in a row and for "no entry" in the cache.                  *)
(***************************************************************************)
EXTENDS BreakerPolicy

CONSTANTS
  Endpoints,    (* (channel, protocol) pairs                               *)
  NoEndpoint,   (* the endpoint of an idle caller                          *)
  Callers,      (* concurrent tasks using the repository                   *)
  Policies,     (* breaker policies an administrator may store             *)
  Holds,        (* Retry-After values upstreams send, in seconds           *)
  Horizon,      (* longest suspension any policy or Retry-After asks for   *)
  MaxFails,     (* bound on consecutive failures, for model checking       *)
  MaxTime       (* bound on the clock, for model checking                  *)

ASSUME EndpointsAssumption == NoEndpoint \notin Endpoints
ASSUME BoundsAssumption ==
  /\ Horizon \in Nat
  /\ MaxFails \in Nat
  /\ MaxTime \in Nat \ {0}
ASSUME PoliciesAssumption ==
  \A p \in Policies : ValidPolicy(p) /\ p.max <= Horizon
ASSUME HoldsAssumption == Holds \subseteq 0..Horizon

VARIABLES
  row,       (* channel_health: [fails, until] per endpoint                *)
  cache,     (* suspensions: cached deadline per endpoint, 0 when absent   *)
  policy,    (* the policy in force, shared by every clone of the repo     *)
  saved,     (* the policy in the settings table                           *)
  op,        (* the operation each caller is in the middle of              *)
  now        (* the wall clock                                             *)

vars == <<row, cache, policy, saved, op, now>>

IdleOp == [pc |-> "idle", ep |-> NoEndpoint, until |-> 0]

CleanRow == [fails |-> 0, until |-> 0]

Live(t) == t > now

-----------------------------------------------------------------------------
Init ==
  /\ row = [e \in Endpoints |-> CleanRow]
  /\ cache = [e \in Endpoints |-> 0]
  /\ policy \in Policies
  /\ saved = policy
  /\ op = [c \in Callers |-> IdleOp]
  /\ now = 1

Begin(c, pc, e) == op' = [op EXCEPT ![c] = [pc |-> pc, ep |-> e, until |-> 0]]

Finish(c) == op' = [op EXCEPT ![c] = IdleOp]

(***************************************************************************)
(* suspended_until, called by route planning and by record_success.  An    *)
(* expired entry is dropped under a second lock, after the read lock is    *)
(* gone.                                                                   *)
(***************************************************************************)
ReadExpired(c, e) ==
  /\ op[c].pc = "idle"
  /\ cache[e] # 0 /\ ~Live(cache[e])
  /\ Begin(c, "evict", e)
  /\ UNCHANGED <<row, cache, policy, saved, now>>

Evict(c) ==
  /\ op[c].pc \in {"evict", "evict_success"}
  /\ cache' = [cache EXCEPT ![op[c].ep] = 0]
  /\ op' = [op EXCEPT ![c] = IF @.pc = "evict" THEN IdleOp
                             ELSE [@ EXCEPT !.pc = "success"]]
  /\ UNCHANGED <<row, policy, saved, now>>

(***************************************************************************)
(* record_success: was the endpoint suspended?  then the row, then the     *)
(* cache.  (The Success event that follows is module Channels' business.)  *)
(***************************************************************************)
SuccessStart(c, e) ==
  /\ op[c].pc = "idle"
  /\ IF cache[e] # 0 /\ ~Live(cache[e])
     THEN Begin(c, "evict_success", e)
     ELSE Begin(c, "success", e)
  /\ UNCHANGED <<row, cache, policy, saved, now>>

\* Mutant: the UPDATE of a success forgets the deadline.
SuccessCommitKeepsDeadline(c) ==
  /\ op[c].pc = "success"
  /\ row' = [row EXCEPT ![op[c].ep].fails = 0]
  /\ op' = [op EXCEPT ![c].pc = "clear_success"]
  /\ UNCHANGED <<cache, policy, saved, now>>

SuccessCommit(c) ==
  /\ op[c].pc = "success"
  /\ row' = [row EXCEPT ![op[c].ep] = CleanRow]
  /\ op' = [op EXCEPT ![c].pc = "clear_success"]
  /\ UNCHANGED <<cache, policy, saved, now>>

\* Mutant: a success leaves the cached deadline in place.
ClearWithoutRemoval(c) ==
  /\ op[c].pc \in {"clear_success", "clear_reset"}
  /\ Finish(c)
  /\ UNCHANGED <<row, cache, policy, saved, now>>

\* The cache half of a success and of a reset.
ClearCache(c) ==
  /\ op[c].pc \in {"clear_success", "clear_reset"}
  /\ cache' = [cache EXCEPT ![op[c].ep] = 0]
  /\ Finish(c)
  /\ UNCHANGED <<row, policy, saved, now>>

(***************************************************************************)
(* record_failure: one transaction counts the failure and stores the       *)
(* deadline, if there is one; the cache follows; a last query takes the    *)
(* snapshot the Failure event is made from.                                *)
(***************************************************************************)
FailureCommit(c, e, hold) ==
  /\ op[c].pc = "idle"
  /\ row[e].fails < MaxFails
  /\ LET fails == row[e].fails + 1
         until == Deadline(policy, fails, hold, now)
     IN  /\ row' = [row EXCEPT ![e] =
                      [fails |-> fails,
                       until |-> IF until = 0 THEN @.until ELSE until]]
         /\ op' = [op EXCEPT ![c] =
                      [pc |-> IF until = 0 THEN "snapshot" ELSE "set",
                       ep |-> e, until |-> until]]
  /\ UNCHANGED <<cache, policy, saved, now>>

SetCache(c) ==
  /\ op[c].pc = "set"
  /\ cache' = [cache EXCEPT ![op[c].ep] =
                 IF Live(op[c].until) THEN op[c].until ELSE 0]
  /\ op' = [op EXCEPT ![c].pc = "snapshot"]
  /\ UNCHANGED <<row, policy, saved, now>>

Snapshot(c) ==
  /\ op[c].pc = "snapshot"
  /\ Finish(c)
  /\ UNCHANGED <<row, cache, policy, saved, now>>

\* The statement of a success or the snapshot query fails: the caller logs
\* the error and emits nothing.
StoreError(c) ==
  /\ op[c].pc \in {"success", "snapshot"}
  /\ Finish(c)
  /\ UNCHANGED <<row, cache, policy, saved, now>>

\* reset: the administrator's "retry now".
ResetCommit(c, e) ==
  /\ op[c].pc = "idle"
  /\ row' = [row EXCEPT ![e] = CleanRow]
  /\ Begin(c, "clear_reset", e)
  /\ UNCHANGED <<cache, policy, saved, now>>

\* set_breaker stores a validated policy; reload_breaker puts it in force.
SavePolicy(p) ==
  /\ saved' = p
  /\ UNCHANGED <<row, cache, policy, op, now>>

ReloadBreaker ==
  /\ policy' = saved
  /\ UNCHANGED <<row, cache, saved, op, now>>

\* warm_cache: only deadlines that have not passed are worth caching.
WarmCache ==
  cache' = [e \in Endpoints |-> IF Live(row[e].until) THEN row[e].until ELSE 0]

\* Mutant: a restart that does not warm the cache.
RestartCold ==
  /\ cache' = [e \in Endpoints |-> 0]
  /\ policy' = saved
  /\ op' = [c \in Callers |-> IdleOp]
  /\ UNCHANGED <<row, saved, now>>

\* The process dies and AppState::bootstrap runs again: operations in
\* flight are gone, the policy and the cache come back from the database.
Restart ==
  /\ WarmCache
  /\ policy' = saved
  /\ op' = [c \in Callers |-> IdleOp]
  /\ UNCHANGED <<row, saved, now>>

Tick ==
  /\ now < MaxTime
  /\ now' = now + 1
  /\ UNCHANGED <<row, cache, policy, saved, op>>

Operation(c) ==
  \/ \E e \in Endpoints :
       \/ ReadExpired(c, e)
       \/ SuccessStart(c, e)
       \/ ResetCommit(c, e)
       \/ \E hold \in Holds \cup {NoHold} : FailureCommit(c, e, hold)
  \/ Evict(c)
  \/ SuccessCommit(c)
  \/ ClearCache(c)
  \/ SetCache(c)
  \/ Snapshot(c)
  \/ StoreError(c)

Next ==
  \/ \E c \in Callers : Operation(c)
  \/ \E p \in Policies : SavePolicy(p)
  \/ ReloadBreaker
  \/ Restart
  \/ Tick

Spec == Init /\ [][Next]_vars

-----------------------------------------------------------------------------
Row == [fails : 0..MaxFails, until : 0..(MaxTime + Horizon)]
Op == [pc    : {"idle", "evict", "evict_success", "success", "clear_success",
                "clear_reset", "set", "snapshot"},
       ep    : Endpoints \cup {NoEndpoint},
       until : 0..(MaxTime + Horizon)]

\* Types; a caller that is not idle works on an endpoint.
TypeOK ==
  /\ row \in [Endpoints -> Row]
  /\ cache \in [Endpoints -> 0..(MaxTime + Horizon)]
  /\ policy \in Policies
  /\ saved \in Policies
  /\ op \in [Callers -> Op]
  /\ \A c \in Callers : op[c].pc # "idle" => op[c].ep \in Endpoints
  /\ now \in 1..MaxTime

\* No endpoint is black-listed for good (cooldown_for: "a failing endpoint
\* must be able to come back"): whatever the interleaving of writers, policy
\* changes and restarts, every stored or cached deadline is at most the
\* longest configured suspension away.
BoundedSuspension ==
  \A e \in Endpoints :
    /\ row[e].until <= now + Horizon
    /\ cache[e] <= now + Horizon

\* A deadline in the database always has failures to account for it: a
\* success or a reset never leaves a suspension behind in the row.
NoOrphanSuspension ==
  \A e \in Endpoints : row[e].until # 0 => row[e].fails > 0

\* No interleaving black-lists an endpoint that has not failed, or for longer
\* than its failures ask for (HealthRepo, cooldown_for).
SuspensionIsEarned == BoundedSuspension /\ NoOrphanSuspension

Settled(e) == \A c \in Callers : op[c].ep # e

\* The cache is written through (the comment on HealthRepo): when no
\* operation on an endpoint is under way, the planner's view of it is the
\* database's view.
WriteThrough ==
  \A e \in Endpoints :
    Settled(e) => /\ Live(cache[e]) <=> Live(row[e].until)
                  /\ Live(cache[e]) => cache[e] = row[e].until

(***************************************************************************)
(* Refinement: what the planner sees is the cache, except for an endpoint  *)
(* whose row is committed and whose cache entry is about to follow.        *)
(***************************************************************************)
Pending(e) ==
  \E c \in Callers : /\ op[c].ep = e
                     /\ op[c].pc \in {"clear_success", "clear_reset", "set"}

View(e) == LET t == IF Pending(e) THEN row[e].until ELSE cache[e]
           IN  IF Live(t) THEN t ELSE 0

Breaker == INSTANCE EndpointBreaker WITH
             fails <- [e \in Endpoints |-> row[e].fails],
             until <- [e \in Endpoints |-> View(e)]

\* With one operation at a time the repository is indistinguishable from a
\* breaker whose operations are atomic and never forget across restarts.
ImplementsBreaker == Breaker!Spec
=============================================================================

---------------------------- MODULE HealthProofs ----------------------------
(***************************************************************************)
(* Proofs about Health, for every set of endpoints, callers, policies and  *)
(* Retry-After values.                                                     *)
(***************************************************************************)
EXTENDS Health, TLAPS

(***************************************************************************)
(* Arithmetic of the policy                                                *)
(***************************************************************************)

\* Every shift the back-off performs yields a natural number.
LEMMA BackoffNat ==
  ASSUME NEW over \in Nat
  PROVE  Backoff(over) \in Nat
<1>1. Smaller(over, 16) + 1 \in 1..17
  BY DEF Smaller
<1>2. \A i \in 1..17 : PowersOfTwo[i] \in Nat
  BY DEF PowersOfTwo
<1>3. QED
  BY <1>1, <1>2 DEF Backoff

\* No count of failures makes a valid policy ask for more than its ceiling.
LEMMA CooldownBounded ==
  ASSUME NEW p \in Policies, NEW n \in Nat
  PROVE  CooldownFor(p, n) \in 0..Horizon
<1>1. /\ p.threshold \in Nat /\ p.base \in Nat /\ p.max \in Nat
      /\ p.max <= Horizon
  BY PoliciesAssumption DEF ValidPolicy
<1>2. CASE p.threshold = 0 \/ n < p.threshold
  BY <1>2, BoundsAssumption DEF CooldownFor
<1>3. CASE ~(p.threshold = 0 \/ n < p.threshold)
  <2>1. n - p.threshold \in Nat
    BY <1>1, <1>3
  <2> DEFINE factor == Backoff(n - p.threshold)
  <2>2. factor \in Nat
    BY <2>1, BackoffNat
  <2> HIDE DEF factor
  <2>3. p.base * factor \in Nat
    BY <1>1, <2>2
  <2> DEFINE product == p.base * factor
  <2>4. product \in Nat
    BY <2>3
  <2>5. CooldownFor(p, n) = Smaller(product, p.max)
    BY <1>3 DEF CooldownFor, factor
  <2> HIDE DEF product
  <2>6. QED
    BY <1>1, <2>4, <2>5, BoundsAssumption DEF Smaller
<1>4. QED
  BY <1>2, <1>3

\* A failure's deadline is 0 or lies at most Horizon ahead, never behind.
LEMMA DeadlineBounded ==
  ASSUME NEW p \in Policies, NEW n \in Nat,
         NEW hold \in Holds \cup {NoHold}, NEW t \in Nat \ {0}
  PROVE  /\ Deadline(p, n, hold, t) \in {0} \cup (t..(t + Horizon))
         /\ Deadline(p, n, hold, t) \in Nat
<1>1. CooldownFor(p, n) \in 0..Horizon
  BY CooldownBounded
<1>2. hold = NoHold \/ hold \in 0..Horizon
  BY HoldsAssumption
<1>3. QED
  BY <1>1, <1>2, BoundsAssumption DEF Deadline, Larger, NoHold

(***************************************************************************)
(* The inductive invariant                                                 *)
(***************************************************************************)

\* A deadline waiting to be cached is as bounded as a stored one.
PendingBounded == \A c \in Callers : op[c].until <= now + Horizon

IInv == TypeOK /\ BoundedSuspension /\ NoOrphanSuspension /\ PendingBounded

USE BoundsAssumption DEF Row, Op

LEMMA InitIInv == Init => IInv
BY EndpointsAssumption DEF Init, IInv, TypeOK, BoundedSuspension, NoOrphanSuspension,
   PendingBounded, CleanRow, IdleOp

LEMMA FailureCommitIInv ==
  ASSUME IInv, NEW c \in Callers, NEW e \in Endpoints,
         NEW hold \in Holds \cup {NoHold}, FailureCommit(c, e, hold)
  PROVE  IInv'
<1> DEFINE n == row[e].fails + 1
           until == Deadline(policy, n, hold, now)
<1>1. n \in 1..MaxFails
  BY DEF IInv, TypeOK, FailureCommit
<1>2. until \in {0} \cup (now..(now + Horizon)) /\ until \in Nat
  BY <1>1, DeadlineBounded DEF IInv, TypeOK
<1>3. /\ row' = [row EXCEPT ![e] =
                   [fails |-> n, until |-> IF until = 0 THEN row[e].until
                                           ELSE until]]
      /\ op' = [op EXCEPT ![c] =
                  [pc |-> IF until = 0 THEN "snapshot" ELSE "set",
                   ep |-> e, until |-> until]]
      /\ UNCHANGED <<cache, policy, saved, now>>
  BY DEF FailureCommit
<1> HIDE DEF n, until
<1>4. TypeOK'
  BY <1>1, <1>2, <1>3 DEF IInv, TypeOK, BoundedSuspension
<1>5. BoundedSuspension'
  BY <1>1, <1>2, <1>3 DEF IInv, TypeOK, BoundedSuspension
<1>6. NoOrphanSuspension'
  BY <1>1, <1>2, <1>3 DEF IInv, TypeOK, NoOrphanSuspension
<1>7. PendingBounded'
  BY <1>1, <1>2, <1>3 DEF IInv, TypeOK, PendingBounded
<1>8. QED
  BY <1>4, <1>5, <1>6, <1>7 DEF IInv

LEMMA OperationIInv ==
  ASSUME IInv, NEW c \in Callers, Operation(c)
  PROVE  IInv'
<1> USE DEF IInv, TypeOK, BoundedSuspension, NoOrphanSuspension,
            PendingBounded, IdleOp, CleanRow, Begin, Finish, Live
<1>1. CASE \E e \in Endpoints : ReadExpired(c, e)
  BY <1>1 DEF ReadExpired
<1>2. CASE \E e \in Endpoints : SuccessStart(c, e)
  <2> PICK e \in Endpoints : SuccessStart(c, e)
    BY <1>2
  <2>1. PICK pc \in {"evict_success", "success"} :
          Begin(c, pc, e)
    BY DEF SuccessStart
  <2>2. UNCHANGED <<row, cache, policy, saved, now>>
    BY DEF SuccessStart
  <2>3. QED
    BY <2>1, <2>2
<1>3. CASE \E e \in Endpoints : ResetCommit(c, e)
  BY <1>3 DEF ResetCommit
<1>4. CASE \E e \in Endpoints, hold \in Holds \cup {NoHold} :
             FailureCommit(c, e, hold)
  BY <1>4, FailureCommitIInv
<1>5. CASE Evict(c)
  BY <1>5 DEF Evict
<1>6. CASE SuccessCommit(c)
  BY <1>6 DEF SuccessCommit
<1>7. CASE ClearCache(c)
  BY <1>7 DEF ClearCache
<1>8. CASE SetCache(c)
  BY <1>8 DEF SetCache
<1>9. CASE Snapshot(c)
  BY <1>9 DEF Snapshot
<1>10. CASE StoreError(c)
  BY <1>10 DEF StoreError
<1>11. QED
  BY <1>1, <1>2, <1>3, <1>4, <1>5, <1>6, <1>7, <1>8, <1>9, <1>10
     DEF Operation

LEMMA NextIInv == IInv /\ [Next]_vars => IInv'
<1> SUFFICES ASSUME IInv, [Next]_vars PROVE IInv'
  OBVIOUS
<1> USE DEF IInv, TypeOK, BoundedSuspension, NoOrphanSuspension,
            PendingBounded
<1>1. CASE \E c \in Callers : Operation(c)
  BY <1>1, OperationIInv
<1>2. CASE \E p \in Policies : SavePolicy(p)
  BY <1>2 DEF SavePolicy
<1>3. CASE ReloadBreaker
  BY <1>3 DEF ReloadBreaker
<1>4. CASE Restart
  BY <1>4 DEF Restart, WarmCache, IdleOp, Live
<1>5. CASE Tick
  BY <1>5 DEF Tick
<1>6. CASE UNCHANGED vars
  BY <1>6 DEF vars
<1>7. QED
  BY <1>1, <1>2, <1>3, <1>4, <1>5, <1>6 DEF Next

\* The repository's types.
THEOREM TypeCorrect == Spec => []TypeOK
<1>1. IInv => TypeOK
  BY DEF IInv
<1>2. QED
  BY <1>1, InitIInv, NextIInv, PTL DEF Spec

\* No interleaving of successes, failures, resets, policy changes and
\* restarts black-lists an endpoint beyond the longest configured hold.
THEOREM SuspensionsAreBounded == Spec => []BoundedSuspension
<1>1. IInv => BoundedSuspension
  BY DEF IInv
<1>2. QED
  BY <1>1, InitIInv, NextIInv, PTL DEF Spec

\* A stored deadline always has a failure behind it.
THEOREM NoSuspensionWithoutFailure == Spec => []NoOrphanSuspension
<1>1. IInv => NoOrphanSuspension
  BY DEF IInv
<1>2. QED
  BY <1>1, InitIInv, NextIInv, PTL DEF Spec

\* Both together: every suspension is earned by failures, and as long as they
\* ask for at most (HealthRepo).
THEOREM SuspensionsAreEarned == Spec => []SuspensionIsEarned
<1>1. BoundedSuspension /\ NoOrphanSuspension => SuspensionIsEarned
  BY DEF SuspensionIsEarned
<1>2. QED
  BY <1>1, SuspensionsAreBounded, NoSuspensionWithoutFailure, PTL

(***************************************************************************)
(* Write-through and refinement when operations do not overlap             *)
(***************************************************************************)

SingleCaller == \A c1, c2 \in Callers : c1 = c2

LiveRow(e) == IF Live(row[e].until) THEN row[e].until ELSE 0

\* Row and cache give the same view of every endpoint no operation is about
\* to finish writing; the half still to come repeats what is in the row, and
\* an entry about to be dropped has expired.
SyncInv ==
  /\ \A e \in Endpoints :
       ~Pending(e) => /\ Live(cache[e]) <=> Live(row[e].until)
                      /\ Live(cache[e]) => cache[e] = row[e].until
  /\ \A c \in Callers :
       /\ op[c].pc = "set" => op[c].until = row[op[c].ep].until
       /\ op[c].pc \in {"clear_success", "clear_reset"} =>
            row[op[c].ep].until = 0
       /\ op[c].pc \in {"evict", "evict_success"} =>
            ~Live(cache[op[c].ep])

LEMMA InitSync == Init => SyncInv
BY DEF Init, SyncInv, CleanRow, IdleOp, Live

LEMMA OperationSync ==
  ASSUME SingleCaller, IInv, SyncInv, NEW c \in Callers, Operation(c)
  PROVE  SyncInv'
<1> USE DEF IInv, TypeOK, SyncInv, Pending, Live, SingleCaller, CleanRow,
            IdleOp
<1>1. CASE \E e \in Endpoints : ReadExpired(c, e)
  BY <1>1 DEF ReadExpired, Begin
<1>2. CASE \E e \in Endpoints : SuccessStart(c, e)
  <2> PICK e \in Endpoints : SuccessStart(c, e)
    BY <1>2
  <2>1. PICK pc \in {"evict_success", "success"} :
          Begin(c, pc, e) /\ (pc = "evict_success" => ~Live(cache[e]))
    BY DEF SuccessStart
  <2>2. op[c].pc = "idle" /\ UNCHANGED <<row, cache, now>>
    BY DEF SuccessStart
  <2>3. QED
    BY <2>1, <2>2 DEF Begin
<1>3. CASE \E e \in Endpoints : ResetCommit(c, e)
  BY <1>3 DEF ResetCommit, Begin
<1>4. CASE \E e \in Endpoints, hold \in Holds \cup {NoHold} :
             FailureCommit(c, e, hold)
  <2> PICK e \in Endpoints, hold \in Holds \cup {NoHold} :
             FailureCommit(c, e, hold)
    BY <1>4
  <2> DEFINE until == Deadline(policy, row[e].fails + 1, hold, now)
  <2>1. until \in Nat
    BY DeadlineBounded
  <2>2. /\ row' = [row EXCEPT ![e] =
                     [fails |-> row[e].fails + 1,
                      until |-> IF until = 0 THEN row[e].until ELSE until]]
        /\ op[c].pc = "idle"
        /\ op' = [op EXCEPT ![c] =
                    [pc |-> IF until = 0 THEN "snapshot" ELSE "set",
                     ep |-> e, until |-> until]]
        /\ UNCHANGED <<cache, now>>
    BY DEF FailureCommit
  <2> HIDE DEF until
  <2>3. QED
    BY <2>1, <2>2
<1>5. CASE Evict(c)
  BY <1>5 DEF Evict
<1>6. CASE SuccessCommit(c)
  BY <1>6 DEF SuccessCommit
<1>7. CASE ClearCache(c)
  BY <1>7 DEF ClearCache, Finish
<1>8. CASE SetCache(c)
  BY <1>8 DEF SetCache
<1>9. CASE Snapshot(c)
  BY <1>9 DEF Snapshot, Finish
<1>10. CASE StoreError(c)
  BY <1>10 DEF StoreError, Finish
<1>11. QED
  BY <1>1, <1>2, <1>3, <1>4, <1>5, <1>6, <1>7, <1>8, <1>9, <1>10
     DEF Operation

LEMMA NextSync ==
  ASSUME SingleCaller
  PROVE  IInv /\ SyncInv /\ [Next]_vars => SyncInv'
<1> SUFFICES ASSUME IInv, SyncInv, [Next]_vars PROVE SyncInv'
  OBVIOUS
<1> USE DEF IInv, TypeOK, SyncInv, Pending, Live
<1>1. CASE \E c \in Callers : Operation(c)
  BY <1>1, OperationSync
<1>2. CASE \E p \in Policies : SavePolicy(p)
  BY <1>2 DEF SavePolicy
<1>3. CASE ReloadBreaker
  BY <1>3 DEF ReloadBreaker
<1>4. CASE Restart
  BY <1>4 DEF Restart, WarmCache, IdleOp
<1>5. CASE Tick
  BY <1>5 DEF Tick
<1>6. CASE UNCHANGED vars
  BY <1>6 DEF vars
<1>7. QED
  BY <1>1, <1>2, <1>3, <1>4, <1>5, <1>6 DEF Next

\* The cache is written through as long as operations do not overlap.
THEOREM WriteThroughWhenSequential ==
  ASSUME SingleCaller
  PROVE  Spec => []WriteThrough
<1>1. SyncInv => WriteThrough
  BY DEF SyncInv, WriteThrough, Settled, Pending
<1>2. QED
  BY <1>1, InitIInv, NextIInv, InitSync, NextSync, PTL DEF Spec
\* Sequentially, the planner's view is the row's.
LEMMA ViewIsRow ==
  ASSUME SyncInv, IInv, NEW e \in Endpoints
  PROVE  View(e) = LiveRow(e)
BY DEF SyncInv, IInv, TypeOK, View, LiveRow, Pending, Live

\* The abstract breaker computes deadlines with the same policy arithmetic.
LEMMA SamePolicy ==
  /\ Breaker!NoHold = NoHold
  /\ \A p, n, hold, t :
       Breaker!Deadline(p, n, hold, t) = Deadline(p, n, hold, t)
<1>1. \A p, n : Breaker!CooldownFor(p, n) = CooldownFor(p, n)
  BY DEF Breaker!CooldownFor, CooldownFor, Breaker!Smaller, Smaller,
         Breaker!Backoff, Backoff, Breaker!PowersOfTwo, PowersOfTwo
<1>2. QED
  BY <1>1 DEF Breaker!Deadline, Deadline, Breaker!Larger, Larger,
              Breaker!NoHold, NoHold

LEMMA InitRefines == Init => Breaker!Init
<1> SUFFICES ASSUME Init PROVE Breaker!Init
  OBVIOUS
<1>1. \A e \in Endpoints : View(e) = 0 /\ row[e].fails = 0
  BY DEF Init, View, Pending, CleanRow, IdleOp, Live
<1>2. QED
  BY <1>1 DEF Init, Breaker!Init

\* A step of the abstract breaker, told by what it does to the rows.
LEMMA StepRefines ==
  ASSUME IInv, SyncInv, IInv', SyncInv', [Next]_vars
  PROVE  [Breaker!Next]_Breaker!vars
<1> DEFINE F == [e \in Endpoints |-> row[e].fails]
           U == [e \in Endpoints |-> LiveRow(e)]
<1>1. /\ [e \in Endpoints |-> View(e)] = U
      /\ [e \in Endpoints |-> View(e)]' = U'
  <2>1. \A e \in Endpoints : View(e) = LiveRow(e)
    BY ViewIsRow
  <2>2. \A e \in Endpoints : View(e)' = LiveRow(e)'
    BY DEF SyncInv, IInv, TypeOK, View, LiveRow, Pending, Live
  <2>3. QED
    BY <2>1, <2>2
<1>2. ASSUME UNCHANGED <<row, policy, now>>
      PROVE  [Breaker!Next]_Breaker!vars
  BY <1>1, <1>2 DEF Breaker!vars, LiveRow, Live
<1>3. ASSUME NEW e \in Endpoints, row' = [row EXCEPT ![e] = CleanRow],
             UNCHANGED <<policy, now>>
      PROVE  [Breaker!Next]_Breaker!vars
  <2>1. F' = [F EXCEPT ![e] = 0] /\ U' = [U EXCEPT ![e] = 0]
    BY <1>3 DEF LiveRow, Live, CleanRow, IInv, TypeOK
  <2> HIDE DEF U
  <2>2. Breaker!Recover(e)
    BY <1>1, <1>3, <2>1 DEF Breaker!Recover
  <2>3. QED
    BY <2>2 DEF Breaker!Next
<1>4. ASSUME NEW c \in Callers, NEW e \in Endpoints,
             NEW hold \in Holds \cup {NoHold}, FailureCommit(c, e, hold)
      PROVE  [Breaker!Next]_Breaker!vars
  <2> DEFINE n == row[e].fails + 1
             d == Deadline(policy, n, hold, now)
  <2>1. d \in Nat
    BY DeadlineBounded DEF IInv, TypeOK
  <2>2. /\ row' = [row EXCEPT ![e] =
                     [fails |-> n, until |-> IF d = 0 THEN row[e].until
                                             ELSE d]]
        /\ UNCHANGED <<policy, now>>
    BY <1>4 DEF FailureCommit
  <2>3. F' = [F EXCEPT ![e] = @ + 1]
    BY <2>2 DEF IInv, TypeOK
  <2>4. U' = [U EXCEPT ![e] = IF d = 0 THEN @
                              ELSE IF d > now THEN d ELSE 0]
    <3> HIDE DEF d
    <3>1. QED
      BY <2>1, <2>2 DEF IInv, TypeOK, LiveRow, Live
  <2>5. F[e] + 1 = n
    OBVIOUS
  <2> HIDE DEF U
  <2>6. Breaker!Fail(e, hold)
    <3>1. Breaker!Deadline(policy, F[e] + 1, hold, now) = d
      BY <2>5, SamePolicy
    <3> HIDE DEF d
    <3>2. QED
      BY <1>1, <2>2, <2>3, <2>4, <3>1 DEF Breaker!Fail
  <2>7. QED
    BY <2>6, SamePolicy DEF Breaker!Next
<1>5. ASSUME NEW c \in Callers, Operation(c)
      PROVE  [Breaker!Next]_Breaker!vars
  <2>1. CASE UNCHANGED <<row, policy, now>>
    BY <1>2, <2>1
  <2>2. CASE SuccessCommit(c)
    BY <1>3, <2>2 DEF SuccessCommit, IInv, TypeOK
  <2>3. CASE \E e \in Endpoints : ResetCommit(c, e)
    BY <1>3, <2>3 DEF ResetCommit
  <2>4. CASE \E e \in Endpoints, hold \in Holds \cup {NoHold} :
               FailureCommit(c, e, hold)
    BY <1>4, <2>4
  <2>5. QED
    BY <1>5, <2>1, <2>2, <2>3, <2>4
       DEF Operation, ReadExpired, SuccessStart, Evict, ClearCache,
           SetCache, Snapshot, StoreError
<1>6. ASSUME UNCHANGED <<row, now>>, policy' \in Policies
      PROVE  [Breaker!Next]_Breaker!vars
  <2>1. UNCHANGED U
    BY <1>6 DEF LiveRow, Live
  <2>2. Breaker!ChangePolicy
    BY <1>1, <1>6, <2>1 DEF Breaker!ChangePolicy
  <2>3. QED
    BY <2>2 DEF Breaker!Next
<1>7. CASE Tick
  <2>1. U' = [e \in Endpoints |-> IF U[e] > now' THEN U[e] ELSE 0]
    BY <1>7 DEF Tick, LiveRow, Live, IInv, TypeOK
  <2>2. Breaker!Elapse
    BY <1>1, <1>7, <2>1 DEF Breaker!Elapse, Tick
  <2>3. QED
    BY <2>2 DEF Breaker!Next
<1>8. CASE UNCHANGED vars
  BY <1>2, <1>8 DEF vars
<1>9. QED
  BY <1>2, <1>5, <1>6, <1>7, <1>8
     DEF Next, SavePolicy, ReloadBreaker, Restart, IInv, TypeOK

\* With operations that do not overlap, the row, the cache, the policy and
\* restarts together are an atomic breaker.
THEOREM RefinesBreaker ==
  ASSUME SingleCaller
  PROVE  Spec => ImplementsBreaker
<1>1. IInv /\ SyncInv /\ IInv' /\ SyncInv' /\ [Next]_vars
        => [Breaker!Next]_Breaker!vars
  BY StepRefines
<1>2. QED
  BY <1>1, InitIInv, NextIInv, InitSync, NextSync, InitRefines, PTL
     DEF Spec, ImplementsBreaker, Breaker!Spec
=============================================================================

---------------------------- MODULE GatewayProofs ----------------------------
(***************************************************************************)
(* Theorems of Gateway, for any requests, API keys, addresses, limits,     *)
(* channels, policies and settings, any number of minutes and of changes.  *)
(*                                                                         *)
(* The first part is about admission, whose state only admission steps     *)
(* change; the second about the cache of bindings and the requests that    *)
(* are dispatched; the third about their routes.                           *)
(***************************************************************************)
EXTENDS Gateway, WellFoundedInduction, SequenceTheorems, FiniteSetTheorems, TLAPS

-----------------------------------------------------------------------------
(***************************************************************************)
(* Admission                                                               *)
(***************************************************************************)
\* A request holds no permit before it has passed the gates, and has read the
\* clock, in a minute that has come, only where a lock is next; at the gate of a
\* window it has one.
PlaceOK(q) ==
  /\ q.pc \in {"outside", "permit"} \cup Gates => q.permit = 0
  /\ q.read # None => q.read <= minute /\ q.pc \in Gates \cup Charges
  /\ q.pc = "ip" => q.ip # None
  /\ q.pc \in {"key", "charge_key"} => q.key # None

PlacesOK == \A r \in Requests : PlaceOK(adm[r])

\* The window w is there, and of minute m.
IsOf(w, m) == windows[w] # None /\ windows[w].minute = m

\* What passed a window in minute m is what the window says, and at most a full
\* window for each late lock; one that is over may have been dropped once more.
PassedOK(w, m) ==
  LET rpm == LimitOf(w).rpm
  IN  rpm > 0 =>
        IF IsOf(w, m)
        THEN windows[w].requests <= rpm /\ passed[w][m] <= rpm * late + windows[w].requests
        ELSE passed[w][m] <= rpm * (IF minute > m THEN late + 1 ELSE late)

\* As long as no lock was late, the window knows of every token charged in its
\* minute.
ChargedOK(w, m) ==
  late = 0 => IF IsOf(w, m) THEN charged[w][m] <= windows[w].tokens
                            ELSE minute > m \/ charged[w][m] = 0

\* Nothing has happened in a minute that is to come.
FutureOK(w, m) ==
  minute < m => passed[w][m] = 0 /\ charged[w][m] = 0 /\ ~IsOf(w, m)

WindowsOK ==
  \A w \in WindowIds : \A m \in Minutes : PassedOK(w, m) /\ ChargedOK(w, m) /\ FutureOK(w, m)

AdmissionInv == AdmissionTypeOK /\ PlacesOK /\ PermitsBalanced /\ WindowsOK

LEMMA Configured ==
  ASSUME AdmissionTypeOK
  PROVE  /\ limits.ip.rpm \in Nat /\ limits.key.rpm \in Nat /\ limits.global.rpm \in Nat
         /\ limits.ip.tpm \in Nat /\ limits.key.tpm \in Nat /\ limits.global.tpm \in Nat
         /\ limits.sizes \subseteq Nat /\ limits.tokens \subseteq Nat
<1>1. limits \in LimitRecord
  BY AdmissionAssumption DEF AdmissionTypeOK
<1> QED BY <1>1 DEF LimitRecord

LEMMA LimitTypes ==
  ASSUME AdmissionTypeOK, NEW w
  PROVE  LimitOf(w).rpm \in Nat /\ LimitOf(w).tpm \in Nat
BY Configured DEF LimitOf

\* A step of one request, from q to its new state: types and places.
LEMMA OneRequest ==
  ASSUME AdmissionTypeOK, PlacesOK, NEW r \in Requests, NEW q \in RequestRecord,
         adm' = [adm EXCEPT ![r] = q], q.permit \in 0..Len(sems'),
         Len(sems') = Len(sems), minute' = minute, PlaceOK(q)
  PROVE  /\ adm' \in [Requests -> RequestRecord]
         /\ \A s \in Requests : adm'[s].permit \in 0..Len(sems')
         /\ PlacesOK'
<1>1. adm \in [Requests -> RequestRecord] /\ \A s \in Requests : adm[s].permit \in 0..Len(sems)
  BY DEF AdmissionTypeOK
<1>2. \A s \in Requests : adm'[s] = IF s = r THEN q ELSE adm[s]
  BY <1>1
<1>3. adm' \in [Requests -> RequestRecord]
  BY <1>1
<1>4. \A s \in Requests : adm'[s].permit \in 0..Len(sems')
  BY <1>1, <1>2
<1>5. ASSUME NEW s \in Requests PROVE PlaceOK(adm[s])'
  <2>1. PlaceOK(adm'[s])
    BY <1>2 DEF PlacesOK
  <2> QED BY <2>1 DEF PlaceOK
<1> QED BY <1>3, <1>4, <1>5 DEF PlacesOK

\* Who holds a permit of s, when one request changes.
LEMMA HoldersAfter ==
  ASSUME AdmissionTypeOK, NEW r \in Requests, NEW q, adm' = [adm EXCEPT ![r] = q], NEW s
  PROVE  Holders(s)' = IF q.permit = s THEN Holders(s) \cup {r} ELSE Holders(s) \ {r}
<1>1. \A x \in Requests : adm'[x] = IF x = r THEN q ELSE adm[x]
  BY DEF AdmissionTypeOK
<1> QED BY <1>1 DEF Holders

LEMMA HoldersFinite == \A s : IsFiniteSet(Holders(s)) /\ Cardinality(Holders(s)) \in Nat
BY AdmissionAssumption, FS_Subset, FS_CardinalityType DEF Holders

\* Permits are balanced when the semaphores stay and a request keeps its permit.
LEMMA PermitKept ==
  ASSUME AdmissionTypeOK, PermitsBalanced, NEW r \in Requests, NEW q,
         adm' = [adm EXCEPT ![r] = q], q.permit = adm[r].permit, sems' = sems
  PROVE  PermitsBalanced'
<1>1. \A s : Holders(s)' = Holders(s)
  BY HoldersAfter DEF Holders
<1> QED BY <1>1 DEF PermitsBalanced

LEMMA WindowsStay ==
  ASSUME WindowsOK, UNCHANGED <<limits, minute, windows, passed, charged, late>>
  PROVE  WindowsOK'
BY DEF WindowsOK, PassedOK, ChargedOK, FutureOK, IsOf, LimitOf

\* A request moves on with the permit it has and nothing else changes.
LEMMA Moved ==
  ASSUME AdmissionInv, NEW r \in Requests, NEW q \in RequestRecord,
         adm' = [adm EXCEPT ![r] = q], q.permit = adm[r].permit, PlaceOK(q), arrivals' \in Nat,
         UNCHANGED <<limits, minute, windows, sems, current, passed, charged, late>>
  PROVE  AdmissionInv'
<1>1. AdmissionTypeOK /\ PlacesOK /\ PermitsBalanced /\ WindowsOK
  BY DEF AdmissionInv
<1>2. /\ adm' \in [Requests -> RequestRecord]
      /\ \A s \in Requests : adm'[s].permit \in 0..Len(sems')
      /\ PlacesOK'
  <2>1. q.permit \in 0..Len(sems')
    BY <1>1 DEF AdmissionTypeOK
  <2> QED BY <1>1, <2>1, OneRequest
<1>3. AdmissionTypeOK'
  BY <1>1, <1>2 DEF AdmissionTypeOK
<1>4. PermitsBalanced'
  BY <1>1, PermitKept
<1>5. WindowsOK'
  BY <1>1, WindowsStay
<1> QED BY <1>2, <1>3, <1>4, <1>5 DEF AdmissionInv

LEMMA OutsideOK == Outside \in RequestRecord /\ Outside.permit = 0 /\ PlaceOK(Outside)
BY DEF Outside, RequestRecord, Places, PlaceOK, Gates, Charges

\* Where a request goes next is the gate of a window it has, or the permit.
LEMMA GateAfterType ==
  ASSUME NEW q, NEW gate \in {"start"} \cup Gates, NEW pc, pc = GateAfter(q, gate)
  PROVE  /\ pc \in Gates \cup {"permit"}
         /\ pc = "ip" => q.ip # None
         /\ pc = "key" => q.key # None
BY DEF GateAfter, Gates, Open, WindowOf

LEMMA ArriveStep ==
  ASSUME AdmissionInv, NEW r \in Requests, NEW ip \in Ips \cup {None},
         NEW key \in ApiKeys \cup {None}, Arrive(r, ip, key)
  PROVE  AdmissionInv'
<1> DEFINE o == [Outside EXCEPT !.ip = ip, !.key = key]
<1> DEFINE pc == GateAfter(o, "start")
<1> DEFINE q == [o EXCEPT !.pc = pc]
<1>1. o \in RequestRecord /\ o.permit = 0 /\ o.read = None /\ o.ip = ip /\ o.key = key
  BY DEF Outside, RequestRecord, Places
<1>2. pc \in Gates \cup {"permit"} /\ (pc = "ip" => o.ip # None) /\ (pc = "key" => o.key # None)
  <2> HIDE DEF o
  <2> QED BY GateAfterType
<1>3. adm' = [adm EXCEPT ![r] = q]
  BY DEF Arrive
<1> HIDE DEF pc, o
<1>4. q \in RequestRecord /\ q.permit = 0 /\ PlaceOK(q)
  BY <1>1, <1>2 DEF RequestRecord, Places, PlaceOK, Gates, Charges
<1>5. adm[r].permit = 0
  BY DEF Arrive, AdmissionInv, PlacesOK, PlaceOK
<1>6. arrivals' \in Nat /\ UNCHANGED <<limits, minute, windows, sems, current, passed, charged, late>>
  BY DEF Arrive, AdmissionInv, AdmissionTypeOK
<1> HIDE DEF q
<1> QED BY <1>3, <1>4, <1>5, <1>6, Moved

LEMMA DenyStep ==
  ASSUME AdmissionInv, NEW r \in Requests, Deny(r)
  PROVE  AdmissionInv'
<1>1. adm' = [adm EXCEPT ![r] = Outside] /\ adm[r].permit = 0
  BY DEF Deny, AdmissionInv, PlacesOK, PlaceOK, Gates
<1>2. arrivals' \in Nat /\ UNCHANGED <<limits, minute, windows, sems, current, passed, charged, late>>
  BY DEF Deny, AdmissionInv, AdmissionTypeOK
<1> QED BY <1>1, <1>2, OutsideOK, Moved

LEMMA ReadClockStep ==
  ASSUME AdmissionInv, NEW r \in Requests, ReadClock(r)
  PROVE  AdmissionInv'
<1> DEFINE q == [adm[r] EXCEPT !.read = minute]
<1>1. adm[r] \in RequestRecord /\ minute \in Minutes /\ PlaceOK(adm[r])
  BY DEF AdmissionInv, AdmissionTypeOK, PlacesOK
<1>2. adm' = [adm EXCEPT ![r] = q] /\ adm[r].pc \in Gates \cup Charges
  BY DEF ReadClock
<1>3. q \in RequestRecord /\ q.permit = adm[r].permit
  BY <1>1 DEF RequestRecord
<1>4. PlaceOK(q)
  BY <1>1, <1>2, AdmissionAssumption DEF PlaceOK, RequestRecord, Minutes
<1>5. arrivals' \in Nat /\ UNCHANGED <<limits, minute, windows, sems, current, passed, charged, late>>
  BY DEF ReadClock, AdmissionInv, AdmissionTypeOK
<1> HIDE DEF q
<1> QED BY <1>2, <1>3, <1>4, <1>5, Moved

LEMMA FinishStep ==
  ASSUME AdmissionInv, NEW r \in Requests, NEW n \in Nat, Finish(r, n)
  PROVE  AdmissionInv'
<1> DEFINE q == [adm[r] EXCEPT !.pc = IF n = 0 THEN "release" ELSE "charge_global", !.tokens = n]
<1>1. adm[r] \in RequestRecord /\ PlaceOK(adm[r]) /\ adm[r].pc = "running"
  BY DEF AdmissionInv, AdmissionTypeOK, PlacesOK, Finish
<1>2. adm' = [adm EXCEPT ![r] = q]
  BY DEF Finish
<1>3. q \in RequestRecord /\ q.permit = adm[r].permit
  BY <1>1 DEF RequestRecord, Places, Charges
<1>4. PlaceOK(q)
  BY <1>1 DEF PlaceOK, RequestRecord, Gates, Charges
<1>5. arrivals' \in Nat /\ UNCHANGED <<limits, minute, windows, sems, current, passed, charged, late>>
  BY DEF Finish, AdmissionInv, AdmissionTypeOK
<1> HIDE DEF q
<1> QED BY <1>2, <1>3, <1>4, <1>5, Moved

-----------------------------------------------------------------------------
\* Permits.  Taking and giving back change one semaphore and its holders.
LEMMA PermitTaken ==
  ASSUME AdmissionTypeOK, PermitsBalanced, NEW r \in Requests, NEW q, adm[r].permit = 0,
         adm' = [adm EXCEPT ![r] = q], q.permit = current, current # 0, sems[current].free > 0,
         sems' = [sems EXCEPT ![current].free = @ - 1]
  PROVE  sems' \in Seq(Semaphore) /\ Len(sems') = Len(sems) /\ PermitsBalanced'
<1>1. sems \in Seq(Semaphore) /\ current \in 1..Len(sems) /\ Len(sems) \in Nat
  BY LenProperties DEF AdmissionTypeOK
<1>2. sems[current] \in Semaphore
  BY <1>1, ElementOfSeq
<1> DEFINE taken == [sems[current] EXCEPT !.free = @ - 1]
<1>3. taken \in Semaphore /\ taken.size = sems[current].size /\ taken.free = sems[current].free - 1
  BY <1>2 DEF Semaphore
<1>4. sems' = [sems EXCEPT ![current] = taken]
  OBVIOUS
<1> HIDE DEF taken
<1>5. sems' \in Seq(Semaphore) /\ Len(sems') = Len(sems)
      /\ \A s \in 1..Len(sems) : sems'[s] = IF s = current THEN taken ELSE sems[s]
  <2> DEFINE e == [sems EXCEPT ![current] = taken]
  <2>1. /\ e \in Seq(Semaphore) /\ Len(e) = Len(sems)
        /\ \A s \in 1..Len(sems) : e[s] = IF s = current THEN taken ELSE sems[s]
    BY <1>1, <1>3, ExceptSeq
  <2> HIDE DEF e
  <2> QED BY <2>1, <1>4 DEF e
<1>6. ASSUME NEW s \in 1..Len(sems)
      PROVE  sems'[s].free + Cardinality(Holders(s)') = sems'[s].size
  <2>1. sems[s].free + Cardinality(Holders(s)) = sems[s].size /\ sems[s] \in Semaphore
    BY <1>1, <1>6, ElementOfSeq DEF PermitsBalanced
  <2>2. r \notin Holders(s)
    BY <1>1 DEF Holders
  <2>3. Holders(s)' = IF current = s THEN Holders(s) \cup {r} ELSE Holders(s)
    <3>1. Holders(s)' = IF q.permit = s THEN Holders(s) \cup {r} ELSE Holders(s) \ {r}
      BY HoldersAfter
    <3> QED BY <3>1, <2>2
  <2>4. CASE s = current
    <3>1. Cardinality(Holders(s)') = Cardinality(Holders(s)) + 1
      <4>1. Holders(s)' = Holders(s) \cup {r}
        BY <2>3, <2>4
      <4>2. IsFiniteSet(Holders(s))
        BY HoldersFinite
      <4> QED BY <4>1, <4>2, <2>2, FS_AddElement
    <3>2. Cardinality(Holders(s)) \in Nat
      BY HoldersFinite
    <3>3. sems'[s] = taken /\ sems[s] = sems[current] /\ taken.free \in Nat /\ sems[s].free \in Nat
      BY <2>1, <2>4, <1>3, <1>5, <1>6 DEF Semaphore
    <3>4. sems'[s].free = sems[s].free - 1 /\ sems'[s].size = sems[s].size
      BY <3>3, <1>3, Zenon
    <3> DEFINE c == Cardinality(Holders(s))
    <3> DEFINE d == Cardinality(Holders(s)')
    <3> DEFINE x == sems[s].free
    <3> DEFINE y == sems'[s].free
    <3>5. x + c = sems[s].size /\ d = c + 1 /\ c \in Nat /\ x \in Nat /\ y = x - 1
      BY <3>1, <3>2, <3>3, <3>4, <2>1
    <3> HIDE DEF c, d, x, y
    <3>6. y + d = sems'[s].size
      BY <3>4, <3>5
    <3> QED BY <3>6 DEF y, d
  <2>5. CASE s # current
    BY <2>1, <2>3, <2>5, <1>5, <1>6
  <2> QED BY <2>4, <2>5
<1> QED BY <1>1, <1>5, <1>6 DEF PermitsBalanced

LEMMA PermitReturned ==
  ASSUME AdmissionTypeOK, PermitsBalanced, NEW r \in Requests, NEW q, adm[r].permit # 0,
         adm' = [adm EXCEPT ![r] = q], q.permit = 0,
         sems' = [sems EXCEPT ![adm[r].permit].free = @ + 1]
  PROVE  sems' \in Seq(Semaphore) /\ Len(sems') = Len(sems) /\ PermitsBalanced'
<1> DEFINE p == adm[r].permit
<1>1. sems \in Seq(Semaphore) /\ p \in 1..Len(sems) /\ Len(sems) \in Nat
  BY LenProperties DEF AdmissionTypeOK
<1>2. sems[p] \in Semaphore
  BY <1>1, ElementOfSeq
<1> DEFINE given == [sems[p] EXCEPT !.free = @ + 1]
<1>3. given \in Semaphore /\ given.size = sems[p].size /\ given.free = sems[p].free + 1
  BY <1>2 DEF Semaphore
<1>4. sems' = [sems EXCEPT ![p] = given]
  OBVIOUS
<1> HIDE DEF given
<1>5. sems' \in Seq(Semaphore) /\ Len(sems') = Len(sems)
      /\ \A s \in 1..Len(sems) : sems'[s] = IF s = p THEN given ELSE sems[s]
  BY <1>1, <1>3, <1>4, ExceptSeq
<1>6. ASSUME NEW s \in 1..Len(sems)
      PROVE  sems'[s].free + Cardinality(Holders(s)') = sems'[s].size
  <2>1. sems[s].free + Cardinality(Holders(s)) = sems[s].size /\ sems[s] \in Semaphore
    BY <1>1, <1>6, ElementOfSeq DEF PermitsBalanced
  <2>2. r \in Holders(s) <=> s = p
    BY DEF Holders
  <2>3. Holders(s)' = Holders(s) \ {r}
    <3>1. Holders(s)' = IF q.permit = s THEN Holders(s) \cup {r} ELSE Holders(s) \ {r}
      BY HoldersAfter
    <3> QED BY <3>1, <1>6
  <2>4. CASE s = p
    <3>1. Cardinality(Holders(s)') = Cardinality(Holders(s)) - 1
      BY <2>2, <2>3, <2>4, HoldersFinite, FS_RemoveElement
    <3>2. Cardinality(Holders(s)) \in Nat /\ given.free \in Nat /\ sems[s].free \in Nat
      BY <1>3, <2>1, HoldersFinite DEF Semaphore
    <3>3. sems'[s] = given /\ sems[s] = sems[p]
      BY <2>4, <1>5, <1>6
    <3> HIDE DEF p
    <3>4. sems'[s].free = sems[s].free + 1 /\ sems'[s].size = sems[s].size
      BY <3>3, <1>3, Zenon
    <3> DEFINE c == Cardinality(Holders(s))
    <3> DEFINE d == Cardinality(Holders(s)')
    <3> DEFINE x == sems[s].free
    <3> DEFINE y == sems'[s].free
    <3>5. x + c = sems[s].size /\ d = c - 1 /\ c \in Nat /\ x \in Nat /\ y = x + 1
      BY <3>1, <3>2, <3>4, <2>1
    <3> HIDE DEF c, d, x, y
    <3>6. y + d = sems'[s].size
      BY <3>4, <3>5
    <3> QED BY <3>6 DEF y, d
  <2>5. CASE s # p
    <3>1. Holders(s)' = Holders(s)
      BY <2>2, <2>3, <2>5
    <3> QED BY <2>1, <3>1, <2>5, <1>5, <1>6
  <2> QED BY <2>4, <2>5
<1> QED BY <1>1, <1>5, <1>6 DEF PermitsBalanced

\* What a step of a request leaves alone that changes no window.
LEMMA OnlyPermits ==
  ASSUME AdmissionInv, NEW r \in Requests, NEW q \in RequestRecord, PlaceOK(q),
         adm' = [adm EXCEPT ![r] = q], q.permit \in 0..Len(sems),
         sems' \in Seq(Semaphore), Len(sems') = Len(sems), PermitsBalanced',
         UNCHANGED <<limits, minute, windows, current, passed, charged, late, arrivals>>
  PROVE  AdmissionInv'
<1>1. AdmissionTypeOK /\ PlacesOK /\ WindowsOK
  BY DEF AdmissionInv
<1>2. /\ adm' \in [Requests -> RequestRecord]
      /\ \A s \in Requests : adm'[s].permit \in 0..Len(sems')
      /\ PlacesOK'
  BY <1>1, OneRequest
<1>3. AdmissionTypeOK'
  BY <1>1, <1>2 DEF AdmissionTypeOK
<1>4. WindowsOK'
  BY <1>1, WindowsStay
<1> QED BY <1>2, <1>3, <1>4 DEF AdmissionInv

LEMMA AcquireStep ==
  ASSUME AdmissionInv, NEW r \in Requests, Acquire(r)
  PROVE  AdmissionInv'
<1>1. /\ AdmissionTypeOK /\ PermitsBalanced
      /\ adm[r] \in RequestRecord /\ PlaceOK(adm[r])
      /\ adm[r].pc = "permit" /\ adm[r].permit = 0 /\ adm[r].read = None
  BY DEF AdmissionInv, AdmissionTypeOK, PlacesOK, PlaceOK, Acquire, Gates, Charges
<1>2. arrivals' \in Nat /\ UNCHANGED <<limits, minute, windows, current, passed, charged, late, arrivals>>
  BY <1>1 DEF Acquire, AdmissionTypeOK
<1>3. CASE current = 0
  <2> DEFINE q == [adm[r] EXCEPT !.pc = "running"]
  <2>1. adm' = [adm EXCEPT ![r] = q] /\ sems' = sems
    BY <1>3 DEF Acquire
  <2>2. q \in RequestRecord /\ q.permit = adm[r].permit /\ PlaceOK(q)
    BY <1>1 DEF RequestRecord, Places, PlaceOK, Gates, Charges
  <2> HIDE DEF q
  <2> QED BY <2>1, <2>2, <1>2, Moved
<1>4. CASE current # 0 /\ sems[current].free > 0
  <2> DEFINE q == [adm[r] EXCEPT !.pc = "running", !.permit = current]
  <2>1. adm' = [adm EXCEPT ![r] = q] /\ sems' = [sems EXCEPT ![current].free = @ - 1]
    BY <1>4 DEF Acquire
  <2>2. current \in 0..Len(sems) /\ current \in Nat
    BY <1>1, LenProperties DEF AdmissionTypeOK
  <2>3. q \in RequestRecord /\ q.permit = current /\ PlaceOK(q)
    BY <1>1, <2>2 DEF RequestRecord, Places, PlaceOK, Gates, Charges
  <2> HIDE DEF q
  <2>4. sems' \in Seq(Semaphore) /\ Len(sems') = Len(sems) /\ PermitsBalanced'
    BY <1>1, <1>4, <2>1, <2>3, PermitTaken
  <2> QED BY <2>1, <2>2, <2>3, <2>4, <1>2, OnlyPermits
<1>5. CASE current # 0 /\ ~(sems[current].free > 0)
  <2>1. adm' = [adm EXCEPT ![r] = Outside] /\ sems' = sems
    BY <1>5 DEF Acquire
  <2> QED BY <2>1, <1>1, <1>2, OutsideOK, Moved
<1> QED BY <1>3, <1>4, <1>5

LEMMA ReleaseStep ==
  ASSUME AdmissionInv, NEW r \in Requests, Release(r)
  PROVE  AdmissionInv'
<1>1. /\ AdmissionTypeOK /\ PermitsBalanced
      /\ adm' = [adm EXCEPT ![r] = Outside]
      /\ arrivals' \in Nat
      /\ UNCHANGED <<limits, minute, windows, current, passed, charged, late, arrivals>>
  BY DEF AdmissionInv, AdmissionTypeOK, Release
<1>2. CASE adm[r].permit = 0
  <2>1. sems' = sems
    BY <1>2 DEF Release
  <2> QED BY <2>1, <1>1, <1>2, OutsideOK, Moved
<1>3. CASE adm[r].permit # 0
  <2>1. sems' = [sems EXCEPT ![adm[r].permit].free = @ + 1]
    BY <1>3 DEF Release
  <2>2. sems' \in Seq(Semaphore) /\ Len(sems') = Len(sems) /\ PermitsBalanced'
    BY <1>1, <1>3, <2>1, OutsideOK, PermitReturned
  <2>3. Outside.permit \in 0..Len(sems)
    BY <1>1, OutsideOK, LenProperties DEF AdmissionTypeOK
  <2> QED BY <2>2, <2>3, <1>1, OutsideOK, OnlyPermits
<1> QED BY <1>2, <1>3

\* A new semaphore has no holders.
LEMMA ReloadStep ==
  ASSUME AdmissionInv, NEW size \in Nat, ReloadLimits(size)
  PROVE  AdmissionInv'
<1>1. AdmissionTypeOK /\ PlacesOK /\ PermitsBalanced /\ WindowsOK
  BY DEF AdmissionInv
<1>2. /\ sems \in Seq(Semaphore) /\ Len(sems) \in Nat
      /\ \A r \in Requests : adm[r].permit \in 0..Len(sems)
  BY <1>1, LenProperties DEF AdmissionTypeOK
<1>3. UNCHANGED <<limits, minute, windows, adm, passed, charged, late, arrivals>>
  BY DEF ReloadLimits
<1>4. PlacesOK' /\ WindowsOK'
  BY <1>1, <1>3, WindowsStay DEF PlacesOK, PlaceOK
<1>5. \A s : Holders(s)' = Holders(s)
  BY <1>3 DEF Holders
<1>6. CASE size = 0
  <2>1. sems' = sems /\ current' = 0
    BY <1>6 DEF ReloadLimits
  <2>2. AdmissionTypeOK' /\ PermitsBalanced'
    BY <1>1, <1>2, <1>3, <1>5, <2>1 DEF AdmissionTypeOK, PermitsBalanced
  <2> QED BY <2>2, <1>4 DEF AdmissionInv
<1>7. CASE size # 0
  <2> DEFINE n == Len(sems) + 1
  <2>1. sems' = Append(sems, Built(size)) /\ current' = n
    BY <1>7 DEF ReloadLimits
  <2>2. Built(size) \in Semaphore /\ Built(size).free = size /\ Built(size).size = size
    BY DEF Built, Semaphore
  <2>3. /\ sems' \in Seq(Semaphore) /\ Len(sems') = n
        /\ \A s \in 1..Len(sems) : sems'[s] = sems[s]
        /\ sems'[n] = Built(size)
    BY <2>1, <2>2, <1>2, AppendProperties
  <2>4. AdmissionTypeOK'
    <3>1. current' \in 0..Len(sems')
      BY <1>2, <2>1, <2>3
    <3>2. \A r \in Requests : adm'[r].permit \in 0..Len(sems')
      BY <1>2, <1>3, <2>3
    <3> QED BY <3>1, <3>2, <1>1, <1>3, <2>3 DEF AdmissionTypeOK
  <2>5. ASSUME NEW s \in 1..n PROVE sems'[s].free + Cardinality(Holders(s)') = sems'[s].size
    <3>1. CASE s = n
      <4>1. Holders(n) = {}
        BY <1>2 DEF Holders
      <4>2. Cardinality(Holders(s)') = 0
        BY <4>1, <3>1, <1>5, FS_EmptySet
      <4> QED BY <3>1, <4>2, <2>2, <2>3
    <3>2. CASE s # n
      <4>1. s \in 1..Len(sems) /\ s \in DOMAIN sems
        BY <3>2, <1>2
      <4> QED BY <4>1, <2>3, <1>1, <1>5 DEF PermitsBalanced
    <3> QED BY <3>1, <3>2
  <2>6. PermitsBalanced'
    <3>1. DOMAIN sems' = 1..n
      BY <2>3, LenProperties
    <3> QED BY <3>1, <2>5 DEF PermitsBalanced
  <2> QED BY <2>4, <2>6, <1>4 DEF AdmissionInv
<1> QED BY <1>6, <1>7

-----------------------------------------------------------------------------
\* Windows.  A thread with minute m has the lock of the table of w: requests go
\* up by a, tokens by t; a is 1 only where the limit allowed it.
Touched(w, m, a, t, new) ==
  /\ new.minute = m
  /\ new.requests = WindowAt(w, m).requests + a /\ new.tokens = WindowAt(w, m).tokens + t
  /\ a = 1 => ~Exceeds(w, WindowAt(w, m))
  /\ windows' = [Pruned(w, m) EXCEPT ![w] = new]
  /\ \A v \in WindowIds : \A k \in Minutes :
       /\ passed'[v][k] = passed[v][k] + (IF v = w /\ k = m THEN a ELSE 0)
       /\ charged'[v][k] = charged[v][k] + (IF v = w /\ k = m THEN t ELSE 0)
  /\ CountLate(m)
  /\ UNCHANGED <<limits, minute>>

\* Pruning drops a window or leaves it, and drops none of the minute it is for.
LEMMA PrunedWindows ==
  ASSUME AdmissionTypeOK, NEW w \in WindowIds, NEW m \in Minutes
  PROVE  /\ Pruned(w, m) \in [WindowIds -> Window \cup {None}]
         /\ \A v \in WindowIds :
              \/ Pruned(w, m)[v] = windows[v]
              \/ Pruned(w, m)[v] = None /\ windows[v].minute # m
<1>1. windows \in [WindowIds -> Window \cup {None}]
  BY DEF AdmissionTypeOK
<1> QED BY <1>1 DEF Pruned

LEMMA WindowAtType ==
  ASSUME AdmissionTypeOK, NEW w \in WindowIds, NEW m \in Minutes
  PROVE  /\ WindowAt(w, m) \in Window /\ WindowAt(w, m).minute = m
         /\ IF IsOf(w, m) THEN WindowAt(w, m) = windows[w]
            ELSE WindowAt(w, m).requests = 0 /\ WindowAt(w, m).tokens = 0
<1>1. windows \in [WindowIds -> Window \cup {None}]
  BY DEF AdmissionTypeOK
<1>2. \/ Pruned(w, m)[w] = windows[w]
      \/ Pruned(w, m)[w] = None /\ windows[w].minute # m
  BY PrunedWindows
<1>3. (Pruned(w, m)[w] # None /\ windows[w].minute = m) <=> IsOf(w, m)
  BY <1>2 DEF IsOf
<1>4. CASE IsOf(w, m)
  <2>1. WindowAt(w, m) = windows[w]
    BY <1>3, <1>4 DEF WindowAt
  <2> QED BY <2>1, <1>1, <1>4 DEF IsOf
<1>5. CASE ~IsOf(w, m)
  <2>1. WindowAt(w, m) = [minute |-> m, requests |-> 0, tokens |-> 0]
    BY <1>3, <1>5 DEF WindowAt
  <2> QED BY <2>1, <1>5 DEF Window
<1> QED BY <1>4, <1>5

\* The two facts about products that are needed.
LEMMA OneMoreLate ==
  ASSUME NEW rpm \in Nat, NEW n \in Nat
  PROVE  /\ rpm * (n + 1) = rpm * n + rpm
         /\ rpm * n \in Nat
OBVIOUS

\* The windows after the lock, whether or not it was late.
LEMMA TouchWindows ==
  ASSUME AdmissionTypeOK, WindowsOK, NEW w \in WindowIds, NEW m \in Minutes, m <= minute,
         NEW a \in {0, 1}, NEW t \in Nat, NEW new \in Window, Touched(w, m, a, t, new)
  PROVE  WindowsOK'
<1> DEFINE win == WindowAt(w, m)
<1>1. /\ windows \in [WindowIds -> Window \cup {None}] /\ late \in Nat /\ minute \in Nat
      /\ m \in Nat /\ Minutes \subseteq Nat
      /\ \A v \in WindowIds : \A k \in Minutes : passed[v][k] \in Nat /\ charged[v][k] \in Nat
  <2>1. Minutes \subseteq Nat
    BY AdmissionAssumption DEF Minutes
  <2>2. /\ windows \in [WindowIds -> Window \cup {None}] /\ late \in Nat /\ minute \in Minutes
        /\ passed \in [WindowIds -> [Minutes -> Nat]] /\ charged \in [WindowIds -> [Minutes -> Nat]]
    BY DEF AdmissionTypeOK
  <2> QED BY <2>1, <2>2
<1>2. Pruned(w, m) \in [WindowIds -> Window \cup {None}]
  BY PrunedWindows
<1>3. windows' = [Pruned(w, m) EXCEPT ![w] = new] /\ minute' = minute /\ limits' = limits
      /\ late' = IF m < minute THEN late + 1 ELSE late
  BY DEF Touched, CountLate
<1>4. \A v \in WindowIds : windows'[v] = IF v = w THEN new ELSE Pruned(w, m)[v]
  BY <1>2, <1>3
<1>5. \A v : LimitOf(v)' = LimitOf(v)
  BY <1>3 DEF LimitOf
<1>6. /\ win \in Window /\ win.minute = m
      /\ IF IsOf(w, m) THEN win = windows[w] ELSE win.requests = 0 /\ win.tokens = 0
  BY WindowAtType
<1>7. new.minute = m /\ new.requests = win.requests + a /\ new.tokens = win.tokens + t
      /\ (a = 1 => ~Exceeds(w, win))
  BY DEF Touched
<1>8. \A v \in WindowIds : \A k \in Minutes :
        /\ passed'[v][k] = passed[v][k] + (IF v = w /\ k = m THEN a ELSE 0)
        /\ charged'[v][k] = charged[v][k] + (IF v = w /\ k = m THEN t ELSE 0)
  BY DEF Touched
<1> HIDE DEF win
<1> SUFFICES ASSUME NEW v \in WindowIds, NEW k \in Minutes
             PROVE  PassedOK(v, k)' /\ ChargedOK(v, k)' /\ FutureOK(v, k)'
  BY DEF WindowsOK
<1>9. PassedOK(v, k) /\ ChargedOK(v, k) /\ FutureOK(v, k)
  BY DEF WindowsOK
<1>10. CASE v = w /\ k = m
  <2>1. IsOf(v, k)' /\ windows'[v] = new
    BY <1>4, <1>7, <1>10, AdmissionAssumption DEF IsOf
  <2>2. passed'[v][k] = passed[v][k] + a /\ charged'[v][k] = charged[v][k] + t
    BY <1>8, <1>10
  <2>3. PassedOK(v, k)'
    <3> DEFINE rpm == LimitOf(v).rpm
    <3>1. rpm \in Nat /\ rpm * (late + 1) = rpm * late + rpm /\ rpm * late \in Nat
      BY <1>1, LimitTypes, OneMoreLate
    <3>2. SUFFICES ASSUME rpm > 0
                   PROVE  new.requests <= rpm /\ passed[v][k] + a <= rpm * late' + new.requests
      BY <1>5, <2>1, <2>2 DEF PassedOK
    <3>3. IF IsOf(v, k) THEN win.requests <= rpm /\ passed[v][k] <= rpm * late + win.requests
          ELSE passed[v][k] <= rpm * late' /\ win.requests = 0
      BY <1>3, <1>6, <1>9, <1>10, <3>2 DEF PassedOK
    <3>4. rpm * late <= rpm * late'
      BY <1>1, <1>3, <3>1
    <3>5. a = 1 => win.requests < rpm
      BY <1>6, <1>7, <1>10, <3>1, <3>2 DEF Exceeds, Window
    <3>6. rpm * late' \in Nat /\ win.requests \in Nat /\ passed[v][k] \in Nat
      BY <1>1, <1>3, <1>6, <3>1 DEF Window
    <3> DEFINE A == rpm * late
    <3> DEFINE B == rpm * late'
    <3> HIDE DEF A, B, rpm
    <3> QED BY <3>1, <3>2, <3>3, <3>4, <3>5, <3>6, <1>7 DEF A, B
  <2>4. ChargedOK(v, k)'
    <3>1. SUFFICES ASSUME late' = 0 PROVE charged[v][k] + t <= new.tokens
      BY <2>1, <2>2 DEF ChargedOK
    <3>2. late = 0 /\ m = minute
      BY <1>1, <1>3, <3>1
    <3>3. charged[v][k] <= win.tokens
      BY <3>2, <1>1, <1>6, <1>9, <1>10 DEF ChargedOK, Window
    <3> QED BY <3>3, <1>1, <1>6, <1>7 DEF Window
  <2>5. FutureOK(v, k)'
    BY <1>1, <1>3, <1>10 DEF FutureOK
  <2> QED BY <2>3, <2>4, <2>5
<1>11. CASE ~(v = w /\ k = m)
  <2>1. passed'[v][k] = passed[v][k] /\ charged'[v][k] = charged[v][k]
    <3>1. passed[v][k] \in Nat /\ charged[v][k] \in Nat
      BY <1>1
    <3>2. CASE v = w
      BY <3>1, <3>2, <1>8, <1>11
    <3>3. CASE v # w
      BY <3>1, <3>3, <1>8
    <3> QED BY <3>2, <3>3
  <2>2. \/ IsOf(v, k)' /\ IsOf(v, k) /\ windows'[v] = windows[v]
        \/ ~IsOf(v, k)' /\ ~IsOf(v, k)
        \/ ~IsOf(v, k)' /\ IsOf(v, k) /\ k # m
    <3>1. CASE v = w
      <4>1. ~IsOf(v, k)'
        BY <3>1, <1>4, <1>7, <1>11 DEF IsOf
      <4> QED BY <4>1, <3>1, <1>11
    <3>2. CASE v # w
      <4>1. windows'[v] = Pruned(w, m)[v]
        BY <1>4, <3>2
      <4>2. CASE Pruned(w, m)[v] = windows[v]
        BY <4>1, <4>2 DEF IsOf
      <4>3. CASE Pruned(w, m)[v] = None /\ windows[v].minute # m
        BY <4>1, <4>3 DEF IsOf
      <4> QED BY <4>2, <4>3, PrunedWindows
    <3> QED BY <3>1, <3>2
  <2>3. k \in Nat /\ (IsOf(v, k) => k <= minute)
    <3>1. k \in Nat /\ minute \in Nat
      BY <1>1
    <3>2. minute < k => ~IsOf(v, k)
      BY <1>9 DEF FutureOK
    <3> QED BY <3>1, <3>2
  <2>4. PassedOK(v, k)'
    <3> DEFINE rpm == LimitOf(v).rpm
    <3>1. /\ rpm \in Nat /\ rpm * (late + 1) = rpm * late + rpm /\ rpm * late \in Nat
          /\ rpm * (late + 2) = rpm * late + rpm + rpm
      <4>1. rpm \in Nat
        BY LimitTypes
      <4> HIDE DEF rpm
      <4>2. rpm * (late + 1) = rpm * late + rpm /\ rpm * late \in Nat
        BY <1>1, <4>1, OneMoreLate
      <4>3. late + 1 \in Nat /\ (late + 1) + 1 = late + 2
        BY <1>1
      <4>4. rpm * ((late + 1) + 1) = rpm * (late + 1) + rpm
        BY <4>1, <4>3, OneMoreLate
      <4> QED BY <4>1, <4>2, <4>3, <4>4
    <3>2. SUFFICES ASSUME rpm > 0
                   PROVE  IF IsOf(v, k)'
                          THEN windows'[v].requests <= rpm
                               /\ passed[v][k] <= rpm * late' + windows'[v].requests
                          ELSE passed[v][k] <= rpm * (IF minute > k THEN late' + 1 ELSE late')
      BY <1>3, <1>5, <2>1 DEF PassedOK
    <3> DEFINE A == rpm * late
    <3>3. /\ rpm * late' = IF m < minute THEN A + rpm ELSE A
          /\ rpm * (late' + 1) = IF m < minute THEN A + rpm + rpm ELSE A + rpm
      BY <1>1, <1>3, <3>1
    <3>4. IF IsOf(v, k) THEN windows[v].requests <= rpm /\ passed[v][k] <= A + windows[v].requests
          ELSE passed[v][k] <= IF minute > k THEN A + rpm ELSE A
      BY <1>9, <3>1, <3>2 DEF PassedOK
    <3>5. A \in Nat /\ rpm \in Nat /\ passed[v][k] \in Nat
          /\ (IsOf(v, k) => windows[v].requests \in Nat)
      BY <1>1, <3>1 DEF IsOf, Window
    <3> HIDE DEF A, rpm
    <3>6. rpm * (IF minute > k THEN late' + 1 ELSE late') =
            IF minute > k THEN rpm * (late' + 1) ELSE rpm * late'
      OBVIOUS
    <3>7. CASE IsOf(v, k)' /\ IsOf(v, k) /\ windows'[v] = windows[v]
      BY <3>3, <3>4, <3>5, <3>7
    <3>8. CASE ~IsOf(v, k)' /\ ~IsOf(v, k)
      BY <3>3, <3>4, <3>5, <3>6, <3>8
    <3>9. CASE ~IsOf(v, k)' /\ IsOf(v, k) /\ k # m
      <4>1. k < minute \/ m < minute
        BY <3>9, <2>3, <1>1
      <4> QED BY <4>1, <3>3, <3>4, <3>5, <3>6, <3>9
    <3> QED BY <2>2, <3>7, <3>8, <3>9
  <2>5. ChargedOK(v, k)'
    <3>1. SUFFICES ASSUME late' = 0
                   PROVE  IF IsOf(v, k)' THEN charged[v][k] <= windows'[v].tokens
                          ELSE minute > k \/ charged[v][k] = 0
      BY <1>3, <2>1 DEF ChargedOK
    <3>2. late = 0 /\ m = minute
      BY <1>1, <1>3, <3>1
    <3>3. IF IsOf(v, k) THEN charged[v][k] <= windows[v].tokens
          ELSE minute > k \/ charged[v][k] = 0
      BY <3>2, <1>9 DEF ChargedOK
    <3>4. (IsOf(v, k) /\ k # m) => minute > k
      BY <3>2, <2>3, <1>1
    <3> QED BY <2>2, <3>3, <3>4
  <2>6. FutureOK(v, k)'
    BY <1>3, <1>9, <2>1, <2>2 DEF FutureOK
  <2> QED BY <2>4, <2>5, <2>6
<1> QED BY <1>10, <1>11

\* Where a request takes a lock, there is a window, and its minute has come.
LEMMA AtTheLock ==
  ASSUME AdmissionInv, NEW r \in Requests, adm[r].pc \in Gates \cup Charges, adm[r].read # None
  PROVE  /\ WindowOf(adm[r], adm[r].pc) \in WindowIds
         /\ adm[r].read \in Minutes /\ adm[r].read <= minute
<1>1. adm[r] \in RequestRecord /\ PlaceOK(adm[r])
  BY DEF AdmissionInv, AdmissionTypeOK, PlacesOK
<1>2. adm[r].read \in Minutes /\ adm[r].read <= minute
  BY <1>1 DEF RequestRecord, PlaceOK
<1>3. /\ adm[r].pc = "ip" => adm[r].ip \in Ips
      /\ adm[r].pc \in {"key", "charge_key"} => adm[r].key \in ApiKeys
  BY <1>1 DEF RequestRecord, PlaceOK
<1>4. WindowOf(adm[r], adm[r].pc) \in WindowIds
  BY <1>3 DEF Gates, Charges, WindowOf, WindowIds, KeyTable
<1> QED BY <1>2, <1>4

\* A step under the lock, of a request that goes on to the state q.
LEMMA Locked ==
  ASSUME AdmissionInv, NEW r \in Requests, adm[r].pc \in Gates \cup Charges, adm[r].read # None,
         NEW a \in {0, 1}, NEW t \in Nat, NEW new \in Window,
         Touched(WindowOf(adm[r], adm[r].pc), adm[r].read, a, t, new),
         passed' \in [WindowIds -> [Minutes -> Nat]],
         charged' \in [WindowIds -> [Minutes -> Nat]],
         NEW q \in RequestRecord, PlaceOK(q), adm' = [adm EXCEPT ![r] = q],
         q.permit = adm[r].permit,
         UNCHANGED <<sems, current, arrivals>>
  PROVE  AdmissionInv'
<1> DEFINE w == WindowOf(adm[r], adm[r].pc)
<1> DEFINE m == adm[r].read
<1>1. AdmissionTypeOK /\ PlacesOK /\ PermitsBalanced /\ WindowsOK
  BY DEF AdmissionInv
<1>2. w \in WindowIds /\ m \in Minutes /\ m <= minute
  BY AtTheLock
<1> HIDE DEF w, m
<1>3. Touched(w, m, a, t, new)
  BY DEF w, m
<1>4. WindowsOK'
  BY <1>1, <1>2, <1>3, TouchWindows
<1>5. limits' = limits /\ minute' = minute /\ sems' = sems
      /\ windows' = [Pruned(w, m) EXCEPT ![w] = new]
      /\ late' = IF m < minute THEN late + 1 ELSE late
  BY <1>3 DEF Touched, CountLate
<1>6. PermitsBalanced'
  BY <1>1, <1>5, PermitKept
<1>7. q.permit \in 0..Len(sems')
  BY <1>1, <1>5 DEF AdmissionTypeOK
<1>8. /\ adm' \in [Requests -> RequestRecord]
      /\ \A s \in Requests : adm'[s].permit \in 0..Len(sems')
      /\ PlacesOK'
  BY <1>1, <1>5, <1>7, OneRequest
<1>9. windows' \in [WindowIds -> Window \cup {None}] /\ late' \in Nat
  <2>1. Pruned(w, m) \in [WindowIds -> Window \cup {None}]
    BY <1>1, <1>2, PrunedWindows
  <2>2. late \in Nat
    BY <1>1 DEF AdmissionTypeOK
  <2>3. windows' \in [WindowIds -> Window \cup {None}]
    BY <2>1, <1>5
  <2> QED BY <2>2, <2>3, <1>5
<1>10. AdmissionTypeOK'
  BY <1>1, <1>5, <1>8, <1>9 DEF AdmissionTypeOK
<1> QED BY <1>4, <1>6, <1>8, <1>10 DEF AdmissionInv

\* The three things Admit and AddTokens do to a window, as Touched.
LEMMA AdmitTouches ==
  ASSUME AdmissionInv, NEW r \in Requests, Admit(r)
  PROVE  LET w   == WindowOf(adm[r], adm[r].pc)
             m   == adm[r].read
             win == WindowAt(w, m)
             a   == IF Exceeds(w, win) THEN 0 ELSE 1
         IN  /\ Touched(w, m, a, 0, [win EXCEPT !.requests = @ + a])
             /\ [win EXCEPT !.requests = @ + a] \in Window
             /\ passed' \in [WindowIds -> [Minutes -> Nat]]
             /\ charged' \in [WindowIds -> [Minutes -> Nat]]
<1> DEFINE w == WindowOf(adm[r], adm[r].pc)
<1> DEFINE m == adm[r].read
<1> DEFINE win == WindowAt(w, m)
<1> DEFINE a == IF Exceeds(w, win) THEN 0 ELSE 1
<1> DEFINE new == [win EXCEPT !.requests = @ + a]
<1>1. adm[r].pc \in Gates \cup Charges /\ adm[r].read # None
  BY DEF Admit
<1>2. w \in WindowIds /\ m \in Minutes /\ m <= minute
  BY <1>1, AtTheLock
<1>3. AdmissionTypeOK
  BY DEF AdmissionInv
<1>4. /\ CountLate(m) /\ UNCHANGED <<limits, minute, charged>>
      /\ IF Exceeds(w, win)
         THEN windows' = [Pruned(w, m) EXCEPT ![w] = win] /\ passed' = passed
         ELSE /\ windows' = [Pruned(w, m) EXCEPT ![w] = [win EXCEPT !.requests = @ + 1]]
              /\ passed' = [passed EXCEPT ![w][m] = @ + 1]
  BY DEF Admit
<1> HIDE DEF w, m
<1>5. win \in Window /\ win.minute = m
  BY <1>2, <1>3, WindowAtType
<1> HIDE DEF win
<1>6. /\ new \in Window /\ new.minute = m /\ new.requests = win.requests + a
      /\ new.tokens = win.tokens + 0
  BY <1>5 DEF Window
<1>7. a = 1 => ~Exceeds(w, win)
  OBVIOUS
<1>8. windows' = [Pruned(w, m) EXCEPT ![w] = new]
  <2>1. CASE Exceeds(w, win)
    <3>1. new = win
      BY <2>1, <1>5 DEF Window
    <3> QED BY <3>1, <2>1, <1>4
  <2>2. CASE ~Exceeds(w, win)
    BY <2>2, <1>4
  <2> QED BY <2>1, <2>2
<1>9. passed \in [WindowIds -> [Minutes -> Nat]] /\ charged \in [WindowIds -> [Minutes -> Nat]]
  BY <1>3 DEF AdmissionTypeOK
<1>10. passed' \in [WindowIds -> [Minutes -> Nat]] /\ charged' \in [WindowIds -> [Minutes -> Nat]]
  <2>1. passed[w][m] + 1 \in Nat
    BY <1>2, <1>9
  <2>2. [passed EXCEPT ![w][m] = @ + 1] \in [WindowIds -> [Minutes -> Nat]]
    BY <2>1, <1>9
  <2> QED BY <2>2, <1>4, <1>9
<1> HIDE DEF new
<1>11. \A v \in WindowIds : \A k \in Minutes :
         /\ passed'[v][k] = passed[v][k] + (IF v = w /\ k = m THEN a ELSE 0)
         /\ charged'[v][k] = charged[v][k] + (IF v = w /\ k = m THEN 0 ELSE 0)
  <2> SUFFICES ASSUME NEW v \in WindowIds, NEW k \in Minutes
               PROVE  /\ passed'[v][k] = passed[v][k] + (IF v = w /\ k = m THEN a ELSE 0)
                      /\ charged'[v][k] = charged[v][k]
    BY <1>9
  <2>1. passed[v][k] \in Nat
    BY <1>9
  <2>2. CASE Exceeds(w, win)
    BY <2>1, <2>2, <1>4
  <2>3. CASE ~Exceeds(w, win)
    BY <2>1, <2>3, <1>4, <1>9
  <2> QED BY <2>2, <2>3, <1>4
<1>12. Touched(w, m, a, 0, new)
  <2> HIDE DEF a
  <2> QED BY <1>4, <1>6, <1>7, <1>8, <1>11 DEF Touched, win
<1> QED BY <1>6, <1>10, <1>12 DEF new, win, w, m

LEMMA AdmitStep ==
  ASSUME AdmissionInv, NEW r \in Requests, Admit(r)
  PROVE  AdmissionInv'
<1> DEFINE w == WindowOf(adm[r], adm[r].pc)
<1> DEFINE m == adm[r].read
<1> DEFINE win == WindowAt(w, m)
<1> DEFINE a == IF Exceeds(w, win) THEN 0 ELSE 1
<1> DEFINE new == [win EXCEPT !.requests = @ + a]
<1>1. /\ Touched(w, m, a, 0, new) /\ new \in Window
      /\ passed' \in [WindowIds -> [Minutes -> Nat]]
      /\ charged' \in [WindowIds -> [Minutes -> Nat]]
  BY AdmitTouches
<1>2. adm[r].pc \in Gates /\ adm[r].pc \in Gates \cup Charges /\ adm[r].read # None
      /\ UNCHANGED <<sems, current, arrivals>>
  BY DEF Admit
<1>3. adm[r] \in RequestRecord /\ PlaceOK(adm[r]) /\ adm[r].permit = 0
  BY <1>2 DEF AdmissionInv, AdmissionTypeOK, PlacesOK, PlaceOK
<1>4. a \in {0, 1}
  OBVIOUS
<1>5. CASE Exceeds(w, win)
  <2>1. adm' = [adm EXCEPT ![r] = Outside]
    BY <1>5 DEF Admit
  <2>2. Outside \in RequestRecord /\ PlaceOK(Outside) /\ Outside.permit = adm[r].permit
    BY <1>3, OutsideOK
  <2> HIDE DEF a, new
  <2> QED BY <1>1, <1>2, <1>4, <2>1, <2>2, Locked DEF w, m
<1>6. CASE ~Exceeds(w, win)
  <2> DEFINE pc == GateAfter(adm[r], adm[r].pc)
  <2> DEFINE q == [adm[r] EXCEPT !.pc = pc, !.read = None]
  <2>1. adm' = [adm EXCEPT ![r] = q]
    BY <1>6 DEF Admit
  <2>2. /\ pc \in Gates \cup {"permit"}
        /\ pc = "ip" => adm[r].ip # None
        /\ pc = "key" => adm[r].key # None
    BY <1>2, GateAfterType
  <2> HIDE DEF pc
  <2>3. q \in RequestRecord /\ q.permit = adm[r].permit /\ PlaceOK(q)
    BY <1>3, <2>2 DEF RequestRecord, Places, PlaceOK, Gates, Charges
  <2> HIDE DEF a, new, q
  <2> QED BY <1>1, <1>2, <1>4, <2>1, <2>3, Locked DEF w, m
<1> QED BY <1>5, <1>6

LEMMA AddTokensStep ==
  ASSUME AdmissionInv, NEW r \in Requests, AddTokens(r)
  PROVE  AdmissionInv' /\ passed' = passed
<1> DEFINE w == WindowOf(adm[r], adm[r].pc)
<1> DEFINE m == adm[r].read
<1> DEFINE win == WindowAt(w, m)
<1> DEFINE t == adm[r].tokens
<1> DEFINE new == [win EXCEPT !.tokens = @ + t]
<1> DEFINE pc == IF adm[r].pc = "charge_key" \/ adm[r].key = None THEN "release" ELSE "charge_key"
<1> DEFINE q == [adm[r] EXCEPT !.pc = pc, !.read = None]
<1>1. /\ adm[r].pc \in Gates \cup Charges /\ adm[r].read # None
      /\ UNCHANGED <<sems, current, arrivals, passed, limits, minute>>
      /\ CountLate(m)
      /\ windows' = [Pruned(w, m) EXCEPT ![w] = new]
      /\ charged' = [charged EXCEPT ![w][m] = @ + t]
      /\ adm' = [adm EXCEPT ![r] = q]
  BY DEF AddTokens
<1>2. w \in WindowIds /\ m \in Minutes /\ m <= minute
  BY <1>1, AtTheLock
<1>3. /\ AdmissionTypeOK /\ adm[r] \in RequestRecord /\ PlaceOK(adm[r]) /\ t \in Nat
      /\ passed \in [WindowIds -> [Minutes -> Nat]] /\ charged \in [WindowIds -> [Minutes -> Nat]]
  BY DEF AdmissionInv, AdmissionTypeOK, PlacesOK, RequestRecord
<1>4. q \in RequestRecord /\ q.permit = adm[r].permit /\ PlaceOK(q)
  <2>1. pc \in {"release", "charge_key"} /\ (pc = "charge_key" => adm[r].key # None)
    OBVIOUS
  <2> HIDE DEF pc
  <2> QED BY <2>1, <1>3 DEF RequestRecord, Places, PlaceOK, Gates, Charges
<1> HIDE DEF q, pc, w, m, t
<1>5. win \in Window /\ win.minute = m
  BY <1>2, <1>3, WindowAtType
<1> HIDE DEF win
<1>6. /\ new \in Window /\ new.minute = m /\ new.requests = win.requests + 0
      /\ new.tokens = win.tokens + t
  BY <1>3, <1>5 DEF Window
<1> HIDE DEF new
<1>7. passed' \in [WindowIds -> [Minutes -> Nat]] /\ charged' \in [WindowIds -> [Minutes -> Nat]]
  <2>1. charged[w][m] + t \in Nat
    BY <1>2, <1>3
  <2> QED BY <2>1, <1>1, <1>3
<1>8. \A v \in WindowIds : \A k \in Minutes :
        /\ passed'[v][k] = passed[v][k] + (IF v = w /\ k = m THEN 0 ELSE 0)
        /\ charged'[v][k] = charged[v][k] + (IF v = w /\ k = m THEN t ELSE 0)
  BY <1>1, <1>3
<1>9. Touched(w, m, 0, t, new)
  BY <1>1, <1>6, <1>8 DEF Touched, win
<1>10. AdmissionInv'
  BY <1>1, <1>3, <1>4, <1>6, <1>7, <1>9, Locked DEF w, m
<1> QED BY <1>1, <1>10

LEMMA NextMinuteStep ==
  ASSUME AdmissionInv, NextMinute
  PROVE  AdmissionInv'
<1>1. AdmissionTypeOK /\ PlacesOK /\ PermitsBalanced /\ WindowsOK
  BY DEF AdmissionInv
<1>2. minute \in Minutes /\ minute < MaxMinute /\ minute' = minute + 1
      /\ UNCHANGED <<limits, windows, sems, current, adm, passed, charged, late, arrivals>>
  BY <1>1 DEF NextMinute, AdmissionTypeOK
<1>3. MaxMinute \in Nat /\ minute \in Nat /\ late \in Nat /\ minute' \in Minutes
  BY <1>1, <1>2, AdmissionAssumption DEF Minutes, AdmissionTypeOK
<1>4. AdmissionTypeOK'
  BY <1>1, <1>2, <1>3 DEF AdmissionTypeOK
<1>5. PermitsBalanced'
  BY <1>1, <1>2 DEF PermitsBalanced, Holders
<1>6. PlacesOK'
  <2>1. \A r \in Requests : adm[r].read \in Minutes \cup {None}
    BY <1>1 DEF AdmissionTypeOK, RequestRecord
  <2>2. \A k \in Minutes : k <= minute => k <= minute'
    BY <1>2, <1>3 DEF Minutes
  <2> QED BY <1>1, <1>2, <2>1, <2>2 DEF PlacesOK, PlaceOK
<1>7. ASSUME NEW v \in WindowIds, NEW k \in Minutes
      PROVE  PassedOK(v, k)' /\ ChargedOK(v, k)' /\ FutureOK(v, k)'
  <2>1. PassedOK(v, k) /\ ChargedOK(v, k) /\ FutureOK(v, k) /\ k \in Nat
    BY <1>1, AdmissionAssumption DEF WindowsOK, Minutes
  <2>2. IsOf(v, k)' = IsOf(v, k) /\ LimitOf(v)' = LimitOf(v)
    BY <1>2 DEF IsOf, LimitOf
  <2> DEFINE rpm == LimitOf(v).rpm
  <2>3. rpm \in Nat /\ rpm * (late + 1) = rpm * late + rpm /\ rpm * late \in Nat
    BY <1>1, <1>3, LimitTypes, OneMoreLate
  <2>4. passed[v][k] \in Nat
    BY <1>1 DEF AdmissionTypeOK
  <2>5. PassedOK(v, k)'
    <3>1. SUFFICES ASSUME rpm > 0, ~IsOf(v, k)
                   PROVE  passed[v][k] <= rpm * (IF minute' > k THEN late + 1 ELSE late)
      BY <1>2, <2>1, <2>2 DEF PassedOK
    <3>2. passed[v][k] <= rpm * (IF minute > k THEN late + 1 ELSE late)
      BY <2>1, <3>1 DEF PassedOK
    <3>3. minute < k => passed[v][k] = 0
      BY <2>1 DEF FutureOK
    <3> HIDE DEF rpm
    <3> DEFINE A == rpm * late
    <3>4. A \in Nat /\ rpm * (late + 1) = A + rpm
      BY <2>3
    <3>5. CASE minute > k
      <4>1. minute' > k
        BY <3>5, <1>2, <1>3, <2>1
      <4> QED BY <4>1, <3>2, <3>5
    <3>6. CASE minute <= k
      <4>1. passed[v][k] <= A
        BY <3>2, <3>6, <1>3, <2>1
      <4> HIDE DEF A
      <4>2. passed[v][k] <= A + rpm
        BY <4>1, <3>4, <2>3, <2>4
      <4> QED BY <4>1, <4>2, <3>4 DEF A
    <3> QED BY <3>5, <3>6, <1>3, <2>1
  <2>6. ChargedOK(v, k)'
    BY <1>2, <1>3, <2>1, <2>2 DEF ChargedOK
  <2>7. FutureOK(v, k)'
    BY <1>2, <1>3, <2>1, <2>2 DEF FutureOK
  <2> QED BY <2>5, <2>6, <2>7
<1>8. WindowsOK'
  BY <1>7 DEF WindowsOK
<1> QED BY <1>4, <1>5, <1>6, <1>8 DEF AdmissionInv

\* The requests of a minute stop at the tokens charged in it.
LEMMA StopsAtTokens ==
  ASSUME AdmissionInv, NEW r \in Requests, Admit(r), NEW v \in WindowIds, NEW k \in Minutes,
         passed'[v][k] > passed[v][k], LimitOf(v).tpm > 0, late' = 0
  PROVE  charged[v][k] < LimitOf(v).tpm
<1> DEFINE w == WindowOf(adm[r], adm[r].pc)
<1> DEFINE m == adm[r].read
<1> DEFINE win == WindowAt(w, m)
<1> DEFINE a == IF Exceeds(w, win) THEN 0 ELSE 1
<1> DEFINE new == [win EXCEPT !.requests = @ + a]
<1>1. adm[r].pc \in Gates \cup Charges /\ adm[r].read # None
  BY DEF Admit
<1>2. w \in WindowIds /\ m \in Minutes /\ m <= minute
  BY <1>1, AtTheLock
<1>3. Touched(w, m, a, 0, new)
  BY AdmitTouches
<1>4. /\ AdmissionTypeOK /\ WindowsOK /\ late \in Nat /\ minute \in Minutes /\ Minutes \subseteq Nat
      /\ passed[v][k] \in Nat /\ charged[v][k] \in Nat
  <2>1. Minutes \subseteq Nat
    BY AdmissionAssumption DEF Minutes
  <2> QED BY <2>1 DEF AdmissionInv, AdmissionTypeOK
<1>5. LimitOf(v).tpm \in Nat
  BY <1>4, LimitTypes
<1>6. passed'[v][k] = passed[v][k] + (IF v = w /\ k = m THEN a ELSE 0)
      /\ late' = IF m < minute THEN late + 1 ELSE late
  BY <1>3 DEF Touched, CountLate
<1>7. v = w /\ k = m /\ ~Exceeds(w, win)
  BY <1>4, <1>6
<1>8. late = 0 /\ m = minute
  BY <1>2, <1>4, <1>6
<1> HIDE DEF w, m
<1>9. /\ win \in Window
      /\ IF IsOf(w, m) THEN win = windows[w] ELSE win.requests = 0 /\ win.tokens = 0
  BY <1>2, <1>4, WindowAtType
<1> HIDE DEF win
<1>10. win.tokens \in Nat /\ win.tokens < LimitOf(v).tpm
  BY <1>5, <1>7, <1>9 DEF Exceeds, Window
<1>11. ChargedOK(v, k)
  BY <1>4 DEF WindowsOK
<1>12. charged[v][k] <= win.tokens
  BY <1>4, <1>7, <1>8, <1>9, <1>11 DEF ChargedOK
<1> QED BY <1>4, <1>5, <1>10, <1>12

LEMMA AdmissionInitInv ==
  ASSUME AdmissionInit
  PROVE  AdmissionInv
<1>1. limits \in LimitRecord /\ limits.sizes \subseteq Nat
  BY AdmissionAssumption DEF AdmissionInit, LimitRecord
<1>2. PICK size \in Nat : /\ sems = IF size = 0 THEN <<>> ELSE <<Built(size)>>
                          /\ current = Len(sems)
  BY <1>1 DEF AdmissionInit
<1>3. Built(size) \in Semaphore /\ Built(size).free = Built(size).size /\ Built(size).size \in Nat
  BY DEF Built, Semaphore
<1>4. /\ sems \in Seq(Semaphore) /\ Len(sems) \in Nat
      /\ \A s \in DOMAIN sems : s # 0 /\ sems[s].free = sems[s].size /\ sems[s].size \in Nat
  <2>1. CASE size = 0
    BY <2>1, <1>2
  <2>2. CASE size # 0
    <3>1. sems = <<Built(size)>>
      BY <2>2, <1>2
    <3> HIDE DEF Built
    <3> QED BY <3>1, <1>3
  <2> QED BY <2>1, <2>2
<1>5. adm = [r \in Requests |-> Outside] /\ minute = 0 /\ late = 0 /\ arrivals = 0
  BY DEF AdmissionInit
<1>6. 0 \in Minutes /\ Minutes \subseteq Nat
  BY AdmissionAssumption DEF Minutes
<1>7. AdmissionTypeOK
  <2>1. adm \in [Requests -> RequestRecord] /\ \A r \in Requests : adm[r].permit \in 0..Len(sems)
    BY <1>4, <1>5, OutsideOK
  <2>2. /\ limits \in Limits /\ windows \in [WindowIds -> Window \cup {None}]
        /\ passed \in [WindowIds -> [Minutes -> Nat]]
        /\ charged \in [WindowIds -> [Minutes -> Nat]]
    BY DEF AdmissionInit
  <2>3. current \in 0..Len(sems)
    BY <1>2, <1>4
  <2> QED BY <2>1, <2>2, <2>3, <1>4, <1>5, <1>6 DEF AdmissionTypeOK
<1>8. PlacesOK
  <2>1. PlaceOK(Outside)
    BY OutsideOK
  <2> QED BY <2>1, <1>5 DEF PlacesOK
<1>9. PermitsBalanced
  <2> SUFFICES ASSUME NEW s \in DOMAIN sems
               PROVE  sems[s].free + Cardinality(Holders(s)) = sems[s].size
    BY DEF PermitsBalanced
  <2>1. Holders(s) = {}
    BY <1>4, <1>5, OutsideOK DEF Holders
  <2>2. Cardinality(Holders(s)) = 0
    BY <2>1, FS_EmptySet
  <2> QED BY <2>2, <1>4
<1>10. WindowsOK
  <2> SUFFICES ASSUME NEW v \in WindowIds, NEW k \in Minutes
               PROVE  PassedOK(v, k) /\ ChargedOK(v, k) /\ FutureOK(v, k)
    BY DEF WindowsOK
  <2>1. passed[v][k] = 0 /\ charged[v][k] = 0 /\ windows[v] = None /\ k \in Nat
    BY <1>6 DEF AdmissionInit
  <2>2. ~IsOf(v, k)
    BY <2>1 DEF IsOf
  <2>3. LimitOf(v).rpm \in Nat
    BY <1>7, LimitTypes
  <2> QED BY <2>1, <2>2, <2>3, <1>5 DEF PassedOK, ChargedOK, FutureOK
<1> QED BY <1>7, <1>8, <1>9, <1>10 DEF AdmissionInv

\* What the gateway does with the state of admission.
AdmissionStep ==
  \/ \E r \in Requests :
       \/ \E ip \in Ips \cup {None}, key \in ApiKeys \cup {None} : Arrive(r, ip, key)
       \/ Pass(r)
       \/ \E n \in Nat : Finish(r, n)
  \/ \E size \in Nat : ReloadLimits(size)
  \/ NextMinute
  \/ UNCHANGED admissionVars

\* A request that passes its gates is not dispatched; one that is answered is.
LEMMA GatewayIsAdmission ==
  ASSUME AdmissionTypeOK, scene \in Scenarios, [GatewayNext]_gatewayVars
  PROVE  AdmissionStep
<1>1. limits.sizes \subseteq Nat /\ limits.tokens \cup {0} \subseteq Nat
  BY Configured
<1>2. ASSUME NEW r \in Requests, ArriveAtRoute(r) PROVE AdmissionStep
  <2>1. PICK call \in scene.shapes :
          Arrive(r, IF call.route = "realtime" THEN None ELSE call.principal.ip, call.principal.key)
    BY <1>2 DEF ArriveAtRoute
  <2>2. call.principal.ip \in Ips \cup {None} /\ call.principal.key \in ApiKeys \cup {None}
    BY CallersAreKnown
  <2> DEFINE ip == IF call.route = "realtime" THEN None ELSE call.principal.ip
  <2>3. ip \in Ips \cup {None}
    BY <2>2
  <2> HIDE DEF ip
  <2>4. Arrive(r, ip, call.principal.key)
    BY <2>1 DEF ip
  <2> QED BY <2>2, <2>3, <2>4 DEF AdmissionStep
<1>3. ASSUME NEW r \in Requests, Pass(r) PROVE AdmissionStep
  BY <1>3 DEF AdmissionStep
<1>4. ASSUME NEW r \in Requests, Dispatched(r) PROVE AdmissionStep
  BY <1>4 DEF AdmissionStep, Dispatched
<1>5. ASSUME NEW r \in Requests, Answered(r) PROVE AdmissionStep
  BY <1>5, <1>1 DEF AdmissionStep, Answered
<1>6. ASSUME NEW size \in limits.sizes, ReloadLimits(size) PROVE AdmissionStep
  BY <1>6, <1>1 DEF AdmissionStep
<1>7. CASE NextMinute
  BY <1>7 DEF AdmissionStep
<1>8. CASE UNCHANGED admissionVars
  BY <1>8 DEF AdmissionStep
<1>9. CASE GatewayNext
  BY <1>2, <1>3, <1>4, <1>5, <1>6, <1>7, <1>8, <1>9 DEF GatewayNext
<1>10. CASE UNCHANGED gatewayVars
  BY <1>8, <1>10 DEF gatewayVars
<1> QED BY <1>9, <1>10

\* Every step keeps the invariant, and only Admit lets a request pass.
LEMMA AdmissionStepInv ==
  ASSUME AdmissionInv, AdmissionStep
  PROVE  AdmissionInv' /\ (passed' = passed \/ \E r \in Requests : Admit(r))
<1>1. ASSUME NEW r \in Requests, NEW ip \in Ips \cup {None}, NEW key \in ApiKeys \cup {None},
             Arrive(r, ip, key)
      PROVE  AdmissionInv' /\ passed' = passed
  BY <1>1, ArriveStep DEF Arrive
<1>2. ASSUME NEW r \in Requests, Deny(r) PROVE AdmissionInv' /\ passed' = passed
  BY <1>2, DenyStep DEF Deny
<1>3. ASSUME NEW r \in Requests, ReadClock(r) PROVE AdmissionInv' /\ passed' = passed
  BY <1>3, ReadClockStep DEF ReadClock
<1>4. ASSUME NEW r \in Requests, Admit(r) PROVE AdmissionInv'
  BY <1>4, AdmitStep
<1>5. ASSUME NEW r \in Requests, Acquire(r) PROVE AdmissionInv' /\ passed' = passed
  BY <1>5, AcquireStep DEF Acquire
<1>6. ASSUME NEW r \in Requests, AddTokens(r) PROVE AdmissionInv' /\ passed' = passed
  BY <1>6, AddTokensStep
<1>7. ASSUME NEW r \in Requests, Release(r) PROVE AdmissionInv' /\ passed' = passed
  BY <1>7, ReleaseStep DEF Release
<1>8. ASSUME NEW r \in Requests, NEW n \in Nat, Finish(r, n) PROVE AdmissionInv' /\ passed' = passed
  BY <1>8, FinishStep DEF Finish
<1>9. ASSUME NEW size \in Nat, ReloadLimits(size) PROVE AdmissionInv' /\ passed' = passed
  BY <1>9, ReloadStep DEF ReloadLimits
<1>10. CASE NextMinute
  BY <1>10, NextMinuteStep DEF NextMinute
<1>11. CASE UNCHANGED admissionVars
  <2>1. UNCHANGED <<limits, minute, windows, sems, current, adm, passed, charged, late, arrivals>>
    BY <1>11 DEF admissionVars
  <2>2. AdmissionTypeOK /\ PlacesOK /\ PermitsBalanced /\ WindowsOK
    BY DEF AdmissionInv
  <2>3. AdmissionTypeOK'
    BY <2>1, <2>2 DEF AdmissionTypeOK
  <2>4. PlacesOK' /\ PermitsBalanced'
    BY <2>1, <2>2 DEF PlacesOK, PlaceOK, PermitsBalanced, Holders
  <2>5. WindowsOK'
    BY <2>1, <2>2, WindowsStay
  <2> QED BY <2>1, <2>3, <2>4, <2>5 DEF AdmissionInv
<1> QED BY <1>1, <1>2, <1>3, <1>4, <1>5, <1>6, <1>7, <1>8, <1>9, <1>10, <1>11
        DEF AdmissionStep, Pass

\* What the invariant says of the windows is what the property asks.
LEMMA WindowsKeepLimits == AdmissionInv => RequestsPerMinute
<1> SUFFICES ASSUME AdmissionInv, NEW w \in WindowIds, NEW m \in Minutes, LimitOf(w).rpm > 0
             PROVE  passed[w][m] <= LimitOf(w).rpm * (1 + late)
  BY DEF RequestsPerMinute
<1> DEFINE rpm == LimitOf(w).rpm
<1>1. AdmissionTypeOK /\ PassedOK(w, m) /\ late \in Nat /\ passed[w][m] \in Nat
  BY DEF AdmissionInv, WindowsOK, AdmissionTypeOK
<1>2. rpm \in Nat /\ rpm * (late + 1) = rpm * late + rpm /\ rpm * late \in Nat
  BY <1>1, LimitTypes, OneMoreLate
<1>3. IF IsOf(w, m)
      THEN windows[w].requests <= rpm /\ passed[w][m] <= rpm * late + windows[w].requests
      ELSE passed[w][m] <= rpm * (IF minute > m THEN late + 1 ELSE late)
  BY <1>1 DEF PassedOK
<1>4. IsOf(w, m) => windows[w].requests \in Nat
  BY <1>1 DEF IsOf, AdmissionTypeOK, Window
<1>5. 1 + late = late + 1
  BY <1>1
<1> HIDE DEF rpm
<1> DEFINE A == rpm * late
<1>6. A \in Nat /\ rpm * (late + 1) = A + rpm
  BY <1>2
<1>7. IF IsOf(w, m) THEN windows[w].requests <= rpm /\ passed[w][m] <= A + windows[w].requests
      ELSE passed[w][m] <= A + rpm \/ passed[w][m] <= A
  BY <1>3, <1>6
<1> HIDE DEF A
<1>8. passed[w][m] <= A + rpm
  BY <1>1, <1>2, <1>4, <1>6, <1>7
<1> QED BY <1>5, <1>6, <1>8 DEF rpm

-----------------------------------------------------------------------------
(***************************************************************************)
(* Keep.  Natural numbers by induction over sets of them.                  *)
(***************************************************************************)
NoRepeats(s) == \A i, j \in 1..Len(s) : s[i] = s[j] => i = j

LEMMA Induction ==
  ASSUME NEW T \in SUBSET Nat, 0 \in T, \A n \in T : n + 1 \in T
  PROVE  T = Nat
<1> DEFINE R == OpToRel(<, Nat)
<1>1. SUFFICES ASSUME Nat \ T # {} PROVE FALSE
  OBVIOUS
<1>2. PICK x \in Nat \ T : \A y \in Nat \ T : ~(<<y, x>> \in R)
  BY <1>1, NatLessThanWellFounded, WFMin
<1>3. x # 0 /\ x - 1 \in Nat
  OBVIOUS
<1>4. <<x - 1, x>> \in R
  BY <1>3 DEF OpToRel
<1>5. x - 1 \in T
  BY <1>2, <1>4, <1>3
<1> QED BY <1>5, <1>3

\* One step of Keep.
Kept(s, S, i, before) == IF s[i] \in S THEN Append(before, s[i]) ELSE before

LEMMA KeepExists ==
  ASSUME NEW s, Len(s) \in Nat, NEW S
  PROVE  \E f : f = [i \in 0..Len(s) |-> IF i = 0 THEN <<>> ELSE IF s[i] \in S THEN Append(f[i - 1], s[i]) ELSE f[i - 1]]
<1> DEFINE Upto(n, f) == f = [i \in 0..n |-> IF i = 0 THEN <<>> ELSE Kept(s, S, i, f[i - 1])]
<1> DEFINE T == {n \in Nat : \E f : Upto(n, f)}
<1>1. 0 \in T
  <2> DEFINE f == [i \in 0..0 |-> <<>>]
  <2>1. Upto(0, f)
    OBVIOUS
  <2> QED BY <2>1
<1>2. \A n \in T : n + 1 \in T
  <2> HIDE DEF Upto
  <2> SUFFICES ASSUME NEW n \in Nat, NEW f, Upto(n, f) PROVE \E g : Upto(n + 1, g)
    OBVIOUS
  <2> USE DEF Upto
  <2> DEFINE last == Kept(s, S, n + 1, f[n])
  <2> DEFINE g == [i \in 0..(n + 1) |-> IF i = n + 1 THEN last ELSE f[i]]
  <2> HIDE DEF last
  <2>1. \A i \in 0..n : f[i] = IF i = 0 THEN <<>> ELSE Kept(s, S, i, f[i - 1])
    OBVIOUS
  <2>2. \A i \in 0..n : g[i] = f[i]
    OBVIOUS
  <2>3. ASSUME NEW i \in 0..(n + 1) PROVE g[i] = IF i = 0 THEN <<>> ELSE Kept(s, S, i, g[i - 1])
    <3>1. CASE i = n + 1
      <4>1. g[i - 1] = f[n] /\ i # 0
        BY <3>1, <2>2
      <4> QED BY <3>1, <4>1 DEF last
    <3>2. CASE i # n + 1
      <4>1. i \in 0..n /\ (i # 0 => i - 1 \in 0..n)
        BY <3>2
      <4> HIDE DEF g
      <4> QED BY <4>1, <2>1, <2>2
    <3> QED BY <3>1, <3>2
  <2>4. g = [i \in 0..(n + 1) |-> g[i]]
    OBVIOUS
  <2> HIDE DEF g
  <2>5. Upto(n + 1, g)
    BY <2>3, <2>4
  <2> QED BY <2>5
<1>3. T = Nat
  <2> HIDE DEF T
  <2> QED BY <1>1, <1>2, Induction DEF T
<1>4. PICK f : Upto(Len(s), f)
  BY <1>3
<1> QED BY <1>4, Zenon DEF Kept

\* What Keep returns: the elements of s in S, each where it was met.
LEMMA KeepProperties ==
  ASSUME NEW E, NEW s \in Seq(E), NEW S
  PROVE  /\ Keep(s, S) \in Seq(E)
         /\ \A i \in 1..Len(Keep(s, S)) :
              Keep(s, S)[i] \in S /\ \E m \in 1..Len(s) : s[m] = Keep(s, S)[i]
         /\ \A m \in 1..Len(s) : s[m] \in S => \E i \in 1..Len(Keep(s, S)) : Keep(s, S)[i] = s[m]
         /\ NoRepeats(s) => NoRepeats(Keep(s, S))
<1> DEFINE IsKept(f) == f = [i \in 0..Len(s) |-> IF i = 0 THEN <<>> ELSE IF s[i] \in S THEN Append(f[i - 1], s[i]) ELSE f[i - 1]]
<1> DEFINE f == CHOOSE f : IsKept(f)
<1>1. IsKept(f)
  <2>1. Len(s) \in Nat
    BY LenProperties
  <2>2. \E g : IsKept(g)
    BY <2>1, KeepExists
  <2> HIDE DEF IsKept
  <2> QED BY <2>2
<1>2. Keep(s, S) = f[Len(s)]
  BY Zenon DEF Keep
<1> HIDE DEF f
<1>3. Len(s) \in Nat /\ \A m \in 1..Len(s) : s[m] \in E
  BY LenProperties, ElementOfSeq
<1>4. f[0] = <<>> /\ \A i \in 1..Len(s) : f[i] = Kept(s, S, i, f[i - 1])
  <2>1. 0 \in 0..Len(s) /\ \A i \in 1..Len(s) : i \in 0..Len(s) /\ i # 0
    BY <1>3
  <2>2. \A i \in 0..Len(s) :
          f[i] = IF i = 0 THEN <<>> ELSE IF s[i] \in S THEN Append(f[i - 1], s[i]) ELSE f[i - 1]
    BY <1>1, Zenon
  <2> HIDE DEF IsKept
  <2> QED BY <2>1, <2>2 DEF Kept
<1> HIDE DEF IsKept
<1> DEFINE Right(n) ==
      /\ f[n] \in Seq(E)
      /\ \A i \in 1..Len(f[n]) : f[n][i] \in S /\ \E m \in 1..n : s[m] = f[n][i]
      /\ \A m \in 1..n : s[m] \in S => \E i \in 1..Len(f[n]) : f[n][i] = s[m]
      /\ NoRepeats(s) => NoRepeats(f[n])
<1> DEFINE T == {n \in Nat : n <= Len(s) => Right(n)}
<1>5. 0 \in T
  <2>1. Right(0)
    BY <1>4, EmptySeq DEF NoRepeats
  <2> QED BY <2>1
<1>6. \A n \in T : n + 1 \in T
  <2> HIDE DEF Right
  <2> SUFFICES ASSUME NEW n \in Nat, n + 1 <= Len(s), Right(n) PROVE Right(n + 1)
    BY <1>3
  <2> USE DEF Right
  <2> DEFINE k == f[n]
  <2> DEFINE x == s[n + 1]
  <2>1. f[n + 1] = IF x \in S THEN Append(k, x) ELSE k
    BY <1>3, <1>4 DEF Kept
  <2>2. x \in E /\ k \in Seq(E) /\ Len(k) \in Nat
    BY <1>3, LenProperties
  <2>3. CASE x \notin S
    <3>1. f[n + 1] = k
      BY <2>1, <2>3
    <3>2. \A m \in 1..(n + 1) : m \in 1..n \/ m = n + 1
      OBVIOUS
    <3> QED BY <3>1, <3>2, <2>3
  <2>4. CASE x \in S
    <3> DEFINE a == Append(k, x)
    <3>1. /\ a \in Seq(E) /\ Len(a) = Len(k) + 1
          /\ \A i \in 1..Len(k) : a[i] = k[i]
          /\ a[Len(k) + 1] = x
      BY <2>2, AppendProperties
    <3>2. f[n + 1] = a
      BY <2>1, <2>4
    <3> HIDE DEF a, k, x
    <3>3. \A i \in 1..Len(k) : k[i] \in S /\ \E m \in 1..n : s[m] = k[i]
      BY DEF k
    <3>4. \A m \in 1..n : s[m] \in S => \E i \in 1..Len(k) : k[i] = s[m]
      BY DEF k
    <3>5. NoRepeats(s) => NoRepeats(k)
      BY DEF k
    <3>6. ASSUME NEW i \in 1..Len(a) PROVE a[i] \in S /\ \E m \in 1..(n + 1) : s[m] = a[i]
      <4>1. CASE i = Len(k) + 1
        BY <4>1, <3>1, <2>4 DEF x
      <4>2. CASE i # Len(k) + 1
        <5>1. i \in 1..Len(k) /\ a[i] = k[i]
          BY <4>2, <3>1, <2>2
        <5> QED BY <5>1, <3>3
      <4> QED BY <4>1, <4>2
    <3>7. ASSUME NEW m \in 1..(n + 1), s[m] \in S PROVE \E i \in 1..Len(a) : a[i] = s[m]
      <4>1. CASE m = n + 1
        <5>1. Len(k) + 1 \in 1..Len(a)
          BY <3>1, <2>2
        <5> QED BY <4>1, <5>1, <3>1 DEF x
      <4>2. CASE m # n + 1
        <5>1. PICK i \in 1..Len(k) : k[i] = s[m]
          BY <4>2, <3>4, <3>7
        <5>2. i \in 1..Len(a) /\ a[i] = s[m]
          BY <5>1, <3>1, <2>2
        <5> QED BY <5>2
      <4> QED BY <4>1, <4>2
    <3>8. ASSUME NoRepeats(s) PROVE NoRepeats(a)
      <4>1. \A i \in 1..Len(k) : k[i] # x
        <5> SUFFICES ASSUME NEW i \in 1..Len(k), k[i] = x PROVE FALSE
          OBVIOUS
        <5>1. PICK m \in 1..n : s[m] = x
          BY <3>3
        <5>2. m \in 1..Len(s) /\ n + 1 \in 1..Len(s) /\ m # n + 1
          BY <1>3
        <5> QED BY <5>1, <5>2, <3>8 DEF NoRepeats, x
      <4>2. \A i, j \in 1..Len(k) : k[i] = k[j] => i = j
        BY <3>5, <3>8 DEF NoRepeats
      <4>3. \A i \in 1..Len(a) : i \in 1..Len(k) \/ i = Len(k) + 1
        BY <3>1, <2>2
      <4> SUFFICES ASSUME NEW i \in 1..Len(a), NEW j \in 1..Len(a), a[i] = a[j] PROVE i = j
        BY DEF NoRepeats
      <4>4. CASE i \in 1..Len(k) /\ j \in 1..Len(k)
        BY <4>4, <4>2, <3>1
      <4>5. CASE i \in 1..Len(k) /\ j = Len(k) + 1
        BY <4>5, <4>1, <3>1
      <4>6. CASE i = Len(k) + 1 /\ j \in 1..Len(k)
        BY <4>6, <4>1, <3>1
      <4> QED BY <4>3, <4>4, <4>5, <4>6
    <3> QED BY <3>1, <3>2, <3>6, <3>7, <3>8
  <2> QED BY <2>3, <2>4
<1>7. T = Nat
  <2> HIDE DEF T
  <2> QED BY <1>5, <1>6, Induction DEF T
<1>8. Right(Len(s))
  BY <1>3, <1>7
<1> QED BY <1>2, <1>8

-----------------------------------------------------------------------------
(***************************************************************************)
(* The cache of bindings                                                   *)
(***************************************************************************)
\* An entry is a record, and the recency list names each key once.
CacheOK(c) ==
  /\ DOMAIN c = {"entries", "recent"}
  /\ \A key \in KeysOf(c) :
       DOMAIN c.entries[key] = {"channel", "live"} /\ c.entries[key].live \in BOOLEAN
  /\ c.recent \in Seq(KeysOf(c))
  /\ NoRepeats(c.recent)
  /\ \A key \in KeysOf(c) : \E i \in 1..Len(c.recent) : c.recent[i] = key

\* The bindings of d are bindings of c, each to the channel it was to.
Agrees(c, d) ==
  \A key \in KeysOf(c) \cap KeysOf(d) : d.entries[key].channel = c.entries[key].channel

LEMMA CacheIsFinite ==
  ASSUME NEW c, CacheOK(c)
  PROVE  /\ IsFiniteSet(KeysOf(c)) /\ Cardinality(KeysOf(c)) \in Nat
         /\ ToSet(c.recent) = KeysOf(c)
         /\ Len(c.recent) = Cardinality(KeysOf(c))
<1> DEFINE s == c.recent
<1> DEFINE K == KeysOf(c)
<1>1. /\ s \in Seq(K) /\ Len(s) \in Nat /\ DOMAIN s = 1..Len(s) /\ s \in [1..Len(s) -> K]
      /\ \A i, j \in 1..Len(s) : s[i] = s[j] => i = j
      /\ \A key \in K : \E i \in 1..Len(s) : s[i] = key
  BY LenProperties DEF CacheOK, NoRepeats
<1> HIDE DEF s, K
<1>2. s \in Bijection(1..Len(s), K)
  BY <1>1 DEF Bijection, Injection, Surjection, IsInjective
<1>3. ExistsBijection(1..Len(s), K)
  BY <1>2 DEF ExistsBijection
<1>4. IsFiniteSet(1..Len(s)) /\ Cardinality(1..Len(s)) = Len(s)
  BY <1>1, FS_Interval
<1>5. IsFiniteSet(K) /\ Cardinality(K) = Len(s)
  BY <1>3, <1>4, FS_Bijection
<1>6. ToSet(s) = K
  BY <1>1 DEF ToSet
<1> QED BY <1>1, <1>5, <1>6 DEF s, K

LEMMA EmptyCacheOK == CacheOK(EmptyCache) /\ KeysOf(EmptyCache) = {}
<1>1. KeysOf(EmptyCache) = {}
  BY DEF KeysOf, EmptyCache
<1>2. EmptyCache.recent \in Seq(KeysOf(EmptyCache)) /\ Len(EmptyCache.recent) = 0
  BY DEF EmptyCache
<1> QED BY <1>1, <1>2 DEF CacheOK, EmptyCache, NoRepeats

LEMMA WithoutOK ==
  ASSUME NEW c, CacheOK(c), NEW S
  PROVE  /\ CacheOK(Without(c, S))
         /\ KeysOf(Without(c, S)) = KeysOf(c) \ S
         /\ \A key \in KeysOf(c) \ S : Without(c, S).entries[key] = c.entries[key]
<1> DEFINE rest == KeysOf(c) \ S
<1> DEFINE w == Without(c, S)
<1> DEFINE k == Keep(c.recent, rest)
<1>1. w = [entries |-> Restrict(c.entries, rest), recent |-> k]
  BY DEF Without
<1>2. Restrict(c.entries, rest) = [key \in rest |-> c.entries[key]]
  BY DEF Restrict
<1>3. c.recent \in Seq(KeysOf(c)) /\ NoRepeats(c.recent)
      /\ \A key \in KeysOf(c) : \E i \in 1..Len(c.recent) : c.recent[i] = key
  BY DEF CacheOK
<1>4. /\ k \in Seq(KeysOf(c)) /\ NoRepeats(k)
      /\ \A i \in 1..Len(k) : k[i] \in rest
      /\ \A m \in 1..Len(c.recent) : c.recent[m] \in rest => \E i \in 1..Len(k) : k[i] = c.recent[m]
  <2> HIDE DEF rest
  <2> QED BY <1>3, KeepProperties
<1> HIDE DEF w, k
<1>5. KeysOf(w) = rest /\ w.recent = k /\ DOMAIN w = {"entries", "recent"}
      /\ \A key \in rest : w.entries[key] = c.entries[key]
  BY <1>1, <1>2 DEF KeysOf
<1>6. k \in Seq(rest)
  <2>1. Len(k) \in Nat /\ k = [i \in 1..Len(k) |-> k[i]]
    BY <1>4, LenProperties
  <2> QED BY <2>1, <1>4, IsASeq
<1>7. CacheOK(w)
  <2>1. \A key \in rest : DOMAIN w.entries[key] = {"channel", "live"} /\ w.entries[key].live \in BOOLEAN
    BY <1>5 DEF CacheOK
  <2>2. \A key \in rest : \E i \in 1..Len(k) : k[i] = key
    BY <1>3, <1>4
  <2> HIDE DEF rest
  <2> QED BY <1>4, <1>5, <1>6, <2>1, <2>2 DEF CacheOK
<1> QED BY <1>5, <1>7 DEF w

LEMMA WithOK ==
  ASSUME NEW c, CacheOK(c), NEW key, NEW channel
  PROVE  /\ CacheOK(With(c, key, channel))
         /\ KeysOf(With(c, key, channel)) = KeysOf(c) \cup {key}
         /\ With(c, key, channel).entries[key].channel = channel
         /\ \A k \in KeysOf(c) \ {key} : With(c, key, channel).entries[k] = c.entries[k]
<1> DEFINE o == Without(c, {key})
<1> DEFINE K == KeysOf(c) \cup {key}
<1> DEFINE new == [channel |-> channel, live |-> TRUE]
<1> DEFINE e == [k \in K |-> IF k = key THEN new ELSE c.entries[k]]
<1> DEFINE s == <<key>> \o o.recent
<1> DEFINE w == With(c, key, channel)
<1>1. w = [entries |-> e, recent |-> s]
  BY DEF With
<1>2. CacheOK(o) /\ KeysOf(o) = KeysOf(c) \ {key}
  BY WithoutOK
<1> HIDE DEF o
<1>3. /\ o.recent \in Seq(K) /\ <<key>> \in Seq(K) /\ Len(<<key>>) = 1 /\ <<key>>[1] = key
      /\ NoRepeats(o.recent) /\ Len(o.recent) \in Nat
      /\ \A i \in 1..Len(o.recent) : o.recent[i] \in KeysOf(c) \ {key}
      /\ \A k \in KeysOf(c) \ {key} : \E i \in 1..Len(o.recent) : o.recent[i] = k
  <2>1. o.recent \in Seq(KeysOf(c) \ {key})
    BY <1>2 DEF CacheOK
  <2>2. /\ Len(o.recent) \in Nat /\ o.recent = [i \in 1..Len(o.recent) |-> o.recent[i]]
        /\ \A i \in 1..Len(o.recent) : o.recent[i] \in KeysOf(c) \ {key}
    BY <2>1, LenProperties, ElementOfSeq
  <2>3. o.recent \in Seq(K)
    BY <2>2, IsASeq
  <2> QED BY <1>2, <2>2, <2>3 DEF CacheOK
<1>4. /\ s \in Seq(K) /\ Len(s) = 1 + Len(o.recent)
      /\ \A i \in 1..(1 + Len(o.recent)) : s[i] = IF i <= 1 THEN <<key>>[i] ELSE o.recent[i - 1]
  <2> HIDE DEF K
  <2> QED BY <1>3, ConcatProperties
<1> HIDE DEF s
<1>5. s[1] = key /\ \A i \in 1..Len(s) : i # 1 => i - 1 \in 1..Len(o.recent) /\ s[i] = o.recent[i - 1]
  BY <1>3, <1>4
<1>6. NoRepeats(s)
  <2> SUFFICES ASSUME NEW i \in 1..Len(s), NEW j \in 1..Len(s), s[i] = s[j] PROVE i = j
    BY DEF NoRepeats
  <2>1. CASE i # 1 /\ j # 1
    <3>1. i - 1 \in 1..Len(o.recent) /\ j - 1 \in 1..Len(o.recent) /\ o.recent[i - 1] = o.recent[j - 1]
      BY <2>1, <1>5
    <3>2. i - 1 = j - 1
      BY <3>1, <1>3 DEF NoRepeats
    <3> QED BY <3>2
  <2>2. CASE (i = 1) # (j = 1)
    BY <2>2, <1>3, <1>5
  <2> QED BY <2>1, <2>2
<1>7. \A k \in K : \E i \in 1..Len(s) : s[i] = k
  <2> SUFFICES ASSUME NEW k \in K PROVE \E i \in 1..Len(s) : s[i] = k
    OBVIOUS
  <2>1. CASE k = key
    <3>1. 1 \in 1..Len(s)
      BY <1>3, <1>4
    <3> QED BY <3>1, <2>1, <1>5
  <2>2. CASE k # key
    <3>1. PICK i \in 1..Len(o.recent) : o.recent[i] = k
      BY <2>2, <1>3
    <3>2. i + 1 \in 1..Len(s) /\ i + 1 # 1 /\ (i + 1) - 1 = i
      BY <1>3, <1>4
    <3> QED BY <3>1, <3>2, <1>5
  <2> QED BY <2>1, <2>2
<1> HIDE DEF w
<1>8. DOMAIN w = {"entries", "recent"} /\ w.recent = s /\ w.entries = e /\ KeysOf(w) = K
  BY <1>1 DEF KeysOf
<1>9. \A k \in K : w.entries[k] = IF k = key THEN new ELSE c.entries[k]
  BY <1>8
<1>10. \A k \in K : DOMAIN w.entries[k] = {"channel", "live"} /\ w.entries[k].live \in BOOLEAN
  <2>1. DOMAIN new = {"channel", "live"} /\ new.live \in BOOLEAN
    OBVIOUS
  <2>2. \A k \in K : k # key => k \in KeysOf(c)
    OBVIOUS
  <2> HIDE DEF new, K
  <2> QED BY <1>9, <2>1, <2>2 DEF CacheOK
<1>11. CacheOK(w)
  <2> HIDE DEF K
  <2> QED BY <1>4, <1>6, <1>7, <1>8, <1>10 DEF CacheOK
<1> QED BY <1>8, <1>9, <1>11 DEF w

\* What an operation of the engine may make of the cache c.
Fits(c, d, n) == CacheOK(d) /\ Cardinality(KeysOf(d)) <= n

LEMMA FewerFits ==
  ASSUME NEW c, NEW n \in Nat, Fits(c, c, n), NEW S
  PROVE  Fits(c, Without(c, S), n) /\ Agrees(c, Without(c, S))
<1>1. CacheOK(c) /\ Cardinality(KeysOf(c)) <= n
  BY DEF Fits
<1>2. /\ CacheOK(Without(c, S)) /\ KeysOf(Without(c, S)) = KeysOf(c) \ S
      /\ \A key \in KeysOf(c) \ S : Without(c, S).entries[key] = c.entries[key]
  BY <1>1, WithoutOK
<1>3. /\ IsFiniteSet(KeysOf(c)) /\ Cardinality(KeysOf(c)) \in Nat
      /\ Cardinality(KeysOf(Without(c, S))) \in Nat
  BY <1>1, <1>2, CacheIsFinite
<1>4. Cardinality(KeysOf(c) \ S) <= Cardinality(KeysOf(c))
  <2>1. KeysOf(c) \ S \in SUBSET KeysOf(c)
    OBVIOUS
  <2> QED BY <1>3, <2>1, FS_Subset
<1> QED BY <1>1, <1>2, <1>3, <1>4 DEF Fits, Agrees

\* evict_expired_or_oldest makes room for one: a cache whose last key stays
\* within the limit is left, or a key has gone.
LEMMA MakeRoomOK ==
  ASSUME NEW c, NEW n \in Nat, Fits(c, c, n), NEW max \in Nat, max > 0, max <= n
  PROVE  /\ CacheOK(MakeRoom(c, max)) /\ Cardinality(KeysOf(MakeRoom(c, max))) + 1 <= n
         /\ KeysOf(MakeRoom(c, max)) \subseteq KeysOf(c)
         /\ \A key \in KeysOf(MakeRoom(c, max)) : MakeRoom(c, max).entries[key] = c.entries[key]
<1> DEFINE swept == Without(c, Expired(c))
<1> DEFINE oldest == Last(swept.recent)
<1>1. CacheOK(c)
  BY DEF Fits
<1>2. /\ CacheOK(swept) /\ KeysOf(swept) \subseteq KeysOf(c)
      /\ \A key \in KeysOf(swept) : swept.entries[key] = c.entries[key]
  <2> HIDE DEF swept
  <2>1. /\ CacheOK(Without(c, Expired(c)))
        /\ KeysOf(Without(c, Expired(c))) = KeysOf(c) \ Expired(c)
        /\ \A key \in KeysOf(c) \ Expired(c) : Without(c, Expired(c)).entries[key] = c.entries[key]
    BY <1>1, WithoutOK
  <2> QED BY <2>1 DEF swept
<1>3. Fits(c, swept, n)
  BY FewerFits
<1>4. MakeRoom(c, max) = IF Cardinality(KeysOf(swept)) >= max /\ swept.recent # <<>>
                         THEN Without(swept, {oldest}) ELSE swept
  BY DEF MakeRoom
<1> HIDE DEF swept
<1>5. /\ IsFiniteSet(KeysOf(swept)) /\ Cardinality(KeysOf(swept)) \in Nat
      /\ Len(swept.recent) = Cardinality(KeysOf(swept)) /\ swept.recent \in Seq(KeysOf(swept))
      /\ Cardinality(KeysOf(swept)) <= n
  BY <1>2, <1>3, CacheIsFinite DEF CacheOK, Fits
<1>6. CASE Cardinality(KeysOf(swept)) >= max /\ swept.recent # <<>>
  <2>1. oldest \in KeysOf(swept)
    <3>1. Len(swept.recent) \in 1..Len(swept.recent)
      BY <1>5, <1>6
    <3>2. swept.recent[Len(swept.recent)] \in KeysOf(swept)
      BY <3>1, <1>5, ElementOfSeq
    <3> QED BY <3>2 DEF Last
  <2> HIDE DEF oldest
  <2>2. /\ CacheOK(Without(swept, {oldest}))
        /\ KeysOf(Without(swept, {oldest})) = KeysOf(swept) \ {oldest}
        /\ \A key \in KeysOf(swept) \ {oldest} :
             Without(swept, {oldest}).entries[key] = swept.entries[key]
    BY <1>2, WithoutOK
  <2>3. Cardinality(KeysOf(swept) \ {oldest}) = Cardinality(KeysOf(swept)) - 1
    BY <1>5, <2>1, FS_RemoveElement
  <2>4. MakeRoom(c, max) = Without(swept, {oldest})
    BY <1>4, <1>6
  <2>5. Cardinality(KeysOf(Without(swept, {oldest}))) + 1 <= n
    <3> DEFINE x == Cardinality(KeysOf(swept))
    <3> DEFINE y == Cardinality(KeysOf(swept) \ {oldest})
    <3>1. x \in Nat /\ x <= n /\ y = x - 1
      BY <1>5, <2>3
    <3> HIDE DEF x, y
    <3>2. y + 1 <= n
      BY <3>1
    <3> QED BY <3>2, <2>2 DEF y
  <2> DEFINE left == Without(swept, {oldest})
  <2> HIDE DEF left
  <2>6. /\ KeysOf(left) = KeysOf(swept) \ {oldest} /\ CacheOK(left)
        /\ \A key \in KeysOf(left) : left.entries[key] = swept.entries[key]
    BY <2>2 DEF left
  <2> QED BY <1>2, <2>4, <2>5, <2>6 DEF left
<1>7. CASE ~(Cardinality(KeysOf(swept)) >= max /\ swept.recent # <<>>)
  <2>1. MakeRoom(c, max) = swept
    BY <1>4, <1>7
  <2>2. Len(swept.recent) # 0 => swept.recent # <<>>
    OBVIOUS
  <2>3. Cardinality(KeysOf(swept)) < max
    BY <1>5, <1>7, <2>2
  <2> QED BY <1>2, <1>5, <2>1, <2>3
<1> QED BY <1>6, <1>7

LEMMA RecordOK ==
  ASSUME NEW c, NEW n \in Nat, Fits(c, c, n), NEW s, s.max \in Nat, s.max > 0, s.max <= n,
         NEW d, NEW winner
  PROVE  /\ Fits(c, Record(c, s, d, winner), n)
         /\ ~s.switch => Agrees(c, Record(c, s, d, winner))
<1> DEFINE bound == IF d.key \in KeysOf(c) THEN c.entries[d.key].channel ELSE winner
<1> DEFINE room == IF Cardinality(KeysOf(c)) >= s.max THEN MakeRoom(c, s.max) ELSE c
<1>1. CacheOK(c) /\ Cardinality(KeysOf(c)) <= n /\ Cardinality(KeysOf(c)) \in Nat
  BY CacheIsFinite DEF Fits
<1>2. /\ CacheOK(room) /\ Cardinality(KeysOf(room)) + 1 <= n
      /\ KeysOf(room) \subseteq KeysOf(c)
      /\ \A key \in KeysOf(room) : room.entries[key] = c.entries[key]
  <2>1. CASE Cardinality(KeysOf(c)) >= s.max
    <3>1. room = MakeRoom(c, s.max)
      BY <2>1
    <3> HIDE DEF room
    <3> QED BY <3>1, MakeRoomOK
  <2>2. CASE ~(Cardinality(KeysOf(c)) >= s.max)
    <3>1. room = c
      BY <2>2
    <3> QED BY <3>1, <2>2, <1>1
  <2> QED BY <2>1, <2>2
<1>3. Record(c, s, d, winner) =
        IF bound # winner /\ ~s.switch THEN c ELSE With(room, d.key, winner)
  BY DEF Record
<1> HIDE DEF room
<1>4. CASE bound # winner /\ ~s.switch
  <2>1. Record(c, s, d, winner) = c
    BY <1>3, <1>4
  <2> QED BY <2>1 DEF Agrees
<1>5. CASE ~(bound # winner /\ ~s.switch)
  <2> DEFINE w == With(room, d.key, winner)
  <2>1. /\ CacheOK(w) /\ KeysOf(w) = KeysOf(room) \cup {d.key}
        /\ w.entries[d.key].channel = winner
        /\ \A k \in KeysOf(room) \ {d.key} : w.entries[k] = room.entries[k]
    BY <1>2, WithOK
  <2>2. Record(c, s, d, winner) = w
    BY <1>3, <1>5
  <2> HIDE DEF w
  <2>3. IsFiniteSet(KeysOf(room)) /\ Cardinality(KeysOf(room)) \in Nat
    BY <1>2, CacheIsFinite
  <2>4. Cardinality(KeysOf(w)) <= Cardinality(KeysOf(room)) + 1 /\ Cardinality(KeysOf(w)) \in Nat
    <3>1. Cardinality(KeysOf(room) \cup {d.key}) =
            IF d.key \in KeysOf(room) THEN Cardinality(KeysOf(room)) ELSE Cardinality(KeysOf(room)) + 1
      BY <2>3, FS_AddElement
    <3> QED BY <3>1, <2>1, <2>3
  <2>5. Fits(c, w, n)
    BY <1>2, <2>1, <2>3, <2>4 DEF Fits
  <2>6. ASSUME ~s.switch PROVE Agrees(c, w)
    <3> SUFFICES ASSUME NEW key \in KeysOf(c), key \in KeysOf(w)
                 PROVE  w.entries[key].channel = c.entries[key].channel
      BY DEF Agrees
    <3>1. CASE key = d.key
      BY <3>1, <1>5, <2>1, <2>6
    <3>2. CASE key # d.key
      BY <3>2, <1>2, <2>1
    <3> QED BY <3>1, <3>2
  <2> QED BY <2>2, <2>5, <2>6
<1> QED BY <1>4, <1>5

\* A hit is bound again under its key, to the channel it is bound to.
LEMMA ResolveOK ==
  ASSUME NEW c, NEW n \in Nat, Fits(c, c, n), NEW s, NEW ctx
  PROVE  Fits(c, Resolve(c, s, ctx).cache, n) /\ Agrees(c, Resolve(c, s, ctx).cache)
<1> DEFINE d == Match(s, ctx)
<1> DEFINE bound == c.entries[d.key].channel
<1>1. CacheOK(c) /\ Cardinality(KeysOf(c)) <= n
  BY DEF Fits
<1>2. CASE ~d.matched \/ d.key \notin KeysOf(c)
  <2>1. Resolve(c, s, ctx).cache = c
    BY <1>2, Zenon DEF Resolve
  <2> QED BY <2>1 DEF Agrees
<1>3. CASE ~(~d.matched \/ d.key \notin KeysOf(c)) /\ c.entries[d.key].live
  <2>1. Resolve(c, s, ctx).cache = With(c, d.key, bound)
    BY <1>3 DEF Resolve
  <2> HIDE DEF d
  <2>2. /\ CacheOK(With(c, d.key, bound)) /\ KeysOf(With(c, d.key, bound)) = KeysOf(c) \cup {d.key}
        /\ With(c, d.key, bound).entries[d.key].channel = bound
        /\ \A k \in KeysOf(c) \ {d.key} : With(c, d.key, bound).entries[k] = c.entries[k]
    BY <1>1, WithOK
  <2>3. KeysOf(c) \cup {d.key} = KeysOf(c)
    BY <1>3
  <2> QED BY <1>1, <2>1, <2>2, <2>3 DEF Fits, Agrees
<1>4. CASE ~(~d.matched \/ d.key \notin KeysOf(c)) /\ ~c.entries[d.key].live
  <2>1. Resolve(c, s, ctx).cache = Without(c, {d.key})
    BY <1>4 DEF Resolve
  <2> HIDE DEF d
  <2> QED BY <2>1, FewerFits
<1> QED BY <1>2, <1>3, <1>4

LEMMA LapseOK ==
  ASSUME NEW c, NEW n \in Nat, Fits(c, c, n), NEW key \in KeysOf(c)
  PROVE  Fits(c, Lapse(c, key), n) /\ Agrees(c, Lapse(c, key))
<1> DEFINE old == c.entries[key]
<1> DEFINE new == [old EXCEPT !.live = FALSE]
<1> DEFINE e == [c.entries EXCEPT ![key] = new]
<1> DEFINE l == [c EXCEPT !.entries = e]
<1>1. CacheOK(c) /\ Cardinality(KeysOf(c)) <= n
  BY DEF Fits
<1>2. Lapse(c, key) = l
  BY DEF Lapse
<1>3. DOMAIN new = {"channel", "live"} /\ new.live \in BOOLEAN /\ new.channel = old.channel
  <2>1. DOMAIN old = {"channel", "live"}
    BY <1>1 DEF CacheOK
  <2> HIDE DEF old
  <2> QED BY <2>1
<1> HIDE DEF new, old
<1>4. DOMAIN e = KeysOf(c) /\ \A k \in KeysOf(c) : e[k] = IF k = key THEN new ELSE c.entries[k]
  BY DEF KeysOf
<1> HIDE DEF e
<1>5. DOMAIN l = {"entries", "recent"} /\ l.entries = e /\ l.recent = c.recent
  <2>1. DOMAIN c = {"entries", "recent"}
    BY <1>1 DEF CacheOK
  <2> QED BY <2>1
<1> HIDE DEF l
<1>6. KeysOf(l) = KeysOf(c)
  BY <1>4, <1>5 DEF KeysOf
<1>7. CacheOK(l)
  BY <1>1, <1>3, <1>4, <1>5, <1>6 DEF CacheOK
<1>8. Agrees(c, l)
  BY <1>3, <1>4, <1>5, <1>6 DEF Agrees, old
<1> QED BY <1>1, <1>2, <1>6, <1>7, <1>8 DEF Fits

-----------------------------------------------------------------------------
(***************************************************************************)
(* The requests that are dispatched                                        *)
(***************************************************************************)
Fields == {"pc", "call", "channels", "body", "decision", "plan", "only", "served", "verdict"}

\* The request is pinned under a rule that makes its binding final.
Final(q) == q.decision.skip /\ Pinned(q)

\* Nothing serves a request before it is called, and one whose binding is final
\* is called with a single candidate.
HandledOK(q) ==
  /\ DOMAIN q = Fields
  /\ q.pc \in Steps
  /\ q.pc \notin {"streaming", "done"} => q.served = NoChannel
  /\ q.pc = "calling" /\ Final(q) => \E c : q.plan = <<c>>
  /\ Final(q) /\ HasChannel(q.plan, q.decision.binding)
       => q.served \in {NoChannel, q.decision.binding}

DispatchInv ==
  /\ scene \in Scenarios
  /\ settings.max \in Nat /\ settings.max > 0 /\ settings.max <= roomiest /\ roomiest \in Nat
  /\ Fits(cache, cache, roomiest)
  /\ \A m \in DOMAIN cursors : cursors[m] \in Nat
  /\ DOMAIN handling = Handlers /\ \A h \in Handlers : HandledOK(handling[h])

\* What a step of the handler h does to the dispatcher's state.
HandlerStep(h) ==
  /\ \E q : HandledOK(q) /\ handling' = [handling EXCEPT ![h] = q]
  /\ Fits(cache, cache', roomiest) /\ (~settings.switch => Agrees(cache, cache'))
  /\ \A m \in DOMAIN cursors' : cursors'[m] \in Nat
  /\ UNCHANGED <<scene, settings, roomiest>>

LEMMA CacheStays ==
  ASSUME DispatchInv, UNCHANGED cache
  PROVE  Fits(cache, cache', roomiest) /\ Agrees(cache, cache')
BY DEF DispatchInv, Fits, Agrees

\* A step before the call: the request is not served yet.
LEMMA Unserved ==
  ASSUME NEW q, DOMAIN q = Fields, q.pc \in Steps \ {"calling"}, q.served = NoChannel
  PROVE  HandledOK(q)
BY DEF HandledOK

LEMMA BeginStep ==
  ASSUME DispatchInv, NEW h \in Handlers, NEW call, Begin(h, call)
  PROVE  HandlerStep(h)
<1> DEFINE q == [Idle EXCEPT !.pc = "read", !.call = call]
<1>1. handling' = [handling EXCEPT ![h] = q]
  BY DEF Begin, Set
<1>2. DOMAIN q = Fields /\ q.pc = "read" /\ q.served = NoChannel
  BY DEF Idle, Fields
<1> HIDE DEF q
<1>3. HandledOK(q)
  BY <1>2, Unserved DEF Steps
<1>4. UNCHANGED <<scene, settings, roomiest, cache, cursors>>
  BY DEF Begin
<1> QED BY <1>1, <1>3, <1>4, CacheStays DEF HandlerStep, DispatchInv

LEMMA LeaveStep ==
  ASSUME DispatchInv, NEW h \in Handlers, Leave(h)
  PROVE  HandlerStep(h)
<1>1. handling' = [handling EXCEPT ![h] = Idle]
  BY DEF Leave, Set
<1>2. DOMAIN Idle = Fields /\ Idle.pc = "idle" /\ Idle.served = NoChannel
  BY DEF Idle, Fields
<1>3. HandledOK(Idle)
  BY <1>2, Unserved DEF Steps
<1>4. UNCHANGED <<scene, settings, roomiest, cache, cursors>>
  BY DEF Leave, shared, bounded
<1> QED BY <1>1, <1>3, <1>4, CacheStays DEF HandlerStep, DispatchInv

LEMMA ReadChannelsStep ==
  ASSUME DispatchInv, NEW h \in Handlers, ReadChannels(h)
  PROVE  HandlerStep(h)
<1> DEFINE q == handling[h]
<1> DEFINE chs == Picked(table, {i \in DOMAIN table : Allowed(q.call.principal, table[i])})
<1> DEFINE pc == IF q.call.route = "json" THEN "ask" ELSE "plan"
<1> DEFINE n == [q EXCEPT !.channels = chs, !.pc = pc]
<1>1. handling' = [handling EXCEPT ![h] = n] /\ q.pc = "read"
  BY DEF ReadChannels, Set
<1>2. HandledOK(q) /\ pc \in {"ask", "plan"}
  BY DEF DispatchInv
<1> HIDE DEF q, chs, pc
<1>3. DOMAIN n = Fields /\ n.pc = pc /\ n.served = NoChannel
  BY <1>1, <1>2 DEF HandledOK, Fields
<1> HIDE DEF n
<1>4. HandledOK(n)
  BY <1>2, <1>3, Unserved DEF Steps
<1>5. UNCHANGED <<scene, settings, roomiest, cache, cursors>>
  BY DEF ReadChannels, shared, bounded
<1> QED BY <1>1, <1>4, <1>5, CacheStays DEF HandlerStep, DispatchInv

LEMMA AskAffinityStep ==
  ASSUME DispatchInv, NEW h \in Handlers, AskAffinity(h)
  PROVE  HandlerStep(h)
<1> DEFINE q == handling[h]
<1> DEFINE next == IF q.call.route = "json" THEN "plan" ELSE "pin"
<1> DEFINE n == IF IsActive(settings)
                THEN [q EXCEPT !.body = NeedsBody(settings), !.pc = "resolve"]
                ELSE [q EXCEPT !.pc = next]
<1>1. handling' = [handling EXCEPT ![h] = n] /\ q.pc = "ask"
  BY DEF AskAffinity, Set
<1>2. HandledOK(q) /\ next \in {"plan", "pin"}
  BY DEF DispatchInv
<1> HIDE DEF q, next
<1>3. DOMAIN n = Fields /\ n.pc \in {"plan", "pin", "resolve"} /\ n.served = NoChannel
  BY <1>1, <1>2 DEF HandledOK, Fields
<1> HIDE DEF n
<1>4. HandledOK(n)
  BY <1>3, Unserved DEF Steps
<1>5. UNCHANGED <<scene, settings, roomiest, cache, cursors>>
  BY DEF AskAffinity, shared, bounded
<1> QED BY <1>1, <1>4, <1>5, CacheStays DEF HandlerStep, DispatchInv

LEMMA ResolveAffinityStep ==
  ASSUME DispatchInv, NEW h \in Handlers, ResolveAffinity(h)
  PROVE  HandlerStep(h)
<1> DEFINE q == handling[h]
<1> DEFINE res == Resolve(cache, settings, ContextOf(q))
<1> DEFINE pc == IF q.call.route = "json" THEN "plan" ELSE "pin"
<1> DEFINE n == [q EXCEPT !.decision = res.decision, !.pc = pc]
<1>1. handling' = [handling EXCEPT ![h] = n] /\ q.pc = "resolve" /\ cache' = res.cache
  BY DEF ResolveAffinity, Set
<1>2. HandledOK(q) /\ pc \in {"plan", "pin"} /\ Fits(cache, cache, roomiest) /\ roomiest \in Nat
  BY DEF DispatchInv
<1>3. Fits(cache, res.cache, roomiest) /\ Agrees(cache, res.cache)
  BY <1>2, ResolveOK
<1> HIDE DEF q, pc, res
<1>4. DOMAIN n = Fields /\ n.pc = pc /\ n.served = NoChannel
  BY <1>1, <1>2 DEF HandledOK, Fields
<1> HIDE DEF n
<1>5. HandledOK(n)
  BY <1>2, <1>4, Unserved DEF Steps
<1>6. UNCHANGED <<scene, settings, roomiest, cursors>>
  BY DEF ResolveAffinity, shared, bounded
<1> QED BY <1>1, <1>3, <1>5, <1>6 DEF HandlerStep, DispatchInv

\* Whatever orders the planner may give: the cursor stays a number.
LEMMA PlanRouteStep ==
  ASSUME DispatchInv, NEW h \in Handlers, PlanRoute(h)
  PROVE  HandlerStep(h)
<1> DEFINE q == handling[h]
<1> DEFINE m == q.call.model
<1> DEFINE cands == Collect(q.channels, m, q.call.inbound)
<1> DEFINE turn == policy.selection = "round_robin" /\ cands # <<>>
<1> DEFINE ranked == Ranked(cands, policy)
<1> DEFINE tier == [i \in DOMAIN ranked |-> TierOf(ranked, policy.nativeFirst, i)]
<1>1. PICK order \in Orders(cands, policy, cursors[m]) :
        /\ cursors' = IF turn THEN [cursors EXCEPT ![m] = CursorAfter(@, Cardinality(Range(tier)))]
                      ELSE cursors
        /\ Set(h, [q EXCEPT !.plan = IF q.call.route = "json" THEN order
                                     ELSE NativeOnly(order, q.call.inbound),
                            !.pc = IF q.call.route = "pass" THEN "ask" ELSE "pin"])
  BY Zenon DEF PlanRoute
<1> DEFINE plan == IF q.call.route = "json" THEN order ELSE NativeOnly(order, q.call.inbound)
<1> DEFINE pc == IF q.call.route = "pass" THEN "ask" ELSE "pin"
<1> DEFINE n == [q EXCEPT !.plan = plan, !.pc = pc]
<1>2. handling' = [handling EXCEPT ![h] = n]
  BY <1>1 DEF Set
<1>3. q.pc = "plan" /\ UNCHANGED <<scene, settings, roomiest, cache>>
  BY DEF PlanRoute, shared, bounded
<1>4. HandledOK(q) /\ pc \in {"ask", "pin"} /\ \A k \in DOMAIN cursors : cursors[k] \in Nat
  BY DEF DispatchInv
<1> HIDE DEF turn, cands
<1>5. \A k \in DOMAIN cursors' : cursors'[k] \in Nat
  <2>1. CASE turn
    BY <2>1, <1>1, <1>4 DEF CursorAfter
  <2>2. CASE ~turn
    BY <2>2, <1>1, <1>4
  <2> QED BY <2>1, <2>2
<1> HIDE DEF q, plan, pc, m
<1>6. DOMAIN n = Fields /\ n.pc = pc /\ n.served = NoChannel
  BY <1>3, <1>4 DEF HandledOK, Fields
<1> HIDE DEF n
<1>7. HandledOK(n)
  BY <1>4, <1>6, Unserved DEF Steps
<1> QED BY <1>2, <1>3, <1>5, <1>7, CacheStays DEF HandlerStep

LEMMA PinRouteStep ==
  ASSUME DispatchInv, NEW h \in Handlers, PinRoute(h)
  PROVE  HandlerStep(h)
<1> DEFINE q == handling[h]
<1> DEFINE plan == IF Pinned(q) THEN PinChannel(q.plan, q.decision.binding) ELSE q.plan
<1> DEFINE pc == IF Pinned(q) /\ ~HasChannel(q.plan, q.decision.binding) THEN "drop" ELSE "planned"
<1> DEFINE n == [q EXCEPT !.plan = plan, !.pc = pc]
<1>1. handling' = [handling EXCEPT ![h] = n] /\ q.pc = "pin"
  BY DEF PinRoute, Set
<1>2. HandledOK(q) /\ pc \in {"drop", "planned"}
  BY DEF DispatchInv
<1> HIDE DEF q, plan, pc
<1>3. DOMAIN n = Fields /\ n.pc = pc /\ n.served = NoChannel
  BY <1>1, <1>2 DEF HandledOK, Fields
<1> HIDE DEF n
<1>4. HandledOK(n)
  BY <1>2, <1>3, Unserved DEF Steps
<1>5. UNCHANGED <<scene, settings, roomiest, cache, cursors>>
  BY DEF PinRoute, shared, bounded
<1> QED BY <1>1, <1>4, <1>5, CacheStays DEF HandlerStep, DispatchInv

LEMMA DropBindingStep ==
  ASSUME DispatchInv, NEW h \in Handlers, DropBinding(h)
  PROVE  HandlerStep(h)
<1> DEFINE q == handling[h]
<1> DEFINE n == [q EXCEPT !.pc = "planned"]
<1>1. handling' = [handling EXCEPT ![h] = n] /\ q.pc = "drop"
  BY DEF DropBinding, Set
<1>2. HandledOK(q) /\ Fits(cache, cache, roomiest) /\ roomiest \in Nat
  BY DEF DispatchInv
<1>3. cache' = Without(cache, {q.decision.key}) \/ cache' = cache
  BY DEF DropBinding, Forget
<1> HIDE DEF q
<1>4. Fits(cache, cache', roomiest) /\ Agrees(cache, cache')
  <2>1. Fits(cache, Without(cache, {q.decision.key}), roomiest)
        /\ Agrees(cache, Without(cache, {q.decision.key}))
    BY <1>2, FewerFits
  <2> QED BY <2>1, <1>3, CacheStays
<1>5. DOMAIN n = Fields /\ n.pc = "planned" /\ n.served = NoChannel
  BY <1>1, <1>2 DEF HandledOK, Fields
<1> HIDE DEF n
<1>6. HandledOK(n)
  BY <1>5, Unserved DEF Steps
<1>7. UNCHANGED <<scene, settings, roomiest, cursors>>
  BY DEF DropBinding, shared, bounded
<1> QED BY <1>1, <1>4, <1>6, <1>7 DEF HandlerStep, DispatchInv

\* A binding that is final leaves one candidate.
LEMMA ExecuteStep ==
  ASSUME DispatchInv, NEW h \in Handlers, Execute(h)
  PROVE  HandlerStep(h)
<1> DEFINE q == handling[h]
<1> DEFINE why == IF q.call.route = "json" THEN Diagnose(q.channels, q.call.model, q.call.inbound)
                  ELSE NoNativeEndpoint
<1> DEFINE only == Pinned(q) /\ q.decision.skip
<1> DEFINE plan == IF only THEN PinnedOnly(q.plan) ELSE q.plan
<1> DEFINE n == IF q.plan = <<>> THEN [q EXCEPT !.pc = "done", !.verdict = why]
                ELSE [q EXCEPT !.pc = "calling", !.only = only, !.plan = plan]
<1>1. handling' = [handling EXCEPT ![h] = n] /\ q.pc = "planned"
  BY DEF Execute, Set
<1>2. HandledOK(q)
  BY DEF DispatchInv
<1>3. UNCHANGED <<scene, settings, roomiest, cache, cursors>>
  BY DEF Execute, shared, bounded
<1>4. q.plan # <<>> /\ Final(q) => plan = <<Head(q.plan)>>
  BY DEF Final, PinnedOnly
<1> HIDE DEF why, plan, only, q
<1>5. DOMAIN q = Fields /\ q.served = NoChannel
  BY <1>1, <1>2 DEF HandledOK
<1>6. CASE q.plan = <<>>
  <2>1. DOMAIN n = Fields /\ n.pc = "done" /\ n.served = NoChannel
    BY <1>5, <1>6 DEF Fields
  <2> HIDE DEF n
  <2>2. HandledOK(n)
    BY <2>1, Unserved DEF Steps
  <2> QED BY <1>1, <1>3, <2>2, CacheStays DEF HandlerStep, DispatchInv
<1>7. CASE q.plan # <<>>
  <2>1. /\ DOMAIN n = Fields /\ n.pc = "calling" /\ n.served = NoChannel
        /\ n.plan = plan /\ n.decision = q.decision
    BY <1>5, <1>7 DEF Fields
  <2> HIDE DEF n
  <2>2. Final(n) => \E c : n.plan = <<c>>
    BY <1>4, <1>7, <2>1 DEF Final, Pinned
  <2>3. HandledOK(n)
    BY <2>1, <2>2 DEF HandledOK, Steps
  <2> QED BY <1>1, <1>3, <2>3, CacheStays DEF HandlerStep, DispatchInv
<1> QED BY <1>6, <1>7

\* Where the binding is final, the candidate that succeeds is the only one.
LEMMA SucceedStep ==
  ASSUME DispatchInv, NEW h \in Handlers, NEW channel, Succeed(h, channel)
  PROVE  HandlerStep(h)
<1> DEFINE q == handling[h]
<1> DEFINE pc == IF q.call.stream THEN "streaming" ELSE "done"
<1> DEFINE n == [q EXCEPT !.served = channel, !.pc = pc]
<1>1. /\ handling' = [handling EXCEPT ![h] = n] /\ q.pc = "calling"
      /\ HasChannel(q.plan, channel)
  BY DEF Succeed, Set
<1>2. HandledOK(q) /\ pc \in {"streaming", "done"}
  BY DEF DispatchInv
<1>3. cache' = Record(cache, settings, q.decision, channel) \/ cache' = cache
  BY DEF Succeed
<1>4. UNCHANGED <<scene, settings, roomiest, cursors>>
  BY DEF Succeed, shared, bounded
<1> HIDE DEF q, pc
<1>5. Fits(cache, cache', roomiest) /\ (~settings.switch => Agrees(cache, cache'))
  <2>1. /\ Fits(cache, cache, roomiest) /\ roomiest \in Nat
        /\ settings.max \in Nat /\ settings.max > 0 /\ settings.max <= roomiest
    BY DEF DispatchInv
  <2>2. /\ Fits(cache, Record(cache, settings, q.decision, channel), roomiest)
        /\ ~settings.switch => Agrees(cache, Record(cache, settings, q.decision, channel))
    BY <2>1, RecordOK
  <2> QED BY <2>2, <1>3, CacheStays
<1>6. /\ DOMAIN n = Fields /\ n.pc = pc /\ n.served = channel
      /\ n.plan = q.plan /\ n.decision = q.decision
  BY <1>2 DEF HandledOK, Fields
<1> HIDE DEF n
<1>7. ASSUME Final(n), HasChannel(n.plan, n.decision.binding)
      PROVE  n.served = n.decision.binding
  <2>1. PICK c : q.plan = <<c>>
    BY <1>1, <1>2, <1>6, <1>7 DEF HandledOK, Final, Pinned
  <2>2. \A b : HasChannel(<<c>>, b) => c.channel = b
    BY DEF HasChannel
  <2> QED BY <1>1, <1>6, <1>7, <2>1, <2>2
<1>8. HandledOK(n)
  BY <1>2, <1>6, <1>7 DEF HandledOK, Steps
<1> QED BY <1>1, <1>4, <1>5, <1>8 DEF HandlerStep, DispatchInv

\* The ends of a call: the binding may go, what was served stays.
LEMMA EndOK ==
  ASSUME DispatchInv, NEW h \in Handlers, handling[h].pc \in {"calling", "streaming"},
         handling' = [handling EXCEPT ![h] = [handling[h] EXCEPT !.pc = "done"]],
         NEW S, cache' = Without(cache, S) \/ cache' = cache,
         UNCHANGED <<scene, settings, roomiest, cursors>>
  PROVE  HandlerStep(h)
<1> DEFINE q == handling[h]
<1> DEFINE n == [q EXCEPT !.pc = "done"]
<1>1. HandledOK(q) /\ Fits(cache, cache, roomiest) /\ roomiest \in Nat
  BY DEF DispatchInv
<1>2. Fits(cache, cache', roomiest) /\ Agrees(cache, cache')
  BY <1>1, FewerFits, CacheStays
<1>3. /\ DOMAIN n = Fields /\ n.pc = "done" /\ n.served = q.served
      /\ n.plan = q.plan /\ n.decision = q.decision
  BY <1>1 DEF HandledOK, Fields
<1>4. handling' = [handling EXCEPT ![h] = n]
  OBVIOUS
<1> HIDE DEF n, q
<1>5. HandledOK(n)
  BY <1>1, <1>3 DEF HandledOK, Steps, Final, Pinned
<1> QED BY <1>2, <1>4, <1>5 DEF HandlerStep, DispatchInv

LEMMA FailStep ==
  ASSUME DispatchInv, NEW h \in Handlers, Fail(h)
  PROVE  HandlerStep(h)
<1>1. /\ handling[h].pc = "calling"
      /\ handling' = [handling EXCEPT ![h] = [handling[h] EXCEPT !.pc = "done"]]
      /\ cache' = Without(cache, {handling[h].decision.key}) \/ cache' = cache
      /\ UNCHANGED <<scene, settings, roomiest, cursors>>
  BY DEF Fail, Set, Forget, shared, bounded
<1> QED BY <1>1, EndOK

LEMMA EndStreamStep ==
  ASSUME DispatchInv, NEW h \in Handlers, NEW broken, EndStream(h, broken)
  PROVE  HandlerStep(h)
<1>1. /\ handling[h].pc = "streaming"
      /\ handling' = [handling EXCEPT ![h] = [handling[h] EXCEPT !.pc = "done"]]
      /\ cache' = Without(cache, {handling[h].decision.key}) \/ cache' = cache
      /\ UNCHANGED <<scene, settings, roomiest, cursors>>
  BY DEF EndStream, Set, ForgetIfBoundTo, shared, bounded
<1> QED BY <1>1, EndOK

LEMMA HandleStep ==
  ASSUME DispatchInv, NEW h \in Handlers, Handle(h)
  PROVE  HandlerStep(h)
BY ReadChannelsStep, AskAffinityStep, ResolveAffinityStep, PlanRouteStep, PinRouteStep,
   DropBindingStep, ExecuteStep, SucceedStep, FailStep, EndStreamStep DEF Handle

\* A step of a handler keeps the invariant.
LEMMA HandlerStepInv ==
  ASSUME DispatchInv, NEW h \in Handlers, HandlerStep(h)
  PROVE  /\ DispatchInv' /\ (~settings.switch => Agrees(cache, cache'))
         /\ \A x \in Handlers : x # h => handling'[x] = handling[x]
<1>1. PICK q : HandledOK(q) /\ handling' = [handling EXCEPT ![h] = q]
  BY DEF HandlerStep
<1>2. DOMAIN handling = Handlers /\ \A x \in Handlers : HandledOK(handling[x])
  BY DEF DispatchInv
<1>3. DOMAIN handling' = Handlers
      /\ \A x \in Handlers : handling'[x] = IF x = h THEN q ELSE handling[x]
  BY <1>1, <1>2
<1>4. \A x \in Handlers : HandledOK(handling'[x])
  BY <1>1, <1>2, <1>3
<1>5. \A x \in Handlers : HandledOK(handling[x])'
  BY <1>4 DEF HandledOK, Final, Pinned
<1>6. Fits(cache', cache', roomiest)
  BY DEF HandlerStep, Fits
<1> QED BY <1>3, <1>5, <1>6 DEF HandlerStep, DispatchInv, Fits

LEMMA LoadedMax ==
  ASSUME NEW s, "max" \in DOMAIN s
  PROVE  Loaded(s).max = s.max
BY DEF Loaded

\* A new capacity counts as the roomiest if it is; what administrators do to
\* the cache takes bindings away, or their time.
LEMMA AdministerStep ==
  ASSUME DispatchInv, Administer
  PROVE  /\ DispatchInv' /\ handling' = handling
         /\ Agrees(cache, cache')
<1>1. /\ scene \in Scenarios
      /\ settings.max \in Nat /\ settings.max > 0 /\ settings.max <= roomiest /\ roomiest \in Nat
      /\ Fits(cache, cache, roomiest)
  BY DEF DispatchInv
<1>2. /\ UNCHANGED <<scene, cursors, handling>>
      /\ \/ UNCHANGED <<cache, settings, roomiest>>
         \/ UNCHANGED cache /\ \E s \in scene.settings : ChangeSettings(s)
         \/ /\ UNCHANGED <<settings, roomiest>>
            /\ \/ cache' = EmptyCache
               \/ cache' = Without(cache, Expired(cache))
               \/ \E key \in KeysOf(cache) : cache' = Lapse(cache, key)
  BY DEF Administer, ChangeTable, ChangePolicy, ChangeSettings, ClearBindings, SweepBindings, Swept,
         Expire, shared
<1>4. /\ \A m \in DOMAIN cursors' : cursors'[m] \in Nat
      /\ DOMAIN handling' = Handlers /\ \A h \in Handlers : HandledOK(handling[h])'
  BY <1>2 DEF DispatchInv, HandledOK, Final, Pinned
<1>5. CASE UNCHANGED <<cache, settings, roomiest>>
  BY <1>1, <1>2, <1>4, <1>5, CacheStays DEF DispatchInv, Fits
<1>6. CASE UNCHANGED cache /\ \E s \in scene.settings : ChangeSettings(s)
  <2>1. PICK s \in scene.settings : ChangeSettings(s)
    BY <1>6
  <2>2. "max" \in DOMAIN s /\ s.max \in Nat /\ s.max > 0
    BY <1>1, <2>1, ScenarioAssumption DEF ChangeSettings, ValidSettings
  <2>3. settings' = Loaded(s) /\ roomiest' = IF s.max > roomiest THEN s.max ELSE roomiest
    BY <2>1 DEF ChangeSettings
  <2>4. settings'.max = s.max
    BY <2>2, <2>3, LoadedMax
  <2>5. /\ settings'.max \in Nat /\ settings'.max > 0 /\ settings'.max <= roomiest'
        /\ roomiest' \in Nat /\ roomiest <= roomiest'
    BY <1>1, <2>2, <2>3, <2>4
  <2>6. Fits(cache', cache', roomiest')
    <3>1. Cardinality(KeysOf(cache)) \in Nat /\ Cardinality(KeysOf(cache)) <= roomiest /\ CacheOK(cache)
      BY <1>1, CacheIsFinite DEF Fits
    <3> DEFINE x == Cardinality(KeysOf(cache))
    <3>2. x <= roomiest'
      <4> HIDE DEF x
      <4>1. x \in Nat /\ x <= roomiest
        BY <3>1 DEF x
      <4> QED BY <4>1, <2>5, <1>1
    <3> QED BY <3>1, <3>2, <1>6 DEF Fits
  <2>7. Agrees(cache, cache')
    BY <1>6 DEF Agrees
  <2> QED BY <1>1, <1>2, <1>4, <2>5, <2>6, <2>7 DEF DispatchInv
<1>7. ASSUME Fits(cache, cache', roomiest), Agrees(cache, cache'), UNCHANGED <<settings, roomiest>>
      PROVE  DispatchInv' /\ Agrees(cache, cache')
  BY <1>1, <1>2, <1>4, <1>7 DEF DispatchInv, Fits
<1>8. CASE UNCHANGED <<settings, roomiest>> /\ cache' = EmptyCache
  <2>1. Fits(cache, EmptyCache, roomiest) /\ Agrees(cache, EmptyCache)
    BY <1>1, EmptyCacheOK, FS_EmptySet DEF Fits, Agrees
  <2> QED BY <2>1, <1>2, <1>7, <1>8
<1>9. CASE UNCHANGED <<settings, roomiest>> /\ cache' = Without(cache, Expired(cache))
  BY <1>1, <1>2, <1>7, <1>9, FewerFits
<1>10. CASE /\ UNCHANGED <<settings, roomiest>>
            /\ \E key \in KeysOf(cache) : cache' = Lapse(cache, key)
  BY <1>1, <1>2, <1>7, <1>10, LapseOK
<1> QED BY <1>2, <1>5, <1>6, <1>8, <1>9, <1>10

-----------------------------------------------------------------------------
(***************************************************************************)
(* The gateway                                                             *)
(***************************************************************************)
\* A request is dispatched only while it runs under its permit.
RunningOK == \A r \in Requests : handling[r].pc # "idle" => adm[r].pc = "running"

GatewayInv == AdmissionInv /\ DispatchInv /\ RunningOK

LEMMA GatewayInitInv ==
  ASSUME GatewayInit
  PROVE  GatewayInv
<1>1. AdmissionInv /\ scene \in Scenarios
  BY AdmissionInitInv DEF GatewayInit, DispatchInit
<1>2. PICK s \in scene.settings : ValidSettings(s) /\ settings = Loaded(s) /\ roomiest = settings.max
  BY DEF GatewayInit, DispatchInit
<1>3. "max" \in DOMAIN s /\ s.max \in Nat /\ s.max > 0
  BY <1>1, <1>2, ScenarioAssumption DEF ValidSettings
<1>4. settings.max = s.max
  BY <1>2, <1>3, LoadedMax
<1>5. /\ cursors = [m \in scene.models |-> 0] /\ cache = EmptyCache
      /\ handling = [h \in Handlers |-> Idle]
  BY DEF GatewayInit, DispatchInit
<1>6. HandledOK(Idle) /\ Idle.pc = "idle"
  <2>1. DOMAIN Idle = Fields /\ Idle.pc = "idle" /\ Idle.served = NoChannel
    BY DEF Idle, Fields
  <2> QED BY <2>1, Unserved DEF Steps
<1>7. Fits(cache, cache, roomiest)
  BY <1>2, <1>3, <1>4, <1>5, EmptyCacheOK, FS_EmptySet DEF Fits
<1>8. DispatchInv
  BY <1>1, <1>2, <1>3, <1>4, <1>5, <1>6, <1>7 DEF DispatchInv
<1>9. RunningOK
  BY <1>5, <1>6, HandlersAreRequests DEF RunningOK
<1> QED BY <1>1, <1>8, <1>9 DEF GatewayInv

\* A step of admission leaves the dispatcher alone.
LEMMA DispatchStays ==
  ASSUME DispatchInv, UNCHANGED dispatchVars
  PROVE  DispatchInv' /\ Agrees(cache, cache') /\ handling' = handling
<1>1. UNCHANGED <<scene, settings, roomiest, cache, cursors, handling>>
  BY DEF dispatchVars
<1> QED BY <1>1 DEF DispatchInv, Fits, Agrees, HandledOK, Final, Pinned

\* One that runs does not pass a gate.
LEMMA NotPassing ==
  ASSUME AdmissionTypeOK, RunningOK, NEW r \in Requests,
         ArriveAtRoute(r) \/ (Pass(r) /\ UNCHANGED dispatchVars)
  PROVE  RunningOK'
<1>1. UNCHANGED dispatchVars /\ handling' = handling
  BY Zenon DEF ArriveAtRoute, dispatchVars
<1>2. adm[r].pc # "running"
  BY Zenon DEF ArriveAtRoute, Arrive, Pass, Deny, ReadClock, Admit, Acquire, AddTokens, Release, Gates,
         Charges
<1>3. \A x \in Requests : x # r => adm'[x] = adm[x]
  <2>1. \E q : adm' = [adm EXCEPT ![r] = q]
    BY Zenon DEF ArriveAtRoute, Arrive, Pass, Deny, ReadClock, Admit, Acquire, AddTokens, Release
  <2> QED BY <2>1 DEF AdmissionTypeOK
<1> QED BY <1>1, <1>2, <1>3 DEF RunningOK

\* Each step keeps the invariant, and moves no binding while switching is off.
LEMMA GatewayStepInv ==
  ASSUME GatewayInv, [GatewayNext]_gatewayVars
  PROVE  GatewayInv' /\ (~settings.switch => Agrees(cache, cache'))
<1>1. AdmissionInv /\ DispatchInv /\ RunningOK /\ AdmissionTypeOK /\ scene \in Scenarios
  BY DEF GatewayInv, AdmissionInv, DispatchInv
<1>2. AdmissionInv'
  BY <1>1, GatewayIsAdmission, AdmissionStepInv
<1> DEFINE Goal == DispatchInv' /\ RunningOK' /\ (~settings.switch => Agrees(cache, cache'))
<1>3. ASSUME NEW r \in Requests, ArriveAtRoute(r) \/ (Pass(r) /\ UNCHANGED dispatchVars) PROVE Goal
  <2>1. UNCHANGED dispatchVars
    BY <1>3 DEF ArriveAtRoute
  <2> QED BY <1>1, <1>3, <2>1, DispatchStays, NotPassing
<1>4. ASSUME NEW r \in Requests, Dispatched(r) PROVE Goal
  <2>1. r \in Handlers /\ adm[r].pc = "running" /\ adm' = adm
    BY <1>4, HandlersAreRequests DEF Dispatched, admissionVars
  <2>2. HandlerStep(r)
    BY <1>1, <1>4, <2>1, BeginStep, HandleStep DEF Dispatched
  <2>3. /\ DispatchInv' /\ (~settings.switch => Agrees(cache, cache'))
        /\ \A x \in Handlers : x # r => handling'[x] = handling[x]
    BY <1>1, <2>1, <2>2, HandlerStepInv
  <2>4. RunningOK'
    BY <1>1, <2>1, <2>3, HandlersAreRequests DEF RunningOK
  <2> QED BY <2>3, <2>4
<1>5. ASSUME NEW r \in Requests, Answered(r) PROVE Goal
  <2>1. r \in Handlers /\ Leave(r) /\ \E n : Finish(r, n)
    BY <1>5, HandlersAreRequests DEF Answered
  <2>2. HandlerStep(r)
    BY <1>1, <2>1, LeaveStep
  <2>3. /\ DispatchInv' /\ (~settings.switch => Agrees(cache, cache'))
        /\ \A x \in Handlers : x # r => handling'[x] = handling[x]
    BY <1>1, <2>1, <2>2, HandlerStepInv
  <2>4. handling'[r].pc = "idle"
    BY <1>1, <2>1 DEF Leave, Set, Idle, DispatchInv
  <2>5. \A x \in Requests : x # r => adm'[x] = adm[x]
    <3>1. \E q : adm' = [adm EXCEPT ![r] = q]
      BY <2>1, Zenon DEF Finish
    <3> QED BY <3>1, <1>1 DEF AdmissionTypeOK
  <2>6. RunningOK'
    BY <1>1, <2>3, <2>4, <2>5, HandlersAreRequests DEF RunningOK
  <2> QED BY <2>3, <2>6
<1>6. ASSUME Administer, UNCHANGED admissionVars PROVE Goal
  <2>1. DispatchInv' /\ handling' = handling /\ Agrees(cache, cache')
    BY <1>1, <1>6, AdministerStep
  <2>2. RunningOK'
    BY <1>1, <1>6, <2>1 DEF RunningOK, admissionVars
  <2> QED BY <2>1, <2>2
<1>7. ASSUME UNCHANGED dispatchVars, adm' = adm PROVE Goal
  BY <1>1, <1>7, DispatchStays DEF RunningOK
<1>8. ASSUME NEW size, ReloadLimits(size), UNCHANGED dispatchVars PROVE Goal
  BY <1>7, <1>8 DEF ReloadLimits
<1>9. ASSUME NextMinute, UNCHANGED dispatchVars PROVE Goal
  BY <1>7, <1>9 DEF NextMinute
<1>10. ASSUME UNCHANGED gatewayVars PROVE Goal
  BY <1>7, <1>10 DEF gatewayVars, admissionVars
<1> HIDE DEF Goal
<1>11. ASSUME GatewayNext PROVE Goal
  <2>1. ASSUME NEW r \in Requests,
               \/ ArriveAtRoute(r)
               \/ Pass(r) /\ UNCHANGED dispatchVars
               \/ Dispatched(r)
               \/ Answered(r)
        PROVE  Goal
    <3>1. CASE ArriveAtRoute(r) \/ (Pass(r) /\ UNCHANGED dispatchVars)
      BY <3>1, <1>3
    <3>2. CASE Dispatched(r)
      BY <3>2, <1>4
    <3>3. CASE Answered(r)
      BY <3>3, <1>5
    <3> QED BY <2>1, <3>1, <3>2, <3>3
  <2> QED BY <1>11, <2>1, <1>6, <1>8, <1>9 DEF GatewayNext
<1>12. Goal
  BY <1>10, <1>11
<1> QED BY <1>2, <1>12 DEF Goal, GatewayInv

\* The invariant holds of every behaviour.
LEMMA GatewayInvariant == GatewaySpec => []GatewayInv
<1>1. GatewayInit => GatewayInv
  BY GatewayInitInv
<1>2. GatewayInv /\ [GatewayNext]_gatewayVars => GatewayInv'
  BY GatewayStepInv
<1> QED BY <1>1, <1>2, PTL DEF GatewaySpec

\* Types, the recency list that names each binding once, and dispatch only under
\* a permit.
THEOREM GatewayTypeCorrect == GatewaySpec => []GatewayTypeOK
<1>1. GatewayInv => GatewayTypeOK
  <2> SUFFICES ASSUME GatewayInv PROVE GatewayTypeOK
    OBVIOUS
  <2>1. AdmissionTypeOK /\ DispatchInv /\ RunningOK
    BY DEF GatewayInv, AdmissionInv
  <2>2. ToSet(cache.recent) = KeysOf(cache) /\ Len(cache.recent) = Cardinality(KeysOf(cache))
    BY <2>1, CacheIsFinite DEF DispatchInv, Fits
  <2>3. DispatchTypeOK
    BY <2>1, <2>2 DEF DispatchInv, DispatchTypeOK, HandledOK
  <2> QED BY <2>1, <2>3 DEF GatewayTypeOK, RunningOK
<1> QED BY <1>1, GatewayInvariant, PTL

\* LimitsAreKept, for any limits and any requests: the semaphores never lose or
\* gain a permit, a window lets pass at most one more limit for each lock that
\* was late, and the requests of a minute stop at its tokens.
THEOREM LimitsKept == GatewaySpec => LimitsAreKept
<1> DEFINE Stop == \A w \in WindowIds : \A m \in Minutes :
                     (passed'[w][m] > passed[w][m] /\ LimitOf(w).tpm > 0 /\ late' = 0)
                       => charged[w][m] < LimitOf(w).tpm
<1>1. GatewayInv /\ [GatewayNext]_gatewayVars => [Stop]_admissionVars
  <2> SUFFICES ASSUME GatewayInv, [GatewayNext]_gatewayVars,
                      NEW w \in WindowIds, NEW m \in Minutes, passed'[w][m] > passed[w][m],
                      LimitOf(w).tpm > 0, late' = 0
               PROVE  charged[w][m] < LimitOf(w).tpm
    OBVIOUS
  <2>1. AdmissionInv /\ AdmissionTypeOK /\ scene \in Scenarios /\ passed[w][m] \in Nat
    BY DEF GatewayInv, AdmissionInv, AdmissionTypeOK, DispatchInv
  <2>2. passed' = passed \/ \E r \in Requests : Admit(r)
    BY <2>1, GatewayIsAdmission, AdmissionStepInv
  <2>3. \E r \in Requests : Admit(r)
    BY <2>1, <2>2
  <2> QED BY <2>1, <2>3, StopsAtTokens
<1>2. GatewayInv => PermitsBalanced /\ RequestsPerMinute
  BY WindowsKeepLimits DEF GatewayInv, AdmissionInv
<1> QED BY <1>1, <1>2, GatewayInvariant, PTL DEF GatewaySpec, LimitsAreKept, TokensStopRequests

\* BindingsHold, for any rules, sessions and channels: the cache stays within
\* the largest capacity there was, a session is not moved while switching is
\* off, and a binding that is final is served by its channel or not at all.
THEOREM BindingsKept == GatewaySpec => BindingsHold
<1> DEFINE Stays == ~settings.switch =>
                      \A key \in KeysOf(cache) \cap KeysOf(cache)' :
                        cache'.entries[key].channel = cache.entries[key].channel
<1>1. GatewayInv /\ [GatewayNext]_gatewayVars => [Stays]_dispatchVars
  <2> SUFFICES ASSUME GatewayInv, [GatewayNext]_gatewayVars PROVE Stays
    OBVIOUS
  <2>1. ~settings.switch => Agrees(cache, cache')
    BY GatewayStepInv
  <2> QED BY <2>1 DEF Agrees, KeysOf
<1>2. GatewayInv => CapacityRespected /\ PromiseIsKept
  <2> SUFFICES ASSUME GatewayInv PROVE CapacityRespected /\ PromiseIsKept
    OBVIOUS
  <2>1. Fits(cache, cache, roomiest) /\ \A h \in Handlers : HandledOK(handling[h])
    BY DEF GatewayInv, DispatchInv
  <2> QED BY <2>1 DEF Fits, CapacityRespected, PromiseIsKept, HandledOK, Final
<1> QED BY <1>1, <1>2, GatewayInvariant, PTL DEF GatewaySpec, BindingsHold, BindingNeverSwitches

-----------------------------------------------------------------------------
(***************************************************************************)
(* Numbers: what the orders and the turns rest on.                         *)
(***************************************************************************)
\* The least of a set of numbers.
LEMMA Least ==
  ASSUME NEW T \in SUBSET Nat, T # {}
  PROVE  \E x \in T : \A y \in T : x <= y
<1> DEFINE R == OpToRel(<, Nat)
<1>1. PICK x \in T : \A y \in T : ~(<<y, x>> \in R)
  BY NatLessThanWellFounded, WFMin
<1>2. ASSUME NEW y \in T, y < x PROVE FALSE
  <2>1. <<y, x>> \in R
    BY <1>2 DEF OpToRel
  <2> QED BY <1>1, <2>1
<1> QED BY <1>2

LEMMA Remainder ==
  ASSUME NEW n \in Nat \ {0}, NEW a \in Nat
  PROVE  a % n \in 0..(n - 1)
OBVIOUS

LEMMA RemaindersDiffer ==
  ASSUME NEW n \in Nat \ {0}, NEW base \in Nat, NEW a \in 0..(n - 1), NEW b \in 0..(n - 1),
         (a + base) % n = (b + base) % n
  PROVE  a = b
<1> DEFINE r == (a + base) % n
<1> DEFINE q == (a + base) \div n
<1> DEFINE u == (b + base) \div n
<1>1. q \in Int /\ u \in Int /\ r \in Int
  OBVIOUS
<1>2. a + base = n * q + r /\ b + base = n * u + r
  OBVIOUS
<1> HIDE DEF q, u, r
<1>3. a - b = n * (q - u)
  BY <1>1, <1>2
<1>4. CASE q = u
  BY <1>3, <1>4, <1>1
<1>5. CASE q - u >= 1
  <2>1. n * (q - u) >= n
    BY <1>1, <1>5
  <2> QED BY <2>1, <1>3
<1>6. CASE u - q >= 1
  <2>1. n * (u - q) >= n
    BY <1>1, <1>6
  <2>2. n * (u - q) = b - a
    BY <1>3, <1>1
  <2> QED BY <2>1, <2>2
<1> QED BY <1>1, <1>4, <1>5, <1>6

\* n consecutive numbers leave every remainder.
LEMMA RemaindersAreAll ==
  ASSUME NEW n \in Nat \ {0}, NEW base \in Nat, NEW r \in 0..(n - 1)
  PROVE  \E a \in 0..(n - 1) : (a + base) % n = r
<1> DEFINE S == 0..(n - 1)
<1> DEFINE f == [a \in S |-> (a + base) % n]
<1>1. f \in [S -> S]
  BY Remainder
<1>2. \A a, b \in S : f[a] = f[b] => a = b
  BY RemaindersDiffer
<1>3. IsFiniteSet(S)
  BY FS_Interval
<1>4. f \in Injection(S, S)
  <2> HIDE DEF f
  <2> QED BY <1>1, <1>2 DEF Injection, IsInjective
<1>5. f \in Surjection(S, S)
  <2> HIDE DEF f, S
  <2> QED BY <1>3, <1>4, FS_Injection
<1>6. \E a \in S : f[a] = r
  BY <1>5 DEF Surjection
<1> QED BY <1>6

-----------------------------------------------------------------------------
(***************************************************************************)
(* Sorting.  Tuples of the same length are ordered lexicographically, and  *)
(* a finite set by the tuples its members have.                            *)
(***************************************************************************)
Tuples(n) == [1..n -> Int]

LEMMA BeforeIsStrict ==
  ASSUME NEW n \in Nat, NEW a \in Tuples(n), NEW b \in Tuples(n), NEW c \in Tuples(n)
  PROVE  /\ ~Before(a, a)
         /\ Before(a, b) /\ Before(b, c) => Before(a, c)
<1>1. ~Before(a, a)
  BY DEF Before, Tuples
<1>2. ASSUME Before(a, b), Before(b, c) PROVE Before(a, c)
  <2>1. PICK i \in 1..n : a[i] < b[i] /\ \A k \in 1..(i - 1) : a[k] = b[k]
    BY <1>2 DEF Before, Tuples
  <2>2. PICK j \in 1..n : b[j] < c[j] /\ \A k \in 1..(j - 1) : b[k] = c[k]
    BY <1>2 DEF Before, Tuples
  <2>3. CASE i <= j
    <3>1. a[i] \in Int /\ b[i] \in Int /\ c[i] \in Int
      BY DEF Tuples
    <3>2. b[i] <= c[i]
      BY <2>1, <2>2, <2>3, <3>1
    <3>3. a[i] < c[i]
      BY <2>1, <3>1, <3>2
    <3>4. \A k \in 1..(i - 1) : a[k] = c[k]
      BY <2>1, <2>2, <2>3
    <3> QED BY <3>3, <3>4 DEF Before, Tuples
  <2>4. CASE j < i
    <3>1. a[j] < c[j] /\ \A k \in 1..(j - 1) : a[k] = c[k]
      BY <2>1, <2>2, <2>4 DEF Tuples
    <3> QED BY <3>1 DEF Before, Tuples
  <2> QED BY <2>3, <2>4
<1> QED BY <1>1, <1>2

LEMMA BeforeIsTotal ==
  ASSUME NEW n \in Nat, NEW a \in Tuples(n), NEW b \in Tuples(n), a # b
  PROVE  Before(a, b) \/ Before(b, a)
<1> DEFINE T == {k \in 1..n : a[k] # b[k]}
<1>1. T # {} /\ T \in SUBSET Nat
  BY DEF Tuples
<1>2. PICK k \in T : \A j \in T : k <= j
  BY <1>1, Least
<1>3. k \in 1..n /\ a[k] # b[k] /\ \A j \in 1..(k - 1) : a[j] = b[j]
  BY <1>2
<1>4. a[k] \in Int /\ b[k] \in Int /\ DOMAIN a = 1..n /\ DOMAIN b = 1..n
  BY <1>3 DEF Tuples
<1>5. a[k] < b[k] \/ b[k] < a[k]
  BY <1>3, <1>4
<1> QED BY <1>3, <1>4, <1>5 DEF Before

\* The keys of the members of S are tuples, no two the same.
Keyed(S, key, n) ==
  /\ IsFiniteSet(S) /\ n \in Nat
  /\ key \in [S -> Tuples(n)]
  /\ \A x, y \in S : x # y => key[x] # key[y]

LEMMA InOrderIs ==
  ASSUME NEW S, NEW key, NEW n, Keyed(S, key, n)
  PROVE  LET at == InOrder(S, key)
             m  == Cardinality(S)
         IN  /\ m \in Nat /\ at \in [1..m -> S]
             /\ \A x \in S : \E k \in 1..m : at[k] = x
             /\ \A j, k \in 1..m : j < k => Before(key[at[j]], key[at[k]])
             /\ \A j, k \in 1..m : j # k => at[j] # at[k]
<1> DEFINE m == Cardinality(S)
<1> DEFINE Lower(x) == {y \in S : Before(key[y], key[x])}
<1> DEFINE place == [x \in S |-> Cardinality(Lower(x)) + 1]
<1> DEFINE at == InOrder(S, key)
<1>1. IsFiniteSet(S) /\ n \in Nat /\ m \in Nat /\ \A x \in S : key[x] \in Tuples(n)
  BY FS_CardinalityType DEF Keyed
<1>2. ASSUME NEW x \in S PROVE place[x] \in 1..m
  <2>1. Lower(x) \in SUBSET (S \ {x})
    BY <1>1, BeforeIsStrict
  <2>2. IsFiniteSet(S \ {x}) /\ Cardinality(S \ {x}) = m - 1
    BY <1>1, FS_RemoveElement
  <2>3. Cardinality(Lower(x)) \in Nat /\ Cardinality(Lower(x)) <= m - 1
    BY <2>1, <2>2, FS_Subset, FS_CardinalityType
  <2> QED BY <2>3, <1>1
<1>3. ASSUME NEW x \in S, NEW y \in S, Before(key[x], key[y]) PROVE place[x] < place[y]
  <2>1. x \notin Lower(x)
    BY <1>1, BeforeIsStrict
  <2>2. Lower(x) \cup {x} \in SUBSET Lower(y)
    BY <1>1, <1>3, BeforeIsStrict
  <2>3. IsFiniteSet(Lower(x)) /\ IsFiniteSet(Lower(y))
    BY <1>1, FS_Subset
  <2>4. Cardinality(Lower(x)) \in Nat /\ Cardinality(Lower(y)) \in Nat
    BY <2>3, FS_CardinalityType
  <2>5. Cardinality(Lower(x) \cup {x}) = Cardinality(Lower(x)) + 1
    BY <2>1, <2>3, FS_AddElement
  <2>6. Cardinality(Lower(x) \cup {x}) <= Cardinality(Lower(y))
    BY <2>2, <2>3, FS_Subset
  <2> HIDE DEF Lower
  <2> QED BY <2>4, <2>5, <2>6
<1> HIDE DEF Lower
<1>4. \A x, y \in S : x # y => place[x] # place[y]
  <2> SUFFICES ASSUME NEW x \in S, NEW y \in S, x # y PROVE place[x] # place[y]
    OBVIOUS
  <2>1. Before(key[x], key[y]) \/ Before(key[y], key[x])
    BY <1>1, BeforeIsTotal DEF Keyed
  <2>2. place[x] \in Nat /\ place[y] \in Nat
    BY <1>1, <1>2
  <2> HIDE DEF place
  <2> QED BY <2>1, <2>2, <1>3
<1>5. place \in Surjection(S, 1..m)
  <2>1. place \in [S -> 1..m]
    BY <1>2
  <2>2. place \in Injection(S, 1..m)
    BY <1>4, <2>1 DEF Injection, IsInjective
  <2>3. IsFiniteSet(1..m) /\ Cardinality(1..m) = m
    BY <1>1, FS_Interval
  <2> HIDE DEF place
  <2> QED BY <2>2, <2>3, FS_Injection
<1>6. \A k \in 1..m : \E x \in S : place[x] = k
  BY <1>5 DEF Surjection
<1> DEFINE Place(x) == Cardinality({y \in S : Before(key[y], key[x])}) + 1
<1>7. at = [k \in 1..m |-> CHOOSE x \in S : Place(x) = k]
  BY DEF InOrder
<1>a. \A x \in S : place[x] = Place(x)
  BY DEF Lower
<1> HIDE DEF at, place, Place
<1>8. \A k \in 1..m : at[k] \in S /\ place[at[k]] = k
  BY <1>6, <1>7, <1>a
<1>9. at \in [1..m -> S]
  BY <1>7, <1>8
<1>10. \A x \in S : \E k \in 1..m : at[k] = x
  BY <1>2, <1>4, <1>8
<1>11. ASSUME NEW j \in 1..m, NEW k \in 1..m, j < k PROVE Before(key[at[j]], key[at[k]])
  <2>1. at[j] \in S /\ at[k] \in S /\ place[at[j]] = j /\ place[at[k]] = k
    BY <1>8
  <2>2. at[j] # at[k]
    BY <2>1, <1>11
  <2>3. Before(key[at[j]], key[at[k]]) \/ Before(key[at[k]], key[at[j]])
    BY <1>1, <2>1, <2>2, BeforeIsTotal DEF Keyed
  <2>4. ~Before(key[at[k]], key[at[j]])
    BY <2>1, <1>3, <1>11, <1>1
  <2> QED BY <2>3, <2>4
<1>12. \A j, k \in 1..m : j # k => at[j] # at[k]
  BY <1>8
<1> QED BY <1>1, <1>9, <1>10, <1>11, <1>12 DEF at

\* What is picked is what stands at the places, in their order.
LEMMA PickedIs ==
  ASSUME NEW V, NEW s \in Seq(V), NEW I \in SUBSET DOMAIN s
  PROVE  /\ Picked(s, I) \in Seq(V)
         /\ \E at \in [DOMAIN Picked(s, I) -> I] :
              /\ \A k \in DOMAIN Picked(s, I) : Picked(s, I)[k] = s[at[k]]
              /\ \A i \in I : \E k \in DOMAIN Picked(s, I) : at[k] = i
              /\ \A j, k \in DOMAIN Picked(s, I) : j < k => at[j] < at[k]
<1> DEFINE key == [i \in I |-> <<i>>]
<1> DEFINE at == InOrder(I, key)
<1> DEFINE m == Cardinality(I)
<1>1. DOMAIN s = 1..Len(s) /\ Len(s) \in Nat
  OBVIOUS
<1>2. IsFiniteSet(I) /\ \A i \in I : i \in Int
  <2>1. IsFiniteSet(1..Len(s))
    BY <1>1, FS_Interval
  <2> QED BY <1>1, <2>1, FS_Subset
<1>3. Keyed(I, key, 1)
  <2>1. \A i \in I : key[i] \in Tuples(1) /\ key[i][1] = i
    BY <1>2 DEF Tuples
  <2>2. \A i, j \in I : i # j => key[i] # key[j]
    BY <2>1
  <2>3. key \in [I -> Tuples(1)]
    BY <2>1
  <2> QED BY <1>2, <2>2, <2>3 DEF Keyed
<1>4. /\ m \in Nat /\ at \in [1..m -> I]
      /\ \A i \in I : \E k \in 1..m : at[k] = i
      /\ \A j, k \in 1..m : j < k => Before(key[at[j]], key[at[k]])
  <2> HIDE DEF key
  <2> QED BY <1>3, InOrderIs
<1>5. \A i, j \in I : Before(key[i], key[j]) => i < j
  BY <1>2 DEF Before
<1>6. Picked(s, I) = IF s = <<>> THEN s ELSE [k \in DOMAIN at |-> s[at[k]]]
  BY DEF Picked
<1> HIDE DEF at, key, m
<1>7. \A j, k \in 1..m : j < k => at[j] < at[k]
  BY <1>4, <1>5
<1>8. s = <<>> => I = {} /\ m = 0
  <2>1. s = <<>> => I = {}
    BY <1>1
  <2> QED BY <2>1, FS_EmptySet DEF m
<1>9. DOMAIN Picked(s, I) = 1..m /\ \A k \in 1..m : Picked(s, I)[k] = s[at[k]]
  BY <1>4, <1>6, <1>8
<1>10. Picked(s, I) \in Seq(V)
  <2>1. CASE s = <<>>
    BY <2>1, <1>6
  <2>2. CASE s # <<>>
    <3>1. \A k \in 1..m : s[at[k]] \in V
      BY <1>1, <1>4
    <3>2. Picked(s, I) = [k \in 1..m |-> s[at[k]]]
      BY <2>2, <1>4, <1>6
    <3> QED BY <3>1, <3>2, <1>4
  <2> QED BY <2>1, <2>2
<1> QED BY <1>4, <1>7, <1>9, <1>10

LEMMA PlacesFinite ==
  ASSUME NEW V, NEW s \in Seq(V)
  PROVE  IsFiniteSet(DOMAIN s) /\ Cardinality(DOMAIN s) = Len(s)
<1> DEFINE l == Len(s)
<1>1. DOMAIN s = 1..l /\ l \in Nat
  OBVIOUS
<1>2. IsFiniteSet(1..l) /\ Cardinality(1..l) = l
  <2> HIDE DEF l
  <2> QED BY <1>1, FS_Interval
<1> QED BY <1>1, <1>2

\* t is a permutation of s, the least key first.
Sorts(t, s, key) ==
  \E at \in [DOMAIN s -> DOMAIN s] :
    /\ \A k \in DOMAIN s : t[k] = s[at[k]]
    /\ \A i \in DOMAIN s : \E k \in DOMAIN s : at[k] = i
    /\ \A j, k \in DOMAIN s : j < k => Before(key[at[j]], key[at[k]])
    /\ \A j, k \in DOMAIN s : j # k => at[j] # at[k]

LEMMA SortedIs ==
  ASSUME NEW V, NEW s \in Seq(V), NEW key, NEW n, Keyed(DOMAIN s, key, n)
  PROVE  /\ Sorted(s, key) \in Seq(V) /\ DOMAIN Sorted(s, key) = DOMAIN s
         /\ Sorts(Sorted(s, key), s, key)
<1> DEFINE at == InOrder(DOMAIN s, key)
<1>1. DOMAIN s = 1..Len(s) /\ Len(s) \in Nat
  OBVIOUS
<1>2. IsFiniteSet(DOMAIN s) /\ Cardinality(DOMAIN s) = Len(s)
  BY PlacesFinite
<1>4. /\ at \in [DOMAIN s -> DOMAIN s]
      /\ \A i \in DOMAIN s : \E k \in DOMAIN s : at[k] = i
      /\ \A j, k \in DOMAIN s : j < k => Before(key[at[j]], key[at[k]])
      /\ \A j, k \in DOMAIN s : j # k => at[j] # at[k]
  <2> DEFINE D == DOMAIN s
  <2>1. D = 1..Cardinality(D)
    BY <1>1, <1>2
  <2> HIDE DEF D
  <2>2. /\ InOrder(D, key) \in [1..Cardinality(D) -> D]
        /\ \A i \in D : \E k \in 1..Cardinality(D) : InOrder(D, key)[k] = i
        /\ \A j, k \in 1..Cardinality(D) : j < k => Before(key[InOrder(D, key)[j]], key[InOrder(D, key)[k]])
        /\ \A j, k \in 1..Cardinality(D) : j # k => InOrder(D, key)[j] # InOrder(D, key)[k]
    BY InOrderIs DEF D
  <2> QED BY <2>1, <2>2 DEF D
<1>5. Sorted(s, key) = IF s = <<>> THEN s ELSE [k \in DOMAIN s |-> s[at[k]]]
  BY DEF Sorted
<1> HIDE DEF at
<1>6. DOMAIN Sorted(s, key) = DOMAIN s /\ \A k \in DOMAIN s : Sorted(s, key)[k] = s[at[k]]
  BY <1>5
<1>7. Sorted(s, key) \in Seq(V)
  <2>1. \A k \in 1..Len(s) : s[at[k]] \in V
    BY <1>1, <1>4
  <2>2. Sorted(s, key) = s \/ Sorted(s, key) = [k \in 1..Len(s) |-> s[at[k]]]
    BY <1>1, <1>5
  <2> QED BY <1>1, <2>1, <2>2
<1> QED BY <1>4, <1>6, <1>7 DEF Sorts

-----------------------------------------------------------------------------
(***************************************************************************)
(* Candidates                                                              *)
(***************************************************************************)
Candidates == [channel : Nat, protocol : Protocols, native : BOOLEAN,
               priority : Int, order : Nat, weight : Nat]

\* The channels a request has in hand.
ChannelsOK(channels) ==
  channels \in Seq(ToSet(channels)) /\ \A ch \in ToSet(channels) : ValidChannel(ch)

EndpointAt(channels, p) == channels[p[1]].endpoints[p[2]]

LEMMA FittingIs ==
  ASSUME NEW channels, ChannelsOK(channels), NEW model, NEW inbound
  PROVE  /\ \A p : p \in Fitting(channels, model, inbound) <=>
              /\ p \in UNION {{i} \X DOMAIN channels[i].endpoints : i \in DOMAIN channels}
              /\ Offers(channels[p[1]], EndpointAt(channels, p), model)
              /\ CanServe(EndpointAt(channels, p), inbound)
         /\ \A p \in Fitting(channels, model, inbound) :
              /\ p[1] \in DOMAIN channels /\ p[2] \in DOMAIN channels[p[1]].endpoints
              /\ p = <<p[1], p[2]>>
              /\ channels[p[1]] \in ToSet(channels)
              /\ EndpointAt(channels, p) \in ToSet(channels[p[1]].endpoints)
              /\ Candidate(channels[p[1]], EndpointAt(channels, p), inbound) \in Candidates
              /\ p \in Tuples(2)
<1>1. \A p : p \in Fitting(channels, model, inbound) <=>
        /\ p \in UNION {{i} \X DOMAIN channels[i].endpoints : i \in DOMAIN channels}
        /\ Offers(channels[p[1]], EndpointAt(channels, p), model)
        /\ CanServe(EndpointAt(channels, p), inbound)
  BY DEF Fitting, EndpointAt
<1>2. ASSUME NEW p \in Fitting(channels, model, inbound)
      PROVE  /\ p[1] \in DOMAIN channels /\ p[2] \in DOMAIN channels[p[1]].endpoints
             /\ p = <<p[1], p[2]>>
             /\ channels[p[1]] \in ToSet(channels)
             /\ EndpointAt(channels, p) \in ToSet(channels[p[1]].endpoints)
             /\ Candidate(channels[p[1]], EndpointAt(channels, p), inbound) \in Candidates
             /\ p \in Tuples(2)
  <2>1. PICK i \in DOMAIN channels : p \in {i} \X DOMAIN channels[i].endpoints
    BY <1>1
  <2>2. p = <<i, p[2]>> /\ p[1] = i /\ p[2] \in DOMAIN channels[i].endpoints
    BY <2>1
  <2> DEFINE ch == channels[i]
  <2> DEFINE e == ch.endpoints[p[2]]
  <2>3. ch \in ToSet(channels) /\ i \in Nat
    BY <2>1 DEF ToSet, ChannelsOK
  <2>4. ValidChannel(ch)
    BY <2>3 DEF ChannelsOK
  <2>5. e \in ToSet(ch.endpoints) /\ p[2] \in Nat
    BY <2>2, <2>4 DEF ToSet, ValidChannel
  <2>6. /\ ch.id \in Nat /\ ch.priority \in Int /\ ch.weight \in Nat
        /\ e.protocol \in Protocols /\ e.order \in Nat
    BY <2>4, <2>5 DEF ValidChannel
  <2>7. EndpointAt(channels, p) = e
    BY <2>2 DEF EndpointAt
  <2>8. p \in Tuples(2)
    BY <2>2, <2>3, <2>5 DEF Tuples
  <2>9. Candidate(ch, e, inbound) \in Candidates
    <3> HIDE DEF ch, e
    <3> QED BY <2>6 DEF Candidate, Candidates
  <2> QED BY <2>1, <2>2, <2>3, <2>5, <2>7, <2>8, <2>9
<1> QED BY <1>1, <1>2

LEMMA FittingIsFinite ==
  ASSUME NEW channels, ChannelsOK(channels), NEW model, NEW inbound
  PROVE  IsFiniteSet(Fitting(channels, model, inbound))
<1> DEFINE D == DOMAIN channels
<1> DEFINE f == [i \in D |-> {i} \X DOMAIN channels[i].endpoints]
<1> DEFINE T == {f[i] : i \in D}
<1>1. IsFiniteSet(D)
  <2>1. D = 1..Len(channels) /\ Len(channels) \in Nat
    BY DEF ChannelsOK
  <2> QED BY <2>1, FS_Interval
<1>2. IsFiniteSet(T)
  <2>1. f \in Surjection(D, T)
    BY DEF Surjection
  <2> QED BY <1>1, <2>1, FS_Surjection
<1>3. ASSUME NEW i \in D PROVE IsFiniteSet(f[i])
  <2>1. ValidChannel(channels[i])
    BY DEF ChannelsOK, ToSet
  <2> DEFINE es == channels[i].endpoints
  <2>2. DOMAIN es = 1..Len(es) /\ Len(es) \in Nat
    <3>1. es \in Seq(ToSet(es))
      BY <2>1 DEF ValidChannel
    <3> QED BY <3>1
  <2>3. IsFiniteSet(DOMAIN es)
    BY <2>2, FS_Interval
  <2> QED BY <2>3, FS_Product, FS_Singleton
<1>4. IsFiniteSet(UNION T)
  BY <1>2, <1>3, FS_UNION
<1>5. Fitting(channels, model, inbound) \in SUBSET UNION T
  BY DEF Fitting
<1> QED BY <1>4, <1>5, FS_Subset

\* A candidate is an endpoint that can serve, and there is one for each.
LEMMA CollectIs ==
  ASSUME NEW channels, ChannelsOK(channels), NEW model, NEW inbound
  PROVE  LET cs == Collect(channels, model, inbound)
         IN  /\ cs \in Seq(Candidates)
             /\ \A n \in DOMAIN cs : \E p \in Fitting(channels, model, inbound) :
                  cs[n] = Candidate(channels[p[1]], EndpointAt(channels, p), inbound)
             /\ \A p \in Fitting(channels, model, inbound) : \E n \in DOMAIN cs :
                  cs[n] = Candidate(channels[p[1]], EndpointAt(channels, p), inbound)
<1> DEFINE F == Fitting(channels, model, inbound)
<1> DEFINE key == [p \in F |-> p]
<1> DEFINE at == InOrder(F, key)
<1> DEFINE m == Cardinality(F)
<1> DEFINE cs == Collect(channels, model, inbound)
<1>1. Keyed(F, key, 2)
  BY FittingIsFinite, FittingIs DEF Keyed
<1>2. cs = [n \in DOMAIN at |-> Candidate(channels[at[n][1]], EndpointAt(channels, at[n]), inbound)]
  BY DEF Collect, EndpointAt
<1>3. m \in Nat /\ at \in [1..m -> F] /\ \A p \in F : \E k \in 1..m : at[k] = p
  <2> HIDE DEF F, key
  <2> QED BY <1>1, InOrderIs
<1>4. \A p \in F : Candidate(channels[p[1]], EndpointAt(channels, p), inbound) \in Candidates
  BY FittingIs
<1> HIDE DEF F, at, m, cs
<1>5. cs \in Seq(Candidates) /\ DOMAIN cs = 1..m
  BY <1>2, <1>3, <1>4
<1>6. \A n \in 1..m : at[n] \in F /\ cs[n] = Candidate(channels[at[n][1]], EndpointAt(channels, at[n]), inbound)
  BY <1>2, <1>3
<1> QED BY <1>3, <1>5, <1>6 DEF F, cs

-----------------------------------------------------------------------------
(***************************************************************************)
(* Ranks                                                                   *)
(***************************************************************************)
\* Of two candidates of a channel c is one to keep.
NotWorse(c, d) == (d.native => c.native) /\ ((c.native <=> d.native) => c.order <= d.order)

Prefers(c, d) == c.channel < d.channel \/ (c.channel = d.channel /\ NotWorse(c, d))

\* c is in the tier of d or in a better one.
Above(c, d, nativeFirst) ==
  \/ nativeFirst /\ c.native /\ ~d.native
  \/ (nativeFirst => (c.native <=> d.native)) /\ c.priority >= d.priority

LEMMA CandidateType ==
  ASSUME NEW c \in Candidates
  PROVE  c.channel \in Nat /\ c.native \in BOOLEAN /\ c.priority \in Int /\ c.order \in Nat
BY DEF Candidates

\* Two sequences of the same candidates.
SameElements(s, t) ==
  /\ \A k \in DOMAIN s : \E i \in DOMAIN t : s[k] = t[i]
  /\ \A i \in DOMAIN t : \E k \in DOMAIN s : s[k] = t[i]

LEMMA PreferredIs ==
  ASSUME NEW cs \in Seq(Candidates)
  PROVE  LET pr == PreferredFirst(cs)
         IN  /\ pr \in Seq(Candidates) /\ SameElements(pr, cs)
             /\ \A j, k \in DOMAIN pr : j < k => Prefers(pr[j], pr[k])
<1> DEFINE pr == PreferredFirst(cs)
<1> DEFINE key == [i \in DOMAIN cs |-> <<cs[i].channel, Flag(~cs[i].native), cs[i].order, i>>]
<1>1. \A i \in DOMAIN cs : i \in Nat /\ cs[i] \in Candidates
  OBVIOUS
<1>2. ASSUME NEW i \in DOMAIN cs PROVE key[i] \in Tuples(4) /\ key[i][4] = i
  <2>1. cs[i].channel \in Int /\ Flag(~cs[i].native) \in Int /\ cs[i].order \in Int /\ i \in Int
    BY <1>1, CandidateType DEF Flag
  <2> HIDE DEF Flag
  <2> QED BY <2>1 DEF Tuples
<1>3. Keyed(DOMAIN cs, key, 4)
  <2>1. \A i, j \in DOMAIN cs : i # j => key[i] # key[j]
    BY <1>2
  <2>2. key \in [DOMAIN cs -> Tuples(4)]
    BY <1>2
  <2> QED BY <2>1, <2>2, PlacesFinite DEF Keyed
<1>4. ASSUME NEW i \in DOMAIN cs, NEW j \in DOMAIN cs, Before(key[i], key[j])
      PROVE  Prefers(cs[i], cs[j])
  <2>1. /\ cs[i].channel \in Nat /\ cs[i].native \in BOOLEAN /\ cs[i].order \in Nat
        /\ cs[j].channel \in Nat /\ cs[j].native \in BOOLEAN /\ cs[j].order \in Nat
    BY <1>1, CandidateType
  <2>2. PICK k \in 1..4 : key[i][k] < key[j][k] /\ \A l \in 1..(k - 1) : key[i][l] = key[j][l]
    BY <1>4 DEF Before
  <2>3. CASE k = 1
    BY <2>1, <2>2, <2>3 DEF Prefers
  <2>4. CASE k = 2
    <3>1. cs[i].channel = cs[j].channel /\ Flag(~cs[i].native) < Flag(~cs[j].native)
      BY <2>2, <2>4
    <3> QED BY <2>1, <3>1 DEF Flag, Prefers, NotWorse
  <2>5. CASE k \in {3, 4}
    <3>1. /\ cs[i].channel = cs[j].channel /\ Flag(~cs[i].native) = Flag(~cs[j].native)
          /\ cs[i].order <= cs[j].order
      BY <2>1, <2>2, <2>5
    <3> QED BY <2>1, <3>1 DEF Flag, Prefers, NotWorse
  <2> QED BY <2>3, <2>4, <2>5
<1>5. pr = Sorted(cs, key)
  BY DEF PreferredFirst
<1> HIDE DEF key
<1>6. /\ pr \in Seq(Candidates) /\ DOMAIN pr = DOMAIN cs
      /\ Sorts(pr, cs, key)
  BY <1>3, <1>5, SortedIs
<1> HIDE DEF pr
<1>7. PICK at \in [DOMAIN cs -> DOMAIN cs] :
              /\ \A k \in DOMAIN cs : pr[k] = cs[at[k]]
              /\ \A i \in DOMAIN cs : \E k \in DOMAIN cs : at[k] = i
              /\ \A j, k \in DOMAIN cs : j < k => Before(key[at[j]], key[at[k]])
  BY <1>6 DEF Sorts
<1>8. SameElements(pr, cs)
  BY <1>6, <1>7 DEF SameElements
<1>9. \A j, k \in DOMAIN pr : j < k => Prefers(pr[j], pr[k])
  BY <1>4, <1>6, <1>7
<1> QED BY <1>6, <1>8, <1>9 DEF pr

\* The first candidate of each channel stays.
LEMMA OnePerChannelIs ==
  ASSUME NEW pr \in Seq(Candidates), \A j, k \in DOMAIN pr : j < k => Prefers(pr[j], pr[k])
  PROVE  LET one == OnePerChannel(pr)
         IN  /\ one \in Seq(Candidates)
             /\ \A k \in DOMAIN one : \E i \in DOMAIN pr : one[k] = pr[i]
             /\ \A i \in DOMAIN pr : \E k \in DOMAIN one : one[k].channel = pr[i].channel
             /\ \A j, k \in DOMAIN one : j < k => one[j].channel # one[k].channel
             /\ \A k \in DOMAIN one : \A i \in DOMAIN pr :
                  one[k].channel = pr[i].channel => NotWorse(one[k], pr[i])
<1> DEFINE I == {i \in DOMAIN pr : i = 1 \/ pr[i].channel # pr[i - 1].channel}
<1> DEFINE one == OnePerChannel(pr)
<1>1. one = Picked(pr, I) /\ I \in SUBSET DOMAIN pr
  BY DEF OnePerChannel
<1>2. DOMAIN pr = 1..Len(pr) /\ Len(pr) \in Nat /\ \A i \in DOMAIN pr : pr[i] \in Candidates
  OBVIOUS
<1>3. \A i \in DOMAIN pr : pr[i].channel \in Nat /\ pr[i].order \in Nat
  BY <1>2, CandidateType
<1>4. \A i, j \in DOMAIN pr : i <= j => pr[i].channel <= pr[j].channel
  BY <1>2, <1>3 DEF Prefers
\* Nobody of the channel stands before one that leads it.
<1>5. ASSUME NEW l \in I, NEW i \in DOMAIN pr, i < l PROVE pr[i].channel < pr[l].channel
  <2>1. l - 1 \in DOMAIN pr /\ i <= l - 1 /\ l # 1
    BY <1>2, <1>5
  <2>2. pr[l].channel # pr[l - 1].channel
    BY <2>1
  <2>3. pr[i].channel <= pr[l - 1].channel /\ pr[l - 1].channel <= pr[l].channel
    BY <1>2, <1>4, <2>1
  <2> HIDE DEF I
  <2>4. pr[i].channel \in Nat /\ pr[l - 1].channel \in Nat /\ pr[l].channel \in Nat
    BY <1>3, <1>1, <2>1
  <2> QED BY <2>2, <2>3, <2>4
<1>6. ASSUME NEW l \in I, NEW i \in DOMAIN pr, pr[l].channel = pr[i].channel
      PROVE  NotWorse(pr[l], pr[i])
  <2>1. l \in DOMAIN pr /\ ~(i < l)
    <3>1. l \in DOMAIN pr
      OBVIOUS
    <3>2. ASSUME i < l PROVE FALSE
      <4> HIDE DEF I
      <4>1. pr[i].channel < pr[l].channel
        BY <1>5, <3>2
      <4> QED BY <1>3, <1>6, <4>1
    <3> QED BY <3>1, <3>2
  <2>2. CASE l = i
    BY <1>3, <2>2 DEF NotWorse
  <2>3. CASE l < i
    BY <1>3, <1>6, <2>1, <2>3 DEF Prefers
  <2> QED BY <1>2, <2>1, <2>2, <2>3
<1>7. ASSUME NEW i \in DOMAIN pr PROVE \E l \in I : pr[l].channel = pr[i].channel
  <2> DEFINE T == {j \in DOMAIN pr : pr[j].channel = pr[i].channel}
  <2>1. PICK l \in T : \A j \in T : l <= j
    <3>1. T \in SUBSET Nat /\ i \in T
      BY <1>2
    <3> QED BY <3>1, Least
  <2>2. l \in I
    <3>1. ASSUME l # 1 PROVE pr[l].channel # pr[l - 1].channel
      <4>1. l - 1 \in DOMAIN pr /\ l - 1 \notin T
        BY <1>2, <2>1, <3>1
      <4> QED BY <4>1, <2>1
    <3> QED BY <3>1
  <2> QED BY <2>1, <2>2
<1> HIDE DEF I, one
<1>8. /\ one \in Seq(Candidates)
      /\ \E at \in [DOMAIN one -> I] :
              /\ \A k \in DOMAIN one : one[k] = pr[at[k]]
              /\ \A i \in I : \E k \in DOMAIN one : at[k] = i
              /\ \A j, k \in DOMAIN one : j < k => at[j] < at[k]
  BY <1>1, PickedIs
<1>9. PICK at \in [DOMAIN one -> I] :
              /\ \A k \in DOMAIN one : one[k] = pr[at[k]]
              /\ \A i \in I : \E k \in DOMAIN one : at[k] = i
              /\ \A j, k \in DOMAIN one : j < k => at[j] < at[k]
  BY <1>8
<1>10. \A k \in DOMAIN one : at[k] \in I /\ at[k] \in DOMAIN pr
  BY <1>1, <1>9
<1>11. \A k \in DOMAIN one : \E i \in DOMAIN pr : one[k] = pr[i]
  BY <1>9, <1>10
<1>12. \A i \in DOMAIN pr : \E k \in DOMAIN one : one[k].channel = pr[i].channel
  BY <1>7, <1>9
<1>13. ASSUME NEW j \in DOMAIN one, NEW k \in DOMAIN one, j < k
       PROVE  one[j].channel # one[k].channel
  <2>1. pr[at[j]].channel < pr[at[k]].channel
    BY <1>5, <1>9, <1>10, <1>13
  <2>2. pr[at[j]].channel \in Nat /\ pr[at[k]].channel \in Nat
    BY <1>3, <1>10
  <2>3. one[j] = pr[at[j]] /\ one[k] = pr[at[k]]
    BY <1>9
  <2> QED BY <2>1, <2>2, <2>3
<1>14. \A k \in DOMAIN one : \A i \in DOMAIN pr :
         one[k].channel = pr[i].channel => NotWorse(one[k], pr[i])
  BY <1>6, <1>9, <1>10
<1> QED BY <1>8, <1>11, <1>12, <1>13, <1>14 DEF one

\* From the better tiers to the worse.
Falls(s, nativeFirst) == \A j, k \in DOMAIN s : j < k => Above(s[j], s[k], nativeFirst)

\* t consists of members of s, each taken once at most.
Chosen(t, s) ==
  \E at \in [DOMAIN t -> DOMAIN s] :
    /\ \A k \in DOMAIN t : t[k] = s[at[k]]
    /\ \A j, k \in DOMAIN t : j # k => at[j] # at[k]

LEMMA ByTierIs ==
  ASSUME NEW s \in Seq(Candidates), NEW nativeFirst \in BOOLEAN
  PROVE  LET t == ByTier(s, nativeFirst)
         IN  /\ t \in Seq(Candidates) /\ Falls(t, nativeFirst) /\ SameElements(t, s)
             /\ Chosen(t, s)
<1> DEFINE t == ByTier(s, nativeFirst)
<1> DEFINE tier == [i \in DOMAIN s |-> Tier(s[i], nativeFirst)]
<1> DEFINE key == [i \in DOMAIN s |-> <<-tier[i][1], -tier[i][2], -tier[i][3], s[i].channel, i>>]
<1> DEFINE high(i) == Flag(nativeFirst /\ s[i].native)
<1>1. \A i \in DOMAIN s : /\ i \in Nat /\ s[i].channel \in Nat /\ s[i].native \in BOOLEAN
                          /\ s[i].priority \in Int /\ s[i].order \in Nat
  BY CandidateType
<1>2. \A i \in DOMAIN s : high(i) \in Int
  BY DEF Flag
<1>3. \A i \in DOMAIN s :
         key[i] = <<-high(i), -s[i].priority, -(-s[i].order), s[i].channel, i>>
  BY <1>1 DEF Tier
<1> HIDE DEF high
<1>4. ASSUME NEW i \in DOMAIN s
      PROVE  /\ key[i] \in Tuples(5)
             /\ key[i][1] = -high(i) /\ key[i][2] = -s[i].priority /\ key[i][5] = i
  <2> HIDE DEF key
  <2>1. -high(i) \in Int /\ -s[i].priority \in Int /\ -(-s[i].order) \in Int
    BY <1>1, <1>2
  <2>2. key[i] \in Tuples(5)
    <3> DEFINE a == -high(i)
    <3> DEFINE b == -s[i].priority
    <3> DEFINE c == -(-s[i].order)
    <3>1. key[i] = <<a, b, c, s[i].channel, i>> /\ s[i].channel \in Int /\ i \in Int
      BY <1>1, <1>3
    <3>2. a \in Int /\ b \in Int /\ c \in Int
      BY <2>1
    <3> HIDE DEF a, b, c
    <3> QED BY <3>1, <3>2 DEF Tuples
  <2> QED BY <1>3, <2>2
<1>5. key = [i \in DOMAIN s |-> key[i]]
  OBVIOUS
<1>6. t = Sorted(s, key)
  BY DEF ByTier
<1> HIDE DEF key, t
<1>7. Keyed(DOMAIN s, key, 5)
  <2>1. \A i, j \in DOMAIN s : i # j => key[i] # key[j]
    BY <1>4
  <2>2. key \in [DOMAIN s -> Tuples(5)]
    BY <1>4, <1>5
  <2> QED BY <2>1, <2>2, PlacesFinite DEF Keyed
<1>8. t \in Seq(Candidates) /\ DOMAIN t = DOMAIN s /\ Sorts(t, s, key)
  BY <1>6, <1>7, SortedIs
<1>9. ASSUME NEW i \in DOMAIN s, NEW j \in DOMAIN s, Before(key[i], key[j])
      PROVE  Above(s[i], s[j], nativeFirst)
  <2>1. PICK k \in 1..5 : key[i][k] < key[j][k] /\ \A l \in 1..(k - 1) : key[i][l] = key[j][l]
    <3>1. DOMAIN key[i] = 1..5
      BY <1>4 DEF Tuples
    <3> QED BY <3>1, <1>9 DEF Before
  <2>2. \/ high(i) > high(j)
        \/ high(i) = high(j) /\ s[i].priority >= s[j].priority
    <3>1. CASE k = 1
      BY <1>1, <1>2, <1>4, <2>1, <3>1
    <3>2. CASE k = 2
      BY <1>1, <1>2, <1>4, <2>1, <3>2
    <3>3. CASE k \in 3..5
      <4>1. key[i][1] = key[j][1] /\ key[i][2] = key[j][2]
        BY <2>1, <3>3
      <4>2. -high(i) = -high(j) /\ -s[i].priority = -s[j].priority
        BY <1>4, <4>1
      <4> QED BY <1>1, <1>2, <4>2
    <3> QED BY <3>1, <3>2, <3>3
  <2> QED BY <1>1, <2>2 DEF high, Flag, Above
<1>10. PICK at \in [DOMAIN s -> DOMAIN s] :
         /\ \A k \in DOMAIN s : t[k] = s[at[k]]
         /\ \A i \in DOMAIN s : \E k \in DOMAIN s : at[k] = i
         /\ \A j, k \in DOMAIN s : j < k => Before(key[at[j]], key[at[k]])
         /\ \A j, k \in DOMAIN s : j # k => at[j] # at[k]
  BY <1>8 DEF Sorts
<1>11. Falls(t, nativeFirst)
  BY <1>8, <1>9, <1>10 DEF Falls
<1>12. SameElements(t, s)
  BY <1>8, <1>10 DEF SameElements
<1>13. Chosen(t, s)
  <2>1. at \in [DOMAIN t -> DOMAIN s]
    BY <1>8
  <2>2. \A k \in DOMAIN t : t[k] = s[at[k]]
    BY <1>8, <1>10
  <2>3. \A j, k \in DOMAIN t : j # k => at[j] # at[k]
    BY <1>8, <1>10
  <2> QED BY <2>1, <2>2, <2>3, Zenon DEF Chosen
<1> QED BY <1>8, <1>11, <1>12, <1>13 DEF t

\* What the attempts at candidates are: all of them when a channel may be tried
\* again, or else the best one of each channel.
Covers(s, cs, pol) ==
  /\ s \in Seq(Candidates)
  /\ \A k \in DOMAIN s : \E i \in DOMAIN cs : s[k] = cs[i]
  /\ \A i \in DOMAIN cs : \E k \in DOMAIN s :
       s[k].channel = cs[i].channel /\ (cs[i].native => s[k].native)
  /\ ~pol.retrySame =>
       /\ \A j, k \in DOMAIN s : j # k => s[j].channel # s[k].channel
       /\ \A k \in DOMAIN s : \A i \in DOMAIN cs :
            s[k].channel = cs[i].channel => NotWorse(s[k], cs[i])

LEMMA RankedIs ==
  ASSUME NEW cs \in Seq(Candidates), NEW pol, pol.nativeFirst \in BOOLEAN
  PROVE  Covers(Ranked(cs, pol), cs, pol) /\ Falls(Ranked(cs, pol), pol.nativeFirst)
<1> DEFINE pr == PreferredFirst(cs)
<1> DEFINE one == OnePerChannel(pr)
<1> DEFINE kept == IF pol.retrySame THEN pr ELSE one
<1> DEFINE s == ByTier(kept, pol.nativeFirst)
<1>1. /\ pr \in Seq(Candidates) /\ SameElements(pr, cs)
      /\ \A j, k \in DOMAIN pr : j < k => Prefers(pr[j], pr[k])
  BY PreferredIs
<1> HIDE DEF pr
<1>2. /\ one \in Seq(Candidates)
      /\ \A k \in DOMAIN one : \E i \in DOMAIN pr : one[k] = pr[i]
      /\ \A i \in DOMAIN pr : \E k \in DOMAIN one : one[k].channel = pr[i].channel
      /\ \A j, k \in DOMAIN one : j < k => one[j].channel # one[k].channel
      /\ \A k \in DOMAIN one : \A i \in DOMAIN pr :
           one[k].channel = pr[i].channel => NotWorse(one[k], pr[i])
  BY <1>1, OnePerChannelIs
<1> HIDE DEF one
<1>3. Covers(pr, cs, pol) \/ ~pol.retrySame
  BY <1>1 DEF Covers, SameElements
<1>4. Covers(one, cs, pol)
  <2> DEFINE Among(c) == \E i \in DOMAIN pr : c = pr[i]
  <2>0. \A i \in DOMAIN cs : Among(cs[i])
    BY <1>1 DEF SameElements
  <2>1. \A k \in DOMAIN one : \E i \in DOMAIN cs : one[k] = cs[i]
    <3> SUFFICES ASSUME NEW k \in DOMAIN one PROVE \E i \in DOMAIN cs : one[k] = cs[i]
      OBVIOUS
    <3>1. PICK j \in DOMAIN pr : one[k] = pr[j]
      BY <1>2
    <3>2. PICK i \in DOMAIN cs : pr[j] = cs[i]
      BY <1>1 DEF SameElements
    <3> QED BY <3>1, <3>2
  <2>2. \A k \in DOMAIN one : \A i \in DOMAIN cs :
          one[k].channel = cs[i].channel => NotWorse(one[k], cs[i])
    <3> SUFFICES ASSUME NEW k \in DOMAIN one, NEW i \in DOMAIN cs, one[k].channel = cs[i].channel
                 PROVE  NotWorse(one[k], cs[i])
      OBVIOUS
    <3>1. PICK j \in DOMAIN pr : cs[i] = pr[j]
      BY <2>0
    <3> QED BY <1>2, <3>1
  <2>3. \A i \in DOMAIN cs : \E k \in DOMAIN one : one[k].channel = cs[i].channel
    BY <1>2, <2>0
  <2>4. \A j, k \in DOMAIN one : j # k => one[j].channel # one[k].channel
    <3>1. \A j, k \in DOMAIN one : j \in Nat /\ k \in Nat
      BY <1>2
    <3> QED BY <1>2, <3>1
  <2>5. \A i \in DOMAIN cs : \E k \in DOMAIN one :
          one[k].channel = cs[i].channel /\ (cs[i].native => one[k].native)
    BY <2>2, <2>3 DEF NotWorse
  <2> QED BY <1>2, <2>1, <2>2, <2>4, <2>5 DEF Covers
<1>5. kept \in Seq(Candidates) /\ Covers(kept, cs, pol)
  BY <1>1, <1>2, <1>3, <1>4
<1>6. Ranked(cs, pol) = s
  BY DEF Ranked, pr, one
<1> HIDE DEF kept
<1>7. /\ s \in Seq(Candidates) /\ Falls(s, pol.nativeFirst) /\ SameElements(s, kept)
      /\ Chosen(s, kept)
  BY <1>5, ByTierIs
<1> HIDE DEF s
<1>8. PICK at \in [DOMAIN s -> DOMAIN kept] :
           /\ \A k \in DOMAIN s : s[k] = kept[at[k]]
           /\ \A j, k \in DOMAIN s : j # k => at[j] # at[k]
  BY <1>7 DEF Chosen
<1>9. \A i \in DOMAIN cs : \E k \in DOMAIN s :
        s[k].channel = cs[i].channel /\ (cs[i].native => s[k].native)
  <2> SUFFICES ASSUME NEW i \in DOMAIN cs
               PROVE  \E k \in DOMAIN s :
                        s[k].channel = cs[i].channel /\ (cs[i].native => s[k].native)
    OBVIOUS
  <2>1. PICK j \in DOMAIN kept : kept[j].channel = cs[i].channel /\ (cs[i].native => kept[j].native)
    BY <1>5 DEF Covers
  <2>2. PICK k \in DOMAIN s : s[k] = kept[j]
    BY <1>7 DEF SameElements
  <2> QED BY <2>1, <2>2
<1>10. Covers(s, cs, pol)
  <2>1. \A k \in DOMAIN s : at[k] \in DOMAIN kept /\ s[k] = kept[at[k]]
    BY <1>8
  <2>2. \A k \in DOMAIN s : \E i \in DOMAIN cs : s[k] = cs[i]
    BY <1>5, <2>1 DEF Covers
  <2>3. ASSUME ~pol.retrySame
        PROVE  /\ \A j, k \in DOMAIN s : j # k => s[j].channel # s[k].channel
               /\ \A k \in DOMAIN s : \A i \in DOMAIN cs :
                    s[k].channel = cs[i].channel => NotWorse(s[k], cs[i])
    <3>1. /\ \A j, k \in DOMAIN kept : j # k => kept[j].channel # kept[k].channel
          /\ \A k \in DOMAIN kept : \A i \in DOMAIN cs :
               kept[k].channel = cs[i].channel => NotWorse(kept[k], cs[i])
      BY <1>5, <2>3 DEF Covers
    <3> QED BY <1>8, <2>1, <3>1
  <2> QED BY <1>7, <1>9, <2>2, <2>3 DEF Covers
<1> QED BY <1>6, <1>7, <1>10

-----------------------------------------------------------------------------
(***************************************************************************)
(* Tiers                                                                   *)
(***************************************************************************)
LEMMA SameTierIs ==
  ASSUME NEW c \in Candidates, NEW d \in Candidates, NEW nativeFirst \in BOOLEAN
  PROVE  SameTier(c, d, nativeFirst) <=>
           (nativeFirst => (c.native <=> d.native)) /\ c.priority = d.priority
BY CandidateType DEF SameTier, Tier, Flag

\* A tier is an interval.
LEMMA TierIs ==
  ASSUME NEW s \in Seq(Candidates), NEW nativeFirst \in BOOLEAN, Falls(s, nativeFirst),
         NEW i \in DOMAIN s
  PROVE  LET T == TierOf(s, nativeFirst, i)
         IN  /\ i \in T /\ T \in SUBSET DOMAIN s
             /\ Min(T) \in T /\ \A j \in T : Min(T) <= j
             /\ Cardinality(T) \in Nat \ {0}
             /\ T = Min(T)..(Min(T) + Cardinality(T) - 1)
             /\ \A j \in T : TierOf(s, nativeFirst, j) = T
<1> DEFINE T == TierOf(s, nativeFirst, i)
<1> DEFINE N == DOMAIN s
<1>1. N = 1..Len(s) /\ Len(s) \in Nat /\ \A j \in N : s[j] \in Candidates /\ j \in Nat
  OBVIOUS
<1>2. \A j \in N : /\ s[j].native \in BOOLEAN /\ s[j].priority \in Int
  BY <1>1, CandidateType
<1>3. \A j, k \in N : SameTier(s[j], s[k], nativeFirst) <=>
        (nativeFirst => (s[j].native <=> s[k].native)) /\ s[j].priority = s[k].priority
  BY <1>1, SameTierIs
<1>4. T = {j \in N : SameTier(s[j], s[i], nativeFirst)}
  BY DEF TierOf
<1>5. i \in T /\ T \in SUBSET N /\ T \in SUBSET Nat
  BY <1>1, <1>2, <1>3, <1>4
<1>6. ASSUME NEW j \in T, NEW k \in N, NEW l \in T, j <= k, k <= l PROVE k \in T
  <2>1. j \in N /\ l \in N /\ SameTier(s[j], s[i], nativeFirst) /\ SameTier(s[l], s[i], nativeFirst)
    BY <1>4
  <2>2. (j = k \/ Above(s[j], s[k], nativeFirst)) /\ (k = l \/ Above(s[k], s[l], nativeFirst))
    BY <1>1, <1>6, <2>1 DEF Falls
  <2>3. SameTier(s[k], s[i], nativeFirst)
    BY <1>2, <1>3, <2>1, <2>2 DEF Above
  <2> QED BY <2>3, <1>4
<1> DEFINE low == Min(T)
<1>7. low \in T /\ \A j \in T : low <= j
  <2> HIDE DEF T
  <2>1. \E x \in T : \A y \in T : x <= y
    BY <1>5, Least
  <2> QED BY <2>1 DEF Min
<1>8. PICK high \in T : \A j \in T : j <= high
  <2> DEFINE U == {Len(s) - j : j \in T}
  <2>1. U \in SUBSET Nat /\ U # {}
    BY <1>1, <1>5
  <2>2. PICK x \in U : \A y \in U : x <= y
    <3> HIDE DEF U
    <3> QED BY <2>1, Least
  <2>3. PICK j \in T : x = Len(s) - j
    BY <2>2
  <2>4. \A k \in T : Len(s) - j <= Len(s) - k
    BY <2>2, <2>3
  <2>5. \A k \in T : k <= j
    <3> HIDE DEF T, U
    <3> QED BY <2>4, <1>5, <1>1
  <2> QED BY <2>5
<1>9. T = low..high
  <2> HIDE DEF T, low
  <2>1. \A j \in T : j \in low..high
    BY <1>5, <1>7, <1>8
  <2>2. \A j \in low..high : j \in T
    BY <1>1, <1>5, <1>6, <1>7, <1>8
  <2> QED BY <2>1, <2>2
<1>10. Cardinality(T) = high - low + 1 /\ low <= high /\ low \in Nat /\ high \in Nat
  <2>1. low \in Nat /\ high \in Nat /\ low <= high
    BY <1>5, <1>7, <1>8
  <2> HIDE DEF T, low
  <2> QED BY <2>1, <1>9, FS_Interval
<1>11. ASSUME NEW j \in T PROVE TierOf(s, nativeFirst, j) = T
  <2>1. TierOf(s, nativeFirst, j) = {k \in N : SameTier(s[k], s[j], nativeFirst)}
    BY DEF TierOf
  <2>2. j \in N /\ SameTier(s[j], s[i], nativeFirst)
    BY <1>4
  <2>3. \A k \in N : SameTier(s[k], s[j], nativeFirst) <=> SameTier(s[k], s[i], nativeFirst)
    BY <1>2, <1>3, <2>2
  <2> QED BY <1>4, <2>1, <2>3
<1> HIDE DEF T, low
<1>12. Cardinality(T) \in Nat \ {0} /\ T = low..(low + Cardinality(T) - 1)
  BY <1>9, <1>10
<1> QED BY <1>5, <1>7, <1>11, <1>12 DEF T, low

Selections == {"first", "weighted", "round_robin"}

LEMMA RotatedIs ==
  ASSUME NEW s \in Seq(Candidates), NEW nativeFirst \in BOOLEAN, Falls(s, nativeFirst),
         NEW i \in DOMAIN s, NEW seq \in Nat
  PROVE  LET T == TierOf(s, nativeFirst, i)
         IN  /\ Rotated(T, i, seq) \in T
             /\ \A j \in T : Rotated(T, j, seq) = Rotated(T, i, seq) => j = i
<1> DEFINE T == TierOf(s, nativeFirst, i)
<1> DEFINE low == Min(T)
<1> DEFINE n == Cardinality(T)
<1>1. i \in T /\ low \in T /\ n \in Nat \ {0} /\ T = low..(low + n - 1) /\ T \in SUBSET DOMAIN s
  BY TierIs
<1>2. low \in Nat
  <2>1. \A j \in DOMAIN s : j \in Nat
    OBVIOUS
  <2> QED BY <1>1, <2>1
<1>3. \A j : Rotated(T, j, seq) = low + ((j - low + seq) % n)
  BY DEF Rotated
<1> HIDE DEF T, low, n
<1>4. \A j \in T : j - low \in 0..(n - 1) /\ j - low + seq \in Nat
  BY <1>1, <1>2
<1>5. (i - low + seq) % n \in 0..(n - 1)
  BY <1>1, <1>4, Remainder
<1>6. Rotated(T, i, seq) \in T
  <2> DEFINE r == (i - low + seq) % n
  <2>1. Rotated(T, i, seq) = low + r /\ r \in 0..(n - 1)
    BY <1>3, <1>5
  <2> HIDE DEF r
  <2> QED BY <2>1, <1>1, <1>2
<1>7. ASSUME NEW j \in T, Rotated(T, j, seq) = Rotated(T, i, seq) PROVE j = i
  <2> DEFINE r == (i - low + seq) % n
  <2> DEFINE u == (j - low + seq) % n
  <2>1. low + r = low + u /\ r \in 0..(n - 1) /\ u \in 0..(n - 1)
    BY <1>1, <1>3, <1>4, <1>7, Remainder
  <2>2. r = u
    <3> HIDE DEF r, u
    <3> QED BY <2>1, <1>2
  <2> DEFINE a == i - low
  <2> DEFINE b == j - low
  <2>3. a \in 0..(n - 1) /\ b \in 0..(n - 1) /\ (a + seq) % n = (b + seq) % n
    BY <1>1, <1>4, <2>2
  <2>4. a = b
    <3> HIDE DEF a, b
    <3> QED BY <1>1, <2>3, RemaindersDiffer
  <2>5. i \in Int /\ j \in Int
    BY <1>1, <1>2
  <2> QED BY <1>2, <2>4, <2>5
<1> QED BY <1>6, <1>7 DEF T

\* Every attempt takes a place of its tier, and every place is taken.
Arranges(p, s, nativeFirst) ==
  /\ p \in [DOMAIN s -> DOMAIN s]
  /\ \A i \in DOMAIN s : p[i] \in TierOf(s, nativeFirst, i)
  /\ \A i, j \in DOMAIN s : i # j => p[i] # p[j]
  /\ \A k \in DOMAIN s : \E i \in DOMAIN s : p[i] = k

LEMMA ArrangementIs ==
  ASSUME NEW s \in Seq(Candidates), NEW pol, pol.nativeFirst \in BOOLEAN,
         pol.selection \in Selections, Falls(s, pol.nativeFirst),
         NEW seq \in Nat, NEW p \in Arrangements(s, pol, seq)
  PROVE  Arranges(p, s, pol.nativeFirst)
<1> DEFINE nf == pol.nativeFirst
<1> DEFINE N == DOMAIN s
<1> DEFINE tier == [i \in N |-> TierOf(s, nf, i)]
<1> DEFINE Left(f, i) == tier[i] \ {f[j] : j \in 1..(i - 1)}
<1>1. ASSUME NEW i \in N
      PROVE  /\ i \in TierOf(s, nf, i) /\ TierOf(s, nf, i) \in SUBSET N
             /\ \A j \in TierOf(s, nf, i) : TierOf(s, nf, j) = TierOf(s, nf, i)
  BY TierIs
<1>2. p \in [N -> N] /\ \A i \in N : p[i] \in TierOf(s, nf, i)
  <2>1. CASE pol.selection = "first"
    <3>1. p = [i \in N |-> i]
      BY <2>1 DEF Arrangements
    <3> QED BY <3>1, <1>1
  <2>2. CASE pol.selection = "round_robin"
    <3>1. p = [i \in N |-> Rotated(TierOf(s, nf, i), i, seq)]
      BY <2>2 DEF Arrangements
    <3>2. \A i \in N : Rotated(TierOf(s, nf, i), i, seq) \in TierOf(s, nf, i)
      BY RotatedIs
    <3> QED BY <3>1, <3>2, <1>1
  <2>3. CASE pol.selection = "weighted"
    <3>1. p \in [N -> N] /\ \A i \in N : p[i] \in Drawn(s, Left(p, i))
      BY <2>3 DEF Arrangements
    <3>2. \A i \in N : Drawn(s, Left(p, i)) \in SUBSET TierOf(s, nf, i)
      BY DEF Drawn
    <3> QED BY <3>1, <3>2
  <2> QED BY <2>1, <2>2, <2>3 DEF Selections
<1>3. ASSUME NEW i \in N, NEW j \in N, p[i] = p[j] PROVE i = j
  <2>1. CASE pol.selection = "first"
    <3>1. p = [k \in N |-> k]
      BY <2>1 DEF Arrangements
    <3> QED BY <3>1, <1>3
  <2>2. CASE pol.selection = "round_robin"
    <3>1. p = [k \in N |-> Rotated(TierOf(s, nf, k), k, seq)]
      BY <2>2 DEF Arrangements
    <3>2. TierOf(s, nf, i) = TierOf(s, nf, j)
      BY <1>1, <1>2, <1>3
    <3>3. j \in TierOf(s, nf, i)
      BY <1>1, <3>2
    <3>4. Rotated(TierOf(s, nf, i), j, seq) = Rotated(TierOf(s, nf, i), i, seq)
      BY <1>3, <3>1, <3>2
    <3> QED BY <3>3, <3>4, RotatedIs
  <2>3. CASE pol.selection = "weighted"
    <3>1. IsInjective(p) /\ DOMAIN p = N
      BY <2>3 DEF Arrangements
    <3> QED BY <3>1, <1>3 DEF IsInjective
  <2> QED BY <2>1, <2>2, <2>3 DEF Selections
<1>4. p \in Surjection(N, N)
  <2>1. p \in Injection(N, N)
    BY <1>2, <1>3 DEF Injection, IsInjective
  <2>2. IsFiniteSet(N)
    BY PlacesFinite
  <2> HIDE DEF N
  <2> QED BY <2>1, <2>2, FS_Injection
<1>5. \A k \in N : \E i \in N : p[i] = k
  BY <1>4 DEF Surjection
<1> QED BY <1>2, <1>3, <1>5 DEF Arranges

\* The order of the attempts, with the tiers arranged.
LEMMA OrdersAre ==
  ASSUME NEW cs \in Seq(Candidates), NEW pol, pol.nativeFirst \in BOOLEAN,
         pol.selection \in Selections, NEW seq \in Nat, NEW order \in Orders(cs, pol, seq)
  PROVE  /\ Covers(order, cs, pol) /\ Falls(order, pol.nativeFirst)
         /\ (order = <<>> <=> cs = <<>>)
<1> DEFINE s == Ranked(cs, pol)
<1> DEFINE nf == pol.nativeFirst
<1>1. Covers(s, cs, pol) /\ Falls(s, nf)
  BY RankedIs
<1>2. s \in Seq(Candidates)
  BY <1>1 DEF Covers
<1>3. order = s \/ \E p \in Arrangements(s, pol, seq) : order = [i \in DOMAIN s |-> s[p[i]]]
  BY DEF Orders
<1> HIDE DEF s
<1>4. Covers(order, cs, pol) /\ Falls(order, nf)
  <2>1. CASE order = s
    BY <1>1, <2>1
  <2>2. CASE \E p \in Arrangements(s, pol, seq) : order = [i \in DOMAIN s |-> s[p[i]]]
    <3>1. PICK p \in Arrangements(s, pol, seq) : order = [i \in DOMAIN s |-> s[p[i]]]
      BY <2>2
    <3>2. Arranges(p, s, nf)
      BY <1>1, <1>2, ArrangementIs
    <3>3. \A i \in DOMAIN s : p[i] \in DOMAIN s /\ order[i] = s[p[i]]
      BY <3>1, <3>2 DEF Arranges
    <3>4. order \in Seq(Candidates) /\ DOMAIN order = DOMAIN s
      <4>1. DOMAIN s = 1..Len(s) /\ Len(s) \in Nat
        BY <1>2
      <4>2. \A i \in 1..Len(s) : s[p[i]] \in Candidates
        BY <1>2, <3>3, <4>1
      <4> QED BY <3>1, <4>1, <4>2
    <3>5. Covers(order, cs, pol)
      <4>1. \A k \in DOMAIN order : \E i \in DOMAIN cs : order[k] = cs[i]
        <5>1. \A k \in DOMAIN s : \E i \in DOMAIN cs : s[k] = cs[i]
          BY <1>1 DEF Covers
        <5> SUFFICES ASSUME NEW k \in DOMAIN order PROVE \E i \in DOMAIN cs : order[k] = cs[i]
          OBVIOUS
        <5>2. p[k] \in DOMAIN s /\ order[k] = s[p[k]]
          BY <3>3, <3>4
        <5> QED BY <5>1, <5>2
      <4>2. ASSUME NEW i \in DOMAIN cs
            PROVE  \E k \in DOMAIN order :
                     order[k].channel = cs[i].channel /\ (cs[i].native => order[k].native)
        <5>1. PICK l \in DOMAIN s : s[l].channel = cs[i].channel /\ (cs[i].native => s[l].native)
          BY <1>1 DEF Covers
        <5>2. PICK k \in DOMAIN s : p[k] = l
          BY <3>2 DEF Arranges
        <5>3. k \in DOMAIN order /\ order[k] = s[l]
          BY <3>3, <3>4, <5>2
        <5> QED BY <5>1, <5>3
      <4>3. ASSUME ~pol.retrySame
            PROVE  /\ \A j, k \in DOMAIN order : j # k => order[j].channel # order[k].channel
                   /\ \A k \in DOMAIN order : \A i \in DOMAIN cs :
                        order[k].channel = cs[i].channel => NotWorse(order[k], cs[i])
        <5>1. /\ \A j, k \in DOMAIN s : j # k => s[j].channel # s[k].channel
              /\ \A k \in DOMAIN s : \A i \in DOMAIN cs :
                   s[k].channel = cs[i].channel => NotWorse(s[k], cs[i])
          BY <1>1, <4>3 DEF Covers
        <5>2. \A j, k \in DOMAIN s : j # k => p[j] # p[k]
          BY <3>2 DEF Arranges
        <5>3. ASSUME NEW j \in DOMAIN order, NEW k \in DOMAIN order, j # k
              PROVE  order[j].channel # order[k].channel
          <6>1. p[j] \in DOMAIN s /\ order[j] = s[p[j]] /\ p[k] \in DOMAIN s /\ order[k] = s[p[k]]
            BY <3>3, <3>4
          <6>2. p[j] # p[k]
            BY <3>4, <5>2, <5>3
          <6> QED BY <5>1, <6>1, <6>2
        <5>4. ASSUME NEW k \in DOMAIN order, NEW i \in DOMAIN cs, order[k].channel = cs[i].channel
              PROVE  NotWorse(order[k], cs[i])
          <6>1. p[k] \in DOMAIN s /\ order[k] = s[p[k]]
            BY <3>3, <3>4
          <6> QED BY <5>1, <5>4, <6>1
        <5> QED BY <5>3, <5>4
      <4> QED BY <3>4, <4>1, <4>2, <4>3 DEF Covers
    <3>6. ASSUME NEW j \in DOMAIN s, NEW k \in DOMAIN s, j < k PROVE Above(order[j], order[k], nf)
      <4>1. /\ s[j] \in Candidates /\ s[k] \in Candidates
            /\ s[p[j]] \in Candidates /\ s[p[k]] \in Candidates
        <5>1. \A i \in DOMAIN s : s[i] \in Candidates
          BY <1>2
        <5> QED BY <3>3, <3>6, <5>1
      <4>2. SameTier(s[p[j]], s[j], nf) /\ SameTier(s[p[k]], s[k], nf)
        BY <3>2 DEF Arranges, TierOf
      <4>3. Above(s[j], s[k], nf)
        BY <1>1, <3>6 DEF Falls
      <4>4. Above(s[p[j]], s[p[k]], nf)
        BY <4>1, <4>2, <4>3, SameTierIs, CandidateType DEF Above
      <4> QED BY <3>3, <4>4
    <3> QED BY <3>4, <3>5, <3>6 DEF Falls
  <2> QED BY <1>3, <2>1, <2>2
<1>5. order = <<>> <=> cs = <<>>
  <2>1. order \in Seq(Candidates)
    BY <1>4 DEF Covers
  <2>2. DOMAIN order = {} <=> DOMAIN cs = {}
    BY <1>4 DEF Covers
  <2> QED BY <2>1, <2>2
<1> QED BY <1>4, <1>5

\* What a route keeps of the order of the attempts.
KeptOf(route, order, inbound) == IF route = "json" THEN order ELSE NativeOnly(order, inbound)

\* plan is what order has at the places in I.
Part(plan, order, I) ==
  \E at \in [DOMAIN plan -> I] :
    /\ \A k \in DOMAIN plan : plan[k] = order[at[k]]
    /\ \A i \in I : \E k \in DOMAIN plan : at[k] = i
    /\ \A j, k \in DOMAIN plan : j < k => at[j] < at[k]

LEMMA KeptOfIs ==
  ASSUME NEW order \in Seq(Candidates), NEW route, NEW inbound
  PROVE  /\ KeptOf(route, order, inbound) \in Seq(Candidates)
         /\ Part(KeptOf(route, order, inbound), order,
                 {i \in DOMAIN order : route = "json" \/ order[i].protocol = inbound})
<1> DEFINE I == {i \in DOMAIN order : route = "json" \/ order[i].protocol = inbound}
<1>1. CASE route = "json"
  <2> DEFINE at == [i \in DOMAIN order |-> i]
  <2>1. I = DOMAIN order /\ KeptOf(route, order, inbound) = order
    BY <1>1 DEF KeptOf
  <2>2. at \in [DOMAIN order -> I]
    BY <2>1
  <2>3. \A i \in I : \E k \in DOMAIN order : at[k] = i
    BY <2>1
  <2>4. /\ \A k \in DOMAIN order : order[k] = order[at[k]]
        /\ \A j, k \in DOMAIN order : j < k => at[j] < at[k]
    OBVIOUS
  <2> HIDE DEF at
  <2> QED BY <2>1, <2>2, <2>3, <2>4 DEF Part
<1>2. CASE route # "json"
  <2>1. I = {i \in DOMAIN order : order[i].protocol = inbound} /\ I \in SUBSET DOMAIN order
    BY <1>2
  <2>2. KeptOf(route, order, inbound) = Picked(order, I)
    BY <1>2, <2>1 DEF KeptOf, NativeOnly
  <2> HIDE DEF I
  <2> DEFINE plan == Picked(order, I)
  <2>3. /\ plan \in Seq(Candidates)
        /\ \E at \in [DOMAIN plan -> I] :
             /\ \A k \in DOMAIN plan : plan[k] = order[at[k]]
             /\ \A i \in I : \E k \in DOMAIN plan : at[k] = i
             /\ \A j, k \in DOMAIN plan : j < k => at[j] < at[k]
    <3>1. order \in Seq(Candidates) /\ I \in SUBSET DOMAIN order
      BY <2>1
    <3> QED BY <3>1, PickedIs, Zenon
  <2>4. plan \in Seq(Candidates) /\ Part(plan, order, I)
    <3> HIDE DEF plan
    <3> QED BY <2>3 DEF Part
  <2> QED BY <2>2, <2>4 DEF I
<1> QED BY <1>1, <1>2

-----------------------------------------------------------------------------
\* The channels in hand are valid and the caller may use them.
InHand(q) ==
  ChannelsOK(q.channels) /\ \A ch \in ToSet(q.channels) : Allowed(q.call.principal, ch)

Serviceable(q) == Collect(q.channels, q.call.model, q.call.inbound)

LEMMA ServingIs ==
  ASSUME NEW q, InHand(q)
  PROVE  /\ \A n \in DOMAIN Serviceable(q) : \E ch, e :
              /\ Serviceable(q)[n] = Candidate(ch, e, q.call.inbound)
              /\ (q.call.route = "json" \/ e.protocol = q.call.inbound) => <<ch, e>> \in Serving(q)
         /\ \A ce \in Serving(q) :
              /\ q.call.route = "json" \/ ce[2].protocol = q.call.inbound
              /\ \E n \in DOMAIN Serviceable(q) :
                   Serviceable(q)[n] = Candidate(ce[1], ce[2], q.call.inbound)
<1> DEFINE cs == Serviceable(q)
<1> DEFINE F == Fitting(q.channels, q.call.model, q.call.inbound)
<1> DEFINE Chan(p) == q.channels[p[1]]
<1> DEFINE End(p) == EndpointAt(q.channels, p)
<1>1. ChannelsOK(q.channels) /\ \A ch \in ToSet(q.channels) : Allowed(q.call.principal, ch)
  BY DEF InHand
<1>2. /\ \A n \in DOMAIN cs : \E p \in F : cs[n] = Candidate(Chan(p), End(p), q.call.inbound)
      /\ \A p \in F : \E n \in DOMAIN cs : cs[n] = Candidate(Chan(p), End(p), q.call.inbound)
  BY <1>1, CollectIs DEF Serviceable
<1>3. ASSUME NEW p \in F
      PROVE  (q.call.route = "json" \/ End(p).protocol = q.call.inbound)
                => <<Chan(p), End(p)>> \in Serving(q)
  <2>1. /\ Chan(p) \in ToSet(q.channels) /\ End(p) \in ToSet(Chan(p).endpoints)
        /\ Offers(Chan(p), End(p), q.call.model) /\ CanServe(End(p), q.call.inbound)
    BY <1>1, FittingIs
  <2>2. Allowed(q.call.principal, Chan(p))
    BY <1>1, <2>1
  <2> HIDE DEF Chan, End
  <2>3. <<Chan(p), End(p)>> \in UNION {{ch} \X ToSet(ch.endpoints) : ch \in ToSet(q.channels)}
    BY <2>1
  <2> QED BY <2>1, <2>2, <2>3 DEF Serving, Allowed, Offers, CanServe
<1>4. ASSUME NEW ce \in Serving(q)
      PROVE  /\ q.call.route = "json" \/ ce[2].protocol = q.call.inbound
             /\ \E p \in F : ce[1] = Chan(p) /\ ce[2] = End(p)
  <2>1. PICK ch \in ToSet(q.channels) : ce \in {ch} \X ToSet(ch.endpoints)
    BY DEF Serving
  <2>2. ce[1] = ch /\ ce[2] \in ToSet(ch.endpoints)
    BY <2>1
  <2>3. PICK i \in DOMAIN q.channels : ch = q.channels[i]
    BY DEF ToSet
  <2>4. PICK j \in DOMAIN ch.endpoints : ce[2] = ch.endpoints[j]
    BY <2>2 DEF ToSet
  <2>5. Offers(ch, ce[2], q.call.model) /\ CanServe(ce[2], q.call.inbound)
    BY <2>2 DEF Serving, Offers, CanServe
  <2>6. <<i, j>> \in UNION {{k} \X DOMAIN q.channels[k].endpoints : k \in DOMAIN q.channels}
    BY <2>3, <2>4
  <2>7. Chan(<<i, j>>) = ch /\ End(<<i, j>>) = ce[2]
    BY <2>3, <2>4 DEF EndpointAt
  <2>8. <<i, j>> \in F
    <3> HIDE DEF Chan
    <3>1. \A p : p \in F <=>
            /\ p \in UNION {{k} \X DOMAIN q.channels[k].endpoints : k \in DOMAIN q.channels}
            /\ Offers(q.channels[p[1]], EndpointAt(q.channels, p), q.call.model)
            /\ CanServe(EndpointAt(q.channels, p), q.call.inbound)
      BY <1>1, FittingIs
    <3> QED BY <2>5, <2>6, <2>7, <3>1 DEF Chan
  <2>9. q.call.route = "json" \/ ce[2].protocol = q.call.inbound
    BY DEF Serving
  <2> QED BY <2>2, <2>7, <2>8, <2>9
<1> HIDE DEF F, Chan, End, cs
<1> QED BY <1>2, <1>3, <1>4 DEF cs

\* A plan is sound that is kept of an order of the choices.
LEMMA PlanOfOrder ==
  ASSUME NEW q, InHand(q), NEW pol, pol.nativeFirst \in BOOLEAN,
         NEW order, Covers(order, Serviceable(q), pol), Falls(order, pol.nativeFirst),
         q.plan = KeptOf(q.call.route, order, q.call.inbound)
  PROVE  SoundPlan(q, pol)
<1> DEFINE plan == q.plan
<1> DEFINE cs == Serviceable(q)
<1> DEFINE inbound == q.call.inbound
<1> DEFINE json == q.call.route = "json"
<1> DEFINE I == {i \in DOMAIN order : json \/ order[i].protocol = inbound}
<1> DEFINE Of(c) == {ce[2] : ce \in {x \in Serving(q) : x[1].id = c.channel}}
<1>1. order \in Seq(Candidates) /\ \A i \in DOMAIN order : order[i] \in Candidates
  BY DEF Covers
<1>2. plan \in Seq(Candidates) /\ Part(plan, order, I)
  <2> DEFINE K == KeptOf(q.call.route, order, inbound)
  <2>1. /\ K \in Seq(Candidates)
        /\ Part(K, order, {i \in DOMAIN order : q.call.route = "json" \/ order[i].protocol = inbound})
    BY <1>1, KeptOfIs
  <2>2. plan = K
    OBVIOUS
  <2> HIDE DEF K
  <2> QED BY <2>1, <2>2
<1>3. PICK at \in [DOMAIN plan -> I] :
        /\ \A k \in DOMAIN plan : plan[k] = order[at[k]]
        /\ \A i \in I : \E k \in DOMAIN plan : at[k] = i
        /\ \A j, k \in DOMAIN plan : j < k => at[j] < at[k]
  BY <1>2 DEF Part
<1>4. \A k \in DOMAIN plan : at[k] \in DOMAIN order /\ plan[k] = order[at[k]] /\ at[k] \in Nat
                              /\ (json \/ plan[k].protocol = inbound)
  BY <1>1, <1>3
<1>5. \A n \in DOMAIN cs : \E ch, e :
        /\ cs[n] = Candidate(ch, e, inbound)
        /\ (json \/ e.protocol = inbound) => <<ch, e>> \in Serving(q)
  BY ServingIs
<1>6. \A ce \in Serving(q) :
        /\ json \/ ce[2].protocol = inbound
        /\ \E n \in DOMAIN cs : cs[n] = Candidate(ce[1], ce[2], inbound)
  BY ServingIs
<1>7. \A ch, e : /\ Candidate(ch, e, inbound).channel = ch.id
                 /\ Candidate(ch, e, inbound).protocol = e.protocol
                 /\ Candidate(ch, e, inbound).native = (inbound = e.protocol)
                 /\ Candidate(ch, e, inbound).order = e.order
  BY DEF Candidate
<1> HIDE DEF cs, json, inbound
<1>8. \A k \in DOMAIN order : \E n \in DOMAIN cs : order[k] = cs[n]
  BY DEF Covers, cs
<1>9. ASSUME NEW i \in DOMAIN plan PROVE \E e \in Of(plan[i]) : e.protocol = plan[i].protocol
  <2>1. PICK n \in DOMAIN cs : plan[i] = cs[n]
    BY <1>4, <1>8
  <2>2. PICK ch, e : /\ cs[n] = Candidate(ch, e, inbound)
                     /\ (json \/ e.protocol = inbound) => <<ch, e>> \in Serving(q)
    BY <1>5
  <2>3. plan[i].channel = ch.id /\ plan[i].protocol = e.protocol
    BY <1>7, <2>1, <2>2
  <2>4. <<ch, e>> \in Serving(q)
    BY <1>4, <2>2, <2>3
  <2>5. e \in Of(plan[i])
    BY <2>3, <2>4
  <2> QED BY <2>3, <2>5
<1>10. ASSUME NEW ce \in Serving(q) PROVE HasChannel(plan, ce[1].id)
  <2>1. PICK n \in DOMAIN cs : cs[n] = Candidate(ce[1], ce[2], inbound)
    BY <1>6
  <2>2. PICK k \in DOMAIN order :
          order[k].channel = cs[n].channel /\ (cs[n].native => order[k].native)
    BY DEF Covers, cs
  <2>3. k \in I
    <3>1. CASE json
      BY <3>1
    <3>2. CASE ce[2].protocol = inbound
      <4>1. cs[n].native
        BY <1>7, <2>1, <3>2
      <4>2. PICK l \in DOMAIN cs : order[k] = cs[l]
        BY <1>8
      <4>3. PICK ch, e : cs[l] = Candidate(ch, e, inbound)
        BY <1>5
      <4>4. order[k].protocol = inbound
        <5>1. order[k].native = (inbound = e.protocol) /\ order[k].protocol = e.protocol
          BY <1>7, <4>2, <4>3
        <5>2. order[k].native
          BY <2>2, <4>1
        <5> QED BY <5>1, <5>2
      <4> QED BY <4>4
    <3> QED BY <1>6, <3>1, <3>2
  <2>4. PICK j \in DOMAIN plan : at[j] = k
    BY <1>3, <2>3
  <2>5. plan[j].channel = ce[1].id
    BY <1>4, <1>7, <2>1, <2>2, <2>4
  <2> QED BY <2>5 DEF HasChannel
<1>11. ASSUME ~pol.retrySame, NEW i \in DOMAIN plan, NEW j \in DOMAIN plan, i < j
       PROVE  plan[i].channel # plan[j].channel
  <2>1. at[i] < at[j] /\ at[i] \in Nat /\ at[j] \in Nat
    BY <1>3, <1>4, <1>11
  <2>2. at[i] # at[j]
    BY <2>1
  <2>3. \A k, l \in DOMAIN order : k # l => order[k].channel # order[l].channel
    BY <1>11 DEF Covers
  <2> QED BY <1>4, <2>2, <2>3
<1>12. ASSUME ~pol.retrySame, NEW i \in DOMAIN plan, ~plan[i].native, NEW e \in Of(plan[i])
       PROVE  e.protocol # inbound /\ plan[i].order <= e.order
  <2>1. PICK ce \in Serving(q) : ce[1].id = plan[i].channel /\ ce[2] = e
    OBVIOUS
  <2>2. PICK n \in DOMAIN cs : cs[n] = Candidate(ce[1], e, inbound)
    BY <1>6, <2>1
  <2>3. at[i] \in DOMAIN order /\ plan[i] = order[at[i]]
    BY <1>4
  <2>4. \A k \in DOMAIN order : \A l \in DOMAIN cs :
          order[k].channel = cs[l].channel => NotWorse(order[k], cs[l])
    BY <1>12 DEF Covers, cs
  <2>5. order[at[i]].channel = cs[n].channel
    BY <1>7, <2>1, <2>2, <2>3
  <2>6. NotWorse(plan[i], cs[n])
    BY <2>3, <2>4, <2>5
  <2>7. cs[n].native = (inbound = e.protocol) /\ cs[n].order = e.order
    BY <1>7, <2>2
  <2> QED BY <1>12, <2>6, <2>7 DEF NotWorse
<1>13. ASSUME NEW i \in DOMAIN plan, NEW j \in DOMAIN plan, i < j
       PROVE  \/ pol.nativeFirst /\ plan[i].native /\ ~plan[j].native
              \/ /\ pol.nativeFirst => plan[i].native = plan[j].native
                 /\ plan[i].priority >= plan[j].priority
  <2>1. Above(plan[i], plan[j], pol.nativeFirst)
    BY <1>3, <1>4, <1>13 DEF Falls
  <2>2. plan[i].native \in BOOLEAN /\ plan[j].native \in BOOLEAN
    BY <1>1, <1>4, CandidateType
  <2> QED BY <2>1, <2>2 DEF Above
<1> HIDE DEF plan, I, Of
<1>14. /\ \A i \in DOMAIN plan : \E e \in Of(plan[i]) : e.protocol = plan[i].protocol
       /\ \A ce \in Serving(q) : HasChannel(plan, ce[1].id)
       /\ \A i, j \in DOMAIN plan : i < j /\ ~pol.retrySame => plan[i].channel # plan[j].channel
  BY <1>9, <1>10, <1>11
<1>15. ~pol.retrySame =>
         \A i \in DOMAIN plan : plan[i].native \/
           \A e \in Of(plan[i]) : e.protocol # inbound /\ plan[i].order <= e.order
  BY <1>12
<1>16. \A i, j \in DOMAIN plan : i < j =>
         \/ pol.nativeFirst /\ plan[i].native /\ ~plan[j].native
         \/ /\ pol.nativeFirst => plan[i].native = plan[j].native
            /\ plan[i].priority >= plan[j].priority
  BY <1>13
<1> USE DEF plan, Of, inbound
<1> QED BY <1>14, <1>15, <1>16 DEF SoundPlan

\* What a client is told is true when there is no choice.
Explains(v, q) ==
  LET listed == q.call.model \in VisibleModels(q.channels)
  IN  /\ v.verdict # "Routable"
      /\ v.verdict = "UnknownModel" <=> ~listed
      /\ \A p \in v.available : Collect(q.channels, q.call.model, p) # <<>>
      /\ listed => v.available # {}

LEMMA DiagnosisIsTrue ==
  ASSUME NEW q, InHand(q), Serviceable(q) = <<>>
  PROVE  Explains(Diagnose(q.channels, q.call.model, q.call.inbound), q)
<1> DEFINE chs == q.channels
<1> DEFINE model == q.call.model
<1> DEFINE Offering(ch) == {e \in ToSet(ch.endpoints) : Offers(ch, e, model)}
<1> DEFINE offering == UNION {Offering(chs[i]) : i \in DOMAIN chs}
<1> DEFINE available == {p \in Protocols : \E e \in offering : CanServe(e, p)}
<1> DEFINE v == Diagnose(chs, model, q.call.inbound)
<1>1. v = CASE offering = {}              -> [verdict |-> "UnknownModel", available |-> {}]
            [] q.call.inbound \in available -> [verdict |-> "Routable", available |-> available]
            [] OTHER -> [verdict |-> "ProtocolNotPermitted", available |-> available]
  BY DEF Diagnose
<1>2. ChannelsOK(chs)
  BY DEF InHand
<1>3. ASSUME NEW e \in offering, NEW p, CanServe(e, p)
      PROVE  Collect(chs, model, p) # <<>>
  <2>1. PICK i \in DOMAIN chs : e \in Offering(chs[i])
    OBVIOUS
  <2>2. PICK j \in DOMAIN chs[i].endpoints : e = chs[i].endpoints[j]
    BY <2>1 DEF ToSet
  <2>3. <<i, j>> \in UNION {{k} \X DOMAIN chs[k].endpoints : k \in DOMAIN chs}
    BY <2>2
  <2>4. EndpointAt(chs, <<i, j>>) = e /\ Offers(chs[i], e, model)
    BY <2>1, <2>2 DEF EndpointAt
  <2> HIDE DEF chs, model
  <2>5. <<i, j>> \in Fitting(chs, model, p)
    <3>1. \A x : x \in Fitting(chs, model, p) <=>
            /\ x \in UNION {{k} \X DOMAIN chs[k].endpoints : k \in DOMAIN chs}
            /\ Offers(chs[x[1]], EndpointAt(chs, x), model)
            /\ CanServe(EndpointAt(chs, x), p)
      BY <1>2, FittingIs
    <3> QED BY <1>3, <2>3, <2>4, <3>1
  <2>6. \E n \in DOMAIN Collect(chs, model, p) : TRUE
    BY <1>2, <2>5, CollectIs
  <2> QED BY <2>6
<1>4. \A e \in offering : e.protocol \in available
  <2> SUFFICES ASSUME NEW e \in offering PROVE e.protocol \in available
    OBVIOUS
  <2>1. PICK i \in DOMAIN chs : e \in ToSet(chs[i].endpoints)
    OBVIOUS
  <2>2. ValidChannel(chs[i])
    BY <1>2 DEF ChannelsOK, ToSet
  <2>3. e.protocol \in Protocols
    BY <2>1, <2>2 DEF ValidChannel
  <2> QED BY <2>3 DEF CanServe
<1>5. model \in VisibleModels(chs) <=> offering # {}
  <2>1. ASSUME model \in VisibleModels(chs) PROVE offering # {}
    <3>1. PICK i \in DOMAIN chs :
            /\ chs[i].enabled
            /\ model \in UNION {IF e.enabled THEN e.models ELSE {} : e \in ToSet(chs[i].endpoints)}
      BY <2>1 DEF VisibleModels
    <3>2. PICK e \in ToSet(chs[i].endpoints) : e.enabled /\ model \in e.models
      BY <3>1
    <3>3. e \in Offering(chs[i])
      BY <3>1, <3>2 DEF Offers
    <3> QED BY <3>3
  <2>2. ASSUME offering # {} PROVE model \in VisibleModels(chs)
    <3>1. PICK i \in DOMAIN chs : Offering(chs[i]) # {}
      BY <2>2
    <3>2. PICK e \in ToSet(chs[i].endpoints) : chs[i].enabled /\ e.enabled /\ model \in e.models
      BY <3>1 DEF Offers
    <3>3. model \in UNION {IF x.enabled THEN x.models ELSE {} : x \in ToSet(chs[i].endpoints)}
      BY <3>2
    <3> QED BY <3>2, <3>3 DEF VisibleModels
  <2> QED BY <2>1, <2>2
<1>6. q.call.inbound \notin available
  <2>1. Serviceable(q) = Collect(chs, model, q.call.inbound)
    BY DEF Serviceable
  <2> QED BY <1>3, <2>1
<1>7. \A p \in available : Collect(chs, model, p) # <<>>
  BY <1>3
<1> HIDE DEF v, offering, available
<1>8. CASE offering = {}
  <2>1. v.verdict = "UnknownModel" /\ v.available = {}
    BY <1>1, <1>6, <1>8
  <2> QED BY <1>5, <1>8, <2>1 DEF Explains, v
<1>9. CASE offering # {}
  <2>1. v.verdict = "ProtocolNotPermitted" /\ v.available = available
    BY <1>1, <1>6, <1>9
  <2>2. available # {}
    BY <1>4, <1>9
  <2> QED BY <1>5, <1>7, <1>9, <2>1, <2>2 DEF Explains, v
<1> QED BY <1>8, <1>9

-----------------------------------------------------------------------------
(***************************************************************************)
(* TurnRecord                                                                   *)
(***************************************************************************)
TurnRecord == [lead : Nat, tier : Seq(Nat) \ {<<>>}]

\* s are the last turns of a model whose cursor is at c.
TurnsOK(s, c) ==
  /\ s \in Seq(TurnRecord) /\ c \in Nat /\ Len(s) <= c
  /\ \A k \in 1..Len(s) :
       s[k].lead = s[k].tier[1 + ((c - Len(s) + k - 1) % Len(s[k].tier))]

\* What a request adds to the turns.
TurnOf(order, s, nativeFirst) ==
  [lead |-> order[1].channel, tier |-> [i \in TierOf(s, nativeFirst, 1) |-> s[i].channel]]

\* It is the turn of the one in the tier at which the cursor stands.
InTurn(t, c) == t \in TurnRecord /\ t.lead = t.tier[1 + (c % Len(t.tier))]

LEMMA OneMoreTurn ==
  ASSUME NEW s, NEW c, TurnsOK(s, c), NEW t, InTurn(t, c)
  PROVE  TurnsOK(Append(s, t), c + 1)
<1> DEFINE z == Append(s, t)
<1>1. s \in Seq(TurnRecord) /\ c \in Nat /\ Len(s) <= c /\ Len(s) \in Nat
  BY DEF TurnsOK
<1>0. t \in TurnRecord /\ t.lead = t.tier[1 + (c % Len(t.tier))]
  BY DEF InTurn
<1>2. /\ z \in Seq(TurnRecord) /\ Len(z) = Len(s) + 1 /\ z[Len(s) + 1] = t
      /\ \A k \in 1..Len(s) : z[k] = s[k]
  BY <1>0, <1>1
<1> HIDE DEF z
<1>3. ASSUME NEW k \in 1..Len(z)
      PROVE  z[k].lead = z[k].tier[1 + (((c + 1) - Len(z) + k - 1) % Len(z[k].tier))]
  <2>1. CASE k = Len(s) + 1
    <3>1. (c + 1) - Len(z) + k - 1 = c
      BY <1>1, <1>2, <2>1
    <3> QED BY <1>0, <1>2, <2>1, <3>1
  <2>2. CASE k \in 1..Len(s)
    <3>1. (c + 1) - Len(z) + k - 1 = c - Len(s) + k - 1
      BY <1>1, <1>2, <2>2
    <3> QED BY <1>2, <2>2, <3>1 DEF TurnsOK
  <2> QED BY <1>1, <1>2, <2>1, <2>2
<1>4. c + 1 \in Nat /\ Len(z) <= c + 1
  BY <1>1, <1>2
<1> QED BY <1>2, <1>3, <1>4 DEF TurnsOK, z

\* Whose turn it was in the last n turns.
Shares(s) ==
  LET tier  == IF s = <<>> THEN <<>> ELSE Last(s).tier
      since == Len(s) - Len(tier)
      last  == {i \in DOMAIN s : i > since}
  IN  (since >= 0 /\ \A i \in last : s[i].tier = tier) => {s[i].lead : i \in last} = ToSet(tier)

LEMMA TurnsAreShared ==
  ASSUME NEW s, NEW c, TurnsOK(s, c)
  PROVE  Shares(s)
<1>1. s \in Seq(TurnRecord) /\ c \in Nat /\ Len(s) <= c /\ Len(s) \in Nat /\ DOMAIN s = 1..Len(s)
  BY DEF TurnsOK
<1>2. CASE s = <<>>
  BY <1>2 DEF Shares, ToSet
<1>3. CASE s # <<>>
  <2> DEFINE tier == s[Len(s)].tier
  <2> DEFINE n == Len(tier)
  <2> DEFINE since == Len(s) - n
  <2> DEFINE last == {i \in DOMAIN s : i > since}
  <2> SUFFICES ASSUME since >= 0, \A i \in last : s[i].tier = tier
               PROVE  {s[i].lead : i \in last} = ToSet(tier)
    BY <1>3 DEF Shares, Last
  <2>1. tier \in Seq(Nat) /\ tier # <<>>
    <3>1. Len(s) \in 1..Len(s)
      BY <1>1, <1>3
    <3>2. s[Len(s)] \in TurnRecord
      BY <1>1, <3>1
    <3> QED BY <3>2 DEF TurnRecord
  <2>2. n \in Nat \ {0} /\ DOMAIN tier = 1..n /\ since \in Nat /\ since + n = Len(s) /\ c - n \in Nat
    <3> HIDE DEF tier
    <3>1. n \in Nat \ {0} /\ DOMAIN tier = 1..n
      BY <2>1
    <3> HIDE DEF n
    <3> QED BY <3>1, <1>1
  <2>3. \A i \in last : i \in 1..Len(s) /\ i > since /\ s[i].tier = tier
    BY <1>1
  <2> HIDE DEF tier, n, since, last
  <2>4. \A i \in last : c - Len(s) + i - 1 \in Nat
    BY <1>1, <2>3
  <2>5. \A i \in last : s[i].lead = tier[1 + ((c - Len(s) + i - 1) % n)]
    BY <2>3 DEF TurnsOK, n
  <2>6. ASSUME NEW i \in last PROVE s[i].lead \in ToSet(tier)
    <3> DEFINE r == (c - Len(s) + i - 1) % n
    <3>1. r \in 0..(n - 1)
      BY <2>2, <2>4, Remainder
    <3> HIDE DEF r
    <3>2. 1 + r \in DOMAIN tier
      BY <2>2, <3>1
    <3>3. s[i].lead = tier[1 + r]
      BY <2>5 DEF r
    <3> QED BY <3>2, <3>3 DEF ToSet
  <2>7. ASSUME NEW x \in ToSet(tier) PROVE \E i \in last : s[i].lead = x
    <3>1. PICK j \in DOMAIN tier : x = tier[j]
      BY DEF ToSet
    <3>2. j \in 1..n /\ j - 1 \in 0..(n - 1)
      BY <2>2, <3>1
    <3>3. PICK a \in 0..(n - 1) : (a + (c - n)) % n = j - 1
      BY <2>2, <3>2, RemaindersAreAll
    <3> DEFINE i == since + a + 1
    <3>4. i \in 1..Len(s) /\ i > since /\ c - Len(s) + i - 1 = a + (c - n)
      BY <1>1, <2>2
    <3>5. i \in last
      BY <1>1, <3>4 DEF last
    <3> HIDE DEF i
    <3>6. s[i].lead = tier[1 + (j - 1)]
      BY <2>5, <3>3, <3>4, <3>5
    <3>7. 1 + (j - 1) = j
      BY <3>2
    <3> QED BY <3>1, <3>5, <3>6, <3>7
  <2> QED BY <2>6, <2>7
<1> QED BY <1>2, <1>3

\* A round-robin request takes the turn its cursor says.
LEMMA TakesItsTurn ==
  ASSUME NEW cs \in Seq(Candidates), cs # <<>>, NEW pol, pol.nativeFirst \in BOOLEAN,
         pol.selection = "round_robin", NEW c \in Nat, NEW order \in Orders(cs, pol, c)
  PROVE  InTurn(TurnOf(order, Ranked(cs, pol), pol.nativeFirst), c)
<1> DEFINE s == Ranked(cs, pol)
<1> DEFINE T == TierOf(s, pol.nativeFirst, 1)
<1> DEFINE n == Cardinality(T)
<1> DEFINE t == [lead |-> order[1].channel, tier |-> [i \in T |-> s[i].channel]]
<1>1. Covers(s, cs, pol) /\ Falls(s, pol.nativeFirst)
  BY RankedIs
<1>2. s \in Seq(Candidates)
  BY <1>1 DEF Covers
<1>3. 1 \in DOMAIN s /\ DOMAIN s = 1..Len(s) /\ Len(s) \in Nat
  <2>1. 1 \in DOMAIN cs
    OBVIOUS
  <2>2. DOMAIN s # {}
    BY <1>1, <2>1 DEF Covers
  <2> HIDE DEF s
  <2> QED BY <1>2, <2>2
<1>4. order = [i \in DOMAIN s |-> s[Rotated(TierOf(s, pol.nativeFirst, i), i, c)]]
  <2>1. s # <<>>
    BY <1>3
  <2>2. PICK p \in Arrangements(s, pol, c) : order = [i \in DOMAIN s |-> s[p[i]]]
    BY <2>1 DEF Orders
  <2> HIDE DEF s
  <2>3. p = [i \in DOMAIN s |-> Rotated(TierOf(s, pol.nativeFirst, i), i, c)]
    BY DEF Arrangements
  <2> QED BY <2>2, <2>3
<1> HIDE DEF s
<1>6. 1 \in T /\ T \in SUBSET DOMAIN s /\ Min(T) \in T /\ Min(T) <= 1
      /\ n \in Nat \ {0} /\ T = Min(T)..(Min(T) + n - 1)
  BY <1>1, <1>2, <1>3, TierIs
<1>7. Min(T) = 1
  <2>1. Min(T) \in 1..Len(s)
    BY <1>3, <1>6
  <2> QED BY <1>6, <2>1, <1>3
<1>8. Rotated(T, 1, c) = 1 + (c % n)
  BY <1>7 DEF Rotated
<1> HIDE DEF T, n
<1>9. T = 1..n
  BY <1>6, <1>7
<1>10. c % n \in 0..(n - 1)
  BY <1>6, Remainder
<1>11. 1 + (c % n) \in 1..n
  BY <1>6, <1>10
<1>12. \A i \in 1..n : s[i].channel \in Nat
  BY <1>2, <1>6, <1>9, CandidateType
<1>13. order[1] = s[1 + (c % n)]
  BY <1>3, <1>4, <1>8 DEF T
<1>14. t.tier = [i \in 1..n |-> s[i].channel] /\ t.lead = s[1 + (c % n)].channel
  BY <1>9, <1>13
<1>15. t.tier \in Seq(Nat) /\ Len(t.tier) = n /\ t.tier # <<>>
  BY <1>6, <1>12, <1>14
<1>16. t.lead \in Nat /\ t.lead = t.tier[1 + (c % n)]
  BY <1>11, <1>12, <1>14
<1>17. t \in TurnRecord
  BY <1>15, <1>16 DEF TurnRecord
<1>18. InTurn(t, c)
  <2> HIDE DEF t
  <2> QED BY <1>15, <1>16, <1>17 DEF InTurn
<1> QED BY <1>18 DEF TurnOf, s, T

-----------------------------------------------------------------------------
(***************************************************************************)
(* The routes of the requests                                              *)
(***************************************************************************)
\* Its plan is empty, and it is about to be told why.
Unrouted(q) == q.pc \in {"pin", "drop", "planned"} /\ q.call.route = "json" /\ q.plan = <<>>

\* A request asks for a model of the scenario, of valid channels it may use; its
\* plan is empty, and it has a verdict, only if there is no choice.
RouteOK(q) ==
  /\ InHand(q)
  /\ q.pc # "idle" => q.call.model \in scene.models
  /\ q.pc # "done" => q.verdict = <<>>
  /\ Unrouted(q) => Serviceable(q) = <<>>
  /\ q.verdict \notin {<<>>, NoNativeEndpoint} =>
       Serviceable(q) = <<>> /\ q.verdict = Diagnose(q.channels, q.call.model, q.call.inbound)

TurnsInv ==
  /\ DOMAIN turns = scene.models /\ DOMAIN cursors = scene.models
  /\ \A m \in scene.models : TurnsOK(turns[m], cursors[m])

RoutesInv ==
  /\ table \in scene.tables /\ policy \in scene.policies /\ TurnsInv
  /\ \A h \in Handlers : RouteOK(handling[h])

\* What a step of the handler h does to routes.
RouteStep(h) ==
  /\ \E q : /\ RouteOK(q) /\ handling' = [handling EXCEPT ![h] = q]
            /\ handling[h].pc = "plan" => SoundPlan(q, policy)
  /\ UNCHANGED <<scene, table, policy>>
  /\ TurnsInv'

LEMMA AsksForModel ==
  ASSUME NEW q, RouteOK(q), q.pc # "idle"
  PROVE  q.call.model \in scene.models
BY Zenon DEF RouteOK

LEMMA PolicyIs ==
  ASSUME DispatchInv, RoutesInv
  PROVE  policy.nativeFirst \in BOOLEAN /\ policy.selection \in Selections
BY ScenarioAssumption DEF DispatchInv, RoutesInv, Selections

\* Pinning empties no plan.
LEMMA PinKeeps ==
  ASSUME NEW s, NEW b, PinChannel(s, b) = <<>>
  PROVE  s = <<>>
<1> SUFFICES ASSUME HasChannel(s, b) PROVE FALSE
  BY DEF PinChannel
<1>1. PICK pos : PinChannel(s, b) = <<s[pos]>> \o RemoveAt(s, pos)
  BY DEF PinChannel
<1>2. <<s[pos]>> \o RemoveAt(s, pos) # <<>>
  OBVIOUS
<1> QED BY <1>1, <1>2

LEMMA TurnsOfModel ==
  ASSUME TurnsInv, NEW m \in scene.models
  PROVE  TurnsOK(turns[m], cursors[m]) /\ cursors[m] \in Nat
BY DEF TurnsInv, TurnsOK

LEMMA TurnsStay ==
  ASSUME RoutesInv, UNCHANGED <<scene, turns, cursors>>
  PROVE  TurnsInv'
BY DEF RoutesInv, TurnsInv

\* Most steps leave the call, the channels and the verdict alone.
LEMMA Carried ==
  ASSUME NEW q, RouteOK(q), q.pc \notin {"idle", "done"},
         NEW n, n.call = q.call, n.channels = q.channels, n.verdict = q.verdict,
         Unrouted(n) => Unrouted(q)
  PROVE  RouteOK(n)
<1>1. InHand(n) /\ Serviceable(n) = Serviceable(q)
  BY DEF RouteOK, InHand, Serviceable
<1> QED BY <1>1 DEF RouteOK

LEMMA CarriedStep ==
  ASSUME RoutesInv, NEW h \in Handlers, handling[h].pc \notin {"idle", "plan", "done"},
         NEW n, handling' = [handling EXCEPT ![h] = n],
         n.call = handling[h].call, n.channels = handling[h].channels,
         n.verdict = handling[h].verdict, Unrouted(n) => Unrouted(handling[h]),
         UNCHANGED <<scene, table, policy, cursors, turns>>
  PROVE  RouteStep(h)
<1>1. RouteOK(n)
  BY Carried DEF RoutesInv
<1> QED BY <1>1, TurnsStay DEF RouteStep

LEMMA IdleRoute == RouteOK(Idle)
<1>1. /\ Idle.pc = "idle" /\ Idle.channels = <<>> /\ Idle.verdict = <<>>
  BY DEF Idle
<1>2. InHand(Idle)
  BY <1>1 DEF InHand, ChannelsOK, ToSet
<1> QED BY <1>1, <1>2 DEF RouteOK, Unrouted

LEMMA BeginRoute ==
  ASSUME RoutesInv, scene \in Scenarios, NEW h \in Handlers, NEW call \in scene.shapes,
         Begin(h, call)
  PROVE  RouteStep(h)
<1> DEFINE n == [Idle EXCEPT !.pc = "read", !.call = call]
<1>1. handling' = [handling EXCEPT ![h] = n] /\ handling[h].pc = "idle"
  BY DEF Begin, Set
<1>2. /\ n.pc = "read" /\ n.call = call /\ n.channels = <<>> /\ n.verdict = <<>>
  BY DEF Idle
<1> HIDE DEF n
<1>3. call.model \in scene.models
  BY ScenarioAssumption
<1>4. InHand(n)
  BY <1>2 DEF InHand, ChannelsOK, ToSet
<1>5. RouteOK(n)
  BY <1>2, <1>3, <1>4 DEF RouteOK, Unrouted
<1>6. UNCHANGED <<scene, table, policy, cursors, turns>>
  BY DEF Begin
<1> QED BY <1>1, <1>5, <1>6, TurnsStay DEF RouteStep

LEMMA LeaveRoute ==
  ASSUME RoutesInv, NEW h \in Handlers, Leave(h)
  PROVE  RouteStep(h)
<1>1. /\ handling' = [handling EXCEPT ![h] = Idle] /\ handling[h].pc = "done"
      /\ UNCHANGED <<scene, table, policy, cursors, turns>>
  BY DEF Leave, Set, shared, bounded
<1> QED BY <1>1, IdleRoute, TurnsStay DEF RouteStep

\* The request takes what it may use of a table that was saved.
LEMMA ReadChannelsRoute ==
  ASSUME DispatchInv, RoutesInv, NEW h \in Handlers, ReadChannels(h)
  PROVE  RouteStep(h)
<1> DEFINE q == handling[h]
<1> DEFINE I == {i \in DOMAIN table : Allowed(q.call.principal, table[i])}
<1> DEFINE chs == Picked(table, I)
<1> DEFINE pc == IF q.call.route = "json" THEN "ask" ELSE "plan"
<1> DEFINE n == [q EXCEPT !.channels = chs, !.pc = pc]
<1>1. handling' = [handling EXCEPT ![h] = n] /\ q.pc = "read"
  BY DEF ReadChannels, Set
<1>2. /\ UNCHANGED <<scene, table, policy, cursors, turns>>
      /\ scene \in Scenarios /\ table \in scene.tables /\ RouteOK(q) /\ HandledOK(q)
      /\ pc \in {"ask", "plan"}
  BY DEF ReadChannels, shared, bounded, DispatchInv, RoutesInv
<1>3. table \in Seq(ToSet(table)) /\ \A ch \in ToSet(table) : ValidChannel(ch)
  BY <1>2, ScenarioAssumption
<1>4. chs \in Seq(ToSet(table))
      /\ \A k \in DOMAIN chs : \E i \in I : chs[k] = table[i]
  <2>1. /\ Picked(table, I) \in Seq(ToSet(table))
        /\ \E at \in [DOMAIN Picked(table, I) -> I] :
             /\ \A k \in DOMAIN Picked(table, I) : Picked(table, I)[k] = table[at[k]]
             /\ \A i \in I : \E k \in DOMAIN Picked(table, I) : at[k] = i
             /\ \A j, k \in DOMAIN Picked(table, I) : j < k => at[j] < at[k]
    <3>1. I \in SUBSET DOMAIN table
      OBVIOUS
    <3> HIDE DEF I
    <3> QED BY <1>3, <3>1, PickedIs, Zenon
  <2> HIDE DEF I
  <2> QED BY <2>1
<1>5. /\ n.call = q.call /\ n.channels = chs /\ n.verdict = q.verdict /\ n.pc = pc
  BY <1>2 DEF HandledOK, Fields
<1>6. \A ch \in ToSet(chs) : ch \in ToSet(table) /\ Allowed(q.call.principal, ch)
  <2> HIDE DEF chs
  <2> QED BY <1>4 DEF ToSet
<1> HIDE DEF n, chs, pc, I
<1>7. ChannelsOK(chs)
  <2>1. chs \in Seq(ToSet(chs))
    BY <1>4 DEF ToSet
  <2> QED BY <1>3, <1>6, <2>1 DEF ChannelsOK
<1>8. InHand(n)
  BY <1>5, <1>6, <1>7 DEF InHand
<1>9. RouteOK(n)
  BY <1>1, <1>2, <1>5, <1>8 DEF RouteOK, Unrouted
<1> QED BY <1>1, <1>2, <1>9, TurnsStay DEF RouteStep

LEMMA AskAffinityRoute ==
  ASSUME DispatchInv, RoutesInv, NEW h \in Handlers, AskAffinity(h)
  PROVE  RouteStep(h)
<1> DEFINE q == handling[h]
<1> DEFINE next == IF q.call.route = "json" THEN "plan" ELSE "pin"
<1> DEFINE n == IF IsActive(settings)
                THEN [q EXCEPT !.body = NeedsBody(settings), !.pc = "resolve"]
                ELSE [q EXCEPT !.pc = next]
<1>1. /\ handling' = [handling EXCEPT ![h] = n] /\ q.pc = "ask"
      /\ UNCHANGED <<scene, table, policy, cursors, turns>>
  BY DEF AskAffinity, Set, shared, bounded
<1>2. DOMAIN q = Fields
  BY DEF DispatchInv, HandledOK
<1>3. n.call = q.call /\ n.channels = q.channels /\ n.verdict = q.verdict
  BY <1>2 DEF Fields
<1>4. n.pc \in {"resolve", next}
  BY <1>2 DEF Fields
<1>5. ~Unrouted(n)
  BY <1>3, <1>4 DEF Unrouted
<1> HIDE DEF n, next
<1> QED BY <1>1, <1>3, <1>5, CarriedStep

LEMMA ResolveAffinityRoute ==
  ASSUME DispatchInv, RoutesInv, NEW h \in Handlers, ResolveAffinity(h)
  PROVE  RouteStep(h)
<1> DEFINE q == handling[h]
<1> DEFINE res == Resolve(cache, settings, ContextOf(q))
<1> DEFINE pc == IF q.call.route = "json" THEN "plan" ELSE "pin"
<1> DEFINE n == [q EXCEPT !.decision = res.decision, !.pc = pc]
<1>1. /\ handling' = [handling EXCEPT ![h] = n] /\ q.pc = "resolve"
      /\ UNCHANGED <<scene, table, policy, cursors, turns>>
  BY DEF ResolveAffinity, Set, shared, bounded
<1>2. DOMAIN q = Fields
  BY DEF DispatchInv, HandledOK
<1>3. n.call = q.call /\ n.channels = q.channels /\ n.verdict = q.verdict /\ n.pc = pc
  BY <1>2 DEF Fields
<1>5. ~Unrouted(n)
  BY <1>3 DEF Unrouted
<1> HIDE DEF n, pc
<1> QED BY <1>1, <1>3, <1>5, CarriedStep

LEMMA PinRouteRoute ==
  ASSUME DispatchInv, RoutesInv, NEW h \in Handlers, PinRoute(h)
  PROVE  RouteStep(h)
<1> DEFINE q == handling[h]
<1> DEFINE plan == IF Pinned(q) THEN PinChannel(q.plan, q.decision.binding) ELSE q.plan
<1> DEFINE pc == IF Pinned(q) /\ ~HasChannel(q.plan, q.decision.binding) THEN "drop" ELSE "planned"
<1> DEFINE n == [q EXCEPT !.plan = plan, !.pc = pc]
<1>1. /\ handling' = [handling EXCEPT ![h] = n] /\ q.pc = "pin"
      /\ UNCHANGED <<scene, table, policy, cursors, turns>>
  BY DEF PinRoute, Set, shared, bounded
<1>2. DOMAIN q = Fields
  BY DEF DispatchInv, HandledOK
<1>3. n.call = q.call /\ n.channels = q.channels /\ n.verdict = q.verdict /\ n.plan = plan
  BY <1>2 DEF Fields
<1>4. plan = <<>> => q.plan = <<>>
  BY PinKeeps
<1> HIDE DEF n, plan
<1>5. Unrouted(n) => Unrouted(q)
  BY <1>1, <1>3, <1>4 DEF Unrouted
<1> QED BY <1>1, <1>3, <1>5, CarriedStep

LEMMA DropBindingRoute ==
  ASSUME DispatchInv, RoutesInv, NEW h \in Handlers, DropBinding(h)
  PROVE  RouteStep(h)
<1> DEFINE q == handling[h]
<1> DEFINE n == [q EXCEPT !.pc = "planned"]
<1>1. /\ handling' = [handling EXCEPT ![h] = n] /\ q.pc = "drop"
      /\ UNCHANGED <<scene, table, policy, cursors, turns>>
  BY DEF DropBinding, Set, shared, bounded
<1>2. DOMAIN q = Fields
  BY DEF DispatchInv, HandledOK
<1>3. n.call = q.call /\ n.channels = q.channels /\ n.verdict = q.verdict /\ n.plan = q.plan
  BY <1>2 DEF Fields
<1> HIDE DEF n
<1>5. Unrouted(n) => Unrouted(q)
  BY <1>1, <1>3 DEF Unrouted
<1> QED BY <1>1, <1>3, <1>5, CarriedStep

LEMMA ExecuteRoute ==
  ASSUME DispatchInv, RoutesInv, NEW h \in Handlers, Execute(h)
  PROVE  RouteStep(h)
<1> DEFINE q == handling[h]
<1> DEFINE why == IF q.call.route = "json" THEN Diagnose(q.channels, q.call.model, q.call.inbound)
                  ELSE NoNativeEndpoint
<1> DEFINE only == Pinned(q) /\ q.decision.skip
<1> DEFINE plan == IF only THEN PinnedOnly(q.plan) ELSE q.plan
<1> DEFINE n == IF q.plan = <<>> THEN [q EXCEPT !.pc = "done", !.verdict = why]
                ELSE [q EXCEPT !.pc = "calling", !.only = only, !.plan = plan]
<1>1. /\ handling' = [handling EXCEPT ![h] = n] /\ q.pc = "planned"
      /\ UNCHANGED <<scene, table, policy, cursors, turns>>
  BY DEF Execute, Set, shared, bounded
<1>2. DOMAIN q = Fields /\ RouteOK(q)
  BY DEF DispatchInv, HandledOK, RoutesInv
<1> HIDE DEF plan, only
<1>3. n.call = q.call /\ n.channels = q.channels
  BY <1>2 DEF Fields
<1>4. CASE q.plan = <<>>
  <2>1. n.pc = "done" /\ n.verdict = why
    BY <1>2, <1>4 DEF Fields
  <2> HIDE DEF n
  <2>2. InHand(n) /\ Serviceable(n) = Serviceable(q)
    BY <1>2, <1>3 DEF RouteOK, InHand, Serviceable
  <2>3. q.call.route = "json" => Serviceable(q) = <<>>
    BY <1>1, <1>2, <1>4 DEF RouteOK, Unrouted
  <2>4. n.call.model \in scene.models
    BY <1>1, <1>2, <1>3 DEF RouteOK
  <2>5. RouteOK(n)
    BY <1>3, <2>1, <2>2, <2>3, <2>4 DEF RouteOK, Unrouted
  <2> QED BY <1>1, <2>5, TurnsStay DEF RouteStep
<1>5. CASE q.plan # <<>>
  <2>1. n.pc = "calling" /\ n.verdict = q.verdict
    BY <1>2, <1>5 DEF Fields
  <2> HIDE DEF n
  <2>2. ~Unrouted(n)
    BY <2>1 DEF Unrouted
  <2> QED BY <1>1, <1>3, <2>1, <2>2, CarriedStep
<1> QED BY <1>4, <1>5

\* The ends of a call.
LEMMA EndRoute ==
  ASSUME DispatchInv, RoutesInv, NEW h \in Handlers,
         handling[h].pc \in {"calling", "streaming"},
         NEW n, handling' = [handling EXCEPT ![h] = n],
         n.pc \in {"streaming", "done"}, n.call = handling[h].call,
         n.channels = handling[h].channels, n.verdict = handling[h].verdict,
         UNCHANGED <<scene, table, policy, cursors, turns>>
  PROVE  RouteStep(h)
<1>1. ~Unrouted(n)
  BY DEF Unrouted
<1> QED BY <1>1, CarriedStep

LEMMA SucceedRoute ==
  ASSUME DispatchInv, RoutesInv, NEW h \in Handlers, NEW channel, Succeed(h, channel)
  PROVE  RouteStep(h)
<1> DEFINE q == handling[h]
<1> DEFINE pc == IF q.call.stream THEN "streaming" ELSE "done"
<1> DEFINE n == [q EXCEPT !.served = channel, !.pc = pc]
<1>1. /\ handling' = [handling EXCEPT ![h] = n] /\ q.pc = "calling"
      /\ UNCHANGED <<scene, table, policy, cursors, turns>>
  BY DEF Succeed, Set, shared, bounded
<1>2. DOMAIN q = Fields
  BY DEF DispatchInv, HandledOK
<1>3. /\ n.call = q.call /\ n.channels = q.channels /\ n.verdict = q.verdict
      /\ n.pc \in {"streaming", "done"}
  BY <1>2 DEF Fields
<1> HIDE DEF n
<1> QED BY <1>1, <1>3, EndRoute

LEMMA FinishRoute ==
  ASSUME DispatchInv, RoutesInv, NEW h \in Handlers,
         Fail(h) \/ \E broken : EndStream(h, broken)
  PROVE  RouteStep(h)
<1> DEFINE q == handling[h]
<1> DEFINE n == [q EXCEPT !.pc = "done"]
<1>1. /\ handling' = [handling EXCEPT ![h] = n] /\ q.pc \in {"calling", "streaming"}
      /\ UNCHANGED <<scene, table, policy, cursors, turns>>
  BY DEF Fail, EndStream, Set, shared, bounded
<1>2. DOMAIN q = Fields
  BY DEF DispatchInv, HandledOK
<1>3. /\ n.call = q.call /\ n.channels = q.channels /\ n.verdict = q.verdict
      /\ n.pc \in {"streaming", "done"}
  BY <1>2 DEF Fields
<1> HIDE DEF n
<1> QED BY <1>1, <1>3, EndRoute

\* The plan is sound, and the turn goes on.
LEMMA PlanRouteRoute ==
  ASSUME DispatchInv, RoutesInv, NEW h \in Handlers, PlanRoute(h)
  PROVE  RouteStep(h)
<1>4. policy.nativeFirst \in BOOLEAN /\ policy.selection \in Selections
  BY PolicyIs
<1> DEFINE q == handling[h]
<1> DEFINE m == q.call.model
<1> DEFINE cands == Collect(q.channels, m, q.call.inbound)
<1> DEFINE turn == policy.selection = "round_robin" /\ cands # <<>>
<1> DEFINE ranked == Ranked(cands, policy)
<1> DEFINE T == TierOf(ranked, policy.nativeFirst, 1)
<1> DEFINE tier == [i \in DOMAIN ranked |-> TierOf(ranked, policy.nativeFirst, i)]
<1> DEFINE pc == IF q.call.route = "pass" THEN "ask" ELSE "pin"
<1>1. PICK order \in Orders(cands, policy, cursors[m]) :
        /\ cursors' = IF turn THEN [cursors EXCEPT ![m] = CursorAfter(@, Cardinality(Range(tier)))]
                      ELSE cursors
        /\ turns' = IF turn
                    THEN [turns EXCEPT ![m] =
                            Append(@, [lead |-> order[1].channel,
                                       tier |-> [i \in tier[1] |-> ranked[i].channel]])]
                    ELSE turns
        /\ Set(h, [q EXCEPT !.plan = IF q.call.route = "json" THEN order
                                     ELSE NativeOnly(order, q.call.inbound),
                            !.pc = IF q.call.route = "pass" THEN "ask" ELSE "pin"])
  BY Zenon DEF PlanRoute
<1> DEFINE plan == KeptOf(q.call.route, order, q.call.inbound)
<1> DEFINE n == [q EXCEPT !.plan = plan, !.pc = pc]
<1>2. handling' = [handling EXCEPT ![h] = n] /\ q.pc = "plan" /\ UNCHANGED <<scene, table, policy>>
  <2>1. handling' = [handling EXCEPT ![h] = n]
    BY <1>1, Zenon DEF Set, KeptOf
  <2> QED BY <2>1, Zenon DEF PlanRoute, shared, bounded
<1>3. /\ DOMAIN q = Fields /\ RouteOK(q) /\ m \in scene.models
      /\ scene \in Scenarios /\ policy \in scene.policies /\ TurnsInv
  <2>1. DOMAIN q = Fields /\ scene \in Scenarios
    BY Zenon DEF DispatchInv, HandledOK
  <2>2. RouteOK(q) /\ policy \in scene.policies /\ TurnsInv
    BY Zenon DEF RoutesInv
  <2>3. q.pc # "idle"
    BY <1>2
  <2>4. m \in scene.models
    BY <2>2, <2>3, AsksForModel
  <2> QED BY <2>1, <2>2, <2>4, Zenon
<1>5. TurnsOK(turns[m], cursors[m]) /\ cursors[m] \in Nat
  BY <1>3, TurnsOfModel
<1>6. cands \in Seq(Candidates) /\ Serviceable(q) = cands
  BY <1>3, CollectIs DEF RouteOK, InHand, Serviceable
<1> HIDE DEF cands
<1>7. /\ Covers(order, cands, policy) /\ Falls(order, policy.nativeFirst)
      /\ (order = <<>> <=> cands = <<>>)
  BY <1>4, <1>5, <1>6, OrdersAre
<1>8. /\ n.call = q.call /\ n.channels = q.channels /\ n.verdict = q.verdict
      /\ n.plan = plan /\ n.pc = pc
  BY <1>3 DEF Fields
<1> HIDE DEF n
<1>9. InHand(n) /\ Serviceable(n) = cands
  BY <1>3, <1>6, <1>8 DEF RouteOK, InHand, Serviceable
<1>10. SoundPlan(n, policy)
  <2>1. n.plan = KeptOf(n.call.route, order, n.call.inbound)
    BY <1>8
  <2> HIDE DEF plan
  <2> QED BY <1>4, <1>7, <1>9, <2>1, PlanOfOrder
<1>11. RouteOK(n)
  <2>1. Unrouted(n) => cands = <<>>
    BY <1>7, <1>8 DEF Unrouted, KeptOf
  <2>2. n.verdict = <<>> /\ n.call.model \in scene.models
    BY <1>2, <1>3, <1>8 DEF RouteOK
  <2> QED BY <1>9, <2>1, <2>2 DEF RouteOK
<1>12. TurnsInv'
  <2>1. CASE ~turn
    BY <1>1, <1>2, <1>3, <2>1 DEF TurnsInv
  <2>2. CASE turn
    <3> DEFINE t == [lead |-> order[1].channel, tier |-> [i \in T |-> ranked[i].channel]]
    <3>1. InTurn(t, cursors[m])
      <4>1. InTurn(TurnOf(order, ranked, policy.nativeFirst), cursors[m])
        BY <1>4, <1>5, <1>6, <2>2, TakesItsTurn
      <4> QED BY <4>1 DEF TurnOf
    <3>2. tier[1] = T
      <4>1. 1 \in DOMAIN ranked
        <5>1. Covers(ranked, cands, policy)
          BY <1>4, <1>6, RankedIs
        <5>2. 1 \in DOMAIN cands
          BY <1>6, <2>2
        <5> HIDE DEF ranked
        <5>3. ranked \in Seq(Candidates) /\ DOMAIN ranked # {}
          BY <5>1, <5>2 DEF Covers
        <5> QED BY <5>3
      <4> QED BY <4>1
    <3>3. turns' = [turns EXCEPT ![m] = Append(@, t)] /\ cursors' = [cursors EXCEPT ![m] = @ + 1]
      BY <1>1, <2>2, <3>2 DEF CursorAfter
    <3> HIDE DEF t, m
    <3>4. TurnsOK(Append(turns[m], t), cursors[m] + 1)
      BY <1>5, <3>1, OneMoreTurn
    <3>5. /\ DOMAIN turns' = scene.models /\ DOMAIN cursors' = scene.models
          /\ \A k \in scene.models : TurnsOK(turns'[k], cursors'[k])
      BY <1>3, <3>3, <3>4 DEF TurnsInv
    <3> QED BY <1>2, <3>5 DEF TurnsInv
  <2> QED BY <2>1, <2>2
<1> QED BY <1>2, <1>10, <1>11, <1>12, Zenon DEF RouteStep

LEMMA HandleRoute ==
  ASSUME DispatchInv, RoutesInv, NEW h \in Handlers, Handle(h)
  PROVE  RouteStep(h)
BY ReadChannelsRoute, AskAffinityRoute, ResolveAffinityRoute, PlanRouteRoute, PinRouteRoute,
   DropBindingRoute, ExecuteRoute, SucceedRoute, FinishRoute DEF Handle

LEMMA RoutesInitInv ==
  ASSUME GatewayInit
  PROVE  RoutesInv
<1>1. /\ table \in scene.tables /\ policy \in scene.policies
      /\ cursors = [m \in scene.models |-> 0] /\ turns = [m \in scene.models |-> <<>>]
      /\ handling = [h \in Handlers |-> Idle]
  BY DEF GatewayInit, DispatchInit
<1>2. TurnsOK(<<>>, 0)
  BY DEF TurnsOK
<1>3. TurnsInv
  BY <1>1, <1>2 DEF TurnsInv
<1> QED BY <1>1, <1>3, IdleRoute DEF RoutesInv

LEMMA RouteStepInv ==
  ASSUME DispatchInv, RoutesInv, NEW h \in Handlers, RouteStep(h)
  PROVE  /\ RoutesInv'
         /\ \A x \in Handlers : (handling[x].pc = "plan" /\ handling'[x].pc # "plan")
              => SoundPlan(handling'[x], policy)
<1>1. PICK q : /\ RouteOK(q) /\ handling' = [handling EXCEPT ![h] = q]
               /\ handling[h].pc = "plan" => SoundPlan(q, policy)
  BY DEF RouteStep
<1>2. \A x \in Handlers : handling'[x] = IF x = h THEN q ELSE handling[x]
  BY <1>1 DEF DispatchInv
<1>3. \A x \in Handlers : RouteOK(handling'[x])
  BY <1>1, <1>2 DEF RoutesInv
<1>4. \A x \in Handlers : RouteOK(handling[x])'
  BY <1>3 DEF RouteStep, RouteOK, InHand, Unrouted, Serviceable
<1> QED BY <1>1, <1>2, <1>4 DEF RouteStep, RoutesInv

\* A change of the table or of the policy starts the turns anew.
LEMMA AdministerRoute ==
  ASSUME RoutesInv, Administer
  PROVE  RoutesInv' /\ handling' = handling
<1>1. /\ UNCHANGED <<scene, cursors, handling>>
      /\ \/ UNCHANGED <<table, policy, turns>>
         \/ /\ table' \in scene.tables /\ policy' \in scene.policies
            /\ turns' = [m \in DOMAIN turns |-> <<>>]
  BY DEF RoutesInv, Administer, ChangeTable, ChangePolicy, ChangeSettings, ClearBindings,
         SweepBindings, Expire, shared
<1>2. \A h \in Handlers : RouteOK(handling[h])'
  BY <1>1 DEF RoutesInv, RouteOK, InHand, Unrouted, Serviceable
<1>3. CASE UNCHANGED <<table, policy, turns>>
  BY <1>1, <1>2, <1>3 DEF RoutesInv, TurnsInv
<1>4. CASE /\ table' \in scene.tables /\ policy' \in scene.policies
           /\ turns' = [m \in DOMAIN turns |-> <<>>]
  <2>1. \A c : c \in Nat => TurnsOK(<<>>, c)
    BY DEF TurnsOK
  <2>2. \A m \in scene.models : cursors[m] \in Nat
    BY DEF RoutesInv, TurnsInv, TurnsOK
  <2>3. TurnsInv'
    BY <1>1, <1>4, <2>1, <2>2 DEF RoutesInv, TurnsInv
  <2> QED BY <1>1, <1>2, <1>4, <2>3 DEF RoutesInv
<1> QED BY <1>1, <1>3, <1>4

LEMMA RoutesStay ==
  ASSUME RoutesInv, UNCHANGED dispatchVars
  PROVE  RoutesInv' /\ handling' = handling
<1>1. UNCHANGED <<scene, table, policy, cursors, turns, handling>>
  BY DEF dispatchVars
<1> QED BY <1>1 DEF RoutesInv, TurnsInv, RouteOK, InHand, Unrouted, Serviceable

\* Each step keeps the routes, and whoever leaves the planner has a sound plan.
LEMMA RoutesStepInv ==
  ASSUME GatewayInv, RoutesInv, [GatewayNext]_gatewayVars
  PROVE  /\ RoutesInv'
         /\ \A x \in Handlers : (handling[x].pc = "plan" /\ handling'[x].pc # "plan")
              => SoundPlan(handling'[x], policy)
<1> DEFINE Goal == /\ RoutesInv'
                   /\ \A x \in Handlers : (handling[x].pc = "plan" /\ handling'[x].pc # "plan")
                        => SoundPlan(handling'[x], policy)
<1>1. DispatchInv /\ scene \in Scenarios
  BY DEF GatewayInv, DispatchInv
<1>2. ASSUME UNCHANGED dispatchVars PROVE Goal
  BY <1>2, RoutesStay
<1>3. ASSUME NEW r \in Requests, Dispatched(r) \/ Answered(r) PROVE Goal
  <2>1. r \in Handlers
    BY HandlersAreRequests
  <2>2. RouteStep(r)
    BY <1>1, <1>3, <2>1, BeginRoute, HandleRoute, LeaveRoute DEF Dispatched, Answered
  <2> QED BY <1>1, <2>1, <2>2, RouteStepInv
<1>4. ASSUME Administer PROVE Goal
  BY <1>4, AdministerRoute
<1>5. CASE GatewayNext
  BY <1>2, <1>3, <1>4, <1>5, Zenon DEF GatewayNext, ArriveAtRoute
<1>6. CASE UNCHANGED gatewayVars
  BY <1>2, <1>6 DEF gatewayVars
<1> QED BY <1>5, <1>6

LEMMA RoutesInvariant == GatewaySpec => [](GatewayInv /\ RoutesInv)
<1>1. GatewayInit => GatewayInv /\ RoutesInv
  BY GatewayInitInv, RoutesInitInv
<1>2. GatewayInv /\ RoutesInv /\ [GatewayNext]_gatewayVars => GatewayInv' /\ RoutesInv'
  BY GatewayStepInv, RoutesStepInv
<1> QED BY <1>1, <1>2, PTL DEF GatewaySpec

\* RoutesAreSound, for any channels, policies and requests: a plan is what may
\* serve the request, tier by tier; the channels of a tier take turns; and a
\* client without a route is told the truth about it.
THEOREM RoutesKept == GatewaySpec => RoutesAreSound
<1> DEFINE Sound == \A h \in Handlers :
                      (handling[h].pc = "plan" /\ handling'[h].pc # "plan")
                        => SoundPlan(handling'[h], policy)
<1>1. GatewayInv /\ RoutesInv /\ [GatewayNext]_gatewayVars => [Sound]_dispatchVars
  BY RoutesStepInv
<1>2. RoutesInv => RoundRobinShares
  <2> SUFFICES ASSUME RoutesInv, NEW m \in DOMAIN turns PROVE Shares(turns[m])
    BY Zenon DEF RoundRobinShares, Shares
  <2> QED BY TurnsAreShared DEF RoutesInv, TurnsInv
<1>3. RoutesInv => EmptyRouteIsExplained
  <2> SUFFICES ASSUME RoutesInv, NEW h \in Handlers,
                      handling[h].verdict \notin {<<>>, NoNativeEndpoint}
               PROVE  Explains(handling[h].verdict, handling[h])
    BY Zenon DEF EmptyRouteIsExplained, Explains
  <2> DEFINE q == handling[h]
  <2>1. /\ InHand(q) /\ Serviceable(q) = <<>>
        /\ q.verdict = Diagnose(q.channels, q.call.model, q.call.inbound)
    BY DEF RoutesInv, RouteOK
  <2> QED BY <2>1, DiagnosisIsTrue
<1> QED BY <1>1, <1>2, <1>3, RoutesInvariant, PTL DEF GatewaySpec, RoutesAreSound, PlanIsSound

=============================================================================

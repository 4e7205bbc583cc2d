----------------------------- MODULE Admission -----------------------------
(***************************************************************************)
(* What a request passes before it is routed, and what it gives back when  *)
(* it ends: the minute windows of its address, of its API key and of the   *)
(* gateway, and a permit of the semaphore that bounds concurrency.         *)
(*                                                                         *)
(* A thread reads the clock before it takes the lock of a table of         *)
(* windows, so the minute it acts on may be over.  A change of the         *)
(* concurrency limit replaces the semaphore while permits of the old one   *)
(* are out: semaphores are numbered, and a request keeps its number.       *)
(***************************************************************************)
EXTENDS Integers, Sequences, FiniteSets

CONSTANTS
  Requests,     (* the handlers that may run at once                        *)
  ApiKeys, Ips, (* ids of the per-key and of the per-address windows        *)
  Global,       (* GLOBAL_WINDOW_KEY                                        *)
  None,
  Limits,       (* the limits in force: a set of records, one is chosen     *)
  MaxWindows,   (* MAX_WINDOWS: a larger table drops the other minutes      *)
  MaxMinute, MaxArrivals, MaxSems  (* bounds, for model checking            *)

KeyTable  == ApiKeys \cup {Global}
WindowIds == KeyTable \cup Ips
Minutes   == 0..MaxMinute
Gates     == {"ip", "key", "global"}
Charges   == {"charge_global", "charge_key"}
Window    == [minute : Minutes, requests : Nat, tokens : Nat]
Semaphore == [size : Nat, free : Nat]

\* ip, key, global: [rpm, tpm], where 0 is no limit; sizes: the values
\* administrators give max_concurrency, 0 for none; tokens: what answers cost.
LimitRecord ==
  [ip : [rpm : Nat, tpm : {0}], key : [rpm : Nat, tpm : Nat],
   global : [rpm : Nat, tpm : Nat], sizes : SUBSET Nat, tokens : SUBSET Nat]

ASSUME AdmissionAssumption ==
  /\ Limits # {} /\ Limits \subseteq LimitRecord
  /\ MaxWindows \in Nat /\ MaxMinute \in Nat /\ MaxArrivals \in Nat /\ MaxSems \in Nat
  /\ None \notin WindowIds /\ Global \notin ApiKeys /\ KeyTable \cap Ips = {}
  /\ None \notin Minutes /\ None \notin Window
  /\ IsFiniteSet(Requests)

VARIABLES
  limits,    (* the limits in force                                         *)
  minute,    (* the calendar minute                                         *)
  windows,   (* RateLimiter and IpRateLimiter                               *)
  sems,      (* every semaphore that was built                              *)
  current,   (* the one in AppState, 0 for None                             *)
  adm,       (* the requests                                                *)
  passed,    (* history: requests a window let pass, by minute read         *)
  charged,   (* history: tokens added, by minute read                       *)
  late,      (* history: locks taken in a later minute than the clock said  *)
  arrivals

admissionVars ==
  <<limits, minute, windows, sems, current, adm, passed, charged, late, arrivals>>

Outside == [pc |-> "outside", key |-> None, ip |-> None, read |-> None,
            permit |-> 0, tokens |-> 0]

\* build_semaphore
Built(size) == [size |-> size, free |-> size]

AdmissionInit ==
  /\ limits \in Limits
  /\ minute = 0
  /\ windows = [w \in WindowIds |-> None]
  /\ \E size \in limits.sizes :
       /\ sems = IF size = 0 THEN <<>> ELSE <<Built(size)>>
       /\ current = Len(sems)
  /\ adm = [r \in Requests |-> Outside]
  /\ passed = [w \in WindowIds |-> [m \in Minutes |-> 0]]
  /\ charged = [w \in WindowIds |-> [m \in Minutes |-> 0]]
  /\ late = 0
  /\ arrivals = 0

-----------------------------------------------------------------------------
(***************************************************************************)
(* Windows                                                                 *)
(***************************************************************************)
LimitOf(w) ==
  IF w \in Ips THEN limits.ip ELSE IF w = Global THEN limits.global ELSE limits.key

Unlimited(w) == LimitOf(w).rpm = 0 /\ LimitOf(w).tpm = 0

TableOf(w) == IF w \in Ips THEN Ips ELSE KeyTable

\* Mutant: a table that is too large is emptied.
PrunedToNothing(w, m) ==
  IF Cardinality({v \in TableOf(w) : windows[v] # None}) > MaxWindows
  THEN [v \in WindowIds |-> IF v \in TableOf(w) THEN None ELSE windows[v]]
  ELSE windows

\* prune_stale_windows: stale is what is not of the caller's minute.
Pruned(w, m) ==
  IF Cardinality({v \in TableOf(w) : windows[v] # None}) > MaxWindows
  THEN [v \in WindowIds |->
          IF v \in TableOf(w) /\ windows[v] # None /\ windows[v].minute # m
          THEN None ELSE windows[v]]
  ELSE windows

\* The window to act on: an absent one, or one of another minute, starts anew.
WindowAt(w, m) ==
  IF Pruned(w, m)[w] # None /\ windows[w].minute = m
  THEN windows[w]
  ELSE [minute |-> m, requests |-> 0, tokens |-> 0]

\* Mutant: the tokens of the window are not looked at.
ExceedsRequests(w, win) == LimitOf(w).rpm > 0 /\ win.requests >= LimitOf(w).rpm

Exceeds(w, win) ==
  \/ LimitOf(w).rpm > 0 /\ win.requests >= LimitOf(w).rpm
  \/ LimitOf(w).tpm > 0 /\ win.tokens >= LimitOf(w).tpm

\* The lock of a table was taken with minute m.
CountLate(m) == late' = IF m < minute THEN late + 1 ELSE late

-----------------------------------------------------------------------------
(***************************************************************************)
(* The way in                                                              *)
(***************************************************************************)
WindowOf(q, pc) ==
  CASE pc = "ip" -> q.ip
    [] pc \in {"key", "charge_key"} -> q.key
    [] pc \in {"global", "charge_global"} -> Global

\* A gate without a limit, and the key's gate without a key, return at once:
\* they touch nothing that is shared.
Open(q, gate) == WindowOf(q, gate) = None \/ Unlimited(WindowOf(q, gate))

GateAfter(q, gate) ==
  CASE gate = "start"  -> IF Open(q, "ip") THEN IF Open(q, "key")
                          THEN IF Open(q, "global") THEN "permit" ELSE "global"
                          ELSE "key" ELSE "ip"
    [] gate = "ip"     -> IF Open(q, "key")
                          THEN IF Open(q, "global") THEN "permit" ELSE "global"
                          ELSE "key"
    [] gate = "key"    -> IF Open(q, "global") THEN "permit" ELSE "global"
    [] gate = "global" -> "permit"

\* A request with the address ip (None at the realtime route, which has no
\* per-address limit) and an API key, or none in local mode.
Arrive(r, ip, key) ==
  /\ adm[r].pc = "outside" /\ arrivals < MaxArrivals
  /\ arrivals' = arrivals + 1
  /\ LET q == [Outside EXCEPT !.ip = ip, !.key = key]
     IN  adm' = [adm EXCEPT ![r] = [q EXCEPT !.pc = GateAfter(q, "start")]]
  /\ UNCHANGED <<limits, minute, windows, sems, current, passed, charged, late>>

\* Between the gates of the address and of the key: no model is named, or the
\* key may not use it.
Deny(r) ==
  /\ adm[r].pc \in {"key", "global", "permit"} /\ adm[r].read = None
  /\ adm' = [adm EXCEPT ![r] = Outside]
  /\ UNCHANGED <<limits, minute, windows, sems, current, passed, charged, late, arrivals>>

\* now_secs() comes before lock_windows().
ReadClock(r) ==
  /\ adm[r].pc \in Gates \cup Charges /\ adm[r].read = None
  /\ adm' = [adm EXCEPT ![r].read = minute]
  /\ UNCHANGED <<limits, minute, windows, sems, current, passed, charged, late, arrivals>>

\* admit_at, under the lock; a refused request leaves its trace in the table
\* but not in the count.
Admit(r) ==
  /\ adm[r].pc \in Gates /\ adm[r].read # None
  /\ LET m   == adm[r].read
         w   == WindowOf(adm[r], adm[r].pc)
         win == WindowAt(w, m)
     IN  /\ CountLate(m)
         /\ IF Exceeds(w, win)
            THEN /\ windows' = [Pruned(w, m) EXCEPT ![w] = win]
                 /\ adm' = [adm EXCEPT ![r] = Outside]
                 /\ UNCHANGED passed
            ELSE /\ windows' = [Pruned(w, m) EXCEPT ![w] =
                                  [win EXCEPT !.requests = @ + 1]]
                 /\ adm' = [adm EXCEPT ![r].pc = GateAfter(adm[r], adm[r].pc),
                                       ![r].read = None]
                 /\ passed' = [passed EXCEPT ![w][m] = @ + 1]
  /\ UNCHANGED <<limits, minute, sems, current, charged, arrivals>>

\* try_acquire_owned on the semaphore that is current: no queue, 429 instead.
Acquire(r) ==
  /\ adm[r].pc = "permit"
  /\ IF current = 0
     THEN /\ adm' = [adm EXCEPT ![r].pc = "running"]
          /\ UNCHANGED sems
     ELSE IF sems[current].free > 0
          THEN /\ sems' = [sems EXCEPT ![current].free = @ - 1]
               /\ adm' = [adm EXCEPT ![r].pc = "running", ![r].permit = current]
          ELSE /\ adm' = [adm EXCEPT ![r] = Outside]
               /\ UNCHANGED sems
  /\ UNCHANGED <<limits, minute, windows, current, passed, charged, late, arrivals>>

(***************************************************************************)
(* The way out                                                             *)
(***************************************************************************)
\* record: n tokens are added to the gateway's window and to the key's.
Finish(r, n) ==
  /\ adm[r].pc = "running"
  /\ adm' = [adm EXCEPT ![r].pc = IF n = 0 THEN "release" ELSE "charge_global",
                        ![r].tokens = n]
  /\ UNCHANGED <<limits, minute, windows, sems, current, passed, charged, late, arrivals>>

\* add_tokens_at, under the lock.
AddTokens(r) ==
  /\ adm[r].pc \in Charges /\ adm[r].read # None
  /\ LET m   == adm[r].read
         w   == WindowOf(adm[r], adm[r].pc)
         win == WindowAt(w, m)
         last == adm[r].pc = "charge_key" \/ adm[r].key = None
     IN  /\ CountLate(m)
         /\ windows' = [Pruned(w, m) EXCEPT ![w] =
                          [win EXCEPT !.tokens = @ + adm[r].tokens]]
         /\ charged' = [charged EXCEPT ![w][m] = @ + adm[r].tokens]
         /\ adm' = [adm EXCEPT ![r].pc = IF last THEN "release" ELSE "charge_key",
                               ![r].read = None]
  /\ UNCHANGED <<limits, minute, sems, current, passed, arrivals>>

\* Mutant: the permit goes to the semaphore that is current.
ReleaseToCurrent(r) ==
  /\ adm[r].pc = "release"
  /\ sems' = IF current = 0 \/ adm[r].permit = 0 THEN sems
             ELSE [sems EXCEPT ![current].free = @ + 1]
  /\ adm' = [adm EXCEPT ![r] = Outside]
  /\ UNCHANGED <<limits, minute, windows, current, passed, charged, late, arrivals>>

\* The permit is dropped, and returns to the semaphore it came from.
Release(r) ==
  /\ adm[r].pc = "release"
  /\ sems' = IF adm[r].permit = 0 THEN sems
             ELSE [sems EXCEPT ![adm[r].permit].free = @ + 1]
  /\ adm' = [adm EXCEPT ![r] = Outside]
  /\ UNCHANGED <<limits, minute, windows, current, passed, charged, late, arrivals>>

(***************************************************************************)
(* The environment                                                         *)
(***************************************************************************)
\* reload_global_limits, for the limit of concurrency.
ReloadLimits(size) ==
  /\ Len(sems) < MaxSems
  /\ IF size = 0
     THEN current # 0 /\ current' = 0 /\ UNCHANGED sems
     ELSE sems' = Append(sems, Built(size)) /\ current' = Len(sems) + 1
  /\ UNCHANGED <<limits, minute, windows, adm, passed, charged, late, arrivals>>

NextMinute ==
  /\ minute < MaxMinute
  /\ minute' = minute + 1
  /\ UNCHANGED <<limits, windows, sems, current, adm, passed, charged, late, arrivals>>

\* What a request does between its arrival and the handler, and after it.
Pass(r) == Deny(r) \/ ReadClock(r) \/ Admit(r) \/ Acquire(r) \/ AddTokens(r) \/ Release(r)

AdmissionNext ==
  \/ \E r \in Requests :
       \/ \E ip \in Ips \cup {None}, key \in ApiKeys \cup {None} : Arrive(r, ip, key)
       \/ Pass(r)
       \/ \E n \in limits.tokens : Finish(r, n)
  \/ \E size \in limits.sizes : ReloadLimits(size)
  \/ NextMinute

AdmissionSpec == AdmissionInit /\ [][AdmissionNext]_admissionVars

-----------------------------------------------------------------------------
Places == {"outside", "permit", "running", "release"} \cup Gates \cup Charges

RequestRecord ==
  [pc : Places, key : ApiKeys \cup {None}, ip : Ips \cup {None},
   read : Minutes \cup {None}, permit : Nat, tokens : Nat]

\* Types; a permit names a semaphore that was built.
AdmissionTypeOK ==
  /\ limits \in Limits
  /\ minute \in Minutes
  /\ windows \in [WindowIds -> Window \cup {None}]
  /\ sems \in Seq(Semaphore)
  /\ current \in 0..Len(sems)
  /\ adm \in [Requests -> RequestRecord]
  /\ \A r \in Requests : adm[r].permit \in 0..Len(sems)
  /\ passed \in [WindowIds -> [Minutes -> Nat]]
  /\ charged \in [WindowIds -> [Minutes -> Nat]]
  /\ late \in Nat /\ arrivals \in Nat

\* The requests that hold a permit of a semaphore.
Holders(s) == {r \in Requests : adm[r].permit = s}

\* state.rs: "old permits return to the old semaphore, new requests take the
\* new one".  Whatever changes of the limit come between, every semaphore has
\* out as many permits as requests hold of it: no limit is ever exceeded by
\* the requests admitted under it, and none loses a permit for good.
PermitsBalanced ==
  \A s \in DOMAIN sems : sems[s].free + Cardinality(Holders(s)) = sems[s].size

\* rate.rs: requests per minute.  A window lets no more requests of a minute
\* pass than its limit, and each lock that is taken in a later minute than its
\* holder read can give away at most one more window.
RequestsPerMinute ==
  \A w \in WindowIds : \A m \in Minutes :
    LimitOf(w).rpm > 0 => passed[w][m] <= LimitOf(w).rpm * (1 + late)

\* rate.rs: "a large request that crosses the limit is let through, the next
\* one is refused": no request of a minute passes once the tokens charged in
\* that minute have reached the limit, unless a late lock reset the window.
TokensStopRequests ==
  [][\A w \in WindowIds : \A m \in Minutes :
       (passed'[w][m] > passed[w][m] /\ LimitOf(w).tpm > 0 /\ late' = 0)
         => charged[w][m] < LimitOf(w).tpm]_admissionVars

\* No limit of the gateway is exceeded, by permits, requests or tokens, through
\* late locks and changes of the limits.
LimitsAreKept == []PermitsBalanced /\ []RequestsPerMinute /\ TokensStopRequests
=============================================================================

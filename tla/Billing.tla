------------------------------- MODULE Billing -------------------------------
(***************************************************************************)
(* Prepaid wallets: the balance check before a request, the charge after   *)
(* it, administrators' top-ups and adjustments, and the balance cache the  *)
(* check reads.                                                            *)
(*                                                                         *)
(* A slot is one request of a user and then the background task record()   *)
(* spawns for it: the log row, the charge, and the refresh of the cache.   *)
(* The user's next request need not wait for that task and is another      *)
(* slot's.  The usage counters of the API key, which record() also         *)
(* updates, are kept elsewhere and left out.                               *)
(*                                                                         *)
(* SQLite runs one writing transaction at a time, on a staged copy of the  *)
(* balance; readers see what is committed.  Amounts are whole units.       *)
(***************************************************************************)
EXTENDS Integers, Sequences

CONSTANTS
  Users, Slots, Admins, None,
  UserOf,       (* the user whose requests a slot carries                   *)
  Costs,        (* what requests cost; 0 for a model without a price        *)
  Deltas,       (* amounts administrators add or take                       *)
  MaxIds,       (* bound on charges and adjustments, for model checking     *)
  MaxCrashes    (* bound on crashes, for model checking                     *)

Writers == Slots \cup Admins

ASSUME BillingAssumption ==
  /\ UserOf \in [Slots -> Users]
  /\ Costs \subseteq Nat /\ Deltas \subseteq Int
  /\ MaxIds \in Nat /\ MaxCrashes \in Nat
  /\ Slots \cap Admins = {}
  /\ None \notin Int /\ None \notin Writers /\ None \notin Users

VARIABLES
  wallet,    (* wallets.balance, committed                                 *)
  ledger,    (* wallet_ledger in the order of its ids, committed           *)
  tx,        (* the open transaction: its writer and the staged balance    *)
  log,       (* the cost frozen in the request log, per request id         *)
  unlogged,  (* history: requests whose log row could not be written       *)
  cache,     (* balance_cache of the authenticator and the gateway         *)
  op,        (* what each slot and each administrator is doing             *)
  ids,       (* request and adjustment ids given out                       *)
  crashes

vars == <<wallet, ledger, tx, log, unlogged, cache, op, ids, crashes>>

Idle == [pc |-> "idle", user |-> None, amount |-> 0, id |-> 0, read |-> 0]
NoTx == [by |-> None, balance |-> 0]

Init ==
  /\ wallet = [u \in Users |-> 0]
  /\ ledger = <<>>
  /\ tx = NoTx
  /\ log = [i \in {} |-> 0]
  /\ unlogged = {}
  /\ cache = [u \in Users |-> None]
  /\ op = [w \in Writers |-> Idle]
  /\ ids = 0
  /\ crashes = 0

Goto(w, pc) == op' = [op EXCEPT ![w].pc = pc]

-----------------------------------------------------------------------------
(***************************************************************************)
(* Before a request: authenticate                                          *)
(***************************************************************************)
Decision(balance) == IF balance > 0 THEN "serving" ELSE "refused"

\* A hit decides at once; a miss reads the wallet.
CheckBalance(r) ==
  /\ op[r].pc = "idle"
  /\ LET u == UserOf[r]
     IN  op' = [op EXCEPT ![r] = [Idle EXCEPT !.user = u,
                   !.pc = IF cache[u] = None THEN "reading" ELSE Decision(cache[u])]]
  /\ UNCHANGED <<wallet, ledger, tx, log, unlogged, cache, ids, crashes>>

\* The SELECT of a check that missed, or of the refresh after a charge.
ReadBalance(w) ==
  /\ op[w].pc \in {"reading", "rereading"}
  /\ op' = [op EXCEPT ![w].read = wallet[op[w].user],
                      ![w].pc = IF @ = "reading" THEN "filling" ELSE "priming"]
  /\ UNCHANGED <<wallet, ledger, tx, log, unlogged, cache, ids, crashes>>

FillCache(r) ==
  /\ op[r].pc = "filling"
  /\ cache' = [cache EXCEPT ![op[r].user] = op[r].read]
  /\ Goto(r, Decision(op[r].read))
  /\ UNCHANGED <<wallet, ledger, tx, log, unlogged, ids, crashes>>

\* 403 insufficient_balance
Refuse(r) ==
  /\ op[r].pc = "refused"
  /\ op' = [op EXCEPT ![r] = Idle]
  /\ UNCHANGED <<wallet, ledger, tx, log, unlogged, cache, ids, crashes>>

-----------------------------------------------------------------------------
(***************************************************************************)
(* After a request: record                                                 *)
(***************************************************************************)
\* Mutant: the wallet is charged before the log row is written.
ServeChargingFirst(r, cost) ==
  /\ op[r].pc = "serving" /\ ids < MaxIds
  /\ op' = [op EXCEPT ![r].pc = IF cost > 0 THEN "apply" ELSE "logging",
                      ![r].amount = -cost, ![r].id = ids + 1]
  /\ ids' = ids + 1
  /\ UNCHANGED <<wallet, ledger, tx, log, unlogged, cache, crashes>>

\* The cost is frozen now, at today's price.
Serve(r, cost) ==
  /\ op[r].pc = "serving" /\ ids < MaxIds
  /\ op' = [op EXCEPT ![r].pc = "logging", ![r].amount = -cost, ![r].id = ids + 1]
  /\ ids' = ids + 1
  /\ UNCHANGED <<wallet, ledger, tx, log, unlogged, cache, crashes>>

\* A request that fails, or whose client goes away before the answer, costs
\* nothing (what it leaves in the log has no cost).
ServeFree(r) ==
  /\ op[r].pc = "serving"
  /\ op' = [op EXCEPT ![r] = Idle]
  /\ UNCHANGED <<wallet, ledger, tx, log, unlogged, cache, ids, crashes>>

\* LogRepo::append; whether it works or not, the charge follows.
Log(r, works) ==
  /\ op[r].pc = "logging"
  /\ IF works
     THEN /\ log' = [i \in DOMAIN log \cup {op[r].id} |->
                       IF i = op[r].id THEN -op[r].amount ELSE log[i]]
          /\ UNCHANGED unlogged
     ELSE unlogged' = unlogged \cup {op[r].id} /\ UNCHANGED log
  /\ op' = [op EXCEPT ![r] = IF @.amount = 0 THEN Idle ELSE [@ EXCEPT !.pc = "apply"]]
  /\ UNCHANGED <<wallet, ledger, tx, cache, ids, crashes>>

\* Only a successful re-read is written to the cache.
Prime(r) ==
  /\ op[r].pc = "priming"
  /\ cache' = [cache EXCEPT ![op[r].user] = op[r].read]
  /\ op' = [op EXCEPT ![r] = Idle]
  /\ UNCHANGED <<wallet, ledger, tx, log, unlogged, ids, crashes>>

-----------------------------------------------------------------------------
(***************************************************************************)
(* Administrators: top-up, adjustment, refund, initial balance             *)
(***************************************************************************)
Adjust(a, u, delta) ==
  /\ op[a].pc = "idle" /\ delta # 0 /\ ids < MaxIds
  /\ op' = [op EXCEPT ![a] = [Idle EXCEPT !.pc = "apply", !.user = u,
                                          !.amount = delta, !.id = ids + 1]]
  /\ ids' = ids + 1
  /\ UNCHANGED <<wallet, ledger, tx, log, unlogged, cache, crashes>>

Invalidate(a) ==
  /\ op[a].pc = "invalidating"
  /\ cache' = [cache EXCEPT ![op[a].user] = None]
  /\ op' = [op EXCEPT ![a] = Idle]
  /\ UNCHANGED <<wallet, ledger, tx, log, unlogged, ids, crashes>>

-----------------------------------------------------------------------------
(***************************************************************************)
(* WalletRepo::apply                                                       *)
(***************************************************************************)
\* Mutant: the balance is updated outside the transaction.
UpdateBalanceAtOnce(w) ==
  /\ op[w].pc = "apply" /\ tx = NoTx
  /\ tx' = [by |-> w, balance |-> wallet[op[w].user] + op[w].amount]
  /\ wallet' = [wallet EXCEPT ![op[w].user] = @ + op[w].amount]
  /\ Goto(w, "tx")
  /\ UNCHANGED <<ledger, log, unlogged, cache, ids, crashes>>

UpdateBalance(w) ==
  /\ op[w].pc = "apply" /\ tx = NoTx
  /\ tx' = [by |-> w, balance |-> wallet[op[w].user] + op[w].amount]
  /\ Goto(w, "tx")
  /\ UNCHANGED <<wallet, ledger, log, unlogged, cache, ids, crashes>>

Kind(w) == IF w \in Slots THEN "charge" ELSE "admin"

\* What follows a commit: a task refreshes the cache, an administrator's
\* handler empties it.
AfterApply(w) == IF w \in Slots THEN "rereading" ELSE "invalidating"

\* The ledger row, whose (user, kind, ref_id) is unique, and COMMIT.
Commit(w) ==
  /\ tx.by = w
  /\ LET u == op[w].user
         entry == [user |-> u, kind |-> Kind(w), ref |-> op[w].id,
                   delta |-> op[w].amount, after |-> tx.balance]
     IN  /\ wallet' = [wallet EXCEPT ![u] = tx.balance]
         /\ ledger' = Append(ledger, entry)
  /\ tx' = NoTx
  /\ Goto(w, AfterApply(w))
  /\ UNCHANGED <<log, unlogged, cache, ids, crashes>>

\* Mutant: an error leaves the transaction open.
AbandonOpen(w) ==
  /\ op[w].pc \in {"reading", "apply", "tx", "rereading", "invalidating"}
  /\ op' = [op EXCEPT ![w] = Idle]
  /\ UNCHANGED <<wallet, ledger, tx, log, unlogged, cache, ids, crashes>>

\* A statement fails, and an open transaction is rolled back: the task counts
\* the failure, an administrator or a request gets an error, a failed re-read
\* primes nothing.  Or the connection closes and the server drops the handler,
\* between COMMIT and what follows it at the worst.
Abandon(w) ==
  /\ op[w].pc \in {"reading", "apply", "tx", "rereading", "invalidating"}
  /\ tx' = IF tx.by = w THEN NoTx ELSE tx
  /\ op' = [op EXCEPT ![w] = Idle]
  /\ UNCHANGED <<wallet, ledger, log, unlogged, cache, ids, crashes>>

-----------------------------------------------------------------------------
\* Mutant: an entry never expires.
ExpireNever(u) == FALSE /\ UNCHANGED vars

\* TtlCache: 60 seconds after it was written an entry is no longer there.
Expire(u) ==
  /\ cache[u] # None
  /\ cache' = [cache EXCEPT ![u] = None]
  /\ UNCHANGED <<wallet, ledger, tx, log, unlogged, op, ids, crashes>>

\* What was committed remains.
Crash ==
  /\ crashes < MaxCrashes
  /\ crashes' = crashes + 1
  /\ tx' = NoTx
  /\ cache' = [u \in Users |-> None]
  /\ op' = [w \in Writers |-> Idle]
  /\ UNCHANGED <<wallet, ledger, log, unlogged, ids>>

Request(r) ==
  \/ ReadBalance(r) \/ FillCache(r) \/ Refuse(r)
  \/ ServeFree(r) \/ \E cost \in Costs : Serve(r, cost)
  \/ \E works \in BOOLEAN : Log(r, works)
  \/ Prime(r)

Apply(w) == UpdateBalance(w) \/ Commit(w) \/ Abandon(w)

Next ==
  \/ \E r \in Slots : CheckBalance(r) \/ Request(r) \/ Apply(r)
  \/ \E a \in Admins :
       (\E u \in Users, delta \in Deltas : Adjust(a, u, delta)) \/ Invalidate(a) \/ Apply(a)
  \/ \E u \in Users : Expire(u)
  \/ Crash

Spec == Init /\ [][Next]_vars

\* Requests and tasks run to their end (upstream calls have timeouts), and
\* time passes.
FairSpec ==
  /\ Spec
  /\ \A r \in Slots : WF_vars(Request(r)) /\ WF_vars(Apply(r))
  /\ \A a \in Admins : WF_vars(Invalidate(a)) /\ WF_vars(Apply(a))
  /\ \A u \in Users : WF_vars(Expire(u))

-----------------------------------------------------------------------------
Pcs == {"idle", "reading", "filling", "refused", "serving", "logging", "apply",
        "tx", "rereading", "priming", "invalidating"}

Entry == [user : Users, kind : {"charge", "admin"}, ref : 1..MaxIds,
          delta : Int, after : Int]

Ops == [pc : Pcs, user : Users \cup {None}, amount : Int, id : 0..MaxIds, read : Int]

\* Types; a transaction is open exactly while its writer is inside apply.
TypeOK ==
  /\ wallet \in [Users -> Int]
  /\ ledger \in Seq(Entry)
  /\ tx \in [by : Writers \cup {None}, balance : Int]
  /\ \A w \in Writers : (tx.by = w) <=> (op[w].pc = "tx")
  /\ DOMAIN log \subseteq 1..MaxIds /\ unlogged \subseteq 1..MaxIds
  /\ cache \in [Users -> Int \cup {None}]
  /\ op \in [Writers -> Ops]
  /\ ids \in 0..MaxIds /\ crashes \in 0..MaxCrashes

\* The first n entries of the ledger leave u with this balance.
BalanceIs(u, n, balance) ==
  \/ balance = 0 /\ \A j \in 1..n : ledger[j].user # u
  \/ \E i \in 1..n :
       /\ ledger[i].user = u /\ ledger[i].after = balance
       /\ \A j \in (i + 1)..n : ledger[j].user # u

\* WalletRepo::apply is one transaction: whatever fails and whoever else
\* writes, the ledger explains the wallet entry by entry.
LedgerExplainsWallet ==
  /\ \A i \in 1..Len(ledger) :
       BalanceIs(ledger[i].user, i - 1, ledger[i].after - ledger[i].delta)
  /\ \A u \in Users : BalanceIs(u, Len(ledger), wallet[u])

\* The log row comes before the charge: no crash and no failure leaves a
\* charge without the logged request, at the same cost, unless writing that
\* row had itself failed.
ChargeHasLogRow ==
  \A i \in 1..Len(ledger) :
    ledger[i].kind = "charge" =>
      \/ ledger[i].ref \in unlogged
      \/ ledger[i].ref \in DOMAIN log /\ log[ledger[i].ref] = -ledger[i].delta

\* "the balance is watched over by the check before the next request": a user
\* whose balance stays spent is refused in the end, whatever reads and cache
\* writes overtake each other.
SpentUserIsRefused ==
  \A u \in Users :
    <>[](wallet[u] <= 0) => <>[](\A r \in Slots : UserOf[r] = u => op[r].pc # "serving")

\* A user whose balance stays positive is served in the end.
PaidUserIsServed ==
  \A u \in Users :
    <>[](wallet[u] > 0) => <>[](\A r \in Slots : UserOf[r] = u => op[r].pc # "refused")

\* The balance decides who is served, in the end.
BalanceDecides == SpentUserIsRefused /\ PaidUserIsServed
=============================================================================

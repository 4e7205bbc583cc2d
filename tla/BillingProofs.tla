--------------------------- MODULE BillingProofs ---------------------------
(***************************************************************************)
(* Theorems of Billing, for every set of users, requests and               *)
(* administrators, every cost and every adjustment.                        *)
(***************************************************************************)
EXTENDS Billing, TLAPS

\* A writer that has something to write, and one that has an id for it.
Writing(w)    == op[w].pc \in {"apply", "tx"}
Numbered(w)   == Writing(w) \/ op[w].pc = "logging"

\* A writer that is not idle knows its user; one that has an id got it from
\* the counter, alone.
OpsOK ==
  /\ \A w \in Writers : op[w].pc # "idle" => op[w].user \in Users
  /\ \A w \in Writers : Numbered(w) => op[w].id \in 1..ids
  /\ \A v, w \in Writers : Numbered(v) /\ Numbered(w) /\ v # w => op[v].id # op[w].id
  /\ \A a \in Admins : op[a].pc # "logging"

\* The staged balance is the committed one and the amount of its writer:
\* nothing else commits while a transaction is open.
StagedOK ==
  tx.by # None => tx.balance = wallet[op[tx.by].user] + op[tx.by].amount

\* Ids in the ledger came from the counter, and no one still has them to write.
RefsOK ==
  \A i \in 1..Len(ledger) :
    /\ ledger[i].ref \in 1..ids
    /\ \A w \in Writers : Numbered(w) => op[w].id # ledger[i].ref

\* The log row of a charge about to be made is there.
LoggedFirst ==
  \A r \in Slots :
    Writing(r) => \/ op[r].id \in unlogged
                  \/ op[r].id \in DOMAIN log /\ log[op[r].id] = -op[r].amount

IInv ==
  /\ TypeOK /\ OpsOK /\ StagedOK /\ RefsOK
  /\ LedgerExplainsWallet /\ LoggedFirst /\ ChargeHasLogRow

-----------------------------------------------------------------------------
LEMMA InitInv == Init => IInv
<1> SUFFICES ASSUME Init PROVE IInv
  OBVIOUS
<1>1. TypeOK
  BY BillingAssumption DEF Init, TypeOK, Writers, Idle, NoTx, Ops, Pcs
<1>2. OpsOK /\ StagedOK /\ RefsOK /\ LoggedFirst
  BY BillingAssumption DEF Init, OpsOK, StagedOK, RefsOK, LoggedFirst, Numbered, Writing, Writers, Idle, NoTx
<1>3. LedgerExplainsWallet /\ ChargeHasLogRow
  BY DEF Init, LedgerExplainsWallet, BalanceIs, ChargeHasLogRow
<1> QED BY <1>1, <1>2, <1>3 DEF IInv

\* What a writer does outside its transaction, the cache and a crash.
Quiet ==
  \/ \E r \in Slots : CheckBalance(r) \/ FillCache(r) \/ Refuse(r) \/ ServeFree(r) \/ Prime(r)
  \/ \E w \in Writers : ReadBalance(w)
  \/ \E a \in Admins : Invalidate(a)
  \/ \E u \in Users : Expire(u)

LEMMA NextCases ==
  ASSUME Next
  PROVE  \/ Quiet
         \/ \E r \in Slots, cost \in Costs : Serve(r, cost)
         \/ \E r \in Slots, works \in BOOLEAN : Log(r, works)
         \/ \E a \in Admins, u \in Users, delta \in Deltas : Adjust(a, u, delta)
         \/ \E w \in Writers : UpdateBalance(w)
         \/ \E w \in Writers : Commit(w)
         \/ \E w \in Writers : Abandon(w)
         \/ Crash
BY DEF Next, Request, Apply, Quiet, Writers

(***************************************************************************)
(* What each action does to the operation of its writer                    *)
(***************************************************************************)
Frame(w) == op' \in [Writers -> Ops] /\ \A v \in Writers \ {w} : op'[v] = op[v]

Keeps(w) == /\ op'[w].user = op[w].user /\ op'[w].amount = op[w].amount
            /\ op'[w].id = op[w].id

LEMMA PcsOK == {"idle", "reading", "filling", "refused", "serving", "logging", "apply",
                "tx", "rereading", "priming", "invalidating"} = Pcs
BY DEF Pcs

LEMMA IdleOK == Idle \in Ops /\ Idle.pc = "idle"
BY BillingAssumption DEF Idle, Ops, Pcs

LEMMA OneWriter ==
  ASSUME op \in [Writers -> Ops], NEW w \in Writers, NEW o \in Ops, op' = [op EXCEPT ![w] = o]
  PROVE  Frame(w) /\ op'[w] = o
BY DEF Frame

\* Updates of one record.
LEMMA WithPc ==
  ASSUME NEW o \in Ops, NEW x \in Pcs
  PROVE  LET p == [o EXCEPT !.pc = x]
         IN  p \in Ops /\ p.pc = x /\ p.user = o.user /\ p.amount = o.amount /\ p.id = o.id
BY DEF Ops

LEMMA WithRead ==
  ASSUME NEW o \in Ops, NEW x \in Pcs, NEW n \in Int
  PROVE  LET p == [o EXCEPT !.read = n, !.pc = x]
         IN  p \in Ops /\ p.pc = x /\ p.user = o.user /\ p.amount = o.amount /\ p.id = o.id
BY DEF Ops

LEMMA ToIdle ==
  ASSUME op \in [Writers -> Ops], NEW w \in Writers, op' = [op EXCEPT ![w] = Idle]
  PROVE  Frame(w) /\ op'[w].pc = "idle"
BY OneWriter, IdleOK

LEMMA ToPc ==
  ASSUME op \in [Writers -> Ops], NEW w \in Writers, NEW x \in Pcs,
         op' = [op EXCEPT ![w].pc = x]
  PROVE  Frame(w) /\ Keeps(w) /\ op'[w].pc = x
<1> DEFINE p == [op[w] EXCEPT !.pc = x]
<1>1. op[w] \in Ops
  OBVIOUS
<1>2. op' = [op EXCEPT ![w] = p]
  OBVIOUS
<1>3. p \in Ops /\ p.pc = x /\ p.user = op[w].user /\ p.amount = op[w].amount /\ p.id = op[w].id
  BY <1>1, WithPc
<1> HIDE DEF p
<1> QED BY <1>2, <1>3, OneWriter DEF Keeps

LEMMA CheckBalanceOp ==
  ASSUME TypeOK, NEW r \in Slots, CheckBalance(r)
  PROVE  Frame(r) /\ op'[r].pc \in {"reading", "serving", "refused"} /\ op'[r].user \in Users
<1> DEFINE u == UserOf[r]
<1> DEFINE x == IF cache[UserOf[r]] = None THEN "reading" ELSE Decision(cache[UserOf[r]])
<1> DEFINE p == [Idle EXCEPT !.user = u, !.pc = x]
<1>1. x \in {"reading", "serving", "refused"} /\ x \in Pcs
  BY DEF Decision, Pcs
<1>2. u \in Users /\ r \in Writers /\ op \in [Writers -> Ops]
  BY BillingAssumption DEF TypeOK, Writers
<1>3. op' = [op EXCEPT ![r] = p]
  BY DEF CheckBalance
<1> HIDE DEF x, u
<1>4. p \in Ops /\ p.pc = x /\ p.user = u
  BY <1>1, <1>2, IdleOK DEF Ops
<1> HIDE DEF p
<1> QED BY <1>1, <1>2, <1>3, <1>4, OneWriter

LEMMA ReadBalanceOp ==
  ASSUME TypeOK, OpsOK, NEW w \in Writers, ReadBalance(w)
  PROVE  Frame(w) /\ Keeps(w) /\ op'[w].pc \in {"filling", "priming"}
<1> DEFINE x == IF op[w].pc = "reading" THEN "filling" ELSE "priming"
<1> DEFINE n == wallet[op[w].user]
<1> DEFINE p == [op[w] EXCEPT !.read = n, !.pc = x]
<1>1. op[w].user \in Users /\ n \in Int
  BY DEF TypeOK, OpsOK, ReadBalance
<1>2. x \in {"filling", "priming"} /\ x \in Pcs /\ op \in [Writers -> Ops]
  BY DEF Pcs, TypeOK
<1>3. op' = [op EXCEPT ![w] = p]
  BY <1>2 DEF ReadBalance
<1> HIDE DEF x, n
<1>4. p \in Ops /\ p.pc = x /\ p.user = op[w].user /\ p.amount = op[w].amount /\ p.id = op[w].id
  BY <1>1, <1>2, WithRead
<1> HIDE DEF p
<1> QED BY <1>2, <1>3, <1>4, OneWriter DEF Keeps

LEMMA ServeOp ==
  ASSUME TypeOK, NEW r \in Slots, NEW cost \in Costs, Serve(r, cost)
  PROVE  /\ Frame(r) /\ op'[r].pc = "logging" /\ op'[r].user = op[r].user
         /\ op'[r].id = ids + 1
<1> DEFINE n == -cost
<1> DEFINE x == "logging"
<1> DEFINE i == ids + 1
<1> DEFINE p == [op[r] EXCEPT !.pc = x, !.amount = n, !.id = i]
<1>1. n \in Int /\ i \in 0..MaxIds /\ i = ids + 1 /\ x = "logging" /\ x \in Pcs
      /\ r \in Writers /\ op \in [Writers -> Ops] /\ op[r] \in Ops
  BY BillingAssumption, PcsOK DEF TypeOK, Serve, Writers
<1>2. op' = [op EXCEPT ![r] = p]
  BY <1>1 DEF Serve
<1> HIDE DEF n, i, x
<1>3. p \in Ops /\ p.pc = x /\ p.user = op[r].user /\ p.id = i
  BY <1>1 DEF Ops
<1> HIDE DEF p
<1> QED BY <1>1, <1>2, <1>3, OneWriter

LEMMA LogOp ==
  ASSUME TypeOK, NEW r \in Slots, NEW works \in BOOLEAN, Log(r, works)
  PROVE  Frame(r) /\ (op'[r].pc = "idle" \/ (Keeps(r) /\ op'[r].pc = "apply"))
<1> DEFINE p == [op[r] EXCEPT !.pc = "apply"]
<1>1. r \in Writers /\ op \in [Writers -> Ops] /\ op[r] \in Ops
  BY DEF TypeOK, Writers
<1>2. \/ op' = [op EXCEPT ![r] = Idle]
      \/ op' = [op EXCEPT ![r] = p]
  BY <1>1 DEF Log
<1>3. p \in Ops /\ p.pc = "apply" /\ p.user = op[r].user /\ p.amount = op[r].amount /\ p.id = op[r].id
  BY <1>1, PcsOK, WithPc
<1> HIDE DEF p
<1> QED BY <1>1, <1>2, <1>3, ToIdle, OneWriter DEF Keeps

LEMMA AdjustOp ==
  ASSUME TypeOK, NEW a \in Admins, NEW u \in Users, NEW delta \in Deltas, Adjust(a, u, delta)
  PROVE  /\ Frame(a) /\ op'[a].pc = "apply" /\ op'[a].user = u
         /\ op'[a].id = ids + 1
<1> DEFINE x == "apply"
<1> DEFINE i == ids + 1
<1> DEFINE p == [Idle EXCEPT !.pc = x, !.user = u, !.amount = delta, !.id = i]
<1>1. delta \in Int /\ i \in 0..MaxIds /\ i = ids + 1 /\ x = "apply" /\ x \in Pcs
      /\ a \in Writers /\ op \in [Writers -> Ops]
  BY BillingAssumption, PcsOK DEF TypeOK, Adjust, Writers
<1>2. op' = [op EXCEPT ![a] = p]
  BY DEF Adjust
<1> HIDE DEF i, x
<1>3. p \in Ops /\ p.pc = x /\ p.user = u /\ p.id = i
  BY <1>1, IdleOK DEF Ops
<1> HIDE DEF p
<1> QED BY <1>1, <1>2, <1>3, OneWriter

\* The operations that only move on, and those that end.
LEMMA MovingOp ==
  ASSUME TypeOK, NEW w \in Writers, NEW x \in Pcs, Goto(w, x)
  PROVE  Frame(w) /\ Keeps(w) /\ op'[w].pc = x
BY ToPc DEF Goto, TypeOK

LEMMA EndingOp ==
  ASSUME TypeOK, NEW w \in Writers,
         Refuse(w) \/ ServeFree(w) \/ Prime(w) \/ Invalidate(w) \/ Abandon(w)
  PROVE  Frame(w) /\ op'[w].pc = "idle"
BY ToIdle DEF Refuse, ServeFree, Prime, Invalidate, Abandon, TypeOK

LEMMA FillCacheOp ==
  ASSUME TypeOK, NEW r \in Slots, FillCache(r)
  PROVE  Frame(r) /\ Keeps(r) /\ op'[r].pc \in {"serving", "refused"}
<1> DEFINE x == Decision(op[r].read)
<1>1. x \in {"serving", "refused"} /\ x \in Pcs /\ r \in Writers
  BY DEF Decision, Pcs, Writers
<1>2. Goto(r, x)
  BY DEF FillCache
<1> HIDE DEF x
<1> QED BY <1>1, <1>2, MovingOp

LEMMA CommitOp ==
  ASSUME TypeOK, NEW w \in Writers, Commit(w)
  PROVE  Frame(w) /\ Keeps(w) /\ op'[w].pc \in {"rereading", "invalidating"}
<1> DEFINE x == AfterApply(w)
<1>1. x \in {"rereading", "invalidating"} /\ x \in Pcs
  BY DEF AfterApply, Pcs
<1>2. Goto(w, x)
  BY DEF Commit
<1> HIDE DEF x
<1> QED BY <1>1, <1>2, MovingOp

LEMMA UpdateBalanceOp ==
  ASSUME TypeOK, NEW w \in Writers, UpdateBalance(w)
  PROVE  Frame(w) /\ Keeps(w) /\ op'[w].pc = "tx"
BY MovingOp, PcsOK DEF UpdateBalance

LEMMA CrashOp ==
  ASSUME Crash
  PROVE  op' \in [Writers -> Ops] /\ \A w \in Writers : op'[w].pc = "idle"
BY IdleOK DEF Crash

\* The transaction belongs to its writer as long as no step touches either.
LEMMA TxStep ==
  ASSUME TypeOK, NEW w \in Writers, Frame(w), UNCHANGED tx,
         op[w].pc # "tx", op'[w].pc # "tx"
  PROVE  \A v \in Writers : (tx'.by = v) <=> (op'[v].pc = "tx")
BY DEF TypeOK, Frame

(***************************************************************************)
(* Types                                                                   *)
(***************************************************************************)
LEMMA TypeStep == TypeOK /\ OpsOK /\ [Next]_vars => TypeOK'
<1> SUFFICES ASSUME TypeOK, OpsOK, [Next]_vars PROVE TypeOK'
  OBVIOUS
<1>w. Slots \subseteq Writers /\ Admins \subseteq Writers
  BY DEF Writers
<1>1. CASE Quiet
  <2>1. ASSUME NEW r \in Slots, CheckBalance(r) PROVE TypeOK'
    BY <2>1, <1>w, CheckBalanceOp, TxStep DEF TypeOK, Frame, CheckBalance
  <2>2. ASSUME NEW w \in Writers, ReadBalance(w) PROVE TypeOK'
    BY <2>2, ReadBalanceOp, TxStep DEF TypeOK, Frame, ReadBalance
  <2>3. ASSUME NEW r \in Slots, FillCache(r) PROVE TypeOK'
    <3>1. op[r] \in Ops /\ op[r].read \in Int
      BY <1>w DEF TypeOK, Ops
    <3> QED BY <3>1, <2>3, <1>w, FillCacheOp, TxStep DEF TypeOK, Frame, FillCache
  <2>4. ASSUME NEW r \in Slots, Refuse(r) \/ ServeFree(r) PROVE TypeOK'
    <3>1. CASE Refuse(r)
      BY <3>1, <1>w, EndingOp, TxStep DEF TypeOK, Frame, Refuse
    <3>2. CASE ServeFree(r)
      BY <3>2, <1>w, EndingOp, TxStep DEF TypeOK, Frame, ServeFree
    <3> QED BY <2>4, <3>1, <3>2
  <2>5. ASSUME NEW r \in Slots, Prime(r) PROVE TypeOK'
    <3>1. op[r] \in Ops /\ op[r].read \in Int
      BY <1>w DEF TypeOK, Ops
    <3> QED BY <3>1, <2>5, <1>w, EndingOp, TxStep DEF TypeOK, Frame, Prime
  <2>6. ASSUME NEW a \in Admins, Invalidate(a) PROVE TypeOK'
    BY <2>6, <1>w, EndingOp, TxStep DEF TypeOK, Frame, Invalidate
  <2>7. ASSUME NEW u \in Users, Expire(u) PROVE TypeOK'
    BY <2>7 DEF TypeOK, Expire
  <2> QED BY <1>1, <2>1, <2>2, <2>3, <2>4, <2>5, <2>6, <2>7 DEF Quiet
<1>2. ASSUME NEW r \in Slots, NEW cost \in Costs, Serve(r, cost) PROVE TypeOK'
  <2>1. ids' \in 0..MaxIds /\ UNCHANGED <<wallet, ledger, tx, log, unlogged, cache, crashes>>
    BY <1>2, BillingAssumption DEF TypeOK, Serve
  <2>2. Frame(r) /\ op[r].pc # "tx" /\ op'[r].pc # "tx" /\ r \in Writers
    BY <1>2, <1>w, ServeOp DEF Serve
  <2>3. \A v \in Writers : (tx'.by = v) <=> (op'[v].pc = "tx")
    BY <2>1, <2>2, TxStep
  <2> QED BY <2>1, <2>2, <2>3 DEF TypeOK, Frame
<1>3. ASSUME NEW r \in Slots, NEW works \in BOOLEAN, Log(r, works) PROVE TypeOK'
  <2>1. op[r].id \in 1..MaxIds
    BY <1>3, <1>w, BillingAssumption DEF TypeOK, OpsOK, Numbered, Log
  <2>2. \A v \in Writers : (tx'.by = v) <=> (op'[v].pc = "tx")
    BY <1>3, <1>w, LogOp, TxStep DEF Log
  <2>3. DOMAIN log' \subseteq 1..MaxIds /\ unlogged' \subseteq 1..MaxIds
    BY <1>3, <2>1 DEF TypeOK, Log
  <2>4. UNCHANGED <<wallet, ledger, tx, cache, ids, crashes>>
    BY <1>3 DEF Log
  <2> QED BY <1>3, <2>2, <2>3, <2>4, LogOp DEF TypeOK, Frame
<1>4. ASSUME NEW a \in Admins, NEW u \in Users, NEW delta \in Deltas, Adjust(a, u, delta)
      PROVE  TypeOK'
  <2>1. ids' \in 0..MaxIds /\ UNCHANGED <<wallet, ledger, tx, log, unlogged, cache, crashes>>
    BY <1>4, BillingAssumption DEF TypeOK, Adjust
  <2>2. Frame(a) /\ op[a].pc # "tx" /\ op'[a].pc # "tx" /\ a \in Writers
    BY <1>4, <1>w, AdjustOp DEF Adjust
  <2>3. \A v \in Writers : (tx'.by = v) <=> (op'[v].pc = "tx")
    BY <2>1, <2>2, TxStep
  <2> QED BY <2>1, <2>2, <2>3 DEF TypeOK, Frame
<1>5. ASSUME NEW w \in Writers, UpdateBalance(w) PROVE TypeOK'
  <2>1. op[w] \in Ops /\ op[w].amount \in Int /\ wallet[op[w].user] \in Int
    BY <1>5 DEF TypeOK, Ops, OpsOK, UpdateBalance
  <2>2. tx' \in [by : Writers \cup {None}, balance : Int]
    BY <1>5, <2>1 DEF UpdateBalance
  <2>3. \A v \in Writers : (tx'.by = v) <=> (op'[v].pc = "tx")
    BY <1>5, UpdateBalanceOp, BillingAssumption DEF UpdateBalance, TypeOK, Frame, NoTx
  <2> QED BY <1>5, <2>2, <2>3, UpdateBalanceOp DEF TypeOK, Frame, UpdateBalance
<1>6. ASSUME NEW w \in Writers, Commit(w) PROVE TypeOK'
  <2> DEFINE entry == [user |-> op[w].user, kind |-> Kind(w), ref |-> op[w].id,
                       delta |-> op[w].amount, after |-> tx.balance]
  <2>1. op[w] \in Ops /\ op[w].pc = "tx" /\ op[w].user \in Users /\ tx.balance \in Int
    BY <1>6 DEF TypeOK, OpsOK, Commit
  <2>2. op[w].id \in 1..MaxIds /\ op[w].amount \in Int
    BY <2>1, BillingAssumption DEF TypeOK, OpsOK, Numbered, Writing, Ops
  <2>3. entry \in Entry
    BY <2>1, <2>2 DEF Entry, Kind
  <2>4. wallet' = [wallet EXCEPT ![op[w].user] = tx.balance] /\ ledger' = Append(ledger, entry)
    BY <1>6 DEF Commit
  <2> HIDE DEF entry
  <2>5. wallet' \in [Users -> Int] /\ ledger' \in Seq(Entry)
    BY <2>1, <2>3, <2>4 DEF TypeOK
  <2>6. tx' = NoTx /\ tx' \in [by : Writers \cup {None}, balance : Int]
    BY <1>6 DEF Commit, NoTx
  <2>7. \A v \in Writers : (tx'.by = v) <=> (op'[v].pc = "tx")
    <3>1. Frame(w) /\ op'[w].pc # "tx" /\ tx.by = w
      BY <1>6, CommitOp DEF Commit
    <3>2. \A v \in Writers \ {w} : op'[v].pc # "tx"
      BY <3>1 DEF Frame, TypeOK
    <3> QED BY <2>6, <3>1, <3>2, BillingAssumption DEF NoTx
  <2> QED BY <1>6, <2>5, <2>6, <2>7, CommitOp DEF TypeOK, Frame, Commit
<1>7. ASSUME NEW w \in Writers, Abandon(w) PROVE TypeOK'
  <2>1. tx' \in [by : Writers \cup {None}, balance : Int]
    BY <1>7 DEF Abandon, NoTx, TypeOK
  <2>2. \A v \in Writers : (tx'.by = v) <=> (op'[v].pc = "tx")
    BY <1>7, EndingOp, BillingAssumption DEF Abandon, TypeOK, Frame, NoTx
  <2> QED BY <1>7, <2>1, <2>2, EndingOp DEF TypeOK, Frame, Abandon
<1>8. CASE Crash
  <2>1. tx' = NoTx /\ tx' \in [by : Writers \cup {None}, balance : Int]
    BY <1>8 DEF Crash, NoTx
  <2>2. \A v \in Writers : (tx'.by = v) <=> (op'[v].pc = "tx")
    BY <1>8, <2>1, CrashOp, BillingAssumption DEF NoTx
  <2>3. cache' \in [Users -> Int \cup {None}] /\ crashes' \in 0..MaxCrashes
    BY <1>8, BillingAssumption DEF Crash, TypeOK
  <2> QED BY <1>8, <2>1, <2>2, <2>3, CrashOp DEF TypeOK, Crash
<1>9. CASE UNCHANGED vars
  BY <1>9 DEF vars, TypeOK
<1> QED BY <1>1, <1>2, <1>3, <1>4, <1>5, <1>6, <1>7, <1>8, <1>9, NextCases

(***************************************************************************)
(* Operations and their ids                                                *)
(***************************************************************************)
\* A writer that goes on with what it has, or stops, disturbs nothing.
LEMMA OpsKept ==
  ASSUME TypeOK, OpsOK, NEW w \in Writers, Frame(w), ids' = ids, op'[w].pc # "logging",
         op'[w].pc = "idle" \/ op'[w].user \in Users,
         Numbered(w)' => Numbered(w) /\ op'[w].id = op[w].id
  PROVE  OpsOK'
<1>1. \A v \in Writers : op'[v].pc # "idle" => op'[v].user \in Users
  BY DEF OpsOK, Frame
<1>2. \A v \in Writers : Numbered(v)' => Numbered(v) /\ op'[v].id = op[v].id
  BY DEF Frame, Numbered, Writing
<1>3. \A a \in Admins : op'[a].pc # "logging"
  BY DEF OpsOK, Frame, Writers
<1> QED BY <1>1, <1>2, <1>3 DEF OpsOK

LEMMA KeepsUser ==
  ASSUME OpsOK, NEW w \in Writers, Keeps(w), op[w].pc # "idle"
  PROVE  op'[w].user \in Users /\ op'[w].id = op[w].id
BY DEF OpsOK, Keeps

\* A writer that takes the next id is the only one that has it.
LEMMA OpsNumbered ==
  ASSUME TypeOK, OpsOK, NEW w \in Writers, Frame(w), ids' = ids + 1, op'[w].id = ids + 1,
         op'[w].user \in Users, op'[w].pc = "logging" => w \notin Admins
  PROVE  OpsOK'
<1>1. ids \in Nat
  BY BillingAssumption DEF TypeOK
<1>2. \A v \in Writers : op'[v].pc # "idle" => op'[v].user \in Users
  BY DEF OpsOK, Frame
<1>3. \A v \in Writers : Numbered(v)' => op'[v].id \in 1..ids'
  BY <1>1 DEF OpsOK, Frame, Numbered, Writing
<1>4. \A v \in Writers \ {w} : Numbered(v)' => op'[v].id \in 1..ids
  BY DEF OpsOK, Frame, Numbered, Writing
<1>5. \A u, v \in Writers : Numbered(u)' /\ Numbered(v)' /\ u # v => op'[u].id # op'[v].id
  <2> SUFFICES ASSUME NEW u \in Writers, NEW v \in Writers, Numbered(u)', Numbered(v)', u # v
               PROVE  op'[u].id # op'[v].id
    OBVIOUS
  <2>1. CASE u = w
    BY <1>1, <1>4, <2>1
  <2>2. CASE v = w
    BY <1>1, <1>4, <2>2
  <2>3. CASE u # w /\ v # w
    BY <2>3 DEF OpsOK, Frame, Numbered, Writing
  <2> QED BY <2>1, <2>2, <2>3
<1>6. \A a \in Admins : op'[a].pc # "logging"
  BY DEF OpsOK, Frame, Writers
<1> QED BY <1>2, <1>3, <1>5, <1>6 DEF OpsOK

LEMMA OpsStep == TypeOK /\ OpsOK /\ [Next]_vars => OpsOK'
<1> SUFFICES ASSUME TypeOK, OpsOK, [Next]_vars PROVE OpsOK'
  OBVIOUS
<1>w. Slots \subseteq Writers /\ Admins \subseteq Writers
  BY DEF Writers
<1>1. CASE Quiet
  <2>1. ASSUME NEW r \in Slots, CheckBalance(r) PROVE OpsOK'
    <3>1. Frame(r) /\ op'[r].pc \in {"reading", "serving", "refused"}
          /\ op'[r].user \in Users /\ ids' = ids /\ r \in Writers
      BY <2>1, <1>w, CheckBalanceOp DEF CheckBalance
    <3> QED BY <3>1, OpsKept DEF Numbered, Writing
  <2>2. ASSUME NEW w \in Writers, ReadBalance(w) PROVE OpsOK'
    BY <2>2, ReadBalanceOp, KeepsUser, OpsKept DEF ReadBalance, Numbered, Writing
  <2>3. ASSUME NEW r \in Slots, FillCache(r) PROVE OpsOK'
    BY <2>3, <1>w, FillCacheOp, KeepsUser, OpsKept DEF FillCache, Numbered, Writing
  <2>4. ASSUME NEW w \in Writers, Refuse(w) \/ ServeFree(w) \/ Prime(w) \/ Invalidate(w)
        PROVE  OpsOK'
    BY <2>4, EndingOp, OpsKept DEF Refuse, ServeFree, Prime, Invalidate, Numbered, Writing
  <2>5. ASSUME NEW u \in Users, Expire(u) PROVE OpsOK'
    BY <2>5 DEF OpsOK, Expire, Numbered, Writing
  <2> QED BY <1>1, <1>w, <2>1, <2>2, <2>3, <2>4, <2>5 DEF Quiet
<1>2. ASSUME NEW r \in Slots, NEW cost \in Costs, Serve(r, cost) PROVE OpsOK'
  <2>1. op[r].user \in Users /\ ids' = ids + 1 /\ r \notin Admins
    BY <1>2, <1>w, BillingAssumption DEF OpsOK, Serve
  <2> QED BY <1>2, <2>1, <1>w, ServeOp, OpsNumbered
<1>3. ASSUME NEW r \in Slots, NEW works \in BOOLEAN, Log(r, works) PROVE OpsOK'
  BY <1>3, <1>w, LogOp, KeepsUser, OpsKept DEF Log, Numbered, Writing
<1>4. ASSUME NEW a \in Admins, NEW u \in Users, NEW delta \in Deltas, Adjust(a, u, delta)
      PROVE  OpsOK'
  BY <1>4, <1>w, AdjustOp, OpsNumbered DEF Adjust
<1>5. ASSUME NEW w \in Writers, UpdateBalance(w) PROVE OpsOK'
  BY <1>5, UpdateBalanceOp, KeepsUser, OpsKept DEF UpdateBalance, Numbered, Writing
<1>6. ASSUME NEW w \in Writers, Commit(w) PROVE OpsOK'
  BY <1>6, CommitOp, KeepsUser, OpsKept DEF Commit, Numbered, Writing, TypeOK
<1>7. ASSUME NEW w \in Writers, Abandon(w) PROVE OpsOK'
  BY <1>7, EndingOp, OpsKept DEF Abandon, Numbered, Writing
<1>8. CASE Crash
  BY <1>8, <1>w, CrashOp DEF OpsOK, Numbered, Writing
<1>9. CASE UNCHANGED vars
  BY <1>9 DEF vars, OpsOK, Numbered, Writing
<1> QED BY <1>1, <1>2, <1>3, <1>4, <1>5, <1>6, <1>7, <1>8, <1>9, NextCases

(***************************************************************************)
(* The open transaction                                                    *)
(***************************************************************************)
LEMMA StagedKept ==
  ASSUME TypeOK, StagedOK, NEW w \in Writers, Frame(w), op[w].pc # "tx", UNCHANGED <<tx, wallet>>
  PROVE  StagedOK'
<1>1. tx.by # None => tx.by \in Writers /\ op[tx.by].pc = "tx"
  BY DEF TypeOK
<1> QED BY <1>1 DEF StagedOK, Frame

LEMMA StagedStep == TypeOK /\ OpsOK /\ StagedOK /\ [Next]_vars => StagedOK'
<1> SUFFICES ASSUME TypeOK, OpsOK, StagedOK, [Next]_vars PROVE StagedOK'
  OBVIOUS
<1>w. Slots \subseteq Writers /\ Admins \subseteq Writers
  BY DEF Writers
<1>1. CASE Quiet
  <2>1. ASSUME NEW r \in Slots, CheckBalance(r) PROVE StagedOK'
    BY <2>1, <1>w, CheckBalanceOp, StagedKept DEF CheckBalance
  <2>2. ASSUME NEW w \in Writers, ReadBalance(w) PROVE StagedOK'
    BY <2>2, ReadBalanceOp, StagedKept DEF ReadBalance
  <2>3. ASSUME NEW r \in Slots, FillCache(r) PROVE StagedOK'
    BY <2>3, <1>w, FillCacheOp, StagedKept DEF FillCache
  <2>4. ASSUME NEW w \in Writers, Refuse(w) \/ ServeFree(w) \/ Prime(w) \/ Invalidate(w)
        PROVE  StagedOK'
    BY <2>4, EndingOp, StagedKept DEF Refuse, ServeFree, Prime, Invalidate
  <2>5. ASSUME NEW u \in Users, Expire(u) PROVE StagedOK'
    BY <2>5 DEF StagedOK, Expire
  <2> QED BY <1>1, <1>w, <2>1, <2>2, <2>3, <2>4, <2>5 DEF Quiet
<1>2. ASSUME NEW r \in Slots, NEW cost \in Costs, Serve(r, cost) PROVE StagedOK'
  BY <1>2, <1>w, ServeOp, StagedKept DEF Serve
<1>3. ASSUME NEW r \in Slots, NEW works \in BOOLEAN, Log(r, works) PROVE StagedOK'
  BY <1>3, <1>w, LogOp, StagedKept DEF Log
<1>4. ASSUME NEW a \in Admins, NEW u \in Users, NEW delta \in Deltas, Adjust(a, u, delta)
      PROVE  StagedOK'
  BY <1>4, <1>w, AdjustOp, StagedKept DEF Adjust
<1>5. ASSUME NEW w \in Writers, UpdateBalance(w) PROVE StagedOK'
  BY <1>5, UpdateBalanceOp DEF UpdateBalance, StagedOK, Keeps
<1>6. ASSUME NEW w \in Writers, Commit(w) PROVE StagedOK'
  BY <1>6 DEF Commit, StagedOK, NoTx
<1>7. ASSUME NEW w \in Writers, Abandon(w) PROVE StagedOK'
  <2>1. CASE tx.by = w
    BY <1>7, <2>1 DEF Abandon, StagedOK, NoTx
  <2>2. CASE tx.by # w
    BY <1>7, <2>2, EndingOp, StagedKept DEF Abandon, TypeOK
  <2> QED BY <2>1, <2>2
<1>8. CASE Crash
  BY <1>8 DEF Crash, StagedOK, NoTx
<1>9. CASE UNCHANGED vars
  BY <1>9 DEF vars, StagedOK
<1> QED BY <1>1, <1>2, <1>3, <1>4, <1>5, <1>6, <1>7, <1>8, <1>9, NextCases

(***************************************************************************)
(* The log, and the ids in the ledger                                      *)
(***************************************************************************)
Logged == RefsOK /\ LoggedFirst /\ ChargeHasLogRow

\* A step that writes neither the log nor the ledger, and whose writer keeps
\* its id, loses it, or takes the next one without a charge to make yet.
LEMMA LoggedKept ==
  ASSUME TypeOK, OpsOK, Logged, NEW w \in Writers, Frame(w), UNCHANGED <<ledger, log, unlogged>>,
         \/ ids' = ids /\ (Numbered(w)' => Numbered(w) /\ op'[w].id = op[w].id)
         \/ ids' = ids + 1 /\ op'[w].id = ids + 1,
         w \in Slots /\ Writing(w)' => Writing(w) /\ Keeps(w)
  PROVE  Logged'
<1>1. ids \in Nat /\ ledger \in Seq(Entry)
  BY BillingAssumption DEF TypeOK
<1>2. \A v \in Writers \ {w} : (Numbered(v)' <=> Numbered(v)) /\ (Writing(v)' <=> Writing(v))
                              /\ op'[v] = op[v]
  BY DEF Frame, Numbered, Writing
<1>3. RefsOK'
  BY <1>1, <1>2 DEF Logged, RefsOK
<1>4. LoggedFirst'
  BY <1>2 DEF Logged, LoggedFirst, Keeps, Writers
<1>5. ChargeHasLogRow'
  BY DEF Logged, ChargeHasLogRow
<1> QED BY <1>3, <1>4, <1>5 DEF Logged

LEMMA LoggedByLog ==
  ASSUME TypeOK, OpsOK, Logged, NEW r \in Slots, NEW works \in BOOLEAN, Log(r, works)
  PROVE  Logged'
<1>1. r \in Writers /\ Numbered(r) /\ op[r].id \in Int /\ op[r].amount \in Int
  BY BillingAssumption DEF Log, Numbered, TypeOK, Writers, Ops
<1>2. \A i : /\ i \in unlogged => i \in unlogged'
             /\ i \in DOMAIN log /\ i # op[r].id => i \in DOMAIN log' /\ log'[i] = log[i]
  BY DEF Log
<1>3. \/ op[r].id \in unlogged'
      \/ op[r].id \in DOMAIN log' /\ log'[op[r].id] = -op[r].amount
  BY DEF Log
<1>4. \A v \in Writers \ {r} : op'[v] = op[v] /\ (Numbered(v)' => Numbered(v))
                              /\ (Writing(v)' => Writing(v))
  BY LogOp DEF Frame, Numbered, Writing
<1>5. Writing(r)' => Keeps(r)
  BY LogOp DEF Writing
<1>6. ledger' = ledger /\ ids' = ids
  BY DEF Log
<1>7. RefsOK'
  <2>1. Numbered(r)' => op'[r].id = op[r].id
    BY LogOp DEF Numbered, Writing, Keeps
  <2> QED BY <1>1, <1>4, <1>6, <2>1 DEF Logged, RefsOK
<1>8. LoggedFirst'
  <2> SUFFICES ASSUME NEW v \in Slots, Writing(v)'
               PROVE  \/ op'[v].id \in unlogged'
                      \/ op'[v].id \in DOMAIN log' /\ log'[op'[v].id] = -op'[v].amount
    BY DEF LoggedFirst
  <2>1. CASE v = r
    BY <1>3, <1>5, <2>1 DEF Keeps
  <2>2. CASE v # r
    <3>1. Writing(v) /\ op'[v] = op[v] /\ op[v].id # op[r].id
      BY <1>1, <1>4, <2>2 DEF OpsOK, Numbered, Writers
    <3> QED BY <3>1, <1>2 DEF Logged, LoggedFirst
  <2> QED BY <2>1, <2>2
<1>9. ChargeHasLogRow'
  <2>1. \A i \in 1..Len(ledger) : ledger[i].ref # op[r].id
    BY <1>1 DEF Logged, RefsOK
  <2> QED BY <2>1, <1>2, <1>6 DEF Logged, ChargeHasLogRow
<1> QED BY <1>7, <1>8, <1>9 DEF Logged

LEMMA CommitLedger ==
  ASSUME TypeOK, OpsOK, NEW w \in Writers, Commit(w)
  PROVE  /\ Len(ledger) \in Nat /\ Len(ledger') = Len(ledger) + 1
         /\ \A i \in 1..Len(ledger) : ledger'[i] = ledger[i]
         /\ ledger'[Len(ledger) + 1].user = op[w].user
         /\ ledger'[Len(ledger) + 1].kind = Kind(w)
         /\ ledger'[Len(ledger) + 1].ref = op[w].id
         /\ ledger'[Len(ledger) + 1].delta = op[w].amount
         /\ ledger'[Len(ledger) + 1].after = tx.balance
<1> DEFINE entry == [user |-> op[w].user, kind |-> Kind(w), ref |-> op[w].id,
                     delta |-> op[w].amount, after |-> tx.balance]
<1>1. op[w] \in Ops /\ op[w].pc = "tx" /\ op[w].user \in Users /\ tx.balance \in Int
  BY DEF TypeOK, OpsOK, Commit
<1>2. op[w].id \in 1..MaxIds /\ op[w].amount \in Int
  BY <1>1, BillingAssumption DEF TypeOK, OpsOK, Numbered, Writing, Ops
<1>3. entry \in Entry
  BY <1>1, <1>2 DEF Entry, Kind
<1>4. ledger' = Append(ledger, entry) /\ ledger \in Seq(Entry)
  BY DEF Commit, TypeOK
<1> HIDE DEF entry
<1>5. /\ Len(ledger) \in Nat /\ Len(ledger') = Len(ledger) + 1
      /\ \A i \in 1..Len(ledger) : ledger'[i] = ledger[i]
      /\ ledger'[Len(ledger) + 1] = entry
  BY <1>3, <1>4
<1>6. /\ entry.user = op[w].user /\ entry.kind = Kind(w) /\ entry.ref = op[w].id
      /\ entry.delta = op[w].amount /\ entry.after = tx.balance
  BY DEF entry
<1> QED BY <1>5, <1>6

LEMMA LoggedByCommit ==
  ASSUME TypeOK, OpsOK, Logged, NEW w \in Writers, Commit(w)
  PROVE  Logged'
<1> DEFINE n == Len(ledger)
<1>1. /\ n \in Nat /\ Len(ledger') = n + 1 /\ \A i \in 1..n : ledger'[i] = ledger[i]
      /\ ledger'[n + 1].kind = Kind(w) /\ ledger'[n + 1].ref = op[w].id
      /\ ledger'[n + 1].delta = op[w].amount
  BY CommitLedger
<1>2. Writing(w) /\ Numbered(w) /\ op[w].id \in 1..ids /\ UNCHANGED <<log, unlogged, ids>>
  BY DEF Commit, Writing, Numbered, TypeOK, OpsOK
<1>3. ~Numbered(w)' /\ \A v \in Writers \ {w} : op'[v] = op[v]
  BY CommitOp DEF Frame, Numbered, Writing
<1>4. \A i \in 1..Len(ledger') : i \in 1..n \/ i = n + 1
  BY <1>1
<1> HIDE DEF n
<1>5. RefsOK'
  <2> SUFFICES ASSUME NEW i \in 1..Len(ledger')
               PROVE  /\ ledger'[i].ref \in 1..ids'
                      /\ \A v \in Writers : Numbered(v)' => op'[v].id # ledger'[i].ref
    BY DEF RefsOK
  <2>1. CASE i \in 1..n
    BY <1>1, <1>2, <1>3, <2>1 DEF n, Logged, RefsOK, Numbered, Writing
  <2>2. CASE i = n + 1
    BY <1>1, <1>2, <1>3, <2>2 DEF OpsOK, Numbered, Writing
  <2> QED BY <1>4, <2>1, <2>2
<1>6. LoggedFirst'
  BY <1>2, <1>3 DEF Logged, LoggedFirst, Numbered, Writing, Writers
<1>7. ChargeHasLogRow'
  <2> SUFFICES ASSUME NEW i \in 1..Len(ledger'), ledger'[i].kind = "charge"
               PROVE  \/ ledger'[i].ref \in unlogged
                      \/ /\ ledger'[i].ref \in DOMAIN log
                         /\ log[ledger'[i].ref] = -ledger'[i].delta
    BY <1>2 DEF ChargeHasLogRow
  <2>1. CASE i \in 1..n
    BY <1>1, <2>1 DEF n, Logged, ChargeHasLogRow
  <2>2. CASE i = n + 1
    BY <1>1, <1>2, <2>2 DEF Kind, Logged, LoggedFirst, Writers
  <2> QED BY <1>4, <2>1, <2>2
<1> QED BY <1>5, <1>6, <1>7 DEF Logged

LEMMA LoggedStep == TypeOK /\ OpsOK /\ Logged /\ [Next]_vars => Logged'
<1> SUFFICES ASSUME TypeOK, OpsOK, Logged, [Next]_vars PROVE Logged'
  OBVIOUS
<1>w. Slots \subseteq Writers /\ Admins \subseteq Writers /\ Slots \cap Admins = {}
  BY BillingAssumption DEF Writers
<1>1. CASE Quiet
  <2>1. ASSUME NEW r \in Slots, CheckBalance(r) PROVE Logged'
    BY <2>1, <1>w, CheckBalanceOp, LoggedKept DEF CheckBalance, Numbered, Writing
  <2>2. ASSUME NEW w \in Writers, ReadBalance(w) PROVE Logged'
    BY <2>2, ReadBalanceOp, LoggedKept DEF ReadBalance, Numbered, Writing
  <2>3. ASSUME NEW r \in Slots, FillCache(r) PROVE Logged'
    BY <2>3, <1>w, FillCacheOp, LoggedKept DEF FillCache, Numbered, Writing
  <2>4. ASSUME NEW w \in Writers, Refuse(w) \/ ServeFree(w) \/ Prime(w) \/ Invalidate(w)
        PROVE  Logged'
    BY <2>4, EndingOp, LoggedKept DEF Refuse, ServeFree, Prime, Invalidate, Numbered, Writing
  <2>5. ASSUME NEW u \in Users, Expire(u) PROVE Logged'
    BY <2>5 DEF Expire, Logged, RefsOK, LoggedFirst, ChargeHasLogRow, Numbered, Writing
  <2> QED BY <1>1, <1>w, <2>1, <2>2, <2>3, <2>4, <2>5 DEF Quiet
<1>2. ASSUME NEW r \in Slots, NEW cost \in Costs, Serve(r, cost) PROVE Logged'
  BY <1>2, <1>w, ServeOp, LoggedKept DEF Serve, Writing
<1>3. ASSUME NEW r \in Slots, NEW works \in BOOLEAN, Log(r, works) PROVE Logged'
  BY <1>3, LoggedByLog
<1>4. ASSUME NEW a \in Admins, NEW u \in Users, NEW delta \in Deltas, Adjust(a, u, delta)
      PROVE  Logged'
  BY <1>4, <1>w, AdjustOp, LoggedKept DEF Adjust
<1>5. ASSUME NEW w \in Writers, UpdateBalance(w) PROVE Logged'
  BY <1>5, UpdateBalanceOp, LoggedKept DEF UpdateBalance, Numbered, Writing, Keeps
<1>6. ASSUME NEW w \in Writers, Commit(w) PROVE Logged'
  BY <1>6, LoggedByCommit
<1>7. ASSUME NEW w \in Writers, Abandon(w) PROVE Logged'
  BY <1>7, EndingOp, LoggedKept DEF Abandon, Numbered, Writing
<1>8. CASE Crash
  BY <1>8, <1>w, CrashOp DEF Crash, Logged, RefsOK, LoggedFirst, ChargeHasLogRow, Numbered, Writing
<1>9. CASE UNCHANGED vars
  BY <1>9 DEF vars, Logged, RefsOK, LoggedFirst, ChargeHasLogRow, Numbered, Writing
<1> QED BY <1>1, <1>2, <1>3, <1>4, <1>5, <1>6, <1>7, <1>8, <1>9, NextCases

(***************************************************************************)
(* The ledger and the wallets                                              *)
(***************************************************************************)
LEMMA LedgerKept ==
  ASSUME LedgerExplainsWallet, UNCHANGED <<wallet, ledger>>
  PROVE  LedgerExplainsWallet'
BY DEF LedgerExplainsWallet, BalanceIs

\* An entry more does not change what the entries before it say.
LEMMA Prefix ==
  ASSUME NEW n \in Nat, \A i \in 1..n : ledger'[i] = ledger[i],
         NEW m \in 0..n, NEW u, NEW balance, BalanceIs(u, m, balance)
  PROVE  \/ balance = 0 /\ \A j \in 1..m : ledger'[j].user # u
         \/ \E i \in 1..m :
              /\ ledger'[i].user = u /\ ledger'[i].after = balance
              /\ \A j \in (i + 1)..m : ledger'[j].user # u
BY DEF BalanceIs

LEMMA LedgerByCommit ==
  ASSUME TypeOK, OpsOK, StagedOK, LedgerExplainsWallet, NEW w \in Writers, Commit(w)
  PROVE  LedgerExplainsWallet'
<1> DEFINE n == Len(ledger)
<1> DEFINE u == op[w].user
<1>1. /\ n \in Nat /\ Len(ledger') = n + 1 /\ \A i \in 1..n : ledger'[i] = ledger[i]
      /\ ledger'[n + 1].user = u /\ ledger'[n + 1].delta = op[w].amount
      /\ ledger'[n + 1].after = tx.balance
  BY CommitLedger
<1>2. u \in Users /\ wallet[u] \in Int /\ op[w].amount \in Int
  BY DEF TypeOK, OpsOK, Commit, Ops
<1>3. tx.balance = wallet[u] + op[w].amount
  BY BillingAssumption DEF Commit, StagedOK
<1>4. wallet' = [wallet EXCEPT ![u] = tx.balance]
  BY DEF Commit
<1>5. \A v \in Users : BalanceIs(v, n, wallet[v])
  BY DEF LedgerExplainsWallet
<1>6. \A i \in 1..n : BalanceIs(ledger[i].user, i - 1, ledger[i].after - ledger[i].delta)
  BY DEF LedgerExplainsWallet
<1> HIDE DEF n, u
<1>7. ASSUME NEW i \in 1..(n + 1)
      PROVE  BalanceIs(ledger[i].user, i - 1, ledger[i].after - ledger[i].delta)'
  <2>1. CASE i \in 1..n
    <3>1. i - 1 \in 0..n /\ ledger'[i] = ledger[i]
      BY <1>1, <2>1
    <3> QED BY <1>1, <1>6, <2>1, <3>1, Prefix DEF BalanceIs
  <2>2. CASE i = n + 1
    <3>1. ledger'[i].after - ledger'[i].delta = wallet[u] /\ i - 1 = n /\ n \in 0..n
      BY <1>1, <1>2, <1>3, <2>2
    <3> QED BY <1>1, <1>2, <1>5, <2>2, <3>1, Prefix DEF BalanceIs
  <2> QED BY <1>1, <2>1, <2>2
<1>8. ASSUME NEW v \in Users
      PROVE  BalanceIs(v, Len(ledger), wallet[v])'
  <2>1. CASE v = u
    <3>1. wallet'[v] = ledger'[n + 1].after /\ ledger'[n + 1].user = v
      BY <1>1, <1>2, <1>4, <2>1 DEF TypeOK
    <3>2. n + 1 \in 1..(n + 1) /\ \A j \in ((n + 1) + 1)..(n + 1) : FALSE
      BY <1>1
    <3> QED BY <1>1, <3>1, <3>2 DEF BalanceIs
  <2>2. CASE v # u
    <3>1. wallet'[v] = wallet[v] /\ n \in 0..n
      BY <1>1, <1>2, <1>4, <2>2 DEF TypeOK
    <3>2. \/ wallet[v] = 0 /\ \A j \in 1..n : ledger'[j].user # v
          \/ \E i \in 1..n :
               /\ ledger'[i].user = v /\ ledger'[i].after = wallet[v]
               /\ \A j \in (i + 1)..n : ledger'[j].user # v
      BY <1>1, <1>5 DEF BalanceIs
    <3>3. ledger'[n + 1].user # v
      BY <1>1, <2>2
    <3> QED BY <1>1, <3>1, <3>2, <3>3 DEF BalanceIs
  <2> QED BY <2>1, <2>2
<1> QED BY <1>1, <1>7, <1>8 DEF LedgerExplainsWallet

LEMMA LedgerStep ==
  TypeOK /\ OpsOK /\ StagedOK /\ LedgerExplainsWallet /\ [Next]_vars => LedgerExplainsWallet'
<1> SUFFICES ASSUME TypeOK, OpsOK, StagedOK, LedgerExplainsWallet, [Next]_vars
             PROVE  LedgerExplainsWallet'
  OBVIOUS
<1>1. ASSUME NEW w \in Writers, Commit(w) PROVE LedgerExplainsWallet'
  BY <1>1, LedgerByCommit
<1>2. \/ \E w \in Writers : Commit(w)
      \/ UNCHANGED <<wallet, ledger>>
  BY NextCases DEF Quiet, CheckBalance, ReadBalance, FillCache, Refuse, ServeFree, Prime,
     Invalidate, Expire, Serve, Log, Adjust, UpdateBalance, Abandon, Crash, vars
<1> QED BY <1>1, <1>2, LedgerKept

-----------------------------------------------------------------------------
LEMMA Inductive == Spec => []IInv
<1>1. IInv /\ [Next]_vars => IInv'
  BY TypeStep, OpsStep, StagedStep, LoggedStep, LedgerStep DEF IInv, Logged
<1> QED BY InitInv, <1>1, PTL DEF Spec

\* The values have their types, and a transaction is open exactly while its
\* writer is inside WalletRepo::apply.
THEOREM TypeCorrect == Spec => []TypeOK
<1>1. IInv => TypeOK
  BY DEF IInv
<1> QED BY Inductive, <1>1, PTL

\* WalletRepo::apply: for any number of requests and administrators, any
\* failure and any crash, the ledger explains every wallet entry by entry.
THEOREM LedgerAlwaysExplains == Spec => []LedgerExplainsWallet
<1>1. IInv => LedgerExplainsWallet
  BY DEF IInv
<1> QED BY Inductive, <1>1, PTL

\* record(): no charge stands without the log row of its request at the same
\* cost, unless writing that row had itself failed.
THEOREM ChargesAreLogged == Spec => []ChargeHasLogRow
<1>1. IInv => ChargeHasLogRow
  BY DEF IInv
<1> QED BY Inductive, <1>1, PTL
=============================================================================

--------------------------- MODULE ChannelsProofs ---------------------------
(***************************************************************************)
(* Theorems of Channels, for any channels, endpoints, requests and number  *)
(* of administrators, any length of the event queue and any restarts.      *)
(***************************************************************************)
EXTENDS Channels, TLAPS

TableRow == [status : {"new", "live", "deleted"}, enabled : BOOLEAN, auto : BOOLEAN]
Job      == [pc : {"idle", "list", "publish"}, view : SUBSET Chans]

Busy(w) == job[w].pc # "idle"

\* As long as the last reload began alone, its writer is the only one at work;
\* what it has read is the table, and when it is done routing sees the table.
LoneReload ==
  ~overlap =>
    /\ \A v, w \in Writers : Busy(v) /\ Busy(w) => v = w
    /\ \A w \in Writers : job[w].pc = "publish" => job[w].view = Routable(db)
    /\ Quiet => snapshot = Routable(db)

\* Every write of the table is one with a reload: the import that fails half
\* way through is left out.
NoFailedImport == "import_fail" \notin AdminOps

\* A row that is not there is neither enabled nor marked.
AbsentIsOff == \A ch \in Chans : db[ch].status # "live" => ~db[ch].enabled /\ ~db[ch].auto

RowsOK == EnabledNotAuto /\ AbsentIsOff

IInv == TypeOK /\ RowsOK

-----------------------------------------------------------------------------
(***************************************************************************)
(* Types                                                                   *)
(***************************************************************************)
LEMMA RoutableType == ASSUME NEW table PROVE Routable(table) \subseteq Chans
BY DEF Routable

LEMMA RowTypes ==
  /\ New \in TableRow /\ Deleted \in TableRow
  /\ \A e, a \in BOOLEAN : Live(e, a) \in TableRow
BY DEF New, Deleted, Live, TableRow

LEMMA ReloadType ==
  ASSUME TypeOK, NEW w \in Writers, StartReload(w)
  PROVE  job' \in [Writers -> Job] /\ overlap' \in BOOLEAN
BY DEF TypeOK, StartReload, Job

LEMMA InitType == Init => TypeOK
<1> SUFFICES ASSUME Init PROVE TypeOK
  OBVIOUS
<1>1. db \in [Chans -> TableRow]
  BY RowTypes DEF Init
<1>2. job \in [Writers -> Job]
  BY DEF Init, Job, Idle
<1>3. streaks \in [Endpoints -> 0..(AuthDisableThreshold - 1)]
  BY DEF Init, AuthDisableThreshold
<1>4. queue \in Seq(Event) /\ Len(queue) <= MaxQueue
  BY ChannelsAssumption DEF Init
<1>5. intent \in [Chans -> {"on", "off", "none"}] /\ request \in [Requests -> Endpoints \cup {None}]
  BY DEF Init
<1>6. retest \in [todo : SUBSET Chans, passed : Chans \cup {None}] /\ restarts \in 0..MaxRestarts
  BY ChannelsAssumption DEF Init
<1>7. snapshot \subseteq Chans /\ good \in [Endpoints -> BOOLEAN] /\ byForm \subseteq Chans /\ overlap \in BOOLEAN
  BY ChannelsAssumption DEF Init
<1> QED BY <1>1, <1>2, <1>3, <1>4, <1>5, <1>6, <1>7 DEF TypeOK, TableRow, Job

LEMMA DecideType ==
  ASSUME TypeOK, NEW ch \in Chans, NEW e \in BOOLEAN, Decide(ch, e)
  PROVE  intent' \in [Chans -> {"on", "off", "none"}]
BY DEF TypeOK, Decide

LEMMA AdminType ==
  ASSUME TypeOK, NEW a \in Admins, AdminStep(a)
  PROVE  TypeOK'
<1> a \in Writers
  BY DEF Writers
<1>1. ASSUME NEW ch \in Chans, NEW e \in BOOLEAN,
             Toggle(a, ch, e) \/ Update(a, ch, e) \/ Create(a, ch, e)
      PROVE  TypeOK'
  <2>1. job' \in [Writers -> Job] /\ overlap' \in BOOLEAN
    BY <1>1, ReloadType DEF Toggle, Update, Create
  <2>2. db' \in [Chans -> TableRow]
    <3>1. CASE Toggle(a, ch, e) \/ Create(a, ch, e)
      <4>1. db' = [db EXCEPT ![ch] = Live(e, FALSE)] /\ Live(e, FALSE) \in TableRow
        BY <3>1, RowTypes DEF Toggle, Create
      <4> QED BY <4>1 DEF TypeOK, TableRow
    <3>2. CASE Update(a, ch, e)
      <4>1. db' = [db EXCEPT ![ch].enabled = e]
        BY <3>2 DEF Update
      <4>2. db[ch] \in TableRow /\ db \in [Chans -> TableRow]
        BY DEF TypeOK, TableRow
      <4>3. PICK row : row = [db[ch] EXCEPT !.enabled = e]
        OBVIOUS
      <4>4. row \in TableRow
        BY <4>2, <4>3 DEF TableRow
      <4>5. db' = [db EXCEPT ![ch] = row]
        BY <4>1, <4>3
      <4> QED BY <4>2, <4>4, <4>5
    <3> QED BY <1>1, <3>1, <3>2
  <2>3. intent' \in [Chans -> {"on", "off", "none"}]
    BY <1>1, DecideType DEF Toggle, Update, Create
  <2> QED BY <1>1, <2>1, <2>2, <2>3 DEF Toggle, Update, Create, TypeOK, TableRow, Job
<1>2. ASSUME NEW ch \in Chans, Delete(a, ch) PROVE TypeOK'
  <2>1. job' \in [Writers -> Job] /\ overlap' \in BOOLEAN
    BY <1>2, ReloadType DEF Delete
  <2>2. db' \in [Chans -> TableRow]
    BY <1>2, RowTypes DEF Delete, TypeOK, TableRow
  <2> QED BY <1>2, <2>1, <2>2 DEF Delete, TypeOK, TableRow, Job
<1>3. ASSUME NEW incoming \in SUBSET Chans, NEW fails \in BOOLEAN, ImportReplace(a, incoming, fails)
      PROVE  TypeOK'
  <2>1. job' \in [Writers -> Job] /\ overlap' \in BOOLEAN
    BY <1>3, ReloadType DEF ImportReplace, NoReload, TypeOK, Job
  <2>2. db' \in [Chans -> TableRow]
    BY <1>3, RowTypes DEF ImportReplace, TypeOK, TableRow
  <2> QED BY <1>3, <2>1, <2>2 DEF ImportReplace, TypeOK, TableRow, Job
<1> QED BY <1>1, <1>2, <1>3 DEF AdminStep

LEMMA ReloadStepsType ==
  ASSUME TypeOK, NEW w \in Writers, ListAll(w) \/ Publish(w)
  PROVE  TypeOK'
<1>1. CASE ListAll(w)
  BY <1>1, RoutableType DEF ListAll, TypeOK
<1>2. CASE Publish(w)
  BY <1>2 DEF Publish, TypeOK, Idle
<1> QED BY <1>1, <1>2

LEMMA RequestType ==
  ASSUME TypeOK, NEW r \in Requests,
         \/ \E ep \in Endpoints : StartRequest(r, ep)
         \/ \E verdict \in BOOLEAN : FinishRequest(r, verdict)
  PROVE  TypeOK'
<1>1. ASSUME NEW ep \in Endpoints, StartRequest(r, ep) PROVE TypeOK'
  BY <1>1 DEF StartRequest, TypeOK
<1>2. ASSUME NEW verdict \in BOOLEAN, FinishRequest(r, verdict) PROVE TypeOK'
  <2> DEFINE kind == IF ~verdict THEN "other" ELSE IF good[request[r]] THEN "success" ELSE "auth"
  <2>1. [kind |-> kind, ep |-> request[r]] \in Event
    BY <1>2 DEF FinishRequest, TypeOK, Event
  <2>2. queue' = Append(queue, [kind |-> kind, ep |-> request[r]])
    BY <1>2 DEF FinishRequest
  <2> HIDE DEF kind
  <2>3. queue' \in Seq(Event) /\ Len(queue') <= MaxQueue
    BY <1>2, <2>1, <2>2, ChannelsAssumption DEF FinishRequest, TypeOK
  <2> QED BY <1>2, <2>3 DEF FinishRequest, TypeOK
<1> QED BY <1>1, <1>2

LEMMA DisableType ==
  ASSUME TypeOK, NEW ch \in Chans, AutoDisable(ch)
  PROVE  /\ db' \in [Chans -> TableRow] /\ byForm' \subseteq Chans
         /\ job' \in [Writers -> Job] /\ overlap' \in BOOLEAN
<1> Worker \in Writers
  BY DEF Writers
<1>1. CASE db[ch].status = "live"
  <2>1. Live(FALSE, TRUE) \in TableRow /\ db' = [db EXCEPT ![ch] = Live(FALSE, TRUE)]
    BY <1>1, RowTypes DEF AutoDisable
  <2>2. StartReload(Worker) /\ byForm' = byForm \ {ch}
    BY <1>1 DEF AutoDisable
  <2> QED BY <2>1, <2>2, ReloadType DEF TypeOK, TableRow
<1>2. CASE db[ch].status # "live"
  BY <1>2 DEF AutoDisable, NoWrite, TypeOK, TableRow, Job
<1> QED BY <1>1, <1>2

LEMMA HandleType == TypeOK /\ Handle => TypeOK'
<1> SUFFICES ASSUME TypeOK, Handle PROVE TypeOK'
  OBVIOUS
<1> DEFINE ev == Head(queue)
<1>1. ev \in Event /\ queue' \in Seq(Event) /\ Len(queue') <= MaxQueue
  BY ChannelsAssumption DEF Handle, TypeOK
<1>2. \/ ev.kind = "auth" /\ CountAuthFailure(ev.ep)
      \/ ev.kind = "success" /\ streaks' = [streaks EXCEPT ![ev.ep] = 0] /\ NoWrite
      \/ ev.kind = "other" /\ UNCHANGED streaks /\ NoWrite
  BY <1>1 DEF Handle, Event
<1>3. ev.ep \in Endpoints /\ ChannelOf[ev.ep] \in Chans
  BY <1>1, ChannelsAssumption DEF Event
<1> HIDE DEF ev
<1>4. /\ db' \in [Chans -> TableRow] /\ byForm' \subseteq Chans
      /\ job' \in [Writers -> Job] /\ overlap' \in BOOLEAN
  <2>1. CASE AutoDisable(ChannelOf[ev.ep])
    BY <2>1, <1>3, DisableType
  <2>2. CASE NoWrite
    BY <2>2 DEF NoWrite, TypeOK, TableRow, Job
  <2> QED BY <1>2, <2>1, <2>2 DEF CountAuthFailure
<1>5. streaks' \in [Endpoints -> 0..(AuthDisableThreshold - 1)]
  <2>1. streaks \in [Endpoints -> 0..(AuthDisableThreshold - 1)] /\ AuthDisableThreshold = 3
    BY DEF TypeOK, AuthDisableThreshold
  <2>2. CASE CountAuthFailure(ev.ep)
    BY <2>1, <2>2, <1>3 DEF CountAuthFailure
  <2>3. CASE streaks' = [streaks EXCEPT ![ev.ep] = 0]
    BY <2>1, <2>3, <1>3
  <2>4. CASE UNCHANGED streaks
    BY <2>1, <2>4
  <2> QED BY <1>2, <2>2, <2>3, <2>4
<1> QED BY <1>1, <1>4, <1>5 DEF Handle, TypeOK, TableRow, Job

LEMMA RestoreType == TypeOK /\ RetestRestore => TypeOK'
<1> SUFFICES ASSUME TypeOK, RetestRestore PROVE TypeOK'
  OBVIOUS
<1> Retester \in Writers
  BY DEF Writers
<1>1. retest' \in [todo : SUBSET Chans, passed : Chans \cup {None}]
  BY DEF RetestRestore, TypeOK
<1>2. /\ db' \in [Chans -> TableRow] /\ byForm' \subseteq Chans
      /\ job' \in [Writers -> Job] /\ overlap' \in BOOLEAN
  <2>1. CASE retest.passed \in AutoDisabled
    <3>1. db' = [db EXCEPT ![retest.passed] = Live(TRUE, FALSE)] /\ Live(TRUE, FALSE) \in TableRow
      BY <2>1, RowTypes DEF RetestRestore
    <3>2. byForm' = byForm \ {retest.passed} /\ StartReload(Retester)
      BY <2>1 DEF RetestRestore
    <3> QED BY <3>1, <3>2, ReloadType DEF TypeOK, TableRow
  <2>2. CASE retest.passed \notin AutoDisabled
    BY <2>2 DEF RetestRestore, NoWrite, TypeOK, TableRow, Job
  <2> QED BY <2>1, <2>2
<1> QED BY <1>1, <1>2 DEF RetestRestore, TypeOK, TableRow, Job

LEMMA RetestType ==
  ASSUME TypeOK, RetestList \/ \E ch \in Chans : RetestProbe(ch)
  PROVE  TypeOK'
<1>1. CASE RetestList
  BY <1>1 DEF RetestList, AutoDisabled, TypeOK
<1>2. ASSUME NEW ch \in Chans, RetestProbe(ch) PROVE TypeOK'
  BY <1>2 DEF RetestProbe, TypeOK
<1> QED BY <1>1, <1>2

LEMMA EnvironmentType ==
  ASSUME TypeOK, (\E ep \in Endpoints : CredentialsChange(ep)) \/ Restart
  PROVE  TypeOK'
<1>1. ASSUME NEW ep \in Endpoints, CredentialsChange(ep) PROVE TypeOK'
  BY <1>1 DEF CredentialsChange, TypeOK
<1>2. CASE Restart
  <2>1. job' \in [Writers -> Job]
    BY <1>2 DEF Restart, Idle, Job
  <2>2. streaks' \in [Endpoints -> 0..(AuthDisableThreshold - 1)]
    BY <1>2 DEF Restart, AuthDisableThreshold
  <2>3. queue' \in Seq(Event) /\ Len(queue') <= MaxQueue
    BY <1>2, ChannelsAssumption DEF Restart
  <2>4. request' \in [Requests -> Endpoints \cup {None}]
        /\ retest' \in [todo : SUBSET Chans, passed : Chans \cup {None}]
    BY <1>2 DEF Restart
  <2>5. restarts' \in 0..MaxRestarts /\ snapshot' \subseteq Chans
    BY <1>2, ChannelsAssumption, RoutableType DEF Restart, TypeOK
  <2> QED BY <1>2, <2>1, <2>2, <2>3, <2>4, <2>5 DEF Restart, TypeOK, Job
<1> QED BY <1>1, <1>2

LEMMA TypeStep == TypeOK /\ [Next]_vars => TypeOK'
<1> SUFFICES ASSUME TypeOK, [Next]_vars PROVE TypeOK'
  OBVIOUS
<1>1. CASE UNCHANGED vars
  BY <1>1 DEF vars, TypeOK
<1>2. CASE Next
  BY <1>2, AdminType, ReloadStepsType, RequestType, HandleType, RetestType, RestoreType,
     EnvironmentType, Zenon DEF Next
<1> QED BY <1>1, <1>2

-----------------------------------------------------------------------------
(***************************************************************************)
(* The mark of the retest loop                                             *)
(***************************************************************************)
LEMMA RowFields ==
  /\ ~New.enabled /\ ~New.auto
  /\ ~Deleted.enabled /\ ~Deleted.auto
  /\ \A e, a \in BOOLEAN : Live(e, a).enabled = e /\ Live(e, a).auto = a /\ Live(e, a).status = "live"
BY DEF New, Deleted, Live

LEMMA RowWritten ==
  ASSUME TypeOK, RowsOK, NEW ch \in Chans, NEW q,
         q.enabled => ~q.auto, q.status # "live" => ~q.enabled /\ ~q.auto,
         db' = [db EXCEPT ![ch] = q], byForm' = byForm \ {ch}
  PROVE  RowsOK'
BY DEF TypeOK, RowsOK, EnabledNotAuto, AbsentIsOff

\* What touches neither the table nor the reloads.
Aside ==
  \/ \E r \in Requests : \/ \E ep \in Endpoints : StartRequest(r, ep)
                         \/ \E verdict \in BOOLEAN : FinishRequest(r, verdict)
  \/ RetestList
  \/ \E ch \in Chans : RetestProbe(ch)
  \/ \E ep \in Endpoints : CredentialsChange(ep)

LEMMA AsideKeeps == Aside => UNCHANGED <<db, byForm, snapshot, job, overlap>>
BY DEF Aside, StartRequest, FinishRequest, RetestList, RetestProbe, CredentialsChange

LEMMA HandleWrites ==
  ASSUME TypeOK, Handle
  PROVE  NoWrite \/ \E ch \in Chans : AutoDisable(ch)
<1> DEFINE ev == Head(queue)
<1>1. ev \in Event
  BY DEF Handle, TypeOK
<1>2. CountAuthFailure(ev.ep) \/ NoWrite
  BY <1>1 DEF Handle, Event
<1>3. ChannelOf[ev.ep] \in Chans
  BY <1>1, ChannelsAssumption DEF Event
<1> HIDE DEF ev
<1> QED BY <1>2, <1>3 DEF CountAuthFailure

LEMMA RowsStep == TypeOK /\ RowsOK /\ [Next]_vars => RowsOK'
<1> SUFFICES ASSUME TypeOK, RowsOK, [Next]_vars PROVE RowsOK'
  OBVIOUS
<1>1. CASE UNCHANGED <<db, byForm>>
  BY <1>1 DEF RowsOK, EnabledNotAuto, AbsentIsOff
<1>2. ASSUME NEW a \in Admins, AdminStep(a) PROVE RowsOK'
  <2>1. ASSUME NEW ch \in Chans, NEW e \in BOOLEAN,
               Toggle(a, ch, e) \/ Update(a, ch, e) \/ Create(a, ch, e)
        PROVE  RowsOK'
    <3>1. CASE Toggle(a, ch, e) \/ Create(a, ch, e)
      <4>1. db' = [db EXCEPT ![ch] = Live(e, FALSE)] /\ byForm' = byForm \ {ch}
        BY <3>1 DEF Toggle, Create
      <4> QED BY <4>1, RowFields, RowWritten
    <3>2. CASE Update(a, ch, e)
      <4>1. db' = [db EXCEPT ![ch].enabled = e] /\ byForm' = byForm \cup {ch}
        BY <3>2 DEF Update
      <4>2. db[ch].status = "live"
        BY <3>2 DEF Update
      <4> QED BY <4>1, <4>2 DEF RowsOK, EnabledNotAuto, AbsentIsOff, TypeOK
    <3> QED BY <2>1, <3>1, <3>2
  <2>2. ASSUME NEW ch \in Chans, Delete(a, ch) PROVE RowsOK'
    BY <2>2, RowFields, RowWritten DEF Delete
  <2>3. ASSUME NEW incoming \in SUBSET Chans, NEW fails \in BOOLEAN, ImportReplace(a, incoming, fails)
        PROVE  RowsOK'
    <3>1. \A ch \in Chans : \/ db'[ch] = Live(TRUE, FALSE)
                            \/ db'[ch] = Deleted
                            \/ db[ch].status # "live" /\ db'[ch] = db[ch] /\ ch \notin incoming
      BY <2>3 DEF ImportReplace
    <3> QED BY <3>1, RowFields DEF RowsOK, EnabledNotAuto, AbsentIsOff
  <2> QED BY <1>2, <2>1, <2>2, <2>3 DEF AdminStep
<1>3. ASSUME NEW ch \in Chans, AutoDisable(ch) PROVE RowsOK'
  <2>1. \/ UNCHANGED <<db, byForm>>
        \/ db' = [db EXCEPT ![ch] = Live(FALSE, TRUE)] /\ byForm' = byForm \ {ch}
    BY <1>3 DEF AutoDisable, NoWrite
  <2> QED BY <2>1, <1>1, RowFields, RowWritten
<1>4. CASE Handle
  BY <1>1, <1>3, <1>4, HandleWrites DEF NoWrite
<1>5. CASE RetestRestore
  <2>1. \/ UNCHANGED <<db, byForm>>
        \/ /\ retest.passed \in Chans
           /\ db' = [db EXCEPT ![retest.passed] = Live(TRUE, FALSE)]
           /\ byForm' = byForm \ {retest.passed}
    BY <1>5 DEF RetestRestore, NoWrite, AutoDisabled
  <2> QED BY <2>1, <1>1, RowFields, RowWritten
<1>6. CASE Aside \/ Restart \/ \E w \in Writers : ListAll(w) \/ Publish(w)
  BY <1>6, <1>1, AsideKeeps DEF ListAll, Publish, Restart
<1>7. CASE UNCHANGED vars
  BY <1>7, <1>1 DEF vars
<1> QED BY <1>2, <1>4, <1>5, <1>6, <1>7, Zenon DEF Next, Aside

-----------------------------------------------------------------------------
(***************************************************************************)
(* Who may bring a channel back                                            *)
(***************************************************************************)
\* The step in which a channel that is off goes on, with its administrator's
\* last word unchanged, and that word "off".
ComesBack(ch) ==
  ~db[ch].enabled /\ db'[ch].enabled /\ intent'[ch] = intent[ch] /\ intent[ch] = "off"

LEMMA ReturnStep ==
  ASSUME TypeOK, [Next]_vars, NEW ch \in Chans, ComesBack(ch)
  PROVE  db[ch].auto
<1>1. CASE UNCHANGED db
  BY <1>1 DEF ComesBack
<1>2. ASSUME NEW a \in Admins, AdminStep(a) PROVE FALSE
  <2>1. ASSUME NEW d \in Chans, NEW e \in BOOLEAN,
               Toggle(a, d, e) \/ Update(a, d, e) \/ Create(a, d, e)
        PROVE  FALSE
    <3>1. Decide(d, e) /\ (db' = [db EXCEPT ![d] = Live(e, FALSE)] \/ db' = [db EXCEPT ![d].enabled = e])
      BY <2>1, Zenon DEF Toggle, Update, Create
    <3>2. db'[d].enabled = e /\ \A x \in Chans \ {d} : db'[x] = db[x]
      <4>1. db \in [Chans -> TableRow]
        BY DEF TypeOK, TableRow
      <4>2. CASE db' = [db EXCEPT ![d] = Live(e, FALSE)]
        BY <4>1, <4>2, RowFields
      <4>3. CASE db' = [db EXCEPT ![d].enabled = e]
        BY <4>1, <4>3 DEF TableRow
      <4> QED BY <3>1, <4>2, <4>3
    <3>3. d = ch /\ e = TRUE
      BY <3>2 DEF ComesBack
    <3>4. intent'[ch] = "on"
      BY <3>1, <3>3 DEF Decide, TypeOK
    <3> QED BY <3>4 DEF ComesBack
  <2>2. ASSUME NEW d \in Chans, Delete(a, d) PROVE FALSE
    BY <2>2, RowFields DEF Delete, ComesBack, TypeOK
  <2>3. ASSUME NEW incoming \in SUBSET Chans, NEW fails \in BOOLEAN, ImportReplace(a, incoming, fails)
        PROVE  FALSE
    <3>1. intent'[ch] # "off"
      BY <2>3 DEF ImportReplace
    <3> QED BY <3>1 DEF ComesBack
  <2> QED BY <1>2, <2>1, <2>2, <2>3 DEF AdminStep
<1>3. ASSUME NEW d \in Chans, AutoDisable(d) PROVE FALSE
  <2>1. UNCHANGED db \/ db' = [db EXCEPT ![d] = Live(FALSE, TRUE)]
    BY <1>3 DEF AutoDisable, NoWrite
  <2> QED BY <2>1, RowFields DEF ComesBack, TypeOK
<1>4. CASE Handle
  <2>1. UNCHANGED db \/ \E d \in Chans : AutoDisable(d)
    BY <1>4, HandleWrites DEF NoWrite
  <2> QED BY <2>1, <1>1, <1>3
<1>5. CASE RetestRestore
  <2>1. \/ UNCHANGED db
        \/ /\ retest.passed \in AutoDisabled
           /\ db' = [db EXCEPT ![retest.passed] = Live(TRUE, FALSE)]
    BY <1>5 DEF RetestRestore, NoWrite
  <2>2. ch \in AutoDisabled
    BY <2>1 DEF ComesBack, AutoDisabled, TypeOK
  <2> QED BY <2>2 DEF AutoDisabled
<1>6. CASE Aside \/ Restart \/ \E w \in Writers : ListAll(w) \/ Publish(w)
  BY <1>6, <1>1, AsideKeeps DEF ListAll, Publish, Restart
<1>7. CASE UNCHANGED vars
  BY <1>7, <1>1 DEF vars
<1> QED BY <1>2, <1>4, <1>5, <1>6, <1>7, Zenon DEF Next, Aside

-----------------------------------------------------------------------------
(***************************************************************************)
(* The snapshot                                                            *)
(***************************************************************************)
LEMMA LoneCommit ==
  ASSUME TypeOK, LoneReload, NEW w \in Writers, StartReload(w), UNCHANGED snapshot
  PROVE  LoneReload'
<1> SUFFICES ASSUME ~overlap'
             PROVE  /\ \A v, x \in Writers : Busy(v)' /\ Busy(x)' => v = x
                    /\ \A x \in Writers : job'[x].pc = "publish" => job'[x].view = Routable(db')
                    /\ Quiet' => snapshot' = Routable(db')
  BY DEF LoneReload, Routable
<1>1. \A v \in Writers \ {w} : job[v].pc = "idle"
  BY DEF StartReload
<1>2. job'[w].pc = "list" /\ \A v \in Writers \ {w} : job'[v].pc = "idle"
  BY <1>1 DEF StartReload, TypeOK
<1> QED BY <1>2 DEF Busy, Quiet

LEMMA LoneQuiet ==
  ASSUME LoneReload, UNCHANGED <<db, snapshot, job, overlap>>
  PROVE  LoneReload'
BY DEF LoneReload, Busy, Quiet, Routable

LEMMA AdminCommits ==
  ASSUME NoFailedImport, NEW a \in Admins, AdminStep(a)
  PROVE  StartReload(a) /\ UNCHANGED snapshot
BY DEF NoFailedImport, AdminStep, Toggle, Update, Create, Delete, ImportReplace

LEMMA LoneStep ==
  ASSUME NoFailedImport, TypeOK, LoneReload, [Next]_vars
  PROVE  LoneReload'
<1>1. ASSUME NEW a \in Admins, AdminStep(a) PROVE LoneReload'
  BY <1>1, AdminCommits, LoneCommit DEF Writers
<1>2. ASSUME NEW w \in Writers, ListAll(w) PROVE LoneReload'
  <2>1. /\ UNCHANGED <<db, snapshot, overlap>> /\ Busy(w)
        /\ job'[w].pc = "publish" /\ job'[w].view = Routable(db)
        /\ \A v \in Writers \ {w} : job'[v] = job[v]
    BY <1>2 DEF ListAll, TypeOK, Busy
  <2> QED BY <2>1 DEF LoneReload, Busy, Quiet, Routable
<1>3. ASSUME NEW w \in Writers, Publish(w) PROVE LoneReload'
  <2>1. /\ UNCHANGED <<db, overlap>> /\ Busy(w) /\ job[w].pc = "publish"
        /\ snapshot' = job[w].view /\ job'[w].pc = "idle"
        /\ \A v \in Writers \ {w} : job'[v] = job[v]
    BY <1>3 DEF Publish, TypeOK, Busy, Idle
  <2> QED BY <2>1 DEF LoneReload, Busy, Quiet, Routable
<1>4. ASSUME NEW d \in Chans, AutoDisable(d), UNCHANGED snapshot PROVE LoneReload'
  <2>1. StartReload(Worker) \/ UNCHANGED <<db, job, overlap>>
    BY <1>4 DEF AutoDisable, NoWrite
  <2> QED BY <1>4, <2>1, LoneCommit, LoneQuiet DEF Writers
<1>5. CASE Handle
  <2>1. UNCHANGED snapshot /\ (NoWrite \/ \E d \in Chans : AutoDisable(d))
    BY <1>5, HandleWrites DEF Handle
  <2> QED BY <2>1, <1>4, LoneQuiet DEF NoWrite
<1>6. CASE RetestRestore
  <2>1. UNCHANGED snapshot /\ (StartReload(Retester) \/ UNCHANGED <<db, job, overlap>>)
    BY <1>6 DEF RetestRestore, NoWrite
  <2> QED BY <2>1, LoneCommit, LoneQuiet DEF Writers
<1>7. CASE Restart
  <2>1. snapshot' = Routable(db) /\ UNCHANGED db /\ \A w \in Writers : job'[w].pc = "idle"
    BY <1>7 DEF Restart, Idle
  <2> QED BY <2>1 DEF LoneReload, Busy, Routable
<1>8. CASE Aside \/ UNCHANGED vars
  BY <1>8, AsideKeeps, LoneQuiet DEF vars
<1> QED BY <1>1, <1>2, <1>3, <1>5, <1>6, <1>7, <1>8, Zenon DEF Next, Aside

LEMMA InitInv == Init => IInv /\ LoneReload
<1> SUFFICES ASSUME Init PROVE RowsOK /\ LoneReload
  BY InitType DEF IInv
<1>1. \A ch \in Chans : db[ch] = IF ch \in InitialChans THEN Live(TRUE, FALSE) ELSE New
  BY DEF Init
<1>2. RowsOK
  BY <1>1, RowFields DEF RowsOK, EnabledNotAuto, AbsentIsOff
<1>3. snapshot = Routable(db)
  BY <1>1, RowFields, ChannelsAssumption DEF Init, Routable
<1>4. \A w \in Writers : job[w].pc = "idle"
  BY DEF Init, Idle
<1> QED BY <1>2, <1>3, <1>4 DEF LoneReload, Busy

LEMMA Inductive == IInv /\ [Next]_vars => IInv'
BY TypeStep, RowsStep DEF IInv

LEMMA Always == Spec => []IInv
BY InitInv, Inductive, PTL DEF Spec

(***************************************************************************)
(* The theorems                                                            *)
(***************************************************************************)
\* Types; the worker acts on a streak of failures as soon as it is long enough
\* (EventWorker::handle).
THEOREM TypeCorrect == Spec => []TypeOK
BY Always, PTL DEF IInv

\* set_enabled, set_auto_disabled, restore_auto_disabled, replace_all: only the
\* edit form leaves a channel enabled and marked for the retest loop.
THEOREM MarksMatchState == Spec => []EnabledNotAuto
<1>1. IInv => EnabledNotAuto
  BY DEF IInv, RowsOK
<1> QED BY <1>1, Always, PTL

\* restore_auto_disabled: a channel an administrator switched off comes back by
\* itself only if the worker's mark is on its row at that moment.
THEOREM ReturnsAreMarked == Spec => RestoresOnlyAutoDisabled
<1>1. IInv /\ [Next]_vars => [\A ch \in Chans : ComesBack(ch) => db[ch].auto]_vars
  BY ReturnStep DEF IInv
<1>2. Spec => [][\A ch \in Chans : ComesBack(ch) => db[ch].auto]_vars
  BY <1>1, Always, PTL DEF Spec
<1> QED BY <1>2 DEF RestoresOnlyAutoDisabled, ComesBack

\* Both together: the worker's mark decides what comes back by itself.
THEOREM MarksAreDecisive == Spec => MarksDecide
BY MarksMatchState, ReturnsAreMarked DEF MarksDecide

\* commit_channels: with no half-finished import, routing sees the table when
\* the writers are done, unless the last reload began during another.
THEOREM RoutingSeesTable == ASSUME NoFailedImport PROVE Spec => []SnapshotFresh
<1>1. Init => IInv /\ LoneReload
  BY InitInv
<1>2. IInv /\ LoneReload /\ [Next]_vars => IInv' /\ LoneReload'
  BY NoFailedImport, Inductive, LoneStep DEF IInv
<1>3. LoneReload => SnapshotFresh
  BY DEF LoneReload, SnapshotFresh
<1> QED BY <1>1, <1>2, <1>3, PTL DEF Spec
=============================================================================

------------------------------ MODULE Channels ------------------------------
(***************************************************************************)
(* The life of a channel's enabled state: administrators, the event worker *)
(* that disables channels whose credentials are dead, the retest loop that *)
(* brings them back, and the in-memory snapshot that routing reads.        *)
(*                                                                         *)
(* Every writer commits to the `channels` table and then reloads the       *)
(* snapshot: one await reads the whole table, a later step publishes what  *)
(* was read.  Executors report failures and successes on a queue that the  *)
(* worker drains one event at a time.                                      *)
(***************************************************************************)
EXTENDS Integers, Sequences

CONSTANTS
  Chans,        (* channel ids; an id is never used twice                   *)
  InitialChans, (* those that exist and are enabled at the start            *)
  Endpoints,    (* (channel, protocol) pairs                                *)
  ChannelOf,    (* the channel of an endpoint                               *)
  TestEndpoint, (* the endpoint of a channel that a test calls              *)
  Requests,     (* concurrent gateway requests                              *)
  Admins,       (* concurrent administrator sessions                        *)
  AdminOps,     (* subset of {"toggle", "update", "delete", "create",
                   "import", "import_fail"}: what they do in this instance  *)
  MaxQueue,     (* bound on the event queue, for model checking             *)
  MaxRestarts,  (* bound on restarts, for model checking                    *)
  None

ASSUME ChannelsAssumption ==
  /\ InitialChans \subseteq Chans
  /\ ChannelOf \in [Endpoints -> Chans]
  /\ TestEndpoint \in [Chans -> Endpoints]
  /\ MaxQueue \in Nat /\ MaxRestarts \in Nat

AuthDisableThreshold == 3    \* AUTH_DISABLE_THRESHOLD

VARIABLES
  db,        (* the channels table: [status, enabled, auto] per id          *)
  snapshot,  (* the channels routing may use: loaded and enabled            *)
  job,       (* where each writer is in its commit-and-reload               *)
  queue,     (* RouterEvents on their way to the worker                     *)
  streaks,   (* the worker's consecutive auth failures per endpoint         *)
  retest,    (* the retest loop: channels left to test, one being restored  *)
  request,   (* the endpoint each request is calling, or None               *)
  good,      (* whether the upstream accepts the credentials, per endpoint  *)
  intent,    (* history: the last explicit decision about a channel         *)
  byForm,    (* history: channels whose `enabled` the edit form wrote last  *)
  overlap,   (* history: the last reload began during another               *)
  restarts

vars == <<db, snapshot, job, queue, streaks, retest, request, good, intent,
          byForm, overlap, restarts>>

Worker   == "worker"
Retester == "retester"
Writers  == Admins \cup {Worker, Retester}

New     == [status |-> "new", enabled |-> FALSE, auto |-> FALSE]
Deleted == [status |-> "deleted", enabled |-> FALSE, auto |-> FALSE]
Live(enabled, auto) == [status |-> "live", enabled |-> enabled, auto |-> auto]
Idle    == [pc |-> "idle", view |-> {}]

\* What routing may pick from a table: collect() skips disabled channels.
Routable(table) == {ch \in Chans : table[ch].status = "live" /\ table[ch].enabled}

-----------------------------------------------------------------------------
Init ==
  /\ db = [ch \in Chans |-> IF ch \in InitialChans THEN Live(TRUE, FALSE) ELSE New]
  /\ snapshot = InitialChans
  /\ job = [w \in Writers |-> Idle]
  /\ queue = <<>>
  /\ streaks = [ep \in Endpoints |-> 0]
  /\ retest = [todo |-> {}, passed |-> None]
  /\ request = [r \in Requests |-> None]
  /\ good \in [Endpoints -> BOOLEAN]
  /\ intent = [ch \in Chans |-> IF ch \in InitialChans THEN "on" ELSE "none"]
  /\ byForm = {}
  /\ overlap = FALSE
  /\ restarts = 0

(***************************************************************************)
(* reload_channels: list_all, then store.                                  *)
(***************************************************************************)
StartReload(w) ==
  /\ job' = [job EXCEPT ![w] = [pc |-> "list", view |-> {}]]
  /\ overlap' = \E v \in Writers \ {w} : job[v].pc # "idle"

NoReload == UNCHANGED <<job, overlap>>
NoWrite  == UNCHANGED <<db, byForm, job, overlap>>

ListAll(w) ==
  /\ job[w].pc = "list"
  /\ job' = [job EXCEPT ![w] = [pc |-> "publish", view |-> Routable(db)]]
  /\ UNCHANGED <<db, snapshot, queue, streaks, retest, request, good, intent, byForm, overlap, restarts>>

\* Mutant: the reload forgets to publish what it read.
PublishNothing(w) ==
  /\ job[w].pc = "publish"
  /\ job' = [job EXCEPT ![w] = Idle]
  /\ UNCHANGED <<db, snapshot, queue, streaks, retest, request, good, intent, byForm, overlap, restarts>>

Publish(w) ==
  /\ job[w].pc = "publish"
  /\ snapshot' = job[w].view
  /\ job' = [job EXCEPT ![w] = Idle]
  /\ UNCHANGED <<db, queue, streaks, retest, request, good, intent, byForm, overlap, restarts>>

(***************************************************************************)
(* Administrators                                                          *)
(***************************************************************************)
Decide(ch, enabled) ==
  intent' = [intent EXCEPT ![ch] = IF enabled THEN "on" ELSE "off"]

\* Mutant: set_enabled leaves the auto_disabled mark alone.
ToggleKeepsAuto(a, ch, enabled) ==
  /\ "toggle" \in AdminOps
  /\ job[a].pc = "idle" /\ db[ch].status = "live"
  /\ db' = [db EXCEPT ![ch].enabled = enabled]
  /\ Decide(ch, enabled)
  /\ StartReload(a)
  /\ byForm' = byForm \ {ch}
  /\ UNCHANGED <<snapshot, queue, streaks, retest, request, good, restarts>>

\* set_enabled, set_enabled_many: an explicit decision, either way, takes the
\* channel out of the retest loop's hands.
Toggle(a, ch, enabled) ==
  /\ "toggle" \in AdminOps
  /\ job[a].pc = "idle" /\ db[ch].status = "live"
  /\ db' = [db EXCEPT ![ch] = Live(enabled, FALSE)]
  /\ Decide(ch, enabled)
  /\ StartReload(a)
  /\ byForm' = byForm \ {ch}
  /\ UNCHANGED <<snapshot, queue, streaks, retest, request, good, restarts>>

\* ChannelRepo::update writes `enabled` with the rest of the form; the column
\* auto_disabled is not in the statement.
Update(a, ch, enabled) ==
  /\ "update" \in AdminOps
  /\ job[a].pc = "idle" /\ db[ch].status = "live"
  /\ db' = [db EXCEPT ![ch].enabled = enabled]
  /\ Decide(ch, enabled)
  /\ StartReload(a)
  /\ byForm' = byForm \cup {ch}
  /\ UNCHANGED <<snapshot, queue, streaks, retest, request, good, restarts>>

Delete(a, ch) ==
  /\ "delete" \in AdminOps
  /\ job[a].pc = "idle" /\ db[ch].status = "live"
  /\ db' = [db EXCEPT ![ch] = Deleted]
  /\ intent' = [intent EXCEPT ![ch] = "none"]
  /\ byForm' = byForm \ {ch}
  /\ StartReload(a)
  /\ UNCHANGED <<snapshot, queue, streaks, retest, request, good, restarts>>

\* create_channel (any state the form has) and duplicate_channel (disabled).
Create(a, ch, enabled) ==
  /\ "create" \in AdminOps
  /\ job[a].pc = "idle" /\ db[ch].status = "new"
  /\ db' = [db EXCEPT ![ch] = Live(enabled, FALSE)]
  /\ Decide(ch, enabled)
  /\ StartReload(a)
  /\ byForm' = byForm \ {ch}
  /\ UNCHANGED <<snapshot, queue, streaks, retest, request, good, restarts>>

\* import_document in replace mode: channels are replaced in a transaction of
\* their own; if replacing the keys then fails, the handler returns at once
\* and the snapshot is not reloaded.
ImportReplace(a, incoming, keysFail) ==
  /\ (IF keysFail THEN "import_fail" ELSE "import") \in AdminOps
  /\ job[a].pc = "idle"
  /\ \A ch \in incoming : db[ch].status = "new"
  /\ db' = [ch \in Chans |-> IF ch \in incoming THEN Live(TRUE, FALSE)
                             ELSE IF db[ch].status = "live" THEN Deleted
                             ELSE db[ch]]
  /\ intent' = [ch \in Chans |-> IF ch \in incoming THEN "on" ELSE "none"]
  /\ byForm' = {}
  /\ IF keysFail THEN NoReload ELSE StartReload(a)
  /\ UNCHANGED <<snapshot, queue, streaks, retest, request, good, restarts>>

(***************************************************************************)
(* Gateway requests                                                        *)
(***************************************************************************)
StartRequest(r, ep) ==
  /\ request[r] = None
  /\ ChannelOf[ep] \in snapshot
  /\ request' = [request EXCEPT ![r] = ep]
  /\ UNCHANGED <<db, snapshot, job, queue, streaks, retest, good, intent, byForm, overlap, restarts>>

\* The executor reports how the call ended: a verdict on the credentials, or a
\* failure of another kind that says nothing about them.
FinishRequest(r, verdict) ==
  /\ request[r] # None
  /\ Len(queue) < MaxQueue
  /\ LET kind == IF ~verdict THEN "other"
                 ELSE IF good[request[r]] THEN "success" ELSE "auth"
     IN  queue' = Append(queue, [kind |-> kind, ep |-> request[r]])
  /\ request' = [request EXCEPT ![r] = None]
  /\ UNCHANGED <<db, snapshot, job, streaks, retest, good, intent, byForm, overlap, restarts>>

(***************************************************************************)
(* EventWorker::handle                                                     *)
(***************************************************************************)
\* Mutant: the row is disabled without the mark the retest loop looks for.
DisableUnmarked(ch) ==
  IF db[ch].status = "live"
  THEN /\ db' = [db EXCEPT ![ch] = Live(FALSE, FALSE)]
       /\ byForm' = byForm \ {ch}
       /\ StartReload(Worker)
  ELSE NoWrite

\* set_auto_disabled: whatever the row says, as long as there is one.
AutoDisable(ch) ==
  IF db[ch].status = "live"
  THEN /\ db' = [db EXCEPT ![ch] = Live(FALSE, TRUE)]
       /\ byForm' = byForm \ {ch}
       /\ StartReload(Worker)
  ELSE NoWrite

\* Mutant: the worker counts without ever acting.
CountAuthFailureOnly(ep) ==
  /\ streaks' = [streaks EXCEPT ![ep] = IF @ < AuthDisableThreshold THEN @ + 1 ELSE @]
  /\ NoWrite

\* Mutant: the counter is not reset when the channel is disabled.
CountWithoutReset(ep) ==
  /\ streaks' = [streaks EXCEPT ![ep] = @ + 1]
  /\ IF streaks'[ep] >= AuthDisableThreshold
     THEN AutoDisable(ChannelOf[ep])
     ELSE NoWrite

CountAuthFailure(ep) ==
  IF streaks[ep] + 1 >= AuthDisableThreshold
  THEN /\ streaks' = [streaks EXCEPT ![ep] = 0]
       /\ AutoDisable(ChannelOf[ep])
  ELSE /\ streaks' = [streaks EXCEPT ![ep] = @ + 1]
       /\ NoWrite

\* One event, handled to the end before the next is received.
Handle ==
  /\ queue # <<>>
  /\ job[Worker].pc = "idle"
  /\ queue' = Tail(queue)
  /\ LET ev == Head(queue)
     IN  CASE ev.kind = "auth"    -> CountAuthFailure(ev.ep)
           [] ev.kind = "success" -> /\ streaks' = [streaks EXCEPT ![ev.ep] = 0]
                                     /\ NoWrite
           [] ev.kind = "other"   -> UNCHANGED streaks /\ NoWrite
  /\ UNCHANGED <<snapshot, retest, request, good, intent, restarts>>

(***************************************************************************)
(* auto_retest_loop                                                        *)
(***************************************************************************)
AutoDisabled == {ch \in Chans : db[ch].status = "live" /\ db[ch].auto}

RetestList ==
  /\ retest = [todo |-> {}, passed |-> None]
  /\ job[Retester].pc = "idle"
  /\ AutoDisabled # {}
  /\ retest' = [retest EXCEPT !.todo = AutoDisabled]
  /\ UNCHANGED <<db, snapshot, job, queue, streaks, request, good, intent, byForm, overlap, restarts>>

\* run_channel_test: a real request to one endpoint of the channel.
RetestProbe(ch) ==
  /\ ch \in retest.todo /\ retest.passed = None
  /\ job[Retester].pc = "idle"
  /\ retest' = [todo |-> retest.todo \ {ch}, passed |-> IF good[TestEndpoint[ch]] THEN ch ELSE None]
  /\ UNCHANGED <<db, snapshot, job, queue, streaks, request, good, intent, byForm, overlap, restarts>>

\* Mutant: restore_auto_disabled without its WHERE auto_disabled = 1.
RestoreAnything ==
  /\ retest.passed # None
  /\ retest' = [retest EXCEPT !.passed = None]
  /\ db' = [db EXCEPT ![retest.passed] = IF @.status = "live" THEN Live(TRUE, FALSE) ELSE @]
  /\ byForm' = byForm \ {retest.passed}
  /\ StartReload(Retester)
  /\ UNCHANGED <<snapshot, queue, streaks, request, good, intent, restarts>>

\* restore_auto_disabled: only a row that is still auto_disabled.
RetestRestore ==
  /\ retest.passed # None
  /\ retest' = [retest EXCEPT !.passed = None]
  /\ IF retest.passed \in AutoDisabled
     THEN /\ db' = [db EXCEPT ![retest.passed] = Live(TRUE, FALSE)]
          /\ byForm' = byForm \ {retest.passed}
          /\ StartReload(Retester)
     ELSE NoWrite
  /\ UNCHANGED <<snapshot, queue, streaks, request, good, intent, restarts>>

(***************************************************************************)
(* The environment                                                         *)
(***************************************************************************)
CredentialsChange(ep) ==
  /\ good' = [good EXCEPT ![ep] = ~@]
  /\ UNCHANGED <<db, snapshot, job, queue, streaks, retest, request, intent, byForm, overlap, restarts>>

\* The process restarts: everything but the table and the upstreams is gone,
\* and bootstrap loads the snapshot.
Restart ==
  /\ restarts < MaxRestarts
  /\ restarts' = restarts + 1
  /\ snapshot' = Routable(db)
  /\ job' = [w \in Writers |-> Idle]
  /\ queue' = <<>>
  /\ streaks' = [ep \in Endpoints |-> 0]
  /\ retest' = [todo |-> {}, passed |-> None]
  /\ request' = [r \in Requests |-> None]
  /\ overlap' = FALSE
  /\ UNCHANGED <<db, good, intent, byForm>>

AdminStep(a) ==
  \/ \E ch \in Chans, enabled \in BOOLEAN :
       Toggle(a, ch, enabled) \/ Update(a, ch, enabled) \/ Create(a, ch, enabled)
  \/ \E ch \in Chans : Delete(a, ch)
  \/ \E incoming \in SUBSET Chans, keysFail \in BOOLEAN :
       ImportReplace(a, incoming, keysFail)

Next ==
  \/ \E a \in Admins : AdminStep(a)
  \/ \E w \in Writers : ListAll(w) \/ Publish(w)
  \/ \E r \in Requests :
       \/ \E ep \in Endpoints : StartRequest(r, ep)
       \/ \E verdict \in BOOLEAN : FinishRequest(r, verdict)
  \/ Handle
  \/ RetestList
  \/ \E ch \in Chans : RetestProbe(ch)
  \/ RetestRestore
  \/ \E ep \in Endpoints : CredentialsChange(ep)
  \/ Restart

Spec == Init /\ [][Next]_vars

(***************************************************************************)
(* Fairness: the runtime schedules the worker, the retest loop and started *)
(* reloads; a call to an upstream ends (it has a timeout).  That requests  *)
(* keep arriving at an endpoint, and that some of them end in a verdict on *)
(* its credentials, is an assumption about the traffic.                    *)
(***************************************************************************)
Scheduling ==
  /\ \A w \in Writers : WF_vars(ListAll(w)) /\ WF_vars(Publish(w))
  /\ WF_vars(Handle)
  /\ WF_vars(RetestList)
  /\ \A ch \in Chans : SF_vars(RetestProbe(ch))
  /\ WF_vars(RetestRestore)

Traffic ==
  \A r \in Requests :
    /\ \A ep \in Endpoints : SF_vars(StartRequest(r, ep))
    /\ SF_vars(FinishRequest(r, TRUE))

FairSpec == Spec /\ Scheduling /\ Traffic

-----------------------------------------------------------------------------
Event == [kind : {"auth", "success", "other"}, ep : Endpoints]

\* Types; a streak that reaches the threshold has been acted on and reset.
TypeOK ==
  /\ db \in [Chans -> [status : {"new", "live", "deleted"}, enabled : BOOLEAN, auto : BOOLEAN]]
  /\ snapshot \subseteq Chans
  /\ job \in [Writers -> [pc : {"idle", "list", "publish"}, view : SUBSET Chans]]
  /\ queue \in Seq(Event) /\ Len(queue) <= MaxQueue
  /\ streaks \in [Endpoints -> 0..(AuthDisableThreshold - 1)]
  /\ retest \in [todo : SUBSET Chans, passed : Chans \cup {None}]
  /\ request \in [Requests -> Endpoints \cup {None}]
  /\ good \in [Endpoints -> BOOLEAN]
  /\ intent \in [Chans -> {"on", "off", "none"}]
  /\ byForm \subseteq Chans /\ overlap \in BOOLEAN
  /\ restarts \in 0..MaxRestarts

\* The retest loop leaves manual decisions alone (notify.rs: "only channels
\* that are auto_disabled are retested; a manual disable is the user's explicit
\* decision"): a channel whose last explicit decision was "off" stays off
\* until an administrator says otherwise.
ManualDisableRespected ==
  [][\A ch \in Chans :
       (intent[ch] = "off" /\ intent'[ch] = "off" /\ ~db[ch].enabled)
         => ~db'[ch].enabled]_vars

\* Only a row the worker disabled comes back by itself: a probe that passed
\* before an administrator took the channel over restores nothing.
RestoresOnlyAutoDisabled ==
  [][\A ch \in Chans :
       (~db[ch].enabled /\ db'[ch].enabled /\ intent'[ch] = intent[ch]
          /\ intent[ch] = "off")
         => db[ch].auto]_vars

\* A channel is not both enabled and marked for the retest loop, unless the
\* edit form (which leaves the mark alone) switched it.
EnabledNotAuto ==
  \A ch \in Chans \ byForm : db[ch].enabled => ~db[ch].auto

\* The mark of the worker decides what comes back by itself: it stands on no
\* channel that is enabled, and the retest loop enables none without it.
MarksDecide == []EnabledNotAuto /\ RestoresOnlyAutoDisabled

Quiet == \A w \in Writers : job[w].pc = "idle"

\* Every write is followed by a reload (commit_channels): once no writer is
\* in the middle of one, routing sees the table; provided the last reload did
\* not begin during another, which may publish an older table after it.
SnapshotFresh == (Quiet /\ ~overlap) => snapshot = Routable(db)

EndpointsOf(ch) == {ep \in Endpoints : ChannelOf[ep] = ch}

\* A channel whose credentials are dead for good on every endpoint leaves
\* routing, however other failures and the retest loop interleave.
DeadChannelLeavesRouting ==
  \A ch \in Chans :
    <>[](\A ep \in EndpointsOf(ch) : ~good[ep]) => <>[](ch \notin snapshot)

\* A channel the worker disabled comes back once its endpoints work for good,
\* even with failure events of the bad times still queued.
RecoveredChannelReturns ==
  \A ch \in Chans :
    <>[](\A ep \in EndpointsOf(ch) : good[ep])
      => <>[](db[ch].status = "live" => db[ch].enabled)

\* Self-healing as a whole: dead channels leave routing, recovered ones return.
ChannelsSelfHeal == DeadChannelLeavesRouting /\ RecoveredChannelReturns
=============================================================================

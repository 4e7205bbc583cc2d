------------------------------ MODULE Dispatch ------------------------------
(***************************************************************************)
(* What happens to a request once it is admitted: the channels it may use  *)
(* are read, its session is looked up, the route is planned and pinned,    *)
(* the executor walks it, and the session's binding is settled.            *)
(*                                                                         *)
(* Three routes share this: "json" (dispatch), "pass" (the pass-through    *)
(* endpoints, which keep native candidates and resolve after planning) and *)
(* "realtime" (native chat, no session).  The snapshot of the channels,    *)
(* the planner, the affinity engine and its settings are shared and may    *)
(* change between any two steps of a request.                              *)
(***************************************************************************)
EXTENDS Planner, Affinity

CONSTANTS
  Handlers,        (* the requests that are under way                       *)
  Scenarios        (* what may vary in a behaviour: one is chosen in Init   *)

\* A scenario is [limits, models, tables, settings, policies, shapes, calls,
\* changes].  Its tables hold channels that were validated when they were saved;
\* what administrators set as max_entries is a number.
ASSUME ScenarioAssumption ==
  \A sc \in Scenarios :
    /\ sc.calls \in Nat /\ sc.changes \in Nat
    /\ \A t \in sc.tables : t \in Seq(ToSet(t)) /\ \A ch \in ToSet(t) : ValidChannel(ch)
    /\ \A s \in sc.settings : "max" \in DOMAIN s /\ s.max \in Nat
    /\ \A p \in sc.policies : /\ p.nativeFirst \in BOOLEAN
                              /\ p.selection \in {"first", "weighted", "round_robin"}
    /\ \A call \in sc.shapes : call.model \in sc.models

VARIABLES
  scene,     (* the scenario: its fields bound what the environment does    *)
  table,     (* AppState.channels                                           *)
  policy,    (* the planner's policy                                        *)
  cursors,   (* the round-robin cursors, by model                           *)
  settings,  (* the affinity settings in force                              *)
  cache,     (* the engine's bindings                                       *)
  handling,  (* the requests                                                *)
  turns,     (* history: for a model the top tiers planned and their leads  *)
  roomiest,  (* history: the largest max_entries that was in force          *)
  changes, calls   (* bounded by the scenario                               *)

dispatchVars == <<scene, table, policy, cursors, settings, cache, handling,
                  turns, roomiest, changes, calls>>

shared  == <<table, policy, settings>>
bounded == <<scene, roomiest, changes, calls>>

Idle == [pc |-> "idle", call |-> <<>>, channels |-> <<>>, body |-> FALSE,
         decision |-> NoDecision, plan |-> <<>>, only |-> FALSE,
         served |-> NoChannel, verdict |-> <<>>]

Set(h, q) == handling' = [handling EXCEPT ![h] = q]

DispatchInit ==
  /\ scene \in Scenarios
  /\ table \in scene.tables
  /\ policy \in scene.policies
  /\ settings \in {Loaded(s) : s \in {t \in scene.settings : ValidSettings(t)}}
  /\ cursors = [m \in scene.models |-> 0]
  /\ cache = EmptyCache
  /\ handling = [h \in Handlers |-> Idle]
  /\ turns = [m \in scene.models |-> <<>>]
  /\ roomiest = settings.max
  /\ changes = 0
  /\ calls = 0

-----------------------------------------------------------------------------
(***************************************************************************)
(* Routing                                                                 *)
(***************************************************************************)
\* A call is [principal, model, inbound, route, stream, values].
AllowsModel(principal, model) == principal.models = {} \/ model \in principal.models

Begin(h, call) ==
  /\ handling[h].pc = "idle" /\ calls < scene.calls
  /\ AllowsModel(call.principal, call.model)
  /\ calls' = calls + 1
  /\ Set(h, [Idle EXCEPT !.pc = "read", !.call = call])
  /\ UNCHANGED <<scene, table, policy, cursors, settings, cache, turns, roomiest, changes>>

\* channels_for and allows_channel: from here on the request has its own copy.
ReadChannels(h) ==
  /\ handling[h].pc = "read"
  /\ LET q == handling[h]
         usable == {i \in DOMAIN table : Allowed(q.call.principal, table[i])}
     IN  Set(h, [q EXCEPT !.channels = Picked(table, usable),
                          !.pc = IF q.call.route = "json" THEN "ask" ELSE "plan"])
  /\ UNCHANGED <<shared, bounded, cursors, cache, turns>>

\* is_active and needs_body: the body is parsed when a rule wants it now.
AskAffinity(h) ==
  /\ handling[h].pc = "ask"
  /\ LET q    == handling[h]
         next == IF q.call.route = "json" THEN "plan" ELSE "pin"
     IN  Set(h, IF IsActive(settings)
                THEN [q EXCEPT !.body = NeedsBody(settings), !.pc = "resolve"]
                ELSE [q EXCEPT !.pc = next])
  /\ UNCHANGED <<shared, bounded, cursors, cache, turns>>

\* The context of a request: the value of the body is there only if it was parsed.
ContextOf(q) ==
  [model |-> q.call.model, path |-> q.call.inbound,
   values |-> IF q.body THEN q.call.values ELSE [q.call.values EXCEPT !["body"] = NoValue]]

ResolveAffinity(h) ==
  /\ handling[h].pc = "resolve"
  /\ LET q   == handling[h]
         res == Resolve(cache, settings, ContextOf(q))
     IN  /\ cache' = res.cache
         /\ Set(h, [q EXCEPT !.decision = res.decision,
                             !.pc = IF q.call.route = "json" THEN "plan" ELSE "pin"])
  /\ UNCHANGED <<shared, bounded, cursors, turns>>

\* Mutant: a tier takes a turn, so a request with two tiers takes two.
CursorPerTier(cursor, tiers) == cursor + tiers

\* A request takes one turn of its model, however many tiers it has.
CursorAfter(cursor, tiers) == cursor + 1

\* RoutePlanner::plan.  The pass-through and realtime routes then keep what is
\* native: a candidate that speaks the inbound protocol.
PlanRoute(h) ==
  /\ handling[h].pc = "plan"
  /\ LET q     == handling[h]
         m     == q.call.model
         cands == Collect(q.channels, m, q.call.inbound)
         turn  == policy.selection = "round_robin" /\ cands # <<>>
         ranked == Ranked(cands, policy)
         tier  == [i \in DOMAIN ranked |-> TierOf(ranked, policy.nativeFirst, i)]
     IN  \E order \in Orders(cands, policy, cursors[m]) :
           LET kept == IF q.call.route = "json" THEN order
                       ELSE NativeOnly(order, q.call.inbound)
           IN  /\ cursors' = IF turn
                             THEN [cursors EXCEPT ![m] = CursorAfter(@, Cardinality(Range(tier)))]
                             ELSE cursors
               /\ turns' = IF turn
                           THEN [turns EXCEPT ![m] =
                                   Append(@, [lead |-> order[1].channel,
                                              tier |-> [i \in tier[1] |-> ranked[i].channel]])]
                           ELSE turns
               /\ Set(h, [q EXCEPT !.plan = kept,
                                   !.pc = IF q.call.route = "pass" THEN "ask" ELSE "pin"])
  /\ UNCHANGED <<shared, bounded, cache>>

Pinned(q) == q.decision.binding # NoChannel

PinRoute(h) ==
  /\ handling[h].pc = "pin"
  /\ LET q == handling[h]
         b == q.decision.binding
     IN  Set(h, [q EXCEPT !.plan = IF Pinned(q) THEN PinChannel(@, b) ELSE @,
                          !.pc = IF Pinned(q) /\ ~HasChannel(q.plan, b)
                                 THEN "drop" ELSE "planned"])
  /\ UNCHANGED <<shared, bounded, cursors, cache, turns>>

\* Where a channel stands in the table now.
InTable(b) == {i \in DOMAIN table : table[i].id = b}

\* drop_affinity_binding: the bound channel cannot serve this request.
DropBinding(h) ==
  /\ handling[h].pc = "drop"
  /\ LET q    == handling[h]
         off  == \E i \in InTable(q.decision.binding) : ~table[i].enabled
         gone == InTable(q.decision.binding) = {}
     IN  /\ cache' = IF gone \/ (off /\ ~settings.keep)
                     THEN Forget(cache, q.decision.key) ELSE cache
         /\ Set(h, [q EXCEPT !.pc = "planned"])
  /\ UNCHANGED <<shared, bounded, cursors, turns>>

-----------------------------------------------------------------------------
(***************************************************************************)
(* Execution                                                               *)
(***************************************************************************)
\* The fixed answer of the routes that keep native candidates only.
NoNativeEndpoint == [verdict |-> "NoNativeEndpoint", available |-> {}]

\* An empty plan is answered at once, and the binding is left as it is.  A
\* binding whose rule is final keeps the head of the plan only.
Execute(h) ==
  /\ handling[h].pc = "planned"
  /\ LET q    == handling[h]
         only == Pinned(q) /\ q.decision.skip
     IN  Set(h, IF q.plan = <<>>
                THEN [q EXCEPT !.pc = "done",
                               !.verdict = IF q.call.route = "json"
                                           THEN Diagnose(q.channels, q.call.model, q.call.inbound)
                                           ELSE NoNativeEndpoint]
                ELSE [q EXCEPT !.pc = "calling", !.only = only,
                               !.plan = IF only THEN PinnedOnly(q.plan) ELSE q.plan])
  /\ UNCHANGED <<shared, bounded, cursors, cache, turns>>

\* The executor succeeded with a candidate of the plan.  A stream is bound when
\* it begins; a realtime session has no decision, and ends on its own.
Succeed(h, channel) ==
  /\ handling[h].pc = "calling" /\ HasChannel(handling[h].plan, channel)
  /\ LET q == handling[h]
     IN  /\ cache' = IF q.decision.matched
                     THEN Record(cache, settings, q.decision, channel) ELSE cache
         /\ Set(h, [q EXCEPT !.served = channel,
                             !.pc = IF q.call.stream THEN "streaming" ELSE "done"])
  /\ UNCHANGED <<shared, bounded, cursors, turns>>

\* settle_affinity_on_failure
Fail(h) ==
  /\ handling[h].pc = "calling"
  /\ LET q == handling[h]
     IN  /\ cache' = IF q.decision.matched /\ ~q.decision.skip
                     THEN Forget(cache, q.decision.key) ELSE cache
         /\ Set(h, [q EXCEPT !.pc = "done"])
  /\ UNCHANGED <<shared, bounded, cursors, turns>>

\* The end of a stream: an error of the upstream unbinds the channel it came from.
EndStream(h, broken) ==
  /\ handling[h].pc = "streaming"
  /\ LET q == handling[h]
     IN  /\ cache' = IF broken /\ q.decision.matched /\ ~q.decision.skip
                     THEN ForgetIfBoundTo(cache, q.decision.key, q.served) ELSE cache
         /\ Set(h, [q EXCEPT !.pc = "done"])
  /\ UNCHANGED <<shared, bounded, cursors, turns>>

\* The answer is out; the record of the request is gone.
Leave(h) ==
  /\ handling[h].pc = "done"
  /\ Set(h, Idle)
  /\ UNCHANGED <<shared, bounded, cursors, cache, turns>>

Handle(h) ==
  \/ ReadChannels(h) \/ AskAffinity(h) \/ ResolveAffinity(h)
  \/ PlanRoute(h) \/ PinRoute(h) \/ DropBinding(h) \/ Execute(h)
  \/ \E i \in DOMAIN handling[h].plan : Succeed(h, handling[h].plan[i].channel)
  \/ Fail(h)
  \/ \E broken \in BOOLEAN : EndStream(h, broken)

-----------------------------------------------------------------------------
(***************************************************************************)
(* Administration and time                                                 *)
(***************************************************************************)
Change == changes < scene.changes /\ changes' = changes + 1

\* reload_channels, after any change of the channels.
ChangeTable(t) ==
  /\ Change /\ table' = t /\ t # table
  /\ turns' = [m \in DOMAIN turns |-> <<>>]
  /\ UNCHANGED <<scene, policy, cursors, settings, cache, handling, roomiest, calls>>

\* reload_policy: a new planner with the cursors of the old one.
ChangePolicy(p) ==
  /\ Change /\ policy' = p /\ p # policy
  /\ turns' = [m \in DOMAIN turns |-> <<>>]
  /\ UNCHANGED <<scene, table, cursors, settings, cache, handling, roomiest, calls>>

\* reload_affinity: the bindings stay.
ChangeSettings(s) ==
  /\ Change /\ ValidSettings(s) /\ settings' = Loaded(s) /\ Loaded(s) # settings
  /\ roomiest' = IF s.max > roomiest THEN s.max ELSE roomiest
  /\ UNCHANGED <<scene, table, policy, cursors, cache, handling, turns, calls>>

\* DELETE /affinity/cache, and the sweep of GET /affinity/stats.
ClearBindings ==
  /\ Change /\ cache' = EmptyCache /\ cache # EmptyCache
  /\ UNCHANGED <<scene, shared, cursors, handling, turns, roomiest, calls>>

SweepBindings ==
  /\ Change /\ cache' = Swept(cache) /\ Expired(cache) # {}
  /\ UNCHANGED <<scene, shared, cursors, handling, turns, roomiest, calls>>

Expire(key) ==
  /\ Change /\ key \in KeysOf(cache) \ Expired(cache)
  /\ cache' = Lapse(cache, key)
  /\ UNCHANGED <<scene, shared, cursors, handling, turns, roomiest, calls>>

Administer ==
  \/ \E t \in scene.tables : ChangeTable(t)
  \/ \E p \in scene.policies : ChangePolicy(p)
  \/ \E s \in scene.settings : ChangeSettings(s)
  \/ ClearBindings
  \/ SweepBindings
  \/ \E key \in KeysOf(cache) : Expire(key)

DispatchNext ==
  \/ \E h \in Handlers :
       \/ \E call \in scene.shapes : Begin(h, call)
       \/ Handle(h)
       \/ Leave(h)
  \/ Administer

DispatchSpec == DispatchInit /\ [][DispatchNext]_dispatchVars

-----------------------------------------------------------------------------
(***************************************************************************)
(* Properties                                                              *)
(***************************************************************************)
Steps == {"idle", "read", "ask", "resolve", "plan", "pin", "drop", "planned",
          "calling", "streaming", "done"}

\* Types; the recency list and the entries of the cache name the same keys.
DispatchTypeOK ==
  /\ \A h \in Handlers : handling[h].pc \in Steps
  /\ \A m \in DOMAIN cursors : cursors[m] \in Nat
  /\ ToSet(cache.recent) = KeysOf(cache)
  /\ Len(cache.recent) = Cardinality(KeysOf(cache))

\* What may serve a request, said without the planner: endpoints of channels the
\* caller may see, switched on, with the model, reached natively or by a
\* transcoding that was ticked.
Serving(q) ==
  {ce \in UNION {{ch} \X ToSet(ch.endpoints) : ch \in ToSet(q.channels)} :
     LET ch == ce[1]
         e  == ce[2]
     IN  /\ ch.enabled /\ e.enabled /\ q.call.model \in e.models
         /\ ch.visibility = "shared" \/ ch.user = q.call.principal.user
         /\ \/ e.protocol = q.call.inbound
            \/ q.call.route = "json" /\ e.transcode /\ q.call.inbound \in e.accepted}

SoundPlan(q, pol) ==
  LET plan == q.plan
      Of(c) == {ce[2] : ce \in {x \in Serving(q) : x[1].id = c.channel}}
  IN  /\ \A i \in DOMAIN plan :
            \E e \in Of(plan[i]) : e.protocol = plan[i].protocol
      /\ \A ce \in Serving(q) : HasChannel(plan, ce[1].id)
      /\ \A i, j \in DOMAIN plan : i < j /\ ~pol.retrySame => plan[i].channel # plan[j].channel
      /\ ~pol.retrySame =>
           \A i \in DOMAIN plan : plan[i].native \/
             \A e \in Of(plan[i]) : e.protocol # q.call.inbound /\ plan[i].order <= e.order
      /\ \A i, j \in DOMAIN plan : i < j =>
           \/ pol.nativeFirst /\ plan[i].native /\ ~plan[j].native
           \/ /\ pol.nativeFirst => plan[i].native = plan[j].native
              /\ plan[i].priority >= plan[j].priority

\* plan.rs: collect, order and the native filter of the gateway together.  A
\* plan holds nothing the caller may not use, leaves out no channel that could
\* serve, speaks to each channel natively where it can, and goes down by tiers.
PlanIsSound ==
  [][\A h \in Handlers :
       (handling[h].pc = "plan" /\ handling'[h].pc # "plan") => SoundPlan(handling'[h], policy)
    ]_dispatchVars

\* plan.rs: the cursor moves once for a request, not once for a tier, "or a tier
\* whose size divides the number of tiers would stop at one candidate for ever".
\* Of n consecutive requests for a model whose top tier holds the same n channels
\* in the same order, each channel is the first one's turn.
RoundRobinShares ==
  \A m \in DOMAIN turns :
    LET tier  == IF turns[m] = <<>> THEN <<>> ELSE Last(turns[m]).tier
        since == Len(turns[m]) - Len(tier)
        last  == {i \in DOMAIN turns[m] : i > since}
    IN  (since >= 0 /\ \A i \in last : turns[m][i].tier = tier)
          => {turns[m][i].lead : i \in last} = ToSet(tier)

\* gateway.rs: an error must tell how to change the configuration.  A request
\* without a route is never told that its model is routable, is told that the
\* model is unknown only if it is not listed for it, and every protocol it is
\* told to use instead has a route.
EmptyRouteIsExplained ==
  \A h \in Handlers :
    LET q == handling[h]
        listed == q.call.model \in VisibleModels(q.channels)
    IN  (q.verdict \notin {<<>>, NoNativeEndpoint}) =>
          /\ q.verdict.verdict # "Routable"
          /\ q.verdict.verdict = "UnknownModel" <=> ~listed
          /\ \A p \in q.verdict.available : Collect(q.channels, q.call.model, p) # <<>>
          /\ listed => q.verdict.available # {}

\* The planner as a whole: sound plans, fair turns, and a true explanation of
\* an empty plan, under tables and policies that change meanwhile.
RoutesAreSound == PlanIsSound /\ []RoundRobinShares /\ []EmptyRouteIsExplained

\* affinity.rs, switch_on_success: as long as it is off, a session that is bound
\* is not bound to another channel, whatever requests of it end in what order.
BindingNeverSwitches ==
  [][~settings.switch =>
       \A key \in KeysOf(cache) \cap KeysOf(cache)' :
         cache'.entries[key].channel = cache.entries[key].channel]_dispatchVars

\* affinity.rs, max_entries: the cache never holds more than the largest
\* capacity that was in force.
CapacityRespected == Cardinality(KeysOf(cache)) <= roomiest

\* gateway.rs, skip_retry_on_failure: "the binding is a promise": a request that
\* was pinned under such a rule is served by its channel or by none.
PromiseIsKept ==
  \A h \in Handlers :
    LET q == handling[h]
    IN  (q.decision.skip /\ Pinned(q) /\ HasChannel(q.plan, q.decision.binding))
          => q.served \in {NoChannel, q.decision.binding}

\* The affinity of sessions as a whole: bound within the capacity, never moved
\* while switching is off, and binding where the rule makes it final.
BindingsHold == []CapacityRespected /\ BindingNeverSwitches /\ []PromiseIsKept

\* gateway.rs, drop_affinity_binding: a channel that exists and is enabled, and
\* could not serve this request for its model or protocol, stays bound, "so the
\* session returns to it with another model".  The failure of the request, at
\* channels that are not the bound one, leaves that binding alone.
AbsentBindingKept ==
  [][\A h \in Handlers :
       LET q == handling[h]
           b == q.decision.binding
       IN  ( /\ q.pc = "calling" /\ handling'[h].pc = "done" /\ handling'[h].served = NoChannel
             /\ Pinned(q) /\ ~HasChannel(q.plan, b)
             /\ \E i \in InTable(b) : table[i].enabled
             /\ q.decision.key \in KeysOf(cache) )
           => q.decision.key \in KeysOf(cache)']_dispatchVars
=============================================================================

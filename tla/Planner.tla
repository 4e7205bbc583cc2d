------------------------------ MODULE Planner ------------------------------
(***************************************************************************)
(* The route planner as operators: which endpoints can serve a request, in *)
(* which order they are tried, and what a client is told when none can.    *)
(*                                                                         *)
(* Channels come as a sequence, in the order of the snapshot.  A channel   *)
(* and an endpoint are records of the fields that routing reads.  Where    *)
(* the code draws at random an operator returns the set of the outcomes.   *)
(***************************************************************************)
EXTENDS Integers, Sequences, FiniteSets, FiniteSetsExt, SequencesExt, TLC

Protocols == {"chat", "messages", "responses", "gemini"}

\* TranscodePolicy::can_serve: the native protocol always, another one when
\* transcoding is on and the protocol is ticked.
CanServe(endpoint, inbound) ==
  inbound = endpoint.protocol \/ (endpoint.transcode /\ inbound \in endpoint.accepted)

\* Channel::validate, as far as routing rests on it: a channel has endpoints,
\* one per protocol, a single-protocol channel exactly the one of its kind,
\* and no endpoint accepts its own protocol by transcoding.
ValidChannel(ch) ==
  /\ ch.id \in Nat /\ ch.priority \in Int /\ ch.weight \in Nat
  /\ ch.endpoints \in Seq(ToSet(ch.endpoints)) \ {<<>>}
  /\ ch.kind # "aggregate" => Len(ch.endpoints) = 1 /\ ch.endpoints[1].protocol = ch.kind
  /\ \A i, j \in DOMAIN ch.endpoints :
       i # j => ch.endpoints[i].protocol # ch.endpoints[j].protocol
  /\ \A e \in ToSet(ch.endpoints) : e.protocol \in Protocols \ e.accepted /\ e.order \in Nat

\* channels_for (shared channels and the user's own), then allows_channel (a
\* key restricted to tags reaches channels that bear one of them).
Allowed(principal, ch) ==
  /\ ch.visibility = "shared" \/ ch.user = principal.user
  /\ principal.tags = {} \/ ch.tags \cap principal.tags # {}

Offers(ch, e, model) == ch.enabled /\ e.enabled /\ model \in e.models

Candidate(ch, e, inbound) ==
  [channel |-> ch.id, protocol |-> e.protocol, native |-> inbound = e.protocol,
   priority |-> ch.priority, order |-> e.order, weight |-> ch.weight]

(***************************************************************************)
(* Orders.  Rust's sorts are stable: a key ends with the position, so no   *)
(* two are the same.                                                       *)
(***************************************************************************)
Flag(b) == IF b THEN 1 ELSE 0

Before(a, b) == \* lexicographic order of two tuples of the same length
  \E i \in DOMAIN a : a[i] < b[i] /\ \A j \in 1..(i - 1) : a[j] = b[j]

\* The members of a finite set, the one with the least key first.
InOrder(S, key) ==
  LET Place(x) == Cardinality({y \in S : Before(key[y], key[x])}) + 1
  IN  [n \in 1..Cardinality(S) |-> CHOOSE x \in S : Place(x) = n]

Sorted(s, key) ==
  LET at == InOrder(DOMAIN s, key)
  IN  IF s = <<>> THEN s ELSE [n \in DOMAIN s |-> s[at[n]]]

\* What a sequence has at some of its places.
Picked(s, places) ==
  LET at == InOrder(places, [i \in places |-> <<i>>])
  IN  IF s = <<>> THEN s ELSE [n \in DOMAIN at |-> s[at[n]]]

(***************************************************************************)
(* Candidates                                                              *)
(***************************************************************************)
\* Where an endpoint stands that can serve: <<channel, endpoint>>.
Fitting(channels, model, inbound) ==
  LET EndpointAt(p) == channels[p[1]].endpoints[p[2]]
  IN  {p \in UNION {{i} \X DOMAIN channels[i].endpoints : i \in DOMAIN channels} :
         Offers(channels[p[1]], EndpointAt(p), model) /\ CanServe(EndpointAt(p), inbound)}

\* collect: channel by channel, endpoint by endpoint.
Collect(channels, model, inbound) ==
  LET places == Fitting(channels, model, inbound)
      at     == InOrder(places, [p \in places |-> p])
  IN  [n \in DOMAIN at |->
         Candidate(channels[at[n][1]], channels[at[n][1]].endpoints[at[n][2]], inbound)]

\* RankKey::tier, the larger the better.
Tier(c, nativeFirst) == <<Flag(nativeFirst /\ c.native), c.priority, -c.order>>

SameTier(c, d, nativeFirst) ==
  \A k \in 1..2 : Tier(c, nativeFirst)[k] = Tier(d, nativeFirst)[k]

\* Mutant: the explicit order is compared before nativeness.
OrderedFirst(s) == Sorted(s, [i \in DOMAIN s |-> <<s[i].channel, s[i].order, Flag(~s[i].native), i>>])

\* Within a channel the native endpoint comes first, then the lowest order.
PreferredFirst(s) == Sorted(s, [i \in DOMAIN s |-> <<s[i].channel, Flag(~s[i].native), s[i].order, i>>])

\* dedup_by_key: of neighbours with the same channel the first one stays.
OnePerChannel(s) == Picked(s, {i \in DOMAIN s : i = 1 \/ s[i].channel # s[i - 1].channel})

ByTier(s, nativeFirst) ==
  LET tier == [i \in DOMAIN s |-> Tier(s[i], nativeFirst)]
  IN  Sorted(s, [i \in DOMAIN s |-> <<-tier[i][1], -tier[i][2], -tier[i][3], s[i].channel, i>>])

\* order, up to the arrangement of tiers.
Ranked(candidates, policy) ==
  LET preferred == PreferredFirst(candidates)
  IN  ByTier(IF policy.retrySame THEN preferred ELSE OnePerChannel(preferred), policy.nativeFirst)

(***************************************************************************)
(* Arrangement of the tiers                                                *)
(***************************************************************************)
\* The places of the tier i is in; they are neighbours in what is ranked.
TierOf(s, nativeFirst, i) == {j \in DOMAIN s : SameTier(s[j], s[i], nativeFirst)}

\* What stands at i after rotate_left of its tier.
Rotated(tier, i, seq) == Min(tier) + ((i - Min(tier) + seq) % Cardinality(tier))

Total(weights) == FoldLeft(+, 0, weights)

\* A weight of zero counts as one.
Effective(w) == IF w = 0 THEN 1 ELSE w

\* weighted_pick for one value of the random point: the first index whose
\* weights so far exceed it.
WeightedPick(weights, point) ==
  LET Within(i) == point < Total(SubSeq(weights, 1, i))
  IN  CHOOSE i \in DOMAIN weights : Within(i) /\ \A j \in 1..(i - 1) : ~Within(j)

\* The places of the pool some draw picks.
Drawn(s, pool) ==
  LET members == InOrder(pool, [i \in pool |-> <<i>>])
      weights == [n \in DOMAIN members |-> Effective(s[members[n]].weight)]
  IN  {i \in pool : \E point \in 0..(Total(weights) - 1) : members[WeightedPick(weights, point)] = i}

\* arrange_tier, for each tier: which place an attempt comes from.  By weight
\* it is drawn from those of its tier that are left; what swap_remove does to
\* the order of the rest changes no draw's possibilities.
Arrangements(s, policy, seq) ==
  LET tier == [i \in DOMAIN s |-> TierOf(s, policy.nativeFirst, i)]
      Left(p, i) == tier[i] \ {p[j] : j \in 1..(i - 1)}
  IN  CASE policy.selection = "first"       -> {[i \in DOMAIN s |-> i]}
        [] policy.selection = "round_robin" -> {[i \in DOMAIN s |-> Rotated(tier[i], i, seq)]}
        [] policy.selection = "weighted"    ->
             {p \in [DOMAIN s -> DOMAIN s] :
                IsInjective(p) /\ \A i \in DOMAIN s : p[i] \in Drawn(s, Left(p, i))}

\* order, with the value the round-robin cursor has for this request.
Orders(candidates, policy, seq) ==
  LET s == Ranked(candidates, policy)
  IN  IF s = <<>> THEN {s}
      ELSE {[i \in DOMAIN s |-> s[p[i]]] : p \in Arrangements(s, policy, seq)}

(***************************************************************************)
(* What is done to a plan                                                  *)
(***************************************************************************)
HasChannel(plan, channel) == \E i \in DOMAIN plan : plan[i].channel = channel

\* pin_channel: the first candidate of the channel moves to the front.
PinChannel(plan, channel) ==
  IF HasChannel(plan, channel)
  THEN LET pos == CHOOSE i \in DOMAIN plan :
                    /\ plan[i].channel = channel
                    /\ \A j \in 1..(i - 1) : plan[j].channel # channel
       IN  <<plan[pos]>> \o RemoveAt(plan, pos)
  ELSE plan

\* Mutant: only the attempts are capped, and the executor reorders first.
PinnedFirst(plan) == plan

\* pinned_only
PinnedOnly(plan) == IF plan = <<>> THEN plan ELSE <<Head(plan)>>

\* The pass-through routes keep the native candidates.
NativeOnly(plan, inbound) == Picked(plan, {i \in DOMAIN plan : plan[i].protocol = inbound})

\* visible_models
VisibleModels(channels) ==
  UNION {UNION {IF e.enabled THEN e.models ELSE {} : e \in ToSet(channels[i].endpoints)} :
           i \in {j \in DOMAIN channels : channels[j].enabled}}

\* Mutant: protocols are collected from endpoints that are switched off, too.
DiagnoseAll(channels, model, inbound) ==
  LET offering  == UNION {{e \in ToSet(channels[i].endpoints) : model \in e.models} :
                            i \in DOMAIN channels}
      available == {p \in Protocols : \E e \in offering : CanServe(e, p)}
  IN  CASE offering = {}          -> [verdict |-> "UnknownModel", available |-> {}]
        [] inbound \in available  -> [verdict |-> "Routable", available |-> available]
        [] OTHER -> [verdict |-> "ProtocolNotPermitted", available |-> available]

\* diagnose: why a plan is empty.
Diagnose(channels, model, inbound) ==
  LET Offering(ch) == {e \in ToSet(ch.endpoints) : Offers(ch, e, model)}
      offering  == UNION {Offering(channels[i]) : i \in DOMAIN channels}
      available == {p \in Protocols : \E e \in offering : CanServe(e, p)}
  IN  CASE offering = {}          -> [verdict |-> "UnknownModel", available |-> {}]
        [] inbound \in available  -> [verdict |-> "Routable", available |-> available]
        [] OTHER -> [verdict |-> "ProtocolNotPermitted", available |-> available]
=============================================================================

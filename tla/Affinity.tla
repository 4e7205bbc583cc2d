------------------------------ MODULE Affinity ------------------------------
(***************************************************************************)
(* The channel affinity engine: which channel a session is bound to.       *)
(*                                                                         *)
(* Operators over a cache and the settings in force.  The engine does each *)
(* of them under its lock, so a module that uses them takes one step for   *)
(* one of them.  A cache is a record                                       *)
(*   entries: a partial function from keys to [channel, live]; an entry    *)
(*            that is not live has passed its TTL and is still there       *)
(*   recent:  the keys of entries, the one used last first                 *)
(* Settings are [enabled, switch, keep, max, rules].  A rule is [name,     *)
(* models, paths, sources, values, byModel, skip, compiles]; its regular   *)
(* expressions are the sets of what they match.                            *)
(***************************************************************************)
EXTENDS Integers, Sequences, FiniteSets, SequencesExt, Functions

CONSTANTS NoChannel, NoValue

EmptyCache == [entries |-> <<>>, recent |-> <<>>]

KeysOf(cache) == DOMAIN cache.entries

\* What is said of a decision: the key its session is bound under, the channel
\* it is bound to, and whether a failure there is final.
NoDecision == [key |-> <<>>, binding |-> NoChannel, skip |-> FALSE, matched |-> FALSE]

-----------------------------------------------------------------------------
(***************************************************************************)
(* Settings                                                                *)
(***************************************************************************)
\* AffinitySettings::validate.  That parentheses match is all it asks of a
\* regular expression: a rule it accepts may still not compile.
ValidSettings(s) ==
  /\ s.max > 0
  /\ \A i, j \in DOMAIN s.rules : i # j => s.rules[i].name # s.rules[j].name
  /\ \A i \in DOMAIN s.rules : s.rules[i].sources # <<>>

\* load: a rule that does not compile is left out, the others work.
Loaded(s) ==
  LET Compiles(rule) == rule.compiles
  IN  [s EXCEPT !.rules = SelectSeq(@, Compiles)]

IsActive(s) == s.enabled /\ s.rules # <<>>

\* Whether the body is to be parsed for the rules.
NeedsBody(s) ==
  s.enabled /\ \E i \in DOMAIN s.rules : "body" \in ToSet(s.rules[i].sources)

-----------------------------------------------------------------------------
(***************************************************************************)
(* Matching.  ctx is [model, path, values], with a value for each source.  *)
(***************************************************************************)
\* extract_value: the first source that has a value.
Extract(sources, ctx) ==
  LET Present(source) == ctx.values[source] # NoValue
      present == SelectSeq(sources, Present)
  IN  IF present = <<>> THEN NoValue ELSE ctx.values[Head(present)]

Applies(rule, ctx) ==
  /\ ctx.model \in rule.models
  /\ ctx.path \in rule.paths
  /\ Extract(rule.sources, ctx) \in rule.values

\* build_cache_key.  The name of a rule is part of it, the model if the rule
\* says so: sessions of different rules never share a binding.
CacheKey(rule, ctx) ==
  <<rule.name, IF rule.byModel THEN ctx.model ELSE NoValue, Extract(rule.sources, ctx)>>

\* The first rule that applies, as a decision still without a binding.
Match(s, ctx) ==
  LET Fits(rule) == Applies(rule, ctx)
      fitting == SelectSeq(s.rules, Fits)
  IN  IF ~s.enabled \/ fitting = <<>>
      THEN NoDecision
      ELSE [key |-> CacheKey(Head(fitting), ctx), binding |-> NoChannel,
            skip |-> Head(fitting).skip, matched |-> TRUE]

-----------------------------------------------------------------------------
(***************************************************************************)
(* The cache                                                               *)
(***************************************************************************)
\* The elements of a sequence that are in S, in their order.
Keep(s, S) ==
  LET kept[i \in 0..Len(s)] ==
        IF i = 0 THEN <<>> ELSE IF s[i] \in S THEN Append(kept[i - 1], s[i]) ELSE kept[i - 1]
  IN  kept[Len(s)]

Without(cache, keys) ==
  LET rest == KeysOf(cache) \ keys
  IN  [entries |-> Restrict(cache.entries, rest), recent |-> Keep(cache.recent, rest)]

\* Mutant: the key keeps its old place in the order as well.
WithAgain(cache, key, channel) ==
  [entries |-> [k \in KeysOf(cache) \cup {key} |->
                  IF k = key THEN [channel |-> channel, live |-> TRUE]
                  ELSE cache.entries[k]],
   recent  |-> <<key>> \o cache.recent]

With(cache, key, channel) ==
  LET others == Without(cache, {key})
  IN  [entries |-> [k \in KeysOf(cache) \cup {key} |->
                      IF k = key THEN [channel |-> channel, live |-> TRUE]
                      ELSE cache.entries[k]],
       recent  |-> <<key>> \o others.recent]

Expired(cache) == {key \in KeysOf(cache) : ~cache.entries[key].live}

\* resolve.  A hit starts the TTL again; what has expired is removed here.
Resolve(cache, s, ctx) ==
  LET d == Match(s, ctx)
  IN  IF ~d.matched \/ d.key \notin KeysOf(cache)
      THEN [cache |-> cache, decision |-> d]
      ELSE IF cache.entries[d.key].live
      THEN LET bound == cache.entries[d.key].channel
           IN  [cache |-> With(cache, d.key, bound),
                decision |-> [d EXCEPT !.binding = bound]]
      ELSE [cache |-> Without(cache, {d.key}), decision |-> d]

\* Mutant: what has expired goes, and nothing else.
SweepForRoom(cache, max) == Without(cache, Expired(cache))

\* evict_expired_or_oldest
MakeRoom(cache, max) ==
  LET swept == Without(cache, Expired(cache))
  IN  IF Cardinality(KeysOf(swept)) >= max /\ swept.recent # <<>>
      THEN Without(swept, {Last(swept.recent)})
      ELSE swept

\* Mutant: the judgement goes by the binding the request resolved to.
RecordByDecision(cache, s, decision, winner) ==
  LET room  == IF Cardinality(KeysOf(cache)) >= s.max
               THEN MakeRoom(cache, s.max) ELSE cache
  IN  IF decision.binding \notin {NoChannel, winner} /\ ~s.switch
      THEN cache ELSE With(room, decision.key, winner)

\* record.  Whether a binding may change is judged by the entry that is there
\* now; a full cache makes room even when the key is one it holds.
Record(cache, s, decision, winner) ==
  LET bound == IF decision.key \in KeysOf(cache)
               THEN cache.entries[decision.key].channel ELSE winner
      room  == IF Cardinality(KeysOf(cache)) >= s.max
               THEN MakeRoom(cache, s.max) ELSE cache
  IN  IF bound # winner /\ ~s.switch THEN cache ELSE With(room, decision.key, winner)

\* forget
Forget(cache, key) == Without(cache, {key})

\* forget_if_bound_to
ForgetIfBoundTo(cache, key, channel) ==
  IF key \in KeysOf(cache) /\ cache.entries[key].channel = channel
  THEN Without(cache, {key}) ELSE cache

\* The sweep stats does before it counts.
Swept(cache) == Without(cache, Expired(cache))

\* The TTL of an entry passes.
Lapse(cache, key) == [cache EXCEPT !.entries[key].live = FALSE]
=============================================================================

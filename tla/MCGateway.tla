----------------------------- MODULE MCGateway -----------------------------
\* Six scenarios: routing over varied tables and policies, turns of the round
\* robin, a session's requests at once, a session while channels and settings
\* change, the minute windows, and changes of the concurrency limit.
EXTENDS Gateway

CONSTANTS h1, h2, k1, k2, i1, none

E(protocol, order, accepted, models) ==
  [protocol |-> protocol, order |-> order, enabled |-> TRUE,
   transcode |-> accepted # {}, accepted |-> accepted, models |-> models]

Ch(id, priority, weight, endpoints) ==
  [id |-> id, enabled |-> TRUE, kind |-> "aggregate", visibility |-> "shared",
   user |-> 0, tags |-> {}, priority |-> priority, weight |-> weight,
   endpoints |-> endpoints]

Off(ch) == [ch EXCEPT !.enabled = FALSE]
Private(ch, user) == [ch EXCEPT !.visibility = "private", !.user = user]
Tagged(ch, tag) == [ch EXCEPT !.tags = {tag}]
EndpointOff(ch, i) == [ch EXCEPT !.endpoints[i].enabled = FALSE]

ChatOf(id) == Ch(id, 0, 1, <<E("chat", 0, {}, {"m1"})>>)

\* Two endpoints of which the transcoding one has the lower order, a native one
\* of a lower priority, a private channel and one of a tag.
Two    == Ch(1, 1, 0, <<E("messages", 0, {"chat", "gemini"}, {"m1", "m2"}),
                        E("chat", 5, {}, {"m1"})>>)
Lower  == Ch(2, 0, 2, <<E("chat", 0, {"responses"}, {"m1"})>>)
Own    == Private(Ch(3, 1, 1, <<E("chat", 1, {}, {"m1", "m2"})>>), 7)
Marked == Tagged(Ch(4, 1, 1, <<E("chat", 0, {}, {"m1"})>>), "t")

\* Two protocols; which of the endpoints comes first is order's to say.
Crossed(id, order) == Ch(id, 0, 1, <<E("chat", order, {}, {"m1"}), E("messages", 1 - order, {}, {"m1"})>>)

Tables == { <<Two, Lower, Own, Marked>>,
            <<Two, Off(Lower), EndpointOff(Ch(5, 1, 1, <<E("chat", 0, {}, {"m2"})>>), 1)>> }

Policy(retrySame, nativeFirst, selection) ==
  [retrySame |-> retrySame, nativeFirst |-> nativeFirst, selection |-> selection]

Principal(user, tags, models, key) ==
  [user |-> user, tags |-> tags, models |-> models, key |-> key, ip |-> i1]

Call(principal, model, inbound, route, stream) ==
  [principal |-> principal, model |-> model, inbound |-> inbound, route |-> route,
   stream |-> stream, values |-> [key |-> "k", header |-> none, body |-> "s"]]

NoAffinity == [enabled |-> FALSE, switch |-> TRUE, keep |-> FALSE, max |-> 1, rules |-> <<>>]

NoLimit == [rpm |-> 0, tpm |-> 0]
Free    == [ip |-> NoLimit, key |-> NoLimit, global |-> NoLimit,
            sizes |-> {0}, tokens |-> {0}]

Routing ==
  [limits |-> Free, models |-> {"m1", "m2"}, tables |-> Tables, settings |-> {NoAffinity},
   policies |-> {Policy(rs, nf, sel) : rs \in BOOLEAN, nf \in BOOLEAN,
                                       sel \in {"first", "weighted", "round_robin"}},
   shapes |-> {Call(p, m, inb, "json", FALSE) :
                 p \in {Principal(7, {}, {}, none), Principal(0, {"t"}, {"m1"}, none)},
                 m \in {"m1", "m2"}, inb \in Protocols}
              \cup {Call(Principal(0, {}, {}, none), "m1", "chat", route, FALSE) :
                      route \in {"pass", "realtime"}},
   calls |-> 1, changes |-> 1]

Turns ==
  [limits |-> Free, models |-> {"m1"}, settings |-> {NoAffinity},
   tables |-> {<<ChatOf(1), ChatOf(2), [ChatOf(3) EXCEPT !.priority = -1],
                 [ChatOf(4) EXCEPT !.priority = -1], [ChatOf(5) EXCEPT !.priority = -1]>>,
               <<ChatOf(1), ChatOf(2), ChatOf(3)>>, <<Crossed(1, 0), Crossed(2, 1)>>},
   policies |-> {Policy(FALSE, TRUE, "round_robin")},
   shapes |-> {Call(Principal(0, {}, {}, none), "m1", "chat", "realtime", FALSE),
               Call(Principal(0, {}, {}, none), "m1", "messages", "json", FALSE)},
   calls |-> 4, changes |-> 0]

\* A rule of the body for every model at once, and one of the key by model that
\* is final; a third does not compile.
ByBody == [name |-> "r1", models |-> {"m1", "m2"}, paths |-> {"chat"},
           sources |-> <<"header", "body">>, values |-> {"s"}, byModel |-> FALSE,
           skip |-> FALSE, compiles |-> TRUE]
ByKey  == [name |-> "r2", models |-> {"m1", "m2"}, paths |-> {"chat"},
           sources |-> <<"key">>, values |-> {"k"}, byModel |-> TRUE,
           skip |-> TRUE, compiles |-> TRUE]
Broken == [ByBody EXCEPT !.name = "r0", !.compiles = FALSE]

Sticky(switch, keep, rules) ==
  [enabled |-> TRUE, switch |-> switch, keep |-> keep, max |-> 1, rules |-> rules]

Both == Ch(1, 0, 1, <<E("chat", 0, {}, {"m1", "m2"})>>)
One  == Ch(2, 0, 1, <<E("chat", 0, {}, {"m1"})>>)

Session(model, route, stream) == Call(Principal(0, {}, {}, none), model, "chat", route, stream)

Sessions(tbls, sets, shs, n, edits) ==
  [limits |-> Free, models |-> {"m1", "m2"}, tables |-> tbls, settings |-> sets,
   policies |-> {Policy(FALSE, TRUE, "first")}, shapes |-> shs,
   calls |-> n, changes |-> edits]

\* Two requests of a session at once, three in all, nothing is changed.
Together == Sessions({<<Both, One>>}, {Sticky(FALSE, FALSE, <<Broken, ByBody>>)},
                     {Session("m1", "json", TRUE), Session("m1", "pass", FALSE)}, 3, 0)

\* A session that moves between two models; channels and settings change.
Moving == Sessions({<<Both, One>>, <<Off(Both), One>>, <<One>>},
                   {Sticky(FALSE, TRUE, <<ByKey>>), Sticky(FALSE, FALSE, <<ByBody>>),
                    [Sticky(TRUE, FALSE, <<ByKey>>) EXCEPT !.max = 2]},
                   {Session("m1", "json", FALSE), Session("m2", "json", TRUE)}, 2, 2)

\* Under the limits: two keys, windows of two requests and one token.
Caller(key) == Call(Principal(0, {}, {}, key), "m1", "chat", "json", FALSE)
Limited == [Turns EXCEPT !.tables = {<<ChatOf(1)>>}, !.policies = {Policy(FALSE, TRUE, "first")},
                         !.shapes = {Caller(k1), Caller(none)}, !.calls = 3,
                         !.limits = [ip |-> [rpm |-> 2, tpm |-> 0], key |-> [rpm |-> 1, tpm |-> 0],
                                     global |-> [rpm |-> 0, tpm |-> 2],
                                     sizes |-> {0}, tokens |-> {2}]]
Permits == [Limited EXCEPT !.limits.ip = NoLimit, !.limits.key = NoLimit, !.limits.global = NoLimit,
                           !.limits.sizes = {0, 1, 2}, !.limits.tokens = {0}]

MCScenarios == {Routing, Turns, Together, Moving, Limited, Permits}
MCLimits == {s.limits : s \in MCScenarios}

\* A session bound where both models are served, that then fails elsewhere.
MCAbsent == {Sessions({<<Both, One>>, <<One>>}, {Sticky(FALSE, FALSE, <<ByBody>>)},
                      {Session("m1", "json", FALSE), Session("m2", "json", FALSE)}, 4, 0)}
MCAbsentLimits == {Free}
=============================================================================

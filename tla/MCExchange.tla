------------------------------ MODULE MCExchange ------------------------------
(***************************************************************************)
(* Exchanges for TLC: conversations with tools, media and thinking from    *)
(* clients of every protocol; answers of up to three parts from every      *)
(* provider to clients of the others; and short texts of a stream.         *)
(***************************************************************************)
EXTENDS Exchange

(***************************************************************************)
(* Conversations                                                           *)
(***************************************************************************)
Ask      == Message("user", <<Text(<<"ask">>)>>)
Again    == Message("user", <<Text(<<"again">>), Text(<<"please">>)>>)
Look     == Message("user", <<Text(<<"look">>), Media("image", Source("base64", "png")),
                              Media("image", Source("url", "link")), Media("file", Source("base64", "pdf"))>>)
Listen   == Message("user", <<Media("audio", Source("base64", "wav")), Text(<<"listen">>)>>)
Reply    == Message("assistant", <<Text(<<"reply">>)>>)
Refused  == Message("assistant", <<Refusal(<<"sorry">>)>>)
Thought  == Message("assistant", <<Thinking(<<"hm">>, <<"sig">>)>>)
Result(id, words) == ToolResult(<<id>>, <<>>, <<Text(words)>>, FALSE)
CallOf(id, name)  == ToolUse(<<id>>, <<name>>, <<"x", "}">>, <<>>)
Using    == <<Message("assistant", <<Thinking(<<"hm">>, <<"sig">>), CallOf("c1", "f")>>),
              Message("tool", <<Result("c1", <<"fine">>)>>)>>
UsingTwo == <<Message("assistant", <<Text(<<"both">>), CallOf("c2", "f"), CallOf("c3", "g")>>),
              Message("tool", <<Result("c2", <<"yes">>)>>),
              Message("tool", <<[Result("c3", <<"no">>) EXCEPT !.failed = TRUE]>>)>>
Mixed    == <<Message("assistant", <<CallOf("c4", "f")>>),
              Message("user", <<Result("c4", <<"done">>), Text(<<"and">>)>>)>>
Shot     == <<Message("assistant", <<CallOf("c5", "g")>>),
              Message("tool", <<ToolResult(<<"c5">>, <<>>, <<Text(<<"seen">>), Media("image", Source("base64", "shot"))>>,
                                           FALSE)>>)>>

Turns == {<<Ask>>, <<Again>>, <<Look>>, <<Listen>>, <<Reply>>, <<Refused>>, <<Thought>>, Using, UsingTwo, Mixed, Shot}
Conversations == {FlattenSeq(t) : t \in UNION {[1..n -> Turns] : n \in 0..3}}

Of(p, request)  == [from |-> p, body |-> EncodeRequest(p, request)]
Talking(messages) == [UnifiedRequest EXCEPT !.system = <<Text(<<"be">>), Text(<<"kind">>)>>, !.messages = messages]

(***************************************************************************)
(* Settings                                                                *)
(***************************************************************************)
Sampling == [f \in UNION {KnownTo(p) : p \in Protocols} |->
               CASE f = "temperature" -> 70 [] f = "top_p" -> 90 [] f = "parallel" -> FALSE [] OTHER -> 1]
Reasonings == {None} \cup {Reasoning(e, None, t) : e \in {"none", "low", "medium", "high"}, t \in {None, TRUE}}
                \cup {Reasoning(None, b, TRUE) : b \in {1, 2000, 9000}} \cup {Reasoning(None, None, FALSE)}
Asking == {[Talking(<<Ask>>) EXCEPT !.tools = <<<<"f">>, <<"g">>>>, !.choice = c, !.params = s,
                                     !.stop = <<"END">>, !.max = m, !.reasoning = r, !.format = "json"] :
             c \in {Unspecified, Choice("auto", <<>>), Choice("required", <<>>), Choice("tool", <<"f">>)},
             s \in {NoParams, Sampling}, m \in {None, 600, 6000, 32000}, r \in Reasonings}

(***************************************************************************)
(* Bodies with what only one protocol has                                  *)
(***************************************************************************)
Named  == Field("function", <<"f">>)
Own    == <<Field("field", "own")>>
ChatBody      == EncodeRequest("chat", Talking(<<Ask>>))
MessagesBody  == EncodeRequest("messages", Talking(<<Ask>>))
ResponsesBodyOf == EncodeRequest("responses", Talking(<<Ask>>))
GeminiBody    == EncodeRequest("gemini", Talking(<<Ask>>))
Private ==
  {[from |-> "chat", body |-> [ChatBody EXCEPT !.unknown = Own, !.tools = <<Named, Field("builtin", "web")>>]],
   [from |-> "chat", body |->
      [ChatBody EXCEPT !.messages = @ \o <<Chat!ChatMessage("assistant", TextPart(<<"told">>))>>,
                       !.dropped = <<[message |-> 3, position |-> 0, part |-> Thinking(<<"kept">>, <<"sig">>)]>>]],
   [from |-> "messages", body |-> [MessagesBody EXCEPT !.unknown = Own, !.metadata = <<Field("metadata", "m")>>,
                                                       !.tools = <<Named, Field("server", "bash")>>]],
   [from |-> "messages", body |-> [MessagesBody EXCEPT !.cached = {"system", "tools"}, !.tools = <<Named>>]],
   [from |-> "messages", body |-> [MessagesBody EXCEPT !.messages =
                                     @ \o <<Message("system", <<Text(<<"order">>)>>), Message("user", <<Text(<<"go">>)>>)>>]],
   [from |-> "responses", body |-> [ResponsesBodyOf EXCEPT !.unknown = Own, !.tools = <<Named, Field("builtin", "web")>>,
                                      !.input = @ \o <<Responses!ForeignItem("item")>>]],
   [from |-> "gemini", body |-> [GeminiBody EXCEPT !.unknown = Own, !.tools = <<Named, Field("builtin", "search")>>,
                                   !.choice = "any", !.allowed = <<<<"f">>, <<"g">>>>,
                                   !.thinking = [budget |-> Gemini!Dynamic, thoughts |-> TRUE]]]}
Bad ==
  {[from |-> "chat", body |-> [ChatBody EXCEPT !.messages = <<Chat!ChatMessage("oracle", <<>>)>>]],
   [from |-> "chat", body |-> [ChatBody EXCEPT !.messages = <<Chat!ChatMessage("tool", <<>>)>>]],
   [from |-> "messages", body |-> [MessagesBody EXCEPT !.max = None]],
   [from |-> "responses", body |-> [ResponsesBodyOf EXCEPT !.input = <<[item |-> "scalar"]>>]],
   [from |-> "gemini", body |-> [GeminiBody EXCEPT !.contents = None]]}

MCRequests == {Of(p, Talking(c)) : p \in Protocols, c \in Conversations}
                \cup {Of(p, r) : p \in Protocols, r \in Asking} \cup Private \cup Bad

(***************************************************************************)
(* Answers                                                                 *)
(***************************************************************************)
Parts == {Text(<<"t1", "t2">>), Text(<<"t3">>), Thinking(<<"h1", "h2">>, <<"sig">>),
          ToolUse(<<"c1">>, <<"f">>, <<"x", "}">>, <<>>), ToolUse(<<"c2">>, <<"f">>, <<"y", "}">>, <<>>)}
Spoken == UNION {{s \in [1..n -> Parts] : IsInjective(s)} : n \in 0..3}
Refusing == {<<Refusal(<<"r1", "r2">>)>>, <<Text(<<"t1">>), Refusal(<<"r1">>)>>}
\* Anthropic withholds no answer, it refuses. Gemini gives its calls no ids.
Unnamed(parts) == Maps(LAMBDA p : IF p.t = "tool_use" THEN [p EXCEPT !.id = <<>>] ELSE p, parts)

Pairs == {pair \in Protocols \X Protocols : pair[1] # pair[2]}
Given(from, parts, stop) ==
  Answer(IF from = "gemini" THEN Unnamed(parts) ELSE parts, stop,
         Usage(10, 6, 3, IF from = "messages" THEN 2 ELSE 0, 1))
Exchanged(spoken, froms, stops) ==
  {[from |-> pair[1], to |-> pair[2], answer |-> Given(pair[1], parts, stop)] :
     pair \in {x \in Pairs : x[1] \in froms}, parts \in spoken, stop \in stops}
Cut(spoken, froms) == Exchanged(spoken, froms, {"MaxTokens"})
                        \cup Exchanged(spoken, froms \ {"messages"}, {"ContentFilter"})

MCAnswers == Exchanged(Spoken, Protocols, {"Stop"}) \cup Cut(Spoken, Protocols)
               \cup Exchanged(Refusing, {"chat", "responses"}, {"Stop"})
               \cup {[from |-> pair[1], to |-> pair[2], answer |-> None] :
                       pair \in {x \in Pairs : x[1] \in {"responses", "gemini"}}}
MCStreams == Exchanged(Spoken, Protocols, {"Stop"})
               \cup Cut({s \in Spoken : Len(s) <= 1}, Protocols)
               \cup Exchanged(Refusing, {"chat", "responses"}, {"Stop"})

\* A Chat provider that thinks and then speaks, and a conversation with two
\* calls from a Responses client, alone.
NoExchange   == {}
ThinkingChat == Exchanged({<<Thinking(<<"h1">>, <<>>), Text(<<"t1">>)>>}, {"chat"}, {"Stop"})
TwoCalls     == {Of("responses", Talking(<<Ask>> \o UsingTwo))}

(***************************************************************************)
(* Texts                                                                   *)
(***************************************************************************)
WrittenLines == {Line("data", "d1"), Line("data", "d2"), Line("event", "e1"), Line("other", None),
                 Line("blank", None)}
Ended(lines, crlf) == [i \in DOMAIN lines |-> [line |-> lines[i], crlf |-> crlf[i]]]
MCTexts == UNION {{Ended(lines, crlf) : lines \in [1..n -> WrittenLines], crlf \in [1..n -> BOOLEAN]} : n \in 1..3}
             \cup {Ended(lines, [i \in 1..4 |-> FALSE]) : lines \in [1..4 -> WrittenLines]}
=============================================================================

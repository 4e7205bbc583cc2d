-------------------------------- MODULE Exchange --------------------------------
(***************************************************************************)
(* One exchange between a client and a provider that speak different       *)
(* protocols: a request on its way up, an answer or a stream of one on its *)
(* way down, and the bytes a stream's frames are read from.                *)
(*                                                                         *)
(* Which exchange it is, is chosen at the start.  A request is decoded     *)
(* once and encoded for every candidate the executor tries; a stream is    *)
(* pumped frame by frame until the provider ends it, breaks it or sends an *)
(* error.                                                                  *)
(***************************************************************************)
EXTENDS Protocols

CONSTANTS
  Requests,      \* requests on the wire: [from |-> protocol, body |-> body]
  Answers,       \* answers: [from |-> protocol, to |-> protocol, answer |-> answer]
  Streams,       \* answers that come as a stream, in the same form
  Texts,         \* texts of a stream: sequences of lines, each [line |-> line, crlf |-> BOOLEAN]
  MaxChunk       \* bound on the bytes of a chunk

VARIABLES
  exchange,      \* what is exchanged
  phase,         \* new, decoded, open, ended or refused
  got,           \* how many of the frames, or bytes, of the input have come
  ir,            \* the representation of a request or an answer
  pump,          \* the pump of a stream, or the parser of a text
  sent           \* what was sent on: a body, or the frames so far

vars == <<exchange, phase, got, ir, pump, sent>>

\* Mutant: whether the end has come is not known before the first event.
UnsetPump(x) ==
  [decoder |-> NewDecoder(x.from), encoder |-> NewEncoder(x.to), aggregate |-> NewAggregator,
   done |-> None, failed |-> FALSE]
NewPump(x) ==
  [decoder |-> NewDecoder(x.from), encoder |-> NewEncoder(x.to), aggregate |-> NewAggregator,
   done |-> FALSE, failed |-> FALSE]

Exchanges(kind, inputs) == {[kind |-> kind] @@ x : x \in inputs}

Init ==
  /\ exchange \in Exchanges("request", Requests) \cup Exchanges("answer", Answers)
                    \cup Exchanges("stream", Streams) \cup {[kind |-> "text", lines |-> t] : t \in Texts}
  /\ phase = IF exchange.kind \in {"request", "answer"} THEN "new" ELSE "open"
  /\ got = 0 /\ ir = None
  /\ pump = CASE exchange.kind = "stream" -> NewPump(exchange)
              [] exchange.kind = "text" -> NewParser [] OTHER -> None
  /\ sent = IF exchange.kind \in {"stream", "text"} THEN <<>> ELSE None

(***************************************************************************)
(* Requests and answers                                                    *)
(***************************************************************************)
\* The gateway decodes the client's body.
ReadRequest ==
  /\ exchange.kind = "request" /\ phase = "new"
  /\ IF RejectsRequest(exchange.from, exchange.body)
     THEN phase' = "refused" /\ ir' = None
     ELSE phase' = "decoded" /\ ir' = DecodeRequest(exchange.from, exchange.body)
  /\ UNCHANGED <<exchange, got, pump, sent>>

\* encode_for: the same protocol is encoded like any other.
EncodeFor(p) ==
  /\ exchange.kind = "request" /\ phase = "decoded"
  /\ sent' = [to |-> p, body |-> EncodeRequest(p, ir)]
  /\ UNCHANGED <<exchange, phase, got, ir, pump>>

\* A provider's answer is decoded, and encoded for the client.
ReadAnswer ==
  LET body == Body(exchange.from, exchange.answer)
  IN  /\ exchange.kind = "answer" /\ phase = "new"
      /\ IF RejectsResponse(exchange.from, body)
         THEN phase' = "refused" /\ ir' = None
         ELSE phase' = "decoded" /\ ir' = DecodeResponse(exchange.from, body)
      /\ UNCHANGED <<exchange, got, pump, sent>>

WriteAnswer ==
  /\ exchange.kind = "answer" /\ phase = "decoded"
  /\ phase' = "ended"
  /\ sent' = EncodeResponse(exchange.to, ir)
  /\ UNCHANGED <<exchange, got, ir, pump>>

(***************************************************************************)
(* Streams.  An error among the events of a frame stops the pump before    *)
(* the error is encoded; a stream that ends unfinished is one too.         *)
(***************************************************************************)
Passed(p, frames) == [pump |-> p, frames |-> frames]

\* One event: absorbed, encoded and sent.
Written(acc, ev, out) ==
  Passed([acc.pump EXCEPT !.aggregate = Absorb(@, ev), !.encoder = out.s, !.done = @ \/ ev.e = "done"],
         acc.frames \o out.frames)
PumpEvent(acc, ev) ==
  IF acc.pump.failed THEN acc
  ELSE IF ev.e = "error" THEN [acc EXCEPT !.pump.failed = TRUE]
  ELSE Written(acc, ev, EncodeEvent(exchange.to, acc.pump.encoder, ev))

\* A frame of the provider
Pumped(took) == FoldLeft(PumpEvent, Passed([pump EXCEPT !.decoder = took.d], sent), took.events)
TakeFrame(frame) == Pumped(DecodeFrame(exchange.from, pump.decoder, frame))

\* Mutant: a stream that breaks off counts as complete.
FinishedAnyway(p) ==
  LET pumped == FoldLeft(PumpEvent, Passed(p, sent), FinishDecoder(exchange.from, p.decoder).events)
      last   == FinishEncoder(exchange.to, pumped.pump.encoder)
      told   == EncodeEvent(exchange.to, p.encoder, Error)
  IN  IF p.failed THEN Passed(p, sent \o told.frames)
      ELSE Passed([pumped.pump EXCEPT !.encoder = last.s], pumped.frames \o last.frames)

\* What is done once no more frames come.
Told(p, out) ==
  Passed([p EXCEPT !.failed = TRUE, !.encoder = out.s, !.aggregate = Absorb(@, Error)],
         sent \o out.frames)

\* The encoder closes what is open.
Closed(acc, out) == Passed([acc.pump EXCEPT !.encoder = out.s], acc.frames \o out.frames)
CloseEncoder(acc) == Closed(acc, FinishEncoder(exchange.to, acc.pump.encoder))
Finished(p) ==
  IF p.failed \/ (exchange.from # "gemini" /\ ~p.done)
  THEN Told(p, EncodeEvent(exchange.to, p.encoder, Error))
  ELSE CloseEncoder(FoldLeft(PumpEvent, Passed(p, sent), FinishDecoder(exchange.from, p.decoder).events))

Streaming == exchange.kind = "stream" /\ phase = "open" /\ ~pump.failed

\* What was produced is sent: the pump goes on from where that left it.
Sends(after) == pump' = after.pump /\ sent' = after.frames

ReceiveFrame ==
  LET frames == Frames(exchange.from, exchange.answer)
  IN  /\ Streaming /\ got < Len(frames)
      /\ got' = got + 1
      /\ Sends(TakeFrame(frames[got + 1]))
      /\ UNCHANGED <<exchange, phase, ir>>

\* The provider reports an error in the middle of its stream.
ReceiveError ==
  /\ Streaming
  /\ Sends(TakeFrame(ErrorFrameOf(exchange.from)))
  /\ UNCHANGED <<exchange, phase, got, ir>>

\* The connection breaks, or the next frame cannot be read.
Break ==
  /\ Streaming
  /\ pump' = [pump EXCEPT !.failed = TRUE]
  /\ UNCHANGED <<exchange, phase, got, ir, sent>>

\* No more frames come: they ended, at their end or before, or it failed.
Finish ==
  /\ exchange.kind = "stream" /\ phase = "open"
  /\ phase' = "ended"
  /\ Sends(Finished(pump))
  /\ UNCHANGED <<exchange, got, ir>>

(***************************************************************************)
(* The bytes of a stream come in chunks of any size.                       *)
(***************************************************************************)
Bytes == FlattenSeq(Maps(LAMBDA x : BytesOf(x.line, x.crlf), exchange.lines))

ReceiveChunk(n) ==
  LET fed == Feed(pump, SubSeq(Bytes, got + 1, got + n))
  IN  /\ exchange.kind = "text" /\ phase = "open"
      /\ got + n <= Len(Bytes)
      /\ got' = got + n
      /\ pump' = fed.parser /\ sent' = sent \o fed.frames
      /\ UNCHANGED <<exchange, phase, ir>>

FinishBytes ==
  /\ exchange.kind = "text" /\ phase = "open"
  /\ phase' = "ended"
  /\ sent' = sent \o FinishParser(pump)
  /\ UNCHANGED <<exchange, got, ir, pump>>

Next ==
  \/ ReadRequest
  \/ \E p \in Protocols : EncodeFor(p)
  \/ ReadAnswer
  \/ WriteAnswer
  \/ ReceiveFrame
  \/ ReceiveError
  \/ Break
  \/ Finish
  \/ \E n \in 1..MaxChunk : ReceiveChunk(n)
  \/ FinishBytes

Spec == Init /\ [][Next]_vars

(***************************************************************************)
(* Requests                                                                *)
(***************************************************************************)
TypeOK ==
  /\ phase \in {"new", "decoded", "open", "ended", "refused"}
  /\ got \in Nat
  /\ exchange.kind = "stream" => pump.done \in BOOLEAN /\ pump.failed \in BOOLEAN

Encoded == exchange.kind = "request" /\ sent # None
\* The request as the provider reads it.
AsRead == DecodeRequest(sent.to, sent.body)

PartsOf(messages) == FlattenSeq(Maps(LAMBDA m : m.content, messages))

\* Calls and results in the order of the conversation.
Markers(request) ==
  Maps(LAMBDA p : IF p.t = "tool_use" THEN <<"call", p.id, p.name, p.args>> ELSE <<"result", p.id>>,
       Only(PartsOf(request.messages), {"tool_use", "tool_result"}))
ResultWords(request) ==
  Maps(LAMBDA p : WordsOf(p.content), Only(PartsOf(request.messages), {"tool_result"}))

\* The tools' calls and their results keep their ids, their order and what
\* they say in the request a provider of any protocol reads: a provider
\* refuses a conversation whose calls and results do not pair.
CallsAndResultsPair(read) ==
  /\ Markers(read) = Markers(ir)
  /\ \A i \in DOMAIN ResultWords(ir) : IsSuffix(ResultWords(ir)[i], ResultWords(read)[i])

\* What codecs put there themselves: the message that Anthropic wants first,
\* and the note beside media that a tool message cannot hold.
IsFiller(p) == p.t = "text" /\ p.text # <<>> /\ p.text[1] \in {".", "attachment"}
\* What somebody said, in words. Gemini has no refusals.
SaidBy(request, roles, kinds) ==
  LET spoken == PartsOf(SelectSeq(request.messages, LAMBDA m : m.role \in roles))
  IN  FlattenSeq(Maps(LAMBDA p : IF IsFiller(p) THEN <<>> ELSE p.text, Only(spoken, kinds)))
Ordered(request) == WordsOf(request.system) \o SaidBy(request, {"system"}, {"text"})

\* Media, also those inside of a tool's result.
MediaOf(parts) == {p.source.v : p \in ToSet(Only(parts, MediaKinds))}
InResults(request) ==
  UNION {MediaOf(p.content) : p \in ToSet(Only(PartsOf(request.messages), {"tool_result"}))}
Attached(request, to) ==
  LET parts == PartsOf(request.messages)
  IN  CASE to = "responses" -> MediaOf(Without(parts, {"audio"}))
        [] to = "gemini"    -> MediaOf(parts)
        [] OTHER            -> MediaOf(parts) \cup InResults(request)

\* Every word the user, the model and the system said reaches the provider,
\* in its order and as said by the same one (Anthropic reads an order in the
\* middle of a conversation as the user's); so do media, but for those in a
\* tool's result that Responses and Gemini hold as text, and audio that
\* Responses has no item for.
NothingSaidIsLost(read) ==
  LET kinds == IF sent.to = "gemini" THEN {"text"} ELSE {"text", "refusal"}
      users == IF sent.to = "messages" THEN {"user", "tool", "system"} ELSE {"user", "tool"}
  IN  /\ SaidBy(read, {"user", "tool"}, kinds) = SaidBy(ir, users, kinds)
      /\ SaidBy(read, {"assistant"}, kinds) = SaidBy(ir, {"assistant"}, kinds)
      /\ Ordered(read) = IF sent.to = "messages" THEN WordsOf(ir.system) ELSE Ordered(ir)
      /\ Attached(read, sent.to) = Attached(ir, sent.to)

Alternates(seq) == \A i \in 1..(Len(seq) - 1) : seq[i].role # seq[i + 1].role

\* A tool message follows the call it answers, or another answer to it.
FollowsCall(messages, i) ==
  \E j \in 1..(i - 1) :
    /\ messages[i].call \in {c.id : c \in ToSet(messages[j].calls)}
    /\ \A k \in (j + 1)..(i - 1) : messages[k].role = "tool"

\* The results of tools stand right after the message that calls them.
Holds(m, kind) == Only(m.content, {kind}) # <<>>
AnsweredAtOnce(messages) ==
  \A i \in DOMAIN messages :
    Holds(messages[i], "tool_result") =>
      i > 1 /\ (Holds(messages[i - 1], "tool_use") \/ Holds(messages[i - 1], "tool_result"))
ToolsFollowCalls(messages) ==
  \A i \in DOMAIN messages : messages[i].role = "tool" => FollowsCall(messages, i)

Thinks(body) == body.thinking # None /\ body.thinking.type = "enabled"
\* A conversation in which calls are answered at once has, for each protocol,
\* the form its provider insists on: encode_messages and the contents loop of
\* Gemini merge neighbours, and the thinking budget stays below max_tokens.
ProviderAccepts ==
  LET body == sent.body
  IN  CASE sent.to = "messages" ->
             /\ Alternates(body.messages)
             /\ body.messages # <<>> => body.messages[1].role = "user"
             /\ \A m \in ToSet(body.messages) : m.content # <<>>
             /\ body.max # None
             /\ Thinks(body) =>
                  /\ body.thinking.budget \in 1024..(body.max - 1)
                  /\ {"top_k"} \cap DOMAIN body.params = {}
        [] sent.to = "gemini" ->
             /\ Alternates(body.contents)
             /\ \A c \in ToSet(body.contents) : c.parts # <<>>
        [] sent.to = "chat" ->
             (AnsweredAtOnce(ir.messages) /\ InResults(ir) = {}) => ToolsFollowCalls(body.messages)
        [] OTHER -> TRUE

\* The results in a Chat request stand before all that was said later, right
\* after their calls, whoever sent the conversation.
ResultsFollowCalls ==
  (Encoded /\ sent.to = "chat" /\ InResults(ir) = {}) => ToolsFollowCalls(sent.body.messages)

\* The fields of a body that only its own protocol knows.
PrivateFields(p, body) ==
  LET Unnamed(tools) == {t \in ToSet(tools) : t.kind # "function"}
  IN  ToSet(body.unknown) \cup Unnamed(body.tools)
        \cup (IF p = "messages" THEN ToSet(body.metadata) \cup body.cached ELSE {})

\* A knob of one vendor comes back in a request to that vendor and reaches
\* no other (the fields each codec collects and restores).
PrivateFieldsStayHome ==
  PrivateFields(sent.to, sent.body) =
    IF sent.to = exchange.from THEN PrivateFields(exchange.from, exchange.body) ELSE {}

KnownTo(p) == For(p, Chat!ChatParams, Responses!ResponsesParams, Messages!MessagesParams, Gemini!GeminiParams)

\* What a request asks for is asked for again where the protocol can say it:
\* tools, the choice among them, the maximum, stop sequences, sampling (but
\* for what Anthropic refuses beside thinking), and the format of the answer.
SettingsArrive(read) ==
  /\ read.tools = ir.tools
  /\ read.choice # ir.choice => ir.choice = Unspecified /\ sent.to = "messages"
  /\ ir.max # None => read.max = ir.max
  /\ sent.to # "responses" => read.stop = ir.stop
  /\ sent.to # "messages" => read.format = ir.format
  /\ \A f \in DOMAIN ir.params \cap KnownTo(sent.to) :
       \/ f \in DOMAIN read.params /\ read.params[f] = ir.params[f]
       \/ sent.to = "messages" /\ f = "parallel" /\ ir.params[f]
       \/ sent.to = "messages" /\ f \in {"temperature", "top_p", "top_k"} /\ Thinks(sent.body)

\* How hard the model should think survives the way through a budget of
\* tokens and back, whichever protocol says it; below a maximum of about
\* 5000 tokens Anthropic's least budget is more than a low effort asks for.
\* Who asks for no effort gets no thinking, unless thoughts are to be shown:
\* Anthropic is then given the budget of a model that thinks as it likes.
EffortArrives(read) ==
  ir.reasoning # None /\ OrElse(ir.max, Messages!DefaultMaxTokens) >= 5120 =>
    LET asked == EffortOrFromBudget(ir.reasoning, ir.max)
    IN  IF asked \in {"low", "medium", "high"} /\ ir.reasoning.thoughts # FALSE
        THEN read.reasoning # None /\ EffortOrFromBudget(read.reasoning, read.max) = asked
        ELSE \/ read.reasoning = None \/ read.reasoning.budget = None
             \/ sent.to = "messages" /\ ir.reasoning.thoughts = TRUE

\* A request means to the provider what it meant to the gateway: all that was
\* said, every call with its result, every setting the protocol can say,
\* nothing of another protocol, and in a form the provider takes.
IsReadAsMeant(read) ==
  CallsAndResultsPair(read) /\ NothingSaidIsLost(read) /\ SettingsArrive(read) /\ EffortArrives(read)
RequestsArrive == Encoded => IsReadAsMeant(AsRead) /\ ProviderAccepts /\ PrivateFieldsStayHome

(***************************************************************************)
(* Answers and streams                                                     *)
(***************************************************************************)
Complete == exchange.kind = "stream" /\ ~pump.failed /\ got = Len(Frames(exchange.from, exchange.answer))
Answered == phase = "ended" /\ (exchange.kind = "answer" \/ Complete)
\* The client's view of what it was sent so far.
Assembled(a) ==
  [UnifiedResponse EXCEPT !.content = IntoContent(a), !.stop = a.stop, !.usage = a.usage]
AsReceived ==
  IF exchange.kind = "answer" THEN DecodeResponse(exchange.to, sent)
  ELSE Assembled(Aggregate(Reads(exchange.to, sent)))

WordsIn(parts, kinds) == FlattenSeq(Maps(LAMBDA p : p.text, Only(parts, kinds)))
Called(parts) == Maps(LAMBDA p : <<p.name, p.args>>, Calls(parts))
Ids(parts) == Maps(LAMBDA p : p.id, Calls(parts))
Signatures(parts) == {p.sig : p \in ToSet(Only(parts, {"thinking"}))} \ {<<>>}

\* The client of one protocol reads, whole, the answer the provider of
\* another gave: what it says, what it thought, the calls with their names
\* and arguments under ids that tell them apart, and the signatures without
\* which the next turn is refused. The words of a refusal reach a Gemini
\* client in a stream only.
AnswerArrives(read) ==
  LET parts == exchange.answer.parts
      said  == IF exchange.kind = "answer" /\ exchange.to = "gemini" THEN {"text"} ELSE {"text", "refusal"}
  IN  /\ WordsIn(read, said) = WordsIn(parts, said)
      /\ WordsIn(read, {"thinking"}) = WordsIn(parts, {"thinking"})
      /\ Called(read) = Called(parts)
      /\ IF exchange.from = "gemini" THEN IsInjective(Ids(read)) ELSE Ids(read) = Ids(parts)
      /\ Len(Only(parts, {"thinking"})) <= 1 => Signatures(read) = Signatures(parts)

\* A client learns that its answer was cut or withheld, and that it has to
\* run tools, exactly when that is so; a model that refuses in words may end
\* as it likes. A Chat provider's calls reach a Gemini
\* client after the reason to stop, which then says nothing of them.
StopIsTold(told) ==
  LET ending == Ending(exchange.answer)
  IN  /\ (told = "MaxTokens") <=> (ending = "MaxTokens")
      /\ Only(exchange.answer.parts, {"refusal"}) = <<>> =>
           ((told \in {"ContentFilter", "Refusal"}) <=> (ending = "ContentFilter"))
      /\ ~(exchange.kind = "stream" /\ exchange.from = "chat" /\ exchange.to = "gemini") =>
           ((told = "ToolUse") <=> (ending = "ToolUse"))

\* The bill counts every token of the input once, whichever way the provider
\* counts those it had cached, and the client is told the same output.
UsageArrives(usage) ==
  LET real   == exchange.answer.usage
      billed == BillingNormalized(IF exchange.kind = "answer" THEN ir.usage ELSE pump.aggregate.usage,
                                  exchange.from)
  IN  /\ billed.input = real.input /\ billed.output = real.output /\ billed.cached = real.cached
      /\ usage.output = real.output /\ usage.cached = real.cached

\* At every moment of a stream, however it will end, the client has read a
\* beginning of the answer and nothing else.
NothingIsInvented(read) ==
  exchange.kind = "stream" =>
    LET parts == exchange.answer.parts
    IN  /\ IsPrefix(WordsIn(read, {"text", "refusal"}), WordsIn(parts, {"text", "refusal"}))
        /\ IsPrefix(WordsIn(read, {"thinking"}), WordsIn(parts, {"thinking"}))
        /\ \A i \in DOMAIN Calls(read) :
             i \in DOMAIN Calls(parts) /\ Calls(read)[i].name = Calls(parts)[i].name

\* A client reads in its own protocol what the provider said in another: words,
\* calls, the reason of the end, the tokens; and at no moment of a stream
\* anything that was not said.
IsReceived(answer) ==
  /\ NothingIsInvented(answer.content)
  /\ Answered => AnswerArrives(answer.content) /\ StopIsTold(answer.stop) /\ UsageArrives(answer.usage)
AnswersArrive == exchange.kind = "stream" \/ Answered => IsReceived(AsReceived)

\* Positions of the frames that are such, and the last one before a position.
At(frames, kinds) == {i \in DOMAIN frames : frames[i].f \in kinds}
LastBefore(frames, i, kinds) == Max({0} \cup {j \in At(frames, kinds) : j < i})

\* Anthropic's grammar: one message, its blocks one after the other, every
\* delta inside of an open block of its own index and kind, and the reason
\* to stop when all blocks are closed.
MessagesGrammar ==
  exchange.kind = "stream" /\ exchange.to = "messages" =>
    LET edges  == {"content_block_start", "content_block_stop"}
        deltas == {"text_delta", "thinking_delta", "signature_delta", "input_json_delta"}
        Open(i) == LastBefore(sent, i, edges)
        IsOpen(i) == Open(i) # 0 /\ sent[Open(i)].f = "content_block_start"
    IN  /\ At(sent, edges \cup deltas \cup {"message_delta"}) # {} => sent[1].f = "message_start"
        /\ Cardinality(At(sent, {"message_start"})) <= 1
        /\ \A i \in At(sent, {"content_block_start"}) : ~IsOpen(i)
        /\ \A i \in At(sent, {"content_block_stop"}) : IsOpen(i) /\ sent[i].index = sent[Open(i)].index
        /\ \A i \in At(sent, deltas) :
             IsOpen(i) /\ sent[i].index = sent[Open(i)].index
               /\ sent[Open(i)].block = Messages!DeltaKind(sent[i].f)
        /\ \A i \in At(sent, {"message_delta"}) : ~IsOpen(i) /\ i >= Len(sent) - 1

\* The grammar of the Responses API: every frame the next sequence number, an
\* item announced before anything is said of it and done once, and a last
\* snapshot that holds just the items that were done, in their order.
ResponsesGrammar ==
  exchange.kind = "stream" /\ exchange.to = "responses" =>
    LET inside == {"part_added", "summary_added", "delta", "part_done", "content_part_done", "item_done"}
        added  == At(sent, {"item_added"})
        ended  == At(sent, {"item_done"})
        Of(i)  == {j \in added : j < i /\ sent[j].output = sent[i].output}
    IN  /\ \A i \in DOMAIN sent : sent[i].seq = i - 1
        /\ \A i \in At(sent, inside) :
             /\ Cardinality(Of(i)) = 1
             /\ ~ \E j \in ended : j < i /\ sent[j].output = sent[i].output
        /\ \A i, j \in added : i < j => sent[i].output < sent[j].output
        /\ \A i \in At(sent, {"completed"}) :
             /\ Cardinality(added) = Cardinality(ended)
             /\ Len(sent[i].response.output) = Cardinality(added)

\* A Chat client is opened an answer before anything is said in it, is told
\* each call's name and id before its arguments, and reads nothing of the
\* answer after the reason it ended for.
ChatGrammar ==
  exchange.kind = "stream" /\ exchange.to = "chat" =>
    LET chunks == At(sent, {"chunk"})
        Ends(i) == sent[i].finish # None
        Says(i) == sent[i].content \o sent[i].reasoning \o sent[i].refusal \o sent[i].calls # <<>>
        CallIn(i) == sent[i].calls[1]
        calling == {i \in chunks : sent[i].calls # <<>>}
    IN  /\ chunks # {} => sent[1] = Chat!Chunk
        /\ Cardinality({i \in chunks : Ends(i)}) <= 1
        /\ \A i, j \in chunks : Ends(i) /\ i < j => ~Says(j)
        /\ \A i \in calling :
             CallIn(i).name = <<>> =>
               \E j \in calling : j < i /\ CallIn(j).index = CallIn(i).index
                                    /\ CallIn(j).name # <<>> /\ CallIn(j).id # <<>>
        /\ {CallIn(i).index : i \in calling} = 0..(Cardinality({CallIn(i).index : i \in calling}) - 1)

\* A Gemini client reads one reason to stop and nothing that is said after
\* it; the calls of a Chat provider are the exception.
GeminiGrammar ==
  exchange.kind = "stream" /\ exchange.to = "gemini" =>
    LET ends == {i \in At(sent, {"chunk"}) : sent[i].finish # None}
    IN  /\ Cardinality(ends) <= 1
        /\ \A i \in ends : \A j \in (i + 1)..Len(sent) :
             \A p \in ToSet(sent[j].parts) : p.t = "call" /\ exchange.from = "chat"

\* The frames that tell a client that its stream has ended well.
Closing(p) ==
  {i \in DOMAIN sent :
     For(p, sent[i].f = "done", sent[i].f = "completed", sent[i].f = "message_stop",
         sent[i].f = "chunk" /\ sent[i].finish # None)}

\* A client is told once how its stream ended: that it is complete, if all of
\* it came, or that it failed, and of a stream that failed never that it is
\* complete (only Chat's end marker follows an error). A stream of Gemini has
\* no end of its own, so one that was cut short counts as complete.
EndIsTold ==
  exchange.kind = "stream" /\ phase = "ended" =>
    LET errors == At(sent, {"error"})
    IN  /\ ~pump.failed => Cardinality(Closing(exchange.to)) = 1 /\ errors = {}
        /\ ~pump.failed /\ exchange.from # "gemini" => Complete
        /\ pump.failed /\ ~pump.done =>
             /\ Cardinality(errors) = 1
             /\ exchange.to \in {"responses", "messages"} => Closing(exchange.to) = {}
             /\ exchange.to = "chat" => \A i \in Closing("chat"), j \in errors : j < i

\* The encoders of Responses and Messages are silent after the end, or after
\* an error, whatever the provider still sends or the connection does.
NothingAfterTheEnd ==
  [][exchange.kind = "stream" /\ exchange.to \in {"responses", "messages"}
       /\ (Closing(exchange.to) # {} \/ At(sent, {"error"}) # {})
     => sent' = sent]_vars

\* A stream is one its client's protocol allows, however the provider cuts its
\* own, and it ends once, with its end or with an error.
StreamsAreWellFormed ==
  /\ [](MessagesGrammar /\ ResponsesGrammar /\ ChatGrammar /\ GeminiGrammar /\ EndIsTold)
  /\ NothingAfterTheEnd

\* The blocks of a message are numbered from zero without gaps, which is
\* what the Messages encoder renumbers them for.
BlocksAreNumbered ==
  exchange.kind = "stream" /\ exchange.to = "messages" =>
    \A i \in At(sent, {"content_block_start"}) :
      sent[i].index = Cardinality({j \in At(sent, {"content_block_start"}) : j < i})

(***************************************************************************)
(* Texts                                                                   *)
(***************************************************************************)
Lines == Maps(LAMBDA x : x.line, exchange.lines)
\* How many bytes the first n lines have, and how many lines came whole.
Upto(n) == Len(FlattenSeq(Maps(LAMBDA x : BytesOf(x.line, x.crlf), SubSeq(exchange.lines, 1, n))))
Whole == CHOOSE n \in 0..Len(Lines) : Upto(n) <= got /\ (n = Len(Lines) \/ Upto(n + 1) > got)

\* The frame of the lines between two blank ones; lines without a field the
\* parser knows make none.
Group(lines) ==
  LET events == SelectSeq(lines, LAMBDA x : x.field = "event")
      data   == SelectSeq(lines, LAMBDA x : x.field = "data")
  IN  When(events # <<>> \/ data # <<>>,
           <<Frame(IF events = <<>> THEN None ELSE events[Len(events)].value,
                   Maps(LAMBDA x : x.value, data))>>)
BlankBefore(lines, i) == Max({0} \cup {j \in 1..(i - 1) : lines[j].field = "blank"})
Framed(lines) ==
  FlattenSeq([i \in DOMAIN lines |->
                When(lines[i].field = "blank", Group(SubSeq(lines, BlankBefore(lines, i) + 1, i - 1)))])

\* What finish adds to the lines: a data line whose end did not come, with
\* its value if all of it is there.
CutLine ==
  LET next == Lines[Whole + 1]
      came == got - Upto(Whole)
  IN  When(Whole < Len(Lines) /\ came > 0 /\ next.field = "data",
           <<Line("data", IF came >= 2 THEN next.value ELSE None)>>)

\* However the text is cut into chunks and its lines end, the frames are
\* those that were written: those closed by a blank line as soon as it came,
\* and the rest when the text ends.
FramesAreWhatWasWritten ==
  exchange.kind = "text" =>
    LET whole == SubSeq(Lines, 1, Whole)
        blank == Line("blank", None)
    IN  sent = IF phase = "open" THEN Framed(whole) ELSE Framed(whole \o CutLine \o <<blank>>)
============================================================================

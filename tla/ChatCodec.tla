------------------------------ MODULE ChatCodec ------------------------------
(***************************************************************************)
(* OpenAI Chat Completions: requests, responses and streams.               *)
(***************************************************************************)
EXTENDS StreamEvents

(***************************************************************************)
(* The wire.  A message has the fields of every role; an absent one is     *)
(* empty.  Content is a sequence of parts: a string is one text part, null *)
(* and "" are none.  Tools and unknown fields are fields with a kind:      *)
(* function, builtin, field.                                               *)
(***************************************************************************)
ChatMessage(role, content) ==
  [role |-> role, content |-> content, reasoning |-> <<>>, sig |-> <<>>, refusal |-> <<>>,
   calls |-> <<>>, call |-> <<>>]
ChatCall(id, name, args) == [id |-> id, name |-> name, args |-> args]
ChatMedia(kind, data) == [t |-> kind, data |-> data]   \* image_url, input_audio, file_data, file_id

ChatParams == {"temperature", "top_p", "frequency_penalty", "presence_penalty", "seed", "n", "user",
               "parallel"}
ChatRequest ==
  [messages |-> <<>>, tools |-> <<>>, choice |-> Unspecified, params |-> NoParams, stop |-> <<>>,
   max |-> None, stream |-> FALSE, usage |-> FALSE, effort |-> None, format |-> None,
   dropped |-> <<>>, unknown |-> <<>>]
ChatResponse ==
  [message |-> ChatMessage("assistant", <<>>), finish |-> None, usage |-> NoUsage, dropped |-> None,
   unknown |-> <<>>]

\* parse_content_part and parse_content
ParsePart(p) ==
  CASE p.t \in {"text", "refusal"} -> p
    [] p.t = "image_url"   -> Media("image", ParseDataUri(p.data))
    [] p.t = "input_audio" -> Media("audio", IF p.data.form = "bare" THEN Source("base64", p.data.v)
                                             ELSE ParseDataUri(p.data))
    [] p.t = "file_id"     -> Media("file", Source("file_id", p.data.v))
    [] p.t = "file_data"   -> Media("file", ParseDataUri(p.data))
ParseContent(parts) == Maps(ParsePart, parts)

\* part_json: an opaque part has no form here.
PartJson(p) ==
  CASE p.t \in {"text", "refusal"} -> <<p>>
    [] p.t = "image" -> <<ChatMedia("image_url", ToDataUri(p.source))>>
    [] p.t = "audio" -> <<ChatMedia("input_audio", IF p.source.k = "base64" THEN Wire("bare", p.source.v)
                                                   ELSE ToDataUri(p.source))>>
    [] p.t = "file"  -> <<IF p.source.k = "file_id" THEN ChatMedia("file_id", Wire("bare", p.source.v))
                          ELSE ChatMedia("file_data", ToDataUri(p.source))>>
    [] OTHER -> <<>>

\* content_json: texts alone become one string.
ContentJson(parts) ==
  IF AllText(parts) THEN TextPart(WordsOf(parts)) ELSE FlattenSeq(Maps(PartJson, parts))

ParseToolCalls(calls) == Maps(LAMBDA c : ToolUse(c.id, c.name, ArgsOf(c.args), <<>>), calls)
CallsOf(parts) == Maps(LAMBDA p : ChatCall(p.id, p.name, p.args), Only(parts, {"tool_use"}))
RefusalOf(parts) == FlattenSeq(Maps(LAMBDA p : p.text, Only(parts, {"refusal"})))

\* restore_dropped_parts: the thinking a response carried beside its message
\* goes back to the position it was taken from.
RestoreDropped(items, parts) ==
  FoldLeft(LAMBDA out, item : InsertAt(out, Minimum(item.position, Len(out)) + 1, item.part), parts, items)
DroppedFor(items, i) == SelectSeq(items, LAMBDA item : item.message = i)

(***************************************************************************)
(* Requests                                                                *)
(***************************************************************************)
ReasoningPart(m) == When(m.reasoning # <<>>, <<Thinking(m.reasoning, m.sig)>>)

\* A request is refused for a role it does not know and for a tool message
\* that names no call.
RejectsRequest(w) ==
  \E i \in DOMAIN w.messages :
    \/ w.messages[i].role \notin {"system", "developer", "user", "assistant", "tool"}
    \/ w.messages[i].role = "tool" /\ w.messages[i].call = <<>>

DecodeMessage(m, restored) ==
  CASE m.role = "user" -> <<Message("user", ParseContent(m.content))>>
    [] m.role = "assistant" ->
         LET parts == When(restored = <<>>, ReasoningPart(m)) \o ParseContent(m.content)
                        \o RefusalPart(m.refusal) \o ParseToolCalls(m.calls)
         IN  <<Message("assistant", RestoreDropped(restored, parts))>>
    [] m.role = "tool" ->
         <<Message("tool", <<ToolResult(m.call, <<>>, ParseContent(m.content), FALSE)>>)>>
    [] OTHER -> <<>>

DecodeRequest(w) ==
  LET system == SelectSeq(w.messages, LAMBDA m : m.role \in {"system", "developer"})
      named  == SelectSeq(w.tools, LAMBDA t : t.kind = "function")
      builtin == SelectSeq(w.tools, LAMBDA t : t.kind # "function")
  IN  [UnifiedRequest EXCEPT
         !.system    = FlattenSeq(Maps(LAMBDA m : ParseContent(m.content), system)),
         !.messages  = FlattenSeq([i \in DOMAIN w.messages |->
                                     DecodeMessage(w.messages[i], DroppedFor(w.dropped, i))]),
         !.tools     = Maps(LAMBDA t : t.v, named),
         !.choice    = IF w.choice.mode = "any" THEN Choice("required", <<>>) ELSE w.choice,
         !.params    = Restrict(w.params, DOMAIN w.params \cap ChatParams),
         !.stop      = w.stop, !.max = w.max, !.stream = w.stream, !.usage = w.usage,
         !.reasoning = IF w.effort = None THEN None ELSE Reasoning(w.effort, None, None),
         !.format    = w.format,
         !.ext       = Extension("chat", w.unknown \o builtin)]

\* encode_tool_result: a tool message holds text, so media follow as a user's.
EncodeToolResult(p) ==
  LET media == Only(p.content, MediaKinds)
      result == [ChatMessage("tool", ContentJson(Only(p.content, {"text"}))) EXCEPT !.call = p.id]
      note  == Text(<<"attachment">> \o p.id)
  IN  <<result>> \o When(media # <<>>,
        <<ChatMessage("user", <<note>> \o FlattenSeq(Maps(PartJson, media)))>>)

\* Mutant: what a user says beside tool results is forgotten.
EncodeResultsFirst(m) ==
  LET results == FlattenSeq(Maps(EncodeToolResult, Only(m.content, {"tool_result"})))
      visible == Without(m.content, {"tool_use", "refusal", "thinking", "redacted", "tool_result"})
      said    == [ChatMessage(m.role, ContentJson(visible)) EXCEPT
                    !.refusal = RefusalOf(m.content), !.calls = CallsOf(m.content)]
  IN  IF results # <<>> THEN results ELSE <<said>>
\* encode_message: a user's tool results come before what the user says; a
\* message of thinking alone disappears.
EncodeMessage(m) ==
  LET results == FlattenSeq(Maps(EncodeToolResult, Only(m.content, {"tool_result"})))
      visible == Without(m.content, {"tool_use", "refusal", "thinking", "redacted", "tool_result"})
      calls   == CallsOf(m.content)
      refusal == RefusalOf(m.content)
      empty   == visible = <<>> /\ calls = <<>> /\ Only(m.content, {"refusal"}) = <<>>
      said    == [ChatMessage(m.role, ContentJson(visible)) EXCEPT !.refusal = refusal, !.calls = calls]
  IN  IF m.role = "tool"
      THEN IF results # <<>> \/ m.content = <<>> THEN results
           ELSE <<ChatMessage("user", ContentJson(m.content))>>
      ELSE When(m.role = "user", results) \o When(~(empty /\ m.content # <<>>), <<said>>)

EncodeRequest(ir) ==
  LET system == When(ir.system # <<>>, <<ChatMessage("system", ContentJson(ir.system))>>)
  IN  [ChatRequest EXCEPT
         !.messages = system \o FlattenSeq(Maps(EncodeMessage, ir.messages)),
         !.tools    = Maps(LAMBDA n : Field("function", n), ir.tools) \o Restored(ir.ext, "chat", "builtin"),
         !.choice   = ir.choice,
         !.params   = Restrict(ir.params, DOMAIN ir.params \cap ChatParams),
         !.stop     = ir.stop, !.max = ir.max, !.stream = ir.stream,
         !.usage    = ir.stream /\ ir.usage,
         !.effort   = IF ir.reasoning = None THEN None
                      ELSE OrElse(ir.reasoning.effort, EffortOrFromBudget(ir.reasoning, ir.max)),
         !.format   = ir.format,
         !.unknown  = Restored(ir.ext, "chat", "field")]

(***************************************************************************)
(* Responses                                                               *)
(***************************************************************************)
FinishToIr(finish) ==
  CASE finish = "stop" -> "Stop" [] finish = "length" -> "MaxTokens"
    [] finish \in {"tool_calls", "function_call"} -> "ToolUse"
    [] finish = "content_filter" -> "ContentFilter" [] OTHER -> "Other"
StopToFinish(reason) ==
  CASE reason = "MaxTokens" -> "length" [] reason = "ToolUse" -> "tool_calls"
    [] reason = "ContentFilter" -> "content_filter" [] OTHER -> "stop"

\* parse_usage, usage_json: no count of written cache tokens on this wire.
UsageOf(u) == [u EXCEPT !.written = 0]

RejectsResponse(w) == FALSE

DecodeResponse(w) ==
  LET m     == w.message
      items == OrElse(w.dropped, <<>>)
      parts == When(w.dropped = None, ReasoningPart(m)) \o ParseContent(m.content)
                 \o RefusalPart(m.refusal) \o ParseToolCalls(m.calls)
  IN  [UnifiedResponse EXCEPT
         !.content = RestoreDropped(items, parts),
         !.stop    = IF w.finish = None THEN None ELSE FinishToIr(w.finish),
         !.usage   = UsageOf(w.usage),
         !.ext     = Extension("chat", w.unknown)]

EncodeResponse(ir) ==
  LET parts    == ir.content
      thought  == SelectSeq([i \in DOMAIN parts |-> [position |-> i - 1, part |-> parts[i]]],
                            LAMBDA item : item.part.t \in {"thinking", "redacted"})
      visible  == Without(parts, {"tool_use", "refusal", "thinking", "redacted", "tool_result"})
      thinking == FlattenSeq(Maps(LAMBDA p : p.text, Only(parts, {"thinking"})))
      message  == [ChatMessage("assistant", ContentJson(visible)) EXCEPT
                     !.reasoning = thinking, !.refusal = RefusalOf(parts), !.calls = CallsOf(parts)]
  IN  [ChatResponse EXCEPT
         !.message = message,
         !.finish  = IF ir.stop = None THEN None ELSE StopToFinish(ir.stop),
         !.usage   = UsageOf(ir.usage),
         !.dropped = IF thought = <<>> THEN None ELSE thought,
         !.unknown = Restored(ir.ext, "chat", "field")]

(***************************************************************************)
(* Streams.  A frame is the end marker, an error, a text that is no JSON,  *)
(* or a chunk: its delta, its finish reason and its usage.                 *)
(***************************************************************************)
ChatFrame(f) ==
  [f |-> f, reasoning |-> <<>>, sig |-> <<>>, content |-> <<>>, refusal |-> <<>>, calls |-> <<>>,
   finish |-> None, usage |-> None]
DoneFrame  == ChatFrame("done")
ErrorFrame == ChatFrame("error")
Chunk      == ChatFrame("chunk")
CallDelta(i, id, name, args) == [index |-> i, id |-> id, name |-> name, args |-> args]

TextIndex == 0
ToolIndexBase == 1

ToolSlot == [seen |-> FALSE, declared |-> FALSE, id |-> <<>>, name |-> <<>>, pending |-> <<>>]
NewDecoder == [started |-> FALSE, done |-> FALSE, tools |-> <<>>]

\* slot: the table grows to the index asked for.
Slots(tools, ti) ==
  [i \in 1..Maximum(Len(tools), ti + 1) |-> IF i <= Len(tools) THEN tools[i] ELSE ToolSlot]

ArgsEvents(ti, pieces) == Maps(LAMBDA w : ToolCallArgs(ToolIndexBase + ti, w), pieces)
Declare(slot, ti) ==
  <<ToolCallStart(ToolIndexBase + ti, slot.id, slot.name, <<>>)>> \o ArgsEvents(ti, slot.pending)

\* flush_undeclared_tools
FlushTools(tools) ==
  LET Waits(slot) == slot.seen /\ ~slot.declared
  IN  [tools |-> Maps(LAMBDA s : IF Waits(s) THEN [s EXCEPT !.declared = TRUE, !.pending = <<>>] ELSE s, tools),
       events |-> FlattenSeq([i \in DOMAIN tools |-> When(Waits(tools[i]), Declare(tools[i], i - 1))])]

\* One entry of delta.tool_calls: a tool is declared when its name and a
\* first piece of its arguments are there; pieces before the name wait.
TakeCall(acc, call) ==
  LET tools == Slots(acc.tools, call.index)
      old   == tools[call.index + 1]
      slot  == [old EXCEPT !.seen = TRUE, !.id = IF call.id # <<>> THEN call.id ELSE @,
                           !.name = @ \o call.name]
      held  == ~slot.declared /\ call.args # <<>> /\ slot.name = <<>>
      emit  == ~slot.declared /\ call.args # <<>> /\ slot.name # <<>>
      next  == IF held THEN [slot EXCEPT !.pending = Append(@, call.args)]
               ELSE IF emit THEN [slot EXCEPT !.declared = TRUE, !.pending = <<>>] ELSE slot
  IN  [tools  |-> [tools EXCEPT ![call.index + 1] = next],
       events |-> acc.events \o When(emit, Declare(slot, call.index))
                    \o When(call.args # <<>> /\ next.declared, ArgsEvents(call.index, <<call.args>>))]

DecodeFrame(d, frame) ==
  LET flushed == FlushTools(d.tools)
      called  == FoldLeft(TakeCall, [tools |-> d.tools, events |-> <<>>], frame.calls)
      ended   == FlushTools(called.tools)
      Says(w, ev) == When(w # <<>>, <<ev>>)
      deltas  == Says(frame.reasoning, ThinkingDelta(TextIndex, frame.reasoning))
                   \o Says(frame.sig, ThinkingSignature(TextIndex, frame.sig))
                   \o Says(frame.content, TextDelta(TextIndex, frame.content))
                   \o Says(frame.refusal, RefusalDelta(TextIndex, frame.refusal))
                   \o called.events
  IN  CASE frame.f = "broken" -> [d |-> d, events |-> <<>>]
        [] frame.f = "error"  -> [d |-> d, events |-> <<Error>>]
        [] frame.f = "done"   -> [d |-> [d EXCEPT !.done = TRUE, !.tools = flushed.tools],
                                  events |-> flushed.events \o <<Done>>]
        [] frame.f = "chunk"  ->
             [d |-> [d EXCEPT !.started = TRUE,
                              !.tools = IF frame.finish = None THEN called.tools ELSE ended.tools],
              events |-> When(~d.started, <<Start(None)>>) \o deltas
                           \o When(frame.finish # None,
                                   ended.events \o <<Stop(FinishToIr(frame.finish), None)>>)
                           \o When(frame.usage # None, <<UsageEvent(UsageOf(frame.usage))>>)]

FinishDecoder(d) ==
  LET flushed == FlushTools(d.tools)
  IN  IF d.done THEN [d |-> d, events |-> <<>>]
      ELSE [d |-> [d EXCEPT !.done = TRUE, !.tools = flushed.tools], events |-> flushed.events \o <<Done>>]

NewEncoder == [opened |-> FALSE, finished |-> FALSE, done |-> FALSE, sent |-> FALSE, usage |-> NoUsage,
               slots |-> <<>>]

\* A delta, after the chunk that opens the answer.
Open(s, frames) ==
  [s |-> [s EXCEPT !.opened = TRUE], frames |-> When(~s.opened, <<Chunk>>) \o frames]

\* tool_slot: tools are numbered in the order of their first event.
SlotFor(s, index) == IF Contains(s.slots, index) THEN s.slots ELSE Append(s.slots, index)
\* Mutant: the number is counted from the event's index.
SlotByIndex(s, index) == index - 1
SlotNumber(s, index) == SelectInSeq(SlotFor(s, index), LAMBDA i : i = index) - 1

WrapUp(s) ==
  IF s.done THEN [s |-> s, frames |-> <<>>]
  ELSE LET report == ~s.sent /\ ~IsEmpty(s.usage)
       IN  [s |-> [s EXCEPT !.done = TRUE, !.finished = @ \/ s.opened, !.sent = @ \/ report],
            frames |-> When(s.opened /\ ~s.finished, <<[Chunk EXCEPT !.finish = "stop"]>>)
                         \o When(report, <<[Chunk EXCEPT !.usage = UsageOf(s.usage)]>>)
                         \o <<DoneFrame>>]

Encode(s, ev) ==
  LET slotted == [s EXCEPT !.slots = SlotFor(s, ev.index)]
      Calls(call) == Open(slotted, <<[Chunk EXCEPT !.calls = <<call>>]>>)
  IN  CASE ev.e = "start"      -> Open([s EXCEPT !.usage = MergeMax(@, ev.usage)], <<>>)
        [] ev.e = "text"       -> Open(s, <<[Chunk EXCEPT !.content = ev.text]>>)
        [] ev.e = "thinking"   -> Open(s, <<[Chunk EXCEPT !.reasoning = ev.text]>>)
        [] ev.e = "signature"  -> Open(s, <<[Chunk EXCEPT !.sig = ev.sig]>>)
        [] ev.e = "refusal"    -> Open(s, <<[Chunk EXCEPT !.refusal = ev.text]>>)
        [] ev.e = "tool_start" -> Calls(CallDelta(SlotNumber(s, ev.index), ev.id, ev.name, <<>>))
        [] ev.e = "tool_args"  -> Calls(CallDelta(SlotNumber(s, ev.index), <<>>, <<>>, ev.text))
        [] ev.e = "usage"      -> [s |-> [s EXCEPT !.usage = MergeMax(@, ev.usage)], frames |-> <<>>]
        [] ev.e = "stop"       -> Open([s EXCEPT !.finished = TRUE],
                                       <<[Chunk EXCEPT !.finish = StopToFinish(ev.reason)]>>)
        [] ev.e = "done"       -> WrapUp(s)
        [] ev.e = "error"      -> [s |-> [s EXCEPT !.done = TRUE],
                                   frames |-> <<ErrorFrame>> \o When(~s.done, <<DoneFrame>>)]
        [] OTHER               -> [s |-> s, frames |-> <<>>]

FinishEncoder(s) == WrapUp(s)
=============================================================================

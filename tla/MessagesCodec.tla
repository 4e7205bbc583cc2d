---------------------------- MODULE MessagesCodec ----------------------------
(***************************************************************************)
(* Anthropic Messages: requests, responses and streams.                    *)
(*                                                                         *)
(* On the wire a message is a role and content blocks (a string is one     *)
(* text block), a media source names its kind, and a system prompt or a    *)
(* list of tools may bear a cache mark, which makes its raw form worth     *)
(* keeping.                                                                *)
(***************************************************************************)
EXTENDS StreamEvents

DefaultMaxTokens      == 4096
DynamicThinkingBudget == 8192
MinThinkingBudget     == 1024

MessagesParams == {"temperature", "top_p", "top_k", "user", "parallel"}
MessagesRequest ==
  [system |-> <<>>, messages |-> <<>>, tools |-> <<>>, cached |-> {}, choice |-> Unspecified,
   params |-> NoParams, stop |-> <<>>, max |-> None, stream |-> FALSE, thinking |-> None,
   metadata |-> <<>>, unknown |-> <<>>]
MessagesResponse ==
  [content |-> <<>>, stop |-> None, sequence |-> None, usage |-> NoUsage, unknown |-> <<>>]
ThinkingConfig(type, budget) == [type |-> type, budget |-> budget]

\* Blocks are the parts themselves, except for these.
Document(source)          == [t |-> "document", source |-> source]
Foreign(v)                == [t |-> "foreign", value |-> v]   \* a type this codec does not know
ResultBlock(id, content, failed) ==
  [t |-> "tool_result", id |-> id, content |-> content, failed |-> failed]
CallBlock(id, name, args) == [t |-> "tool_use", id |-> id, name |-> name, args |-> args]

\* decode_block inside a tool's result
DecodePlain(b) ==
  CASE b.t = "document" -> Media("file", b.source)
    [] b.t = "foreign"  -> Opaque("messages", b.value)
    [] OTHER            -> b
\* decode_block
DecodeBlock(b) ==
  CASE b.t = "tool_use"    -> ToolUse(b.id, b.name, b.args, <<>>)
    [] b.t = "tool_result" -> ToolResult(b.id, <<>>, Maps(DecodePlain, b.content), b.failed)
    [] OTHER               -> DecodePlain(b)
DecodeBlocks(blocks) == Maps(DecodeBlock, blocks)

\* encode_source: an Url of any form is one.
EncodeSource(s) == IF s.k = "bare" THEN Source("url", s.v) ELSE s

\* encode_block on a part without parts of its own
EncodePlain(p) ==
  CASE p.t = "image"             -> <<Media("image", EncodeSource(p.source))>>
    [] p.t \in {"file", "audio"} -> <<Document(EncodeSource(p.source))>>
    [] p.t = "refusal"           -> <<Text(p.text)>>
    [] p.t = "tool_use"          -> <<CallBlock(p.id, p.name, p.args)>>
    [] p.t = "opaque"            -> When(p.protocol = "messages", <<Foreign(p.value)>>)
    [] OTHER                     -> <<p>>
\* encode_tool_result_content: texts alone become one string.
EncodeResultContent(parts) ==
  IF AllText(parts) THEN TextPart(WordsOf(parts)) ELSE FlattenSeq(Maps(EncodePlain, parts))
EncodeBlock(p) ==
  IF p.t = "tool_result" THEN <<ResultBlock(p.id, EncodeResultContent(p.content), p.failed)>>
  ELSE EncodePlain(p)
EncodeBlocks(parts) == FlattenSeq(Maps(EncodeBlock, parts))

(***************************************************************************)
(* Requests                                                                *)
(***************************************************************************)
RejectsRequest(w) ==
  \/ w.max = None
  \/ \E i \in DOMAIN w.messages : w.messages[i].role \notin {"user", "assistant", "system"}

\* A user's message of tool results alone is the tools' message.
DecodeMessage(m) ==
  LET parts   == DecodeBlocks(m.content)
      results == parts # <<>> /\ Len(Only(parts, {"tool_result"})) = Len(parts)
  IN  Message(IF m.role = "user" /\ results THEN "tool" ELSE m.role, parts)

DecodeThinking(t) ==
  IF t = None THEN None
  ELSE IF t.type = "enabled" THEN Reasoning(None, t.budget, TRUE)
  ELSE Reasoning("none", None, FALSE)

\* Mutant: the wire's any is not translated.
DecodeChoiceAsIs(choice) == choice
DecodeToolChoice(choice) ==
  CASE choice.mode = "any" -> Choice("required", <<>>)
    [] choice.mode = "tool" /\ choice.name = <<>> -> Choice("required", <<>>)
    [] OTHER -> choice

DecodeRequest(w) ==
  LET function == SelectSeq(w.tools, LAMBDA t : t.kind = "function")
      server   == SelectSeq(w.tools, LAMBDA t : t.kind # "function")
  IN  [UnifiedRequest EXCEPT
         !.system    = DecodeBlocks(w.system),
         !.messages  = Maps(DecodeMessage, w.messages),
         !.tools     = Maps(LAMBDA t : t.v, function),
         !.choice    = DecodeToolChoice(w.choice),
         !.params    = Restrict(w.params, DOMAIN w.params \cap MessagesParams),
         !.stop      = w.stop, !.max = w.max, !.stream = w.stream, !.usage = w.stream,
         !.reasoning = DecodeThinking(w.thinking),
         !.ext       = Extension("messages",
                         w.unknown \o w.metadata \o server
                           \o When("system" \in w.cached, <<Field("system_raw", w.system)>>)
                           \o When("tools" \in w.cached, <<Field("tools_raw", function)>>))]

\* Mutant: neighbours of one role stay apart.
EncodeEach(messages) ==
  LET Role(m) == IF m.role = "assistant" THEN "assistant" ELSE "user"
  IN  SelectSeq(Maps(LAMBDA m : Message(Role(m), EncodeBlocks(m.content)), messages),
                LAMBDA m : m.content # <<>>)
\* encode_messages: tools and system speak as the user, neighbours of one role
\* are one message, empty messages are left out, and the first is a user's.
EncodeMessages(messages) ==
  LET Merge(out, m) ==
        LET role   == IF m.role = "assistant" THEN "assistant" ELSE "user"
            blocks == EncodeBlocks(m.content)
            joins  == out # <<>> /\ out[Len(out)].role = role
        IN  IF blocks = <<>> THEN out
            ELSE IF joins THEN [out EXCEPT ![Len(out)].content = @ \o blocks]
            ELSE Append(out, Message(role, blocks))
      merged == FoldLeft(Merge, <<>>, messages)
  IN  When(merged # <<>> /\ merged[1].role = "assistant", <<Message("user", <<Text(<<".">>)>>)>>)
        \o merged

\* encode_thinking: a budget below the maximum of the answer, or none.
EncodeThinking(r, max) ==
  LET budget == OrElse(BudgetOrFromEffort(r, max),
                       IF r.thoughts = TRUE THEN DynamicThinkingBudget ELSE None)
  IN  IF r.thoughts = FALSE \/ budget = None \/ max - 1 < MinThinkingBudget
      THEN ThinkingConfig("disabled", None)
      ELSE ThinkingConfig("enabled", Minimum(Maximum(budget, MinThinkingBudget), max - 1))

\* encode_tool_choice
EncodeToolChoice(choice, serial) ==
  CASE choice.mode = "required" -> Choice("any", <<>>)
    [] choice.mode = "unspecified" /\ serial -> Choice("auto", <<>>)
    [] OTHER -> choice

\* Sampling that Anthropic refuses beside thinking is left out; temperature
\* and top_p are in hundredths.
KeptParams(params, enabled) ==
  LET Keeps(f) ==
        CASE f = "temperature" -> ~enabled \/ params[f] = 100
          [] f = "top_p"       -> ~enabled \/ params[f] >= 95
          [] f = "top_k"       -> ~enabled
          [] f = "parallel"    -> ~params[f]
          [] OTHER             -> TRUE
  IN  {f \in DOMAIN params \cap MessagesParams : Keeps(f)}

EncodeRequest(ir) ==
  LET max      == OrElse(ir.max, DefaultMaxTokens)
      thinking == IF ir.reasoning = None THEN None ELSE EncodeThinking(ir.reasoning, max)
      enabled  == thinking # None /\ thinking.type = "enabled"
      serial   == "parallel" \in DOMAIN ir.params /\ ~ir.params["parallel"]
      rawSystem == Restored(ir.ext, "messages", "system_raw")
      rawTools  == Restored(ir.ext, "messages", "tools_raw")
  IN  [MessagesRequest EXCEPT
         !.system   = IF rawSystem # <<>> THEN rawSystem[1].v
                      ELSE IF AllText(ir.system) THEN TextPart(WordsOf(ir.system))
                      ELSE EncodeBlocks(ir.system),
         !.messages = EncodeMessages(ir.messages),
         !.tools    = (IF rawTools # <<>> THEN rawTools[1].v
                       ELSE Maps(LAMBDA n : Field("function", n), ir.tools))
                        \o Restored(ir.ext, "messages", "server"),
         !.cached   = {c \in {"system", "tools"} : IF c = "system" THEN rawSystem # <<>> ELSE rawTools # <<>>},
         !.choice   = EncodeToolChoice(ir.choice, serial),
         !.params   = Restrict(ir.params, KeptParams(ir.params, enabled)),
         !.stop     = ir.stop, !.max = max, !.stream = ir.stream, !.thinking = thinking,
         !.metadata = Restored(ir.ext, "messages", "metadata"),
         !.unknown  = Restored(ir.ext, "messages", "field")]

(***************************************************************************)
(* Responses                                                               *)
(***************************************************************************)
DecodeStop(reason) ==
  CASE reason = "end_turn" -> "Stop" [] reason = "max_tokens" -> "MaxTokens"
    [] reason = "stop_sequence" -> "StopSequence" [] reason = "tool_use" -> "ToolUse"
    [] reason = "refusal" -> "Refusal" [] reason = "pause_turn" -> "PauseTurn" [] OTHER -> "Other"
EncodeStop(reason) ==
  CASE reason = "MaxTokens" -> "max_tokens" [] reason = "StopSequence" -> "stop_sequence"
    [] reason = "ToolUse" -> "tool_use" [] reason \in {"Refusal", "ContentFilter"} -> "refusal"
    [] reason = "PauseTurn" -> "pause_turn" [] OTHER -> "end_turn"

\* decode_usage, encode_usage: no count of reasoning tokens on this wire.
UsageOf(u) == [u EXCEPT !.reasoning = 0]

DecodeResponse(w) ==
  [UnifiedResponse EXCEPT
     !.content  = DecodeBlocks(w.content),
     !.stop     = IF w.stop = None THEN None ELSE DecodeStop(w.stop),
     !.sequence = w.sequence,
     !.usage    = UsageOf(w.usage),
     !.ext      = Extension("messages", w.unknown)]

EncodeResponse(ir) ==
  [MessagesResponse EXCEPT
     !.content  = EncodeBlocks(ir.content),
     !.stop     = IF ir.stop = None THEN None ELSE EncodeStop(ir.stop),
     !.sequence = ir.sequence,
     !.usage    = UsageOf(ir.usage),
     !.unknown  = Restored(ir.ext, "messages", "field")]

(***************************************************************************)
(* Streams                                                                 *)
(***************************************************************************)
MFrame(f, i) == [f |-> f, index |-> i, block |-> None, id |-> <<>>, name |-> <<>>, text |-> <<>>,
                 sig |-> <<>>, usage |-> NoUsage, stop |-> None, sequence |-> None]
MessageStart(u)             == [MFrame("message_start", 0) EXCEPT !.usage = u]
BlockStart(i, block)        == [MFrame("content_block_start", i) EXCEPT !.block = block]
ToolStart(i, id, name)      == [BlockStart(i, "tool_use") EXCEPT !.id = id, !.name = name]
Delta(kind, i, w)           == [MFrame(kind, i) EXCEPT !.text = w]  \* text_delta, thinking_delta, input_json_delta
SignatureDelta(i, sig)      == [MFrame("signature_delta", i) EXCEPT !.sig = sig]
BlockStop(i)                == MFrame("content_block_stop", i)
MessageDelta(stop, sequence, u) ==
  [MFrame("message_delta", 0) EXCEPT !.stop = stop, !.sequence = sequence, !.usage = u]
MessageStop                 == MFrame("message_stop", 0)
PingFrame                   == MFrame("ping", 0)
ErrorFrame                  == MFrame("error", 0)

NewDecoder == [started |-> {}, done |-> FALSE]

KindOfBlock(block) ==
  CASE block \in {"thinking", "redacted_thinking"} -> "thinking"
    [] block \in {"tool_use", "server_tool_use"}   -> "tool_use"
    [] OTHER                                       -> "text"

DeltaKind(f) ==
  CASE f = "text_delta" -> "text" [] f = "input_json_delta" -> "tool_use" [] OTHER -> "thinking"
DeltaEvent(frame) ==
  CASE frame.f = "text_delta"       -> TextDelta(frame.index, frame.text)
    [] frame.f = "thinking_delta"   -> ThinkingDelta(frame.index, frame.text)
    [] frame.f = "signature_delta"  -> ThinkingSignature(frame.index, frame.sig)
    [] frame.f = "input_json_delta" -> ToolCallArgs(frame.index, frame.text)

\* A block whose start the upstream left out is started by its first delta.
DecodeFrame(d, frame) ==
  LET i    == frame.index
      kind == KindOfBlock(frame.block)
      begun == [d EXCEPT !.started = @ \cup {i}]
  IN  CASE frame.f = "message_start" -> [d |-> d, events |-> <<Start(UsageOf(frame.usage))>>]
        [] frame.f = "content_block_start" ->
             [d |-> begun,
              events |-> <<ContentStart(i, kind)>>
                           \o When(kind = "tool_use", <<ToolCallStart(i, frame.id, frame.name, <<>>)>>)
                           \o When(frame.text # <<>>, <<IF kind = "thinking" THEN ThinkingDelta(i, frame.text)
                                                        ELSE TextDelta(i, frame.text)>>)]
        [] frame.f \in {"text_delta", "thinking_delta", "signature_delta", "input_json_delta"} ->
             [d |-> begun,
              events |-> When(i \notin d.started, <<ContentStart(i, DeltaKind(frame.f))>>)
                           \o <<DeltaEvent(frame)>>]
        [] frame.f = "content_block_stop" -> [d |-> d, events |-> <<ContentStop(i)>>]
        [] frame.f = "message_delta" ->
             [d |-> d,
              events |-> <<UsageEvent(UsageOf(frame.usage))>>
                           \o When(frame.stop # None, <<Stop(DecodeStop(frame.stop), frame.sequence)>>)]
        [] frame.f = "message_stop" -> [d |-> [d EXCEPT !.done = TRUE], events |-> <<Done>>]
        [] frame.f = "done"  -> [d |-> [d EXCEPT !.done = TRUE], events |-> When(~d.done, <<Done>>)]
        [] frame.f = "ping"  -> [d |-> d, events |-> <<Ping>>]
        [] frame.f = "error" -> [d |-> d, events |-> <<Error>>]
        [] OTHER             -> [d |-> d, events |-> <<>>]

FinishDecoder(d) ==
  [d |-> [d EXCEPT !.done = TRUE], events |-> When(~d.done, <<Done>>)]

\* remap: the blocks' numbers on the wire, in the order of their first event;
\* open: the block that is open, or None.
NewEncoder == [started |-> FALSE, input |-> NoUsage, remap |-> <<>>, open |-> None, usage |-> NoUsage,
               stop |-> None, sequence |-> None, finished |-> FALSE]

OpenBlock(index, kind) == [index |-> index, kind |-> kind]
FreshToolId == <<"toolu">>

EnsureStarted(s) ==
  [s |-> [s EXCEPT !.started = TRUE], frames |-> When(~s.started, <<MessageStart(UsageOf(s.input))>>)]

\* anth_index
Mapped(s, i) == IF Contains(s.remap, i) THEN s ELSE [s EXCEPT !.remap = Append(@, i)]
NumberOf(s, i) == SelectInSeq(Mapped(s, i).remap, LAMBDA x : x = i) - 1

CloseOpen(s) == [s |-> [s EXCEPT !.open = None], frames |-> When(s.open # None, <<BlockStop(s.open.index)>>)]

\* Mutant: the block before stays open.
BeginInside(s, i, kind, start) ==
  LET opened == EnsureStarted(s)
  IN  [s |-> [Mapped(opened.s, i) EXCEPT !.open = OpenBlock(NumberOf(s, i), kind)],
       frames |-> opened.frames \o <<start>>]
\* A block's start, after what has to come before it.
Begin(s, i, kind, start) ==
  LET opened == EnsureStarted(s)
      closed == CloseOpen(opened.s)
  IN  [s |-> [Mapped(closed.s, i) EXCEPT !.open = OpenBlock(NumberOf(s, i), kind)],
       frames |-> opened.frames \o closed.frames \o <<start>>]

\* open_block: nothing to do if this very block is open.
Opened(s, i, kind) ==
  LET block == CASE kind = "thinking" -> "thinking" [] kind = "tool_use" -> "tool_use" [] OTHER -> "text"
  IN  IF s.open = OpenBlock(NumberOf(s, i), kind) THEN [s |-> s, frames |-> <<>>]
      ELSE Begin(s, i, kind, BlockStart(NumberOf(s, i), block))

\* open_tool_block: a tool's block always starts anew.
OpenedTool(s, i, id, name) ==
  Begin(s, i, "tool_use", ToolStart(NumberOf(s, i), IF id = <<>> THEN FreshToolId ELSE id, name))

WithDelta(step, frame) == [step EXCEPT !.frames = Append(@, frame)]

WrapUp(s) ==
  LET opened == EnsureStarted(s)
      closed == CloseOpen(opened.s)
      reason == OrElse(s.stop, "Stop")
  IN  IF s.finished THEN [s |-> s, frames |-> <<>>]
      ELSE [s |-> [closed.s EXCEPT !.finished = TRUE],
            frames |-> opened.frames \o closed.frames
                         \o <<MessageDelta(EncodeStop(reason), s.sequence, UsageOf(s.usage)), MessageStop>>]

EncodeOpen(s, ev) ==
  LET n == NumberOf(s, ev.index)
  IN  CASE ev.e = "start" ->
             EnsureStarted(IF s.started THEN s ELSE [s EXCEPT !.input = OrElse(ev.usage, @), !.usage = OrElse(ev.usage, @)])
        [] ev.e = "content_start" ->
             IF ev.kind = "tool_use" THEN [s |-> s, frames |-> <<>>] ELSE Opened(s, ev.index, ev.kind)
        [] ev.e = "text"      -> WithDelta(Opened(s, ev.index, "text"), Delta("text_delta", n, ev.text))
        [] ev.e = "refusal"   -> WithDelta(Opened(s, ev.index, "refusal"), Delta("text_delta", n, ev.text))
        [] ev.e = "thinking"  -> WithDelta(Opened(s, ev.index, "thinking"), Delta("thinking_delta", n, ev.text))
        [] ev.e = "signature" -> WithDelta(Opened(s, ev.index, "thinking"), SignatureDelta(n, ev.sig))
        [] ev.e = "tool_start" -> OpenedTool(s, ev.index, ev.id, ev.name)
        [] ev.e = "tool_args" ->
             LET m == Mapped(s, ev.index)
             IN  WithDelta(IF s.open = OpenBlock(n, "tool_use") THEN [s |-> m, frames |-> <<>>]
                           ELSE OpenedTool(m, ev.index, <<>>, <<>>),
                           Delta("input_json_delta", n, ev.text))
        [] ev.e = "content_stop" ->
             LET m == Mapped(s, ev.index)
             IN  IF m.open # None /\ m.open.index = n THEN CloseOpen(m) ELSE [s |-> m, frames |-> <<>>]
        [] ev.e = "usage" -> [s |-> [s EXCEPT !.usage = MergeMax(@, ev.usage)], frames |-> <<>>]
        [] ev.e = "stop"  -> [s |-> [s EXCEPT !.stop = ev.reason, !.sequence = OrElse(ev.sequence, @)],
                              frames |-> <<>>]
        [] ev.e = "done"  -> WrapUp(s)
        [] ev.e = "ping"  -> [s |-> s, frames |-> <<PingFrame>>]
        [] ev.e = "error" -> [s |-> [s EXCEPT !.finished = TRUE], frames |-> <<ErrorFrame>>]

Encode(s, ev) == IF s.finished THEN [s |-> s, frames |-> <<>>] ELSE EncodeOpen(s, ev)
FinishEncoder(s) == WrapUp(s)
=============================================================================

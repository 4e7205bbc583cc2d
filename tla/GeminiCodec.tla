------------------------------ MODULE GeminiCodec ------------------------------
(***************************************************************************)
(* Google Gemini: requests, responses and streams.                         *)
(*                                                                         *)
(* A part is a text, a thought, inline data, a file, a call, a response to *)
(* a call or something this codec does not know.  A call without an id     *)
(* gets one from its name and its number, which no encoder sends back.     *)
(***************************************************************************)
EXTENDS StreamEvents

GText(w)                     == [t |-> "text", text |-> w]
GThought(w, sig)             == [t |-> "thought", text |-> w, sig |-> sig]
GInline(mime, v)             == [t |-> "inline", mime |-> mime, data |-> v]   \* mime: image, audio or other
GFile(mime, v)               == [t |-> "file", mime |-> mime, data |-> v]
GCall(id, name, args, sig)   == [t |-> "call", id |-> id, name |-> name, args |-> args, sig |-> sig]
GResult(id, name, payload)   == [t |-> "result", id |-> id, name |-> name, payload |-> payload]
GForeign(v)                  == [t |-> "foreign", value |-> v]
Content(role, parts)         == [role |-> role, parts |-> parts]

GeminiParams == {"temperature", "top_p", "top_k", "seed", "n"}
GeminiRequest ==
  [contents |-> <<>>, system |-> <<>>, tools |-> <<>>, choice |-> "unspecified", allowed |-> <<>>,
   params |-> NoParams, stop |-> <<>>, max |-> None, format |-> None, thinking |-> None,
   unknown |-> <<>>]
GeminiResponse ==
  [parts |-> <<>>, finish |-> None, usage |-> NoUsage, blocked |-> FALSE, error |-> FALSE,
   unknown |-> <<>>]
Dynamic == 0 - 1     \* the budget that leaves thinking to the model

(***************************************************************************)
(* Parts                                                                   *)
(***************************************************************************)
\* fallback_call_id and is_synthetic_call_id
Numeral(i) == "#" \o ToString(i)
FallbackId(id, name, i) == IF id # <<>> THEN id ELSE Append(name, Numeral(i))
IsSynthetic(id, name) == id = name \/ \E i \in 0..9 : id = Append(name, Numeral(i))
\* Mutant: no id is sent back.
NoId(id, name) == <<>>
SentId(id, name) == IF IsSynthetic(id, name) THEN <<>> ELSE id

MediaPart(mime, source) == Media(IF mime \in {"image", "audio"} THEN mime ELSE "file", source)
\* part_mime: a URL or a file's id comes without one, unless it is audio.
MimeOf(p) == IF p.t = "audio" \/ (p.t = "image" /\ p.source.k \in {"base64", "text"}) THEN p.t ELSE "other"

\* A result is a JSON object; a text that is none is put under a key.
IsObject(w) == w # <<>> /\ w[1] \in {"output:", "error:"}
Payload(w, failed) == IF IsObject(w) THEN w ELSE <<IF failed THEN "error:" ELSE "output:">> \o w

DecodePart(p, i) ==
  CASE p.t = "text"    -> Text(p.text)
    [] p.t = "thought" -> Thinking(p.text, p.sig)
    [] p.t = "inline"  -> MediaPart(p.mime, Source("base64", p.data))
    [] p.t = "file"    -> MediaPart(p.mime, Source("file_id", p.data))
    [] p.t = "call"    -> ToolUse(FallbackId(p.id, p.name, i), p.name, p.args, p.sig)
    [] p.t = "result"  -> ToolResult(FallbackId(p.id, p.name, i), p.name, <<Text(p.payload)>>,
                                     p.payload # <<>> /\ p.payload[1] = "error:")
    [] p.t = "foreign" -> Opaque("gemini", p.value)

\* decode_parts: tools are numbered within their message.
IsTool(p) == p.t \in {"call", "result"}
DecodeParts(parts) ==
  [i \in DOMAIN parts |-> DecodePart(parts[i], Len(SelectSeq(SubSeq(parts, 1, i - 1), IsTool)))]

\* encode_part; names are those of the calls in the conversation, by id.
EncodePart(p, names) ==
  CASE p.t = "text"     -> <<GText(p.text)>>
    [] p.t = "thinking" -> <<GThought(p.text, p.sig)>>
    [] p.t \in MediaKinds ->
         <<IF p.source.k \in {"base64", "text"} THEN GInline(MimeOf(p), p.source.v)
           ELSE GFile(MimeOf(p), p.source.v)>>
    [] p.t = "tool_use" -> <<GCall(SentId(p.id, p.name), p.name, p.args, p.sig)>>
    [] p.t = "tool_result" ->
         LET name == IF p.name # <<>> THEN p.name ELSE IF p.id \in DOMAIN names THEN names[p.id] ELSE p.id
         IN  <<GResult(SentId(p.id, name), name, Payload(WordsOf(p.content), p.failed))>>
    [] p.t = "opaque"   -> When(p.protocol = "gemini", <<GForeign(p.value)>>)
    [] OTHER            -> <<>>
NoNames == [id \in {} |-> <<>>]
EncodeParts(parts, names) == FlattenSeq(Maps(LAMBDA p : EncodePart(p, names), parts))

(***************************************************************************)
(* Requests                                                                *)
(***************************************************************************)
RejectsRequest(w) == w.contents = None \/ \E i \in DOMAIN w.tools : w.tools[i] = Field("function", <<>>)

DecodeContent(c) ==
  LET parts   == DecodeParts(c.parts)
      results == parts # <<>> /\ Only(parts, {"tool_result"}) = parts
  IN  Message(CASE c.role = "model" -> "assistant"
                [] c.role = "function" \/ (c.role # "model" /\ results) -> "tool"
                [] OTHER -> "user", parts)

DecodeChoice(mode, allowed) ==
  CASE mode = "any" /\ Len(allowed) = 1 -> Choice("tool", allowed[1])
    [] mode = "any" -> Choice("required", <<>>)
    [] OTHER -> Choice(mode, <<>>)

DecodeThinking(t) ==
  LET budget == IF t.budget = Dynamic THEN None ELSE t.budget
  IN  IF budget = None /\ t.thoughts = None THEN None ELSE Reasoning(None, budget, t.thoughts)

DecodeRequest(w) ==
  LET function == SelectSeq(w.tools, LAMBDA t : t.kind = "function")
      builtin  == SelectSeq(w.tools, LAMBDA t : t.kind # "function")
      choice   == DecodeChoice(w.choice, w.allowed)
      dynamic  == w.thinking # None /\ w.thinking.budget = Dynamic
  IN  [UnifiedRequest EXCEPT
         !.system    = DecodeParts(w.system),
         !.messages  = Maps(DecodeContent, w.contents),
         !.tools     = Maps(LAMBDA t : t.v, function),
         !.choice    = choice,
         !.params    = Restrict(w.params, DOMAIN w.params \cap GeminiParams),
         !.stop      = w.stop, !.max = w.max, !.usage = TRUE,
         !.reasoning = IF w.thinking = None THEN None ELSE DecodeThinking(w.thinking),
         !.format    = w.format,
         !.ext       = Extension("gemini",
                         w.unknown \o builtin
                           \o When(dynamic, <<Field("dynamic", TRUE)>>)
                           \o When(choice.mode = "required" /\ w.allowed # <<>>,
                                   <<Field("allowed", w.allowed)>>))]

\* The names of the calls of a conversation, by their ids; the last counts.
NamesOf(messages) ==
  LET calls == FlattenSeq(Maps(LAMBDA m : Only(m.content, {"tool_use"}), messages))
  IN  FoldLeft(LAMBDA f, c : (c.id :> c.name) @@ f, NoNames, calls)

\* Neighbours of one role are one content, and empty ones are left out.
EncodeContents(messages, names) ==
  LET Merge(out, m) ==
        LET role  == IF m.role = "assistant" THEN "model" ELSE "user"
            parts == EncodeParts(m.content, names)
        IN  IF parts = <<>> THEN out
            ELSE IF out # <<>> /\ out[Len(out)].role = role
            THEN [out EXCEPT ![Len(out)].parts = @ \o parts]
            ELSE Append(out, Content(role, parts))
  IN  FoldLeft(Merge, <<>>, messages)

EncodeThinking(r, max, dynamic) ==
  LET budget == IF dynamic THEN Dynamic ELSE BudgetOrFromEffort(r, max)
  IN  IF budget = None /\ r.thoughts = None THEN None ELSE [budget |-> budget, thoughts |-> r.thoughts]

EncodeRequest(ir) ==
  LET names   == NamesOf(ir.messages)
      spoken  == SelectSeq(ir.messages, LAMBDA m : m.role # "system")
      orders  == SelectSeq(ir.messages, LAMBDA m : m.role = "system")
      allowed == Restored(ir.ext, "gemini", "allowed")
      dynamic == Restored(ir.ext, "gemini", "dynamic") # <<>>
  IN  [GeminiRequest EXCEPT
         !.contents = EncodeContents(spoken, names),
         !.system   = EncodeParts(ir.system \o FlattenSeq(Maps(LAMBDA m : m.content, orders)), names),
         !.tools    = Maps(LAMBDA n : Field("function", n), ir.tools) \o Restored(ir.ext, "gemini", "builtin"),
         !.choice   = IF ir.choice.mode \in {"required", "tool"} THEN "any" ELSE ir.choice.mode,
         !.allowed  = CASE ir.choice.mode = "tool" -> <<ir.choice.name>>
                        [] ir.choice.mode = "required" /\ allowed # <<>> -> allowed[1].v
                        [] OTHER -> <<>>,
         !.params   = Restrict(ir.params, DOMAIN ir.params \cap GeminiParams),
         !.stop     = ir.stop, !.max = ir.max, !.format = ir.format,
         !.thinking = IF ir.reasoning = None THEN None ELSE EncodeThinking(ir.reasoning, ir.max, dynamic),
         !.unknown  = Restored(ir.ext, "gemini", "field")]

(***************************************************************************)
(* Responses                                                               *)
(***************************************************************************)
StopFrom(raw) ==
  CASE raw = "STOP" -> "Stop" [] raw = "MAX_TOKENS" -> "MaxTokens"
    [] raw \in {"SAFETY", "RECITATION", "BLOCKLIST", "PROHIBITED_CONTENT", "SPII"} -> "ContentFilter"
    [] OTHER -> "Other"
StopTo(reason) ==
  CASE reason \in {"Stop", "ToolUse", "StopSequence"} -> "STOP" [] reason = "MaxTokens" -> "MAX_TOKENS"
    [] reason = "ContentFilter" -> "SAFETY" [] OTHER -> "OTHER"
\* Mutant: STOP is the end of a turn.
StopPlain(raw, called) == StopFrom(raw)
\* A turn that called a tool ends in STOP too.
StopOf(raw, called) == IF StopFrom(raw) = "Stop" /\ called THEN "ToolUse" ELSE StopFrom(raw)

\* parse_usage, encode_usage: output is counted without thoughts on the wire.
ParseUsage(u)  == [u EXCEPT !.output = @ + u.reasoning, !.written = 0]
EncodeUsage(u) == [u EXCEPT !.output = Maximum(@ - u.reasoning, 0), !.written = 0]

RejectsResponse(w) == w.error

DecodeResponse(w) ==
  LET content == DecodeParts(w.parts)
  IN  [UnifiedResponse EXCEPT
         !.content = content,
         !.stop    = IF w.finish # None THEN StopOf(w.finish, Only(content, {"tool_use"}) # <<>>)
                     ELSE IF w.blocked THEN "ContentFilter" ELSE None,
         !.usage   = ParseUsage(w.usage),
         !.ext     = Extension("gemini", w.unknown
                       \o When(w.finish # None, <<Field("finish", w.finish)>>)
                       \o When(w.blocked, <<Field("blocked", TRUE)>>))]

EncodeResponse(ir) ==
  LET finish == Restored(ir.ext, "gemini", "finish")
  IN  [GeminiResponse EXCEPT
         !.parts   = EncodeParts(ir.content, NoNames),
         !.finish  = IF finish # <<>> THEN finish[1].v ELSE IF ir.stop = None THEN None ELSE StopTo(ir.stop),
         !.usage   = EncodeUsage(ir.usage),
         !.blocked = Restored(ir.ext, "gemini", "blocked") # <<>>,
         !.unknown = Restored(ir.ext, "gemini", "field")]

(***************************************************************************)
(* Streams: every frame is a response; nothing says where they end.        *)
(***************************************************************************)
GFrame(f)  == [f |-> f, parts |-> <<>>, finish |-> None, usage |-> None]
Chunk      == GFrame("chunk")
ErrorFrame == GFrame("error")

NewDecoder == [started |-> FALSE, index |-> 0, open |-> None, stopped |-> FALSE, done |-> FALSE,
               called |-> FALSE, tools |-> 0]

\* switch: another kind of part, or a call, is a new block.
Switch(step, kind) ==
  LET d    == step.d
      keep == d.open = kind /\ kind # "tool_use"
      next == IF d.open = None THEN d.index ELSE d.index + 1
  IN  IF keep THEN step
      ELSE [d |-> [d EXCEPT !.index = next, !.open = kind],
            events |-> step.events \o When(d.open # None, <<ContentStop(d.index)>>)
                         \o <<ContentStart(next, kind)>>]

Saying(step, events) == [step EXCEPT !.events = @ \o events]

TakePart(step, raw) ==
  LET part    == DecodePart(raw, step.d.tools)
      text    == Switch(step, "text")
      thought == Switch(step, "thinking")
      tool    == Switch([step EXCEPT !.d.tools = @ + 1], "tool_use")
      i       == tool.d.index
  IN  CASE part.t = "text" -> Saying(text, <<TextDelta(text.d.index, part.text)>>)
        [] part.t = "thinking" ->
             Saying(thought, <<ThinkingDelta(thought.d.index, part.text)>>
                               \o When(part.sig # <<>>, <<ThinkingSignature(thought.d.index, part.sig)>>))
        [] part.t = "tool_use" ->
             [d |-> [tool.d EXCEPT !.open = None, !.index = @ + 1, !.called = TRUE],
              events |-> tool.events \o <<ToolCallStart(i, part.id, part.name, part.sig),
                                          ToolCallArgs(i, part.args), ContentStop(i)>>]
        [] OTHER -> step

DecodeFrame(d, frame) ==
  LET begun == [d |-> [d EXCEPT !.started = TRUE], events |-> When(~d.started, <<Start(None)>>)]
      parts == FoldLeft(TakePart, begun, frame.parts)
      used  == Saying(parts, When(frame.usage # None, <<UsageEvent(ParseUsage(OrElse(frame.usage, NoUsage)))>>))
      e     == used.d
  IN  CASE frame.f = "error" -> [d |-> d, events |-> <<Error>>]
        [] frame.f = "chunk" ->
             IF frame.finish = None \/ e.stopped THEN used
             ELSE [d |-> [e EXCEPT !.stopped = TRUE, !.open = None],
                   events |-> used.events \o When(e.open # None, <<ContentStop(e.index)>>)
                                \o <<Stop(StopOf(frame.finish, e.called), None)>>]
        [] OTHER -> [d |-> d, events |-> <<>>]

FinishDecoder(d) ==
  [d |-> [d EXCEPT !.open = None, !.done = TRUE],
   events |-> When(d.open # None, <<ContentStop(d.index)>>) \o When(~d.done, <<Done>>)]

\* calls: those that are being gathered, by index; usage: what no frame has told.
NewEncoder == [usage |-> None, finished |-> FALSE, calls |-> [i \in {} |-> None]]
Buffer(id, name, sig) == [id |-> id, name |-> name, args |-> <<>>, sig |-> sig]

Pending(s, u) == [s EXCEPT !.usage = MergeMax(OrElse(@, NoUsage), u)]
PartFrame(part) == [Chunk EXCEPT !.parts = <<part>>]

\* flush_tool_call: arguments that do not parse are replaced by {}.
CallFrame(b) ==
  PartFrame(GCall(SentId(b.id, b.name), b.name, IF IsComplete(b.args) THEN b.args ELSE EmptyObject, b.sig))
Without1(calls, i) == Restrict(calls, DOMAIN calls \ {i})

\* stop_frame: the usage that is pending goes with the reason.
StopFrame(s, reason) ==
  [Chunk EXCEPT !.finish = StopTo(reason), !.usage = IF s.usage = None THEN None ELSE EncodeUsage(s.usage)]

Encode(s, ev) ==
  LET Says(part) == [s |-> s, frames |-> <<PartFrame(part)>>]
      Keeps(t)   == [s |-> t, frames |-> <<>>]
      begun(i)   == IF i \in DOMAIN s.calls THEN s.calls[i] ELSE Buffer(<<>>, <<>>, <<>>)
  IN  CASE ev.e \in {"text", "refusal"} -> Says(GText(ev.text))
        [] ev.e = "thinking"  -> Says(GThought(ev.text, <<>>))
        [] ev.e = "signature" -> Says(GThought(<<>>, ev.sig))
        [] ev.e = "tool_start" ->
             Keeps([s EXCEPT !.calls = (ev.index :> Buffer(ev.id, ev.name, ev.sig)) @@ @])
        [] ev.e = "tool_args" ->
             Keeps([s EXCEPT !.calls =
                      (ev.index :> [begun(ev.index) EXCEPT !.args = @ \o ev.text]) @@ @])
        [] ev.e = "content_stop" ->
             IF ev.index \in DOMAIN s.calls
             THEN [s |-> [s EXCEPT !.calls = Without1(@, ev.index)], frames |-> <<CallFrame(s.calls[ev.index])>>]
             ELSE Keeps(s)
        [] ev.e \in {"start", "usage"} -> Keeps(IF ev.usage = None THEN s ELSE Pending(s, ev.usage))
        [] ev.e = "stop"  -> [s |-> [s EXCEPT !.finished = TRUE, !.usage = None],
                              frames |-> <<StopFrame(s, ev.reason)>>]
        [] ev.e = "error" -> [s |-> s, frames |-> <<ErrorFrame>>]
        [] OTHER          -> Keeps(s)

\* Mutant: calls that were not closed are left.
FinishWithout(s) ==
  [s |-> [s EXCEPT !.finished = TRUE, !.usage = None],
   frames |-> IF ~s.finished THEN <<StopFrame(s, "Stop")>>
              ELSE When(s.usage # None, <<[Chunk EXCEPT !.usage = EncodeUsage(s.usage)]>>)]
\* Mutant: the reason is told whether or not it was.
FinishTwice(s) ==
  LET calls == Maps(LAMBDA i : CallFrame(s.calls[i]), SetToSortSeq(DOMAIN s.calls, <))
  IN  [s |-> [s EXCEPT !.calls = Restrict(@, {}), !.finished = TRUE, !.usage = None],
       frames |-> calls \o <<StopFrame(s, "Stop")>>]
\* finish: calls nobody closed, then the reason or a usage that came late.
FinishEncoder(s) ==
  LET left  == SetToSortSeq(DOMAIN s.calls, <)
      calls == Maps(LAMBDA i : CallFrame(s.calls[i]), left)
  IN  [s |-> [s EXCEPT !.calls = Restrict(@, {}), !.finished = TRUE, !.usage = None],
       frames |-> calls \o (IF ~s.finished THEN <<StopFrame(s, "Stop")>>
                            ELSE When(s.usage # None, <<[Chunk EXCEPT !.usage = EncodeUsage(s.usage)]>>))]
=============================================================================

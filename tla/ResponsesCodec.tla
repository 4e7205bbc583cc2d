---------------------------- MODULE ResponsesCodec ----------------------------
(***************************************************************************)
(* OpenAI Responses: requests, responses and streams.                      *)
(*                                                                         *)
(* On the wire a conversation is a list of items: messages, calls, outputs *)
(* of calls, reasoning, and items this codec does not know.                *)
(***************************************************************************)
EXTENDS StreamEvents

MessageItem(role, content) == [item |-> "message", role |-> role, content |-> content]
CallItem(id, name, args)   == [item |-> "function_call", id |-> id, name |-> name, args |-> args]
OutputItem(id, content)    == [item |-> "function_call_output", id |-> id, content |-> content]
ReasoningItem(w, sig)      == [item |-> "reasoning", text |-> w, sig |-> sig]
ForeignItem(v)             == [item |-> "foreign", value |-> v]

ResponsesParams == {"temperature", "top_p", "user", "parallel"}
ResponsesRequest ==
  [instructions |-> None, input |-> <<>>, tools |-> <<>>, choice |-> Unspecified, params |-> NoParams,
   max |-> None, stream |-> FALSE, reasoning |-> None, format |-> None, unknown |-> <<>>]
ResponsesResponse ==
  [output |-> <<>>, status |-> "completed", reason |-> None, sequence |-> None, usage |-> NoUsage,
   error |-> FALSE, unknown |-> <<>>]

(***************************************************************************)
(* Parts of a message.  A medium stands under the field "by": file_id, url *)
(* or data.                                                                *)
(***************************************************************************)
WireMedia(kind, by, w) == [t |-> kind, by |-> by, data |-> w]

\* decode_content_part: a file's url stays one, whatever it says.
DecodePart(p) ==
  CASE p.t \in {"text", "refusal"} -> <<p>>
    [] p.t \in MediaKinds ->
         <<Media(p.t, CASE p.by = "file_id" -> Source("file_id", p.data.v)
                        [] p.by = "url" /\ p.t = "file" ->
                             Source(IF p.data.form = "http" THEN "url" ELSE "bare", p.data.v)
                        [] OTHER -> ParseDataUri(p.data))>>
    [] OTHER -> <<>>
DecodeParts(parts) == FlattenSeq(Maps(DecodePart, parts))

\* encode_content_part: there is no item for audio.
EncodePart(p) ==
  CASE p.t \in {"text", "refusal"} -> <<p>>
    [] p.t \in {"image", "file"} ->
         LET by == CASE p.source.k = "file_id" -> "file_id"
                     [] p.t = "file" /\ p.source.k \in {"base64", "text"} -> "data"
                     [] OTHER -> "url"
         IN  <<WireMedia(p.t, by, ToDataUri(p.source))>>
    [] OTHER -> <<>>

(***************************************************************************)
(* Requests                                                                *)
(***************************************************************************)
RejectsRequest(w) == \E i \in DOMAIN w.input : w.input[i].item = "scalar"

ItemRole(role) ==
  CASE role \in {"system", "developer"} -> "system" [] role \in {"assistant", "tool"} -> role
    [] OTHER -> "user"

\* push_into
PushInto(messages, role, part) ==
  IF messages # <<>> /\ messages[Len(messages)].role = role
  THEN [messages EXCEPT ![Len(messages)].content = Append(@, part)]
  ELSE Append(messages, Message(role, <<part>>))

\* decode_input_items
DecodeItem(messages, x) ==
  CASE x.item = "message" -> Append(messages, Message(ItemRole(x.role), DecodeParts(x.content)))
    [] x.item = "function_call" -> PushInto(messages, "assistant", ToolUse(x.id, x.name, ArgsOf(x.args), <<>>))
    [] x.item = "function_call_output" ->
         PushInto(messages, "tool", ToolResult(x.id, <<>>, DecodeParts(x.content), FALSE))
    [] x.item = "reasoning" -> PushInto(messages, "assistant", Thinking(x.text, x.sig))
    [] x.item = "foreign"   -> PushInto(messages, "assistant", Opaque("responses", x.value))

DecodeReasoning(r) ==
  IF r = None \/ (r.effort = None /\ r.summary = None) THEN None
  ELSE Reasoning(r.effort, None, IF r.summary = None THEN None ELSE r.summary # "none")

EncodeReasoning(r, max) ==
  LET effort  == EffortOrFromBudget(r, max)
      summary == CASE r.thoughts = TRUE -> "auto" [] r.thoughts = FALSE -> "none" [] OTHER -> None
  IN  IF effort = None /\ summary = None THEN None ELSE [effort |-> effort, summary |-> summary]

DecodeRequest(w) ==
  LET all      == FoldLeft(DecodeItem, <<>>, w.input)
      system   == SelectSeq(all, LAMBDA m : m.role = "system")
      function == SelectSeq(w.tools, LAMBDA t : t.kind = "function")
      builtin  == SelectSeq(w.tools, LAMBDA t : t.kind # "function")
  IN  [UnifiedRequest EXCEPT
         !.system    = When(w.instructions # None, <<Text(w.instructions)>>)
                         \o FlattenSeq(Maps(LAMBDA m : m.content, system)),
         !.messages  = SelectSeq(all, LAMBDA m : m.role # "system"),
         !.tools     = Maps(LAMBDA t : t.v, function),
         !.choice    = IF w.choice = Choice("tool", <<>>) THEN Choice("required", <<>>) ELSE w.choice,
         !.params    = Restrict(w.params, DOMAIN w.params \cap ResponsesParams),
         !.max       = w.max, !.stream = w.stream, !.usage = w.stream,
         !.reasoning = DecodeReasoning(w.reasoning),
         !.format    = w.format,
         !.ext       = Extension("responses", w.unknown \o builtin)]

\* An output is a text: media are left out, an error is told in words.
OutputText(p) ==
  LET said == WordsOf(p.content)
  IN  IF ~p.failed THEN said ELSE IF said = <<>> THEN <<"error", "failed">> ELSE <<"error">> \o said

ItemKinds == {"tool_use", "tool_result", "thinking", "redacted", "opaque"}
ItemOf(p) ==
  CASE p.t = "tool_use"    -> <<CallItem(p.id, p.name, p.args)>>
    [] p.t = "tool_result" -> <<OutputItem(p.id, TextPart(OutputText(p)))>>
    [] p.t = "thinking"    -> <<ReasoningItem(p.text, p.sig)>>
    [] p.t = "redacted"    -> <<ReasoningItem(<<>>, p.data)>>
    [] p.t = "opaque"      -> When(p.protocol = "responses", <<ForeignItem(p.value)>>)

\* encode_input_items: the items of a message come before what it says.
EncodeMessage(m) ==
  LET said == FlattenSeq(Maps(EncodePart, Without(m.content, ItemKinds)))
      role == IF m.role = "tool" THEN "user" ELSE m.role
  IN  FlattenSeq(Maps(ItemOf, Only(m.content, ItemKinds)))
        \o When(said # <<>>, <<MessageItem(role, said)>>)

EncodeRequest(ir) ==
  [ResponsesRequest EXCEPT
     !.instructions = IF ir.system = <<>> THEN None ELSE WordsOf(ir.system),
     !.input     = FlattenSeq(Maps(EncodeMessage, ir.messages)),
     !.tools     = Maps(LAMBDA n : Field("function", n), ir.tools) \o Restored(ir.ext, "responses", "builtin"),
     !.choice    = ir.choice,
     !.params    = Restrict(ir.params, DOMAIN ir.params \cap ResponsesParams),
     !.max       = ir.max, !.stream = ir.stream,
     !.reasoning = IF ir.reasoning = None THEN None ELSE EncodeReasoning(ir.reasoning, ir.max),
     !.format    = ir.format,
     !.unknown   = Restored(ir.ext, "responses", "field")]

(***************************************************************************)
(* Responses                                                               *)
(***************************************************************************)
MapStatus(status, reason, called, refused) ==
  CASE status = "incomplete" -> (CASE reason \in {"max_output_tokens", "max_tokens"} -> "MaxTokens"
                                   [] reason = "content_filter" -> "ContentFilter"
                                   [] OTHER -> "Other")
    [] status \in {"failed", "cancelled", "queued", "in_progress"} -> "Other"
    [] OTHER -> IF called THEN "ToolUse" ELSE IF refused THEN "Refusal" ELSE "Stop"

StatusStr(reason) == IF reason \in {"MaxTokens", "ContentFilter"} THEN "incomplete" ELSE "completed"
IncompleteDetails(reason) ==
  CASE reason = "MaxTokens" -> "max_output_tokens" [] reason = "ContentFilter" -> "content_filter"
    [] OTHER -> None

OutputPart(x) ==
  CASE x.item = "message"       -> DecodeParts(x.content)
    [] x.item = "function_call" -> <<ToolUse(x.id, x.name, ArgsOf(x.args), <<>>)>>
    [] x.item = "reasoning"     -> <<Thinking(x.text, x.sig)>>
    [] OTHER                    -> <<Opaque("responses", x.value)>>

RejectsResponse(w) == w.error

DecodeResponse(w) ==
  LET content == FlattenSeq(Maps(OutputPart, w.output))
      Has(kind) == Only(content, {kind}) # <<>>
  IN  [UnifiedResponse EXCEPT
         !.content = content,
         !.stop    = MapStatus(w.status, w.reason, Has("tool_use"), Has("refusal")),
         !.usage   = w.usage,
         !.ext     = Extension("responses", w.unknown)]

EncodeResponse(ir) ==
  LET reason == OrElse(ir.stop, "Stop")
      said   == Only(ir.content, {"text", "refusal"})
  IN  [ResponsesResponse EXCEPT
         !.output   = FlattenSeq(Maps(ItemOf, Only(ir.content, ItemKinds \ {"tool_result"})))
                        \o When(said # <<>>, <<MessageItem("assistant", said)>>),
         !.status   = StatusStr(reason),
         !.reason   = IncompleteDetails(reason),
         !.sequence = ir.sequence,
         !.usage    = ir.usage,
         !.unknown  = Restored(ir.ext, "responses", "field")]

(***************************************************************************)
(* Streams                                                                 *)
(***************************************************************************)
RFrame(f, i) ==
  [f |-> f, output |-> i, seq |-> 0, kind |-> None, id |-> <<>>, name |-> <<>>, text |-> <<>>,
   sig |-> <<>>, response |-> None, usage |-> None]
Created(u)                     == [RFrame("created", 0) EXCEPT !.usage = u]
ItemAdded(i, kind, id, name)   == [RFrame("item_added", i) EXCEPT !.kind = kind, !.id = id, !.name = name]
PartAdded(i, kind)             == [RFrame("part_added", i) EXCEPT !.kind = kind]
Delta(kind, i, w)              == [RFrame("delta", i) EXCEPT !.kind = kind, !.text = w]
PartDone(kind, i, w)           == [RFrame("part_done", i) EXCEPT !.kind = kind, !.text = w]
ItemDone(i, sig)               == [RFrame("item_done", i) EXCEPT !.sig = sig]
Completed(response)            == [RFrame("completed", 0) EXCEPT !.response = response,
                                                                 !.usage = response.usage]
ErrorFrame                     == RFrame("error", 0)
DoneFrame                      == RFrame("done", 0)

NewDecoder == [opened |-> [i \in {} |-> None], started |-> FALSE, finished |-> FALSE]

\* ensure_open: a block starts when its kind is not the last one at its index.
EnsureOpen(d, i, kind, events) ==
  IF i \in DOMAIN d.opened /\ d.opened[i] = kind THEN [d |-> d, events |-> events]
  ELSE [d |-> [d EXCEPT !.opened = (i :> kind) @@ @], events |-> <<ContentStart(i, kind)>> \o events]

DeltaEvent(frame) ==
  CASE frame.kind = "text"     -> TextDelta(frame.output, frame.text)
    [] frame.kind = "refusal"  -> RefusalDelta(frame.output, frame.text)
    [] frame.kind = "thinking" -> ThinkingDelta(frame.output, frame.text)
    [] frame.kind = "tool_use" -> ToolCallArgs(frame.output, frame.text)

\* What the last frame says of how the answer ended.
FinalReason(response) ==
  LET Called(x)  == x.item = "function_call"
      Refuses(x) == x.item = "message" /\ Only(x.content, {"refusal"}) # <<>>
  IN  MapStatus(response.status, response.reason, SelectSeq(response.output, Called) # <<>>,
                SelectSeq(response.output, Refuses) # <<>>)

DecodeFrame(d, frame) ==
  LET i == frame.output
      Idle == [d |-> d, events |-> <<>>]
      Ends(events) == [d |-> [d EXCEPT !.finished = TRUE], events |-> events \o When(~d.finished, <<Done>>)]
  IN  CASE frame.f = "done" -> Ends(<<>>)
        [] frame.f \in {"created", "in_progress"} ->
             [d |-> [d EXCEPT !.started = TRUE],
              events |-> When(~d.started, <<Start(frame.usage)>>)]
        [] frame.f = "item_added" ->
             (CASE frame.kind = "tool_use" ->
                     EnsureOpen(d, i, "tool_use", <<ToolCallStart(i, frame.id, frame.name, <<>>)>>)
                [] frame.kind = "thinking" -> EnsureOpen(d, i, "thinking", <<>>)
                [] OTHER -> Idle)
        [] frame.f = "part_added" -> EnsureOpen(d, i, frame.kind, <<>>)
        [] frame.f = "delta"      -> EnsureOpen(d, i, frame.kind, <<DeltaEvent(frame)>>)
        [] frame.f = "item_done"  ->
             IF frame.sig = <<>> THEN [d |-> d, events |-> <<ContentStop(i)>>]
             ELSE EnsureOpen(d, i, "thinking", <<ThinkingSignature(i, frame.sig), ContentStop(i)>>)
        [] frame.f = "completed"  ->
             Ends(When(frame.usage # None, <<UsageEvent(frame.usage)>>)
                    \o <<Stop(FinalReason(frame.response), None)>>)
        [] frame.f = "error"      -> [d |-> [d EXCEPT !.finished = TRUE], events |-> <<Error>>]
        [] OTHER -> Idle

FinishDecoder(d) ==
  [d |-> [d EXCEPT !.finished = TRUE], events |-> When(~d.finished, <<Done>>)]

\* blocks: those that are open, by the index of their events; items: those
\* that are done, by their place in the output.
NewEncoder ==
  [seq |-> 0, started |-> FALSE, finished |-> FALSE, blocks |-> [i \in {} |-> None], next |-> 0,
   items |-> <<>>, usage |-> NoUsage, stop |-> None]
OpenBlock(output, kind) ==
  [output |-> output, kind |-> kind, announced |-> FALSE, text |-> <<>>, sig |-> <<>>, id |-> <<>>,
   name |-> <<>>]

\* emit: every frame takes the next sequence number.
Emit(step, frames) ==
  FoldLeft(LAMBDA acc, frame : [s |-> [acc.s EXCEPT !.seq = @ + 1],
                                frames |-> Append(acc.frames, [frame EXCEPT !.seq = acc.s.seq])],
           step, frames)

EnsureStarted(step) ==
  IF step.s.started THEN step
  ELSE Emit([step EXCEPT !.s.started = TRUE], <<Created(None), RFrame("in_progress", 0)>>)

Announce(step, i) ==
  LET b == step.s.blocks[i]
      added == ItemAdded(b.output, IF b.kind \in {"text", "refusal"} THEN "message" ELSE b.kind, b.id, b.name)
  IN  IF b.announced THEN step
      ELSE Emit([step EXCEPT !.s.blocks[i].announced = TRUE],
                <<added>> \o CASE b.kind \in {"text", "refusal"} -> <<PartAdded(b.output, b.kind)>>
                               [] b.kind = "thinking" -> <<RFrame("summary_added", b.output)>>
                               [] OTHER -> <<>>)

\* The item a block has become, and finish_block.
FinishedItem(b) ==
  CASE b.kind = "text"     -> MessageItem("assistant", <<Text(b.text)>>)
    [] b.kind = "refusal"  -> MessageItem("assistant", <<Refusal(b.text)>>)
    [] b.kind = "thinking" -> ReasoningItem(b.text, b.sig)
    [] b.kind = "tool_use" -> CallItem(b.id, b.name, b.text)
Settle(items, b) ==
  [o \in 1..Maximum(Len(items), b.output + 1) |->
     IF o = b.output + 1 THEN FinishedItem(b) ELSE IF o <= Len(items) THEN items[o] ELSE None]

\* close_block: what was never announced is announced before it is done.
CloseAnnounced(step, i) ==
  LET b    == step.s.blocks[i]
      shut == [step EXCEPT !.s.blocks = Restrict(@, DOMAIN @ \ {i}), !.s.items = Settle(@, b)]
  IN  Emit(shut, <<PartDone(b.kind, b.output, b.text)>>
                   \o When(b.kind # "tool_use", <<RFrame("content_part_done", b.output)>>)
                   \o <<ItemDone(b.output, b.sig)>>)
CloseBlock(step, i) == CloseAnnounced(Announce(step, i), i)

\* Mutant: a block of another kind is replaced, not closed.
ReplaceBlock(step, i, kind) ==
  LET begun == EnsureStarted(step)
      fresh == [begun EXCEPT !.s.blocks = (i :> OpenBlock(begun.s.next, kind)) @@ @, !.s.next = @ + 1]
  IN  IF i \in DOMAIN begun.s.blocks /\ begun.s.blocks[i].kind = kind THEN begun
      ELSE IF kind = "tool_use" THEN fresh ELSE Announce(fresh, i)
\* ensure_block: a call waits for its name before it is announced; an index
\* that comes back with another kind closes what it named.
OpenAt(step, i, kind) ==
  LET fresh == [step EXCEPT !.s.blocks = (i :> OpenBlock(step.s.next, kind)) @@ @, !.s.next = @ + 1]
  IN  IF kind = "tool_use" THEN fresh ELSE Announce(fresh, i)
EnsureOpenAt(step, i, kind) ==
  LET open == i \in DOMAIN step.s.blocks
  IN  IF open /\ step.s.blocks[i].kind = kind THEN step
      ELSE OpenAt(IF open THEN CloseBlock(step, i) ELSE step, i, kind)
EnsureBlock(step, i, kind) == EnsureOpenAt(EnsureStarted(step), i, kind)

CloseAll(step) == FoldLeft(CloseBlock, step, SetToSortSeq(DOMAIN step.s.blocks, <))

\* snapshot at the end
Snapshot(s) ==
  [ResponsesResponse EXCEPT
     !.output = SelectSeq(s.items, LAMBDA x : x # None), !.status = StatusStr(OrElse(s.stop, "Stop")),
     !.reason = IF s.stop = None THEN None ELSE IncompleteDetails(s.stop), !.usage = s.usage]

\* terminate
Complete(closed) == Emit([closed EXCEPT !.s.finished = TRUE], <<Completed(Snapshot(closed.s))>>)
Terminate(step) == IF step.s.finished THEN step ELSE Complete(CloseAll(EnsureStarted(step)))

\* A delta grows its block and is told under the block's place.
Grow(step, i, w) ==
  LET b == step.s.blocks[i]
  IN  Emit([step EXCEPT !.s.blocks[i].text = @ \o w], <<Delta(b.kind, b.output, w)>>)

\* What an event does in the block it belongs to.
EncodeInBlock(step, ev) ==
  CASE ev.e = "content_start" -> step
    [] ev.e \in {"text", "refusal", "thinking"} -> Grow(step, ev.index, ev.text)
    [] ev.e = "signature" -> [step EXCEPT !.s.blocks[ev.index].sig = ev.sig]
    [] ev.e = "tool_start" ->
         Announce([step EXCEPT !.s.blocks[ev.index].id   = IF ev.id # <<>> THEN ev.id ELSE @,
                               !.s.blocks[ev.index].name = IF ev.name # <<>> THEN ev.name ELSE @],
                  ev.index)
    [] ev.e = "tool_args" -> Grow(Announce(step, ev.index), ev.index, ev.text)

EncodeOpen(step, ev) ==
  CASE ev.e = "start" -> EnsureStarted([step EXCEPT !.s.usage = MergeMax(@, ev.usage)])
    [] ev.e = "content_stop" -> IF ev.index \in DOMAIN step.s.blocks THEN CloseBlock(step, ev.index) ELSE step
    [] ev.e = "usage" -> [step EXCEPT !.s.usage = MergeMax(@, ev.usage)]
    [] ev.e = "stop"  -> [step EXCEPT !.s.stop = ev.reason]
    [] ev.e = "done"  -> Terminate(step)
    [] ev.e = "error" -> Emit([EnsureStarted(step) EXCEPT !.s.finished = TRUE], <<ErrorFrame>>)
    [] ev.e = "ping"  -> step
    [] OTHER          -> EncodeInBlock(EnsureBlock(step, ev.index, KindOf(ev)), ev)

NoFrames(s) == [s |-> s, frames |-> <<>>]
\* Mutant: nobody looks whether the stream has ended.
EncodeAlways(s, ev) == EncodeOpen(NoFrames(s), ev)
Encode(s, ev) == IF s.finished THEN NoFrames(s) ELSE EncodeOpen(NoFrames(s), ev)
FinishEncoder(s) == IF s.started THEN Terminate(NoFrames(s)) ELSE NoFrames(s)
=============================================================================

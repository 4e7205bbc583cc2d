---------------------------- MODULE StreamEvents ----------------------------
(***************************************************************************)
(* The events every stream is decoded into and encoded from, what the      *)
(* gateway assembles from them for its log and its bill                    *)
(* (StreamAggregator), and how bytes become frames (SseParser).            *)
(***************************************************************************)
EXTENDS IR

Start(usage)              == [e |-> "start", usage |-> usage]
ContentStart(i, kind)     == [e |-> "content_start", index |-> i, kind |-> kind]
TextDelta(i, w)           == [e |-> "text", index |-> i, text |-> w]
ThinkingDelta(i, w)       == [e |-> "thinking", index |-> i, text |-> w]
ThinkingSignature(i, sig) == [e |-> "signature", index |-> i, sig |-> sig]
RefusalDelta(i, w)        == [e |-> "refusal", index |-> i, text |-> w]
ToolCallStart(i, id, name, sig) ==
  [e |-> "tool_start", index |-> i, id |-> id, name |-> name, sig |-> sig]
ToolCallArgs(i, w)        == [e |-> "tool_args", index |-> i, text |-> w]
ContentStop(i)            == [e |-> "content_stop", index |-> i]
UsageEvent(u)             == [e |-> "usage", usage |-> u]
Stop(reason, sequence)    == [e |-> "stop", reason |-> reason, sequence |-> sequence]
Done                      == [e |-> "done"]
Error                     == [e |-> "error"]
Ping                      == [e |-> "ping"]

PartKinds == {"text", "thinking", "tool_use", "refusal"}
IsTerminal(ev) == ev.e \in {"done", "error"}

(***************************************************************************)
(* StreamAggregator.  A block is keyed by its index and its kind; blocks   *)
(* stand in the order of their first event.                                *)
(***************************************************************************)
Fresh(i, kind) == [index |-> i, kind |-> kind, text |-> <<>>, sig |-> <<>>, id |-> <<>>, name |-> <<>>]
NewAggregator == [blocks |-> <<>>, stop |-> None, sequence |-> None, usage |-> NoUsage]

\* Mutant: a block is its index.
FindIndex(blocks, i, kind) == SelectInSeq(blocks, LAMBDA b : b.index = i)
Find(blocks, i, kind) ==
  SelectInSeq(blocks, LAMBDA b : b.index = i /\ b.kind = kind)
\* ensure, and set_block
Ensure(blocks, i, kind) ==
  IF Find(blocks, i, kind) = 0 THEN Append(blocks, Fresh(i, kind)) ELSE blocks

KindOf(ev) ==
  CASE ev.e = "content_start" -> ev.kind
    [] ev.e = "signature" -> "thinking"
    [] ev.e \in {"tool_start", "tool_args"} -> "tool_use"
    [] OTHER -> ev.e

\* What an event adds to its block.
Grown(b, ev) ==
  CASE ev.e \in {"text", "thinking", "refusal", "tool_args"} -> [b EXCEPT !.text = @ \o ev.text]
    [] ev.e = "signature" -> [b EXCEPT !.sig = ev.sig]
    [] ev.e = "tool_start" -> [b EXCEPT !.id   = IF ev.id # <<>> THEN ev.id ELSE @,
                                        !.name = IF ev.name # <<>> THEN ev.name ELSE @,
                                        !.sig  = IF ev.sig # <<>> THEN ev.sig ELSE @]
    [] ev.e = "content_start" -> b

Absorb(a, ev) ==
  CASE ev.e \in {"start", "usage"} -> [a EXCEPT !.usage = MergeMax(@, ev.usage)]
    [] ev.e = "stop" -> [a EXCEPT !.stop = ev.reason, !.sequence = OrElse(ev.sequence, @)]
    [] ev.e \in {"content_stop", "done", "ping", "error"} -> a
    [] OTHER -> LET blocks == Ensure(a.blocks, ev.index, KindOf(ev))
                    at     == Find(blocks, ev.index, KindOf(ev))
                IN  [a EXCEPT !.blocks = [blocks EXCEPT ![at] = Grown(@, ev)]]

\* into_content: by index, empty texts left out.
PartOf(b) ==
  CASE b.kind = "text" -> TextPart(b.text)
    [] b.kind = "refusal" -> RefusalPart(b.text)
    [] b.kind = "thinking" -> When(b.text # <<>> \/ b.sig # <<>>, <<Thinking(b.text, b.sig)>>)
    [] b.kind = "tool_use" -> <<ToolUse(b.id, b.name, ArgsOf(b.text), b.sig)>>
IntoContent(a) ==
  LET rank    == SortSeq([i \in DOMAIN a.blocks |-> <<a.blocks[i].index, i>>],
                         LAMBDA x, y : x[1] < y[1] \/ (x[1] = y[1] /\ x[2] < y[2]))
  IN  FlattenSeq([i \in DOMAIN rank |-> PartOf(a.blocks[rank[i][2]])])

Aggregate(events) == FoldLeft(Absorb, NewAggregator, events)

(***************************************************************************)
(* SseParser.  A line is a field with a value; the fields the parser does  *)
(* not know, and comments, are "other".  Its bytes are two halves, so that *)
(* a chunk, or the stream, may end inside it, and its end, with or without *)
(* a carriage return.                                                      *)
(***************************************************************************)
Line(field, value) == [field |-> field, value |-> value]   \* data, event, other, blank
CR                 == Line("cr", None)
LF                 == Line("lf", None)
BytesOf(line, crlf) == When(line.field # "blank", <<line, line>>) \o When(crlf, <<CR>>) \o <<LF>>
NewParser          == [buffer |-> <<>>, event |-> None, data |-> <<>>]
Frame(event, data) == [event |-> event, data |-> data]

Flush(p) ==
  IF p.data = <<>> /\ p.event = None THEN [parser |-> p, frames |-> <<>>]
  ELSE [parser |-> [p EXCEPT !.data = <<>>, !.event = None], frames |-> <<Frame(p.event, p.data)>>]

\* Mutant: the carriage return stays in the line.
TakeRaw(s) ==
  LET end    == SelectInSeq(s.parser.buffer, LAMBDA b : b = LF)
      line   == SubSeq(s.parser.buffer, 1, end - 1)
      taken  == [s.parser EXCEPT !.buffer = SubSeq(@, end + 1, Len(@))]
      closed == Flush(taken)
  IN  IF line = <<>> THEN [parser |-> closed.parser, frames |-> s.frames \o closed.frames]
      ELSE [s EXCEPT !.parser = CASE line[1].field = "event" -> [taken EXCEPT !.event = line[1].value]
                                  [] line[1].field = "data"  -> [taken EXCEPT !.data = Append(@, line[1].value)]
                                  [] OTHER -> taken]
\* The first line of the buffer goes where its field says.
TakeLine(s) ==
  LET buffer == s.parser.buffer
      end    == SelectInSeq(buffer, LAMBDA b : b = LF)
      raw    == SubSeq(buffer, 1, end - 1)
      line   == IF raw # <<>> /\ raw[Len(raw)] = CR THEN Front(raw) ELSE raw
      taken  == [s.parser EXCEPT !.buffer = SubSeq(buffer, end + 1, Len(buffer))]
      closed == Flush(taken)
  IN  IF line = <<>> THEN [parser |-> closed.parser, frames |-> s.frames \o closed.frames]
      ELSE [s EXCEPT !.parser = CASE line[1].field = "event" -> [taken EXCEPT !.event = line[1].value]
                                  [] line[1].field = "data"  -> [taken EXCEPT !.data = Append(@, line[1].value)]
                                  [] OTHER -> taken]

\* feed_bytes: the frames a chunk completes; an unfinished line waits.
Feed(p, chunk) ==
  LET full == [p EXCEPT !.buffer = @ \o chunk]
      ends == SelectSeq(full.buffer, LAMBDA b : b = LF)
  IN  FoldLeft(LAMBDA s, end : TakeLine(s), [parser |-> full, frames |-> <<>>], ends)

\* finish_bytes: what is left of a last line counts if it says data; of a
\* line that was cut nobody can read the value.
FinishParser(p) ==
  LET halves == SelectSeq(p.buffer, LAMBDA b : b # CR)
      value  == IF Len(halves) < 2 THEN None ELSE halves[1].value
      rest   == [p EXCEPT !.buffer = <<>>]
  IN  Flush(IF halves # <<>> /\ halves[1].field = "data" THEN [rest EXCEPT !.data = Append(@, value)]
            ELSE rest).frames
=============================================================================

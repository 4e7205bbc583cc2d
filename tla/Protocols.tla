------------------------------- MODULE Protocols -------------------------------
(***************************************************************************)
(* The four codecs by protocol (CodecSet), and what is outside of them:    *)
(* how each provider cuts an answer into the frames of its stream, and how *)
(* a client reads what it is sent, which is with its own protocol's        *)
(* decoder.                                                                *)
(***************************************************************************)
EXTENDS StreamEvents

Chat      == INSTANCE ChatCodec
Responses == INSTANCE ResponsesCodec
Messages  == INSTANCE MessagesCodec
Gemini    == INSTANCE GeminiCodec

Protocols == {"chat", "responses", "messages", "gemini"}

\* CodecSet::for_protocol
For(p, chat, responses, messages, gemini) ==
  CASE p = "chat" -> chat [] p = "responses" -> responses [] p = "messages" -> messages
    [] p = "gemini" -> gemini

RejectsRequest(p, w) ==
  For(p, Chat!RejectsRequest(w), Responses!RejectsRequest(w), Messages!RejectsRequest(w),
      Gemini!RejectsRequest(w))
DecodeRequest(p, w) ==
  For(p, Chat!DecodeRequest(w), Responses!DecodeRequest(w), Messages!DecodeRequest(w),
      Gemini!DecodeRequest(w))
EncodeRequest(p, ir) ==
  For(p, Chat!EncodeRequest(ir), Responses!EncodeRequest(ir), Messages!EncodeRequest(ir),
      Gemini!EncodeRequest(ir))
RejectsResponse(p, w) ==
  For(p, Chat!RejectsResponse(w), Responses!RejectsResponse(w), FALSE, Gemini!RejectsResponse(w))
DecodeResponse(p, w) ==
  For(p, Chat!DecodeResponse(w), Responses!DecodeResponse(w), Messages!DecodeResponse(w),
      Gemini!DecodeResponse(w))
EncodeResponse(p, ir) ==
  For(p, Chat!EncodeResponse(ir), Responses!EncodeResponse(ir), Messages!EncodeResponse(ir),
      Gemini!EncodeResponse(ir))

NewDecoder(p) == For(p, Chat!NewDecoder, Responses!NewDecoder, Messages!NewDecoder, Gemini!NewDecoder)
DecodeFrame(p, d, frame) ==
  For(p, Chat!DecodeFrame(d, frame), Responses!DecodeFrame(d, frame), Messages!DecodeFrame(d, frame),
      Gemini!DecodeFrame(d, frame))
FinishDecoder(p, d) ==
  For(p, Chat!FinishDecoder(d), Responses!FinishDecoder(d), Messages!FinishDecoder(d),
      Gemini!FinishDecoder(d))
NewEncoder(p) == For(p, Chat!NewEncoder, Responses!NewEncoder, Messages!NewEncoder, Gemini!NewEncoder)
EncodeEvent(p, s, ev) ==
  For(p, Chat!Encode(s, ev), Responses!Encode(s, ev), Messages!Encode(s, ev), Gemini!Encode(s, ev))
FinishEncoder(p, s) ==
  For(p, Chat!FinishEncoder(s), Responses!FinishEncoder(s), Messages!FinishEncoder(s),
      Gemini!FinishEncoder(s))
ErrorFrameOf(p) == For(p, Chat!ErrorFrame, Responses!ErrorFrame, Messages!ErrorFrame, Gemini!ErrorFrame)

(***************************************************************************)
(* An answer: its parts in the order the model speaks them, how it ends,   *)
(* and its usage with every token of the input counted in input.           *)
(***************************************************************************)
Answer(parts, stop, usage) == [parts |-> parts, stop |-> stop, usage |-> usage]
Calls(parts) == Only(parts, {"tool_use"})
Ending(a) == IF a.stop = "Stop" /\ Calls(a.parts) # <<>> THEN "ToolUse" ELSE a.stop

\* What a provider's own numbers say.
Reported(p, u) ==
  For(p, Chat!UsageOf(u), u, [u EXCEPT !.input = @ - u.cached - u.written, !.reasoning = 0],
      [u EXCEPT !.output = @ - u.reasoning, !.written = 0])

\* How many calls come before a part, and the words of its arguments.
CallsBefore(parts, i) == Len(Calls(SubSeq(parts, 1, i - 1)))
Pieces(f(_), words) == Maps(LAMBDA w : f(<<w>>), words)

ChatFrames(a) ==
  LET Of(i) ==
        LET p == a.parts[i]
            n == CallsBefore(a.parts, i)
        IN  CASE p.t = "text"     -> Pieces(LAMBDA w : [Chat!Chunk EXCEPT !.content = w], p.text)
              [] p.t = "refusal"  -> Pieces(LAMBDA w : [Chat!Chunk EXCEPT !.refusal = w], p.text)
              [] p.t = "thinking" -> Pieces(LAMBDA w : [Chat!Chunk EXCEPT !.reasoning = w], p.text)
                                       \o When(p.sig # <<>>, <<[Chat!Chunk EXCEPT !.sig = p.sig]>>)
              [] p.t = "tool_use" ->
                   <<[Chat!Chunk EXCEPT !.calls = <<Chat!CallDelta(n, p.id, p.name, <<>>)>>]>>
                     \o Pieces(LAMBDA w : [Chat!Chunk EXCEPT !.calls = <<Chat!CallDelta(n, <<>>, <<>>, w)>>],
                               p.args)
  IN  <<Chat!Chunk>> \o FlattenSeq([i \in DOMAIN a.parts |-> Of(i)])
        \o <<[Chat!Chunk EXCEPT !.finish = Chat!StopToFinish(Ending(a))],
             [Chat!Chunk EXCEPT !.usage = Reported("chat", a.usage)], Chat!DoneFrame>>

MessagesFrames(a) ==
  LET u == Reported("messages", a.usage)
      Of(i) ==
        LET p == a.parts[i]
            n == i - 1
        IN  (CASE p.t = "text" ->
                    <<Messages!BlockStart(n, "text")>>
                      \o Pieces(LAMBDA w : Messages!Delta("text_delta", n, w), p.text)
               [] p.t = "thinking" ->
                    <<Messages!BlockStart(n, "thinking")>>
                      \o Pieces(LAMBDA w : Messages!Delta("thinking_delta", n, w), p.text)
                      \o When(p.sig # <<>>, <<Messages!SignatureDelta(n, p.sig)>>)
               [] p.t = "tool_use" ->
                    <<Messages!ToolStart(n, p.id, p.name)>>
                      \o Pieces(LAMBDA w : Messages!Delta("input_json_delta", n, w), p.args))
            \o <<Messages!BlockStop(n)>>
  IN  <<Messages!MessageStart([u EXCEPT !.output = 0]), Messages!PingFrame>>
        \o FlattenSeq([i \in DOMAIN a.parts |-> Of(i)])
        \o <<Messages!MessageDelta(Messages!EncodeStop(Ending(a)), None, [NoUsage EXCEPT !.output = u.output]),
             Messages!MessageStop>>

ResponsesBody(a) == Responses!EncodeResponse([UnifiedResponse EXCEPT !.content = a.parts, !.stop = a.stop,
                                                                     !.usage = a.usage])
ResponsesFrames(a) ==
  LET Of(i) ==
        LET p == a.parts[i]
            n == i - 1
        IN  (CASE p.t \in {"text", "refusal"} ->
                    <<Responses!ItemAdded(n, "message", <<>>, <<>>), Responses!PartAdded(n, p.t)>>
                      \o Pieces(LAMBDA w : Responses!Delta(p.t, n, w), p.text)
               [] p.t = "thinking" ->
                    <<Responses!ItemAdded(n, "thinking", <<>>, <<>>)>>
                      \o Pieces(LAMBDA w : Responses!Delta("thinking", n, w), p.text)
               [] p.t = "tool_use" ->
                    <<Responses!ItemAdded(n, "tool_use", p.id, p.name)>>
                      \o Pieces(LAMBDA w : Responses!Delta("tool_use", n, w), p.args))
            \o <<Responses!ItemDone(n, IF p.t = "thinking" THEN p.sig ELSE <<>>)>>
  IN  <<Responses!Created(None), Responses!RFrame("in_progress", 0)>>
        \o FlattenSeq([i \in DOMAIN a.parts |-> Of(i)]) \o <<Responses!Completed(ResponsesBody(a))>>

GeminiFrames(a) ==
  LET Of(p) ==
        CASE p.t = "text"     -> Pieces(LAMBDA w : Gemini!PartFrame(Gemini!GText(w)), p.text)
          [] p.t = "thinking" -> Pieces(LAMBDA w : Gemini!PartFrame(Gemini!GThought(w, <<>>)), p.text)
                                   \o When(p.sig # <<>>, <<Gemini!PartFrame(Gemini!GThought(<<>>, p.sig))>>)
          [] p.t = "tool_use" -> <<Gemini!PartFrame(Gemini!GCall(p.id, p.name, p.args, <<>>))>>
  IN  FlattenSeq(Maps(Of, a.parts))
        \o <<[Gemini!Chunk EXCEPT !.finish = Gemini!StopTo(a.stop), !.usage = Reported("gemini", a.usage)]>>

Frames(p, a) == For(p, ChatFrames(a), ResponsesFrames(a), MessagesFrames(a), GeminiFrames(a))
\* A body; None is one that tells an error. A Chat provider has no place for
\* thinking but beside its message.
Body(p, a) ==
  LET ir   == [UnifiedResponse EXCEPT !.content = a.parts, !.stop = Ending(a), !.usage = a.usage]
      chat == Chat!EncodeResponse(ir)
      sigs == Maps(LAMBDA x : x.sig, Only(a.parts, {"thinking"}))
  IN  IF a = None THEN For(p, None, [Responses!ResponsesResponse EXCEPT !.error = TRUE], None,
                           [Gemini!GeminiResponse EXCEPT !.error = TRUE])
      ELSE For(p, [chat EXCEPT !.dropped = None, !.message.sig = IF sigs = <<>> THEN <<>> ELSE sigs[1]],
               Responses!EncodeResponse(ir),
               Messages!EncodeResponse([ir EXCEPT !.usage = Reported("messages", a.usage)]),
               Gemini!EncodeResponse(ir))

(***************************************************************************)
(* A client reads frames with its protocol's decoder.                      *)
(***************************************************************************)
Reads(p, frames) ==
  LET Read(acc, frame) ==
        LET took == DecodeFrame(p, acc.d, frame)
        IN  [d |-> took.d, events |-> acc.events \o took.events]
      read == FoldLeft(Read, [d |-> NewDecoder(p), events |-> <<>>], frames)
  IN  read.events \o FinishDecoder(p, read.d).events
=============================================================================

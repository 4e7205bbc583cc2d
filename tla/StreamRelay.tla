----------------------------- MODULE StreamRelay -----------------------------
(***************************************************************************)
(* Streaming answers on their way to the client.                           *)
(*                                                                         *)
(* Each stream has a producer task that reads the upstream, a bounded      *)
(* channel that is the response body, a client that reads the body or      *)
(* goes away, and, when the answer is transcoded, a keep-alive task that   *)
(* holds a second sender of the same channel.  At its end the producer     *)
(* charges the endpoint's health, writes the request log and gives back    *)
(* its concurrency permit.                                                 *)
(*                                                                         *)
(* An upstream item is an event, the completion event of its protocol or a *)
(* fault.  Errors are "charged" when their kind counts against the         *)
(* endpoint (record_stream_endpoint_health) and "excused" when not.  The   *)
(* idle timer of the upstream stream runs on the clock from the last item  *)
(* it delivered, and is looked at when the producer asks for the next one. *)
(***************************************************************************)
EXTENDS Integers, FiniteSets

CONSTANTS
  Streams,
  Kinds,      (* of each stream: native or transcoded, marked or not       *)
  Capacity,   (* slots of the body's channel                               *)
  Limit,      (* global concurrency limit                                  *)
  MaxItems,   (* bound on the items of an upstream, for model checking     *)
  None

ASSUME StreamRelayAssumption ==
  /\ Kinds \in [Streams -> SUBSET [native : BOOLEAN, marked : BOOLEAN]]
  /\ Capacity \in Nat \ {0} /\ Limit \in Nat \ {0}
  /\ MaxItems \in Nat \ {0}
  /\ IsFiniteSet(Streams)
  /\ None \notin {"charged", "excused", "upstream", "client", "success", "failure",
                  "200", "499", "error"}

VARIABLES
  s,      (* the streams                                                   *)
  free    (* permits of the concurrency semaphore                          *)

vars == <<s, free>>

Errors == {"charged", "excused"}

Unopened ==
  [pc |-> "idle",        \* where the producer is
   native |-> TRUE,      \* forwarded byte by byte, or transcoded
   marked |-> TRUE,      \* the upstream's protocol has a completion event
   error |-> None,       \* stream_error
   closed |-> FALSE,     \* client_closed
   done |-> FALSE,       \* saw_done
   bad |-> None,         \* the error inspecting the chunk in hand
   waited |-> None,      \* the idle timer has run out, waiting for this side
   buffered |-> 0,       \* items in the channel
   client |-> "reading", \* or "gone", or "ended" by the end of the body
   beating |-> FALSE,    \* the keep-alive task lives
   got |-> 0,            \* items taken from the upstream
   put |-> 0,            \* of those, items put into the body
   told |-> FALSE,       \* history: an error event went into the body
   fault |-> None,       \* history: the side an error is due to
   health |-> None, status |-> None]

Becomes(i, stream) == s' = [s EXCEPT ![i] = stream]

Init ==
  /\ s = [i \in Streams |-> Unopened]
  /\ free = Limit

-----------------------------------------------------------------------------
\* stream_response: 200 and the first event are there; dispatch had a permit.
Open(i, kind) ==
  /\ s[i].pc = "idle" /\ free > 0
  /\ free' = free - 1
  /\ Becomes(i, [Unopened EXCEPT !.pc = "read", !.native = kind.native,
                                 !.marked = kind.marked, !.beating = ~kind.native])

\* enforce_global_limits: without a permit the request is refused at once.
Refuse(i) == s[i].pc = "idle" /\ free = 0 /\ UNCHANGED vars

\* The producer takes an item.  A native chunk is inspected now and forwarded
\* whatever the inspection says.
Receive(i, done, bad) ==
  /\ s[i].pc = "read" /\ s[i].got < MaxItems
  /\ bad # None => s[i].native
  /\ Becomes(i, [s[i] EXCEPT !.pc = "send", !.got = @ + 1, !.waited = None,
                             !.done = @ \/ done, !.bad = bad])
  /\ UNCHANGED free

\* A completion event the client's protocol has no frame for.
Absorb(i) ==
  /\ s[i].pc = "read" /\ ~s[i].native /\ ~s[i].done
  /\ Becomes(i, [s[i] EXCEPT !.done = TRUE, !.waited = None])
  /\ UNCHANGED free

\* The read fails; or, transcoding, the event does not decode, does not
\* encode, or is an error event.
Fault(i, error) ==
  /\ s[i].pc = "read"
  /\ error = "excused" => ~s[i].native
  /\ Becomes(i, [s[i] EXCEPT !.pc = "after", !.waited = None,
                             !.error = error, !.fault = "upstream"])
  /\ UNCHANGED free

\* The event the preflight waited for is there to be read first.
Begun(i) == s[i].got > 0 \/ s[i].done

\* IdleTimeout: nothing is ready and the timer has run out.
IdleTimeout(i) ==
  /\ s[i].pc = "read" /\ Begun(i) /\ s[i].waited # None
  /\ Becomes(i, [s[i] EXCEPT !.pc = "after", !.waited = None,
                             !.error = "charged", !.fault = s[i].waited])
  /\ UNCHANGED free

UpstreamEnds(i) ==
  /\ s[i].pc = "read" /\ Begun(i)
  /\ Becomes(i, [s[i] EXCEPT !.pc = "after", !.waited = None])
  /\ UNCHANGED free

\* Time passes while the upstream, or the client, makes the producer wait.
TimerRunsOut(i) ==
  /\ s[i].pc \in {"read", "send"} /\ s[i].waited = None
  /\ Becomes(i, [s[i] EXCEPT !.waited = IF s[i].pc = "read" THEN "upstream" ELSE "client"])
  /\ UNCHANGED free

Gone(i) == s[i].client # "reading"

\* Mutant: the channel has no bound.
SendsAlways(i) == TRUE

\* tx.send returns: the item is in the channel, or the client is gone.
Sends(i) == Gone(i) \/ s[i].buffered < Capacity

\* Mutant: a send that fails is an error of the stream.
SendBlaming(i) ==
  /\ s[i].pc = "send" /\ Sends(i)
  /\ Becomes(i, IF Gone(i)
                THEN [s[i] EXCEPT !.pc = "after", !.error = "charged", !.bad = None, !.waited = None]
                ELSE [s[i] EXCEPT !.pc = IF s[i].bad = None THEN "read" ELSE "after",
                                  !.buffered = @ + 1, !.put = @ + 1,
                                  !.error = s[i].bad, !.bad = None,
                                  !.waited = IF s[i].bad = None THEN @ ELSE None,
                                  !.fault = IF s[i].bad = None THEN @ ELSE "upstream"])
  /\ UNCHANGED free

Send(i) ==
  /\ s[i].pc = "send" /\ Sends(i)
  /\ Becomes(i, IF Gone(i)
                THEN [s[i] EXCEPT !.pc = "after", !.closed = TRUE, !.bad = None, !.waited = None]
                ELSE [s[i] EXCEPT !.pc = IF s[i].bad = None THEN "read" ELSE "after",
                                  !.buffered = @ + 1, !.put = @ + 1,
                                  !.error = s[i].bad, !.bad = None,
                                  !.waited = IF s[i].bad = None THEN @ ELSE None,
                                  !.fault = IF s[i].bad = None THEN @ ELSE "upstream"])
  /\ UNCHANGED free

(***************************************************************************)
(* After the loop                                                          *)
(***************************************************************************)
Sound(i) == s[i].error = None /\ ~s[i].closed

\* held: a native parser is left with the completion event, unterminated.
StoppedShort(i, held) == Sound(i) /\ s[i].marked /\ ~s[i].done /\ ~held

\* Where the producer goes with the error it has found, if any.
AfterFinish(i, found) ==
  IF s[i].native THEN "charge"
  ELSE IF found # None THEN "tell"
  ELSE IF s[i].closed THEN "charge" ELSE "flush"

\* Mutant: the end of the upstream is always good enough.
FinishUnmarked(i, error, held) ==
  /\ s[i].pc = "after" /\ (error # None => Sound(i)) /\ ~held
  /\ LET found == IF error # None THEN error ELSE s[i].error
     IN  Becomes(i, [s[i] EXCEPT !.error = found, !.fault = IF error = None THEN @ ELSE "upstream",
                                 !.pc = AfterFinish(i, found)])
  /\ UNCHANGED free

\* Mutant: only errors found before the end are reported to the client.
FinishSilently(i, error, held) ==
  /\ s[i].pc = "after" /\ ~held
  /\ error # None => Sound(i) /\ ~StoppedShort(i, held)
  /\ LET found == IF StoppedShort(i, held) THEN "charged"
                  ELSE IF error # None THEN error ELSE s[i].error
     IN  Becomes(i, [s[i] EXCEPT !.error = found,
                                 !.fault = IF found = s[i].error THEN @ ELSE "upstream",
                                 !.pc = IF found # s[i].error THEN "charge"
                                        ELSE AfterFinish(i, found)])
  /\ UNCHANGED free

\* A stream must end with its completion event, and what the parser, the
\* decoder and the encoder still hold must be in order.
Finish(i, error, held) ==
  /\ s[i].pc = "after"
  /\ held => s[i].native /\ Sound(i)
  /\ error # None => Sound(i) /\ ~StoppedShort(i, held)
  /\ LET found == IF StoppedShort(i, held) THEN "charged"
                  ELSE IF error # None THEN error ELSE s[i].error
     IN  Becomes(i, [s[i] EXCEPT !.error = found, !.done = @ \/ held,
                                 !.fault = IF found = s[i].error THEN @ ELSE "upstream",
                                 !.pc = AfterFinish(i, found)])
  /\ UNCHANGED free

\* The last frames of a transcoded stream: the encoder's closing events, or
\* the error in the client's protocol.
SendLast(i) ==
  /\ s[i].pc \in {"flush", "tell"} /\ Sends(i)
  /\ Becomes(i, IF Gone(i)
                THEN [s[i] EXCEPT !.pc = "charge", !.closed = TRUE]
                ELSE [s[i] EXCEPT !.pc = "charge", !.buffered = @ + 1,
                                  !.told = s[i].pc = "tell"])
  /\ UNCHANGED free

\* record_stream_endpoint_health
Charge(i) ==
  /\ s[i].pc = "charge"
  /\ Becomes(i, [s[i] EXCEPT !.pc = "record",
                             !.health = IF s[i].closed \/ s[i].error = "excused" THEN None
                                        ELSE IF s[i].error = None THEN "success" ELSE "failure"])
  /\ UNCHANGED free

\* Mutant: the permit is not given back.
RecordKeepingPermit(i) ==
  /\ s[i].pc = "record"
  /\ Becomes(i, [s[i] EXCEPT !.pc = "over",
                             !.status = IF s[i].error # None THEN "error"
                                        ELSE IF s[i].closed THEN "499" ELSE "200"])
  /\ UNCHANGED free

\* record(); the task ends and drops its sender and its permit.
Record(i) ==
  /\ s[i].pc = "record"
  /\ Becomes(i, [s[i] EXCEPT !.pc = "over",
                             !.status = IF s[i].error # None THEN "error"
                                        ELSE IF s[i].closed THEN "499" ELSE "200"])
  /\ free' = free + 1

(***************************************************************************)
(* The keep-alive task, and the client                                     *)
(***************************************************************************)
\* Every 15 seconds a comment goes into the body, until a send fails.
KeepAlive(i) ==
  /\ s[i].beating /\ Sends(i)
  /\ Becomes(i, IF Gone(i) THEN [s[i] EXCEPT !.beating = FALSE]
                           ELSE [s[i] EXCEPT !.buffered = @ + 1])
  /\ UNCHANGED free

ClientReads(i) ==
  /\ s[i].client = "reading" /\ s[i].buffered > 0
  /\ Becomes(i, [s[i] EXCEPT !.buffered = @ - 1])
  /\ UNCHANGED free

ClientLeaves(i) ==
  /\ s[i].pc # "idle" /\ s[i].client = "reading"
  /\ Becomes(i, [s[i] EXCEPT !.client = "gone", !.buffered = 0])
  /\ UNCHANGED free

\* The receiver ends when every sender is dropped and the channel is empty.
BodyEnds(i) ==
  /\ s[i].client = "reading" /\ s[i].pc = "over"
  /\ s[i].buffered = 0 /\ ~s[i].beating
  /\ Becomes(i, [s[i] EXCEPT !.client = "ended"])
  /\ UNCHANGED free

\* The next request of this slot.
Reopen(i) ==
  /\ s[i].pc = "over" /\ Gone(i) /\ ~s[i].beating
  /\ Becomes(i, Unopened)
  /\ UNCHANGED free

Upstream(i) ==
  \/ \E done \in BOOLEAN, bad \in {None, "charged"} : Receive(i, done, bad)
  \/ Absorb(i)
  \/ \E error \in Errors : Fault(i, error)
  \/ IdleTimeout(i)
  \/ UpstreamEnds(i)

Sending(i) == Send(i) \/ SendLast(i)

Ending(i) ==
  \/ \E error \in Errors \cup {None}, held \in BOOLEAN : Finish(i, error, held)
  \/ Charge(i) \/ Record(i)

Client(i) == ClientReads(i) \/ BodyEnds(i)

Next ==
  \E i \in Streams :
    \/ \E kind \in Kinds[i] : Open(i, kind)
    \/ Refuse(i) \/ Upstream(i) \/ Sending(i) \/ Ending(i)
    \/ TimerRunsOut(i) \/ KeepAlive(i) \/ Client(i) \/ ClientLeaves(i) \/ Reopen(i)

Spec == Init /\ [][Next]_vars

\* An upstream that stays silent runs into the idle timeout, and no answer is
\* endless.  A slot of the channel is granted in the order senders asked for
\* it, so the keep-alive task cannot keep the producer out.  A client that
\* stays connected reads; whether it leaves is up to it.
FairSpec ==
  /\ Spec
  /\ \A i \in Streams :
       /\ WF_vars(Upstream(i)) /\ WF_vars(Ending(i)) /\ WF_vars(KeepAlive(i))
       /\ SF_vars(Sending(i)) /\ WF_vars(Client(i))

-----------------------------------------------------------------------------
Pcs == {"idle", "read", "send", "after", "flush", "tell", "charge", "record", "over"}

Stream ==
  [pc : Pcs, native : BOOLEAN, marked : BOOLEAN, error : Errors \cup {None},
   closed : BOOLEAN, done : BOOLEAN, bad : {None, "charged"},
   waited : {None, "upstream", "client"}, buffered : 0..Capacity,
   client : {"reading", "gone", "ended"}, beating : BOOLEAN,
   got : 0..MaxItems, put : 0..MaxItems, told : BOOLEAN,
   fault : {None, "upstream", "client"}, health : {None, "success", "failure"},
   status : {None, "200", "499", "error"}]

\* Streams whose producer holds a permit.
Running == {i \in Streams : s[i].pc \notin {"idle", "over"}}

\* Types; the permits in use are those of the running producers.
TypeOK ==
  /\ s \in [Streams -> Stream]
  /\ free \in 0..Limit
  /\ free + Cardinality(Running) = Limit

\* What is logged as 200, or counted as a success of the endpoint, reached the
\* client's body whole, up to the upstream's completion event.
SuccessIsWhole ==
  \A i \in Streams :
    (s[i].status = "200" \/ s[i].health = "success") =>
      /\ s[i].put = s[i].got
      /\ s[i].marked => s[i].done
      /\ s[i].fault = None

\* "client dropped stream before completion; health stats not updated": the
\* endpoint is charged with a failure only for what the upstream did, or for
\* its idle timer that ran out during a slow client's pause.
BlameIsUpstreams ==
  \A i \in Streams :
    s[i].health = "failure" => s[i].fault # None

\* What a stream leaves behind, in the log and in the endpoint's health, is
\* what happened to it, whoever ended it and when (StreamContext).
OutcomeIsTrue == SuccessIsWhole /\ BlameIsUpstreams

\* A client that is still there learns of an error in its own protocol.
ErrorIsTold ==
  \A i \in Streams :
    (s[i].pc = "over" /\ s[i].status = "error" /\ ~s[i].native /\ ~s[i].closed)
      => s[i].told

\* StreamContext: the permit is held until the stream ends, and no longer: a
\* stalled upstream or a departed client never uses up the concurrency limit.
PermitComesBack == free = 0 ~> free > 0

\* sse.rs: the timer is reset with every item, "so long answers are not killed
\* by mistake while a connection that really hangs is reported after `idle`".
\* A timeout is charged only to an upstream that was silent while listened to.
TimeoutMeansSilence ==
  \A i \in Streams : s[i].health = "failure" => s[i].fault = "upstream"

\* gemini.rs: "no sentinel: Done yields no frame, the end of the stream is the
\* close of the connection".  A client that stays sees its body end.
BodyEndsForClient ==
  \A i \in Streams : s[i].pc = "over" ~> s[i].client # "reading"
=============================================================================

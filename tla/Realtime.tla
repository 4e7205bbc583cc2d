------------------------------ MODULE Realtime ------------------------------
(***************************************************************************)
(* The realtime bridge: a websocket of a client, a websocket to an         *)
(* upstream, and one task that waits for a frame of either and hands it to *)
(* the other.  While the task sends it does not listen: a side that does   *)
(* not read holds the other one up.  The task keeps a permit of the        *)
(* concurrency limit from before the upgrade until it has logged the       *)
(* session.                                                                *)
(***************************************************************************)
EXTENDS Integers, Sequences, SequencesExt, FiniteSets

CONSTANTS
  Sessions,    (* the sessions clients may open                              *)
  Permits,     (* max_concurrency                                           *)
  Room,        (* frames a socket takes before its reader has to read       *)
  MaxFrames, MaxAnswers   (* bounds: frames a client and an upstream send    *)

ASSUME RealtimeAssumption ==
  /\ Permits \in Nat \ {0} /\ Room \in Nat \ {0} /\ MaxFrames \in Nat /\ MaxAnswers \in Nat
  /\ IsFiniteSet(Sessions)

VARIABLES
  bridges,     (* what each session is doing                                *)
  free,        (* permits of the semaphore                                  *)
  sessionLog   (* the statuses log_session has written for each session     *)

realtimeVars == <<bridges, free, sessionLog>>

\* A frame is its number in the order it was sent, from 1; the fragment of a
\* message (Continuation) and the Close frames have numbers of their own.
Fragment == 0
Close    == -1     (* with 1000, 1001 or no code                            *)
Abnormal == -2     (* with another code                                     *)

\* A peer: open, after its Close frame, after one with an abnormal code, away.
Ends == {"here", "closed", "failed", "gone"}

\* fromClient, fromUpstream: sent and not yet taken by the bridge; toClient,
\* toUpstream: sent by the bridge and not yet read; held: the frame in hand;
\* clean: client_closed_clean.  Histories: whole frames each side sent and the
\* other read.
NoSession ==
  [pc |-> "none", fromClient |-> <<>>, fromUpstream |-> <<>>, toClient |-> <<>>,
   toUpstream |-> <<>>, held |-> 0, clean |-> FALSE, client |-> "here", upstream |-> "here",
   sentUp |-> 0, sentDown |-> 0, readUp |-> <<>>, readDown |-> <<>>, connected |-> FALSE]

RealtimeInit ==
  /\ bridges = [s \in Sessions |-> NoSession]
  /\ free = Permits
  /\ sessionLog = [s \in Sessions |-> <<>>]

Running(s)   == bridges[s].pc \notin {"none", "done"}
AtBridge(s, pc) == bridges[s].pc = pc
BridgeMoves(s, r) == bridges' = [bridges EXCEPT ![s] = r] /\ UNCHANGED <<free, sessionLog>>

-----------------------------------------------------------------------------
(***************************************************************************)
(* The handler: a permit, a target, the upgrade                            *)
(***************************************************************************)

\* Mutant: the permit stays with the handler and is dropped when it returns.
OpenWithoutPermit(s) ==
  /\ AtBridge(s, "none") /\ free > 0
  /\ BridgeMoves(s, [NoSession EXCEPT !.pc = "connect"])

\* realtime.  Without a permit, or without a channel that speaks the chat
\* protocol, the session is refused and nothing is kept.
OpenSession(s) ==
  /\ AtBridge(s, "none") /\ free > 0
  /\ free' = free - 1
  /\ bridges' = [bridges EXCEPT ![s] = [NoSession EXCEPT !.pc = "connect"]]
  /\ UNCHANGED sessionLog

\* connect_upstream has no timeout of its own
ConnectUpstream(s) ==
  /\ AtBridge(s, "connect")
  /\ \/ BridgeMoves(s, [bridges[s] EXCEPT !.pc = "listen", !.connected = TRUE])
     \/ BridgeMoves(s, [bridges[s] EXCEPT !.pc = "refuse"])

-----------------------------------------------------------------------------
(***************************************************************************)
(* The bridge                                                              *)
(***************************************************************************)

\* A socket takes a frame when there is room; a peer that is gone makes the
\* send fail instead.
HasRoom(queue) == Len(queue) < Room

\* Mutant: the end of the client's stream is not looked at.
FromClientFramesOnly(s) ==
  /\ AtBridge(s, "listen")
  /\ LET b == bridges[s]
     IN  /\ b.fromClient # <<>>
         /\ LET frame == Head(b.fromClient)
                rest  == [b EXCEPT !.fromClient = Tail(@)]
            IN  \/ /\ frame \in {Close, Fragment}
                   /\ BridgeMoves(s, rest)
                \/ /\ frame > 0
                   /\ BridgeMoves(s, [rest EXCEPT !.pc = "send_up", !.held = frame])

\* select: inbound.  to_upstream drops the fragments of a message.
FromClient(s) ==
  /\ AtBridge(s, "listen")
  /\ LET b == bridges[s]
     IN  \/ /\ b.fromClient # <<>>
            /\ LET frame == Head(b.fromClient)
                   rest  == [b EXCEPT !.fromClient = Tail(@)]
               IN  \/ /\ frame = Close
                      /\ BridgeMoves(s, [rest EXCEPT !.pc = "tell_upstream", !.clean = TRUE])
                   \/ /\ frame = Fragment
                      /\ BridgeMoves(s, rest)
                   \/ /\ frame > 0
                      /\ BridgeMoves(s, [rest EXCEPT !.pc = "send_up", !.held = frame])
         \/ /\ b.fromClient = <<>> /\ b.client = "gone"
            /\ BridgeMoves(s, [b EXCEPT !.pc = "tell_upstream"])

\* Mutant: whatever the code of the Close frame, the session ended well.
ClosedWell(frame) == TRUE

CleanClose(frame) == frame = Close

\* select: outbound.  The code of a Close frame says whether it ended well.
FromUpstream(s) ==
  /\ AtBridge(s, "listen")
  /\ LET b == bridges[s]
     IN  \/ /\ b.fromUpstream # <<>>
            /\ LET frame == Head(b.fromUpstream)
                   rest  == [b EXCEPT !.fromUpstream = Tail(@)]
               IN  \/ /\ frame \in {Close, Abnormal}
                      /\ BridgeMoves(s, [rest EXCEPT !.pc = "tell_client", !.held = frame,
                                             !.clean = CleanClose(frame)])
                   \/ /\ frame > 0
                      /\ BridgeMoves(s, [rest EXCEPT !.pc = "send_down", !.held = frame])
         \/ /\ b.fromUpstream = <<>> /\ b.upstream = "gone"
            /\ BridgeMoves(s, [b EXCEPT !.pc = "tell_client", !.held = Abnormal])

\* Mutant: a frame for which there is no room is let go.
SendUpOrDrop(s) ==
  /\ AtBridge(s, "send_up")
  /\ LET b == bridges[s]
     IN  BridgeMoves(s, [b EXCEPT !.pc = IF b.upstream = "gone" THEN "log" ELSE "listen",
                          !.toUpstream = IF HasRoom(@) THEN Append(@, b.held) ELSE @])

\* upstream.send, and the frame that fails ends the session
SendUp(s) ==
  /\ AtBridge(s, "send_up")
  /\ LET b == bridges[s]
     IN  \/ /\ b.upstream = "gone"
            /\ BridgeMoves(s, [b EXCEPT !.pc = "log"])
         \/ /\ b.upstream # "gone" /\ HasRoom(b.toUpstream)
            /\ BridgeMoves(s, [b EXCEPT !.pc = "listen", !.toUpstream = Append(@, b.held)])

\* send_client
SendDown(s) ==
  /\ AtBridge(s, "send_down")
  /\ LET b == bridges[s]
     IN  \/ /\ b.client = "gone"
            /\ BridgeMoves(s, [b EXCEPT !.pc = "log"])
         \/ /\ b.client # "gone" /\ HasRoom(b.toClient)
            /\ BridgeMoves(s, [b EXCEPT !.pc = "listen", !.toClient = Append(@, b.held)])

\* The Close frame for the other side; that it fails is not looked at.
TellUpstream(s) ==
  /\ AtBridge(s, "tell_upstream")
  /\ LET b == bridges[s]
     IN  /\ b.upstream = "gone" \/ HasRoom(b.toUpstream)
         /\ BridgeMoves(s, [b EXCEPT !.pc = "log", !.toUpstream =
                      IF b.upstream = "gone" THEN @ ELSE Append(@, Close)])

TellClient(s) ==
  /\ bridges[s].pc \in {"tell_client", "refuse"}
  /\ LET b == bridges[s]
     IN  /\ b.client = "gone" \/ HasRoom(b.toClient)
         /\ BridgeMoves(s, [b EXCEPT !.pc = "log", !.toClient =
                      IF b.client = "gone" THEN @
                      ELSE Append(@, IF AtBridge(s, "refuse") THEN Abnormal ELSE b.held)])

\* log_session, and the task ends: the permit goes back, the sockets are
\* dropped with whatever was on its way.
SessionStatus(b) == IF ~b.connected THEN 502 ELSE IF b.clean THEN 200 ELSE 499
LogSession(s) ==
  /\ AtBridge(s, "log")
  /\ sessionLog' = [sessionLog EXCEPT ![s] = Append(@, SessionStatus(bridges[s]))]
  /\ bridges' = [bridges EXCEPT ![s] =
       [NoSession EXCEPT !.pc = "done", !.client = bridges[s].client,
                         !.upstream = bridges[s].upstream, !.connected = bridges[s].connected]]
  /\ free' = free + 1

Bridge(s) ==
  \/ FromClient(s) \/ FromUpstream(s) \/ SendUp(s) \/ SendDown(s)
  \/ TellUpstream(s) \/ TellClient(s) \/ LogSession(s)

-----------------------------------------------------------------------------
(***************************************************************************)
(* The peers                                                               *)
(***************************************************************************)

ClientSends(s) ==
  /\ Running(s) /\ bridges[s].client = "here" /\ HasRoom(bridges[s].fromClient)
  /\ \/ /\ bridges[s].sentUp < MaxFrames
        /\ BridgeMoves(s, [bridges[s] EXCEPT !.sentUp = @ + 1,
                     !.fromClient = Append(@, bridges[s].sentUp + 1)])
     \/ BridgeMoves(s, [bridges[s] EXCEPT !.client = "closed", !.fromClient = Append(@, Close)])
     \/ /\ Fragment \notin ToSet(bridges[s].fromClient)
        /\ BridgeMoves(s, [bridges[s] EXCEPT !.fromClient = Append(@, Fragment)])

UpstreamSends(s) ==
  /\ Running(s) /\ bridges[s].connected /\ bridges[s].upstream = "here"
  /\ HasRoom(bridges[s].fromUpstream)
  /\ \/ /\ bridges[s].sentDown < MaxAnswers
        /\ BridgeMoves(s, [bridges[s] EXCEPT !.sentDown = @ + 1,
                     !.fromUpstream = Append(@, bridges[s].sentDown + 1)])
     \/ \E frame \in {Close, Abnormal} :
          BridgeMoves(s, [bridges[s] EXCEPT !.fromUpstream = Append(@, frame),
                            !.upstream = IF frame = Close THEN "closed" ELSE "failed"])

ClientVanishes(s) ==
  /\ Running(s) /\ bridges[s].client = "here"
  /\ BridgeMoves(s, [bridges[s] EXCEPT !.client = "gone", !.toClient = <<>>])

UpstreamVanishes(s) ==
  /\ Running(s) /\ bridges[s].connected /\ bridges[s].upstream = "here"
  /\ BridgeMoves(s, [bridges[s] EXCEPT !.upstream = "gone", !.toUpstream = <<>>])

ClientReads(s) ==
  /\ bridges[s].client # "gone" /\ bridges[s].toClient # <<>>
  /\ BridgeMoves(s, [bridges[s] EXCEPT !.toClient = Tail(@), !.readDown = Append(@, Head(bridges[s].toClient))])

UpstreamReads(s) ==
  /\ bridges[s].upstream # "gone" /\ bridges[s].toUpstream # <<>>
  /\ BridgeMoves(s, [bridges[s] EXCEPT !.toUpstream = Tail(@), !.readUp = Append(@, Head(bridges[s].toUpstream))])

Peers(s) == ClientSends(s) \/ UpstreamSends(s) \/ ClientVanishes(s) \/ UpstreamVanishes(s)
Reads(s) == ClientReads(s) \/ UpstreamReads(s)

\* The process ends: the tasks, their sockets and the semaphore with it.
RealtimeRestart ==
  /\ bridges' = [s \in Sessions |-> IF Running(s) THEN [NoSession EXCEPT !.pc = "done"] ELSE bridges[s]]
  /\ free' = Permits
  /\ UNCHANGED sessionLog

RealtimeNext ==
  \E s \in Sessions : OpenSession(s) \/ ConnectUpstream(s) \/ Bridge(s) \/ Peers(s) \/ Reads(s)

\* The runtime polls the task, and select draws which side it looks at first;
\* both peers read their sockets; the network says whether a connection is
\* there.
RealtimeFairness ==
  \A s \in Sessions : /\ WF_realtimeVars(ConnectUpstream(s)) /\ WF_realtimeVars(Bridge(s))
                      /\ SF_realtimeVars(FromClient(s)) /\ SF_realtimeVars(FromUpstream(s))
                      /\ WF_realtimeVars(ClientReads(s)) /\ WF_realtimeVars(UpstreamReads(s))

-----------------------------------------------------------------------------
(***************************************************************************)
(* Properties                                                              *)
(***************************************************************************)

RealtimeTypeOK ==
  /\ free \in 0..Permits
  /\ \A s \in Sessions :
       /\ DOMAIN bridges[s] = DOMAIN NoSession
       /\ {bridges[s].client, bridges[s].upstream} \subseteq Ends
       /\ Len(bridges[s].toClient) <= Room /\ Len(bridges[s].toUpstream) <= Room

\* _concurrency_permit: a session that runs has its permit, and no permit is
\* lost or returned twice.
PermitsBalance ==
  free + Cardinality({s \in Sessions : Running(s)}) = Permits

\* The whole frames among them are 1 to n, in this order and each of them once.
Whole(frames)     == {i \in DOMAIN frames : frames[i] > 0}
CountUp(frames, n) ==
  /\ {frames[i] : i \in Whole(frames)} = 1..n
  /\ \A i, j \in Whole(frames) : i < j => frames[i] < frames[j]
InHand(s, pc) == IF AtBridge(s, pc) THEN <<bridges[s].held>> ELSE <<>>

\* bridge: the whole frames of a message that one side sent are, in order and
\* each of them once, read by the other, on its way, in the bridge's hand or
\* waiting for it, as long as the reader is there.
NoFrameIsLost ==
  \A s \in Sessions : LET b == bridges[s] IN
    Running(s) =>
      /\ b.upstream # "gone" =>
           CountUp(b.readUp \o b.toUpstream \o InHand(s, "send_up") \o b.fromClient, b.sentUp)
      /\ b.client # "gone" =>
           CountUp(b.readDown \o b.toClient \o InHand(s, "send_down") \o b.fromUpstream,
                   b.sentDown)

\* log_session: a session that ended was logged once, as 502 when there was no
\* upstream and as 200 only when a side had closed it as it should.
SessionsAreLoggedAsTheyEnd ==
  \A s \in Sessions :
    LET b == bridges[s]
    IN  /\ Running(s) => sessionLog[s] = <<>>
        /\ Len(sessionLog[s]) <= 1
        /\ sessionLog[s] = <<200>> => b.client = "closed" \/ b.upstream = "closed"
        /\ sessionLog[s] = <<499>> => b.connected /\ (b.client = "gone" \/ b.upstream \in {"failed", "gone"})
        /\ sessionLog[s] = <<502>> => ~b.connected

\* "Whichever side goes, the other is told": the task ends and the permit is
\* back, as long as the side that is left reads what it is sent or goes too.
EndsReachTheOtherSide ==
  \A s \in Sessions :
    (Running(s) /\ bridges[s].client # "here") \/ (Running(s) /\ bridges[s].upstream # "here") ~> ~Running(s)

\* A bridge as a whole: every frame, one log row, its permit, and an end.
BridgesAreFaithful ==
  []PermitsBalance /\ []NoFrameIsLost /\ []SessionsAreLoggedAsTheyEnd /\ EndsReachTheOtherSide
=============================================================================

-------------------------- MODULE StreamRelayProofs --------------------------
(***************************************************************************)
(* Theorems of StreamRelay, for any number of streams of any kind, any     *)
(* capacity of the body's channel, any concurrency limit and any length.   *)
(***************************************************************************)
EXTENDS StreamRelay, FiniteSetTheorems, TLAPS

\* Nothing has gone wrong with a stream so far.
Intact(q) == q.error = None /\ ~q.closed

\* The producer's loop is over and what Finish does is behind it.
Finished(q) == q.pc \in {"flush", "charge", "record", "over"}

\* Until the loop ends nothing is wrong, and the body has all that was taken
\* from the upstream but the item in hand.
LoopOK(q) ==
  /\ q.pc \in {"idle", "read", "send"} => Intact(q) /\ q.fault = None
  /\ q.pc \in {"idle", "read"} => q.put = q.got /\ q.bad = None
  /\ q.pc = "send" => q.got = q.put + 1

\* A stream with which nothing is wrong afterwards is whole; an error has a cause.
EndOK(q) ==
  /\ Intact(q) /\ q.pc # "send" => q.put = q.got /\ q.fault = None
  /\ Intact(q) /\ Finished(q) /\ q.marked => q.done
  /\ q.error # None => q.fault # None
  /\ q.pc = "tell" => q.error # None
  /\ q.pc = "flush" => q.error = None

\* What is written down about a stream is what became of it.
OutcomeOK(q) ==
  /\ q.pc \in {"charge", "record", "over"} /\ q.error # None /\ ~q.native /\ ~q.closed => q.told
  /\ q.health = "success" => q.pc \in {"record", "over"} /\ Intact(q)
  /\ q.health = "failure" => q.error # None
  /\ q.status = "200" => q.pc = "over" /\ Intact(q)
  /\ q.status = "error" => q.error # None

Good(q) == q \in Stream /\ LoopOK(q) /\ EndOK(q) /\ OutcomeOK(q)

\* The producer of a stream is not at work and holds no permit.
Resting(q) == q.pc \in {"idle", "over"}

\* Only stream i takes a step.
Steps(i) == \A j \in Streams \ {i} : s'[j] = s[j]

\* Every stream has its type.
Typed == s \in [Streams -> Stream]

IInv == TypeOK /\ \A i \in Streams : Good(s[i])

-----------------------------------------------------------------------------
LEMMA ReceiveGood ==
  ASSUME Typed, NEW i \in Streams, Good(s[i]), NEW done \in BOOLEAN, NEW bad \in {None, "charged"}, Receive(i, done, bad)
  PROVE  Good(s'[i]) /\ Steps(i) /\ (Resting(s'[i]) <=> Resting(s[i]))
<1> DEFINE n == s[i].got + 1
<1> DEFINE d == (s[i].done \/ done)
<1> DEFINE q == [s[i] EXCEPT !.pc = "send", !.got = n, !.waited = None, !.done = d, !.bad = bad]
<1>1. s'[i] = q /\ Steps(i)
  BY DEF Receive, Becomes, Steps, Typed
<1>2. n \in 0..MaxItems /\ n = s[i].got + 1
  BY StreamRelayAssumption DEF Receive, Stream, Good
<1>3. d \in BOOLEAN
  OBVIOUS
<1> HIDE DEF n, d
<1>4. q \in Stream
  <2>1. s[i] \in Stream /\ "send" \in Pcs
    BY DEF Good, Pcs
  <2>2. PICK a : a = [s[i] EXCEPT !.pc = "send", !.got = n]
    OBVIOUS
  <2>3. a \in Stream
    BY <2>1, <2>2, <1>2 DEF Stream
  <2>4. PICK b : b = [a EXCEPT !.waited = None, !.done = d]
    OBVIOUS
  <2>5. b \in Stream
    BY <2>3, <2>4, <1>3 DEF Stream
  <2>6. q = [b EXCEPT !.bad = bad]
    BY <2>2, <2>4
  <2> HIDE DEF q
  <2> QED BY <2>5, <2>6 DEF Stream
<1>5. LoopOK(q) /\ EndOK(q) /\ OutcomeOK(q) /\ (Resting(q) <=> Resting(s[i]))
  BY StreamRelayAssumption, <1>2, <1>3, <1>4 DEF Receive, Stream, Pcs, Errors, Good, LoopOK, EndOK, OutcomeOK, Intact, Finished, Resting
<1> QED BY <1>1, <1>4, <1>5 DEF Good

LEMMA AbsorbGood ==
  ASSUME Typed, NEW i \in Streams, Good(s[i]), Absorb(i)
  PROVE  Good(s'[i]) /\ Steps(i) /\ (Resting(s'[i]) <=> Resting(s[i]))
<1> DEFINE q == [s[i] EXCEPT !.done = TRUE, !.waited = None]
<1>1. s'[i] = q /\ Steps(i)
  BY DEF Absorb, Becomes, Steps, Typed
<1>2. q \in Stream
  BY StreamRelayAssumption DEF Absorb, Stream, Pcs, Errors, Good
<1>3. LoopOK(q) /\ EndOK(q) /\ OutcomeOK(q) /\ (Resting(q) <=> Resting(s[i]))
  BY StreamRelayAssumption, <1>2 DEF Absorb, Stream, Pcs, Errors, Good, LoopOK, EndOK, OutcomeOK, Intact, Finished, Resting
<1> QED BY <1>1, <1>2, <1>3 DEF Good

LEMMA FaultGood ==
  ASSUME Typed, NEW i \in Streams, Good(s[i]), NEW error \in Errors, Fault(i, error)
  PROVE  Good(s'[i]) /\ Steps(i) /\ (Resting(s'[i]) <=> Resting(s[i]))
<1> DEFINE q == [s[i] EXCEPT !.pc = "after", !.waited = None, !.error = error, !.fault = "upstream"]
<1>1. s'[i] = q /\ Steps(i)
  BY DEF Fault, Becomes, Steps, Typed
<1>2. q \in Stream
  BY StreamRelayAssumption DEF Fault, Stream, Pcs, Errors, Good
<1>3. LoopOK(q) /\ EndOK(q) /\ OutcomeOK(q) /\ (Resting(q) <=> Resting(s[i]))
  BY StreamRelayAssumption, <1>2 DEF Fault, Stream, Pcs, Errors, Good, LoopOK, EndOK, OutcomeOK, Intact, Finished, Resting
<1> QED BY <1>1, <1>2, <1>3 DEF Good

LEMMA IdleTimeoutGood ==
  ASSUME Typed, NEW i \in Streams, Good(s[i]), IdleTimeout(i)
  PROVE  Good(s'[i]) /\ Steps(i) /\ (Resting(s'[i]) <=> Resting(s[i]))
<1> DEFINE w == s[i].waited
<1> DEFINE q == [s[i] EXCEPT !.pc = "after", !.waited = None, !.error = "charged", !.fault = w]
<1>1. s'[i] = q /\ Steps(i)
  BY DEF IdleTimeout, Becomes, Steps, Typed
<1>2. w \in {None, "upstream", "client"} /\ w # None
  BY DEF IdleTimeout, Stream, Good
<1> HIDE DEF w
<1>3. q \in Stream
  BY StreamRelayAssumption, <1>2 DEF IdleTimeout, Stream, Pcs, Errors, Good
<1>4. LoopOK(q) /\ EndOK(q) /\ OutcomeOK(q) /\ (Resting(q) <=> Resting(s[i]))
  BY StreamRelayAssumption, <1>2, <1>3 DEF IdleTimeout, Stream, Pcs, Errors, Good, LoopOK, EndOK, OutcomeOK, Intact, Finished, Resting
<1> QED BY <1>1, <1>3, <1>4 DEF Good

LEMMA UpstreamEndsGood ==
  ASSUME Typed, NEW i \in Streams, Good(s[i]), UpstreamEnds(i)
  PROVE  Good(s'[i]) /\ Steps(i) /\ (Resting(s'[i]) <=> Resting(s[i]))
<1> DEFINE q == [s[i] EXCEPT !.pc = "after", !.waited = None]
<1>1. s'[i] = q /\ Steps(i)
  BY DEF UpstreamEnds, Becomes, Steps, Typed
<1>2. q \in Stream
  BY StreamRelayAssumption DEF UpstreamEnds, Stream, Pcs, Errors, Good
<1>3. LoopOK(q) /\ EndOK(q) /\ OutcomeOK(q) /\ (Resting(q) <=> Resting(s[i]))
  BY StreamRelayAssumption, <1>2 DEF UpstreamEnds, Stream, Pcs, Errors, Good, LoopOK, EndOK, OutcomeOK, Intact, Finished, Resting
<1> QED BY <1>1, <1>2, <1>3 DEF Good

LEMMA TimerRunsOutGood ==
  ASSUME Typed, NEW i \in Streams, Good(s[i]), TimerRunsOut(i)
  PROVE  Good(s'[i]) /\ Steps(i) /\ (Resting(s'[i]) <=> Resting(s[i]))
<1> DEFINE w == IF s[i].pc = "read" THEN "upstream" ELSE "client"
<1> DEFINE q == [s[i] EXCEPT !.waited = w]
<1>1. s'[i] = q /\ Steps(i)
  BY DEF TimerRunsOut, Becomes, Steps, Typed
<1>2. w \in {None, "upstream", "client"}
  OBVIOUS
<1> HIDE DEF w
<1>3. q \in Stream
  BY StreamRelayAssumption, <1>2 DEF TimerRunsOut, Stream, Pcs, Errors, Good
<1>4. LoopOK(q) /\ EndOK(q) /\ OutcomeOK(q) /\ (Resting(q) <=> Resting(s[i]))
  BY StreamRelayAssumption, <1>2, <1>3 DEF TimerRunsOut, Stream, Pcs, Errors, Good, LoopOK, EndOK, OutcomeOK, Intact, Finished, Resting
<1> QED BY <1>1, <1>3, <1>4 DEF Good

LEMMA SendGood ==
  ASSUME Typed, NEW i \in Streams, Good(s[i]), Send(i)
  PROVE  Good(s'[i]) /\ Steps(i) /\ (Resting(s'[i]) <=> Resting(s[i]))
<1>1. CASE Gone(i)
  <2> DEFINE q == [s[i] EXCEPT !.pc = "after", !.closed = TRUE, !.bad = None, !.waited = None]
  <2>1. s'[i] = q /\ Steps(i)
    BY <1>1 DEF Send, Becomes, Steps, Typed
  <2>2. q \in Stream
    BY StreamRelayAssumption DEF Stream, Pcs, Good
  <2>3. LoopOK(q) /\ EndOK(q) /\ OutcomeOK(q) /\ (Resting(q) <=> Resting(s[i]))
    BY <2>2, StreamRelayAssumption DEF Send, Stream, Good, LoopOK, EndOK, OutcomeOK, Intact, Finished, Resting
  <2> QED BY <2>1, <2>2, <2>3 DEF Good
<1>2. CASE ~Gone(i) /\ s[i].bad = None
  <2> DEFINE m == s[i].buffered + 1
  <2> DEFINE n == s[i].put + 1
  <2> DEFINE q == [s[i] EXCEPT !.pc = "read", !.buffered = m, !.put = n, !.error = None, !.bad = None]
  <2>1. m \in 0..Capacity /\ n \in 0..MaxItems /\ n = s[i].put + 1
    BY <1>2, StreamRelayAssumption DEF Send, Sends, LoopOK, Stream, Good
  <2>2. s'[i] = q /\ Steps(i)
    BY <1>2 DEF Send, Becomes, Steps, Typed
  <2> HIDE DEF m, n
  <2>3. q \in Stream
    BY <2>1, StreamRelayAssumption DEF Stream, Pcs, Good
  <2>4. LoopOK(q) /\ EndOK(q) /\ OutcomeOK(q) /\ (Resting(q) <=> Resting(s[i]))
    BY <2>1, <2>3, StreamRelayAssumption DEF Send, Stream, Good, LoopOK, EndOK, OutcomeOK, Intact, Finished, Resting
  <2> QED BY <2>2, <2>3, <2>4 DEF Good
<1>3. CASE ~Gone(i) /\ s[i].bad # None
  <2> DEFINE m == s[i].buffered + 1
  <2> DEFINE n == s[i].put + 1
  <2> DEFINE e == s[i].bad
  <2> DEFINE q == [s[i] EXCEPT !.pc = "after", !.buffered = m, !.put = n, !.error = e,
                               !.bad = None, !.waited = None, !.fault = "upstream"]
  <2>1. m \in 0..Capacity /\ n \in 0..MaxItems /\ n = s[i].put + 1 /\ e \in Errors
    BY <1>3, StreamRelayAssumption DEF Send, Sends, LoopOK, Errors, Stream, Good
  <2>2. s'[i] = q /\ Steps(i)
    BY <1>3 DEF Send, Becomes, Steps, Typed
  <2> HIDE DEF m, n, e
  <2>3. q \in Stream
    BY <2>1, StreamRelayAssumption DEF Stream, Pcs, Good
  <2>4. LoopOK(q) /\ EndOK(q) /\ OutcomeOK(q) /\ (Resting(q) <=> Resting(s[i]))
    BY <2>1, <2>3, StreamRelayAssumption DEF Send, Stream, Good, LoopOK, EndOK, OutcomeOK, Intact, Finished, Resting, Errors
  <2> QED BY <2>2, <2>3, <2>4 DEF Good
<1> QED BY <1>1, <1>2, <1>3

LEMMA FinishGood ==
  ASSUME Typed, NEW i \in Streams, Good(s[i]),
         NEW error \in Errors \cup {None}, NEW held \in BOOLEAN, Finish(i, error, held)
  PROVE  Good(s'[i]) /\ Steps(i) /\ (Resting(s'[i]) <=> Resting(s[i]))
<1> DEFINE found == IF StoppedShort(i, held) THEN "charged"
                    ELSE IF error # None THEN error ELSE s[i].error
<1> DEFINE d == s[i].done \/ held
<1> DEFINE f == IF found = s[i].error THEN s[i].fault ELSE "upstream"
<1> DEFINE p == AfterFinish(i, found)
<1> DEFINE q == [s[i] EXCEPT !.error = found, !.done = d, !.fault = f, !.pc = p]
<1>1. s'[i] = q /\ Steps(i)
  BY DEF Finish, Becomes, Steps, Typed
<1>2. /\ found \in Errors \cup {None}
      /\ found # s[i].error => found # None /\ Intact(s[i])
      /\ found = None /\ ~s[i].closed /\ s[i].marked => d
  BY StreamRelayAssumption DEF Finish, StoppedShort, Sound, Stream, Errors, Good, Intact
<1>3. f \in {None, "upstream", "client"} /\ (found # s[i].error => f # None)
      /\ (found = s[i].error => f = s[i].fault)
  BY StreamRelayAssumption DEF Stream, Good
<1>4. /\ p \in {"charge", "tell", "flush"}
      /\ p = "tell" => found # None
      /\ p = "flush" => found = None
      /\ p = "charge" /\ ~s[i].native => s[i].closed /\ found = None
  BY DEF AfterFinish
<1>5. d \in BOOLEAN
  OBVIOUS
<1> HIDE DEF found, d, f, p
<1>6. q \in Stream
  <2>1. s[i] \in Stream /\ p \in Pcs
    BY <1>4 DEF Good, Pcs
  <2>2. PICK a : a = [s[i] EXCEPT !.error = found, !.done = d]
    OBVIOUS
  <2>3. a \in Stream
    BY <2>1, <2>2, <1>2, <1>5 DEF Stream
  <2>4. q = [a EXCEPT !.fault = f, !.pc = p]
    BY <2>2
  <2> HIDE DEF q
  <2> QED BY <2>1, <2>3, <2>4, <1>3 DEF Stream
<1>7. LoopOK(q) /\ EndOK(q)
  BY <1>2, <1>3, <1>4, <1>5, <1>6, StreamRelayAssumption
     DEF Finish, Stream, Pcs, Errors, Good, LoopOK, EndOK, OutcomeOK, Intact, Finished, Resting
<1>8. OutcomeOK(q) /\ (Resting(q) <=> Resting(s[i]))
  BY <1>2, <1>3, <1>4, <1>5, <1>6, StreamRelayAssumption
     DEF Finish, Stream, Pcs, Errors, Good, LoopOK, EndOK, OutcomeOK, Intact, Finished, Resting
<1> QED BY <1>1, <1>6, <1>7, <1>8 DEF Good

LEMMA SendLastGood ==
  ASSUME Typed, NEW i \in Streams, Good(s[i]), SendLast(i)
  PROVE  Good(s'[i]) /\ Steps(i) /\ (Resting(s'[i]) <=> Resting(s[i]))
<1> USE StreamRelayAssumption DEF SendLast, Stream, Pcs, Good, LoopOK, EndOK, OutcomeOK, Intact, Finished, Resting
<1>1. CASE Gone(i)
  <2> DEFINE q == [s[i] EXCEPT !.pc = "charge", !.closed = TRUE]
  <2>1. s'[i] = q /\ Steps(i)
    BY <1>1, StreamRelayAssumption DEF Becomes, Steps, Typed
  <2>2. q \in Stream
    BY <1>1, StreamRelayAssumption
  <2>3. LoopOK(q) /\ EndOK(q) /\ OutcomeOK(q) /\ (Resting(q) <=> Resting(s[i]))
    BY <2>2, <1>1, StreamRelayAssumption
  <2> QED BY <2>1, <2>2, <2>3
<1>2. CASE ~Gone(i) /\ s[i].pc = "flush"
  <2> DEFINE m == s[i].buffered + 1
  <2> DEFINE b == (s[i].pc = "tell")
  <2> DEFINE q == [s[i] EXCEPT !.pc = "charge", !.buffered = m, !.told = b]
  <2>1. s'[i] = q /\ Steps(i)
    BY <1>2 DEF Becomes, Steps, Typed
  <2>2. m \in 0..Capacity /\ b = FALSE
    BY <1>2, StreamRelayAssumption DEF Sends
  <2> HIDE DEF m, b
  <2>3. q \in Stream
    BY <1>2, <2>2, StreamRelayAssumption
  <2>4. LoopOK(q) /\ EndOK(q) /\ OutcomeOK(q) /\ (Resting(q) <=> Resting(s[i]))
    BY <1>2, <2>2, <2>3, StreamRelayAssumption
  <2> QED BY <2>1, <2>3, <2>4
<1>3. CASE ~Gone(i) /\ s[i].pc = "tell"
  <2> DEFINE m == s[i].buffered + 1
  <2> DEFINE b == (s[i].pc = "tell")
  <2> DEFINE q == [s[i] EXCEPT !.pc = "charge", !.buffered = m, !.told = b]
  <2>1. s'[i] = q /\ Steps(i)
    BY <1>3 DEF Becomes, Steps, Typed
  <2>2. m \in 0..Capacity /\ b = TRUE
    BY <1>3, StreamRelayAssumption DEF Sends
  <2> HIDE DEF m, b
  <2>3. q \in Stream
    BY <1>3, <2>2, StreamRelayAssumption
  <2>4. LoopOK(q) /\ EndOK(q) /\ OutcomeOK(q) /\ (Resting(q) <=> Resting(s[i]))
    BY <1>3, <2>2, <2>3, StreamRelayAssumption
  <2> QED BY <2>1, <2>3, <2>4
<1> QED BY <1>1, <1>2, <1>3

LEMMA ChargeGood ==
  ASSUME Typed, NEW i \in Streams, Good(s[i]), Charge(i)
  PROVE  Good(s'[i]) /\ Steps(i) /\ (Resting(s'[i]) <=> Resting(s[i]))
<1> USE StreamRelayAssumption DEF Charge, Stream, Pcs, Good, LoopOK, EndOK, OutcomeOK, Intact, Finished, Resting
<1> DEFINE h == IF s[i].closed \/ s[i].error = "excused" THEN None ELSE IF s[i].error = None THEN "success" ELSE "failure"
<1> DEFINE q == [s[i] EXCEPT !.pc = "record", !.health = h]
<1>1. s'[i] = q /\ Steps(i)
  BY StreamRelayAssumption DEF Becomes, Steps, Typed
<1>2. h \in {None, "success", "failure"} /\ (h = "success" => Intact(s[i])) /\ (h = "failure" => s[i].error # None)
  BY StreamRelayAssumption
<1> HIDE DEF h
<1>3. q \in Stream
  BY <1>2, StreamRelayAssumption
<1>4. LoopOK(q) /\ EndOK(q) /\ OutcomeOK(q) /\ (Resting(q) <=> Resting(s[i]))
  BY <1>3, <1>2, StreamRelayAssumption
<1> QED BY <1>1, <1>3, <1>4

LEMMA RecordGood ==
  ASSUME Typed, NEW i \in Streams, Good(s[i]), Record(i)
  PROVE  Good(s'[i]) /\ Steps(i) /\ Resting(s'[i])
<1> USE StreamRelayAssumption DEF Record, Stream, Pcs, Good, LoopOK, EndOK, OutcomeOK, Intact, Finished, Resting
<1> DEFINE h == IF s[i].error # None THEN "error" ELSE IF s[i].closed THEN "499" ELSE "200"
<1> DEFINE q == [s[i] EXCEPT !.pc = "over", !.status = h]
<1>1. s'[i] = q /\ Steps(i)
  BY StreamRelayAssumption DEF Becomes, Steps, Typed
<1>2. h \in {None, "200", "499", "error"} /\ (h = "200" => Intact(s[i])) /\ (h = "error" => s[i].error # None)
  BY StreamRelayAssumption
<1> HIDE DEF h
<1>3. q \in Stream
  BY <1>2, StreamRelayAssumption
<1>4. LoopOK(q) /\ EndOK(q) /\ OutcomeOK(q) /\ Resting(q)
  BY <1>3, <1>2, StreamRelayAssumption
<1> QED BY <1>1, <1>3, <1>4

LEMMA KeepAliveGood ==
  ASSUME Typed, NEW i \in Streams, Good(s[i]), KeepAlive(i)
  PROVE  Good(s'[i]) /\ Steps(i) /\ (Resting(s'[i]) <=> Resting(s[i]))
<1> USE StreamRelayAssumption DEF KeepAlive, Stream, Pcs, Good, LoopOK, EndOK, OutcomeOK, Intact, Finished, Resting
<1>1. CASE Gone(i)
  <2> DEFINE q == [s[i] EXCEPT !.beating = FALSE]
  <2>1. s'[i] = q /\ Steps(i)
    BY <1>1, StreamRelayAssumption DEF Becomes, Steps, Typed
  <2>2. q \in Stream
    BY <1>1, StreamRelayAssumption
  <2>3. LoopOK(q) /\ EndOK(q) /\ OutcomeOK(q) /\ (Resting(q) <=> Resting(s[i]))
    BY <2>2, <1>1, StreamRelayAssumption
  <2> QED BY <2>1, <2>2, <2>3
<1>2. CASE ~Gone(i)
  <2> DEFINE m == s[i].buffered + 1
  <2> DEFINE q == [s[i] EXCEPT !.buffered = m]
  <2>1. s'[i] = q /\ Steps(i)
    BY <1>2, StreamRelayAssumption DEF Becomes, Steps, Typed
  <2>2. m \in 0..Capacity
    BY <1>2, StreamRelayAssumption DEF Sends
  <2> HIDE DEF m
  <2>3. q \in Stream
    BY <1>2, <2>2, StreamRelayAssumption
  <2>4. LoopOK(q) /\ EndOK(q) /\ OutcomeOK(q) /\ (Resting(q) <=> Resting(s[i]))
    BY <2>3, <1>2, <2>2, StreamRelayAssumption
  <2> QED BY <2>1, <2>3, <2>4
<1> QED BY <1>1, <1>2

LEMMA ClientReadsGood ==
  ASSUME Typed, NEW i \in Streams, Good(s[i]), ClientReads(i)
  PROVE  Good(s'[i]) /\ Steps(i) /\ (Resting(s'[i]) <=> Resting(s[i]))
<1> USE StreamRelayAssumption DEF ClientReads, Stream, Pcs, Good, LoopOK, EndOK, OutcomeOK, Intact, Finished, Resting
<1> DEFINE m == s[i].buffered - 1
<1> DEFINE q == [s[i] EXCEPT !.buffered = m]
<1>1. s'[i] = q /\ Steps(i)
  BY StreamRelayAssumption DEF Becomes, Steps, Typed
<1>2. m \in 0..Capacity
  BY StreamRelayAssumption
<1> HIDE DEF m
<1>3. q \in Stream
  BY <1>2, StreamRelayAssumption
<1>4. LoopOK(q) /\ EndOK(q) /\ OutcomeOK(q) /\ (Resting(q) <=> Resting(s[i]))
  BY <1>3, <1>2, StreamRelayAssumption
<1> QED BY <1>1, <1>3, <1>4

LEMMA ClientLeavesGood ==
  ASSUME Typed, NEW i \in Streams, Good(s[i]), ClientLeaves(i)
  PROVE  Good(s'[i]) /\ Steps(i) /\ (Resting(s'[i]) <=> Resting(s[i]))
<1> USE StreamRelayAssumption DEF ClientLeaves, Stream, Pcs, Good, LoopOK, EndOK, OutcomeOK, Intact, Finished, Resting
<1> DEFINE m == 0
<1> DEFINE q == [s[i] EXCEPT !.client = "gone", !.buffered = m]
<1>1. s'[i] = q /\ Steps(i)
  BY DEF Becomes, Steps, Typed
<1>2. m \in 0..Capacity
  BY StreamRelayAssumption
<1> HIDE DEF m
<1>3. q \in Stream
  BY <1>2, StreamRelayAssumption
<1>4. LoopOK(q) /\ EndOK(q) /\ OutcomeOK(q) /\ (Resting(q) <=> Resting(s[i]))
  BY <1>3, StreamRelayAssumption
<1> QED BY <1>1, <1>3, <1>4

LEMMA BodyEndsGood ==
  ASSUME Typed, NEW i \in Streams, Good(s[i]), BodyEnds(i)
  PROVE  Good(s'[i]) /\ Steps(i) /\ (Resting(s'[i]) <=> Resting(s[i]))
<1> DEFINE q == [s[i] EXCEPT !.client = "ended"]
<1>1. s'[i] = q /\ Steps(i)
  BY DEF BodyEnds, Becomes, Steps, Typed
<1>2. q \in Stream
  BY DEF Stream, Good
<1>3. LoopOK(q) /\ EndOK(q) /\ OutcomeOK(q) /\ (Resting(q) <=> Resting(s[i]))
  BY <1>2, StreamRelayAssumption DEF Stream, Pcs, Good, LoopOK, EndOK, OutcomeOK, Intact, Finished, Resting
<1> QED BY <1>1, <1>2, <1>3 DEF Good

LEMMA UnopenedGood == Good(Unopened) /\ Unopened.pc = "idle"
BY StreamRelayAssumption DEF Unopened, Stream, Pcs, Good, LoopOK, EndOK, OutcomeOK, Intact, Finished

LEMMA ReopenGood ==
  ASSUME Typed, NEW i \in Streams, Good(s[i]), Reopen(i)
  PROVE  Good(s'[i]) /\ Steps(i) /\ (Resting(s'[i]) <=> Resting(s[i]))
BY UnopenedGood DEF Reopen, Becomes, Steps, Typed, Resting

\* A stream that has been opened.
Opening(u, a, b, c) == [u EXCEPT !.pc = "read", !.native = a, !.marked = b, !.beating = c]

LEMMA Opened ==
  ASSUME NEW u, Good(u), u.pc = "idle", NEW a \in BOOLEAN, NEW b \in BOOLEAN, NEW c \in BOOLEAN
  PROVE  Good(Opening(u, a, b, c)) /\ Opening(u, a, b, c).pc = "read"
<1> PICK q : q = Opening(u, a, b, c)
  OBVIOUS
<1>1. q \in Stream
  <2>1. u \in Stream /\ "read" \in Pcs
    BY DEF Good, Pcs
  <2>2. PICK t : t = [u EXCEPT !.pc = "read", !.native = a]
    OBVIOUS
  <2>3. t \in Stream
    BY <2>1, <2>2 DEF Stream
  <2>4. q = [t EXCEPT !.marked = b, !.beating = c]
    BY <2>2 DEF Opening
  <2> QED BY <2>3, <2>4 DEF Stream
<1>2. LoopOK(q) /\ EndOK(q) /\ OutcomeOK(q) /\ q.pc = "read"
  BY <1>1, StreamRelayAssumption DEF Opening, Good, Stream, Pcs, LoopOK, EndOK, OutcomeOK, Intact, Finished
<1> QED BY <1>1, <1>2 DEF Good

LEMMA OpenGood ==
  ASSUME Typed, NEW i \in Streams, Good(s[i]), NEW kind \in Kinds[i], Open(i, kind)
  PROVE  Good(s'[i]) /\ Steps(i) /\ ~Resting(s'[i])
<1>1. kind.native \in BOOLEAN /\ kind.marked \in BOOLEAN /\ (~kind.native) \in BOOLEAN
  <2>1. kind \in [native : BOOLEAN, marked : BOOLEAN]
    BY StreamRelayAssumption
  <2> QED BY <2>1
<1>2. s'[i] = Opening(Unopened, kind.native, kind.marked, ~kind.native) /\ Steps(i)
  BY DEF Open, Becomes, Steps, Typed, Opening
<1>3. Good(Unopened) /\ Unopened.pc = "idle"
  BY UnopenedGood
<1>4. Good(s'[i]) /\ s'[i].pc = "read"
  <2>1. \A a, b, c \in BOOLEAN : /\ Good(Opening(Unopened, a, b, c))
                                 /\ Opening(Unopened, a, b, c).pc = "read"
    BY <1>3, Opened, Zenon
  <2> QED BY <1>1, <1>2, <2>1, Zenon
<1> QED BY <1>2, <1>4 DEF Resting

-----------------------------------------------------------------------------
\* What a stream does without touching the permits.
Free(i) ==
  \/ \E done \in BOOLEAN, bad \in {None, "charged"} : Receive(i, done, bad)
  \/ Absorb(i) \/ (\E error \in Errors : Fault(i, error)) \/ IdleTimeout(i) \/ UpstreamEnds(i)
  \/ TimerRunsOut(i) \/ Send(i) \/ SendLast(i) \/ Charge(i) \/ KeepAlive(i)
  \/ \E error \in Errors \cup {None}, held \in BOOLEAN : Finish(i, error, held)
  \/ ClientReads(i) \/ ClientLeaves(i) \/ BodyEnds(i) \/ Reopen(i)

LEMMA FreeKeepsPermits ==
  ASSUME NEW i \in Streams, Free(i)
  PROVE  UNCHANGED free
BY Zenon DEF Free, Receive, Absorb, Fault, IdleTimeout, UpstreamEnds, TimerRunsOut, Send, SendLast,
       Charge, KeepAlive, Finish, ClientReads, ClientLeaves, BodyEnds, Reopen

LEMMA NextCases ==
  ASSUME Next
  PROVE  \/ UNCHANGED vars
         \/ \E i \in Streams : Free(i) /\ UNCHANGED free
         \/ \E i \in Streams : \E kind \in Kinds[i] : Open(i, kind)
         \/ \E i \in Streams : Record(i)
<1>1. PICK i \in Streams :
        \/ \E kind \in Kinds[i] : Open(i, kind)
        \/ Refuse(i) \/ Upstream(i) \/ Sending(i) \/ Ending(i)
        \/ TimerRunsOut(i) \/ KeepAlive(i) \/ Client(i) \/ ClientLeaves(i) \/ Reopen(i)
  BY DEF Next
<1>2. CASE \E kind \in Kinds[i] : Open(i, kind)
  BY <1>2
<1>3. CASE Refuse(i)
  BY <1>3 DEF Refuse
<1>4. CASE Upstream(i)
  BY <1>4, FreeKeepsPermits, Zenon DEF Upstream, Free
<1>5. CASE Sending(i) \/ TimerRunsOut(i) \/ KeepAlive(i) \/ Client(i) \/ ClientLeaves(i) \/ Reopen(i)
  BY <1>5, FreeKeepsPermits, Zenon DEF Sending, Client, Free
<1>6. CASE Ending(i)
  BY <1>6, FreeKeepsPermits, Zenon DEF Ending, Free
<1> QED BY <1>1, <1>2, <1>3, <1>4, <1>5, <1>6, Zenon

LEMMA FreeGood ==
  ASSUME Typed, NEW i \in Streams, Good(s[i]), Free(i)
  PROVE  Good(s'[i]) /\ Steps(i) /\ (Resting(s'[i]) <=> Resting(s[i]))
BY ReceiveGood, AbsorbGood, FaultGood, IdleTimeoutGood, UpstreamEndsGood, TimerRunsOutGood,
   SendGood, SendLastGood, ChargeGood, KeepAliveGood, FinishGood, ClientReadsGood,
   ClientLeavesGood, BodyEndsGood, ReopenGood DEF Free

\* Every action replaces the state of one stream.
LEMMA FunctionStep ==
  ASSUME Typed, NEW i \in Streams, Steps(i), Good(s'[i]),
         \E q : s' = [s EXCEPT ![i] = q], \A j \in Streams : Good(s[j])
  PROVE  s' \in [Streams -> Stream] /\ \A j \in Streams : Good(s'[j])
BY DEF Steps, Typed, Good

LEMMA FreeBecomes ==
  ASSUME NEW i \in Streams, Free(i)
  PROVE  \E q : s' = [s EXCEPT ![i] = q]
BY Zenon DEF Free, Becomes, Receive, Absorb, Fault, IdleTimeout, UpstreamEnds, TimerRunsOut, Send, SendLast,
       Charge, KeepAlive, Finish, ClientReads, ClientLeaves, BodyEnds, Reopen

LEMMA RunningFinite == IsFiniteSet(Running) /\ Cardinality(Running) \in Nat
BY StreamRelayAssumption, FS_Subset, FS_CardinalityType DEF Running

\* The permit of a stream that begins, and of one that ends.
LEMMA OneMore ==
  ASSUME NEW i \in Streams, Steps(i), Resting(s[i]), ~Resting(s'[i])
  PROVE  Cardinality(Running') = Cardinality(Running) + 1
<1>1. i \notin Running /\ Running' = Running \cup {i}
  BY DEF Running, Steps, Resting
<1> QED BY <1>1, RunningFinite, FS_AddElement

LEMMA OneLess ==
  ASSUME NEW i \in Streams, Steps(i), ~Resting(s[i]), Resting(s'[i])
  PROVE  Cardinality(Running') = Cardinality(Running) - 1
<1>1. i \in Running /\ Running' = Running \ {i}
  BY DEF Running, Steps, Resting
<1> QED BY <1>1, RunningFinite, FS_RemoveElement

-----------------------------------------------------------------------------
LEMMA InitInv == Init => IInv
<1> SUFFICES ASSUME Init PROVE IInv
  OBVIOUS
<1>1. \A i \in Streams : Good(s[i])
  BY UnopenedGood DEF Init
<1>2. Running = {}
  BY UnopenedGood DEF Init, Running
<1>3. s \in [Streams -> Stream] /\ free \in 0..Limit /\ free = Limit
  BY UnopenedGood, StreamRelayAssumption DEF Init, Good
<1> QED BY <1>1, <1>2, <1>3, FS_EmptySet, StreamRelayAssumption DEF IInv, TypeOK

LEMMA Inductive == IInv /\ [Next]_vars => IInv'
<1> SUFFICES ASSUME IInv, [Next]_vars PROVE IInv'
  OBVIOUS
<1>t. Typed /\ (\A j \in Streams : Good(s[j])) /\ free \in 0..Limit /\ free + Cardinality(Running) = Limit
  BY DEF IInv, TypeOK, Typed
<1>1. CASE UNCHANGED vars
  BY <1>1 DEF vars, IInv, TypeOK, Running, Good, LoopOK, EndOK, OutcomeOK, Intact, Finished
<1>2. ASSUME NEW i \in Streams, Free(i), UNCHANGED free PROVE IInv'
  <2>1. Good(s'[i]) /\ Steps(i) /\ (Resting(s'[i]) <=> Resting(s[i]))
    BY <1>t, <1>2, FreeGood
  <2>2. Running' = Running
    BY <2>1 DEF Running, Steps, Resting
  <2>3. s' \in [Streams -> Stream] /\ \A j \in Streams : Good(s'[j])
    BY <1>t, <1>2, <2>1, FreeBecomes, FunctionStep
  <2> QED BY <1>t, <1>2, <2>2, <2>3 DEF IInv, TypeOK, Good, LoopOK, EndOK, OutcomeOK, Intact, Finished
<1>3. ASSUME NEW i \in Streams, NEW kind \in Kinds[i], Open(i, kind) PROVE IInv'
  <2>1. Good(s'[i]) /\ Steps(i) /\ ~Resting(s'[i])
    BY <1>t, <1>3, OpenGood
  <2>2. Resting(s[i]) /\ free > 0 /\ free' = free - 1 /\ \E q : s' = [s EXCEPT ![i] = q]
    BY <1>3 DEF Open, Resting, Becomes
  <2>3. s' \in [Streams -> Stream] /\ \A j \in Streams : Good(s'[j])
    BY <1>t, <2>1, <2>2, FunctionStep
  <2>4. Cardinality(Running') = Cardinality(Running) + 1
    BY <2>1, <2>2, OneMore
  <2>5. free' \in 0..Limit /\ free' + Cardinality(Running') = Limit
    BY <1>t, <2>2, <2>4, RunningFinite, StreamRelayAssumption
  <2> QED BY <2>3, <2>5 DEF IInv, TypeOK, Good, LoopOK, EndOK, OutcomeOK, Intact, Finished
<1>4. ASSUME NEW i \in Streams, Record(i) PROVE IInv'
  <2>1. Good(s'[i]) /\ Steps(i) /\ Resting(s'[i])
    BY <1>t, <1>4, RecordGood
  <2>2. ~Resting(s[i]) /\ free' = free + 1 /\ \E q : s' = [s EXCEPT ![i] = q]
    BY <1>4 DEF Record, Resting, Becomes
  <2>3. s' \in [Streams -> Stream] /\ \A j \in Streams : Good(s'[j])
    BY <1>t, <2>1, <2>2, FunctionStep
  <2>4. Cardinality(Running') = Cardinality(Running) - 1
    BY <2>1, <2>2, OneLess
  <2>5. Cardinality(Running') \in Nat
    BY RunningFinite, StreamRelayAssumption, FS_Subset, FS_CardinalityType DEF Running
  <2>6. free' \in 0..Limit /\ free' + Cardinality(Running') = Limit
    BY <1>t, <2>2, <2>4, <2>5, RunningFinite, StreamRelayAssumption
  <2> QED BY <2>3, <2>6 DEF IInv, TypeOK, Good, LoopOK, EndOK, OutcomeOK, Intact, Finished
<1> QED BY <1>1, <1>2, <1>3, <1>4, NextCases

LEMMA Implied == IInv => TypeOK /\ SuccessIsWhole /\ BlameIsUpstreams /\ ErrorIsTold
BY DEF IInv, Good, LoopOK, EndOK, OutcomeOK, Intact, Finished, SuccessIsWhole, BlameIsUpstreams, ErrorIsTold

LEMMA Always == Spec => []IInv
BY InitInv, Inductive, PTL DEF Spec

(***************************************************************************)
(* The theorems                                                            *)
(***************************************************************************)
\* Types, and the conservation of the concurrency permits (StreamContext).
THEOREM TypeCorrect == Spec => []TypeOK
BY Always, Implied, PTL

\* transcoded_stream_response, relay_native_stream: only a whole answer is
\* logged as 200 or counted as a success of the endpoint.
THEOREM SuccessesAreWhole == Spec => []SuccessIsWhole
BY Always, Implied, PTL

\* record_stream_endpoint_health: a client that leaves never costs the
\* endpoint a failure.
THEOREM BlameHasCause == Spec => []BlameIsUpstreams
BY Always, Implied, PTL

\* Both together: the log and the endpoint's health tell what happened.
THEOREM OutcomesAreTrue == Spec => []OutcomeIsTrue
<1>1. SuccessIsWhole /\ BlameIsUpstreams => OutcomeIsTrue
  BY DEF OutcomeIsTrue
<1>2. QED
  BY <1>1, SuccessesAreWhole, BlameHasCause, PTL

\* transcoded_stream_response: a client that stayed got the error event.
THEOREM ErrorsAreTold == Spec => []ErrorIsTold
BY Always, Implied, PTL
=============================================================================

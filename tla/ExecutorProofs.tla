--------------------------- MODULE ExecutorProofs ---------------------------
(***************************************************************************)
(* Theorems of Executor, for any requests, plans, pools of keys, limits    *)
(* and strategies: the counters of a request, the order of its calls, and  *)
(* what the key selector makes of the keys of a pool.                      *)
(***************************************************************************)
EXTENDS Executor, WellFoundedInduction, SequenceTheorems, TLAPS

Pcs == {"idle", "next", "unbind", "send", "wait", "done"}

\* The state of one request.
Call ==
  [pc : Pcs, mode : Modes \cup {"unary"}, unencodable : SUBSET Candidates,
   pools : [Channels -> Pools \cup {Gone}], todo : Seq(Candidates),
   cand : Candidates \cup {None}, rot : Rotators, empties : 0..EmptyRetries,
   calls : 0..CallsMax, attempts : 0..AttemptsMax, result : ErrorKinds \cup {"ok", None},
   plan : Seq(Candidates), downAtStart : SUBSET Candidates, visited : SUBSET Candidates,
   seen : [Candidates -> [Indexes -> Answers \cup {None}]],
   blamed : [Candidates -> ErrorKinds \cup {None}]]

\* PoolOf, for the state of a request.
PoolIn(q, c) == IF c \in OwnKey THEN <<"own">> ELSE q.pools[ChannelOf[c]]

\* An attempt is counted before its call is made.
CountOK(q) ==
  /\ MaxCalls > 0 => q.calls <= MaxCalls
  /\ q.attempts >= q.calls \/ q.attempts = AttemptsMax
  /\ q.pc \in {"unbind", "send"} => q.attempts >= q.calls + 1 \/ q.attempts = AttemptsMax

\* What is left to try is new to the request and its channel was there, and
\* the healthy endpoints of the plan have had, or have before it, their turn.
Healthier(q, j) ==
  \A i \in 1..Len(q.plan) :
    \/ q.plan[i] \in q.downAtStart \cup q.visited
    \/ \E k \in 1..(j - 1) : q.todo[k] = q.plan[i]

OrderOK(q) ==
  /\ NoRepeats(q.todo)
  /\ \A j \in 1..Len(q.todo) :
       /\ q.todo[j] \notin q.visited /\ PoolIn(q, q.todo[j]) # Gone
       /\ q.todo[j] \in q.downAtStart => Healthier(q, j)
  /\ q.visited \cap q.downAtStart # {} =>
       \A i \in 1..Len(q.plan) : q.plan[i] \in q.downAtStart \cup q.visited

\* The keys a rotator has left behind: the tried - 1 ones before its index,
\* around the pool.
Behind(rot, n) ==
  {k \in 0..(n - 1) : k # rot.index /\ (IF k < rot.index THEN rot.index - k
                                                          ELSE rot.index + n - k) < rot.tried}

Untold == {None, "empty", "blank"}

Calling == {"unbind", "send", "wait"}

\* The candidate in hand: its keys left behind have failed, the others have not.
KeysOK(q) ==
  /\ q.pc \in Calling => /\ q.cand \in q.visited /\ q.blamed[q.cand] = None
                         /\ PoolIn(q, q.cand) # Gone
  /\ q.pc = "unbind" => \A k \in Indexes : q.seen[q.cand][k] = None
  /\ q.pc \in {"send", "wait"} =>
       LET n == Len(PoolIn(q, q.cand))
       IN  /\ q.rot.index < n /\ q.rot.tried <= n /\ ~q.rot.exhausted
           /\ \A k \in Indexes : IF k \in Behind(q.rot, n)
                                 THEN q.seen[q.cand][k] \in KeyFailure
                                 ELSE q.seen[q.cand][k] \in Untold

\* What was answered: nothing on candidates not yet visited, nothing final
\* while the request goes on, and every key failed where a key is to blame.
SeenOK(q) ==
  /\ \A c \in Candidates \ q.visited :
       q.blamed[c] = None /\ \A k \in Indexes : q.seen[c][k] = None
  /\ q.pc \in Calling \cup {"next"} =>
       \A c \in Candidates : \A k \in Indexes :
         q.seen[c][k] \in Untold \/ Verdict(q.mode, c, q.seen[c][k]) \in Retryable
  /\ \A c \in Candidates :
       q.blamed[c] \in KeyFailure =>
         \A k \in 0..(Len(PoolIn(q, c)) - 1) : q.seen[c][k] \in KeyFailure

Good(q) == q \in Call /\ CountOK(q) /\ OrderOK(q) /\ KeysOK(q) /\ SeenOK(q)

\* What the requests share, but for the bindings.
SharedOK ==
  /\ deployment \in Deployments
  /\ pools \in [Channels -> Pools \cup {Gone}]
  /\ down \subseteq Candidates
  /\ cursors \in [Channels -> 0..(CursorModulus - 1) \cup {None}]
  /\ edits \in 0..MaxEdits

\* The history of a sticky channel agrees with the bindings.
BindingOK ==
  /\ sticky \in [Channels \X Identities -> Indexes \cup {None}]
  /\ lastKey \in [Channels \X Identities -> Keys \cup {None}]
  /\ \A ch \in Channels : \A id \in Identities :
       LET b == <<ch, id>>
       IN  Strategy[ch] = "sticky" /\ lastKey[b] # None =>
             /\ sticky[b] # None /\ sticky[b] < Len(pools[ch])
             /\ pools[ch][sticky[b] + 1] = lastKey[b]

RequestsOK == req \in [Requests -> Call] /\ \A r \in Requests : Good(req[r])

IInv == SharedOK /\ BindingOK /\ RequestsOK
-----------------------------------------------------------------------------
LEMMA Induction ==
  ASSUME NEW T \in SUBSET Nat, 0 \in T, \A n \in T : n + 1 \in T
  PROVE  T = Nat
<1> DEFINE R == OpToRel(<, Nat)
<1>1. SUFFICES ASSUME Nat \ T # {} PROVE FALSE
  OBVIOUS
<1>2. PICK x \in Nat \ T : \A y \in Nat \ T : ~(<<y, x>> \in R)
  BY <1>1, NatLessThanWellFounded, WFMin
<1>3. x # 0 /\ x - 1 \in Nat
  OBVIOUS
<1>4. <<x - 1, x>> \in R
  BY <1>3 DEF OpToRel
<1>5. x - 1 \in T
  BY <1>2, <1>4, <1>3
<1> QED BY <1>5, <1>3

\* One step of Keep.
Kept(s, S, i, before) == IF s[i] \in S THEN Append(before, s[i]) ELSE before

LEMMA KeepExists ==
  ASSUME NEW s \in Seq(Candidates), NEW S
  PROVE  \E f : f = [i \in 0..Len(s) |-> IF i = 0 THEN <<>> ELSE IF s[i] \in S THEN Append(f[i - 1], s[i]) ELSE f[i - 1]]
<1> DEFINE Upto(n, f) == f = [i \in 0..n |-> IF i = 0 THEN <<>> ELSE Kept(s, S, i, f[i - 1])]
<1> DEFINE T == {n \in Nat : \E f : Upto(n, f)}
<1>1. 0 \in T
  <2> DEFINE f == [i \in 0..0 |-> <<>>]
  <2>1. Upto(0, f)
    OBVIOUS
  <2> QED BY <2>1
<1>2. \A n \in T : n + 1 \in T
  <2> SUFFICES ASSUME NEW n \in Nat, NEW f, Upto(n, f) PROVE \E g : Upto(n + 1, g)
    <3> HIDE DEF Upto
    <3> QED OBVIOUS
  <2> DEFINE last == Kept(s, S, n + 1, f[n])
  <2> DEFINE g == [i \in 0..(n + 1) |-> IF i = n + 1 THEN last ELSE f[i]]
  <2> HIDE DEF last
  <2>1. \A i \in 0..n : f[i] = IF i = 0 THEN <<>> ELSE Kept(s, S, i, f[i - 1])
    OBVIOUS
  <2>2. \A i \in 0..n : g[i] = f[i]
    OBVIOUS
  <2>3. ASSUME NEW i \in 0..(n + 1) PROVE g[i] = IF i = 0 THEN <<>> ELSE Kept(s, S, i, g[i - 1])
    <3>1. CASE i = n + 1
      <4>1. g[i - 1] = f[n] /\ i # 0
        BY <3>1, <2>2
      <4> QED BY <3>1, <4>1 DEF last
    <3>2. CASE i # n + 1
      <4>1. i \in 0..n /\ (i # 0 => i - 1 \in 0..n)
        BY <3>2
      <4> HIDE DEF g
      <4> QED BY <4>1, <2>1, <2>2
    <3> QED BY <3>1, <3>2
  <2>4. g = [i \in 0..(n + 1) |-> g[i]]
    OBVIOUS
  <2> HIDE DEF g
  <2>5. Upto(n + 1, g)
    BY <2>3, <2>4
  <2> QED BY <2>5
<1>3. T = Nat
  <2> HIDE DEF T
  <2> QED BY <1>1, <1>2, Induction DEF T
<1>4. PICK f : Upto(Len(s), f)
  BY <1>3, LenProperties
<1>5. f = [i \in 0..Len(s) |-> IF i = 0 THEN <<>> ELSE IF s[i] \in S THEN Append(f[i - 1], s[i]) ELSE f[i - 1]]
  BY <1>4, Zenon DEF Kept
<1> QED BY <1>5, Zenon

\* What Keep returns: the elements of s in S, each where it was met.
LEMMA KeepProperties ==
  ASSUME NEW s \in Seq(Candidates), NEW S
  PROVE  /\ Keep(s, S) \in Seq(Candidates)
         /\ \A i \in 1..Len(Keep(s, S)) :
              Keep(s, S)[i] \in S /\ \E m \in 1..Len(s) : s[m] = Keep(s, S)[i]
         /\ \A m \in 1..Len(s) : s[m] \in S => \E i \in 1..Len(Keep(s, S)) : Keep(s, S)[i] = s[m]
         /\ NoRepeats(s) => NoRepeats(Keep(s, S))
<1> DEFINE IsKept(f) == f = [i \in 0..Len(s) |-> IF i = 0 THEN <<>> ELSE IF s[i] \in S THEN Append(f[i - 1], s[i]) ELSE f[i - 1]]
<1> DEFINE f == CHOOSE f : IsKept(f)
<1>1. IsKept(f)
  <2>1. \E g : IsKept(g)
    BY KeepExists, Zenon
  <2> HIDE DEF IsKept
  <2> QED BY <2>1, Zenon
<1>2. Keep(s, S) = f[Len(s)]
  BY Zenon DEF Keep
<1> HIDE DEF f
<1>3. Len(s) \in Nat /\ \A m \in 1..Len(s) : s[m] \in Candidates
  BY LenProperties, ElementOfSeq
<1>4. f[0] = <<>> /\ \A i \in 1..Len(s) : f[i] = Kept(s, S, i, f[i - 1])
  <2>1. 0 \in 0..Len(s) /\ \A i \in 1..Len(s) : i \in 0..Len(s) /\ i # 0
    BY <1>3
  <2>2. \A i \in 0..Len(s) :
          f[i] = IF i = 0 THEN <<>> ELSE IF s[i] \in S THEN Append(f[i - 1], s[i]) ELSE f[i - 1]
    BY <1>1, Zenon
  <2> HIDE DEF IsKept
  <2> QED BY <2>1, <2>2 DEF Kept
<1> HIDE DEF IsKept
<1> DEFINE Right(n) ==
      /\ f[n] \in Seq(Candidates)
      /\ \A i \in 1..Len(f[n]) : f[n][i] \in S /\ \E m \in 1..n : s[m] = f[n][i]
      /\ \A m \in 1..n : s[m] \in S => \E i \in 1..Len(f[n]) : f[n][i] = s[m]
      /\ NoRepeats(s) => NoRepeats(f[n])
<1> DEFINE T == {n \in Nat : n <= Len(s) => Right(n)}
<1>5. 0 \in T
  <2>1. Right(0)
    BY <1>4, EmptySeq DEF NoRepeats
  <2> QED BY <2>1
<1>6. \A n \in T : n + 1 \in T
  <2> HIDE DEF Right
  <2> SUFFICES ASSUME NEW n \in Nat, n + 1 <= Len(s), Right(n) PROVE Right(n + 1)
    BY <1>3
  <2> USE DEF Right
  <2> DEFINE k == f[n]
  <2> DEFINE x == s[n + 1]
  <2>1. f[n + 1] = IF x \in S THEN Append(k, x) ELSE k
    BY <1>3, <1>4 DEF Kept
  <2>2. x \in Candidates /\ k \in Seq(Candidates) /\ Len(k) \in Nat
    BY <1>3, LenProperties
  <2>3. CASE x \notin S
    <3>1. f[n + 1] = k
      BY <2>1, <2>3
    <3>2. \A m \in 1..(n + 1) : m \in 1..n \/ m = n + 1
      OBVIOUS
    <3> QED BY <3>1, <3>2, <2>3
  <2>4. CASE x \in S
    <3> DEFINE a == Append(k, x)
    <3>1. /\ a \in Seq(Candidates) /\ Len(a) = Len(k) + 1
          /\ \A i \in 1..Len(k) : a[i] = k[i]
          /\ a[Len(k) + 1] = x
      BY <2>2, AppendProperties
    <3>2. f[n + 1] = a
      BY <2>1, <2>4
    <3> HIDE DEF a, k, x
    <3>3. \A i \in 1..Len(k) : k[i] \in S /\ \E m \in 1..n : s[m] = k[i]
      BY DEF k
    <3>4. \A m \in 1..n : s[m] \in S => \E i \in 1..Len(k) : k[i] = s[m]
      BY DEF k
    <3>5. NoRepeats(s) => NoRepeats(k)
      BY DEF k
    <3>6. ASSUME NEW i \in 1..Len(a) PROVE a[i] \in S /\ \E m \in 1..(n + 1) : s[m] = a[i]
      <4>1. CASE i = Len(k) + 1
        BY <4>1, <3>1, <2>4 DEF x
      <4>2. CASE i # Len(k) + 1
        <5>1. i \in 1..Len(k) /\ a[i] = k[i]
          BY <4>2, <3>1, <2>2
        <5> QED BY <5>1, <3>3
      <4> QED BY <4>1, <4>2
    <3>7. ASSUME NEW m \in 1..(n + 1), s[m] \in S PROVE \E i \in 1..Len(a) : a[i] = s[m]
      <4>1. CASE m = n + 1
        <5>1. Len(k) + 1 \in 1..Len(a)
          BY <3>1, <2>2
        <5> QED BY <4>1, <5>1, <3>1 DEF x
      <4>2. CASE m # n + 1
        <5>1. PICK i \in 1..Len(k) : k[i] = s[m]
          BY <4>2, <3>4, <3>7
        <5>2. i \in 1..Len(a) /\ a[i] = s[m]
          BY <5>1, <3>1, <2>2
        <5> QED BY <5>2
      <4> QED BY <4>1, <4>2
    <3>8. ASSUME NoRepeats(s) PROVE NoRepeats(a)
      <4>1. \A i \in 1..Len(k) : k[i] # x
        <5> SUFFICES ASSUME NEW i \in 1..Len(k), k[i] = x PROVE FALSE
          OBVIOUS
        <5>1. PICK m \in 1..n : s[m] = x
          BY <3>3
        <5>2. m \in 1..Len(s) /\ n + 1 \in 1..Len(s) /\ m # n + 1
          BY <1>3
        <5> QED BY <5>1, <5>2, <3>8 DEF NoRepeats, x
      <4>2. \A i, j \in 1..Len(k) : k[i] = k[j] => i = j
        BY <3>5, <3>8 DEF NoRepeats
      <4>3. \A i \in 1..Len(a) : i \in 1..Len(k) \/ i = Len(k) + 1
        BY <3>1, <2>2
      <4> SUFFICES ASSUME NEW i \in 1..Len(a), NEW j \in 1..Len(a), a[i] = a[j] PROVE i = j
        BY DEF NoRepeats
      <4>4. CASE i \in 1..Len(k) /\ j \in 1..Len(k)
        BY <4>4, <4>2, <3>1
      <4>5. CASE i \in 1..Len(k) /\ j = Len(k) + 1
        BY <4>5, <4>1, <3>1
      <4>6. CASE i = Len(k) + 1 /\ j \in 1..Len(k)
        BY <4>6, <4>1, <3>1
      <4> QED BY <4>3, <4>4, <4>5, <4>6
    <3> QED BY <3>1, <3>2, <3>6, <3>7, <3>8
  <2> QED BY <2>3, <2>4
<1>7. T = Nat
  <2> HIDE DEF T
  <2> QED BY <1>5, <1>6, Induction DEF T
<1>8. Right(Len(s))
  BY <1>3, <1>7
<1> QED BY <1>2, <1>8

\* The order of a plan: each endpoint once, all of the healthy ones before a
\* suspended one, wherever the cap falls.
LEMMA PrioritizeProperties ==
  ASSUME SharedOK, NEW plan \in Plans
  PROVE  /\ plan \in Seq(Candidates)
         /\ Prioritize(plan) \in Seq(Candidates)
         /\ NoRepeats(Prioritize(plan))
         /\ \A j \in 1..Len(Prioritize(plan)) :
              /\ \E m \in 1..Len(plan) : plan[m] = Prioritize(plan)[j]
              /\ Prioritize(plan)[j] \in down =>
                   \A i \in 1..Len(plan) :
                     plan[i] \in down \/ \E k \in 1..(j - 1) : Prioritize(plan)[k] = plan[i]
<1>1. plan \in Seq(Candidates) /\ NoRepeats(plan) /\ AttemptCap \in Nat
  BY ExecutorAssumption DEF SharedOK, Plans, AttemptCap
<1> DEFINE up == Candidates \ down
<1> DEFINE h == Keep(plan, up)
<1> DEFINE d == Keep(plan, down)
<1> DEFINE o == h \o d
<1>2. /\ h \in Seq(Candidates) /\ NoRepeats(h)
      /\ \A i \in 1..Len(h) : h[i] \in up /\ \E m \in 1..Len(plan) : plan[m] = h[i]
      /\ \A m \in 1..Len(plan) : plan[m] \in up => \E i \in 1..Len(h) : h[i] = plan[m]
  <2> HIDE DEF up
  <2> QED BY <1>1, KeepProperties
<1>3. /\ d \in Seq(Candidates) /\ NoRepeats(d)
      /\ \A i \in 1..Len(d) : d[i] \in down /\ \E m \in 1..Len(plan) : plan[m] = d[i]
  BY <1>1, KeepProperties
<1>4. Prioritize(plan) = Truncate(o)
  BY DEF Prioritize
<1> HIDE DEF h, d
<1>5. /\ o \in Seq(Candidates) /\ Len(o) = Len(h) + Len(d) /\ Len(h) \in Nat /\ Len(d) \in Nat
      /\ \A i \in 1..(Len(h) + Len(d)) : o[i] = IF i <= Len(h) THEN h[i] ELSE d[i - Len(h)]
  BY <1>2, <1>3, ConcatProperties, LenProperties
<1> HIDE DEF o
<1>6. \A i \in 1..Len(o) : \/ i <= Len(h) /\ i \in 1..Len(h) /\ o[i] = h[i]
                           \/ i > Len(h) /\ i - Len(h) \in 1..Len(d) /\ o[i] = d[i - Len(h)]
  BY <1>5
<1>7. NoRepeats(o)
  <2> SUFFICES ASSUME NEW i \in 1..Len(o), NEW j \in 1..Len(o), o[i] = o[j] PROVE i = j
    BY DEF NoRepeats
  <2>1. CASE i <= Len(h) /\ j <= Len(h)
    <3>1. i \in 1..Len(h) /\ o[i] = h[i] /\ j \in 1..Len(h) /\ o[j] = h[j]
      BY <2>1, <1>6, <1>5
    <3> QED BY <3>1, <1>2 DEF NoRepeats
  <2>2. CASE i > Len(h) /\ j > Len(h)
    <3>1. /\ i - Len(h) \in 1..Len(d) /\ o[i] = d[i - Len(h)]
          /\ j - Len(h) \in 1..Len(d) /\ o[j] = d[j - Len(h)]
      BY <2>2, <1>6, <1>5
    <3>2. i - Len(h) = j - Len(h)
      BY <3>1, <1>3 DEF NoRepeats
    <3> QED BY <3>2, <1>5
  <2>3. CASE i <= Len(h) /\ j > Len(h)
    <3>1. o[i] \in up
      BY <2>3, <1>6, <1>2, <1>5
    <3>2. j - Len(h) \in 1..Len(d) /\ o[j] = d[j - Len(h)]
      BY <2>3, <1>6, <1>5
    <3>3. o[j] \in down
      BY <3>2, <1>3
    <3> QED BY <3>1, <3>3
  <2>4. CASE i > Len(h) /\ j <= Len(h)
    <3>1. o[j] \in up
      BY <2>4, <1>6, <1>2, <1>5
    <3>2. o[i] \in down
      BY <2>4, <1>6, <1>3, <1>5
    <3> QED BY <3>1, <3>2
  <2> QED BY <2>1, <2>2, <2>3, <2>4, <1>5
<1> DEFINE p == Truncate(o)
<1>8. /\ p \in Seq(Candidates) /\ Len(p) \in Nat /\ Len(p) <= Len(o) /\ \A i \in 1..Len(p) : p[i] = o[i]
  <2>1. CASE AttemptCap = 0
    BY <2>1, <1>5 DEF Truncate
  <2>2. CASE AttemptCap # 0
    <3> DEFINE n == Smaller(AttemptCap, Len(o))
    <3>1. n \in Nat /\ n <= Len(o) /\ n >= 0
      BY <1>1, <1>5 DEF Smaller
    <3>2. \A i \in 1..n : o[i] \in Candidates
      BY <3>1, <1>5, ElementOfSeq
    <3>3. p = SubSeq(o, 1, n)
      BY <2>2 DEF Truncate
    <3> HIDE DEF n, p
    <3>4. /\ SubSeq(o, 1, n) \in Seq(Candidates)
          /\ Len(SubSeq(o, 1, n)) = IF 1 <= n THEN n - 1 + 1 ELSE 0
          /\ \A i \in 1..(n - 1 + 1) : SubSeq(o, 1, n)[i] = o[1 + i - 1]
      BY <3>1, <3>2, SubSeqProperties
    <3> QED BY <3>1, <3>3, <3>4
  <2> QED BY <2>1, <2>2
<1> HIDE DEF p
<1>9. NoRepeats(p)
  BY <1>7, <1>8, <1>5 DEF NoRepeats
<1>10. ASSUME NEW j \in 1..Len(p) PROVE \E m \in 1..Len(plan) : plan[m] = p[j]
  <2>1. j \in 1..Len(o) /\ p[j] = o[j]
    BY <1>8, <1>5
  <2>2. CASE j <= Len(h)
    <3>1. j \in 1..Len(h) /\ o[j] = h[j]
      BY <2>1, <2>2, <1>6, <1>5
    <3> QED BY <3>1, <2>1, <1>2
  <2>3. CASE j > Len(h)
    <3>1. j - Len(h) \in 1..Len(d) /\ o[j] = d[j - Len(h)]
      BY <2>1, <2>3, <1>6, <1>5
    <3> QED BY <3>1, <2>1, <1>3
  <2> QED BY <2>1, <2>2, <2>3, <1>5
<1>11. ASSUME NEW j \in 1..Len(p), p[j] \in down, NEW i \in 1..Len(plan), plan[i] \notin down
       PROVE  \E k \in 1..(j - 1) : p[k] = plan[i]
  <2>1. j \in 1..Len(o) /\ p[j] = o[j] /\ j > Len(h)
    BY <1>8, <1>6, <1>2, <1>5, <1>11
  <2>2. plan[i] \in Candidates
    BY <1>1, ElementOfSeq
  <2>3. PICK k \in 1..Len(h) : h[k] = plan[i]
    BY <2>2, <1>2, <1>11
  <2>4. k \in 1..(j - 1) /\ k \in 1..Len(o) /\ k \in 1..Len(p) /\ k <= Len(h)
    BY <2>1, <2>3, <1>5, <1>8
  <2>5. p[k] = plan[i]
    BY <2>3, <2>4, <1>8, <1>5
  <2> QED BY <2>4, <2>5
<1>12. p = Prioritize(plan)
  BY <1>4 DEF p
<1> HIDE DEF p
<1> QED BY <1>1, <1>8, <1>9, <1>10, <1>11, <1>12

-----------------------------------------------------------------------------
\* What is configured, taken apart.
LEMMA Configured ==
  ASSUME deployment \in Deployments
  PROVE  /\ Clients \subseteq Requests
         /\ Identity \in [Requests -> Identities \cup {None}]
         /\ Strategy \in [Channels -> {"round_robin", "sticky", "random"}]
         /\ InitialPools \in [Channels -> Pools \cup {Gone}] /\ SavedPools \subseteq Pools
         /\ Modes \subseteq {"unary", "stream", "passthrough"}
         /\ Answers \subseteq ErrorKinds \cup Successes /\ Strict \in BOOLEAN
         /\ AttemptCap \in Nat /\ MaxCalls \in Nat /\ EmptyRetries \in Nat
         /\ AttemptsMax \in Nat /\ CallsMax \in Nat /\ MaxEdits \in Nat
         /\ MaxCalls <= CallsMax
BY ExecutorAssumption DEF Clients, Identity, Strategy, InitialPools, SavedPools, Modes, Answers,
   Strict, AttemptCap, MaxCalls, EmptyRetries, AttemptsMax, CallsMax, MaxEdits

\* A pool in use: it has a key, and no more than MaxPool.
LEMMA PoolType ==
  ASSUME NEW q \in Call, NEW c \in Candidates, PoolIn(q, c) # Gone
  PROVE  /\ Len(PoolIn(q, c)) \in 1..MaxPool
         /\ 0..(Len(PoolIn(q, c)) - 1) \subseteq Indexes
         /\ c \notin OwnKey => PoolIn(q, c) \in Pools /\ PoolIn(q, c) = q.pools[ChannelOf[c]]
<1>1. MaxPool \in Nat \ {0}
  BY ExecutorAssumption
<1>2. CASE c \in OwnKey
  BY <1>1, <1>2 DEF PoolIn, Indexes
<1>3. CASE c \notin OwnKey
  <2>1. PoolIn(q, c) = q.pools[ChannelOf[c]] /\ q.pools \in [Channels -> Pools \cup {Gone}] /\ ChannelOf[c] \in Channels
    BY <1>3, ExecutorAssumption DEF PoolIn, Call
  <2>2. PoolIn(q, c) \in Pools
    BY <2>1
  <2>3. PICK n \in 1..MaxPool : PoolIn(q, c) \in [1..n -> Keys]
    BY <2>2 DEF Pools
  <2>4. Len(PoolIn(q, c)) = n
    BY <2>3, <1>1
  <2> QED BY <1>1, <2>1, <2>2, <2>4 DEF Indexes
<1> QED BY <1>2, <1>3

\* What a candidate's key failure, and no other verdict, was: the answer itself.
LEMMA VerdictOfKeys ==
  ASSUME deployment \in Deployments, NEW mode, NEW c, NEW answer \in Answers
  PROVE  /\ Verdict(mode, c, answer) \in ErrorKinds \cup {"ok"}
         /\ Verdict(mode, c, answer) \in KeyFailure => answer \in KeyFailure
         /\ KeyFailure \subseteq Retryable /\ KeyFailure \subseteq AffectsHealth
         /\ AffectsHealth \subseteq ErrorKinds
         /\ None \notin KeyFailure /\ Untold \cap KeyFailure = {}
<1>1. answer \in ErrorKinds \cup Successes
  BY Configured
<1>2. /\ KeyFailure \subseteq Retryable /\ KeyFailure \subseteq AffectsHealth
      /\ AffectsHealth \subseteq ErrorKinds
  BY DEF KeyFailure, Retryable, AffectsHealth, ErrorKinds
<1>3. None \notin KeyFailure
  BY <1>2, ExecutorAssumption
<1>4. CASE answer \in ErrorKinds
  <2>1. answer # "odd" /\ answer # "blank"
    BY <1>4 DEF ErrorKinds, AffectsHealth, KeyFailure
  <2>2. Verdict(mode, c, answer) = answer
    BY <1>4, <2>1 DEF Verdict
  <2> QED BY <1>2, <1>3, <1>4, <2>2 DEF Untold, KeyFailure
<1>5. CASE answer \notin ErrorKinds
  <2>1. Verdict(mode, c, answer) \in {"InvalidUpstreamResponse", NoValidEvent, "InvalidRequest", "ok"}
    BY <1>5 DEF Verdict
  <2> QED BY <1>2, <1>3, <2>1 DEF NoValidEvent, ErrorKinds, AffectsHealth, KeyFailure, Untold
<1> QED BY <1>4, <1>5

LEMMA OrderKept ==
  ASSUME NEW p, NEW q, OrderOK(p), q.todo = p.todo, q.visited = p.visited, q.pools = p.pools,
         q.plan = p.plan, q.downAtStart = p.downAtStart
  PROVE  OrderOK(q)
BY DEF OrderOK, PoolIn, Healthier

LEMMA SeenKept ==
  ASSUME NEW p, NEW q, SeenOK(p), q.seen = p.seen, q.blamed = p.blamed, q.mode = p.mode,
         p.visited \subseteq q.visited, q.pools = p.pools,
         q.pc \in Calling \cup {"next"} => p.pc \in Calling \cup {"next"}
  PROVE  SeenOK(q)
BY DEF SeenOK, PoolIn

\* The head of what is left to try is visited.
LEMMA OrderTail ==
  ASSUME NEW p \in Call, NEW q, OrderOK(p), p.todo # <<>>, q.todo = Tail(p.todo),
         q.visited = p.visited \cup {Head(p.todo)}, q.pools = p.pools,
         q.plan = p.plan, q.downAtStart = p.downAtStart
  PROVE  OrderOK(q)
<1> DEFINE t == p.todo
<1>1. t \in Seq(Candidates) /\ Len(t) \in Nat /\ Len(t) >= 1
  BY EmptySeq, LenProperties DEF Call
<1>2. /\ Len(q.todo) = Len(t) - 1
      /\ \A j \in 1..Len(q.todo) : j + 1 \in 1..Len(t) /\ q.todo[j] = t[j + 1]
  BY <1>1, HeadTailProperties
<1>3. Head(t) = t[1] /\ 1 \in 1..Len(t)
  BY <1>1
<1>4. NoRepeats(q.todo)
  BY <1>1, <1>2 DEF OrderOK, NoRepeats
<1>5. ASSUME NEW j \in 1..Len(q.todo)
      PROVE  q.todo[j] \notin q.visited /\ PoolIn(q, q.todo[j]) # Gone
  <2>1. j + 1 \in 1..Len(t) /\ q.todo[j] = t[j + 1] /\ j + 1 # 1
    BY <1>2
  <2>2. t[j + 1] # t[1]
    BY <2>1, <1>3 DEF OrderOK, NoRepeats
  <2> QED BY <2>1, <2>2, <1>3 DEF OrderOK, PoolIn
<1>6. ASSUME NEW j \in 1..Len(q.todo), q.todo[j] \in q.downAtStart PROVE Healthier(q, j)
  <2> SUFFICES ASSUME NEW i \in 1..Len(q.plan), q.plan[i] \notin q.downAtStart \cup q.visited
               PROVE  \E k \in 1..(j - 1) : q.todo[k] = q.plan[i]
    BY DEF Healthier
  <2>1. j + 1 \in 1..Len(t) /\ Healthier(p, j + 1)
    BY <1>2, <1>6 DEF OrderOK
  <2>2. PICK k \in 1..(j + 1 - 1) : t[k] = p.plan[i]
    BY <2>1 DEF Healthier
  <2>3. k # 1
    BY <2>2, <1>3
  <2>4. k - 1 \in 1..(j - 1) /\ k - 1 \in 1..Len(q.todo) /\ k - 1 + 1 = k
    BY <2>3, <1>1, <1>2
  <2> QED BY <2>2, <2>4, <1>2
<1>7. ASSUME q.visited \cap q.downAtStart # {}
      PROVE  \A i \in 1..Len(q.plan) : q.plan[i] \in q.downAtStart \cup q.visited
  <2>1. CASE p.visited \cap p.downAtStart # {}
    BY <2>1 DEF OrderOK
  <2>2. CASE Head(t) \in p.downAtStart
    <3>1. Healthier(p, 1)
      BY <2>2, <1>3 DEF OrderOK
    <3> QED BY <3>1 DEF Healthier
  <2> QED BY <2>1, <2>2, <1>7
<1> QED BY <1>4, <1>5, <1>6, <1>7 DEF OrderOK

\* An answer is noted at one place.
LEMMA NotedSeen ==
  ASSUME NEW p \in Call, p.cand \in Candidates, NEW answer \in Answers
  PROVE  LET seen == [p.seen EXCEPT ![p.cand][p.rot.index] = answer]
         IN  /\ seen \in [Candidates -> [Indexes -> Answers \cup {None}]]
             /\ \A c \in Candidates : \A k \in Indexes :
                  seen[c][k] = IF c = p.cand /\ k = p.rot.index THEN answer ELSE p.seen[c][k]
BY DEF Call, Rotators

\* Only request r takes a step.
Steps(r) == req' = [req EXCEPT ![r] = req'[r]]

-----------------------------------------------------------------------------
\* The state of one request is replaced.
LEMMA Becomes ==
  ASSUME RequestsOK, NEW r \in Requests, NEW q, req' = [req EXCEPT ![r] = q]
  PROVE  req'[r] = q /\ Steps(r)
<1>1. DOMAIN req = Requests
  BY DEF RequestsOK
<1> QED BY <1>1 DEF Steps

LEMMA IdleGood ==
  ASSUME SharedOK
  PROVE  Good(Idle)
<1>1. Idle \in Call
  BY Configured, ExecutorAssumption, EmptySeq
  DEF SharedOK, Idle, Call, Pcs, Unasked, Rotator, Rotators, Indexes
<1>2. CountOK(Idle)
  BY Configured DEF SharedOK, Idle, CountOK
<1>3. OrderOK(Idle)
  BY DEF Idle, OrderOK, NoRepeats
<1>4. KeysOK(Idle)
  BY DEF Idle, KeysOK, Calling
<1>5. SeenOK(Idle)
  BY VerdictOfKeys, ExecutorAssumption DEF SharedOK, Idle, SeenOK, Unasked, Calling, KeyFailure, ErrorKinds, AffectsHealth
<1> QED BY <1>1, <1>2, <1>3, <1>4, <1>5 DEF Good

LEMMA BeginGood ==
  ASSUME SharedOK, RequestsOK, NEW r \in Requests, NEW mode \in Modes, NEW plan \in Plans,
         NEW unencodable \in SUBSET Candidates, Begin(r, mode, plan, unencodable)
  PROVE  Good(req'[r]) /\ Steps(r)
<1> DEFINE t == Prioritize(plan)
<1> DEFINE q == [Idle EXCEPT !.pc = "next", !.mode = mode, !.unencodable = unencodable,
                             !.pools = pools, !.todo = t, !.result = "NoAvailableChannel",
                             !.plan = plan, !.downAtStart = down]
<1>1. req'[r] = q /\ Steps(r)
  BY DEF Begin, Steps, RequestsOK
<1>2. /\ plan \in Seq(Candidates) /\ t \in Seq(Candidates) /\ NoRepeats(t)
      /\ \A j \in 1..Len(t) :
           /\ \E m \in 1..Len(plan) : plan[m] = t[j]
           /\ t[j] \in down => \A i \in 1..Len(plan) :
                                  plan[i] \in down \/ \E k \in 1..(j - 1) : t[k] = plan[i]
  BY PrioritizeProperties
<1> HIDE DEF t
<1>3. Idle \in Call /\ CountOK(Idle) /\ SeenOK(Idle)
  BY IdleGood DEF Good
<1>4. q \in Call
  BY <1>2, <1>3 DEF SharedOK, Call, Pcs, ErrorKinds
<1>5. CountOK(q)
  BY <1>3 DEF CountOK, Call, Idle
<1>6. OrderOK(q)
  <2>1. q.todo = t /\ q.visited = {} /\ q.pools = pools /\ q.plan = plan /\ q.downAtStart = down
    BY DEF Idle
  <2> HIDE DEF q
  <2>2. ASSUME NEW j \in 1..Len(t) PROVE PoolIn(q, t[j]) # Gone
    <3>1. PICK m \in 1..Len(plan) : plan[m] = t[j]
      BY <1>2
    <3>2. pools[ChannelOf[t[j]]] # Gone
      BY <3>1 DEF Begin
    <3> QED BY <3>2, <2>1 DEF PoolIn, Gone
  <2> QED BY <1>2, <2>1, <2>2 DEF OrderOK, Healthier
<1>7. KeysOK(q)
  BY DEF KeysOK, Calling, Idle
<1>8. SeenOK(q)
  BY ExecutorAssumption DEF Idle, SeenOK, Unasked, Calling, Untold, KeyFailure, ErrorKinds, AffectsHealth
<1> QED BY <1>1, <1>4, <1>5, <1>6, <1>7, <1>8 DEF Good

LEMMA GiveUpGood ==
  ASSUME SharedOK, RequestsOK, NEW r \in Requests, GiveUp(r)
  PROVE  Good(req'[r]) /\ Steps(r)
<1> DEFINE p == req[r]
<1> DEFINE q == [p EXCEPT !.pc = "done"]
<1>1. req'[r] = q /\ Steps(r)
  BY DEF GiveUp, Steps, RequestsOK
<1>2. p \in Call /\ CountOK(p) /\ OrderOK(p) /\ KeysOK(p) /\ SeenOK(p) /\ p.pc = "next"
  BY DEF GiveUp, RequestsOK, Good
<1> HIDE DEF p
<1>3. q \in Call
  BY <1>2 DEF Call, Pcs
<1>4. CountOK(q) /\ KeysOK(q)
  BY <1>2 DEF Call, CountOK, KeysOK, Calling
<1>5. OrderOK(q) /\ SeenOK(q)
  BY <1>2, OrderKept, SeenKept DEF Call
<1> QED BY <1>1, <1>3, <1>4, <1>5 DEF Good

\* saturating_add(1), and what it makes of the attempts of a request.
LEMMA CountType ==
  ASSUME NEW max \in Nat, NEW n \in 0..max
  PROVE  /\ Count(n, max) \in 0..max /\ n <= Count(n, max) /\ Count(n, max) <= n + 1
         /\ Count(n, max) >= n + 1 \/ Count(n, max) = max
BY DEF Count

LEMMA AttemptCounted ==
  ASSUME SharedOK, NEW p \in Call, CountOK(p), NEW a, a = Count(p.attempts, AttemptsMax)
  PROVE  /\ a \in 0..AttemptsMax /\ a >= p.attempts
         /\ a >= p.calls + 1 \/ a = AttemptsMax
         /\ AttemptsMax \in Nat /\ p.calls \in Nat
<1>1. p.attempts \in 0..AttemptsMax /\ p.calls \in 0..CallsMax
  BY DEF Call
<1>2. AttemptsMax \in Nat /\ CallsMax \in Nat
  BY Configured DEF SharedOK
<1>3. p.attempts >= p.calls \/ p.attempts = AttemptsMax
  BY DEF CountOK
<1>4. /\ a \in 0..AttemptsMax /\ p.attempts <= a /\ a <= p.attempts + 1
      /\ a >= p.attempts + 1 \/ a = AttemptsMax
  BY <1>1, <1>2, CountType
<1> HIDE DEF CountOK
<1> QED BY <1>1, <1>2, <1>3, <1>4

LEMMA SendGood ==
  ASSUME SharedOK, RequestsOK, NEW r \in Requests, Send(r)
  PROVE  Good(req'[r]) /\ Steps(r)
<1> DEFINE p == req[r]
<1>1. p \in Call /\ CountOK(p) /\ OrderOK(p) /\ KeysOK(p) /\ SeenOK(p) /\ p.pc = "send"
  BY DEF Send, RequestsOK, Good
<1>2. CASE BudgetLeft(r)
  <2> DEFINE n == Count(p.calls, CallsMax)
  <2> DEFINE q == [p EXCEPT !.pc = "wait", !.calls = n]
  <2>1. req'[r] = q /\ Steps(r)
    <3> DEFINE o == [p EXCEPT !.pc = "done", !.result = "NoAvailableChannel"]
    <3>1. req' = [req EXCEPT ![r] = IF BudgetLeft(r) THEN q ELSE o]
      BY DEF Send
    <3> HIDE DEF q, o
    <3> QED BY <3>1, <1>2 DEF Steps, RequestsOK
  <2>2. /\ n \in 0..CallsMax /\ n <= p.calls + 1
        /\ MaxCalls > 0 => n <= MaxCalls
    <3>1. p.calls \in 0..CallsMax /\ CallsMax \in Nat /\ MaxCalls \in Nat
      BY <1>1, Configured DEF SharedOK, Call
    <3>2. n \in 0..CallsMax /\ n <= p.calls + 1
      BY <3>1, CountType
    <3>3. MaxCalls = 0 \/ p.calls < MaxCalls
      BY <1>2 DEF BudgetLeft
    <3> HIDE DEF n, p
    <3> QED BY <3>1, <3>2, <3>3
  <2> HIDE DEF p, n
  <2>3. q \in Call
    BY <1>1, <2>2 DEF Call, Pcs
  <2>4. CountOK(q)
    BY <1>1, <2>2, Configured DEF SharedOK, Call, CountOK
  <2>5. KeysOK(q)
    BY <1>1 DEF Call, KeysOK, Calling, PoolIn
  <2>6. OrderOK(q) /\ SeenOK(q)
    BY <1>1, OrderKept, SeenKept DEF Call, Calling
  <2> QED BY <2>1, <2>3, <2>4, <2>5, <2>6 DEF Good
<1>3. CASE ~BudgetLeft(r)
  <2> DEFINE q == [p EXCEPT !.pc = "done", !.result = "NoAvailableChannel"]
  <2>1. req'[r] = q /\ Steps(r)
    BY <1>3 DEF Send, Steps, RequestsOK
  <2> HIDE DEF p
  <2>3. q \in Call
    BY <1>1 DEF Call, Pcs, ErrorKinds
  <2>4. CountOK(q) /\ KeysOK(q)
    BY <1>1 DEF Call, CountOK, KeysOK, Calling
  <2>5. OrderOK(q) /\ SeenOK(q)
    BY <1>1, OrderKept, SeenKept DEF Call, Calling
  <2> QED BY <2>1, <2>3, <2>4, <2>5 DEF Good
<1> QED BY <1>2, <1>3

LEMMA ReturnGood ==
  ASSUME SharedOK, RequestsOK, NEW r \in Requests, Return(r)
  PROVE  Good(req'[r]) /\ Steps(r)
BY IdleGood DEF Return, Steps, RequestsOK

\* The next key in turn is one of the pool.
LEMMA InTurnType ==
  ASSUME NEW r \in Requests, NEW c \in Candidates, NEW index,
         Len(PoolOf(r, c)) \in 1..MaxPool,
         cursors \in [Channels -> 0..(CursorModulus - 1) \cup {None}], InTurn(r, c, index)
  PROVE  /\ index \in 0..(Len(PoolOf(r, c)) - 1)
         /\ cursors' \in [Channels -> 0..(CursorModulus - 1) \cup {None}]
<1> DEFINE ch == ChannelOf[c]
<1> DEFINE n == Len(PoolOf(r, c))
<1> DEFINE cursor == IF cursors[ch] = None THEN 0 ELSE cursors[ch]
<1>1. ch \in Channels /\ MaxPool \in Nat /\ CursorModulus \in Nat \ {0}
  BY ExecutorAssumption
<1>2. cursor \in Nat /\ n \in Nat \ {0}
  BY <1>1
<1>3. index = cursor % n /\ cursors' = [cursors EXCEPT ![ch] = (cursor + 1) % CursorModulus]
  BY DEF InTurn, NextCursor
<1> HIDE DEF cursor, n, ch
<1>4. cursor % n \in 0..(n - 1) /\ (cursor + 1) % CursorModulus \in 0..(CursorModulus - 1)
  BY <1>1, <1>2
<1> QED BY <1>1, <1>3, <1>4 DEF n, ch

\* A rotator at its first key has left none behind.
LEMMA FirstKey ==
  ASSUME NEW n \in Nat, NEW index \in 0..(n - 1)
  PROVE  Behind(Rotator(index), n) = {}
BY DEF Behind, Rotator

LEMMA EnterGood ==
  ASSUME SharedOK, RequestsOK, NEW r \in Requests, Enter(r)
  PROVE  /\ Good(req'[r]) /\ Steps(r)
         /\ cursors' \in [Channels -> 0..(CursorModulus - 1) \cup {None}]
<1> DEFINE p == req[r]
<1> DEFINE c == Head(p.todo)
<1> DEFINE t == Tail(p.todo)
<1> DEFINE v == p.visited \cup {c}
<1> DEFINE a == Count(p.attempts, AttemptsMax)
<1> DEFINE skipped == [p EXCEPT !.todo = t, !.visited = v]
<1> DEFINE counted == [p EXCEPT !.todo = t, !.visited = v, !.attempts = a]
<1>1. /\ p \in Call /\ CountOK(p) /\ OrderOK(p) /\ KeysOK(p) /\ SeenOK(p)
      /\ p.pc = "next" /\ p.todo # <<>> /\ p.todo \in Seq(Candidates)
  BY DEF Enter, RequestsOK, Good, Call
<1>2. c \in Candidates /\ t \in Seq(Candidates) /\ v \in SUBSET Candidates
  BY <1>1, HeadTailProperties DEF Call
<1>3. c \notin p.visited /\ PoolIn(p, c) # Gone
  <2>1. 1 \in 1..Len(p.todo) /\ c = p.todo[1]
    BY <1>1, EmptySeq
  <2> QED BY <1>1, <2>1 DEF OrderOK
<1>4. /\ a \in 0..AttemptsMax /\ a >= p.attempts
      /\ a >= p.calls + 1 \/ a = AttemptsMax
      /\ AttemptsMax \in Nat
  BY <1>1, AttemptCounted
<1>5. p.blamed[c] = None /\ \A k \in Indexes : p.seen[c][k] = None
  BY <1>1, <1>2, <1>3 DEF SeenOK
<1>6. CASE Foreign(r, c)
  <2>1. req'[r] = skipped /\ Steps(r) /\ cursors' = cursors
    BY <1>6 DEF Enter, Steps, RequestsOK
  <2> HIDE DEF p, c, t, v, a
  <2>2. skipped \in Call
    BY <1>1, <1>2 DEF Call
  <2>3. OrderOK(skipped)
    BY <1>1, OrderTail DEF Call, t, v, c
  <2>4. SeenOK(skipped)
    BY <1>1, SeenKept DEF Call, v
  <2>5. CountOK(skipped) /\ KeysOK(skipped)
    BY <1>1 DEF Call, CountOK, KeysOK, Calling
  <2> QED BY <2>1, <2>2, <2>3, <2>4, <2>5 DEF Good, SharedOK
<1>7. CASE ~Foreign(r, c) /\ c \in p.unencodable
  <2> DEFINE q == [counted EXCEPT !.result = "InvalidRequest"]
  <2>1. req'[r] = q /\ Steps(r) /\ cursors' = cursors
    BY <1>7 DEF Enter, Steps, RequestsOK
  <2> HIDE DEF p, c, t, v, a
  <2>2. q \in Call
    BY <1>1, <1>2, <1>4 DEF Call, ErrorKinds
  <2>3. OrderOK(q)
    BY <1>1, OrderTail DEF Call, t, v, c
  <2>4. SeenOK(q)
    BY <1>1, SeenKept DEF Call, v
  <2>5. CountOK(q) /\ KeysOK(q)
    BY <1>1, <1>4 DEF Call, CountOK, KeysOK, Calling
  <2> QED BY <2>1, <2>2, <2>3, <2>4, <2>5 DEF Good, SharedOK
<1>8. CASE ~Foreign(r, c) /\ c \notin p.unencodable /\ Outdated(r, c)
  <2> DEFINE q == [counted EXCEPT !.pc = "unbind", !.cand = c]
  <2>1. req'[r] = q /\ Steps(r) /\ cursors' = cursors
    BY <1>8 DEF Enter, Steps, RequestsOK
  <2> HIDE DEF p, c, t, v, a
  <2>2. q \in Call
    BY <1>1, <1>2, <1>4 DEF Call, Pcs
  <2>3. OrderOK(q)
    BY <1>1, OrderTail DEF Call, t, v, c
  <2>4. SeenOK(q)
    BY <1>1, SeenKept DEF Call, v, Calling
  <2>5. CountOK(q)
    BY <1>1, <1>4 DEF Call, CountOK
  <2>6. KeysOK(q)
    BY <1>1, <1>3, <1>5 DEF Call, KeysOK, PoolIn, v
  <2> QED BY <2>1, <2>2, <2>3, <2>4, <2>5, <2>6 DEF Good, SharedOK
<1>9. CASE ~Foreign(r, c) /\ c \notin p.unencodable /\ ~Outdated(r, c)
  <2>1. PICK index \in Indexes :
          /\ FirstIndex(r, c, index)
          /\ req' = [req EXCEPT ![r] =
               [[skipped EXCEPT !.attempts = Count(@, AttemptsMax)]
                  EXCEPT !.pc = "send", !.cand = c, !.rot = Rotator(index), !.empties = 0]]
    <3> HIDE DEF skipped
    <3> QED BY <1>9, Zenon DEF Enter, skipped
  <2> DEFINE n == Len(PoolOf(r, c))
  <2>2. PoolOf(r, c) = PoolIn(p, c) /\ n \in 1..MaxPool
    BY <1>1, <1>2, <1>3, PoolType DEF PoolOf, PoolIn
  <2>3. index \in 0..(n - 1) /\ cursors' \in [Channels -> 0..(CursorModulus - 1) \cup {None}]
    <3> HIDE DEF n
    <3> USE <2>2 DEF n
    <3>1. CASE c \notin OwnKey /\ Strategy[ChannelOf[c]] = "random"
      BY <3>1, <2>1 DEF FirstIndex, SharedOK
    <3>2. CASE ~(c \notin OwnKey /\ Strategy[ChannelOf[c]] = "random") /\ Bound(r, c) # None
      BY <3>2, <2>1, <1>9 DEF FirstIndex, SharedOK, Outdated, Indexes
    <3>3. CASE ~(c \notin OwnKey /\ Strategy[ChannelOf[c]] = "random") /\ Bound(r, c) = None
      <4>1. InTurn(r, c, index)
        BY <3>3, <2>1 DEF FirstIndex
      <4>2. Len(PoolOf(r, c)) \in 1..MaxPool /\ c \in Candidates
        BY <2>2, <1>2
      <4> HIDE DEF c
      <4> QED BY <4>1, <4>2, InTurnType DEF SharedOK, n
    <3> QED BY <3>1, <3>2, <3>3
  <2> DEFINE rot == Rotator(index)
  <2> DEFINE q == [counted EXCEPT !.pc = "send", !.cand = c, !.rot = rot, !.empties = 0]
  <2>4. req'[r] = q /\ Steps(r)
    BY <2>1 DEF Steps, RequestsOK
  <2>5. /\ rot \in Rotators /\ rot.index = index /\ rot.tried = 1 /\ ~rot.exhausted
        /\ Behind(rot, n) = {}
    <3>1. n \in Nat /\ index \in 0..(n - 1) /\ MaxPool \in Nat \ {0}
      BY <2>2, <2>3, ExecutorAssumption
    <3> HIDE DEF n, c, p
    <3>2. Behind(rot, n) = {}
      BY <3>1, FirstKey
    <3>3. rot.index = index /\ rot.tried = 1 /\ ~rot.exhausted
      BY DEF Rotator
    <3>4. rot \in Rotators
      BY <3>1 DEF Rotator, Rotators
    <3> QED BY <3>2, <3>3, <3>4
  <2> HIDE DEF p, c, t, v, a, rot, n
  <2>6. q \in Call
    <3>1. EmptyRetries \in Nat
      BY Configured DEF SharedOK
    <3>2. counted \in Call
      BY <1>1, <1>2, <1>4 DEF Call
    <3>3. "send" \in Pcs /\ 0 \in 0..EmptyRetries /\ rot \in Rotators
      BY <2>5, <3>1 DEF Pcs
    <3> HIDE DEF counted
    <3> QED BY <1>2, <3>2, <3>3 DEF Call
  <2>7. OrderOK(q)
    BY <1>1, OrderTail DEF Call, t, v, c
  <2>8. SeenOK(q)
    BY <1>1, SeenKept DEF Call, v, Calling
  <2>9. CountOK(q)
    BY <1>1, <1>4 DEF Call, CountOK
  <2>10. KeysOK(q)
    <3>1. q.cand = c /\ q.rot = rot /\ q.seen = p.seen /\ q.blamed = p.blamed /\ q.pc = "send"
            /\ q.visited = v /\ PoolIn(q, c) = PoolIn(p, c)
      BY <1>1 DEF Call, PoolIn
    <3> HIDE DEF q
    <3>2. Len(PoolIn(q, c)) = n /\ PoolIn(q, c) # Gone /\ c \in v
      BY <3>1, <2>2, <1>3 DEF n, v
    <3> QED BY <3>1, <3>2, <1>5, <2>2, <2>3, <2>5 DEF KeysOK, Untold
  <2> QED BY <2>3, <2>4, <2>6, <2>7, <2>8, <2>9, <2>10 DEF Good
<1> QED BY <1>6, <1>7, <1>8, <1>9

LEMMA UnbindGood ==
  ASSUME SharedOK, RequestsOK, NEW r \in Requests, Unbind(r)
  PROVE  /\ Good(req'[r]) /\ Steps(r)
         /\ cursors' \in [Channels -> 0..(CursorModulus - 1) \cup {None}]
<1> DEFINE p == req[r]
<1> DEFINE c == p.cand
<1> DEFINE n == Len(PoolOf(r, c))
<1>1. /\ p \in Call /\ CountOK(p) /\ OrderOK(p) /\ KeysOK(p) /\ SeenOK(p) /\ p.pc = "unbind"
  BY DEF Unbind, RequestsOK, Good
<1>2. c \in Candidates /\ PoolIn(p, c) # Gone /\ c \in p.visited /\ p.blamed[c] = None
      /\ \A k \in Indexes : p.seen[c][k] = None
  BY <1>1 DEF KeysOK, Calling, Call
<1>3. PoolOf(r, c) = PoolIn(p, c) /\ n \in 1..MaxPool
  BY <1>1, <1>2, PoolType DEF PoolOf, PoolIn
<1>4. PICK index \in Indexes :
        /\ InTurn(r, c, index)
        /\ req' = [req EXCEPT ![r] =
             [req[r] EXCEPT !.pc = "send", !.rot = Rotator(index), !.empties = 0]]
  BY DEF Unbind
<1>5. index \in 0..(n - 1) /\ cursors' \in [Channels -> 0..(CursorModulus - 1) \cup {None}]
  <2> HIDE DEF c
  <2> QED BY <1>2, <1>3, <1>4, InTurnType DEF SharedOK, n
<1> DEFINE rot == Rotator(index)
<1> DEFINE q == [p EXCEPT !.pc = "send", !.rot = rot, !.empties = 0]
<1>6. req'[r] = q /\ Steps(r)
  <2>1. req' = [req EXCEPT ![r] = q]
    BY <1>4
  <2> HIDE DEF q
  <2> QED BY <2>1, Becomes
<1>7. rot \in Rotators /\ rot.index = index /\ rot.tried = 1 /\ ~rot.exhausted /\ Behind(rot, n) = {}
  <2>1. n \in Nat /\ index \in 0..(n - 1) /\ MaxPool \in Nat \ {0}
    BY <1>3, <1>5, ExecutorAssumption
  <2> HIDE DEF n, c, p
  <2>2. Behind(rot, n) = {}
    BY <2>1, FirstKey
  <2>3. rot.index = index /\ rot.tried = 1 /\ ~rot.exhausted
    BY DEF Rotator
  <2>4. rot \in Rotators
    BY <2>1 DEF Rotator, Rotators
  <2> QED BY <2>2, <2>3, <2>4
<1> HIDE DEF rot, p
<1>8. q \in Call
  <2>1. "send" \in Pcs /\ 0 \in 0..EmptyRetries
    BY Configured DEF SharedOK, Pcs
  <2> QED BY <1>1, <1>7, <2>1 DEF Call
<1>9. q.pc = "send" /\ q.rot = rot /\ q.cand = c /\ q.seen = p.seen /\ q.blamed = p.blamed
        /\ q.visited = p.visited /\ q.pools = p.pools /\ q.mode = p.mode /\ q.calls = p.calls
        /\ q.attempts = p.attempts /\ q.todo = p.todo /\ q.plan = p.plan
        /\ q.downAtStart = p.downAtStart
  BY <1>1 DEF Call
<1> HIDE DEF q, c, n
<1>10. OrderOK(q) /\ SeenOK(q)
  BY <1>1, <1>9, OrderKept, SeenKept DEF Calling
<1>11. CountOK(q)
  BY <1>1, <1>9 DEF CountOK
<1>12. KeysOK(q)
  <2>1. PoolIn(q, c) = PoolIn(p, c) /\ Len(PoolIn(q, c)) = n
    BY <1>9, <1>3 DEF PoolIn, n
  <2> QED BY <1>9, <2>1, <1>2, <1>3, <1>5, <1>7 DEF KeysOK, Untold
<1> QED BY <1>5, <1>6, <1>8, <1>10, <1>11, <1>12 DEF Good

\* Where an answer finds a request.
LEMMA Waiting ==
  ASSUME SharedOK, RequestsOK, NEW r \in Requests, req[r].pc = "wait", NEW answer \in Answers
  PROVE  LET p == req[r]
             c == p.cand
             n == Size(r)
             seen == [p.seen EXCEPT ![c][p.rot.index] = answer]
         IN  /\ p \in Call /\ CountOK(p) /\ OrderOK(p) /\ KeysOK(p) /\ SeenOK(p)
             /\ c \in Candidates /\ c \in p.visited /\ p.blamed[c] = None
             /\ PoolIn(p, c) # Gone /\ n = Len(PoolIn(p, c)) /\ n \in 1..MaxPool
             /\ p.rot \in Rotators /\ p.rot.index \in Indexes /\ p.rot.index < n
             /\ p.rot.tried \in 1..n /\ ~p.rot.exhausted
             /\ seen \in [Candidates -> [Indexes -> Answers \cup {None}]]
             /\ \A d \in Candidates : \A k \in Indexes :
                  seen[d][k] = IF d = c /\ k = p.rot.index THEN answer ELSE p.seen[d][k]
             /\ Noted(r, answer) = [p EXCEPT !.seen = seen]
             /\ Noted(r, answer) \in Call
<1> DEFINE p == req[r]
<1> DEFINE c == p.cand
<1> DEFINE n == Size(r)
<1> DEFINE seen == [p.seen EXCEPT ![c][p.rot.index] = answer]
<1>1. p \in Call /\ CountOK(p) /\ OrderOK(p) /\ KeysOK(p) /\ SeenOK(p)
  BY DEF RequestsOK, Good
<1>2. c \in Candidates /\ c \in p.visited /\ p.blamed[c] = None /\ PoolIn(p, c) # Gone
  BY <1>1 DEF KeysOK, Calling, Call
<1>3. n = Len(PoolIn(p, c)) /\ n \in 1..MaxPool
  BY <1>1, <1>2, PoolType DEF Size, PoolOf, PoolIn
<1>4. /\ p.rot \in Rotators /\ p.rot.index < Len(PoolIn(p, c))
      /\ p.rot.tried <= Len(PoolIn(p, c)) /\ ~p.rot.exhausted
  BY <1>1 DEF KeysOK, Call
<1>5. p.rot.index \in Indexes /\ p.rot.tried \in 1..n
  BY <1>3, <1>4 DEF Rotators
<1>6. /\ seen \in [Candidates -> [Indexes -> Answers \cup {None}]]
      /\ \A d \in Candidates : \A k \in Indexes :
           seen[d][k] = IF d = c /\ k = p.rot.index THEN answer ELSE p.seen[d][k]
  BY <1>1, <1>2, NotedSeen
<1>7. Noted(r, answer) = [p EXCEPT !.seen = seen]
  BY <1>1 DEF Noted, Call
<1>8. [p EXCEPT !.seen = seen] \in Call
  <2> HIDE DEF seen, p
  <2> QED BY <1>1, <1>6 DEF Call
<1> QED BY <1>1, <1>2, <1>3, <1>4, <1>5, <1>6, <1>7, <1>8

\* What was seen stays in order when one more answer is noted.
LEMMA SeenNoted ==
  ASSUME deployment \in Deployments,
         NEW p \in Call, NEW q \in Call, SeenOK(p), p.pc = "wait", p.cand \in Candidates,
         p.cand \in p.visited, p.blamed[p.cand] = None,
         NEW index \in Indexes, NEW answer \in Answers,
         q.mode = p.mode, q.visited = p.visited, q.pools = p.pools,
         \A d \in Candidates : \A k \in Indexes :
           q.seen[d][k] = IF d = p.cand /\ k = index THEN answer ELSE p.seen[d][k],
         \A d \in Candidates \ {p.cand} : q.blamed[d] = p.blamed[d],
         q.pc \in Calling \cup {"next"} =>
           answer \in Untold \/ Verdict(p.mode, p.cand, answer) \in Retryable,
         q.blamed[p.cand] \in KeyFailure =>
           \A k \in 0..(Len(PoolIn(p, p.cand)) - 1) : q.seen[p.cand][k] \in KeyFailure
  PROVE  SeenOK(q)
<1>1. \A c \in Candidates \ q.visited :
        q.blamed[c] = None /\ \A k \in Indexes : q.seen[c][k] = None
  BY DEF SeenOK
<1>2. ASSUME q.pc \in Calling \cup {"next"}, NEW c \in Candidates, NEW k \in Indexes
      PROVE  q.seen[c][k] \in Untold \/ Verdict(q.mode, c, q.seen[c][k]) \in Retryable
  <2>1. p.seen[c][k] \in Untold \/ Verdict(p.mode, c, p.seen[c][k]) \in Retryable
    BY DEF SeenOK, Calling
  <2> QED BY <1>2, <2>1
<1>3. ASSUME NEW c \in Candidates, q.blamed[c] \in KeyFailure,
             NEW k \in 0..(Len(PoolIn(q, c)) - 1)
      PROVE  q.seen[c][k] \in KeyFailure
  <2>1. PoolIn(q, c) = PoolIn(p, c)
    BY DEF PoolIn
  <2>2. CASE c = p.cand
    BY <1>3, <2>1, <2>2
  <2>3. CASE c # p.cand
    <3>1. p.seen[c][k] \in KeyFailure
      BY <1>3, <2>1, <2>3 DEF SeenOK
    <3>2. PoolIn(p, c) # Gone
      BY <1>3, <2>1 DEF Gone
    <3>3. k \in Indexes
      BY <1>3, <2>1, <3>2, PoolType
    <3> QED BY <3>1, <3>3, <2>3
  <2> QED BY <2>2, <2>3
<1> QED BY <1>1, <1>2, <1>3 DEF SeenOK

LEMMA AnswerEmptyGood ==
  ASSUME SharedOK, RequestsOK, NEW r \in Requests, NEW answer \in Answers, AnswerEmpty(r, answer)
  PROVE  Good(req'[r]) /\ Steps(r)
<1> DEFINE p == req[r]
<1> DEFINE c == p.cand
<1> DEFINE n == Size(r)
<1> DEFINE seen == [p.seen EXCEPT ![c][p.rot.index] = answer]
<1> DEFINE a == Count(p.attempts, AttemptsMax)
<1> DEFINE e == p.empties + 1
<1> DEFINE q == [p EXCEPT !.seen = seen, !.pc = "send", !.empties = e, !.attempts = a]
<1>1. /\ p \in Call /\ CountOK(p) /\ OrderOK(p) /\ KeysOK(p) /\ SeenOK(p) /\ p.pc = "wait"
      /\ c \in Candidates /\ c \in p.visited /\ p.blamed[c] = None
      /\ PoolIn(p, c) # Gone /\ n = Len(PoolIn(p, c)) /\ n \in 1..MaxPool
      /\ p.rot.index \in Indexes
      /\ seen \in [Candidates -> [Indexes -> Answers \cup {None}]]
      /\ \A d \in Candidates : \A k \in Indexes :
           seen[d][k] = IF d = c /\ k = p.rot.index THEN answer ELSE p.seen[d][k]
      /\ Noted(r, answer) = [p EXCEPT !.seen = seen]
  <2>1. req[r].pc = "wait"
    BY DEF AnswerEmpty
  <2> QED BY <2>1, Waiting, Zenon
<1>2. e \in 0..EmptyRetries
  <2>1. p.empties \in 0..EmptyRetries /\ p.empties < EmptyRetries
    BY <1>1 DEF AnswerEmpty, RetriesEmpty, Call
  <2>2. EmptyRetries \in Nat
    BY Configured DEF SharedOK
  <2>3. PICK x : x = p.empties
    OBVIOUS
  <2>4. x \in 0..EmptyRetries /\ x < EmptyRetries
    BY <2>1, <2>3
  <2>5. x + 1 \in 0..EmptyRetries
    BY <2>2, <2>4
  <2> QED BY <2>3, <2>5
<1>3. /\ a \in 0..AttemptsMax /\ p.calls \in Nat
      /\ a >= p.calls + 1 \/ a = AttemptsMax
  <2> HIDE DEF p
  <2>1. PICK k : k = Count(p.attempts, AttemptsMax)
    OBVIOUS
  <2>2. p \in Call /\ CountOK(p) /\ a = k
    BY <1>1, <2>1
  <2> HIDE DEF a
  <2> QED BY <2>1, <2>2, AttemptCounted, Zenon
<1>4. answer \in {"empty", "blank"}
  BY DEF AnswerEmpty, RetriesEmpty
<1>5. req'[r] = q /\ Steps(r)
  <2>1. req' = [req EXCEPT ![r] = q]
    BY <1>1 DEF AnswerEmpty, Call
  <2> HIDE DEF q
  <2> QED BY <2>1, Becomes
<1> HIDE DEF p, c, n, seen, a, e
<1>6. q \in Call
  <2>1. PICK m : m = [p EXCEPT !.seen = seen, !.pc = "send"]
    OBVIOUS
  <2>2. m \in Call
    <3>1. p \in Call /\ seen \in [Candidates -> [Indexes -> Answers \cup {None}]]
      BY <1>1
    <3> QED BY <3>1, <2>1 DEF Call, Pcs
  <2>3. q = [m EXCEPT !.empties = e, !.attempts = a]
    BY <2>1
  <2> HIDE DEF q
  <2> QED BY <1>2, <1>3, <2>2, <2>3 DEF Call
<1>7. q.pc = "send" /\ q.rot = p.rot /\ q.cand = p.cand /\ q.seen = seen /\ q.blamed = p.blamed
        /\ q.visited = p.visited /\ q.pools = p.pools /\ q.mode = p.mode /\ q.calls = p.calls
        /\ q.attempts = a /\ q.todo = p.todo /\ q.plan = p.plan
        /\ q.downAtStart = p.downAtStart
  BY <1>1 DEF Call
<1> HIDE DEF q
<1>8. OrderOK(q)
  BY <1>1, <1>7, OrderKept
<1>9. CountOK(q)
  <2>1. AttemptsMax \in Nat
    BY Configured DEF SharedOK
  <2>2. MaxCalls > 0 => p.calls <= MaxCalls
    BY <1>1 DEF CountOK
  <2> QED BY <1>3, <1>7, <2>1, <2>2 DEF CountOK
<1>10. KeysOK(q)
  <2>1. PoolIn(q, q.cand) = PoolIn(p, c)
    BY <1>7 DEF PoolIn, c
  <2>2. p.rot.index \notin Behind(p.rot, n)
    BY DEF Behind
  <2>3. /\ p.rot.index < n /\ p.rot.tried <= n /\ ~p.rot.exhausted
        /\ \A k \in Indexes : IF k \in Behind(p.rot, n)
                              THEN p.seen[c][k] \in KeyFailure
                              ELSE p.seen[c][k] \in Untold
    BY <1>1 DEF KeysOK, c
  <2>4. \A k \in Indexes : IF k \in Behind(p.rot, n)
                           THEN seen[c][k] \in KeyFailure
                           ELSE seen[c][k] \in Untold
    BY <1>1, <1>4, <2>2, <2>3 DEF Untold
  <2> QED BY <1>1, <1>7, <2>1, <2>3, <2>4 DEF KeysOK, c
<1>11. SeenOK(q)
  <2>1. deployment \in Deployments /\ None \notin KeyFailure
    BY VerdictOfKeys DEF SharedOK
  <2>2. q.blamed[p.cand] \notin KeyFailure
    BY <1>1, <1>7, <2>1 DEF c
  <2>3. \A d \in Candidates \ {p.cand} : q.blamed[d] = p.blamed[d]
    BY <1>7
  <2>4. answer \in Untold
    BY <1>4 DEF Untold
  <2>5. q.mode = p.mode /\ q.visited = p.visited /\ q.pools = p.pools
    BY <1>7
  <2>6. \A d \in Candidates : \A k \in Indexes :
          q.seen[d][k] = IF d = p.cand /\ k = p.rot.index THEN answer ELSE p.seen[d][k]
    BY <1>1, <1>7 DEF c
  <2>7. /\ p \in Call /\ SeenOK(p) /\ p.pc = "wait" /\ p.cand \in Candidates
        /\ p.cand \in p.visited /\ p.blamed[p.cand] = None /\ p.rot.index \in Indexes
    BY <1>1 DEF c
  <2> QED BY <1>6, <2>1, <2>2, <2>3, <2>4, <2>5, <2>6, <2>7, SeenNoted
<1> QED BY <1>5, <1>6, <1>8, <1>9, <1>10, <1>11 DEF Good

LEMMA AnswerOkGood ==
  ASSUME SharedOK, RequestsOK, NEW r \in Requests, NEW answer \in Answers, AnswerOk(r, answer)
  PROVE  Good(req'[r]) /\ Steps(r)
<1> DEFINE p == req[r]
<1> DEFINE c == p.cand
<1> DEFINE seen == [p.seen EXCEPT ![c][p.rot.index] = answer]
<1> DEFINE q == [p EXCEPT !.seen = seen, !.pc = "done", !.result = "ok"]
<1>1. /\ p \in Call /\ CountOK(p) /\ OrderOK(p) /\ KeysOK(p) /\ SeenOK(p) /\ p.pc = "wait"
      /\ c \in Candidates /\ c \in p.visited /\ p.blamed[c] = None
      /\ p.rot.index \in Indexes
      /\ seen \in [Candidates -> [Indexes -> Answers \cup {None}]]
      /\ \A d \in Candidates : \A k \in Indexes :
           seen[d][k] = IF d = c /\ k = p.rot.index THEN answer ELSE p.seen[d][k]
      /\ Noted(r, answer) = [p EXCEPT !.seen = seen]
  <2>1. req[r].pc = "wait"
    BY DEF AnswerOk
  <2> QED BY <2>1, Waiting, Zenon
<1>2. req'[r] = q /\ Steps(r)
  <2>1. req' = [req EXCEPT ![r] = q]
    BY <1>1 DEF AnswerOk, Call
  <2> HIDE DEF q
  <2> QED BY <2>1, Becomes
<1> HIDE DEF p, c, seen
<1>3. q \in Call
  <2>1. PICK m : m = [p EXCEPT !.seen = seen]
    OBVIOUS
  <2>2. m \in Call
    <3>1. p \in Call /\ seen \in [Candidates -> [Indexes -> Answers \cup {None}]]
      BY <1>1
    <3> QED BY <3>1, <2>1 DEF Call
  <2>3. q = [m EXCEPT !.pc = "done", !.result = "ok"]
    BY <2>1
  <2> HIDE DEF q
  <2> QED BY <2>2, <2>3 DEF Call, Pcs
<1>4. q.pc = "done" /\ q.seen = seen /\ q.blamed = p.blamed
        /\ q.visited = p.visited /\ q.pools = p.pools /\ q.mode = p.mode /\ q.calls = p.calls
        /\ q.attempts = p.attempts /\ q.todo = p.todo /\ q.plan = p.plan
        /\ q.downAtStart = p.downAtStart
  BY <1>1 DEF Call
<1> HIDE DEF q
<1>5. OrderOK(q)
  BY <1>1, <1>4, OrderKept
<1>6. CountOK(q) /\ KeysOK(q)
  BY <1>1, <1>4 DEF CountOK, KeysOK, Calling
<1>7. SeenOK(q)
  <2>1. deployment \in Deployments /\ None \notin KeyFailure
    BY VerdictOfKeys DEF SharedOK
  <2>2. q.blamed[p.cand] \notin KeyFailure
    BY <1>1, <1>4, <2>1 DEF c
  <2>3. \A d \in Candidates \ {p.cand} : q.blamed[d] = p.blamed[d]
    BY <1>4
  <2>4. q.pc \notin Calling \cup {"next"}
    BY <1>4 DEF Calling
  <2>5. \A d \in Candidates : \A k \in Indexes :
          q.seen[d][k] = IF d = p.cand /\ k = p.rot.index THEN answer ELSE p.seen[d][k]
    BY <1>1, <1>4 DEF c
  <2>6. p.cand \in Candidates /\ p.cand \in p.visited /\ p.blamed[p.cand] = None
    BY <1>1 DEF c
  <2>7. /\ p \in Call /\ SeenOK(p) /\ p.pc = "wait" /\ p.rot.index \in Indexes
        /\ q.mode = p.mode /\ q.visited = p.visited /\ q.pools = p.pools
    BY <1>1, <1>4
  <2> QED BY <1>3, <2>1, <2>2, <2>3, <2>4, <2>5, <2>6, <2>7, SeenNoted
<1> QED BY <1>2, <1>3, <1>5, <1>6, <1>7 DEF Good

\* The rotator's next key: the key in hand joins those left behind.
LEMMA NextKey ==
  ASSUME NEW n \in Nat, NEW rot \in Rotators, rot.index \in 0..(n - 1), rot.tried \in 1..n,
         rot.tried < n, MaxPool \in Nat, n <= MaxPool
  PROVE  /\ Rotate(rot, n) \in Rotators
         /\ Rotate(rot, n).index \in 0..(n - 1) /\ Rotate(rot, n).tried = rot.tried + 1
         /\ Rotate(rot, n).exhausted = rot.exhausted
         /\ Behind(Rotate(rot, n), n) = Behind(rot, n) \cup {rot.index}
         /\ Rotate(rot, n).index # rot.index
<1> DEFINE i == rot.index
<1> DEFINE next == IF i + 1 = n THEN 0 ELSE i + 1
<1>1. (i + 1) % n = next /\ next \in 0..(n - 1) /\ next # i
  BY DEF Rotators
<1> DEFINE t == rot.tried + 1
<1>2. Rotate(rot, n) = [index |-> next, tried |-> t, exhausted |-> rot.exhausted]
  <2>1. rot = [index |-> i, tried |-> rot.tried, exhausted |-> rot.exhausted]
    BY DEF Rotators
  <2>2. Rotate(rot, n) = [rot EXCEPT !.index = next, !.tried = t]
    BY <1>1 DEF Rotate
  <2> HIDE DEF next, t
  <2> QED BY <2>1, <2>2
<1>3. t \in 1..n /\ i \in 0..(n - 1) /\ t = rot.tried + 1 /\ rot.tried \in Nat
  OBVIOUS
<1>4. Rotate(rot, n) \in Rotators
  BY <1>1, <1>2, <1>3 DEF Rotators, Indexes
<1> DEFINE new == [index |-> next, tried |-> t, exhausted |-> rot.exhausted]
<1>5. ASSUME NEW k \in 0..(n - 1)
      PROVE  k \in Behind(new, n) <=> (k \in Behind(rot, n) \/ k = i)
  <2>1. k \in Behind(new, n) <=>
          k # next /\ (IF k < next THEN next - k ELSE next + n - k) < t
    BY DEF Behind
  <2>2. k \in Behind(rot, n) <=> k # i /\ (IF k < i THEN i - k ELSE i + n - k) < rot.tried
    BY DEF Behind
  <2>3. next = IF i + 1 = n THEN 0 ELSE i + 1
    OBVIOUS
  <2> HIDE DEF i, t, next
  <2>4. CASE k < i
    BY <2>1, <2>2, <2>3, <2>4, <1>3
  <2>5. CASE k = i
    BY <2>1, <2>3, <2>5, <1>3
  <2>6. CASE k > i
    BY <2>1, <2>2, <2>3, <2>6, <1>3
  <2> QED BY <2>4, <2>5, <2>6, <1>3
<1>6. Behind(new, n) \subseteq 0..(n - 1) /\ Behind(rot, n) \subseteq 0..(n - 1)
  BY DEF Behind
<1> QED BY <1>1, <1>2, <1>3, <1>4, <1>5, <1>6

LEMMA TryNextKeyGood ==
  ASSUME SharedOK, RequestsOK, NEW r \in Requests, NEW answer \in Answers, TryNextKey(r, answer)
  PROVE  Good(req'[r]) /\ Steps(r)
<1> DEFINE p == req[r]
<1> DEFINE c == p.cand
<1> DEFINE n == Size(r)
<1> DEFINE seen == [p.seen EXCEPT ![c][p.rot.index] = answer]
<1> DEFINE a == Count(p.attempts, AttemptsMax)
<1> DEFINE rot == Rotate(p.rot, n)
<1> DEFINE q == [p EXCEPT !.seen = seen, !.pc = "send", !.rot = rot, !.attempts = a]
<1>1. /\ p \in Call /\ CountOK(p) /\ OrderOK(p) /\ KeysOK(p) /\ SeenOK(p) /\ p.pc = "wait"
      /\ c \in Candidates /\ c \in p.visited /\ p.blamed[c] = None
      /\ PoolIn(p, c) # Gone /\ n = Len(PoolIn(p, c)) /\ n \in 1..MaxPool
      /\ p.rot \in Rotators /\ p.rot.index \in Indexes /\ p.rot.index < n
      /\ p.rot.tried \in 1..n /\ ~p.rot.exhausted
      /\ seen \in [Candidates -> [Indexes -> Answers \cup {None}]]
      /\ \A d \in Candidates : \A k \in Indexes :
           seen[d][k] = IF d = c /\ k = p.rot.index THEN answer ELSE p.seen[d][k]
      /\ Noted(r, answer) = [p EXCEPT !.seen = seen]
  <2>1. req[r].pc = "wait"
    BY DEF TryNextKey
  <2> QED BY <2>1, Waiting, Zenon
<1>2. /\ a \in 0..AttemptsMax /\ p.calls \in Nat
      /\ a >= p.calls + 1 \/ a = AttemptsMax
  <2> HIDE DEF p
  <2>1. PICK k : k = Count(p.attempts, AttemptsMax)
    OBVIOUS
  <2>2. p \in Call /\ CountOK(p) /\ a = k
    BY <1>1, <2>1
  <2> HIDE DEF a
  <2> QED BY <2>1, <2>2, AttemptCounted, Zenon
<1>3. /\ Verdict(p.mode, c, answer) \in KeyFailure /\ p.rot.tried < n
      /\ answer \in KeyFailure /\ Verdict(p.mode, c, answer) \in Retryable
      /\ None \notin KeyFailure /\ deployment \in Deployments
  <2>1. Verdict(p.mode, c, answer) \in KeyFailure /\ p.rot.tried < n
    BY DEF TryNextKey, CanRotate
  <2> QED BY <2>1, VerdictOfKeys DEF SharedOK
<1>4. req'[r] = q /\ Steps(r)
  <2>1. req' = [req EXCEPT ![r] = q]
    BY <1>1 DEF TryNextKey, Call
  <2> HIDE DEF q
  <2> QED BY <2>1, Becomes
<1>5. /\ rot \in Rotators /\ rot.index \in 0..(n - 1) /\ rot.tried = p.rot.tried + 1
      /\ ~rot.exhausted /\ rot.index # p.rot.index
      /\ Behind(rot, n) = Behind(p.rot, n) \cup {p.rot.index}
  <2>1. n \in Nat /\ p.rot.index \in 0..(n - 1) /\ MaxPool \in Nat /\ n <= MaxPool
    BY <1>1, ExecutorAssumption DEF Indexes
  <2> HIDE DEF n, p
  <2> QED BY <1>1, <1>3, <2>1, NextKey
<1> HIDE DEF p, c, n, seen, a, rot
<1>6. q \in Call
  <2>1. PICK m : m = [p EXCEPT !.seen = seen, !.pc = "send"]
    OBVIOUS
  <2>2. m \in Call
    <3>1. p \in Call /\ seen \in [Candidates -> [Indexes -> Answers \cup {None}]]
      BY <1>1
    <3> QED BY <3>1, <2>1 DEF Call, Pcs
  <2>3. q = [m EXCEPT !.rot = rot, !.attempts = a]
    BY <2>1
  <2> HIDE DEF q
  <2> QED BY <1>2, <1>5, <2>2, <2>3 DEF Call
<1>7. q.pc = "send" /\ q.rot = rot /\ q.cand = p.cand /\ q.seen = seen /\ q.blamed = p.blamed
        /\ q.visited = p.visited /\ q.pools = p.pools /\ q.mode = p.mode /\ q.calls = p.calls
        /\ q.attempts = a /\ q.todo = p.todo /\ q.plan = p.plan
        /\ q.downAtStart = p.downAtStart
  BY <1>1 DEF Call
<1> HIDE DEF q
<1>8. OrderOK(q)
  BY <1>1, <1>7, OrderKept
<1>9. CountOK(q)
  <2>1. AttemptsMax \in Nat
    BY Configured DEF SharedOK
  <2>2. MaxCalls > 0 => p.calls <= MaxCalls
    BY <1>1 DEF CountOK
  <2> QED BY <1>2, <1>7, <2>1, <2>2 DEF CountOK
<1>10. KeysOK(q)
  <2>1. PoolIn(q, q.cand) = PoolIn(p, c)
    BY <1>7 DEF PoolIn, c
  <2>2. \A k \in Indexes : IF k \in Behind(p.rot, n)
                           THEN p.seen[c][k] \in KeyFailure
                           ELSE p.seen[c][k] \in Untold
    BY <1>1 DEF KeysOK, c
  <2>3. \A k \in Indexes : IF k \in Behind(rot, n)
                           THEN seen[c][k] \in KeyFailure
                           ELSE seen[c][k] \in Untold
    BY <1>1, <1>3, <1>5, <2>2
  <2>4. rot.index < n /\ rot.tried <= n
    BY <1>1, <1>3, <1>5, ExecutorAssumption
  <2> QED BY <1>1, <1>5, <1>7, <2>1, <2>3, <2>4 DEF KeysOK, c
<1>11. SeenOK(q)
  <2>1. q.blamed[p.cand] \notin KeyFailure
    BY <1>1, <1>3, <1>7 DEF c
  <2>2. \A d \in Candidates \ {p.cand} : q.blamed[d] = p.blamed[d]
    BY <1>7
  <2>3. Verdict(p.mode, p.cand, answer) \in Retryable
    BY <1>3 DEF c
  <2>4. \A d \in Candidates : \A k \in Indexes :
          q.seen[d][k] = IF d = p.cand /\ k = p.rot.index THEN answer ELSE p.seen[d][k]
    BY <1>1, <1>7 DEF c
  <2>5. p.cand \in Candidates /\ p.cand \in p.visited /\ p.blamed[p.cand] = None
    BY <1>1 DEF c
  <2>6. /\ p \in Call /\ SeenOK(p) /\ p.pc = "wait" /\ p.rot.index \in Indexes
        /\ q.mode = p.mode /\ q.visited = p.visited /\ q.pools = p.pools
        /\ deployment \in Deployments
    BY <1>1, <1>3, <1>7
  <2> QED BY <1>6, <2>1, <2>2, <2>3, <2>4, <2>5, <2>6, SeenNoted
<1> QED BY <1>4, <1>6, <1>8, <1>9, <1>10, <1>11 DEF Good

\* A rotator that has tried every key has left all others behind.
LEMMA AllBehind ==
  ASSUME NEW n \in Nat, NEW rot \in Rotators, rot.index \in 0..(n - 1), rot.tried = n
  PROVE  \A k \in 0..(n - 1) : k = rot.index \/ k \in Behind(rot, n)
BY DEF Behind

LEMMA ChargeEndpointGood ==
  ASSUME SharedOK, RequestsOK, NEW r \in Requests, NEW answer \in Answers,
         ChargeEndpoint(r, answer)
  PROVE  Good(req'[r]) /\ Steps(r)
<1> DEFINE p == req[r]
<1> DEFINE c == p.cand
<1> DEFINE n == Size(r)
<1> DEFINE seen == [p.seen EXCEPT ![c][p.rot.index] = answer]
<1> DEFINE kind == Verdict(p.mode, c, answer)
<1> DEFINE blame == IF kind \in AffectsHealth THEN kind ELSE p.blamed[c]
<1> DEFINE blamed == [p.blamed EXCEPT ![c] = blame]
<1> DEFINE x == (p.rot.exhausted \/ kind \in KeyFailure)
<1> DEFINE rot == [p.rot EXCEPT !.exhausted = x]
<1> DEFINE pc == AfterFailure(kind)
<1> DEFINE q == [p EXCEPT !.seen = seen, !.pc = pc, !.result = kind, !.rot = rot, !.blamed = blamed]
<1>1. /\ p \in Call /\ CountOK(p) /\ OrderOK(p) /\ KeysOK(p) /\ SeenOK(p) /\ p.pc = "wait"
      /\ c \in Candidates /\ c \in p.visited /\ p.blamed[c] = None
      /\ PoolIn(p, c) # Gone /\ n = Len(PoolIn(p, c)) /\ n \in 1..MaxPool
      /\ p.rot \in Rotators /\ p.rot.index \in Indexes /\ p.rot.index < n
      /\ p.rot.tried \in 1..n /\ ~p.rot.exhausted
      /\ seen \in [Candidates -> [Indexes -> Answers \cup {None}]]
      /\ \A d \in Candidates : \A k \in Indexes :
           seen[d][k] = IF d = c /\ k = p.rot.index THEN answer ELSE p.seen[d][k]
      /\ Noted(r, answer) = [p EXCEPT !.seen = seen]
  <2>1. req[r].pc = "wait"
    BY DEF ChargeEndpoint
  <2> QED BY <2>1, Waiting, Zenon
<1>2. /\ kind \in ErrorKinds /\ deployment \in Deployments
      /\ kind \in KeyFailure => answer \in KeyFailure
      /\ None \notin KeyFailure /\ AffectsHealth \subseteq ErrorKinds
      /\ ~CanRotate(p.rot, n, kind)
  <2>1. kind # "ok" /\ ~CanRotate(p.rot, n, kind)
    BY DEF ChargeEndpoint
  <2> HIDE DEF p, c
  <2> QED BY <2>1, VerdictOfKeys DEF SharedOK
<1>3. kind \in KeyFailure => p.rot.tried = n
  <2> HIDE DEF p, kind, n
  <2> QED BY <1>1, <1>2, ExecutorAssumption DEF CanRotate
<1>4. req'[r] = q /\ Steps(r)
  <2>1. req' = [req EXCEPT ![r] =
           [Noted(r, answer) EXCEPT !.pc = pc, !.result = kind, !.rot.exhausted = @ \/ kind \in KeyFailure,
                                    !.blamed[c] = IF kind \in AffectsHealth THEN kind ELSE @]]
    BY Zenon DEF ChargeEndpoint
  <2> HIDE DEF kind, pc
  <2>2. [Noted(r, answer) EXCEPT !.pc = pc, !.result = kind, !.rot.exhausted = @ \/ kind \in KeyFailure,
                                 !.blamed[c] = IF kind \in AffectsHealth THEN kind ELSE @] = q
    BY <1>1 DEF Call
  <2> HIDE DEF q
  <2> QED BY <2>1, <2>2 DEF Steps, RequestsOK
<1>5. pc \in {"next", "done"} /\ (pc = "next" => kind \in Retryable)
  BY DEF AfterFailure
<1>6. rot \in Rotators
  <2> HIDE DEF p
  <2> QED BY <1>1 DEF Rotators
<1>7. blamed \in [Candidates -> ErrorKinds \cup {None}]
      /\ (\A d \in Candidates \ {c} : blamed[d] = p.blamed[d]) /\ blamed[c] = blame
      /\ (blame \in KeyFailure => kind \in KeyFailure)
  <2> HIDE DEF p, c, kind
  <2> QED BY <1>1, <1>2 DEF Call
<1> HIDE DEF p, c, n, seen, kind, blamed, blame, rot, pc, x
<1>8. q \in Call
  <2>1. PICK m : m = [p EXCEPT !.seen = seen, !.pc = pc]
    OBVIOUS
  <2>2. m \in Call
    <3>1. p \in Call /\ seen \in [Candidates -> [Indexes -> Answers \cup {None}]] /\ pc \in Pcs
      BY <1>1, <1>5 DEF Pcs
    <3> QED BY <3>1, <2>1 DEF Call
  <2>3. PICK k : k = [m EXCEPT !.result = kind, !.rot = rot]
    OBVIOUS
  <2>4. k \in Call
    BY <1>2, <1>6, <2>2, <2>3 DEF Call
  <2>5. q = [k EXCEPT !.blamed = blamed]
    BY <2>1, <2>3
  <2> HIDE DEF q
  <2> QED BY <1>7, <2>4, <2>5 DEF Call
<1>9. q.pc = pc /\ q.cand = p.cand /\ q.seen = seen /\ q.blamed = blamed
        /\ q.visited = p.visited /\ q.pools = p.pools /\ q.mode = p.mode /\ q.calls = p.calls
        /\ q.attempts = p.attempts /\ q.todo = p.todo /\ q.plan = p.plan
        /\ q.downAtStart = p.downAtStart
  BY <1>1 DEF Call
<1> HIDE DEF q
<1>10. OrderOK(q)
  BY <1>1, <1>9, OrderKept
<1>11. CountOK(q) /\ KeysOK(q)
  BY <1>1, <1>5, <1>9 DEF CountOK, KeysOK, Calling
<1>12. SeenOK(q)
  <2>1. ASSUME q.blamed[c] \in KeyFailure, NEW k \in 0..(Len(PoolIn(p, c)) - 1)
        PROVE  q.seen[c][k] \in KeyFailure
    <3>1. kind \in KeyFailure /\ answer \in KeyFailure /\ p.rot.tried = n
      BY <2>1, <1>2, <1>3, <1>7, <1>9
    <3>2. k \in 0..(n - 1) /\ k \in Indexes /\ n \in Nat /\ p.rot.index \in 0..(n - 1)
      BY <1>1, <2>1, ExecutorAssumption DEF Indexes
    <3>3. k = p.rot.index \/ k \in Behind(p.rot, n)
      BY <1>1, <3>1, <3>2, AllBehind
    <3>4. k \in Behind(p.rot, n) => p.seen[c][k] \in KeyFailure
      BY <1>1, <3>2 DEF KeysOK, c
    <3> QED BY <1>1, <1>9, <3>1, <3>2, <3>3, <3>4
  <2>2. \A d \in Candidates \ {p.cand} : q.blamed[d] = p.blamed[d]
    BY <1>7, <1>9 DEF c
  <2>3. q.pc \in Calling \cup {"next"} => Verdict(p.mode, p.cand, answer) \in Retryable
    BY <1>5, <1>9 DEF Calling, kind, c
  <2>4. \A d \in Candidates : \A k \in Indexes :
          q.seen[d][k] = IF d = p.cand /\ k = p.rot.index THEN answer ELSE p.seen[d][k]
    BY <1>1, <1>9 DEF c
  <2>5. p.cand \in Candidates /\ p.cand \in p.visited /\ p.blamed[p.cand] = None
    BY <1>1 DEF c
  <2>6. /\ p \in Call /\ SeenOK(p) /\ p.pc = "wait" /\ p.rot.index \in Indexes
        /\ q.mode = p.mode /\ q.visited = p.visited /\ q.pools = p.pools
        /\ deployment \in Deployments
    BY <1>1, <1>2, <1>9
  <2>7. q.blamed[p.cand] \in KeyFailure =>
          \A k \in 0..(Len(PoolIn(p, p.cand)) - 1) : q.seen[p.cand][k] \in KeyFailure
    BY <2>1 DEF c
  <2> QED BY <1>8, <2>2, <2>3, <2>4, <2>5, <2>6, <2>7, SeenNoted
<1> QED BY <1>4, <1>8, <1>10, <1>11, <1>12 DEF Good

-----------------------------------------------------------------------------
LEMMA UnbindBinding ==
  ASSUME SharedOK, BindingOK, RequestsOK, NEW r \in Requests, Unbind(r)
  PROVE  BindingOK'
<1> DEFINE b == BindingOf(r, req[r].cand)
<1>1. /\ sticky' = [sticky EXCEPT ![b] = None] /\ lastKey' = [lastKey EXCEPT ![b] = None]
      /\ pools' = pools /\ deployment' = deployment
  BY DEF Unbind
<1> HIDE DEF b
<1>2. /\ sticky' \in [Channels \X Identities -> Indexes \cup {None}]
      /\ lastKey' \in [Channels \X Identities -> Keys \cup {None}]
  BY <1>1 DEF BindingOK
<1>3. ASSUME NEW ch \in Channels, NEW id \in Identities, Strategy[ch] = "sticky",
             lastKey'[<<ch, id>>] # None
      PROVE  /\ sticky'[<<ch, id>>] # None /\ sticky'[<<ch, id>>] < Len(pools[ch])
             /\ pools[ch][sticky'[<<ch, id>>] + 1] = lastKey'[<<ch, id>>]
  <2>1. <<ch, id>> # b
    BY <1>1, <1>3 DEF BindingOK
  <2>2. sticky'[<<ch, id>>] = sticky[<<ch, id>>] /\ lastKey'[<<ch, id>>] = lastKey[<<ch, id>>]
    BY <1>1, <2>1 DEF BindingOK
  <2> QED BY <1>3, <2>2 DEF BindingOK
<1>4. Strategy' = Strategy
  BY <1>1 DEF Strategy
<1> QED BY <1>1, <1>2, <1>3, <1>4 DEF BindingOK

LEMMA AnswerOkBinding ==
  ASSUME SharedOK, BindingOK, RequestsOK, NEW r \in Requests, NEW answer \in Answers, AnswerOk(r, answer)
  PROVE  BindingOK'
<1> DEFINE p == req[r]
<1> DEFINE c == p.cand
<1> DEFINE ch == ChannelOf[c]
<1> DEFINE b == <<ch, Identity[r]>>
<1> DEFINE i == p.rot.index
<1> DEFINE key == IF p.pools[ch] = pools[ch] THEN PoolOf(r, c)[i + 1] ELSE None
<1>1. /\ p \in Call /\ c \in Candidates /\ PoolIn(p, c) # Gone
      /\ i \in Indexes /\ i < Len(PoolIn(p, c)) /\ Size(r) = Len(PoolIn(p, c))
  <2>1. req[r].pc = "wait"
    BY DEF AnswerOk
  <2>2. /\ p \in Call /\ c \in Candidates /\ PoolIn(p, c) # Gone
        /\ i \in Indexes /\ i < Size(r) /\ Size(r) = Len(PoolIn(p, c))
    BY <2>1, Waiting
  <2> HIDE DEF p, c, i
  <2> QED BY <2>2
<1>2. pools' = pools /\ deployment' = deployment /\ Strategy' = Strategy
  BY DEF AnswerOk, Strategy
<1>3. lastKey' = IF c \notin OwnKey /\ Identity[r] # None
                 THEN [lastKey EXCEPT ![b] = key] ELSE lastKey
  BY DEF AnswerOk, BindingOf
<1>4. sticky' = IF c \notin OwnKey /\ Strategy[ch] = "sticky" /\ Identity[r] # None
                THEN [sticky EXCEPT ![b] = i] ELSE sticky
  BY DEF AnswerOk, Commit, BindingOf
<1>5. CASE ~(c \notin OwnKey /\ Identity[r] # None)
  <2>1. lastKey' = lastKey /\ sticky' = sticky
    BY <1>3, <1>4, <1>5
  <2> QED BY <1>2, <2>1 DEF BindingOK
<1>6. CASE c \notin OwnKey /\ Identity[r] # None
  <2>1. ch \in Channels /\ Identity[r] \in Identities /\ b \in Channels \X Identities
    BY <1>1, <1>6, ExecutorAssumption, Configured DEF SharedOK
  <2>2. PoolIn(p, c) = p.pools[ch] /\ PoolOf(r, c) = p.pools[ch] /\ PoolIn(p, c) \in Pools
    BY <1>1, <1>6, PoolType DEF PoolIn, PoolOf
  <2>3. i + 1 \in 1..Len(p.pools[ch]) /\ p.pools[ch][i + 1] \in Keys
    <3>1. i + 1 \in 1..Len(PoolIn(p, c))
      BY <1>1, PoolType DEF Indexes
    <3>2. PICK n \in 1..MaxPool : PoolIn(p, c) \in [1..n -> Keys]
      BY <2>2 DEF Pools
    <3>3. Len(PoolIn(p, c)) = n
      BY <3>2, ExecutorAssumption
    <3> QED BY <2>2, <3>1, <3>2, <3>3
  <2>4. /\ key \in Keys \cup {None}
        /\ key # None => key = pools[ch][i + 1] /\ i < Len(pools[ch])
    BY <1>1, <2>2, <2>3
  <2>5. lastKey' = [lastKey EXCEPT ![b] = key]
    BY <1>3, <1>6
  <2>6. Strategy[ch] = "sticky" => sticky' = [sticky EXCEPT ![b] = i]
    BY <1>4, <1>6
  <2>7. Strategy[ch] # "sticky" => sticky' = sticky
    BY <1>4
  <2> HIDE DEF key, b, i, p, c, ch
  <2>8. /\ sticky' \in [Channels \X Identities -> Indexes \cup {None}]
        /\ lastKey' \in [Channels \X Identities -> Keys \cup {None}]
    BY <1>1, <2>4, <2>5, <2>6, <2>7 DEF BindingOK
  <2>9. ASSUME NEW y \in Channels, NEW id \in Identities, Strategy[y] = "sticky",
               lastKey'[<<y, id>>] # None
        PROVE  /\ sticky'[<<y, id>>] # None /\ sticky'[<<y, id>>] < Len(pools[y])
               /\ pools[y][sticky'[<<y, id>>] + 1] = lastKey'[<<y, id>>]
    <3>1. CASE <<y, id>> = b
      <4>1. y = ch /\ lastKey'[<<y, id>>] = key
        BY <3>1, <2>1, <2>5 DEF b, BindingOK
      <4>2. sticky'[<<y, id>>] = i /\ i # None
        BY <3>1, <4>1, <2>1, <2>6, <2>9, <1>1, ExecutorAssumption DEF BindingOK
      <4> QED BY <4>1, <4>2, <2>4, <2>9
    <3>2. CASE <<y, id>> # b
      <4>1. sticky'[<<y, id>>] = sticky[<<y, id>>] /\ lastKey'[<<y, id>>] = lastKey[<<y, id>>]
        BY <3>2, <2>5, <2>6, <2>7 DEF BindingOK
      <4> QED BY <4>1, <2>9 DEF BindingOK
    <3> QED BY <3>1, <3>2
  <2> QED BY <1>2, <2>8, <2>9 DEF BindingOK
<1> QED BY <1>5, <1>6

\* An edited pool has no history.
LEMMA EditBinding ==
  ASSUME SharedOK, BindingOK, NEW ch \in Channels, NEW pool,
         pools' = [pools EXCEPT ![ch] = pool], lastKey' = Forget(ch), UNCHANGED <<sticky, deployment>>
  PROVE  BindingOK'
<1>1. \A y \in Channels : \A id \in Identities :
        lastKey'[<<y, id>>] = IF y = ch THEN None ELSE lastKey[<<y, id>>]
  BY DEF Forget
<1>2. lastKey' \in [Channels \X Identities -> Keys \cup {None}]
  BY DEF Forget, BindingOK
<1>3. \A y \in Channels \ {ch} : pools'[y] = pools[y]
  BY DEF SharedOK
<1>4. Strategy' = Strategy
  BY DEF Strategy
<1> QED BY <1>1, <1>2, <1>3, <1>4 DEF BindingOK

\* Every step that is not a success, an Unbind or an edit.
LEMMA SameBinding ==
  ASSUME BindingOK, UNCHANGED <<sticky, lastKey, pools, deployment>>
  PROVE  BindingOK'
BY DEF BindingOK, Strategy

\* What is good for a request depends on what is configured, which never changes.
LEMMA SameGood ==
  ASSUME UNCHANGED deployment, NEW q
  PROVE  Call' = Call /\ (Good(q)' <=> Good(q))
<1>1. /\ Modes' = Modes /\ EmptyRetries' = EmptyRetries /\ CallsMax' = CallsMax
      /\ AttemptsMax' = AttemptsMax /\ Answers' = Answers /\ MaxCalls' = MaxCalls
      /\ Strict' = Strict
  BY DEF Modes, EmptyRetries, CallsMax, AttemptsMax, Answers, MaxCalls, Strict
<1>2. Call' = Call
  BY <1>1 DEF Call
<1>3. CountOK(q)' <=> CountOK(q)
  BY <1>1 DEF CountOK
<1>4. OrderOK(q)' <=> OrderOK(q)
  BY DEF OrderOK, Healthier, PoolIn
<1>5. KeysOK(q)' <=> KeysOK(q)
  BY DEF KeysOK, PoolIn
<1>6. \A mode, c, answer : Verdict(mode, c, answer)' = Verdict(mode, c, answer)
  BY <1>1 DEF Verdict
<1>7. SeenOK(q)' <=> SeenOK(q)
  BY <1>6 DEF SeenOK, PoolIn
<1> QED BY <1>2, <1>3, <1>4, <1>5, <1>7 DEF Good

LEMMA SameRequests ==
  ASSUME RequestsOK, UNCHANGED <<req, deployment>>
  PROVE  RequestsOK'
<1>1. Call' = Call /\ \A q : Good(q)' <=> Good(q)
  BY SameGood
<1> QED BY <1>1 DEF RequestsOK

LEMMA StepOfOne ==
  ASSUME RequestsOK, NEW r \in Requests, Good(req'[r]), Steps(r), UNCHANGED deployment
  PROVE  RequestsOK'
<1>1. Call' = Call /\ \A q : Good(q)' <=> Good(q)
  BY SameGood
<1>2. req' \in [Requests -> Call] /\ \A o \in Requests : Good(req'[o])
  <2>1. req'[r] \in Call
    BY DEF Good
  <2> QED BY <2>1 DEF RequestsOK, Steps
<1> QED BY <1>1, <1>2 DEF RequestsOK

-----------------------------------------------------------------------------
(***************************************************************************)
(* The invariant                                                           *)
(***************************************************************************)
LEMMA InitInv ==
  ASSUME Init
  PROVE  IInv
<1>1. deployment \in Deployments /\ req = [r \in Requests |-> Idle]
  BY DEF Init
<1>2. SharedOK
  <2>1. down \subseteq Candidates
    <3>1. \A plan \in Plans : \A i \in 1..Len(plan) : plan[i] \in Candidates
      BY <1>1, ExecutorAssumption, ElementOfSeq DEF Plans
    <3> QED BY <3>1 DEF Init
  <2>2. pools \in [Channels -> Pools \cup {Gone}] /\ MaxEdits \in Nat
    BY <1>1, Configured DEF Init
  <2> QED BY <1>1, <2>1, <2>2 DEF Init, SharedOK
<1>3. BindingOK
  BY DEF Init, BindingOK
<1>4. RequestsOK
  <2>1. Good(Idle)
    BY <1>2, IdleGood
  <2> QED BY <1>1, <2>1 DEF RequestsOK, Good
<1> QED BY <1>2, <1>3, <1>4 DEF IInv

\* The steps of a request that leave the bindings and the pools alone.
Plain(r) ==
  /\ Good(req'[r]) /\ Steps(r)
  /\ UNCHANGED <<deployment, pools, sticky, lastKey, edits>>
  /\ down' \subseteq Candidates
  /\ cursors' \in [Channels -> 0..(CursorModulus - 1) \cup {None}]

LEMMA PlainInv ==
  ASSUME IInv, NEW r \in Requests, Plain(r)
  PROVE  IInv'
<1>1. RequestsOK'
  BY StepOfOne DEF IInv, Plain
<1>2. BindingOK'
  BY SameBinding DEF IInv, Plain
<1>3. SharedOK'
  BY DEF IInv, Plain, SharedOK, MaxEdits
<1> QED BY <1>1, <1>2, <1>3 DEF IInv

LEMMA AnswerInv ==
  ASSUME IInv, NEW r \in Requests, Answer(r)
  PROVE  IInv'
<1> USE DEF IInv
<1>1. PICK answer \in Answers : \/ AnswerEmpty(r, answer) \/ AnswerOk(r, answer)
                                \/ TryNextKey(r, answer) \/ ChargeEndpoint(r, answer)
  BY DEF Answer
<1>2. CASE AnswerEmpty(r, answer)
  <2>1. Plain(r)
    BY <1>2, AnswerEmptyGood DEF AnswerEmpty, Plain, SharedOK
  <2> QED BY <2>1, PlainInv
<1>3. CASE TryNextKey(r, answer)
  <2>1. Plain(r)
    BY <1>3, TryNextKeyGood DEF TryNextKey, Plain, SharedOK
  <2> QED BY <2>1, PlainInv
<1>4. CASE ChargeEndpoint(r, answer)
  <2>1. req[r].cand \in Candidates
    BY <1>4, Waiting DEF ChargeEndpoint
  <2>2. Plain(r)
    BY <1>4, <2>1, ChargeEndpointGood DEF ChargeEndpoint, Plain, SharedOK
  <2> QED BY <2>2, PlainInv
<1>5. CASE AnswerOk(r, answer)
  <2>1. BindingOK'
    BY <1>5, AnswerOkBinding
  <2>2. Good(req'[r]) /\ Steps(r) /\ deployment' = deployment
    BY <1>5, AnswerOkGood DEF AnswerOk
  <2>3. RequestsOK'
    BY <2>2, StepOfOne
  <2>4. SharedOK'
    BY <1>5 DEF AnswerOk, SharedOK, MaxEdits
  <2> QED BY <2>1, <2>3, <2>4
<1> QED BY <1>1, <1>2, <1>3, <1>4, <1>5

LEMMA EditInv ==
  ASSUME IInv, NEW ch \in Channels, SavedPools \subseteq Pools,
         (\E pool \in SavedPools : SavePool(ch, pool)) \/ DeleteChannel(ch)
  PROVE  IInv'
<1> USE DEF IInv
<1>1. PICK pool \in Pools \cup {Gone} :
        /\ edits < MaxEdits /\ pools' = [pools EXCEPT ![ch] = pool]
        /\ lastKey' = Forget(ch) /\ edits' = edits + 1
        /\ UNCHANGED <<deployment, down, cursors, sticky, req>>
  BY DEF SavePool, DeleteChannel
<1>2. BindingOK'
  BY <1>1, EditBinding
<1>3. RequestsOK'
  BY <1>1, SameRequests
<1>4. SharedOK'
  <2>1. MaxEdits \in Nat /\ MaxEdits' = MaxEdits
    BY <1>1, Configured DEF SharedOK, MaxEdits
  <2> QED BY <1>1, <2>1 DEF SharedOK
<1> QED BY <1>2, <1>3, <1>4

LEMMA NextInv ==
  ASSUME IInv, [Next]_vars
  PROVE  IInv'
<1>1. SharedOK /\ BindingOK /\ RequestsOK
  BY DEF IInv
<1>2. ASSUME NEW r \in Requests, NEW mode \in Modes, NEW plan \in Plans,
             NEW unencodable \in SUBSET Candidates, Begin(r, mode, plan, unencodable)
      PROVE  IInv'
  <2>1. Plain(r)
    <3>1. Good(req'[r]) /\ Steps(r)
      BY <1>1, <1>2, BeginGood
    <3>2. /\ down' \subseteq Candidates /\ UNCHANGED <<deployment, pools, sticky, lastKey, edits>>
          /\ cursors' \in [Channels -> 0..(CursorModulus - 1) \cup {None}]
      BY <1>1, <1>2, Zenon DEF Begin, SharedOK
    <3> QED BY <3>1, <3>2 DEF Plain
  <2> QED BY <2>1, PlainInv
<1>3. ASSUME NEW r \in Requests, Enter(r) PROVE IInv'
  <2>1. Plain(r)
    <3>1. /\ Good(req'[r]) /\ Steps(r)
          /\ cursors' \in [Channels -> 0..(CursorModulus - 1) \cup {None}]
      BY <1>1, <1>3, EnterGood
    <3>2. down' \subseteq Candidates /\ UNCHANGED <<deployment, pools, sticky, lastKey, edits>>
      BY <1>1, <1>3 DEF Enter, SharedOK
    <3> QED BY <3>1, <3>2 DEF Plain
  <2> QED BY <2>1, PlainInv
<1>4. ASSUME NEW r \in Requests, Unbind(r) PROVE IInv'
  <2>1. BindingOK'
    BY <1>1, <1>4, UnbindBinding
  <2>2. /\ Good(req'[r]) /\ Steps(r) /\ UNCHANGED <<deployment, pools, down, edits>>
        /\ cursors' \in [Channels -> 0..(CursorModulus - 1) \cup {None}]
    BY <1>1, <1>4, UnbindGood DEF Unbind
  <2>3. RequestsOK'
    BY <1>1, <2>2, StepOfOne
  <2>4. SharedOK'
    BY <1>1, <2>2 DEF SharedOK, MaxEdits
  <2> QED BY <2>1, <2>3, <2>4 DEF IInv
<1>5. ASSUME NEW r \in Requests, GiveUp(r) PROVE IInv'
  <2>1. Plain(r)
    <3>1. Good(req'[r]) /\ Steps(r)
      BY <1>1, <1>5, GiveUpGood
    <3>2. /\ down' \subseteq Candidates /\ UNCHANGED <<deployment, pools, sticky, lastKey, edits>>
          /\ cursors' \in [Channels -> 0..(CursorModulus - 1) \cup {None}]
      BY <1>1, <1>5 DEF GiveUp, SharedOK
    <3> QED BY <3>1, <3>2 DEF Plain
  <2> QED BY <2>1, PlainInv
<1>6. ASSUME NEW r \in Requests, Send(r) PROVE IInv'
  <2>1. Plain(r)
    <3>1. Good(req'[r]) /\ Steps(r)
      BY <1>1, <1>6, SendGood
    <3>2. /\ down' \subseteq Candidates /\ UNCHANGED <<deployment, pools, sticky, lastKey, edits>>
          /\ cursors' \in [Channels -> 0..(CursorModulus - 1) \cup {None}]
      BY <1>1, <1>6 DEF Send, SharedOK
    <3> QED BY <3>1, <3>2 DEF Plain
  <2> QED BY <2>1, PlainInv
<1>7. ASSUME NEW r \in Requests, Return(r) PROVE IInv'
  <2>1. Plain(r)
    <3>1. Good(req'[r]) /\ Steps(r)
      BY <1>1, <1>7, ReturnGood
    <3>2. /\ down' \subseteq Candidates /\ UNCHANGED <<deployment, pools, sticky, lastKey, edits>>
          /\ cursors' \in [Channels -> 0..(CursorModulus - 1) \cup {None}]
      BY <1>1, <1>7 DEF Return, SharedOK
    <3> QED BY <3>1, <3>2 DEF Plain
  <2> QED BY <2>1, PlainInv
<1>8. ASSUME NEW c \in Candidates, Recover(c) PROVE IInv'
  <2>1. RequestsOK' /\ BindingOK'
    BY <1>1, <1>8, SameRequests, SameBinding DEF Recover
  <2>2. SharedOK'
    BY <1>1, <1>8 DEF Recover, SharedOK, MaxEdits
  <2> QED BY <2>1, <2>2 DEF IInv
<1>9. CASE UNCHANGED vars
  <2>1. RequestsOK' /\ BindingOK'
    BY <1>1, <1>9, SameRequests, SameBinding DEF vars
  <2>2. SharedOK'
    BY <1>1, <1>9 DEF vars, SharedOK, MaxEdits
  <2> QED BY <2>1, <2>2 DEF IInv
<1>10. SavedPools \subseteq Pools /\ Transcoded \subseteq Candidates
  BY <1>1, Configured, ExecutorAssumption DEF SharedOK
<1>11. CASE Next
  BY <1>2, <1>3, <1>4, <1>5, <1>6, <1>7, <1>8, <1>10, <1>11, AnswerInv, EditInv DEF Next
<1> QED BY <1>9, <1>11

LEMMA Invariant == Spec => []IInv
<1>1. Init => IInv
  BY InitInv
<1>2. IInv /\ [Next]_vars => IInv'
  BY NextInv
<1> QED BY <1>1, <1>2, PTL DEF Spec

-----------------------------------------------------------------------------
(***************************************************************************)
(* Theorems                                                                *)
(***************************************************************************)
\* Every variable has its type, and the key a rotator has in hand is one of
\* the pool its request was planned with: no step of the executor
\* (executor.rs) indexes a pool out of bounds, whatever an administrator
\* saves meanwhile.
THEOREM TypeCorrect == Spec => []TypeOK
<1>1. IInv => TypeOK
  <2> SUFFICES ASSUME IInv PROVE TypeOK
    OBVIOUS
  <2> USE DEF IInv
  <2>1. ASSUME NEW r \in Requests
        PROVE  LET q == req[r]
               IN  /\ q.pc \in {"idle", "next", "unbind", "send", "wait", "done"}
                   /\ q.calls \in 0..CallsMax /\ q.attempts \in 0..AttemptsMax
                   /\ q.empties \in 0..EmptyRetries
                   /\ q.result \in ErrorKinds \cup {"ok", None}
                   /\ q.pc \in {"send", "wait"} => /\ q.cand \in Candidates
                                                   /\ q.rot.index < Size(r) /\ q.rot.tried <= Size(r)
    <3> DEFINE q == req[r]
    <3>1. q \in Call /\ KeysOK(q) /\ Size(r) = Len(PoolIn(q, q.cand))
      BY DEF RequestsOK, Good, Size, PoolOf, PoolIn
    <3> HIDE DEF q
    <3>2. /\ q.pc \in {"idle", "next", "unbind", "send", "wait", "done"}
          /\ q.calls \in 0..CallsMax /\ q.attempts \in 0..AttemptsMax
          /\ q.empties \in 0..EmptyRetries
          /\ q.result \in ErrorKinds \cup {"ok", None}
      BY <3>1 DEF Call, Pcs
    <3>3. q.pc \in {"send", "wait"} => /\ q.cand \in Candidates
                                       /\ q.rot.index < Size(r) /\ q.rot.tried <= Size(r)
      BY <3>1 DEF Call, KeysOK, Calling
    <3> QED BY <3>2, <3>3 DEF q
  <2> QED BY <2>1 DEF TypeOK, SharedOK, BindingOK
<1> QED BY <1>1, Invariant, PTL

\* The budget of upstream calls binds over all candidates, keys and empty
\* retries of a request together, and the attempts its log row gets never
\* understate the calls it made (check_budget, and the attempts counter that
\* saturates).
THEOREM CallsCounted == Spec => []CallsAreCounted
<1>1. IInv => CallsAreCounted
  BY DEF IInv, RequestsOK, Good, CountOK, CallsAreCounted, BudgetRespected, AttemptsCoverCalls
<1> QED BY <1>1, Invariant, PTL

\* A call is made only when it may help: suspended endpoints come after every
\* healthy one of the plan, also under a cap (prioritize); a key that failed is
\* not called again on its endpoint (KeyRotator); and after a success, or a
\* failure no other channel could mend, no call is made (handle_failure).
THEOREM CallsWorthMaking == Spec => CallsAreWorthMaking
<1> DEFINE Sends(r) == req[r].pc = "send" /\ req'[r].pc = "wait"
<1>1. IInv => HealthyFirst
  BY DEF IInv, RequestsOK, Good, OrderOK, HealthyFirst
<1>2. ASSUME IInv, NEW r \in Requests, Sends(r)
      PROVE  req[r].seen[req[r].cand][req[r].rot.index] \in {None, "empty", "blank"}
  <2> DEFINE q == req[r]
  <2>1. q \in Call /\ KeysOK(q) /\ q.pc = "send"
    BY <1>2 DEF IInv, RequestsOK, Good
  <2> HIDE DEF q
  <2>2. q.rot.index \in Indexes /\ q.rot.index \notin Behind(q.rot, Len(PoolIn(q, q.cand)))
    BY <2>1 DEF Call, Rotators, Behind
  <2>3. q.seen[q.cand][q.rot.index] \in Untold
    BY <2>1, <2>2 DEF KeysOK
  <2> QED BY <2>3 DEF Untold, q
<1>3. ASSUME IInv, NEW r \in Requests, Sends(r), NEW c \in Candidates, NEW k \in Indexes
      PROVE  \/ req[r].seen[c][k] \in {None, "empty", "blank"}
             \/ Verdict(req[r].mode, c, req[r].seen[c][k]) \in Retryable
  BY <1>3 DEF IInv, RequestsOK, Good, SeenOK, Calling, Untold
<1>4. IInv /\ [Next]_vars =>
        [\A r \in Requests :
          (req[r].pc = "send" /\ req'[r].pc = "wait")
            => req[r].seen[req[r].cand][req[r].rot.index] \in {None, "empty", "blank"}]_vars
  BY <1>2
<1>5. IInv /\ [Next]_vars =>
        [\A r \in Requests :
          (req[r].pc = "send" /\ req'[r].pc = "wait")
            => \A c \in Candidates : \A k \in Indexes :
                 LET answer == req[r].seen[c][k]
                 IN  answer \in {None, "empty", "blank"}
                       \/ Verdict(req[r].mode, c, answer) \in Retryable]_vars
  BY <1>3
<1> QED BY <1>1, <1>4, <1>5, Invariant, PTL
    DEF Spec, CallsAreWorthMaking, NoSecondChance, FinalAnswerIsFinal

\* What a sticky request on the saved pool starts with.
LEMMA StickyStep ==
  ASSUME IInv, Next, NEW r \in Requests, req[r].pc = "next", req'[r].pc \in {"send", "unbind"},
         LET c == req'[r].cand
         IN  /\ Strategy[ChannelOf[c]] = "sticky" /\ c \notin OwnKey /\ Identity[r] # None
             /\ lastKey[<<ChannelOf[c], Identity[r]>>] # None
             /\ req'[r].pools[ChannelOf[c]] = pools[ChannelOf[c]]
  PROVE  LET c == req'[r].cand
         IN  /\ req'[r].pc = "send"
             /\ pools[ChannelOf[c]][req'[r].rot.index + 1] = lastKey[<<ChannelOf[c], Identity[r]>>]
<1>1. SharedOK /\ BindingOK /\ RequestsOK
  BY DEF IInv
<1> DEFINE p == req[r]
<1>2. p \in Call
  BY <1>1 DEF RequestsOK
<1>3. Enter(r)
  <2>1. ASSUME NEW o \in Requests \ {r}, req' = [req EXCEPT ![o] = req'[o]] PROVE FALSE
    BY <1>1, <2>1 DEF RequestsOK
  <2>2. ASSUME req' = req PROVE FALSE
    BY <2>2
  <2>3. ASSUME NEW o \in Requests, NEW mode \in Modes, NEW plan \in Plans,
               NEW unencodable \in SUBSET Candidates, Begin(o, mode, plan, unencodable)
        PROVE  FALSE
    <3>1. o # r
      BY <2>3 DEF Begin
    <3> QED BY <1>1, <2>1, <2>3, <3>1, BeginGood DEF Steps
  <2>4. ASSUME NEW o \in Requests, Enter(o) PROVE o = r
    BY <1>1, <2>1, <2>4, EnterGood DEF Steps
  <2>5. ASSUME NEW o \in Requests, Unbind(o) PROVE FALSE
    <3>1. o # r
      BY <2>5 DEF Unbind
    <3> QED BY <1>1, <2>1, <2>5, <3>1, UnbindGood DEF Steps
  <2>6. ASSUME NEW o \in Requests, GiveUp(o) PROVE FALSE
    <3>1. CASE o # r
      BY <1>1, <2>1, <2>6, <3>1, GiveUpGood DEF Steps
    <3>2. CASE o = r
      <4>1. req'[r] = [p EXCEPT !.pc = "done"]
        BY <1>1, <2>6, <3>2 DEF GiveUp, RequestsOK
      <4>2. req'[r].pc = "done"
        BY <4>1, <1>2 DEF Call
      <4> QED BY <4>2
    <3> QED BY <3>1, <3>2
  <2>7. ASSUME NEW o \in Requests, Send(o) PROVE FALSE
    <3>1. o # r
      BY <2>7 DEF Send
    <3> QED BY <1>1, <2>1, <2>7, <3>1, SendGood DEF Steps
  <2>8. ASSUME NEW o \in Requests, Answer(o) PROVE FALSE
    <3>1. PICK answer \in Answers : \/ AnswerEmpty(o, answer) \/ AnswerOk(o, answer)
                                    \/ TryNextKey(o, answer) \/ ChargeEndpoint(o, answer)
      BY <2>8 DEF Answer
    <3>2. o # r
      BY <3>1 DEF AnswerEmpty, AnswerOk, TryNextKey, ChargeEndpoint
    <3>3. Steps(o)
      BY <1>1, <3>1, AnswerEmptyGood, AnswerOkGood, TryNextKeyGood, ChargeEndpointGood
    <3> QED BY <2>1, <3>2, <3>3 DEF Steps
  <2>9. ASSUME NEW o \in Requests, Return(o) PROVE FALSE
    <3>1. o # r
      BY <2>9 DEF Return
    <3> QED BY <1>1, <2>1, <2>9, <3>1, ReturnGood DEF Steps
  <2>10. ASSUME NEW c \in Candidates, Recover(c) PROVE FALSE
    BY <2>2, <2>10 DEF Recover
  <2>11. ASSUME NEW ch \in Channels,
                (\E pool \in SavedPools : SavePool(ch, pool)) \/ DeleteChannel(ch)
         PROVE  FALSE
    BY <2>2, <2>11 DEF SavePool, DeleteChannel
  <2>12. Transcoded \subseteq Candidates
    BY ExecutorAssumption
  <2> QED BY <2>3, <2>4, <2>5, <2>6, <2>7, <2>8, <2>9, <2>10, <2>11, <2>12 DEF Next
<1> DEFINE c == Head(p.todo)
<1> DEFINE ch == ChannelOf[c]
<1> DEFINE b == <<ch, Identity[r]>>
<1> DEFINE skipped == [p EXCEPT !.todo = Tail(@), !.visited = @ \cup {c}]
<1> DEFINE counted == [skipped EXCEPT !.attempts = Count(@, AttemptsMax)]
<1>4. p.todo # <<>> /\ c \in Candidates
  <2>1. p.todo # <<>>
    BY <1>3 DEF Enter
  <2>2. p.todo \in Seq(Candidates)
    <3> HIDE DEF p
    <3> QED BY <1>2, Zenon DEF Call
  <2> HIDE DEF p
  <2> QED BY <2>1, <2>2, HeadTailProperties
<1>5. \/ req'[r].pc = "next"
      \/ req'[r] = [counted EXCEPT !.pc = "unbind", !.cand = c] /\ Outdated(r, c)
      \/ \E index \in Indexes :
           /\ ~Outdated(r, c) /\ FirstIndex(r, c, index)
           /\ req'[r] = [counted EXCEPT !.pc = "send", !.cand = c,
                                        !.rot = Rotator(index), !.empties = 0]
  <2>1. CASE Foreign(r, c)
    <3>1. req' = [req EXCEPT ![r] = skipped]
      BY <1>3, <2>1 DEF Enter
    <3>2. req'[r] = skipped
      BY <1>1, <3>1 DEF RequestsOK
    <3>3. req'[r].pc = p.pc
      BY <3>2, <1>2 DEF Call
    <3> QED BY <3>3
  <2>2. CASE ~Foreign(r, c) /\ c \in p.unencodable
    <3>1. req' = [req EXCEPT ![r] = [counted EXCEPT !.result = "InvalidRequest"]]
      BY <1>3, <2>2, Zenon DEF Enter
    <3>2. req'[r] = [counted EXCEPT !.result = "InvalidRequest"]
      BY <1>1, <3>1 DEF RequestsOK
    <3>3. req'[r].pc = p.pc
      BY <3>2, <1>2 DEF Call
    <3> QED BY <3>3
  <2>3. CASE ~Foreign(r, c) /\ c \notin p.unencodable /\ Outdated(r, c)
    <3>1. req' = [req EXCEPT ![r] = [counted EXCEPT !.pc = "unbind", !.cand = c]]
      BY <1>3, <2>3, Zenon DEF Enter
    <3> HIDE DEF counted
    <3> QED BY <1>1, <2>3, <3>1 DEF RequestsOK
  <2>4. CASE ~Foreign(r, c) /\ c \notin p.unencodable /\ ~Outdated(r, c)
    <3>1. \E index \in Indexes :
            /\ FirstIndex(r, c, index)
            /\ req' = [req EXCEPT ![r] = [counted EXCEPT !.pc = "send", !.cand = c,
                                                         !.rot = Rotator(index), !.empties = 0]]
      BY <1>3, <2>4, Zenon DEF Enter
    <3> HIDE DEF counted
    <3> QED BY <1>1, <2>4, <3>1, Zenon DEF RequestsOK
  <2> QED BY <2>1, <2>2, <2>3, <2>4, Zenon
<1>6. req'[r].cand = c /\ req'[r].pools = p.pools
  BY <1>2, <1>5 DEF Call
<1>7. /\ ch \in Channels /\ Identity[r] \in Identities /\ Strategy[ch] = "sticky" /\ c \notin OwnKey
      /\ lastKey[b] # None /\ p.pools[ch] = pools[ch]
  BY <1>1, <1>4, <1>6, Configured, ExecutorAssumption DEF SharedOK
<1>8. /\ sticky[b] # None /\ sticky[b] < Len(pools[ch]) /\ pools[ch][sticky[b] + 1] = lastKey[b]
      /\ sticky[b] \in Indexes
  BY <1>1, <1>7 DEF BindingOK
<1>9. Bound(r, c) = sticky[b] /\ PoolOf(r, c) = pools[ch]
  BY <1>7 DEF Bound, BindingOf, PoolOf
<1>10. ~Outdated(r, c)
  <2>1. Len(pools[ch]) \in Nat
    <3>1. pools[ch] \in Pools \cup {Gone}
      BY <1>1, <1>7 DEF SharedOK
    <3>2. CASE pools[ch] \in Pools
      <4>1. PICK n \in 1..MaxPool : pools[ch] \in [1..n -> Keys]
        BY <3>2 DEF Pools
      <4> HIDE DEF ch
      <4>2. Len(pools[ch]) = n
        BY <4>1, ExecutorAssumption
      <4> QED BY <4>1, <4>2, ExecutorAssumption
    <3>3. CASE pools[ch] = Gone
      BY <3>3 DEF Gone
    <3> QED BY <3>1, <3>2, <3>3
  <2>2. sticky[b] \in Nat
    BY <1>8 DEF Indexes
  <2>3. ~(sticky[b] >= Len(pools[ch]))
    <3>1. sticky[b] < Len(pools[ch])
      BY <1>8
    <3> HIDE DEF b, ch
    <3>2. PICK x, y : x = sticky[b] /\ y = Len(pools[ch])
      OBVIOUS
    <3>3. x \in Nat /\ y \in Nat /\ x < y
      BY <2>1, <2>2, <3>1, <3>2
    <3>4. ~(x >= y)
      BY <3>3
    <3> QED BY <3>2, <3>4
  <2> QED BY <1>9, <2>3 DEF Outdated
<1>11. PICK index \in Indexes :
         /\ FirstIndex(r, c, index)
         /\ req'[r] = [counted EXCEPT !.pc = "send", !.cand = c,
                                      !.rot = Rotator(index), !.empties = 0]
  BY <1>5, <1>10
<1>12. index = sticky[b]
  BY <1>7, <1>8, <1>9, <1>11 DEF FirstIndex
<1>13. req'[r].pc = "send" /\ req'[r].rot.index = index
  BY <1>2, <1>11 DEF Call, Rotator
<1> QED BY <1>6, <1>8, <1>12, <1>13

\* A pool is judged by its keys: an endpoint's health takes a key's failure only
\* when every key of the pool has failed in this request (on_failure: "one bad
\* key must not suspend the whole channel"), and a sticky identity starts with
\* the key of its last success, whatever requests of it, on this or on an older
\* pool, ended meanwhile (first_index, commit).
THEOREM PoolJudgedByItsKeys == Spec => PoolIsJudgedByItsKeys
<1>1. IInv => BlameNeedsWholePool
  <2> SUFFICES ASSUME IInv, NEW r \in Requests, NEW c \in Candidates,
                      req[r].blamed[c] \in KeyFailure, NEW k \in 0..(Len(PoolOf(r, c)) - 1)
               PROVE  req[r].seen[c][k] \in KeyFailure
    BY DEF BlameNeedsWholePool
  <2>1. PoolOf(r, c) = PoolIn(req[r], c)
    BY DEF PoolOf, PoolIn
  <2> QED BY <2>1 DEF IInv, RequestsOK, Good, SeenOK
<1> DEFINE Starts ==
      \A r \in Requests :
       (req[r].pc = "next" /\ req'[r].pc \in {"send", "unbind"}) =>
         LET c    == req'[r].cand
             ch   == ChannelOf[c]
             pool == req'[r].pools[ch]
             key  == IF Identity[r] = None THEN None ELSE lastKey[<<ch, Identity[r]>>]
         IN  (Strategy[ch] = "sticky" /\ c \notin OwnKey /\ key # None /\ pool = pools[ch])
               => req'[r].pc = "send" /\ pool[req'[r].rot.index + 1] = key
<1>2. ASSUME IInv, Next PROVE Starts
  <2> SUFFICES ASSUME NEW r \in Requests, req[r].pc = "next", req'[r].pc \in {"send", "unbind"},
                      Strategy[ChannelOf[req'[r].cand]] = "sticky", req'[r].cand \notin OwnKey,
                      Identity[r] # None,
                      lastKey[<<ChannelOf[req'[r].cand], Identity[r]>>] # None,
                      req'[r].pools[ChannelOf[req'[r].cand]] = pools[ChannelOf[req'[r].cand]]
               PROVE  /\ req'[r].pc = "send"
                      /\ req'[r].pools[ChannelOf[req'[r].cand]][req'[r].rot.index + 1]
                           = lastKey[<<ChannelOf[req'[r].cand], Identity[r]>>]
    OBVIOUS
  <2> QED BY <1>2, StickyStep
<1>3. IInv /\ [Next]_vars => [Starts]_vars
  BY <1>2
<1> QED BY <1>1, <1>3, Invariant, PTL DEF Spec, PoolIsJudgedByItsKeys, StickyFollowsSuccess
=============================================================================

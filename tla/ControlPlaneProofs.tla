--------------------------- MODULE ControlPlaneProofs ---------------------------
(***************************************************************************)
(* The process, the sessions and the settings, for any number of sessions, *)
(* handlers, channels, keys, starts and requests: what the run of the      *)
(* control plane checks on two or three of each.                           *)
(*                                                                         *)
(* Each part has an invariant of its own, kept by every step of the part;  *)
(* a step of the whole is a step of one part that leaves the others alone. *)
(***************************************************************************)
EXTENDS ControlPlane, FiniteSetTheorems, TLAPS

-----------------------------------------------------------------------------
(***************************************************************************)
(* The process: what the database keeps against what the credentials file  *)
(* has told, along a start and across crashes; the two threads; the        *)
(* certificate in use.                                                     *)
(***************************************************************************)

Disks   == [initialized : BOOLEAN, token : Int, admin : BOOLEAN, password : Nat,
            active : BOOLEAN, open : BOOLEAN]
Mains   == [pc : {"off", "create", "first", "token", "password", "verify", "file", "expose",
                  "serving", "flush", "closed"},
            reset : BOOLEAN, rotate : BOOLEAN, give : BOOLEAN, signalled : BOOLEAN]
Files   == [here : BOOLEAN, token : Nat, password : Nat, boot : Nat]
Pairs   == [cert : Nat, key : Nat]
Servers == [pc : {"off", "start", "baseline", "run", "drain", "bind", "ended"},
            reason : {"none", "shutdown", "reload"}, serves : Pairs, seen : Pairs,
            gap : BOOLEAN, requests : 0..MaxRequests, tasks : 0..MaxTasks, waited : 0..Drain]

ServerShape ==
  /\ setup \in Setups /\ cut \in BOOLEAN
  /\ disk \in Disks /\ main \in Mains /\ server \in Servers /\ certs \in Pairs
  /\ file \in Files
  /\ told \in [token : Int, password : Nat]
  /\ boots \in Nat /\ renewals \in Nat /\ arrived \in Nat

Telling == main.pc \in {"password", "verify", "file"}
Given   == main.pc \in {"verify", "file"} /\ main.give

\* The row of the administrator, along a start.
RowIsThere ==
  /\ main.pc # "off" => boots > 0
  /\ main.pc \notin {"off", "create"} => disk.admin
  /\ (~cut /\ disk.admin /\ main.pc # "first") => disk.active
  /\ (main.pc = "file" /\ main.give) => disk.active
  /\ main.pc \in {"password", "verify"} => main.give
  /\ main.pc \in {"verify", "file", "expose", "serving"} => disk.password # 0

\* What the database keeps against what the file has told.
KeptAndTold ==
  /\ (Telling /\ main.reset) => main.rotate /\ main.give
  /\ (Telling /\ main.rotate) => disk.token = boots
  /\ Given => disk.password = boots
  /\ (~cut /\ ~(Telling /\ main.rotate)) => disk.token = told.token
  /\ (~cut /\ ~Given) => disk.password = told.password
  /\ (main.pc \in {"expose", "serving"} /\ main.reset) =>
       disk.active /\ disk.token = told.token /\ disk.password = told.password
  /\ (main.pc \in {"expose", "serving"} /\ file.here) =>
       /\ file.boot = boots
       /\ file.token \in {0, disk.token} /\ file.password \in {0, disk.password}

\* The two threads.
ThreadsAgree ==
  /\ main.pc \notin {"off", "closed"} => disk.open
  /\ server.pc # "off" => main.pc \in {"serving", "flush", "closed"}
  /\ main.pc \in {"flush", "closed"} => server.pc = "ended"
  /\ server.pc \in {"ended", "off"} => server.requests = 0

\* The certificate in use and the files.
PairInUse ==
  /\ (setup.tls /\ server.pc \in {"baseline", "run", "drain"}) => Valid(server.serves)
  /\ (setup.tls /\ server.pc = "baseline") => (server.serves = certs \/ server.gap)
  /\ (setup.tls /\ server.pc = "run") => (server.serves = server.seen \/ server.gap)

ServerInv == ServerShape /\ RowIsThere /\ KeptAndTold /\ ThreadsAgree /\ PairInUse

\* The limits are natural numbers.
LEMMA Bounds == Drain \in Nat /\ MaxRequests \in Nat /\ MaxTasks \in Nat /\ Setups \subseteq Setup
BY ServerAssumption

\* A database, fresh or old, before the first start.
LEMMA ServerStarts == ServerInit => ServerInv
<1> SUFFICES ASSUME ServerInit PROVE ServerInv  OBVIOUS
<1> USE DEF ServerInit
<1>0. setup.legacy \in BOOLEAN /\ setup \in Setups  BY Bounds DEF Setup
<1>1. ServerShape
  <2>1. PICK t \in Int : t = IF setup.legacy THEN -1 ELSE 0  OBVIOUS
  <2>2. disk \in Disks /\ disk.token = t  BY <1>0, <2>1 DEF Disks
  <2>3. main \in Mains /\ certs \in Pairs  BY DEF Mains, Off, Pairs
  <2>4. server \in Servers  BY Bounds DEF Servers, Pairs, NoServer
  <2> QED  BY <1>0, <2>2, <2>3, <2>4 DEF ServerShape, Files, NoFile
<1>2. RowIsThere  BY <1>0 DEF RowIsThere, Off
<1>3. KeptAndTold  BY <1>0 DEF KeptAndTold, Telling, Given, Off
<1>4. ThreadsAgree  BY DEF ThreadsAgree, Off, NoServer
<1>5. PairInUse  BY DEF PairInUse, NoServer
<1> QED  BY <1>1, <1>2, <1>3, <1>4, <1>5 DEF ServerInv

\* Every step of a start, of the threads, of the outside and every crash keeps
\* it.
LEMMA ServerContinues == ServerInv /\ [ServerNext \/ ServerCrash]_serverVars => ServerInv'
<1> SUFFICES ASSUME ServerInv, [ServerNext \/ ServerCrash]_serverVars PROVE ServerInv'  OBVIOUS
<1>0. ServerShape /\ RowIsThere /\ KeptAndTold /\ ThreadsAgree /\ PairInUse  BY DEF ServerInv
<1> USE DEF MainAt, MainGoes, ServerAt, work
<1>1. ASSUME Boot PROVE ServerInv'
  <2>0. Boot  BY <1>1
  <2>1. ServerShape'
    <3>1. disk' \in Disks  BY <1>0, <2>0 DEF ServerShape, Disks, Boot, Off
    <3>2. main' \in Mains  BY <1>0, <2>0 DEF ServerShape, Mains, Boot, Off
    <3> QED  BY <1>0, <2>0, <3>1, <3>2 DEF ServerShape, Files, Boot, Off
  <2>2. RowIsThere'  BY <1>0, <2>0 DEF ServerShape, Disks, Mains, RowIsThere, KeptAndTold,
                                       Telling, Given, Boot, Off
  <2>3. KeptAndTold'  BY <1>0, <2>0 DEF ServerShape, Disks, Mains, RowIsThere, KeptAndTold,
                                        Telling, Given, Boot, Off
  <2>4. ThreadsAgree'  BY <1>0, <2>0 DEF ServerShape, Disks, Mains, ThreadsAgree, Boot, Off
  <2>5. PairInUse'  BY <1>0, <2>0 DEF PairInUse, Boot, Off
  <2> QED  BY <2>1, <2>2, <2>3, <2>4, <2>5 DEF ServerInv
<1>2. ASSUME CreateAdmin PROVE ServerInv'
  <2>0. CreateAdmin  BY <1>2
  <2>1. ServerShape'
    <3>1. disk' \in Disks  BY <1>0, <2>0 DEF ServerShape, Disks, CreateAdmin
    <3>2. main' \in Mains  BY <1>0, <2>0 DEF ServerShape, Mains, CreateAdmin
    <3> QED  BY <1>0, <2>0, <3>1, <3>2 DEF ServerShape, Files, CreateAdmin
  <2>2. RowIsThere'  BY <1>0, <2>0 DEF ServerShape, Disks, Mains, RowIsThere, KeptAndTold,
                                       Telling, Given, CreateAdmin
  <2>3. KeptAndTold'  BY <1>0, <2>0 DEF ServerShape, Disks, Mains, RowIsThere, KeptAndTold,
                                        Telling, Given, CreateAdmin
  <2>4. ThreadsAgree'  BY <1>0, <2>0 DEF ServerShape, Disks, Mains, ThreadsAgree, CreateAdmin
  <2>5. PairInUse'  BY <1>0, <2>0 DEF PairInUse, CreateAdmin
  <2> QED  BY <2>1, <2>2, <2>3, <2>4, <2>5 DEF ServerInv
<1>3. ASSUME VerifyFirst PROVE ServerInv'
  <2>0. VerifyFirst  BY <1>3
  <2>1. ServerShape'
    <3>1. disk' \in Disks  BY <1>0, <2>0 DEF ServerShape, Disks, VerifyFirst
    <3>2. main' \in Mains  BY <1>0, <2>0 DEF ServerShape, Mains, VerifyFirst
    <3> QED  BY <1>0, <2>0, <3>1, <3>2 DEF ServerShape, Files, VerifyFirst
  <2>2. RowIsThere'  BY <1>0, <2>0 DEF ServerShape, Disks, Mains, RowIsThere, KeptAndTold,
                                       Telling, Given, VerifyFirst
  <2>3. KeptAndTold'  BY <1>0, <2>0 DEF ServerShape, Disks, Mains, RowIsThere, KeptAndTold,
                                        Telling, Given, VerifyFirst
  <2>4. ThreadsAgree'  BY <1>0, <2>0 DEF ServerShape, Disks, Mains, ThreadsAgree, VerifyFirst
  <2>5. PairInUse'  BY <1>0, <2>0 DEF PairInUse, VerifyFirst
  <2> QED  BY <2>1, <2>2, <2>3, <2>4, <2>5 DEF ServerInv
<1>4. ASSUME KeepToken PROVE ServerInv'
  <2>0. KeepToken  BY <1>4
  <2>1. ServerShape'
    <3>1. disk' \in Disks
      <4>1. CASE disk' = disk  BY <1>0, <4>1 DEF ServerShape
      <4>2. CASE disk' = [disk EXCEPT !.initialized = TRUE, !.token = boots]
        <5>1. boots \in Int  BY <1>0 DEF ServerShape
        <5> QED  BY <1>0, <4>2, <5>1 DEF ServerShape, Disks
      <4> QED  BY <2>0, <4>1, <4>2 DEF KeepToken
    <3>2. main' \in Mains  BY <1>0, <2>0 DEF ServerShape, Mains, KeepToken
    <3> QED  BY <1>0, <2>0, <3>1, <3>2 DEF ServerShape, Files, KeepToken
  <2>2. RowIsThere'  BY <1>0, <2>0 DEF ServerShape, Disks, Mains, RowIsThere, KeptAndTold,
                                       Telling, Given, KeepToken
  <2>3. KeptAndTold'  BY <1>0, <2>0 DEF ServerShape, Disks, Mains, RowIsThere, KeptAndTold,
                                        Telling, Given, KeepToken
  <2>4. ThreadsAgree'  BY <1>0, <2>0 DEF ServerShape, Disks, Mains, ThreadsAgree, KeepToken
  <2>5. PairInUse'  BY <1>0, <2>0 DEF PairInUse, KeepToken
  <2> QED  BY <2>1, <2>2, <2>3, <2>4, <2>5 DEF ServerInv
<1>5. ASSUME KeepPassword PROVE ServerInv'
  <2>0. KeepPassword  BY <1>5
  <2>1. ServerShape'
    <3>1. disk' \in Disks  BY <1>0, <2>0 DEF ServerShape, Disks, KeepPassword
    <3>2. main' \in Mains  BY <1>0, <2>0 DEF ServerShape, Mains, KeepPassword
    <3> QED  BY <1>0, <2>0, <3>1, <3>2 DEF ServerShape, Files, KeepPassword
  <2>2. RowIsThere'  BY <1>0, <2>0 DEF ServerShape, Disks, Mains, RowIsThere, KeptAndTold,
                                       Telling, Given, KeepPassword
  <2>3. KeptAndTold'  BY <1>0, <2>0 DEF ServerShape, Disks, Mains, RowIsThere, KeptAndTold,
                                        Telling, Given, KeepPassword
  <2>4. ThreadsAgree'  BY <1>0, <2>0 DEF ServerShape, Disks, Mains, ThreadsAgree, KeepPassword
  <2>5. PairInUse'  BY <1>0, <2>0 DEF PairInUse, KeepPassword
  <2> QED  BY <2>1, <2>2, <2>3, <2>4, <2>5 DEF ServerInv
<1>6. ASSUME VerifyAdmin PROVE ServerInv'
  <2>0. VerifyAdmin  BY <1>6
  <2>1. ServerShape'
    <3>1. disk' \in Disks  BY <1>0, <2>0 DEF ServerShape, Disks, VerifyAdmin
    <3>2. main' \in Mains  BY <1>0, <2>0 DEF ServerShape, Mains, VerifyAdmin
    <3> QED  BY <1>0, <2>0, <3>1, <3>2 DEF ServerShape, Files, VerifyAdmin
  <2>2. RowIsThere'  BY <1>0, <2>0 DEF ServerShape, Disks, Mains, RowIsThere, KeptAndTold,
                                       Telling, Given, VerifyAdmin
  <2>3. KeptAndTold'  BY <1>0, <2>0 DEF ServerShape, Disks, Mains, RowIsThere, KeptAndTold,
                                        Telling, Given, VerifyAdmin
  <2>4. ThreadsAgree'  BY <1>0, <2>0 DEF ServerShape, Disks, Mains, ThreadsAgree, VerifyAdmin
  <2>5. PairInUse'  BY <1>0, <2>0 DEF PairInUse, VerifyAdmin
  <2> QED  BY <2>1, <2>2, <2>3, <2>4, <2>5 DEF ServerInv
<1>7. ASSUME TellCredentials PROVE ServerInv'
  <2>0. TellCredentials  BY <1>7
  <2>1. ServerShape'
    <3>1. disk' \in Disks  BY <1>0, <2>0 DEF ServerShape, Disks, TellCredentials, NoFile
    <3>2. main' \in Mains  BY <1>0, <2>0 DEF ServerShape, Mains, TellCredentials, NoFile
    <3>4. file' \in Files
      <4>1. PICK t \in Nat, p \in Nat :
               t = (IF main.rotate THEN boots ELSE 0) /\ p = (IF main.give THEN boots ELSE 0)
        BY <1>0 DEF ServerShape
      <4>2. \/ file' = [here |-> TRUE, token |-> t, password |-> p, boot |-> boots]
            \/ file' = NoFile
        BY <2>0, <4>1 DEF TellCredentials
      <4>3. t \in Nat /\ p \in Nat /\ boots \in Nat  BY <1>0, <4>1 DEF ServerShape
      <4>4. CASE file' = [here |-> TRUE, token |-> t, password |-> p, boot |-> boots]
        BY <4>3, <4>4 DEF Files
      <4>5. CASE file' = NoFile  BY <4>5 DEF NoFile, Files
      <4> QED  BY <4>2, <4>4, <4>5
    <3>5. told' \in [token : Int, password : Nat]
      <4>1. PICK t \in Int, p \in Nat :
               /\ t = (IF main.rotate THEN boots ELSE told.token)
               /\ p = (IF main.give THEN boots ELSE told.password)
        BY <1>0 DEF ServerShape
      <4> QED  BY <1>0, <2>0, <4>1 DEF ServerShape, TellCredentials
    <3> QED  BY <1>0, <2>0, <3>1, <3>2, <3>4, <3>5 DEF ServerShape, Files, TellCredentials, NoFile
  <2>2. RowIsThere'  BY <1>0, <2>0 DEF ServerShape, Disks, Mains, RowIsThere, KeptAndTold,
                                       Telling, Given, TellCredentials, NoFile
  <2>3. KeptAndTold'  BY <1>0, <2>0 DEF ServerShape, Disks, Mains, RowIsThere, KeptAndTold,
                                        Telling, Given, TellCredentials, NoFile
  <2>4. ThreadsAgree'  BY <1>0, <2>0 DEF ServerShape, Disks, Mains, ThreadsAgree,
                                         TellCredentials, NoFile
  <2>5. PairInUse'  BY <1>0, <2>0 DEF PairInUse, TellCredentials, NoFile
  <2> QED  BY <2>1, <2>2, <2>3, <2>4, <2>5 DEF ServerInv
<1>8. ASSUME Listen PROVE ServerInv'
  <2>0. Listen  BY <1>8
  <2>1. ServerShape'
    <3>1. disk' \in Disks  BY <1>0, <2>0 DEF ServerShape, Disks, Listen, Off, NoServer
    <3>2. main' \in Mains
      <4>1. CASE main' = Off  BY <4>1 DEF Mains, Off
      <4>2. CASE main' = [main EXCEPT !.pc = "serving"]  BY <1>0, <4>2 DEF ServerShape, Mains
      <4> QED  BY <2>0, <4>1, <4>2 DEF Listen
    <3>3. server' \in Servers
      <4>1. CASE server' = server  BY <1>0, <4>1 DEF ServerShape
      <4>2. CASE server' = [NoServer EXCEPT !.pc = "start"]
        <5>1. 0 \in 0..MaxRequests /\ 0 \in 0..MaxTasks /\ 0 \in 0..Drain  BY Bounds
        <5> QED  BY <4>2, <5>1 DEF Servers, Pairs, NoServer
      <4> QED  BY <2>0, <4>1, <4>2 DEF Listen
    <3> QED  BY <1>0, <2>0, <3>1, <3>2, <3>3 DEF ServerShape, Files, Listen, Off, NoServer
  <2>2. RowIsThere'  BY <1>0, <2>0 DEF ServerShape, Disks, Mains, RowIsThere, KeptAndTold,
                                       Telling, Given, Listen, Off, NoServer
  <2>3. KeptAndTold'  BY <1>0, <2>0 DEF ServerShape, Disks, Mains, RowIsThere, KeptAndTold,
                                        Telling, Given, Listen, Off, NoServer
  <2>4. ThreadsAgree'  BY <1>0, <2>0 DEF ServerShape, Disks, Mains, ThreadsAgree, Listen, Off,
                                         NoServer
  <2>5. PairInUse'  BY <1>0, <2>0 DEF PairInUse, Listen, Off, NoServer
  <2> QED  BY <2>1, <2>2, <2>3, <2>4, <2>5 DEF ServerInv
<1>9. ASSUME StartServer PROVE ServerInv'
  <2>0. StartServer  BY <1>9
  <2>1. ServerShape'
    <3>3. server' \in Servers  BY <1>0, <2>0, Bounds DEF ServerShape, Servers, Pairs, StartServer
    <3> QED  BY <1>0, <2>0, <3>3 DEF ServerShape, Pairs, StartServer
  <2>2. RowIsThere' /\ KeptAndTold'  BY <1>0, <2>0 DEF RowIsThere, KeptAndTold, Telling, Given,
                                                       StartServer
  <2>4. ThreadsAgree'  BY <1>0, <2>0 DEF ServerShape, Servers, ThreadsAgree, StartServer
  <2>5. PairInUse'  BY <1>0, <2>0 DEF ServerShape, Servers, Pairs, PairInUse, Valid, StartServer
  <2> QED  BY <2>1, <2>2, <2>4, <2>5 DEF ServerInv
<1>10. ASSUME TakeBaseline PROVE ServerInv'
  <2>0. TakeBaseline  BY <1>10
  <2>1. ServerShape'
    <3>3. server' \in Servers  BY <1>0, <2>0, Bounds DEF ServerShape, Servers, Pairs, TakeBaseline
    <3> QED  BY <1>0, <2>0, <3>3 DEF ServerShape, Pairs, TakeBaseline
  <2>2. RowIsThere' /\ KeptAndTold'  BY <1>0, <2>0 DEF RowIsThere, KeptAndTold, Telling, Given,
                                                       TakeBaseline
  <2>4. ThreadsAgree'  BY <1>0, <2>0 DEF ServerShape, Servers, ThreadsAgree, TakeBaseline
  <2>5. PairInUse'  BY <1>0, <2>0 DEF ServerShape, Servers, Pairs, PairInUse, Valid, TakeBaseline
  <2> QED  BY <2>1, <2>2, <2>4, <2>5 DEF ServerInv
<1>11. ASSUME NoticeSignal PROVE ServerInv'
  <2>0. NoticeSignal  BY <1>11
  <2>1. ServerShape'
    <3>3. server' \in Servers
      <4>1. server' = [server EXCEPT !.pc = "drain", !.reason = "shutdown", !.waited = 0]
        BY <2>0 DEF NoticeSignal, Stop
      <4>2. 0 \in 0..Drain  BY Bounds
      <4> QED  BY <1>0, <4>1, <4>2 DEF ServerShape, Servers
    <3> QED  BY <1>0, <2>0, <3>3 DEF ServerShape, Pairs, NoticeSignal, Stop
  <2>2. RowIsThere' /\ KeptAndTold'  BY <1>0, <2>0 DEF RowIsThere, KeptAndTold, Telling, Given,
                                                       NoticeSignal, Stop
  <2>4. ThreadsAgree'  BY <1>0, <2>0 DEF ServerShape, Servers, ThreadsAgree, NoticeSignal, Stop
  <2>5. PairInUse'  BY <1>0, <2>0 DEF ServerShape, Servers, Pairs, PairInUse, Valid,
                                      NoticeSignal, Stop
  <2> QED  BY <2>1, <2>2, <2>4, <2>5 DEF ServerInv
<1>12. ASSUME NoticeFiles PROVE ServerInv'
  <2>0. NoticeFiles  BY <1>12
  <2>1. ServerShape'
    <3>3. server' \in Servers
      <4>1. server' = [server EXCEPT !.pc = "drain", !.reason = "reload", !.waited = 0]
        BY <2>0 DEF NoticeFiles, Stop
      <4>2. 0 \in 0..Drain  BY Bounds
      <4> QED  BY <1>0, <4>1, <4>2 DEF ServerShape, Servers
    <3> QED  BY <1>0, <2>0, <3>3 DEF ServerShape, Pairs, NoticeFiles, Stop, Changed
  <2>2. RowIsThere' /\ KeptAndTold'  BY <1>0, <2>0 DEF RowIsThere, KeptAndTold, Telling, Given,
                                                       NoticeFiles, Stop, Changed
  <2>4. ThreadsAgree'  BY <1>0, <2>0 DEF ServerShape, Servers, ThreadsAgree, NoticeFiles, Stop,
                                         Changed
  <2>5. PairInUse'  BY <1>0, <2>0 DEF ServerShape, Servers, Pairs, PairInUse, Valid, NoticeFiles,
                                      Stop, Changed
  <2> QED  BY <2>1, <2>2, <2>4, <2>5 DEF ServerInv
<1>13. ASSUME DrainTick PROVE ServerInv'
  <2>0. DrainTick  BY <1>13
  <2>1. ServerShape'
    <3>3. server' \in Servers  BY <1>0, <2>0, Bounds DEF ServerShape, Servers, Pairs, DrainTick
    <3> QED  BY <1>0, <2>0, <3>3 DEF ServerShape, Pairs, DrainTick
  <2>2. RowIsThere' /\ KeptAndTold'  BY <1>0, <2>0 DEF RowIsThere, KeptAndTold, Telling, Given,
                                                       DrainTick
  <2>4. ThreadsAgree'  BY <1>0, <2>0 DEF ServerShape, Servers, ThreadsAgree, DrainTick
  <2>5. PairInUse'  BY <1>0, <2>0 DEF ServerShape, Servers, Pairs, PairInUse, Valid, DrainTick
  <2> QED  BY <2>1, <2>2, <2>4, <2>5 DEF ServerInv
<1>14. ASSUME Drained PROVE ServerInv'
  <2>0. Drained  BY <1>14
  <2>1. ServerShape'
    <3>3. server' \in Servers
      <4>1. PICK pc \in {"bind", "ended"} : pc = IF server.reason = "reload" THEN "bind" ELSE "ended"
        OBVIOUS
      <4>2. server' = [server EXCEPT !.requests = 0, !.pc = pc]  BY <2>0, <4>1 DEF Drained
      <4>3. 0 \in 0..MaxRequests  BY Bounds
      <4> QED  BY <1>0, <4>2, <4>3 DEF ServerShape, Servers
    <3> QED  BY <1>0, <2>0, <3>3 DEF ServerShape, Pairs, Drained
  <2>2. RowIsThere' /\ KeptAndTold'  BY <1>0, <2>0 DEF RowIsThere, KeptAndTold, Telling, Given,
                                                       Drained
  <2>4. ThreadsAgree'  BY <1>0, <2>0 DEF ServerShape, Servers, ThreadsAgree, Drained
  <2>5. PairInUse'  BY <1>0, <2>0 DEF ServerShape, Servers, Pairs, PairInUse, Valid, Drained
  <2> QED  BY <2>1, <2>2, <2>4, <2>5 DEF ServerInv
<1>15. ASSUME Rebind PROVE ServerInv'
  <2>0. Rebind  BY <1>15
  <2>1. ServerShape'
    <3>3. server' \in Servers  BY <1>0, <2>0, Bounds DEF ServerShape, Servers, Pairs, Rebind
    <3> QED  BY <1>0, <2>0, <3>3 DEF ServerShape, Pairs, Rebind
  <2>2. RowIsThere' /\ KeptAndTold'  BY <1>0, <2>0 DEF RowIsThere, KeptAndTold, Telling, Given,
                                                       Rebind
  <2>4. ThreadsAgree'  BY <1>0, <2>0 DEF ServerShape, Servers, ThreadsAgree, Rebind
  <2>5. PairInUse'  BY <1>0, <2>0 DEF ServerShape, Servers, Pairs, PairInUse, Valid, Rebind
  <2> QED  BY <2>1, <2>2, <2>4, <2>5 DEF ServerInv
<1>16. ASSUME RequestArrives PROVE ServerInv'
  <2>0. RequestArrives  BY <1>16
  <2>1. ServerShape'
    <3>3. server' \in Servers  BY <1>0, <2>0, Bounds DEF ServerShape, Servers, Pairs, RequestArrives
    <3> QED  BY <1>0, <2>0, <3>3 DEF ServerShape, Pairs, RequestArrives
  <2>2. RowIsThere' /\ KeptAndTold'  BY <1>0, <2>0 DEF RowIsThere, KeptAndTold, Telling, Given,
                                                       RequestArrives
  <2>4. ThreadsAgree'  BY <1>0, <2>0 DEF ServerShape, Servers, ThreadsAgree, RequestArrives
  <2>5. PairInUse'  BY <1>0, <2>0 DEF ServerShape, Servers, Pairs, PairInUse, Valid, RequestArrives
  <2> QED  BY <2>1, <2>2, <2>4, <2>5 DEF ServerInv
<1>17. ASSUME RequestEnds PROVE ServerInv'
  <2>0. RequestEnds  BY <1>17
  <2>1. ServerShape'
    <3>3. server' \in Servers
      <4>1. PICK left \in {0, 1} :
               /\ server.tasks + left <= MaxTasks /\ server.requests > 0
               /\ server' = [server EXCEPT !.requests = @ - 1, !.tasks = @ + left]
        BY <2>0 DEF RequestEnds
      <4>2. PICK r \in 0..MaxRequests, t \in 0..MaxTasks :
               r = server.requests - 1 /\ t = server.tasks + left
        BY <1>0, <4>1, Bounds DEF ServerShape, Servers
      <4>3. server' = [server EXCEPT !.requests = r, !.tasks = t]  BY <4>1, <4>2
      <4> QED  BY <1>0, <4>3 DEF ServerShape, Servers
    <3> QED  BY <1>0, <2>0, <3>3 DEF ServerShape, Pairs, RequestEnds
  <2>2. RowIsThere' /\ KeptAndTold'  BY <1>0, <2>0 DEF RowIsThere, KeptAndTold, Telling, Given,
                                                       RequestEnds
  <2>4. ThreadsAgree'  BY <1>0, <2>0 DEF ServerShape, Servers, ThreadsAgree, RequestEnds
  <2>5. PairInUse'  BY <1>0, <2>0 DEF ServerShape, Servers, Pairs, PairInUse, Valid, RequestEnds
  <2> QED  BY <2>1, <2>2, <2>4, <2>5 DEF ServerInv
<1>18. ASSUME TaskEnds PROVE ServerInv'
  <2>0. TaskEnds  BY <1>18
  <2>1. ServerShape'
    <3>3. server' \in Servers  BY <1>0, <2>0, Bounds DEF ServerShape, Servers, Pairs, TaskEnds
    <3> QED  BY <1>0, <2>0, <3>3 DEF ServerShape, Pairs, TaskEnds
  <2>2. RowIsThere' /\ KeptAndTold'  BY <1>0, <2>0 DEF RowIsThere, KeptAndTold, Telling, Given,
                                                       TaskEnds
  <2>4. ThreadsAgree'  BY <1>0, <2>0 DEF ServerShape, Servers, ThreadsAgree, TaskEnds
  <2>5. PairInUse'  BY <1>0, <2>0 DEF ServerShape, Servers, Pairs, PairInUse, Valid, TaskEnds
  <2> QED  BY <2>1, <2>2, <2>4, <2>5 DEF ServerInv
<1>19. ASSUME Signal PROVE ServerInv'
  <2>0. Signal  BY <1>19
  <2>1. ServerShape'
    <3>1. disk' \in Disks  BY <1>0, <2>0 DEF ServerShape, Disks, Signal, Serving
    <3>2. main' \in Mains  BY <1>0, <2>0 DEF ServerShape, Mains, Signal, Serving
    <3> QED  BY <1>0, <2>0, <3>1, <3>2 DEF ServerShape, Files, Signal, Serving
  <2>2. RowIsThere'  BY <1>0, <2>0 DEF ServerShape, Disks, Mains, RowIsThere, KeptAndTold,
                                       Telling, Given, Signal, Serving
  <2>3. KeptAndTold'  BY <1>0, <2>0 DEF ServerShape, Disks, Mains, RowIsThere, KeptAndTold,
                                        Telling, Given, Signal, Serving
  <2>4. ThreadsAgree'  BY <1>0, <2>0 DEF ServerShape, Disks, Mains, ThreadsAgree, Signal, Serving
  <2>5. PairInUse'  BY <1>0, <2>0 DEF PairInUse, Signal, Serving
  <2> QED  BY <2>1, <2>2, <2>3, <2>4, <2>5 DEF ServerInv
<1>20. ASSUME RemoveFile PROVE ServerInv'
  <2>0. RemoveFile  BY <1>20
  <2>1. ServerShape'
    <3>1. disk' \in Disks  BY <1>0, <2>0 DEF ServerShape, Disks, RemoveFile, Serving, NoFile
    <3>2. main' \in Mains  BY <1>0, <2>0 DEF ServerShape, Mains, RemoveFile, Serving, NoFile
    <3> QED  BY <1>0, <2>0, <3>1, <3>2 DEF ServerShape, Files, RemoveFile, Serving, NoFile
  <2>2. RowIsThere'  BY <1>0, <2>0 DEF ServerShape, Disks, Mains, RowIsThere, KeptAndTold,
                                       Telling, Given, RemoveFile, Serving, NoFile
  <2>3. KeptAndTold'  BY <1>0, <2>0 DEF ServerShape, Disks, Mains, RowIsThere, KeptAndTold,
                                        Telling, Given, RemoveFile, Serving, NoFile
  <2>4. ThreadsAgree'  BY <1>0, <2>0 DEF ServerShape, Disks, Mains, ThreadsAgree, RemoveFile,
                                         Serving, NoFile
  <2>5. PairInUse'  BY <1>0, <2>0 DEF PairInUse, RemoveFile, Serving, NoFile
  <2> QED  BY <2>1, <2>2, <2>3, <2>4, <2>5 DEF ServerInv
<1>21. ASSUME Renew PROVE ServerInv'
  <2>0. Renew  BY <1>21
  <2>1. ServerShape'
    <3>3. server' \in Servers  BY <1>0, <2>0, Bounds DEF ServerShape, Servers, Pairs, Renew
    <3> QED  BY <1>0, <2>0, <3>3 DEF ServerShape, Pairs, Renew
  <2>2. RowIsThere' /\ KeptAndTold'  BY <1>0, <2>0 DEF RowIsThere, KeptAndTold, Telling, Given,
                                                       Renew
  <2>4. ThreadsAgree'  BY <1>0, <2>0 DEF ServerShape, Servers, ThreadsAgree, Renew
  <2>5. PairInUse'  BY <1>0, <2>0 DEF ServerShape, Servers, Pairs, PairInUse, Valid, Renew
  <2> QED  BY <2>1, <2>2, <2>4, <2>5 DEF ServerInv
<1>22. ASSUME Join PROVE ServerInv'
  <2>0. Join  BY <1>22
  <2>1. ServerShape'
    <3>1. disk' \in Disks  BY <1>0, <2>0 DEF ServerShape, Disks, Join, Serving
    <3>2. main' \in Mains  BY <1>0, <2>0 DEF ServerShape, Mains, Join, Serving
    <3> QED  BY <1>0, <2>0, <3>1, <3>2 DEF ServerShape, Files, Join, Serving
  <2>2. RowIsThere'  BY <1>0, <2>0 DEF ServerShape, Disks, Mains, RowIsThere, KeptAndTold,
                                       Telling, Given, Join, Serving
  <2>3. KeptAndTold'  BY <1>0, <2>0 DEF ServerShape, Disks, Mains, RowIsThere, KeptAndTold,
                                        Telling, Given, Join, Serving
  <2>4. ThreadsAgree'  BY <1>0, <2>0 DEF ServerShape, Disks, Mains, ThreadsAgree, Join, Serving
  <2>5. PairInUse'  BY <1>0, <2>0 DEF PairInUse, Join, Serving
  <2> QED  BY <2>1, <2>2, <2>3, <2>4, <2>5 DEF ServerInv
<1>23. ASSUME CloseDatabase PROVE ServerInv'
  <2>0. CloseDatabase  BY <1>23
  <2>1. ServerShape'
    <3>1. disk' \in Disks  BY <1>0, <2>0 DEF ServerShape, Disks, CloseDatabase
    <3>2. main' \in Mains  BY <1>0, <2>0 DEF ServerShape, Mains, CloseDatabase
    <3> QED  BY <1>0, <2>0, <3>1, <3>2 DEF ServerShape, Files, CloseDatabase
  <2>2. RowIsThere'  BY <1>0, <2>0 DEF ServerShape, Disks, Mains, RowIsThere, KeptAndTold,
                                       Telling, Given, CloseDatabase
  <2>3. KeptAndTold'  BY <1>0, <2>0 DEF ServerShape, Disks, Mains, RowIsThere, KeptAndTold,
                                        Telling, Given, CloseDatabase
  <2>4. ThreadsAgree'  BY <1>0, <2>0 DEF ServerShape, Disks, Mains, ThreadsAgree, CloseDatabase
  <2>5. PairInUse'  BY <1>0, <2>0 DEF PairInUse, CloseDatabase
  <2> QED  BY <2>1, <2>2, <2>3, <2>4, <2>5 DEF ServerInv
<1>24. ASSUME Exit PROVE ServerInv'
  <2>0. Exit  BY <1>24
  <2>1. ServerShape'
    <3>1. disk' \in Disks  BY <1>0, <2>0 DEF ServerShape, Disks, Exit, Off, NoServer
    <3>2. main' \in Mains  BY <1>0, <2>0 DEF ServerShape, Mains, Exit, Off, NoServer
    <3>3. server' \in Servers  BY Bounds, <2>0 DEF Servers, Pairs, Exit, Off, NoServer
    <3> QED  BY <1>0, <2>0, <3>1, <3>2, <3>3 DEF ServerShape, Files, Exit, Off, NoServer
  <2>2. RowIsThere'  BY <1>0, <2>0 DEF ServerShape, Disks, Mains, RowIsThere, KeptAndTold,
                                       Telling, Given, Exit, Off, NoServer
  <2>3. KeptAndTold'  BY <1>0, <2>0 DEF ServerShape, Disks, Mains, RowIsThere, KeptAndTold,
                                        Telling, Given, Exit, Off, NoServer
  <2>4. ThreadsAgree'  BY <1>0, <2>0 DEF ServerShape, Disks, Mains, ThreadsAgree, Exit, Off,
                                         NoServer
  <2>5. PairInUse'  BY <1>0, <2>0 DEF PairInUse, Exit, Off, NoServer
  <2> QED  BY <2>1, <2>2, <2>3, <2>4, <2>5 DEF ServerInv
<1>25. ASSUME ServerCrash PROVE ServerInv'
  <2>0. ServerCrash  BY <1>25
  <2>1. ServerShape'
    <3>1. disk' \in Disks  BY <1>0, <2>0 DEF ServerShape, Disks, ServerCrash, Halfway, Off, NoServer
    <3>2. main' \in Mains  BY <1>0, <2>0 DEF ServerShape, Mains, ServerCrash, Halfway, Off, NoServer
    <3>3. server' \in Servers  BY Bounds, <2>0 DEF Servers, Pairs, ServerCrash, Halfway, Off,
                                                   NoServer
    <3> QED  BY <1>0, <2>0, <3>1, <3>2, <3>3 DEF ServerShape, Files, ServerCrash, Halfway, Off,
                                                 NoServer
  <2>2. RowIsThere'  BY <1>0, <2>0 DEF ServerShape, Disks, Mains, RowIsThere, KeptAndTold,
                                       Telling, Given, ServerCrash, Halfway, Off, NoServer
  <2>3. KeptAndTold'  BY <1>0, <2>0 DEF ServerShape, Disks, Mains, RowIsThere, KeptAndTold,
                                        Telling, Given, ServerCrash, Halfway, Off, NoServer
  <2>4. ThreadsAgree'  BY <1>0, <2>0 DEF ServerShape, Disks, Mains, ThreadsAgree, ServerCrash,
                                         Halfway, Off, NoServer
  <2>5. PairInUse'  BY <1>0, <2>0 DEF PairInUse, ServerCrash, Halfway, Off, NoServer
  <2> QED  BY <2>1, <2>2, <2>3, <2>4, <2>5 DEF ServerInv
<1>26. CASE UNCHANGED serverVars
  BY <1>26, <1>0 DEF ServerInv, ServerShape, RowIsThere, KeptAndTold, Telling, Given,
                     ThreadsAgree, PairInUse, Valid, serverVars
<1> QED  BY <1>1, <1>2, <1>3, <1>4, <1>5, <1>6, <1>7, <1>8, <1>9, <1>10, <1>11, <1>12, <1>13,
            <1>14, <1>15, <1>16, <1>17, <1>18, <1>19, <1>20, <1>21, <1>22, <1>23, <1>24, <1>25, <1>26 DEF ServerNext, Starting, Thread, Ending, Outside

\* What the invariant of the process says of the properties.
LEMMA ServerInvShows ==
  ServerInv => /\ ServerTypeOK /\ CredentialsReachTheirOwner
               /\ DatabaseOutlivesTheServer /\ PairsMatch /\ ChangesAreNoticed
<1> SUFFICES ASSUME ServerInv
             PROVE  /\ ServerTypeOK /\ CredentialsReachTheirOwner
                    /\ DatabaseOutlivesTheServer /\ PairsMatch /\ ChangesAreNoticed
  OBVIOUS
<1>0. ServerShape /\ RowIsThere /\ KeptAndTold /\ ThreadsAgree /\ PairInUse  BY DEF ServerInv
<1>1. ServerTypeOK
  <2>1. DOMAIN disk = {"initialized", "token", "admin", "password", "active", "open"}
    BY <1>0 DEF ServerShape, Disks
  <2>2. DOMAIN file = DOMAIN NoFile  BY <1>0 DEF ServerShape, Files, NoFile
  <2>3. DOMAIN main = DOMAIN Off  BY <1>0 DEF ServerShape, Mains, Off
  <2>4. DOMAIN server = DOMAIN NoServer  BY <1>0 DEF ServerShape, Servers, NoServer
  <2> QED  BY <1>0, <2>1, <2>2, <2>3, <2>4 DEF ServerTypeOK, ServerShape, Servers
<1>2. CredentialsAreTold
  BY <1>0 DEF CredentialsAreTold, Serving, RowIsThere, KeptAndTold, Telling, Given
<1>3. ResetHeals /\ FileIsShortLived
  BY <1>0 DEF ResetHeals, FileIsShortLived, Serving, KeptAndTold
<1>4. DatabaseOutlivesTheServer
  BY <1>0, Bounds DEF DatabaseOutlivesTheServer, ThreadsAgree, ServerShape, Servers, Mains
<1>5. PairsMatch /\ ChangesAreNoticed
  BY <1>0 DEF PairsMatch, ChangesAreNoticed, PairInUse, ServerAt, Changed
<1> QED  BY <1>1, <1>2, <1>3, <1>4, <1>5 DEF CredentialsReachTheirOwner

-----------------------------------------------------------------------------
(***************************************************************************)
(* The sessions: along its way a frame is read, sent, in the hand of the   *)
(* bridge or waiting for it, and each of these is ordered before the next. *)
(***************************************************************************)

Frames(q) == {x \in Nat \ {0} : \E i \in 1..Len(q) : q[i] = x}
Rising(q) == \A i, j \in 1..Len(q) : (i < j /\ q[i] > 0 /\ q[j] > 0) => q[i] < q[j]
Below(A, B) == \A x \in A, y \in B : x < y

\* read, on its way, in the bridge's hand, waiting for it
Flows(read, sent, hand, waiting, n) ==
  /\ Rising(read) /\ Rising(sent) /\ Rising(waiting)
  /\ Below(Frames(read), Frames(sent)) /\ Below(Frames(read), hand)
  /\ Below(Frames(read), Frames(waiting)) /\ Below(Frames(sent), hand)
  /\ Below(Frames(sent), Frames(waiting)) /\ Below(hand, Frames(waiting))
  /\ Frames(read) \cup Frames(sent) \cup hand \cup Frames(waiting) = 1..n

\* A frame sent joins the queue behind those it holds.
LEMMA AppendFrames ==
  ASSUME NEW q \in Seq(Int), NEW x \in Int
  PROVE  /\ x > 0 => Frames(Append(q, x)) = Frames(q) \cup {x}
         /\ x <= 0 => Frames(Append(q, x)) = Frames(q)
         /\ (Rising(q) /\ (x > 0 => Below(Frames(q), {x}))) => Rising(Append(q, x))
<1> PICK p : p = Append(q, x)  OBVIOUS
<1>1. Len(p) = Len(q) + 1 /\ p[Len(q) + 1] = x /\ Len(q) \in Nat  OBVIOUS
<1>2. \A i \in 1..Len(q) : p[i] = q[i] /\ q[i] \in Int  OBVIOUS
<1>3. x > 0 => Frames(p) = Frames(q) \cup {x}  BY <1>1, <1>2 DEF Frames
<1>4. x <= 0 => Frames(p) = Frames(q)  BY <1>1, <1>2 DEF Frames
<1>5. (Rising(q) /\ (x > 0 => Below(Frames(q), {x}))) => Rising(p)
  <2> SUFFICES ASSUME Rising(q), x > 0 => Below(Frames(q), {x}),
                      NEW i \in 1..Len(p), NEW j \in 1..Len(p), i < j, p[i] > 0, p[j] > 0
               PROVE  p[i] < p[j]
    BY DEF Rising
  <2>1. i \in 1..Len(q)  BY <1>1
  <2>2. CASE j \in 1..Len(q)  BY <1>2, <2>1, <2>2 DEF Rising
  <2>3. CASE j = Len(q) + 1
    <3>1. p[i] \in Frames(q) /\ p[j] = x  BY <1>1, <1>2, <2>1, <2>3 DEF Frames
    <3> QED  BY <3>1 DEF Below
  <2>4. j \in 1..Len(q) \/ j = Len(q) + 1  BY <1>1
  <2> QED  BY <2>2, <2>3, <2>4
<1> QED  BY <1>3, <1>4, <1>5

\* A frame taken is the first of its queue.
LEMMA TailFrames ==
  ASSUME NEW q \in Seq(Int), q # <<>>
  PROVE  /\ Head(q) \in Int /\ Tail(q) \in Seq(Int)
         /\ Head(q) > 0 => Frames(q) = {Head(q)} \cup Frames(Tail(q))
         /\ Head(q) <= 0 => Frames(q) = Frames(Tail(q))
         /\ Rising(q) => Rising(Tail(q)) /\ (Head(q) > 0 => Below({Head(q)}, Frames(Tail(q))))
<1> PICK p : p = Tail(q)  OBVIOUS
<1>1. Len(q) \in Nat \ {0} /\ Head(q) = q[1] /\ q[1] \in Int /\ p \in Seq(Int)
      /\ Len(p) = Len(q) - 1
  OBVIOUS
<1>2. \A i \in 1..Len(p) : p[i] = q[i + 1] /\ p[i] \in Int  OBVIOUS
<1>3. \A j \in 1..Len(q) : j = 1 \/ (j - 1 \in 1..Len(p) /\ q[j] = p[j - 1])  BY <1>1, <1>2
<1>4. Head(q) > 0 => Frames(q) = {Head(q)} \cup Frames(p)
  <2> HAVE Head(q) > 0
  <2>1. ASSUME NEW y \in Frames(q) PROVE y \in {Head(q)} \cup Frames(p)  BY <1>1, <1>3,
      <2>1 DEF Frames
  <2>2. ASSUME NEW y \in Frames(p) PROVE y \in Frames(q)
    <3>1. PICK i \in 1..Len(p) : p[i] = y  BY <2>2 DEF Frames
    <3>2. i + 1 \in 1..Len(q) /\ q[i + 1] = y  BY <1>1, <1>2, <3>1
    <3> QED  BY <2>2, <3>2 DEF Frames
  <2>3. Head(q) \in Frames(q)  BY <1>1 DEF Frames
  <2> QED  BY <2>1, <2>2, <2>3
<1>5. Head(q) <= 0 => Frames(q) = Frames(p)
  <2> HAVE Head(q) <= 0
  <2>1. ASSUME NEW y \in Frames(q) PROVE y \in Frames(p)  BY <1>1, <1>3, <2>1 DEF Frames
  <2>2. ASSUME NEW y \in Frames(p) PROVE y \in Frames(q)
    <3>1. PICK i \in 1..Len(p) : p[i] = y  BY <2>2 DEF Frames
    <3>2. i + 1 \in 1..Len(q) /\ q[i + 1] = y  BY <1>1, <1>2, <3>1
    <3> QED  BY <2>2, <3>2 DEF Frames
  <2> QED  BY <2>1, <2>2
<1>6. Rising(q) => Rising(p)  BY <1>1, <1>2 DEF Rising
<1>7. (Rising(q) /\ Head(q) > 0) => Below({Head(q)}, Frames(p))
  BY <1>1, <1>2 DEF Rising, Below, Frames
<1> QED  BY <1>1, <1>4, <1>5, <1>6, <1>7

\* Two queues, one before the other, read as one.
LEMMA ConcatFrames ==
  ASSUME NEW p \in Seq(Int), NEW q \in Seq(Int)
  PROVE  /\ p \o q \in Seq(Int)
         /\ Frames(p \o q) = Frames(p) \cup Frames(q)
         /\ (Rising(p) /\ Rising(q) /\ Below(Frames(p), Frames(q))) => Rising(p \o q)
<1> PICK r : r = p \o q  OBVIOUS
<1>1. r \in Seq(Int) /\ Len(r) = Len(p) + Len(q) /\ Len(p) \in Nat /\ Len(q) \in Nat  OBVIOUS
<1>2. \A i \in 1..Len(p) : r[i] = p[i] /\ i \in 1..Len(r)  OBVIOUS
<1>3. \A i \in 1..Len(q) : r[Len(p) + i] = q[i] /\ Len(p) + i \in 1..Len(r)  OBVIOUS
<1>4. \A k \in 1..Len(r) : \/ k \in 1..Len(p) /\ r[k] = p[k]
                           \/ k > Len(p) /\ k - Len(p) \in 1..Len(q) /\ r[k] = q[k - Len(p)]
  BY <1>1, <1>2, <1>3
<1>5. Frames(r) = Frames(p) \cup Frames(q)
  <2>1. ASSUME NEW y \in Frames(r) PROVE y \in Frames(p) \cup Frames(q)  BY <1>4, <2>1 DEF Frames
  <2>2. ASSUME NEW y \in Frames(p) PROVE y \in Frames(r)  BY <1>2, <2>2 DEF Frames
  <2>3. ASSUME NEW y \in Frames(q) PROVE y \in Frames(r)  BY <1>3, <2>3 DEF Frames
  <2> QED  BY <2>1, <2>2, <2>3
<1>6. ASSUME Rising(p), Rising(q), Below(Frames(p), Frames(q)) PROVE Rising(r)
  <2> SUFFICES ASSUME NEW i \in 1..Len(r), NEW j \in 1..Len(r), i < j, r[i] > 0, r[j] > 0
               PROVE  r[i] < r[j]
    BY DEF Rising
  <2>1. CASE j \in 1..Len(p)  BY <1>1, <1>2, <1>6, <2>1 DEF Rising
  <2>2. CASE i > Len(p)
    <3>1. i - Len(p) \in 1..Len(q) /\ r[i] = q[i - Len(p)] /\ j - Len(p) \in 1..Len(q)
          /\ r[j] = q[j - Len(p)] /\ i - Len(p) < j - Len(p)
      BY <1>1, <1>4, <2>2
    <3> QED  BY <1>6, <3>1 DEF Rising
  <2>3. CASE i \in 1..Len(p) /\ j > Len(p)
    <3>1. r[i] = p[i] /\ j - Len(p) \in 1..Len(q) /\ r[j] = q[j - Len(p)] /\ r[i] \in Int /\ r[j] \in Int
      BY <1>1, <1>4, <2>3
    <3>2. r[i] \in Frames(p) /\ r[j] \in Frames(q)  BY <2>3, <3>1 DEF Frames
    <3> QED  BY <1>6, <3>2 DEF Below
  <2>4. i \in Nat /\ j \in Nat /\ i >= 1 /\ j >= 1 /\ Len(p) \in Nat  BY <1>1
  <2>5. j \in 1..Len(p) \/ i > Len(p) \/ (i \in 1..Len(p) /\ j > Len(p))  BY <2>4
  <2> QED  BY <2>1, <2>2, <2>3, <2>5
<1> QED  BY <1>1, <1>5, <1>6

LEMMA FlowStarts == Flows(<<>>, <<>>, {}, <<>>, 0)
BY DEF Flows, Rising, Below, Frames

\* A frame is sent; what is no whole frame is added at either end; the bridge
\* takes the first, hands it over, and the other side reads.
LEMMA FlowSend ==
  ASSUME NEW a, NEW b, NEW h, NEW c \in Seq(Int), NEW n \in Nat, Flows(a, b, h, c, n)
  PROVE  Flows(a, b, h, Append(c, n + 1), n + 1)
<1> PICK x \in Int : x = n + 1 /\ x > 0  OBVIOUS
<1>1. Frames(Append(c, x)) = Frames(c) \cup {x}  BY AppendFrames
<1>2. Frames(a) \subseteq 1..n /\ Frames(b) \subseteq 1..n /\ h \subseteq 1..n /\ Frames(c) \subseteq 1..n
  BY DEF Flows
<1>3. Below(Frames(a), {x}) /\ Below(Frames(b), {x}) /\ Below(h, {x})
      /\ Below(Frames(c), {x})
  BY <1>2 DEF Below
<1>4. Rising(Append(c, x))  BY <1>3, AppendFrames DEF Flows
<1>5. (1..n) \cup {x} = 1..x  OBVIOUS
<1>6. Below(Frames(a), Frames(c) \cup {x}) /\ Below(Frames(b), Frames(c) \cup {x})
      /\ Below(h, Frames(c) \cup {x})
  BY <1>3 DEF Flows, Below
<1>7. Frames(a) \cup Frames(b) \cup h \cup (Frames(c) \cup {x}) = 1..x
  BY <1>5 DEF Flows
<1> QED  BY <1>1, <1>4, <1>6, <1>7 DEF Flows

LEMMA FlowSendOther ==
  ASSUME NEW a, NEW b \in Seq(Int), NEW h, NEW c \in Seq(Int), NEW n, NEW x \in Int, x <= 0,
         Flows(a, b, h, c, n)
  PROVE  Flows(a, b, h, Append(c, x), n) /\ Flows(a, Append(b, x), h, c, n)
<1>1. /\ Frames(Append(b, x)) = Frames(b) /\ Rising(Append(b, x))
      /\ Frames(Append(c, x)) = Frames(c) /\ Rising(Append(c, x))
  <2>1. ~(x > 0)  OBVIOUS
  <2> QED  BY <2>1, AppendFrames DEF Flows
<1> QED  BY <1>1 DEF Flows

LEMMA FlowTake ==
  ASSUME NEW a, NEW b, NEW c \in Seq(Int), NEW n, c # <<>>, Flows(a, b, {}, c, n)
  PROVE  /\ Head(c) <= 0 => Flows(a, b, {}, Tail(c), n)
         /\ Head(c) > 0 => Flows(a, b, {Head(c)}, Tail(c), n)
<1>1. /\ Head(c) \in Int /\ Rising(Tail(c))
      /\ Head(c) > 0 => Frames(c) = {Head(c)} \cup Frames(Tail(c))
      /\ Head(c) <= 0 => Frames(c) = Frames(Tail(c))
      /\ Head(c) > 0 => Below({Head(c)}, Frames(Tail(c)))
  BY TailFrames DEF Flows
<1>2. CASE Head(c) <= 0  BY <1>1, <1>2 DEF Flows
<1>3. CASE Head(c) > 0
  <2>1. Below(Frames(a), {Head(c)}) /\ Below(Frames(b), {Head(c)})
        /\ Below(Frames(a), Frames(Tail(c))) /\ Below(Frames(b), Frames(Tail(c)))
    BY <1>1, <1>3 DEF Flows, Below
  <2> QED  BY <1>1, <1>3, <2>1 DEF Flows
<1> QED  BY <1>1, <1>2, <1>3

LEMMA FlowHandOver ==
  ASSUME NEW a, NEW b \in Seq(Int), NEW c, NEW n, NEW x \in Int, x > 0, Flows(a, b, {x}, c, n)
  PROVE  Flows(a, Append(b, x), {}, c, n)
<1>1. Frames(Append(b, x)) = Frames(b) \cup {x} /\ Rising(Append(b, x))
  BY AppendFrames DEF Flows
<1>2. Below(Frames(a), Frames(b) \cup {x}) /\ Below(Frames(b) \cup {x}, Frames(c))
      /\ Below(Frames(a), {}) /\ Below(Frames(b) \cup {x}, {}) /\ Below({}, Frames(c))
  BY DEF Flows, Below
<1> QED  BY <1>1, <1>2 DEF Flows

LEMMA FlowRead ==
  ASSUME NEW a \in Seq(Int), NEW b \in Seq(Int), NEW h, NEW c, NEW n, b # <<>>, Flows(a, b, h, c, n)
  PROVE  Flows(Append(a, Head(b)), Tail(b), h, c, n)
<1>1. /\ Head(b) \in Int /\ Rising(Tail(b))
      /\ Head(b) > 0 => Frames(b) = {Head(b)} \cup Frames(Tail(b))
      /\ Head(b) <= 0 => Frames(b) = Frames(Tail(b))
      /\ Head(b) > 0 => Below({Head(b)}, Frames(Tail(b)))
  BY TailFrames DEF Flows
<1>2. CASE Head(b) <= 0
  <2>1. Frames(Append(a, Head(b))) = Frames(a) /\ Rising(Append(a, Head(b)))
    <3>1. ~(Head(b) > 0)  BY <1>1, <1>2
    <3> QED  BY <1>1, <1>2, <3>1, AppendFrames DEF Flows
  <2> QED  BY <1>1, <1>2, <2>1 DEF Flows
<1>3. CASE Head(b) > 0
  <2>1. Below(Frames(a), {Head(b)})  BY <1>1, <1>3 DEF Flows, Below
  <2>2. Frames(Append(a, Head(b))) = Frames(a) \cup {Head(b)} /\ Rising(Append(a, Head(b)))
    BY <1>1, <1>3, <2>1, AppendFrames DEF Flows
  <2>3. /\ Below(Frames(a) \cup {Head(b)}, Frames(Tail(b))) /\ Below(Frames(a) \cup {Head(b)}, h)
        /\ Below(Frames(a) \cup {Head(b)}, Frames(c)) /\ Below(Frames(Tail(b)), h)
        /\ Below(Frames(Tail(b)), Frames(c))
    BY <1>1, <1>3 DEF Flows, Below
  <2> QED  BY <1>1, <1>3, <2>2, <2>3 DEF Flows
<1> QED  BY <1>1, <1>2, <1>3

\* Frames that rise from 1 and leave none out are counted off.
LEMMA RisingCounts ==
  ASSUME NEW q \in Seq(Int), NEW n, Frames(q) = 1..n, Rising(q)
  PROVE  CountUp(q, n)
<1>1. DOMAIN q = 1..Len(q) /\ \A i \in 1..Len(q) : q[i] \in Int  OBVIOUS
<1>2. \A i \in 1..Len(q) : i \in Whole(q) <=> q[i] > 0  BY <1>1 DEF Whole
<1>3. Whole(q) \subseteq 1..Len(q)  BY <1>1 DEF Whole
<1>4. \A x \in Frames(q) : \E i \in Whole(q) : q[i] = x
  <2> SUFFICES ASSUME NEW x \in Frames(q) PROVE \E i \in Whole(q) : q[i] = x
    OBVIOUS
  <2>1. PICK i \in 1..Len(q) : q[i] = x /\ x > 0  BY DEF Frames
  <2> QED  BY <1>2, <2>1
<1>5. \A i \in Whole(q) : q[i] \in Frames(q)  BY <1>2, <1>3 DEF Frames
<1>6. {q[i] : i \in Whole(q)} = Frames(q)  BY <1>4, <1>5, Zenon
<1>7. \A i, j \in Whole(q) : i < j => q[i] < q[j]  BY <1>2, <1>3 DEF Rising
<1> QED  BY <1>6, <1>7, Zenon DEF CountUp

\* So are those of a flow.
LEMMA FlowCounts ==
  ASSUME NEW a \in Seq(Int), NEW b \in Seq(Int), NEW h \in Seq(Int), NEW c \in Seq(Int), NEW n,
         Rising(h), Flows(a, b, Frames(h), c, n)
  PROVE  CountUp(a \o b \o h \o c, n)
<1>1. /\ a \o b \in Seq(Int) /\ Frames(a \o b) = Frames(a) \cup Frames(b) /\ Rising(a \o b)
  BY ConcatFrames DEF Flows
<1>2. Below(Frames(a \o b), Frames(h)) /\ Below(Frames(a \o b) \cup Frames(h), Frames(c))
  BY <1>1 DEF Flows, Below
<1> PICK ab \in Seq(Int) : ab = a \o b  BY <1>1
<1>3. /\ ab \o h \in Seq(Int) /\ Frames(ab \o h) = Frames(ab) \cup Frames(h) /\ Rising(ab \o h)
  BY <1>1, <1>2, ConcatFrames
<1> PICK abh \in Seq(Int) : abh = ab \o h  BY <1>3
<1>4. Frames(abh) = Frames(a \o b) \cup Frames(h)  BY <1>3
<1>5. Below(Frames(abh), Frames(c))  BY <1>2, <1>4
<1>6. /\ abh \o c \in Seq(Int) /\ Frames(abh \o c) = Frames(abh) \cup Frames(c) /\ Rising(abh \o c)
  BY <1>3, <1>5, ConcatFrames DEF Flows
<1> PICK q \in Seq(Int) : q = abh \o c  BY <1>6
<1>7. Frames(q) = 1..n /\ Rising(q)  BY <1>1, <1>4, <1>6 DEF Flows
<1> QED  BY <1>7, RisingCounts

Has(q, x) == \E i \in 1..Len(q) : q[i] = x

BridgeSteps == {"none", "connect", "refuse", "listen", "send_up", "send_down", "tell_upstream",
                "tell_client", "log", "done"}
Bridges == [pc : BridgeSteps, fromClient : Seq(Int), fromUpstream : Seq(Int),
            toClient : Seq(Int), toUpstream : Seq(Int), held : Int, clean : BOOLEAN,
            client : {"here", "closed", "gone"}, upstream : Ends, sentUp : Nat, sentDown : Nat,
            readUp : Seq(Int), readDown : Seq(Int), connected : BOOLEAN]

Runs(b) == b.pc \notin {"none", "done"}
Hand(b, pc) == IF b.pc = pc THEN {b.held} ELSE {}

BridgeFlows(b) ==
  Runs(b) =>
    /\ b.upstream # "gone" =>
         Flows(b.readUp, b.toUpstream, Hand(b, "send_up"), b.fromClient, b.sentUp)
    /\ b.client # "gone" =>
         Flows(b.readDown, b.toClient, Hand(b, "send_down"), b.fromUpstream, b.sentDown)

\* What a bridge knows of how its sides ended.
BridgeKnows(b) ==
  /\ Has(b.fromClient, Close) => b.client = "closed"
  /\ Has(b.fromUpstream, Close) => b.upstream = "closed"
  /\ Has(b.fromUpstream, Abnormal) => b.upstream = "failed"
  /\ b.clean => b.client = "closed" \/ b.upstream = "closed"
  /\ (b.pc = "tell_upstream" /\ ~b.clean) => b.client = "gone"
  /\ (b.pc = "tell_client" /\ ~b.clean) => b.upstream \in {"failed", "gone"}
  /\ (b.pc = "log" /\ ~b.clean /\ b.connected) =>
       (b.client = "gone" \/ b.upstream \in {"failed", "gone"})
  /\ b.pc \in {"none", "connect", "refuse"} => ~b.connected
  /\ b.pc \in {"listen", "send_up", "send_down", "tell_upstream", "tell_client"} => b.connected
  /\ b.pc \in {"connect", "refuse", "listen", "send_up", "send_down"} => ~b.clean
  /\ b.pc \in {"send_up", "send_down"} => b.held > 0
  /\ b.pc = "tell_client" => b.held <= 0
  /\ b.pc \in {"none", "done"} => b.toClient = <<>> /\ b.toUpstream = <<>>
  /\ Len(b.toClient) <= Room /\ Len(b.toUpstream) <= Room

BridgeLogged(b, statuses) ==
  /\ b.pc # "done" => statuses = <<>>
  /\ statuses \in {<<>>, <<200>>, <<499>>, <<502>>}
  /\ statuses = <<200>> => b.client = "closed" \/ b.upstream = "closed"
  /\ statuses = <<499>> => b.connected /\ (b.client = "gone" \/ b.upstream \in {"failed", "gone"})
  /\ statuses = <<502>> => ~b.connected

BridgeOK(b, statuses) ==
  b \in Bridges /\ BridgeFlows(b) /\ BridgeKnows(b) /\ BridgeLogged(b, statuses)

RealtimeInv ==
  /\ DOMAIN bridges = Sessions /\ bridges = [s \in Sessions |-> bridges[s]]
  /\ sessionLog = [s \in Sessions |-> sessionLog[s]]
  /\ \A s \in Sessions : BridgeOK(bridges[s], sessionLog[s])
  /\ free \in Nat /\ PermitsBalance

\* The slots and the permits.
LEMMA RoomPermits == Permits \in Nat /\ Room \in Nat \ {0} /\ IsFiniteSet(Sessions)
BY RealtimeAssumption

\* What a longer queue holds.
LEMMA HasAppend ==
  ASSUME NEW q \in Seq(Int), NEW x \in Int, NEW y
  PROVE  Append(q, x) \in Seq(Int) /\ (Has(Append(q, x), y) => Has(q, y) \/ x = y)
<1> PICK p : p = Append(q, x)  OBVIOUS
<1>1. Len(p) = Len(q) + 1 /\ p[Len(q) + 1] = x /\ Len(q) \in Nat /\ p \in Seq(Int)  OBVIOUS
<1>2. \A i \in 1..Len(q) : p[i] = q[i]  OBVIOUS
<1>3. \A i \in 1..Len(p) : i \in 1..Len(q) \/ i = Len(q) + 1  BY <1>1
<1> QED  BY <1>1, <1>2, <1>3 DEF Has

\* What a shorter queue holds.
LEMMA HasTail ==
  ASSUME NEW q \in Seq(Int), NEW y, q # <<>>
  PROVE  /\ Has(q, Head(q)) /\ Head(q) \in Int /\ Tail(q) \in Seq(Int)
         /\ Has(Tail(q), y) => Has(q, y)
<1> PICK p : p = Tail(q)  OBVIOUS
<1>1. Len(p) = Len(q) - 1 /\ Head(q) = q[1] /\ Len(q) \in Nat \ {0} /\ p \in Seq(Int) /\ q[1] \in Int  OBVIOUS
<1>2. \A i \in 1..Len(p) : p[i] = q[i + 1] /\ i + 1 \in 1..Len(q)  BY <1>1
<1>3. Has(q, q[1])  BY <1>1 DEF Has
<1>4. Has(p, y) => Has(q, y)  BY <1>2 DEF Has
<1> QED  BY <1>1, <1>3, <1>4

\* A step of one bridge that keeps its permit.
LEMMA OneBridge ==
  ASSUME RealtimeInv, NEW s \in Sessions, NEW r, BridgeMoves(s, r),
         BridgeOK(r, sessionLog[s]), Runs(r) <=> Runs(bridges[s])
  PROVE  RealtimeInv'
<1>1. bridges' = [bridges EXCEPT ![s] = r] /\ free' = free /\ sessionLog' = sessionLog
  BY DEF BridgeMoves
<1>2. DOMAIN bridges' = Sessions /\ bridges' = [t \in Sessions |-> bridges'[t]]
  BY <1>1 DEF RealtimeInv
<1>3. bridges'[s] = r /\ \A t \in Sessions \ {s} : bridges'[t] = bridges[t]
  BY <1>1 DEF RealtimeInv
<1>4. \A t \in Sessions : BridgeOK(bridges'[t], sessionLog'[t])
  BY <1>1, <1>3 DEF RealtimeInv
<1>5. {t \in Sessions : Running(t)'} = {t \in Sessions : Running(t)}
  BY <1>3 DEF Running, Runs
<1>6. PermitsBalance'  BY <1>1, <1>5 DEF PermitsBalance, RealtimeInv
<1> QED  BY <1>1, <1>2, <1>4, <1>6 DEF RealtimeInv

\* No session yet.
LEMMA RealtimeStarts == RealtimeInit => RealtimeInv
<1> SUFFICES ASSUME RealtimeInit PROVE RealtimeInv  OBVIOUS
<1>1. ASSUME NEW s \in Sessions PROVE BridgeOK(bridges[s], sessionLog[s])
  <2> PICK b : b = NoSession  OBVIOUS
  <2>1. bridges[s] = b /\ sessionLog[s] = <<>>  BY <1>1 DEF RealtimeInit
  <2>2. b \in Bridges  BY DEF Bridges, NoSession, BridgeSteps, Ends
  <2>3. BridgeFlows(b)  BY DEF BridgeFlows, Runs, NoSession
  <2>4. BridgeKnows(b)  BY RoomPermits DEF BridgeKnows, NoSession, Has, Close, Abnormal
  <2>5. BridgeLogged(b, <<>>)  BY DEF BridgeLogged
  <2> QED  BY <2>1, <2>2, <2>3, <2>4, <2>5 DEF BridgeOK
<1>2. {s \in Sessions : Running(s)} = {}  BY DEF RealtimeInit, Running, NoSession
<1>3. PermitsBalance  BY <1>2, FS_EmptySet, RoomPermits DEF RealtimeInit, PermitsBalance
<1> QED  BY <1>1, <1>3, RoomPermits DEF RealtimeInit, RealtimeInv

LEMMA Connects ==
  ASSUME NEW b, NEW l, BridgeOK(b, l), b.pc = "connect",
         NEW r, r = [b EXCEPT !.pc = "listen", !.connected = TRUE]
  PROVE  BridgeOK(r, l) /\ (Runs(r) <=> Runs(b))
<1>0. b \in Bridges /\ BridgeFlows(b) /\ BridgeKnows(b) /\ BridgeLogged(b, l)  BY DEF BridgeOK
<1>1. r \in Bridges  BY <1>0 DEF Bridges, BridgeSteps, Ends
<1>2. BridgeFlows(r)
  BY <1>0 DEF BridgeFlows, Runs, Hand, Bridges
<1>3. BridgeKnows(r)  BY <1>0, RoomPermits DEF BridgeKnows, Bridges, HasRoom, Close, Abnormal,
                                               Fragment
<1>4. BridgeLogged(r, l) /\ (Runs(r) <=> Runs(b))  BY <1>0 DEF BridgeLogged, BridgeKnows,
    Bridges, Runs
<1> QED  BY <1>1, <1>2, <1>3, <1>4 DEF BridgeOK

LEMMA Refuses ==
  ASSUME NEW b, NEW l, BridgeOK(b, l), b.pc = "connect",
         NEW r, r = [b EXCEPT !.pc = "refuse"]
  PROVE  BridgeOK(r, l) /\ (Runs(r) <=> Runs(b))
<1>0. b \in Bridges /\ BridgeFlows(b) /\ BridgeKnows(b) /\ BridgeLogged(b, l)  BY DEF BridgeOK
<1>1. r \in Bridges  BY <1>0 DEF Bridges, BridgeSteps, Ends
<1>2. BridgeFlows(r)
  BY <1>0 DEF BridgeFlows, Runs, Hand, Bridges
<1>3. BridgeKnows(r)  BY <1>0, RoomPermits DEF BridgeKnows, Bridges, HasRoom, Close, Abnormal,
                                               Fragment
<1>4. BridgeLogged(r, l) /\ (Runs(r) <=> Runs(b))  BY <1>0 DEF BridgeLogged, BridgeKnows,
    Bridges, Runs
<1> QED  BY <1>1, <1>2, <1>3, <1>4 DEF BridgeOK

LEMMA TakesClientClose ==
  ASSUME NEW b, NEW l, BridgeOK(b, l), b.pc = "listen", b.fromClient # <<>>,
         Head(b.fromClient) = Close,
         NEW r, r = [b EXCEPT !.fromClient = Tail(@), !.pc = "tell_upstream", !.clean = TRUE]
  PROVE  BridgeOK(r, l) /\ (Runs(r) <=> Runs(b))
<1>0. b \in Bridges /\ BridgeFlows(b) /\ BridgeKnows(b) /\ BridgeLogged(b, l)  BY DEF BridgeOK
<1>1. Has(b.fromClient, Head(b.fromClient)) /\ Head(b.fromClient) \in Int /\ Tail(b.fromClient) \in Seq(Int)
      /\ (Has(Tail(b.fromClient), Close) => Has(b.fromClient, Close))
  BY <1>0, HasTail DEF Bridges
<1>2. Flows(b.readUp, b.toUpstream, {}, b.fromClient, b.sentUp) \/ b.upstream = "gone"
  BY <1>0 DEF BridgeFlows, Runs, Hand
<1>3. b.upstream # "gone" =>
        /\ Head(b.fromClient) <= 0 => Flows(b.readUp, b.toUpstream, {}, Tail(b.fromClient), b.sentUp)
        /\ Head(b.fromClient) > 0 => Flows(b.readUp, b.toUpstream, {Head(b.fromClient)}, Tail(b.fromClient), b.sentUp)
  BY <1>0, <1>2, FlowTake DEF Bridges
<1>4. r \in Bridges  BY <1>0, <1>1, <1>2, <1>3 DEF Bridges, BridgeSteps, Ends
<1>5. BridgeFlows(r)
  BY <1>0, <1>1, <1>2, <1>3 DEF BridgeFlows, Runs, Hand, Bridges, Close, Abnormal, Fragment
<1>6. BridgeKnows(r)  BY <1>0, <1>1, <1>2, <1>3, RoomPermits DEF BridgeKnows, Bridges, HasRoom,
                         Close, Abnormal, Fragment
<1>7. BridgeLogged(r, l) /\ (Runs(r) <=> Runs(b))  BY <1>0, <1>1, <1>2, <1>3 DEF BridgeLogged,
                                                      BridgeKnows, Bridges, Runs
<1> QED  BY <1>4, <1>5, <1>6, <1>7 DEF BridgeOK

LEMMA DropsFragment ==
  ASSUME NEW b, NEW l, BridgeOK(b, l), b.pc = "listen", b.fromClient # <<>>,
         Head(b.fromClient) = Fragment,
         NEW r, r = [b EXCEPT !.fromClient = Tail(@)]
  PROVE  BridgeOK(r, l) /\ (Runs(r) <=> Runs(b))
<1>0. b \in Bridges /\ BridgeFlows(b) /\ BridgeKnows(b) /\ BridgeLogged(b, l)  BY DEF BridgeOK
<1>1. Has(b.fromClient, Head(b.fromClient)) /\ Head(b.fromClient) \in Int /\ Tail(b.fromClient) \in Seq(Int)
      /\ (Has(Tail(b.fromClient), Close) => Has(b.fromClient, Close))
  BY <1>0, HasTail DEF Bridges
<1>2. Flows(b.readUp, b.toUpstream, {}, b.fromClient, b.sentUp) \/ b.upstream = "gone"
  BY <1>0 DEF BridgeFlows, Runs, Hand
<1>3. b.upstream # "gone" =>
        /\ Head(b.fromClient) <= 0 => Flows(b.readUp, b.toUpstream, {}, Tail(b.fromClient), b.sentUp)
        /\ Head(b.fromClient) > 0 => Flows(b.readUp, b.toUpstream, {Head(b.fromClient)}, Tail(b.fromClient), b.sentUp)
  BY <1>0, <1>2, FlowTake DEF Bridges
<1>4. r \in Bridges  BY <1>0, <1>1, <1>2, <1>3 DEF Bridges, BridgeSteps, Ends
<1>5. BridgeFlows(r)
  BY <1>0, <1>1, <1>2, <1>3 DEF BridgeFlows, Runs, Hand, Bridges, Close, Abnormal, Fragment
<1>6. BridgeKnows(r)  BY <1>0, <1>1, <1>2, <1>3, RoomPermits DEF BridgeKnows, Bridges, HasRoom,
                         Close, Abnormal, Fragment
<1>7. BridgeLogged(r, l) /\ (Runs(r) <=> Runs(b))  BY <1>0, <1>1, <1>2, <1>3 DEF BridgeLogged,
                                                      BridgeKnows, Bridges, Runs
<1> QED  BY <1>4, <1>5, <1>6, <1>7 DEF BridgeOK

LEMMA TakesClientFrame ==
  ASSUME NEW b, NEW l, BridgeOK(b, l), b.pc = "listen", b.fromClient # <<>>, Head(b.fromClient) > 0,
         NEW r, r = [b EXCEPT !.fromClient = Tail(@), !.pc = "send_up", !.held = Head(b.fromClient)]
  PROVE  BridgeOK(r, l) /\ (Runs(r) <=> Runs(b))
<1>0. b \in Bridges /\ BridgeFlows(b) /\ BridgeKnows(b) /\ BridgeLogged(b, l)  BY DEF BridgeOK
<1>1. Has(b.fromClient, Head(b.fromClient)) /\ Head(b.fromClient) \in Int /\ Tail(b.fromClient) \in Seq(Int)
      /\ (Has(Tail(b.fromClient), Close) => Has(b.fromClient, Close))
  BY <1>0, HasTail DEF Bridges
<1>2. Flows(b.readUp, b.toUpstream, {}, b.fromClient, b.sentUp) \/ b.upstream = "gone"
  BY <1>0 DEF BridgeFlows, Runs, Hand
<1>3. b.upstream # "gone" =>
        /\ Head(b.fromClient) <= 0 => Flows(b.readUp, b.toUpstream, {}, Tail(b.fromClient), b.sentUp)
        /\ Head(b.fromClient) > 0 => Flows(b.readUp, b.toUpstream, {Head(b.fromClient)}, Tail(b.fromClient), b.sentUp)
  BY <1>0, <1>2, FlowTake DEF Bridges
<1>4. r \in Bridges  BY <1>0, <1>1, <1>2, <1>3 DEF Bridges, BridgeSteps, Ends
<1>5. BridgeFlows(r)
  BY <1>0, <1>1, <1>2, <1>3 DEF BridgeFlows, Runs, Hand, Bridges, Close, Abnormal, Fragment
<1>6. BridgeKnows(r)  BY <1>0, <1>1, <1>2, <1>3, RoomPermits DEF BridgeKnows, Bridges, HasRoom,
                         Close, Abnormal, Fragment
<1>7. BridgeLogged(r, l) /\ (Runs(r) <=> Runs(b))  BY <1>0, <1>1, <1>2, <1>3 DEF BridgeLogged,
                                                      BridgeKnows, Bridges, Runs
<1> QED  BY <1>4, <1>5, <1>6, <1>7 DEF BridgeOK

LEMMA FindsClientGone ==
  ASSUME NEW b, NEW l, BridgeOK(b, l), b.pc = "listen", b.client = "gone",
         NEW r, r = [b EXCEPT !.pc = "tell_upstream"]
  PROVE  BridgeOK(r, l) /\ (Runs(r) <=> Runs(b))
<1>0. b \in Bridges /\ BridgeFlows(b) /\ BridgeKnows(b) /\ BridgeLogged(b, l)  BY DEF BridgeOK
<1>1. r \in Bridges  BY <1>0 DEF Bridges, BridgeSteps, Ends
<1>2. BridgeFlows(r)
  BY <1>0 DEF BridgeFlows, Runs, Hand, Bridges
<1>3. BridgeKnows(r)  BY <1>0, RoomPermits DEF BridgeKnows, Bridges, HasRoom, Close, Abnormal,
                                               Fragment
<1>4. BridgeLogged(r, l) /\ (Runs(r) <=> Runs(b))  BY <1>0 DEF BridgeLogged, BridgeKnows,
    Bridges, Runs
<1> QED  BY <1>1, <1>2, <1>3, <1>4 DEF BridgeOK

LEMMA TakesUpstreamClose ==
  ASSUME NEW b, NEW l, BridgeOK(b, l), b.pc = "listen", b.fromUpstream # <<>>,
         Head(b.fromUpstream) \in {Close, Abnormal},
         NEW r,
         r = [b EXCEPT !.fromUpstream = Tail(@), !.pc = "tell_client", !.held = Head(b.fromUpstream),
                          !.clean = CleanClose(Head(b.fromUpstream))]
  PROVE  BridgeOK(r, l) /\ (Runs(r) <=> Runs(b))
<1>0. b \in Bridges /\ BridgeFlows(b) /\ BridgeKnows(b) /\ BridgeLogged(b, l)  BY DEF BridgeOK
<1>1. Has(b.fromUpstream, Head(b.fromUpstream)) /\ Head(b.fromUpstream) \in Int /\ Tail(b.fromUpstream) \in Seq(Int)
      /\ (Has(Tail(b.fromUpstream), Close) => Has(b.fromUpstream, Close))
      /\ (Has(Tail(b.fromUpstream), Abnormal) => Has(b.fromUpstream, Abnormal))
  BY <1>0, HasTail DEF Bridges
<1>2. Flows(b.readDown, b.toClient, {}, b.fromUpstream, b.sentDown) \/ b.client = "gone"
  BY <1>0 DEF BridgeFlows, Runs, Hand
<1>3. b.client # "gone" =>
        /\ Head(b.fromUpstream) <= 0 => Flows(b.readDown, b.toClient, {}, Tail(b.fromUpstream), b.sentDown)
        /\ Head(b.fromUpstream) > 0 => Flows(b.readDown, b.toClient, {Head(b.fromUpstream)}, Tail(b.fromUpstream), b.sentDown)
  BY <1>0, <1>2, FlowTake DEF Bridges
<1>4. CleanClose(Head(b.fromUpstream)) \in BOOLEAN  BY DEF CleanClose
<1>5. r \in Bridges  BY <1>0, <1>1, <1>2, <1>3, <1>4 DEF Bridges, BridgeSteps, Ends
<1>6. BridgeFlows(r)
  BY <1>0, <1>1, <1>2, <1>3, <1>4 DEF BridgeFlows, Runs, Hand, Bridges, Close, Abnormal, Fragment
<1>7. BridgeKnows(r)
  BY <1>0, <1>1, <1>4 DEF BridgeKnows, Bridges, Close, Abnormal, CleanClose
<1>8. BridgeLogged(r, l) /\ (Runs(r) <=> Runs(b))  BY <1>0, <1>1, <1>2, <1>3,
                                                      <1>4 DEF BridgeLogged, BridgeKnows,
                                                          Bridges, Runs
<1> QED  BY <1>5, <1>6, <1>7, <1>8 DEF BridgeOK

LEMMA TakesUpstreamFrame ==
  ASSUME NEW b, NEW l, BridgeOK(b, l), b.pc = "listen", b.fromUpstream # <<>>,
         Head(b.fromUpstream) > 0,
         NEW r,
         r = [b EXCEPT !.fromUpstream = Tail(@), !.pc = "send_down", !.held = Head(b.fromUpstream)]
  PROVE  BridgeOK(r, l) /\ (Runs(r) <=> Runs(b))
<1>0. b \in Bridges /\ BridgeFlows(b) /\ BridgeKnows(b) /\ BridgeLogged(b, l)  BY DEF BridgeOK
<1>1. Has(b.fromUpstream, Head(b.fromUpstream)) /\ Head(b.fromUpstream) \in Int /\ Tail(b.fromUpstream) \in Seq(Int)
      /\ (Has(Tail(b.fromUpstream), Close) => Has(b.fromUpstream, Close))
      /\ (Has(Tail(b.fromUpstream), Abnormal) => Has(b.fromUpstream, Abnormal))
  BY <1>0, HasTail DEF Bridges
<1>2. Flows(b.readDown, b.toClient, {}, b.fromUpstream, b.sentDown) \/ b.client = "gone"
  BY <1>0 DEF BridgeFlows, Runs, Hand
<1>3. b.client # "gone" =>
        /\ Head(b.fromUpstream) <= 0 => Flows(b.readDown, b.toClient, {}, Tail(b.fromUpstream), b.sentDown)
        /\ Head(b.fromUpstream) > 0 => Flows(b.readDown, b.toClient, {Head(b.fromUpstream)}, Tail(b.fromUpstream), b.sentDown)
  BY <1>0, <1>2, FlowTake DEF Bridges
<1>4. r \in Bridges  BY <1>0, <1>1, <1>2, <1>3 DEF Bridges, BridgeSteps, Ends
<1>5. BridgeFlows(r)
  BY <1>0, <1>1, <1>2, <1>3 DEF BridgeFlows, Runs, Hand, Bridges, Close, Abnormal, Fragment
<1>6. BridgeKnows(r)  BY <1>0, <1>1, <1>2, <1>3, RoomPermits DEF BridgeKnows, Bridges, HasRoom,
                         Close, Abnormal, Fragment
<1>7. BridgeLogged(r, l) /\ (Runs(r) <=> Runs(b))  BY <1>0, <1>1, <1>2, <1>3 DEF BridgeLogged,
                                                      BridgeKnows, Bridges, Runs
<1> QED  BY <1>4, <1>5, <1>6, <1>7 DEF BridgeOK

LEMMA FindsUpstreamGone ==
  ASSUME NEW b, NEW l, BridgeOK(b, l), b.pc = "listen", b.upstream = "gone",
         NEW r, r = [b EXCEPT !.pc = "tell_client", !.held = Abnormal]
  PROVE  BridgeOK(r, l) /\ (Runs(r) <=> Runs(b))
<1>0. b \in Bridges /\ BridgeFlows(b) /\ BridgeKnows(b) /\ BridgeLogged(b, l)  BY DEF BridgeOK
<1>1. Abnormal \in Int  BY DEF Abnormal
<1>2. r \in Bridges  BY <1>0, <1>1 DEF Bridges, BridgeSteps, Ends
<1>3. BridgeFlows(r)
  BY <1>0, <1>1 DEF BridgeFlows, Runs, Hand, Bridges, Close, Abnormal, Fragment
<1>4. BridgeKnows(r)  BY <1>0, <1>1, RoomPermits DEF BridgeKnows, Bridges, HasRoom, Close,
                                                     Abnormal, Fragment
<1>5. BridgeLogged(r, l) /\ (Runs(r) <=> Runs(b))  BY <1>0, <1>1 DEF BridgeLogged, BridgeKnows,
                                                      Bridges, Runs
<1> QED  BY <1>2, <1>3, <1>4, <1>5 DEF BridgeOK

LEMMA FailsUp ==
  ASSUME NEW b, NEW l, BridgeOK(b, l), b.pc = "send_up", b.upstream = "gone",
         NEW r, r = [b EXCEPT !.pc = "log"]
  PROVE  BridgeOK(r, l) /\ (Runs(r) <=> Runs(b))
<1>0. b \in Bridges /\ BridgeFlows(b) /\ BridgeKnows(b) /\ BridgeLogged(b, l)  BY DEF BridgeOK
<1>1. r \in Bridges  BY <1>0 DEF Bridges, BridgeSteps, Ends
<1>2. BridgeFlows(r)
  BY <1>0 DEF BridgeFlows, Runs, Hand, Bridges
<1>3. BridgeKnows(r)  BY <1>0, RoomPermits DEF BridgeKnows, Bridges, HasRoom, Close, Abnormal,
                                               Fragment
<1>4. BridgeLogged(r, l) /\ (Runs(r) <=> Runs(b))  BY <1>0 DEF BridgeLogged, BridgeKnows,
    Bridges, Runs
<1> QED  BY <1>1, <1>2, <1>3, <1>4 DEF BridgeOK

LEMMA FailsDown ==
  ASSUME NEW b, NEW l, BridgeOK(b, l), b.pc = "send_down", b.client = "gone",
         NEW r, r = [b EXCEPT !.pc = "log"]
  PROVE  BridgeOK(r, l) /\ (Runs(r) <=> Runs(b))
<1>0. b \in Bridges /\ BridgeFlows(b) /\ BridgeKnows(b) /\ BridgeLogged(b, l)  BY DEF BridgeOK
<1>1. r \in Bridges  BY <1>0 DEF Bridges, BridgeSteps, Ends
<1>2. BridgeFlows(r)
  BY <1>0 DEF BridgeFlows, Runs, Hand, Bridges
<1>3. BridgeKnows(r)  BY <1>0, RoomPermits DEF BridgeKnows, Bridges, HasRoom, Close, Abnormal,
                                               Fragment
<1>4. BridgeLogged(r, l) /\ (Runs(r) <=> Runs(b))  BY <1>0 DEF BridgeLogged, BridgeKnows,
    Bridges, Runs
<1> QED  BY <1>1, <1>2, <1>3, <1>4 DEF BridgeOK

LEMMA SendsUp ==
  ASSUME NEW b, NEW l, BridgeOK(b, l), b.pc = "send_up", b.upstream # "gone", HasRoom(b.toUpstream),
         NEW r, r = [b EXCEPT !.pc = "listen", !.toUpstream = Append(@, b.held)]
  PROVE  BridgeOK(r, l) /\ (Runs(r) <=> Runs(b))
<1>0. b \in Bridges /\ BridgeFlows(b) /\ BridgeKnows(b) /\ BridgeLogged(b, l)  BY DEF BridgeOK
<1>1. Append(b.toUpstream, b.held) \in Seq(Int) /\ Len(Append(b.toUpstream, b.held)) = Len(b.toUpstream) + 1
      /\ b.held > 0
  BY <1>0 DEF Bridges, BridgeKnows
<1>2. Flows(b.readUp, Append(b.toUpstream, b.held), {}, b.fromClient, b.sentUp)
  BY <1>0, <1>1, FlowHandOver DEF BridgeFlows, Runs, Hand, Bridges
<1>3. r \in Bridges  BY <1>0, <1>1, <1>2 DEF Bridges, BridgeSteps, Ends
<1>4. BridgeFlows(r)
  BY <1>0, <1>1, <1>2, FlowHandOver DEF BridgeFlows, Runs, Hand, Bridges
<1>5. BridgeKnows(r)
  BY <1>0, <1>1, RoomPermits DEF BridgeKnows, Bridges, HasRoom
<1>6. BridgeLogged(r, l) /\ (Runs(r) <=> Runs(b))  BY <1>0, <1>1, <1>2 DEF BridgeLogged,
                                                      BridgeKnows, Bridges, Runs
<1> QED  BY <1>3, <1>4, <1>5, <1>6 DEF BridgeOK

LEMMA SendsDown ==
  ASSUME NEW b, NEW l, BridgeOK(b, l), b.pc = "send_down", b.client # "gone", HasRoom(b.toClient),
         NEW r, r = [b EXCEPT !.pc = "listen", !.toClient = Append(@, b.held)]
  PROVE  BridgeOK(r, l) /\ (Runs(r) <=> Runs(b))
<1>0. b \in Bridges /\ BridgeFlows(b) /\ BridgeKnows(b) /\ BridgeLogged(b, l)  BY DEF BridgeOK
<1>1. Append(b.toClient, b.held) \in Seq(Int) /\ Len(Append(b.toClient, b.held)) = Len(b.toClient) + 1
      /\ b.held > 0
  BY <1>0 DEF Bridges, BridgeKnows
<1>2. Flows(b.readDown, Append(b.toClient, b.held), {}, b.fromUpstream, b.sentDown)
  BY <1>0, <1>1, FlowHandOver DEF BridgeFlows, Runs, Hand, Bridges
<1>3. r \in Bridges  BY <1>0, <1>1, <1>2 DEF Bridges, BridgeSteps, Ends
<1>4. BridgeFlows(r)
  BY <1>0, <1>1, <1>2 DEF BridgeFlows, Runs, Hand, Bridges
<1>5. BridgeKnows(r)  BY <1>0, <1>1, <1>2, RoomPermits DEF BridgeKnows, Bridges, HasRoom, Close,
                                                           Abnormal, Fragment
<1>6. BridgeLogged(r, l) /\ (Runs(r) <=> Runs(b))  BY <1>0, <1>1, <1>2 DEF BridgeLogged,
                                                      BridgeKnows, Bridges, Runs
<1> QED  BY <1>3, <1>4, <1>5, <1>6 DEF BridgeOK

LEMMA TellsUpstream ==
  ASSUME NEW b, NEW l, BridgeOK(b, l), b.pc = "tell_upstream", b.upstream # "gone",
         HasRoom(b.toUpstream),
         NEW r, r = [b EXCEPT !.pc = "log", !.toUpstream = Append(@, Close)]
  PROVE  BridgeOK(r, l) /\ (Runs(r) <=> Runs(b))
<1>0. b \in Bridges /\ BridgeFlows(b) /\ BridgeKnows(b) /\ BridgeLogged(b, l)  BY DEF BridgeOK
<1>1. Close \in Int /\ Close <= 0  BY DEF Close
<1>2. Append(b.toUpstream, Close) \in Seq(Int) /\ Len(Append(b.toUpstream, Close)) = Len(b.toUpstream) + 1
      /\ Close \in Int
  BY <1>0, <1>1 DEF Bridges
<1>3. b.upstream # "gone" => Flows(b.readUp, Append(b.toUpstream, Close), {}, b.fromClient, b.sentUp)
  BY <1>0, <1>1, FlowSendOther DEF BridgeFlows, Runs, Hand, Bridges
<1>4. r \in Bridges  BY <1>0, <1>1, <1>2, <1>3 DEF Bridges, BridgeSteps, Ends
<1>5. BridgeFlows(r)
  BY <1>0, <1>1, <1>2, <1>3 DEF BridgeFlows, Runs, Hand, Bridges
<1>6. BridgeKnows(r)  BY <1>0, <1>1, <1>2, <1>3, RoomPermits DEF BridgeKnows, Bridges, HasRoom,
                         Close, Abnormal, Fragment
<1>7. BridgeLogged(r, l) /\ (Runs(r) <=> Runs(b))  BY <1>0, <1>1, <1>2, <1>3 DEF BridgeLogged,
                                                      BridgeKnows, Bridges, Runs
<1> QED  BY <1>4, <1>5, <1>6, <1>7 DEF BridgeOK

LEMMA TellsNobodyUp ==
  ASSUME NEW b, NEW l, BridgeOK(b, l), b.pc = "tell_upstream", b.upstream = "gone",
         NEW r, r = [b EXCEPT !.pc = "log"]
  PROVE  BridgeOK(r, l) /\ (Runs(r) <=> Runs(b))
<1>0. b \in Bridges /\ BridgeFlows(b) /\ BridgeKnows(b) /\ BridgeLogged(b, l)  BY DEF BridgeOK
<1>1. r \in Bridges  BY <1>0 DEF Bridges, BridgeSteps, Ends
<1>2. BridgeFlows(r)
  BY <1>0 DEF BridgeFlows, Runs, Hand, Bridges
<1>3. BridgeKnows(r)  BY <1>0, RoomPermits DEF BridgeKnows, Bridges, HasRoom, Close, Abnormal,
                                               Fragment
<1>4. BridgeLogged(r, l) /\ (Runs(r) <=> Runs(b))  BY <1>0 DEF BridgeLogged, BridgeKnows,
    Bridges, Runs
<1> QED  BY <1>1, <1>2, <1>3, <1>4 DEF BridgeOK

LEMMA TellsClient ==
  ASSUME NEW b, NEW l, BridgeOK(b, l), b.pc \in {"tell_client", "refuse"}, b.client # "gone",
         HasRoom(b.toClient), NEW x \in Int, x <= 0,
         NEW r, r = [b EXCEPT !.pc = "log", !.toClient = Append(@, x)]
  PROVE  BridgeOK(r, l) /\ (Runs(r) <=> Runs(b))
<1>0. b \in Bridges /\ BridgeFlows(b) /\ BridgeKnows(b) /\ BridgeLogged(b, l)  BY DEF BridgeOK
<1>1. Append(b.toClient, x) \in Seq(Int) /\ Len(Append(b.toClient, x)) = Len(b.toClient) + 1
      /\ x \in Int
  BY <1>0, <1>0 DEF Bridges
<1>2. b.client # "gone" => Flows(b.readDown, Append(b.toClient, x), {}, b.fromUpstream, b.sentDown)
  BY <1>0, FlowSendOther DEF BridgeFlows, Runs, Hand, Bridges
<1>3. r \in Bridges  BY <1>0, <1>1, <1>2 DEF Bridges, BridgeSteps, Ends
<1>4. BridgeFlows(r)
  BY <1>0, <1>1, <1>2 DEF BridgeFlows, Runs, Hand, Bridges
<1>5. BridgeKnows(r)
  <2>1. /\ r.pc = "log" /\ r.clean = b.clean /\ r.connected = b.connected
        /\ r.client = b.client /\ r.upstream = b.upstream /\ r.fromClient = b.fromClient
        /\ r.fromUpstream = b.fromUpstream /\ r.toUpstream = b.toUpstream
        /\ r.toClient = Append(b.toClient, x) /\ Len(r.toClient) = Len(b.toClient) + 1
    BY <1>0, <1>1 DEF Bridges
  <2>2. Len(b.toClient) \in Nat /\ Len(b.toClient) < Room /\ Len(b.toUpstream) <= Room
    BY <1>0, RoomPermits DEF BridgeKnows, Bridges, HasRoom
  <2>3. Len(r.toClient) <= Room
    BY <2>1, <2>2, RoomPermits
  <2> QED BY <1>0, <2>1, <2>2, <2>3 DEF BridgeKnows
<1>6. BridgeLogged(r, l) /\ (Runs(r) <=> Runs(b))  BY <1>0, <1>1, <1>2 DEF BridgeLogged,
                                                      BridgeKnows, Bridges, Runs
<1> QED  BY <1>3, <1>4, <1>5, <1>6 DEF BridgeOK

LEMMA TellsNobodyDown ==
  ASSUME NEW b, NEW l, BridgeOK(b, l), b.pc \in {"tell_client", "refuse"}, b.client = "gone",
         NEW r, r = [b EXCEPT !.pc = "log"]
  PROVE  BridgeOK(r, l) /\ (Runs(r) <=> Runs(b))
<1>0. b \in Bridges /\ BridgeFlows(b) /\ BridgeKnows(b) /\ BridgeLogged(b, l)  BY DEF BridgeOK
<1>1. r \in Bridges  BY <1>0 DEF Bridges, BridgeSteps, Ends
<1>2. BridgeFlows(r)
  BY <1>0 DEF BridgeFlows, Runs, Hand, Bridges
<1>3. BridgeKnows(r)  BY <1>0, RoomPermits DEF BridgeKnows, Bridges, HasRoom, Close, Abnormal,
                                               Fragment
<1>4. BridgeLogged(r, l) /\ (Runs(r) <=> Runs(b))  BY <1>0 DEF BridgeLogged, BridgeKnows,
    Bridges, Runs
<1> QED  BY <1>1, <1>2, <1>3, <1>4 DEF BridgeOK

LEMMA ClientSendsFrame ==
  ASSUME NEW b, NEW l, BridgeOK(b, l), Runs(b), b.client = "here", NEW x \in Int, x = b.sentUp + 1,
         NEW r, r = [b EXCEPT !.sentUp = x, !.fromClient = Append(@, x)]
  PROVE  BridgeOK(r, l) /\ (Runs(r) <=> Runs(b))
<1>0. b \in Bridges /\ BridgeFlows(b) /\ BridgeKnows(b) /\ BridgeLogged(b, l)  BY DEF BridgeOK
<1>1. b.sentUp \in Nat /\ x > 0 /\ x \in Nat  BY <1>0 DEF Bridges
<1>2. Append(b.fromClient, x) \in Seq(Int)
      /\ \A y : Has(Append(b.fromClient, x), y) => (Has(b.fromClient, y) \/ x = y)
  BY <1>0, HasAppend DEF Bridges
<1>3. (Runs(b) /\ b.upstream # "gone") => Flows(b.readUp, b.toUpstream, Hand(b, "send_up"), b.fromClient, b.sentUp)
  BY <1>0 DEF BridgeFlows
<1>4. (Runs(b) /\ b.upstream # "gone") =>
        Flows(b.readUp, b.toUpstream, Hand(b, "send_up"), Append(b.fromClient, x), x)
  BY <1>0, <1>1, <1>3, FlowSend DEF Bridges
<1>5. r \in Bridges  BY <1>0, <1>1, <1>2, <1>3, <1>4 DEF Bridges, BridgeSteps, Ends
<1>6. BridgeFlows(r)
  BY <1>0, <1>1, <1>2, <1>3, <1>4 DEF BridgeFlows, Runs, Hand, Bridges
<1>7. BridgeKnows(r)
  <2>1. /\ r.pc = b.pc /\ r.clean = b.clean /\ r.held = b.held /\ r.connected = b.connected
        /\ r.toClient = b.toClient /\ r.toUpstream = b.toUpstream /\ r.upstream = b.upstream
        /\ r.client = b.client /\ r.fromUpstream = b.fromUpstream
        /\ r.fromClient = Append(b.fromClient, x)
    BY <1>0 DEF Bridges
  <2>2. /\ Has(r.fromClient, Close) => r.client = "closed"
        /\ Has(r.fromUpstream, Close) => r.upstream = "closed"
        /\ Has(r.fromUpstream, Abnormal) => r.upstream = "failed"
    BY <1>0, <1>1, <1>2, <2>1 DEF BridgeKnows, Close, Abnormal, Fragment
  <2> QED BY <1>0, <2>1, <2>2 DEF BridgeKnows
<1>8. BridgeLogged(r, l) /\ (Runs(r) <=> Runs(b))  BY <1>0, <1>1, <1>2, <1>3,
                                                      <1>4 DEF BridgeLogged, BridgeKnows,
                                                          Bridges, Runs
<1> QED  BY <1>5, <1>6, <1>7, <1>8 DEF BridgeOK

LEMMA ClientSendsOther ==
  ASSUME NEW b, NEW l, BridgeOK(b, l), Runs(b), b.client = "here", NEW x \in {Close, Fragment},
         NEW c, (x = Close /\ c = "closed") \/ (x = Fragment /\ c = "here"),
         NEW r, r = [b EXCEPT !.client = c, !.fromClient = Append(@, x)]
  PROVE  BridgeOK(r, l) /\ (Runs(r) <=> Runs(b))
<1>0. b \in Bridges /\ BridgeFlows(b) /\ BridgeKnows(b) /\ BridgeLogged(b, l)  BY DEF BridgeOK
<1>1. x \in Int /\ x <= 0  BY DEF Close, Fragment
<1>2. Append(b.fromClient, x) \in Seq(Int)
      /\ \A y : Has(Append(b.fromClient, x), y) => (Has(b.fromClient, y) \/ x = y)
  BY <1>0, <1>1, HasAppend DEF Bridges
<1>3. (Runs(b) /\ b.upstream # "gone") => Flows(b.readUp, b.toUpstream, Hand(b, "send_up"), b.fromClient, b.sentUp)
  BY <1>0 DEF BridgeFlows
<1>4. (Runs(b) /\ b.upstream # "gone") =>
        Flows(b.readUp, b.toUpstream, Hand(b, "send_up"), Append(b.fromClient, x), b.sentUp)
  BY <1>0, <1>1, <1>3, FlowSendOther DEF Bridges
<1>5. r \in Bridges  BY <1>0, <1>1, <1>2, <1>3, <1>4 DEF Bridges, BridgeSteps, Ends
<1>6. BridgeFlows(r)
  BY <1>0, <1>1, <1>2, <1>3, <1>4 DEF BridgeFlows, Runs, Hand, Bridges, Close, Abnormal, Fragment
<1>7. BridgeKnows(r)
  <2>1. /\ r.pc = b.pc /\ r.clean = b.clean /\ r.held = b.held /\ r.connected = b.connected
        /\ r.toClient = b.toClient /\ r.toUpstream = b.toUpstream /\ r.upstream = b.upstream
        /\ r.client = c /\ r.fromUpstream = b.fromUpstream
        /\ r.fromClient = Append(b.fromClient, x)
    BY <1>0 DEF Bridges
  <2>2. /\ Has(r.fromClient, Close) => r.client = "closed"
        /\ Has(r.fromUpstream, Close) => r.upstream = "closed"
        /\ Has(r.fromUpstream, Abnormal) => r.upstream = "failed"
    BY <1>0, <1>1, <1>2, <2>1 DEF BridgeKnows, Close, Abnormal, Fragment
  <2> QED BY <1>0, <2>1, <2>2 DEF BridgeKnows
<1>8. BridgeLogged(r, l) /\ (Runs(r) <=> Runs(b))  BY <1>0, <1>1, <1>2, <1>3,
                                                      <1>4 DEF BridgeLogged, BridgeKnows,
                                                          Bridges, Runs
<1> QED  BY <1>5, <1>6, <1>7, <1>8 DEF BridgeOK

LEMMA UpstreamSendsFrame ==
  ASSUME NEW b, NEW l, BridgeOK(b, l), Runs(b), b.upstream = "here", NEW x \in Int,
         x = b.sentDown + 1,
         NEW r, r = [b EXCEPT !.sentDown = x, !.fromUpstream = Append(@, x)]
  PROVE  BridgeOK(r, l) /\ (Runs(r) <=> Runs(b))
<1>0. b \in Bridges /\ BridgeFlows(b) /\ BridgeKnows(b) /\ BridgeLogged(b, l)  BY DEF BridgeOK
<1>1. b.sentDown \in Nat /\ x > 0 /\ x \in Nat  BY <1>0 DEF Bridges
<1>2. Append(b.fromUpstream, x) \in Seq(Int)
      /\ \A y : Has(Append(b.fromUpstream, x), y) => (Has(b.fromUpstream, y) \/ x = y)
  BY <1>0, HasAppend DEF Bridges
<1>3. (Runs(b) /\ b.client # "gone") => Flows(b.readDown, b.toClient, Hand(b, "send_down"), b.fromUpstream, b.sentDown)
  BY <1>0 DEF BridgeFlows
<1>4. (Runs(b) /\ b.client # "gone") =>
        Flows(b.readDown, b.toClient, Hand(b, "send_down"), Append(b.fromUpstream, x), x)
  BY <1>0, <1>1, <1>3, FlowSend DEF Bridges
<1>5. r \in Bridges  BY <1>0, <1>1, <1>2, <1>3, <1>4 DEF Bridges, BridgeSteps, Ends
<1>6. BridgeFlows(r)
  BY <1>0, <1>1, <1>2, <1>3, <1>4 DEF BridgeFlows, Runs, Hand, Bridges
<1>7. BridgeKnows(r)
  <2>1. /\ r.pc = b.pc /\ r.clean = b.clean /\ r.held = b.held /\ r.connected = b.connected
        /\ r.toClient = b.toClient /\ r.toUpstream = b.toUpstream /\ r.upstream = b.upstream
        /\ r.client = b.client /\ r.fromClient = b.fromClient
        /\ r.fromUpstream = Append(b.fromUpstream, x)
    BY <1>0 DEF Bridges
  <2>2. /\ Has(r.fromClient, Close) => r.client = "closed"
        /\ Has(r.fromUpstream, Close) => r.upstream = "closed"
        /\ Has(r.fromUpstream, Abnormal) => r.upstream = "failed"
    BY <1>0, <1>1, <1>2, <2>1 DEF BridgeKnows, Close, Abnormal, Fragment
  <2> QED BY <1>0, <2>1, <2>2 DEF BridgeKnows
<1>8. BridgeLogged(r, l) /\ (Runs(r) <=> Runs(b))  BY <1>0, <1>1, <1>2, <1>3,
                                                      <1>4 DEF BridgeLogged, BridgeKnows,
                                                          Bridges, Runs
<1> QED  BY <1>5, <1>6, <1>7, <1>8 DEF BridgeOK

LEMMA UpstreamSendsEnd ==
  ASSUME NEW b, NEW l, BridgeOK(b, l), Runs(b), b.upstream = "here", NEW x \in {Close, Abnormal},
         NEW r, r = [b EXCEPT !.fromUpstream = Append(@, x),
                          !.upstream = IF x = Close THEN "closed" ELSE "failed"]
  PROVE  BridgeOK(r, l) /\ (Runs(r) <=> Runs(b))
<1>0. b \in Bridges /\ BridgeFlows(b) /\ BridgeKnows(b) /\ BridgeLogged(b, l)  BY DEF BridgeOK
<1>1. x \in Int /\ x <= 0 /\ (x = Close <=> x # Abnormal)  BY DEF Close, Abnormal
<1>2. Append(b.fromUpstream, x) \in Seq(Int)
      /\ \A y : Has(Append(b.fromUpstream, x), y) => (Has(b.fromUpstream, y) \/ x = y)
  BY <1>0, <1>1, HasAppend DEF Bridges
<1>3. (Runs(b) /\ b.client # "gone") => Flows(b.readDown, b.toClient, Hand(b, "send_down"), b.fromUpstream, b.sentDown)
  BY <1>0 DEF BridgeFlows
<1>4. (Runs(b) /\ b.client # "gone") =>
        Flows(b.readDown, b.toClient, Hand(b, "send_down"), Append(b.fromUpstream, x), b.sentDown)
  BY <1>0, <1>1, <1>3, FlowSendOther DEF Bridges
<1>5. r \in Bridges  BY <1>0, <1>1, <1>2, <1>3, <1>4 DEF Bridges, BridgeSteps, Ends
<1>6. BridgeFlows(r)
  BY <1>0, <1>1, <1>2, <1>3, <1>4 DEF BridgeFlows, Runs, Hand, Bridges, Close, Abnormal, Fragment
<1>7. BridgeKnows(r)
  BY <1>0, <1>1, <1>2
  DEF BridgeKnows, Bridges, Close, Abnormal, Fragment
<1>8. BridgeLogged(r, l) /\ (Runs(r) <=> Runs(b))  BY <1>0, <1>1, <1>2, <1>3,
                                                      <1>4 DEF BridgeLogged, BridgeKnows,
                                                          Bridges, Runs
<1> QED  BY <1>5, <1>6, <1>7, <1>8 DEF BridgeOK

LEMMA ClientGoes ==
  ASSUME NEW b, NEW l, BridgeOK(b, l), Runs(b), b.client = "here",
         NEW r, r = [b EXCEPT !.client = "gone", !.toClient = <<>>]
  PROVE  BridgeOK(r, l) /\ (Runs(r) <=> Runs(b))
<1>0. b \in Bridges /\ BridgeFlows(b) /\ BridgeKnows(b) /\ BridgeLogged(b, l)  BY DEF BridgeOK
<1>1. <<>> \in Seq(Int) /\ Len(<<>>) = 0  OBVIOUS
<1>2. r \in Bridges  BY <1>0, <1>1 DEF Bridges, BridgeSteps, Ends
<1>3. BridgeFlows(r)
  BY <1>0, <1>1 DEF BridgeFlows, Runs, Hand, Bridges
<1>4. BridgeKnows(r)  BY <1>0, <1>1, RoomPermits DEF BridgeKnows, Bridges, HasRoom, Close,
                                                     Abnormal, Fragment
<1>5. BridgeLogged(r, l) /\ (Runs(r) <=> Runs(b))  BY <1>0, <1>1 DEF BridgeLogged, BridgeKnows,
                                                      Bridges, Runs
<1> QED  BY <1>2, <1>3, <1>4, <1>5 DEF BridgeOK

LEMMA UpstreamGoes ==
  ASSUME NEW b, NEW l, BridgeOK(b, l), Runs(b), b.upstream = "here",
         NEW r, r = [b EXCEPT !.upstream = "gone", !.toUpstream = <<>>]
  PROVE  BridgeOK(r, l) /\ (Runs(r) <=> Runs(b))
<1>0. b \in Bridges /\ BridgeFlows(b) /\ BridgeKnows(b) /\ BridgeLogged(b, l)  BY DEF BridgeOK
<1>1. <<>> \in Seq(Int) /\ Len(<<>>) = 0  OBVIOUS
<1>2. r \in Bridges  BY <1>0, <1>1 DEF Bridges, BridgeSteps, Ends
<1>3. BridgeFlows(r)
  BY <1>0, <1>1 DEF BridgeFlows, Runs, Hand, Bridges
<1>4. BridgeKnows(r)  BY <1>0, <1>1, RoomPermits DEF BridgeKnows, Bridges, HasRoom, Close,
                                                     Abnormal, Fragment
<1>5. BridgeLogged(r, l) /\ (Runs(r) <=> Runs(b))  BY <1>0, <1>1 DEF BridgeLogged, BridgeKnows,
                                                      Bridges, Runs
<1> QED  BY <1>2, <1>3, <1>4, <1>5 DEF BridgeOK

LEMMA ClientReadsOne ==
  ASSUME NEW b, NEW l, BridgeOK(b, l), b.toClient # <<>>,
         NEW r, r = [b EXCEPT !.toClient = Tail(@), !.readDown = Append(@, Head(b.toClient))]
  PROVE  BridgeOK(r, l) /\ (Runs(r) <=> Runs(b))
<1>0. b \in Bridges /\ BridgeFlows(b) /\ BridgeKnows(b) /\ BridgeLogged(b, l)  BY DEF BridgeOK
<1>1. Head(b.toClient) \in Int /\ Tail(b.toClient) \in Seq(Int) /\ Len(Tail(b.toClient)) = Len(b.toClient) - 1
      /\ Append(b.readDown, Head(b.toClient)) \in Seq(Int) /\ Len(b.toClient) \in Nat
  BY <1>0 DEF Bridges
<1>2. (Runs(b) /\ b.client # "gone") =>
        Flows(Append(b.readDown, Head(b.toClient)), Tail(b.toClient), Hand(b, "send_down"), b.fromUpstream, b.sentDown)
  BY <1>0, FlowRead DEF BridgeFlows, Bridges
<1>3. r \in Bridges  BY <1>0, <1>1, <1>2 DEF Bridges, BridgeSteps, Ends
<1>4. BridgeFlows(r)
  BY <1>0, <1>1, <1>2 DEF BridgeFlows, Runs, Hand, Bridges
<1>5. BridgeKnows(r)  BY <1>0, <1>1, <1>2, RoomPermits DEF BridgeKnows, Bridges, HasRoom, Close,
                                                           Abnormal, Fragment
<1>6. BridgeLogged(r, l) /\ (Runs(r) <=> Runs(b))  BY <1>0, <1>1, <1>2 DEF BridgeLogged,
                                                      BridgeKnows, Bridges, Runs
<1> QED  BY <1>3, <1>4, <1>5, <1>6 DEF BridgeOK

LEMMA UpstreamReadsOne ==
  ASSUME NEW b, NEW l, BridgeOK(b, l), b.toUpstream # <<>>,
         NEW r, r = [b EXCEPT !.toUpstream = Tail(@), !.readUp = Append(@, Head(b.toUpstream))]
  PROVE  BridgeOK(r, l) /\ (Runs(r) <=> Runs(b))
<1>0. b \in Bridges /\ BridgeFlows(b) /\ BridgeKnows(b) /\ BridgeLogged(b, l)  BY DEF BridgeOK
<1>1. Head(b.toUpstream) \in Int /\ Tail(b.toUpstream) \in Seq(Int) /\ Len(Tail(b.toUpstream)) = Len(b.toUpstream) - 1
      /\ Append(b.readUp, Head(b.toUpstream)) \in Seq(Int) /\ Len(b.toUpstream) \in Nat
  BY <1>0 DEF Bridges
<1>2. (Runs(b) /\ b.upstream # "gone") =>
        Flows(Append(b.readUp, Head(b.toUpstream)), Tail(b.toUpstream), Hand(b, "send_up"), b.fromClient, b.sentUp)
  BY <1>0, FlowRead DEF BridgeFlows, Bridges
<1>3. r \in Bridges  BY <1>0, <1>1, <1>2 DEF Bridges, BridgeSteps, Ends
<1>4. BridgeFlows(r)
  BY <1>0, <1>1, <1>2 DEF BridgeFlows, Runs, Hand, Bridges
<1>5. BridgeKnows(r)  BY <1>0, <1>1, <1>2, RoomPermits DEF BridgeKnows, Bridges, HasRoom, Close,
                                                           Abnormal, Fragment
<1>6. BridgeLogged(r, l) /\ (Runs(r) <=> Runs(b))  BY <1>0, <1>1, <1>2 DEF BridgeLogged,
                                                      BridgeKnows, Bridges, Runs
<1> QED  BY <1>3, <1>4, <1>5, <1>6 DEF BridgeOK

LEMMA ConnectKeeps ==
  ASSUME RealtimeInv, NEW s \in Sessions, ConnectUpstream(s)
  PROVE  RealtimeInv'
<1> PICK b : b = bridges[s]  OBVIOUS
<1>0. BridgeOK(b, sessionLog[s]) /\ b.pc = "connect"  BY DEF RealtimeInv, ConnectUpstream,
    AtBridge, Running, Runs
<1>1. PICK r :
         /\ BridgeMoves(s, r)
         /\ \/ r = [b EXCEPT !.pc = "listen", !.connected = TRUE]
            \/ r = [b EXCEPT !.pc = "refuse"]
  BY DEF ConnectUpstream, AtBridge
<1>2. BridgeOK(r, sessionLog[s]) /\ (Runs(r) <=> Runs(b))
  BY <1>0, <1>1, Connects, Refuses
<1> QED  BY <1>1, <1>2, OneBridge

LEMMA FromClientKeeps ==
  ASSUME RealtimeInv, NEW s \in Sessions, FromClient(s)
  PROVE  RealtimeInv'
<1> PICK b : b = bridges[s]  OBVIOUS
<1>0. BridgeOK(b, sessionLog[s]) /\ b.pc = "listen"  BY DEF RealtimeInv, FromClient, AtBridge,
                                                            Running, Runs
<1>1. PICK r :
         /\ BridgeMoves(s, r)
         /\ \/ b.fromClient # <<>> /\ Head(b.fromClient) = Close /\ r = [b EXCEPT 
                       !.fromClient = Tail(@), !.pc = "tell_upstream", !.clean = TRUE]
            \/ b.fromClient # <<>> /\ Head(b.fromClient) = Fragment /\ r = [b EXCEPT !.fromClient = Tail(@)]
            \/ b.fromClient # <<>> /\ Head(b.fromClient) > 0 /\ r = [b EXCEPT 
                       !.fromClient = Tail(@), !.pc = "send_up", !.held = Head(b.fromClient)]
            \/ b.client = "gone" /\ r = [b EXCEPT !.pc = "tell_upstream"]
  BY DEF FromClient, AtBridge
<1>2. BridgeOK(r, sessionLog[s]) /\ (Runs(r) <=> Runs(b))
  BY <1>0, <1>1, TakesClientClose, DropsFragment, TakesClientFrame, FindsClientGone
<1> QED  BY <1>1, <1>2, OneBridge

LEMMA FromUpstreamKeeps ==
  ASSUME RealtimeInv, NEW s \in Sessions, FromUpstream(s)
  PROVE  RealtimeInv'
<1> PICK b : b = bridges[s]  OBVIOUS
<1>0. BridgeOK(b, sessionLog[s]) /\ b.pc = "listen"  BY DEF RealtimeInv, FromUpstream, AtBridge,
                                                            Running, Runs
<1>1. PICK r :
         /\ BridgeMoves(s, r)
         /\ \/ b.fromUpstream # <<>> /\ Head(b.fromUpstream) \in {Close, Abnormal} /\ r = [b EXCEPT 
                       !.fromUpstream = Tail(@), !.pc = "tell_client", !.held = Head(b.fromUpstream),
                       !.clean = CleanClose(Head(b.fromUpstream))]
            \/ b.fromUpstream # <<>> /\ Head(b.fromUpstream) > 0 /\ r = [b EXCEPT 
                       !.fromUpstream = Tail(@), !.pc = "send_down", !.held = Head(b.fromUpstream)]
            \/ b.upstream = "gone" /\ r = [b EXCEPT !.pc = "tell_client", !.held = Abnormal]
  BY DEF FromUpstream, AtBridge
<1>2. BridgeOK(r, sessionLog[s]) /\ (Runs(r) <=> Runs(b))
  BY <1>0, <1>1, TakesUpstreamClose, TakesUpstreamFrame, FindsUpstreamGone
<1> QED  BY <1>1, <1>2, OneBridge

LEMMA SendUpKeeps ==
  ASSUME RealtimeInv, NEW s \in Sessions, SendUp(s)
  PROVE  RealtimeInv'
<1> PICK b : b = bridges[s]  OBVIOUS
<1>0. BridgeOK(b, sessionLog[s]) /\ b.pc = "send_up"  BY DEF RealtimeInv, SendUp, AtBridge,
    Running, Runs
<1>1. PICK r :
         /\ BridgeMoves(s, r)
         /\ \/ b.upstream = "gone" /\ r = [b EXCEPT !.pc = "log"]
            \/ b.upstream # "gone" /\ HasRoom(b.toUpstream) /\ r = [b EXCEPT 
                       !.pc = "listen", !.toUpstream = Append(@, b.held)]
  BY DEF SendUp, AtBridge
<1>2. BridgeOK(r, sessionLog[s]) /\ (Runs(r) <=> Runs(b))
  BY <1>0, <1>1, FailsUp, SendsUp
<1> QED  BY <1>1, <1>2, OneBridge

LEMMA SendDownKeeps ==
  ASSUME RealtimeInv, NEW s \in Sessions, SendDown(s)
  PROVE  RealtimeInv'
<1> PICK b : b = bridges[s]  OBVIOUS
<1>0. BridgeOK(b, sessionLog[s]) /\ b.pc = "send_down"  BY DEF RealtimeInv, SendDown, AtBridge,
    Running, Runs
<1>1. PICK r :
         /\ BridgeMoves(s, r)
         /\ \/ b.client = "gone" /\ r = [b EXCEPT !.pc = "log"]
            \/ b.client # "gone" /\ HasRoom(b.toClient) /\ r = [b EXCEPT 
                       !.pc = "listen", !.toClient = Append(@, b.held)]
  BY DEF SendDown, AtBridge
<1>2. BridgeOK(r, sessionLog[s]) /\ (Runs(r) <=> Runs(b))
  BY <1>0, <1>1, FailsDown, SendsDown
<1> QED  BY <1>1, <1>2, OneBridge

LEMMA TellUpstreamKeeps ==
  ASSUME RealtimeInv, NEW s \in Sessions, TellUpstream(s)
  PROVE  RealtimeInv'
<1> PICK b : b = bridges[s]  OBVIOUS
<1>0. BridgeOK(b, sessionLog[s]) /\ b.pc = "tell_upstream"  BY DEF RealtimeInv, TellUpstream,
    AtBridge
<1>1. PICK r : BridgeMoves(s, r) /\ r = [b EXCEPT !.pc = "log", !.toUpstream =
                   IF b.upstream = "gone" THEN @ ELSE Append(@, Close)]
               /\ (b.upstream = "gone" \/ HasRoom(b.toUpstream))
  BY DEF TellUpstream
<1>2. BridgeOK(r, sessionLog[s]) /\ (Runs(r) <=> Runs(b))
  <2>1. CASE b.upstream = "gone"
    <3>1. r = [b EXCEPT !.pc = "log"]  BY <1>0, <1>1, <2>1 DEF BridgeOK, Bridges
    <3> QED  BY <1>0, <2>1, <3>1, TellsNobodyUp
  <2>2. CASE b.upstream # "gone"
    <3>1. r = [b EXCEPT !.pc = "log", !.toUpstream = Append(@, Close)]  BY <1>1, <2>2
    <3> QED  BY <1>0, <1>1, <2>2, <3>1, TellsUpstream
  <2> QED  BY <2>1, <2>2
<1> QED  BY <1>1, <1>2, OneBridge

LEMMA TellClientKeeps ==
  ASSUME RealtimeInv, NEW s \in Sessions, TellClient(s)
  PROVE  RealtimeInv'
<1> PICK b : b = bridges[s]  OBVIOUS
<1> PICK x : x = IF b.pc = "refuse" THEN Abnormal ELSE b.held  OBVIOUS
<1>0. BridgeOK(b, sessionLog[s]) /\ b.pc \in {"tell_client", "refuse"}
  BY DEF RealtimeInv, TellClient, AtBridge
<1>1. x \in Int /\ x <= 0  BY <1>0 DEF Abnormal, BridgeOK, BridgeKnows, Bridges
<1>2. PICK r : BridgeMoves(s, r) /\ r = [b EXCEPT !.pc = "log", !.toClient =
                   IF b.client = "gone" THEN @ ELSE Append(@, x)]
               /\ (b.client = "gone" \/ HasRoom(b.toClient))
  BY DEF TellClient, AtBridge
<1>3. BridgeOK(r, sessionLog[s]) /\ (Runs(r) <=> Runs(b))
  <2>1. CASE b.client = "gone"
    <3>1. r = [b EXCEPT !.pc = "log"]  BY <1>0, <1>2, <2>1 DEF BridgeOK, Bridges
    <3> QED  BY <1>0, <2>1, <3>1, TellsNobodyDown
  <2>2. CASE b.client # "gone"
    <3>1. r = [b EXCEPT !.pc = "log", !.toClient = Append(@, x)]  BY <1>2, <2>2
    <3> QED  BY <1>0, <1>1, <1>2, <2>2, <3>1, TellsClient
  <2> QED  BY <2>1, <2>2
<1> QED  BY <1>2, <1>3, OneBridge

LEMMA ClientSendsKeeps ==
  ASSUME RealtimeInv, NEW s \in Sessions, ClientSends(s)
  PROVE  RealtimeInv'
<1> PICK b : b = bridges[s]  OBVIOUS
<1>0. BridgeOK(b, sessionLog[s]) /\ Runs(b) /\ b.client = "here" /\ b.sentUp + 1 \in Int
  BY DEF RealtimeInv, ClientSends, Running, Runs, BridgeOK, Bridges
<1>1. PICK r :
         /\ BridgeMoves(s, r)
         /\ \/ r = [b EXCEPT !.sentUp = b.sentUp + 1, !.fromClient = Append(@, b.sentUp + 1)]
            \/ r = [b EXCEPT !.client = "closed", !.fromClient = Append(@, Close)]
            \/ r = [b EXCEPT !.fromClient = Append(@, Fragment)]
  BY DEF ClientSends
<1>2. CASE r = [b EXCEPT !.sentUp = b.sentUp + 1, !.fromClient = Append(@, b.sentUp + 1)]
  <2>1. BridgeOK(r, sessionLog[s]) /\ (Runs(r) <=> Runs(b))  BY <1>0, <1>2, ClientSendsFrame
  <2> QED  BY <1>1, <2>1, OneBridge
<1>3. CASE r = [b EXCEPT !.client = "closed", !.fromClient = Append(@, Close)]
  <2>1. BridgeOK(r, sessionLog[s]) /\ (Runs(r) <=> Runs(b))  BY <1>0, <1>3, ClientSendsOther
  <2> QED  BY <1>1, <2>1, OneBridge
<1>4. CASE r = [b EXCEPT !.fromClient = Append(@, Fragment)]
  <2>1. r = [b EXCEPT !.client = "here", !.fromClient = Append(@, Fragment)]
    BY <1>0, <1>4 DEF BridgeOK, Bridges
  <2>2. BridgeOK(r, sessionLog[s]) /\ (Runs(r) <=> Runs(b))  BY <1>0, <2>1, ClientSendsOther
  <2> QED  BY <1>1, <2>2, OneBridge
<1> QED  BY <1>1, <1>2, <1>3, <1>4

LEMMA UpstreamSendsKeeps ==
  ASSUME RealtimeInv, NEW s \in Sessions, UpstreamSends(s)
  PROVE  RealtimeInv'
<1> PICK b : b = bridges[s]  OBVIOUS
<1>0. BridgeOK(b, sessionLog[s]) /\ Runs(b) /\ b.upstream = "here" /\ b.sentDown + 1 \in Int
  BY DEF RealtimeInv, UpstreamSends, Running, Runs, BridgeOK, Bridges
<1>1. PICK r :
         /\ BridgeMoves(s, r)
         /\ \/ r = [b EXCEPT !.sentDown = b.sentDown + 1, !.fromUpstream = Append(@, b.sentDown + 1)]
            \/ \E x \in {Close, Abnormal} :
                 r = [b EXCEPT !.fromUpstream = Append(@, x),
                               !.upstream = IF x = Close THEN "closed" ELSE "failed"]
  BY DEF UpstreamSends
<1>2. CASE r = [b EXCEPT !.sentDown = b.sentDown + 1, !.fromUpstream = Append(@, b.sentDown + 1)]
  <2>1. BridgeOK(r, sessionLog[s]) /\ (Runs(r) <=> Runs(b))  BY <1>0, <1>2, UpstreamSendsFrame
  <2> QED  BY <1>1, <2>1, OneBridge
<1>3. ASSUME NEW x \in {Close, Abnormal},
             r = [b EXCEPT !.fromUpstream = Append(@, x),
                           !.upstream = IF x = Close THEN "closed" ELSE "failed"]
      PROVE  RealtimeInv'
  <2>1. BridgeOK(r, sessionLog[s]) /\ (Runs(r) <=> Runs(b))  BY <1>0, <1>3, UpstreamSendsEnd
  <2> QED  BY <1>1, <2>1, OneBridge
<1> QED  BY <1>1, <1>2, <1>3

LEMMA ClientVanishesKeeps ==
  ASSUME RealtimeInv, NEW s \in Sessions, ClientVanishes(s)
  PROVE  RealtimeInv'
<1> PICK b : b = bridges[s]  OBVIOUS
<1>0. BridgeOK(b, sessionLog[s]) /\ Runs(b) /\ b.client = "here"  BY DEF RealtimeInv,
    ClientVanishes, AtBridge, Running, Runs
<1>1. PICK r :
         /\ BridgeMoves(s, r)
         /\ r = [b EXCEPT !.client = "gone", !.toClient = <<>>]
  BY DEF ClientVanishes, AtBridge
<1>2. BridgeOK(r, sessionLog[s]) /\ (Runs(r) <=> Runs(b))
  BY <1>0, <1>1, ClientGoes
<1> QED  BY <1>1, <1>2, OneBridge

LEMMA UpstreamVanishesKeeps ==
  ASSUME RealtimeInv, NEW s \in Sessions, UpstreamVanishes(s)
  PROVE  RealtimeInv'
<1> PICK b : b = bridges[s]  OBVIOUS
<1>0. BridgeOK(b, sessionLog[s]) /\ Runs(b) /\ b.upstream = "here"  BY DEF RealtimeInv,
    UpstreamVanishes, AtBridge, Running, Runs
<1>1. PICK r :
         /\ BridgeMoves(s, r)
         /\ r = [b EXCEPT !.upstream = "gone", !.toUpstream = <<>>]
  BY DEF UpstreamVanishes, AtBridge
<1>2. BridgeOK(r, sessionLog[s]) /\ (Runs(r) <=> Runs(b))
  BY <1>0, <1>1, UpstreamGoes
<1> QED  BY <1>1, <1>2, OneBridge

LEMMA ClientReadsKeeps ==
  ASSUME RealtimeInv, NEW s \in Sessions, ClientReads(s)
  PROVE  RealtimeInv'
<1> PICK b : b = bridges[s]  OBVIOUS
<1>0. BridgeOK(b, sessionLog[s]) /\ b.toClient # <<>>  BY DEF RealtimeInv, ClientReads, AtBridge,
    Running, Runs
<1>1. PICK r :
         /\ BridgeMoves(s, r)
         /\ r = [b EXCEPT 
                       !.toClient = Tail(@), !.readDown = Append(@, Head(b.toClient))]
  BY DEF ClientReads, AtBridge
<1>2. BridgeOK(r, sessionLog[s]) /\ (Runs(r) <=> Runs(b))
  BY <1>0, <1>1, ClientReadsOne
<1> QED  BY <1>1, <1>2, OneBridge

LEMMA UpstreamReadsKeeps ==
  ASSUME RealtimeInv, NEW s \in Sessions, UpstreamReads(s)
  PROVE  RealtimeInv'
<1> PICK b : b = bridges[s]  OBVIOUS
<1>0. BridgeOK(b, sessionLog[s]) /\ b.toUpstream # <<>>  BY DEF RealtimeInv, UpstreamReads,
    AtBridge, Running, Runs
<1>1. PICK r :
         /\ BridgeMoves(s, r)
         /\ r = [b EXCEPT 
                       !.toUpstream = Tail(@), !.readUp = Append(@, Head(b.toUpstream))]
  BY DEF UpstreamReads, AtBridge
<1>2. BridgeOK(r, sessionLog[s]) /\ (Runs(r) <=> Runs(b))
  BY <1>0, <1>1, UpstreamReadsOne
<1> QED  BY <1>1, <1>2, OneBridge

LEMMA NoSessionFits == NoSession \in Bridges
<1>1. <<>> \in Seq(Int)  OBVIOUS
<1> QED  BY <1>1 DEF Bridges, NoSession, BridgeSteps, Ends

LEMMA NewSession ==
  ASSUME NEW r, r = [NoSession EXCEPT !.pc = "connect"]
  PROVE  BridgeOK(r, <<>>) /\ Runs(r)
<1>1. r \in Bridges  BY NoSessionFits DEF Bridges, BridgeSteps
<1>2. BridgeFlows(r)  BY FlowStarts DEF BridgeFlows, Runs, Hand, NoSession
<1>3. BridgeKnows(r)  BY RoomPermits DEF BridgeKnows, NoSession, Has, Close, Abnormal
<1>4. BridgeLogged(r, <<>>) /\ Runs(r)  BY DEF BridgeLogged, Runs, NoSession
<1> QED  BY <1>1, <1>2, <1>3, <1>4 DEF BridgeOK

LEMMA EndedSession ==
  ASSUME NEW r \in Bridges, NEW l, BridgeLogged(r, l), r.pc = "done", ~r.clean,
         r.fromClient = <<>>, r.fromUpstream = <<>>, r.toClient = <<>>, r.toUpstream = <<>>
  PROVE  BridgeOK(r, l) /\ ~Runs(r)
<1>1. BridgeFlows(r) /\ ~Runs(r)  BY DEF BridgeFlows, Runs
<1>2. BridgeKnows(r)  BY RoomPermits DEF BridgeKnows, Has
<1> QED  BY <1>1, <1>2 DEF BridgeOK

LEMMA OpenKeeps ==
  ASSUME RealtimeInv, NEW s \in Sessions, OpenSession(s)
  PROVE  RealtimeInv'
<1> PICK r : r = [NoSession EXCEPT !.pc = "connect"]  OBVIOUS
<1>1. /\ bridges' = [bridges EXCEPT ![s] = r] /\ free > 0 /\ free' = free - 1
      /\ sessionLog' = sessionLog /\ bridges[s].pc = "none"
  BY DEF OpenSession, AtBridge
<1>2. BridgeOK(r, sessionLog[s]) /\ Runs(r)
  <2>1. sessionLog[s] = <<>>  BY <1>1 DEF RealtimeInv, BridgeOK, BridgeLogged
  <2> QED  BY <2>1, NewSession
<1>3. DOMAIN bridges' = Sessions /\ bridges' = [t \in Sessions |-> bridges'[t]]
  BY <1>1 DEF RealtimeInv
<1>4. bridges'[s] = r /\ \A t \in Sessions \ {s} : bridges'[t] = bridges[t]
  BY <1>1 DEF RealtimeInv
<1>5. \A t \in Sessions : BridgeOK(bridges'[t], sessionLog'[t])  BY <1>1, <1>2, <1>4 DEF RealtimeInv
<1>6. {t \in Sessions : Running(t)'} = {t \in Sessions : Running(t)} \cup {s}
  BY <1>2, <1>4 DEF Running, Runs
<1>7. s \notin {t \in Sessions : Running(t)}  BY <1>1 DEF Running
<1>8. IsFiniteSet({t \in Sessions : Running(t)})  BY RoomPermits, FS_Subset
<1>9. Cardinality({t \in Sessions : Running(t)'}) = Cardinality({t \in Sessions : Running(t)}) + 1
      /\ Cardinality({t \in Sessions : Running(t)}) \in Nat
  BY <1>6, <1>7, <1>8, FS_AddElement, FS_CardinalityType
<1>10. free' \in Nat /\ PermitsBalance'  BY <1>1, <1>9, RoomPermits DEF RealtimeInv, PermitsBalance
<1> QED  BY <1>1, <1>3, <1>5, <1>10 DEF RealtimeInv

LEMMA LogKeeps ==
  ASSUME RealtimeInv, NEW s \in Sessions, LogSession(s)
  PROVE  RealtimeInv'
<1> PICK b : b = bridges[s]  OBVIOUS
<1> PICK l : l = Append(sessionLog[s], SessionStatus(b))  OBVIOUS
<1> PICK r : r = [NoSession EXCEPT !.pc = "done", !.client = b.client, !.upstream = b.upstream,
                                   !.connected = b.connected]
  OBVIOUS
<1>0. BridgeOK(b, sessionLog[s]) /\ b.pc = "log"  BY DEF RealtimeInv, LogSession, AtBridge
<1>1. /\ bridges' = [bridges EXCEPT ![s] = r] /\ free' = free + 1
      /\ sessionLog' = [sessionLog EXCEPT ![s] = l]
  BY DEF LogSession
<1>2. BridgeOK(r, l) /\ ~Runs(r)
  <2>1. b.client \in {"here", "closed", "gone"} /\ b.upstream \in Ends /\ b.connected \in BOOLEAN
        /\ b.clean \in BOOLEAN
    BY <1>0 DEF BridgeOK, Bridges
  <2>2. /\ r.client = b.client /\ r.upstream = b.upstream /\ r.connected = b.connected
        /\ r.pc = "done" /\ ~r.clean /\ r.fromClient = <<>> /\ r.fromUpstream = <<>>
        /\ r.toClient = <<>> /\ r.toUpstream = <<>>
    BY DEF NoSession
  <2>7. r \in Bridges  BY <2>1, NoSessionFits DEF Bridges, BridgeSteps
  <2>8. /\ b.clean => (b.client = "closed" \/ b.upstream = "closed")
        /\ (~b.clean /\ b.connected) => (b.client = "gone" \/ b.upstream \in {"failed", "gone"})
    BY <1>0 DEF BridgeOK, BridgeKnows
  <2>3. sessionLog[s] = <<>>  BY <1>0 DEF BridgeOK, BridgeLogged
  <2>6. l = <<SessionStatus(b)>>  BY <2>3
  <2>4. \/ SessionStatus(b) = 502 /\ ~b.connected
        \/ SessionStatus(b) = 200 /\ b.clean
        \/ SessionStatus(b) = 499 /\ ~b.clean /\ b.connected
    BY DEF SessionStatus
  <2>5. BridgeLogged(r, l)
    <3>1. CASE SessionStatus(b) = 502 /\ ~b.connected
      <4>1. l = <<502>> /\ l # <<>> /\ l # <<200>> /\ l # <<499>>  BY <2>6, <3>1
      <4> QED  BY <2>2, <3>1, <4>1 DEF BridgeLogged
    <3>2. CASE SessionStatus(b) = 200 /\ b.clean
      <4>1. l = <<200>> /\ l # <<>> /\ l # <<502>> /\ l # <<499>>  BY <2>6, <3>2
      <4>2. r.client = "closed" \/ r.upstream = "closed"  BY <2>2, <2>8, <3>2
      <4> QED  BY <2>2, <4>1, <4>2 DEF BridgeLogged
    <3>3. CASE SessionStatus(b) = 499 /\ ~b.clean /\ b.connected
      <4>1. l = <<499>> /\ l # <<>> /\ l # <<200>> /\ l # <<502>>  BY <2>6, <3>3
      <4>2. r.connected /\ (r.client = "gone" \/ r.upstream \in {"failed", "gone"})
        BY <2>2, <2>8, <3>3
      <4> QED  BY <2>2, <4>1, <4>2 DEF BridgeLogged
    <3> QED  BY <2>4, <3>1, <3>2, <3>3
  <2> QED  BY <2>2, <2>5, <2>7, EndedSession
<1>3. DOMAIN bridges' = Sessions /\ bridges' = [t \in Sessions |-> bridges'[t]]
      /\ sessionLog' = [t \in Sessions |-> sessionLog'[t]]
  BY <1>1 DEF RealtimeInv
<1>4. /\ bridges'[s] = r /\ sessionLog'[s] = l
      /\ \A t \in Sessions \ {s} : bridges'[t] = bridges[t] /\ sessionLog'[t] = sessionLog[t]
  BY <1>1 DEF RealtimeInv
<1>5. ASSUME NEW t \in Sessions PROVE BridgeOK(bridges'[t], sessionLog'[t])
  <2>1. CASE t = s  BY <1>2, <1>4, <2>1
  <2>2. CASE t # s  BY <1>4, <2>2 DEF RealtimeInv
  <2> QED  BY <2>1, <2>2
<1>6. {t \in Sessions : Running(t)'} = {t \in Sessions : Running(t)} \ {s}
  BY <1>2, <1>4 DEF Running, Runs
<1>7. s \in {t \in Sessions : Running(t)}  BY <1>0 DEF Running
<1>8. IsFiniteSet({t \in Sessions : Running(t)})  BY RoomPermits, FS_Subset
<1>9. Cardinality({t \in Sessions : Running(t)'}) = Cardinality({t \in Sessions : Running(t)}) - 1
      /\ Cardinality({t \in Sessions : Running(t)}) \in Nat
  BY <1>6, <1>7, <1>8, FS_RemoveElement, FS_CardinalityType
<1>10. free' \in Nat /\ PermitsBalance'  BY <1>1, <1>9, RoomPermits DEF RealtimeInv, PermitsBalance
<1> QED  BY <1>1, <1>3, <1>5, <1>10 DEF RealtimeInv

LEMMA RealtimeRestarts ==
  ASSUME RealtimeInv, RealtimeRestart
  PROVE  RealtimeInv'
<1>1. /\ bridges' = [s \in Sessions |-> IF Running(s) THEN [NoSession EXCEPT !.pc = "done"]
                                        ELSE bridges[s]]
      /\ free' = Permits /\ sessionLog' = sessionLog
  BY DEF RealtimeRestart
<1>2. ASSUME NEW s \in Sessions PROVE BridgeOK(bridges'[s], sessionLog'[s]) /\ ~Runs(bridges'[s])
  <2>1. CASE Running(s)
    <3> PICK r : r = [NoSession EXCEPT !.pc = "done"]  OBVIOUS
    <3>1. bridges'[s] = r  BY <1>1, <2>1
    <3>2. sessionLog'[s] = <<>>  BY <1>1, <2>1 DEF RealtimeInv, BridgeOK, BridgeLogged, Running
    <3>3. r \in Bridges  BY NoSessionFits DEF Bridges, BridgeSteps
    <3>4. /\ r.pc = "done" /\ ~r.clean /\ r.fromClient = <<>> /\ r.fromUpstream = <<>>
          /\ r.toClient = <<>> /\ r.toUpstream = <<>>
      BY DEF NoSession
    <3>5. BridgeLogged(r, <<>>)  BY DEF BridgeLogged
    <3> QED  BY <3>1, <3>2, <3>3, <3>4, <3>5, EndedSession
  <2>2. CASE ~Running(s)
    <3>1. bridges'[s] = bridges[s] /\ sessionLog'[s] = sessionLog[s]  BY <1>1, <2>2
    <3> QED  BY <2>2, <3>1 DEF RealtimeInv, Running, Runs
  <2> QED  BY <2>1, <2>2
<1>3. {t \in Sessions : Running(t)'} = {}  BY <1>2 DEF Running, Runs
<1>4. PermitsBalance'  BY <1>1, <1>3, FS_EmptySet, RoomPermits DEF PermitsBalance
<1>5. DOMAIN bridges' = Sessions /\ bridges' = [t \in Sessions |-> bridges'[t]]  BY <1>1
<1> QED  BY <1>1, <1>2, <1>4, <1>5, RoomPermits DEF RealtimeInv

\* Every step of a session, and a restart, keeps it.
LEMMA RealtimeContinues == RealtimeInv /\ [RealtimeNext \/ RealtimeRestart]_realtimeVars => RealtimeInv'
<1> SUFFICES ASSUME RealtimeInv, [RealtimeNext \/ RealtimeRestart]_realtimeVars PROVE RealtimeInv'
  OBVIOUS
<1>1. CASE RealtimeRestart  BY <1>1, RealtimeRestarts
<1>2. CASE UNCHANGED realtimeVars
  BY <1>2 DEF RealtimeInv, realtimeVars, PermitsBalance, Running
<1>3. ASSUME NEW s \in Sessions,
             OpenSession(s) \/ ConnectUpstream(s) \/ Bridge(s) \/ Peers(s) \/ Reads(s)
      PROVE  RealtimeInv'
  <2>1. OpenSession(s) \/ ConnectUpstream(s) => RealtimeInv'  BY OpenKeeps, ConnectKeeps
  <2>2. Bridge(s) => RealtimeInv'
    BY FromClientKeeps, FromUpstreamKeeps, SendUpKeeps, SendDownKeeps, TellUpstreamKeeps,
       TellClientKeeps, LogKeeps DEF Bridge
  <2>3. Peers(s) => RealtimeInv'
    BY ClientSendsKeeps, UpstreamSendsKeeps, ClientVanishesKeeps, UpstreamVanishesKeeps DEF Peers
  <2>4. Reads(s) => RealtimeInv'  BY ClientReadsKeeps, UpstreamReadsKeeps DEF Reads
  <2> QED  BY <1>3, <2>1, <2>2, <2>3, <2>4
<1> QED  BY <1>1, <1>2, <1>3 DEF RealtimeNext

\* What the invariant of the sessions says of the properties.
LEMMA RealtimeInvShows ==
  RealtimeInv => RealtimeTypeOK /\ PermitsBalance /\ NoFrameIsLost /\ SessionsAreLoggedAsTheyEnd
<1> SUFFICES ASSUME RealtimeInv
             PROVE  RealtimeTypeOK /\ PermitsBalance /\ NoFrameIsLost /\ SessionsAreLoggedAsTheyEnd
  OBVIOUS
<1>1. RealtimeTypeOK
  <2>1. IsFiniteSet({t \in Sessions : Running(t)})  BY RoomPermits, FS_Subset
  <2>2. Cardinality({t \in Sessions : Running(t)}) \in Nat  BY <2>1, FS_CardinalityType
  <2>3. free \in 0..Permits  BY <2>2, RoomPermits DEF RealtimeInv, PermitsBalance
  <2>4. ASSUME NEW s \in Sessions
        PROVE  /\ DOMAIN bridges[s] = DOMAIN NoSession
               /\ {bridges[s].client, bridges[s].upstream} \subseteq Ends
               /\ Len(bridges[s].toClient) <= Room /\ Len(bridges[s].toUpstream) <= Room
    <3> PICK b : b = bridges[s]  OBVIOUS
    <3>1. b \in Bridges /\ BridgeKnows(b)  BY DEF RealtimeInv, BridgeOK
    <3>2. DOMAIN b = DOMAIN NoSession  BY <3>1 DEF Bridges, NoSession
    <3>3. b.client \in Ends /\ b.upstream \in Ends  BY <3>1 DEF Bridges, Ends
    <3>4. Len(b.toClient) <= Room /\ Len(b.toUpstream) <= Room  BY <3>1 DEF BridgeKnows
    <3> QED  BY <3>2, <3>3, <3>4
  <2> QED  BY <2>3, <2>4 DEF RealtimeTypeOK
<1>2. NoFrameIsLost
  <2> SUFFICES ASSUME NEW s \in Sessions, Running(s)
               PROVE  LET b == bridges[s] IN
                 /\ b.upstream # "gone" =>
                      CountUp(b.readUp \o b.toUpstream \o InHand(s, "send_up") \o b.fromClient, b.sentUp)
                 /\ b.client # "gone" =>
                      CountUp(b.readDown \o b.toClient \o InHand(s, "send_down") \o b.fromUpstream,
                              b.sentDown)
    BY DEF NoFrameIsLost
  <2> PICK b : b = bridges[s]  OBVIOUS
  <2>1. b \in Bridges /\ BridgeFlows(b) /\ BridgeKnows(b) /\ Runs(b)
    BY DEF RealtimeInv, BridgeOK, Running, Runs
  <2>2. ASSUME NEW pc \in {"send_up", "send_down"}
        PROVE  InHand(s, pc) \in Seq(Int) /\ Rising(InHand(s, pc)) /\ Frames(InHand(s, pc)) = Hand(b, pc)
    <3>1. CASE b.pc = pc
      <4>1. InHand(s, pc) = <<b.held>> /\ b.held \in Int /\ b.held > 0
        BY <2>1, <3>1 DEF InHand, AtBridge, Bridges, BridgeKnows
      <4>2. Frames(<<b.held>>) = {b.held} /\ Rising(<<b.held>>)  BY <4>1 DEF Frames, Rising
      <4> QED  BY <3>1, <4>1, <4>2 DEF Hand
    <3>2. CASE b.pc # pc
      <4>1. InHand(s, pc) = <<>>  BY <3>2 DEF InHand, AtBridge
      <4> QED  BY <3>2, <4>1 DEF Hand, Frames, Rising
    <3> QED  BY <3>1, <3>2
  <2>3. b.upstream # "gone" =>
          CountUp(b.readUp \o b.toUpstream \o InHand(s, "send_up") \o b.fromClient, b.sentUp)
    BY <2>1, <2>2, FlowCounts DEF BridgeFlows, Bridges
  <2>4. b.client # "gone" =>
          CountUp(b.readDown \o b.toClient \o InHand(s, "send_down") \o b.fromUpstream, b.sentDown)
    BY <2>1, <2>2, FlowCounts DEF BridgeFlows, Bridges
  <2> QED  BY <2>3, <2>4
<1>3. SessionsAreLoggedAsTheyEnd
  <2> SUFFICES ASSUME NEW s \in Sessions
               PROVE  LET b == bridges[s] IN
                 /\ Running(s) => sessionLog[s] = <<>>
                 /\ Len(sessionLog[s]) <= 1
                 /\ sessionLog[s] = <<200>> => b.client = "closed" \/ b.upstream = "closed"
                 /\ sessionLog[s] = <<499>> => b.connected /\ (b.client = "gone" \/ b.upstream \in {"failed", "gone"})
                 /\ sessionLog[s] = <<502>> => ~b.connected
    BY DEF SessionsAreLoggedAsTheyEnd
  <2>1. BridgeLogged(bridges[s], sessionLog[s])  BY DEF RealtimeInv, BridgeOK
  <2>2. Len(sessionLog[s]) <= 1
    <3> PICK l : l = sessionLog[s]  OBVIOUS
    <3>1. l = <<>> \/ \E x \in Int : l = <<x>>  BY <2>1 DEF BridgeLogged
    <3>2. CASE l = <<>>  BY <3>2
    <3>3. ASSUME NEW x \in Int, l = <<x>> PROVE Len(l) <= 1  BY <3>3
    <3> QED  BY <3>1, <3>2, <3>3
  <2> QED  BY <2>1, <2>2 DEF BridgeLogged, Running
<1> QED  BY <1>1, <1>2, <1>3 DEF RealtimeInv

-----------------------------------------------------------------------------
(***************************************************************************)
(* The settings: what a handler of each kind has still to do, what it may  *)
(* have in hand, and what one that runs by itself has brought about so far.*)
(***************************************************************************)

Keys        == MasterKeys \cup {NoKey}
Values      == SettingValues \cup {0}
Credentials == [secret : Secrets, seals : {Plain} \cup {<<k>> : k \in MasterKeys}]
Rows        == [copies : Nat \ {0}, credential : Credentials]
AnyRow      == Rows \cup {NoRow}
OneForm(form) == form = <<form[1]>> /\ form[1] \in Credentials

TaskFields == {"todo", "op", "writes", "reload", "got", "listed", "name", "secret", "form",
               "newKey", "crossed", "result"}

\* What a handler of each kind has still to do.
SetTodo    == {<<"write">>, <<"write", "read", "store">>, <<"read", "store">>, <<"store">>}
KeyTodo    == {<<"write_key", "read_key", "store_key", "list", "publish">>,
               <<"read_key", "store_key", "list", "publish">>, <<"store_key", "list", "publish">>,
               <<"list", "publish">>, <<"publish">>}
EditTodo   == {<<"form", "find", "save", "list", "publish">>, <<"find", "save", "list", "publish">>,
               <<"save", "list", "publish">>, <<"list", "publish">>, <<"publish">>}
ReloadTodo == {<<"list", "publish", "read", "store", "read", "store">>,
               <<"publish", "read", "store", "read", "store">>, <<"read", "store", "read", "store">>,
               <<"store", "read", "store">>, <<"read", "store">>, <<"store">>}
WriteTodo  == {<<"write", "list", "publish", "read", "store", "read", "store">>} \cup ReloadTodo
ReplaceTodo == {<<"replace", "keys", "write", "list", "publish", "read", "store", "read", "store">>,
                <<"keys", "write", "list", "publish", "read", "store", "read", "store">>} \cup WriteTodo
MergeTodo  == {<<"names", "create", "restore", "write", "list", "publish", "read", "store", "read", "store">>,
               <<"create", "restore", "write", "list", "publish", "read", "store", "read", "store">>,
               <<"restore", "write", "list", "publish", "read", "store", "read", "store">>} \cup WriteTodo

Left(t) == Len(t.todo)
StepOf(t) == Head(t.todo)

Listing(rows) == {<<n, rows[n]>> : n \in ChannelNames}
Listed(t) == \E rows \in [ChannelNames -> AnyRow] : t.listed = Listing(rows)

WritesFit(w) ==
  /\ DOMAIN w \subseteq SettingNames
  /\ \A n \in DOMAIN w : w[n] \in SettingValues \cup {Unset}
  /\ "webhook" \in DOMAIN w <=> "retest" \in DOMAIN w
  /\ "webhook" \in DOMAIN w => w["webhook"] = w["retest"]

SetFits(t) ==
  /\ t.todo \in SetTodo /\ WritesFit(t.writes)
  /\ \/ t.todo = <<"write">> /\ DOMAIN t.writes \cap Copied = {}
     \/ /\ t.todo # <<"write">>
        /\ \E n \in Copied : t.reload = <<n>> /\ DOMAIN t.writes \cap Copied = {n}
  /\ StepOf(t) = "store" => t.got \in Values

KeyFits(t) ==
  /\ t.todo \in KeyTodo /\ DOMAIN t.writes = {} /\ t.newKey \in Keys
  /\ Left(t) = 1 => Listed(t)

EditFits(t) ==
  /\ t.todo \in EditTodo /\ DOMAIN t.writes = {} /\ t.name \in ChannelNames
  /\ t.secret \in Secrets \cup {"none"}
  /\ Left(t) \in {3, 4} => OneForm(t.form)
  /\ (Left(t) = 3 /\ ~rotated) => t.form[1].seals = Plain
  /\ Left(t) = 1 => Listed(t)

ImportFits(t) ==
  /\ \/ t.name = "replace" /\ t.todo \in ReplaceTodo
     \/ t.name = "merge" /\ t.todo \in MergeTodo
  /\ t.writes = ImportWrites
  /\ t.reload = IF Left(t) < 3 THEN <<"pricing">> ELSE <<"routing", "pricing">>
  /\ StepOf(t) = "store" => t.got \in Values
  /\ Left(t) = 5 => Listed(t)
  /\ (Left(t) = 9 /\ t.name = "merge") => t.listed \subseteq DOMAIN Wanted

TaskFits(t) ==
  /\ DOMAIN t = TaskFields /\ t.result = "none" /\ t.crossed \in BOOLEAN /\ t.op \in given.ops
  /\ t.op \in {"set", "notify", "key", "edit", "import"}
  /\ t.op \in {"set", "notify"} => SetFits(t)
  /\ t.op = "key" => KeyFits(t)
  /\ t.op = "edit" => EditFits(t)
  /\ t.op = "import" => ImportFits(t)

\* What a handler that runs by itself has brought about so far.
RowsHold(w) == \A n \in DOMAIN w : settingRows[n] = w[n]
GotRow(t)   == t.got = Understood(Head(t.reload), settingRows[Head(t.reload)])

SetKnows(t) ==
  /\ StepOf(t) \in {"read", "store"} => RowsHold(t.writes)
  /\ StepOf(t) = "store" => GotRow(t)

KeyKnows(t) ==
  /\ Left(t) = 3 => t.newKey = keyRow
  /\ Left(t) < 3 => masterKey = keyRow
  /\ Left(t) = 1 => t.listed = Listing(OpenAll(masterKey))

EditKnows(t) ==
  /\ (Left(t) = 3 /\ t.secret = "none") => t.form[1].secret = entered[t.name]
  /\ Left(t) = 1 => t.listed = Listing(OpenAll(masterKey))

Replaced ==
  \A n \in ChannelNames :
    IF n \in DOMAIN Wanted
      THEN vault[n] # NoRow /\ vault[n].copies = 1 /\ vault[n].credential.secret = Wanted[n]
      ELSE vault[n] = NoRow
Merged == \A n \in DOMAIN Wanted : vault[n] # NoRow

ImportKnows(t) ==
  /\ Left(t) < 7 => RowsHold(t.writes)
  /\ StepOf(t) = "store" => GotRow(t)
  /\ Left(t) = 5 => t.listed = Listing(OpenAll(masterKey))
  /\ Left(t) < 5 => opened = OpenAll(masterKey)
  /\ Left(t) < 3 => copy["routing"] = Understood("routing", settingRows["routing"])
  /\ (t.name = "replace" /\ Left(t) < 9) => Replaced
  /\ (t.name = "replace" /\ Left(t) < 8) => callerRows = given.document.keys
  /\ (t.name = "merge" /\ Left(t) = 9) =>
       \A n \in DOMAIN Wanted : n \in t.listed <=> vault[n] = NoRow
  /\ (t.name = "merge" /\ Left(t) < 9) => Merged
  /\ (t.name = "merge" /\ Left(t) < 8) => given.document.keys \subseteq callerRows

TaskKnows(t) ==
  /\ t.op \in {"set", "notify"} => SetKnows(t)
  /\ t.op = "key" => KeyKnows(t)
  /\ t.op = "edit" => EditKnows(t)
  /\ t.op = "import" => ImportKnows(t)

Idle(t) == t.todo = <<>> /\ DOMAIN t = TaskFields

TablesFit ==
  /\ given \in Cases /\ up \in BOOLEAN /\ rotated \in BOOLEAN
  /\ settingRows \in [SettingNames -> SettingValues \cup {Unset, Unreadable}]
  /\ keyRow \in Keys /\ masterKey \in Keys
  /\ vault \in [ChannelNames -> AnyRow] /\ opened \in [ChannelNames -> AnyRow]
  /\ entered \in [ChannelNames -> Secrets]
  /\ callerRows \subseteq CallerKeys
  /\ DOMAIN copy = Copied /\ (up => copy \in [Copied -> Values])
  /\ NothingIsHalfWritten

\* Nobody works on a gateway that did not start.
StartFits == ~up => /\ \A e \in Editors : ~Busy(e)
                    /\ \E n \in Strict : settingRows[n] = Unreadable

CredentialsFit ==
  \A n \in ChannelNames : vault[n] # NoRow =>
    /\ vault[n].credential.secret = entered[n]
    /\ ~rotated => vault[n].credential.seals \in {Plain, <<masterKey>>}

HandlersFit ==
  /\ DOMAIN editors = Editors
  /\ \A e \in Editors : Idle(editors[e]) \/ TaskFits(editors[e])
  /\ \A e, f \in Editors : (e # f /\ Busy(e) /\ Busy(f)) => editors[e].crossed
  /\ \A e \in Editors : (Busy(e) /\ ~editors[e].crossed) => TaskKnows(editors[e])

SettingsInv == TablesFit /\ StartFits /\ CredentialsFit /\ HandlersFit

\* The values, keys and cases.
LEMMA SettingsConstants ==
  /\ SettingValues \subseteq Nat /\ NoKey \notin MasterKeys /\ Secrets # {} /\ Cases \subseteq Case
BY SettingsAssumption, FS_EmptySet

\* What a case gives.
LEMMA CaseFits ==
  ASSUME given \in Cases
  PROVE  /\ DOMAIN Wanted \subseteq ChannelNames /\ \A n \in DOMAIN Wanted : Wanted[n] \in Secrets
         /\ DOMAIN ImportWrites = {"routing", "retention", "pricing"}
         /\ \A n \in {"routing", "retention", "pricing"} : ImportWrites[n] \in SettingValues
         /\ given.document.keys \subseteq CallerKeys /\ given.callers \subseteq CallerKeys
         /\ given.channels \subseteq ChannelNames /\ given.broken \subseteq SettingNames
         /\ given.explicit \in Keys
<1>1. given \in Case  BY SettingsConstants
<1>2. given.document \in Document  BY <1>1 DEF Case
<1>3. PICK C \in SUBSET ChannelNames : Wanted \in [C -> Secrets]  BY <1>2 DEF Document, Wanted
<1>4. ImportWrites \in [{"routing", "retention", "pricing"} -> SettingValues]
  BY <1>2 DEF Document, ImportWrites
<1>5. given.document.keys \subseteq CallerKeys  BY <1>2 DEF Document
<1>6. /\ given.callers \subseteq CallerKeys /\ given.channels \subseteq ChannelNames
      /\ given.broken \subseteq SettingNames /\ given.explicit \in Keys
  BY <1>1 DEF Case, Keys
<1> QED  BY <1>3, <1>4, <1>5, <1>6

\* The steps of a setter, from the first to the last.
LEMMA SetProgram ==
  ASSUME NEW q \in SetTodo
  PROVE  /\ q # <<>>
         /\ Head(q) \in {"write", "read", "store"}
         /\ Head(q) = "store" <=> (Len(q) = 1 /\ q # <<"write">>)
         /\ Len(q) > 1 => Tail(q) \in SetTodo \ {<<"write">>} /\ q # <<"write">>
         /\ Head(q) = "write" <=> q \in {<<"write">>, <<"write", "read", "store">>}
         /\ Head(q) = "read" => Head(Tail(q)) = "store"
         /\ (Head(q) = "write" /\ Len(q) > 1) => Head(Tail(q)) = "read"
<1>1. CASE q = <<"write">>
  <2>1. Head(q) = "write" /\ Len(q) = 1 /\ q # <<>>  BY <1>1
  <2> QED  BY <1>1, <2>1 DEF SetTodo
<1>2. CASE q = <<"write", "read", "store">>
  <2> PICK r : r = Tail(q)  OBVIOUS
  <2>1. r = <<"read", "store">>  BY <1>2
  <2>2. Head(q) = "write" /\ Len(q) = 3 /\ q # <<>> /\ q # <<"write">>  BY <1>2
  <2>3. Len(<<"read", "store">>) = 2 /\ Head(<<"read", "store">>) = "read" /\ <<"read", "store">> # <<"write">>  OBVIOUS
  <2> QED  BY <1>2, <2>1, <2>2, <2>3 DEF SetTodo
<1>3. CASE q = <<"read", "store">>
  <2> PICK r : r = Tail(q)  OBVIOUS
  <2>1. r = <<"store">>  BY <1>3
  <2>2. Head(q) = "read" /\ Len(q) = 2 /\ q # <<>> /\ q # <<"write">>  BY <1>3
  <2>3. Len(<<"store">>) = 1 /\ Head(<<"store">>) = "store" /\ <<"store">> # <<"write">>  OBVIOUS
  <2> QED  BY <1>3, <2>1, <2>2, <2>3 DEF SetTodo
<1>4. CASE q = <<"store">>
  <2>1. Head(q) = "store" /\ Len(q) = 1 /\ q # <<>>  BY <1>4
  <2> QED  BY <1>4, <2>1 DEF SetTodo
<1> QED  BY <1>1, <1>2, <1>3, <1>4 DEF SetTodo

\* The steps of a change of the master key.
LEMMA KeyProgram ==
  ASSUME NEW q \in KeyTodo
  PROVE  /\ q # <<>> /\ Len(q) \in 1..5
         /\ Len(q) > 1 => Tail(q) \in KeyTodo /\ Len(Tail(q)) = Len(q) - 1
         /\ Head(q) = "write_key" <=> Len(q) = 5
         /\ Head(q) = "read_key" <=> Len(q) = 4
         /\ Head(q) = "store_key" <=> Len(q) = 3
         /\ Head(q) = "list" <=> Len(q) = 2
         /\ Head(q) = "publish" <=> Len(q) = 1
<1>1. CASE q = <<"write_key", "read_key", "store_key", "list", "publish">>
  <2> PICK r : r = Tail(q)  OBVIOUS
  <2>1. r = <<"read_key", "store_key", "list", "publish">>  BY <1>1
  <2>2. Head(q) = "write_key" /\ Len(q) = 5 /\ q # <<>>  BY <1>1
  <2>3. Len(<<"read_key", "store_key", "list", "publish">>) = 4 /\ Head(<<"read_key", "store_key", "list", "publish">>) = "read_key"  OBVIOUS
  <2> QED  BY <1>1, <2>1, <2>2, <2>3 DEF KeyTodo
<1>2. CASE q = <<"read_key", "store_key", "list", "publish">>
  <2> PICK r : r = Tail(q)  OBVIOUS
  <2>1. r = <<"store_key", "list", "publish">>  BY <1>2
  <2>2. Head(q) = "read_key" /\ Len(q) = 4 /\ q # <<>>  BY <1>2
  <2>3. Len(<<"store_key", "list", "publish">>) = 3 /\ Head(<<"store_key", "list", "publish">>) = "store_key"  OBVIOUS
  <2> QED  BY <1>2, <2>1, <2>2, <2>3 DEF KeyTodo
<1>3. CASE q = <<"store_key", "list", "publish">>
  <2> PICK r : r = Tail(q)  OBVIOUS
  <2>1. r = <<"list", "publish">>  BY <1>3
  <2>2. Head(q) = "store_key" /\ Len(q) = 3 /\ q # <<>>  BY <1>3
  <2>3. Len(<<"list", "publish">>) = 2 /\ Head(<<"list", "publish">>) = "list"  OBVIOUS
  <2> QED  BY <1>3, <2>1, <2>2, <2>3 DEF KeyTodo
<1>4. CASE q = <<"list", "publish">>
  <2> PICK r : r = Tail(q)  OBVIOUS
  <2>1. r = <<"publish">>  BY <1>4
  <2>2. Head(q) = "list" /\ Len(q) = 2 /\ q # <<>>  BY <1>4
  <2>3. Len(<<"publish">>) = 1 /\ Head(<<"publish">>) = "publish"  OBVIOUS
  <2> QED  BY <1>4, <2>1, <2>2, <2>3 DEF KeyTodo
<1>5. CASE q = <<"publish">>
  <2>1. Head(q) = "publish" /\ Len(q) = 1 /\ q # <<>>  BY <1>5
  <2> QED  BY <1>5, <2>1 DEF KeyTodo
<1> QED  BY <1>1, <1>2, <1>3, <1>4, <1>5 DEF KeyTodo

\* The steps of an edit.
LEMMA EditProgram ==
  ASSUME NEW q \in EditTodo
  PROVE  /\ q # <<>> /\ Len(q) \in 1..5
         /\ Len(q) > 1 => Tail(q) \in EditTodo /\ Len(Tail(q)) = Len(q) - 1
         /\ Head(q) = "form" <=> Len(q) = 5
         /\ Head(q) = "find" <=> Len(q) = 4
         /\ Head(q) = "save" <=> Len(q) = 3
         /\ Head(q) = "list" <=> Len(q) = 2
         /\ Head(q) = "publish" <=> Len(q) = 1
<1>1. CASE q = <<"form", "find", "save", "list", "publish">>
  <2> PICK r : r = Tail(q)  OBVIOUS
  <2>1. r = <<"find", "save", "list", "publish">>  BY <1>1
  <2>2. Head(q) = "form" /\ Len(q) = 5 /\ q # <<>>  BY <1>1
  <2>3. Len(<<"find", "save", "list", "publish">>) = 4 /\ Head(<<"find", "save", "list", "publish">>) = "find"  OBVIOUS
  <2> QED  BY <1>1, <2>1, <2>2, <2>3 DEF EditTodo
<1>2. CASE q = <<"find", "save", "list", "publish">>
  <2> PICK r : r = Tail(q)  OBVIOUS
  <2>1. r = <<"save", "list", "publish">>  BY <1>2
  <2>2. Head(q) = "find" /\ Len(q) = 4 /\ q # <<>>  BY <1>2
  <2>3. Len(<<"save", "list", "publish">>) = 3 /\ Head(<<"save", "list", "publish">>) = "save"
    OBVIOUS
  <2> QED  BY <1>2, <2>1, <2>2, <2>3 DEF EditTodo
<1>3. CASE q = <<"save", "list", "publish">>
  <2> PICK r : r = Tail(q)  OBVIOUS
  <2>1. r = <<"list", "publish">>  BY <1>3
  <2>2. Head(q) = "save" /\ Len(q) = 3 /\ q # <<>>  BY <1>3
  <2>3. Len(<<"list", "publish">>) = 2 /\ Head(<<"list", "publish">>) = "list"  OBVIOUS
  <2> QED  BY <1>3, <2>1, <2>2, <2>3 DEF EditTodo
<1>4. CASE q = <<"list", "publish">>
  <2> PICK r : r = Tail(q)  OBVIOUS
  <2>1. r = <<"publish">>  BY <1>4
  <2>2. Head(q) = "list" /\ Len(q) = 2 /\ q # <<>>  BY <1>4
  <2>3. Len(<<"publish">>) = 1 /\ Head(<<"publish">>) = "publish"  OBVIOUS
  <2> QED  BY <1>4, <2>1, <2>2, <2>3 DEF EditTodo
<1>5. CASE q = <<"publish">>
  <2>1. Head(q) = "publish" /\ Len(q) = 1 /\ q # <<>>  BY <1>5
  <2> QED  BY <1>5, <2>1 DEF EditTodo
<1> QED  BY <1>1, <1>2, <1>3, <1>4, <1>5 DEF EditTodo

\* The steps both imports end with.
LEMMA ReloadProgram ==
  ASSUME NEW q \in WriteTodo
  PROVE  /\ q # <<>> /\ Len(q) \in 1..7
         /\ Len(q) > 1 => Tail(q) \in WriteTodo /\ Len(Tail(q)) = Len(q) - 1
         /\ Head(q) = "write" <=> Len(q) = 7
         /\ Head(q) = "list" <=> Len(q) = 6
         /\ Head(q) = "publish" <=> Len(q) = 5
         /\ Head(q) = "read" <=> Len(q) \in {4, 2}
         /\ Head(q) = "store" <=> Len(q) \in {3, 1}
<1>1. CASE q = <<"write", "list", "publish", "read", "store", "read", "store">>
  <2> PICK r : r = Tail(q)  OBVIOUS
  <2>1. r = <<"list", "publish", "read", "store", "read", "store">>  BY <1>1
  <2>2. Head(q) = "write" /\ Len(q) = 7 /\ q # <<>>  BY <1>1
  <2>3. Len(<<"list", "publish", "read", "store", "read", "store">>) = 6 /\ Head(<<"list", "publish", "read", "store", "read", "store">>) = "list"  OBVIOUS
  <2> QED  BY <1>1, <2>1, <2>2, <2>3 DEF WriteTodo, ReloadTodo
<1>2. CASE q = <<"list", "publish", "read", "store", "read", "store">>
  <2> PICK r : r = Tail(q)  OBVIOUS
  <2>1. r = <<"publish", "read", "store", "read", "store">>  BY <1>2
  <2>2. Head(q) = "list" /\ Len(q) = 6 /\ q # <<>>  BY <1>2
  <2>3. Len(<<"publish", "read", "store", "read", "store">>) = 5 /\ Head(<<"publish", "read", "store", "read", "store">>) = "publish"  OBVIOUS
  <2> QED  BY <1>2, <2>1, <2>2, <2>3 DEF WriteTodo, ReloadTodo
<1>3. CASE q = <<"publish", "read", "store", "read", "store">>
  <2> PICK r : r = Tail(q)  OBVIOUS
  <2>1. r = <<"read", "store", "read", "store">>  BY <1>3
  <2>2. Head(q) = "publish" /\ Len(q) = 5 /\ q # <<>>  BY <1>3
  <2>3. Len(<<"read", "store", "read", "store">>) = 4 /\ Head(<<"read", "store", "read", "store">>) = "read"  OBVIOUS
  <2> QED  BY <1>3, <2>1, <2>2, <2>3 DEF WriteTodo, ReloadTodo
<1>4. CASE q = <<"read", "store", "read", "store">>
  <2> PICK r : r = Tail(q)  OBVIOUS
  <2>1. r = <<"store", "read", "store">>  BY <1>4
  <2>2. Head(q) = "read" /\ Len(q) = 4 /\ q # <<>>  BY <1>4
  <2>3. Len(<<"store", "read", "store">>) = 3 /\ Head(<<"store", "read", "store">>) = "store"
    OBVIOUS
  <2> QED  BY <1>4, <2>1, <2>2, <2>3 DEF WriteTodo, ReloadTodo
<1>5. CASE q = <<"store", "read", "store">>
  <2> PICK r : r = Tail(q)  OBVIOUS
  <2>1. r = <<"read", "store">>  BY <1>5
  <2>2. Head(q) = "store" /\ Len(q) = 3 /\ q # <<>>  BY <1>5
  <2>3. Len(<<"read", "store">>) = 2 /\ Head(<<"read", "store">>) = "read"  OBVIOUS
  <2> QED  BY <1>5, <2>1, <2>2, <2>3 DEF WriteTodo, ReloadTodo
<1>6. CASE q = <<"read", "store">>
  <2> PICK r : r = Tail(q)  OBVIOUS
  <2>1. r = <<"store">>  BY <1>6
  <2>2. Head(q) = "read" /\ Len(q) = 2 /\ q # <<>>  BY <1>6
  <2>3. Len(<<"store">>) = 1 /\ Head(<<"store">>) = "store"  OBVIOUS
  <2> QED  BY <1>6, <2>1, <2>2, <2>3 DEF WriteTodo, ReloadTodo
<1>7. CASE q = <<"store">>
  <2>1. Head(q) = "store" /\ Len(q) = 1 /\ q # <<>>  BY <1>7
  <2> QED  BY <1>7, <2>1 DEF WriteTodo, ReloadTodo
<1> QED  BY <1>1, <1>2, <1>3, <1>4, <1>5, <1>6, <1>7 DEF WriteTodo, ReloadTodo

\* The steps of an import that replaces.
LEMMA ReplaceProgram ==
  ASSUME NEW q \in ReplaceTodo
  PROVE  /\ q # <<>> /\ Len(q) \in 1..9
         /\ Len(q) > 1 => Tail(q) \in ReplaceTodo /\ Len(Tail(q)) = Len(q) - 1
         /\ Head(q) = "replace" <=> Len(q) = 9
         /\ Head(q) = "keys" <=> Len(q) = 8
         /\ Head(q) = "write" <=> Len(q) = 7
         /\ Head(q) = "list" <=> Len(q) = 6
         /\ Head(q) = "publish" <=> Len(q) = 5
         /\ Head(q) = "read" <=> Len(q) \in {4, 2}
         /\ Head(q) = "store" <=> Len(q) \in {3, 1}
<1>1. CASE q = <<"replace", "keys", "write", "list", "publish", "read", "store", "read", "store">>
  <2> PICK r : r = Tail(q)  OBVIOUS
  <2>1. r = <<"keys", "write", "list", "publish", "read", "store", "read", "store">>  BY <1>1
  <2>2. Head(q) = "replace" /\ Len(q) = 9 /\ q # <<>>  BY <1>1
  <2>3. Len(<<"keys", "write", "list", "publish", "read", "store", "read", "store">>) = 8  OBVIOUS
  <2> QED  BY <1>1, <2>1, <2>2, <2>3 DEF ReplaceTodo, WriteTodo
<1>2. CASE q = <<"keys", "write", "list", "publish", "read", "store", "read", "store">>
  <2> PICK r : r = Tail(q)  OBVIOUS
  <2>1. r = <<"write", "list", "publish", "read", "store", "read", "store">>  BY <1>2
  <2>2. Head(q) = "keys" /\ Len(q) = 8 /\ q # <<>>  BY <1>2
  <2>3. Len(<<"write", "list", "publish", "read", "store", "read", "store">>) = 7  OBVIOUS
  <2> QED  BY <1>2, <2>1, <2>2, <2>3 DEF ReplaceTodo, WriteTodo
<1>3. CASE q \in WriteTodo
  <2>1. q # <<>> /\ Len(q) \in 1..7 /\ (Len(q) > 1 => Tail(q) \in WriteTodo /\ Len(Tail(q)) = Len(q) - 1)
    BY <1>3, ReloadProgram
  <2>2. /\ Head(q) = "write" <=> Len(q) = 7
        /\ Head(q) = "list" <=> Len(q) = 6
        /\ Head(q) = "publish" <=> Len(q) = 5
        /\ Head(q) = "read" <=> Len(q) \in {4, 2}
        /\ Head(q) = "store" <=> Len(q) \in {3, 1}
    BY <1>3, ReloadProgram
  <2>3. Len(q) > 1 => Tail(q) \in ReplaceTodo  BY <2>1 DEF ReplaceTodo
  <2> HIDE DEF ReplaceTodo
  <2>4. Head(q) \in {"write", "list", "publish", "read", "store"}  BY <2>1, <2>2
  <2>5. Head(q) # "replace" /\ Head(q) # "keys"  BY <2>4
  <2>6. \A i \in 1..7 : i # 9 /\ i # 8 /\ i \in 1..9  OBVIOUS
  <2>7. Len(q) \in 1..7  BY <2>1
  <2> QED  BY <2>1, <2>2, <2>3, <2>5, <2>6, <2>7
<1> QED  BY <1>1, <1>2, <1>3 DEF ReplaceTodo

\* The steps of an import that merges.
LEMMA MergeProgram ==
  ASSUME NEW q \in MergeTodo
  PROVE  /\ q # <<>> /\ Len(q) \in 1..10
         /\ Len(q) > 1 => Tail(q) \in MergeTodo /\ Len(Tail(q)) = Len(q) - 1
         /\ Head(q) = "names" <=> Len(q) = 10
         /\ Head(q) = "create" <=> Len(q) = 9
         /\ Head(q) = "restore" <=> Len(q) = 8
         /\ Head(q) = "write" <=> Len(q) = 7
         /\ Head(q) = "list" <=> Len(q) = 6
         /\ Head(q) = "publish" <=> Len(q) = 5
         /\ Head(q) = "read" <=> Len(q) \in {4, 2}
         /\ Head(q) = "store" <=> Len(q) \in {3, 1}
<1>1. CASE q = <<"names", "create", "restore", "write", "list", "publish", "read", "store", "read", "store">>
  <2> PICK r : r = Tail(q)  OBVIOUS
  <2>1. r = <<"create", "restore", "write", "list", "publish", "read", "store", "read", "store">>
    BY <1>1
  <2>2. Head(q) = "names" /\ Len(q) = 10 /\ q # <<>>  BY <1>1
  <2>3. Len(<<"create", "restore", "write", "list", "publish", "read", "store", "read", "store">>) = 9  OBVIOUS
  <2> QED  BY <1>1, <2>1, <2>2, <2>3 DEF MergeTodo, WriteTodo
<1>2. CASE q = <<"create", "restore", "write", "list", "publish", "read", "store", "read", "store">>
  <2> PICK r : r = Tail(q)  OBVIOUS
  <2>1. r = <<"restore", "write", "list", "publish", "read", "store", "read", "store">>  BY <1>2
  <2>2. Head(q) = "create" /\ Len(q) = 9 /\ q # <<>>  BY <1>2
  <2>3. Len(<<"restore", "write", "list", "publish", "read", "store", "read", "store">>) = 8
    OBVIOUS
  <2> QED  BY <1>2, <2>1, <2>2, <2>3 DEF MergeTodo, WriteTodo
<1>3. CASE q = <<"restore", "write", "list", "publish", "read", "store", "read", "store">>
  <2> PICK r : r = Tail(q)  OBVIOUS
  <2>1. r = <<"write", "list", "publish", "read", "store", "read", "store">>  BY <1>3
  <2>2. Head(q) = "restore" /\ Len(q) = 8 /\ q # <<>>  BY <1>3
  <2>3. Len(<<"write", "list", "publish", "read", "store", "read", "store">>) = 7  OBVIOUS
  <2> QED  BY <1>3, <2>1, <2>2, <2>3 DEF MergeTodo, WriteTodo
<1>4. CASE q \in WriteTodo
  <2>1. q # <<>> /\ Len(q) \in 1..7 /\ (Len(q) > 1 => Tail(q) \in WriteTodo /\ Len(Tail(q)) = Len(q) - 1)
    BY <1>4, ReloadProgram
  <2>2. /\ Head(q) = "write" <=> Len(q) = 7
        /\ Head(q) = "list" <=> Len(q) = 6
        /\ Head(q) = "publish" <=> Len(q) = 5
        /\ Head(q) = "read" <=> Len(q) \in {4, 2}
        /\ Head(q) = "store" <=> Len(q) \in {3, 1}
    BY <1>4, ReloadProgram
  <2>3. Len(q) > 1 => Tail(q) \in MergeTodo  BY <2>1 DEF MergeTodo
  <2> HIDE DEF MergeTodo
  <2>4. Head(q) \in {"write", "list", "publish", "read", "store"}  BY <2>1, <2>2
  <2>5. Head(q) # "names" /\ Head(q) # "create" /\ Head(q) # "restore"  BY <2>4
  <2>6. \A i \in 1..7 : i # 10 /\ i # 9 /\ i # 8 /\ i \in 1..10  OBVIOUS
  <2>7. Len(q) \in 1..7  BY <2>1
  <2> QED  BY <2>1, <2>2, <2>3, <2>5, <2>6, <2>7
<1> QED  BY <1>1, <1>2, <1>3, <1>4 DEF MergeTodo

\* A key takes off its own seal, and changes nothing else.
LEMMA OpenFits ==
  ASSUME NEW c \in Credentials, NEW k \in Keys
  PROVE  /\ Open(c, k) \in Credentials /\ Open(c, k).secret = c.secret
         /\ Open(c, k).seals = IF c.seals = <<k>> THEN Plain ELSE c.seals
<1>1. CASE c.seals = Plain  BY <1>1 DEF Open, Plain
<1>2. ASSUME NEW j \in MasterKeys, c.seals = <<j>>
      PROVE  /\ Open(c, k) \in Credentials /\ Open(c, k).secret = c.secret
             /\ Open(c, k).seals = IF c.seals = <<k>> THEN Plain ELSE c.seals
  <2>1. c.seals # Plain  BY <1>2 DEF Plain
  <2>2. Last(c.seals) = j /\ Front(c.seals) = Plain  BY <1>2 DEF Last, Front, Plain
  <2>3. CASE j = k
    <3>1. Open(c, k) = [c EXCEPT !.seals = Plain]  BY <1>2, <2>1, <2>2, <2>3 DEF Open
    <3> QED  BY <1>2, <2>3, <3>1 DEF Credentials
  <2>4. CASE j # k
    <3>1. Open(c, k) = c /\ c.seals # <<k>>  BY <1>2, <2>1, <2>2, <2>4 DEF Open
    <3> QED  BY <3>1
  <2> QED  BY <2>3, <2>4
<1> QED  BY <1>1, <1>2 DEF Credentials

\* A seal goes on a credential without one only, and the secret stays.
LEMMA SealFits ==
  ASSUME NEW c \in Credentials, NEW k \in Keys
  PROVE  /\ Seal(c, k) \in Credentials /\ Seal(c, k).secret = c.secret
         /\ Seal(c, k).seals = IF c.seals = Plain /\ k # NoKey THEN <<k>> ELSE c.seals
<1>1. CASE c.seals = Plain /\ k # NoKey
  <2>1. Seal(c, k) = [c EXCEPT !.seals = <<k>>] /\ k \in MasterKeys  BY <1>1 DEF Seal, Keys
  <2> QED  BY <1>1, <2>1 DEF Credentials
<1>2. CASE ~(c.seals = Plain /\ k # NoKey)  BY <1>2 DEF Seal
<1> QED  BY <1>1, <1>2

\* A secret as it was entered is not sealed.
LEMMA FreshFits ==
  ASSUME NEW s \in Secrets
  PROVE  Fresh(s) \in Credentials /\ Fresh(s).secret = s /\ Fresh(s).seals = Plain
BY DEF Fresh, Credentials

\* A row of a credential.
LEMMA RowFits ==
  ASSUME NEW c \in Credentials, NEW i \in Nat \ {0}
  PROVE  /\ RowOf(c, i) \in Rows /\ RowOf(c, i) # NoRow /\ RowOf(c, i).copies = i
         /\ RowOf(c, i).credential = c
BY DEF RowOf, Rows, NoRow

\* Opened with any key, the rows are rows.
LEMMA OpenAllFits ==
  ASSUME NEW k \in Keys, vault \in [ChannelNames -> AnyRow]
  PROVE  OpenAll(k) \in [ChannelNames -> AnyRow]
<1>1. ASSUME NEW n \in ChannelNames, vault[n] # NoRow
      PROVE  RowOf(Open(vault[n].credential, k), vault[n].copies) \in Rows
  <2>1. vault[n] \in Rows  BY <1>1 DEF AnyRow
  <2>2. vault[n].credential \in Credentials /\ vault[n].copies \in Nat \ {0}  BY <2>1 DEF Rows
  <2> QED  BY <2>2, OpenFits, RowFits
<1> QED  BY <1>1 DEF OpenAll, AnyRow

\* A listing names one row for each channel: publishing it gives the rows
\* back.
LEMMA Published ==
  ASSUME NEW rows \in [ChannelNames -> AnyRow]
  PROVE  [n \in ChannelNames |-> (CHOOSE pair \in Listing(rows) : pair[1] = n)[2]] = rows
<1>1. ASSUME NEW n \in ChannelNames
      PROVE  (CHOOSE pair \in Listing(rows) : pair[1] = n)[2] = rows[n]
  <2>1. <<n, rows[n]>> \in Listing(rows) /\ <<n, rows[n]>>[1] = n  BY DEF Listing
  <2>2. \A pair \in Listing(rows) : pair[1] = n => pair[2] = rows[n]  BY DEF Listing
  <2> QED  BY <2>1, <2>2
<1> QED  BY <1>1

\* What a task may be depends on the case, and on the key being the first.
LEMMA FitsStay ==
  ASSUME NEW t, given' = given, rotated => rotated'
  PROVE  /\ SetFits(t) => SetFits(t)'
         /\ KeyFits(t) => KeyFits(t)'
         /\ EditFits(t) => EditFits(t)'
         /\ ImportFits(t) => ImportFits(t)'
<1>1. Listed(t)' <=> Listed(t)
  BY DEF Listed, Listing, AnyRow, Rows, Credentials, Plain, NoRow
<1>2. SetFits(t) => SetFits(t)'
  BY DEF SetFits, WritesFit, StepOf, SetTodo, Values, Copied, Lenient, Strict, SettingNames,
         Uncached, Unset
<1>3. KeyFits(t) => KeyFits(t)'  BY <1>1 DEF KeyFits, Left, KeyTodo, Keys, NoKey
<1>4. EditFits(t) => EditFits(t)'
  BY <1>1 DEF EditFits, Left, EditTodo, OneForm, Credentials, Plain
<1>5. ImportFits(t) => ImportFits(t)'
  BY <1>1 DEF ImportFits, Left, StepOf, ReplaceTodo, MergeTodo, WriteTodo, ReloadTodo,
              ImportWrites, Wanted, Values
<1> QED  BY <1>2, <1>3, <1>4, <1>5

\* So it lasts, while other handlers work.
LEMMA TaskStays ==
  ASSUME NEW t, given' = given, rotated => rotated', TaskFits(t)
  PROVE  TaskFits(t)'
BY FitsStay DEF TaskFits, TaskFields

\* A step of one handler that leaves it with a task that fits keeps what is
\* said of all of them.
LEMMA HandlersKept ==
  ASSUME HandlersFit, NEW e \in Editors, Busy(e), NEW r, editors' = [editors EXCEPT ![e] = r],
         given' = given, rotated => rotated',
         \/ Idle(r)
         \/ TaskFits(r)' /\ r.crossed = editors[e].crossed /\ (~r.crossed => TaskKnows(r)')
  PROVE  HandlersFit'
<1>1. DOMAIN editors = Editors /\ DOMAIN editors' = Editors /\ editors'[e] = r
  BY DEF HandlersFit
<1>2. \A f \in Editors : f # e => editors'[f] = editors[f]  BY <1>1
<1>3. ASSUME NEW f \in Editors  PROVE (Idle(editors[f]) \/ TaskFits(editors[f]))'
  <2>1. CASE f = e  BY <2>1, <1>1 DEF Idle, TaskFields, TaskFits
  <2>2. CASE f # e
    <3>1. PICK t : t = editors[f]  OBVIOUS
    <3>2. editors'[f] = t  BY <2>2, <1>2, <3>1
    <3>3. Idle(t) \/ TaskFits(t)  BY <3>1 DEF HandlersFit
    <3>4. (Idle(t) \/ TaskFits(t))'  BY <3>3, TaskStays DEF Idle, TaskFields
    <3> QED  BY <3>2, <3>4 DEF TaskFits, Idle
  <2> QED  BY <2>1, <2>2
<1>4. ASSUME NEW f \in Editors, NEW g \in Editors, f # g, Busy(f)', Busy(g)'
      PROVE  editors'[f].crossed
  <2>1. Busy(f) /\ Busy(g)  BY <1>2, <1>4 DEF Busy
  <2>2. editors[f].crossed  BY <2>1, <1>4 DEF HandlersFit
  <2>3. CASE f = e
    <3>1. ~Idle(r)  BY <1>4, <2>3, <1>1 DEF Idle, Busy
    <3> QED  BY <3>1, <2>2, <2>3, <1>1
  <2> QED  BY <2>2, <2>3, <1>2
<1>5. ASSUME NEW f \in Editors, Busy(f)', ~editors'[f].crossed  PROVE TaskKnows(editors[f])'
  <2>1. f = e
    <3> SUFFICES ASSUME f # e PROVE FALSE  OBVIOUS
    <3>1. Busy(f) /\ editors'[f] = editors[f]  BY <1>2, <1>5 DEF Busy
    <3> QED  BY <3>1, <1>5 DEF HandlersFit
  <2>2. ~Idle(r) /\ ~r.crossed  BY <2>1, <1>1, <1>5 DEF Idle, Busy
  <2> QED  BY <2>1, <2>2, <1>1 DEF TaskKnows
<1> QED  BY <1>1, <1>3, <1>4, <1>5 DEF HandlersFit, Busy

\* A task goes on to its next step.
LEMMA Tailed ==
  ASSUME NEW t, DOMAIN t = TaskFields, NEW r, r = [t EXCEPT !.todo = Tail(@)]
  PROVE  /\ DOMAIN r = TaskFields /\ r.todo = Tail(t.todo) /\ r.op = t.op /\ r.writes = t.writes
         /\ r.reload = t.reload /\ r.got = t.got /\ r.listed = t.listed /\ r.name = t.name
         /\ r.secret = t.secret /\ r.form = t.form /\ r.newKey = t.newKey
         /\ r.crossed = t.crossed /\ r.result = t.result
BY DEF TaskFields

\* A handler that has answered is idle.
LEMMA Ended ==
  ASSUME NEW w, NEW r, r = [NoEdit EXCEPT !.result = w]
  PROVE  Idle(r) /\ r.result = w
BY DEF NoEdit, Idle, TaskFields

\* A handler goes on, or answers after its last step.
LEMMA Continued ==
  ASSUME HandlersFit, NEW e \in Editors, Busy(e), NEW task, Continues(e, task),
         rotated => rotated', NEW r, r = [task EXCEPT !.todo = Tail(@)],
         Len(editors[e].todo) > 1 =>
           TaskFits(r)' /\ r.crossed = editors[e].crossed /\ (~r.crossed => TaskKnows(r)')
  PROVE  HandlersFit'
<1>1. CASE Len(editors[e].todo) > 1
  <2>1. editors' = [editors EXCEPT ![e] = r] /\ given' = given  BY <1>1 DEF Continues
  <2> QED  BY <2>1, <1>1, HandlersKept
<1>2. CASE ~(Len(editors[e].todo) > 1)
  <2>1. PICK s : s = [NoEdit EXCEPT !.result = "ok"]  OBVIOUS
  <2>2. editors' = [editors EXCEPT ![e] = s] /\ given' = given  BY <1>2, <2>1 DEF Continues
  <2>3. Idle(s)  BY <2>1, Ended
  <2> QED  BY <2>2, <2>3, HandlersKept
<1> QED  BY <1>1, <1>2

\* A failed statement ends a handler with what it has done so far.
LEMMA StopsWell ==
  ASSUME SettingsInv, NEW e \in Editors, Busy(e), GivesUp(e)
  PROVE  SettingsInv'
<1>1. PICK s : s = [NoEdit EXCEPT !.result = "error"]  OBVIOUS
<1>2. editors' = [editors EXCEPT ![e] = s]  BY <1>1 DEF GivesUp
<1>3. HandlersFit'
  BY <1>1, <1>2, Ended, HandlersKept DEF GivesUp, SettingsInv, memoryVars
<1>4. up /\ up'  BY DEF SettingsInv, StartFits, GivesUp
<1>5. TablesFit'  BY DEF GivesUp, SettingsInv, TablesFit, rowVars, memoryVars,
                         NothingIsHalfWritten, ImportWrites, AnyRow, Keys, Values, Rows, Credentials
<1>6. CredentialsFit'  BY DEF GivesUp, SettingsInv, CredentialsFit, rowVars, memoryVars, NoRow,
                              Plain
<1> QED  BY <1>3, <1>4, <1>5, <1>6 DEF SettingsInv, StartFits

After(t, r) ==
  /\ DOMAIN r = TaskFields /\ r.todo = Tail(t.todo) /\ r.op = t.op /\ r.writes = t.writes
  /\ r.name = t.name /\ r.secret = t.secret /\ r.crossed = t.crossed /\ r.result = t.result

\* Where a setter is, by the steps it has left.
LEMMA SetHeads ==
  ASSUME NEW t, SetFits(t)
  PROVE  /\ t.todo # <<>> /\ StepOf(t) \in {"write", "read", "store"}
         /\ StepOf(t) = "store" => Left(t) = 1
BY SetProgram DEF SetFits, StepOf, Left

\* Where a change of the master key is.
LEMMA KeyHeads ==
  ASSUME NEW t, KeyFits(t)
  PROVE  /\ t.todo # <<>> /\ Left(t) \in 1..5
         /\ StepOf(t) \in {"write_key", "read_key", "store_key", "list", "publish"}
         /\ StepOf(t) = "write_key" <=> Left(t) = 5
         /\ StepOf(t) = "read_key" <=> Left(t) = 4
         /\ StepOf(t) = "store_key" <=> Left(t) = 3
         /\ StepOf(t) = "list" <=> Left(t) = 2
         /\ StepOf(t) = "publish" <=> Left(t) = 1
<1> PICK q : q = t.todo  OBVIOUS
<1>1. q \in KeyTodo  BY DEF KeyFits
<1>2. Head(q) = StepOf(t) /\ Len(q) = Left(t)  BY DEF StepOf, Left
<1>3. Left(t) \in 1..5  BY <1>1, <1>2, KeyProgram
<1>4. \A i \in 1..5 : i = 1 \/ i = 2 \/ i = 3 \/ i = 4 \/ i = 5  OBVIOUS
<1> QED  BY <1>1, <1>2, <1>3, <1>4, KeyProgram

\* Where an edit is.
LEMMA EditHeads ==
  ASSUME NEW t, EditFits(t)
  PROVE  /\ t.todo # <<>> /\ Left(t) \in 1..5
         /\ StepOf(t) \in {"form", "find", "save", "list", "publish"}
         /\ StepOf(t) = "form" <=> Left(t) = 5
         /\ StepOf(t) = "find" <=> Left(t) = 4
         /\ StepOf(t) = "save" <=> Left(t) = 3
         /\ StepOf(t) = "list" <=> Left(t) = 2
         /\ StepOf(t) = "publish" <=> Left(t) = 1
<1> PICK q : q = t.todo  OBVIOUS
<1>1. q \in EditTodo  BY DEF EditFits
<1>2. Head(q) = StepOf(t) /\ Len(q) = Left(t)  BY DEF StepOf, Left
<1>3. Left(t) \in 1..5  BY <1>1, <1>2, EditProgram
<1>4. \A i \in 1..5 : i = 1 \/ i = 2 \/ i = 3 \/ i = 4 \/ i = 5  OBVIOUS
<1> QED  BY <1>1, <1>2, <1>3, <1>4, EditProgram

\* Where an import is.
LEMMA ImportHeads ==
  ASSUME NEW t, ImportFits(t)
  PROVE  /\ t.todo # <<>> /\ Left(t) \in 1..10 /\ t.name \in {"replace", "merge"}
         /\ StepOf(t) \in {"replace", "keys", "names", "create", "restore", "write", "list",
                          "publish", "read", "store"}
         /\ StepOf(t) = "names" <=> Left(t) = 10
         /\ StepOf(t) = "replace" <=> (Left(t) = 9 /\ t.name = "replace")
         /\ StepOf(t) = "create" <=> (Left(t) = 9 /\ t.name = "merge")
         /\ StepOf(t) = "keys" <=> (Left(t) = 8 /\ t.name = "replace")
         /\ StepOf(t) = "restore" <=> (Left(t) = 8 /\ t.name = "merge")
         /\ StepOf(t) = "write" <=> Left(t) = 7
         /\ StepOf(t) = "list" <=> Left(t) = 6
         /\ StepOf(t) = "publish" <=> Left(t) = 5
         /\ StepOf(t) = "read" <=> Left(t) \in {4, 2}
         /\ StepOf(t) = "store" <=> Left(t) \in {3, 1}
         /\ Left(t) = 10 => t.name = "merge"
<1> PICK q : q = t.todo  OBVIOUS
<1>1. Head(q) = StepOf(t) /\ Len(q) = Left(t)  BY DEF StepOf, Left
<1>2. \A i \in 1..10 : i \in 1..9 \/ i = 10  OBVIOUS
<1>3. \A i \in 1..9 : /\ i \in 1..10 /\ i # 10
                      /\ i = 1 \/ i = 2 \/ i = 3 \/ i = 4 \/ i = 5 \/ i = 6 \/ i = 7 \/ i = 8 \/ i = 9
  OBVIOUS
<1>4. CASE t.name = "replace" /\ q \in ReplaceTodo
  <2>1. q # <<>> /\ Left(t) \in 1..9  BY <1>1, <1>4, ReplaceProgram
  <2>2. /\ StepOf(t) = "replace" <=> Left(t) = 9
        /\ StepOf(t) = "keys" <=> Left(t) = 8
        /\ StepOf(t) = "write" <=> Left(t) = 7
        /\ StepOf(t) = "list" <=> Left(t) = 6
        /\ StepOf(t) = "publish" <=> Left(t) = 5
        /\ StepOf(t) = "read" <=> Left(t) \in {4, 2}
        /\ StepOf(t) = "store" <=> Left(t) \in {3, 1}
    BY <1>1, <1>4, ReplaceProgram
  <2>3. StepOf(t) \in {"replace", "keys", "write", "list", "publish", "read", "store"}
    BY <2>1, <2>2, <1>3
  <2> QED  BY <2>1, <2>2, <2>3, <1>3, <1>4
<1>5. CASE t.name = "merge" /\ q \in MergeTodo
  <2>1. q # <<>> /\ Left(t) \in 1..10  BY <1>1, <1>5, MergeProgram
  <2>2. /\ StepOf(t) = "names" <=> Left(t) = 10
        /\ StepOf(t) = "create" <=> Left(t) = 9
        /\ StepOf(t) = "restore" <=> Left(t) = 8
        /\ StepOf(t) = "write" <=> Left(t) = 7
        /\ StepOf(t) = "list" <=> Left(t) = 6
        /\ StepOf(t) = "publish" <=> Left(t) = 5
        /\ StepOf(t) = "read" <=> Left(t) \in {4, 2}
        /\ StepOf(t) = "store" <=> Left(t) \in {3, 1}
    BY <1>1, <1>5, MergeProgram
  <2>3. StepOf(t) \in {"names", "create", "restore", "write", "list", "publish", "read", "store"}
    BY <2>1, <2>2, <1>2, <1>3
  <2> QED  BY <2>1, <2>2, <2>3, <1>2, <1>3, <1>5
<1> QED  BY <1>4, <1>5 DEF ImportFits

\* What each step can be a step of.
LEMMA HeadsTell ==
  ASSUME NEW t, TaskFits(t)
  PROVE  /\ t.todo # <<>> /\ Left(t) \in Nat \ {0}
         /\ StepOf(t) \in {"write", "read", "store"} => t.op \in {"set", "notify", "import"}
         /\ StepOf(t) \in {"write_key", "read_key", "store_key"} => t.op = "key"
         /\ StepOf(t) \in {"list", "publish"} => t.op \in {"key", "edit", "import"}
         /\ StepOf(t) \in {"form", "find", "save"} => t.op = "edit"
         /\ StepOf(t) \in {"replace", "keys", "names", "create", "restore"} => t.op = "import"
<1>1. CASE t.op \in {"set", "notify"}
  <2>1. SetFits(t)  BY <1>1 DEF TaskFits
  <2>2. /\ Len(<<"write">>) = 1 /\ Len(<<"write", "read", "store">>) = 3
        /\ Len(<<"read", "store">>) = 2 /\ Len(<<"store">>) = 1
    OBVIOUS
  <2> PICK q : q = t.todo  OBVIOUS
  <2>3. \/ q = <<"write">> \/ q = <<"write", "read", "store">> \/ q = <<"read", "store">>
        \/ q = <<"store">>
    BY <2>1 DEF SetFits, SetTodo
  <2>4. Len(q) \in {1, 2, 3}  BY <2>2, <2>3
  <2> PICK n : n = Len(q)  OBVIOUS
  <2>n. \A k \in {1, 2, 3} : k \in Nat \ {0}  OBVIOUS
  <2>5. Len(q) \in Nat \ {0}  BY <2>4, <2>n
  <2> QED  BY <2>1, <2>5, <1>1, SetHeads DEF Left
<1>2. CASE t.op = "key"
  <2>1. KeyFits(t)  BY <1>2 DEF TaskFits
  <2>2. \A i \in 1..5 : i \in Nat \ {0}  OBVIOUS
  <2> QED  BY <2>1, <2>2, <1>2, KeyHeads
<1>3. CASE t.op = "edit"
  <2>1. EditFits(t)  BY <1>3 DEF TaskFits
  <2>2. \A i \in 1..5 : i \in Nat \ {0}  OBVIOUS
  <2> QED  BY <2>1, <2>2, <1>3, EditHeads
<1>4. CASE t.op = "import"
  <2>1. ImportFits(t)  BY <1>4 DEF TaskFits
  <2>2. \A i \in 1..10 : i \in Nat \ {0}  OBVIOUS
  <2> QED  BY <2>1, <2>2, <1>4, ImportHeads
<1> QED  BY <1>1, <1>2, <1>3, <1>4 DEF TaskFits

\* The next step of a change of the master key.
LEMMA KeyAfter ==
  ASSUME NEW t, NEW r, KeyFits(t), After(t, r), Left(t) > 1
  PROVE  r.todo \in KeyTodo /\ Left(r) = Left(t) - 1 /\ DOMAIN r.writes = {}
BY KeyProgram DEF KeyFits, After, Left

\* The next step of an edit.
LEMMA EditAfter ==
  ASSUME NEW t, NEW r, EditFits(t), After(t, r), Left(t) > 1
  PROVE  /\ r.todo \in EditTodo /\ Left(r) = Left(t) - 1 /\ DOMAIN r.writes = {}
         /\ r.name \in ChannelNames /\ r.secret \in Secrets \cup {"none"}
BY EditProgram DEF EditFits, After, Left

\* The next step of an import.
LEMMA ImportAfter ==
  ASSUME NEW t, NEW r, ImportFits(t), After(t, r), Left(t) > 1
  PROVE  /\ \/ r.name = "replace" /\ r.todo \in ReplaceTodo
            \/ r.name = "merge" /\ r.todo \in MergeTodo
         /\ Left(r) = Left(t) - 1 /\ r.writes = ImportWrites
         /\ StepOf(r) = "store" => Left(t) \in {4, 2}
<1>1. CASE t.name = "replace" /\ t.todo \in ReplaceTodo
  <2>1. r.todo \in ReplaceTodo /\ Left(r) = Left(t) - 1
    BY <1>1, ReplaceProgram DEF After, Left
  <2>2. StepOf(r) = "store" => Left(r) \in {3, 1}  BY <2>1, ReplaceProgram DEF StepOf, Left
  <2>3. Left(t) \in Int  BY <1>1, ReplaceProgram DEF Left
  <2>4. StepOf(r) = "store" => Left(t) \in {4, 2}  BY <2>1, <2>2, <2>3
  <2> QED  BY <2>1, <2>4, <1>1 DEF ImportFits, After
<1>2. CASE t.name = "merge" /\ t.todo \in MergeTodo
  <2>1. r.todo \in MergeTodo /\ Left(r) = Left(t) - 1
    BY <1>2, MergeProgram DEF After, Left
  <2>2. StepOf(r) = "store" => Left(r) \in {3, 1}  BY <2>1, MergeProgram DEF StepOf, Left
  <2>3. Left(t) \in Int  BY <1>2, MergeProgram DEF Left
  <2>4. StepOf(r) = "store" => Left(t) \in {4, 2}  BY <2>1, <2>2, <2>3
  <2> QED  BY <2>1, <2>4, <1>2 DEF ImportFits, After
<1> QED  BY <1>1, <1>2 DEF ImportFits

\* A task that fits the program of its operation fits.
LEMMA OpSteps ==
  ASSUME NEW t, NEW r, After(t, r), TaskFits(t), given' = given,
         t.op \in {"set", "notify"} => SetFits(r)' /\ (~t.crossed => SetKnows(r)'),
         t.op = "key" => KeyFits(r)' /\ (~t.crossed => KeyKnows(r)'),
         t.op = "edit" => EditFits(r)' /\ (~t.crossed => EditKnows(r)'),
         t.op = "import" => ImportFits(r)' /\ (~t.crossed => ImportKnows(r)')
  PROVE  TaskFits(r)' /\ r.crossed = t.crossed /\ (~r.crossed => TaskKnows(r)')
BY DEF TaskFits, TaskKnows, After, TaskFields

\* What is known of a handler at work.
LEMMA Working ==
  ASSUME SettingsInv, NEW e \in Editors, Busy(e), NEW t, t = editors[e]
  PROVE  /\ TaskFits(t) /\ (~t.crossed => TaskKnows(t)) /\ up
         /\ DOMAIN t = TaskFields /\ given \in Cases
<1>1. TaskFits(t)  BY DEF SettingsInv, HandlersFit, Busy, Idle
<1>2. ~t.crossed => TaskKnows(t)  BY DEF SettingsInv, HandlersFit
<1> QED  BY <1>1, <1>2 DEF SettingsInv, StartFits, TablesFit, TaskFits

\* A step that only reads leaves the tables and the memory alone.
LEMMA TablesStay ==
  ASSUME SettingsInv, NEW e \in Editors, Busy(e), UNCHANGED <<given, up>>,
         UNCHANGED rowVars, UNCHANGED memoryVars
  PROVE  TablesFit' /\ StartFits' /\ CredentialsFit'
<1>1. up /\ up'  BY DEF SettingsInv, StartFits
<1>2. TablesFit'
  BY DEF SettingsInv, TablesFit, rowVars, memoryVars, NothingIsHalfWritten, ImportWrites, AnyRow,
         Keys, Values, Rows, Credentials
<1>3. CredentialsFit'  BY DEF SettingsInv, CredentialsFit, rowVars, memoryVars, NoRow, Plain
<1> QED  BY <1>1, <1>2, <1>3 DEF StartFits

\* What a handler writes to the settings: an address with its interval, or
\* neither.
LEMMA WritesFitAll ==
  ASSUME NEW t, TaskFits(t), given \in Cases, t.op \in {"set", "notify", "import"}
  PROVE  WritesFit(t.writes)
<1>1. CASE t.op \in {"set", "notify"}  BY <1>1 DEF TaskFits, SetFits
<1>2. CASE t.op = "import"
  <2>1. t.writes = ImportWrites  BY <1>2 DEF TaskFits, ImportFits
  <2> QED  BY <2>1, CaseFits DEF WritesFit, SettingNames, Strict, Lenient, Uncached
<1> QED  BY <1>1, <1>2

\* apply: the rows hold what was to be written.
LEMMA RowsWritten ==
  ASSUME SettingsInv, NEW e \in Editors, WriteRows(e)
  PROVE  SettingsInv'
<1>1. PICK t : t = editors[e]  OBVIOUS
<1>2. /\ Busy(e) /\ StepOf(t) = "write" /\ Continues(e, t) /\ UNCHANGED <<given, up>>
      /\ settingRows' = [n \in SettingNames |->
                           IF n \in DOMAIN t.writes THEN t.writes[n] ELSE settingRows[n]]
      /\ UNCHANGED <<keyRow, vault, callerRows, entered>> /\ UNCHANGED memoryVars
  BY <1>1 DEF WriteRows, Does, StepOf, Continues
<1>3. /\ TaskFits(t) /\ (~t.crossed => TaskKnows(t)) /\ up /\ DOMAIN t = TaskFields
      /\ given \in Cases
  BY <1>1, <1>2, Working
<1>4. t.op \in {"set", "notify", "import"}  BY <1>2, <1>3, HeadsTell
<1>5. WritesFit(t.writes)  BY <1>3, <1>4, WritesFitAll
<1>6. RowsHold(t.writes)'
  BY <1>2, <1>5 DEF RowsHold, WritesFit
<1>7. TablesFit'
  <2>1. settingRows' \in [SettingNames -> SettingValues \cup {Unset, Unreadable}]
    BY <1>2, <1>5 DEF WritesFit, SettingsInv, TablesFit
  <2>2. given.broken = {} => settingRows'["webhook"] = settingRows'["retest"]
    <3>1. "webhook" \in SettingNames /\ "retest" \in SettingNames
      BY DEF SettingNames, Strict, Uncached
    <3>2. given.broken = {} => settingRows["webhook"] = settingRows["retest"]
      BY DEF SettingsInv, TablesFit, NothingIsHalfWritten
    <3> QED  BY <1>2, <1>5, <3>1, <3>2 DEF WritesFit
  <2>3. ASSUME given.ops \cap {"set", "notify"} = {}
        PROVE  \A m, n \in DOMAIN ImportWrites : settingRows'[m] = Unset => settingRows'[n] = Unset
    <3>1. t.writes = ImportWrites  BY <1>3, <1>4, <2>3 DEF TaskFits, ImportFits
    <3>2. \A n \in DOMAIN ImportWrites : ImportWrites[n] \in SettingValues
      BY <1>3, CaseFits
    <3>3. \A n \in DOMAIN ImportWrites : settingRows'[n] = ImportWrites[n]
      BY <1>2, <1>5, <3>1 DEF WritesFit
    <3> QED  BY <3>2, <3>3, SettingsConstants DEF Unset
  <2>4. NothingIsHalfWritten'
    BY <1>2, <2>2, <2>3 DEF NothingIsHalfWritten, ImportWrites
  <2> QED  BY <1>2, <2>1, <2>4 DEF SettingsInv, TablesFit, memoryVars, AnyRow, Keys, Values,
                                   Rows, Credentials
<1>8. StartFits' /\ CredentialsFit'
  BY <1>2, <1>3 DEF SettingsInv, StartFits, CredentialsFit, memoryVars, NoRow, Plain
<1>9. PICK r : r = [t EXCEPT !.todo = Tail(@)]  OBVIOUS
<1>10. After(t, r) /\ r.reload = t.reload /\ r.got = t.got  BY <1>3, <1>9, Tailed DEF After
<1>11. ASSUME Left(t) > 1, t.op \in {"set", "notify"}
       PROVE  SetFits(r)' /\ (~t.crossed => SetKnows(r)')
  <2>1. SetFits(t)  BY <1>3, <1>11 DEF TaskFits
  <2>2. r.todo \in SetTodo \ {<<"write">>} /\ t.todo # <<"write">> /\ StepOf(r) = "read"
    BY <1>2, <1>10, <1>11, <2>1, SetProgram DEF SetFits, After, Left, StepOf
  <2>3. SetFits(r)
    BY <1>10, <2>1, <2>2 DEF SetFits, After
  <2>4. SetFits(r)'  BY <1>2, <2>3, FitsStay DEF memoryVars
  <2> QED  BY <1>6, <1>10, <2>2, <2>4 DEF SetKnows, RowsHold, After, StepOf
<1>12. ASSUME Left(t) > 1, t.op = "import"
       PROVE  ImportFits(r)' /\ (~t.crossed => ImportKnows(r)')
  <2>1. ImportFits(t)  BY <1>3, <1>12 DEF TaskFits
  <2>2. Left(t) = 7  BY <1>2, <2>1, ImportHeads
  <2>3. /\ (r.name = "replace" /\ r.todo \in ReplaceTodo) \/ (r.name = "merge" /\ r.todo \in MergeTodo)
        /\ Left(r) = 6 /\ r.writes = ImportWrites /\ StepOf(r) # "store"
    BY <1>10, <2>1, <2>2, ImportAfter
  <2>4. r.reload = <<"routing", "pricing">>  BY <1>10, <2>1, <2>2 DEF ImportFits
  <2>5. ImportFits(r)  BY <2>3, <2>4 DEF ImportFits
  <2>6. ImportFits(r)'  BY <1>2, <2>5, FitsStay DEF memoryVars
  <2>7. ASSUME ~t.crossed  PROVE ImportKnows(r)'
    <3>1. ImportKnows(t)  BY <1>3, <1>12, <2>7 DEF TaskKnows
    <3>2. RowsHold(r.writes)'  BY <1>6, <1>10 DEF After, RowsHold
    <3>3. r.name = "replace" => Replaced' /\ callerRows' = given'.document.keys
      BY <1>2, <1>10, <2>2, <3>1 DEF ImportKnows, After, Replaced, Wanted, NoRow
    <3>4. r.name = "merge" => Merged' /\ given'.document.keys \subseteq callerRows'
      BY <1>2, <1>10, <2>2, <3>1 DEF ImportKnows, After, Merged, Wanted, NoRow
    <3> QED  BY <2>3, <3>2, <3>3, <3>4 DEF ImportKnows, Left, StepOf
  <2> QED  BY <2>6, <2>7
<1>13. Left(t) > 1 => TaskFits(r)' /\ r.crossed = t.crossed /\ (~r.crossed => TaskKnows(r)')
  BY <1>2, <1>3, <1>4, <1>10, <1>11, <1>12, OpSteps
<1>14. HandlersFit'
  <2>1. rotated => rotated'  BY <1>2 DEF memoryVars
  <2> QED  BY <1>1, <1>2, <1>9, <1>13, <2>1, Continued DEF SettingsInv, Left
<1> QED  BY <1>7, <1>8, <1>14 DEF SettingsInv

\* The rows read the same while they and the key stay.
LEMMA OpenAllStays ==
  ASSUME vault' = vault, masterKey' = masterKey
  PROVE  OpenAll(masterKey)' = OpenAll(masterKey)
BY DEF OpenAll, Open, RowOf, NoRow, Plain

\* What is read without an error is a value.
LEMMA ReadFits ==
  ASSUME TablesFit, NEW n \in SettingNames, NEW v, v = Understood(n, settingRows[n]), v # Unreadable
  PROVE  v \in Values
BY SettingsConstants DEF TablesFit, Understood, Values, Unset, Unreadable

\* A row is read: the value in hand is what it says.
LEMMA RowRead ==
  ASSUME SettingsInv, NEW e \in Editors, ReadRow(e)
  PROVE  SettingsInv'
<1>1. PICK t : t = editors[e]  OBVIOUS
<1>2. PICK n : n = Head(t.reload)  OBVIOUS
<1>3. PICK v : v = Understood(n, settingRows[n])  OBVIOUS
<1>4. PICK task : task = [t EXCEPT !.got = v]  OBVIOUS
<1>5. CASE v = Unreadable
  <2>1. Busy(e) /\ GivesUp(e)  BY <1>1, <1>2, <1>3, <1>5 DEF ReadRow, Does
  <2> QED  BY <2>1, StopsWell
<1>6. CASE v # Unreadable
  <2>1. /\ Busy(e) /\ StepOf(t) = "read" /\ Continues(e, task) /\ UNCHANGED <<given, up>>
        /\ UNCHANGED rowVars /\ UNCHANGED memoryVars
    BY <1>1, <1>2, <1>3, <1>4, <1>6 DEF ReadRow, Does, StepOf, Continues
  <2>2. /\ TaskFits(t) /\ (~t.crossed => TaskKnows(t)) /\ DOMAIN t = TaskFields /\ given \in Cases
    BY <1>1, <2>1, Working
  <2>3. t.op \in {"set", "notify", "import"}  BY <2>1, <2>2, HeadsTell
  <2>4. PICK r : r = [task EXCEPT !.todo = Tail(@)]  OBVIOUS
  <2>5. After(t, r) /\ r.reload = t.reload /\ r.got = v
    <3>1. /\ DOMAIN task = TaskFields /\ task.todo = t.todo /\ task.op = t.op /\ task.writes = t.writes
          /\ task.name = t.name /\ task.secret = t.secret /\ task.crossed = t.crossed
          /\ task.result = t.result /\ task.reload = t.reload /\ task.got = v
      BY <1>4, <2>2 DEF TaskFields
    <3> QED  BY <2>4, <3>1, Tailed DEF After
  <2>6. n \in SettingNames => v \in Values
    BY <1>3, <1>6, ReadFits DEF SettingsInv
  <2>7. GotRow(r)'
    <3>1. settingRows' = settingRows  BY <2>1 DEF rowVars
    <3> QED  BY <1>2, <1>3, <2>5, <3>1 DEF GotRow, Understood, Unset, Unreadable, Strict
  <2>8. ASSUME NEW w, RowsHold(w)  PROVE RowsHold(w)'
    BY <2>1, <2>8 DEF RowsHold, rowVars
  <2>9. ASSUME Left(t) > 1, t.op \in {"set", "notify"}
        PROVE  SetFits(r)' /\ (~t.crossed => SetKnows(r)')
    <3>1. SetFits(t)  BY <2>2, <2>9 DEF TaskFits
    <3>2. r.todo \in SetTodo \ {<<"write">>} /\ t.todo # <<"write">> /\ StepOf(r) = "store"
      BY <2>1, <2>5, <2>9, <3>1, SetProgram DEF SetFits, After, Left, StepOf
    <3>3. v \in Values
      BY <1>2, <2>6, <3>1, <3>2 DEF SetFits, Copied, SettingNames
    <3>4. SetFits(r)  BY <2>5, <3>1, <3>2, <3>3 DEF SetFits, After
    <3>5. SetFits(r)'  BY <2>1, <3>4, FitsStay DEF memoryVars
    <3>6. ~t.crossed => RowsHold(r.writes)
      BY <2>1, <2>2, <2>5, <2>9 DEF TaskKnows, SetKnows, After
    <3> QED  BY <2>7, <2>8, <3>5, <3>6 DEF SetKnows
  <2>10. ASSUME Left(t) > 1, t.op = "import"
         PROVE  ImportFits(r)' /\ (~t.crossed => ImportKnows(r)')
    <3>1. ImportFits(t)  BY <2>2, <2>10 DEF TaskFits
    <3>2. Left(t) \in {4, 2}  BY <2>1, <3>1, ImportHeads
    <3>3. /\ (r.name = "replace" /\ r.todo \in ReplaceTodo) \/ (r.name = "merge" /\ r.todo \in MergeTodo)
          /\ Left(r) = Left(t) - 1 /\ r.writes = ImportWrites
      BY <2>5, <2>10, <3>1, ImportAfter
    <3>4. Left(r) \in {3, 1} /\ (Left(t) < 3 <=> Left(r) < 3)  BY <3>2, <3>3
    <3>5. t.reload = IF Left(t) < 3 THEN <<"pricing">> ELSE <<"routing", "pricing">>
      BY <3>1 DEF ImportFits
    <3>6. n \in SettingNames
      <4>1. Head(<<"pricing">>) = "pricing" /\ Head(<<"routing", "pricing">>) = "routing"
        OBVIOUS
      <4> QED  BY <1>2, <3>5, <4>1 DEF SettingNames, Strict, Lenient
    <3>7. ImportFits(r)  BY <2>5, <2>6, <3>3, <3>4, <3>5, <3>6 DEF ImportFits
    <3>8. ImportFits(r)'  BY <2>1, <3>7, FitsStay DEF memoryVars
    <3>9. ASSUME ~t.crossed  PROVE ImportKnows(r)'
      <4>1. ImportKnows(t)  BY <2>2, <2>10, <3>9 DEF TaskKnows
      <4>2. RowsHold(r.writes)'  BY <2>5, <2>8, <3>2, <4>1 DEF After, ImportKnows
      <4>3. opened' = OpenAll(masterKey)'
        BY <2>1, <3>2, <4>1, OpenAllStays DEF ImportKnows, rowVars, memoryVars
      <4>4. Left(r) < 3 => copy'["routing"] = Understood("routing", settingRows["routing"])'
        BY <2>1, <3>4, <4>1 DEF ImportKnows, rowVars, memoryVars, Understood, Unset, Unreadable,
                                Strict
      <4>5. r.name = "replace" => Replaced' /\ callerRows' = given'.document.keys
        BY <2>1, <2>5, <3>2, <4>1 DEF ImportKnows, After, Replaced, Wanted, NoRow, rowVars
      <4>6. r.name = "merge" => Merged' /\ given'.document.keys \subseteq callerRows'
        BY <2>1, <2>5, <3>2, <4>1 DEF ImportKnows, After, Merged, Wanted, NoRow, rowVars
      <4>7. Len(r.todo) = 3 \/ Len(r.todo) = 1  BY <3>4 DEF Left
      <4>8. Len(r.todo) # 5 /\ Len(r.todo) # 9  BY <4>7
      <4> QED  BY <2>7, <4>2, <4>3, <4>4, <4>5, <4>6, <4>8 DEF ImportKnows, Left, StepOf
    <3> QED  BY <3>8, <3>9
  <2>11. Left(t) > 1 => TaskFits(r)' /\ r.crossed = t.crossed /\ (~r.crossed => TaskKnows(r)')
    BY <2>1, <2>2, <2>3, <2>5, <2>9, <2>10, OpSteps
  <2>12. HandlersFit'
    <3>1. rotated => rotated'  BY <2>1 DEF memoryVars
    <3> QED  BY <1>1, <2>1, <2>4, <2>11, <3>1, Continued DEF SettingsInv, Left
  <2> QED  BY <2>1, <2>12, TablesStay DEF SettingsInv
<1> QED  BY <1>5, <1>6

\* What was read is stored.
LEMMA RowStored ==
  ASSUME SettingsInv, NEW e \in Editors, StoreRow(e)
  PROVE  SettingsInv'
<1>1. PICK t : t = editors[e]  OBVIOUS
<1>2. PICK task : task = [t EXCEPT !.reload = Tail(@)]  OBVIOUS
<1>3. /\ Busy(e) /\ StepOf(t) = "store" /\ Continues(e, task) /\ UNCHANGED <<given, up>>
      /\ copy' = [copy EXCEPT ![Head(t.reload)] = t.got]
      /\ UNCHANGED <<masterKey, opened, rotated>> /\ UNCHANGED rowVars
  BY <1>1, <1>2 DEF StoreRow, Does, StepOf, Continues
<1>4. /\ TaskFits(t) /\ (~t.crossed => TaskKnows(t)) /\ DOMAIN t = TaskFields /\ given \in Cases
      /\ up
  BY <1>1, <1>3, Working
<1>5. t.op \in {"set", "notify", "import"}  BY <1>3, <1>4, HeadsTell
<1>6. PICK r : r = [task EXCEPT !.todo = Tail(@)]  OBVIOUS
<1>7. After(t, r) /\ r.reload = Tail(t.reload)
  <2>1. /\ DOMAIN task = TaskFields /\ task.todo = t.todo /\ task.op = t.op /\ task.writes = t.writes
        /\ task.name = t.name /\ task.secret = t.secret /\ task.crossed = t.crossed
        /\ task.result = t.result /\ task.reload = Tail(t.reload)
    BY <1>2, <1>4 DEF TaskFields
  <2> QED  BY <1>6, <2>1, Tailed DEF After
<1>8. t.got \in Values /\ Head(t.reload) \in Copied
  <2>1. CASE t.op \in {"set", "notify"}
    <3>1. SetFits(t)  BY <1>4, <2>1 DEF TaskFits
    <3>2. t.todo # <<"write">>  BY <1>3, <3>1, SetProgram DEF SetFits, StepOf
    <3> QED  BY <1>3, <3>1, <3>2 DEF SetFits
  <2>2. CASE t.op = "import"
    <3>1. ImportFits(t)  BY <1>4, <2>2 DEF TaskFits
    <3>2. t.reload = <<"pricing">> \/ t.reload = <<"routing", "pricing">>  BY <3>1 DEF ImportFits
    <3>3. Head(<<"pricing">>) = "pricing" /\ Head(<<"routing", "pricing">>) = "routing"
      OBVIOUS
    <3>4. Head(t.reload) \in Copied  BY <3>2, <3>3 DEF Copied, Lenient, Strict
    <3> QED  BY <1>3, <3>1, <3>4 DEF ImportFits
  <2> QED  BY <1>5, <2>1, <2>2
<1>9. TablesFit'
  <2>1. copy \in [Copied -> Values]  BY <1>4 DEF SettingsInv, TablesFit
  <2>2. copy' \in [Copied -> Values] /\ DOMAIN copy' = Copied  BY <1>3, <1>8, <2>1
  <2> QED  BY <1>3, <2>2 DEF SettingsInv, TablesFit, rowVars, NothingIsHalfWritten, ImportWrites,
                             AnyRow, Keys, Values, Rows, Credentials, Copied, Lenient, Strict
<1>10. StartFits' /\ CredentialsFit'
  BY <1>3, <1>4 DEF SettingsInv, StartFits, CredentialsFit, rowVars, NoRow, Plain
<1>11. ~(Left(t) > 1 /\ t.op \in {"set", "notify"})
  BY <1>3, <1>4, SetHeads DEF TaskFits
<1>12. ASSUME Left(t) > 1, t.op = "import"
       PROVE  ImportFits(r)' /\ (~t.crossed => ImportKnows(r)')
  <2>1. ImportFits(t)  BY <1>4, <1>12 DEF TaskFits
  <2>2. Left(t) = 3  BY <1>3, <1>12, <2>1, ImportHeads
  <2>3. /\ (r.name = "replace" /\ r.todo \in ReplaceTodo) \/ (r.name = "merge" /\ r.todo \in MergeTodo)
        /\ Left(r) = 2 /\ r.writes = ImportWrites /\ StepOf(r) # "store"
    BY <1>7, <1>12, <2>1, <2>2, ImportAfter
  <2>4. t.reload = <<"routing", "pricing">>  BY <2>1, <2>2 DEF ImportFits
  <2>5. Head(t.reload) = "routing" /\ r.reload = <<"pricing">>  BY <1>7, <2>4
  <2>6. ImportFits(r)  BY <2>3, <2>5 DEF ImportFits
  <2>7. ImportFits(r)'  BY <1>3, <2>6, FitsStay
  <2>8. ASSUME ~t.crossed  PROVE ImportKnows(r)'
    <3>1. ImportKnows(t)  BY <1>4, <1>12, <2>8 DEF TaskKnows
    <3>2. RowsHold(r.writes)'
      BY <1>3, <1>7, <2>2, <3>1 DEF After, ImportKnows, RowsHold, rowVars
    <3>3. opened' = OpenAll(masterKey)'
      BY <1>3, <2>2, <3>1, OpenAllStays DEF ImportKnows, rowVars
    <3>4. copy'["routing"] = Understood("routing", settingRows["routing"])'
      <4>1. t.got = Understood("routing", settingRows["routing"])
        BY <1>3, <2>5, <3>1 DEF ImportKnows, GotRow
      <4>2. copy'["routing"] = t.got
        BY <1>3, <2>5, <1>8 DEF SettingsInv, TablesFit
      <4> QED  BY <1>3, <4>1, <4>2 DEF rowVars, Understood, Unset, Unreadable, Strict
    <3>5. r.name = "replace" => Replaced' /\ callerRows' = given'.document.keys
      BY <1>3, <1>7, <2>2, <3>1 DEF ImportKnows, After, Replaced, Wanted, NoRow, rowVars
    <3>6. r.name = "merge" => Merged' /\ given'.document.keys \subseteq callerRows'
      BY <1>3, <1>7, <2>2, <3>1 DEF ImportKnows, After, Merged, Wanted, NoRow, rowVars
    <3>7. Len(r.todo) # 5 /\ Len(r.todo) # 9  BY <2>3 DEF Left
    <3> QED  BY <2>3, <3>2, <3>3, <3>4, <3>5, <3>6, <3>7 DEF ImportKnows, Left, StepOf
  <2> QED  BY <2>7, <2>8
<1>13. Left(t) > 1 => TaskFits(r)' /\ r.crossed = t.crossed /\ (~r.crossed => TaskKnows(r)')
  BY <1>3, <1>4, <1>5, <1>7, <1>11, <1>12, OpSteps
<1>14. HandlersFit'
  BY <1>1, <1>3, <1>6, <1>13, Continued DEF SettingsInv, Left
<1> QED  BY <1>9, <1>10, <1>14 DEF SettingsInv

\* The row of the master key is written.
LEMMA KeyWritten ==
  ASSUME SettingsInv, NEW e \in Editors, WriteKey(e)
  PROVE  SettingsInv'
<1>1. PICK t : t = editors[e]  OBVIOUS
<1>2. /\ Busy(e) /\ StepOf(t) = "write_key" /\ Continues(e, t) /\ UNCHANGED <<given, up>>
      /\ keyRow' = t.newKey
      /\ UNCHANGED <<settingRows, vault, callerRows, entered>> /\ UNCHANGED memoryVars
  BY <1>1 DEF WriteKey, Does, StepOf, Continues
<1>3. /\ TaskFits(t) /\ (~t.crossed => TaskKnows(t)) /\ DOMAIN t = TaskFields /\ given \in Cases
      /\ up
  BY <1>1, <1>2, Working
<1>4. t.op = "key" /\ KeyFits(t)  BY <1>2, <1>3, HeadsTell DEF TaskFits
<1>5. Left(t) = 5 /\ t.newKey \in Keys  BY <1>2, <1>4, KeyHeads DEF KeyFits
<1>6. TablesFit'
  BY <1>2, <1>5 DEF SettingsInv, TablesFit, memoryVars, NothingIsHalfWritten, ImportWrites,
                    AnyRow, Keys, Values, Rows, Credentials
<1>7. StartFits' /\ CredentialsFit'
  BY <1>2, <1>3 DEF SettingsInv, StartFits, CredentialsFit, memoryVars, NoRow, Plain
<1>8. PICK r : r = [t EXCEPT !.todo = Tail(@)]  OBVIOUS
<1>9. After(t, r) /\ r.newKey = t.newKey  BY <1>3, <1>8, Tailed DEF After
<1>10. KeyFits(r)' /\ KeyKnows(r)'
  <2>1. r.todo \in KeyTodo /\ Left(r) = 4 /\ DOMAIN r.writes = {}
    BY <1>4, <1>5, <1>9, KeyAfter
  <2>2. KeyFits(r)  BY <1>5, <1>9, <2>1 DEF KeyFits
  <2>3. KeyFits(r)'  BY <1>2, <2>2, FitsStay DEF memoryVars
  <2> QED  BY <2>1, <2>3 DEF KeyKnows, Left
<1>11. TaskFits(r)' /\ r.crossed = t.crossed /\ (~r.crossed => TaskKnows(r)')
  BY <1>2, <1>3, <1>4, <1>9, <1>10, OpSteps
<1>12. rotated => rotated'  BY <1>2 DEF memoryVars
<1>13. HandlersFit'
  BY <1>1, <1>2, <1>8, <1>11, <1>12, Continued DEF SettingsInv
<1> QED  BY <1>6, <1>7, <1>13 DEF SettingsInv

\* The row of the master key is read.
LEMMA KeyRead ==
  ASSUME SettingsInv, NEW e \in Editors, ReadKey(e)
  PROVE  SettingsInv'
<1>1. PICK t : t = editors[e]  OBVIOUS
<1>2. PICK task : task = [t EXCEPT !.newKey = keyRow]  OBVIOUS
<1>3. /\ Busy(e) /\ StepOf(t) = "read_key" /\ Continues(e, task) /\ UNCHANGED <<given, up>>
      /\ UNCHANGED rowVars /\ UNCHANGED memoryVars
  BY <1>1, <1>2 DEF ReadKey, Does, StepOf, Continues
<1>4. /\ TaskFits(t) /\ DOMAIN t = TaskFields
  BY <1>1, <1>3, Working
<1>5. t.op = "key" /\ KeyFits(t)  BY <1>3, <1>4, HeadsTell DEF TaskFits
<1>6. Left(t) = 4  BY <1>3, <1>5, KeyHeads
<1>7. PICK r : r = [task EXCEPT !.todo = Tail(@)]  OBVIOUS
<1>8. After(t, r) /\ r.newKey = keyRow
  <2>1. /\ DOMAIN task = TaskFields /\ task.todo = t.todo /\ task.op = t.op /\ task.writes = t.writes
        /\ task.name = t.name /\ task.secret = t.secret /\ task.crossed = t.crossed
        /\ task.result = t.result /\ task.newKey = keyRow
    BY <1>2, <1>4 DEF TaskFields
  <2> QED  BY <1>7, <2>1, Tailed DEF After
<1>9. KeyFits(r)' /\ KeyKnows(r)'
  <2>1. r.todo \in KeyTodo /\ Left(r) = 3 /\ DOMAIN r.writes = {}
    BY <1>5, <1>6, <1>8, KeyAfter
  <2>2. r.newKey \in Keys  BY <1>8 DEF SettingsInv, TablesFit
  <2>3. KeyFits(r)  BY <2>1, <2>2 DEF KeyFits
  <2>4. KeyFits(r)'  BY <1>3, <2>3, FitsStay DEF memoryVars
  <2>5. r.newKey = keyRow'  BY <1>3, <1>8 DEF rowVars
  <2> QED  BY <2>1, <2>4, <2>5 DEF KeyKnows, Left
<1>10. TaskFits(r)' /\ r.crossed = t.crossed /\ (~r.crossed => TaskKnows(r)')
  BY <1>3, <1>4, <1>5, <1>8, <1>9, OpSteps
<1>11. rotated => rotated'  BY <1>3 DEF memoryVars
<1>12. HandlersFit'
  BY <1>1, <1>3, <1>7, <1>10, <1>11, Continued DEF SettingsInv
<1> QED  BY <1>3, <1>12, TablesStay DEF SettingsInv

\* reload_master_key: a key that replaces another ends what is said of
\* readable credentials.
LEMMA KeyStored ==
  ASSUME SettingsInv, NEW e \in Editors, StoreKey(e)
  PROVE  SettingsInv'
<1>1. PICK t : t = editors[e]  OBVIOUS
<1>2. /\ Busy(e) /\ StepOf(t) = "store_key" /\ Continues(e, t) /\ UNCHANGED <<given, up>>
      /\ masterKey' = t.newKey /\ rotated' = (rotated \/ masterKey \notin {NoKey, t.newKey})
      /\ UNCHANGED <<copy, opened>> /\ UNCHANGED rowVars
  BY <1>1 DEF StoreKey, Does, StepOf, Continues
<1>3. /\ TaskFits(t) /\ (~t.crossed => TaskKnows(t)) /\ DOMAIN t = TaskFields /\ given \in Cases
      /\ up
  BY <1>1, <1>2, Working
<1>4. t.op = "key" /\ KeyFits(t)  BY <1>2, <1>3, HeadsTell DEF TaskFits
<1>5. Left(t) = 3 /\ t.newKey \in Keys  BY <1>2, <1>4, KeyHeads DEF KeyFits
<1>6. rotated \in BOOLEAN /\ rotated' \in BOOLEAN /\ (rotated => rotated')
  BY <1>2 DEF SettingsInv, TablesFit
<1>7. TablesFit'
  BY <1>2, <1>5, <1>6 DEF SettingsInv, TablesFit, rowVars, NothingIsHalfWritten, ImportWrites,
                          AnyRow, Keys, Values, Rows, Credentials
<1>8. StartFits'  BY <1>2, <1>3 DEF StartFits
<1>9. CredentialsFit'
  <2>1. ASSUME NEW n \in ChannelNames, vault[n] # NoRow, ~rotated'
        PROVE  vault[n].credential.seals \in {Plain, <<masterKey'>>}
    <3>1. ~rotated /\ (masterKey = NoKey \/ masterKey = masterKey')  BY <1>2, <1>6, <2>1
    <3>2. vault[n].credential.seals \in {Plain, <<masterKey>>}
      BY <2>1, <3>1 DEF SettingsInv, CredentialsFit
    <3>3. vault[n].credential.seals \in {Plain} \cup {<<k>> : k \in MasterKeys}
      BY <2>1 DEF SettingsInv, TablesFit, AnyRow, Rows, Credentials
    <3>4. vault[n].credential.seals = <<NoKey>> => vault[n].credential.seals = Plain
      BY <3>3, SettingsConstants DEF Plain
    <3> QED  BY <3>1, <3>2, <3>4
  <2> QED  BY <1>2, <2>1 DEF SettingsInv, CredentialsFit, rowVars, NoRow, Plain
<1>10. PICK r : r = [t EXCEPT !.todo = Tail(@)]  OBVIOUS
<1>11. After(t, r) /\ r.newKey = t.newKey  BY <1>3, <1>10, Tailed DEF After
<1>12. KeyFits(r)' /\ (~t.crossed => KeyKnows(r)')
  <2>1. r.todo \in KeyTodo /\ Left(r) = 2 /\ DOMAIN r.writes = {}
    BY <1>4, <1>5, <1>11, KeyAfter
  <2>2. KeyFits(r)  BY <1>5, <1>11, <2>1 DEF KeyFits
  <2>3. KeyFits(r)'  BY <1>2, <1>6, <2>2, FitsStay
  <2>4. ~t.crossed => masterKey' = keyRow'
    BY <1>2, <1>3, <1>4, <1>5 DEF TaskKnows, KeyKnows, rowVars
  <2> QED  BY <2>1, <2>3, <2>4 DEF KeyKnows, Left
<1>13. TaskFits(r)' /\ r.crossed = t.crossed /\ (~r.crossed => TaskKnows(r)')
  BY <1>2, <1>3, <1>4, <1>11, <1>12, OpSteps
<1>14. HandlersFit'
  BY <1>1, <1>2, <1>6, <1>10, <1>13, Continued DEF SettingsInv
<1> QED  BY <1>7, <1>8, <1>9, <1>14 DEF SettingsInv

\* reload_channels reads the rows under the key in memory.
LEMMA ChannelsListed ==
  ASSUME SettingsInv, NEW e \in Editors, ListChannels(e)
  PROVE  SettingsInv'
<1>1. PICK t : t = editors[e]  OBVIOUS
<1>2. PICK rows : rows = OpenAll(masterKey)  OBVIOUS
<1>3. PICK task : task = [t EXCEPT !.listed = Listing(rows)]  OBVIOUS
<1>4. /\ Busy(e) /\ StepOf(t) = "list" /\ Continues(e, task) /\ UNCHANGED <<given, up>>
      /\ UNCHANGED rowVars /\ UNCHANGED memoryVars
  BY <1>1, <1>2, <1>3 DEF ListChannels, Does, StepOf, Continues, Listing, RepoKey
<1>5. /\ TaskFits(t) /\ (~t.crossed => TaskKnows(t)) /\ DOMAIN t = TaskFields /\ given \in Cases
  BY <1>1, <1>4, Working
<1>6. t.op \in {"key", "edit", "import"}  BY <1>4, <1>5, HeadsTell
<1>7. PICK r : r = [task EXCEPT !.todo = Tail(@)]  OBVIOUS
<1>8. /\ After(t, r) /\ r.listed = Listing(rows) /\ r.newKey = t.newKey /\ r.form = t.form
      /\ r.reload = t.reload /\ r.got = t.got
  <2>1. /\ DOMAIN task = TaskFields /\ task.todo = t.todo /\ task.op = t.op /\ task.writes = t.writes
        /\ task.name = t.name /\ task.secret = t.secret /\ task.crossed = t.crossed
        /\ task.result = t.result /\ task.listed = Listing(rows) /\ task.newKey = t.newKey
        /\ task.form = t.form /\ task.reload = t.reload /\ task.got = t.got
    BY <1>3, <1>5 DEF TaskFields
  <2> QED  BY <1>7, <2>1, Tailed DEF After
<1>9. rows \in [ChannelNames -> AnyRow]  BY <1>2, OpenAllFits DEF SettingsInv, TablesFit
<1>10. Listed(r)  BY <1>8, <1>9 DEF Listed
<1>11. r.listed = Listing(OpenAll(masterKey))'
  <2>1. rows = OpenAll(masterKey)'  BY <1>2, <1>4, OpenAllStays DEF rowVars, memoryVars
  <2> QED  BY <1>8, <2>1 DEF Listing
<1>12. ASSUME t.op = "key"  PROVE KeyFits(r)' /\ (~t.crossed => KeyKnows(r)')
  <2>1. KeyFits(t)  BY <1>5, <1>12 DEF TaskFits
  <2>2. Left(t) = 2  BY <1>4, <2>1, KeyHeads
  <2>3. r.todo \in KeyTodo /\ Left(r) = 1 /\ DOMAIN r.writes = {}
    BY <1>8, <2>1, <2>2, KeyAfter
  <2>4. KeyFits(r)'  BY <1>4, <1>8, <1>10, <2>1, <2>3, FitsStay DEF KeyFits, memoryVars
  <2>5. ~t.crossed => masterKey' = keyRow'
    BY <1>4, <1>5, <1>12, <2>2 DEF TaskKnows, KeyKnows, rowVars, memoryVars
  <2> QED  BY <1>11, <2>3, <2>4, <2>5 DEF KeyKnows, Left
<1>13. ASSUME t.op = "edit"  PROVE EditFits(r)' /\ (~t.crossed => EditKnows(r)')
  <2>1. EditFits(t)  BY <1>5, <1>13 DEF TaskFits
  <2>2. Left(t) = 2  BY <1>4, <2>1, EditHeads
  <2>3. /\ r.todo \in EditTodo /\ Left(r) = 1 /\ DOMAIN r.writes = {} /\ r.name \in ChannelNames
        /\ r.secret \in Secrets \cup {"none"}
    BY <1>8, <2>1, <2>2, EditAfter
  <2>4. EditFits(r)'  BY <1>4, <1>10, <2>3, FitsStay DEF EditFits, memoryVars
  <2> QED  BY <1>11, <2>3, <2>4 DEF EditKnows, Left
<1>14. ASSUME t.op = "import"  PROVE ImportFits(r)' /\ (~t.crossed => ImportKnows(r)')
  <2>1. ImportFits(t)  BY <1>5, <1>14 DEF TaskFits
  <2>2. Left(t) = 6  BY <1>4, <2>1, ImportHeads
  <2>3. /\ (r.name = "replace" /\ r.todo \in ReplaceTodo) \/ (r.name = "merge" /\ r.todo \in MergeTodo)
        /\ Left(r) = 5 /\ r.writes = ImportWrites /\ StepOf(r) # "store"
    BY <1>8, <2>1, <2>2, ImportAfter
  <2>4. r.reload = <<"routing", "pricing">>  BY <1>8, <2>1, <2>2 DEF ImportFits
  <2>5. ImportFits(r)'  BY <1>4, <1>10, <2>3, <2>4, FitsStay DEF ImportFits, memoryVars
  <2>6. ASSUME ~t.crossed  PROVE ImportKnows(r)'
    <3>1. ImportKnows(t)  BY <1>5, <1>14, <2>6 DEF TaskKnows
    <3>2. RowsHold(r.writes)'
      BY <1>4, <1>8, <2>2, <3>1 DEF After, ImportKnows, RowsHold, rowVars
    <3>3. r.name = "replace" => Replaced' /\ callerRows' = given'.document.keys
      BY <1>4, <1>8, <2>2, <3>1 DEF ImportKnows, After, Replaced, Wanted, NoRow, rowVars
    <3>4. r.name = "merge" => Merged' /\ given'.document.keys \subseteq callerRows'
      BY <1>4, <1>8, <2>2, <3>1 DEF ImportKnows, After, Merged, Wanted, NoRow, rowVars
    <3> QED  BY <1>11, <2>3, <3>2, <3>3, <3>4 DEF ImportKnows, Left, StepOf
  <2> QED  BY <2>5, <2>6
<1>15. TaskFits(r)' /\ r.crossed = t.crossed /\ (~r.crossed => TaskKnows(r)')
  BY <1>4, <1>5, <1>6, <1>8, <1>12, <1>13, <1>14, OpSteps
<1>16. rotated => rotated'  BY <1>4 DEF memoryVars
<1>17. HandlersFit'
  BY <1>1, <1>4, <1>7, <1>15, <1>16, Continued DEF SettingsInv
<1> QED  BY <1>4, <1>17, TablesStay DEF SettingsInv

\* reload_channels publishes what it read.
LEMMA ChannelsPublished ==
  ASSUME SettingsInv, NEW e \in Editors, PublishChannels(e)
  PROVE  SettingsInv'
<1>1. PICK t : t = editors[e]  OBVIOUS
<1>2. PICK task : task = [t EXCEPT !.listed = {}]  OBVIOUS
<1>3. /\ Busy(e) /\ StepOf(t) = "publish" /\ Continues(e, task) /\ UNCHANGED <<given, up>>
      /\ opened' = [n \in ChannelNames |-> (CHOOSE pair \in t.listed : pair[1] = n)[2]]
      /\ UNCHANGED <<copy, masterKey, rotated>> /\ UNCHANGED rowVars
  BY <1>1, <1>2 DEF PublishChannels, Does, StepOf, Continues
<1>4. /\ TaskFits(t) /\ (~t.crossed => TaskKnows(t)) /\ DOMAIN t = TaskFields /\ given \in Cases
      /\ up
  BY <1>1, <1>3, Working
<1>5. t.op \in {"key", "edit", "import"}  BY <1>3, <1>4, HeadsTell
<1>6. t.op # "import" => Left(t) = 1  BY <1>3, <1>4, <1>5, KeyHeads, EditHeads DEF TaskFits
<1>7. t.op = "import" => Left(t) = 5  BY <1>3, <1>4, ImportHeads DEF TaskFits
<1>8. Listed(t)
  BY <1>4, <1>5, <1>6, <1>7 DEF TaskFits, KeyFits, EditFits, ImportFits
<1>9. PICK rows \in [ChannelNames -> AnyRow] : t.listed = Listing(rows)  BY <1>8 DEF Listed
<1>10. opened' = rows  BY <1>3, <1>9, Published
<1>11. TablesFit'
  BY <1>3, <1>9, <1>10 DEF SettingsInv, TablesFit, rowVars, NothingIsHalfWritten, ImportWrites,
                           AnyRow, Keys, Values, Rows, Credentials
<1>12. StartFits' /\ CredentialsFit'
  BY <1>3, <1>4 DEF SettingsInv, StartFits, CredentialsFit, rowVars, NoRow, Plain
<1>13. PICK r : r = [task EXCEPT !.todo = Tail(@)]  OBVIOUS
<1>14. /\ After(t, r) /\ r.reload = t.reload
  <2>1. /\ DOMAIN task = TaskFields /\ task.todo = t.todo /\ task.op = t.op /\ task.writes = t.writes
        /\ task.name = t.name /\ task.secret = t.secret /\ task.crossed = t.crossed
        /\ task.result = t.result /\ task.reload = t.reload
    BY <1>2, <1>4 DEF TaskFields
  <2> QED  BY <1>13, <2>1, Tailed DEF After
<1>15. ASSUME t.op = "import"  PROVE ImportFits(r)' /\ (~t.crossed => ImportKnows(r)')
  <2>1. ImportFits(t)  BY <1>4, <1>15 DEF TaskFits
  <2>2. Left(t) = 5  BY <1>7, <1>15
  <2>3. /\ (r.name = "replace" /\ r.todo \in ReplaceTodo) \/ (r.name = "merge" /\ r.todo \in MergeTodo)
        /\ Left(r) = 4 /\ r.writes = ImportWrites /\ StepOf(r) # "store"
    BY <1>14, <2>1, <2>2, ImportAfter
  <2>4. r.reload = <<"routing", "pricing">>  BY <1>14, <2>1, <2>2 DEF ImportFits
  <2>5. ImportFits(r)'  BY <1>3, <2>3, <2>4, FitsStay DEF ImportFits
  <2>6. ASSUME ~t.crossed  PROVE ImportKnows(r)'
    <3>1. ImportKnows(t)  BY <1>4, <1>15, <2>6 DEF TaskKnows
    <3>2. RowsHold(r.writes)'
      BY <1>3, <1>14, <2>2, <3>1 DEF After, ImportKnows, RowsHold, rowVars
    <3>3. r.name = "replace" => Replaced' /\ callerRows' = given'.document.keys
      BY <1>3, <1>14, <2>2, <3>1 DEF ImportKnows, After, Replaced, Wanted, NoRow, rowVars
    <3>4. r.name = "merge" => Merged' /\ given'.document.keys \subseteq callerRows'
      BY <1>3, <1>14, <2>2, <3>1 DEF ImportKnows, After, Merged, Wanted, NoRow, rowVars
    <3>5. opened' = OpenAll(masterKey)'
      <4>1. PICK all : all = OpenAll(masterKey)  OBVIOUS
      <4>2. all \in [ChannelNames -> AnyRow]  BY <4>1, OpenAllFits DEF SettingsInv, TablesFit
      <4>3. t.listed = Listing(all)  BY <2>2, <3>1, <4>1 DEF ImportKnows
      <4>4. opened' = all  BY <1>3, <4>2, <4>3, Published
      <4> QED  BY <1>3, <4>1, <4>4, OpenAllStays DEF rowVars
    <3> QED  BY <2>3, <3>2, <3>3, <3>4, <3>5 DEF ImportKnows, Left, StepOf
  <2> QED  BY <2>5, <2>6
<1>16. Left(t) > 1 => TaskFits(r)' /\ r.crossed = t.crossed /\ (~r.crossed => TaskKnows(r)')
  <2>1. ASSUME Left(t) > 1  PROVE t.op = "import"  BY <1>6, <2>1
  <2> QED  BY <1>3, <1>4, <1>14, <1>15, <2>1, OpSteps
<1>17. HandlersFit'
  BY <1>1, <1>3, <1>13, <1>16, Continued DEF SettingsInv, Left
<1> QED  BY <1>11, <1>12, <1>17 DEF SettingsInv

\* The form is read under the key in memory.
LEMMA FormRead ==
  ASSUME SettingsInv, NEW e \in Editors, ReadForm(e)
  PROVE  SettingsInv'
<1>1. PICK t : t = editors[e]  OBVIOUS
<1>2. PICK c : c = Open(vault[t.name].credential, masterKey)  OBVIOUS
<1>3. PICK task : task = [t EXCEPT !.form = <<c>>]  OBVIOUS
<1>4. CASE vault[t.name] = NoRow
  <2>1. Busy(e) /\ GivesUp(e)  BY <1>1, <1>4 DEF ReadForm, Does
  <2> QED  BY <2>1, StopsWell
<1>5. CASE vault[t.name] # NoRow
  <2>1. /\ Busy(e) /\ StepOf(t) = "form" /\ Continues(e, task) /\ UNCHANGED <<given, up>>
        /\ UNCHANGED rowVars /\ UNCHANGED memoryVars
    BY <1>1, <1>2, <1>3, <1>5 DEF ReadForm, Does, StepOf, Continues, RepoKey
  <2>2. TaskFits(t) /\ DOMAIN t = TaskFields  BY <1>1, <2>1, Working
  <2>3. t.op = "edit" /\ EditFits(t)  BY <2>1, <2>2, HeadsTell DEF TaskFits
  <2>4. Left(t) = 5  BY <2>1, <2>3, EditHeads
  <2>5. PICK r : r = [task EXCEPT !.todo = Tail(@)]  OBVIOUS
  <2>6. After(t, r) /\ r.form = <<c>>
    <3>1. /\ DOMAIN task = TaskFields /\ task.todo = t.todo /\ task.op = t.op
          /\ task.writes = t.writes /\ task.name = t.name /\ task.secret = t.secret
          /\ task.crossed = t.crossed /\ task.result = t.result /\ task.form = <<c>>
      BY <1>3, <2>2 DEF TaskFields
    <3> QED  BY <2>5, <3>1, Tailed DEF After
  <2>7. /\ r.todo \in EditTodo /\ Left(r) = 4 /\ DOMAIN r.writes = {} /\ r.name \in ChannelNames
        /\ r.secret \in Secrets \cup {"none"}
    BY <2>3, <2>4, <2>6, EditAfter
  <2>8. c \in Credentials
    <3>1. vault[t.name].credential \in Credentials /\ masterKey \in Keys
      BY <1>5, <2>3 DEF EditFits, SettingsInv, TablesFit, AnyRow, Rows
    <3> QED  BY <1>2, <3>1, OpenFits
  <2>9. OneForm(r.form)  BY <2>6, <2>8 DEF OneForm
  <2>10. EditFits(r)  BY <2>7, <2>9 DEF EditFits
  <2>11. EditFits(r)'  BY <2>1, <2>10, FitsStay DEF memoryVars
  <2>12. EditKnows(r)'  BY <2>7 DEF EditKnows, Left
  <2>13. TaskFits(r)' /\ r.crossed = t.crossed /\ (~r.crossed => TaskKnows(r)')
    BY <2>1, <2>2, <2>3, <2>6, <2>11, <2>12, OpSteps
  <2>14. rotated => rotated'  BY <2>1 DEF memoryVars
  <2>15. HandlersFit'
    BY <1>1, <2>1, <2>5, <2>13, <2>14, Continued DEF SettingsInv
  <2> QED  BY <2>1, <2>15, TablesStay DEF SettingsInv
<1> QED  BY <1>4, <1>5

\* restore_unchanged_credentials: the credential to save is the one of the
\* row, or a new secret.
LEMMA ChannelFound ==
  ASSUME SettingsInv, NEW e \in Editors, FindChannel(e)
  PROVE  SettingsInv'
<1>1. PICK t : t = editors[e]  OBVIOUS
<1>2. PICK read : read = Open(vault[t.name].credential, masterKey)  OBVIOUS
<1>3. PICK c : c = IF t.secret = "none" THEN read ELSE Fresh(t.secret)  OBVIOUS
<1>4. PICK task : task = [t EXCEPT !.form = <<c>>]  OBVIOUS
<1>5. CASE vault[t.name] = NoRow \/ (t.secret = "none" /\ t.form # <<read>>)
  <2>1. Busy(e) /\ GivesUp(e)  BY <1>1, <1>2, <1>5 DEF FindChannel, Does, RepoKey
  <2> QED  BY <2>1, StopsWell
<1>6. CASE ~(vault[t.name] = NoRow \/ (t.secret = "none" /\ t.form # <<read>>))
  <2>1. /\ Busy(e) /\ StepOf(t) = "find" /\ Continues(e, task) /\ UNCHANGED <<given, up>>
        /\ UNCHANGED rowVars /\ UNCHANGED memoryVars
    <3>1. <<c>> = IF t.secret = "none" THEN <<read>> ELSE <<Fresh(t.secret)>>  BY <1>3
    <3> QED  BY <1>1, <1>2, <1>4, <1>6, <3>1 DEF FindChannel, Does, StepOf, Continues, RepoKey
  <2>2. /\ TaskFits(t) /\ (~t.crossed => TaskKnows(t)) /\ DOMAIN t = TaskFields
    BY <1>1, <2>1, Working
  <2>3. t.op = "edit" /\ EditFits(t)  BY <2>1, <2>2, HeadsTell DEF TaskFits
  <2>4. Left(t) = 4  BY <2>1, <2>3, EditHeads
  <2>5. PICK r : r = [task EXCEPT !.todo = Tail(@)]  OBVIOUS
  <2>6. After(t, r) /\ r.form = <<c>>
    <3>1. /\ DOMAIN task = TaskFields /\ task.todo = t.todo /\ task.op = t.op
          /\ task.writes = t.writes /\ task.name = t.name /\ task.secret = t.secret
          /\ task.crossed = t.crossed /\ task.result = t.result /\ task.form = <<c>>
      BY <1>4, <2>2 DEF TaskFields
    <3> QED  BY <2>5, <3>1, Tailed DEF After
  <2>7. /\ r.todo \in EditTodo /\ Left(r) = 3 /\ DOMAIN r.writes = {} /\ r.name \in ChannelNames
        /\ r.secret \in Secrets \cup {"none"}
    BY <2>3, <2>4, <2>6, EditAfter
  <2>8. /\ vault[t.name].credential \in Credentials /\ masterKey \in Keys
        /\ vault[t.name].credential.secret = entered[t.name]
        /\ ~rotated => vault[t.name].credential.seals \in {Plain, <<masterKey>>}
    BY <1>6, <2>3 DEF EditFits, SettingsInv, TablesFit, CredentialsFit, AnyRow, Rows
  <2>9. /\ read \in Credentials /\ read.secret = entered[t.name]
        /\ ~rotated => read.seals = Plain
    BY <1>2, <2>8, OpenFits
  <2>10. c \in Credentials /\ (~rotated => c.seals = Plain)
         /\ (t.secret = "none" => c.secret = entered[t.name])
    <3>1. CASE t.secret = "none"  BY <1>3, <2>9, <3>1
    <3>2. CASE t.secret # "none"  BY <1>3, <2>3, <3>2, FreshFits DEF EditFits
    <3> QED  BY <3>1, <3>2
  <2>11. r.form[1] = c  BY <2>6
  <2>12. OneForm(r.form)  BY <2>6, <2>10, <2>11 DEF OneForm
  <2>13. EditFits(r)  BY <2>7, <2>10, <2>11, <2>12 DEF EditFits
  <2>14. EditFits(r)'  BY <2>1, <2>13, FitsStay DEF memoryVars
  <2>15. EditKnows(r)'
    <3>1. r.secret = "none" => r.form[1].secret = entered'[r.name]
      BY <2>1, <2>6, <2>10, <2>11 DEF After, rowVars
    <3>2. Len(r.todo) # 1  BY <2>7 DEF Left
    <3> QED  BY <3>1, <3>2 DEF EditKnows, Left
  <2>16. TaskFits(r)' /\ r.crossed = t.crossed /\ (~r.crossed => TaskKnows(r)')
    BY <2>1, <2>2, <2>3, <2>6, <2>14, <2>15, OpSteps
  <2>17. rotated => rotated'  BY <2>1 DEF memoryVars
  <2>18. HandlersFit'
    BY <1>1, <2>1, <2>5, <2>16, <2>17, Continued DEF SettingsInv
  <2> QED  BY <2>1, <2>18, TablesStay DEF SettingsInv
<1> QED  BY <1>5, <1>6

\* The row takes the credential, sealed if it was plain and there is a key.
LEMMA ChannelSaved ==
  ASSUME SettingsInv, NEW e \in Editors, SaveChannel(e)
  PROVE  SettingsInv'
<1>1. PICK t : t = editors[e]  OBVIOUS
<1>2. PICK n : n = t.name  OBVIOUS
<1>3. PICK c : c = t.form[1]  OBVIOUS
<1>4. CASE vault[n] = NoRow
  <2>1. Busy(e) /\ GivesUp(e)  BY <1>1, <1>2, <1>4 DEF SaveChannel, Does
  <2> QED  BY <2>1, StopsWell
<1>5. CASE vault[n] # NoRow
  <2>1. /\ Busy(e) /\ StepOf(t) = "save" /\ Continues(e, t) /\ UNCHANGED <<given, up>>
        /\ vault' = [vault EXCEPT ![n].credential = Seal(c, masterKey)]
        /\ entered' = IF t.secret # "none" \/ t.crossed
                        THEN [entered EXCEPT ![n] = c.secret] ELSE entered
        /\ UNCHANGED <<settingRows, keyRow, callerRows>> /\ UNCHANGED memoryVars
    BY <1>1, <1>2, <1>3, <1>5 DEF SaveChannel, Does, StepOf, Continues, RepoKey
  <2>2. /\ TaskFits(t) /\ (~t.crossed => TaskKnows(t)) /\ up /\ DOMAIN t = TaskFields
    BY <1>1, <2>1, Working
  <2>3. t.op = "edit" /\ EditFits(t)  BY <2>1, <2>2, HeadsTell DEF TaskFits
  <2>4. Left(t) = 3  BY <2>1, <2>3, EditHeads
  <2>5. n \in ChannelNames /\ c \in Credentials /\ (~rotated => c.seals = Plain)
    BY <1>2, <1>3, <2>3, <2>4 DEF EditFits, OneForm
  <2>6. /\ vault[n] \in Rows /\ masterKey \in Keys /\ vault \in [ChannelNames -> AnyRow]
        /\ entered \in [ChannelNames -> Secrets]
    BY <1>5, <2>5 DEF SettingsInv, TablesFit, AnyRow
  <2>7. PICK s : s = Seal(c, masterKey)  OBVIOUS
  <2>8. /\ s \in Credentials /\ s.secret = c.secret
        /\ ~rotated => s.seals \in {Plain, <<masterKey>>}
    BY <2>5, <2>6, <2>7, SealFits
  <2>9. PICK row : row = [vault[n] EXCEPT !.credential = s]  OBVIOUS
  <2>10. row \in Rows /\ row.credential = s  BY <2>6, <2>8, <2>9 DEF Rows
  <2>11. vault' = [vault EXCEPT ![n] = row]  BY <2>1, <2>7, <2>9
  <2>12. vault' \in [ChannelNames -> AnyRow]  BY <2>5, <2>6, <2>10, <2>11 DEF AnyRow
  <2>13. entered' \in [ChannelNames -> Secrets] /\ entered'[n] = c.secret
         /\ \A m \in ChannelNames : m # n => entered'[m] = entered[m]
    <3>1. c.secret \in Secrets  BY <2>5 DEF Credentials
    <3>2. ~(t.secret # "none" \/ t.crossed) => c.secret = entered[n]
      BY <1>2, <1>3, <2>2, <2>3, <2>4 DEF TaskKnows, EditKnows
    <3> QED  BY <2>1, <2>5, <2>6, <3>1, <3>2
  <2>14. TablesFit'
    BY <2>1, <2>12, <2>13 DEF SettingsInv, TablesFit, memoryVars, NothingIsHalfWritten,
                              ImportWrites, AnyRow, Keys, Values, Rows, Credentials
  <2>15. StartFits'  BY <2>1, <2>2 DEF StartFits
  <2>16. CredentialsFit'
    <3>1. ASSUME NEW m \in ChannelNames, vault'[m] # NoRow
          PROVE  /\ vault'[m].credential.secret = entered'[m]
                 /\ ~rotated => vault'[m].credential.seals \in {Plain, <<masterKey>>}
      <4>1. CASE m = n  BY <2>5, <2>6, <2>8, <2>10, <2>11, <2>13, <4>1
      <4>2. CASE m # n
        <5>1. vault'[m] = vault[m]  BY <2>6, <2>11, <4>2
        <5> QED  BY <2>13, <3>1, <4>2, <5>1 DEF SettingsInv, CredentialsFit
      <4> QED  BY <4>1, <4>2
    <3> QED  BY <2>1, <3>1 DEF CredentialsFit, memoryVars, NoRow, Plain
  <2>17. PICK r : r = [t EXCEPT !.todo = Tail(@)]  OBVIOUS
  <2>18. After(t, r)  BY <2>2, <2>17, Tailed DEF After
  <2>19. /\ r.todo \in EditTodo /\ Left(r) = 2 /\ DOMAIN r.writes = {} /\ r.name \in ChannelNames
         /\ r.secret \in Secrets \cup {"none"}
    BY <2>3, <2>4, <2>18, EditAfter
  <2>20. EditFits(r)  BY <2>19 DEF EditFits
  <2>21. EditFits(r)'  BY <2>1, <2>20, FitsStay DEF memoryVars
  <2>22. EditKnows(r)'  BY <2>19 DEF EditKnows, Left
  <2>23. TaskFits(r)' /\ r.crossed = t.crossed /\ (~r.crossed => TaskKnows(r)')
    BY <2>1, <2>2, <2>3, <2>18, <2>21, <2>22, OpSteps
  <2>24. rotated => rotated'  BY <2>1 DEF memoryVars
  <2>25. HandlersFit'
    BY <1>1, <2>1, <2>17, <2>23, <2>24, Continued DEF SettingsInv
  <2> QED  BY <2>14, <2>15, <2>16, <2>25 DEF SettingsInv
<1> QED  BY <1>4, <1>5

\* ApiKeyRepo::replace_all leaves the keys of the document.
LEMMA KeysReplaced ==
  ASSUME SettingsInv, NEW e \in Editors, ReplaceCallerKeys(e)
  PROVE  SettingsInv'
<1>1. PICK t : t = editors[e]  OBVIOUS
<1>2. /\ Busy(e) /\ StepOf(t) = "keys" /\ Continues(e, t) /\ UNCHANGED <<given, up>>
      /\ callerRows' = given.document.keys
      /\ UNCHANGED <<settingRows, keyRow, vault, entered>> /\ UNCHANGED memoryVars
  BY <1>1 DEF ReplaceCallerKeys, Does, StepOf, Continues
<1>3. /\ TaskFits(t) /\ (~t.crossed => TaskKnows(t)) /\ up /\ DOMAIN t = TaskFields
      /\ given \in Cases
  BY <1>1, <1>2, Working
<1>4. t.op = "import" /\ ImportFits(t)  BY <1>2, <1>3, HeadsTell DEF TaskFits
<1>5. Left(t) = 8 /\ t.name = "replace"  BY <1>2, <1>4, ImportHeads
<1>6. TablesFit'
  <2>1. callerRows' \subseteq CallerKeys  BY <1>2, <1>3, CaseFits
  <2> QED  BY <1>2, <2>1 DEF SettingsInv, TablesFit, memoryVars, NothingIsHalfWritten,
                             ImportWrites, AnyRow, Keys, Values, Rows, Credentials
<1>7. StartFits' /\ CredentialsFit'
  BY <1>2, <1>3 DEF SettingsInv, StartFits, CredentialsFit, memoryVars, NoRow, Plain
<1>8. PICK r : r = [t EXCEPT !.todo = Tail(@)]  OBVIOUS
<1>9. After(t, r) /\ r.reload = t.reload  BY <1>3, <1>8, Tailed DEF After
<1>10. ImportFits(r)' /\ (~t.crossed => ImportKnows(r)')
  <2>1. /\ (r.name = "replace" /\ r.todo \in ReplaceTodo) \/ (r.name = "merge" /\ r.todo \in MergeTodo)
        /\ Left(r) = 7 /\ r.writes = ImportWrites /\ StepOf(r) # "store"
    BY <1>4, <1>5, <1>9, ImportAfter
  <2>2. r.reload = <<"routing", "pricing">>  BY <1>4, <1>5, <1>9 DEF ImportFits
  <2>3. ImportFits(r)  BY <2>1, <2>2 DEF ImportFits
  <2>4. ImportFits(r)'  BY <1>2, <2>3, FitsStay DEF memoryVars
  <2>5. ASSUME ~t.crossed  PROVE ImportKnows(r)'
    <3>1. ImportKnows(t)  BY <1>3, <1>4, <2>5 DEF TaskKnows
    <3>2. r.name = "replace"  BY <1>5, <1>9 DEF After
    <3>3. Replaced' /\ callerRows' = given'.document.keys
      BY <1>2, <1>5, <3>1 DEF ImportKnows, Replaced, Wanted, NoRow
    <3> QED  BY <2>1, <3>2, <3>3 DEF ImportKnows, Left, StepOf
  <2> QED  BY <2>4, <2>5
<1>11. TaskFits(r)' /\ r.crossed = t.crossed /\ (~r.crossed => TaskKnows(r)')
  BY <1>2, <1>3, <1>4, <1>9, <1>10, OpSteps
<1>12. rotated => rotated'  BY <1>2 DEF memoryVars
<1>13. HandlersFit'
  BY <1>1, <1>2, <1>8, <1>11, <1>12, Continued DEF SettingsInv
<1> QED  BY <1>6, <1>7, <1>13 DEF SettingsInv

\* ApiKeyRepo::restore adds a key of the document, until all are there.
LEMMA KeyRestored ==
  ASSUME SettingsInv, NEW e \in Editors, RestoreCallerKey(e)
  PROVE  SettingsInv'
<1>1. PICK t : t = editors[e]  OBVIOUS
<1>2. PICK keys : keys = given.document.keys  OBVIOUS
<1>3. /\ Busy(e) /\ StepOf(t) = "restore" /\ UNCHANGED <<given, up>>
      /\ \/ keys \subseteq callerRows /\ Continues(e, t) /\ callerRows' = callerRows
         \/ /\ ~(keys \subseteq callerRows) /\ editors' = [editors EXCEPT ![e] = t]
            /\ callerRows' = callerRows \cup {CHOOSE k \in keys : k \notin callerRows}
      /\ UNCHANGED <<settingRows, keyRow, vault, entered>> /\ UNCHANGED memoryVars
  BY <1>1, <1>2 DEF RestoreCallerKey, Does, StepOf, Continues, Repeats
<1>4. /\ TaskFits(t) /\ (~t.crossed => TaskKnows(t)) /\ up /\ DOMAIN t = TaskFields
      /\ given \in Cases
  BY <1>1, <1>3, Working
<1>5. t.op = "import" /\ ImportFits(t)  BY <1>3, <1>4, HeadsTell DEF TaskFits
<1>6. Left(t) = 8 /\ t.name = "merge"  BY <1>3, <1>5, ImportHeads
<1>7. TablesFit'
  <2>1. keys \subseteq CallerKeys /\ callerRows \subseteq CallerKeys
    BY <1>2, <1>4, CaseFits DEF SettingsInv, TablesFit
  <2>2. callerRows' \subseteq CallerKeys  BY <1>3, <2>1
  <2> QED  BY <1>3, <2>2 DEF SettingsInv, TablesFit, memoryVars, NothingIsHalfWritten,
                             ImportWrites, AnyRow, Keys, Values, Rows, Credentials
<1>8. StartFits' /\ CredentialsFit'
  BY <1>3, <1>4 DEF SettingsInv, StartFits, CredentialsFit, memoryVars, NoRow, Plain
<1>9. rotated => rotated'  BY <1>3 DEF memoryVars
<1>10. ~t.crossed => Merged'
  BY <1>3, <1>4, <1>5, <1>6 DEF TaskKnows, ImportKnows, Merged, Wanted, NoRow
<1>11. CASE keys \subseteq callerRows
  <2>1. Continues(e, t) /\ callerRows' = callerRows  BY <1>3, <1>11
  <2>2. PICK r : r = [t EXCEPT !.todo = Tail(@)]  OBVIOUS
  <2>3. After(t, r) /\ r.reload = t.reload  BY <1>4, <2>2, Tailed DEF After
  <2>4. ImportFits(r)' /\ (~t.crossed => ImportKnows(r)')
    <3>1. /\ (r.name = "replace" /\ r.todo \in ReplaceTodo) \/ (r.name = "merge" /\ r.todo \in MergeTodo)
          /\ Left(r) = 7 /\ r.writes = ImportWrites /\ StepOf(r) # "store"
      BY <1>5, <1>6, <2>3, ImportAfter
    <3>2. r.reload = <<"routing", "pricing">>  BY <1>5, <1>6, <2>3 DEF ImportFits
    <3>3. ImportFits(r)  BY <3>1, <3>2 DEF ImportFits
    <3>4. ImportFits(r)'  BY <1>3, <1>9, <3>3, FitsStay
    <3>5. r.name = "merge" /\ given'.document.keys \subseteq callerRows'
      BY <1>2, <1>3, <1>6, <1>11, <2>1, <2>3 DEF After
    <3> QED  BY <1>10, <3>1, <3>4, <3>5 DEF ImportKnows, Left, StepOf
  <2>5. TaskFits(r)' /\ r.crossed = t.crossed /\ (~r.crossed => TaskKnows(r)')
    BY <1>3, <1>4, <1>5, <2>3, <2>4, OpSteps
  <2>6. HandlersFit'
    BY <1>1, <1>3, <1>9, <2>1, <2>2, <2>5, Continued DEF SettingsInv
  <2> QED  BY <1>7, <1>8, <2>6 DEF SettingsInv
<1>12. CASE ~(keys \subseteq callerRows)
  <2>1. editors' = [editors EXCEPT ![e] = t]  BY <1>3, <1>12
  <2>2. TaskFits(t)'  BY <1>3, <1>4, <1>9, TaskStays
  <2>3. ~t.crossed => ImportKnows(t)'
    <3>1. StepOf(t) # "store"  BY <1>3
    <3> QED  BY <1>6, <1>10, <3>1 DEF ImportKnows, Left, StepOf
  <2>4. ~t.crossed => TaskKnows(t)'  BY <1>5, <2>3 DEF TaskKnows
  <2>5. HandlersFit'
    BY <1>1, <1>3, <1>9, <2>1, <2>2, <2>4, HandlersKept DEF SettingsInv
  <2> QED  BY <1>7, <1>8, <2>5 DEF SettingsInv
<1> QED  BY <1>11, <1>12

\* merge takes the channels of the document no row is named as.
LEMMA NamesRead ==
  ASSUME SettingsInv, NEW e \in Editors, ReadNames(e)
  PROVE  SettingsInv'
<1>1. PICK t : t = editors[e]  OBVIOUS
<1>2. PICK names : names = {n \in DOMAIN Wanted : vault[n] = NoRow}  OBVIOUS
<1>3. PICK task : task = [t EXCEPT !.listed = names]  OBVIOUS
<1>4. /\ Busy(e) /\ StepOf(t) = "names" /\ Continues(e, task) /\ UNCHANGED <<given, up>>
      /\ UNCHANGED rowVars /\ UNCHANGED memoryVars
  BY <1>1, <1>2, <1>3 DEF ReadNames, Does, StepOf, Continues
<1>5. /\ TaskFits(t) /\ DOMAIN t = TaskFields  BY <1>1, <1>4, Working
<1>6. t.op = "import" /\ ImportFits(t)  BY <1>4, <1>5, HeadsTell DEF TaskFits
<1>7. Left(t) = 10 /\ t.name = "merge"  BY <1>4, <1>6, ImportHeads
<1>8. PICK r : r = [task EXCEPT !.todo = Tail(@)]  OBVIOUS
<1>9. After(t, r) /\ r.reload = t.reload /\ r.listed = names
  <2>1. /\ DOMAIN task = TaskFields /\ task.todo = t.todo /\ task.op = t.op
        /\ task.writes = t.writes /\ task.name = t.name /\ task.secret = t.secret
        /\ task.crossed = t.crossed /\ task.result = t.result /\ task.listed = names
        /\ task.reload = t.reload
    BY <1>3, <1>5 DEF TaskFields
  <2> QED  BY <1>8, <2>1, Tailed DEF After
<1>10. ImportFits(r)' /\ ImportKnows(r)'
  <2>1. /\ (r.name = "replace" /\ r.todo \in ReplaceTodo) \/ (r.name = "merge" /\ r.todo \in MergeTodo)
        /\ Left(r) = 9 /\ r.writes = ImportWrites /\ StepOf(r) # "store"
    BY <1>6, <1>7, <1>9, ImportAfter
  <2>2. r.reload = <<"routing", "pricing">>  BY <1>6, <1>7, <1>9 DEF ImportFits
  <2>3. r.name = "merge"  BY <1>7, <1>9 DEF After
  <2>4. r.listed \subseteq DOMAIN Wanted  BY <1>2, <1>9
  <2>5. ImportFits(r)  BY <2>1, <2>2, <2>4 DEF ImportFits
  <2>6. ImportFits(r)'  BY <1>4, <2>5, FitsStay DEF memoryVars
  <2>7. (\A n \in DOMAIN Wanted : n \in r.listed <=> vault[n] = NoRow)'
    BY <1>2, <1>4, <1>9 DEF Wanted, rowVars, NoRow
  <2> QED  BY <2>1, <2>3, <2>6, <2>7 DEF ImportKnows, Left, StepOf
<1>11. TaskFits(r)' /\ r.crossed = t.crossed /\ (~r.crossed => TaskKnows(r)')
  BY <1>4, <1>5, <1>6, <1>9, <1>10, OpSteps
<1>12. rotated => rotated'  BY <1>4 DEF memoryVars
<1>13. HandlersFit'
  BY <1>1, <1>4, <1>8, <1>11, <1>12, Continued DEF SettingsInv
<1> QED  BY <1>4, <1>13, TablesStay DEF SettingsInv

\* A channel of the document as a new row.
LEMMA NewRow ==
  ASSUME SettingsInv, NEW n \in DOMAIN Wanted, NEW row,
         row = RowOf(Seal(Fresh(Wanted[n]), masterKey), 1)
  PROVE  /\ row \in Rows /\ row # NoRow /\ row.copies = 1 /\ row.credential.secret = Wanted[n]
         /\ row.credential.seals \in {Plain, <<masterKey>>}
<1>1. Wanted[n] \in Secrets /\ masterKey \in Keys  BY CaseFits DEF SettingsInv, TablesFit
<1>2. PICK c : c = Fresh(Wanted[n])  OBVIOUS
<1>3. c \in Credentials /\ c.secret = Wanted[n] /\ c.seals = Plain  BY <1>1, <1>2, FreshFits
<1>4. PICK s : s = Seal(c, masterKey)  OBVIOUS
<1>5. s \in Credentials /\ s.secret = Wanted[n] /\ s.seals \in {Plain, <<masterKey>>}
  BY <1>1, <1>3, <1>4, SealFits
<1>6. 1 \in Nat \ {0}  OBVIOUS
<1>7. row = RowOf(s, 1)  BY <1>2, <1>4
<1> QED  BY <1>5, <1>6, <1>7, RowFits

\* ChannelRepo::replace_all leaves the channels of the document.
LEMMA ChannelsReplaced ==
  ASSUME SettingsInv, NEW e \in Editors, ReplaceChannels(e)
  PROVE  SettingsInv'
<1>1. PICK t : t = editors[e]  OBVIOUS
<1>2. /\ Busy(e) /\ StepOf(t) = "replace" /\ Continues(e, t) /\ UNCHANGED <<given, up>>
      /\ vault' = [n \in ChannelNames |->
                     IF n \in DOMAIN Wanted THEN RowOf(Seal(Fresh(Wanted[n]), masterKey), 1)
                     ELSE NoRow]
      /\ entered' = [n \in ChannelNames |-> IF n \in DOMAIN Wanted THEN Wanted[n] ELSE entered[n]]
      /\ UNCHANGED <<settingRows, keyRow, callerRows>> /\ UNCHANGED memoryVars
  BY <1>1 DEF ReplaceChannels, Does, StepOf, Continues, RepoKey
<1>3. /\ TaskFits(t) /\ up /\ DOMAIN t = TaskFields /\ given \in Cases
  BY <1>1, <1>2, Working
<1>4. t.op = "import" /\ ImportFits(t)  BY <1>2, <1>3, HeadsTell DEF TaskFits
<1>5. Left(t) = 9 /\ t.name = "replace"  BY <1>2, <1>4, ImportHeads
<1>6. \A n \in ChannelNames :
        IF n \in DOMAIN Wanted
          THEN /\ vault'[n] \in Rows /\ vault'[n] # NoRow /\ vault'[n].copies = 1
               /\ vault'[n].credential.secret = Wanted[n] /\ entered'[n] = Wanted[n]
               /\ vault'[n].credential.seals \in {Plain, <<masterKey>>}
          ELSE vault'[n] = NoRow /\ entered'[n] = entered[n]
  BY <1>2, NewRow
<1>7. TablesFit'
  <2>1. vault' \in [ChannelNames -> AnyRow]  BY <1>2, <1>6 DEF AnyRow
  <2>2. entered' \in [ChannelNames -> Secrets]
    BY <1>2, <1>3, CaseFits DEF SettingsInv, TablesFit
  <2> QED  BY <1>2, <2>1, <2>2 DEF SettingsInv, TablesFit, memoryVars, NothingIsHalfWritten,
                                   ImportWrites, AnyRow, Keys, Values, Rows, Credentials
<1>8. StartFits'  BY <1>2, <1>3 DEF StartFits
<1>9. CredentialsFit'  BY <1>2, <1>6 DEF CredentialsFit, memoryVars, NoRow, Plain
<1>10. PICK r : r = [t EXCEPT !.todo = Tail(@)]  OBVIOUS
<1>11. After(t, r) /\ r.reload = t.reload  BY <1>3, <1>10, Tailed DEF After
<1>12. ImportFits(r)' /\ ImportKnows(r)'
  <2>1. /\ (r.name = "replace" /\ r.todo \in ReplaceTodo) \/ (r.name = "merge" /\ r.todo \in MergeTodo)
        /\ Left(r) = 8 /\ r.writes = ImportWrites /\ StepOf(r) # "store"
    BY <1>4, <1>5, <1>11, ImportAfter
  <2>2. r.reload = <<"routing", "pricing">>  BY <1>4, <1>5, <1>11 DEF ImportFits
  <2>3. ImportFits(r)  BY <2>1, <2>2 DEF ImportFits
  <2>4. ImportFits(r)'  BY <1>2, <2>3, FitsStay DEF memoryVars
  <2>5. r.name = "replace"  BY <1>5, <1>11 DEF After
  <2>6. Replaced'  BY <1>2, <1>6 DEF Replaced, Wanted, NoRow
  <2> QED  BY <2>1, <2>4, <2>5, <2>6 DEF ImportKnows, Left, StepOf
<1>13. TaskFits(r)' /\ r.crossed = t.crossed /\ (~r.crossed => TaskKnows(r)')
  BY <1>2, <1>3, <1>4, <1>11, <1>12, OpSteps
<1>14. rotated => rotated'  BY <1>2 DEF memoryVars
<1>15. HandlersFit'
  BY <1>1, <1>2, <1>10, <1>13, <1>14, Continued DEF SettingsInv
<1> QED  BY <1>7, <1>8, <1>9, <1>15 DEF SettingsInv

\* One channel of the document is created; beside another handler its name may
\* be there by now.
LEMMA ChannelCreated ==
  ASSUME SettingsInv, NEW e \in Editors, CreateChannel(e)
  PROVE  SettingsInv'
<1>1. PICK t : t = editors[e]  OBVIOUS
<1>2. /\ Busy(e) /\ StepOf(t) = "create" /\ UNCHANGED <<given, up>>
      /\ UNCHANGED <<settingRows, keyRow, callerRows>> /\ UNCHANGED memoryVars
      /\ t.listed = {} => Continues(e, t) /\ UNCHANGED <<vault, entered>>
  BY <1>1 DEF CreateChannel, Does, StepOf, Continues, Repeats
<1>3. /\ TaskFits(t) /\ (~t.crossed => TaskKnows(t)) /\ up /\ DOMAIN t = TaskFields
      /\ given \in Cases
  BY <1>1, <1>2, Working
<1>4. t.op = "import" /\ ImportFits(t)  BY <1>2, <1>3, HeadsTell DEF TaskFits
<1>5. Left(t) = 9 /\ t.name = "merge"  BY <1>2, <1>4, ImportHeads
<1>6. t.listed \subseteq DOMAIN Wanted  BY <1>4, <1>5 DEF ImportFits
<1>7. rotated => rotated'  BY <1>2 DEF memoryVars
<1>8. ~t.crossed => \A n \in DOMAIN Wanted : n \in t.listed <=> vault[n] = NoRow
  BY <1>3, <1>4, <1>5 DEF TaskKnows, ImportKnows
<1>9. CASE t.listed = {}
  <2>1. Continues(e, t) /\ UNCHANGED <<vault, entered>>  BY <1>2, <1>9
  <2>2. UNCHANGED rowVars  BY <1>2, <2>1 DEF rowVars
  <2>3. PICK r : r = [t EXCEPT !.todo = Tail(@)]  OBVIOUS
  <2>4. After(t, r) /\ r.reload = t.reload  BY <1>3, <2>3, Tailed DEF After
  <2>5. ImportFits(r)' /\ (~t.crossed => ImportKnows(r)')
    <3>1. /\ (r.name = "replace" /\ r.todo \in ReplaceTodo) \/ (r.name = "merge" /\ r.todo \in MergeTodo)
          /\ Left(r) = 8 /\ r.writes = ImportWrites /\ StepOf(r) # "store"
      BY <1>4, <1>5, <2>4, ImportAfter
    <3>2. r.reload = <<"routing", "pricing">>  BY <1>4, <1>5, <2>4 DEF ImportFits
    <3>3. ImportFits(r)  BY <3>1, <3>2 DEF ImportFits
    <3>4. ImportFits(r)'  BY <1>2, <1>7, <3>3, FitsStay
    <3>5. r.name = "merge"  BY <1>5, <2>4 DEF After
    <3>6. ~t.crossed => Merged'  BY <1>2, <1>8, <1>9, <2>1 DEF Merged, Wanted, NoRow
    <3> QED  BY <3>1, <3>4, <3>5, <3>6 DEF ImportKnows, Left, StepOf
  <2>6. TaskFits(r)' /\ r.crossed = t.crossed /\ (~r.crossed => TaskKnows(r)')
    BY <1>2, <1>3, <1>4, <2>4, <2>5, OpSteps
  <2>7. HandlersFit'
    BY <1>1, <1>2, <1>7, <2>1, <2>3, <2>6, Continued DEF SettingsInv
  <2> QED  BY <1>2, <2>2, <2>7, TablesStay DEF SettingsInv
<1>10. CASE t.listed # {}
  <2>1. PICK n : n = CHOOSE m \in t.listed : TRUE  OBVIOUS
  <2>2. n \in t.listed  BY <1>10, <2>1
  <2>3. PICK fresh : fresh = RowOf(Seal(Fresh(Wanted[n]), masterKey), 1)  OBVIOUS
  <2>4. PICK more : more = RowOf(vault[n].credential, vault[n].copies + 1)  OBVIOUS
  <2>5. PICK row : row = IF vault[n] = NoRow THEN fresh ELSE more  OBVIOUS
  <2>6. PICK s : s = [t EXCEPT !.listed = @ \ {n}]  OBVIOUS
  <2>7. /\ vault' = [vault EXCEPT ![n] = row]
        /\ entered' = IF vault[n] = NoRow THEN [entered EXCEPT ![n] = Wanted[n]] ELSE entered
        /\ editors' = [editors EXCEPT ![e] = s]
    BY <1>1, <1>10, <2>1, <2>3, <2>4, <2>5, <2>6 DEF CreateChannel, Repeats, RepoKey
  <2>8. /\ n \in DOMAIN Wanted /\ n \in ChannelNames /\ Wanted[n] \in Secrets
    BY <1>3, <1>6, <2>2, CaseFits
  <2>9. vault \in [ChannelNames -> AnyRow] /\ entered \in [ChannelNames -> Secrets]
    BY DEF SettingsInv, TablesFit
  <2>10. vault[n] # NoRow =>
           /\ more \in Rows /\ more # NoRow /\ more.credential = vault[n].credential
    <3>1. vault[n] # NoRow => vault[n].credential \in Credentials /\ vault[n].copies + 1 \in Nat \ {0}
      BY <2>8, <2>9 DEF AnyRow, Rows
    <3> QED  BY <2>4, <3>1, RowFits
  <2>11. row \in Rows /\ row # NoRow
    BY <2>3, <2>5, <2>8, <2>10, NewRow
  <2>12. /\ entered' \in [ChannelNames -> Secrets]
         /\ \A m \in ChannelNames : m # n => entered'[m] = entered[m]
         /\ entered'[n] = IF vault[n] = NoRow THEN Wanted[n] ELSE entered[n]
    BY <2>7, <2>8, <2>9
  <2>13. /\ row.credential.secret = entered'[n]
         /\ ~rotated => row.credential.seals \in {Plain, <<masterKey>>}
    <3>1. CASE vault[n] = NoRow
      <4>1. fresh.credential.secret = Wanted[n] /\ fresh.credential.seals \in {Plain, <<masterKey>>}
        BY <2>3, <2>8, NewRow
      <4> QED  BY <2>5, <2>12, <3>1, <4>1
    <3>2. CASE vault[n] # NoRow
      <4>1. /\ vault[n].credential.secret = entered[n]
            /\ ~rotated => vault[n].credential.seals \in {Plain, <<masterKey>>}
        BY <2>8, <3>2 DEF SettingsInv, CredentialsFit
      <4> QED  BY <2>5, <2>10, <2>12, <3>2, <4>1
    <3> QED  BY <3>1, <3>2
  <2>14. vault' \in [ChannelNames -> AnyRow] /\ vault'[n] = row
         /\ \A m \in ChannelNames : m # n => vault'[m] = vault[m]
    BY <2>7, <2>8, <2>9, <2>11 DEF AnyRow
  <2>15. TablesFit'
    BY <1>2, <2>12, <2>14 DEF SettingsInv, TablesFit, memoryVars, NothingIsHalfWritten,
                              ImportWrites, AnyRow, Keys, Values, Rows, Credentials
  <2>16. StartFits'  BY <1>2, <1>3 DEF StartFits
  <2>17. CredentialsFit'
    <3>1. ASSUME NEW m \in ChannelNames, vault'[m] # NoRow
          PROVE  /\ vault'[m].credential.secret = entered'[m]
                 /\ ~rotated => vault'[m].credential.seals \in {Plain, <<masterKey>>}
      <4>1. CASE m = n  BY <2>13, <2>14, <4>1
      <4>2. CASE m # n
        <5>1. vault'[m] = vault[m] /\ entered'[m] = entered[m]  BY <2>12, <2>14, <4>2
        <5> QED  BY <3>1, <5>1 DEF SettingsInv, CredentialsFit
      <4> QED  BY <4>1, <4>2
    <3> QED  BY <1>2, <3>1 DEF CredentialsFit, memoryVars, NoRow, Plain
  <2>18. /\ DOMAIN s = TaskFields /\ s.todo = t.todo /\ s.op = t.op
         /\ s.writes = t.writes /\ s.name = t.name /\ s.secret = t.secret
         /\ s.crossed = t.crossed /\ s.result = t.result /\ s.listed = t.listed \ {n}
         /\ s.reload = t.reload /\ s.got = t.got
    BY <1>3, <2>6 DEF TaskFields
  <2>19. Left(s) = 9 /\ s.name = "merge" /\ StepOf(s) # "store" /\ s.op = "import"
    BY <1>2, <1>4, <1>5, <2>18 DEF Left, StepOf
  <2>20. ImportFits(s)
    <3>1. s.reload = <<"routing", "pricing">>  BY <1>4, <1>5, <2>18 DEF ImportFits
    <3>2. s.todo \in MergeTodo /\ s.writes = ImportWrites  BY <1>4, <1>5, <2>18 DEF ImportFits
    <3>3. s.listed \subseteq DOMAIN Wanted  BY <1>6, <2>18
    <3> QED  BY <2>19, <3>1, <3>2, <3>3 DEF ImportFits
  <2>21. TaskFits(s)'
    <3>1. TaskFits(s)  BY <1>3, <1>4, <2>18, <2>20 DEF TaskFits
    <3> QED  BY <1>2, <1>7, <3>1, TaskStays
  <2>22. ASSUME ~t.crossed  PROVE TaskKnows(s)'
    <3>1. ASSUME NEW m \in DOMAIN Wanted  PROVE m \in s.listed <=> vault'[m] = NoRow
      <4>1. m \in ChannelNames  BY <1>3, CaseFits
      <4>2. CASE m = n  BY <2>11, <2>14, <2>18, <4>2
      <4>3. CASE m # n  BY <1>8, <2>14, <2>18, <2>22, <4>1, <4>3
      <4> QED  BY <4>2, <4>3
    <3>2. ImportKnows(s)'
      <4>1. (\A m \in DOMAIN Wanted : m \in s.listed <=> vault[m] = NoRow)'
        BY <1>2, <3>1 DEF Wanted, NoRow
      <4> QED  BY <2>19, <4>1 DEF ImportKnows, Left, StepOf
    <3> QED  BY <2>19, <3>2 DEF TaskKnows
  <2>23. HandlersFit'
    BY <1>1, <1>2, <1>7, <2>7, <2>18, <2>21, <2>22, HandlersKept DEF SettingsInv
  <2> QED  BY <2>15, <2>16, <2>17, <2>23 DEF SettingsInv
<1> QED  BY <1>9, <1>10

\* A task that was crossed fits as before.
LEMMA CrossedFits ==
  ASSUME NEW t, TaskFits(t), NEW r, r = [t EXCEPT !.crossed = TRUE]
  PROVE  TaskFits(r) /\ r.crossed = TRUE
<1>1. /\ DOMAIN r = TaskFields /\ r.todo = t.todo /\ r.op = t.op /\ r.writes = t.writes
      /\ r.reload = t.reload /\ r.got = t.got /\ r.listed = t.listed /\ r.name = t.name
      /\ r.secret = t.secret /\ r.form = t.form /\ r.newKey = t.newKey
      /\ r.crossed = TRUE /\ r.result = t.result
  BY DEF TaskFits, TaskFields
<1>2. SetFits(t) => SetFits(r)  BY <1>1 DEF SetFits, StepOf
<1>3. KeyFits(t) => KeyFits(r)  BY <1>1 DEF KeyFits, Left, Listed
<1>4. EditFits(t) => EditFits(r)  BY <1>1 DEF EditFits, Left, Listed
<1>5. ImportFits(t) => ImportFits(r)  BY <1>1 DEF ImportFits, Left, StepOf, Listed
<1> QED  BY <1>1, <1>2, <1>3, <1>4, <1>5 DEF TaskFits

\* A request begins, and crosses those at work.
LEMMA Begun ==
  ASSUME SettingsInv, NEW e \in Editors, NEW op, NEW task, Begins(e, op, task), NEW x \in BOOLEAN,
         x <=> (\E g \in Editors \ {e} : Busy(g)),
         NEW s, s = [task EXCEPT !.op = op, !.crossed = x], TaskFits(s), TaskKnows(s)'
  PROVE  SettingsInv'
<1>1. /\ editors' = [f \in Editors |-> IF f = e THEN s
                                       ELSE IF Busy(f) THEN [editors[f] EXCEPT !.crossed = TRUE]
                                       ELSE editors[f]]
      /\ up /\ UNCHANGED <<given, up>> /\ UNCHANGED rowVars /\ UNCHANGED memoryVars
  <2>1. x = (\E g \in Editors \ {e} : Busy(g))  OBVIOUS
  <2> QED  BY <2>1 DEF Begins
<1>2. rotated => rotated'  BY <1>1 DEF memoryVars
<1>3. TablesFit'
  BY <1>1 DEF SettingsInv, TablesFit, rowVars, memoryVars, NothingIsHalfWritten, ImportWrites,
              AnyRow, Keys, Values, Rows, Credentials
<1>4. StartFits' /\ CredentialsFit'
  BY <1>1 DEF SettingsInv, StartFits, CredentialsFit, rowVars, memoryVars, NoRow, Plain
<1>5. s.crossed = x /\ s.todo # <<>>
  <2>1. s.todo # <<>>  BY HeadsTell
  <2>2. DOMAIN s = TaskFields /\ DOMAIN task = DOMAIN s  BY DEF TaskFits
  <2> QED  BY <2>1, <2>2 DEF TaskFields
<1>6. ASSUME NEW f \in Editors, f # e, Busy(f)
      PROVE  TaskFits(editors'[f]) /\ editors'[f].crossed = TRUE
  <2>1. TaskFits(editors[f])  BY <1>6 DEF SettingsInv, HandlersFit, Busy, Idle
  <2>2. PICK r : r = [editors[f] EXCEPT !.crossed = TRUE]  OBVIOUS
  <2>3. editors'[f] = r  BY <1>1, <1>6, <2>2
  <2>4. TaskFits(r) /\ r.crossed = TRUE  BY <2>1, <2>2, CrossedFits
  <2> QED  BY <2>3, <2>4
<1>7. ASSUME NEW f \in Editors, f # e, ~Busy(f)
      PROVE  editors'[f] = editors[f] /\ Idle(editors[f])
  <2>1. ~TaskFits(editors[f])  BY <1>7, HeadsTell DEF Busy
  <2> QED  BY <1>1, <1>7, <2>1 DEF SettingsInv, HandlersFit
<1>8. HandlersFit'
  <2>1. DOMAIN editors' = Editors  BY <1>1
  <2>2. \A f \in Editors : Idle(editors'[f]) \/ TaskFits(editors'[f])
    BY <1>1, <1>6, <1>7
  <2>3. \A f \in Editors : (Idle(editors[f]) \/ TaskFits(editors[f]))'
    <3>1. TAKE f \in Editors
    <3>2. PICK t : t = editors'[f]  OBVIOUS
    <3>3. Idle(t) \/ TaskFits(t)  BY <2>2, <3>2
    <3>4. (Idle(t) \/ TaskFits(t))'  BY <1>1, <1>2, <3>3, TaskStays DEF Idle, TaskFields
    <3> QED  BY <3>2, <3>4 DEF TaskFits, Idle
  <2>4. \A f, g \in Editors : (f # g /\ Busy(f)' /\ Busy(g)') => editors'[f].crossed
    <3>1. TAKE f, g \in Editors
    <3>2. HAVE f # g /\ Busy(f)' /\ Busy(g)'
    <3>3. CASE f = e
      <4>1. Busy(g)  BY <1>7, <3>2, <3>3 DEF Busy
      <4>2. x  BY <3>2, <3>3, <4>1
      <4> QED  BY <1>1, <1>5, <3>3, <4>2
    <3>4. CASE f # e
      <4>1. Busy(f)  BY <1>7, <3>2, <3>4 DEF Busy
      <4> QED  BY <1>6, <3>4, <4>1
    <3> QED  BY <3>3, <3>4
  <2>5. \A f \in Editors : (Busy(f)' /\ ~editors'[f].crossed) => TaskKnows(editors[f])'
    <3>1. TAKE f \in Editors
    <3>2. HAVE Busy(f)' /\ ~editors'[f].crossed
    <3>3. f = e
      <4> SUFFICES ASSUME f # e PROVE FALSE  OBVIOUS
      <4>1. Busy(f)  BY <1>7, <3>2 DEF Busy
      <4> QED  BY <1>6, <3>2, <4>1
    <3> QED  BY <1>1, <3>3 DEF TaskKnows
  <2> QED  BY <2>1, <2>3, <2>4, <2>5 DEF HandlersFit, Busy
<1> QED  BY <1>3, <1>4, <1>8 DEF SettingsInv

\* A setter begins.
LEMMA SetBegins ==
  ASSUME SettingsInv, NEW e \in Editors, NEW op \in {"set", "notify"}, NEW task,
         Begins(e, op, task), DOMAIN task = TaskFields, task.result = "none",
         WritesFit(task.writes),
         \/ task.todo = <<"write">> /\ DOMAIN task.writes \cap Copied = {}
         \/ /\ task.todo = <<"write", "read", "store">>
            /\ \E n \in Copied : task.reload = <<n>> /\ DOMAIN task.writes \cap Copied = {n}
  PROVE  SettingsInv'
<1>1. PICK x \in BOOLEAN : x <=> (\E g \in Editors \ {e} : Busy(g))  OBVIOUS
<1>2. PICK s : s = [task EXCEPT !.op = op, !.crossed = x]  OBVIOUS
<1>3. /\ DOMAIN s = TaskFields /\ s.op = op /\ s.crossed = x /\ s.todo = task.todo
      /\ s.writes = task.writes /\ s.reload = task.reload /\ s.result = task.result
  BY <1>2 DEF TaskFields
<1>4. s.todo \in SetTodo /\ StepOf(s) = "write" /\ (s.todo = <<"write">> \/ s.todo # <<"write">>)
  BY <1>3, SetProgram DEF SetTodo, StepOf
<1>5. <<"write", "read", "store">> # <<"write">>
  <2>1. Len(<<"write", "read", "store">>) = 3 /\ Len(<<"write">>) = 1  OBVIOUS
  <2> QED  BY <2>1
<1>6. SetFits(s)  BY <1>3, <1>4, <1>5 DEF SetFits
<1>7. op \in given.ops  BY DEF Begins
<1>8. TaskFits(s)  BY <1>3, <1>6, <1>7 DEF TaskFits
<1>9. TaskKnows(s)'  BY <1>3, <1>4 DEF TaskKnows, SetKnows, StepOf
<1> QED  BY <1>1, <1>2, <1>8, <1>9, Begun

\* set_policy, set_pricing, set_retention and set_notify begin.
LEMMA SettingsBegin ==
  ASSUME SettingsInv, NEW e \in Editors, SetSetting(e) \/ SetRetention(e) \/ SetNotify(e)
  PROVE  SettingsInv'
<1>1. CASE SetSetting(e)
  <2>1. PICK n \in {"routing", "pricing"}, v \in SettingValues :
          Begins(e, "set", [NoEdit EXCEPT !.todo = <<"write", "read", "store">>,
                                    !.writes = [m \in {n} |-> v], !.reload = <<n>>])
    BY <1>1 DEF SetSetting
  <2>2. PICK w : w = [m \in {n} |-> v]  OBVIOUS
  <2>3. PICK task : task = [NoEdit EXCEPT !.todo = <<"write", "read", "store">>,
                                    !.writes = w, !.reload = <<n>>]
    OBVIOUS
  <2>4. /\ DOMAIN task = TaskFields /\ task.result = "none" /\ task.writes = w
        /\ task.todo = <<"write", "read", "store">> /\ task.reload = <<n>>
    BY <2>3 DEF NoEdit, TaskFields
  <2>5. n \in Copied /\ n \in SettingNames /\ n # "webhook" /\ n # "retest"
    BY DEF Copied, Lenient, Strict, SettingNames
  <2>6. WritesFit(w)  BY <2>2, <2>5 DEF WritesFit
  <2>7. DOMAIN w \cap Copied = {n}  BY <2>2, <2>5
  <2>8. Begins(e, "set", task)  BY <2>1, <2>2, <2>3
  <2> QED  BY <2>4, <2>5, <2>6, <2>7, <2>8, SetBegins
<1>2. CASE SetRetention(e)
  <2>1. PICK v \in SettingValues :
          Begins(e, "set", [NoEdit EXCEPT !.todo = <<"write">>,
                                    !.writes = [m \in {"retention"} |-> v]])
    BY <1>2 DEF SetRetention
  <2>2. PICK w : w = [m \in {"retention"} |-> v]  OBVIOUS
  <2>3. PICK task : task = [NoEdit EXCEPT !.todo = <<"write">>, !.writes = w]  OBVIOUS
  <2>4. /\ DOMAIN task = TaskFields /\ task.result = "none" /\ task.writes = w
        /\ task.todo = <<"write">>
    BY <2>3 DEF NoEdit, TaskFields
  <2>5. "retention" \in SettingNames  BY DEF Uncached, SettingNames
  <2>6. WritesFit(w)  BY <2>2, <2>5 DEF WritesFit
  <2>7. DOMAIN w \cap Copied = {}  BY <2>2 DEF Copied, Lenient, Strict
  <2>8. Begins(e, "set", task)  BY <2>1, <2>2, <2>3
  <2> QED  BY <2>4, <2>6, <2>7, <2>8, SetBegins
<1>3. CASE SetNotify(e)
  <2>1. PICK v \in SettingValues \cup {Unset} :
          Begins(e, "notify",
            [NoEdit EXCEPT !.todo = <<"write", "read", "store">>, !.reload = <<"webhook">>,
                           !.writes = [m \in {"webhook", "retest"} |-> v]])
    BY <1>3 DEF SetNotify
  <2>2. PICK w : w = [m \in {"webhook", "retest"} |-> v]  OBVIOUS
  <2>3. PICK task : task = [NoEdit EXCEPT !.todo = <<"write", "read", "store">>,
                                    !.reload = <<"webhook">>, !.writes = w]
    OBVIOUS
  <2>4. /\ DOMAIN task = TaskFields /\ task.result = "none" /\ task.writes = w
        /\ task.todo = <<"write", "read", "store">> /\ task.reload = <<"webhook">>
    BY <2>3 DEF NoEdit, TaskFields
  <2>5. {"webhook", "retest"} \subseteq SettingNames /\ "webhook" \in Copied /\ "retest" \notin Copied
    BY DEF Uncached, SettingNames, Copied, Lenient, Strict
  <2>6. WritesFit(w)  BY <2>2, <2>5 DEF WritesFit
  <2>7. DOMAIN w \cap Copied = {"webhook"}  BY <2>2, <2>5
  <2>8. Begins(e, "notify", task)  BY <2>1, <2>2, <2>3
  <2> QED  BY <2>4, <2>5, <2>6, <2>7, <2>8, SetBegins
<1> QED  BY <1>1, <1>2, <1>3

\* A change of the master key begins.
LEMMA KeyBegins ==
  ASSUME SettingsInv, NEW e \in Editors, SetMasterKey(e)
  PROVE  SettingsInv'
<1>1. PICK k \in MasterKeys \cup {NoKey} :
        Begins(e, "key", [NoEdit EXCEPT !.todo = <<"write_key", "read_key", "store_key",
                                                   "list", "publish">>, !.newKey = k])
  BY DEF SetMasterKey
<1>2. PICK task : task = [NoEdit EXCEPT !.todo = <<"write_key", "read_key", "store_key",
                                                   "list", "publish">>, !.newKey = k]
  OBVIOUS
<1>3. /\ DOMAIN task = TaskFields /\ task.result = "none" /\ task.writes = <<>>
      /\ task.todo = <<"write_key", "read_key", "store_key", "list", "publish">>
      /\ task.newKey = k
  BY <1>2 DEF NoEdit, TaskFields
<1>4. PICK x \in BOOLEAN : x <=> (\E g \in Editors \ {e} : Busy(g))  OBVIOUS
<1>5. PICK s : s = [task EXCEPT !.op = "key", !.crossed = x]  OBVIOUS
<1>6. /\ DOMAIN s = TaskFields /\ s.op = "key" /\ s.crossed = x /\ s.todo = task.todo
      /\ s.writes = <<>> /\ s.newKey = k /\ s.result = "none"
  BY <1>3, <1>5 DEF TaskFields
<1>7. Left(s) = 5
  <2>1. Len(<<"write_key", "read_key", "store_key", "list", "publish">>) = 5  OBVIOUS
  <2> QED  BY <1>3, <1>6, <2>1 DEF Left
<1>8. DOMAIN s.writes = {}  BY <1>6
<1>9. KeyFits(s)  BY <1>3, <1>6, <1>7, <1>8 DEF KeyFits, KeyTodo, Keys
<1>10. Begins(e, "key", task)  BY <1>1, <1>2
<1>11. "key" \in given.ops  BY <1>10 DEF Begins
<1>12. TaskFits(s)  BY <1>6, <1>9, <1>11 DEF TaskFits
<1>13. TaskKnows(s)'  BY <1>6, <1>7 DEF TaskKnows, KeyKnows, Left
<1> QED  BY <1>4, <1>5, <1>10, <1>12, <1>13, Begun

\* An edit begins.
LEMMA EditBegins ==
  ASSUME SettingsInv, NEW e \in Editors, EditChannel(e)
  PROVE  SettingsInv'
<1>1. PICK n \in ChannelNames, c \in Secrets \cup {"none"} :
        Begins(e, "edit", [NoEdit EXCEPT !.todo = <<"form", "find", "save", "list", "publish">>,
                                         !.name = n, !.secret = c])
  BY DEF EditChannel
<1>2. PICK task : task = [NoEdit EXCEPT !.todo = <<"form", "find", "save", "list", "publish">>,
                                         !.name = n, !.secret = c]
  OBVIOUS
<1>3. /\ DOMAIN task = TaskFields /\ task.result = "none" /\ task.writes = <<>>
      /\ task.todo = <<"form", "find", "save", "list", "publish">>
      /\ task.name = n /\ task.secret = c
  BY <1>2 DEF NoEdit, TaskFields
<1>4. PICK x \in BOOLEAN : x <=> (\E g \in Editors \ {e} : Busy(g))  OBVIOUS
<1>5. PICK s : s = [task EXCEPT !.op = "edit", !.crossed = x]  OBVIOUS
<1>6. /\ DOMAIN s = TaskFields /\ s.op = "edit" /\ s.crossed = x /\ s.todo = task.todo
      /\ s.writes = <<>> /\ s.name = n /\ s.secret = c /\ s.result = "none"
  BY <1>3, <1>5 DEF TaskFields
<1>7. Left(s) = 5
  <2>1. Len(<<"form", "find", "save", "list", "publish">>) = 5  OBVIOUS
  <2> QED  BY <1>3, <1>6, <2>1 DEF Left
<1>8. DOMAIN s.writes = {}  BY <1>6
<1>9. EditFits(s)  BY <1>3, <1>6, <1>7, <1>8 DEF EditFits, EditTodo
<1>10. Begins(e, "edit", task)  BY <1>1, <1>2
<1>11. "edit" \in given.ops  BY <1>10 DEF Begins
<1>12. TaskFits(s)  BY <1>6, <1>9, <1>11 DEF TaskFits
<1>13. TaskKnows(s)'  BY <1>6, <1>7 DEF TaskKnows, EditKnows, Left
<1> QED  BY <1>4, <1>5, <1>10, <1>12, <1>13, Begun

\* An import begins.
LEMMA ImportBegins ==
  ASSUME SettingsInv, NEW e \in Editors, ReplaceByImport(e) \/ MergeByImport(e)
  PROVE  SettingsInv'
<1>1. PICK todo, name :
        /\ \/ todo = ReplaceSteps /\ name = "replace"
           \/ todo = MergeSteps /\ name = "merge"
        /\ Begins(e, "import", [NoEdit EXCEPT !.todo = todo, !.name = name,
                    !.writes = ImportWrites, !.reload = <<"routing", "pricing">>])
  BY DEF ReplaceByImport, MergeByImport
<1>2. PICK w : w = ImportWrites  OBVIOUS
<1>3. PICK task : task = [NoEdit EXCEPT !.todo = todo, !.name = name,
                    !.writes = w, !.reload = <<"routing", "pricing">>]
  OBVIOUS
<1>4. /\ DOMAIN task = TaskFields /\ task.result = "none" /\ task.writes = w
      /\ task.todo = todo /\ task.name = name /\ task.reload = <<"routing", "pricing">>
  BY <1>3 DEF NoEdit, TaskFields
<1>5. PICK x \in BOOLEAN : x <=> (\E g \in Editors \ {e} : Busy(g))  OBVIOUS
<1>6. PICK s : s = [task EXCEPT !.op = "import", !.crossed = x]  OBVIOUS
<1>7. /\ DOMAIN s = TaskFields /\ s.op = "import" /\ s.crossed = x /\ s.todo = todo
      /\ s.writes = w /\ s.name = name /\ s.reload = <<"routing", "pricing">> /\ s.result = "none"
  BY <1>4, <1>6 DEF TaskFields
<1>8. (name = "replace" /\ s.todo \in ReplaceTodo) \/ (name = "merge" /\ s.todo \in MergeTodo)
  BY <1>1, <1>7 DEF ReplaceTodo, MergeTodo, ReplaceSteps, MergeSteps
<1>9. \/ name = "replace" /\ Left(s) = 9 /\ StepOf(s) = "replace"
      \/ name = "merge" /\ Left(s) = 10 /\ StepOf(s) = "names"
  <2>1. /\ Len(ReplaceSteps) = 9 /\ Head(ReplaceSteps) = "replace"
        /\ Len(MergeSteps) = 10 /\ Head(MergeSteps) = "names"
    BY DEF ReplaceSteps, MergeSteps
  <2> QED  BY <1>1, <1>7, <2>1 DEF Left, StepOf
<1>10. ImportFits(s)  BY <1>2, <1>7, <1>8, <1>9 DEF ImportFits
<1>11. Begins(e, "import", task)  BY <1>1, <1>2, <1>3
<1>12. "import" \in given.ops  BY <1>11 DEF Begins
<1>13. TaskFits(s)  BY <1>7, <1>10, <1>12 DEF TaskFits
<1>14. TaskKnows(s)'
  <2>1. CASE name = "replace" /\ Len(s.todo) = 9 /\ Head(s.todo) = "replace"
    <3>1. ImportKnows(s)'  BY <1>7, <2>1 DEF ImportKnows, Left, StepOf
    <3> QED  BY <1>7, <3>1 DEF TaskKnows
  <2>2. CASE name = "merge" /\ Len(s.todo) = 10 /\ Head(s.todo) = "names"
    <3>1. ImportKnows(s)'  BY <1>7, <2>2 DEF ImportKnows, Left, StepOf
    <3> QED  BY <1>7, <3>1 DEF TaskKnows
  <2> QED  BY <1>9, <2>1, <2>2 DEF Left, StepOf
<1> QED  BY <1>5, <1>6, <1>11, <1>13, <1>14, Begun

\* The first start.
LEMMA SettingsStarts == SettingsInit => SettingsInv
<1> SUFFICES ASSUME SettingsInit PROVE SettingsInv  OBVIOUS
<1>1. given \in Cases /\ masterKey = given.explicit /\ masterKey \in Keys /\ keyRow = NoKey
  BY CaseFits DEF SettingsInit
<1>2. given.broken \subseteq SettingNames /\ given.callers \subseteq CallerKeys
  BY <1>1, CaseFits
<1>3. entered \in [ChannelNames -> Secrets]
  <2>1. (CHOOSE s \in Secrets : TRUE) \in Secrets  BY SettingsConstants
  <2> QED  BY <2>1 DEF SettingsInit
<1>4. ASSUME NEW n \in ChannelNames
      PROVE  /\ vault[n] \in AnyRow
             /\ vault[n] # NoRow => /\ vault[n].credential.secret = entered[n]
                                    /\ vault[n].credential.seals = Plain
  <2>1. entered[n] \in Secrets  BY <1>3
  <2>2. PICK c : c = Fresh(entered[n])  OBVIOUS
  <2>3. c \in Credentials /\ c.secret = entered[n] /\ c.seals = Plain  BY <2>1, <2>2, FreshFits
  <2>4. PICK row : row = RowOf(c, 1)  OBVIOUS
  <2>5. 1 \in Nat \ {0}  OBVIOUS
  <2>6. row \in Rows /\ row # NoRow /\ row.credential = c  BY <2>3, <2>4, <2>5, RowFits
  <2>7. vault[n] = row \/ vault[n] = NoRow  BY <2>2, <2>4 DEF SettingsInit
  <2> QED  BY <2>3, <2>6, <2>7 DEF AnyRow
<1>5. vault \in [ChannelNames -> AnyRow]  BY <1>4 DEF SettingsInit
<1>6. opened \in [ChannelNames -> AnyRow]  BY <1>1, <1>5, OpenAllFits DEF SettingsInit
<1>7. settingRows = [n \in SettingNames |-> IF n \in given.broken THEN Unreadable ELSE Unset]
  BY DEF SettingsInit
<1>8. NothingIsHalfWritten
  <2>1. DOMAIN ImportWrites \subseteq SettingNames
    BY <1>1, CaseFits DEF SettingNames, Lenient, Strict, Uncached
  <2>2. {"webhook", "retest"} \subseteq SettingNames  BY DEF SettingNames, Strict, Uncached
  <2> QED  BY <1>7, <2>1, <2>2 DEF NothingIsHalfWritten
<1>9. TablesFit
  <2>1. settingRows \in [SettingNames -> SettingValues \cup {Unset, Unreadable}]  BY <1>7
  <2>2. copy \in [Copied -> Values] /\ DOMAIN copy = Copied  BY DEF SettingsInit, Values
  <2>3. up \in BOOLEAN /\ rotated \in BOOLEAN /\ callerRows \subseteq CallerKeys /\ keyRow \in Keys
    BY <1>1, <1>2 DEF SettingsInit, Keys
  <2> QED  BY <1>1, <1>3, <1>5, <1>6, <1>8, <2>1, <2>2, <2>3 DEF TablesFit
<1>10. \A e \in Editors : editors[e] = NoEdit /\ Idle(editors[e]) /\ ~Busy(e)
  BY DEF SettingsInit, Idle, Busy, NoEdit, TaskFields
<1>11. StartFits
  <2>1. ASSUME ~up  PROVE \E n \in Strict : settingRows[n] = Unreadable
    BY <1>2, <1>7, <2>1 DEF SettingsInit
  <2> QED  BY <1>10, <2>1 DEF StartFits
<1>12. CredentialsFit  BY <1>4 DEF CredentialsFit
<1>13. HandlersFit  BY <1>10 DEF HandlersFit, SettingsInit
<1> QED  BY <1>9, <1>11, <1>12, <1>13 DEF SettingsInv

\* bootstrap_with_master_key: a start reads what the tables say.
LEMMA Restarted ==
  ASSUME SettingsInv, SettingsRestart
  PROVE  SettingsInv'
<1>1. /\ UNCHANGED <<given, edits>> /\ UNCHANGED rowVars
      /\ up' = (\A n \in Copied : Understood(n, settingRows[n]) # Unreadable)
      /\ copy' = [n \in Copied |-> Understood(n, settingRows[n])]
      /\ masterKey' = KeyAtStart /\ opened' = OpenAll(KeyAtStart)
      /\ rotated' = (rotated \/ masterKey \notin {NoKey, KeyAtStart})
      /\ editors' = [e \in Editors |-> NoEdit]
  BY DEF SettingsRestart, Load
<1>2. KeyAtStart \in Keys  BY CaseFits DEF KeyAtStart, SettingsInv, TablesFit
<1>3. opened' \in [ChannelNames -> AnyRow]  BY <1>1, <1>2, OpenAllFits DEF SettingsInv, TablesFit
<1>4. ASSUME up'  PROVE copy' \in [Copied -> Values]
  <2>1. Copied \subseteq SettingNames  BY DEF Copied, SettingNames
  <2>2. ASSUME NEW n \in Copied  PROVE Understood(n, settingRows[n]) \in Values
    <3>1. PICK v : v = Understood(n, settingRows[n])  OBVIOUS
    <3>2. v # Unreadable  BY <1>1, <1>4, <3>1
    <3> QED  BY <2>1, <3>1, <3>2, ReadFits DEF SettingsInv
  <2> QED  BY <1>1, <2>2
<1>5. TablesFit'
  <2>1. DOMAIN copy' = Copied /\ up' \in BOOLEAN /\ rotated' \in BOOLEAN  BY <1>1
  <2> QED  BY <1>1, <1>2, <1>3, <1>4, <2>1 DEF SettingsInv, TablesFit, rowVars,
                                               NothingIsHalfWritten, ImportWrites, AnyRow, Keys,
                                               Values, Rows, Credentials
<1>6. \A e \in Editors : editors'[e] = NoEdit /\ Idle(editors'[e]) /\ ~Busy(e)'
  BY <1>1 DEF Idle, Busy, NoEdit, TaskFields
<1>7. StartFits'
  <2>1. ASSUME ~up'  PROVE \E n \in Strict : settingRows[n] = Unreadable
    <3>1. PICK n \in Copied : Understood(n, settingRows[n]) = Unreadable  BY <1>1, <2>1
    <3> QED  BY <3>1 DEF Understood, Unset, Unreadable
  <2> QED  BY <1>1, <1>6, <2>1 DEF StartFits, rowVars, Strict, Unreadable
<1>8. CredentialsFit'
  <2>1. ASSUME NEW n \in ChannelNames, vault[n] # NoRow, ~rotated'
        PROVE  vault[n].credential.seals \in {Plain, <<masterKey'>>}
    <3>1. ~rotated /\ (masterKey = NoKey \/ masterKey = masterKey')  BY <1>1,
        <2>1 DEF SettingsInv, TablesFit
    <3>2. vault[n].credential.seals \in {Plain, <<masterKey>>}
      BY <2>1, <3>1 DEF SettingsInv, CredentialsFit
    <3>3. vault[n].credential.seals \in {Plain} \cup {<<k>> : k \in MasterKeys}
      BY <2>1 DEF SettingsInv, TablesFit, AnyRow, Rows, Credentials
    <3>4. vault[n].credential.seals = <<NoKey>> => vault[n].credential.seals = Plain
      BY <3>3, SettingsConstants DEF Plain
    <3> QED  BY <3>1, <3>2, <3>4
  <2> QED  BY <1>1, <2>1 DEF SettingsInv, CredentialsFit, rowVars, NoRow, Plain
<1>9. HandlersFit'
  <2>1. \A e \in Editors : Idle(editors[e])'
    BY <1>6 DEF Idle, TaskFields
  <2> QED  BY <1>1, <1>6, <2>1 DEF HandlersFit
<1> QED  BY <1>5, <1>7, <1>8, <1>9 DEF SettingsInv

\* What is said of the settings is said of them alone.
LEMMA SettingsRest ==
  ASSUME SettingsInv, UNCHANGED settingsVars
  PROVE  SettingsInv'
<1>1. TablesFit'
  BY DEF settingsVars, SettingsInv, TablesFit, NothingIsHalfWritten, ImportWrites, AnyRow, Keys,
         Values, Rows, Credentials, Copied, Lenient, Strict
<1>2. StartFits' /\ CredentialsFit'
  BY DEF settingsVars, SettingsInv, StartFits, Busy, CredentialsFit, NoRow, Plain, Strict,
         Unreadable
<1>3. ASSUME NEW t  PROVE TaskKnows(t) => TaskKnows(t)'
  <2>1. RowsHold(t.writes)' <=> RowsHold(t.writes)  BY DEF RowsHold, settingsVars
  <2>2. GotRow(t)' <=> GotRow(t)
    BY DEF GotRow, Understood, Unset, Unreadable, Strict, settingsVars
  <2>3. (t.listed = Listing(OpenAll(masterKey)))' <=> t.listed = Listing(OpenAll(masterKey))
    BY OpenAllStays DEF settingsVars, Listing
  <2>4. (opened = OpenAll(masterKey))' <=> opened = OpenAll(masterKey)
    BY OpenAllStays DEF settingsVars
  <2>5. Replaced' <=> Replaced  BY DEF Replaced, Wanted, NoRow, settingsVars
  <2>6. Merged' <=> Merged  BY DEF Merged, Wanted, NoRow, settingsVars
  <2>7. SetKnows(t) => SetKnows(t)'  BY <2>1, <2>2 DEF SetKnows, StepOf
  <2>8. KeyKnows(t) => KeyKnows(t)'  BY <2>3 DEF KeyKnows, Left, settingsVars
  <2>9. EditKnows(t) => EditKnows(t)'  BY <2>3 DEF EditKnows, Left, settingsVars
  <2>10. ImportKnows(t) => ImportKnows(t)'
    <3>1. (copy["routing"] = Understood("routing", settingRows["routing"]))'
            <=> copy["routing"] = Understood("routing", settingRows["routing"])
      BY DEF Understood, Unset, Unreadable, Strict, settingsVars
    <3>2. (\A n \in DOMAIN Wanted : n \in t.listed <=> vault[n] = NoRow)'
            <=> (\A n \in DOMAIN Wanted : n \in t.listed <=> vault[n] = NoRow)
      BY DEF Wanted, NoRow, settingsVars
    <3> QED  BY <2>1, <2>2, <2>3, <2>4, <2>5, <2>6, <3>1, <3>2
             DEF ImportKnows, Left, StepOf, settingsVars
  <2> QED  BY <2>7, <2>8, <2>9, <2>10 DEF TaskKnows
<1>4. HandlersFit'
  <2>1. ASSUME NEW e \in Editors
        PROVE  /\ (Idle(editors[e]) \/ TaskFits(editors[e]))'
               /\ (Busy(e)' /\ ~editors'[e].crossed) => TaskKnows(editors[e])'
    <3>1. PICK t : t = editors[e]  OBVIOUS
    <3>2. editors'[e] = t /\ given' = given /\ rotated' = rotated  BY <3>1 DEF settingsVars
    <3>3. Idle(t) \/ TaskFits(t)  BY <3>1 DEF SettingsInv, HandlersFit
    <3>4. (Idle(t) \/ TaskFits(t))'  BY <3>2, <3>3, TaskStays DEF Idle, TaskFields
    <3>5. (Busy(e)' /\ ~editors'[e].crossed) => TaskKnows(t)
      BY <3>1, <3>2 DEF SettingsInv, HandlersFit, Busy
    <3>6. (Busy(e)' /\ ~editors'[e].crossed) => TaskKnows(t)'  BY <1>3, <3>5
    <3> QED  BY <3>2, <3>4, <3>6 DEF Idle, TaskFits, TaskKnows
  <2> QED  BY <2>1 DEF SettingsInv, HandlersFit, Busy, settingsVars
<1> QED  BY <1>1, <1>2, <1>4 DEF SettingsInv

\* Every step of a handler, and every restart, keeps it.
LEMMA SettingsContinues ==
  SettingsInv /\ [SettingsNext \/ SettingsRestart]_settingsVars => SettingsInv'
<1> SUFFICES ASSUME SettingsInv, [SettingsNext \/ SettingsRestart]_settingsVars PROVE SettingsInv'
  OBVIOUS
<1>1. ASSUME SettingsNext  PROVE SettingsInv'
  <2>1. PICK e \in Editors :
          \/ SetSetting(e) \/ SetRetention(e) \/ SetNotify(e) \/ SetMasterKey(e) \/ EditChannel(e)
          \/ ReplaceByImport(e) \/ MergeByImport(e)
          \/ WriteRows(e) \/ ReadRow(e) \/ StoreRow(e) \/ WriteKey(e) \/ ReadKey(e) \/ StoreKey(e)
          \/ ListChannels(e) \/ PublishChannels(e) \/ ReadForm(e) \/ FindChannel(e) \/ SaveChannel(e)
          \/ ReplaceChannels(e) \/ ReadNames(e) \/ CreateChannel(e)
          \/ ReplaceCallerKeys(e) \/ RestoreCallerKey(e) \/ StatementFails(e)
    BY <1>1 DEF SettingsNext
  <2>2. CASE SetSetting(e) \/ SetRetention(e) \/ SetNotify(e)  BY <2>2, SettingsBegin
  <2>3. CASE SetMasterKey(e)  BY <2>3, KeyBegins
  <2>4. CASE EditChannel(e)  BY <2>4, EditBegins
  <2>5. CASE ReplaceByImport(e) \/ MergeByImport(e)  BY <2>5, ImportBegins
  <2>6. CASE WriteRows(e)  BY <2>6, RowsWritten
  <2>7. CASE ReadRow(e)  BY <2>7, RowRead
  <2>8. CASE StoreRow(e)  BY <2>8, RowStored
  <2>9. CASE WriteKey(e)  BY <2>9, KeyWritten
  <2>10. CASE ReadKey(e)  BY <2>10, KeyRead
  <2>11. CASE StoreKey(e)  BY <2>11, KeyStored
  <2>12. CASE ListChannels(e)  BY <2>12, ChannelsListed
  <2>13. CASE PublishChannels(e)  BY <2>13, ChannelsPublished
  <2>14. CASE ReadForm(e)  BY <2>14, FormRead
  <2>15. CASE FindChannel(e)  BY <2>15, ChannelFound
  <2>16. CASE SaveChannel(e)  BY <2>16, ChannelSaved
  <2>17. CASE ReplaceChannels(e)  BY <2>17, ChannelsReplaced
  <2>18. CASE ReadNames(e)  BY <2>18, NamesRead
  <2>19. CASE CreateChannel(e)  BY <2>19, ChannelCreated
  <2>20. CASE ReplaceCallerKeys(e)  BY <2>20, KeysReplaced
  <2>21. CASE RestoreCallerKey(e)  BY <2>21, KeyRestored
  <2>22. CASE StatementFails(e)
    <3>1. Busy(e) /\ GivesUp(e)  BY <2>22 DEF StatementFails
    <3> QED  BY <3>1, StopsWell
  <2> QED  BY <2>1, <2>2, <2>3, <2>4, <2>5, <2>6, <2>7, <2>8, <2>9, <2>10, <2>11, <2>12, <2>13,
              <2>14, <2>15, <2>16, <2>17, <2>18, <2>19, <2>20, <2>21, <2>22
<1>2. CASE SettingsRestart  BY <1>2, Restarted
<1>3. CASE UNCHANGED settingsVars  BY <1>3, SettingsRest
<1> QED  BY <1>1, <1>2, <1>3

\* What the invariant of the settings says of the properties.
LEMMA SettingsInvShows ==
  ASSUME SettingsInv
  PROVE  SettingsTypeOK /\ CredentialsStayReadable /\ NothingIsHalfWritten /\ StartsOnBrokenRows
<1>1. SettingsTypeOK
  <2>1. ASSUME NEW n \in ChannelNames, NEW row \in {vault[n], opened[n]} \ {NoRow}
        PROVE  /\ row.copies > 0 /\ row.credential.secret \in Secrets
               /\ row.credential.seals \in {Plain} \cup {<<k>> : k \in MasterKeys}
    <3>1. row \in Rows  BY DEF SettingsInv, TablesFit, AnyRow
    <3> QED  BY <3>1 DEF Rows, Credentials
  <2> QED  BY <2>1 DEF SettingsTypeOK, SettingsInv, TablesFit, Keys, Values
<1>2. TheKeyBringsItBack
  <2>1. ASSUME NEW n \in ChannelNames, vault[n] # NoRow
        PROVE  Len(vault[n].credential.seals) <= 1 /\ vault[n].credential.secret = entered[n]
    <3>1. vault[n].credential.seals \in {Plain} \cup {<<k>> : k \in MasterKeys}
      BY <2>1 DEF SettingsInv, TablesFit, AnyRow, Rows, Credentials
    <3>2. PICK s : s = vault[n].credential.seals  OBVIOUS
    <3>4. s = <<>> => Len(s) <= 1  OBVIOUS
    <3>5. ASSUME NEW k, s = <<k>>  PROVE Len(s) <= 1  BY <3>5
    <3>6. Len(s) <= 1  BY <3>1, <3>2, <3>4, <3>5 DEF Plain
    <3>3. vault[n].credential.secret = entered[n]  BY <2>1 DEF SettingsInv, CredentialsFit
    <3> QED  BY <3>2, <3>3, <3>6
  <2> QED  BY <2>1 DEF TheKeyBringsItBack
<1>3. ReadableUntilRotated
  <2>1. ASSUME ~rotated, NEW n \in ChannelNames, vault[n] # NoRow
        PROVE  Open(vault[n].credential, masterKey).seals = Plain
    <3>1. vault[n].credential \in Credentials /\ masterKey \in Keys
      BY <2>1 DEF SettingsInv, TablesFit, AnyRow, Rows
    <3>2. vault[n].credential.seals \in {Plain, <<masterKey>>}
      BY <2>1 DEF SettingsInv, CredentialsFit
    <3> QED  BY <3>1, <3>2, OpenFits
  <2> QED  BY <2>1 DEF ReadableUntilRotated
<1> QED  BY <1>1, <1>2, <1>3
         DEF CredentialsStayReadable, SettingsInv, TablesFit, StartFits, StartsOnBrokenRows

\* The steps a handler takes after its first.
Works(e) ==
  \/ WriteRows(e) \/ ReadRow(e) \/ StoreRow(e) \/ WriteKey(e) \/ ReadKey(e) \/ StoreKey(e)
  \/ ListChannels(e) \/ PublishChannels(e) \/ ReadForm(e) \/ FindChannel(e) \/ SaveChannel(e)
  \/ ReplaceChannels(e) \/ ReadNames(e) \/ CreateChannel(e)
  \/ ReplaceCallerKeys(e) \/ RestoreCallerKey(e) \/ StatementFails(e)

Starts(e) ==
  \/ SetSetting(e) \/ SetRetention(e) \/ SetNotify(e) \/ SetMasterKey(e) \/ EditChannel(e)
  \/ ReplaceByImport(e) \/ MergeByImport(e)

\* A request begins as one of a handler that is idle, and leaves the tables alone.
LEMMA StartsWell ==
  ASSUME NEW f \in Editors, Starts(f)
  PROVE  /\ ~Busy(f) /\ UNCHANGED rowVars /\ UNCHANGED memoryVars
         /\ \A e \in Editors \ {f} : Busy(e) =>
              editors'[e] = [editors[e] EXCEPT !.crossed = TRUE]
<1>1. PICK op, task : Begins(f, op, task)
  BY DEF Starts, SetSetting, SetRetention, SetNotify, SetMasterKey, EditChannel, ReplaceByImport,
         MergeByImport
<1> QED  BY <1>1 DEF Begins

\* What a step makes of the handler that takes it, and of no other.
LEMMA WorksAlone ==
  ASSUME NEW f \in Editors, Works(f)
  PROVE  Busy(f) /\ \E r : editors' = [editors EXCEPT ![f] = r]
<1>1. ASSUME NEW what, Does(f, what)  PROVE Busy(f)  BY <1>1 DEF Does
<1>2. ASSUME NEW task, Continues(f, task)  PROVE \E r : editors' = [editors EXCEPT ![f] = r]
  BY <1>2 DEF Continues
<1>3. GivesUp(f) => \E r : editors' = [editors EXCEPT ![f] = r]  BY DEF GivesUp
<1>4. ASSUME NEW task, Repeats(f, task)  PROVE \E r : editors' = [editors EXCEPT ![f] = r]
  BY <1>4 DEF Repeats
<1>5. CASE WriteRows(f)  BY <1>5, <1>1, <1>2 DEF WriteRows
<1>6. CASE ReadRow(f)  BY <1>6, <1>1, <1>2, <1>3 DEF ReadRow
<1>7. CASE StoreRow(f)  BY <1>7, <1>1, <1>2 DEF StoreRow
<1>8. CASE WriteKey(f)  BY <1>8, <1>1, <1>2 DEF WriteKey
<1>9. CASE ReadKey(f)  BY <1>9, <1>1, <1>2 DEF ReadKey
<1>10. CASE StoreKey(f)  BY <1>10, <1>1, <1>2 DEF StoreKey
<1>11. CASE ListChannels(f)  BY <1>11, <1>1, <1>2 DEF ListChannels
<1>12. CASE PublishChannels(f)  BY <1>12, <1>1, <1>2 DEF PublishChannels
<1>13. CASE ReadForm(f)  BY <1>13, <1>1, <1>2, <1>3 DEF ReadForm
<1>14. CASE FindChannel(f)  BY <1>14, <1>1, <1>2, <1>3 DEF FindChannel
<1>15. CASE SaveChannel(f)  BY <1>15, <1>1, <1>2, <1>3 DEF SaveChannel
<1>16. CASE ReplaceChannels(f)  BY <1>16, <1>1, <1>2 DEF ReplaceChannels
<1>17. CASE ReadNames(f)  BY <1>17, <1>1, <1>2 DEF ReadNames
<1>18. CASE CreateChannel(f)  BY <1>18, <1>1, <1>2, <1>4 DEF CreateChannel
<1>19. CASE ReplaceCallerKeys(f)  BY <1>19, <1>1, <1>2 DEF ReplaceCallerKeys
<1>20. CASE RestoreCallerKey(f)  BY <1>20, <1>1, <1>2, <1>4 DEF RestoreCallerKey
<1>21. CASE StatementFails(f)  BY <1>21, <1>3 DEF StatementFails
<1> QED  BY <1>5, <1>6, <1>7, <1>8, <1>9, <1>10, <1>11, <1>12, <1>13, <1>14, <1>15, <1>16, <1>17,
            <1>18, <1>19, <1>20, <1>21 DEF Works

\* The last step of a program writes, stores or publishes.
LEMMA LastSteps ==
  ASSUME NEW t, TaskFits(t), Left(t) = 1
  PROVE  /\ StepOf(t) \in {"write", "store", "publish"}
         /\ StepOf(t) = "write" => t.op \in {"set", "notify"} /\ t.todo = <<"write">>
         /\ StepOf(t) = "store" => t.op \in {"set", "notify", "import"}
         /\ StepOf(t) = "publish" => t.op \in {"key", "edit"}
         /\ t.op = "import" => StepOf(t) = "store"
<1>1. CASE t.op \in {"set", "notify"}
  <2>1. t.todo \in SetTodo  BY <1>1 DEF TaskFits, SetFits
  <2>2. Len(<<"write", "read", "store">>) = 3  OBVIOUS
  <2>3. t.todo # <<"write", "read", "store">>  BY <2>2 DEF Left
  <2>4. StepOf(t) = "write" => t.todo = <<"write">>  BY <2>1, <2>3, SetProgram DEF StepOf
  <2>5. t.todo = <<"write">> \/ StepOf(t) = "store"  BY <2>1, SetProgram DEF StepOf, Left
  <2>6. t.todo = <<"write">> => StepOf(t) = "write"  BY DEF StepOf
  <2> QED  BY <1>1, <2>4, <2>5, <2>6
<1>2. CASE t.op = "key"
  <2>1. StepOf(t) = "publish"  BY <1>2, KeyHeads DEF TaskFits
  <2> QED  BY <1>2, <2>1
<1>3. CASE t.op = "edit"
  <2>1. StepOf(t) = "publish"  BY <1>3, EditHeads DEF TaskFits
  <2> QED  BY <1>3, <2>1
<1>4. CASE t.op = "import"
  <2>1. StepOf(t) = "store"  BY <1>4, ImportHeads DEF TaskFits
  <2> QED  BY <1>4, <2>1
<1> QED  BY <1>1, <1>2, <1>3, <1>4 DEF TaskFits

\* A handler answers "ok" only after the last step of its program.
LEMMA FinishedBy ==
  ASSUME SettingsInv, NEW e \in Editors, Finishes(e),
         SettingsNext \/ SettingsRestart \/ UNCHANGED settingsVars
  PROVE  (WriteRows(e) \/ StoreRow(e) \/ PublishChannels(e)) /\ Left(editors[e]) = 1
<1>1. PICK t : t = editors[e]  OBVIOUS
<1>2. /\ Busy(e) /\ editors'[e].result = "ok" /\ ~t.crossed /\ DOMAIN editors = Editors
  BY <1>1 DEF Finishes, SettingsInv, HandlersFit
<1>3. TaskFits(t) /\ t.result = "none" /\ DOMAIN t = TaskFields  BY <1>1, <1>2, Working DEF TaskFits
<1>4. Left(t) \in Nat \ {0}  BY <1>3, HeadsTell
<1>5. ~UNCHANGED settingsVars  BY <1>1, <1>2, <1>3 DEF settingsVars
<1>6. ~SettingsRestart
  <2>1. NoEdit.result = "none"  BY DEF NoEdit
  <2>2. SettingsRestart => editors'[e] = NoEdit  BY DEF SettingsRestart, Load
  <2> QED  BY <1>2, <2>1, <2>2
<1>7. PICK f \in Editors : Works(f) \/ Starts(f)
  BY <1>5, <1>6 DEF SettingsNext, Works, Starts
<1>8. ~Starts(f)
  <2> SUFFICES ASSUME Starts(f) PROVE FALSE  OBVIOUS
  <2>1. f # e /\ editors'[e] = [t EXCEPT !.crossed = TRUE]  BY <1>1, <1>2, StartsWell
  <2>2. editors'[e].result = "none"  BY <1>3, <2>1 DEF TaskFields
  <2> QED  BY <1>2, <2>2
<1>9. f = e
  <2> SUFFICES ASSUME f # e PROVE FALSE  OBVIOUS
  <2>1. editors'[e] = t  BY <1>1, <1>2, <1>7, <1>8, WorksAlone
  <2> QED  BY <1>2, <1>3, <2>1
<1>10. Works(e)  BY <1>7, <1>8, <1>9
<1>11. ASSUME NEW task, Continues(e, task), DOMAIN task = TaskFields, task.result = "none"
       PROVE  Left(t) = 1
  <2> SUFFICES ASSUME Left(t) > 1 PROVE FALSE  BY <1>4
  <2>1. editors'[e] = [task EXCEPT !.todo = Tail(@)]  BY <1>1, <1>2, <1>11 DEF Continues, Left
  <2>2. editors'[e].result = "none"  BY <1>11, <2>1 DEF TaskFields
  <2> QED  BY <1>2, <2>2
<1>12. ~GivesUp(e)  BY <1>2 DEF GivesUp, NoEdit
<1>13. ASSUME NEW task, Repeats(e, task), task.result = "none"  PROVE FALSE
  BY <1>2, <1>13 DEF Repeats
<1>14. ASSUME NEW what, Does(e, what), Left(t) = 1  PROVE what \in {"write", "store", "publish"}
  BY <1>1, <1>3, <1>14, LastSteps DEF Does, StepOf
<1>15. ASSUME NEW v
       PROVE  /\ DOMAIN [t EXCEPT !.got = v] = TaskFields /\ [t EXCEPT !.got = v].result = "none"
              /\ DOMAIN [t EXCEPT !.newKey = v] = TaskFields
              /\ [t EXCEPT !.newKey = v].result = "none"
              /\ DOMAIN [t EXCEPT !.listed = v] = TaskFields
              /\ [t EXCEPT !.listed = v].result = "none"
              /\ DOMAIN [t EXCEPT !.form = v] = TaskFields
              /\ [t EXCEPT !.form = v].result = "none"
              /\ DOMAIN [t EXCEPT !.reload = v] = TaskFields
              /\ [t EXCEPT !.reload = v].result = "none"
  BY <1>3 DEF TaskFields
<1>16. CASE WriteRows(e)
  <2>1. Continues(e, t)  BY <1>1, <1>16 DEF WriteRows
  <2> QED  BY <1>1, <1>3, <1>11, <1>16, <2>1
<1>17. CASE ReadRow(e)
  <2>1. \E v : Continues(e, [t EXCEPT !.got = v])  BY <1>1, <1>12, <1>17 DEF ReadRow
  <2>2. Does(e, "read")  BY <1>17 DEF ReadRow
  <2>3. Left(t) = 1  BY <1>11, <1>15, <2>1
  <2> QED  BY <1>14, <2>2, <2>3
<1>18. CASE StoreRow(e)
  <2>1. \E v : Continues(e, [t EXCEPT !.reload = v])
    <3>1. PICK v : v = Tail(t.reload)  OBVIOUS
    <3> QED  BY <1>1, <1>18, <3>1 DEF StoreRow
  <2> QED  BY <1>1, <1>11, <1>15, <1>18, <2>1
<1>19. CASE WriteKey(e)
  <2>1. Continues(e, t) /\ Does(e, "write_key")  BY <1>1, <1>19 DEF WriteKey
  <2> QED  BY <1>3, <1>11, <1>14, <2>1
<1>20. CASE ReadKey(e)
  <2>1. \E v : Continues(e, [t EXCEPT !.newKey = v])  BY <1>1, <1>20 DEF ReadKey
  <2>2. Does(e, "read_key")  BY <1>20 DEF ReadKey
  <2>3. Left(t) = 1  BY <1>11, <1>15, <2>1
  <2> QED  BY <1>14, <2>2, <2>3
<1>21. CASE StoreKey(e)
  <2>1. Continues(e, t) /\ Does(e, "store_key")  BY <1>1, <1>21 DEF StoreKey
  <2> QED  BY <1>3, <1>11, <1>14, <2>1
<1>22. CASE ListChannels(e)
  <2>1. \E v : Continues(e, [t EXCEPT !.listed = v])  BY <1>1, <1>22 DEF ListChannels
  <2>2. Does(e, "list")  BY <1>22 DEF ListChannels
  <2>3. Left(t) = 1  BY <1>11, <1>15, <2>1
  <2> QED  BY <1>14, <2>2, <2>3
<1>23. CASE PublishChannels(e)
  <2>1. \E v : Continues(e, [t EXCEPT !.listed = v])  BY <1>1, <1>23 DEF PublishChannels
  <2> QED  BY <1>1, <1>11, <1>15, <1>23, <2>1
<1>24. CASE ReadForm(e)
  <2>1. \E v : Continues(e, [t EXCEPT !.form = v])  BY <1>1, <1>12, <1>24 DEF ReadForm
  <2>2. Does(e, "form")  BY <1>24 DEF ReadForm
  <2>3. Left(t) = 1  BY <1>11, <1>15, <2>1
  <2> QED  BY <1>14, <2>2, <2>3
<1>25. CASE FindChannel(e)
  <2>1. \E v : Continues(e, [t EXCEPT !.form = v])  BY <1>1, <1>12, <1>25 DEF FindChannel
  <2>2. Does(e, "find")  BY <1>25 DEF FindChannel
  <2>3. Left(t) = 1  BY <1>11, <1>15, <2>1
  <2> QED  BY <1>14, <2>2, <2>3
<1>26. CASE SaveChannel(e)
  <2>1. Continues(e, t) /\ Does(e, "save")  BY <1>1, <1>12, <1>26 DEF SaveChannel
  <2> QED  BY <1>3, <1>11, <1>14, <2>1
<1>27. CASE ReplaceChannels(e)
  <2>1. Continues(e, t) /\ Does(e, "replace")  BY <1>1, <1>27 DEF ReplaceChannels
  <2> QED  BY <1>3, <1>11, <1>14, <2>1
<1>28. CASE ReadNames(e)
  <2>1. \E v : Continues(e, [t EXCEPT !.listed = v])  BY <1>1, <1>28 DEF ReadNames
  <2>2. Does(e, "names")  BY <1>28 DEF ReadNames
  <2>3. Left(t) = 1  BY <1>11, <1>15, <2>1
  <2> QED  BY <1>14, <2>2, <2>3
<1>29. CASE CreateChannel(e)
  <2>1. Continues(e, t) \/ \E v : Repeats(e, [t EXCEPT !.listed = v])
    BY <1>1, <1>29 DEF CreateChannel
  <2>2. Does(e, "create")  BY <1>29 DEF CreateChannel
  <2>3. Left(t) = 1  BY <1>3, <1>11, <1>13, <1>15, <2>1
  <2> QED  BY <1>14, <2>2, <2>3
<1>30. CASE ReplaceCallerKeys(e)
  <2>1. Continues(e, t) /\ Does(e, "keys")  BY <1>1, <1>30 DEF ReplaceCallerKeys
  <2> QED  BY <1>3, <1>11, <1>14, <2>1
<1>31. CASE RestoreCallerKey(e)
  <2>1. (Continues(e, t) \/ Repeats(e, t)) /\ Does(e, "restore")
    BY <1>1, <1>31 DEF RestoreCallerKey
  <2> QED  BY <1>3, <1>11, <1>13, <1>14, <2>1
<1>32. ~StatementFails(e)  BY <1>12 DEF StatementFails
<1> QED  BY <1>10, <1>16, <1>17, <1>18, <1>19, <1>20, <1>21, <1>22, <1>23, <1>24, <1>25, <1>26,
            <1>27, <1>28, <1>29, <1>30, <1>31, <1>32 DEF Works

SettingsStep == SettingsNext \/ SettingsRestart \/ UNCHANGED settingsVars

\* A handler that finishes by itself leaves what it wrote in the tables and in
\* memory.
LEMMA TakesEffect ==
  ASSUME SettingsInv, SettingsStep, NEW e \in Editors, Finishes(e), NEW t, t = editors[e]
  PROVE  /\ \A n \in Copied \cap DOMAIN t.writes :
              copy'[n] = Understood(n, settingRows'[n]) /\ settingRows'[n] = t.writes[n]
         /\ t.op = "key" => masterKey' = keyRow'
         /\ t.op \in {"key", "edit", "import"} => opened' = OpenAll(masterKey)'
<1>1. (WriteRows(e) \/ StoreRow(e) \/ PublishChannels(e)) /\ Left(t) = 1
  BY FinishedBy DEF SettingsStep
<1>2. Busy(e) /\ ~t.crossed  BY DEF Finishes
<1>3. TaskFits(t) /\ TaskKnows(t) /\ up /\ given \in Cases  BY <1>2, Working
<1>4. CASE WriteRows(e)
  <2>1. StepOf(t) = "write"  BY <1>4 DEF WriteRows, Does, StepOf
  <2>2. t.op \in {"set", "notify"} /\ t.todo = <<"write">>  BY <1>1, <1>3, <2>1, LastSteps
  <2>3. DOMAIN t.writes \cap Copied = {}  BY <1>3, <2>2 DEF TaskFits, SetFits
  <2> QED  BY <2>2, <2>3
<1>5. CASE StoreRow(e)
  <2>1. /\ StepOf(t) = "store" /\ copy' = [copy EXCEPT ![Head(t.reload)] = t.got]
        /\ UNCHANGED <<masterKey, opened>> /\ UNCHANGED rowVars
    BY <1>5 DEF StoreRow, Does, StepOf
  <2>2. t.op \in {"set", "notify", "import"}  BY <1>1, <1>3, <2>1, LastSteps
  <2>3. DOMAIN copy = Copied  BY DEF SettingsInv, TablesFit
  <2>4. CASE t.op \in {"set", "notify"}
    <3>1. t.todo # <<"write">>
      <4>1. Head(<<"write">>) = "write"  OBVIOUS
      <4> QED  BY <2>1, <4>1 DEF StepOf
    <3>2. PICK n \in Copied : t.reload = <<n>> /\ DOMAIN t.writes \cap Copied = {n}
      BY <1>3, <2>4, <3>1 DEF TaskFits, SetFits
    <3>3. Head(t.reload) = n  BY <3>2
    <3>4. RowsHold(t.writes) /\ GotRow(t)  BY <1>3, <2>1, <2>4 DEF TaskKnows, SetKnows
    <3>5. copy'[n] = Understood(n, settingRows[n])  BY <2>1, <2>3, <3>3, <3>4 DEF GotRow
    <3>6. settingRows[n] = t.writes[n]  BY <3>2, <3>4 DEF RowsHold
    <3> QED  BY <2>1, <2>4, <3>2, <3>5, <3>6 DEF rowVars
  <2>5. CASE t.op = "import"
    <3>1. ImportFits(t) /\ ImportKnows(t)  BY <1>3, <2>5 DEF TaskFits, TaskKnows
    <3>2. t.reload = <<"pricing">> /\ t.writes = ImportWrites  BY <1>1, <3>1 DEF ImportFits
    <3>3. Head(t.reload) = "pricing"  BY <3>2
    <3>4. RowsHold(t.writes) /\ GotRow(t) /\ opened = OpenAll(masterKey)
          /\ copy["routing"] = Understood("routing", settingRows["routing"])
      BY <1>1, <2>1, <3>1 DEF ImportKnows
    <3>5. "pricing" \in Copied /\ "routing" \in Copied  BY DEF Copied, Lenient, Strict
    <3>6. copy'["pricing"] = Understood("pricing", settingRows["pricing"])
      BY <2>1, <2>3, <3>3, <3>4, <3>5 DEF GotRow
    <3>7. copy'["routing"] = Understood("routing", settingRows["routing"])
      BY <2>1, <2>3, <3>3, <3>4, <3>5
    <3>8. Copied \cap DOMAIN t.writes \subseteq {"routing", "pricing"}
      BY <1>3, <3>2, CaseFits DEF Copied, Lenient, Strict
    <3>9. opened' = OpenAll(masterKey)'  BY <2>1, <3>4, OpenAllStays DEF rowVars
    <3> QED  BY <2>1, <2>5, <3>4, <3>6, <3>7, <3>8, <3>9 DEF RowsHold, rowVars
  <2> QED  BY <2>2, <2>4, <2>5
<1>6. CASE PublishChannels(e)
  <2>1. /\ StepOf(t) = "publish" /\ UNCHANGED masterKey /\ UNCHANGED rowVars
        /\ opened' = [n \in ChannelNames |-> (CHOOSE pair \in t.listed : pair[1] = n)[2]]
    BY <1>6 DEF PublishChannels, Does, StepOf
  <2>2. t.op \in {"key", "edit"}  BY <1>1, <1>3, <2>1, LastSteps
  <2>3. DOMAIN t.writes = {}  BY <1>3, <2>2 DEF TaskFits, KeyFits, EditFits
  <2>4. PICK all : all = OpenAll(masterKey)  OBVIOUS
  <2>5. all \in [ChannelNames -> AnyRow]  BY <2>4, OpenAllFits DEF SettingsInv, TablesFit
  <2>6. t.listed = Listing(all)
    BY <1>1, <1>3, <2>2, <2>4 DEF TaskKnows, KeyKnows, EditKnows
  <2>7. opened' = all  BY <2>1, <2>5, <2>6, Published
  <2>8. opened' = OpenAll(masterKey)'  BY <2>1, <2>4, <2>7, OpenAllStays DEF rowVars
  <2>9. t.op = "key" => masterKey = keyRow  BY <1>1, <1>3 DEF TaskKnows, KeyKnows
  <2> QED  BY <2>1, <2>3, <2>8, <2>9 DEF rowVars
<1> QED  BY <1>1, <1>4, <1>5, <1>6

\* An import that finishes by itself leaves what its document says.
LEMMA Converges ==
  ASSUME SettingsInv, SettingsStep, NEW e \in Editors, Finishes(e), NEW t, t = editors[e],
         t.op = "import"
  PROVE  /\ UNCHANGED rowVars /\ RowsHold(ImportWrites)
         /\ given.document.keys \subseteq callerRows
         /\ \A n \in DOMAIN Wanted : n \in ChannelNames /\ vault[n] # NoRow
         /\ t.name = "replace" => callerRows = given.document.keys /\ Replaced
<1>1. (WriteRows(e) \/ StoreRow(e) \/ PublishChannels(e)) /\ Left(t) = 1
  BY FinishedBy DEF SettingsStep
<1>2. Busy(e) /\ ~t.crossed  BY DEF Finishes
<1>3. TaskFits(t) /\ TaskKnows(t) /\ given \in Cases  BY <1>2, Working
<1>4. StepOf(t) = "store"  BY <1>1, <1>3, LastSteps
<1>5. UNCHANGED rowVars
  BY <1>1, <1>4 DEF StoreRow, WriteRows, PublishChannels, Does, StepOf
<1>6. ImportFits(t) /\ ImportKnows(t)  BY <1>3 DEF TaskFits, TaskKnows
<1>7. t.writes = ImportWrites /\ t.name \in {"replace", "merge"}  BY <1>6 DEF ImportFits
<1>8. DOMAIN Wanted \subseteq ChannelNames  BY <1>3, CaseFits
<1>9. RowsHold(ImportWrites)  BY <1>1, <1>6, <1>7 DEF ImportKnows
<1>10. CASE t.name = "replace"
  <2>1. Replaced /\ callerRows = given.document.keys  BY <1>1, <1>6, <1>10 DEF ImportKnows
  <2> QED  BY <1>5, <1>8, <1>9, <2>1 DEF Replaced
<1>11. CASE t.name = "merge"
  <2>1. Merged /\ given.document.keys \subseteq callerRows  BY <1>1, <1>6, <1>11 DEF ImportKnows
  <2> QED  BY <1>5, <1>8, <1>9, <1>11, <2>1 DEF Merged
<1> QED  BY <1>7, <1>10, <1>11

\* Which steps change the keys of callers, and the channels.
LEMMA KeysStay ==
  ASSUME SettingsInv, SettingsStep
  PROVE  callerRows \cap given.document.keys \subseteq callerRows'
<1>1. CASE UNCHANGED callerRows  BY <1>1
<1>2. CASE SettingsRestart  BY <1>1, <1>2 DEF SettingsRestart, rowVars
<1>3. CASE UNCHANGED settingsVars  BY <1>1, <1>3 DEF settingsVars
<1>4. ASSUME NEW f \in Editors, Starts(f) \/ Works(f)
      PROVE  callerRows \cap given.document.keys \subseteq callerRows'
  <2>1. CASE Starts(f)  BY <1>1, <2>1, StartsWell DEF rowVars
  <2>2. CASE ReplaceCallerKeys(f)  BY <2>2 DEF ReplaceCallerKeys
  <2>3. CASE RestoreCallerKey(f)  BY <2>3 DEF RestoreCallerKey
  <2>4. CASE \/ WriteRows(f) \/ ReadRow(f) \/ StoreRow(f) \/ WriteKey(f) \/ ReadKey(f) \/ StoreKey(f)
             \/ ListChannels(f) \/ PublishChannels(f) \/ ReadForm(f) \/ FindChannel(f)
             \/ SaveChannel(f) \/ ReplaceChannels(f) \/ ReadNames(f) \/ CreateChannel(f)
             \/ StatementFails(f)
    <3>1. UNCHANGED callerRows
      BY <2>4 DEF WriteRows, ReadRow, StoreRow, WriteKey, ReadKey, StoreKey, ListChannels,
            PublishChannels, ReadForm, FindChannel, SaveChannel, ReplaceChannels, ReadNames,
            CreateChannel, StatementFails, GivesUp, rowVars
    <3> QED  BY <1>1, <3>1
  <2> QED  BY <1>4, <2>1, <2>2, <2>3, <2>4 DEF Works
<1> QED  BY <1>2, <1>3, <1>4 DEF SettingsStep, SettingsNext, Starts, Works

\* A name gets a second row only by a merge that was crossed.
LEMMA Doubles ==
  ASSUME SettingsInv, SettingsStep, NEW n \in ChannelNames, vault[n] # NoRow, vault'[n] # NoRow,
         vault'[n].copies > vault[n].copies
  PROVE  \E e \in Editors : Does(e, "create") /\ editors[e].crossed
<1>1. vault[n] \in Rows /\ vault[n].copies \in Nat \ {0} /\ vault \in [ChannelNames -> AnyRow]
  BY DEF SettingsInv, TablesFit, AnyRow, Rows
<1>2. ~UNCHANGED vault  BY <1>1
<1>3. ~SettingsRestart /\ ~UNCHANGED settingsVars  BY <1>2 DEF SettingsRestart, rowVars,
    settingsVars
<1>4. PICK e \in Editors : Starts(e) \/ Works(e)
  BY <1>3 DEF SettingsStep, SettingsNext, Starts, Works
<1>5. ~Starts(e)  BY <1>2, StartsWell DEF rowVars
<1>6. SaveChannel(e) \/ ReplaceChannels(e) \/ CreateChannel(e)
  BY <1>2, <1>4, <1>5
     DEF Works, WriteRows, ReadRow, StoreRow, WriteKey, ReadKey, StoreKey, ListChannels,
         PublishChannels, ReadForm, FindChannel, ReadNames, ReplaceCallerKeys, RestoreCallerKey,
         StatementFails, GivesUp, rowVars
<1>7. ~SaveChannel(e)
  <2> SUFFICES ASSUME SaveChannel(e) PROVE FALSE  OBVIOUS
  <2>1. PICK m, c : vault' = [vault EXCEPT ![m].credential = c] \/ UNCHANGED vault
    BY DEF SaveChannel, GivesUp, rowVars
  <2>2. vault'[n].copies = vault[n].copies
    <3>1. CASE m = n
      <4>1. PICK row : row = [vault[n] EXCEPT !.credential = c]  OBVIOUS
      <4>2. row.copies = vault[n].copies  BY <1>1, <4>1 DEF Rows
      <4>3. vault'[n] = row  BY <1>1, <1>2, <2>1, <3>1, <4>1
      <4> QED  BY <4>2, <4>3
    <3>2. CASE m # n  BY <1>1, <1>2, <2>1, <3>2
    <3> QED  BY <3>1, <3>2
  <2> QED  BY <1>1, <2>2
<1>8. ~ReplaceChannels(e)
  <2> SUFFICES ASSUME ReplaceChannels(e) PROVE FALSE  OBVIOUS
  <2>1. vault'[n] = NoRow \/ \E c : vault'[n] = RowOf(c, 1)  BY DEF ReplaceChannels
  <2>2. PICK c : vault'[n] = RowOf(c, 1)  BY <2>1
  <2>3. RowOf(c, 1).copies = 1  BY DEF RowOf
  <2>4. vault'[n].copies = 1  BY <2>2, <2>3
  <2> QED  BY <1>1, <2>4
<1>9. PICK t : t = editors[e]  OBVIOUS
<1>10. CreateChannel(e) /\ Does(e, "create") /\ Busy(e) /\ StepOf(t) = "create"
  BY <1>6, <1>7, <1>8, <1>9 DEF CreateChannel, Does, StepOf
<1>11. t.crossed
  <2> SUFFICES ASSUME ~t.crossed PROVE FALSE  OBVIOUS
  <2>1. TaskFits(t) /\ TaskKnows(t) /\ given \in Cases  BY <1>9, <1>10, Working
  <2>2. t.op = "import" /\ ImportFits(t) /\ ImportKnows(t)
    BY <1>10, <2>1, HeadsTell DEF TaskFits, TaskKnows
  <2>3. Left(t) = 9 /\ t.name = "merge"  BY <1>10, <2>2, ImportHeads
  <2>4. t.listed \subseteq DOMAIN Wanted /\ \A m \in t.listed : vault[m] = NoRow
    BY <2>2, <2>3 DEF ImportFits, ImportKnows
  <2>5. t.listed # {}  BY <1>2, <1>9, <1>10 DEF CreateChannel
  <2>6. PICK m : m = CHOOSE k \in t.listed : TRUE  OBVIOUS
  <2>7. m \in t.listed /\ m # n  BY <2>4, <2>5, <2>6
  <2>8. \E row : vault' = [vault EXCEPT ![m] = row]
    BY <1>9, <1>10, <2>5, <2>6 DEF CreateChannel
  <2>9. vault'[n] = vault[n]  BY <1>1, <2>7, <2>8
  <2> QED  BY <1>1, <2>9
<1> QED  BY <1>9, <1>10, <1>11

-----------------------------------------------------------------------------
(***************************************************************************)
(* The whole                                                               *)
(***************************************************************************)

ControlInv == ServerInv /\ SettingsInv /\ RealtimeInv

\* The three parts start well.
LEMMA ControlStarts == ControlInit => ControlInv
BY ServerStarts, SettingsStarts, RealtimeStarts DEF ControlInit, ControlInv

\* A step of the whole, seen from each part.
LEMMA ControlSteps ==
  ASSUME [ControlNext]_controlVars
  PROVE  /\ [ServerNext \/ ServerCrash]_serverVars
         /\ [SettingsNext \/ SettingsRestart]_settingsVars
         /\ [RealtimeNext \/ RealtimeRestart]_realtimeVars
<1>1. CASE ProcessMoves  BY <1>1 DEF ProcessMoves
<1>2. CASE SettingsMove  BY <1>2 DEF SettingsMove
<1>3. CASE SessionsMove  BY <1>3 DEF SessionsMove
<1>4. CASE UNCHANGED controlVars  BY <1>4 DEF controlVars
<1> QED  BY <1>1, <1>2, <1>3, <1>4 DEF ControlNext

\* A step of one part keeps the invariant of each.
LEMMA ControlContinues == ControlInv /\ [ControlNext]_controlVars => ControlInv'
BY ControlSteps, ServerContinues, SettingsContinues, RealtimeContinues DEF ControlInv

\* The three invariants together hold of every state.
LEMMA ControlInvariant == ControlSpec => []ControlInv
BY ControlStarts, ControlContinues, PTL DEF ControlSpec

\* The shape of the state of the process, of the settings and of the sessions:
\* among others the bounds of the queues, of the permits and of the drain, and
\* that a credential is sealed at most once (seal).
THEOREM ControlTypeCorrect == ControlSpec => []TypeOK
<1>1. ControlInv => TypeOK
  BY ServerInvShows, SettingsInvShows, RealtimeInvShows DEF ControlInv, TypeOK
<1> QED  BY <1>1, ControlInvariant, PTL

\* main, prepare_for_start: whatever was cut off by whatever crash, a process
\* that serves has told the credentials it keeps, a reset heals, and the file
\* does not outlive the start that wrote it.
THEOREM CredentialsReach == ControlSpec => []CredentialsReachTheirOwner
<1>1. ControlInv => CredentialsReachTheirOwner  BY ServerInvShows DEF ControlInv
<1> QED  BY <1>1, ControlInvariant, PTL

\* What serves has what it needs: the database is closed after the last request,
\* certificate and key in use are a pair, and a change of them is noticed
\* (serve, TlsReloader). That a shutdown ends is left to the run.
THEOREM ServesWithWhatItNeeds ==
  ControlSpec => []DatabaseOutlivesTheServer /\ []PairsMatch /\ []ChangesAreNoticed
<1>1. ControlInv => DatabaseOutlivesTheServer /\ PairsMatch /\ ChangesAreNoticed
  BY ServerInvShows DEF ControlInv
<1> QED  BY <1>1, ControlInvariant, PTL

\* bridge_realtime: permits come back, no frame is lost, doubled or overtaken
\* while both sides are there, and a session has one row in the log, of the
\* status it ended with. That an end reaches the other side is left to the run.
THEOREM BridgesKeepTheirWord ==
  ControlSpec => []PermitsBalance /\ []NoFrameIsLost /\ []SessionsAreLoggedAsTheyEnd
<1>1. ControlInv => PermitsBalance /\ NoFrameIsLost /\ SessionsAreLoggedAsTheyEnd
  BY RealtimeInvShows DEF ControlInv
<1> QED  BY <1>1, ControlInvariant, PTL

\* seal, open, restore_unchanged_credentials: through any order of saves, imports
\* and changes of the master key, a credential is what was last entered, sealed
\* at most once, and readable until a key is replaced or taken away.
THEOREM CredentialsOutlive == ControlSpec => []CredentialsStayReadable
<1>1. ControlInv => CredentialsStayReadable  BY SettingsInvShows DEF ControlInv
<1> QED  BY <1>1, ControlInvariant, PTL

\* The setters of settings, set_notify, the handlers of channels and
\* import_document: what a handler that ran by itself answered "ok" to holds in
\* the tables and in memory, whatever failed or crossed before it.
THEOREM ChangesTakeHold == ControlSpec => ChangesArrive
<1> DEFINE Effect ==
      \A e \in Editors : Finishes(e) =>
        LET task == editors[e] IN
        /\ \A n \in Copied \cap DOMAIN task.writes :
             copy'[n] = Understood(n, settingRows[n]') /\ settingRows[n]' = task.writes[n]
        /\ task.op = "key" => masterKey' = keyRow'
        /\ task.op \in {"key", "edit", "import"} => opened' = OpenAll(masterKey)'
<1> DEFINE Converged ==
      \A e \in Editors : (Finishes(e) /\ editors[e].op = "import") =>
        LET wanted == given.document
            there  == {n \in ChannelNames : vault'[n] # NoRow}
        IN /\ \A n \in DOMAIN wanted.settings : settingRows'[n] = wanted.settings[n]
           /\ wanted.keys \subseteq callerRows' /\ DOMAIN wanted.channels \subseteq there
           /\ editors[e].name = "replace" =>
                /\ callerRows' = wanted.keys /\ there = DOMAIN wanted.channels
                /\ \A n \in there : vault'[n].copies = 1
                                   /\ vault'[n].credential.secret = wanted.channels[n]
<1> DEFINE Doubled ==
      \A n \in ChannelNames : (vault[n] # NoRow /\ vault'[n] # NoRow
                               /\ vault'[n].copies > vault[n].copies)
        => \E e \in Editors : Does(e, "create") /\ editors[e].crossed
<1> DEFINE Kept == callerRows \cap given.document.keys \subseteq callerRows'
<1>1. ControlInv /\ [ControlNext]_controlVars => [Effect]_settingsVars
  <2> SUFFICES ASSUME ControlInv, [ControlNext]_controlVars, NEW e \in Editors, Finishes(e)
               PROVE  LET task == editors[e] IN
                 /\ \A n \in Copied \cap DOMAIN task.writes :
                      copy'[n] = Understood(n, settingRows[n]') /\ settingRows[n]' = task.writes[n]
                 /\ task.op = "key" => masterKey' = keyRow'
                 /\ task.op \in {"key", "edit", "import"} => opened' = OpenAll(masterKey)'
    OBVIOUS
  <2>1. SettingsInv /\ SettingsStep  BY ControlSteps DEF ControlInv, SettingsStep
  <2>2. PICK t : t = editors[e]  OBVIOUS
  <2> QED  BY <2>1, <2>2, TakesEffect
<1>2. ControlInv /\ [ControlNext]_controlVars => [Converged]_settingsVars
  <2> SUFFICES ASSUME ControlInv, [ControlNext]_controlVars, NEW e \in Editors, Finishes(e),
                      editors[e].op = "import"
               PROVE  LET wanted == given.document
                          there  == {n \in ChannelNames : vault'[n] # NoRow}
                 IN /\ \A n \in DOMAIN wanted.settings : settingRows'[n] = wanted.settings[n]
                    /\ wanted.keys \subseteq callerRows' /\ DOMAIN wanted.channels \subseteq there
                    /\ editors[e].name = "replace" =>
                         /\ callerRows' = wanted.keys /\ there = DOMAIN wanted.channels
                         /\ \A n \in there : vault'[n].copies = 1
                                            /\ vault'[n].credential.secret = wanted.channels[n]
    OBVIOUS
  <2>1. SettingsInv /\ SettingsStep  BY ControlSteps DEF ControlInv, SettingsStep
  <2>2. PICK t : t = editors[e]  OBVIOUS
  <2>3. /\ UNCHANGED rowVars /\ RowsHold(ImportWrites)
        /\ given.document.keys \subseteq callerRows
        /\ \A n \in DOMAIN Wanted : n \in ChannelNames /\ vault[n] # NoRow
        /\ t.name = "replace" => callerRows = given.document.keys /\ Replaced
    BY <2>1, <2>2, Converges
  <2>4. vault' = vault /\ callerRows' = callerRows /\ settingRows' = settingRows
    BY <2>3 DEF rowVars
  <2>5. \A n \in DOMAIN given.document.settings :
          settingRows'[n] = given.document.settings[n]
    BY <2>3, <2>4 DEF RowsHold, ImportWrites
  <2>6. DOMAIN given.document.channels \subseteq {n \in ChannelNames : vault'[n] # NoRow}
    BY <2>3, <2>4 DEF Wanted
  <2>7. ASSUME t.name = "replace"
        PROVE  /\ {n \in ChannelNames : vault'[n] # NoRow} = DOMAIN given.document.channels
               /\ \A n \in {m \in ChannelNames : vault'[m] # NoRow} :
                    /\ vault'[n].copies = 1
                    /\ vault'[n].credential.secret = given.document.channels[n]
    BY <2>3, <2>4, <2>6, <2>7 DEF Replaced, Wanted
  <2> QED  BY <2>2, <2>3, <2>4, <2>5, <2>6, <2>7
<1>3. ControlInv /\ [ControlNext]_controlVars => [Doubled]_settingsVars
  <2>1. ControlInv /\ [ControlNext]_controlVars => SettingsInv /\ SettingsStep
    BY ControlSteps DEF ControlInv, SettingsStep
  <2> QED  BY <2>1, Doubles
<1>4. ControlInv /\ [ControlNext]_controlVars => [Kept]_settingsVars
  <2>1. ControlInv /\ [ControlNext]_controlVars => SettingsInv /\ SettingsStep
    BY ControlSteps DEF ControlInv, SettingsStep
  <2> QED  BY <2>1, KeysStay
<1>5. ControlInv => NothingIsHalfWritten /\ StartsOnBrokenRows
  BY SettingsInvShows DEF ControlInv
<1> QED  BY <1>1, <1>2, <1>3, <1>4, <1>5, ControlInvariant, PTL
         DEF ControlSpec, ChangesArrive, ChangeTakesEffect, ImportConverges,
             NamesDoubleOnlyWhenCrossed, KeysNeverPause
=============================================================================

------------------------------- MODULE Server -------------------------------
(***************************************************************************)
(* The process: how it starts on a database and hands out the credentials  *)
(* of the first administrator, how it serves, replaces its certificate and *)
(* shuts down.  The main thread starts everything, waits for a signal and  *)
(* for the server thread, and closes the database; the server thread runs  *)
(* the listener and drains it.  The process can end at any step.           *)
(*                                                                         *)
(* Credentials and certificates are numbers that grow: a new one is        *)
(* another number.                                                         *)
(***************************************************************************)
EXTENDS Integers, FiniteSets

CONSTANTS
  Setups,                  (* configurations of the process: one is chosen   *)
  Drain,                   (* shutdown_grace_secs                           *)
  MaxRequests, MaxTasks    (* bounds: requests in flight, their record tasks *)

\* tls: tls_cert and tls_key are set; exposed: listen is not a loopback
\* address; auth: require_auth; legacy: the database is of a version without
\* passwords.  Bounds: boots, renewals (writes to the files of the
\* certificate), work (requests that arrive).
Setup == [tls : BOOLEAN, exposed : BOOLEAN, auth : BOOLEAN, legacy : BOOLEAN,
          boots : Nat, renewals : Nat, work : Nat]

ASSUME ServerAssumption ==
  /\ Setups \subseteq Setup
  /\ {Drain, MaxRequests, MaxTasks} \subseteq Nat

VARIABLES
  setup,
  disk,      (* settings and the row of admin@localhost                     *)
  file,      (* .admin_token: none, or what it tells and who wrote it       *)
  told,      (* history: the last token and password a file has told        *)
  cut,       (* history: a start ended between keeping a secret and telling it *)
  main,      (* the main thread                                             *)
  server,    (* the server thread                                           *)
  certs,     (* the files tls_cert and tls_key                              *)
  boots, renewals, arrived   (* counted for the bounds                      *)

serverVars == <<setup, disk, file, told, cut, main, server, certs, boots, renewals, arrived>>
work       == <<certs, renewals, arrived>>

NoFile == [here |-> FALSE, token |-> 0, password |-> 0, boot |-> 0]
Off    == [pc |-> "off", reset |-> FALSE, rotate |-> FALSE, give |-> FALSE, signalled |-> FALSE]
\* serves: the certificate and the key in use; seen: the files whose times
\* are the baseline; gap: history, they changed while that was taken.
NoServer == [pc |-> "off", reason |-> "none", serves |-> [cert |-> 0, key |-> 0],
             seen |-> [cert |-> 0, key |-> 0], gap |-> FALSE, requests |-> 0, tasks |-> 0,
             waited |-> 0]

ServerInit ==
  /\ setup \in Setups
  /\ disk = [initialized |-> setup.legacy, token |-> IF setup.legacy THEN -1 ELSE 0,
             admin |-> setup.legacy, password |-> 0, active |-> setup.legacy, open |-> FALSE]
  /\ file = NoFile
  /\ told = [token |-> disk.token, password |-> 0]
  /\ cut = FALSE
  /\ main = Off
  /\ server = NoServer
  /\ certs = [cert |-> 1, key |-> 1]
  /\ boots = 0 /\ renewals = 0 /\ arrived = 0

Valid(pair) == pair.cert = pair.key
Serving     == main.pc = "serving"
MainAt(pc)  == main.pc = pc
MainGoes(pc) == main' = [main EXCEPT !.pc = pc]

-----------------------------------------------------------------------------
(***************************************************************************)
(* Starting                                                                *)
(***************************************************************************)

\* main opens the database; a statement that fails later ends the process
Boot ==
  /\ MainAt("off") /\ server.pc = "off"
  /\ boots < setup.boots
  /\ boots' = boots + 1
  /\ \E reset \in BOOLEAN : main' = [Off EXCEPT !.pc = "create", !.reset = reset]
  /\ disk' = [disk EXCEPT !.open = TRUE]
  /\ UNCHANGED <<setup, file, told, cut, server, work>>

\* bootstrap_with_master_key: create_first_admin_if_empty inserts the row with
\* an empty password and then marks it verified.
CreateAdmin ==
  /\ MainAt("create")
  /\ disk' = [disk EXCEPT !.admin = TRUE]
  /\ MainGoes(IF disk.admin THEN "token" ELSE "first")
  /\ UNCHANGED <<setup, file, told, cut, server, work, boots>>

VerifyFirst ==
  /\ MainAt("first")
  /\ disk' = [disk EXCEPT !.active = TRUE]
  /\ MainGoes("token")
  /\ UNCHANGED <<setup, file, told, cut, server, work, boots>>

\* Mutant: --reset-admin does not issue another token.
KeepTokenOnce ==
  /\ MainAt("token")
  /\ LET rotate == ~disk.initialized
         give   == main.reset \/ disk.password = 0
     IN  /\ disk' = IF rotate THEN [disk EXCEPT !.initialized = TRUE, !.token = boots] ELSE disk
         /\ main' = [main EXCEPT !.pc = IF give THEN "password" ELSE "file",
                                 !.rotate = rotate, !.give = give]
  /\ UNCHANGED <<setup, file, told, cut, server, work, boots>>

\* Mutant: an empty password is not looked at.
KeepTokenOnly ==
  /\ MainAt("token")
  /\ LET rotate == ~disk.initialized \/ main.reset
     IN  /\ disk' = IF rotate THEN [disk EXCEPT !.initialized = TRUE, !.token = boots] ELSE disk
         /\ main' = [main EXCEPT !.pc = IF rotate THEN "password" ELSE "file",
                                 !.rotate = rotate, !.give = rotate]
  /\ UNCHANGED <<setup, file, told, cut, server, work, boots>>

\* apply_bootstrap_admin_token: what there is to give is decided once.  The
\* hash of the token, the name and auth.initialized are one transaction.
KeepToken ==
  /\ MainAt("token")
  /\ LET rotate == ~disk.initialized \/ main.reset
         give   == main.reset \/ disk.password = 0
     IN  /\ disk' = IF rotate THEN [disk EXCEPT !.initialized = TRUE, !.token = boots] ELSE disk
         /\ main' = [main EXCEPT !.pc = IF give THEN "password" ELSE "file",
                                 !.rotate = rotate, !.give = give]
  /\ UNCHANGED <<setup, file, told, cut, server, work, boots>>

KeepPassword ==
  /\ MainAt("password")
  /\ disk' = [disk EXCEPT !.password = boots]
  /\ MainGoes("verify")
  /\ UNCHANGED <<setup, file, told, cut, server, work, boots>>

VerifyAdmin ==
  /\ MainAt("verify")
  /\ disk' = [disk EXCEPT !.active = TRUE]
  /\ MainGoes("file")
  /\ UNCHANGED <<setup, file, told, cut, server, work, boots>>

\* Mutant: what an earlier start has left stays.
TellOnly ==
  /\ MainAt("file")
  /\ IF main.rotate \/ main.give
     THEN /\ file' = [here |-> TRUE, token |-> IF main.rotate THEN boots ELSE 0,
                      password |-> IF main.give THEN boots ELSE 0, boot |-> boots]
          /\ told' = [token |-> IF main.rotate THEN boots ELSE told.token,
                      password |-> IF main.give THEN boots ELSE told.password]
          /\ cut' = (cut /\ ~main.reset)
     ELSE UNCHANGED <<file, told, cut>>
  /\ MainGoes("expose")
  /\ UNCHANGED <<setup, disk, server, work, boots>>

\* The file tells what is new; a start with nothing new removes what an
\* earlier one has left.
TellCredentials ==
  /\ MainAt("file")
  /\ IF main.rotate \/ main.give
     THEN /\ file' = [here |-> TRUE, token |-> IF main.rotate THEN boots ELSE 0,
                      password |-> IF main.give THEN boots ELSE 0, boot |-> boots]
          /\ told' = [token |-> IF main.rotate THEN boots ELSE told.token,
                      password |-> IF main.give THEN boots ELSE told.password]
          /\ cut' = (cut /\ ~main.reset)
     ELSE file' = NoFile /\ UNCHANGED <<told, cut>>
  /\ MainGoes("expose")
  /\ UNCHANGED <<setup, disk, server, work, boots>>

\* enforce_exposure_policy, then the listener and the first reading of the
\* certificate.  A refusal ends the process and leaves the file.
Listen ==
  /\ MainAt("expose")
  /\ \/ /\ setup.exposed => disk.token # 0 /\ setup.auth
        /\ setup.tls => Valid(certs)
        /\ MainGoes("serving")
        /\ server' = [NoServer EXCEPT !.pc = "start"]
        /\ UNCHANGED disk
     \/ /\ (setup.exposed /\ (disk.token = 0 \/ ~setup.auth)) \/ (setup.tls /\ ~Valid(certs))
        /\ main' = Off /\ disk' = [disk EXCEPT !.open = FALSE]
        /\ UNCHANGED server
  /\ UNCHANGED <<setup, file, told, cut, work, boots>>

-----------------------------------------------------------------------------
(***************************************************************************)
(* The server thread                                                       *)
(***************************************************************************)

ServerAt(pc) == server.pc = pc

\* Mutant: the files are taken as they are.
StartWithAnyFiles ==
  /\ ServerAt("start")
  /\ server' = [server EXCEPT !.pc = "baseline", !.serves = certs, !.gap = FALSE]
  /\ UNCHANGED <<setup, disk, file, told, cut, main, work, boots>>

\* start_server reads the files again: TlsListen holds their paths.  When they
\* do not fit, the thread sleeps, binds the address again and tries again; it
\* does not look for the signal on the way.
StartServer ==
  /\ ServerAt("start")
  /\ setup.tls => Valid(certs)
  /\ server' = [server EXCEPT !.pc = "baseline", !.serves = certs, !.gap = FALSE]
  /\ UNCHANGED <<setup, disk, file, told, cut, main, work, boots>>

\* The times of the files are taken once the server runs.
TakeBaseline ==
  /\ ServerAt("baseline")
  /\ server' = [server EXCEPT !.pc = "run", !.seen = certs]
  /\ UNCHANGED <<setup, disk, file, told, cut, main, work, boots>>

\* Mutant: the time of the key is not looked at.
CertificateChanged == setup.tls /\ certs.cert # server.seen.cert

Changed == setup.tls /\ certs # server.seen

\* Every second: the signal first, the files after half a minute.
Stop(reason) ==
  /\ ServerAt("run")
  /\ server' = [server EXCEPT !.pc = "drain", !.reason = reason, !.waited = 0]
  /\ UNCHANGED <<setup, disk, file, told, cut, main, work, boots>>
NoticeSignal == main.signalled /\ Stop("shutdown")
NoticeFiles  == ~main.signalled /\ Changed /\ Stop("reload")

\* stop(true) refuses new work and waits for what runs, up to Drain seconds;
\* then stop(false) cuts it off.
DrainTick ==
  /\ ServerAt("drain") /\ server.requests > 0 /\ server.waited < Drain
  /\ server' = [server EXCEPT !.waited = @ + 1]
  /\ UNCHANGED <<setup, disk, file, told, cut, main, work, boots>>

\* Mutant: it waits for what runs as long as it runs.
DrainedWhenIdle ==
  /\ ServerAt("drain") /\ server.requests = 0
  /\ server' = [server EXCEPT !.pc = IF server.reason = "reload" THEN "bind" ELSE "ended"]
  /\ UNCHANGED <<setup, disk, file, told, cut, main, work, boots>>

Drained ==
  /\ ServerAt("drain")
  /\ server.requests = 0 \/ server.waited >= Drain
  /\ server' = [server EXCEPT !.requests = 0,
                  !.pc = IF server.reason = "reload" THEN "bind" ELSE "ended"]
  /\ UNCHANGED <<setup, disk, file, told, cut, main, work, boots>>

\* bind_tcp; a failure is the end of the process.  config.tls then looks at
\* the files, and what it finds changes nothing but the log.
Rebind ==
  /\ ServerAt("bind")
  /\ server' = [server EXCEPT !.pc = "start"]
  /\ UNCHANGED <<setup, disk, file, told, cut, main, work, boots>>

RequestArrives ==
  /\ server.pc \in {"baseline", "run"} /\ server.requests < MaxRequests /\ arrived < setup.work
  /\ arrived' = arrived + 1
  /\ server' = [server EXCEPT !.requests = @ + 1]
  /\ UNCHANGED <<setup, disk, file, told, cut, main, certs, boots, renewals>>

\* A request that ends may leave a task that records it.
RequestEnds ==
  /\ server.requests > 0
  /\ \E left \in {0, 1} :
       /\ server.tasks + left <= MaxTasks
       /\ server' = [server EXCEPT !.requests = @ - 1, !.tasks = @ + left]
  /\ UNCHANGED <<setup, disk, file, told, cut, main, work, boots>>

TaskEnds ==
  /\ server.tasks > 0
  /\ server' = [server EXCEPT !.tasks = @ - 1]
  /\ UNCHANGED <<setup, disk, file, told, cut, main, work, boots>>

-----------------------------------------------------------------------------
(***************************************************************************)
(* Shutting down                                                           *)
(***************************************************************************)

Signal ==
  /\ Serving /\ ~main.signalled
  /\ main' = [main EXCEPT !.signalled = TRUE]
  /\ UNCHANGED <<setup, disk, file, told, cut, server, work, boots>>

\* Mutant: the main thread does not wait for the server.
JoinNothing ==
  /\ Serving /\ main.signalled
  /\ MainGoes("flush")
  /\ UNCHANGED <<setup, disk, file, told, cut, server, work, boots>>

\* server.join, and then the loops of the process are aborted
Join ==
  /\ Serving /\ main.signalled /\ ServerAt("ended")
  /\ MainGoes("flush")
  /\ UNCHANGED <<setup, disk, file, told, cut, server, work, boots>>

\* 200 milliseconds for the tasks that are left; whatever is not written by
\* then is lost
CloseDatabase ==
  /\ MainAt("flush")
  /\ disk' = [disk EXCEPT !.open = FALSE]
  /\ MainGoes("closed")
  /\ UNCHANGED <<setup, file, told, cut, server, work, boots>>

Exit ==
  /\ MainAt("closed")
  /\ main' = Off
  /\ server' = NoServer
  /\ UNCHANGED <<setup, disk, file, told, cut, work, boots>>

\* The process ends at any step, or a statement of its start fails.
Halfway ==
  \/ MainAt("first")
  \/ MainAt("verify")
  \/ main.pc \in {"password", "verify", "file"} /\ (main.rotate \/ main.give)
ServerCrash ==
  /\ ~MainAt("off")
  /\ main' = Off
  /\ server' = NoServer
  /\ disk' = [disk EXCEPT !.open = FALSE]
  /\ cut' = (cut \/ Halfway)
  /\ UNCHANGED <<setup, file, told, work, boots>>

\* The task that removes the file ten minutes after it was written
RemoveFile ==
  /\ Serving /\ file.here /\ file.boot = boots
  /\ file' = NoFile
  /\ UNCHANGED <<setup, disk, told, cut, main, server, work, boots>>

\* Somebody renews the certificate, one file after the other.
Renew ==
  /\ setup.tls /\ renewals < setup.renewals
  /\ renewals' = renewals + 1
  /\ \E part \in {"cert", "key"} : certs' = [certs EXCEPT ![part] = @ + 1]
  /\ server' = [server EXCEPT !.gap = @ \/ ServerAt("baseline")]
  /\ UNCHANGED <<setup, disk, file, told, cut, main, boots, arrived>>

Starting == Boot \/ CreateAdmin \/ VerifyFirst \/ KeepToken \/ KeepPassword \/ VerifyAdmin
            \/ TellCredentials \/ Listen
Thread   == StartServer \/ TakeBaseline \/ NoticeSignal \/ NoticeFiles \/ DrainTick \/ Drained \/ Rebind
Ending   == Join \/ CloseDatabase \/ Exit
Outside  == RequestArrives \/ RequestEnds \/ TaskEnds \/ Signal \/ RemoveFile \/ Renew

ServerNext == Starting \/ Thread \/ Ending \/ Outside

\* Both threads run; nothing says that a request ends.
ServerFairness == WF_serverVars(Thread) /\ WF_serverVars(Ending)

-----------------------------------------------------------------------------
(***************************************************************************)
(* Properties                                                              *)
(***************************************************************************)

ServerTypeOK ==
  /\ setup \in Setups /\ cut \in BOOLEAN
  /\ DOMAIN disk = {"initialized", "token", "admin", "password", "active", "open"}
  /\ DOMAIN file = DOMAIN NoFile /\ DOMAIN main = DOMAIN Off /\ DOMAIN server = DOMAIN NoServer
  /\ server.requests \in 0..MaxRequests /\ server.tasks \in 0..MaxTasks
  /\ server.waited \in 0..Drain

\* apply_bootstrap_admin_token: a process that serves has an administrator
\* with a password, and the token and the password that count have been told
\* in a file, unless a start ended between keeping them and telling them and
\* nobody has reset them since.
CredentialsAreTold ==
  Serving /\ ~cut =>
    /\ disk.admin /\ disk.active /\ disk.password # 0
    /\ disk.token = told.token /\ disk.password = told.password

\* --reset-admin heals whatever earlier starts have left.
ResetHeals ==
  main.pc \in {"expose", "serving"} /\ main.reset =>
    /\ disk.active /\ disk.token = told.token /\ disk.password = told.password

\* .admin_token: a file that is there while the process serves was written by
\* its own start, which will remove it, and tells what counts.
FileIsShortLived ==
  Serving /\ file.here =>
    /\ file.boot = boots
    /\ file.token \in {0, disk.token} /\ file.password \in {0, disk.password}

\* The database is there for everything the server thread runs: it is closed
\* after the thread has ended.
DatabaseOutlivesTheServer ==
  (server.requests > 0 \/ server.pc \notin {"off", "ended"}) => disk.open

\* A certificate is in use with its own key.
PairsMatch ==
  setup.tls /\ server.pc \in {"baseline", "run", "drain"} => Valid(server.serves)

\* A server that runs with another pair than the files hold will notice it,
\* unless they changed between their reading and the taking of their times.
ChangesAreNoticed ==
  setup.tls /\ ServerAt("run") /\ server.serves # certs => Changed \/ server.gap

\* shutdown_signal: the process ends, however long its requests run, as long
\* as the server thread is not left alone with a certificate that does not
\* fit.
ShutdownEnds ==
  <>[]Valid(certs) => (main.signalled ~> MainAt("off"))

\* "failed to reload TLS config; keeping old cert": a renewal that does not
\* fit leaves the server with the certificate it had.
OldCertificateServes ==
  ServerAt("bind") ~> (ServerAt("run") \/ MainAt("off"))

\* Somebody can always come in as the first administrator.
CredentialsReachTheirOwner == CredentialsAreTold /\ ResetHeals /\ FileIsShortLived

\* What serves has what it needs, through renewals and to the end: the
\* database, a certificate with its key and the news of another; and it ends.
ServesUntilItEnds ==
  []DatabaseOutlivesTheServer /\ []PairsMatch /\ []ChangesAreNoticed /\ ShutdownEnds
=============================================================================

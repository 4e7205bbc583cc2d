------------------------------ MODULE Accounts ------------------------------
(***************************************************************************)
(* Users, the codes they receive by mail, their sessions and the guards on *)
(* logins.  A handler runs from await to await: every statement it sends   *)
(* to the database and every map it locks is a step, and the other         *)
(* handlers run in between with the row or the code it read in hand.       *)
(*                                                                         *)
(* users and codes are tables and survive a restart; the user cache, the   *)
(* guards and the registration limiter live in memory, and every session   *)
(* ticket is signed with a secret drawn at start.                          *)
(***************************************************************************)
EXTENDS Integers, Sequences, FiniteSets

CONSTANTS
  Users, Passwords, None,
  Handlers,                  (* 1..n: the requests served at once           *)
  Admin,                     (* bootstrap_admin_id                          *)
  Scenes,                    (* what is on stage: one is chosen             *)
  MaxAttempts, CodeTtl,      (* 5 wrong guesses; 10 minutes                 *)
  MaxFailures, LockTime,     (* 5 wrong passwords; 60 seconds               *)
  CacheTtl, TicketTtl,       (* 30 seconds; SESSION_MAX_AGE_SECS            *)
  Grace, ResendGap,          (* unverified_grace_hours; 60 seconds          *)
  HourlyLimit, Hour,         (* 5 attempts to register in 3600 seconds      *)
  DailyLimit, Day            (* 3 registrations in 86400 seconds            *)

Statuses == {"pending", "active", "disabled"}
Roles    == {"user", "admin"}
Purposes == {"verify_email", "reset_password"}

\* Operations by what they ask of the caller.
Anonymous  == {"register", "verify_email", "resend", "reset_request",
               "reset_confirm", "login", "token_login"}
Personal   == {"use", "change_password"}
Privileged == {"disable", "enable", "set_role", "set_status", "create_user"}

Never == -1     (* session_revoked_at IS NULL                               *)

Row    == [id : Users, status : Statuses, role : Roles, password : Passwords,
           revoked : Int, created : Int, verified : BOOLEAN, by : {"self", "admin"}]
\* pw: history, the password that was checked; overlap: history, the row the
\* login read had changed when the ticket was made.
Ticket == [user : Users, iat : Int, pw : Passwords \cup {None}, overlap : BOOLEAN]
Cached == [status : Statuses, role : Roles, revoked : Int]
Guard  == [count : Nat, until : Int]
Scene  == [ops : SUBSET (Anonymous \cup Personal \cup Privileged),
           about : SUBSET Users, users : [Users -> Row \cup {None}], tickets : SUBSET Ticket,
           starts : Nat, until : Nat, failures : BOOLEAN]

\* What the tables may hold at a start without codes: a row under its id, the
\* first administrator, nobody who verified himself, nobody verified and
\* pending, and sessions opened with the password.
Opening(rows, held) ==
  /\ \A u \in Users : rows[u] # None =>
       /\ rows[u].id = u
       /\ rows[u].verified => rows[u].by = "admin" /\ rows[u].status # "pending"
  /\ \E u \in Users : rows[u] # None /\ rows[u].role = "admin"
  /\ \A t \in held : /\ rows[t.user] # None /\ t.iat <= 0
                     /\ t.pw \in {None, rows[t.user].password}

ASSUME AccountsAssumption ==
  /\ Scenes \subseteq Scene /\ \A sc \in Scenes : Opening(sc.users, sc.tickets)
  /\ IsFiniteSet(Handlers) /\ Handlers = 1..Cardinality(Handlers)
  /\ Admin \in Users /\ None \notin Users \cup Passwords \cup Row \cup Ticket \cup Guard
  /\ {MaxAttempts, CodeTtl, MaxFailures, LockTime, CacheTtl, TicketTtl, Grace,
      ResendGap, HourlyLimit, Hour, DailyLimit, Day} \subseteq Nat \ {0}

VARIABLES
  scene,
  now,         (* seconds                                                   *)
  users,       (* table users                                               *)
  codes,       (* table verification_codes, in order of id                  *)
  cache,       (* user_cache                                                *)
  tickets,     (* the tickets clients hold                                  *)
  loginGuard,  (* login_guard, by email: the clients share one address      *)
  adminGuard,  (* admin_guard                                               *)
  limiter,     (* auth_rate_limiter: [hourly, daily]                        *)
  handlers,
  demotions,   (* history: two demotions counted the administrators at once *)
  started

accountVars == <<scene, now, users, codes, cache, tickets, loginGuard, adminGuard,
                 limiter, handlers, demotions, started>>
tables      == <<users, codes>>
guards      == <<loginGuard, adminGuard, limiter>>

\* u: whom the call is about; ticket: what it carries; pw, arg: what it says
\* (a password; a code, a role or a status); row, code: what it read;
\* fresh: history, nobody has changed the row since.
Idle == [op |-> None, pc |-> "idle", u |-> None, ticket |-> None, pw |-> None,
         arg |-> None, row |-> None, code |-> 0, fresh |-> TRUE]

Absent == {u \in Users : users[u] = None}

AccountsInit ==
  /\ scene \in Scenes
  /\ now = 0
  /\ users = scene.users
  /\ codes = <<>>
  /\ cache = [u \in Users |-> None]
  /\ tickets = scene.tickets
  /\ loginGuard = [u \in Users |-> None]
  /\ adminGuard = None
  /\ limiter = [hourly |-> None, daily |-> None]
  /\ handlers = [h \in Handlers |-> Idle]
  /\ demotions = FALSE
  /\ started = 0

-----------------------------------------------------------------------------
(***************************************************************************)
(* Steps of a handler                                                      *)
(***************************************************************************)

At(h, pc)      == handlers[h].pc = pc
Becomes(h, r)  == handlers' = [handlers EXCEPT ![h] = r]
Goes(h, pc)    == Becomes(h, [handlers[h] EXCEPT !.pc = pc])
Answers(h)     == Becomes(h, Idle)

\* A statement that changes the row of a user; whoever holds a copy now holds
\* an old one.
Writes(h, row, next) ==
  /\ users' = [users EXCEPT ![row.id] = row]
  /\ handlers' =
       [k \in Handlers |->
          IF k = h THEN next
          ELSE [handlers[k] EXCEPT
                  !.fresh = @ /\ (handlers[k].row = None \/ handlers[k].row.id # row.id)]]

\* Mutant: the lock takes one failure more.
LockedLate(entry) == entry # None /\ entry.count > MaxFailures /\ entry.until > now

\* AdminGuard / SubjectGuard
Locked(entry) == entry # None /\ entry.count >= MaxFailures /\ entry.until > now
Checked(entry) ==   \* check_locked drops an entry whose time is over
  IF entry # None /\ entry.count >= MaxFailures /\ entry.until <= now THEN None ELSE entry
\* Mutant: every failure moves the lock time.
FailedEachTime(entry) ==
  [count |-> (IF entry = None THEN 0 ELSE entry.count) + 1, until |-> now + LockTime]

Failed(entry) ==    \* record_failure
  LET count == IF entry = None THEN 1 ELSE entry.count + 1
  IN  [count |-> count,
       until |-> IF count >= MaxFailures THEN now + LockTime
                 ELSE IF entry = None THEN now ELSE entry.until]

\* create_user_session_ticket
NewTicket(u, pw, overlap) == [user |-> u, iat |-> now, pw |-> pw, overlap |-> overlap]
Expired(t)            == now >= t.iat + TicketTtl
\* Mutant: a session of the second of the revocation stays.
RevokedBefore(t, revoked) == revoked # Never /\ t.iat < revoked

RevokedAt(t, revoked) == revoked # Never /\ t.iat <= revoked
InForce(t)            == ~Expired(t) /\ ~RevokedAt(t, users[t.user].revoked)

Arrive(h, r) ==
  /\ At(h, "idle") /\ \A k \in Handlers : k < h => ~At(k, "idle")
  /\ r.op \in scene.ops /\ r.u \in scene.about
  /\ started < scene.starts
  /\ started' = started + 1
  /\ Becomes(h, r)
  /\ UNCHANGED <<scene, now, tables, cache, tickets, guards, demotions>>

\* What somebody can type: a code that was mailed, or a wrong one.
Typed == {0} \cup {n \in DOMAIN codes : codes[n].mailed}

Call(h) ==
  \/ \E u \in Users, op \in {"resend", "reset_request"} :
       Arrive(h, [Idle EXCEPT !.op = op, !.pc = "find", !.u = u])
  \/ \E u \in Users, pw \in Passwords :
       \/ Arrive(h, [Idle EXCEPT !.op = "register", !.pc = "limit", !.u = u, !.pw = pw])
       \/ Arrive(h, [Idle EXCEPT !.op = "login", !.pc = "locked", !.u = u, !.pw = pw])
  \/ \E u \in Users, n \in Typed :
       \/ Arrive(h, [Idle EXCEPT !.op = "verify_email", !.pc = "find", !.u = u, !.arg = n])
       \/ \E pw \in Passwords :
            Arrive(h, [Idle EXCEPT !.op = "reset_confirm", !.pc = "find", !.u = u,
                                   !.arg = n, !.pw = pw])
  \/ \E right \in BOOLEAN :
       Arrive(h, [Idle EXCEPT !.op = "token_login", !.pc = "locked", !.u = Admin, !.arg = right])
  \/ \E t \in tickets : Arrive(h, [Idle EXCEPT !.op = "use", !.pc = "cache", !.u = t.user, !.ticket = t])
  \/ \E t \in tickets, old \in Passwords, pw \in Passwords :
       Arrive(h, [Idle EXCEPT !.op = "change_password", !.pc = "cache", !.u = t.user,
                              !.ticket = t, !.arg = old, !.pw = pw])

\* The caller shows a session, or the administrator's token in a header
\* (ticket None): require_admin_user.
CallOfAdmin(h) ==
  \E u \in Users, t \in tickets \cup {None} :
    LET admitted == [Idle EXCEPT !.pc = IF t = None THEN "token" ELSE "cache",
                                 !.u = u, !.ticket = t]
    IN  \/ \E op \in {"disable", "enable"} : Arrive(h, [admitted EXCEPT !.op = op])
        \/ \E role \in Roles :
             \/ Arrive(h, [admitted EXCEPT !.op = "set_role", !.arg = role])
             \/ \E pw \in Passwords :
                  Arrive(h, [admitted EXCEPT !.op = "create_user", !.arg = role, !.pw = pw])
        \/ \E status \in {"active", "disabled"} :
             Arrive(h, [admitted EXCEPT !.op = "set_status", !.arg = status])

-----------------------------------------------------------------------------
(***************************************************************************)
(* Registration and codes                                                  *)
(***************************************************************************)

Counted(entry, span) ==   \* a window of the limiter that starts over once it is old
  IF entry = None \/ now - entry.since >= span THEN [since |-> now, count |-> 1]
  ELSE [entry EXCEPT !.count = @ + 1]
Swept(entry, span)  == IF entry # None /\ now - entry.since >= span THEN None ELSE entry
Full(entry, limit)  == entry # None /\ entry.count >= limit

\* check_register
CheckRegister(h) ==
  /\ At(h, "limit")
  /\ LET hourly == Swept(limiter.hourly, Hour)
         daily  == IF Full(hourly, HourlyLimit) THEN limiter.daily ELSE Swept(limiter.daily, Day)
     IN  /\ limiter' = [hourly |-> hourly, daily |-> daily]
         /\ IF Full(hourly, HourlyLimit) \/ Full(daily, DailyLimit) THEN Answers(h)
            ELSE Goes(h, "attempt")
  /\ UNCHANGED <<scene, now, tables, cache, tickets, loginGuard, adminGuard, demotions, started>>

\* record_register_attempt; an address or a password that will not do ends it
RecordAttempt(h) ==
  /\ At(h, "attempt")
  /\ limiter' = [limiter EXCEPT !.hourly = Counted(@, Hour)]
  /\ \/ Goes(h, "create")
     \/ Answers(h)
  /\ UNCHANGED <<scene, now, tables, cache, tickets, loginGuard, adminGuard, demotions, started>>

\* UserRepo::create: the address is unique.  register answers an address that
\* is taken as if it had been created; create_user says so.
Create(h) ==
  /\ At(h, "create")
  /\ LET u     == handlers[h].u
         admin == handlers[h].op = "create_user"
         row   == [id |-> u, status |-> "pending",
                   role |-> IF admin THEN handlers[h].arg ELSE "user",
                   password |-> handlers[h].pw, revoked |-> Never, created |-> now,
                   verified |-> FALSE, by |-> IF admin THEN "admin" ELSE "self"]
     IN  \/ /\ users[u] = None
            /\ Writes(h, row, [handlers[h] EXCEPT !.pc = IF admin THEN "verify" ELSE "created"])
         \/ /\ users[u] # None
            /\ Answers(h) /\ UNCHANGED users
  /\ UNCHANGED <<scene, now, codes, cache, tickets, guards, demotions, started>>

\* record_register_success
RecordSuccess(h) ==
  /\ At(h, "created")
  /\ limiter' = [limiter EXCEPT !.daily = Counted(@, Day)]
  /\ Goes(h, "issue")
  /\ UNCHANGED <<scene, now, tables, cache, tickets, loginGuard, adminGuard, demotions, started>>

Purpose(op) == IF op \in {"reset_request", "reset_confirm"} THEN "reset_password"
               ELSE "verify_email"

\* Mutant: the codes that are out stay valid.
TakenBackKeeps(u, purpose) == codes

\* issue: one transaction takes back the codes that are out and adds a row.
TakenBack(u, purpose) ==
  [n \in DOMAIN codes |->
     IF codes[n].user = u /\ codes[n].purpose = purpose
     THEN [codes[n] EXCEPT !.consumed = TRUE] ELSE codes[n]]
Issue(h) ==
  /\ At(h, "issue")
  /\ LET u == handlers[h].u
         purpose == Purpose(handlers[h].op)
         code == [user |-> u, purpose |-> purpose, at |-> now, attempts |-> 0,
                  consumed |-> FALSE, mailed |-> FALSE, accepted |-> 0, raced |-> FALSE]
     IN  /\ codes' = Append(TakenBack(u, purpose), code)
         /\ Becomes(h, [handlers[h] EXCEPT !.pc = "mail", !.code = Len(codes) + 1])
  /\ UNCHANGED <<scene, now, users, cache, tickets, guards, demotions, started>>

\* Mailer::send_code; the row of the code stays when the mail fails
SendCode(h) ==
  /\ At(h, "mail")
  /\ \/ codes' = [codes EXCEPT ![handlers[h].code].mailed = TRUE]
     \/ UNCHANGED codes
  /\ Answers(h)
  /\ UNCHANGED <<scene, now, users, cache, tickets, guards, demotions, started>>

\* find_by_email for a handler that needs no more than the id of the row: the
\* users who are not there are answered as the others, and resend has nothing
\* to send to an active one.
Find(h) ==
  /\ At(h, "find") /\ handlers[h].op # "login"
  /\ LET row == users[handlers[h].u]
         op  == handlers[h].op
     IN  IF row = None \/ (op = "resend" /\ row.status = "active") THEN Answers(h)
         ELSE Goes(h, CASE op = "resend" -> "latest"
                        [] op = "reset_request" -> "issue"
                        [] OTHER -> "code")
  /\ UNCHANGED <<scene, now, tables, cache, tickets, guards, demotions, started>>

\* latest_created_at looks at consumed codes as well
Latest(h) ==
  /\ At(h, "latest")
  /\ LET sent == {n \in DOMAIN codes : /\ codes[n].user = handlers[h].u
                                       /\ codes[n].purpose = "verify_email"}
     IN  IF \E n \in sent : (\A m \in sent : m <= n) /\ now - codes[n].at < ResendGap
         THEN Answers(h) ELSE Goes(h, "issue")
  /\ UNCHANGED <<scene, now, tables, cache, tickets, guards, demotions, started>>

\* Mutant: the query forgets the purpose.
OpenCodesOfUser(u, purpose) ==
  {n \in DOMAIN codes : codes[n].user = u /\ ~codes[n].consumed}

\* verify reads the newest row that is not consumed ...
OpenCodes(u, purpose) ==
  {n \in DOMAIN codes : codes[n].user = u /\ codes[n].purpose = purpose /\ ~codes[n].consumed}
\* Mutant: the attempts of the code are not looked at.
ReadCodeUnlimited(h) ==
  /\ At(h, "code")
  /\ LET open == OpenCodes(handlers[h].u, Purpose(handlers[h].op))
     IN  \/ open = {} /\ Answers(h)
         \/ \E n \in open :
              /\ codes[n].at + CodeTtl > now
              /\ Becomes(h, [handlers[h] EXCEPT
                               !.pc = IF handlers[h].arg = n THEN "spend" ELSE "miss", !.code = n])
  /\ UNCHANGED <<scene, now, codes, users, cache, tickets, guards, demotions, started>>

ReadCode(h) ==
  /\ At(h, "code")
  /\ LET open == OpenCodes(handlers[h].u, Purpose(handlers[h].op))
     IN  \/ open = {} /\ Answers(h) /\ UNCHANGED codes
         \/ \E n \in open :
              /\ \A m \in open : m <= n
              /\ \/ /\ \/ codes[n].attempts >= MaxAttempts
                       \/ codes[n].at + CodeTtl <= now
                    /\ Answers(h) /\ UNCHANGED codes
                 \/ /\ codes[n].attempts < MaxAttempts /\ codes[n].at + CodeTtl > now
                    /\ Becomes(h, [handlers[h] EXCEPT
                                     !.pc = IF handlers[h].arg = n THEN "spend" ELSE "miss", !.code = n])
                    /\ codes' = [codes EXCEPT ![n].raced =
                         @ \/ \E k \in Handlers \ {h} : At(k, "spend") /\ handlers[k].code = n]
  /\ UNCHANGED <<scene, now, users, cache, tickets, guards, demotions, started>>

\* ... and writes to it by its id: another attempt, or the end of it.
Miss(h) ==
  /\ At(h, "miss")
  /\ codes' = [codes EXCEPT ![handlers[h].code].attempts = @ + 1]
  /\ Answers(h)
  /\ UNCHANGED <<scene, now, users, cache, tickets, guards, demotions, started>>

\* Mutant: consumed_at is not set.
SpendAgain(h) ==
  /\ At(h, "spend")
  /\ codes' = [codes EXCEPT ![handlers[h].code].accepted = @ + 1]
  /\ Goes(h, IF handlers[h].op = "verify_email" THEN "verify" ELSE "password")
  /\ UNCHANGED <<scene, now, users, cache, tickets, guards, demotions, started>>

Spend(h) ==
  /\ At(h, "spend")
  /\ codes' = [codes EXCEPT ![handlers[h].code].consumed = TRUE,
                            ![handlers[h].code].accepted = @ + 1]
  /\ Goes(h, IF handlers[h].op = "verify_email" THEN "verify" ELSE "password")
  /\ UNCHANGED <<scene, now, users, cache, tickets, guards, demotions, started>>

\* Mutant: whoever has a code is active.
MarkActive(row) == [row EXCEPT !.verified = TRUE, !.status = "active"]

\* mark_email_verified.  create_user leaves the cache as it is.
MarkVerified(row) ==
  [row EXCEPT !.verified = TRUE, !.status = IF @ = "pending" THEN "active" ELSE @]
Verify(h) ==
  /\ At(h, "verify")
  /\ LET u == handlers[h].u
         created == handlers[h].op = "create_user"
     IN  /\ Writes(h, MarkVerified(users[u]),
                   IF created THEN Idle ELSE [handlers[h] EXCEPT !.pc = "invalidate"])
         /\ cache' = IF created /\ cache[u] # None
                     THEN [cache EXCEPT ![u].excused = TRUE] ELSE cache
  /\ UNCHANGED <<scene, now, codes, tickets, guards, demotions, started>>

\* Mutant: set_password_hash leaves the sessions.
SetPasswordOnly(row, pw) == [row EXCEPT !.password = pw]

\* set_password_hash revokes the sessions in the same statement
SetPassword(row, pw) == [row EXCEPT !.password = pw, !.revoked = now]
WritePassword(h) ==
  /\ At(h, "password")
  /\ LET row == SetPassword(users[handlers[h].u], handlers[h].pw)
     IN  Writes(h, row, [handlers[h] EXCEPT !.pc = "invalidate", !.row = row, !.fresh = TRUE])
  /\ UNCHANGED <<scene, now, codes, cache, tickets, guards, demotions, started>>

\* Mutant: the cache is not told.
InvalidateNothing(h) ==
  /\ At(h, "invalidate")
  /\ tickets' = IF handlers[h].op = "change_password"
                THEN tickets \cup {NewTicket(handlers[h].u, handlers[h].pw, ~handlers[h].fresh)}
                ELSE tickets
  /\ Answers(h)
  /\ UNCHANGED <<scene, now, tables, cache, guards, demotions, started>>

\* invalidate_user_cache.  A changed password comes with a ticket of the same
\* moment.
Invalidate(h) ==
  /\ At(h, "invalidate")
  /\ cache' = [cache EXCEPT ![handlers[h].u] = None]
  /\ tickets' = IF handlers[h].op = "change_password"
                THEN tickets \cup {NewTicket(handlers[h].u, handlers[h].pw, ~handlers[h].fresh)}
                ELSE tickets
  /\ Answers(h)
  /\ UNCHANGED <<scene, now, tables, guards, demotions, started>>

-----------------------------------------------------------------------------
(***************************************************************************)
(* Logins                                                                  *)
(***************************************************************************)

\* check_locked, before anything is compared
CheckLocked(h) ==
  /\ At(h, "locked")
  /\ \/ /\ handlers[h].op = "login"
        /\ LET entry == loginGuard[handlers[h].u]
           IN  /\ IF Locked(entry) THEN Answers(h) ELSE Goes(h, "find")
               /\ loginGuard' = [loginGuard EXCEPT ![handlers[h].u] = Checked(entry)]
        /\ UNCHANGED adminGuard
     \/ /\ handlers[h].op = "token_login"
        /\ IF Locked(adminGuard) THEN Answers(h) ELSE Goes(h, "token")
        /\ adminGuard' = Checked(adminGuard)
        /\ UNCHANGED loginGuard
  /\ UNCHANGED <<scene, now, tables, cache, tickets, limiter, demotions, started>>

\* find_by_email and verify_password
LoginFind(h) ==
  /\ At(h, "find") /\ handlers[h].op = "login"
  /\ LET row == users[handlers[h].u]
     IN  IF row = None \/ row.password # handlers[h].pw THEN Goes(h, "failure")
         ELSE IF row.status = "disabled" THEN Answers(h)
         ELSE Becomes(h, [handlers[h] EXCEPT !.pc = "success", !.row = row, !.fresh = TRUE])
  /\ UNCHANGED <<scene, now, tables, cache, tickets, guards, demotions, started>>

LoginFailure(h) ==
  /\ At(h, "failure")
  /\ loginGuard' = [loginGuard EXCEPT ![handlers[h].u] = Failed(@)]
  /\ Answers(h)
  /\ UNCHANGED <<scene, now, tables, cache, tickets, adminGuard, limiter, demotions, started>>

\* The guard forgets, and what the row said decides: a ticket, or the end of
\* an account nobody verified in time.
LoginSuccess(h) ==
  /\ At(h, "success")
  /\ loginGuard' = [loginGuard EXCEPT ![handlers[h].u] = None]
  /\ LET row == handlers[h].row
         overdue == row.status = "pending" /\ now - row.created > Grace
     IN  \/ /\ overdue
            /\ Becomes(h, [handlers[h] EXCEPT !.pc = "status", !.arg = "disabled"])
            /\ UNCHANGED tickets
         \/ /\ ~overdue
            /\ tickets' = tickets \cup {NewTicket(row.id, handlers[h].pw, ~handlers[h].fresh)}
            /\ Answers(h)
  /\ UNCHANGED <<scene, now, tables, cache, adminGuard, limiter, demotions, started>>

\* The administrator's token, typed in the login form or sent in a header.
\* A wrong one in a header is counted after it was compared, locked or not.
CompareToken(h) ==
  /\ At(h, "token")
  /\ \/ /\ handlers[h].op = "token_login" /\ ~handlers[h].arg
        /\ adminGuard' = Failed(adminGuard) /\ Answers(h)
     \/ /\ handlers[h].op = "token_login" /\ handlers[h].arg
        /\ adminGuard' = None /\ Goes(h, "ticket")
     \/ /\ handlers[h].op \in Privileged
        /\ \/ adminGuard' = None
              /\ Goes(h, IF handlers[h].op = "create_user" THEN "create" ELSE "load")
           \/ adminGuard' = Checked(Failed(adminGuard)) /\ Answers(h)
  /\ UNCHANGED <<scene, now, tables, cache, tickets, loginGuard, limiter, demotions, started>>

\* find_by_id(bootstrap_admin_id) and a ticket for him
TokenTicket(h) ==
  /\ At(h, "ticket")
  /\ tickets' = IF users[Admin] = None THEN tickets
                ELSE tickets \cup {NewTicket(Admin, None, FALSE)}
  /\ Answers(h)
  /\ UNCHANGED <<scene, now, tables, cache, guards, demotions, started>>

-----------------------------------------------------------------------------
(***************************************************************************)
(* Sessions                                                                *)
(***************************************************************************)

CachedUser(row) == [status |-> row.status, role |-> row.role, revoked |-> row.revoked]

\* resolve_session_user and require_admin_user, from what the cache or the
\* table said of the user of the ticket
Admits(h, known) ==
  /\ ~RevokedAt(handlers[h].ticket, known.revoked)
  /\ known.status # "disabled"
  /\ handlers[h].op \in Privileged => known.role = "admin"
Decides(h, known) ==
  IF ~Admits(h, known) \/ handlers[h].op = "use" THEN Answers(h)
  ELSE Becomes(h, [handlers[h] EXCEPT
         !.pc = IF handlers[h].op = "create_user" THEN "create" ELSE "load", !.row = None, !.fresh = TRUE])

\* Mutant: entries do not age.
HitForever(u) == cache[u] # None

\* TtlCache::get
Hit(u) == cache[u] # None /\ now - cache[u].at < CacheTtl
AskCache(h) ==
  /\ At(h, "cache")
  /\ LET t == handlers[h].ticket
     IN  \/ /\ Expired(t)
            /\ Answers(h) /\ UNCHANGED cache
         \/ /\ ~Expired(t) /\ Hit(t.user)
            /\ Decides(h, cache[t.user].value) /\ UNCHANGED cache
         \/ /\ ~Expired(t) /\ ~Hit(t.user)
            /\ cache' = [cache EXCEPT ![t.user] = None]
            /\ Goes(h, "read")
  /\ UNCHANGED <<scene, now, tables, tickets, guards, demotions, started>>

ReadUser(h) ==
  /\ At(h, "read")
  /\ Becomes(h, [handlers[h] EXCEPT !.pc = "insert", !.row = users[handlers[h].ticket.user], !.fresh = TRUE])
  /\ UNCHANGED <<scene, now, tables, cache, tickets, guards, demotions, started>>

FillCache(h) ==
  /\ At(h, "insert")
  /\ LET row == handlers[h].row
     IN  /\ cache' = [cache EXCEPT ![row.id] =
                        [value |-> CachedUser(row), at |-> now, excused |-> ~handlers[h].fresh]]
         /\ Decides(h, CachedUser(row))
  /\ UNCHANGED <<scene, now, tables, tickets, guards, demotions, started>>

-----------------------------------------------------------------------------
(***************************************************************************)
(* Changing an account                                                     *)
(***************************************************************************)

\* load_user; change_password compares the old password with what it read,
\* and what would change nothing is left out
Load(h) ==
  /\ At(h, "load")
  /\ LET row == users[handlers[h].u]
         op  == handlers[h].op
         arg == handlers[h].arg
         demotes == op = "set_role" /\ row.role = "admin" /\ arg # "admin"
     IN  IF row = None
            \/ (op = "change_password" /\ row.password # arg)
            \/ (op = "set_role" /\ row.role = arg)
            \/ (op = "set_status" /\ row.status = arg) THEN Answers(h)
         ELSE Becomes(h, [handlers[h] EXCEPT
                !.pc = CASE op = "change_password" -> "password"
                         [] demotes -> "count"
                         [] op = "set_role" /\ ~demotes -> "role"
                         [] OTHER -> "status",
                !.arg = CASE op = "disable" -> "disabled"
                          [] op = "enable" -> "active"
                          [] OTHER -> arg])
  /\ UNCHANGED <<scene, now, tables, cache, tickets, guards, demotions, started>>

Administrators == {u \in Users : users[u] # None /\ users[u].role = "admin"}

\* Mutant: < 1 for <= 1.
CountAdminsLate(h) ==
  /\ At(h, "count")
  /\ IF Cardinality(Administrators) < 1 THEN Answers(h) /\ UNCHANGED demotions
     ELSE /\ Goes(h, "role")
          /\ demotions' = (demotions \/ \E k \in Handlers \ {h} :
                                          At(k, "role") /\ handlers[k].arg = "user")
  /\ UNCHANGED <<scene, now, tables, cache, tickets, guards, started>>

\* count_admins, before the role is written
CountAdmins(h) ==
  /\ At(h, "count")
  /\ IF Cardinality(Administrators) <= 1 THEN Answers(h) /\ UNCHANGED demotions
     ELSE /\ Goes(h, "role")
          /\ demotions' = (demotions \/ \E k \in Handlers \ {h} :
                                          At(k, "role") /\ handlers[k].arg = "user")
  /\ UNCHANGED <<scene, now, tables, cache, tickets, guards, started>>

SetRole(h) ==
  /\ At(h, "role")
  /\ Writes(h, [users[handlers[h].u] EXCEPT !.role = handlers[h].arg],
            [handlers[h] EXCEPT !.pc = "invalidate"])
  /\ UNCHANGED <<scene, now, codes, cache, tickets, guards, demotions, started>>

\* set_status, whatever the row holds by now; an administrator who disables
\* revokes the sessions with a second statement
SetStatus(h) ==
  /\ At(h, "status")
  /\ LET status == handlers[h].arg
     IN  Writes(h, [users[handlers[h].u] EXCEPT !.status = status],
                [handlers[h] EXCEPT !.pc =
                   IF status = "disabled" /\ handlers[h].op # "login" THEN "revoke" ELSE "invalidate"])
  /\ UNCHANGED <<scene, now, codes, cache, tickets, guards, demotions, started>>

Revoke(h) ==
  /\ At(h, "revoke")
  /\ Writes(h, [users[handlers[h].u] EXCEPT !.revoked = now],
            [handlers[h] EXCEPT !.pc = "invalidate"])
  /\ UNCHANGED <<scene, now, codes, cache, tickets, guards, demotions, started>>

\* A statement the database refuses ends the handler.  When it is the second
\* of a disabling, the first stays and the cache is not told.
Refused(h) ==
  /\ scene.failures
  /\ handlers[h].pc \in {"create", "issue", "find", "latest", "code", "miss", "spend", "verify",
                         "password", "token", "ticket", "read", "load", "count", "role",
                         "status", "revoke"}
  /\ Answers(h)
  /\ cache' = IF At(h, "revoke") /\ cache[handlers[h].u] # None
              THEN [cache EXCEPT ![handlers[h].u].excused = TRUE] ELSE cache
  /\ UNCHANGED <<scene, now, tables, tickets, guards, demotions, started>>

Tick ==
  /\ now < scene.until
  /\ now' = now + 1
  /\ UNCHANGED <<scene, tables, cache, tickets, guards, handlers, demotions, started>>

\* The process ends and another one starts on the same tables.
AccountsRestart ==
  /\ handlers' = [h \in Handlers |-> Idle]
  /\ cache' = [u \in Users |-> None]
  /\ tickets' = {}
  /\ loginGuard' = [u \in Users |-> None]
  /\ adminGuard' = None
  /\ limiter' = [hourly |-> None, daily |-> None]
  /\ UNCHANGED <<scene, now, tables, demotions, started>>

Step(h) ==
  \/ CheckRegister(h) \/ RecordAttempt(h) \/ Create(h) \/ RecordSuccess(h)
  \/ Issue(h) \/ SendCode(h) \/ Find(h) \/ Latest(h)
  \/ ReadCode(h) \/ Miss(h) \/ Spend(h) \/ Verify(h) \/ WritePassword(h) \/ Invalidate(h)
  \/ CheckLocked(h) \/ LoginFind(h) \/ LoginFailure(h) \/ LoginSuccess(h)
  \/ CompareToken(h) \/ TokenTicket(h)
  \/ AskCache(h) \/ ReadUser(h) \/ FillCache(h)
  \/ Load(h) \/ CountAdmins(h) \/ SetRole(h) \/ SetStatus(h) \/ Revoke(h) \/ Refused(h)

AccountsNext ==
  Tick \/ AccountsRestart \/ \E h \in Handlers : Call(h) \/ CallOfAdmin(h) \/ Step(h)

AccountsSpec == AccountsInit /\ [][AccountsNext]_accountVars

-----------------------------------------------------------------------------
(***************************************************************************)
(* Properties                                                              *)
(***************************************************************************)

Code == [user : Users, purpose : Purposes, at : Nat, attempts : Nat, consumed : BOOLEAN,
         mailed : BOOLEAN, accepted : Nat, raced : BOOLEAN]

\* Every variable keeps its shape, a ticket names a user who is there, and a
\* lock time lies ahead only of a guard at its limit.
AccountsTypeOK ==
  /\ scene \in Scenes /\ now \in Nat /\ started \in Nat /\ demotions \in BOOLEAN
  /\ users \in [Users -> Row \cup {None}]
  /\ codes \in Seq(Code)
  /\ \A u \in Users : cache[u] = None \/ cache[u].value \in Cached
  /\ tickets \subseteq Ticket /\ \A t \in tickets : users[t.user] # None
  /\ \A u \in Users : loginGuard[u] = None \/ loginGuard[u] \in Guard
  /\ adminGuard = None \/ adminGuard \in Guard
  /\ \A g \in ({adminGuard} \cup {loginGuard[u] : u \in Users}) \ {None} :
       g.until > now => g.count >= MaxFailures
  /\ \A h \in Handlers : DOMAIN handlers[h] = DOMAIN Idle

\* issue: however many requests for a code run at once, one code per user and
\* purpose can still be used.
OneLiveCode ==
  \A u \in Users, p \in Purposes : Cardinality(OpenCodes(u, p)) <= 1

\* verify: a code is compared with at most MaxAttempts wrong guesses and as
\* many more as requests were past its check when the last one was counted.
GuessesBounded ==
  \A n \in DOMAIN codes : codes[n].attempts < MaxAttempts + Cardinality(Handlers)

\* verify reads, compares and consumes in three statements: a code opens
\* twice only for two requests that had both read it before it was consumed.
CodeIsSpentOnce ==
  \A n \in DOMAIN codes : codes[n].accepted > 1 => codes[n].raced

\* A user who registered himself is verified by a code that was mailed to him
\* to verify his address, and by no other code.
VerifiedByItsCode ==
  \A u \in Users :
    users[u] # None /\ users[u].verified /\ users[u].by = "self" =>
      \E n \in DOMAIN codes : /\ codes[n].user = u /\ codes[n].purpose = "verify_email"
                              /\ codes[n].mailed /\ codes[n].accepted > 0

\* SubjectGuard: in a row, no more wrong passwords are compared for an address
\* and an email than the limit and the requests past its check.
FailuresBounded ==
  \A u \in Users :
    loginGuard[u] # None => loginGuard[u].count < MaxFailures + Cardinality(Handlers)

\* A code opens once what it was mailed for, and neither a code nor a password
\* can be guessed at will, with requests that overtake each other.
SecretsAreNotGuessed ==
  OneLiveCode /\ GuessesBounded /\ CodeIsSpentOnce /\ VerifiedByItsCode /\ FailuresBounded

Invalidating(u) ==
  \E h \in Handlers : handlers[h].u = u /\ handlers[h].pc \in {"invalidate", "revoke"}

\* user_cache: what it says of a user is what the table says, while nobody is
\* between a write and the invalidation, unless the entry was filled by a
\* request that had read the row before the write, or was left by one that
\* failed halfway.
CacheTellsTheTruth ==
  \A u \in Users :
    cache[u] # None =>
      \/ cache[u].value = CachedUser(users[u])
      \/ cache[u].excused
      \/ Invalidating(u)

\* A session gets in; a restart, which forgets the tickets, lets nobody in.
Authenticates(h) ==
  /\ handlers[h].pc \in {"cache", "insert"} /\ handlers[h].ticket \in tickets'
  /\ handlers'[h].pc \notin {"cache", "read", "insert"}
  /\ handlers'[h].pc = "idle" =>
       /\ handlers[h].op = "use"
       /\ \/ At(h, "insert") /\ Admits(h, CachedUser(handlers[h].row))
          \/ /\ At(h, "cache") /\ ~Expired(handlers[h].ticket)
             /\ cache[handlers[h].u] # None /\ Admits(h, cache[handlers[h].u].value)

\* resolve_session_user: a session that the table no longer allows gets in
\* only on the way of the change: while it is being written, by a copy read
\* before it, or by an entry that began with such a copy and is younger than
\* the cache's time.  A revoked session does not come back after that, and one
\* whose time is over when it is shown does not get in.
RevokedSessionsEnd ==
  [][\A h \in Handlers : Authenticates(h) =>
       LET t == handlers[h].ticket
       IN  /\ At(h, "cache") => ~Expired(t)
           /\ \/ ~RevokedAt(t, users[t.user].revoked) /\ users[t.user].status # "disabled"
              \/ Invalidating(t.user)
              \/ At(h, "insert") /\ ~handlers[h].fresh
              \/ At(h, "cache") /\ cache[t.user].excused /\ now - cache[t.user].at < CacheTtl]_accountVars

\* set_password_hash: a session still in force was opened with the password
\* the account has now, by the administrator's token, or by a request that
\* another change overtook: a login that had compared the old password, a
\* change that had written its own.
TicketsFollowPassword ==
  \A t \in tickets :
    InForce(t) => t.pw \in {None, users[t.user].password} \/ t.overlap

\* update_user counts the administrators before it takes the role of one: the
\* last one stays, unless two were counted at once.
AnAdminRemains == Administrators # {} \/ demotions

\* An account that is disabled comes back only by an administrator, and one
\* that was verified goes only by an administrator or by a login that had
\* read it before it was.
AccountsChangeHands ==
  [][\A u \in Users : users[u] # None =>
       /\ users[u].status = "disabled" /\ users'[u].status # "disabled" =>
            \E h \in Handlers : /\ At(h, "status") /\ handlers[h].u = u
                                /\ handlers[h].op \in {"enable", "set_status"}
       /\ users[u].verified /\ users[u].status # "disabled" /\ users'[u].status = "disabled" =>
            \E h \in Handlers :
              /\ At(h, "status") /\ handlers[h].u = u
              /\ \/ handlers[h].op \in {"disable", "set_status"}
                 \/ handlers[h].op = "login" /\ ~handlers[h].fresh]_accountVars

\* A session is worth what the account is worth: through the cache, through
\* revocation, and through a change of the password.
SessionsFollowAccounts == []CacheTellsTheTruth /\ RevokedSessionsEnd /\ []TicketsFollowPassword

\* Who may do what changes only by those who may change it, and somebody is
\* left who may.
PowersChangeHands == []AnAdminRemains /\ AccountsChangeHands
=============================================================================

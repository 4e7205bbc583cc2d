--------------------------- MODULE AccountsProofs ---------------------------
(***************************************************************************)
(* Accounts, for any number of users, handlers, codes and sessions: what   *)
(* its run checks on two of each.                                          *)
(*                                                                         *)
(* The invariant says of every handler what it may have in hand at each    *)
(* place (AtHand), and of the tables and of memory what those hands may    *)
(* have left there.                                                        *)
(***************************************************************************)
EXTENDS Accounts, FiniteSetTheorems, TLAPS

Status(q) == q.pc = "status" /\ q.op = "login"
Renewal(q) == q.pc = "invalidate" /\ q.op = "change_password"

\* The operations that come to a place.
Ops(pc) ==
  CASE pc \in {"limit", "attempt", "created"} -> {"register"}
    [] pc = "create" -> {"register", "create_user"}
    [] pc \in {"issue", "mail"} -> {"register", "resend", "reset_request"}
    [] pc = "find" -> {"resend", "reset_request", "verify_email", "reset_confirm", "login"}
    [] pc = "latest" -> {"resend"}
    [] pc \in {"code", "miss", "spend"} -> {"verify_email", "reset_confirm"}
    [] pc = "verify" -> {"verify_email", "create_user"}
    [] pc = "password" -> {"reset_confirm", "change_password"}
    [] pc = "locked" -> {"login", "token_login"}
    [] pc \in {"failure", "success"} -> {"login"}
    [] pc = "token" -> {"token_login"} \cup Privileged
    [] pc = "ticket" -> {"token_login"}
    [] pc \in {"cache", "read", "insert"} -> Personal \cup Privileged
    [] pc = "load" -> {"change_password", "disable", "enable", "set_role", "set_status"}
    [] pc \in {"count", "role"} -> {"set_role"}
    [] pc = "status" -> {"login", "disable", "enable", "set_status"}
    [] pc = "revoke" -> {"disable", "set_status"}
    [] pc = "invalidate" -> {"verify_email", "reset_confirm", "change_password", "set_role",
                             "login", "disable", "enable", "set_status"}
    [] OTHER -> {}

\* The places where the user the call is about is known to be there, and those
\* where a row is in hand.
Known == {"created", "issue", "latest", "code", "miss", "spend", "verify", "password",
          "invalidate", "success", "count", "role", "status", "revoke"}
Holds(q) == q.pc \in {"success", "insert"} \/ Status(q) \/ Renewal(q)

\* What the call says, with the users in us and the codes in cs.
Said(q, us, cs) ==
  /\ q.u \in Users
  /\ q.op \in {"register", "create_user", "reset_confirm", "change_password", "login"}
       => q.pw \in Passwords
  /\ q.op \in {"create_user", "set_role"} => q.arg \in Roles
  /\ q.op = "set_status" => q.arg \in {"active", "disabled"}
  /\ q.pc = "status" => /\ q.arg \in {"active", "disabled"}
                        /\ q.op \in {"disable", "login"} => q.arg = "disabled"
                        /\ q.op = "enable" => q.arg = "active"
  /\ q.op \in {"verify_email", "reset_confirm"} =>
       q.arg = 0 \/ (q.arg \in DOMAIN cs /\ cs[q.arg].mailed)
  /\ q.pc \in {"cache", "read", "insert"} =>
       /\ q.ticket \in Ticket /\ us[q.ticket.user] # None
       /\ q.op \in Personal => q.ticket.user = q.u

\* What it has read; fresh means that the row is still the one in the table.
Read(q, us) ==
  /\ q.fresh \in BOOLEAN
  /\ q.pc \in Known => us[q.u] # None
  /\ Holds(q) => /\ q.row \in Row /\ (q.fresh => us[q.row.id] = q.row)
                 /\ q.row.id = IF q.pc = "insert" THEN q.ticket.user ELSE q.u
  /\ q.pc = "success" \/ Renewal(q) => q.row.password = q.pw
  /\ Status(q) => q.row.status = "pending"

\* A code that was mailed to u and spent verifies his address.
Proof(u, cs) == \E n \in DOMAIN cs : /\ cs[n].user = u /\ cs[n].purpose = "verify_email"
                                     /\ cs[n].mailed /\ cs[n].accepted > 0

Spends(q, us, cs) ==
  /\ q.pc \in {"mail", "miss", "spend"} => q.code \in DOMAIN cs
  /\ q.pc = "spend" => /\ q.arg = q.code /\ cs[q.code].user = q.u
                       /\ cs[q.code].purpose = Purpose(q.op)
  /\ q.pc = "verify" => IF q.op = "create_user" THEN us[q.u].by = "admin" ELSE Proof(q.u, cs)

Fields == {"op", "pc", "u", "ticket", "pw", "arg", "row", "code", "fresh"}

AtHand(q, us, cs) ==
  /\ DOMAIN q = Fields
  /\ q.pc # "idle" => q.op \in Ops(q.pc) /\ Said(q, us, cs)
  /\ Read(q, us) /\ Spends(q, us, cs)

HandlersOK == DOMAIN handlers = Handlers /\ \A h \in Handlers : AtHand(handlers[h], users, codes)

\* Rows stand under their ids; nobody is verified and pending, and who
\* registered himself is verified by a code.
UsersOK ==
  /\ users \in [Users -> Row \cup {None}]
  /\ \A u \in Users : users[u] # None =>
       /\ users[u].id = u
       /\ users[u].verified => users[u].status # "pending" /\ (users[u].by = "self" => Proof(u, codes))

Missers(n)  == {h \in Handlers : At(h, "miss") /\ handlers[h].code = n}
Spenders(n) == {h \in Handlers : At(h, "spend") /\ handlers[h].code = n}

\* A code has room for the attempts of those who are about to write one, and
\* one that nobody raced for has one spender before it is spent and none after.
CodeOK(n) ==
  /\ codes[n].attempts + Cardinality(Missers(n)) < MaxAttempts + Cardinality(Handlers)
  /\ codes[n].accepted > 0 => codes[n].consumed
  /\ ~codes[n].raced => /\ codes[n].accepted <= 1
                        /\ codes[n].accepted > 0 => Spenders(n) = {}
                        /\ \A h, k \in Spenders(n) : h = k

Live(n, u, p) == codes[n].user = u /\ codes[n].purpose = p /\ ~codes[n].consumed

CodesOK ==
  /\ codes \in Seq(Code)
  /\ \A n \in DOMAIN codes : CodeOK(n)
  /\ \A u \in Users : \A p \in Purposes : \A m, n \in DOMAIN codes :
       Live(m, u, p) /\ Live(n, u, p) => m = n

TicketsOK ==
  /\ tickets \subseteq Ticket
  /\ \A t \in tickets : users[t.user] # None /\ t.iat <= now
  /\ TicketsFollowPassword

Entry == [value : Cached, at : Int, excused : BOOLEAN]
CacheOK ==
  /\ cache \in [Users -> Entry \cup {None}]
  /\ \A u \in Users : cache[u] # None => users[u] # None
  /\ CacheTellsTheTruth

\* A lock lies ahead only of a guard at its limit; one that is not yet there
\* has room for the failures of those who are past its check.
Past(u) == {h \in Handlers : /\ handlers[h].pc \in {"find", "failure", "success"}
                             /\ handlers[h].op = "login" /\ handlers[h].u = u}
GuardOK(g) == g = None \/ (g \in Guard /\ (g.until > now => g.count >= MaxFailures))
GuardsOK ==
  /\ DOMAIN loginGuard = Users
  /\ GuardOK(adminGuard) /\ \A u \in Users : GuardOK(loginGuard[u])
  /\ \A u \in Users : loginGuard[u] # None =>
       loginGuard[u].count + Cardinality(Past(u)) < MaxFailures + Cardinality(Handlers)

\* Who is about to take the role of an administrator.
Demoting == {h \in Handlers : At(h, "role") /\ handlers[h].arg = "user"}
AdminsOK ==
  demotions \/ /\ Administrators # {}
               /\ \A h, k \in Demoting : h = k
               /\ Demoting # {} => \E u, v \in Administrators : u # v

BasicsOK == scene \in Scenes /\ now \in Nat /\ started \in Nat /\ demotions \in BOOLEAN

AccountsInv ==
  /\ BasicsOK /\ HandlersOK /\ UsersOK /\ CodesOK /\ TicketsOK /\ CacheOK /\ GuardsOK /\ AdminsOK

-----------------------------------------------------------------------------
(***************************************************************************)
(* What a step leaves alone                                                *)
(***************************************************************************)
\* Rows stay and keep who made them; codes stay what they are for, mailed and
\* spent.
RowsStay(us, vs) == \A u \in Users : us[u] # None => vs[u] # None /\ vs[u].by = us[u].by
CodesStay(cs, ds) ==
  \A n \in DOMAIN cs : /\ n \in DOMAIN ds
                       /\ ds[n].user = cs[n].user /\ ds[n].purpose = cs[n].purpose
                       /\ cs[n].mailed => ds[n].mailed
                       /\ cs[n].accepted > 0 => ds[n].accepted > 0

LEMMA ProofStays ==
  ASSUME NEW cs, NEW ds, CodesStay(cs, ds), NEW u, Proof(u, cs)
  PROVE  Proof(u, ds)
BY Zenon DEF CodesStay, Proof

LEMMA HandKeeps ==
  ASSUME NEW q, NEW us, NEW vs, NEW cs, NEW ds, AtHand(q, us, cs),
         RowsStay(us, vs), CodesStay(cs, ds), us \in [Users -> Row \cup {None}],
         (Holds(q) /\ q.fresh) => vs[q.row.id] = us[q.row.id]
  PROVE  AtHand(q, vs, ds)
<1>1. DOMAIN q = Fields /\ Read(q, us) /\ Spends(q, us, cs)
  BY DEF AtHand
<1>2. ASSUME q.pc # "idle"
      PROVE  q.op \in Ops(q.pc) /\ Said(q, vs, ds)
  <2>1. q.op \in Ops(q.pc) /\ Said(q, us, cs)
    BY <1>2 DEF AtHand
  <2>2. q.op \in {"verify_email", "reset_confirm"} =>
          q.arg = 0 \/ (q.arg \in DOMAIN ds /\ ds[q.arg].mailed)
    BY <2>1, Zenon DEF Said, CodesStay
  <2>3. q.pc \in {"cache", "read", "insert"} => vs[q.ticket.user] # None
    BY <2>1 DEF Said, RowsStay, Ticket
  <2> QED BY <2>1, <2>2, <2>3 DEF Said
<1>3. Known \cap {"idle"} = {}
  BY DEF Known
<1>4. q.pc \in Known => q.u \in Users /\ us[q.u] # None /\ vs[q.u] # None /\ vs[q.u].by = us[q.u].by
  BY <1>1, <1>2, <1>3 DEF Read, Said, RowsStay
<1>5. Read(q, vs)
  BY <1>1, <1>4 DEF Read
<1>6. q.pc = "verify" => q.pc \in Known
  BY DEF Known
<1>7. Spends(q, vs, ds)
  BY <1>1, <1>4, <1>6, ProofStays DEF Spends, CodesStay
<1> QED BY <1>1, <1>2, <1>5, <1>7 DEF AtHand

\* A handler whose copy was overtaken still has everything else.
LEMMA HandOvertaken ==
  ASSUME NEW q, NEW us, NEW cs, AtHand(q, us, cs), NEW b \in BOOLEAN, b => q.fresh
  PROVE  AtHand([q EXCEPT !.fresh = b], us, cs)
<1> DEFINE p == [q EXCEPT !.fresh = b]
<1>1. DOMAIN q = Fields
  BY DEF AtHand
<1>2. /\ DOMAIN p = Fields /\ p.fresh = b
      /\ p.op = q.op /\ p.pc = q.pc /\ p.u = q.u /\ p.ticket = q.ticket /\ p.pw = q.pw
      /\ p.arg = q.arg /\ p.row = q.row /\ p.code = q.code
  BY <1>1 DEF Fields
<1> HIDE DEF p
<1>3. (Holds(p) <=> Holds(q)) /\ (Status(p) <=> Status(q)) /\ (Renewal(p) <=> Renewal(q))
  BY <1>2 DEF Holds, Status, Renewal
<1>4. p.pc # "idle" => p.op \in Ops(p.pc) /\ Said(p, us, cs)
  BY <1>2 DEF AtHand, Said
<1>5. Read(p, us)
  BY <1>2, <1>3 DEF AtHand, Read
<1>6. Spends(p, us, cs)
  BY <1>2 DEF AtHand, Spends
<1>7. AtHand(p, us, cs)
  BY <1>2, <1>4, <1>5, <1>6 DEF AtHand
<1> QED BY <1>7 DEF p

LEMMA IdleHand ==
  ASSUME NEW us, NEW cs
  PROVE  AtHand(Idle, us, cs) /\ Idle.pc = "idle"
BY DEF AtHand, Idle, Fields, Read, Spends, Known, Holds, Status, Renewal

LEMMA HandlersKeep ==
  ASSUME HandlersOK, UsersOK, NEW h \in Handlers, NEW r, AtHand(r, users, codes'),
         handlers' = [handlers EXCEPT ![h] = r], users' = users, CodesStay(codes, codes')
  PROVE  HandlersOK'
<1>1. RowsStay(users, users')
  BY DEF RowsStay
<1>2. ASSUME NEW k \in Handlers
      PROVE  AtHand(handlers'[k], users', codes')
  <2>1. CASE k = h
    BY <2>1 DEF HandlersOK
  <2>2. CASE k # h
    <3>1. AtHand(handlers[k], users, codes) /\ handlers'[k] = handlers[k]
      BY <2>2 DEF HandlersOK
    <3>2. users \in [Users -> Row \cup {None}]
      BY DEF UsersOK
    <3> QED BY <3>1, <3>2, <1>1, HandKeeps
  <2> QED BY <2>1, <2>2
<1> QED BY <1>2 DEF HandlersOK

LEMMA Crowd ==
  ASSUME NEW S \in SUBSET Handlers
  PROVE  /\ IsFiniteSet(S) /\ Cardinality(S) \in Nat /\ Cardinality(Handlers) \in Nat
         /\ Cardinality(S) <= Cardinality(Handlers)
         /\ \A T \in SUBSET S : Cardinality(T) \in Nat /\ Cardinality(T) <= Cardinality(S)
BY AccountsAssumption, FS_Subset, FS_CardinalityType

LEMMA Numbers ==
  /\ MaxAttempts \in Nat /\ MaxAttempts > 0 /\ MaxFailures \in Nat /\ MaxFailures > 0
  /\ LockTime \in Nat /\ LockTime > 0 /\ TicketTtl \in Nat
BY AccountsAssumption

LEMMA Coded ==
  ASSUME NEW cs \in Seq(Code), NEW n \in DOMAIN cs
  PROVE  /\ cs[n] \in Code /\ n \in Nat /\ n > 0
         /\ cs[n].attempts \in Nat /\ cs[n].accepted \in Nat /\ cs[n].consumed \in BOOLEAN
         /\ cs[n].mailed \in BOOLEAN /\ cs[n].raced \in BOOLEAN
         /\ cs[n].user \in Users /\ cs[n].purpose \in Purposes
<1>1. DOMAIN cs = 1..Len(cs) /\ Len(cs) \in Nat
  OBVIOUS
<1>2. cs[n] \in Code
  BY <1>1
<1> QED BY <1>1, <1>2 DEF Code

\* A smaller crowd at the codes, and at the guards, and nobody more about to
\* take a role.
LEMMA CodesRest ==
  ASSUME CodesOK, codes' = codes,
         \A k \in Handlers : handlers'[k].pc \in {"miss", "spend"} =>
           handlers'[k].pc = handlers[k].pc /\ handlers'[k].code = handlers[k].code
  PROVE  CodesOK'
<1>1. ASSUME NEW n \in DOMAIN codes
      PROVE  CodeOK(n)'
  <2>1. Missers(n)' \subseteq Missers(n) /\ Spenders(n)' \subseteq Spenders(n)
    BY DEF Missers, Spenders, At
  <2>2. Missers(n) \in SUBSET Handlers
    BY DEF Missers
  <2>3. /\ Cardinality(Missers(n)) \in Nat /\ Cardinality(Missers(n)') \in Nat
        /\ Cardinality(Missers(n)') <= Cardinality(Missers(n)) /\ Cardinality(Handlers) \in Nat
    BY <2>1, <2>2, Crowd
  <2>4. CodeOK(n) /\ codes[n].attempts \in Nat
    BY Coded DEF CodesOK
  <2>5. codes[n].attempts + Cardinality(Missers(n)') < MaxAttempts + Cardinality(Handlers)
    BY <2>3, <2>4, Numbers DEF CodeOK
  <2> QED BY <2>1, <2>4, <2>5 DEF CodeOK
<1> QED BY <1>1 DEF CodesOK, Live

LEMMA GuardsRest ==
  ASSUME GuardsOK, UNCHANGED loginGuard, GuardOK(adminGuard)',
         now \in Nat, now' \in Nat, now <= now',
         \A k \in Handlers :
           handlers'[k].pc \in {"find", "failure", "success"} /\ handlers'[k].op = "login" =>
             /\ handlers[k].pc \in {"find", "failure", "success"} /\ handlers[k].op = "login"
             /\ handlers[k].u = handlers'[k].u
  PROVE  GuardsOK'
<1>1. ASSUME NEW u \in Users, loginGuard[u] # None
      PROVE  loginGuard[u].count + Cardinality(Past(u)') < MaxFailures + Cardinality(Handlers)
  <2>1. Past(u)' \subseteq Past(u) /\ Past(u) \in SUBSET Handlers
    BY DEF Past
  <2>2. /\ Cardinality(Past(u)) \in Nat /\ Cardinality(Past(u)') \in Nat
        /\ Cardinality(Past(u)') <= Cardinality(Past(u)) /\ Cardinality(Handlers) \in Nat
    BY <2>1, Crowd
  <2>3. /\ loginGuard[u].count + Cardinality(Past(u)) < MaxFailures + Cardinality(Handlers)
        /\ loginGuard[u].count \in Nat
    BY <1>1 DEF GuardsOK, GuardOK, Guard
  <2> QED BY <2>2, <2>3, Numbers
<1>2. ASSUME NEW g, GuardOK(g)
      PROVE  g = None \/ (g \in Guard /\ (g.until > now' => g.count >= MaxFailures))
  BY <1>2 DEF GuardOK, Guard
<1>3. \A u \in Users : GuardOK(loginGuard[u])'
  BY <1>2 DEF GuardsOK, GuardOK
<1> QED BY <1>1, <1>3 DEF GuardsOK

LEMMA AdminsRest ==
  ASSUME AdminsOK, users' = users, demotions' = demotions,
         \A k \in Handlers : handlers'[k].pc = "role" /\ handlers'[k].arg = "user" =>
           handlers[k].pc = "role" /\ handlers[k].arg = "user"
  PROVE  AdminsOK'
<1>1. Demoting' \subseteq Demoting /\ Administrators' = Administrators
  BY DEF Demoting, Administrators, At
<1> QED BY <1>1 DEF AdminsOK

LEMMA TicketsRest ==
  ASSUME TicketsOK, tickets' \subseteq tickets, users' = users,
         now \in Nat, now' \in Nat, now <= now'
  PROVE  TicketsOK'
<1>1. ASSUME NEW t \in tickets'
      PROVE  /\ users[t.user] # None /\ t.iat <= now'
             /\ InForce(t)' => t.pw \in {None, users[t.user].password} \/ t.overlap
  <2>1. t \in Ticket /\ users[t.user] # None /\ t.iat <= now /\ t.iat \in Int
    BY DEF TicketsOK, Ticket
  <2>2. Expired(t) => Expired(t)'
    BY <2>1, Numbers DEF Expired
  <2>3. InForce(t)' => InForce(t)
    BY <2>2 DEF InForce, RevokedAt
  <2> QED BY <2>1, <2>3 DEF TicketsOK, TicketsFollowPassword
<1> QED BY <1>1 DEF TicketsOK, TicketsFollowPassword

LEMMA CacheRests ==
  ASSUME CacheOK, users' = users,
         \A u \in Users : cache'[u] = None \/ cache'[u] = cache[u],
         cache' \in [Users -> Entry \cup {None}],
         \A k \in Handlers : handlers[k].pc \in {"invalidate", "revoke"} =>
           handlers'[k].u = handlers[k].u /\ handlers'[k].pc \in {"invalidate", "revoke"}
  PROVE  CacheOK'
<1>1. \A u \in Users : Invalidating(u) => Invalidating(u)'
  BY DEF Invalidating
<1>2. CacheTellsTheTruth'
  BY <1>1 DEF CacheOK, CacheTellsTheTruth, CachedUser
<1> QED BY <1>2 DEF CacheOK

LEMMA UsersRest ==
  ASSUME UsersOK, users' = users, CodesStay(codes, codes')
  PROVE  UsersOK'
BY ProofStays DEF UsersOK

LEMMA SameCodes == CodesStay(codes, codes)
BY DEF CodesStay

-----------------------------------------------------------------------------
(***************************************************************************)
(* Handlers that read and move on                                          *)
(***************************************************************************)
LEMMA LocalStep ==
  ASSUME AccountsInv, NEW h \in Handlers, NEW r, handlers' = [handlers EXCEPT ![h] = r],
         UNCHANGED <<scene, now, users, codes, demotions>>,
         started' \in Nat, AtHand(r, users, codes),
         r.pc \notin {"miss", "spend"}, r.pc = "role" => r.arg # "user",
         TicketsOK', CacheOK', GuardsOK'
  PROVE  AccountsInv'
<1>1. BasicsOK /\ HandlersOK /\ UsersOK /\ CodesOK /\ AdminsOK
  BY DEF AccountsInv
<1>2. BasicsOK'
  BY <1>1 DEF BasicsOK
<1>3. \A k \in Handlers : handlers'[k] = IF k = h THEN r ELSE handlers[k]
  BY <1>1 DEF HandlersOK
<1>4. HandlersOK' /\ UsersOK'
  BY <1>1, SameCodes, HandlersKeep, UsersRest
<1>5. CodesOK'
  BY <1>1, <1>3, CodesRest
<1>6. AdminsOK'
  BY <1>1, <1>3, AdminsRest
<1> QED BY <1>2, <1>4, <1>5, <1>6 DEF AccountsInv

\* What is left alone when only the handler h changes, to r.
LEMMA AloneRests ==
  ASSUME AccountsInv, NEW h \in Handlers, NEW r, handlers' = [handlers EXCEPT ![h] = r],
         UNCHANGED <<now, users>>
  PROVE  /\ UNCHANGED tickets => TicketsOK'
         /\ UNCHANGED cache /\ handlers[h].pc \notin {"invalidate", "revoke"} => CacheOK'
         /\ /\ UNCHANGED loginGuard /\ GuardOK(adminGuard)'
            /\ r.pc \in {"find", "failure", "success"} /\ r.op = "login" =>
                 /\ handlers[h].pc \in {"find", "failure", "success"} /\ handlers[h].op = "login"
                 /\ handlers[h].u = r.u
            => GuardsOK'
<1>1. HandlersOK /\ TicketsOK /\ CacheOK /\ GuardsOK /\ now \in Nat /\ now <= now
  BY DEF AccountsInv, BasicsOK
<1>2. \A k \in Handlers : handlers'[k] = IF k = h THEN r ELSE handlers[k]
  BY <1>1 DEF HandlersOK
<1>3. ASSUME UNCHANGED tickets
      PROVE  TicketsOK'
  BY <1>1, <1>3, TicketsRest
<1>4. ASSUME UNCHANGED cache, handlers[h].pc \notin {"invalidate", "revoke"}
      PROVE  CacheOK'
  <2>1. cache' \in [Users -> Entry \cup {None}]
    BY <1>1, <1>4 DEF CacheOK
  <2> QED BY <2>1, <1>1, <1>2, <1>4, CacheRests
<1>5. ASSUME UNCHANGED loginGuard, GuardOK(adminGuard)',
             r.pc \in {"find", "failure", "success"} /\ r.op = "login" =>
               /\ handlers[h].pc \in {"find", "failure", "success"} /\ handlers[h].op = "login"
               /\ handlers[h].u = r.u
      PROVE  GuardsOK'
  BY <1>1, <1>2, <1>5, GuardsRest
<1> QED BY <1>3, <1>4, <1>5

LEMMA QuietStep ==
  ASSUME AccountsInv, NEW h \in Handlers, NEW r, handlers' = [handlers EXCEPT ![h] = r],
         UNCHANGED <<scene, now, users, codes, tickets, cache, loginGuard, adminGuard, demotions>>,
         started' \in Nat, AtHand(r, users, codes),
         r.pc \notin {"miss", "spend"}, r.pc = "role" => r.arg # "user",
         handlers[h].pc \notin {"invalidate", "revoke"},
         r.pc \in {"find", "failure", "success"} /\ r.op = "login" =>
           /\ handlers[h].pc \in {"find", "failure", "success"} /\ handlers[h].op = "login"
           /\ handlers[h].u = r.u
  PROVE  AccountsInv'
<1>1. GuardOK(adminGuard)'
  BY DEF AccountsInv, GuardsOK, GuardOK
<1>2. TicketsOK' /\ CacheOK' /\ GuardsOK'
  BY <1>1, AloneRests
<1> QED BY <1>2, LocalStep

\* The record of a handler at a place.
LEMMA Placed ==
  ASSUME NEW q, DOMAIN q = Fields, NEW pc
  PROVE  LET r == [q EXCEPT !.pc = pc]
         IN  /\ DOMAIN r = Fields /\ r.pc = pc /\ r.op = q.op /\ r.u = q.u /\ r.ticket = q.ticket
             /\ r.pw = q.pw /\ r.arg = q.arg /\ r.row = q.row /\ r.code = q.code
             /\ r.fresh = q.fresh
BY DEF Fields

\* A handler that moves on to a place where it needs nothing new.
LEMMA MovesOn ==
  ASSUME NEW q, NEW us, NEW cs, AtHand(q, us, cs), q.pc # "idle",
         NEW pc, pc # "idle", q.op \in Ops(pc), pc \in Known => us[q.u] # None,
         pc \notin {"cache", "insert", "success", "status", "invalidate",
                    "mail", "miss", "spend", "verify"},
         pc = "read" => q.pc = "cache"
  PROVE  AtHand([q EXCEPT !.pc = pc], us, cs)
<1> DEFINE r == [q EXCEPT !.pc = pc]
<1>1. DOMAIN q = Fields
  BY DEF AtHand
<1>2. /\ DOMAIN r = Fields /\ r.pc = pc /\ r.op = q.op /\ r.u = q.u /\ r.ticket = q.ticket
      /\ r.pw = q.pw /\ r.arg = q.arg /\ r.row = q.row /\ r.code = q.code
      /\ r.fresh = q.fresh
  BY <1>1, Placed
<1> HIDE DEF r
<1>3. ~Holds(r) /\ ~Status(r) /\ ~Renewal(r)
  BY <1>2 DEF Holds, Status, Renewal
<1>4. r.op \in Ops(r.pc) /\ Said(r, us, cs)
  BY <1>2 DEF AtHand, Said
<1>5. Read(r, us)
  BY <1>2, <1>3 DEF AtHand, Read
<1>6. Spends(r, us, cs)
  BY <1>2 DEF Spends
<1>7. AtHand(r, us, cs)
  BY <1>2, <1>4, <1>5, <1>6 DEF AtHand
<1> QED BY <1>7 DEF r

LEMMA Hands ==
  ASSUME AccountsInv, NEW h \in Handlers
  PROVE  /\ AtHand(handlers[h], users, codes) /\ DOMAIN handlers[h] = Fields
         /\ now \in Nat /\ started \in Nat
BY DEF AccountsInv, HandlersOK, AtHand, BasicsOK

LEMMA AnswersKeeps ==
  ASSUME AccountsInv, NEW h \in Handlers, Answers(h),
         UNCHANGED <<scene, now, users, codes, tickets, cache, loginGuard, adminGuard, demotions,
                     started>>,
         handlers[h].pc \notin {"invalidate", "revoke"}
  PROVE  AccountsInv'
<1>1. handlers' = [handlers EXCEPT ![h] = Idle] /\ started' \in Nat
  BY Hands DEF Answers, Becomes
<1>2. AtHand(Idle, users, codes) /\ Idle.pc = "idle"
  BY IdleHand
<1> QED BY <1>1, <1>2, QuietStep

LEMMA GoesKeeps ==
  ASSUME AccountsInv, NEW h \in Handlers, NEW pc, Goes(h, pc),
         UNCHANGED <<scene, now, users, codes, tickets, cache, loginGuard, adminGuard, demotions,
                     started>>,
         handlers[h].pc \notin {"idle", "invalidate", "revoke"},
         pc \in {"attempt", "create", "issue", "latest", "code", "token", "ticket", "load",
                 "count", "read", "failure"},
         handlers[h].op \in Ops(pc), pc \in Known => users[handlers[h].u] # None,
         pc = "read" => handlers[h].pc = "cache",
         pc = "failure" => handlers[h].pc = "find"
  PROVE  AccountsInv'
<1> DEFINE q == handlers[h]
           r == [q EXCEPT !.pc = pc]
<1>1. AtHand(q, users, codes) /\ DOMAIN q = Fields /\ started' \in Nat
  BY Hands
<1>2. handlers' = [handlers EXCEPT ![h] = r]
  BY DEF Goes, Becomes
<1>3. r.pc = pc /\ r.op = q.op /\ r.u = q.u
  BY <1>1, Placed
<1>4. AtHand(r, users, codes)
  <2> HIDE DEF q
  <2>1. AtHand(q, users, codes) /\ q.pc # "idle" /\ q.op \in Ops(pc)
        /\ (pc \in Known => users[q.u] # None) /\ (pc = "read" => q.pc = "cache")
    BY <1>1 DEF q
  <2> QED BY <2>1, MovesOn
<1>5. pc = "failure" => handlers[h].op = "login"
  BY DEF Ops
<1> HIDE DEF r
<1> QED BY <1>1, <1>2, <1>3, <1>4, <1>5, QuietStep

LEMMA CheckRegisterKeeps ==
  ASSUME AccountsInv, NEW h \in Handlers, CheckRegister(h)
  PROVE  AccountsInv'
<1>1. /\ handlers[h].pc = "limit" /\ (Answers(h) \/ Goes(h, "attempt"))
      /\ UNCHANGED <<scene, now, users, codes, tickets, cache, loginGuard, adminGuard, demotions,
                     started>>
  BY DEF CheckRegister, At, tables
<1>2. handlers[h].op \in Ops("attempt")
  BY <1>1, Hands DEF AtHand, Ops
<1>3. "attempt" \notin Known
  BY DEF Known
<1>4. CASE Answers(h)
  BY <1>1, <1>4, AnswersKeeps
<1>5. CASE Goes(h, "attempt")
  BY <1>1, <1>2, <1>3, <1>5, GoesKeeps
<1> QED BY <1>1, <1>4, <1>5

LEMMA RecordAttemptKeeps ==
  ASSUME AccountsInv, NEW h \in Handlers, RecordAttempt(h)
  PROVE  AccountsInv'
<1>1. /\ handlers[h].pc = "attempt" /\ (Answers(h) \/ Goes(h, "create"))
      /\ UNCHANGED <<scene, now, users, codes, tickets, cache, loginGuard, adminGuard, demotions,
                     started>>
  BY DEF RecordAttempt, At, tables
<1>2. handlers[h].op \in Ops("create")
  BY <1>1, Hands DEF AtHand, Ops
<1>3. "create" \notin Known
  BY DEF Known
<1>4. CASE Answers(h)
  BY <1>1, <1>4, AnswersKeeps
<1>5. CASE Goes(h, "create")
  BY <1>1, <1>2, <1>3, <1>5, GoesKeeps
<1> QED BY <1>1, <1>4, <1>5

LEMMA RecordSuccessKeeps ==
  ASSUME AccountsInv, NEW h \in Handlers, RecordSuccess(h)
  PROVE  AccountsInv'
<1>1. /\ handlers[h].pc = "created" /\ Goes(h, "issue")
      /\ UNCHANGED <<scene, now, users, codes, tickets, cache, loginGuard, adminGuard, demotions,
                     started>>
  BY DEF RecordSuccess, At, tables
<1>2. handlers[h].op \in Ops("issue")
  BY <1>1, Hands DEF AtHand, Ops
<1>3. users[handlers[h].u] # None
  BY <1>1, Hands DEF AtHand, Read, Known
<1> QED BY <1>1, <1>2, <1>3, GoesKeeps

LEMMA FindKeeps ==
  ASSUME AccountsInv, NEW h \in Handlers, Find(h)
  PROVE  AccountsInv'
<1> DEFINE op == handlers[h].op
<1>1. /\ handlers[h].pc = "find" /\ op # "login"
      /\ UNCHANGED <<scene, now, users, codes, tickets, cache, loginGuard, adminGuard, demotions,
                     started>>
  BY DEF Find, At, tables, guards
<1>2. op \in {"resend", "reset_request", "verify_email", "reset_confirm"}
  BY <1>1, Hands DEF AtHand, Ops
<1>3. Answers(h) \/ (/\ users[handlers[h].u] # None
                     /\ Goes(h, CASE op = "resend" -> "latest"
                                  [] op = "reset_request" -> "issue"
                                  [] OTHER -> "code"))
  BY DEF Find
<1>4. CASE Answers(h)
  BY <1>1, <1>4, AnswersKeeps
<1>5. CASE users[handlers[h].u] # None /\ Goes(h, "latest") /\ op = "resend"
  <2>1. op \in Ops("latest")
    BY <1>5 DEF Ops
  <2> QED BY <1>1, <1>5, <2>1, GoesKeeps
<1>6. CASE users[handlers[h].u] # None /\ Goes(h, "issue") /\ op = "reset_request"
  <2>1. op \in Ops("issue")
    BY <1>6 DEF Ops
  <2> QED BY <1>1, <1>6, <2>1, GoesKeeps
<1>7. CASE users[handlers[h].u] # None /\ Goes(h, "code") /\ op \in {"verify_email", "reset_confirm"}
  <2>1. op \in Ops("code")
    BY <1>7 DEF Ops
  <2> QED BY <1>1, <1>7, <2>1, GoesKeeps
<1> HIDE DEF op
<1> QED BY <1>2, <1>3, <1>4, <1>5, <1>6, <1>7

LEMMA LatestKeeps ==
  ASSUME AccountsInv, NEW h \in Handlers, Latest(h)
  PROVE  AccountsInv'
<1>1. /\ handlers[h].pc = "latest" /\ (Answers(h) \/ Goes(h, "issue"))
      /\ UNCHANGED <<scene, now, users, codes, tickets, cache, loginGuard, adminGuard, demotions,
                     started>>
  BY DEF Latest, At, tables, guards
<1>2. handlers[h].op \in Ops("issue")
  BY <1>1, Hands DEF AtHand, Ops
<1>3. users[handlers[h].u] # None
  BY <1>1, Hands DEF AtHand, Read, Known
<1>4. CASE Answers(h)
  BY <1>1, <1>4, AnswersKeeps
<1>5. CASE Goes(h, "issue")
  BY <1>1, <1>2, <1>3, <1>5, GoesKeeps
<1> QED BY <1>1, <1>4, <1>5

\* The row that is read is in hand, and fresh.
LEMMA LoginFindKeeps ==
  ASSUME AccountsInv, NEW h \in Handlers, LoginFind(h)
  PROVE  AccountsInv'
<1> DEFINE q == handlers[h]
           row == users[q.u]
           r == [q EXCEPT !.pc = "success", !.row = row, !.fresh = TRUE]
<1>1. /\ q.pc = "find" /\ q.op = "login"
      /\ UNCHANGED <<scene, now, users, codes, tickets, cache, loginGuard, adminGuard, demotions,
                     started>>
  BY DEF LoginFind, At, tables, guards
<1>2. AtHand(q, users, codes) /\ DOMAIN q = Fields /\ started' \in Nat
  BY <1>1, Hands
<1>3. \/ Goes(h, "failure")
      \/ Answers(h)
      \/ row # None /\ row.password = q.pw /\ handlers' = [handlers EXCEPT ![h] = r]
  BY DEF LoginFind, Becomes
<1>4. CASE Goes(h, "failure")
  <2>1. "failure" \notin Known /\ q.op \in Ops("failure")
    BY <1>1 DEF Known, Ops
  <2> QED BY <1>1, <1>4, <2>1, GoesKeeps
<1>5. CASE Answers(h)
  BY <1>1, <1>5, AnswersKeeps
<1>6. CASE row # None /\ row.password = q.pw /\ handlers' = [handlers EXCEPT ![h] = r]
  <2>1. /\ DOMAIN r = Fields /\ r.pc = "success" /\ r.row = row /\ r.fresh = TRUE
        /\ r.op = "login" /\ r.u = q.u /\ r.pw = q.pw
    BY <1>1, <1>2 DEF Fields
  <2>2. q.u \in Users /\ q.pw \in Passwords
    BY <1>1, <1>2 DEF AtHand, Said
  <2>3. row \in Row /\ row.id = q.u
    BY <2>2, <1>6 DEF AccountsInv, UsersOK
  <2> HIDE DEF r
  <2>4. r.op \in Ops(r.pc) /\ Said(r, users, codes)
    BY <2>1, <2>2 DEF Ops, Said
  <2>5. Read(r, users)
    BY <2>1, <2>3, <1>6 DEF Read, Status, Renewal
  <2>6. AtHand(r, users, codes)
    BY <2>1, <2>4, <2>5 DEF AtHand, Spends
  <2> QED BY <1>1, <1>2, <1>6, <2>1, <2>6, QuietStep
<1> QED BY <1>3, <1>4, <1>5, <1>6

LEMMA ReadUserKeeps ==
  ASSUME AccountsInv, NEW h \in Handlers, ReadUser(h)
  PROVE  AccountsInv'
<1> DEFINE q == handlers[h]
           row == users[q.ticket.user]
           r == [q EXCEPT !.pc = "insert", !.row = row, !.fresh = TRUE]
<1>1. /\ q.pc = "read" /\ handlers' = [handlers EXCEPT ![h] = r]
      /\ UNCHANGED <<scene, now, users, codes, tickets, cache, loginGuard, adminGuard, demotions,
                     started>>
  BY DEF ReadUser, At, Becomes, tables, guards
<1>2. AtHand(q, users, codes) /\ DOMAIN q = Fields /\ started' \in Nat
  BY <1>1, Hands
<1>3. /\ DOMAIN r = Fields /\ r.pc = "insert" /\ r.row = row /\ r.fresh = TRUE /\ r.arg = q.arg
      /\ r.op = q.op /\ r.u = q.u /\ r.pw = q.pw /\ r.ticket = q.ticket
  BY <1>2 DEF Fields
<1>4. q.op \in Ops("insert") /\ Said(q, users, codes) /\ "insert" \notin Known
  BY <1>1, <1>2 DEF AtHand, Ops, Known
<1>5. q.ticket.user \in Users /\ row # None
  BY <1>1, <1>4 DEF Said, Ticket
<1>6. row \in Row /\ row.id = q.ticket.user
  BY <1>5 DEF AccountsInv, UsersOK
<1>7. r.op \notin {"login"}
  BY <1>3, <1>4 DEF Ops, Personal, Privileged
<1> HIDE DEF r
<1>8. r.op \in Ops(r.pc) /\ Said(r, users, codes)
  BY <1>1, <1>3, <1>4 DEF Said
<1>9. Read(r, users)
  BY <1>3, <1>4, <1>6 DEF Read, Holds, Status, Renewal
<1>10. AtHand(r, users, codes)
  BY <1>3, <1>8, <1>9 DEF AtHand, Spends
<1> QED BY <1>1, <1>2, <1>3, <1>10, QuietStep

\* What load_user found decides; only a demotion has the administrators counted.
LEMMA LoadKeeps ==
  ASSUME AccountsInv, NEW h \in Handlers, Load(h)
  PROVE  AccountsInv'
<1> DEFINE q == handlers[h]
           row == users[q.u]
           demotes == q.op = "set_role" /\ row.role = "admin" /\ q.arg # "admin"
           pc == CASE q.op = "change_password" -> "password"
                   [] demotes -> "count"
                   [] q.op = "set_role" /\ ~demotes -> "role"
                   [] OTHER -> "status"
           arg == CASE q.op = "disable" -> "disabled"
                    [] q.op = "enable" -> "active"
                    [] OTHER -> q.arg
           r == [q EXCEPT !.pc = pc, !.arg = arg]
<1>1. /\ q.pc = "load"
      /\ UNCHANGED <<scene, now, users, codes, tickets, cache, loginGuard, adminGuard, demotions,
                     started>>
  BY DEF Load, At, tables, guards
<1>2. AtHand(q, users, codes) /\ DOMAIN q = Fields /\ started' \in Nat
  BY <1>1, Hands
<1>3. \/ Answers(h)
      \/ /\ row # None /\ ~(q.op = "set_role" /\ row.role = q.arg)
         /\ handlers' = [handlers EXCEPT ![h] = r]
  BY DEF Load, Becomes
<1>4. CASE Answers(h)
  BY <1>1, <1>4, AnswersKeeps
<1>5. CASE /\ row # None /\ ~(q.op = "set_role" /\ row.role = q.arg)
           /\ handlers' = [handlers EXCEPT ![h] = r]
  <2>1. /\ q.op \in {"change_password", "disable", "enable", "set_role", "set_status"}
        /\ Said(q, users, codes) /\ q.fresh \in BOOLEAN
    BY <1>1, <1>2 DEF AtHand, Ops, Read
  <2>2. row.role \in Roles
    BY <1>5, <2>1 DEF AccountsInv, UsersOK, Said, Row
  <2>3. /\ DOMAIN r = Fields /\ r.pc = pc /\ r.arg = arg /\ r.op = q.op /\ r.u = q.u
        /\ r.pw = q.pw /\ r.fresh = q.fresh
    BY <1>2 DEF Fields
  <2>4. /\ pc \in {"password", "count", "role", "status"}
        /\ pc = "password" <=> q.op = "change_password"
        /\ pc \in {"count", "role"} <=> q.op = "set_role"
        /\ q.op \notin {"disable", "enable"} => arg = q.arg
        /\ q.op = "disable" => arg = "disabled"
        /\ q.op = "enable" => arg = "active"
        /\ pc = "role" => ~demotes
    BY <2>1
  <2>5. pc = "role" => q.op = "set_role" /\ arg = "admin"
    <3>1. q.op = "set_role" => q.arg \in Roles
      BY <2>1 DEF Said
    <3> HIDE DEF pc, arg
    <3> QED BY <2>2, <2>4, <3>1, <1>5 DEF Roles
  <2> HIDE DEF r, pc, arg
  <2>6. r.op \in Ops(r.pc)
    BY <2>1, <2>3, <2>4 DEF Ops
  <2>7. Said(r, users, codes)
    BY <2>1, <2>3, <2>4 DEF Said
  <2>8. Read(r, users)
    BY <2>1, <2>3, <2>4, <1>5 DEF Read, Holds, Status, Renewal
  <2>9. AtHand(r, users, codes)
    BY <2>3, <2>4, <2>6, <2>7, <2>8 DEF AtHand, Spends
  <2> QED BY <1>1, <1>2, <1>5, <2>3, <2>4, <2>5, <2>9, QuietStep
<1> QED BY <1>3, <1>4, <1>5

\* A count of two or more names two; a second demotion that counts beside the
\* first is in the history.
LEMMA TwoOfThem ==
  ASSUME NEW S, ~(Cardinality(S) <= 1)
  PROVE  \E u, v \in S : u # v
<1>1. CASE S = {}
  BY <1>1, FS_EmptySet
<1>2. CASE S # {}
  <2>1. PICK u \in S : TRUE
    BY <1>2
  <2>2. S # {u}
    BY FS_Singleton
  <2> QED BY <2>1, <2>2
<1> QED BY <1>1, <1>2

LEMMA CountAdminsKeeps ==
  ASSUME AccountsInv, NEW h \in Handlers, CountAdmins(h)
  PROVE  AccountsInv'
<1> DEFINE q == handlers[h]
           r == [q EXCEPT !.pc = "role"]
           late == \E k \in Handlers \ {h} : At(k, "role") /\ handlers[k].arg = "user"
<1>1. /\ q.pc = "count"
      /\ UNCHANGED <<scene, now, users, codes, tickets, cache, loginGuard, adminGuard, started>>
  BY DEF CountAdmins, At, tables, guards
<1>2. AtHand(q, users, codes) /\ DOMAIN q = Fields /\ started' \in Nat
  BY <1>1, Hands
<1>3. \/ Answers(h) /\ UNCHANGED demotions
      \/ /\ ~(Cardinality(Administrators) <= 1) /\ demotions' = (demotions \/ late)
         /\ handlers' = [handlers EXCEPT ![h] = r]
  BY DEF CountAdmins, Goes, Becomes
<1>4. CASE Answers(h) /\ UNCHANGED demotions
  BY <1>1, <1>4, AnswersKeeps
<1>5. CASE /\ ~(Cardinality(Administrators) <= 1) /\ demotions' = (demotions \/ late)
           /\ handlers' = [handlers EXCEPT ![h] = r]
  <2>1. /\ BasicsOK /\ HandlersOK /\ UsersOK /\ CodesOK /\ TicketsOK /\ CacheOK /\ GuardsOK
        /\ AdminsOK
    BY DEF AccountsInv
  <2>2. now \in Nat /\ now <= now /\ BasicsOK'
    BY <1>1, <1>2, <1>5, <2>1 DEF BasicsOK
  <2>3. r.pc = "role" /\ r.u = q.u /\ r.op = q.op
    BY <1>2 DEF Fields
  <2>4. q.op \in Ops("role") /\ users[q.u] # None
    BY <1>1, <1>2 DEF AtHand, Ops, Read, Known
  <2>5. AtHand(r, users, codes)
    <3> HIDE DEF q
    <3> QED BY <1>1, <1>2, <2>4, MovesOn
  <2> HIDE DEF r
  <2>6. \A k \in Handlers : handlers'[k] = IF k = h THEN r ELSE handlers[k]
    BY <1>5, <2>1 DEF HandlersOK
  <2>7. HandlersOK' /\ UsersOK'
    BY <1>1, <1>5, <2>1, <2>5, SameCodes, HandlersKeep, UsersRest
  <2>8. CodesOK'
    BY <1>1, <2>1, <2>3, <2>6, CodesRest
  <2>9. GuardsOK'
    <3>1. GuardOK(adminGuard)'
      BY <1>1, <2>1 DEF GuardsOK, GuardOK
    <3> QED BY <3>1, <1>1, <2>1, <2>2, <2>3, <2>6, GuardsRest
  <2>10. TicketsOK'
    BY <1>1, <2>1, <2>2, TicketsRest
  <2>11. CacheOK'
    <3>1. cache' \in [Users -> Entry \cup {None}]
      BY <1>1, <2>1 DEF CacheOK
    <3> QED BY <3>1, <1>1, <2>1, <2>6, CacheRests
  <2>12. AdminsOK'
    <3>1. Administrators' = Administrators
      BY <1>1 DEF Administrators
    <3>2. \E u, v \in Administrators : u # v
      BY <1>5, TwoOfThem
    <3>3. ~late => Demoting' \subseteq {h}
      BY <2>6 DEF Demoting, At
    <3> QED BY <1>5, <3>1, <3>2, <3>3 DEF AdminsOK
  <2> QED BY <2>2, <2>7, <2>8, <2>9, <2>10, <2>11, <2>12 DEF AccountsInv
<1> QED BY <1>3, <1>4, <1>5

\* A call that begins holds what it says.
LEMMA ArriveKeeps ==
  ASSUME AccountsInv, NEW h \in Handlers, NEW r, Arrive(h, r), AtHand(r, users, codes),
         r.pc \in {"find", "limit", "locked", "cache", "token"}, r.pc = "find" => r.op # "login"
  PROVE  AccountsInv'
<1>1. /\ handlers[h].pc = "idle" /\ handlers' = [handlers EXCEPT ![h] = r]
      /\ started' = started + 1
      /\ UNCHANGED <<scene, now, users, codes, tickets, cache, loginGuard, adminGuard, demotions>>
  BY DEF Arrive, At, Becomes, tables, guards
<1>2. started' \in Nat
  BY <1>1, Hands
<1> QED BY <1>1, <1>2, QuietStep

LEMMA Opens ==
  ASSUME AccountsInv, NEW h \in Handlers, NEW r, Arrive(h, r),
         DOMAIN r = Fields, r.fresh = TRUE, r.u \in Users,
         r.pc \in {"find", "limit", "locked", "cache", "token"}, r.op \in Ops(r.pc),
         r.pc = "find" => r.op # "login",
         r.op \in {"register", "create_user", "reset_confirm", "change_password", "login"}
           => r.pw \in Passwords,
         r.op \in {"create_user", "set_role"} => r.arg \in Roles,
         r.op = "set_status" => r.arg \in {"active", "disabled"},
         r.op \in {"verify_email", "reset_confirm"} =>
           r.arg = 0 \/ (r.arg \in DOMAIN codes /\ codes[r.arg].mailed),
         r.pc = "cache" => r.ticket \in tickets /\ (r.op \in Personal => r.ticket.user = r.u)
  PROVE  AccountsInv'
<1>1. r.pc = "cache" => r.ticket \in Ticket /\ users[r.ticket.user] # None
  BY DEF AccountsInv, TicketsOK
<1>2. Said(r, users, codes)
  BY <1>1 DEF Said
<1>3. Read(r, users)
  BY Zenon DEF Read, Known, Holds, Status, Renewal
<1>4. AtHand(r, users, codes)
  BY <1>2, <1>3 DEF AtHand, Spends
<1> QED BY <1>4, ArriveKeeps

LEMMA CallKeeps ==
  ASSUME AccountsInv, NEW h \in Handlers, Call(h)
  PROVE  AccountsInv'
<1>1. ASSUME NEW u \in Users, NEW op \in {"resend", "reset_request"},
             Arrive(h, [Idle EXCEPT !.op = op, !.pc = "find", !.u = u])
      PROVE  AccountsInv'
  <2> DEFINE r == [Idle EXCEPT !.op = op, !.pc = "find", !.u = u]
  <2>1. DOMAIN r = Fields /\ r.fresh = TRUE /\ r.u = u /\ r.pc = "find" /\ r.op = op
    BY DEF Idle, Fields
  <2>2. Arrive(h, r)
    BY <1>1
  <2> HIDE DEF r
  <2>3. r.op \in Ops(r.pc)
    BY <2>1 DEF Ops
  <2> QED BY <2>1, <2>2, <2>3, Opens
<1>2. ASSUME NEW u \in Users, NEW pw \in Passwords,
             Arrive(h, [Idle EXCEPT !.op = "register", !.pc = "limit", !.u = u, !.pw = pw])
      PROVE  AccountsInv'
  <2> DEFINE r == [Idle EXCEPT !.op = "register", !.pc = "limit", !.u = u, !.pw = pw]
  <2>1. /\ DOMAIN r = Fields /\ r.fresh = TRUE /\ r.u = u /\ r.pc = "limit" /\ r.op = "register"
        /\ r.pw = pw
    BY DEF Idle, Fields
  <2>2. Arrive(h, r)
    BY <1>2
  <2> HIDE DEF r
  <2>3. r.op \in Ops(r.pc)
    BY <2>1 DEF Ops
  <2> QED BY <2>1, <2>2, <2>3, Opens
<1>3. ASSUME NEW u \in Users, NEW pw \in Passwords,
             Arrive(h, [Idle EXCEPT !.op = "login", !.pc = "locked", !.u = u, !.pw = pw])
      PROVE  AccountsInv'
  <2> DEFINE r == [Idle EXCEPT !.op = "login", !.pc = "locked", !.u = u, !.pw = pw]
  <2>1. /\ DOMAIN r = Fields /\ r.fresh = TRUE /\ r.u = u /\ r.pc = "locked" /\ r.op = "login"
        /\ r.pw = pw
    BY DEF Idle, Fields
  <2>2. Arrive(h, r)
    BY <1>3
  <2> HIDE DEF r
  <2>3. r.op \in Ops(r.pc)
    BY <2>1 DEF Ops
  <2> QED BY <2>1, <2>2, <2>3, Opens
<1>4. ASSUME NEW u \in Users, NEW n \in Typed,
             Arrive(h, [Idle EXCEPT !.op = "verify_email", !.pc = "find", !.u = u, !.arg = n])
      PROVE  AccountsInv'
  <2> DEFINE r == [Idle EXCEPT !.op = "verify_email", !.pc = "find", !.u = u, !.arg = n]
  <2>1. /\ DOMAIN r = Fields /\ r.fresh = TRUE /\ r.u = u /\ r.pc = "find"
        /\ r.op = "verify_email" /\ r.arg = n
    BY DEF Idle, Fields
  <2>2. Arrive(h, r)
    BY <1>4
  <2> HIDE DEF r
  <2>3. r.op \in Ops(r.pc)
    BY <2>1 DEF Ops
  <2>4. n = 0 \/ (n \in DOMAIN codes /\ codes[n].mailed)
    BY DEF Typed
  <2> QED BY <2>1, <2>2, <2>3, <2>4, Opens
<1>5. ASSUME NEW u \in Users, NEW n \in Typed, NEW pw \in Passwords,
             Arrive(h, [Idle EXCEPT !.op = "reset_confirm", !.pc = "find", !.u = u,
                                    !.arg = n, !.pw = pw])
      PROVE  AccountsInv'
  <2> DEFINE r == [Idle EXCEPT !.op = "reset_confirm", !.pc = "find", !.u = u, !.arg = n, !.pw = pw]
  <2>1. /\ DOMAIN r = Fields /\ r.fresh = TRUE /\ r.u = u /\ r.pc = "find"
        /\ r.op = "reset_confirm" /\ r.arg = n /\ r.pw = pw
    BY DEF Idle, Fields
  <2>2. Arrive(h, r)
    BY <1>5
  <2> HIDE DEF r
  <2>3. r.op \in Ops(r.pc)
    BY <2>1 DEF Ops
  <2>4. n = 0 \/ (n \in DOMAIN codes /\ codes[n].mailed)
    BY DEF Typed
  <2> QED BY <2>1, <2>2, <2>3, <2>4, Opens
<1>6. ASSUME NEW right \in BOOLEAN,
             Arrive(h, [Idle EXCEPT !.op = "token_login", !.pc = "locked", !.u = Admin,
                                    !.arg = right])
      PROVE  AccountsInv'
  <2> DEFINE r == [Idle EXCEPT !.op = "token_login", !.pc = "locked", !.u = Admin, !.arg = right]
  <2>1. /\ DOMAIN r = Fields /\ r.fresh = TRUE /\ r.u = Admin /\ r.pc = "locked"
        /\ r.op = "token_login"
    BY DEF Idle, Fields
  <2>2. Arrive(h, r)
    BY <1>6
  <2> HIDE DEF r
  <2>3. r.op \in Ops(r.pc)
    BY <2>1 DEF Ops
  <2> QED BY <2>1, <2>2, <2>3, AccountsAssumption, Opens
<1>7. ASSUME NEW t \in tickets,
             Arrive(h, [Idle EXCEPT !.op = "use", !.pc = "cache", !.u = t.user, !.ticket = t])
      PROVE  AccountsInv'
  <2> DEFINE r == [Idle EXCEPT !.op = "use", !.pc = "cache", !.u = t.user, !.ticket = t]
  <2>1. /\ DOMAIN r = Fields /\ r.fresh = TRUE /\ r.u = t.user /\ r.pc = "cache" /\ r.op = "use"
        /\ r.ticket = t
    BY DEF Idle, Fields
  <2>2. Arrive(h, r)
    BY <1>7
  <2> HIDE DEF r
  <2>3. r.op \in Ops(r.pc)
    BY <2>1 DEF Ops, Personal
  <2>4. t.user \in Users
    BY DEF AccountsInv, TicketsOK, Ticket
  <2> QED BY <2>1, <2>2, <2>3, <2>4, Opens
<1>8. ASSUME NEW t \in tickets, NEW old \in Passwords, NEW pw \in Passwords,
             Arrive(h, [Idle EXCEPT !.op = "change_password", !.pc = "cache", !.u = t.user,
                                    !.ticket = t, !.arg = old, !.pw = pw])
      PROVE  AccountsInv'
  <2> DEFINE r == [Idle EXCEPT !.op = "change_password", !.pc = "cache", !.u = t.user,
                               !.ticket = t, !.arg = old, !.pw = pw]
  <2>1. /\ DOMAIN r = Fields /\ r.fresh = TRUE /\ r.u = t.user /\ r.pc = "cache"
        /\ r.op = "change_password" /\ r.ticket = t /\ r.pw = pw
    BY DEF Idle, Fields
  <2>2. Arrive(h, r)
    BY <1>8
  <2> HIDE DEF r
  <2>3. r.op \in Ops(r.pc)
    BY <2>1 DEF Ops, Personal
  <2>4. t.user \in Users
    BY DEF AccountsInv, TicketsOK, Ticket
  <2> QED BY <2>1, <2>2, <2>3, <2>4, Opens
<1> QED BY <1>1, <1>2, <1>3, <1>4, <1>5, <1>6, <1>7, <1>8, Zenon DEF Call

LEMMA CallOfAdminKeeps ==
  ASSUME AccountsInv, NEW h \in Handlers, CallOfAdmin(h)
  PROVE  AccountsInv'
<1>1. PICK u \in Users, t \in tickets \cup {None} :
        LET admitted == [Idle EXCEPT !.pc = IF t = None THEN "token" ELSE "cache",
                                     !.u = u, !.ticket = t]
        IN  \/ \E op \in {"disable", "enable"} : Arrive(h, [admitted EXCEPT !.op = op])
            \/ \E role \in Roles :
                 \/ Arrive(h, [admitted EXCEPT !.op = "set_role", !.arg = role])
                 \/ \E pw \in Passwords :
                      Arrive(h, [admitted EXCEPT !.op = "create_user", !.arg = role, !.pw = pw])
            \/ \E status \in {"active", "disabled"} :
                 Arrive(h, [admitted EXCEPT !.op = "set_status", !.arg = status])
  BY Zenon DEF CallOfAdmin
<1> DEFINE pc == IF t = None THEN "token" ELSE "cache"
           admitted == [Idle EXCEPT !.pc = pc, !.u = u, !.ticket = t]
<1>2. /\ pc \in {"token", "cache"}
      /\ pc = "cache" => t \in tickets
      /\ \A op \in Privileged : op \in Ops(pc) /\ op \notin Personal
  BY DEF Ops, Privileged, Personal
<1>3. /\ DOMAIN admitted = Fields /\ admitted.fresh = TRUE /\ admitted.u = u
      /\ admitted.pc = pc /\ admitted.ticket = t
  BY DEF Idle, Fields
<1> HIDE DEF pc, admitted
<1>4. ASSUME NEW op \in {"disable", "enable"}, Arrive(h, [admitted EXCEPT !.op = op])
      PROVE  AccountsInv'
  <2> DEFINE r == [admitted EXCEPT !.op = op]
  <2>1. /\ DOMAIN r = Fields /\ r.fresh = TRUE /\ r.u = u /\ r.pc = pc /\ r.ticket = t
        /\ r.op = op
    BY <1>3 DEF Fields
  <2>2. Arrive(h, r) /\ op \in Privileged
    BY <1>4 DEF Privileged
  <2> HIDE DEF r
  <2> QED BY <2>1, <2>2, <1>2, Opens
<1>5. ASSUME NEW role \in Roles, Arrive(h, [admitted EXCEPT !.op = "set_role", !.arg = role])
      PROVE  AccountsInv'
  <2> DEFINE r == [admitted EXCEPT !.op = "set_role", !.arg = role]
  <2>1. /\ DOMAIN r = Fields /\ r.fresh = TRUE /\ r.u = u /\ r.pc = pc /\ r.ticket = t
        /\ r.op = "set_role" /\ r.arg = role
    BY <1>3 DEF Fields
  <2>2. Arrive(h, r) /\ "set_role" \in Privileged
    BY <1>5 DEF Privileged
  <2> HIDE DEF r
  <2> QED BY <2>1, <2>2, <1>2, Opens
<1>6. ASSUME NEW role \in Roles, NEW pw \in Passwords,
             Arrive(h, [admitted EXCEPT !.op = "create_user", !.arg = role, !.pw = pw])
      PROVE  AccountsInv'
  <2> DEFINE r == [admitted EXCEPT !.op = "create_user", !.arg = role, !.pw = pw]
  <2>1. /\ DOMAIN r = Fields /\ r.fresh = TRUE /\ r.u = u /\ r.pc = pc /\ r.ticket = t
        /\ r.op = "create_user" /\ r.arg = role /\ r.pw = pw
    BY <1>3 DEF Fields
  <2>2. Arrive(h, r) /\ "create_user" \in Privileged
    BY <1>6 DEF Privileged
  <2> HIDE DEF r
  <2> QED BY <2>1, <2>2, <1>2, Opens
<1>7. ASSUME NEW status \in {"active", "disabled"},
             Arrive(h, [admitted EXCEPT !.op = "set_status", !.arg = status])
      PROVE  AccountsInv'
  <2> DEFINE r == [admitted EXCEPT !.op = "set_status", !.arg = status]
  <2>1. /\ DOMAIN r = Fields /\ r.fresh = TRUE /\ r.u = u /\ r.pc = pc /\ r.ticket = t
        /\ r.op = "set_status" /\ r.arg = status
    BY <1>3 DEF Fields
  <2>2. Arrive(h, r) /\ "set_status" \in Privileged
    BY <1>7 DEF Privileged
  <2> HIDE DEF r
  <2> QED BY <2>1, <2>2, <1>2, Opens
<1> QED BY <1>1, <1>4, <1>5, <1>6, <1>7 DEF admitted, pc

-----------------------------------------------------------------------------
(***************************************************************************)
(* Guards and tickets                                                      *)
(***************************************************************************)
LEMMA FailedIsOK ==
  ASSUME NEW g, GuardOK(g), now \in Nat
  PROVE  GuardOK(Failed(g)) /\ Failed(g) \in Guard
         /\ (g = None => Failed(g).count = 1) /\ (g # None => Failed(g).count = g.count + 1)
<1>1. CASE g = None
  BY <1>1, Numbers DEF Failed, GuardOK, Guard
<1>2. CASE g # None
  <2>1. g \in Guard /\ (g.until > now => g.count >= MaxFailures) /\ g.count \in Nat /\ g.until \in Int
    BY <1>2 DEF GuardOK, Guard
  <2> QED BY <1>2, <2>1, Numbers DEF Failed, GuardOK, Guard
<1> QED BY <1>1, <1>2

LEMMA CheckedIsOK ==
  ASSUME NEW g, GuardOK(g)
  PROVE  GuardOK(Checked(g))
BY DEF Checked, GuardOK

\* A handler that passes the check joins those past it: the guard is below its
\* limit, or forgotten.
LEMMA CheckLockedKeeps ==
  ASSUME AccountsInv, NEW h \in Handlers, CheckLocked(h)
  PROVE  AccountsInv'
<1> DEFINE q == handlers[h]
           u == q.u
           entry == loginGuard[u]
           to(pc) == [q EXCEPT !.pc = pc]
<1>1. /\ q.pc = "locked"
      /\ UNCHANGED <<scene, now, users, codes, cache, tickets, demotions, started>>
  BY DEF CheckLocked, At, tables
<1>2. AtHand(q, users, codes) /\ DOMAIN q = Fields /\ started' \in Nat /\ now \in Nat
  BY <1>1, Hands
<1>3. q.u \in Users /\ Said(q, users, codes)
  BY <1>1, <1>2 DEF AtHand, Said
<1>4. AtHand(Idle, users, codes) /\ Idle.pc = "idle"
  BY IdleHand
<1>5. GuardsOK /\ DOMAIN handlers = Handlers
  BY DEF AccountsInv, HandlersOK
<1>6. CASE q.op = "login"
  <2>1. /\ IF Locked(entry) THEN Answers(h) ELSE Goes(h, "find")
        /\ loginGuard' = [loginGuard EXCEPT ![u] = Checked(entry)] /\ adminGuard' = adminGuard
    BY <1>6 DEF CheckLocked
  <2>2. GuardOK(entry) /\ GuardOK(Checked(entry)) /\ now' = now
    BY <1>1, <1>3, <1>5, CheckedIsOK DEF GuardsOK
  <2>3. /\ DOMAIN loginGuard' = Users /\ loginGuard'[u] = Checked(entry)
        /\ \A v \in Users \ {u} : loginGuard'[v] = loginGuard[v]
    BY <1>3, <1>5, <2>1 DEF GuardsOK
  <2>4. GuardOK(adminGuard)' /\ \A v \in Users : GuardOK(loginGuard[v])'
    BY <1>5, <2>1, <2>2, <2>3 DEF GuardsOK, GuardOK
  <2>5. PICK r : /\ handlers' = [handlers EXCEPT ![h] = r] /\ r \in {Idle, to("find")}
                 /\ Locked(entry) => r = Idle
    BY <2>1 DEF Answers, Goes, Becomes
  <2>6. /\ AtHand(r, users, codes) /\ r.pc \in {"idle", "find"}
        /\ r.pc = "find" => r.op = "login" /\ r.u = u /\ ~Locked(entry)
    <3>1. CASE r = Idle
      BY <1>4, <3>1
    <3>2. CASE r = to("find") /\ ~Locked(entry)
      <4>1. q.op \in Ops("find") /\ "find" \notin Known
        BY <1>6 DEF Ops, Known
      <4>2. AtHand(to("find"), users, codes)
        <5> HIDE DEF q
        <5> QED BY <1>1, <1>2, <4>1, MovesOn
      <4> QED BY <1>2, <1>6, <3>2, <4>2, Placed
    <3> QED BY <2>5, <3>1, <3>2
  <2> HIDE DEF to
  <2>7. \A k \in Handlers : handlers'[k] = IF k = h THEN r ELSE handlers[k]
    BY <1>5, <2>5
  <2>8. ASSUME NEW v \in Users, loginGuard'[v] # None
        PROVE  loginGuard'[v].count + Cardinality(Past(v)') < MaxFailures + Cardinality(Handlers)
    <3>1. Past(v)' \in SUBSET Handlers /\ Past(v) \in SUBSET Handlers
      BY DEF Past
    <3>2. /\ Cardinality(Past(v)') \in Nat /\ Cardinality(Past(v)') <= Cardinality(Handlers)
          /\ Cardinality(Handlers) \in Nat /\ Cardinality(Past(v)) \in Nat
      BY <3>1, Crowd
    <3>3. CASE v = u /\ ~Locked(entry)
      <4>1. Checked(entry) # None
        BY <2>3, <2>8, <3>3
      <4>2. Checked(entry) = entry /\ entry \in Guard /\ entry.count < MaxFailures /\ entry.count \in Nat
        BY <4>1, <3>3, <1>2, <2>2, Numbers DEF Checked, Locked, GuardOK, Guard
      <4> QED BY <3>2, <3>3, <4>2, <2>3, Numbers
    <3>4. CASE v # u \/ Locked(entry)
      <4>1. loginGuard'[v] = loginGuard[v] /\ loginGuard[v] # None
        BY <2>3, <2>8, <3>4 DEF Checked, Locked
      <4>2. Past(v)' \subseteq Past(v)
        BY <2>6, <2>7, <3>4 DEF Past
      <4>3. Cardinality(Past(v)') <= Cardinality(Past(v))
        BY <3>1, <4>2, Crowd
      <4>4. /\ loginGuard[v].count + Cardinality(Past(v)) < MaxFailures + Cardinality(Handlers)
            /\ loginGuard[v].count \in Nat
        BY <1>5, <4>1 DEF GuardsOK, GuardOK, Guard
      <4> QED BY <3>2, <4>1, <4>3, <4>4, Numbers
    <3> QED BY <3>3, <3>4
  <2>9. GuardsOK'
    BY <2>3, <2>4, <2>8 DEF GuardsOK
  <2>10. TicketsOK' /\ CacheOK'
    BY <1>1, <2>5, AloneRests
  <2> QED BY <1>1, <1>2, <2>5, <2>6, <2>9, <2>10, LocalStep
<1>7. CASE q.op = "token_login"
  <2>1. /\ IF Locked(adminGuard) THEN Answers(h) ELSE Goes(h, "token")
        /\ adminGuard' = Checked(adminGuard) /\ loginGuard' = loginGuard
    BY <1>7 DEF CheckLocked
  <2>2. PICK r : handlers' = [handlers EXCEPT ![h] = r] /\ r \in {Idle, to("token")}
    BY <2>1 DEF Answers, Goes, Becomes
  <2>3. AtHand(r, users, codes) /\ r.pc \in {"idle", "token"}
    <3>1. q.op \in Ops("token") /\ "token" \notin Known
      BY <1>7 DEF Ops, Known
    <3>2. AtHand(to("token"), users, codes)
      <4> HIDE DEF q
      <4> QED BY <1>1, <1>2, <3>1, MovesOn
    <3>3. to("token").pc = "token"
      BY <1>2, Placed
    <3> HIDE DEF to
    <3> QED BY <1>4, <2>2, <3>2, <3>3
  <2> HIDE DEF to
  <2>4. GuardOK(adminGuard)'
    BY <1>1, <1>5, <2>1, CheckedIsOK DEF GuardsOK, GuardOK
  <2>5. TicketsOK' /\ CacheOK' /\ GuardsOK'
    BY <1>1, <2>1, <2>2, <2>3, <2>4, AloneRests
  <2> QED BY <1>1, <1>2, <2>2, <2>3, <2>5, LocalStep
<1> QED BY <1>6, <1>7 DEF CheckLocked

\* A handler at the guards leaves the others where they are.
LEMMA LeavesPast ==
  ASSUME AccountsInv, NEW h \in Handlers, NEW r, handlers' = [handlers EXCEPT ![h] = r],
         handlers[h].pc \in {"failure", "success"}, r.pc \notin {"find", "failure", "success"}
  PROVE  \A v \in Users : IF v = handlers[h].u THEN Past(v)' = Past(v) \ {h} /\ h \in Past(v)
                                              ELSE Past(v)' = Past(v)
<1>1. \A k \in Handlers : handlers'[k] = IF k = h THEN r ELSE handlers[k]
  BY DEF AccountsInv, HandlersOK
<1>2. handlers[h].op = "login"
  BY Hands DEF AtHand, Ops
<1> QED BY <1>1, <1>2 DEF Past

LEMMA LoginFailureKeeps ==
  ASSUME AccountsInv, NEW h \in Handlers, LoginFailure(h)
  PROVE  AccountsInv'
<1>0. PICK u : u = handlers[h].u
  OBVIOUS
<1>1. /\ handlers[h].pc = "failure" /\ handlers' = [handlers EXCEPT ![h] = Idle]
      /\ loginGuard' = [loginGuard EXCEPT ![u] = Failed(loginGuard[u])]
      /\ UNCHANGED <<scene, now, users, codes, cache, tickets, adminGuard, demotions, started>>
  BY <1>0 DEF LoginFailure, At, Answers, Becomes, tables
<1>2. /\ AtHand(handlers[h], users, codes) /\ started' \in Nat /\ now \in Nat
      /\ AtHand(Idle, users, codes) /\ Idle.pc = "idle"
  BY <1>1, Hands, IdleHand
<1>3. u \in Users
  BY <1>0, <1>1, <1>2 DEF AtHand, Said
<1>4. GuardsOK
  BY DEF AccountsInv
<1>5. /\ Past(u)' = Past(u) \ {h} /\ h \in Past(u)
      /\ \A v \in Users \ {u} : Past(v)' = Past(v)
  BY <1>0, <1>1, <1>2, <1>3, LeavesPast
<1>6. /\ DOMAIN loginGuard' = Users /\ loginGuard'[u] = Failed(loginGuard[u])
      /\ \A v \in Users \ {u} : loginGuard'[v] = loginGuard[v]
  BY <1>1, <1>3, <1>4 DEF GuardsOK
<1>7. /\ GuardOK(loginGuard[u]) /\ GuardOK(Failed(loginGuard[u])) /\ Failed(loginGuard[u]) \in Guard
      /\ loginGuard[u] = None => Failed(loginGuard[u]).count = 1
      /\ loginGuard[u] # None => Failed(loginGuard[u]).count = loginGuard[u].count + 1
  BY <1>2, <1>3, <1>4, FailedIsOK DEF GuardsOK
<1>8. GuardOK(adminGuard)' /\ \A v \in Users : GuardOK(loginGuard[v])'
  BY <1>1, <1>4, <1>6, <1>7 DEF GuardsOK, GuardOK
<1>9. loginGuard'[u].count + Cardinality(Past(u)') < MaxFailures + Cardinality(Handlers)
  <2>1. Past(u) \in SUBSET Handlers /\ IsFiniteSet(Past(u)) /\ Cardinality(Past(u)) \in Nat
        /\ Cardinality(Past(u)) <= Cardinality(Handlers) /\ Cardinality(Handlers) \in Nat
    <3>1. Past(u) \in SUBSET Handlers
      BY DEF Past
    <3> QED BY <3>1, Crowd
  <2>2. Cardinality(Past(u)') = Cardinality(Past(u)) - 1
    BY <1>5, <2>1, FS_RemoveElement
  <2>3. CASE loginGuard[u] = None
    BY <1>6, <1>7, <2>1, <2>2, <2>3, Numbers
  <2>4. CASE loginGuard[u] # None
    <3>1. /\ loginGuard[u].count + Cardinality(Past(u)) < MaxFailures + Cardinality(Handlers)
          /\ loginGuard[u].count \in Nat
      BY <1>3, <1>4, <2>4 DEF GuardsOK, GuardOK, Guard
    <3> QED BY <1>6, <1>7, <2>1, <2>2, <2>4, <3>1, Numbers
  <2> QED BY <2>3, <2>4
<1>10. GuardsOK'
  BY <1>4, <1>5, <1>6, <1>8, <1>9 DEF GuardsOK
<1>11. TicketsOK' /\ CacheOK'
  BY <1>1, AloneRests
<1> QED BY <1>1, <1>2, <1>10, <1>11, LocalStep

LEMMA TicketAdded ==
  ASSUME TicketsOK, now \in Nat, UNCHANGED <<users, now>>,
         NEW u \in Users, users[u] # None, NEW pw \in Passwords \cup {None}, NEW overlap \in BOOLEAN,
         pw \in {None, users[u].password} \/ overlap,
         tickets' = tickets \cup {NewTicket(u, pw, overlap)}
  PROVE  TicketsOK'
<1> DEFINE t == NewTicket(u, pw, overlap)
<1>1. /\ t \in Ticket /\ t.user = u /\ t.iat = now /\ t.pw = pw /\ t.overlap = overlap
  BY DEF NewTicket, Ticket
<1> HIDE DEF t
<1>2. tickets' = tickets \cup {t}
  BY DEF t
<1>3. \A s : InForce(s)' <=> InForce(s)
  BY DEF InForce, Expired, RevokedAt
<1> QED BY <1>1, <1>2, <1>3 DEF TicketsOK, TicketsFollowPassword

\* A ticket is worth the row it was made from, if nobody has changed the row
\* since.
LEMMA LoginSuccessKeeps ==
  ASSUME AccountsInv, NEW h \in Handlers, LoginSuccess(h)
  PROVE  AccountsInv'
<1> DEFINE q == handlers[h]
           u == q.u
           row == q.row
           away == [q EXCEPT !.pc = "status", !.arg = "disabled"]
<1>1. /\ q.pc = "success" /\ loginGuard' = [loginGuard EXCEPT ![u] = None]
      /\ UNCHANGED <<scene, now, users, codes, cache, adminGuard, demotions, started>>
  BY DEF LoginSuccess, At, tables
<1>2. /\ AtHand(q, users, codes) /\ DOMAIN q = Fields /\ started' \in Nat /\ now \in Nat
      /\ AtHand(Idle, users, codes) /\ Idle.pc = "idle"
  BY <1>1, Hands, IdleHand
<1>3. PICK r : /\ handlers' = [handlers EXCEPT ![h] = r]
               /\ \/ row.status = "pending" /\ r = away /\ UNCHANGED tickets
                  \/ r = Idle /\ tickets' = tickets \cup {NewTicket(row.id, q.pw, ~q.fresh)}
  BY DEF LoginSuccess, Becomes, Answers
<1>4. /\ u \in Users /\ q.pw \in Passwords /\ q.op = "login" /\ users[u] # None /\ row \in Row
      /\ row.id = u /\ row.password = q.pw /\ q.fresh \in BOOLEAN /\ (q.fresh => users[u] = row)
  BY <1>1, <1>2 DEF AtHand, Said, Read, Ops, Known, Holds
<1>5. AtHand(r, users, codes) /\ r.pc \in {"idle", "status"}
  <2>1. CASE r = away /\ row.status = "pending"
    <3>1. /\ DOMAIN r = Fields /\ r.pc = "status" /\ r.op = "login" /\ r.u = u /\ r.pw = q.pw
          /\ r.arg = "disabled" /\ r.row = row /\ r.fresh = q.fresh
      BY <1>2, <1>4, <2>1 DEF Fields
    <3>2. r.op \in Ops(r.pc) /\ Said(r, users, codes)
      BY <1>4, <3>1 DEF Ops, Said
    <3>3. Read(r, users)
      BY <1>4, <2>1, <3>1 DEF Read, Holds, Status, Renewal
    <3> QED BY <3>1, <3>2, <3>3 DEF AtHand, Spends
  <2> QED BY <1>2, <1>3, <2>1
<1>6. TicketsOK'
  <2>1. CASE UNCHANGED tickets
    BY <1>1, <1>3, <2>1, AloneRests
  <2>2. CASE tickets' = tickets \cup {NewTicket(row.id, q.pw, ~q.fresh)}
    <3>1. TicketsOK /\ (~q.fresh) \in BOOLEAN /\ (q.pw \in {None, users[u].password} \/ ~q.fresh)
      BY <1>4 DEF AccountsInv
    <3> HIDE DEF q, row, u
    <3> QED BY <1>1, <1>2, <1>4, <2>2, <3>1, TicketAdded
  <2> QED BY <1>3, <2>1, <2>2
<1>7. GuardsOK
  BY DEF AccountsInv
<1>8. \A v \in Users : v # u => Past(v)' = Past(v)
  BY <1>1, <1>3, <1>5, LeavesPast
<1>9. GuardsOK'
  <2> HIDE DEF q, u
  <2>1. /\ DOMAIN loginGuard' = Users /\ loginGuard'[u] = None
        /\ \A v \in Users \ {u} : loginGuard'[v] = loginGuard[v]
    BY <1>1, <1>4, <1>7 DEF GuardsOK
  <2>2. GuardOK(adminGuard)' /\ \A v \in Users : GuardOK(loginGuard[v])'
    BY <1>1, <1>7, <2>1 DEF GuardsOK, GuardOK
  <2> QED BY <1>7, <1>8, <2>1, <2>2 DEF GuardsOK
<1>10. CacheOK'
  BY <1>1, <1>3, AloneRests
<1> HIDE DEF away
<1> QED BY <1>1, <1>2, <1>3, <1>5, <1>6, <1>9, <1>10, LocalStep

LEMMA CompareTokenKeeps ==
  ASSUME AccountsInv, NEW h \in Handlers, CompareToken(h)
  PROVE  AccountsInv'
<1> DEFINE q == handlers[h]
           to(pc) == [q EXCEPT !.pc = pc]
<1>1. /\ q.pc = "token"
      /\ UNCHANGED <<scene, now, users, codes, cache, tickets, loginGuard, demotions, started>>
  BY DEF CompareToken, At, tables
<1>2. /\ AtHand(q, users, codes) /\ DOMAIN q = Fields /\ started' \in Nat /\ now \in Nat
      /\ AtHand(Idle, users, codes) /\ Idle.pc = "idle"
  BY <1>1, Hands, IdleHand
<1>3. GuardOK(adminGuard)'
  <2>1. GuardOK(adminGuard)
    BY DEF AccountsInv, GuardsOK
  <2>2. adminGuard' \in {None, Failed(adminGuard), Checked(Failed(adminGuard))}
    BY DEF CompareToken
  <2>3. GuardOK(None) /\ GuardOK(Failed(adminGuard)) /\ GuardOK(Checked(Failed(adminGuard)))
    BY <1>2, <2>1, FailedIsOK, CheckedIsOK DEF GuardOK
  <2>4. GuardOK(adminGuard')
    BY <2>2, <2>3
  <2> QED BY <1>1, <2>4 DEF GuardOK
<1>4. PICK pc \in {"idle", "ticket", "create", "load"} :
        /\ handlers' = [handlers EXCEPT ![h] = IF pc = "idle" THEN Idle ELSE to(pc)]
        /\ pc # "idle" => q.op \in Ops(pc)
  BY DEF CompareToken, Answers, Goes, Becomes, Ops, Privileged
<1>5. "ticket" \notin Known /\ "create" \notin Known /\ "load" \notin Known
  BY DEF Known
<1>6. pc # "idle" => AtHand(to(pc), users, codes) /\ to(pc).pc = pc
  <2> HIDE DEF q
  <2> QED BY <1>1, <1>2, <1>4, <1>5, MovesOn, Placed
<1> DEFINE r == IF pc = "idle" THEN Idle ELSE to(pc)
<1>7. AtHand(r, users, codes) /\ r.pc = pc
  BY <1>2, <1>6
<1>8. handlers' = [handlers EXCEPT ![h] = r]
  BY <1>4
<1> HIDE DEF to, r
<1>9. TicketsOK' /\ CacheOK' /\ GuardsOK'
  BY <1>1, <1>3, <1>4, <1>7, <1>8, AloneRests
<1> QED BY <1>1, <1>2, <1>4, <1>7, <1>8, <1>9, LocalStep

LEMMA TokenTicketKeeps ==
  ASSUME AccountsInv, NEW h \in Handlers, TokenTicket(h)
  PROVE  AccountsInv'
<1>1. /\ handlers[h].pc = "ticket" /\ handlers' = [handlers EXCEPT ![h] = Idle]
      /\ tickets' = IF users[Admin] = None THEN tickets
                    ELSE tickets \cup {NewTicket(Admin, None, FALSE)}
      /\ UNCHANGED <<scene, now, users, codes, cache, loginGuard, adminGuard, demotions, started>>
  BY DEF TokenTicket, At, Answers, Becomes, tables, guards
<1>2. /\ started' \in Nat /\ now \in Nat /\ AtHand(Idle, users, codes) /\ Idle.pc = "idle"
      /\ TicketsOK /\ GuardOK(adminGuard)
  BY <1>1, Hands, IdleHand DEF AccountsInv, GuardsOK
<1>3. CacheOK' /\ GuardsOK'
  <2>1. GuardOK(adminGuard)'
    BY <1>1, <1>2 DEF GuardOK
  <2> QED BY <1>1, <1>2, <2>1, AloneRests
<1>4. TicketsOK'
  <2>1. CASE users[Admin] = None
    BY <1>1, <2>1, AloneRests
  <2>2. CASE users[Admin] # None
    <3>1. tickets' = tickets \cup {NewTicket(Admin, None, FALSE)} /\ Admin \in Users
      BY <1>1, <2>2, AccountsAssumption
    <3> QED BY <1>1, <1>2, <2>2, <3>1, TicketAdded
  <2> QED BY <2>1, <2>2
<1> QED BY <1>1, <1>2, <1>3, <1>4, LocalStep

-----------------------------------------------------------------------------
(***************************************************************************)
(* The cache                                                               *)
(***************************************************************************)
LEMMA InvalidateKeeps ==
  ASSUME AccountsInv, NEW h \in Handlers, Invalidate(h)
  PROVE  AccountsInv'
<1>0. PICK q : q = handlers[h]
  OBVIOUS
<1>1. /\ q.pc = "invalidate" /\ handlers' = [handlers EXCEPT ![h] = Idle]
      /\ cache' = [cache EXCEPT ![q.u] = None]
      /\ tickets' = IF q.op = "change_password" THEN tickets \cup {NewTicket(q.u, q.pw, ~q.fresh)}
                    ELSE tickets
      /\ UNCHANGED <<scene, now, users, codes, loginGuard, adminGuard, demotions, started>>
  BY <1>0 DEF Invalidate, At, Answers, Becomes, tables, guards
<1>2. /\ AtHand(q, users, codes) /\ started' \in Nat /\ now \in Nat
      /\ AtHand(Idle, users, codes) /\ Idle.pc = "idle"
      /\ TicketsOK /\ CacheOK /\ DOMAIN handlers = Handlers /\ GuardOK(adminGuard)
  BY <1>0, <1>1, Hands, IdleHand DEF AccountsInv, HandlersOK, GuardsOK
<1>3. q.u \in Users /\ users[q.u] # None /\ q.fresh \in BOOLEAN
  BY <1>1, <1>2 DEF AtHand, Said, Read, Known
<1>4. GuardsOK'
  <2>1. GuardOK(adminGuard)'
    BY <1>1, <1>2 DEF GuardOK
  <2> QED BY <1>1, <1>2, <2>1, AloneRests
<1>5. TicketsOK'
  <2>1. CASE q.op # "change_password"
    BY <1>1, <2>1, AloneRests
  <2>2. CASE q.op = "change_password"
    <3>1. q.pw \in Passwords /\ (~q.fresh) \in BOOLEAN
      BY <1>1, <1>2, <1>3, <2>2 DEF AtHand, Said
    <3>2. q.pw \in {None, users[q.u].password} \/ ~q.fresh
      BY <1>1, <1>2, <2>2 DEF AtHand, Read, Holds, Renewal
    <3>3. tickets' = tickets \cup {NewTicket(q.u, q.pw, ~q.fresh)}
      BY <1>1, <2>2
    <3> QED BY <1>1, <1>2, <1>3, <3>1, <3>2, <3>3, TicketAdded
  <2> QED BY <2>1, <2>2
<1>6. CacheOK'
  <2>1. \A k \in Handlers : handlers'[k] = IF k = h THEN Idle ELSE handlers[k]
    BY <1>1, <1>2
  <2>2. \A v \in Users : cache'[v] = IF v = q.u THEN None ELSE cache[v]
    BY <1>1, <1>2 DEF CacheOK
  <2>3. \A v \in Users : v # q.u /\ Invalidating(v) => Invalidating(v)'
    BY <1>0, <2>1 DEF Invalidating
  <2>4. CacheTellsTheTruth'
    BY <1>1, <1>2, <2>2, <2>3 DEF CacheOK, CacheTellsTheTruth, CachedUser
  <2>5. cache' \in [Users -> Entry \cup {None}]
    BY <1>1, <1>2 DEF CacheOK
  <2> QED BY <1>1, <1>2, <2>2, <2>4, <2>5 DEF CacheOK
<1> QED BY <1>1, <1>2, <1>4, <1>5, <1>6, LocalStep

\* What is decided of a session: an answer, or the operation goes on.
LEMMA DecidesWell ==
  ASSUME NEW q, AtHand(q, users, codes), q.pc \in {"cache", "insert"}, q.op # "use"
  PROVE  LET r == [q EXCEPT !.pc = IF q.op = "create_user" THEN "create" ELSE "load",
                            !.row = None, !.fresh = TRUE]
         IN  AtHand(r, users, codes) /\ r.pc \in {"create", "load"}
<1> DEFINE pc == IF q.op = "create_user" THEN "create" ELSE "load"
           r == [q EXCEPT !.pc = pc, !.row = None, !.fresh = TRUE]
<1>1. DOMAIN q = Fields /\ q.op \in Ops(q.pc) /\ Said(q, users, codes)
  BY DEF AtHand
<1>2. /\ DOMAIN r = Fields /\ r.pc = pc /\ r.op = q.op /\ r.u = q.u /\ r.ticket = q.ticket
      /\ r.pw = q.pw /\ r.arg = q.arg /\ r.fresh = TRUE
  BY <1>1 DEF Fields
<1>3. pc \in {"create", "load"} /\ q.op \in Ops(pc) /\ pc \notin Known
  BY <1>1 DEF Ops, Personal, Privileged, Known
<1> HIDE DEF r, pc
<1>4. r.op \in Ops(r.pc) /\ Said(r, users, codes)
  BY <1>1, <1>2, <1>3 DEF Said
<1>5. Read(r, users)
  BY <1>2, <1>3 DEF Read, Holds, Status, Renewal
<1>6. AtHand(r, users, codes) /\ r.pc \in {"create", "load"}
  BY <1>2, <1>3, <1>4, <1>5 DEF AtHand, Spends
<1> QED BY <1>6 DEF r, pc

LEMMA DecidesKeeps ==
  ASSUME AccountsInv, NEW h \in Handlers, handlers[h].pc \in {"cache", "insert"},
         NEW known, Decides(h, known), CacheOK',
         UNCHANGED <<scene, now, users, codes, tickets, loginGuard, adminGuard, demotions, started>>
  PROVE  AccountsInv'
<1>1. PICK r : /\ handlers' = [handlers EXCEPT ![h] = r]
               /\ AtHand(r, users, codes) /\ r.pc \in {"idle", "create", "load"}
  <2>1. CASE Answers(h)
    BY <2>1, IdleHand DEF Answers, Becomes
  <2>2. CASE ~Answers(h)
    <3> DEFINE q == handlers[h]
               r == [q EXCEPT !.pc = IF q.op = "create_user" THEN "create" ELSE "load",
                              !.row = None, !.fresh = TRUE]
    <3>1. handlers' = [handlers EXCEPT ![h] = r] /\ q.op # "use"
      BY <2>2 DEF Decides, Becomes
    <3>2. AtHand(r, users, codes) /\ r.pc \in {"create", "load"}
      <4>1. AtHand(q, users, codes) /\ q.pc \in {"cache", "insert"}
        BY Hands
      <4> HIDE DEF q
      <4> QED BY <3>1, <4>1, DecidesWell
    <3> HIDE DEF r
    <3> QED BY <3>1, <3>2
  <2> QED BY <2>1, <2>2
<1>2. TicketsOK' /\ GuardsOK'
  <2>1. GuardOK(adminGuard)'
    BY DEF AccountsInv, GuardsOK, GuardOK
  <2> QED BY <1>1, <2>1, AloneRests
<1>3. started' \in Nat
  BY Hands
<1> QED BY <1>1, <1>2, <1>3, LocalStep

LEMMA AskCacheKeeps ==
  ASSUME AccountsInv, NEW h \in Handlers, AskCache(h)
  PROVE  AccountsInv'
<1> DEFINE q == handlers[h]
           t == q.ticket
           r == [q EXCEPT !.pc = "read"]
<1>1. /\ q.pc = "cache"
      /\ UNCHANGED <<scene, now, users, codes, tickets, loginGuard, adminGuard, demotions, started>>
  BY DEF AskCache, At, tables, guards
<1>2. \/ Answers(h) /\ UNCHANGED cache
      \/ Decides(h, cache[t.user].value) /\ UNCHANGED cache
      \/ cache' = [cache EXCEPT ![t.user] = None] /\ handlers' = [handlers EXCEPT ![h] = r]
  BY DEF AskCache, Goes, Becomes
<1>3. CASE Answers(h) /\ UNCHANGED cache
  BY <1>1, <1>3, AnswersKeeps
<1>4. CASE Decides(h, cache[t.user].value) /\ UNCHANGED cache
  <2>1. PICK r2 : handlers' = [handlers EXCEPT ![h] = r2]
    BY <1>4 DEF Decides, Answers, Becomes
  <2>2. CacheOK'
    BY <1>1, <1>4, <2>1, AloneRests
  <2> QED BY <1>1, <1>4, <2>2, DecidesKeeps
<1>5. CASE cache' = [cache EXCEPT ![t.user] = None] /\ handlers' = [handlers EXCEPT ![h] = r]
  <2>1. /\ AtHand(q, users, codes) /\ DOMAIN q = Fields /\ started' \in Nat
        /\ CacheOK /\ GuardOK(adminGuard) /\ DOMAIN handlers = Handlers
    BY <1>1, Hands DEF AccountsInv, GuardsOK, HandlersOK
  <2>2. r.pc = "read"
    BY <2>1, Placed
  <2>3. AtHand(r, users, codes)
    <3>1. "read" \notin Known /\ q.op \in Ops("read")
      BY <1>1, <2>1 DEF Known, AtHand, Ops
    <3> HIDE DEF q
    <3> QED BY <1>1, <2>1, <3>1, MovesOn
  <2> HIDE DEF r
  <2>4. TicketsOK' /\ GuardsOK'
    <3>1. GuardOK(adminGuard)'
      BY <1>1, <2>1 DEF GuardOK
    <3> QED BY <1>1, <1>5, <2>2, <3>1, AloneRests
  <2>5. CacheOK'
    <3>1. \A k \in Handlers : handlers'[k] = IF k = h THEN r ELSE handlers[k]
      BY <1>5, <2>1
    <3>2. /\ cache' \in [Users -> Entry \cup {None}]
          /\ \A u \in Users : cache'[u] = None \/ cache'[u] = cache[u]
      BY <1>5, <2>1 DEF CacheOK
    <3> QED BY <1>1, <2>1, <3>1, <3>2, CacheRests
  <2> QED BY <1>1, <1>5, <2>1, <2>2, <2>3, <2>4, <2>5, LocalStep
<1> QED BY <1>2, <1>3, <1>4, <1>5

\* An entry filled from a fresh row is what the table says.
LEMMA FillCacheKeeps ==
  ASSUME AccountsInv, NEW h \in Handlers, FillCache(h)
  PROVE  AccountsInv'
<1>0. PICK q : q = handlers[h]
  OBVIOUS
<1> DEFINE row == q.row
           new == [value |-> CachedUser(row), at |-> now, excused |-> ~q.fresh]
<1>1. /\ q.pc = "insert" /\ cache' = [cache EXCEPT ![row.id] = new]
      /\ Decides(h, CachedUser(row))
      /\ UNCHANGED <<scene, now, users, codes, tickets, loginGuard, adminGuard, demotions, started>>
  BY <1>0 DEF FillCache, At, tables, guards
<1>2. AtHand(q, users, codes) /\ now \in Nat /\ CacheOK /\ DOMAIN handlers = Handlers
  BY <1>0, Hands DEF AccountsInv, HandlersOK
<1>3. /\ row \in Row /\ row.id = q.ticket.user /\ (q.fresh => users[row.id] = row)
      /\ q.fresh \in BOOLEAN /\ row.id \in Users /\ users[row.id] # None
  BY <1>1, <1>2 DEF AtHand, Read, Holds, Said, Row
<1>4. new \in Entry
  BY <1>2, <1>3 DEF Entry, Cached, CachedUser, Row
<1>5. PICK r : handlers' = [handlers EXCEPT ![h] = r]
  BY <1>1 DEF Decides, Answers, Becomes
<1>6. CacheOK'
  <2>1. \A k \in Handlers : k # h => handlers'[k] = handlers[k]
    BY <1>2, <1>5
  <2>2. \A u \in Users : Invalidating(u) => Invalidating(u)'
    BY <1>0, <1>1, <2>1 DEF Invalidating
  <2>3. \A u \in Users : cache'[u] = IF u = row.id THEN new ELSE cache[u]
    BY <1>1, <1>2 DEF CacheOK
  <2>4. new.excused \/ new.value = CachedUser(users[row.id])
    BY <1>3
  <2> HIDE DEF new, row
  <2>5. CacheTellsTheTruth'
    BY <1>1, <1>2, <2>2, <2>3, <2>4 DEF CacheOK, CacheTellsTheTruth, CachedUser
  <2>6. cache' \in [Users -> Entry \cup {None}]
    BY <1>1, <1>2, <1>4 DEF CacheOK
  <2> QED BY <1>1, <1>2, <1>3, <2>3, <2>5, <2>6 DEF CacheOK
<1> QED BY <1>0, <1>1, <1>6, DecidesKeeps

\* A refused statement leaves everything, but for the cache of a disabling that
\* ends halfway.
LEMMA RefusedKeeps ==
  ASSUME AccountsInv, NEW h \in Handlers, Refused(h)
  PROVE  AccountsInv'
<1>0. PICK q : q = handlers[h]
  OBVIOUS
<1> DEFINE left == q.pc = "revoke" /\ cache[q.u] # None
<1>1. /\ q.pc \notin {"idle", "invalidate"} /\ handlers' = [handlers EXCEPT ![h] = Idle]
      /\ cache' = IF left THEN [cache EXCEPT ![q.u].excused = TRUE] ELSE cache
      /\ UNCHANGED <<scene, now, users, codes, tickets, loginGuard, adminGuard, demotions, started>>
  BY <1>0 DEF Refused, At, Answers, Becomes, tables, guards
<1>2. /\ AtHand(q, users, codes) /\ started' \in Nat /\ AtHand(Idle, users, codes)
      /\ Idle.pc = "idle" /\ CacheOK /\ GuardOK(adminGuard) /\ DOMAIN handlers = Handlers
  BY <1>0, <1>1, Hands, IdleHand DEF AccountsInv, HandlersOK, GuardsOK
<1>3. q.u \in Users
  BY <1>1, <1>2 DEF AtHand, Said
<1>4. TicketsOK' /\ GuardsOK'
  <2>1. GuardOK(adminGuard)'
    BY <1>1, <1>2 DEF GuardOK
  <2> QED BY <1>1, <1>2, <2>1, AloneRests
<1>5. CacheOK'
  <2>1. \A k \in Handlers : k # h => handlers'[k] = handlers[k]
    BY <1>1, <1>2
  <2>2. \A u \in Users : Invalidating(u) => Invalidating(u)' \/ (u = q.u /\ q.pc = "revoke")
    BY <1>0, <1>1, <2>1 DEF Invalidating
  <2>3. CASE ~left
    <3>1. CacheTellsTheTruth'
      BY <1>1, <1>2, <2>2, <2>3 DEF CacheOK, CacheTellsTheTruth, CachedUser
    <3> QED BY <1>1, <1>2, <2>3, <3>1 DEF CacheOK
  <2>4. CASE left
    <3>1. cache[q.u] \in Entry /\ cache \in [Users -> Entry \cup {None}]
      BY <1>2, <1>3, <2>4 DEF CacheOK
    <3> DEFINE new == [cache[q.u] EXCEPT !.excused = TRUE]
    <3>2. new \in Entry /\ new.excused = TRUE
      BY <3>1 DEF Entry
    <3>3. cache' = [cache EXCEPT ![q.u] = new]
      BY <1>1, <2>4
    <3> HIDE DEF new
    <3>4. \A u \in Users : cache'[u] = IF u = q.u THEN new ELSE cache[u]
      BY <3>1, <3>3
    <3>5. CacheTellsTheTruth'
      BY <1>1, <1>2, <2>2, <3>2, <3>4 DEF CacheOK, CacheTellsTheTruth, CachedUser
    <3>6. cache' \in [Users -> Entry \cup {None}]
      BY <3>1, <3>2, <3>3
    <3> QED BY <1>1, <1>2, <2>4, <3>4, <3>5, <3>6 DEF CacheOK
  <2> QED BY <2>3, <2>4
<1> QED BY <1>1, <1>2, <1>4, <1>5, LocalStep

-----------------------------------------------------------------------------
(***************************************************************************)
(* Codes                                                                   *)
(***************************************************************************)
LEMMA CodeStep ==
  ASSUME AccountsInv, NEW h \in Handlers, NEW r, handlers' = [handlers EXCEPT ![h] = r],
         UNCHANGED <<scene, now, users, tickets, cache, loginGuard, adminGuard, demotions, started>>,
         CodesStay(codes, codes'), AtHand(r, users, codes'), CodesOK',
         handlers[h].pc \notin {"invalidate", "revoke"},
         r.pc \notin {"find", "failure", "success", "role"}
  PROVE  AccountsInv'
<1>1. /\ BasicsOK /\ HandlersOK /\ UsersOK /\ GuardOK(adminGuard) /\ AdminsOK
  BY DEF AccountsInv, GuardsOK
<1>2. BasicsOK'
  BY <1>1 DEF BasicsOK
<1>3. HandlersOK' /\ UsersOK'
  BY <1>1, HandlersKeep, UsersRest
<1>4. TicketsOK' /\ CacheOK' /\ GuardsOK'
  <2>1. GuardOK(adminGuard)'
    BY <1>1 DEF GuardOK
  <2> QED BY <2>1, AloneRests
<1>5. AdminsOK'
  <2>1. \A k \in Handlers : handlers'[k] = IF k = h THEN r ELSE handlers[k]
    BY <1>1 DEF HandlersOK
  <2> QED BY <1>1, <2>1, AdminsRest
<1> QED BY <1>2, <1>3, <1>4, <1>5 DEF AccountsInv

\* One code changes, and only for it may the crowds grow.
LEMMA OneCode ==
  ASSUME AccountsInv, NEW h \in Handlers, NEW r, handlers' = [handlers EXCEPT ![h] = r],
         NEW i \in DOMAIN codes, NEW c \in Code, codes' = [codes EXCEPT ![i] = c],
         c.user = codes[i].user, c.purpose = codes[i].purpose, codes[i].mailed => c.mailed,
         codes[i].accepted > 0 => c.accepted > 0, codes[i].consumed => c.consumed,
         r.pc \in {"miss", "spend"} => r.code = i, CodeOK(i)'
  PROVE  CodesOK' /\ CodesStay(codes, codes')
<1>1. CodesOK /\ DOMAIN handlers = Handlers
  BY DEF AccountsInv, HandlersOK
<1>2. \A k \in Handlers : handlers'[k] = IF k = h THEN r ELSE handlers[k]
  BY <1>1
<1>3. codes \in Seq(Code) /\ DOMAIN codes = 1..Len(codes) /\ Len(codes) \in Nat
  BY <1>1 DEF CodesOK
<1>4. /\ codes' \in Seq(Code) /\ DOMAIN codes' = DOMAIN codes
      /\ \A n \in DOMAIN codes : codes'[n] = IF n = i THEN c ELSE codes[n]
  BY <1>3
<1>5. CodesStay(codes, codes')
  BY <1>4 DEF CodesStay
<1>6. ASSUME NEW n \in DOMAIN codes, n # i
      PROVE  CodeOK(n)'
  <2>1. Missers(n)' \subseteq Missers(n) /\ Spenders(n)' \subseteq Spenders(n)
        /\ Missers(n) \in SUBSET Handlers
    BY <1>2, <1>6 DEF Missers, Spenders, At
  <2>2. /\ Cardinality(Missers(n)) \in Nat /\ Cardinality(Missers(n)') \in Nat
        /\ Cardinality(Missers(n)') <= Cardinality(Missers(n)) /\ Cardinality(Handlers) \in Nat
    BY <2>1, Crowd
  <2>3. CodeOK(n) /\ codes[n].attempts \in Nat /\ codes'[n] = codes[n]
    BY <1>1, <1>4, <1>6, Coded DEF CodesOK
  <2>4. codes[n].attempts + Cardinality(Missers(n)') < MaxAttempts + Cardinality(Handlers)
    BY <2>2, <2>3, Numbers DEF CodeOK
  <2> QED BY <2>1, <2>3, <2>4 DEF CodeOK
<1>7. \A u \in Users : \A p \in Purposes : \A m, n \in DOMAIN codes' :
        Live(m, u, p)' /\ Live(n, u, p)' => m = n
  <2>1. \A u, p : \A n \in DOMAIN codes : Live(n, u, p)' => Live(n, u, p)
    BY <1>4 DEF Live
  <2> QED BY <1>1, <1>4, <2>1 DEF CodesOK
<1> QED BY <1>4, <1>5, <1>6, <1>7 DEF CodesOK

LEMMA SendCodeKeeps ==
  ASSUME AccountsInv, NEW h \in Handlers, SendCode(h)
  PROVE  AccountsInv'
<1>0. PICK q : q = handlers[h]
  OBVIOUS
<1>1. /\ q.pc = "mail" /\ handlers' = [handlers EXCEPT ![h] = Idle]
      /\ codes' = [codes EXCEPT ![q.code].mailed = TRUE] \/ codes' = codes
      /\ UNCHANGED <<scene, now, users, tickets, cache, loginGuard, adminGuard, demotions, started>>
  BY <1>0 DEF SendCode, At, Answers, Becomes, guards
<1>2. /\ AtHand(q, users, codes) /\ CodesOK /\ Answers(h) /\ AtHand(Idle, users, codes')
      /\ Idle.pc = "idle" /\ DOMAIN handlers = Handlers
  BY <1>0, Hands, IdleHand DEF AccountsInv, HandlersOK, SendCode
<1>3. CASE codes' = codes
  BY <1>0, <1>1, <1>2, <1>3, AnswersKeeps
<1>4. CASE codes' = [codes EXCEPT ![q.code].mailed = TRUE]
  <2> DEFINE c == [codes[q.code] EXCEPT !.mailed = TRUE]
  <2>0. PICK i : i = q.code
    OBVIOUS
  <2>1. i \in DOMAIN codes /\ codes' = [codes EXCEPT ![i] = c] /\ CodeOK(i) /\ codes \in Seq(Code)
    BY <1>1, <1>2, <1>4, <2>0 DEF AtHand, Spends, CodesOK
  <2>2. /\ c \in Code /\ c.user = codes[i].user /\ c.purpose = codes[i].purpose
        /\ codes[i].mailed => c.mailed
        /\ c.attempts = codes[i].attempts /\ c.accepted = codes[i].accepted
        /\ c.consumed = codes[i].consumed /\ c.raced = codes[i].raced
    <3>1. PICK e : e = codes[i]
      OBVIOUS
    <3>2. /\ e \in Code /\ e.attempts \in Nat /\ e.accepted \in Nat /\ e.consumed \in BOOLEAN
          /\ e.raced \in BOOLEAN /\ c = [e EXCEPT !.mailed = TRUE]
      BY <2>0, <2>1, <3>1, Coded
    <3> HIDE DEF c
    <3>3. /\ c \in Code /\ c.user = e.user /\ c.purpose = e.purpose /\ c.mailed = TRUE
          /\ c.attempts = e.attempts /\ c.accepted = e.accepted
          /\ c.consumed = e.consumed /\ c.raced = e.raced
      BY <3>2 DEF Code
    <3> QED BY <3>1, <3>3
  <2> HIDE DEF c
  <2>3. CodeOK(i)'
    <3>1. codes'[i] = c
      BY <2>1
    <3>2. \A k \in Handlers : handlers'[k] = IF k = h THEN Idle ELSE handlers[k]
      BY <1>1, <1>2
    <3>3. Missers(i)' = Missers(i) /\ Spenders(i)' = Spenders(i)
      BY <1>0, <1>1, <1>2, <3>2 DEF Missers, Spenders, At
    <3> QED BY <2>1, <2>2, <3>1, <3>3 DEF CodeOK
  <2>4. CodesOK' /\ CodesStay(codes, codes')
    BY <1>1, <1>2, <2>1, <2>2, <2>3, OneCode
  <2> QED BY <1>0, <1>1, <1>2, <2>4, CodeStep
<1> QED BY <1>1, <1>3, <1>4

\* A wrong guess: one attempt more, and one handler less that is about to write
\* one.
LEMMA MissKeeps ==
  ASSUME AccountsInv, NEW h \in Handlers, Miss(h)
  PROVE  AccountsInv'
<1>0. PICK q : q = handlers[h]
  OBVIOUS
<1>1. /\ q.pc = "miss" /\ handlers' = [handlers EXCEPT ![h] = Idle]
      /\ codes' = [codes EXCEPT ![q.code].attempts = @ + 1]
      /\ UNCHANGED <<scene, now, users, tickets, cache, loginGuard, adminGuard, demotions, started>>
  BY <1>0 DEF Miss, At, Answers, Becomes, guards
<1>2. /\ AtHand(q, users, codes) /\ CodesOK /\ AtHand(Idle, users, codes')
      /\ Idle.pc = "idle" /\ DOMAIN handlers = Handlers
  BY <1>0, Hands, IdleHand DEF AccountsInv, HandlersOK
<1> DEFINE c == [codes[q.code] EXCEPT !.attempts = @ + 1]
<1>3. PICK i : i = q.code
  OBVIOUS
<1>4. i \in DOMAIN codes /\ codes' = [codes EXCEPT ![i] = c] /\ CodeOK(i) /\ codes \in Seq(Code)
  BY <1>1, <1>2, <1>3 DEF AtHand, Spends, CodesOK
<1>5. /\ c \in Code /\ c.user = codes[i].user /\ c.purpose = codes[i].purpose
      /\ c.mailed = codes[i].mailed /\ c.attempts = codes[i].attempts + 1
      /\ c.accepted = codes[i].accepted /\ codes[i].attempts \in Nat
      /\ c.consumed = codes[i].consumed /\ c.raced = codes[i].raced
  <2>1. PICK e : e = codes[i]
    OBVIOUS
  <2>2. /\ e \in Code /\ e.attempts \in Nat /\ e.accepted \in Nat /\ e.consumed \in BOOLEAN
        /\ e.raced \in BOOLEAN /\ c = [e EXCEPT !.attempts = e.attempts + 1]
    BY <1>3, <1>4, <2>1, Coded
  <2> HIDE DEF c
  <2>3. /\ c \in Code /\ c.user = e.user /\ c.purpose = e.purpose /\ c.mailed = e.mailed
        /\ c.attempts = e.attempts + 1 /\ c.accepted = e.accepted
        /\ c.consumed = e.consumed /\ c.raced = e.raced
    BY <2>2 DEF Code
  <2> QED BY <2>1, <2>2, <2>3
<1> HIDE DEF c
<1>6. CodeOK(i)'
  <2>1. codes'[i] = c
    BY <1>4
  <2>2. \A k \in Handlers : handlers'[k] = IF k = h THEN Idle ELSE handlers[k]
    BY <1>1, <1>2
  <2>3. Missers(i)' = Missers(i) \ {h} /\ h \in Missers(i) /\ Spenders(i)' = Spenders(i)
    BY <1>0, <1>1, <1>2, <1>3, <2>2 DEF Missers, Spenders, At
  <2>4. Missers(i) \in SUBSET Handlers
    BY DEF Missers
  <2>5. IsFiniteSet(Missers(i)) /\ Cardinality(Missers(i)) \in Nat /\ Cardinality(Handlers) \in Nat
    BY <2>4, Crowd
  <2>6. Cardinality(Missers(i)') = Cardinality(Missers(i)) - 1
    BY <2>3, <2>5, FS_RemoveElement
  <2>7. c.attempts + Cardinality(Missers(i)') < MaxAttempts + Cardinality(Handlers)
    BY <1>4, <1>5, <2>5, <2>6, Numbers DEF CodeOK
  <2> QED BY <1>4, <1>5, <2>1, <2>3, <2>7 DEF CodeOK
<1>7. CodesOK' /\ CodesStay(codes, codes')
  BY <1>1, <1>2, <1>4, <1>5, <1>6, OneCode
<1> QED BY <1>0, <1>1, <1>2, <1>7, CodeStep

\* The right guess: if nobody raced for the code, this is its only spender.
LEMMA SpendKeeps ==
  ASSUME AccountsInv, NEW h \in Handlers, Spend(h)
  PROVE  AccountsInv'
<1>0. PICK q : q = handlers[h]
  OBVIOUS
<1> DEFINE pc == IF q.op = "verify_email" THEN "verify" ELSE "password"
           r == [q EXCEPT !.pc = pc]
           c == [codes[q.code] EXCEPT !.consumed = TRUE, !.accepted = codes[q.code].accepted + 1]
<1>1. /\ q.pc = "spend" /\ handlers' = [handlers EXCEPT ![h] = r]
      /\ UNCHANGED <<scene, now, users, tickets, cache, loginGuard, adminGuard, demotions, started>>
  BY <1>0 DEF Spend, At, Goes, Becomes, guards
<1>2. /\ AtHand(q, users, codes) /\ DOMAIN q = Fields /\ CodesOK /\ DOMAIN handlers = Handlers
  BY <1>0, Hands DEF AccountsInv, HandlersOK
<1>3. PICK i : i = q.code
  OBVIOUS
<1>4. i \in DOMAIN codes /\ CodeOK(i) /\ codes \in Seq(Code)
  BY <1>1, <1>2, <1>3 DEF AtHand, Spends, CodesOK
<1>5. codes' = [codes EXCEPT ![i] = c]
  <2>1. codes' = [codes EXCEPT ![q.code].consumed = TRUE, ![q.code].accepted = @ + 1]
    BY <1>0 DEF Spend
  <2>2. DOMAIN codes[i] = {"user", "purpose", "at", "attempts", "consumed", "mailed", "accepted",
                           "raced"}
    BY <1>4, Coded DEF Code
  <2> QED BY <1>3, <1>4, <2>1, <2>2
<1>6. /\ c \in Code /\ c.user = codes[i].user /\ c.purpose = codes[i].purpose
      /\ c.mailed = codes[i].mailed /\ c.attempts = codes[i].attempts
      /\ c.accepted = codes[i].accepted + 1 /\ codes[i].accepted \in Nat
      /\ c.consumed = TRUE /\ c.raced = codes[i].raced
  <2>1. PICK e : e = codes[i]
    OBVIOUS
  <2>2. /\ e \in Code /\ e.accepted \in Nat
        /\ c = [e EXCEPT !.consumed = TRUE, !.accepted = e.accepted + 1]
    BY <1>3, <1>4, <2>1, Coded
  <2> HIDE DEF c
  <2> DEFINE d == e.accepted + 1
  <2>4. d \in Nat /\ c = [e EXCEPT !.consumed = TRUE, !.accepted = d]
    BY <2>2
  <2> HIDE DEF d
  <2>5. c \in Code /\ c.accepted = d
    BY <2>2, <2>4 DEF Code
  <2>3. /\ c \in Code /\ c.user = e.user /\ c.purpose = e.purpose /\ c.mailed = e.mailed
        /\ c.attempts = e.attempts /\ c.accepted = e.accepted + 1
        /\ c.consumed = TRUE /\ c.raced = e.raced
    BY <2>2, <2>4, <2>5 DEF Code, d
  <2> QED BY <2>1, <2>2, <2>3
<1> HIDE DEF c
<1>7. codes'[i] = c /\ i \in DOMAIN codes'
  BY <1>4, <1>5
<1>8. /\ q.op \in {"verify_email", "reset_confirm"} /\ Said(q, users, codes)
      /\ q.arg = i /\ codes[i].user = q.u /\ codes[i].purpose = Purpose(q.op)
      /\ users[q.u] # None /\ q.fresh \in BOOLEAN
  BY <1>1, <1>2, <1>3 DEF AtHand, Ops, Read, Known, Spends
<1>9. i # 0 /\ codes[i].mailed
  <2>1. i > 0
    BY <1>4, Coded
  <2> QED BY <1>8, <2>1 DEF Said
<1>10. q.op = "verify_email" => Proof(q.u, codes')
  <2> SUFFICES ASSUME q.op = "verify_email" PROVE Proof(q.u, codes')
    OBVIOUS
  <2>1. /\ codes'[i].user = q.u /\ codes'[i].purpose = "verify_email" /\ codes'[i].mailed
        /\ codes'[i].accepted > 0
    <3>1. codes[i].purpose = "verify_email"
      BY <1>8 DEF Purpose
    <3>2. codes'[i].accepted > 0
      BY <1>6, <1>7
    <3> QED BY <1>6, <1>7, <1>8, <1>9, <3>1, <3>2
  <2> QED BY <1>7, <2>1 DEF Proof
<1>11. /\ DOMAIN r = Fields /\ r.pc = pc /\ r.op = q.op /\ r.u = q.u /\ r.pw = q.pw
       /\ r.arg = q.arg /\ r.fresh = q.fresh
  BY <1>2, Placed
<1>12. pc \in {"verify", "password"} /\ (pc = "verify" <=> q.op = "verify_email")
  OBVIOUS
<1> HIDE DEF r, pc
<1>13. \A k \in Handlers : handlers'[k] = IF k = h THEN r ELSE handlers[k]
  BY <1>1, <1>2
<1>14. CodeOK(i)'
  <2>1. /\ Missers(i)' = Missers(i) /\ Spenders(i)' = Spenders(i) \ {h} /\ h \in Spenders(i)
    BY <1>0, <1>1, <1>3, <1>11, <1>12, <1>13 DEF Missers, Spenders, At
  <2>2. ~c.raced => c.accepted <= 1 /\ Spenders(i)' = {}
    <3>1. codes[i].accepted = 0 \/ codes[i].accepted > 0
      BY <1>6
    <3> QED BY <1>4, <1>6, <2>1, <3>1 DEF CodeOK
  <2> QED BY <1>4, <1>6, <1>7, <2>1, <2>2 DEF CodeOK
<1>15. CodesOK' /\ CodesStay(codes, codes')
  <2>1. codes[i].accepted > 0 => c.accepted > 0
    BY <1>6
  <2> QED BY <1>1, <1>4, <1>5, <1>6, <1>11, <1>12, <1>14, <2>1, OneCode
<1>16. AtHand(r, users, codes')
  <2>1. r.op \in Ops(r.pc)
    BY <1>8, <1>11, <1>12 DEF Ops
  <2>2. Said(r, users, codes')
    <3>1. codes'[i].mailed
      BY <1>6, <1>7, <1>9
    <3> QED BY <1>7, <1>8, <1>11, <1>12, <3>1 DEF Said
  <2>3. Read(r, users)
    BY <1>8, <1>11, <1>12 DEF Read, Holds, Status, Renewal
  <2>4. Spends(r, users, codes')
    BY <1>8, <1>10, <1>11, <1>12 DEF Spends
  <2> QED BY <1>11, <2>1, <2>2, <2>3, <2>4 DEF AtHand
<1> QED BY <1>0, <1>1, <1>11, <1>12, <1>15, <1>16, CodeStep

\* One who reads an open code, that may be tried, joins those who may spend it
\* or miss it: another who is about to spend it is a race.
LEMMA ReadCodeKeeps ==
  ASSUME AccountsInv, NEW h \in Handlers, ReadCode(h)
  PROVE  AccountsInv'
<1>0. PICK q : q = handlers[h]
  OBVIOUS
<1>1. /\ q.pc = "code"
      /\ UNCHANGED <<scene, now, users, cache, tickets, loginGuard, adminGuard, demotions, started>>
  BY <1>0 DEF ReadCode, At, guards
<1>2. /\ AtHand(q, users, codes) /\ DOMAIN q = Fields /\ CodesOK /\ DOMAIN handlers = Handlers
  BY <1>0, Hands DEF AccountsInv, HandlersOK
<1>3. CASE Answers(h) /\ UNCHANGED codes
  BY <1>0, <1>1, <1>3, AnswersKeeps
<1> DEFINE pc(n) == IF q.arg = n THEN "spend" ELSE "miss"
           taken(n) == [q EXCEPT !.pc = pc(n), !.code = n]
           raced(n) == \E k \in Handlers \ {h} : At(k, "spend") /\ handlers[k].code = n
           met(n) == [codes[n] EXCEPT !.raced = codes[n].raced \/ raced(n)]
<1>4. ASSUME NEW i \in OpenCodes(q.u, Purpose(q.op)), codes[i].attempts < MaxAttempts,
             handlers' = [handlers EXCEPT ![h] = taken(i)], codes' = [codes EXCEPT ![i] = met(i)]
      PROVE  AccountsInv'
  <2>1. /\ i \in DOMAIN codes /\ codes[i].user = q.u /\ codes[i].purpose = Purpose(q.op)
        /\ ~codes[i].consumed /\ CodeOK(i) /\ codes \in Seq(Code)
    BY <1>2, <1>4 DEF OpenCodes, CodesOK
  <2> DEFINE r == taken(i)
             c == met(i)
             b == codes[i].raced \/ raced(i)
  <2>2. /\ DOMAIN r = Fields /\ r.pc = pc(i) /\ r.code = i /\ r.op = q.op /\ r.u = q.u
        /\ r.pw = q.pw /\ r.arg = q.arg /\ r.fresh = q.fresh
    BY <1>2 DEF Fields
  <2>3. /\ c \in Code /\ c.user = codes[i].user /\ c.purpose = codes[i].purpose
        /\ c.mailed = codes[i].mailed /\ c.attempts = codes[i].attempts
        /\ c.accepted = codes[i].accepted /\ c.consumed = codes[i].consumed /\ c.raced = b
    <3>1. b \in BOOLEAN /\ c = [codes[i] EXCEPT !.raced = b]
      BY <2>1, Coded
    <3>2. PICK e : e = codes[i]
      OBVIOUS
    <3>3. e \in Code
      BY <2>1, <3>2, Coded
    <3> HIDE DEF b, c
    <3>4. c = [e EXCEPT !.raced = b]
      BY <3>1, <3>2
    <3>5. /\ c \in Code /\ c.user = e.user /\ c.purpose = e.purpose
          /\ c.mailed = e.mailed /\ c.attempts = e.attempts
          /\ c.accepted = e.accepted /\ c.consumed = e.consumed /\ c.raced = b
      BY <3>1, <3>3, <3>4 DEF Code
    <3> QED BY <3>2, <3>5
  <2>4. pc(i) \in {"spend", "miss"} /\ (pc(i) = "spend" => q.arg = i)
    OBVIOUS
  <2>5. handlers' = [handlers EXCEPT ![h] = r] /\ codes' = [codes EXCEPT ![i] = c]
    BY <1>4
  <2>6. ~b => \A k \in Handlers \ {h} : ~(At(k, "spend") /\ handlers[k].code = i)
    OBVIOUS
  <2>7. b \in BOOLEAN /\ (~b => ~codes[i].raced)
    BY <2>1, Coded
  <2> HIDE DEF r, c, b, taken, met, raced, pc
  <2>8. /\ codes'[i] = c /\ i \in DOMAIN codes'
        /\ \A k \in Handlers : handlers'[k] = IF k = h THEN r ELSE handlers[k]
    BY <1>2, <2>1, <2>5
  <2>9. CodeOK(i)'
    <3>1. codes[i].attempts \in Nat /\ codes[i].accepted \in Nat
      BY <2>1, Coded
    <3>2. Missers(i)' \in SUBSET Handlers
      BY DEF Missers
    <3>3. Cardinality(Missers(i)') \in Nat /\ Cardinality(Missers(i)') <= Cardinality(Handlers)
          /\ Cardinality(Handlers) \in Nat
      BY <3>2, Crowd
    <3>4. c.attempts + Cardinality(Missers(i)') < MaxAttempts + Cardinality(Handlers)
      BY <1>4, <2>3, <3>1, <3>3, Numbers
    <3>5. codes[i].accepted = 0
      BY <2>1, <3>1 DEF CodeOK
    <3>6. ~c.raced => Spenders(i)' \subseteq {h}
      BY <2>3, <2>6, <2>8 DEF Spenders, At
    <3> QED BY <2>3, <2>8, <3>4, <3>5, <3>6 DEF CodeOK
  <2>10. CodesOK' /\ CodesStay(codes, codes')
    BY <2>1, <2>2, <2>3, <2>5, <2>9, OneCode
  <2>11. AtHand(r, users, codes')
    <3>1. /\ q.op \in {"verify_email", "reset_confirm"} /\ Said(q, users, codes)
          /\ users[q.u] # None /\ q.fresh \in BOOLEAN
      BY <1>1, <1>2 DEF AtHand, Ops, Read, Known
    <3>2. r.op \in Ops(r.pc)
      BY <2>2, <2>4, <3>1 DEF Ops
    <3>3. r.arg = 0 \/ (r.arg \in DOMAIN codes' /\ codes'[r.arg].mailed)
      BY <2>2, <2>10, <3>1 DEF Said, CodesStay
    <3>4. Said(r, users, codes')
      BY <2>2, <2>4, <3>1, <3>3 DEF Said
    <3>5. Read(r, users)
      BY <2>2, <2>4, <3>1 DEF Read, Holds, Status, Renewal
    <3>6. Spends(r, users, codes')
      BY <2>1, <2>2, <2>3, <2>4, <2>8, Zenon DEF Spends
    <3> QED BY <2>2, <3>2, <3>4, <3>5, <3>6 DEF AtHand
  <2> QED BY <1>0, <1>1, <2>2, <2>4, <2>5, <2>10, <2>11, CodeStep
<1>5. \/ Answers(h) /\ UNCHANGED codes
      \/ \E n \in OpenCodes(q.u, Purpose(q.op)) :
           /\ codes[n].attempts < MaxAttempts
           /\ handlers' = [handlers EXCEPT ![h] = taken(n)]
           /\ codes' = [codes EXCEPT ![n].raced = @ \/ raced(n)]
  BY <1>0 DEF ReadCode, Becomes
<1>6. \A n \in DOMAIN codes :
        [codes EXCEPT ![n].raced = @ \/ raced(n)] = [codes EXCEPT ![n] = met(n)]
  OBVIOUS
<1>7. \A n \in OpenCodes(q.u, Purpose(q.op)) : n \in DOMAIN codes
  BY DEF OpenCodes
<1> HIDE DEF taken, met, raced
<1>8. CASE \E n \in OpenCodes(q.u, Purpose(q.op)) :
             /\ codes[n].attempts < MaxAttempts
             /\ handlers' = [handlers EXCEPT ![h] = taken(n)]
             /\ codes' = [codes EXCEPT ![n].raced = @ \/ raced(n)]
  <2>1. PICK n \in OpenCodes(q.u, Purpose(q.op)) :
             /\ codes[n].attempts < MaxAttempts
             /\ handlers' = [handlers EXCEPT ![h] = taken(n)]
             /\ codes' = [codes EXCEPT ![n].raced = @ \/ raced(n)]
    BY <1>8
  <2>2. codes' = [codes EXCEPT ![n] = met(n)]
    BY <1>6, <1>7, <2>1
  <2> QED BY <1>4, <2>1, <2>2
<1> QED BY <1>3, <1>5, <1>8

\* issue takes back what was out, so the new code is the only live one; nobody
\* has it in hand yet.
LEMMA IssueKeeps ==
  ASSUME AccountsInv, NEW h \in Handlers, Issue(h)
  PROVE  AccountsInv'
<1>0. PICK q : q = handlers[h]
  OBVIOUS
<1>a. PICK l : l = Len(codes)
  OBVIOUS
<1> DEFINE p == Purpose(q.op)
           old == TakenBack(q.u, p)
           new == [user |-> q.u, purpose |-> p, at |-> now, attempts |-> 0, consumed |-> FALSE,
                   mailed |-> FALSE, accepted |-> 0, raced |-> FALSE]
           r == [q EXCEPT !.pc = "mail", !.code = l + 1]
<1>1. /\ q.pc = "issue" /\ codes' = Append(old, new) /\ handlers' = [handlers EXCEPT ![h] = r]
      /\ UNCHANGED <<scene, now, users, cache, tickets, loginGuard, adminGuard, demotions, started>>
  BY <1>0, <1>a DEF Issue, At, Becomes, guards
<1>2. /\ AtHand(q, users, codes) /\ DOMAIN q = Fields /\ CodesOK /\ DOMAIN handlers = Handlers
      /\ now \in Nat
  BY <1>0, Hands DEF AccountsInv, HandlersOK
<1>3. /\ q.op \in {"register", "resend", "reset_request"} /\ Said(q, users, codes) /\ q.u \in Users
      /\ q.fresh \in BOOLEAN
  BY <1>1, <1>2 DEF AtHand, Ops, Said, Read
<1>4. p \in Purposes
  BY DEF Purpose, Purposes
<1>5. codes \in Seq(Code) /\ l \in Nat /\ DOMAIN codes = 1..l
  BY <1>2, <1>a DEF CodesOK
<1>6. /\ DOMAIN old = 1..l
      /\ \A n \in 1..l :
           old[n] = IF codes[n].user = q.u /\ codes[n].purpose = p
                    THEN [codes[n] EXCEPT !.consumed = TRUE] ELSE codes[n]
  BY <1>5 DEF TakenBack
<1>7. ASSUME NEW n \in 1..l
      PROVE  /\ old[n] \in Code /\ old[n].user = codes[n].user /\ old[n].purpose = codes[n].purpose
             /\ old[n].mailed = codes[n].mailed /\ old[n].attempts = codes[n].attempts
             /\ old[n].accepted = codes[n].accepted /\ old[n].raced = codes[n].raced
             /\ codes[n].consumed => old[n].consumed
             /\ codes[n].user = q.u /\ codes[n].purpose = p => old[n].consumed
  <2>1. PICK e : e = codes[n]
    OBVIOUS
  <2>2. e \in Code
    BY <1>5, <2>1, Coded
  <2>3. old[n] = IF e.user = q.u /\ e.purpose = p THEN [e EXCEPT !.consumed = TRUE] ELSE e
    BY <1>6, <2>1
  <2>4. PICK c : c = old[n]
    OBVIOUS
  <2> HIDE DEF old, p
  <2>5. /\ c \in Code /\ c.user = e.user /\ c.purpose = e.purpose
        /\ c.mailed = e.mailed /\ c.attempts = e.attempts
        /\ c.accepted = e.accepted /\ c.raced = e.raced
        /\ e.consumed => c.consumed
        /\ e.user = q.u /\ e.purpose = p => c.consumed
    BY <2>2, <2>3, <2>4 DEF Code
  <2> QED BY <2>1, <2>4, <2>5
<1>8. /\ new \in Code /\ new.user = q.u /\ new.purpose = p /\ new.attempts = 0
      /\ new.accepted = 0 /\ ~new.consumed /\ ~new.raced
  BY <1>2, <1>3, <1>4 DEF Code
<1>9. /\ DOMAIN r = Fields /\ r.pc = "mail" /\ r.code = l + 1 /\ r.op = q.op /\ r.u = q.u
      /\ r.pw = q.pw /\ r.arg = q.arg /\ r.fresh = q.fresh
  BY <1>2 DEF Fields
<1> HIDE DEF old, new, p, r
<1>10. old \in Seq(Code) /\ Len(old) = l
  <2>1. old \in [1..l -> Code]
    <3>1. old = [n \in 1..l |-> old[n]]
      BY <1>5, <1>6 DEF old, TakenBack
    <3> QED BY <1>7, <3>1
  <2> QED BY <1>5, <2>1
<1>11. /\ codes' \in Seq(Code) /\ DOMAIN codes' = 1..(l + 1) /\ codes'[l + 1] = new
       /\ \A n \in 1..l : codes'[n] = old[n]
  BY <1>1, <1>5, <1>8, <1>10
<1>12. CodesStay(codes, codes')
  BY <1>5, <1>7, <1>11 DEF CodesStay
<1>13. \A k \in Handlers : handlers'[k] = IF k = h THEN r ELSE handlers[k]
  BY <1>1, <1>2
<1>14. ASSUME NEW n \in DOMAIN codes'
       PROVE  CodeOK(n)'
  <2>1. Missers(n)' \subseteq Missers(n) /\ Spenders(n)' \subseteq Spenders(n)
        /\ Missers(n) \in SUBSET Handlers
    BY <1>9, <1>13 DEF Missers, Spenders, At
  <2>2. /\ Cardinality(Missers(n)) \in Nat /\ Cardinality(Missers(n)') \in Nat
        /\ Cardinality(Missers(n)') <= Cardinality(Missers(n)) /\ Cardinality(Handlers) \in Nat
        /\ Cardinality(Missers(n)) <= Cardinality(Handlers)
    BY <2>1, Crowd
  <2>3. CASE n \in 1..l
    <3>1. CodeOK(n) /\ codes[n].attempts \in Nat
      BY <1>2, <1>5, <2>3, Coded DEF CodesOK
    <3>2. codes'[n].attempts + Cardinality(Missers(n)') < MaxAttempts + Cardinality(Handlers)
      <4>1. codes'[n].attempts = codes[n].attempts
        BY <1>7, <1>11, <2>3
      <4>2. codes[n].attempts + Cardinality(Missers(n)) < MaxAttempts + Cardinality(Handlers)
        BY <3>1 DEF CodeOK
      <4> QED BY <2>2, <3>1, <4>1, <4>2, Numbers
    <3> QED BY <1>7, <1>11, <2>1, <2>3, <3>1, <3>2 DEF CodeOK
  <2>4. CASE n = l + 1
    <3>1. codes'[n].attempts + Cardinality(Missers(n)') < MaxAttempts + Cardinality(Handlers)
      BY <1>8, <1>11, <2>2, <2>4, Numbers
    <3>2. Spenders(n) = {}
      <4>1. \A k \in Handlers : handlers[k].pc = "spend" => handlers[k].code \in 1..l
        BY <1>5 DEF AccountsInv, HandlersOK, AtHand, Spends
      <4>2. n \notin 1..l
        BY <1>5, <2>4
      <4> QED BY <4>1, <4>2 DEF Spenders, At
    <3> QED BY <1>8, <1>11, <2>1, <2>4, <3>1, <3>2 DEF CodeOK
  <2> QED BY <1>5, <1>11, <2>3, <2>4
<1>15. ASSUME NEW u \in Users, NEW pp \in Purposes, NEW m \in DOMAIN codes', NEW n \in DOMAIN codes',
              Live(m, u, pp)', Live(n, u, pp)'
       PROVE  m = n
  <2>1. \A k \in 1..l : Live(k, u, pp)' => Live(k, u, pp) /\ ~(u = q.u /\ pp = p)
    BY <1>7, <1>11 DEF Live
  <2>2. Live(l + 1, u, pp)' => u = q.u /\ pp = p
    BY <1>8, <1>11 DEF Live
  <2>3. \A k \in DOMAIN codes' : k \in 1..l \/ k = l + 1
    BY <1>5, <1>11
  <2>4. \A j, k \in 1..l : Live(j, u, pp) /\ Live(k, u, pp) => j = k
    BY <1>2, <1>5 DEF CodesOK
  <2> QED BY <1>15, <2>1, <2>2, <2>3, <2>4
<1>16. CodesOK'
  BY <1>11, <1>14, <1>15 DEF CodesOK
<1>17. AtHand(r, users, codes')
  <2>1. r.op \in Ops(r.pc)
    BY <1>3, <1>9 DEF Ops
  <2>2. Said(r, users, codes')
    BY <1>3, <1>9 DEF Said
  <2>3. Read(r, users)
    BY <1>3, <1>9 DEF Read, Known, Holds, Status, Renewal
  <2>4. l + 1 \in DOMAIN codes'
    BY <1>5, <1>11
  <2> QED BY <1>9, <2>1, <2>2, <2>3, <2>4 DEF AtHand, Spends
<1> QED BY <1>0, <1>1, <1>9, <1>12, <1>16, <1>17, CodeStep

-----------------------------------------------------------------------------
(***************************************************************************)
(* Writes to a row                                                         *)
(***************************************************************************)
\* What the handlers have after a write: the one that wrote goes on, the others
\* keep everything, but a copy of that row is not fresh any more.
LEMMA Written ==
  ASSUME AccountsInv, NEW h \in Handlers, NEW row \in Row, NEW next, Writes(h, row, next)
  PROVE  /\ row.id \in Users /\ row # None
         /\ users' \in [Users -> Row \cup {None}]
         /\ \A u \in Users : users'[u] = IF u = row.id THEN row ELSE users[u]
         /\ DOMAIN handlers' = Handlers /\ handlers'[h] = next
         /\ \A k \in Handlers \ {h} :
              /\ handlers'[k].op = handlers[k].op /\ handlers'[k].pc = handlers[k].pc
              /\ handlers'[k].u = handlers[k].u /\ handlers'[k].arg = handlers[k].arg
              /\ handlers'[k].code = handlers[k].code
<1>1. row.id \in Users /\ row # None
  BY AccountsAssumption DEF Row
<1>2. users \in [Users -> Row \cup {None}]
  BY DEF AccountsInv, UsersOK
<1>3. /\ users' \in [Users -> Row \cup {None}]
      /\ \A u \in Users : users'[u] = IF u = row.id THEN row ELSE users[u]
  BY <1>1, <1>2 DEF Writes
<1>4. DOMAIN handlers' = Handlers /\ handlers'[h] = next
  BY DEF Writes
<1>5. ASSUME NEW k \in Handlers \ {h}
      PROVE  /\ handlers'[k].op = handlers[k].op /\ handlers'[k].pc = handlers[k].pc
             /\ handlers'[k].u = handlers[k].u /\ handlers'[k].arg = handlers[k].arg
             /\ handlers'[k].code = handlers[k].code
  <2>1. PICK q : q = handlers[k]
    OBVIOUS
  <2> DEFINE b == q.fresh /\ (q.row = None \/ q.row.id # row.id)
  <2>2. handlers'[k] = [q EXCEPT !.fresh = b]
    BY <2>1 DEF Writes
  <2>3. DOMAIN q = Fields
    BY <2>1, Hands
  <2> HIDE DEF b
  <2> QED BY <2>1, <2>2, <2>3 DEF Fields
<1> QED BY <1>1, <1>3, <1>4, <1>5

LEMMA WriteStep ==
  ASSUME AccountsInv, NEW h \in Handlers, NEW row \in Row, NEW next, Writes(h, row, next),
         UNCHANGED <<scene, now, codes, tickets, loginGuard, adminGuard, demotions, started>>,
         users[row.id] # None =>
           /\ row.by = users[row.id].by
           /\ \/ row.revoked = now
              \/ row.revoked = users[row.id].revoked /\ row.password = users[row.id].password,
         row.verified => row.status # "pending" /\ (row.by = "self" => Proof(row.id, codes)),
         AtHand(next, users', codes),
         next.pc \notin {"miss", "spend", "find", "failure", "success"},
         CacheOK', AdminsOK'
  PROVE  AccountsInv'
<1>1. /\ BasicsOK /\ HandlersOK /\ UsersOK /\ CodesOK /\ TicketsOK /\ GuardsOK
  BY DEF AccountsInv
<1>2. now \in Nat /\ now <= now /\ BasicsOK'
  BY <1>1 DEF BasicsOK
<1>3. /\ row.id \in Users /\ row # None
      /\ users' \in [Users -> Row \cup {None}]
      /\ \A u \in Users : users'[u] = IF u = row.id THEN row ELSE users[u]
      /\ DOMAIN handlers' = Handlers /\ handlers'[h] = next
      /\ \A k \in Handlers \ {h} :
           /\ handlers'[k].op = handlers[k].op /\ handlers'[k].pc = handlers[k].pc
           /\ handlers'[k].u = handlers[k].u /\ handlers'[k].arg = handlers[k].arg
           /\ handlers'[k].code = handlers[k].code
  BY Written
<1>4. RowsStay(users, users')
  BY <1>3 DEF RowsStay
<1>5. ASSUME NEW k \in Handlers \ {h}
      PROVE  AtHand(handlers'[k], users', codes)
  <2>1. PICK q : q = handlers[k]
    OBVIOUS
  <2> DEFINE b == q.fresh /\ (q.row = None \/ q.row.id # row.id)
             p == [q EXCEPT !.fresh = b]
  <2>2. handlers'[k] = p
    BY <2>1 DEF Writes
  <2>3. AtHand(q, users, codes) /\ DOMAIN q = Fields
    BY <2>1, Hands
  <2>4. b \in BOOLEAN /\ (b => q.fresh)
    BY <2>3 DEF AtHand, Read
  <2>5. b => q.row = None \/ q.row.id # row.id
    OBVIOUS
  <2>6. p.fresh = b /\ p.row = q.row /\ p.pc = q.pc /\ p.op = q.op /\ p.ticket = q.ticket
        /\ p.u = q.u
    BY <2>3 DEF Fields
  <2> HIDE DEF b
  <2>7. AtHand(p, users, codes)
    BY <2>3, <2>4, HandOvertaken
  <2> HIDE DEF p
  <2>8. Holds(p) /\ p.fresh => users'[p.row.id] = users[p.row.id]
    <3>1. SUFFICES ASSUME Holds(p), p.fresh
                   PROVE  users'[p.row.id] = users[p.row.id]
      OBVIOUS
    <3>2. p.row \in Row
      BY <2>7, <3>1 DEF AtHand, Read
    <3>3. p.row # None /\ p.row.id \in Users
      BY <3>2, AccountsAssumption DEF Row
    <3> QED BY <1>3, <2>5, <2>6, <3>1, <3>3
  <2>9. users \in [Users -> Row \cup {None}]
    BY <1>1 DEF UsersOK
  <2>10. AtHand(p, users', codes)
    BY <1>4, <2>7, <2>8, <2>9, SameCodes, HandKeeps
  <2> QED BY <2>2, <2>10
<1>6. HandlersOK'
  <2>1. \A k \in Handlers : AtHand(handlers'[k], users', codes)
    BY <1>3, <1>5
  <2> QED BY <1>3, <2>1 DEF HandlersOK
<1>7. UsersOK'
  <2>1. \A u \in Users : users'[u] # None =>
          /\ users'[u].id = u
          /\ users'[u].verified =>
               users'[u].status # "pending" /\ (users'[u].by = "self" => Proof(u, codes))
    BY <1>1, <1>3 DEF UsersOK
  <2> QED BY <1>3, <2>1 DEF UsersOK
<1>8. CodesOK'
  BY <1>1, <1>3, CodesRest
<1>9. GuardsOK'
  <2>1. GuardOK(adminGuard)'
    BY <1>1 DEF GuardsOK, GuardOK
  <2> QED BY <1>1, <1>2, <1>3, <2>1, GuardsRest
<1>10. TicketsOK'
  <2>1. ASSUME NEW t \in tickets
        PROVE  /\ users'[t.user] # None /\ t.iat <= now
               /\ InForce(t)' => t.pw \in {None, users'[t.user].password} \/ t.overlap
    <3>1. /\ t \in Ticket /\ t.user \in Users /\ users[t.user] # None /\ t.iat <= now
          /\ t.iat \in Int
          /\ InForce(t) => t.pw \in {None, users[t.user].password} \/ t.overlap
      BY <1>1 DEF TicketsOK, TicketsFollowPassword, Ticket
    <3>2. CASE t.user # row.id
      BY <1>3, <3>1, <3>2 DEF InForce, Expired, RevokedAt
    <3>3. CASE t.user = row.id /\ row.revoked = now
      <4>1. RevokedAt(t, now)
        BY <1>2, <3>1 DEF RevokedAt, Never
      <4>2. ~InForce(t)'
        BY <1>3, <3>1, <3>3, <4>1 DEF InForce, RevokedAt
      <4> QED BY <1>3, <3>1, <3>3, <4>2
    <3>4. CASE /\ t.user = row.id /\ row.revoked = users[row.id].revoked
               /\ row.password = users[row.id].password
      BY <1>3, <3>1, <3>4 DEF InForce, Expired, RevokedAt
    <3> QED BY <3>1, <3>2, <3>3, <3>4
  <2> QED BY <1>1, <2>1 DEF TicketsOK, TicketsFollowPassword
<1> QED BY <1>2, <1>6, <1>7, <1>8, <1>9, <1>10 DEF AccountsInv

\* Who writes a row is on his way to the cache, unless the row is new.
LEMMA WriteCache ==
  ASSUME AccountsInv, NEW h \in Handlers, NEW row \in Row, NEW next, Writes(h, row, next),
         cache' = cache,
         users[row.id] = None \/ (next.u = row.id /\ next.pc \in {"invalidate", "revoke"}),
         handlers[h].pc \in {"invalidate", "revoke"} =>
           next.u = handlers[h].u /\ next.pc \in {"invalidate", "revoke"}
  PROVE  CacheOK'
<1>1. CacheOK
  BY DEF AccountsInv
<1>2. \A u \in Users : Invalidating(u) => Invalidating(u)'
  BY Written DEF Invalidating
<1>3. users[row.id] # None => Invalidating(row.id)'
  <2>1. handlers'[h] = next
    BY Written
  <2> QED BY <2>1 DEF Invalidating
<1>4. \A u \in Users : cache'[u] # None => users'[u] # None
  BY <1>1, Written DEF CacheOK
<1>5. CacheTellsTheTruth'
  <2>1. \A u \in Users : cache[u] # None =>
          \/ cache[u].value = CachedUser(users'[u]) \/ cache[u].excused \/ Invalidating(u)'
    BY <1>1, <1>2, <1>3, Written DEF CacheOK, CacheTellsTheTruth
  <2>2. \A u \in Users : CachedUser(users[u])' = CachedUser(users'[u])
    BY DEF CachedUser
  <2> QED BY <2>1, <2>2 DEF CacheTellsTheTruth
<1> QED BY <1>1, <1>4, <1>5 DEF CacheOK

\* A write that takes nobody's role.
LEMMA WriteAdmins ==
  ASSUME AccountsInv, NEW h \in Handlers, NEW row \in Row, NEW next, Writes(h, row, next),
         demotions' = demotions, users[row.id] = None \/ row.role = users[row.id].role,
         next.pc # "role"
  PROVE  AdminsOK'
<1>1. Administrators \subseteq Administrators'
  BY Written DEF Administrators
<1>2. Demoting' \subseteq Demoting
  BY Written DEF Demoting, At
<1> QED BY <1>1, <1>2 DEF AccountsInv, AdminsOK

\* A handler that wrote the row of its user, and has only to tell of it.
LEMMA Tells ==
  ASSUME NEW q, NEW us, NEW vs, NEW cs, AtHand(q, us, cs), q.pc # "idle", vs[q.u] # None,
         NEW pc \in {"invalidate", "revoke", "created"}, q.op \in Ops(pc),
         q.op # "change_password", NEW r, r = [q EXCEPT !.pc = pc]
  PROVE  AtHand(r, vs, cs) /\ r.pc = pc /\ r.u = q.u /\ r.op = q.op
<1>1. DOMAIN q = Fields /\ Said(q, us, cs) /\ q.fresh \in BOOLEAN
  BY DEF AtHand, Read
<1>2. /\ DOMAIN r = Fields /\ r.pc = pc /\ r.op = q.op /\ r.u = q.u /\ r.ticket = q.ticket
      /\ r.pw = q.pw /\ r.arg = q.arg /\ r.row = q.row /\ r.code = q.code
      /\ r.fresh = q.fresh
  BY <1>1, Placed
<1>3. r.op \in Ops(r.pc) /\ Said(r, vs, cs)
  BY <1>1, <1>2 DEF Said
<1>4. Read(r, vs)
  BY <1>1, <1>2 DEF Read, Holds, Status, Renewal
<1>5. AtHand(r, vs, cs) /\ r.pc = pc /\ r.u = q.u /\ r.op = q.op
  BY <1>2, <1>3, <1>4 DEF AtHand, Spends
<1> QED BY <1>5

LEMMA SetRoleKeeps ==
  ASSUME AccountsInv, NEW h \in Handlers, SetRole(h)
  PROVE  AccountsInv'
<1>0. PICK q : q = handlers[h]
  OBVIOUS
<1>a. PICK u : u = q.u
  OBVIOUS
<1> DEFINE row == [users[u] EXCEPT !.role = q.arg]
           next == [q EXCEPT !.pc = "invalidate"]
<1>1. /\ q.pc = "role" /\ Writes(h, row, next)
      /\ UNCHANGED <<scene, now, codes, cache, tickets, loginGuard, adminGuard, demotions, started>>
  BY <1>0, <1>a DEF SetRole, At, guards
<1>2. /\ AtHand(q, users, codes) /\ DOMAIN q = Fields /\ DOMAIN handlers = Handlers /\ UsersOK
      /\ AdminsOK
  BY <1>0, Hands DEF AccountsInv, HandlersOK
<1>3. u \in Users /\ q.op = "set_role" /\ q.arg \in Roles /\ users[u] # None
  BY <1>1, <1>2, <1>a DEF AtHand, Ops, Said, Read, Known
<1>4. users[u] \in Row /\ users[u].id = u
  BY <1>2, <1>3 DEF UsersOK
<1>5. /\ row \in Row /\ row.id = u /\ row.role = q.arg /\ row.by = users[u].by
      /\ row.revoked = users[u].revoked /\ row.password = users[u].password
      /\ row.verified = users[u].verified /\ row.status = users[u].status
  BY <1>3, <1>4 DEF Row
<1> HIDE DEF row
<1>6. users'[u] = row /\ row # None
  BY <1>1, <1>3, <1>5, Written
<1>7. AtHand(next, users', codes) /\ next.pc = "invalidate" /\ next.u = u /\ q.op \in Ops("invalidate")
  <2>1. q.op \in Ops("invalidate")
    BY <1>3 DEF Ops
  <2>2. /\ AtHand(q, users, codes) /\ q.pc # "idle" /\ users'[q.u] # None
        /\ q.op # "change_password"
    BY <1>1, <1>2, <1>3, <1>6, <1>a
  <2>3. next = [q EXCEPT !.pc = "invalidate"]
    OBVIOUS
  <2> HIDE DEF next
  <2>4. AtHand(next, users', codes) /\ next.pc = "invalidate" /\ next.u = q.u
    BY <2>1, <2>2, <2>3, Tells
  <2> QED BY <1>a, <2>1, <2>4
<1> HIDE DEF next
<1>8. CacheOK'
  BY <1>0, <1>1, <1>5, <1>7, WriteCache
<1>9. AdminsOK'
  <2>1. \A v \in Users : v # u => (v \in Administrators <=> v \in Administrators')
    BY <1>1, <1>5, Written DEF Administrators
  <2>2. Demoting' = Demoting \ {h}
    BY <1>0, <1>1, <1>5, <1>7, Written DEF Demoting, At
  <2>3. CASE q.arg = "admin"
    <3>1. Administrators \subseteq Administrators'
      BY <1>3, <1>5, <1>6, <2>1, <2>3 DEF Administrators
    <3> QED BY <1>1, <1>2, <2>2, <3>1 DEF AdminsOK
  <2>4. CASE q.arg = "user"
    <3>1. h \in Demoting
      BY <1>0, <1>1, <2>4 DEF Demoting, At
    <3>2. \A v \in Administrators : v \in Users
      BY DEF Administrators
    <3>3. ~demotions => Demoting' = {} /\ Administrators' # {}
      BY <1>2, <2>1, <2>2, <3>1, <3>2 DEF AdminsOK
    <3> QED BY <1>1, <3>3 DEF AdminsOK
  <2> QED BY <1>3, <2>3, <2>4 DEF Roles
<1>10. row.verified => row.status # "pending" /\ (row.by = "self" => Proof(u, codes))
  BY <1>2, <1>3, <1>5 DEF UsersOK
<1> QED BY <1>1, <1>5, <1>7, <1>8, <1>9, <1>10, WriteStep

LEMMA SetStatusKeeps ==
  ASSUME AccountsInv, NEW h \in Handlers, SetStatus(h)
  PROVE  AccountsInv'
<1>0. PICK q : q = handlers[h]
  OBVIOUS
<1>a. PICK u : u = q.u
  OBVIOUS
<1> DEFINE row == [users[u] EXCEPT !.status = q.arg]
           pc == IF q.arg = "disabled" /\ q.op # "login" THEN "revoke" ELSE "invalidate"
           next == [q EXCEPT !.pc = pc]
<1>1. /\ q.pc = "status" /\ Writes(h, row, next)
      /\ UNCHANGED <<scene, now, codes, cache, tickets, loginGuard, adminGuard, demotions, started>>
  BY <1>0, <1>a DEF SetStatus, At, guards
<1>2. /\ AtHand(q, users, codes) /\ DOMAIN q = Fields /\ DOMAIN handlers = Handlers /\ UsersOK
  BY <1>0, Hands DEF AccountsInv, HandlersOK
<1>3. /\ u \in Users /\ q.op \in {"login", "disable", "enable", "set_status"}
      /\ q.arg \in {"active", "disabled"} /\ users[u] # None
      /\ q.op = "enable" => q.arg = "active"
  BY <1>1, <1>2, <1>a DEF AtHand, Ops, Said, Read, Known
<1>4. users[u] \in Row /\ users[u].id = u
  BY <1>2, <1>3 DEF UsersOK
<1>5. /\ row \in Row /\ row.id = u /\ row.role = users[u].role /\ row.by = users[u].by
      /\ row.revoked = users[u].revoked /\ row.password = users[u].password
      /\ row.verified = users[u].verified /\ row.status # "pending"
  BY <1>3, <1>4 DEF Row, Statuses
<1> HIDE DEF row
<1>6. users'[u] = row /\ row # None
  BY <1>1, <1>3, <1>5, Written
<1>7. AtHand(next, users', codes) /\ next.pc \in {"invalidate", "revoke"} /\ next.u = u
  <2>1. pc \in {"invalidate", "revoke"} /\ q.op \in Ops(pc)
    BY <1>3 DEF Ops
  <2> HIDE DEF pc
  <2>2. /\ AtHand(q, users, codes) /\ q.pc # "idle" /\ users'[q.u] # None
        /\ q.op # "change_password"
    BY <1>1, <1>2, <1>3, <1>6, <1>a
  <2>3. next = [q EXCEPT !.pc = pc]
    OBVIOUS
  <2> HIDE DEF next
  <2>4. AtHand(next, users', codes) /\ next.pc = pc /\ next.u = q.u
    BY <2>1, <2>2, <2>3, Tells
  <2> QED BY <1>a, <2>1, <2>4
<1> HIDE DEF next
<1>8. CacheOK' /\ AdminsOK'
  BY <1>0, <1>1, <1>5, <1>7, WriteCache, WriteAdmins
<1>9. row.verified => row.status # "pending" /\ (row.by = "self" => Proof(u, codes))
  BY <1>2, <1>3, <1>5 DEF UsersOK
<1> QED BY <1>1, <1>5, <1>7, <1>8, <1>9, WriteStep

LEMMA RevokeKeeps ==
  ASSUME AccountsInv, NEW h \in Handlers, Revoke(h)
  PROVE  AccountsInv'
<1>0. PICK q : q = handlers[h]
  OBVIOUS
<1>a. PICK u : u = q.u
  OBVIOUS
<1> DEFINE row == [users[u] EXCEPT !.revoked = now]
           next == [q EXCEPT !.pc = "invalidate"]
<1>1. /\ q.pc = "revoke" /\ Writes(h, row, next)
      /\ UNCHANGED <<scene, now, codes, cache, tickets, loginGuard, adminGuard, demotions, started>>
  BY <1>0, <1>a DEF Revoke, At, guards
<1>2. /\ AtHand(q, users, codes) /\ DOMAIN q = Fields /\ DOMAIN handlers = Handlers /\ UsersOK
      /\ now \in Nat
  BY <1>0, Hands DEF AccountsInv, HandlersOK
<1>3. u \in Users /\ q.op \in {"disable", "set_status"} /\ users[u] # None
  BY <1>1, <1>2, <1>a DEF AtHand, Ops, Said, Read, Known
<1>4. users[u] \in Row /\ users[u].id = u
  BY <1>2, <1>3 DEF UsersOK
<1>5. /\ row \in Row /\ row.id = u /\ row.role = users[u].role /\ row.by = users[u].by
      /\ row.revoked = now /\ row.verified = users[u].verified /\ row.status = users[u].status
  BY <1>2, <1>4 DEF Row
<1> HIDE DEF row
<1>6. users'[u] = row /\ row # None
  BY <1>1, <1>3, <1>5, Written
<1>7. AtHand(next, users', codes) /\ next.pc = "invalidate" /\ next.u = u
  <2>1. q.op \in Ops("invalidate")
    BY <1>3 DEF Ops
  <2>2. /\ AtHand(q, users, codes) /\ q.pc # "idle" /\ users'[q.u] # None
        /\ q.op # "change_password"
    BY <1>1, <1>2, <1>3, <1>6, <1>a
  <2>3. next = [q EXCEPT !.pc = "invalidate"]
    OBVIOUS
  <2> HIDE DEF next
  <2>4. AtHand(next, users', codes) /\ next.pc = "invalidate" /\ next.u = q.u
    BY <2>1, <2>2, <2>3, Tells
  <2> QED BY <1>a, <2>4
<1> HIDE DEF next
<1>8. CacheOK' /\ AdminsOK'
  BY <1>0, <1>1, <1>5, <1>7, <1>a, WriteCache, WriteAdmins
<1>9. row.verified => row.status # "pending" /\ (row.by = "self" => Proof(u, codes))
  BY <1>2, <1>3, <1>5 DEF UsersOK
<1> QED BY <1>1, <1>5, <1>7, <1>8, <1>9, WriteStep

\* The new row is in hand, for the ticket that comes with it.
LEMMA WritePasswordKeeps ==
  ASSUME AccountsInv, NEW h \in Handlers, WritePassword(h)
  PROVE  AccountsInv'
<1>0. PICK q : q = handlers[h]
  OBVIOUS
<1>a. PICK u : u = q.u
  OBVIOUS
<1>b. PICK row : row = SetPassword(users[u], q.pw)
  OBVIOUS
<1> DEFINE next == [q EXCEPT !.pc = "invalidate", !.row = row, !.fresh = TRUE]
<1>1. /\ q.pc = "password" /\ Writes(h, row, next)
      /\ UNCHANGED <<scene, now, codes, cache, tickets, loginGuard, adminGuard, demotions, started>>
  BY <1>0, <1>a, <1>b DEF WritePassword, At, guards
<1>2. /\ AtHand(q, users, codes) /\ DOMAIN q = Fields /\ DOMAIN handlers = Handlers /\ UsersOK
      /\ now \in Nat
  BY <1>0, Hands DEF AccountsInv, HandlersOK
<1>3. /\ u \in Users /\ q.op \in {"reset_confirm", "change_password"} /\ users[u] # None
      /\ q.pw \in Passwords /\ Said(q, users, codes)
  BY <1>1, <1>2, <1>a DEF AtHand, Ops, Said, Read, Known
<1>4. users[u] \in Row /\ users[u].id = u
  BY <1>2, <1>3 DEF UsersOK
<1>5. /\ row \in Row /\ row.id = u /\ row.role = users[u].role /\ row.by = users[u].by
      /\ row.revoked = now /\ row.verified = users[u].verified /\ row.status = users[u].status
      /\ row.password = q.pw
  <2>1. PICK e : e = users[u]
    OBVIOUS
  <2>2. PICK n : n = now
    OBVIOUS
  <2>3. e \in Row /\ n \in Int /\ row = [e EXCEPT !.password = q.pw, !.revoked = n]
    BY <1>2, <1>4, <1>b, <2>1, <2>2 DEF SetPassword
  <2>4. /\ row \in Row /\ row.id = e.id /\ row.role = e.role /\ row.by = e.by
        /\ row.revoked = n /\ row.verified = e.verified /\ row.status = e.status
        /\ row.password = q.pw
    BY <1>3, <2>3 DEF Row
  <2> QED BY <1>4, <2>1, <2>2, <2>4
<1>6. users'[u] = row /\ row # None
  BY <1>1, <1>3, <1>5, Written
<1>7. AtHand(next, users', codes) /\ next.pc = "invalidate" /\ next.u = u
  <2>1. /\ DOMAIN next = Fields /\ next.pc = "invalidate" /\ next.op = q.op /\ next.u = u
        /\ next.pw = q.pw /\ next.arg = q.arg /\ next.row = row /\ next.fresh = TRUE
    BY <1>2, <1>a DEF Fields
  <2> HIDE DEF next
  <2>2. next.op \in Ops(next.pc)
    BY <1>3, <2>1 DEF Ops
  <2>3. Said(next, users', codes)
    BY <1>3, <1>a, <2>1 DEF Said
  <2>4. Read(next, users')
    BY <1>5, <1>6, <2>1 DEF Read, Holds, Status, Renewal
  <2> QED BY <2>1, <2>2, <2>3, <2>4 DEF AtHand, Spends
<1> HIDE DEF next
<1>8. CacheOK' /\ AdminsOK'
  BY <1>0, <1>1, <1>5, <1>7, WriteCache, WriteAdmins
<1>9. row.verified => row.status # "pending" /\ (row.by = "self" => Proof(u, codes))
  BY <1>2, <1>3, <1>5 DEF UsersOK
<1> QED BY <1>1, <1>5, <1>7, <1>8, <1>9, WriteStep

LEMMA VerifyKeeps ==
  ASSUME AccountsInv, NEW h \in Handlers, Verify(h)
  PROVE  AccountsInv'
<1>0. PICK q : q = handlers[h]
  OBVIOUS
<1>a. PICK u : u = q.u
  OBVIOUS
<1>b. PICK row : row = MarkVerified(users[u])
  OBVIOUS
<1> DEFINE created == q.op = "create_user"
           next == IF created THEN Idle ELSE [q EXCEPT !.pc = "invalidate"]
<1>1. /\ q.pc = "verify" /\ Writes(h, row, next)
      /\ cache' = IF created /\ cache[u] # None THEN [cache EXCEPT ![u].excused = TRUE] ELSE cache
      /\ UNCHANGED <<scene, now, codes, tickets, loginGuard, adminGuard, demotions, started>>
  BY <1>0, <1>a, <1>b DEF Verify, At, guards
<1>2. /\ AtHand(q, users, codes) /\ DOMAIN q = Fields /\ DOMAIN handlers = Handlers /\ UsersOK
      /\ CacheOK
  BY <1>0, Hands DEF AccountsInv, HandlersOK
<1>3. /\ u \in Users /\ q.op \in {"verify_email", "create_user"} /\ users[u] # None
      /\ IF created THEN users[u].by = "admin" ELSE Proof(u, codes)
  BY <1>1, <1>2, <1>a DEF AtHand, Ops, Said, Read, Known, Spends
<1>4. users[u] \in Row /\ users[u].id = u
  BY <1>2, <1>3 DEF UsersOK
<1>5. /\ row \in Row /\ row.id = u /\ row.role = users[u].role /\ row.by = users[u].by
      /\ row.revoked = users[u].revoked /\ row.password = users[u].password
      /\ row.status # "pending"
  <2>1. PICK e : e = users[u]
    OBVIOUS
  <2> DEFINE s == IF e.status = "pending" THEN "active" ELSE e.status
  <2>2. e \in Row /\ row = [e EXCEPT !.verified = TRUE, !.status = s]
    BY <1>4, <1>b, <2>1 DEF MarkVerified, Row
  <2>3. s \in Statuses /\ s # "pending"
    BY <2>2 DEF Row, Statuses
  <2> HIDE DEF s
  <2>4. /\ row \in Row /\ row.id = e.id /\ row.role = e.role /\ row.by = e.by
        /\ row.revoked = e.revoked /\ row.password = e.password
        /\ row.status = s
    BY <2>2, <2>3 DEF Row
  <2> QED BY <1>4, <2>1, <2>3, <2>4
<1>6. users'[u] = row /\ row # None
  BY <1>1, <1>3, <1>5, Written
<1>7. /\ AtHand(next, users', codes)
      /\ IF created THEN next.pc = "idle" ELSE next.pc = "invalidate" /\ next.u = u
  <2>1. CASE created
    BY <2>1, IdleHand
  <2>2. CASE ~created
    <3>1. q.op \in Ops("invalidate") /\ q.op # "change_password"
      BY <1>3, <2>2 DEF Ops
    <3>2. next = [q EXCEPT !.pc = "invalidate"]
      BY <2>2
    <3>3. AtHand(q, users, codes) /\ q.pc # "idle" /\ users'[q.u] # None
      BY <1>1, <1>2, <1>6, <1>a
    <3> HIDE DEF next
    <3>4. AtHand(next, users', codes) /\ next.pc = "invalidate" /\ next.u = q.u
      BY <3>1, <3>2, <3>3, Tells
    <3> QED BY <1>a, <2>2, <3>4
  <2> QED BY <2>1, <2>2
<1> HIDE DEF next
<1>8. AdminsOK'
  BY <1>1, <1>5, <1>7, WriteAdmins
<1>9. CacheOK'
  <2>1. CASE ~created
    BY <1>0, <1>1, <1>5, <1>7, <2>1, WriteCache
  <2>2. CASE created
    <3>1. \A v \in Users : v # u /\ Invalidating(v) => Invalidating(v)'
      BY <1>0, <1>1, <1>5, <1>a, Written DEF Invalidating
    <3>2. \A v \in Users : users'[v] = IF v = u THEN row ELSE users[v]
      BY <1>1, <1>5, Written
    <3>3. cache \in [Users -> Entry \cup {None}]
      BY <1>2 DEF CacheOK
    <3>4. CASE cache[u] = None
      <4>1. CacheTellsTheTruth'
        BY <1>1, <1>2, <3>1, <3>2, <3>4 DEF CacheOK, CacheTellsTheTruth, CachedUser
      <4> QED BY <1>1, <1>2, <1>6, <3>2, <3>4, <4>1 DEF CacheOK
    <3>5. CASE cache[u] # None
      <4>1. PICK e : e = cache[u]
        OBVIOUS
      <4>2. PICK c : c = [e EXCEPT !.excused = TRUE]
        OBVIOUS
      <4>3. c \in Entry /\ c.excused = TRUE /\ cache' = [cache EXCEPT ![u] = c]
        <5>1. e \in Entry
          BY <1>3, <3>3, <3>5, <4>1
        <5>2. c \in Entry /\ c.excused = TRUE
          BY <4>2, <5>1 DEF Entry
        <5> QED BY <1>1, <2>2, <3>5, <4>1, <4>2, <5>2
      <4>4. \A v \in Users : cache'[v] = IF v = u THEN c ELSE cache[v]
        BY <3>3, <4>3
      <4>5. CacheTellsTheTruth'
        BY <1>2, <3>1, <3>2, <4>3, <4>4 DEF CacheOK, CacheTellsTheTruth, CachedUser
      <4>6. cache' \in [Users -> Entry \cup {None}]
        BY <3>3, <4>3
      <4> QED BY <1>2, <1>6, <3>2, <4>4, <4>5, <4>6 DEF CacheOK
    <3> QED BY <3>4, <3>5
  <2> QED BY <2>1, <2>2
<1>10. row.verified => row.status # "pending" /\ (row.by = "self" => Proof(u, codes))
  BY <1>3, <1>5
<1>11. next.pc \in {"idle", "invalidate"}
  BY <1>7
<1> QED BY <1>1, <1>5, <1>7, <1>8, <1>9, <1>10, <1>11, WriteStep

LEMMA CreateKeeps ==
  ASSUME AccountsInv, NEW h \in Handlers, Create(h)
  PROVE  AccountsInv'
<1>0. PICK q : q = handlers[h]
  OBVIOUS
<1>a. PICK u : u = q.u
  OBVIOUS
<1>b. PICK row : row = [id |-> u, status |-> "pending",
                        role |-> IF q.op = "create_user" THEN q.arg ELSE "user",
                        password |-> q.pw, revoked |-> Never, created |-> now, verified |-> FALSE,
                        by |-> IF q.op = "create_user" THEN "admin" ELSE "self"]
  OBVIOUS
<1> DEFINE pc == IF q.op = "create_user" THEN "verify" ELSE "created"
           next == [q EXCEPT !.pc = pc]
<1>1. /\ q.pc = "create"
      /\ \/ users[u] = None /\ Writes(h, row, next)
         \/ Answers(h) /\ UNCHANGED users
      /\ UNCHANGED <<scene, now, codes, cache, tickets, loginGuard, adminGuard, demotions, started>>
  BY <1>0, <1>a, <1>b DEF Create, At, guards
<1>2. /\ AtHand(q, users, codes) /\ DOMAIN q = Fields /\ now \in Nat
  BY <1>0, Hands
<1>3. CASE Answers(h) /\ UNCHANGED users
  BY <1>0, <1>1, <1>3, AnswersKeeps
<1>4. CASE users[u] = None /\ Writes(h, row, next)
  <2>1. /\ u \in Users /\ q.op \in {"register", "create_user"} /\ q.pw \in Passwords
        /\ q.op = "create_user" => q.arg \in Roles
        /\ Said(q, users, codes) /\ q.fresh \in BOOLEAN
    BY <1>1, <1>2, <1>a DEF AtHand, Ops, Said, Read
  <2>2. row \in Row /\ row.id = u /\ row.verified = FALSE
        /\ (q.op = "create_user" => row.by = "admin")
    BY <1>2, <1>b, <2>1 DEF Row, Statuses, Roles, Never
  <2>3. users'[u] = row /\ row # None
    BY <1>4, <2>1, <2>2, Written
  <2>4. /\ DOMAIN next = Fields /\ next.pc = pc /\ next.op = q.op /\ next.u = u
        /\ next.pw = q.pw /\ next.arg = q.arg /\ next.fresh = q.fresh
    BY <1>2, <1>a DEF Fields
  <2>5. pc \in {"verify", "created"} /\ (pc = "verify" <=> q.op = "create_user")
    OBVIOUS
  <2> HIDE DEF next, pc
  <2>6. AtHand(next, users', codes)
    <3>1. next.op \in Ops(next.pc)
      BY <2>1, <2>4, <2>5 DEF Ops
    <3>2. Said(next, users', codes)
      BY <2>1, <2>4, <2>5 DEF Said
    <3>3. Read(next, users')
      BY <2>1, <2>3, <2>4, <2>5 DEF Read, Holds, Status, Renewal
    <3>4. Spends(next, users', codes)
      BY <2>2, <2>3, <2>4, <2>5 DEF Spends
    <3> QED BY <2>4, <3>1, <3>2, <3>3, <3>4 DEF AtHand
  <2>7. CacheOK' /\ AdminsOK'
    BY <1>0, <1>1, <1>4, <2>2, <2>4, <2>5, WriteCache, WriteAdmins
  <2> QED BY <1>1, <1>4, <2>2, <2>4, <2>5, <2>6, <2>7, WriteStep
<1> QED BY <1>1, <1>3, <1>4

LEMMA TickKeeps ==
  ASSUME AccountsInv, Tick
  PROVE  AccountsInv'
<1>1. /\ now' = now + 1 /\ now \in Nat
      /\ UNCHANGED <<scene, users, codes, cache, tickets, loginGuard, adminGuard, handlers,
                     demotions, started>>
  BY DEF Tick, tables, guards, AccountsInv, BasicsOK
<1>2. BasicsOK' /\ HandlersOK' /\ UsersOK'
  BY <1>1, SameCodes, UsersRest DEF AccountsInv, BasicsOK, HandlersOK
<1>3. CodesOK' /\ AdminsOK'
  BY <1>1, CodesRest, AdminsRest DEF AccountsInv
<1>4. GuardsOK'
  <2>1. GuardOK(adminGuard)'
    BY <1>1 DEF AccountsInv, GuardsOK, GuardOK, Guard
  <2> QED BY <1>1, <2>1, GuardsRest DEF AccountsInv
<1>5. TicketsOK' /\ CacheOK'
  BY <1>1, TicketsRest, CacheRests DEF AccountsInv, CacheOK
<1> QED BY <1>2, <1>3, <1>4, <1>5 DEF AccountsInv

LEMMA RestartKeeps ==
  ASSUME AccountsInv, AccountsRestart
  PROVE  AccountsInv'
<1>1. /\ handlers' = [h \in Handlers |-> Idle] /\ cache' = [u \in Users |-> None]
      /\ tickets' = {} /\ loginGuard' = [u \in Users |-> None] /\ adminGuard' = None
      /\ UNCHANGED <<scene, now, users, codes, demotions, started>>
  BY DEF AccountsRestart, tables
<1>2. \A h \in Handlers : handlers'[h].pc = "idle"
  BY <1>1, IdleHand
<1>3. BasicsOK' /\ UsersOK'
  BY <1>1, SameCodes, UsersRest DEF AccountsInv, BasicsOK
<1>4. HandlersOK'
  BY <1>1, IdleHand DEF HandlersOK
<1>5. CodesOK' /\ AdminsOK'
  BY <1>1, <1>2, CodesRest, AdminsRest DEF AccountsInv
<1>6. TicketsOK' /\ CacheOK' /\ GuardsOK'
  BY <1>1 DEF TicketsOK, TicketsFollowPassword, CacheOK, CacheTellsTheTruth, GuardsOK, GuardOK
<1> QED BY <1>3, <1>4, <1>5, <1>6 DEF AccountsInv

LEMMA StutterKeeps ==
  ASSUME AccountsInv, UNCHANGED accountVars
  PROVE  AccountsInv'
<1>1. /\ UNCHANGED <<scene, now, users, codes, cache, tickets, loginGuard, adminGuard, handlers,
                     demotions, started>>
  BY DEF accountVars
<1>2. BasicsOK' /\ HandlersOK' /\ UsersOK'
  BY <1>1, SameCodes, UsersRest DEF AccountsInv, BasicsOK, HandlersOK
<1>3. CodesOK' /\ AdminsOK'
  BY <1>1, CodesRest, AdminsRest DEF AccountsInv
<1>4. GuardsOK'
  <2>1. GuardOK(adminGuard)' /\ now \in Nat
    BY <1>1 DEF AccountsInv, GuardsOK, GuardOK, BasicsOK
  <2> QED BY <1>1, <2>1, GuardsRest DEF AccountsInv
<1>5. TicketsOK' /\ CacheOK'
  BY <1>1, TicketsRest, CacheRests DEF AccountsInv, CacheOK, BasicsOK
<1> QED BY <1>2, <1>3, <1>4, <1>5 DEF AccountsInv

LEMMA StepKeeps ==
  ASSUME AccountsInv, [AccountsNext]_accountVars
  PROVE  AccountsInv'
<1>1. CASE UNCHANGED accountVars
  BY <1>1, StutterKeeps
<1>2. CASE Tick \/ AccountsRestart
  BY <1>2, TickKeeps, RestartKeeps
<1>3. ASSUME NEW h \in Handlers, Call(h) \/ CallOfAdmin(h) \/ Step(h)
      PROVE  AccountsInv'
  <2>1. CASE Call(h) \/ CallOfAdmin(h)
    BY <2>1, CallKeeps, CallOfAdminKeeps
  <2>2. CASE CheckRegister(h) \/ RecordAttempt(h) \/ Create(h) \/ RecordSuccess(h)
    BY <2>2, CheckRegisterKeeps, RecordAttemptKeeps, CreateKeeps, RecordSuccessKeeps
  <2>3. CASE Issue(h) \/ SendCode(h) \/ Find(h) \/ Latest(h)
    BY <2>3, IssueKeeps, SendCodeKeeps, FindKeeps, LatestKeeps
  <2>4. CASE ReadCode(h) \/ Miss(h) \/ Spend(h) \/ Verify(h) \/ WritePassword(h) \/ Invalidate(h)
    BY <2>4, ReadCodeKeeps, MissKeeps, SpendKeeps, VerifyKeeps, WritePasswordKeeps, InvalidateKeeps
  <2>5. CASE CheckLocked(h) \/ LoginFind(h) \/ LoginFailure(h) \/ LoginSuccess(h)
    BY <2>5, CheckLockedKeeps, LoginFindKeeps, LoginFailureKeeps, LoginSuccessKeeps
  <2>6. CASE CompareToken(h) \/ TokenTicket(h) \/ AskCache(h) \/ ReadUser(h) \/ FillCache(h)
    BY <2>6, CompareTokenKeeps, TokenTicketKeeps, AskCacheKeeps, ReadUserKeeps, FillCacheKeeps
  <2>7. CASE Load(h) \/ CountAdmins(h) \/ SetRole(h) \/ SetStatus(h) \/ Revoke(h) \/ Refused(h)
    BY <2>7, LoadKeeps, CountAdminsKeeps, SetRoleKeeps, SetStatusKeeps, RevokeKeeps, RefusedKeeps
  <2> QED BY <1>3, <2>1, <2>2, <2>3, <2>4, <2>5, <2>6, <2>7 DEF Step
<1> QED BY <1>1, <1>2, <1>3 DEF AccountsNext

LEMMA Starts ==
  ASSUME AccountsInit
  PROVE  AccountsInv
<1>1. /\ scene \in Scenes /\ now = 0 /\ users = scene.users /\ codes = <<>>
      /\ cache = [u \in Users |-> None] /\ tickets = scene.tickets
      /\ loginGuard = [u \in Users |-> None] /\ adminGuard = None
      /\ handlers = [h \in Handlers |-> Idle] /\ demotions = FALSE /\ started = 0
  BY DEF AccountsInit
<1>2. /\ users \in [Users -> Row \cup {None}] /\ tickets \subseteq Ticket
      /\ Opening(users, tickets)
  BY <1>1, AccountsAssumption DEF Scene
<1>3. \A h \in Handlers : handlers[h].pc = "idle"
  BY <1>1, IdleHand
<1>4. BasicsOK /\ HandlersOK
  BY <1>1, IdleHand DEF BasicsOK, HandlersOK
<1>5. UsersOK
  BY <1>2 DEF UsersOK, Opening
<1>6. CodesOK
  <2>1. codes \in Seq(Code) /\ DOMAIN codes = {}
    BY <1>1
  <2> QED BY <2>1 DEF CodesOK
<1>7. TicketsOK
  BY <1>1, <1>2 DEF TicketsOK, TicketsFollowPassword, Opening
<1>8. CacheOK /\ GuardsOK
  BY <1>1 DEF CacheOK, CacheTellsTheTruth, GuardsOK, GuardOK
<1>9. AdminsOK
  <2>1. Administrators # {} /\ Demoting = {}
    BY <1>2, <1>3 DEF Administrators, Demoting, At, Opening
  <2> QED BY <2>1 DEF AdminsOK
<1> QED BY <1>4, <1>5, <1>6, <1>7, <1>8, <1>9 DEF AccountsInv

\* What every handler has in hand, and what the tables and the memory hold,
\* stays in its bounds whatever order the statements come in.
THEOREM AccountsInvariant == AccountsSpec => []AccountsInv
<1>1. AccountsInit => AccountsInv
  BY Starts
<1>2. AccountsInv /\ [AccountsNext]_accountVars => AccountsInv'
  BY StepKeeps
<1> QED BY <1>1, <1>2, PTL DEF AccountsSpec

-----------------------------------------------------------------------------
\* The tables, the cache, the guards and every request keep their shape, a
\* ticket names a user who is there, and a lock time lies ahead only of a guard
\* at its limit (SubjectGuard, AdminGuard).
THEOREM AccountsTypeCorrect == AccountsSpec => []AccountsTypeOK
<1>1. AccountsInv => AccountsTypeOK
  <2> SUFFICES ASSUME AccountsInv PROVE AccountsTypeOK
    OBVIOUS
  <2>1. /\ BasicsOK /\ users \in [Users -> Row \cup {None}] /\ codes \in Seq(Code)
        /\ tickets \subseteq Ticket /\ \A t \in tickets : users[t.user] # None
    BY DEF AccountsInv, UsersOK, CodesOK, TicketsOK
  <2>2. \A u \in Users : cache[u] = None \/ cache[u].value \in Cached
    BY DEF AccountsInv, CacheOK, Entry
  <2>3. /\ \A u \in Users : loginGuard[u] = None \/ loginGuard[u] \in Guard
        /\ adminGuard = None \/ adminGuard \in Guard
        /\ \A g \in ({adminGuard} \cup {loginGuard[u] : u \in Users}) \ {None} :
             g.until > now => g.count >= MaxFailures
    BY DEF AccountsInv, GuardsOK, GuardOK
  <2>4. \A h \in Handlers : DOMAIN handlers[h] = DOMAIN Idle
    BY Hands DEF Idle, Fields
  <2> QED BY <2>1, <2>2, <2>3, <2>4 DEF AccountsTypeOK, BasicsOK
<1> QED BY <1>1, AccountsInvariant, PTL

LEMMA NoMoreThanOne ==
  ASSUME NEW S, \A m, n \in S : m = n
  PROVE  Cardinality(S) <= 1
<1>1. CASE S = {}
  BY <1>1, FS_EmptySet
<1>2. CASE S # {}
  <2>1. PICK n \in S : S = {n}
    BY <1>2
  <2>2. Cardinality({n}) = 1
    BY FS_Singleton
  <2> QED BY <2>1, <2>2
<1> QED BY <1>1, <1>2

\* issue, verify and SubjectGuard, whatever overtakes what: one code per user
\* and purpose can be used, it opens once what it was mailed for, and neither a
\* code nor a password is compared more often than its limit and the requests
\* already past the check.
THEOREM SecretsHold == AccountsSpec => []SecretsAreNotGuessed
<1>1. AccountsInv => SecretsAreNotGuessed
  <2> SUFFICES ASSUME AccountsInv PROVE SecretsAreNotGuessed
    OBVIOUS
  <2>1. CodesOK /\ UsersOK /\ GuardsOK
    BY DEF AccountsInv
  <2>2. OneLiveCode
    <3>1. ASSUME NEW u \in Users, NEW p \in Purposes
          PROVE  Cardinality(OpenCodes(u, p)) <= 1
      <4>1. \A m, n \in OpenCodes(u, p) : m = n
        BY <2>1 DEF CodesOK, OpenCodes, Live
      <4> QED BY <4>1, NoMoreThanOne
    <3> QED BY <3>1 DEF OneLiveCode
  <2>3. GuessesBounded /\ CodeIsSpentOnce
    <3>1. ASSUME NEW n \in DOMAIN codes
          PROVE  /\ codes[n].attempts < MaxAttempts + Cardinality(Handlers)
                 /\ codes[n].accepted > 1 => codes[n].raced
      <4>1. /\ CodeOK(n) /\ codes[n].attempts \in Nat /\ codes[n].accepted \in Nat
            /\ codes[n].raced \in BOOLEAN
        BY <2>1, Coded DEF CodesOK
      <4>2. Cardinality(Missers(n)) \in Nat /\ Cardinality(Handlers) \in Nat
        <5>1. Missers(n) \in SUBSET Handlers
          BY DEF Missers
        <5> QED BY <5>1, Crowd
      <4> QED BY <4>1, <4>2, Numbers DEF CodeOK
    <3> QED BY <3>1 DEF GuessesBounded, CodeIsSpentOnce
  <2>4. VerifiedByItsCode
    BY <2>1 DEF UsersOK, VerifiedByItsCode, Proof
  <2>5. FailuresBounded
    <3>1. ASSUME NEW u \in Users, loginGuard[u] # None
          PROVE  loginGuard[u].count < MaxFailures + Cardinality(Handlers)
      <4>1. /\ loginGuard[u].count + Cardinality(Past(u)) < MaxFailures + Cardinality(Handlers)
            /\ loginGuard[u].count \in Nat
        BY <2>1, <3>1 DEF GuardsOK, GuardOK, Guard
      <4>2. Cardinality(Past(u)) \in Nat /\ Cardinality(Handlers) \in Nat
        <5>1. Past(u) \in SUBSET Handlers
          BY DEF Past
        <5> QED BY <5>1, Crowd
      <4> QED BY <4>1, <4>2, Numbers
    <3> QED BY <3>1 DEF FailuresBounded
  <2> QED BY <2>2, <2>3, <2>4, <2>5 DEF SecretsAreNotGuessed
<1> QED BY <1>1, AccountsInvariant, PTL

-----------------------------------------------------------------------------
(***************************************************************************)
(* What a step may never do                                                *)
(***************************************************************************)
LEMMA Arrivals ==
  ASSUME NEW h \in Handlers, Call(h) \/ CallOfAdmin(h)
  PROVE  \E r : Arrive(h, r)
<1>1. CASE Call(h)
  BY <1>1, Zenon DEF Call
<1>2. CASE CallOfAdmin(h)
  <2>1. PICK u \in Users, t \in tickets \cup {None} :
        LET admitted == [Idle EXCEPT !.pc = IF t = None THEN "token" ELSE "cache",
                                     !.u = u, !.ticket = t]
        IN  \/ \E op \in {"disable", "enable"} : Arrive(h, [admitted EXCEPT !.op = op])
            \/ \E role \in Roles :
                 \/ Arrive(h, [admitted EXCEPT !.op = "set_role", !.arg = role])
                 \/ \E pw \in Passwords :
                      Arrive(h, [admitted EXCEPT !.op = "create_user", !.arg = role, !.pw = pw])
            \/ \E status \in {"active", "disabled"} :
                 Arrive(h, [admitted EXCEPT !.op = "set_status", !.arg = status])
    BY <1>2, Zenon DEF CallOfAdmin
  <2> QED BY <2>1, Zenon
<1> QED BY <1>1, <1>2

\* A handler moves itself and no other.
LEMMA StaysPut ==
  ASSUME AccountsInv, NEW h \in Handlers, NEW k \in Handlers, k # h,
         Call(h) \/ CallOfAdmin(h) \/ Step(h)
  PROVE  handlers'[k].pc = handlers[k].pc
<1>1. ASSUME NEW r, Becomes(h, r)
      PROVE  handlers'[k].pc = handlers[k].pc
  BY <1>1 DEF Becomes, AccountsInv, HandlersOK
<1>2. Answers(h) => handlers'[k].pc = handlers[k].pc
  BY <1>1 DEF Answers
<1>3. ASSUME NEW pc, Goes(h, pc)
      PROVE  handlers'[k].pc = handlers[k].pc
  BY <1>1, <1>3 DEF Goes
<1>4. ASSUME NEW row, NEW next, Writes(h, row, next)
      PROVE  handlers'[k].pc = handlers[k].pc
  <2>1. PICK q : q = handlers[k]
    OBVIOUS
  <2> DEFINE b == q.fresh /\ (q.row = None \/ q.row.id # row.id)
  <2>2. handlers'[k] = [q EXCEPT !.fresh = b]
    BY <1>4, <2>1 DEF Writes
  <2>3. DOMAIN q = Fields
    BY <2>1, Hands
  <2> HIDE DEF b
  <2> QED BY <2>1, <2>2, <2>3 DEF Fields
<1>5. CASE Call(h) \/ CallOfAdmin(h)
  BY <1>1, <1>5, Arrivals DEF Arrive
<1>6. CASE Create(h) \/ Verify(h) \/ WritePassword(h) \/ SetRole(h) \/ SetStatus(h) \/ Revoke(h)
  BY <1>2, <1>4, <1>6, Zenon DEF Create, Verify, WritePassword, SetRole, SetStatus, Revoke
<1>7. CASE CheckRegister(h) \/ RecordAttempt(h) \/ RecordSuccess(h)
  BY <1>2, <1>3, <1>7 DEF CheckRegister, RecordAttempt, RecordSuccess
<1>8. CASE Issue(h)
  BY <1>1, <1>8, Zenon DEF Issue
<1>9. CASE SendCode(h) \/ Miss(h) \/ Invalidate(h) \/ LoginFailure(h) \/ TokenTicket(h) \/ Refused(h)
  BY <1>2, <1>9, Zenon DEF SendCode, Miss, Invalidate, LoginFailure, TokenTicket, Refused
<1>10. CASE Find(h) \/ Latest(h)
  BY <1>2, <1>3, <1>10 DEF Find, Latest
<1>11. CASE ReadCode(h)
  BY <1>1, <1>2, <1>11, Zenon DEF ReadCode
<1>12. CASE Spend(h) \/ CountAdmins(h)
  BY <1>2, <1>3, <1>12 DEF Spend, CountAdmins
<1>13. CASE CheckLocked(h) \/ CompareToken(h)
  BY <1>2, <1>3, <1>13 DEF CheckLocked, CompareToken
<1>14. CASE LoginFind(h) \/ LoginSuccess(h)
  BY <1>1, <1>2, <1>3, <1>14 DEF LoginFind, LoginSuccess
<1>15. CASE AskCache(h) \/ ReadUser(h) \/ FillCache(h)
  BY <1>1, <1>2, <1>3, <1>15 DEF AskCache, ReadUser, FillCache, Decides
<1>16. CASE Load(h)
  BY <1>1, <1>2, <1>16 DEF Load
<1> QED BY <1>5, <1>6, <1>7, <1>8, <1>9, <1>10, <1>11, <1>12, <1>13, <1>14, <1>15, <1>16 DEF Step

\* Who gets in by the cache or by the row read: what he is shown to be is what
\* the table says, or the excuse is there to see.
LEMMA LetsIn ==
  ASSUME AccountsInv, AccountsNext, NEW h \in Handlers, Authenticates(h)
  PROVE  LET t == handlers[h].ticket
         IN  /\ At(h, "cache") => ~Expired(t)
             /\ \/ ~RevokedAt(t, users[t.user].revoked) /\ users[t.user].status # "disabled"
                \/ Invalidating(t.user)
                \/ At(h, "insert") /\ ~handlers[h].fresh
                \/ At(h, "cache") /\ cache[t.user].excused /\ now - cache[t.user].at < CacheTtl
<1>0. PICK q : q = handlers[h]
  OBVIOUS
<1>a. PICK t : t = q.ticket
  OBVIOUS
<1>1. /\ q.pc \in {"cache", "insert"} /\ t \in tickets'
      /\ handlers'[h].pc \notin {"cache", "read", "insert"}
      /\ handlers'[h].pc = "idle" =>
           /\ q.op = "use"
           /\ \/ q.pc = "insert" /\ Admits(h, CachedUser(q.row))
              \/ q.pc = "cache" /\ ~Expired(t) /\ cache[q.u] # None /\ Admits(h, cache[q.u].value)
  BY <1>0, <1>a DEF Authenticates, At
<1>2. /\ AtHand(q, users, codes) /\ DOMAIN handlers = Handlers /\ CacheOK /\ UsersOK
  BY <1>0, Hands DEF AccountsInv, HandlersOK
<1>3. /\ t \in Ticket /\ t.user \in Users /\ users[t.user] # None
      /\ q.op = "use" => t.user = q.u
      /\ q.op \in Personal \cup Privileged
  BY <1>1, <1>2, <1>a, Zenon DEF AtHand, Said, Ticket, Ops, Personal
<1>4. AskCache(h) \/ FillCache(h)
  <2>1. ~Tick /\ ~AccountsRestart
    BY <1>0, <1>1 DEF Tick, AccountsRestart
  <2>2. PICK k \in Handlers : Call(k) \/ CallOfAdmin(k) \/ Step(k)
    BY <2>1 DEF AccountsNext
  <2>3. k = h
    BY <1>0, <1>1, <2>2, StaysPut
  <2>4. ~Call(h) /\ ~CallOfAdmin(h)
    BY <1>0, <1>1, Arrivals DEF Arrive, At
  <2>5. Step(h)
    BY <2>2, <2>3, <2>4
  <2> QED BY <1>0, <1>1, <2>5, Zenon
          DEF Step, At, CheckRegister, RecordAttempt, Create, RecordSuccess, Issue, SendCode, Find,
              Latest, ReadCode, Miss, Spend, Verify, WritePassword, Invalidate, CheckLocked,
              LoginFind, LoginFailure, LoginSuccess, CompareToken, TokenTicket, ReadUser, Load,
              CountAdmins, SetRole, SetStatus, Revoke, Refused
<1>5. ASSUME NEW known, Decides(h, known),
             q.op = "use" /\ handlers'[h].pc = "idle" => Admits(h, known)
      PROVE  ~RevokedAt(t, known.revoked) /\ known.status # "disabled"
  <2>1. Admits(h, known)
    <3>1. CASE Answers(h)
      <4>1. handlers'[h].pc = "idle"
        BY <1>2, <3>1, IdleHand DEF Answers, Becomes
      <4> QED BY <1>1, <1>5, <4>1
    <3> QED BY <1>5, <3>1 DEF Decides
  <2> QED BY <1>0, <1>a, <2>1 DEF Admits
<1>6. CASE FillCache(h)
  <2>1. q.pc = "insert" /\ Decides(h, CachedUser(q.row))
    BY <1>0, <1>6 DEF FillCache, At
  <2>2. ~RevokedAt(t, q.row.revoked) /\ q.row.status # "disabled"
    BY <1>1, <1>5, <2>1 DEF CachedUser
  <2>3. q.fresh => users[t.user] = q.row
    BY <1>2, <1>a, <2>1 DEF AtHand, Read, Holds
  <2> QED BY <1>0, <1>a, <2>1, <2>2, <2>3 DEF At
<1>7. CASE AskCache(h)
  <2>1. q.pc = "cache"
    BY <1>0, <1>7 DEF AskCache, At
  <2>2. ~Expired(t) /\ Hit(t.user) /\ Decides(h, cache[t.user].value)
    <3>1. ~(Expired(t) /\ Answers(h))
      <4> SUFFICES ASSUME Expired(t), Answers(h) PROVE FALSE
        OBVIOUS
      <4>1. handlers'[h].pc = "idle"
        BY <1>2, IdleHand DEF Answers, Becomes
      <4> QED BY <1>1, <2>1, <4>1
    <3>2. ~Goes(h, "read")
      <4> SUFFICES ASSUME Goes(h, "read") PROVE FALSE
        OBVIOUS
      <4>1. handlers'[h] = [q EXCEPT !.pc = "read"] /\ DOMAIN q = Fields
        BY <1>0, <1>2, Hands DEF Goes, Becomes
      <4>2. handlers'[h].pc = "read"
        BY <4>1, Placed
      <4> QED BY <1>1, <4>2
    <3> QED BY <1>0, <1>7, <1>a, <3>1, <3>2 DEF AskCache
  <2>3. /\ ~RevokedAt(t, cache[t.user].value.revoked) /\ cache[t.user].value.status # "disabled"
    BY <1>1, <1>3, <1>5, <2>1, <2>2
  <2>4. /\ cache[t.user] # None /\ now - cache[t.user].at < CacheTtl
    BY <2>2 DEF Hit
  <2>5. \/ cache[t.user].value = CachedUser(users[t.user])
        \/ cache[t.user].excused
        \/ Invalidating(t.user)
    BY <1>2, <1>3, <2>4 DEF CacheOK, CacheTellsTheTruth
  <2>6. CASE cache[t.user].value = CachedUser(users[t.user])
    <3>1. ~RevokedAt(t, users[t.user].revoked) /\ users[t.user].status # "disabled"
      BY <2>3, <2>6 DEF CachedUser
    <3> QED BY <1>0, <1>a, <2>2, <3>1
  <2> QED BY <1>0, <1>a, <2>1, <2>2, <2>4, <2>5, <2>6 DEF At
<1> QED BY <1>4, <1>6, <1>7

\* A session is worth what the account is worth (user_cache, resolve_session_user,
\* set_password_hash), for any number of them: the cache tells the truth but for
\* the excuses that are marked, a revoked, disabled or ended session gets in only
\* on the way of the change, and a session in force was opened with the password
\* the account has.
THEOREM SessionsFollow == AccountsSpec => SessionsFollowAccounts
<1> DEFINE LetIn ==
      \A h \in Handlers : Authenticates(h) =>
       LET t == handlers[h].ticket
       IN  /\ At(h, "cache") => ~Expired(t)
           /\ \/ ~RevokedAt(t, users[t.user].revoked) /\ users[t.user].status # "disabled"
              \/ Invalidating(t.user)
              \/ At(h, "insert") /\ ~handlers[h].fresh
              \/ At(h, "cache") /\ cache[t.user].excused /\ now - cache[t.user].at < CacheTtl
<1>1. AccountsInv /\ [AccountsNext]_accountVars => [LetIn]_accountVars
  BY LetsIn
<1>2. AccountsInv => CacheTellsTheTruth /\ TicketsFollowPassword
  BY DEF AccountsInv, CacheOK, TicketsOK
<1> QED BY <1>1, <1>2, AccountsInvariant, PTL
        DEF AccountsSpec, SessionsFollowAccounts, RevokedSessionsEnd

\* A write that leaves a disabled account disabled, and no other.
LEMMA LeavesStatus ==
  ASSUME AccountsInv, NEW h \in Handlers, NEW row, NEW next, Writes(h, row, next), row \in Row,
         users[row.id] # None => (row.status = "disabled" <=> users[row.id].status = "disabled"),
         NEW u \in Users, users[u] # None
  PROVE  users'[u].status = "disabled" <=> users[u].status = "disabled"
BY Written

LEMMA ChangesHands ==
  ASSUME AccountsInv, AccountsNext, NEW u \in Users, users[u] # None
  PROVE  /\ users[u].status = "disabled" /\ users'[u].status # "disabled" =>
              \E h \in Handlers : /\ At(h, "status") /\ handlers[h].u = u
                                  /\ handlers[h].op \in {"enable", "set_status"}
         /\ users[u].verified /\ users[u].status # "disabled" /\ users'[u].status = "disabled" =>
              \E h \in Handlers :
                /\ At(h, "status") /\ handlers[h].u = u
                /\ \/ handlers[h].op \in {"disable", "set_status"}
                   \/ handlers[h].op = "login" /\ ~handlers[h].fresh
<1> DEFINE Same == users'[u].status = "disabled" <=> users[u].status = "disabled"
<1>1. UsersOK
  BY DEF AccountsInv
<1>2. CASE users' = users
  BY <1>2
<1>3. CASE users' # users
  <2>1. PICK h \in Handlers : Create(h) \/ Verify(h) \/ WritePassword(h) \/ SetRole(h)
                                \/ SetStatus(h) \/ Revoke(h)
    <3>1. ~Tick /\ ~AccountsRestart
      BY <1>3 DEF Tick, AccountsRestart, tables
    <3>2. PICK h \in Handlers : Call(h) \/ CallOfAdmin(h) \/ Step(h)
      BY <3>1 DEF AccountsNext
    <3>3. ~(Call(h) \/ CallOfAdmin(h))
      BY <1>3, Arrivals DEF Arrive, tables
    <3>4. Step(h)
      BY <3>2, <3>3
    <3> QED BY <1>3, <3>4, Zenon
        DEF Step, tables, CheckRegister, RecordAttempt, RecordSuccess, Issue, SendCode, Find,
            Latest, ReadCode, Miss, Spend, Invalidate, CheckLocked, LoginFind, LoginFailure,
            LoginSuccess, CompareToken, TokenTicket, AskCache, ReadUser, FillCache, Load,
            CountAdmins, Refused
  <2>2. PICK q : q = handlers[h]
    OBVIOUS
  <2>3. PICK v : v = q.u
    OBVIOUS
  <2>4. /\ AtHand(q, users, codes) /\ DOMAIN q = Fields /\ now \in Nat
    BY <2>2, Hands
  <2>5. ASSUME NEW row, NEW next, Writes(h, row, next), row \in Row, row.id = v,
               users[v] # None => (row.status = "disabled" <=> users[v].status = "disabled")
        PROVE  Same
    BY <2>5, LeavesStatus
  <2>6. ASSUME q.pc \in {"verify", "password", "role", "status", "revoke"}
        PROVE  v \in Users /\ users[v] # None /\ users[v] \in Row /\ users[v].id = v
    <3>1. v \in Users /\ users[v] # None
      BY <2>3, <2>4, <2>6 DEF AtHand, Said, Read, Known
    <3> QED BY <1>1, <3>1 DEF UsersOK
  <2>7. CASE Create(h)
    <3>1. PICK row, next : Writes(h, row, next) /\ users[row.id] = None /\ users' = [users EXCEPT ![row.id] = row]
      <4>1. ~UNCHANGED users
        BY <1>3
      <4> QED BY <2>7, <4>1 DEF Create, Writes
    <3> QED BY <1>1, <3>1 DEF UsersOK
  <2>8. CASE Verify(h)
    <3>1. PICK row, next : row = MarkVerified(users[v]) /\ Writes(h, row, next)
      BY <2>2, <2>3, <2>8, Zenon DEF Verify
    <3>2. PICK e : e = users[v]
      OBVIOUS
    <3> DEFINE s == IF e.status = "pending" THEN "active" ELSE e.status
    <3>3. e \in Row /\ e.id = v
      BY <2>2, <2>6, <2>8, <3>2 DEF Verify, At
    <3>4. row = [e EXCEPT !.verified = TRUE, !.status = s]
      BY <3>1, <3>2, <3>3 DEF MarkVerified, Row
    <3>5. s \in Statuses /\ (s = "disabled" <=> e.status = "disabled")
      BY <3>3 DEF Row, Statuses
    <3> HIDE DEF s
    <3>6. row \in Row /\ row.id = e.id /\ row.status = s
      BY <3>3, <3>4, <3>5 DEF Row
    <3>7. Same
      BY <2>5, <3>1, <3>2, <3>3, <3>5, <3>6
    <3> QED BY <3>7
  <2>9. CASE WritePassword(h)
    <3>1. PICK row, next : row = SetPassword(users[v], q.pw) /\ Writes(h, row, next)
      BY <2>2, <2>3, <2>9, Zenon DEF WritePassword
    <3>2. PICK e : e = users[v]
      OBVIOUS
    <3>3. q.pc = "password" /\ e \in Row /\ e.id = v /\ q.pw \in Passwords
      <4>1. q.pc = "password"
        BY <2>2, <2>9 DEF WritePassword, At
      <4>2. q.pw \in Passwords
        BY <2>4, <4>1 DEF AtHand, Ops, Said
      <4> QED BY <2>6, <3>2, <4>1, <4>2
    <3>4. PICK n \in Int : row = [e EXCEPT !.password = q.pw, !.revoked = n]
      <4>1. now \in Int /\ row = [e EXCEPT !.password = q.pw, !.revoked = now]
        BY <2>4, <3>1, <3>2 DEF SetPassword
      <4> QED BY <4>1
    <3>5. row \in Row /\ row.id = e.id /\ row.status = e.status
      BY <3>3, <3>4 DEF Row
    <3>6. Same
      BY <2>5, <3>1, <3>2, <3>3, <3>5
    <3> QED BY <3>6
  <2>10. CASE SetRole(h)
    <3>1. PICK row, next : row = [users[v] EXCEPT !.role = q.arg] /\ Writes(h, row, next)
      BY <2>2, <2>3, <2>10, Zenon DEF SetRole
    <3>2. PICK e : e = users[v]
      OBVIOUS
    <3>3. e \in Row /\ e.id = v /\ q.arg \in Roles
      <4>1. q.pc = "role"
        BY <2>2, <2>10 DEF SetRole, At
      <4>2. q.arg \in Roles
        BY <2>4, <4>1 DEF AtHand, Ops, Said
      <4> QED BY <2>6, <3>2, <4>1, <4>2
    <3>4. row \in Row /\ row.id = e.id /\ row.status = e.status
      BY <3>1, <3>2, <3>3 DEF Row
    <3>5. Same
      BY <2>5, <3>1, <3>2, <3>3, <3>4
    <3> QED BY <3>5
  <2>11. CASE Revoke(h)
    <3>1. PICK row, next : row = [users[v] EXCEPT !.revoked = now] /\ Writes(h, row, next)
      BY <2>2, <2>3, <2>11, Zenon DEF Revoke
    <3>2. PICK e : e = users[v]
      OBVIOUS
    <3>3. e \in Row /\ e.id = v
      BY <2>2, <2>6, <2>11, <3>2 DEF Revoke, At
    <3>4. row \in Row /\ row.id = e.id /\ row.status = e.status
      BY <2>4, <3>1, <3>2, <3>3 DEF Row
    <3>5. Same
      BY <2>5, <3>1, <3>2, <3>3, <3>4
    <3> QED BY <3>5
  <2>12. CASE SetStatus(h)
    <3>1. PICK row, next : row = [users[v] EXCEPT !.status = q.arg] /\ Writes(h, row, next)
      BY <2>2, <2>3, <2>12, Zenon DEF SetStatus
    <3>2. PICK e : e = users[v]
      OBVIOUS
    <3>3. q.pc = "status"
      BY <2>2, <2>12 DEF SetStatus, At
    <3>4. /\ e \in Row /\ e.id = v /\ v \in Users /\ e # None
          /\ q.op \in {"login", "disable", "enable", "set_status"}
          /\ q.arg \in {"active", "disabled"}
          /\ q.op \in {"disable", "login"} => q.arg = "disabled"
          /\ q.op = "enable" => q.arg = "active"
          /\ q.fresh \in BOOLEAN
      BY <2>4, <2>6, <3>2, <3>3 DEF AtHand, Ops, Said, Read
    <3>5. row \in Row /\ row.id = v /\ row.status = q.arg
      BY <3>1, <3>2, <3>4 DEF Row, Statuses
    <3>6. users'[u] = IF u = v THEN row ELSE users[u]
      <4>1. Writes(h, row, next) /\ row \in Row
        BY <3>1, <3>5
      <4>2. \A w \in Users : users'[w] = IF w = row.id THEN row ELSE users[w]
        BY <4>1, Written
      <4> QED BY <3>5, <4>2
    <3>7. q.op = "login" /\ q.fresh => ~users[v].verified
      <4>1. q.op = "login" /\ q.fresh => q.row.status = "pending" /\ users[v] = q.row
        BY <2>3, <2>4, <3>3 DEF AtHand, Read, Holds, Status
      <4> QED BY <1>1, <3>2, <3>4, <4>1 DEF UsersOK
    <3>8. At(h, "status") /\ handlers[h].u = v
      BY <2>2, <2>3, <3>3 DEF At
    <3>9. CASE u # v
      BY <3>6, <3>9
    <3>10. CASE u = v
      <4>1. /\ users[u].status = "disabled" /\ users'[u].status # "disabled" =>
                 q.op \in {"enable", "set_status"}
            /\ users[u].verified /\ users[u].status # "disabled" /\ users'[u].status = "disabled" =>
                 q.op \in {"disable", "set_status"} \/ (q.op = "login" /\ ~q.fresh)
        BY <3>4, <3>5, <3>6, <3>7, <3>10
      <4> QED BY <2>2, <3>8, <3>10, <4>1
    <3> QED BY <3>9, <3>10
  <2> QED BY <2>1, <2>7, <2>8, <2>9, <2>10, <2>11, <2>12, Zenon
<1> QED BY <1>2, <1>3

\* update_user, set_status and login, whoever overtakes whom: an administrator is
\* left unless two demotions counted at once, a disabled account comes back only
\* by an administrator, and a verified one goes only by an administrator or by a
\* login that had read it before it was verified.
THEOREM PowersChange == AccountsSpec => PowersChangeHands
<1> DEFINE Hand ==
      \A u \in Users : users[u] # None =>
       /\ users[u].status = "disabled" /\ users'[u].status # "disabled" =>
            \E h \in Handlers : /\ At(h, "status") /\ handlers[h].u = u
                                /\ handlers[h].op \in {"enable", "set_status"}
       /\ users[u].verified /\ users[u].status # "disabled" /\ users'[u].status = "disabled" =>
            \E h \in Handlers :
              /\ At(h, "status") /\ handlers[h].u = u
              /\ \/ handlers[h].op \in {"disable", "set_status"}
                 \/ handlers[h].op = "login" /\ ~handlers[h].fresh
<1>1. AccountsInv /\ [AccountsNext]_accountVars => [Hand]_accountVars
  BY ChangesHands
<1>2. AccountsInv => AnAdminRemains
  BY DEF AccountsInv, AdminsOK, AnAdminRemains
<1> QED BY <1>1, <1>2, AccountsInvariant, PTL
        DEF AccountsSpec, PowersChangeHands, AccountsChangeHands
=============================================================================

----------------------------- MODULE MCAccounts -----------------------------
\* Six scenes with two handlers at once.  None leaves a row out.
EXTENDS Accounts, TLC

CONSTANTS member, a, p, q

Person(id, status, role, verified, by) ==
  [id |-> id, status |-> status, role |-> role, password |-> p, revoked |-> Never,
   created |-> 0, verified |-> verified, by |-> by]
Boss   == Person(a, "active", "admin", TRUE, "admin")
Member == Person(member, "active", "user", TRUE, "admin")
Guest  == Person(member, "pending", "user", FALSE, "self")
TicketOf(id) == [user |-> id, iat |-> 0, pw |-> p, overlap |-> FALSE]

SceneOf(ops, about, row, held, starts, until, failures) ==
  [ops |-> ops, about |-> about, users |-> (member :> row @@ a :> Boss), tickets |-> held,
   starts |-> starts, until |-> until, failures |-> failures]

\* Someone registers; someone who has not verified yet resets the password;
\* a session of a member against whom something changes; wrong passwords of
\* both kinds; an account on its way between pending, active and disabled;
\* administrators who make each other users.
MCScenes == {
  SceneOf({"register", "verify_email", "resend"}, {member}, None, {}, 3, 2, FALSE),
  SceneOf({"reset_request", "reset_confirm", "verify_email"}, {member}, Guest, {}, 5, 1, FALSE),
  SceneOf({"use", "change_password", "disable", "login"}, {member}, Member, {TicketOf(member)}, 3, 2, TRUE),
  SceneOf({"login", "token_login"}, {member, a}, Member, {}, 4, 2, FALSE),
  SceneOf({"login", "resend", "verify_email", "disable", "set_status", "enable"}, {member}, Guest,
          {}, 3, 2, FALSE),
  SceneOf({"set_role", "create_user"}, {member, a}, None, {TicketOf(a)}, 4, 0, FALSE)}
=============================================================================

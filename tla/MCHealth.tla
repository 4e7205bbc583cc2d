------------------------------ MODULE MCHealth ------------------------------
(***************************************************************************)
(* Small instances of Health: a policy that trips on the second failure    *)
(* and one that is switched off, so that policy changes matter; Retry-     *)
(* After of 0 and of 2 seconds against cooldowns of 1 and 2; four failures *)
(* reach past the ceiling of the back-off.                                 *)
(***************************************************************************)
EXTENDS Health

MCPolicies == {[threshold |-> 2, base |-> 1, max |-> 2],
               [threshold |-> 0, base |-> 1, max |-> 1]}
MCHolds == {0, 2}
=============================================================================

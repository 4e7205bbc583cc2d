------------------------------ MODULE MCBilling ------------------------------
(***************************************************************************)
(* Small instances of Billing.                                             *)
(***************************************************************************)
EXTENDS Billing

MCUserOf == [r \in Slots |-> "u"]
MCDeltas == {1, -1}
=============================================================================

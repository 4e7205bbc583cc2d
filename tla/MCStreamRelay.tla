---------------------------- MODULE MCStreamRelay ----------------------------
(***************************************************************************)
(* Small instances of StreamRelay.  Stream 1 is of every kind; stream 2    *)
(* competes with it for the permit.                                        *)
(***************************************************************************)
EXTENDS StreamRelay

MCKinds ==
  [i \in Streams |->
     IF i = 1 THEN [native : BOOLEAN, marked : BOOLEAN]
     ELSE {[native |-> TRUE, marked |-> FALSE]}]
=============================================================================

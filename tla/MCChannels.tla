----------------------------- MODULE MCChannels -----------------------------
(***************************************************************************)
(* Small instances of Channels.  Endpoint 10 * c + k is the k-th endpoint  *)
(* of channel c; tests call the first.                                     *)
(***************************************************************************)
EXTENDS Channels

MCChannelOf == [ep \in Endpoints |-> ep \div 10]
MCTestEndpoint ==
  [ch \in Chans |-> IF 10 * ch \in Endpoints THEN 10 * ch
                    ELSE CHOOSE ep \in Endpoints : TRUE]
MCEverything == {"toggle", "update", "delete", "create", "import"}
MCToggle     == {"toggle"}
MCNothing    == {}
=============================================================================

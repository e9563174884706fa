--------------------------- MODULE MCVoltChannel ---------------------------
(***************************************************************************)
(* A channel of three units, of which one is dust; secrets for three       *)
(* commitments, so that updates run out of them; one HTLC, one splice.     *)
(***************************************************************************)
EXTENDS VoltChannel
=============================================================================

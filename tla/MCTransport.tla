---------------------------- MODULE MCTransport ----------------------------
(***************************************************************************)
(* An instance of Transport for TLC: three coordinates, so that a greeting *)
(* may be altered into one that is nobody's; a message without body, one   *)
(* of one unit and one over the cap.  Keys are ratcheted after two frames. *)
(***************************************************************************)
EXTENDS Transport

MCOwn == [e \in End |-> IF e = "x" THEN 1 ELSE 2]
MCSize == [m \in Message |-> CASE m = "ping" -> 0 [] m = "block" -> 2 [] OTHER -> 1]
MCFrames == [e \in End |-> IF e = "x" THEN 3 ELSE 2]
=============================================================================

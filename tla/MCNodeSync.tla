----------------------------- MODULE MCNodeSync -----------------------------
(***************************************************************************)
(* An instance of NodeSync for TLC.  Every block is good:                  *)
(*                                                                         *)
(*    g - a1 - a2      the node mines these                                *)
(*     \- b1 - b2      the peers are on this one                           *)
(*                                                                         *)
(* b2 has more work than a2, though no more height.  With a window of 1 it *)
(* is within reach of a node on a1 and beyond that of one on a2.  A reply  *)
(* carries one header more than may be asked for at once.                  *)
(***************************************************************************)
EXTENDS NodeSync

MCBlock == {"g", "a1", "a2", "b1", "b2"}
MCParent == [b \in MCBlock \ {"g"} |->
    CASE b \in {"a1", "b1"} -> "g" [] b = "a2" -> "a1" [] b = "b2" -> "b1"]
MCAncestors[b \in MCBlock] ==
    IF b = "g" THEN {"g"} ELSE MCAncestors[MCParent[b]] \cup {b}
MCHeight == [b \in MCBlock |-> Cardinality(MCAncestors[b]) - 1]
MCWork   == [b \in MCBlock |-> IF b = "b2" THEN 4 ELSE MCHeight[b] + 1]

MCPeers == {"p", "q"}
MCPeerStart == [p \in MCPeers |-> IF p = "p" THEN "b1" ELSE "g"]

MCTxIn == [t \in {"t"} |-> "b2"]
=============================================================================

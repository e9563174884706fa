------------------------------ MODULE MCPeers ------------------------------
(* Peers with one remote host of two addresses, which two keys answer at, *)
(* the node's own address, and two sockets.                                *)
EXTENDS Peers, TLC

MCHostOf == [a \in Addr |-> IF a = Home THEN Self ELSE CHOOSE h \in Host : h # Self]
Symmetric == Permutations(Conn)
=============================================================================

---------------------------- MODULE MCChainState ----------------------------
(***************************************************************************)
(* An instance of ChainState for TLC, with an undo window of 2:            *)
(*                                                                         *)
(*    g - a1 - a2 - a3                                                     *)
(*          \- b2 - b3 - b4    all good; b4 has more work than a3          *)
(*          |           \- d5  good                                        *)
(*          |           \- y5  carries the wrong state root                *)
(*          \- t2              wrong height, bits or time for its parent   *)
(*    g - c1 - c2              c2 is as difficult as three other blocks    *)
(*    g - h1                   fails checkHeader                           *)
(*                                                                         *)
(* Height 2 is where the difficulty is set again, from the times of the    *)
(* blocks before it: three times higher after c1, unchanged after a1.      *)
(* a2 and b2 spend the same coin and deploy the same contract, which a3    *)
(* and b3 call; a1 makes an output and spends it.  c1 is a1 with another   *)
(* time: the same miner, memo and transactions, hence the same outpoints   *)
(* and the same state.  c2 arriving over a3 is a reorganisation one block  *)
(* deeper than the window; y5 arriving over c2 is one that connects more   *)
(* blocks than the window holds before it fails, and its way back takes    *)
(* c2 for a block on a1; d5 may then come.                                 *)
(***************************************************************************)
EXTENDS ChainState

NoChange == [spends |-> {}, creates |-> {}, calls |-> {}, deploys |-> {},
             storage |-> [c \in Contract |-> "s0"],
             bumps |-> [a \in Account |-> 0]]

\* The tree; and its long bad branch alone, with a rival e1 - e2 in the place
\* of c1 - c2 whose first block is no twin.
MCBlock   == {"g", "a1", "a2", "a3", "b2", "b3", "b4", "c1", "c2",
              "y5", "d5", "h1", "t2"}
LongBlock == {"g", "a1", "b2", "b3", "b4", "y5", "e1", "e2"}

\* One coinbase outpoint per block, named after it (c1 pays a1's), and one
\* transient output.
MCCoin == Block \cup {"tmp"}

Pays(b) == [NoChange EXCEPT !.creates = {b}]
DeployedBy(b, coin) ==
    [Pays(b) EXCEPT !.spends = {coin}, !.deploys = {"k"},
                    !.bumps = [a \in Account |-> 1]]
CalledBy(b, coin) ==
    [Pays(b) EXCEPT !.spends = {coin}, !.calls = {"k"},
                    !.storage = [c \in Contract |-> "s1"]]

MCBody == [b \in Block |->
    CASE b \in {"a1", "c1"} -> [Pays(b) EXCEPT !.creates = {"a1", "tmp"},
                                            !.spends = {"tmp"}]
      [] b \in {"a2", "b2"} -> DeployedBy(b, "g")
      [] b = "a3"         -> CalledBy(b, "a2")
      [] b = "b3"         -> CalledBy(b, "b2")
      [] OTHER            -> Pays(b)]

MCParent == [b \in Block \ {"g"} |->
    CASE b \in {"a1", "c1", "e1", "h1"} -> "g"
      [] b \in {"a2", "b2", "t2"} -> "a1"
      [] b = "a3" -> "a2"
      [] b = "b3" -> "b2"
      [] b = "b4" -> "b3"
      [] b \in {"y5", "d5"} -> "b4"
      [] b = "c2" -> "c1"
      [] b = "e2" -> "e1"]

MCAncestors[b \in Block] ==
    IF b = "g" THEN {"g"} ELSE MCAncestors[MCParent[b]] \cup {b}

MCHeaderOk  == Block \ {"h1"}
MCContextOk == Block \ {"t2"}

MCHeight == [b \in Block |-> Cardinality(MCAncestors[b]) - 1]
MCWork   == [b \in Block |-> IF b \in {"c2", "e2"} THEN 5 ELSE MCHeight[b] + 1]

Empty == [coins |-> {}, contracts |-> [c \in Contract |-> Absent],
          nonces |-> [a \in Account |-> 0]]

\* The state each block's miner computed; y5's miner lost the coins
\* of its parent.
MCCommitment[b \in Block] ==
    IF b = "g" THEN ApplyBlock(Empty, b)
    ELSE IF b = "y5" THEN [Empty EXCEPT !.coins = {b}]
    ELSE ApplyBlock(MCCommitment[MCParent[b]], b)
=============================================================================

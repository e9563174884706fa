------------------------------- MODULE Lists --------------------------------
(***************************************************************************)
(* filter, of which node.ts and faucet.ts make much use: SelectSeq as a    *)
(* recursive function, which proofs can reason about.                      *)
(***************************************************************************)
EXTENDS Integers, SequencesExt

\* The elements of a sequence that are in a set, in their order.
Kept(s, S) ==
    LET kept[n \in 0..Len(s)] ==
            IF n = 0 THEN <<>>
            ELSE IF s[n] \in S THEN Append(kept[n - 1], s[n]) ELSE kept[n - 1]
    IN kept[Len(s)]
=============================================================================

---------------------------- MODULE MCWatchtower ----------------------------
(***************************************************************************)
(* One channel, worth three of the four fees: relay fees may rise above    *)
(* what its penalty can pay.  One blob in the middle is damaged.           *)
(***************************************************************************)
EXTENDS Watchtower

MCWorth == [c \in Breach |-> 5]
MCFeeLadder == <<1, 2, 4, 8>>
MCDamaged == {<<c, [fee |-> 2, to |-> "y"]>> : c \in Breach}

\* The deadline has no block to spare.
ASSUME NothingToSpare == DeadlineSuffices
=============================================================================

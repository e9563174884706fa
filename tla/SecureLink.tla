---------------------------- MODULE SecureLink -----------------------------
(***************************************************************************)
(* What two nodes may expect of the encrypted connection between them:     *)
(* two streams of messages, each heard in the order and exactly as it was  *)
(* said, with nothing added, left out or repeated; and, until the          *)
(* connection is lost, nothing said stays unheard.                         *)
(***************************************************************************)
EXTENDS Naturals, Sequences

CONSTANTS End, Message

VARIABLES
    said,       \* what each end has said
    heard,      \* what each end has heard of the other
    lost        \* the connection no longer promises anything

vars == <<said, heard, lost>>

Other(e) == CHOOSE f \in End : f # e

Init == /\ said = [e \in End |-> <<>>]
        /\ heard = [e \in End |-> <<>>]
        /\ lost = FALSE

Hears(e, n) ==
    /\ Len(heard[e]) + n <= Len(said[Other(e)])
    /\ heard' = [heard EXCEPT ![e] = SubSeq(said[Other(e)], 1, Len(@) + n)]

(***************************************************************************)
(* e says at most one thing and hears any number of the next ones.         *)
(***************************************************************************)
Step(e) == /\ \/ \E m \in Message : said' = [said EXCEPT ![e] = Append(@, m)]
              \/ UNCHANGED said
           /\ \E n \in 0..Len(said[Other(e)]) : Hears(e, n)
           /\ lost => lost'

Lose == /\ lost' = TRUE
        /\ UNCHANGED <<said, heard>>

Next == Lose \/ \E e \in End : Step(e)

Spec == Init /\ [][Next]_vars

(***************************************************************************)
(* Neither end talks for ever here: in the end each has heard all the      *)
(* other said, or the connection is lost.                                  *)
(***************************************************************************)
NothingUnheard == <>[](lost \/ \A e \in End : heard[e] = said[Other(e)])

=============================================================================

----------------------------- MODULE MCPayments -----------------------------
(***************************************************************************)
(* Two routes of two hops, of different price, from "A" to "D".  From "B"  *)
(* on there is a second channel, which costs no fee and a longer wait, and *)
(* has run out of secrets.                                                 *)
(***************************************************************************)
EXTENDS Payments

MCEnds == [ab |-> [a |-> "A", b |-> "B"], bd |-> [a |-> "B", b |-> "D"],
           ac |-> [a |-> "A", b |-> "C"], cd |-> [a |-> "C", b |-> "D"],
           bd2 |-> [a |-> "B", b |-> "D"]]
MCCapacity == [ab |-> 4, bd |-> 4, ac |-> 6, cd |-> 4, bd2 |-> 4]
MCPolicy == [ab |-> [baseFee |-> 1, feeRatePpm |-> 0, cltvDelta |-> 5],
             bd |-> [baseFee |-> 1, feeRatePpm |-> 0, cltvDelta |-> 1],
             ac |-> [baseFee |-> 1, feeRatePpm |-> 0, cltvDelta |-> 2],
             cd |-> [baseFee |-> 1, feeRatePpm |-> 500000, cltvDelta |-> 1],
             bd2 |-> [baseFee |-> 0, feeRatePpm |-> 0, cltvDelta |-> 3]]
MCInvoice == {[id |-> 1, payee |-> "D", amount |-> 4], [id |-> 2, payee |-> "D", amount |-> 2],
              [id |-> 3, payee |-> "C", amount |-> 1]}
MCUnissued == {i \in MCInvoice : i.id = 3}
MCLife == [ch \in DOMAIN MCEnds |-> IF ch = "bd2" THEN 0 ELSE 9]

ASSUME NoneRunsOut == SecretsLast

\* The search does miss routes here: "B" keeps the dearer-in-amount way on, which the
\* channel from "A" is too small for, though a path could carry all of the 4.
ASSUME MissHappens ==
    /\ FindRoute("A", "D", 4, Height, {}) = NoRoute
    /\ \E q \in Paths("A", "D", {}) : PricedPath(q, "A", 4).fits
=============================================================================

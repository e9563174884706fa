--------------------------- MODULE AtomicPayment ----------------------------
(***************************************************************************)
(* What a payment over Volt promises: it is one step, in which the payer   *)
(* loses what the payee and the nodes between them gain, the payee gains   *)
(* exactly the invoice, nobody between loses, and no invoice is paid       *)
(* twice.  Neighbours may also pay each other over their own channel.      *)
(***************************************************************************)
EXTENDS Integers, FiniteSets, Functions

CONSTANTS Node, Invoice, Direct
VARIABLES wealth, paid

Sum(w) == SumFunctionOnSet(w, Node)

Init == wealth \in [Node -> Nat] /\ paid = {}

Pay(payer, inv) ==
    /\ inv \notin paid /\ payer # inv.payee
    /\ paid' = paid \cup {inv}
    /\ wealth'[inv.payee] = wealth[inv.payee] + inv.amount
    /\ \A n \in Node \ {payer, inv.payee} : wealth'[n] >= wealth[n]
    /\ Sum(wealth') = Sum(wealth)

PayNeighbour(from) ==
    /\ UNCHANGED paid
    /\ wealth[from] - wealth'[from] \in Direct
    /\ \E to \in Node \ {from} :
          wealth' = [wealth EXCEPT ![from] = wealth'[from], ![to] = @ + wealth[from] - wealth'[from]]

Next ==
    \/ \E inv \in Invoice : inv \in paid' /\ \E payer \in Node : Pay(payer, inv)
    \/ \E from \in Node : PayNeighbour(from)

Spec == Init /\ [][Next]_<<wealth, paid>>
=============================================================================

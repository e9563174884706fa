------------------------------- MODULE Router -------------------------------
(***************************************************************************)
(* volt/router.ts: the public graph of channels and findRoute, Dijkstra's  *)
(* search run backwards from the payee so that fees add up on the way.     *)
(* Among nodes, or edges, of equal cost the code takes the first inserted, *)
(* the model any one.  No caller passes hints, and they are left out.      *)
(***************************************************************************)
EXTENDS Integers, Sequences, FiniteSets, SequencesExt, FiniteSetsExt

CONSTANTS
    Node,
    Chan,           \* short channel ids
    Ends,           \* Ends[ch]: a record a, b of the nodes it joins
    Capacity,       \* Capacity[ch]
    Policy,         \* Policy[ch]: records baseFee, feeRatePpm, cltvDelta
    RiskFactor,     \* price of a locked unit for a block, per million
    MaxHops,
    MinFinalCltv

ASSUME RouterConstants ==
    /\ IsFiniteSet(Node) /\ IsFiniteSet(Chan)
    /\ Ends \in [Chan -> [a : Node, b : Node]] /\ \A ch \in Chan : Ends[ch].a # Ends[ch].b
    /\ Capacity \in [Chan -> Nat]
    /\ Policy \in [Chan -> [baseFee : Nat, feeRatePpm : Nat, cltvDelta : Nat]]
    /\ RiskFactor \in Nat /\ MaxHops \in Nat /\ MinFinalCltv \in Nat

NoRoute == [hops |-> <<>>, total |-> 0, cltv |-> 0]

\* addBidirectional: both directions under one policy, up to the capacity.
Edge == UNION {{[chan |-> ch, from |-> Ends[ch].a, to |-> Ends[ch].b],
                [chan |-> ch, from |-> Ends[ch].b, to |-> Ends[ch].a]} : ch \in Chan}

EdgeFee(e, amount) ==
    Policy[e.chan].baseFee + (amount * Policy[e.chan].feeRatePpm) \div 1000000

\* The sender's own channel is free to it.
FeeAlong(e, source, amount) == IF e.from = source THEN 0 ELSE EdgeFee(e, amount)
TimeCost(e, amount) == (amount * RiskFactor * Policy[e.chan].cltvDelta) \div 1000000
Carries(e, amount) == amount \in 1..Capacity[e.chan]

\* What the search knows of a node it has reached: the cost so far, the amount
\* that must arrive, its expiry, and the edge towards the payee.
Label(dist, amount, cltv, hops, next) ==
    [dist |-> dist, amount |-> amount, cltv |-> cltv, hops |-> hops, next |-> next]

\* What is known of the start of an edge when it is taken.
Through(labels, e, source) ==
    LET at == labels[e.to]
        fee == FeeAlong(e, source, at.amount)
    IN Label(at.dist + fee + TimeCost(e, at.amount + fee), at.amount + fee,
             at.cltv + Policy[e.chan].cltvDelta, at.hops + 1, e)

\* Mutant: a node that has been reached keeps the way it was reached by.
RelaxUnreached(labels, edges, source) ==
    LET offers(n) == {Through(labels, e, source) : e \in {e \in edges : e.from = n}}
        best(n) == CHOOSE l \in offers(n) : \A m \in offers(n) : l.dist <= m.dist
    IN [n \in DOMAIN labels \cup {e.from : e \in edges} |->
           IF n \in DOMAIN labels THEN labels[n] ELSE best(n)]

\* The edges into the node being visited: the cheapest from each node counts, if it is
\* cheaper than what was known of that node.
Relax(labels, edges, source) ==
    LET offers(n) == {Through(labels, e, source) : e \in {e \in edges : e.from = n}}
        best(n) == CHOOSE l \in offers(n) : \A m \in offers(n) : l.dist <= m.dist
        stays(n) == n \in DOMAIN labels /\ \A m \in offers(n) : labels[n].dist <= m.dist
    IN [n \in DOMAIN labels \cup {e.from : e \in edges} |->
           IF stays(n) THEN labels[n] ELSE best(n)]

\* One round: the cheapest node not visited, unless that is the sender.
Visit(search, source, exclude) ==
    LET frontier == DOMAIN search.labels \ search.visited
        cheapest == CHOOSE n \in frontier :
                        \A m \in frontier : search.labels[n].dist <= search.labels[m].dist
        edges == {e \in Edge : /\ e.to = cheapest
                               /\ e.from \notin search.visited \cup {cheapest}
                               /\ e.chan \notin exclude
                               /\ Carries(e, search.labels[cheapest].amount)}
    IN IF frontier = {} \/ source \in search.visited THEN search
       ELSE [visited |-> search.visited \cup {cheapest},
             labels |-> IF cheapest = source \/ search.labels[cheapest].hops >= MaxHops
                        THEN search.labels
                        ELSE Relax(search.labels, edges, source)]

Search(source, dest, amount, height, exclude) ==
    LET round[n \in 0..Cardinality(Node)] ==
            IF n = 0
            THEN [visited |-> {},
                  labels |-> [m \in {dest} |-> Label(0, amount, height + MinFinalCltv, 0, {})]]
            ELSE Visit(round[n - 1], source, exclude)
    IN round[Cardinality(Node)].labels

Hop(e, labels) ==
    [chan |-> e.chan, from |-> e.from, to |-> e.to, amount |-> labels[e.to].amount,
     fee |-> labels[e.from].amount - labels[e.to].amount, cltv |-> labels[e.to].cltv]

\* The route is read off from the sender on.  The first expiry is the first
\* hop's: a sender forwards nothing.
FindRoute(source, dest, amount, height, exclude) ==
    LET labels == Search(source, dest, amount, height, exclude)
        path[n \in 0..Cardinality(Node)] ==
            IF n = 0 THEN <<Hop(labels[source].next, labels)>>
            ELSE IF Last(path[n - 1]).to = dest THEN path[n - 1]
            ELSE Append(path[n - 1], Hop(labels[Last(path[n - 1]).to].next, labels))
        hops == path[Cardinality(Node)]
    IN IF source = dest \/ amount <= 0 \/ source \notin DOMAIN labels THEN NoRoute
       ELSE [hops |-> hops, total |-> labels[source].amount, cltv |-> hops[1].cltv]

----------------------------------------------------------------------------
(***************************************************************************)
(* The reference: every simple path that can carry the amount, priced from *)
(* the payee back.                                                         *)
(***************************************************************************)
IsPath(p, source, dest, exclude) ==
    /\ p[1].from = source /\ Last(p).to = dest
    /\ \A i \in 1..(Len(p) - 1) : p[i].to = p[i + 1].from
    /\ Cardinality({p[i].from : i \in DOMAIN p} \cup {dest}) = Len(p) + 1
    /\ \A i \in DOMAIN p : p[i].chan \notin exclude

Paths(source, dest, exclude) ==
    {p \in UNION {[1..n -> Edge] : n \in 1..(Cardinality(Node) - 1)} :
        IsPath(p, source, dest, exclude)}

\* What arrives at the start of each edge of a path, and what it has cost from there on.
PricedAlong(p, source, amount) ==
    LET at[i \in 1..(Len(p) + 1)] ==
            IF i = Len(p) + 1 THEN [amount |-> amount, cost |-> 0, fits |-> TRUE]
            ELSE LET fee == FeeAlong(p[i], source, at[i + 1].amount)
                 IN [amount |-> at[i + 1].amount + fee,
                     cost |-> at[i + 1].cost + fee + TimeCost(p[i], at[i + 1].amount + fee),
                     fits |-> at[i + 1].fits /\ Carries(p[i], at[i + 1].amount)]
    IN at
PricedPath(p, source, amount) == PricedAlong(p, source, amount)[1]

\* The search goes by another way from a node of the path on: one that costs no more in
\* fees and waiting, but has more to carry to that node.
Overtaken(p, source, amount, labels) ==
    \E i \in 2..Len(p) :
        /\ p[i].from \in DOMAIN labels
        /\ labels[p[i].from].amount > PricedAlong(p, source, amount)[i].amount
============================================================================

------------------------------ MODULE Payments ------------------------------
(***************************************************************************)
(* volt/network.ts: payments over several channels, in one part and in     *)
(* several.  A call runs to its end before anything else does; it is taken *)
(* here channel by channel, because a channel may throw (VoltChannel: no   *)
(* output of the next commitment is above dust; secrets.ts: no secret is   *)
(* left) and the exception leaves the call where it is.  An onion gives    *)
(* each hop the payload made for it (volt/onion.ts), an invoice is genuine *)
(* and in time (checkInvoice).                                             *)
(***************************************************************************)
EXTENDS Router, TLC

CONSTANTS
    Invoice,        \* records id, payee, amount
    Unissued,       \* those whose payee has no record of them
    Pushes,         \* possible divisions of a capacity when a channel opens
    Direct,         \* amounts neighbours pay each other
    DustLimit,
    Life,           \* updates a channel has secrets for, when the network is looked at
    Plenty,         \* more of them than a run can use
    MaxAttempts,    \* of a payment in one part
    MaxParts,       \* of a payment in several
    Height,
    MaxClosed,      \* bound: channels not open at once
    MaxStuck        \* bound: invoices with HTLCs an exception left behind

ASSUME PaymentConstants ==
    /\ MaxAttempts \in Nat /\ MaxParts \in Nat \ {0} /\ DustLimit \in Nat /\ Height \in Nat
    /\ Plenty \in Nat /\ Life \in [Chan -> 0..Plenty]
    /\ IsFiniteSet(Invoice) /\ \A inv \in Invoice : inv.payee \in Node /\ inv.amount \in Nat \ {0}
    /\ Pushes \subseteq Nat /\ Direct \subseteq Nat

VARIABLES
    balance,    \* balance[ch]: what each end holds
    pending,    \* HTLCs added and neither settled nor failed
    life,       \* updates left in a channel's chain of secrets, or Plenty
    open,       \* channels whose state is open
    settled,    \* invoices marked settled at their payee
    job,        \* the call in progress, or NoJob
    threw       \* history: invoices whose call ended in an exception

channels == <<balance, pending, life, open>>
paymentVars == <<channels, settled, job, threw>>

NoJob == [phase |-> "none"]
Side == {"a", "b"}
Other(s) == IF s = "a" THEN "b" ELSE "a"
SideOf(ch, n) == IF Ends[ch].a = n THEN "a" ELSE "b"

Offered(ch, s) == {h \in pending : h.chan = ch /\ h.side = s}
Amounts(hs) == SumFunctionOnSet([h \in hs |-> h.amount], hs)
Spendable(ch, s) == balance[ch][s] - Amounts(Offered(ch, s))

\* The next pair of commitments has an output (else revokeAndAdvance throws).
Signable(ch, bal, hs) ==
    \/ \E s \in Side : bal[ch][s] - Amounts({h \in hs : h.chan = ch /\ h.side = s}) >= DustLimit
    \/ \E h \in hs : h.chan = ch /\ h.amount >= DustLimit

\* An update takes the next of the channel's secrets, if there is one.
Worn(ch) == life[ch] = 0
Wear(ch) == life' = [life EXCEPT ![ch] = IF @ \in {0, Plenty} THEN @ ELSE @ - 1]

\* A channel's update returns, and the call goes on with next; or it throws, and
\* there is no call any more.
Returning(ch, next) ==
    /\ Wear(ch)
    /\ IF ~Worn(ch) /\ Signable(ch, balance', pending')
       THEN job' = next /\ UNCHANGED threw
       ELSE job' = NoJob /\ threw' = threw \cup {job.inv}

Wealth == [n \in Node |->
    LET own == {ch \in Chan : n \in {Ends[ch].a, Ends[ch].b}}
    IN SumFunctionOnSet([ch \in own |-> balance[ch][SideOf(ch, n)]], own)]

PaymentInit ==
    /\ \E push \in [Chan -> Pushes] :
          balance = [ch \in Chan |->
              LET given == Min({push[ch], Capacity[ch]})
              IN [s \in Side |-> IF s = "a" THEN Capacity[ch] - given ELSE given]]
    /\ pending = {} /\ life = Life /\ open = Chan /\ settled = {} /\ job = NoJob /\ threw = {}

----------------------------------------------------------------------------
(***************************************************************************)
(* Starting a call, and looking for a route.                               *)
(***************************************************************************)
Call(from, inv, multi) ==
    [phase |-> "route", from |-> from, inv |-> inv, multi |-> multi,
     left |-> inv.amount, tries |-> 0, parts |-> 0, exclude |-> {}, held |-> <<>>,
     route |-> NoRoute, part |-> 0, added |-> <<>>, todo |-> <<>>, before |-> Wealth]

\* Bounds: an invoice with an HTLC stuck is not paid again, nor is any other when
\* MaxStuck invoices have one.
Pay(from, inv, multi) ==
    /\ job = NoJob /\ from # inv.payee
    /\ \A h \in pending : h.inv # inv
    /\ Cardinality({h.inv : h \in pending}) < MaxStuck
    /\ job' = Call(from, inv, multi)
    /\ UNCHANGED <<channels, settled, threw>>

\* HTLCs are settled and failed from the last hop back, part by part.
HeldBack(held) == FlattenSeq([i \in DOMAIN held |-> Reverse(held[i].added)])

\* Mutant: the parts still held are forgotten.
ReleaseAttempt(j, todo) == [j EXCEPT !.phase = "release", !.todo = todo]

\* #abandonParts: whatever is to be undone, then every part still held; then the end.
Release(j, todo) == [j EXCEPT !.phase = "release", !.todo = todo \o HeldBack(j.held)]

RouteFor(j, amount) == FindRoute(j.from, j.inv.payee, amount, Height, j.exclude)

\* The whole remainder, or else its half, its quarter and so on.
Probes(j) ==
    IF j.multi THEN {amount \in 1..j.left : \E k \in 0..j.left : amount = j.left \div 2^k}
    ELSE {j.inv.amount}
Routable(j) == {amount \in Probes(j) : RouteFor(j, amount) # NoRoute}

Limit(j) == IF j.multi THEN 3 * MaxParts ELSE MaxAttempts

\* #deliver is called, with a route for this amount.
Deliver(amount) ==
    [job EXCEPT !.phase = "deliver", !.tries = @ + 1, !.part = amount,
                !.route = RouteFor(job, amount), !.added = <<>>]

\* A failed part counts against MaxParts too.
StartPart ==
    /\ job.phase = "route" /\ job.left > 0
    /\ job.tries < Limit(job) /\ (job.multi => job.parts < MaxParts)
    /\ LET routable == Routable(job)
       IN routable # {} /\ job' = Deliver(Max(routable))
    /\ UNCHANGED <<channels, settled, threw>>

GiveUp ==
    /\ job.phase = "route" /\ job.left > 0
    /\ \/ job.tries = Limit(job) \/ (job.multi /\ job.parts >= MaxParts)
       \/ Routable(job) = {}
    /\ job' = Release(job, <<>>)
    /\ UNCHANGED <<channels, settled, threw>>

----------------------------------------------------------------------------
(***************************************************************************)
(* #deliver, a hop at a time.                                              *)
(***************************************************************************)
HopIndex == Len(job.added) + 1
CurrentHop == job.route.hops[HopIndex]
IsFinal == HopIndex = Len(job.route.hops)
\* What the hop's onion layer tells its receiver to send on.
Payload == job.route.hops[HopIndex + 1]
IncomingAmount == IF HopIndex = 1 THEN job.route.total ELSE CurrentHop.amount
IncomingCltv == CurrentHop.cltv

\* An attempt that failed is undone; the channel to blame, if there is one, is
\* left out of the next.
FailPart(blame, added) ==
    IF blame = {} THEN Release(job, Reverse(added))
    ELSE [job EXCEPT !.phase = "undo", !.exclude = @ \cup blame, !.todo = Reverse(added),
                     !.parts = @ + 1]

\* The channel is not open, or its sender cannot spend as much.
HopRefused ==
    /\ job.phase = "deliver"
    /\ \/ CurrentHop.chan \notin open
       \/ Spendable(CurrentHop.chan, SideOf(CurrentHop.chan, CurrentHop.from)) < IncomingAmount
    /\ job' = FailPart({CurrentHop.chan}, job.added)
    /\ UNCHANGED <<channels, settled, threw>>

NewHtlc == [chan |-> CurrentHop.chan, side |-> SideOf(CurrentHop.chan, CurrentHop.from),
            amount |-> IncomingAmount, inv |-> job.inv, try |-> job.tries]

\* What becomes of the call once a hop's HTLC has been added: a forwarding node
\* must be paid and have time; a payee must know the invoice, and not as settled.
AfterHop(h) ==
    LET added == Append(job.added, h)
    IN CASE ~IsFinal /\ (Payload.amount >= IncomingAmount \/ Payload.cltv >= IncomingCltv)
              -> FailPart({Payload.chan}, added)
         [] IsFinal /\ (job.inv \in Unissued \/ job.inv \in settled) -> FailPart({}, added)
         [] IsFinal /\ job.inv \notin Unissued \cup settled
              -> [job EXCEPT !.phase = "route", !.added = <<>>, !.left = @ - job.part,
                             !.parts = @ + 1,
                             !.held = Append(@, [amount |-> job.part, added |-> added])]
         [] OTHER -> [job EXCEPT !.added = added]

\* addHtlc may throw with the HTLC in place: nothing on the way is undone.
AddHop ==
    /\ job.phase = "deliver"
    /\ CurrentHop.chan \in open
    /\ Spendable(NewHtlc.chan, NewHtlc.side) >= IncomingAmount
    /\ pending' = pending \cup {NewHtlc}
    /\ balance' = balance
    /\ Returning(NewHtlc.chan, AfterHop(NewHtlc))
    /\ UNCHANGED <<open, settled>>

----------------------------------------------------------------------------
(***************************************************************************)
(* Failing and settling HTLCs.  Neither asks whether a channel is open.    *)
(***************************************************************************)
\* failHtlc, in an attempt that failed (undo) or a payment that did (release).
FailNext ==
    /\ job.phase \in {"undo", "release"} /\ job.todo # <<>>
    /\ pending' = pending \ {Head(job.todo)}
    /\ balance' = balance
    /\ Returning(Head(job.todo).chan, [job EXCEPT !.todo = Tail(@)])
    /\ UNCHANGED <<open, settled>>

Undone ==
    /\ job.phase \in {"undo", "release"} /\ job.todo = <<>>
    /\ job' = IF job.phase = "undo" THEN [job EXCEPT !.phase = "route"] ELSE NoJob
    /\ UNCHANGED <<channels, settled, threw>>

\* Mutant: the preimage is released as soon as a part has arrived.
BeginSettleEarly ==
    /\ job.phase = "route" /\ job.held # <<>>
    /\ job' = [job EXCEPT !.phase = "settle", !.todo = HeldBack(job.held)]
    /\ UNCHANGED <<channels, settled, threw>>

\* #settle and #settleParts: only with the whole amount there is the preimage used.
BeginSettle ==
    /\ job.phase = "route" /\ job.left = 0
    /\ job' = [job EXCEPT !.phase = "settle", !.todo = HeldBack(job.held)]
    /\ UNCHANGED <<channels, settled, threw>>

\* settleHtlc moves the money, then throws if it cannot sign.
SettleNext ==
    /\ job.phase = "settle" /\ job.todo # <<>>
    /\ LET h == Head(job.todo)
       IN /\ balance' = [balance EXCEPT ![h.chan][h.side] = @ - h.amount,
                                        ![h.chan][Other(h.side)] = @ + h.amount]
          /\ pending' = pending \ {h}
          /\ Returning(h.chan, [job EXCEPT !.todo = Tail(@)])
    /\ UNCHANGED <<open, settled>>

MarkSettled ==
    /\ job.phase = "settle" /\ job.todo = <<>>
    /\ settled' = settled \cup {job.inv}
    /\ job' = NoJob
    /\ UNCHANGED <<channels, threw>>

----------------------------------------------------------------------------
(***************************************************************************)
(* Between calls: neighbours pay each other, channels close and reopen.    *)
(***************************************************************************)
PayDirect(ch, s, amount) ==
    /\ job = NoJob /\ ch \in open
    /\ amount <= Spendable(ch, s)
    /\ balance' = [balance EXCEPT ![ch][s] = @ - amount, ![ch][Other(s)] = @ + amount]
    /\ Wear(ch)
    /\ UNCHANGED <<pending, open, settled, job, threw>>

CloseChannel(ch) ==
    /\ job = NoJob /\ ch \in open
    /\ Cardinality(Chan \ open) < MaxClosed
    /\ open' = open \ {ch}
    /\ UNCHANGED <<balance, pending, life, settled, job, threw>>

Confirm(ch) ==
    /\ job = NoJob /\ ch \notin open
    /\ open' = open \cup {ch}
    /\ UNCHANGED <<balance, pending, life, settled, job, threw>>

PaymentNext ==
    \/ \E n \in Node, inv \in Invoice, multi \in BOOLEAN : Pay(n, inv, multi)
    \/ StartPart \/ GiveUp \/ HopRefused \/ AddHop
    \/ FailNext \/ Undone \/ BeginSettle \/ SettleNext \/ MarkSettled
    \/ \E ch \in Chan, s \in Side, amount \in Direct : PayDirect(ch, s, amount)
    \/ \E ch \in Chan : CloseChannel(ch) \/ Confirm(ch)

PaymentSpec == PaymentInit /\ [][PaymentNext]_paymentVars

----------------------------------------------------------------------------
(***************************************************************************)
(* Properties.                                                             *)
(***************************************************************************)

\* Once a call has returned, none of its HTLCs holds money anywhere, unless a
\* channel threw (#unwind, #abandonParts and abort fail all that was added,
\* #settle and #settleParts settle all of it).
NothingLeftLocked == job = NoJob => \A h \in pending : h.inv \in threw

\* A payment is one step, all of its hops and parts or none, and pays an invoice
\* once: the calls here implement AtomicPayment.  What has moved while the
\* preimage travels back counts from the end of the call.
Atomic == INSTANCE AtomicPayment WITH
    wealth <- IF job.phase = "settle" THEN job.before ELSE Wealth,
    paid <- settled

PaymentsAreAtomic == Atomic!Spec

\* A channel that has a secret to reveal when a run begins has as many as the run takes.
SecretsLast == \A ch \in Chan : Life[ch] \in {0, Plenty}

PathOf(route) ==
    [i \in DOMAIN route.hops |->
        [chan |-> route.hops[i].chan, from |-> route.hops[i].from, to |-> route.hops[i].to]]

IsPriced(route, price) ==
    /\ price.fits /\ price.amount = route.total
    /\ \A i \in 1..(Len(route.hops) - 1) : route.hops[i].cltv > route.hops[i + 1].cltv

NoDearer(route, cost, price) == price.fits => route # NoRoute /\ cost <= price.cost

\* Of a search: the route it finds is one a path can carry, priced right from the payee
\* back, with expiries that fall; and a path that could carry the amount and is not
\* overtaken is no cheaper, so that there is a route if there is such a path.
FoundBy(route, labels, from, to, amount, exclude) ==
    /\ route # NoRoute => /\ IsPath(PathOf(route), from, to, exclude)
                         /\ IsPriced(route, PricedPath(PathOf(route), from, amount))
    /\ \A q \in Paths(from, to, exclude) :
          ~Overtaken(q, from, amount, labels) =>
              NoDearer(route, PricedPath(PathOf(route), from, amount).cost,
                       PricedPath(q, from, amount))

FoundRight(from, to, amount, exclude) ==
    FoundBy(FindRoute(from, to, amount, Height, exclude),
            Search(from, to, amount, Height, exclude), from, to, amount, exclude)

Asked == [from : Node, to : {inv.payee : inv \in Invoice}, exclude : SUBSET Chan,
          amount : UNION {1..inv.amount : inv \in Invoice}]
FoundTable == [q \in Asked |->
                 q.from # q.to => FoundRight(q.from, q.to, q.amount, q.exclude)] @@ <<>>

\* Whatever amount a call looks for a route for, with whatever channels it has been told
\* to leave out: the route found is the cheapest, but for paths that are overtaken.
\* (findRoute's "cheapest route" without the exception is not so.)
CheapestUnlessOvertaken ==
    job.phase = "route" =>
        \A amount \in Probes(job) :
            FoundTable[[from |-> job.from, to |-> job.inv.payee, exclude |-> job.exclude,
                        amount |-> amount]]
============================================================================

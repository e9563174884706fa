----------------------------- MODULE VoltProofs -----------------------------
(***************************************************************************)
(* Theorems about VoltChannel, for any amounts, any chain of secrets and   *)
(* any bounds, and about Watchtower, for any ladder, damage and relay      *)
(* fees.                                                                   *)
(*                                                                         *)
(* Records: a commitment recorded under the current number is the current  *)
(* state, though an update changes the state before it signs and signing   *)
(* may throw.  What makes it inductive is that nothing is recorded ahead   *)
(* of the number, nor at all once the secrets have run out.                *)
(*                                                                         *)
(* Money: the balances are the funding output and cover what is offered,   *)
(* and whatever was signed pays its funding output out but for dust and    *)
(* the closing fee.                                                        *)
(*                                                                         *)
(* Tower: the rungs in memory are those of the table, which has those the  *)
(* client has receipts for; and a breach it answers for is early, seen     *)
(* soon, under a penalty that climbs in time, or swept.                    *)
(***************************************************************************)
EXTENDS VoltChannel, Watchtower, Induction, TLAPS

\* Nothing is recorded for commitments to come, or beyond the secrets.
RecordedInRange ==
    /\ number \in Nat
    /\ DOMAIN history \subseteq 0..number
    /\ \A n \in DOMAIN history : n < ChainDepth

IInv == RecordedInRange /\ RecordedIsCurrent /\ RevokedIsSuperseded

\* The commitment recorded for one number, when it can be signed at all.
LEMMA CommitRecords ==
    ASSUME NEW n, NEW bal, NEW hs
    PROVE  /\ Committable(n, bal, hs) =>
                /\ DOMAIN Commit(n, bal, hs) = DOMAIN history \cup {n}
                /\ \A s \in Side : Commit(n, bal, hs)[n][s] = BuildCommitment(s, n, bal, hs)
           /\ ~Committable(n, bal, hs) => Commit(n, bal, hs) = history
BY DEF Commit

\* The initial channel has recorded and revoked nothing.
LEMMA InitIInv == Init => IInv
BY DEF Init, IInv, RecordedInRange, RecordedIsCurrent, RevokedIsSuperseded

\* Every update, whether signing succeeds, throws, or has no secrets left.
LEMMA UpdateKeeps ==
    ASSUME IInv, NEW bal, NEW hs, Update(bal, hs)
    PROVE  IInv'
<1> USE DEF IInv, RecordedInRange
<1>0. ChainDepth \in Nat /\ number \in Nat
  BY ChannelAssumption DEF ChannelAssumption
<1>1. CASE number < ChainDepth
  <2>1. /\ revoked' = revoked \cup {number}
        /\ number' = number + 1
        /\ history' = Commit(number + 1, bal, hs)
    BY <1>1 DEF Update, RevokeAndAdvance
  <2>2. RevokedIsSuperseded'
    BY <1>0, <2>1 DEF Update, RevokedIsSuperseded
  <2>3. CASE Committable(number + 1, bal, hs)
    <3>1. DOMAIN history' = DOMAIN history \cup {number + 1}
      BY <2>1, <2>3, CommitRecords
    <3>2. RecordedInRange'
      BY <1>0, <2>1, <2>3, <3>1 DEF Committable
    <3>3. RecordedIsCurrent'
      <4>1. \A s \in Side : history'[number'][s] = BuildCommitment(s, number + 1, bal, hs)
        BY <2>1, <2>3, CommitRecords
      <4>2. \A s \in Side : BuildCommitment(s, number + 1, bal, hs)
                              = BuildCommitment(s, number, balance, htlcs)'
        BY <2>1 DEF Update, BuildCommitment
      <4> QED  BY <4>1, <4>2 DEF RecordedIsCurrent
    <3> QED  BY <2>2, <3>2, <3>3
  <2>4. CASE ~Committable(number + 1, bal, hs)
    <3>1. history' = history
      BY <2>1, <2>4, CommitRecords
    <3>2. RecordedInRange' /\ number' \notin DOMAIN history'
      BY <1>0, <2>1, <3>1
    <3> QED  BY <2>2, <3>2 DEF RecordedIsCurrent
  <2> QED  BY <2>3, <2>4
<1>2. CASE ~(number < ChainDepth)
  <2>1. UNCHANGED <<revoked, number, history, splicedAt>>
    BY <1>2 DEF Update, RevokeAndAdvance
  <2>2. number \notin DOMAIN history
    BY <1>0, <1>2
  <2> QED  BY <2>1, <2>2 DEF RecordedIsCurrent, RevokedIsSuperseded
<1> QED  BY <1>1, <1>2

\* Steps that leave the channel's own state alone.
LEMMA OthersKeep ==
    ASSUME IInv, UNCHANGED <<balance, number, htlcs, revoked, history, funding, splicedAt>>
    PROVE  IInv'
BY DEF IInv, RecordedInRange, RecordedIsCurrent, RevokedIsSuperseded,
       BuildCommitment

\* Every step keeps the invariant.
LEMMA NextIInv == IInv /\ [Next]_vars => IInv'
<1> SUFFICES ASSUME IInv, [Next]_vars PROVE IInv'
  OBVIOUS
<1>0. ChainDepth \in Nat /\ number \in Nat
  BY ChannelAssumption DEF ChannelAssumption, IInv, RecordedInRange
<1>1. CASE ConfirmChannel
  <2>1. history' = Commit(number, balance, htlcs)
        /\ UNCHANGED <<balance, number, htlcs, revoked, funding, splicedAt>>
    BY <1>1 DEF ConfirmChannel
  <2>2. CASE Committable(number, balance, htlcs)
    <3>1. /\ DOMAIN history' = DOMAIN history \cup {number}
          /\ \A s \in Side : history'[number][s] = BuildCommitment(s, number, balance, htlcs)
      BY <2>1, <2>2, CommitRecords
    <3>2. RecordedInRange' /\ RevokedIsSuperseded'
      BY <1>0, <2>1, <2>2, <3>1
      DEF IInv, RecordedInRange, RevokedIsSuperseded, Committable
    <3>3. RecordedIsCurrent'
      BY <2>1, <3>1
      DEF RecordedIsCurrent, BuildCommitment
    <3> QED  BY <3>2, <3>3 DEF IInv
  <2>3. CASE ~Committable(number, balance, htlcs)
    BY <2>1, <2>3, CommitRecords, OthersKeep
  <2> QED  BY <2>2, <2>3
<1>2. CASE \E s \in Side, v \in Amount : Pay(s, v)
  BY <1>2, UpdateKeeps DEF Pay
<1>3. CASE \E s \in Side, v \in Amount, e \in Expiry : AddHtlc(s, v, e)
  BY <1>3, UpdateKeeps DEF AddHtlc
<1>4. CASE \E i \in DOMAIN htlcs : SettleHtlc(i) \/ FailHtlc(i)
  BY <1>4, UpdateKeeps DEF SettleHtlc, FailHtlc
<1>5. CASE \E s \in Side, in \in SpliceIn, out \in SpliceOut : Splice(s, in, out)
  <2>1. /\ number' = number + 1 /\ splicedAt' = splicedAt \cup {number}
        /\ UNCHANGED <<revoked, history>>
    BY <1>5 DEF Splice
  <2>2. RecordedInRange' /\ number' \notin DOMAIN history'
    BY <1>0, <2>1 DEF IInv, RecordedInRange
  <2>3. RevokedIsSuperseded'
    BY <1>0, <2>1 DEF IInv, RevokedIsSuperseded
  <2> QED  BY <2>2, <2>3 DEF IInv, RecordedIsCurrent
<1>6. CASE CooperativeClose \/ \E s \in Side : ForceClose(s)
  BY <1>6, OthersKeep DEF CooperativeClose, ForceClose
<1>7. CASE UNCHANGED offChain
  BY <1>7, OthersKeep DEF offChain
<1>8. CASE \/ Tick \/ MineFunding \/ \E tx \in Signed \cup closes : Mine(tx)
           \/ \E o \in unspent :
                SpendPlain(o) \/ SpendDelayed(o) \/ SweepHtlc(o) \/ RefundHtlc(o)
           \/ Penalty
  <2>1. UNCHANGED offChain
    BY <1>8 DEF Tick, MineFunding, Mine, SpendPlain, SpendDelayed, SweepHtlc,
                RefundHtlc, Take, Penalty, Spend
  <2> QED  BY <1>7, <2>1
<1> QED
  BY <1>1, <1>2, <1>3, <1>4, <1>5, <1>6, <1>7, <1>8 DEF Next, vars

----------------------------------------------------------------------------
\* The inductive invariant holds in every reachable state, whatever throws.
THEOREM Invariance == Spec => []IInv
BY InitIInv, NextIInv, PTL DEF Spec

\* The secrets revealed are those of the commitments updates have superseded,
\* and never those of the one in force (revokeAndAdvance).
THEOREM RevokedSuperseded == Spec => []RevokedIsSuperseded
<1>1. IInv => RevokedIsSuperseded
  BY DEF IInv
<1> QED  BY <1>1, Invariance, PTL

\* What is recorded under the current number is what would be signed now, on
\* the current funding output (commit, and every operation that calls it).
THEOREM RecordedCurrent == Spec => []RecordedIsCurrent
<1>1. IInv => RecordedIsCurrent
  BY DEF IInv
<1> QED  BY <1>1, Invariance, PTL

----------------------------------------------------------------------------
(***************************************************************************)
(* Money.  Balances are the funding output and cover what is offered; what *)
(* is signed then pays out all of it but the dust.                         *)
(***************************************************************************)
Htlc == [offerer : Side, amount : Nat, expiry : Nat, status : {"pending", "settled", "failed"}]

ChannelTyped ==
    /\ balance \in [Side -> Nat]
    /\ htlcs \in Seq(Htlc) /\ Len(htlcs) <= MaxHtlcs
    /\ funding \in Seq(Nat) /\ funding # <<>>

Offered(hs, s) == {i \in Pending(hs) : hs[i].offerer = s}
AmountsOf(hs) == [i \in DOMAIN hs |-> hs[i].amount]

LEMMA Sides == Side = {"a", "b"} /\ Other("a") = "b" /\ Other("b") = "a"
BY DEF Side, Other

\* The HTLCs are finitely many, and what they amount to is a sum.
LEMMA PendingFacts ==
    ASSUME NEW hs \in Seq(Htlc)
    PROVE  /\ IsFiniteSet(Pending(hs)) /\ Cardinality(Pending(hs)) <= Len(hs)
           /\ NatOn(AmountsOf(hs), DOMAIN hs)
           /\ \A s \in Side : /\ IsFiniteSet(Offered(hs, s)) /\ Offered(hs, s) \subseteq DOMAIN hs
                              /\ PendingOut(hs, s) = SumFunctionOnSet(AmountsOf(hs), Offered(hs, s))
                              /\ PendingOut(hs, s) \in Nat
<1>1. DOMAIN hs = 1..Len(hs) /\ Len(hs) \in Nat
  OBVIOUS
<1>2. IsFiniteSet(1..Len(hs)) /\ Cardinality(1..Len(hs)) = Len(hs)
  BY <1>1, FS_Interval
<1>3. Pending(hs) \in SUBSET (1..Len(hs))
  BY <1>1 DEF Pending
<1>4. IsFiniteSet(Pending(hs)) /\ Cardinality(Pending(hs)) <= Len(hs)
  BY <1>2, <1>3, FS_Subset
<1>5. NatOn(AmountsOf(hs), DOMAIN hs)
  <2>1. \A i \in DOMAIN hs : hs[i] \in Htlc
    BY <1>1
  <2>2. \A h \in Htlc : h.amount \in Nat
    BY DEF Htlc
  <2> QED
    BY <2>1, <2>2 DEF NatOn, AmountsOf
<1>6. ASSUME NEW s \in Side
      PROVE  /\ IsFiniteSet(Offered(hs, s)) /\ Offered(hs, s) \subseteq DOMAIN hs
             /\ PendingOut(hs, s) = SumFunctionOnSet(AmountsOf(hs), Offered(hs, s))
             /\ PendingOut(hs, s) \in Nat
  <2> DEFINE S == Offered(hs, s)
             f == [i \in S |-> hs[i].amount]
  <2>1. IsFiniteSet(S) /\ S \subseteq DOMAIN hs
    BY <1>1, <1>3, <1>4, FS_Subset DEF Offered
  <2>2. PendingOut(hs, s) = SumFunctionOnSet(f, S)
    BY DEF PendingOut, SumFunction, Offered
  <2>3. NatOn(AmountsOf(hs), S) /\ AgreeOn(AmountsOf(hs), f, S)
    BY <1>5, <2>1 DEF NatOn, AgreeOn, AmountsOf
  <2> HIDE DEF S, f
  <2>4. SumFunctionOnSet(AmountsOf(hs), S) = SumFunctionOnSet(f, S)
    BY <2>1, <2>3, SumAgree
  <2>5. SumFunctionOnSet(AmountsOf(hs), S) \in Nat
    BY <2>1, <2>3, SumNat
  <2> QED
    BY <2>1, <2>2, <2>4, <2>5 DEF S
<1> QED
  BY <1>4, <1>5, <1>6

\* The same HTLCs offered for the same amounts.
LEMMA SameOffers ==
    ASSUME NEW hs \in Seq(Htlc), NEW ks \in Seq(Htlc), NEW s \in Side,
           Offered(hs, s) = Offered(ks, s),
           AgreeOn(AmountsOf(hs), AmountsOf(ks), Offered(hs, s))
    PROVE  PendingOut(hs, s) = PendingOut(ks, s)
<1>1. NatOn(AmountsOf(hs), Offered(hs, s))
  BY PendingFacts DEF NatOn
<1> QED
  BY <1>1, PendingFacts, SumAgree

\* One HTLC more on offer.
LEMMA OneMoreOffer ==
    ASSUME NEW hs \in Seq(Htlc), NEW ks \in Seq(Htlc), NEW s \in Side, NEW i \in DOMAIN ks,
           i \notin Offered(hs, s), Offered(ks, s) = Offered(hs, s) \cup {i},
           AgreeOn(AmountsOf(hs), AmountsOf(ks), Offered(hs, s))
    PROVE  PendingOut(ks, s) = PendingOut(hs, s) + ks[i].amount
<1> DEFINE S == Offered(hs, s)
           f == AmountsOf(hs)
           g == AmountsOf(ks)
<1>1. /\ IsFiniteSet(S) /\ PendingOut(hs, s) = SumFunctionOnSet(f, S)
      /\ PendingOut(ks, s) = SumFunctionOnSet(g, S \cup {i})
      /\ NatOn(f, S) /\ NatOn(g, S \cup {i}) /\ AgreeOn(f, g, S) /\ i \notin S
      /\ g[i] = ks[i].amount
  BY PendingFacts DEF NatOn, AmountsOf
<1> HIDE DEF S, f, g
<1>2. SumFunctionOnSet(g, S \cup {i}) = SumFunctionOnSet(g, S) + g[i]
  BY <1>1, SumMore
<1>3. SumFunctionOnSet(f, S) = SumFunctionOnSet(g, S)
  BY <1>1, SumAgree
<1> QED
  BY <1>1, <1>2, <1>3

\* addHtlc.
LEMMA AddedOffer ==
    ASSUME NEW hs \in Seq(Htlc), NEW h \in Htlc, h.status = "pending"
    PROVE  /\ Append(hs, h) \in Seq(Htlc) /\ Len(Append(hs, h)) = Len(hs) + 1
           /\ PendingOut(Append(hs, h), h.offerer) = PendingOut(hs, h.offerer) + h.amount
           /\ \A s \in Side : s # h.offerer => PendingOut(Append(hs, h), s) = PendingOut(hs, s)
<1> DEFINE ks == Append(hs, h)
           i == Len(hs) + 1
<1>1. /\ ks \in Seq(Htlc) /\ Len(ks) = i /\ i \in DOMAIN ks /\ i \notin DOMAIN hs /\ ks[i] = h
      /\ DOMAIN ks = DOMAIN hs \cup {i} /\ \A j \in DOMAIN hs : ks[j] = hs[j]
  OBVIOUS
<1> HIDE DEF ks, i
<1>2. h.offerer \in Side
  BY DEF Htlc
<1>3. /\ Offered(ks, h.offerer) = Offered(hs, h.offerer) \cup {i}
      /\ i \notin Offered(hs, h.offerer)
      /\ \A s \in Side : s # h.offerer => Offered(ks, s) = Offered(hs, s)
  BY <1>1, <1>2 DEF Offered, Pending
<1>4. \A s \in Side : AgreeOn(AmountsOf(hs), AmountsOf(ks), Offered(hs, s))
  BY <1>1, PendingFacts DEF AgreeOn, AmountsOf
<1>5. PendingOut(ks, h.offerer) = PendingOut(hs, h.offerer) + ks[i].amount
  BY <1>1, <1>2, <1>3, <1>4, OneMoreOffer
<1>6. \A s \in Side : s # h.offerer => PendingOut(ks, s) = PendingOut(hs, s)
  BY <1>1, <1>3, <1>4, SameOffers
<1> QED
  BY <1>1, <1>5, <1>6 DEF ks, i

\* settleHtlc and failHtlc.
LEMMA ResolvedOffer ==
    ASSUME NEW hs \in Seq(Htlc), NEW i \in Pending(hs), NEW st \in {"settled", "failed"}
    PROVE  LET ks == [hs EXCEPT ![i].status = st]
           IN  /\ ks \in Seq(Htlc) /\ Len(ks) = Len(hs)
               /\ hs[i].offerer \in Side /\ hs[i].amount \in Nat
               /\ PendingOut(hs, hs[i].offerer) = PendingOut(ks, hs[i].offerer) + hs[i].amount
               /\ \A s \in Side : s # hs[i].offerer => PendingOut(ks, s) = PendingOut(hs, s)
<1> DEFINE ks == [hs EXCEPT ![i].status = st]
<1>1. i \in DOMAIN hs /\ hs[i] \in Htlc /\ hs[i].status = "pending"
  BY DEF Pending
<1>2. /\ DOMAIN ks = DOMAIN hs
      /\ \A j \in DOMAIN hs : j # i => ks[j] = hs[j]
      /\ ks[i] = [hs[i] EXCEPT !.status = st]
  BY <1>1
<1>3. /\ ks[i].offerer = hs[i].offerer /\ ks[i].amount = hs[i].amount /\ ks[i].status = st
      /\ ks[i] \in Htlc /\ hs[i].offerer \in Side /\ hs[i].amount \in Nat
  BY <1>1, <1>2 DEF Htlc
<1>4. ks \in Seq(Htlc) /\ Len(ks) = Len(hs)
  <2>1. Len(hs) \in Nat /\ DOMAIN hs = 1..Len(hs) /\ \A j \in DOMAIN hs : hs[j] \in Htlc
    OBVIOUS
  <2>2. ks = [j \in 1..Len(hs) |-> ks[j]] /\ \A j \in 1..Len(hs) : ks[j] \in Htlc
    <3> HIDE DEF ks
    <3>1. \A j \in 1..Len(hs) : ks[j] \in Htlc
      BY <1>2, <1>3, <2>1
    <3>2. ks = [j \in 1..Len(hs) |-> ks[j]]
      <4>1. ks = [j \in DOMAIN hs |-> ks[j]]
        BY DEF ks
      <4> QED
        BY <2>1, <4>1
    <3> QED
      BY <3>1, <3>2
  <2> HIDE DEF ks
  <2>3. [j \in 1..Len(hs) |-> ks[j]] \in Seq(Htlc)
    BY <2>1, <2>2
  <2>4. ks \in Seq(Htlc) /\ DOMAIN ks = 1..Len(hs)
    BY <1>2, <2>1, <2>2, <2>3
  <2> QED
    BY <2>1, <2>4
<1> HIDE DEF ks
<1>5. /\ Offered(hs, hs[i].offerer) = Offered(ks, hs[i].offerer) \cup {i}
      /\ i \notin Offered(ks, hs[i].offerer)
      /\ \A s \in Side : s # hs[i].offerer => Offered(ks, s) = Offered(hs, s)
  <2>1. ks[i].status # "pending"
    BY <1>3
  <2>2. \A j : j \in Pending(ks) <=> j \in Pending(hs) /\ j # i
    BY <1>1, <1>2, <2>1 DEF Pending
  <2>3. \A j \in Pending(ks) : ks[j].offerer = hs[j].offerer
    BY <1>2, <2>2 DEF Pending
  <2>4. \A s : \A j : j \in Offered(ks, s) <=> j \in Offered(hs, s) /\ j # i
    BY <2>2, <2>3 DEF Offered
  <2>5. \A s : i \in Offered(hs, s) <=> s = hs[i].offerer
    BY DEF Offered
  <2> QED
    BY <2>4, <2>5
<1>6. \A s \in Side : AgreeOn(AmountsOf(ks), AmountsOf(hs), Offered(ks, s))
  BY <1>2, <1>3, <1>4, PendingFacts DEF AgreeOn, AmountsOf
<1>7. PendingOut(hs, hs[i].offerer) = PendingOut(ks, hs[i].offerer) + hs[i].amount
  BY <1>1, <1>3, <1>4, <1>5, <1>6, OneMoreOffer
<1>8. \A s \in Side : s # hs[i].offerer => PendingOut(ks, s) = PendingOut(hs, s)
  BY <1>4, <1>5, <1>6, SameOffers
<1> QED
  BY <1>3, <1>4, <1>7, <1>8 DEF ks

\* With nothing pending nothing is offered.
LEMMA NoOffers ==
    ASSUME NEW hs \in Seq(Htlc), Pending(hs) = {}, NEW s \in Side
    PROVE  PendingOut(hs, s) = 0
<1>1. Offered(hs, s) = {}
  BY DEF Offered
<1> QED
  BY <1>1, PendingFacts, SumNone

----------------------------------------------------------------------------
(***************************************************************************)
(* Outputs.                                                                *)
(***************************************************************************)
Values(outs) == [o \in outs |-> o.value]
NotDust(outs) == {o \in outs : o.value >= DustLimit}

\* Dropping dust from a few outputs loses less than the dust limit for each.
LEMMA DustLost ==
    ASSUME NEW All, IsFiniteSet(All), Cardinality(All) <= 2 + MaxHtlcs,
           \A o \in All : o.value \in Nat
    PROVE  /\ Total(All) \in Nat /\ Total(NotDust(All)) \in Nat
           /\ Total(NotDust(All)) <= Total(All)
           /\ Total(All) - Total(NotDust(All)) <= (2 + MaxHtlcs) * (DustLimit - 1)
<1> DEFINE V == Values(All)
           K == NotDust(All)
           D == All \ K
           c == DustLimit - 1
<1>1. IsFiniteSet(K) /\ IsFiniteSet(D) /\ K \cap D = {} /\ K \cup D = All
      /\ Cardinality(D) <= 2 + MaxHtlcs
  <2>1. K \in SUBSET All /\ D \in SUBSET All
    BY DEF NotDust
  <2>2. Cardinality(D) <= Cardinality(All) /\ Cardinality(D) \in Nat /\ Cardinality(All) \in Nat
    BY <2>1, FS_Subset, FS_CardinalityType
  <2>3. MaxHtlcs \in Nat
    BY ChannelAssumption DEF ChannelAssumption
  <2> QED
    BY <2>1, <2>2, <2>3, FS_Subset
<1>2. c \in Nat /\ 2 + MaxHtlcs \in Nat /\ DustLimit \in Nat
  BY ChannelAssumption DEF ChannelAssumption
<1>3. NatOn(V, All) /\ NatOn(V, K) /\ NatOn(V, D) /\ NatOn(V, K \cup D)
  BY DEF NatOn, Values, NotDust
<1>4. AtMost(V, D, c)
  <2> SUFFICES ASSUME NEW o \in D PROVE V[o] <= c
    BY DEF AtMost
  <2>1. o \in All /\ ~(o.value >= DustLimit) /\ o.value \in Nat /\ V[o] = o.value
    BY DEF NotDust, Values
  <2> QED
    BY <1>2, <2>1
<1>5. Total(All) = SumFunctionOnSet(V, All)
  BY DEF Total, SumFunction, Values
<1>6. Total(K) = SumFunctionOnSet(V, K)
  <2>1. Total(K) = SumFunctionOnSet(Values(K), K)
    BY DEF Total, SumFunction, Values
  <2>2. AgreeOn(V, Values(K), K)
    BY <1>1 DEF AgreeOn, Values
  <2> HIDE DEF V, K
  <2> QED
    BY <1>1, <1>3, <2>1, <2>2, SumAgree
<1> HIDE DEF V, K, D, c
<1>7. SumFunctionOnSet(V, All) = SumFunctionOnSet(V, K) + SumFunctionOnSet(V, D)
  BY <1>1, <1>3, SumSplit
<1>8. SumFunctionOnSet(V, K) \in Nat /\ SumFunctionOnSet(V, D) \in Nat
  BY <1>1, <1>3, SumNat
<1>9. SumFunctionOnSet(V, D) <= (2 + MaxHtlcs) * c
  BY <1>1, <1>2, <1>3, <1>4, SumBounded
<1> DEFINE bound == (2 + MaxHtlcs) * (DustLimit - 1)
<1>10. SumFunctionOnSet(V, D) <= bound /\ bound \in Int
  BY <1>2, <1>9 DEF c
<1> HIDE DEF bound
<1>11. /\ Total(All) \in Nat /\ Total(K) \in Nat
       /\ Total(K) <= Total(All)
       /\ Total(All) - Total(K) <= bound
  BY <1>5, <1>6, <1>7, <1>8, <1>10
<1> QED
  BY <1>11 DEF K, bound

\* Two outputs, of different kinds or owners.
LEMMA TwoOutputs ==
    ASSUME NEW o, NEW p, o # p, o.value \in Nat, p.value \in Nat
    PROVE  /\ IsFiniteSet({o, p}) /\ Cardinality({o, p}) = 2
           /\ Total({o, p}) = o.value + p.value
<1> DEFINE V == Values({o, p})
<1>1. /\ IsFiniteSet({}) /\ Cardinality({}) = 0
      /\ IsFiniteSet({} \cup {o}) /\ Cardinality({} \cup {o}) = 1
      /\ IsFiniteSet(({} \cup {o}) \cup {p}) /\ Cardinality(({} \cup {o}) \cup {p}) = 2
  <2>1. IsFiniteSet({}) /\ Cardinality({}) = 0
    BY FS_EmptySet
  <2>2. o \notin {} /\ p \notin {} \cup {o}
    OBVIOUS
  <2>3. IsFiniteSet({} \cup {o}) /\ Cardinality({} \cup {o}) = 1
    BY <2>1, <2>2, FS_AddElement
  <2>4. IsFiniteSet(({} \cup {o}) \cup {p}) /\ Cardinality(({} \cup {o}) \cup {p}) = 1 + 1
    BY <2>2, <2>3, FS_AddElement
  <2> QED
    BY <2>1, <2>3, <2>4
<1>2. ({} \cup {o}) \cup {p} = {o, p} /\ {} \cup {o} = {o}
  OBVIOUS
<1>3. /\ V[o] = o.value /\ V[p] = p.value
      /\ NatOn(V, {} \cup {o}) /\ NatOn(V, ({} \cup {o}) \cup {p})
  BY DEF NatOn, Values
<1>4. Total({o, p}) = SumFunctionOnSet(V, {o, p})
  BY DEF Total, SumFunction, Values
<1> HIDE DEF V
<1>5. SumFunctionOnSet(V, {}) = 0
  BY SumNone
<1>6. SumFunctionOnSet(V, {} \cup {o}) = SumFunctionOnSet(V, {}) + V[o]
  BY <1>1, <1>3, SumMore
<1>7. SumFunctionOnSet(V, ({} \cup {o}) \cup {p}) = SumFunctionOnSet(V, {} \cup {o}) + V[p]
  <2>1. p \notin {} \cup {o}
    OBVIOUS
  <2> QED
    BY <1>1, <1>3, <2>1, SumMore
<1>8. SumFunctionOnSet(V, {o, p}) = o.value + p.value
  <2>1. SumFunctionOnSet(V, {o}) = o.value
    BY <1>2, <1>3, <1>5, <1>6
  <2>2. SumFunctionOnSet(V, {o, p}) = SumFunctionOnSet(V, {o}) + V[p]
    BY <1>2, <1>7
  <2> QED
    BY <1>3, <2>1, <2>2
<1>9. IsFiniteSet({o, p}) /\ Cardinality({o, p}) = 2
  BY <1>1, <1>2
<1> QED
  BY <1>4, <1>8, <1>9

\* The balances and HTLCs of a moment, on a funding output of that value.
Covered(bal, hs, fund) ==
    /\ bal \in [Side -> Nat] /\ hs \in Seq(Htlc) /\ Len(hs) <= MaxHtlcs
    /\ bal["a"] + bal["b"] = fund
    /\ \A s \in Side : PendingOut(hs, s) <= bal[s]

\* What a transaction loses to dust and fees.
Pays(tx, fund) ==
    LET lost == fund - Total(tx.outputs)
        fee == IF tx.by = "both" THEN CloseFee ELSE 0
    IN  lost >= 0 /\ lost <= fee + (2 + MaxHtlcs) * (DustLimit - 1)

\* The HTLC outputs carry what both sides offer.
LEMMA HtlcOutputs ==
    ASSUME NEW hs \in Seq(Htlc)
    PROVE  LET H == {Output("htlc", Other(hs[i].offerer), hs[i].amount, i) : i \in Pending(hs)}
           IN  /\ IsFiniteSet(H) /\ Cardinality(H) <= Len(hs)
               /\ \A o \in H : o.kind = "htlc" /\ o.value \in Nat
               /\ Total(H) = PendingOut(hs, "a") + PendingOut(hs, "b")
<1> DEFINE h == [i \in Pending(hs) |-> Output("htlc", Other(hs[i].offerer), hs[i].amount, i)]
           P == Pending(hs)
           H == {h[i] : i \in P}
           f == AmountsOf(hs)
           A == Offered(hs, "a")
           B == Offered(hs, "b")
<1>1. H = {Output("htlc", Other(hs[i].offerer), hs[i].amount, i) : i \in P}
  OBVIOUS
<1>2. /\ IsFiniteSet(P) /\ Cardinality(P) <= Len(hs) /\ Len(hs) \in Nat
      /\ NatOn(f, DOMAIN hs) /\ P \subseteq DOMAIN hs
  BY PendingFacts DEF Pending
<1>3. IsFiniteSet(H) /\ Cardinality(H) <= Len(hs)
  <2>1. h \in Surjection(P, H)
    BY DEF Surjection
  <2> HIDE DEF H, h, P
  <2>2. IsFiniteSet(H) /\ Cardinality(H) <= Cardinality(P)
    BY <1>2, <2>1, FS_Surjection
  <2> QED
    BY <1>2, <2>2, FS_CardinalityType
<1>4. \A i \in P : hs[i] \in Htlc /\ f[i] = hs[i].amount /\ hs[i].amount \in Nat
  BY <1>2 DEF NatOn, AmountsOf
<1>5. \A i \in P : h[i].kind = "htlc" /\ h[i].value = hs[i].amount /\ h[i].id = i
  BY DEF Output
<1>6. \A o \in H : o.kind = "htlc" /\ o.value \in Nat
  BY <1>4, <1>5
<1>7. MovedBy(h, f, Values(H), P)
  <2>1. \A i \in P : h[i] \in H /\ Values(H)[h[i]] = h[i].value
    BY DEF Values
  <2>2. \A i \in P : Values(H)[h[i]] = f[i]
    BY <1>4, <1>5, <2>1
  <2>3. \A i, j \in P : i # j => h[i] # h[j]
    BY <1>5
  <2> HIDE DEF H, h, P, f
  <2> QED
    BY <2>2, <2>3 DEF MovedBy
<1>8. Total(H) = SumFunctionOnSet(Values(H), H)
  BY DEF Total, SumFunction, Values
<1>9. P = A \cup B /\ A \cap B = {}
  <2>1. \A i \in P : hs[i].offerer \in {"a", "b"}
    BY <1>4, Sides DEF Htlc
  <2>2. "a" # "b"
    OBVIOUS
  <2> QED
    BY <2>1, <2>2 DEF Offered
<1>10. /\ IsFiniteSet(A) /\ IsFiniteSet(B)
       /\ PendingOut(hs, "a") = SumFunctionOnSet(f, A)
       /\ PendingOut(hs, "b") = SumFunctionOnSet(f, B)
  BY PendingFacts, Sides
<1>11. NatOn(f, P)
  BY <1>2 DEF NatOn
<1>12. SumFunctionOnSet(Values(H), H) = SumFunctionOnSet(f, P)
  <2> DEFINE g == Values(H)
  <2>1. MovedBy(h, f, g, P)
    BY <1>7
  <2> HIDE DEF g, h, f, P
  <2>2. SumFunctionOnSet(g, {h[i] : i \in P}) = SumFunctionOnSet(f, P)
    BY <1>2, <1>11, <2>1, SumMoved
  <2> QED
    BY <2>2 DEF g
<1>13. SumFunctionOnSet(f, P) = SumFunctionOnSet(f, A) + SumFunctionOnSet(f, B)
  <2> HIDE DEF f, P, A, B
  <2> QED
    BY <1>9, <1>10, <1>11, SumSplit
<1> HIDE DEF H, f, A, B
<1> QED
  BY <1>1, <1>3, <1>6, <1>8, <1>10, <1>12, <1>13

\* Disjoint outputs.
LEMMA TotalSplit ==
    ASSUME NEW S, NEW T, IsFiniteSet(S), IsFiniteSet(T), S \cap T = {},
           \A o \in S \cup T : o.value \in Nat
    PROVE  Total(S \cup T) = Total(S) + Total(T)
<1> DEFINE V == Values(S \cup T)
<1>1. NatOn(V, S \cup T) /\ NatOn(V, S) /\ NatOn(V, T)
  BY DEF NatOn, Values
<1>2. AgreeOn(V, Values(S), S) /\ AgreeOn(V, Values(T), T)
  BY DEF AgreeOn, Values
<1>3. /\ Total(S \cup T) = SumFunctionOnSet(V, S \cup T)
      /\ Total(S) = SumFunctionOnSet(Values(S), S) /\ Total(T) = SumFunctionOnSet(Values(T), T)
  BY DEF Total, SumFunction, Values
<1> HIDE DEF V
<1>4. /\ SumFunctionOnSet(V, S) = SumFunctionOnSet(Values(S), S)
      /\ SumFunctionOnSet(V, T) = SumFunctionOnSet(Values(T), T)
  BY <1>1, <1>2, SumAgree
<1>5. SumFunctionOnSet(V, S \cup T) = SumFunctionOnSet(V, S) + SumFunctionOnSet(V, T)
  BY <1>1, SumSplit
<1> QED
  BY <1>3, <1>4, <1>5

\* A commitment pays out the funding but for dust.
LEMMA CommitmentPays ==
    ASSUME NEW bal, NEW hs, NEW fund \in Nat, Covered(bal, hs, fund),
           NEW s \in Side, NEW n
    PROVE  Pays(BuildCommitment(s, n, bal, hs), fund)
<1> DEFINE o == Output("revocable", s, bal[s] - PendingOut(hs, s), 0)
           p == Output("plain", Other(s), bal[Other(s)] - PendingOut(hs, Other(s)), 0)
           H == {Output("htlc", Other(hs[i].offerer), hs[i].amount, i) : i \in Pending(hs)}
           All == {o, p} \cup H
<1>1. /\ Other(s) \in Side /\ hs \in Seq(Htlc) /\ Len(hs) <= MaxHtlcs
      /\ bal[s] + bal[Other(s)] = fund /\ bal[s] \in Nat /\ bal[Other(s)] \in Nat
      /\ PendingOut(hs, s) + PendingOut(hs, Other(s)) = PendingOut(hs, "a") + PendingOut(hs, "b")
      /\ PendingOut(hs, s) \in Nat /\ PendingOut(hs, Other(s)) \in Nat
      /\ PendingOut(hs, s) <= bal[s] /\ PendingOut(hs, Other(s)) <= bal[Other(s)]
  <2>1. /\ bal \in [Side -> Nat] /\ hs \in Seq(Htlc) /\ bal["a"] + bal["b"] = fund
        /\ \A t \in Side : PendingOut(hs, t) <= bal[t]
        /\ Len(hs) <= MaxHtlcs
    BY DEF Covered
  <2>2. \A t \in Side : PendingOut(hs, t) \in Nat
    BY <2>1, PendingFacts
  <2>3. CASE s = "a"
    BY <2>1, <2>2, <2>3, Sides
  <2>4. CASE s = "b"
    BY <2>1, <2>2, <2>4, Sides
  <2> QED
    BY <2>3, <2>4, Sides
<1>2. /\ o.kind = "revocable" /\ o.value = bal[s] - PendingOut(hs, s)
      /\ p.kind = "plain" /\ p.value = bal[Other(s)] - PendingOut(hs, Other(s))
  BY DEF Output
<1>3. o.value \in Nat /\ p.value \in Nat /\ o # p
  BY <1>1, <1>2
<1>4. /\ IsFiniteSet(H) /\ Cardinality(H) <= Len(hs)
      /\ \A q \in H : q.kind = "htlc" /\ q.value \in Nat
      /\ Total(H) = PendingOut(hs, "a") + PendingOut(hs, "b")
  BY <1>1, HtlcOutputs
<1> HIDE DEF o, p, H
<1>5. /\ IsFiniteSet({o, p}) /\ Cardinality({o, p}) = 2
      /\ Total({o, p}) = o.value + p.value
  BY <1>3, TwoOutputs
<1>6. {o, p} \cap H = {} /\ \A q \in All : q.value \in Nat
  BY <1>2, <1>3, <1>4
<1>7. Total(All) = fund
  <2>1. Total(All) = Total({o, p}) + Total(H)
    BY <1>4, <1>5, <1>6, TotalSplit
  <2> QED
    BY <1>1, <1>2, <1>4, <1>5, <2>1
<1>8. IsFiniteSet(All) /\ Cardinality(All) <= 2 + MaxHtlcs
  <2>1. /\ IsFiniteSet(All)
        /\ Cardinality(All) = Cardinality({o, p}) + Cardinality(H) - Cardinality({o, p} \cap H)
    BY <1>4, <1>5, FS_Union
  <2>2. Cardinality({o, p} \cap H) = 0 /\ Cardinality(H) \in Nat
    BY <1>4, <1>6, FS_EmptySet, FS_CardinalityType
  <2>3. Len(hs) \in Nat /\ MaxHtlcs \in Nat
    BY <1>1, ChannelAssumption DEF ChannelAssumption
  <2> QED
    BY <1>1, <1>4, <1>5, <2>1, <2>2, <2>3
<1> DEFINE bound == (2 + MaxHtlcs) * (DustLimit - 1)
<1>9. /\ Total(NotDust(All)) \in Nat /\ Total(NotDust(All)) <= fund
      /\ fund - Total(NotDust(All)) <= bound /\ bound \in Int
  <2>1. bound \in Int
    BY ChannelAssumption DEF ChannelAssumption
  <2> HIDE DEF All
  <2> QED
    BY <1>6, <1>7, <1>8, <2>1, DustLost
<1>10. BuildCommitment(s, n, bal, hs).outputs = NotDust(All)
  BY DEF BuildCommitment, CommitmentOutputs, NotDust, o, p, H
<1>11. BuildCommitment(s, n, bal, hs).by # "both"
  <2>1. BuildCommitment(s, n, bal, hs).by = s
    BY DEF BuildCommitment
  <2> QED
    BY <2>1, Sides
<1> HIDE DEF All, bound
<1>12. fund - Total(NotDust(All)) >= 0 /\ fund - Total(NotDust(All)) <= 0 + bound
  BY <1>9
<1> QED
  BY <1>10, <1>11, <1>12 DEF Pays, bound

\* A cooperative close pays it out but for dust and the fee.
CloseTx ==
    [by |-> "both", number |-> number, lock |-> 0, spends |-> Len(funding),
     outputs |-> {o \in {Output("plain", "a", balance["a"] - CloseFee, 0),
                         Output("plain", "b", balance["b"], 0)} : o.value >= DustLimit}]

LEMMA ClosePays ==
    ASSUME NEW fund \in Nat, Covered(balance, htlcs, fund), CloseFee <= balance["a"]
    PROVE  Pays(CloseTx, fund)
<1> DEFINE o == Output("plain", "a", balance["a"] - CloseFee, 0)
           p == Output("plain", "b", balance["b"], 0)
           bound == (2 + MaxHtlcs) * (DustLimit - 1)
<1>1. balance["a"] \in Nat /\ balance["b"] \in Nat /\ CloseFee \in Nat
      /\ balance["a"] + balance["b"] = fund /\ MaxHtlcs \in Nat /\ bound \in Int
  <2>1. CloseFee \in Nat /\ MaxHtlcs \in Nat /\ DustLimit \in Nat
    BY ChannelAssumption DEF ChannelAssumption
  <2>2. balance \in [Side -> Nat] /\ balance["a"] + balance["b"] = fund
    BY DEF Covered
  <2>3. bound \in Int
    BY <2>1
  <2> HIDE DEF bound
  <2> QED
    BY <2>1, <2>2, <2>3, Sides
<1>2. /\ o.value = balance["a"] - CloseFee /\ p.value = balance["b"]
      /\ o.to = "a" /\ p.to = "b"
  BY DEF Output
<1>3. o.value \in Nat /\ p.value \in Nat /\ o # p
  BY <1>1, <1>2
<1>4. CloseTx.outputs = NotDust({o, p}) /\ CloseTx.by = "both"
  BY DEF CloseTx, NotDust
<1> HIDE DEF o, p
<1>5. /\ IsFiniteSet({o, p}) /\ Cardinality({o, p}) = 2
      /\ Total({o, p}) = fund - CloseFee
  <2>1. /\ IsFiniteSet({o, p}) /\ Cardinality({o, p}) = 2
        /\ Total({o, p}) = o.value + p.value
    BY <1>3, TwoOutputs
  <2>2. o.value + p.value = fund - CloseFee
    BY <1>1, <1>2
  <2> QED
    BY <2>1, <2>2
<1>6. /\ Total(NotDust({o, p})) \in Nat /\ Total(NotDust({o, p})) <= fund - CloseFee
      /\ (fund - CloseFee) - Total(NotDust({o, p})) <= bound
  <2>1. Cardinality({o, p}) <= 2 + MaxHtlcs /\ \A q \in {o, p} : q.value \in Nat
    BY <1>1, <1>3, <1>5
  <2> QED
    BY <1>5, <2>1, DustLost
<1> HIDE DEF bound
<1>7. fund - Total(NotDust({o, p})) >= 0 /\ fund - Total(NotDust({o, p})) <= CloseFee + bound
  BY <1>1, <1>6
<1> QED
  BY <1>4, <1>7 DEF Pays, bound

----------------------------------------------------------------------------
(***************************************************************************)
(* The invariant about money, action by action.                            *)
(***************************************************************************)
Funded(tx) == tx.spends \in DOMAIN funding /\ Pays(tx, funding[tx.spends])

SignedPays ==
    /\ \A n \in DOMAIN history : \A s \in Side : Funded(history[n][s])
    /\ \A tx \in closes : Funded(tx)

MoneyInv == ChannelTyped /\ FundsCovered /\ SignedPays

LEMMA MoneyCovered ==
    ChannelTyped /\ FundsCovered =>
        /\ Covered(balance, htlcs, Last(funding))
        /\ Last(funding) \in Nat /\ Len(funding) \in DOMAIN funding
        /\ Last(funding) = funding[Len(funding)]
BY DEF ChannelTyped, FundsCovered, Covered, Last

LEMMA InitMoney == Init => MoneyInv
<1> SUFFICES ASSUME Init PROVE MoneyInv
  OBVIOUS
<1>1. PICK push \in Push : balance = [s \in Side |-> IF s = "a" THEN Capacity - push ELSE push]
  BY DEF Init
<1>2. push \in Nat /\ Capacity \in Nat /\ push <= Capacity /\ MaxHtlcs \in Nat
  BY ChannelAssumption DEF ChannelAssumption
<1>3. balance["a"] = Capacity - push /\ balance["b"] = push /\ balance \in [Side -> Nat]
  BY <1>1, <1>2, Sides
<1>4. /\ htlcs = <<>> /\ funding = <<Capacity>> /\ history = <<>> /\ closes = {}
  BY DEF Init
<1>5. htlcs \in Seq(Htlc) /\ Len(htlcs) = 0 /\ Pending(htlcs) = {}
  BY <1>4 DEF Pending
<1>6. ChannelTyped
  BY <1>2, <1>3, <1>4, <1>5 DEF ChannelTyped
<1>7. FundsCovered
  <2>1. Last(funding) = Capacity
    BY <1>4 DEF Last
  <2>2. \A s \in Side : PendingOut(htlcs, s) = 0 /\ balance[s] \in Nat
    BY <1>3, <1>5, NoOffers
  <2> QED
    BY <1>2, <1>3, <2>1, <2>2 DEF FundsCovered
<1>8. SignedPays
  BY <1>4 DEF SignedPays
<1> QED
  BY <1>6, <1>7, <1>8 DEF MoneyInv

\* What the next commitment is signed over, or recorded again on confirmation.
LEMMA CommitPays ==
    ASSUME MoneyInv, NEW bal, NEW hs, NEW n, Covered(bal, hs, Last(funding))
    PROVE  \A m \in DOMAIN Commit(n, bal, hs) : \A s \in Side : Funded(Commit(n, bal, hs)[m][s])
<1>1. /\ Last(funding) \in Nat /\ Len(funding) \in DOMAIN funding
      /\ Last(funding) = funding[Len(funding)]
  BY MoneyCovered DEF MoneyInv
<1>2. \A m \in DOMAIN history : \A s \in Side : Funded(history[m][s])
  BY DEF MoneyInv, SignedPays
<1>3. ASSUME NEW s \in Side PROVE Funded(BuildCommitment(s, n, bal, hs))
  <2>1. BuildCommitment(s, n, bal, hs).spends = Len(funding)
    BY DEF BuildCommitment
  <2>2. Pays(BuildCommitment(s, n, bal, hs), Last(funding))
    BY <1>1, CommitmentPays
  <2> QED
    BY <1>1, <2>1, <2>2 DEF Funded
<1>4. CASE Committable(n, bal, hs)
  <2>1. Commit(n, bal, hs) = [m \in DOMAIN history \cup {n} |->
            IF m = n THEN [s \in Side |-> BuildCommitment(s, n, bal, hs)] ELSE history[m]]
    BY <1>4 DEF Commit
  <2> QED
    BY <1>2, <1>3, <2>1
<1>5. CASE ~Committable(n, bal, hs)
  BY <1>2, <1>5 DEF Commit
<1> QED
  BY <1>4, <1>5

\* An update over balances and HTLCs that are covered.
LEMMA UpdatePays ==
    ASSUME MoneyInv, NEW bal, NEW hs, Update(bal, hs), Covered(bal, hs, Last(funding))
    PROVE  MoneyInv'
<1>1. /\ balance' = bal /\ htlcs' = hs /\ funding' = funding /\ closes' = closes
      /\ history' = history \/ history' = Commit(number + 1, bal, hs)
  BY DEF Update, RevokeAndAdvance
<1>2. ChannelTyped' /\ FundsCovered'
  BY <1>1 DEF MoneyInv, ChannelTyped, FundsCovered, Covered
<1>4. \A m \in DOMAIN history' : \A s \in Side : Funded(history'[m][s])
  BY <1>1, CommitPays DEF MoneyInv, SignedPays
<1>5. SignedPays'
  <2>1. funding' = funding /\ \A tx \in closes' : Funded(tx)
    BY <1>1 DEF MoneyInv, SignedPays
  <2> QED
    BY <1>4, <2>1 DEF SignedPays, Funded
<1> QED
  BY <1>2, <1>5 DEF MoneyInv

LEMMA MovedBalance ==
    ASSUME ChannelTyped, NEW s \in Side, NEW v \in Nat, v <= balance[s]
    PROVE  /\ Move(s, v) \in [Side -> Nat]
           /\ Move(s, v)[s] = balance[s] - v
           /\ Other(s) \in Side /\ Other(s) # s
           /\ Move(s, v)[Other(s)] = balance[Other(s)] + v
           /\ Move(s, v)["a"] + Move(s, v)["b"] = balance["a"] + balance["b"]
           /\ \A t \in Side : t = s \/ t = Other(s)
<1>1. balance \in [Side -> Nat]
  BY DEF ChannelTyped
<1>2. CASE s = "a"
  BY <1>1, <1>2, Sides DEF Move
<1>3. CASE s = "b"
  BY <1>1, <1>3, Sides DEF Move
<1> QED
  BY <1>2, <1>3, Sides

\* pay: no more than is spendable.
LEMMA PayCovered ==
    ASSUME ChannelTyped, FundsCovered, NEW s \in Side, NEW v \in Nat, v <= Spendable(s)
    PROVE  Covered(Move(s, v), htlcs, Last(funding))
<1>1. /\ balance \in [Side -> Nat] /\ htlcs \in Seq(Htlc) /\ Len(htlcs) <= MaxHtlcs
      /\ balance["a"] + balance["b"] = Last(funding)
      /\ \A t \in Side : PendingOut(htlcs, t) <= balance[t]
  BY DEF ChannelTyped, FundsCovered
<1>2. \A t \in Side : PendingOut(htlcs, t) \in Nat /\ balance[t] \in Nat
  BY <1>1, PendingFacts
<1>3. v <= balance[s] - PendingOut(htlcs, s)
  BY DEF Spendable
<1>4. v <= balance[s]
  BY <1>2, <1>3
<1>5. /\ Move(s, v) \in [Side -> Nat] /\ Move(s, v)[s] = balance[s] - v
      /\ Other(s) \in Side /\ Move(s, v)[Other(s)] = balance[Other(s)] + v
      /\ Move(s, v)["a"] + Move(s, v)["b"] = balance["a"] + balance["b"]
      /\ \A t \in Side : t = s \/ t = Other(s)
  BY <1>4, MovedBalance
<1>6. /\ PendingOut(htlcs, s) <= Move(s, v)[s]
      /\ PendingOut(htlcs, Other(s)) <= Move(s, v)[Other(s)]
  <2>1. PendingOut(htlcs, s) <= balance[s] - v
    <3>1. PendingOut(htlcs, s) \in Nat /\ balance[s] \in Nat
      BY <1>2
    <3> QED
      BY <1>3, <3>1
  <2>2. PendingOut(htlcs, Other(s)) <= balance[Other(s)] + v
    <3>1. PendingOut(htlcs, Other(s)) \in Nat /\ balance[Other(s)] \in Nat
      BY <1>2, <1>5
    <3>2. PendingOut(htlcs, Other(s)) <= balance[Other(s)]
      BY <1>1, <1>5
    <3> QED
      BY <3>1, <3>2
  <2> QED
    BY <1>5, <2>1, <2>2
<1>7. \A t \in Side : PendingOut(htlcs, t) <= Move(s, v)[t]
  BY <1>5, <1>6
<1> QED
  BY <1>1, <1>5, <1>7 DEF Covered

\* addHtlc: what is offered stays spendable by nobody.
LEMMA OfferCovered ==
    ASSUME ChannelTyped, FundsCovered, NEW h \in Htlc, h.status = "pending",
           h.amount <= Spendable(h.offerer), Len(htlcs) < MaxHtlcs
    PROVE  Covered(balance, Append(htlcs, h), Last(funding))
<1>1. /\ balance \in [Side -> Nat] /\ htlcs \in Seq(Htlc)
      /\ balance["a"] + balance["b"] = Last(funding)
      /\ \A t \in Side : PendingOut(htlcs, t) <= balance[t]
  BY DEF ChannelTyped, FundsCovered
<1>2. /\ \A t \in Side : PendingOut(htlcs, t) \in Nat /\ balance[t] \in Nat
      /\ h.offerer \in Side /\ h.amount \in Nat
  BY <1>1, PendingFacts DEF Htlc
<1>3. /\ Append(htlcs, h) \in Seq(Htlc) /\ Len(Append(htlcs, h)) = Len(htlcs) + 1
      /\ PendingOut(Append(htlcs, h), h.offerer) = PendingOut(htlcs, h.offerer) + h.amount
      /\ \A t \in Side : t # h.offerer => PendingOut(Append(htlcs, h), t) = PendingOut(htlcs, t)
  BY <1>1, AddedOffer
<1>4. h.amount <= balance[h.offerer] - PendingOut(htlcs, h.offerer)
  BY DEF Spendable
<1>5. PendingOut(Append(htlcs, h), h.offerer) <= balance[h.offerer]
  BY <1>2, <1>3, <1>4
<1>6. \A t \in Side : PendingOut(Append(htlcs, h), t) <= balance[t]
  BY <1>1, <1>3, <1>5
<1>7. Len(Append(htlcs, h)) <= MaxHtlcs
  <2>1. Len(htlcs) \in Nat /\ MaxHtlcs \in Nat
    BY <1>1, ChannelAssumption DEF ChannelAssumption
  <2> QED
    BY <1>3, <2>1
<1> QED
  BY <1>1, <1>3, <1>6, <1>7 DEF Covered

\* settleHtlc moves what was offered, failHtlc leaves it.
LEMMA ResolveCovered ==
    ASSUME ChannelTyped, FundsCovered, NEW i \in Pending(htlcs)
    PROVE  /\ Covered(Move(htlcs[i].offerer, htlcs[i].amount),
                      [htlcs EXCEPT ![i].status = "settled"], Last(funding))
           /\ Covered(balance, [htlcs EXCEPT ![i].status = "failed"], Last(funding))
<1> DEFINE s == htlcs[i].offerer
           v == htlcs[i].amount
           Resolved(st) == [htlcs EXCEPT ![i].status = st]
<1>1. /\ balance \in [Side -> Nat] /\ htlcs \in Seq(Htlc) /\ Len(htlcs) <= MaxHtlcs
      /\ balance["a"] + balance["b"] = Last(funding)
      /\ \A t \in Side : PendingOut(htlcs, t) <= balance[t]
  BY DEF ChannelTyped, FundsCovered
<1>2. ASSUME NEW st \in {"settled", "failed"}
      PROVE  /\ Resolved(st) \in Seq(Htlc) /\ Len(Resolved(st)) = Len(htlcs)
             /\ s \in Side /\ v \in Nat
             /\ PendingOut(htlcs, s) = PendingOut(Resolved(st), s) + v
             /\ \A t \in Side : t # s => PendingOut(Resolved(st), t) = PendingOut(htlcs, t)
  BY <1>1, ResolvedOffer
<1>3. \A st \in {"settled", "failed"} : \A t \in Side : PendingOut(Resolved(st), t) \in Nat
  BY <1>2, PendingFacts
<1>4. \A t \in Side : balance[t] \in Nat
  BY <1>1
<1>5. s \in Side /\ v \in Nat
  BY <1>2
<1> HIDE DEF s, v, Resolved
<1>6. v <= balance[s]
  <2>1. PendingOut(htlcs, s) = PendingOut(Resolved("failed"), s) + v
        /\ PendingOut(Resolved("failed"), s) \in Nat /\ PendingOut(htlcs, s) <= balance[s]
    BY <1>1, <1>2, <1>3, <1>5
  <2> QED
    BY <1>4, <1>5, <2>1
<1>7. /\ Move(s, v) \in [Side -> Nat] /\ Move(s, v)[s] = balance[s] - v
      /\ Other(s) \in Side /\ Other(s) # s /\ Move(s, v)[Other(s)] = balance[Other(s)] + v
      /\ Move(s, v)["a"] + Move(s, v)["b"] = balance["a"] + balance["b"]
      /\ \A t \in Side : t = s \/ t = Other(s)
  BY <1>5, <1>6, MovedBalance
<1>8. Covered(Move(s, v), Resolved("settled"), Last(funding))
  <2>1. /\ PendingOut(htlcs, s) = PendingOut(Resolved("settled"), s) + v
        /\ PendingOut(Resolved("settled"), Other(s)) = PendingOut(htlcs, Other(s))
        /\ PendingOut(Resolved("settled"), s) \in Nat
        /\ PendingOut(htlcs, s) <= balance[s] /\ PendingOut(htlcs, Other(s)) <= balance[Other(s)]
        /\ PendingOut(htlcs, Other(s)) \in Nat
    BY <1>1, <1>2, <1>3, <1>5, <1>7
  <2>2. PendingOut(Resolved("settled"), s) <= Move(s, v)[s]
    BY <1>4, <1>5, <1>7, <2>1
  <2>3. PendingOut(Resolved("settled"), Other(s)) <= Move(s, v)[Other(s)]
    BY <1>4, <1>5, <1>7, <2>1
  <2>4. \A t \in Side : PendingOut(Resolved("settled"), t) <= Move(s, v)[t]
    BY <1>7, <2>2, <2>3
  <2> QED
    BY <1>1, <1>2, <1>7, <2>4 DEF Covered
<1>9. Covered(balance, Resolved("failed"), Last(funding))
  <2>1. \A t \in Side : PendingOut(Resolved("failed"), t) <= balance[t]
    <3> SUFFICES ASSUME NEW t \in Side PROVE PendingOut(Resolved("failed"), t) <= balance[t]
      OBVIOUS
    <3>1. CASE t = s
      <4>1. PendingOut(htlcs, s) = PendingOut(Resolved("failed"), s) + v
            /\ PendingOut(Resolved("failed"), s) \in Nat /\ PendingOut(htlcs, s) <= balance[s]
        BY <1>1, <1>2, <1>3, <1>5
      <4> QED
        BY <1>4, <1>5, <3>1, <4>1
    <3>2. CASE t # s
      BY <1>1, <1>2, <3>2
    <3> QED
      BY <3>1, <3>2
  <2> QED
    BY <1>1, <1>2, <2>1 DEF Covered
<1> QED
  BY <1>8, <1>9 DEF s, v, Resolved

\* A new funding output leaves what was signed on the earlier ones.
LEMMA SpliceMoney ==
    ASSUME MoneyInv, NEW s \in Side, NEW in \in SpliceIn, NEW out \in SpliceOut,
           Splice(s, in, out)
    PROVE  MoneyInv'
<1> DEFINE fund == Last(funding) + in - out
<1>1. /\ in \in Nat /\ out \in Nat /\ out <= balance[s] /\ fund > 0 /\ Pending(htlcs) = {}
      /\ balance' = [balance EXCEPT ![s] = @ + in - out]
      /\ funding' = Append(funding, fund)
      /\ UNCHANGED <<htlcs, history, closes>>
  BY ChannelAssumption DEF ChannelAssumption, Splice
<1>2. /\ balance \in [Side -> Nat] /\ htlcs \in Seq(Htlc) /\ Len(htlcs) <= MaxHtlcs
      /\ funding \in Seq(Nat) /\ funding # <<>>
      /\ balance["a"] + balance["b"] = Last(funding) /\ Last(funding) \in Nat
  BY MoneyCovered DEF MoneyInv, ChannelTyped, FundsCovered
<1>3. fund \in Nat
  BY <1>1, <1>2
<1> HIDE DEF fund
<1>4. /\ funding' \in Seq(Nat) /\ Len(funding') = Len(funding) + 1
      /\ funding'[Len(funding) + 1] = fund /\ funding' # <<>>
      /\ \A i \in DOMAIN funding : i \in DOMAIN funding' /\ funding'[i] = funding[i]
  <2> DEFINE fs == Append(funding, fund)
  <2>1. fs \in Seq(Nat) /\ Len(fs) = Len(funding) + 1 /\ fs[Len(funding) + 1] = fund
    BY <1>2, <1>3
  <2>2. \A i \in DOMAIN funding : i \in DOMAIN fs /\ fs[i] = funding[i]
    BY <1>2, <1>3
  <2>3. Len(funding) \in Nat /\ Len(fs) # 0
    BY <1>2, <2>1
  <2>4. fs # <<>>
    BY <2>3
  <2> HIDE DEF fs
  <2>5. funding' = fs
    BY <1>1 DEF fs
  <2> QED
    BY <2>1, <2>2, <2>4, <2>5
<1>5. Last(funding') = fund
  BY <1>4 DEF Last
<1>6. balance' \in [Side -> Nat] /\ balance'["a"] + balance'["b"] = fund
  <2>1. balance[s] + in - out \in Nat
    BY <1>1, <1>2
  <2>2. CASE s = "a"
    BY <1>1, <1>2, <2>1, <2>2, Sides DEF fund
  <2>3. CASE s = "b"
    BY <1>1, <1>2, <2>1, <2>3, Sides DEF fund
  <2> QED
    BY <2>2, <2>3, Sides
<1>7. \A t \in Side : PendingOut(htlcs', t) <= balance'[t]
  <2>1. \A t \in Side : PendingOut(htlcs', t) = 0 /\ balance'[t] \in Nat
    BY <1>1, <1>2, <1>6, NoOffers
  <2> QED
    BY <2>1
<1>8. SignedPays'
  <2>1. \A tx : Funded(tx) => tx.spends \in DOMAIN funding' /\ Pays(tx, funding'[tx.spends])
    BY <1>4 DEF Funded
  <2> QED
    BY <1>1, <2>1 DEF MoneyInv, SignedPays, Funded
<1>9. ChannelTyped'
  BY <1>1, <1>2, <1>4, <1>6 DEF ChannelTyped
<1>10. FundsCovered'
  BY <1>5, <1>6, <1>7 DEF FundsCovered
<1> QED
  BY <1>8, <1>9, <1>10 DEF MoneyInv

\* Only what is signed or recorded changes.
LEMMA SignMoney ==
    ASSUME MoneyInv, UNCHANGED <<balance, htlcs, funding>>,
           \A n \in DOMAIN history' : \A s \in Side : Funded(history'[n][s]),
           \A tx \in closes' : Funded(tx)
    PROVE  MoneyInv'
<1>1. ChannelTyped' /\ FundsCovered'
  BY DEF MoneyInv, ChannelTyped, FundsCovered
<1>2. SignedPays'
  BY DEF SignedPays, Funded
<1> QED
  BY <1>1, <1>2 DEF MoneyInv

LEMMA NextMoney == MoneyInv /\ [Next]_vars => MoneyInv'
<1> SUFFICES ASSUME MoneyInv, [Next]_vars PROVE MoneyInv'
  OBVIOUS
<1>0. /\ ChannelTyped /\ FundsCovered /\ Covered(balance, htlcs, Last(funding))
      /\ Last(funding) \in Nat /\ Len(funding) \in DOMAIN funding
      /\ Last(funding) = funding[Len(funding)]
      /\ \A n \in DOMAIN history : \A s \in Side : Funded(history[n][s])
      /\ \A tx \in closes : Funded(tx)
  BY MoneyCovered DEF MoneyInv, SignedPays
<1>1. CASE ConfirmChannel
  <2>1. history' = Commit(number, balance, htlcs) /\ UNCHANGED <<balance, htlcs, funding, closes>>
    BY <1>1 DEF ConfirmChannel
  <2>2. \A n \in DOMAIN history' : \A s \in Side : Funded(history'[n][s])
    BY <1>0, <2>1, CommitPays
  <2> QED
    BY <1>0, <2>1, <2>2, SignMoney
<1>2. ASSUME NEW s \in Side, NEW v \in Amount, Pay(s, v) PROVE MoneyInv'
  <2>1. v \in Nat /\ v <= Spendable(s) /\ Update(Move(s, v), htlcs)
    BY <1>2, ChannelAssumption DEF ChannelAssumption, Pay
  <2>2. Covered(Move(s, v), htlcs, Last(funding))
    BY <1>0, <2>1, PayCovered
  <2> QED
    BY <2>1, <2>2, UpdatePays
<1>3. ASSUME NEW s \in Side, NEW v \in Amount, NEW e \in Expiry, AddHtlc(s, v, e)
      PROVE  MoneyInv'
  <2> DEFINE h == [offerer |-> s, amount |-> v, expiry |-> e, status |-> "pending"]
  <2>1. h \in Htlc
    BY ChannelAssumption DEF ChannelAssumption, Htlc
  <2>2. /\ h.amount <= Spendable(h.offerer) /\ h.status = "pending" /\ Len(htlcs) < MaxHtlcs
        /\ Update(balance, Append(htlcs, h))
    BY <1>3 DEF AddHtlc
  <2> HIDE DEF h
  <2>3. Covered(balance, Append(htlcs, h), Last(funding))
    BY <1>0, <2>1, <2>2, OfferCovered
  <2> QED
    BY <2>2, <2>3, UpdatePays
<1>4. ASSUME NEW i \in DOMAIN htlcs, SettleHtlc(i) \/ FailHtlc(i) PROVE MoneyInv'
  <2>1. i \in Pending(htlcs)
    BY <1>4 DEF SettleHtlc, FailHtlc
  <2>2. /\ Covered(Move(htlcs[i].offerer, htlcs[i].amount),
                   [htlcs EXCEPT ![i].status = "settled"], Last(funding))
        /\ Covered(balance, [htlcs EXCEPT ![i].status = "failed"], Last(funding))
    BY <1>0, <2>1, ResolveCovered
  <2>3. CASE SettleHtlc(i)
    <3>1. Update(Move(htlcs[i].offerer, htlcs[i].amount), [htlcs EXCEPT ![i].status = "settled"])
      BY <2>3 DEF SettleHtlc
    <3> QED
      BY <2>2, <3>1, UpdatePays
  <2>4. CASE FailHtlc(i)
    <3>1. Update(balance, [htlcs EXCEPT ![i].status = "failed"])
      BY <2>4 DEF FailHtlc
    <3> QED
      BY <2>2, <3>1, UpdatePays
  <2> QED
    BY <1>4, <2>3, <2>4
<1>5. ASSUME NEW s \in Side, NEW in \in SpliceIn, NEW out \in SpliceOut, Splice(s, in, out)
      PROVE  MoneyInv'
  BY <1>5, SpliceMoney
<1>6. CASE CooperativeClose
  <2>1. /\ CloseFee <= balance["a"] /\ closes' = closes \cup {CloseTx}
        /\ UNCHANGED <<balance, htlcs, funding, history>>
    BY <1>6 DEF CooperativeClose, CloseTx
  <2>2. Funded(CloseTx)
    <3>1. Pays(CloseTx, Last(funding))
      BY <1>0, <2>1, ClosePays
    <3>2. CloseTx.spends = Len(funding)
      BY DEF CloseTx
    <3> QED
      BY <1>0, <3>1, <3>2 DEF Funded
  <2>3. /\ \A tx \in closes' : Funded(tx)
        /\ \A n \in DOMAIN history' : \A s \in Side : Funded(history'[n][s])
    BY <1>0, <2>1, <2>2
  <2> QED
    BY <2>1, <2>3, SignMoney
<1>7. ASSUME NEW s \in Side, ForceClose(s) PROVE MoneyInv'
  <2> DEFINE tx0 == BuildCommitment(s, number, balance, htlcs)
  <2>1. closes' = closes \cup {tx0} /\ UNCHANGED <<balance, htlcs, funding, history>>
    BY <1>7 DEF ForceClose
  <2>2. Funded(tx0)
    <3>1. Pays(tx0, Last(funding))
      BY <1>0, CommitmentPays
    <3>2. tx0.spends = Len(funding)
      BY DEF BuildCommitment
    <3> QED
      BY <1>0, <3>1, <3>2 DEF Funded
  <2> HIDE DEF tx0
  <2>3. /\ \A tx \in closes' : Funded(tx)
        /\ \A n \in DOMAIN history' : \A t \in Side : Funded(history'[n][t])
    BY <1>0, <2>1, <2>2
  <2> QED
    BY <2>1, <2>3, SignMoney
<1>8. CASE UNCHANGED offChain
  <2>1. UNCHANGED <<balance, htlcs, funding, history, closes>>
    BY <1>8 DEF offChain
  <2>2. /\ \A tx \in closes' : Funded(tx)
        /\ \A n \in DOMAIN history' : \A s \in Side : Funded(history'[n][s])
    BY <1>0, <2>1
  <2> QED
    BY <2>1, <2>2, SignMoney
<1>9. CASE \/ Tick \/ MineFunding \/ \E tx \in Signed \cup closes : Mine(tx)
           \/ \E o \in unspent :
                SpendPlain(o) \/ SpendDelayed(o) \/ SweepHtlc(o) \/ RefundHtlc(o)
           \/ Penalty
  <2>1. UNCHANGED offChain
    BY <1>9 DEF Tick, MineFunding, Mine, SpendPlain, SpendDelayed, SweepHtlc,
                RefundHtlc, Take, Penalty, Spend
  <2> QED  BY <1>8, <2>1
<1> QED
  BY <1>1, <1>2, <1>3, <1>4, <1>5, <1>6, <1>7, <1>8, <1>9 DEF Next, vars

----------------------------------------------------------------------------
\* What the balances and the signed transactions amount to, in every
\* reachable state.
THEOREM MoneyInvariance == Spec => []MoneyInv
BY InitMoney, NextMoney, PTL DEF Spec

\* Through payments, HTLCs and splices in any order, also where signing throws,
\* the balances are the funding output and cover what is offered.
THEOREM FundsStayCovered == Spec => []FundsCovered
<1>1. MoneyInv => FundsCovered
  BY DEF MoneyInv
<1> QED  BY <1>1, MoneyInvariance, PTL

\* Every commitment and close ever signed pays out its funding output but for
\* the fee and what buildCommitment drops as dust.
THEOREM SignedPaysOut == Spec => []PaysOutFunding
<1>1. MoneyInv => PaysOutFunding
  <2> SUFFICES ASSUME MoneyInv, NEW tx \in Signed \cup closes PROVE Pays(tx, funding[tx.spends])
    BY DEF PaysOutFunding, Pays
  <2>1. CASE tx \in closes
    BY <2>1 DEF MoneyInv, SignedPays, Funded
  <2>2. CASE tx \in Signed
    <3>1. PICK n \in DOMAIN history : tx \in {history[n][s] : s \in Side}
      BY <2>2 DEF Signed
    <3>2. PICK s \in Side : tx = history[n][s]
      BY <3>1
    <3> QED
      BY <3>2 DEF MoneyInv, SignedPays, Funded
  <2> QED
    BY <2>1, <2>2
<1> QED  BY <1>1, MoneyInvariance, PTL

----------------------------------------------------------------------------
(***************************************************************************)
(* TowerInv: what the tower holds.  Memory and the table may hold a rung   *)
(* to different addresses, the table the latest, but always the same       *)
(* rungs; and of a rung the table has one row, so a restart sorts them.    *)
(***************************************************************************)
Rungs(S) == {b.fee : b \in S}

OneRowAFee(rows) == \A x, y \in rows : x.fee = y.fee => x = y

TowerInv ==
    /\ blobs \in [Breach -> Seq(Blob)]
    /\ disk \in [Breach -> SUBSET Blob]
    /\ receipts \in [Breach -> SUBSET Blob]
    /\ \A c \in Breach : OneRowAFee(disk[c])
    /\ \A c \in Breach : Rungs(Range(blobs[c])) = Rungs(disk[c])
    /\ \A c \in Breach : sweptBy[c].by # "tower" => Rungs(receipts[c]) \subseteq Rungs(disk[c])

LEMMA BlobFields == \A b \in Blob : b.fee \in Range(FeeLadder) /\ b.fee \in Nat /\ b.to \in Address
<1>1. Range(FeeLadder) \subseteq Nat
  BY TowerConstants DEF Range
<1> QED
  BY <1>1 DEF Blob

\* Blobs of different fees are finitely many: the ladder is.
LEMMA RowsFinite ==
    ASSUME NEW rows \in SUBSET Blob, OneRowAFee(rows)
    PROVE  IsFiniteSet(rows)
<1> DEFINE f == [b \in rows |-> b.fee]
           n == Len(FeeLadder)
           rung == [i \in 1..n |-> FeeLadder[i]]
<1>1. n \in Nat /\ DOMAIN FeeLadder = 1..n
  BY TowerConstants
<1>2. IsFiniteSet(1..n)
  BY <1>1, 1 \in Int, FS_Interval
<1>3. rung \in Surjection(1..n, Range(FeeLadder))
  BY <1>1 DEF Surjection, Range
<1>4. IsFiniteSet(Range(FeeLadder))
  <2> HIDE DEF rung, n
  <2> QED
    BY <1>2, <1>3, FS_Surjection
<1>5. f \in Injection(rows, Range(FeeLadder))
  BY BlobFields DEF Injection, IsInjective, OneRowAFee
<1> HIDE DEF f
<1> QED
  BY <1>4, <1>5, FS_Injection

LEMMA SortedRows ==
    ASSUME NEW rows \in SUBSET Blob, OneRowAFee(rows)
    PROVE  ByFee(rows) \in Seq(Blob) /\ Range(ByFee(rows)) = rows /\ IsInjective(ByFee(rows))
<1> DEFINE n == Cardinality(rows)
           rank == [b \in rows |-> b.fee]
           Good(s) == /\ Range(s) = rows
                      /\ \A i, j \in DOMAIN s : i < j => s[i].fee < s[j].fee
<1>1. IsFiniteSet(rows) /\ n \in Nat
  BY RowsFinite, FS_CardinalityType
<1>2. /\ \A x \in rows : rank[x] \in Nat /\ rank[x] = x.fee
      /\ \A x, y \in rows : x # y => rank[x] # rank[y]
  BY BlobFields DEF OneRowAFee
<1>3. PICK s \in [1..n -> rows] : Range(s) = rows /\ Rising(s, rank)
  <2> HIDE DEF rank
  <2> QED
    BY <1>1, <1>2, RankedUp
<1>4. Good(s)
  <2> HIDE DEF n, rank
  <2>1. \A i \in DOMAIN s : s[i] \in rows
    BY <1>3
  <2> QED
    BY <1>2, <1>3, <2>1 DEF Rising
<1>5. ByFee(rows) = CHOOSE t \in [1..n -> rows] : Good(t)
  BY DEF ByFee
<1> HIDE DEF Good
<1>6. ByFee(rows) \in [1..n -> rows] /\ Good(ByFee(rows))
  BY <1>3, <1>4, <1>5
<1> HIDE DEF n
<1>7. ByFee(rows) \in Seq(rows) /\ Range(ByFee(rows)) = rows
  BY <1>1, <1>6 DEF Good
<1>8. IsInjective(ByFee(rows))
  <2> DEFINE t == ByFee(rows)
  <2>1. DOMAIN t = 1..n /\ \A i \in 1..n : t[i].fee \in Nat
    BY <1>2, <1>6
  <2>2. \A i, j \in DOMAIN t : i < j => t[i].fee < t[j].fee
    BY <1>6 DEF Good
  <2> HIDE DEF t
  <2>3. \A i, j \in 1..n : i < j => t[i] # t[j]
    BY <2>1, <2>2
  <2> QED
    BY <1>1, <2>1, <2>3 DEF IsInjective, t
<1> QED
  BY <1>7, <1>8

LEMMA JoinedRange ==
    ASSUME NEW S, NEW s \in Seq(S), NEW t \in Seq(S)
    PROVE  /\ s \o t \in Seq(S) /\ Range(s \o t) = Range(s) \cup Range(t)
           /\ IsInjective(s) /\ IsInjective(t) /\ Range(s) \cap Range(t) = {} => IsInjective(s \o t)
<1> DEFINE r == s \o t
           m == Len(s)
           n == Len(t)
<1>1. /\ r \in Seq(S) /\ m \in Nat /\ n \in Nat
      /\ DOMAIN r = 1..(m + n) /\ DOMAIN s = 1..m /\ DOMAIN t = 1..n
  OBVIOUS
<1>2. \A i \in 1..m : r[i] = s[i]
  OBVIOUS
<1>3. \A i \in 1..(m + n) : i > m => r[i] = t[i - m]
  OBVIOUS
<1> HIDE DEF r, m, n
<1>4. ASSUME NEW i \in 1..(m + n) PROVE r[i] \in Range(s) \cup Range(t)
  <2>1. CASE i \in 1..m
    BY <1>1, <1>2, <2>1 DEF Range
  <2>2. CASE i > m
    <3>1. i - m \in 1..n
      BY <1>1, <2>2
    <3> QED
      BY <1>1, <1>3, <2>2, <3>1 DEF Range
  <2> QED
    BY <1>1, <2>1, <2>2
<1>5. \A i \in 1..m : i \in 1..(m + n) /\ s[i] \in Range(r)
  <2>1. \A i \in 1..m : i \in 1..(m + n)
    BY <1>1
  <2> QED
    BY <1>1, <1>2, <2>1 DEF Range
<1>6. ASSUME NEW i \in 1..n PROVE t[i] \in Range(r)
  <2>1. m + i \in 1..(m + n) /\ m + i > m /\ (m + i) - m = i
    BY <1>1
  <2>2. r[m + i] = t[i]
    BY <1>3, <2>1
  <2> QED
    BY <1>1, <2>1, <2>2 DEF Range
<1>7. Range(r) = Range(s) \cup Range(t)
  BY <1>1, <1>4, <1>5, <1>6 DEF Range
<1>8. ASSUME IsInjective(s), IsInjective(t), Range(s) \cap Range(t) = {}
      PROVE  IsInjective(r)
  <2> SUFFICES ASSUME NEW i \in 1..(m + n), NEW j \in 1..(m + n), i < j PROVE r[i] # r[j]
    BY <1>1 DEF IsInjective
  <2>1. CASE j \in 1..m
    <3>1. i \in 1..m
      BY <1>1, <2>1
    <3> QED
      BY <1>1, <1>2, <1>8, <2>1, <3>1 DEF IsInjective
  <2>2. CASE i > m
    <3>1. i - m \in 1..n /\ j - m \in 1..n /\ j > m /\ i - m # j - m
      BY <1>1, <2>2
    <3> QED
      BY <1>1, <1>3, <1>8, <2>2, <3>1 DEF IsInjective
  <2>3. CASE i \in 1..m /\ j > m
    <3>1. j - m \in 1..n
      BY <1>1, <2>3
    <3>2. r[i] \in Range(s) /\ r[j] \in Range(t)
      BY <1>1, <1>2, <1>3, <2>3, <3>1 DEF Range
    <3> QED
      BY <1>8, <3>2
  <2> QED
    BY <1>1, <2>1, <2>2, <2>3
<1> QED
  BY <1>1, <1>7, <1>8 DEF r

\* Registering a blob adds it, wherever the list puts it.
LEMMA KeptRange ==
    ASSUME NEW S, NEW s \in Seq(S), NEW K
    PROVE  /\ Kept(s, K) \in Seq(S) /\ Range(Kept(s, K)) = Range(s) \cap K
           /\ IsInjective(s) => IsInjective(Kept(s, K))
<1> DEFINE k == Kept(s, K)
<1>1. k \in Seq(S) /\ KeptSoFar(k, s, K, Len(s))
  BY KeptElements
<1> HIDE DEF k
<1>2. ToSet(k) = {s[i] : i \in 1..Len(s)} \cap K
  BY <1>1 DEF KeptSoFar
<1>3. ToSet(k) = Range(k) /\ Range(s) = {s[i] : i \in 1..Len(s)}
  BY <1>1 DEF ToSet, Range
<1>4. IsInjective(s) => IsInjective(k)
  <2> SUFFICES ASSUME IsInjective(s), NEW i \in DOMAIN k, NEW j \in DOMAIN k, i < j
               PROVE  k[i] # k[j]
    <3>1. DOMAIN k = 1..Len(k) /\ Len(k) \in Nat
      BY <1>1
    <3> QED
      BY <3>1 DEF IsInjective
  <2>1. PICK a, b \in 1..Len(s) : a < b /\ k[i] = s[a] /\ k[j] = s[b]
    BY <1>1 DEF KeptSoFar
  <2> QED
    BY <2>1 DEF IsInjective
<1> QED
  BY <1>1, <1>2, <1>3, <1>4 DEF k

LEMMA Inserted ==
    ASSUME NEW list \in Seq(Blob), NEW b \in Blob
    PROVE  /\ Insert(list, b) \in Seq(Blob) /\ Range(Insert(list, b)) = Range(list) \cup {b}
           /\ IsInjective(list) => IsInjective(Insert(list, b))
<1> DEFINE Low == {x \in Blob : x.fee <= b.fee}
           High == {x \in Blob : x.fee > b.fee}
           low == Kept(list, Low)
           high == Kept(list, High)
<1>1. CASE b \in Range(list)
  BY <1>1 DEF Insert
<1>2. CASE b \notin Range(list)
  <2>1. Low \cup High = Blob /\ Low \cap High = {} /\ b \in Low
    BY BlobFields
  <2>2. Range(list) = {list[i] : i \in 1..Len(list)} /\ Range(list) \subseteq Blob
    BY DEF Range
  <2> HIDE DEF Low, High
  <2>3. /\ low \in Seq(Blob) /\ Range(low) = Range(list) \cap Low
        /\ IsInjective(list) => IsInjective(low)
    BY KeptRange
  <2>4. /\ high \in Seq(Blob) /\ Range(high) = Range(list) \cap High
        /\ IsInjective(list) => IsInjective(high)
    BY KeptRange
  <2> DEFINE one == <<b>>
             upto == low \o one
  <2>5. one \in Seq(Blob) /\ Range(one) = {b} /\ IsInjective(one)
    BY DEF Range, IsInjective
  <2>6. Insert(list, b) = upto \o high
    BY <1>2 DEF Insert, Low, High
  <2> HIDE DEF low, high, one
  <2>7. /\ upto \in Seq(Blob) /\ Range(upto) = Range(low) \cup {b}
        /\ IsInjective(low) => IsInjective(upto)
    BY <1>2, <2>3, <2>5, JoinedRange
  <2> HIDE DEF upto
  <2>8. /\ upto \o high \in Seq(Blob)
        /\ Range(upto \o high) = Range(upto) \cup Range(high)
        /\ IsInjective(upto) /\ IsInjective(high) => IsInjective(upto \o high)
    <3>1. Range(upto) \cap Range(high) = {}
      BY <2>1, <2>3, <2>4, <2>7
    <3> QED
      BY <2>4, <2>7, <3>1, JoinedRange
  <2> QED
    BY <2>1, <2>2, <2>3, <2>4, <2>6, <2>7, <2>8
<1> QED
  BY <1>1, <1>2

\* So does registering a ladder.
LEMMA LadderRegistered ==
    ASSUME NEW list \in Seq(Blob), NEW bs \in SUBSET Blob, OneRowAFee(bs)
    PROVE  /\ Registered(list, bs) \in Seq(Blob)
           /\ Range(Registered(list, bs)) = Range(list) \cup bs
           /\ IsInjective(list) => IsInjective(Registered(list, bs))
<1> DEFINE s == ByFee(bs)
           N == Len(s)
           Step == [x \in Seq(Blob) \X (1..N) |-> Insert(x[1], s[x[2]])]
           Is(q) == q = [n \in 0..N |-> IF n = 0 THEN list ELSE Insert(q[n - 1], s[n])]
           q == CHOOSE q : Is(q)
           R == [n \in 0..N |-> {x \in Seq(Blob) :
                                    /\ Range(x) = Range(list) \cup {s[i] : i \in 1..n}
                                    /\ IsInjective(list) => IsInjective(x)}]
<1>1. s \in Seq(Blob) /\ Range(s) = bs
  BY SortedRows
<1>2. N \in Nat /\ Range(s) = {s[i] : i \in 1..N} /\ \A n \in 1..N : s[n] \in Blob
  BY <1>1 DEF Range
<1> HIDE DEF s
<1>3. StepOn(Step, Seq(Blob), N)
  BY <1>2, Inserted DEF StepOn
<1>4. PICK f : RunOf(f, Step, Seq(Blob), list, N)
  <2> HIDE DEF Step, N
  <2> QED
    BY <1>2, <1>3, RecursionExists
<1>5. Is(f)
  <2>1. ASSUME NEW n \in 0..N
        PROVE  f[n] = IF n = 0 THEN list ELSE Insert(f[n - 1], s[n])
    <3>1. CASE n # 0
      <4>1. n \in 1..N /\ n - 1 \in 0..N
        BY <1>2, <3>1
      <4>2. f[n - 1] \in Seq(Blob) /\ f[n] = Step[<<f[n - 1], n>>]
        BY <1>4, <4>1 DEF RunOf
      <4>3. Step[<<f[n - 1], n>>] = Insert(f[n - 1], s[n])
        BY <4>1, <4>2
      <4> QED
        BY <3>1, <4>2, <4>3
    <3> QED
      BY <1>4, <3>1 DEF RunOf
  <2>2. f \in [0..N -> Seq(Blob)]
    BY <1>4 DEF RunOf
  <2> HIDE DEF N
  <2> QED
    BY <2>1, <2>2
<1>6. Is(q)
  <2> HIDE DEF Is
  <2> QED
    BY <1>5
<1>7. \A n \in 0..N : q[n] = IF n = 0 THEN list ELSE Insert(q[n - 1], s[n])
  <2> HIDE DEF q, N
  <2> QED
    BY <1>6
<1> HIDE DEF q, N
<1>8. q[0] \in R[0]
  <2>1. {s[i] : i \in 1..0} = {}
    OBVIOUS
  <2> QED
    BY <1>2, <1>7, <2>1
<1>9. ASSUME NEW n \in 1..N, q[n - 1] \in R[n - 1] PROVE q[n] \in R[n]
  <2>1. n - 1 \in 0..N /\ n \in 0..N /\ n # 0
    BY <1>2
  <2> DEFINE x == q[n - 1]
             b == s[n]
  <2>2. /\ x \in Seq(Blob) /\ Range(x) = Range(list) \cup {s[i] : i \in 1..(n - 1)}
        /\ IsInjective(list) => IsInjective(x)
    BY <1>9, <2>1
  <2>3. q[n] = Insert(x, b) /\ b \in Blob
    BY <1>2, <1>7, <2>1
  <2> HIDE DEF x
  <2>4. {s[i] : i \in 1..n} = {s[i] : i \in 1..(n - 1)} \cup {b}
    <3>1. 1..n = (1..(n - 1)) \cup {n}
      BY <2>1
    <3> QED
      BY <3>1
  <2> HIDE DEF b
  <2>5. /\ q[n] \in Seq(Blob) /\ Range(q[n]) = Range(x) \cup {b}
        /\ IsInjective(list) => IsInjective(q[n])
    BY <2>2, <2>3, Inserted
  <2>6. Range(q[n]) = Range(list) \cup {s[i] : i \in 1..n}
    BY <2>2, <2>4, <2>5
  <2> QED
    BY <2>1, <2>5, <2>6
<1>10. q[N] \in R[N]
  <2> HIDE DEF R
  <2>1. \A n \in 0..N : q[n] \in R[n]
    BY <1>2, <1>8, <1>9, IndexedClosure
  <2> QED
    BY <1>2, <2>1
<1>11. /\ q[N] \in Seq(Blob) /\ Range(q[N]) = Range(list) \cup bs
       /\ IsInjective(list) => IsInjective(q[N])
  BY <1>1, <1>2, <1>10
<1> QED
  BY <1>11 DEF Registered, q, N, s

\* The table keeps one row a fee, and none of its fees goes.
LEMMA Upserted ==
    ASSUME NEW rows \in SUBSET Blob, OneRowAFee(rows), NEW bs \in SUBSET Blob, OneRowAFee(bs)
    PROVE  /\ Upsert(rows, bs) \in SUBSET Blob /\ OneRowAFee(Upsert(rows, bs))
           /\ Rungs(Upsert(rows, bs)) = Rungs(rows) \cup Rungs(bs)
<1> DEFINE up == Upsert(rows, bs)
<1>1. up = {r \in rows : r.fee \notin Rungs(bs)} \cup bs
  BY DEF Upsert, Rungs
<1>2. OneRowAFee(up)
  <2> SUFFICES ASSUME NEW x \in up, NEW y \in up, x.fee = y.fee PROVE x = y
    BY DEF OneRowAFee
  <2>1. CASE x \in bs
    <3>1. y \in bs
      BY <1>1, <2>1 DEF Rungs
    <3> QED
      BY <2>1, <3>1 DEF OneRowAFee
  <2>2. CASE x \notin bs
    <3>1. x \in rows /\ x.fee \notin Rungs(bs)
      BY <1>1, <2>2
    <3>2. y \in rows
      BY <1>1, <3>1 DEF Rungs
    <3> QED
      BY <3>1, <3>2 DEF OneRowAFee
  <2> QED
    BY <2>1, <2>2
<1>3. Rungs(up) = Rungs(rows) \cup Rungs(bs)
  <2>1. ASSUME NEW x \in up PROVE x.fee \in Rungs(rows) \cup Rungs(bs)
    BY <1>1 DEF Rungs
  <2>2. ASSUME NEW x \in rows PROVE x.fee \in Rungs(up)
    <3>1. CASE x.fee \in Rungs(bs)
      <4>1. PICK b \in bs : b.fee = x.fee
        BY <3>1 DEF Rungs
      <4> QED
        BY <1>1, <4>1 DEF Rungs
    <3>2. CASE x.fee \notin Rungs(bs)
      BY <1>1, <3>2 DEF Rungs
    <3> QED
      BY <3>1, <3>2
  <2>3. ASSUME NEW x \in bs PROVE x.fee \in Rungs(up)
    BY <1>1 DEF Rungs
  <2>4. Rungs(up) \subseteq Rungs(rows) \cup Rungs(bs)
    BY <2>1 DEF Rungs
  <2>5. Rungs(rows) \subseteq Rungs(up) /\ Rungs(bs) \subseteq Rungs(up)
    <3> HIDE DEF up
    <3> QED
      BY <2>2, <2>3 DEF Rungs
  <2> QED
    BY <2>4, <2>5
<1> HIDE DEF up
<1>4. up \in SUBSET Blob
  BY <1>1
<1> QED
  BY <1>2, <1>3, <1>4 DEF up

LEMMA SealedRungs ==
    ASSUME NEW c, NEW to
    PROVE  Sealed(c, to) \in SUBSET Blob /\ OneRowAFee(Sealed(c, to))
<1>1. \A x, y \in Blob : x.fee = y.fee /\ x.to = y.to => x = y
  BY DEF Blob
<1> QED
  BY <1>1 DEF Sealed, OneRowAFee

----------------------------------------------------------------------------
LEMMA InitHolds == TowerInit => TowerInv
<1> SUFFICES ASSUME TowerInit PROVE TowerInv
  OBVIOUS
<1>1. /\ \A c \in Breach : blobs[c] = <<>> /\ disk[c] = {} /\ receipts[c] = {}
      /\ blobs \in [Breach -> Seq(Blob)]
      /\ disk \in [Breach -> SUBSET Blob]
      /\ receipts \in [Breach -> SUBSET Blob]
  BY DEF TowerInit
<1>2. Range(<<>>) = {}
  BY DEF Range
<1> QED
  BY <1>1, <1>2 DEF TowerInv, OneRowAFee, Rungs

\* The parts of a step that touches one breach.
LEMMA OneBreach ==
    ASSUME TowerInv, NEW c \in Breach, NEW l \in Seq(Blob), NEW rows \in SUBSET Blob,
           NEW rs \in SUBSET Blob, OneRowAFee(rows), Rungs(Range(l)) = Rungs(rows),
           sweptBy[c].by # "tower" => Rungs(rs) \subseteq Rungs(rows),
           blobs' = [blobs EXCEPT ![c] = l], disk' = [disk EXCEPT ![c] = rows],
           receipts' = [receipts EXCEPT ![c] = rs], UNCHANGED sweptBy
    PROVE  TowerInv'
<1>1. /\ blobs' \in [Breach -> Seq(Blob)]
      /\ disk' \in [Breach -> SUBSET Blob]
      /\ receipts' \in [Breach -> SUBSET Blob]
  BY DEF TowerInv
<1>2. \A d \in Breach : /\ d = c => blobs'[d] = l /\ disk'[d] = rows /\ receipts'[d] = rs
                        /\ d # c => /\ blobs'[d] = blobs[d] /\ disk'[d] = disk[d]
                                    /\ receipts'[d] = receipts[d]
  BY DEF TowerInv
<1> QED
  BY <1>1, <1>2 DEF TowerInv

LEMMA RegisterHolds ==
    ASSUME TowerInv, NEW c \in Breach, NEW to \in Address, Register(c, to)
    PROVE  TowerInv'
<1> DEFINE new == Sealed(c, to)
           l == Registered(blobs[c], new)
           rows == Upsert(disk[c], new \ Range(blobs[c]))
           rs == receipts[c] \cup new
<1>1. /\ blobs[c] \in Seq(Blob) /\ disk[c] \in SUBSET Blob /\ receipts[c] \in SUBSET Blob
      /\ OneRowAFee(disk[c]) /\ Rungs(Range(blobs[c])) = Rungs(disk[c])
      /\ sweptBy[c].by # "tower" => Rungs(receipts[c]) \subseteq Rungs(disk[c])
  BY DEF TowerInv
<1>2. new \in SUBSET Blob /\ OneRowAFee(new)
  BY SealedRungs
<1>3. l \in Seq(Blob) /\ Range(l) = Range(blobs[c]) \cup new
  <2> HIDE DEF new
  <2> QED
    BY <1>1, <1>2, LadderRegistered
<1>4. /\ blobs' = [blobs EXCEPT ![c] = l] /\ disk' = [disk EXCEPT ![c] = rows]
      /\ receipts' = [receipts EXCEPT ![c] = rs] /\ UNCHANGED sweptBy
  BY DEF Register, chain
<1> HIDE DEF new
<1>5. /\ rows \in SUBSET Blob /\ OneRowAFee(rows)
      /\ Rungs(rows) = Rungs(disk[c]) \cup Rungs(new \ Range(blobs[c]))
  <2> DEFINE fresh == new \ Range(blobs[c])
  <2>1. fresh \in SUBSET Blob /\ OneRowAFee(fresh)
    BY <1>2 DEF OneRowAFee
  <2> HIDE DEF fresh
  <2> QED
    BY <1>1, <2>1, Upserted DEF fresh
<1> HIDE DEF l, rows
<1>6. Rungs(rows) = Rungs(disk[c]) \cup Rungs(new)
  BY <1>1, <1>5 DEF Rungs
<1>7. Rungs(Range(l)) = Rungs(rows)
  BY <1>1, <1>3, <1>6 DEF Rungs
<1>8. sweptBy[c].by # "tower" => Rungs(rs) \subseteq Rungs(rows)
  BY <1>1, <1>6 DEF Rungs
<1>9. rs \in SUBSET Blob
  BY <1>1, <1>2
<1> HIDE DEF rs
<1> QED
  BY <1>3, <1>4, <1>5, <1>7, <1>8, <1>9, OneBreach

LEMMA ForgetHolds ==
    ASSUME TowerInv, NEW c \in Breach, Forget(c)
    PROVE  TowerInv'
<1>1. /\ blobs' = [blobs EXCEPT ![c] = <<>>] /\ disk' = [disk EXCEPT ![c] = {}]
      /\ receipts' = [receipts EXCEPT ![c] = {}] /\ UNCHANGED sweptBy
  BY DEF Forget, chain
<1>2. <<>> \in Seq(Blob) /\ Rungs(Range(<<>>)) = Rungs({}) /\ OneRowAFee({})
  BY DEF Range, OneRowAFee
<1> QED
  BY <1>1, <1>2, OneBreach

\* A scan keeps what it holds of a breach, or has seen its penalty confirmed.
LEMMA ScannedKeeps ==
    ASSUME NEW c \in Breach
    PROVE  \/ Scanned(c).list = blobs[c] /\ Scanned(c).rows = disk[c]
           \/ /\ Scanned(c).list = <<>> /\ Scanned(c).rows = {}
              /\ sweptBy[c].by = "tower"
<1> DEFINE Keeps(o) == o.list = blobs[c] /\ o.rows = disk[c]
<1>1. \A pen, sent : Keeps(Outcome(blobs[c], disk[c], pen, sent))
  BY DEF Outcome
<1>2. \A from, otherwise : Keeps(Act(c, from, otherwise))
  <2> HIDE DEF Keeps
  <2> QED
    BY <1>1 DEF Act
<1>3. \A pen : Outcome(<<>>, {}, pen, {}).list = <<>> /\ Outcome(<<>>, {}, pen, {}).rows = {}
  BY DEF Outcome
<1>4. \A b : Tower(b).by = "tower"
  BY DEF Tower
<1>5. \/ Keeps(Retry(c))
      \/ /\ Retry(c).list = <<>> /\ Retry(c).rows = {} /\ sweptBy[c].by = "tower"
  <2> HIDE DEF Keeps
  <2> QED
    BY <1>1, <1>2, <1>3, <1>4 DEF Retry
<1> HIDE DEF Keeps
<1>6. Keeps(Scanned(c)) \/ Scanned(c) = Retry(c)
  BY <1>1, <1>2 DEF Scanned
<1> QED
  BY <1>5, <1>6 DEF Keeps

LEMMA ScanHolds ==
    ASSUME TowerInv, ScanBlock
    PROVE  TowerInv'
<1>1. /\ blobs' = [c \in Breach |-> Scanned(c).list]
      /\ disk' = [c \in Breach |-> Scanned(c).rows]
      /\ receipts' = [c \in Breach |-> IF sweptBy[c].by = "tower" THEN {} ELSE receipts[c]]
      /\ UNCHANGED sweptBy
  BY DEF ScanBlock
<1>2. <<>> \in Seq(Blob) /\ Rungs(Range(<<>>)) = Rungs({}) /\ OneRowAFee({})
  BY DEF Range, OneRowAFee
<1>3. ASSUME NEW c \in Breach
      PROVE  /\ blobs'[c] \in Seq(Blob) /\ disk'[c] \in SUBSET Blob /\ receipts'[c] \in SUBSET Blob
             /\ OneRowAFee(disk'[c]) /\ Rungs(Range(blobs'[c])) = Rungs(disk'[c])
             /\ sweptBy[c].by # "tower" => Rungs(receipts'[c]) \subseteq Rungs(disk'[c])
  <2>1. /\ blobs'[c] = Scanned(c).list /\ disk'[c] = Scanned(c).rows
        /\ receipts'[c] = IF sweptBy[c].by = "tower" THEN {} ELSE receipts[c]
    BY <1>1
  <2> QED
    BY <1>2, <2>1, ScannedKeeps DEF TowerInv
<1> QED
  BY <1>1, <1>3 DEF TowerInv

LEMMA RestartHolds ==
    ASSUME TowerInv, Restart
    PROVE  TowerInv'
<1>1. /\ blobs' = [c \in Breach |-> ByFee(disk[c])]
      /\ UNCHANGED <<disk, receipts, sweptBy>>
  BY DEF Restart, chain, client
<1>2. \A c \in Breach : ByFee(disk[c]) \in Seq(Blob) /\ Range(ByFee(disk[c])) = disk[c]
  BY SortedRows DEF TowerInv
<1> QED
  BY <1>1, <1>2 DEF TowerInv

LEMMA MineHolds ==
    ASSUME TowerInv, NEW new, MineBlock(new)
    PROVE  TowerInv'
<1>1. UNCHANGED <<blobs, disk, receipts>> /\ \A c \in Breach : sweptBy'[c] \in Spends(c, new)
  BY DEF MineBlock, client
<1>2. \A c \in Breach : sweptBy[c].by = "tower" => sweptBy'[c] = sweptBy[c]
  <2>1. Nobody.by # "tower"
    BY DEF Nobody
  <2> QED
    BY <1>1, <2>1 DEF Spends
<1> QED
  BY <1>1, <1>2 DEF TowerInv

LEMMA TowerNextHolds == TowerInv /\ [TowerNext]_towerVars => TowerInv'
<1> SUFFICES ASSUME TowerInv, [TowerNext]_towerVars PROVE TowerInv'
  OBVIOUS
<1>1. CASE \E c \in Breach, to \in Address : Register(c, to)
  BY <1>1, RegisterHolds
<1>2. CASE \E c \in Breach : Forget(c)
  BY <1>2, ForgetHolds
<1>3. CASE ScanBlock
  BY <1>3, ScanHolds
<1>4. CASE Restart
  BY <1>4, RestartHolds
<1>5. CASE \E f \in Floors : MoveFloor(f)
  BY <1>5 DEF MoveFloor, tower, client, TowerInv
<1>6. CASE \E new \in SUBSET Breach : MineBlock(new)
  BY <1>6, MineHolds
<1>7. CASE UNCHANGED towerVars
  BY <1>7 DEF towerVars, tower, chain, client, TowerInv
<1> QED
  BY <1>1, <1>2, <1>3, <1>4, <1>5, <1>6, <1>7 DEF TowerNext

THEOREM TowerInvariance == TowerSpec => []TowerInv
<1> QED
  BY InitHolds, TowerNextHolds, PTL DEF TowerSpec

\* No rung the tower gave a receipt for is lost, in memory or in the table.
THEOREM ReceiptsHonoured == TowerSpec => []ReceiptedRungsHeld
<1>1. TowerInv => ReceiptedRungsHeld
  <2> SUFFICES ASSUME TowerInv, NEW c \in Breach, sweptBy[c].by # "tower", NEW b \in receipts[c]
               PROVE  /\ \E x \in Range(blobs[c]) : x.fee = b.fee
                      /\ \E x \in disk[c] : x.fee = b.fee
    BY DEF ReceiptedRungsHeld
  <2>1. b.fee \in Rungs(disk[c]) /\ b.fee \in Rungs(Range(blobs[c]))
    BY DEF TowerInv, Rungs
  <2> QED
    BY <2>1 DEF Rungs
<1> QED
  BY <1>1, TowerInvariance, PTL

----------------------------------------------------------------------------
(***************************************************************************)
(* Watch: every breach the tower is answerable for is not mined yet, or    *)
(* mined and not scanned, or has a penalty out, or floats on one that pays *)
(* and that a restart made the tower forget, or was swept.  A penalty out  *)
(* is no dearer than the dearest rung, and each rung below it has cost at  *)
(* most RetryAfter blocks.                                                 *)
(***************************************************************************)
OpenRungs(c) == {i \in 1..Len(blobs[c]) : Opens(c, blobs[c][i])}
Below(c, r) == {i \in OpenRungs(c) : i < r}

Untouched(c) ==
    /\ age[c] = 0 /\ sweptBy[c] = Nobody /\ pending[c] = NoPenalty
    /\ \A i \in DOMAIN unseen : c \notin unseen[i]
    /\ \A p \in pool : p[1] # c

Waiting(c) ==
    /\ age[c] = 1 /\ sweptBy[c] = Nobody /\ pending[c] = NoPenalty /\ unseen # <<>>
    /\ \A i \in DOMAIN unseen : c \in unseen[i] <=> i = Len(unseen)
    /\ blobs[c] # <<>>
    /\ \A p \in pool : p[1] # c

\* A penalty out at rung r that has waited w blocks.
OutAt(c, r, w) ==
    /\ pending[c] = [rung |-> r, blob |-> blobs[c][r], waited |-> w]
    /\ \A p \in pool : p[1] = c => p[2].fee <= blobs[c][r].fee
    /\ \A i \in Below(c, r) : blobs[c][i].fee < TopFee(c)
    /\ blobs[c][r].fee = TopFee(c) => <<c, blobs[c][r]>> \in pool /\ w = 0 /\ unseen = <<>>
    /\ age[c] <= 1 + RetryAfter * Cardinality(Below(c, r)) + w + Len(unseen)

Out(c) ==
    /\ age[c] > 0 /\ sweptBy[c] = Nobody
    /\ Len(unseen) <= 1 /\ \A i \in DOMAIN unseen : c \notin unseen[i]
    /\ floor <= TopFee(c)
    /\ \E r \in OpenRungs(c), w \in 0..(RetryAfter - 1) : OutAt(c, r, w)

Floating(c) ==
    /\ Adrift(c) /\ sweptBy[c] = Nobody
    /\ Afloat(c, floor) /\ age[c] < Deadline

Swept(c) == sweptBy[c] # Nobody

Watched(c) == Untouched(c) \/ Waiting(c) \/ Out(c) \/ Floating(c) \/ Swept(c)

Penalties == [rung : Nat \ {0}, blob : Blob, waited : Nat]

WatchTypes ==
    /\ pending \in [Breach -> {NoPenalty} \cup Penalties]
    /\ unseen \in Seq(SUBSET Breach)
    /\ floor \in Nat
    /\ pool \in SUBSET (Breach \X Blob)
    /\ age \in [Breach -> 0..Deadline]

Shape ==
    \A c \in Breach : /\ IsInjective(blobs[c]) /\ Range(blobs[c]) \subseteq Sealable(c)
                      /\ disk[c] \subseteq Sealable(c)

Watch ==
    /\ TowerInv /\ WatchTypes /\ Shape
    /\ \A c \in Breach : c \notin excused => Watched(c)

LEMMA WatchTypesHold == TowerInit => WatchTypes /\ Shape
<1> SUFFICES ASSUME TowerInit PROVE WatchTypes /\ Shape
  OBVIOUS
<1>1. Range(<<>>) = {} /\ IsInjective(<<>>)
  BY DEF Range, IsInjective
<1>2. Shape
  BY <1>1 DEF TowerInit, Shape
<1>3. 0 \in 0..Deadline /\ floor \in Nat
  BY TowerConstants DEF TowerInit
<1> QED
  BY <1>2, <1>3 DEF TowerInit, WatchTypes

\* What #act chooses from, and its choice.
Usable(c, from) == {r \in from..Len(blobs[c]) : Opens(c, blobs[c][r]) /\ Relays(c, blobs[c][r])}

Sending(c, r) == Outcome(blobs[c], disk[c], [rung |-> r, blob |-> blobs[c][r], waited |-> 0],
                         {<<c, blobs[c][r]>>})

LEMMA ActChooses ==
    ASSUME NEW c, NEW from \in Nat \ {0}, NEW otherwise, blobs[c] \in Seq(Blob)
    PROVE  /\ Usable(c, from) = {} => Act(c, from, otherwise) = Outcome(blobs[c], disk[c], otherwise, {})
           /\ Usable(c, from) # {} =>
                \E r \in Usable(c, from) : /\ Act(c, from, otherwise) = Sending(c, r)
                                           /\ \A i \in Usable(c, from) : r <= i
           /\ \A r \in Usable(c, from) : r \in Nat \ {0} /\ r \in 1..Len(blobs[c]) /\ blobs[c][r] \in Blob
<1> DEFINE r == Min(Usable(c, from))
<1>1. \A i \in Usable(c, from) : i \in Nat \ {0} /\ i \in 1..Len(blobs[c]) /\ blobs[c][i] \in Blob
  BY DEF Usable
<1>2. CASE Usable(c, from) = {}
  BY <1>1, <1>2 DEF Act, Usable
<1>3. CASE Usable(c, from) # {}
  <2>1. r \in Usable(c, from) /\ \A i \in Usable(c, from) : r <= i
    <3> DEFINE U == Usable(c, from)
    <3>1. U \in SUBSET Nat /\ U # {}
      BY <1>1, <1>3
    <3> HIDE DEF U
    <3> QED
      BY <3>1, NatLeast DEF Min, U
  <2>2. Act(c, from, otherwise) = Sending(c, r)
    BY <1>3 DEF Act, Usable, Sending
  <2> QED
    BY <1>1, <1>3, <2>1, <2>2
<1> QED
  BY <1>1, <1>2, <1>3

\* What a scan sends for a breach is of that breach, and what it waits for is a penalty.
LEMMA ScannedTypes ==
    ASSUME NEW c \in Breach, blobs[c] \in Seq(Blob), pending[c] \in {NoPenalty} \cup Penalties
    PROVE  Scanned(c).sent \subseteq {c} \X Blob /\ Scanned(c).pen \in {NoPenalty} \cup Penalties
<1> DEFINE Ok(o) == o.sent \subseteq {c} \X Blob /\ o.pen \in {NoPenalty} \cup Penalties
<1>1. ASSUME NEW list, NEW rows, NEW pen \in {NoPenalty} \cup Penalties
      PROVE  Ok(Outcome(list, rows, pen, {}))
  BY DEF Outcome
<1>2. ASSUME NEW from \in Nat \ {0}, NEW otherwise \in {NoPenalty} \cup Penalties
      PROVE  Ok(Act(c, from, otherwise))
  <2>1. CASE Usable(c, from) = {}
    <3>1. Act(c, from, otherwise) = Outcome(blobs[c], disk[c], otherwise, {})
      BY <2>1, ActChooses
    <3> HIDE DEF Ok
    <3> QED
      BY <1>1, <3>1
  <2>2. CASE Usable(c, from) # {}
    <3>1. PICK r \in Usable(c, from) : Act(c, from, otherwise) = Sending(c, r)
      BY <2>2, ActChooses
    <3>2. r \in Nat \ {0} /\ blobs[c][r] \in Blob
      BY ActChooses
    <3>3. [rung |-> r, blob |-> blobs[c][r], waited |-> 0] \in Penalties
      BY <3>2 DEF Penalties
    <3>4. {<<c, blobs[c][r]>>} \subseteq {c} \X Blob
      BY <3>2
    <3> QED
      BY <3>1, <3>3, <3>4 DEF Sending, Outcome
  <2> QED
    BY <2>1, <2>2
<1>3. CASE pending[c] = NoPenalty
  <2>1. 1 \in Nat \ {0}
    OBVIOUS
  <2> HIDE DEF Ok
  <2>2. Ok(Scanned(c))
    BY <1>1, <1>2, <1>3, <2>1 DEF Scanned
  <2> QED
    BY <2>2 DEF Ok
<1>4. CASE pending[c] # NoPenalty
  <2> DEFINE pen == [pending[c] EXCEPT !.waited = @ + 1]
  <2>1. /\ pen \in Penalties /\ pen.rung + 1 \in Nat \ {0}
        /\ [pen EXCEPT !.waited = 0] \in Penalties
    <3> DEFINE q == pending[c]
    <3>1. q \in Penalties
      BY <1>4
    <3> HIDE DEF q
    <3>2. q.waited + 1 \in Nat
      BY <3>1 DEF Penalties
    <3>3. [q EXCEPT !.waited = @ + 1] \in Penalties
      BY <3>1, <3>2 DEF Penalties
    <3>4. [q EXCEPT !.waited = @ + 1].rung = q.rung /\ q.rung + 1 \in Nat \ {0}
      BY <3>1 DEF Penalties
    <3>5. \A p \in Penalties : [p EXCEPT !.waited = 0] \in Penalties
      BY DEF Penalties
    <3> QED
      BY <3>3, <3>4, <3>5 DEF q
  <2> HIDE DEF Ok
  <2>2. Ok(Act(c, pen.rung + 1, [pen EXCEPT !.waited = 0]))
    <3> HIDE DEF pen
    <3> QED
      BY <1>2, <2>1
  <2>3. Scanned(c) = Retry(c)
    BY <1>4 DEF Scanned
  <2>4. \/ Retry(c) = Outcome(<<>>, {}, NoPenalty, {})
        \/ Retry(c) = Outcome(blobs[c], disk[c], pen, {})
        \/ Retry(c) = Act(c, pen.rung + 1, [pen EXCEPT !.waited = 0])
    BY DEF Retry
  <2> HIDE DEF pen
  <2>5. Ok(Scanned(c))
    BY <1>1, <2>1, <2>2, <2>3, <2>4
  <2> QED
    BY <2>5 DEF Ok
<1> QED
  BY <1>3, <1>4

----------------------------------------------------------------------------
LEMMA RegisterKeepsShape ==
    ASSUME TowerInv, WatchTypes, Shape, NEW c \in Breach, NEW to \in Address, Register(c, to)
    PROVE  WatchTypes' /\ Shape'
<1> DEFINE new == Sealed(c, to)
           l == Registered(blobs[c], new)
           rows == Upsert(disk[c], new \ Range(blobs[c]))
<1>1. /\ blobs' = [blobs EXCEPT ![c] = l] /\ disk' = [disk EXCEPT ![c] = rows]
      /\ UNCHANGED <<pending, unseen, floor, pool, age>>
  BY DEF Register, chain
<1>2. new \in SUBSET Blob /\ OneRowAFee(new) /\ new \subseteq Sealable(c)
  BY SealedRungs DEF Sealed, Sealable
<1> HIDE DEF new
<1>3. /\ blobs \in [Breach -> Seq(Blob)] /\ disk \in [Breach -> SUBSET Blob]
      /\ IsInjective(blobs[c]) /\ Range(blobs[c]) \subseteq Sealable(c) /\ disk[c] \subseteq Sealable(c)
  BY DEF TowerInv, Shape
<1>4. IsInjective(l) /\ Range(l) \subseteq Sealable(c)
  <2>1. Range(l) = Range(blobs[c]) \cup new /\ IsInjective(l)
    BY <1>2, <1>3, LadderRegistered
  <2> HIDE DEF l
  <2> QED
    BY <1>2, <1>3, <2>1
<1>5. rows \subseteq Sealable(c)
  BY <1>2, <1>3 DEF Upsert
<1> HIDE DEF l, rows
<1>6. \A d \in Breach : /\ d = c => blobs'[d] = l /\ disk'[d] = rows
                        /\ d # c => blobs'[d] = blobs[d] /\ disk'[d] = disk[d]
  BY <1>1, <1>3
<1>7. Shape'
  <2> SUFFICES ASSUME NEW d \in Breach
               PROVE  /\ IsInjective(blobs'[d]) /\ Range(blobs'[d]) \subseteq Sealable(d)
                      /\ disk'[d] \subseteq Sealable(d)
    BY DEF Shape, Sealable
  <2> QED
    BY <1>4, <1>5, <1>6 DEF Shape
<1> QED
  BY <1>1, <1>7 DEF WatchTypes

LEMMA ForgetKeepsShape ==
    ASSUME TowerInv, WatchTypes, Shape, NEW c \in Breach, Forget(c)
    PROVE  WatchTypes' /\ Shape'
<1>1. /\ blobs' = [blobs EXCEPT ![c] = <<>>] /\ disk' = [disk EXCEPT ![c] = {}]
      /\ pending' = [pending EXCEPT ![c] = NoPenalty]
      /\ UNCHANGED <<unseen, floor, pool, age>>
  BY DEF Forget, chain
<1>2. Range(<<>>) = {} /\ IsInjective(<<>>)
  BY DEF Range, IsInjective
<1>3. \A d \in Breach : /\ d = c => blobs'[d] = <<>> /\ disk'[d] = {}
                        /\ d # c => blobs'[d] = blobs[d] /\ disk'[d] = disk[d]
  BY <1>1 DEF TowerInv
<1>4. Shape'
  <2> SUFFICES ASSUME NEW d \in Breach
               PROVE  /\ IsInjective(blobs'[d]) /\ Range(blobs'[d]) \subseteq Sealable(d)
                      /\ disk'[d] \subseteq Sealable(d)
    BY DEF Shape, Sealable
  <2> QED
    BY <1>2, <1>3 DEF Shape
<1> QED
  BY <1>1, <1>4 DEF WatchTypes

LEMMA ScanKeepsShape ==
    ASSUME TowerInv, WatchTypes, Shape, ScanBlock
    PROVE  WatchTypes' /\ Shape'
<1>1. /\ blobs' = [c \in Breach |-> Scanned(c).list]
      /\ disk' = [c \in Breach |-> Scanned(c).rows]
      /\ pending' = [c \in Breach |-> Scanned(c).pen]
      /\ pool' = pool \cup UNION {Scanned(c).sent : c \in Breach}
      /\ unseen # <<>> /\ unseen' = Tail(unseen) /\ UNCHANGED <<floor, age>>
  BY DEF ScanBlock
<1>2. \A c \in Breach : blobs[c] \in Seq(Blob) /\ pending[c] \in {NoPenalty} \cup Penalties
  BY DEF TowerInv, WatchTypes
<1>3. \A c \in Breach : Scanned(c).sent \subseteq {c} \X Blob /\ Scanned(c).pen \in {NoPenalty} \cup Penalties
  BY <1>2, ScannedTypes
<1>4. pool' \in SUBSET (Breach \X Blob) /\ pending' \in [Breach -> {NoPenalty} \cup Penalties]
  BY <1>1, <1>3 DEF WatchTypes
<1>5. unseen' \in Seq(SUBSET Breach)
  BY <1>1 DEF WatchTypes
<1>6. Range(<<>>) = {} /\ IsInjective(<<>>)
  BY DEF Range, IsInjective
<1>7. Shape'
  <2> SUFFICES ASSUME NEW d \in Breach
               PROVE  /\ IsInjective(blobs'[d]) /\ Range(blobs'[d]) \subseteq Sealable(d)
                      /\ disk'[d] \subseteq Sealable(d)
    BY DEF Shape, Sealable
  <2>1. blobs'[d] = Scanned(d).list /\ disk'[d] = Scanned(d).rows
    BY <1>1
  <2> QED
    BY <1>6, <2>1, ScannedKeeps DEF Shape
<1> QED
  BY <1>1, <1>4, <1>5, <1>7 DEF WatchTypes

LEMMA RestartKeepsShape ==
    ASSUME TowerInv, WatchTypes, Shape, Restart
    PROVE  WatchTypes' /\ Shape'
<1>1. /\ blobs' = [c \in Breach |-> ByFee(disk[c])]
      /\ pending' = [c \in Breach |-> NoPenalty]
      /\ UNCHANGED <<disk, unseen, floor, pool, age>>
  BY DEF Restart, chain
<1>2. \A c \in Breach : Range(ByFee(disk[c])) = disk[c] /\ IsInjective(ByFee(disk[c]))
  BY SortedRows DEF TowerInv
<1>3. Shape'
  <2> SUFFICES ASSUME NEW d \in Breach
               PROVE  /\ IsInjective(blobs'[d]) /\ Range(blobs'[d]) \subseteq Sealable(d)
                      /\ disk'[d] \subseteq Sealable(d)
    BY DEF Shape, Sealable
  <2>1. blobs'[d] = ByFee(disk[d]) /\ disk'[d] = disk[d]
    BY <1>1
  <2> QED
    BY <1>2, <2>1 DEF Shape
<1> QED
  BY <1>1, <1>3 DEF WatchTypes

LEMMA MineKeepsShape ==
    ASSUME TowerInv, WatchTypes, Shape, NEW new \in SUBSET Breach, MineBlock(new)
    PROVE  WatchTypes' /\ Shape'
<1>1. /\ age' = [c \in Breach |-> IF c \in new THEN 1
                                  ELSE IF age[c] \in 1..(Deadline - 1) THEN age[c] + 1 ELSE age[c]]
      /\ pool' \subseteq pool /\ unseen' = Append(unseen, new)
      /\ UNCHANGED <<blobs, disk, pending, floor>>
  BY DEF MineBlock
<1>2. Deadline \in Nat \ {0} /\ age \in [Breach -> 0..Deadline]
  BY TowerConstants DEF WatchTypes
<1>3. age' \in [Breach -> 0..Deadline]
  BY <1>1, <1>2
<1>4. unseen' \in Seq(SUBSET Breach)
  BY <1>1 DEF WatchTypes
<1> QED
  BY <1>1, <1>3, <1>4 DEF WatchTypes, Shape, Sealable

LEMMA NextKeepsShape ==
    ASSUME TowerInv, WatchTypes, Shape, [TowerNext]_towerVars
    PROVE  WatchTypes' /\ Shape'
<1>1. CASE \E c \in Breach, to \in Address : Register(c, to)
  BY <1>1, RegisterKeepsShape
<1>2. CASE \E c \in Breach : Forget(c)
  BY <1>2, ForgetKeepsShape
<1>3. CASE ScanBlock
  BY <1>3, ScanKeepsShape
<1>4. CASE Restart
  BY <1>4, RestartKeepsShape
<1>5. CASE \E f \in Floors : MoveFloor(f)
  <2>1. floor' \in Nat /\ pool' \subseteq pool /\ UNCHANGED <<blobs, disk, pending, unseen, age>>
    BY <1>5, TowerConstants DEF MoveFloor, tower
  <2> QED
    BY <2>1 DEF WatchTypes, Shape, Sealable
<1>6. CASE \E new \in SUBSET Breach : MineBlock(new)
  BY <1>6, MineKeepsShape
<1>7. CASE UNCHANGED towerVars
  BY <1>7 DEF towerVars, tower, chain, client, WatchTypes, Shape, Sealable
<1> QED
  BY <1>1, <1>2, <1>3, <1>4, <1>5, <1>6, <1>7 DEF TowerNext

----------------------------------------------------------------------------
LEMMA FeesBounded == \E max \in Nat : \A b \in Blob : b.fee \in Nat /\ b.fee <= max
<1> DEFINE n == Len(FeeLadder)
<1>1. /\ n \in Nat /\ DOMAIN FeeLadder = 1..n /\ \A i \in 1..n : FeeLadder[i] \in Nat
      /\ \A i, j \in 1..n : i < j => FeeLadder[i] < FeeLadder[j]
  BY TowerConstants
<1>2. \A b \in Blob : b.fee \in Nat /\ \E i \in 1..n : b.fee = FeeLadder[i]
  BY <1>1, BlobFields DEF Range
<1> HIDE DEF n
<1>3. CASE n = 0
  <2>1. \A b \in Blob : b.fee <= 0
    BY <1>2, <1>3
  <2> QED
    BY <1>2, <2>1
<1>4. CASE n > 0
  <2>1. n \in 1..n /\ FeeLadder[n] \in Nat
    BY <1>1, <1>4
  <2>2. \A i \in 1..n : FeeLadder[i] <= FeeLadder[n]
    <3> SUFFICES ASSUME NEW i \in 1..n PROVE FeeLadder[i] <= FeeLadder[n]
      OBVIOUS
    <3>1. CASE i = n
      BY <2>1, <3>1
    <3>2. CASE i < n
      BY <1>1, <2>1, <3>2
    <3> QED
      BY <1>1, <3>1, <3>2
  <2> QED
    BY <1>2, <2>1, <2>2
<1> QED
  BY <1>1, <1>3, <1>4

\* The dearest rung that opens, if any does.
LEMMA TopFeeIs ==
    ASSUME NEW c \in Breach, blobs[c] \in Seq(Blob)
    PROVE  /\ TopFee(c) \in Int
           /\ \A i \in OpenRungs(c) : blobs[c][i].fee \in Nat /\ blobs[c][i].fee <= TopFee(c)
           /\ TopFee(c) >= 0 => \E i \in OpenRungs(c) : blobs[c][i].fee = TopFee(c)
<1> DEFINE fees == {blobs[c][i].fee : i \in OpenRungs(c)}
           all == {-1} \cup fees
<1>1. \A i \in OpenRungs(c) : blobs[c][i] \in Blob
  BY DEF OpenRungs
<1>2. PICK max \in Nat : \A b \in Blob : b.fee \in Nat /\ b.fee <= max
  BY FeesBounded
<1>3. fees \in SUBSET Nat /\ \A n \in fees : n <= max
  BY <1>1, <1>2
<1>4. fees = {b.fee : b \in {x \in Range(blobs[c]) : Opens(c, x)}}
  BY DEF OpenRungs, Range
<1>5. TopFee(c) = CHOOSE x \in all : \A y \in all : x >= y
  <2>1. TopFee(c) = Max(all)
    BY <1>4 DEF TopFee
  <2> HIDE DEF all
  <2> QED
    BY <2>1 DEF Max
<1> HIDE DEF fees
<1>6. \E x \in all : \A y \in all : x >= y
  <2>1. CASE fees = {}
    BY <2>1
  <2>2. CASE fees # {}
    <3>1. PICK n \in fees : \A m \in fees : m <= n
      BY <1>3, <2>2, NatGreatest
    <3>2. n \in Nat
      BY <1>3
    <3> QED
      BY <1>3, <3>1, <3>2
  <2> QED
    BY <2>1, <2>2
<1>7. TopFee(c) \in all /\ \A y \in all : TopFee(c) >= y
  <2> HIDE DEF all
  <2> QED
    BY <1>5, <1>6
<1>8. TopFee(c) \in Int /\ (TopFee(c) >= 0 => TopFee(c) \in fees)
  <2>1. CASE TopFee(c) \in fees
    <3>1. TopFee(c) \in Nat
      BY <1>3, <2>1
    <3> QED
      BY <2>1, <3>1
  <2>2. CASE TopFee(c) = -1
    BY <2>2
  <2> QED
    BY <1>7, <2>1, <2>2
<1>9. \A n \in fees : n \in Nat /\ n <= TopFee(c)
  BY <1>3, <1>7, <1>8
<1> QED
  BY <1>8, <1>9 DEF fees

\* The rungs tried before the one that is out are among those the delay leaves time for.
LEMMA RungsInTime ==
    ASSUME DeadlineSuffices, TowerInv, WatchTypes, Shape, NEW c \in Breach, floor <= TopFee(c),
           NEW r \in OpenRungs(c), \A i \in Below(c, r) : blobs[c][i].fee < TopFee(c)
    PROVE  /\ IsFiniteSet(Below(c, r))
           /\ Cardinality(Below(c, r)) \in Nat
           /\ Cardinality(Below(c, r)) <= Cardinality(LowRungs(c))
           /\ blobs[c][r].fee < TopFee(c) => Cardinality(Below(c, r)) + 1 <= Cardinality(LowRungs(c))
<1> DEFINE B == Below(c, r)
           L == LowRungs(c)
<1>1. /\ blobs[c] \in Seq(Blob) /\ IsInjective(blobs[c]) /\ Range(blobs[c]) \subseteq Sealable(c)
      /\ floor \in Nat /\ OpenRungs(c) \subseteq DOMAIN blobs[c]
  BY DEF TowerInv, WatchTypes, Shape, OpenRungs
<1>2. PICK d \in OpenRungs(c) : blobs[c][d].fee = TopFee(c)
  BY <1>1, TopFeeIs
<1>3. \A i \in OpenRungs(c) : blobs[c][i] \in Sealable(c) /\ Opens(c, blobs[c][i])
  BY <1>1 DEF OpenRungs, Range
<1>4. \A i \in OpenRungs(c) : blobs[c][i].fee < TopFee(c) => blobs[c][i] \in L
  BY <1>2, <1>3 DEF LowRungs
<1>5. IsFiniteSet(L) /\ Cardinality(L) \in Nat
  BY FS_CardinalityType DEF DeadlineSuffices
<1> HIDE DEF L
<1>6. ASSUME NEW T \in SUBSET OpenRungs(c), \A i \in T : blobs[c][i].fee < TopFee(c)
      PROVE  IsFiniteSet(T) /\ Cardinality(T) <= Cardinality(L)
  <2> DEFINE f == [i \in T |-> blobs[c][i]]
  <2>1. f \in Injection(T, L)
    BY <1>1, <1>4, <1>6 DEF Injection, IsInjective
  <2> HIDE DEF f
  <2> QED
    BY <1>5, <2>1, FS_Injection
<1>7. B \in SUBSET OpenRungs(c) /\ r \notin B
  BY <1>1 DEF Below, OpenRungs
<1>8. IsFiniteSet(B) /\ Cardinality(B) <= Cardinality(L) /\ Cardinality(B) \in Nat
  BY <1>6, <1>7, FS_CardinalityType
<1>9. ASSUME blobs[c][r].fee < TopFee(c)
      PROVE  Cardinality(B) + 1 <= Cardinality(L)
  <2> DEFINE T == B \cup {r}
  <2>1. T \in SUBSET OpenRungs(c) /\ \A i \in T : blobs[c][i].fee < TopFee(c)
    BY <1>7, <1>9
  <2>2. Cardinality(T) = Cardinality(B) + 1
    BY <1>7, <1>8, FS_AddElement
  <2> HIDE DEF T, B
  <2> QED
    BY <1>6, <2>1, <2>2
<1> QED
  BY <1>8, <1>9 DEF L

\* A penalty out has a block to spare before the deadline.
LEMMA OutInTime ==
    ASSUME DeadlineSuffices, Watch, NEW c \in Breach, Out(c)
    PROVE  age[c] < Deadline
<1> DEFINE K == Cardinality(LowRungs(c))
<1>1. PICK r \in OpenRungs(c), w \in 0..(RetryAfter - 1) : OutAt(c, r, w)
  BY DEF Out
<1> DEFINE n == Cardinality(Below(c, r))
<1>2. n \in Nat /\ n <= K /\ (blobs[c][r].fee < TopFee(c) => n + 1 <= K)
  <2>1. TowerInv /\ WatchTypes /\ Shape
    BY DEF Watch
  <2>2. \A i \in Below(c, r) : blobs[c][i].fee < TopFee(c)
    BY <1>1 DEF OutAt
  <2>3. floor <= TopFee(c)
    BY DEF Out
  <2> QED
    BY <2>1, <2>2, <2>3, RungsInTime
<1>3. K \in Nat
  BY FS_CardinalityType DEF DeadlineSuffices
<1>4. Deadline >= 2 + RetryAfter * K
  BY DEF DeadlineSuffices
<1>5. /\ Deadline \in Nat /\ RetryAfter \in Nat /\ w \in Nat /\ w + 1 <= RetryAfter
      /\ age[c] \in Nat
  BY TowerConstants DEF Watch, WatchTypes
<1>6. TopFee(c) \in Int /\ blobs[c][r].fee \in Nat /\ blobs[c][r].fee <= TopFee(c)
  BY TopFeeIs DEF Watch, TowerInv
<1> DEFINE l == Len(unseen)
<1>7. l \in Nat /\ l <= 1 /\ age[c] <= 1 + RetryAfter * n + w + l
  BY <1>1 DEF Out, OutAt, Watch, WatchTypes
<1>8. blobs[c][r].fee = TopFee(c) => w = 0 /\ l = 0
  BY <1>1 DEF OutAt
<1> DEFINE m == RetryAfter * n
           k == RetryAfter * K
<1> HIDE DEF K, n, l
<1>9. m \in Nat /\ k \in Nat /\ m <= k
  <2>1. n * RetryAfter \in Nat /\ K * RetryAfter \in Nat /\ n * RetryAfter <= K * RetryAfter
    BY <1>2, <1>3, <1>5, TimesKeepsOrder
  <2> QED
    BY <1>2, <1>3, <1>5, <2>1
<1>10. blobs[c][r].fee < TopFee(c) => m + RetryAfter <= k
  <2> SUFFICES ASSUME blobs[c][r].fee < TopFee(c) PROVE m + RetryAfter <= k
    OBVIOUS
  <2>1. (n + 1) * RetryAfter <= K * RetryAfter
    BY <1>2, <1>3, <1>5, TimesKeepsOrder
  <2>2. (n + 1) * RetryAfter = n * RetryAfter + RetryAfter
    BY <1>2, <1>5
  <2> QED
    BY <1>2, <1>3, <1>5, <2>1, <2>2
<1>11. age[c] <= 1 + m + w + l /\ Deadline >= 2 + k
  BY <1>4, <1>7
<1> HIDE DEF m, k
<1>12. CASE blobs[c][r].fee = TopFee(c)
  BY <1>5, <1>7, <1>8, <1>9, <1>11, <1>12
<1>13. CASE blobs[c][r].fee < TopFee(c)
  BY <1>5, <1>7, <1>9, <1>10, <1>11, <1>13
<1> QED
  BY <1>6, <1>12, <1>13

----------------------------------------------------------------------------
\* What is said of a ladder stays so while the ladder stays.
LEMMA SameLadder ==
    ASSUME NEW c, blobs'[c] = blobs[c]
    PROVE  /\ TopFee(c)' = TopFee(c) /\ OpenRungs(c)' = OpenRungs(c)
           /\ \A r : Below(c, r)' = Below(c, r)
BY DEF TopFee, OpenRungs, Below

LEMMA SameOut ==
    ASSUME NEW c, Out(c), blobs'[c] = blobs[c], pending'[c] = pending[c], age'[c] = age[c],
           sweptBy'[c] = sweptBy[c], unseen' = unseen, floor <= TopFee(c) => floor' <= TopFee(c),
           \A p \in pool' : p \in pool,
           \A p \in pool : p[1] = c /\ p[2].fee = TopFee(c) => p \in pool'
    PROVE  Out(c)'
<1>1. PICK r \in OpenRungs(c), w \in 0..(RetryAfter - 1) : OutAt(c, r, w)
  BY DEF Out
<1>2. OutAt(c, r, w)'
  <2>1. blobs[c][r].fee = TopFee(c) => <<c, blobs[c][r]>> \in pool'
    <3> SUFFICES ASSUME blobs[c][r].fee = TopFee(c) PROVE <<c, blobs[c][r]>> \in pool'
      OBVIOUS
    <3>1. <<c, blobs[c][r]>> \in pool
      BY <1>1 DEF OutAt
    <3>2. <<c, blobs[c][r]>>[1] = c /\ <<c, blobs[c][r]>>[2].fee = TopFee(c)
      OBVIOUS
    <3> QED
      BY <3>1, <3>2
  <2> QED
    BY <1>1, <2>1, SameLadder DEF OutAt
<1> QED
  BY <1>1, <1>2, SameLadder DEF Out

\* No block, penalty or sweep touches a breach.
LEMMA SameWatched ==
    ASSUME NEW c, Watched(c), blobs'[c] = blobs[c], pending'[c] = pending[c],
           UNCHANGED <<age, sweptBy, unseen, floor, pool>>
    PROVE  Watched(c)'
<1>1. CASE Out(c)
  <2>1. /\ age'[c] = age[c] /\ sweptBy'[c] = sweptBy[c] /\ unseen' = unseen /\ floor' = floor /\ pool' = pool
    OBVIOUS
  <2> QED
    BY <1>1, <2>1, SameLadder, SameOut DEF Watched
<1>2. CASE Untouched(c) \/ Waiting(c) \/ Floating(c) \/ Swept(c)
  BY <1>2 DEF Watched, Untouched, Waiting, Floating, Adrift, Afloat, Swept
<1> QED
  BY <1>1, <1>2 DEF Watched

\* Registering and forgetting come before the breach.
LEMMA EarlyWatched ==
    ASSUME NEW c, Watched(c), age[c] = 0 \/ Swept(c), pending'[c] \in {pending[c], NoPenalty},
           UNCHANGED <<age, sweptBy, unseen, floor, pool>>
    PROVE  Watched(c)'
<1>1. Untouched(c) \/ Swept(c)
  BY DEF Watched, Waiting, Out, Floating, Adrift
<1> QED
  BY <1>1 DEF Watched, Untouched, Swept

LEMMA RegisterWatched ==
    ASSUME Watch, NEW d \in Breach, NEW to \in Address, Register(d, to), NEW c \in Breach, c \notin excused'
    PROVE  Watched(c)'
<1>1. /\ blobs' = [blobs EXCEPT ![d] = Registered(@, Sealed(d, to))] /\ age[d] = 0
      /\ UNCHANGED <<pending, age, sweptBy, unseen, floor, pool, excused>>
  BY DEF Register, chain
<1>2. Watched(c) /\ blobs \in [Breach -> Seq(Blob)]
  BY <1>1 DEF Watch, TowerInv
<1>3. CASE c = d
  BY <1>1, <1>2, <1>3, EarlyWatched
<1>4. CASE c # d
  BY <1>1, <1>2, <1>4, SameWatched
<1> QED
  BY <1>3, <1>4

LEMMA ForgetWatched ==
    ASSUME Watch, NEW d \in Breach, Forget(d), NEW c \in Breach, c \notin excused'
    PROVE  Watched(c)'
<1>1. /\ blobs' = [blobs EXCEPT ![d] = <<>>] /\ pending' = [pending EXCEPT ![d] = NoPenalty]
      /\ age[d] = 0 /\ UNCHANGED <<age, sweptBy, unseen, floor, pool, excused>>
  BY DEF Forget, chain
<1>2. /\ Watched(c) /\ blobs \in [Breach -> Seq(Blob)]
      /\ pending \in [Breach -> {NoPenalty} \cup Penalties]
  BY <1>1 DEF Watch, TowerInv, WatchTypes
<1>3. CASE c = d
  BY <1>1, <1>2, <1>3, EarlyWatched
<1>4. CASE c # d
  BY <1>1, <1>2, <1>4, SameWatched
<1> QED
  BY <1>3, <1>4

\* A restart brings the ladder back and leaves a penalty that is out afloat.
LEMMA RestartWatched ==
    ASSUME DeadlineSuffices, Watch, Restart, NEW c \in Breach, c \notin excused'
    PROVE  Watched(c)'
<1>1. /\ blobs' = [d \in Breach |-> ByFee(disk[d])] /\ pending' = [d \in Breach |-> NoPenalty]
      /\ excused' = excused \cup {d \in Breach : pending[d] # NoPenalty /\ ~Afloat(d, floor)}
      /\ UNCHANGED <<age, sweptBy, unseen, floor, pool>>
  BY DEF Restart, chain
<1>2. (pending[c] = NoPenalty \/ Afloat(c, floor)) /\ pending'[c] = NoPenalty /\ Watched(c)
  BY <1>1 DEF Watch
<1>3. Out(c) => pending[c] # NoPenalty
  <2>1. \A r \in OpenRungs(c) : r # 0
    BY DEF OpenRungs
  <2>2. \A r \in OpenRungs(c) : \A w : [rung |-> r, blob |-> blobs[c][r], waited |-> w] # NoPenalty
    BY <2>1 DEF NoPenalty
  <2> QED
    BY <2>2 DEF Out, OutAt
<1>4. blobs[c] # <<>> => blobs'[c] # <<>>
  <2>1. /\ blobs[c] \in Seq(Blob) /\ Rungs(Range(blobs[c])) = Rungs(disk[c])
        /\ Range(ByFee(disk[c])) = disk[c]
    BY SortedRows DEF Watch, TowerInv
  <2>2. Range(<<>>) = {}
    BY DEF Range
  <2> SUFFICES ASSUME blobs[c] # <<>>, blobs'[c] = <<>> PROVE FALSE
    OBVIOUS
  <2>3. blobs[c][1] \in Range(blobs[c])
    <3>1. 1 \in DOMAIN blobs[c]
      BY <2>1
    <3> QED
      BY <3>1 DEF Range
  <2>4. disk[c] = {}
    BY <1>1, <2>1, <2>2
  <2> QED
    BY <2>1, <2>3, <2>4 DEF Rungs
<1>5. CASE Out(c)
  <2>1. Floating(c)'
    BY <1>1, <1>2, <1>3, <1>5, OutInTime DEF Out, Floating, Adrift, Afloat
  <2> QED
    BY <2>1 DEF Watched
<1>6. CASE Untouched(c) \/ Waiting(c) \/ Floating(c) \/ Swept(c)
  BY <1>1, <1>2, <1>4, <1>6 DEF Watched, Untouched, Waiting, Floating, Adrift, Afloat, Swept
<1> QED
  BY <1>2, <1>5, <1>6 DEF Watched

LEMMA MoveWatched ==
    ASSUME Watch, NEW f \in Floors, MoveFloor(f), NEW c \in Breach, c \notin excused'
    PROVE  Watched(c)'
<1>1. /\ floor' = f /\ f \in Nat /\ (pool' = pool \/ pool' = {p \in pool : p[2].fee >= f})
      /\ UNCHANGED <<blobs, pending, unseen, age, sweptBy>>
  BY TowerConstants DEF MoveFloor, tower
<1>2. /\ Watched(c) /\ (age[c] > 0 => ~(TopFee(c) < f)) /\ (Adrift(c) => Afloat(c, f))
      /\ pool' \subseteq pool
  <2>1. /\ c \notin excused
        /\ c \notin {d \in Breach : \/ age[d] > 0 /\ TopFee(d) < f
                                    \/ Adrift(d) /\ ~Afloat(d, f)}
    BY DEF MoveFloor
  <2>2. (age[c] > 0 => ~(TopFee(c) < f)) /\ (Adrift(c) => Afloat(c, f))
    BY <2>1
  <2>3. Watched(c)
    BY <2>1 DEF Watch
  <2>4. pool' \subseteq pool
    BY <1>1
  <2> QED
    BY <2>2, <2>3, <2>4
<1>3. CASE Out(c)
  <2>1. TopFee(c) \in Int
    BY TopFeeIs DEF Watch, TowerInv
  <2>2. f <= TopFee(c)
    BY <1>1, <1>2, <1>3, <2>1 DEF Out
  <2>3. ASSUME NEW p \in pool, p[1] = c, p[2].fee = TopFee(c) PROVE p \in pool'
    BY <1>1, <2>1, <2>2, <2>3
  <2>4. /\ blobs'[c] = blobs[c] /\ pending'[c] = pending[c] /\ age'[c] = age[c]
        /\ sweptBy'[c] = sweptBy[c] /\ unseen' = unseen /\ \A p \in pool' : p \in pool
    BY <1>1, <1>2
  <2>5. Out(c)'
    BY <1>1, <1>3, <2>2, <2>3, <2>4, SameLadder, SameOut
  <2> QED
    BY <2>5 DEF Watched
<1>4. CASE Untouched(c) \/ Waiting(c) \/ Swept(c)
  BY <1>1, <1>2, <1>4 DEF Watched, Untouched, Waiting, Swept
<1>5. CASE Floating(c)
  <2>1. Adrift(c)' /\ Afloat(c, f)'
    BY <1>1, <1>2, <1>5 DEF Floating, Adrift, Afloat
  <2> QED
    BY <1>1, <1>5, <2>1 DEF Watched, Floating, Afloat
<1> QED
  BY <1>2, <1>3, <1>4, <1>5 DEF Watched

----------------------------------------------------------------------------
\* The blocks handed over, with one more.
LEMMA OneMoreBlock ==
    ASSUME NEW s \in Seq(SUBSET Breach), NEW new \in SUBSET Breach
    PROVE  /\ Append(s, new) # <<>> /\ Len(Append(s, new)) = Len(s) + 1
           /\ DOMAIN Append(s, new) = 1..(Len(s) + 1) /\ Len(s) \in Nat
           /\ \A i \in 1..Len(s) : i \in DOMAIN s /\ Append(s, new)[i] = s[i]
           /\ Append(s, new)[Len(s) + 1] = new
OBVIOUS

\* A block before the breach, or with it.
LEMMA MineUntouched ==
    ASSUME Watch, NEW new \in SUBSET Breach, MineBlock(new), NEW c \in Breach, c \notin excused',
           Untouched(c)
    PROVE  Watched(c)'
<1>1. /\ age'[c] = IF c \in new THEN 1 ELSE IF age[c] \in 1..(Deadline - 1) THEN age[c] + 1 ELSE age[c]
      /\ pool' \subseteq pool /\ unseen' = Append(unseen, new)
      /\ ~(c \in new /\ receipts[c] = {}) /\ UNCHANGED <<blobs, pending>>
  BY DEF MineBlock
<1>2. age[c] = 0 /\ sweptBy[c] = Nobody /\ pending[c] = NoPenalty
  BY DEF Untouched
<1>3. SUFFICES ASSUME sweptBy'[c] = Nobody PROVE Watched(c)'
  BY DEF Watched, Swept
<1>4. unseen \in Seq(SUBSET Breach)
  BY DEF Watch, WatchTypes
<1>5. CASE c \in new
  <2>1. blobs[c] # <<>>
    <3>1. Rungs(receipts[c]) \subseteq Rungs(disk[c]) /\ Rungs(Range(blobs[c])) = Rungs(disk[c])
      BY <1>2 DEF Watch, TowerInv, Nobody
    <3>2. PICK b \in receipts[c] : TRUE
      BY <1>1, <1>5
    <3>3. b.fee \in Rungs(Range(blobs[c]))
      BY <3>1, <3>2 DEF Rungs
    <3>4. Range(<<>>) = {}
      BY DEF Range
    <3> QED
      BY <3>3, <3>4 DEF Rungs
  <2>2. \A i \in DOMAIN unseen' : c \in unseen'[i] <=> i = Len(unseen')
    <3>1. \A i \in 1..Len(unseen) : c \notin unseen'[i] /\ i # Len(unseen) + 1
      BY <1>1, <1>4, OneMoreBlock DEF Untouched
    <3> QED
      BY <1>1, <1>4, <1>5, <3>1, OneMoreBlock
  <2>3. unseen' # <<>> /\ age'[c] = 1
    BY <1>1, <1>4, <1>5, OneMoreBlock
  <2>4. Waiting(c)'
    BY <1>1, <1>2, <1>3, <2>1, <2>2, <2>3 DEF Waiting, Untouched
  <2> QED
    BY <2>4 DEF Watched
<1>6. CASE c \notin new
  <2>1. \A i \in DOMAIN unseen' : c \notin unseen'[i]
    BY <1>1, <1>4, <1>6, OneMoreBlock DEF Untouched
  <2>2. age'[c] = 0
    BY <1>1, <1>2, <1>6
  <2>3. Untouched(c)'
    BY <1>1, <1>2, <1>3, <2>1, <2>2 DEF Untouched
  <2> QED
    BY <2>3 DEF Watched
<1> QED
  BY <1>5, <1>6

\* What pays is mined, or the cheater's sweep is.
LEMMA PayingSwept ==
    ASSUME NEW new, NEW c \in Breach, sweptBy[c] = Nobody, age[c] > 0,
           Afloat(c, floor), NEW how \in Spends(c, new)
    PROVE  how # Nobody
<1> DEFINE paying == {Tower(p[2]) : p \in {q \in pool : q[1] = c /\ q[2].fee >= floor}}
<1>1. paying # {}
  BY DEF Afloat
<1>2. \A b : Tower(b).by = "tower" /\ Cheater.by = "cheater" /\ Nobody.by = "nobody"
  BY DEF Tower, Cheater, Nobody
<1>3. \A x \in paying : x.by = "tower"
  BY <1>2
<1>4. how \in paying \cup {Cheater}
  BY <1>1 DEF Spends
<1> QED
  BY <1>2, <1>3, <1>4

\* The miners take the dearest rung, and until it is out the deadline is not there.
LEMMA MineOut ==
    ASSUME DeadlineSuffices, Watch, NEW new \in SUBSET Breach, MineBlock(new), NEW c \in Breach,
           c \notin excused', Out(c)
    PROVE  Watched(c)'
<1>1. /\ age'[c] = IF c \in new THEN 1 ELSE IF age[c] \in 1..(Deadline - 1) THEN age[c] + 1 ELSE age[c]
      /\ sweptBy'[c] \in Spends(c, new) /\ pool' = {p \in pool : sweptBy'[p[1]] = Nobody}
      /\ unseen' = Append(unseen, new) /\ (c \in new => age[c] = 0)
      /\ ~(unseen # <<>> /\ age[c] > 0) /\ UNCHANGED <<blobs, pending, floor>>
  BY DEF MineBlock
<1>2. /\ unseen = <<>> /\ age[c] > 0 /\ sweptBy[c] = Nobody /\ floor <= TopFee(c)
      /\ age[c] \in Nat /\ floor \in Nat /\ c \notin new
  BY <1>1 DEF Out, Watch, WatchTypes
<1>3. PICK r \in OpenRungs(c), w \in 0..(RetryAfter - 1) : OutAt(c, r, w)
  BY DEF Out
<1>4. SUFFICES ASSUME sweptBy'[c] = Nobody PROVE Watched(c)'
  BY DEF Watched, Swept
<1>5. TopFee(c) \in Int /\ blobs[c][r].fee \in Nat /\ blobs[c][r].fee <= TopFee(c)
  BY TopFeeIs DEF Watch, TowerInv
<1>6. blobs[c][r].fee # TopFee(c)
  <2> SUFFICES ASSUME blobs[c][r].fee = TopFee(c) PROVE FALSE
    OBVIOUS
  <2>1. Afloat(c, floor)
    <3> DEFINE p == <<c, blobs[c][r]>>
    <3>1. p \in pool /\ p[1] = c /\ p[2].fee >= floor
      BY <1>2, <1>3, <1>5 DEF OutAt
    <3> HIDE DEF p
    <3> QED
      BY <3>1 DEF Afloat
  <2> QED
    BY <1>1, <1>2, <1>4, <2>1, PayingSwept
<1>7. age'[c] = age[c] + 1
  <2>1. age[c] < Deadline /\ Deadline \in Nat
    BY OutInTime, TowerConstants
  <2> QED
    BY <1>1, <1>2, <2>1
<1>8. unseen' = <<new>> /\ Len(unseen') = 1 /\ \A i \in DOMAIN unseen' : c \notin unseen'[i]
  BY <1>1, <1>2
<1>9. OutAt(c, r, w)'
  <2> DEFINE m == RetryAfter * Cardinality(Below(c, r))
  <2>1. m \in Nat
    <3>1. Cardinality(Below(c, r)) \in Nat
      <4>1. \A i \in Below(c, r) : blobs[c][i].fee < TopFee(c)
        BY <1>3 DEF OutAt
      <4> QED
        BY <1>2, <4>1, RungsInTime DEF Watch
    <3> QED
      BY <3>1, TowerConstants
  <2>2. age[c] <= 1 + m + w + 0 /\ w \in Nat
    BY <1>2, <1>3, TowerConstants DEF OutAt
  <2> HIDE DEF m
  <2>3. age'[c] <= 1 + m + w + Len(unseen')
    BY <1>2, <1>7, <1>8, <2>1, <2>2
  <2> QED
    BY <1>1, <1>3, <1>6, <2>3, SameLadder DEF OutAt, m
<1>10. age'[c] > 0 /\ floor' <= TopFee(c)' /\ r \in OpenRungs(c)'
  BY <1>1, <1>2, <1>3, <1>7, SameLadder
<1>11. Out(c)'
  BY <1>4, <1>8, <1>9, <1>10 DEF Out
<1> QED
  BY <1>11 DEF Watched

LEMMA MineWatched ==
    ASSUME DeadlineSuffices, Watch, NEW new \in SUBSET Breach, MineBlock(new), NEW c \in Breach, c \notin excused'
    PROVE  Watched(c)'
<1>1. /\ sweptBy'[c] \in Spends(c, new) /\ c \notin excused
      /\ ~(unseen # <<>> /\ age[c] > 0)
  BY DEF MineBlock
<1>2. Watched(c)
  BY <1>1 DEF Watch
<1>3. CASE Swept(c)
  <2>1. sweptBy'[c] = sweptBy[c]
    BY <1>1, <1>3 DEF Spends, Swept
  <2> QED
    BY <1>3, <2>1 DEF Watched, Swept
<1>4. CASE Floating(c)
  <2>1. sweptBy'[c] # Nobody
    BY <1>1, <1>4, PayingSwept DEF Floating, Adrift
  <2> QED
    BY <2>1 DEF Watched, Swept
<1>5. ~Waiting(c)
  BY <1>1 DEF Waiting
<1> QED
  BY <1>2, <1>3, <1>4, <1>5, MineUntouched, MineOut DEF Watched

----------------------------------------------------------------------------
\* Some rung pays more than what is out, and the first that does is sent.
LEMMA Climbs ==
    ASSUME Watch, NEW c \in Breach, NEW from \in Nat \ {0}, NEW otherwise,
           sweptBy[c] = Nobody, floor <= TopFee(c),
           \A i \in OpenRungs(c) : i < from => blobs[c][i].fee < TopFee(c),
           \A p \in pool : p[1] = c => p[2].fee < TopFee(c)
    PROVE  \E r \in OpenRungs(c) :
              /\ r >= from /\ Act(c, from, otherwise) = Sending(c, r)
              /\ \A i \in Below(c, r) : blobs[c][i].fee < TopFee(c)
              /\ \A p \in pool : p[1] = c => p[2].fee < blobs[c][r].fee
<1>1. /\ blobs[c] \in Seq(Blob) /\ floor \in Nat /\ pool \in SUBSET (Breach \X Blob)
      /\ \A p \in pool : p[2].fee \in Nat
  BY BlobFields DEF Watch, TowerInv, WatchTypes
<1>2. /\ TopFee(c) \in Int /\ TopFee(c) >= 0
      /\ \A i \in OpenRungs(c) : blobs[c][i].fee \in Nat /\ blobs[c][i].fee <= TopFee(c)
  BY <1>1, TopFeeIs
<1>3. PICK d \in OpenRungs(c) : blobs[c][d].fee = TopFee(c)
  BY <1>1, <1>2, TopFeeIs
<1>4. d \in Usable(c, from)
  <2>1. Opens(c, blobs[c][d]) /\ d \in 1..Len(blobs[c])
    BY DEF OpenRungs
  <2>2. d >= from
    BY <1>2, <1>3, <2>1
  <2>3. Relays(c, blobs[c][d])
    BY <1>3 DEF Relays
  <2>4. d \in from..Len(blobs[c])
    BY <2>1, <2>2
  <2> QED
    BY <2>1, <2>3, <2>4 DEF Usable
<1>5. PICK r \in Usable(c, from) : /\ Act(c, from, otherwise) = Sending(c, r)
                                   /\ \A i \in Usable(c, from) : r <= i
  BY <1>1, <1>4, ActChooses
<1>6. /\ r \in OpenRungs(c) /\ r >= from /\ Relays(c, blobs[c][r]) /\ r \in 1..Len(blobs[c])
  <2>1. r \in 1..Len(blobs[c])
    BY <1>1, ActChooses
  <2> QED
    BY <2>1 DEF Usable, OpenRungs
<1>7. ASSUME NEW i \in Below(c, r) PROVE blobs[c][i].fee < TopFee(c)
  <2>1. i \in OpenRungs(c) /\ i < r /\ i \in 1..Len(blobs[c]) /\ Opens(c, blobs[c][i])
    BY DEF Below, OpenRungs
  <2>2. CASE i < from
    BY <2>1, <2>2
  <2>3. CASE i >= from
    <3>1. ~Relays(c, blobs[c][i])
      <4>1. i \in from..Len(blobs[c])
        BY <2>1, <2>3
      <4>2. i \notin Usable(c, from)
        BY <1>5, <1>6, <2>1
      <4> QED
        BY <2>1, <4>1, <4>2 DEF Usable
    <3>2. blobs[c][i].fee \in Nat
      BY <1>2, <2>1
    <3>3. \/ ~(blobs[c][i].fee >= floor)
          \/ \E p \in pool : p[1] = c /\ ~(p[2].fee < blobs[c][i].fee)
      BY <3>1 DEF Relays
    <3>4. CASE ~(blobs[c][i].fee >= floor)
      BY <1>1, <1>2, <3>2, <3>4
    <3>5. CASE \E p \in pool : p[1] = c /\ ~(p[2].fee < blobs[c][i].fee)
      <4>1. PICK p \in pool : p[1] = c /\ ~(p[2].fee < blobs[c][i].fee)
        BY <3>5
      <4>2. p[2].fee < TopFee(c) /\ p[2].fee \in Nat
        BY <1>1, <4>1
      <4> QED
        BY <1>2, <3>2, <4>1, <4>2
    <3> QED
      BY <3>3, <3>4, <3>5
  <2> QED
    BY <2>1, <2>2, <2>3
<1>8. \A p \in pool : p[1] = c => p[2].fee < blobs[c][r].fee
  BY <1>6 DEF Relays
<1> QED
  BY <1>5, <1>6, <1>7, <1>8

\* What a scan does to one breach.
LEMMA ScanStep ==
    ASSUME Watch, ScanBlock, NEW c \in Breach, c \notin excused'
    PROVE  /\ blobs'[c] = Scanned(c).list /\ pending'[c] = Scanned(c).pen
           /\ Scanned(c).sent \subseteq pool' /\ pool \subseteq pool'
           /\ \A p \in pool' : p[1] = c => p \in pool \/ p \in Scanned(c).sent
           /\ unseen # <<>> /\ unseen' = Tail(unseen)
           /\ UNCHANGED <<floor, age, sweptBy>> /\ c \notin excused
           /\ age[c] > 0 => floor <= TopFee(c)
           /\ unseen \in Seq(SUBSET Breach) /\ blobs[c] \in Seq(Blob)
<1>1. /\ blobs' = [d \in Breach |-> Scanned(d).list]
      /\ pending' = [d \in Breach |-> Scanned(d).pen]
      /\ pool' = pool \cup UNION {Scanned(d).sent : d \in Breach}
      /\ unseen # <<>> /\ unseen' = Tail(unseen) /\ UNCHANGED <<floor, age, sweptBy>>
      /\ excused' = excused \cup {d \in Breach : age[d] > 0 /\ TopFee(d) < floor}
  BY DEF ScanBlock
<1>2. /\ \A d \in Breach : blobs[d] \in Seq(Blob) /\ pending[d] \in {NoPenalty} \cup Penalties
      /\ unseen \in Seq(SUBSET Breach) /\ floor \in Nat
  BY DEF Watch, TowerInv, WatchTypes
<1>3. \A d \in Breach : Scanned(d).sent \subseteq {d} \X Blob
  BY <1>2, ScannedTypes
<1>4. TopFee(c) \in Int
  BY <1>2, TopFeeIs
<1>5. ASSUME NEW p \in pool', p[1] = c PROVE p \in pool \/ p \in Scanned(c).sent
  <2>1. CASE p \in UNION {Scanned(d).sent : d \in Breach}
    <3>1. PICK d \in Breach : p \in Scanned(d).sent
      BY <2>1
    <3>2. p[1] = d
      BY <1>3, <3>1
    <3> QED
      BY <1>5, <3>1, <3>2
  <2> QED
    BY <1>1, <2>1
<1>6. age[c] > 0 => floor <= TopFee(c)
  BY <1>1, <1>2, <1>4
<1> QED
  BY <1>1, <1>2, <1>5, <1>6

\* A penalty just sent, no sooner than its rung allows.
LEMMA JustSent ==
    ASSUME Watch, ScanBlock, NEW c \in Breach, c \notin excused', age[c] > 0, sweptBy[c] = Nobody,
           Len(unseen) = 1, NEW r \in OpenRungs(c), Scanned(c) = Sending(c, r),
           \A i \in Below(c, r) : blobs[c][i].fee < TopFee(c),
           \A p \in pool : p[1] = c => p[2].fee < blobs[c][r].fee,
           age[c] <= 1 + RetryAfter * Cardinality(Below(c, r))
    PROVE  Out(c)'
<1>1. /\ Scanned(c).list = blobs[c] /\ Scanned(c).sent = {<<c, blobs[c][r]>>}
      /\ Scanned(c).pen = [rung |-> r, blob |-> blobs[c][r], waited |-> 0]
  BY DEF Sending, Outcome
<1>2. /\ blobs'[c] = blobs[c] /\ pending'[c] = [rung |-> r, blob |-> blobs[c][r], waited |-> 0]
      /\ <<c, blobs[c][r]>> \in pool'
      /\ \A p \in pool' : p[1] = c => p \in pool \/ p = <<c, blobs[c][r]>>
      /\ UNCHANGED <<floor, age, sweptBy>> /\ floor <= TopFee(c)
      /\ unseen' = Tail(unseen) /\ unseen \in Seq(SUBSET Breach) /\ blobs[c] \in Seq(Blob)
  BY <1>1, ScanStep
<1>3. unseen' = <<>> /\ Len(unseen') = 0
  BY <1>2
<1>4. \A p \in pool' : p[1] = c => p[2].fee <= blobs[c][r].fee
  <2>1. blobs[c][r].fee \in Nat /\ \A p \in pool : p[2].fee \in Nat
    BY <1>2, BlobFields, TopFeeIs DEF Watch, WatchTypes
  <2>2. <<c, blobs[c][r]>>[2].fee <= blobs[c][r].fee
    BY <2>1
  <2> QED
    BY <1>2, <2>1, <2>2
<1>5. 0 \in 0..(RetryAfter - 1)
  BY TowerConstants
<1>6. IsFiniteSet(Below(c, r)) /\ RetryAfter * Cardinality(Below(c, r)) \in Nat
  <2> DEFINE n == Len(blobs[c])
  <2>1. Below(c, r) \subseteq 1..n /\ n \in Nat
    BY <1>2 DEF Below, OpenRungs
  <2> HIDE DEF n
  <2>2. IsFiniteSet(1..n)
    BY <2>1, 1 \in Int, FS_Interval
  <2>3. IsFiniteSet(Below(c, r)) /\ Cardinality(Below(c, r)) \in Nat
    BY <2>1, <2>2, FS_Subset, FS_CardinalityType
  <2> QED
    BY <2>3, TowerConstants
<1>7. age'[c] <= 1 + RetryAfter * Cardinality(Below(c, r)) + 0 + Len(unseen')
  <2> DEFINE m == RetryAfter * Cardinality(Below(c, r))
  <2>1. age'[c] <= 1 + m /\ m \in Nat /\ Len(unseen') = 0
    BY <1>2, <1>3, <1>6
  <2> HIDE DEF m
  <2>2. age'[c] <= 1 + m + 0 + Len(unseen')
    BY <2>1
  <2> QED
    BY <2>2 DEF m
<1>8. OutAt(c, r, 0)'
  BY <1>2, <1>3, <1>4, <1>7, SameLadder DEF OutAt
<1>9. r \in OpenRungs(c)' /\ floor' <= TopFee(c)' /\ age'[c] > 0 /\ sweptBy'[c] = Nobody
      /\ Len(unseen') <= 1 /\ \A i \in DOMAIN unseen' : c \notin unseen'[i]
  <2>1. r \in OpenRungs(c)' /\ TopFee(c)' = TopFee(c)
    BY <1>2, SameLadder
  <2>2. floor' = floor /\ age' = age /\ sweptBy' = sweptBy
    BY <1>2
  <2>3. Len(unseen') <= 1 /\ \A i \in DOMAIN unseen' : c \notin unseen'[i]
    BY <1>3
  <2> QED
    BY <1>2, <2>1, <2>2, <2>3
<1> QED
  BY <1>5, <1>8, <1>9 DEF Out

LEMMA ScanUntouched ==
    ASSUME Watch, ScanBlock, NEW c \in Breach, c \notin excused', Untouched(c)
    PROVE  Watched(c)'
<1>1. /\ unseen # <<>> /\ unseen' = Tail(unseen) /\ unseen \in Seq(SUBSET Breach)
      /\ UNCHANGED <<age, sweptBy>> /\ pending'[c] = Scanned(c).pen
      /\ \A p \in pool' : p[1] = c => p \in pool \/ p \in Scanned(c).sent
  BY ScanStep
<1>2. c \notin Head(unseen) /\ pending[c] = NoPenalty
  BY <1>1 DEF Untouched
<1>3. Scanned(c) = Outcome(blobs[c], disk[c], NoPenalty, {})
  BY <1>2 DEF Scanned
<1>4. Scanned(c).pen = NoPenalty /\ Scanned(c).sent = {}
  BY <1>3 DEF Outcome
<1>5. \A i \in DOMAIN unseen' : c \notin unseen'[i]
  <2>1. \A i \in DOMAIN unseen' : i + 1 \in DOMAIN unseen /\ unseen'[i] = unseen[i + 1]
    BY <1>1
  <2> QED
    BY <2>1 DEF Untouched
<1>6. Untouched(c)'
  BY <1>1, <1>4, <1>5 DEF Untouched
<1> QED
  BY <1>6 DEF Watched

\* The block with the breach is scanned, or one before it.
LEMMA ScanWaiting ==
    ASSUME Watch, ScanBlock, NEW c \in Breach, c \notin excused', Waiting(c)
    PROVE  Watched(c)'
<1>1. /\ unseen # <<>> /\ unseen' = Tail(unseen) /\ unseen \in Seq(SUBSET Breach)
      /\ UNCHANGED <<age, sweptBy>> /\ pending'[c] = Scanned(c).pen /\ blobs'[c] = Scanned(c).list
      /\ \A p \in pool' : p[1] = c => p \in pool \/ p \in Scanned(c).sent
      /\ age[c] > 0 => floor <= TopFee(c)
      /\ blobs[c] \in Seq(Blob)
  BY ScanStep
<1>2. /\ age[c] = 1 /\ sweptBy[c] = Nobody /\ pending[c] = NoPenalty /\ blobs[c] # <<>>
      /\ \A i \in DOMAIN unseen : c \in unseen[i] <=> i = Len(unseen)
      /\ \A p \in pool : p[1] # c
  BY DEF Waiting
<1>3. Head(unseen) = unseen[1] /\ 1 \in DOMAIN unseen /\ Len(unseen) \in Nat /\ Len(unseen) >= 1
  BY <1>1
<1>4. CASE Len(unseen) = 1
  <2>1. c \in Head(unseen)
    BY <1>2, <1>3, <1>4
  <2>2. Scanned(c) = Act(c, 1, NoPenalty)
    BY <1>2, <2>1 DEF Scanned
  <2>3. \A i \in OpenRungs(c) : ~(i < 1)
    BY DEF OpenRungs
  <2>4. PICK r \in OpenRungs(c) :
            /\ r >= 1 /\ Act(c, 1, NoPenalty) = Sending(c, r)
            /\ \A i \in Below(c, r) : blobs[c][i].fee < TopFee(c)
            /\ \A p \in pool : p[1] = c => p[2].fee < blobs[c][r].fee
    <3>1. 1 \in Nat \ {0} /\ floor <= TopFee(c)
      BY <1>1, <1>2
    <3> QED
      BY <1>2, <2>3, <3>1, Climbs
  <2>5. age[c] <= 1 + RetryAfter * Cardinality(Below(c, r)) /\ age[c] > 0
    <3> DEFINE n == Len(blobs[c])
    <3>1. Below(c, r) \subseteq 1..n /\ n \in Nat
      BY <1>1 DEF Below, OpenRungs
    <3> HIDE DEF n
    <3>2. IsFiniteSet(1..n)
      BY <3>1, 1 \in Int, FS_Interval
    <3>3. Cardinality(Below(c, r)) \in Nat
      BY <3>1, <3>2, FS_Subset, FS_CardinalityType
    <3> DEFINE m == RetryAfter * Cardinality(Below(c, r))
    <3>4. m \in Nat
      BY <3>3, TowerConstants
    <3> HIDE DEF m
    <3>5. age[c] <= 1 + m
      BY <1>2, <3>4
    <3> QED
      BY <1>2, <3>5 DEF m
  <2>6. Out(c)'
    BY <1>2, <1>4, <2>2, <2>4, <2>5, JustSent
  <2> QED
    BY <2>6 DEF Watched
<1>5. CASE Len(unseen) # 1
  <2>1. c \notin Head(unseen)
    BY <1>2, <1>3, <1>5
  <2>2. Scanned(c) = Outcome(blobs[c], disk[c], NoPenalty, {})
    BY <1>2, <2>1 DEF Scanned
  <2>3. Scanned(c).pen = NoPenalty /\ Scanned(c).sent = {} /\ Scanned(c).list = blobs[c]
    BY <2>2 DEF Outcome
  <2>4. unseen' # <<>> /\ Len(unseen') = Len(unseen) - 1
    <3>1. Len(Tail(unseen)) = Len(unseen) - 1
      BY <1>1
    <3>2. Len(unseen) - 1 # 0 /\ Len(<<>>) = 0
      BY <1>3, <1>5
    <3> QED
      BY <1>1, <3>1, <3>2
  <2>5. \A i \in DOMAIN unseen' : i + 1 \in DOMAIN unseen /\ unseen'[i] = unseen[i + 1] /\ i \in Nat
    BY <1>1
  <2>6. \A i \in DOMAIN unseen' : c \in unseen'[i] <=> i = Len(unseen')
    BY <1>2, <1>3, <2>4, <2>5
  <2>7. Waiting(c)'
    BY <1>1, <1>2, <2>3, <2>4, <2>6 DEF Waiting
  <2> QED
    BY <2>7 DEF Watched
<1> QED
  BY <1>4, <1>5

\* A penalty below the top waits its time and is then replaced.
LEMMA ScanOut ==
    ASSUME Watch, ScanBlock, NEW c \in Breach, c \notin excused', Out(c)
    PROVE  Watched(c)'
<1>1. /\ unseen # <<>> /\ unseen' = Tail(unseen) /\ unseen \in Seq(SUBSET Breach)
      /\ floor' = floor /\ age' = age /\ sweptBy' = sweptBy
      /\ pending'[c] = Scanned(c).pen /\ blobs'[c] = Scanned(c).list
      /\ \A p \in pool' : p[1] = c => p \in pool \/ p \in Scanned(c).sent
      /\ blobs[c] \in Seq(Blob)
  BY ScanStep
<1>2. age[c] > 0 /\ sweptBy[c] = Nobody /\ Len(unseen) <= 1 /\ floor <= TopFee(c)
  BY DEF Out
<1>3. PICK r \in OpenRungs(c), w \in 0..(RetryAfter - 1) : OutAt(c, r, w)
  BY DEF Out
<1>4. Len(unseen) = 1 /\ unseen' = <<>> /\ Len(unseen') = 0
  <2> DEFINE n == Len(unseen)
  <2>1. n \in Nat /\ n # 0 /\ n <= 1
    BY <1>1, <1>2
  <2> HIDE DEF n
  <2>2. n = 1
    BY <2>1
  <2> USE DEF n
  <2> QED
    BY <1>1, <2>2
<1>5. /\ TopFee(c) \in Int
      /\ \A i \in OpenRungs(c) : blobs[c][i].fee \in Nat /\ blobs[c][i].fee <= TopFee(c)
      /\ \A p \in pool : p[2].fee \in Nat
      /\ age[c] \in Nat /\ RetryAfter \in Nat \ {0} /\ w \in Nat /\ w + 1 <= RetryAfter
      /\ r \in Nat \ {0} /\ r \in 1..Len(blobs[c]) /\ blobs[c][r] \in Blob
  <2>1. r \in Nat \ {0} /\ r \in 1..Len(blobs[c]) /\ blobs[c][r] \in Blob
    BY <1>1 DEF OpenRungs
  <2>2. /\ TopFee(c) \in Int
        /\ \A i \in OpenRungs(c) : blobs[c][i].fee \in Nat /\ blobs[c][i].fee <= TopFee(c)
    BY <1>1, TopFeeIs
  <2>3. age[c] \in Nat /\ \A p \in pool : p[2].fee \in Nat
    BY BlobFields, TowerConstants DEF Watch, WatchTypes
  <2> QED
    BY <2>1, <2>2, <2>3, TowerConstants
<1>6. blobs[c][r].fee < TopFee(c)
  <2>1. blobs[c][r].fee # TopFee(c)
    BY <1>1, <1>3 DEF OutAt
  <2> QED
    BY <1>5, <2>1
<1> DEFINE n == Cardinality(Below(c, r))
           rec == [rung |-> r, blob |-> blobs[c][r], waited |-> w]
           pen == [rung |-> r, blob |-> blobs[c][r], waited |-> w + 1]
<1>7. /\ pending[c] = rec
      /\ \A p \in pool : p[1] = c => p[2].fee <= blobs[c][r].fee
      /\ \A i \in Below(c, r) : blobs[c][i].fee < TopFee(c)
      /\ age[c] <= 1 + RetryAfter * n + w + 1
  BY <1>3, <1>4 DEF OutAt
<1>8. [pending[c] EXCEPT !.waited = @ + 1] = pen /\ pending[c] # NoPenalty
  BY <1>5, <1>7 DEF NoPenalty
<1>9. Scanned(c) = IF w + 1 < RetryAfter THEN Outcome(blobs[c], disk[c], pen, {})
                   ELSE Act(c, r + 1, [pen EXCEPT !.waited = 0])
  <2>1. Scanned(c) = Retry(c) /\ \A b : Nobody # Tower(b)
    BY <1>8 DEF Scanned, Nobody, Tower
  <2>2. pen.waited = w + 1 /\ pen.rung = r
    OBVIOUS
  <2> HIDE DEF pen
  <2> QED
    BY <1>2, <1>8, <2>1, <2>2 DEF Retry
<1>10. IsFiniteSet(Below(c, r)) /\ n \in Nat
  <2> DEFINE m == Len(blobs[c])
  <2>1. Below(c, r) \subseteq 1..m /\ m \in Nat
    BY <1>1 DEF Below, OpenRungs
  <2> HIDE DEF m
  <2>2. IsFiniteSet(1..m)
    BY <2>1, 1 \in Int, FS_Interval
  <2> QED
    BY <2>1, <2>2, FS_Subset, FS_CardinalityType
<1> HIDE DEF n
<1>11. CASE w + 1 < RetryAfter
  <2>1. /\ Scanned(c).list = blobs[c] /\ Scanned(c).pen = pen /\ Scanned(c).sent = {}
    BY <1>9, <1>11 DEF Outcome
  <2> HIDE DEF rec, pen
  <2>2. blobs'[c] = blobs[c] /\ pending'[c] = pen /\ \A p \in pool' : p[1] = c => p \in pool
    BY <1>1, <2>1
  <2>3. age'[c] <= 1 + RetryAfter * n + (w + 1) + Len(unseen')
    <3> DEFINE m == RetryAfter * n
    <3>1. m \in Nat /\ age[c] <= 1 + m + w + 1
      BY <1>5, <1>7, <1>10
    <3> HIDE DEF m
    <3>2. age'[c] <= 1 + m + (w + 1) + Len(unseen')
      BY <1>1, <1>4, <1>5, <3>1
    <3> QED
      BY <3>2 DEF m
  <2>4. OutAt(c, r, w + 1)'
    <3>1. blobs[c][r].fee # TopFee(c)
      BY <1>5, <1>6
    <3> QED
      BY <1>7, <2>2, <2>3, <3>1, SameLadder DEF OutAt, n, pen
  <2>5. w + 1 \in 0..(RetryAfter - 1)
    BY <1>5, <1>11
  <2>6. r \in OpenRungs(c)' /\ TopFee(c)' = TopFee(c)
    BY <2>2, SameLadder
  <2>7. Len(unseen') <= 1 /\ \A i \in DOMAIN unseen' : c \notin unseen'[i]
    BY <1>4
  <2>8. Out(c)'
    BY <1>1, <1>2, <2>4, <2>5, <2>6, <2>7 DEF Out
  <2> QED
    BY <2>8 DEF Watched
<1>12. CASE ~(w + 1 < RetryAfter)
  <2> DEFINE otherwise == [pen EXCEPT !.waited = 0]
  <2>1. Scanned(c) = Act(c, r + 1, otherwise)
    BY <1>9, <1>12
  <2> HIDE DEF otherwise, pen, rec
  <2>2. \A i \in OpenRungs(c) : i < r + 1 => blobs[c][i].fee < TopFee(c)
    <3> SUFFICES ASSUME NEW i \in OpenRungs(c), i < r + 1 PROVE blobs[c][i].fee < TopFee(c)
      OBVIOUS
    <3>1. i \in Nat
      BY DEF OpenRungs
    <3>2. i = r \/ i \in Below(c, r)
      BY <1>5, <3>1 DEF Below
    <3> QED
      BY <1>6, <1>7, <3>2
  <2>3. \A p \in pool : p[1] = c => p[2].fee < TopFee(c)
    BY <1>5, <1>6, <1>7
  <2>4. r + 1 \in Nat \ {0}
    BY <1>5
  <2>5. PICK k \in OpenRungs(c) :
            /\ k >= r + 1 /\ Act(c, r + 1, otherwise) = Sending(c, k)
            /\ \A i \in Below(c, k) : blobs[c][i].fee < TopFee(c)
            /\ \A p \in pool : p[1] = c => p[2].fee < blobs[c][k].fee
    BY <1>2, <2>2, <2>3, <2>4, Climbs
  <2> DEFINE B == Below(c, r)
             h == Cardinality(Below(c, k))
  <2>6. h \in Nat /\ n + 1 <= h
    <3> DEFINE m == Len(blobs[c])
               T == B \cup {r}
    <3>1. Below(c, k) \subseteq 1..m /\ m \in Nat /\ k \in Nat
      BY <1>1 DEF Below, OpenRungs
    <3>2. T \subseteq Below(c, k) /\ r \notin B
      BY <1>5, <2>5, <3>1 DEF Below, OpenRungs
    <3> HIDE DEF m
    <3>3. IsFiniteSet(1..m)
      BY <3>1, 1 \in Int, FS_Interval
    <3>4. IsFiniteSet(Below(c, k)) /\ h \in Nat
      BY <3>1, <3>3, FS_Subset, FS_CardinalityType
    <3>5. Cardinality(T) = n + 1
      BY <1>10, <3>2, FS_AddElement DEF n
    <3> HIDE DEF T, B
    <3>6. Cardinality(T) <= h
      BY <3>2, <3>4, FS_Subset
    <3> QED
      BY <3>4, <3>5, <3>6
  <2> HIDE DEF h
  <2>7. age[c] <= 1 + RetryAfter * h
    <3>1. (n + 1) * RetryAfter <= h * RetryAfter /\ h * RetryAfter \in Nat
      <4>1. n + 1 \in Nat /\ RetryAfter \in Nat
        BY <1>5, <1>10
      <4> QED
        BY <2>6, <4>1, TimesKeepsOrder
    <3> DEFINE m == RetryAfter * n
               g == RetryAfter * h
    <3>2. m \in Nat /\ g \in Nat /\ m + RetryAfter <= g
      <4>1. (n + 1) * RetryAfter = m + RetryAfter /\ h * RetryAfter = g /\ m \in Nat
        BY <1>5, <1>10, <2>6
      <4> QED
        BY <3>1, <4>1
    <3>3. age[c] <= 1 + m + w + 1
      BY <1>7
    <3> HIDE DEF m, g
    <3>4. age[c] <= 1 + g
      BY <1>5, <3>2, <3>3
    <3> QED
      BY <3>4 DEF g
  <2>8. Scanned(c) = Sending(c, k)
    BY <2>1, <2>5
  <2>9. Out(c)'
    BY <1>2, <1>4, <2>5, <2>7, <2>8, JustSent DEF h
  <2> QED
    BY <2>9 DEF Watched
<1> QED
  BY <1>11, <1>12

\* A penalty the tower has forgotten is left alone.
LEMMA ScanFloating ==
    ASSUME Watch, ScanBlock, NEW c \in Breach, c \notin excused', Floating(c)
    PROVE  Watched(c)'
<1>1. /\ unseen # <<>> /\ unseen' = Tail(unseen) /\ unseen \in Seq(SUBSET Breach)
      /\ UNCHANGED <<floor, age, sweptBy>> /\ pending'[c] = Scanned(c).pen /\ pool \subseteq pool'
  BY ScanStep
<1>2. c \notin Head(unseen) /\ pending[c] = NoPenalty
  BY <1>1 DEF Floating, Adrift
<1>3. Scanned(c) = Outcome(blobs[c], disk[c], NoPenalty, {})
  BY <1>2 DEF Scanned
<1>4. Scanned(c).pen = NoPenalty
  BY <1>3 DEF Outcome
<1>5. \A i \in DOMAIN unseen' : c \notin unseen'[i]
  <2>1. \A i \in DOMAIN unseen' : i + 1 \in DOMAIN unseen /\ unseen'[i] = unseen[i + 1]
    BY <1>1
  <2> QED
    BY <2>1 DEF Floating, Adrift
<1>6. Adrift(c)' /\ Afloat(c, floor)'
  BY <1>1, <1>4, <1>5 DEF Floating, Adrift, Afloat
<1> QED
  BY <1>1, <1>6 DEF Watched, Floating

LEMMA ScanWatched ==
    ASSUME Watch, ScanBlock, NEW c \in Breach, c \notin excused'
    PROVE  Watched(c)'
<1>1. c \notin excused /\ sweptBy' = sweptBy
  BY DEF ScanBlock
<1>2. Watched(c)
  BY <1>1 DEF Watch
<1>3. CASE Swept(c)
  BY <1>1, <1>3 DEF Watched, Swept
<1> QED
  BY <1>2, <1>3, ScanUntouched, ScanWaiting, ScanOut, ScanFloating DEF Watched

LEMMA NextWatch == DeadlineSuffices /\ Watch /\ [TowerNext]_towerVars => Watch'
<1> SUFFICES ASSUME DeadlineSuffices, Watch, [TowerNext]_towerVars PROVE Watch'
  OBVIOUS
<1>1. TowerInv' /\ WatchTypes' /\ Shape'
  BY TowerNextHolds, NextKeepsShape DEF Watch
<1>2. ASSUME NEW c \in Breach, c \notin excused' PROVE Watched(c)'
  <2>1. CASE \E d \in Breach, to \in Address : Register(d, to)
    BY <1>2, <2>1, RegisterWatched
  <2>2. CASE \E d \in Breach : Forget(d)
    BY <1>2, <2>2, ForgetWatched
  <2>3. CASE ScanBlock
    BY <1>2, <2>3, ScanWatched
  <2>4. CASE Restart
    BY <1>2, <2>4, RestartWatched
  <2>5. CASE \E f \in Floors : MoveFloor(f)
    BY <1>2, <2>5, MoveWatched
  <2>6. CASE \E new \in SUBSET Breach : MineBlock(new)
    BY <1>2, <2>6, MineWatched
  <2>7. CASE UNCHANGED towerVars
    <3>1. Watched(c)
      BY <1>2, <2>7 DEF Watch, towerVars
    <3> QED
      BY <2>7, <3>1, SameWatched DEF towerVars, tower, chain
  <2> QED
    BY <2>1, <2>2, <2>3, <2>4, <2>5, <2>6, <2>7 DEF TowerNext
<1> QED
  BY <1>1, <1>2 DEF Watch

\* A breach is unspent at the deadline only where the tower is excused, if the
\* deadline leaves RetryAfter blocks for every rung below the dearest and two more.
THEOREM BreachesPunished ==
    ASSUME DeadlineSuffices
    PROVE  TowerSpec => []UnpunishedOnlyIfExcused
<1>1. TowerInit => Watch
  <2> SUFFICES ASSUME TowerInit PROVE Watch
    OBVIOUS
  <2>1. TowerInv /\ WatchTypes /\ Shape
    BY InitHolds, WatchTypesHold
  <2>2. \A c \in Breach : Untouched(c)
    BY DEF TowerInit, Untouched
  <2> QED
    BY <2>1, <2>2 DEF Watch, Watched
<1>2. Watch => UnpunishedOnlyIfExcused
  <2> SUFFICES ASSUME Watch, NEW c \in Breach, age[c] >= Deadline, sweptBy[c] = Nobody
               PROVE  c \in excused
    BY DEF UnpunishedOnlyIfExcused
  <2>1. Deadline \in Nat /\ age[c] \in Nat
    BY TowerConstants DEF Watch, WatchTypes
  <2>2. Deadline >= 2
    <3> DEFINE k == Cardinality(LowRungs(c))
    <3>1. k \in Nat /\ RetryAfter \in Nat /\ Deadline >= 2 + RetryAfter * k
      BY FS_CardinalityType, TowerConstants DEF DeadlineSuffices
    <3> HIDE DEF k
    <3>2. RetryAfter * k \in Nat
      BY <3>1
    <3> QED
      BY <2>1, <3>1, <3>2
  <2>3. ~Untouched(c) /\ ~Waiting(c) /\ ~Swept(c)
    BY <2>1, <2>2 DEF Untouched, Waiting, Swept
  <2>4. ~Out(c)
    BY <2>1, OutInTime
  <2>5. ~Floating(c)
    BY <2>1 DEF Floating
  <2> QED
    BY <2>3, <2>4, <2>5 DEF Watch, Watched
<1>3. Watch /\ [TowerNext]_towerVars => Watch'
  BY NextWatch
<1> QED
  BY <1>1, <1>2, <1>3, PTL DEF TowerSpec
=============================================================================

---------------------------- MODULE GatewayProofs ----------------------------
(***************************************************************************)
(* Theorems about Gateway and the faucet it serves, for every set of       *)
(* clients and addresses, every policy and every horizon.  The faucet and  *)
(* the gateway share the clock and nothing else, so each has an invariant  *)
(* of its own.                                                             *)
(***************************************************************************)
EXTENDS Gateway, Induction, TLAPS

----------------------------------------------------------------------------
(***************************************************************************)
(* The faucet's invariant.  While a broadcast is awaited the ledger's last *)
(* entry is a promise that the limits were judged for; the rest of it is   *)
(* settled.  Every payment is settled, or so old that no cooldown and no   *)
(* day reaches it: that is what a new request is judged against, and what  *)
(* pruning, refusals and restarts have to keep.                            *)
(***************************************************************************)
Paid == sent \ lost
Settled == IF Awaiting THEN Front(ledger) ELSE ledger
Old(g) == g.at < now - 2 * Day

\* A ledger lists grants in the order they were made.
Chronicle(s) ==
    /\ s \in Seq(ToSet(s))
    /\ \A g \in ToSet(s) : g.at \in 0..now
    /\ \A i, j \in DOMAIN s : i < j => s[i].at <= s[j].at

Clash(g, h) ==
    LET Near(cooldown) == Close(g, h, Remembered(cooldown)) \/ Close(h, g, Remembered(cooldown))
    IN  \/ g.address = h.address /\ Near(AddressCooldown)
        \/ g.client = h.client /\ Near(ClientCooldown)

Within(P, t) == {g \in P : g.at \in (t - Day + 1)..t}

\* Paying c keeps the limits.
Admitted(c) ==
    /\ \A g \in Paid : g.at <= c.at /\ ~Clash(g, c)
    /\ Amount * Cardinality(Within(Paid, c.at) \cup {c}) <= DailyCap

LedgerFacts ==
    /\ now \in Nat
    /\ Chronicle(ledger) /\ Chronicle(OnDisk)
    /\ IsFiniteSet(sent) /\ \A g \in sent : g.at \in 0..now
    /\ serving # None => /\ "accepted" \in DOMAIN serving /\ "grant" \in DOMAIN serving
                         /\ Awaiting \/ Current \in sent
    /\ Awaiting => ledger # <<>> /\ Current = Last(ledger)
    /\ ToSet(Settled) \cup ToSet(OnDisk) \subseteq sent \cup thrown

\* Unless the last write failed, what was paid and is settled is on disk, all but a
\* grant whose request has yet to end.
WrittenDown ==
    /\ ~unwritten => \A g \in Paid \cap ToSet(Settled) :
                        g \in ToSet(disk) \/ (serving # None /\ ~Awaiting /\ g = Current)
    /\ Awaiting /\ Current \in Paid => Current \in ToSet(Settled)

\* The limits, for any set of payments.
LimitsOf(P) ==
    /\ \A g, h \in P :
          /\ g.address = h.address => ~Close(g, h, Remembered(AddressCooldown))
          /\ g.client = h.client => ~Close(g, h, Remembered(ClientCooldown))
    /\ \A t \in {g.at : g \in P} : Amount * Cardinality(Within(P, t)) <= DailyCap

FaucetInv ==
    /\ LedgerFacts
    /\ \A g \in Paid : g \in ToSet(Settled) \/ Old(g)
    /\ Awaiting => Admitted(Current)
    /\ LimitsOf(Paid)
    /\ WrittenDown

\* A sequence is one of its own elements.
LEMMA OwnElements ==
    ASSUME NEW G, NEW s \in Seq(G)
    PROVE  s \in Seq(ToSet(s)) /\ ToSet(s) \subseteq G
<1>1. Len(s) \in Nat /\ DOMAIN s = 1..Len(s) /\ s = [i \in 1..Len(s) |-> s[i]]
  OBVIOUS
<1>2. \A i \in 1..Len(s) : s[i] \in G /\ s[i] \in ToSet(s)
  BY <1>1 DEF ToSet
<1>3. [i \in 1..Len(s) |-> s[i]] \in Seq(ToSet(s))
  BY <1>1, <1>2
<1>4. s \in Seq(ToSet(s))
  BY <1>1, <1>3
<1> QED
  BY <1>1, <1>2, <1>4 DEF ToSet

\* Facts about Append and about the front of a sequence.
LEMMA AppendElements ==
    ASSUME NEW s, s \in Seq(ToSet(s)), NEW e
    PROVE  LET r == Append(s, e)
           IN  /\ r \in Seq(ToSet(r)) /\ ToSet(r) = ToSet(s) \cup {e}
               /\ r # <<>> /\ Last(r) = e /\ Front(r) = s
               /\ Len(s) \in Nat /\ DOMAIN s = 1..Len(s) /\ DOMAIN r = 1..(Len(s) + 1)
               /\ r[Len(s) + 1] = e /\ \A i \in 1..Len(s) : r[i] = s[i]
<1> DEFINE G == ToSet(s) \cup {e}
           r == Append(s, e)
<1>1. s \in Seq(G) /\ e \in G
  OBVIOUS
<1> HIDE DEF G
<1>2. /\ r \in Seq(G) /\ Len(s) \in Nat /\ DOMAIN s = 1..Len(s)
      /\ Len(r) = Len(s) + 1 /\ DOMAIN r = 1..(Len(s) + 1)
      /\ r[Len(s) + 1] = e /\ \A i \in 1..Len(s) : r[i] = s[i]
  BY <1>1
<1> HIDE DEF r
<1>3. ToSet(r) = ToSet(s) \cup {e}
  BY <1>2 DEF ToSet
<1>4. r # <<>> /\ Last(r) = e
  BY <1>2 DEF Last
<1>5. Front(r) = s
  <2>1. Front(r) = [i \in 1..Len(s) |-> r[i]]
    BY <1>2 DEF Front
  <2>2. s = [i \in 1..Len(s) |-> s[i]]
    BY <1>1
  <2> QED
    BY <1>2, <2>1, <2>2
<1> QED
  BY <1>2, <1>3, <1>4, <1>5, OwnElements DEF r

LEMMA FrontElements ==
    ASSUME NEW s, s \in Seq(ToSet(s)), s # <<>>
    PROVE  /\ Len(s) \in Nat \ {0} /\ DOMAIN s = 1..Len(s)
           /\ Front(s) \in Seq(ToSet(Front(s))) /\ ToSet(s) = ToSet(Front(s)) \cup {Last(s)}
           /\ DOMAIN Front(s) = 1..(Len(s) - 1)
           /\ \A i \in 1..(Len(s) - 1) : Front(s)[i] = s[i]
<1>1. Len(s) \in Nat \ {0} /\ DOMAIN s = 1..Len(s)
  OBVIOUS
<1>2. /\ Front(s) \in Seq(ToSet(s)) /\ DOMAIN Front(s) = 1..(Len(s) - 1)
      /\ \A i \in 1..(Len(s) - 1) : Front(s)[i] = s[i]
  BY <1>1 DEF Front
<1>3. ToSet(s) = ToSet(Front(s)) \cup {Last(s)}
  <2>1. 1..Len(s) = (1..(Len(s) - 1)) \cup {Len(s)}
    BY <1>1
  <2> QED
    BY <1>1, <1>2, <2>1 DEF ToSet, Last
<1> QED
  BY <1>1, <1>2, <1>3, OwnElements

\* The greatest element of a set of naturals up to a bound.
LEMMA MaxOf ==
    ASSUME NEW S \in SUBSET Nat, S # {}, NEW b \in Nat, \A n \in S : n <= b
    PROVE  Max(S) \in S /\ \A n \in S : n <= Max(S)
<1>1. \E m \in S : \A n \in S : m >= n
  <2>1. PICK m \in S : \A n \in S : n <= m
    BY NatGreatest
  <2> QED
    BY <2>1
<1>2. Max(S) \in S /\ \A n \in S : Max(S) >= n
  BY <1>1 DEF Max
<1> QED
  BY <1>2

LEMMA TimesMonotone ==
    ASSUME NEW a \in Nat, NEW m \in Nat, NEW n \in Nat, m <= n
    PROVE  a * m <= a * n
<1> DEFINE d == n - m
<1>1. d \in Nat /\ n = m + d
  OBVIOUS
<1>2. a * d \in Nat /\ a * m \in Nat
  BY <1>1
<1>3. a * (m + d) = a * m + a * d
  BY <1>1
<1> QED
  BY <1>1, <1>2, <1>3

----------------------------------------------------------------------------
(***************************************************************************)
(* The limits, for any set of payments.                                    *)
(***************************************************************************)
LEMMA RememberedBound ==
    ASSUME NEW cooldown \in Nat
    PROVE  /\ Remembered(cooldown) \in Nat
           /\ Remembered(cooldown) <= cooldown /\ Remembered(cooldown) <= 2 * Day
<1> DEFINE S == {cooldown, 2 * Day}
<1>1. 2 * Day \in Nat
  BY FaucetConstants
<1>2. \E m \in S : \A n \in S : m <= n
  BY <1>1
<1>3. Min(S) \in S /\ \A n \in S : Min(S) <= n
  BY <1>2 DEF Min
<1> QED
  BY <1>1, <1>3 DEF Remembered

LEMMA LimitsFollow == FaucetInv => LimitsKept
<1> SUFFICES ASSUME FaucetInv PROVE LimitsKept
  OBVIOUS
<1>1. ASSUME ~unwritten, NEW g \in Paid \cap ToSet(ledger)
      PROVE  g \in ToSet(disk) \/ (serving # None /\ g = Current)
  <2>1. CASE Awaiting
    <3>1. ToSet(ledger) = ToSet(Settled) \cup {Current} /\ serving # None
      BY <2>1, FrontElements DEF FaucetInv, LedgerFacts, Chronicle, Settled, Awaiting
    <3> QED
      BY <1>1, <2>1, <3>1 DEF FaucetInv, WrittenDown
  <2>2. CASE ~Awaiting
    BY <1>1, <2>2 DEF FaucetInv, WrittenDown, Settled
  <2> QED
    BY <2>1, <2>2
<1>2. LimitsOf(Paid)
  BY DEF FaucetInv
<1> QED
  BY <1>1, <1>2 DEF LimitsKept, LimitsOf, Paid, Within

\* Fewer payments keep what more do.
LEMMA LimitsOfFewer ==
    ASSUME NEW P, IsFiniteSet(P), NEW Q \in SUBSET P, LimitsOf(P)
    PROVE  LimitsOf(Q)
<1>1. ASSUME NEW t \in {g.at : g \in Q}
      PROVE  Amount * Cardinality(Within(Q, t)) <= DailyCap
  <2> DEFINE A == Within(P, t)
             B == Within(Q, t)
  <2>1. IsFiniteSet(A) /\ B \in SUBSET A
    <3>1. A \in SUBSET P
      BY DEF Within
    <3> QED
      BY <3>1, FS_Subset DEF Within
  <2>2. IsFiniteSet(B) /\ Cardinality(B) <= Cardinality(A)
    BY <2>1, FS_Subset
  <2>3. Cardinality(A) \in Nat /\ Cardinality(B) \in Nat
    BY <2>1, <2>2, FS_CardinalityType
  <2>4. Amount * Cardinality(A) <= DailyCap
    BY DEF LimitsOf
  <2> HIDE DEF A, B
  <2>5. Amount * Cardinality(B) <= Amount * Cardinality(A)
    BY <2>2, <2>3, TimesMonotone, FaucetConstants
  <2>6. Amount * Cardinality(B) <= DailyCap
    <3>1. Amount * Cardinality(A) \in Int /\ Amount * Cardinality(B) \in Int
      BY <2>3, FaucetConstants
    <3> QED
      BY <2>4, <2>5, <3>1, FaucetConstants
  <2> QED
    BY <2>6 DEF B
<1> QED
  BY <1>1 DEF LimitsOf

\* One more payment, the latest, keeps them if it clashes with none of the
\* others and its own day has room.
LEMMA LimitsOfOneMore ==
    ASSUME NEW P, NEW c, LimitsOf(P), c.at \in Nat,
           \A g \in P : g.at \in Nat /\ g.at <= c.at /\ ~Clash(g, c),
           Amount * Cardinality(Within(P, c.at) \cup {c}) <= DailyCap
    PROVE  LimitsOf(P \cup {c})
<1> DEFINE Q == P \cup {c}
<1>1. ~Close(c, c, Remembered(AddressCooldown)) /\ ~Close(c, c, Remembered(ClientCooldown))
  BY DEF Close
<1>2. ASSUME NEW g \in Q, NEW h \in Q
      PROVE  /\ g.address = h.address => ~Close(g, h, Remembered(AddressCooldown))
             /\ g.client = h.client => ~Close(g, h, Remembered(ClientCooldown))
  <2>1. CASE g \in P /\ h \in P
    BY <2>1 DEF LimitsOf
  <2>2. CASE g \in P /\ h = c
    BY <2>2 DEF Clash
  <2>3. CASE g = c /\ h \in P
    BY <2>3 DEF Clash
  <2>4. CASE g = c /\ h = c
    BY <1>1, <2>4
  <2> QED
    BY <2>1, <2>2, <2>3, <2>4
<1>3. ASSUME NEW g \in Q
      PROVE  Amount * Cardinality(Within(Q, g.at)) <= DailyCap
  <2>1. CASE g.at = c.at
    <3>1. Within(Q, g.at) = Within(P, c.at) \cup {c}
      BY <2>1, FaucetConstants DEF Within
    <3> QED
      BY <3>1
  <2>2. CASE g.at # c.at
    <3>1. g \in P /\ g.at \in Nat /\ g.at < c.at
      BY <2>2
    <3>2. Within(Q, g.at) = Within(P, g.at)
      <4>1. c.at \notin (g.at - Day + 1)..g.at
        BY <3>1, FaucetConstants
      <4> QED
        BY <4>1 DEF Within
    <3> QED
      BY <3>1, <3>2 DEF LimitsOf
  <2> QED
    BY <2>1, <2>2
<1> QED
  BY <1>2, <1>3 DEF LimitsOf

----------------------------------------------------------------------------
(***************************************************************************)
(* What judgeRequest lets through.                                         *)
(***************************************************************************)
\* The last grant in the ledger for an address is no more recent than any
\* other for it, so its cooldown stands for all of them.
LEMMA CooledForAll ==
    ASSUME LedgerFacts, NEW S \in SUBSET DOMAIN ledger, NEW limit \in Nat,
           Cooled(Max({0} \cup S), limit), NEW i \in S
    PROVE  now - ledger[i].at >= limit
<1> DEFINE m == Max({0} \cup S)
<1>1. Len(ledger) \in Nat /\ DOMAIN ledger = 1..Len(ledger)
  BY DEF LedgerFacts, Chronicle
<1>2. {0} \cup S \in SUBSET Nat /\ \A n \in {0} \cup S : n <= Len(ledger)
  BY <1>1
<1>3. m \in {0} \cup S /\ i <= m
  <2>1. {0} \cup S # {}
    OBVIOUS
  <2> QED
    BY <1>1, <1>2, <2>1, MaxOf
<1> HIDE DEF m
<1>4. m \in DOMAIN ledger /\ i \in DOMAIN ledger /\ m > 0
  BY <1>1, <1>3
<1>5. now - ledger[m].at >= limit
  BY <1>4 DEF Cooled, m
<1>6. ledger[i].at <= ledger[m].at
  <2>1. CASE i = m
    <3>1. ledger[m].at \in 0..now /\ now \in Nat
      BY <1>4 DEF LedgerFacts, Chronicle, ToSet
    <3> QED
      BY <2>1, <3>1
  <2>2. CASE i # m
    <3>1. i < m
      BY <1>1, <1>3, <1>4, <2>2
    <3> QED
      BY <1>4, <3>1 DEF LedgerFacts, Chronicle
  <2> QED
    BY <2>1, <2>2
<1>7. ledger[m].at \in 0..now /\ ledger[i].at \in 0..now /\ now \in Nat
  BY <1>4 DEF LedgerFacts, Chronicle, ToSet
<1> QED
  BY <1>5, <1>6, <1>7

\* A grant made a cooldown ago, or longer, does not clash.
LEMMA CooledNoClose ==
    ASSUME NEW g, NEW h, NEW limit \in Nat, g.at \in Nat, h.at \in Nat,
           h.at - g.at >= limit
    PROVE  ~Close(g, h, limit) /\ ~Close(h, g, limit)
BY DEF Close

\* What is allowed keeps the limits.
LEMMA AllowedAdmitted ==
    ASSUME FaucetInv, ~Awaiting, NEW address, NEW client, NEW c,
           Allowed(address, client),
           c.address = address, c.client = client, c.at = now
    PROVE  Admitted(c)
<1>1. /\ now \in Nat /\ Settled = ledger
      /\ Len(ledger) \in Nat /\ DOMAIN ledger = 1..Len(ledger)
      /\ \A g \in Paid : g.at \in 0..now
      /\ AddressCooldown \in Nat /\ ClientCooldown \in Nat
      /\ Day \in Nat \ {0} /\ Amount \in Nat /\ DailyCap \in Nat
  BY FaucetConstants DEF FaucetInv, LedgerFacts, Chronicle, Settled, Paid
<1>4. /\ Remembered(AddressCooldown) \in Nat /\ Remembered(AddressCooldown) <= 2 * Day
      /\ Remembered(ClientCooldown) \in Nat /\ Remembered(ClientCooldown) <= 2 * Day
      /\ Remembered(AddressCooldown) <= AddressCooldown
      /\ Remembered(ClientCooldown) <= ClientCooldown
  BY <1>1, RememberedBound
<1>2. ASSUME NEW g \in Paid PROVE g.at <= c.at /\ ~Clash(g, c)
  <2>1. g.at \in Nat /\ g.at <= now
    BY <1>1
  <2>2. CASE Old(g)
    <3>1. /\ now - g.at >= Remembered(AddressCooldown)
          /\ now - g.at >= Remembered(ClientCooldown)
      BY <1>1, <1>4, <2>1, <2>2 DEF Old
    <3> QED
      BY <1>1, <1>4, <2>1, <3>1, CooledNoClose DEF Clash
  <2>3. CASE ~Old(g)
    <3>1. PICK i \in DOMAIN ledger : g = ledger[i]
      BY <1>1, <2>3 DEF FaucetInv, ToSet
    <3>2. ASSUME g.address = address
          PROVE  ~Close(g, c, Remembered(AddressCooldown)) /\ ~Close(c, g, Remembered(AddressCooldown))
      <4> DEFINE S == {j \in DOMAIN ledger : ledger[j].address = address}
      <4>1. Cooled(Max({0} \cup S), AddressCooldown)
        BY DEF Allowed, LastFor
      <4>2. i \in S /\ S \in SUBSET DOMAIN ledger
        BY <3>1, <3>2
      <4>3. now - g.at >= Remembered(AddressCooldown)
        <5> HIDE DEF S
        <5>1. now - g.at >= AddressCooldown
          BY <1>1, <3>1, <4>1, <4>2, CooledForAll DEF FaucetInv
        <5> QED
          BY <1>1, <1>4, <2>1, <5>1
      <4> QED
        BY <1>1, <1>4, <2>1, <4>3, CooledNoClose
    <3>3. ASSUME g.client = client
          PROVE  ~Close(g, c, Remembered(ClientCooldown)) /\ ~Close(c, g, Remembered(ClientCooldown))
      <4> DEFINE S == {j \in DOMAIN ledger : ledger[j].client = client}
      <4>1. Cooled(Max({0} \cup S), ClientCooldown)
        BY DEF Allowed, LastForClient
      <4>2. i \in S /\ S \in SUBSET DOMAIN ledger
        BY <3>1, <3>3
      <4>3. now - g.at >= Remembered(ClientCooldown)
        <5> HIDE DEF S
        <5>1. now - g.at >= ClientCooldown
          BY <1>1, <3>1, <4>1, <4>2, CooledForAll DEF FaucetInv
        <5> QED
          BY <1>1, <1>4, <2>1, <5>1
      <4> QED
        BY <1>1, <1>4, <2>1, <4>3, CooledNoClose
    <3> QED
      BY <2>1, <3>2, <3>3 DEF Clash
  <2> QED
    BY <2>2, <2>3
<1>3. Amount * Cardinality(Within(Paid, now) \cup {c}) <= DailyCap
  <2> DEFINE I == {i \in DOMAIN ledger : ledger[i].at > now - Day}
             R == {ledger[i] : i \in I}
             W == Within(Paid, now)
  <2>1. IsFiniteSet(I)
    <3>1. IsFiniteSet(1..Len(ledger))
      BY <1>1, FS_Interval
    <3> QED
      BY <1>1, <3>1, FS_Subset
  <2>2. IsFiniteSet(R) /\ Cardinality(R) <= Cardinality(I)
    <3> DEFINE f == [i \in I |-> ledger[i]]
    <3>1. f \in Surjection(I, R)
      BY DEF Surjection
    <3> HIDE DEF f, I, R
    <3> QED
      BY <2>1, <3>1, FS_Surjection
  <2>3. W \subseteq R
    <3> SUFFICES ASSUME NEW g \in W PROVE g \in R
      OBVIOUS
    <3>1. g \in Paid /\ g.at \in (now - Day + 1)..now /\ g.at \in 0..now
      BY <1>1 DEF Within
    <3>2. ~Old(g)
      BY <1>1, <3>1 DEF Old
    <3>3. PICK i \in DOMAIN ledger : g = ledger[i]
      BY <1>1, <3>1, <3>2 DEF FaucetInv, ToSet
    <3>4. ledger[i].at > now - Day
      BY <1>1, <3>1, <3>3
    <3> QED
      BY <3>3, <3>4
  <2> HIDE DEF R, I, W
  <2>4. IsFiniteSet(W) /\ Cardinality(W) <= Cardinality(R)
    BY <2>2, <2>3, FS_Subset
  <2>5. Cardinality(W) \in Nat /\ Cardinality(R) \in Nat /\ Cardinality(I) \in Nat
    BY <2>1, <2>2, <2>4, FS_CardinalityType
  <2>6. Cardinality(W \cup {c}) \in Nat /\ Cardinality(W \cup {c}) <= Cardinality(I) + 1
    <3>1. Cardinality(W \cup {c}) = Cardinality(W) \/ Cardinality(W \cup {c}) = Cardinality(W) + 1
      BY <2>4, FS_AddElement
    <3> QED
      BY <2>2, <2>4, <2>5, <3>1
  <2>7. Amount * Cardinality(W \cup {c}) <= Amount * (Cardinality(I) + 1)
    BY <1>1, <2>5, <2>6, TimesMonotone
  <2>8. Amount * Cardinality(I) + Amount <= DailyCap
    BY DEF Allowed, Dispensed, I
  <2>9. Amount * (Cardinality(I) + 1) = Amount * Cardinality(I) + Amount
    BY <1>1, <2>5
  <2>10. Amount * Cardinality(W \cup {c}) <= DailyCap
    <3>1. Amount * Cardinality(W \cup {c}) \in Int /\ Amount * Cardinality(I) \in Int
      BY <1>1, <2>5, <2>6
    <3> QED
      BY <1>1, <2>7, <2>8, <2>9, <3>1
  <2> QED
    BY <2>10 DEF W
<1> QED
  BY <1>2, <1>3 DEF Admitted

----------------------------------------------------------------------------
(***************************************************************************)
(* The faucet's steps.                                                     *)
(***************************************************************************)
\* The clock moves, or something outside the book does.
LEMMA ClockMoves ==
    ASSUME FaucetInv, now' \in Nat, now <= now', UNCHANGED <<book, serving>>
    PROVE  FaucetInv'
<1>1. /\ now \in Nat /\ ledger' = ledger /\ disk' = disk /\ sent' = sent /\ lost' = lost
      /\ thrown' = thrown /\ serving' = serving /\ Day \in Nat /\ unwritten' = unwritten
  BY FaucetConstants DEF book, FaucetInv, LedgerFacts
<1>2. Chronicle(ledger)' /\ Chronicle(OnDisk)'
  <2>1. \A n \in 0..now : n \in 0..now'
    BY <1>1
  <2> QED
    BY <1>1, <2>1 DEF FaucetInv, LedgerFacts, Chronicle, OnDisk
<1>3. LedgerFacts'
  <2>1. \A n \in 0..now : n \in 0..now'
    BY <1>1
  <2> QED
    BY <1>1, <1>2, <2>1 DEF FaucetInv, LedgerFacts, Awaiting, Current, Settled, OnDisk
<1>4. ASSUME NEW g \in Paid' PROVE g \in ToSet(Settled') \/ Old(g)'
  <2>1. g \in Paid /\ Settled' = Settled /\ g.at \in 0..now
    BY <1>1 DEF Paid, Settled, Awaiting, FaucetInv, LedgerFacts
  <2>2. g \in ToSet(Settled) \/ g.at < now - 2 * Day
    BY <2>1 DEF FaucetInv, Old
  <2> QED
    BY <1>1, <2>1, <2>2 DEF Old
<1>5. (Awaiting => Admitted(Current))'
  BY <1>1 DEF FaucetInv, Awaiting, Admitted, Current, Paid, Within, Clash, Close, Remembered
<1>6. LimitsOf(Paid)'
  BY <1>1 DEF FaucetInv, LimitsOf, Paid
<1>7. OnDisk' = OnDisk /\ Settled' = Settled /\ Awaiting' = Awaiting /\ Current' = Current
  BY <1>1 DEF OnDisk, Settled, Awaiting, Current
<1>8. WrittenDown'
  BY <1>1, <1>7 DEF FaucetInv, WrittenDown, Paid
<1> QED
  BY <1>3, <1>4, <1>5, <1>6, <1>8 DEF FaucetInv

LEMMA ServeKeeps ==
    ASSUME FaucetInv, NEW a \in Address, NEW c \in Client, Serve(a, c)
    PROVE  FaucetInv'
<1> DEFINE pay == Send(coins, a, Amount)
           grant == Grant(a, c, pay)
<1>1. /\ ledger' = Append(ledger, grant) /\ disk' = disk /\ now' = now /\ sent' = sent
      /\ lost' = lost /\ thrown' = thrown /\ serving = None /\ Allowed(a, c)
      /\ unwritten' = unwritten
      /\ serving' = [address |-> a, grant |-> grant, accepted |-> FALSE]
  BY DEF Serve
<1>2. grant.address = a /\ grant.client = c /\ grant.at = now
  BY DEF Grant
<1> HIDE DEF grant
<1>3. Awaiting' /\ Current' = grant /\ "accepted" \in DOMAIN serving' /\ "grant" \in DOMAIN serving'
  <2>1. "grant" \notin DOMAIN None
    BY DEF None
  <2>2. serving'.grant = grant /\ serving'.accepted = FALSE /\ "grant" \in DOMAIN serving'
        /\ "accepted" \in DOMAIN serving'
    BY <1>1
  <2>3. serving' # None
    BY <2>1, <2>2
  <2> QED
    BY <2>2, <2>3 DEF Awaiting, Current
<1>4. ~Awaiting /\ Settled = ledger /\ ledger \in Seq(ToSet(ledger)) /\ now \in Nat
  BY <1>1 DEF Awaiting, Settled, FaucetInv, LedgerFacts, Chronicle
<1>5. /\ ledger' \in Seq(ToSet(ledger')) /\ ToSet(ledger') = ToSet(ledger) \cup {grant}
      /\ ledger' # <<>> /\ Last(ledger') = grant /\ Front(ledger') = ledger
      /\ Len(ledger) \in Nat /\ DOMAIN ledger = 1..Len(ledger)
      /\ DOMAIN ledger' = 1..(Len(ledger) + 1)
      /\ ledger'[Len(ledger) + 1] = grant /\ \A i \in 1..Len(ledger) : ledger'[i] = ledger[i]
  BY <1>1, <1>4, AppendElements
<1>6. Settled' = ledger
  BY <1>3, <1>5 DEF Settled
<1>7. Chronicle(ledger)'
  <2>1. \A g \in ToSet(ledger') : g.at \in 0..now
    BY <1>2, <1>4, <1>5 DEF FaucetInv, LedgerFacts, Chronicle
  <2>2. ASSUME NEW i \in DOMAIN ledger', NEW j \in DOMAIN ledger', i < j
        PROVE  ledger'[i].at <= ledger'[j].at
    <3>1. i \in 1..Len(ledger) /\ ledger'[i] = ledger[i]
      BY <1>5, <2>2
    <3>2. CASE j \in 1..Len(ledger)
      BY <1>5, <2>2, <3>1, <3>2 DEF FaucetInv, LedgerFacts, Chronicle
    <3>3. CASE j \notin 1..Len(ledger)
      <4>1. ledger'[j] = grant
        BY <1>5, <3>3
      <4>2. ledger[i].at \in 0..now
        BY <1>5, <3>1 DEF FaucetInv, LedgerFacts, Chronicle, ToSet
      <4> QED
        BY <1>2, <1>4, <3>1, <4>1, <4>2
    <3> QED
      BY <3>2, <3>3
  <2> QED
    BY <1>1, <1>5, <2>1, <2>2 DEF Chronicle
<1>8. LedgerFacts'
  <2>1. Chronicle(OnDisk)'
    BY <1>1 DEF FaucetInv, LedgerFacts, Chronicle, OnDisk
  <2>2. ToSet(Settled') \cup ToSet(OnDisk') \subseteq sent' \cup thrown'
    BY <1>1, <1>4, <1>6 DEF FaucetInv, LedgerFacts, OnDisk
  <2> QED
    BY <1>1, <1>3, <1>5, <1>7, <2>1, <2>2 DEF FaucetInv, LedgerFacts
<1>9. Admitted(grant)
  BY <1>1, <1>2, <1>4, AllowedAdmitted
<1>10. (Awaiting => Admitted(Current))'
  BY <1>1, <1>3, <1>9 DEF Admitted, Paid, Within, Clash, Close, Remembered
<1>11. \A g \in Paid' : g \in ToSet(Settled') \/ Old(g)'
  BY <1>1, <1>4, <1>6 DEF FaucetInv, Paid, Old
<1>12. LimitsOf(Paid)'
  BY <1>1 DEF FaucetInv, LimitsOf, Paid
<1>13. WrittenDown'
  <2>1. ASSUME ~unwritten, NEW g \in Paid \cap ToSet(ledger) PROVE g \in ToSet(disk)
    BY <1>1, <1>4, <2>1 DEF FaucetInv, WrittenDown
  <2>2. ASSUME grant \in Paid PROVE grant \in ToSet(ledger)
    <3>1. ~Old(grant)
      BY <1>2, <1>4, FaucetConstants DEF Old
    <3> QED
      BY <1>4, <2>2, <3>1 DEF FaucetInv
  <2>3. Paid' = Paid
    BY <1>1 DEF Paid
  <2> QED
    BY <1>1, <1>3, <1>6, <2>1, <2>2, <2>3 DEF WrittenDown
<1> QED
  BY <1>8, <1>10, <1>11, <1>12, <1>13 DEF FaucetInv

LEMMA AcceptKeeps ==
    ASSUME FaucetInv, Accept
    PROVE  FaucetInv'
<1>1. /\ Awaiting /\ serving' = [serving EXCEPT !.accepted = TRUE]
      /\ sent' = sent \cup {Current}
      /\ ledger' = ledger /\ disk' = disk /\ now' = now /\ lost' = lost /\ thrown' = thrown
      /\ unwritten' = unwritten
  BY DEF Accept
<1>2. /\ serving # None /\ "accepted" \in DOMAIN serving /\ "grant" \in DOMAIN serving
      /\ ledger # <<>> /\ Current = Last(ledger) /\ Settled = Front(ledger)
      /\ ledger \in Seq(ToSet(ledger))
  BY <1>1 DEF FaucetInv, LedgerFacts, Awaiting, Settled, Chronicle
<1>3. /\ serving'.accepted = TRUE /\ serving'.grant = serving.grant
      /\ DOMAIN serving' = DOMAIN serving
  BY <1>1, <1>2
<1>4. ~Awaiting' /\ Current' = Current /\ Settled' = ledger
  BY <1>1, <1>3 DEF Awaiting, Current, Settled
<1>5. ToSet(ledger) = ToSet(Settled) \cup {Current} /\ Current \in ToSet(ledger)
  BY <1>2, FrontElements
<1>6. Current.at \in 0..now
  BY <1>5 DEF FaucetInv, LedgerFacts, Chronicle
<1>7. LedgerFacts'
  <2>1. Chronicle(ledger)' /\ Chronicle(OnDisk)'
    BY <1>1 DEF FaucetInv, LedgerFacts, Chronicle, OnDisk
  <2>2. ToSet(Settled') \cup ToSet(OnDisk') \subseteq sent' \cup thrown'
    BY <1>1, <1>4, <1>5 DEF FaucetInv, LedgerFacts, OnDisk
  <2>3. IsFiniteSet(sent')
    BY <1>1, FS_AddElement DEF FaucetInv, LedgerFacts
  <2>4. \A g \in sent' : g.at \in 0..now'
    BY <1>1, <1>6 DEF FaucetInv, LedgerFacts
  <2>5. now' \in Nat /\ Current' \in sent'
    BY <1>1, <1>4 DEF FaucetInv, LedgerFacts
  <2> QED
    BY <1>2, <1>3, <1>4, <2>1, <2>2, <2>3, <2>4, <2>5 DEF LedgerFacts
<1>8. \A g \in Paid' : g \in ToSet(Settled') \/ Old(g)'
  BY <1>1, <1>4, <1>5 DEF FaucetInv, Paid, Old
<1>9. LimitsOf(Paid')
  <2>1. CASE Current \in lost
    <3>1. Paid' = Paid
      BY <1>1, <2>1 DEF Paid
    <3> QED
      BY <3>1 DEF FaucetInv
  <2>2. CASE Current \notin lost
    <3>1. Paid' = Paid \cup {Current}
      BY <1>1, <2>2 DEF Paid
    <3>2. LimitsOf(Paid) /\ Admitted(Current)
      BY <1>1 DEF FaucetInv
    <3>3. \A g \in Paid : g.at \in Nat
      BY DEF FaucetInv, LedgerFacts, Paid
    <3>4. Current.at \in Nat
      BY <1>6
    <3> QED
      BY <3>1, <3>2, <3>3, <3>4, LimitsOfOneMore DEF Admitted
  <2> QED
    BY <2>1, <2>2
<1>10. LimitsOf(Paid)'
  BY <1>9 DEF LimitsOf
<1>11. WrittenDown'
  <2>1. Paid' \subseteq Paid \cup {Current} /\ serving' # None
    BY <1>1, <1>2, <1>3 DEF Paid, None
  <2>2. ASSUME ~unwritten', NEW g \in Paid' \cap ToSet(Settled')
        PROVE  g \in ToSet(disk') \/ g = Current
    BY <1>1, <1>4, <1>5, <2>1, <2>2 DEF FaucetInv, WrittenDown
  <2> QED
    BY <1>4, <2>1, <2>2 DEF WrittenDown
<1> QED
  BY <1>4, <1>7, <1>8, <1>10, <1>11 DEF FaucetInv

\* The rollback of a refused payment takes back the promise and nothing else,
\* an earlier grant of the same payment included.
LEMMA RollbackTakesLast ==
    ASSUME LedgerFacts, Awaiting
    PROVE  Rollback(ledger, Current.pay) = Front(ledger)
<1> DEFINE S == {i \in DOMAIN ledger : ledger[i].pay = Current.pay}
           n == Len(ledger)
<1>1. /\ ledger \in Seq(ToSet(ledger)) /\ ledger # <<>> /\ n \in Nat \ {0}
      /\ DOMAIN ledger = 1..n /\ Current = ledger[n]
  BY FrontElements DEF LedgerFacts, Chronicle, Last
<1>2. n \in S /\ S \in SUBSET Nat /\ S # {} /\ n \in Nat /\ \A i \in S : i <= n
  BY <1>1
<1>3. Max(S) \in S /\ \A i \in S : i <= Max(S)
  <2> HIDE DEF S, n
  <2> QED
    BY <1>2, MaxOf
<1>4. Max(S) = n
  <2>1. Max(S) \in S /\ n <= Max(S) /\ Max(S) <= n
    <3> HIDE DEF S
    <3> QED
      BY <1>2, <1>3
  <2>2. Max(S) \in Nat /\ n \in Nat
    <3> HIDE DEF S, n
    <3> QED
      BY <1>2, <1>3
  <2> HIDE DEF S, n
  <2> QED
    BY <2>1, <2>2
<1>5. Rollback(ledger, Current.pay) = SubSeq(ledger, 1, n - 1) \o SubSeq(ledger, n + 1, n)
  BY <1>4 DEF Rollback, RemoveAt
<1>6. SubSeq(ledger, n + 1, n) = <<>>
  BY <1>1
<1>7. SubSeq(ledger, 1, n - 1) \in Seq(ToSet(ledger))
  BY <1>1
<1> HIDE DEF n
<1> QED
  BY <1>5, <1>6, <1>7 DEF Front, n

LEMMA RefuseKeeps ==
    ASSUME FaucetInv, Refuse
    PROVE  FaucetInv'
<1>1. /\ Awaiting /\ ledger' = Front(ledger) /\ serving' = None
      /\ sent' = sent /\ disk' = disk /\ now' = now /\ lost' = lost /\ thrown' = thrown
      /\ unwritten' = unwritten
  BY RollbackTakesLast DEF Refuse, FaucetInv
<1>2. Settled = ledger' /\ Settled' = ledger' /\ ~Awaiting'
  BY <1>1 DEF Settled, Awaiting
<1>3. /\ Len(ledger) \in Nat \ {0} /\ DOMAIN ledger = 1..Len(ledger)
      /\ ledger' \in Seq(ToSet(ledger'))
      /\ ToSet(ledger') \subseteq ToSet(ledger) /\ DOMAIN ledger' = 1..(Len(ledger) - 1)
      /\ \A i \in 1..(Len(ledger) - 1) : ledger'[i] = ledger[i]
  BY <1>1, FrontElements DEF FaucetInv, LedgerFacts, Chronicle
<1>4. Chronicle(ledger)'
  <2>1. ASSUME NEW i \in DOMAIN ledger', NEW j \in DOMAIN ledger', i < j
        PROVE  ledger'[i].at <= ledger'[j].at
    <3>1. i \in DOMAIN ledger /\ j \in DOMAIN ledger
          /\ ledger'[i] = ledger[i] /\ ledger'[j] = ledger[j]
      BY <1>3
    <3> QED
      BY <2>1, <3>1 DEF FaucetInv, LedgerFacts, Chronicle
  <2>2. \A g \in ToSet(ledger') : g.at \in 0..now'
    BY <1>1, <1>3 DEF FaucetInv, LedgerFacts, Chronicle
  <2> QED
    BY <1>3, <2>1, <2>2 DEF Chronicle
<1>5. LedgerFacts'
  <2>1. Chronicle(OnDisk)'
    BY <1>1 DEF FaucetInv, LedgerFacts, Chronicle, OnDisk
  <2> QED
    BY <1>1, <1>2, <1>4, <2>1 DEF FaucetInv, LedgerFacts, OnDisk
<1>6. \A g \in Paid' : g \in ToSet(Settled') \/ Old(g)'
  BY <1>1, <1>2 DEF FaucetInv, Paid, Old
<1>7. LimitsOf(Paid)'
  BY <1>1 DEF FaucetInv, LimitsOf, Paid
<1>8. WrittenDown'
  BY <1>1, <1>2 DEF FaucetInv, WrittenDown, Paid
<1> QED
  BY <1>2, <1>5, <1>6, <1>7, <1>8 DEF FaucetInv

LEMMA ThrowKeeps ==
    ASSUME FaucetInv, BroadcastThrows
    PROVE  FaucetInv'
<1>1. /\ Awaiting /\ serving' = None /\ thrown' = thrown \cup {Current}
      /\ sent' = sent /\ disk' = disk /\ now' = now /\ lost' = lost /\ ledger' = ledger
      /\ unwritten' = unwritten
  BY DEF BroadcastThrows
<1>2. Settled = Front(ledger) /\ Settled' = ledger /\ ~Awaiting'
  BY <1>1 DEF Settled, Awaiting
<1>3. ToSet(ledger) = ToSet(Settled) \cup {Current}
  BY <1>1, <1>2, FrontElements DEF FaucetInv, LedgerFacts, Chronicle
<1>4. LedgerFacts'
  <2>1. Chronicle(ledger)' /\ Chronicle(OnDisk)'
    BY <1>1 DEF FaucetInv, LedgerFacts, Chronicle, OnDisk
  <2>2. ToSet(Settled') \cup ToSet(OnDisk') \subseteq sent' \cup thrown'
    BY <1>1, <1>2, <1>3 DEF FaucetInv, LedgerFacts, OnDisk
  <2> QED
    BY <1>1, <1>2, <2>1, <2>2 DEF FaucetInv, LedgerFacts
<1>5. \A g \in Paid' : g \in ToSet(Settled') \/ Old(g)'
  BY <1>1, <1>2, <1>3 DEF FaucetInv, Paid, Old
<1>6. LimitsOf(Paid)'
  BY <1>1 DEF FaucetInv, LimitsOf, Paid
<1>7. WrittenDown'
  BY <1>1, <1>2, <1>3 DEF FaucetInv, WrittenDown, Paid
<1> QED
  BY <1>2, <1>4, <1>5, <1>6, <1>7 DEF FaucetInv

\* Pruning forgets only what is old.
LEMMA FinishKeeps ==
    ASSUME FaucetInv, Finish
    PROVE  FaucetInv'
<1> DEFINE S == {g \in ToSet(ledger) : g.at >= Current.at - 2 * Day}
<1>1. /\ serving # None /\ serving.accepted /\ ledger' = Kept(ledger, S)
      /\ disk' \in {ledger', disk, Torn} /\ serving' = None
      /\ ~unwritten' => disk' = ledger'
      /\ sent' = sent /\ now' = now /\ lost' = lost /\ thrown' = thrown
  BY DEF Finish, Recent, Persist
<1>2. ~Awaiting /\ Settled = ledger /\ ~Awaiting' /\ Settled' = ledger'
  BY <1>1 DEF Settled, Awaiting
<1>3. ledger' \in Seq(ToSet(ledger)) /\ KeptSoFar(ledger', ledger, S, Len(ledger))
  BY <1>1, KeptElements DEF FaucetInv, LedgerFacts, Chronicle
<1>4. DOMAIN ledger = 1..Len(ledger)
  BY DEF FaucetInv, LedgerFacts, Chronicle
<1>5. ToSet(ledger') = S /\ ledger' \in Seq(ToSet(ledger'))
  <2>1. ToSet(ledger') = ToSet(ledger) \cap S
    BY <1>3, <1>4 DEF KeptSoFar, ToSet
  <2> QED
    BY <1>3, <2>1, OwnElements
<1>6. Chronicle(ledger)'
  <2>1. \A g \in ToSet(ledger') : g.at \in 0..now'
    BY <1>1, <1>5 DEF FaucetInv, LedgerFacts, Chronicle
  <2>2. ASSUME NEW i \in DOMAIN ledger', NEW j \in DOMAIN ledger', i < j
        PROVE  ledger'[i].at <= ledger'[j].at
    <3>1. PICK a, b \in 1..Len(ledger) : a < b /\ ledger'[i] = ledger[a] /\ ledger'[j] = ledger[b]
      BY <1>3, <2>2 DEF KeptSoFar
    <3> QED
      BY <1>4, <3>1 DEF FaucetInv, LedgerFacts, Chronicle
  <2> QED
    BY <1>5, <2>1, <2>2 DEF Chronicle
<1>7. Chronicle(OnDisk)' /\ ToSet(OnDisk)' \subseteq sent' \cup thrown'
  <2>1. ToSet(ledger') \subseteq sent' \cup thrown'
    BY <1>1, <1>2, <1>5 DEF FaucetInv, LedgerFacts
  <2>2. CASE disk' = Torn
    <3>1. OnDisk' = <<>>
      BY <2>2 DEF OnDisk
    <3>2. ToSet(<<>>) = {} /\ <<>> \in Seq({})
      BY DEF ToSet
    <3> QED
      BY <3>1, <3>2 DEF Chronicle
  <2>3. CASE disk' # Torn /\ disk' = ledger'
    <3>1. OnDisk' = ledger'
      BY <2>3 DEF OnDisk
    <3> QED
      BY <1>6, <2>1, <3>1 DEF Chronicle
  <2>4. CASE disk' # Torn /\ disk' = disk
    <3>1. OnDisk' = OnDisk
      BY <2>4 DEF OnDisk
    <3> QED
      BY <1>1, <3>1 DEF FaucetInv, LedgerFacts, Chronicle
  <2> QED
    BY <1>1, <2>2, <2>3, <2>4
<1>8. LedgerFacts'
  <2>1. ToSet(Settled') \subseteq sent' \cup thrown'
    BY <1>1, <1>2, <1>5 DEF FaucetInv, LedgerFacts
  <2> QED
    BY <1>1, <1>2, <1>6, <1>7, <2>1 DEF FaucetInv, LedgerFacts
<1>9. ASSUME NEW g \in Paid' PROVE g \in ToSet(Settled') \/ Old(g)'
  <2>1. /\ g \in Paid /\ g.at \in 0..now /\ now \in Nat /\ Day \in Nat
        /\ Current.at \in 0..now
    BY <1>1, <1>2, FaucetConstants DEF Paid, FaucetInv, LedgerFacts
  <2>2. g \in ToSet(ledger) \/ Old(g)
    BY <1>2, <2>1 DEF FaucetInv
  <2>3. CASE g.at < Current.at - 2 * Day
    BY <1>1, <2>1, <2>3 DEF Old
  <2>4. CASE ~(g.at < Current.at - 2 * Day)
    <3>1. g \in ToSet(ledger) => g \in S
      BY <2>1, <2>4
    <3>2. Old(g) => Old(g)'
      BY <1>1 DEF Old
    <3> QED
      BY <1>2, <1>5, <2>2, <3>1, <3>2
  <2> QED
    BY <2>3, <2>4
<1>10. LimitsOf(Paid)'
  BY <1>1 DEF FaucetInv, LimitsOf, Paid
<1>11. WrittenDown'
  BY <1>1, <1>2 DEF WrittenDown
<1> QED
  BY <1>2, <1>8, <1>9, <1>10, <1>11 DEF FaucetInv

\* A crash forgets what was not on disk, and that counts as lost.
LEMMA CrashKeeps ==
    ASSUME FaucetInv, Crash
    PROVE  FaucetInv'
<1>1. /\ ledger' = OnDisk /\ disk' = OnDisk /\ serving' = None
      /\ lost' = lost \cup (ToSet(ledger) \ ToSet(OnDisk))
      /\ sent' = sent /\ now' = now /\ thrown' = thrown
  BY DEF Crash
<1>2. ~Awaiting' /\ Settled' = OnDisk
  BY <1>1 DEF Settled, Awaiting
<1>3. ToSet(Settled) \subseteq ToSet(ledger)
  <2>1. CASE Awaiting
    BY <2>1, FrontElements DEF FaucetInv, LedgerFacts, Chronicle, Settled
  <2>2. CASE ~Awaiting
    BY <2>2 DEF Settled
  <2> QED
    BY <2>1, <2>2
<1>4. LedgerFacts'
  <2>1. Chronicle(ledger)'
    BY <1>1 DEF FaucetInv, LedgerFacts, Chronicle
  <2>2. ToSet(<<>>) = {} /\ <<>> \in Seq({}) /\ (OnDisk' = ledger' \/ OnDisk' = <<>>)
    BY <1>1 DEF OnDisk, ToSet
  <2>3. Chronicle(OnDisk)'
    <3>1. CASE OnDisk' = <<>>
      BY <2>2, <3>1 DEF Chronicle
    <3>2. CASE OnDisk' = ledger'
      BY <2>1, <3>2 DEF Chronicle
    <3> QED
      BY <2>2, <3>1, <3>2
  <2>4. ToSet(Settled') \cup ToSet(OnDisk') \subseteq sent' \cup thrown'
    BY <1>1, <1>2, <2>2 DEF FaucetInv, LedgerFacts
  <2> QED
    BY <1>1, <1>2, <2>1, <2>3, <2>4 DEF FaucetInv, LedgerFacts
<1>5. \A g \in Paid' : g \in ToSet(Settled') \/ Old(g)'
  BY <1>1, <1>2, <1>3 DEF FaucetInv, Paid, Old
<1>6. LimitsOf(Paid)'
  <2>1. IsFiniteSet(Paid) /\ Paid' \in SUBSET Paid
    <3>1. IsFiniteSet(sent) /\ Paid \in SUBSET sent
      BY DEF FaucetInv, LedgerFacts, Paid
    <3> QED
      BY <1>1, <3>1, FS_Subset DEF Paid
  <2>2. LimitsOf(Paid)
    BY DEF FaucetInv
  <2>3. LimitsOf(Paid')
    BY <2>1, <2>2, LimitsOfFewer
  <2> QED
    BY <2>3 DEF LimitsOf
<1>7. WrittenDown'
  BY <1>1, <1>2 DEF WrittenDown
<1> QED
  BY <1>2, <1>4, <1>5, <1>6, <1>7 DEF FaucetInv

LEMMA InitFaucetInv == Init => FaucetInv
<1> SUFFICES ASSUME Init PROVE FaucetInv
  OBVIOUS
<1>1. /\ now = 0 /\ ledger = <<>> /\ disk = <<>> /\ sent = {} /\ lost = {} /\ thrown = {}
      /\ serving = None
  BY DEF Init, InitFaucet
<1>2. ToSet(<<>>) = {} /\ <<>> \in Seq({})
  BY DEF ToSet
<1>3. ~Awaiting /\ Settled = <<>> /\ Paid = {}
  BY <1>1 DEF Awaiting, Settled, Paid
<1>4. LedgerFacts
  BY <1>1, <1>2, <1>3, FS_EmptySet DEF LedgerFacts, Chronicle, OnDisk
<1>5. LimitsOf(Paid) /\ WrittenDown
  BY <1>3 DEF LimitsOf, WrittenDown
<1> QED
  BY <1>3, <1>4, <1>5 DEF FaucetInv

LEMMA NextFaucetInv ==
    ASSUME FaucetInv, [Next]_vars
    PROVE  FaucetInv'
<1>1. now \in Nat
  BY DEF FaucetInv, LedgerFacts
<1>2. CASE NextFaucet
  <2>1. CASE \E a \in Address, c \in Client : Serve(a, c)
    BY <2>1, ServeKeeps
  <2>2. CASE \E pay \in relayed : MinePayment(pay)
    BY <1>1, <2>2, ClockMoves DEF MinePayment
  <2>3. CASE \E v \in TopUps : TopUp(v)
    BY <1>1, <2>3, ClockMoves DEF TopUp
  <2>4. CASE \E c \in coins : Ripen(c)
    BY <1>1, <2>4, ClockMoves DEF Ripen
  <2>5. CASE Tick
    BY <1>1, <2>5, ClockMoves DEF Tick
  <2> QED
    BY <1>2, <2>1, <2>2, <2>3, <2>4, <2>5, AcceptKeeps, RefuseKeeps, ThrowKeeps, FinishKeeps,
       CrashKeeps DEF NextFaucet
<1>3. CASE Tick
  BY <1>1, <1>3, ClockMoves DEF Tick
<1>4. CASE UNCHANGED faucetVars
  BY <1>1, <1>4, ClockMoves DEF faucetVars
<1> QED
  BY <1>2, <1>3, <1>4 DEF Next, vars

\* What the faucet's ledger and its payments satisfy for ever.
THEOREM FaucetInvariance == Spec => []FaucetInv
<1> QED
  BY InitFaucetInv, NextFaucetInv, PTL DEF Spec

\* Of the payments no crash has made the faucet forget, any two keep the
\* cooldowns, up to the two days the ledger remembers, and any day the cap; and
\* unless the last write failed, a crash can forget the one in service only.
THEOREM LimitsAlwaysKept == Spec => []LimitsKept
<1> QED
  BY LimitsFollow, FaucetInvariance, PTL

\* Every entry of the ledger is being served, or was paid, or threw.
THEOREM LedgerAlwaysTrue == Spec => []LedgerIsTrue
<1>1. ASSUME FaucetInv PROVE LedgerIsTrue
  <2> SUFFICES ASSUME NEW i \in DOMAIN ledger
               PROVE  ledger[i] \in sent \cup thrown \/ (serving # None /\ ledger[i] = Current)
    BY DEF LedgerIsTrue
  <2>1. ledger[i] \in ToSet(ledger)
    BY DEF ToSet
  <2>2. CASE Awaiting
    <3>1. ToSet(ledger) = ToSet(Settled) \cup {Current}
      BY <1>1, <2>2, FrontElements DEF FaucetInv, LedgerFacts, Chronicle, Settled
    <3> QED
      BY <1>1, <2>1, <2>2, <3>1 DEF FaucetInv, LedgerFacts, Awaiting
  <2>3. CASE ~Awaiting
    BY <1>1, <2>1, <2>3 DEF FaucetInv, LedgerFacts, Settled
  <2> QED
    BY <2>2, <2>3
<1> QED
  BY <1>1, FaucetInvariance, PTL

----------------------------------------------------------------------------
(***************************************************************************)
(* The cache.  Fresh(v, since): tip v has been true at some time from      *)
(* since on.  An entry is that fresh since its question was asked, a call  *)
(* under way since it was made, and the answer given since the time it     *)
(* promises.                                                               *)
(***************************************************************************)
Fresh(v, since) == v \in 0..Tip /\ (v = Tip \/ ceased[v + 1] >= since)

FreshEntry(e) ==
    /\ e.query \in Query /\ Ttl[e.query] > 0 /\ e.until \in Int
    /\ e.until - Ttl[e.query] <= now
    /\ e.value[1] = e.query /\ Fresh(e.value[2], e.until - Ttl[e.query])

FreshCall(call) ==
    /\ call.asked <= now
    /\ call.tip # NoValue => Fresh(call.tip, call.asked)

QueryInv ==
    /\ now \in Nat
    /\ ceased \in Seq(Nat) /\ \A i \in DOMAIN ceased : ceased[i] <= now
    /\ cache \in Seq(ToSet(cache)) /\ \A e \in ToSet(cache) : FreshEntry(e)
    /\ calls \in SUBSET [query : Query, asked : Nat, tip : Int]
    /\ \A call \in calls : FreshCall(call)
    /\ answer # NoAnswer => /\ answer.of = answer.query
                            /\ answer.since \in Int /\ answer.since <= now
                            /\ Fresh(answer.tip, answer.since)

\* What was fresh stays so: time passes, and a tip that is replaced was true
\* until then.
LEMMA FreshStays ==
    ASSUME QueryInv, now' \in Nat, now <= now',
           ceased' = ceased \/ ceased' = Append(ceased, now),
           NEW v, NEW since \in Int, since <= now, Fresh(v, since)
    PROVE  Fresh(v, since)'
<1>1. v \in 0..Len(ceased) /\ Len(ceased) \in Nat /\ DOMAIN ceased = 1..Len(ceased)
      /\ (v = Len(ceased) \/ ceased[v + 1] >= since)
  BY DEF Fresh, Tip, QueryInv
<1>2. CASE ceased' = ceased
  BY <1>2 DEF Fresh, Tip
<1>3. CASE ceased' = Append(ceased, now)
  <2>1. /\ Len(ceased') = Len(ceased) + 1 /\ ceased'[Len(ceased) + 1] = now
        /\ \A i \in 1..Len(ceased) : ceased'[i] = ceased[i]
    BY <1>3 DEF QueryInv
  <2> DEFINE n == Len(ceased)
  <2>2. n \in Nat /\ v \in 0..n /\ Len(ceased') = n + 1
    BY <1>1, <2>1
  <2>3. ceased'[v + 1] >= since
    <3>1. CASE v = n
      BY <2>1, <3>1 DEF QueryInv
    <3>2. CASE v # n
      <4>1. v + 1 \in 1..n
        <5> HIDE DEF n
        <5> QED
          BY <2>2, <3>2
      <4>2. ceased'[v + 1] = ceased[v + 1]
        BY <2>1, <4>1
      <4> QED
        BY <1>1, <3>2, <4>2
    <3> QED
      BY <3>1, <3>2
  <2>4. v \in 0..Len(ceased')
    <3> HIDE DEF n
    <3> QED
      BY <2>2
  <2> QED
    BY <2>3, <2>4 DEF Fresh, Tip
<1> QED
  BY <1>2, <1>3

LEMMA FreshEntryStays ==
    ASSUME QueryInv, now' \in Nat, now <= now',
           ceased' = ceased \/ ceased' = Append(ceased, now),
           NEW e, FreshEntry(e)
    PROVE  FreshEntry(e)'
<1>1. e.until - Ttl[e.query] \in Int /\ e.until - Ttl[e.query] <= now /\ now \in Nat
  BY GatewayConstants DEF FreshEntry, QueryInv
<1>2. Fresh(e.value[2], e.until - Ttl[e.query])'
  BY <1>1, FreshStays DEF FreshEntry
<1>3. e.until - Ttl[e.query] <= now'
  BY <1>1
<1> QED
  BY <1>2, <1>3 DEF FreshEntry

LEMMA FreshCallStays ==
    ASSUME QueryInv, now' \in Nat, now <= now',
           ceased' = ceased \/ ceased' = Append(ceased, now),
           NEW call \in [query : Query, asked : Nat, tip : Int], FreshCall(call)
    PROVE  FreshCall(call)'
<1>1. call.asked \in Int /\ call.asked <= now /\ call.asked <= now'
  BY DEF FreshCall, QueryInv
<1>2. call.tip # NoValue => Fresh(call.tip, call.asked)'
  BY <1>1, FreshStays DEF FreshCall
<1> QED
  BY <1>1, <1>2 DEF FreshCall, NoValue

\* A step that adds at most fresh entries, calls and answers keeps the
\* invariant.
LEMMA QueryStep ==
    ASSUME QueryInv, now' \in Nat, now <= now',
           ceased' = ceased \/ ceased' = Append(ceased, now),
           cache' \in Seq(ToSet(cache')),
           \A e \in ToSet(cache') : e \in ToSet(cache) \/ FreshEntry(e),
           calls' \in SUBSET [query : Query, asked : Nat, tip : Int],
           \A call \in calls' : call \in calls \/ FreshCall(call),
           \/ UNCHANGED answer
           \/ /\ answer'.of = answer'.query
              /\ answer'.since \in Int /\ answer'.since <= now
              /\ Fresh(answer'.tip, answer'.since)
    PROVE  QueryInv'
<1>1. ceased' \in Seq(Nat) /\ \A i \in DOMAIN ceased' : ceased'[i] <= now'
  <2>1. ceased \in Seq(Nat) /\ now \in Nat /\ \A i \in DOMAIN ceased : ceased[i] <= now
    BY DEF QueryInv
  <2>2. \A i \in DOMAIN ceased : ceased[i] <= now'
    BY <2>1
  <2>3. CASE ceased' = ceased
    BY <2>1, <2>2, <2>3
  <2>4. CASE ceased' = Append(ceased, now)
    <3>1. /\ ceased' \in Seq(Nat) /\ DOMAIN ceased = 1..Len(ceased)
          /\ DOMAIN ceased' = 1..(Len(ceased) + 1) /\ Len(ceased) \in Nat
          /\ ceased'[Len(ceased) + 1] = now
          /\ \A i \in 1..Len(ceased) : ceased'[i] = ceased[i]
      BY <2>1, <2>4
    <3> QED
      BY <2>2, <3>1
  <2> QED
    BY <2>3, <2>4
<1>2. \A e \in ToSet(cache') : FreshEntry(e)'
  BY FreshEntryStays DEF QueryInv
<1>3. \A call \in calls' : FreshCall(call)'
  BY FreshCallStays DEF QueryInv
<1>4. (answer # NoAnswer => /\ answer.of = answer.query
                            /\ answer.since \in Int /\ answer.since <= now
                            /\ Fresh(answer.tip, answer.since))'
  <2> SUFFICES ASSUME answer' # NoAnswer
               PROVE  /\ answer'.of = answer'.query
                      /\ answer'.since \in Int /\ answer'.since <= now'
                      /\ Fresh(answer.tip, answer.since)'
    BY DEF NoAnswer
  <2>1. /\ answer'.of = answer'.query
        /\ answer'.since \in Int /\ answer'.since <= now
        /\ Fresh(answer'.tip, answer'.since)
    BY DEF QueryInv
  <2>2. answer'.since <= now'
    BY <2>1 DEF QueryInv
  <2>3. Fresh(answer.tip, answer.since)'
    <3>1. \A v : \A since \in Int : since <= now /\ Fresh(v, since) => Fresh(v, since)'
      BY FreshStays
    <3> QED
      BY <2>1, <3>1 DEF Fresh, Tip
  <2> QED
    BY <2>1, <2>2, <2>3
<1> QED
  BY <1>1, <1>2, <1>3, <1>4 DEF QueryInv

\* Storing an entry drops at most the oldest and adds nothing else.
LEMMA StoredElements ==
    ASSUME cache \in Seq(ToSet(cache)), NEW q, NEW value, NEW until
    PROVE  LET r == Stored(q, value, until)
               entry == [query |-> q, value |-> value, until |-> until]
           IN  r \in Seq(ToSet(r)) /\ ToSet(r) \subseteq ToSet(cache) \cup {entry}
<1> DEFINE r == Stored(q, value, until)
           entry == [query |-> q, value |-> value, until |-> until]
           room == IF Len(cache) >= CacheMax THEN Tail(cache) ELSE cache
           at == {i \in DOMAIN room : room[i].query = q}
           G == ToSet(cache) \cup {entry}
<1>1. room \in Seq(ToSet(cache))
  <2>1. CASE Len(cache) >= CacheMax
    <3>1. cache # <<>>
      BY <2>1, GatewayConstants
    <3>2. Tail(cache) \in Seq(ToSet(cache))
      BY <3>1
    <3> QED
      BY <2>1, <3>2
  <2>2. CASE ~(Len(cache) >= CacheMax)
    BY <2>2
  <2> QED
    BY <2>1, <2>2
<1>2. r = IF at = {} THEN Append(room, entry) ELSE [room EXCEPT ![Max(at)] = entry]
  BY DEF Stored
<1> HIDE DEF r, entry, room, at
<1>3. room \in Seq(G) /\ entry \in G
  <2>1. \A i \in DOMAIN room : room[i] \in G
    BY <1>1
  <2> HIDE DEF G
  <2>2. room = [i \in 1..Len(room) |-> room[i]] /\ Len(room) \in Nat /\ DOMAIN room = 1..Len(room)
    BY <1>1
  <2>3. [i \in 1..Len(room) |-> room[i]] \in Seq(G)
    BY <2>1, <2>2
  <2>4. room \in Seq(G)
    BY <2>2, <2>3
  <2>5. entry \in G
    BY DEF G
  <2> QED
    BY <2>4, <2>5
<1>4. r \in Seq(G)
  <2> HIDE DEF G
  <2>1. CASE at = {}
    BY <1>2, <1>3, <2>1
  <2>2. CASE at # {}
    <3> DEFINE k == Max(at)
    <3>1. r = [room EXCEPT ![k] = entry]
      BY <1>2, <2>2
    <3> HIDE DEF k
    <3>2. Len(room) \in Nat /\ DOMAIN room = 1..Len(room) /\ \A i \in 1..Len(room) : room[i] \in G
      BY <1>3
    <3>3. r = [i \in 1..Len(room) |-> IF i = k THEN entry ELSE room[i]]
      BY <3>1, <3>2
    <3>4. r \in [1..Len(room) -> G]
      BY <1>3, <3>2, <3>3
    <3> QED
      BY <3>2, <3>4
  <2> QED
    BY <2>1, <2>2
<1>5. r \in Seq(ToSet(r)) /\ ToSet(r) \subseteq G
  <2> HIDE DEF G
  <2> QED
    BY <1>4, OwnElements
<1> QED
  BY <1>5 DEF r, entry

LEMMA LookupElements ==
    ASSUME QueryInv, NEW q
    PROVE  Lookup(q) \in Seq(ToSet(Lookup(q))) /\ ToSet(Lookup(q)) \subseteq ToSet(cache)
<1>1. Lookup(q) \in Seq(ToSet(cache))
  BY KeptElements DEF Lookup, QueryInv
<1> QED
  BY <1>1, OwnElements

LEMMA HitKeeps ==
    ASSUME QueryInv, NEW q \in Query, Hit(q), now' = now
    PROVE  QueryInv'
<1> DEFINE i == CHOOSE i \in Live(q) : TRUE
           e == cache[i]
           since == now - Ttl[q] + 1
<1>1. i \in Live(q)
  BY DEF Hit
<1> HIDE DEF i
<1>2. e.query = q /\ e.until > now /\ e \in ToSet(cache)
  BY <1>1 DEF Live, Entry, ToSet
<1>3. FreshEntry(e) /\ now \in Nat
  BY <1>2 DEF QueryInv
<1>4. /\ answer' = [query |-> q, of |-> e.value[1], tip |-> e.value[2], since |-> since]
      /\ UNCHANGED <<cache, calls, ceased>>
  BY DEF Hit, Answered, i
<1> HIDE DEF e
<1>5. Ttl[q] \in Nat /\ Ttl[q] > 0 /\ e.until \in Int
  BY <1>2, <1>3, GatewayConstants DEF FreshEntry
<1>6. since \in Int /\ since <= now /\ since <= e.until - Ttl[q]
  BY <1>2, <1>3, <1>5
<1>7. e.value[1] = q /\ Fresh(e.value[2], e.until - Ttl[q])
  BY <1>2, <1>3 DEF FreshEntry
<1> HIDE DEF since
<1>8. Fresh(e.value[2], since)
  <2>1. CASE e.value[2] = Tip
    BY <1>7, <2>1 DEF Fresh
  <2>2. CASE e.value[2] # Tip
    <3>1. e.value[2] \in 0..Tip /\ Tip = Len(ceased) /\ Len(ceased) \in Nat
          /\ DOMAIN ceased = 1..Len(ceased)
      BY <1>7 DEF Fresh, Tip, QueryInv
    <3>2. e.value[2] + 1 \in DOMAIN ceased
      BY <2>2, <3>1
    <3>3. ceased[e.value[2] + 1] \in Nat
      BY <3>2 DEF QueryInv
    <3>4. ceased[e.value[2] + 1] >= e.until - Ttl[q]
      BY <1>7, <2>2 DEF Fresh
    <3>5. ceased[e.value[2] + 1] >= since
      BY <1>5, <1>6, <3>3, <3>4
    <3> QED
      BY <1>7, <3>5 DEF Fresh
  <2> QED
    BY <2>1, <2>2
<1>9. answer'.of = answer'.query /\ answer'.since = since /\ answer'.tip = e.value[2]
  BY <1>4, <1>7
<1> QED
  BY <1>3, <1>4, <1>6, <1>8, <1>9, QueryStep DEF QueryInv

LEMMA MissKeeps ==
    ASSUME QueryInv, NEW q \in Query, NEW client, NEW a, Miss(client, a, q), now' = now
    PROVE  QueryInv'
<1> DEFINE call == [query |-> q, asked |-> now, tip |-> NoValue]
<1>1. cache' = Lookup(q) /\ calls' = calls \cup {call} /\ UNCHANGED <<ceased, answer>>
  BY DEF Miss
<1>2. now \in Nat
  BY DEF QueryInv
<1>3. call \in [query : Query, asked : Nat, tip : Int] /\ FreshCall(call)
  BY <1>2 DEF FreshCall, NoValue
<1> HIDE DEF call
<1>4. calls' \in SUBSET [query : Query, asked : Nat, tip : Int]
  BY <1>1, <1>3 DEF QueryInv
<1>5. cache' \in Seq(ToSet(cache')) /\ ToSet(cache') \subseteq ToSet(cache)
  BY <1>1, LookupElements
<1> QED
  BY <1>1, <1>2, <1>3, <1>4, <1>5, QueryStep

LEMMA ThrottleKeeps ==
    ASSUME QueryInv, NEW q \in Query, NEW a, Throttle(a, q), now' = now
    PROVE  QueryInv'
<1>1. cache' = Lookup(q) /\ UNCHANGED <<calls, ceased, answer>>
  BY DEF Throttle
<1>2. cache' \in Seq(ToSet(cache')) /\ ToSet(cache') \subseteq ToSet(cache)
  BY <1>1, LookupElements
<1> QED
  BY <1>1, <1>2, QueryStep DEF QueryInv

LEMMA ComputeKeeps ==
    ASSUME QueryInv, NEW call \in calls, Compute(call), now' = now
    PROVE  QueryInv'
<1> DEFINE new == [call EXCEPT !.tip = Tip]
<1>1. calls' = (calls \ {call}) \cup {new} /\ UNCHANGED <<cache, ceased, answer>>
  BY DEF Compute
<1>2. call \in [query : Query, asked : Nat, tip : Int] /\ FreshCall(call)
      /\ Tip \in Nat /\ now \in Nat
  BY DEF QueryInv, Tip
<1>3. new \in [query : Query, asked : Nat, tip : Int]
      /\ new.asked = call.asked /\ new.tip = Tip
  BY <1>2
<1> HIDE DEF new
<1>4. FreshCall(new)
  BY <1>2, <1>3 DEF FreshCall, Fresh
<1>5. calls' \in SUBSET [query : Query, asked : Nat, tip : Int]
  BY <1>1, <1>3 DEF QueryInv
<1> QED
  BY <1>1, <1>2, <1>4, <1>5, QueryStep DEF QueryInv

LEMMA ArriveKeeps ==
    ASSUME QueryInv, NEW call \in calls, Arrive(call), now' = now
    PROVE  QueryInv'
<1> DEFINE q == call.query
           until == call.asked + Ttl[q]
           value == <<q, call.tip>>
           entry == [query |-> q, value |-> value, until |-> until]
<1>1. /\ calls' = calls \ {call}
      /\ cache' = IF Ttl[q] = 0 THEN cache ELSE Stored(q, value, until)
      /\ answer' = [query |-> q, of |-> value[1], tip |-> value[2], since |-> call.asked]
      /\ ceased' = ceased /\ call.tip # NoValue
  BY DEF Arrive, Answered
<1>2. /\ q \in Query /\ call.asked \in Nat /\ call.asked <= now /\ now \in Nat
      /\ Fresh(call.tip, call.asked) /\ Ttl[q] \in Nat
  BY <1>1, GatewayConstants DEF QueryInv, FreshCall
<1>3. until \in Int /\ until - Ttl[q] = call.asked
  BY <1>2
<1>4. value[1] = q /\ value[2] = call.tip
  OBVIOUS
<1> HIDE DEF until, value, q
<1>5. entry.query = q /\ entry.value = value /\ entry.until = until
  OBVIOUS
<1> HIDE DEF entry
<1>6. Ttl[q] # 0 => FreshEntry(entry)
  BY <1>2, <1>3, <1>4, <1>5 DEF FreshEntry
<1>7. cache' \in Seq(ToSet(cache')) /\ \A e \in ToSet(cache') : e \in ToSet(cache) \/ FreshEntry(e)
  <2>1. cache \in Seq(ToSet(cache))
    BY DEF QueryInv
  <2>2. CASE Ttl[q] = 0
    BY <1>1, <2>1, <2>2
  <2>3. CASE Ttl[q] # 0
    <3>1. cache' \in Seq(ToSet(cache')) /\ ToSet(cache') \subseteq ToSet(cache) \cup {entry}
      BY <1>1, <2>1, <2>3, StoredElements DEF entry
    <3> QED
      BY <1>6, <2>3, <3>1
  <2> QED
    BY <2>2, <2>3
<1>8. answer'.of = answer'.query /\ answer'.since = call.asked /\ answer'.tip = call.tip
  BY <1>1, <1>4
<1>9. calls' \in SUBSET [query : Query, asked : Nat, tip : Int] /\ calls' \subseteq calls
  BY <1>1 DEF QueryInv
<1> QED
  BY <1>1, <1>2, <1>7, <1>8, <1>9, QueryStep

LEMMA InitQueryInv == Init => QueryInv
<1> SUFFICES ASSUME Init PROVE QueryInv
  OBVIOUS
<1>1. now = 0 /\ cache = <<>> /\ calls = {} /\ ceased = <<>> /\ answer = NoAnswer
  BY DEF Init, InitFaucet
<1>2. <<>> \in Seq(Nat) /\ ToSet(<<>>) = {} /\ <<>> \in Seq({}) /\ DOMAIN <<>> = {}
  BY DEF ToSet
<1> QED
  BY <1>1, <1>2 DEF QueryInv

\* The clock is all that the faucet changes of what the gateway reads.
LEMMA ClockNext ==
    ASSUME now \in Nat, [Next]_vars
    PROVE  /\ now' \in Nat /\ now <= now'
           /\ UNCHANGED queryVars \/ (now' = now /\ NextQuery)
<1>1. CASE NextFaucet /\ UNCHANGED queryVars
  <2>1. now' = now \/ now' = now + 1
    BY <1>1 DEF NextFaucet, Serve, Accept, Refuse, BroadcastThrows, Finish, Crash,
                MinePayment, TopUp, Ripen, Tick
  <2> QED
    BY <1>1, <2>1
<1>2. CASE Tick /\ UNCHANGED queryVars
  BY <1>2 DEF Tick
<1>3. CASE NextQuery /\ UNCHANGED faucetVars
  BY <1>3 DEF faucetVars
<1>4. CASE UNCHANGED vars
  BY <1>4 DEF vars, faucetVars
<1> QED
  BY <1>1, <1>2, <1>3, <1>4 DEF Next

LEMMA NextQueryInv ==
    ASSUME QueryInv, [Next]_vars
    PROVE  QueryInv'
<1>1. /\ now' \in Nat /\ now <= now'
      /\ UNCHANGED queryVars \/ (now' = now /\ NextQuery)
  BY ClockNext DEF QueryInv
<1>2. CASE UNCHANGED <<cache, calls, ceased, answer>>
  BY <1>1, <1>2, QueryStep DEF QueryInv
<1>3. CASE now' = now /\ NextQuery
  <2>1. CASE \E c \in Asker : \E a \in ClientFor(c) : PostFaucet(c, a)
    BY <1>2, <2>1 DEF PostFaucet
  <2>2. CASE \E c \in Asker : \E a \in ClientFor(c) : \E q \in Query :
                Miss(c, a, q) \/ Throttle(a, q)
    BY <1>3, <2>2, MissKeeps, ThrottleKeeps
  <2>3. CASE \E q \in Query : Hit(q)
    BY <1>3, <2>3, HitKeeps
  <2>4. CASE \E call \in calls : Compute(call) \/ Arrive(call)
    BY <1>3, <2>4, ComputeKeeps, ArriveKeeps
  <2>5. CASE \E call \in calls : CallFails(call)
    <3>1. calls' \subseteq calls /\ UNCHANGED <<cache, ceased, answer>>
      BY <2>5 DEF CallFails
    <3>2. calls' \in SUBSET [query : Query, asked : Nat, tip : Int]
      BY <3>1 DEF QueryInv
    <3> QED
      BY <1>1, <3>1, <3>2, QueryStep DEF QueryInv
  <2>6. CASE NewTip
    BY <1>1, <2>6, QueryStep DEF NewTip, QueryInv
  <2> QED
    BY <1>3, <2>1, <2>2, <2>3, <2>4, <2>5, <2>6 DEF NextQuery
<1> QED
  BY <1>1, <1>2, <1>3 DEF queryVars

THEOREM QueryInvariance == Spec => []QueryInv
<1> QED
  BY InitQueryInv, NextQueryInv, PTL DEF Spec

\* No answer is for another question or older than its ttl allows, whatever
\* order the node's answers come in and however the cache evicts.
THEOREM AnswersAlwaysFresh == Spec => []AnswersFresh
<1>1. QueryInv => AnswersFresh
  BY DEF QueryInv, AnswersFresh, Fresh
<1> QED
  BY <1>1, QueryInvariance, PTL

----------------------------------------------------------------------------
(***************************************************************************)
(* Sums over an interval.                                                  *)
(***************************************************************************)
Terms(f, s, n) == \A k \in 1..n : f[s + k - 1] \in Nat

Agree(f, g, s, n) == \A k \in 1..n : f[s + k - 1] = g[s + k - 1]

\* The interval summed over, and the terms there.
LEMMA Span ==
    ASSUME NEW f, NEW g, NEW s \in Nat, NEW n \in Nat
    PROVE  /\ IsFiniteSet(s..(s + n - 1))
           /\ Terms(f, s, n) => NatOn(f, s..(s + n - 1))
           /\ Agree(f, g, s, n) => AgreeOn(f, g, s..(s + n - 1))
<1>1. s + n - 1 \in Int
  OBVIOUS
<1>2. IsFiniteSet(s..(s + n - 1))
  BY <1>1, FS_Interval
<1>3. ASSUME NEW x \in s..(s + n - 1) PROVE \E k \in 1..n : x = s + k - 1
  <2>1. x - s + 1 \in 1..n /\ x = s + (x - s + 1) - 1
    OBVIOUS
  <2> QED
    BY <2>1
<1> QED
  BY <1>2, <1>3 DEF Terms, Agree, NatOn, AgreeOn

LEMMA SumOfNone ==
    ASSUME NEW f, NEW s \in Nat
    PROVE  SumOf(f, s, 0) = 0
<1>1. s..(s + 0 - 1) = {}
  OBVIOUS
<1> QED
  BY <1>1, SumNone DEF SumOf

LEMMA SumOfMore ==
    ASSUME NEW f, NEW s \in Nat, NEW n \in Nat, Terms(f, s, n + 1)
    PROVE  /\ SumOf(f, s, n) \in Nat
           /\ SumOf(f, s, n + 1) = SumOf(f, s, n) + f[s + n]
<1> DEFINE S == s..(s + n - 1)
<1>1. /\ s..(s + (n + 1) - 1) = S \cup {s + n}
      /\ s + n \notin S /\ n + 1 \in Nat
  OBVIOUS
<1>2. IsFiniteSet(S) /\ NatOn(f, S \cup {s + n}) /\ NatOn(f, S)
  BY <1>1, Span DEF NatOn
<1> HIDE DEF S
<1>3. SumFunctionOnSet(f, S \cup {s + n}) = SumFunctionOnSet(f, S) + f[s + n]
  BY <1>1, <1>2, SumMore
<1>4. SumFunctionOnSet(f, S) \in Nat
  BY <1>2, SumNat
<1> QED
  BY <1>1, <1>3, <1>4 DEF SumOf, S

LEMMA SumOfNat ==
    ASSUME NEW f, NEW s \in Nat, NEW n \in Nat, Terms(f, s, n)
    PROVE  SumOf(f, s, n) \in Nat
BY Span, SumNat DEF SumOf

LEMMA SumOfAgree ==
    ASSUME NEW f, NEW g, NEW s \in Nat, NEW n \in Nat,
           Terms(f, s, n), Agree(f, g, s, n)
    PROVE  SumOf(f, s, n) = SumOf(g, s, n)
BY Span, SumAgree DEF SumOf

----------------------------------------------------------------------------
(***************************************************************************)
(* The rate limiter.  Over any span that ends now, what a client has taken *)
(* and what it has left come to no more than a full bucket and the refill. *)
(***************************************************************************)
Allowance(s, t) == BucketSize + (t - s) * RefillPerTick

BucketsSound ==
    /\ now \in 0..MaxTime
    /\ spent \in [Asker -> [0..MaxTime -> Nat]]
    /\ \A c \in Asker : \A t \in 0..MaxTime : t > now => spent[c][t] = 0
    /\ bucket \in [Client \cup ToSet(Proxies) -> [tokens : Nat, at : Nat]]
    /\ \A a \in Client : bucket[a].tokens <= BucketSize /\ bucket[a].at <= now

WithinAllowance ==
    \A c \in Asker : \A s \in 0..now :
        SumOf(spent[c], s, now - s + 1) + Tokens(c) <= Allowance(s, now)

BudgetInv == BucketsSound /\ WithinAllowance /\ BudgetKept

\* A sequence over a set is one over a larger set.
LEMMA SeqWider ==
    ASSUME NEW A, NEW s \in Seq(A), NEW B, A \subseteq B
    PROVE  s \in Seq(B)
<1>1. Len(s) \in Nat /\ s = [i \in 1..Len(s) |-> s[i]] /\ \A i \in 1..Len(s) : s[i] \in B
  OBVIOUS
<1>2. [i \in 1..Len(s) |-> s[i]] \in Seq(B)
  BY <1>1
<1> QED
  BY <1>1, <1>2

\* Whatever a client writes in its headers, it is served from its own bucket.
LEMMA OwnBucket ==
    ASSUME NEW c \in Client, NEW a \in ClientFor(c)
    PROVE  a = c
<1>1. PICK claim \in Claims : a = ClientAddress(Remote(c), Header(c, claim))
  BY DEF ClientFor
<1>2. claim \in Seq(Client) /\ Proxies \in Seq(ToSet(Proxies))
  BY GatewayConstants
<1>3. CASE Proxies = <<>>
  <2>1. Len(Proxies) = 0
    BY <1>3
  <2> QED
    BY <1>1, <1>3, <2>1 DEF ClientAddress, Remote
<1>4. CASE Proxies # <<>>
  <2> DEFINE G == Client \cup ToSet(Proxies)
             n == Len(claim)
             p == Len(Proxies)
             left == Append(claim, c)
             right == Front(Proxies)
             header == left \o right
  <2>1. n \in Nat /\ p \in Nat /\ p # 0
    BY <1>2, <1>4
  <2>2. left \in Seq(Client) /\ Len(left) = n + 1 /\ left[n + 1] = c
    BY <1>2
  <2>3. right \in Seq(ToSet(Proxies)) /\ Len(right) = p - 1
    <3>1. /\ DOMAIN Proxies = 1..p /\ right = SubSeq(Proxies, 1, p - 1)
          /\ \A i \in 1..p : Proxies[i] \in ToSet(Proxies)
      BY <1>2 DEF Front, ToSet
    <3> DEFINE T == ToSet(Proxies)
    <3>2. Proxies \in Seq(T)
      BY <1>2
    <3> HIDE DEF T
    <3>3. right \in Seq(T) /\ Len(right) = p - 1
      BY <2>1, <3>1, <3>2
    <3> QED
      BY <3>3 DEF T
  <2>4. left \in Seq(G) /\ right \in Seq(G)
    <3> HIDE DEF left, right
    <3>1. Client \subseteq G /\ ToSet(Proxies) \subseteq G
      OBVIOUS
    <3> HIDE DEF G
    <3> QED
      BY <2>2, <2>3, <3>1, SeqWider
  <2>5. Len(header) = n + p /\ header[n + 1] = c
    <3> HIDE DEF left, right, G, n, p
    <3> QED
      BY <2>1, <2>2, <2>3, <2>4
  <2>6. header # <<>>
    <3>1. Len(header) # 0
      <4> HIDE DEF header, n, p
      <4> QED
        BY <2>1, <2>5
    <3> HIDE DEF header
    <3> QED
      BY <3>1
  <2>7. Header(c, claim) = header
    BY <1>4 DEF Header
  <2>8. Max({1, Len(header) - p + 1}) = n + 1
    <3> DEFINE S == {1, Len(header) - p + 1}
    <3> HIDE DEF header, n, p
    <3>1. S = {1, n + 1}
      BY <2>1, <2>5
    <3>2. S \in SUBSET Nat /\ S # {} /\ n + 1 \in Nat /\ \A m \in S : m <= n + 1
      <4>1. n + 1 \in Nat /\ 1 \in Nat /\ 1 <= n + 1 /\ n + 1 <= n + 1
        BY <2>1
      <4> QED
        BY <3>1, <4>1
    <3> HIDE DEF S
    <3>3. Max(S) \in S /\ \A m \in S : m <= Max(S)
      BY <3>2, MaxOf
    <3>4. Max(S) = n + 1
      BY <2>1, <3>1, <3>3
    <3> QED
      BY <3>4 DEF S
  <2> HIDE DEF header
  <2> QED
    BY <1>1, <2>1, <2>5, <2>6, <2>7, <2>8 DEF ClientAddress
<1> QED
  BY <1>3, <1>4

\* The tokens in a bucket, between 0 and its size, and after a tick.
LEMMA TokensFacts ==
    ASSUME BucketsSound, NEW a \in Client
    PROVE  LET x == bucket[a].tokens + (now - bucket[a].at) * RefillPerTick
           IN  /\ x \in Nat /\ Tokens(a) \in 0..BucketSize
               /\ Tokens(a) <= x /\ (Tokens(a) = x \/ Tokens(a) = BucketSize)
               /\ bucket[a].tokens \in Nat /\ bucket[a].at \in Nat /\ bucket[a].at <= now
               /\ now \in Nat /\ BucketSize \in Nat /\ RefillPerTick \in Nat
<1> DEFINE x == bucket[a].tokens + (now - bucket[a].at) * RefillPerTick
<1>1. /\ bucket[a].tokens \in Nat /\ bucket[a].at \in Nat /\ bucket[a].at <= now
      /\ now \in Nat /\ BucketSize \in Nat /\ RefillPerTick \in Nat
  BY GatewayConstants DEF BucketsSound
<1>2. x \in Nat
  <2>1. now - bucket[a].at \in Nat
    BY <1>1
  <2>2. \A d \in Nat : d * RefillPerTick \in Nat
    BY <1>1
  <2>3. (now - bucket[a].at) * RefillPerTick \in Nat
    BY <2>1, <2>2
  <2> QED
    BY <1>1, <2>3
<1>3. Tokens(a) = Min({BucketSize, x})
  BY DEF Tokens
<1> HIDE DEF x
<1>4. \E m \in {BucketSize, x} : \A y \in {BucketSize, x} : m =< y
  BY <1>1, <1>2
<1>5. Tokens(a) \in {BucketSize, x} /\ Tokens(a) <= x /\ Tokens(a) <= BucketSize
  BY <1>3, <1>4 DEF Min
<1>6. Tokens(a) \in 0..BucketSize
  BY <1>1, <1>2, <1>5
<1> QED
  BY <1>1, <1>2, <1>5, <1>6 DEF x

\* What was spent up to the horizon are numbers, and so are their sums.
LEMMA SpentTerms ==
    ASSUME BucketsSound, NEW c \in Asker, NEW s \in Nat, NEW n \in Nat, s + n <= MaxTime + 1
    PROVE  Terms(spent[c], s, n)
<1>1. spent[c] \in [0..MaxTime -> Nat]
  BY DEF BucketsSound
<1>2. \A k \in 1..n : s + k - 1 \in 0..MaxTime
  BY FaucetConstants
<1> QED
  BY <1>1, <1>2 DEF Terms

\* Nothing has left the bucket or the clock: the budget stands.
LEMMA BudgetStays ==
    ASSUME BudgetInv, UNCHANGED <<bucket, spent, now>>
    PROVE  BudgetInv'
<1>1. bucket' = bucket /\ spent' = spent /\ now' = now
  OBVIOUS
<1>2. BucketsSound'
  BY <1>1 DEF BudgetInv, BucketsSound
<1>3. WithinAllowance'
  BY <1>1 DEF BudgetInv, WithinAllowance, Tokens, Allowance
<1>4. BudgetKept'
  BY <1>1 DEF BudgetInv, BudgetKept
<1> QED
  BY <1>2, <1>3, <1>4 DEF BudgetInv

\* The last span of BudgetKept follows from what the bucket still holds.
SpansKept ==
    \A c \in Asker : \A s \in 0..now : SumOf(spent[c], s, now - s + 1) <= Allowance(s, now)

LEMMA SpanEndsNow == BucketsSound /\ WithinAllowance => SpansKept
<1> SUFFICES ASSUME BucketsSound, WithinAllowance, NEW c \in Asker, NEW s \in 0..now
             PROVE  SumOf(spent[c], s, now - s + 1) <= Allowance(s, now)
  BY DEF SpansKept
<1>1. c \in Client /\ now \in Nat /\ now - s + 1 \in Nat /\ s \in Nat
      /\ MaxTime \in Nat /\ now <= MaxTime
  BY GatewayConstants, FaucetConstants DEF BucketsSound
<1>2. Tokens(c) \in Nat /\ RefillPerTick \in Nat /\ BucketSize \in Nat
  BY <1>1, TokensFacts
<1>3. SumOf(spent[c], s, now - s + 1) \in Nat
  <2>1. Terms(spent[c], s, now - s + 1)
    BY <1>1, SpentTerms
  <2> DEFINE n == now - s + 1
  <2>2. n \in Nat
    BY <1>1
  <2> HIDE DEF n
  <2> QED
    BY <1>1, <2>1, <2>2, SumOfNat DEF n
<1>4. Allowance(s, now) \in Int
  <2>1. \A d \in Int : d * RefillPerTick \in Int
    BY <1>2
  <2> QED
    BY <1>1, <1>2, <2>1 DEF Allowance
<1>5. SumOf(spent[c], s, now - s + 1) + Tokens(c) <= Allowance(s, now)
  BY DEF WithinAllowance
<1> QED
  BY <1>2, <1>3, <1>4, <1>5

\* A tick adds a refill to what is allowed, and at most that to a bucket.
LEMMA BudgetTick ==
    ASSUME BudgetInv, now' = now + 1, now < MaxTime, UNCHANGED <<bucket, spent>>
    PROVE  BudgetInv'
<1>1. BucketsSound /\ WithinAllowance /\ BudgetKept /\ now \in Nat /\ MaxTime \in Nat
      /\ RefillPerTick \in Nat /\ BucketSize \in Nat
  BY GatewayConstants, FaucetConstants DEF BudgetInv, BucketsSound
<1>2. BucketsSound'
  <2>1. now' \in 0..MaxTime
    BY <1>1
  <2>2. \A t \in 0..MaxTime : t > now' => t > now
    BY <1>1
  <2>3. \A a \in Client : bucket[a].at <= now'
    BY <1>1, TokensFacts
  <2> QED
    BY <1>1, <2>1, <2>2, <2>3 DEF BucketsSound
<1>3. \A a \in Client : Tokens(a)' \in 0..BucketSize /\ Tokens(a)' <= Tokens(a) + RefillPerTick
  <2> SUFFICES ASSUME NEW a \in Client
               PROVE  Tokens(a)' \in 0..BucketSize /\ Tokens(a)' <= Tokens(a) + RefillPerTick
    OBVIOUS
  <2> DEFINE x == bucket[a].tokens + (now - bucket[a].at) * RefillPerTick
             y == bucket[a].tokens + ((now + 1) - bucket[a].at) * RefillPerTick
  <2>1. /\ x \in Nat /\ Tokens(a) \in 0..BucketSize
        /\ Tokens(a) <= x /\ (Tokens(a) = x \/ Tokens(a) = BucketSize)
        /\ bucket[a].tokens \in Nat /\ bucket[a].at \in Nat
    BY <1>1, TokensFacts
  <2>2. Tokens(a)' = Min({BucketSize, y})
    <3> DEFINE z == bucket'[a].tokens + (now' - bucket'[a].at) * RefillPerTick
    <3>1. Tokens(a)' = Min({BucketSize, z})
      BY DEF Tokens
    <3>2. bucket' = bucket /\ now' = now + 1
      OBVIOUS
    <3>3. z = y
      BY <3>2
    <3> HIDE DEF y, z
    <3> QED
      BY <3>1, <3>3
  <2>3. y = x + RefillPerTick
    <3> DEFINE d == now - bucket[a].at
    <3>1. d \in Int /\ (now + 1) - bucket[a].at = d + 1
      <4> DEFINE b == bucket[a].at
      <4>1. b \in Nat /\ now \in Nat
        BY <1>1, <2>1
      <4> HIDE DEF b, x, y
      <4>2. now - b \in Int /\ (now + 1) - b = (now - b) + 1
        BY <4>1
      <4> QED
        BY <4>2 DEF b
    <3>2. (d + 1) * RefillPerTick = d * RefillPerTick + RefillPerTick
      <4> HIDE DEF d
      <4> QED
        BY <1>1, <3>1
    <3>3. d * RefillPerTick \in Int
      <4> HIDE DEF d
      <4> QED
        BY <1>1, <3>1
    <3>4. x = bucket[a].tokens + d * RefillPerTick
          /\ y = bucket[a].tokens + (d + 1) * RefillPerTick
      BY <3>1
    <3> HIDE DEF x, y, d
    <3> QED
      BY <1>1, <2>1, <3>2, <3>3, <3>4
  <2> HIDE DEF x, y
  <2>4. Tokens(a)' \in {BucketSize, y} /\ Tokens(a)' <= y /\ Tokens(a)' <= BucketSize
    <3>1. \E m \in {BucketSize, y} : \A z \in {BucketSize, y} : m =< z
      BY <1>1, <2>1, <2>3
    <3> QED
      BY <2>2, <3>1 DEF Min
  <2> QED
    BY <1>1, <2>1, <2>3, <2>4
<1>4. ASSUME NEW c \in Asker, NEW s \in 0..now'
      PROVE  SumOf(spent[c], s, now' - s + 1) + Tokens(c)' <= Allowance(s, now')
  <2>1. c \in Client /\ s \in Nat /\ s <= now + 1
    BY <1>1, GatewayConstants
  <2>2. Tokens(c)' \in 0..BucketSize /\ Tokens(c)' <= Tokens(c) + RefillPerTick
        /\ Tokens(c) \in 0..BucketSize
    BY <1>1, <1>3, <2>1, TokensFacts
  <2> DEFINE n == now' - s
             d == now - s
  <2>3. n \in Nat /\ n = d + 1 /\ d \in Int /\ s + n = now + 1
        /\ now' - s + 1 = n + 1 /\ now - s + 1 = n /\ now' - s = n
    BY <1>1, <2>1
  <2>4. Terms(spent[c], s, n + 1)
    <3> HIDE DEF n
    <3> QED
      BY <1>1, <2>1, <2>3, SpentTerms
  <2>5. spent[c][s + n] = 0
    <3>1. s + n \in 0..MaxTime /\ s + n > now
      BY <1>1, <2>3
    <3> QED
      BY <1>1, <3>1 DEF BucketsSound
  <2>6. SumOf(spent[c], s, n) \in Nat /\ SumOf(spent[c], s, n + 1) = SumOf(spent[c], s, n)
    <3> HIDE DEF n
    <3> QED
      BY <2>1, <2>3, <2>4, <2>5, SumOfMore
  <2>7. Allowance(s, now') = BucketSize + n * RefillPerTick
    BY DEF Allowance
  <2>8. n * RefillPerTick = d * RefillPerTick + RefillPerTick /\ d * RefillPerTick \in Int
    <3> HIDE DEF n, d
    <3> QED
      BY <1>1, <2>3
  <2>9. CASE s \in 0..now
    <3>1. SumOf(spent[c], s, n) + Tokens(c) <= BucketSize + d * RefillPerTick
      BY <1>1, <2>3, <2>9 DEF WithinAllowance, Allowance
    <3> DEFINE sum == SumOf(spent[c], s, n)
               dR == d * RefillPerTick
    <3>2. sum \in Nat /\ dR \in Int /\ sum + Tokens(c) <= BucketSize + dR
      BY <2>6, <2>8, <3>1
    <3> HIDE DEF sum, dR
    <3>3. sum + Tokens(c)' <= BucketSize + (dR + RefillPerTick)
      BY <1>1, <2>2, <3>2
    <3>4. SumOf(spent[c], s, now' - s + 1) = sum
          /\ Allowance(s, now') = BucketSize + (dR + RefillPerTick)
      BY <2>3, <2>6, <2>7, <2>8 DEF sum, dR
    <3> QED
      BY <3>3, <3>4
  <2>10. CASE s \notin 0..now
    <3>1. s = now + 1 /\ n = 0
      BY <1>1, <2>1, <2>10
    <3>2. SumOf(spent[c], s, n) = 0
      BY <2>1, <3>1, SumOfNone
    <3>3. n * RefillPerTick = 0
      BY <1>1, <3>1
    <3> HIDE DEF n, d
    <3> QED
      BY <1>1, <2>2, <2>3, <2>6, <2>7, <3>2, <3>3
  <2> QED
    BY <2>9, <2>10
<1>5. WithinAllowance'
  BY <1>4 DEF WithinAllowance, Allowance
<1>6. BudgetKept'
  <2> SUFFICES ASSUME NEW c \in Asker, NEW s \in 0..now', NEW t \in s..now'
               PROVE  SumOf(spent[c], s, t - s + 1) <= Allowance(s, t)
    BY <1>1 DEF BudgetKept, Allowance
  <2>1. CASE t = now'
    <3>1. SpansKept'
      BY <1>2, <1>5, SpanEndsNow, PTL
    <3> QED
      BY <1>1, <2>1, <3>1 DEF SpansKept, Allowance
  <2>2. CASE t # now'
    <3>1. s \in 0..now /\ t \in s..now
      BY <1>1, <2>2
    <3> QED
      BY <1>1, <3>1 DEF BudgetKept, Allowance
  <2> QED
    BY <2>1, <2>2
<1> QED
  BY <1>2, <1>5, <1>6 DEF BudgetInv

\* What a bucket holds just after it was brought up to date.
LEMMA TokensNow ==
    ASSUME BucketsSound, NEW a \in Client, NEW n \in 0..BucketSize, now' = now,
           bucket' = [bucket EXCEPT ![a] = [tokens |-> n, at |-> now]]
    PROVE  /\ Tokens(a)' = n
           /\ \A o \in Client : o # a => Tokens(o)' = Tokens(o)
           /\ bucket' \in [Client \cup ToSet(Proxies) -> [tokens : Nat, at : Nat]]
           /\ \A o \in Client : bucket'[o].tokens <= BucketSize /\ bucket'[o].at <= now
<1>1. /\ bucket \in [Client \cup ToSet(Proxies) -> [tokens : Nat, at : Nat]]
      /\ now \in Nat /\ BucketSize \in Nat /\ RefillPerTick \in Nat /\ n \in Nat /\ n <= BucketSize
  BY GatewayConstants DEF BucketsSound
<1>2. bucket'[a] = [tokens |-> n, at |-> now]
  BY <1>1
<1>3. \A o \in Client : o # a => bucket'[o] = bucket[o]
  BY <1>1
<1>4. Tokens(a)' = n
  <2> DEFINE z == bucket'[a].tokens + (now' - bucket'[a].at) * RefillPerTick
  <2>1. z = n
    <3>1. z = n + (now - now) * RefillPerTick
      BY <1>2
    <3>2. (now - now) * RefillPerTick = 0
      <4>1. now - now = 0
        BY <1>1
      <4> QED
        BY <1>1, <4>1
    <3> HIDE DEF z
    <3> QED
      BY <1>1, <3>1, <3>2
  <2>2. Tokens(a)' = Min({BucketSize, z})
    BY DEF Tokens
  <2> HIDE DEF z
  <2>3. Min({BucketSize, n}) = n
    <3>1. \A m \in {BucketSize, n} : (\A y \in {BucketSize, n} : m =< y) <=> m = n
      BY <1>1
    <3> QED
      BY <3>1 DEF Min
  <2> QED
    BY <2>1, <2>2, <2>3
<1>5. \A o \in Client : o # a => Tokens(o)' = Tokens(o)
  BY <1>3 DEF Tokens
<1>6. bucket' \in [Client \cup ToSet(Proxies) -> [tokens : Nat, at : Nat]]
  <2>1. [tokens |-> n, at |-> now] \in [tokens : Nat, at : Nat]
    BY <1>1
  <2> QED
    BY <1>1, <2>1
<1>7. \A o \in Client : bucket'[o].tokens <= BucketSize /\ bucket'[o].at <= now
  BY <1>1, <1>2, <1>3 DEF BucketsSound
<1> QED
  BY <1>4, <1>5, <1>6, <1>7

\* A refusal brings the bucket up to date and takes nothing.
LEMMA BudgetRefused ==
    ASSUME BudgetInv, NEW a \in Client, NEW cost \in Nat, Refused(a, cost), now' = now
    PROVE  BudgetInv'
<1> DEFINE n == Tokens(a)
<1>1. BucketsSound /\ WithinAllowance /\ BudgetKept
  BY DEF BudgetInv
<1>2. n \in 0..BucketSize
  BY <1>1, TokensFacts
<1>3. bucket' = [bucket EXCEPT ![a] = [tokens |-> n, at |-> now]] /\ spent' = spent
  BY DEF Refused
<1> HIDE DEF n
<1>4. /\ Tokens(a)' = n /\ \A o \in Client : o # a => Tokens(o)' = Tokens(o)
      /\ bucket' \in [Client \cup ToSet(Proxies) -> [tokens : Nat, at : Nat]]
      /\ \A o \in Client : bucket'[o].tokens <= BucketSize /\ bucket'[o].at <= now
  BY <1>1, <1>2, <1>3, TokensNow
<1>5. \A c \in Asker : Tokens(c)' = Tokens(c)
  BY <1>4, GatewayConstants DEF n
<1>6. BucketsSound'
  BY <1>1, <1>3, <1>4 DEF BucketsSound
<1>7. WithinAllowance'
  BY <1>1, <1>3, <1>5 DEF WithinAllowance, Allowance
<1>8. BudgetKept'
  BY <1>1, <1>3 DEF BudgetKept
<1> QED
  BY <1>6, <1>7, <1>8 DEF BudgetInv

\* What is taken leaves the bucket of the client who spends it.
LEMMA BudgetTaken ==
    ASSUME BudgetInv, NEW a \in Asker, NEW cost \in Nat, Take(a, a, cost), now' = now
    PROVE  BudgetInv'
<1> DEFINE n == Tokens(a) - cost
           f == spent[a]
           g == spent'[a]
<1>1. /\ BucketsSound /\ WithinAllowance /\ BudgetKept /\ a \in Client
      /\ now \in Nat /\ MaxTime \in Nat /\ now <= MaxTime
  BY GatewayConstants, FaucetConstants DEF BudgetInv, BucketsSound
<1>2. Tokens(a) \in Nat /\ Tokens(a) <= BucketSize /\ BucketSize \in Nat /\ Tokens(a) >= cost
  BY <1>1, TokensFacts DEF Take
<1>3. n \in 0..BucketSize
  BY <1>2
<1>4. bucket' = [bucket EXCEPT ![a] = [tokens |-> n, at |-> now]]
      /\ spent' = [spent EXCEPT ![a][now] = @ + cost]
  BY DEF Take
<1>5. /\ Tokens(a)' = n /\ \A o \in Client : o # a => Tokens(o)' = Tokens(o)
      /\ bucket' \in [Client \cup ToSet(Proxies) -> [tokens : Nat, at : Nat]]
      /\ \A o \in Client : bucket'[o].tokens <= BucketSize /\ bucket'[o].at <= now
  <2> HIDE DEF n
  <2> QED
    BY <1>1, <1>3, <1>4, TokensNow
<1>6. /\ spent \in [Asker -> [0..MaxTime -> Nat]]
      /\ f \in [0..MaxTime -> Nat] /\ now \in 0..MaxTime
  BY <1>1 DEF BucketsSound
<1>7. /\ g = [f EXCEPT ![now] = @ + cost]
      /\ \A c \in Asker : c # a => spent'[c] = spent[c]
      /\ spent' \in [Asker -> [0..MaxTime -> Nat]]
  <2>1. spent' = [spent EXCEPT ![a] = [f EXCEPT ![now] = f[now] + cost]]
    BY <1>4
  <2>2. [f EXCEPT ![now] = f[now] + cost] \in [0..MaxTime -> Nat]
    <3>1. f[now] + cost \in Nat
      BY <1>6
    <3> HIDE DEF f
    <3> QED
      BY <1>6, <3>1
  <2> QED
    BY <1>6, <2>1, <2>2
<1>8. /\ g[now] = f[now] + cost /\ \A t \in 0..MaxTime : t # now => g[t] = f[t]
      /\ \A t \in 0..MaxTime : f[t] \in Nat /\ g[t] \in Nat
  <2> HIDE DEF f, g
  <2> QED
    BY <1>6, <1>7
<1> HIDE DEF f, g
<1>9. BucketsSound'
  <2>1. \A c \in Asker : \A t \in 0..MaxTime : t > now => spent'[c][t] = 0
    <3> SUFFICES ASSUME NEW c \in Asker, NEW t \in 0..MaxTime, t > now PROVE spent'[c][t] = 0
      OBVIOUS
    <3>1. spent[c][t] = 0 /\ t # now
      BY <1>1 DEF BucketsSound
    <3> QED
      BY <1>7, <1>8, <3>1 DEF f, g
  <2>2. spent' \in [Asker -> [0..MaxTime -> Nat]] /\ now' = now /\ now \in 0..MaxTime
    BY <1>6, <1>7
  <2> HIDE DEF n
  <2> QED
    BY <1>5, <2>1, <2>2 DEF BucketsSound
<1>10. ASSUME NEW s \in Nat, NEW m \in Nat, s + m <= now
       PROVE  SumOf(g, s, m) = SumOf(f, s, m)
  <2>1. \A k \in 1..m : s + k - 1 \in 0..MaxTime /\ s + k - 1 # now
    BY <1>1, <1>10
  <2>2. Terms(f, s, m) /\ Agree(f, g, s, m)
    BY <1>8, <2>1 DEF Terms, Agree
  <2> QED
    BY <1>10, <2>2, SumOfAgree
<1>11. ASSUME NEW s \in 0..now
       PROVE  /\ SumOf(f, s, now - s + 1) \in Nat
              /\ SumOf(g, s, now - s + 1) = SumOf(f, s, now - s + 1) + cost
  <2> DEFINE m == now - s
  <2>1. s \in Nat /\ m \in Nat /\ s + m = now /\ now - s + 1 = m + 1
    BY <1>1
  <2> HIDE DEF m
  <2>2. SumOf(g, s, m) = SumOf(f, s, m)
    BY <1>1, <1>10, <2>1
  <2>3. \A k \in 1..(m + 1) : s + k - 1 \in 0..MaxTime
    BY <1>1, <2>1
  <2>4. Terms(f, s, m + 1) /\ Terms(g, s, m + 1)
    BY <1>8, <2>3 DEF Terms
  <2>5. /\ SumOf(f, s, m) \in Nat /\ SumOf(f, s, m + 1) = SumOf(f, s, m) + f[now]
        /\ SumOf(g, s, m + 1) = SumOf(g, s, m) + g[now]
    BY <2>1, <2>4, SumOfMore
  <2>6. f[now] \in Nat
    BY <1>6, <1>8
  <2> QED
    BY <1>8, <2>1, <2>2, <2>5, <2>6
<1>12. WithinAllowance'
  <2> SUFFICES ASSUME NEW c \in Asker, NEW s \in 0..now
               PROVE  SumOf(spent'[c], s, now - s + 1) + Tokens(c)' <= Allowance(s, now)
    BY DEF WithinAllowance, Allowance
  <2>1. SumOf(spent[c], s, now - s + 1) + Tokens(c) <= Allowance(s, now)
    BY <1>1 DEF WithinAllowance
  <2>2. CASE c = a
    <3> DEFINE sum == SumOf(f, s, now - s + 1)
    <3>1. sum \in Nat /\ SumOf(g, s, now - s + 1) = sum + cost
      BY <1>11
    <3>2. sum + Tokens(a) <= Allowance(s, now)
      BY <2>1, <2>2 DEF f
    <3> HIDE DEF sum
    <3>3. (sum + cost) + (Tokens(a) - cost) = sum + Tokens(a)
      BY <1>2, <3>1
    <3> QED
      BY <1>5, <2>2, <3>1, <3>2, <3>3 DEF g
  <2>3. CASE c # a
    BY <1>5, <1>7, <2>1, <2>3, GatewayConstants
  <2> QED
    BY <2>2, <2>3
<1>13. BudgetKept'
  <2> SUFFICES ASSUME NEW c \in Asker, NEW s \in 0..now, NEW t \in s..now
               PROVE  SumOf(spent'[c], s, t - s + 1) <= Allowance(s, t)
    BY DEF BudgetKept, Allowance
  <2>1. SumOf(spent[c], s, t - s + 1) <= Allowance(s, t)
    BY <1>1 DEF BudgetKept, Allowance
  <2>2. CASE t = now
    <3>1. SpansKept'
      BY <1>9, <1>12, SpanEndsNow, PTL
    <3> QED
      BY <2>2, <3>1 DEF SpansKept, Allowance
  <2>3. CASE t # now /\ c = a
    <3> DEFINE m == t - s + 1
    <3>1. s \in Nat /\ m \in Nat /\ s + m <= now
      BY <1>1, <2>3
    <3> HIDE DEF m
    <3>2. SumOf(g, s, m) = SumOf(f, s, m)
      BY <1>10, <3>1
    <3> QED
      BY <2>1, <2>3, <3>2 DEF m, f, g
  <2>4. CASE c # a
    BY <1>7, <2>1, <2>4
  <2> QED
    BY <2>2, <2>3, <2>4
<1> QED
  BY <1>9, <1>12, <1>13 DEF BudgetInv

LEMMA InitBudgetInv == Init => BudgetInv
<1> SUFFICES ASSUME Init PROVE BudgetInv
  OBVIOUS
<1>1. /\ now = 0 /\ spent = [c \in Asker |-> [t \in 0..MaxTime |-> 0]]
      /\ bucket = [c \in Client \cup ToSet(Proxies) |-> [tokens |-> BucketSize, at |-> 0]]
  BY DEF Init, InitFaucet
<1>2. BucketsSound
  <2>1. [t \in 0..MaxTime |-> 0] \in [0..MaxTime -> Nat] /\ 0 \in 0..MaxTime
        /\ [tokens |-> BucketSize, at |-> 0] \in [tokens : Nat, at : Nat]
    BY FaucetConstants, GatewayConstants
  <2> QED
    BY <1>1, <2>1, GatewayConstants DEF BucketsSound
<1>3. ASSUME NEW c \in Asker, NEW s \in 0..now
      PROVE  SumOf(spent[c], s, now - s + 1) + Tokens(c) <= Allowance(s, now)
  <2>1. s = 0 /\ now - s + 1 = 0 + 1 /\ c \in Client /\ now - s = 0
    <3>1. now = 0
      BY <1>1
    <3>2. s = 0
      BY <3>1
    <3> QED
      BY <3>1, <3>2, GatewayConstants
  <2>2. spent[c][0] = 0 /\ Terms(spent[c], 0, 0 + 1)
    <3>1. 0 \in 0..MaxTime
      BY FaucetConstants
    <3> QED
      BY <1>1, <3>1 DEF Terms
  <2>3. SumOf(spent[c], 0, 0 + 1) = SumOf(spent[c], 0, 0) + spent[c][0 + 0]
    BY <2>2, SumOfMore
  <2>4. SumOf(spent[c], 0, 0) = 0
    BY SumOfNone
  <2>5. Tokens(c) \in 0..BucketSize /\ BucketSize \in Nat /\ RefillPerTick \in Nat
    BY <1>2, <2>1, TokensFacts
  <2>6. Allowance(s, now) = BucketSize
    BY <2>1, <2>5 DEF Allowance
  <2>7. SumOf(spent[c], s, now - s + 1) = 0
    BY <2>1, <2>2, <2>3, <2>4
  <2> QED
    BY <2>5, <2>6, <2>7
<1>4. WithinAllowance
  BY <1>3 DEF WithinAllowance
<1>5. BudgetKept
  <2>1. SpansKept
    BY <1>2, <1>4, SpanEndsNow
  <2>2. \A s \in 0..now : \A t \in s..now : t = now
    BY <1>1
  <2> QED
    BY <2>1, <2>2 DEF BudgetKept, SpansKept, Allowance
<1> QED
  BY <1>2, <1>4, <1>5 DEF BudgetInv

LEMMA NextBudgetInv ==
    ASSUME BudgetInv, [Next]_vars
    PROVE  BudgetInv'
<1>1. CASE NextFaucet /\ UNCHANGED queryVars
  <2>1. CASE Tick
    BY <1>1, <2>1, BudgetTick DEF Tick, queryVars
  <2>2. CASE ~Tick
    <3>1. now' = now
      BY <1>1, <2>2 DEF NextFaucet, Serve, Accept, Refuse, BroadcastThrows, Finish, Crash,
                        MinePayment, TopUp, Ripen
    <3> QED
      BY <1>1, <3>1, BudgetStays DEF queryVars
  <2> QED
    BY <2>1, <2>2
<1>2. CASE Tick /\ UNCHANGED queryVars
  BY <1>2, BudgetTick DEF Tick, queryVars
<1>3. CASE NextQuery /\ UNCHANGED faucetVars
  <2>1. now' = now
    BY <1>3 DEF faucetVars
  <2>2. CASE \E c \in Asker : \E a \in ClientFor(c) :
               PostFaucet(c, a) \/ \E q \in Query : Miss(c, a, q) \/ Throttle(a, q)
    <3>1. PICK c \in Asker : \E a \in ClientFor(c) :
                PostFaucet(c, a) \/ \E q \in Query : Miss(c, a, q) \/ Throttle(a, q)
      BY <2>2
    <3>2. c \in Client
      BY GatewayConstants
    <3>3. PostFaucet(c, c) \/ \E q \in Query : Miss(c, c, q) \/ Throttle(c, q)
      BY <3>1, <3>2, OwnBucket
    <3>4. \E cost \in Nat : Take(c, c, cost) \/ Refused(c, cost)
      BY <3>3, GatewayConstants DEF PostFaucet, Miss, Throttle
    <3> QED
      BY <2>1, <3>2, <3>4, BudgetTaken, BudgetRefused
  <2>3. CASE \/ \E q \in Query : Hit(q)
             \/ \E call \in calls : Compute(call) \/ Arrive(call) \/ CallFails(call)
             \/ NewTip
    BY <2>1, <2>3, BudgetStays DEF Hit, Compute, Arrive, CallFails, NewTip
  <2> QED
    BY <1>3, <2>2, <2>3 DEF NextQuery
<1>4. CASE UNCHANGED vars
  BY <1>4, BudgetStays DEF vars, faucetVars, queryVars
<1> QED
  BY <1>1, <1>2, <1>3, <1>4 DEF Next

THEOREM BudgetInvariance == Spec => []BudgetInv
<1> QED
  BY InitBudgetInv, NextBudgetInv, PTL DEF Spec

\* Over no span does a client take more than a full bucket and its refill,
\* through any number of proxies and whatever it writes in its headers.
THEOREM BudgetAlwaysKept == Spec => []BudgetKept
<1>1. BudgetInv => BudgetKept
  BY DEF BudgetInv
<1> QED
  BY <1>1, BudgetInvariance, PTL
=============================================================================

------------------------------ MODULE Induction ------------------------------
(***************************************************************************)
(* Least elements and induction, stated about sets, and what follows for   *)
(* filters and sums.  The library states induction about an operator P(_), *)
(* which the provers at hand cannot instantiate; here the property is the  *)
(* set of values that have it, and a user of a lemma shows that the set is *)
(* closed.                                                                 *)
(***************************************************************************)
EXTENDS Lists, FiniteSets, Functions, Folds, FiniteSetTheorems, WellFoundedInduction, TLAPS

\* A set of natural numbers that is not empty has a least element.
LEMMA NatLeast ==
    ASSUME NEW S \in SUBSET Nat, S # {}
    PROVE  \E n \in S : \A m \in S : n <= m
<1> DEFINE R == OpToRel(<, Nat)
<1>1. \E n \in S : \A m \in S : ~(<<m, n>> \in R)
  <2>1. IsWellFoundedOn(R, Nat)
    BY NatLessThanWellFounded
  <2> HIDE DEF R
  <2> QED
    BY <2>1, WFMin
<1>2. PICK n \in S : \A m \in S : ~(<<m, n>> \in R)
  BY <1>1
<1>3. ASSUME NEW m \in S PROVE n <= m
  <2>1. ~(<<m, n>> \in R)
    BY <1>2
  <2>2. m \in Nat /\ n \in Nat
    OBVIOUS
  <2>3. ~(m < n)
    BY <2>1, <2>2 DEF OpToRel
  <2> QED
    BY <2>2, <2>3
<1> QED
  BY <1>3

\* ... and a greatest one if the set is bounded.
LEMMA NatGreatest ==
    ASSUME NEW S \in SUBSET Nat, S # {}, NEW max \in Nat, \A n \in S : n <= max
    PROVE  \E n \in S : \A m \in S : m <= n
<1> DEFINE D == {max - n : n \in S}
<1>1. D \in SUBSET Nat /\ D # {}
  <2>1. \A n \in S : max - n \in Nat
    OBVIOUS
  <2> QED
    BY <2>1
<1>2. PICK d \in D : \A e \in D : d <= e
  <2> HIDE DEF D
  <2> QED
    BY <1>1, NatLeast
<1>3. PICK n \in S : d = max - n
  BY <1>2
<1>4. \A m \in S : m <= n
  <2> SUFFICES ASSUME NEW m \in S PROVE m <= n
    OBVIOUS
  <2>1. max - n <= max - m
    BY <1>2, <1>3
  <2> QED
    BY <2>1
<1> QED
  BY <1>4

\* Induction: a set with 0 in it that is closed under successor has every
\* natural number.
LEMMA NatClosure ==
    ASSUME NEW S, 0 \in S, \A n \in Nat : n \in S => n + 1 \in S
    PROVE  Nat \subseteq S
<1> SUFFICES ASSUME NEW n \in Nat, n \notin S PROVE FALSE
  OBVIOUS
<1> DEFINE T == {m \in Nat : m \notin S}
<1>1. PICK k \in T : \A m \in T : k <= m
  BY NatLeast
<1>2. k # 0 /\ k - 1 \in Nat /\ k - 1 \notin T
  BY <1>1
<1>3. k - 1 \in S /\ k - 1 + 1 = k
  BY <1>1, <1>2
<1> QED
  BY <1>1, <1>2, <1>3

\* Among finite sets there is one with no other below it.
LEMMA FiniteLeast ==
    ASSUME NEW B, NEW C \in SUBSET FiniteSubsetsOf(B), C # {}
    PROVE  \E S \in C : \A T \in C : ~(T \subseteq S /\ T # S)
<1>1. IsWellFoundedOn(StrictSubsetOrdering(B), FiniteSubsetsOf(B))
  BY FS_StrictSubsetOrderingWellFounded
<1>2. \E S \in C : \A T \in C : ~(<<T, S>> \in StrictSubsetOrdering(B))
  BY <1>1, WFMin
<1> QED
  BY <1>2 DEF StrictSubsetOrdering, FiniteSubsetsOf

\* Induction on finite sets: a family with {} in it that is closed under
\* adding an element has every finite set.
LEMMA FiniteClosure ==
    ASSUME NEW B, IsFiniteSet(B), NEW F, {} \in F,
           \A S \in SUBSET B : \A x \in B \ S : S \in F => S \cup {x} \in F
    PROVE  B \in F
<1> DEFINE C == {S \in SUBSET B : S \notin F}
<1> SUFFICES ASSUME B \notin F PROVE FALSE
  OBVIOUS
<1>1. C \in SUBSET FiniteSubsetsOf(B) /\ C # {}
  <2>1. \A S \in SUBSET B : IsFiniteSet(S)
    BY FS_Subset
  <2> QED
    BY <2>1 DEF FiniteSubsetsOf
<1>2. PICK S \in C : \A T \in C : ~(T \subseteq S /\ T # S)
  <2> HIDE DEF C
  <2> QED
    BY <1>1, FiniteLeast
<1>3. PICK x \in S : TRUE
  BY <1>2
<1>4. S \ {x} \in F
  BY <1>2, <1>3
<1>5. (S \ {x}) \cup {x} = S
  BY <1>3
<1> QED
  BY <1>2, <1>3, <1>4, <1>5

\* Induction up to a bound.
LEMMA BoundedClosure ==
    ASSUME NEW N \in Nat, NEW f, NEW P, f[0] \in P,
           \A n \in 1..N : f[n - 1] \in P => f[n] \in P
    PROVE  \A n \in 0..N : f[n] \in P
<1> DEFINE S == {n \in Nat : n <= N => f[n] \in P}
<1>1. 0 \in S
  OBVIOUS
<1>2. ASSUME NEW n \in Nat, n \in S PROVE n + 1 \in S
  <2>1. CASE n + 1 <= N
    <3>1. n + 1 \in 1..N /\ n <= N /\ (n + 1) - 1 = n
      BY <2>1
    <3>2. f[n] \in P
      BY <1>2, <3>1
    <3>3. f[n + 1] \in P
      BY <3>1, <3>2
    <3> QED
      BY <3>3
  <2>2. CASE ~(n + 1 <= N)
    BY <2>2
  <2> QED
    BY <2>1, <2>2
<1>3. Nat \subseteq S
  <2> HIDE DEF S
  <2> QED
    BY <1>1, <1>2, NatClosure
<1> QED
  BY <1>3

\* Induction up to a bound, with a set for each index.
LEMMA IndexedClosure ==
    ASSUME NEW N \in Nat, NEW f, NEW R, f[0] \in R[0],
           \A n \in 1..N : f[n - 1] \in R[n - 1] => f[n] \in R[n]
    PROVE  \A n \in 0..N : f[n] \in R[n]
<1> DEFINE S == {n \in Nat : n <= N => f[n] \in R[n]}
<1>1. 0 \in S
  OBVIOUS
<1>2. ASSUME NEW n \in Nat, n \in S PROVE n + 1 \in S
  <2>1. CASE n + 1 <= N
    <3>1. n + 1 \in 1..N /\ n <= N /\ (n + 1) - 1 = n
      BY <2>1
    <3>2. f[n] \in R[n]
      BY <1>2, <3>1
    <3>3. f[n + 1] \in R[n + 1]
      BY <3>1, <3>2
    <3> QED
      BY <3>3
  <2>2. CASE ~(n + 1 <= N)
    BY <2>2
  <2> QED
    BY <2>1, <2>2
<1>3. Nat \subseteq S
  <2> HIDE DEF S
  <2> QED
    BY <1>1, <1>2, NatClosure
<1> QED
  BY <1>3

\* A step from values of P to values of P, for each of N elements, and the
\* values it runs through from a.  They are definitions, and not spelled out
\* in the lemma, so that the provers have something to match.
StepOn(Step, P, N) == Step \in [P \X (1..N) -> P]

RunOf(f, Step, P, a, N) ==
    /\ f \in [0..N -> P]
    /\ f[0] = a
    /\ \A n \in 1..N : f[n] = Step[<<f[n - 1], n>>]

\* A recursion on the naturals up to a bound defines a function.
LEMMA RecursionExists ==
    ASSUME NEW P, NEW a \in P, NEW N \in Nat, NEW Step, StepOn(Step, P, N)
    PROVE  \E f : RunOf(f, Step, P, a, N)
<1> DEFINE Is(n, f) == f[0] = a /\ \A i \in 1..n : f[i] = Step[<<f[i - 1], i>>]
           S == {n \in Nat : n <= N => \E f \in [0..n -> P] : Is(n, f)}
<1>0. Step \in [P \X (1..N) -> P]
  BY DEF StepOn
<1>1. 0 \in S
  <2> DEFINE g == [i \in 0..0 |-> a]
  <2>1. g \in [0..0 -> P] /\ Is(0, g)
    OBVIOUS
  <2> QED
    BY <2>1
<1>2. ASSUME NEW n \in Nat, n \in S, n + 1 <= N PROVE n + 1 \in S
  <2>1. PICK f \in [0..n -> P] : Is(n, f)
    BY <1>2
  <2> DEFINE g == [i \in 0..(n + 1) |-> IF i = n + 1 THEN Step[<<f[n], n + 1>>] ELSE f[i]]
  <2>2. n + 1 \in 1..N /\ f[n] \in P
    BY <1>2
  <2>3. Step[<<f[n], n + 1>>] \in P
    BY <1>0, <2>2
  <2>4. g \in [0..(n + 1) -> P]
    BY <2>3
  <2>5. Is(n + 1, g)
    <3>1. g[0] = a
      BY <2>1
    <3>2. ASSUME NEW i \in 1..(n + 1) PROVE g[i] = Step[<<g[i - 1], i>>]
      <4>1. CASE i = n + 1
        <5>1. g[i] = Step[<<f[n], n + 1>>] /\ i - 1 = n /\ g[n] = f[n]
          BY <4>1
        <5> QED
          BY <4>1, <5>1
      <4>2. CASE i # n + 1
        <5>1. i \in 1..n /\ i - 1 \in 0..n /\ i \in 0..n
          BY <4>2
        <5>2. g[i] = f[i] /\ g[i - 1] = f[i - 1]
          BY <4>2, <5>1
        <5> QED
          BY <2>1, <5>1, <5>2
      <4> QED
        BY <4>1, <4>2
    <3> QED
      BY <3>1, <3>2
  <2> HIDE DEF Is, g
  <2>6. \E h \in [0..(n + 1) -> P] : Is(n + 1, h)
    BY <2>4, <2>5
  <2> QED
    BY <2>6
<1>3. ASSUME NEW n \in Nat, n \in S PROVE n + 1 \in S
  <2>1. CASE n + 1 <= N
    BY <1>2, <1>3, <2>1
  <2>2. CASE ~(n + 1 <= N)
    BY <2>2
  <2> QED
    BY <2>1, <2>2
<1>4. N \in S
  <2> HIDE DEF S
  <2> QED
    BY <1>1, <1>3, NatClosure
<1>5. N <= N
  OBVIOUS
<1>6. PICK f \in [0..N -> P] : Is(N, f)
  BY <1>4, <1>5
<1>7. RunOf(f, Step, P, a, N)
  BY <1>6 DEF RunOf
<1> QED
  BY <1>7

----------------------------------------------------------------------------
(***************************************************************************)
(* Filters.                                                                *)
(***************************************************************************)
\* What is kept of the first n elements of s.
KeptSoFar(k, s, S, n) ==
    /\ ToSet(k) = {s[i] : i \in 1..n} \cap S
    /\ \A i, j \in DOMAIN k : i < j =>
          \E a, b \in 1..n : a < b /\ k[i] = s[a] /\ k[j] = s[b]

\* The step of filter.
LEMMA KeptStep ==
    ASSUME NEW G, NEW s \in Seq(G), NEW S, NEW n \in 1..Len(s), NEW k \in Seq(G),
           KeptSoFar(k, s, S, n - 1)
    PROVE  KeptSoFar(IF s[n] \in S THEN Append(k, s[n]) ELSE k, s, S, n)
<1>1. s[n] \in G /\ Len(k) \in Nat /\ DOMAIN k = 1..Len(k)
  OBVIOUS
<1>2. {s[i] : i \in 1..n} = {s[i] : i \in 1..(n - 1)} \cup {s[n]}
  <2>1. 1..n = (1..(n - 1)) \cup {n}
    OBVIOUS
  <2> QED
    BY <2>1
<1>3. CASE s[n] \notin S
  <2>1. \A a \in 1..(n - 1) : a \in 1..n
    OBVIOUS
  <2> QED
    BY <1>2, <1>3, <2>1 DEF KeptSoFar
<1>4. CASE s[n] \in S
  <2> DEFINE r == Append(k, s[n])
  <2>1. r \in Seq(G) /\ DOMAIN r = 1..(Len(k) + 1)
        /\ \A i \in 1..Len(k) : r[i] = k[i]
    BY <1>1
  <2>2. r[Len(k) + 1] = s[n]
    BY <1>1
  <2> HIDE DEF r
  <2>3. ToSet(r) = ToSet(k) \cup {s[n]}
    BY <1>1, <2>1, <2>2 DEF ToSet
  <2>4. ASSUME NEW i \in DOMAIN r, NEW j \in DOMAIN r, i < j
        PROVE  \E a, b \in 1..n : a < b /\ r[i] = s[a] /\ r[j] = s[b]
    <3>1. i \in 1..Len(k) /\ r[i] = k[i]
      BY <1>1, <2>1, <2>4
    <3>2. CASE j = Len(k) + 1
      <4>1. k[i] \in {s[a] : a \in 1..(n - 1)}
        BY <1>1, <3>1 DEF KeptSoFar, ToSet
      <4>2. PICK a \in 1..(n - 1) : k[i] = s[a]
        BY <4>1
      <4>3. a \in 1..n /\ n \in 1..n /\ a < n
        OBVIOUS
      <4> QED
        BY <2>2, <3>1, <3>2, <4>2, <4>3
    <3>3. CASE j # Len(k) + 1
      <4>1. j \in 1..Len(k) /\ r[j] = k[j]
        BY <1>1, <2>1, <3>3
      <4>2. PICK a, b \in 1..(n - 1) : a < b /\ k[i] = s[a] /\ k[j] = s[b]
        BY <1>1, <2>4, <3>1, <4>1 DEF KeptSoFar
      <4> QED
        BY <3>1, <4>1, <4>2
    <3> QED
      BY <3>2, <3>3
  <2>5. ToSet(r) = {s[i] : i \in 1..n} \cap S
    BY <1>2, <1>4, <2>3 DEF KeptSoFar
  <2>6. KeptSoFar(r, s, S, n)
    BY <2>4, <2>5 DEF KeptSoFar
  <2> QED
    BY <1>4, <2>6 DEF r
<1> QED
  BY <1>3, <1>4

\* filter keeps the elements of the set, in order.
LEMMA KeptElements ==
    ASSUME NEW G, NEW s \in Seq(G), NEW S
    PROVE  /\ Kept(s, S) \in Seq(G)
           /\ KeptSoFar(Kept(s, S), s, S, Len(s))
<1> DEFINE N == Len(s)
           Next1(k, n) == IF s[n] \in S THEN Append(k, s[n]) ELSE k
           Step == [x \in Seq(G) \X (1..N) |-> Next1(x[1], x[2])]
           Is(q) == q = [n \in 0..N |-> IF n = 0 THEN <<>> ELSE Next1(q[n - 1], n)]
           q == CHOOSE q : Is(q)
<1>1. N \in Nat /\ \A n \in 1..N : s[n] \in G
  OBVIOUS
<1>2. \A k \in Seq(G) : \A n \in 1..N : Next1(k, n) \in Seq(G)
  BY <1>1
<1>3. StepOn(Step, Seq(G), N)
  BY <1>2 DEF StepOn
<1>4. PICK f : RunOf(f, Step, Seq(G), <<>>, N)
  <2>1. <<>> \in Seq(G)
    OBVIOUS
  <2> HIDE DEF Step, N
  <2> QED
    BY <1>1, <1>3, <2>1, RecursionExists
<1> HIDE DEF Next1
<1>5. Is(f)
  <2>1. ASSUME NEW n \in 0..N
        PROVE  f[n] = IF n = 0 THEN <<>> ELSE Next1(f[n - 1], n)
    <3>1. CASE n # 0
      <4>1. n \in 1..N /\ n - 1 \in 0..N
        BY <1>1, <3>1
      <4>2. f[n - 1] \in Seq(G) /\ f[n] = Step[<<f[n - 1], n>>]
        BY <1>4, <4>1 DEF RunOf
      <4>3. Step[<<f[n - 1], n>>] = Next1(f[n - 1], n)
        BY <4>1, <4>2
      <4> QED
        BY <3>1, <4>2, <4>3
    <3> QED
      BY <1>4, <3>1 DEF RunOf
  <2>2. f \in [0..N -> Seq(G)]
    BY <1>4 DEF RunOf
  <2> HIDE DEF N
  <2> QED
    BY <2>1, <2>2
<1>6. Is(q)
  <2> HIDE DEF Is
  <2> QED
    BY <1>5
<1>7. \A n \in 0..N : q[n] = IF n = 0 THEN <<>> ELSE Next1(q[n - 1], n)
  <2> HIDE DEF q, N
  <2> QED
    BY <1>6
<1> DEFINE Good == {x \in Seq(G) \X (0..N) : KeptSoFar(x[1], s, S, x[2])}
           g == [n \in 0..N |-> <<q[n], n>>]
<1> HIDE DEF q
<1>8. g[0] \in Good
  <2>1. KeptSoFar(<<>>, s, S, 0)
    BY DEF KeptSoFar, ToSet
  <2>2. g[0] = << <<>>, 0 >> /\ 0 \in 0..N
    BY <1>1, <1>7
  <2> HIDE DEF g
  <2>3. <<>> \in Seq(G)
    OBVIOUS
  <2>4. << <<>>, 0 >> \in Seq(G) \X (0..N)
    BY <2>2, <2>3
  <2> QED
    BY <2>1, <2>2, <2>4
<1>9. ASSUME NEW n \in 1..N, g[n - 1] \in Good PROVE g[n] \in Good
  <2>1. n - 1 \in 0..N /\ n \in 0..N /\ n # 0
    BY <1>1
  <2>2. q[n - 1] \in Seq(G) /\ KeptSoFar(q[n - 1], s, S, n - 1)
    BY <1>9, <2>1
  <2>3. q[n] = Next1(q[n - 1], n)
    BY <1>7, <2>1
  <2>4. KeptSoFar(q[n], s, S, n)
    BY <2>2, <2>3, KeptStep DEF Next1
  <2>5. q[n] \in Seq(G)
    BY <1>2, <2>2, <2>3
  <2> QED
    BY <2>1, <2>4, <2>5
<1>10. g[N] \in Good
  <2> HIDE DEF g, Good, N
  <2>1. \A n \in 0..N : g[n] \in Good
    BY <1>1, <1>8, <1>9, BoundedClosure
  <2> QED
    BY <1>1, <2>1
<1>11. q[N] \in Seq(G) /\ KeptSoFar(q[N], s, S, N)
  BY <1>1, <1>10
<1>12. Kept(s, S) = q[N]
  BY DEF Kept, q, Next1
<1> QED
  BY <1>11, <1>12

----------------------------------------------------------------------------
(***************************************************************************)
(* Sums over finite sets (SumFunctionOnSet of Functions): what is chosen   *)
(* first does not matter.                                                  *)
(***************************************************************************)
NatOn(f, S) == \A x \in S : f[x] \in Nat
AgreeOn(f, g, S) == \A x \in S : f[x] = g[x]

Picked(T) == CHOOSE x \in T : TRUE

\* q has the sum of f over every subset of S.
SumsBelow(q, f, S) ==
    /\ q \in [SUBSET S -> Nat]
    /\ q[{}] = 0
    /\ \A T \in SUBSET S : T # {} => q[T] = f[Picked(T)] + q[T \ {Picked(T)}]

LEMMA PickedIn == \A T : T # {} => Picked(T) \in T
BY DEF Picked

\* A subset without one of its elements.
LEMMA Smaller ==
    ASSUME NEW S, IsFiniteSet(S), NEW T \in SUBSET S, NEW x \in T
    PROVE  /\ IsFiniteSet(T) /\ Cardinality(T) \in Nat /\ Cardinality(T \ {x}) \in Nat
           /\ T \ {x} \in SUBSET S /\ Cardinality(T \ {x}) = Cardinality(T) - 1
<1>1. IsFiniteSet(T)
  BY FS_Subset
<1>2. Cardinality(T \ {x}) = Cardinality(T) - 1 /\ IsFiniteSet(T \ {x})
  BY <1>1, FS_RemoveElement
<1> QED
  BY <1>1, <1>2, FS_CardinalityType

LEMMA SumExists ==
    ASSUME NEW f, NEW S, IsFiniteSet(S), NatOn(f, S)
    PROVE  \E q : SumsBelow(q, f, S) /\ SumFunctionOnSet(f, S) = q[S]
<1> DEFINE Upto(q, k) == \A T \in SUBSET S :
                            T # {} /\ Cardinality(T) <= k
                                => q[T] = f[Picked(T)] + q[T \ {Picked(T)}]
           D == {k \in Nat : \E q \in [SUBSET S -> Nat] : q[{}] = 0 /\ Upto(q, k)}
<1>0. /\ \A T \in SUBSET S : IsFiniteSet(T) /\ Cardinality(T) \in Nat
      /\ \A T \in SUBSET S : T # {} => Cardinality(T) # 0
  BY FS_Subset, FS_CardinalityType, FS_EmptySet
<1>1. \A T \in SUBSET S : T # {} =>
        /\ T \ {Picked(T)} \in SUBSET S
        /\ Cardinality(T \ {Picked(T)}) = Cardinality(T) - 1
        /\ f[Picked(T)] \in Nat
  BY PickedIn, Smaller DEF NatOn
<1>2. 0 \in D
  <2> DEFINE z == [T \in SUBSET S |-> 0]
  <2>1. z \in [SUBSET S -> Nat] /\ z[{}] = 0
    OBVIOUS
  <2>2. Upto(z, 0)
    <3> SUFFICES ASSUME NEW T \in SUBSET S, T # {}, Cardinality(T) <= 0 PROVE FALSE
      OBVIOUS
    <3> QED
      BY <1>0
  <2> QED
    BY <2>1, <2>2
<1>3. ASSUME NEW k \in Nat, k \in D PROVE k + 1 \in D
  <2>1. PICK q \in [SUBSET S -> Nat] : q[{}] = 0 /\ Upto(q, k)
    BY <1>3
  <2> DEFINE r == [T \in SUBSET S |-> IF Cardinality(T) = k + 1
                                      THEN f[Picked(T)] + q[T \ {Picked(T)}] ELSE q[T]]
  <2>2. r \in [SUBSET S -> Nat]
    <3> SUFFICES ASSUME NEW T \in SUBSET S PROVE r[T] \in Nat
      OBVIOUS
    <3>1. CASE Cardinality(T) = k + 1
      <4>1. T # {}
        <5>1. Cardinality({}) = 0
          BY FS_EmptySet
        <5> QED
          BY <3>1, <5>1
      <4>2. f[Picked(T)] \in Nat /\ q[T \ {Picked(T)}] \in Nat
        BY <1>1, <4>1
      <4> QED
        BY <3>1, <4>2
    <3>2. CASE Cardinality(T) # k + 1
      BY <3>2
    <3> QED
      BY <3>1, <3>2
  <2>3. r[{}] = 0
    <3>1. Cardinality({}) # k + 1
      BY FS_EmptySet
    <3> QED
      BY <2>1, <3>1
  <2>4. Upto(r, k + 1)
    <3> SUFFICES ASSUME NEW T \in SUBSET S, T # {}, Cardinality(T) <= k + 1
                 PROVE  r[T] = f[Picked(T)] + r[T \ {Picked(T)}]
      OBVIOUS
    <3>1. /\ T \ {Picked(T)} \in SUBSET S
          /\ Cardinality(T \ {Picked(T)}) = Cardinality(T) - 1
          /\ Cardinality(T) \in Nat
      BY <1>0, <1>1
    <3> DEFINE V == T \ {Picked(T)}
    <3>2. r[V] = q[V]
      <4>1. V \in SUBSET S /\ Cardinality(V) # k + 1
        BY <3>1
      <4> HIDE DEF V
      <4> QED
        BY <4>1
    <3>3. CASE Cardinality(T) = k + 1
      BY <3>2, <3>3
    <3>4. CASE Cardinality(T) # k + 1
      <4>1. r[T] = q[T] /\ Cardinality(T) <= k
        BY <3>1, <3>4
      <4> QED
        BY <2>1, <3>2, <4>1
    <3> QED
      BY <3>3, <3>4
  <2> HIDE DEF r, Upto
  <2>5. \E h \in [SUBSET S -> Nat] : h[{}] = 0 /\ Upto(h, k + 1)
    BY <2>2, <2>3, <2>4
  <2> QED
    BY <2>5
<1>4. Cardinality(S) \in D
  <2> HIDE DEF D
  <2> QED
    BY <1>0, <1>2, <1>3, NatClosure
<1>5. PICK q \in [SUBSET S -> Nat] : q[{}] = 0 /\ Upto(q, Cardinality(S))
  BY <1>4
<1>6. \A T \in SUBSET S : T # {} => q[T] = f[Picked(T)] + q[T \ {Picked(T)}]
  <2>1. \A T \in SUBSET S : Cardinality(T) <= Cardinality(S)
    BY FS_Subset
  <2> QED
    BY <1>5, <2>1
<1> DEFINE Is(i) == i = [T \in SUBSET S |-> IF T = {} THEN 0
                                            ELSE f[Picked(T)] + i[T \ {Picked(T)}]]
           iter == CHOOSE i : Is(i)
<1>7. Is(q)
  BY <1>5, <1>6
<1>8. Is(iter)
  <2> HIDE DEF Is
  <2> QED
    BY <1>7
<1>9. SumFunctionOnSet(f, S) = iter[S]
  BY DEF SumFunctionOnSet, FoldFunctionOnSet, MapThenFoldSet, Picked
<1>10. /\ DOMAIN iter = SUBSET S
       /\ iter = [T \in SUBSET S |-> iter[T]]
       /\ \A T \in SUBSET S : iter[T] = IF T = {} THEN 0
                                        ELSE f[Picked(T)] + iter[T \ {Picked(T)}]
  <2> HIDE DEF iter
  <2> QED
    BY <1>8
<1> HIDE DEF iter, Is
<1>10a. iter[{}] = 0
  <2>1. {} \in SUBSET S
    OBVIOUS
  <2> QED
    BY <1>10, <2>1
<1>11. \A T \in SUBSET S : iter[T] \in Nat
  <2> DEFINE E == {k \in Nat : \A T \in SUBSET S : Cardinality(T) <= k => iter[T] \in Nat}
  <2>1. 0 \in E
    <3> SUFFICES ASSUME NEW T \in SUBSET S, Cardinality(T) <= 0 PROVE iter[T] \in Nat
      OBVIOUS
    <3>1. T = {}
      BY <1>0
    <3> QED
      BY <1>10a, <3>1
  <2>2. ASSUME NEW k \in Nat, k \in E PROVE k + 1 \in E
    <3> SUFFICES ASSUME NEW T \in SUBSET S, Cardinality(T) <= k + 1 PROVE iter[T] \in Nat
      OBVIOUS
    <3>1. CASE T = {}
      BY <1>10a, <3>1
    <3>2. CASE T # {}
      <4>1. /\ T \ {Picked(T)} \in SUBSET S /\ f[Picked(T)] \in Nat
            /\ Cardinality(T \ {Picked(T)}) <= k
        BY <1>0, <1>1, <3>2
      <4>2. iter[T \ {Picked(T)}] \in Nat
        BY <2>2, <4>1
      <4>3. iter[T] = f[Picked(T)] + iter[T \ {Picked(T)}]
        BY <1>10, <3>2
      <4> QED
        BY <4>1, <4>2, <4>3
    <3> QED
      BY <3>1, <3>2
  <2>3. Cardinality(S) \in E
    <3> HIDE DEF E
    <3> QED
      BY <1>0, <2>1, <2>2, NatClosure
  <2> QED
    BY <2>3, FS_Subset
<1>12. SumsBelow(iter, f, S)
  BY <1>10, <1>11 DEF SumsBelow
<1> QED
  BY <1>9, <1>12

\* Any element may be taken first.
AnyFirst(q, f, S) == \A T \in SUBSET S : \A x \in T : q[T] = f[x] + q[T \ {x}]

LEMMA SumsAny ==
    ASSUME NEW f, NEW S, IsFiniteSet(S), NatOn(f, S), NEW q, SumsBelow(q, f, S)
    PROVE  AnyFirst(q, f, S)
<1> DEFINE Good(T) == \A x \in T : q[T] = f[x] + q[T \ {x}]
           D == {k \in Nat : \A T \in SUBSET S : Cardinality(T) <= k => Good(T)}
<1>0. /\ \A T \in SUBSET S : IsFiniteSet(T) /\ Cardinality(T) \in Nat
      /\ \A T \in SUBSET S : T # {} => Cardinality(T) # 0
  BY FS_Subset, FS_CardinalityType, FS_EmptySet
<1>1. 0 \in D
  BY <1>0
<1>2. ASSUME NEW k \in Nat, k \in D PROVE k + 1 \in D
  <2> SUFFICES ASSUME NEW T \in SUBSET S, Cardinality(T) <= k + 1, NEW x \in T
               PROVE  q[T] = f[x] + q[T \ {x}]
    OBVIOUS
  <2> DEFINE p == Picked(T)
             R == (T \ {p}) \ {x}
  <2>1. p \in T /\ q[T] = f[p] + q[T \ {p}]
    BY PickedIn DEF SumsBelow
  <2> HIDE DEF p
  <2>2. CASE p = x
    BY <2>1, <2>2
  <2>3. CASE p # x
    <3>1. /\ T \ {p} \in SUBSET S /\ Cardinality(T \ {p}) <= k
          /\ T \ {x} \in SUBSET S /\ Cardinality(T \ {x}) <= k
      BY <1>0, <2>1, Smaller
    <3>2. x \in T \ {p} /\ p \in T \ {x} /\ (T \ {x}) \ {p} = R
      BY <2>1, <2>3
    <3>3. q[T \ {p}] = f[x] + q[R]
      BY <1>2, <3>1, <3>2
    <3>4. q[T \ {x}] = f[p] + q[R]
      BY <1>2, <3>1, <3>2
    <3>5. f[x] \in Nat /\ f[p] \in Nat /\ q[R] \in Nat
      BY <2>1 DEF NatOn, SumsBelow
    <3> QED
      BY <2>1, <3>3, <3>4, <3>5
  <2> QED
    BY <2>2, <2>3
<1>3. Cardinality(S) \in D
  <2> HIDE DEF D
  <2> QED
    BY <1>0, <1>1, <1>2, NatClosure
<1> QED
  BY <1>3, FS_Subset DEF AnyFirst

\* The sums of functions that agree.
LEMMA SumsAgree ==
    ASSUME NEW f, NEW g, NEW S, NEW U, IsFiniteSet(U), S \subseteq U,
           NatOn(g, U), AgreeOn(f, g, S),
           NEW q, NEW r, SumsBelow(q, f, S), SumsBelow(r, g, U)
    PROVE  \A T \in SUBSET S : q[T] = r[T]
<1> DEFINE D == {k \in Nat : \A T \in SUBSET S : Cardinality(T) <= k => q[T] = r[T]}
<1>0. /\ IsFiniteSet(S)
      /\ \A T \in SUBSET S : IsFiniteSet(T) /\ Cardinality(T) \in Nat
      /\ \A T \in SUBSET S : T # {} => Cardinality(T) # 0
  BY FS_Subset, FS_CardinalityType, FS_EmptySet
<1>1. 0 \in D
  <2> SUFFICES ASSUME NEW T \in SUBSET S, Cardinality(T) <= 0 PROVE q[T] = r[T]
    OBVIOUS
  <2>1. T = {}
    BY <1>0
  <2> QED
    BY <2>1 DEF SumsBelow
<1>2. ASSUME NEW k \in Nat, k \in D PROVE k + 1 \in D
  <2> SUFFICES ASSUME NEW T \in SUBSET S, Cardinality(T) <= k + 1 PROVE q[T] = r[T]
    OBVIOUS
  <2>1. CASE T = {}
    BY <2>1 DEF SumsBelow
  <2>2. CASE T # {}
    <3> DEFINE p == Picked(T)
    <3>1. p \in T
      BY <2>2, PickedIn
    <3>2. T \in SUBSET U
      OBVIOUS
    <3>3. q[T] = f[p] + q[T \ {p}] /\ r[T] = g[p] + r[T \ {p}]
      BY <2>2, <3>2 DEF SumsBelow
    <3> HIDE DEF p
    <3>4. T \ {p} \in SUBSET S /\ Cardinality(T \ {p}) <= k
      BY <1>0, <3>1, Smaller
    <3>5. q[T \ {p}] = r[T \ {p}] /\ f[p] = g[p]
      BY <1>2, <3>1, <3>4 DEF AgreeOn
    <3> QED
      BY <3>3, <3>5
  <2> QED
    BY <2>1, <2>2
<1>3. Cardinality(S) \in D
  <2> HIDE DEF D
  <2> QED
    BY <1>0, <1>1, <1>2, FS_CardinalityType, NatClosure
<1> QED
  BY <1>0, <1>3, FS_Subset

\* Nothing sums to 0, and sums are natural numbers.
LEMMA SumNone ==
    ASSUME NEW f
    PROVE  SumFunctionOnSet(f, {}) = 0
<1>1. IsFiniteSet({}) /\ NatOn(f, {})
  BY FS_EmptySet DEF NatOn
<1> QED
  BY <1>1, SumExists DEF SumsBelow

LEMMA SumNat ==
    ASSUME NEW f, NEW S, IsFiniteSet(S), NatOn(f, S)
    PROVE  SumFunctionOnSet(f, S) \in Nat
<1>1. PICK q : SumsBelow(q, f, S) /\ SumFunctionOnSet(f, S) = q[S]
  BY SumExists
<1>2. S \in SUBSET S
  OBVIOUS
<1> QED
  BY <1>1, <1>2 DEF SumsBelow

\* Equal summands have equal sums.
LEMMA SumAgree ==
    ASSUME NEW f, NEW g, NEW S, IsFiniteSet(S), NatOn(f, S), AgreeOn(f, g, S)
    PROVE  SumFunctionOnSet(f, S) = SumFunctionOnSet(g, S)
<1>1. NatOn(g, S)
  BY DEF NatOn, AgreeOn
<1>2. PICK q : SumsBelow(q, f, S) /\ SumFunctionOnSet(f, S) = q[S]
  BY SumExists
<1>3. PICK r : SumsBelow(r, g, S) /\ SumFunctionOnSet(g, S) = r[S]
  BY <1>1, SumExists
<1>4. \A T \in SUBSET S : q[T] = r[T]
  BY <1>1, <1>2, <1>3, SumsAgree
<1> QED
  BY <1>2, <1>3, <1>4

\* One element more.
LEMMA SumMore ==
    ASSUME NEW f, NEW S, IsFiniteSet(S), NEW x, x \notin S, NatOn(f, S \cup {x})
    PROVE  SumFunctionOnSet(f, S \cup {x}) = SumFunctionOnSet(f, S) + f[x]
<1> DEFINE U == S \cup {x}
<1>0. IsFiniteSet(U) /\ S \in SUBSET U /\ U \ {x} = S /\ x \in U /\ U \in SUBSET U
  BY FS_AddElement
<1>1. NatOn(f, S) /\ AgreeOn(f, f, S) /\ f[x] \in Nat
  BY DEF NatOn, AgreeOn
<1>1a. NatOn(f, U)
  OBVIOUS
<1> HIDE DEF U
<1>2. PICK q : SumsBelow(q, f, S) /\ SumFunctionOnSet(f, S) = q[S]
  BY <1>1, SumExists
<1>3. PICK r : SumsBelow(r, f, U) /\ SumFunctionOnSet(f, U) = r[U]
  BY <1>0, SumExists DEF U
<1>4. q[S] = r[S]
  <2>1. NatOn(f, U) /\ S \subseteq U
    BY <1>0 DEF U
  <2>2. \A T \in SUBSET S : q[T] = r[T]
    BY <1>0, <1>1, <1>2, <1>3, <2>1, SumsAgree
  <2> QED
    BY <2>2
<1>5. r[U] = f[x] + r[S]
  <2>1. SumsBelow(r, f, U)
    BY <1>3
  <2>2. AnyFirst(r, f, U)
    BY <1>0, <1>1a, <2>1, SumsAny
  <2> QED
    BY <1>0, <2>2 DEF AnyFirst
<1>6. q[S] \in Nat
  BY <1>2 DEF SumsBelow
<1> QED
  BY <1>1, <1>2, <1>3, <1>4, <1>5, <1>6 DEF U

\* Two sets without a common element.
LEMMA SumSplit ==
    ASSUME NEW f, NEW S, NEW T, IsFiniteSet(S), IsFiniteSet(T), S \cap T = {},
           NatOn(f, S \cup T)
    PROVE  SumFunctionOnSet(f, S \cup T) = SumFunctionOnSet(f, S) + SumFunctionOnSet(f, T)
<1> DEFINE Sum(R) == SumFunctionOnSet(f, R)
           F == {R \in SUBSET T : Sum(S \cup R) = Sum(S) + Sum(R)}
<1>0. NatOn(f, S) /\ NatOn(f, T)
  BY DEF NatOn
<1>1. {} \in F
  <2>1. Sum(S) \in Nat /\ Sum({}) = 0 /\ S \cup {} = S
    BY <1>0, SumNat, SumNone
  <2> QED
    BY <2>1
<1>2. ASSUME NEW R \in SUBSET T, NEW x \in T \ R, R \in F PROVE R \cup {x} \in F
  <2>1. /\ IsFiniteSet(R) /\ IsFiniteSet(S \cup R)
        /\ x \notin R /\ x \notin S \cup R /\ f[x] \in Nat
        /\ S \cup (R \cup {x}) = (S \cup R) \cup {x}
    BY FS_Subset, FS_Union DEF NatOn
  <2>2. NatOn(f, R \cup {x}) /\ NatOn(f, (S \cup R) \cup {x}) /\ NatOn(f, R)
    BY DEF NatOn
  <2>3. Sum(R \cup {x}) = Sum(R) + f[x]
    BY <2>1, <2>2, SumMore
  <2>4. Sum((S \cup R) \cup {x}) = Sum(S \cup R) + f[x]
    BY <2>1, <2>2, SumMore
  <2>5. Sum(S) \in Nat /\ Sum(R) \in Nat /\ Sum(S \cup R) = Sum(S) + Sum(R)
    BY <1>0, <1>2, <2>1, <2>2, SumNat
  <2>6. Sum(S \cup (R \cup {x})) = Sum(S \cup R) + f[x]
    BY <2>1, <2>4
  <2>7. Sum(S \cup (R \cup {x})) = Sum(S) + Sum(R \cup {x})
    BY <2>1, <2>3, <2>5, <2>6
  <2> QED
    BY <2>7
<1>3. T \in F
  <2> HIDE DEF F
  <2> QED
    BY <1>1, <1>2, FiniteClosure
<1> QED
  BY <1>3

\* Distinct places with the same values.
MovedBy(h, f, g, S) ==
    /\ \A x \in S : g[h[x]] = f[x]
    /\ \A x, y \in S : x # y => h[x] # h[y]

LEMMA SumMoved ==
    ASSUME NEW f, NEW g, NEW h, NEW S, IsFiniteSet(S), NatOn(f, S), MovedBy(h, f, g, S)
    PROVE  SumFunctionOnSet(g, {h[x] : x \in S}) = SumFunctionOnSet(f, S)
<1> DEFINE At(R) == {h[x] : x \in R}
           F == {R \in SUBSET S : /\ IsFiniteSet(At(R))
                                  /\ SumFunctionOnSet(g, At(R)) = SumFunctionOnSet(f, R)}
<1>1. {} \in F
  <2>1. At({}) = {} /\ IsFiniteSet({})
    BY FS_EmptySet
  <2>2. SumFunctionOnSet(g, {}) = 0 /\ SumFunctionOnSet(f, {}) = 0
    BY SumNone
  <2> HIDE DEF At
  <2> QED
    BY <2>1, <2>2
<1>2. ASSUME NEW R \in SUBSET S, NEW x \in S \ R, R \in F PROVE R \cup {x} \in F
  <2>1. At(R \cup {x}) = At(R) \cup {h[x]} /\ h[x] \notin At(R)
    BY DEF MovedBy
  <2>2. NatOn(g, At(R) \cup {h[x]}) /\ NatOn(f, R \cup {x}) /\ g[h[x]] = f[x]
    BY DEF NatOn, MovedBy
  <2>3. IsFiniteSet(R) /\ IsFiniteSet(At(R)) /\ IsFiniteSet(At(R) \cup {h[x]})
    BY <1>2, FS_Subset, FS_AddElement
  <2> HIDE DEF At
  <2>4. SumFunctionOnSet(f, R \cup {x}) = SumFunctionOnSet(f, R) + f[x]
    BY <2>2, <2>3, SumMore
  <2>5. SumFunctionOnSet(g, At(R) \cup {h[x]}) = SumFunctionOnSet(g, At(R)) + g[h[x]]
    BY <2>1, <2>2, <2>3, SumMore
  <2> QED
    BY <1>2, <2>1, <2>2, <2>3, <2>4, <2>5
<1>3. S \in F
  <2> HIDE DEF F
  <2> QED
    BY <1>1, <1>2, FiniteClosure
<1> QED
  BY <1>3

\* Multiplication keeps the order.
LEMMA TimesKeepsOrder ==
    ASSUME NEW k \in Nat, NEW n \in Nat, NEW c \in Nat, k <= n
    PROVE  k * c \in Nat /\ n * c \in Nat /\ k * c <= n * c
<1> DEFINE D == {d \in Nat : k * c <= (k + d) * c}
<1>0. \A a \in Nat : a * c \in Nat /\ (a + 1) * c = a * c + c
  OBVIOUS
<1>1. 0 \in D
  BY <1>0
<1>2. ASSUME NEW d \in Nat, d \in D PROVE d + 1 \in D
  <2>1. k + d \in Nat /\ (k + d) + 1 = k + (d + 1)
    OBVIOUS
  <2>2. (k + (d + 1)) * c = (k + d) * c + c
    BY <1>0, <2>1
  <2>3. (k + d) * c \in Nat /\ k * c \in Nat
    BY <1>0, <2>1
  <2>4. k * c <= (k + (d + 1)) * c
    BY <1>2, <2>2, <2>3
  <2> QED
    BY <2>4
<1>3. n - k \in D
  <2>1. n - k \in Nat
    OBVIOUS
  <2> HIDE DEF D
  <2> QED
    BY <1>1, <1>2, <2>1, NatClosure
<1>4. k + (n - k) = n
  OBVIOUS
<1> QED
  BY <1>0, <1>3, <1>4

\* Bounded summands.
AtMost(f, S, c) == \A x \in S : f[x] <= c

LEMMA SumBounded ==
    ASSUME NEW f, NEW S, IsFiniteSet(S), NatOn(f, S), NEW c \in Nat, AtMost(f, S, c),
           NEW n \in Nat, Cardinality(S) <= n
    PROVE  SumFunctionOnSet(f, S) <= n * c
<1> DEFINE F == {R \in SUBSET S : SumFunctionOnSet(f, R) <= Cardinality(R) * c}
<1>1. {} \in F
  <2>1. SumFunctionOnSet(f, {}) = 0 /\ Cardinality({}) = 0
    BY SumNone, FS_EmptySet
  <2> QED
    BY <2>1
<1>2. ASSUME NEW R \in SUBSET S, NEW x \in S \ R, R \in F PROVE R \cup {x} \in F
  <2>1. /\ IsFiniteSet(R) /\ Cardinality(R) \in Nat
        /\ Cardinality(R \cup {x}) = Cardinality(R) + 1
        /\ f[x] \in Nat /\ f[x] <= c
    BY FS_Subset, FS_CardinalityType, FS_AddElement DEF NatOn, AtMost
  <2>2. NatOn(f, R) /\ NatOn(f, R \cup {x})
    BY DEF NatOn
  <2>3. SumFunctionOnSet(f, R \cup {x}) = SumFunctionOnSet(f, R) + f[x]
    BY <2>1, <2>2, SumMore
  <2>4. SumFunctionOnSet(f, R) \in Nat /\ SumFunctionOnSet(f, R) <= Cardinality(R) * c
    BY <1>2, <2>1, <2>2, SumNat
  <2>5. (Cardinality(R) + 1) * c = Cardinality(R) * c + c /\ Cardinality(R) * c \in Nat
    BY <2>1
  <2>6. SumFunctionOnSet(f, R \cup {x}) <= Cardinality(R \cup {x}) * c
    BY <2>1, <2>3, <2>4, <2>5
  <2> QED
    BY <2>6
<1>3. S \in F
  <2> HIDE DEF F
  <2> QED
    BY <1>1, <1>2, FiniteClosure
<1>4. /\ Cardinality(S) \in Nat /\ Cardinality(S) * c \in Nat /\ n * c \in Nat
      /\ Cardinality(S) * c <= n * c
  BY FS_CardinalityType, TimesKeepsOrder
<1>5. SumFunctionOnSet(f, S) \in Nat
  BY SumNat
<1> QED
  BY <1>3, <1>4, <1>5

----------------------------------------------------------------------------
(***************************************************************************)
(* Lists by rank.                                                          *)
(***************************************************************************)
Falling(s, rank) == \A i, j \in DOMAIN s : i < j => rank[s[i]] > rank[s[j]]
Rising(s, rank)  == \A i, j \in DOMAIN s : i < j => rank[s[i]] < rank[s[j]]

\* A finite set whose elements have ranks of their own, highest first.
LEMMA RankedDown ==
    ASSUME NEW B, IsFiniteSet(B), NEW rank, \A x \in B : rank[x] \in Nat,
           \A x, y \in B : x # y => rank[x] # rank[y]
    PROVE  \E s \in [1..Cardinality(B) -> B] : Range(s) = B /\ Falling(s, rank)
<1> DEFINE Sorted(S) == \E s \in [1..Cardinality(S) -> S] : Range(s) = S /\ Falling(s, rank)
           C == {S \in SUBSET B : ~Sorted(S)}
<1> SUFFICES ASSUME B \in C PROVE FALSE
  OBVIOUS
<1>1. \A S \in SUBSET B : IsFiniteSet(S)
  BY FS_Subset
<1>2. C \in SUBSET FiniteSubsetsOf(B) /\ C # {}
  <2> HIDE DEF Sorted
  <2> QED
    BY <1>1 DEF FiniteSubsetsOf
<1>3. PICK S \in C : \A T \in C : ~(T \subseteq S /\ T # S)
  <2> HIDE DEF C
  <2> QED
    BY <1>2, FiniteLeast
<1>4. S \in SUBSET B /\ IsFiniteSet(S) /\ Cardinality(S) \in Nat /\ ~Sorted(S)
  <2>1. IsFiniteSet(S)
    BY <1>1, <1>3
  <2> HIDE DEF Sorted
  <2> QED
    BY <1>3, <2>1, FS_CardinalityType
<1>5. S # {}
  <2> SUFFICES ASSUME S = {} PROVE FALSE
    OBVIOUS
  <2>1. Cardinality(S) = 0
    BY FS_EmptySet
  <2> DEFINE e == [i \in 1..0 |-> 0]
  <2>2. e \in [1..Cardinality(S) -> S] /\ Range(e) = S /\ Falling(e, rank)
    BY <2>1 DEF Falling, Range
  <2> HIDE DEF e
  <2> QED
    BY <1>4, <2>2
<1>6. PICK x \in S : \A o \in S : rank[x] <= rank[o]
  <2> DEFINE R == {rank[t] : t \in S}
  <2>1. R \in SUBSET Nat /\ R # {}
    BY <1>4, <1>5
  <2>2. \E n \in R : \A m \in R : n <= m
    <3> HIDE DEF R
    <3> QED
      BY <2>1, NatLeast
  <2> QED
    BY <2>2
<1> DEFINE T == S \ {x}
           n == Cardinality(T)
<1>7. IsFiniteSet(T) /\ n \in Nat /\ Cardinality(S) = n + 1
  <2>1. IsFiniteSet(T) /\ Cardinality(T) = Cardinality(S) - 1
    BY <1>4, FS_RemoveElement
  <2>2. Cardinality(T) \in Nat
    BY <2>1, FS_CardinalityType
  <2> QED
    BY <1>4, <2>1, <2>2
<1>8. PICK s \in [1..n -> T] : Range(s) = T /\ Falling(s, rank)
  <2>1. T \notin C
    BY <1>3, <1>6
  <2>2. Sorted(T)
    <3> HIDE DEF Sorted
    <3> QED
      BY <1>4, <2>1
  <2> QED
    BY <2>2
<1> DEFINE r == [i \in 1..(n + 1) |-> IF i = n + 1 THEN x ELSE s[i]]
<1> HIDE DEF n
<1>9. r \in [1..(n + 1) -> S]
  BY <1>7, <1>8
<1>10. Range(r) = S
  <2>1. \A i \in 1..n : i \in 1..(n + 1) /\ r[i] = s[i]
    BY <1>7
  <2>2. n + 1 \in 1..(n + 1) /\ r[n + 1] = x
    BY <1>7
  <2>3. DOMAIN r = 1..(n + 1) /\ DOMAIN s = 1..n
    BY <1>8
  <2> HIDE DEF r
  <2>4. T \subseteq Range(r)
    BY <1>8, <2>1, <2>3 DEF Range
  <2>5. x \in Range(r)
    BY <2>2, <2>3 DEF Range
  <2>6. Range(r) \subseteq S
    BY <1>9 DEF Range
  <2> QED
    BY <2>4, <2>5, <2>6
<1>11. Falling(r, rank)
  <2> SUFFICES ASSUME NEW i \in 1..(n + 1), NEW j \in 1..(n + 1), i < j
               PROVE  rank[r[i]] > rank[r[j]]
    BY <1>7 DEF Falling
  <2>1. i \in 1..n /\ r[i] = s[i] /\ s[i] \in T
    BY <1>7, <1>8
  <2>2. CASE j = n + 1
    <3>1. r[j] = x /\ s[i] # x /\ rank[x] <= rank[s[i]] /\ x \in B /\ s[i] \in B
      BY <1>4, <1>6, <2>1, <2>2
    <3>2. rank[x] # rank[s[i]] /\ rank[x] \in Nat /\ rank[s[i]] \in Nat
      BY <3>1
    <3> QED
      BY <2>1, <3>1, <3>2
  <2>3. CASE j # n + 1
    <3>1. j \in 1..n /\ r[j] = s[j]
      BY <1>7, <2>3
    <3> QED
      BY <1>8, <2>1, <3>1 DEF Falling
  <2> QED
    BY <2>2, <2>3
<1>12. Sorted(S)
  BY <1>7, <1>9, <1>10, <1>11
<1> QED
  BY <1>4, <1>12

\* ... and lowest first.
LEMMA RankedUp ==
    ASSUME NEW B, IsFiniteSet(B), NEW rank, \A x \in B : rank[x] \in Nat,
           \A x, y \in B : x # y => rank[x] # rank[y]
    PROVE  \E s \in [1..Cardinality(B) -> B] : Range(s) = B /\ Rising(s, rank)
<1> DEFINE n == Cardinality(B)
<1>1. n \in Nat
  BY FS_CardinalityType
<1>2. PICK s \in [1..n -> B] : Range(s) = B /\ Falling(s, rank)
  BY RankedDown
<1> HIDE DEF n
<1> DEFINE r == [i \in 1..n |-> s[(n - i) + 1]]
<1>3. \A i \in 1..n : (n - i) + 1 \in 1..n /\ (n - ((n - i) + 1)) + 1 = i
  BY <1>1
<1>4. r \in [1..n -> B]
  BY <1>2, <1>3
<1>5. Range(r) = B
  <2>1. DOMAIN r = 1..n /\ DOMAIN s = 1..n
    BY <1>2
  <2>2. \A i \in 1..n : r[(n - i) + 1] = s[i]
    BY <1>3
  <2> HIDE DEF r
  <2>3. B \subseteq Range(r)
    BY <1>2, <1>3, <2>1, <2>2 DEF Range
  <2>4. Range(r) \subseteq B
    BY <1>4 DEF Range
  <2> QED
    BY <2>3, <2>4
<1>6. Rising(r, rank)
  <2> SUFFICES ASSUME NEW i \in 1..n, NEW j \in 1..n, i < j PROVE rank[r[i]] < rank[r[j]]
    BY DEF Rising
  <2> DEFINE k == (n - j) + 1
             l == (n - i) + 1
  <2>1. k \in 1..n /\ l \in 1..n /\ k < l
    BY <1>1
  <2>2. r[i] = s[l] /\ r[j] = s[k] /\ s[l] \in B /\ s[k] \in B
    BY <1>2, <2>1
  <2> HIDE DEF k, l, r
  <2>3. rank[s[k]] > rank[s[l]]
    BY <1>2, <2>1 DEF Falling
  <2>4. rank[s[k]] \in Nat /\ rank[s[l]] \in Nat
    BY <2>2
  <2> QED
    BY <2>2, <2>3, <2>4
<1> HIDE DEF r
<1> QED
  BY <1>4, <1>5, <1>6 DEF n
=============================================================================

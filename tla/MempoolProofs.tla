---------------------------- MODULE MempoolProofs ----------------------------
(***************************************************************************)
(* Theorems about Mempool, for every set of transactions, every chain and  *)
(* every size of the pool.  First what one operation does to a pool whose  *)
(* conflict index is exact, then that a fold of them over a block or over  *)
(* the blocks of a reorganisation does the same, then the invariant.       *)
(***************************************************************************)
EXTENDS Mempool, Induction, TLAPS

\* The entries and the index of a pool.
PoolType ==
    [ at    : UNION {[S -> Nat] : S \in SUBSET Tx},
      spent : UNION {[C -> Tx] : C \in SUBSET Resource} ]

IndexExact(p) ==
    /\ DOMAIN p.spent = UNION {Inputs[t] : t \in Entries(p)}
    /\ \A t \in Entries(p) : \A c \in Inputs[t] : p.spent[c] = t

SoundPool == {p \in PoolType : IndexExact(p) /\ IsFiniteSet(Entries(p))}

\* The types of a sound pool, one field at a time.
LEMMA SoundPoolFacts ==
    ASSUME NEW p \in SoundPool
    PROVE  /\ Entries(p) \subseteq Tx /\ IsFiniteSet(Entries(p))
           /\ p.at \in [Entries(p) -> Nat]
           /\ p.spent \in [DOMAIN p.spent -> Tx]
           /\ DOMAIN p.spent \subseteq Resource
           /\ IndexExact(p)
BY DEF SoundPool, PoolType, Entries

\* How a pool is shown sound.
LEMMA SoundPoolIntro ==
    ASSUME NEW S \in SUBSET Tx, NEW at \in [S -> Nat],
           NEW C \in SUBSET Resource, NEW spent \in [C -> Tx],
           IsFiniteSet(S), IndexExact([at |-> at, spent |-> spent])
    PROVE  [at |-> at, spent |-> spent] \in SoundPool
<1>1. [at |-> at, spent |-> spent] \in PoolType
  BY DEF PoolType
<1> QED
  BY <1>1 DEF SoundPool, Entries

\* A fresh pool is sound.
LEMMA EmptyPoolSound == EmptyPool \in SoundPool
<1>1. DOMAIN [t \in {} |-> 0] = {}
  OBVIOUS
<1>2. [t \in {} |-> 0] \in [{} -> Nat] /\ [c \in {} |-> 0] \in [{} -> Tx]
  OBVIOUS
<1>3. IndexExact([at |-> [t \in {} |-> 0], spent |-> [c \in {} |-> 0]])
  BY DEF IndexExact, Entries
<1>4. IsFiniteSet({}) /\ {} \in SUBSET Tx /\ {} \in SUBSET Resource
  BY FS_EmptySet
<1> QED
  BY <1>2, <1>3, <1>4, SoundPoolIntro DEF EmptyPool

\* Removing transactions takes their keys out of the index, and no others.
LEMMA RemoveEachSound ==
    ASSUME NEW p \in SoundPool, NEW ids
    PROVE  LET q == RemoveEach(p, ids)
           IN  /\ q \in SoundPool
               /\ Entries(q) = Entries(p) \ ids
               /\ \A t \in Entries(q) : q.at[t] = p.at[t]
<1> DEFINE gone == ids \cap Entries(p)
           held == {c \in DOMAIN p.spent : \E t \in gone : c \in Inputs[t] /\ p.spent[c] = t}
           S == Entries(p) \ gone
           C == DOMAIN p.spent \ held
           at == [e \in S |-> p.at[e]]
           spent == [c \in C |-> p.spent[c]]
<1>1. RemoveEach(p, ids) = [at |-> at, spent |-> spent]
  BY DEF RemoveEach
<1>2. /\ S \in SUBSET Tx /\ at \in [S -> Nat]
      /\ C \in SUBSET Resource /\ spent \in [C -> Tx]
  BY SoundPoolFacts
<1>3. IsFiniteSet(S)
  BY SoundPoolFacts, FS_Subset
<1>4. IndexExact([at |-> at, spent |-> spent])
  <2>1. C = UNION {Inputs[t] : t \in S}
    <3>1. ASSUME NEW c \in C PROVE c \in UNION {Inputs[t] : t \in S}
      <4>1. PICK t \in Entries(p) : c \in Inputs[t]
        BY SoundPoolFacts DEF IndexExact
      <4>2. p.spent[c] = t
        BY <4>1, SoundPoolFacts DEF IndexExact
      <4>3. t \notin gone
        BY <4>1, <4>2
      <4> QED
        BY <4>1, <4>3
    <3>2. ASSUME NEW t \in S, NEW c \in Inputs[t] PROVE c \in C
      <4>1. c \in DOMAIN p.spent /\ p.spent[c] = t
        BY SoundPoolFacts DEF IndexExact
      <4> QED
        BY <4>1
    <3> QED
      BY <3>1, <3>2
  <2>2. \A t \in S : \A c \in Inputs[t] : c \in C /\ p.spent[c] = t
    BY <2>1, SoundPoolFacts DEF IndexExact
  <2> QED
    BY <2>1, <2>2 DEF IndexExact, Entries
<1>5. [at |-> at, spent |-> spent] \in SoundPool
  BY <1>2, <1>3, <1>4, SoundPoolIntro
<1>6. S = Entries(p) \ ids /\ \A t \in S : at[t] = p.at[t]
  OBVIOUS
<1>7. Entries([at |-> at, spent |-> spent]) = S /\ [at |-> at, spent |-> spent].at = at
  BY DEF Entries
<1> HIDE DEF at, spent, S
<1> QED
  BY <1>1, <1>5, <1>6, <1>7

\* Admitting a transaction with no key in the index adds its keys.
LEMMA InsertSound ==
    ASSUME NEW p \in SoundPool, NEW t \in Tx, t \notin Entries(p),
           Inputs[t] \cap DOMAIN p.spent = {}, NEW h \in Nat
    PROVE  LET q == Insert(p, t, h)
           IN  /\ q \in SoundPool
               /\ Entries(q) = Entries(p) \cup {t}
               /\ q.at[t] = h
               /\ \A o \in Entries(p) : q.at[o] = p.at[o]
<1> DEFINE S == Entries(p) \cup {t}
           C == DOMAIN p.spent \cup Inputs[t]
           at == [e \in S |-> IF e = t THEN h ELSE p.at[e]]
           spent == [c \in C |-> IF c \in Inputs[t] THEN t ELSE p.spent[c]]
<1>1. Insert(p, t, h) = [at |-> at, spent |-> spent]
  BY DEF Insert
<1>2. Inputs[t] \subseteq Resource
  BY MempoolAssumption
<1>3. /\ S \in SUBSET Tx /\ at \in [S -> Nat]
      /\ C \in SUBSET Resource /\ spent \in [C -> Tx]
  BY <1>2, SoundPoolFacts
<1>4. IsFiniteSet(S)
  BY SoundPoolFacts, FS_AddElement
<1>5. IndexExact([at |-> at, spent |-> spent])
  <2>1. C = UNION {Inputs[o] : o \in S}
    BY SoundPoolFacts DEF IndexExact
  <2>2. \A o \in S : \A c \in Inputs[o] : spent[c] = o
    BY SoundPoolFacts DEF IndexExact
  <2> QED
    BY <2>1, <2>2 DEF IndexExact, Entries
<1>6. [at |-> at, spent |-> spent] \in SoundPool
  BY <1>3, <1>4, <1>5, SoundPoolIntro
<1>7. Entries([at |-> at, spent |-> spent]) = S /\ [at |-> at, spent |-> spent].at = at
  BY DEF Entries
<1>8. at[t] = h /\ \A o \in Entries(p) : at[o] = p.at[o]
  OBVIOUS
<1>9. S = Entries(p) \cup {t}
  OBVIOUS
<1> HIDE DEF at, spent, S
<1> QED
  BY <1>1, <1>6, <1>7, <1>8, <1>9

\* add() keeps the pool sound; what it adds could be mined in the next block.
LEMMA AddSound ==
    ASSUME NEW p \in SoundPool, NEW t \in Tx, NEW at, at.height \in Nat
    PROVE  LET q == Add(p, t, at)
           IN  /\ q \in SoundPool
               /\ \A o \in Entries(q) :
                     \/ o \in Entries(p) /\ q.at[o] = p.at[o]
                     \/ o = t /\ q.at[o] = at.height /\ Applies(t, at.state, at.height + 1)
<1> DEFINE q == Insert(p, t, at.height)
<1>1. CASE ~Admissible(p, t, at)
  BY <1>1 DEF Add
<1>2. CASE Admissible(p, t, at)
  <2>1. /\ q \in SoundPool /\ Entries(q) = Entries(p) \cup {t}
        /\ q.at[t] = at.height /\ \A o \in Entries(p) : q.at[o] = p.at[o]
    BY <1>2, InsertSound DEF Admissible
  <2>2. Add(p, t, at) = EvictCheapest(q) /\ Applies(t, at.state, at.height + 1)
    BY <1>2 DEF Add, Admissible
  <2> HIDE DEF q
  <2>3. CASE EvictCheapest(q) = q
    BY <2>1, <2>2, <2>3
  <2>4. CASE EvictCheapest(q) = RemoveEach(q, {Cheapest(q)})
    BY <2>1, <2>2, <2>4, RemoveEachSound
  <2> QED
    BY <2>3, <2>4 DEF EvictCheapest
<1> QED
  BY <1>1, <1>2

\* Offering a list of transactions one by one: what each leaves sound pools in,
\* from R[n - 1] to R[n], holds of the last.
LEMMA DisconnectedWalk ==
    ASSUME NEW p \in SoundPool, NEW txs \in Seq(Tx), NEW at, at.height \in Nat,
           NEW R, p \in R[0],
           \A n \in 1..Len(txs) : \A x \in SoundPool :
              x \in R[n - 1] => Add(x, txs[n], at) \in R[n]
    PROVE  /\ OnBlockDisconnected(p, txs, at) \in SoundPool
           /\ OnBlockDisconnected(p, txs, at) \in R[Len(txs)]
<1> DEFINE N == Len(txs)
           Step == [x \in SoundPool \X (1..N) |-> Add(x[1], txs[x[2]], at)]
           Is(q) == q = [n \in 0..N |-> IF n = 0 THEN p ELSE Add(q[n - 1], txs[n], at)]
           q == CHOOSE q : Is(q)
<1>1. N \in Nat /\ \A n \in 1..N : txs[n] \in Tx
  OBVIOUS
<1>2. \A x \in SoundPool : \A n \in 1..N : Add(x, txs[n], at) \in SoundPool
  BY <1>1, AddSound
<1>3. StepOn(Step, SoundPool, N)
  BY <1>2 DEF StepOn
<1>4. PICK f : RunOf(f, Step, SoundPool, p, N)
  <2> HIDE DEF Step, N
  <2> QED
    BY <1>1, <1>3, RecursionExists
<1>5. Is(f)
  <2>1. ASSUME NEW n \in 0..N
        PROVE  f[n] = IF n = 0 THEN p ELSE Add(f[n - 1], txs[n], at)
    <3>1. CASE n # 0
      <4>1. n \in 1..N /\ n - 1 \in 0..N
        BY <1>1, <3>1
      <4>2. f[n - 1] \in SoundPool /\ f[n] = Step[<<f[n - 1], n>>]
        BY <1>4, <4>1 DEF RunOf
      <4>3. Step[<<f[n - 1], n>>] = Add(f[n - 1], txs[n], at)
        BY <4>1, <4>2
      <4> QED
        BY <3>1, <4>2, <4>3
    <3> QED
      BY <1>4, <3>1 DEF RunOf
  <2>2. f \in [0..N -> SoundPool]
    BY <1>4 DEF RunOf
  <2> HIDE DEF N
  <2> QED
    BY <2>1, <2>2
<1>6. Is(q)
  <2> HIDE DEF Is
  <2> QED
    BY <1>5
<1>7. \A n \in 0..N : q[n] = IF n = 0 THEN p ELSE Add(q[n - 1], txs[n], at)
  <2> HIDE DEF q, N
  <2> QED
    BY <1>6
<1> DEFINE Both == [n \in 0..N |-> SoundPool \cap R[n]]
<1>8. q[0] \in Both[0] /\ \A n \in 1..N : q[n - 1] \in Both[n - 1] => q[n] \in Both[n]
  <2>1. q[0] = p /\ \A n \in 1..N : q[n] = Add(q[n - 1], txs[n], at)
    <3> HIDE DEF q
    <3> QED
      BY <1>1, <1>7
  <2> HIDE DEF q
  <2>2. \A n \in 1..N : n - 1 \in 0..N /\ n \in 0..N
    BY <1>1
  <2> QED
    BY <1>1, <1>2, <2>1, <2>2
<1>9. q[N] \in Both[N]
  <2> HIDE DEF q, N, Both
  <2>1. \A n \in 0..N : q[n] \in Both[n]
    BY <1>1, <1>8, IndexedClosure
  <2> QED
    BY <1>1, <2>1
<1>10. q[N] \in SoundPool /\ q[N] \in R[N]
  <2> HIDE DEF q
  <2> QED
    BY <1>1, <1>9
<1> QED
  BY <1>10 DEF OnBlockDisconnected

LEMMA DisconnectedSound ==
    ASSUME NEW p \in SoundPool, NEW txs \in Seq(Tx), NEW at, at.height \in Nat
    PROVE  OnBlockDisconnected(p, txs, at) \in SoundPool
<1> DEFINE All == [i \in 0..Len(txs) |-> SoundPool]
<1>1. Len(txs) \in Nat /\ \A i \in 1..Len(txs) : txs[i] \in Tx
  OBVIOUS
<1>2. p \in All[0]
  BY <1>1
<1>3. \A i \in 1..Len(txs) : \A y \in SoundPool :
         y \in All[i - 1] => Add(y, txs[i], at) \in All[i]
  BY <1>1, AddSound
<1> HIDE DEF All
<1> QED
  BY <1>2, <1>3, DisconnectedWalk

\* So for a list of blocks.
LEMMA RestoreWalk ==
    ASSUME NEW p \in SoundPool, NEW gone \in Seq(Seq(Tx)), NEW at, at.height \in Nat,
           NEW R, p \in R[0],
           \A n \in 1..Len(gone) : \A x \in SoundPool :
              x \in R[n - 1] => OnBlockDisconnected(x, gone[n], at) \in R[n]
    PROVE  Restore(p, gone, at) \in SoundPool /\ Restore(p, gone, at) \in R[Len(gone)]
<1> DEFINE N == Len(gone)
           Step == [x \in SoundPool \X (1..N) |-> OnBlockDisconnected(x[1], gone[x[2]], at)]
           Is(q) == q = [n \in 0..N |-> IF n = 0 THEN p ELSE OnBlockDisconnected(q[n - 1], gone[n], at)]
           q == CHOOSE q : Is(q)
<1>1. N \in Nat /\ \A n \in 1..N : gone[n] \in Seq(Tx)
  OBVIOUS
<1>2. \A x \in SoundPool : \A n \in 1..N : OnBlockDisconnected(x, gone[n], at) \in SoundPool
  BY <1>1, DisconnectedSound
<1>3. StepOn(Step, SoundPool, N)
  BY <1>2 DEF StepOn
<1>4. PICK f : RunOf(f, Step, SoundPool, p, N)
  <2> HIDE DEF Step, N
  <2> QED
    BY <1>1, <1>3, RecursionExists
<1>5. Is(f)
  <2>1. ASSUME NEW n \in 0..N
        PROVE  f[n] = IF n = 0 THEN p ELSE OnBlockDisconnected(f[n - 1], gone[n], at)
    <3>1. CASE n # 0
      <4>1. n \in 1..N /\ n - 1 \in 0..N
        BY <1>1, <3>1
      <4>2. f[n - 1] \in SoundPool /\ f[n] = Step[<<f[n - 1], n>>]
        BY <1>4, <4>1 DEF RunOf
      <4>3. Step[<<f[n - 1], n>>] = OnBlockDisconnected(f[n - 1], gone[n], at)
        BY <4>1, <4>2
      <4> QED
        BY <3>1, <4>2, <4>3
    <3> QED
      BY <1>4, <3>1 DEF RunOf
  <2>2. f \in [0..N -> SoundPool]
    BY <1>4 DEF RunOf
  <2> HIDE DEF N
  <2> QED
    BY <2>1, <2>2
<1>6. Is(q)
  <2> HIDE DEF Is
  <2> QED
    BY <1>5
<1>7. \A n \in 0..N : q[n] = IF n = 0 THEN p ELSE OnBlockDisconnected(q[n - 1], gone[n], at)
  <2> HIDE DEF q, N
  <2> QED
    BY <1>6
<1> DEFINE Both == [n \in 0..N |-> SoundPool \cap R[n]]
<1>8. q[0] \in Both[0] /\ \A n \in 1..N : q[n - 1] \in Both[n - 1] => q[n] \in Both[n]
  <2>1. q[0] = p /\ \A n \in 1..N : q[n] = OnBlockDisconnected(q[n - 1], gone[n], at)
    <3> HIDE DEF q
    <3> QED
      BY <1>1, <1>7
  <2> HIDE DEF q
  <2>2. \A n \in 1..N : n - 1 \in 0..N /\ n \in 0..N
    BY <1>1
  <2> QED
    BY <1>1, <1>2, <2>1, <2>2
<1>9. q[N] \in Both[N]
  <2> HIDE DEF q, N, Both
  <2>1. \A n \in 0..N : q[n] \in Both[n]
    BY <1>1, <1>8, IndexedClosure
  <2> QED
    BY <1>1, <2>1
<1>10. q[N] \in SoundPool /\ q[N] \in R[N]
  <2> HIDE DEF q
  <2> QED
    BY <1>1, <1>9
<1> QED
  BY <1>10 DEF Restore

LEMMA RestoreSound ==
    ASSUME NEW p \in SoundPool, NEW gone \in Seq(Seq(Tx)), NEW at, at.height \in Nat
    PROVE  Restore(p, gone, at) \in SoundPool
<1> DEFINE All == [i \in 0..Len(gone) |-> SoundPool]
<1>1. Len(gone) \in Nat /\ \A i \in 1..Len(gone) : gone[i] \in Seq(Tx)
  OBVIOUS
<1>2. p \in All[0]
  BY <1>1
<1>3. \A i \in 1..Len(gone) : \A y \in SoundPool :
         y \in All[i - 1] => OnBlockDisconnected(y, gone[i], at) \in All[i]
  BY <1>1, DisconnectedSound
<1> HIDE DEF All
<1> QED
  BY <1>2, <1>3, RestoreWalk

\* revalidate() leaves what could be mined next and has not expired.
LEMMA RevalidateSound ==
    ASSUME NEW p \in SoundPool, NEW at, at.height \in Nat
    PROVE  LET q == Revalidate(p, at)
           IN  /\ q \in SoundPool
               /\ \A t \in Entries(q) :
                     /\ Applies(t, at.state, at.height + 1)
                     /\ at.height - q.at[t] <= ExpiryBlocks
<1> DEFINE ids == {t \in Entries(p) :
                      \/ at.height - p.at[t] > ExpiryBlocks
                      \/ ~Applies(t, at.state, at.height + 1)}
           q == RemoveEach(p, ids)
<1>1. q \in SoundPool /\ Entries(q) = Entries(p) \ ids
      /\ \A t \in Entries(q) : q.at[t] = p.at[t]
  <2> HIDE DEF ids
  <2> QED
    BY RemoveEachSound
<1>2. Revalidate(p, at) = q
  BY DEF Revalidate
<1> HIDE DEF q
<1>3. ASSUME NEW t \in Entries(q)
      PROVE  Applies(t, at.state, at.height + 1) /\ at.height - q.at[t] <= ExpiryBlocks
  <2>1. t \in Entries(p) /\ t \notin ids /\ q.at[t] = p.at[t]
    BY <1>1
  <2>2. p.at[t] \in Nat /\ ExpiryBlocks \in Nat
    BY <2>1, SoundPoolFacts, MempoolAssumption
  <2> QED
    BY <2>1, <2>2
<1> QED
  BY <1>1, <1>2, <1>3

----------------------------------------------------------------------------
(***************************************************************************)
(* The world state.                                                        *)
(***************************************************************************)
WorldStates == UNION {[R -> Nat] : R \in SUBSET Resource}

LEMMA WorldState ==
    ASSUME NEW st \in WorldStates
    PROVE  DOMAIN st \subseteq Resource /\ st \in [DOMAIN st -> Nat]
BY DEF WorldStates

LEMMA AppliedState ==
    ASSUME NEW st \in WorldStates, NEW t \in Tx, NEW h \in Nat
    PROVE  /\ Apply(t, st, h) \in WorldStates
           /\ DOMAIN Apply(t, st, h) = (DOMAIN st \ Consumes[t]) \cup Creates[t]
<1> DEFINE R == (DOMAIN st \ Consumes[t]) \cup Creates[t]
<1>1. R \in SUBSET Resource
  BY WorldState, MempoolAssumption
<1>2. Apply(t, st, h) \in [R -> Nat]
  BY WorldState DEF Apply
<1> QED
  BY <1>1, <1>2 DEF WorldStates

\* The drafts of a block, one transaction after the other.
LEMMA DraftsWalk ==
    ASSUME NEW txs \in Seq(Tx), NEW st \in WorldStates, NEW h \in Nat
    PROVE  LET d == DraftsOf(txs, st, h)
           IN  /\ d \in [0..Len(txs) -> WorldStates]
               /\ d[0] = st
               /\ \A n \in 1..Len(txs) : d[n] = Apply(txs[n], d[n - 1], h)
<1> DEFINE N == Len(txs)
           Step == [x \in WorldStates \X (1..N) |-> Apply(txs[x[2]], x[1], h)]
           Is(q) == q = [n \in 0..N |-> IF n = 0 THEN st ELSE Apply(txs[n], q[n - 1], h)]
           q == CHOOSE q : Is(q)
<1>1. N \in Nat /\ \A n \in 1..N : txs[n] \in Tx
  OBVIOUS
<1>2. \A x \in WorldStates : \A n \in 1..N : Apply(txs[n], x, h) \in WorldStates
  BY <1>1, AppliedState
<1>3. StepOn(Step, WorldStates, N)
  BY <1>2 DEF StepOn
<1>4. PICK f : RunOf(f, Step, WorldStates, st, N)
  <2> HIDE DEF Step, N
  <2> QED
    BY <1>1, <1>3, RecursionExists
<1>5. Is(f)
  <2>1. ASSUME NEW n \in 0..N
        PROVE  f[n] = IF n = 0 THEN st ELSE Apply(txs[n], f[n - 1], h)
    <3>1. CASE n # 0
      <4>1. n \in 1..N /\ n - 1 \in 0..N
        BY <1>1, <3>1
      <4>2. f[n - 1] \in WorldStates /\ f[n] = Step[<<f[n - 1], n>>]
        BY <1>4, <4>1 DEF RunOf
      <4>3. Step[<<f[n - 1], n>>] = Apply(txs[n], f[n - 1], h)
        BY <4>1, <4>2
      <4> QED
        BY <3>1, <4>2, <4>3
    <3> QED
      BY <1>4, <3>1 DEF RunOf
  <2>2. f \in [0..N -> WorldStates]
    BY <1>4 DEF RunOf
  <2> HIDE DEF N
  <2> QED
    BY <2>1, <2>2
<1>6. Is(q)
  <2> HIDE DEF Is
  <2> QED
    BY <1>5
<1>7. /\ \A n \in 0..N : q[n] = IF n = 0 THEN st ELSE Apply(txs[n], q[n - 1], h)
      /\ q = [n \in 0..N |-> q[n]]
  <2> HIDE DEF q, N
  <2> QED
    BY <1>6
<1>8. q[0] = st /\ \A n \in 1..N : q[n] = Apply(txs[n], q[n - 1], h)
  <2> HIDE DEF q
  <2> QED
    BY <1>1, <1>7
<1>9. \A n \in 0..N : q[n] \in WorldStates
  <2>1. \A n \in 1..N : q[n - 1] \in WorldStates => q[n] \in WorldStates
    <3> HIDE DEF q
    <3> QED
      BY <1>2, <1>8
  <2> HIDE DEF q, N
  <2> QED
    BY <1>1, <1>8, <2>1, BoundedClosure
<1>10. q \in [0..N -> WorldStates]
  <2> HIDE DEF q, N
  <2> QED
    BY <1>7, <1>9
<1>11. DraftsOf(txs, st, h) = q
  BY DEF DraftsOf
<1> HIDE DEF q
<1> QED
  BY <1>8, <1>10, <1>11

LEMMA AllApplied ==
    ASSUME NEW txs \in Seq(Tx), NEW st \in WorldStates, NEW h \in Nat
    PROVE  ApplyAll(txs, st, h) \in WorldStates
<1>1. DraftsOf(txs, st, h) \in [0..Len(txs) -> WorldStates] /\ Len(txs) \in 0..Len(txs)
  BY DraftsWalk
<1> QED
  BY <1>1 DEF ApplyAll

LEMMA GenesisWorld == GenesisState \in WorldStates /\ DOMAIN GenesisState = Base
<1>1. GenesisState \in [Base -> Nat] /\ Base \in SUBSET Resource
  BY MempoolAssumption DEF GenesisState
<1> QED
  BY <1>1 DEF WorldStates

\* The states of a chain, one block after the other.
LEMMA StatesWalk ==
    ASSUME NEW blocks \in Seq(Seq(Tx))
    PROVE  LET s == StatesOf(blocks)
           IN  /\ s \in [0..Len(blocks) -> WorldStates]
               /\ s[0] = GenesisState
               /\ \A n \in 1..Len(blocks) : s[n] = ApplyAll(blocks[n], s[n - 1], n)
<1> DEFINE N == Len(blocks)
           Step == [x \in WorldStates \X (1..N) |-> ApplyAll(blocks[x[2]], x[1], x[2])]
           Is(q) == q = [n \in 0..N |-> IF n = 0 THEN GenesisState
                                        ELSE ApplyAll(blocks[n], q[n - 1], n)]
           q == CHOOSE q : Is(q)
<1>1. N \in Nat /\ \A n \in 1..N : blocks[n] \in Seq(Tx) /\ n \in Nat
  OBVIOUS
<1>2. \A x \in WorldStates : \A n \in 1..N : ApplyAll(blocks[n], x, n) \in WorldStates
  BY <1>1, AllApplied
<1>3. StepOn(Step, WorldStates, N)
  BY <1>2 DEF StepOn
<1>4. PICK f : RunOf(f, Step, WorldStates, GenesisState, N)
  <2> HIDE DEF Step, N
  <2> QED
    BY <1>1, <1>3, GenesisWorld, RecursionExists
<1>5. Is(f)
  <2>1. ASSUME NEW n \in 0..N
        PROVE  f[n] = IF n = 0 THEN GenesisState ELSE ApplyAll(blocks[n], f[n - 1], n)
    <3>1. CASE n # 0
      <4>1. n \in 1..N /\ n - 1 \in 0..N
        BY <1>1, <3>1
      <4>2. f[n - 1] \in WorldStates /\ f[n] = Step[<<f[n - 1], n>>]
        BY <1>4, <4>1 DEF RunOf
      <4>3. Step[<<f[n - 1], n>>] = ApplyAll(blocks[n], f[n - 1], n)
        BY <4>1, <4>2
      <4> QED
        BY <3>1, <4>2, <4>3
    <3> QED
      BY <1>4, <3>1 DEF RunOf
  <2>2. f \in [0..N -> WorldStates]
    BY <1>4 DEF RunOf
  <2> HIDE DEF N
  <2> QED
    BY <2>1, <2>2
<1>6. Is(q)
  <2> HIDE DEF Is
  <2> QED
    BY <1>5
<1>7. /\ \A n \in 0..N : q[n] = IF n = 0 THEN GenesisState ELSE ApplyAll(blocks[n], q[n - 1], n)
      /\ q = [n \in 0..N |-> q[n]]
  <2> HIDE DEF q, N
  <2> QED
    BY <1>6
<1>8. q[0] = GenesisState /\ \A n \in 1..N : q[n] = ApplyAll(blocks[n], q[n - 1], n)
  <2>1. 0 \in 0..N /\ \A n \in 1..N : n \in 0..N /\ n # 0
    BY <1>1
  <2> HIDE DEF q, N
  <2> QED
    BY <1>7, <2>1
<1>9. \A n \in 0..N : q[n] \in WorldStates
  <2>1. \A n \in 1..N : q[n - 1] \in WorldStates => q[n] \in WorldStates
    <3> HIDE DEF q
    <3> QED
      BY <1>2, <1>8
  <2> HIDE DEF q, N
  <2> QED
    BY <1>1, <1>8, <2>1, GenesisWorld, BoundedClosure
<1>10. q \in [0..N -> WorldStates]
  <2> HIDE DEF q, N
  <2> QED
    BY <1>7, <1>9
<1>11. StatesOf(blocks) = q
  BY DEF StatesOf
<1> HIDE DEF q
<1> QED
  BY <1>8, <1>10, <1>11

LEMMA TipState ==
    ASSUME NEW blocks \in Seq(Seq(Tx))
    PROVE  StateAt(blocks) \in WorldStates /\ Len(blocks) \in Nat
<1>1. StatesOf(blocks) \in [0..Len(blocks) -> WorldStates] /\ Len(blocks) \in 0..Len(blocks)
  BY StatesWalk
<1> QED
  BY <1>1 DEF StateAt

----------------------------------------------------------------------------
(***************************************************************************)
(* The block template.                                                     *)
(***************************************************************************)
ByFee(s) == \A i, j \in DOMAIN s : i < j => FeeRate[s[i]] > FeeRate[s[j]]

\* A finite set of transactions can be listed by fee rate.
LEMMA SortedExists ==
    ASSUME NEW B \in SUBSET Tx, IsFiniteSet(B)
    PROVE  \E s \in [1..Cardinality(B) -> B] : ByFee(s)
<1>1. /\ \A t \in B : FeeRate[t] \in Nat
      /\ \A t, o \in B : t # o => FeeRate[t] # FeeRate[o]
  BY MempoolAssumption
<1>2. \E s \in [1..Cardinality(B) -> B] : Range(s) = B /\ Falling(s, FeeRate)
  BY <1>1, RankedDown
<1> QED
  BY <1>2 DEF Falling, ByFee

\* forBlock() lists the entries.
LEMMA ForBlockType ==
    ASSUME NEW p \in SoundPool
    PROVE  ForBlock(p) \in Seq(Tx) /\ ForBlock(p) \in Seq(Entries(p))
<1> DEFINE B == Entries(p)
           n == Cardinality(B)
<1>1. B \in SUBSET Tx /\ IsFiniteSet(B)
  BY SoundPoolFacts
<1>2. n \in Nat
  BY <1>1, FS_CardinalityType
<1>3. ForBlock(p) = CHOOSE s \in [1..n -> B] : ByFee(s)
  BY DEF ForBlock, ByFee
<1> HIDE DEF B
<1>4. \E s \in [1..n -> B] : ByFee(s)
  BY <1>1, SortedExists
<1>5. ForBlock(p) \in [1..n -> B]
  BY <1>3, <1>4
<1> HIDE DEF n
<1>6. ForBlock(p) \in Seq(B) /\ ForBlock(p) \in Seq(Tx)
  BY <1>1, <1>2, <1>5
<1> QED
  BY <1>6 DEF B

\* What holds of every template under way holds of the one that is taken.
Templates == [draft : WorldStates, gas : Nat, included : Seq(Tx)]

LEMMA AssembleWalk ==
    ASSUME NEW txs \in Seq(Tx), NEW at, at.height \in Nat, NEW P,
           [draft |-> at.state, gas |-> 0, included |-> <<>>] \in P,
           \A a \in P : \A n \in 1..Len(txs) : Candidate(a, txs[n], at.height + 1) \in P
    PROVE  Assemble(txs, at) \in P
<1> DEFINE N == Len(txs)
           h == at.height + 1
           empty == [draft |-> at.state, gas |-> 0, included |-> <<>>]
           Step == [x \in P \X (1..N) |-> Candidate(x[1], txs[x[2]], h)]
           Is(q) == q = [n \in 0..N |-> IF n = 0 THEN empty ELSE Candidate(q[n - 1], txs[n], h)]
           q == CHOOSE q : Is(q)
<1>1. N \in Nat /\ \A n \in 1..N : txs[n] \in Tx
  OBVIOUS
<1> HIDE DEF empty
<1>2. StepOn(Step, P, N)
  BY DEF StepOn
<1>3. PICK f : RunOf(f, Step, P, empty, N)
  <2> HIDE DEF Step, N
  <2> QED
    BY <1>1, <1>2, RecursionExists DEF empty
<1>4. Is(f)
  <2>1. ASSUME NEW n \in 0..N
        PROVE  f[n] = IF n = 0 THEN empty ELSE Candidate(f[n - 1], txs[n], h)
    <3>1. CASE n # 0
      <4>1. n \in 1..N /\ n - 1 \in 0..N
        BY <1>1, <3>1
      <4>2. f[n - 1] \in P /\ f[n] = Step[<<f[n - 1], n>>]
        BY <1>3, <4>1 DEF RunOf
      <4>3. Step[<<f[n - 1], n>>] = Candidate(f[n - 1], txs[n], h)
        BY <4>1, <4>2
      <4> QED
        BY <3>1, <4>2, <4>3
    <3> QED
      BY <1>3, <3>1 DEF RunOf
  <2>2. f \in [0..N -> P]
    BY <1>3 DEF RunOf
  <2> HIDE DEF N
  <2> QED
    BY <2>1, <2>2
<1>5. Is(q)
  <2> HIDE DEF Is
  <2> QED
    BY <1>4
<1>6. \A n \in 0..N : q[n] = IF n = 0 THEN empty ELSE Candidate(q[n - 1], txs[n], h)
  <2> HIDE DEF q, N
  <2> QED
    BY <1>5
<1>7. q[0] \in P /\ \A n \in 1..N : q[n - 1] \in P => q[n] \in P
  <2> HIDE DEF q
  <2> QED
    BY <1>1, <1>6 DEF empty
<1>8. q[N] \in P
  <2> HIDE DEF q, N
  <2>1. \A n \in 0..N : q[n] \in P
    BY <1>1, <1>7, BoundedClosure
  <2> QED
    BY <1>1, <2>1
<1> QED
  BY <1>8 DEF Assemble, empty

LEMMA CandidateType ==
    ASSUME NEW a \in Templates, NEW t \in Tx, NEW h \in Nat
    PROVE  LET b == Candidate(a, t, h)
           IN  /\ b \in Templates
               /\ \/ b = a
                  \/ /\ Applies(t, a.draft, h) /\ b.draft = Apply(t, a.draft, h)
                     /\ b.included = a.included \/ b.included = Append(a.included, t)
<1> DEFINE d == Apply(t, a.draft, h)
           full == [a EXCEPT !.draft = d]
           more == [draft |-> d, gas |-> a.gas + Gas[t], included |-> Append(a.included, t)]
<1>1. a.draft \in WorldStates /\ a.gas \in Nat /\ a.included \in Seq(Tx) /\ Gas[t] \in Nat
  BY MempoolAssumption DEF Templates
<1>2. d \in WorldStates
  BY <1>1, AppliedState
<1>3. a.gas + Gas[t] \in Nat /\ Append(a.included, t) \in Seq(Tx)
  BY <1>1
<1>4. Candidate(a, t, h) = IF ~Applies(t, a.draft, h) THEN a
                           ELSE IF a.gas + Gas[t] > BlockGasLimit THEN full ELSE more
  BY DEF Candidate
<1> HIDE DEF d
<1>5. full \in Templates /\ full.draft = d /\ full.included = a.included
  BY <1>2 DEF Templates
<1>6. more \in Templates /\ more.draft = d /\ more.included = Append(a.included, t)
  BY <1>2, <1>3 DEF Templates
<1> HIDE DEF full, more
<1> QED
  BY <1>4, <1>5, <1>6 DEF d

\* A template holds transactions from the list it was made from.
LEMMA AssembleType ==
    ASSUME NEW txs \in Seq(Tx), NEW at, at.height \in Nat, at.state \in WorldStates
    PROVE  Assemble(txs, at) \in Templates
<1>1. [draft |-> at.state, gas |-> 0, included |-> <<>>] \in Templates
  BY DEF Templates
<1>2. at.height + 1 \in Nat /\ \A n \in 1..Len(txs) : txs[n] \in Tx
  OBVIOUS
<1>3. \A a \in Templates : \A n \in 1..Len(txs) :
         Candidate(a, txs[n], at.height + 1) \in Templates
  BY <1>2, CandidateType
<1> QED
  BY <1>1, <1>3, AssembleWalk

----------------------------------------------------------------------------
(***************************************************************************)
(* No coin comes back.  Every resource is in the genesis state or is made  *)
(* by one transaction, which spends a coin itself: so none is made twice,  *)
(* and a confirmed transaction applies nowhere on its chain.               *)
(***************************************************************************)
Made(D) == Base \cup UNION {Creates[t] : t \in D}

SpentOnce(D, st) ==
    /\ D \in SUBSET Tx /\ IsFiniteSet(D)
    /\ DOMAIN st \subseteq Made(D)
    /\ \A t \in D : Inputs[t] \subseteq Made(D) /\ Inputs[t] \cap DOMAIN st = {}
    /\ \A t, o \in D : t # o => Inputs[t] \cap Inputs[o] = {}

LEMMA GenesisSpends == SpentOnce({}, GenesisState)
BY GenesisWorld, FS_EmptySet DEF SpentOnce, Made

LEMMA ApplySpends ==
    ASSUME NEW st \in WorldStates, NEW D, SpentOnce(D, st), NEW t \in Tx, NEW h \in Nat,
           Inputs[t] \subseteq DOMAIN st
    PROVE  SpentOnce(D \cup {t}, Apply(t, st, h))
<1> DEFINE E == D \cup {t}
           R == (DOMAIN st \ Consumes[t]) \cup Creates[t]
<1>1. DOMAIN Apply(t, st, h) = R
  BY AppliedState
<1>2. /\ D \in SUBSET Tx /\ IsFiniteSet(D) /\ DOMAIN st \subseteq Made(D)
      /\ \A o \in D : Inputs[o] \subseteq Made(D) /\ Inputs[o] \cap DOMAIN st = {}
      /\ \A o, e \in D : o # e => Inputs[o] \cap Inputs[e] = {}
  BY DEF SpentOnce
<1>3. Inputs[t] # {} /\ Inputs[t] \subseteq Consumes[t] /\ t \notin D
  BY <1>2, MempoolAssumption
<1>4. Made(E) = Made(D) \cup Creates[t]
  BY DEF Made
<1>5. Made(D) \cap Creates[t] = {}
  <2>1. \A o \in D : Creates[o] \cap Creates[t] = {}
    BY <1>2, <1>3, MempoolAssumption
  <2> QED
    BY <2>1, MempoolAssumption DEF Made
<1>6. E \in SUBSET Tx /\ IsFiniteSet(E)
  BY <1>2, FS_AddElement
<1>7. R \subseteq Made(E)
  BY <1>2, <1>4
<1>8. \A o \in E : Inputs[o] \subseteq Made(D)
  BY <1>2
<1>9. \A o \in E : Inputs[o] \cap R = {}
  BY <1>2, <1>3, <1>5, <1>8
<1>10. \A o, e \in E : o # e => Inputs[o] \cap Inputs[e] = {}
  BY <1>2
<1> HIDE DEF E, R
<1>11. \A o \in E : Inputs[o] \subseteq Made(E)
  BY <1>4, <1>8
<1>12. SpentOnce(E, Apply(t, st, h))
  BY <1>1, <1>6, <1>7, <1>9, <1>10, <1>11 DEF SpentOnce
<1> QED
  BY <1>12 DEF E

\* The transactions of a body up to one of them.
Upto(txs, n) == {txs[i] : i \in 1..n}

LEMMA UptoNext ==
    ASSUME NEW txs, NEW n \in Nat \ {0}
    PROVE  Upto(txs, 0) = {} /\ Upto(txs, n) = Upto(txs, n - 1) \cup {txs[n]}
<1>1. 1..0 = {} /\ 1..n = (1..(n - 1)) \cup {n}
  OBVIOUS
<1>2. Upto(txs, 0) = {}
  BY <1>1 DEF Upto
<1>3. Upto(txs, n) = Upto(txs, n - 1) \cup {txs[n]}
  BY <1>1 DEF Upto
<1> QED
  BY <1>2, <1>3

LEMMA BodySpends ==
    ASSUME NEW txs \in Seq(Tx), NEW st \in WorldStates, NEW h \in Nat,
           NEW D, SpentOnce(D, st), BodyOk(txs, st, h)
    PROVE  SpentOnce(D \cup Range(txs), ApplyAll(txs, st, h))
<1> DEFINE N == Len(txs)
           d == DraftsOf(txs, st, h)
           R == [n \in 0..N |-> {s \in WorldStates : SpentOnce(D \cup Upto(txs, n), s)}]
<1>1. N \in Nat /\ DOMAIN txs = 1..N /\ \A n \in 1..N : txs[n] \in Tx
  OBVIOUS
<1>2. /\ d \in [0..N -> WorldStates] /\ d[0] = st
      /\ \A n \in 1..N : d[n] = Apply(txs[n], d[n - 1], h)
  BY DraftsWalk
<1>3. \A n \in 1..N : Inputs[txs[n]] \subseteq DOMAIN d[n - 1]
  <2>1. \A n \in 1..N : Applies(txs[n], d[n - 1], h)
    BY <1>1 DEF BodyOk
  <2> QED
    BY <1>1, <2>1, MempoolAssumption DEF Applies
<1> HIDE DEF d, N
<1>4. d[0] \in R[0]
  <2>1. Upto(txs, 0) = {} /\ D \cup {} = D
    BY UptoNext
  <2>2. SpentOnce(D \cup Upto(txs, 0), st)
    BY <2>1
  <2> QED
    BY <1>1, <1>2, <2>2
<1>5. ASSUME NEW n \in 1..N, d[n - 1] \in R[n - 1] PROVE d[n] \in R[n]
  <2>1. n - 1 \in 0..N /\ n \in 0..N /\ n \in Nat \ {0}
    BY <1>1
  <2> DEFINE E == D \cup Upto(txs, n - 1)
             s == d[n - 1]
  <2>2. s \in WorldStates /\ SpentOnce(E, s)
    BY <1>5, <2>1
  <2>3. Inputs[txs[n]] \subseteq DOMAIN s /\ txs[n] \in Tx
    BY <1>1, <1>3
  <2>4. E \cup {txs[n]} = D \cup Upto(txs, n)
    BY <2>1, UptoNext
  <2> HIDE DEF E, s
  <2>5. SpentOnce(E \cup {txs[n]}, Apply(txs[n], s, h))
    BY <2>2, <2>3, ApplySpends
  <2>6. d[n] = Apply(txs[n], s, h) /\ d[n] \in WorldStates
    BY <1>2, <2>1 DEF s
  <2>7. SpentOnce(D \cup Upto(txs, n), d[n])
    BY <2>4, <2>5, <2>6
  <2> QED
    BY <2>1, <2>6, <2>7
<1>6. d[N] \in R[N]
  <2> HIDE DEF R
  <2>1. \A n \in 0..N : d[n] \in R[n]
    BY <1>1, <1>4, <1>5, IndexedClosure
  <2> QED
    BY <1>1, <2>1
<1>7. SpentOnce(D \cup Upto(txs, N), d[N])
  BY <1>1, <1>6
<1>8. Upto(txs, N) = Range(txs)
  BY <1>1 DEF Upto, Range
<1> QED
  BY <1>7, <1>8 DEF ApplyAll, d, N

LEMMA ChainSpends ==
    ASSUME NEW blocks \in Seq(Seq(Tx)), ChainOk(blocks)
    PROVE  SpentOnce(Confirmed(blocks), StateAt(blocks))
<1> DEFINE N == Len(blocks)
           s == StatesOf(blocks)
           C(n) == UNION {Range(blocks[i]) : i \in 1..n}
           R == [n \in 0..N |-> {w \in WorldStates : SpentOnce(C(n), w)}]
<1>1. N \in Nat /\ DOMAIN blocks = 1..N /\ \A n \in 1..N : blocks[n] \in Seq(Tx)
  OBVIOUS
<1>2. /\ s \in [0..N -> WorldStates] /\ s[0] = GenesisState
      /\ \A n \in 1..N : s[n] = ApplyAll(blocks[n], s[n - 1], n)
  BY StatesWalk
<1>3. \A n \in 1..N : BodyOk(blocks[n], s[n - 1], n)
  BY <1>1 DEF ChainOk
<1> HIDE DEF s, N
<1>4. s[0] \in R[0]
  <2>1. C(0) = {} /\ 0 \in 0..N
    BY <1>1
  <2>2. s[0] \in WorldStates /\ SpentOnce(C(0), s[0])
    <3> HIDE DEF C
    <3> QED
      BY <1>2, <2>1, GenesisWorld, GenesisSpends
  <2> HIDE DEF C
  <2> QED
    BY <2>1, <2>2
<1>5. ASSUME NEW n \in 1..N, s[n - 1] \in R[n - 1] PROVE s[n] \in R[n]
  <2>1. n - 1 \in 0..N /\ n \in 0..N /\ n \in Nat
    BY <1>1
  <2> DEFINE w == s[n - 1]
             body == blocks[n]
  <2>2. w \in WorldStates /\ SpentOnce(C(n - 1), w)
    <3> HIDE DEF C
    <3> QED
      BY <1>5, <2>1
  <2>3. BodyOk(body, w, n) /\ body \in Seq(Tx)
    BY <1>1, <1>3
  <2>4. C(n - 1) \cup Range(body) = C(n)
    <3>1. 1..n = (1..(n - 1)) \cup {n}
      BY <2>1
    <3> QED
      BY <3>1
  <2> HIDE DEF w, body, C
  <2>5. SpentOnce(C(n - 1) \cup Range(body), ApplyAll(body, w, n))
    BY <2>1, <2>2, <2>3, BodySpends
  <2>6. s[n] = ApplyAll(body, w, n) /\ s[n] \in WorldStates
    BY <1>2, <2>1 DEF w, body
  <2>7. SpentOnce(C(n), s[n])
    BY <2>4, <2>5, <2>6
  <2> QED
    BY <2>1, <2>6, <2>7
<1>6. s[N] \in R[N]
  <2> HIDE DEF R
  <2>1. \A n \in 0..N : s[n] \in R[n]
    BY <1>1, <1>4, <1>5, IndexedClosure
  <2> QED
    BY <1>1, <2>1
<1>7. SpentOnce(C(N), s[N])
  <2> HIDE DEF C
  <2> QED
    BY <1>1, <1>6
<1>8. Confirmed(blocks) = C(N)
  BY <1>1 DEF Confirmed
<1> QED
  BY <1>7, <1>8 DEF StateAt, s, N

\* A block on top of a chain is applied to the chain's state.
LEMMA Appended ==
    ASSUME NEW blocks \in Seq(Seq(Tx)), NEW body \in Seq(Tx)
    PROVE  LET more == Append(blocks, body)
           IN  /\ StateAt(more) = ApplyAll(body, StateAt(blocks), Len(blocks) + 1)
               /\ Confirmed(more) = Confirmed(blocks) \cup Range(body)
<1> DEFINE more == Append(blocks, body)
           N == Len(blocks)
           s == StatesOf(blocks)
           r == StatesOf(more)
           Same == [n \in 0..N |-> {s[n]}]
<1>1. /\ N \in Nat /\ DOMAIN blocks = 1..N
      /\ more \in Seq(Seq(Tx)) /\ Len(more) = N + 1 /\ DOMAIN more = 1..(N + 1)
      /\ more[N + 1] = body /\ \A n \in 1..N : more[n] = blocks[n]
  OBVIOUS
<1>2. s[0] = GenesisState /\ \A n \in 1..N : s[n] = ApplyAll(blocks[n], s[n - 1], n)
  BY StatesWalk
<1>3. r[0] = GenesisState /\ \A n \in 1..(N + 1) : r[n] = ApplyAll(more[n], r[n - 1], n)
  <2> HIDE DEF more
  <2> QED
    BY <1>1, StatesWalk
<1> HIDE DEF more, N, s, r
<1>4. \A n \in 1..N : n \in 0..N /\ n - 1 \in 0..N /\ n \in 1..(N + 1)
  BY <1>1
<1>5. r[N] = s[N]
  <2>1. r[0] \in Same[0]
    BY <1>1, <1>2, <1>3
  <2>2. \A n \in 1..N : r[n - 1] \in Same[n - 1] => r[n] \in Same[n]
    BY <1>1, <1>2, <1>3, <1>4
  <2>3. \A n \in 0..N : r[n] \in Same[n]
    <3> HIDE DEF Same
    <3> QED
      BY <1>1, <2>1, <2>2, IndexedClosure
  <2> QED
    BY <1>1, <2>3
<1>6. r[N + 1] = ApplyAll(body, s[N], N + 1)
  <2>1. N + 1 \in 1..(N + 1) /\ (N + 1) - 1 = N
    BY <1>1
  <2> QED
    BY <1>1, <1>3, <1>5, <2>1
<1>7. StateAt(more) = ApplyAll(body, StateAt(blocks), Len(blocks) + 1)
  BY <1>1, <1>6 DEF StateAt, r, s, N
<1>8. Confirmed(more) = Confirmed(blocks) \cup Range(body)
  <2>1. 1..(N + 1) = (1..N) \cup {N + 1}
    BY <1>1
  <2> QED
    BY <1>1, <2>1 DEF Confirmed
<1> QED
  BY <1>7, <1>8 DEF more

\* A body leaves resources that were there or that it makes.
LEMMA BodyMakes ==
    ASSUME NEW txs \in Seq(Tx), NEW st \in WorldStates, NEW h \in Nat
    PROVE  DOMAIN ApplyAll(txs, st, h)
              \subseteq DOMAIN st \cup UNION {Creates[t] : t \in Range(txs)}
<1> DEFINE N == Len(txs)
           d == DraftsOf(txs, st, h)
           M == DOMAIN st \cup UNION {Creates[t] : t \in Range(txs)}
           P == {w \in WorldStates : DOMAIN w \subseteq M}
<1>1. N \in Nat /\ \A n \in 1..N : txs[n] \in Tx /\ txs[n] \in Range(txs)
  BY DEF Range
<1>2. /\ d \in [0..N -> WorldStates] /\ d[0] = st
      /\ \A n \in 1..N : d[n] = Apply(txs[n], d[n - 1], h)
  BY DraftsWalk
<1> HIDE DEF d, N
<1>3. ASSUME NEW n \in 1..N, d[n - 1] \in P PROVE d[n] \in P
  <2> DEFINE w == d[n - 1]
  <2>1. w \in WorldStates /\ DOMAIN w \subseteq M
    BY <1>3
  <2>2. d[n] = Apply(txs[n], w, h) /\ txs[n] \in Tx /\ Creates[txs[n]] \subseteq M
    BY <1>1, <1>2
  <2> DEFINE u == txs[n]
  <2> HIDE DEF w, M, u
  <2>3. /\ Apply(u, w, h) \in WorldStates
        /\ DOMAIN Apply(u, w, h) = (DOMAIN w \ Consumes[u]) \cup Creates[u]
    BY <2>1, <2>2, AppliedState DEF u
  <2> QED
    BY <2>1, <2>2, <2>3 DEF u
<1>4. d[0] \in P
  BY <1>2
<1>5. \A n \in 0..N : d[n] \in P
  <2> HIDE DEF P
  <2> QED
    BY <1>1, <1>3, <1>4, BoundedClosure
<1>6. d[N] \in P
  BY <1>1, <1>5
<1> QED
  BY <1>6 DEF ApplyAll, d, N

EachMineable(E, st) ==
    /\ E \in SUBSET Tx /\ IsFiniteSet(E)
    /\ \A t \in E : Inputs[t] \subseteq DOMAIN st
    /\ \A t, o \in E : t # o => Inputs[t] \cap Inputs[o] = {}

\* A block mined from a pool each of whose transactions applies to the tip,
\* if its draft is where its transactions lead.
LEMMA MinedSpends ==
    ASSUME NEW at, NEW st \in WorldStates, NEW h \in Nat, at.state = st, at.height = h,
           NEW D, SpentOnce(D, st),
           NEW E, EachMineable(E, st), NEW txs \in Seq(E),
           NEW a, a = Assemble(txs, at),
           a.draft = ApplyAll(a.included, st, h + 1)
    PROVE  a.included \in Seq(Tx) /\ SpentOnce(D \cup Range(a.included), a.draft)
<1> DEFINE P == {b \in Templates :
                    /\ Range(b.included) \subseteq E
                    /\ \A t \in Range(b.included) : Inputs[t] \cap DOMAIN b.draft = {}}
           I == Range(a.included)
<1>0. /\ E \in SUBSET Tx /\ IsFiniteSet(E)
      /\ \A t \in E : Inputs[t] \subseteq DOMAIN st
      /\ \A t, o \in E : t # o => Inputs[t] \cap Inputs[o] = {}
  BY DEF EachMineable
<1>1. /\ D \in SUBSET Tx /\ IsFiniteSet(D) /\ DOMAIN st \subseteq Made(D)
      /\ \A t \in D : Inputs[t] \subseteq Made(D) /\ Inputs[t] \cap DOMAIN st = {}
      /\ \A t, o \in D : t # o => Inputs[t] \cap Inputs[o] = {}
  BY DEF SpentOnce
<1>2. \A t \in E : /\ Inputs[t] # {} /\ Inputs[t] \subseteq Consumes[t]
                   /\ Inputs[t] \subseteq Made(D) /\ t \notin D
  BY <1>0, <1>1, MempoolAssumption
<1>3. \A t \in E : Creates[t] \cap Made(D) = {}
  <2> SUFFICES ASSUME NEW t \in E PROVE Creates[t] \cap Made(D) = {}
    OBVIOUS
  <2>1. \A o \in D : Creates[t] \cap Creates[o] = {}
    BY <1>0, <1>1, <1>2, MempoolAssumption
  <2> QED
    BY <1>0, <2>1, MempoolAssumption DEF Made
<1>4. [draft |-> at.state, gas |-> 0, included |-> <<>>] \in P
  BY DEF Templates, Range
<1>5. ASSUME NEW b \in P, NEW t \in E PROVE Candidate(b, t, h + 1) \in P
  <2> DEFINE c == Candidate(b, t, h + 1)
  <2>1. /\ b \in Templates /\ b.draft \in WorldStates /\ b.included \in Seq(Tx)
        /\ Range(b.included) \subseteq E
        /\ \A o \in Range(b.included) : Inputs[o] \cap DOMAIN b.draft = {}
    BY DEF Templates
  <2>2. /\ c \in Templates
        /\ \/ c = b
           \/ /\ c.draft = Apply(t, b.draft, h + 1)
              /\ c.included = b.included \/ c.included = Append(b.included, t)
    BY <1>0, <2>1, CandidateType, h + 1 \in Nat
  <2> HIDE DEF c
  <2>3. CASE c = b
    BY <2>3 DEF c
  <2>4. CASE /\ c.draft = Apply(t, b.draft, h + 1)
             /\ c.included = b.included \/ c.included = Append(b.included, t)
    <3>1. DOMAIN c.draft = (DOMAIN b.draft \ Consumes[t]) \cup Creates[t]
      <4> DEFINE w == b.draft
      <4>1. w \in WorldStates /\ t \in Tx /\ h + 1 \in Nat /\ c.draft = Apply(t, w, h + 1)
        BY <1>0, <2>1, <2>4
      <4> HIDE DEF w
      <4> DEFINE k == h + 1
      <4>2. k \in Nat
        BY <4>1
      <4> HIDE DEF k
      <4>3. DOMAIN Apply(t, w, k) = (DOMAIN w \ Consumes[t]) \cup Creates[t]
        BY <4>1, <4>2, AppliedState
      <4> QED
        BY <4>1, <4>3 DEF w, k
    <3>2. Range(c.included) \subseteq Range(b.included) \cup {t}
      <4>1. Range(Append(b.included, t)) = Range(b.included) \cup {t}
        <5> DEFINE l == b.included
        <5>1. l \in Seq(Tx) /\ t \in Tx
          BY <1>0, <2>1
        <5> HIDE DEF l
        <5>2. /\ DOMAIN Append(l, t) = 1..(Len(l) + 1) /\ DOMAIN l = 1..Len(l) /\ Len(l) \in Nat
              /\ Append(l, t)[Len(l) + 1] = t /\ \A i \in 1..Len(l) : Append(l, t)[i] = l[i]
          BY <5>1
        <5>3. Range(Append(l, t)) = Range(l) \cup {t}
          BY <5>2 DEF Range
        <5> QED
          BY <5>3 DEF l
      <4> QED
        BY <2>4, <4>1
    <3>3. \A o \in Range(c.included) : Inputs[o] \cap DOMAIN c.draft = {}
      BY <1>2, <1>3, <2>1, <3>1, <3>2
    <3> QED
      BY <2>1, <2>2, <3>2, <3>3 DEF c
  <2> QED
    BY <2>2, <2>3, <2>4
<1>6. a \in P
  <2>1. txs \in Seq(Tx) /\ \A n \in 1..Len(txs) : txs[n] \in E
    BY <1>0
  <2>2. at.height \in Nat /\ at.height + 1 = h + 1
    OBVIOUS
  <2> HIDE DEF P
  <2>3. \A b \in P : \A n \in 1..Len(txs) : Candidate(b, txs[n], at.height + 1) \in P
    BY <1>5, <2>1, <2>2
  <2>4. Assemble(txs, at) \in P
    BY <1>4, <2>1, <2>2, <2>3, AssembleWalk
  <2> QED
    BY <2>4
<1>7. /\ a.included \in Seq(Tx) /\ I \subseteq E
      /\ \A t \in I : Inputs[t] \cap DOMAIN a.draft = {}
  BY <1>6 DEF Templates
<1>8. DOMAIN a.draft \subseteq DOMAIN st \cup UNION {Creates[t] : t \in I}
  BY <1>7, BodyMakes
<1>9. IsFiniteSet(I)
  BY <1>0, <1>7, FS_Subset
<1> HIDE DEF I
<1>10. D \cup I \in SUBSET Tx /\ IsFiniteSet(D \cup I)
  BY <1>0, <1>1, <1>7, <1>9, FS_Union
<1>11. Made(D) \subseteq Made(D \cup I) /\ DOMAIN a.draft \subseteq Made(D \cup I)
  BY <1>1, <1>8 DEF Made
<1>12. \A t \in D : Inputs[t] \cap DOMAIN a.draft = {}
  BY <1>1, <1>3, <1>7, <1>8
<1>13. \A t, o \in D \cup I : t # o => Inputs[t] \cap Inputs[o] = {}
  <2>1. \A t \in D : \A o \in I : Inputs[t] \cap Inputs[o] = {}
    BY <1>0, <1>1, <1>7
  <2> QED
    BY <1>0, <1>1, <1>7, <2>1
<1>14. SpentOnce(D \cup I, a.draft)
  BY <1>1, <1>2, <1>7, <1>10, <1>11, <1>12, <1>13 DEF SpentOnce
<1> QED
  BY <1>7, <1>14 DEF I

----------------------------------------------------------------------------
(***************************************************************************)
(* What a reorganisation gives back to the pool.  p is the pool before it, *)
(* B the transactions that are in none of the new chain's blocks any more, *)
(* W those of B that could be mined next, S those of W already offered.    *)
(***************************************************************************)
Crowded(t, U) == Cardinality({o \in U : FeeRate[o] > FeeRate[t]}) >= MaxSize

Returning(p, B, W, at) ==
    /\ B \in SUBSET Tx /\ IsFiniteSet(B) /\ W \subseteq B
    /\ \A t \in B : Inputs[t] \cap DOMAIN p.spent = {}
    /\ \A t, o \in B : t # o => Inputs[t] \cap Inputs[o] = {}
    /\ \A t \in W : Applies(t, at.state, at.height + 1) /\ FeeRate[t] >= MinFeeRate

Track(q, p, B, S, at) ==
    /\ Entries(q) \subseteq Entries(p) \cup B
    /\ \A t \in Entries(q) \cap B : q.at[t] = at.height
    /\ \A t \in S : t \in Entries(q) \/ Crowded(t, Entries(p) \cup B)

LEMMA CheapestCrowded ==
    ASSUME NEW r \in SoundPool, NEW U \in SUBSET Tx, IsFiniteSet(U), Entries(r) \subseteq U,
           Cardinality(Entries(r)) > MaxSize
    PROVE  Crowded(Cheapest(r), U)
<1> DEFINE E == Entries(r)
           x == Cheapest(r)
           dearer == {o \in U : FeeRate[o] > FeeRate[x]}
           F == {FeeRate[e] : e \in E}
<1>1. E \subseteq Tx /\ IsFiniteSet(E) /\ \A e \in E : FeeRate[e] \in Nat
  BY SoundPoolFacts, MempoolAssumption
<1>2. Cardinality(E) \in Nat /\ MaxSize \in Nat
  BY <1>1, FS_CardinalityType, MempoolAssumption
<1>3. E # {}
  BY <1>2, FS_EmptySet
<1>4. F \in SUBSET Nat /\ F # {}
  BY <1>1, <1>3
<1>5. PICK f \in F : \A g \in F : f <= g
  <2> HIDE DEF F
  <2> QED
    BY <1>4, NatLeast
<1>6. \E e \in E : \A o \in E : FeeRate[e] <= FeeRate[o]
  BY <1>5
<1>7. x \in E /\ \A o \in E : FeeRate[x] <= FeeRate[o]
  BY <1>6 DEF Cheapest
<1> HIDE DEF x, E
<1>8. E \ {x} \subseteq dearer
  <2> SUFFICES ASSUME NEW o \in E \ {x} PROVE FeeRate[o] > FeeRate[x]
    BY DEF E
  <2>1. FeeRate[o] # FeeRate[x] /\ FeeRate[x] <= FeeRate[o]
    BY <1>1, <1>7, MempoolAssumption
  <2> QED
    BY <1>1, <1>7, <2>1
<1>9. IsFiniteSet(dearer) /\ Cardinality(dearer) \in Nat
  BY FS_Subset, FS_CardinalityType
<1> HIDE DEF dearer
<1>10. Cardinality(E \ {x}) = Cardinality(E) - 1 /\ Cardinality(E \ {x}) <= Cardinality(dearer)
  BY <1>1, <1>7, <1>8, <1>9, FS_RemoveElement, FS_Subset
<1>11. Cardinality(dearer) >= MaxSize
  BY <1>2, <1>9, <1>10 DEF E
<1> QED
  BY <1>11 DEF Crowded, dearer, x

LEMMA AddTracks ==
    ASSUME NEW p \in SoundPool, NEW at, at.height \in Nat, NEW B, NEW W, Returning(p, B, W, at),
           NEW q \in SoundPool, NEW S \in SUBSET W, Track(q, p, B, S, at), NEW t \in Tx,
           t \in B \/ ~Applies(t, at.state, at.height + 1)
    PROVE  Track(Add(q, t, at), p, B, S \cup ({t} \cap W), at)
<1> DEFINE U == Entries(p) \cup B
           T == S \cup ({t} \cap W)
           r == Insert(q, t, at.height)
<1>1. /\ Entries(q) \subseteq U
      /\ \A o \in Entries(q) \cap B : q.at[o] = at.height
      /\ \A o \in S : o \in Entries(q) \/ Crowded(o, U)
  BY DEF Track
<1>2. /\ B \in SUBSET Tx /\ IsFiniteSet(B) /\ W \subseteq B
      /\ \A o \in B : Inputs[o] \cap DOMAIN p.spent = {}
      /\ \A o, e \in B : o # e => Inputs[o] \cap Inputs[e] = {}
      /\ \A o \in W : Applies(o, at.state, at.height + 1) /\ FeeRate[o] >= MinFeeRate
  BY DEF Returning
<1>3. U \in SUBSET Tx /\ IsFiniteSet(U)
  BY <1>2, SoundPoolFacts, FS_Union
<1>4. CASE ~Admissible(q, t, at)
  <2>1. ASSUME t \in W PROVE t \in Entries(q)
    <3>1. CASE Inputs[t] \cap DOMAIN q.spent # {}
      <4>1. PICK c \in Inputs[t] : c \in DOMAIN q.spent
        BY <3>1
      <4>2. PICK o \in Entries(q) : c \in Inputs[o]
        BY <4>1, SoundPoolFacts DEF IndexExact
      <4>3. o \notin Entries(p)
        <5>1. o \in Entries(p) => c \in DOMAIN p.spent
          BY <4>2, SoundPoolFacts DEF IndexExact
        <5> QED
          BY <1>2, <2>1, <4>1, <5>1
      <4>4. o = t
        BY <1>1, <1>2, <2>1, <4>1, <4>2, <4>3
      <4> QED
        BY <4>2, <4>4
    <3>2. CASE Inputs[t] \cap DOMAIN q.spent = {}
      BY <1>2, <1>4, <2>1, <3>2 DEF Admissible
    <3> QED
      BY <3>1, <3>2
  <2>2. Add(q, t, at) = q
    BY <1>4 DEF Add
  <2>3. \A o \in T : o \in Entries(q) \/ Crowded(o, U)
    BY <1>1, <2>1
  <2> HIDE DEF T
  <2>4. Track(q, p, B, T, at)
    BY <1>1, <2>3 DEF Track
  <2> QED
    BY <2>2, <2>4 DEF T
<1>5. CASE Admissible(q, t, at)
  <2>1. t \in B
    BY <1>5 DEF Admissible
  <2>2. /\ r \in SoundPool /\ Entries(r) = Entries(q) \cup {t}
        /\ r.at[t] = at.height /\ \A o \in Entries(q) : r.at[o] = q.at[o]
    BY <1>5, InsertSound DEF Admissible
  <2>3. Add(q, t, at) = EvictCheapest(r)
    BY <1>5 DEF Add
  <2> HIDE DEF r
  <2>4. /\ Entries(r) \subseteq U
        /\ \A o \in Entries(r) \cap B : r.at[o] = at.height
        /\ \A o \in T : o \in Entries(r) \/ Crowded(o, U)
    BY <1>1, <2>1, <2>2
  <2>5. CASE ~(Cardinality(Entries(r)) > MaxSize)
    <3>1. Add(q, t, at) = r
      BY <2>3, <2>5 DEF EvictCheapest
    <3> QED
      BY <2>4, <3>1 DEF Track
  <2>6. CASE Cardinality(Entries(r)) > MaxSize
    <3> DEFINE x == Cheapest(r)
               z == RemoveEach(r, {x})
    <3>1. Crowded(x, U)
      BY <1>3, <2>2, <2>4, <2>6, CheapestCrowded
    <3>2. Entries(z) = Entries(r) \ {x} /\ \A o \in Entries(z) : z.at[o] = r.at[o]
      BY <2>2, RemoveEachSound
    <3>3. Add(q, t, at) = z
      BY <2>3, <2>6 DEF EvictCheapest
    <3> HIDE DEF x, z
    <3>4. /\ Entries(z) \subseteq U
          /\ \A o \in Entries(z) \cap B : z.at[o] = at.height
          /\ \A o \in T : o \in Entries(z) \/ Crowded(o, U)
      BY <2>4, <3>1, <3>2
    <3> QED
      BY <3>3, <3>4 DEF Track
  <2> QED
    BY <2>5, <2>6
<1> QED
  BY <1>4, <1>5

\* A disconnected block is offered.
LEMMA DisconnectedTracks ==
    ASSUME NEW p \in SoundPool, NEW at, at.height \in Nat, NEW B, NEW W, Returning(p, B, W, at),
           NEW q \in SoundPool, NEW S \in SUBSET W, Track(q, p, B, S, at), NEW txs \in Seq(Tx),
           \A t \in Range(txs) : t \in B \/ ~Applies(t, at.state, at.height + 1)
    PROVE  /\ OnBlockDisconnected(q, txs, at) \in SoundPool
           /\ Track(OnBlockDisconnected(q, txs, at), p, B, S \cup (Range(txs) \cap W), at)
<1> DEFINE N == Len(txs)
           Offered(n) == S \cup (Upto(txs, n) \cap W)
           R == [n \in 0..N |-> {x \in SoundPool : Track(x, p, B, Offered(n), at)}]
<1>1. /\ N \in Nat /\ DOMAIN txs = 1..N
      /\ \A n \in 1..N : txs[n] \in Tx /\ txs[n] \in Range(txs)
  BY DEF Range
<1>2. q \in R[0]
  <2>1. Offered(0) = S
    BY UptoNext
  <2> HIDE DEF Offered
  <2> QED
    BY <1>1, <2>1
<1>3. ASSUME NEW n \in 1..N, NEW x \in SoundPool, x \in R[n - 1]
      PROVE  Add(x, txs[n], at) \in R[n]
  <2>1. n - 1 \in 0..N /\ n \in 0..N /\ n \in Nat \ {0}
    BY <1>1
  <2>2. Track(x, p, B, Offered(n - 1), at)
    <3> HIDE DEF Offered
    <3> QED
      BY <1>3, <2>1
  <2>3. Offered(n - 1) \in SUBSET W /\ Offered(n) = Offered(n - 1) \cup ({txs[n]} \cap W)
    BY <2>1, UptoNext
  <2> HIDE DEF Offered
  <2>4. txs[n] \in Tx /\ (txs[n] \in B \/ ~Applies(txs[n], at.state, at.height + 1))
    BY <1>1
  <2>5. Track(Add(x, txs[n], at), p, B, Offered(n), at)
    BY <2>2, <2>3, <2>4, AddTracks
  <2>6. Add(x, txs[n], at) \in SoundPool
    BY <2>4, AddSound
  <2> QED
    BY <2>1, <2>5, <2>6
<1>4. OnBlockDisconnected(q, txs, at) \in SoundPool /\ OnBlockDisconnected(q, txs, at) \in R[N]
  <2> HIDE DEF R
  <2> QED
    BY <1>2, <1>3, DisconnectedWalk
<1>5. Track(OnBlockDisconnected(q, txs, at), p, B, Offered(N), at)
  <2> HIDE DEF Offered
  <2> QED
    BY <1>1, <1>4
<1>6. Upto(txs, N) = Range(txs)
  BY <1>1 DEF Upto, Range
<1> HIDE DEF N
<1> QED
  BY <1>4, <1>5, <1>6

\* The disconnected blocks are offered, one after the other.
LEMMA RestoreTracks ==
    ASSUME NEW p \in SoundPool, NEW at, at.height \in Nat, NEW B, NEW W, Returning(p, B, W, at),
           \A t \in Entries(p) : t \notin B,
           NEW gone \in Seq(Seq(Tx)),
           \A t \in Confirmed(gone) : t \in B \/ ~Applies(t, at.state, at.height + 1)
    PROVE  /\ Restore(p, gone, at) \in SoundPool
           /\ Track(Restore(p, gone, at), p, B, Confirmed(gone) \cap W, at)
<1> DEFINE N == Len(gone)
           C(n) == UNION {Range(gone[i]) : i \in 1..n}
           R == [n \in 0..N |-> {x \in SoundPool : Track(x, p, B, C(n) \cap W, at)}]
<1>1. /\ N \in Nat /\ DOMAIN gone = 1..N
      /\ \A n \in 1..N : gone[n] \in Seq(Tx) /\ Range(gone[n]) \subseteq Confirmed(gone)
  BY DEF Confirmed
<1>2. p \in R[0]
  <2>1. C(0) \cap W = {}
    OBVIOUS
  <2> HIDE DEF C
  <2>2. Track(p, p, B, C(0) \cap W, at)
    BY <2>1 DEF Track
  <2> QED
    BY <1>1, <2>2
<1>3. ASSUME NEW n \in 1..N, NEW x \in SoundPool, x \in R[n - 1]
      PROVE  OnBlockDisconnected(x, gone[n], at) \in R[n]
  <2> DEFINE txs == gone[n]
  <2>1. n - 1 \in 0..N /\ n \in 0..N
    BY <1>1
  <2>2. Track(x, p, B, C(n - 1) \cap W, at)
    <3> HIDE DEF C
    <3> QED
      BY <1>3, <2>1
  <2>3. C(n) \cap W = (C(n - 1) \cap W) \cup (Range(txs) \cap W)
    <3>1. 1..n = (1..(n - 1)) \cup {n}
      BY <1>1
    <3> QED
      BY <3>1
  <2> HIDE DEF C
  <2>4. txs \in Seq(Tx) /\ \A t \in Range(txs) : t \in B \/ ~Applies(t, at.state, at.height + 1)
    BY <1>1
  <2> HIDE DEF txs
  <2>5. /\ OnBlockDisconnected(x, txs, at) \in SoundPool
        /\ Track(OnBlockDisconnected(x, txs, at), p, B, C(n) \cap W, at)
    <3> DEFINE S == C(n - 1) \cap W
    <3>1. S \in SUBSET W /\ Track(x, p, B, S, at) /\ C(n) \cap W = S \cup (Range(txs) \cap W)
      BY <2>2, <2>3
    <3> HIDE DEF S
    <3>2. /\ OnBlockDisconnected(x, txs, at) \in SoundPool
          /\ Track(OnBlockDisconnected(x, txs, at), p, B, S \cup (Range(txs) \cap W), at)
      BY <2>4, <3>1, DisconnectedTracks
    <3> QED
      BY <3>1, <3>2
  <2> QED
    BY <2>1, <2>5 DEF txs
<1>4. Restore(p, gone, at) \in SoundPool /\ Restore(p, gone, at) \in R[N]
  <2> HIDE DEF R
  <2> QED
    BY <1>2, <1>3, RestoreWalk
<1>5. Track(Restore(p, gone, at), p, B, C(N) \cap W, at)
  <2> HIDE DEF C
  <2> QED
    BY <1>1, <1>4
<1>6. Confirmed(gone) = C(N)
  BY <1>1 DEF Confirmed
<1> QED
  BY <1>4, <1>5, <1>6

----------------------------------------------------------------------------
(***************************************************************************)
(* The invariant.  A pool that is only sound may hold a transaction the    *)
(* chain made stale: what keeps PoolMineable is that every step which      *)
(* moves the chain ends in revalidate().                                   *)
(***************************************************************************)
IInv ==
    /\ chain \in Seq(Seq(Tx))
    /\ pool \in SoundPool
    /\ PoolMineable

\* The tip's state and height, by field.
LEMMA TipFields ==
    ASSUME NEW blocks \in Seq(Seq(Tx))
    PROVE  /\ Tip(blocks).state = StateAt(blocks)
           /\ Tip(blocks).height = Len(blocks)
           /\ Tip(blocks).height \in Nat
BY DEF Tip

\* add() admits what could be mined next, and dates it by the tip.
LEMMA AddMineable ==
    ASSUME NEW p \in SoundPool, NEW t \in Tx, NEW at, at.height \in Nat,
           \A e \in Entries(p) : /\ Applies(e, at.state, at.height + 1)
                                 /\ at.height - p.at[e] <= ExpiryBlocks
    PROVE  LET q == Add(p, t, at)
           IN  \A e \in Entries(q) : /\ Applies(e, at.state, at.height + 1)
                                     /\ at.height - q.at[e] <= ExpiryBlocks
<1> DEFINE r == Insert(p, t, at.height)
           Good(q) == \A e \in Entries(q) : /\ Applies(e, at.state, at.height + 1)
                                            /\ at.height - q.at[e] <= ExpiryBlocks
<1>1. CASE ~Admissible(p, t, at)
  BY <1>1 DEF Add
<1>2. CASE Admissible(p, t, at)
  <2>1. r \in SoundPool
    BY <1>2, InsertSound DEF Admissible
  <2>2. Entries(r) = Entries(p) \cup {t}
        /\ \A e \in Entries(r) : r.at[e] = IF e = t THEN at.height ELSE p.at[e]
    BY DEF Insert, Entries
  <2>3. Applies(t, at.state, at.height + 1)
    BY <1>2 DEF Admissible
  <2>4. Good(r)
    BY <2>2, <2>3, MempoolAssumption
  <2>5. CASE Cardinality(Entries(r)) > MaxSize
    <3> DEFINE q == RemoveEach(r, {Cheapest(r)})
    <3>1. Entries(q) \subseteq Entries(r) /\ \A e \in Entries(q) : q.at[e] = r.at[e]
      <4> HIDE DEF r
      <4> QED
        BY <2>1, RemoveEachSound
    <3>2. Add(p, t, at) = q
      BY <1>2, <2>5 DEF Add, EvictCheapest
    <3> HIDE DEF q, r
    <3> QED
      BY <2>4, <3>1, <3>2
  <2>6. CASE ~(Cardinality(Entries(r)) > MaxSize)
    <3>1. Add(p, t, at) = r
      BY <1>2, <2>6 DEF Add, EvictCheapest
    <3> HIDE DEF r
    <3> QED
      BY <2>4, <3>1
  <2> QED
    BY <2>5, <2>6
<1> QED
  BY <1>1, <1>2

\* A pool left by revalidate() is mineable on the chain it was checked against.
LEMMA RevalidatedMineable ==
    ASSUME NEW blocks \in Seq(Seq(Tx)), NEW p \in SoundPool,
           chain' = blocks, pool' = Revalidate(p, Tip(blocks))
    PROVE  IInv'
<1>1. pool' \in SoundPool
      /\ \A t \in Entries(pool') :
            /\ Applies(t, Tip(blocks).state, Tip(blocks).height + 1)
            /\ Tip(blocks).height - pool'.at[t] <= ExpiryBlocks
  BY TipFields, RevalidateSound
<1>2. PoolMineable'
  BY <1>1, TipFields DEF PoolMineable
<1> QED
  BY <1>1, <1>2 DEF IInv

\* A block's transactions leave the pool, and the rest is revalidated.
LEMMA ExtendedMineable ==
    ASSUME IInv, NEW body \in Seq(Tx), chain' = Append(chain, body),
           pool' = Revalidate(OnBlockConnected(pool, body), Tip(chain'))
    PROVE  IInv'
<1>1. chain' \in Seq(Seq(Tx))
  BY DEF IInv
<1>2. OnBlockConnected(pool, body) \in SoundPool
  BY RemoveEachSound DEF OnBlockConnected, IInv
<1> QED
  BY <1>1, <1>2, RevalidatedMineable

LEMMA InitInvariant == Init => IInv
<1> SUFFICES ASSUME Init PROVE IInv
  OBVIOUS
<1>1. Entries(pool) = {}
  BY DEF Init, EmptyPool, Entries
<1>2. PoolMineable
  BY <1>1 DEF PoolMineable
<1> QED
  BY <1>2, EmptyPoolSound DEF Init, IInv

LEMMA SubmitInvariant ==
    ASSUME IInv, NEW t \in Tx, SubmitTransaction(t)
    PROVE  IInv'
<1> DEFINE at == Tip(chain)
<1>1. at.state = StateAt(chain) /\ at.height = Len(chain) /\ at.height \in Nat
  BY TipFields DEF IInv
<1>2. chain' = chain /\ pool' = Add(pool, t, at)
  BY DEF SubmitTransaction
<1> HIDE DEF at
<1>3. pool' \in SoundPool
  BY <1>1, <1>2, AddSound DEF IInv
<1>4. \A e \in Entries(pool) : /\ Applies(e, at.state, at.height + 1)
                               /\ at.height - pool.at[e] <= ExpiryBlocks
  BY <1>1 DEF IInv, PoolMineable
<1>5. \A e \in Entries(pool') : /\ Applies(e, at.state, at.height + 1)
                                /\ at.height - pool'.at[e] <= ExpiryBlocks
  BY <1>1, <1>2, <1>4, AddMineable DEF IInv
<1>6. PoolMineable'
  BY <1>1, <1>2, <1>5 DEF PoolMineable
<1> QED
  BY <1>2, <1>3, <1>6 DEF IInv

LEMMA ConnectInvariant ==
    ASSUME IInv, NEW body \in OfferedBlocks, ConnectBlock(body)
    PROVE  IInv'
BY ExtendedMineable, MempoolAssumption DEF ConnectBlock

LEMMA MineInvariant ==
    ASSUME IInv, MineOne
    PROVE  IInv'
<1> DEFINE at == Tip(chain)
           a  == Assemble(ForBlock(pool), at)
<1>1. at.height \in Nat /\ at.state \in WorldStates /\ ForBlock(pool) \in Seq(Tx)
  BY TipFields, TipState, ForBlockType DEF IInv
<1>2. a.included \in Seq(Tx)
  <2> HIDE DEF at
  <2> QED
    BY <1>1, AssembleType DEF Templates
<1>3. \/ /\ chain' = Append(chain, a.included)
         /\ pool' = Revalidate(OnBlockConnected(pool, a.included), Tip(chain'))
      \/ UNCHANGED <<chain, pool>>
  BY DEF MineOne
<1> HIDE DEF a
<1>4. CASE UNCHANGED <<chain, pool>>
  BY <1>4 DEF IInv, PoolMineable
<1> QED
  BY <1>2, <1>3, <1>4, ExtendedMineable

LEMMA RestartInvariant ==
    ASSUME IInv, Restart
    PROVE  IInv'
<1>1. Entries(pool') = {}
  BY DEF Restart, EmptyPool, Entries
<1>2. PoolMineable'
  BY <1>1 DEF PoolMineable
<1> QED
  BY <1>2, EmptyPoolSound DEF Restart, IInv

\* What a concatenation holds, by position.
LEMMA Joined ==
    ASSUME NEW S, NEW s \in Seq(S), NEW t \in Seq(S)
    PROVE  /\ Len(s \o t) = Len(s) + Len(t)
           /\ \A i \in 1..Len(s) : (s \o t)[i] = s[i]
           /\ \A i \in 1..(Len(s) + Len(t)) : i > Len(s) => (s \o t)[i] = t[i - Len(s)]
<1>1. Len(s \o t) = Len(s) + Len(t)
  OBVIOUS
<1>2. \A i \in 1..Len(s) : (s \o t)[i] = s[i]
  OBVIOUS
<1>3. \A i \in 1..(Len(s) + Len(t)) : i > Len(s) => (s \o t)[i] = t[i - Len(s)]
  OBVIOUS
<1> QED
  BY <1>1, <1>2, <1>3

\* The chains before and after a reorganisation share a beginning.
LEMMA ReorgFacts ==
    ASSUME IInv, NEW k \in 1..MaxReorg, NEW branch \in [1..(k + 1) -> OfferedBlocks],
           TakeReorg(k, branch)
    PROVE  \E kept, gone \in Seq(Seq(Tx)) :
              /\ chain' \in Seq(Seq(Tx)) /\ ChainOk(chain')
              /\ Confirmed(chain) = Confirmed(kept) \cup Confirmed(gone)
              /\ Confirmed(chain') = Confirmed(kept) \cup Confirmed(branch)
              /\ pool' = Revalidate(RemoveEach(Restore(pool, gone, Tip(chain')),
                                               Confirmed(branch)), Tip(chain'))
<1> DEFINE n == Len(chain)
           kept == SubSeq(chain, 1, n - k)
           cut  == SubSeq(chain, n - k + 1, n)
           gone == Reverse(cut)
<1>1. chain \in Seq(Seq(Tx)) /\ n \in Nat /\ k \in 1..n
  BY DEF IInv, TakeReorg
<1>2. branch \in Seq(Seq(Tx)) /\ Len(branch) = k + 1
  <2>1. k + 1 \in Nat /\ \A i \in 1..(k + 1) : branch[i] \in Seq(Tx)
    BY <1>1, MempoolAssumption
  <2> QED
    BY <2>1
<1>3. /\ kept \in Seq(Seq(Tx)) /\ Len(kept) = n - k
      /\ \A i \in 1..(n - k) : kept[i] = chain[i]
      /\ cut \in Seq(Seq(Tx)) /\ Len(cut) = k
      /\ \A i \in 1..k : cut[i] = chain[(n - k) + i]
  BY <1>1
<1>4. /\ gone \in Seq(Seq(Tx)) /\ Len(gone) = k
      /\ \A i \in 1..k : gone[i] = cut[(k - i) + 1]
  <2> HIDE DEF cut
  <2>1. \A i \in 1..k : cut[(k - i) + 1] \in Seq(Tx)
    BY <1>1, <1>3
  <2> QED
    BY <1>1, <1>3, <2>1 DEF Reverse
<1>5. chain' = kept \o branch /\ ChainOk(chain')
  BY DEF TakeReorg
<1>6. pool' = Revalidate(RemoveEach(Restore(pool, gone, Tip(chain')), Confirmed(branch)),
                         Tip(chain'))
  BY DEF TakeReorg
<1> HIDE DEF kept, cut, gone
<1>7. /\ chain' \in Seq(Seq(Tx)) /\ Len(chain') = (n - k) + (k + 1)
      /\ \A i \in 1..(n - k) : chain'[i] = kept[i]
      /\ \A i \in 1..(k + 1) : chain'[(n - k) + i] = branch[i]
  <2> DEFINE all == kept \o branch
  <2>1. all \in Seq(Seq(Tx))
    BY <1>2, <1>3
  <2>2. /\ Len(all) = Len(kept) + Len(branch)
        /\ \A i \in 1..Len(kept) : all[i] = kept[i]
        /\ \A i \in 1..(Len(kept) + Len(branch)) :
              i > Len(kept) => all[i] = branch[i - Len(kept)]
    <3> DEFINE Bodies == Seq(Tx)
    <3>1. kept \in Seq(Bodies) /\ branch \in Seq(Bodies)
      BY <1>2, <1>3
    <3> HIDE DEF Bodies
    <3> QED
      BY <3>1, Joined
  <2>3. ASSUME NEW i \in 1..(k + 1) PROVE all[(n - k) + i] = branch[i]
    <3>1. (n - k) + i \in 1..((n - k) + (k + 1)) /\ (n - k) + i > n - k
          /\ ((n - k) + i) - (n - k) = i
      BY <1>1
    <3> HIDE DEF all, n
    <3> QED
      BY <1>2, <1>3, <2>2, <3>1
  <2> HIDE DEF all, n
  <2> QED
    BY <1>2, <1>3, <1>5, <2>1, <2>2, <2>3 DEF all
<1>8. Confirmed(chain) = Confirmed(kept) \cup Confirmed(gone)
  <2>1. \A i \in 1..n : i \in 1..(n - k) \/ \E j \in 1..k : i = (n - k) + ((k - j) + 1)
    <3> SUFFICES ASSUME NEW i \in 1..n, ~(i \in 1..(n - k))
                 PROVE  \E j \in 1..k : i = (n - k) + ((k - j) + 1)
      OBVIOUS
    <3>1. (n - i) + 1 \in 1..k /\ i = (n - k) + ((k - ((n - i) + 1)) + 1)
      BY <1>1
    <3> QED
      BY <3>1
  <2>2. \A j \in 1..k : /\ (k - j) + 1 \in 1..k
                        /\ (n - k) + ((k - j) + 1) \in 1..n
                        /\ gone[j] = chain[(n - k) + ((k - j) + 1)]
    <3> SUFFICES ASSUME NEW j \in 1..k
                 PROVE  /\ (k - j) + 1 \in 1..k
                        /\ (n - k) + ((k - j) + 1) \in 1..n
                        /\ gone[j] = chain[(n - k) + ((k - j) + 1)]
      OBVIOUS
    <3>1. (k - j) + 1 \in 1..k /\ (n - k) + ((k - j) + 1) \in 1..n
      BY <1>1
    <3>2. gone[j] = cut[(k - j) + 1]
      BY <1>4
    <3>3. cut[(k - j) + 1] = chain[(n - k) + ((k - j) + 1)]
      BY <1>3, <3>1
    <3> QED
      BY <3>1, <3>2, <3>3
  <2>3. \A i \in 1..(n - k) : i \in 1..n
    BY <1>1
  <2>4. DOMAIN chain = 1..n /\ DOMAIN kept = 1..(n - k) /\ DOMAIN gone = 1..k
    BY <1>1, <1>3, <1>4
  <2> HIDE DEF n
  <2>5. ASSUME NEW t, t \in Confirmed(chain) PROVE t \in Confirmed(kept) \cup Confirmed(gone)
    <3>1. PICK i \in 1..n : t \in Range(chain[i])
      BY <2>4, <2>5 DEF Confirmed
    <3>2. CASE i \in 1..(n - k)
      BY <1>3, <2>4, <3>1, <3>2 DEF Confirmed
    <3>3. CASE \E j \in 1..k : i = (n - k) + ((k - j) + 1)
      BY <2>2, <2>4, <3>1, <3>3 DEF Confirmed
    <3> QED
      BY <2>1, <3>2, <3>3
  <2>6. ASSUME NEW t, t \in Confirmed(kept) \/ t \in Confirmed(gone)
        PROVE  t \in Confirmed(chain)
    <3>1. CASE t \in Confirmed(kept)
      BY <1>3, <2>3, <2>4, <3>1 DEF Confirmed
    <3>2. CASE t \in Confirmed(gone)
      BY <2>2, <2>4, <3>2 DEF Confirmed
    <3> QED
      BY <2>6, <3>1, <3>2
  <2> QED
    BY <2>5, <2>6
<1>9. Confirmed(chain') = Confirmed(kept) \cup Confirmed(branch)
  <2>1. \A i \in 1..((n - k) + (k + 1)) :
           i \in 1..(n - k) \/ \E j \in 1..(k + 1) : i = (n - k) + j
    <3> SUFFICES ASSUME NEW i \in 1..((n - k) + (k + 1)), ~(i \in 1..(n - k))
                 PROVE  \E j \in 1..(k + 1) : i = (n - k) + j
      OBVIOUS
    <3>1. i - (n - k) \in 1..(k + 1) /\ i = (n - k) + (i - (n - k))
      BY <1>1
    <3> QED
      BY <3>1
  <2>2. /\ \A j \in 1..(k + 1) : (n - k) + j \in 1..((n - k) + (k + 1))
        /\ \A i \in 1..(n - k) : i \in 1..((n - k) + (k + 1))
    BY <1>1
  <2>3. /\ DOMAIN chain' = 1..((n - k) + (k + 1))
        /\ DOMAIN kept = 1..(n - k) /\ DOMAIN branch = 1..(k + 1)
    BY <1>2, <1>3, <1>7
  <2> HIDE DEF n
  <2>4. ASSUME NEW t, t \in Confirmed(chain') PROVE t \in Confirmed(kept) \cup Confirmed(branch)
    <3>1. PICK i \in 1..((n - k) + (k + 1)) : t \in Range(chain'[i])
      BY <2>3, <2>4 DEF Confirmed
    <3>2. CASE i \in 1..(n - k)
      BY <1>7, <2>3, <3>1, <3>2 DEF Confirmed
    <3>3. CASE \E j \in 1..(k + 1) : i = (n - k) + j
      BY <1>7, <2>3, <3>1, <3>3 DEF Confirmed
    <3> QED
      BY <2>1, <3>2, <3>3
  <2>5. ASSUME NEW t, t \in Confirmed(kept) \/ t \in Confirmed(branch)
        PROVE  t \in Confirmed(chain')
    <3>1. CASE t \in Confirmed(kept)
      BY <1>7, <2>2, <2>3, <3>1 DEF Confirmed
    <3>2. CASE t \in Confirmed(branch)
      BY <1>7, <2>2, <2>3, <3>2 DEF Confirmed
    <3> QED
      BY <2>5, <3>1, <3>2
  <2> QED
    BY <2>4, <2>5
<1> QED
  BY <1>3, <1>4, <1>5, <1>6, <1>7, <1>8, <1>9

\* Everything between the old chain and the new one happens to a sound pool.
LEMMA ReorgInvariant ==
    ASSUME IInv, NEW k \in 1..MaxReorg, NEW branch \in [1..(k + 1) -> OfferedBlocks],
           TakeReorg(k, branch)
    PROVE  IInv'
<1> DEFINE at == Tip(chain')
<1>1. PICK kept, gone \in Seq(Seq(Tx)) :
         /\ chain' \in Seq(Seq(Tx))
         /\ pool' = Revalidate(RemoveEach(Restore(pool, gone, at), Confirmed(branch)), at)
  BY ReorgFacts
<1>2. at.height \in Nat /\ pool \in SoundPool
  BY <1>1, TipFields DEF IInv
<1> HIDE DEF at
<1>3. Restore(pool, gone, at) \in SoundPool
  BY <1>2, RestoreSound
<1>4. RemoveEach(Restore(pool, gone, at), Confirmed(branch)) \in SoundPool
  BY <1>3, RemoveEachSound
<1> QED
  BY <1>1, <1>4, RevalidatedMineable DEF at

LEMMA NextInvariant == IInv /\ [Next]_vars => IInv'
<1> SUFFICES ASSUME IInv, [Next]_vars PROVE IInv'
  OBVIOUS
<1>1. CASE \E t \in Tx : SubmitTransaction(t)
  BY <1>1, SubmitInvariant
<1>2. CASE \E body \in OfferedBlocks : ConnectBlock(body)
  BY <1>2, ConnectInvariant
<1>3. CASE \E k \in 1..MaxReorg : \E branch \in [1..(k + 1) -> OfferedBlocks] :
              TakeReorg(k, branch)
  BY <1>3, ReorgInvariant
<1>4. CASE MineOne
  BY <1>4, MineInvariant
<1>5. CASE Restart
  BY <1>5, RestartInvariant
<1>6. CASE UNCHANGED vars
  BY <1>6 DEF vars, IInv, PoolMineable
<1> QED
  BY <1>1, <1>2, <1>3, <1>4, <1>5, <1>6 DEF Next

THEOREM PoolInvariance == Spec => []IInv
<1> QED
  BY InitInvariant, NextInvariant, PTL DEF Spec

\* The conflict index of mempool.ts is exact for every history of admissions,
\* evictions, blocks, reorganisations and restarts.
THEOREM IndexStaysExact == Spec => []SpentIndexExact
<1>1. IInv => SpentIndexExact
  BY SoundPoolFacts DEF IInv, IndexExact, SpentIndexExact
<1> QED
  BY <1>1, PoolInvariance, PTL

\* Every pooled transaction could be mined next by itself and has not expired,
\* whatever the chain did since it was admitted.
THEOREM PoolStaysMineable == Spec => []PoolMineable
<1>1. IInv => PoolMineable
  BY DEF IInv
<1> QED
  BY <1>1, PoolInvariance, PTL

----------------------------------------------------------------------------
(***************************************************************************)
(* What a reorganisation gives back.  ReorgReturns needs the history of    *)
(* the chain: a coin a confirmed transaction spent is not in the tip's     *)
(* state, so no pooled transaction holds it, and nothing but another of    *)
(* the returning transactions can stand in the way of one of them.         *)
(***************************************************************************)
ChainSpent == SpentOnce(Confirmed(chain), StateAt(chain))

LEMMA InitSpent == Init => ChainSpent
<1> SUFFICES ASSUME Init PROVE ChainSpent
  OBVIOUS
<1>1. chain = <<>> /\ <<>> \in Seq(Seq(Tx)) /\ Len(<<>>) = 0
  BY DEF Init
<1>2. StateAt(chain) = GenesisState
  BY <1>1, StatesWalk DEF StateAt
<1>3. Confirmed(chain) = {}
  BY <1>1 DEF Confirmed
<1> QED
  BY <1>2, <1>3, GenesisSpends DEF ChainSpent

LEMMA ConnectSpent ==
    ASSUME IInv, ChainSpent, NEW body \in OfferedBlocks, ConnectBlock(body)
    PROVE  ChainSpent'
<1> DEFINE st == StateAt(chain)
           D == Confirmed(chain)
           h == Len(chain) + 1
<1>1. chain \in Seq(Seq(Tx)) /\ body \in Seq(Tx) /\ st \in WorldStates /\ h \in Nat
  BY MempoolAssumption, TipState DEF IInv
<1>2. BodyOk(body, st, h) /\ chain' = Append(chain, body) /\ SpentOnce(D, st)
  BY DEF ConnectBlock, ChainSpent
<1>3. /\ StateAt(Append(chain, body)) = ApplyAll(body, st, h)
      /\ Confirmed(Append(chain, body)) = D \cup Range(body)
  BY <1>1, Appended
<1> HIDE DEF st, D, h
<1>4. SpentOnce(D \cup Range(body), ApplyAll(body, st, h))
  BY <1>1, <1>2, BodySpends
<1> QED
  BY <1>2, <1>3, <1>4 DEF ChainSpent

LEMMA MineSpent ==
    ASSUME IInv, ChainSpent, MineOne
    PROVE  ChainSpent'
<1> DEFINE st == StateAt(chain)
           D == Confirmed(chain)
           n == Len(chain)
           E == Entries(pool)
           txs == ForBlock(pool)
           at == Tip(chain)
           a == Assemble(txs, at)
<1>1. /\ chain \in Seq(Seq(Tx)) /\ st \in WorldStates /\ n \in Nat
      /\ E \in SUBSET Tx /\ IsFiniteSet(E) /\ txs \in Seq(E)
  BY TipState, SoundPoolFacts, ForBlockType DEF IInv
<1>2. \A t \in E : Inputs[t] \subseteq DOMAIN st
  BY <1>1, MempoolAssumption DEF IInv, PoolMineable, Applies
<1>3. \A t, o \in E : t # o => Inputs[t] \cap Inputs[o] = {}
  BY SoundPoolFacts DEF IInv, IndexExact
<1>4. \/ /\ a.draft = ApplyAll(a.included, st, n + 1)
         /\ chain' = Append(chain, a.included)
      \/ chain' = chain
  BY TipFields DEF MineOne, IInv
<1>5. CASE chain' = chain
  BY <1>5 DEF ChainSpent
<1>6. CASE /\ a.draft = ApplyAll(a.included, st, n + 1)
           /\ chain' = Append(chain, a.included)
  <2>1. /\ SpentOnce(D, st) /\ a = Assemble(txs, at)
        /\ at.state = st /\ at.height = n
    BY <1>1, TipFields DEF ChainSpent
  <2> HIDE DEF st, D, n, E, txs, a, at
  <2>2. a.included \in Seq(Tx) /\ SpentOnce(D \cup Range(a.included), a.draft)
    <3>1. a.draft = ApplyAll(a.included, st, n + 1)
      BY <1>6
    <3>2. EachMineable(E, st)
      BY <1>1, <1>2, <1>3 DEF EachMineable
    <3> QED
      BY <1>1, <2>1, <3>1, <3>2, MinedSpends
  <2>3. /\ StateAt(Append(chain, a.included)) = ApplyAll(a.included, st, n + 1)
        /\ Confirmed(Append(chain, a.included)) = D \cup Range(a.included)
    BY <1>1, <2>2, Appended DEF st, n, D
  <2> QED
    BY <1>6, <2>2, <2>3 DEF ChainSpent
<1> QED
  BY <1>4, <1>5, <1>6

LEMMA ReorgSpent ==
    ASSUME IInv, NEW k \in 1..MaxReorg, NEW branch \in [1..(k + 1) -> OfferedBlocks],
           TakeReorg(k, branch)
    PROVE  ChainSpent'
<1>1. chain' \in Seq(Seq(Tx)) /\ ChainOk(chain')
  BY ReorgFacts
<1> QED
  BY <1>1, ChainSpends DEF ChainSpent

\* The property of ReorgReturns, of one step.
Returned ==
    LET back == Confirmed(chain) \ Confirmed(chain')
    IN  \A t \in back :
           Applies(t, StateAt(chain'), Len(chain') + 1) /\ FeeRate[t] >= MinFeeRate
             => t \in Entries(pool') \/ Crowded(t, Entries(pool) \cup back)

LEMMA ReorgGivesBack ==
    ASSUME IInv, ChainSpent, NEW k \in 1..MaxReorg,
           NEW branch \in [1..(k + 1) -> OfferedBlocks], TakeReorg(k, branch)
    PROVE  Returned
<1> DEFINE B == Confirmed(chain) \ Confirmed(chain')
           at == Tip(chain')
           W == {t \in B : Applies(t, at.state, at.height + 1) /\ FeeRate[t] >= MinFeeRate}
<1>1. PICK kept, gone \in Seq(Seq(Tx)) :
         /\ chain' \in Seq(Seq(Tx)) /\ ChainOk(chain')
         /\ Confirmed(chain) = Confirmed(kept) \cup Confirmed(gone)
         /\ Confirmed(chain') = Confirmed(kept) \cup Confirmed(branch)
         /\ pool' = Revalidate(RemoveEach(Restore(pool, gone, at), Confirmed(branch)), at)
  BY ReorgFacts
<1>2. pool \in SoundPool /\ chain \in Seq(Seq(Tx)) /\ PoolMineable
  BY DEF IInv
<1>3. at.state = StateAt(chain') /\ at.height = Len(chain') /\ at.height \in Nat
  BY <1>1, TipFields
<1>4. SpentOnce(Confirmed(chain'), at.state)
  BY <1>3, ReorgSpent DEF ChainSpent
<1> HIDE DEF at
<1>5. /\ Confirmed(chain) \in SUBSET Tx /\ IsFiniteSet(Confirmed(chain))
      /\ \A t \in Confirmed(chain) : Inputs[t] \cap DOMAIN StateAt(chain) = {}
      /\ \A t, o \in Confirmed(chain) : t # o => Inputs[t] \cap Inputs[o] = {}
  BY DEF ChainSpent, SpentOnce
<1>6. \A t \in Entries(pool) : t \in Tx /\ Inputs[t] # {} /\ Inputs[t] \subseteq DOMAIN StateAt(chain)
  BY <1>2, SoundPoolFacts, MempoolAssumption DEF PoolMineable, Applies
<1>7. \A t \in Entries(pool) : t \notin B
  BY <1>5, <1>6
<1>8. \A t \in Confirmed(gone) : t \in B \/ ~Applies(t, at.state, at.height + 1)
  <2> SUFFICES ASSUME NEW t \in Confirmed(chain'), Applies(t, at.state, at.height + 1) PROVE FALSE
    BY <1>1
  <2>1. t \in Tx /\ Inputs[t] \cap DOMAIN at.state = {}
    BY <1>4 DEF SpentOnce
  <2>2. Inputs[t] # {} /\ Inputs[t] \subseteq Consumes[t]
    BY <2>1, MempoolAssumption
  <2> QED
    BY <2>1, <2>2 DEF Applies
<1>9. Returning(pool, B, W, at)
  <2>1. B \in SUBSET Tx /\ IsFiniteSet(B) /\ W \subseteq B
    BY <1>5, FS_Subset
  <2>2. \A t \in B : Inputs[t] \cap DOMAIN pool.spent = {}
    <3>1. DOMAIN pool.spent = UNION {Inputs[t] : t \in Entries(pool)}
      BY <1>2, SoundPoolFacts DEF IndexExact
    <3>2. DOMAIN pool.spent \subseteq DOMAIN StateAt(chain)
      BY <1>6, <3>1
    <3> QED
      BY <1>5, <3>2
  <2> QED
    BY <1>5, <2>1, <2>2 DEF Returning
<1> DEFINE q == Restore(pool, gone, at)
           r == RemoveEach(q, Confirmed(branch))
           ids == {t \in Entries(r) : \/ at.height - r.at[t] > ExpiryBlocks
                                      \/ ~Applies(t, at.state, at.height + 1)}
<1> HIDE DEF B, W
<1>10. q \in SoundPool /\ Track(q, pool, B, Confirmed(gone) \cap W, at)
  BY <1>1, <1>2, <1>3, <1>7, <1>8, <1>9, RestoreTracks
<1> HIDE DEF q
<1>11. /\ r \in SoundPool /\ Entries(r) = Entries(q) \ Confirmed(branch)
       /\ \A t \in Entries(r) : r.at[t] = q.at[t]
  BY <1>10, RemoveEachSound
<1>12. pool' = RemoveEach(r, ids)
  BY <1>1 DEF Revalidate, q
<1> HIDE DEF r
<1>13. Entries(pool') = Entries(r) \ ids
  <2> HIDE DEF ids
  <2> QED
    BY <1>11, <1>12, RemoveEachSound
<1>14. ASSUME NEW t \in B, Applies(t, at.state, at.height + 1), FeeRate[t] >= MinFeeRate
       PROVE  t \in Entries(pool') \/ Crowded(t, Entries(pool) \cup B)
  <2>1. t \in Confirmed(gone) \cap W /\ t \notin Confirmed(branch)
    BY <1>1, <1>14 DEF B, W
  <2>2. CASE t \in Entries(q)
    <3>1. q.at[t] = at.height
      BY <1>10, <2>2 DEF Track
    <3>2. t \in Entries(r) /\ r.at[t] = at.height
      BY <1>11, <2>1, <2>2, <3>1
    <3>3. ~(at.height - r.at[t] > ExpiryBlocks)
      BY <1>3, <3>2, MempoolAssumption
    <3> QED
      BY <1>13, <1>14, <3>2, <3>3
  <2>3. CASE Crowded(t, Entries(pool) \cup B)
    BY <2>3
  <2> QED
    BY <1>10, <2>1, <2>2, <2>3 DEF Track
<1> QED
  BY <1>3, <1>14 DEF Returned, B

\* Only a reorganisation takes a transaction off the chain.
LEMMA NothingGoesBack ==
    ASSUME IInv, ChainSpent, [Next]_vars
    PROVE  Returned
<1>1. CASE \E k \in 1..MaxReorg : \E branch \in [1..(k + 1) -> OfferedBlocks] :
              TakeReorg(k, branch)
  BY <1>1, ReorgGivesBack
<1>2. CASE chain' = chain
  BY <1>2 DEF Returned
<1>3. CASE \E body \in Seq(Tx) : chain' = Append(chain, body)
  <2>1. Confirmed(chain) \subseteq Confirmed(chain')
    BY <1>3, Appended DEF IInv
  <2> QED
    BY <2>1 DEF Returned
<1>4. CASE \E body \in OfferedBlocks : ConnectBlock(body)
  BY <1>3, <1>4, MempoolAssumption DEF ConnectBlock
<1>5. CASE MineOne
  <2> DEFINE at == Tip(chain)
             a  == Assemble(ForBlock(pool), at)
  <2>1. at.height \in Nat /\ at.state \in WorldStates /\ ForBlock(pool) \in Seq(Tx)
    BY TipFields, TipState, ForBlockType DEF IInv
  <2>2. a.included \in Seq(Tx)
    <3> HIDE DEF at
    <3> QED
      BY <2>1, AssembleType DEF Templates
  <2>3. chain' = chain \/ chain' = Append(chain, a.included)
    BY <1>5 DEF MineOne
  <2> HIDE DEF a
  <2> QED
    BY <1>2, <1>3, <2>2, <2>3
<1>6. CASE \/ \E t \in Tx : SubmitTransaction(t)
           \/ Restart
           \/ UNCHANGED vars
  BY <1>2, <1>6 DEF SubmitTransaction, Restart, vars
<1> QED
  BY <1>1, <1>4, <1>5, <1>6 DEF Next

LEMMA NextSpent == IInv /\ ChainSpent /\ [Next]_vars => ChainSpent'
<1> SUFFICES ASSUME IInv, ChainSpent, [Next]_vars PROVE ChainSpent'
  OBVIOUS
<1>1. CASE \E body \in OfferedBlocks : ConnectBlock(body)
  BY <1>1, ConnectSpent
<1>2. CASE \E k \in 1..MaxReorg : \E branch \in [1..(k + 1) -> OfferedBlocks] :
              TakeReorg(k, branch)
  BY <1>2, ReorgSpent
<1>3. CASE MineOne
  BY <1>3, MineSpent
<1>4. CASE \/ \E t \in Tx : SubmitTransaction(t)
           \/ Restart
           \/ UNCHANGED vars
  BY <1>4 DEF SubmitTransaction, Restart, vars, ChainSpent
<1> QED
  BY <1>1, <1>2, <1>3, <1>4 DEF Next

\* No coin comes back to a chain: what a confirmed transaction spent is in no
\* later state of it, and no two confirmed transactions spent the same.
THEOREM CoinsSpentOnce == Spec => []ChainSpent
<1>1. IInv /\ ChainSpent /\ [Next]_vars => (IInv /\ ChainSpent)'
  BY NextInvariant, NextSpent
<1>2. Init => IInv /\ ChainSpent
  BY InitInvariant, InitSpent
<1> QED
  BY <1>1, <1>2, PTL DEF Spec

\* A reorganisation of any depth loses no transaction that stands by itself on
\* the new chain, unless MaxSize dearer ones were there to take its place:
\* submitBlock gives each disconnected block back to the pool in the order of
\* the block, removes what the branch confirms and revalidates.
THEOREM ReorgsReturn == Spec => ReorgReturns
<1>1. IInv /\ ChainSpent /\ [Next]_vars
         => [LET back == Confirmed(chain) \ Confirmed(chain')
             IN  \A t \in back :
                    Applies(t, StateAt(chain'), Len(chain') + 1) /\ FeeRate[t] >= MinFeeRate
                      => \/ t \in Entries(pool')
                         \/ Cardinality({o \in Entries(pool) \cup back :
                                            FeeRate[o] > FeeRate[t]}) >= MaxSize]_vars
  BY NothingGoesBack DEF Returned, Crowded
<1> QED
  BY <1>1, PoolInvariance, CoinsSpentOnce, PTL DEF Spec, ReorgReturns
=============================================================================

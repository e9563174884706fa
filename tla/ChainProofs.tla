--------------------------- MODULE ChainProofs ---------------------------
(***************************************************************************)
(* Theorems about ChainState, for every block tree, ledger and undo        *)
(* window, and about Blockchain, for every schedule of issuance and        *)
(* whatever transactions and blocks come. First the ledger: a block's undo *)
(* record takes it back, and the difference #connect writes is the state   *)
(* it computed. Then the block tree. Then one inductive invariant, from    *)
(* which the state properties follow; then a second, about where a         *)
(* reorganisation stands, from which it follows how one can end and that   *)
(* ChainState implements ForkChoice. Then the supply of the chain in       *)
(* memory, its locks and the blocks it mines, and last the contract        *)
(* machine, for every program.                                             *)
(***************************************************************************)
EXTENDS ChainState, Blockchain, ContractRun, Induction, TLAPS

----------------------------------------------------------------------------
(***************************************************************************)
(* The ledger.                                                             *)
(***************************************************************************)

\* Applying a block to a world state gives a world state.
LEMMA ApplyBlockType ==
    ASSUME NEW s \in WorldState, NEW b \in Block
    PROVE  ApplyBlock(s, b) \in WorldState
<1>1. Body[b] \in BodyType
  BY LedgerAssumption
<1> QED
  BY <1>1 DEF ApplyBlock, WorldState, BodyType, Touched

\* The record #connect builds has the types #disconnect relies on.
LEMMA UndoRecordType ==
    ASSUME NEW s \in WorldState, NEW b \in Block
    PROVE  IsUndoRecord(UndoRecord(s, b))
<1>1. Body[b] \in BodyType
  BY LedgerAssumption
<1> QED
  BY <1>1 DEF UndoRecord, IsUndoRecord, WorldState, BodyType, Touched, Deployers

\* Disconnecting with any well-typed record gives a world state.
LEMMA ApplyUndoType ==
    ASSUME NEW s \in WorldState, NEW u, IsUndoRecord(u)
    PROVE  ApplyUndo(s, u) \in WorldState
BY DEF ApplyUndo, IsUndoRecord, WorldState

\* The undo record of a block that applies takes the state after the block
\* back to the state before it: #disconnect inverts #connect.
LEMMA UndoInverts ==
    ASSUME NEW s \in WorldState, NEW b \in Block, Applies(s, b)
    PROVE  ApplyUndo(ApplyBlock(s, b), UndoRecord(s, b)) = s
<1> DEFINE r == ApplyUndo(ApplyBlock(s, b), UndoRecord(s, b))
<1>1. Body[b] \in BodyType
  BY LedgerAssumption
<1>2. r.coins = s.coins
  BY <1>1 DEF ApplyUndo, ApplyBlock, UndoRecord, Applies, BodyType, WorldState
<1>3. r.contracts = s.contracts
  BY <1>1 DEF ApplyUndo, ApplyBlock, UndoRecord, BodyType, WorldState, Touched
<1>4. r.nonces = s.nonces
  <2>1. \A a \in Account : Body[b].bumps[a] \in Nat /\ s.nonces[a] \in Nat
    BY <1>1 DEF BodyType, WorldState
  <2>2. \A a \in Account \ Deployers(b) : Body[b].bumps[a] = 0
    BY <2>1 DEF Deployers
  <2>3. r.nonces = [a \in Account |-> IF a \in Deployers(b) THEN s.nonces[a]
                                      ELSE s.nonces[a] + Body[b].bumps[a]]
    BY DEF ApplyUndo, ApplyBlock, UndoRecord, Deployers
  <2>4. r.nonces = [a \in Account |-> s.nonces[a]]
    BY <2>1, <2>2, <2>3
  <2> QED
    BY <2>4 DEF WorldState
<1>5. r = [coins |-> r.coins, contracts |-> r.contracts, nonces |-> r.nonces]
  BY DEF ApplyUndo
<1>6. s = [coins |-> s.coins, contracts |-> s.contracts, nonces |-> s.nonces]
  BY DEF WorldState
<1> QED
  BY <1>2, <1>3, <1>4, <1>5, <1>6

\* Writing the difference to tables that hold the state before the block
\* leaves them holding the state after it.
LEMMA WriteIsApply ==
    ASSUME NEW s \in WorldState, NEW b \in Block, Applies(s, b)
    PROVE  WriteBlock(s, ApplyBlock(s, b), UndoRecord(s, b)) = ApplyBlock(s, b)
<1> DEFINE d == ApplyBlock(s, b)
           w == WriteBlock(s, d, UndoRecord(s, b))
<1>1. Body[b] \in BodyType
  BY LedgerAssumption
<1>2. w.coins = d.coins
  BY <1>1 DEF WriteBlock, ApplyBlock, UndoRecord, Applies, BodyType, WorldState
<1>3. w.contracts = d.contracts
  BY <1>1 DEF WriteBlock, ApplyBlock, UndoRecord, BodyType, WorldState, Touched
<1>4. w.nonces = d.nonces
  <2>1. \A a \in Account : Body[b].bumps[a] \in Nat /\ s.nonces[a] \in Nat
    BY <1>1 DEF BodyType, WorldState
  <2>2. \A a \in Account \ Deployers(b) : d.nonces[a] = s.nonces[a]
    BY <2>1 DEF Deployers, ApplyBlock
  <2>3. w.nonces = [a \in Account |-> IF a \in Deployers(b) THEN d.nonces[a]
                                      ELSE s.nonces[a]]
    BY DEF WriteBlock, UndoRecord, Deployers
  <2>4. w.nonces = [a \in Account |-> d.nonces[a]]
    BY <2>2, <2>3
  <2> QED
    BY <2>4 DEF ApplyBlock
<1> QED
  BY <1>2, <1>3, <1>4 DEF WriteBlock, ApplyBlock

\* A block that applies to the state of some block t, and to the state of its
\* own parent, finds the same coins on both: t is the parent or its twin.
\* #restoreTo does not look at parents, so this is all that keeps it from
\* connecting a block where it does not belong.
LEMMA AppliesOnTwin ==
    ASSUME NEW b \in Good, NEW t \in Block, Applies(Commitment[t], b), t # Parent[b]
    PROVE  Twins(t, Parent[b])
<1> DEFINE p == Parent[b]
<1>1. b \in Block /\ p \in Block /\ Applies(Commitment[p], b)
  BY TreeAssumption DEF Good
<1>2. ASSUME NEW z \in Block, Applies(Commitment[z], b)
      PROVE  Commitment[z].coins =
               (Commitment[b].coins \ Body[b].creates)
                  \cup (Body[b].spends \ Body[b].creates)
  BY <1>2 DEF Applies, ApplyBlock
<1>3. Commitment[t].coins = Commitment[p].coins
  BY <1>1, <1>2
<1> QED
  BY <1>3 DEF Twins

----------------------------------------------------------------------------
(***************************************************************************)
(* The block tree.                                                         *)
(***************************************************************************)

\* A set of blocks that is not empty has a lowest one.
LEMMA LowestExists ==
    ASSUME NEW S \in SUBSET Block, S # {}
    PROVE  /\ Lowest(S) \in S
           /\ \A o \in S : Height[Lowest(S)] <= Height[o]
<1> DEFINE H == {Height[b] : b \in S}
<1>1. H \in SUBSET Nat /\ H # {}
  BY TreeAssumption
<1>2. \E n \in H : \A m \in H : n <= m
  <2> HIDE DEF H
  <2> QED
    BY <1>1, NatLeast
<1>3. \E b \in S : \A o \in S : Height[b] <= Height[o]
  BY <1>2
<1> QED
  BY <1>3 DEF Lowest

\* What the proofs need of the tree, about one block at a time.
LEMMA TreeFacts ==
    /\ Genesis \in Block
    /\ Ancestors[Genesis] = {Genesis}
    /\ \A b \in Block : /\ Ancestors[b] \subseteq Block
                        /\ b \in Ancestors[b] /\ Genesis \in Ancestors[b]
                        /\ Height[b] \in Nat
    /\ \A b \in Block \ {Genesis} :
          /\ Parent[b] \in Block
          /\ Ancestors[b] = Ancestors[Parent[b]] \cup {b}
          /\ Height[b] = Height[Parent[b]] + 1
          /\ b \notin Ancestors[Parent[b]]
          /\ Parent[b] \in Ancestors[b]
<1>1. \A b \in Block : b \in Ancestors[b]
  <2> SUFFICES ASSUME NEW b \in Block PROVE b \in Ancestors[b]
    OBVIOUS
  <2>1. CASE b = Genesis
    BY <2>1, TreeAssumption
  <2>2. CASE b # Genesis
    BY <2>2, TreeAssumption
  <2> QED
    BY <2>1, <2>2
<1>2. \A b \in Block \ {Genesis} : b \notin Ancestors[Parent[b]]
  <2> SUFFICES ASSUME NEW b \in Block \ {Genesis}, b \in Ancestors[Parent[b]]
               PROVE  FALSE
    OBVIOUS
  <2>1. Parent[b] \in Block /\ Height[b] = Height[Parent[b]] + 1
          /\ Height[Parent[b]] \in Nat
    BY TreeAssumption
  <2>2. Height[b] <= Height[Parent[b]]
    BY <2>1, TreeAssumption
  <2> QED
    BY <2>1, <2>2
<1> QED
  BY <1>1, <1>2, TreeAssumption

\* On one chain, a block no higher than another is below it.
LEMMA SameChain ==
    ASSUME NEW b \in Block, NEW a \in Ancestors[b], NEW c \in Ancestors[b],
           Height[a] <= Height[c]
    PROVE  a \in Ancestors[c]
<1> DEFINE S == {w \in Ancestors[c] : Height[w] >= Height[a]}
           w == Lowest(S)
<1>1. Ancestors[b] \subseteq Block /\ c \in Block /\ Ancestors[c] \subseteq Block
      /\ Ancestors[c] \subseteq Ancestors[b]
  <2>1. Ancestors[b] \subseteq Block
    BY TreeFacts
  <2> QED
    BY <2>1, TreeFacts, TreeAssumption
<1>2. \A x \in Ancestors[b] : Height[x] \in Nat
  BY <1>1, TreeFacts
<1>3. c \in S /\ S \in SUBSET Block
  BY <1>1, TreeFacts
<1>4. w \in S /\ \A o \in S : Height[w] <= Height[o]
  <2>1. S # {}
    BY <1>3
  <2> HIDE DEF S
  <2> QED
    BY <1>3, <2>1, LowestExists
<1>5. w \in Ancestors[b] /\ w \in Block /\ Height[w] \in Nat /\ Height[a] \in Nat
      /\ Height[w] >= Height[a]
  BY <1>1, <1>2, <1>4
<1>6. Height[w] <= Height[a]
  <2>1. CASE w = Genesis
    BY <1>5, <2>1, TreeAssumption
  <2>2. CASE w # Genesis
    <3>1. Parent[w] \in Ancestors[w] /\ Height[w] = Height[Parent[w]] + 1
          /\ Parent[w] \in Block /\ Height[Parent[w]] \in Nat
      BY <1>5, <2>2, TreeFacts
    <3>2. Parent[w] \in Ancestors[c]
      <4>1. Ancestors[w] \subseteq Ancestors[c]
        BY <1>1, <1>4, TreeAssumption
      <4> QED
        BY <3>1, <4>1
    <3>3. Parent[w] \notin S
      BY <1>4, <1>5, <3>1
    <3> QED
      BY <1>5, <3>1, <3>2, <3>3
  <2> QED
    BY <2>1, <2>2
<1>7. w = a
  <2>1. Height[w] = Height[a]
    BY <1>5, <1>6
  <2> QED
    BY <1>5, <2>1, TreeAssumption
<1> QED
  BY <1>4, <1>7

\* A set of blocks on one branch that is closed upwards: what a
\* reorganisation still has to connect.
UpperPart(S, b) ==
    /\ S # {} /\ S \subseteq Ancestors[b] \ {Genesis}
    /\ \A x \in S, y \in Ancestors[b] : Height[y] >= Height[x] => y \in S

\* The lowest block of such a set is the parent of the next lowest: the
\* branch is connected without a gap.
LEMMA NextOnBranch ==
    ASSUME NEW b \in Block, NEW S, UpperPart(S, b), S # {Lowest(S)}
    PROVE  LET rest == S \ {Lowest(S)}
           IN  UpperPart(rest, b) /\ Parent[Lowest(rest)] = Lowest(S)
<1> DEFINE low  == Lowest(S)
           rest == S \ {low}
           c    == Lowest(rest)
<1>1. Ancestors[b] \subseteq Block /\ S \subseteq Ancestors[b] \ {Genesis} /\ S # {}
  BY TreeFacts DEF UpperPart
<1>2. low \in S /\ \A o \in S : Height[low] <= Height[o]
  <2>1. S \in SUBSET Block
    BY <1>1
  <2> QED
    BY <1>1, <2>1, LowestExists
<1>3. rest # {}
  BY <1>2
<1>4. c \in rest /\ \A o \in rest : Height[c] <= Height[o]
  <2>1. rest \in SUBSET Block
    BY <1>1
  <2> QED
    BY <1>3, <2>1, LowestExists
<1>5. \A x, y \in Ancestors[b] : Height[x] = Height[y] => x = y
  BY TreeAssumption
<1>6. \A x \in rest : Height[x] > Height[low]
  <2> SUFFICES ASSUME NEW x \in rest PROVE Height[x] > Height[low]
    OBVIOUS
  <2>1. Height[x] \in Nat /\ Height[low] \in Nat
    BY <1>1, <1>2, TreeFacts
  <2>2. Height[low] <= Height[x] /\ Height[x] # Height[low]
    BY <1>1, <1>2, <1>5
  <2> QED
    BY <2>1, <2>2
<1>7. UpperPart(rest, b)
  <2> SUFFICES ASSUME NEW x \in rest, NEW y \in Ancestors[b], Height[y] >= Height[x]
               PROVE  y \in rest
    BY <1>1, <1>3 DEF UpperPart
  <2>1. y \in S
    BY DEF UpperPart
  <2>2. Height[x] > Height[low] /\ Height[x] \in Nat /\ Height[y] \in Nat
          /\ Height[low] \in Nat
    BY <1>1, <1>2, <1>6, TreeFacts
  <2>3. y # low
    BY <2>2
  <2> QED
    BY <2>1, <2>3
<1>8. Parent[c] = low
  <2>1. c \in Block \ {Genesis} /\ c \in Ancestors[b]
    BY <1>1, <1>4
  <2>2. Parent[c] \in Ancestors[b]
    <3>1. Ancestors[c] \subseteq Ancestors[b]
      BY <2>1, TreeAssumption
    <3> QED
      BY <2>1, <3>1, TreeFacts
  <2>3. Height[c] = Height[Parent[c]] + 1 /\ Height[c] \in Nat /\ Height[Parent[c]] \in Nat
          /\ Height[low] \in Nat
    BY <1>1, <1>2, <2>1, TreeFacts
  <2>4. Height[Parent[c]] >= Height[low]
    BY <1>4, <1>6, <2>3
  <2>5. Parent[c] \in S
    BY <1>2, <2>2, <2>4 DEF UpperPart
  <2>6. Parent[c] \notin rest
    BY <1>4, <2>3
  <2> QED
    BY <2>5, <2>6
<1> QED
  BY <1>7, <1>8

\* Such a set is what its chain has above the parent of its lowest block.
LEMMA UpperFrom ==
    ASSUME NEW b \in Block, NEW S, UpperPart(S, b)
    PROVE  /\ Lowest(S) \in S /\ Lowest(S) \in Block \ {Genesis}
           /\ Parent[Lowest(S)] \in Ancestors[b]
           /\ S = Ancestors[b] \ Ancestors[Parent[Lowest(S)]]
<1> DEFINE low == Lowest(S)
<1>1. Ancestors[b] \subseteq Block /\ S \subseteq Ancestors[b] \ {Genesis} /\ S # {}
  BY TreeFacts DEF UpperPart
<1>2. low \in S /\ \A o \in S : Height[low] <= Height[o]
  <2>1. S \in SUBSET Block
    BY <1>1
  <2> QED
    BY <1>1, <2>1, LowestExists
<1> HIDE DEF low
<1>3. low \in Block \ {Genesis} /\ low \in Ancestors[b]
  BY <1>1, <1>2
<1>4. /\ Parent[low] \in Block /\ Parent[low] \in Ancestors[low]
      /\ Height[low] = Height[Parent[low]] + 1
      /\ Height[low] \in Nat /\ Height[Parent[low]] \in Nat
  BY <1>3, TreeFacts
<1>5. Parent[low] \in Ancestors[b]
  BY <1>3, <1>4, TreeAssumption
<1>6. ASSUME NEW x \in S PROVE x \notin Ancestors[Parent[low]]
  <2>1. Height[low] <= Height[x] /\ Height[x] \in Nat
    BY <1>1, <1>2, TreeFacts
  <2>2. x \in Ancestors[Parent[low]] => Height[x] <= Height[Parent[low]]
    BY <1>4, TreeAssumption
  <2> QED
    BY <1>4, <2>1, <2>2
<1>7. ASSUME NEW x \in Ancestors[b], x \notin Ancestors[Parent[low]] PROVE x \in S
  <2>1. Height[x] \in Nat
    BY <1>1, TreeFacts
  <2>2. ~(Height[x] <= Height[Parent[low]])
    BY <1>5, <1>7, SameChain
  <2>3. Height[x] >= Height[low]
    BY <1>4, <2>1, <2>2
  <2> QED
    BY <1>2, <2>3 DEF UpperPart
<1> QED
  BY <1>1, <1>2, <1>3, <1>5, <1>6, <1>7 DEF low

\* The branch of a block that is not stored, down to the active chain.
LEMMA BranchIsUpperPart ==
    ASSUME NEW b \in Block, b \notin active, Genesis \in active
    PROVE  UpperPart(BranchOf(b), b)
<1>1. \A x \in Ancestors[b] : Height[x] >= Height[b] => x = b
  <2> SUFFICES ASSUME NEW x \in Ancestors[b], Height[x] >= Height[b]
               PROVE  x = b
    OBVIOUS
  <2>1. Height[x] <= Height[b] /\ Height[x] \in Nat /\ Height[b] \in Nat
    BY TreeAssumption
  <2>2. Height[x] = Height[b]
    BY <2>1
  <2> QED
    BY <2>2, TreeAssumption
<1>2. b \in BranchOf(b)
  BY <1>1, TreeFacts DEF BranchOf
<1>3. Genesis \notin BranchOf(b)
  BY TreeFacts DEF BranchOf
<1>4. ASSUME NEW x \in BranchOf(b), NEW y \in Ancestors[b], Height[y] >= Height[x]
      PROVE  y \in BranchOf(b)
  <2>1. Ancestors[b] \subseteq Block
    BY TreeFacts
  <2>2. \A z \in Ancestors[b] : Height[z] \in Nat
    BY <2>1, TreeFacts
  <2>3. x \in Ancestors[b] /\ \A z \in Ancestors[b] : Height[z] >= Height[x] => z \notin active
    BY DEF BranchOf
  <2>4. \A z \in Ancestors[b] : Height[z] >= Height[y] => z \notin active
    BY <1>4, <2>2, <2>3
  <2> QED
    BY <2>4 DEF BranchOf
<1> QED
  BY <1>2, <1>3, <1>4 DEF UpperPart, BranchOf

----------------------------------------------------------------------------
(***************************************************************************)
(* The inductive invariant: what holds of the tables and the memory at     *)
(* every commit (Chain), and what a reorganisation in progress knows       *)
(* (JobOK).  ActiveIsPathToTip and LedgerCommitted are not inductive on    *)
(* their own: a connect in the middle of a reorganisation keeps them only  *)
(* because the block's parent is the tip (JobOK), and a reconnect in       *)
(* #restoreTo keeps the ledger only because every block taken off was on a *)
(* good chain, and the path only where it is not recorded as misplaced.    *)
(***************************************************************************)
StoreTypes ==
    /\ stored \subseteq Block /\ active \subseteq stored
    /\ DOMAIN undo \subseteq Block
    /\ \A b \in DOMAIN undo : IsUndoRecord(undo[b])
    /\ rows \in WorldState /\ tipRow \in Block
    /\ state \in WorldState /\ tip \in Block

ControlTypes ==
    /\ job \in Reorg \cup {Idle}
    /\ verdict \in Statuses
    /\ interrupted \in BOOLEAN /\ misplaced \subseteq Block

\* Every record is the one its block's connection on its parent makes.
UndoExact ==
    \A b \in DOMAIN undo \ misplaced :
        b \in Good /\ undo[b] = UndoRecord(Commitment[Parent[b]], b)

UndoKept ==
    \A b \in active \ {Genesis} :
        (\A x \in stored : Height[x] <= Height[b] + UndoRetention)
            => b \in DOMAIN undo

Chain ==
    /\ StoreTypes /\ ActiveIsPathToTip /\ LedgerCommitted
    /\ UndoExact /\ UndoKept /\ Genesis \in active

JobOK ==
    job # Idle =>
        /\ \A b \in job.gone : b \in Good /\ GoodChain(b)
        /\ job.phase \in {"down", "up"} => UpperPart(job.todo, job.target)
        /\ job.phase = "up" => tip = Parent[Lowest(job.todo)]

IInv == Chain /\ ControlTypes /\ JobOK

\* The initial state: a fresh store holding genesis.
LEMMA InitIInv == Init => IInv
<1> SUFFICES ASSUME Init PROVE IInv
  OBVIOUS
<1>1. Commitment[Genesis] \in WorldState
  BY LedgerAssumption, TreeFacts
<1>2. DOMAIN undo = {}
  BY DEF Init
<1>3. StoreTypes
  BY <1>1, <1>2, TreeFacts DEF Init, StoreTypes
<1>4. ActiveIsPathToTip /\ LedgerCommitted /\ Genesis \in active
  BY TreeFacts DEF Init, ActiveIsPathToTip, LedgerCommitted, GoodChain
<1>5. UndoExact /\ UndoKept
  BY <1>2 DEF UndoExact, UndoKept, Init
<1>6. ControlTypes /\ JobOK
  BY DEF Init, ControlTypes, JobOK, Statuses
<1> QED
  BY <1>3, <1>4, <1>5, <1>6 DEF IInv, Chain

\* #connect keeps everything, on the tip's child and, where it is recorded as
\* misplaced, on another block of a good chain.
LEMMA ConnectKeepsChain ==
    ASSUME Chain, NEW b \in Block \ {Genesis}, Applies(state, b), Connect(b),
           IF tip = Parent[b] THEN misplaced' = misplaced
           ELSE /\ misplaced' = misplaced \cup {b}
                /\ b \in Good /\ GoodChain(b)
    PROVE  Chain'
<1> DEFINE d == ApplyBlock(state, b)
           u == UndoRecord(state, b)
<1>1. state = Commitment[tip] /\ rows = state /\ state \in WorldState
      /\ (misplaced = {} => active = Ancestors[tip]) /\ GoodChain(tip)
  BY DEF Chain, StoreTypes, ActiveIsPathToTip, LedgerCommitted
<1>2. d \in WorldState /\ d = Commitment[b]
  BY <1>1, ApplyBlockType DEF Applies
<1>3. b \in Good /\ GoodChain(b)
  <2>1. tip = Parent[b] => b \in Good
    BY <1>1 DEF Good
  <2>2. tip = Parent[b] => Ancestors[b] = Ancestors[tip] \cup {b}
    BY TreeFacts
  <2> QED
    BY <1>1, <2>1, <2>2 DEF GoodChain
<1>4. rows' = d /\ state' = d /\ tip' = b /\ tipRow' = b
      /\ active' = active \cup {b} /\ stored' = stored \cup {b}
  BY <1>1, WriteIsApply DEF Connect
<1>5. /\ DOMAIN undo' = {y \in DOMAIN undo \cup {b} :
                            \/ Height[b] <= UndoRetention
                            \/ Height[y] >= Height[b] - UndoRetention}
      /\ \A x \in DOMAIN undo' : undo'[x] = IF x = b THEN u ELSE undo[x]
  <2>1. undo' = KeepUndo(PutUndo(undo, b, u), b)
    BY DEF Connect
  <2>2. /\ DOMAIN PutUndo(undo, b, u) = DOMAIN undo \cup {b}
        /\ \A x \in DOMAIN undo \cup {b} :
              PutUndo(undo, b, u)[x] = IF x = b THEN u ELSE undo[x]
    BY DEF PutUndo
  <2> QED
    BY <2>1, <2>2 DEF KeepUndo
<1>6. tip = Parent[b] => Ancestors[b] = Ancestors[tip] \cup {b}
  BY TreeFacts
<1>7. StoreTypes'
  <2>1. IsUndoRecord(u)
    BY <1>1, UndoRecordType
  <2>2. \A x \in DOMAIN undo' : x \in Block /\ IsUndoRecord(undo'[x])
    BY <1>5, <2>1 DEF Chain, StoreTypes
  <2> QED
    BY <1>2, <1>4, <2>2 DEF Chain, StoreTypes
<1>8. ActiveIsPathToTip' /\ Genesis \in active'
  BY <1>1, <1>4, <1>6 DEF ActiveIsPathToTip, Chain
<1>9. LedgerCommitted'
  BY <1>2, <1>3, <1>4 DEF LedgerCommitted, GoodChain
<1>10. UndoExact'
  BY <1>1, <1>3, <1>5 DEF Chain, UndoExact
<1>11. UndoKept'
  <2> SUFFICES ASSUME NEW x \in active' \ {Genesis},
                      \A y \in stored' : Height[y] <= Height[x] + UndoRetention
               PROVE  x \in DOMAIN undo'
    BY DEF UndoKept
  <2>1. Height[b] <= Height[x] + UndoRetention
    BY <1>4
  <2>2. x \in Block /\ Height[x] \in Nat /\ Height[b] \in Nat /\ UndoRetention \in Nat
    BY <1>4, TreeFacts, NodeAssumption DEF Chain, StoreTypes
  <2>3. Height[x] >= Height[b] - UndoRetention
    BY <2>1, <2>2
  <2>4. x = b \/ x \in DOMAIN undo
    BY <1>4 DEF Chain, UndoKept
  <2> QED
    BY <1>5, <2>3, <2>4
<1> QED
  BY <1>7, <1>8, <1>9, <1>10, <1>11 DEF Chain

\* #disconnect of the tip keeps everything, and the tip was a good block.
LEMMA DisconnectKeepsChain ==
    ASSUME Chain, CanDisconnect, Disconnect, misplaced' = misplaced
    PROVE  Chain' /\ tip \in Good /\ GoodChain(tip)
<1>1. tip \in Block \ {Genesis} /\ tip \in DOMAIN undo
  BY DEF Chain, StoreTypes, CanDisconnect
<1>2. Parent[tip] \in Block /\ Ancestors[tip] = Ancestors[Parent[tip]] \cup {tip}
      /\ tip \notin Ancestors[Parent[tip]] /\ tip \in Ancestors[tip]
  BY <1>1, TreeFacts
<1>3. state' = Commitment[Parent[tip]] /\ rows' = state' /\ tip' = Parent[tip]
      /\ tipRow' = tip' /\ active' = active \ {tip} /\ stored' = stored /\ undo' = undo
  BY DEF CanDisconnect, Disconnect
<1>4. StoreTypes'
  <2>1. Commitment[Parent[tip]] \in WorldState
    BY <1>2, LedgerAssumption
  <2> QED
    BY <1>2, <1>3, <2>1 DEF Chain, StoreTypes
<1>5. ActiveIsPathToTip' /\ Genesis \in active'
  BY <1>1, <1>2, <1>3 DEF Chain, ActiveIsPathToTip
<1>6. LedgerCommitted' /\ tip \in Good /\ GoodChain(tip)
  BY <1>1, <1>2, <1>3 DEF Chain, LedgerCommitted, GoodChain
<1>7. UndoExact' /\ UndoKept'
  BY <1>3 DEF Chain, UndoExact, UndoKept
<1> QED
  BY <1>4, <1>5, <1>6, <1>7 DEF Chain

\* Storing a block off the active chain keeps everything.
LEMMA StoreKeepsChain ==
    ASSUME Chain, NEW b \in Block, StoreInactive(b)
    PROVE  Chain' /\ b \notin active
<1>1. stored' = stored \cup {b} /\ b \notin stored
      /\ UNCHANGED <<active, undo, rows, tipRow, state, tip, misplaced>>
  BY DEF StoreInactive, Candidate, memory, history
<1> QED
  BY <1>1 DEF Chain, StoreTypes, ActiveIsPathToTip, LedgerCommitted, UndoExact, UndoKept

\* What a reorganisation connects next is a child of the tip, and leaves it
\* ready for the one after.
LEMMA BranchStep ==
    ASSUME IInv, Running("up") \/ (Running("down") /\ AtFork)
    PROVE  LET b == Lowest(job.todo)
           IN  /\ job \in Reorg /\ b \in Block \ {Genesis} /\ tip = Parent[b]
               /\ (misplaced = {} => b \notin active)
               /\ UpperPart(job.todo, job.target)
               /\ job.todo # {b} =>
                     /\ UpperPart(job.todo \ {b}, job.target)
                     /\ b = Parent[Lowest(job.todo \ {b})]
<1> DEFINE b == Lowest(job.todo)
<1>1. job \in Reorg /\ UpperPart(job.todo, job.target)
  BY DEF IInv, ControlTypes, JobOK, Running
<1>2. job.todo \subseteq Block \ {Genesis} /\ job.todo # {} /\ job.target \in Block
  BY <1>1, TreeFacts DEF UpperPart, Reorg
<1>3. b \in Block \ {Genesis}
  <2>1. job.todo \in SUBSET Block
    BY <1>2
  <2> QED
    BY <1>2, <2>1, LowestExists
<1>4. tip = Parent[b]
  BY DEF IInv, JobOK, Running, AtFork
<1>5. misplaced = {} => b \notin active
  BY <1>3, <1>4, TreeFacts DEF IInv, Chain, ActiveIsPathToTip
<1>6. job.todo # {b} =>
         /\ UpperPart(job.todo \ {b}, job.target)
         /\ b = Parent[Lowest(job.todo \ {b})]
  BY <1>1, <1>2, NextOnBranch
<1> QED
  BY <1>1, <1>3, <1>4, <1>5, <1>6

\* Every action keeps the invariant.
LEMMA NextIInv == IInv /\ [Next]_vars => IInv'
<1> SUFFICES ASSUME IInv, [Next]_vars PROVE IInv'
  OBVIOUS
<1> USE DEF IInv
<1>1. ASSUME UNCHANGED <<store, memory, job, history>>, verdict' \in Statuses
      PROVE  IInv'
  BY <1>1 DEF store, memory, history, Chain, StoreTypes, ActiveIsPathToTip,
              LedgerCommitted, UndoExact, UndoKept, ControlTypes, JobOK
<1>2. ASSUME NEW b \in Block, AcceptBlock(b) PROVE IInv'
  <2>1. ASSUME Duplicate(b) \/ RejectHeader(b) \/ Orphan(b) \/ RejectContext(b)
        PROVE  IInv'
    BY <1>1, <2>1 DEF Duplicate, RejectHeader, Orphan, RejectContext, Untouched,
                      Statuses
  <2>2. CASE ExtendTip(b)
    <3>1. b \in Block \ {Genesis} /\ tip = Parent[b] /\ job = Idle
      BY <2>2 DEF ExtendTip, Candidate
    <3>2. CASE Applies(state, b)
      <4>1. Connect(b) /\ verdict' = "connected" /\ UNCHANGED <<job, history>>
        BY <2>2, <3>2 DEF ExtendTip
      <4>2. Chain'
        BY <3>1, <3>2, <4>1, ConnectKeepsChain DEF history
      <4> QED
        BY <3>1, <4>1, <4>2 DEF ControlTypes, JobOK, Statuses, history
    <3>3. CASE ~Applies(state, b)
      BY <1>1, <2>2, <3>3 DEF ExtendTip, Untouched, Statuses
    <3> QED
      BY <3>2, <3>3
  <2>3. CASE AcceptSide(b) \/ AcceptTooDeep(b)
    <3>1. StoreInactive(b) /\ UNCHANGED job /\ verdict' \in Statuses
      BY <2>3 DEF AcceptSide, AcceptTooDeep, Statuses
    <3>2. Chain' /\ UNCHANGED <<interrupted, misplaced>> /\ job = Idle
      BY <3>1, StoreKeepsChain DEF StoreInactive, Candidate, history
    <3> QED
      BY <3>1, <3>2 DEF ControlTypes, JobOK
  <2>4. CASE BeginReorg(b)
    <3>1. StoreInactive(b) /\ UNCHANGED verdict
          /\ job' = [ phase |-> "down", target |-> b, origin |-> tip,
                      todo |-> BranchOf(b), gone |-> {}, done |-> {} ]
      BY <2>4 DEF BeginReorg
    <3>2. Chain' /\ UNCHANGED <<interrupted, misplaced>> /\ b \notin active
      BY <3>1, StoreKeepsChain DEF StoreInactive, history
    <3>3. Genesis \in active
      BY DEF Chain
    <3>4. UpperPart(BranchOf(b), b)
      BY <3>2, <3>3, BranchIsUpperPart
    <3>5. job' \in Reorg
      BY <3>1, <3>4, TreeFacts DEF Reorg, UpperPart, Chain, StoreTypes
    <3>6. ControlTypes'
      BY <3>1, <3>2, <3>5 DEF ControlTypes
    <3>7. JobOK'
      BY <3>1, <3>4 DEF JobOK
    <3> QED
      BY <3>2, <3>6, <3>7
  <2> QED
    BY <1>2, <2>1, <2>2, <2>3, <2>4 DEF AcceptBlock
<1>3. CASE DisconnectTip
  <2>1. job \in Reorg /\ job.phase = "down" /\ UNCHANGED <<verdict, interrupted, misplaced>>
        /\ UpperPart(job.todo, job.target) /\ \A b \in job.gone : b \in Good /\ GoodChain(b)
    BY <1>3 DEF DisconnectTip, Running, ControlTypes, JobOK, history
  <2>2. CASE CanDisconnect
    <3>1. Disconnect /\ job' = [job EXCEPT !.gone = @ \cup {tip}]
      BY <1>3, <2>2 DEF DisconnectTip
    <3>2. Chain' /\ tip \in Good /\ GoodChain(tip)
      BY <2>1, <2>2, <3>1, DisconnectKeepsChain
    <3>3. job' \in Reorg /\ job'.gone = job.gone \cup {tip} /\ job'.phase = "down"
          /\ job'.todo = job.todo /\ job'.target = job.target
      BY <2>1, <3>1 DEF Reorg, Chain, StoreTypes
    <3> QED
      BY <2>1, <3>2, <3>3 DEF ControlTypes, JobOK
  <2>3. CASE ~CanDisconnect
    <3>1. job' = [job EXCEPT !.phase = "restoring"] /\ UNCHANGED <<store, memory>>
      BY <1>3, <2>3 DEF DisconnectTip
    <3>2. job' \in Reorg /\ job'.gone = job.gone /\ job'.phase = "restoring"
      BY <2>1, <3>1 DEF Reorg
    <3> QED
      BY <2>1, <3>1, <3>2 DEF store, memory, Chain, StoreTypes,
            ActiveIsPathToTip, LedgerCommitted, UndoExact, UndoKept, ControlTypes, JobOK
  <2> QED
    BY <2>2, <2>3
<1>4. CASE ConnectNext
  <2> DEFINE b == Lowest(job.todo)
  <2>1. /\ job \in Reorg /\ b \in Block \ {Genesis} /\ tip = Parent[b]
        /\ (misplaced = {} => b \notin active) /\ UpperPart(job.todo, job.target)
        /\ job.todo # {b} => /\ UpperPart(job.todo \ {b}, job.target)
                             /\ b = Parent[Lowest(job.todo \ {b})]
    BY <1>4, BranchStep DEF ConnectNext
  <2>2. job # Idle /\ \A x \in job.gone : x \in Good /\ GoodChain(x)
    BY <1>4 DEF ConnectNext, Running, JobOK
  <2> HIDE DEF b
  <2>3. CASE Applies(state, b)
    <3>1. Connect(b) /\ UNCHANGED <<interrupted, misplaced>>
          /\ IF job.todo = {b}
             THEN job' = Idle /\ verdict' = "connected"
             ELSE job' = [job EXCEPT !.phase = "up", !.todo = @ \ {b},
                                     !.done = @ \cup {b}] /\ UNCHANGED verdict
      BY <1>4, <2>3 DEF ConnectNext, b, history
    <3>2. Chain' /\ tip' = b
      BY <2>1, <2>3, <3>1, ConnectKeepsChain DEF Connect
    <3>3. CASE job.todo = {b}
      BY <3>1, <3>2, <3>3 DEF ControlTypes, JobOK, Statuses
    <3>4. CASE job.todo # {b}
      <4>1. job' \in Reorg /\ job'.gone = job.gone /\ job'.phase = "up"
            /\ job'.todo = job.todo \ {b} /\ job'.target = job.target
        <5>1. job \in Reorg /\ b \in Block
          BY <2>1
        <5>2. job' = [job EXCEPT !.phase = "up", !.todo = @ \ {b}, !.done = @ \cup {b}]
          BY <3>1, <3>4
        <5> QED
          BY <5>1, <5>2 DEF Reorg
      <4>2. ControlTypes'
        BY <3>1, <3>4, <4>1 DEF ControlTypes
      <4>3. JobOK'
        BY <2>1, <2>2, <3>2, <3>4, <4>1 DEF JobOK
      <4> QED
        BY <3>2, <4>2, <4>3
    <3> QED
      BY <3>3, <3>4
  <2>4. CASE ~Applies(state, b)
    <3>1. active' = active \ {b}
          /\ job' = [job EXCEPT !.phase = "restoring"]
          /\ UNCHANGED <<stored, undo, rows, tipRow, state, tip, verdict, interrupted, misplaced>>
      BY <1>4, <2>4 DEF ConnectNext, b, memory, history
    <3>2. active' \subseteq active /\ (misplaced = {} => active' = active) /\ Genesis \in active'
      BY <2>1, <3>1 DEF Chain
    <3>3. job' \in Reorg /\ job'.gone = job.gone /\ job'.phase = "restoring"
      BY <2>1, <3>1 DEF Reorg
    <3>4. Chain'
      BY <3>1, <3>2 DEF Chain, StoreTypes, ActiveIsPathToTip, LedgerCommitted, UndoExact, UndoKept
    <3> QED
      BY <2>2, <3>1, <3>3, <3>4 DEF ControlTypes, JobOK
  <2> QED
    BY <2>3, <2>4
<1>5. CASE UndoConnected
  <2> DEFINE b == Highest(job.done)
  <2>1. job \in Reorg /\ job.phase = "restoring" /\ UNCHANGED <<verdict, interrupted, misplaced>>
        /\ job' = [job EXCEPT !.done = @ \ {b}]
        /\ \A x \in job.gone : x \in Good /\ GoodChain(x)
    BY <1>5 DEF UndoConnected, Running, ControlTypes, JobOK, history
  <2>2. job' \in Reorg /\ job'.gone = job.gone /\ job'.phase = "restoring"
    BY <2>1 DEF Reorg
  <2>3. Chain'
    <3>1. CASE tip = b /\ CanDisconnect
      BY <1>5, <2>1, <3>1, DisconnectKeepsChain DEF UndoConnected
    <3>2. CASE ~(tip = b /\ CanDisconnect)
      BY <1>5, <2>1, <3>2 DEF UndoConnected, store, memory, Chain, StoreTypes,
            ActiveIsPathToTip, LedgerCommitted, UndoExact, UndoKept
    <3> QED
      BY <3>1, <3>2
  <2> QED
    BY <2>1, <2>2, <2>3 DEF ControlTypes, JobOK
<1>6. CASE RedoDisconnected
  <2> DEFINE b == Lowest(job.gone)
  <2>1. job \in Reorg /\ job.phase = "restoring" /\ UNCHANGED <<verdict, interrupted>>
        /\ job' = [job EXCEPT !.gone = @ \ {b}] /\ job.gone # {} /\ PutBack(b)
        /\ \A x \in job.gone : x \in Good /\ GoodChain(x)
    BY <1>6 DEF RedoDisconnected, Running, ControlTypes, JobOK
  <2>2. job' \in Reorg /\ job'.phase = "restoring" /\ job'.gone \subseteq job.gone
    BY <2>1 DEF Reorg
  <2>3. b \in Good /\ GoodChain(b) /\ b \in Block \ {Genesis}
    <3>1. job.gone \in SUBSET Block
      BY <2>1 DEF Reorg
    <3>2. b \in job.gone
      BY <2>1, <3>1, LowestExists
    <3> QED
      BY <2>1, <3>2 DEF Good
  <2> HIDE DEF b
  <2>4. Chain'
    <3>1. CASE Applies(state, b)
      BY <2>1, <2>3, <3>1, ConnectKeepsChain DEF PutBack
    <3>2. CASE ~Applies(state, b)
      BY <2>1, <3>2 DEF PutBack, store, memory, Chain, StoreTypes,
            ActiveIsPathToTip, LedgerCommitted, UndoExact, UndoKept
    <3> QED
      BY <3>1, <3>2
  <2>5. misplaced' \subseteq Block
    BY <2>1, <2>3 DEF PutBack, ControlTypes
  <2> QED
    BY <2>1, <2>2, <2>4, <2>5 DEF ControlTypes, JobOK
<1>7. CASE EndRestore
  BY <1>7 DEF EndRestore, store, memory, history, Chain, StoreTypes,
        ActiveIsPathToTip, LedgerCommitted, UndoExact, UndoKept, ControlTypes,
        JobOK, Statuses
<1>8. CASE Restart
  BY <1>8 DEF Restart, store, Chain, StoreTypes, ActiveIsPathToTip,
        LedgerCommitted, UndoExact, UndoKept, ControlTypes, JobOK
<1>9. CASE StoreFault
  BY <1>9 DEF StoreFault, store, memory, Chain, StoreTypes, ActiveIsPathToTip,
        LedgerCommitted, UndoExact, UndoKept, ControlTypes, JobOK, Statuses
<1>10. CASE UNCHANGED vars
  BY <1>1, <1>10 DEF vars, ControlTypes
<1> QED
  BY <1>2, <1>3, <1>4, <1>5, <1>6, <1>7, <1>8, <1>9, <1>10 DEF Next, ReorgStep

\* The invariant holds of every behaviour.
THEOREM Invariance == Spec => []IInv
<1> QED
  BY InitIInv, NextIInv, PTL DEF Spec

----------------------------------------------------------------------------
(***************************************************************************)
(* The properties the runs check.                                          *)
(***************************************************************************)

\* Every variable keeps its type; in particular a block flagged active is
\* always a stored one.
THEOREM TypeCorrect == Spec => []TypeOK
<1>1. IInv => TypeOK
  BY DEF IInv, Chain, StoreTypes, ControlTypes, TypeOK
<1> QED
  BY <1>1, Invariance, PTL

\* At every commit, in the middle of a reorganisation and after a crash, the
\* rows flagged active are the path from genesis to the tip, and the tip row
\* is the tip.
THEOREM ActivePath == Spec => []ActiveIsPathToTip
<1>1. IInv => ActiveIsPathToTip
  BY DEF IInv, Chain
<1> QED
  BY <1>1, Invariance, PTL

\* The tables, updated by difference, hold the state the tip's header commits
\* to, and every block of the active chain was validated on its parent.
THEOREM LedgerMatchesHeader == Spec => []LedgerCommitted
<1>1. IInv => LedgerCommitted
  BY DEF IInv, Chain
<1> QED
  BY <1>1, Invariance, PTL

\* Undo records are kept for the window and always take their block back.
THEOREM UndoSuffices == Spec => []UndoWindow
<1>1. IInv => UndoWindow
  <2> SUFFICES ASSUME IInv PROVE UndoWindow
    OBVIOUS
  <2>1. ASSUME NEW b \in DOMAIN undo \ misplaced
        PROVE  ApplyUndo(Commitment[b], undo[b]) = Commitment[Parent[b]]
    <3> DEFINE p == Commitment[Parent[b]]
    <3>1. b \in Block \ {Genesis} /\ Applies(p, b) /\ undo[b] = UndoRecord(p, b)
      BY DEF IInv, Chain, UndoExact, Good
    <3>2. p \in WorldState
      BY <3>1, TreeFacts, LedgerAssumption
    <3>3. ApplyBlock(p, b) = Commitment[b]
      BY <3>1 DEF Applies
    <3> QED
      BY <3>1, <3>2, <3>3, UndoInverts
  <2> QED
    BY <2>1 DEF IInv, Chain, UndoKept, UndoWindow
<1> QED
  BY <1>1, Invariance, PTL
----------------------------------------------------------------------------
(***************************************************************************)
(* Two chains and their fork.                                              *)
(***************************************************************************)

\* The lowest block of a chain above one of its blocks is that block's child.
LEMMA RestStartsAbove ==
    ASSUME NEW b \in Block, NEW t \in Ancestors[b], Ancestors[b] \ Ancestors[t] # {}
    PROVE  LET low == Lowest(Ancestors[b] \ Ancestors[t])
           IN  low \in Ancestors[b] \ Ancestors[t] /\ Parent[low] = t
<1> DEFINE S   == Ancestors[b] \ Ancestors[t]
           low == Lowest(S)
<1>1. Ancestors[b] \subseteq Block /\ t \in Block /\ Ancestors[t] \subseteq Block
      /\ Genesis \in Ancestors[t] /\ t \in Ancestors[t]
  <2>1. Ancestors[b] \subseteq Block
    BY TreeFacts
  <2> QED
    BY <2>1, TreeFacts
<1>2. low \in S /\ \A o \in S : Height[low] <= Height[o]
  <2>1. S \in SUBSET Block
    BY <1>1
  <2> HIDE DEF S
  <2> QED
    BY <2>1, LowestExists DEF S
<1>3. low \in Block \ {Genesis} /\ low \in Ancestors[b]
  BY <1>1, <1>2
<1>4. /\ Parent[low] \in Block /\ Parent[low] \in Ancestors[low]
      /\ Height[low] = Height[Parent[low]] + 1
      /\ Height[Parent[low]] \in Nat /\ Height[t] \in Nat
  BY <1>1, <1>3, TreeFacts
<1>5. Parent[low] \in Ancestors[b]
  <2>1. Ancestors[low] \subseteq Ancestors[b]
    BY <1>3, TreeAssumption
  <2> QED
    BY <1>4, <2>1
<1>6. Parent[low] \in Ancestors[t]
  <2>1. Parent[low] \notin S
    BY <1>2, <1>4
  <2> QED
    BY <1>5, <2>1
<1>7. Height[low] > Height[t]
  <2>1. ~(Height[low] <= Height[t])
    BY <1>2, <1>3, SameChain
  <2> QED
    BY <1>4, <2>1
<1>8. Height[Parent[low]] <= Height[t]
  BY <1>1, <1>6, TreeAssumption
<1>9. Height[Parent[low]] = Height[t]
  BY <1>4, <1>7, <1>8
<1>10. Parent[low] = t
  BY <1>1, <1>6, <1>9, TreeAssumption
<1> QED
  BY <1>2, <1>10

\* The branch #reorgTo collects is what the target's chain does not share
\* with the active one, and ForkPoint is the highest block they share.
LEMMA ForkPointIsFork ==
    ASSUME NEW b \in Block, tip \in Block, active = Ancestors[tip], b \notin active
    PROVE  /\ BranchOf(b) = Ancestors[b] \ Ancestors[tip]
           /\ ForkPoint(b) \in Ancestors[b] \cap Ancestors[tip]
           /\ \A a \in Ancestors[b] \cap Ancestors[tip] :
                 Height[a] <= Height[ForkPoint(b)]
<1> DEFINE B   == BranchOf(b)
           low == Lowest(B)
<1>1. Ancestors[b] \subseteq Block /\ Ancestors[tip] \subseteq Block
      /\ Genesis \in active
  BY TreeFacts
<1>2. ASSUME NEW a \in Ancestors[b], NEW x \in Ancestors[b], Height[x] >= Height[a],
             x \in active
      PROVE  a \in active
  <2>1. Height[a] <= Height[x]
    BY <1>1, <1>2, TreeFacts
  <2>2. a \in Ancestors[x]
    BY <1>2, <2>1, SameChain
  <2>3. Ancestors[x] \subseteq Ancestors[tip]
    BY <1>2, TreeAssumption
  <2> QED
    BY <2>2, <2>3
<1>3. B = Ancestors[b] \ Ancestors[tip]
  <2>1. ASSUME NEW a \in B PROVE a \in Ancestors[b] \ Ancestors[tip]
    BY <1>1, <2>1, TreeFacts DEF BranchOf
  <2>2. ASSUME NEW a \in Ancestors[b] \ Ancestors[tip] PROVE a \in B
    BY <1>2, <2>2 DEF BranchOf
  <2> QED
    BY <2>1, <2>2
<1>4. UpperPart(B, b)
  BY <1>1, BranchIsUpperPart
<1>5. low \in B /\ \A o \in B : Height[low] <= Height[o]
  <2>1. B \in SUBSET Block /\ B # {}
    BY <1>1, <1>3, <1>4 DEF UpperPart
  <2> HIDE DEF B
  <2> QED
    BY <2>1, LowestExists
<1>6. low \in Ancestors[b] /\ low \in Block \ {Genesis}
  BY <1>1, <1>3, <1>5
<1>7. Parent[low] \in Ancestors[low] /\ Height[low] = Height[Parent[low]] + 1
      /\ Parent[low] \in Block /\ Height[Parent[low]] \in Nat
  BY <1>6, TreeFacts
<1>8. Parent[low] \in Ancestors[b]
  <2>1. Ancestors[low] \subseteq Ancestors[b]
    BY <1>6, TreeAssumption
  <2> QED
    BY <1>7, <2>1
<1>9. Parent[low] \notin B
  BY <1>5, <1>7
<1>10. ASSUME NEW a \in Ancestors[b] \cap Ancestors[tip]
       PROVE  Height[a] <= Height[Parent[low]]
  <2>1. Height[a] \in Nat
    BY <1>1, TreeFacts
  <2>2. ~(Height[a] >= Height[low])
    BY <1>3, <1>4, <1>5 DEF UpperPart
  <2> QED
    BY <1>7, <2>1, <2>2
<1> QED
  BY <1>3, <1>8, <1>9, <1>10 DEF ForkPoint

\* A set of blocks of one chain that is not empty has a highest one.
LEMMA HighestExists ==
    ASSUME NEW t \in Block, NEW S \in SUBSET Ancestors[t], S # {}
    PROVE  /\ Highest(S) \in S
           /\ \A o \in S : Height[o] <= Height[Highest(S)]
<1> DEFINE H == {Height[b] : b \in S}
<1>1. /\ Height[t] \in Nat
      /\ \A b \in S : Height[b] \in Nat /\ Height[b] <= Height[t]
  BY TreeFacts, TreeAssumption
<1>2. H \in SUBSET Nat /\ H # {} /\ \A n \in H : n <= Height[t]
  BY <1>1
<1>3. \E n \in H : \A m \in H : m <= n
  <2> HIDE DEF H
  <2> QED
    BY <1>1, <1>2, NatGreatest
<1>4. \E b \in S : \A o \in S : Height[o] <= Height[b]
  BY <1>3
<1> QED
  BY <1>4 DEF Highest

----------------------------------------------------------------------------
(***************************************************************************)
(* The reorganisation.  IInv says what every commit keeps; what follows    *)
(* says where a reorganisation is: which part of the old chain is taken    *)
(* off, which part of the new one is connected, and that the tip never     *)
(* leaves the two chains nor, until a block is misplaced, falls below      *)
(* their fork.  The flags of the table say where #reorgTo turns upwards,   *)
(* and are right until then; after it, any block of both chains may be     *)
(* where it turned.                                                        *)
(***************************************************************************)
Common == Ancestors[job.target] \cap Ancestors[job.origin]

\* What #reorgTo was called with, and what it checked first.
MoveStarted ==
    /\ job.target \in stored \cap HeaderOk \cap ContextOk
    /\ job.target # Genesis
    /\ job.origin \in stored \ {job.target}
    /\ Parent[job.target] # job.origin
    /\ ChainWork[job.target] > ChainWork[job.origin]
    /\ GoodChain(job.origin)
    /\ misplaced = {} => \E f \in Common :
          /\ \A a \in Common : Height[a] <= Height[f]
          /\ Height[job.origin] - Height[f] <= UndoRetention

\* Going down, and putting back: the old chain is on up to the tip.
OnOldChain ==
    /\ tip \in Ancestors[job.origin]
    /\ job.done = {}
    /\ job.gone = Ancestors[job.origin] \ Ancestors[tip]

\* Going up from f, and taking back: the new chain is on up to the tip.
TurnedAt(f) ==
    /\ f \in Ancestors[tip]
    /\ job.done = Ancestors[tip] \ Ancestors[f]
    /\ job.gone = Ancestors[job.origin] \ Ancestors[f]
    /\ misplaced = {} => Common \subseteq Ancestors[f]

OnNewChain ==
    /\ tip \in Ancestors[job.target]
    /\ \E f \in Common : TurnedAt(f)

\* Blocks of the old chain from some height up.
TopOfOld(S) ==
    /\ S \subseteq Ancestors[job.origin]
    /\ \A x \in S, y \in Ancestors[job.origin] : Height[y] >= Height[x] => y \in S

\* Taking back stopped at a block whose record is pruned.
Stuck ==
    /\ tip \in Ancestors[job.target]
    /\ Height[tip] + UndoRetention + 1 < Height[job.target]
    /\ job.done \subseteq Ancestors[tip] \ {tip}
    /\ TopOfOld(job.gone)
    /\ tip \in Ancestors[job.origin] =>
          misplaced # {} /\ Ancestors[job.origin] \ Ancestors[tip] \subseteq job.gone

MovePosition ==
    /\ misplaced = {} => Common \subseteq Ancestors[tip]
    /\ job.phase = "down" =>
          /\ OnOldChain
          /\ misplaced = {} => job.todo = Ancestors[job.target] \ Ancestors[job.origin]
    /\ job.phase = "up" =>
          OnNewChain /\ job.todo = Ancestors[job.target] \ Ancestors[tip]
    /\ job.phase = "restoring" => OnOldChain \/ OnNewChain \/ Stuck

\* What was connected on the way up can be taken off again, unless it is
\* already pruned.
Recorded(b) == b \in DOMAIN undo /\ undo[b] = UndoRecord(Commitment[Parent[b]], b)

DoneKept ==
    \A b \in job.done :
        Recorded(b) \/ Height[b] + UndoRetention + 1 < Height[job.target]

MoveOK ==
    /\ \A b \in stored : Ancestors[b] \subseteq stored
    /\ job # Idle => MoveStarted /\ MovePosition /\ DoneKept

\* With the record its connection made, the tip can be taken off.
LEMMA RecordDisconnects ==
    ASSUME Chain, tip # Genesis, Recorded(tip)
    PROVE  CanDisconnect
<1> DEFINE p == Commitment[Parent[tip]]
<1>1. tip \in Block \ {Genesis} /\ state = Commitment[tip] /\ undo[tip] = UndoRecord(p, tip)
  BY DEF Chain, StoreTypes, LedgerCommitted, Recorded
<1>2. Applies(p, tip)
  BY <1>1, TreeFacts DEF Chain, LedgerCommitted, GoodChain, Good
<1>3. p \in WorldState
  BY <1>1, TreeFacts, LedgerAssumption
<1>4. ApplyBlock(p, tip) = Commitment[tip]
  BY <1>2 DEF Applies
<1>5. ApplyUndo(state, undo[tip]) = p
  BY <1>1, <1>2, <1>3, <1>4, UndoInverts
<1> QED
  BY <1>1, <1>5 DEF CanDisconnect, Recorded

\* The blocks of the two chains, their parents and their common part.
LEMMA MoveFacts ==
    ASSUME IInv, MoveOK, job # Idle
    PROVE  /\ job \in Reorg /\ job.target \in Block /\ job.origin \in Block
           /\ tip \in Block
           /\ Common \subseteq Block
           /\ Genesis \in Common
           /\ \A t \in Common : Ancestors[t] \subseteq Common
           /\ \A o \in {job.target, job.origin} : \A a \in Ancestors[o] :
                 /\ a \in Block
                 /\ Ancestors[a] \subseteq Ancestors[o]
<1>1. job \in Reorg
  BY DEF IInv, ControlTypes
<1>2. job.target \in Block /\ job.origin \in Block /\ tip \in Block
  BY <1>1 DEF Reorg, IInv, Chain, StoreTypes
<1>3. \A o \in {job.target, job.origin} : \A a \in Ancestors[o] :
         a \in Block /\ Ancestors[a] \subseteq Ancestors[o]
  BY <1>2, TreeFacts, TreeAssumption
<1> QED
  BY <1>1, <1>2, <1>3, TreeFacts DEF Common

\* Connecting the next block of the branch.
LEMMA ConnectMoves ==
    ASSUME IInv, MoveOK, job # Idle, NEW b \in Block \ {Genesis},
           tip = Parent[b], b \in Ancestors[job.target] \cup Ancestors[job.origin],
           Connect(b)
    PROVE  /\ Ancestors[tip'] = Ancestors[tip] \cup {b} /\ tip' = b
           /\ b \notin Ancestors[tip]
           /\ stored' = stored
<1>1. tip' = b /\ stored' = stored \cup {b} /\ Ancestors[b] = Ancestors[tip] \cup {b}
      /\ b \notin Ancestors[tip]
  BY TreeFacts DEF Connect
<1>2. b \in stored
  BY DEF MoveOK, MoveStarted
<1> QED
  BY <1>1, <1>2

\* What connecting a block that is not the target prunes is more than the
\* window below the target.
LEMMA ConnectKeepsDone ==
    ASSUME IInv, MoveOK, job # Idle, NEW b \in Block \ {Genesis},
           b \in Ancestors[job.target], b # job.target, Connect(b),
           tip = Parent[b], job.done \subseteq Block
    PROVE  \A x \in job.done \cup {b} :
              Recorded(x)' \/ Height[x] + UndoRetention + 1 < Height[job.target]
<1> SUFFICES ASSUME NEW x \in job.done \cup {b}, ~Recorded(x)'
             PROVE  Height[x] + UndoRetention + 1 < Height[job.target]
  OBVIOUS
<1>1. x \in Block /\ Height[x] \in Nat /\ Height[b] \in Nat
      /\ Height[job.target] \in Nat /\ UndoRetention \in Nat
  BY MoveFacts, TreeFacts, NodeAssumption
<1>2. Height[b] < Height[job.target]
  <2>1. Height[b] <= Height[job.target] /\ job.target \in Ancestors[job.target]
    BY MoveFacts, TreeFacts, TreeAssumption
  <2>2. Height[b] # Height[job.target]
    BY <2>1, MoveFacts, TreeAssumption
  <2> QED
    BY <1>1, <2>1, <2>2
<1>3. /\ DOMAIN undo' = {y \in DOMAIN undo \cup {b} :
                            \/ Height[b] <= UndoRetention
                            \/ Height[y] >= Height[b] - UndoRetention}
      /\ \A y \in DOMAIN undo' :
            undo'[y] = IF y = b THEN UndoRecord(Commitment[Parent[b]], b) ELSE undo[y]
  <2> DEFINE u == UndoRecord(state, b)
  <2>1. undo' = KeepUndo(PutUndo(undo, b, u), b)
    BY DEF Connect
  <2>2. /\ DOMAIN PutUndo(undo, b, u) = DOMAIN undo \cup {b}
        /\ \A y \in DOMAIN undo \cup {b} :
              PutUndo(undo, b, u)[y] = IF y = b THEN u ELSE undo[y]
    BY DEF PutUndo
  <2>3. state = Commitment[Parent[b]]
    BY DEF IInv, Chain, LedgerCommitted
  <2> QED
    BY <2>1, <2>2, <2>3 DEF KeepUndo
<1>4. CASE x \in DOMAIN undo'
  <2>1. x # b /\ undo'[x] = undo[x] /\ x \in DOMAIN undo
    BY <1>3, <1>4 DEF Recorded
  <2>2. ~Recorded(x)
    BY <1>4, <2>1 DEF Recorded
  <2> QED
    BY <2>1, <2>2 DEF MoveOK, DoneKept
<1>5. CASE x \notin DOMAIN undo' /\ (x \in DOMAIN undo \/ x = b)
  <2>1. ~(Height[b] <= UndoRetention) /\ ~(Height[x] >= Height[b] - UndoRetention)
    BY <1>3, <1>5
  <2> QED
    BY <1>1, <1>2, <2>1
<1>6. CASE x \notin DOMAIN undo /\ x # b
  BY <1>6 DEF MoveOK, DoneKept, Recorded
<1> QED
  BY <1>4, <1>5, <1>6

\* The blocks in the index stay closed under parents.
LEMMA StoredClosed ==
    ASSUME IInv, MoveOK, NEW b \in Block \ {Genesis}, Parent[b] \in stored,
           stored' = stored \cup {b}
    PROVE  \A x \in stored' : Ancestors[x] \subseteq stored'
BY TreeFacts DEF MoveOK

\* While nothing is stored but what the index has, a reorganisation remains
\* the one that was started.
LEMMA StillStarted ==
    ASSUME MoveOK, job # Idle, job' # Idle, stored' = stored,
           misplaced' = misplaced \/ misplaced' # {},
           job'.target = job.target, job'.origin = job.origin
    PROVE  /\ \A x \in stored' : Ancestors[x] \subseteq stored'
           /\ MoveStarted' /\ Common' = Common
BY DEF MoveOK, MoveStarted, Common, GoodChain

\* #reorgTo begins.
LEMMA BeginMoves ==
    ASSUME IInv, MoveOK, tip \in stored, NEW b \in Block, BeginReorg(b)
    PROVE  MoveOK'
<1>1. /\ Candidate(b) /\ b \in ContextOk /\ Parent[b] # tip
      /\ stored' = stored \cup {b} /\ UNCHANGED <<undo, tip, misplaced>>
      /\ ChainWork[b] > ChainWork[tip]
      /\ Height[tip] - Height[ForkPoint(b)] <= UndoRetention
      /\ job' = [ phase |-> "down", target |-> b, origin |-> tip,
                  todo |-> BranchOf(b), gone |-> {}, done |-> {} ]
  BY DEF BeginReorg, StoreInactive, memory, history
<1>2. b \in HeaderOk \ stored /\ b \in Block \ {Genesis} /\ Parent[b] \in stored
  BY <1>1 DEF Candidate
<1>3. tip \in Block /\ (misplaced = {} => active = Ancestors[tip]) /\ b \notin active
      /\ GoodChain(tip)
  BY <1>2, TreeFacts DEF IInv, Chain, StoreTypes, ActiveIsPathToTip, LedgerCommitted
<1>4. misplaced = {} =>
      /\ BranchOf(b) = Ancestors[b] \ Ancestors[tip]
      /\ ForkPoint(b) \in Ancestors[b] \cap Ancestors[tip]
      /\ \A a \in Ancestors[b] \cap Ancestors[tip] : Height[a] <= Height[ForkPoint(b)]
  BY <1>3, ForkPointIsFork
<1>5. job' # Idle
  BY <1>1 DEF Idle
<1>6. MoveStarted'
  BY <1>1, <1>2, <1>3, <1>4 DEF MoveStarted, Common, GoodChain
<1>7. MovePosition'
  <2>1. tip \in Ancestors[tip]
    BY <1>3, TreeFacts
  <2>2. OnOldChain'
    BY <1>1, <2>1 DEF OnOldChain
  <2> QED
    BY <1>1, <1>4, <2>2 DEF MovePosition, Common
<1>8. DoneKept'
  BY <1>1 DEF DoneKept
<1>9. \A x \in stored' : Ancestors[x] \subseteq stored'
  BY <1>1, <1>2, StoredClosed
<1> QED
  BY <1>6, <1>7, <1>8, <1>9 DEF MoveOK

\* One block down, or the failure that turns back.
LEMMA DisconnectMoves ==
    ASSUME IInv, MoveOK, DisconnectTip
    PROVE  MoveOK'
<1>1. job # Idle /\ job.phase = "down" /\ ~AtFork /\ UpperPart(job.todo, job.target)
      /\ misplaced' = misplaced
  BY DEF DisconnectTip, Running, IInv, JobOK, history
<1>2. /\ OnOldChain /\ DoneKept
      /\ misplaced = {} => /\ job.todo = Ancestors[job.target] \ Ancestors[job.origin]
                           /\ Common \subseteq Ancestors[tip]
  BY <1>1 DEF MoveOK, MovePosition
<1>3. CASE CanDisconnect
  <2>1. /\ stored' = stored /\ tip' = Parent[tip]
        /\ job' = [job EXCEPT !.gone = @ \cup {tip}]
    BY <1>3 DEF DisconnectTip, Disconnect
  <2>2. /\ job' # Idle /\ job'.target = job.target /\ job'.origin = job.origin
        /\ job'.phase = "down" /\ job'.todo = job.todo /\ job'.done = job.done
        /\ job'.gone = job.gone \cup {tip}
    BY <1>1, <2>1, MoveFacts DEF Reorg, Idle
  <2>3. tip \in Block \ {Genesis} /\ Ancestors[tip] = Ancestors[Parent[tip]] \cup {tip}
        /\ Parent[tip] \in Ancestors[tip] /\ tip \notin Ancestors[Parent[tip]]
    BY <1>1, <1>3, MoveFacts, TreeFacts DEF CanDisconnect
  <2>4. misplaced = {} => tip \notin Common
    <3> SUFFICES ASSUME misplaced = {}, tip \in Common PROVE FALSE
      OBVIOUS
    <3>1. Ancestors[tip] = Common
      BY <1>1, <1>2, MoveFacts
    <3>2. job.todo = Ancestors[job.target] \ Ancestors[tip]
      BY <1>2, <3>1 DEF Common
    <3>3. tip \in Ancestors[job.target] /\ job.target \in Block
          /\ Ancestors[job.target] \ Ancestors[tip] # {}
      BY <1>1, <3>2, MoveFacts DEF Common, UpperPart
    <3>4. Parent[Lowest(job.todo)] = tip
      BY <3>2, <3>3, RestStartsAbove
    <3> QED
      BY <1>1, <3>4 DEF AtFork
  <2>5. OnOldChain' /\ (misplaced = {} => Common \subseteq Ancestors[tip'])
    <3>1. Ancestors[tip] \subseteq Ancestors[job.origin]
      BY <1>1, <1>2, MoveFacts DEF OnOldChain
    <3> QED
      BY <1>2, <2>1, <2>2, <2>3, <2>4, <3>1 DEF OnOldChain
  <2>6. /\ \A x \in stored' : Ancestors[x] \subseteq stored'
        /\ MoveStarted' /\ Common' = Common
    BY <1>1, <2>1, <2>2, StillStarted
  <2>7. MovePosition' /\ DoneKept'
    BY <1>1, <1>2, <2>2, <2>5, <2>6 DEF MovePosition, DoneKept, OnOldChain
  <2> QED
    BY <2>6, <2>7 DEF MoveOK
<1>4. CASE ~CanDisconnect
  <2>1. /\ stored' = stored /\ tip' = tip /\ undo' = undo
        /\ job' = [job EXCEPT !.phase = "restoring"]
    BY <1>4 DEF DisconnectTip, store, memory
  <2>2. /\ job' # Idle /\ job'.target = job.target /\ job'.origin = job.origin
        /\ job'.phase = "restoring" /\ job'.done = job.done /\ job'.gone = job.gone
    BY <1>1, <2>1, MoveFacts DEF Reorg, Idle
  <2>3. /\ \A x \in stored' : Ancestors[x] \subseteq stored'
        /\ MoveStarted' /\ Common' = Common
    BY <1>1, <2>1, <2>2, StillStarted
  <2>4. MovePosition' /\ DoneKept'
    BY <1>1, <1>2, <2>1, <2>2, <2>3 DEF MovePosition, DoneKept, OnOldChain
  <2> QED
    BY <2>3, <2>4 DEF MoveOK
<1> QED
  BY <1>3, <1>4

\* Where #reorgTo connects next, it stands on the new chain.
LEMMA ConnectFrom ==
    ASSUME IInv, MoveOK, Running("up") \/ (Running("down") /\ AtFork)
    PROVE  /\ OnNewChain
           /\ job.todo = Ancestors[job.target] \ Ancestors[tip]
           /\ Lowest(job.todo) \in job.todo
<1>1. job # Idle /\ UpperPart(job.todo, job.target) /\ MovePosition /\ job.target \in Block
  BY MoveFacts DEF Running, IInv, JobOK, MoveOK
<1>2. /\ Lowest(job.todo) \in job.todo
      /\ Parent[Lowest(job.todo)] \in Ancestors[job.target]
      /\ job.todo = Ancestors[job.target] \ Ancestors[Parent[Lowest(job.todo)]]
  BY <1>1, UpperFrom
<1>3. CASE Running("up")
  BY <1>1, <1>2, <1>3 DEF Running, MovePosition
<1>4. CASE Running("down") /\ AtFork
  <2>1. OnOldChain /\ (misplaced = {} => Common \subseteq Ancestors[tip])
    BY <1>1, <1>4 DEF Running, MovePosition
  <2>2. tip \in Common /\ tip \in Ancestors[tip]
    BY <1>1, <1>2, <1>4, <2>1, MoveFacts, TreeFacts DEF AtFork, Common, OnOldChain
  <2>3. TurnedAt(tip)
    BY <2>1, <2>2 DEF TurnedAt, OnOldChain
  <2> QED
    BY <1>2, <1>4, <2>2, <2>3 DEF OnNewChain, AtFork, Common
<1> QED
  BY <1>3, <1>4

\* One block up, the last one, or the failure that turns back.
LEMMA ConnectNextMoves ==
    ASSUME IInv, MoveOK, ConnectNext
    PROVE  /\ MoveOK'
           /\ stored' = stored /\ misplaced' = misplaced
           /\ job' = Idle => tip' = job.target
<1> DEFINE b == Lowest(job.todo)
<1>1. job # Idle /\ (Running("up") \/ (Running("down") /\ AtFork)) /\ misplaced' = misplaced
  BY DEF ConnectNext, Running, history
<1>2. OnNewChain /\ job.todo = Ancestors[job.target] \ Ancestors[tip] /\ b \in job.todo
      /\ MovePosition /\ DoneKept
  BY <1>1, ConnectFrom DEF MoveOK
<1>3. job \in Reorg /\ b \in Block \ {Genesis} /\ tip = Parent[b]
  BY <1>1, BranchStep
<1>4. b \in Ancestors[job.target] \ Ancestors[tip]
  BY <1>2
<1>f. PICK f \in Common : TurnedAt(f)
  BY <1>2 DEF OnNewChain
<1>g. f \in Block /\ tip \in Block /\ Ancestors[f] \subseteq Ancestors[tip]
  BY <1>1, <1>f, MoveFacts, TreeAssumption DEF TurnedAt
<1> HIDE DEF b
<1>5. CASE Applies(state, b)
  <2>1. /\ Connect(b)
        /\ IF job.todo = {b}
           THEN job' = Idle
           ELSE job' = [job EXCEPT !.phase = "up", !.todo = @ \ {b}, !.done = @ \cup {b}]
    BY <1>5 DEF ConnectNext, b
  <2>2. Ancestors[tip'] = Ancestors[tip] \cup {b} /\ b \notin Ancestors[tip]
        /\ stored' = stored /\ tip' = b
    BY <1>1, <1>3, <1>4, <2>1, ConnectMoves
  <2>3. CASE job.todo = {b}
    <3>1. job' = Idle
      BY <2>1, <2>3
    <3>2. job.target \in job.todo
      <4>1. job.target \in Ancestors[job.target] /\ b \in Ancestors[job.target]
            /\ job.target \in Block
        BY <1>1, <1>4, MoveFacts, TreeFacts
      <4>2. CASE job.target \in Ancestors[tip]
        <5>1. tip \in Ancestors[job.target]
          BY <1>2 DEF OnNewChain
        <5>2. Ancestors[job.target] \subseteq Ancestors[tip]
          BY <1>1, <4>2, <5>1, MoveFacts, TreeAssumption
        <5> QED
          BY <1>4, <5>2
      <4> QED
        BY <1>2, <4>1, <4>2
    <3>3. tip' = job.target
      BY <2>2, <2>3, <3>2
    <3> QED
      BY <1>1, <2>2, <3>1, <3>3 DEF MoveOK
  <2>4. CASE job.todo # {b}
    <3>1. job' = [job EXCEPT !.phase = "up", !.todo = @ \ {b}, !.done = @ \cup {b}]
      BY <2>1, <2>4
    <3>2. /\ job' # Idle /\ job'.target = job.target /\ job'.origin = job.origin
          /\ job'.phase = "up" /\ job'.done = job.done \cup {b} /\ job'.gone = job.gone
          /\ job'.todo = job.todo \ {b}
      BY <1>3, <3>1 DEF Reorg, Idle
    <3>3. b # job.target
      <4>1. CASE b = job.target
        <5>1. Ancestors[job.target] = Ancestors[tip] \cup {b}
          BY <1>3, <4>1, TreeFacts
        <5> QED
          BY <1>2, <1>4, <2>4, <5>1
      <4> QED
        BY <4>1
    <3>5. /\ \A x \in stored' : Ancestors[x] \subseteq stored'
          /\ MoveStarted' /\ Common' = Common
      BY <1>1, <2>2, <3>2, StillStarted
    <3>4. OnNewChain' /\ job'.todo = Ancestors[job'.target] \ Ancestors[tip']
          /\ (misplaced' = {} => Common' \subseteq Ancestors[tip'])
      <4>1. tip' \in Ancestors[job.target]
        BY <1>4, <2>2
      <4>2. job'.done = Ancestors[tip'] \ Ancestors[f]
        BY <1>f, <1>g, <2>2, <3>2 DEF TurnedAt
      <4>3. job'.todo = Ancestors[job.target] \ Ancestors[tip']
        BY <1>2, <2>2, <3>2
      <4>4. TurnedAt(f)'
        BY <1>1, <1>f, <2>2, <3>2, <3>5, <4>2 DEF TurnedAt
      <4> QED
        BY <1>1, <1>f, <1>g, <2>2, <3>2, <3>5, <4>1, <4>3, <4>4 DEF OnNewChain, TurnedAt
    <3>6. MovePosition'
      BY <3>2, <3>4 DEF MovePosition
    <3>7. DoneKept'
      <4>1. job.done \subseteq Block
        BY <1>3 DEF Reorg
      <4>2. \A x \in job.done \cup {b} :
               Recorded(x)' \/ Height[x] + UndoRetention + 1 < Height[job.target]
        BY <1>1, <1>3, <1>4, <2>1, <3>3, <4>1, ConnectKeepsDone
      <4> QED
        BY <3>2, <4>2 DEF DoneKept, Recorded
    <3> QED
      BY <1>1, <2>2, <3>2, <3>5, <3>6, <3>7 DEF MoveOK
  <2> QED
    BY <2>3, <2>4
<1>6. CASE ~Applies(state, b)
  <2>1. /\ stored' = stored /\ tip' = tip /\ undo' = undo
        /\ job' = [job EXCEPT !.phase = "restoring"]
    BY <1>6 DEF ConnectNext, b, memory
  <2>2. /\ job' # Idle /\ job'.target = job.target /\ job'.origin = job.origin
        /\ job'.phase = "restoring" /\ job'.done = job.done /\ job'.gone = job.gone
    BY <1>3, <2>1 DEF Reorg, Idle
  <2>3. /\ \A x \in stored' : Ancestors[x] \subseteq stored'
        /\ MoveStarted' /\ Common' = Common
    BY <1>1, <2>1, <2>2, StillStarted
  <2>4. MovePosition' /\ DoneKept'
    BY <1>1, <1>2, <1>f, <2>1, <2>2, <2>3
       DEF MovePosition, DoneKept, Recorded, OnNewChain, TurnedAt
  <2> QED
    BY <1>1, <2>1, <2>2, <2>3, <2>4 DEF MoveOK
<1> QED
  BY <1>5, <1>6

\* What is taken back is the tip, for as long as it can be.
LEMMA UndoConnectedMoves ==
    ASSUME IInv, MoveOK, UndoConnected
    PROVE  MoveOK' /\ job' # Idle /\ stored' = stored /\ misplaced' = misplaced
<1> DEFINE b == Highest(job.done)
<1>1. job # Idle /\ job \in Reorg /\ job.phase = "restoring" /\ job.done # {}
      /\ job' = [job EXCEPT !.done = @ \ {b}] /\ misplaced' = misplaced
      /\ IF tip = b /\ CanDisconnect THEN Disconnect ELSE UNCHANGED <<store, memory>>
  BY MoveFacts DEF UndoConnected, Running, history
<1>2. OnNewChain \/ Stuck
  BY <1>1 DEF MoveOK, MovePosition, OnOldChain
<1>3. stored' = stored /\ undo' = undo
  BY <1>1 DEF Disconnect, store, memory
<1>4. /\ job' # Idle /\ job'.target = job.target /\ job'.origin = job.origin
      /\ job'.phase = "restoring" /\ job'.done = job.done \ {b} /\ job'.gone = job.gone
  BY <1>1 DEF Reorg, Idle
<1>5. /\ \A x \in stored' : Ancestors[x] \subseteq stored'
      /\ MoveStarted' /\ Common' = Common
  BY <1>1, <1>3, <1>4, StillStarted
<1>6. DoneKept'
  BY <1>1, <1>3, <1>4 DEF MoveOK, DoneKept, Recorded
<1>7. (misplaced = {} => Common \subseteq Ancestors[tip]) /\ DoneKept
  BY <1>1 DEF MoveOK, MovePosition
<1>8. CASE OnNewChain
  <2>f. PICK f \in Common : TurnedAt(f)
    BY <1>8 DEF OnNewChain
  <2>g. /\ f \in Block /\ tip \in Block /\ Ancestors[f] \subseteq Ancestors[tip]
        /\ Ancestors[f] \subseteq Common /\ Genesis \in Ancestors[f]
        /\ \A x \in Ancestors[f] : Ancestors[x] \subseteq Ancestors[f]
    BY <1>1, <2>f, MoveFacts, TreeFacts, TreeAssumption DEF TurnedAt
  <2>1. tip \in job.done /\ \A o \in job.done : Height[o] <= Height[tip]
    <3>1. tip \notin Ancestors[f]
      BY <1>1, <2>f, <2>g DEF TurnedAt
    <3> QED
      BY <2>f, <2>g, <3>1, TreeFacts, TreeAssumption DEF TurnedAt
  <2>2. b = tip
    <3>1. b \in job.done /\ \A o \in job.done : Height[o] <= Height[b]
      BY <2>1 DEF Highest
    <3>2. b \in Ancestors[tip] /\ tip \in Ancestors[tip] /\ tip \in Block
      BY <2>f, <2>1, <2>g, <3>1 DEF TurnedAt
    <3>3. Height[b] = Height[tip]
      <4>1. Height[b] \in Nat /\ Height[tip] \in Nat
        BY <3>2, TreeFacts
      <4> QED
        BY <2>1, <3>1, <4>1
    <3> QED
      BY <3>2, <3>3, TreeAssumption
  <2> HIDE DEF b
  <2>3. CASE CanDisconnect
    <3>1. tip' = Parent[tip]
      BY <1>1, <2>2, <2>3 DEF Disconnect
    <3>2. tip \in Block \ {Genesis} /\ Ancestors[tip] = Ancestors[Parent[tip]] \cup {tip}
          /\ Parent[tip] \in Ancestors[tip] /\ tip \notin Ancestors[Parent[tip]]
      BY <2>g, <2>3, TreeFacts DEF CanDisconnect
    <3>3. tip \notin Ancestors[f] /\ f \in Ancestors[tip'] /\ f \in Ancestors[f]
      BY <2>f, <2>g, <2>1, <3>1, <3>2, TreeFacts DEF TurnedAt
    <3>4. Ancestors[tip] \subseteq Ancestors[job.target]
      BY <1>1, <1>8, MoveFacts DEF OnNewChain
    <3>5. TurnedAt(f)'
      BY <1>1, <1>4, <1>5, <2>f, <2>2, <3>1, <3>2, <3>3 DEF TurnedAt
    <3>6. OnNewChain' /\ (misplaced' = {} => Common' \subseteq Ancestors[tip'])
      BY <1>1, <1>4, <1>5, <2>f, <2>g, <3>1, <3>2, <3>3, <3>4, <3>5, TreeAssumption
         DEF OnNewChain, TurnedAt
    <3> QED
      BY <1>1, <1>3, <1>4, <1>5, <1>6, <3>6 DEF MoveOK, MovePosition
  <2>4. CASE ~CanDisconnect
    <3>1. tip' = tip
      BY <1>1, <2>4 DEF memory
    <3>2. Height[tip] + UndoRetention + 1 < Height[job.target]
      <4>1. tip # Genesis
        BY <2>f, <2>g, <2>1 DEF TurnedAt
      <4> QED
        BY <1>7, <2>1, <2>4, <4>1, RecordDisconnects DEF DoneKept, IInv
    <3>3. TopOfOld(job.gone)
      <4> SUFFICES ASSUME NEW x \in job.gone, NEW y \in Ancestors[job.origin],
                          Height[y] >= Height[x], y \in Ancestors[f]
                   PROVE  FALSE
        BY <2>f DEF TopOfOld, TurnedAt
      <4>1. x \in Ancestors[job.origin] /\ x \notin Ancestors[f] /\ job.origin \in Block
        BY <1>1, <2>f, MoveFacts DEF TurnedAt
      <4>2. Height[x] <= Height[y]
        BY <1>1, <4>1, MoveFacts, TreeFacts
      <4>3. x \in Ancestors[y]
        BY <4>1, <4>2, SameChain
      <4> QED
        BY <2>g, <4>1, <4>3
    <3>4. tip \in Ancestors[job.origin] =>
            misplaced # {} /\ Ancestors[job.origin] \ Ancestors[tip] \subseteq job.gone
      BY <1>8, <2>f, <2>g, <2>1 DEF OnNewChain, TurnedAt, Common
    <3>5. Stuck'
      <4>1. job'.done \subseteq Ancestors[tip] \ {tip}
        BY <1>4, <2>f, <2>2 DEF TurnedAt
      <4>2. TopOfOld(job.gone)'
        BY <1>4, <3>3 DEF TopOfOld
      <4> QED
        BY <1>1, <1>4, <1>8, <3>1, <3>2, <3>4, <4>1, <4>2 DEF OnNewChain, Stuck
    <3> QED
      BY <1>1, <1>3, <1>4, <1>5, <1>6, <1>7, <3>1, <3>5 DEF MoveOK, MovePosition
  <2> QED
    BY <2>3, <2>4
<1>9. CASE Stuck
  <2>1. tip # b
    <3>1. tip \in Block /\ job.done \in SUBSET Ancestors[tip]
      BY <1>1, <1>9, MoveFacts DEF Stuck
    <3>2. b \in job.done
      BY <1>1, <3>1, HighestExists
    <3> QED
      BY <1>9, <3>2 DEF Stuck
  <2>2. tip' = tip
    BY <1>1, <2>1 DEF memory
  <2>3. Stuck'
    BY <1>1, <1>4, <1>9, <2>2 DEF Stuck, TopOfOld
  <2> QED
    BY <1>1, <1>3, <1>4, <1>5, <1>6, <1>7, <2>2, <2>3 DEF MoveOK, MovePosition
<1> QED
  BY <1>2, <1>8, <1>9

\* Taken back as far as it can be, the reorganisation stands on the old chain.
LEMMA TakenBack ==
    ASSUME IInv, MoveOK, job # Idle, job.done = {}, OnNewChain
    PROVE  OnOldChain
<1>1. PICK f \in Common : TurnedAt(f)
  BY DEF OnNewChain
<1>2. f \in Ancestors[tip] /\ Ancestors[tip] \subseteq Ancestors[f]
      /\ job.gone = Ancestors[job.origin] \ Ancestors[f]
  BY <1>1 DEF TurnedAt
<1>3. /\ f \in Block /\ tip \in Block /\ tip \in Ancestors[tip]
      /\ Ancestors[f] \subseteq Ancestors[job.origin]
  BY <1>1, MoveFacts, TreeFacts DEF Common
<1>4. Ancestors[f] \subseteq Ancestors[tip]
  BY <1>2, <1>3, TreeAssumption
<1>5. Ancestors[f] = Ancestors[tip] /\ tip \in Ancestors[job.origin]
  BY <1>2, <1>3, <1>4
<1> QED
  BY <1>2, <1>5 DEF OnOldChain

\* What was taken off is put back on its parent, lowest first.  On a node that
\* is stuck on the new branch none of it applies, but on a twin.
LEMMA RedoDisconnectedMoves ==
    ASSUME IInv, MoveOK, RedoDisconnected
    PROVE  /\ MoveOK' /\ job' # Idle /\ stored' = stored
           /\ job'.target = job.target /\ job'.origin = job.origin
           /\ misplaced' # misplaced =>
                 Stuck /\ misplaced' # {} /\ Twins(tip, Parent[Lowest(job.gone)])
<1> DEFINE b == Lowest(job.gone)
<1>1. job # Idle /\ job \in Reorg /\ job.phase = "restoring" /\ job.done = {}
      /\ job.gone # {} /\ job' = [job EXCEPT !.gone = @ \ {b}] /\ PutBack(b)
  BY MoveFacts DEF RedoDisconnected, Running
<1>2. /\ job' # Idle /\ job'.target = job.target /\ job'.origin = job.origin
      /\ job'.phase = "restoring" /\ job'.done = {} /\ job'.gone = job.gone \ {b}
  BY <1>1 DEF Reorg, Idle
<1>3. /\ b \in job.gone /\ b \in Good /\ b \in Block \ {Genesis}
      /\ \A o \in job.gone : Height[b] <= Height[o]
  <2>1. job.gone \in SUBSET Block /\ job.gone \subseteq Good
    BY <1>1 DEF Reorg, IInv, JobOK
  <2> QED
    BY <1>1, <2>1, LowestExists DEF Good
<1> HIDE DEF b
<1>4. DoneKept'
  BY <1>2 DEF DoneKept
<1>5. (misplaced = {} => Common \subseteq Ancestors[tip]) /\ MoveStarted
      /\ (OnOldChain \/ OnNewChain \/ Stuck)
  BY <1>1 DEF MoveOK, MovePosition
<1>6. CASE OnOldChain \/ OnNewChain
  <2>1. OnOldChain
    BY <1>1, <1>6, TakenBack
  <2>2. tip = Parent[b]
    <3>1. tip \in Ancestors[job.origin] /\ job.origin \in Block
          /\ job.gone = Ancestors[job.origin] \ Ancestors[tip]
      BY <1>1, <2>1, MoveFacts DEF OnOldChain
    <3> QED
      BY <1>1, <3>1, RestStartsAbove DEF b
  <2>3. Applies(state, b) /\ misplaced' = misplaced
    BY <1>1, <1>3, <2>2 DEF Good, IInv, Chain, LedgerCommitted, PutBack
  <2>4. b \in Ancestors[job.origin]
    BY <1>3, <2>1 DEF OnOldChain
  <2>5. tip' = b /\ stored' = stored /\ Ancestors[b] = Ancestors[tip] \cup {b}
    BY <1>1, <1>3, <2>2, <2>3, <2>4, ConnectMoves DEF PutBack
  <2>7. /\ \A x \in stored' : Ancestors[x] \subseteq stored'
        /\ MoveStarted' /\ Common' = Common
    BY <1>1, <1>2, <2>3, <2>5, StillStarted
  <2>8. OnOldChain' /\ (misplaced' = {} => Common \subseteq Ancestors[tip'])
    BY <1>2, <1>5, <2>1, <2>3, <2>4, <2>5 DEF OnOldChain
  <2> QED
    BY <1>2, <1>4, <2>3, <2>5, <2>7, <2>8 DEF MoveOK, MovePosition
<1>7. CASE Stuck
  <2>o. job.origin \in Block /\ tip \in Block /\ b \in Ancestors[job.origin]
        /\ TopOfOld(job.gone) /\ Ancestors[job.origin] \subseteq Block
    BY <1>1, <1>3, <1>7, MoveFacts DEF Stuck, TopOfOld
  <2>p. Parent[b] \in Ancestors[job.origin]
    BY <1>3, <2>o, TreeFacts, TreeAssumption
  <2>a. state = Commitment[tip]
    BY DEF IInv, Chain, LedgerCommitted
  <2>1. CASE Applies(state, b)
    <3>1. Connect(b) /\ tip' = b /\ stored' = stored
      <4>1. Connect(b)
        BY <1>1, <2>1 DEF PutBack
      <4>2. b \in stored
        BY <1>5, <2>o DEF MoveOK, MoveStarted
      <4> QED
        BY <4>1, <4>2 DEF Connect
    <3>2. misplaced' # {} /\ (misplaced' # misplaced => Twins(tip, Parent[b]))
      <4>1. CASE tip = Parent[b]
        BY <1>1, <1>7, <2>p, <4>1 DEF Stuck, PutBack
      <4>2. CASE tip # Parent[b]
        BY <1>1, <1>3, <2>1, <2>a, <2>o, <4>2, AppliesOnTwin DEF PutBack
      <4> QED
        BY <4>1, <4>2
    <3>3. job.gone \ {b} = Ancestors[job.origin] \ Ancestors[b]
      <4>1. ASSUME NEW x \in job.gone, x # b PROVE x \in Ancestors[job.origin] \ Ancestors[b]
        <5>1. x \in Ancestors[job.origin] /\ Height[b] <= Height[x]
          BY <1>3, <2>o DEF TopOfOld
        <5>2. Height[b] # Height[x]
          BY <2>o, <4>1, <5>1, TreeAssumption
        <5>3. x \in Ancestors[b] => Height[x] <= Height[b]
          BY <1>3, TreeAssumption
        <5>4. Height[x] \in Nat /\ Height[b] \in Nat
          BY <2>o, <5>1, TreeFacts
        <5> QED
          BY <5>1, <5>2, <5>3, <5>4
      <4>2. ASSUME NEW x \in Ancestors[job.origin], x \notin Ancestors[b]
            PROVE  x \in job.gone /\ x # b
        <5>1. ~(Height[x] <= Height[b]) /\ Height[x] \in Nat /\ Height[b] \in Nat
          BY <2>o, <4>2, SameChain, TreeFacts
        <5>2. Height[x] >= Height[b]
          BY <5>1
        <5> QED
          BY <1>3, <2>o, <4>2, <5>2, TreeFacts DEF TopOfOld
      <4> QED
        BY <4>1, <4>2
    <3>4. OnOldChain'
      BY <1>2, <2>o, <3>1, <3>3 DEF OnOldChain
    <3>5. /\ \A x \in stored' : Ancestors[x] \subseteq stored'
          /\ MoveStarted' /\ Common' = Common
      BY <1>1, <1>2, <3>1, <3>2, StillStarted
    <3> QED
      BY <1>2, <1>4, <1>7, <3>1, <3>2, <3>4, <3>5 DEF MoveOK, MovePosition, b
  <2>2. CASE ~Applies(state, b)
    <3>1. stored' = stored /\ tip' = tip /\ misplaced' = misplaced
      BY <1>1, <2>2 DEF store, memory, PutBack
    <3>2. /\ \A x \in stored' : Ancestors[x] \subseteq stored'
          /\ MoveStarted' /\ Common' = Common
      BY <1>1, <1>2, <3>1, StillStarted
    <3>3. tip # Parent[b]
      BY <1>3, <2>2, <2>a DEF Good
    <3>4. TopOfOld(job.gone \ {b})
      <4> SUFFICES ASSUME NEW x \in job.gone, x # b, NEW y \in Ancestors[job.origin],
                          Height[y] >= Height[x]
                   PROVE  y # b
        BY <2>o DEF TopOfOld
      <4>1. x \in Ancestors[job.origin] /\ Height[b] <= Height[x] /\ Height[b] # Height[x]
        BY <1>3, <2>o, TreeAssumption DEF TopOfOld
      <4>2. Height[x] \in Nat /\ Height[b] \in Nat
        BY <2>o, <4>1, TreeFacts
      <4> QED
        BY <4>1, <4>2
    <3>5. ASSUME tip \in Ancestors[job.origin]
          PROVE  Ancestors[job.origin] \ Ancestors[tip] \subseteq job.gone \ {b}
      <4>1. Ancestors[job.origin] \ Ancestors[tip] \subseteq job.gone
        BY <1>7, <3>5 DEF Stuck
      <4>2. CASE b \in Ancestors[job.origin] \ Ancestors[tip]
        <5> DEFINE low == Lowest(Ancestors[job.origin] \ Ancestors[tip])
        <5>1. low \in Ancestors[job.origin] \ Ancestors[tip] /\ Parent[low] = tip
          BY <2>o, <3>5, <4>2, RestStartsAbove
        <5>2. \A o \in Ancestors[job.origin] \ Ancestors[tip] : Height[low] <= Height[o]
          <6>1. Ancestors[job.origin] \ Ancestors[tip] \in SUBSET Block
            BY <2>o
          <6> QED
            BY <4>2, <6>1, LowestExists
        <5> HIDE DEF low
        <5>3. Height[low] <= Height[b] /\ Height[b] <= Height[low]
          BY <1>3, <4>1, <4>2, <5>1, <5>2
        <5>4. Height[low] = Height[b]
          BY <2>o, <5>1, <5>3, TreeFacts
        <5>5. low = b
          BY <2>o, <5>1, <5>4, TreeAssumption
        <5> QED
          BY <3>3, <5>1, <5>5
      <4> QED
        BY <4>1, <4>2
    <3>6. Stuck'
      <4>1. TopOfOld(job.gone)'
        BY <1>2, <3>4 DEF TopOfOld
      <4> QED
        BY <1>2, <1>7, <3>1, <3>5, <4>1 DEF Stuck
    <3>7. misplaced' = {} => Common' \subseteq Ancestors[tip']
      BY <1>5, <3>1, <3>2
    <3> QED
      BY <1>2, <1>4, <3>1, <3>2, <3>6, <3>7 DEF MoveOK, MovePosition
  <2> QED
    BY <2>1, <2>2
<1> QED
  BY <1>5, <1>6, <1>7

\* When nothing is left to take back or put back, the node is on the block it
\* came from, or stuck on the new branch.
LEMMA EndRestorePosition ==
    ASSUME IInv, MoveOK, EndRestore
    PROVE  tip = job.origin \/ (Stuck /\ tip \notin Ancestors[job.origin])
<1>1. job # Idle /\ job.phase = "restoring" /\ job.done = {} /\ job.gone = {}
  BY DEF EndRestore, Running
<1>2. OnOldChain \/ Stuck
  BY <1>1, TakenBack DEF MoveOK, MovePosition
<1>3. ASSUME tip \in Ancestors[job.origin] PROVE tip = job.origin
  <2>1. job.origin \in Ancestors[tip] /\ job.origin \in Block /\ tip \in Block
    BY <1>1, <1>2, <1>3, MoveFacts, TreeFacts DEF OnOldChain, Stuck
  <2>2. Height[job.origin] <= Height[tip] /\ Height[tip] <= Height[job.origin]
        /\ Height[tip] \in Nat /\ Height[job.origin] \in Nat
    BY <1>3, <2>1, TreeFacts, TreeAssumption
  <2>3. Height[tip] = Height[job.origin] /\ job.origin \in Ancestors[job.origin]
    BY <2>1, <2>2, TreeFacts
  <2> QED
    BY <1>3, <2>1, <2>3, TreeAssumption
<1> QED
  BY <1>2, <1>3 DEF OnOldChain

\* Every action keeps the move where it belongs.
LEMMA NextMoveOK == IInv /\ MoveOK /\ tip \in stored /\ [Next]_vars => MoveOK'
<1> SUFFICES ASSUME IInv, MoveOK, tip \in stored, [Next]_vars PROVE MoveOK'
  OBVIOUS
<1>1. ASSUME UNCHANGED <<store, memory, job, misplaced>> PROVE MoveOK'
  BY <1>1 DEF store, memory, MoveOK, MoveStarted, MovePosition, DoneKept, Recorded, Common,
              OnOldChain, OnNewChain, TurnedAt, TopOfOld, Stuck, GoodChain
<1>2. ASSUME stored' = stored, job' = Idle PROVE MoveOK'
  BY <1>2 DEF MoveOK
<1>3. ASSUME NEW b \in Block, AcceptBlock(b) PROVE MoveOK'
  <2>1. CASE Duplicate(b) \/ RejectHeader(b) \/ Orphan(b) \/ RejectContext(b)
    BY <1>1, <2>1 DEF Duplicate, RejectHeader, Orphan, RejectContext, Untouched, history
  <2>2. CASE ExtendTip(b) \/ AcceptSide(b) \/ AcceptTooDeep(b)
    <3>1. job = Idle /\ job' = job /\ b \in Block \ {Genesis} /\ Parent[b] \in stored
      BY <2>2 DEF ExtendTip, AcceptSide, AcceptTooDeep, StoreInactive, Candidate,
                  Untouched
    <3>2. stored' = stored \/ stored' = stored \cup {b}
      BY <2>2 DEF ExtendTip, AcceptSide, AcceptTooDeep, StoreInactive, Connect,
                  Untouched, store
    <3>3. \A x \in stored' : Ancestors[x] \subseteq stored'
      BY <3>1, <3>2, StoredClosed DEF MoveOK
    <3> QED
      BY <3>1, <3>3 DEF MoveOK
  <2>3. CASE BeginReorg(b)
    BY <2>3, BeginMoves
  <2> QED
    BY <1>3, <2>1, <2>2, <2>3 DEF AcceptBlock
<1>4. CASE ReorgStep
  BY <1>2, <1>4, DisconnectMoves, ConnectNextMoves, UndoConnectedMoves,
     RedoDisconnectedMoves DEF ReorgStep, EndRestore, store
<1>5. CASE Restart \/ StoreFault
  BY <1>2, <1>5 DEF Restart, StoreFault, store
<1>6. CASE UNCHANGED vars
  BY <1>1, <1>6 DEF vars, history
<1> QED
  BY <1>3, <1>4, <1>5, <1>6 DEF Next

\* The tip is in the index.
LEMMA NextTipStored ==
    IInv /\ MoveOK /\ tip \in stored /\ [Next]_vars => (tip \in stored)'
<1> SUFFICES ASSUME IInv, MoveOK, tip \in stored, [Next]_vars PROVE tip' \in stored'
  OBVIOUS
<1>1. ASSUME UNCHANGED <<store, memory>> PROVE tip' \in stored'
  BY <1>1 DEF store, memory
<1>2. ASSUME NEW b, Connect(b) PROVE tip' \in stored'
  BY <1>2 DEF Connect
<1>3. ASSUME CanDisconnect, Disconnect PROVE tip' \in stored'
  <2>1. tip \in Block \ {Genesis} /\ tip' = Parent[tip] /\ stored' = stored
    BY <1>3 DEF CanDisconnect, Disconnect, IInv, Chain, StoreTypes
  <2> QED
    BY <2>1, TreeFacts DEF MoveOK
<1>4. CASE \E b \in Block : AcceptBlock(b)
  BY <1>1, <1>2, <1>4 DEF AcceptBlock, Duplicate, RejectHeader, Orphan, RejectContext,
     Untouched, ExtendTip, AcceptSide, AcceptTooDeep, BeginReorg, StoreInactive, memory
<1>5. CASE ReorgStep
  <2>1. CASE DisconnectTip \/ UndoConnected
    BY <1>1, <1>3, <2>1 DEF DisconnectTip, UndoConnected
  <2>2. CASE ConnectNext
    BY <1>2, <2>2 DEF ConnectNext, memory
  <2>3. CASE RedoDisconnected
    BY <1>1, <1>2, <2>3 DEF RedoDisconnected, PutBack
  <2>4. CASE EndRestore
    BY <1>1, <2>4 DEF EndRestore
  <2> QED
    BY <1>5, <2>1, <2>2, <2>3, <2>4 DEF ReorgStep
<1>6. CASE Restart \/ StoreFault \/ UNCHANGED vars
  BY <1>1, <1>6 DEF Restart, StoreFault, vars, store, memory, IInv, Chain, ActiveIsPathToTip
<1> QED
  BY <1>4, <1>5, <1>6 DEF Next

\* A fresh store has no move in progress.
LEMMA InitMoveOK == Init => MoveOK /\ tip \in stored
BY TreeFacts DEF Init, MoveOK

\* Both invariants hold of every behaviour, and the tip is always indexed.
THEOREM MoveInvariance == Spec => [](IInv /\ MoveOK /\ tip \in stored)
<1>1. Init => IInv /\ MoveOK /\ tip \in stored
  BY InitIInv, InitMoveOK
<1>2. IInv /\ MoveOK /\ tip \in stored /\ [Next]_vars => (IInv /\ MoveOK /\ tip \in stored)'
  BY NextIInv, NextMoveOK, NextTipStored
<1> QED
  BY <1>1, <1>2, PTL DEF Spec

\* Only #restoreTo misplaces a block.
LEMMA MisplacedOnRestore ==
    ASSUME IInv, [Next]_vars, misplaced' # misplaced PROVE RedoDisconnected
BY DEF Next, AcceptBlock, Duplicate, RejectHeader, Orphan, RejectContext, Untouched,
       ExtendTip, AcceptSide, AcceptTooDeep, BeginReorg, StoreInactive, ReorgStep,
       DisconnectTip, ConnectNext, UndoConnected, EndRestore, Restart, StoreFault,
       history, vars

\* A reorganisation that is not cut short ends on its target or where it came
\* from, or on a block of the new branch more than the window below its
\* target; and only a node stuck there can put a block back on its parent's
\* twin.  No assumption is made of what blocks commit to.
THEOREM StrandedOnlyByPruning == Spec => StrandedOnlyBelowWindow
<1> DEFINE A == /\ (ConnectNext \/ EndRestore) /\ job' = Idle
                     => \/ tip' \in {job.target, job.origin}
                        \/ /\ tip' \in Ancestors[job.target] \ Ancestors[job.origin]
                           /\ Height[tip'] + UndoRetention + 1 < Height[job.target]
                /\ misplaced' # misplaced
                     => /\ tip \in Ancestors[job.target]
                        /\ Height[tip] + UndoRetention + 1 < Height[job.target]
                        /\ Twins(tip, Parent[Lowest(job.gone)])
<1>1. IInv /\ MoveOK /\ [Next]_vars => A
  <2> SUFFICES ASSUME IInv, MoveOK, [Next]_vars PROVE A
    OBVIOUS
  <2>1. ASSUME ConnectNext \/ EndRestore, job' = Idle
        PROVE  \/ tip' \in {job.target, job.origin}
               \/ /\ tip' \in Ancestors[job.target] \ Ancestors[job.origin]
                  /\ Height[tip'] + UndoRetention + 1 < Height[job.target]
    <3>1. CASE ConnectNext
      BY <2>1, <3>1, ConnectNextMoves
    <3>2. CASE EndRestore
      BY <3>2, EndRestorePosition DEF Stuck, EndRestore, memory
    <3> QED
      BY <2>1, <3>1, <3>2
  <2>2. ASSUME misplaced' # misplaced
        PROVE  /\ tip \in Ancestors[job.target]
               /\ Height[tip] + UndoRetention + 1 < Height[job.target]
               /\ Twins(tip, Parent[Lowest(job.gone)])
    BY <2>2, MisplacedOnRestore, RedoDisconnectedMoves DEF Stuck
  <2> QED
    BY <2>1, <2>2
<1>2. IInv /\ MoveOK /\ [Next]_vars => [A]_vars
  BY <1>1
<1> QED
  BY <1>2, MoveInvariance, PTL DEF Spec, StrandedOnlyBelowWindow

----------------------------------------------------------------------------
(***************************************************************************)
(* ChainState implements ForkChoice.  A block that is stored or connected  *)
(* is one abstract step; a reorganisation is invisible until it ends, and  *)
(* its end, whatever ends it, is one abstract step of its target.  The one *)
(* step of it that shows is the first block put back on a twin.            *)
(***************************************************************************)

\* The highest block two chains share has the fork's height.
LEMMA ForkHeightIs ==
    ASSUME NEW b \in Block, NEW t \in Block, NEW f \in Ancestors[b] \cap Ancestors[t],
           \A a \in Ancestors[b] \cap Ancestors[t] : Height[a] <= Height[f]
    PROVE  FC!ForkHeight(b, t) = Height[f]
<1> DEFINE H == {Height[a] : a \in Ancestors[b] \cap Ancestors[t]}
           P(h) == \A a \in Ancestors[b] \cap Ancestors[t] : Height[a] <= h
<1>1. \A a \in Ancestors[b] \cap Ancestors[t] : Height[a] \in Nat
  BY TreeFacts
<1>2. Height[f] \in H /\ P(Height[f])
  OBVIOUS
<1>3. ASSUME NEW h \in H, P(h) PROVE h = Height[f]
  <2>1. h \in Nat /\ Height[f] \in Nat /\ h <= Height[f] /\ Height[f] <= h
    BY <1>1, <1>3
  <2> QED
    BY <2>1
<1>4. FC!ForkHeight(b, t) = CHOOSE h \in H : P(h)
  BY DEF FC!ForkHeight
<1> HIDE DEF H, P
<1> QED
  BY <1>2, <1>3, <1>4

\* What a reorganisation in progress is of, in the abstract.
LEMMA MoveIsOffered ==
    ASSUME IInv, MoveOK, job # Idle
    PROVE  /\ job.target \in Block /\ job.origin \in Block
           /\ FC!Offered(job.target) /\ Parent[job.target] # job.origin
           /\ ChainWork[job.target] > ChainWork[job.origin]
           /\ (stored \ {job.target}) \cup {job.target} = stored
           /\ misplaced = {} =>
                 /\ FC!Attempted(job.target)
                 /\ \E f \in Common :
                       /\ \A a \in Common : Height[a] <= Height[f]
                       /\ FC!ForkHeight(job.target, job.origin) = Height[f]
<1> DEFINE b == job.target
           o == job.origin
<1>1. job \in Reorg /\ b \in Block /\ o \in Block /\ MoveStarted
  BY MoveFacts DEF MoveOK
<1>2. b # Genesis
  BY <1>1 DEF MoveStarted
<1>3. Parent[b] \in stored \ {b}
  <2>1. Ancestors[b] \subseteq stored
    BY <1>1 DEF MoveOK, MoveStarted
  <2>2. Parent[b] \in Ancestors[b] /\ Parent[b] # b
    BY <1>1, <1>2, TreeFacts
  <2> QED
    BY <2>1, <2>2
<1>4. FC!Offered(b)
  BY <1>1, <1>2, <1>3 DEF FC!Offered, MoveStarted
<1>5. ASSUME misplaced = {}
      PROVE  /\ FC!Attempted(b)
             /\ \E f \in Common : /\ \A a \in Common : Height[a] <= Height[f]
                                  /\ FC!ForkHeight(b, o) = Height[f]
  <2>1. PICK f \in Common : /\ \A a \in Common : Height[a] <= Height[f]
                            /\ Height[o] - Height[f] <= UndoRetention
    BY <1>1, <1>5 DEF MoveStarted
  <2>2. FC!ForkHeight(b, o) = Height[f]
    BY <1>1, <2>1, ForkHeightIs DEF Common
  <2> QED
    BY <1>1, <2>1, <2>2 DEF FC!Attempted, MoveStarted
<1> QED
  BY <1>1, <1>4, <1>5 DEF MoveStarted

\* However a reorganisation ends, it is the abstract move that was cut short
\* at the block where the node stands (at the target, if it succeeded).
LEMMA EndIsMove ==
    ASSUME IInv, MoveOK, job # Idle, job' = Idle, stored' = stored,
           misplaced' = misplaced,
           IInv', misplaced = {} => Common \subseteq Ancestors[tip'],
           tip' \in Ancestors[job.origin] \cup Ancestors[job.target]
    PROVE  FC!Interrupt(job.target) \/ FC!Wander(job.target)
<1> DEFINE b == job.target
           o == job.origin
<1>1. FC!NewBranch(tip', o) \subseteq Good
  <2>1. Ancestors[tip'] \ {Genesis} \subseteq Good
    BY DEF IInv, Chain, LedgerCommitted, GoodChain
  <2>2. Genesis \in Ancestors[o]
    BY MoveIsOffered, TreeFacts
  <2> QED
    BY <2>1, <2>2 DEF FC!NewBranch
<1>2. CASE misplaced = {}
  <2>1. PICK f \in Common : FC!ForkHeight(b, o) = Height[f]
    BY <1>2, MoveIsOffered
  <2>2. Height[tip'] >= Height[f]
    <3>1. tip' \in Block /\ f \in Ancestors[tip']
      BY <1>2, MoveFacts
    <3> QED
      BY <3>1, TreeFacts, TreeAssumption
  <2> QED
    BY <1>1, <1>2, <2>1, <2>2, MoveIsOffered DEF FC!Interrupt
<1>3. CASE misplaced # {}
  BY <1>1, <1>3, MoveIsOffered DEF FC!Wander
<1> QED
  BY <1>2, <1>3

\* The first block put back on a twin damages the index.
LEMMA MisplacedIsDamage ==
    ASSUME IInv, MoveOK, RedoDisconnected, misplaced = {}, misplaced' # {}
    PROVE  FC!Damage(job.target)
<1> DEFINE b == job.target
           o == job.origin
<1>1. job # Idle /\ job' # Idle /\ stored' = stored /\ job'.target = b /\ job'.origin = o
      /\ Stuck
  BY RedoDisconnectedMoves DEF RedoDisconnected, Running
<1>2. PICK f \in Common : FC!ForkHeight(b, o) = Height[f]
  BY <1>1, MoveIsOffered
<1>3. /\ tip \in Block /\ b \in Block /\ f \in Ancestors[tip] /\ f # tip /\ f \in Block
      /\ tip \in Ancestors[tip]
  BY <1>1, <1>2, MoveFacts, TreeFacts DEF Stuck, MoveOK, MovePosition, Common
<1>4. Height[f] <= Height[tip] /\ Height[f] # Height[tip]
  BY <1>3, TreeAssumption
<1>5. Height[b] > Height[f] + UndoRetention + 2
  BY <1>1, <1>3, <1>4, TreeFacts, NodeAssumption DEF Stuck
<1> QED
  BY <1>1, <1>2, <1>5, MoveIsOffered DEF FC!Damage

\* Between its steps a reorganisation stands on one of its two chains, not
\* below their fork.
LEMMA MoveStands ==
    ASSUME IInv, MoveOK, job # Idle
    PROVE  /\ misplaced = {} => Common \subseteq Ancestors[tip]
           /\ tip \in Ancestors[job.origin] \cup Ancestors[job.target]
<1>1. job.phase \in {"down", "up", "restoring"} /\ MovePosition
  BY MoveFacts DEF MoveOK, Reorg
<1> QED
  BY <1>1 DEF MovePosition, OnOldChain, OnNewChain, Stuck

\* The steps inside a reorganisation are invisible.
LEMMA InnerStepStutters ==
    ASSUME job # Idle, job' # Idle, stored' = stored, (misplaced = {}) = (misplaced' = {}),
           job'.target = job.target, job'.origin = job.origin
    PROVE  UNCHANGED FC!ForkVars
BY DEF FC!ForkVars

\* Every step is an abstract one or invisible.
LEMMA NextRefines ==
    IInv /\ MoveOK /\ tip \in stored /\ [Next]_vars => [FC!ForkNext]_FC!ForkVars
<1> SUFFICES ASSUME IInv, MoveOK, tip \in stored, [Next]_vars
             PROVE  FC!ForkNext \/ UNCHANGED FC!ForkVars
  OBVIOUS
<1>1. IInv'
  BY NextIInv
<1>2. ASSUME UNCHANGED <<stored, tip, job, misplaced>> PROVE UNCHANGED FC!ForkVars
  BY <1>2 DEF FC!ForkVars
<1>3. ASSUME NEW b \in Block, AcceptBlock(b)
      PROVE  FC!ForkNext \/ UNCHANGED FC!ForkVars
  <2>1. CASE Duplicate(b) \/ RejectHeader(b) \/ Orphan(b) \/ RejectContext(b)
    BY <1>2, <2>1 DEF Duplicate, RejectHeader, Orphan, RejectContext, Untouched,
                      store, memory, history
  <2>2. CASE ExtendTip(b)
    <3>1. Candidate(b) /\ b \in ContextOk /\ Parent[b] = tip
      BY <2>2 DEF ExtendTip
    <3>2. CASE Applies(state, b)
      <4>1. Connect(b) /\ job' = job /\ misplaced' = misplaced
        BY <2>2, <3>2 DEF ExtendTip, history
      <4>2. b \in Good
        BY <3>1, <3>2 DEF Candidate, Good, IInv, Chain, LedgerCommitted
      <4>3. FC!Extend(b)
        BY <3>1, <4>1, <4>2 DEF FC!Extend, FC!Offered, Candidate, Connect
      <4> QED
        BY <4>3 DEF FC!ForkNext
    <3>3. CASE ~Applies(state, b)
      BY <1>2, <2>2, <3>3 DEF ExtendTip, Untouched, store, memory, history
    <3> QED
      BY <3>2, <3>3
  <2>3. CASE AcceptSide(b) \/ AcceptTooDeep(b)
    <3>1. /\ StoreInactive(b) /\ job' = job /\ job = Idle /\ stored' = stored \cup {b}
          /\ tip' = tip /\ misplaced' = misplaced
      BY <2>3 DEF AcceptSide, AcceptTooDeep, StoreInactive, Candidate, memory, history
    <3>2. FC!Offered(b) /\ Parent[b] # tip
      BY <3>1 DEF StoreInactive, Candidate, FC!Offered
    <3>3. misplaced = {} => ~FC!Wins(b)
      <4> SUFFICES ASSUME misplaced = {} PROVE ~FC!Wins(b)
        OBVIOUS
      <4>1. CASE AcceptSide(b)
        BY <3>1, <4>1, TreeAssumption
           DEF AcceptSide, FC!Wins, FC!Attempted, IInv, Chain, StoreTypes
      <4>2. CASE AcceptTooDeep(b)
        <5>1. tip \in Block /\ active = Ancestors[tip] /\ b \notin active
          BY <3>1, StoreKeepsChain DEF IInv, Chain, StoreTypes, ActiveIsPathToTip
        <5>2. FC!ForkHeight(b, tip) = Height[ForkPoint(b)]
          BY <5>1, ForkPointIsFork, ForkHeightIs
        <5>3. ForkPoint(b) \in Block
          BY <5>1, ForkPointIsFork, TreeFacts
        <5> QED
          BY <3>1, <4>2, <5>1, <5>2, <5>3, TreeFacts, NodeAssumption
             DEF AcceptTooDeep, FC!Wins, FC!Attempted
      <4> QED
        BY <2>3, <4>1, <4>2
    <3>4. misplaced = {} => FC!Branch(b)
      BY <3>1, <3>2, <3>3 DEF FC!Branch
    <3>5. misplaced # {} => FC!Wander(b)
      <4>1. tip \in Block /\ tip \in Ancestors[tip] /\ b # tip
        BY <3>1, TreeFacts DEF IInv, Chain, StoreTypes, StoreInactive, Candidate
      <4> QED
        BY <3>1, <3>2, <4>1 DEF FC!Wander, FC!NewBranch
    <3> QED
      BY <3>4, <3>5 DEF FC!ForkNext
  <2>4. CASE BeginReorg(b)
    <3>1. /\ job = Idle /\ b \notin stored /\ stored' = stored \cup {b}
          /\ job' = [ phase |-> "down", target |-> b, origin |-> tip,
                      todo |-> BranchOf(b), gone |-> {}, done |-> {} ]
          /\ misplaced' = misplaced
      BY <2>4 DEF BeginReorg, StoreInactive, Candidate, history
    <3>2. job' # Idle /\ job'.target = b /\ job'.origin = tip
      BY <3>1 DEF Idle
    <3> QED
      BY <3>1, <3>2 DEF FC!ForkVars
  <2> QED
    BY <1>3, <2>1, <2>2, <2>3, <2>4 DEF AcceptBlock
<1>4. ASSUME job # Idle, job' = Idle, stored' = stored, misplaced' = misplaced,
             misplaced = {} => Common \subseteq Ancestors[tip'],
             tip' \in Ancestors[job.origin] \cup Ancestors[job.target]
      PROVE  FC!ForkNext
  BY <1>1, <1>4, EndIsMove, MoveFacts DEF FC!ForkNext
<1>5. CASE ConnectNext
  <2>1. job # Idle /\ stored' = stored /\ misplaced' = misplaced
        /\ (job' = Idle => tip' = job.target)
    BY <1>5, ConnectNextMoves DEF ConnectNext, Running
  <2>2. CASE job' = Idle
    <3>1. Common \subseteq Ancestors[tip'] /\ tip' \in Ancestors[job.target]
      BY <2>1, <2>2, MoveFacts, TreeFacts DEF Common
    <3> QED
      BY <1>4, <2>1, <2>2, <3>1
  <2>3. CASE job' # Idle
    <3>1. job'.target = job.target /\ job'.origin = job.origin
      BY <1>5, <2>1, <2>3, MoveFacts DEF ConnectNext, Reorg
    <3> QED
      BY <2>1, <2>3, <3>1, InnerStepStutters
  <2> QED
    BY <2>2, <2>3
<1>6. CASE DisconnectTip
  <2>1. job # Idle /\ stored' = stored /\ misplaced' = misplaced
    BY <1>6 DEF DisconnectTip, Running, Disconnect, store, history
  <2>2. job' # Idle /\ job'.target = job.target /\ job'.origin = job.origin
    BY <1>6, <2>1, MoveFacts DEF DisconnectTip, Reorg, Idle
  <2> QED
    BY <2>1, <2>2, InnerStepStutters
<1>7. CASE UndoConnected
  <2>1. job # Idle /\ job' # Idle /\ stored' = stored /\ misplaced' = misplaced
    BY <1>7, UndoConnectedMoves DEF UndoConnected, Running
  <2>2. job'.target = job.target /\ job'.origin = job.origin
    BY <1>7, <2>1, MoveFacts DEF UndoConnected, Reorg
  <2> QED
    BY <2>1, <2>2, InnerStepStutters
<1>8. CASE RedoDisconnected
  <2>1. job # Idle /\ job' # Idle /\ stored' = stored
        /\ job'.target = job.target /\ job'.origin = job.origin
        /\ (misplaced # {} => misplaced' # {})
    BY <1>8, RedoDisconnectedMoves DEF RedoDisconnected, Running
  <2>2. CASE misplaced = {} /\ misplaced' # {}
    BY <1>8, <2>1, <2>2, MisplacedIsDamage, MoveFacts DEF FC!ForkNext
  <2>3. CASE ~(misplaced = {} /\ misplaced' # {})
    BY <2>1, <2>3, InnerStepStutters
  <2> QED
    BY <2>2, <2>3
<1>9. CASE EndRestore \/ Restart \/ StoreFault
  <2>1. stored' = stored /\ tip' = tip /\ job' = Idle /\ misplaced' = misplaced
    BY <1>9 DEF EndRestore, Restart, StoreFault, store, memory, history, IInv, Chain,
                ActiveIsPathToTip
  <2>2. CASE job = Idle
    BY <1>2, <2>1, <2>2
  <2>3. CASE job # Idle
    BY <1>4, <2>1, <2>3, MoveStands
  <2> QED
    BY <2>2, <2>3
<1>10. CASE UNCHANGED vars
  BY <1>2, <1>10 DEF vars, store, memory, history
<1> QED
  BY <1>3, <1>5, <1>6, <1>7, <1>8, <1>9, <1>10 DEF Next, ReorgStep

\* Through reorganisations, failures in the middle of them and crashes, what
\* the node shows is fork choice by accumulated work over validated chains;
\* once a failed move was put back over a twin, it still keeps to validated
\* chains, but may refuse a better branch.
THEOREM ForkChoiceImplemented == Spec => RefinesForkChoice
<1>1. Init => FC!ForkInit
  BY DEF Init, FC!ForkInit
<1> QED
  BY <1>1, NextRefines, MoveInvariance, PTL DEF Spec, RefinesForkChoice, FC!ForkSpec

----------------------------------------------------------------------------
(***************************************************************************)
(* The chain in memory. What blocks issue; what a transaction, a coinbase  *)
(* and the body of a block do to the worth of the coins; then the          *)
(* invariant that the coins and what miners left unclaimed are what has    *)
(* been issued.                                                            *)
(***************************************************************************)

\* f halves v again and again, N times.
Halving(f, v, N) ==
    /\ f \in [0..N -> Nat]
    /\ f[0] = v
    /\ \A k \in 1..N : f[k] = f[k - 1] \div 2

\* >> is repeated halving.
LEMMA ShiftedRightHalves ==
    ASSUME NEW v \in Nat, NEW n \in Nat
    PROVE  \E f : Halving(f, v, n) /\ ShiftedRight(v, n) = f[n]
<1> DEFINE Half == [x \in Nat \X (1..n) |-> x[1] \div 2]
           Is(f) == f = [k \in 0..n |-> IF k = 0 THEN v ELSE f[k - 1] \div 2]
           q == CHOOSE f : Is(f)
<1>1. \E f : Is(f)
  <2>1. StepOn(Half, Nat, n)
    BY DEF StepOn
  <2>2. PICK f : RunOf(f, Half, Nat, v, n)
    <3> HIDE DEF Half
    <3> QED
      BY <2>1, RecursionExists
  <2>3. f \in [0..n -> Nat] /\ f[0] = v /\ \A i \in 1..n : f[i] = Half[<<f[i - 1], i>>]
    BY <2>2 DEF RunOf
  <2>4. ASSUME NEW i \in 1..n PROVE f[i] = f[i - 1] \div 2
    <3>1. i - 1 \in 0..n /\ f[i - 1] \in Nat
      BY <2>3
    <3>2. <<f[i - 1], i>> \in Nat \X (1..n)
      BY <3>1
    <3> QED
      BY <2>3, <3>1, <3>2
  <2>5. \A k \in 0..n : f[k] = IF k = 0 THEN v ELSE f[k - 1] \div 2
    BY <2>3, <2>4
  <2>6. f = [k \in 0..n |-> f[k]]
    BY <2>3
  <2>7. Is(f)
    <3> HIDE DEF Half
    <3> QED
      BY <2>5, <2>6
  <2> QED
    BY <2>7
<1>2. Is(q)
  BY <1>1
<1>3. ShiftedRight(v, n) = q[n]
  BY DEF ShiftedRight
<1>4. q[0] = v /\ \A k \in 1..n : q[k] = q[k - 1] \div 2
  <2> HIDE DEF q
  <2> QED
    BY <1>2
<1>5. \A k \in 0..n : q[k] \in Nat
  <2> HIDE DEF q, Is
  <2>1. \A k \in 1..n : q[k - 1] \in Nat => q[k] \in Nat
    BY <1>4
  <2> QED
    BY <1>4, <2>1, BoundedClosure
<1>6. Halving(q, v, n)
  <2>1. q = [k \in 0..n |-> IF k = 0 THEN v ELSE q[k - 1] \div 2]
    BY <1>2
  <2> HIDE DEF q, Is
  <2>2. q = [k \in 0..n |-> q[k]]
    BY <2>1
  <2> QED
    BY <1>4, <1>5, <2>2 DEF Halving
<1> QED
  BY <1>3, <1>6

\* One more place halves once more.
LEMMA ShiftedOnce ==
    ASSUME NEW v \in Nat, NEW n \in Nat
    PROVE  /\ ShiftedRight(v, n) \in Nat
           /\ ShiftedRight(v, 0) = v
           /\ ShiftedRight(v, n + 1) = ShiftedRight(v, n) \div 2
<1>1. PICK f : Halving(f, v, n) /\ ShiftedRight(v, n) = f[n]
  BY ShiftedRightHalves
<1>2. PICK g : Halving(g, v, n + 1) /\ ShiftedRight(v, n + 1) = g[n + 1]
  <2>1. n + 1 \in Nat
    OBVIOUS
  <2> QED
    BY <2>1, ShiftedRightHalves
<1>3. \A k \in 0..n : g[k] = f[k]
  <2> DEFINE P == {k \in Nat : k <= n => g[k] = f[k]}
  <2>1. 0 \in P
    BY <1>1, <1>2 DEF Halving
  <2>2. ASSUME NEW k \in Nat, k \in P PROVE k + 1 \in P
    <3>1. CASE k + 1 <= n
      <4>1. k + 1 \in 1..n /\ k + 1 \in 1..(n + 1) /\ k <= n /\ (k + 1) - 1 = k
        BY <3>1
      <4>2. g[k] = f[k]
        BY <2>2, <4>1
      <4>3. f[k + 1] = f[k] \div 2 /\ g[k + 1] = g[k] \div 2
        BY <1>1, <1>2, <4>1 DEF Halving
      <4> QED
        BY <4>2, <4>3
    <3>2. CASE ~(k + 1 <= n)
      BY <3>2
    <3> QED
      BY <3>1, <3>2
  <2>3. Nat \subseteq P
    <3> HIDE DEF P
    <3> QED
      BY <2>1, <2>2, NatClosure
  <2> QED
    BY <2>3
<1>4. g[n + 1] = g[n] \div 2
  <2>1. n + 1 \in 1..(n + 1) /\ (n + 1) - 1 = n
    OBVIOUS
  <2> QED
    BY <1>2, <2>1 DEF Halving
<1>5. n \in 0..n /\ f[n] \in Nat
  BY <1>1 DEF Halving
<1>6. ShiftedRight(v, 0) = v
  <2>1. PICK z : Halving(z, v, 0) /\ ShiftedRight(v, 0) = z[0]
    BY ShiftedRightHalves
  <2> QED
    BY <2>1 DEF Halving
<1> QED
  BY <1>1, <1>2, <1>3, <1>4, <1>5, <1>6

LEMMA DivUnique ==
    ASSUME NEW q \in Nat, NEW d \in Nat \ {0}, NEW r \in 0..(d - 1), NEW n \in Nat, n = d * q + r
    PROVE  n \div d = q /\ n % d = r
OBVIOUS

LEMMA DivMod ==
    ASSUME NEW d \in Nat \ {0}, NEW n \in Nat
    PROVE  \E q \in Nat, r \in 0..(d - 1) : n = d * q + r
<1> DEFINE P == {k \in Nat : \E q \in Nat, r \in 0..(d - 1) : k = d * q + r}
<1>1. 0 \in P
  <2>1. 0 \in 0..(d - 1) /\ 0 = d * 0 + 0
    OBVIOUS
  <2> QED
    BY <2>1
<1>2. ASSUME NEW k \in Nat, k \in P PROVE k + 1 \in P
  <2>1. PICK q \in Nat, r \in 0..(d - 1) : k = d * q + r
    BY <1>2
  <2>2. CASE r + 1 < d
    <3>1. r + 1 \in 0..(d - 1) /\ k + 1 = d * q + (r + 1)
      <4>1. d * q \in Nat
        OBVIOUS
      <4> QED
        BY <2>1, <2>2, <4>1
    <3> QED
      BY <3>1
  <2>3. CASE ~(r + 1 < d)
    <3>1. d * (q + 1) = d * q + d /\ d * q \in Nat
      OBVIOUS
    <3>2. q + 1 \in Nat /\ 0 \in 0..(d - 1) /\ k + 1 = d * (q + 1) + 0
      BY <2>1, <2>3, <3>1
    <3>3. \E u \in Nat, w \in 0..(d - 1) : k + 1 = d * u + w
      <4>1. q + 1 \in Nat /\ 0 \in 0..(d - 1)
        BY <3>2
      <4> WITNESS q + 1 \in Nat, 0 \in 0..(d - 1)
      <4> QED
        BY <3>2
    <3> QED
      BY <3>3
  <2> QED
    BY <2>2, <2>3
<1>3. Nat \subseteq P
  <2> HIDE DEF P
  <2> QED
    BY <1>1, <1>2, NatClosure
<1> QED
  BY <1>3

\* Counting to n in groups of d: what n + 1 is.
LEMMA DivNext ==
    ASSUME NEW n \in Nat, NEW d \in Nat \ {0}
    PROVE  \E q \in Nat, r \in 0..(d - 1) :
              /\ n = d * q + r /\ n \div d = q
              /\ (n + 1) \div d = IF r + 1 = d THEN q + 1 ELSE q
<1>1. PICK q \in Nat, r \in 0..(d - 1) : n = d * q + r
  BY DivMod
<1>2. n \div d = q
  BY <1>1, DivUnique
<1>3. (n + 1) \div d = IF r + 1 = d THEN q + 1 ELSE q
  <2>0. n + 1 \in Nat /\ d * q \in Nat
    OBVIOUS
  <2>1. CASE r + 1 = d
    <3>1. n + 1 = d * (q + 1) + 0 /\ 0 \in 0..(d - 1) /\ q + 1 \in Nat
      <4>1. d * (q + 1) = d * q + d
        OBVIOUS
      <4> QED
        BY <1>1, <2>0, <2>1, <4>1
    <3> QED
      BY <2>0, <2>1, <3>1, DivUnique
  <2>2. CASE r + 1 # d
    <3>1. n + 1 = d * q + (r + 1) /\ r + 1 \in 0..(d - 1)
      BY <1>1, <2>0, <2>2
    <3> QED
      BY <2>0, <2>2, <3>1, DivUnique
  <2> QED
    BY <2>1, <2>2
<1> QED
  BY <1>1, <1>2, <1>3

PerBlock(era) == ShiftedRight(INITIAL_SUBSIDY, era)
OfEras(k) == SumFunctionOnSet([era \in 0..(k - 1) |-> HALVING_INTERVAL * PerBlock(era)], 0..(k - 1))
\* After q eras and r blocks more.
Issued(q, r) == IF q >= MAX_HALVINGS THEN OfEras(MAX_HALVINGS) ELSE OfEras(q) + r * PerBlock(q)

LEMMA IssuanceConstants ==
    /\ HALVING_INTERVAL \in Nat \ {0} /\ INITIAL_SUBSIDY \in Nat
    /\ MAX_HALVINGS \in Nat /\ MAX_SUPPLY \in Nat
BY ConsensusConstants

LEMMA PerBlockHalves ==
    ASSUME NEW k \in Nat
    PROVE  /\ PerBlock(k) \in Nat /\ HALVING_INTERVAL * PerBlock(k) \in Nat
           /\ PerBlock(0) = INITIAL_SUBSIDY
           /\ PerBlock(k + 1) = PerBlock(k) \div 2
<1>1. PerBlock(k) \in Nat
  BY IssuanceConstants, ShiftedOnce DEF PerBlock
<1>2. HALVING_INTERVAL * PerBlock(k) \in Nat
  BY <1>1, IssuanceConstants
<1> QED
  BY <1>1, <1>2, IssuanceConstants, ShiftedOnce DEF PerBlock

\* One more era.
LEMMA ErasAdd ==
    ASSUME NEW k \in Nat
    PROVE  /\ OfEras(0) = 0
           /\ OfEras(k) \in Nat
           /\ OfEras(k + 1) = OfEras(k) + HALVING_INTERVAL * PerBlock(k)
<1> DEFINE Old == 0..(k - 1)
           f == [era \in Old |-> HALVING_INTERVAL * PerBlock(era)]
           g == [era \in 0..((k + 1) - 1) |-> HALVING_INTERVAL * PerBlock(era)]
<1>1. OfEras(0) = 0
  <2>1. 0..(0 - 1) = {}
    OBVIOUS
  <2> QED
    BY <2>1, SumNone DEF OfEras
<1>2. /\ IsFiniteSet(Old) /\ k \notin Old /\ 0..((k + 1) - 1) = Old \cup {k}
  BY FS_Interval
<1>3. \A e \in Old \cup {k} : HALVING_INTERVAL * PerBlock(e) \in Nat
  BY PerBlockHalves
<1>4. NatOn(f, Old) /\ NatOn(g, Old \cup {k}) /\ AgreeOn(f, g, Old)
      /\ g[k] = HALVING_INTERVAL * PerBlock(k)
  BY <1>2, <1>3 DEF NatOn, AgreeOn
<1> HIDE DEF f, g
<1>5. SumFunctionOnSet(g, Old \cup {k}) = SumFunctionOnSet(g, Old) + g[k]
  BY <1>2, <1>4, SumMore
<1>6. SumFunctionOnSet(f, Old) = SumFunctionOnSet(g, Old) /\ SumFunctionOnSet(f, Old) \in Nat
  BY <1>2, <1>4, SumAgree, SumNat
<1>7. OfEras(k) = SumFunctionOnSet(f, Old)
  BY DEF OfEras, f
<1>8. OfEras(k + 1) = SumFunctionOnSet(g, Old \cup {k})
  BY <1>2 DEF OfEras, g
<1> QED
  BY <1>1, <1>4, <1>5, <1>6, <1>7, <1>8

LEMMA LesserOf ==
    ASSUME NEW a \in Int, NEW b \in Int
    PROVE  Min({a, b}) = IF a <= b THEN a ELSE b
BY DEF Min

LEMMA IssuedAt ==
    ASSUME NEW h \in Nat, NEW q \in Nat, NEW r \in 0..(HALVING_INTERVAL - 1),
           h + 1 = HALVING_INTERVAL * q + r
    PROVE  /\ cumulativeIssuance(h) = Issued(q, r)
           /\ (h + 1) \div HALVING_INTERVAL = q
<1> DEFINE H == HALVING_INTERVAL
           full == Min({(h + 1) \div H, MAX_HALVINGS})
           left == h + 1 - full * H
<1>1. (h + 1) \div H = q
  BY IssuanceConstants, DivUnique
<1>2. full = IF q <= MAX_HALVINGS THEN q ELSE MAX_HALVINGS
  BY <1>1, IssuanceConstants, LesserOf
<1>3. cumulativeIssuance(h) =
        OfEras(full) + (IF left > 0 /\ full < MAX_HALVINGS THEN left * PerBlock(full) ELSE 0)
  BY DEF cumulativeIssuance, OfEras, PerBlock
<1>4. OfEras(q) \in Nat /\ OfEras(MAX_HALVINGS) \in Nat
  BY ErasAdd, IssuanceConstants
<1> HIDE DEF full
<1>5. CASE q >= MAX_HALVINGS
  <2>1. full = MAX_HALVINGS
    BY <1>2, <1>5, IssuanceConstants
  <2> QED
    BY <1>1, <1>3, <1>4, <1>5, <2>1, IssuanceConstants DEF Issued
<1>6. CASE ~(q >= MAX_HALVINGS)
  <2>1. full = q /\ q < MAX_HALVINGS
    BY <1>2, <1>6, IssuanceConstants
  <2>2. left = r
    <3>1. q * H = H * q /\ H * q \in Nat
      BY IssuanceConstants
    <3> QED
      BY <2>1, <3>1
  <2>3. r = 0 => r * PerBlock(q) = 0
    BY PerBlockHalves
  <2>4. r \in Nat
    BY IssuanceConstants
  <2> HIDE DEF left
  <2>5. (IF left > 0 /\ full < MAX_HALVINGS THEN left * PerBlock(full) ELSE 0) = r * PerBlock(q)
    BY <2>1, <2>2, <2>3, <2>4
  <2> QED
    BY <1>1, <1>3, <1>6, <2>1, <2>5 DEF Issued
<1> QED
  BY <1>5, <1>6


\* The subsidy of the block after q eras and r blocks.
SubsidyIn(q) == IF q >= MAX_HALVINGS THEN 0 ELSE PerBlock(q)

LEMMA IssuedNext ==
    ASSUME NEW q \in Nat, NEW r \in 0..(HALVING_INTERVAL - 1)
    PROVE  /\ Issued(q, r) \in Nat /\ SubsidyIn(q) \in Nat
           /\ (IF r + 1 = HALVING_INTERVAL THEN Issued(q + 1, 0) ELSE Issued(q, r + 1))
                = Issued(q, r) + SubsidyIn(q)
<1> DEFINE H == HALVING_INTERVAL
           next == IF r + 1 = H THEN Issued(q + 1, 0) ELSE Issued(q, r + 1)
<1>1. r \in Nat /\ r < H /\ H \in Nat \ {0}
  BY IssuanceConstants
<1>2. /\ PerBlock(q) \in Nat /\ H * PerBlock(q) \in Nat /\ OfEras(q) \in Nat
      /\ OfEras(q + 1) = OfEras(q) + H * PerBlock(q) /\ OfEras(MAX_HALVINGS) \in Nat
  BY PerBlockHalves, ErasAdd, IssuanceConstants
<1>3. r * PerBlock(q) \in Nat /\ (r + 1) * PerBlock(q) = r * PerBlock(q) + PerBlock(q)
  BY <1>1, <1>2
<1>4. CASE q >= MAX_HALVINGS
  <2>1. q + 1 >= MAX_HALVINGS
    BY <1>4, IssuanceConstants
  <2>2. Issued(q, r) = OfEras(MAX_HALVINGS)
    BY <1>4 DEF Issued
  <2>3. next = OfEras(MAX_HALVINGS)
    BY <1>4, <2>1 DEF Issued
  <2> HIDE DEF next
  <2> QED
    BY <1>2, <1>4, <2>2, <2>3 DEF next, SubsidyIn
<1>5. CASE ~(q >= MAX_HALVINGS)
  <2>1. Issued(q, r) = OfEras(q) + r * PerBlock(q)
    BY <1>5 DEF Issued
  <2>2. next = OfEras(q) + (r * PerBlock(q) + PerBlock(q))
    <3>1. CASE r + 1 = H
      <4>1. Issued(q + 1, 0) = OfEras(q) + H * PerBlock(q)
        <5>1. CASE q + 1 >= MAX_HALVINGS
          <6>1. q + 1 = MAX_HALVINGS
            BY <1>5, <5>1, IssuanceConstants
          <6> QED
            BY <1>2, <5>1, <6>1 DEF Issued
        <5>2. CASE ~(q + 1 >= MAX_HALVINGS)
          <6>1. q + 1 \in Nat
            OBVIOUS
          <6>2. 0 * PerBlock(q + 1) = 0
            BY <6>1, PerBlockHalves
          <6> QED
            BY <1>2, <5>2, <6>2 DEF Issued
        <5> QED
          BY <5>1, <5>2
      <4>2. H * PerBlock(q) = r * PerBlock(q) + PerBlock(q)
        BY <1>3, <3>1
      <4> QED
        BY <3>1, <4>1, <4>2
    <3>2. CASE r + 1 # H
      BY <1>3, <1>5, <3>2 DEF Issued
    <3> QED
      BY <3>1, <3>2
  <2> HIDE DEF next
  <2>3. SubsidyIn(q) = PerBlock(q)
    BY <1>5 DEF SubsidyIn
  <2>4. next = Issued(q, r) + SubsidyIn(q) /\ Issued(q, r) \in Nat /\ SubsidyIn(q) \in Nat
    BY <1>2, <1>3, <2>1, <2>2, <2>3
  <2> QED
    BY <2>4 DEF next
<1> QED
  BY <1>4, <1>5

\* A block adds its subsidy to what has been issued.
LEMMA IssuanceStep ==
    ASSUME NEW h \in Nat
    PROVE  /\ cumulativeIssuance(h) \in Nat /\ blockSubsidy(h + 1) \in Nat
           /\ cumulativeIssuance(h + 1) = cumulativeIssuance(h) + blockSubsidy(h + 1)
<1> DEFINE H == HALVING_INTERVAL
<1>1. PICK q \in Nat, r \in 0..(H - 1) :
         /\ h + 1 = H * q + r /\ (h + 1) \div H = q
         /\ ((h + 1) + 1) \div H = IF r + 1 = H THEN q + 1 ELSE q
  <2>1. h + 1 \in Nat
    OBVIOUS
  <2> QED
    BY <2>1, DivNext, IssuanceConstants
<1>2. cumulativeIssuance(h) = Issued(q, r)
  BY <1>1, IssuedAt
<1>3. r \in Nat /\ r < H /\ H \in Nat \ {0} /\ H * q \in Nat
  BY IssuanceConstants
<1>4. cumulativeIssuance(h + 1) = IF r + 1 = H THEN Issued(q + 1, 0) ELSE Issued(q, r + 1)
  <2>1. CASE r + 1 = H
    <3>1. H * (q + 1) = H * q + H
      BY <1>3
    <3>2. (h + 1) + 1 = H * (q + 1) + 0 /\ q + 1 \in Nat /\ 0 \in 0..(H - 1) /\ h + 1 \in Nat
      BY <1>1, <1>3, <2>1, <3>1
    <3> QED
      BY <2>1, <3>2, IssuedAt
  <2>2. CASE r + 1 # H
    <3>1. (h + 1) + 1 = H * q + (r + 1) /\ r + 1 \in 0..(H - 1) /\ h + 1 \in Nat
      BY <1>1, <1>3, <2>2
    <3> QED
      BY <2>2, <3>1, IssuedAt
  <2> QED
    BY <2>1, <2>2
<1>5. blockSubsidy(h + 1) = SubsidyIn(q)
  BY <1>1 DEF blockSubsidy, PerBlock, SubsidyIn
<1> QED
  BY <1>2, <1>4, <1>5, IssuedNext

\* The first subsidy is issued with the first block.
LEMMA IssuanceStart == cumulativeIssuance(0) = blockSubsidy(0) /\ blockSubsidy(0) \in Nat
<1> DEFINE H == HALVING_INTERVAL
<1>0. H \in Nat \ {0} /\ 0 \in 0..(H - 1) /\ H * 0 = 0 /\ H * 1 = H
  BY IssuanceConstants
<1>1. 0 \div H = 0
  BY <1>0, DivUnique
<1>2. blockSubsidy(0) = SubsidyIn(0)
  BY <1>1 DEF blockSubsidy, PerBlock, SubsidyIn
<1>3. cumulativeIssuance(0) = IF 0 + 1 = H THEN Issued(0 + 1, 0) ELSE Issued(0, 0 + 1)
  <2>1. CASE H = 1
    <3>1. 0 + 1 = H * 1 + 0
      BY <1>0, <2>1
    <3> QED
      BY <1>0, <2>1, <3>1, IssuedAt
  <2>2. CASE H # 1
    <3>1. 0 + 1 = H * 0 + 1 /\ 1 \in 0..(H - 1)
      BY <1>0, <2>2
    <3> QED
      BY <2>2, <3>1, IssuedAt
  <2> QED
    BY <2>1, <2>2
<1>4. Issued(0, 0) = 0
  <2>1. OfEras(0) = 0 /\ PerBlock(0) \in Nat /\ MAX_HALVINGS \in Nat
    BY ErasAdd, PerBlockHalves, IssuanceConstants
  <2>2. 0 * PerBlock(0) = 0
    BY <2>1
  <2> QED
    BY <2>1, <2>2 DEF Issued
<1>5. (IF 0 + 1 = H THEN Issued(0 + 1, 0) ELSE Issued(0, 0 + 1)) = Issued(0, 0) + SubsidyIn(0)
      /\ SubsidyIn(0) \in Nat
  BY <1>0, IssuedNext
<1> QED
  BY <1>2, <1>3, <1>4, <1>5

\* Every subsidy there will ever be stays within the cap.
LEMMA IssuanceCapped ==
    ASSUME NEW h \in Nat, 2 * (HALVING_INTERVAL * INITIAL_SUBSIDY) <= MAX_SUPPLY
    PROVE  cumulativeIssuance(h) <= MAX_SUPPLY
<1> DEFINE H == HALVING_INTERVAL
           cap == 2 * (H * INITIAL_SUBSIDY)
           P == {k \in Nat : OfEras(k) + 2 * (H * PerBlock(k)) <= cap}
<1>0. H \in Nat \ {0} /\ H * INITIAL_SUBSIDY \in Nat /\ cap \in Nat /\ MAX_SUPPLY \in Nat
  BY IssuanceConstants
<1>1. 0 \in P
  BY <1>0, ErasAdd, PerBlockHalves
<1>2. ASSUME NEW k \in Nat, k \in P PROVE k + 1 \in P
  <2> DEFINE x == PerBlock(k)
             y == PerBlock(k + 1)
  <2>1. x \in Nat /\ y \in Nat /\ y = x \div 2 /\ k + 1 \in Nat
    BY PerBlockHalves
  <2>2. /\ OfEras(k) \in Nat /\ OfEras(k + 1) = OfEras(k) + H * x
        /\ OfEras(k) + 2 * (H * x) <= cap
    BY <1>2, ErasAdd
  <2> HIDE DEF x, y, cap, P
  <2>3. y + y <= x /\ y + y \in Nat
    BY <2>1
  <2>4. (y + y) * H <= x * H
    BY <1>0, <2>1, <2>3, TimesKeepsOrder
  <2>5. (y + y) * H = 2 * (H * y) /\ x * H = H * x /\ H * x \in Nat /\ H * y \in Nat
    BY <1>0, <2>1
  <2>6. OfEras(k + 1) + 2 * (H * y) <= cap
    BY <1>0, <2>2, <2>4, <2>5
  <2> QED
    BY <2>1, <2>6 DEF P, y
<1>3. Nat \subseteq P
  <2> HIDE DEF P
  <2> QED
    BY <1>1, <1>2, NatClosure
<1>4. PICK q \in Nat, r \in 0..(H - 1) : h + 1 = H * q + r
  <2>1. h + 1 \in Nat
    OBVIOUS
  <2> QED
    BY <2>1, DivMod, IssuanceConstants
<1>5. cumulativeIssuance(h) = Issued(q, r)
  BY <1>4, IssuedAt
<1>6. \A k \in Nat : /\ OfEras(k) + 2 * (H * PerBlock(k)) <= cap
                     /\ OfEras(k) \in Nat /\ PerBlock(k) \in Nat /\ H * PerBlock(k) \in Nat
  BY <1>3, ErasAdd, PerBlockHalves
<1>7. r * PerBlock(q) <= H * PerBlock(q) /\ r * PerBlock(q) \in Nat
  <2>1. r \in Nat /\ r <= H
    BY <1>0
  <2> QED
    BY <1>0, <1>6, <2>1, TimesKeepsOrder
<1> HIDE DEF cap, P
<1>8. OfEras(q) + r * PerBlock(q) <= cap
  BY <1>0, <1>6, <1>7
<1>9. OfEras(MAX_HALVINGS) <= cap
  <2>1. MAX_HALVINGS \in Nat
    BY IssuanceConstants
  <2> QED
    BY <1>0, <1>6, <2>1
<1>10. cap <= MAX_SUPPLY
  BY DEF cap
<1>11. Issued(q, r) <= cap
  BY <1>8, <1>9 DEF Issued
<1>12. Issued(q, r) \in Nat
  BY IssuedNext
<1> QED
  BY <1>0, <1>5, <1>10, <1>11, <1>12

\* What a set of coins is worth.
Worth(U) == SumFunctionOnSet([u \in U |-> u.value], U)

\* Coins that can be counted.
Valued(U) == IsFiniteSet(U) /\ \A u \in U : u.value \in Nat

LEMMA WorthNat == ASSUME NEW U, Valued(U) PROVE Worth(U) \in Nat
<1> DEFINE f == [u \in U |-> u.value]
<1>1. NatOn(f, U) /\ IsFiniteSet(U)
  BY DEF NatOn, Valued
<1> HIDE DEF f
<1>2. SumFunctionOnSet(f, U) \in Nat
  BY <1>1, SumNat
<1> QED
  BY <1>2 DEF Worth, f

LEMMA WorthSplit ==
    ASSUME NEW S, NEW T, Valued(S), Valued(T), S \cap T = {}
    PROVE  Valued(S \cup T) /\ Worth(S \cup T) = Worth(S) + Worth(T)
<1> DEFINE f == [u \in S |-> u.value]
           g == [u \in T |-> u.value]
           h == [u \in S \cup T |-> u.value]
<1>1. /\ NatOn(h, S \cup T) /\ NatOn(f, S) /\ NatOn(g, T) /\ AgreeOn(f, h, S) /\ AgreeOn(g, h, T)
      /\ IsFiniteSet(S) /\ IsFiniteSet(T)
  BY DEF NatOn, Valued, AgreeOn
<1>2. Valued(S \cup T)
  BY <1>1, FS_Union DEF Valued
<1> HIDE DEF f, g, h
<1>3. SumFunctionOnSet(h, S \cup T) = SumFunctionOnSet(h, S) + SumFunctionOnSet(h, T)
  BY <1>1, SumSplit
<1>4. SumFunctionOnSet(f, S) = SumFunctionOnSet(h, S) /\ SumFunctionOnSet(g, T) = SumFunctionOnSet(h, T)
  BY <1>1, SumAgree
<1>5. Worth(S) = SumFunctionOnSet(f, S) /\ Worth(T) = SumFunctionOnSet(g, T)
      /\ Worth(S \cup T) = SumFunctionOnSet(h, S \cup T)
  BY DEF Worth, f, g, h
<1> QED
  BY <1>2, <1>3, <1>4, <1>5

\* A list of coins, or of outputs, without repetition.
LEMMA WorthListed ==
    ASSUME NEW list, IsFiniteSet(DOMAIN list), NEW row, \A i \in DOMAIN list : list[i].value \in Nat,
           \A i \in DOMAIN list : row[i].value = list[i].value,
           \A i, j \in DOMAIN list : row[i] = row[j] => i = j
    PROVE  /\ Valued({row[i] : i \in DOMAIN list})
           /\ Worth({row[i] : i \in DOMAIN list}) = SumValue(list)
           /\ SumValue(list) \in Nat
<1> DEFINE D == DOMAIN list
           R == {row[i] : i \in D}
           f == [i \in D |-> list[i].value]
           g == [u \in R |-> u.value]
<1>1. NatOn(f, D) /\ IsFiniteSet(D) /\ MovedBy(row, f, g, D)
  BY DEF NatOn, MovedBy
<1>2. IsFiniteSet(R)
  <2> DEFINE s == [i \in D |-> row[i]]
  <2>1. s \in Surjection(D, R)
    BY DEF Surjection
  <2> HIDE DEF s
  <2> QED
    BY <1>1, <2>1, FS_Surjection
<1>3. \A u \in R : u.value \in Nat
  OBVIOUS
<1> HIDE DEF f, g
<1>4. SumFunctionOnSet(g, {row[i] : i \in D}) = SumFunctionOnSet(f, D) /\ SumFunctionOnSet(f, D) \in Nat
  BY <1>1, SumMoved, SumNat
<1>5. Worth(R) = SumFunctionOnSet(g, R) /\ SumValue(list) = SumFunctionOnSet(f, D)
  BY DEF Worth, SumValue, f, g
<1> QED
  BY <1>2, <1>3, <1>4, <1>5 DEF Valued

----------------------------------------------------------------------------
\* A transaction whose inputs and outputs can be counted.
Shaped(tx) == IsFiniteSet(DOMAIN tx.ins) /\ IsFiniteSet(DOMAIN tx.outs)

\* A world state whose coins were made by the transactions J of the block at height h and
\* by those of the blocks below it.
BornBy(u, h, J) ==
    \E k \in 0..h, j \in Nat : (k = h => j \in J) /\ u.id[1] = <<k, j>>

Sane(s, h, J) ==
    /\ s = [utxos |-> s.utxos, contracts |-> s.contracts, nonces |-> s.nonces]
    /\ Valued(s.utxos)
    /\ \A u, v \in s.utxos : u.id = v.id => u = v
    /\ \A u \in s.utxos : BornBy(u, h, J)

\* What a transaction makes is new and worth what its outputs say.
LEMMA CreatedNew ==
    ASSUME NEW tx, Shaped(tx), \A i \in DOMAIN tx.outs : tx.outs[i].value \in Nat,
           NEW h \in Nat, NEW n \in Nat
    PROVE  LET made == Created(tx, <<h, n>>, h)
           IN /\ Valued(made)
              /\ Worth(made) = SumValue(tx.outs) /\ SumValue(tx.outs) \in Nat
              /\ \A u, v \in made : u.id = v.id => u = v
              /\ \A u \in made : u.id[1] = <<h, n>>
<1> DEFINE D == DOMAIN tx.outs
           Row(i) == [id |-> <<<<h, n>>, i>>, value |-> tx.outs[i].value,
                      address |-> tx.outs[i].address, script |-> tx.outs[i].script,
                      height |-> h, coinbase |-> tx.kind = "coinbase"]
           row == [i \in D |-> Row(i)]
           made == {row[i] : i \in D}
<1>1. Created(tx, <<h, n>>, h) = made
  BY DEF Created
<1>2. \A i \in D : tx.outs[i].value \in Nat
  OBVIOUS
<1>3. \A i \in D : row[i].value = tx.outs[i].value /\ row[i].id = <<<<h, n>>, i>>
  OBVIOUS
<1> HIDE DEF row
<1>4. \A i, j \in D : row[i].id = row[j].id => i = j
  BY <1>3
<1>5. Valued(made) /\ Worth(made) = SumValue(tx.outs) /\ SumValue(tx.outs) \in Nat
  <2>1. IsFiniteSet(D)
    BY DEF Shaped
  <2>2. \A i, j \in D : row[i] = row[j] => i = j
    BY <1>4
  <2> QED
    BY <1>2, <1>3, <2>1, <2>2, WorthListed
<1>6. \A u, v \in made : u.id = v.id => u = v
  BY <1>4
<1>7. \A u \in made : u.id[1] = <<h, n>>
  BY <1>3
<1> QED
  BY <1>1, <1>5, <1>6, <1>7

\* Coins of a state are joined by what the n-th transaction makes.
LEMMA CoinsJoin ==
    ASSUME NEW tx, Shaped(tx), CheckOutputs(tx.outs), NEW h \in Nat, NEW J, NEW n \in Nat, n \notin J,
           NEW U, NEW K, K \subseteq U, Valued(U),
           \A u, v \in U : u.id = v.id => u = v, \A u \in U : BornBy(u, h, J)
    PROVE  LET made == Created(tx, <<h, n>>, h)
           IN /\ Valued(K \cup made)
              /\ Worth(K \cup made) = Worth(K) + SumValue(tx.outs)
              /\ Worth(K) \in Nat /\ SumValue(tx.outs) \in Nat
              /\ \A u, v \in K \cup made : u.id = v.id => u = v
              /\ \A u \in K \cup made : BornBy(u, h, J \cup {n})
<1> DEFINE made == Created(tx, <<h, n>>, h)
<1>1. /\ Valued(made) /\ Worth(made) = SumValue(tx.outs) /\ SumValue(tx.outs) \in Nat
      /\ \A u, v \in made : u.id = v.id => u = v
      /\ \A u \in made : u.id[1] = <<h, n>>
  <2>1. MAX_MONEY \in Nat
    BY TransitionConstants
  <2>2. \A i \in DOMAIN tx.outs : tx.outs[i].value \in Nat
    BY <2>1 DEF CheckOutputs
  <2> QED
    BY <2>2, CreatedNew
<1> HIDE DEF made
<1>2. Valued(K)
  BY FS_Subset DEF Valued
<1>3. \A u \in U : u.id[1] # <<h, n>>
  <2> SUFFICES ASSUME NEW u \in U, u.id[1] = <<h, n>> PROVE FALSE
    OBVIOUS
  <2>1. PICK k \in 0..h, j \in Nat : (k = h => j \in J) /\ u.id[1] = <<k, j>>
    BY DEF BornBy
  <2> QED
    BY <2>1
<1>4. K \cap made = {}
  BY <1>1, <1>3
<1>5. Valued(K \cup made) /\ Worth(K \cup made) = Worth(K) + Worth(made)
  BY <1>1, <1>2, <1>4, WorthSplit
<1>6. \A u, v \in K \cup made : u.id = v.id => u = v
  BY <1>1, <1>3
<1>7. \A u \in K \cup made : BornBy(u, h, J \cup {n})
  <2>1. \A u \in made : BornBy(u, h, J \cup {n})
    <3>1. h \in 0..h /\ n \in J \cup {n}
      OBVIOUS
    <3> QED
      BY <1>1, <3>1 DEF BornBy
  <2>2. \A u \in K : BornBy(u, h, J \cup {n})
    BY DEF BornBy
  <2> QED
    BY <2>1, <2>2
<1>8. Worth(K) \in Nat
  BY <1>2, WorthNat
<1> QED
  BY <1>1, <1>5, <1>6, <1>7, <1>8 DEF made

\* What an accepted transaction passes.
LEMMA AppliedMoves ==
    ASSUME NEW tx, NEW id, NEW s, NEW h, NEW time, applyTx(tx, id, s, h, time).ok
    PROVE  LET prevs == Prevs(tx, s)
               res == applyTx(tx, id, s, h, time)
           IN /\ Present(tx, s)
              /\ Movable(tx, prevs, h)
              /\ \/ res = Applied(Moved(tx, id, prevs, s, h), Fee(tx, prevs), 0)
                 \/ \E storage, gas :
                       res = Applied(Moved(tx, id, prevs, Installed(tx, prevs, s, storage, h), h),
                                     Fee(tx, prevs), gas)
<1> DEFINE prevs == Prevs(tx, s)
           vm == Run(tx, prevs, s, h, time)
<1>1. ~Refused(s).ok
  BY DEF Refused
<1>2. Present(tx, s)
  BY <1>1 DEF applyTx
<1>3. Movable(tx, prevs, h)
  BY <1>1, <1>2 DEF applyTx
<1>4. CASE tx.kind = "transfer"
  BY <1>2, <1>3, <1>4 DEF applyTx
<1>5. CASE tx.kind # "transfer"
  <2>1. Installable(tx, prevs, s)
    BY <1>1, <1>2, <1>3, <1>5 DEF applyTx
  <2>2. applyTx(tx, id, s, h, time) = AfterRun(tx, id, prevs, s, vm, h)
    BY <1>2, <1>3, <1>5, <2>1 DEF applyTx
  <2> HIDE DEF vm, prevs
  <2>3. applyTx(tx, id, s, h, time)
          = Applied(Moved(tx, id, prevs, Installed(tx, prevs, s, vm.storage, h), h),
                    Fee(tx, prevs), vm.gas)
    BY <1>1, <2>2 DEF AfterRun
  <2> QED
    BY <1>2, <1>3, <2>3 DEF prevs
<1> QED
  BY <1>2, <1>3, <1>4, <1>5

\* A contract's account is no coin.
LEMMA InstalledKeepsCoins ==
    ASSUME NEW tx, NEW prevs, NEW s, NEW storage, NEW h,
           s = [utxos |-> s.utxos, contracts |-> s.contracts, nonces |-> s.nonces]
    PROVE  LET t == Installed(tx, prevs, s, storage, h)
           IN /\ t.utxos = s.utxos
              /\ t = [utxos |-> t.utxos, contracts |-> t.contracts, nonces |-> t.nonces]
<1>1. CASE tx.kind = "deploy"
  <2> DEFINE target == Target(tx, prevs)
             by == Caller(prevs)
             c == [x \in DOMAIN s.contracts \cup {target} |->
                     IF x = target THEN [code |-> tx.contract.code, storage |-> storage,
                                         deployedAt |-> h, deployer |-> by]
                     ELSE s.contracts[x]]
             m == [a \in DOMAIN s.nonces \cup {by} |->
                     IF a = by THEN nonceOf(s, by) + 1 ELSE s.nonces[a]]
  <2>1. Installed(tx, prevs, s, storage, h) = [s EXCEPT !.contracts = c, !.nonces = m]
    BY <1>1 DEF Installed
  <2> HIDE DEF c, m
  <2> QED
    BY <2>1
<1>2. CASE tx.kind # "deploy"
  <2> DEFINE c == [s.contracts EXCEPT ![Target(tx, prevs)].storage = storage]
  <2>1. Installed(tx, prevs, s, storage, h) = [s EXCEPT !.contracts = c]
    BY <1>2 DEF Installed
  <2> HIDE DEF c
  <2> QED
    BY <2>1
<1> QED
  BY <1>1, <1>2

\* The coins a transaction spends are coins of the state, each once.
LEMMA PrevsOnce ==
    ASSUME NEW tx, NEW h, NEW s, tx.kind # "coinbase", Shaped(tx),
           Present(tx, s), Movable(tx, Prevs(tx, s), h), Valued(s.utxos)
    PROVE  LET prevs == Prevs(tx, s)
           IN /\ DOMAIN prevs = DOMAIN tx.ins
              /\ \A i \in DOMAIN tx.ins : prevs[i] \in s.utxos /\ prevs[i].id = tx.ins[i].coin
              /\ Range(prevs) \subseteq s.utxos
              /\ Valued(Range(prevs)) /\ Worth(Range(prevs)) = SumValue(prevs)
              /\ SumValue(prevs) \in Nat
              /\ CheckOutputs(tx.outs) /\ Fee(tx, prevs) >= 0
<1> DEFINE prevs == Prevs(tx, s)
           D == DOMAIN tx.ins
<1>1. DOMAIN prevs = D
  BY DEF Prevs
<1>2. ASSUME NEW i \in D PROVE prevs[i] \in s.utxos /\ prevs[i].id = tx.ins[i].coin
  <2>1. Unspent(s, tx.ins[i].coin) # {}
    BY DEF Present
  <2>2. prevs[i] = CHOOSE u \in Unspent(s, tx.ins[i].coin) : TRUE
    BY DEF Prevs
  <2>3. prevs[i] \in Unspent(s, tx.ins[i].coin)
    BY <2>1, <2>2
  <2> QED
    BY <2>3 DEF Unspent
<1> HIDE DEF prevs
<1>3. checkTx(tx, prevs)
  BY DEF Movable, prevs
<1>4. /\ CheckOutputs(tx.outs) /\ Fee(tx, prevs) >= 0
      /\ \A i, j \in D : tx.ins[i].coin = tx.ins[j].coin => i = j
  BY <1>3 DEF checkTx
<1>5. \A i, j \in D : prevs[i] = prevs[j] => i = j
  BY <1>2, <1>4
<1>6. Range(prevs) = {prevs[i] : i \in DOMAIN prevs}
  BY DEF Range
<1>7. \A i \in DOMAIN prevs : prevs[i].value \in Nat
  BY <1>1, <1>2 DEF Valued
<1>8. IsFiniteSet(DOMAIN prevs)
  BY <1>1 DEF Shaped
<1>9. \A i, j \in DOMAIN prevs : prevs[i] = prevs[j] => i = j
  BY <1>1, <1>5
<1>10. Valued(Range(prevs)) /\ Worth(Range(prevs)) = SumValue(prevs) /\ SumValue(prevs) \in Nat
  <2> DEFINE row == prevs
  <2>1. /\ \A i \in DOMAIN prevs : row[i].value = prevs[i].value
        /\ \A i, j \in DOMAIN prevs : row[i] = row[j] => i = j
        /\ Range(prevs) = {row[i] : i \in DOMAIN prevs}
    BY <1>6, <1>9
  <2> HIDE DEF row
  <2>2. /\ Valued({row[i] : i \in DOMAIN prevs})
        /\ Worth({row[i] : i \in DOMAIN prevs}) = SumValue(prevs)
        /\ SumValue(prevs) \in Nat
    BY <1>7, <1>8, <2>1, WorthListed
  <2> QED
    BY <2>1, <2>2
<1>11. Range(prevs) \subseteq s.utxos
  BY <1>1, <1>2, <1>6
<1> QED
  BY <1>1, <1>2, <1>4, <1>10, <1>11 DEF prevs

\* An outcome that takes a fee from the coins of s, and nothing else.
Settles(res, s, h, J) ==
    /\ Sane(res.state, h, J)
    /\ res.fee \in Nat
    /\ Worth(res.state.utxos) \in Nat /\ Worth(s.utxos) \in Nat
    /\ Worth(res.state.utxos) + res.fee = Worth(s.utxos)

\* A transaction takes its fee from the coins, and nothing else.
LEMMA TxBalances ==
    ASSUME NEW h \in Nat, NEW J, NEW n \in Nat, n \notin J, NEW s, Sane(s, h, J), NEW time,
           NEW tx, Shaped(tx), tx.kind # "coinbase", applyTx(tx, <<h, n>>, s, h, time).ok
    PROVE  Settles(applyTx(tx, <<h, n>>, s, h, time), s, h, J \cup {n})
<1> DEFINE prevs == Prevs(tx, s)
           res == applyTx(tx, <<h, n>>, s, h, time)
           made == Created(tx, <<h, n>>, h)
           K == s.utxos \ Range(prevs)
<1>1. /\ Present(tx, s) /\ Movable(tx, prevs, h)
      /\ \/ res = Applied(Moved(tx, <<h, n>>, prevs, s, h), Fee(tx, prevs), 0)
         \/ \E storage, gas :
               res = Applied(Moved(tx, <<h, n>>, prevs, Installed(tx, prevs, s, storage, h), h),
                             Fee(tx, prevs), gas)
  BY AppliedMoves
<1>2. /\ Valued(s.utxos)
      /\ s = [utxos |-> s.utxos, contracts |-> s.contracts, nonces |-> s.nonces]
      /\ \A u, v \in s.utxos : u.id = v.id => u = v
      /\ \A u \in s.utxos : BornBy(u, h, J)
  BY DEF Sane
<1>3. /\ Range(prevs) \subseteq s.utxos
      /\ Valued(Range(prevs)) /\ Worth(Range(prevs)) = SumValue(prevs) /\ SumValue(prevs) \in Nat
      /\ CheckOutputs(tx.outs) /\ Fee(tx, prevs) >= 0
  BY <1>1, <1>2, PrevsOnce
<1> HIDE DEF prevs, res
<1>4. res.fee = Fee(tx, prevs)
  BY <1>1 DEF Applied
<1>5. /\ res.state.utxos = K \cup made
      /\ res.state = [utxos |-> res.state.utxos, contracts |-> res.state.contracts,
                      nonces |-> res.state.nonces]
  <2>1. CASE res = Applied(Moved(tx, <<h, n>>, prevs, s, h), Fee(tx, prevs), 0)
    <3>1. res.state = [s EXCEPT !.utxos = (@ \ Range(prevs)) \cup made]
      BY <2>1 DEF Applied, Moved
    <3> HIDE DEF made
    <3> QED
      BY <1>2, <3>1
  <2>2. ASSUME NEW storage, NEW gas,
               res = Applied(Moved(tx, <<h, n>>, prevs, Installed(tx, prevs, s, storage, h), h),
                             Fee(tx, prevs), gas)
        PROVE  /\ res.state.utxos = K \cup made
               /\ res.state = [utxos |-> res.state.utxos, contracts |-> res.state.contracts,
                               nonces |-> res.state.nonces]
    <3> DEFINE t == Installed(tx, prevs, s, storage, h)
    <3>1. t.utxos = s.utxos
          /\ t = [utxos |-> t.utxos, contracts |-> t.contracts, nonces |-> t.nonces]
      BY <1>2, InstalledKeepsCoins
    <3> HIDE DEF t
    <3>2. res.state = [t EXCEPT !.utxos = (@ \ Range(prevs)) \cup made]
      BY <2>2 DEF Applied, Moved, t
    <3> HIDE DEF made
    <3> QED
      BY <3>1, <3>2
  <2> QED
    BY <1>1, <2>1, <2>2
<1>6. /\ Valued(K \cup made)
      /\ Worth(K \cup made) = Worth(K) + SumValue(tx.outs)
      /\ Worth(K) \in Nat /\ SumValue(tx.outs) \in Nat
      /\ \A u, v \in K \cup made : u.id = v.id => u = v
      /\ \A u \in K \cup made : BornBy(u, h, J \cup {n})
  <2>1. K \subseteq s.utxos
    OBVIOUS
  <2> HIDE DEF K
  <2> QED
    BY <1>2, <1>3, <2>1, CoinsJoin
<1>7. Worth(s.utxos) = Worth(K) + SumValue(prevs)
  <2>1. K \cap Range(prevs) = {} /\ s.utxos = K \cup Range(prevs)
    BY <1>3
  <2>2. Valued(K)
    BY <1>2, FS_Subset DEF Valued
  <2> HIDE DEF K
  <2> QED
    BY <1>3, <2>1, <2>2, WorthSplit
<1> HIDE DEF K, made
<1>8. Sane(res.state, h, J \cup {n})
  <2> DEFINE t == res.state
  <2>1. t = [utxos |-> t.utxos, contracts |-> t.contracts, nonces |-> t.nonces]
    BY <1>5
  <2>2. /\ Valued(t.utxos)
        /\ \A u, v \in t.utxos : u.id = v.id => u = v
        /\ \A u \in t.utxos : BornBy(u, h, J \cup {n})
    BY <1>5, <1>6
  <2> HIDE DEF t
  <2>3. Sane(t, h, J \cup {n})
    BY <2>1, <2>2 DEF Sane
  <2> QED
    BY <2>3 DEF t
<1>9. Fee(tx, prevs) = SumValue(prevs) - SumValue(tx.outs)
  BY DEF Fee
<1>10. /\ res.fee \in Nat /\ Worth(res.state.utxos) \in Nat /\ Worth(s.utxos) \in Nat
       /\ Worth(res.state.utxos) + res.fee = Worth(s.utxos)
  BY <1>3, <1>4, <1>5, <1>6, <1>7, <1>9
<1> QED
  BY <1>8, <1>10 DEF res, Settles

\* An outcome that adds to the coins of s what a coinbase claims, and nothing else.
Mints(res, cb, s, h, fees, J) ==
    /\ Sane(res.state, h, J)
    /\ SumValue(cb.outs) \in Nat /\ SumValue(cb.outs) <= Allowed(h, fees)
    /\ Worth(s.utxos) \in Nat
    /\ Worth(res.state.utxos) = Worth(s.utxos) + SumValue(cb.outs)

\* A coinbase adds what it pays itself.
LEMMA CoinbaseBalances ==
    ASSUME NEW h \in Nat, NEW J, 0 \notin J, NEW s, Sane(s, h, J), NEW fees,
           NEW cb, Shaped(cb), applyCoinbase(cb, <<h, 0>>, s, h, fees).ok
    PROVE  Mints(applyCoinbase(cb, <<h, 0>>, s, h, fees), cb, s, h, fees, J \cup {0})
<1> DEFINE res == applyCoinbase(cb, <<h, 0>>, s, h, fees)
           made == Created(cb, <<h, 0>>, h)
<1>1. /\ checkTx(cb, <<>>) /\ SumValue(cb.outs) <= Allowed(h, fees)
      /\ res = Applied([s EXCEPT !.utxos = @ \cup made], 0, 0)
  BY DEF applyCoinbase, Refused
<1>2. CheckOutputs(cb.outs)
  BY <1>1 DEF checkTx
<1>3. /\ Valued(s.utxos)
      /\ s = [utxos |-> s.utxos, contracts |-> s.contracts, nonces |-> s.nonces]
      /\ \A u, v \in s.utxos : u.id = v.id => u = v
      /\ \A u \in s.utxos : BornBy(u, h, J)
  BY DEF Sane
<1>4. /\ Valued(s.utxos \cup made)
      /\ Worth(s.utxos \cup made) = Worth(s.utxos) + SumValue(cb.outs)
      /\ Worth(s.utxos) \in Nat /\ SumValue(cb.outs) \in Nat
      /\ \A u, v \in s.utxos \cup made : u.id = v.id => u = v
      /\ \A u \in s.utxos \cup made : BornBy(u, h, J \cup {0})
  BY <1>2, <1>3, CoinsJoin
<1> HIDE DEF made, res
<1>5. /\ res.state.utxos = s.utxos \cup made
      /\ res.state = [utxos |-> res.state.utxos, contracts |-> res.state.contracts,
                      nonces |-> res.state.nonces]
  <2>1. res.state = [s EXCEPT !.utxos = @ \cup made]
    BY <1>1 DEF Applied
  <2> QED
    BY <1>3, <2>1
<1>6. Sane(res.state, h, J \cup {0})
  <2> DEFINE t == res.state
  <2>1. t = [utxos |-> t.utxos, contracts |-> t.contracts, nonces |-> t.nonces]
    BY <1>5
  <2>2. /\ Valued(t.utxos)
        /\ \A u, v \in t.utxos : u.id = v.id => u = v
        /\ \A u \in t.utxos : BornBy(u, h, J \cup {0})
    BY <1>4, <1>5
  <2> HIDE DEF t
  <2>3. Sane(t, h, J \cup {0})
    BY <2>1, <2>2 DEF Sane
  <2> QED
    BY <2>3 DEF t
<1> QED
  BY <1>1, <1>4, <1>5, <1>6 DEF res, Mints

\* The outcomes after none, one and more of the transactions.
Outcomes(acc, txs, N, s, h, time) ==
    /\ acc = [n \in 0..N |-> acc[n]]
    /\ acc[0] = Applied(s, 0, 0)
    /\ \A n \in 1..N : acc[n] = ApplyNext(txs, n, acc[n - 1], h, time)

LEMMA OutcomesExist ==
    ASSUME NEW txs, NEW N \in Nat, NEW s, NEW h, NEW time
    PROVE  \E acc : Outcomes(acc, txs, N, s, h, time)
<1> DEFINE P == {n \in Nat : \E acc : Outcomes(acc, txs, n, s, h, time)}
<1>1. 0 \in P
  <2> DEFINE g == [n \in 0..0 |-> Applied(s, 0, 0)]
  <2>1. g = [n \in 0..0 |-> g[n]] /\ g[0] = Applied(s, 0, 0) /\ 1..0 = {}
    OBVIOUS
  <2> HIDE DEF g
  <2>2. Outcomes(g, txs, 0, s, h, time)
    BY <2>1 DEF Outcomes
  <2> QED
    BY <2>2
<1>2. ASSUME NEW n \in Nat, n \in P PROVE n + 1 \in P
  <2>1. PICK acc : Outcomes(acc, txs, n, s, h, time)
    BY <1>2
  <2> DEFINE last == ApplyNext(txs, n + 1, acc[n], h, time)
             g == [k \in 0..(n + 1) |-> IF k = n + 1 THEN last ELSE acc[k]]
  <2>2. g = [k \in 0..(n + 1) |-> g[k]]
    OBVIOUS
  <2>3. /\ \A k \in 0..n : g[k] = acc[k]
        /\ g[n + 1] = last
    OBVIOUS
  <2> HIDE DEF g
  <2>4. g[0] = Applied(s, 0, 0)
    BY <2>1, <2>3 DEF Outcomes
  <2>5. ASSUME NEW k \in 1..(n + 1) PROVE g[k] = ApplyNext(txs, k, g[k - 1], h, time)
    <3>1. k - 1 \in 0..n /\ g[k - 1] = acc[k - 1]
      BY <2>3
    <3>2. CASE k = n + 1
      <4>1. k - 1 = n
        BY <3>2
      <4> QED
        BY <2>3, <3>1, <3>2, <4>1
    <3>3. CASE k # n + 1
      <4>1. k \in 1..n /\ k \in 0..n
        BY <3>3
      <4> QED
        BY <2>1, <2>3, <3>1, <4>1 DEF Outcomes
    <3> QED
      BY <3>2, <3>3
  <2>6. Outcomes(g, txs, n + 1, s, h, time)
    BY <2>2, <2>4, <2>5 DEF Outcomes
  <2> QED
    BY <2>6
<1>3. Nat \subseteq P
  <2> HIDE DEF P
  <2> QED
    BY <1>1, <1>2, NatClosure
<1> QED
  BY <1>3

LEMMA ApplyAllRuns ==
    ASSUME NEW txs, Len(txs) \in Nat, NEW s, NEW h, NEW time
    PROVE  \E acc : /\ Outcomes(acc, txs, Len(txs), s, h, time)
                    /\ ApplyAll(txs, s, h, time) = acc[Len(txs)]
<1> DEFINE N == Len(txs)
           Is(f) == f = [n \in 0..N |-> IF n = 0 THEN Applied(s, 0, 0)
                                         ELSE ApplyNext(txs, n, f[n - 1], h, time)]
           q == CHOOSE f : Is(f)
<1>1. \E f : Is(f)
  <2>1. PICK f : Outcomes(f, txs, N, s, h, time)
    BY OutcomesExist
  <2>2. \A n \in 0..N : f[n] = IF n = 0 THEN Applied(s, 0, 0)
                                ELSE ApplyNext(txs, n, f[n - 1], h, time)
    BY <2>1 DEF Outcomes
  <2>3. f = [n \in 0..N |-> f[n]]
    BY <2>1 DEF Outcomes
  <2>4. Is(f)
    BY <2>2, <2>3
  <2> QED
    BY <2>4
<1>2. Is(q)
  BY <1>1
<1>3. ApplyAll(txs, s, h, time) = q[N]
  BY DEF ApplyAll
<1>4. Outcomes(q, txs, N, s, h, time)
  <2> HIDE DEF q
  <2>1. q = [n \in 0..N |-> q[n]]
    BY <1>2
  <2>2. q[0] = Applied(s, 0, 0) /\ \A n \in 1..N : q[n] = ApplyNext(txs, n, q[n - 1], h, time)
    BY <1>2
  <2> QED
    BY <2>1, <2>2 DEF Outcomes
<1> QED
  BY <1>3, <1>4

\* An outcome of the first n transactions that balances.
Balanced(res, s, h, n) == res.ok => Settles(res, s, h, 1..n)

LEMMA BodyBalances ==
    ASSUME NEW txs, Len(txs) \in Nat, NEW h \in Nat, NEW s, Sane(s, h, {}), NEW time,
           \A n \in 1..Len(txs) : Shaped(txs[n]) /\ txs[n].kind # "coinbase"
    PROVE  Balanced(ApplyAll(txs, s, h, time), s, h, Len(txs))
<1> DEFINE N == Len(txs)
<1>1. PICK acc : Outcomes(acc, txs, N, s, h, time) /\ ApplyAll(txs, s, h, time) = acc[N]
  BY ApplyAllRuns
<1> DEFINE P == {n \in Nat : n <= N => Balanced(acc[n], s, h, n)}
<1>2. 0 \in P
  <2>1. acc[0] = Applied(s, 0, 0)
    BY <1>1 DEF Outcomes
  <2>2. 1..0 = {}
    OBVIOUS
  <2>3. Worth(s.utxos) \in Nat
    BY WorthNat DEF Sane
  <2>4. acc[0].state = s /\ acc[0].fee = 0
    BY <2>1 DEF Applied
  <2> QED
    BY <2>2, <2>3, <2>4 DEF Balanced, Settles
<1>3. ASSUME NEW n \in Nat, n \in P PROVE n + 1 \in P
  <2> SUFFICES ASSUME n + 1 <= N, acc[n + 1].ok PROVE Balanced(acc[n + 1], s, h, n + 1)
    BY DEF Balanced, Settles
  <2> DEFINE old == acc[n]
             tx == txs[n + 1]
             res == applyTx(tx, <<h, n + 1>>, old.state, h, time)
  <2>1. n + 1 \in 1..N /\ (n + 1) - 1 = n /\ n <= N
    OBVIOUS
  <2>2. acc[n + 1] = ApplyNext(txs, n + 1, old, h, time)
    BY <1>1, <2>1 DEF Outcomes
  <2>3. acc[n + 1] = IF ~old.ok THEN old
                     ELSE [ok |-> res.ok /\ old.gas + res.gas <= BLOCK_GAS_LIMIT,
                           state |-> res.state, fee |-> old.fee + res.fee,
                           gas |-> old.gas + res.gas]
    BY <2>2 DEF ApplyNext, Joined
  <2> HIDE DEF res
  <2>4. old.ok
    BY <2>3
  <2>5. acc[n + 1].state = res.state /\ acc[n + 1].fee = old.fee + res.fee /\ res.ok
    <3> DEFINE good == res.ok /\ old.gas + res.gas <= BLOCK_GAS_LIMIT
               fee == old.fee + res.fee
               gas == old.gas + res.gas
    <3>1. acc[n + 1] = [ok |-> good, state |-> res.state, fee |-> fee, gas |-> gas]
      BY <2>3, <2>4
    <3> HIDE DEF good, fee, gas
    <3>2. good
      BY <3>1
    <3>3. acc[n + 1].state = res.state /\ acc[n + 1].fee = fee
      BY <3>1
    <3> QED
      BY <3>2, <3>3 DEF good, fee
  <2>6. /\ Sane(old.state, h, 1..n)
        /\ old.fee \in Nat /\ Worth(s.utxos) \in Nat /\ Worth(old.state.utxos) \in Nat
        /\ Worth(old.state.utxos) + old.fee = Worth(s.utxos)
    BY <1>3, <2>1, <2>4 DEF Balanced, Settles
  <2>7. Shaped(tx) /\ tx.kind # "coinbase"
    BY <2>1
  <2> HIDE DEF old, tx
  <2>8. /\ Sane(res.state, h, (1..n) \cup {n + 1})
        /\ res.fee \in Nat /\ Worth(res.state.utxos) \in Nat
        /\ Worth(res.state.utxos) + res.fee = Worth(old.state.utxos)
    <3> DEFINE m == n + 1
               J == 1..n
    <3>1. m \in Nat /\ m \notin J
      OBVIOUS
    <3>2. applyTx(tx, <<h, m>>, old.state, h, time).ok /\ Sane(old.state, h, J)
      BY <2>5, <2>6 DEF res
    <3> HIDE DEF m, J
    <3>3. Settles(applyTx(tx, <<h, m>>, old.state, h, time), old.state, h, J \cup {m})
      BY <2>7, <3>1, <3>2, TxBalances
    <3> QED
      BY <3>3 DEF res, m, J, Settles
  <2>9. (1..n) \cup {n + 1} = 1..(n + 1)
    OBVIOUS
  <2>10. Sane(acc[n + 1].state, h, 1..(n + 1))
    BY <2>5, <2>8, <2>9
  <2>11. /\ acc[n + 1].fee \in Nat /\ Worth(acc[n + 1].state.utxos) \in Nat
         /\ Worth(acc[n + 1].state.utxos) + acc[n + 1].fee = Worth(s.utxos)
    BY <2>5, <2>6, <2>8
  <2> QED
    BY <2>6, <2>10, <2>11 DEF Balanced, Settles
<1>4. N \in P
  <2> HIDE DEF P
  <2> QED
    BY <1>2, <1>3, NatClosure
<1> QED
  BY <1>1, <1>4

\* The transactions of a block, or of a draft, as lists.
Listed(txs) ==
    /\ txs \in Seq(Range(txs))
    /\ \A n \in DOMAIN txs : Shaped(txs[n])

\* The coins on the chain, and what has been issued.
SupplyInv ==
    /\ blocks \in Seq(Range(blocks)) /\ Len(blocks) \in Nat \ {0}
    /\ Sane(chainState, height + 1, {})
    /\ foregone \in Nat
    /\ Worth(chainState.utxos) + foregone = cumulativeIssuance(height)

\* A draft lists transactions, and none of them is a coinbase.
DraftListed ==
    draft # None =>
        /\ draft = [time |-> draft.time, txs |-> draft.txs, state |-> draft.state,
                    fees |-> draft.fees, gas |-> draft.gas]
        /\ Listed(draft.txs)
        /\ \A n \in DOMAIN draft.txs : draft.txs[n].kind # "coinbase"

LedgerInv == SupplyInv /\ DraftListed

LEMMA ListOne == \A x : <<x>> \in Seq(Range(<<x>>)) /\ Range(<<x>>) = {x} /\ DOMAIN <<x>> = {1}
                        /\ Len(<<x>>) = 1
<1> TAKE x
<1>1. DOMAIN <<x>> = 1..1 /\ 1..1 = {1} /\ Len(<<x>>) = 1 /\ <<x>>[1] = x
  OBVIOUS
<1>2. Range(<<x>>) = {x}
  BY <1>1 DEF Range
<1>3. <<x>> \in Seq({x})
  OBVIOUS
<1> QED
  BY <1>1, <1>2, <1>3

LEMMA ListNone == <<>> \in Seq(Range(<<>>)) /\ DOMAIN <<>> = {}
BY DEF Range

LEMMA ListCons ==
    ASSUME NEW cb, Shaped(cb), NEW txs, Listed(txs)
    PROVE  LET all == <<cb>> \o txs
           IN /\ Listed(all) /\ all # <<>>
              /\ Head(all) = cb /\ Tail(all) = txs /\ Len(all) = Len(txs) + 1
              /\ \A n \in DOMAIN txs : n + 1 \in DOMAIN all /\ all[n + 1] = txs[n]
<1> DEFINE S == Range(txs)
           all == <<cb>> \o txs
<1>1. txs \in Seq(S) /\ \A n \in DOMAIN txs : Shaped(txs[n])
  BY DEF Listed
<1> HIDE DEF S
<1>2. <<cb>> \in Seq(S \cup {cb}) /\ Len(<<cb>>) = 1 /\ txs \in Seq(S \cup {cb})
  BY <1>1
<1>3. /\ all \in Seq(S \cup {cb}) /\ Len(all) = Len(txs) + 1 /\ all[1] = cb
      /\ DOMAIN all = 1..(Len(txs) + 1) /\ DOMAIN txs = 1..Len(txs) /\ Len(txs) \in Nat
      /\ \A n \in 1..Len(txs) : all[n + 1] = txs[n]
  BY <1>1, <1>2
<1> HIDE DEF all
<1>4. all # <<>> /\ Head(all) = cb
  BY <1>3
<1>5. Tail(all) = txs
  <2>1. Tail(all) \in Seq(S \cup {cb}) /\ Len(Tail(all)) = Len(txs)
    BY <1>3, <1>4
  <2>2. \A n \in 1..Len(txs) : Tail(all)[n] = txs[n]
    BY <1>3, <1>4
  <2> QED
    BY <1>2, <1>3, <2>1, <2>2
<1>6. \A n \in DOMAIN all : Shaped(all[n])
  <2> SUFFICES ASSUME NEW n \in DOMAIN all PROVE Shaped(all[n])
    OBVIOUS
  <2>1. CASE n = 1
    BY <1>3, <2>1
  <2>2. CASE n # 1
    <3>1. n - 1 \in 1..Len(txs) /\ (n - 1) + 1 = n
      BY <1>3, <2>2
    <3>2. all[n] = txs[n - 1]
      BY <1>3, <3>1
    <3> QED
      BY <1>1, <1>3, <3>1, <3>2
  <2> QED
    BY <2>1, <2>2
<1>7. all \in Seq(Range(all))
  BY <1>3 DEF Range
<1>8. Listed(all)
  BY <1>6, <1>7 DEF Listed
<1>9. \A n \in DOMAIN txs : n + 1 \in DOMAIN all /\ all[n + 1] = txs[n]
  BY <1>3
<1> QED
  BY <1>3, <1>4, <1>5, <1>8, <1>9 DEF all

\* The environment's transactions can be counted.
LEMMA TransferShaped ==
    ASSUME NEW a, NEW b, NEW lock
    PROVE  LET tx == transferTx(<<a>>, <<b>>, lock) IN Shaped(tx) /\ tx.kind # "coinbase"
<1>1. DOMAIN <<a>> = {1} /\ DOMAIN <<b>> = {1} /\ IsFiniteSet({1})
  BY ListOne, FS_Singleton
<1> QED
  BY <1>1 DEF Shaped, transferTx

LEMMA CoinbaseShaped ==
    ASSUME NEW to, NEW value, NEW h
    PROVE  Shaped(coinbaseTx(to, value, h))
<1> DEFINE o == TxOutput(value, to, p2pkh)
<1>1. DOMAIN <<>> = {} /\ DOMAIN <<o>> = {1} /\ IsFiniteSet({1}) /\ IsFiniteSet({})
  BY ListNone, ListOne, FS_Singleton, FS_EmptySet
<1> HIDE DEF o
<1>2. coinbaseTx(to, value, h).ins = <<>> /\ coinbaseTx(to, value, h).outs = <<o>>
  BY DEF coinbaseTx, o
<1> QED
  BY <1>1, <1>2 DEF Shaped

LEMMA ContractShaped ==
    ASSUME NEW ins, IsFiniteSet(DOMAIN ins), NEW outs, IsFiniteSet(DOMAIN outs)
    PROVE  /\ \A code, limit, price, nonce :
                 LET tx == deployTx(ins, outs, code, limit, price, nonce)
                 IN Shaped(tx) /\ tx.kind # "coinbase"
           /\ \A target, data, limit, price :
                 LET tx == callTx(ins, outs, target, data, limit, price)
                 IN Shaped(tx) /\ tx.kind # "coinbase"
BY DEF Shaped, deployTx, callTx, transferTx

LEMMA OfferedShaped ==
    ASSUME NEW s, NEW tx \in Txs(s)
    PROVE  Shaped(tx) /\ tx.kind # "coinbase"
<1>1. ASSUME tx \in Transfers(s) PROVE Shaped(tx) /\ tx.kind # "coinbase"
  <2> DEFINE Out(u, payee, fee) == <<TxOutput(u.value - fee, payee.address, payee.script)>>
             Locked(u) == IF u.script.type = "htlc" THEN Locks ELSE {0}
             Spending(u) == {transferTx(<<input>>, Out(u, payee, fee), lock) :
                               input \in Inputs(u), payee \in Payees, fee \in Fees, lock \in Locked(u)}
  <2>1. Transfers(s) = UNION {Spending(u) : u \in s.utxos}
    BY DEF Transfers
  <2>2. PICK u \in s.utxos : tx \in Spending(u)
    <3> HIDE DEF Spending
    <3> QED
      BY <1>1, <2>1
  <2>3. \E input \in Inputs(u), payee \in Payees, fee \in Fees, lock \in Locked(u) :
           tx = transferTx(<<input>>, Out(u, payee, fee), lock)
    <3> HIDE DEF Out, Locked
    <3> QED
      BY <2>2
  <2>4. \E a, b, lock : tx = transferTx(<<a>>, <<b>>, lock)
    BY <2>3
  <2> QED
    BY <2>4, TransferShaped
<1> DEFINE One == \A a : IsFiniteSet(DOMAIN <<a>>)
           Two == \A a, b : IsFiniteSet(DOMAIN <<a, b>>)
<1>0. One /\ Two
  <2>1. \A a : DOMAIN <<a>> = {1}
    BY ListOne
  <2>2. \A a, b : DOMAIN <<a, b>> = {1} \cup {2}
    OBVIOUS
  <2>3. IsFiniteSet({1}) /\ IsFiniteSet({1} \cup {2})
    BY FS_Singleton, FS_AddElement
  <2> QED
    BY <2>1, <2>2, <2>3
<1>2. ASSUME tx \in Deployments(s) PROVE Shaped(tx) /\ tx.kind # "coinbase"
  <2>1. PICK u \in Keyed(s), n \in 0..1 :
           tx = deployTx(<<Plain(u, u.address)>>, PayTo(u.value, contractAddress(u.address, n)),
                         Guard.code, GasLimit, 1, n)
    BY <1>2 DEF Deployments
  <2>2. \E a, b, code, limit, price, nonce : tx = deployTx(<<a>>, <<b>>, code, limit, price, nonce)
    BY <2>1 DEF PayTo
  <2> QED
    BY <1>0, <2>2, ContractShaped
<1>3. ASSUME tx \in Releases(s) PROVE Shaped(tx) /\ tx.kind # "coinbase"
  <2> DEFINE Release(u, g) ==
               {callTx(ins, PayTo(u.value + g.value, to), g.address, <<>>, GasLimit, price) :
                  ins \in Together(u, g), to \in Keys, price \in 0..1}
             Others == s.utxos \ Keyed(s)
  <2>1. PICK u \in Keyed(s), g \in Others : tx \in Release(u, g)
    <3>1. Releases(s) = UNION {Release(u, g) : u \in Keyed(s), g \in Others}
      BY DEF Releases
    <3> HIDE DEF Release, Others
    <3> QED
      BY <1>3, <3>1
  <2>2. PICK ins \in Together(u, g), to \in Keys, price \in 0..1 :
           tx = callTx(ins, PayTo(u.value + g.value, to), g.address, <<>>, GasLimit, price)
    BY <2>1
  <2>3. \E a, b : ins = <<a, b>>
    BY <2>2 DEF Together
  <2>4. \E a, b, c, target, data, limit : tx = callTx(<<a, b>>, <<c>>, target, data, limit, price)
    BY <2>2, <2>3 DEF PayTo
  <2> QED
    BY <1>0, <2>4, ContractShaped
<1>4. ASSUME tx \in Calls(s) PROVE Shaped(tx) /\ tx.kind # "coinbase"
  <2>1. PICK u \in Keyed(s), c \in DOMAIN s.contracts :
           tx = callTx(<<Plain(u, u.address)>>, PayTo(u.value, u.address), c, <<>>, GasLimit, 1)
    BY <1>4 DEF Calls
  <2>2. \E a, b, target, data, limit, price : tx = callTx(<<a>>, <<b>>, target, data, limit, price)
    BY <2>1 DEF PayTo
  <2> QED
    BY <1>0, <2>2, ContractShaped
<1>5. tx \in Transfers(s) \/ tx \in Deployments(s) \/ tx \in Releases(s) \/ tx \in Calls(s)
  BY DEF Txs
<1> QED
  BY <1>1, <1>2, <1>3, <1>4, <1>5

\* A block lists a coinbase and the others.
BlockListed(block) ==
    /\ Listed(block.txs) /\ block.txs # <<>>

LEMMA ForeignListed ==
    ASSUME NEW block \in Foreign
    PROVE  BlockListed(block)
<1>1. \E time, extends, bits, claim, txs :
         /\ block = OthersBlock(time, extends, bits, claim, txs)
         /\ txs = <<>> \/ \E u : \E tx \in Tips(u) : txs = <<tx>>
  <2>1. CASE block \in Claims
    <3> DEFINE Bodies == {<<>>} \cup {<<tx>> : tx \in UNION {Tips(u) : u \in chainState.utxos}}
               By(claim, txs) == OthersBlock(MineTime, TRUE, nextBitsFor(blocks, height + 1), claim, txs)
    <3>0. Claims = {By(claim, txs) : claim \in -1..2, txs \in Bodies}
      BY DEF Claims
    <3>1. PICK claim \in -1..2, txs \in Bodies : block = By(claim, txs)
      <4> HIDE DEF By, Bodies
      <4> QED
        BY <2>1, <3>0
    <3>2. txs = <<>> \/ \E u : \E tx \in Tips(u) : txs = <<tx>>
      BY <3>1
    <3> QED
      BY <3>1, <3>2
  <2>2. CASE block \in Timings
    <3>1. \E time, extends, bits : block = OthersBlock(time, extends, bits, 0, <<>>)
      BY <2>2 DEF Timings
    <3> QED
      BY <3>1
  <2> QED
    BY <2>1, <2>2 DEF Foreign
<1>2. PICK time, extends, bits, claim, txs :
         /\ block = OthersBlock(time, extends, bits, claim, txs)
         /\ txs = <<>> \/ \E u : \E tx \in Tips(u) : txs = <<tx>>
  BY <1>1
<1> DEFINE cb == coinbaseTx(Miner, blockSubsidy(height + 1) + claim, height + 1)
<1>3. Shaped(cb)
  BY CoinbaseShaped
<1>4. block.txs = <<cb>> \o txs
  BY <1>2 DEF OthersBlock
<1> HIDE DEF cb
<1>5. Listed(txs)
  <2>1. CASE txs = <<>>
    BY <2>1, ListNone DEF Listed
  <2>2. ASSUME NEW u, NEW tx \in Tips(u), txs = <<tx>> PROVE Listed(txs)
    <3>1. \E a, b, lock : tx = transferTx(<<a>>, <<b>>, lock)
      BY DEF Tips
    <3>2. Shaped(tx)
      BY <3>1, TransferShaped
    <3>3. txs[1] = tx
      BY <2>2
    <3> QED
      BY <2>2, <3>2, <3>3, ListOne DEF Listed
  <2> QED
    BY <1>2, <2>1, <2>2
<1> QED
  BY <1>3, <1>4, <1>5, ListCons DEF BlockListed

LEMMA ListAdd ==
    ASSUME NEW list, list \in Seq(Range(list)), NEW e
    PROVE  LET all == Append(list, e)
           IN /\ all \in Seq(Range(all)) /\ Len(all) = Len(list) + 1 /\ Len(list) \in Nat
              /\ DOMAIN list = 1..Len(list) /\ DOMAIN all = 1..(Len(list) + 1)
              /\ all[Len(list) + 1] = e
              /\ \A n \in 1..Len(list) : all[n] = list[n]
<1> DEFINE S == Range(list)
           T == S \cup {e}
           all == Append(list, e)
<1>1. list \in Seq(S)
  OBVIOUS
<1> HIDE DEF S
<1>2. list \in Seq(T) /\ e \in T /\ S \subseteq T
  BY <1>1
<1> HIDE DEF T
<1>3. /\ all \in Seq(T) /\ Len(all) = Len(list) + 1 /\ Len(list) \in Nat
      /\ DOMAIN list = 1..Len(list) /\ DOMAIN all = 1..(Len(list) + 1)
      /\ all[Len(list) + 1] = e
      /\ \A n \in 1..Len(list) : all[n] = list[n]
  BY <1>2
<1> HIDE DEF all
<1>4. all \in Seq(Range(all))
  BY <1>3 DEF Range
<1> QED
  BY <1>3, <1>4 DEF all

LEMMA SaneLater ==
    ASSUME NEW h \in Nat, NEW J, NEW s, Sane(s, h, J)
    PROVE  Sane(s, h + 1, {})
<1>1. ASSUME NEW u \in s.utxos PROVE BornBy(u, h + 1, {})
  <2>1. PICK k \in 0..h, j \in Nat : (k = h => j \in J) /\ u.id[1] = <<k, j>>
    BY DEF Sane, BornBy
  <2>2. k \in 0..(h + 1) /\ k # h + 1
    OBVIOUS
  <2> QED
    BY <2>1, <2>2 DEF BornBy
<1> QED
  BY <1>1 DEF Sane

\* A block that is taken in adds its subsidy to what is issued, and its coinbase claims of
\* that and the fees what it does not forgo.
LEMMA BlockPromotes ==
    ASSUME SupplyInv, NEW block, BlockListed(block), NEW clock,
           Accepts(block, BodyOutcome(block), clock), Promote(block, BodyOutcome(block))
    PROVE  SupplyInv'
<1> DEFINE h == height + 1
           txs == Tail(block.txs)
           cb == Head(block.txs)
           res == ApplyAll(txs, chainState, h, block.time)
           out == applyCoinbase(cb, <<h, 0>>, res.state, h, res.fee)
           body == BodyOutcome(block)
<1>1. /\ h \in Nat /\ h = Len(blocks) /\ height \in Nat /\ height = Len(blocks) - 1
      /\ Sane(chainState, h, {}) /\ foregone \in Nat
      /\ Worth(chainState.utxos) + foregone = cumulativeIssuance(height)
  BY DEF SupplyInv, height
<1>2. /\ cb = block.txs[1] /\ Shaped(cb)
      /\ Len(txs) \in Nat /\ \A n \in 1..Len(txs) : Shaped(txs[n]) /\ txs[n].kind # "coinbase"
  <2> DEFINE all == block.txs
             S == Range(all)
  <2>1. all \in Seq(S) /\ all # <<>> /\ \A n \in DOMAIN all : Shaped(all[n])
    BY DEF BlockListed, Listed
  <2>2. \A n \in DOMAIN all : all[n].kind = "coinbase" <=> n = 1
    BY DEF Accepts, checkHeader
  <2> HIDE DEF all, S
  <2>3. /\ Len(all) \in Nat \ {0} /\ DOMAIN all = 1..Len(all)
        /\ Head(all) = all[1] /\ Len(Tail(all)) = Len(all) - 1
        /\ \A n \in 1..Len(Tail(all)) : Tail(all)[n] = all[n + 1]
    BY <2>1
  <2>4. ASSUME NEW n \in 1..Len(Tail(all))
        PROVE  Shaped(Tail(all)[n]) /\ Tail(all)[n].kind # "coinbase"
    <3>1. n + 1 \in DOMAIN all /\ n + 1 # 1
      BY <2>3
    <3> QED
      BY <2>1, <2>2, <2>3, <3>1
  <2>5. Shaped(Head(all)) /\ Len(Tail(all)) \in Nat
    BY <2>1, <2>3
  <2> QED
    BY <2>3, <2>4, <2>5 DEF all
<1> DEFINE J == 1..Len(txs)
<1> HIDE DEF txs, cb
<1>3. res.ok /\ out.ok /\ body.state = out.state /\ body.fee = res.fee
  <2>0. body = IF ~res.ok THEN res ELSE [out EXCEPT !.fee = res.fee]
    BY DEF BodyOutcome, txs, cb
  <2>1. body.ok
    BY DEF Accepts
  <2>2. res.ok
    <3> HIDE DEF res, body, out
    <3> QED
      BY <2>0, <2>1
  <2>3. out = [ok |-> out.ok, state |-> out.state, fee |-> out.fee, gas |-> out.gas]
    BY DEF applyCoinbase, Applied, Refused
  <2> HIDE DEF res, body, out
  <2> QED
    BY <2>0, <2>1, <2>2, <2>3
<1>4. Settles(res, chainState, h, J)
  <2>1. Balanced(res, chainState, h, Len(txs))
    BY <1>1, <1>2, BodyBalances
  <2> QED
    BY <1>3, <2>1 DEF Balanced
<1> HIDE DEF res
<1>5. 0 \notin J
  OBVIOUS
<1> HIDE DEF J, h
<1>6. /\ Sane(out.state, h, J \cup {0})
      /\ SumValue(cb.outs) \in Nat /\ SumValue(cb.outs) <= Allowed(h, res.fee)
      /\ Worth(res.state.utxos) \in Nat
      /\ Worth(out.state.utxos) = Worth(res.state.utxos) + SumValue(cb.outs)
  <2>1. Sane(res.state, h, J) /\ h \in Nat /\ Worth(res.state.utxos) \in Nat
    BY <1>1, <1>4 DEF Settles
  <2>2. applyCoinbase(cb, <<h, 0>>, res.state, h, res.fee).ok
    BY <1>3
  <2> DEFINE after == res.state
             fees == res.fee
  <2>3. Sane(after, h, J) /\ Shaped(cb) /\ applyCoinbase(cb, <<h, 0>>, after, h, fees).ok
    BY <1>2, <2>1, <2>2
  <2> HIDE DEF after, fees
  <2>4. Mints(applyCoinbase(cb, <<h, 0>>, after, h, fees), cb, after, h, fees, J \cup {0})
    BY <1>5, <2>1, <2>3, CoinbaseBalances
  <2>5. Mints(out, cb, res.state, h, res.fee, J \cup {0})
    BY <2>4 DEF after, fees
  <2> HIDE DEF out
  <2> QED
    BY <2>5 DEF Mints
<1>7. /\ cumulativeIssuance(height) \in Nat /\ blockSubsidy(h) \in Nat
      /\ cumulativeIssuance(h) = cumulativeIssuance(height) + blockSubsidy(h)
  BY <1>1, IssuanceStep DEF h
<1>8. /\ foregone' = foregone + blockSubsidy(h) + res.fee - SumValue(cb.outs)
      /\ chainState' = out.state
      /\ blocks' = Append(blocks, [time |-> block.time, bits |-> block.bits])
  <2>1. /\ foregone' = foregone + blockSubsidy(h) + body.fee - SumValue(cb.outs)
        /\ chainState' = body.state
        /\ blocks' = Append(blocks, [time |-> block.time, bits |-> block.bits])
    BY DEF Promote, h, cb
  <2> HIDE DEF body, out
  <2> QED
    BY <1>3, <2>1
<1> HIDE DEF out, body
<1>9. /\ blocks' \in Seq(Range(blocks')) /\ Len(blocks') = Len(blocks) + 1
      /\ Len(blocks') \in Nat \ {0} /\ height' = h
  <2>0. Len(blocks) \in Nat
    BY DEF SupplyInv
  <2>1. blocks' \in Seq(Range(blocks')) /\ Len(blocks') = Len(blocks) + 1
    BY <1>8, ListAdd DEF SupplyInv
  <2> QED
    BY <1>1, <2>0, <2>1 DEF height
<1>10. Sane(chainState', height' + 1, {})
  BY <1>1, <1>6, <1>8, <1>9, SaneLater
<1>11. foregone' \in Nat /\ Worth(chainState'.utxos) + foregone' = cumulativeIssuance(height')
  <2> DEFINE W0 == Worth(chainState.utxos)
             W1 == Worth(res.state.utxos)
             W2 == Worth(out.state.utxos)
             paid == SumValue(cb.outs)
             sub == blockSubsidy(h)
             c0 == cumulativeIssuance(height)
             c1 == cumulativeIssuance(h)
  <2>1. /\ W0 \in Nat /\ W1 \in Nat /\ paid \in Nat /\ sub \in Nat /\ c0 \in Nat /\ res.fee \in Nat
        /\ foregone \in Nat
        /\ W0 + foregone = c0 /\ W1 + res.fee = W0 /\ W2 = W1 + paid /\ c1 = c0 + sub
        /\ paid <= sub + res.fee /\ foregone' = foregone + sub + res.fee - paid
    BY <1>1, <1>4, <1>6, <1>7, <1>8 DEF Settles, Allowed
  <2>2. chainState'.utxos = out.state.utxos
    BY <1>8
  <2> HIDE DEF W0, W1, W2, paid, sub, c0, c1
  <2>3. foregone' \in Nat /\ W2 + foregone' = c1
    BY <2>1
  <2> QED
    BY <1>9, <2>2, <2>3 DEF W2, c1
<1> QED
  BY <1>9, <1>10, <1>11 DEF SupplyInv

LEMMA LedgerInit == BlockchainInit => LedgerInv
<1> SUFFICES ASSUME BlockchainInit PROVE LedgerInv
  OBVIOUS
<1> DEFINE cb == coinbaseTx(Miner, blockSubsidy(0), 0)
<1>1. Shaped(cb)
  BY CoinbaseShaped
<1>2. cb.outs = <<TxOutput(blockSubsidy(0), Miner, p2pkh)>> /\ DOMAIN cb.outs = {1}
  BY ListOne DEF coinbaseTx
<1>3. cb.outs[1].value = blockSubsidy(0) /\ blockSubsidy(0) \in Nat
  BY <1>2, IssuanceStart DEF TxOutput
<1> HIDE DEF cb
<1>4. SumValue(cb.outs) = blockSubsidy(0)
  <2> DEFINE f == [i \in DOMAIN cb.outs |-> cb.outs[i].value]
  <2>1. NatOn(f, {1}) /\ f[1] = blockSubsidy(0) /\ IsFiniteSet({1})
    BY <1>2, <1>3, FS_Singleton DEF NatOn
  <2>2. SumValue(cb.outs) = SumFunctionOnSet(f, {1})
    BY <1>2 DEF SumValue
  <2>3. f[1] = blockSubsidy(0) /\ {} \cup {1} = {1} /\ IsFiniteSet({}) /\ 1 \notin {}
    BY <2>1, FS_EmptySet
  <2> HIDE DEF f
  <2>4. SumFunctionOnSet(f, {} \cup {1}) = SumFunctionOnSet(f, {}) + f[1]
    BY <2>1, <2>3, SumMore
  <2> QED
    BY <1>3, <2>2, <2>3, <2>4, SumNone
<1> DEFINE made == Created(cb, <<0, 0>>, 0)
<1>5. /\ Valued(made) /\ Worth(made) = SumValue(cb.outs)
      /\ \A u, v \in made : u.id = v.id => u = v
      /\ \A u \in made : u.id[1] = <<0, 0>>
  BY <1>1, <1>2, <1>3, CreatedNew
<1> HIDE DEF made
<1>6. chainState = [utxos |-> made, contracts |-> <<>>, nonces |-> <<>>]
  BY DEF BlockchainInit, cb, made
<1>7. Len(blocks) = 1 /\ blocks \in Seq(Range(blocks)) /\ height = 0
  BY ListOne DEF BlockchainInit, height
<1>8. Sane(chainState, height + 1, {})
  <2>1. \A u \in made : BornBy(u, 1, {})
    <3>1. 0 \in 0..1 /\ 0 # 1
      OBVIOUS
    <3> QED
      BY <1>5, <3>1 DEF BornBy
  <2>2. height + 1 = 1
    BY <1>7
  <2> QED
    BY <1>5, <1>6, <2>1, <2>2 DEF Sane
<1>9. Worth(chainState.utxos) + foregone = cumulativeIssuance(height) /\ foregone \in Nat
  <2>1. Worth(chainState.utxos) = blockSubsidy(0) /\ foregone = 0
    BY <1>4, <1>5, <1>6 DEF BlockchainInit
  <2> QED
    BY <1>3, <1>7, <2>1, IssuanceStart
<1>10. draft = None
  BY DEF BlockchainInit
<1> QED
  BY <1>7, <1>8, <1>9, <1>10 DEF LedgerInv, SupplyInv, DraftListed

LEMMA LedgerNext == LedgerInv /\ [BlockchainNext]_blockchainVars => LedgerInv'
<1> SUFFICES ASSUME LedgerInv, [BlockchainNext]_blockchainVars PROVE LedgerInv'
  OBVIOUS
<1>0. SupplyInv /\ DraftListed
  BY DEF LedgerInv
<1>k. ASSUME UNCHANGED <<blocks, chainState, foregone>> PROVE SupplyInv'
  BY <1>0, <1>k DEF SupplyInv, height
<1>1. CASE \E time \in {None} \cup FixedTimes : BeginMine(time)
  <2>1. PICK time : /\ draft' = [time |-> time, txs |-> <<>>, state |-> chainState, fees |-> 0, gas |-> 0]
                    /\ UNCHANGED <<blocks, chainState, foregone>>
    BY <1>1 DEF BeginMine
  <2>2. /\ draft' = [time |-> draft'.time, txs |-> draft'.txs, state |-> draft'.state,
                     fees |-> draft'.fees, gas |-> draft'.gas]
        /\ draft'.txs = <<>>
    BY <2>1
  <2>3. DraftListed'
    BY <2>2, ListNone DEF DraftListed, Listed
  <2> QED
    BY <1>k, <2>1, <2>3 DEF LedgerInv
<1>2. ASSUME NEW tx \in Txs(draft.state), Offer(tx), draft # None PROVE LedgerInv'
  <2>1. Shaped(tx) /\ tx.kind # "coinbase"
    BY OfferedShaped
  <2>2. UNCHANGED <<blocks, chainState, foregone>>
    BY <1>2 DEF Offer
  <2>3. \/ UNCHANGED draft
        \/ /\ draft'.txs = Append(draft.txs, tx)
           /\ draft' = [time |-> draft'.time, txs |-> draft'.txs, state |-> draft'.state,
                        fees |-> draft'.fees, gas |-> draft'.gas]
    <3>1. draft = [time |-> draft.time, txs |-> draft.txs, state |-> draft.state,
                   fees |-> draft.fees, gas |-> draft.gas]
      BY <1>0, <1>2 DEF DraftListed
    <3>2. \/ \E res : draft' = [draft EXCEPT !.txs = Append(@, tx), !.state = res.state,
                                             !.fees = @ + res.fee, !.gas = @ + res.gas]
          \/ UNCHANGED draft
      BY <1>2 DEF Offer
    <3> QED
      BY <3>1, <3>2
  <2>4. CASE UNCHANGED draft
    BY <1>0, <1>k, <2>2, <2>4 DEF LedgerInv, DraftListed
  <2>5. CASE ~UNCHANGED draft
    <3> DEFINE old == draft.txs
               new == draft'.txs
    <3>1. Listed(old) /\ \A n \in DOMAIN old : old[n].kind # "coinbase"
      BY <1>0, <1>2 DEF DraftListed
    <3>2. new = Append(old, tx)
      BY <2>3, <2>5
    <3> HIDE DEF old, new
    <3>3. /\ new \in Seq(Range(new)) /\ Len(old) \in Nat
          /\ DOMAIN old = 1..Len(old) /\ DOMAIN new = 1..(Len(old) + 1)
          /\ new[Len(old) + 1] = tx /\ \A n \in 1..Len(old) : new[n] = old[n]
      BY <3>1, <3>2, ListAdd DEF Listed
    <3>4. \A n \in DOMAIN new : Shaped(new[n]) /\ new[n].kind # "coinbase"
      BY <2>1, <3>1, <3>3 DEF Listed
    <3>5. Listed(new)
      BY <3>3, <3>4 DEF Listed
    <3>6. DraftListed'
      BY <2>3, <2>5, <3>4, <3>5 DEF DraftListed, new
    <3> QED
      BY <1>k, <2>2, <3>6 DEF LedgerInv
  <2> QED
    BY <2>4, <2>5
<1>3. CASE Seal
  <2>1. draft' = None /\ draft # None
    BY <1>3 DEF Seal
  <2>2. BlockListed(Own)
    <3> DEFINE cb == coinbaseTx(Miner, blockSubsidy(height + 1) + draft.fees, height + 1)
    <3>1. Own.txs = <<cb>> \o draft.txs
      BY DEF Own
    <3>2. Shaped(cb)
      BY CoinbaseShaped
    <3> HIDE DEF cb
    <3> QED
      BY <1>0, <2>1, <3>1, <3>2, ListCons DEF DraftListed, BlockListed
  <2>3. \/ Accepts(Own, BodyOutcome(Own), draft.time + 1) /\ Promote(Own, BodyOutcome(Own))
        \/ UNCHANGED <<blocks, chainState, foregone>>
    BY <1>3 DEF Seal
  <2>4. SupplyInv'
    BY <1>0, <1>k, <2>2, <2>3, BlockPromotes
  <2> QED
    BY <2>1, <2>4 DEF LedgerInv, DraftListed
<1>4. ASSUME NEW block \in Foreign, AddBlock(block) PROVE LedgerInv'
  <2>1. UNCHANGED draft
    BY <1>4 DEF AddBlock
  <2>2. Accepts(block, BodyOutcome(block), now) /\ Promote(block, BodyOutcome(block))
    BY <1>4 DEF AddBlock
  <2>3. SupplyInv'
    BY <1>0, <2>2, ForeignListed, BlockPromotes
  <2> QED
    BY <1>0, <2>1, <2>3 DEF LedgerInv, DraftListed
<1>5. CASE Tick
  BY <1>0, <1>k, <1>5 DEF Tick, LedgerInv, DraftListed
<1>6. CASE UNCHANGED blockchainVars
  BY <1>0, <1>k, <1>6 DEF blockchainVars, LedgerInv, DraftListed
<1> QED
  BY <1>1, <1>2, <1>3, <1>4, <1>5, <1>6 DEF BlockchainNext

LEMMA SupplyFollows == LedgerInv => SupplyBalanced
<1> SUFFICES ASSUME LedgerInv PROVE SupplyBalanced
  OBVIOUS
<1>1. /\ Worth(chainState.utxos) + foregone = cumulativeIssuance(height)
      /\ foregone \in Nat /\ Valued(chainState.utxos) /\ height \in Nat
  BY DEF LedgerInv, SupplyInv, Sane, height
<1>2. Worth(chainState.utxos) \in Nat
  BY <1>1, WorthNat
<1>3. supply = Worth(chainState.utxos)
  BY DEF supply, Worth
<1> QED
  BY <1>1, <1>2, <1>3 DEF SupplyBalanced

\* Of every chain of blocks, whoever made them: the coins on it are worth what has been
\* issued up to its height, less what its miners were allowed and did not claim.
THEOREM LedgerBalances == BlockchainSpec => []SupplyBalanced
<1>1. BlockchainSpec => []LedgerInv
  BY LedgerInit, LedgerNext, PTL DEF BlockchainSpec
<1> QED
  BY <1>1, SupplyFollows, PTL

----------------------------------------------------------------------------
(***************************************************************************)
(* Locks.  Scripts and heights are numbers on every coin of every state,   *)
(* so that the halves of a lock, the transaction against the script and    *)
(* the height against the transaction, add up; every contract on the chain *)
(* is the guard, with a storage its code keeps to.                         *)
(***************************************************************************)
\* Scripts wait for numbers of blocks; an address is somebody's or a contract's.
Timed(script) ==
    /\ script.type = "htlc" => script.timeout \in Nat
    /\ script.type = "revocable" => script.delay \in Nat
Known(a) == a \in People \/ isContractAddress(a)
CoinsKnown(U) == \A u \in U : Timed(u.script) /\ u.height \in Nat /\ Known(u.address)
OutsKnown(outs) == \A i \in DOMAIN outs : Timed(outs[i].script) /\ Known(outs[i].address)

\* What the theorem assumes of the guard's code, over the storages it keeps.
GuardObeys(kept) ==
    /\ <<>> \in kept /\ BeneficiaryTold
    /\ \A storage \in kept : \A ctx :
          ctx.calldata = <<>> /\ ctx.gasLimit = GasLimit /\ ctx.blockNumber \in Nat =>
              GuardAnswers(ctx, storage, kept)

\* Every contract is the guard, with a storage it keeps.
GuardAccount(a, kept) ==
    /\ a = [code |-> a.code, storage |-> a.storage, deployedAt |-> a.deployedAt,
            deployer |-> a.deployer]
    /\ a.code = Guard.code /\ a.storage \in kept
Guards(contracts, kept) == \A c \in DOMAIN contracts : GuardAccount(contracts[c], kept)

Orderly(s, kept) ==
    /\ s = [utxos |-> s.utxos, contracts |-> s.contracts, nonces |-> s.nonces]
    /\ CoinsKnown(s.utxos)
    /\ GuardObeys(kept) => Guards(s.contracts, kept)

\* Transactions made by the environment.
Made(tx) ==
    /\ OutsKnown(tx.outs)
    /\ tx.lockTime \in Nat /\ \A i \in DOMAIN tx.ins : tx.ins[i].sequence \in Nat
    /\ tx.kind \in {"transfer", "deploy", "call"}
    /\ tx.kind # "transfer" => tx.contract.gasLimit = GasLimit /\ tx.contract.calldata = <<>>
    /\ tx.kind = "deploy" => tx.contract.code = Guard.code
    /\ tx.kind = "call" => \A i \in DOMAIN tx.outs : tx.outs[i].address \in People

LEMMA CreatedKnown ==
    ASSUME NEW tx, OutsKnown(tx.outs), NEW id, NEW h \in Nat
    PROVE  CoinsKnown(Created(tx, id, h))
<1> SUFFICES ASSUME NEW u \in Created(tx, id, h)
             PROVE  Timed(u.script) /\ u.height \in Nat /\ Known(u.address)
  BY DEF CoinsKnown
<1>1. PICK i \in DOMAIN tx.outs :
        u = [id |-> <<id, i>>, value |-> tx.outs[i].value, address |-> tx.outs[i].address,
             script |-> tx.outs[i].script, height |-> h, coinbase |-> tx.kind = "coinbase"]
  BY DEF Created
<1>2. u.script = tx.outs[i].script /\ u.address = tx.outs[i].address /\ u.height = h
  BY <1>1
<1> QED
  BY <1>2 DEF OutsKnown

\* The coins an accepted transaction spends are there.
LEMMA PrevsThere ==
    ASSUME NEW tx, NEW s, Present(tx, s)
    PROVE  /\ DOMAIN Prevs(tx, s) = DOMAIN tx.ins
           /\ \A i \in DOMAIN tx.ins : Prevs(tx, s)[i] \in s.utxos
<1>1. DOMAIN Prevs(tx, s) = DOMAIN tx.ins
  BY DEF Prevs
<1>2. ASSUME NEW i \in DOMAIN tx.ins PROVE Prevs(tx, s)[i] \in s.utxos
  <2>1. Unspent(s, tx.ins[i].coin) # {}
    BY DEF Present
  <2>2. Prevs(tx, s)[i] = CHOOSE u \in Unspent(s, tx.ins[i].coin) : TRUE
    BY DEF Prevs
  <2>3. Prevs(tx, s)[i] \in Unspent(s, tx.ins[i].coin)
    BY <2>1, <2>2
  <2> QED
    BY <2>3 DEF Unspent
<1> QED
  BY <1>1, <1>2

\* And its contract, if it has one, went through.
LEMMA AppliedRuns ==
    ASSUME NEW tx, NEW id, NEW s, NEW h, NEW time, applyTx(tx, id, s, h, time).ok,
           tx.kind # "transfer"
    PROVE  LET prevs == Prevs(tx, s)
               vm == Run(tx, prevs, s, h, time)
           IN /\ Installable(tx, prevs, s)
              /\ vm.status = "done" /\ CovenantAllows(tx, prevs, vm.ret)
              /\ applyTx(tx, id, s, h, time).gas = vm.gas
              /\ applyTx(tx, id, s, h, time).state
                   = Moved(tx, id, prevs, Installed(tx, prevs, s, vm.storage, h), h)
<1> DEFINE prevs == Prevs(tx, s)
           vm == Run(tx, prevs, s, h, time)
<1>1. ~Refused(s).ok
  BY DEF Refused
<1>2. Present(tx, s) /\ Movable(tx, prevs, h)
  BY AppliedMoves
<1>3. Installable(tx, prevs, s)
  BY <1>1, <1>2 DEF applyTx
<1>4. applyTx(tx, id, s, h, time) = AfterRun(tx, id, prevs, s, vm, h)
  BY <1>2, <1>3 DEF applyTx
<1> HIDE DEF vm, prevs
<1>5. /\ vm.status = "done" /\ CovenantAllows(tx, prevs, vm.ret)
      /\ AfterRun(tx, id, prevs, s, vm, h)
           = Applied(Moved(tx, id, prevs, Installed(tx, prevs, s, vm.storage, h), h),
                     Fee(tx, prevs), vm.gas)
  BY <1>1, <1>4 DEF AfterRun
<1>6. /\ applyTx(tx, id, s, h, time).gas = vm.gas
      /\ applyTx(tx, id, s, h, time).state
           = Moved(tx, id, prevs, Installed(tx, prevs, s, vm.storage, h), h)
  BY <1>4, <1>5 DEF Applied
<1> QED
  BY <1>3, <1>5, <1>6 DEF vm, prevs

\* A run of the guard's code on a storage it keeps.
LEMMA RunObeys ==
    ASSUME NEW kept, GuardObeys(kept), NEW s, Guards(s.contracts, kept), NEW tx, Made(tx),
           tx.kind # "transfer", NEW prevs, Installable(tx, prevs, s), NEW h \in Nat, NEW time
    PROVE  LET vm == Run(tx, prevs, s, h, time)
           IN vm.status = "done" =>
                /\ vm.storage \in kept /\ vm.gas \in Nat
                /\ Len(vm.ret) > 0 /\ vm.ret[1] # 0 =>
                     /\ h >= Guard.height
                     /\ Len(vm.ret) > 1 /\ vm.ret[2] = AddressWord(Guard.beneficiary)
<1> DEFINE target == Target(tx, prevs)
           storage == IF tx.kind = "deploy" THEN <<>> ELSE s.contracts[target].storage
           worth == SumValue(SelectSeq(tx.outs, LAMBDA o : o.address = target))
           ctx == [address |-> target, caller |-> Caller(prevs), callValue |-> worth,
                   calldata |-> tx.contract.calldata, blockNumber |-> h, blockTime |-> time,
                   gasLimit |-> tx.contract.gasLimit, balance |-> balanceOf(s, target)]
           code == IF tx.kind = "deploy" THEN tx.contract.code ELSE s.contracts[target].code
<1>1. code = Guard.code /\ storage \in kept
  BY DEF Made, Installable, GuardObeys, Guards, GuardAccount
<1>2. Run(tx, prevs, s, h, time) = Executed(code, ctx, Start(code, ctx, storage))
  BY DEF Run
<1>3. ctx.calldata = <<>> /\ ctx.gasLimit = GasLimit /\ ctx.blockNumber = h
  <2> HIDE DEF worth, target
  <2> QED
    BY DEF Made
<1> HIDE DEF ctx, storage, code
<1>4. GuardAnswers(ctx, storage, kept)
  BY <1>1, <1>3 DEF GuardObeys
<1> QED
  BY <1>1, <1>2, <1>3, <1>4 DEF GuardAnswers

\* A contract's account after a run is the guard's again.
LEMMA InstalledGuards ==
    ASSUME NEW kept, NEW s, NEW tx, Made(tx), tx.kind # "transfer", NEW prevs,
           Installable(tx, prevs, s), NEW h, NEW storage \in kept,
           s = [utxos |-> s.utxos, contracts |-> s.contracts, nonces |-> s.nonces],
           Guards(s.contracts, kept)
    PROVE  Guards(Installed(tx, prevs, s, storage, h).contracts, kept)
<1> DEFINE target == Target(tx, prevs)
           old == s.contracts
<1>1. CASE tx.kind = "deploy"
  <2> DEFINE by == Caller(prevs)
             a == [code |-> tx.contract.code, storage |-> storage, deployedAt |-> h,
                   deployer |-> by]
             new == [c \in DOMAIN old \cup {target} |-> IF c = target THEN a ELSE old[c]]
             m == [c \in DOMAIN s.nonces \cup {by} |->
                     IF c = by THEN nonceOf(s, by) + 1 ELSE s.nonces[c]]
  <2>1. Installed(tx, prevs, s, storage, h) = [s EXCEPT !.contracts = new, !.nonces = m]
    BY <1>1 DEF Installed
  <2>2. GuardAccount(a, kept)
    BY <1>1 DEF GuardAccount, Made
  <2> HIDE DEF a, m
  <2>3. /\ DOMAIN new = DOMAIN old \cup {target}
        /\ \A c \in DOMAIN new : new[c] = IF c = target THEN a ELSE old[c]
    OBVIOUS
  <2> HIDE DEF new
  <2>4. Guards(new, kept)
    BY <2>2, <2>3 DEF Guards
  <2>5. Installed(tx, prevs, s, storage, h).contracts = new
    BY <2>1
  <2> QED
    BY <2>4, <2>5
<1>2. CASE tx.kind # "deploy"
  <2> DEFINE new == [old EXCEPT ![target].storage = storage]
  <2>1. Installed(tx, prevs, s, storage, h) = [s EXCEPT !.contracts = new]
    BY <1>2 DEF Installed
  <2>2. target \in DOMAIN old
    BY <1>2 DEF Installable
  <2>3. GuardAccount(old[target], kept)
    BY <2>2 DEF Guards
  <2> HIDE DEF target, old
  <2>4. /\ DOMAIN new = DOMAIN old
        /\ \A c \in DOMAIN old : c # target => new[c] = old[c]
        /\ new[target] = [old[target] EXCEPT !.storage = storage]
    BY <2>2
  <2>5. GuardAccount(new[target], kept)
    <3> DEFINE a == old[target]
               b == new[target]
    <3>1. /\ a = [code |-> a.code, storage |-> a.storage, deployedAt |-> a.deployedAt,
                  deployer |-> a.deployer]
          /\ a.code = Guard.code /\ b = [a EXCEPT !.storage = storage]
      BY <2>3, <2>4 DEF GuardAccount
    <3> HIDE DEF a, b
    <3>2. /\ b = [code |-> a.code, storage |-> storage, deployedAt |-> a.deployedAt,
                  deployer |-> a.deployer]
      BY <3>1
    <3>3. GuardAccount(b, kept)
      BY <3>1, <3>2 DEF GuardAccount
    <3> QED
      BY <3>3 DEF b
  <2>6. \A c \in DOMAIN new : GuardAccount(new[c], kept)
    BY <2>4, <2>5 DEF Guards, old
  <2> HIDE DEF new
  <2>7. Guards(new, kept)
    BY <2>6 DEF Guards
  <2>8. Installed(tx, prevs, s, storage, h).contracts = new
    BY <2>1
  <2> QED
    BY <2>7, <2>8
<1> QED
  BY <1>1, <1>2

LEMMA ApplyOrderly ==
    ASSUME NEW kept, NEW s, Orderly(s, kept), NEW tx, Made(tx), NEW id, NEW h \in Nat, NEW time,
           applyTx(tx, id, s, h, time).ok
    PROVE  Orderly(applyTx(tx, id, s, h, time).state, kept)
<1> DEFINE prevs == Prevs(tx, s)
           res == applyTx(tx, id, s, h, time)
           made == Created(tx, id, h)
<1>1. /\ s = [utxos |-> s.utxos, contracts |-> s.contracts, nonces |-> s.nonces]
      /\ CoinsKnown(s.utxos)
      /\ GuardObeys(kept) => Guards(s.contracts, kept)
  BY DEF Orderly
<1>2. CoinsKnown(made)
  BY CreatedKnown DEF Made
<1> HIDE DEF made
<1>3. CoinsKnown((s.utxos \ Range(prevs)) \cup made)
  <2> HIDE DEF prevs
  <2> QED
    BY <1>1, <1>2 DEF CoinsKnown
<1>4. CASE tx.kind = "transfer"
  <2>1. Present(tx, s) /\ Movable(tx, prevs, h)
    BY AppliedMoves
  <2>2. res.state = [s EXCEPT !.utxos = (@ \ Range(prevs)) \cup made]
    BY <1>4, <2>1 DEF applyTx, Applied, Moved, made
  <2> HIDE DEF res, prevs
  <2>3. /\ res.state = [utxos |-> (s.utxos \ Range(prevs)) \cup made, contracts |-> s.contracts,
                        nonces |-> s.nonces]
    BY <1>1, <2>2
  <2> DEFINE coins == (s.utxos \ Range(prevs)) \cup made
  <2> HIDE DEF coins
  <2>4. /\ res.state = [utxos |-> res.state.utxos, contracts |-> res.state.contracts,
                        nonces |-> res.state.nonces]
        /\ res.state.utxos = coins /\ res.state.contracts = s.contracts
    BY <2>3 DEF coins
  <2> QED
    BY <1>1, <1>3, <2>4 DEF Orderly, res, coins
<1>5. CASE tx.kind # "transfer"
  <2> DEFINE vm == Run(tx, prevs, s, h, time)
             t == Installed(tx, prevs, s, vm.storage, h)
  <2>1. /\ Installable(tx, prevs, s) /\ vm.status = "done"
        /\ res.state = Moved(tx, id, prevs, t, h)
    BY <1>5, AppliedRuns
  <2>2. ASSUME GuardObeys(kept) PROVE Guards(t.contracts, kept)
    <3>1. vm.storage \in kept
      BY <1>1, <1>5, <2>1, <2>2, RunObeys
    <3> HIDE DEF vm, prevs
    <3> QED
      BY <1>1, <1>5, <2>1, <2>2, <3>1, InstalledGuards
  <2> HIDE DEF vm, prevs, res
  <2>3. t.utxos = s.utxos /\ t = [utxos |-> t.utxos, contracts |-> t.contracts, nonces |-> t.nonces]
    BY <1>1, InstalledKeepsCoins
  <2> HIDE DEF t
  <2> DEFINE coins == (s.utxos \ Range(prevs)) \cup made
  <2>4. res.state = [t EXCEPT !.utxos = coins]
    BY <2>1, <2>3 DEF Moved, made
  <2> HIDE DEF coins
  <2>5. /\ res.state = [utxos |-> res.state.utxos, contracts |-> res.state.contracts,
                        nonces |-> res.state.nonces]
        /\ res.state.utxos = coins /\ res.state.contracts = t.contracts
    BY <2>3, <2>4
  <2> QED
    BY <1>3, <2>2, <2>5 DEF Orderly, res, coins
<1> QED
  BY <1>4, <1>5

LEMMA BodyOrderly ==
    ASSUME NEW kept, NEW txs, Len(txs) \in Nat, NEW h \in Nat, NEW s, Orderly(s, kept), NEW time,
           \A n \in 1..Len(txs) : Made(txs[n])
    PROVE  LET res == ApplyAll(txs, s, h, time) IN res.ok => Orderly(res.state, kept)
<1> DEFINE N == Len(txs)
<1>1. PICK acc : Outcomes(acc, txs, N, s, h, time) /\ ApplyAll(txs, s, h, time) = acc[N]
  BY ApplyAllRuns
<1> DEFINE P == {n \in Nat : n <= N /\ acc[n].ok => Orderly(acc[n].state, kept)}
<1>2. 0 \in P
  <2>1. acc[0].state = s
    BY <1>1 DEF Outcomes, Applied
  <2> QED
    BY <2>1
<1>3. ASSUME NEW n \in Nat, n \in P PROVE n + 1 \in P
  <2> SUFFICES ASSUME n + 1 <= N, acc[n + 1].ok PROVE Orderly(acc[n + 1].state, kept)
    OBVIOUS
  <2> DEFINE old == acc[n]
             tx == txs[n + 1]
             res == applyTx(tx, <<h, n + 1>>, old.state, h, time)
             good == res.ok /\ old.gas + res.gas <= BLOCK_GAS_LIMIT
             fee == old.fee + res.fee
             gas == old.gas + res.gas
  <2>1. n + 1 \in 1..N /\ (n + 1) - 1 = n /\ n <= N
    OBVIOUS
  <2>2. acc[n + 1] = ApplyNext(txs, n + 1, old, h, time)
    BY <1>1, <2>1 DEF Outcomes
  <2>3. acc[n + 1] = IF ~old.ok THEN old
                     ELSE [ok |-> good, state |-> res.state, fee |-> fee, gas |-> gas]
    BY <2>2 DEF ApplyNext, Joined
  <2> HIDE DEF good, fee, gas, res
  <2>4. old.ok
    BY <2>3
  <2>5. good /\ acc[n + 1].state = res.state
    BY <2>3, <2>4
  <2>6. Orderly(old.state, kept)
    BY <1>3, <2>1, <2>4
  <2>7. Made(tx)
    BY <2>1
  <2> HIDE DEF old, tx
  <2>8. res.ok
    BY <2>5 DEF good
  <2>9. Orderly(res.state, kept)
    BY <2>6, <2>7, <2>8, ApplyOrderly DEF res
  <2> QED
    BY <2>5, <2>9
<1>4. N \in P
  <2> HIDE DEF P
  <2> QED
    BY <1>2, <1>3, NatClosure
<1> QED
  BY <1>1, <1>4

\* What is mined is paid to the miner.
LEMMA CoinbaseKnown ==
    ASSUME NEW value, NEW at
    PROVE  OutsKnown(coinbaseTx(Miner, value, at).outs)
<1> DEFINE o == TxOutput(value, Miner, p2pkh)
<1>1. o.script = p2pkh /\ o.address = Miner
  BY DEF TxOutput
<1>2. Timed(p2pkh) /\ Known(Miner)
  BY DEF Timed, p2pkh, Known, People
<1> HIDE DEF o
<1>3. coinbaseTx(Miner, value, at).outs = <<o>>
  BY DEF coinbaseTx, o
<1>4. DOMAIN <<o>> = {1} /\ <<o>>[1] = o
  BY ListOne
<1> QED
  BY <1>1, <1>2, <1>3, <1>4 DEF OutsKnown

LEMMA CoinbaseOrderly ==
    ASSUME NEW kept, NEW s, Orderly(s, kept), NEW cb, OutsKnown(cb.outs), NEW id, NEW h \in Nat,
           NEW fees, applyCoinbase(cb, id, s, h, fees).ok
    PROVE  Orderly(applyCoinbase(cb, id, s, h, fees).state, kept)
<1> DEFINE made == Created(cb, id, h)
           t == applyCoinbase(cb, id, s, h, fees).state
<1>1. t = [s EXCEPT !.utxos = @ \cup made]
  BY DEF applyCoinbase, Refused, Applied
<1>2. CoinsKnown(made)
  BY CreatedKnown
<1> HIDE DEF made, t
<1>3. /\ s = [utxos |-> s.utxos, contracts |-> s.contracts, nonces |-> s.nonces]
      /\ CoinsKnown(s.utxos)
      /\ GuardObeys(kept) => Guards(s.contracts, kept)
  BY DEF Orderly
<1>4. /\ t = [utxos |-> t.utxos, contracts |-> t.contracts, nonces |-> t.nonces]
      /\ t.utxos = s.utxos \cup made /\ t.contracts = s.contracts
  BY <1>1, <1>3
<1>5. CoinsKnown(t.utxos)
  BY <1>2, <1>3, <1>4 DEF CoinsKnown
<1> QED
  BY <1>3, <1>4, <1>5 DEF Orderly, t

\* The environment makes transactions as said.
LEMMA TransferMade ==
    ASSUME NEW input, input.sequence \in Nat, NEW out, Timed(out.script), Known(out.address),
           NEW lock \in Nat
    PROVE  Made(transferTx(<<input>>, <<out>>, lock))
<1> DEFINE tx == transferTx(<<input>>, <<out>>, lock)
<1>1. DOMAIN <<input>> = {1} /\ DOMAIN <<out>> = {1} /\ <<input>>[1] = input /\ <<out>>[1] = out
  BY ListOne
<1>2. tx.ins = <<input>> /\ tx.outs = <<out>> /\ tx.lockTime = lock /\ tx.kind = "transfer"
  BY DEF transferTx
<1> HIDE DEF tx
<1> QED
  BY <1>1, <1>2 DEF Made, OutsKnown, tx

LEMMA ContractMade ==
    ASSUME NEW ins, \A i \in DOMAIN ins : ins[i].sequence \in Nat, NEW out, Timed(out.script)
    PROVE  /\ \A price, nonce : Known(out.address) =>
                 Made(deployTx(ins, <<out>>, Guard.code, GasLimit, price, nonce))
           /\ \A target, price : out.address \in People =>
                 Made(callTx(ins, <<out>>, target, <<>>, GasLimit, price))
<1>1. DOMAIN <<out>> = {1} /\ <<out>>[1] = out
  BY ListOne
<1>2. ASSUME NEW price, NEW nonce, Known(out.address)
      PROVE  Made(deployTx(ins, <<out>>, Guard.code, GasLimit, price, nonce))
  <2> DEFINE tx == deployTx(ins, <<out>>, Guard.code, GasLimit, price, nonce)
  <2>1. /\ tx.ins = ins /\ tx.outs = <<out>> /\ tx.lockTime = 0 /\ tx.kind = "deploy"
        /\ tx.contract.gasLimit = GasLimit /\ tx.contract.calldata = <<>>
        /\ tx.contract.code = Guard.code
    BY DEF deployTx, transferTx
  <2> HIDE DEF tx
  <2> QED
    BY <1>1, <1>2, <2>1 DEF Made, OutsKnown, tx
<1>3. ASSUME NEW target, NEW price, out.address \in People
      PROVE  Made(callTx(ins, <<out>>, target, <<>>, GasLimit, price))
  <2> DEFINE tx == callTx(ins, <<out>>, target, <<>>, GasLimit, price)
  <2>1. /\ tx.ins = ins /\ tx.outs = <<out>> /\ tx.lockTime = 0 /\ tx.kind = "call"
        /\ tx.contract.gasLimit = GasLimit /\ tx.contract.calldata = <<>>
    BY DEF callTx, transferTx
  <2> HIDE DEF tx
  <2> QED
    BY <1>1, <1>3, <2>1 DEF Made, OutsKnown, Known, tx
<1> QED
  BY <1>2, <1>3

LEMMA PlainMade ==
    /\ \A u, key : Plain(u, key).sequence \in Nat
    /\ \A a, b : \A i \in DOMAIN <<a, b>> : <<a, b>>[i] = a \/ <<a, b>>[i] = b
    /\ Timed(p2pkh)
<1>1. \A u, key : Plain(u, key).sequence = SequenceFinal
  BY DEF Plain, TxInput
<1>2. \A a, b : \A i \in DOMAIN <<a, b>> : <<a, b>>[i] = a \/ <<a, b>>[i] = b
  OBVIOUS
<1>3. Timed(p2pkh)
  BY DEF Timed, p2pkh
<1> QED
  BY <1>1, <1>2, <1>3, TransitionConstants

LEMMA OfferedMade ==
    ASSUME NEW s, CoinsKnown(s.utxos), NEW tx \in Txs(s)
    PROVE  Made(tx)
<1> DEFINE Paid(value, to) == TxOutput(value - GasLimit, to, p2pkh)
<1>0. /\ \A value, to : PayTo(value, to) = <<Paid(value, to)>>
      /\ \A value, to : Paid(value, to).address = to /\ Paid(value, to).script = p2pkh
  BY DEF PayTo, TxOutput
<1> HIDE DEF Paid
<1>a. ASSUME NEW u \in Keyed(s) PROVE u.address \in People
  BY DEF Keyed, CoinsKnown, Known
<1>1. ASSUME tx \in Transfers(s) PROVE Made(tx)
  <2> DEFINE Out(u, payee, fee) == TxOutput(u.value - fee, payee.address, payee.script)
             Locked(u) == IF u.script.type = "htlc" THEN Locks ELSE {0}
             Spending(u) == {transferTx(<<input>>, <<Out(u, payee, fee)>>, lock) :
                               input \in Inputs(u), payee \in Payees, fee \in Fees, lock \in Locked(u)}
  <2>1. Transfers(s) = UNION {Spending(u) : u \in s.utxos}
    BY DEF Transfers
  <2>2. PICK u \in s.utxos : tx \in Spending(u)
    <3> HIDE DEF Spending
    <3> QED
      BY <1>1, <2>1
  <2>3. PICK input \in Inputs(u), payee \in Payees, fee \in Fees, lock \in Locked(u) :
           tx = transferTx(<<input>>, <<Out(u, payee, fee)>>, lock)
    <3> HIDE DEF Out, Locked
    <3> QED
      BY <2>2
  <2>4. input.sequence \in Nat
    <3>1. \E key, cosign, opening :
            \E sequence \in IF u.script.type = "revocable" THEN Sequences ELSE {SequenceFinal} :
               input = TxInput(u.id, key, cosign, opening, sequence)
      BY <2>3 DEF Inputs
    <3>2. PICK key, cosign, opening :
            \E sequence \in IF u.script.type = "revocable" THEN Sequences ELSE {SequenceFinal} :
               input = TxInput(u.id, key, cosign, opening, sequence)
      BY <3>1
    <3>3. PICK sequence \in IF u.script.type = "revocable" THEN Sequences ELSE {SequenceFinal} :
               input = TxInput(u.id, key, cosign, opening, sequence)
      BY <3>2
    <3>a. Sequences \subseteq Nat /\ SequenceFinal \in Nat
      BY BlockchainConstants, TransitionConstants
    <3>4. sequence \in Nat
      BY <3>3, <3>a
    <3>5. input.sequence = sequence
      BY <3>3 DEF TxInput
    <3> QED
      BY <3>4, <3>5
  <2>5. lock \in Nat
    BY <2>3, BlockchainConstants
  <2> DEFINE out == Out(u, payee, fee)
  <2>6. out.script = payee.script /\ out.address = payee.address
    BY DEF TxOutput
  <2> HIDE DEF Out
  <2>7. Timed(out.script) /\ Known(out.address)
    BY <2>6, BlockchainConstants DEF Timed, Known, People
  <2> HIDE DEF out
  <2>8. Made(transferTx(<<input>>, <<out>>, lock))
    BY <2>4, <2>5, <2>7, TransferMade
  <2> QED
    BY <2>3, <2>8 DEF out
<1>2. ASSUME tx \in Deployments(s) PROVE Made(tx)
  <2>1. PICK u \in Keyed(s), n \in 0..1 :
           tx = deployTx(<<Plain(u, u.address)>>, PayTo(u.value, contractAddress(u.address, n)),
                         Guard.code, GasLimit, 1, n)
    BY <1>2 DEF Deployments
  <2> DEFINE ins == <<Plain(u, u.address)>>
             out == Paid(u.value, contractAddress(u.address, n))
  <2>2. \A i \in DOMAIN ins : ins[i].sequence \in Nat
    BY PlainMade, ListOne
  <2>3. Known(out.address) /\ Timed(out.script)
    BY <1>0, PlainMade DEF Known, isContractAddress, contractAddress
  <2>4. tx = deployTx(ins, <<out>>, Guard.code, GasLimit, 1, n)
    BY <1>0, <2>1
  <2> HIDE DEF ins, out
  <2> QED
    BY <2>2, <2>3, <2>4, ContractMade
<1>3. ASSUME tx \in Releases(s) PROVE Made(tx)
  <2> DEFINE Release(u, g) ==
               {callTx(ins, PayTo(u.value + g.value, to), g.address, <<>>, GasLimit, price) :
                  ins \in Together(u, g), to \in Keys, price \in 0..1}
             Others == s.utxos \ Keyed(s)
  <2>1. PICK u \in Keyed(s), g \in Others : tx \in Release(u, g)
    <3>1. Releases(s) = UNION {Release(u, g) : u \in Keyed(s), g \in Others}
      BY DEF Releases
    <3> HIDE DEF Release, Others
    <3> QED
      BY <1>3, <3>1
  <2>2. PICK ins \in Together(u, g), to \in Keys, price \in 0..1 :
           tx = callTx(ins, PayTo(u.value + g.value, to), g.address, <<>>, GasLimit, price)
    BY <2>1
  <2> DEFINE out == Paid(u.value + g.value, to)
  <2>3. \A i \in DOMAIN ins : ins[i].sequence \in Nat
    <3>1. \E a, b, k, j : ins = <<Plain(a, k), Plain(b, j)>>
      BY <2>2 DEF Together
    <3> QED
      BY <3>1, PlainMade
  <2>4. out.address \in People /\ Timed(out.script)
    BY <1>0, PlainMade DEF People
  <2>5. tx = callTx(ins, <<out>>, g.address, <<>>, GasLimit, price)
    BY <1>0, <2>2
  <2> HIDE DEF out
  <2> QED
    BY <2>3, <2>4, <2>5, ContractMade
<1>4. ASSUME tx \in Calls(s) PROVE Made(tx)
  <2>1. PICK u \in Keyed(s), c \in DOMAIN s.contracts :
           tx = callTx(<<Plain(u, u.address)>>, PayTo(u.value, u.address), c, <<>>, GasLimit, 1)
    BY <1>4 DEF Calls
  <2> DEFINE ins == <<Plain(u, u.address)>>
             out == Paid(u.value, u.address)
  <2>2. \A i \in DOMAIN ins : ins[i].sequence \in Nat
    BY PlainMade, ListOne
  <2>3. out.address \in People /\ Timed(out.script)
    BY <1>0, <1>a, PlainMade
  <2>4. tx = callTx(ins, <<out>>, c, <<>>, GasLimit, 1)
    BY <1>0, <2>1
  <2> HIDE DEF ins, out
  <2> QED
    BY <2>2, <2>3, <2>4, ContractMade
<1>5. tx \in Transfers(s) \/ tx \in Deployments(s) \/ tx \in Releases(s) \/ tx \in Calls(s)
  BY DEF Txs
<1> QED
  BY <1>1, <1>2, <1>3, <1>4, <1>5

LEMMA TipMade == \A u : \A tx \in Tips(u) : Made(tx)
<1> SUFFICES ASSUME NEW u, NEW tx \in Tips(u) PROVE Made(tx)
  OBVIOUS
<1>1. PICK fee \in Fees :
        tx = transferTx(<<Plain(u, Miner)>>, <<TxOutput(u.value - fee, Miner, p2pkh)>>, 0)
  BY DEF Tips
<1> DEFINE out == TxOutput(u.value - fee, Miner, p2pkh)
           input == Plain(u, Miner)
<1>2. out.script = p2pkh /\ out.address = Miner /\ input.sequence \in Nat
  BY PlainMade DEF TxOutput
<1>3. Timed(out.script) /\ Known(out.address)
  BY <1>2, PlainMade DEF Known, People
<1> HIDE DEF out, input
<1>4. Made(transferTx(<<input>>, <<out>>, 0))
  BY <1>2, <1>3, TransferMade
<1> QED
  BY <1>1, <1>4 DEF out, input

\* What an input that was applied had to show.
InputLocked(input, prev, h) ==
    RefundOf([input |-> input, prev |-> prev]) => h >= prev.script.timeout

LEMMA AppliedLocked ==
    ASSUME NEW kept, NEW s, Orderly(s, kept), NEW tx, Made(tx), NEW id, NEW h \in Nat, NEW time,
           applyTx(tx, id, s, h, time).ok, NEW i \in DOMAIN tx.ins
    PROVE  InputLocked(tx.ins[i], Prevs(tx, s)[i], h)
<1> DEFINE prevs == Prevs(tx, s)
           prev == prevs[i]
           input == tx.ins[i]
<1>1. Present(tx, s) /\ Movable(tx, prevs, h)
  BY AppliedMoves
<1>2. prev \in s.utxos
  BY <1>1, PrevsThere
<1>3. Timed(prev.script)
  BY <1>2 DEF Orderly, CoinsKnown
<1>4. tx.lockTime \in Nat /\ tx.kind # "coinbase"
  BY DEF Made
<1>5. Authorised(tx, input, prev)
  BY <1>1, <1>4 DEF Movable, checkTx
<1>6. tx.lockTime > 0 => h >= tx.lockTime
  BY <1>1 DEF Movable, Unlocked
<1> HIDE DEF prevs, prev, input
<1>7. ASSUME ~isContractAddress(prev.address), prev.script.type = "htlc",
             input.opening # prev.script.lock
      PROVE  h >= prev.script.timeout
  <2>1. tx.lockTime >= prev.script.timeout /\ prev.script.timeout \in Nat
    BY <1>3, <1>5, <1>7 DEF Authorised, OpensScript, OpensLock, Timed
  <2> QED
    BY <1>4, <1>6, <2>1
<1> DEFINE x == [input |-> input, prev |-> prev]
<1>8. x.input = input /\ x.prev = prev
  OBVIOUS
<1> HIDE DEF x
<1>9. RefundOf(x) => h >= prev.script.timeout
  BY <1>7, <1>8 DEF RefundOf
<1> QED
  BY <1>9 DEF InputLocked, x, prev, prevs, input

\* What the guard holds moved because the guard approved.
LEMMA AppliedGuarded ==
    ASSUME NEW kept, GuardObeys(kept), NEW s, Orderly(s, kept), NEW tx, Made(tx), NEW id,
           NEW h \in Nat, NEW time, applyTx(tx, id, s, h, time).ok, NEW i \in DOMAIN tx.ins,
           isContractAddress(Prevs(tx, s)[i].address)
    PROVE  /\ h >= Guard.height
           /\ \E j \in DOMAIN tx.outs : tx.outs[j].address = Guard.beneficiary
<1> DEFINE prevs == Prevs(tx, s)
           vm == Run(tx, prevs, s, h, time)
<1>1. Present(tx, s) /\ Movable(tx, prevs, h)
  BY AppliedMoves
<1>2. i \in DOMAIN prevs
  BY <1>1, PrevsThere
<1>3. tx.kind = "call"
  <2>1. tx.kind # "coinbase"
    BY DEF Made
  <2>2. Authorised(tx, tx.ins[i], prevs[i])
    BY <1>1, <2>1 DEF Movable, checkTx
  <2> QED
    BY <2>2 DEF Authorised
<1>4. /\ Installable(tx, prevs, s) /\ vm.status = "done" /\ CovenantAllows(tx, prevs, vm.ret)
  BY <1>3, AppliedRuns
<1>5. Len(vm.ret) > 0 /\ vm.ret[1] # 0
  BY <1>2, <1>4 DEF CovenantAllows
<1>6. /\ h >= Guard.height /\ Len(vm.ret) > 1 /\ vm.ret[2] = AddressWord(Guard.beneficiary)
  BY <1>3, <1>4, <1>5, RunObeys DEF Orderly
<1> HIDE DEF vm
<1>7. AddressWord(Guard.beneficiary) # 0
      /\ \A a \in People : AddressWord(a) = AddressWord(Guard.beneficiary) => a = Guard.beneficiary
  BY DEF GuardObeys, BeneficiaryTold
<1>8. PICK j \in DOMAIN tx.outs : AddressWord(tx.outs[j].address) = vm.ret[2]
  BY <1>2, <1>4, <1>6, <1>7 DEF CovenantAllows
<1>9. tx.outs[j].address \in People
  BY <1>3 DEF Made
<1> QED
  BY <1>6, <1>7, <1>8, <1>9

\* A block's coinbase and its others are as said.
BlockMade(block) ==
    /\ OutsKnown(Head(block.txs).outs)
    /\ Len(Tail(block.txs)) \in Nat
    /\ \A n \in 1..Len(Tail(block.txs)) : Made(Tail(block.txs)[n])

LEMMA ConsMade ==
    ASSUME NEW block, NEW value, NEW at, NEW txs, Listed(txs), \A n \in DOMAIN txs : Made(txs[n]),
           block.txs = <<coinbaseTx(Miner, value, at)>> \o txs
    PROVE  BlockMade(block)
<1> DEFINE cb == coinbaseTx(Miner, value, at)
<1>1. Shaped(cb) /\ OutsKnown(cb.outs)
  BY CoinbaseShaped, CoinbaseKnown
<1>2. block.txs = <<cb>> \o txs
  OBVIOUS
<1> HIDE DEF cb
<1>3. Head(block.txs) = cb /\ Tail(block.txs) = txs
  BY <1>1, <1>2, ListCons
<1>4. DOMAIN txs = 1..Len(txs) /\ Len(txs) \in Nat
  <2> DEFINE S == Range(txs)
  <2>1. txs \in Seq(S)
    BY DEF Listed
  <2> HIDE DEF S
  <2> QED
    BY <2>1
<1> QED
  BY <1>1, <1>3, <1>4 DEF BlockMade

LEMMA ForeignMade ==
    ASSUME NEW block \in Foreign
    PROVE  BlockMade(block)
<1>1. \E time, extends, bits, claim, txs :
         /\ block = OthersBlock(time, extends, bits, claim, txs)
         /\ txs = <<>> \/ \E u : \E tx \in Tips(u) : txs = <<tx>>
  <2>1. CASE block \in Claims
    <3> DEFINE Bodies == {<<>>} \cup {<<tx>> : tx \in UNION {Tips(u) : u \in chainState.utxos}}
               By(claim, txs) == OthersBlock(MineTime, TRUE, nextBitsFor(blocks, height + 1), claim, txs)
    <3>0. Claims = {By(claim, txs) : claim \in -1..2, txs \in Bodies}
      BY DEF Claims
    <3>1. PICK claim \in -1..2, txs \in Bodies : block = By(claim, txs)
      <4> HIDE DEF By, Bodies
      <4> QED
        BY <2>1, <3>0
    <3>2. txs = <<>> \/ \E u : \E tx \in Tips(u) : txs = <<tx>>
      BY <3>1
    <3> QED
      BY <3>1, <3>2
  <2>2. CASE block \in Timings
    <3>1. \E time, extends, bits : block = OthersBlock(time, extends, bits, 0, <<>>)
      BY <2>2 DEF Timings
    <3> QED
      BY <3>1
  <2> QED
    BY <2>1, <2>2 DEF Foreign
<1>2. PICK time, extends, bits, claim, txs :
         /\ block = OthersBlock(time, extends, bits, claim, txs)
         /\ txs = <<>> \/ \E u : \E tx \in Tips(u) : txs = <<tx>>
  BY <1>1
<1>3. block.txs = <<coinbaseTx(Miner, blockSubsidy(height + 1) + claim, height + 1)>> \o txs
  BY <1>2 DEF OthersBlock
<1>4. Listed(txs) /\ \A n \in DOMAIN txs : Made(txs[n])
  <2>1. CASE txs = <<>>
    BY <2>1, ListNone DEF Listed
  <2>2. ASSUME NEW u, NEW tx \in Tips(u), txs = <<tx>>
        PROVE  Listed(txs) /\ \A n \in DOMAIN txs : Made(txs[n])
    <3>1. \E a, b, lock : tx = transferTx(<<a>>, <<b>>, lock)
      BY DEF Tips
    <3>2. Shaped(tx) /\ Made(tx)
      BY <3>1, TransferShaped, TipMade
    <3>3. txs[1] = tx
      BY <2>2
    <3> QED
      BY <2>2, <3>2, <3>3, ListOne DEF Listed
  <2> QED
    BY <1>2, <2>1, <2>2
<1> QED
  BY <1>3, <1>4, ConsMade

LEMMA PromoteOrderly ==
    ASSUME NEW kept, Orderly(chainState, kept), Len(blocks) \in Nat \ {0}, NEW block, BlockMade(block),
           NEW clock, Accepts(block, BodyOutcome(block), clock), Promote(block, BodyOutcome(block))
    PROVE  Orderly(chainState', kept)
<1> DEFINE h == height + 1
           txs == Tail(block.txs)
           cb == Head(block.txs)
           res == ApplyAll(txs, chainState, h, block.time)
           out == applyCoinbase(cb, <<h, 0>>, res.state, h, res.fee)
           body == BodyOutcome(block)
<1>1. h \in Nat
  BY DEF height
<1>2. Len(txs) \in Nat /\ OutsKnown(cb.outs) /\ \A n \in 1..Len(txs) : Made(txs[n])
  BY DEF BlockMade
<1>3. res.ok /\ out.ok /\ body.state = out.state
  <2>0. body = IF ~res.ok THEN res ELSE [out EXCEPT !.fee = res.fee]
    BY DEF BodyOutcome
  <2>1. body.ok
    BY DEF Accepts
  <2>2. res.ok
    <3> HIDE DEF res, body, out
    <3> QED
      BY <2>0, <2>1
  <2>3. out = [ok |-> out.ok, state |-> out.state, fee |-> out.fee, gas |-> out.gas]
    BY DEF applyCoinbase, Applied, Refused
  <2> HIDE DEF res, body, out
  <2> QED
    BY <2>0, <2>1, <2>2, <2>3
<1>4. chainState' = out.state
  <2>1. chainState' = body.state
    BY DEF Promote
  <2> HIDE DEF body, out
  <2> QED
    BY <1>3, <2>1
<1> HIDE DEF txs, h, cb
<1>5. Orderly(res.state, kept)
  BY <1>1, <1>2, <1>3, BodyOrderly
<1> DEFINE after == res.state
           fees == res.fee
<1>6. Orderly(after, kept) /\ applyCoinbase(cb, <<h, 0>>, after, h, fees).ok
  BY <1>3, <1>5
<1>7. out.state = applyCoinbase(cb, <<h, 0>>, after, h, fees).state
  OBVIOUS
<1> HIDE DEF after, fees, res, out
<1> QED
  BY <1>1, <1>2, <1>4, <1>6, <1>7, CoinbaseOrderly

LocksInv(kept) ==
    /\ Orderly(chainState, kept)
    /\ draft # None => Orderly(draft.state, kept) /\ \A n \in DOMAIN draft.txs : Made(draft.txs[n])
    /\ RefundsWait
    /\ GuardObeys(kept) => Guarded

LEMMA LocksInit == ASSUME NEW kept PROVE BlockchainInit => LocksInv(kept)
<1> SUFFICES ASSUME BlockchainInit PROVE LocksInv(kept)
  OBVIOUS
<1> DEFINE cb == coinbaseTx(Miner, blockSubsidy(0), 0)
           made == Created(cb, <<0, 0>>, 0)
<1>1. CoinsKnown(made)
  BY CoinbaseKnown, CreatedKnown
<1> HIDE DEF made
<1>2. chainState = [utxos |-> made, contracts |-> <<>>, nonces |-> <<>>] /\ draft = None /\ moved = {}
  BY DEF BlockchainInit, made
<1>3. Orderly(chainState, kept)
  BY <1>1, <1>2, ListNone DEF Orderly, Guards
<1> QED
  BY <1>2, <1>3 DEF LocksInv, RefundsWait, Guarded

\* What an offer that goes through moved, and what has moved otherwise.
LEMMA OfferLocks ==
    ASSUME NEW kept, LedgerInv, LocksInv(kept), draft # None, NEW tx \in Txs(draft.state), Offer(tx)
    PROVE  LocksInv(kept)'
<1> DEFINE s == draft.state
           h == height + 1
           id == <<h, Len(draft.txs) + 1>>
           res == applyTx(tx, id, s, h, draft.time)
           Input(i) == [input |-> tx.ins[i], prev |-> Prevs(tx, s)[i], tx |-> tx]
<1>1. Orderly(s, kept) /\ \A n \in DOMAIN draft.txs : Made(draft.txs[n])
  BY DEF LocksInv
<1>2. Made(tx)
  BY <1>1, OfferedMade DEF Orderly
<1>3. h \in Nat /\ Listed(draft.txs)
      /\ draft = [time |-> draft.time, txs |-> draft.txs, state |-> draft.state,
                  fees |-> draft.fees, gas |-> draft.gas]
  BY DEF LedgerInv, SupplyInv, DraftListed, height
<1>4. UNCHANGED <<blocks, chainState>> /\ height' = height
  BY DEF Offer, height
<1>5. \/ UNCHANGED <<draft, moved>>
      \/ /\ res.ok
         /\ draft' = [draft EXCEPT !.txs = Append(@, tx), !.state = res.state,
                                   !.fees = @ + res.fee, !.gas = @ + res.gas]
         /\ moved' = {Input(i) : i \in DOMAIN tx.ins}
  BY DEF Offer
<1> HIDE DEF Input, res
<1>6. CASE UNCHANGED <<draft, moved>>
  <2>1. RefundsWait' /\ (GuardObeys(kept) => Guarded')
    BY <1>4, <1>6 DEF LocksInv, RefundsWait, Guarded, RefundOf
  <2> QED
    BY <1>4, <1>6, <2>1 DEF LocksInv
<1>7. CASE ~UNCHANGED <<draft, moved>>
  <2>1. /\ res.ok /\ moved' = {Input(i) : i \in DOMAIN tx.ins}
        /\ draft'.txs = Append(draft.txs, tx) /\ draft'.state = res.state
    <3> DEFINE new == Append(draft.txs, tx)
               fees == draft.fees + res.fee
               gas == draft.gas + res.gas
    <3>1. /\ res.ok /\ moved' = {Input(i) : i \in DOMAIN tx.ins}
          /\ draft' = [draft EXCEPT !.txs = new, !.state = res.state, !.fees = fees, !.gas = gas]
      BY <1>5, <1>7
    <3> HIDE DEF new, fees, gas
    <3>2. draft'.txs = new /\ draft'.state = res.state
      BY <1>3, <3>1
    <3> QED
      BY <3>1, <3>2 DEF new
  <2>2. Orderly(draft'.state, kept)
    BY <1>1, <1>2, <1>3, <2>1, ApplyOrderly DEF res
  <2>3. \A n \in DOMAIN draft'.txs : Made(draft'.txs[n])
    <3> DEFINE old == draft.txs
               new == draft'.txs
    <3>1. new = Append(old, tx) /\ old \in Seq(Range(old)) /\ \A n \in DOMAIN old : Made(old[n])
      BY <1>1, <1>3, <2>1 DEF Listed
    <3> HIDE DEF old, new
    <3>2. /\ DOMAIN old = 1..Len(old) /\ DOMAIN new = 1..(Len(old) + 1) /\ Len(old) \in Nat
          /\ new[Len(old) + 1] = tx /\ \A n \in 1..Len(old) : new[n] = old[n]
      BY <3>1, ListAdd
    <3>3. \A n \in DOMAIN new : Made(new[n])
      BY <1>2, <3>1, <3>2
    <3> QED
      BY <3>3 DEF new
  <2>4. ASSUME NEW i \in DOMAIN tx.ins
        PROVE  /\ InputLocked(tx.ins[i], Prevs(tx, s)[i], h)
               /\ GuardObeys(kept) /\ isContractAddress(Prevs(tx, s)[i].address) =>
                    /\ h >= Guard.height
                    /\ \E j \in DOMAIN tx.outs : tx.outs[j].address = Guard.beneficiary
    <3>1. applyTx(tx, id, s, h, draft.time).ok
      BY <2>1 DEF res
    <3> HIDE DEF s, id, h
    <3>2. InputLocked(tx.ins[i], Prevs(tx, s)[i], h)
      BY <1>1, <1>2, <1>3, <3>1, AppliedLocked
    <3>3. ASSUME GuardObeys(kept), isContractAddress(Prevs(tx, s)[i].address)
          PROVE  /\ h >= Guard.height
                 /\ \E j \in DOMAIN tx.outs : tx.outs[j].address = Guard.beneficiary
      BY <1>1, <1>2, <1>3, <3>1, <3>3, AppliedGuarded
    <3> QED
      BY <3>2, <3>3
  <2>5. \A x \in moved' : \E i \in DOMAIN tx.ins :
           x.input = tx.ins[i] /\ x.prev = Prevs(tx, s)[i] /\ x.tx = tx
    BY <2>1 DEF Input
  <2>6. RefundsWait'
    <3> SUFFICES ASSUME NEW x \in moved', RefundOf(x) PROVE height' + 1 >= x.prev.script.timeout
      BY DEF RefundsWait
    <3>1. PICK i \in DOMAIN tx.ins : x.input = tx.ins[i] /\ x.prev = Prevs(tx, s)[i]
      BY <2>5
    <3> DEFINE y == [input |-> x.input, prev |-> x.prev]
    <3>2. y.input = x.input /\ y.prev = x.prev
      OBVIOUS
    <3>3. InputLocked(x.input, x.prev, h)
      BY <2>4, <3>1
    <3>4. RefundOf(y) => h >= x.prev.script.timeout
      BY <3>3 DEF InputLocked
    <3> HIDE DEF y
    <3>5. RefundOf(y)
      BY <3>2 DEF RefundOf
    <3>6. height' + 1 = h
      BY <1>4
    <3> HIDE DEF h
    <3> QED
      BY <3>4, <3>5, <3>6
  <2>7. GuardObeys(kept) => Guarded'
    <3> SUFFICES ASSUME GuardObeys(kept), NEW x \in moved', isContractAddress(x.prev.address)
                 PROVE  /\ height' + 1 >= Guard.height
                        /\ \E j \in DOMAIN x.tx.outs : x.tx.outs[j].address = Guard.beneficiary
      BY DEF Guarded
    <3>1. PICK i \in DOMAIN tx.ins : x.prev = Prevs(tx, s)[i] /\ x.tx = tx
      BY <2>5
    <3> QED
      BY <1>4, <2>4, <3>1
  <2>8. Orderly(chainState', kept)
    BY <1>4 DEF LocksInv
  <2> QED
    BY <2>2, <2>3, <2>6, <2>7, <2>8 DEF LocksInv
<1> QED
  BY <1>6, <1>7

LEMMA NothingMoved ==
    ASSUME NEW kept, moved' = {}
    PROVE  RefundsWait' /\ Guarded'
BY DEF RefundsWait, Guarded

LEMMA LocksNext ==
    ASSUME NEW kept, LedgerInv, LocksInv(kept), [BlockchainNext]_blockchainVars
    PROVE  LocksInv(kept)'
<1>0. Orderly(chainState, kept) /\ Len(blocks) \in Nat \ {0}
  BY DEF LocksInv, LedgerInv, SupplyInv
<1>1. CASE \E time \in {None} \cup FixedTimes : BeginMine(time)
  <2>1. PICK time : /\ draft' = [time |-> time, txs |-> <<>>, state |-> chainState, fees |-> 0, gas |-> 0]
                    /\ UNCHANGED chainState /\ moved' = {}
    BY <1>1 DEF BeginMine
  <2>2. draft'.txs = <<>> /\ draft'.state = chainState
    BY <2>1
  <2> QED
    BY <1>0, <2>1, <2>2, ListNone, NothingMoved DEF LocksInv
<1>2. ASSUME NEW tx \in Txs(draft.state), Offer(tx), draft # None PROVE LocksInv(kept)'
  BY <1>2, OfferLocks
<1>3. CASE Seal
  <2>1. draft' = None /\ draft # None /\ moved' = {}
    BY <1>3 DEF Seal
  <2>2. BlockMade(Own)
    <3>1. Own.txs = <<coinbaseTx(Miner, blockSubsidy(height + 1) + draft.fees, height + 1)>>
                      \o draft.txs
      BY DEF Own
    <3>2. Listed(draft.txs) /\ \A n \in DOMAIN draft.txs : Made(draft.txs[n])
      BY <2>1 DEF LedgerInv, DraftListed, LocksInv
    <3> QED
      BY <3>1, <3>2, ConsMade
  <2>3. \/ Accepts(Own, BodyOutcome(Own), draft.time + 1) /\ Promote(Own, BodyOutcome(Own))
        \/ UNCHANGED chainState
    BY <1>3 DEF Seal
  <2>4. Orderly(chainState', kept)
    BY <1>0, <2>2, <2>3, PromoteOrderly
  <2> QED
    BY <2>1, <2>4, NothingMoved DEF LocksInv
<1>4. ASSUME NEW block \in Foreign, AddBlock(block) PROVE LocksInv(kept)'
  <2>1. UNCHANGED draft /\ draft = None /\ moved' = {}
    BY <1>4 DEF AddBlock
  <2>2. Accepts(block, BodyOutcome(block), now) /\ Promote(block, BodyOutcome(block))
    BY <1>4 DEF AddBlock
  <2>3. Orderly(chainState', kept)
    BY <1>0, <2>2, ForeignMade, PromoteOrderly
  <2> QED
    BY <2>1, <2>3, NothingMoved DEF LocksInv
<1>5. CASE UNCHANGED <<blocks, chainState, draft, moved>>
  <2>1. RefundsWait' /\ (GuardObeys(kept) => Guarded')
    BY <1>5 DEF LocksInv, RefundsWait, Guarded, RefundOf, height
  <2> QED
    BY <1>5, <2>1 DEF LocksInv
<1> QED
  BY <1>1, <1>2, <1>3, <1>4, <1>5 DEF BlockchainNext, Tick, blockchainVars

\* Whatever is mined, whatever its contracts: a refund that was applied had waited for its
\* timeout (checkTx compares the transaction with the script, applyTx with the height).
\* Nothing is said of the delay of a revocable output, which the code does not hold an
\* input with the final sequence to.
THEOREM RefundsHeld == BlockchainSpec => []RefundsWait
<1> DEFINE kept == {}
<1> HIDE DEF kept
<1>1. BlockchainSpec => []LedgerInv
  BY LedgerInit, LedgerNext, PTL DEF BlockchainSpec
<1>2. BlockchainInit => LocksInv(kept)
  BY LocksInit
<1>3. LedgerInv /\ LocksInv(kept) /\ [BlockchainNext]_blockchainVars => LocksInv(kept)'
  BY LocksNext
<1>4. LocksInv(kept) => RefundsWait
  BY DEF LocksInv
<1> QED
  BY <1>1, <1>2, <1>3, <1>4, PTL DEF BlockchainSpec

\* And with a guard whose code keeps to its terms, as GuardObeys says of single runs: no
\* block, no order of calls and no reuse of its storage releases what it guards early or to
\* somebody else.
THEOREM EveryLockHolds ==
    ASSUME NEW CONSTANT kept, GuardObeys(kept)
    PROVE  BlockchainSpec => []LocksHold
<1>1. BlockchainSpec => []LedgerInv
  BY LedgerInit, LedgerNext, PTL DEF BlockchainSpec
<1>2. BlockchainInit => LocksInv(kept)
  BY LocksInit
<1>3. LedgerInv /\ LocksInv(kept) /\ [BlockchainNext]_blockchainVars => LocksInv(kept)'
  BY LocksNext
<1>4. LocksInv(kept) => LocksHold
  BY DEF LocksInv, LocksHold
<1> QED
  BY <1>1, <1>2, <1>3, <1>4, PTL DEF BlockchainSpec

----------------------------------------------------------------------------
(***************************************************************************)
(* What is mined is taken in.  The draft is a replay of its transactions   *)
(* on the chain, so addBlock comes to the same fees, gas and state; its    *)
(* time is later than the median; and a subsidy with fees of coins there   *)
(* are stays within what may ever be issued.                               *)
(***************************************************************************)
LEMMA GreaterOf ==
    ASSUME NEW a \in Int, NEW b \in Int
    PROVE  Max({a, b}) = IF a >= b THEN a ELSE b
BY DEF Max

LEMMA ListBounded ==
    ASSUME NEW k \in Nat, NEW f, \A i \in 1..k : f[i] \in Nat
    PROVE  \E max \in Nat : \A i \in 1..k : f[i] <= max
<1> DEFINE P == {n \in Nat : n <= k => \E max \in Nat : \A i \in 1..n : f[i] <= max}
<1>1. 0 \in P
  OBVIOUS
<1>2. ASSUME NEW n \in Nat, n \in P PROVE n + 1 \in P
  <2> SUFFICES ASSUME n + 1 <= k PROVE \E max \in Nat : \A i \in 1..(n + 1) : f[i] <= max
    OBVIOUS
  <2>1. PICK max \in Nat : \A i \in 1..n : f[i] <= max
    BY <1>2
  <2> DEFINE more == IF f[n + 1] >= max THEN f[n + 1] ELSE max
  <2>2. f[n + 1] \in Nat
    OBVIOUS
  <2>3. more \in Nat /\ more >= max /\ more >= f[n + 1]
    BY <2>2
  <2> HIDE DEF more
  <2>4. ASSUME NEW i \in 1..(n + 1) PROVE f[i] <= more
    <3>1. CASE i = n + 1
      BY <2>3, <3>1
    <3>2. CASE i # n + 1
      <4>1. i \in 1..n /\ i \in 1..k
        BY <3>2
      <4>2. f[i] <= max /\ f[i] \in Nat
        BY <2>1, <4>1
      <4> QED
        BY <2>3, <4>2
    <3> QED
      BY <3>1, <3>2
  <2> QED
    BY <2>3, <2>4
<1>3. k \in P
  <2> HIDE DEF P
  <2> QED
    BY <1>1, <1>2, NatClosure
<1> QED
  BY <1>3

\* The times of a chain are naturals, and so is their median.
Timely == \A i \in 1..Len(blocks) : blocks[i].time \in Nat

LEMMA MedianNatural ==
    ASSUME Len(blocks) \in Nat \ {0}, Timely
    PROVE  medianTimePast(blocks) \in Nat
<1> DEFINE k == Min({Len(blocks), MEDIAN_WINDOW})
           window == 1..k
           at(i) == blocks[Len(blocks) + 1 - i].time
           upto(t) == {i \in window : at(i) <= t}
           S == {t \in {at(i) : i \in window} : 2 * Cardinality(upto(t)) > Cardinality(window)}
<1>1. k \in Nat \ {0} /\ k <= Len(blocks)
  <2>1. MEDIAN_WINDOW \in Nat \ {0}
    BY ConsensusConstants
  <2> QED
    BY <2>1, LesserOf
<1>2. medianTimePast(blocks) = Min(S)
  BY DEF medianTimePast
<1> HIDE DEF k
<1>3. \A i \in window : at(i) \in Nat
  <2> SUFFICES ASSUME NEW i \in window PROVE at(i) \in Nat
    OBVIOUS
  <2>1. Len(blocks) + 1 - i \in 1..Len(blocks)
    BY <1>1
  <2> QED
    BY <2>1 DEF Timely
<1> HIDE DEF at
<1>4. \E t \in {at(i) : i \in window} : \A u \in {at(i) : i \in window} : u <= t
  <2> DEFINE f == [i \in window |-> at(i)]
             T == {at(i) : i \in window}
  <2>1. \A i \in 1..k : f[i] \in Nat /\ f[i] = at(i)
    BY <1>3
  <2> HIDE DEF f
  <2>2. PICK max \in Nat : \A i \in 1..k : f[i] <= max
    BY <1>1, <2>1, ListBounded
  <2>3. \A u \in T : u \in Nat /\ u <= max
    BY <1>3, <2>1, <2>2
  <2>4. 1 \in window
    BY <1>1
  <2>5. T \in SUBSET Nat /\ T # {}
    BY <2>3, <2>4
  <2> HIDE DEF T
  <2>6. \E t \in T : \A u \in T : u <= t
    BY <2>3, <2>5, NatGreatest
  <2> QED
    BY <2>6 DEF T
<1>5. S # {}
  <2>1. PICK t \in {at(i) : i \in window} : \A u \in {at(i) : i \in window} : u <= t
    BY <1>4
  <2>2. upto(t) = window
    BY <2>1
  <2>3. Cardinality(window) = k
    <3>1. Cardinality(1..k) = IF 1 > k THEN 0 ELSE k - 1 + 1
      BY <1>1, FS_Interval
    <3> QED
      BY <1>1, <3>1
  <2>4. 2 * Cardinality(upto(t)) > Cardinality(window)
    <3> HIDE DEF upto, window
    <3>1. Cardinality(upto(t)) = k
      BY <2>2, <2>3
    <3> QED
      BY <1>1, <2>3, <3>1
  <2> QED
    BY <2>1, <2>4
<1>6. S \in SUBSET Nat
  BY <1>3
<1> HIDE DEF S
<1>7. Min(S) \in S
  <2>1. \E n \in S : \A m \in S : n <= m
    BY <1>5, <1>6, NatLeast
  <2> QED
    BY <2>1 DEF Min
<1> QED
  BY <1>2, <1>6, <1>7

LEMMA MineTimeLater ==
    ASSUME Len(blocks) \in Nat \ {0}, Timely, now \in Nat
    PROVE  MineTime \in Nat /\ MineTime > medianTimePast(blocks)
<1>1. medianTimePast(blocks) \in Nat
  BY MedianNatural
<1>2. MineTime = IF now >= medianTimePast(blocks) + 1 THEN now ELSE medianTimePast(blocks) + 1
  BY <1>1, GreaterOf DEF MineTime
<1> QED
  BY <1>1, <1>2

\* The transactions of a draft, one after the other on a state.
Replays(acc, txs, s, h, time) ==
    /\ acc[0] = Applied(s, 0, 0)
    /\ \A n \in 1..Len(txs) :
         LET res == applyTx(txs[n], <<h, n>>, acc[n - 1].state, h, time)
         IN /\ res.ok /\ res.gas \in Nat
            /\ acc[n] = Applied(res.state, acc[n - 1].fee + res.fee, acc[n - 1].gas + res.gas)

DraftReplays ==
    draft # None =>
        \E acc : /\ Replays(acc, draft.txs, chainState, height + 1, draft.time)
                 /\ acc[Len(draft.txs)] = Applied(draft.state, draft.fees, draft.gas)

\* Gas adds up.
LEMMA GasAdds ==
    ASSUME NEW txs, Len(txs) \in Nat, NEW s, NEW h, NEW time, NEW acc, Replays(acc, txs, s, h, time)
    PROVE  \A n \in 0..Len(txs) : acc[n].gas \in Nat /\ acc[n].gas <= acc[Len(txs)].gas
<1> DEFINE N == Len(txs)
           P == {n \in Nat : n <= N =>
                   acc[n].gas \in Nat /\ \A k \in 0..n : acc[k].gas \in Nat /\ acc[k].gas <= acc[n].gas}
<1>1. 0 \in P
  <2>1. acc[0].gas = 0
    BY DEF Replays, Applied
  <2> QED
    BY <2>1
<1>2. ASSUME NEW n \in Nat, n \in P PROVE n + 1 \in P
  <2> SUFFICES ASSUME n + 1 <= N
               PROVE  /\ acc[n + 1].gas \in Nat
                      /\ \A k \in 0..(n + 1) : acc[k].gas \in Nat /\ acc[k].gas <= acc[n + 1].gas
    OBVIOUS
  <2> DEFINE m == n + 1
             res == applyTx(txs[m], <<h, m>>, acc[m - 1].state, h, time)
  <2>1. m \in 1..N /\ m - 1 = n
    OBVIOUS
  <2>2. res.gas \in Nat /\ acc[m] = Applied(res.state, acc[m - 1].fee + res.fee, acc[m - 1].gas + res.gas)
    BY <2>1 DEF Replays
  <2> HIDE DEF res
  <2>3. acc[m].gas = acc[n].gas + res.gas
    BY <2>1, <2>2 DEF Applied
  <2>4. acc[n].gas \in Nat /\ \A k \in 0..n : acc[k].gas \in Nat /\ acc[k].gas <= acc[n].gas
    BY <1>2, <2>1
  <2>5. acc[m].gas \in Nat /\ acc[n].gas <= acc[m].gas
    BY <2>2, <2>3, <2>4
  <2>6. ASSUME NEW k \in 0..m PROVE acc[k].gas \in Nat /\ acc[k].gas <= acc[m].gas
    <3>1. CASE k = m
      BY <2>5, <3>1
    <3>2. CASE k # m
      <4>1. k \in 0..n
        BY <3>2
      <4>2. acc[k].gas \in Nat /\ acc[k].gas <= acc[n].gas
        BY <2>4, <4>1
      <4> QED
        BY <2>4, <2>5, <4>2
    <3> QED
      BY <3>1, <3>2
  <2> QED
    BY <2>5, <2>6
<1>3. N \in P
  <2> HIDE DEF P
  <2> QED
    BY <1>1, <1>2, NatClosure
<1> QED
  BY <1>3

\* addBlock comes to what the draft came to, if it does not take too much gas.
LEMMA ReplayIsBody ==
    ASSUME NEW txs, Len(txs) \in Nat, NEW s, NEW h, NEW time, NEW acc, Replays(acc, txs, s, h, time),
           BLOCK_GAS_LIMIT \in Nat, acc[Len(txs)].gas <= BLOCK_GAS_LIMIT
    PROVE  ApplyAll(txs, s, h, time) = acc[Len(txs)]
<1> DEFINE N == Len(txs)
<1>1. PICK all : Outcomes(all, txs, N, s, h, time) /\ ApplyAll(txs, s, h, time) = all[N]
  BY ApplyAllRuns
<1> DEFINE P == {n \in Nat : n <= N => all[n] = acc[n]}
<1>2. 0 \in P
  BY <1>1 DEF Outcomes, Replays
<1>3. ASSUME NEW n \in Nat, n \in P PROVE n + 1 \in P
  <2> SUFFICES ASSUME n + 1 <= N PROVE all[n + 1] = acc[n + 1]
    OBVIOUS
  <2> DEFINE m == n + 1
             old == acc[n]
             res == applyTx(txs[m], <<h, m>>, old.state, h, time)
             fee == old.fee + res.fee
             gas == old.gas + res.gas
             good == res.ok /\ gas <= BLOCK_GAS_LIMIT
  <2>1. m \in 1..N /\ m - 1 = n /\ n \in 0..N /\ m \in 0..N /\ n <= N
    OBVIOUS
  <2>2. all[n] = old
    BY <1>3, <2>1
  <2>3. all[m] = ApplyNext(txs, m, old, h, time)
    BY <1>1, <2>1, <2>2 DEF Outcomes
  <2>4. res.ok /\ acc[m] = Applied(res.state, fee, gas)
    BY <2>1 DEF Replays
  <2>5. old.ok
    <3>1. CASE n = 0
      BY <3>1 DEF Replays, Applied
    <3>2. CASE n # 0
      <4>1. n \in 1..N
        BY <2>1, <3>2
      <4> DEFINE was == applyTx(txs[n], <<h, n>>, acc[n - 1].state, h, time)
      <4>2. old = Applied(was.state, acc[n - 1].fee + was.fee, acc[n - 1].gas + was.gas)
        BY <4>1 DEF Replays
      <4> HIDE DEF was, old
      <4> QED
        BY <4>2 DEF Applied
    <3> QED
      BY <3>1, <3>2
  <2>6. all[m] = [ok |-> good, state |-> res.state, fee |-> fee, gas |-> gas]
    BY <2>3, <2>5 DEF ApplyNext, Joined
  <2>7. gas <= BLOCK_GAS_LIMIT
    <3>1. acc[m].gas = gas
      <4> HIDE DEF res, fee, gas
      <4> QED
        BY <2>4 DEF Applied
    <3>2. acc[m].gas \in Nat /\ acc[m].gas <= acc[N].gas /\ acc[N].gas \in Nat
      BY <2>1, GasAdds
    <3> HIDE DEF gas
    <3> QED
      BY <3>1, <3>2
  <2>8. good = TRUE
    BY <2>4, <2>7
  <2> HIDE DEF res, fee, gas, good
  <2> QED
    BY <2>4, <2>6, <2>8 DEF Applied
<1>4. N \in P
  <2> HIDE DEF P
  <2> QED
    BY <1>2, <1>3, NatClosure
<1> QED
  BY <1>1, <1>4

\* A coinbase that pays one output.
LEMMA OneOutput ==
    ASSUME NEW v \in Nat, NEW to, NEW at
    PROVE  LET cb == coinbaseTx(to, v, at)
           IN /\ SumValue(cb.outs) = v
              /\ Len(cb.outs) = 1 /\ \A i \in DOMAIN cb.outs : cb.outs[i].value = v
              /\ cb.kind = "coinbase" /\ cb.ins = <<>>
<1> DEFINE o == TxOutput(v, to, p2pkh)
           outs == <<o>>
           f == [i \in {1} |-> o.value]
<1>1. o.value = v
  BY DEF TxOutput
<1>2. /\ coinbaseTx(to, v, at).outs = outs /\ coinbaseTx(to, v, at).kind = "coinbase"
      /\ coinbaseTx(to, v, at).ins = <<>>
  BY DEF coinbaseTx
<1> HIDE DEF o
<1>3. DOMAIN outs = {1} /\ outs[1] = o /\ Len(outs) = 1
  OBVIOUS
<1>4. SumValue(outs) = SumFunctionOnSet(f, {1})
  <2>1. [i \in DOMAIN outs |-> outs[i].value] = f
    BY <1>3
  <2> HIDE DEF f, outs
  <2> QED
    BY <1>3, <2>1 DEF SumValue
<1>5. NatOn(f, {1}) /\ f[1] = v
  BY <1>1 DEF NatOn
<1> HIDE DEF f
<1>6. SumFunctionOnSet(f, {} \cup {1}) = SumFunctionOnSet(f, {}) + f[1]
  <2>1. {} \cup {1} = {1} /\ IsFiniteSet({}) /\ 1 \notin {}
    BY FS_EmptySet
  <2> QED
    BY <1>5, <2>1, SumMore
<1>7. {} \cup {1} = {1}
  OBVIOUS
<1>8. SumValue(outs) = v
  BY <1>4, <1>5, <1>6, <1>7, SumNone
<1> HIDE DEF outs
<1> QED
  BY <1>1, <1>2, <1>3, <1>8

\* A coinbase that claims the subsidy and fees of coins on the chain.
LEMMA CoinbaseTaken ==
    ASSUME SupplyCapped, NEW h \in Nat, NEW fees \in Nat, fees <= cumulativeIssuance(h),
           NEW s, NEW id, NEW to
    PROVE  LET cb == coinbaseTx(to, blockSubsidy(h + 1) + fees, h + 1)
           IN applyCoinbase(cb, id, s, h + 1, fees).ok
<1> DEFINE v == blockSubsidy(h + 1) + fees
           cb == coinbaseTx(to, v, h + 1)
<1>1. /\ cumulativeIssuance(h) \in Nat /\ blockSubsidy(h + 1) \in Nat
      /\ cumulativeIssuance(h + 1) = cumulativeIssuance(h) + blockSubsidy(h + 1)
  BY IssuanceStep
<1>2. cumulativeIssuance(h + 1) <= MAX_SUPPLY
  BY IssuanceCapped DEF SupplyCapped
<1>3. MAX_SUPPLY \in Nat /\ MAX_MONEY \in Nat
  BY ConsensusConstants, TransitionConstants
<1>4. v \in Nat /\ v <= MAX_MONEY
  BY <1>1, <1>2, <1>3 DEF SupplyCapped
<1>5. v <= Allowed(h + 1, fees) /\ cumulativeIssuance((h + 1) - 1) + v - fees <= MAX_SUPPLY
  <2>1. (h + 1) - 1 = h
    OBVIOUS
  <2> QED
    BY <1>1, <1>2, <1>3, <2>1 DEF Allowed
<1> HIDE DEF v
<1>6. /\ SumValue(cb.outs) = v /\ Len(cb.outs) = 1 /\ \A i \in DOMAIN cb.outs : cb.outs[i].value = v
      /\ cb.kind = "coinbase" /\ cb.ins = <<>>
  BY <1>4, OneOutput
<1> HIDE DEF cb
<1>7. CheckOutputs(cb.outs)
  BY <1>3, <1>4, <1>6 DEF CheckOutputs
<1>8. checkTx(cb, <<>>)
  BY <1>6, <1>7 DEF checkTx
<1>9. applyCoinbase(cb, id, s, h + 1, fees)
        = Applied([s EXCEPT !.utxos = @ \cup Created(cb, id, h + 1)], 0, 0)
  BY <1>5, <1>6, <1>8 DEF applyCoinbase
<1>10. applyCoinbase(cb, id, s, h + 1, fees).ok
  BY <1>9 DEF Applied
<1> QED
  BY <1>10 DEF cb, v

\* What contracts have cost when they went through.
LEMMA AppliedCosts ==
    ASSUME NEW kept, GuardObeys(kept), NEW s, Orderly(s, kept), NEW tx, Made(tx), NEW id,
           NEW h \in Nat, NEW time, applyTx(tx, id, s, h, time).ok
    PROVE  applyTx(tx, id, s, h, time).gas \in Nat
<1> DEFINE prevs == Prevs(tx, s)
           res == applyTx(tx, id, s, h, time)
<1>1. CASE tx.kind = "transfer"
  <2>1. Present(tx, s) /\ Movable(tx, prevs, h)
    BY AppliedMoves
  <2>2. res = Applied(Moved(tx, id, prevs, s, h), Fee(tx, prevs), 0)
    BY <1>1, <2>1 DEF applyTx
  <2> HIDE DEF res, prevs
  <2>3. res.gas = 0
    BY <2>2 DEF Applied
  <2> QED
    BY <2>3 DEF res
<1>2. CASE tx.kind # "transfer"
  <2> DEFINE vm == Run(tx, prevs, s, h, time)
  <2>1. Installable(tx, prevs, s) /\ vm.status = "done" /\ res.gas = vm.gas
    BY <1>2, AppliedRuns
  <2>2. Guards(s.contracts, kept)
    BY DEF Orderly
  <2>3. vm.gas \in Nat
    BY <1>2, <2>1, <2>2, RunObeys
  <2> QED
    BY <2>1, <2>3
<1> QED
  BY <1>1, <1>2

\* The miner's own block passes every check of addBlock.
LEMMA OwnTaken ==
    ASSUME LedgerInv, SupplyCapped, draft # None, DraftReplays,
           draft.time \in Nat, draft.time > medianTimePast(blocks),
           draft.gas <= BLOCK_GAS_LIMIT, Len(draft.txs) < MAX_BLOCK_TXS
    PROVE  Accepts(Own, BodyOutcome(Own), draft.time + 1)
<1> DEFINE h == height + 1
           txs == draft.txs
           cb == coinbaseTx(Miner, blockSubsidy(h) + draft.fees, h)
           out == applyCoinbase(cb, <<h, 0>>, draft.state, h, draft.fees)
           res == ApplyAll(txs, chainState, h, draft.time)
<1>1. /\ SupplyInv /\ DraftListed
      /\ height \in Nat /\ h \in Nat /\ Sane(chainState, h, {}) /\ foregone \in Nat
      /\ Worth(chainState.utxos) + foregone = cumulativeIssuance(height)
  BY DEF LedgerInv, SupplyInv, height
<1>2. Listed(txs) /\ \A n \in DOMAIN txs : txs[n].kind # "coinbase"
  BY <1>1 DEF DraftListed
<1>3. Len(txs) \in Nat /\ DOMAIN txs = 1..Len(txs)
  <2> DEFINE S == Range(txs)
  <2>1. txs \in Seq(S)
    BY <1>2 DEF Listed
  <2> HIDE DEF S, txs
  <2> QED
    BY <2>1
<1>4. PICK acc : /\ Replays(acc, txs, chainState, h, draft.time)
                 /\ acc[Len(txs)] = Applied(draft.state, draft.fees, draft.gas)
  BY DEF DraftReplays
<1>5. res = Applied(draft.state, draft.fees, draft.gas)
  <2>1. BLOCK_GAS_LIMIT \in Nat
    BY BlockchainConstants
  <2>2. acc[Len(txs)].gas <= BLOCK_GAS_LIMIT
    BY <1>4 DEF Applied
  <2> HIDE DEF txs, h
  <2> QED
    BY <1>3, <1>4, <2>1, <2>2, ReplayIsBody
<1>6. draft.fees \in Nat /\ draft.fees <= cumulativeIssuance(height)
  <2>1. \A n \in 1..Len(txs) : Shaped(txs[n]) /\ txs[n].kind # "coinbase"
    BY <1>2, <1>3 DEF Listed
  <2> HIDE DEF txs, h
  <2>2. Balanced(res, chainState, h, Len(txs))
    BY <1>1, <1>3, <2>1, BodyBalances
  <2> HIDE DEF res
  <2>3. res.ok /\ res.fee = draft.fees
    BY <1>5 DEF Applied
  <2>4. /\ res.fee \in Nat /\ Worth(res.state.utxos) \in Nat /\ Worth(chainState.utxos) \in Nat
        /\ Worth(res.state.utxos) + res.fee = Worth(chainState.utxos)
    BY <2>2, <2>3 DEF Balanced, Settles
  <2> QED
    BY <1>1, <2>3, <2>4
<1>7. out.ok
  BY <1>1, <1>6, CoinbaseTaken
<1>8. /\ Own.height = h /\ Own.extends /\ Own.time = draft.time
      /\ Own.bits = nextBitsFor(blocks, h) /\ Own.txs = <<cb>> \o txs /\ Own.stateRoot = out.state
  <2> DEFINE next == nextBitsFor(blocks, h)
             all == <<cb>> \o txs
             root == out.state
  <2>1. Own = [height |-> h, extends |-> TRUE, time |-> draft.time, bits |-> next, txs |-> all,
               stateRoot |-> root]
    BY DEF Own
  <2> HIDE DEF h, next, all, root
  <2>2. /\ Own.height = h /\ Own.extends /\ Own.time = draft.time
        /\ Own.bits = next /\ Own.txs = all /\ Own.stateRoot = root
    BY <2>1
  <2> QED
    BY <2>2 DEF next, all, root
<1>9. Shaped(cb) /\ cb.kind = "coinbase"
  BY CoinbaseShaped DEF coinbaseTx
<1> DEFINE body == BodyOutcome(Own)
<1>10. body.ok /\ body.state = out.state
  <2>1. Head(Own.txs) = cb /\ Tail(Own.txs) = txs
    <3> HIDE DEF cb, txs
    <3> QED
      BY <1>2, <1>8, <1>9, ListCons
  <2> DEFINE run == ApplyAll(Tail(Own.txs), chainState, h, Own.time)
  <2>2. run = res
    BY <1>8, <2>1
  <2>3. BodyOutcome(Own) = IF ~run.ok THEN run
                ELSE [applyCoinbase(Head(Own.txs), <<h, 0>>, run.state, h, run.fee)
                        EXCEPT !.fee = run.fee]
    BY DEF BodyOutcome
  <2>4. res.ok /\ res.state = draft.state /\ res.fee = draft.fees
    <3> HIDE DEF res
    <3> QED
      BY <1>5 DEF Applied
  <2>5. out = [ok |-> out.ok, state |-> out.state, fee |-> out.fee, gas |-> out.gas]
    BY DEF applyCoinbase, Applied, Refused
  <2> HIDE DEF run, res
  <2>6. BodyOutcome(Own) = [applyCoinbase(cb, <<h, 0>>, draft.state, h, draft.fees)
                              EXCEPT !.fee = draft.fees]
    BY <2>1, <2>2, <2>3, <2>4
  <2>7. body = [out EXCEPT !.fee = draft.fees]
    BY <2>6
  <2> HIDE DEF out, body
  <2> QED
    BY <1>7, <2>5, <2>7
<1>11. checkHeader(Own, draft.time + 1)
  <2> DEFINE all == <<cb>> \o txs
  <2>0. MAX_BLOCK_TXS \in Nat /\ MAX_FUTURE_DRIFT \in Nat
    BY ConsensusConstants
  <2>1. /\ Len(all) = Len(txs) + 1 /\ Listed(all) /\ Head(all) = cb /\ all # <<>>
        /\ \A n \in DOMAIN txs : n + 1 \in DOMAIN all /\ all[n + 1] = txs[n]
    <3> HIDE DEF cb, txs
    <3> QED
      BY <1>2, <1>9, ListCons
  <2>2. Len(all) \in 1..MAX_BLOCK_TXS
    BY <1>3, <2>0, <2>1
  <2>3. DOMAIN all = 1..Len(all) /\ all[1] = cb
    <3> DEFINE S == Range(all)
    <3>1. all \in Seq(S) /\ all # <<>>
      BY <2>1 DEF Listed
    <3> HIDE DEF all, S
    <3>2. DOMAIN all = 1..Len(all) /\ all[1] = Head(all)
      BY <3>1
    <3> QED
      BY <2>1, <3>2
  <2> HIDE DEF all
  <2>4. ASSUME NEW n \in DOMAIN all PROVE all[n].kind = "coinbase" <=> n = 1
    <3>1. CASE n = 1
      BY <1>9, <2>3, <3>1
    <3>2. CASE n # 1
      <4>1. n - 1 \in DOMAIN txs /\ (n - 1) + 1 = n
        BY <1>3, <2>1, <2>3, <3>2
      <4>2. all[n] = txs[n - 1]
        BY <2>1, <4>1
      <4> QED
        BY <1>2, <3>2, <4>1, <4>2
    <3> QED
      BY <3>1, <3>2
  <2>5. Own.time <= draft.time + 1 + MAX_FUTURE_DRIFT
    BY <1>8, <2>0
  <2>6. Own.txs = all
    BY <1>8 DEF all
  <2> QED
    BY <2>2, <2>4, <2>5, <2>6 DEF checkHeader
<1>12. Follows(Own)
  BY <1>8 DEF Follows
<1>13. Own.stateRoot \in {None, body.state}
  BY <1>8, <1>10
<1> HIDE DEF body
<1>14. Accepts(Own, body, draft.time + 1)
  BY <1>10, <1>11, <1>12, <1>13 DEF Accepts
<1> QED
  BY <1>14 DEF body

\* The caller fixed a time that is not later than the median.
FixedEarly == fixed # None /\ fixed <= medianTimePast(blocks)

MineInv ==
    /\ Timely /\ now \in Nat
    /\ draft # None => /\ draft.time \in Nat
                       /\ draft.time > medianTimePast(blocks) \/ FixedEarly
    /\ DraftReplays

LEMMA MineInit == BlockchainInit => MineInv
<1> SUFFICES ASSUME BlockchainInit PROVE MineInv
  OBVIOUS
<1>1. draft = None /\ now = 0
  BY DEF BlockchainInit
<1>2. Timely
  <2> DEFINE first == [time |-> 0, bits |-> GENESIS_BITS]
  <2>1. first.time = 0 /\ blocks = <<first>>
    BY DEF BlockchainInit
  <2> HIDE DEF first
  <2>2. 1..Len(blocks) = {1} /\ blocks[1] = first
    BY <2>1
  <2> QED
    BY <2>1, <2>2 DEF Timely
<1> QED
  BY <1>1, <1>2 DEF MineInv, DraftReplays

\* An offer that goes through is one more transaction of the replay.
LEMMA OfferReplays ==
    ASSUME NEW kept, GuardObeys(kept), LedgerInv, LocksInv(kept), DraftReplays, draft # None,
           NEW tx \in Txs(draft.state), Offer(tx)
    PROVE  DraftReplays' /\ (draft' # None => draft'.time = draft.time)
<1> DEFINE s == draft.state
           h == height + 1
           N == Len(draft.txs)
           m == N + 1
           res == applyTx(tx, <<h, N + 1>>, s, h, draft.time)
<1>1. Orderly(s, kept)
  BY DEF LocksInv
<1>2. Made(tx)
  BY <1>1, OfferedMade DEF Orderly
<1>3. /\ h \in Nat /\ Listed(draft.txs) /\ N \in Nat
      /\ draft = [time |-> draft.time, txs |-> draft.txs, state |-> draft.state,
                  fees |-> draft.fees, gas |-> draft.gas]
  <2>1. /\ h \in Nat /\ Listed(draft.txs)
        /\ draft = [time |-> draft.time, txs |-> draft.txs, state |-> draft.state,
                    fees |-> draft.fees, gas |-> draft.gas]
    BY DEF LedgerInv, SupplyInv, DraftListed, height
  <2> DEFINE list == draft.txs
             S == Range(list)
  <2>2. list \in Seq(S)
    BY <2>1 DEF Listed
  <2> HIDE DEF list, S
  <2>3. Len(list) \in Nat
    BY <2>2
  <2> QED
    BY <2>1, <2>3 DEF list
<1>4. UNCHANGED <<blocks, chainState>> /\ height' = height
  BY DEF Offer, height
<1>5. \/ UNCHANGED draft
      \/ /\ res.ok
         /\ draft' = [draft EXCEPT !.txs = Append(@, tx), !.state = res.state,
                                   !.fees = @ + res.fee, !.gas = @ + res.gas]
  BY DEF Offer
<1>6. CASE UNCHANGED draft
  BY <1>4, <1>6 DEF DraftReplays
<1>7. CASE ~UNCHANGED draft
  <2> DEFINE list == Append(draft.txs, tx)
             fees == draft.fees + res.fee
             gas == draft.gas + res.gas
  <2>1. res.ok /\ draft' = [draft EXCEPT !.txs = list, !.state = res.state, !.fees = fees, !.gas = gas]
    BY <1>5, <1>7
  <2>2. res.gas \in Nat
    <3>1. applyTx(tx, <<h, N + 1>>, s, h, draft.time).ok
      BY <2>1
    <3> HIDE DEF s, h, N
    <3> QED
      BY <1>1, <1>2, <1>3, <3>1, AppliedCosts
  <2> HIDE DEF res, list, fees, gas
  <2>3. /\ draft'.txs = list /\ draft'.state = res.state /\ draft'.fees = fees /\ draft'.gas = gas
        /\ draft'.time = draft.time
    BY <1>3, <2>1
  <2>4. /\ Len(list) = N + 1 /\ list[N + 1] = tx /\ \A n \in 1..N : list[n] = draft.txs[n]
    <3> DEFINE old == draft.txs
    <3>1. old \in Seq(Range(old)) /\ list = Append(old, tx) /\ N = Len(old)
      BY <1>3 DEF Listed, list
    <3> HIDE DEF old, N
    <3>2. /\ Len(list) = Len(old) + 1 /\ list[Len(old) + 1] = tx
          /\ \A n \in 1..Len(old) : list[n] = old[n]
      BY <3>1, ListAdd
    <3> QED
      BY <3>1, <3>2 DEF old
  <2>5. PICK acc : /\ Replays(acc, draft.txs, chainState, h, draft.time)
                   /\ acc[N] = Applied(draft.state, draft.fees, draft.gas)
    BY DEF DraftReplays
  <2> DEFINE last == Applied(res.state, fees, gas)
             new == [k \in 0..(N + 1) |-> IF k = N + 1 THEN last ELSE acc[k]]
  <2>6. new[N + 1] = last /\ \A k \in 0..N : new[k] = acc[k]
    BY <1>3
  <2>7. acc[N].state = s /\ acc[N].fee = draft.fees /\ acc[N].gas = draft.gas
    BY <2>5 DEF Applied
  <2> HIDE DEF new
  <2>8. new[0] = Applied(chainState, 0, 0)
    BY <1>3, <2>5, <2>6 DEF Replays
  <2>9. ASSUME NEW n \in 1..(N + 1)
        PROVE  LET r == applyTx(list[n], <<h, n>>, new[n - 1].state, h, draft.time)
               IN /\ r.ok /\ r.gas \in Nat
                  /\ new[n] = Applied(r.state, new[n - 1].fee + r.fee, new[n - 1].gas + r.gas)
    <3>1. n - 1 \in 0..N /\ new[n - 1] = acc[n - 1]
      BY <1>3, <2>6
    <3>2. CASE n = N + 1
      <4>1. n - 1 = N
        BY <1>3, <3>2
      <4>2. applyTx(list[n], <<h, n>>, new[n - 1].state, h, draft.time) = res
        <5> HIDE DEF h, s, N
        <5> QED
          BY <2>4, <2>7, <3>1, <3>2, <4>1 DEF res
      <4>3. new[n] = Applied(res.state, new[n - 1].fee + res.fee, new[n - 1].gas + res.gas)
        <5>1. new[n - 1].fee = draft.fees /\ new[n - 1].gas = draft.gas
          BY <2>7, <3>1, <4>1
        <5> QED
          BY <2>6, <3>2, <5>1 DEF fees, gas
      <4> HIDE DEF last
      <4> QED
        BY <2>1, <2>2, <4>2, <4>3
    <3>3. CASE n # N + 1
      <4>1. n \in 1..N /\ n \in 0..N
        BY <1>3, <3>3
      <4>2. list[n] = draft.txs[n] /\ new[n] = acc[n]
        BY <2>4, <2>6, <4>1
      <4> HIDE DEF h
      <4> QED
        BY <2>5, <3>1, <4>1, <4>2 DEF Replays
    <3> QED
      BY <3>2, <3>3
  <2>10. Replays(new, list, chainState, h, draft.time)
    <3> HIDE DEF h, N
    <3> QED
      BY <2>4, <2>8, <2>9 DEF Replays
  <2>11. new[Len(list)] = Applied(res.state, fees, gas)
    BY <2>4, <2>6
  <2>12. /\ Replays(new, draft'.txs, chainState', height' + 1, draft'.time)
         /\ new[Len(draft'.txs)] = Applied(draft'.state, draft'.fees, draft'.gas)
    BY <1>4, <2>3, <2>10, <2>11
  <2> QED
    BY <2>3, <2>12 DEF DraftReplays
<1> QED
  BY <1>6, <1>7

\* The chain stays timely: own blocks, and those of others.
LEMMA PromoteTimely ==
    ASSUME LedgerInv, Timely, NEW block, block.time \in Nat, NEW body, Promote(block, body)
    PROVE  Timely'
<1> DEFINE top == [time |-> block.time, bits |-> block.bits]
<1>1. blocks' = Append(blocks, top) /\ top.time = block.time
  BY DEF Promote
<1> HIDE DEF top
<1>2. /\ Len(blocks') = Len(blocks) + 1 /\ Len(blocks) \in Nat
      /\ blocks'[Len(blocks) + 1] = top /\ \A n \in 1..Len(blocks) : blocks'[n] = blocks[n]
  BY <1>1, ListAdd DEF LedgerInv, SupplyInv
<1>3. ASSUME NEW i \in 1..Len(blocks') PROVE blocks'[i].time \in Nat
  <2>1. CASE i = Len(blocks) + 1
    BY <1>1, <1>2, <2>1
  <2>2. CASE i # Len(blocks) + 1
    <3>1. i \in 1..Len(blocks)
      BY <1>2, <2>2
    <3> QED
      BY <1>2, <3>1 DEF Timely
  <2> QED
    BY <2>1, <2>2
<1> QED
  BY <1>3 DEF Timely

LEMMA ForeignTimely ==
    ASSUME LedgerInv, Timely, now \in Nat, NEW block \in Foreign
    PROVE  block.time \in Nat
<1>1. Len(blocks) \in Nat \ {0} /\ MAX_FUTURE_DRIFT \in Nat
  BY ConsensusConstants DEF LedgerInv, SupplyInv
<1>2. \E time, extends, bits, claim, txs :
         block = OthersBlock(time, extends, bits, claim, txs) /\ time \in Nat
  <2>1. CASE block \in Claims
    <3> DEFINE Bodies == {<<>>} \cup {<<tx>> : tx \in UNION {Tips(u) : u \in chainState.utxos}}
               By(claim, txs) == OthersBlock(MineTime, TRUE, nextBitsFor(blocks, height + 1), claim, txs)
    <3>0. Claims = {By(claim, txs) : claim \in -1..2, txs \in Bodies}
      BY DEF Claims
    <3>1. PICK claim \in -1..2, txs \in Bodies : block = By(claim, txs)
      <4> HIDE DEF By, Bodies
      <4> QED
        BY <2>1, <3>0
    <3>2. MineTime \in Nat
      BY <1>1, MineTimeLater
    <3> QED
      BY <3>1, <3>2
  <2>2. CASE block \in Timings
    <3>1. 0..(now + MAX_FUTURE_DRIFT + 1) \subseteq Nat
      OBVIOUS
    <3>2. PICK time \in 0..(now + MAX_FUTURE_DRIFT + 1), extends \in BOOLEAN,
               bits \in {nextBitsFor(blocks, height + 1), GENESIS_BITS} :
             block = OthersBlock(time, extends, bits, 0, <<>>)
      BY <2>2 DEF Timings
    <3>3. time \in Nat
      BY <3>1, <3>2
    <3> QED
      BY <3>2, <3>3
  <2> QED
    BY <2>1, <2>2 DEF Foreign
<1>3. PICK time, extends, bits, claim, txs :
         block = OthersBlock(time, extends, bits, claim, txs) /\ time \in Nat
  BY <1>2
<1> DEFINE all == <<coinbaseTx(Miner, blockSubsidy(height + 1) + claim, height + 1)>> \o txs
<1>4. block = [height |-> height + 1, extends |-> extends, time |-> time, bits |-> bits,
               txs |-> all, stateRoot |-> None]
  BY <1>3 DEF OthersBlock
<1> HIDE DEF all
<1> QED
  BY <1>3, <1>4

LEMMA MineNext ==
    ASSUME NEW kept, GuardObeys(kept), LedgerInv, LocksInv(kept), MineInv,
           [BlockchainNext]_blockchainVars
    PROVE  MineInv'
<1>0. Len(blocks) \in Nat \ {0}
  BY DEF LedgerInv, SupplyInv
<1>1. CASE \E at \in {None} \cup FixedTimes : BeginMine(at)
  <2>0. PICK at \in {None} \cup FixedTimes : BeginMine(at)
    BY <1>1
  <2> DEFINE time == IF at = None THEN MineTime ELSE at
  <2>1. /\ draft' = [time |-> time, txs |-> <<>>, state |-> chainState, fees |-> 0, gas |-> 0]
        /\ UNCHANGED <<blocks, chainState, now>> /\ fixed' = at
    BY <2>0 DEF BeginMine
  <2>2. time \in Nat /\ (time > medianTimePast(blocks) \/ (at # None /\ at <= medianTimePast(blocks)))
    <3>1. MineTime \in Nat /\ MineTime > medianTimePast(blocks)
      BY <1>0, MineTimeLater DEF MineInv
    <3>2. medianTimePast(blocks) \in Nat
      BY <1>0, MedianNatural DEF MineInv
    <3>3. at # None => at \in Nat
      BY DEF FixedTimes
    <3> QED
      BY <3>1, <3>2, <3>3
  <2> HIDE DEF time
  <2>3. draft'.time = time /\ draft'.txs = <<>> /\ draft'.state = chainState
        /\ draft'.fees = 0 /\ draft'.gas = 0
    BY <2>1
  <2>4. DraftReplays'
    <3> DEFINE acc == [n \in 0..0 |-> Applied(chainState, 0, 0)]
    <3>1. acc[0] = Applied(chainState, 0, 0) /\ Len(draft'.txs) = 0 /\ 1..0 = {}
      BY <2>3
    <3> HIDE DEF acc
    <3>2. Replays(acc, draft'.txs, chainState', height' + 1, draft'.time)
      BY <2>1, <3>1 DEF Replays
    <3>3. acc[Len(draft'.txs)] = Applied(draft'.state, draft'.fees, draft'.gas)
      BY <2>3, <3>1
    <3> QED
      BY <3>2, <3>3 DEF DraftReplays
  <2>5. /\ Timely' /\ now' \in Nat /\ draft'.time \in Nat
        /\ draft'.time > medianTimePast(blocks') \/ FixedEarly'
    BY <2>1, <2>2, <2>3 DEF MineInv, Timely, FixedEarly
  <2> QED
    BY <2>4, <2>5 DEF MineInv
<1>2. ASSUME NEW tx \in Txs(draft.state), Offer(tx), draft # None PROVE MineInv'
  <2>1. UNCHANGED <<blocks, fixed, now>>
    BY <1>2 DEF Offer
  <2>2. DraftReplays' /\ (draft' # None => draft'.time = draft.time)
    BY <1>2, OfferReplays DEF MineInv
  <2>3. Timely' /\ now' \in Nat
    BY <2>1 DEF MineInv, Timely
  <2>4. draft' # None => /\ draft'.time \in Nat
                         /\ draft'.time > medianTimePast(blocks') \/ FixedEarly'
    BY <1>2, <2>1, <2>2 DEF MineInv, FixedEarly
  <2> QED
    BY <2>2, <2>3, <2>4 DEF MineInv
<1>3. CASE Seal
  <2>1. draft' = None /\ draft # None /\ UNCHANGED now
    BY <1>3 DEF Seal
  <2>2. Own.time = draft.time
    BY DEF Own
  <2>3. Promote(Own, BodyOutcome(Own)) \/ UNCHANGED blocks
    BY <1>3 DEF Seal
  <2>4. Timely'
    <3>1. CASE Promote(Own, BodyOutcome(Own))
      BY <2>1, <2>2, <3>1, PromoteTimely DEF MineInv
    <3>2. CASE UNCHANGED blocks
      BY <3>2 DEF MineInv, Timely
    <3> QED
      BY <2>3, <3>1, <3>2
  <2> QED
    BY <2>1, <2>4 DEF MineInv, DraftReplays
<1>4. ASSUME NEW block \in Foreign, AddBlock(block) PROVE MineInv'
  <2>1. UNCHANGED <<draft, now>> /\ draft = None /\ Promote(block, BodyOutcome(block))
    BY <1>4 DEF AddBlock
  <2>2. block.time \in Nat
    BY ForeignTimely DEF MineInv
  <2>3. Timely'
    BY <2>1, <2>2, PromoteTimely DEF MineInv
  <2> QED
    BY <2>1, <2>3 DEF MineInv, DraftReplays
<1>5. CASE Tick
  BY <1>5 DEF Tick, MineInv, FixedEarly, Timely, DraftReplays
<1>6. CASE UNCHANGED blockchainVars
  BY <1>6 DEF blockchainVars, MineInv, FixedEarly, Timely, DraftReplays, height
<1> QED
  BY <1>1, <1>2, <1>3, <1>4, <1>5, <1>6 DEF BlockchainNext

\* The draft that is put away becomes the next block.
DraftIsSomething == \A t, l, s, f, g :
    [time |-> t, txs |-> l, state |-> s, fees |-> f, gas |-> g] # None

LEMMA SealTaken ==
    ASSUME NEW kept, GuardObeys(kept), SupplyCapped, DraftIsSomething, LedgerInv, MineInv,
           [BlockchainNext]_blockchainVars, draft # None, draft' = None
    PROVE  \/ height' = height + 1
           \/ draft.gas > BLOCK_GAS_LIMIT \/ Len(draft.txs) >= MAX_BLOCK_TXS
           \/ FixedEarly
<1> SUFFICES ASSUME ~(draft.gas > BLOCK_GAS_LIMIT), ~(Len(draft.txs) >= MAX_BLOCK_TXS),
                    ~FixedEarly
             PROVE  height' = height + 1
  OBVIOUS
<1>1. draft' # draft
  OBVIOUS
<1>2. ~\E tx \in Txs(draft.state) : Offer(tx)
  <2> SUFFICES ASSUME NEW tx, Offer(tx) PROVE FALSE
    OBVIOUS
  <2>1. PICK res : draft' = [draft EXCEPT !.txs = Append(@, tx), !.state = res.state,
                                          !.fees = @ + res.fee, !.gas = @ + res.gas]
    BY <1>1 DEF Offer
  <2> DEFINE list == Append(draft.txs, tx)
             fees == draft.fees + res.fee
             gas == draft.gas + res.gas
  <2>2. draft' = [draft EXCEPT !.txs = list, !.state = res.state, !.fees = fees, !.gas = gas]
    BY <2>1
  <2> HIDE DEF list, fees, gas
  <2>3. draft = [time |-> draft.time, txs |-> draft.txs, state |-> draft.state,
                 fees |-> draft.fees, gas |-> draft.gas]
    BY DEF LedgerInv, DraftListed
  <2>4. draft' = [time |-> draft.time, txs |-> list, state |-> res.state, fees |-> fees, gas |-> gas]
    BY <2>2, <2>3
  <2> QED
    BY <2>4 DEF DraftIsSomething
<1>3. Seal
  BY <1>1, <1>2 DEF BlockchainNext, BeginMine, AddBlock, Tick, blockchainVars
<1>4. draft.gas <= BLOCK_GAS_LIMIT /\ Len(draft.txs) < MAX_BLOCK_TXS
  <2>1. draft.gas \in Nat
    <3>1. PICK acc : /\ Replays(acc, draft.txs, chainState, height + 1, draft.time)
                     /\ acc[Len(draft.txs)] = Applied(draft.state, draft.fees, draft.gas)
      BY DEF MineInv, DraftReplays
    <3>2. Len(draft.txs) \in Nat
      <4> DEFINE list == draft.txs
                 S == Range(list)
      <4>1. list \in Seq(S)
        BY DEF LedgerInv, DraftListed, Listed
      <4> HIDE DEF list, S
      <4>2. Len(list) \in Nat
        BY <4>1
      <4> QED
        BY <4>2 DEF list
    <3>3. Len(draft.txs) \in 0..Len(draft.txs)
      BY <3>2
    <3>4. acc[Len(draft.txs)].gas \in Nat
      BY <3>1, <3>2, <3>3, GasAdds
    <3> QED
      BY <3>1, <3>4 DEF Applied
  <2>2. Len(draft.txs) \in Nat
    <3> DEFINE list == draft.txs
               S == Range(list)
    <3>1. list \in Seq(S)
      BY DEF LedgerInv, DraftListed, Listed
    <3> HIDE DEF list, S
    <3>2. Len(list) \in Nat
      BY <3>1
    <3> QED
      BY <3>2 DEF list
  <2>3. BLOCK_GAS_LIMIT \in Nat /\ MAX_BLOCK_TXS \in Nat
    BY BlockchainConstants, ConsensusConstants
  <2> QED
    BY <2>1, <2>2, <2>3
<1>5. Accepts(Own, BodyOutcome(Own), draft.time + 1)
  BY <1>4, OwnTaken DEF MineInv
<1>6. Promote(Own, BodyOutcome(Own))
  BY <1>3, <1>5 DEF Seal
<1>7. Len(blocks') = Len(blocks) + 1 /\ Len(blocks) \in Nat
  <2>1. \E top : blocks' = Append(blocks, top)
    BY <1>6 DEF Promote
  <2> QED
    BY <2>1, ListAdd DEF LedgerInv, SupplyInv
<1> QED
  BY <1>7 DEF height

\* Whatever has been applied to the draft, in whatever order, the block mined from it passes
\* every check of addBlock, on the chain it was drafted on: all mineBlock leaves to chance is
\* how many transactions it takes, how much gas they use and a time its caller insists on. Any guard that keeps to its
\* terms will do, and any schedule of issuance capped as block.ts caps its own.
THEOREM MinedIsTaken ==
    ASSUME NEW CONSTANT kept, GuardObeys(kept), SupplyCapped, DraftIsSomething
    PROVE  BlockchainSpec => MinedIsAdded
<1>1. BlockchainSpec => []LedgerInv
  BY LedgerInit, LedgerNext, PTL DEF BlockchainSpec
<1>2. BlockchainInit => LocksInv(kept)
  BY LocksInit
<1>3. LedgerInv /\ LocksInv(kept) /\ [BlockchainNext]_blockchainVars => LocksInv(kept)'
  BY LocksNext
<1>4. LedgerInv /\ LocksInv(kept) /\ MineInv /\ [BlockchainNext]_blockchainVars => MineInv'
  BY MineNext
<1>5. LedgerInv /\ MineInv /\ [BlockchainNext]_blockchainVars =>
        [draft # None /\ draft' = None =>
           \/ height' = height + 1
           \/ draft.gas > BLOCK_GAS_LIMIT \/ Len(draft.txs) >= MAX_BLOCK_TXS
           \/ (fixed # None /\ fixed <= medianTimePast(blocks))]_blockchainVars
  BY SealTaken DEF FixedEarly
<1> QED
  BY <1>1, <1>2, <1>3, <1>4, <1>5, MineInit, PTL DEF BlockchainSpec, MinedIsAdded

----------------------------------------------------------------------------
(***************************************************************************)
(* Where instructions start.                                               *)
(***************************************************************************)
Scan == [starts : SUBSET Nat, next : Nat]

Taken(code, w) == [starts |-> w.starts \cup {w.next}, next |-> w.next + 1 + Width(code[w.next + 1])]
OneOn(code) == [w \in Scan |-> IF w.next >= Len(code) THEN w ELSE Taken(code, w)]
TwiceOn(code, g) == [w \in Scan |-> IF w.next >= Len(code) THEN w ELSE g[g[w]]]

\* A scan under way: 0 is the first start, and after a start comes a start or the offset
\* reached.
ScanHolds(code, w) ==
    /\ w \in Scan
    /\ w.next = 0 \/ 0 \in w.starts
    /\ \A s \in w.starts : s + 1 + Width(code[s + 1]) \in w.starts \cup {w.next}

\* A walk goes on by count instructions at least, if there are as many.
WalksOn(code, g, count) ==
    \A w \in Scan : ScanHolds(code, w) =>
        /\ ScanHolds(code, g[w])
        /\ g[w].next >= Len(code) \/ g[w].next >= w.next + count

LEMMA WidthNatural == \A op : Width(op) \in Nat
BY DEF Width, IsPush, OP

LEMMA OneWalks ==
    ASSUME NEW code, Len(code) \in Nat
    PROVE  OneOn(code) \in [Scan -> Scan] /\ WalksOn(code, OneOn(code), 1)
<1>1. ASSUME NEW w \in Scan, w.next < Len(code)
      PROVE  /\ Taken(code, w) \in Scan /\ Taken(code, w).next >= w.next + 1
             /\ ScanHolds(code, w) => ScanHolds(code, Taken(code, w))
  <2> DEFINE on == w.next + 1 + Width(code[w.next + 1])
             t == Taken(code, w)
  <2>1. w.starts \in SUBSET Nat /\ w.next \in Nat
    BY DEF Scan
  <2>2. on \in Nat /\ on >= w.next + 1
    BY <2>1, WidthNatural
  <2>3. t.starts = w.starts \cup {w.next} /\ t.next = on /\ t = [starts |-> t.starts, next |-> t.next]
    BY DEF Taken
  <2> HIDE DEF t
  <2>4. t \in Scan
    BY <2>1, <2>2, <2>3 DEF Scan
  <2>5. ASSUME ScanHolds(code, w) PROVE ScanHolds(code, t)
    <3>1. 0 \in t.starts
      BY <2>3, <2>5 DEF ScanHolds
    <3>2. \A s \in t.starts : s + 1 + Width(code[s + 1]) \in t.starts \cup {t.next}
      BY <2>3, <2>5 DEF ScanHolds
    <3> QED
      BY <2>4, <3>1, <3>2 DEF ScanHolds
  <2> QED
    BY <2>2, <2>3, <2>4, <2>5 DEF t
<1>2. \A w \in Scan : w.next \in Nat
  BY DEF Scan
<1>3. OneOn(code) \in [Scan -> Scan]
  BY <1>1, <1>2 DEF OneOn
<1>4. WalksOn(code, OneOn(code), 1)
  BY <1>1, <1>2 DEF OneOn, WalksOn
<1> QED
  BY <1>3, <1>4

LEMMA TwiceWalks ==
    ASSUME NEW code, Len(code) \in Nat, NEW g \in [Scan -> Scan]
    PROVE  /\ TwiceOn(code, g) \in [Scan -> Scan]
           /\ \A c \in Nat : WalksOn(code, g, c) => WalksOn(code, TwiceOn(code, g), 2 * c)
<1>1. TwiceOn(code, g) \in [Scan -> Scan]
  BY DEF TwiceOn
<1>2. ASSUME NEW c \in Nat, WalksOn(code, g, c), NEW w \in Scan, ScanHolds(code, w)
      PROVE  LET t == TwiceOn(code, g)[w]
             IN ScanHolds(code, t) /\ (t.next >= Len(code) \/ t.next >= w.next + 2 * c)
  <2> DEFINE t == TwiceOn(code, g)[w]
             u == g[w]
             v == g[u]
  <2>1. /\ ScanHolds(code, u) /\ (u.next >= Len(code) \/ u.next >= w.next + c)
        /\ u \in Scan
    BY <1>2 DEF WalksOn
  <2>2. ScanHolds(code, v) /\ (v.next >= Len(code) \/ v.next >= u.next + c) /\ v \in Scan
    BY <1>2, <2>1 DEF WalksOn
  <2>3. t = IF w.next >= Len(code) THEN w ELSE v
    BY DEF TwiceOn
  <2>4. w.next \in Nat /\ u.next \in Nat /\ v.next \in Nat
    BY <2>1, <2>2 DEF Scan
  <2> HIDE DEF t, u, v
  <2>5. u.next >= Len(code) => v.next >= Len(code) \/ v.next >= w.next + 2 * c
    BY <1>2, <2>1, <2>2, <2>4
  <2> QED
    BY <1>2, <2>1, <2>2, <2>3, <2>4, <2>5 DEF t
<1> QED
  BY <1>1, <1>2 DEF WalksOn

\* The walk that Starts is defined by is there.
WalkOf(code, f) ==
    f = [k \in 0..15 |->
           [w \in [starts : SUBSET Nat, next : Nat] |->
              IF w.next >= Len(code) THEN w
              ELSE IF k = 0
              THEN [starts |-> w.starts \cup {w.next},
                    next |-> w.next + 1 + Width(code[w.next + 1])]
              ELSE f[k - 1][f[k - 1][w]]]]

LEMMA WalkTurns ==
    ASSUME NEW code, NEW f, WalkOf(code, f)
    PROVE  f[0] = OneOn(code) /\ \A k \in 1..15 : f[k] = TwiceOn(code, f[k - 1])
<1> DEFINE Turned(k) == [w \in Scan |-> IF w.next >= Len(code) THEN w
                                        ELSE IF k = 0 THEN Taken(code, w)
                                        ELSE f[k - 1][f[k - 1][w]]]
<1>1. f = [k \in 0..15 |-> Turned(k)]
  BY DEF WalkOf, Scan, Taken
<1>2. \A k \in 0..15 : f[k] = Turned(k)
  <2> HIDE DEF Turned
  <2> QED
    BY <1>1
<1>3. Turned(0) = OneOn(code)
  BY DEF OneOn
<1>4. ASSUME NEW k \in 1..15 PROVE Turned(k) = TwiceOn(code, f[k - 1])
  <2>1. k # 0
    OBVIOUS
  <2> QED
    BY <2>1 DEF TwiceOn
<1> HIDE DEF Turned
<1>5. \A k \in 1..15 : k \in 0..15
  OBVIOUS
<1> QED
  BY <1>2, <1>3, <1>4, <1>5

LEMMA WalkExists ==
    ASSUME NEW code, Len(code) \in Nat
    PROVE  \E f : WalkOf(code, f)
<1> DEFINE P == [Scan -> Scan]
           Twice == [x \in P \X (1..15) |-> TwiceOn(code, x[1])]
<1>1. OneOn(code) \in P
  BY OneWalks
<1>2. StepOn(Twice, P, 15)
  <2>1. \A x \in P \X (1..15) : x[1] \in [Scan -> Scan]
    OBVIOUS
  <2>2. \A x \in P \X (1..15) : TwiceOn(code, x[1]) \in P
    BY <2>1, TwiceWalks
  <2> HIDE DEF P
  <2> QED
    BY <2>2 DEF StepOn
<1>3. PICK f : RunOf(f, Twice, P, OneOn(code), 15)
  <2> HIDE DEF P, Twice
  <2> QED
    BY <1>1, <1>2, RecursionExists
<1>4. f \in [0..15 -> P] /\ f[0] = OneOn(code) /\ \A k \in 1..15 : f[k] = TwiceOn(code, f[k - 1])
  <2>1. \A k \in 1..15 : f[k - 1] \in P
    <3> HIDE DEF P, Twice
    <3>1. \A k \in 1..15 : k - 1 \in 0..15
      OBVIOUS
    <3> QED
      BY <1>3, <3>1 DEF RunOf
  <2>2. \A k \in 1..15 : Twice[<<f[k - 1], k>>] = TwiceOn(code, f[k - 1])
    <3> HIDE DEF P
    <3> QED
      BY <2>1
  <2> HIDE DEF P, Twice
  <2> QED
    BY <1>3, <2>2 DEF RunOf
<1> DEFINE Next1(k) == [w \in [starts : SUBSET Nat, next : Nat] |->
                          IF w.next >= Len(code) THEN w
                          ELSE IF k = 0
                          THEN [starts |-> w.starts \cup {w.next},
                                next |-> w.next + 1 + Width(code[w.next + 1])]
                          ELSE f[k - 1][f[k - 1][w]]]
<1>5. ASSUME NEW k \in 0..15 PROVE f[k] = Next1(k)
  <2>1. CASE k = 0
    BY <1>4, <2>1 DEF OneOn, Scan, Taken
  <2>2. CASE k # 0
    <3>1. k \in 1..15
      BY <2>2
    <3> QED
      BY <1>4, <2>2, <3>1 DEF TwiceOn, Scan
  <2> QED
    BY <2>1, <2>2
<1>6. f = [k \in 0..15 |-> f[k]]
  <2>1. f \in [0..15 -> P]
    BY <1>4
  <2> HIDE DEF P
  <2> QED
    BY <2>1
<1> QED
  <2>1. f = [k \in 0..15 |-> Next1(k)]
    BY <1>5, <1>6
  <2> QED
    BY <2>1 DEF WalkOf

\* The starts of a code: the first byte, and after an instruction the next one, until
\* the code ends.
StartsFollow(code) ==
    /\ Starts(code) \subseteq Nat
    /\ Len(code) > 0 => 0 \in Starts(code)
    /\ \A s \in Starts(code) :
          LET on == s + 1 + Width(code[s + 1])
          IN on < Len(code) => on \in Starts(code)

LEMMA StartsHold ==
    ASSUME NEW code, Len(code) \in Nat, Len(code) < 32768
    PROVE  StartsFollow(code)
<1> DEFINE walk == CHOOSE f : WalkOf(code, f)
           none == [starts |-> {}, next |-> 0]
<1>1. WalkOf(code, walk)
  BY WalkExists
<1>2. Starts(code) = walk[15][none].starts
  BY DEF Starts, WalkOf
<1> HIDE DEF walk
<1>3. walk[0] = OneOn(code)
  BY <1>1, WalkTurns
<1>4. \A k \in 1..15 : walk[k] = TwiceOn(code, walk[k - 1])
  BY <1>1, WalkTurns
<1>5. Len(code) \in Nat
  OBVIOUS
<1> DEFINE Far(k, c) == walk[k] \in [Scan -> Scan] /\ WalksOn(code, walk[k], c)
<1> HIDE DEF Far
<1>7. \A k \in 1..15 : \A c \in Nat : Far(k - 1, c) => Far(k, 2 * c)
  <2> SUFFICES ASSUME NEW k \in 1..15, NEW c \in Nat, Far(k - 1, c) PROVE Far(k, 2 * c)
    OBVIOUS
  <2>2. walk[k] = TwiceOn(code, walk[k - 1])
    BY <1>1, WalkTurns
  <2>3. /\ TwiceOn(code, walk[k - 1]) \in [Scan -> Scan]
        /\ WalksOn(code, TwiceOn(code, walk[k - 1]), 2 * c)
    BY <1>5, TwiceWalks DEF Far
  <2> QED
    BY <2>2, <2>3 DEF Far
<1>8. Far(0, 1)
  BY <1>3, <1>5, OneWalks DEF Far
<1>9. Far(4, 16)
  <2>1. Far(1, 2)
    BY <1>7, <1>8
  <2>2. Far(2, 4)
    BY <1>7, <2>1
  <2>3. Far(3, 8)
    BY <1>7, <2>2
  <2> QED
    BY <1>7, <2>3
<1>10. Far(8, 256)
  <2>1. Far(5, 32)
    BY <1>7, <1>9
  <2>2. Far(6, 64)
    BY <1>7, <2>1
  <2>3. Far(7, 128)
    BY <1>7, <2>2
  <2> QED
    BY <1>7, <2>3
<1>11. Far(12, 4096)
  <2>1. Far(9, 512)
    BY <1>7, <1>10
  <2>2. Far(10, 1024)
    BY <1>7, <2>1
  <2>3. Far(11, 2048)
    BY <1>7, <2>2
  <2> QED
    BY <1>7, <2>3
<1>12. Far(15, 32768)
  <2>1. Far(13, 8192)
    BY <1>7, <1>11
  <2>2. Far(14, 16384)
    BY <1>7, <2>1
  <2> QED
    BY <1>7, <2>2
<1>13. none \in Scan /\ ScanHolds(code, none) /\ none.next = 0
  BY DEF Scan, ScanHolds
<1> DEFINE last == walk[15][none]
<1>14. ScanHolds(code, last) /\ last.next >= Len(code)
  <2>1. ScanHolds(code, last) /\ (last.next >= Len(code) \/ last.next >= 0 + 32768)
    BY <1>12, <1>13 DEF Far, WalksOn
  <2>2. last.next \in Nat
    BY <2>1 DEF ScanHolds, Scan
  <2> HIDE DEF last
  <2> QED
    BY <2>1, <2>2
<1> HIDE DEF last
<1>15. Starts(code) = last.starts
  BY <1>2 DEF last
<1>16. last.starts \in SUBSET Nat /\ last.next \in Nat
  BY <1>14 DEF ScanHolds, Scan
<1>17. Len(code) > 0 => 0 \in last.starts
  BY <1>14, <1>16 DEF ScanHolds
<1>18. \A s \in last.starts :
          LET on == s + 1 + Width(code[s + 1])
          IN on < Len(code) => on \in last.starts
  BY <1>14, <1>16 DEF ScanHolds
<1> QED
  BY <1>15, <1>16, <1>17, <1>18 DEF StartsFollow

----------------------------------------------------------------------------
(***************************************************************************)
(* Where a turn leaves the machine.                                        *)
(***************************************************************************)
Machine(m) == m = [status |-> m.status, pc |-> m.pc, stack |-> m.stack, storage |-> m.storage,
                   gas |-> m.gas, refund |-> m.refund, ret |-> m.ret]

\* m is a machine, at one of these places.
MachineAt(m, places) == Machine(m) /\ m.pc \in places

LEMMA HaltStays ==
    ASSUME NEW m, Machine(m), NEW s, NEW r, r = [m EXCEPT !.status = s, !.stack = <<>>]
    PROVE  MachineAt(r, {m.pc})
<1>1. r.pc = m.pc
  BY DEF Machine
<1>2. Machine(r)
  BY DEF Machine
<1> QED
  BY <1>1, <1>2 DEF MachineAt

LEMMA FailStays ==
    ASSUME NEW ctx, NEW m, Machine(m)
    PROVE  MachineAt(Fail(ctx, m), {m.pc})
<1> DEFINE r == Fail(ctx, m)
<1>1. r = [m EXCEPT !.status = "failed", !.stack = <<>>, !.gas = ctx.gasLimit]
  BY DEF Fail
<1> HIDE DEF r
<1>2. r.pc = m.pc
  BY <1>1 DEF Machine
<1>3. Machine(r)
  BY <1>1 DEF Machine
<1> QED
  BY <1>2, <1>3 DEF MachineAt, r

LEMMA DoneStays ==
    ASSUME NEW m, Machine(m), NEW ret
    PROVE  MachineAt(Done(m, ret), {m.pc})
<1> DEFINE less == m.gas - Min({m.refund, m.gas \div 5})
<1>1. Done(m, ret) = [m EXCEPT !.status = "done", !.stack = <<>>, !.ret = ret, !.gas = less]
  BY DEF Done, Machine
<1> HIDE DEF less
<1> QED
  BY <1>1 DEF Machine, MachineAt

LEMMA PayStays ==
    ASSUME NEW ctx, NEW m, Machine(m), NEW cost
    PROVE  MachineAt(Pay(ctx, m, cost), {m.pc})
<1>1. CASE m.gas + cost > ctx.gasLimit
  BY <1>1, FailStays DEF Pay
<1>2. CASE ~(m.gas + cost > ctx.gasLimit)
  <2> DEFINE more == m.gas + cost
  <2>1. Pay(ctx, m, cost) = [m EXCEPT !.gas = more]
    BY <1>2 DEF Pay
  <2> HIDE DEF more
  <2> QED
    BY <2>1 DEF Machine, MachineAt
<1> QED
  BY <1>1, <1>2

LEMMA OnwardGoes ==
    ASSUME NEW ctx, NEW m, Machine(m), NEW stack, NEW pc
    PROVE  MachineAt(Onward(ctx, m, stack, pc), {m.pc, pc})
<1>1. CASE m.status = "failed" \/ Len(stack) > MAX_STACK
  <2>1. Onward(ctx, m, stack, pc) = Fail(ctx, m)
    BY <1>1 DEF Onward
  <2> QED
    BY <2>1, FailStays DEF MachineAt
<1>2. CASE ~(m.status = "failed" \/ Len(stack) > MAX_STACK)
  <2>1. Onward(ctx, m, stack, pc) = [m EXCEPT !.stack = stack, !.pc = pc]
    BY <1>2 DEF Onward
  <2> QED
    BY <2>1 DEF Machine, MachineAt
<1> QED
  BY <1>1, <1>2

\* What is paid for first is at the same place.
LEMMA PaidOnwardGoes ==
    ASSUME NEW ctx, NEW m, Machine(m), NEW cost, NEW stack, NEW pc
    PROVE  MachineAt(Onward(ctx, Pay(ctx, m, cost), stack, pc), {m.pc, pc})
<1> DEFINE paid == Pay(ctx, m, cost)
<1>1. Machine(paid) /\ paid.pc = m.pc
  BY PayStays DEF MachineAt
<1> HIDE DEF paid
<1>2. MachineAt(Onward(ctx, paid, stack, pc), {paid.pc, pc})
  BY <1>1, OnwardGoes
<1> QED
  BY <1>1, <1>2 DEF paid

LEMMA PushGoes ==
    ASSUME NEW code, NEW ctx, NEW m, Machine(m), NEW width
    PROVE  MachineAt(Push(code, ctx, m, width), {m.pc, m.pc + 1 + width})
<1> DEFINE paid == Pay(ctx, m, GAS_PUSH)
           next == m.pc + 1 + width
           stack == Append(m.stack, BigEndian(SubSeq(code, m.pc + 2, next)))
<1>1. MachineAt(paid, {m.pc}) /\ MachineAt(Onward(ctx, paid, stack, next), {m.pc, next})
  BY PayStays, PaidOnwardGoes
<1>2. \/ Push(code, ctx, m, width) = [paid EXCEPT !.status = "failed", !.stack = <<>>]
      \/ Push(code, ctx, m, width) = Onward(ctx, paid, stack, next)
  BY DEF Push
<1> HIDE DEF paid, next, stack
<1>3. MachineAt([paid EXCEPT !.status = "failed", !.stack = <<>>], {m.pc})
  <2>1. Machine(paid) /\ paid.pc = m.pc
    BY <1>1 DEF MachineAt
  <2> QED
    BY <2>1, HaltStays
<1> QED
  BY <1>1, <1>2, <1>3 DEF MachineAt, next

LEMMA DupGoes ==
    ASSUME NEW ctx, NEW m, Machine(m), NEW depth
    PROVE  MachineAt(Dup(ctx, m, depth), {m.pc, m.pc + 1})
<1> DEFINE stack == Append(m.stack, Arg(m, depth))
<1>1. \/ Dup(ctx, m, depth) = Fail(ctx, m)
      \/ Dup(ctx, m, depth) = Onward(ctx, Pay(ctx, m, GAS_DUP), stack, m.pc + 1)
  BY DEF Dup
<1> HIDE DEF stack
<1> QED
  BY <1>1, FailStays, PaidOnwardGoes DEF MachineAt

LEMMA SwapGoes ==
    ASSUME NEW ctx, NEW m, Machine(m), NEW depth
    PROVE  MachineAt(Swap(ctx, m, depth), {m.pc, m.pc + 1})
<1> DEFINE top == Len(m.stack)
           stack == [m.stack EXCEPT ![top] = m.stack[top - depth], ![top - depth] = m.stack[top]]
<1>1. \/ Swap(ctx, m, depth) = Fail(ctx, m)
      \/ Swap(ctx, m, depth) = Onward(ctx, Pay(ctx, m, GAS_SWAP), stack, m.pc + 1)
  BY DEF Swap
<1> HIDE DEF stack
<1> QED
  BY <1>1, FailStays, PaidOnwardGoes DEF MachineAt

LEMMA JumpGoes ==
    ASSUME NEW code, NEW ctx, NEW m, Machine(m), NEW n
    PROVE  MachineAt(JumpTo(code, ctx, m, n), {m.pc} \cup ScanJumpdests(code))
<1>1. CASE Arg(m, 1) \in ScanJumpdests(code)
  <2>1. JumpTo(code, ctx, m, n) = Onward(ctx, m, Popped(m, n), Arg(m, 1))
    BY <1>1 DEF JumpTo
  <2>2. MachineAt(JumpTo(code, ctx, m, n), {m.pc, Arg(m, 1)})
    BY <2>1, OnwardGoes
  <2> QED
    BY <1>1, <2>2 DEF MachineAt
<1>2. CASE Arg(m, 1) \notin ScanJumpdests(code)
  BY <1>2, FailStays DEF JumpTo, MachineAt
<1> QED
  BY <1>1, <1>2

LEMMA StoreGoes ==
    ASSUME NEW ctx, NEW m, Machine(m)
    PROVE  MachineAt(Store(ctx, m), {m.pc, m.pc + 1})
<1> DEFINE on == Onward(ctx, m, Popped(m, 2), m.pc + 1)
           saved == Saved(m.storage, Arg(m, 1), Arg(m, 2))
           refund == IF Arg(m, 2) = 0 /\ Load(m.storage, Arg(m, 1)) # 0
                     THEN on.refund + GAS_SSTORE_CLEAR_REFUND ELSE on.refund
<1>1. MachineAt(on, {m.pc, m.pc + 1})
  BY OnwardGoes
<1>2. Store(ctx, m) = [on EXCEPT !.storage = saved, !.refund = refund]
  BY <1>1 DEF Store, MachineAt, Machine
<1> HIDE DEF on, saved, refund
<1> QED
  BY <1>1, <1>2 DEF MachineAt, Machine

LEMMA PerformGoes ==
    ASSUME NEW op, NEW code, NEW ctx, NEW m, Machine(m)
    PROVE  MachineAt(Perform(op, code, ctx, m), {m.pc, m.pc + 1} \cup ScanJumpdests(code))
<1> DEFINE r == Perform(op, code, ctx, m)
<1>1. \/ \E ret : r = Done(m, ret)
      \/ r = [m EXCEPT !.status = "reverted", !.stack = <<>>]
      \/ r = Fail(ctx, m)
      \/ \E stack : r = Onward(ctx, m, stack, m.pc + 1)
      \/ r = Store(ctx, m)
      \/ \E n : r = JumpTo(code, ctx, m, n)
  BY DEF Perform
<1> HIDE DEF r
<1>2. MachineAt([m EXCEPT !.status = "reverted", !.stack = <<>>], {m.pc})
  BY HaltStays
<1>3. MachineAt(r, {m.pc}) \/ MachineAt(r, {m.pc, m.pc + 1})
      \/ MachineAt(r, {m.pc} \cup ScanJumpdests(code))
  BY <1>1, <1>2, DoneStays, FailStays, OnwardGoes, StoreGoes, JumpGoes
<1> QED
  BY <1>3 DEF MachineAt, r

\* A turn leaves the machine where it was, or at the next instruction, or at a jump
\* destination.
LEMMA StepGoes ==
    ASSUME NEW code, Len(code) \in Nat, NEW ctx, NEW m, Machine(m), m.pc \in Nat
    PROVE  LET r == Step(code, ctx, m)
           IN /\ Machine(r)
              /\ \/ r.pc = m.pc
                 \/ m.pc < Len(code) /\ r.pc = m.pc + 1 + Width(code[m.pc + 1])
                 \/ r.pc \in ScanJumpdests(code)
<1> DEFINE r == Step(code, ctx, m)
           op == code[m.pc + 1]
<1>1. CASE m.pc >= Len(code)
  <2>1. r = Done(m, <<>>)
    BY <1>1 DEF Step
  <2> HIDE DEF r
  <2> QED
    BY <2>1, DoneStays DEF MachineAt, r
<1>2. CASE m.pc < Len(code)
  <2> DEFINE paid == Pay(ctx, m, GAS[op].gas + Dynamic(op, m))
  <2>0. ~(m.pc >= Len(code))
    BY <1>2
  <2>1. \/ IsPush(op) /\ r = Push(code, ctx, m, Width(op))
        \/ ~IsPush(op) /\ (\E depth : r = Dup(ctx, m, depth) \/ r = Swap(ctx, m, depth))
        \/ ~IsPush(op) /\ (r = Fail(ctx, m) \/ r = paid \/ r = Perform(op, code, ctx, paid))
    BY <2>0 DEF Step
  <2>2. ~IsPush(op) => Width(op) = 0
    BY DEF Width
  <2>3. MachineAt(paid, {m.pc})
    BY PayStays
  <2> HIDE DEF r, paid, op
  <2>4. MachineAt(Perform(op, code, ctx, paid), {m.pc, m.pc + 1} \cup ScanJumpdests(code))
    <3>1. Machine(paid) /\ paid.pc = m.pc
      BY <2>3 DEF MachineAt
    <3>2. MachineAt(Perform(op, code, ctx, paid), {paid.pc, paid.pc + 1} \cup ScanJumpdests(code))
      BY <3>1, PerformGoes
    <3> QED
      BY <3>1, <3>2
  <2>5. m.pc + 1 = m.pc + 1 + 0
    OBVIOUS
  <2>6. MachineAt(r, {m.pc, m.pc + 1 + Width(op)} \cup ScanJumpdests(code))
    <3>1. CASE IsPush(op)
      <4>1. r = Push(code, ctx, m, Width(op))
        BY <2>1, <3>1
      <4>2. MachineAt(r, {m.pc, m.pc + 1 + Width(op)})
        BY <4>1, PushGoes
      <4> QED
        BY <4>2 DEF MachineAt
    <3>2. CASE ~IsPush(op)
      <4>1. MachineAt(r, {m.pc, m.pc + 1} \cup ScanJumpdests(code))
        <5>1. CASE \E depth : r = Dup(ctx, m, depth) \/ r = Swap(ctx, m, depth)
          BY <5>1, DupGoes, SwapGoes DEF MachineAt
        <5>2. CASE r = Fail(ctx, m) \/ r = paid
          BY <2>3, <5>2, FailStays DEF MachineAt
        <5>3. CASE r = Perform(op, code, ctx, paid)
          BY <2>4, <5>3
        <5> QED
          BY <2>1, <3>2, <5>1, <5>2, <5>3
      <4>2. m.pc + 1 + Width(op) = m.pc + 1
        BY <2>2, <2>5, <3>2
      <4> QED
        BY <4>1, <4>2
    <3> QED
      BY <3>1, <3>2
  <2> QED
    BY <1>2, <2>6 DEF MachineAt, r, op
<1> QED
  BY <1>1, <1>2

\* The machine is at the start of an instruction of its program, or past its end.
AtInstruction ==
    /\ program \in Program
    /\ Machine(machine) /\ machine.pc \in Nat
    /\ machine.pc < Len(program.code) => machine.pc \in Starts(program.code)

LEMMA ProgramStarts ==
    ASSUME program \in Program
    PROVE  Len(program.code) \in Nat /\ StartsFollow(program.code)
<1>1. program.code \in Seq(0..255) /\ Len(program.code) <= MAX_CODE_SIZE
  BY RunConstants
<1>2. MAX_CODE_SIZE \in Nat /\ MAX_CODE_SIZE < 32768
  BY VmConstants
<1> DEFINE n == Len(program.code)
<1>3. n \in Nat
  BY <1>1
<1>4. n < 32768
  <2> HIDE DEF n
  <2> QED
    BY <1>1, <1>2, <1>3 DEF n
<1> QED
  BY <1>3, <1>4, StartsHold

LEMMA FreshMachine ==
    ASSUME NEW storage
    PROVE  Machine(Fresh(storage)) /\ Fresh(storage).pc = 0
BY DEF Fresh, Machine

LEMMA IdleMachine ==
    LET m == [Fresh(<<>>) EXCEPT !.status = "done"] IN Machine(m) /\ m.pc = 0
BY DEF Fresh, Machine

\* The first instruction starts a program.
LEMMA FirstStarts ==
    ASSUME program \in Program, UNCHANGED program, Machine(machine'), machine'.pc = 0
    PROVE  AtInstruction'
BY ProgramStarts DEF AtInstruction, StartsFollow

LEMMA InstructionInit == RunInit => AtInstruction
<1> SUFFICES ASSUME RunInit PROVE AtInstruction
  OBVIOUS
<1>1. program \in Program /\ machine = [Fresh(<<>>) EXCEPT !.status = "done"]
  BY DEF RunInit
<1>2. Machine(machine) /\ machine.pc = 0
  BY <1>1, IdleMachine
<1> QED
  BY <1>1, <1>2, ProgramStarts DEF AtInstruction, StartsFollow

LEMMA InstructionNext == AtInstruction /\ [RunNext]_runVars => AtInstruction'
<1> SUFFICES ASSUME AtInstruction, [RunNext]_runVars PROVE AtInstruction'
  OBVIOUS
<1>0. program \in Program
  BY DEF AtInstruction
<1>1. ASSUME NEW caller, NEW words, NEW spends, NEW gasLimit,
             Begin(caller, words, spends, gasLimit)
      PROVE  AtInstruction'
  <2>1. UNCHANGED program /\ machine' = Start(program.code, Ctx', account)
    BY <1>1 DEF Begin
  <2>2. machine' = Fresh(account) \/ machine' = Fail(Ctx', Fresh(account))
    BY <2>1 DEF Start
  <2>3. Machine(machine') /\ machine'.pc = 0
    BY <2>2, FreshMachine, FailStays DEF MachineAt
  <2> QED
    BY <1>0, <2>1, <2>3, FirstStarts
<1>2. CASE TakeTurn
  <2> DEFINE code == program.code
             on == machine.pc + 1 + Width(code[machine.pc + 1])
  <2>1. UNCHANGED program /\ machine' = Step(code, Ctx, machine)
    BY <1>2 DEF TakeTurn
  <2>2. Len(code) \in Nat /\ StartsFollow(code)
    BY <1>0, ProgramStarts
  <2>3. Machine(machine) /\ machine.pc \in Nat /\ (machine.pc < Len(code) => machine.pc \in Starts(code))
    BY DEF AtInstruction
  <2> HIDE DEF code
  <2>4. /\ Machine(machine')
        /\ \/ machine'.pc = machine.pc
           \/ machine.pc < Len(code) /\ machine'.pc = on
           \/ machine'.pc \in ScanJumpdests(code)
    BY <2>1, <2>2, <2>3, StepGoes
  <2>5. on \in Nat /\ (machine.pc < Len(code) /\ on < Len(code) => on \in Starts(code))
    BY <2>2, <2>3, WidthNatural DEF StartsFollow
  <2>6. ScanJumpdests(code) \subseteq Starts(code) /\ Starts(code) \subseteq Nat
    BY <2>2 DEF ScanJumpdests, StartsFollow
  <2> HIDE DEF on
  <2>7. machine'.pc \in Nat /\ (machine'.pc < Len(code) => machine'.pc \in Starts(code))
    BY <2>3, <2>4, <2>5, <2>6
  <2> QED
    BY <1>0, <2>1, <2>4, <2>7 DEF AtInstruction, code
<1>3. CASE End
  <2>1. UNCHANGED program /\ machine' = [Fresh(<<>>) EXCEPT !.status = "done"]
    BY <1>3 DEF End
  <2> QED
    BY <1>0, <2>1, IdleMachine, FirstStarts
<1>4. CASE UNCHANGED <<program, machine>>
  BY <1>4 DEF AtInstruction
<1>5. NextBlock \/ UNCHANGED runVars => UNCHANGED <<program, machine>>
  BY DEF NextBlock, runVars
<1> QED
  BY <1>1, <1>2, <1>3, <1>4, <1>5 DEF RunNext

\* Whatever bytes a contract is made of, and whatever it jumps to: the machine is never
\* inside the immediate of a PUSH.
THEOREM InstructionsOnly == RunSpec => []NeverExecutesData
<1>1. AtInstruction => NeverExecutesData
  BY DEF AtInstruction, NeverExecutesData
<1> QED
  BY <1>1, InstructionInit, InstructionNext, PTL DEF RunSpec
=============================================================================

------------------------------ MODULE Mempool ------------------------------
(***************************************************************************)
(* The transaction pool (chain/src/node/mempool.ts), driven as the node    *)
(* drives it: a transaction submitted, a block connected, a reorganisation *)
(* taken, a block mined from the pool (node.ts submitBlock and mineOne,    *)
(* chainstate.ts mineBlock), a restart.                                    *)
(*                                                                         *)
(* The chain is what the pool can see of it: the active chain as a list of *)
(* blocks, each the list of its transactions; the coinbase is left out,    *)
(* the pool never holds one.  A transaction is the resources it consumes   *)
(* and creates.  Its inputs are consumed outpoints; an account's next      *)
(* nonce, or a contract in a given state, is consumed too, but the pool's  *)
(* conflict index knows only the inputs.                                   *)
(***************************************************************************)
EXTENDS Integers, FiniteSets, SequencesExt

CONSTANTS
    Tx,
    Resource,
    Base,           \* resources of the genesis state
    Inputs,         \* Inputs[t]: the outpoints t's inputs name
    Consumes,       \* Consumes[t]: these, and nonces and contract states
    Creates,        \* Creates[t]
    MinAge,         \* MinAge[t]: relative lock of t's inputs, or maturity
    LockTime,       \* LockTime[t]: absolute lock
    Gas,            \* Gas[t]: gas used
    FeeRate,        \* FeeRate[t]: no two alike
    BlockGasLimit,
    MinFeeRate, MaxSize, ExpiryBlocks,
    OfferedBlocks,  \* bodies of the blocks peers may send
    MaxHeight, MaxReorg  \* bounds of the instance

ASSUME MempoolAssumption ==
    /\ Base \subseteq Resource
    /\ \A t \in Tx :
          /\ Inputs[t] # {} /\ Inputs[t] \subseteq Consumes[t]
          /\ Consumes[t] \cup Creates[t] \subseteq Resource
          /\ Creates[t] \cap Base = {}
          /\ {MinAge[t], LockTime[t], Gas[t], FeeRate[t]} \subseteq Nat
    /\ \A t, o \in Tx : t # o =>
          FeeRate[t] # FeeRate[o] /\ Creates[t] \cap Creates[o] = {}
    /\ OfferedBlocks \subseteq Seq(Tx)
    /\ {BlockGasLimit, MinFeeRate, MaxSize, ExpiryBlocks, MaxHeight, MaxReorg}
          \subseteq Nat

VARIABLES
    chain,   \* blocks above genesis
    pool,    \* entries: pool.at[t] = addedAtHeight; #spent: pool.spent[c] = t
    mined    \* outcome of the last mineOne

vars == <<chain, pool, mined>>

----------------------------------------------------------------------------
(***************************************************************************)
(* The world state as a draft: resources available, and the height each    *)
(* was made at.                                                            *)
(***************************************************************************)
GenesisState == [r \in Base |-> 0]

\* applyTx in a block at a given height.
Applies(t, st, height) ==
    /\ Consumes[t] \subseteq DOMAIN st
    /\ \A c \in Inputs[t] : height - st[c] >= MinAge[t]
    /\ height >= LockTime[t]

Apply(t, st, height) ==
    [r \in (DOMAIN st \ Consumes[t]) \cup Creates[t] |->
        IF r \in Creates[t] THEN height ELSE st[r]]

\* The draft after each transaction of a body, the state after each block.
DraftsOf(txs, st, height) ==
    LET d[n \in 0..Len(txs)] == IF n = 0 THEN st ELSE Apply(txs[n], d[n - 1], height)
    IN  d

ApplyAll(txs, st, height) == DraftsOf(txs, st, height)[Len(txs)]

StatesOf(blocks) ==
    LET s[h \in 0..Len(blocks)] ==
            IF h = 0 THEN GenesisState ELSE ApplyAll(blocks[h], s[h - 1], h)
    IN  s

StateAt(blocks) == StatesOf(blocks)[Len(blocks)]

\* Every transaction of a body applies where it stands.
BodyOk(txs, st, height) ==
    /\ \A i \in DOMAIN txs : Applies(txs[i], DraftsOf(txs, st, height)[i - 1], height)
    /\ FoldLeft(LAMBDA g, t : g + Gas[t], 0, txs) <= BlockGasLimit

ChainOk(blocks) ==
    \A h \in DOMAIN blocks : BodyOk(blocks[h], StatesOf(blocks)[h - 1], h)

Tip(blocks) == [state |-> StateAt(blocks), height |-> Len(blocks)]

----------------------------------------------------------------------------
(***************************************************************************)
(* The pool's own operations, as functions of the pool.                    *)
(***************************************************************************)
EmptyPool == [at |-> [t \in {} |-> 0], spent |-> [c \in {} |-> 0]]

Entries(p) == DOMAIN p.at

Insert(p, t, height) ==
    [ at    |-> [e \in Entries(p) \cup {t} |-> IF e = t THEN height ELSE p.at[e]],
      spent |-> [c \in DOMAIN p.spent \cup Inputs[t] |->
                    IF c \in Inputs[t] THEN t ELSE p.spent[c]] ]

RemoveEachKeepsIndex(p, ids) == [p EXCEPT !.at = [e \in Entries(p) \ ids |-> p.at[e]]]

\* remove() on each of some transactions: the order makes no difference.
RemoveEach(p, ids) ==
    LET gone == ids \cap Entries(p)
        held == {c \in DOMAIN p.spent :
                    \E t \in gone : c \in Inputs[t] /\ p.spent[c] = t}
    IN  [ at    |-> [e \in Entries(p) \ gone |-> p.at[e]],
          spent |-> [c \in DOMAIN p.spent \ held |-> p.spent[c]] ]

Cheapest(p) == CHOOSE t \in Entries(p) : \A o \in Entries(p) : FeeRate[t] <= FeeRate[o]

\* The transaction just admitted may be the one that goes.
EvictCheapest(p) ==
    IF Cardinality(Entries(p)) > MaxSize THEN RemoveEach(p, {Cheapest(p)}) ELSE p

Admissible(p, t, at) ==
    /\ t \notin Entries(p)
    /\ Inputs[t] \cap DOMAIN p.spent = {}
    /\ Applies(t, at.state, at.height + 1)
    /\ FeeRate[t] >= MinFeeRate

\* add(): validated against the tip's state alone, and not applied to it.
Add(p, t, at) ==
    IF Admissible(p, t, at) THEN EvictCheapest(Insert(p, t, at.height)) ELSE p

OnBlockConnected(p, txs) == RemoveEach(p, Range(txs))

OnBlockDisconnectedNothing(p, txs, at) == p

\* The block's transactions are offered again, in the block's order.
OnBlockDisconnected(p, txs, at) ==
    LET q[n \in 0..Len(txs)] == IF n = 0 THEN p ELSE Add(q[n - 1], txs[n], at)
    IN  q[Len(txs)]

RevalidateOnlyExpired(p, at) ==
    RemoveEach(p, {t \in Entries(p) : at.height - p.at[t] > ExpiryBlocks})

Revalidate(p, at) ==
    RemoveEach(p, {t \in Entries(p) :
                  \/ at.height - p.at[t] > ExpiryBlocks
                  \/ ~Applies(t, at.state, at.height + 1)})

\* forBlock(): dearest first.  It emits pooled parents before their children,
\* but a pooled transaction applies to the tip by itself: it has none.
ForBlock(p) ==
    CHOOSE s \in [1..Cardinality(Entries(p)) -> Entries(p)] :
        \A i, j \in DOMAIN s : i < j => FeeRate[s[i]] > FeeRate[s[j]]

\* mineBlock(): each candidate that applies to the draft is applied to it; it
\* is included if it also fits under the gas limit.  The header commits to
\* the draft.
Candidate(a, t, h) ==
    IF ~Applies(t, a.draft, h) THEN a
    ELSE IF a.gas + Gas[t] > BlockGasLimit
    THEN [a EXCEPT !.draft = Apply(t, @, h)]
    ELSE [ draft |-> Apply(t, a.draft, h), gas |-> a.gas + Gas[t],
           included |-> Append(a.included, t) ]

Assemble(txs, at) ==
    LET tried[n \in 0..Len(txs)] ==
            IF n = 0 THEN [draft |-> at.state, gas |-> 0, included |-> <<>>]
                     ELSE Candidate(tried[n - 1], txs[n], at.height + 1)
    IN  tried[Len(txs)]

----------------------------------------------------------------------------
Init ==
    /\ chain = <<>>
    /\ pool = EmptyPool
    /\ mined = "none"

SubmitTransaction(t) ==
    /\ pool' = Add(pool, t, Tip(chain))
    /\ UNCHANGED <<chain, mined>>

\* submitBlock, when the block extends the tip.
ConnectBlock(body) ==
    /\ Len(chain) < MaxHeight
    /\ BodyOk(body, StateAt(chain), Len(chain) + 1)
    /\ chain' = Append(chain, body)
    /\ pool' = Revalidate(OnBlockConnected(pool, body), Tip(chain'))
    /\ UNCHANGED mined

\* The blocks taken off a chain, highest first, are given back to the pool.
Restore(p, gone, at) ==
    LET q[n \in 0..Len(gone)] ==
            IF n = 0 THEN p ELSE OnBlockDisconnected(q[n - 1], gone[n], at)
    IN  q[Len(gone)]

Confirmed(blocks) == UNION {Range(blocks[h]) : h \in DOMAIN blocks}

\* submitBlock, when the block moves the tip to a branch one block longer:
\* the disconnected blocks' transactions are restored, highest block first,
\* those of the branch's blocks removed, and the whole pool revalidated.
TakeReorg(k, branch) ==
    /\ k \in 1..Len(chain) /\ Len(branch) = k + 1
    /\ Len(chain) < MaxHeight
    /\ LET kept == SubSeq(chain, 1, Len(chain) - k)
           gone == Reverse(SubSeq(chain, Len(chain) - k + 1, Len(chain)))
       IN  /\ Head(branch) # Last(gone)
           /\ ChainOk(kept \o branch)
           /\ chain' = kept \o branch
           /\ \E at \in {Tip(chain')} :
                 pool' = Revalidate(RemoveEach(Restore(pool, gone, at),
                                               Confirmed(branch)), at)
    /\ UNCHANGED mined

\* mineOne.  acceptBlock refuses the block when its state root, the draft's,
\* is not the one its transactions lead to; the pool is then left alone.
MineOne ==
    /\ Len(chain) < MaxHeight
    /\ LET at == Tip(chain)
           a  == Assemble(ForBlock(pool), at)
       IN  IF a.draft = ApplyAll(a.included, at.state, at.height + 1)
           THEN /\ chain' = Append(chain, a.included)
                /\ pool' = Revalidate(OnBlockConnected(pool, a.included), Tip(chain'))
                /\ mined' = "connected"
           ELSE /\ mined' = "invalid"
                /\ UNCHANGED <<chain, pool>>

\* The pool is not persisted.
Restart ==
    /\ pool' = EmptyPool
    /\ UNCHANGED <<chain, mined>>

Next ==
    \/ \E t \in Tx : SubmitTransaction(t)
    \/ \E body \in OfferedBlocks : ConnectBlock(body)
    \/ \E k \in 1..MaxReorg : \E branch \in [1..(k + 1) -> OfferedBlocks] :
          TakeReorg(k, branch)
    \/ MineOne
    \/ Restart

Spec == Init /\ [][Next]_vars

----------------------------------------------------------------------------
(***************************************************************************)
(* Properties.                                                             *)
(***************************************************************************)
\* The conflict index is exactly the inputs of the pooled transactions, after
\* any sequence of admissions, evictions, blocks and reorganisations: a stale
\* key would refuse a coin for ever, a missing one admit a double spend.
SpentIndexExact ==
    /\ DOMAIN pool.spent = UNION {Inputs[t] : t \in Entries(pool)}
    /\ \A t \in Entries(pool) : \A c \in Inputs[t] : pool.spent[c] = t

\* Whatever became of the chain since it was admitted, a pooled transaction
\* could be mined in the next block by itself, and has not expired.
PoolMineable ==
    \A t \in Entries(pool) :
        /\ Applies(t, StateAt(chain), Len(chain) + 1)
        /\ Len(chain) - pool.at[t] <= ExpiryBlocks

\* A reorganisation loses no transaction that stands by itself: one of a
\* disconnected block that could be mined next, and is not, is in the pool,
\* unless dearer ones filled it.
ReorgReturns ==
    [][LET back == Confirmed(chain) \ Confirmed(chain')
       IN  \A t \in back :
              Applies(t, StateAt(chain'), Len(chain') + 1) /\ FeeRate[t] >= MinFeeRate
                => \/ t \in Entries(pool')
                   \/ Cardinality({o \in Entries(pool) \cup back : FeeRate[o] > FeeRate[t]})
                        >= MaxSize]_vars

=============================================================================

----------------------------- MODULE Blockchain -----------------------------
(***************************************************************************)
(* chain.ts, class Blockchain: a chain in memory, which mines its own      *)
(* blocks and takes in others'.  mineBlock is one call of the code: its    *)
(* draft is begun, offered transactions one by one, and sealed.            *)
(***************************************************************************)
EXTENDS Transition

CONSTANTS
    BLOCK_GAS_LIMIT,
    Focus,          \* what a behaviour is about: "coins", "claims", "clock", "covenants"
    MaxHeight,      \* MaxHeight[focus], bound on the height
    MaxTxs,         \* MaxTxs[focus], bound on a block's transactions beside the coinbase
    MaxTime,        \* bound on the clock
    Miner,          \* who is paid for own blocks
    Keys,           \* key addresses
    Openings, Sequences, Locks, Fees,  \* what inputs and transactions choose from
    Payees,         \* records address, script: outputs of a transfer
    Guard           \* record code, height, beneficiary: the contract that is deployed

ASSUME BlockchainConstants ==
    /\ BLOCK_GAS_LIMIT \in Nat /\ Locks \subseteq Nat /\ Sequences \subseteq Nat
    /\ \A payee \in Payees :
         /\ payee.script.type = "htlc" => payee.script.timeout \in Nat
         /\ payee.script.type = "revocable" => payee.script.delay \in Nat

VARIABLES
    blocks,         \* headers: time, bits
    chainState,     \* utxos, contracts, nonces
    draft,          \* the block being assembled, or None
    fixed,          \* opts.time of the call that assembles it, or None
    now,            \* Date.now, in seconds
    focus,
    moved,          \* history: inputs the last transaction applied, and what they spent
    foregone        \* history: what coinbases were allowed and did not claim
blockchainVars == <<blocks, chainState, draft, fixed, now, focus, moved, foregone>>

height == Len(blocks) - 1

\* The genesis block pays the first subsidy.
BlockchainInit ==
    /\ blocks = <<[time |-> 0, bits |-> GENESIS_BITS]>>
    /\ chainState = [utxos |-> Created(coinbaseTx(Miner, blockSubsidy(0), 0), <<0, 0>>, 0),
                contracts |-> <<>>, nonces |-> <<>>]
    /\ draft = None /\ fixed = None /\ now = 0
    /\ focus \in Focus
    /\ moved = {} /\ foregone = 0

----------------------------------------------------------------------------
\* addBlock

\* What a transaction adds to what the ones before it led to.
Joined(acc, res) ==
    [ok |-> res.ok /\ acc.gas + res.gas <= BLOCK_GAS_LIMIT, state |-> res.state,
     fee |-> acc.fee + res.fee, gas |-> acc.gas + res.gas]
ApplyNext(txs, n, acc, h, time) ==
    IF ~acc.ok THEN acc
    ELSE Joined(acc, applyTx(txs[n], <<h, n>>, acc.state, h, time))

\* All transactions but the coinbase, in order.
ApplyAll(txs, s, h, time) ==
    LET acc[n \in 0..Len(txs)] ==
            IF n = 0 THEN Applied(s, 0, 0) ELSE ApplyNext(txs, n, acc[n - 1], h, time)
    IN acc[Len(txs)]

\* The outcome of the body of a block on top of the chain, and the fees it collects.
BodyOutcome(block) ==
    LET res == ApplyAll(Tail(block.txs), chainState, height + 1, block.time)
    IN IF ~res.ok THEN res
       ELSE [applyCoinbase(Head(block.txs), <<height + 1, 0>>, res.state, height + 1, res.fee)
             EXCEPT !.fee = res.fee]

Follows(block) ==
    /\ block.height = height + 1 /\ block.extends
    /\ block.bits = nextBitsFor(blocks, height + 1)
    /\ block.time > medianTimePast(blocks)

\* Taken in as a whole, if the state it leads to is the one it commits to; None is
\* the root of whatever state that is.
Accepts(block, body, clock) ==
    /\ checkHeader(block, clock)
    /\ Follows(block)
    /\ body.ok
    /\ block.stateRoot \in {None, body.state}

Promote(block, body) ==
    /\ blocks' = Append(blocks, [time |-> block.time, bits |-> block.bits])
    /\ chainState' = body.state
    /\ foregone' = foregone + blockSubsidy(height + 1) + body.fee
                     - SumValue(Head(block.txs).outs)

----------------------------------------------------------------------------
\* mineBlock

\* Mutant: a block as old as the median.
MineTimeNow == Max({now, medianTimePast(blocks)})
MineTime == Max({now, medianTimePast(blocks) + 1})

BeginMine(time) ==
    /\ focus # "claims"
    /\ draft = None /\ height < MaxHeight[focus]
    /\ fixed' = time
    /\ draft' = [time |-> IF time = None THEN MineTime ELSE time, txs |-> <<>>, state |-> chainState, fees |-> 0, gas |-> 0]
    /\ moved' = {}
    /\ UNCHANGED <<blocks, chainState, now, focus, foregone>>

\* One of the offered transactions: accepted, or reported as rejected.
Offer(tx) ==
    /\ draft # None /\ Len(draft.txs) < MaxTxs[focus]
    /\ \E res \in {applyTx(tx, <<height + 1, Len(draft.txs) + 1>>, draft.state, height + 1,
                            draft.time)} :
          IF res.ok
          THEN /\ draft' = [draft EXCEPT !.txs = Append(@, tx), !.state = res.state,
                                         !.fees = @ + res.fee, !.gas = @ + res.gas]
               /\ moved' = {[input |-> tx.ins[i], prev |-> Prevs(tx, draft.state)[i], tx |-> tx] :
                               i \in DOMAIN tx.ins}
          ELSE UNCHANGED <<draft, moved>>
    /\ UNCHANGED <<blocks, chainState, fixed, now, focus, foregone>>

Own ==
    LET cb == coinbaseTx(Miner, blockSubsidy(height + 1) + draft.fees, height + 1)
    IN [height |-> height + 1, extends |-> TRUE, time |-> draft.time,
        bits |-> nextBitsFor(blocks, height + 1), txs |-> <<cb>> \o draft.txs,
        stateRoot |-> applyCoinbase(cb, <<height + 1, 0>>, draft.state, height + 1,
                                    draft.fees).state]

\* Mined, and given to addBlock.
Seal ==
    /\ draft # None
    /\ \E block \in {Own} : \E body \in {BodyOutcome(block)} :
         IF Accepts(block, body, draft.time + 1) THEN Promote(block, body)
         ELSE UNCHANGED <<blocks, chainState, foregone>>
    /\ draft' = None /\ fixed' = None
    /\ moved' = {}
    /\ UNCHANGED <<now, focus>>

\* A block from elsewhere.
AddBlock(block) ==
    /\ draft = None /\ height < MaxHeight[focus]
    /\ \E body \in {BodyOutcome(block)} : Accepts(block, body, now) /\ Promote(block, body)
    /\ moved' = {}
    /\ UNCHANGED <<draft, fixed, now, focus>>

Tick ==
    /\ focus = "clock" /\ draft = None /\ now < MaxTime
    /\ now' = now + 1
    /\ UNCHANGED <<blocks, chainState, draft, fixed, focus, moved, foregone>>

----------------------------------------------------------------------------
\* Transactions and blocks the environment makes, bounded by the focus.

\* The times a caller of mineBlock may insist on.
FixedTimes == IF focus = "clock" THEN 0..(now + MAX_FUTURE_DRIFT + 1) ELSE {}

\* What the script of the coin does not look at is fixed.
Inputs(u) ==
    {TxInput(u.id, key, cosign, opening, sequence) :
        key \in Keys,
        cosign \in IF u.script.type = "multisig2" THEN {None} \cup Keys ELSE {None},
        opening \in IF u.script.type = "htlc" THEN {None} \cup Openings ELSE {None},
        sequence \in IF u.script.type = "revocable" THEN Sequences ELSE {SequenceFinal}}

Transfers(s) ==
    UNION {{transferTx(<<input>>, <<TxOutput(u.value - fee, payee.address, payee.script)>>, lock) :
              input \in Inputs(u), payee \in Payees, fee \in Fees,
              lock \in IF u.script.type = "htlc" THEN Locks ELSE {0}} : u \in s.utxos}

Plain(u, key) == TxInput(u.id, key, None, None, SequenceFinal)
GasLimit == 100000

\* Deploying the guard with the coin it guards, and calls that spend such a coin or not.
Keyed(s) == {u \in s.utxos : ~isContractAddress(u.address)}
PayTo(value, to) == <<TxOutput(value - GasLimit, to, p2pkh)>>

Deployments(s) ==
    {deployTx(<<Plain(u, u.address)>>, PayTo(u.value, contractAddress(u.address, n)),
              Guard.code, GasLimit, 1, n) : u \in Keyed(s), n \in 0..1}

Together(u, g) == {<<Plain(u, u.address), Plain(g, u.address)>>,
                   <<Plain(g, u.address), Plain(u, u.address)>>}
Releases(s) ==
    UNION {{callTx(ins, PayTo(u.value + g.value, to), g.address, <<>>, GasLimit, price) :
              ins \in Together(u, g), to \in Keys, price \in 0..1} :
                u \in Keyed(s), g \in s.utxos \ Keyed(s)}

Calls(s) ==
    {callTx(<<Plain(u, u.address)>>, PayTo(u.value, u.address), c, <<>>, GasLimit, 1) :
        u \in Keyed(s), c \in DOMAIN s.contracts}

Txs(s) == IF focus = "coins" THEN Transfers(s)
          ELSE IF focus = "covenants" THEN Deployments(s) \cup Releases(s) \cup Calls(s)
          ELSE {}

\* Blocks of others: claiming less or more than their fees allow, in time or not, on
\* the tip or not, right in difficulty or not.
OthersBlock(time, extends, bits, claim, txs) ==
    [height |-> height + 1, extends |-> extends, time |-> time, bits |-> bits,
     txs |-> <<coinbaseTx(Miner, blockSubsidy(height + 1) + claim, height + 1)>> \o txs,
     stateRoot |-> None]

Tips(u) == {transferTx(<<Plain(u, Miner)>>, <<TxOutput(u.value - fee, Miner, p2pkh)>>, 0) :
              fee \in Fees}
Claims == {OthersBlock(MineTime, TRUE, nextBitsFor(blocks, height + 1), claim, txs) :
              claim \in -1..2,
              txs \in {<<>>} \cup {<<tx>> : tx \in UNION {Tips(u) : u \in chainState.utxos}}}
Timings == {OthersBlock(time, extends, bits, 0, <<>>) :
              time \in 0..(now + MAX_FUTURE_DRIFT + 1), extends \in BOOLEAN,
              bits \in {nextBitsFor(blocks, height + 1), GENESIS_BITS}}
Foreign == IF focus = "claims" THEN Claims ELSE IF focus = "clock" THEN Timings ELSE {}

BlockchainNext ==
    \/ \E time \in {None} \cup FixedTimes : BeginMine(time)
    \/ draft # None /\ \E tx \in Txs(draft.state) : Offer(tx)
    \/ Seal
    \/ \E block \in Foreign : AddBlock(block)
    \/ Tick

BlockchainSpec == BlockchainInit /\ [][BlockchainNext]_blockchainVars

----------------------------------------------------------------------------

supply == SumFunctionOnSet([u \in chainState.utxos |-> u.value], chainState.utxos)

\* auditSupply: the unspent outputs total the subsidies issued so far, less what
\* miners were allowed and left unclaimed, and never more; fees move and are never
\* made or lost.
SupplyBalanced ==
    /\ supply + foregone = cumulativeIssuance(height)
    /\ supply <= cumulativeIssuance(height)

\* Who opens a hash lock without what opens it at once.
RefundOf(x) ==
    /\ ~isContractAddress(x.prev.address) /\ x.prev.script.type = "htlc"
    /\ x.input.opening # x.prev.script.lock

\* A refund waits for its timeout.  (The delay of a revocable output is no such lock:
\* an input with the final sequence is held to none, chain.ts:464 and tx.ts:509.)
RefundsWait == \A x \in moved : RefundOf(x) => height + 1 >= x.prev.script.timeout

\* What the contract guards moves at its height, and pays its beneficiary.
Guarded ==
    \A x \in moved : isContractAddress(x.prev.address) =>
        /\ height + 1 >= Guard.height
        /\ \E i \in DOMAIN x.tx.outs : x.tx.outs[i].address = Guard.beneficiary

\* The timeouts of hash locks and the heights of contracts hold on the chain, whichever
\* of checkTx, applyTx and the contract's code enforces the half of each.
LocksHold == RefundsWait /\ Guarded

\* What Guarded trusts the code of the contract with: a run on a storage it keeps leaves
\* one it keeps, and approves at its height only, to its beneficiary.
GuardAnswers(ctx, storage, kept) ==
    LET vm == Executed(Guard.code, ctx, Start(Guard.code, ctx, storage))
    IN vm.status = "done" =>
         /\ vm.storage \in kept /\ vm.gas \in Nat
         /\ Len(vm.ret) > 0 /\ vm.ret[1] # 0 =>
              /\ ctx.blockNumber >= Guard.height
              /\ Len(vm.ret) > 1 /\ vm.ret[2] = AddressWord(Guard.beneficiary)

\* All that is issued, halved for ever, stays within what there may be, and that within
\* what one output may hold (INITIAL_SUBSIDY and MAX_SUPPLY of block.ts, MAX_MONEY of tx.ts).
SupplyCapped ==
    /\ 2 * (HALVING_INTERVAL * INITIAL_SUBSIDY) <= MAX_SUPPLY
    /\ MAX_SUPPLY <= MAX_MONEY

\* And its beneficiary's word is nobody else's.
People == Keys \cup {Miner} \cup {payee.address : payee \in Payees}
BeneficiaryTold ==
    /\ AddressWord(Guard.beneficiary) # 0
    /\ \A a \in People : AddressWord(a) = AddressWord(Guard.beneficiary) => a = Guard.beneficiary

\* mineBlock mines what addBlock takes: the block it seals is always added, unless it has
\* more transactions or its contracts use more gas than a block may (mineBlock counts
\* neither), or its caller fixed a time that is not later than the median.
MinedIsAdded ==
    [][draft # None /\ draft' = None =>
          \/ height' = height + 1
          \/ draft.gas > BLOCK_GAS_LIMIT \/ Len(draft.txs) >= MAX_BLOCK_TXS
          \/ fixed # None /\ fixed <= medianTimePast(blocks)]_blockchainVars
=============================================================================

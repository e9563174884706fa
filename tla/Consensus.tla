----------------------------- MODULE Consensus -----------------------------
(***************************************************************************)
(* block.ts: the arithmetic every node must agree on.  Hashing, the proof  *)
(* of work and the merkle root are left out: a block here meets the target *)
(* it claims and commits to the transactions it carries.                   *)
(***************************************************************************)
EXTENDS Integers, Sequences, FiniteSets, FiniteSetsExt, SequencesExt

CONSTANTS
    HALVING_INTERVAL, INITIAL_SUBSIDY, MAX_HALVINGS, MAX_SUPPLY,
    RETARGET_INTERVAL, TARGET_SPACING, GENESIS_BITS,
    MAX_BLOCK_TXS, MAX_FUTURE_DRIFT,
    MEDIAN_WINDOW      \* 11 in the code

ASSUME ConsensusConstants ==
    /\ {HALVING_INTERVAL, RETARGET_INTERVAL, TARGET_SPACING, MEDIAN_WINDOW} \subseteq Nat \ {0}
    /\ {INITIAL_SUBSIDY, MAX_HALVINGS, MAX_SUPPLY, GENESIS_BITS, MAX_BLOCK_TXS,
        MAX_FUTURE_DRIFT} \subseteq Nat

----------------------------------------------------------------------------
\* Issuance.

\* v >> n
ShiftedRight(v, n) ==
    LET shifted[k \in 0..n] == IF k = 0 THEN v ELSE shifted[k - 1] \div 2
    IN shifted[n]

blockSubsidy(height) ==
    LET halvings == height \div HALVING_INTERVAL
    IN IF halvings >= MAX_HALVINGS THEN 0 ELSE ShiftedRight(INITIAL_SUBSIDY, halvings)

\* Issued up to and including height, in closed form.
cumulativeIssuance(height) ==
    LET fullEras == Min({(height + 1) \div HALVING_INTERVAL, MAX_HALVINGS})
        perBlock(era) == ShiftedRight(INITIAL_SUBSIDY, era)
        remainder == height + 1 - fullEras * HALVING_INTERVAL
        eras == 0..(fullEras - 1)
    IN SumFunctionOnSet([era \in eras |-> HALVING_INTERVAL * perBlock(era)], eras)
       + (IF remainder > 0 /\ fullEras < MAX_HALVINGS THEN remainder * perBlock(fullEras) ELSE 0)

\* Height of the last block that is paid a subsidy.
terminalHeight ==
    LET dry == {era \in 0..(MAX_HALVINGS - 1) : ShiftedRight(INITIAL_SUBSIDY, era) = 0}
    IN (IF dry = {} THEN MAX_HALVINGS ELSE Min(dry)) * HALVING_INTERVAL - 1

----------------------------------------------------------------------------
\* Difficulty: a target in the compact form nBits, a size and three bytes.

bitsToTarget(bits) ==
    LET exponent == bits \div (2 ^ 24)
        mantissa == bits % (2 ^ 23)
    IN IF exponent <= 3 THEN mantissa \div (256 ^ (3 - exponent))
       ELSE mantissa * (256 ^ (exponent - 3))

\* TLC's integers bound a target by 2^31, four bytes.
targetToBits(target) ==
    LET size == Cardinality({i \in 0..3 : target >= 256 ^ i})
        compact == IF size <= 3 THEN target * (256 ^ (3 - size)) ELSE target \div (256 ^ (size - 3))
    IN IF (compact \div (2 ^ 23)) % 2 = 1 THEN (compact \div 256) + (size + 1) * (2 ^ 24)
       ELSE compact + size * (2 ^ 24)

TARGET_TIMESPAN == RETARGET_INTERVAL * TARGET_SPACING
MAX_TARGET == bitsToTarget(GENESIS_BITS)

nextBits(currentBits, actualTimespan) ==
    LET clamped == Min({Max({actualTimespan, TARGET_TIMESPAN \div 4}), TARGET_TIMESPAN * 4})
    IN targetToBits(Min({(bitsToTarget(currentBits) * clamped) \div TARGET_TIMESPAN, MAX_TARGET}))

----------------------------------------------------------------------------
\* Chain rules on times and difficulty; blocks[h + 1] is the block at height h.

\* Of the sorted times the middle one, the later of two middles: the first that more
\* than half of them do not exceed.
medianTimePast(blocks) ==
    LET window == 1..Min({Len(blocks), MEDIAN_WINDOW})
        time(i) == blocks[Len(blocks) + 1 - i].time
        upto(t) == {i \in window : time(i) <= t}
    IN Min({t \in {time(i) : i \in window} : 2 * Cardinality(upto(t)) > Cardinality(window)})

\* Difficulty of the block at a height.
nextBitsFor(blocks, height) ==
    LET currentBits == Last(blocks).bits
    IN IF height = 0 \/ height % RETARGET_INTERVAL # 0 THEN currentBits
       ELSE nextBits(currentBits,
                     Last(blocks).time - blocks[height - RETARGET_INTERVAL + 1].time)

checkHeader(block, now) ==
    /\ Len(block.txs) \in 1..MAX_BLOCK_TXS
    /\ \A i \in DOMAIN block.txs : block.txs[i].kind = "coinbase" <=> i = 1
    /\ block.time <= now + MAX_FUTURE_DRIFT
=============================================================================

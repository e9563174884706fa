----------------------------- MODULE Covenants -----------------------------
(***************************************************************************)
(* contracts/lib.ts and contracts/index.ts: the fragments contracts are    *)
(* assembled from and the five standard contracts, as token sequences;     *)
(* asm turns them into bytes.  Each answers <<approved, beneficiary>>.     *)
(***************************************************************************)
EXTENDS Vm

Op(name) == <<"op", OP[name]>>
Imm(v) == <<"word", v>>
At(name) == <<"at", name>>
LabelOf(name) == <<"label", name>>
flat(parts) == FlattenSeq(parts)

----------------------------------------------------------------------------
\* The assembler.

MinimalBytes(v) ==
    LET n == IF v = 0 THEN 1 ELSE ByteLen(v)
    IN [i \in 1..n |-> (v \div (256 ^ (n - i))) % 256]

\* Bytes of a token; labels says where each label was put.
Bytes(t, labels) ==
    CASE t[1] = "op" -> <<t[2]>>
      [] t[1] = "label" -> <<OP.JUMPDEST>>
      [] t[1] = "at" -> <<OP.PUSH1 + 1, labels[t[2]] \div 256, labels[t[2]] % 256>>
      [] t[1] = "word" -> LET raw == MinimalBytes(t[2])
                          IN <<OP.PUSH1 + Len(raw) - 1>> \o raw

\* Laid out with placeholders first, then the labels are patched in.
asm(tokens) ==
    LET at == {i \in 1..Len(tokens) : tokens[i][1] = "label"}
        names == {tokens[i][2] : i \in at}
        sizes == [i \in 1..Len(tokens) |-> Len(Bytes(tokens[i], [l \in names |-> 0]))]
        offset == [i \in 1..Len(tokens) |-> SumFunctionOnSet(sizes, 1..(i - 1))]
        labels == [l \in names |-> offset[CHOOSE i \in at : tokens[i][2] = l]]
    IN FlattenSeq([i \in 1..Len(tokens) |-> Bytes(tokens[i], labels)])

----------------------------------------------------------------------------
\* lib.ts

load(slot) == <<Imm(slot), Op("SLOAD")>>
store(slot, value) == <<Imm(value), Imm(slot), Op("SSTORE")>>
increment(slot) == load(slot) \o <<Imm(1), Op("ADD"), Imm(slot), Op("SSTORE")>>
\* height >= storage[slot]
heightAtLeastSlot(slot) == <<Op("NUMBER")>> \o load(slot) \o <<Op("GT"), Op("ISZERO")>>
\* height > storage[slot]
heightPastSlot(slot) == load(slot) \o <<Op("NUMBER"), Op("GT")>>
callerIsSlot(slot) == <<Op("CALLER")>> \o load(slot) \o <<Op("EQ")>>
calldata(i) == <<Imm(i), Op("CALLDATA")>>
preimageMatchesSlot(i, slot) == calldata(i) \o <<Op("SHA256")>> \o load(slot) \o <<Op("EQ")>>
jumpIf(name) == <<At(name), Op("JUMPI")>>
jump(name) == <<At(name), Op("JUMP")>>
label(name) == <<LabelOf(name)>>
TOPIC == 1
approveTo(slot) ==
    load(slot) \o <<Imm(1), Imm(TOPIC), Op("LOG"), Imm(1)>> \o load(slot)
               \o <<Imm(2), Op("RETURN")>>
deny == <<Imm(0), Imm(1), Imm(TOPIC), Op("LOG"), Imm(0), Imm(0), Imm(2), Op("RETURN")>>

\* The opening of every contract: its terms are stored on the first run only.
Opening(next, terms) ==
    load(0) \o <<Op("ISZERO")>> \o jumpIf("init") \o jump(next) \o label("init") \o flat(terms)

----------------------------------------------------------------------------
\* index.ts

timeVault(unlockHeight, beneficiary) ==
    Opening("check", <<store(0, unlockHeight), store(1, AddressWord(beneficiary))>>)
    \o label("check") \o increment(2) \o heightAtLeastSlot(0) \o jumpIf("ok") \o deny
    \o label("ok") \o approveTo(1)

escrow(deadlineHeight, seller, buyer, arbiter) ==
    Opening("dispatch",
        <<store(0, deadlineHeight), store(1, AddressWord(seller)),
          store(2, AddressWord(buyer)), store(3, AddressWord(arbiter))>>)
    \o label("dispatch")
    \o calldata(0) \o <<Imm(1), Op("EQ")>> \o jumpIf("release")
    \o calldata(0) \o <<Imm(2), Op("EQ")>> \o jumpIf("refund") \o deny
    \o label("release") \o callerIsSlot(2) \o callerIsSlot(3) \o <<Op("OR")>>
    \o jumpIf("doRelease") \o deny
    \o label("doRelease") \o store(4, 1) \o approveTo(1)
    \o label("refund") \o callerIsSlot(1) \o callerIsSlot(3) \o <<Op("OR")>>
    \o jumpIf("doRefund")
    \o callerIsSlot(2) \o heightPastSlot(0) \o <<Op("AND")>> \o jumpIf("doRefund") \o deny
    \o label("doRefund") \o store(4, 1) \o approveTo(2)

vesting(cliffHeight, beneficiary, intervalBlocks, tranches) ==
    Opening("check",
        <<store(0, cliffHeight), store(1, AddressWord(beneficiary)),
          store(2, intervalBlocks), store(3, tranches)>>)
    \o label("check")
    \o load(3) \o load(4) \o <<Op("LT"), Op("ISZERO")>> \o jumpIf("exhausted")
    \o <<Op("NUMBER")>> \o load(0) \o load(4) \o load(2)
    \o <<Op("MUL"), Op("ADD"), Op("GT"), Op("ISZERO")>> \o jumpIf("ok") \o deny
    \o label("exhausted") \o deny
    \o label("ok") \o increment(4) \o approveTo(1)

OWNER_BASE == 10

\* owners is a sequence of addresses, the comparisons are unrolled.
ownerCheck(owners) ==
    flat([i \in 1..Len(owners) |->
            callerIsSlot(OWNER_BASE + i - 1) \o (IF i > 1 THEN <<Op("OR")>> ELSE <<>>)])

\* Mutant: an owner who has approved already is counted again.
multiSigRecounting(threshold, owners, beneficiary) ==
    Opening("check",
        <<store(0, threshold), store(1, AddressWord(beneficiary))>>
        \o [i \in 1..Len(owners) |-> store(OWNER_BASE + i - 1, AddressWord(owners[i]))])
    \o label("check") \o ownerCheck(owners) \o jumpIf("isOwner") \o deny
    \o label("isOwner") \o increment(2)
    \o load(2) \o load(0) \o <<Op("GT"), Op("ISZERO")>> \o jumpIf("ok") \o deny
    \o label("ok") \o approveTo(1)

multiSig(threshold, owners, beneficiary) ==
    Opening("check",
        <<store(0, threshold), store(1, AddressWord(beneficiary))>>
        \o [i \in 1..Len(owners) |-> store(OWNER_BASE + i - 1, AddressWord(owners[i]))])
    \o label("check") \o ownerCheck(owners) \o jumpIf("isOwner") \o deny
    \o label("isOwner") \o <<Op("CALLER"), Op("SLOAD")>> \o jumpIf("tally")
    \o <<Imm(1), Op("CALLER"), Op("SSTORE")>> \o increment(2)
    \o label("tally") \o load(2) \o load(0) \o <<Op("GT"), Op("ISZERO")>> \o jumpIf("ok") \o deny
    \o label("ok") \o approveTo(1)

atomicSwap(timeoutHeight, receiver, refundTo, hashWord) ==
    Opening("check",
        <<store(0, timeoutHeight), store(1, AddressWord(receiver)),
          store(2, AddressWord(refundTo)), store(3, hashWord)>>)
    \o label("check") \o preimageMatchesSlot(0, 3) \o jumpIf("claim")
    \o heightPastSlot(0) \o jumpIf("refund") \o deny
    \o label("claim") \o calldata(0) \o <<Imm(4), Op("SSTORE")>> \o approveTo(1)
    \o label("refund") \o approveTo(2)
=============================================================================

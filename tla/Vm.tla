--------------------------------- MODULE Vm ---------------------------------
(***************************************************************************)
(* vm.ts: the contract machine.  Step is one turn of the loop of execute,  *)
(* a function of the code (a sequence of bytes), the context of the call   *)
(* and the machine; a machine halts as done, failed or reverted.  Words    *)
(* have W bits (256 in the code).  Logs and error texts are left out.      *)
(***************************************************************************)
EXTENDS Integers, Sequences, FiniteSets, SequencesExt, FiniteSetsExt, Functions, TLC

CONSTANTS
    W,               \* bits of a word
    MAX_STACK,
    MAX_CODE_SIZE,
    Digest(_),       \* SHA-256 of a word, as a word
    AddressWord(_)   \* addressWord: an address folded into a word

ASSUME VmConstants ==
    /\ W \in Nat \ {0} /\ MAX_STACK \in Nat \ {0}
    /\ MAX_CODE_SIZE \in Nat /\ MAX_CODE_SIZE < 32768      \* 24,576 in the code

Wrap(v) == v % (2 ^ W)

OP == [STOP |-> 0, ADD |-> 1, MUL |-> 2, SUB |-> 3, DIV |-> 4, MOD |-> 5, EXP |-> 10,
       LT |-> 16, GT |-> 17, EQ |-> 20, ISZERO |-> 21, AND |-> 22, OR |-> 23, XOR |-> 24,
       NOT |-> 25, SHL |-> 27, SHR |-> 28, SHA256 |-> 32, ADDRESS |-> 48, BALANCE |-> 49,
       CALLER |-> 51, CALLVALUE |-> 52, CALLDATA |-> 53, CALLDATASIZE |-> 54, TIMESTAMP |-> 66,
       NUMBER |-> 67, POP |-> 80, SLOAD |-> 84, SSTORE |-> 85, JUMP |-> 86, JUMPI |-> 87,
       PC |-> 88, GAS |-> 90, JUMPDEST |-> 91, PUSH1 |-> 96, PUSH32 |-> 127, DUP1 |-> 128,
       DUP16 |-> 143, SWAP1 |-> 144, SWAP16 |-> 159, LOG |-> 160, RETURN |-> 243,
       REVERT |-> 253, INVALID |-> 254]

\* Gas of an opcode, words it takes and words it gives.
Priced(ops, gas, takes, gives) ==
    [op \in {OP[o] : o \in ops} |-> [gas |-> gas, takes |-> takes, gives |-> gives]]
GAS == Priced({"STOP", "REVERT"}, 0, 0, 0)
    @@ Priced({"ADD", "SUB", "LT", "GT", "EQ", "AND", "OR", "XOR", "SHL", "SHR"}, 3, 2, 1)
    @@ Priced({"MUL", "DIV", "MOD"}, 5, 2, 1)
    @@ Priced({"EXP"}, 10, 2, 1)
    @@ Priced({"ISZERO", "NOT", "CALLDATA"}, 3, 1, 1)
    @@ Priced({"SHA256"}, 60, 1, 1)
    @@ Priced({"BALANCE", "SLOAD"}, 100, 1, 1)
    @@ Priced({"ADDRESS", "CALLER", "CALLVALUE", "CALLDATASIZE", "NUMBER", "TIMESTAMP", "PC",
               "GAS"}, 2, 0, 1)
    @@ Priced({"POP"}, 2, 1, 0)
    @@ Priced({"SSTORE"}, 0, 2, 0)
    @@ Priced({"JUMP"}, 8, 1, 0)
    @@ Priced({"JUMPI"}, 10, 2, 0)
    @@ Priced({"JUMPDEST"}, 1, 0, 0)
    @@ Priced({"LOG"}, 375, 2, 0)
    @@ Priced({"RETURN"}, 0, 1, 0)
GAS_PUSH == 3
GAS_DUP == 3
GAS_SWAP == 3
GAS_SSTORE_SET == 20000
GAS_SSTORE_RESET == 2900
GAS_SSTORE_CLEAR_REFUND == 4800

IsPush(op) == op \in OP.PUSH1..OP.PUSH32
IsDup(op) == op \in OP.DUP1..OP.DUP16
IsSwap(op) == op \in OP.SWAP1..OP.SWAP16
Width(op) == IF IsPush(op) THEN op - OP.PUSH1 + 1 ELSE 0

\* Where instructions start, offsets from 0: immediates are skipped.  walk[k][w] goes
\* 2^k instructions on from w: the starts met so far and the offset reached.
Starts(code) ==
    LET walk[k \in 0..15] ==
            [w \in [starts : SUBSET Nat, next : Nat] |->
               IF w.next >= Len(code) THEN w
               ELSE IF k = 0 THEN [starts |-> w.starts \cup {w.next},
                                   next |-> w.next + 1 + Width(code[w.next + 1])]
               ELSE walk[k - 1][walk[k - 1][w]]]
    IN walk[15][[starts |-> {}, next |-> 0]].starts   \* MAX_CODE_SIZE < 2^15

\* Mutant: a jump destination inside an immediate is one too.
ScanEverywhere(code) == {i \in 0..(Len(code) - 1) : code[i + 1] = OP.JUMPDEST}
ScanJumpdests(code) == {i \in Starts(code) : code[i + 1] = OP.JUMPDEST}

ByteLen(v) == Cardinality({i \in 0..((W - 1) \div 8) : v >= 256 ^ i /\ v > 0})
BigEndian(bytes) == FoldLeft(LAMBDA v, byte : Wrap(v * 256 + byte), 0, bytes)
Bits(v) == {i \in 0..(W - 1) : (v \div (2 ^ i)) % 2 = 1}
OfBits(bits) == MapThenSumSet(LAMBDA i : 2 ^ i, bits)
ModPow(b, e) ==
    LET power[base \in Nat, i \in Nat] ==
            IF i = 0 THEN Wrap(1)
            ELSE Wrap(power[Wrap(base * base), i \div 2] * (IF i % 2 = 1 THEN base ELSE 1))
    IN power[b, e]
Truth(b) == IF b THEN 1 ELSE 0

\* The machine before its first instruction.
Fresh(storage) == [status |-> "running", pc |-> 0, stack |-> <<>>, storage |-> storage,
                   gas |-> 0, refund |-> 0, ret |-> <<>>]
Load(storage, key) == IF key \in DOMAIN storage THEN storage[key] ELSE 0
Saved(storage, key, value) ==
    IF value = 0 THEN Restrict(storage, DOMAIN storage \ {key}) ELSE (key :> value) @@ storage
\* The i-th word from the top.
Arg(m, i) == m.stack[Len(m.stack) + 1 - i]
Popped(m, n) == SubSeq(m.stack, 1, Len(m.stack) - n)

\* A fault keeps nothing and costs the whole limit.
Fail(ctx, m) == [m EXCEPT !.status = "failed", !.stack = <<>>, !.gas = ctx.gasLimit]
Done(m, ret) ==
    [m EXCEPT !.status = "done", !.stack = <<>>, !.ret = ret,
              !.gas = @ - Min({m.refund, @ \div 5})]
\* Mutant: what cannot be paid is not charged.
PayLess(ctx, m, cost) ==
    IF m.gas + cost > ctx.gasLimit THEN m ELSE [m EXCEPT !.gas = @ + cost]
\* charge
Pay(ctx, m, cost) ==
    IF m.gas + cost > ctx.gasLimit THEN Fail(ctx, m) ELSE [m EXCEPT !.gas = @ + cost]

\* After a paid instruction: the stack it leaves and where it goes on.
Onward(ctx, m, stack, pc) ==
    IF m.status = "failed" \/ Len(stack) > MAX_STACK THEN Fail(ctx, m)
    ELSE [m EXCEPT !.stack = stack, !.pc = pc]

Push(code, ctx, m, width) ==
    LET paid == Pay(ctx, m, GAS_PUSH)
        next == m.pc + 1 + width
    IN IF paid.status # "failed" /\ next > Len(code)
       THEN [paid EXCEPT !.status = "failed", !.stack = <<>>]
       ELSE Onward(ctx, paid, Append(m.stack, BigEndian(SubSeq(code, m.pc + 2, next))), next)

Dup(ctx, m, depth) ==
    IF Len(m.stack) < depth THEN Fail(ctx, m)
    ELSE Onward(ctx, Pay(ctx, m, GAS_DUP), Append(m.stack, Arg(m, depth)), m.pc + 1)

Swap(ctx, m, depth) ==
    LET top == Len(m.stack)
    IN IF top < depth + 1 THEN Fail(ctx, m)
       ELSE Onward(ctx, Pay(ctx, m, GAS_SWAP),
                   [m.stack EXCEPT ![top] = m.stack[top - depth], ![top - depth] = m.stack[top]],
                   m.pc + 1)

\* What an instruction costs beyond its base price.
Dynamic(op, m) ==
    CASE op = OP.EXP -> 50 * ByteLen(Arg(m, 2))
      [] op = OP.LOG -> 8 * Arg(m, 2)
      [] op = OP.SSTORE -> IF Load(m.storage, Arg(m, 1)) = 0 /\ Arg(m, 2) # 0
                           THEN GAS_SSTORE_SET ELSE GAS_SSTORE_RESET
      [] OTHER -> 0

\* The word an instruction leaves; a is the top of the stack, b the next.
Word(op, ctx, m, a, b) ==
    CASE op = OP.ADD -> a + b
      [] op = OP.MUL -> a * b
      [] op = OP.SUB -> a - b
      [] op = OP.DIV -> IF b = 0 THEN 0 ELSE a \div b
      [] op = OP.MOD -> IF b = 0 THEN 0 ELSE a % b
      [] op = OP.EXP -> ModPow(a, b)
      [] op = OP.LT -> Truth(a < b)
      [] op = OP.GT -> Truth(a > b)
      [] op = OP.EQ -> Truth(a = b)
      [] op = OP.ISZERO -> Truth(a = 0)
      [] op = OP.AND -> OfBits(Bits(a) \cap Bits(b))
      [] op = OP.OR -> OfBits(Bits(a) \cup Bits(b))
      [] op = OP.XOR -> OfBits((Bits(a) \cup Bits(b)) \ (Bits(a) \cap Bits(b)))
      [] op = OP.NOT -> 2 ^ W - 1 - a
      [] op = OP.SHL -> IF a >= W THEN 0 ELSE b * 2 ^ a
      [] op = OP.SHR -> IF a >= W THEN 0 ELSE b \div 2 ^ a
      [] op = OP.SHA256 -> Digest(a)
      [] op = OP.ADDRESS -> AddressWord(ctx.address)
      [] op = OP.CALLER -> AddressWord(ctx.caller)
      [] op = OP.CALLVALUE -> ctx.callValue
      [] op = OP.BALANCE -> IF a = AddressWord(ctx.address) THEN ctx.balance ELSE 0
      [] op = OP.CALLDATA -> IF a < Len(ctx.calldata) THEN ctx.calldata[a + 1] ELSE 0
      [] op = OP.CALLDATASIZE -> Len(ctx.calldata)
      [] op = OP.NUMBER -> ctx.blockNumber
      [] op = OP.TIMESTAMP -> ctx.blockTime
      [] op = OP.PC -> m.pc
      [] op = OP.GAS -> ctx.gasLimit - m.gas
      [] op = OP.SLOAD -> Load(m.storage, a)

JumpTo(code, ctx, m, n) ==
    IF Arg(m, 1) \in ScanJumpdests(code) THEN Onward(ctx, m, Popped(m, n), Arg(m, 1))
    ELSE Fail(ctx, m)

Store(ctx, m) ==
    LET key == Arg(m, 1)
        value == Arg(m, 2)
    IN [Onward(ctx, m, Popped(m, 2), m.pc + 1) EXCEPT
          !.storage = Saved(m.storage, key, value),
          !.refund = IF value = 0 /\ Load(m.storage, key) # 0
                     THEN @ + GAS_SSTORE_CLEAR_REFUND ELSE @]

\* The instructions outside the PUSH, DUP and SWAP families, m already paid for.
Perform(op, code, ctx, m) ==
    LET count == Arg(m, IF op = OP.LOG THEN 2 ELSE 1)
        words(n) == Len(m.stack) >= GAS[op].takes + n
    IN CASE op = OP.STOP -> Done(m, <<>>)
         [] op = OP.REVERT -> [m EXCEPT !.status = "reverted", !.stack = <<>>]
         [] op = OP.RETURN ->
              IF count <= 16 /\ words(count)
              THEN Done(m, SubSeq(m.stack, Len(m.stack) - count, Len(m.stack) - 1))
              ELSE Fail(ctx, m)
         [] op = OP.LOG ->
              IF count <= 8 /\ words(count)
              THEN Onward(ctx, m, Popped(m, 2 + count), m.pc + 1) ELSE Fail(ctx, m)
         [] op = OP.SSTORE -> Store(ctx, m)
         [] op = OP.JUMP -> JumpTo(code, ctx, m, 1)
         [] op = OP.JUMPI /\ Arg(m, 2) # 0 -> JumpTo(code, ctx, m, 2)
         [] GAS[op].gives = 1 ->
              LET a == IF GAS[op].takes > 0 THEN Arg(m, 1) ELSE 0
                  b == IF GAS[op].takes > 1 THEN Arg(m, 2) ELSE 0
              IN Onward(ctx, m, Append(Popped(m, GAS[op].takes), Wrap(Word(op, ctx, m, a, b))),
                        m.pc + 1)
         [] OTHER -> Onward(ctx, m, Popped(m, GAS[op].takes), m.pc + 1)

\* One turn of the loop.
Step(code, ctx, m) ==
    IF m.pc >= Len(code) THEN Done(m, <<>>)
    ELSE LET op == code[m.pc + 1]
         IN IF IsPush(op) THEN Push(code, ctx, m, Width(op))
            ELSE IF IsDup(op) THEN Dup(ctx, m, op - OP.DUP1 + 1)
            ELSE IF IsSwap(op) THEN Swap(ctx, m, op - OP.SWAP1 + 1)
            ELSE IF op \notin DOMAIN GAS \/ Len(m.stack) < GAS[op].takes THEN Fail(ctx, m)
            ELSE LET paid == Pay(ctx, m, GAS[op].gas + Dynamic(op, m))
                 IN IF paid.status = "failed" THEN paid ELSE Perform(op, code, ctx, paid)

\* execute: where it begins.
Start(code, ctx, storage) ==
    IF Len(code) > MAX_CODE_SIZE THEN Fail(ctx, Fresh(storage)) ELSE Fresh(storage)
=============================================================================

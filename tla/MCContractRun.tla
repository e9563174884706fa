--------------------------- MODULE MCContractRun ---------------------------
(* The five contracts, and all programs of up to five bytes of an alphabet  *)
(* in which jump destinations hide in immediates; words of eight bits.      *)
EXTENDS ContractRun, Covenants

MCDigest(w) == (w * 5 + 7) % 256
MCAddressWord(a) ==
    CASE a = "alice" -> 201 [] a = "bob" -> 202 [] a = "carol" -> 203
      [] a = "contract" -> 204 [] OTHER -> 205

\* Callers, words and calls that tell the terms of a kind apart.
Driven(kind) ==
    CASE kind = "TimeVault" -> [callers |-> {"alice"}, words |-> {<<>>}, calls |-> 3]
      [] kind = "Escrow" -> [callers |-> {"alice", "bob", "carol", "dave"},
                             words |-> {<<>>, <<1>>, <<2>>}, calls |-> 2]
      [] kind = "Vesting" -> [callers |-> {"alice"}, words |-> {<<>>}, calls |-> 4]
      [] kind = "MultiSig" -> [callers |-> {"alice", "bob", "dave"}, words |-> {<<>>}, calls |-> 4]
      [] kind = "AtomicSwap" -> [callers |-> {"alice"}, words |-> {<<>>, <<1>>, <<3>>}, calls |-> 3]
      [] kind = "bytes" -> [callers |-> {"alice"}, words |-> {<<>>}, calls |-> 1]

Contract(terms, tokens) ==
    Driven(terms.kind) @@ [terms |-> terms, code |-> asm(tokens), gasLimits |-> {3000, 300000}]
Standard == {
    Contract([kind |-> "TimeVault", unlockHeight |-> 2, beneficiary |-> "bob"],
             timeVault(2, "bob")),
    Contract([kind |-> "Escrow", deadlineHeight |-> 1, seller |-> "alice", buyer |-> "bob",
              arbiter |-> "carol"],
             escrow(1, "alice", "bob", "carol")),
    Contract([kind |-> "Vesting", cliffHeight |-> 1, beneficiary |-> "bob",
              intervalBlocks |-> 1, tranches |-> 2],
             vesting(1, "bob", 1, 2)),
    Contract([kind |-> "MultiSig", threshold |-> 2, owners |-> <<"alice", "bob">>,
              beneficiary |-> "carol"],
             multiSig(2, <<"alice", "bob">>, "carol")),
    Contract([kind |-> "AtomicSwap", timeoutHeight |-> 1, receiver |-> "bob",
              refundTo |-> "alice", hashWord |-> MCDigest(3)],
             atomicSwap(1, "bob", "alice", MCDigest(3)))}

Alphabet == {2, 4, OP.JUMP, OP.JUMPI, OP.JUMPDEST, OP.PUSH1, OP.DUP1}
Small == {Driven("bytes") @@ [terms |-> [kind |-> "bytes"], code |-> <<OP.PUSH1>> \o bytes,
                              gasLimits |-> {50}] : bytes \in [1..4 -> Alphabet]}
\* Every opcode on a few words, and DUP and SWAP of the first and second.
Each == {Driven("bytes") @@ [terms |-> [kind |-> "bytes"], gasLimits |-> {50, 30000},
                             code |-> <<OP.PUSH1, x, OP.PUSH1, y, op>>] :
            x \in {0, 1, 200}, y \in {0, 2, 250},
            op \in DOMAIN GAS \cup {OP.DUP1, OP.DUP1 + 1, OP.SWAP1, OP.SWAP1 + 1, OP.INVALID}}
MCProgram == Standard \cup Small \cup Each
=============================================================================

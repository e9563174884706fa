---------------------------- MODULE MCBlockchain ----------------------------
(* A chain of a few blocks with two keys: coins under every script, or     *)
(* times and difficulty, or a vault that is deployed and called.           *)
EXTENDS Blockchain, Covenants

alice == Key("alice")
bob == Key("bob")
MCDigest(w) == w
MCAddressWord(a) ==
    IF isContractAddress(a) THEN 200 + a[3] ELSE IF a = alice THEN 101 ELSE 102
MCPayees == {[address |-> alice, script |-> p2pkh],
             [address |-> bob, script |-> multisig2({alice, bob})],
             [address |-> bob, script |-> htlc("preimage", 4, alice)],
             [address |-> alice, script |-> revocable(2, bob)]}
MCGuard == [code |-> asm(timeVault(3, bob)), height |-> 3, beneficiary |-> bob]
MCKeys == {alice, bob}
MCMaxHeight == [coins |-> 4, claims |-> 4, clock |-> 6, covenants |-> 3]
MCMaxTxs == [coins |-> 1, claims |-> 1, clock |-> 0, covenants |-> 2]

\* The vault's storages: none yet, or its terms and how often it has been called.
MCKept == {<<>>} \cup {[slot \in (IF n = 0 THEN {0, 1} ELSE 0..2) |->
                         CASE slot = 0 -> 3 [] slot = 1 -> MCAddressWord(bob) [] slot = 2 -> n] :
                           n \in 0..255}
MCContext(caller, blockNumber) ==
    [address |-> contractAddress(alice, 0), caller |-> caller, callValue |-> 0, calldata |-> <<>>,
     blockNumber |-> blockNumber, blockTime |-> 0, gasLimit |-> GasLimit, balance |-> 0]
ASSUME VaultObeys ==
    /\ BeneficiaryTold /\ SupplyCapped
    /\ \A storage \in MCKept, caller \in MCKeys, blockNumber \in 0..4 \cup {255, 256, 259} :
          GuardAnswers(MCContext(caller, blockNumber), storage, MCKept)

\* The closed forms of block.ts against the sums and searches they stand for.
ASSUME Arithmetic ==
    /\ \A h \in 0..12 :
          cumulativeIssuance(h) = MapThenSumSet(LAMBDA i : blockSubsidy(i), 0..h)
    /\ {h \in 0..12 : blockSubsidy(h) > 0} = 0..terminalHeight
    /\ \A target \in {1, 127, 128, 255, 256, 32767, 32768, 65535, 8388607, 8388608, 16777216} :
          LET back == bitsToTarget(targetToBits(target))
          IN back <= target /\ target - back <= back \div 32768
    /\ \A bits \in {targetToBits(t) : t \in 1..300} : targetToBits(bitsToTarget(bits)) = bits
=============================================================================

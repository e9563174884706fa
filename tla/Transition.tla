----------------------------- MODULE Transition -----------------------------
(***************************************************************************)
(* The state transition: checkTx of tx.ts and applyTx of chain.ts, the one *)
(* implementation all parts of the node share, over the world state of     *)
(* state.ts.  A coin carries what its row carries.  A signature is the key *)
(* it was made with; a hash or a point and what opens it are one value.    *)
(* Addresses are canonical.  htlc and ptlc differ only in that opening.    *)
(***************************************************************************)
EXTENDS Vm, Consensus

CONSTANTS
    None,
    COINBASE_MATURITY,
    MAX_MONEY,
    GasCeiling,        \* 10,000,000 in checkTx
    SequenceFinal      \* 0xffffffff

ASSUME TransitionConstants ==
    /\ {COINBASE_MATURITY, MAX_MONEY, GasCeiling} \subseteq Nat
    /\ SequenceFinal \in Nat /\ SequenceFinal % 65536 = 65535

----------------------------------------------------------------------------
\* Addresses and scripts.

contractAddress(deployer, nonce) == <<"contract", deployer, nonce>>
isContractAddress(address) == address[1] = "contract"
Key(name) == <<"key", name, 0>>

p2pkh == [type |-> "p2pkh"]
multisig2(keys) == [type |-> "multisig2", keys |-> keys]
htlc(lock, timeout, refundKey) ==
    [type |-> "htlc", lock |-> lock, timeout |-> timeout, refundKey |-> refundKey]
revocable(delay, revocationKey) ==
    [type |-> "revocable", delay |-> delay, revocationKey |-> revocationKey]

----------------------------------------------------------------------------
\* Transactions.

TxInput(coin, key, cosign, opening, sequence) ==
    [coin |-> coin, key |-> key, cosign |-> cosign, opening |-> opening, sequence |-> sequence,
     signedBy |-> key]
TxOutput(value, address, script) == [value |-> value, address |-> address, script |-> script]

coinbaseTx(to, value, height) ==
    [kind |-> "coinbase", ins |-> <<>>, outs |-> <<TxOutput(value, to, p2pkh)>>,
     lockTime |-> height, contract |-> None]
transferTx(ins, outs, lockTime) ==
    [kind |-> "transfer", ins |-> ins, outs |-> outs, lockTime |-> lockTime, contract |-> None]
deployTx(ins, outs, code, gasLimit, gasPrice, nonce) ==
    [transferTx(ins, outs, 0) EXCEPT !.kind = "deploy",
        !.contract = [code |-> code, target |-> None, calldata |-> <<>>, gasLimit |-> gasLimit,
                      gasPrice |-> gasPrice, nonce |-> nonce]]
callTx(ins, outs, target, calldata, gasLimit, gasPrice) ==
    [transferTx(ins, outs, 0) EXCEPT !.kind = "call",
        !.contract = [code |-> None, target |-> target, calldata |-> calldata,
                      gasLimit |-> gasLimit, gasPrice |-> gasPrice, nonce |-> 0]]

SumValue(coins) == SumFunctionOnSet([i \in DOMAIN coins |-> coins[i].value], DOMAIN coins)

----------------------------------------------------------------------------
\* checkTx

CheckOutputs(outs) ==
    /\ Len(outs) > 0
    /\ \A i \in DOMAIN outs : outs[i].value \in 0..MAX_MONEY
    /\ SumValue(outs) <= MAX_MONEY

\* Two branches, the one with the opening first.
OpensLock(tx, input, prev) ==
    IF input.opening = prev.script.lock THEN input.key = prev.address
    ELSE /\ input.opening = None
         /\ input.key = prev.script.refundKey
         /\ tx.lockTime >= prev.script.timeout

\* The revocation key at once, the owner after the delay.
OpensRevocable(input, prev) ==
    \/ input.key = prev.script.revocationKey
    \/ input.key = prev.address /\ input.sequence % 65536 >= prev.script.delay

OpensScript(tx, input, prev) ==
    CASE prev.script.type = "p2pkh" -> input.key = prev.address
      [] prev.script.type = "multisig2" ->
           input.cosign # None /\ {input.key, input.cosign} = prev.script.keys
      [] prev.script.type = "htlc" -> OpensLock(tx, input, prev)
      [] prev.script.type = "revocable" -> OpensRevocable(input, prev)

Authorised(tx, input, prev) ==
    IF isContractAddress(prev.address)
    THEN tx.kind = "call" /\ tx.contract.target = prev.address
    ELSE OpensScript(tx, input, prev) /\ input.signedBy = input.key

CheckContract(tx, fee) ==
    /\ tx.contract # None
    /\ tx.contract.gasLimit \in 1..GasCeiling
    /\ tx.contract.gasPrice >= 0
    /\ tx.contract.gasLimit * tx.contract.gasPrice <= fee
    /\ tx.kind = "deploy" => tx.contract.code # None
    /\ tx.kind = "call" => tx.contract.target # None

Fee(tx, prevs) == SumValue(prevs) - SumValue(tx.outs)

checkTx(tx, prevs) ==
    /\ CheckOutputs(tx.outs)
    /\ tx.kind = "coinbase" => tx.ins = <<>>
    /\ tx.kind # "coinbase" =>
         /\ Len(tx.ins) > 0
         /\ \A i, j \in DOMAIN tx.ins : tx.ins[i].coin = tx.ins[j].coin => i = j
         /\ \A i \in DOMAIN tx.ins : Authorised(tx, tx.ins[i], prevs[i])
         /\ SumValue(prevs) <= MAX_MONEY
         /\ Fee(tx, prevs) >= 0
         /\ tx.kind \in {"deploy", "call"} => CheckContract(tx, Fee(tx, prevs))

----------------------------------------------------------------------------
\* applyTx on a state s of utxos, contracts and nonces: the outcome of it.

Refused(s) == [ok |-> FALSE, state |-> s, fee |-> 0, gas |-> 0]
Applied(s, fee, gas) == [ok |-> TRUE, state |-> s, fee |-> fee, gas |-> gas]

\* The outputs as rows; id stands for the transaction's hash.
Created(tx, id, height) ==
    {[id |-> <<id, i>>, value |-> tx.outs[i].value, address |-> tx.outs[i].address,
      script |-> tx.outs[i].script, height |-> height, coinbase |-> tx.kind = "coinbase"] :
        i \in DOMAIN tx.outs}

\* Mutant: what a miner may claim counts the fees twice.
AllowedTwice(height, fees) == blockSubsidy(height) + 2 * fees
Allowed(height, fees) == blockSubsidy(height) + fees

applyCoinbase(tx, id, s, height, fees) ==
    LET paid == SumValue(tx.outs)
    IN IF /\ checkTx(tx, <<>>)
          /\ paid <= Allowed(height, fees)
          /\ paid > fees => cumulativeIssuance(height - 1) + paid - fees <= MAX_SUPPLY
       THEN Applied([s EXCEPT !.utxos = @ \cup Created(tx, id, height)], 0, 0)
       ELSE Refused(s)

Unspent(s, coin) == {u \in s.utxos : u.id = coin}
Mature(u, height) == u.coinbase => height - u.height >= COINBASE_MATURITY

\* Mutant: the absolute locktime is not enforced.
UnlockedAlways(tx, prevs, height) == TRUE
\* Relative and absolute locktimes.
Unlocked(tx, prevs, height) ==
    /\ \A i \in DOMAIN tx.ins :
         tx.ins[i].sequence # SequenceFinal =>
             height - prevs[i].height >= tx.ins[i].sequence % 65536
    /\ tx.lockTime > 0 => height >= tx.lockTime

\* The first input unlocked by a key, or else the first.
Caller(prevs) ==
    LET keyed == {i \in DOMAIN prevs : ~isContractAddress(prevs[i].address)}
    IN prevs[IF keyed = {} THEN 1 ELSE Min(keyed)].address

nonceOf(s, address) == IF address \in DOMAIN s.nonces THEN s.nonces[address] ELSE 0
balanceOf(s, address) ==
    MapThenSumSet(LAMBDA u : u.value, {u \in s.utxos : u.address = address})

Target(tx, prevs) ==
    IF tx.kind = "deploy" THEN contractAddress(Caller(prevs), tx.contract.nonce)
    ELSE tx.contract.target

Installable(tx, prevs, s) ==
    LET target == Target(tx, prevs)
    IN IF tx.kind = "deploy"
       THEN target \notin DOMAIN s.contracts /\ nonceOf(s, Caller(prevs)) = tx.contract.nonce
       ELSE target \in DOMAIN s.contracts

\* execute, to its end: every turn but the last costs gas, so there are not many.
Turn(code, ctx, m) == IF m.status # "running" THEN m ELSE Step(code, ctx, m)
Halted(after) == after[2 ^ (CHOOSE k \in 0..30 : after[2 ^ k].status # "running")]   \* GasCeiling < 2^30
Executed(code, ctx, m) ==
    LET after[n \in 0..(2 ^ 30)] == IF n = 0 THEN m ELSE Turn(code, ctx, after[n - 1])
    IN Halted(after)

Run(tx, prevs, s, height, time) ==
    LET target == Target(tx, prevs)
        code == IF tx.kind = "deploy" THEN tx.contract.code ELSE s.contracts[target].code
        ctx == [address |-> target, caller |-> Caller(prevs),
                callValue |-> SumValue(SelectSeq(tx.outs, LAMBDA o : o.address = target)),
                calldata |-> tx.contract.calldata, blockNumber |-> height, blockTime |-> time,
                gasLimit |-> tx.contract.gasLimit, balance |-> balanceOf(s, target)]
    IN Executed(code, ctx,
                Start(code, ctx, IF tx.kind = "deploy" THEN <<>> ELSE s.contracts[target].storage))

\* A guarded output moves only if the contract said so, and to whom it said.
CovenantAllows(tx, prevs, ret) ==
    (\E i \in DOMAIN prevs : isContractAddress(prevs[i].address)) =>
        /\ Len(ret) > 0 /\ ret[1] # 0
        /\ Len(ret) > 1 /\ ret[2] # 0 =>
             \E i \in DOMAIN tx.outs : AddressWord(tx.outs[i].address) = ret[2]

\* The contract's account after a run that went through.
Installed(tx, prevs, s, storage, height) ==
    LET target == Target(tx, prevs)
        by == Caller(prevs)
    IN IF tx.kind = "deploy"
       THEN [s EXCEPT
               !.contracts = [c \in DOMAIN s.contracts \cup {target} |->
                   IF c = target THEN [code |-> tx.contract.code, storage |-> storage,
                                       deployedAt |-> height, deployer |-> by]
                   ELSE s.contracts[c]],
               !.nonces = [a \in DOMAIN s.nonces \cup {by} |->
                   IF a = by THEN nonceOf(s, by) + 1 ELSE s.nonces[a]]]
       ELSE [s EXCEPT !.contracts[target].storage = storage]

\* Spend the inputs, create the outputs.
Moved(tx, id, prevs, s, height) ==
    [s EXCEPT !.utxos = (@ \ Range(prevs)) \cup Created(tx, id, height)]

\* The coins the inputs name, if all of them are there.
Present(tx, s) == \A i \in DOMAIN tx.ins : Unspent(s, tx.ins[i].coin) # {}
Prevs(tx, s) == [i \in DOMAIN tx.ins |-> CHOOSE u \in Unspent(s, tx.ins[i].coin) : TRUE]

Movable(tx, prevs, height) ==
    /\ \A i \in DOMAIN prevs : Mature(prevs[i], height)
    /\ checkTx(tx, prevs)
    /\ Unlocked(tx, prevs, height)

\* The outcome once the contract has run.
AfterRun(tx, id, prevs, s, vm, height) ==
    IF /\ vm.gas * tx.contract.gasPrice <= Fee(tx, prevs)
       /\ vm.status = "done"
       /\ CovenantAllows(tx, prevs, vm.ret)
    THEN Applied(Moved(tx, id, prevs, Installed(tx, prevs, s, vm.storage, height), height),
                 Fee(tx, prevs), vm.gas)
    ELSE Refused(s)

applyTx(tx, id, s, height, time) ==
    IF ~Present(tx, s) THEN Refused(s)
    ELSE LET prevs == Prevs(tx, s)
         IN IF ~Movable(tx, prevs, height) THEN Refused(s)
            ELSE IF tx.kind = "transfer"
            THEN Applied(Moved(tx, id, prevs, s, height), Fee(tx, prevs), 0)
            ELSE IF ~Installable(tx, prevs, s) THEN Refused(s)
            ELSE AfterRun(tx, id, prevs, s, Run(tx, prevs, s, height, time), height)
=============================================================================

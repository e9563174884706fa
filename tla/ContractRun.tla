---------------------------- MODULE ContractRun ----------------------------
(***************************************************************************)
(* A contract on the chain, as applyTx in chain.ts runs it: the deployment *)
(* executes the code on an empty storage, each call executes it again on   *)
(* the storage kept so far, one turn of the machine per step.  A call that *)
(* fails, or that spends a guarded output without approval, is refused     *)
(* with its transaction and leaves the storage as it was.                  *)
(***************************************************************************)
EXTENDS Vm

CONSTANTS
    Program,      \* contracts: their terms, their code, and what a behaviour may do
                  \* with each: callers, words, gasLimits and a bound on executions
    MaxBlock      \* bound on the height

ASSUME RunConstants ==
    /\ MaxBlock \in Nat
    /\ \A p \in Program :
          p.code \in Seq(0..255) /\ Len(p.code) <= MAX_CODE_SIZE /\ p.calls \in Nat

VARIABLES
    program,
    deployed,
    atBlock,
    account,      \* account.storage
    call,         \* the call being executed, or NoCall
    machine,      \* its machine
    approvers,    \* history: callers of the executions that were kept
    releases,     \* history: kept executions that approved
    calls         \* executions so far
runVars == <<program, deployed, atBlock, account, call, machine, approvers, releases, calls>>

NoCall == [caller |-> "nobody", calldata |-> <<>>, spends |-> FALSE, gasLimit |-> 0]

Ctx == [address |-> "contract", caller |-> call.caller, callValue |-> 0,
        calldata |-> call.calldata, blockNumber |-> atBlock, blockTime |-> 0,
        gasLimit |-> call.gasLimit, balance |-> 0]

RunInit ==
    /\ program \in Program
    /\ deployed = FALSE /\ atBlock = 1
    /\ account = <<>>
    /\ call = NoCall /\ machine = [Fresh(<<>>) EXCEPT !.status = "done"]
    /\ approvers = {} /\ releases = 0 /\ calls = 0

\* DEPLOY (nothing is guarded yet) or CALL.
Begin(caller, words, spends, gasLimit) ==
    /\ call = NoCall /\ calls < program.calls
    /\ spends => deployed
    /\ call' = [caller |-> caller, calldata |-> words, spends |-> spends, gasLimit |-> gasLimit]
    /\ machine' = Start(program.code, Ctx', account)
    /\ calls' = calls + 1
    /\ UNCHANGED <<program, deployed, atBlock, account, approvers, releases>>

TakeTurn ==
    /\ call # NoCall /\ machine.status = "running"
    /\ machine' = Step(program.code, Ctx, machine)
    /\ UNCHANGED <<program, deployed, atBlock, account, call, approvers, releases, calls>>

Approved(ret) == Len(ret) > 0 /\ ret[1] # 0

\* Whether the transaction goes through; approval of a spend pays the beneficiary.
GoesThrough(ok) == machine.status = "done" /\ (call.spends => ok)

End ==
    /\ call # NoCall /\ machine.status # "running"
    /\ LET ok == Approved(machine.ret)
       IN IF GoesThrough(ok)
          THEN /\ deployed' = TRUE
               /\ account' = machine.storage
               /\ approvers' = approvers \cup {call.caller}
               /\ releases' = IF ok THEN releases + 1 ELSE releases
          ELSE UNCHANGED <<deployed, account, approvers, releases>>
    /\ call' = NoCall
    /\ machine' = [Fresh(<<>>) EXCEPT !.status = "done"]
    /\ UNCHANGED <<program, atBlock, calls>>

NextBlock ==
    /\ call = NoCall /\ atBlock < MaxBlock /\ calls < program.calls
    /\ atBlock' = atBlock + 1
    /\ UNCHANGED <<program, deployed, account, call, machine, approvers, releases, calls>>

RunNext ==
    \/ \E caller \in program.callers, words \in program.words, spends \in BOOLEAN,
          gasLimit \in program.gasLimits : Begin(caller, words, spends, gasLimit)
    \/ TakeTurn
    \/ End
    \/ NextBlock

\* execute is a loop of its own: it takes its turns, and applyTx then returns.
RunSpec == RunInit /\ [][RunNext]_runVars /\ WF_runVars(TakeTurn) /\ WF_runVars(End)

----------------------------------------------------------------------------
\* What each contract answers, by the terms it was assembled from.
Pays(address) == <<1, AddressWord(address)>>
Refuses == <<0, 0>>

Word1 == IF Len(call.calldata) > 0 THEN call.calldata[1] ELSE 0

Answer(t) ==
    CASE t.kind = "TimeVault" ->
           IF atBlock >= t.unlockHeight THEN Pays(t.beneficiary) ELSE Refuses
      [] t.kind = "Escrow" ->
           IF Word1 = 1 /\ call.caller \in {t.buyer, t.arbiter} THEN Pays(t.seller)
           ELSE IF Word1 = 2 /\ (\/ call.caller \in {t.seller, t.arbiter}
                                 \/ call.caller = t.buyer /\ atBlock > t.deadlineHeight)
           THEN Pays(t.buyer)
           ELSE Refuses
      [] t.kind = "Vesting" ->
           IF releases < t.tranches /\ atBlock >= t.cliffHeight + releases * t.intervalBlocks
           THEN Pays(t.beneficiary) ELSE Refuses
      [] t.kind = "MultiSig" ->
           LET owners == {t.owners[i] : i \in DOMAIN t.owners}
           IN IF call.caller \in owners
                 /\ Cardinality(owners \cap (approvers \cup {call.caller})) >= t.threshold
              THEN Pays(t.beneficiary) ELSE Refuses
      [] t.kind = "AtomicSwap" ->
           IF Digest(Word1) = t.hashWord THEN Pays(t.receiver)
           ELSE IF atBlock > t.timeoutHeight THEN Pays(t.refundTo) ELSE Refuses
      [] OTHER -> machine.ret

\* The bytecode decides what the contract's specification says (CONTRACT_SPECS,
\* approvesWhen): whoever calls, with whatever words, at whatever height, after
\* whatever calls that were kept or refused, an execution that ends answers the
\* approval and the beneficiary of the terms, and gas enough makes it end.
DecidesAsSpecified ==
    call # NoCall /\ program.terms.kind # "bytes" =>
        /\ machine.status = "done" => machine.ret = Answer(program.terms)
        /\ machine.status = "failed" => call.gasLimit < 100000

\* Immediates are data: whatever the code jumps to, the machine is always at the
\* start of an instruction, never inside the immediate of a PUSH (scanJumpdests).
NeverExecutesData == machine.pc < Len(program.code) => machine.pc \in Starts(program.code)

\* Every execution ends, loops included: gas is charged before each turn.
Halts == (call # NoCall) ~> (call = NoCall)
=============================================================================

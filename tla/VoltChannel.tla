---------------------------- MODULE VoltChannel ----------------------------
(***************************************************************************)
(* A payment channel (chain/src/volt/channel.ts) and the part of the chain *)
(* it settles on.                                                          *)
(*                                                                         *)
(* The object holds both parties.  Every update changes the balances or    *)
(* the HTLCs, reveals the secrets of the current commitment, and signs the *)
(* next pair; these are one synchronous call, but signing may throw and    *)
(* leave what came before it done.  Any commitment ever signed may be      *)
(* mined, as may the transactions of the two closes.                       *)
(*                                                                         *)
(* Keys and signatures are left out: who may spend an output is the guard  *)
(* of the action that spends it.  A preimage is whatever the payee has;    *)
(* whether it has it is left open.                                         *)
(***************************************************************************)
EXTENDS Integers, FiniteSetsExt, SequencesExt

CONSTANTS
    Amount,          \* amounts paid and offered
    SpliceIn, SpliceOut,  \* amounts spliced, with 0
    Push,            \* what B may be given at the opening
    Capacity,        \* value of the first funding output
    Expiry,          \* heights HTLCs may expire at
    DustLimit,
    CloseFee, PenaltyFee, HtlcFee,
    ChainDepth,      \* commitments a SecretChain can make
    NoTx,
    MaxHtlcs, MaxSplices, MaxCloses, MaxFundingHeight, MaxHeight  \* bounds of the instance

ASSUME ChannelAssumption ==
    /\ Amount \cup Expiry \subseteq Nat \ {0}
    /\ SpliceIn \cup SpliceOut \cup Push \subseteq Nat
    /\ \A push \in Push : push <= Capacity
    /\ {Capacity, ChainDepth, DustLimit} \subseteq Nat \ {0}
    /\ {CloseFee, PenaltyFee, HtlcFee} \subseteq Nat
    /\ ChainDepth <= 65536  \* a commitment number fits a sequence's low bits
    /\ {MaxHtlcs, MaxSplices, MaxCloses, MaxFundingHeight, MaxHeight} \subseteq Nat

VARIABLES
    state, balance, number, htlcs, revoked, history,
    funding,     \* the channel's funding outputs, the first and one per splice
    splicedAt,   \* commitment numbers splices were applied at
    closes,      \* transactions cooperativeClose and forceClose returned
    height,      \* of the block being mined
    minedAt,     \* minedAt[i]: height of funding[i], 0 while unconfirmed
    spending,    \* the mined transaction that spent the last mined funding
    unspent,     \* its outputs that are left
    paid         \* what each side has been paid from them

offChain == <<state, balance, number, htlcs, revoked, history, funding, splicedAt, closes>>
onChain == <<height, minedAt, spending, unspent, paid>>
vars == <<offChain, onChain>>

Side == {"a", "b"}
Other(s) == CHOOSE o \in Side : o # s

Pending(hs) == {i \in DOMAIN hs : hs[i].status = "pending"}
Total(outs) == SumFunction([o \in outs |-> o.value])

PendingOut(hs, s) ==
    SumFunction([i \in {j \in Pending(hs) : hs[j].offerer = s} |-> hs[i].amount])

Spendable(s) == balance[s] - PendingOut(htlcs, s)

----------------------------------------------------------------------------
(***************************************************************************)
(* Commitments.  An output names its kind, whose it is, its value, and the *)
(* HTLC it stands for (0 for none).                                        *)
(***************************************************************************)
Output(kind, to, value, id) == [kind |-> kind, to |-> to, value |-> value, id |-> id]

\* Mutant: what is offered is not taken from the balances.
CommitmentOutputsGross(holder, bal, hs) ==
    {o \in {Output("revocable", holder, bal[holder], 0),
            Output("plain", Other(holder), bal[Other(holder)], 0)}
           \cup {Output("htlc", Other(hs[i].offerer), hs[i].amount, i) : i \in Pending(hs)} :
        o.value >= DustLimit}

CommitmentOutputs(holder, bal, hs) ==
    {o \in {Output("revocable", holder, bal[holder] - PendingOut(hs, holder), 0),
            Output("plain", Other(holder),
                   bal[Other(holder)] - PendingOut(hs, Other(holder)), 0)}
           \cup {Output("htlc", Other(hs[i].offerer), hs[i].amount, i) : i \in Pending(hs)} :
        o.value >= DustLimit}

\* The commitment number is written in the sequence field of the input, where
\* the chain reads a relative lock.
BuildCommitment(holder, n, bal, hs) ==
    [by |-> holder, number |-> n, lock |-> n, spends |-> Len(funding),
     outputs |-> CommitmentOutputs(holder, bal, hs)]

\* buildCommitment throws when every output is dust, and SecretChain.point at
\* the end of the chain; for one holder exactly when for the other.
Committable(n, bal, hs) == n < ChainDepth /\ CommitmentOutputs("a", bal, hs) # {}

Commit(n, bal, hs) ==
    IF Committable(n, bal, hs)
    THEN [m \in DOMAIN history \cup {n} |->
            IF m = n THEN [s \in Side |-> BuildCommitment(s, n, bal, hs)] ELSE history[m]]
    ELSE history

\* Mutant: the secrets revealed are those of the commitment just signed.
RevokeAndAdvanceLate(bal, hs) ==
    IF number < ChainDepth
    THEN /\ revoked' = revoked \cup {number + 1}
         /\ number' = number + 1
         /\ history' = Commit(number + 1, bal, hs)
    ELSE UNCHANGED <<revoked, number, history>>

\* revokeAndAdvance: the current secrets, if there are any left, then the next
\* number, then the next pair, if it can be signed.
RevokeAndAdvance(bal, hs) ==
    IF number < ChainDepth
    THEN /\ revoked' = revoked \cup {number}
         /\ number' = number + 1
         /\ history' = Commit(number + 1, bal, hs)
    ELSE UNCHANGED <<revoked, number, history>>

\* Every update: the new balances and HTLCs stay, whatever comes of signing.
Update(bal, hs) ==
    /\ balance' = bal
    /\ htlcs' = hs
    /\ RevokeAndAdvance(bal, hs)
    /\ UNCHANGED <<state, funding, splicedAt, closes, onChain>>

Move(from, amount) ==
    [balance EXCEPT ![from] = @ - amount, ![Other(from)] = @ + amount]

----------------------------------------------------------------------------
(***************************************************************************)
(* Off-chain operations.                                                   *)
(***************************************************************************)
Init ==
    /\ state = "opening"
    /\ \E push \in Push :
          balance = [s \in Side |-> IF s = "a" THEN Capacity - push ELSE push]
    /\ number = 0 /\ htlcs = <<>> /\ revoked = {} /\ history = <<>>
    /\ funding = <<Capacity>> /\ splicedAt = {} /\ closes = {}
    /\ height = 1 /\ minedAt = <<0>>
    /\ spending = NoTx /\ unspent = {}
    /\ paid = [s \in Side |-> 0]

\* The funding output is in the chain's UTXO set (network.ts confirmAll).
FundingUnspent == Last(minedAt) > 0 /\ spending = NoTx

\* #assertOpen, which knows nothing of the chain.  That no new payment, splice
\* or close is tried once the funding output is seen spent is a bound.
SeenUnspent == spending = NoTx
AssertOpen == state = "open" /\ SeenUnspent

ConfirmChannel ==
    /\ FundingUnspent
    /\ state' = "open"
    /\ history' = Commit(number, balance, htlcs)
    /\ UNCHANGED <<balance, number, htlcs, revoked, funding, splicedAt, closes, onChain>>

Pay(from, amount) ==
    /\ AssertOpen
    /\ amount <= Spendable(from)
    /\ Update(Move(from, amount), htlcs)

AddHtlc(offerer, amount, expiry) ==
    /\ AssertOpen
    /\ Len(htlcs) < MaxHtlcs
    /\ amount <= Spendable(offerer)
    /\ Update(balance, Append(htlcs,
          [offerer |-> offerer, amount |-> amount, expiry |-> expiry, status |-> "pending"]))

\* Mutants: a failed HTLC leaves the commitment as it was; a splice does not wait
\* for HTLCs.
FailHtlcUnsigned(i) ==
    /\ i \in Pending(htlcs)
    /\ htlcs' = [htlcs EXCEPT ![i].status = "failed"]
    /\ UNCHANGED <<state, balance, number, revoked, history, funding, splicedAt, closes, onChain>>

\* Neither of these asks whether the channel is open.
SettleHtlc(i) ==
    /\ i \in Pending(htlcs)
    /\ Update(Move(htlcs[i].offerer, htlcs[i].amount), [htlcs EXCEPT ![i].status = "settled"])

FailHtlc(i) ==
    /\ i \in Pending(htlcs)
    /\ Update(balance, [htlcs EXCEPT ![i].status = "failed"])

SpliceWithPending(side, in, out) ==
    /\ AssertOpen
    /\ in + out > 0
    /\ out <= balance[side]
    /\ Last(funding) + in - out > 0
    /\ Len(funding) <= MaxSplices
    /\ balance' = [balance EXCEPT ![side] = @ + in - out]
    /\ funding' = Append(funding, Last(funding) + in - out)
    /\ minedAt' = Append(minedAt, 0)
    /\ splicedAt' = splicedAt \cup {number}
    /\ number' = number + 1
    /\ UNCHANGED <<state, htlcs, revoked, history, closes,
                   height, spending, unspent, paid>>

Splice(side, in, out) ==
    /\ AssertOpen
    /\ in + out > 0
    /\ Pending(htlcs) = {}
    /\ out <= balance[side]
    /\ Last(funding) + in - out > 0
    /\ Len(funding) <= MaxSplices
    /\ balance' = [balance EXCEPT ![side] = @ + in - out]
    /\ funding' = Append(funding, Last(funding) + in - out)
    /\ minedAt' = Append(minedAt, 0)
    /\ splicedAt' = splicedAt \cup {number}
    /\ number' = number + 1
    /\ UNCHANGED <<state, htlcs, revoked, history, closes,
                   height, spending, unspent, paid>>

\* The state of the channel is not asked for here either.
CooperativeClose ==
    /\ Pending(htlcs) = {}
    /\ CloseFee <= balance["a"]
    /\ SeenUnspent /\ Cardinality(closes) < MaxCloses
    /\ closes' = closes \cup
          {[by |-> "both", number |-> number, lock |-> 0, spends |-> Len(funding),
            outputs |-> {o \in {Output("plain", "a", balance["a"] - CloseFee, 0),
                                Output("plain", "b", balance["b"], 0)} :
                            o.value >= DustLimit}]}
    /\ state' = "closing"
    /\ UNCHANGED <<balance, number, htlcs, revoked, history, funding, splicedAt, onChain>>

ForceClose(by) ==
    /\ Committable(number, balance, htlcs)
    /\ SeenUnspent /\ Cardinality(closes) < MaxCloses
    /\ closes' = closes \cup {BuildCommitment(by, number, balance, htlcs)}
    /\ state' = "closing"
    /\ UNCHANGED <<balance, number, htlcs, revoked, history, funding, splicedAt, onChain>>

----------------------------------------------------------------------------
(***************************************************************************)
(* On the chain.                                                           *)
(***************************************************************************)
Tick ==
    /\ height < MaxHeight
    /\ height' = height + 1
    /\ UNCHANGED <<offChain, minedAt, spending, unspent, paid>>

\* The funding transaction, or a splice that spends the output before.
MineFunding ==
    /\ height <= MaxFundingHeight
    /\ spending = NoTx
    /\ \E i \in DOMAIN minedAt :
          /\ minedAt[i] = 0
          /\ i > 1 => minedAt[i - 1] > 0
          /\ minedAt' = [minedAt EXCEPT ![i] = height]
    /\ UNCHANGED <<offChain, height, spending, unspent, paid>>

Signed == UNION {{history[n][s] : s \in Side} : n \in DOMAIN history}

\* Mutant: a relative lock is met at one age only.
MineableAtExactly(tx) ==
    /\ spending = NoTx
    /\ minedAt[tx.spends] > 0
    /\ tx.spends < Len(minedAt) => minedAt[tx.spends + 1] = 0
    /\ height - minedAt[tx.spends] = tx.lock
    /\ tx.outputs # {}

\* The rules of applyTx: the output is there, and old enough.
Mineable(tx) ==
    /\ spending = NoTx
    /\ minedAt[tx.spends] > 0
    /\ tx.spends < Len(minedAt) => minedAt[tx.spends + 1] = 0
    /\ height - minedAt[tx.spends] >= tx.lock
    /\ tx.outputs # {}

Mine(tx) ==
    /\ Mineable(tx)
    /\ spending' = tx
    /\ unspent' = tx.outputs
    /\ UNCHANGED <<offChain, height, minedAt, paid>>

Spend(outs, to, fee) ==
    /\ unspent' = unspent \ outs
    /\ paid' = [paid EXCEPT ![to] = @ + Total(outs) - fee]
    /\ UNCHANGED <<offChain, height, minedAt, spending>>

Take(o, to, fee) == Spend({o}, to, fee)

\* The wallet of a side spends what is plainly its own.
SpendPlain(o) == o.kind = "plain" /\ Take(o, o.to, 0)

\* At any age: an input with the final sequence is not held to a relative lock
\* (chain.ts:464) and its masked sequence passes the script's delay (tx.ts:509).
SpendDelayed(o) == o.kind = "revocable" /\ Take(o, o.to, 0)

\* The outputs a penalty takes, all of them or the transaction is not valid.
Penalised(tx) ==
    {o \in tx.outputs : o.kind = "revocable" \/ (o.kind = "plain" /\ o.to = Other(tx.by))}

\* penaltyFor is called for commitments before the current one (watchtower.ts
\* backfill); it takes the secret from the party itself, revealed or not.
Penalty ==
    /\ spending # NoTx /\ spending.by \in Side
    /\ spending.number < number
    /\ Penalised(spending) # {} /\ Penalised(spending) \subseteq unspent
    /\ Total(Penalised(spending)) > PenaltyFee
    /\ Spend(Penalised(spending), Other(spending.by), PenaltyFee)

SweepHtlc(o) ==
    /\ o.kind = "htlc" /\ o.value > HtlcFee
    /\ Take(o, o.to, HtlcFee)

RefundHtlc(o) ==
    /\ o.kind = "htlc" /\ o.value > HtlcFee
    /\ height >= htlcs[o.id].expiry
    /\ Take(o, Other(o.to), HtlcFee)

----------------------------------------------------------------------------
Next ==
    \/ ConfirmChannel
    \/ \E s \in Side, v \in Amount : Pay(s, v)
    \/ \E s \in Side, v \in Amount, e \in Expiry : AddHtlc(s, v, e)
    \/ \E i \in DOMAIN htlcs : SettleHtlc(i) \/ FailHtlc(i)
    \/ \E s \in Side, in \in SpliceIn, out \in SpliceOut : Splice(s, in, out)
    \/ CooperativeClose
    \/ \E s \in Side : ForceClose(s)
    \/ Tick
    \/ MineFunding
    \/ \E tx \in Signed \cup closes : Mine(tx)
    \/ \E o \in unspent :
          SpendPlain(o) \/ SpendDelayed(o) \/ SweepHtlc(o) \/ RefundHtlc(o)
    \/ Penalty

Spec == Init /\ [][Next]_vars

\* Blocks are mined, and a published close is mined when it may be.
FairSpec ==
    /\ Spec
    /\ WF_vars(Tick)
    /\ WF_vars(MineFunding)
    /\ WF_vars(\E tx \in closes : Mine(tx))
----------------------------------------------------------------------------
(***************************************************************************)
(* Properties.                                                             *)
(***************************************************************************)

\* Whatever is paid, offered, settled, failed and spliced, in any order: the
\* balances are the funding output, and each side can pay what it has offered.
FundsCovered ==
    /\ balance["a"] + balance["b"] = Last(funding)
    /\ \A s \in Side : PendingOut(htlcs, s) <= balance[s]

\* No transaction the parties sign pays out more than the output it spends,
\* and none gives up more than dust and the closing fee.
PaysOutFunding ==
    \A tx \in Signed \cup closes :
        LET lost == funding[tx.spends] - Total(tx.outputs)
            fee == IF tx.by = "both" THEN CloseFee ELSE 0
        IN  lost >= 0 /\ lost <= fee + (2 + MaxHtlcs) * (DustLimit - 1)

\* Secrets are out for exactly the commitments that updates have superseded:
\* never for the one in force, and for all before it, except those that a
\* splice alone has superseded.
RevokedIsSuperseded ==
    /\ revoked \subseteq 0..(number - 1)
    /\ 0..(number - 1) \subseteq revoked \cup splicedAt

\* A commitment recorded under the current number is the current state, on the
\* current funding output: no update leaves it behind, even one that throws.
RecordedIsCurrent ==
    number \in DOMAIN history =>
        \A s \in Side : history[number][s] = BuildCommitment(s, number, balance, htlcs)

\* A close of a confirmed channel is mined in the end, unless the channel is
\* spliced over its head: the lock its number amounts to runs out.
CloseSettles ==
    \A i \in 1..(MaxSplices + 1) :
        (\E tx \in closes : tx.spends = i /\ minedAt[i] > 0 /\ tx.outputs # {})
            ~> (spending # NoTx \/ Len(funding) > i)

=============================================================================

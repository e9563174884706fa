------------------------------- MODULE Wallet -------------------------------
(***************************************************************************)
(* wallet/wallet.ts: finding the wallet's coins, choosing among them, and  *)
(* building a payment.  A coin is a record id, value, branch, index, ripe: *)
(* the branch and index of the address it lies on, and whether it may be   *)
(* spent (no coinbase, or one with COINBASE_MATURITY confirmations).       *)
(***************************************************************************)
EXTENDS Integers, Sequences, FiniteSets, SequencesExt, FiniteSetsExt, Folds

CONSTANTS
    GapLimit,       \* empty addresses in a row that end a scan
    FeePerInput,
    FeePerOutput,   \* feeRate times estimateSize's terms
    DustThreshold,
    MaxIndex        \* bound: addresses of a branch

ASSUME WalletConstants ==
    /\ GapLimit \in Nat \ {0} /\ MaxIndex \in Nat
    /\ FeePerInput \in Nat /\ FeePerOutput \in Nat /\ DustThreshold \in Nat

Branch == {"receive", "change"}
Value(coins) == MapThenSumSet(LAMBDA c : c.value, coins)

Used(coins, branch) == {c.index : c \in {d \in coins : d.branch = branch}}

\* scan walks a branch until GapLimit addresses in a row hold nothing.
Scan(coins) ==
    {c \in coins : \A i \in 0..(c.index - GapLimit) :
                       \E j \in i..(i + GapLimit - 1) : j \in Used(coins, c.branch)}

Spendable(coins) == {c \in Scan(coins) : c.ripe}

\* "The first change address with no history": with no coin, that is.
NextChange(coins) == Min((0..MaxIndex) \ Used(coins, "change"))

\* Largest first; of equals, the one longest there.
LargestFirst(usable) ==
    SetToSortSeq(usable, LAMBDA c, d : c.value > d.value \/ (c.value = d.value /\ c.id < d.id))

\* The tightest single coin that will do, or else the largest until they do.
Select(usable, target) ==
    LET single == {c \in usable : c.value >= target}
        tightest == CHOOSE c \in single : \A d \in single \ {c} :
                        c.value < d.value \/ (c.value = d.value /\ c.id < d.id)
        sorted == LargestFirst(usable)
        prefix(n) == {sorted[i] : i \in 1..n}
        enough == {n \in 1..Len(sorted) : Value(prefix(n)) >= target}
    IN IF single # {} THEN {tightest}
       ELSE IF enough # {} THEN prefix(Min(enough)) ELSE usable

FeeFor(inputs, outputs) == inputs * FeePerInput + outputs * FeePerOutput

NoPayment == [ins |-> {}, to |-> "", change |-> 0, slot |-> 0]

\* send: selected once for the amount, again for amount and fee if that fell
\* short; change not above dust goes to the fee.
Send(coins, to, amount) ==
    LET usable == Spendable(coins)
        first == Select(usable, amount)
        fee1 == FeeFor(Cardinality(first), 2)
        chosen == IF Value(first) >= amount + fee1 THEN first ELSE Select(usable, amount + fee1)
        fee == FeeFor(Cardinality(chosen), 2)
        rest == Value(chosen) - amount - fee
    IN IF usable = {} \/ rest < 0 THEN NoPayment
       ELSE [ins |-> {c.id : c \in chosen}, to |-> to,
             change |-> IF rest > DustThreshold THEN rest ELSE 0,
             slot |-> IF rest > DustThreshold THEN NextChange(coins) ELSE 0]
=============================================================================

------------------------------- MODULE Ledger -------------------------------
(***************************************************************************)
(* The world state of the node (chain/src/state.ts), what connecting a     *)
(* block does to it, the undo record written beside the block, and what    *)
(* disconnecting the block makes of that record                            *)
(* (chain/src/node/chainstate.ts).  Every operator is a plain definition,  *)
(* so that the same text is evaluated by TLC and used in the proofs.       *)
(*                                                                         *)
(* A block's body is kept only as far as the ledger can tell two bodies    *)
(* apart: the outpoints its inputs name, the outpoints its outputs make,   *)
(* the contracts it calls and deploys with the storage they end with, and  *)
(* how often each account deploys.  Equality of state roots is equality of *)
(* world states (the root is a hash of the whole state, state.ts:164).     *)
(***************************************************************************)
EXTENDS Integers

CONSTANTS
    Block,       \* every block any peer may ever offer
    Coin,        \* outpoints, txid:vout
    Contract,    \* contract addresses
    Account,     \* accounts that deploy contracts
    Storage,     \* contract storages
    Absent,      \* "there is no contract at this address"
    Body,        \* Body[b]: what block b does, see BodyType
    Commitment,  \* Commitment[b]: the world state whose root b's header carries
    Sound        \* blocks that pass the checks which do not read the UTXO set:
                 \* signatures, scripts, fees, gas, covenants, coinbase amount

(***************************************************************************)
(* World states: WorldState's three maps.  An account that never deployed  *)
(* has nonce 0 (state.ts:nonceOf).                                         *)
(***************************************************************************)
WorldState ==
    [ coins     : SUBSET Coin,
      contracts : [Contract -> Storage \cup {Absent}],
      nonces    : [Account -> Nat] ]

BodyType ==
    [ spends  : SUBSET Coin,
      creates : SUBSET Coin,
      calls   : SUBSET Contract,
      deploys : SUBSET Contract,
      storage : [Contract -> Storage],
      bumps   : [Account -> Nat] ]

ASSUME LedgerAssumption ==
    /\ Absent \notin Storage
    /\ Body \in [Block -> BodyType]
    /\ Commitment \in [Block -> WorldState]
    /\ Sound \subseteq Block

Touched(b)   == Body[b].calls \cup Body[b].deploys
Deployers(b) == {a \in Account : Body[b].bumps[a] > 0}

(***************************************************************************)
(* The state after every transaction of b has been applied to a clone of   *)
(* s: an output made and spent inside the block leaves no trace.           *)
(***************************************************************************)
ApplyBlock(s, b) ==
    [ coins     |-> (s.coins \cup Body[b].creates) \ Body[b].spends,
      contracts |-> [c \in Contract |->
                        IF c \in Touched(b) THEN Body[b].storage[c]
                                            ELSE s.contracts[c]],
      nonces    |-> [a \in Account |-> s.nonces[a] + Body[b].bumps[a]] ]

(***************************************************************************)
(* #connect accepts b on top of s.  The last conjunct is the comparison of *)
(* the computed root with the header's.  A block that makes an outpoint    *)
(* that already exists cannot be built (the txid covers the inputs, and    *)
(* the height for a coinbase); addUtxo refuses it.                         *)
(***************************************************************************)
Applies(s, b) ==
    /\ b \in Sound
    /\ Body[b].spends \subseteq s.coins \cup Body[b].creates
    /\ Body[b].creates \cap s.coins = {}
    /\ \A c \in Body[b].deploys : s.contracts[c] = Absent
    /\ \A c \in Body[b].calls : s.contracts[c] # Absent \/ c \in Body[b].deploys
    /\ ApplyBlock(s, b) = Commitment[b]

(***************************************************************************)
(* The undo record is read from the state before the block: the coins the  *)
(* block consumes that existed before it (one made inside the block did    *)
(* not), every outpoint the block makes, every contract it touches as it   *)
(* was, and the nonces of the accounts that deploy.                        *)
(***************************************************************************)
UndoRecord(s, b) ==
    [ spent     |-> Body[b].spends \cap s.coins,
      created   |-> Body[b].creates,
      contracts |-> [c \in Touched(b) |-> s.contracts[c]],
      nonces    |-> [a \in Deployers(b) |-> s.nonces[a]] ]

(***************************************************************************)
(* #disconnect: remove what the block made (an output already gone is      *)
(* skipped), put back what it consumed, put contracts and nonces back.     *)
(***************************************************************************)
ApplyUndo(s, u) ==
    [ coins     |-> (s.coins \ u.created) \cup u.spent,
      contracts |-> [c \in Contract |->
                        IF c \in DOMAIN u.contracts THEN u.contracts[c]
                                                    ELSE s.contracts[c]],
      nonces    |-> [a \in Account |->
                        IF a \in DOMAIN u.nonces THEN u.nonces[a]
                                                 ELSE s.nonces[a]] ]

(***************************************************************************)
(* What #connect writes to the tables: not the new state wholesale but the *)
(* difference, taken from the undo record u and the applied draft.  Only   *)
(* an output that is still in the draft becomes a row.                     *)
(***************************************************************************)
WriteBlockAllOutputs(rows, draft, u) ==
    [ coins     |-> (rows.coins \ u.spent) \cup u.created,
      contracts |-> draft.contracts,
      nonces    |-> draft.nonces ]

WriteBlock(rows, draft, u) ==
    [ coins     |-> (rows.coins \ u.spent) \cup (u.created \cap draft.coins),
      contracts |-> [c \in Contract |->
                        IF c \in DOMAIN u.contracts THEN draft.contracts[c]
                                                    ELSE rows.contracts[c]],
      nonces    |-> [a \in Account |->
                        IF a \in DOMAIN u.nonces THEN draft.nonces[a]
                                                 ELSE rows.nonces[a]] ]
=============================================================================

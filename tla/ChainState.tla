----------------------------- MODULE ChainState -----------------------------
(***************************************************************************)
(* Persistent chain state with reorganisation                              *)
(* (chain/src/node/chainstate.ts over chain/src/store/sqlite.ts).          *)
(*                                                                         *)
(* Variables are split as the code splits them: what SQLite holds, which a *)
(* crash leaves as the last committed transaction made it; what the        *)
(* process holds, which a crash loses; and the reorganisation in progress. *)
(* acceptBlock runs to its end without yielding, but every #connect and    *)
(* #disconnect inside it commits a transaction of its own, so each is one  *)
(* action here and a crash may come between any two.                       *)
(***************************************************************************)
EXTENDS Ledger, FiniteSets

CONSTANTS
    Genesis,
    Parent,        \* Parent[b] = header.prevHash, for b # Genesis
    Ancestors,     \* Ancestors[b]: b and the blocks below it
    Height,        \* header.height
    ChainWork,     \* accumulated work, genesis included
    HeaderOk,      \* blocks that pass checkHeader
    ContextOk,     \* blocks with the height, bits and time their parent asks for
    UndoRetention  \* opts.undoRetention

ASSUME TreeAssumption ==
    /\ Genesis \in Block
    /\ Parent \in [Block \ {Genesis} -> Block]
    /\ Ancestors \in [Block -> SUBSET Block]
    /\ Ancestors[Genesis] = {Genesis}
    /\ \A b \in Block \ {Genesis} :
          Ancestors[b] = Ancestors[Parent[b]] \cup {b}
    /\ Height \in [Block -> Nat]
    /\ Height[Genesis] = 0
    /\ \A b \in Block \ {Genesis} : Height[b] = Height[Parent[b]] + 1
    /\ \A b \in Block : Genesis \in Ancestors[b]
    /\ \A b \in Block : \A a \in Ancestors[b] : Ancestors[a] \subseteq Ancestors[b]
    /\ \A b \in Block : \A a \in Ancestors[b] : Height[a] <= Height[b]
    /\ \A b \in Block : \A a, c \in Ancestors[b] :
          Height[a] = Height[c] => a = c
    /\ ChainWork \in [Block -> Nat]
    /\ \A b \in Block \ {Genesis} : ChainWork[b] > ChainWork[Parent[b]]

ASSUME NodeAssumption ==
    /\ HeaderOk \subseteq Block
    /\ ContextOk \subseteq Block
    /\ UndoRetention \in Nat

VARIABLES
    \* SQLite
    stored,   \* hashes with a row in blocks
    active,   \* those whose row has active = 1
    undo,     \* the undo table: a function from some blocks to their records
    rows,     \* utxos, contracts and nonces tables, as one world state
    tipRow,   \* meta('tip')
    \* the process
    state,    \* this.state
    tip,      \* this.#tip
    job,      \* the #reorgTo in progress
    verdict,  \* status returned by the last acceptBlock
    \* history
    interrupted, \* a reorganisation was cut short by a crash or a fault
    misplaced    \* blocks #restoreTo connected on a block not their parent

store   == <<stored, active, undo, rows, tipRow>>
memory  == <<state, tip>>
history == <<interrupted, misplaced>>
vars    == <<store, memory, job, verdict, history>>

Statuses == {"connected", "sidechain", "duplicate", "orphan", "invalid", "thrown"}

(***************************************************************************)
(* A reorganisation.  The code's lists `branch`, `disconnected` and        *)
(* `connected` each hold at most one block per height, in height order, so *)
(* they are sets here and the loops take the lowest or highest element.    *)
(***************************************************************************)
Idle == [phase |-> "idle"]
Reorg ==
    [ phase  : {"down", "up", "restoring"},
      target : Block,        \* the block to move to
      origin : Block,        \* originalTip
      todo   : SUBSET Block, \* branch blocks not yet connected
      gone   : SUBSET Block, \* disconnected, still to be put back on failure
      done   : SUBSET Block  \* connected, still to be undone on failure
    ]

Lowest(S)  == CHOOSE b \in S : \A o \in S : Height[b] <= Height[o]
Highest(S) == CHOOSE b \in S : \A o \in S : Height[o] <= Height[b]

IsUndoRecord(u) ==
    /\ u.spent \subseteq Coin
    /\ u.created \subseteq Coin
    /\ DOMAIN u.contracts \subseteq Contract
    /\ \A c \in DOMAIN u.contracts : u.contracts[c] \in Storage \cup {Absent}
    /\ DOMAIN u.nonces \subseteq Account
    /\ \A a \in DOMAIN u.nonces : u.nonces[a] \in Nat

TypeOK ==
    /\ stored \subseteq Block
    /\ active \subseteq stored
    /\ DOMAIN undo \subseteq Block
    /\ \A b \in DOMAIN undo : IsUndoRecord(undo[b])
    /\ rows \in WorldState
    /\ tipRow \in Block
    /\ state \in WorldState
    /\ tip \in Block
    /\ job \in Reorg \cup {Idle}
    /\ verdict \in Statuses
    /\ interrupted \in BOOLEAN
    /\ misplaced \subseteq Block

(***************************************************************************)
(* open() on an empty store: one transaction writes the genesis block, its *)
(* state and the tip.  There is no undo record for genesis.                *)
(***************************************************************************)
Init ==
    /\ stored = {Genesis} /\ active = {Genesis}
    /\ undo = [b \in {} |-> {}]
    /\ rows = Commitment[Genesis] /\ state = rows
    /\ tipRow = Genesis /\ tip = tipRow
    /\ job = Idle
    /\ verdict = "connected"
    /\ interrupted = FALSE /\ misplaced = {}

----------------------------------------------------------------------------
(***************************************************************************)
(* #connect and #disconnect.                                               *)
(***************************************************************************)

\* pruneUndo runs in the connecting transaction, and only on a chain longer
\* than the window.
KeepUndoOffByOne(table, b) ==
    [x \in {y \in DOMAIN table : Height[y] + UndoRetention > Height[b]} |->
        table[x]]

KeepUndo(table, b) ==
    [x \in {y \in DOMAIN table : \/ Height[b] <= UndoRetention
                                 \/ Height[y] >= Height[b] - UndoRetention} |->
        table[x]]

PutUndo(table, b, u) ==
    [x \in DOMAIN table \cup {b} |-> IF x = b THEN u ELSE table[x]]

Connect(b) ==
    LET draft == ApplyBlock(state, b)
        u     == UndoRecord(state, b)
    IN  /\ stored' = stored \cup {b}
        /\ active' = active \cup {b}
        /\ undo' = KeepUndo(PutUndo(undo, b, u), b)
        /\ rows' = WriteBlock(rows, draft, u)
        /\ tipRow' = b
        /\ state' = draft
        /\ tip' = b

\* The guards of #disconnect, in its order; the last compares the restored
\* root with the one the parent commits to.
CanDisconnect ==
    /\ tip # Genesis
    /\ tip \in DOMAIN undo
    /\ ApplyUndo(state, undo[tip]) = Commitment[Parent[tip]]

DisconnectKeepsActive ==
    LET restored == ApplyUndo(state, undo[tip])
    IN  /\ rows' = restored
        /\ tipRow' = Parent[tip]
        /\ state' = restored
        /\ tip' = Parent[tip]
        /\ UNCHANGED <<stored, active, undo>>

\* The undo record stays in its table.
Disconnect ==
    LET restored == ApplyUndo(state, undo[tip])
    IN  /\ active' = active \ {tip}
        /\ rows' = restored
        /\ tipRow' = Parent[tip]
        /\ state' = restored
        /\ tip' = Parent[tip]
        /\ UNCHANGED <<stored, undo>>

----------------------------------------------------------------------------
(***************************************************************************)
(* acceptBlock: the checks, in order.                                      *)
(***************************************************************************)

Untouched == UNCHANGED <<store, memory, job, history>>

Duplicate(b) ==
    /\ job = Idle /\ b \in stored
    /\ verdict' = "duplicate" /\ Untouched

RejectHeader(b) ==
    /\ job = Idle /\ b \notin stored
    /\ b \notin HeaderOk
    /\ verdict' = "invalid" /\ Untouched

Orphan(b) ==
    /\ job = Idle /\ b \in HeaderOk \ stored
    /\ b = Genesis \/ Parent[b] \notin stored
    /\ verdict' = "orphan" /\ Untouched

Candidate(b) ==
    /\ job = Idle
    /\ b \in HeaderOk \ stored
    /\ b # Genesis
    /\ Parent[b] \in stored

RejectContext(b) ==
    /\ Candidate(b) /\ b \notin ContextOk
    /\ verdict' = "invalid" /\ Untouched

\* A block on the tip: connected, or refused and not even stored.
ExtendTip(b) ==
    /\ Candidate(b) /\ b \in ContextOk
    /\ Parent[b] = tip
    /\ \/ /\ Applies(state, b)
          /\ Connect(b)
          /\ verdict' = "connected"
          /\ UNCHANGED <<job, history>>
       \/ /\ ~Applies(state, b)
          /\ verdict' = "invalid" /\ Untouched

\* Any other block is stored unvalidated on its branch ...
StoreInactive(b) ==
    /\ Candidate(b) /\ b \in ContextOk
    /\ Parent[b] # tip
    /\ stored' = stored \cup {b}
    /\ UNCHANGED <<active, undo, rows, tipRow, memory, history>>

\* ... and stays there while its chain has no more work than the tip's,
AcceptSide(b) ==
    /\ StoreInactive(b)
    /\ ChainWork[b] <= ChainWork[tip]
    /\ verdict' = "sidechain"
    /\ UNCHANGED job

\* #reorgTo walks back over inactive blocks to the fork point.
BranchOf(b) ==
    {a \in Ancestors[b] :
        \A x \in Ancestors[b] : Height[x] >= Height[a] => x \notin active}
ForkPoint(b) == Parent[Lowest(BranchOf(b))]

\* ... is refused when the fork point is below the undo window,
AcceptTooDeep(b) ==
    /\ StoreInactive(b)
    /\ ChainWork[b] > ChainWork[tip]
    /\ Height[tip] - Height[ForkPoint(b)] > UndoRetention
    /\ verdict' = "invalid"
    /\ UNCHANGED job

\* ... or else begins.
BeginReorgAnyDepth(b) ==
    /\ StoreInactive(b)
    /\ ChainWork[b] > ChainWork[tip]
    /\ job' = [ phase |-> "down", target |-> b, origin |-> tip,
                todo |-> BranchOf(b), gone |-> {}, done |-> {} ]
    /\ UNCHANGED verdict

BeginReorg(b) ==
    /\ StoreInactive(b)
    /\ ChainWork[b] > ChainWork[tip]
    /\ Height[tip] - Height[ForkPoint(b)] <= UndoRetention
    /\ job' = [ phase |-> "down", target |-> b, origin |-> tip,
                todo |-> BranchOf(b), gone |-> {}, done |-> {} ]
    /\ UNCHANGED verdict

----------------------------------------------------------------------------
(***************************************************************************)
(* #reorgTo: down to the fork point, up the branch.                        *)
(***************************************************************************)

Running(phase) == job # Idle /\ job.phase = phase

AtFork == tip = Parent[Lowest(job.todo)]

DisconnectTip ==
    /\ Running("down") /\ ~AtFork
    /\ IF CanDisconnect
       THEN /\ Disconnect
            /\ job' = [job EXCEPT !.gone = @ \cup {tip}]
       ELSE /\ job' = [job EXCEPT !.phase = "restoring"]
            /\ UNCHANGED <<store, memory>>
    /\ UNCHANGED <<verdict, history>>

ConnectNext ==
    /\ Running("up") \/ (Running("down") /\ AtFork)
    /\ LET b == Lowest(job.todo) IN
        \/ /\ Applies(state, b)
           /\ Connect(b)
           /\ IF job.todo = {b}
              THEN /\ job' = Idle
                   /\ verdict' = "connected"
              ELSE /\ job' = [job EXCEPT !.phase = "up",
                                         !.todo = @ \ {b},
                                         !.done = @ \cup {b}]
                   /\ UNCHANGED verdict
           /\ UNCHANGED history
        \/ /\ ~Applies(state, b)
           /\ active' = active \ {b}
           /\ job' = [job EXCEPT !.phase = "restoring"]
           /\ UNCHANGED <<stored, undo, rows, tipRow, memory, verdict, history>>

(***************************************************************************)
(* #restoreTo: take back what was connected, highest first, ignoring a     *)
(* failure; put back what was disconnected, lowest first, ignoring a       *)
(* failure; then compare the tip with the original one.  #connect does not *)
(* compare prevHash with the tip.                                          *)
(***************************************************************************)
UndoConnectedAgain ==
    /\ Running("restoring") /\ job.done # {}
    /\ LET b == Highest(job.done) IN
        /\ job' = job
        /\ IF tip = b /\ CanDisconnect THEN Disconnect
                                       ELSE UNCHANGED <<store, memory>>
    /\ UNCHANGED <<verdict, history>>

UndoConnected ==
    /\ Running("restoring") /\ job.done # {}
    /\ LET b == Highest(job.done) IN
        /\ job' = [job EXCEPT !.done = @ \ {b}]
        /\ IF tip = b /\ CanDisconnect THEN Disconnect
                                       ELSE UNCHANGED <<store, memory>>
    /\ UNCHANGED <<verdict, history>>

PutBack(b) ==
    /\ IF Applies(state, b) THEN Connect(b) ELSE UNCHANGED <<store, memory>>
    /\ misplaced' = IF Applies(state, b) /\ tip # Parent[b]
                    THEN misplaced \cup {b} ELSE misplaced

RedoDisconnectedTopFirst ==
    /\ Running("restoring") /\ job.done = {} /\ job.gone # {}
    /\ LET b == Highest(job.gone) IN
        PutBack(b) /\ job' = [job EXCEPT !.gone = @ \ {b}]
    /\ UNCHANGED <<verdict, interrupted>>

RedoDisconnected ==
    /\ Running("restoring") /\ job.done = {} /\ job.gone # {}
    /\ LET b == Lowest(job.gone) IN
        PutBack(b) /\ job' = [job EXCEPT !.gone = @ \ {b}]
    /\ UNCHANGED <<verdict, interrupted>>

EndRestore ==
    /\ Running("restoring") /\ job.done = {} /\ job.gone = {}
    /\ job' = Idle
    /\ verdict' = IF tip = job.origin THEN "invalid" ELSE "thrown"
    /\ UNCHANGED <<store, memory, history>>

ReorgStep ==
    DisconnectTip \/ ConnectNext \/ UndoConnected \/ RedoDisconnected \/ EndRestore

----------------------------------------------------------------------------
(***************************************************************************)
(* Failures.  A crash loses the process; open() then reads the tip and the *)
(* tables back and knows nothing of a reorganisation.  A transaction that  *)
(* throws (a full disk, a locked database) is rolled back, and the         *)
(* exception leaves acceptBlock without passing through #restoreTo.        *)
(***************************************************************************)
Restart ==
    /\ state' = rows /\ tip' = tipRow
    /\ job' = Idle
    /\ interrupted' = (interrupted \/ job # Idle)
    /\ UNCHANGED <<store, verdict, misplaced>>

StoreFault ==
    /\ job # Idle
    /\ job' = Idle
    /\ verdict' = "thrown"
    /\ interrupted' = TRUE
    /\ UNCHANGED <<store, memory, misplaced>>

----------------------------------------------------------------------------
AcceptBlock(b) ==
    \/ Duplicate(b) \/ RejectHeader(b) \/ Orphan(b) \/ RejectContext(b)
    \/ ExtendTip(b) \/ AcceptSide(b) \/ AcceptTooDeep(b) \/ BeginReorg(b)

Next ==
    \/ \E b \in Block : AcceptBlock(b)
    \/ ReorgStep
    \/ Restart
    \/ StoreFault

Spec == Init /\ [][Next]_vars

\* acceptBlock is synchronous: once begun, its steps are taken.
FairSpec == Spec /\ WF_vars(ReorgStep)

----------------------------------------------------------------------------
(***************************************************************************)
(* Properties.                                                             *)
(***************************************************************************)

\* Blocks that apply cleanly to the state their parent commits to; a chain
\* is good when all its blocks are.
Good == {b \in Block \ {Genesis} : Applies(Commitment[Parent[b]], b)}
GoodChain(b) == Ancestors[b] \ {Genesis} \subseteq Good

\* Two blocks that end in one UTXO set: a coinbase's txid covers its height,
\* address, value and memo and nothing else (tx.ts:560-575).
Twins(b, c) == b # c /\ Commitment[b].coins = Commitment[c].coins

\* The rows flagged active are the blocks from genesis to the tip and no
\* other, at every commit: in the middle of a reorganisation and after a
\* crash as well.  locator(), getblocks and findTransaction read the flag.
\* Only #restoreTo can break this, by connecting a block on its parent's twin.
ActiveIsPathToTip ==
    /\ tip = tipRow
    /\ misplaced = {} => active = Ancestors[tip]

\* The tables that are updated by difference on connect and wholesale on
\* disconnect always hold the state in memory, the one the tip's header
\* commits to, and every block below it was validated: open() after a crash
\* resumes from exactly some valid chain's state.
LedgerCommitted ==
    /\ rows = state
    /\ state = Commitment[tip]
    /\ GoodChain(tip)

\* An active block has an undo record as long as no stored block is more than
\* the window above it, whatever reorganisations and crashes came before, and
\* a record always takes the state its block commits to back to its parent's,
\* unless the block was once connected on its parent's twin: a record left
\* over from an earlier visit to a branch is never a stale one.
UndoWindow ==
    /\ \A b \in active \ {Genesis} :
          (\A x \in stored : Height[x] <= Height[b] + UndoRetention)
              => b \in DOMAIN undo
    /\ \A b \in DOMAIN undo \ misplaced :
          ApplyUndo(Commitment[b], undo[b]) = Commitment[Parent[b]]

\* A reorganisation that ends leaves the node on the block it set out for or
\* on the one it came from, never in between (chainstate.ts:22-24); only a
\* crash or a failing store cuts it short.
NeverStranded ==
    [][(job # Idle /\ job' = Idle /\ ~interrupted')
            => tip' \in {job.target, job.origin}]_vars

\* ... except on a branch longer than the undo window: what #connect prunes
\* on the way up is missing on the way down.  The node then stays on a block
\* of that branch, more than the window below the block it set out for; or,
\* where that block is the twin of the parent of one #restoreTo puts back,
\* #connect takes it, and the node ends on its old tip over a foreign block.
StrandedOnlyBelowWindow ==
    [][/\ (ConnectNext \/ EndRestore) /\ job' = Idle
            => \/ tip' \in {job.target, job.origin}
               \/ /\ tip' \in Ancestors[job.target] \ Ancestors[job.origin]
                  /\ Height[tip'] + UndoRetention + 1 < Height[job.target]
       /\ misplaced' # misplaced
            => /\ tip \in Ancestors[job.target]
               /\ Height[tip] + UndoRetention + 1 < Height[job.target]
               /\ Twins(tip, Parent[Lowest(job.gone)])]_vars

\* Every reorganisation ends.
ReorgEnds == (job # Idle) ~> (job = Idle)

\* While a reorganisation runs, the block that caused it is not yet known and
\* the best block is the old one.
FC == INSTANCE ForkChoice WITH
        HeaderOk <- HeaderOk \cap ContextOk,
        known    <- IF job = Idle THEN stored ELSE stored \ {job.target},
        best     <- IF job = Idle THEN tip ELSE job.origin,
        damaged  <- misplaced # {}

RefinesForkChoice == FC!ForkSpec
=============================================================================

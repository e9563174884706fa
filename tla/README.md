# DeckxCoin, in TLA+

DeckxCoin (`src/`) is a proof-of-work chain written in TypeScript, with scripts,
a small virtual machine, a peer-to-peer node (`chain/src/node`, `chain/src/net`)
and a payment-channel layer called Volt (`chain/src/volt`). This directory holds
TLA+ models of the parts of it whose correctness depends on the order in which
things happen, TLC configurations that check them on small instances, and TLAPS
proofs about most of what is checked. Paths below are relative to `src/chain/src` unless they
start with `src/`.

Run a check with `tlc -config MCChainState.cfg MCChainState.tla`, a proof with
`tlapm ChainProofs.tla`. `PROJECT.json` lists every run, what it checks,
which source lines each definition stands for, and the mutations of the model
that each property is known to catch.

## 1. The system

| Component | State | Operations | Talks to |
|---|---|---|---|
| Chain state (`node/chainstate.ts`, `store/sqlite.ts`) | block index, active chain, tip, UTXO/contract/nonce tables, undo records | `open`, `acceptBlock`, `#connect`, `#disconnect`, `#reorgTo`, `#restoreTo`, `mineBlock`, `locator` | the store, one SQLite transaction per call of `#connect` and `#disconnect`; called by the node |
| World state (`state.ts`, `chain.ts` `applyTx`, `tx.ts`) | UTXO map, contracts, nonces | apply a transaction or a block, undo a block | chain state, pool (drafts) |
| Pool (`node/mempool.ts`) | entries, spent-outpoint index | `add`, `remove`, `onBlockConnected`, `onBlockDisconnected`, `revalidate`, `forBlock` | the node, after every accepted block |
| Relay (`node/node.ts`) | orphans, in-flight set | handlers of `inv`, `getdata`, `getheaders`, `headers`, `block`, `tx`; `submitBlock`, `submitTransaction`, `mineOne`, `syncFromBest` | chain state and pool by call, peers by message |
| Peers (`net/manager.ts`, `net/peer.ts`) | connections, ban scores, ban list, address book | connect, handshake, score, ban, top-up timer | the node by events, the store |
| Channel (`volt/channel.ts`, `volt/secrets.ts`) | balances, HTLCs, commitment number, revocation secrets, history | `pay`, `addHtlc`, `settleHtlc`, `failHtlc`, `splice`, closes, penalty, HTLC sweep and refund | Volt network, watchtower, the chain |
| Watchtower (`volt/watchtower.ts`) | encrypted blobs, pending penalties | `register`, `scanBlock`, retry and fee ladder, `forget`, restart | the chain, the store |
| Routing and payments (`volt/network.ts`, `volt/router.ts`) | invoices, held parts | single and multi-part payment, settle, unwind | channels |
| Consensus arithmetic (`block.ts`, `params.ts`) | none | subsidy, issuance, targets, retarget, header checks | chain state |
| Faucet and gateway (`node/faucet.ts`, `node/gateway.ts`, `deckxd.ts`) | request queue, grant ledger and its file, cache, rate limiter | `request`, `rpc`, restart | wallet, node |
| Wallet (`wallet/wallet.ts`) | addresses, coins | `scan`, `send` | node |
| Transport (`net/transport.ts`) | keys, frame counters, receive buffer | key exchange, `seal`, `open`, ratchet | peer, TCP |
| Virtual machine and contracts (`vm.ts`, `contracts/`) | stack, gas, storage of a call | `execute`, the five standard contracts | `applyTx` |
| In-memory chain (`chain.ts` `Blockchain`) | blocks, world state | `addBlock`, `mineBlock` | tests, demo |
| Fee estimate, cryptography, command line | | | see "Not modelled" |

### What is hard, and what correct means

*Chain state.* A reorganisation is many SQLite transactions. Between any two of
them the process may stop, or the store may throw. Correct: at every commit the
tables hold what the tip's header commits to, the active flags are the path to
the tip, enough undo records are kept for every reorganisation that is allowed,
and a reorganisation either arrives or puts the old branch back (not always so: section 5).

*Pool.* Four structures have to agree while transactions come back from
disconnected blocks, leave with connected ones, expire, conflict, and are
evicted. Correct: whatever is pooled can be mined on the tip, the index of spent
outputs is exact, the limit holds, and a reorganisation does not lose a
transaction that nothing stands against.

*Relay.* Headers, inventories and bodies cross on the wire, from several peers;
bodies come before their parents; connections die with requests outstanding; a
peer may know less than the node; a handler may throw. Correct: a body in flight is
awaited from a peer that was asked while connections last, the heaviest chain known is
the one in force, the node catches up unless it is stuck in one of the ways of section
5, and blocks get nobody banned but for a fork beyond the window or a failing store.

*Peers.* Dials are under way when the timer fires again; an address is claimed first
from either side, by either key, or not at all; a node may reach itself. Correct: slots
hold with the dials counted, no two keys are ready at one address that both *claim*,
unless pinned (the address dialled is not judged: section 5), no peer is oneself.

*Channel, watchtower, payments.* A revoked state can be mined at any time. Correct: a
tower, restarted and re-registered too, does what it can to punish it at whatever the
relay fee has become (the chain does not hold the cheater up meanwhile: section 5); a
payment over several channels, or in several parts, settles everywhere or nowhere,
though any channel may throw in the middle.

*Transition, contracts, arithmetic.* Locks are enforced half in `checkTx` and half in
`applyTx`; contracts keep counts between calls that anybody may make. Correct: the
supply is the schedule's, timeouts and guards hold, contracts decide what their terms say, every
execution ends, a mined block is one the chain takes.

*Transport.* Counters and keys move at both ends without a word. Correct: no key
meets a counter twice, and what is heard is what was said, in order.

*Faucet and gateway.* Grants are recorded before a broadcast that may be refused or
throw, and written after it. Correct: cooldowns and the daily cap hold for what the
ledger remembers, a crash makes it forget no more than the payment in service unless a
write failed, a claimant whom the node refuses is not charged (one whose broadcast throws
is), no client exceeds its budget by what it writes in a header, and the cache is not
older than it may be.

`PROJECT.json` lists these as hazards, each at the line where it would bite, with
the properties that would catch it.

## 2. The modules

    Ledger                 what a block does to the state, its undo, the table writes
      ChainState           chainstate.ts and the store, one action per SQLite transaction
        MCChainState       a tree of thirteen blocks with twins; one with a long bad branch
        ChainProofs        theorems; about Blockchain and ContractRun too
    ForkChoice             what acceptBlock promises, as one step
    Mempool                the pool, the node's calls on it, mining
      MCMempool            seven transactions and six blocks' worth of heights
      MempoolProofs        theorems
    Lists                  filtering a list, as a recursive function
    NodeSync               one node and its peers, messages in order per connection
      MCNodeSync           five blocks on two branches, two peers
      NodeSyncProofs       theorems
    VoltChannel            a payment channel and the chain it settles on
      MCVoltChannel        three units of value, secrets for three commitments
      VoltProofs           theorems; about Watchtower too
    Watchtower             the tower, its table, its clients, relay fees and miners
    Router                 the channel graph and findRoute
      Payments             volt/network.ts over it
        MCPayments         four nodes, five channels
    AtomicPayment          what Payments promises: one step or none
    Wallet                 coin selection and change, constants only
      Faucet               the faucet, its ledger file and the node's pool
        Gateway            rate limiter and cache beside it
          GatewayProofs    theorems about both
    Peers                  connections, identities, address book, bans
      NetworkProofs        theorems; about Payments too
    Transport              key exchange, frames and rekeying between two ends
      TransportProofs      theorems
    SecureLink             what Transport promises: two streams
    Vm                     one turn of the contract machine
      Covenants            the assembler fragments and the five contracts
        ContractRun        a contract deployed and called
      Transition           checkTx and applyTx (with Consensus)
        Blockchain         the in-memory chain: addBlock and mineBlock
    Consensus              subsidy, targets, retarget, median time
    Induction              induction, filters and sums, for the proof modules

**Ledger** (constants only). A state is a record of unspent coins, contracts and
nonces. `ApplyBlock` is the state after the block; `UndoRecord` is what `#connect`
saves (coins spent, the previous value of every slot touched, the deployers'
nonces); `ApplyUndo` is `#disconnect`'s reversal; `WriteBlock` is the difference
`#connect` writes to the tables, which is *not* the way the state in memory was
computed. Scripts, signatures, amounts and fees are one constant, `Sound`, the
set of blocks whose contents those rules accept.

**ChainState**. `stored`, `active`, `tip`, `tables`, `undo` are the database; `job`
is the reorganisation under way on the JavaScript stack, or none. `acceptBlock`
becomes one action for each early return (`Duplicate`, `RejectHeader`, `Orphan`,
`RejectContext`), `ExtendTip`, `AcceptSide`, `AcceptTooDeep`, and `BeginReorg`,
after which `DisconnectTip`, `ConnectNext`, `UndoConnected`, `RedoDisconnected`
and `EndRestore` are one commit each. `Restart` forgets `job` and keeps the
database (a crash between two commits; within one, SQLite rolls back).
`StoreFault` is a store call that throws out of `acceptBlock`: the commit is
rolled back and so is the call, but not what was committed before. `Commitment`
is the state each header's state root stands for; hashes are injective. Nothing else
is assumed of it: blocks may be twins (a coinbase's txid covers its height, address,
value and memo and nothing else), and a header may carry any root. `#connect` does not
compare a block's `prevHash` with the tip, so a rollback that stops too early may put a
block back on its parent's twin; `PutBack` does, and `misplaced` (history) remembers it.

**ForkChoice** is the abstract view: a set of known blocks and a best one; a
block that arrives is ignored, remembered, or becomes the best with its branch.
`ChainState` implements it (`RefinesForkChoice`) with the best block mapped to
the target or origin of the reorganisation in progress, so that all its inner
commits are stutters; a crash inside one is the step in which the best is
whatever the tip has reached. `Damage` is a failed move put back over a twin, which only a
branch longer than the window can cause, and `Wander` what the index is still good for
afterwards: a better branch may be refused, but the best block stays on blocks that
validate and moves to a new one only for more work.

**Mempool**. Outputs, slots and nonces are "resources" that transactions consume
and create, each with the height it appeared at, so that relative locks, absolute
locks, expiry and conflicts are all real. `ConnectBlock` and `TakeReorg` are the
whole of `submitBlock`: the chain moves, confirmed transactions leave, those
disconnected are offered again one by one, everything is revalidated. `MineOne`
takes `forBlock`'s selection through `mineBlock`'s draft, gas limit and state
root. `Restart` empties the pool, which is not persisted.

**NodeSync**. The node's chain, orphans, in-flight set, pool, ban scores; per peer two
ordered streams of messages. Each handler is an action; a peer is an honest node that
answers from its own chain, which may grow, and which relays transactions it has not
seen confirmed. `Drop` loses both streams of a connection. `OnBlockThrows` is a write
that fails while a block, or an orphan it lets in, is accepted: the handler throws,
`#wire` scores the peer (`ThrowPenalty`), and the index and the tip are what
`acceptBlock` had committed (`Torn`, `DrainTorn`). `relays` counts the transactions
peers have announced and `faults` the failed writes; `MaxEvents` bounds those, the lost
connections and the restarts together (`Eventful`). The filters of the handlers (hashes
not yet known, transactions of one's own chain) are `Kept` of **Lists**. Peers start on,
and advance only along, branches that validate (`GoodChains`); the tree is a constant
about which `SyncTree` says what it must be. `acceptBlock` is one step here, as it is in
the code (it never awaits), with the verdict of `ForkChoice`. A locator is sent in full;
the code's is sparse, which makes a peer send more headers than needed, never fewer.

**VoltChannel**. `balance`, `number`, `htlcs`, `history`, `revoked` (the two maps of
revealed secrets, always filled together), `funding` (the first outpoint and one per
splice) and `state` are the fields of the object; `closes` are the transactions that
`cooperativeClose` and `forceClose` returned. `Update` is the common tail of `pay`,
`addHtlc`, `settleHtlc` and `failHtlc`: the new balances stay whether or not
`revokeAndAdvance` then throws, which it does when every output would be dust or the
`SecretChain` is used up. `settleHtlc`, `failHtlc` and `cooperativeClose` do not look
at the state, and `confirmAll` opens every channel whose funding output is unspent;
the model does the same. Any commitment ever signed may be mined, once its funding
output is as old as its sequence field demands, and its outputs are then spent by
the owner, by the penalty, by preimage or by refund. The owner need not wait for its
delay: an input with the final sequence is held to none (section 5). Whether a payee
has a preimage is left open.

**Watchtower**. `blobs` is memory and `disk` the table, whose key is the fee rung and
not the address it sweeps to, as in `putWatchBlob`; `pending` the penalties out, which
a restart forgets. `ScanBlock` is the whole of `scanBlock`: new breaches, `#act` up
the ladder, and `#retryStalled`. Relay fees move, miners choose, and the cheater may
spend its output in any block, that of the breach included. `receipts` and `excused` are
history: what was acknowledged, and for which breaches something outside the tower (no
rung above the relay fee, late blocks, a restart with a penalty out that does not pay)
explains that the output is unspent. `Deadline` is the age at which that is asked;
`DeadlineSuffices` relates it to the ladder: `RetryAfter` blocks for each rung below the
dearest, and two.

**Router, Payments**. `findRoute` is Dijkstra's search from the payee, with the node
and edge taken first left open among equals. `Overtaken` says of a path that the search's
label at one of its nodes has more to carry to that node than the path would have; such a
path the search may miss (section 5). A call of `network.ts` is cut where a
channel may throw: `job` is the call under way, and each `addHtlc`, `settleHtlc` and
`failHtlc` a step. Closes happen between calls. A channel that has used up its secrets
throws on every update (`life`), which leaves what the call had added elsewhere;
`MaxStuck` bounds the invoices with HTLCs left behind in this way. `SecretsLast` says of the
constants that a channel with a secret left has enough for the whole run. **AtomicPayment**
has two variables, what each node owns and which invoices are paid; `PaymentsAreAtomic` maps
a call in its settling phase to its start.

**Wallet, Faucet, Gateway**. `Wallet` is `selectCoins` and change as operators. In
`Faucet`, `money` is confirmed coins, `pool` what the node has, `ledger` and `disk` the
grants in memory and in the file; a request is judged, recorded, broadcast, and then
refused, lost to an exception or finished by the write, which may fail and leave the file
as it was or truncated (`Torn`; the daemon then starts only once it is moved away).
`unwritten` remembers a write that failed, `lost` what a crash has made the ledger forget.
`prune` goes by the time at which the request was taken up. `Gateway` adds
the token bucket of the address that `clientAddress` attributes a request to, given what
a client claims in `X-Forwarded-For` and what the proxies append, and the cache, filled
when an answer arrives and dated when it was asked for.

**Peers**. A socket goes from dialling over the greeting and the version handshake to
ready. A host has several addresses (ports); `at` is the one dialled and `claims` the one
its version names, which takes the dialled one's place: any of the host's, or none.
Remote hosts send anything at any time; where the host is the node itself, both
ends are sockets of the model and `wire` is what is between them. `Reset` is an error of
a dialled socket before readiness, which counts as a failed dial though it had connected.

**Transport**. `sealed` is every frame an end has made, `path` the pieces under way,
`send` and `recv` the two halves of a cipher with their counters. The path delivers any
number of pieces at a time and may alter some; a frame with a piece altered opens as
`Garbage` or not at all. A key is the term it was derived from.
**SecureLink**: what is heard is a prefix of what was said (`Spec`, which `RefinesLink`
claims); that all of it is heard in the end is a property of the run.

**Vm, Covenants, ContractRun**. `Step` is one turn of `execute`'s loop over bytes, with
words of `W` bits. `Covenants` builds the five contracts from the same fragments as
`contracts/lib.ts` and assembles them, labels included. `ContractRun` executes them as
`applyTx` does: `account` is the deployed contract with its storage, `machine` the call
under way, `TakeTurn` one turn of it, `GoesThrough` and `NoCall` what a transaction makes of
the outcome. `approvers` and `releases` are history.

**Consensus, Transition, Blockchain**. `checkTx` and `applyTx` rule by rule over coins
with values, scripts and guards, a list at a time as a recursive function; `addBlock`
with every refusal, on `blocks` and `chainState`; `mineBlock` as a draft begun, offered
transactions and sealed, at the clock's time or at one its caller fixes (`fixed`). Proof
of work and merkle roots are left out: a block commits to what it carries.

## 3. The runs

| Run | Shows |
|---|---|
| `chain_reorg` | path, ledger, undo window, termination, that only pruning below the window strands the node or misplaces a block, and the refinement of `ForkChoice`, over 13 blocks, window 2 |
| `chain_restore` | a violation: a reorganisation that fails far above the fork leaves the node on the partly applied branch |
| `mempool` | index, mineability, return after a reorganisation of up to two blocks |
| `sync` | blocks in flight are awaited, the heaviest block known is the best unless it was beyond the window, bans are for such blocks only, and that the node catches up with what was promised unless it is stuck: two peers, two branches, a lost connection, a restart, a failed write or a relayed transaction |
| `channel` | money covered, signed transactions, revocation, records, and that closes settle |
| `watchtower` | receipts outlive restarts, no breach is unspent at the deadline without excuse, stalled penalties climb |
| `payments` | cheapest routes but for paths that are overtaken, nothing left locked, the refinement of `AtomicPayment` |
| `gateway` | faucet limits for what the ledger remembers and what a crash can make it forget, a true ledger, a fresh cache, budgets behind proxies |
| `peers` | one key an address claimed, slots, no peer that is oneself |
| `contracts` | contracts decide as specified, no immediate is executed, execution ends |
| `blockchain` | the supply balances, refunds and guarded coins wait, mined blocks are taken |
| `transport` | nonces, the refinement of `SecureLink`, and that all is heard |

**Bounds.** The block tree of `MCChainState` has a main branch, a heavier branch that is
deeper than the window of two, branches with a bad header, a bad context, a body that
does not apply, a branch that is heavier though shorter, an
output created and spent in one block, a contract that is deployed on one branch and
called on another, and two first blocks that are twins: the long branch's rollback puts
the child of one on the other, and blocks go on arriving. Every reorganisation up to the
window, refused beyond it, aborted at its end from a block of each depth, and interrupted at
each commit occurs.
`MCChainRestore.cfg` takes the long branch alone, with a rival that is no twin: its last
good block is the window and two above the fork, so that the attempt which fails on the
next has pruned a record of its own. The pool has seven transactions: a payment, a rival
for its input, a child, one with a relative lock, two deployments that share a nonce,
and a call with an absolute lock; three places; heights up to four; a gas limit that the
set exceeds. In `MCNodeSync` two branches of two blocks fork at genesis. The tip of the
peers' branch is heavier though not higher, within reach of a node one block up its own
and, the window being one, beyond that of a node two blocks up. The caps on headers and
inventories are two and one, so that a batch overruns a cap; one peer starts half way up
its branch and the other at genesis; there is one place for an orphan, and only one
block that can be one, so that eviction of an orphan is not reached; one transaction,
which a peer may relay and then confirm. `MCVoltChannel` has three units of value, dust
below two, payments and HTLCs of two, a splice that puts one in and may take two out
(all outputs can become dust), secrets for three commitments, and enough blocks for the
last commitment's lock to run out. No payment, splice or close is tried once the funding
output has been seen spent, and at most one close is made. In `MCNodeSync` `MaxEvents`
is one: one lost connection, one restart, one failed write or one relayed transaction.

`MCWatchtower` has one channel, since towers treat hints apart; a ladder of four fees of
which three are worth paying, relay fees at each of them, two addresses to sweep to, a
damaged blob in the middle, a retry after two blocks and a deadline of eight: enough to
climb the ladder, and no more (`NothingToSpare`; with one block less `DeadlineSuffices`
is false). `MCPayments`: two routes of two hops whose prices cross with the amount (one
has a proportional fee), neither with room for the larger invoice, so that it needs
parts; beside one of the hops a second channel that asks no fee, waits longer and has no
secrets left, on which calls throw and because of which the search misses a route
(`MissHappens`); three attempts, one close, one invoice left stuck by an exception.
`MCGateway`: two claimants, of which one asks at a time, behind two proxies, with claims
of none, one and two entries; four instants, a day of one, a client's cooldown of two
and an address's of three, which is longer than the two days that grants are kept; one
crash or throw, and any number of failed writes; a cache of one entry and two queries.
`MCPeers`: one remote host with two addresses at which two keys answer and of which it
may claim either or none, the node's own, one slot each way, two sockets, a ban at two
points. `MCContractRun`: each contract with terms at heights 1 to 3 and callers in and
out of them, two gas limits; 2401 five-byte programs that begin with a PUSH; each opcode
on words at and around 0 and 256. `MCBlockchain`: halvings every two blocks of which
there are two, a retarget every three, clocks to six, times a caller fixes on both sides
of the median, four scripts, sequences of none, the delay and the final one; it takes
coins, foreign coinbases, clocks and contracts one `Focus` at a time, up to six blocks.
`MCTransport`: three and two frames, keys ratcheted after two, so that a rekeyed key is
used; one altered piece. Symmetry is used in `MCGateway` (claimed addresses) and
`MCPeers` (sockets), which check only invariants.

**Fairness.** `ChainState`: a reorganisation under way goes on, because it is a
synchronous loop (`WF(ReorgStep)`); crashes are never forced. `NodeSync`: a
message on a live connection is delivered and answered (TCP), and the dialler tries
again (`PeerManager.#topUpOutbound` is on a timer). Nothing is assumed about
mining, losses or restarts, nor that anybody asks for a sync: `syncFromBest` has no caller
but the RPC. `VoltChannel`: blocks go on, the funding transaction and
a published close are mined when they may be. `Watchtower`: blocks are mined and
handed to the tower. `ContractRun`: `execute` is a synchronous loop, so a call begun
goes on. `Transport`: TCP delivers what was written to a socket that stays open.

## 4. What is proved

Everything in this section holds for every value of the constants that the named
assumptions admit: any tree, any number of transactions, peers, sockets, blocks and
amounts, any caps and bounds. TLC checked each invariant on an instance before it was
proved.

**Induction.** The provers cannot instantiate a theorem about an operator `P(_)`, which
is how the library states induction. `Induction` states it about sets: a set of naturals
that has 0 and is closed under successor is `Nat`, so a proof names the set of values that
have the property and shows it closed. From that come the existence of recursive
functions on the naturals (a `CHOOSE` of a function equal to its body says nothing until
one is shown to exist), filters (`Kept` of `Lists`: its elements and their order), and
sums over functions on finite sets: changed at one place, split, compared.

**Chain state** (`ChainProofs`), from the assumptions in `Ledger` and `ChainState`:
parents have the height before, ancestors are what they should be, work grows along a
branch. Nothing is assumed of what headers commit to, so twins and roots copied from
other blocks are among the trees.

* `TypeCorrect`, `ActivePath`, `LedgerMatchesHeader`, `UndoSuffices`: types and the state
  invariants of `chain_reorg`, through crashes and faults at any commit. The ledger is the
  tip's whatever happens; that the active flags are the path to the tip, and that an undo
  record leads back to its block's parent, holds as long as no block was put back on a
  twin (`misplaced`);
* `UndoInverts`: a block's undo record undoes it, and `WriteIsApply`: writing the
  difference to the tables gives the state that was computed in memory;
* `StrandedOnlyByPruning`: a reorganisation ends on its target or its origin, or on a block
  of the new branch more than the window and one below the target; and only from there, and
  only where that block has the outpoints of the parent, does a rollback misplace a block;
* `ForkChoiceImplemented`: `ChainState` implements `ForkChoice`, step by step, damage included.

The first group rests on one inductive invariant, `IInv`. The path and the ledger are not
inductive alone: disconnecting needs the undo record to be there *and* to be the
right one. So `IInv` adds that every record undoes its block exactly (`UndoExact`),
that records are kept for every active block within the window of the highest
stored block (`UndoKept`), and, for a reorganisation in progress, that the fork
point is an active ancestor of both ends, that what has been disconnected and
connected are the matching parts of the two branches, and that what is left to do
is the rest (`JobOK`). `NextIInv` takes the actions one at a time. A block that applies in
the middle of a move or a rollback applies to its parent's state because the tip *is* its
parent; where it is not, `PutBack` marks the block, and what depended on it is no longer
claimed.

The other two need to know *where* a move is. `MoveOK` adds that what is stored is closed
under ancestors, and for each phase which chain the tip is on and exactly which blocks are
still to be moved (`MovePosition`), and that what was connected can be taken off again or
was pruned (`DoneKept`). Restoring gets stuck only in the last case. In the refinement the
inner commits stutter, an end is the step of `ForkChoice`, and a crash is its step to
whatever tip was reached, which is an ancestor of the target or of the origin.

**Pool** (`MempoolProofs`): `IndexStaysExact` and `PoolStaysMineable`. A pool is *sound* if
its index is exact for its entries (`SoundPool`); every operation on a sound pool gives a
sound one, and so does a fold of operations over the transactions of a block or the blocks
of a reorganisation. A sound pool may still hold what the chain has made stale; `IInv` holds
because admission judges by the tip, and every step that moves the chain ends in revalidation.

`ReorgsReturn`: what a reorganisation disconnects comes back unless it is confirmed again, no
longer mineable, crowded out by `MaxSize` dearer entries, or kept out by another that comes
back. That an entry of the *pool* never stands in its way needs `CoinsSpentOnce`: the chain
spends no coin twice, so no coin of a confirmed transaction comes back by other means
(`ChainSpent`, over the confirmed transactions and the state at the tip). `RestoreTracks` then
follows one disconnected transaction through the fold that offers them back.

**Relay** (`NodeSyncProofs`): `RequestsAreAnswered`: the request for a block in flight, or the
block, is under way on a live connection, until a connection is lost or a peer banned.
`SyncInv` adds only that streams hold well-formed messages; the work is in the lists: what a
capped, filtered list of hashes contains is what is marked in flight, and what a peer drops
from its answer is nothing it was asked for. A handler that throws has already taken its
block out of flight.

`HeaviestStaysBest` and `BansOnlyBeyondWindow` share `HonestInv`: whatever is known, held as an
orphan or under way is on a chain that validates, and for every known block heavier than the
best there is a known block, no heavier than the best, from which it forks beyond the window
(`SoundChains`). One arrival keeps that (`After`), and so do the passes over the orphans and
their repetition (`DrainTry`, `DrainPass`, `Drain`). A failed write may leave a heavier block
untried, so the second half is claimed while there has been none (`faults`); that all that
is known validates, and that bans need a fork beyond the window or a spent score, holds
through failed writes too.

**Peers** (`NetworkProofs`): types (`PeersTyped`), trust on first use for the address
that a peer *claims* (`IdentitiesHold`; nothing follows for the address that was
dialled), no peer is oneself (`OurselvesNeverReady`), and slots hold with the dials
counted (`SlotsHold`). `NeverOurselves` is not inductive: one end of a connection to
oneself must be known never to write a verack. `Inv` has it that the two ends know each
other or neither does, and that no verack is ever in such a wire. For the slots,
`SlotInv` counts sockets by how they came about, dials under way among them.

**Payments** (`NetworkProofs`): `ReturnedUnlocked`, for any graph, routes and order of throws.
`PendingTracked`: every HTLC pending is one the call in progress can still reach (it is on the
list to be undone, among the hops of this attempt, or of a part still held), or belongs to a
call that threw.

`PaymentsImplemented` (`PaymentsAreAtomic`) is the refinement of `AtomicPayment`: `MarkSettled`
is the payment, `PayDirect` a payment to a neighbour, everything else a stutter. It is proved
for any graph, fees, invoices and pattern of refusals, from one hypothesis, `SecretsLast`:
without it the promise is false (section 5), since settling may throw half way. A channel may
still be out of secrets from the start, or be refused for any other reason. The argument has
three parts.

* *A route is a path whose amounts never grow towards the payee* (`FoundRoute`). The search
  labels each node with the hops left to the payee and a way on to a visited node one hop
  nearer (`Chained`), which every visit keeps; the walk back along the labels then meets no node
  twice and ends.
* *Money under way adds up* (`PaySound`). No end of a channel offers more than it has
  (`Funded`). What the parts held back and the attempt in hand would move, if settled, brings
  the payee exactly what has arrived, takes nothing from it, and takes from no node between more
  than it brings (`Passes`; `OnWay` for an attempt k hops long, where the last node reached
  has still to pass on what it was brought).
* *Settling cannot fail half way* (`SettleReturns`). Every HTLC to settle is on a channel that has
  secrets and a commitment that can be signed (`Safe`), and settling one keeps that for the others
  (`SafeSettled`). `SettleIs` compares the balances with those at the start of the call, less what
  is still to settle; when nothing is, that is the payment.

**Channel** (`VoltProofs`): `RevokedSuperseded` and `RecordedCurrent`: the secrets
revealed are those of the commitments that updates superseded, and a commitment recorded
under the current number is the current state. The second is not inductive alone: an
update that throws leaves the number where it is, or moves it and records nothing; the
invariant adds that nothing is recorded beyond the number or the secrets.
`FundsStayCovered` and `SignedPaysOut`: the balances are always the funding output and
cover what each side has offered, and every transaction signed pays that output out but
for dust and the closing fee. Their invariant is `MoneyInv`: types, coverage, and that
what the history and the closes hold was paid from the funding output it spends, which a
later splice does not change. The sums over outputs and HTLCs are those of `Induction`.

**Watchtower** (`VoltProofs`): `ReceiptsHonoured`: what a client has a receipt for is in the
table until the penalty is paid. `TowerInv` has it that memory and table hold the same rungs,
though not the same blobs, and one row a fee. `BreachesPunished`: the output of a breach is
unspent at the deadline only where something outside the tower excuses it, if the deadline
suffices (`DeadlineSuffices`: two blocks, and `RetryAfter` for each rung below the dearest).
`Watch` says where each breach stands that is not excused: untouched, waiting to be seen, out
under a penalty whose rung *r* is worth its fee and whose age is at most what the rungs below
*r* have cost in waiting, or spent. TLC runs it with nothing to spare. The theorem says how fast
the tower is, not that it wins: a cheater may spend first (section 5).

**Faucet and gateway** (`GatewayProofs`): `LimitsAlwaysKept`, `LedgerAlwaysTrue`,
`AnswersAlwaysFresh`, `BudgetAlwaysKept`. Cooldowns and the daily cap are judged on the ledger in
memory, which a crash replaces by the file and which forgets old grants. `FaucetInv` therefore
has it that every payment made is settled in the ledger, older than two days, or one that a
crash made it forget; that the grant awaiting its broadcast is one the payments made admit; and
that unless the last write failed, the file has every payment but the one in service
(`WrittenDown`). Payments that were forgotten are outside the limits: that is the code's
(section 5). Cooldowns may be any number; what is claimed of one longer than two days is two
days. `QueryInv`: a call under way knows
a tip that was the tip at some time since it was asked, and a cache entry since the time its
lifetime counts from. `BudgetInv`: over every span that ends now, what a client has taken and
what it has left come to no more than a full bucket and the refill of that span.

**Transport** (`TransportProofs`): `NoncesUsedOnce` for any number of frames, any rekeying interval
and any ephemeral keys that differ: an end seals only with keys of its own side of a session, the
two sides of a session differ, and the counters of an end's frames are their places in its sequence
(`NonceInv`). `LinkImplemented`: the connection implements `SecureLink`, whatever is altered and
however the stream is cut. `HearInv`: what is heard is the messages of as many of the other
end's frames as the receiving counter says, and the pieces under way belong to frames sealed; a
frame opens only as the next one, because its nonce is its place.

**In-memory chain** (`ChainProofs`), for every schedule, script, guard and mixture of blocks:

* `LedgerBalances` (`SupplyBalanced`). What is unspent and what miners left unclaimed add up to
  the subsidies so far: an accepted transaction takes its fee out of the worth of the coins and
  makes coins whose ids are new (a coin knows where it was born, `BornBy`); the coinbase adds
  what it claims; one more block adds one more subsidy, across eras. `LedgerInv` carries the same
  through the draft.
* `RefundsHeld` and `EveryLockHolds` (`LocksHold`). The two halves of a refund's timeout add up:
  `checkTx` compares the transaction with the script, `applyTx` the height with the transaction.
  The relative lock of a revocable output is no such theorem, because it does not hold (section
  5). `Orderly`
  keeps coins' heights, scripts and contracts as they must be. What a guarded coin does rests on
  `GuardObeys`, a hypothesis about *single* runs of the guard's code on storages it keeps; that no
  order of calls, blocks and storages adds up to more is what is proved. TLC checks the hypothesis
  for the vault on the instance it runs (`VaultObeys`).
* `MinedIsTaken` (`MinedIsAdded`). The draft is a replay of its transactions on the chain
  (`DraftReplays`), so `addBlock` comes to the same fees, gas and state; its time is later than
  the median of the last times (`MineTimeLater`), unless its caller fixed another; subsidy and
  fees stay within what one output may hold, because the fees are of coins the schedule has
  issued. The schedule is taken to be capped as `block.ts` caps its own (`SupplyCapped`).

**Contract machine** (`ChainProofs`): `InstructionsOnly` (`NeverExecutesData`), for
every program. A jump is checked against the starts of instructions, found by a walk
which the model takes in doubling steps; `StartsHold` says it covers any code, and that
its starts are 0 and what follows a start. `StepGoes`: a turn stays, goes on to the next
instruction, or goes to a jump destination. `AtInstruction` is then inductive.

**Only model-checked.** Every liveness property, since the provers do not do fairness: `ReorgEnds`,
`SyncedUnlessStuck`, `CloseSettles`, `StalledClimbs`, `AllIsHeard`, `Halts`.
`CheapestUnlessOvertaken`, a comparison with every path of the graph. `DecidesAsSpecified`, which
is about five particular programs and executes them.

## 5. Seen while modelling

What follows is what the models do because the code does it, where a reader may expect
otherwise. One is a run of its own:

* **A failed reorganisation can strand the node** (`node/chainstate.ts:421`; lines 22-24
  and 493-496 say never). `#connect` drops the undo records below the window also while a
  reorganisation connects its branch. If the new branch has come to stand at least the
  window and two above the fork when a block of it is refused, the record of its lowest
  block is gone, `#restoreTo` cannot take that block off, and the node stays on the partly
  applied branch. `chain_restore` finds it (`NeverStranded`). Nothing else strands the
  node: `StrandedOnlyBelowWindow` is checked and proved.

No property claims the opposite of the rest. With a document that says otherwise:

* **A rollback may put a block on another's twin** (`node/chainstate.ts:561-569`; 22-24 as
  above). `#connect` never compares `prevHash` with the tip. Where a rollback stops early for
  want of an undo record, on a block with the outpoints of the old branch's first parent (two
  blocks of one miner at one height with the same fees and memo have them, `tx.ts:560-575`),
  `#restoreTo` connects the old branch over it and returns as if it had succeeded. The state is
  the tip's, but the active flags are not its path, and later branches may be refused for a
  fork that is looked for among the wrong blocks. `StrandedOnlyBelowWindow` says when; the tree
  of `chain_reorg` has the case.
* **A delay is not enforced on whoever wants out at once** (`chain.ts:464`, `tx.ts:509`;
  `tx.ts:123-127`: "the owner may sweep only after `delay` blocks", `volt/channel.ts:16-19` and
  43, test at `volt.test.ts:158`). A sequence of 0xffffffff switches the chain's half of a
  relative lock off, and masked to 16 bits it is more than any delay, so the script's half is
  satisfied. `SpendDelayed` and the cheater of `Watchtower` therefore wait for nothing, and
  `LocksHold` has refunds and guards only.
* **The address dialled is not judged when the peer claims another, or none**
  (`net/peer.ts:276`, `net/manager.ts:277-278`; `net/identity.ts:31-33` says "The first identity
  seen for an address is recorded; a later change is reported loudly"). The port in the version
  message takes the place of the one dialled, and port 0 leaves no address at all. So another
  key may become ready at an address that has one recorded. `IdentityHolds` is about the address
  that is claimed.
* **A crash may make the faucet forget the payment in service** (`deckxd.ts:170-177`: "A faucet
  that forgets on restart is one you drain by crashing it"). The payment is sent before the file
  is written; and the write truncates the file first, so that one torn by a fault or a crash
  stops the daemon at its next start (127-130, `JSON.parse`). `LimitsKept` leaves out what was
  forgotten and says how much that may be.
* **A body in flight on a lost connection is not fetched again** (`node/node.ts:319`,
  `syncFromBest` at 510 is "used to kick a stalled sync"). `#inFlight` is cleared only
  when a body arrives; `SyncedUnlessStuck` excepts a node that waits for such a block.
* **A node with two peers may not catch up with both** (`net/manager.ts:433-439`; the same
  line 510). `bestPeer` goes by the work each peer claimed in its version message, and the
  claim is never updated: `syncFromBest`, when it is called, goes on asking the peer whose old
  claim wins or ties, while the other has grown. `SyncedUnlessStuck` has therefore only what
  each peer claimed.
* **A held orphan may wait for good** (`node/node.ts:365`; line 379 says "Retry orphans whose
  parent has since arrived"). Orphans are drained when a block is CONNECTED, not when it
  lands on a side branch. With the node on a2, b3 held, and b1 and b2 arriving as a side
  branch, b3 is tried again only when a headers reply makes a peer send it anew, and nobody
  asks for headers after a side block. `SyncedUnlessStuck` excepts a node that stopped there.
* **The node mines a block it then refuses** (`node/chainstate.ts:606`). A candidate
  beyond the gas limit has been applied to the draft by the time it is left out.
* **A peer that is only behind gets banned** (`node/node.ts:455`; `net/peer.ts:19-20` says
  never) for relaying transactions the node has seen confirmed.
* **A doomed branch is retried on every block** (`node/chainstate.ts:548-550`).
* **The heavier branch is forgotten after a crash** (`node/chainstate.ts:298`, 19-22).
* **A transaction that spends an output of its own disconnected block does not return to
  the pool** (`node/mempool.ts:184`, `src/README.md:258`).
* **The latest commitment may not be minable** (`volt/channel.ts:374`, test at
  `volt.test.ts:137`). Its number is in a field the chain reads as a relative lock.
* **A punished cheater may keep an HTLC output** (`volt/channel.ts:573`, 18-19).
* **A channel out of secrets throws in the middle of settling** (`volt/network.ts:816`):
  what was settled before stays settled, in spite of lines 14-15. `PaymentsAreAtomic`
  has such channels, on routes where they throw before anything is settled, and
  `PaymentsImplemented` excludes the others.
* **A route may be missed, or a dearer one found** (`volt/router.ts:173` says "Cheapest route").
  The search keeps one label a node, the cheapest by fee and waiting together. If that one carries
  more in fees than an edge further back has room for, the edge is left out, though a dearer label
  with a smaller fee would fit: with A-B of capacity 4, and from B to D one channel at fee 1 and one
  that waits two blocks longer at fee 0, A finds no route for 4 (`MissHappens`, on the instance of
  `payments`). `CheapestUnlessOvertaken` is what is true: a route found is a path that fits and is
  at least as cheap as every path that fits and is not overtaken, and one is found if there is
  such a path.
* **A branch may become the best one late** (`node/chainstate.ts:298`). Only the block that arrives
  is tried. When a lighter branch is adopted that forks lower, a known heavier block that was too
  deep may be within the window again; it is not tried until something comes on top of it. So
  `HeaviestKnownIsBest` asks of a heavier block only that it is beyond the window from some known
  block that need not be the best any more.

*Chain and pool.* A reorganisation refused for its depth is INVALID, so the peer that sent
the block is banned; entries a reorganisation has invalidated still occupy the pool
while disconnected transactions come back; an entry may be admitted, evicted at once, and
announced; a transaction that is announced and then, before the peer is asked, confirmed
by that peer stays in flight for good (`node/node.ts:275`), which is why `InFlightAwaited`
is about blocks. A foreign coinbase that claims less than it may makes
`auditSupply` report an imbalance; failed contract calls cannot be in a block, though
`vm.ts` speaks of their gas; a caller of `mineBlock` may fix a time that `addBlock` refuses;
the retarget measures one interval less than its window; a write that fails while a peer's
block is accepted scores that peer (`node/node.ts:179-185`), so that a failing disk gets honest
peers banned.

*Channels.* A settle or fail after a force close revokes the commitment just published;
`confirmAll` reopens a closing channel; the penalty is void once the punisher's wallet has
spent its plain output; after a splice, or an update that threw, `OPEN` does not mean that
both parties hold a signed commitment. After a restart a pending penalty is never
escalated; if all rungs are refused at the scan, nothing is retried; a ladder sealed again
to another address is twice in memory and once on disk; at the top of its ladder a penalty is
not sent again. `maxParts` counts parts that
failed; a channel refused for the whole amount stays excluded for smaller parts.

*Faucet and gateway.* The same address after its cooldown, with no block in between, gets
an identical transaction: two grants, one payment. The reserve is judged on confirmed coins
and without the fee; grants are kept for two days though `--faucet-cooldown` may be longer
(`faucet.ts:502`, `deckxd.ts:167`); where the broadcast throws, the grant stays in the ledger and
the claimant has nothing (`faucet.ts:492`; `LedgerIsTrue` excuses it); buckets are never pruned.

*Peers and transport.* A handshake that never completes has no timeout; a ban is not looked
at again once a dial is under way; two simultaneous dials make two connections; hearsay about
an address counts as a failure, and ten of them drop it. An altered byte makes both ends
ban an honest peer; an altered length below the cap makes the receiver wait.

*Contracts.* Anybody may call a vesting contract and move its count; one approval covers
all guarded inputs of a transaction; a deployer who is an owner has approved.

## 6. Plan

1. Done: the modules above; every safety property and every refinement the runs check, but for the
   two named under "Only model-checked", for every value of the constants.
2. Composition: `ChainState` under `Mempool`, so that a fault inside a reorganisation meets
   the pool; `Watchtower` against the commitments of `VoltChannel`.

## 7. Not modelled

Cryptography (`crypto.ts`, `pq.ts`, `merkle.ts`, onions, adaptors, invoices' signatures):
group and hash arithmetic; keys, hashes and signatures are terms here, and injective. Byte
layouts of the wire format, `socks.ts`, and compact blocks and replacement judging, which
are written but not connected to the node. Peers' names that resolve to one host, and
`--proxy`, through which all peers share one address. Fee estimation: affects advice, not state.
Mnemonics and key derivation of the wallet. Command line, RPC and web pages: input and
output over the parts above.

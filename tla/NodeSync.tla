------------------------------ MODULE NodeSync ------------------------------
(***************************************************************************)
(* Block and transaction relay as one node sees it                         *)
(* (chain/src/node/node.ts over chain/src/net/peer.ts and manager.ts):     *)
(* inventory, headers and bodies asked for and received over one ordered   *)
(* stream per peer, blocks that arrive before their parent, what is in     *)
(* flight, ban scores, and connections that come and go.                   *)
(*                                                                         *)
(* The peers are honest: each runs the same serving code over a chain of   *)
(* its own that validates and only gains work.  acceptBlock is one step    *)
(* here, as ForkChoice states it: ChainState is shown to implement that,   *)
(* with failed moves that are put back where they were.                    *)
(***************************************************************************)
EXTENDS Lists, FiniteSets

CONSTANTS
    Block, Genesis, Parent, Ancestors, Height, ChainWork, HeaderOk, Good,
    UndoRetention,
    Peer,
    OwnBlocks,        \* blocks that this node mines
    PeerStart,        \* PeerStart[p]: the peer's tip when the node starts
    Tx,
    TxIn,             \* TxIn[t]: the block that confirms t
    MaxOrphans, MaxInv, MaxHeaders, BanThreshold,
    TxPenalty,        \* points for a transaction the pool refuses
    ThrowPenalty,     \* points for a message whose handler threw
    MaxEvents  \* bound: lost connections, restarts, relayed transactions, faults

\* Blocks of which the headers pass, as do all below them, contents included.
GoodChains == {b \in Block : Ancestors[b] \ {Genesis} \subseteq Good \cap HeaderOk}

ASSUME SyncTree ==
    /\ Genesis \in Block
    /\ Parent \in [Block \ {Genesis} -> Block]
    /\ Ancestors \in [Block -> SUBSET Block]
    /\ Ancestors[Genesis] = {Genesis}
    /\ \A b \in Block \ {Genesis} : Ancestors[b] = Ancestors[Parent[b]] \cup {b}
    /\ \A b \in Block : Genesis \in Ancestors[b]
    /\ \A b \in Block : \A a \in Ancestors[b] : Ancestors[a] \subseteq Ancestors[b]
    /\ Height \in [Block -> Nat]
    /\ \A b \in Block : \A a \in Ancestors[b] : Height[a] <= Height[b]
    /\ ChainWork \in [Block -> Nat]
    /\ \A b \in Block \ {Genesis} : ChainWork[b] > ChainWork[Parent[b]]

ASSUME SyncAssumption ==
    /\ Block \cap Tx = {}
    /\ OwnBlocks \subseteq Block
    /\ PeerStart \in [Peer -> GoodChains]
    /\ TxIn \in [Tx -> Block]
    /\ {MaxOrphans, MaxInv, MaxHeaders, BanThreshold} \subseteq Nat \ {0}
    /\ {TxPenalty, ThrowPenalty, MaxEvents, UndoRetention} \subseteq Nat

VARIABLES
    known, best,  \* the block index and its tip: SQLite
    pool,         \* mempool: the transactions it has
    orphans,      \* #orphans, oldest first
    inFlight,     \* #inFlight
    link,         \* peers connected and past the handshake
    claimed,      \* peer.chainWork, from its version message
    score,        \* peer.banScore
    banned,       \* manager.#bans
    toPeer, fromPeer,  \* the two directions of each connection
    peerTip,      \* environment: each peer's own tip
    relays,       \* transactions that peers have announced by themselves
    drops, restarts,
    faults        \* writes of the store that failed

chainVars == <<known, best, pool>>
linkVars  == <<link, claimed, score, banned>>
wires     == <<toPeer, fromPeer>>
outside   == <<peerTip, relays, drops, restarts, faults>>
vars      == <<chainVars, orphans, inFlight, linkVars, wires, outside>>

FC == INSTANCE ForkChoice WITH damaged <- FALSE

Eventful == drops + restarts + relays + faults < MaxEvents

----------------------------------------------------------------------------
(***************************************************************************)
(* The chain: acceptBlock's verdict, and the chain after it.               *)
(***************************************************************************)
VerdictByParentWork(b, c) ==
    CASE b \in c.known -> "duplicate"
      [] b \notin c.known /\ Parent[b] \notin c.known -> "orphan"
      [] OTHER -> IF \/ Parent[b] = c.best
                     \/ ChainWork[Parent[b]] > ChainWork[c.best]
                  THEN "connected" ELSE "sidechain"

VerdictShortWindow(b, c) ==
    CASE b \in c.known -> "duplicate"
      [] b \notin c.known /\ Parent[b] \notin c.known -> "orphan"
      [] OTHER -> IF Parent[b] = c.best THEN "connected"
                  ELSE IF ChainWork[b] <= ChainWork[c.best] THEN "sidechain"
                  ELSE IF Height[c.best] - FC!ForkHeight(b, c.best) < UndoRetention
                  THEN "connected" ELSE "invalid"

Verdict(b, c) ==
    LET attempted == /\ ChainWork[b] > ChainWork[c.best]
                     /\ Height[c.best] - FC!ForkHeight(b, c.best) <= UndoRetention
        wins      == FC!NewBranch(b, c.best) \subseteq Good
    IN  CASE b \in c.known -> "duplicate"
          [] b \notin c.known /\ b \notin HeaderOk -> "invalid"
          [] b \in HeaderOk \ c.known /\ Parent[b] \notin c.known -> "orphan"
          [] OTHER -> IF Parent[b] = c.best
                      THEN IF b \in Good THEN "connected" ELSE "invalid"
                      ELSE IF ChainWork[b] <= ChainWork[c.best] THEN "sidechain"
                      ELSE IF attempted /\ wins THEN "connected" ELSE "invalid"

\* submitBlock: the pool gets back what is disconnected and loses what is
\* connected (Mempool has it in detail).
Confirmed(t) == {x \in Tx : TxIn[x] \in Ancestors[t]}

After(b, c) ==
    LET v == Verdict(b, c)
    IN  [ known |-> IF v \in {"connected", "sidechain"}
                       \/ (v = "invalid" /\ b \in HeaderOk /\ Parent[b] # c.best)
                    THEN c.known \cup {b} ELSE c.known,
          best  |-> IF v = "connected" THEN b ELSE c.best,
          pool  |-> IF v = "connected"
                    THEN (c.pool \cup Confirmed(c.best)) \ Confirmed(b) ELSE c.pool ]

Chain == [known |-> known, best |-> best, pool |-> pool]
BecomesChain(c) == known' = c.known /\ best' = c.best /\ pool' = c.pool

\* #drainOrphans: passes over the orphans, oldest first, until one connects
\* nothing.  An orphan whose parent is known is taken out whatever comes of it.
Without(held, b) == Kept(held, ToSet(held) \ {b})

DrainTry(d, b) ==
    IF Parent[b] \notin d.chain.known THEN d
    ELSE [ chain    |-> After(b, d.chain),
           orphans  |-> Without(d.orphans, b),
           progress |-> d.progress \/ Verdict(b, d.chain) = "connected" ]

DrainTries(d) ==
    LET pass[n \in 0..Len(d.orphans)] ==
            IF n = 0 THEN [d EXCEPT !.progress = FALSE]
            ELSE DrainTry(pass[n - 1], d.orphans[n])
    IN  pass

DrainPass(d) == DrainTries(d)[Len(d.orphans)]

\* A pass that connects something leaves fewer orphans, so MaxOrphans passes
\* are as many as the loop can make.
DrainPasses(c, held) ==
    LET loop[n \in 0..MaxOrphans + 1] ==
            IF n = 0 THEN [chain |-> c, orphans |-> held, progress |-> TRUE]
            ELSE IF loop[n - 1].progress THEN DrainPass(loop[n - 1]) ELSE loop[n - 1]
    IN  loop

Drain(c, held) == DrainPasses(c, held)[MaxOrphans + 1]

\* What a write that fails leaves of acceptBlock: all as it was, or the block
\* stored and a move to it given up between the fork point and either end.
Torn(b, c) ==
    {c} \cup
    { [c EXCEPT !.known = @ \cup {b}, !.best = x] :
        x \in {y \in Ancestors[c.best] \cup Ancestors[Parent[b]] :
                 /\ Parent[b] # c.best /\ ChainWork[b] > ChainWork[c.best]
                 /\ Height[c.best] - FC!ForkHeight(b, c.best) <= UndoRetention
                 /\ Height[y] >= FC!ForkHeight(b, c.best)
                 /\ FC!NewBranch(y, c.best) \subseteq Good} }

\* ... and of #drainOrphans, at try m of the pass that begins with d: the orphan
\* at hand is out, later ones stay.
TryTorn(d, m) ==
    LET then == DrainTries(d)[m - 1]
        f    == d.orphans[m]
    IN  IF f \in then.chain.known \/ Parent[f] \notin then.chain.known THEN {}
        ELSE {[chain |-> t, orphans |-> Without(then.orphans, f)] :
                t \in Torn(f, then.chain)}

DrainTorn(c, held) ==
    UNION {UNION {TryTorn(d, m) : m \in DOMAIN d.orphans} :
             d \in {e \in {DrainPasses(c, held)[n] : n \in 0..MaxOrphans} : e.progress}}

\* #rememberOrphan: the oldest makes room; a block already held keeps its place.
Remember(held, b) ==
    LET room == IF Len(held) >= MaxOrphans THEN Tail(held) ELSE held
    IN  IF b \in ToSet(room) THEN room ELSE Append(room, b)

----------------------------------------------------------------------------
(***************************************************************************)
(* Sending.                                                                *)
(***************************************************************************)
GetHeaders(t) == [type |-> "getheaders", tip |-> t]

AskHeaders(p, t) == toPeer' = [toPeer EXCEPT ![p] = Append(@, GetHeaders(t))]

UpTo(s, max) == SubSeq(s, 1, IF Len(s) > max THEN max ELSE Len(s))

\* What #onInv and #onHeaders ask for: what is not known and not in flight,
\* at most MaxInv entries.
Wanted(items) ==
    UpTo(Kept(items, ToSet(items) \ (known \cup pool \cup inFlight)), MaxInv)

AskForMarksAll(p, items) ==
    LET wanted == Wanted(items)
    IN  /\ inFlight' = inFlight \cup (ToSet(items) \ (known \cup pool))
        /\ toPeer' = IF wanted = <<>> THEN toPeer
                     ELSE [toPeer EXCEPT ![p] =
                              Append(@, [type |-> "getdata", items |-> wanted])]

AskFor(p, items) ==
    LET wanted == Wanted(items)
    IN  /\ inFlight' = inFlight \cup ToSet(wanted)
        /\ toPeer' = IF wanted = <<>> THEN toPeer
                     ELSE [toPeer EXCEPT ![p] =
                              Append(@, [type |-> "getdata", items |-> wanted])]

\* misbehave(): at the threshold the host is banned and the socket destroyed.
Punish(p, points) ==
    IF score[p] + points >= BanThreshold
    THEN /\ banned' = banned \cup {p}
         /\ link' = link \ {p}
         /\ score' = [score EXCEPT ![p] = 0]
    ELSE /\ score' = [score EXCEPT ![p] = @ + points]
         /\ UNCHANGED <<banned, link>>

----------------------------------------------------------------------------
Init ==
    /\ known = {Genesis} /\ best = Genesis
    /\ pool = {}
    /\ orphans = <<>> /\ inFlight = {}
    /\ link = {} /\ banned = {}
    /\ claimed = [p \in Peer |-> 0]
    /\ score = [p \in Peer |-> 0]
    /\ toPeer = [p \in Peer |-> <<>>]
    /\ fromPeer = [p \in Peer |-> <<>>]
    /\ peerTip = PeerStart
    /\ relays = 0
    /\ drops = 0 /\ restarts = 0 /\ faults = 0

\* A dial, or an inbound connection, that gets through the handshake: the
\* node asks for headers if the peer's version claims more work than it has.
Connect(p) ==
    /\ p \notin link \cup banned
    /\ link' = link \cup {p}
    /\ claimed' = [claimed EXCEPT ![p] = ChainWork[peerTip[p]]]
    /\ score' = [score EXCEPT ![p] = 0]
    /\ toPeer' = [toPeer EXCEPT ![p] =
                    IF ChainWork[peerTip[p]] > ChainWork[best]
                    THEN <<GetHeaders(best)>> ELSE <<>>]
    /\ fromPeer' = [fromPeer EXCEPT ![p] = <<>>]
    /\ UNCHANGED <<chainVars, orphans, inFlight, banned, outside>>

\* The connection is lost, or times out: what was under way is lost with it,
\* and peerGone does nothing about what was in flight.
Drop(p) ==
    /\ p \in link /\ Eventful
    /\ link' = link \ {p}
    /\ drops' = drops + 1
    /\ toPeer' = [toPeer EXCEPT ![p] = <<>>]
    /\ fromPeer' = [fromPeer EXCEPT ![p] = <<>>]
    /\ UNCHANGED <<chainVars, orphans, inFlight, claimed, score, banned,
                   peerTip, relays, restarts, faults>>

\* The node stops and starts: the chain is on disk, the rest is not.
Restart ==
    /\ Eventful
    /\ restarts' = restarts + 1
    /\ orphans' = <<>> /\ inFlight' = {} /\ pool' = {}
    /\ link' = {} /\ banned' = {}
    /\ claimed' = [p \in Peer |-> 0] /\ score' = [p \in Peer |-> 0]
    /\ toPeer' = [p \in Peer |-> <<>>] /\ fromPeer' = [p \in Peer |-> <<>>]
    /\ UNCHANGED <<known, best, peerTip, relays, drops, faults>>

\* bestPeer(): the first of those that claimed most.
BestPeers == {p \in link : \A q \in link : claimed[q] <= claimed[p]}

\* syncFromBest, the RPC "sync".  Bound: no two requests wait on one stream.
SyncFromBest ==
    \E p \in BestPeers :
        /\ toPeer[p] = <<>> /\ fromPeer[p] = <<>>
        /\ AskHeaders(p, best)
        /\ UNCHANGED <<chainVars, orphans, inFlight, linkVars, fromPeer, outside>>

\* mineOne.
Mine(b) ==
    /\ b \in (OwnBlocks \cap Good \cap HeaderOk) \ known /\ Parent[b] = best
    /\ BecomesChain(After(b, Chain))
    /\ UNCHANGED <<orphans, inFlight, linkVars, wires, outside>>

----------------------------------------------------------------------------
(***************************************************************************)
(* Receiving.                                                              *)
(***************************************************************************)
Next1(p) == Head(fromPeer[p])
Receives(p, type) == p \in link /\ fromPeer[p] # <<>> /\ Next1(p).type = type
Taken(p) == fromPeer' = [fromPeer EXCEPT ![p] = Tail(@)]

OnInv(p) ==
    /\ Receives(p, "inv") /\ Taken(p)
    /\ AskFor(p, Next1(p).items)
    /\ UNCHANGED <<chainVars, orphans, linkVars, outside>>

OnHeaders(p) ==
    /\ Receives(p, "headers") /\ Taken(p)
    /\ AskFor(p, Next1(p).items)
    /\ UNCHANGED <<chainVars, orphans, linkVars, outside>>

OnBlock(p) ==
    /\ Receives(p, "block") /\ Taken(p)
    /\ \E b \in {Next1(p).block}, v \in {Verdict(Next1(p).block, Chain)},
          c \in {After(Next1(p).block, Chain)} :  \* one value each
           /\ inFlight' = inFlight \ {b}
           /\ \/ /\ v = "invalid"
                 /\ BecomesChain(c)
                 /\ Punish(p, BanThreshold)
                 /\ UNCHANGED <<orphans, toPeer, claimed>>
              \/ /\ v = "orphan"
                 /\ orphans' = Remember(orphans, b)
                 /\ AskHeaders(p, best)
                 /\ UNCHANGED <<chainVars, linkVars>>
              \/ /\ v = "connected"
                 /\ \E d \in {Drain(c, orphans)} :
                        /\ BecomesChain(d.chain)
                        /\ orphans' = d.orphans
                        /\ IF claimed[p] > ChainWork[best']
                           THEN AskHeaders(p, best') ELSE UNCHANGED toPeer
                 /\ UNCHANGED linkVars
              \/ /\ v \in {"sidechain", "duplicate"}
                 /\ BecomesChain(c)
                 /\ UNCHANGED <<orphans, toPeer, linkVars>>
    /\ UNCHANGED outside

\* A write fails while the block, or an orphan it lets in, is accepted: the
\* handler throws, its peer is scored (#wire), and the pool is left as it was.
OnBlockThrows(p) ==
    /\ Receives(p, "block") /\ Taken(p) /\ Eventful
    /\ Next1(p).block \notin known /\ Parent[Next1(p).block] \in known
    /\ faults' = faults + 1
    /\ inFlight' = inFlight \ {Next1(p).block}
    /\ Punish(p, ThrowPenalty)
    /\ \/ /\ \E c \in Torn(Next1(p).block, Chain) : BecomesChain(c)
          /\ UNCHANGED orphans
       \/ /\ Verdict(Next1(p).block, Chain) = "connected"
          /\ \E d \in DrainTorn(After(Next1(p).block, Chain), orphans) :
                BecomesChain(d.chain) /\ orphans' = d.orphans
    /\ UNCHANGED <<toPeer, claimed, peerTip, relays, drops, restarts>>

\* The pool refuses a transaction whose inputs its chain has spent.
OnTx(p) ==
    /\ Receives(p, "tx") /\ Taken(p)
    /\ LET t == Next1(p).tx
       IN  /\ inFlight' = inFlight \ {t}
           /\ IF t \in Confirmed(best)
              THEN Punish(p, TxPenalty) /\ UNCHANGED pool
              ELSE pool' = pool \cup {t} /\ UNCHANGED <<score, banned, link>>
    /\ UNCHANGED <<known, best, orphans, claimed, toPeer, outside>>

----------------------------------------------------------------------------
(***************************************************************************)
(* The peers: #onGetHeaders and #onGetData over the peer's own chain (a    *)
(* transaction that it has confirmed has left its pool: no answer), and    *)
(* the announcements a node makes by itself.                               *)
(***************************************************************************)
Say(p, msgs) == fromPeer' = [fromPeer EXCEPT ![p] = @ \o msgs]

\* activeHeaders: the peer's active chain, from height 1.
ActiveChain(p) ==
    [h \in 1..Height[peerTip[p]] |->
        CHOOSE b \in Ancestors[peerTip[p]] : Height[b] = h]

\* Mutant: what is higher than t, whatever t is on.
AboveHeightOf(p, t) ==
    UpTo(Kept(ActiveChain(p), {b \in Block : Height[b] > Height[t]}), MaxHeaders)

\* The peer's active chain above the highest block it shares with tip t.
Above(p, t) ==
    UpTo(Kept(ActiveChain(p), FC!NewBranch(peerTip[p], t)), MaxHeaders)

Confirms(p, t) == TxIn[t] \in Ancestors[peerTip[p]]

Answers(p, m) ==
    IF m.type = "getheaders"
    THEN <<[type |-> "headers", items |-> Above(p, m.tip)]>>
    ELSE LET held == Kept(m.items, {i \in ToSet(m.items) : i \in Tx => ~Confirms(p, i)})
         IN  [i \in DOMAIN held |->
                IF held[i] \in Tx THEN [type |-> "tx", tx |-> held[i]]
                                  ELSE [type |-> "block", block |-> held[i]]]

PeerServes(p) ==
    /\ p \in link /\ toPeer[p] # <<>>
    /\ Say(p, Answers(p, Head(toPeer[p])))
    /\ toPeer' = [toPeer EXCEPT ![p] = Tail(@)]
    /\ UNCHANGED <<chainVars, orphans, inFlight, linkVars, outside>>

\* The peer's chain gains a block, by mining or from elsewhere, and the peer
\* announces it.
PeerAdvances(p, b) ==
    /\ b \in OwnBlocks => b \in known
    /\ FC!NewBranch(b, peerTip[p]) \subseteq Good \cap HeaderOk
    /\ ChainWork[b] > ChainWork[peerTip[p]] /\ Parent[b] \in Ancestors[peerTip[p]]
    /\ peerTip' = [peerTip EXCEPT ![p] = b]
    /\ IF p \in link THEN Say(p, <<[type |-> "inv", items |-> <<b>>]>>)
                     ELSE UNCHANGED fromPeer
    /\ UNCHANGED <<chainVars, orphans, inFlight, linkVars, toPeer, relays, drops,
                   restarts, faults>>

\* A peer relays a transaction its own chain has not confirmed.
PeerRelaysTx(p, t) ==
    /\ p \in link /\ Eventful
    /\ ~Confirms(p, t)
    /\ relays' = relays + 1
    /\ Say(p, <<[type |-> "inv", items |-> <<t>>]>>)
    /\ UNCHANGED <<chainVars, orphans, inFlight, linkVars, toPeer, peerTip, drops,
                   restarts, faults>>

----------------------------------------------------------------------------
Receive(p) == OnInv(p) \/ OnHeaders(p) \/ OnBlock(p) \/ OnTx(p)

Next ==
    \/ \E p \in Peer :
          \/ Connect(p) \/ Drop(p) \/ Receive(p) \/ PeerServes(p)
          \/ OnBlockThrows(p)
          \/ \E b \in Block : PeerAdvances(p, b)
          \/ \E t \in Tx : PeerRelaysTx(p, t)
    \/ \E b \in Block : Mine(b)
    \/ SyncFromBest
    \/ Restart

Spec == Init /\ [][Next]_vars

\* Sockets deliver what they do not lose, and the dialler tries again
\* (#topUpOutbound runs on a timer).  Nobody need ever ask for a sync.
FairSpec ==
    /\ Spec
    /\ \A p \in Peer : WF_vars(Receive(p)) /\ WF_vars(PeerServes(p)) /\ WF_vars(Connect(p))

----------------------------------------------------------------------------
(***************************************************************************)
(* Properties.                                                             *)
(***************************************************************************)

AskedFor(b, p) ==
    \E m \in ToSet(toPeer[p]) : m.type = "getdata" /\ b \in ToSet(m.items)

Arriving(b, p) == [type |-> "block", block |-> b] \in ToSet(fromPeer[p])

\* While no connection is lost and no peer banned, every block in flight is on
\* its way: none is marked as asked for and then forgotten, whatever the order
\* of announcements, headers and bodies.  (A transaction may be: the peer's next
\* block confirms it before the peer is asked, and there is no answer then.)
InFlightAwaited ==
    drops = 0 /\ banned = {} =>
        \A b \in inFlight \ Tx : \E p \in link : AskedFor(b, p) \/ Arriving(b, p)

\* All that the node has stored validates.  As long as no write fails, it has
\* stored nothing heavier than its best block but what was beyond its undo
\* window: relay, orphans and draining never leave a heavier chain untried.  (Once
\* refused, it stays so until something comes on top of it, even if the best chain
\* has become shorter.)
HeaviestKnownIsBest ==
    /\ known \subseteq GoodChains /\ best \in known
    /\ faults = 0 =>
        \A b \in known :
            ChainWork[b] > ChainWork[best] =>
                \E t \in known : /\ ChainWork[t] <= ChainWork[best]
                                 /\ Height[t] - FC!ForkHeight(b, t) > UndoRetention

\* Unless its transactions, or handlers that threw, used up its score, an honest
\* peer is banned only for a block that is heavier than the node's best and parts
\* from it below the undo window.
BannedOnlyBeyondWindow ==
    [][\A p \in banned' \ banned :
          \/ score[p] + TxPenalty >= BanThreshold
          \/ faults' > faults /\ score[p] + ThrowPenalty >= BanThreshold
          \/ /\ Receives(p, "block")
             /\ ChainWork[Next1(p).block] > ChainWork[best]
             /\ Height[best] - FC!ForkHeight(Next1(p).block, best) > UndoRetention]_vars

\* Whoever stays connected: the node ends up with as much work as each peer
\* claimed, though nobody asks for a sync - unless it stopped at a block on a side
\* branch, after which #onBlock neither asks for more nor drains the orphans, or
\* skips a block that is in flight from a connection since lost, or a write
\* failed (#onHeaders, #onBlock).
Reachable(p) ==
    /\ p \in link
    /\ Height[best] - FC!ForkHeight(peerTip[p], best) <= UndoRetention

StoppedAside(p) == \E b \in known \cap Ancestors[peerTip[p]] : b \notin Ancestors[best]

Forgotten(p) ==
    \E b \in inFlight \cap Ancestors[peerTip[p]] :
        \A q \in link : ~AskedFor(b, q) /\ ~Arriving(b, q)

SyncedUnlessStuck ==
    \A p \in Peer :
        <>[](Reachable(p) /\ faults = 0 =>
                \/ ChainWork[best] >= claimed[p]
                \/ StoppedAside(p)
                \/ Forgotten(p))
=============================================================================

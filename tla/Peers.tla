------------------------------- MODULE Peers -------------------------------
(***************************************************************************)
(* net/manager.ts and net/peer.ts: the connections of one node, from the   *)
(* dial or the accepted socket through the key exchange and the version    *)
(* handshake to readiness and the end, with the address book, the          *)
(* identities remembered on first use (net/identity.ts) and the bans.  A   *)
(* remote host may send anything at any time.  One host is the node itself *)
(* under its public address: there both ends of a connection are its own,  *)
(* and what travels between them is kept.  An address is a host and a port;*)
(* a dial goes to the host of its address directly, without a proxy.       *)
(***************************************************************************)
EXTENDS Naturals, FiniteSets, Sequences, Functions

CONSTANTS
    Host, Self,         \* hosts; the one that is this node's own
    Addr, HostOf,       \* addresses, and the host of each
    Home,               \* where this node listens, the only address of its host
    Seed,               \* params.seeds
    Identity, Ours,     \* long-term keys; this node's
    Pinned,             \* keys an operator has pinned
    Conn,               \* bound: sockets at a time
    None,
    MaxOutbound, MaxInbound,
    BanThreshold,       \* in units of the lightest misbehaviour before readiness
    MaxFailures         \* knownPeers: failures < 10

ASSUME PeersConstants ==
    /\ Self \in Host /\ HostOf \in [Addr -> Host] /\ {a \in Addr : HostOf[a] = Self} = {Home}
    /\ Seed \subseteq Addr /\ Ours \in Identity /\ Pinned \subseteq Identity
    /\ None \notin Host \cup Addr \cup Identity \cup Conn
    /\ MaxOutbound \in Nat /\ MaxInbound \in Nat /\ IsFiniteSet(Conn)
    /\ BanThreshold \in Nat \ {0} /\ MaxFailures \in Nat \ {0}

VARIABLES
    conn,       \* the sockets
    book,       \* book[a], the peers table: failures of an address, None when it has no row
    known,      \* known[a]: the identity recorded for an address, or None
    banned      \* hosts

vars == <<conn, book, known, banned>>

Idle == [host |-> None, at |-> None, claims |-> None, out |-> FALSE, asked |-> FALSE,
         stage |-> "idle", pin |-> None, version |-> FALSE, verack |-> FALSE, identity |-> None,
         score |-> 0, other |-> None, wire |-> <<>>]

(***************************************************************************)
(* at: the address that was dialled.  claims: where the peer says that it  *)
(* listens (listenPort, at its host), or None for nowhere; until it has    *)
(* said so, the address that was dialled.                                  *)
(* asked: dialled on request rather than by the timer.  other: our own     *)
(* socket at the far end, None once its nonce is no longer ours.  wire:    *)
(* what our own far end has sent and this one has not read.                *)
(***************************************************************************)
Link == [host : Host \cup {None}, at : Addr \cup {None}, claims : Addr \cup {None},
         out : BOOLEAN, asked : BOOLEAN,
         stage : {"idle", "dialling", "greeting", "open", "ready"},
         pin : Identity \cup {None}, version : BOOLEAN, verack : BOOLEAN,
         identity : Identity \cup {None},
         score : 0..BanThreshold - 1, other : Conn \cup {None},
         wire : Seq({"greeting", "version", "verack"})]

Init == /\ conn = [c \in Conn |-> Idle]
        /\ book = [a \in Addr |-> None]
        /\ known = [a \in Addr |-> None]
        /\ banned = {}

Free == {c \in Conn : conn[c].stage = "idle"}
Dialling == {c \in Conn : conn[c].stage = "dialling"}
peers == Conn \ (Free \cup Dialling)
Outbound == {c \in peers : conn[c].out}
Inbound == peers \ Outbound

(***************************************************************************)
(* #hasPeerAt: one that was dialled there, or says that it listens there.  *)
(***************************************************************************)
HasPeerAt(a) == \E c \in peers : a \in {conn[c].at, conn[c].claims}

(***************************************************************************)
(* store.rememberPeer                                                      *)
(***************************************************************************)
Succeeded(b, as) == [a \in Addr |-> IF a \in as THEN 0 ELSE b[a]]
Failed(b, a) ==
    [b EXCEPT ![a] = IF @ = None THEN 1 ELSE IF @ < MaxFailures THEN @ + 1 ELSE @]

(***************************************************************************)
(* disconnect and #onClose: the nonce is ours no longer.                   *)
(***************************************************************************)
Closed(c) ==
    [d \in Conn |-> IF d = c THEN Idle
                    ELSE IF conn[d].other = c THEN [conn[d] EXCEPT !.other = None]
                    ELSE conn[d]]

Close(c) == /\ conn' = Closed(c)
            /\ UNCHANGED <<book, known, banned>>

(***************************************************************************)
(* c becomes link and m is written to its socket.                          *)
(***************************************************************************)
Becomes(c, link, m) ==
    [d \in Conn |-> IF d = c THEN link
                    ELSE IF conn[d].other = c
                         THEN [conn[d] EXCEPT !.wire = @ \o m]
                         ELSE conn[d]]
----------------------------------------------------------------------------
(***************************************************************************)
(* Dialling                                                                *)
(***************************************************************************)
Dialled(a, asked, pin) ==
    [Idle EXCEPT !.host = HostOf[a], !.at = a, !.claims = a, !.out = TRUE, !.asked = asked,
                 !.stage = "dialling", !.pin = pin]

MayDial(a) == /\ HostOf[a] \notin banned
              /\ \A c \in Dialling : conn[c].at # a
              /\ ~HasPeerAt(a)

(***************************************************************************)
(* connect on request: addnode, or --connect with a pinned identity.       *)
(***************************************************************************)
Connect(a, pin) ==
    /\ MayDial(a)
    /\ \E c \in Free : conn' = [conn EXCEPT ![c] = Dialled(a, TRUE, pin)]
    /\ UNCHANGED <<book, known, banned>>

(***************************************************************************)
(* #topUpOutbound: the addresses that do not keep failing, then the seeds, *)
(* until peers and dials fill the slots.                                   *)
(***************************************************************************)
RoomForgettingDials == MaxOutbound - Cardinality(Outbound)

Room == MaxOutbound - Cardinality(Outbound) - Cardinality(Dialling)

Candidates ==
    {a \in Addr : MayDial(a) /\ (a \in Seed \/ (book[a] # None /\ book[a] < MaxFailures))}

TopUpOutbound ==
    /\ Room > 0
    /\ \E D \in SUBSET Candidates :
         /\ D # {}
         /\ Cardinality(D) = Room \/ (Cardinality(D) < Room /\ D = Candidates)
         /\ \E socket \in Injection(D, Free) :
              conn' = [c \in Conn |-> IF \E a \in D : socket[a] = c
                                      THEN Dialled(CHOOSE a \in D : socket[a] = c, FALSE, None)
                                      ELSE conn[c]]
    /\ UNCHANGED <<book, known, banned>>

DialFails(c) ==
    /\ c \in Dialling
    /\ conn' = [conn EXCEPT ![c] = Idle]
    /\ book' = Failed(book, conn[c].at)
    /\ UNCHANGED <<known, banned>>

----------------------------------------------------------------------------
(***************************************************************************)
(* #attach and start: the greeting is written at once.                     *)
(***************************************************************************)
Attached(link, other, wire) ==
    [link EXCEPT !.stage = "greeting", !.other = other, !.wire = wire]

DialConnects(c) ==
    /\ c \in Dialling
    /\ conn[c].host # Self
    /\ conn' = [conn EXCEPT ![c] = Attached(conn[c], None, <<>>)]
    /\ UNCHANGED <<book, known, banned>>

(***************************************************************************)
(* #onInbound, also for the far end of a dial to this node.                *)
(***************************************************************************)
Admits(h) == h \notin banned /\ Cardinality(Inbound) < MaxInbound

OnInbound(h) ==
    /\ h # Self
    /\ Admits(h)
    /\ \E c \in Free :
         conn' = [conn EXCEPT ![c] = Attached([Idle EXCEPT !.host = h], None, <<>>)]
    /\ UNCHANGED <<book, known, banned>>

DialReachesUs(c) ==
    /\ c \in Dialling
    /\ conn[c].host = Self
    /\ IF Admits(Self)
       THEN \E d \in Free :
              conn' = [conn EXCEPT
                         ![c] = Attached(conn[c], d, <<"greeting">>),
                         ![d] = Attached([Idle EXCEPT !.host = Self], c, <<"greeting">>)]
       ELSE conn' = [conn EXCEPT ![c] = Attached(conn[c], None, <<>>)]
    /\ UNCHANGED <<book, known, banned>>

----------------------------------------------------------------------------
(***************************************************************************)
(* #onData and #dispatch.  What arrives from another host is its choice.   *)
(***************************************************************************)
Arrives(c, m) ==
    IF conn[c].host = Self THEN conn[c].wire # <<>> /\ Head(conn[c].wire) = m ELSE TRUE

Read(c) == IF conn[c].host = Self THEN [conn[c] EXCEPT !.wire = Tail(@)] ELSE conn[c]

KeyExchange(c) ==
    /\ conn[c].stage = "greeting"
    /\ Arrives(c, "greeting")
    /\ conn' = Becomes(c, [Read(c) EXCEPT !.stage = "open"], <<"version">>)
    /\ UNCHANGED <<book, known, banned>>

(***************************************************************************)
(* misbehave: at the threshold the host is banned, the address it claims   *)
(* forgotten and this connection closed.                                   *)
(***************************************************************************)
Misbehave(c, points) ==
    /\ IF conn[c].score + points >= BanThreshold
       THEN /\ conn' = Closed(c)
            /\ banned' = banned \cup {conn[c].host}
            /\ book' = [a \in Addr |-> IF a = conn[c].claims THEN None ELSE book[a]]
       ELSE /\ conn' = [conn EXCEPT ![c].score = @ + points]
            /\ UNCHANGED <<banned, book>>
    /\ UNCHANGED known

(***************************************************************************)
(* judgeIdentity: the first identity proved at an address is recorded.     *)
(***************************************************************************)
Judge(a, identity) ==
    known' = IF known[a] = None THEN [known EXCEPT ![a] = identity] ELSE known

Judged(link) == link.pin = None /\ link.claims # None

ChangedWhereDialled(link) ==
    link.out /\ Judged(link) /\ known[link.claims] \notin {None, link.identity}

Changed(link) == Judged(link) /\ known[link.claims] \notin {None, link.identity}

(***************************************************************************)
(* #maybeReady and the manager's and connect's ready handlers: both the    *)
(* address that is claimed and the one that was dialled are noted as good. *)
(***************************************************************************)
MaybeReady(c, link, m) ==
    IF ~(link.version /\ link.verack)
    THEN /\ conn' = Becomes(c, link, m)
         /\ UNCHANGED <<book, known, banned>>
    ELSE IF Changed(link) THEN Close(c)
    ELSE /\ conn' = Becomes(c, [link EXCEPT !.stage = "ready"], m)
         /\ IF Judged(link) THEN Judge(link.claims, link.identity) ELSE UNCHANGED known
         /\ book' = Succeeded(book, {link.at, link.claims})
         /\ UNCHANGED banned

(***************************************************************************)
(* #onVersion: a version with one of our nonces is our own; one of another *)
(* network, an old one, or one without a valid proof of identity ends the  *)
(* connection.  The port it names takes the place of the one dialled.      *)
(***************************************************************************)
IsItsOwnNonce(c) == conn[c].other = c

IsOurNonce(c) == conn[c].other # None

OnVersion(c, identity, claims) ==
    /\ conn[c].stage = "open"
    /\ Arrives(c, "version")
    /\ claims # None => HostOf[claims] = conn[c].host
    /\ IF conn[c].host = Self THEN identity = Ours /\ claims = Home ELSE identity # Ours
    /\ IF conn[c].version THEN Misbehave(c, 1)
       ELSE IF IsOurNonce(c) \/ (conn[c].pin # None /\ conn[c].pin # identity)
       THEN Close(c)
       ELSE MaybeReady(c, [Read(c) EXCEPT !.version = TRUE, !.identity = identity,
                                          !.claims = claims], <<"verack">>)

OnVerack(c) ==
    /\ conn[c].stage = "open"
    /\ Arrives(c, "verack")
    /\ MaybeReady(c, [Read(c) EXCEPT !.verack = TRUE], <<>>)

(***************************************************************************)
(* Anything else before readiness, a version after it, a malformed message *)
(* or an invalid block; a frame that does not authenticate.                *)
(***************************************************************************)
OnMisplaced(c) ==
    /\ conn[c].stage \in {"open", "ready"} /\ conn[c].host # Self
    /\ Misbehave(c, 1)

OnBadFrame(c) ==
    /\ conn[c].stage \in {"open", "ready"} /\ conn[c].host # Self
    /\ Misbehave(c, BanThreshold)

(***************************************************************************)
(* #onAddr: hearsay goes through the call that counts a failure.           *)
(***************************************************************************)
OnAddr(c, a) ==
    /\ conn[c].stage = "ready"
    /\ book' = Failed(book, a)
    /\ UNCHANGED <<conn, known, banned>>

(***************************************************************************)
(* The other side, a failed key exchange, a refused version or the silence *)
(* of a ready peer ends a connection; the error of a dialled socket that is*)
(* not ready counts as a failed dial, though it had connected; a ban ends; *)
(* the process stops, and with it all but the database.                    *)
(***************************************************************************)
Drop(c) == c \in peers /\ Close(c)

Reset(c) ==
    /\ c \in Outbound /\ conn[c].stage # "ready"
    /\ conn' = Closed(c)
    /\ book' = Failed(book, conn[c].at)
    /\ UNCHANGED <<known, banned>>

ExpireBan(h) == /\ h \in banned
                /\ banned' = banned \ {h}
                /\ UNCHANGED <<conn, book, known>>

Restart == /\ conn' = [c \in Conn |-> Idle]
           /\ banned' = {}
           /\ UNCHANGED <<book, known>>

Next ==
    \/ TopUpOutbound \/ Restart
    \/ \E h \in Host : OnInbound(h) \/ ExpireBan(h)
    \/ \E a \in Addr, pin \in Pinned \cup {None} : Connect(a, pin)
    \/ \E c \in Conn :
         \/ DialFails(c) \/ DialConnects(c) \/ DialReachesUs(c)
         \/ KeyExchange(c) \/ OnVerack(c) \/ OnMisplaced(c) \/ OnBadFrame(c)
         \/ Drop(c) \/ Reset(c)
         \/ \E identity \in Identity, claims \in Addr \cup {None} :
              OnVersion(c, identity, claims)
         \/ \E a \in Addr : OnAddr(c, a)

Spec == Init /\ [][Next]_vars
----------------------------------------------------------------------------
(***************************************************************************)
(* The state has its declared shape: a score stays below the ban it would  *)
(* have brought, and an address that fails without end stays countable.    *)
(***************************************************************************)
TypeOK ==
    /\ conn \in [Conn -> Link]
    /\ book \in [Addr -> 0..MaxFailures \cup {None}]
    /\ known \in [Addr -> Identity \cup {None}]
    /\ banned \subseteq Host

(***************************************************************************)
(* However often an address is dialled, dials in, is claimed or is pinned, *)
(* no two ready connections that claim one address and were pinned to no   *)
(* key have different keys, and their key is the one recorded when the     *)
(* address was first claimed ("The first identity seen for an address is   *)
(* recorded; a later change is reported loudly"); a pinned one has the key *)
(* of the pin.  It is the claim that is judged: a peer dialled at one      *)
(* address that claims another, or none, is not held to what is recorded   *)
(* for the one that was dialled.                                           *)
(***************************************************************************)
IdentityHolds ==
    \A c \in Conn : conn[c].stage = "ready" =>
        IF conn[c].pin # None THEN conn[c].identity = conn[c].pin
        ELSE conn[c].claims # None => known[conn[c].claims] = conn[c].identity

(***************************************************************************)
(* The timer, which fires while its earlier dials are still under way,     *)
(* never takes more outbound slots than there are, with their dials; what  *)
(* an operator asked for comes on top.  The inbound slots are never        *)
(* exceeded.                                                               *)
(***************************************************************************)
SlotsBounded ==
    /\ Cardinality({c \in Outbound \cup Dialling : ~conn[c].asked}) <= MaxOutbound
    /\ Cardinality(Inbound) <= MaxInbound

(***************************************************************************)
(* Neither end of a connection to itself is ever a ready peer: the first   *)
(* of the two to read the other's version closes, and the second, for      *)
(* which that nonce is then no longer known, waits for a verack that the   *)
(* first never sent.  "Connecting to ourselves wastes a slot".             *)
(***************************************************************************)
NeverOurselves ==
    \A c \in Conn : conn[c].host = Self => conn[c].stage # "ready"
=============================================================================

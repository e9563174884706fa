--------------------------- MODULE NetworkProofs ---------------------------
(***************************************************************************)
(* The two networks a node is part of.  Of its peers: types, identities,   *)
(* connections to oneself and slots, for any number of hosts, sockets and  *)
(* keys.  Of the payment channels: what a call leaves behind, for any      *)
(* graph of channels, and that its payments are atomic wherever channels   *)
(* do not run out of secrets on the way.                                   *)
(***************************************************************************)
EXTENDS Peers, Payments, Induction, FiniteSetTheorems, TLAPS

(***************************************************************************)
(* What is true of a socket at every stage.  To itself a node never sends  *)
(* a verack.                                                               *)
(***************************************************************************)
Unacked == Seq({"greeting", "version"})

Sound(l) ==
    /\ l \in Link
    /\ l.stage # "idle" => l.host \in Host
    /\ l.stage = "dialling" => l.at \in Addr /\ l.host = HostOf[l.at]
    /\ l.version => l.identity \in Identity /\ (l.pin # None => l.identity = l.pin)
    /\ l.stage \in {"idle", "dialling"} => l.other = None
    /\ l.stage = "ready" => l.version
    /\ l.wire \in Unacked
    /\ l.host = Self => ~l.verack /\ l.stage # "ready"

(***************************************************************************)
(* Of all sockets: the two ends of a connection know each other.           *)
(***************************************************************************)
Good(f) ==
    /\ f \in [Conn -> Link]
    /\ \A c \in Conn : Sound(f[c])
    /\ \A c, d \in Conn : f[c].other = d => f[d].other = c

Recorded(l, k) ==
    l.stage = "ready" /\ l.pin = None /\ l.claims # None => k[l.claims] = l.identity

Tables == /\ book \in [Addr -> 0..MaxFailures \cup {None}]
          /\ known \in [Addr -> Identity \cup {None}]
          /\ banned \subseteq Host

Inv ==
    /\ Good(conn)
    /\ \A c \in Conn : Recorded(conn[c], known)
    /\ Tables

----------------------------------------------------------------------------
LEMMA IdleSound == Sound(Idle) /\ \A k : Recorded(Idle, k)
<1>1. Idle \in Link
  BY PeersConstants DEF Idle, Link
<1> QED BY <1>1, PeersConstants DEF Idle, Sound, Recorded, Unacked

LEMMA HostedIdleSound ==
    ASSUME NEW h \in Host
    PROVE  Sound([Idle EXCEPT !.host = h]) /\ [Idle EXCEPT !.host = h].host = h
<1> DEFINE l == [Idle EXCEPT !.host = h]
<1>1. Idle \in Link /\ Idle.stage = "idle" /\ Sound(Idle) /\ ~Idle.verack
  BY IdleSound DEF Idle, Sound
<1>2. l \in Link /\ l.host = h
  BY <1>1 DEF Link
<1>3. \A x \in {"stage", "pin", "other", "version", "verack", "identity", "wire"} :
        l[x] = Idle[x]
  BY <1>1 DEF Link
<1> QED BY <1>1, <1>2, <1>3 DEF Sound

LEMMA WireAppend ==
    ASSUME NEW S, NEW w \in Seq(S), NEW m \in Seq(S)
    PROVE  w \o m \in Seq(S)
OBVIOUS

LEMMA LinkWire ==
    ASSUME NEW l, Sound(l), NEW w \in Unacked, NEW k, Recorded(l, k)
    PROVE  /\ Sound([l EXCEPT !.wire = w])
           /\ Recorded([l EXCEPT !.wire = w], k)
<1>1. w \in Seq({"greeting", "version", "verack"})
  BY DEF Unacked
<1>2. [l EXCEPT !.wire = w] \in Link
  BY <1>1 DEF Sound, Link
<1> QED BY <1>2 DEF Sound, Recorded, Link

LEMMA LinkOther ==
    ASSUME NEW l, Sound(l), NEW k, Recorded(l, k)
    PROVE  /\ Sound([l EXCEPT !.other = None])
           /\ Recorded([l EXCEPT !.other = None], k)
<1>1. [l EXCEPT !.other = None] \in Link
  BY DEF Sound, Link
<1> QED BY <1>1 DEF Sound, Recorded, Link

(***************************************************************************)
(* A socket that closes.                                                   *)
(***************************************************************************)
LEMMA ClosedGood ==
    ASSUME Good(conn), NEW c \in Conn, NEW k, \A d \in Conn : Recorded(conn[d], k)
    PROVE  Good(Closed(c)) /\ \A d \in Conn : Recorded(Closed(c)[d], k)
<1>1. ASSUME NEW d \in Conn
      PROVE  Sound(Closed(c)[d]) /\ Recorded(Closed(c)[d], k)
  BY <1>1, IdleSound, LinkOther DEF Closed, Good
<1>2. ASSUME NEW d \in Conn, NEW e \in Conn, Closed(c)[d].other = e
      PROVE  Closed(c)[e].other = d
  <2>1. d # c /\ conn[d].other # c
    BY <1>2, PeersConstants DEF Closed, Idle, Good, Link
  <2>2. conn[d].other = e /\ e # c
    BY <1>2, <2>1 DEF Closed
  <2>3. conn[e].other = d
    BY <2>2 DEF Good
  <2> QED BY <2>1, <2>2, <2>3 DEF Closed
<1>3. Closed(c) \in [Conn -> Link]
  BY <1>1 DEF Closed, Sound
<1> QED BY <1>1, <1>2, <1>3 DEF Good

(***************************************************************************)
(* A socket that becomes l, with m written to it.                          *)
(***************************************************************************)
LEMMA BecomesGood ==
    ASSUME Good(conn), NEW c \in Conn, NEW l, Sound(l), l.other = conn[c].other,
           NEW m, m \in Unacked \/ conn[c].other = None,
           NEW k, \A d \in Conn \ {c} : Recorded(conn[d], k), Recorded(l, k)
    PROVE  Good(Becomes(c, l, m)) /\ \A d \in Conn : Recorded(Becomes(c, l, m)[d], k)
<1> DEFINE f == Becomes(c, l, m)
<1>1. ASSUME NEW d \in Conn, conn[d].other = c
      PROVE  m \in Unacked
  BY <1>1, PeersConstants DEF Good
<1>2. ASSUME NEW d \in Conn
      PROVE  Sound(f[d]) /\ Recorded(f[d], k) /\ f[d].other = conn[d].other
  <2>1. CASE d = c
    BY <2>1 DEF Becomes
  <2>2. CASE d # c /\ conn[d].other = c
    <3>1. conn[d].wire \o m \in Unacked
      BY <1>1, <2>2, WireAppend DEF Good, Sound, Unacked
    <3>2. f[d] = [conn[d] EXCEPT !.wire = conn[d].wire \o m]
      BY <2>2 DEF Becomes
    <3>3. f[d].other = conn[d].other
      BY <3>2 DEF Good, Link
    <3>4. Sound(conn[d]) /\ Recorded(conn[d], k)
      BY <2>2 DEF Good
    <3>5. Sound(f[d])
      BY <3>1, <3>2, <3>4, LinkWire
    <3>6. Recorded([conn[d] EXCEPT !.wire = conn[d].wire \o m], k)
      BY <3>1, <3>4, LinkWire
    <3>7. Recorded(f[d], k)
      BY <3>2, <3>6
    <3> HIDE DEF f
    <3> QED BY <3>3, <3>5, <3>7
  <2>3. CASE d # c /\ conn[d].other # c
    BY <2>3 DEF Becomes, Good
  <2> QED BY <2>1, <2>2, <2>3
<1>3. f \in [Conn -> Link]
  BY <1>2 DEF Becomes, Sound
<1>4. \A d, e \in Conn : f[d].other = e => f[e].other = d
  BY <1>2 DEF Good
<1> QED BY <1>2, <1>3, <1>4 DEF Good

(***************************************************************************)
(* A socket that becomes l, with nothing written.                          *)
(***************************************************************************)
LEMMA UpdateGood ==
    ASSUME Good(conn), NEW c \in Conn, NEW l, Sound(l), l.other = conn[c].other,
           NEW k, \A d \in Conn \ {c} : Recorded(conn[d], k), Recorded(l, k)
    PROVE  /\ Good([conn EXCEPT ![c] = l])
           /\ \A d \in Conn : Recorded([conn EXCEPT ![c] = l][d], k)
<1> DEFINE f == [conn EXCEPT ![c] = l]
<1>1. ASSUME NEW d \in Conn
      PROVE  Sound(f[d]) /\ Recorded(f[d], k) /\ f[d].other = conn[d].other
  BY DEF Good
<1>2. f \in [Conn -> Link]
  BY <1>1 DEF Sound, Good
<1>3. \A d, e \in Conn : f[d].other = e => f[e].other = d
  BY <1>1 DEF Good
<1> QED BY <1>1, <1>2, <1>3 DEF Good

----------------------------------------------------------------------------
(***************************************************************************)
(* The steps.                                                              *)
(***************************************************************************)
LEMMA FailedTyped ==
    ASSUME Tables, NEW a
    PROVE  Failed(book, a) \in [Addr -> 0..MaxFailures \cup {None}]
<1>1. CASE a \notin Addr
  BY <1>1 DEF Tables, Failed
<1>2. CASE a \in Addr
  <2> DEFINE n == IF book[a] = None THEN 1 ELSE IF book[a] < MaxFailures THEN book[a] + 1 ELSE book[a]
  <2>1. n \in 0..MaxFailures
    BY <1>2, PeersConstants DEF Tables
  <2>2. Failed(book, a) = [book EXCEPT ![a] = n]
    BY <1>2 DEF Failed
  <2> QED BY <2>1, <2>2 DEF Tables
<1> QED BY <1>1, <1>2

LEMMA SucceededTyped ==
    ASSUME Tables, NEW as
    PROVE  Succeeded(book, as) \in [Addr -> 0..MaxFailures \cup {None}]
<1>1. 0 \in 0..MaxFailures
  BY PeersConstants
<1> QED BY <1>1 DEF Tables, Succeeded

LEMMA CloseKeeps ==
    ASSUME Inv, NEW c \in Conn, conn' = Closed(c), UNCHANGED known,
           book' \in [Addr -> 0..MaxFailures \cup {None}], banned' \subseteq Host
    PROVE  Inv'
<1>1. Good(Closed(c)) /\ \A d \in Conn : Recorded(Closed(c)[d], known)
  BY ClosedGood DEF Inv
<1> QED BY <1>1 DEF Inv, Tables, Good

(***************************************************************************)
(* A socket not yet ready.                                                 *)
(***************************************************************************)
LEMMA BecomesKeeps ==
    ASSUME Inv, NEW c \in Conn, NEW l, Sound(l), l.other = conn[c].other,
           NEW m, m \in Unacked \/ conn[c].other = None,
           conn' = Becomes(c, l, m), Recorded(l, known'),
           \A d \in Conn \ {c} : Recorded(conn[d], known'), Tables'
    PROVE  Inv'
<1>1. Good(Becomes(c, l, m)) /\ \A d \in Conn : Recorded(Becomes(c, l, m)[d], known')
  BY BecomesGood DEF Inv
<1> QED BY <1>1 DEF Inv, Good

LEMMA UpdateKeeps ==
    ASSUME Inv, NEW c \in Conn, NEW l, Sound(l), l.other = conn[c].other,
           conn' = [conn EXCEPT ![c] = l], UNCHANGED known, Recorded(l, known), Tables'
    PROVE  Inv'
<1>1. /\ Good([conn EXCEPT ![c] = l])
      /\ \A d \in Conn : Recorded([conn EXCEPT ![c] = l][d], known)
  BY UpdateGood DEF Inv
<1> QED BY <1>1 DEF Inv, Good

LEMMA DialledSound ==
    ASSUME NEW a \in Addr, NEW asked \in BOOLEAN, NEW pin \in Pinned \cup {None}
    PROVE  /\ Sound(Dialled(a, asked, pin))
           /\ Dialled(a, asked, pin).other = None
           /\ \A k : Recorded(Dialled(a, asked, pin), k)
<1> DEFINE l == Dialled(a, asked, pin)
<1>1. pin \in Identity \cup {None}
  BY PeersConstants
<1>2. /\ Idle \in Link /\ Idle.other = None
      /\ ~Idle.version /\ ~Idle.verack /\ Idle.wire \in Unacked
  BY IdleSound DEF Idle, Sound
<1>0. HostOf[a] \in Host
  BY PeersConstants
<1>3. l \in Link
  BY <1>0, <1>1, <1>2 DEF Dialled, Link
<1>4. /\ l.host = HostOf[a] /\ l.at = a /\ l.stage = "dialling" /\ l.other = None
      /\ ~l.version /\ ~l.verack /\ l.wire \in Unacked
  BY <1>2 DEF Dialled, Link
<1>5. Sound(l)
  BY <1>0, <1>3, <1>4 DEF Sound
<1> QED BY <1>4, <1>5 DEF Recorded

LEMMA AttachedSound ==
    ASSUME NEW l, Sound(l), l.host \in Host, NEW o \in Conn \cup {None}, NEW w \in Unacked
    PROVE  /\ Sound(Attached(l, o, w))
           /\ Attached(l, o, w).other = o
           /\ \A k : Recorded(Attached(l, o, w), k)
<1> DEFINE a == Attached(l, o, w)
<1>1. w \in Seq({"greeting", "version", "verack"})
  BY DEF Unacked
<1>2. a \in Link
  BY <1>1 DEF Attached, Sound, Link
<1>3. /\ a.host = l.host /\ a.stage = "greeting" /\ a.other = o /\ a.wire = w
      /\ a.version = l.version /\ a.verack = l.verack
      /\ a.identity = l.identity /\ a.pin = l.pin
  BY DEF Attached, Sound, Link
<1>4. Sound(a)
  BY <1>2, <1>3 DEF Sound
<1> QED BY <1>3, <1>4 DEF Recorded

LEMMA ReadSound ==
    ASSUME Inv, NEW c \in Conn, NEW m, Arrives(c, m)
    PROVE  /\ Sound(Read(c))
           /\ \A x \in {"host", "stage", "pin", "other", "score", "version"} :
                Read(c)[x] = conn[c][x]
           /\ conn[c].host = Self => m \in {"greeting", "version"}
<1>1. Sound(conn[c])
  BY DEF Inv, Good
<1>2. CASE conn[c].host # Self
  BY <1>1, <1>2 DEF Read
<1>3. CASE conn[c].host = Self
  <2>1. conn[c].wire # <<>> /\ Head(conn[c].wire) = m
    BY <1>3 DEF Arrives
  <2>2. Tail(conn[c].wire) \in Unacked /\ m \in {"greeting", "version"}
    BY <1>1, <2>1 DEF Sound, Unacked
  <2>3. Read(c) = [conn[c] EXCEPT !.wire = Tail(conn[c].wire)]
    BY <1>3 DEF Read
  <2>4. Tail(conn[c].wire) \in Seq({"greeting", "version", "verack"})
    BY <2>2 DEF Unacked
  <2>5. Read(c) \in Link
    BY <1>1, <2>3, <2>4 DEF Sound, Link
  <2>6. \A x \in {"host", "at", "stage", "pin", "other", "score", "version", "verack", "identity"} :
          Read(c)[x] = conn[c][x]
    BY <1>1, <2>3 DEF Sound, Link
  <2>7. Read(c).wire \in Unacked
    BY <1>1, <2>2, <2>3 DEF Sound, Link
  <2> QED BY <1>1, <2>2, <2>5, <2>6, <2>7 DEF Sound
<1> QED BY <1>2, <1>3

LEMMA MisbehaveKeeps ==
    ASSUME Inv, NEW c \in Conn, conn[c].host \in Host, NEW points \in Nat,
           Misbehave(c, points)
    PROVE  Inv'
<1>1. CASE conn[c].score + points >= BanThreshold
  <2>1. conn' = Closed(c) /\ UNCHANGED known /\ banned' \subseteq Host
    BY <1>1 DEF Misbehave, Inv, Tables
  <2>2. book' \in [Addr -> 0..MaxFailures \cup {None}]
    BY <1>1 DEF Misbehave, Inv, Tables
  <2> QED BY <2>1, <2>2, CloseKeeps
<1>2. CASE ~(conn[c].score + points >= BanThreshold)
  <2> DEFINE l == [conn[c] EXCEPT !.score = conn[c].score + points]
  <2>1. Sound(conn[c]) /\ conn[c] \in Link
    BY DEF Inv, Good
  <2>2. conn[c].score + points \in 0..BanThreshold - 1
    BY <1>2, <2>1, PeersConstants DEF Link
  <2>3. l \in Link
    BY <2>1, <2>2 DEF Link
  <2>4. \A x \in {"host", "stage", "pin", "other", "version", "verack", "identity",
                  "wire", "at", "claims"} : l[x] = conn[c][x]
    BY <2>1 DEF Link
  <2>5. Sound(l)
    BY <2>1, <2>3, <2>4 DEF Sound
  <2>6. Recorded(l, known)
    BY <2>4 DEF Recorded, Inv
  <2>7. conn' = [conn EXCEPT ![c] = l] /\ UNCHANGED known /\ Tables'
    BY <1>2 DEF Misbehave, Inv, Tables
  <2> HIDE DEF l
  <2> QED BY <2>4, <2>5, <2>6, <2>7, UpdateKeeps
<1> QED BY <1>1, <1>2

(***************************************************************************)
(* Where an identity is recorded, none was before: what other sockets have *)
(* recorded stays.                                                         *)
(***************************************************************************)
LEMMA MaybeReadyKeeps ==
    ASSUME Inv, NEW c \in Conn, NEW l, Sound(l), l.other = conn[c].other, l.stage = "open",
           l.verack => l.host # Self,
           NEW m, m \in Unacked \/ conn[c].other = None,
           MaybeReady(c, l, m)
    PROVE  Inv'
<1>1. CASE ~(l.version /\ l.verack)
  <2>1. conn' = Becomes(c, l, m) /\ UNCHANGED known /\ Tables'
    BY <1>1 DEF MaybeReady, Inv, Tables
  <2>2. Recorded(l, known') /\ \A d \in Conn \ {c} : Recorded(conn[d], known')
    BY <2>1 DEF Recorded, Inv
  <2> QED BY <2>1, <2>2, BecomesKeeps
<1>2. CASE l.version /\ l.verack /\ Changed(l)
  BY <1>2, CloseKeeps DEF MaybeReady, Close, Inv, Tables
<1>3. CASE l.version /\ l.verack /\ ~Changed(l)
  <2> DEFINE r == [l EXCEPT !.stage = "ready"]
  <2>1. l \in Link /\ l.host \in Host /\ l.identity \in Identity
    BY <1>3 DEF Sound
  <2>2. r \in Link
    BY <2>1 DEF Link
  <2>3. /\ r.stage = "ready"
        /\ \A x \in {"host", "pin", "other", "version", "verack", "identity", "wire", "at", "claims"} :
             r[x] = l[x]
    BY <2>1 DEF Link
  <2>4. Sound(r)
    BY <1>3, <2>1, <2>2, <2>3 DEF Sound
  <2>5. conn' = Becomes(c, r, m) /\ UNCHANGED banned
    BY <1>3 DEF MaybeReady
  <2>6. book' \in [Addr -> 0..MaxFailures \cup {None}]
    BY <1>3, SucceededTyped DEF MaybeReady, Inv, Tables
  <2>7. \/ UNCHANGED known
        \/ known[l.claims] = None /\ known' = [known EXCEPT ![l.claims] = l.identity]
    BY <1>3 DEF MaybeReady, Judge
  <2>8. Tables'
    BY <2>1, <2>5, <2>6, <2>7 DEF Inv, Tables
  <2>9. Recorded(r, known')
    <3>1. CASE Judged(l)
      <4>0. l.claims \in Addr
        BY <2>1, <3>1 DEF Judged, Link
      <4>1. known[l.claims] \in {None, l.identity}
        BY <1>3, <3>1 DEF Changed
      <4>2. known'[l.claims] = l.identity
        BY <1>3, <2>1, <3>1, <4>0, <4>1 DEF MaybeReady, Judge, Inv, Tables
      <4> QED BY <2>3, <4>2 DEF Recorded
    <3> QED BY <2>3, <3>1 DEF Recorded, Judged
  <2>10. ASSUME NEW d \in Conn \ {c}
         PROVE  Recorded(conn[d], known')
    <3>1. SUFFICES ASSUME conn[d].stage = "ready", conn[d].pin = None, conn[d].claims # None
                   PROVE  known'[conn[d].claims] = conn[d].identity
      BY DEF Recorded
    <3>2. /\ known[conn[d].claims] = conn[d].identity /\ conn[d].claims \in Addr
          /\ conn[d].identity \in Identity
      BY <3>1 DEF Inv, Good, Sound, Recorded, Link
    <3>3. known[conn[d].claims] # None
      BY <3>2, PeersConstants
    <3> QED BY <2>7, <3>2, <3>3 DEF Inv, Tables
  <2> HIDE DEF r
  <2>11. r.other = conn[c].other
    BY <2>3
  <2> QED BY <2>4, <2>5, <2>8, <2>9, <2>10, <2>11, BecomesKeeps
<1> QED BY <1>1, <1>2, <1>3

LEMMA OnVersionKeeps ==
    ASSUME Inv, NEW c \in Conn, NEW identity \in Identity, NEW claims \in Addr \cup {None},
           OnVersion(c, identity, claims)
    PROVE  Inv'
<1>1. conn[c].stage = "open" /\ Arrives(c, "version") /\ Sound(conn[c])
  BY DEF OnVersion, Inv, Good
<1>2. conn[c].host \in Host
  BY <1>1 DEF Sound
<1>3. CASE conn[c].version
  BY <1>2, <1>3, MisbehaveKeeps DEF OnVersion
<1>4. CASE ~conn[c].version /\ (IsOurNonce(c) \/ (conn[c].pin # None /\ conn[c].pin # identity))
  BY <1>4, CloseKeeps DEF OnVersion, Close, Inv, Tables
<1>5. CASE ~conn[c].version /\ ~IsOurNonce(c) /\ (conn[c].pin # None => conn[c].pin = identity)
  <2> DEFINE l == [Read(c) EXCEPT !.version = TRUE, !.identity = identity, !.claims = claims]
  <2>1. /\ Sound(Read(c)) /\ Read(c) \in Link
        /\ \A x \in {"host", "stage", "pin", "other"} : Read(c)[x] = conn[c][x]
    BY <1>1, ReadSound DEF Sound
  <2>2. l \in Link
    BY <2>1 DEF Link
  <2>3. /\ \A x \in {"host", "stage", "pin", "other", "verack", "wire"} : l[x] = Read(c)[x]
        /\ l.identity = identity
    BY <2>1 DEF Link
  <2>4. Sound(l)
    BY <1>1, <1>2, <1>5, <2>1, <2>2, <2>3 DEF Sound
  <2>5. l.other = conn[c].other /\ l.stage = "open" /\ (l.verack => l.host # Self)
    BY <1>1, <2>1, <2>3 DEF Sound
  <2>6. conn[c].other = None
    BY <1>5 DEF IsOurNonce
  <2>7. MaybeReady(c, l, <<"verack">>)
    BY <1>5 DEF OnVersion
  <2> HIDE DEF l
  <2> QED BY <2>4, <2>5, <2>6, <2>7, MaybeReadyKeeps
<1> QED BY <1>3, <1>4, <1>5

LEMMA OnVerackKeeps ==
    ASSUME Inv, NEW c \in Conn, OnVerack(c)
    PROVE  Inv'
<1> DEFINE l == [Read(c) EXCEPT !.verack = TRUE]
<1>1. conn[c].stage = "open" /\ Arrives(c, "verack") /\ MaybeReady(c, l, <<>>)
  BY DEF OnVerack
<1>2. /\ Sound(Read(c)) /\ Read(c) \in Link /\ conn[c].host # Self
      /\ \A x \in {"host", "stage", "pin", "other"} : Read(c)[x] = conn[c][x]
  BY <1>1, ReadSound DEF Sound
<1>3. l \in Link
  BY <1>2 DEF Link
<1>4. \A x \in {"host", "stage", "pin", "other", "version", "identity", "wire"} :
        l[x] = Read(c)[x]
  BY <1>2 DEF Link
<1>5. Sound(l)
  BY <1>2, <1>3, <1>4 DEF Sound
<1>6. l.other = conn[c].other /\ l.stage = "open" /\ l.host # Self
  BY <1>1, <1>2, <1>4
<1>7. <<>> \in Unacked
  BY DEF Unacked
<1> HIDE DEF l
<1> QED BY <1>1, <1>5, <1>6, <1>7, MaybeReadyKeeps

LEMMA KeyExchangeKeeps ==
    ASSUME Inv, NEW c \in Conn, KeyExchange(c)
    PROVE  Inv'
<1> DEFINE l == [Read(c) EXCEPT !.stage = "open"]
<1>1. /\ conn[c].stage = "greeting" /\ Arrives(c, "greeting")
      /\ conn' = Becomes(c, l, <<"version">>) /\ UNCHANGED <<book, known, banned>>
  BY DEF KeyExchange
<1>2. /\ Sound(Read(c)) /\ Read(c) \in Link
      /\ \A x \in {"host", "stage", "pin", "other"} : Read(c)[x] = conn[c][x]
  BY <1>1, ReadSound DEF Sound
<1>3. l \in Link
  BY <1>2 DEF Link
<1>4. /\ l.stage = "open"
      /\ \A x \in {"host", "pin", "other", "version", "verack", "identity", "wire"} :
           l[x] = Read(c)[x]
  BY <1>2 DEF Link
<1>5. Sound(l) /\ l.other = conn[c].other
  BY <1>1, <1>2, <1>3, <1>4 DEF Sound
<1>6. Recorded(l, known') /\ \A d \in Conn \ {c} : Recorded(conn[d], known')
  BY <1>1, <1>4 DEF Recorded, Inv
<1>7. <<"version">> \in Unacked /\ Tables'
  BY <1>1 DEF Unacked, Inv, Tables
<1> HIDE DEF l
<1> QED BY <1>1, <1>5, <1>6, <1>7, BecomesKeeps

(***************************************************************************)
(* Sockets that were free are dialled, several at once by the timer.       *)
(***************************************************************************)
LEMMA TopUpKeeps ==
    ASSUME Inv, TopUpOutbound
    PROVE  Inv'
<1>1. PICK D \in SUBSET Candidates : \E socket \in Injection(D, Free) :
        conn' = [c \in Conn |-> IF \E a \in D : socket[a] = c
                                THEN Dialled(CHOOSE a \in D : socket[a] = c, FALSE, None)
                                ELSE conn[c]]
  BY DEF TopUpOutbound
<1>2. PICK socket \in Injection(D, Free) :
        conn' = [c \in Conn |-> IF \E a \in D : socket[a] = c
                                THEN Dialled(CHOOSE a \in D : socket[a] = c, FALSE, None)
                                ELSE conn[c]]
  BY <1>1
<1>3. ASSUME NEW c \in Conn
      PROVE  /\ Sound(conn'[c]) /\ Recorded(conn'[c], known)
             /\ conn'[c].other = conn[c].other
  <2>1. CASE \E a \in D : socket[a] = c
    <3>1. PICK a \in Addr : conn'[c] = Dialled(a, FALSE, None)
      BY <1>2, <2>1 DEF Candidates
    <3>2. conn[c].stage = "idle"
      BY <2>1 DEF Injection, IsInjective, Free
    <3>3. conn[c].other = None
      BY <3>2 DEF Inv, Good, Sound
    <3> QED BY <3>1, <3>3, DialledSound
  <2>2. CASE ~\E a \in D : socket[a] = c
    BY <1>2, <2>2 DEF Inv, Good
  <2> QED BY <2>1, <2>2
<1>4. conn' \in [Conn -> Link]
  BY <1>2, <1>3 DEF Sound
<1>5. UNCHANGED <<book, known, banned>>
  BY DEF TopUpOutbound
<1> QED BY <1>3, <1>4, <1>5 DEF Inv, Good, Tables

(***************************************************************************)
(* A dial that reaches this very node makes a pair of sockets.             *)
(***************************************************************************)
LEMMA DialReachesUsKeeps ==
    ASSUME Inv, NEW c \in Conn, DialReachesUs(c)
    PROVE  Inv'
<1> USE DEF Dialling, Free
<1>1. /\ conn[c].stage = "dialling" /\ conn[c].host = Self /\ conn[c].other = None
      /\ Sound(conn[c]) /\ UNCHANGED <<book, known, banned>> /\ Tables'
  BY DEF DialReachesUs, Inv, Good, Sound, Tables
<1>2. <<>> \in Unacked /\ <<"greeting">> \in Unacked /\ Self \in Host
  BY PeersConstants DEF Unacked
<1>3. CASE ~Admits(Self)
  <2> DEFINE l == Attached(conn[c], None, <<>>)
  <2>1. conn' = [conn EXCEPT ![c] = l]
    BY <1>3 DEF DialReachesUs
  <2>2. Sound(l) /\ l.other = conn[c].other /\ Recorded(l, known)
    BY <1>1, <1>2, AttachedSound
  <2> HIDE DEF l
  <2> QED BY <1>1, <2>1, <2>2, UpdateKeeps
<1>4. CASE Admits(Self)
  <2> DEFINE near(d) == Attached(conn[c], d, <<"greeting">>)
             far == Attached([Idle EXCEPT !.host = Self], c, <<"greeting">>)
  <2>1. PICK d \in Free : conn' = [conn EXCEPT ![c] = near(d), ![d] = far]
    BY <1>4 DEF DialReachesUs
  <2>2. d \in Conn /\ d # c /\ conn[d].other = None
    BY <1>1, <2>1 DEF Inv, Good, Sound
  <2>3. Sound(near(d)) /\ near(d).other = d /\ Recorded(near(d), known)
    BY <1>1, <1>2, <2>2, AttachedSound
  <2>4. Sound(far) /\ far.other = c /\ Recorded(far, known)
    BY <1>2, HostedIdleSound, AttachedSound
  <2> HIDE DEF near, far
  <2>5. /\ conn'[c] = near(d) /\ conn'[d] = far
        /\ \A e \in Conn \ {c, d} : conn'[e] = conn[e]
    BY <2>1, <2>2 DEF Inv, Good
  <2>6. \A e \in Conn : Sound(conn'[e]) /\ Recorded(conn'[e], known)
    BY <2>3, <2>4, <2>5 DEF Inv, Good
  <2>7. conn' \in [Conn -> Link]
    BY <2>1, <2>6 DEF Sound, Inv, Good
  <2>8. ASSUME NEW e \in Conn, NEW f \in Conn, conn'[e].other = f
        PROVE  conn'[f].other = e
    <3>1. CASE e \in {c, d}
      BY <2>2, <2>3, <2>4, <2>5, <2>8, <3>1
    <3>2. CASE e \notin {c, d}
      <4>1. conn[e].other = f /\ conn[f].other = e
        BY <2>5, <2>8, <3>2 DEF Inv, Good
      <4>2. f \notin {c, d}
        BY <1>1, <2>2, <4>1, PeersConstants
      <4> QED BY <2>5, <4>1, <4>2
    <3> QED BY <3>1, <3>2
  <2> QED BY <1>1, <2>6, <2>7, <2>8 DEF Inv, Good
<1> QED BY <1>3, <1>4

LEMMA Start == Init => Inv
<1> SUFFICES ASSUME Init PROVE Inv
  OBVIOUS
<1>1. \A c \in Conn : conn[c] = Idle
  BY DEF Init
<1>2. Good(conn)
  BY <1>1, IdleSound, PeersConstants DEF Init, Good, Sound, Idle
<1> QED BY <1>1, <1>2, IdleSound, PeersConstants DEF Init, Inv, Tables

LEMMA Step == Inv /\ [Next]_vars => Inv'
<1> SUFFICES ASSUME Inv, [Next]_vars PROVE Inv'
  OBVIOUS
<1>1. CASE TopUpOutbound
  BY <1>1, TopUpKeeps
<1>2. CASE Restart
  <2>1. \A c \in Conn : conn'[c] = Idle
    BY <1>2 DEF Restart
  <2>2. Good(conn)'
    BY <1>2, <2>1, IdleSound, PeersConstants DEF Restart, Good, Sound, Idle
  <2> QED BY <1>2, <2>1, <2>2, IdleSound DEF Restart, Inv, Tables
<1>3. ASSUME NEW h \in Host, OnInbound(h)
      PROVE  Inv'
  <2> DEFINE l == Attached([Idle EXCEPT !.host = h], None, <<>>)
  <2>1. PICK c \in Free : conn' = [conn EXCEPT ![c] = l]
    BY <1>3 DEF OnInbound
  <2>2. c \in Conn /\ conn[c].other = None
    BY <2>1 DEF Free, Inv, Good, Sound
  <2>3. <<>> \in Unacked
    BY DEF Unacked
  <2>4. Sound(l) /\ l.other = None /\ Recorded(l, known)
    BY <2>3, HostedIdleSound, AttachedSound
  <2>5. UNCHANGED <<book, known, banned>> /\ Tables'
    BY <1>3 DEF OnInbound, Inv, Tables
  <2> HIDE DEF l
  <2> QED BY <2>1, <2>2, <2>4, <2>5, UpdateKeeps
<1>4. ASSUME NEW h \in Host, ExpireBan(h)
      PROVE  Inv'
  BY <1>4 DEF ExpireBan, Inv, Good, Tables
<1>5. ASSUME NEW a \in Addr, NEW pin \in Pinned \cup {None}, Connect(a, pin)
      PROVE  Inv'
  <2>1. PICK c \in Free : conn' = [conn EXCEPT ![c] = Dialled(a, TRUE, pin)]
    BY <1>5 DEF Connect
  <2>2. c \in Conn /\ conn[c].other = None
    BY <2>1 DEF Free, Inv, Good, Sound
  <2>3. UNCHANGED <<book, known, banned>> /\ Tables'
    BY <1>5 DEF Connect, Inv, Tables
  <2> QED BY <2>1, <2>2, <2>3, DialledSound, UpdateKeeps
<1>6. ASSUME NEW c \in Conn, DialFails(c)
      PROVE  Inv'
  <2>1. conn' = [conn EXCEPT ![c] = Idle] /\ UNCHANGED <<known, banned>>
    BY <1>6 DEF DialFails
  <2>2. conn[c].other = None /\ Idle.other = None
    BY <1>6 DEF DialFails, Dialling, Inv, Good, Sound, Idle
  <2>3. Tables'
    BY <1>6, FailedTyped DEF DialFails, Inv, Tables
  <2> QED BY <2>1, <2>2, <2>3, IdleSound, UpdateKeeps
<1>7. ASSUME NEW c \in Conn, DialConnects(c)
      PROVE  Inv'
  <2> DEFINE l == Attached(conn[c], None, <<>>)
  <2>1. /\ conn' = [conn EXCEPT ![c] = l] /\ UNCHANGED <<book, known, banned>>
        /\ conn[c].stage = "dialling" /\ Tables'
    BY <1>7 DEF DialConnects, Dialling, Inv, Tables
  <2>2. Sound(conn[c]) /\ conn[c].other = None /\ conn[c].host \in Host /\ <<>> \in Unacked
    BY <2>1 DEF Inv, Good, Sound, Unacked
  <2>3. Sound(l) /\ l.other = None /\ Recorded(l, known)
    BY <2>2, AttachedSound
  <2> HIDE DEF l
  <2> QED BY <2>1, <2>2, <2>3, UpdateKeeps
<1>8. ASSUME NEW c \in Conn, OnMisplaced(c) \/ OnBadFrame(c)
      PROVE  Inv'
  <2>1. conn[c].host \in Host
    BY <1>8 DEF OnMisplaced, OnBadFrame, Inv, Good, Sound
  <2>2. BanThreshold \in Nat
    BY PeersConstants
  <2> QED BY <1>8, <2>1, <2>2, MisbehaveKeeps DEF OnMisplaced, OnBadFrame
<1>9. ASSUME NEW c \in Conn, Drop(c)
      PROVE  Inv'
  BY <1>9, CloseKeeps DEF Drop, Close, Inv, Tables
<1>10. ASSUME NEW c \in Conn, NEW a \in Addr, OnAddr(c, a)
       PROVE  Inv'
  BY <1>10, FailedTyped DEF OnAddr, Inv, Good, Tables
<1>12. ASSUME NEW c \in Conn, Reset(c)
       PROVE  Inv'
  BY <1>12, CloseKeeps, FailedTyped DEF Reset, Inv, Tables
<1>11. CASE UNCHANGED vars
  BY <1>11 DEF vars, Inv, Good, Tables
<1> QED BY <1>1, <1>2, <1>3, <1>4, <1>5, <1>6, <1>7, <1>8, <1>9, <1>10, <1>11, <1>12,
           DialReachesUsKeeps, KeyExchangeKeeps, OnVersionKeeps, OnVerackKeeps DEF Next

LEMMA Invariant == Spec => []Inv
BY Start, Step, PTL DEF Spec

----------------------------------------------------------------------------
(***************************************************************************)
(* Every reachable state of the connection manager is well formed: scores  *)
(* below the ban (misbehave), failures counted within their range          *)
(* (rememberPeer), for any hosts, sockets and limits.                      *)
(***************************************************************************)
THEOREM PeersTyped == Spec => []TypeOK
<1>1. Inv => TypeOK
  BY DEF Inv, Good, Tables, TypeOK
<1> QED BY <1>1, Invariant, PTL

(***************************************************************************)
(* Trust on first use (judgeIdentity): whatever a remote host sends, a     *)
(* ready connection has the key pinned for it, or the key first recorded   *)
(* for the address it claims to listen at, if it claims any.  Nothing is   *)
(* said of the address it was dialled at, when it claims another.          *)
(***************************************************************************)
THEOREM IdentitiesHold == Spec => []IdentityHolds
<1>1. Inv => IdentityHolds
  BY PeersConstants DEF Inv, Good, Sound, Recorded, IdentityHolds
<1> QED BY <1>1, Invariant, PTL

(***************************************************************************)
(* A node that dials its own public address (onVersion's check of its own  *)
(* nonces) never has a ready peer at either end of that connection.        *)
(***************************************************************************)
THEOREM OurselvesNeverReady == Spec => []NeverOurselves
<1>1. Inv => NeverOurselves
  BY DEF Inv, Good, Sound, NeverOurselves
<1> QED BY <1>1, Invariant, PTL

----------------------------------------------------------------------------
(***************************************************************************)
(* Slots.  A dial is outbound already, so that only an accepted socket     *)
(* takes an inbound slot.                                                  *)
(***************************************************************************)
Unasked(f) == {c \in Conn : /\ \/ f[c].stage \notin {"idle", "dialling"} /\ f[c].out
                              \/ f[c].stage = "dialling"
                           /\ ~f[c].asked}
Accepted(f) == {c \in Conn : f[c].stage \notin {"idle", "dialling"} /\ ~f[c].out}

DialsOut(f) == \A c \in Conn : f[c].stage = "dialling" => f[c].out

SlotInv ==
    /\ DialsOut(conn)
    /\ Cardinality(Unasked(conn)) <= MaxOutbound
    /\ Cardinality(Accepted(conn)) <= MaxInbound

(***************************************************************************)
(* A socket that takes no slot it had not: closed, or the same connection  *)
(* and not back at dialling.                                               *)
(***************************************************************************)
Keeps(old, new) ==
    \/ new.stage = "idle"
    \/ /\ old.stage # "idle" /\ new.out = old.out /\ new.asked = old.asked
       /\ new.stage = "dialling" => old.stage = "dialling"

LEMMA SmallerFits ==
    ASSUME NEW S, NEW T \in SUBSET Conn, S \subseteq T, NEW n \in Nat, Cardinality(T) <= n
    PROVE  Cardinality(S) <= n
<1>1. IsFiniteSet(T)
  BY FS_Subset, PeersConstants
<1>2. IsFiniteSet(S) /\ Cardinality(S) <= Cardinality(T)
  BY <1>1, FS_Subset
<1> QED BY <1>1, <1>2, FS_CardinalityType

LEMMA SlotsKept ==
    ASSUME SlotInv, NEW D \in SUBSET Conn, \A c \in Conn \ D : Keeps(conn[c], conn'[c]),
           \A c \in D : conn'[c].out /\ conn'[c].asked
    PROVE  SlotInv'
<1>1. DialsOut(conn)' /\ Unasked(conn') \subseteq Unasked(conn)
                     /\ Accepted(conn') \subseteq Accepted(conn)
  BY DEF SlotInv, DialsOut, Unasked, Accepted, Keeps
<1>2. Unasked(conn) \in SUBSET Conn /\ Accepted(conn) \in SUBSET Conn
  BY DEF Unasked, Accepted
<1> QED BY <1>1, <1>2, SmallerFits, PeersConstants DEF SlotInv

LEMMA ClosedKeeps ==
    ASSUME Good(conn), NEW c \in Conn, NEW d \in Conn
    PROVE  Keeps(conn[d], Closed(c)[d])
<1>1. conn[d] \in Link
  BY DEF Good
<1>2. Idle.stage = "idle"
  BY DEF Idle
<1> QED BY <1>1, <1>2 DEF Closed, Keeps, Link

LEMMA OneBecomesKeeps ==
    ASSUME Good(conn), NEW c \in Conn, NEW l, Keeps(conn[c], l), NEW m, NEW d \in Conn
    PROVE  Keeps(conn[d], Becomes(c, l, m)[d])
<1>1. conn[d] \in Link
  BY DEF Good
<1>2. CASE d = c
  BY <1>2 DEF Becomes
<1>3. CASE d # c /\ conn[d].other # c
  BY <1>1, <1>3 DEF Becomes, Keeps
<1>4. CASE d # c /\ conn[d].other = c
  <2> DEFINE w == conn[d].wire \o m
  <2>1. Becomes(c, l, m)[d] = [conn[d] EXCEPT !.wire = w]
    BY <1>4 DEF Becomes
  <2>2. \A x \in {"stage", "out", "asked"} : [conn[d] EXCEPT !.wire = w][x] = conn[d][x]
    BY <1>1 DEF Link
  <2> QED BY <2>1, <2>2 DEF Keeps
<1> QED BY <1>2, <1>3, <1>4

LEMMA SameSlots ==
    ASSUME SlotInv, \A c \in Conn : Keeps(conn[c], conn'[c])
    PROVE  SlotInv'
<1>1. {} \in SUBSET Conn
  OBVIOUS
<1> QED BY <1>1, SlotsKept

LEMMA OneKeeps ==
    ASSUME Inv, SlotInv, NEW c \in Conn, NEW l, conn' = [conn EXCEPT ![c] = l],
           Keeps(conn[c], l)
    PROVE  SlotInv'
<1>1. ASSUME NEW d \in Conn
      PROVE  Keeps(conn[d], conn'[d])
  BY DEF Keeps, Inv, Good
<1> QED BY <1>1, SameSlots

(***************************************************************************)
(* The timer: what it dials fits into the room it counted.                 *)
(***************************************************************************)
LEMMA DialledFields ==
    ASSUME NEW a, NEW asked, NEW pin
    PROVE  LET l == Dialled(a, asked, pin) IN l.out /\ l.asked = asked /\ l.stage = "dialling"
<1>1. \A x \in {"out", "asked", "stage"} : x \in DOMAIN Idle
  BY DEF Idle
<1> QED BY <1>1 DEF Dialled, Idle

LEMMA TopUpFits ==
    ASSUME Inv, SlotInv, TopUpOutbound
    PROVE  SlotInv'
<1>1. PICK D \in SUBSET Candidates :
        /\ Cardinality(D) = Room \/ Cardinality(D) < Room
        /\ \E socket \in Injection(D, Free) :
             conn' = [c \in Conn |-> IF \E a \in D : socket[a] = c
                                     THEN Dialled(CHOOSE a \in D : socket[a] = c, FALSE, None)
                                     ELSE conn[c]]
  BY DEF TopUpOutbound
<1>2. PICK socket \in Injection(D, Free) :
        conn' = [c \in Conn |-> IF \E a \in D : socket[a] = c
                                THEN Dialled(CHOOSE a \in D : socket[a] = c, FALSE, None)
                                ELSE conn[c]]
  BY <1>1
<1> DEFINE New == {c \in Conn : \E a \in D : socket[a] = c}
<1>3. /\ \A c \in New : conn'[c].out /\ ~conn'[c].asked /\ conn'[c].stage = "dialling"
      /\ \A c \in Conn \ New : conn'[c] = conn[c]
  BY <1>2, DialledFields
<1>4. IsFiniteSet(New) /\ Cardinality(New) = Cardinality(D)
  <2>1. socket \in Surjection(D, New)
    BY DEF Injection, Surjection, IsInjective, Free
  <2>2. IsFiniteSet(Free) /\ Free \subseteq Conn
    BY FS_Subset, PeersConstants DEF Free
  <2>3. IsFiniteSet(D)
    BY <2>2, FS_Injection
  <2>4. socket \in Injection(D, New)
    BY <2>1 DEF Injection, Surjection
  <2> HIDE DEF New
  <2> QED BY <2>1, <2>3, <2>4, FS_Surjection
<1>5. Unasked(conn') \subseteq Unasked(conn) \cup New /\ Unasked(conn) \cap New = {}
  <2>1. \A c \in New : conn[c].stage = "idle"
    BY DEF Injection, Free
  <2> HIDE DEF New
  <2> QED BY <1>3, <2>1 DEF Unasked
<1>6. Accepted(conn') \subseteq Accepted(conn) /\ DialsOut(conn)'
  <2> HIDE DEF New
  <2> QED BY <1>3 DEF Accepted, SlotInv, DialsOut
<1>7. /\ IsFiniteSet(Unasked(conn)) /\ IsFiniteSet(Outbound) /\ IsFiniteSet(Dialling)
      /\ Cardinality(Unasked(conn)) <= Cardinality(Outbound) + Cardinality(Dialling)
  <2>1. IsFiniteSet(Outbound) /\ IsFiniteSet(Dialling) /\ IsFiniteSet(Unasked(conn))
    BY FS_Subset, PeersConstants DEF Outbound, Dialling, peers, Unasked
  <2>2. Unasked(conn) \subseteq Outbound \cup Dialling /\ Outbound \cap Dialling = {}
    BY DEF Outbound, Dialling, peers, Unasked, Free
  <2>3. /\ IsFiniteSet(Outbound \cup Dialling)
        /\ Cardinality(Outbound \cup Dialling) =
             Cardinality(Outbound) + Cardinality(Dialling) - Cardinality({})
    BY <2>1, <2>2, FS_Union
  <2>4. Cardinality(Unasked(conn)) <= Cardinality(Outbound \cup Dialling)
    BY <2>2, <2>3, FS_Subset
  <2> QED BY <2>1, <2>3, <2>4, FS_EmptySet, FS_CardinalityType
<1>8. Cardinality(Unasked(conn) \cup New) <= MaxOutbound
  <2>1. Cardinality(Unasked(conn) \cup New) =
          Cardinality(Unasked(conn)) + Cardinality(New) - Cardinality({})
    BY <1>4, <1>5, <1>7, FS_Union
  <2>2. Cardinality(New) <= MaxOutbound - Cardinality(Outbound) - Cardinality(Dialling)
    BY <1>1, <1>4, <1>7, FS_CardinalityType, PeersConstants DEF Room
  <2> QED BY <1>4, <1>7, <2>1, <2>2, FS_EmptySet, FS_CardinalityType, PeersConstants
<1>9. Unasked(conn) \cup New \in SUBSET Conn /\ Accepted(conn) \in SUBSET Conn
  BY DEF Unasked, Accepted
<1> HIDE DEF New
<1>10. Cardinality(Unasked(conn')) <= MaxOutbound
  BY <1>5, <1>8, <1>9, SmallerFits, PeersConstants
<1>11. Cardinality(Accepted(conn')) <= MaxInbound
  BY <1>6, <1>9, SmallerFits, PeersConstants DEF SlotInv
<1> QED BY <1>6, <1>10, <1>11 DEF SlotInv

(***************************************************************************)
(* An accepted socket: one more inbound slot, of which there was one left. *)
(***************************************************************************)
LEMMA InboundIsAccepted == Inbound = Accepted(conn)
BY DEF Inbound, Outbound, peers, Free, Dialling, Accepted

LEMMA AcceptedFits ==
    ASSUME Inv, SlotInv, NEW h, Admits(h), NEW d \in Conn, ~conn'[d].out,
           conn'[d].stage # "dialling",
           \A e \in Conn \ {d} : Keeps(conn[e], conn'[e])
    PROVE  SlotInv'
<1>1. /\ DialsOut(conn)' /\ Unasked(conn') \subseteq Unasked(conn)
      /\ Accepted(conn') \subseteq Accepted(conn) \cup {d}
  BY DEF SlotInv, DialsOut, Unasked, Accepted, Keeps
<1>2. IsFiniteSet(Accepted(conn)) /\ Cardinality(Accepted(conn)) < MaxInbound
  BY InboundIsAccepted, FS_Subset, PeersConstants DEF Admits, Accepted
<1>3. Cardinality(Accepted(conn) \cup {d}) <= MaxInbound
  <2>1. Cardinality(Accepted(conn)) \in Nat
    BY <1>2, FS_CardinalityType
  <2>2. Cardinality(Accepted(conn) \cup {d}) \in
          {Cardinality(Accepted(conn)), Cardinality(Accepted(conn)) + 1}
    BY <1>2, FS_AddElement
  <2> QED BY <1>2, <2>1, <2>2, PeersConstants
<1>4. Unasked(conn) \in SUBSET Conn /\ Accepted(conn) \cup {d} \in SUBSET Conn
  BY DEF Unasked, Accepted
<1> QED BY <1>1, <1>3, <1>4, SmallerFits, PeersConstants DEF SlotInv

LEMMA AttachedFields ==
    ASSUME NEW l \in Link, NEW o, NEW w
    PROVE  LET a == Attached(l, o, w)
           IN  a.out = l.out /\ a.asked = l.asked /\ a.stage = "greeting"
BY DEF Attached, Link

LEMMA HostedIdleOut ==
    ASSUME NEW h \in Host
    PROVE  [Idle EXCEPT !.host = h] \in Link /\ ~[Idle EXCEPT !.host = h].out
<1>1. Idle \in Link /\ ~Idle.out
  BY IdleSound DEF Idle, Sound
<1> QED BY <1>1 DEF Link

LEMMA OnInboundFits ==
    ASSUME Inv, SlotInv, NEW h \in Host, OnInbound(h)
    PROVE  SlotInv'
<1> DEFINE i == [Idle EXCEPT !.host = h]
           l == Attached(i, None, <<>>)
<1>1. PICK d \in Free : conn' = [conn EXCEPT ![d] = l]
  BY DEF OnInbound
<1>2. ~l.out /\ l.stage = "greeting"
  <2>1. i \in Link /\ ~i.out
    BY HostedIdleOut
  <2> HIDE DEF i
  <2> QED BY <2>1, AttachedFields
<1> HIDE DEF l
<1>3. d \in Conn /\ conn'[d] = l
  BY <1>1 DEF Free, Inv, Good
<1>4. \A e \in Conn \ {d} : Keeps(conn[e], conn'[e])
  BY <1>1 DEF Keeps, Inv, Good
<1> QED BY <1>2, <1>3, <1>4, AcceptedFits DEF OnInbound

LEMMA DialReachesUsFits ==
    ASSUME Inv, SlotInv, NEW c \in Conn, DialReachesUs(c)
    PROVE  SlotInv'
<1>1. conn[c].stage = "dialling" /\ conn[c] \in Link /\ Self \in Host
  BY PeersConstants DEF DialReachesUs, Dialling, Inv, Good
<1>2. CASE ~Admits(Self)
  <2> DEFINE l == Attached(conn[c], None, <<>>)
  <2>1. conn' = [conn EXCEPT ![c] = l]
    BY <1>2 DEF DialReachesUs
  <2>2. Keeps(conn[c], l)
    BY <1>1, AttachedFields DEF Keeps
  <2> HIDE DEF l
  <2> QED BY <2>1, <2>2, OneKeeps
<1>3. CASE Admits(Self)
  <2> DEFINE near(d) == Attached(conn[c], d, <<"greeting">>)
             i == [Idle EXCEPT !.host = Self]
             far == Attached(i, c, <<"greeting">>)
  <2>1. PICK d \in Free : conn' = [conn EXCEPT ![c] = near(d), ![d] = far]
    BY <1>3 DEF DialReachesUs
  <2>2. d \in Conn /\ d # c
    BY <1>1, <2>1 DEF Free
  <2>3. Keeps(conn[c], near(d))
    BY <1>1, AttachedFields DEF Keeps
  <2>4. ~far.out /\ far.stage = "greeting"
    <3>1. i \in Link /\ ~i.out
      BY <1>1, HostedIdleOut
    <3> HIDE DEF i
    <3> QED BY <3>1, AttachedFields
  <2> HIDE DEF near, far
  <2>5. /\ conn'[c] = near(d) /\ conn'[d] = far
        /\ \A e \in Conn \ {c, d} : conn'[e] = conn[e]
    BY <2>1, <2>2 DEF Inv, Good
  <2>6. \A e \in Conn \ {d} : Keeps(conn[e], conn'[e])
    BY <2>3, <2>5 DEF Keeps
  <2> QED BY <1>3, <2>2, <2>4, <2>5, <2>6, AcceptedFits
<1> QED BY <1>2, <1>3

(***************************************************************************)
(* The handlers of a connection under way.                                 *)
(***************************************************************************)
LEMMA CloseFits ==
    ASSUME Inv, SlotInv, NEW c \in Conn, conn' = Closed(c)
    PROVE  SlotInv'
BY ClosedKeeps, SameSlots DEF Inv

LEMMA BecomesFits ==
    ASSUME Inv, SlotInv, NEW c \in Conn, NEW l, NEW m, conn' = Becomes(c, l, m),
           Keeps(conn[c], l)
    PROVE  SlotInv'
BY OneBecomesKeeps, SameSlots DEF Inv

LEMMA MisbehaveFits ==
    ASSUME Inv, SlotInv, NEW c \in Conn, NEW points, Misbehave(c, points)
    PROVE  SlotInv'
<1>1. CASE conn' = Closed(c)
  BY <1>1, CloseFits
<1>2. CASE conn' = [conn EXCEPT ![c].score = @ + points]
  <2> DEFINE s == conn[c].score + points
  <2>1. conn' = [conn EXCEPT ![c] = [conn[c] EXCEPT !.score = s]]
    BY <1>2
  <2>2. \A x \in {"stage", "out", "asked"} : [conn[c] EXCEPT !.score = s][x] = conn[c][x]
    BY DEF Inv, Good, Link
  <2>3. Keeps(conn[c], [conn[c] EXCEPT !.score = s])
    BY <2>2 DEF Keeps
  <2> QED BY <2>1, <2>3, OneKeeps
<1> QED BY <1>1, <1>2 DEF Misbehave

LEMMA ReadFields ==
    ASSUME Inv, NEW c \in Conn
    PROVE  /\ DOMAIN Read(c) = DOMAIN conn[c]
           /\ \A x \in {"stage", "out", "asked"} : Read(c)[x] = conn[c][x]
<1>1. conn[c] \in Link
  BY DEF Inv, Good
<1> QED BY <1>1 DEF Read, Link

LEMMA MaybeReadyFits ==
    ASSUME Inv, SlotInv, NEW c \in Conn, NEW l, NEW m, MaybeReady(c, l, m),
           conn[c].stage = "open", l.stage = "open", "stage" \in DOMAIN l,
           l.out = conn[c].out, l.asked = conn[c].asked
    PROVE  SlotInv'
<1>1. CASE conn' = Becomes(c, l, m)
  BY <1>1, BecomesFits DEF Keeps
<1>2. CASE conn' = Closed(c)
  BY <1>2, CloseFits
<1>3. CASE conn' = Becomes(c, [l EXCEPT !.stage = "ready"], m)
  <2> DEFINE r == [l EXCEPT !.stage = "ready"]
  <2>1. r.stage = "ready" /\ r.out = l.out /\ r.asked = l.asked
    OBVIOUS
  <2>2. Keeps(conn[c], r)
    BY <2>1 DEF Keeps
  <2>3. conn' = Becomes(c, r, m)
    BY <1>3
  <2> HIDE DEF r
  <2> QED BY <2>2, <2>3, BecomesFits
<1> QED BY <1>1, <1>2, <1>3 DEF MaybeReady, Close

LEMMA OnVersionFits ==
    ASSUME Inv, SlotInv, NEW c \in Conn, NEW identity, NEW claims, OnVersion(c, identity, claims)
    PROVE  SlotInv'
<1> DEFINE l == [Read(c) EXCEPT !.version = TRUE, !.identity = identity, !.claims = claims]
<1>1. CASE Misbehave(c, 1)
  BY <1>1, MisbehaveFits
<1>2. CASE Close(c)
  BY <1>2, CloseFits DEF Close
<1>3. CASE MaybeReady(c, l, <<"verack">>)
  <2>1. conn[c].stage = "open"
    BY DEF OnVersion
  <2>2. "stage" \in DOMAIN l /\ \A x \in {"stage", "out", "asked"} : l[x] = conn[c][x]
    BY ReadFields DEF Inv, Good, Link
  <2> HIDE DEF l
  <2> QED BY <1>3, <2>1, <2>2, MaybeReadyFits
<1> QED BY <1>1, <1>2, <1>3 DEF OnVersion

LEMMA OnVerackFits ==
    ASSUME Inv, SlotInv, NEW c \in Conn, OnVerack(c)
    PROVE  SlotInv'
<1> DEFINE l == [Read(c) EXCEPT !.verack = TRUE]
<1>1. conn[c].stage = "open" /\ MaybeReady(c, l, <<>>)
  BY DEF OnVerack
<1>2. "stage" \in DOMAIN l /\ \A x \in {"stage", "out", "asked"} : l[x] = conn[c][x]
  BY ReadFields DEF Inv, Good, Link
<1> HIDE DEF l
<1> QED BY <1>1, <1>2, MaybeReadyFits

LEMMA KeyExchangeFits ==
    ASSUME Inv, SlotInv, NEW c \in Conn, KeyExchange(c)
    PROVE  SlotInv'
<1> DEFINE l == [Read(c) EXCEPT !.stage = "open"]
<1>1. conn[c].stage = "greeting" /\ conn' = Becomes(c, l, <<"version">>)
  BY DEF KeyExchange
<1>2. l.stage = "open" /\ \A x \in {"out", "asked"} : l[x] = conn[c][x]
  BY ReadFields DEF Inv, Good, Link
<1> HIDE DEF l
<1> QED BY <1>1, <1>2, BecomesFits DEF Keeps

LEMMA SlotStart == Init => SlotInv
<1> SUFFICES ASSUME Init PROVE SlotInv
  OBVIOUS
<1>1. Unasked(conn) = {} /\ Accepted(conn) = {} /\ DialsOut(conn)
  BY DEF Init, Idle, Unasked, Accepted, DialsOut
<1> QED BY <1>1, FS_EmptySet, PeersConstants DEF SlotInv

LEMMA SlotStep == Inv /\ SlotInv /\ [Next]_vars => SlotInv'
<1> SUFFICES ASSUME Inv, SlotInv, [Next]_vars PROVE SlotInv'
  OBVIOUS
<1>1. CASE UNCHANGED conn
  BY <1>1, SameSlots DEF Keeps
<1>2. CASE Restart
  BY <1>2, SameSlots DEF Restart, Keeps, Idle
<1>3. ASSUME NEW a \in Addr, NEW pin \in Pinned \cup {None}, Connect(a, pin)
      PROVE  SlotInv'
  <2> DEFINE l == Dialled(a, TRUE, pin)
  <2>1. PICK c \in Free : conn' = [conn EXCEPT ![c] = l]
    BY <1>3 DEF Connect
  <2>2. l.out /\ l.asked
    BY DialledFields
  <2> HIDE DEF l
  <2>3. /\ {c} \in SUBSET Conn /\ conn'[c] = l
        /\ \A d \in Conn \ {c} : Keeps(conn[d], conn'[d])
    BY <2>1 DEF Free, Keeps, Inv, Good
  <2> QED BY <2>2, <2>3, SlotsKept
<1>4. ASSUME NEW c \in Conn, DialFails(c)
      PROVE  SlotInv'
  BY <1>4, OneKeeps DEF DialFails, Keeps, Idle
<1>5. ASSUME NEW c \in Conn, DialConnects(c)
      PROVE  SlotInv'
  <2>1. conn[c].stage = "dialling" /\ conn[c] \in Link
    BY <1>5 DEF DialConnects, Dialling, Inv, Good
  <2>2. Keeps(conn[c], Attached(conn[c], None, <<>>))
    BY <2>1, AttachedFields DEF Keeps
  <2> QED BY <1>5, <2>2, OneKeeps DEF DialConnects
<1>6. ASSUME NEW c \in Conn, OnMisplaced(c) \/ OnBadFrame(c)
      PROVE  SlotInv'
  BY <1>6, MisbehaveFits DEF OnMisplaced, OnBadFrame
<1>7. ASSUME NEW c \in Conn, Drop(c)
      PROVE  SlotInv'
  BY <1>7, CloseFits DEF Drop, Close
<1>8. ASSUME NEW h \in Host, ExpireBan(h)
      PROVE  UNCHANGED conn
  BY <1>8 DEF ExpireBan
<1>9. ASSUME NEW c \in Conn, NEW a \in Addr, OnAddr(c, a)
      PROVE  UNCHANGED conn
  BY <1>9 DEF OnAddr
<1>10. ASSUME NEW c \in Conn, Reset(c)
       PROVE  SlotInv'
  BY <1>10, CloseFits DEF Reset
<1> QED BY <1>1, <1>2, <1>3, <1>4, <1>5, <1>6, <1>7, <1>8, <1>9, <1>10, TopUpFits, OnInboundFits,
           DialReachesUsFits, KeyExchangeFits, OnVersionFits, OnVerackFits DEF Next, vars

(***************************************************************************)
(* The slots of a connection manager (topUpOutbound, onInbound) hold for   *)
(* any limits and any number of sockets: the timer counts the dials under  *)
(* way before it dials, and only an accepted socket takes an inbound slot. *)
(***************************************************************************)
THEOREM SlotsHold == Spec => []SlotsBounded
<1>1. SlotInv => SlotsBounded
  <2>1. {c \in Outbound \cup Dialling : ~conn[c].asked} = Unasked(conn)
    BY DEF Unasked, Outbound, peers, Free, Dialling
  <2> QED BY <2>1, InboundIsAccepted DEF SlotInv, SlotsBounded
<1> QED BY <1>1, SlotStart, SlotStep, Invariant, PTL DEF Spec

----------------------------------------------------------------------------
(***************************************************************************)
(* Payments: no HTLC is left behind.  First, sequences of anything.        *)
(***************************************************************************)
\* A sequence, of whatever it is a sequence of.
Listing(s) == s \in Seq(Range(s))

LEMMA ListingFacts ==
    ASSUME NEW s, Listing(s)
    PROVE  /\ Len(s) \in Nat /\ DOMAIN s = 1..Len(s)
           /\ \A S : Range(s) \subseteq S => s \in Seq(S)
<1> DEFINE R == Range(s)
<1>1. s \in Seq(R)
  BY DEF Listing
<1> HIDE DEF R
<1>2. Len(s) \in Nat /\ DOMAIN s = 1..Len(s)
  BY <1>1
<1>3. \A S : R \subseteq S => s \in Seq(S)
  BY <1>1
<1> QED
  BY <1>2, <1>3 DEF R

LEMMA ListingOf ==
    ASSUME NEW S, NEW s \in Seq(S)
    PROVE  Listing(s) /\ Range(s) \subseteq S
<1>1. DOMAIN s = 1..Len(s) /\ Len(s) \in Nat /\ \A i \in 1..Len(s) : s[i] \in S
  OBVIOUS
<1>2. Range(s) \subseteq S /\ \A i \in 1..Len(s) : s[i] \in Range(s)
  BY <1>1 DEF Range
<1>3. s \in Seq(Range(s))
  <2> DEFINE R == Range(s)
  <2>1. \A i \in 1..Len(s) : s[i] \in R
    BY <1>2
  <2> HIDE DEF R
  <2>2. s \in Seq(R)
    BY <1>1, <2>1
  <2> QED
    BY <2>2 DEF R
<1> QED
  BY <1>2, <1>3 DEF Listing

LEMMA ListingNone == Listing(<<>>) /\ Range(<<>>) = {} /\ DOMAIN <<>> = {}
BY DEF Listing, Range

LEMMA ListingAppend ==
    ASSUME NEW s, Listing(s), NEW e
    PROVE  /\ Listing(Append(s, e)) /\ Range(Append(s, e)) = Range(s) \cup {e}
           /\ DOMAIN Append(s, e) = 1..(Len(s) + 1) /\ Append(s, e)[Len(s) + 1] = e
           /\ \A i \in DOMAIN s : Append(s, e)[i] = s[i]
<1> DEFINE T == Range(s) \cup {e}
           t == Append(s, e)
<1>1. s \in Seq(T) /\ e \in T /\ Len(s) \in Nat /\ DOMAIN s = 1..Len(s)
  BY ListingFacts
<1> HIDE DEF T
<1>2. /\ t \in Seq(T) /\ DOMAIN t = 1..(Len(s) + 1) /\ t[Len(s) + 1] = e
      /\ \A i \in 1..Len(s) : t[i] = s[i]
  BY <1>1
<1> HIDE DEF t
<1>3. Listing(t)
  BY <1>2, ListingOf
<1>4. Range(t) = Range(s) \cup {e}
  <2>1. \A i \in 1..(Len(s) + 1) : i = Len(s) + 1 \/ i \in 1..Len(s)
    BY <1>1
  <2>2. Len(s) + 1 \in 1..(Len(s) + 1) /\ 1..Len(s) \subseteq 1..(Len(s) + 1)
    BY <1>1
  <2> QED
    BY <1>1, <1>2, <2>1, <2>2 DEF Range
<1> QED
  BY <1>1, <1>2, <1>3, <1>4 DEF t

LEMMA ListingConcat ==
    ASSUME NEW s, Listing(s), NEW t, Listing(t)
    PROVE  Listing(s \o t) /\ Range(s \o t) = Range(s) \cup Range(t)
<1> DEFINE T == Range(s) \cup Range(t)
           u == s \o t
<1>1. s \in Seq(T) /\ t \in Seq(T)
  BY ListingFacts
<1>2. Len(s) \in Nat /\ DOMAIN s = 1..Len(s) /\ Len(t) \in Nat /\ DOMAIN t = 1..Len(t)
  BY ListingFacts
<1> HIDE DEF T
<1>3. /\ u \in Seq(T) /\ DOMAIN u = 1..(Len(s) + Len(t))
      /\ \A i \in 1..Len(s) : u[i] = s[i]
      /\ \A i \in 1..Len(t) : u[Len(s) + i] = t[i]
      /\ \A i \in 1..(Len(s) + Len(t)) : i \in 1..Len(s) \/ i - Len(s) \in 1..Len(t)
      /\ \A i \in 1..(Len(s) + Len(t)) : i = Len(s) + (i - Len(s))
      /\ \A i \in 1..Len(t) : Len(s) + i \in 1..(Len(s) + Len(t))
      /\ 1..Len(s) \subseteq 1..(Len(s) + Len(t))
  BY <1>1, <1>2
<1> HIDE DEF u
<1>4. Listing(u) /\ Range(u) \subseteq Range(s) \cup Range(t)
  BY <1>3, ListingOf DEF T
<1>5. Range(s) \subseteq Range(u) /\ Range(t) \subseteq Range(u)
  BY <1>2, <1>3 DEF Range
<1> QED
  BY <1>4, <1>5 DEF u

LEMMA ListingReverse ==
    ASSUME NEW s, Listing(s)
    PROVE  Listing(Reverse(s)) /\ Range(Reverse(s)) = Range(s)
<1> DEFINE n == Len(s)
           t == Reverse(s)
<1>1. n \in Nat /\ DOMAIN s = 1..n
  BY ListingFacts
<1>2. DOMAIN t = 1..n /\ \A i \in 1..n : t[i] = s[(n - i) + 1]
  BY DEF Reverse
<1>3. \A i \in 1..n : (n - i) + 1 \in 1..n /\ (n - ((n - i) + 1)) + 1 = i
  BY <1>1
<1>4. t \in Seq(Range(s))
  <2> DEFINE R == Range(s)
  <2>1. \A i \in 1..n : s[(n - i) + 1] \in R
    BY <1>1, <1>3 DEF Range
  <2>2. t = [i \in 1..n |-> s[(n - i) + 1]]
    BY DEF Reverse
  <2> HIDE DEF R, n
  <2> QED
    BY <1>1, <2>1, <2>2 DEF R
<1> HIDE DEF n, t
<1>5. Range(t) = Range(s)
  BY <1>1, <1>2, <1>3 DEF Range
<1> QED
  BY <1>4, <1>5, ListingOf DEF t

LEMMA ListingTail ==
    ASSUME NEW s, Listing(s), s # <<>>
    PROVE  Listing(Tail(s)) /\ Range(s) = {Head(s)} \cup Range(Tail(s))
<1> DEFINE R == Range(s)
           t == Tail(s)
<1>1. s \in Seq(R)
  BY DEF Listing
<1> HIDE DEF R
<1>2. /\ t \in Seq(R) /\ Len(s) \in Nat \ {0} /\ DOMAIN s = 1..Len(s) /\ DOMAIN t = 1..(Len(s) - 1)
      /\ Head(s) = s[1] /\ \A i \in 1..(Len(s) - 1) : t[i] = s[i + 1]
  BY <1>1
<1> HIDE DEF t
<1>3. Listing(t)
  BY <1>2, ListingOf
<1>4. Range(s) = {s[1]} \cup Range(t)
  <2>1. \A i \in 1..Len(s) : i = 1 \/ (i - 1 \in 1..(Len(s) - 1) /\ (i - 1) + 1 = i)
    BY <1>2
  <2>2. \A i \in 1..(Len(s) - 1) : i + 1 \in 1..Len(s)
    BY <1>2
  <2>3. 1 \in 1..Len(s)
    BY <1>2
  <2>4. Range(s) \subseteq {s[1]} \cup Range(t)
    <3> SUFFICES ASSUME NEW i \in 1..Len(s) PROVE s[i] \in {s[1]} \cup Range(t)
      BY <1>2 DEF Range
    <3>1. CASE i = 1
      BY <3>1
    <3>2. CASE i - 1 \in 1..(Len(s) - 1) /\ (i - 1) + 1 = i
      <4>1. t[i - 1] = s[i]
        BY <1>2, <3>2
      <4> QED
        BY <1>2, <3>2, <4>1 DEF Range
    <3> QED
      BY <2>1, <3>1, <3>2
  <2>5. {s[1]} \cup Range(t) \subseteq Range(s)
    BY <1>2, <2>2, <2>3 DEF Range
  <2> QED
    BY <2>4, <2>5
<1> QED
  BY <1>2, <1>3, <1>4 DEF t

\* What FlattenSeq has put together after n of the sequences.
Flattening(f, seqs, n) ==
    /\ f = [k \in 1..n |-> f[k]]
    /\ f[1] = seqs[1]
    /\ \A k \in 2..n : f[k] = f[k - 1] \o seqs[k]

LEMMA FlatteningExists ==
    ASSUME NEW seqs, NEW N \in Nat \ {0}
    PROVE  \E f : Flattening(f, seqs, N)
<1> DEFINE P == {n \in Nat : n = 0 \/ \E f : Flattening(f, seqs, n)}
<1>1. 0 \in P
  OBVIOUS
<1>2. ASSUME NEW n \in Nat, n \in P PROVE n + 1 \in P
  <2>1. CASE n = 0
    <3> DEFINE g == [k \in 1..1 |-> seqs[1]]
    <3>1. g = [k \in 1..1 |-> g[k]] /\ g[1] = seqs[1] /\ 2..1 = {}
      OBVIOUS
    <3> HIDE DEF g
    <3>2. Flattening(g, seqs, 1)
      BY <3>1 DEF Flattening
    <3> QED
      BY <2>1, <3>2
  <2>2. CASE n # 0
    <3>1. PICK f : Flattening(f, seqs, n)
      BY <1>2, <2>2
    <3> DEFINE last == f[n] \o seqs[n + 1]
               g == [k \in 1..(n + 1) |-> IF k = n + 1 THEN last ELSE f[k]]
    <3>0. /\ 1 \in 1..n /\ n + 1 \in 1..(n + 1)
          /\ \A k \in 1..n : k \in 1..(n + 1) /\ k # n + 1
      BY <2>2
    <3>2. /\ g = [k \in 1..(n + 1) |-> g[k]]
          /\ \A k \in 1..n : g[k] = f[k]
          /\ g[n + 1] = last
      <4> HIDE DEF last
      <4>1. g[n + 1] = last
        BY <3>0
      <4>2. \A k \in 1..n : g[k] = f[k]
        BY <3>0
      <4> QED
        BY <4>1, <4>2
    <3> HIDE DEF g
    <3>3. g[1] = seqs[1]
      BY <3>0, <3>1, <3>2 DEF Flattening
    <3>4. ASSUME NEW k \in 2..(n + 1) PROVE g[k] = g[k - 1] \o seqs[k]
      <4>0. k - 1 \in 1..n
        OBVIOUS
      <4>1. k - 1 \in 1..n /\ g[k - 1] = f[k - 1]
        BY <3>2, <4>0
      <4>2. CASE k = n + 1
        <5>1. k - 1 = n
          BY <4>2
        <5> QED
          BY <3>2, <4>1, <4>2, <5>1
      <4>3. CASE k # n + 1
        <5>1. k \in 2..n /\ k \in 1..n
          BY <4>3
        <5> QED
          BY <3>1, <3>2, <4>1, <5>1 DEF Flattening
      <4> QED
        BY <4>2, <4>3
    <3>5. Flattening(g, seqs, n + 1)
      BY <3>2, <3>3, <3>4 DEF Flattening
    <3> QED
      BY <3>5
  <2> QED
    BY <2>1, <2>2
<1>3. Nat \subseteq P
  <2> HIDE DEF P
  <2> QED
    BY <1>1, <1>2, NatClosure
<1> QED
  BY <1>3

\* Sequences put one after another hold what each of them holds.
LEMMA FlattenHolds ==
    ASSUME NEW seqs, Listing(seqs), \A i \in DOMAIN seqs : Listing(seqs[i])
    PROVE  Listing(FlattenSeq(seqs)) /\ \A i \in DOMAIN seqs : Range(seqs[i]) \subseteq Range(FlattenSeq(seqs))
<1> DEFINE N == Len(seqs)
           all == FlattenSeq(seqs)
<1>0. N \in Nat /\ DOMAIN seqs = 1..N
  BY ListingFacts
<1>1. CASE N = 0
  <2>1. all = seqs
    BY <1>1 DEF FlattenSeq
  <2>2. DOMAIN seqs = {}
    BY <1>0, <1>1
  <2> HIDE DEF all
  <2> QED
    BY <2>1, <2>2 DEF all
<1>2. CASE N # 0
  <2> DEFINE Is(f) == f = [i \in 1..N |-> IF i = 1 THEN seqs[i] ELSE f[i - 1] \o seqs[i]]
             q == CHOOSE f : Is(f)
  <2>1. \E f : Is(f)
    <3>1. PICK f : Flattening(f, seqs, N)
      BY <1>0, <1>2, FlatteningExists
    <3>2. \A k \in 1..N : f[k] = IF k = 1 THEN seqs[k] ELSE f[k - 1] \o seqs[k]
      <4>1. \A k \in 1..N : k # 1 => k \in 2..N
        BY <1>0
      <4> QED
        BY <3>1, <4>1 DEF Flattening
    <3>3. f = [k \in 1..N |-> f[k]]
      BY <3>1 DEF Flattening
    <3>4. Is(f)
      BY <3>2, <3>3
    <3> QED
      BY <3>4
  <2>2. Is(q)
    BY <2>1
  <2>3. all = q[N]
    BY <1>2 DEF FlattenSeq
  <2> HIDE DEF q, all
  <2>4. /\ \A i \in 1..N : q[i] = IF i = 1 THEN seqs[i] ELSE q[i - 1] \o seqs[i]
    BY <2>2
  <2> DEFINE P == {n \in Nat : n \in 1..N =>
                      Listing(q[n]) /\ \A i \in 1..n : Range(seqs[i]) \subseteq Range(q[n])}
  <2>5. 0 \in P
    OBVIOUS
  <2>6. ASSUME NEW n \in Nat, n \in P PROVE n + 1 \in P
    <3> DEFINE Flat(k) == Listing(q[k]) /\ \A i \in 1..k : Range(seqs[i]) \subseteq Range(q[k])
    <3>0. n + 1 \in Nat
      OBVIOUS
    <3> SUFFICES ASSUME n + 1 \in 1..N PROVE Flat(n + 1)
      <4> HIDE DEF Flat
      <4> QED
        BY <3>0 DEF Flat
    <3>1. CASE n = 0
      <4>1. q[n + 1] = seqs[1] /\ 1 \in 1..N /\ 1..(n + 1) = {1}
        BY <2>4, <3>1
      <4> QED
        BY <1>0, <4>1
    <3>2. CASE n # 0
      <4>1. n \in 1..N /\ q[n + 1] = q[n] \o seqs[n + 1]
        <5>1. n \in 1..N /\ n + 1 # 1 /\ (n + 1) - 1 = n
          BY <1>0, <3>2
        <5> QED
          BY <2>4, <5>1
      <4>2. Listing(q[n]) /\ \A i \in 1..n : Range(seqs[i]) \subseteq Range(q[n])
        BY <2>6, <4>1
      <4>3. Listing(seqs[n + 1])
        BY <1>0
      <4>4. Listing(q[n + 1]) /\ Range(q[n + 1]) = Range(q[n]) \cup Range(seqs[n + 1])
        BY <4>1, <4>2, <4>3, ListingConcat
      <4>5. \A i \in 1..(n + 1) : i \in 1..n \/ i = n + 1
        OBVIOUS
      <4> QED
        BY <4>2, <4>4, <4>5
    <3> QED
      BY <3>1, <3>2
  <2>7. N \in P
    <3>1. Nat \subseteq P
      <4> HIDE DEF P
      <4> QED
        BY <2>5, <2>6, NatClosure
    <3> QED
      BY <1>0, <3>1
  <2>8. N \in 1..N
    BY <1>0, <1>2
  <2> QED
    BY <1>0, <2>3, <2>7, <2>8 DEF all
<1> QED
  BY <1>1, <1>2


\* The HTLCs a call still has to undo or to settle: those of the parts that have
\* arrived, and those of the attempt, or of the unwinding, in progress.
PartsOf(j) == UNION {Range(j.held[i].added) : i \in DOMAIN j.held}
UnderWay(j) == IF j.phase = "deliver" THEN Range(j.added)
               ELSE IF j.phase \in {"undo", "release", "settle"} THEN Range(j.todo) ELSE {}
Tracked(j) ==
    UnderWay(j) \cup (IF j.phase \in {"route", "deliver", "undo"} THEN PartsOf(j) ELSE {})

CallShape(j) ==
    /\ j = [phase |-> j.phase, from |-> j.from, inv |-> j.inv, multi |-> j.multi,
            left |-> j.left, tries |-> j.tries, parts |-> j.parts, exclude |-> j.exclude,
            held |-> j.held, route |-> j.route, part |-> j.part, added |-> j.added,
            todo |-> j.todo, before |-> j.before]
    /\ j.phase \in {"route", "deliver", "undo", "release", "settle"}
    /\ Listing(j.held) /\ \A i \in DOMAIN j.held : Listing(j.held[i].added)
    /\ Listing(j.added) /\ Listing(j.todo)

\* A call in progress can still reach every HTLC that it added and that is pending;
\* other pending HTLCs are of calls that ended in an exception.
PendingTracked ==
    /\ job # NoJob => CallShape(job)
    /\ \A h \in pending :
          \/ h.inv \in threw
          \/ job # NoJob /\ h.inv = job.inv /\ h \in Tracked(job)

LEMMA NoJobPhase == \A j : CallShape(j) => j # NoJob
<1> TAKE j
<1>1. NoJob.phase = "none"
  BY DEF NoJob
<1> QED
  BY <1>1 DEF CallShape

LEMMA HeldBackHolds ==
    ASSUME NEW j, CallShape(j)
    PROVE  Listing(HeldBack(j.held)) /\ PartsOf(j) \subseteq Range(HeldBack(j.held))
<1> DEFINE back == [i \in DOMAIN j.held |-> Reverse(j.held[i].added)]
<1>1. Listing(j.held) /\ \A i \in DOMAIN j.held : Listing(j.held[i].added)
  BY DEF CallShape
<1>2. \A i \in DOMAIN j.held : Listing(back[i]) /\ Range(back[i]) = Range(j.held[i].added)
  BY <1>1, ListingReverse
<1>3. Listing(back) /\ DOMAIN back = DOMAIN j.held
  <2> DEFINE n == Len(j.held)
             R == {back[i] : i \in 1..n}
  <2>1. n \in Nat /\ DOMAIN j.held = 1..n
    BY <1>1, ListingFacts
  <2>2. back = [i \in 1..n |-> back[i]] /\ \A i \in 1..n : back[i] \in R
    BY <2>1
  <2> HIDE DEF R, n, back
  <2>3. back \in Seq(R)
    BY <2>1, <2>2
  <2> QED
    BY <2>1, <2>2, <2>3, ListingOf
<1> HIDE DEF back
<1>4. Listing(FlattenSeq(back)) /\ \A i \in DOMAIN back : Range(back[i]) \subseteq Range(FlattenSeq(back))
  BY <1>2, <1>3, FlattenHolds
<1>5. HeldBack(j.held) = FlattenSeq(back)
  BY DEF HeldBack, back
<1> QED
  BY <1>2, <1>3, <1>4, <1>5 DEF PartsOf

\* Abandoning a payment leaves no HTLC of it out.
LEMMA ReleaseTracks ==
    ASSUME NEW j, CallShape(j), NEW todo, Listing(todo)
    PROVE  LET r == Release(j, todo)
           IN CallShape(r) /\ r.inv = j.inv /\ Range(todo) \cup PartsOf(j) \subseteq Tracked(r)
<1> DEFINE r == Release(j, todo)
           all == todo \o HeldBack(j.held)
<1>1. Listing(all) /\ Range(all) = Range(todo) \cup Range(HeldBack(j.held))
  BY HeldBackHolds, ListingConcat
<1>2. r = [j EXCEPT !.phase = "release", !.todo = all]
  BY DEF Release
<1> HIDE DEF r, all
<1>3. /\ CallShape(r) /\ r.inv = j.inv /\ r.phase = "release" /\ r.todo = all
  BY <1>1, <1>2 DEF CallShape
<1>4. Tracked(r) = Range(all)
  BY <1>3 DEF Tracked, UnderWay
<1> QED
  BY <1>1, <1>3, <1>4, HeldBackHolds DEF r

\* A failed attempt leaves none out either, whatever is to blame.
LEMMA FailPartTracks ==
    ASSUME CallShape(job), NEW blame, NEW added, Listing(added)
    PROVE  LET r == FailPart(blame, added)
           IN CallShape(r) /\ r.inv = job.inv /\ Range(added) \cup PartsOf(job) \subseteq Tracked(r)
<1> DEFINE r == FailPart(blame, added)
           back == Reverse(added)
<1>1. Listing(back) /\ Range(back) = Range(added)
  BY ListingReverse
<1> HIDE DEF back
<1>2. CASE blame = {}
  <2>1. r = Release(job, back)
    BY <1>2 DEF FailPart, back
  <2> HIDE DEF r
  <2> QED
    BY <1>1, <2>1, ReleaseTracks DEF r
<1>3. CASE blame # {}
  <2>1. r = [job EXCEPT !.phase = "undo", !.exclude = @ \cup blame, !.todo = back, !.parts = @ + 1]
    BY <1>3 DEF FailPart, back
  <2> HIDE DEF r
  <2>2. /\ CallShape(r) /\ r.inv = job.inv /\ r.phase = "undo" /\ r.todo = back
        /\ r.held = job.held
    BY <1>1, <2>1 DEF CallShape
  <2>3. Tracked(r) = Range(back) \cup PartsOf(job)
    BY <2>2 DEF Tracked, UnderWay, PartsOf
  <2> QED
    BY <1>1, <2>2, <2>3 DEF r
<1> QED
  BY <1>2, <1>3

\* A hop's HTLC is among those the call goes on with, wherever it goes.
LEMMA HopTracks ==
    ASSUME CallShape(job), job.phase = "deliver", NEW h
    PROVE  LET r == AfterHop(h)
           IN CallShape(r) /\ r.inv = job.inv /\ Tracked(job) \cup {h} \subseteq Tracked(r)
<1> DEFINE r == AfterHop(h)
           added == Append(job.added, h)
<1>1. Listing(added) /\ Range(added) = Range(job.added) \cup {h}
  BY ListingAppend DEF CallShape
<1>2. Tracked(job) = Range(job.added) \cup PartsOf(job)
  BY DEF Tracked, UnderWay
<1>3. \/ \E blame : r = FailPart(blame, added)
      \/ r = [job EXCEPT !.phase = "route", !.added = <<>>, !.left = @ - job.part,
                         !.parts = @ + 1,
                         !.held = Append(@, [amount |-> job.part, added |-> added])]
      \/ r = [job EXCEPT !.added = added]
  BY DEF AfterHop
<1> HIDE DEF added, r
<1>4. CASE \E blame : r = FailPart(blame, added)
  BY <1>1, <1>2, <1>4, FailPartTracks DEF r
<1>5. CASE r = [job EXCEPT !.phase = "route", !.added = <<>>, !.left = @ - job.part,
                           !.parts = @ + 1,
                           !.held = Append(@, [amount |-> job.part, added |-> added])]
  <2> DEFINE part == [amount |-> job.part, added |-> added]
             held == Append(job.held, part)
  <2>1. Listing(job.held) /\ \A i \in DOMAIN job.held : Listing(job.held[i].added)
    BY DEF CallShape
  <2>2. /\ Listing(held) /\ DOMAIN job.held = 1..Len(job.held) /\ Len(job.held) \in Nat
        /\ DOMAIN held = 1..(Len(job.held) + 1) /\ held[Len(job.held) + 1] = part
        /\ \A i \in DOMAIN job.held : held[i] = job.held[i]
    BY <2>1, ListingAppend, ListingFacts
  <2>3. part.added = added
    OBVIOUS
  <2> HIDE DEF part, held
  <2>4. /\ \A i \in DOMAIN held : i \in DOMAIN job.held \/ i = Len(job.held) + 1
        /\ DOMAIN job.held \subseteq DOMAIN held /\ Len(job.held) + 1 \in DOMAIN held
    BY <2>2
  <2>5. \A i \in DOMAIN held : Listing(held[i].added)
    BY <1>1, <2>1, <2>2, <2>3, <2>4
  <2>6. r.held = held /\ r.phase = "route" /\ r.inv = job.inv
    BY <1>5 DEF CallShape, held, part
  <2>7. CallShape(r)
    <3>1. /\ r = [phase |-> r.phase, from |-> r.from, inv |-> r.inv, multi |-> r.multi,
                  left |-> r.left, tries |-> r.tries, parts |-> r.parts, exclude |-> r.exclude,
                  held |-> r.held, route |-> r.route, part |-> r.part, added |-> r.added,
                  todo |-> r.todo, before |-> r.before]
          /\ r.added = <<>> /\ r.todo = job.todo
      BY <1>5 DEF CallShape
    <3> QED
      BY <2>2, <2>5, <2>6, <3>1, ListingNone DEF CallShape
  <2>8. Tracked(r) = PartsOf(r)
    BY <2>6 DEF Tracked, UnderWay
  <2>9. Range(added) \cup PartsOf(job) \subseteq PartsOf(r)
    BY <2>2, <2>3, <2>4, <2>6 DEF PartsOf
  <2> QED
    BY <1>1, <1>2, <2>6, <2>7, <2>8, <2>9 DEF r
<1>6. CASE r = [job EXCEPT !.added = added]
  <2>1. CallShape(r) /\ r.inv = job.inv /\ r.phase = "deliver" /\ r.added = added /\ r.held = job.held
    BY <1>1, <1>6 DEF CallShape
  <2>2. Tracked(r) = Range(added) \cup PartsOf(job)
    BY <2>1 DEF Tracked, UnderWay, PartsOf
  <2> QED
    BY <1>1, <1>2, <2>1, <2>2 DEF r
<1> QED
  BY <1>3, <1>4, <1>5, <1>6

\* A step of the call's channels after which the call goes on with next, if they sign,
\* keeps track when next does.
LEMMA ReturningTracks ==
    ASSUME PendingTracked, job # NoJob, NEW ch, NEW next, Returning(ch, next),
           CallShape(next), next.inv = job.inv,
           NEW owed, owed \subseteq Tracked(next),
           \A h \in pending' : h.inv \in threw \/ (h.inv = job.inv /\ h \in owed)
    PROVE  PendingTracked'
<1>1. CASE job' = next /\ UNCHANGED threw
  BY <1>1, NoJobPhase DEF PendingTracked
<1>2. CASE job' = NoJob /\ threw' = threw \cup {job.inv}
  BY <1>2 DEF PendingTracked
<1> QED
  BY <1>1, <1>2 DEF Returning

\* So does one that only looks.
LEMMA StayingTracks ==
    ASSUME PendingTracked, job # NoJob, UNCHANGED <<pending, threw>>,
           CallShape(job'), job'.inv = job.inv, Tracked(job) \subseteq Tracked(job')
    PROVE  PendingTracked'
BY NoJobPhase DEF PendingTracked

LEMMA TrackedInit == PaymentInit => PendingTracked
BY DEF PaymentInit, PendingTracked

LEMMA TrackedNext == PendingTracked /\ [PaymentNext]_paymentVars => PendingTracked'
<1> SUFFICES ASSUME PendingTracked, [PaymentNext]_paymentVars PROVE PendingTracked'
  OBVIOUS
<1>0. NoJob.phase = "none"
  BY DEF NoJob
<1>s. job # NoJob => CallShape(job)
  BY DEF PendingTracked
<1>p. \A h \in pending : h.inv \in threw \/ (job # NoJob /\ h.inv = job.inv /\ h \in Tracked(job))
  BY DEF PendingTracked
<1>1. ASSUME NEW n \in Node, NEW inv \in Invoice, NEW multi \in BOOLEAN, Pay(n, inv, multi)
      PROVE  PendingTracked'
  <2>1. job = NoJob /\ job' = Call(n, inv, multi) /\ UNCHANGED <<pending, threw>>
    BY <1>1 DEF Pay, channels
  <2>2. CallShape(job')
    BY <2>1, ListingNone DEF Call, CallShape
  <2>3. \A h \in pending' : h.inv \in threw'
    BY <1>p, <2>1
  <2> QED
    BY <2>2, <2>3 DEF PendingTracked
<1>2. CASE StartPart
  <2>1. /\ job.phase = "route" /\ job # NoJob
        /\ \E amount : job' = Deliver(amount)
        /\ UNCHANGED <<pending, threw>>
    BY <1>0, <1>2 DEF StartPart, channels
  <2>2. CallShape(job)
    BY <1>s, <2>1
  <2>3. PICK route, amount : job' = [job EXCEPT !.phase = "deliver", !.tries = @ + 1, !.part = amount,
                                         !.route = route, !.added = <<>>]
    BY <2>1 DEF Deliver
  <2>4. CallShape(job') /\ job'.inv = job.inv /\ job'.held = job.held /\ job'.phase = "deliver"
    BY <2>2, <2>3, ListingNone DEF CallShape
  <2>5. Tracked(job) \subseteq Tracked(job')
    BY <2>1, <2>4 DEF Tracked, UnderWay, PartsOf
  <2> QED
    BY <2>1, <2>4, <2>5, StayingTracks
<1>3. CASE GiveUp
  <2>1. job.phase = "route" /\ job # NoJob /\ job' = Release(job, <<>>) /\ UNCHANGED <<pending, threw>>
    BY <1>0, <1>3 DEF GiveUp, channels
  <2>2. CallShape(job)
    BY <1>s, <2>1
  <2>3. Tracked(job) = PartsOf(job)
    BY <2>1 DEF Tracked, UnderWay
  <2>4. CallShape(job') /\ job'.inv = job.inv /\ PartsOf(job) \subseteq Tracked(job')
    BY <2>1, <2>2, ListingNone, ReleaseTracks
  <2> QED
    BY <2>1, <2>3, <2>4, StayingTracks
<1>4. CASE HopRefused
  <2>1. /\ job.phase = "deliver" /\ job # NoJob /\ UNCHANGED <<pending, threw>>
        /\ \E blame : job' = FailPart(blame, job.added)
    BY <1>0, <1>4 DEF HopRefused, channels
  <2>2. CallShape(job) /\ Listing(job.added)
    BY <1>s, <2>1 DEF CallShape
  <2>3. Tracked(job) = Range(job.added) \cup PartsOf(job)
    BY <2>1 DEF Tracked, UnderWay
  <2>4. PICK blame : job' = FailPart(blame, job.added)
    BY <2>1
  <2>5. CallShape(job') /\ job'.inv = job.inv /\ Tracked(job) \subseteq Tracked(job')
    BY <2>2, <2>3, <2>4, FailPartTracks
  <2> QED
    BY <2>1, <2>5, StayingTracks
<1>5. CASE AddHop
  <2>1. /\ job.phase = "deliver" /\ job # NoJob /\ pending' = pending \cup {NewHtlc}
        /\ Returning(NewHtlc.chan, AfterHop(NewHtlc))
    BY <1>0, <1>5 DEF AddHop
  <2>2. CallShape(job)
    BY <1>s, <2>1
  <2> DEFINE next == AfterHop(NewHtlc)
             owed == Tracked(job) \cup {NewHtlc}
  <2>3. CallShape(next) /\ next.inv = job.inv /\ owed \subseteq Tracked(next)
    BY <2>1, <2>2, HopTracks
  <2>4. NewHtlc.inv = job.inv
    BY DEF NewHtlc
  <2>5. \A h \in pending' : h.inv \in threw \/ (h.inv = job.inv /\ h \in owed)
    BY <1>p, <2>1, <2>4
  <2> HIDE DEF owed, next
  <2>6. Returning(NewHtlc.chan, next)
    BY <2>1 DEF next
  <2> QED
    BY <2>1, <2>3, <2>5, <2>6, ReturningTracks
<1>6. CASE FailNext \/ SettleNext
  <2> DEFINE h0 == Head(job.todo)
             rest == Tail(job.todo)
             next == [job EXCEPT !.todo = rest]
  <2>1. /\ job.phase \in {"undo", "release", "settle"} /\ job # NoJob /\ job.todo # <<>>
        /\ pending' = pending \ {h0}
        /\ Returning(h0.chan, next)
    BY <1>0, <1>6 DEF FailNext, SettleNext
  <2>2. CallShape(job)
    BY <1>s, <2>1
  <2>3. Listing(rest) /\ Range(job.todo) = {h0} \cup Range(rest)
    BY <2>1, <2>2, ListingTail DEF CallShape
  <2> HIDE DEF h0, rest
  <2>4. /\ CallShape(next) /\ next.inv = job.inv /\ next.phase = job.phase
        /\ next.todo = rest /\ next.held = job.held
    BY <2>2, <2>3 DEF CallShape
  <2> HIDE DEF next
  <2>5. Tracked(job) \ {h0} \subseteq Tracked(next)
    BY <2>1, <2>3, <2>4 DEF Tracked, UnderWay, PartsOf
  <2> DEFINE owed == Tracked(job) \ {h0}
  <2>6. \A h \in pending' : h.inv \in threw \/ (h.inv = job.inv /\ h \in owed)
    BY <1>p, <2>1
  <2> HIDE DEF owed
  <2> QED
    BY <2>1, <2>4, <2>5, <2>6, ReturningTracks DEF owed
<1>7. CASE Undone
  <2>1. /\ job.phase \in {"undo", "release"} /\ job # NoJob /\ job.todo = <<>>
        /\ UNCHANGED <<pending, threw>>
        /\ job' = IF job.phase = "undo" THEN [job EXCEPT !.phase = "route"] ELSE NoJob
    BY <1>0, <1>7 DEF Undone, channels
  <2>2. CallShape(job) /\ Range(job.todo) = {}
    BY <1>s, <2>1, ListingNone
  <2>3. CASE job.phase = "undo"
    <3>1. job' = [job EXCEPT !.phase = "route"]
      BY <2>1, <2>3
    <3>2. CallShape(job') /\ job'.inv = job.inv /\ job'.held = job.held /\ job'.phase = "route"
      BY <2>2, <3>1 DEF CallShape
    <3>3. Tracked(job) \subseteq Tracked(job')
      BY <2>2, <2>3, <3>2 DEF Tracked, UnderWay, PartsOf
    <3> QED
      BY <2>1, <3>2, <3>3, StayingTracks
  <2>4. CASE job.phase = "release"
    <3>1. Tracked(job) = {} /\ job' = NoJob
      BY <2>1, <2>2, <2>4 DEF Tracked, UnderWay
    <3> QED
      BY <1>p, <2>1, <3>1 DEF PendingTracked
  <2> QED
    BY <2>1, <2>3, <2>4
<1>8. CASE BeginSettle
  <2>1. /\ job.phase = "route" /\ job # NoJob /\ UNCHANGED <<pending, threw>>
        /\ job' = [job EXCEPT !.phase = "settle", !.todo = HeldBack(job.held)]
    BY <1>0, <1>8 DEF BeginSettle, channels
  <2>2. CallShape(job)
    BY <1>s, <2>1
  <2>3. Listing(HeldBack(job.held)) /\ PartsOf(job) \subseteq Range(HeldBack(job.held))
    BY <2>2, HeldBackHolds
  <2>4. /\ CallShape(job') /\ job'.inv = job.inv /\ job'.phase = "settle"
        /\ job'.todo = HeldBack(job.held)
    BY <2>1, <2>2, <2>3 DEF CallShape
  <2>5. Tracked(job) \subseteq Tracked(job')
    BY <2>1, <2>3, <2>4 DEF Tracked, UnderWay
  <2> QED
    BY <2>1, <2>4, <2>5, StayingTracks
<1>9. CASE MarkSettled
  <2>1. /\ job.phase = "settle" /\ job # NoJob /\ job.todo = <<>> /\ job' = NoJob
        /\ UNCHANGED <<pending, threw>>
    BY <1>0, <1>9 DEF MarkSettled, channels
  <2>2. Tracked(job) = {}
    BY <2>1, ListingNone DEF Tracked, UnderWay
  <2> QED
    BY <1>p, <2>1, <2>2 DEF PendingTracked
<1>10. CASE UNCHANGED <<pending, threw, job>>
  BY <1>10 DEF PendingTracked, CallShape, Tracked, UnderWay, PartsOf
<1>11. \/ \E ch \in Chan, s \in Side, amount \in Direct : PayDirect(ch, s, amount)
       \/ \E ch \in Chan : CloseChannel(ch) \/ Confirm(ch)
       \/ UNCHANGED paymentVars
       => UNCHANGED <<pending, threw, job>>
  BY DEF PayDirect, CloseChannel, Confirm, paymentVars, channels
<1> QED
  BY <1>1, <1>2, <1>3, <1>4, <1>5, <1>6, <1>7, <1>8, <1>9, <1>10, <1>11 DEF PaymentNext

\* Whatever the network, and however its channels wear out, close and throw: once a call
\* has returned, none of its HTLCs holds money, unless a channel threw.
THEOREM ReturnedUnlocked == PaymentSpec => []NothingLeftLocked
<1>1. PendingTracked => NothingLeftLocked
  BY DEF PendingTracked, NothingLeftLocked
<1> QED
  BY <1>1, TrackedInit, TrackedNext, PTL DEF PaymentSpec

----------------------------------------------------------------------------
(***************************************************************************)
(* What findRoute returns is a path from the sender to the payee.  Labels  *)
(* count the hops to the payee, and the next hop of a node is one nearer   *)
(* and has been visited, so its label stays.                               *)
(***************************************************************************)
Reached(labels, source, dest, amount, k) ==
    /\ dest \in DOMAIN labels /\ DOMAIN labels \subseteq Node
    /\ labels[dest].amount = amount /\ labels[dest].hops = 0
    /\ \A n \in DOMAIN labels : /\ labels[n].hops \in 0..k
                                /\ labels[n].amount \in Nat /\ labels[n].dist \in Nat

\* The way on from a node.
WayOn(l, labels, V, n, source) ==
    /\ l.next \in Edge /\ l.next.from = n /\ l.next.to \in V
    /\ l.hops = labels[l.next.to].hops + 1
    /\ l.amount = labels[l.next.to].amount + FeeAlong(l.next, source, labels[l.next.to].amount)

\* What findRoute's search has made of the labels after k visits: every way on leads to a
\* visited node.
Chained(labels, V, source, dest, amount, k) ==
    /\ Reached(labels, source, dest, amount, k)
    /\ V \subseteq DOMAIN labels
    /\ dest \in V \/ DOMAIN labels = {dest}
    /\ \A n \in DOMAIN labels \ {dest} : WayOn(labels[n], labels, V, n, source)

LEMMA EdgeEnds ==
    ASSUME NEW e \in Edge
    PROVE  e.chan \in Chan /\ e.from \in Node /\ e.to \in Node
<1>1. PICK ch \in Chan : \/ e = [chan |-> ch, from |-> Ends[ch].a, to |-> Ends[ch].b]
                         \/ e = [chan |-> ch, from |-> Ends[ch].b, to |-> Ends[ch].a]
  BY DEF Edge
<1>2. Ends[ch].a \in Node /\ Ends[ch].b \in Node
  BY RouterConstants
<1> QED
  BY <1>1, <1>2

LEMMA FeesNatural ==
    ASSUME NEW e \in Edge, NEW amount \in Nat, NEW source
    PROVE  FeeAlong(e, source, amount) \in Nat
<1> DEFINE rate == Policy[e.chan].feeRatePpm
           part == amount * rate
<1>1. Policy[e.chan].baseFee \in Nat /\ rate \in Nat
  BY EdgeEnds, RouterConstants
<1>2. part \in Nat
  BY <1>1
<1> HIDE DEF part
<1>3. part \div 1000000 \in Nat
  BY <1>2
<1>4. EdgeFee(e, amount) \in Nat
  BY <1>1, <1>3 DEF EdgeFee, part
<1> QED
  BY <1>4 DEF FeeAlong

LEMMA TimeNatural ==
    ASSUME NEW e \in Edge, NEW amount \in Nat
    PROVE  TimeCost(e, amount) \in Nat
<1> DEFINE delta == Policy[e.chan].cltvDelta
           risk == amount * RiskFactor
           part == risk * delta
<1>1. delta \in Nat /\ RiskFactor \in Nat
  BY EdgeEnds, RouterConstants
<1>2. risk \in Nat
  BY <1>1
<1> HIDE DEF risk, delta
<1>3. part \in Nat
  BY <1>1, <1>2
<1> HIDE DEF part
<1>4. part \div 1000000 \in Nat
  BY <1>3
<1> QED
  BY <1>4 DEF TimeCost, part, risk, delta

\* The label an edge gives the node it comes from.
LEMMA ThroughFacts ==
    ASSUME NEW labels, NEW e \in Edge, NEW source, NEW k \in Nat,
           labels[e.to].amount \in Nat, labels[e.to].dist \in Nat, labels[e.to].hops \in 0..k
    PROVE  LET l == Through(labels, e, source)
           IN /\ l.next = e /\ l.hops = labels[e.to].hops + 1 /\ l.hops \in 0..(k + 1)
              /\ l.amount = labels[e.to].amount + FeeAlong(e, source, labels[e.to].amount)
              /\ l.amount \in Nat /\ l.dist \in Nat
<1> DEFINE at == labels[e.to]
           fee == FeeAlong(e, source, at.amount)
           time == TimeCost(e, at.amount + fee)
           l == Through(labels, e, source)
<1>1. fee \in Nat
  BY FeesNatural
<1>2. time \in Nat
  <2> HIDE DEF fee
  <2>1. at.amount + fee \in Nat
    BY <1>1
  <2> QED
    BY <2>1, TimeNatural
<1>3. l = [dist |-> at.dist + fee + time, amount |-> at.amount + fee,
           cltv |-> at.cltv + Policy[e.chan].cltvDelta, hops |-> at.hops + 1, next |-> e]
  BY DEF Through, Label
<1> HIDE DEF l, fee, time
<1>4. l.next = e /\ l.hops = at.hops + 1 /\ l.amount = at.amount + fee /\ l.dist = at.dist + fee + time
  BY <1>3
<1> QED
  BY <1>1, <1>2, <1>4 DEF l, fee

\* A node keeps its label, or has that of an edge.
Relaxed(new, labels, edges, source) ==
    /\ DOMAIN new = DOMAIN labels \cup {e.from : e \in edges}
    /\ \A n \in DOMAIN new :
          \/ n \in DOMAIN labels /\ new[n] = labels[n]
          \/ \E e \in edges : e.from = n /\ new[n] = Through(labels, e, source)
    /\ \A n \in DOMAIN labels : (\A e \in edges : e.from # n) => new[n] = labels[n]

\* A node is given the cheapest offer, or stays as it was.
LEMMA RelaxChoice ==
    ASSUME NEW labels, NEW edges, NEW source,
           \A e \in edges : Through(labels, e, source).dist \in Nat
    PROVE  Relaxed(Relax(labels, edges, source), labels, edges, source)
<1> DEFINE offers(n) == {Through(labels, e, source) : e \in {e \in edges : e.from = n}}
           best(n) == CHOOSE l \in offers(n) : \A m \in offers(n) : l.dist <= m.dist
           stays(n) == n \in DOMAIN labels /\ \A m \in offers(n) : labels[n].dist <= m.dist
           D == DOMAIN labels \cup {e.from : e \in edges}
           new == Relax(labels, edges, source)
<1>1. new = [n \in D |-> IF stays(n) THEN labels[n] ELSE best(n)]
  BY DEF Relax
<1> HIDE DEF new
<1>2. DOMAIN new = D /\ \A n \in D : new[n] = IF stays(n) THEN labels[n] ELSE best(n)
  <2> HIDE DEF stays, best, D
  <2> QED
    BY <1>1
<1>3. ASSUME NEW n \in D, offers(n) # {} PROVE best(n) \in offers(n)
  <2> DEFINE S == offers(n)
             dists == {l.dist : l \in S}
  <2>1. dists \in SUBSET Nat /\ dists # {}
    BY <1>3
  <2>2. \E d \in dists : \A m \in dists : d <= m
    <3> HIDE DEF dists
    <3> QED
      BY <2>1, NatLeast
  <2>3. \E l \in S : \A m \in S : l.dist <= m.dist
    <3> HIDE DEF S
    <3> QED
      BY <2>2
  <2> QED
    BY <2>3
<1>4. ASSUME NEW n \in D, ~stays(n) PROVE offers(n) # {}
  <2>1. CASE n \in DOMAIN labels
    BY <1>4, <2>1
  <2>2. CASE n \notin DOMAIN labels
    BY <2>2
  <2> QED
    BY <2>1, <2>2
<1>5. ASSUME NEW n \in D, ~stays(n)
      PROVE  \E e \in edges : e.from = n /\ new[n] = Through(labels, e, source)
  <2>1. new[n] = best(n)
    <3> HIDE DEF stays, best, D
    <3> QED
      BY <1>2, <1>5
  <2>2. best(n) \in offers(n)
    <3> HIDE DEF stays, best, D, offers
    <3> QED
      BY <1>3, <1>4, <1>5
  <2>3. new[n] \in offers(n)
    BY <2>1, <2>2
  <2> QED
    BY <2>3
<1>6. ASSUME NEW n \in D, stays(n) PROVE n \in DOMAIN labels /\ new[n] = labels[n]
  BY <1>2, <1>6
<1>7. ASSUME NEW n \in DOMAIN labels, \A e \in edges : e.from # n PROVE new[n] = labels[n]
  <2>1. stays(n) /\ n \in D
    BY <1>7
  <2> QED
    BY <1>6, <2>1
<1> HIDE DEF stays, best, offers
<1> QED
  BY <1>2, <1>5, <1>6, <1>7 DEF new, Relaxed

\* Visiting a node keeps the ways on.
LEMMA RelaxChained ==
    ASSUME NEW labels, NEW V, NEW source, NEW dest, NEW amount, NEW k \in Nat,
           Chained(labels, V, source, dest, amount, k),
           NEW c \in DOMAIN labels,
           NEW edges \in SUBSET {e \in Edge : e.to = c /\ e.from \notin V \cup {c}}
    PROVE  Chained(Relax(labels, edges, source), V \cup {c}, source, dest, amount, k + 1)
<1> DEFINE new == Relax(labels, edges, source)
           W == V \cup {c}
<1>1. /\ labels[c].amount \in Nat /\ labels[c].dist \in Nat /\ labels[c].hops \in 0..k
  BY DEF Chained, Reached
<1>2. ASSUME NEW e \in edges
      PROVE  LET l == Through(labels, e, source)
             IN /\ l.next = e /\ l.hops = labels[e.to].hops + 1 /\ l.hops \in 0..(k + 1)
                /\ l.amount = labels[e.to].amount + FeeAlong(e, source, labels[e.to].amount)
                /\ l.amount \in Nat /\ l.dist \in Nat
  <2>1. e \in Edge /\ e.to = c
    OBVIOUS
  <2> QED
    BY <1>1, <2>1, ThroughFacts
<1>2a. Relaxed(new, labels, edges, source)
  <2>1. \A e \in edges : Through(labels, e, source).dist \in Nat
    BY <1>2
  <2> QED
    BY <2>1, RelaxChoice
<1> HIDE DEF new
<1>3. /\ DOMAIN new = DOMAIN labels \cup {e.from : e \in edges}
      /\ \A n \in DOMAIN new :
            \/ n \in DOMAIN labels /\ new[n] = labels[n]
            \/ \E e \in edges : e.from = n /\ new[n] = Through(labels, e, source)
      /\ \A n \in DOMAIN labels : (\A e \in edges : e.from # n) => new[n] = labels[n]
  BY <1>2a DEF Relaxed
<1>4. dest \in W /\ W \subseteq DOMAIN labels /\ dest \in DOMAIN labels
  BY DEF Chained, Reached
<1>5. \A n \in W : n \in DOMAIN new /\ new[n] = labels[n]
  BY <1>3, <1>4
<1>6. Reached(new, source, dest, amount, k + 1)
  <2>1. DOMAIN new \subseteq Node
    <3>1. \A e \in edges : e.from \in Node
      BY EdgeEnds
    <3> QED
      BY <1>3, <3>1 DEF Chained, Reached
  <2>2. ASSUME NEW n \in DOMAIN new
        PROVE  new[n].hops \in 0..(k + 1) /\ new[n].amount \in Nat /\ new[n].dist \in Nat
    <3>1. CASE n \in DOMAIN labels /\ new[n] = labels[n]
      BY <3>1 DEF Chained, Reached
    <3>2. CASE \E e \in edges : e.from = n /\ new[n] = Through(labels, e, source)
      BY <1>2, <3>2
    <3> QED
      BY <1>3, <3>1, <3>2
  <2> QED
    BY <1>4, <1>5, <2>1, <2>2 DEF Chained, Reached
<1>7. ASSUME NEW n \in DOMAIN new \ {dest} PROVE WayOn(new[n], new, W, n, source)
  <2>1. CASE n \in DOMAIN labels /\ new[n] = labels[n]
    <3>1. WayOn(labels[n], labels, V, n, source)
      BY <2>1 DEF Chained
    <3> QED
      BY <1>5, <2>1, <3>1 DEF WayOn
  <2>2. CASE \E e \in edges : e.from = n /\ new[n] = Through(labels, e, source)
    <3>1. PICK e \in edges : e.from = n /\ new[n] = Through(labels, e, source)
      BY <2>2
    <3>2. e \in Edge /\ e.to \in W /\ new[e.to] = labels[e.to]
      BY <1>5
    <3> QED
      BY <1>2, <3>1, <3>2 DEF WayOn
  <2> QED
    BY <1>3, <2>1, <2>2
<1> QED
  BY <1>4, <1>5, <1>6, <1>7 DEF Chained, new

\* One more node visited.
LEMMA VisitChained ==
    ASSUME NEW search, NEW source, NEW dest, NEW amount, NEW exclude, NEW k \in Nat,
           Chained(search.labels, search.visited, source, dest, amount, k)
    PROVE  LET s == Visit(search, source, exclude)
           IN Chained(s.labels, s.visited, source, dest, amount, k + 1)
<1> DEFINE labels == search.labels
           V == search.visited
           frontier == DOMAIN labels \ V
           c == CHOOSE n \in frontier : \A m \in frontier : labels[n].dist <= labels[m].dist
           edges == {e \in Edge : /\ e.to = c /\ e.from \notin V \cup {c} /\ e.chan \notin exclude
                                  /\ Carries(e, labels[c].amount)}
           next == IF c = source \/ labels[c].hops >= MaxHops THEN labels ELSE Relax(labels, edges, source)
           s == Visit(search, source, exclude)
<1>1. s = IF frontier = {} \/ source \in V THEN search
          ELSE [visited |-> V \cup {c}, labels |-> next]
  BY DEF Visit
<1>2. Chained(labels, V, source, dest, amount, k + 1)
  BY DEF Chained, Reached
<1>3. CASE frontier = {} \/ source \in V
  BY <1>1, <1>2, <1>3
<1>4. CASE ~(frontier = {} \/ source \in V)
  <2>1. c \in frontier
    <3> DEFINE dists == {labels[n].dist : n \in frontier}
    <3>1. dists \in SUBSET Nat /\ dists # {}
      BY <1>4 DEF Chained, Reached
    <3>2. \E d \in dists : \A m \in dists : d <= m
      <4> HIDE DEF dists
      <4> QED
        BY <3>1, NatLeast
    <3>3. \E n \in frontier : \A m \in frontier : labels[n].dist <= labels[m].dist
      <4> HIDE DEF frontier
      <4> QED
        BY <3>2
    <3> HIDE DEF frontier
    <3> QED
      BY <3>3
  <2>2. c \in DOMAIN labels /\ edges \in SUBSET {e \in Edge : e.to = c /\ e.from \notin V \cup {c}}
    <3> HIDE DEF c
    <3> QED
      BY <2>1
  <2> HIDE DEF c, edges
  <2>3. Chained(next, V \cup {c}, source, dest, amount, k + 1)
    <3>1. CASE c = source \/ labels[c].hops >= MaxHops
      <4>1. next = labels
        BY <3>1
      <4>2. \A n \in DOMAIN labels \ {dest} : WayOn(labels[n], labels, V \cup {c}, n, source)
        BY DEF Chained, WayOn
      <4>3. dest \in V \cup {c} /\ V \cup {c} \subseteq DOMAIN labels
        BY <2>2 DEF Chained, Reached
      <4> HIDE DEF next, labels, V
      <4> QED
        BY <1>2, <4>1, <4>2, <4>3 DEF Chained
    <3>2. CASE ~(c = source \/ labels[c].hops >= MaxHops)
      <4>1. next = Relax(labels, edges, source)
        BY <3>2
      <4> HIDE DEF next, labels, V
      <4>2. Chained(labels, V, source, dest, amount, k)
        BY DEF labels, V
      <4> QED
        BY <2>2, <4>1, <4>2, RelaxChained
    <3> QED
      BY <3>1, <3>2
  <2> HIDE DEF next, frontier
  <2>4. s.labels = next /\ s.visited = V \cup {c}
    BY <1>1, <1>4
  <2> HIDE DEF s
  <2> QED
    BY <2>3, <2>4 DEF s
<1> QED
  BY <1>3, <1>4

\* The search as a recursive function, up to any round.
Rounds(f, first, source, exclude, n) ==
    /\ f = [k \in 0..n |-> f[k]]
    /\ f[0] = first
    /\ \A k \in 1..n : f[k] = Visit(f[k - 1], source, exclude)

\* The rounds of a search, one by one.
LEMMA RoundsExist ==
    ASSUME NEW first, NEW source, NEW exclude, NEW N \in Nat
    PROVE  \E f : Rounds(f, first, source, exclude, N)
<1> DEFINE P == {n \in Nat : \E f : Rounds(f, first, source, exclude, n)}
<1>1. 0 \in P
  <2> DEFINE g == [k \in 0..0 |-> first]
  <2>1. g = [k \in 0..0 |-> g[k]] /\ g[0] = first /\ 1..0 = {}
    OBVIOUS
  <2> HIDE DEF g
  <2>2. Rounds(g, first, source, exclude, 0)
    BY <2>1 DEF Rounds
  <2> QED
    BY <2>2
<1>2. ASSUME NEW n \in Nat, n \in P PROVE n + 1 \in P
  <2>1. PICK f : Rounds(f, first, source, exclude, n)
    BY <1>2
  <2> DEFINE last == Visit(f[n], source, exclude)
             g == [k \in 0..(n + 1) |-> IF k = n + 1 THEN last ELSE f[k]]
  <2>2. g = [k \in 0..(n + 1) |-> g[k]] /\ g[n + 1] = last /\ \A k \in 0..n : g[k] = f[k]
    <3> HIDE DEF last
    <3> QED
      OBVIOUS
  <2> HIDE DEF g
  <2>3. g[0] = first
    BY <2>1, <2>2 DEF Rounds
  <2>4. ASSUME NEW k \in 1..(n + 1) PROVE g[k] = Visit(g[k - 1], source, exclude)
    <3>1. k - 1 \in 0..n /\ g[k - 1] = f[k - 1]
      BY <2>2
    <3>2. CASE k = n + 1
      <4>1. k - 1 = n
        BY <3>2
      <4> QED
        BY <2>2, <3>1, <3>2, <4>1
    <3>3. CASE k # n + 1
      <4>1. k \in 1..n /\ k \in 0..n
        BY <3>3
      <4> QED
        BY <2>1, <2>2, <3>1, <4>1 DEF Rounds
    <3> QED
      BY <3>2, <3>3
  <2>5. Rounds(g, first, source, exclude, n + 1)
    BY <2>2, <2>3, <2>4 DEF Rounds
  <2> QED
    BY <2>5
<1>3. Nat \subseteq P
  <2> HIDE DEF P
  <2> QED
    BY <1>1, <1>2, NatClosure
<1> QED
  BY <1>3

\* No label is more hops from the payee than there are nodes.
LEMMA SearchChained ==
    ASSUME NEW source \in Node, NEW dest \in Node, NEW amount \in Nat, NEW height, NEW exclude
    PROVE  LET N == Cardinality(Node)
           IN /\ N \in Nat
              /\ \E V : Chained(Search(source, dest, amount, height, exclude), V, source, dest, amount, N)
<1> DEFINE N == Cardinality(Node)
           start == Label(0, amount, height + MinFinalCltv, 0, {})
           first == [visited |-> {}, labels |-> [m \in {dest} |-> start]]
           Is(f) == f = [n \in 0..N |-> IF n = 0 THEN first ELSE Visit(f[n - 1], source, exclude)]
           round == CHOOSE f : Is(f)
<1>0. N \in Nat
  BY RouterConstants, FS_CardinalityType
<1>1. \E f : Is(f)
  <2> HIDE DEF first, N
  <2>1. PICK f : Rounds(f, first, source, exclude, N)
    BY <1>0, RoundsExist
  <2>2. \A k \in 0..N : f[k] = IF k = 0 THEN first ELSE Visit(f[k - 1], source, exclude)
    <3>1. \A k \in 0..N : k = 0 \/ k \in 1..N
      BY <1>0
    <3> QED
      BY <2>1, <3>1 DEF Rounds
  <2>3. f = [k \in 0..N |-> f[k]]
    BY <2>1 DEF Rounds
  <2>4. Is(f)
    BY <2>2, <2>3
  <2> QED
    BY <2>4
<1>2. Is(round)
  BY <1>1
<1>3. Search(source, dest, amount, height, exclude) = round[N].labels
  BY DEF Search
<1>4. start.amount = amount /\ start.hops = 0 /\ start.dist = 0
  BY DEF Label
<1>5. Chained(first.labels, first.visited, source, dest, amount, 0)
  <2>1. first.visited = {} /\ DOMAIN first.labels = {dest} /\ first.labels[dest] = start
    <3> HIDE DEF start
    <3> QED
      OBVIOUS
  <2> HIDE DEF first, start
  <2>2. Reached(first.labels, source, dest, amount, 0)
    BY <1>4, <2>1 DEF Reached
  <2> QED
    BY <2>1, <2>2 DEF Chained
<1> HIDE DEF round, first, N
<1>6. \A n \in 0..N : round[n] = IF n = 0 THEN first ELSE Visit(round[n - 1], source, exclude)
  BY <1>2
<1> DEFINE P == {n \in Nat : n <= N => Chained(round[n].labels, round[n].visited, source, dest, amount, n)}
<1>7. 0 \in P
  <2>1. round[0] = first
    BY <1>0, <1>6
  <2> QED
    BY <1>5, <2>1
<1>8. ASSUME NEW n \in Nat, n \in P PROVE n + 1 \in P
  <2> SUFFICES ASSUME n + 1 <= N
               PROVE  Chained(round[n + 1].labels, round[n + 1].visited, source, dest, amount, n + 1)
    OBVIOUS
  <2>1. n + 1 \in 0..N /\ n + 1 # 0 /\ (n + 1) - 1 = n /\ n <= N
    BY <1>0
  <2>2. round[n + 1] = Visit(round[n], source, exclude)
    BY <1>6, <2>1
  <2>3. Chained(round[n].labels, round[n].visited, source, dest, amount, n)
    BY <1>8, <2>1
  <2> QED
    BY <2>2, <2>3, VisitChained
<1>9. N \in P
  <2> HIDE DEF P
  <2>1. Nat \subseteq P
    BY <1>7, <1>8, NatClosure
  <2> QED
    BY <1>0, <2>1
<1> QED
  BY <1>0, <1>3, <1>9 DEF N

\* The way along the labels, up to any number of further hops.
NextHop(p, labels) == Hop(labels[Last(p).to].next, labels)

\* The hops of a route, as findRoute puts them together.
Ways(f, first, labels, dest, n) ==
    /\ f = [k \in 0..n |-> f[k]]
    /\ f[0] = first
    /\ \A k \in 1..n : f[k] = IF Last(f[k - 1]).to = dest THEN f[k - 1]
                              ELSE Append(f[k - 1], NextHop(f[k - 1], labels))

LEMMA WaysExist ==
    ASSUME NEW first, NEW labels, NEW dest, NEW N \in Nat
    PROVE  \E f : Ways(f, first, labels, dest, N)
<1> DEFINE More(p) == IF Last(p).to = dest THEN p ELSE Append(p, NextHop(p, labels))
           P == {n \in Nat : \E f : Ways(f, first, labels, dest, n)}
<1>1. 0 \in P
  <2> DEFINE g == [k \in 0..0 |-> first]
  <2>1. g = [k \in 0..0 |-> g[k]] /\ g[0] = first /\ 1..0 = {}
    OBVIOUS
  <2> HIDE DEF g
  <2>2. Ways(g, first, labels, dest, 0)
    BY <2>1 DEF Ways
  <2> QED
    BY <2>2
<1>2. ASSUME NEW n \in Nat, n \in P PROVE n + 1 \in P
  <2>1. PICK f : Ways(f, first, labels, dest, n)
    BY <1>2
  <2>1a. f[0] = first /\ \A k \in 1..n : f[k] = More(f[k - 1])
    BY <2>1 DEF Ways
  <2> DEFINE last == More(f[n])
             g == [k \in 0..(n + 1) |-> IF k = n + 1 THEN last ELSE f[k]]
  <2>2. g = [k \in 0..(n + 1) |-> g[k]] /\ g[n + 1] = last /\ \A k \in 0..n : g[k] = f[k]
    <3> HIDE DEF last
    <3> QED
      OBVIOUS
  <2> HIDE DEF g
  <2>3. g[0] = first
    <3>1. 0 \in 0..n
      OBVIOUS
    <3> HIDE DEF More
    <3> QED
      BY <2>1a, <2>2, <3>1
  <2> HIDE DEF More
  <2>4. ASSUME NEW k \in 1..(n + 1) PROVE g[k] = More(g[k - 1])
    <3>1. k - 1 \in 0..n /\ g[k - 1] = f[k - 1]
      BY <2>2
    <3>2. CASE k = n + 1
      <4>1. k - 1 = n
        BY <3>2
      <4> QED
        BY <2>2, <3>1, <3>2, <4>1
    <3>3. CASE k # n + 1
      <4>1. k \in 1..n /\ k \in 0..n
        BY <3>3
      <4> QED
        BY <2>1a, <2>2, <3>1, <4>1
    <3> QED
      BY <3>2, <3>3
  <2>5. Ways(g, first, labels, dest, n + 1)
    BY <2>2, <2>3, <2>4 DEF Ways, More
  <2> QED
    BY <2>5
<1>3. Nat \subseteq P
  <2> HIDE DEF P
  <2> QED
    BY <1>1, <1>2, NatClosure
<1> QED
  BY <1>3

\* A channel between two nodes.
Joins(ch, u, v) ==
    \/ u = Ends[ch].a /\ v = Ends[ch].b
    \/ u = Ends[ch].b /\ v = Ends[ch].a

LEMMA EdgeJoins == \A e \in Edge : Joins(e.chan, e.from, e.to)
<1> SUFFICES ASSUME NEW e \in Edge PROVE Joins(e.chan, e.from, e.to)
  OBVIOUS
<1>1. PICK ch \in Chan : \/ e = [chan |-> ch, from |-> Ends[ch].a, to |-> Ends[ch].b]
                         \/ e = [chan |-> ch, from |-> Ends[ch].b, to |-> Ends[ch].a]
  BY DEF Edge
<1> QED
  BY <1>1 DEF Joins

\* A hop of a route: over a channel, from one of its ends to the other.
HopShape(h) ==
    /\ h.chan \in Chan /\ h.from \in Node /\ h.to \in Node
    /\ Joins(h.chan, h.from, h.to) /\ h.amount \in Nat

\* The hops taken so far from the sender, each one nearer to the payee.
Walk(p, labels, source, dest) ==
    LET H == labels[source].hops
    IN /\ Listing(p) /\ Len(p) \in Nat \ {0} /\ p[1].from = source
       /\ \A i \in 1..Len(p) :
             /\ HopShape(p[i]) /\ p[i].from \in DOMAIN labels \ {dest} /\ p[i].to \in DOMAIN labels
             /\ p[i].amount = labels[p[i].to].amount
             /\ labels[p[i].from].hops = H - i + 1 /\ labels[p[i].to].hops = H - i
             /\ labels[p[i].from].amount =
                  labels[p[i].to].amount + FeeAlong(labels[p[i].from].next, source, labels[p[i].to].amount)
             /\ labels[p[i].from].next.from = p[i].from
       /\ \A i \in 1..(Len(p) - 1) : p[i].to = p[i + 1].from

\* A hop along a label goes one nearer.
LEMMA HopOn ==
    ASSUME NEW labels, NEW V, NEW source, NEW dest, NEW amount, NEW k \in Nat,
           Chained(labels, V, source, dest, amount, k), NEW n \in DOMAIN labels \ {dest}
    PROVE  LET h == Hop(labels[n].next, labels)
           IN /\ HopShape(h) /\ h.from = n /\ h.to \in DOMAIN labels
              /\ h.amount = labels[h.to].amount
              /\ labels[h.to].hops \in Nat /\ labels[n].hops = labels[h.to].hops + 1
              /\ labels[n].amount = labels[h.to].amount + FeeAlong(labels[n].next, source, labels[h.to].amount)
              /\ labels[n].next.from = n
<1> DEFINE e == labels[n].next
           h == Hop(e, labels)
<1>1. /\ e \in Edge /\ e.from = n /\ e.to \in DOMAIN labels
      /\ labels[n].hops = labels[e.to].hops + 1
      /\ labels[n].amount = labels[e.to].amount + FeeAlong(e, source, labels[e.to].amount)
  BY DEF Chained, WayOn
<1>2. labels[e.to].amount \in Nat /\ labels[e.to].hops \in Nat
  BY <1>1 DEF Chained, Reached
<1>3. h = [chan |-> e.chan, from |-> e.from, to |-> e.to, amount |-> labels[e.to].amount,
           fee |-> labels[e.from].amount - labels[e.to].amount, cltv |-> labels[e.to].cltv]
  BY DEF Hop
<1>4. e.chan \in Chan /\ e.from \in Node /\ e.to \in Node /\ Joins(e.chan, e.from, e.to)
  BY <1>1, EdgeEnds, EdgeJoins
<1> HIDE DEF e, h
<1>5. h.chan = e.chan /\ h.from = e.from /\ h.to = e.to /\ h.amount = labels[e.to].amount
  BY <1>3
<1>6. HopShape(h)
  BY <1>2, <1>4, <1>5 DEF HopShape
<1> QED
  BY <1>1, <1>2, <1>5, <1>6 DEF e, h

\* One hop more is one nearer to the payee,
LEMMA WalkOn ==
    ASSUME NEW labels, NEW V, NEW source, NEW dest, NEW amount, NEW k \in Nat,
           Chained(labels, V, source, dest, amount, k),
           source \in DOMAIN labels, NEW p, Walk(p, labels, source, dest), Last(p).to # dest
    PROVE  LET q == Append(p, NextHop(p, labels))
           IN Walk(q, labels, source, dest) /\ Len(q) = Len(p) + 1
<1> DEFINE n == Last(p).to
           h == NextHop(p, labels)
           q == Append(p, h)
           L == Len(p)
           H == labels[source].hops
<1>1. Listing(p) /\ L \in Nat \ {0} /\ p[1].from = source
  BY DEF Walk
<1>2. Last(p) = p[L]
  BY DEF Last
<1>3. n \in DOMAIN labels \ {dest} /\ labels[n].hops = H - L
  BY <1>1, <1>2 DEF Walk
<1>4. /\ HopShape(h) /\ h.from = n /\ h.to \in DOMAIN labels
      /\ h.amount = labels[h.to].amount
      /\ labels[h.to].hops \in Nat /\ labels[n].hops = labels[h.to].hops + 1
      /\ labels[n].amount = labels[h.to].amount + FeeAlong(labels[n].next, source, labels[h.to].amount)
      /\ labels[n].next.from = n
  <2> HIDE DEF n
  <2>1. h = Hop(labels[n].next, labels)
    BY DEF NextHop, n
  <2> HIDE DEF h
  <2> QED
    BY <1>3, <2>1, HopOn
<1> HIDE DEF h, n
<1>5. /\ Listing(q) /\ q[L + 1] = h /\ DOMAIN p = 1..L /\ DOMAIN q = 1..(L + 1)
      /\ \A i \in 1..L : q[i] = p[i]
  BY <1>1, ListingAppend, ListingFacts
<1> HIDE DEF q
<1>6. Len(q) = L + 1 /\ Len(q) \in Nat \ {0}
  <2>1. Len(q) \in Nat /\ DOMAIN q = 1..Len(q)
    BY <1>5, ListingFacts
  <2> QED
    BY <1>1, <1>5, <2>1
<1>7. q[1].from = source
  BY <1>1, <1>5
<1>8. H \in Nat
  BY DEF Chained, Reached
<1>9. ASSUME NEW i \in 1..Len(q)
      PROVE  /\ HopShape(q[i]) /\ q[i].from \in DOMAIN labels \ {dest} /\ q[i].to \in DOMAIN labels
             /\ q[i].amount = labels[q[i].to].amount
             /\ labels[q[i].from].hops = H - i + 1 /\ labels[q[i].to].hops = H - i
             /\ labels[q[i].from].amount =
                  labels[q[i].to].amount + FeeAlong(labels[q[i].from].next, source, labels[q[i].to].amount)
             /\ labels[q[i].from].next.from = q[i].from
  <2>1. CASE i = L + 1
    <3>1. labels[h.to].hops = H - i /\ labels[n].hops = H - i + 1
      BY <1>1, <1>3, <1>4, <1>8, <2>1
    <3> QED
      BY <1>3, <1>4, <1>5, <2>1, <3>1
  <2>2. CASE i # L + 1
    <3>1. i \in 1..L /\ q[i] = p[i]
      BY <1>1, <1>5, <1>6, <2>2
    <3> QED
      BY <3>1 DEF Walk
  <2> QED
    BY <2>1, <2>2
<1>10. ASSUME NEW i \in 1..(Len(q) - 1) PROVE q[i].to = q[i + 1].from
  <2>1. CASE i = L
    BY <1>1, <1>2, <1>4, <1>5, <2>1 DEF n
  <2>2. CASE i # L
    <3>1. i \in 1..(L - 1) /\ i \in 1..L /\ i + 1 \in 1..L
      BY <1>1, <1>6, <2>2
    <3> QED
      BY <1>5, <3>1 DEF Walk
  <2> QED
    BY <2>1, <2>2
<1>11. Walk(q, labels, source, dest)
  BY <1>5, <1>6, <1>7, <1>9, <1>10 DEF Walk
<1> QED
  BY <1>6, <1>11 DEF q, h

\* A route.
RouteShape(r, source, dest, amount) ==
    /\ Listing(r.hops) /\ Len(r.hops) \in Nat \ {0}
    /\ r.hops[1].from = source /\ r.hops[Len(r.hops)].to = dest
    /\ \A i \in 1..Len(r.hops) : HopShape(r.hops[i]) /\ r.hops[i].from # dest
    /\ \A i \in 1..(Len(r.hops) - 1) : r.hops[i].to = r.hops[i + 1].from
    /\ \A i, j \in 1..Len(r.hops) : i # j => r.hops[i].from # r.hops[j].from
    /\ r.hops[Len(r.hops)].amount = amount /\ r.total = r.hops[1].amount

\* and once there, the hops are a route.
LEMMA WalkDone ==
    ASSUME NEW labels, NEW V, NEW source, NEW dest, NEW amount, NEW k \in Nat,
           Chained(labels, V, source, dest, amount, k),
           source \in DOMAIN labels, NEW p, Walk(p, labels, source, dest), Last(p).to = dest,
           NEW r, r.hops = p, r.total = labels[source].amount
    PROVE  RouteShape(r, source, dest, amount)
<1> DEFINE L == Len(p)
           H == labels[source].hops
<1>1. Listing(p) /\ L \in Nat \ {0} /\ p[1].from = source /\ H \in Nat
  BY DEF Walk, Chained, Reached
<1>2. p[L].to = dest
  BY DEF Last
<1>3. \A i, j \in 1..L : i # j => p[i].from # p[j].from
  <2>1. \A i \in 1..L : labels[p[i].from].hops = H - i + 1
    BY DEF Walk
  <2> HIDE DEF H
  <2> SUFFICES ASSUME NEW i \in 1..L, NEW j \in 1..L, p[i].from = p[j].from PROVE i = j
    OBVIOUS
  <2>2. H - i + 1 = H - j + 1
    BY <2>1
  <2> QED
    BY <1>1, <2>2
<1>4. p[L].amount = amount
  <2>1. L \in 1..L
    BY <1>1
  <2>2. p[L].amount = labels[dest].amount
    BY <1>2, <2>1 DEF Walk
  <2> QED
    BY <2>2 DEF Chained, Reached
<1>5. r.total = p[1].amount
  <2>1. 1 \in 1..L
    BY <1>1
  <2> DEFINE e == labels[source].next
  <2>2. /\ labels[source].amount = labels[p[1].to].amount + FeeAlong(e, source, labels[p[1].to].amount)
        /\ e.from = source /\ p[1].amount = labels[p[1].to].amount /\ p[1].amount \in Nat
    BY <1>1, <2>1 DEF Walk, HopShape
  <2> HIDE DEF e
  <2>3. FeeAlong(e, source, labels[p[1].to].amount) = 0
    BY <2>2 DEF FeeAlong
  <2> QED
    BY <2>2, <2>3
<1>6. /\ \A i \in 1..L : HopShape(p[i]) /\ p[i].from # dest
      /\ \A i \in 1..(L - 1) : p[i].to = p[i + 1].from
  BY DEF Walk
<1> QED
  BY <1>1, <1>2, <1>3, <1>4, <1>5, <1>6 DEF RouteShape

\* A route that is found is a path from the sender to the payee, which receives the amount.
LEMMA FoundRoute ==
    ASSUME NEW source \in Node, NEW dest \in Node, NEW amount \in Nat \ {0}, NEW height, NEW exclude,
           FindRoute(source, dest, amount, height, exclude) # NoRoute
    PROVE  RouteShape(FindRoute(source, dest, amount, height, exclude), source, dest, amount)
<1> DEFINE N == Cardinality(Node)
           labels == Search(source, dest, amount, height, exclude)
           first == <<Hop(labels[source].next, labels)>>
           Is(f) == f = [n \in 0..N |-> IF n = 0 THEN first
                                        ELSE IF Last(f[n - 1]).to = dest THEN f[n - 1]
                                        ELSE Append(f[n - 1], Hop(labels[Last(f[n - 1]).to].next, labels))]
           path == CHOOSE f : Is(f)
           r == FindRoute(source, dest, amount, height, exclude)
<1>1. N \in Nat /\ \E V : Chained(labels, V, source, dest, amount, N)
  BY SearchChained
<1> HIDE DEF N, labels
<1>2. PICK V : Chained(labels, V, source, dest, amount, N)
  BY <1>1
<1>3. /\ source # dest /\ source \in DOMAIN labels
      /\ r = [hops |-> path[N], total |-> labels[source].amount, cltv |-> path[N][1].cltv]
  BY DEF FindRoute, labels, N
<1> HIDE DEF r
<1>4. \E f : Is(f)
  <2> HIDE DEF first
  <2>1. PICK f : Ways(f, first, labels, dest, N)
    BY <1>1, WaysExist
  <2>2. \A n \in 0..N : f[n] = IF n = 0 THEN first
                               ELSE IF Last(f[n - 1]).to = dest THEN f[n - 1]
                               ELSE Append(f[n - 1], Hop(labels[Last(f[n - 1]).to].next, labels))
    <3>1. \A n \in 0..N : n = 0 \/ n \in 1..N
      BY <1>1
    <3> QED
      BY <2>1, <3>1 DEF Ways, NextHop
  <2>3. f = [n \in 0..N |-> f[n]]
    BY <2>1 DEF Ways
  <2>4. Is(f)
    BY <2>2, <2>3
  <2> QED
    BY <2>4
<1>5. Is(path)
  BY <1>4
<1> HIDE DEF path
<1>6. \A n \in 0..N : path[n] = IF n = 0 THEN first
                                ELSE IF Last(path[n - 1]).to = dest THEN path[n - 1]
                                ELSE Append(path[n - 1], NextHop(path[n - 1], labels))
  BY <1>5 DEF NextHop
<1> DEFINE P == {n \in Nat : n <= N => /\ Walk(path[n], labels, source, dest)
                                       /\ Last(path[n]).to = dest \/ Len(path[n]) = n + 1}
<1>7. 0 \in P
  <2> DEFINE h == Hop(labels[source].next, labels)
             p == <<h>>
  <2>1. path[0] = p
    BY <1>1, <1>6
  <2>2. /\ HopShape(h) /\ h.from = source /\ h.to \in DOMAIN labels
        /\ h.amount = labels[h.to].amount
        /\ labels[h.to].hops \in Nat /\ labels[source].hops = labels[h.to].hops + 1
        /\ labels[source].amount =
             labels[h.to].amount + FeeAlong(labels[source].next, source, labels[h.to].amount)
        /\ labels[source].next.from = source
    BY <1>1, <1>2, <1>3, HopOn
  <2> HIDE DEF h
  <2>3. Len(p) = 1 /\ p[1] = h /\ Listing(p) /\ 1..1 = {1} /\ 1..0 = {}
    <3>1. p \in Seq({h})
      OBVIOUS
    <3>2. Listing(p)
      BY <3>1, ListingOf
    <3> QED
      BY <3>2
  <2> HIDE DEF p
  <2>4. Walk(p, labels, source, dest)
    <3>1. ASSUME NEW i \in 1..Len(p)
          PROVE  /\ HopShape(p[i]) /\ p[i].from \in DOMAIN labels \ {dest} /\ p[i].to \in DOMAIN labels
                 /\ p[i].amount = labels[p[i].to].amount
                 /\ labels[p[i].from].hops = labels[source].hops - i + 1
                 /\ labels[p[i].to].hops = labels[source].hops - i
                 /\ labels[p[i].from].amount =
                      labels[p[i].to].amount + FeeAlong(labels[p[i].from].next, source, labels[p[i].to].amount)
                 /\ labels[p[i].from].next.from = p[i].from
      <4>1. i = 1 /\ p[i] = h
        BY <2>3
      <4> QED
        BY <1>3, <2>2, <4>1
    <3> QED
      BY <2>2, <2>3, <3>1 DEF Walk
  <2> QED
    BY <2>1, <2>3, <2>4
<1>8. ASSUME NEW n \in Nat, n \in P PROVE n + 1 \in P
  <2> SUFFICES ASSUME n + 1 <= N
               PROVE  /\ Walk(path[n + 1], labels, source, dest)
                      /\ Last(path[n + 1]).to = dest \/ Len(path[n + 1]) = (n + 1) + 1
    OBVIOUS
  <2>1. n + 1 \in 0..N /\ n + 1 # 0 /\ (n + 1) - 1 = n /\ n <= N
    BY <1>1
  <2>2. path[n + 1] = IF Last(path[n]).to = dest THEN path[n]
                      ELSE Append(path[n], NextHop(path[n], labels))
    BY <1>6, <2>1
  <2>3. Walk(path[n], labels, source, dest) /\ (Last(path[n]).to = dest \/ Len(path[n]) = n + 1)
    BY <1>8, <2>1
  <2>4. CASE Last(path[n]).to = dest
    BY <2>2, <2>3, <2>4
  <2>5. CASE Last(path[n]).to # dest
    BY <1>1, <1>2, <1>3, <2>2, <2>3, <2>5, WalkOn
  <2> QED
    BY <2>4, <2>5
<1>9. N \in P
  <2> HIDE DEF P
  <2>1. Nat \subseteq P
    BY <1>7, <1>8, NatClosure
  <2> QED
    BY <1>1, <2>1
<1> DEFINE p == path[N]
<1>10. Walk(p, labels, source, dest) /\ (Last(p).to = dest \/ Len(p) = N + 1)
  BY <1>1, <1>9
<1> HIDE DEF P, p
<1>11. Last(p).to = dest
  <2> SUFFICES ASSUME Len(p) = N + 1 PROVE FALSE
    BY <1>10
  <2>1. N + 1 \in 1..Len(p)
    BY <1>1
  <2>2. p[N + 1].to \in DOMAIN labels /\ labels[p[N + 1].to].hops = labels[source].hops - (N + 1)
    BY <1>10, <2>1 DEF Walk
  <2>3. labels[p[N + 1].to].hops \in Nat /\ labels[source].hops \in 0..N
    BY <1>2, <1>3, <2>2 DEF Chained, Reached
  <2> QED
    BY <1>1, <2>2, <2>3
<1>12. r.hops = p /\ r.total = labels[source].amount
  BY <1>3 DEF p
<1>13. RouteShape(r, source, dest, amount)
  BY <1>1, <1>2, <1>3, <1>10, <1>11, <1>12, WalkDone
<1> QED
  BY <1>13 DEF r

\* What a call sends along is such a route.
LEMMA RouteForShape ==
    ASSUME NEW j, j.from \in Node, j.inv \in Invoice, NEW amount \in Nat \ {0},
           RouteFor(j, amount) # NoRoute
    PROVE  RouteShape(RouteFor(j, amount), j.from, j.inv.payee, amount)
BY PaymentConstants, FoundRoute DEF RouteFor

----------------------------------------------------------------------------
(***************************************************************************)
(* HTLCs, and what a set of them takes from a node and brings it.          *)
(***************************************************************************)
Htlc == [chan : Chan, side : Side, amount : Nat, inv : Invoice, try : Nat]

LEMMA AmountsNone == Amounts({}) = 0
<1>1. Amounts({}) = SumFunctionOnSet([h \in {} |-> h.amount], {})
  BY DEF Amounts
<1> QED
  BY <1>1, SumNone

LEMMA AmountsNat ==
    ASSUME NEW S \in SUBSET Htlc, IsFiniteSet(S)
    PROVE  Amounts(S) \in Nat
<1> DEFINE f == [h \in S |-> h.amount]
<1>1. NatOn(f, S)
  BY DEF NatOn, Htlc
<1>2. SumFunctionOnSet(f, S) \in Nat
  <2> HIDE DEF f
  <2> QED
    BY <1>1, SumNat
<1> QED
  BY <1>2 DEF Amounts

LEMMA AmountsSplit ==
    ASSUME NEW S \in SUBSET Htlc, NEW T \in SUBSET Htlc, IsFiniteSet(S), IsFiniteSet(T), S \cap T = {}
    PROVE  Amounts(S \cup T) = Amounts(S) + Amounts(T)
<1> DEFINE f == [h \in S |-> h.amount]
           g == [h \in T |-> h.amount]
           k == [h \in S \cup T |-> h.amount]
<1>1. NatOn(f, S) /\ NatOn(g, T) /\ NatOn(k, S \cup T)
  BY DEF NatOn, Htlc
<1>2. AgreeOn(f, k, S) /\ AgreeOn(g, k, T)
  BY DEF AgreeOn
<1> HIDE DEF f, g, k
<1>3. SumFunctionOnSet(k, S \cup T) = SumFunctionOnSet(k, S) + SumFunctionOnSet(k, T)
  BY <1>1, SumSplit
<1>4. SumFunctionOnSet(f, S) = SumFunctionOnSet(k, S) /\ SumFunctionOnSet(g, T) = SumFunctionOnSet(k, T)
  BY <1>1, <1>2, SumAgree
<1> QED
  BY <1>3, <1>4 DEF Amounts, f, g, k

LEMMA AmountsOne ==
    ASSUME NEW h \in Htlc
    PROVE  Amounts({h}) = h.amount
<1> DEFINE f == [x \in {h} |-> x.amount]
<1>1. NatOn(f, {} \cup {h}) /\ f[h] = h.amount /\ h.amount \in Nat /\ {} \cup {h} = {h}
  BY DEF NatOn, Htlc
<1> HIDE DEF f
<1>2. SumFunctionOnSet(f, {} \cup {h}) = SumFunctionOnSet(f, {}) + f[h]
  BY <1>1, SumMore, FS_EmptySet
<1>3. SumFunctionOnSet(f, {}) = 0
  BY SumNone
<1> QED
  BY <1>1, <1>2, <1>3 DEF Amounts, f

LEMMA AmountsMore ==
    ASSUME NEW S \in SUBSET Htlc, IsFiniteSet(S), NEW h \in Htlc, h \notin S
    PROVE  Amounts(S \cup {h}) = Amounts(S) + h.amount
<1>1. {h} \in SUBSET Htlc /\ IsFiniteSet({h}) /\ S \cap {h} = {}
  BY FS_Singleton
<1> QED
  BY <1>1, AmountsSplit, AmountsOne

\* Who pays an HTLC, and whom.
EndOf(ch, s) == IF s = "a" THEN Ends[ch].a ELSE Ends[ch].b
\* Who pays an HTLC, who is paid by it, and how much a node pays and is paid by a set of them.
PaidBy(h) == EndOf(h.chan, h.side)
PaidTo(h) == EndOf(h.chan, Other(h.side))

Takes(n, S) == Amounts({h \in S : PaidBy(h) = n})
Brings(n, S) == Amounts({h \in S : PaidTo(h) = n})

\* The two ends of a channel are two nodes.
LEMMA EndsApart ==
    ASSUME NEW ch \in Chan, NEW s \in Side
    PROVE  /\ EndOf(ch, s) \in Node /\ EndOf(ch, Other(s)) \in Node /\ EndOf(ch, s) # EndOf(ch, Other(s))
           /\ Other(s) \in Side /\ Other(s) # s /\ Other(Other(s)) = s
           /\ SideOf(ch, EndOf(ch, s)) = s
           /\ \A n \in Node : n \in {Ends[ch].a, Ends[ch].b} <=> n \in {EndOf(ch, s), EndOf(ch, Other(s))}
<1>1. Ends[ch].a \in Node /\ Ends[ch].b \in Node /\ Ends[ch].a # Ends[ch].b
  BY RouterConstants
<1>2. s = "a" \/ s = "b"
  BY DEF Side
<1> QED
  BY <1>1, <1>2 DEF EndOf, Other, SideOf, Side

LEMMA FlowNone == \A n : Takes(n, {}) = 0 /\ Brings(n, {}) = 0
<1> SUFFICES ASSUME NEW n PROVE Takes(n, {}) = 0 /\ Brings(n, {}) = 0
  OBVIOUS
<1>1. {h \in {} : PaidBy(h) = n} = {} /\ {h \in {} : PaidTo(h) = n} = {}
  OBVIOUS
<1> QED
  BY <1>1, AmountsNone DEF Takes, Brings

LEMMA FlowSplit ==
    ASSUME NEW n, NEW S \in SUBSET Htlc, NEW T \in SUBSET Htlc, IsFiniteSet(S), IsFiniteSet(T),
           S \cap T = {}
    PROVE  /\ Takes(n, S \cup T) = Takes(n, S) + Takes(n, T)
           /\ Brings(n, S \cup T) = Brings(n, S) + Brings(n, T)
           /\ Takes(n, S) \in Nat /\ Brings(n, S) \in Nat
           /\ Takes(n, T) \in Nat /\ Brings(n, T) \in Nat
<1> DEFINE by(R) == {h \in R : PaidBy(h) = n}
           to(R) == {h \in R : PaidTo(h) = n}
<1>1. \A R : by(R) \subseteq R /\ to(R) \subseteq R
  OBVIOUS
<1>2. by(S \cup T) = by(S) \cup by(T) /\ to(S \cup T) = to(S) \cup to(T)
  OBVIOUS
<1>3. Takes(n, S \cup T) = Amounts(by(S \cup T)) /\ Brings(n, S \cup T) = Amounts(to(S \cup T))
  BY DEF Takes, Brings
<1>4. /\ Takes(n, S) = Amounts(by(S)) /\ Brings(n, S) = Amounts(to(S))
      /\ Takes(n, T) = Amounts(by(T)) /\ Brings(n, T) = Amounts(to(T))
  BY DEF Takes, Brings
<1> HIDE DEF by, to
<1>5. /\ IsFiniteSet(by(S)) /\ IsFiniteSet(by(T)) /\ IsFiniteSet(to(S)) /\ IsFiniteSet(to(T))
      /\ by(S) \in SUBSET Htlc /\ by(T) \in SUBSET Htlc /\ to(S) \in SUBSET Htlc /\ to(T) \in SUBSET Htlc
      /\ by(S) \cap by(T) = {} /\ to(S) \cap to(T) = {}
  <2>1. by(S) \subseteq S /\ by(T) \subseteq T /\ to(S) \subseteq S /\ to(T) \subseteq T
    BY <1>1
  <2>2. IsFiniteSet(by(S)) /\ IsFiniteSet(to(S))
    BY <2>1, FS_Subset
  <2>3. IsFiniteSet(by(T)) /\ IsFiniteSet(to(T))
    BY <2>1, FS_Subset
  <2> QED
    BY <2>1, <2>2, <2>3
<1>6. Amounts(by(S) \cup by(T)) = Amounts(by(S)) + Amounts(by(T))
  BY <1>5, AmountsSplit
<1>7. Amounts(to(S) \cup to(T)) = Amounts(to(S)) + Amounts(to(T))
  BY <1>5, AmountsSplit
<1>8. /\ Amounts(by(S)) \in Nat /\ Amounts(by(T)) \in Nat
      /\ Amounts(to(S)) \in Nat /\ Amounts(to(T)) \in Nat
  BY <1>5, AmountsNat
<1> QED
  BY <1>2, <1>3, <1>4, <1>6, <1>7, <1>8

LEMMA FlowOne ==
    ASSUME NEW n, NEW h \in Htlc
    PROVE  /\ Takes(n, {h}) = IF PaidBy(h) = n THEN h.amount ELSE 0
           /\ Brings(n, {h}) = IF PaidTo(h) = n THEN h.amount ELSE 0
<1>1. {x \in {h} : PaidBy(x) = n} = IF PaidBy(h) = n THEN {h} ELSE {}
  OBVIOUS
<1>2. {x \in {h} : PaidTo(x) = n} = IF PaidTo(h) = n THEN {h} ELSE {}
  OBVIOUS
<1> QED
  BY <1>1, <1>2, AmountsNone, AmountsOne DEF Takes, Brings

LEMMA FlowMore ==
    ASSUME NEW n, NEW S \in SUBSET Htlc, IsFiniteSet(S), NEW h \in Htlc, h \notin S
    PROVE  /\ Takes(n, S \cup {h}) = Takes(n, S) + (IF PaidBy(h) = n THEN h.amount ELSE 0)
           /\ Brings(n, S \cup {h}) = Brings(n, S) + (IF PaidTo(h) = n THEN h.amount ELSE 0)
           /\ Takes(n, S) \in Nat /\ Brings(n, S) \in Nat
<1>1. {h} \in SUBSET Htlc /\ IsFiniteSet({h}) /\ S \cap {h} = {}
  BY FS_Singleton
<1> QED
  BY <1>1, FlowSplit, FlowOne

----------------------------------------------------------------------------
(***************************************************************************)
(* Money moves over one channel, and the sum of what nodes own stays.      *)
(***************************************************************************)
Balances == [Chan -> [Side -> Nat]]
OwnOf(n) == {ch \in Chan : n \in {Ends[ch].a, Ends[ch].b}}
WealthIn(bal, n) == SumFunctionOnSet([ch \in OwnOf(n) |-> bal[ch][SideOf(ch, n)]], OwnOf(n))

LEMMA WealthIs == Wealth = [n \in Node |-> WealthIn(balance, n)]
BY DEF Wealth, WealthIn, OwnOf

LEMMA WealthTypes ==
    ASSUME NEW bal \in Balances, NEW n \in Node
    PROVE  WealthIn(bal, n) \in Nat
<1> DEFINE own == OwnOf(n)
           f == [ch \in own |-> bal[ch][SideOf(ch, n)]]
<1>1. IsFiniteSet(own) /\ own \subseteq Chan
  <2>1. own \subseteq Chan
    BY DEF OwnOf
  <2> QED
    BY <2>1, RouterConstants, FS_Subset
<1>2. NatOn(f, own)
  <2>1. \A ch \in own : bal[ch][SideOf(ch, n)] \in Nat
    BY <1>1 DEF Balances, Side, SideOf
  <2> QED
    BY <2>1 DEF NatOn
<1>3. SumFunctionOnSet(f, own) \in Nat
  <2> HIDE DEF f, own
  <2> QED
    BY <1>1, <1>2, SumNat
<1> QED
  BY <1>3 DEF WealthIn

\* An amount goes from one end of a channel to the other.
Transferred(bal, ch, s, a) == [bal EXCEPT ![ch][s] = @ - a, ![ch][Other(s)] = @ + a]

LEMMA TransferAt ==
    ASSUME NEW bal \in Balances, NEW ch \in Chan, NEW s \in Side, NEW a \in Nat, a <= bal[ch][s]
    PROVE  LET new == Transferred(bal, ch, s, a)
           IN /\ new \in Balances
              /\ new[ch][s] = bal[ch][s] - a /\ new[ch][Other(s)] = bal[ch][Other(s)] + a
              /\ \A c \in Chan \ {ch} : new[c] = bal[c]
<1> DEFINE o == Other(s)
<1>1. o \in Side /\ o # s /\ o = Other(s)
  BY EndsApart
<1> HIDE DEF o
<1>2. bal[ch][s] \in Nat /\ bal[ch][s] - a \in Nat
  BY DEF Balances
<1>3. Transferred(bal, ch, s, a) \in Balances
  BY <1>1, <1>2 DEF Transferred, Balances
<1>4. Transferred(bal, ch, s, a)[ch][s] = bal[ch][s] - a
  BY <1>1 DEF Transferred, Balances
<1>5. Transferred(bal, ch, s, a)[ch][o] = bal[ch][o] + a
  BY <1>1 DEF Transferred, Balances
<1>6. \A c \in Chan \ {ch} : Transferred(bal, ch, s, a)[c] = bal[c]
  BY <1>1 DEF Transferred, Balances
<1> QED
  BY <1>1, <1>3, <1>4, <1>5, <1>6

\* Only the two ends notice.
LEMMA WealthMoves ==
    ASSUME NEW bal \in Balances, NEW ch \in Chan, NEW s \in Side, NEW a \in Nat, a <= bal[ch][s],
           NEW n \in Node
    PROVE  WealthIn(Transferred(bal, ch, s, a), n) =
             WealthIn(bal, n) - (IF n = EndOf(ch, s) THEN a ELSE 0)
                              + (IF n = EndOf(ch, Other(s)) THEN a ELSE 0)
<1> DEFINE new == Transferred(bal, ch, s, a)
           own == OwnOf(n)
           rest == own \ {ch}
           f == [c \in own |-> bal[c][SideOf(c, n)]]
           g == [c \in own |-> new[c][SideOf(c, n)]]
<1>1. /\ new \in Balances
      /\ new[ch][s] = bal[ch][s] - a /\ new[ch][Other(s)] = bal[ch][Other(s)] + a
      /\ \A c \in Chan \ {ch} : new[c] = bal[c]
  BY TransferAt
<1> HIDE DEF new
<1>2. IsFiniteSet(own) /\ own \subseteq Chan /\ IsFiniteSet(rest) /\ rest \subseteq own /\ ch \notin rest
  <2>1. own \subseteq Chan
    BY DEF OwnOf
  <2> QED
    BY <2>1, RouterConstants, FS_Subset
<1>3. ASSUME NEW c \in own
      PROVE  /\ f[c] = bal[c][SideOf(c, n)] /\ g[c] = new[c][SideOf(c, n)]
             /\ f[c] \in Nat /\ g[c] \in Nat
  BY <1>1, <1>2 DEF Balances, Side, SideOf
<1>4. NatOn(f, own) /\ NatOn(g, own) /\ NatOn(f, rest) /\ NatOn(g, rest) /\ AgreeOn(f, g, rest)
  <2>1. \A c \in rest : new[c] = bal[c]
    BY <1>1, <1>2
  <2> QED
    BY <1>2, <1>3, <2>1 DEF NatOn, AgreeOn
<1>5. WealthIn(new, n) = SumFunctionOnSet(g, own) /\ WealthIn(bal, n) = SumFunctionOnSet(f, own)
  BY DEF WealthIn
<1>6. ch \in own <=> n \in {EndOf(ch, s), EndOf(ch, Other(s))}
  BY EndsApart DEF OwnOf
<1>7. EndOf(ch, s) # EndOf(ch, Other(s)) /\ SideOf(ch, EndOf(ch, s)) = s /\ SideOf(ch, EndOf(ch, Other(s))) = Other(s)
  <2>1. Other(s) \in Side
    BY EndsApart
  <2> QED
    BY <2>1, EndsApart
<1> HIDE DEF f, g
<1>8. SumFunctionOnSet(f, rest) = SumFunctionOnSet(g, rest) /\ SumFunctionOnSet(f, rest) \in Nat
  BY <1>2, <1>4, SumAgree, SumNat
<1>9. CASE ch \in own
  <2>1. rest \cup {ch} = own
    BY <1>9
  <2>2. /\ SumFunctionOnSet(f, own) = SumFunctionOnSet(f, rest) + f[ch]
        /\ SumFunctionOnSet(g, own) = SumFunctionOnSet(g, rest) + g[ch]
    <3>1. NatOn(f, rest \cup {ch}) /\ NatOn(g, rest \cup {ch})
      BY <1>4, <2>1
    <3> HIDE DEF own, rest
    <3>2. SumFunctionOnSet(f, rest \cup {ch}) = SumFunctionOnSet(f, rest) + f[ch]
      BY <1>2, <3>1, SumMore
    <3>3. SumFunctionOnSet(g, rest \cup {ch}) = SumFunctionOnSet(g, rest) + g[ch]
      BY <1>2, <3>1, SumMore
    <3> QED
      BY <2>1, <3>2, <3>3
  <2>3. f[ch] \in Nat /\ f[ch] = bal[ch][SideOf(ch, n)] /\ g[ch] = new[ch][SideOf(ch, n)]
    BY <1>3, <1>9
  <2>4. CASE n = EndOf(ch, s)
    <3>1. g[ch] = f[ch] - a
      BY <1>1, <1>7, <2>3, <2>4
    <3> QED
      BY <1>5, <1>7, <1>8, <2>2, <2>3, <2>4, <3>1 DEF new
  <2>5. CASE n = EndOf(ch, Other(s))
    <3>1. g[ch] = f[ch] + a
      BY <1>1, <1>7, <2>3, <2>5
    <3> QED
      BY <1>5, <1>7, <1>8, <2>2, <2>3, <2>5, <3>1 DEF new
  <2> QED
    BY <1>6, <1>9, <2>4, <2>5
<1>10. CASE ch \notin own
  <2>1. rest = own /\ n # EndOf(ch, s) /\ n # EndOf(ch, Other(s))
    BY <1>6, <1>10
  <2> QED
    BY <1>5, <1>8, <2>1 DEF new
<1> QED
  BY <1>9, <1>10

\* What one node gives another is no loss to all of them.
LEMMA TotalMoves ==
    ASSUME NEW w, NEW x, NEW u \in Node, NEW v \in Node, u # v, NEW a \in Nat,
           \A n \in Node : /\ w[n] \in Nat /\ x[n] \in Nat
                           /\ x[n] = w[n] - (IF n = u THEN a ELSE 0) + (IF n = v THEN a ELSE 0)
    PROVE  SumFunctionOnSet(x, Node) = SumFunctionOnSet(w, Node)
<1> DEFINE R == Node \ {u, v}
           Ru == R \cup {u}
<1>1. IsFiniteSet(R) /\ IsFiniteSet(Ru) /\ u \notin R /\ v \notin Ru /\ Ru \cup {v} = Node
  BY RouterConstants, FS_Subset
<1>2. /\ NatOn(w, R) /\ NatOn(x, R) /\ NatOn(w, Ru) /\ NatOn(x, Ru) /\ NatOn(w, Node) /\ NatOn(x, Node)
      /\ AgreeOn(w, x, R)
  BY DEF NatOn, AgreeOn
<1>3. w[u] \in Nat /\ w[v] \in Nat /\ x[u] = w[u] - a /\ x[v] = w[v] + a /\ x[u] \in Nat
  OBVIOUS
<1> HIDE DEF R
<1>4. SumFunctionOnSet(w, Ru) = SumFunctionOnSet(w, R) + w[u]
  BY <1>1, <1>2, SumMore
<1>5. SumFunctionOnSet(x, Ru) = SumFunctionOnSet(x, R) + x[u]
  BY <1>1, <1>2, SumMore
<1> HIDE DEF Ru
<1>6. SumFunctionOnSet(w, Ru \cup {v}) = SumFunctionOnSet(w, Ru) + w[v]
  BY <1>1, <1>2, SumMore
<1>7. SumFunctionOnSet(x, Ru \cup {v}) = SumFunctionOnSet(x, Ru) + x[v]
  BY <1>1, <1>2, SumMore
<1>8. SumFunctionOnSet(w, R) = SumFunctionOnSet(x, R) /\ SumFunctionOnSet(w, R) \in Nat
  BY <1>1, <1>2, SumAgree, SumNat
<1>9. SumFunctionOnSet(w, R) \in Nat /\ w[u] \in Nat /\ w[v] \in Nat
  BY <1>3, <1>8
<1>10. SumFunctionOnSet(x, Ru \cup {v}) = SumFunctionOnSet(w, Ru \cup {v})
  BY <1>3, <1>4, <1>5, <1>6, <1>7, <1>8, <1>9
<1> QED
  BY <1>1, <1>10 DEF Ru, R

----------------------------------------------------------------------------
(***************************************************************************)
(* No end of a channel offers more than it has.                            *)
(***************************************************************************)
OfferedIn(hs, ch, s) == {h \in hs : h.chan = ch /\ h.side = s}

Funded(bal, hs) ==
    /\ bal \in Balances /\ hs \in SUBSET Htlc /\ IsFiniteSet(hs)
    /\ \A ch \in Chan, s \in Side : Amounts(OfferedIn(hs, ch, s)) <= bal[ch][s]

LEMMA AmountsLess ==
    ASSUME NEW S \in SUBSET Htlc, IsFiniteSet(S), NEW h
    PROVE  Amounts(S) = Amounts(S \ {h}) + (IF h \in S THEN h.amount ELSE 0)
<1>1. S \ {h} \in SUBSET Htlc /\ IsFiniteSet(S \ {h}) /\ h \notin S \ {h}
  BY FS_Subset
<1>2. Amounts(S \ {h}) \in Nat
  BY <1>1, AmountsNat
<1>3. CASE h \in S
  <2>1. (S \ {h}) \cup {h} = S /\ h \in Htlc
    BY <1>3
  <2>2. Amounts((S \ {h}) \cup {h}) = Amounts(S \ {h}) + h.amount
    BY <1>1, <2>1, AmountsMore
  <2> QED
    BY <1>3, <2>1, <2>2
<1>4. CASE h \notin S
  <2> DEFINE R == S \ {h}
  <2>1. R = S
    BY <1>4
  <2>2. Amounts(R) \in Nat
    BY <1>2
  <2> HIDE DEF R
  <2>3. Amounts(S) = Amounts(R) + 0
    BY <2>1, <2>2
  <2> QED
    BY <1>4, <2>3 DEF R
<1> QED
  BY <1>3, <1>4

LEMMA OfferedShape ==
    ASSUME NEW hs \in SUBSET Htlc, IsFiniteSet(hs), NEW ch, NEW s
    PROVE  /\ OfferedIn(hs, ch, s) \in SUBSET Htlc /\ IsFiniteSet(OfferedIn(hs, ch, s))
           /\ Amounts(OfferedIn(hs, ch, s)) \in Nat
<1>1. OfferedIn(hs, ch, s) \subseteq hs
  BY DEF OfferedIn
<1>2. OfferedIn(hs, ch, s) \in SUBSET Htlc /\ IsFiniteSet(OfferedIn(hs, ch, s))
  BY <1>1, FS_Subset
<1> QED
  BY <1>2, AmountsNat

\* An HTLC is added only if it fits.
LEMMA FundedMore ==
    ASSUME NEW bal, NEW hs, Funded(bal, hs), NEW h \in Htlc,
           h.amount <= bal[h.chan][h.side] - Amounts(OfferedIn(hs, h.chan, h.side))
    PROVE  Funded(bal, hs \cup {h})
<1>1. hs \cup {h} \in SUBSET Htlc /\ IsFiniteSet(hs \cup {h}) /\ bal \in Balances
  BY FS_AddElement DEF Funded
<1>2. ASSUME NEW ch \in Chan, NEW s \in Side
      PROVE  Amounts(OfferedIn(hs \cup {h}, ch, s)) <= bal[ch][s]
  <2>1. bal[ch][s] \in Nat /\ Amounts(OfferedIn(hs, ch, s)) <= bal[ch][s] /\ h.amount \in Nat
    BY DEF Funded, Balances, Htlc
  <2>2. /\ OfferedIn(hs, ch, s) \in SUBSET Htlc /\ IsFiniteSet(OfferedIn(hs, ch, s))
        /\ Amounts(OfferedIn(hs, ch, s)) \in Nat
    BY OfferedShape DEF Funded
  <2>3. CASE h.chan = ch /\ h.side = s /\ h \notin hs
    <3>1. OfferedIn(hs \cup {h}, ch, s) = OfferedIn(hs, ch, s) \cup {h} /\ h \notin OfferedIn(hs, ch, s)
      BY <2>3 DEF OfferedIn
    <3>2. Amounts(OfferedIn(hs, ch, s) \cup {h}) = Amounts(OfferedIn(hs, ch, s)) + h.amount
      BY <2>2, <3>1, AmountsMore
    <3>3. h.amount <= bal[ch][s] - Amounts(OfferedIn(hs, ch, s))
      BY <2>3
    <3>4. Amounts(OfferedIn(hs, ch, s)) + h.amount <= bal[ch][s]
      BY <2>1, <2>2, <3>3
    <3> QED
      BY <3>1, <3>2, <3>4
  <2>4. CASE ~(h.chan = ch /\ h.side = s /\ h \notin hs)
    <3>1. OfferedIn(hs \cup {h}, ch, s) = OfferedIn(hs, ch, s)
      BY <2>4 DEF OfferedIn
    <3> QED
      BY <2>1, <3>1
  <2> QED
    BY <2>3, <2>4
<1> QED
  BY <1>1, <1>2 DEF Funded

LEMMA OfferedLess ==
    ASSUME NEW hs \in SUBSET Htlc, IsFiniteSet(hs), NEW h \in hs, NEW ch, NEW s
    PROVE  Amounts(OfferedIn(hs, ch, s)) =
             Amounts(OfferedIn(hs \ {h}, ch, s)) + (IF h.chan = ch /\ h.side = s THEN h.amount ELSE 0)
<1>1. OfferedIn(hs \ {h}, ch, s) = OfferedIn(hs, ch, s) \ {h}
  BY DEF OfferedIn
<1>2. h \in OfferedIn(hs, ch, s) <=> h.chan = ch /\ h.side = s
  BY DEF OfferedIn
<1>3. Amounts(OfferedIn(hs, ch, s)) =
        Amounts(OfferedIn(hs, ch, s) \ {h}) + (IF h \in OfferedIn(hs, ch, s) THEN h.amount ELSE 0)
  BY OfferedShape, AmountsLess
<1> QED
  BY <1>1, <1>2, <1>3

\* One that fails sets its amount free.
LEMMA FundedLess ==
    ASSUME NEW bal, NEW hs, Funded(bal, hs), NEW h
    PROVE  Funded(bal, hs \ {h})
<1>1. CASE h \notin hs
  <2>1. hs \ {h} = hs
    BY <1>1
  <2> QED
    BY <2>1
<1>2. CASE h \in hs
  <2>1. hs \ {h} \in SUBSET Htlc /\ IsFiniteSet(hs \ {h}) /\ bal \in Balances /\ h \in Htlc
    BY <1>2, FS_Subset DEF Funded
  <2>2. ASSUME NEW ch \in Chan, NEW s \in Side
        PROVE  Amounts(OfferedIn(hs \ {h}, ch, s)) <= bal[ch][s]
    <3>1. bal[ch][s] \in Nat /\ Amounts(OfferedIn(hs, ch, s)) <= bal[ch][s] /\ h.amount \in Nat
      BY <2>1 DEF Funded, Balances, Htlc
    <3>2. Amounts(OfferedIn(hs \ {h}, ch, s)) \in Nat
      BY <2>1, OfferedShape
    <3>3. Amounts(OfferedIn(hs, ch, s)) =
            Amounts(OfferedIn(hs \ {h}, ch, s)) + (IF h.chan = ch /\ h.side = s THEN h.amount ELSE 0)
      BY <1>2, OfferedLess DEF Funded
    <3> QED
      BY <3>1, <3>2, <3>3
  <2> QED
    BY <2>1, <2>2 DEF Funded
<1> QED
  BY <1>1, <1>2

\* A direct payment spends what is not offered,
LEMMA FundedMoved ==
    ASSUME NEW bal, NEW hs, Funded(bal, hs), NEW ch \in Chan, NEW s \in Side, NEW a \in Nat,
           a <= bal[ch][s] - Amounts(OfferedIn(hs, ch, s))
    PROVE  a <= bal[ch][s] /\ Funded(Transferred(bal, ch, s, a), hs)
<1> DEFINE new == Transferred(bal, ch, s, a)
<1>1. bal[ch][s] \in Nat /\ Amounts(OfferedIn(hs, ch, s)) \in Nat /\ bal \in Balances
  BY OfferedShape DEF Funded, Balances
<1>2. a <= bal[ch][s]
  BY <1>1
<1>3. /\ new \in Balances
      /\ new[ch][s] = bal[ch][s] - a /\ new[ch][Other(s)] = bal[ch][Other(s)] + a
      /\ \A c \in Chan \ {ch} : new[c] = bal[c]
  BY <1>1, <1>2, TransferAt
<1> HIDE DEF new
<1>4. ASSUME NEW c \in Chan, NEW t \in Side PROVE Amounts(OfferedIn(hs, c, t)) <= new[c][t]
  <2>1. Amounts(OfferedIn(hs, c, t)) \in Nat /\ Amounts(OfferedIn(hs, c, t)) <= bal[c][t] /\ bal[c][t] \in Nat
    BY <1>1, OfferedShape DEF Funded, Balances
  <2>2. CASE c # ch
    BY <1>3, <2>1, <2>2
  <2>3. CASE c = ch /\ t = s
    BY <1>1, <1>3, <2>1, <2>3
  <2>4. CASE c = ch /\ t # s
    <3>1. t = Other(s)
      BY <2>4 DEF Side, Other
    <3> QED
      BY <1>3, <2>1, <2>4, <3>1
  <2> QED
    BY <2>2, <2>3, <2>4
<1> QED
  BY <1>2, <1>3, <1>4 DEF Funded, new

\* a settled HTLC what it was added for.
LEMMA FundedSettled ==
    ASSUME NEW bal, NEW hs, Funded(bal, hs), NEW h \in hs
    PROVE  /\ h \in Htlc /\ h.amount <= bal[h.chan][h.side]
           /\ Funded(Transferred(bal, h.chan, h.side, h.amount), hs \ {h})
<1>1. h \in Htlc /\ h.chan \in Chan /\ h.side \in Side /\ h.amount \in Nat
  BY DEF Funded, Htlc
<1>2. Funded(bal, hs \ {h})
  BY FundedLess
<1>3. h.amount <= bal[h.chan][h.side] - Amounts(OfferedIn(hs \ {h}, h.chan, h.side))
  <2>1. Amounts(OfferedIn(hs, h.chan, h.side)) = Amounts(OfferedIn(hs \ {h}, h.chan, h.side)) + h.amount
    BY OfferedLess DEF Funded
  <2>2. Amounts(OfferedIn(hs \ {h}, h.chan, h.side)) \in Nat
    BY <1>2, OfferedShape DEF Funded
  <2>3. Amounts(OfferedIn(hs, h.chan, h.side)) <= bal[h.chan][h.side] /\ bal[h.chan][h.side] \in Nat
    BY <1>1 DEF Funded, Balances
  <2> QED
    BY <1>1, <2>1, <2>2, <2>3
<1> QED
  BY <1>1, <1>2, <1>3, FundedMoved

----------------------------------------------------------------------------
(***************************************************************************)
(* Where commitments can be signed, they still can when an HTLC is settled.*)
(***************************************************************************)
LEMMA SignableIs ==
    ASSUME NEW ch, NEW bal, NEW hs
    PROVE  Signable(ch, bal, hs) <=>
             \/ \E s \in Side : bal[ch][s] - Amounts(OfferedIn(hs, ch, s)) >= DustLimit
             \/ \E h \in hs : h.chan = ch /\ h.amount >= DustLimit
BY DEF Signable, OfferedIn

LEMMA SignableElsewhere ==
    ASSUME NEW bal, NEW new, NEW hs, NEW h, NEW ch, ch # h.chan, new[ch] = bal[ch], Signable(ch, bal, hs)
    PROVE  Signable(ch, new, hs \cup {h}) /\ Signable(ch, new, hs \ {h})
<1>1. \A s : OfferedIn(hs \cup {h}, ch, s) = OfferedIn(hs, ch, s) /\ OfferedIn(hs \ {h}, ch, s) = OfferedIn(hs, ch, s)
  BY DEF OfferedIn
<1>2. CASE \E s \in Side : bal[ch][s] - Amounts(OfferedIn(hs, ch, s)) >= DustLimit
  BY <1>1, <1>2, SignableIs
<1>3. CASE \E x \in hs : x.chan = ch /\ x.amount >= DustLimit
  <2>1. PICK x \in hs : x.chan = ch /\ x.amount >= DustLimit
    BY <1>3
  <2>2. x \in hs \ {h} /\ x \in hs \cup {h}
    BY <2>1
  <2> QED
    BY <2>1, <2>2, SignableIs
<1> QED
  BY <1>2, <1>3, SignableIs

LEMMA SignableSettled ==
    ASSUME NEW bal, NEW hs, Funded(bal, hs), NEW h \in hs, NEW ch \in Chan, Signable(ch, bal, hs)
    PROVE  Signable(ch, Transferred(bal, h.chan, h.side, h.amount), hs \ {h})
<1> DEFINE new == Transferred(bal, h.chan, h.side, h.amount)
           s == h.side
           o == Other(h.side)
<1>1. /\ h \in Htlc /\ h.chan \in Chan /\ s \in Side /\ h.amount \in Nat
      /\ h.amount <= bal[h.chan][s] /\ bal \in Balances /\ Funded(new, hs \ {h})
  BY FundedSettled DEF Funded, Htlc
<1>2. /\ new \in Balances
      /\ new[h.chan][s] = bal[h.chan][s] - h.amount /\ new[h.chan][o] = bal[h.chan][o] + h.amount
      /\ \A c \in Chan \ {h.chan} : new[c] = bal[c]
  BY <1>1, TransferAt
<1> HIDE DEF new
<1>3. CASE ch # h.chan
  BY <1>2, <1>3, SignableElsewhere DEF new
<1>4. CASE ch = h.chan
  <2>0. o \in Side /\ o # s /\ \A t \in Side : t = s \/ t = o
    BY <1>1 DEF Other, Side
  <2> DEFINE was(t) == Amounts(OfferedIn(hs, ch, t))
             is(t) == Amounts(OfferedIn(hs \ {h}, ch, t))
  <2>1. ASSUME NEW t \in Side
        PROVE  /\ was(t) \in Nat /\ is(t) \in Nat /\ bal[ch][t] \in Nat /\ new[ch][t] \in Nat
               /\ was(t) = is(t) + (IF t = s THEN h.amount ELSE 0)
               /\ is(t) <= new[ch][t]
    <3>1. was(t) \in Nat /\ is(t) \in Nat
      <4>1. hs \in SUBSET Htlc /\ IsFiniteSet(hs) /\ hs \ {h} \in SUBSET Htlc /\ IsFiniteSet(hs \ {h})
        BY <1>1 DEF Funded
      <4> QED
        BY <4>1, OfferedShape
    <3>2. was(t) = is(t) + (IF t = s THEN h.amount ELSE 0)
      BY <1>4, OfferedLess DEF Funded
    <3>3. is(t) <= new[ch][t]
      BY <1>1 DEF Funded
    <3>4. bal[ch][t] \in Nat /\ new[ch][t] \in Nat
      BY <1>1, <1>2 DEF Balances
    <3> QED
      BY <3>1, <3>2, <3>3, <3>4
  <2> HIDE DEF was, is
  <2>2. CASE \E t \in Side : bal[ch][t] - was(t) >= DustLimit
    <3>1. PICK t \in Side : bal[ch][t] - was(t) >= DustLimit
      BY <2>2
    <3>2. CASE t = s
      <4>1. new[ch][t] - is(t) >= DustLimit
        BY <1>1, <1>2, <1>4, <2>1, <3>1, <3>2, PaymentConstants
      <4> QED
        BY <4>1, SignableIs DEF is, new
    <3>3. CASE t = o
      <4>1. new[ch][t] - is(t) >= DustLimit
        BY <1>1, <1>2, <1>4, <2>0, <2>1, <3>1, <3>3, PaymentConstants
      <4> QED
        BY <4>1, SignableIs DEF is, new
    <3> QED
      BY <2>0, <3>2, <3>3
  <2>3. CASE \E x \in hs : x.chan = ch /\ x.amount >= DustLimit
    <3>1. PICK x \in hs : x.chan = ch /\ x.amount >= DustLimit
      BY <2>3
    <3>2. CASE x # h
      <4>1. x \in hs \ {h}
        BY <3>2
      <4> QED
        BY <3>1, <4>1, SignableIs DEF new
    <3>3. CASE x = h
      <4>1. bal[ch][o] - was(o) \in Nat
        BY <2>0, <2>1 DEF Funded, was
      <4>2. new[ch][o] - is(o) >= DustLimit
        BY <1>1, <1>2, <1>4, <2>0, <2>1, <3>1, <3>3, <4>1, PaymentConstants
      <4> QED
        BY <2>0, <4>2, SignableIs DEF is, new
    <3> QED
      BY <3>2, <3>3
  <2> QED
    BY <2>2, <2>3, SignableIs DEF was
<1> QED
  BY <1>3, <1>4

----------------------------------------------------------------------------
(***************************************************************************)
(* Listings without repetition.                                            *)
(***************************************************************************)
LEMMA DistinctAppend ==
    ASSUME NEW s, Listing(s), IsInjective(s), NEW e, e \notin Range(s)
    PROVE  IsInjective(Append(s, e))
<1> DEFINE t == Append(s, e)
<1>1. Len(s) \in Nat /\ DOMAIN s = 1..Len(s)
  BY ListingFacts
<1>2. /\ DOMAIN t = 1..(Len(s) + 1) /\ t[Len(s) + 1] = e
      /\ \A i \in DOMAIN s : t[i] = s[i] /\ s[i] # e
  BY ListingAppend DEF Range
<1> HIDE DEF t
<1>3. \A i \in DOMAIN t : i \in DOMAIN s \/ i = Len(s) + 1
  BY <1>1, <1>2
<1>4. IsInjective(t)
  BY <1>2, <1>3 DEF IsInjective
<1> QED
  BY <1>4 DEF t

LEMMA DistinctConcat ==
    ASSUME NEW s, Listing(s), IsInjective(s), NEW t, Listing(t), IsInjective(t),
           Range(s) \cap Range(t) = {}
    PROVE  IsInjective(s \o t)
<1> DEFINE u == s \o t
           T == Range(s) \cup Range(t)
<1>1. s \in Seq(T) /\ t \in Seq(T)
  BY ListingFacts
<1>2. Len(s) \in Nat /\ DOMAIN s = 1..Len(s) /\ Len(t) \in Nat /\ DOMAIN t = 1..Len(t)
  BY ListingFacts
<1> HIDE DEF T
<1>3. /\ DOMAIN u = 1..(Len(s) + Len(t))
      /\ \A i \in 1..Len(s) : u[i] = s[i]
      /\ \A i \in 1..(Len(s) + Len(t)) : i \notin 1..Len(s) => i - Len(s) \in 1..Len(t) /\ u[i] = t[i - Len(s)]
  BY <1>1, <1>2
<1> HIDE DEF u
<1>4. ASSUME NEW i \in DOMAIN u, NEW j \in DOMAIN u, u[i] = u[j] PROVE i = j
  <2>1. CASE i \in 1..Len(s) /\ j \in 1..Len(s)
    BY <1>2, <1>3, <1>4, <2>1 DEF IsInjective
  <2>2. CASE i \notin 1..Len(s) /\ j \notin 1..Len(s)
    <3>1. i - Len(s) \in DOMAIN t /\ j - Len(s) \in DOMAIN t /\ t[i - Len(s)] = t[j - Len(s)]
      BY <1>2, <1>3, <1>4, <2>2
    <3>2. i - Len(s) = j - Len(s)
      BY <3>1 DEF IsInjective
    <3> QED
      BY <1>2, <1>3, <3>2
  <2>3. ASSUME NEW k \in DOMAIN u, NEW l \in DOMAIN u, k \in 1..Len(s), l \notin 1..Len(s) PROVE u[k] # u[l]
    <3>1. u[k] \in Range(s)
      BY <1>2, <1>3, <2>3 DEF Range
    <3>2. u[l] \in Range(t)
      BY <1>2, <1>3, <2>3 DEF Range
    <3> QED
      BY <3>1, <3>2
  <2> QED
    BY <1>4, <2>1, <2>2, <2>3
<1> QED
  BY <1>4 DEF IsInjective, u

LEMMA DistinctReverse ==
    ASSUME NEW s, Listing(s), IsInjective(s)
    PROVE  IsInjective(Reverse(s))
<1> DEFINE n == Len(s)
           t == Reverse(s)
<1>1. n \in Nat /\ DOMAIN s = 1..n
  BY ListingFacts
<1>2. DOMAIN t = 1..n /\ \A i \in 1..n : t[i] = s[(n - i) + 1] /\ (n - i) + 1 \in 1..n
  BY <1>1 DEF Reverse
<1> HIDE DEF t
<1>3. ASSUME NEW i \in 1..n, NEW j \in 1..n, t[i] = t[j] PROVE i = j
  <2>1. (n - i) + 1 = (n - j) + 1
    BY <1>1, <1>2, <1>3 DEF IsInjective
  <2> QED
    BY <1>1, <2>1
<1> QED
  BY <1>2, <1>3 DEF IsInjective, t

LEMMA DistinctTail ==
    ASSUME NEW s, Listing(s), IsInjective(s), s # <<>>
    PROVE  IsInjective(Tail(s)) /\ Range(Tail(s)) = Range(s) \ {Head(s)}
<1> DEFINE R == Range(s)
           t == Tail(s)
<1>1. s \in Seq(R)
  BY DEF Listing
<1> HIDE DEF R
<1>2. /\ Len(s) \in Nat \ {0} /\ DOMAIN s = 1..Len(s) /\ DOMAIN t = 1..(Len(s) - 1)
      /\ Head(s) = s[1] /\ \A i \in 1..(Len(s) - 1) : t[i] = s[i + 1]
  BY <1>1
<1> HIDE DEF t
<1>3. \A i \in 1..(Len(s) - 1) : i + 1 \in 1..Len(s) /\ i + 1 # 1 /\ 1 \in 1..Len(s)
  BY <1>2
<1>4. IsInjective(t)
  <2>1. ASSUME NEW i \in DOMAIN t, NEW j \in DOMAIN t, t[i] = t[j] PROVE i = j
    <3>1. i + 1 = j + 1
      BY <1>2, <1>3, <2>1 DEF IsInjective
    <3> QED
      BY <1>2, <3>1
  <2> QED
    BY <2>1 DEF IsInjective
<1>5. Head(s) \notin Range(t)
  <2>1. \A i \in DOMAIN t : t[i] # Head(s)
    BY <1>2, <1>3 DEF IsInjective
  <2> QED
    BY <2>1 DEF Range
<1>6. Range(s) = {Head(s)} \cup Range(t)
  BY ListingTail DEF t
<1> QED
  BY <1>4, <1>5, <1>6 DEF t

LEMMA DistinctNone == IsInjective(<<>>)
BY DEF IsInjective

\* FlattenSeq joins what it is given one by one.
LEMMA FlattenRuns ==
    ASSUME NEW seqs, NEW N \in Nat \ {0}, Len(seqs) = N
    PROVE  \E q : Flattening(q, seqs, N) /\ FlattenSeq(seqs) = q[N]
<1> DEFINE Is(f) == f = [i \in 1..N |-> IF i = 1 THEN seqs[i] ELSE f[i - 1] \o seqs[i]]
           q == CHOOSE f : Is(f)
<1>1. \E f : Is(f)
  <2>1. PICK f : Flattening(f, seqs, N)
    BY FlatteningExists
  <2>2. \A k \in 1..N : f[k] = IF k = 1 THEN seqs[k] ELSE f[k - 1] \o seqs[k]
    <3>1. \A k \in 1..N : k # 1 => k \in 2..N
      OBVIOUS
    <3> QED
      BY <2>1, <3>1 DEF Flattening
  <2>3. f = [k \in 1..N |-> f[k]]
    BY <2>1 DEF Flattening
  <2>4. Is(f)
    BY <2>2, <2>3
  <2> QED
    BY <2>4
<1>2. Is(q)
  BY <1>1
<1>3. FlattenSeq(seqs) = q[N]
  BY DEF FlattenSeq
<1> HIDE DEF q
<1>4. \A i \in 1..N : q[i] = IF i = 1 THEN seqs[i] ELSE q[i - 1] \o seqs[i]
  BY <1>2
<1>5. q = [k \in 1..N |-> q[k]]
  BY <1>2, <1>4
<1>6. 1 \in 1..N /\ \A k \in 2..N : k \in 1..N /\ k # 1
  OBVIOUS
<1>7. Flattening(q, seqs, N)
  BY <1>4, <1>5, <1>6 DEF Flattening
<1> QED
  BY <1>3, <1>7

\* Sequences without a common element, nor any twice in one of them.
Apart(seqs) ==
    /\ \A i \in DOMAIN seqs : IsInjective(seqs[i])
    /\ \A i, j \in DOMAIN seqs : i # j => Range(seqs[i]) \cap Range(seqs[j]) = {}

\* Sequences put one after another hold what each of them holds, and no more.
LEMMA FlattenIs ==
    ASSUME NEW seqs, Listing(seqs), \A i \in DOMAIN seqs : Listing(seqs[i])
    PROVE  LET all == FlattenSeq(seqs)
           IN /\ Listing(all) /\ Range(all) = UNION {Range(seqs[i]) : i \in DOMAIN seqs}
              /\ Apart(seqs) => IsInjective(all)
<1> DEFINE N == Len(seqs)
           all == FlattenSeq(seqs)
<1>0. N \in Nat /\ DOMAIN seqs = 1..N
  BY ListingFacts
<1>1. CASE N = 0
  <2>1. all = seqs
    BY <1>1 DEF FlattenSeq
  <2>2. DOMAIN seqs = {}
    BY <1>0, <1>1
  <2> HIDE DEF all
  <2>3. Range(seqs) = {} /\ IsInjective(seqs)
    BY <2>2 DEF Range, IsInjective
  <2> QED
    BY <2>1, <2>2, <2>3 DEF all
<1>2. CASE N # 0
  <2>1. PICK q : Flattening(q, seqs, N) /\ all = q[N]
    BY <1>0, <1>2, FlattenRuns
  <2> HIDE DEF all
  <2> DEFINE Upto(n) == UNION {Range(seqs[i]) : i \in 1..n}
             Flat(n) == /\ Listing(q[n]) /\ Range(q[n]) = Upto(n)
                        /\ Apart(seqs) => IsInjective(q[n])
             P == {n \in Nat : n \in 1..N => Flat(n)}
  <2>2. 0 \in P
    OBVIOUS
  <2>3. ASSUME NEW n \in Nat, n \in P PROVE n + 1 \in P
    <3> HIDE DEF Flat
    <3> SUFFICES ASSUME n + 1 \in 1..N PROVE Flat(n + 1)
      OBVIOUS
    <3>1. Listing(seqs[n + 1]) /\ (Apart(seqs) => IsInjective(seqs[n + 1]))
      BY <1>0 DEF Apart
    <3>2. CASE n = 0
      <4>1. q[n + 1] = seqs[n + 1]
        BY <2>1, <3>2 DEF Flattening
      <4>2. Upto(n + 1) = Range(seqs[n + 1])
        BY <3>2
      <4> HIDE DEF Upto
      <4> QED
        BY <3>1, <4>1, <4>2 DEF Flat
    <3>3. CASE n # 0
      <4>1. n \in 1..N /\ n + 1 \in 2..N /\ (n + 1) - 1 = n
        BY <1>0, <3>3
      <4>2. q[n + 1] = q[n] \o seqs[n + 1]
        BY <2>1, <4>1 DEF Flattening
      <4>3. Flat(n)
        BY <2>3, <4>1
      <4>4. Listing(q[n + 1]) /\ Range(q[n + 1]) = Range(q[n]) \cup Range(seqs[n + 1])
        BY <3>1, <4>2, <4>3, ListingConcat DEF Flat
      <4>5. Upto(n + 1) = Upto(n) \cup Range(seqs[n + 1])
        <5>1. \A i \in 1..(n + 1) : i \in 1..n \/ i = n + 1
          OBVIOUS
        <5>2. n + 1 \in 1..(n + 1) /\ 1..n \subseteq 1..(n + 1)
          OBVIOUS
        <5> QED
          BY <5>1, <5>2
      <4>6. ASSUME Apart(seqs) PROVE IsInjective(q[n + 1])
        <5>1. \A i \in 1..n : Range(seqs[i]) \cap Range(seqs[n + 1]) = {}
          <6>1. \A i \in 1..n : i \in DOMAIN seqs /\ n + 1 \in DOMAIN seqs /\ i # n + 1
            BY <1>0, <4>1
          <6> QED
            BY <4>6, <6>1 DEF Apart
        <5>2. Upto(n) \cap Range(seqs[n + 1]) = {}
          BY <5>1
        <5> HIDE DEF Upto
        <5> QED
          BY <3>1, <4>2, <4>3, <4>6, <5>2, DistinctConcat DEF Flat
      <4> HIDE DEF Upto
      <4> QED
        BY <4>3, <4>4, <4>5, <4>6 DEF Flat
    <3> QED
      BY <3>2, <3>3
  <2>4. N \in P
    <3>1. Nat \subseteq P
      <4> HIDE DEF P
      <4> QED
        BY <2>2, <2>3, NatClosure
    <3> QED
      BY <1>0, <3>1
  <2>5. Flat(N)
    BY <1>0, <1>2, <2>4
  <2> QED
    BY <1>0, <2>1, <2>5 DEF all
<1> QED
  BY <1>1, <1>2

\* HTLCs of a call: those of one part are none of another's.
PartsApart(j) ==
    /\ \A i \in DOMAIN j.held : IsInjective(j.held[i].added)
    /\ \A i, k \in DOMAIN j.held : i # k => Range(j.held[i].added) \cap Range(j.held[k].added) = {}

\* So what a call gives back names every HTLC of its parts, once.
LEMMA HeldBackDistinct ==
    ASSUME NEW j, CallShape(j), PartsApart(j)
    PROVE  Listing(HeldBack(j.held)) /\ Range(HeldBack(j.held)) = PartsOf(j) /\ IsInjective(HeldBack(j.held))
<1> DEFINE back == [i \in DOMAIN j.held |-> Reverse(j.held[i].added)]
<1>1. Listing(j.held) /\ \A i \in DOMAIN j.held : Listing(j.held[i].added)
  BY DEF CallShape
<1>2. \A i \in DOMAIN j.held : Listing(back[i]) /\ Range(back[i]) = Range(j.held[i].added) /\ IsInjective(back[i])
  BY <1>1, ListingReverse, DistinctReverse DEF PartsApart
<1>3. Listing(back) /\ DOMAIN back = DOMAIN j.held
  <2> DEFINE n == Len(j.held)
             R == {back[i] : i \in 1..n}
  <2>1. n \in Nat /\ DOMAIN j.held = 1..n
    BY <1>1, ListingFacts
  <2>2. back = [i \in 1..n |-> back[i]] /\ \A i \in 1..n : back[i] \in R
    BY <2>1
  <2> HIDE DEF R, n, back
  <2>3. back \in Seq(R)
    BY <2>1, <2>2
  <2> QED
    BY <2>1, <2>2, <2>3, ListingOf
<1> HIDE DEF back
<1>4. Apart(back)
  BY <1>2, <1>3 DEF Apart, PartsApart
<1>5. /\ Listing(FlattenSeq(back)) /\ IsInjective(FlattenSeq(back))
      /\ Range(FlattenSeq(back)) = UNION {Range(back[i]) : i \in DOMAIN back}
  BY <1>2, <1>3, <1>4, FlattenIs
<1>6. HeldBack(j.held) = FlattenSeq(back)
  BY DEF HeldBack, back
<1>7. UNION {Range(back[i]) : i \in DOMAIN back} = PartsOf(j)
  BY <1>2, <1>3 DEF PartsOf
<1> QED
  BY <1>5, <1>6, <1>7

----------------------------------------------------------------------------
(***************************************************************************)
(* What a call has under way, from its first HTLC to its last.             *)
(***************************************************************************)
\* HTLCs whose channels can be updated.
Safe(S, l, bal, hs) == S \subseteq hs /\ \A h \in S : l[h.chan] # 0 /\ Signable(h.chan, bal, hs)

\* HTLCs that take nothing from the payee and bring it so much, and bring each node
\* between the payer and the payee no less than they take from it.
Passes(S, from, payee, got) ==
    /\ Takes(payee, S) = 0 /\ Brings(payee, S) = got
    /\ \A n \in Node \ {from, payee} : Takes(n, S) <= Brings(n, S)

\* The same on the way, k hops from the payer: the node reached has still to send on
\* what it was brought.
Carried(hops, k, n) == IF k > 0 /\ n = hops[k].to THEN hops[k].amount ELSE 0

OnWay(S, hops, k, from, payee) ==
    /\ Takes(payee, S) = 0 /\ Brings(payee, S) = 0
    /\ \A n \in Node \ {from, payee} : Takes(n, S) + Carried(hops, k, n) <= Brings(n, S)

\* The HTLC of one hop of an attempt.
HtlcFor(j, i) == [chan |-> j.route.hops[i].chan,
                  side |-> SideOf(j.route.hops[i].chan, j.route.hops[i].from),
                  amount |-> j.route.hops[i].amount, inv |-> j.inv, try |-> j.tries]

\* A call is of a payer, for somebody else's invoice.
CallTyped(j) ==
    /\ j.from \in Node /\ j.inv \in Invoice /\ j.from # j.inv.payee
    /\ j.tries \in Nat /\ j.multi \in BOOLEAN

\* What has arrived is what is not left to send.
HeldIs(j) ==
    /\ j.left \in 0..j.inv.amount /\ (~j.multi => j.left \in {0, j.inv.amount})
    /\ PartsOf(j) \in SUBSET Htlc /\ IsFiniteSet(PartsOf(j))
    /\ PartsApart(j) /\ \A h \in PartsOf(j) : h.try <= j.tries
    /\ Passes(PartsOf(j), j.from, j.inv.payee, j.inv.amount - j.left)

\* An attempt has added an HTLC for each hop so far.
AttemptIs(j) ==
    /\ RouteShape(j.route, j.from, j.inv.payee, j.part)
    /\ j.part \in 1..j.left /\ (~j.multi => j.part = j.left)
    /\ Len(j.added) < Len(j.route.hops)
    /\ \A i \in 1..Len(j.added) : j.added[i] = HtlcFor(j, i)
    /\ Len(j.added) > 0 => j.route.hops[Len(j.added) + 1].amount <= j.route.hops[Len(j.added)].amount
    /\ OnWay(Range(j.added), j.route.hops, Len(j.added), j.from, j.inv.payee)
    /\ \A h \in PartsOf(j) : h.try < j.tries

\* Only the attempt that failed is undone, not the parts before it.
UndoIs(j) ==
    /\ \A h \in Range(j.todo) : h.try = j.tries
    /\ \A h \in PartsOf(j) : h.try < j.tries

\* What is still to settle is the difference to the payment made.
SettleIs(j, w) ==
    /\ IsInjective(j.todo)
    /\ j.before \in [Node -> Nat]
    /\ SumFunctionOnSet(w, Node) = SumFunctionOnSet(j.before, Node)
    /\ w[j.inv.payee] + Brings(j.inv.payee, Range(j.todo)) =
         j.before[j.inv.payee] + j.inv.amount + Takes(j.inv.payee, Range(j.todo))
    /\ \A n \in Node \ {j.from, j.inv.payee} :
          j.before[n] + Takes(n, Range(j.todo)) <= w[n] + Brings(n, Range(j.todo))

WealthOf(bal) == [n \in Node |-> WealthIn(bal, n)]

\* The call under way, phase by phase: until it settles nothing has moved since it began.
CallSound ==
    /\ job # NoJob => CallTyped(job)
    /\ job.phase \in {"route", "deliver", "undo"} =>
          /\ HeldIs(job) /\ Safe(PartsOf(job), life, balance, pending)
          /\ job.before = WealthOf(balance)
          /\ job.left < job.inv.amount => job.inv \notin settled
    /\ job.phase = "deliver" => AttemptIs(job) /\ Safe(Range(job.added), life, balance, pending)
    /\ job.phase = "undo" => UndoIs(job)
    /\ job.phase = "settle" =>
          /\ SettleIs(job, WealthOf(balance)) /\ Safe(Range(job.todo), life, balance, pending)
          /\ job.inv \notin settled

\* Two parts pass on what each does.
LEMMA PassesBoth ==
    ASSUME NEW S \in SUBSET Htlc, NEW T \in SUBSET Htlc, IsFiniteSet(S), IsFiniteSet(T), S \cap T = {},
           NEW from, NEW payee, NEW a \in Nat, NEW b \in Nat,
           Passes(S, from, payee, a), Passes(T, from, payee, b)
    PROVE  Passes(S \cup T, from, payee, a + b)
<1>1. ASSUME NEW n
      PROVE  /\ Takes(n, S \cup T) = Takes(n, S) + Takes(n, T)
             /\ Brings(n, S \cup T) = Brings(n, S) + Brings(n, T)
             /\ Takes(n, S) \in Nat /\ Brings(n, S) \in Nat
             /\ Takes(n, T) \in Nat /\ Brings(n, T) \in Nat
  BY FlowSplit
<1>2. Takes(payee, S \cup T) = 0 /\ Brings(payee, S \cup T) = a + b
  <2>1. Takes(payee, S) = 0 /\ Brings(payee, S) = a /\ Takes(payee, T) = 0 /\ Brings(payee, T) = b
    BY DEF Passes
  <2>2. /\ Takes(payee, S \cup T) = Takes(payee, S) + Takes(payee, T)
        /\ Brings(payee, S \cup T) = Brings(payee, S) + Brings(payee, T)
    BY <1>1
  <2> QED
    BY <2>1, <2>2
<1>3. \A n \in Node \ {from, payee} : Takes(n, S \cup T) <= Brings(n, S \cup T)
  <2> SUFFICES ASSUME NEW n \in Node \ {from, payee} PROVE Takes(n, S \cup T) <= Brings(n, S \cup T)
    OBVIOUS
  <2>1. Takes(n, S) <= Brings(n, S) /\ Takes(n, T) <= Brings(n, T)
    BY DEF Passes
  <2>2. /\ Takes(n, S \cup T) = Takes(n, S) + Takes(n, T)
        /\ Brings(n, S \cup T) = Brings(n, S) + Brings(n, T)
        /\ Takes(n, S) \in Nat /\ Brings(n, S) \in Nat
        /\ Takes(n, T) \in Nat /\ Brings(n, T) \in Nat
    BY <1>1
  <2> QED
    BY <2>1, <2>2
<1> QED
  BY <1>2, <1>3 DEF Passes

\* The HTLC of a hop is paid by where the hop starts, to where it ends.
LEMMA HtlcEnds ==
    ASSUME NEW j, CallTyped(j), NEW amount, RouteShape(j.route, j.from, j.inv.payee, amount),
           NEW i \in 1..Len(j.route.hops)
    PROVE  /\ HtlcFor(j, i) \in Htlc
           /\ PaidBy(HtlcFor(j, i)) = j.route.hops[i].from
           /\ PaidTo(HtlcFor(j, i)) = j.route.hops[i].to
<1> DEFINE h == HtlcFor(j, i)
           p == j.route.hops[i]
<1>1. /\ p.chan \in Chan /\ p.from \in Node /\ p.to \in Node /\ p.amount \in Nat
      /\ Joins(p.chan, p.from, p.to)
  BY DEF RouteShape, HopShape
<1>2. h.chan = p.chan /\ h.side = SideOf(p.chan, p.from) /\ h.amount = p.amount
  BY DEF HtlcFor
<1>3. h \in Htlc
  BY <1>1 DEF HtlcFor, Htlc, SideOf, Side, CallTyped
<1> HIDE DEF h, p
<1>4. EndOf(h.chan, h.side) = p.from /\ EndOf(h.chan, Other(h.side)) = p.to
  <2>1. Ends[p.chan].a # Ends[p.chan].b
    BY <1>1, RouterConstants
  <2> QED
    BY <1>1, <1>2, <2>1 DEF Joins, EndOf, SideOf, Other
<1> QED
  BY <1>3, <1>4 DEF PaidBy, PaidTo, h, p

\* The HTLCs of an attempt are as many as its hops, of its try.
LEMMA AddedShape ==
    ASSUME NEW j, CallShape(j), CallTyped(j), AttemptIs(j)
    PROVE  LET k == Len(j.added)
               h == HtlcFor(j, k + 1)
           IN /\ k \in Nat /\ k + 1 \in 1..Len(j.route.hops) /\ DOMAIN j.added = 1..k
              /\ \A i \in 1..k : i \in 1..Len(j.route.hops)
              /\ Range(j.added) \in SUBSET Htlc /\ IsFiniteSet(Range(j.added))
              /\ IsInjective(j.added)
              /\ h \in Htlc /\ h \notin Range(j.added)
              /\ \A g \in Range(j.added) \cup {h} : g.try = j.tries
<1> DEFINE k == Len(j.added)
           h == HtlcFor(j, k + 1)
           L == Len(j.route.hops)
<1>1. k \in Nat /\ DOMAIN j.added = 1..k /\ Listing(j.added)
  BY ListingFacts DEF CallShape
<1>2. L \in Nat \ {0} /\ k < L /\ RouteShape(j.route, j.from, j.inv.payee, j.part)
  BY DEF AttemptIs, RouteShape
<1>3. k + 1 \in 1..L /\ \A i \in 1..k : i \in 1..L /\ i # k + 1
  BY <1>1, <1>2
<1>4. \A i \in 1..k : j.added[i] = HtlcFor(j, i)
  BY DEF AttemptIs
<1>5. \A i \in 1..L : HtlcFor(j, i) \in Htlc /\ PaidBy(HtlcFor(j, i)) = j.route.hops[i].from
  BY <1>2, HtlcEnds
<1>6. \A i, m \in 1..L : i # m => HtlcFor(j, i) # HtlcFor(j, m)
  <2>1. \A i, m \in 1..L : i # m => j.route.hops[i].from # j.route.hops[m].from
    BY <1>2 DEF RouteShape
  <2> QED
    BY <1>5, <2>1
<1>7. \A i : HtlcFor(j, i).try = j.tries
  BY DEF HtlcFor
<1> HIDE DEF k, L, h
<1>8. Range(j.added) \in SUBSET Htlc /\ h \in Htlc /\ h \notin Range(j.added)
  BY <1>1, <1>3, <1>4, <1>5, <1>6 DEF Range, h
<1>9. IsInjective(j.added)
  BY <1>1, <1>3, <1>4, <1>6 DEF IsInjective
<1>10. \A g \in Range(j.added) \cup {h} : g.try = j.tries
  BY <1>1, <1>4, <1>7 DEF Range, h
<1>11. IsFiniteSet(Range(j.added))
  <2> DEFINE R == Range(j.added)
  <2>0. j.added \in Seq(R) /\ \A x \in R : \E i \in 1..k : j.added[i] = x
    BY <1>1 DEF Listing, Range
  <2> HIDE DEF R
  <2>1. j.added \in [1..k -> R]
    BY <1>1, <2>0 DEF k
  <2>2. j.added \in Surjection(1..k, R)
    BY <2>0, <2>1 DEF Surjection
  <2>3. IsFiniteSet(R)
    BY <1>1, <2>2, FS_Interval, FS_Surjection
  <2> QED
    BY <2>3 DEF R
<1> QED
  BY <1>1, <1>3, <1>8, <1>9, <1>10, <1>11 DEF k, L, h

\* One more hop: the money is where it was sent, until it is with the payee.
LEMMA OneMoreHop ==
    ASSUME NEW j, CallShape(j), CallTyped(j), AttemptIs(j)
    PROVE  LET k == Len(j.added)
               S == Range(j.added) \cup {HtlcFor(j, k + 1)}
           IN /\ k + 1 < Len(j.route.hops) => OnWay(S, j.route.hops, k + 1, j.from, j.inv.payee)
              /\ k + 1 = Len(j.route.hops) => Passes(S, j.from, j.inv.payee, j.part)
<1> DEFINE k == Len(j.added)
           A == Range(j.added)
           hops == j.route.hops
           L == Len(hops)
           h == HtlcFor(j, k + 1)
           payee == j.inv.payee
           u == hops[k + 1].from
           v == hops[k + 1].to
           a == hops[k + 1].amount
<1>1. /\ k \in Nat /\ k + 1 \in 1..L /\ A \in SUBSET Htlc /\ IsFiniteSet(A)
      /\ h \in Htlc /\ h \notin A /\ L \in Nat
  <2>1. L \in Nat
    BY DEF AttemptIs, RouteShape
  <2> QED
    BY <2>1, AddedShape
<1>2. /\ hops[1].from = j.from /\ hops[L].to = payee
      /\ \A i \in 1..L : hops[i].from # payee /\ hops[i].amount \in Nat
      /\ \A i \in 1..(L - 1) : hops[i].to = hops[i + 1].from
      /\ hops[L].amount = j.part
  BY DEF AttemptIs, RouteShape, HopShape
<1>3. PaidBy(h) = u /\ PaidTo(h) = v /\ h.amount = a
  <2>1. RouteShape(j.route, j.from, payee, j.part)
    BY DEF AttemptIs
  <2>2. h.amount = a
    BY DEF HtlcFor
  <2> QED
    BY <1>1, <2>1, <2>2, HtlcEnds
<1>4. OnWay(A, hops, k, j.from, payee) /\ (k > 0 => a <= hops[k].amount)
  BY DEF AttemptIs
<1> HIDE DEF k, A, hops, L, h, payee
<1>5. k > 0 => u = hops[k].to /\ hops[k].amount \in Nat
  <2> SUFFICES ASSUME k > 0 PROVE u = hops[k].to /\ hops[k].amount \in Nat
    OBVIOUS
  <2>1. k \in 1..(L - 1) /\ k \in 1..L
    BY <1>1
  <2> QED
    BY <1>2, <2>1
<1>6. k = 0 => u = j.from
  BY <1>1, <1>2
<1>7. u # payee /\ a \in Nat
  BY <1>1, <1>2
<1>8. k + 1 < L => v # payee
  <2> SUFFICES ASSUME k + 1 < L PROVE v # payee
    OBVIOUS
  <2>1. k + 1 \in 1..(L - 1) /\ (k + 1) + 1 \in 1..L
    BY <1>1
  <2> QED
    BY <1>2, <2>1
<1>9. k + 1 = L => v = payee /\ a = j.part
  BY <1>2
<1> HIDE DEF u, v, a
<1>10. ASSUME NEW n
       PROVE  /\ Takes(n, A \cup {h}) = Takes(n, A) + (IF u = n THEN a ELSE 0)
              /\ Brings(n, A \cup {h}) = Brings(n, A) + (IF v = n THEN a ELSE 0)
              /\ Takes(n, A) \in Nat /\ Brings(n, A) \in Nat
  BY <1>1, <1>3, FlowMore
<1>11. ASSUME NEW n \in Node \ {j.from, payee}
       PROVE  Takes(n, A \cup {h}) <= Brings(n, A)
  <2>f. /\ Takes(n, A \cup {h}) = Takes(n, A) + (IF u = n THEN a ELSE 0)
        /\ Brings(n, A \cup {h}) = Brings(n, A) + (IF v = n THEN a ELSE 0)
        /\ Takes(n, A) \in Nat /\ Brings(n, A) \in Nat
    BY <1>10
  <2>1. Takes(n, A) + Carried(hops, k, n) <= Brings(n, A)
    BY <1>4 DEF OnWay
  <2>2. CASE u = n
    <3>1. k > 0 /\ Carried(hops, k, n) = hops[k].amount
      BY <1>1, <1>5, <1>6, <2>2 DEF Carried
    <3> QED
      BY <1>4, <1>5, <1>7, <2>f, <2>1, <2>2, <3>1
  <2>3. CASE u # n
    <3>1. Carried(hops, k, n) \in Nat
      BY <1>5 DEF Carried
    <3> QED
      BY <2>f, <2>1, <2>3, <3>1
  <2> QED
    BY <2>2, <2>3
<1>12. Takes(payee, A) = 0 /\ Brings(payee, A) = 0
  BY <1>4 DEF OnWay
<1>13. ASSUME k + 1 < L PROVE OnWay(A \cup {h}, hops, k + 1, j.from, payee)
  <2>f. /\ Takes(payee, A \cup {h}) = Takes(payee, A) + (IF u = payee THEN a ELSE 0)
        /\ Brings(payee, A \cup {h}) = Brings(payee, A) + (IF v = payee THEN a ELSE 0)
        /\ Takes(payee, A) \in Nat /\ Brings(payee, A) \in Nat
    BY <1>10
  <2>1. Takes(payee, A \cup {h}) = 0 /\ Brings(payee, A \cup {h}) = 0
    BY <1>7, <1>8, <2>f, <1>12, <1>13
  <2>2. ASSUME NEW n \in Node \ {j.from, payee}
        PROVE  Takes(n, A \cup {h}) + Carried(hops, k + 1, n) <= Brings(n, A \cup {h})
    <3>1. Carried(hops, k + 1, n) = IF v = n THEN a ELSE 0
      BY <1>1 DEF Carried, v, a
    <3>f. /\ Takes(n, A \cup {h}) = Takes(n, A) + (IF u = n THEN a ELSE 0)
          /\ Brings(n, A \cup {h}) = Brings(n, A) + (IF v = n THEN a ELSE 0)
          /\ Takes(n, A) \in Nat /\ Brings(n, A) \in Nat
      BY <1>10
    <3>2. Takes(n, A \cup {h}) \in Nat
      BY <1>7, <3>f
    <3>3. Takes(n, A \cup {h}) <= Brings(n, A)
      BY <1>11
    <3> QED
      BY <1>7, <3>f, <3>1, <3>2, <3>3
  <2> QED
    BY <2>1, <2>2 DEF OnWay
<1>14. ASSUME k + 1 = L PROVE Passes(A \cup {h}, j.from, payee, j.part)
  <2>f. /\ Takes(payee, A \cup {h}) = Takes(payee, A) + (IF u = payee THEN a ELSE 0)
        /\ Brings(payee, A \cup {h}) = Brings(payee, A) + (IF v = payee THEN a ELSE 0)
        /\ Takes(payee, A) \in Nat /\ Brings(payee, A) \in Nat
    BY <1>10
  <2>1. Takes(payee, A \cup {h}) = 0 /\ Brings(payee, A \cup {h}) = j.part
    BY <1>7, <1>9, <2>f, <1>12, <1>14
  <2>2. ASSUME NEW n \in Node \ {j.from, payee} PROVE Takes(n, A \cup {h}) <= Brings(n, A \cup {h})
    <3>f. /\ Takes(n, A \cup {h}) = Takes(n, A) + (IF u = n THEN a ELSE 0)
          /\ Brings(n, A \cup {h}) = Brings(n, A) + (IF v = n THEN a ELSE 0)
          /\ Takes(n, A) \in Nat /\ Brings(n, A) \in Nat
      BY <1>10
    <3>1. Takes(n, A \cup {h}) \in Nat
      BY <1>7, <3>f
    <3>3. Takes(n, A \cup {h}) <= Brings(n, A)
      BY <1>11
    <3> QED
      BY <1>7, <3>f, <3>1, <3>3
  <2> QED
    BY <2>1, <2>2 DEF Passes
<1> QED
  BY <1>13, <1>14 DEF k, A, hops, L, h, payee

\* HTLCs whose channels can be updated stay so when another's channel is and it returns.
LEMMA SafeElsewhere ==
    ASSUME NEW l, NEW bal, NEW hs, NEW S, Safe(S, l, bal, hs), NEW h
    PROVE  /\ (l[h.chan] # 0 /\ Signable(h.chan, bal, hs \cup {h})) =>
                 Safe(S, l, bal, hs \cup {h}) /\ Safe(S \cup {h}, l, bal, hs \cup {h})
           /\ (l[h.chan] # 0 /\ Signable(h.chan, bal, hs \ {h}) /\ h \notin S) => Safe(S, l, bal, hs \ {h})
<1>1. ASSUME NEW g \in S, g.chan # h.chan
      PROVE  l[g.chan] # 0 /\ Signable(g.chan, bal, hs \cup {h}) /\ Signable(g.chan, bal, hs \ {h})
  <2>1. l[g.chan] # 0 /\ Signable(g.chan, bal, hs)
    BY DEF Safe
  <2>2. Signable(g.chan, bal, hs \cup {h}) /\ Signable(g.chan, bal, hs \ {h})
    BY <1>1, <2>1, SignableElsewhere
  <2> QED
    BY <2>1, <2>2
<1>2. S \subseteq hs
  BY DEF Safe
<1>3. ASSUME l[h.chan] # 0, Signable(h.chan, bal, hs \cup {h})
      PROVE  Safe(S, l, bal, hs \cup {h}) /\ Safe(S \cup {h}, l, bal, hs \cup {h})
  <2>1. \A g \in S \cup {h} : l[g.chan] # 0 /\ Signable(g.chan, bal, hs \cup {h})
    BY <1>1, <1>3
  <2> QED
    BY <1>2, <2>1 DEF Safe
<1>4. ASSUME l[h.chan] # 0, Signable(h.chan, bal, hs \ {h}), h \notin S
      PROVE  Safe(S, l, bal, hs \ {h})
  <2>1. \A g \in S : l[g.chan] # 0 /\ Signable(g.chan, bal, hs \ {h})
    BY <1>1, <1>4
  <2> QED
    BY <1>2, <1>4, <2>1 DEF Safe
<1> QED
  BY <1>3, <1>4

\* Settling one HTLC leaves the others safe.
LEMMA SafeSettled ==
    ASSUME NEW l, NEW bal, NEW hs, Funded(bal, hs), NEW S, Safe(S, l, bal, hs), NEW h \in S
    PROVE  LET new == Transferred(bal, h.chan, h.side, h.amount)
           IN /\ Safe(S \ {h}, l, new, hs \ {h})
              /\ l[h.chan] # 0 /\ Signable(h.chan, new, hs \ {h})
<1> DEFINE new == Transferred(bal, h.chan, h.side, h.amount)
<1>1. S \subseteq hs /\ h \in hs /\ \A g \in S : g.chan \in Chan
  BY DEF Safe, Funded, Htlc
<1>2. \A g \in S : l[g.chan] # 0 /\ Signable(g.chan, new, hs \ {h})
  <2> SUFFICES ASSUME NEW g \in S PROVE l[g.chan] # 0 /\ Signable(g.chan, new, hs \ {h})
    OBVIOUS
  <2>1. l[g.chan] # 0 /\ Signable(g.chan, bal, hs) /\ g.chan \in Chan
    BY <1>1 DEF Safe
  <2> QED
    BY <1>1, <2>1, SignableSettled
<1> HIDE DEF new
<1>3. Safe(S \ {h}, l, new, hs \ {h})
  BY <1>1, <1>2 DEF Safe
<1> QED
  BY <1>2, <1>3 DEF new

\* A part is sent along a route there is, and is no more than what is left.
LEMMA RoutableMax ==
    ASSUME NEW j, CallTyped(j), HeldIs(j), j.left > 0, Routable(j) # {}
    PROVE  LET a == Max(Routable(j))
           IN a \in 1..j.left /\ (~j.multi => a = j.left) /\ RouteFor(j, a) # NoRoute
<1> DEFINE R == Routable(j)
<1>1. j.left \in Nat /\ j.inv.amount \in Nat /\ (~j.multi => j.left = j.inv.amount)
  BY PaymentConstants DEF HeldIs, CallTyped
<1>2. \A a \in R : a \in 1..j.left /\ (~j.multi => a = j.left) /\ RouteFor(j, a) # NoRoute
  BY <1>1 DEF Routable, Probes
<1> HIDE DEF R
<1>3. R \in SUBSET Nat /\ R # {} /\ \A a \in R : a <= j.left
  BY <1>1, <1>2 DEF R
<1>4. PICK a \in R : \A b \in R : b <= a
  BY <1>1, <1>3, NatGreatest
<1>5. \A b \in R : a >= b
  BY <1>3, <1>4
<1>6. Max(R) \in R
  BY <1>5 DEF Max
<1> QED
  BY <1>2, <1>6 DEF R

\* A call that goes on with what has arrived.
LEMMA HeldSame ==
    ASSUME NEW j, HeldIs(j), NEW k, k.held = j.held, k.from = j.from, k.inv = j.inv, k.multi = j.multi,
           k.left = j.left, k.tries \in Nat, j.tries \in Nat, j.tries <= k.tries
    PROVE  HeldIs(k) /\ PartsOf(k) = PartsOf(j)
<1>1. PartsOf(k) = PartsOf(j) /\ (PartsApart(j) => PartsApart(k))
  BY DEF PartsOf, PartsApart
<1>2. \A h \in PartsOf(j) : h.try \in Nat /\ h.try <= j.tries
  BY DEF HeldIs, Htlc
<1>3. \A h \in PartsOf(k) : h.try <= k.tries
  BY <1>1, <1>2
<1> QED
  BY <1>1, <1>3 DEF HeldIs

\* A part arrives.
LEMMA HeldMore ==
    ASSUME NEW j, CallShape(j), CallTyped(j), HeldIs(j), AttemptIs(j),
           Len(j.added) + 1 = Len(j.route.hops),
           NEW k, k.from = j.from, k.inv = j.inv, k.multi = j.multi, k.tries = j.tries,
           k.left = j.left - j.part,
           NEW part, part.added = Append(j.added, HtlcFor(j, Len(j.added) + 1)),
           k.held = Append(j.held, part)
    PROVE  HeldIs(k) /\ PartsOf(k) = PartsOf(j) \cup (Range(j.added) \cup {HtlcFor(j, Len(j.added) + 1)})
<1> DEFINE h == HtlcFor(j, Len(j.added) + 1)
           new == Append(j.added, h)
           A == Range(j.added) \cup {h}
           n == Len(j.held)
<1>1. /\ Range(j.added) \in SUBSET Htlc /\ IsFiniteSet(Range(j.added)) /\ IsInjective(j.added)
      /\ h \in Htlc /\ h \notin Range(j.added) /\ Listing(j.added)
      /\ \A g \in A : g.try = j.tries
  BY AddedShape DEF CallShape
<1>2. Passes(A, j.from, j.inv.payee, j.part)
  BY OneMoreHop
<1> HIDE DEF h
<1>3. Range(new) = A /\ IsInjective(new) /\ A \in SUBSET Htlc /\ IsFiniteSet(A)
  BY <1>1, ListingAppend, DistinctAppend, FS_AddElement
<1>4. /\ n \in Nat /\ DOMAIN j.held = 1..n /\ DOMAIN k.held = 1..(n + 1)
      /\ k.held[n + 1].added = new /\ \A i \in 1..n : k.held[i] = j.held[i]
  <2>1. Listing(j.held)
    BY DEF CallShape
  <2>2. n \in Nat /\ DOMAIN j.held = 1..n
    BY <2>1, ListingFacts
  <2>3. /\ DOMAIN k.held = 1..(n + 1) /\ k.held[n + 1] = part /\ \A i \in DOMAIN j.held : k.held[i] = j.held[i]
    BY <2>1, ListingAppend
  <2> QED
    BY <2>2, <2>3 DEF h
<1> HIDE DEF new, A, n
<1>5. \A i \in 1..(n + 1) : i \in 1..n \/ i = n + 1
  BY <1>4
<1>6. 1..n \subseteq 1..(n + 1) /\ n + 1 \in 1..(n + 1)
  BY <1>4
<1>7. PartsOf(k) = PartsOf(j) \cup A
  BY <1>3, <1>4, <1>5, <1>6 DEF PartsOf
<1>8. PartsOf(j) \cap A = {}
  <2>1. \A g \in PartsOf(j) : g.try \in Nat /\ g.try < j.tries /\ j.tries \in Nat
    BY DEF AttemptIs, HeldIs, Htlc, CallTyped
  <2>2. \A g \in PartsOf(j) : g.try # j.tries
    BY <2>1
  <2> QED
    BY <1>1, <2>2
<1>9. PartsApart(k)
  <2>1. PartsApart(j)
    BY DEF HeldIs
  <2>2. \A i \in 1..n : IsInjective(j.held[i].added) /\ Range(j.held[i].added) \cap A = {}
    BY <1>4, <1>8, <2>1 DEF PartsApart, PartsOf
  <2>3. \A i \in 1..(n + 1) : IsInjective(k.held[i].added)
    BY <1>3, <1>4, <1>5, <2>2
  <2>4. ASSUME NEW i \in 1..(n + 1), NEW m \in 1..(n + 1), i # m
        PROVE  Range(k.held[i].added) \cap Range(k.held[m].added) = {}
    <3>1. CASE i \in 1..n /\ m \in 1..n
      BY <1>4, <2>1, <2>4, <3>1 DEF PartsApart
    <3>2. CASE i \in 1..n /\ m = n + 1
      BY <1>3, <1>4, <2>2, <3>2
    <3>3. CASE i = n + 1 /\ m \in 1..n
      <4>1. Range(k.held[i].added) = A /\ Range(k.held[m].added) \cap A = {}
        BY <1>3, <1>4, <2>2, <3>3
      <4> QED
        BY <4>1
    <3> QED
      BY <1>5, <2>4, <3>1, <3>2, <3>3
  <2> QED
    BY <1>4, <2>3, <2>4 DEF PartsApart
<1>10. /\ j.left \in Nat /\ j.inv.amount \in Nat /\ j.left <= j.inv.amount
       /\ j.part \in Nat \ {0} /\ j.part <= j.left
       /\ (~j.multi => j.left \in {0, j.inv.amount} /\ j.part = j.left)
  BY PaymentConstants DEF HeldIs, AttemptIs, CallTyped
<1>11. Passes(PartsOf(k), k.from, k.inv.payee, k.inv.amount - k.left)
  <2>1. Passes(PartsOf(j), j.from, j.inv.payee, j.inv.amount - j.left)
    BY DEF HeldIs
  <2>2. PartsOf(j) \in SUBSET Htlc /\ IsFiniteSet(PartsOf(j))
    BY DEF HeldIs
  <2>3. j.inv.amount - j.left \in Nat /\ j.part \in Nat
    BY <1>10
  <2>4. Passes(PartsOf(j) \cup A, j.from, j.inv.payee, (j.inv.amount - j.left) + j.part)
    BY <1>2, <1>3, <1>8, <2>1, <2>2, <2>3, PassesBoth DEF A, h
  <2>5. (j.inv.amount - j.left) + j.part = k.inv.amount - k.left
    BY <1>10
  <2> QED
    BY <1>7, <2>4, <2>5
<1>12. PartsOf(k) \in SUBSET Htlc /\ IsFiniteSet(PartsOf(k))
  <2>1. PartsOf(j) \in SUBSET Htlc /\ IsFiniteSet(PartsOf(j))
    BY DEF HeldIs
  <2> QED
    BY <1>3, <1>7, <2>1, FS_Union
<1>13. \A g \in PartsOf(k) : g.try <= k.tries
  <2>1. j.tries \in Nat /\ \A g \in PartsOf(j) : g.try <= j.tries
    BY DEF HeldIs, CallTyped
  <2> QED
    BY <1>1, <1>7, <2>1
<1>14. k.left \in 0..k.inv.amount /\ (~k.multi => k.left \in {0, k.inv.amount})
  BY <1>10
<1> QED
  BY <1>7, <1>9, <1>11, <1>12, <1>13, <1>14 DEF HeldIs, A, h

\* What holds between any two steps, whatever the network.
PaySound == life = Life /\ Funded(balance, pending) /\ CallSound

\* No channel wears, if those with secrets have enough of them.
LEMMA WearKeeps ==
    ASSUME SecretsLast, life = Life, NEW ch \in Chan, Wear(ch)
    PROVE  life' = Life
<1>1. life \in [Chan -> 0..Plenty] /\ life[ch] \in {0, Plenty}
  BY PaymentConstants DEF SecretsLast
<1>2. life' = [life EXCEPT ![ch] = life[ch]]
  BY <1>1 DEF Wear
<1>3. [life EXCEPT ![ch] = life[ch]] = life
  BY <1>1
<1> QED
  BY <1>2, <1>3

\* A call that is over promises nothing more.
LEMMA EndedSound == ASSUME job' = NoJob PROVE CallSound'
<1>1. job'.phase = "none"
  BY DEF NoJob
<1> QED
  BY <1>1 DEF CallSound

\* A call that is undoing everything has nothing more to keep.
LEMMA ReleaseSound ==
    ASSUME CallShape(job), CallTyped(job), NEW todo, job' = Release(job, todo)
    PROVE  CallSound'
<1>1. job' = [job EXCEPT !.phase = "release", !.todo = todo \o HeldBack(job.held)]
  BY DEF Release
<1> DEFINE all == todo \o HeldBack(job.held)
<1> HIDE DEF all
<1>2. job' = [job EXCEPT !.phase = "release", !.todo = all]
  BY <1>1 DEF all
<1>3. /\ job'.phase = "release" /\ job'.from = job.from /\ job'.inv = job.inv
      /\ job'.tries = job.tries /\ job'.multi = job.multi
  BY <1>2 DEF CallShape
<1>4. CallTyped(job')
  BY <1>3 DEF CallTyped
<1> QED
  BY <1>3, <1>4 DEF CallSound

\* A call that goes on sending, with what has arrived and with channels as they were.
LEMMA SendingSound ==
    ASSUME CallTyped(job), HeldIs(job), job.before = WealthOf(balance),
           job.left < job.inv.amount => job.inv \notin settled,
           Safe(PartsOf(job), life', balance', pending'), UNCHANGED <<balance, settled>>,
           job'.held = job.held, job'.from = job.from, job'.inv = job.inv,
           job'.multi = job.multi, job'.left = job.left, job'.before = job.before,
           job'.tries \in Nat, job.tries <= job'.tries, job'.phase \in {"route", "deliver", "undo"},
           job'.phase = "deliver" => AttemptIs(job') /\ Safe(Range(job'.added), life', balance', pending'),
           job'.phase = "undo" => UndoIs(job')
    PROVE  CallSound'
<1>1. CallTyped(job')
  BY DEF CallTyped
<1>2. HeldIs(job') /\ PartsOf(job') = PartsOf(job)
  BY HeldSame DEF CallTyped
<1>3. WealthOf(balance') = WealthOf(balance)
  OBVIOUS
<1> QED
  BY <1>1, <1>2, <1>3 DEF CallSound

\* One lemma for each action: PaySound holds after it.
LEMMA PaySoundPay ==
    ASSUME PaySound, NEW n \in Node, NEW inv \in Invoice, NEW multi \in BOOLEAN, Pay(n, inv, multi)
    PROVE  PaySound'
<1>1. /\ n # inv.payee /\ job' = Call(n, inv, multi) /\ UNCHANGED <<balance, pending, life, settled>>
  BY DEF Pay, channels
<1>2. /\ job'.phase = "route" /\ job'.from = n /\ job'.inv = inv /\ job'.multi = multi
      /\ job'.left = inv.amount /\ job'.tries = 0 /\ job'.held = <<>> /\ job'.before = Wealth
  BY <1>1 DEF Call
<1>3. inv.amount \in Nat \ {0} /\ inv.payee \in Node
  BY PaymentConstants
<1>4. CallTyped(job')
  BY <1>1, <1>2 DEF CallTyped
<1>5. PartsOf(job') = {} /\ PartsApart(job')
  BY <1>2 DEF PartsOf, PartsApart
<1>6. Passes({}, n, inv.payee, 0)
  BY FlowNone DEF Passes
<1>7. HeldIs(job')
  <2>1. inv.amount - inv.amount = 0 /\ inv.amount \in 0..inv.amount
    BY <1>3
  <2> QED
    BY <1>2, <1>5, <1>6, <2>1, FS_EmptySet DEF HeldIs
<1>8. Safe({}, life', balance', pending')
  BY DEF Safe
<1>9. Wealth = WealthOf(balance')
  BY <1>1, WealthIs DEF WealthOf
<1>10. ~(job'.left < job'.inv.amount)
  BY <1>2, <1>3
<1>11. CallSound'
  BY <1>2, <1>4, <1>5, <1>7, <1>8, <1>9, <1>10 DEF CallSound
<1> QED
  BY <1>1, <1>11 DEF PaySound

LEMMA PaySoundStartPart ==
    ASSUME PaySound, job # NoJob => CallShape(job), StartPart
    PROVE  PaySound'
<1> DEFINE part == Max(Routable(job))
           found == RouteFor(job, part)
<1>1. /\ job.phase = "route" /\ job # NoJob /\ job.left > 0 /\ Routable(job) # {}
      /\ job' = Deliver(part) /\ UNCHANGED <<balance, pending, life, settled>>
  BY DEF StartPart, channels, NoJob
<1>2. CallShape(job) /\ CallTyped(job) /\ HeldIs(job)
  BY <1>1 DEF PaySound, CallSound
<1>3. part \in 1..job.left /\ (~job.multi => part = job.left) /\ found # NoRoute
  BY <1>1, <1>2, RoutableMax
<1>4. job.left \in Nat /\ job.inv.amount \in Nat
  BY <1>2, PaymentConstants DEF HeldIs, CallTyped
<1>5. RouteShape(found, job.from, job.inv.payee, part)
  <2>1. part \in Nat \ {0}
    BY <1>3, <1>4
  <2> QED
    BY <1>2, <1>3, <2>1, RouteForShape DEF CallTyped
<1>6. job' = [job EXCEPT !.phase = "deliver", !.tries = @ + 1, !.part = part, !.route = found, !.added = <<>>]
  BY <1>1 DEF Deliver
<1> HIDE DEF found, part
<1>7. /\ job'.phase = "deliver" /\ job'.tries = job.tries + 1 /\ job'.part = part /\ job'.route = found
      /\ job'.added = <<>> /\ job'.held = job.held /\ job'.from = job.from /\ job'.inv = job.inv
      /\ job'.multi = job.multi /\ job'.left = job.left /\ job'.before = job.before
  BY <1>2, <1>6 DEF CallShape
<1>8. job.tries \in Nat /\ job'.tries \in Nat /\ job.tries <= job'.tries
  BY <1>2, <1>7 DEF CallTyped
<1>9. Len(job'.added) = 0 /\ Range(job'.added) = {}
  BY <1>7, ListingNone
<1>10. AttemptIs(job')
  <2>1. OnWay({}, found.hops, 0, job.from, job.inv.payee)
    <3>1. \A n : Carried(found.hops, 0, n) = 0
      BY DEF Carried
    <3> QED
      BY <3>1, FlowNone DEF OnWay
  <2>2. \A h \in PartsOf(job') : h.try < job'.tries
    <3>1. PartsOf(job') = PartsOf(job)
      BY <1>7 DEF PartsOf
    <3>2. \A h \in PartsOf(job) : h.try \in Nat /\ h.try <= job.tries
      BY <1>2 DEF HeldIs, Htlc
    <3> QED
      BY <1>7, <1>8, <3>1, <3>2
  <2>3. Len(job'.added) < Len(job'.route.hops) /\ 1..Len(job'.added) = {}
    BY <1>5, <1>7, <1>9 DEF RouteShape
  <2>4. ~(Len(job'.added) > 0)
    BY <1>9
  <2> QED
    BY <1>3, <1>5, <1>7, <1>9, <2>1, <2>2, <2>3, <2>4 DEF AttemptIs
<1>11. Safe(PartsOf(job), life', balance', pending') /\ Safe(Range(job'.added), life', balance', pending')
  <2>1. Safe(PartsOf(job), life, balance, pending)
    BY <1>1 DEF PaySound, CallSound
  <2> QED
    BY <1>1, <1>9, <2>1 DEF Safe
<1>12. job.before = WealthOf(balance) /\ (job.left < job.inv.amount => job.inv \notin settled)
  BY <1>1 DEF PaySound, CallSound
<1>13. CallSound'
  BY <1>1, <1>2, <1>7, <1>8, <1>10, <1>11, <1>12, SendingSound
<1> QED
  BY <1>1, <1>13 DEF PaySound

LEMMA PaySoundGiveUp ==
    ASSUME PaySound, job # NoJob => CallShape(job), GiveUp
    PROVE  PaySound'
<1>1. /\ job.phase = "route" /\ job # NoJob /\ job' = Release(job, <<>>)
      /\ UNCHANGED <<balance, pending, life, settled>>
  BY DEF GiveUp, channels, NoJob
<1>2. CallSound'
  BY <1>1, ReleaseSound DEF PaySound, CallSound
<1> QED
  BY <1>1, <1>2 DEF PaySound

\* An attempt that failed, after which channels can still be updated.
LEMMA FailPartSound ==
    ASSUME CallShape(job), CallTyped(job), HeldIs(job), AttemptIs(job), job.phase = "deliver",
           job.before = WealthOf(balance), job.left < job.inv.amount => job.inv \notin settled,
           Safe(PartsOf(job), life', balance', pending'), UNCHANGED <<balance, settled>>,
           NEW blame, NEW added, Listing(added), \A h \in Range(added) : h.try = job.tries,
           job' = FailPart(blame, added)
    PROVE  CallSound'
<1>1. CASE blame = {}
  BY <1>1, ReleaseSound DEF FailPart
<1>2. CASE blame # {}
  <2> DEFINE back == Reverse(added)
  <2>1. Range(back) = Range(added)
    BY ListingReverse
  <2>2. job' = [job EXCEPT !.phase = "undo", !.exclude = @ \cup blame, !.todo = back, !.parts = @ + 1]
    BY <1>2 DEF FailPart
  <2> HIDE DEF back
  <2>3. /\ job'.phase = "undo" /\ job'.todo = back /\ job'.held = job.held /\ job'.from = job.from
        /\ job'.inv = job.inv /\ job'.multi = job.multi /\ job'.left = job.left
        /\ job'.before = job.before /\ job'.tries = job.tries
    BY <2>2 DEF CallShape
  <2>4. UndoIs(job')
    <3>1. PartsOf(job') = PartsOf(job)
      BY <2>3 DEF PartsOf
    <3> QED
      BY <2>1, <2>3, <3>1 DEF UndoIs, AttemptIs
  <2>5. job'.tries \in Nat /\ job.tries <= job'.tries
    BY <2>3 DEF CallTyped
  <2> QED
    BY <2>3, <2>4, <2>5, SendingSound
<1> QED
  BY <1>1, <1>2

LEMMA PaySoundHopRefused ==
    ASSUME PaySound, job # NoJob => CallShape(job), HopRefused
    PROVE  PaySound'
<1>1. /\ job.phase = "deliver" /\ job # NoJob /\ job' = FailPart({CurrentHop.chan}, job.added)
      /\ UNCHANGED <<balance, pending, life, settled>>
  BY DEF HopRefused, channels, NoJob
<1>2. /\ CallShape(job) /\ CallTyped(job) /\ HeldIs(job) /\ AttemptIs(job)
      /\ job.before = WealthOf(balance) /\ (job.left < job.inv.amount => job.inv \notin settled)
      /\ Safe(PartsOf(job), life, balance, pending)
  BY <1>1 DEF PaySound, CallSound
<1>3. Listing(job.added) /\ \A h \in Range(job.added) : h.try = job.tries
  BY <1>2, AddedShape DEF CallShape
<1>4. Safe(PartsOf(job), life', balance', pending')
  BY <1>1, <1>2
<1>5. CallSound'
  BY <1>1, <1>2, <1>3, <1>4, FailPartSound
<1> QED
  BY <1>1, <1>5 DEF PaySound

\* What follows an HTLC: the part fails, arrives, or goes on.
LEMMA AfterHopIs ==
    ASSUME NEW h
    PROVE  LET added == Append(job.added, h)
               r == AfterHop(h)
           IN \/ \E blame : r = FailPart(blame, added)
              \/ /\ IsFinal /\ job.inv \notin settled
                 /\ r = [job EXCEPT !.phase = "route", !.added = <<>>, !.left = @ - job.part,
                                    !.parts = @ + 1,
                                    !.held = Append(@, [amount |-> job.part, added |-> added])]
              \/ /\ ~IsFinal /\ ~(Payload.amount >= IncomingAmount)
                 /\ r = [job EXCEPT !.added = added]
<1> DEFINE added == Append(job.added, h)
           r == AfterHop(h)
           arrives == [job EXCEPT !.phase = "route", !.added = <<>>, !.left = @ - job.part,
                                  !.parts = @ + 1,
                                  !.held = Append(@, [amount |-> job.part, added |-> added])]
           goes == [job EXCEPT !.added = added]
           fails(blame) == FailPart(blame, added)
<1>1. r = CASE ~IsFinal /\ (Payload.amount >= IncomingAmount \/ Payload.cltv >= IncomingCltv)
                 -> fails({Payload.chan})
            [] IsFinal /\ (job.inv \in Unissued \/ job.inv \in settled) -> fails({})
            [] IsFinal /\ job.inv \notin Unissued \cup settled -> arrives
            [] OTHER -> goes
  BY DEF AfterHop
<1> HIDE DEF r, arrives, goes, fails
<1>2. CASE IsFinal
  <2>1. CASE job.inv \in Unissued \/ job.inv \in settled
    <3>1. r = fails({})
      BY <1>1, <1>2, <2>1
    <3> QED
      BY <3>1 DEF r, fails
  <2>2. CASE ~(job.inv \in Unissued \/ job.inv \in settled)
    <3>1. r = arrives
      BY <1>1, <1>2, <2>2
    <3> QED
      BY <1>2, <2>2, <3>1 DEF r, arrives
  <2> QED
    BY <2>1, <2>2
<1>3. CASE ~IsFinal
  <2>1. CASE Payload.amount >= IncomingAmount \/ Payload.cltv >= IncomingCltv
    <3>1. r = fails({Payload.chan})
      BY <1>1, <1>3, <2>1
    <3> QED
      BY <3>1 DEF r, fails
  <2>2. CASE ~(Payload.amount >= IncomingAmount \/ Payload.cltv >= IncomingCltv)
    <3>1. r = goes
      BY <1>1, <1>3, <2>2
    <3> QED
      BY <1>3, <2>2, <3>1 DEF r, goes
  <2> QED
    BY <2>1, <2>2
<1> QED
  BY <1>2, <1>3

\* A hop's HTLC has the amount the payer's route gives it.
LEMMA NewHtlcIs ==
    ASSUME CallShape(job), CallTyped(job), AttemptIs(job)
    PROVE  /\ NewHtlc = HtlcFor(job, Len(job.added) + 1)
           /\ IncomingAmount = job.route.hops[Len(job.added) + 1].amount
<1>1. Len(job.added) \in Nat
  BY AddedShape
<1>2. job.route.total = job.route.hops[1].amount
  BY DEF AttemptIs, RouteShape
<1>3. IncomingAmount = job.route.hops[Len(job.added) + 1].amount
  <2>1. CASE Len(job.added) + 1 = 1
    BY <1>2, <2>1 DEF IncomingAmount, HopIndex
  <2>2. CASE Len(job.added) + 1 # 1
    BY <2>2 DEF IncomingAmount, HopIndex, CurrentHop
  <2> QED
    BY <2>1, <2>2
<1>4. CurrentHop = job.route.hops[Len(job.added) + 1]
  BY DEF CurrentHop, HopIndex
<1> QED
  BY <1>3, <1>4 DEF NewHtlc, HtlcFor

LEMMA PaySoundAddHop ==
    ASSUME SecretsLast, PaySound, job # NoJob => CallShape(job), AddHop
    PROVE  PaySound'
<1> DEFINE k == Len(job.added)
           h == HtlcFor(job, k + 1)
           new == Append(job.added, h)
           A == Range(job.added) \cup {h}
           hops == job.route.hops
<1>1. /\ job.phase = "deliver" /\ job # NoJob
      /\ Spendable(NewHtlc.chan, NewHtlc.side) >= IncomingAmount
      /\ pending' = pending \cup {NewHtlc} /\ UNCHANGED <<balance, settled>>
      /\ Returning(NewHtlc.chan, AfterHop(NewHtlc))
  BY DEF AddHop, NoJob
<1>2. /\ CallShape(job) /\ CallTyped(job) /\ HeldIs(job) /\ AttemptIs(job)
      /\ job.before = WealthOf(balance) /\ (job.left < job.inv.amount => job.inv \notin settled)
      /\ Safe(PartsOf(job), life, balance, pending) /\ Safe(Range(job.added), life, balance, pending)
      /\ life = Life /\ Funded(balance, pending)
  BY <1>1 DEF PaySound, CallSound
<1>3. NewHtlc = h /\ IncomingAmount = h.amount /\ h.amount = hops[k + 1].amount
  BY <1>2, NewHtlcIs DEF HtlcFor
<1>4. /\ k \in Nat /\ k + 1 \in 1..Len(hops) /\ DOMAIN job.added = 1..k /\ Listing(job.added)
      /\ h \in Htlc /\ \A g \in A : g.try = job.tries
  BY <1>2, AddedShape DEF CallShape
<1>5. h.chan \in Chan /\ h.amount \in Nat
  BY <1>4 DEF Htlc
<1>6. Funded(balance', pending')
  <2>1. Spendable(h.chan, h.side) = balance[h.chan][h.side] - Amounts(OfferedIn(pending, h.chan, h.side))
    BY DEF Spendable, Offered, OfferedIn
  <2>2. balance[h.chan][h.side] \in Nat /\ Amounts(OfferedIn(pending, h.chan, h.side)) \in Nat
    BY <1>2, <1>4, OfferedShape DEF Funded, Balances, Htlc
  <2>3. h.amount <= balance[h.chan][h.side] - Amounts(OfferedIn(pending, h.chan, h.side))
    BY <1>1, <1>3, <1>5, <2>1, <2>2
  <2> QED
    BY <1>1, <1>2, <1>3, <1>4, <2>3, FundedMore
<1>7. life' = Life
  BY <1>1, <1>2, <1>3, <1>5, WearKeeps DEF Returning
<1>8. Listing(new) /\ Range(new) = A
  BY <1>4, ListingAppend
<1>9. ASSUME ~Worn(h.chan), Signable(h.chan, balance', pending'), job' = AfterHop(h)
      PROVE  CallSound'
  <2>1. life[h.chan] # 0 /\ pending' = pending \cup {h} /\ life' = life /\ balance' = balance
    BY <1>1, <1>2, <1>3, <1>7, <1>9 DEF Worn
  <2>2. /\ Safe(PartsOf(job), life', balance', pending') /\ Safe(PartsOf(job) \cup {h}, life', balance', pending')
        /\ Safe(A, life', balance', pending')
    BY <1>2, <1>9, <2>1, SafeElsewhere
  <2>3. CASE \E blame : job' = FailPart(blame, new)
    <3> HIDE DEF new, A
    <3> QED
      BY <1>1, <1>2, <1>4, <1>8, <2>2, <2>3, FailPartSound
  <2>4. CASE /\ IsFinal /\ job.inv \notin settled
             /\ job' = [job EXCEPT !.phase = "route", !.added = <<>>, !.left = @ - job.part,
                                   !.parts = @ + 1,
                                   !.held = Append(@, [amount |-> job.part, added |-> new])]
    <3> DEFINE part == [amount |-> job.part, added |-> new]
    <3>1. part.added = new
      OBVIOUS
    <3>2. k + 1 = Len(hops)
      BY <2>4 DEF IsFinal, HopIndex
    <3> HIDE DEF part
    <3>3. /\ job'.phase = "route" /\ job'.left = job.left - job.part /\ job'.held = Append(job.held, part)
          /\ job'.from = job.from /\ job'.inv = job.inv /\ job'.multi = job.multi
          /\ job'.before = job.before /\ job'.tries = job.tries
      BY <1>2, <2>4 DEF CallShape, part
    <3>4. HeldIs(job') /\ PartsOf(job') = PartsOf(job) \cup A
      BY <1>2, <3>1, <3>2, <3>3, HeldMore
    <3>5. CallTyped(job')
      BY <1>2, <3>3 DEF CallTyped
    <3>6. Safe(PartsOf(job'), life', balance', pending')
      BY <2>2, <3>4 DEF Safe
    <3>7. WealthOf(balance') = WealthOf(balance)
      BY <2>1
    <3> QED
      BY <1>1, <1>2, <2>4, <3>3, <3>4, <3>5, <3>6, <3>7 DEF CallSound
  <2>5. CASE ~IsFinal /\ ~(Payload.amount >= IncomingAmount) /\ job' = [job EXCEPT !.added = new]
    <3>1. Len(hops) \in Nat
      BY <1>2 DEF AttemptIs, RouteShape
    <3>2. k + 1 < Len(hops) /\ (k + 1) + 1 \in 1..Len(hops)
      BY <1>4, <2>5, <3>1 DEF IsFinal, HopIndex
    <3>3. hops[(k + 1) + 1].amount <= hops[k + 1].amount
      <4>1. Payload = hops[(k + 1) + 1]
        BY DEF Payload, HopIndex
      <4>2. hops[(k + 1) + 1].amount \in Nat /\ hops[k + 1].amount \in Nat
        BY <1>2, <1>4, <3>2 DEF AttemptIs, RouteShape, HopShape
      <4> QED
        BY <1>3, <2>5, <4>1, <4>2
    <3>4. Len(new) = k + 1 /\ DOMAIN new = 1..(k + 1) /\ new[k + 1] = h /\ \A i \in 1..k : new[i] = job.added[i]
      <4>1. DOMAIN new = 1..(k + 1) /\ new[k + 1] = h /\ \A i \in 1..k : new[i] = job.added[i]
        BY <1>4, ListingAppend
      <4>2. Len(new) \in Nat /\ DOMAIN new = 1..Len(new)
        BY <1>8, ListingFacts
      <4>3. Len(new) = k + 1
        <5> DEFINE m == Len(new)
        <5>1. 1..m = 1..(k + 1) /\ m \in Nat /\ k + 1 \in Nat
          BY <1>4, <4>1, <4>2
        <5> HIDE DEF m
        <5> QED
          BY <5>1 DEF m
      <4> QED
        BY <4>1, <4>3
    <3>5. \A i \in 1..(k + 1) : new[i] = HtlcFor(job, i)
      <4>1. \A i \in 1..(k + 1) : i \in 1..k \/ i = k + 1
        BY <1>4
      <4>2. \A i \in 1..k : job.added[i] = HtlcFor(job, i)
        BY <1>2 DEF AttemptIs
      <4> QED
        BY <3>4, <4>1, <4>2
    <3>6. OnWay(A, hops, k + 1, job.from, job.inv.payee)
      BY <1>2, <3>2, OneMoreHop
    <3> HIDE DEF new, A, h
    <3>7. /\ job'.phase = "deliver" /\ job'.added = new /\ job'.held = job.held /\ job'.from = job.from
          /\ job'.inv = job.inv /\ job'.multi = job.multi /\ job'.left = job.left
          /\ job'.before = job.before /\ job'.tries = job.tries /\ job'.route = job.route
          /\ job'.part = job.part
      BY <1>1, <1>2, <2>5 DEF CallShape
    <3>8. PartsOf(job') = PartsOf(job) /\ \A i : HtlcFor(job', i) = HtlcFor(job, i)
      BY <3>7 DEF PartsOf, HtlcFor
    <3>9. AttemptIs(job')
      BY <1>2, <1>8, <3>2, <3>3, <3>4, <3>5, <3>6, <3>7, <3>8 DEF AttemptIs
    <3>10. job'.tries \in Nat /\ job.tries <= job'.tries
      BY <1>2, <3>7 DEF CallTyped
    <3> QED
      BY <1>1, <1>2, <1>8, <2>2, <3>7, <3>9, <3>10, SendingSound
  <2> QED
    BY <1>3, <1>9, <2>3, <2>4, <2>5, AfterHopIs
<1>10. CASE ~Worn(h.chan) /\ Signable(h.chan, balance', pending') /\ job' = AfterHop(h)
  BY <1>6, <1>7, <1>9, <1>10 DEF PaySound
<1>11. CASE job' = NoJob
  BY <1>6, <1>7, <1>11, EndedSound DEF PaySound
<1> QED
  BY <1>1, <1>3, <1>10, <1>11 DEF Returning

LEMMA PaySoundFailNext ==
    ASSUME SecretsLast, PaySound, job # NoJob => CallShape(job), FailNext
    PROVE  PaySound'
<1> DEFINE h == Head(job.todo)
           rest == Tail(job.todo)
           next == [job EXCEPT !.todo = rest]
<1>1. /\ job.phase \in {"undo", "release"} /\ job # NoJob /\ job.todo # <<>>
      /\ pending' = pending \ {h} /\ UNCHANGED <<balance, settled>>
      /\ Returning(h.chan, next)
  BY DEF FailNext, NoJob
<1>2. CallShape(job) /\ CallTyped(job) /\ life = Life /\ Funded(balance, pending) /\ Listing(job.todo)
  BY <1>1 DEF PaySound, CallSound, CallShape
<1>3. Listing(rest) /\ Range(job.todo) = {h} \cup Range(rest)
  BY <1>1, <1>2, ListingTail
<1> HIDE DEF h, rest
<1>4. Funded(balance', pending')
  BY <1>1, <1>2, FundedLess
<1>5. life' = life
  <2>1. CASE h.chan \in Chan
    BY <1>1, <1>2, <2>1, WearKeeps DEF Returning
  <2>2. CASE h.chan \notin Chan
    <3>1. life \in [Chan -> 0..Plenty]
      BY <1>2, PaymentConstants
    <3> QED
      BY <1>1, <2>2, <3>1 DEF Returning, Wear
  <2> QED
    BY <2>1, <2>2
<1>6. /\ next.phase = job.phase /\ next.todo = rest /\ next.held = job.held /\ next.from = job.from
      /\ next.inv = job.inv /\ next.multi = job.multi /\ next.left = job.left
      /\ next.before = job.before /\ next.tries = job.tries
  BY <1>2 DEF CallShape
<1> HIDE DEF next
<1>7. ASSUME ~Worn(h.chan), Signable(h.chan, balance', pending'), job' = next
      PROVE  CallSound'
  <2>1. CASE job.phase = "release"
    BY <1>1, <1>2, <1>6, <1>7, <2>1 DEF CallSound, CallTyped
  <2>2. CASE job.phase = "undo"
    <3>1. /\ HeldIs(job) /\ UndoIs(job) /\ job.before = WealthOf(balance)
          /\ (job.left < job.inv.amount => job.inv \notin settled)
          /\ Safe(PartsOf(job), life, balance, pending)
      BY <2>2 DEF PaySound, CallSound
    <3>2. h \notin PartsOf(job)
      <4>1. h.try = job.tries
        BY <1>3, <3>1 DEF UndoIs
      <4>2. \A g \in PartsOf(job) : g.try < job.tries
        BY <3>1 DEF UndoIs
      <4>3. job.tries \in Nat
        BY <1>2 DEF CallTyped
      <4> QED
        BY <4>1, <4>2, <4>3
    <3>3. Safe(PartsOf(job), life', balance', pending')
      BY <1>1, <1>5, <1>7, <3>1, <3>2, SafeElsewhere DEF Worn
    <3>4. UndoIs(job')
      <4>1. PartsOf(job') = PartsOf(job)
        BY <1>6, <1>7 DEF PartsOf
      <4> QED
        BY <1>3, <1>6, <1>7, <3>1, <4>1 DEF UndoIs
    <3>5. job'.tries \in Nat /\ job.tries <= job'.tries
      BY <1>2, <1>6, <1>7 DEF CallTyped
    <3>6. job'.phase = "undo"
      BY <1>6, <1>7, <2>2
    <3> QED
      BY <1>1, <1>2, <1>6, <1>7, <3>1, <3>3, <3>4, <3>5, <3>6, SendingSound
  <2> QED
    BY <1>1, <2>1, <2>2
<1>8. CASE ~Worn(h.chan) /\ Signable(h.chan, balance', pending') /\ job' = next
  BY <1>2, <1>4, <1>5, <1>7, <1>8 DEF PaySound
<1>9. CASE job' = NoJob
  BY <1>2, <1>4, <1>5, <1>9, EndedSound DEF PaySound
<1> QED
  BY <1>1, <1>8, <1>9 DEF Returning

LEMMA PaySoundUndone ==
    ASSUME PaySound, job # NoJob => CallShape(job), Undone
    PROVE  PaySound'
<1>1. /\ job.phase \in {"undo", "release"} /\ job # NoJob
      /\ UNCHANGED <<balance, pending, life, settled>>
      /\ job' = IF job.phase = "undo" THEN [job EXCEPT !.phase = "route"] ELSE NoJob
  BY DEF Undone, channels, NoJob
<1>2. CASE job.phase = "undo"
  <2>1. CallShape(job) /\ CallTyped(job) /\ job' = [job EXCEPT !.phase = "route"]
    BY <1>1, <1>2 DEF PaySound, CallSound
  <2>2. /\ job'.phase = "route" /\ job'.held = job.held /\ job'.from = job.from
        /\ job'.inv = job.inv /\ job'.multi = job.multi /\ job'.left = job.left
        /\ job'.before = job.before /\ job'.tries = job.tries
    BY <2>1 DEF CallShape
  <2>3. /\ HeldIs(job) /\ job.before = WealthOf(balance)
        /\ (job.left < job.inv.amount => job.inv \notin settled)
        /\ Safe(PartsOf(job), life', balance', pending')
    BY <1>1, <1>2 DEF PaySound, CallSound
  <2>4. job'.tries \in Nat /\ job.tries <= job'.tries
    BY <2>1, <2>2 DEF CallTyped
  <2>5. CallSound'
    BY <1>1, <2>1, <2>2, <2>3, <2>4, SendingSound
  <2> QED
    BY <1>1, <2>5 DEF PaySound
<1>3. CASE job.phase = "release"
  <2>1. CallSound'
    BY <1>1, <1>3, EndedSound
  <2> QED
    BY <1>1, <2>1 DEF PaySound
<1> QED
  BY <1>1, <1>2, <1>3

LEMMA PaySoundBeginSettle ==
    ASSUME PaySound, job # NoJob => CallShape(job), BeginSettle
    PROVE  PaySound'
<1> DEFINE T == PartsOf(job)
           w == WealthOf(balance)
           back == HeldBack(job.held)
           payee == job.inv.payee
<1>1. /\ job.phase = "route" /\ job # NoJob /\ job.left = 0
      /\ job' = [job EXCEPT !.phase = "settle", !.todo = back]
      /\ UNCHANGED <<balance, pending, life, settled>>
  BY DEF BeginSettle, channels, NoJob
<1>2. /\ CallShape(job) /\ CallTyped(job) /\ HeldIs(job) /\ job.before = w
      /\ (job.left < job.inv.amount => job.inv \notin settled)
      /\ Safe(T, life, balance, pending) /\ Funded(balance, pending)
  BY <1>1 DEF PaySound, CallSound
<1>3. Range(back) = T /\ IsInjective(back)
  BY <1>2, HeldBackDistinct DEF HeldIs
<1>4. job.inv.amount \in Nat \ {0} /\ payee \in Node
  BY <1>2, PaymentConstants DEF CallTyped
<1>5. job.inv \notin settled
  BY <1>1, <1>2, <1>4
<1>6. Takes(payee, T) = 0 /\ Brings(payee, T) = job.inv.amount
      /\ \A n \in Node \ {job.from, payee} : Takes(n, T) <= Brings(n, T)
  <2>1. job.inv.amount - job.left = job.inv.amount
    BY <1>1, <1>4
  <2> QED
    BY <1>2, <2>1 DEF HeldIs, Passes
<1>7. w \in [Node -> Nat]
  BY <1>2, WealthTypes DEF WealthOf, Funded
<1>8. T \in SUBSET Htlc /\ IsFiniteSet(T)
  BY <1>2 DEF HeldIs
<1>9. \A n : Takes(n, T) \in Nat /\ Brings(n, T) \in Nat
  <2> HIDE DEF T
  <2>1. T \cap {} = {} /\ {} \in SUBSET Htlc /\ IsFiniteSet({})
    BY FS_EmptySet
  <2> QED
    BY <1>8, <2>1, FlowSplit
<1> HIDE DEF back, T, w
<1>10. /\ job'.phase = "settle" /\ job'.todo = back /\ job'.from = job.from /\ job'.inv = job.inv
       /\ job'.before = job.before /\ job'.tries = job.tries /\ job'.multi = job.multi
  BY <1>1, <1>2 DEF CallShape
<1>11. SettleIs(job', w)
  <2>1. w[payee] + Brings(payee, T) = w[payee] + job.inv.amount + Takes(payee, T)
    BY <1>4, <1>6, <1>7
  <2>2. \A n \in Node \ {job.from, payee} : w[n] + Takes(n, T) <= w[n] + Brings(n, T)
    <3> SUFFICES ASSUME NEW n \in Node \ {job.from, payee} PROVE w[n] + Takes(n, T) <= w[n] + Brings(n, T)
      OBVIOUS
    <3>1. w[n] \in Nat /\ Takes(n, T) \in Nat /\ Brings(n, T) \in Nat /\ Takes(n, T) <= Brings(n, T)
      BY <1>6, <1>7, <1>9
    <3> QED
      BY <3>1
  <2> QED
    BY <1>2, <1>3, <1>7, <1>10, <2>1, <2>2 DEF SettleIs
<1>12. CallTyped(job')
  BY <1>2, <1>10 DEF CallTyped
<1>13. WealthOf(balance') = w
  BY <1>1 DEF w
<1>14. Safe(Range(job'.todo), life', balance', pending')
  BY <1>1, <1>2, <1>3, <1>10
<1>15. CallSound'
  BY <1>1, <1>5, <1>10, <1>11, <1>12, <1>13, <1>14 DEF CallSound
<1> QED
  BY <1>1, <1>15 DEF PaySound

\* What one HTLC less to settle is the money it moves.
LEMMA SettleOn ==
    ASSUME NEW bal, bal \in Balances, NEW h \in Htlc, h.amount <= bal[h.chan][h.side],
           NEW j, CallTyped(j), SettleIs(j, WealthOf(bal)), Range(j.todo) \in SUBSET Htlc,
           IsFiniteSet(Range(j.todo)), h \in Range(j.todo),
           NEW k, k.from = j.from, k.inv = j.inv, k.before = j.before,
           IsInjective(k.todo), Range(k.todo) = Range(j.todo) \ {h}
    PROVE  SettleIs(k, WealthOf(Transferred(bal, h.chan, h.side, h.amount)))
<1> DEFINE w == WealthOf(bal)
           new == Transferred(bal, h.chan, h.side, h.amount)
           x == WealthOf(new)
           T == Range(j.todo)
           R == T \ {h}
           a == h.amount
           u == PaidBy(h)
           v == PaidTo(h)
           payee == j.inv.payee
<1>1. h.chan \in Chan /\ h.side \in Side /\ a \in Nat /\ payee \in Node
  BY PaymentConstants DEF Htlc, CallTyped
<1>2. u \in Node /\ v \in Node /\ u # v
  BY <1>1, EndsApart DEF PaidBy, PaidTo
<1>3. new \in Balances
  BY <1>1, TransferAt
<1>4. \A n \in Node : /\ w[n] = WealthIn(bal, n) /\ w[n] \in Nat
                      /\ x[n] = WealthIn(new, n) /\ x[n] \in Nat
  BY <1>3, WealthTypes DEF WealthOf
<1>5. \A n \in Node : x[n] = w[n] - (IF n = u THEN a ELSE 0) + (IF n = v THEN a ELSE 0)
  BY <1>1, <1>4, WealthMoves DEF PaidBy, PaidTo
<1>6. R \in SUBSET Htlc /\ IsFiniteSet(R) /\ h \notin R /\ R \cup {h} = T
  BY FS_Subset
<1> HIDE DEF w, new, x, R, u, v, payee
<1>7. ASSUME NEW n
      PROVE  /\ Takes(n, T) = Takes(n, R) + (IF u = n THEN a ELSE 0)
             /\ Brings(n, T) = Brings(n, R) + (IF v = n THEN a ELSE 0)
             /\ Takes(n, R) \in Nat /\ Brings(n, R) \in Nat
  <2> HIDE DEF T
  <2> QED
    BY <1>6, FlowMore DEF u, v
<1> HIDE DEF T, a
<1>8. SumFunctionOnSet(x, Node) = SumFunctionOnSet(w, Node)
  BY <1>1, <1>2, <1>4, <1>5, TotalMoves
<1>9. ASSUME NEW n \in Node
      PROVE  /\ x[n] \in Nat /\ w[n] \in Nat /\ Takes(n, R) \in Nat /\ Brings(n, R) \in Nat
             /\ Takes(n, T) \in Nat /\ Brings(n, T) \in Nat
             /\ x[n] + Brings(n, R) + Takes(n, T) = w[n] + Brings(n, T) + Takes(n, R)
  <2>1. x[n] \in Nat /\ w[n] \in Nat /\ x[n] = w[n] - (IF n = u THEN a ELSE 0) + (IF n = v THEN a ELSE 0)
    BY <1>4, <1>5
  <2>2. /\ Takes(n, T) = Takes(n, R) + (IF u = n THEN a ELSE 0)
        /\ Brings(n, T) = Brings(n, R) + (IF v = n THEN a ELSE 0)
        /\ Takes(n, R) \in Nat /\ Brings(n, R) \in Nat
    BY <1>7
  <2> QED
    BY <1>1, <2>1, <2>2
<1>10. /\ j.before \in [Node -> Nat] /\ j.inv.amount \in Nat
       /\ SumFunctionOnSet(w, Node) = SumFunctionOnSet(j.before, Node)
       /\ w[payee] + Brings(payee, T) = j.before[payee] + j.inv.amount + Takes(payee, T)
       /\ \A n \in Node \ {j.from, payee} : j.before[n] + Takes(n, T) <= w[n] + Brings(n, T)
  BY PaymentConstants DEF SettleIs, CallTyped, w, T, payee
<1>11. x[payee] + Brings(payee, R) = j.before[payee] + j.inv.amount + Takes(payee, R)
  <2>1. j.before[payee] \in Nat
    BY <1>1, <1>10
  <2>2. /\ x[payee] \in Nat /\ w[payee] \in Nat /\ Takes(payee, R) \in Nat /\ Brings(payee, R) \in Nat
        /\ Takes(payee, T) \in Nat /\ Brings(payee, T) \in Nat
        /\ x[payee] + Brings(payee, R) + Takes(payee, T) = w[payee] + Brings(payee, T) + Takes(payee, R)
    BY <1>1, <1>9
  <2> QED
    BY <1>10, <2>1, <2>2
<1>12. ASSUME NEW n \in Node \ {j.from, payee}
       PROVE  j.before[n] + Takes(n, R) <= x[n] + Brings(n, R)
  <2>1. j.before[n] \in Nat /\ j.before[n] + Takes(n, T) <= w[n] + Brings(n, T)
    BY <1>10
  <2>2. /\ x[n] \in Nat /\ w[n] \in Nat /\ Takes(n, R) \in Nat /\ Brings(n, R) \in Nat
        /\ Takes(n, T) \in Nat /\ Brings(n, T) \in Nat
        /\ x[n] + Brings(n, R) + Takes(n, T) = w[n] + Brings(n, T) + Takes(n, R)
    BY <1>9
  <2> QED
    BY <2>1, <2>2
<1>13. Range(k.todo) = R
  BY DEF R, T
<1>14. SettleIs(k, x)
  BY <1>8, <1>10, <1>11, <1>12, <1>13 DEF SettleIs, payee
<1> QED
  BY <1>14 DEF x, new, a

\* Settling does not throw: the HTLC is there, its payer has the amount, and the channel
\* can be signed and has a secret left.
LEMMA SettleReturns ==
    ASSUME SecretsLast, PaySound, CallShape(job), job # NoJob, SettleNext
    PROVE  LET h == Head(job.todo)
           IN /\ h \in pending /\ h \in Htlc /\ h.amount <= balance[h.chan][h.side]
              /\ h \in Range(job.todo) /\ Listing(job.todo)
              /\ IsInjective(Tail(job.todo)) /\ Range(Tail(job.todo)) = Range(job.todo) \ {h}
              /\ balance' = Transferred(balance, h.chan, h.side, h.amount)
              /\ pending' = pending \ {h} /\ life' = Life
              /\ Safe(Range(job.todo) \ {h}, life', balance', pending')
              /\ job' = [job EXCEPT !.todo = Tail(job.todo)]
<1> DEFINE h == Head(job.todo)
           T == Range(job.todo)
           rest == Tail(job.todo)
           next == [job EXCEPT !.todo = rest]
<1>1. /\ job.phase = "settle" /\ job.todo # <<>>
      /\ balance' = Transferred(balance, h.chan, h.side, h.amount)
      /\ pending' = pending \ {h} /\ Returning(h.chan, next)
  BY DEF SettleNext, Transferred
<1>2. /\ SettleIs(job, WealthOf(balance)) /\ Safe(T, life, balance, pending)
      /\ life = Life /\ Funded(balance, pending) /\ Listing(job.todo) /\ IsInjective(job.todo)
  BY <1>1 DEF PaySound, CallSound, SettleIs, CallShape
<1>3. T = {h} \cup Range(rest) /\ IsInjective(rest) /\ Range(rest) = T \ {h}
  BY <1>1, <1>2, ListingTail, DistinctTail
<1> HIDE DEF next, rest, T, h
<1>4. h \in T /\ h \in pending
  BY <1>2, <1>3 DEF Safe
<1>5. h \in Htlc /\ h.amount <= balance[h.chan][h.side]
  BY <1>2, <1>4, FundedSettled
<1>6. /\ Safe(T \ {h}, life, balance', pending') /\ life[h.chan] # 0
      /\ Signable(h.chan, balance', pending')
  BY <1>1, <1>2, <1>4, SafeSettled
<1>7. life' = Life
  <2>1. h.chan \in Chan
    BY <1>5 DEF Htlc
  <2> QED
    BY <1>1, <1>2, <2>1, WearKeeps DEF Returning
<1>8. job' = next
  BY <1>1, <1>6 DEF Returning, Worn
<1> QED
  BY <1>1, <1>2, <1>3, <1>4, <1>5, <1>6, <1>7, <1>8 DEF h, T, rest, next

LEMMA PaySoundSettleNext ==
    ASSUME SecretsLast, PaySound, job # NoJob => CallShape(job), SettleNext
    PROVE  PaySound'
<1> DEFINE h == Head(job.todo)
           T == Range(job.todo)
           rest == Tail(job.todo)
<1>1. job.phase = "settle" /\ job # NoJob /\ UNCHANGED settled
  BY DEF SettleNext, NoJob
<1>2. CallShape(job) /\ CallTyped(job) /\ SettleIs(job, WealthOf(balance)) /\ job.inv \notin settled
      /\ Funded(balance, pending) /\ life = Life
  BY <1>1 DEF PaySound, CallSound
<1>3. /\ h \in pending /\ h \in Htlc /\ h.amount <= balance[h.chan][h.side]
      /\ h \in T /\ Listing(job.todo)
      /\ IsInjective(rest) /\ Range(rest) = T \ {h}
      /\ balance' = Transferred(balance, h.chan, h.side, h.amount)
      /\ pending' = pending \ {h} /\ life' = Life
      /\ Safe(T \ {h}, life', balance', pending')
      /\ job' = [job EXCEPT !.todo = rest]
  BY <1>1, <1>2, SettleReturns
<1> HIDE DEF h, rest
<1>4. /\ job'.phase = "settle" /\ job'.todo = rest /\ job'.from = job.from /\ job'.inv = job.inv
      /\ job'.before = job.before /\ job'.tries = job.tries /\ job'.multi = job.multi
  BY <1>1, <1>2, <1>3 DEF CallShape
<1>5. Funded(balance', pending')
  BY <1>2, <1>3, FundedSettled
<1>6. T \in SUBSET Htlc /\ IsFiniteSet(T)
  <2>1. T \subseteq pending
    BY <1>1 DEF PaySound, CallSound, Safe
  <2> QED
    BY <1>2, <2>1, FS_Subset DEF Funded
<1>7. SettleIs(job', WealthOf(balance'))
  <2>1. balance \in Balances
    BY <1>2 DEF Funded
  <2> QED
    BY <1>2, <1>3, <1>4, <1>6, <2>1, SettleOn
<1>8. CallTyped(job')
  BY <1>2, <1>4 DEF CallTyped
<1>9. Safe(Range(job'.todo), life', balance', pending')
  BY <1>3, <1>4
<1>10. CallSound'
  BY <1>1, <1>2, <1>4, <1>7, <1>8, <1>9 DEF CallSound
<1> QED
  BY <1>3, <1>5, <1>10 DEF PaySound

LEMMA PaySoundPayDirect ==
    ASSUME SecretsLast, PaySound, NEW ch \in Chan, NEW s \in Side, NEW amount \in Direct,
           PayDirect(ch, s, amount)
    PROVE  /\ PaySound'
           /\ amount \in Nat /\ amount <= balance[ch][s]
           /\ balance' = Transferred(balance, ch, s, amount)
<1>1. /\ job = NoJob /\ amount <= Spendable(ch, s)
      /\ balance' = Transferred(balance, ch, s, amount)
      /\ Wear(ch) /\ UNCHANGED <<pending, settled, job>>
  BY DEF PayDirect, Transferred
<1>2. life = Life /\ Funded(balance, pending) /\ amount \in Nat
  BY PaymentConstants DEF PaySound
<1>3. amount <= balance[ch][s] - Amounts(OfferedIn(pending, ch, s))
  BY <1>1 DEF Spendable, Offered, OfferedIn
<1>4. amount <= balance[ch][s] /\ Funded(balance', pending')
  BY <1>1, <1>2, <1>3, FundedMoved
<1>5. life' = Life
  BY <1>1, <1>2, WearKeeps
<1>6. CallSound'
  BY <1>1, EndedSound
<1> QED
  BY <1>1, <1>2, <1>4, <1>5, <1>6 DEF PaySound

LEMMA PaymentStart == PaymentInit => PaySound
<1> SUFFICES ASSUME PaymentInit PROVE PaySound
  OBVIOUS
<1>1. pending = {} /\ life = Life /\ job = NoJob
  BY DEF PaymentInit
<1>2. PICK push \in [Chan -> Pushes] :
         balance = [ch \in Chan |->
             LET given == Min({push[ch], Capacity[ch]})
             IN [s \in Side |-> IF s = "a" THEN Capacity[ch] - given ELSE given]]
  BY DEF PaymentInit
<1>3. ASSUME NEW ch \in Chan
      PROVE  LET given == Min({push[ch], Capacity[ch]})
             IN given \in Nat /\ Capacity[ch] - given \in Nat
  <2>1. push[ch] \in Nat /\ Capacity[ch] \in Nat
    BY PaymentConstants, RouterConstants
  <2> DEFINE S == {push[ch], Capacity[ch]}
  <2>2. \E x \in S : \A y \in S : x <= y
    <3>1. push[ch] <= Capacity[ch] \/ Capacity[ch] <= push[ch]
      BY <2>1
    <3> QED
      BY <2>1, <3>1
  <2>3. Min(S) \in S /\ \A y \in S : Min(S) <= y
    <3> HIDE DEF S
    <3> QED
      BY <2>2 DEF Min
  <2>4. Min(S) \in Nat /\ Min(S) <= Capacity[ch]
    BY <2>1, <2>3
  <2> HIDE DEF S
  <2>5. Capacity[ch] - Min(S) \in Nat
    BY <2>1, <2>4
  <2> QED
    BY <2>4, <2>5 DEF S
<1>4. balance \in Balances
  <2> DEFINE given(ch) == Min({push[ch], Capacity[ch]})
             row(ch) == [s \in Side |-> IF s = "a" THEN Capacity[ch] - given(ch) ELSE given(ch)]
  <2>1. balance = [ch \in Chan |-> row(ch)]
    BY <1>2
  <2>2. \A ch \in Chan : given(ch) \in Nat /\ Capacity[ch] - given(ch) \in Nat
    BY <1>3
  <2> HIDE DEF given
  <2>3. \A ch \in Chan : row(ch) \in [Side -> Nat]
    BY <2>2
  <2> HIDE DEF row
  <2> QED
    BY <2>1, <2>3 DEF Balances
<1>5. Funded(balance, pending)
  <2>1. ASSUME NEW ch \in Chan, NEW s \in Side PROVE Amounts(OfferedIn({}, ch, s)) <= balance[ch][s]
    <3>1. OfferedIn({}, ch, s) = {} /\ balance[ch][s] \in Nat
      BY <1>4 DEF OfferedIn, Balances
    <3> QED
      BY <3>1, AmountsNone
  <2> QED
    BY <1>1, <1>4, <2>1, FS_EmptySet DEF Funded
<1>6. CallSound
  BY <1>1 DEF CallSound, NoJob
<1> QED
  BY <1>1, <1>5, <1>6 DEF PaySound

LEMMA PaySoundMarkSettled ==
    ASSUME PaySound, MarkSettled
    PROVE  PaySound'
<1>1. job' = NoJob /\ UNCHANGED <<balance, pending, life>>
  BY DEF MarkSettled, channels
<1>2. CallSound'
  BY <1>1, EndedSound
<1> QED
  BY <1>1, <1>2 DEF PaySound

LEMMA PaySoundIdle ==
    ASSUME PaySound, UNCHANGED <<balance, pending, life, settled, job>>
    PROVE  PaySound'
BY DEF PaySound, CallSound

LEMMA PaymentStep == SecretsLast /\ PendingTracked /\ PaySound /\ [PaymentNext]_paymentVars => PaySound'
<1> SUFFICES ASSUME SecretsLast, PendingTracked, PaySound, [PaymentNext]_paymentVars PROVE PaySound'
  OBVIOUS
<1>s. job # NoJob => CallShape(job)
  BY DEF PendingTracked
<1>1. CASE \E n \in Node, inv \in Invoice, multi \in BOOLEAN : Pay(n, inv, multi)
  BY <1>1, PaySoundPay
<1>2. CASE StartPart
  BY <1>s, <1>2, PaySoundStartPart
<1>3. CASE GiveUp
  BY <1>s, <1>3, PaySoundGiveUp
<1>4. CASE HopRefused
  BY <1>s, <1>4, PaySoundHopRefused
<1>5. CASE AddHop
  BY <1>s, <1>5, PaySoundAddHop
<1>6. CASE FailNext
  BY <1>s, <1>6, PaySoundFailNext
<1>7. CASE Undone
  BY <1>s, <1>7, PaySoundUndone
<1>8. CASE BeginSettle
  BY <1>s, <1>8, PaySoundBeginSettle
<1>9. CASE SettleNext
  BY <1>s, <1>9, PaySoundSettleNext
<1>10. CASE MarkSettled
  BY <1>10, PaySoundMarkSettled
<1>11. CASE \E ch \in Chan, s \in Side, amount \in Direct : PayDirect(ch, s, amount)
  BY <1>11, PaySoundPayDirect
<1>12. CASE \/ \E ch \in Chan : CloseChannel(ch) \/ Confirm(ch)
            \/ UNCHANGED paymentVars
  <2>1. UNCHANGED <<balance, pending, life, settled, job>>
    BY <1>12 DEF CloseChannel, Confirm, paymentVars, channels
  <2> QED
    BY <2>1, PaySoundIdle
<1> QED
  BY <1>1, <1>2, <1>3, <1>4, <1>5, <1>6, <1>7, <1>8, <1>9, <1>10, <1>11, <1>12 DEF PaymentNext

----------------------------------------------------------------------------
(***************************************************************************)
(* The calls implement payments that are one step.                         *)
(***************************************************************************)
LEMMA WealthNat == ASSUME balance \in Balances PROVE Wealth \in [Node -> Nat]
BY WealthIs, WealthTypes

LEMMA AtomicStart == PaySound /\ PaymentInit => Atomic!Init
<1> SUFFICES ASSUME PaySound, PaymentInit PROVE Atomic!Init
  OBVIOUS
<1>1. job.phase = "none" /\ settled = {} /\ Wealth \in [Node -> Nat]
  BY WealthNat DEF PaymentInit, NoJob, PaySound, Funded
<1> QED
  BY <1>1 DEF Atomic!Init

\* Steps that AtomicPayment does not see.
LEMMA AtomicStutter ==
    ASSUME UNCHANGED settled,
           \/ UNCHANGED balance /\ job.phase # "settle" /\ job'.phase # "settle"
           \/ UNCHANGED balance /\ job.phase # "settle" /\ job'.phase = "settle" /\ job'.before = Wealth
           \/ job.phase = "settle" /\ job'.phase = "settle" /\ job'.before = job.before
    PROVE  UNCHANGED <<IF job.phase = "settle" THEN job.before ELSE Wealth, settled>>
<1>1. UNCHANGED balance => Wealth' = Wealth
  BY DEF Wealth
<1> QED
  BY <1>1

\* AtomicPayment's sums are those of this module.
LEMMA AtomicSums == \A w : Atomic!Sum(w) = SumFunctionOnSet(w, Node)
BY DEF Atomic!Sum, Atomic!SumFunctionOnSet, Atomic!FoldFunctionOnSet, Atomic!MapThenFoldSet,
       SumFunctionOnSet, FoldFunctionOnSet, MapThenFoldSet

\* The end of a call is the payment.
LEMMA AtomicPay ==
    ASSUME PaySound, job # NoJob => CallShape(job), MarkSettled
    PROVE  Atomic!Next
<1> DEFINE inv == job.inv
           payee == inv.payee
<1>1. /\ job.phase = "settle" /\ job # NoJob /\ job.todo = <<>> /\ settled' = settled \cup {inv}
      /\ job' = NoJob /\ UNCHANGED balance
  BY DEF MarkSettled, channels, NoJob
<1>2. CallTyped(job) /\ SettleIs(job, WealthOf(balance)) /\ inv \notin settled /\ balance \in Balances
  BY <1>1 DEF PaySound, CallSound, Funded
<1>3. Wealth = WealthOf(balance) /\ Wealth' = Wealth /\ Wealth \in [Node -> Nat] /\ job'.phase = "none"
  BY <1>1, <1>2, WealthIs, WealthNat DEF WealthOf, Wealth, NoJob
<1>4. inv \in Invoice /\ inv.amount \in Nat /\ payee \in Node /\ job.from \in Node /\ job.from # payee
  BY <1>2, PaymentConstants DEF CallTyped
<1>5. \A n : Takes(n, Range(job.todo)) = 0 /\ Brings(n, Range(job.todo)) = 0
  BY <1>1, ListingNone, FlowNone
<1>6. /\ job.before \in [Node -> Nat]
      /\ SumFunctionOnSet(Wealth, Node) = SumFunctionOnSet(job.before, Node)
      /\ Wealth[payee] + 0 = job.before[payee] + inv.amount + 0
      /\ \A n \in Node \ {job.from, payee} : job.before[n] + 0 <= Wealth[n] + 0
  BY <1>2, <1>3, <1>5 DEF SettleIs
<1>7. Wealth[payee] = job.before[payee] + inv.amount
  BY <1>3, <1>4, <1>6
<1>8. \A n \in Node \ {job.from, payee} : Wealth[n] >= job.before[n]
  BY <1>3, <1>6
<1>9. Atomic!Pay(job.from, inv)
  <2> DEFINE was == IF job.phase = "settle" THEN job.before ELSE Wealth
             now == IF job'.phase = "settle" THEN job'.before ELSE Wealth'
  <2>1. was = job.before /\ now = Wealth
    BY <1>1, <1>3
  <2>2. /\ now[payee] = was[payee] + inv.amount
        /\ \A n \in Node \ {job.from, payee} : now[n] >= was[n]
        /\ Atomic!Sum(now) = Atomic!Sum(was)
    <3> HIDE DEF was, now
    <3> QED
      BY <2>1, <1>6, <1>7, <1>8, AtomicSums
  <2>3. inv \notin settled /\ job.from # inv.payee /\ settled' = settled \cup {inv}
    BY <1>1, <1>2, <1>4
  <2> QED
    BY <2>2, <2>3 DEF Atomic!Pay
<1>10. inv \in settled'
  BY <1>1
<1> QED
  BY <1>4, <1>9, <1>10 DEF Atomic!Next

\* A payment over one's own channel pays a neighbour.
LEMMA AtomicDirect ==
    ASSUME SecretsLast, PaySound, NEW ch \in Chan, NEW s \in Side, NEW amount \in Direct,
           PayDirect(ch, s, amount)
    PROVE  Atomic!Next
<1> DEFINE u == EndOf(ch, s)
           v == EndOf(ch, Other(s))
<1>1. /\ job.phase = "none" /\ job'.phase = "none" /\ UNCHANGED settled
      /\ amount \in Nat /\ amount <= balance[ch][s] /\ balance \in Balances
      /\ balance' = Transferred(balance, ch, s, amount) /\ balance' \in Balances
  BY PaySoundPayDirect DEF PayDirect, NoJob, PaySound, Funded
<1>2. u \in Node /\ v \in Node /\ u # v
  BY EndsApart
<1>3. Wealth \in [Node -> Nat] /\ Wealth' = WealthOf(balance') /\ Wealth = WealthOf(balance)
  BY <1>1, WealthNat, WealthIs DEF WealthOf, Wealth, WealthIn, OwnOf
<1>4. \A n \in Node : WealthOf(balance')[n] =
                        Wealth[n] - (IF n = u THEN amount ELSE 0) + (IF n = v THEN amount ELSE 0)
  BY <1>1, <1>3, WealthMoves DEF WealthOf
<1> HIDE DEF u, v
<1>5. Wealth' = [Wealth EXCEPT ![u] = Wealth'[u], ![v] = @ + Wealth[u] - Wealth'[u]]
  <2> DEFINE x == WealthOf(balance')
  <2>1. x = [n \in Node |-> x[n]]
    BY DEF WealthOf
  <2>2. /\ \A n \in Node : x[n] = Wealth[n] - (IF n = u THEN amount ELSE 0) + (IF n = v THEN amount ELSE 0)
        /\ \A n \in Node : Wealth[n] \in Nat
    BY <1>3, <1>4
  <2> HIDE DEF x
  <2>3. Wealth[u] - x[u] = amount /\ x[u] = Wealth[u] - amount
    BY <1>1, <1>2, <2>2
  <2>4. \A n \in Node \ {u, v} : x[n] = Wealth[n]
    BY <2>2
  <2>5. x[v] = Wealth[v] + Wealth[u] - x[u]
    BY <1>1, <1>2, <2>2, <2>3
  <2>6. x = [Wealth EXCEPT ![u] = x[u], ![v] = @ + Wealth[u] - x[u]]
    BY <1>2, <1>3, <2>1, <2>4, <2>5
  <2> QED
    BY <1>3, <2>6 DEF x
<1>6. Wealth[u] - Wealth'[u] = amount
  <2>1. Wealth[u] \in Nat
    BY <1>2, <1>3
  <2> QED
    BY <1>1, <1>2, <1>3, <1>4, <2>1
<1>7. Atomic!PayNeighbour(u)
  <2>1. v \in Node \ {u}
    BY <1>2
  <2> QED
    BY <1>1, <1>5, <1>6, <2>1 DEF Atomic!PayNeighbour
<1> QED
  BY <1>2, <1>7 DEF Atomic!Next

\* Every step pays at once, pays a neighbour, or is not seen.
LEMMA AtomicStep ==
    SecretsLast /\ PendingTracked /\ PaySound /\ [PaymentNext]_paymentVars =>
      [Atomic!Next]_<<IF job.phase = "settle" THEN job.before ELSE Wealth, settled>>
<1> SUFFICES ASSUME SecretsLast, PendingTracked, PaySound, [PaymentNext]_paymentVars
             PROVE  Atomic!Next \/ UNCHANGED <<IF job.phase = "settle" THEN job.before ELSE Wealth, settled>>
  OBVIOUS
<1>s. job # NoJob => CallShape(job)
  BY DEF PendingTracked
<1>1. CASE \E n \in Node, inv \in Invoice, multi \in BOOLEAN : Pay(n, inv, multi)
  <2>1. UNCHANGED <<balance, settled>> /\ job.phase # "settle" /\ job'.phase # "settle"
    BY <1>1 DEF Pay, Call, NoJob, channels
  <2> QED
    BY <2>1, AtomicStutter
<1>2. CASE StartPart
  <2>1. job.phase = "route" /\ CallShape(job) /\ UNCHANGED <<balance, settled>>
    BY <1>s, <1>2 DEF StartPart, NoJob, channels
  <2>2. PICK route, amount : job' = [job EXCEPT !.phase = "deliver", !.tries = @ + 1, !.part = amount,
                                         !.route = route, !.added = <<>>]
    BY <1>2 DEF StartPart, Deliver
  <2>3. job'.phase = "deliver"
    BY <2>1, <2>2 DEF CallShape
  <2> QED
    BY <2>1, <2>3, AtomicStutter
<1>3. CASE GiveUp
  <2>1. job.phase = "route" /\ CallShape(job) /\ UNCHANGED <<balance, settled>> /\ job' = Release(job, <<>>)
    BY <1>s, <1>3 DEF GiveUp, NoJob, channels
  <2>2. job'.phase = "release"
    BY <2>1 DEF CallShape, Release
  <2> QED
    BY <2>1, <2>2, AtomicStutter
<1>4. CASE HopRefused \/ AddHop
  <2>1. job.phase = "deliver" /\ CallShape(job) /\ UNCHANGED <<balance, settled>>
    BY <1>s, <1>4 DEF HopRefused, AddHop, NoJob, channels
  <2>2. job'.phase # "settle"
    <3>1. \A blame, added : FailPart(blame, added).phase # "settle"
      BY <2>1 DEF FailPart, Release, CallShape
    <3>2. \A h : AfterHop(h).phase # "settle"
      <4> SUFFICES ASSUME NEW h PROVE AfterHop(h).phase # "settle"
        OBVIOUS
      <4> DEFINE added == Append(job.added, h)
                 held == Append(job.held, [amount |-> job.part, added |-> added])
                 r == AfterHop(h)
      <4>1. \/ \E blame : r = FailPart(blame, added)
            \/ r = [job EXCEPT !.phase = "route", !.added = <<>>, !.left = @ - job.part,
                               !.parts = @ + 1, !.held = held]
            \/ r = [job EXCEPT !.added = added]
        BY AfterHopIs DEF CallShape
      <4> HIDE DEF r, added, held
      <4>2. r.phase # "settle"
        BY <2>1, <3>1, <4>1 DEF CallShape
      <4> QED
        BY <4>2 DEF r
    <3>3. NoJob.phase # "settle"
      BY DEF NoJob
    <3> QED
      BY <1>4, <3>1, <3>2, <3>3 DEF HopRefused, AddHop, Returning
  <2> QED
    BY <2>1, <2>2, AtomicStutter
<1>5. CASE FailNext \/ Undone
  <2>1. job.phase \in {"undo", "release"} /\ CallShape(job) /\ UNCHANGED <<balance, settled>>
    BY <1>s, <1>5 DEF FailNext, Undone, NoJob, channels
  <2>2. job'.phase # "settle"
    <3>1. [job EXCEPT !.todo = Tail(@)].phase = job.phase /\ [job EXCEPT !.phase = "route"].phase = "route"
      BY <2>1 DEF CallShape
    <3>2. NoJob.phase = "none"
      BY DEF NoJob
    <3>3. CASE FailNext
      <4>1. job' \in {[job EXCEPT !.todo = Tail(@)], NoJob}
        BY <3>3 DEF FailNext, Returning
      <4> QED
        BY <2>1, <3>1, <3>2, <4>1
    <3>4. CASE Undone
      <4>1. job' \in {[job EXCEPT !.phase = "route"], NoJob}
        BY <3>4 DEF Undone
      <4> QED
        BY <3>1, <3>2, <4>1
    <3> QED
      BY <1>5, <3>3, <3>4
  <2> QED
    BY <2>1, <2>2, AtomicStutter
<1>6. CASE BeginSettle
  <2>1. /\ job.phase = "route" /\ CallShape(job) /\ UNCHANGED <<balance, settled>>
        /\ job' = [job EXCEPT !.phase = "settle", !.todo = HeldBack(job.held)]
    BY <1>s, <1>6 DEF BeginSettle, NoJob, channels
  <2>2. job'.phase = "settle" /\ job'.before = job.before
    BY <2>1 DEF CallShape
  <2>3. job.before = Wealth
    BY <2>1, WealthIs DEF PaySound, CallSound, WealthOf
  <2> QED
    BY <2>1, <2>2, <2>3, AtomicStutter
<1>7. CASE SettleNext
  <2>1. job.phase = "settle" /\ job # NoJob /\ CallShape(job) /\ UNCHANGED settled
    BY <1>s, <1>7 DEF SettleNext, NoJob
  <2>2. job' = [job EXCEPT !.todo = Tail(job.todo)]
    BY <1>7, <2>1, SettleReturns
  <2>3. job'.phase = "settle" /\ job'.before = job.before
    BY <2>1, <2>2 DEF CallShape
  <2> QED
    BY <2>1, <2>3, AtomicStutter
<1>8. CASE MarkSettled
  BY <1>s, <1>8, AtomicPay
<1>9. CASE \E ch \in Chan, s \in Side, amount \in Direct : PayDirect(ch, s, amount)
  BY <1>9, AtomicDirect
<1>10. CASE \/ \E ch \in Chan : CloseChannel(ch) \/ Confirm(ch)
            \/ UNCHANGED paymentVars
  <2>1. UNCHANGED <<balance, settled, job>>
    BY <1>10 DEF CloseChannel, Confirm, paymentVars, channels
  <2>2. Wealth' = Wealth
    BY <2>1 DEF Wealth
  <2> QED
    BY <2>1, <2>2
<1> QED
  BY <1>1, <1>2, <1>3, <1>4, <1>5, <1>6, <1>7, <1>8, <1>9, <1>10 DEF PaymentNext

\* If no channel runs out of secrets on the way, payments are atomic, whatever the network:
\* the payee gains the invoice, once, what the payer loses, and nobody between loses.
THEOREM PaymentsImplemented == SecretsLast /\ PaymentSpec => PaymentsAreAtomic
<1>1. SecretsLast /\ PaymentInit => SecretsLast /\ PaySound /\ PendingTracked /\ Atomic!Init
  BY PaymentStart, TrackedInit, AtomicStart
<1>2. SecretsLast /\ PendingTracked /\ PaySound /\ [PaymentNext]_paymentVars =>
        SecretsLast' /\ PendingTracked' /\ PaySound'
  BY PaymentStep, TrackedNext DEF SecretsLast
<1> QED
  BY <1>1, <1>2, AtomicStep, PTL DEF PaymentSpec, PaymentsAreAtomic, Atomic!Spec
=============================================================================

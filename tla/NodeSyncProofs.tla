--------------------------- MODULE NodeSyncProofs ---------------------------
(***************************************************************************)
(* The bookkeeping of requests in NodeSync, for any number of peers, any   *)
(* tree of blocks and any caps.                                            *)
(***************************************************************************)
EXTENDS NodeSync, Induction, TLAPS

IsSequence(s) == \E S : s \in Seq(S)

LEMMA SequenceOf ==
    ASSUME NEW s, IsSequence(s)
    PROVE  /\ s \in Seq(ToSet(s)) /\ Len(s) \in Nat /\ DOMAIN s = 1..Len(s)
           /\ ToSet(s) = {s[k] : k \in 1..Len(s)}
<1>1. PICK S : s \in Seq(S)
  BY DEF IsSequence
<1>2. Len(s) \in Nat /\ DOMAIN s = 1..Len(s) /\ s = [k \in 1..Len(s) |-> s[k]]
  BY <1>1
<1>3. ToSet(s) = {s[k] : k \in 1..Len(s)}
  BY <1>2 DEF ToSet
<1>4. \A k \in 1..Len(s) : s[k] \in ToSet(s)
  BY <1>3
<1>5. s \in [1..Len(s) -> ToSet(s)]
  BY <1>2, <1>4
<1>6. s \in Seq(ToSet(s))
  BY <1>2, <1>5
<1> QED
  BY <1>2, <1>3, <1>6

\* What a queue holds after a message was added or taken.
LEMMA Appended ==
    ASSUME NEW s, IsSequence(s), NEW m
    PROVE  IsSequence(Append(s, m)) /\ ToSet(Append(s, m)) = ToSet(s) \cup {m}
<1>1. s \in Seq(ToSet(s)) /\ Len(s) \in Nat /\ ToSet(s) = {s[k] : k \in 1..Len(s)}
  BY SequenceOf
<1> DEFINE r == Append(s, m)
<1>2. s \in Seq(ToSet(s) \cup {m})
  BY <1>1
<1>3. /\ r \in Seq(ToSet(s) \cup {m}) /\ Len(r) = Len(s) + 1
      /\ r[Len(s) + 1] = m /\ \A k \in 1..Len(s) : r[k] = s[k]
  BY <1>1, <1>2
<1> HIDE DEF r
<1>4. IsSequence(r)
  BY <1>3 DEF IsSequence
<1>5. ToSet(r) = {r[k] : k \in 1..Len(r)}
  BY <1>4, SequenceOf
<1>6. \A k \in 1..Len(r) : k \in 1..Len(s) \/ k = Len(s) + 1
  BY <1>1, <1>3
<1>7. \A k \in 1..Len(s) : k \in 1..Len(r)
  BY <1>1, <1>3
<1>8. ToSet(r) \subseteq ToSet(s) \cup {m}
  BY <1>1, <1>3, <1>5, <1>6
<1>9. ToSet(s) \subseteq ToSet(r)
  BY <1>1, <1>3, <1>5, <1>7
<1>10. Len(s) + 1 \in 1..Len(r)
  BY <1>1, <1>3
<1>11. m \in ToSet(r)
  BY <1>3, <1>5, <1>10
<1> QED
  BY <1>4, <1>8, <1>9, <1>11 DEF r

LEMMA Removed ==
    ASSUME NEW s, IsSequence(s), s # <<>>
    PROVE  /\ IsSequence(Tail(s)) /\ Head(s) \in ToSet(s)
           /\ ToSet(Tail(s)) \subseteq ToSet(s)
           /\ ToSet(s) \subseteq ToSet(Tail(s)) \cup {Head(s)}
<1>1. s \in Seq(ToSet(s)) /\ Len(s) \in Nat /\ ToSet(s) = {s[k] : k \in 1..Len(s)}
  BY SequenceOf
<1> DEFINE r == Tail(s)
<1>2. /\ r \in Seq(ToSet(s)) /\ Len(s) >= 1 /\ Len(r) = Len(s) - 1
      /\ Head(s) = s[1] /\ \A k \in 1..Len(r) : r[k] = s[k + 1]
  BY <1>1
<1> HIDE DEF r
<1>3. IsSequence(r)
  BY <1>2 DEF IsSequence
<1>4. ToSet(r) = {r[k] : k \in 1..Len(r)}
  BY <1>3, SequenceOf
<1>5. ToSet(r) \subseteq ToSet(s)
  <2> SUFFICES ASSUME NEW k \in 1..Len(r) PROVE r[k] \in ToSet(s)
    BY <1>4
  <2>1. k + 1 \in 1..Len(s) /\ r[k] = s[k + 1]
    BY <1>1, <1>2
  <2> QED
    BY <1>1, <2>1
<1>6. ToSet(s) \subseteq ToSet(r) \cup {Head(s)}
  <2> SUFFICES ASSUME NEW k \in 1..Len(s), k # 1 PROVE s[k] \in ToSet(r)
    BY <1>1, <1>2
  <2>1. k - 1 \in 1..Len(r) /\ (k - 1) + 1 = k
    BY <1>1, <1>2
  <2>2. r[k - 1] = s[k]
    BY <1>2, <2>1
  <2> QED
    BY <1>4, <2>1, <2>2
<1>7. Head(s) \in ToSet(s)
  BY <1>1, <1>2
<1> QED
  BY <1>3, <1>5, <1>6, <1>7 DEF r

LEMMA Joined ==
    ASSUME NEW s, IsSequence(s), NEW t, IsSequence(t)
    PROVE  IsSequence(s \o t) /\ ToSet(s \o t) = ToSet(s) \cup ToSet(t)
<1>1. /\ s \in Seq(ToSet(s)) /\ Len(s) \in Nat /\ ToSet(s) = {s[k] : k \in 1..Len(s)}
      /\ t \in Seq(ToSet(t)) /\ Len(t) \in Nat /\ ToSet(t) = {t[k] : k \in 1..Len(t)}
  BY SequenceOf
<1> DEFINE r == s \o t
           U == ToSet(s) \cup ToSet(t)
<1>2. s \in Seq(U) /\ t \in Seq(U)
  BY <1>1
<1>3. /\ r \in Seq(U) /\ Len(r) = Len(s) + Len(t)
      /\ \A k \in 1..Len(s) : r[k] = s[k]
      /\ \A k \in 1..Len(t) : r[Len(s) + k] = t[k]
  BY <1>1, <1>2
<1> HIDE DEF r, U
<1>4. IsSequence(r)
  BY <1>3 DEF IsSequence
<1>5. r \in Seq(ToSet(r)) /\ ToSet(r) = {r[k] : k \in 1..Len(r)}
  BY <1>4, SequenceOf
<1>6. ToSet(r) \subseteq U
  <2> SUFFICES ASSUME NEW k \in 1..Len(r) PROVE r[k] \in U
    BY <1>5
  <2> QED
    BY <1>3
<1>7. ToSet(s) \subseteq ToSet(r)
  <2> SUFFICES ASSUME NEW k \in 1..Len(s) PROVE s[k] \in ToSet(r)
    BY <1>1
  <2>1. k \in 1..Len(r)
    BY <1>1, <1>3
  <2> QED
    BY <1>3, <1>5, <2>1
<1>8. ToSet(t) \subseteq ToSet(r)
  <2> SUFFICES ASSUME NEW k \in 1..Len(t) PROVE t[k] \in ToSet(r)
    BY <1>1
  <2>1. Len(s) + k \in 1..Len(r)
    BY <1>1, <1>3
  <2> QED
    BY <1>3, <1>5, <2>1
<1>9. ToSet(r) = ToSet(s) \cup ToSet(t)
  BY <1>6, <1>7, <1>8 DEF U
<1> QED
  BY <1>4, <1>9 DEF r

LEMMA OneMessage ==
    ASSUME NEW m
    PROVE  IsSequence(<<m>>) /\ ToSet(<<m>>) = {m}
<1>1. <<m>> \in Seq({m}) /\ Len(<<m>>) = 1 /\ <<m>>[1] = m
  OBVIOUS
<1>2. IsSequence(<<m>>)
  BY <1>1 DEF IsSequence
<1>3. ToSet(<<m>>) = {<<m>>[k] : k \in 1..1}
  BY <1>1, <1>2, SequenceOf
<1> QED
  BY <1>1, <1>2, <1>3

LEMMA NoMessage == IsSequence(<<>>) /\ ToSet(<<>>) = {}
<1>1. <<>> \in Seq({}) /\ Len(<<>>) = 0
  OBVIOUS
<1>2. IsSequence(<<>>)
  BY <1>1 DEF IsSequence
<1>3. ToSet(<<>>) = {<<>>[k] : k \in 1..0}
  BY <1>1, <1>2, SequenceOf
<1> QED
  BY <1>2, <1>3

\* filter and the caps.
LEMMA Filtered ==
    ASSUME NEW s, IsSequence(s), NEW S
    PROVE  IsSequence(Kept(s, S)) /\ ToSet(Kept(s, S)) = ToSet(s) \cap S
<1>1. s \in Seq(ToSet(s)) /\ ToSet(s) = {s[k] : k \in 1..Len(s)}
  BY SequenceOf
<1>2. /\ Kept(s, S) \in Seq(ToSet(s))
      /\ KeptSoFar(Kept(s, S), s, S, Len(s))
  BY <1>1, KeptElements
<1>3. IsSequence(Kept(s, S))
  BY <1>2 DEF IsSequence
<1> QED
  BY <1>1, <1>2, <1>3 DEF KeptSoFar

LEMMA Capped ==
    ASSUME NEW s, IsSequence(s), NEW max \in Nat
    PROVE  IsSequence(UpTo(s, max)) /\ ToSet(UpTo(s, max)) \subseteq ToSet(s)
<1>1. s \in Seq(ToSet(s)) /\ Len(s) \in Nat /\ ToSet(s) = {s[k] : k \in 1..Len(s)}
  BY SequenceOf
<1> DEFINE n == IF Len(s) > max THEN max ELSE Len(s)
           r == SubSeq(s, 1, n)
<1>2. n \in Nat /\ n <= Len(s)
  BY <1>1
<1> HIDE DEF n
<1>3. r \in Seq(ToSet(s)) /\ Len(r) = n /\ \A k \in 1..n : r[k] = s[k]
  BY <1>1, <1>2
<1>4. UpTo(s, max) = r
  BY DEF UpTo, n
<1> HIDE DEF r
<1>5. IsSequence(r)
  BY <1>3 DEF IsSequence
<1>6. ToSet(r) = {r[k] : k \in 1..Len(r)}
  BY <1>5, SequenceOf
<1>7. ToSet(r) \subseteq ToSet(s)
  <2> SUFFICES ASSUME NEW k \in 1..n PROVE r[k] \in ToSet(s)
    BY <1>3, <1>6
  <2>1. k \in 1..Len(s) /\ r[k] = s[k]
    BY <1>1, <1>2, <1>3
  <2> QED
    BY <1>1, <2>1
<1> QED
  BY <1>4, <1>5, <1>7
LEMMA FunctionIsSequence ==
    ASSUME NEW n \in Nat, NEW f, f = [k \in 1..n |-> f[k]]
    PROVE  IsSequence(f) /\ DOMAIN f = 1..n
<1> DEFINE S == {f[k] : k \in 1..n}
<1>1. f \in [1..n -> S]
  OBVIOUS
<1>2. f \in Seq(S)
  BY <1>1
<1>3. DOMAIN f = 1..n
  BY <1>1
<1> QED
  BY <1>2, <1>3 DEF IsSequence

----------------------------------------------------------------------------
(***************************************************************************)
(* The messages under way.                                                 *)
(***************************************************************************)
BlockMessage(b) == [type |-> "block", block |-> b]

IsRequest(m) == \/ m.type = "getheaders"
                \/ m.type = "getdata" /\ IsSequence(m.items)

IsReply(m) == m.type \in {"inv", "headers"} => IsSequence(m.items)

Requests(s) == IsSequence(s) /\ \A m \in ToSet(s) : IsRequest(m)
Replies(s)  == IsSequence(s) /\ \A m \in ToSet(s) : IsReply(m)

SyncTyped ==
    /\ DOMAIN toPeer = Peer /\ \A p \in Peer : Requests(toPeer[p])
    /\ DOMAIN fromPeer = Peer /\ \A p \in Peer : Replies(fromPeer[p])
    /\ link \subseteq Peer /\ drops \in Nat
    /\ peerTip \in [Peer -> Block]

\* The invariant: what is under way is well formed, and blocks in flight are
\* under way.
SyncInv == SyncTyped /\ InFlightAwaited

\* What a node asks for.
LEMMA WantedIsSequence ==
    ASSUME NEW items, IsSequence(items)
    PROVE  IsSequence(Wanted(items))
<1> DEFINE S == ToSet(items) \ (known \cup pool \cup inFlight)
<1>1. IsSequence(Kept(items, S))
  BY Filtered
<1>2. MaxInv \in Nat
  BY SyncAssumption
<1> QED
  BY <1>1, <1>2, Capped DEF Wanted

\* A reply to getheaders is a list of hashes.
LEMMA AboveIsSequence ==
    ASSUME peerTip \in [Peer -> Block], NEW p \in Peer, NEW t
    PROVE  IsSequence(Above(p, t))
<1>1. Height[peerTip[p]] \in Nat /\ MaxHeaders \in Nat
  BY SyncAssumption, SyncTree
<1>2. ActiveChain(p) = [h \in 1..Height[peerTip[p]] |-> ActiveChain(p)[h]]
  BY DEF ActiveChain
<1>3. IsSequence(ActiveChain(p))
  BY <1>1, <1>2, FunctionIsSequence
<1>4. IsSequence(Kept(ActiveChain(p), FC!NewBranch(peerTip[p], t)))
  BY <1>3, Filtered
<1> QED
  BY <1>1, <1>4, Capped DEF Above

\* Every block that is asked for is sent.
LEMMA BlocksAreServed ==
    ASSUME peerTip \in [Peer -> Block], NEW p \in Peer, NEW m, IsRequest(m)
    PROVE  /\ Replies(Answers(p, m))
           /\ m.type = "getdata" =>
                \A b \in ToSet(m.items) \ Tx : BlockMessage(b) \in ToSet(Answers(p, m))
<1>1. CASE m.type = "getheaders"
  <2> DEFINE reply == [type |-> "headers", items |-> Above(p, m.tip)]
  <2>1. IsReply(reply)
    BY AboveIsSequence DEF IsReply
  <2>2. Answers(p, m) = <<reply>>
    BY <1>1 DEF Answers
  <2> HIDE DEF reply
  <2>3. Replies(<<reply>>)
    BY <2>1, OneMessage DEF Replies
  <2> QED
    BY <1>1, <2>2, <2>3
<1>2. CASE m.type = "getdata"
  <2> DEFINE S == {i \in ToSet(m.items) : i \in Tx => ~Confirms(p, i)}
             held == Kept(m.items, S)
             a == [i \in DOMAIN held |->
                     IF held[i] \in Tx THEN [type |-> "tx", tx |-> held[i]]
                                       ELSE [type |-> "block", block |-> held[i]]]
  <2>1. Answers(p, m) = a
    BY <1>2 DEF Answers
  <2>2. IsSequence(m.items)
    BY <1>2 DEF IsRequest
  <2>3. IsSequence(held) /\ ToSet(held) = ToSet(m.items) \cap S
    BY <2>2, Filtered
  <2>4. \A b \in ToSet(m.items) \ Tx : b \in S
    OBVIOUS
  <2> HIDE DEF S, held
  <2>5. Len(held) \in Nat /\ DOMAIN held = 1..Len(held) /\ ToSet(held) = {held[i] : i \in 1..Len(held)}
    BY <2>3, SequenceOf
  <2>6. a = [i \in 1..Len(held) |-> a[i]]
    BY <2>5
  <2>7. IsSequence(a) /\ DOMAIN a = 1..Len(held)
    <3> HIDE DEF a
    <3> QED
      BY <2>5, <2>6, FunctionIsSequence
  <2>8. ToSet(a) = {a[i] : i \in 1..Len(held)}
    <3> HIDE DEF a
    <3> QED
      BY <2>7 DEF ToSet
  <2>9. \A i \in 1..Len(held) : IsReply(a[i])
    <3> SUFFICES ASSUME NEW i \in 1..Len(held) PROVE IsReply(a[i])
      OBVIOUS
    <3>1. a[i].type \in {"tx", "block"}
      BY <2>5
    <3> HIDE DEF a
    <3> QED
      BY <3>1 DEF IsReply
  <2>10. ASSUME NEW b \in ToSet(m.items) \ Tx PROVE BlockMessage(b) \in ToSet(a)
    <3>1. PICK i \in 1..Len(held) : held[i] = b
      BY <2>3, <2>4, <2>5
    <3>2. a[i] = BlockMessage(b)
      BY <2>5, <3>1 DEF BlockMessage
    <3> HIDE DEF a
    <3> QED
      BY <2>8, <3>2
  <2> HIDE DEF a
  <2>11. Replies(a)
    BY <2>7, <2>8, <2>9 DEF Replies
  <2> QED
    BY <2>1, <2>10, <2>11
<1> QED
  BY <1>1, <1>2 DEF IsRequest

----------------------------------------------------------------------------
(***************************************************************************)
(* How the queues change.                                                  *)
(***************************************************************************)
TypedRequests(f) == DOMAIN f = Peer /\ \A q \in Peer : Requests(f[q])
TypedReplies(f)  == DOMAIN f = Peer /\ \A q \in Peer : Replies(f[q])

Grows(f, g) == \A q \in Peer : ToSet(f[q]) \subseteq ToSet(g[q])

\* g is f without the message m of p.
Loses(f, g, p, m) ==
    /\ \A q \in Peer \ {p} : g[q] = f[q]
    /\ ToSet(f[p]) \subseteq ToSet(g[p]) \cup {m}

LEMMA RequestSent ==
    ASSUME NEW f, TypedRequests(f), NEW p \in Peer, NEW m, IsRequest(m),
           NEW g, g = [f EXCEPT ![p] = Append(@, m)]
    PROVE  TypedRequests(g) /\ Grows(f, g) /\ m \in ToSet(g[p])
<1>1. DOMAIN g = Peer /\ g[p] = Append(f[p], m) /\ \A q \in Peer \ {p} : g[q] = f[q]
  BY DEF TypedRequests
<1>2. IsSequence(f[p]) /\ \A x \in ToSet(f[p]) : IsRequest(x)
  BY DEF TypedRequests, Requests
<1>3. IsSequence(g[p]) /\ ToSet(g[p]) = ToSet(f[p]) \cup {m}
  BY <1>1, <1>2, Appended
<1>4. Requests(g[p])
  BY <1>2, <1>3 DEF Requests
<1> QED
  BY <1>1, <1>3, <1>4 DEF TypedRequests, Grows

LEMMA RequestServed ==
    ASSUME NEW f, TypedRequests(f), NEW p \in Peer, f[p] # <<>>,
           NEW g, g = [f EXCEPT ![p] = Tail(@)]
    PROVE  TypedRequests(g) /\ Loses(f, g, p, Head(f[p])) /\ IsRequest(Head(f[p]))
<1>1. DOMAIN g = Peer /\ g[p] = Tail(f[p]) /\ \A q \in Peer \ {p} : g[q] = f[q]
  BY DEF TypedRequests
<1>2. IsSequence(f[p]) /\ \A x \in ToSet(f[p]) : IsRequest(x)
  BY DEF TypedRequests, Requests
<1>3. /\ IsSequence(g[p]) /\ Head(f[p]) \in ToSet(f[p])
      /\ ToSet(g[p]) \subseteq ToSet(f[p])
      /\ ToSet(f[p]) \subseteq ToSet(g[p]) \cup {Head(f[p])}
  BY <1>1, <1>2, Removed
<1>4. Requests(g[p])
  BY <1>2, <1>3 DEF Requests
<1> QED
  BY <1>1, <1>2, <1>3, <1>4 DEF TypedRequests, Loses

LEMMA ReplyTaken ==
    ASSUME NEW f, TypedReplies(f), NEW p \in Peer, f[p] # <<>>,
           NEW g, g = [f EXCEPT ![p] = Tail(@)]
    PROVE  TypedReplies(g) /\ Loses(f, g, p, Head(f[p])) /\ IsReply(Head(f[p]))
<1>1. DOMAIN g = Peer /\ g[p] = Tail(f[p]) /\ \A q \in Peer \ {p} : g[q] = f[q]
  BY DEF TypedReplies
<1>2. IsSequence(f[p]) /\ \A x \in ToSet(f[p]) : IsReply(x)
  BY DEF TypedReplies, Replies
<1>3. /\ IsSequence(g[p]) /\ Head(f[p]) \in ToSet(f[p])
      /\ ToSet(g[p]) \subseteq ToSet(f[p])
      /\ ToSet(f[p]) \subseteq ToSet(g[p]) \cup {Head(f[p])}
  BY <1>1, <1>2, Removed
<1>4. Replies(g[p])
  BY <1>2, <1>3 DEF Replies
<1> QED
  BY <1>1, <1>2, <1>3, <1>4 DEF TypedReplies, Loses

LEMMA RepliesSent ==
    ASSUME NEW f, TypedReplies(f), NEW p \in Peer, NEW msgs, Replies(msgs),
           NEW g, g = [f EXCEPT ![p] = @ \o msgs]
    PROVE  TypedReplies(g) /\ Grows(f, g) /\ ToSet(msgs) \subseteq ToSet(g[p])
<1>1. DOMAIN g = Peer /\ g[p] = f[p] \o msgs /\ \A q \in Peer \ {p} : g[q] = f[q]
  BY DEF TypedReplies
<1>2. IsSequence(f[p]) /\ \A x \in ToSet(f[p]) : IsReply(x)
  BY DEF TypedReplies, Replies
<1>3. IsSequence(g[p]) /\ ToSet(g[p]) = ToSet(f[p]) \cup ToSet(msgs)
  BY <1>1, <1>2, Joined DEF Replies
<1>4. Replies(g[p])
  BY <1>2, <1>3 DEF Replies
<1> QED
  BY <1>1, <1>3, <1>4 DEF TypedReplies, Grows

\* A connection that opens or closes starts with, or leaves, empty queues.
LEMMA QueueReset ==
    ASSUME NEW f, NEW p \in Peer, NEW s, NEW g, g = [f EXCEPT ![p] = s]
    PROVE  /\ TypedRequests(f) /\ Requests(s) => TypedRequests(g)
           /\ TypedReplies(f) /\ Replies(s) => TypedReplies(g)
           /\ DOMAIN f = Peer => \A q \in Peer \ {p} : g[q] = f[q]
<1>1. ASSUME DOMAIN f = Peer
      PROVE  DOMAIN g = Peer /\ g[p] = s /\ \A q \in Peer \ {p} : g[q] = f[q]
  BY <1>1
<1> QED
  BY <1>1 DEF TypedRequests, TypedReplies

LEMMA EmptyQueues ==
    /\ Requests(<<>>) /\ Replies(<<>>)
    /\ \A t : Requests(<<GetHeaders(t)>>) /\ IsRequest(GetHeaders(t))
<1>1. Requests(<<>>) /\ Replies(<<>>)
  BY NoMessage DEF Requests, Replies
<1>2. ASSUME NEW t PROVE Requests(<<GetHeaders(t)>>) /\ IsRequest(GetHeaders(t))
  <2>1. IsRequest(GetHeaders(t))
    BY DEF IsRequest, GetHeaders
  <2> QED
    BY <2>1, OneMessage DEF Requests
<1> QED
  BY <1>1, <1>2

\* An announcement of one hash.
LEMMA Announcement ==
    ASSUME NEW i
    PROVE  Replies(<<[type |-> "inv", items |-> <<i>>]>>)
<1> DEFINE m == [type |-> "inv", items |-> <<i>>]
<1>1. IsReply(m)
  BY OneMessage DEF IsReply
<1> HIDE DEF m
<1>2. Replies(<<m>>)
  BY <1>1, OneMessage DEF Replies
<1> QED
  BY <1>2 DEF m

----------------------------------------------------------------------------
(***************************************************************************)
(* Blocks in flight.  A step keeps every block awaited that it leaves in   *)
(* flight if the block is newly asked for, or what was to bring it is not  *)
(* lost.                                                                   *)
(***************************************************************************)
Awaited(b, p) == AskedFor(b, p) \/ Arriving(b, p)

LEMMA StaysAwaited ==
    ASSUME InFlightAwaited,
           drops' = 0 /\ banned' = {} => drops = 0 /\ banned = {} /\ link \subseteq link',
           \A b \in inFlight' \ Tx :
              \/ \E p \in link' : Awaited(b, p)'
              \/ b \in inFlight /\ \A p \in link : Awaited(b, p) => Awaited(b, p)'
    PROVE  InFlightAwaited'
<1> SUFFICES ASSUME drops' = 0 /\ banned' = {}, NEW b \in inFlight' \ Tx
             PROVE  \E p \in link' : Awaited(b, p)'
  BY DEF InFlightAwaited, Awaited
<1>1. CASE b \in inFlight /\ \A p \in link : Awaited(b, p) => Awaited(b, p)'
  <2>1. PICK p \in link : Awaited(b, p)
    BY <1>1 DEF InFlightAwaited, Awaited
  <2>2. Awaited(b, p)' /\ p \in link'
    BY <1>1, <2>1
  <2> QED
    BY <2>2
<1> QED
  BY <1>1

\* What is in the queues after as before.
LEMMA GrownAwaits ==
    ASSUME Grows(toPeer, toPeer'), NEW p \in Peer, NEW b,
           Arriving(b, p) => Arriving(b, p)'
    PROVE  Awaited(b, p) => Awaited(b, p)'
<1>1. ASSUME AskedFor(b, p) PROVE AskedFor(b, p)'
  BY <1>1 DEF AskedFor, Grows
<1> QED
  BY <1>1 DEF Awaited

LEMMA TypedQueues == SyncTyped <=>
    /\ TypedRequests(toPeer) /\ TypedReplies(fromPeer)
    /\ link \subseteq Peer /\ drops \in Nat
    /\ peerTip \in [Peer -> Block]
  BY DEF SyncTyped, TypedRequests, TypedReplies

\* Taking another message than a block's leaves the block on its way.
LEMMA StillArriving ==
    ASSUME NEW p \in Peer, NEW m, Loses(fromPeer, fromPeer', p, m),
           NEW b, m # BlockMessage(b), NEW q \in Peer
    PROVE  Arriving(b, q) => Arriving(b, q)'
<1>1. CASE q = p
  BY <1>1 DEF Arriving, Loses, BlockMessage
<1>2. CASE q # p
  BY <1>2 DEF Arriving, Loses
<1> QED
  BY <1>1, <1>2

\* Asking for what was announced.
LEMMA AskedAwaits ==
    ASSUME TypedRequests(toPeer), NEW p \in Peer, NEW items, IsSequence(items), AskFor(p, items)
    PROVE  /\ TypedRequests(toPeer') /\ Grows(toPeer, toPeer')
           /\ \A b \in inFlight' : b \in inFlight \/ AskedFor(b, p)'
<1> DEFINE wanted == Wanted(items)
           m == [type |-> "getdata", items |-> wanted]
<1>1. IsSequence(wanted)
  BY WantedIsSequence
<1>2. /\ inFlight' = inFlight \cup ToSet(wanted)
      /\ toPeer' = IF wanted = <<>> THEN toPeer ELSE [toPeer EXCEPT ![p] = Append(@, m)]
  BY DEF AskFor
<1> HIDE DEF wanted
<1>3. CASE wanted = <<>>
  <2>1. ToSet(wanted) = {}
    BY <1>3, NoMessage
  <2> QED
    BY <1>2, <1>3, <2>1 DEF Grows
<1>4. CASE wanted # <<>>
  <2>1. IsRequest(m)
    BY <1>1 DEF IsRequest
  <2>2. m.type = "getdata" /\ m.items = wanted
    OBVIOUS
  <2>3. toPeer' = [toPeer EXCEPT ![p] = Append(@, m)]
    BY <1>2, <1>4
  <2> HIDE DEF m
  <2>4. TypedRequests(toPeer') /\ Grows(toPeer, toPeer') /\ m \in ToSet(toPeer'[p])
    BY <2>1, <2>3, RequestSent
  <2>5. \A b \in ToSet(wanted) : AskedFor(b, p)'
    BY <2>2, <2>4 DEF AskedFor
  <2> QED
    BY <1>2, <2>4, <2>5
<1> QED
  BY <1>3, <1>4

\* Handling a message that is no block: what it brought leaves the set at most.
LEMMA OtherMessage ==
    ASSUME SyncTyped, InFlightAwaited, NEW p \in Peer, fromPeer[p] # <<>>, Taken(p),
           Next1(p).type # "block", Grows(toPeer, toPeer'),
           drops' = 0 /\ banned' = {} => drops = 0 /\ banned = {} /\ link \subseteq link',
           p \in link' \/ inFlight' \subseteq inFlight,
           \A b \in inFlight' : b \in inFlight \/ AskedFor(b, p)'
    PROVE  InFlightAwaited'
<1>1. Loses(fromPeer, fromPeer', p, Next1(p))
  BY TypedQueues, ReplyTaken DEF Taken, Next1
<1>2. ASSUME NEW b \in inFlight' \ Tx
      PROVE  \/ \E q \in link' : Awaited(b, q)'
             \/ b \in inFlight /\ \A q \in link : Awaited(b, q) => Awaited(b, q)'
  <2>1. CASE b \in inFlight
    <3>1. Next1(p) # BlockMessage(b)
      BY DEF BlockMessage
    <3>2. ASSUME NEW q \in link PROVE Awaited(b, q) => Awaited(b, q)'
      <4>1. q \in Peer
        BY DEF SyncTyped
      <4>2. Arriving(b, q) => Arriving(b, q)'
        BY <1>1, <3>1, <4>1, StillArriving
      <4> QED
        BY <4>1, <4>2, GrownAwaits
    <3> QED
      BY <2>1, <3>2
  <2>2. CASE b \notin inFlight
    <3>1. p \in link' /\ AskedFor(b, p)'
      BY <2>2
    <3>2. Awaited(b, p)'
      BY <3>1 DEF Awaited
    <3> QED
      BY <3>1, <3>2
  <2> QED
    BY <2>1, <2>2
<1> QED
  BY <1>2, StaysAwaited

LEMMA AnnouncementsKeepInv ==
    ASSUME SyncInv, NEW p \in Peer, OnInv(p) \/ OnHeaders(p)
    PROVE  SyncInv'
<1>1. /\ SyncTyped /\ InFlightAwaited /\ p \in link /\ fromPeer[p] # <<>>
      /\ Next1(p).type \in {"inv", "headers"} /\ Taken(p) /\ AskFor(p, Next1(p).items)
      /\ UNCHANGED <<link, banned, drops, peerTip>>
  BY DEF SyncInv, OnInv, OnHeaders, Receives, linkVars, outside
<1>2. TypedReplies(fromPeer') /\ IsReply(Next1(p))
  BY <1>1, TypedQueues, ReplyTaken DEF Taken, Next1
<1>3. IsSequence(Next1(p).items)
  BY <1>1, <1>2 DEF IsReply
<1>4. /\ TypedRequests(toPeer') /\ Grows(toPeer, toPeer')
      /\ \A b \in inFlight' : b \in inFlight \/ AskedFor(b, p)'
  BY <1>1, <1>3, TypedQueues, AskedAwaits
<1>5. InFlightAwaited'
  BY <1>1, <1>4, OtherMessage
<1>6. SyncTyped'
  BY <1>1, <1>2, <1>4 DEF SyncTyped, TypedRequests, TypedReplies
<1> QED
  BY <1>5, <1>6 DEF SyncInv

\* misbehave() keeps the connections, unless it bans.
LEMMA PunishBans ==
    ASSUME NEW p, NEW points, Punish(p, points)
    PROVE  /\ link' \subseteq link
           /\ banned' = {} => banned = {} /\ link \subseteq link'
  BY DEF Punish

LEMMA BlockKeepsInv ==
    ASSUME SyncInv, NEW p \in Peer, OnBlock(p)
    PROVE  SyncInv'
<1> DEFINE b == Next1(p).block
           Kept1 == /\ link' \subseteq link
                    /\ banned' = {} => banned = {} /\ link \subseteq link'
           Asked == \/ toPeer' = toPeer
                    \/ \E t : toPeer' = [toPeer EXCEPT ![p] = Append(@, GetHeaders(t))]
<1>1. /\ SyncTyped /\ InFlightAwaited /\ p \in link /\ fromPeer[p] # <<>>
      /\ Next1(p).type = "block" /\ Taken(p) /\ inFlight' = inFlight \ {b}
      /\ UNCHANGED <<drops, peerTip>>
  BY DEF SyncInv, OnBlock, Receives, outside
<1>2. Kept1 /\ Asked
  <2>1. PICK v \in {Verdict(b, Chain)}, c \in {After(b, Chain)} :
           \/ v = "invalid" /\ Punish(p, BanThreshold) /\ UNCHANGED toPeer
           \/ v = "orphan" /\ AskHeaders(p, best) /\ UNCHANGED linkVars
           \/ /\ v = "connected"
              /\ IF claimed[p] > ChainWork[best'] THEN AskHeaders(p, best') ELSE UNCHANGED toPeer
              /\ UNCHANGED linkVars
           \/ v \in {"sidechain", "duplicate"} /\ UNCHANGED toPeer /\ UNCHANGED linkVars
    BY DEF OnBlock
  <2>2. CASE Punish(p, BanThreshold) /\ UNCHANGED toPeer
    BY <2>2, PunishBans
  <2>3. CASE (\E t : AskHeaders(p, t)) /\ UNCHANGED linkVars
    BY <2>3 DEF AskHeaders, linkVars
  <2>4. CASE UNCHANGED toPeer /\ UNCHANGED linkVars
    BY <2>4 DEF linkVars
  <2> QED
    BY <2>1, <2>2, <2>3, <2>4
<1>3. TypedReplies(fromPeer') /\ Loses(fromPeer, fromPeer', p, Next1(p))
  BY <1>1, TypedQueues, ReplyTaken DEF Taken, Next1
<1>4. TypedRequests(toPeer') /\ Grows(toPeer, toPeer')
  <2>1. TypedRequests(toPeer)
    BY <1>1, TypedQueues
  <2>2. CASE toPeer' = toPeer
    BY <2>1, <2>2 DEF Grows
  <2>3. ASSUME NEW t, toPeer' = [toPeer EXCEPT ![p] = Append(@, GetHeaders(t))]
        PROVE  TypedRequests(toPeer') /\ Grows(toPeer, toPeer')
    BY <2>1, <2>3, EmptyQueues, RequestSent
  <2> QED
    BY <1>2, <2>2, <2>3
<1>5. ASSUME NEW c \in inFlight' \ Tx
      PROVE  c \in inFlight /\ \A q \in link : Awaited(c, q) => Awaited(c, q)'
  <2>1. c \in inFlight /\ c # b
    BY <1>1, <1>5
  <2>2. Next1(p) # BlockMessage(c)
    BY <2>1 DEF BlockMessage
  <2>3. ASSUME NEW q \in link PROVE Awaited(c, q) => Awaited(c, q)'
    <3>1. q \in Peer
      BY <1>1 DEF SyncTyped
    <3>2. Arriving(c, q) => Arriving(c, q)'
      BY <1>3, <2>2, <3>1, StillArriving
    <3> QED
      BY <1>4, <3>1, <3>2, GrownAwaits
  <2> QED
    BY <2>1, <2>3
<1>6. InFlightAwaited'
  BY <1>1, <1>2, <1>5, StaysAwaited
<1>7. SyncTyped'
  BY <1>1, <1>2, <1>3, <1>4 DEF SyncTyped, TypedRequests, TypedReplies
<1> QED
  BY <1>6, <1>7 DEF SyncInv

\* A handler that throws takes its message and leaves the rest under way.
LEMMA ThrowKeepsInv ==
    ASSUME SyncInv, NEW p \in Peer, OnBlockThrows(p)
    PROVE  SyncInv'
<1> DEFINE b == Next1(p).block
<1>1. /\ SyncTyped /\ InFlightAwaited /\ p \in link /\ fromPeer[p] # <<>>
      /\ Next1(p).type = "block" /\ Taken(p) /\ inFlight' = inFlight \ {b}
      /\ UNCHANGED <<drops, peerTip, toPeer>> /\ Punish(p, ThrowPenalty)
  BY DEF SyncInv, OnBlockThrows, Receives
<1>2. link' \subseteq link /\ (banned' = {} => banned = {} /\ link \subseteq link')
  BY <1>1, PunishBans
<1>3. TypedReplies(fromPeer') /\ Loses(fromPeer, fromPeer', p, Next1(p))
  BY <1>1, TypedQueues, ReplyTaken DEF Taken, Next1
<1>4. TypedRequests(toPeer') /\ Grows(toPeer, toPeer')
  BY <1>1, TypedQueues DEF Grows
<1>5. ASSUME NEW c \in inFlight' \ Tx
      PROVE  c \in inFlight /\ \A q \in link : Awaited(c, q) => Awaited(c, q)'
  <2>1. c \in inFlight /\ c # b
    BY <1>1, <1>5
  <2>2. Next1(p) # BlockMessage(c)
    BY <2>1 DEF BlockMessage
  <2>3. ASSUME NEW q \in link PROVE Awaited(c, q) => Awaited(c, q)'
    <3>1. q \in Peer
      BY <1>1 DEF SyncTyped
    <3>2. Arriving(c, q) => Arriving(c, q)'
      BY <1>3, <2>2, <3>1, StillArriving
    <3> QED
      BY <1>4, <3>1, <3>2, GrownAwaits
  <2> QED
    BY <2>1, <2>3
<1>6. InFlightAwaited'
  BY <1>1, <1>2, <1>5, StaysAwaited
<1>7. SyncTyped'
  BY <1>1, <1>2, <1>3, <1>4 DEF SyncTyped, TypedRequests, TypedReplies
<1> QED
  BY <1>6, <1>7 DEF SyncInv

LEMMA TxKeepsInv ==
    ASSUME SyncInv, NEW p \in Peer, OnTx(p)
    PROVE  SyncInv'
<1>1. /\ SyncTyped /\ InFlightAwaited /\ p \in link /\ fromPeer[p] # <<>>
      /\ Next1(p).type = "tx" /\ Taken(p) /\ inFlight' \subseteq inFlight
      /\ UNCHANGED <<drops, peerTip, toPeer>>
  BY DEF SyncInv, OnTx, Receives, outside
<1>2. /\ link' \subseteq link
      /\ banned' = {} => banned = {} /\ link \subseteq link'
  <2>1. Punish(p, TxPenalty) \/ UNCHANGED <<banned, link>>
    BY DEF OnTx
  <2> QED
    BY <2>1, PunishBans
<1>3. TypedReplies(fromPeer')
  BY <1>1, TypedQueues, ReplyTaken DEF Taken, Next1
<1>4. InFlightAwaited'
  <2>1. Grows(toPeer, toPeer')
    BY <1>1 DEF Grows
  <2>2. \A b \in inFlight' : b \in inFlight \/ AskedFor(b, p)'
    BY <1>1
  <2> QED
    BY <1>1, <1>2, <2>1, <2>2, OtherMessage
<1>5. SyncTyped'
  BY <1>1, <1>2, <1>3 DEF SyncTyped, TypedReplies
<1> QED
  BY <1>4, <1>5 DEF SyncInv

\* A request for a block becomes the block.
LEMMA ServingKeepsInv ==
    ASSUME SyncInv, NEW p \in Peer, PeerServes(p)
    PROVE  SyncInv'
<1> DEFINE m == Head(toPeer[p])
<1>1. /\ SyncTyped /\ InFlightAwaited /\ toPeer[p] # <<>> /\ Say(p, Answers(p, m))
      /\ toPeer' = [toPeer EXCEPT ![p] = Tail(@)]
      /\ UNCHANGED <<inFlight, link, banned, drops, peerTip>>
  BY DEF SyncInv, PeerServes, linkVars, outside
<1>2. TypedRequests(toPeer') /\ Loses(toPeer, toPeer', p, m) /\ IsRequest(m)
  BY <1>1, TypedQueues, RequestServed
<1>3. /\ Replies(Answers(p, m))
      /\ m.type = "getdata" =>
           \A b \in ToSet(m.items) \ Tx : BlockMessage(b) \in ToSet(Answers(p, m))
  BY <1>1, <1>2, BlocksAreServed DEF SyncTyped
<1> HIDE DEF m
<1>4. /\ TypedReplies(fromPeer') /\ Grows(fromPeer, fromPeer')
      /\ ToSet(Answers(p, m)) \subseteq ToSet(fromPeer'[p])
  <2> DEFINE msgs == Answers(p, m)
  <2>1. fromPeer' = [fromPeer EXCEPT ![p] = @ \o msgs] /\ TypedReplies(fromPeer)
    BY <1>1, TypedQueues DEF Say
  <2>2. Replies(msgs)
    BY <1>3
  <2> HIDE DEF msgs
  <2>3. /\ TypedReplies(fromPeer') /\ Grows(fromPeer, fromPeer')
        /\ ToSet(msgs) \subseteq ToSet(fromPeer'[p])
    BY <2>1, <2>2, RepliesSent
  <2> QED
    BY <2>3 DEF msgs
<1>5. ASSUME NEW b \in inFlight' \ Tx, NEW q \in link, Awaited(b, q)
      PROVE  Awaited(b, q)'
  <2>1. q \in Peer
    BY <1>1 DEF SyncTyped
  <2>2. CASE Arriving(b, q)
    <3>1. Arriving(b, q)'
      BY <1>4, <2>1, <2>2 DEF Arriving, Grows
    <3> QED
      BY <3>1 DEF Awaited
  <2>3. CASE AskedFor(b, q)
    <3>1. PICK r \in ToSet(toPeer[q]) : r.type = "getdata" /\ b \in ToSet(r.items)
      BY <2>3 DEF AskedFor
    <3>2. CASE r \in ToSet(toPeer'[q])
      <4>1. AskedFor(b, q)'
        BY <3>1, <3>2 DEF AskedFor
      <4> QED
        BY <4>1 DEF Awaited
    <3>3. CASE r \notin ToSet(toPeer'[q])
      <4>1. q = p /\ r = m
        BY <1>2, <2>1, <3>3 DEF Loses
      <4>2. BlockMessage(b) \in ToSet(fromPeer'[p])
        BY <1>3, <1>4, <1>5, <3>1, <4>1
      <4>3. Arriving(b, q)'
        BY <4>1, <4>2 DEF Arriving, BlockMessage
      <4> QED
        BY <4>3 DEF Awaited
    <3> QED
      BY <3>2, <3>3
  <2> QED
    BY <1>5, <2>2, <2>3 DEF Awaited
<1>6. InFlightAwaited'
  BY <1>1, <1>5, StaysAwaited
<1>7. SyncTyped'
  BY <1>1, <1>2, <1>4 DEF SyncTyped, TypedRequests, TypedReplies
<1> QED
  BY <1>6, <1>7 DEF SyncInv

\* A step that takes no message and leaves no connection: whoever was asked still
\* has to answer.
LEMMA NothingTaken ==
    ASSUME SyncTyped, InFlightAwaited, Grows(toPeer, toPeer'), Grows(fromPeer, fromPeer'),
           UNCHANGED <<inFlight, link, banned, drops>>
    PROVE  InFlightAwaited'
<1>1. ASSUME NEW b \in inFlight' \ Tx, NEW p \in link, Awaited(b, p)
      PROVE  Awaited(b, p)'
  <2>1. p \in Peer
    BY DEF SyncTyped
  <2>2. Arriving(b, p) => Arriving(b, p)'
    BY <2>1 DEF Arriving, Grows
  <2> QED
    BY <1>1, <2>1, <2>2, GrownAwaits
<1> QED
  BY <1>1, StaysAwaited

LEMMA PeerSpeaksKeepsInv ==
    ASSUME SyncInv, NEW p \in Peer,
           (\E b \in Block : PeerAdvances(p, b)) \/ (\E t \in Tx : PeerRelaysTx(p, t))
    PROVE  SyncInv'
<1>1. /\ SyncTyped /\ InFlightAwaited /\ peerTip' \in [Peer -> Block]
      /\ UNCHANGED <<toPeer, inFlight, link, banned, drops>>
      /\ \/ UNCHANGED fromPeer
         \/ \E i : Say(p, <<[type |-> "inv", items |-> <<i>>]>>)
  <2>1. CASE \E b \in Block : PeerAdvances(p, b)
    BY <2>1 DEF SyncInv, SyncTyped, PeerAdvances, linkVars
  <2>2. CASE \E t \in Tx : PeerRelaysTx(p, t)
    BY <2>2 DEF SyncInv, SyncTyped, PeerRelaysTx, linkVars
  <2> QED
    BY <2>1, <2>2
<1>2. TypedReplies(fromPeer') /\ Grows(fromPeer, fromPeer')
  <2>1. TypedReplies(fromPeer)
    BY <1>1, TypedQueues
  <2>2. CASE UNCHANGED fromPeer
    BY <2>1, <2>2 DEF Grows
  <2>3. ASSUME NEW i, Say(p, <<[type |-> "inv", items |-> <<i>>]>>)
        PROVE  TypedReplies(fromPeer') /\ Grows(fromPeer, fromPeer')
    <3> DEFINE msgs == <<[type |-> "inv", items |-> <<i>>]>>
    <3>1. fromPeer' = [fromPeer EXCEPT ![p] = @ \o msgs] /\ Replies(msgs)
      BY <2>3, Announcement DEF Say
    <3> HIDE DEF msgs
    <3> QED
      BY <2>1, <3>1, RepliesSent
  <2> QED
    BY <1>1, <2>2, <2>3
<1>3. InFlightAwaited'
  BY <1>1, <1>2, NothingTaken DEF Grows
<1>4. SyncTyped'
  BY <1>1, <1>2 DEF SyncTyped, TypedReplies
<1> QED
  BY <1>3, <1>4 DEF SyncInv

LEMMA ConnectKeepsInv ==
    ASSUME SyncInv, NEW p \in Peer, Connect(p)
    PROVE  SyncInv'
<1> DEFINE s == IF ChainWork[peerTip[p]] > ChainWork[best] THEN <<GetHeaders(best)>> ELSE <<>>
<1>1. /\ SyncTyped /\ InFlightAwaited /\ p \notin link /\ link' = link \cup {p}
      /\ toPeer' = [toPeer EXCEPT ![p] = s] /\ fromPeer' = [fromPeer EXCEPT ![p] = <<>>]
      /\ UNCHANGED <<inFlight, banned, drops, peerTip>>
  BY DEF SyncInv, Connect, outside
<1>2. Requests(s) /\ Replies(<<>>)
  BY EmptyQueues
<1> HIDE DEF s
<1>3. /\ TypedRequests(toPeer') /\ TypedReplies(fromPeer')
      /\ \A q \in Peer \ {p} : toPeer'[q] = toPeer[q] /\ fromPeer'[q] = fromPeer[q]
  <2>1. TypedRequests(toPeer) /\ TypedReplies(fromPeer)
    BY <1>1, TypedQueues
  <2>2. DOMAIN toPeer = Peer /\ DOMAIN fromPeer = Peer
    BY <1>1 DEF SyncTyped
  <2>3. TypedRequests(toPeer') /\ \A q \in Peer \ {p} : toPeer'[q] = toPeer[q]
    BY <1>1, <1>2, <2>1, <2>2, QueueReset
  <2>4. TypedReplies(fromPeer') /\ \A q \in Peer \ {p} : fromPeer'[q] = fromPeer[q]
    BY <1>1, <1>2, <2>1, <2>2, QueueReset
  <2> QED
    BY <2>3, <2>4
<1>4. ASSUME NEW b \in inFlight' \ Tx, NEW q \in link, Awaited(b, q)
      PROVE  Awaited(b, q)'
  <2>1. q \in Peer \ {p}
    BY <1>1 DEF SyncTyped
  <2>2. toPeer'[q] = toPeer[q] /\ fromPeer'[q] = fromPeer[q]
    BY <1>3, <2>1
  <2> QED
    BY <1>4, <2>2 DEF Awaited, AskedFor, Arriving
<1>5. InFlightAwaited'
  BY <1>1, <1>4, StaysAwaited
<1>6. SyncTyped'
  BY <1>1, <1>3 DEF SyncTyped, TypedRequests, TypedReplies
<1> QED
  BY <1>5, <1>6 DEF SyncInv

\* A lost connection is out of the invariant's reach, a restart forgets what was
\* in flight.
LEMMA LossKeepsInv ==
    ASSUME SyncInv, (\E p \in Peer : Drop(p)) \/ Restart
    PROVE  SyncInv'
<1>1. SyncTyped /\ InFlightAwaited
  BY DEF SyncInv
<1>2. CASE \E p \in Peer : Drop(p)
  <2>1. PICK p \in Peer : Drop(p)
    BY <1>2
  <2>2. /\ link' \subseteq link /\ drops' = drops + 1 /\ peerTip' = peerTip
        /\ toPeer' = [toPeer EXCEPT ![p] = <<>>] /\ fromPeer' = [fromPeer EXCEPT ![p] = <<>>]
    BY <2>1 DEF Drop
  <2>3. TypedRequests(toPeer') /\ TypedReplies(fromPeer')
    BY <1>1, <2>2, TypedQueues, EmptyQueues, QueueReset
  <2>4. SyncTyped'
    BY <1>1, <2>2, <2>3 DEF SyncTyped, TypedRequests, TypedReplies
  <2>5. drops' # 0
    BY <1>1, <2>2 DEF SyncTyped
  <2> QED
    BY <2>4, <2>5 DEF SyncInv, InFlightAwaited
<1>3. CASE Restart
  <2>1. /\ link' = {} /\ inFlight' = {} /\ drops' = drops /\ peerTip' = peerTip
        /\ toPeer' = [p \in Peer |-> <<>>] /\ fromPeer' = [p \in Peer |-> <<>>]
    BY <1>3 DEF Restart
  <2>2. SyncTyped'
    BY <1>1, <2>1, EmptyQueues DEF SyncTyped
  <2> QED
    BY <2>1, <2>2 DEF SyncInv, InFlightAwaited
<1> QED
  BY <1>2, <1>3

LEMMA OwnStepKeepsInv ==
    ASSUME SyncInv, (\E b \in Block : Mine(b)) \/ SyncFromBest
    PROVE  SyncInv'
<1>1. /\ SyncTyped /\ InFlightAwaited
      /\ UNCHANGED <<fromPeer, inFlight, link, banned, drops, peerTip>>
      /\ \/ UNCHANGED toPeer
         \/ \E p \in Peer : toPeer' = [toPeer EXCEPT ![p] = Append(@, GetHeaders(best))]
  <2>1. CASE \E b \in Block : Mine(b)
    BY <2>1 DEF SyncInv, Mine, linkVars, wires, outside
  <2>2. CASE SyncFromBest
    BY <2>2 DEF SyncInv, SyncTyped, SyncFromBest, BestPeers, AskHeaders, linkVars, outside
  <2> QED
    BY <2>1, <2>2
<1>2. TypedRequests(toPeer') /\ Grows(toPeer, toPeer')
  <2>1. TypedRequests(toPeer)
    BY <1>1, TypedQueues
  <2>2. CASE UNCHANGED toPeer
    BY <2>1, <2>2 DEF Grows
  <2>3. ASSUME NEW p \in Peer, toPeer' = [toPeer EXCEPT ![p] = Append(@, GetHeaders(best))]
        PROVE  TypedRequests(toPeer') /\ Grows(toPeer, toPeer')
    BY <2>1, <2>3, EmptyQueues, RequestSent
  <2> QED
    BY <1>1, <2>2, <2>3
<1>3. InFlightAwaited'
  BY <1>1, <1>2, NothingTaken DEF Grows
<1>4. SyncTyped'
  BY <1>1, <1>2 DEF SyncTyped, TypedRequests
<1> QED
  BY <1>3, <1>4 DEF SyncInv

----------------------------------------------------------------------------
LEMMA InitSyncInv == Init => SyncInv
<1> SUFFICES ASSUME Init PROVE SyncInv
  OBVIOUS
<1>1. SyncTyped
  BY EmptyQueues, SyncAssumption DEF Init, SyncTyped, GoodChains
<1>2. InFlightAwaited
  BY DEF Init, InFlightAwaited
<1> QED
  BY <1>1, <1>2 DEF SyncInv

LEMMA NextSyncInv == SyncInv /\ [Next]_vars => SyncInv'
<1> SUFFICES ASSUME SyncInv, [Next]_vars PROVE SyncInv'
  OBVIOUS
<1>1. CASE \E p \in Peer : Connect(p)
  BY <1>1, ConnectKeepsInv
<1>2. CASE (\E p \in Peer : Drop(p)) \/ Restart
  BY <1>2, LossKeepsInv
<1>3. CASE \E p \in Peer : OnInv(p) \/ OnHeaders(p)
  BY <1>3, AnnouncementsKeepInv
<1>4. CASE \E p \in Peer : OnBlock(p) \/ OnBlockThrows(p)
  BY <1>4, BlockKeepsInv, ThrowKeepsInv
<1>5. CASE \E p \in Peer : OnTx(p)
  BY <1>5, TxKeepsInv
<1>6. CASE \E p \in Peer : PeerServes(p)
  BY <1>6, ServingKeepsInv
<1>7. CASE \E p \in Peer : (\E b \in Block : PeerAdvances(p, b)) \/ (\E t \in Tx : PeerRelaysTx(p, t))
  BY <1>7, PeerSpeaksKeepsInv
<1>8. CASE (\E b \in Block : Mine(b)) \/ SyncFromBest
  BY <1>8, OwnStepKeepsInv
<1>9. CASE UNCHANGED vars
  BY <1>9 DEF vars, chainVars, linkVars, wires, outside, SyncInv, SyncTyped,
     InFlightAwaited, AskedFor, Arriving
<1> QED
  BY <1>1, <1>2, <1>3, <1>4, <1>5, <1>6, <1>7, <1>8, <1>9 DEF Next, Receive

LEMMA SyncInvariance == Spec => []SyncInv
<1> QED
  BY InitSyncInv, NextSyncInv, PTL DEF Spec

\* No block is marked as asked for and then forgotten (node.ts, #inFlight), with any
\* number of peers, in whatever order what they say arrives, as long as no
\* connection is lost and nobody is banned.
THEOREM RequestsAreAnswered == Spec => []InFlightAwaited
<1>1. SyncInv => InFlightAwaited
  BY DEF SyncInv
<1> QED
  BY <1>1, SyncInvariance, PTL

----------------------------------------------------------------------------
(***************************************************************************)
(* The chain.  Rooted chains hold blocks that validate only, and what is   *)
(* below them; sound ones have also left untried only what was beyond the  *)
(* undo window of a chain they have had.                                   *)
(***************************************************************************)
Untried(b, c) ==
    \E t \in c.known : /\ ChainWork[t] <= ChainWork[c.best]
                       /\ Height[t] - FC!ForkHeight(b, t) > UndoRetention

BeyondWindow(b, c) ==
    /\ ChainWork[b] > ChainWork[c.best]
    /\ Height[c.best] - FC!ForkHeight(b, c.best) > UndoRetention

Chains == [known : SUBSET GoodChains, best : Block, pool : SUBSET Tx]

RootedChains ==
    {c \in Chains :
        /\ c.best \in c.known /\ Genesis \in c.known
        /\ \A b \in c.known : Ancestors[b] \subseteq c.known}

SoundChains ==
    {c \in RootedChains :
        \A b \in c.known : ChainWork[b] > ChainWork[c.best] => Untried(b, c)}

LEMMA ForkHeightNat ==
    ASSUME NEW b \in Block, NEW t \in Block
    PROVE  FC!ForkHeight(b, t) \in Nat
<1> DEFINE S == {Height[a] : a \in Ancestors[b] \cap Ancestors[t]}
           Is(h) == \A a \in Ancestors[b] \cap Ancestors[t] : Height[a] <= h
<1>1. Ancestors[b] \subseteq Block /\ Genesis \in Ancestors[b] /\ Genesis \in Ancestors[t]
  BY SyncTree
<1>2. /\ S \in SUBSET Nat /\ S # {} /\ Height[b] \in Nat
      /\ \A n \in S : n <= Height[b]
  BY <1>1, SyncTree
<1>3. PICK n \in S : \A m \in S : m <= n
  <2> HIDE DEF S
  <2> QED
    BY <1>2, NatGreatest
<1>4. \E h \in S : Is(h)
  BY <1>3
<1>5. (CHOOSE h \in S : Is(h)) \in S
  <2> HIDE DEF S, Is
  <2> QED
    BY <1>4
<1>6. FC!ForkHeight(b, t) = CHOOSE h \in S : Is(h)
  BY DEF FC!ForkHeight
<1> QED
  BY <1>2, <1>5, <1>6

LEMMA GenesisIsGood == Genesis \in GoodChains /\ GoodChains \subseteq Block
BY SyncTree DEF GoodChains

\* Every block below one that validates with all below it does too.
LEMMA AncestorsAreGood ==
    ASSUME NEW b \in GoodChains
    PROVE  Ancestors[b] \subseteq GoodChains
BY SyncTree DEF GoodChains

\* What acceptBlock does with a block that validates.
\* What a chain is as long as no write failed, and after.
ChainsAfter(n) == IF n = 0 THEN SoundChains ELSE RootedChains

LEMMA VerdictOnGood ==
    ASSUME NEW c \in RootedChains, NEW b \in GoodChains
    PROVE  /\ Verdict(b, c) = "invalid" => BeyondWindow(b, c)
           /\ Verdict(b, c) = "connected" => ChainWork[b] > ChainWork[c.best]
           /\ Verdict(b, c) = "sidechain" => ChainWork[b] <= ChainWork[c.best]
<1>0. /\ c \in Chains /\ c.best \in Block /\ c.known \subseteq Block
      /\ Genesis \in c.known /\ b \in Block
  BY GenesisIsGood DEF RootedChains, Chains
<1>1. /\ ChainWork[b] \in Nat /\ ChainWork[c.best] \in Nat /\ Height[c.best] \in Nat
      /\ FC!ForkHeight(b, c.best) \in Nat /\ UndoRetention \in Nat
  BY <1>0, ForkHeightNat, SyncTree, SyncAssumption
<1>2. CASE b \in c.known \/ Parent[b] \notin c.known
  <2>1. b # Genesis => b \in HeaderOk
    BY <1>0, SyncTree DEF GoodChains
  <2> QED
    BY <1>0, <1>2, <2>1 DEF Verdict
<1>3. CASE b \notin c.known /\ Parent[b] \in c.known
  <2>1. b # Genesis
    BY <1>0, <1>3
  <2>2. /\ b \in HeaderOk /\ b \in Good /\ ChainWork[b] > ChainWork[Parent[b]]
        /\ FC!NewBranch(b, c.best) \subseteq Good
    BY <1>0, <2>1, SyncTree DEF GoodChains, FC!NewBranch
  <2> DEFINE window == Height[c.best] - FC!ForkHeight(b, c.best) <= UndoRetention
             heavier == ChainWork[b] > ChainWork[c.best]
  <2>3. Verdict(b, c) = IF Parent[b] = c.best THEN "connected"
                        ELSE IF ChainWork[b] <= ChainWork[c.best] THEN "sidechain"
                        ELSE IF heavier /\ window THEN "connected" ELSE "invalid"
    BY <1>3, <2>2 DEF Verdict
  <2>4. ChainWork[b] <= ChainWork[c.best] \/ heavier
    BY <1>1
  <2>5. window \/ Height[c.best] - FC!ForkHeight(b, c.best) > UndoRetention
    BY <1>1
  <2> HIDE DEF window
  <2>6. CASE Parent[b] = c.best
    BY <2>2, <2>3, <2>6
  <2>7. CASE Parent[b] # c.best
    BY <2>3, <2>4, <2>5, <2>7 DEF BeyondWindow
  <2> QED
    BY <2>6, <2>7
<1> QED
  BY <1>2, <1>3

\* A block is stored on its parent.
LEMMA StoredOnParent ==
    ASSUME NEW c \in RootedChains, NEW b \in GoodChains, After(b, c).known # c.known
    PROVE  b # Genesis /\ Parent[b] \in c.known
<1>1. Genesis \in c.known /\ b \in Block
  BY GenesisIsGood DEF RootedChains
<1>2. /\ Verdict(b, c) \in {"connected", "sidechain", "invalid"}
      /\ Verdict(b, c) = "invalid" => b \in HeaderOk
      /\ b \notin c.known
  BY DEF After
<1>3. b # Genesis /\ b \in HeaderOk
  BY <1>1, <1>2, SyncTree DEF GoodChains
<1>4. ASSUME Parent[b] \notin c.known PROVE Verdict(b, c) = "orphan"
  BY <1>2, <1>3, <1>4 DEF Verdict
<1> QED
  BY <1>2, <1>3, <1>4

LEMMA RootedWith ==
    ASSUME NEW c \in RootedChains, NEW b \in GoodChains, b # Genesis, Parent[b] \in c.known,
           NEW x \in c.known \cup {b}
    PROVE  Ancestors[x] \subseteq c.known \cup {b}
<1>1. b \in Block /\ Ancestors[b] = Ancestors[Parent[b]] \cup {b}
  BY GenesisIsGood, SyncTree
<1> QED
  BY <1>1 DEF RootedChains

\* The chain after a block, whatever the verdict.
LEMMA AfterRooted ==
    ASSUME NEW c \in RootedChains, NEW b \in GoodChains
    PROVE  After(b, c) \in RootedChains
<1> DEFINE d == After(b, c)
           v == Verdict(b, c)
<1>1. /\ c.known \in SUBSET GoodChains /\ c.best \in Block /\ c.pool \in SUBSET Tx
      /\ c.best \in c.known /\ Genesis \in c.known /\ b \in Block
      /\ \A x \in c.known : Ancestors[x] \subseteq c.known
  BY GenesisIsGood DEF RootedChains, Chains
<1>2. /\ d.known = c.known \/ d.known = c.known \cup {b}
      /\ v = "connected" => d.known = c.known \cup {b}
      /\ d.best = IF v = "connected" THEN b ELSE c.best
      /\ d.pool \in SUBSET Tx
      /\ d = [known |-> d.known, best |-> d.best, pool |-> d.pool]
  BY <1>1 DEF After, Confirmed
<1>3. d.known # c.known => b # Genesis /\ Parent[b] \in c.known
  BY StoredOnParent
<1> HIDE DEF d, v
<1>4. d \in Chains
  BY <1>1, <1>2 DEF Chains
<1>5. \A x \in d.known : Ancestors[x] \subseteq d.known
  BY <1>1, <1>2, <1>3, RootedWith
<1> QED
  BY <1>1, <1>2, <1>4, <1>5 DEF RootedChains, d

LEMMA AfterSound ==
    ASSUME NEW c \in SoundChains, NEW b \in GoodChains
    PROVE  After(b, c) \in SoundChains
<1> DEFINE d == After(b, c)
           v == Verdict(b, c)
<1>0. c \in RootedChains
  BY DEF SoundChains
<1>1. /\ c.known \in SUBSET GoodChains /\ c.best \in Block /\ c.pool \in SUBSET Tx
      /\ c.best \in c.known /\ Genesis \in c.known /\ b \in Block
  BY <1>0, GenesisIsGood DEF RootedChains, Chains
<1>2. /\ d.known = c.known \/ d.known = c.known \cup {b}
      /\ v = "connected" => d.known = c.known \cup {b}
      /\ d.best = IF v = "connected" THEN b ELSE c.best
      /\ d.known # c.known => v \in {"connected", "sidechain", "invalid"}
  BY <1>1 DEF After, Confirmed
<1>3. d \in RootedChains
  BY <1>0, AfterRooted
<1>4. /\ ChainWork[d.best] \in Nat /\ ChainWork[c.best] \in Nat
      /\ ChainWork[c.best] <= ChainWork[d.best]
      /\ \A x \in c.known : ChainWork[x] \in Nat
  BY <1>0, <1>1, <1>2, VerdictOnGood, SyncTree, GenesisIsGood
<1> HIDE DEF d, v
<1>6. ASSUME NEW x \in d.known, ChainWork[x] > ChainWork[d.best] PROVE Untried(x, d)
  <2>1. CASE x \in c.known
    <3>1. ChainWork[x] > ChainWork[c.best]
      BY <1>4, <1>6, <2>1
    <3>2. PICK t \in c.known : /\ ChainWork[t] <= ChainWork[c.best]
                               /\ Height[t] - FC!ForkHeight(x, t) > UndoRetention
      BY <2>1, <3>1 DEF SoundChains, Untried
    <3>3. t \in d.known /\ ChainWork[t] <= ChainWork[d.best]
      BY <1>2, <1>4, <3>2
    <3> QED
      BY <3>2, <3>3 DEF Untried
  <2>2. CASE x \notin c.known
    <3>1. x = b /\ v \in {"connected", "sidechain", "invalid"}
      BY <1>2, <1>6, <2>2
    <3>2. v # "connected"
      BY <1>2, <1>4, <1>6, <3>1
    <3>3. d.best = c.best
      BY <1>2, <3>2
    <3>4. v # "sidechain"
      <4>1. v = "sidechain" => ChainWork[b] <= ChainWork[c.best]
        BY <1>0, VerdictOnGood DEF v
      <4>2. ChainWork[b] \in Nat
        BY <1>1, SyncTree
      <4> QED
        BY <1>4, <1>6, <3>1, <3>3, <4>1, <4>2
    <3>5. BeyondWindow(b, c)
      BY <1>0, <3>1, <3>2, <3>4, VerdictOnGood DEF v
    <3>6. c.best \in d.known /\ ChainWork[c.best] <= ChainWork[d.best]
      BY <1>1, <1>2, <1>4
    <3> QED
      BY <3>1, <3>5, <3>6 DEF Untried, BeyondWindow
  <2> QED
    BY <2>1, <2>2
<1> QED
  BY <1>3, <1>6 DEF SoundChains, d

LEMMA AfterKept ==
    ASSUME NEW n, NEW c \in ChainsAfter(n), NEW b \in GoodChains
    PROVE  After(b, c) \in ChainsAfter(n)
BY AfterRooted, AfterSound DEF ChainsAfter

LEMMA Rooted ==
    ASSUME NEW n, NEW c \in ChainsAfter(n)
    PROVE  c \in RootedChains
BY DEF ChainsAfter, SoundChains

\* What a failed write leaves is still rooted.
LEMMA TornRooted ==
    ASSUME NEW c \in RootedChains, NEW b \in GoodChains, b \notin c.known,
           Parent[b] \in c.known, NEW t \in Torn(b, c)
    PROVE  t \in RootedChains
<1>1. /\ c \in Chains /\ c.known \in SUBSET GoodChains /\ c.best \in c.known
      /\ Genesis \in c.known /\ b \in Block /\ b # Genesis
      /\ \A x \in c.known : Ancestors[x] \subseteq c.known
  BY GenesisIsGood DEF RootedChains, Chains
<1>2. SUFFICES ASSUME NEW y \in Ancestors[c.best] \cup Ancestors[Parent[b]],
                      t = [c EXCEPT !.known = @ \cup {b}, !.best = y]
               PROVE  t \in RootedChains
  BY DEF Torn
<1>3. y \in c.known /\ y \in Block
  BY <1>1, GenesisIsGood
<1>4. t \in Chains /\ t.known = c.known \cup {b} /\ t.best = y
  BY <1>1, <1>2, <1>3 DEF Chains
<1>5. \A x \in t.known : Ancestors[x] \subseteq t.known
  BY <1>1, <1>4, RootedWith
<1> QED
  BY <1>1, <1>3, <1>4, <1>5 DEF RootedChains


----------------------------------------------------------------------------
(***************************************************************************)
(* Draining the orphans.                                                   *)
(***************************************************************************)
Held == Seq(GoodChains)

Drains(n) == [chain : ChainsAfter(n), orphans : Held, progress : BOOLEAN]

LEMMA RememberSound ==
    ASSUME NEW held \in Held, NEW b \in GoodChains
    PROVE  Remember(held, b) \in Held
<1> DEFINE room == IF Len(held) >= MaxOrphans THEN Tail(held) ELSE held
<1>1. held # <<>> => Tail(held) \in Seq(GoodChains)
  BY DEF Held
<1>2. held = <<>> => Len(held) < MaxOrphans
  <2>1. Len(<<>>) = 0 /\ MaxOrphans \in Nat \ {0}
    BY SyncAssumption
  <2> QED
    BY <2>1
<1>3. Len(held) \in Nat /\ MaxOrphans \in Nat
  BY SyncAssumption DEF Held
<1>4. room \in Seq(GoodChains)
  <2>1. CASE held = <<>>
    <3>1. ~(Len(held) >= MaxOrphans)
      BY <1>2, <1>3, <2>1
    <3> QED
      BY <3>1 DEF Held
  <2>2. CASE held # <<>>
    BY <1>1, <2>2 DEF Held
  <2> QED
    BY <2>1, <2>2
<1> HIDE DEF room
<1>5. Append(room, b) \in Seq(GoodChains)
  BY <1>4
<1> QED
  BY <1>4, <1>5 DEF Remember, Held, room

LEMMA DrainTrySound ==
    ASSUME NEW k, NEW d \in Drains(k), NEW b \in GoodChains
    PROVE  DrainTry(d, b) \in Drains(k)
<1>1. d.chain \in ChainsAfter(k) /\ d.orphans \in Held /\ d.progress \in BOOLEAN
  BY DEF Drains
<1>2. After(b, d.chain) \in ChainsAfter(k)
  BY <1>1, AfterKept
<1>3. Without(d.orphans, b) \in Held
  BY <1>1, KeptElements DEF Without, Held
<1>4. (d.progress \/ Verdict(b, d.chain) = "connected") \in BOOLEAN
  OBVIOUS
<1> QED
  BY <1>2, <1>3, <1>4 DEF DrainTry, Drains

LEMMA DrainPassSound ==
    ASSUME NEW k, NEW d \in Drains(k)
    PROVE  /\ DrainPass(d) \in Drains(k)
           /\ \A m \in 0..Len(d.orphans) : DrainTries(d)[m] \in Drains(k)
<1> DEFINE N == Len(d.orphans)
           start == [d EXCEPT !.progress = FALSE]
           Step == [x \in Drains(k) \X (1..N) |-> DrainTry(x[1], d.orphans[x[2]])]
           Is(q) == q = [n \in 0..N |-> IF n = 0 THEN start
                                        ELSE DrainTry(q[n - 1], d.orphans[n])]
           q == CHOOSE q : Is(q)
<1>1. N \in Nat /\ start \in Drains(k) /\ \A n \in 1..N : d.orphans[n] \in GoodChains
  <2>1. d.orphans \in Seq(GoodChains)
    BY DEF Drains, Held
  <2>2. start \in Drains(k)
    BY DEF Drains
  <2>3. \A n \in 1..Len(d.orphans) : d.orphans[n] \in GoodChains
    BY <2>1
  <2> QED
    BY <2>1, <2>2, <2>3
<1>2. \A e \in Drains(k), n \in 1..N : DrainTry(e, d.orphans[n]) \in Drains(k)
  BY <1>1, DrainTrySound
<1>3. StepOn(Step, Drains(k), N)
  BY <1>2 DEF StepOn
<1>4. PICK f : RunOf(f, Step, Drains(k), start, N)
  <2> HIDE DEF Step, N, start
  <2> QED
    BY <1>1, <1>3, RecursionExists
<1>5. Is(f)
  <2>1. ASSUME NEW n \in 0..N
        PROVE  f[n] = IF n = 0 THEN start ELSE DrainTry(f[n - 1], d.orphans[n])
    <3>1. CASE n # 0
      <4>1. n \in 1..N /\ n - 1 \in 0..N
        BY <1>1, <3>1
      <4>2. f[n - 1] \in Drains(k) /\ f[n] = Step[<<f[n - 1], n>>]
        BY <1>4, <4>1 DEF RunOf
      <4>3. Step[<<f[n - 1], n>>] = DrainTry(f[n - 1], d.orphans[n])
        BY <4>1, <4>2
      <4> QED
        BY <3>1, <4>2, <4>3
    <3> QED
      BY <1>4, <3>1 DEF RunOf
  <2>2. f \in [0..N -> Drains(k)]
    BY <1>4 DEF RunOf
  <2> HIDE DEF N, start
  <2> QED
    BY <2>1, <2>2
<1>6. Is(q)
  <2> HIDE DEF Is
  <2> QED
    BY <1>5
<1>7. \A n \in 0..N : q[n] = IF n = 0 THEN start ELSE DrainTry(q[n - 1], d.orphans[n])
  <2> HIDE DEF q, N, start
  <2> QED
    BY <1>6
<1>8. q[0] \in Drains(k) /\ \A n \in 1..N : q[n - 1] \in Drains(k) => q[n] \in Drains(k)
  <2> HIDE DEF q, start, N
  <2>1. q[0] = start
    BY <1>1, <1>7
  <2>2. ASSUME NEW n \in 1..N, q[n - 1] \in Drains(k)
        PROVE  q[n] \in Drains(k)
    <3>1. n \in 0..N /\ n # 0
      BY <1>1, <2>2
    <3>2. q[n] = DrainTry(q[n - 1], d.orphans[n])
      BY <1>7, <3>1
    <3> QED
      BY <1>2, <2>2, <3>2
  <2> QED
    BY <1>1, <2>1, <2>2
<1>9. \A n \in 0..N : q[n] \in Drains(k)
  <2> HIDE DEF q, N, start
  <2> QED
    BY <1>1, <1>8, BoundedClosure
<1>10. q = DrainTries(d) /\ N \in 0..N
  BY <1>1 DEF DrainTries
<1> HIDE DEF q
<1> QED
  BY <1>9, <1>10 DEF DrainPass

LEMMA DrainSound ==
    ASSUME NEW k, NEW c \in ChainsAfter(k), NEW held \in Held
    PROVE  /\ Drain(c, held).chain \in ChainsAfter(k) /\ Drain(c, held).orphans \in Held
           /\ \A m \in 0..MaxOrphans + 1 : DrainPasses(c, held)[m] \in Drains(k)
<1> DEFINE N == MaxOrphans + 1
           start == [chain |-> c, orphans |-> held, progress |-> TRUE]
           Round(d) == IF d.progress THEN DrainPass(d) ELSE d
           Step == [x \in Drains(k) \X (1..N) |-> Round(x[1])]
           Is(q) == q = [n \in 0..N |-> IF n = 0 THEN start
                           ELSE IF q[n - 1].progress THEN DrainPass(q[n - 1]) ELSE q[n - 1]]
           q == CHOOSE q : Is(q)
<1>1. N \in Nat /\ start \in Drains(k)
  BY SyncAssumption DEF Drains
<1>2. \A e \in Drains(k) : Round(e) \in Drains(k)
  BY DrainPassSound
<1>3. StepOn(Step, Drains(k), N)
  <2> HIDE DEF Round
  <2> QED
    BY <1>2 DEF StepOn
<1>4. PICK f : RunOf(f, Step, Drains(k), start, N)
  <2> HIDE DEF Step, N, start
  <2> QED
    BY <1>1, <1>3, RecursionExists
<1>5. Is(f)
  <2>1. ASSUME NEW n \in 0..N
        PROVE  f[n] = IF n = 0 THEN start ELSE Round(f[n - 1])
    <3> HIDE DEF Round
    <3>1. CASE n # 0
      <4>1. n \in 1..N /\ n - 1 \in 0..N
        BY <1>1, <3>1
      <4>2. f[n - 1] \in Drains(k) /\ f[n] = Step[<<f[n - 1], n>>]
        BY <1>4, <4>1 DEF RunOf
      <4>3. Step[<<f[n - 1], n>>] = Round(f[n - 1])
        BY <4>1, <4>2
      <4> QED
        BY <3>1, <4>2, <4>3
    <3> QED
      BY <1>4, <3>1 DEF RunOf
  <2>2. f \in [0..N -> Drains(k)]
    BY <1>4 DEF RunOf
  <2> HIDE DEF N, start
  <2> QED
    BY <2>1, <2>2
<1>6. Is(q)
  <2> HIDE DEF Is
  <2> QED
    BY <1>5
<1>7. \A n \in 0..N : q[n] = IF n = 0 THEN start ELSE Round(q[n - 1])
  <2> HIDE DEF q, N, start
  <2> QED
    BY <1>6
<1>8. q[0] \in Drains(k) /\ \A n \in 1..N : q[n - 1] \in Drains(k) => q[n] \in Drains(k)
  <2> HIDE DEF q, start, Round, N
  <2>1. q[0] = start
    BY <1>1, <1>7
  <2>2. ASSUME NEW n \in 1..N, q[n - 1] \in Drains(k)
        PROVE  q[n] \in Drains(k)
    <3>1. n \in 0..N /\ n # 0
      BY <1>1, <2>2
    <3>2. q[n] = Round(q[n - 1])
      BY <1>7, <3>1
    <3> QED
      BY <1>2, <2>2, <3>2
  <2> QED
    BY <1>1, <2>1, <2>2
<1>9. \A n \in 0..N : q[n] \in Drains(k)
  <2> HIDE DEF q, N, start
  <2> QED
    BY <1>1, <1>8, BoundedClosure
<1>10. q = DrainPasses(c, held) /\ N \in 0..N
  BY <1>1 DEF DrainPasses
<1> HIDE DEF q
<1>11. Drain(c, held) \in Drains(k)
  BY <1>9, <1>10 DEF Drain
<1> QED
  BY <1>9, <1>10, <1>11 DEF Drains

\* What a failed write leaves in the middle of it.
LEMMA DrainTornRooted ==
    ASSUME NEW k, NEW c \in ChainsAfter(k), NEW held \in Held, NEW d \in DrainTorn(c, held)
    PROVE  d.chain \in RootedChains /\ d.orphans \in Held
<1>1. PICK n \in 0..MaxOrphans :
        \E m \in DOMAIN DrainPasses(c, held)[n].orphans :
            d \in TryTorn(DrainPasses(c, held)[n], m)
  BY DEF DrainTorn
<1> DEFINE e == DrainPasses(c, held)[n]
<1>2. PICK m \in DOMAIN e.orphans : d \in TryTorn(e, m)
  BY <1>1
<1> DEFINE f    == e.orphans[m]
           then == DrainTries(e)[m - 1]
<1>3. e \in Drains(k)
  BY DrainSound, SyncAssumption
<1>4. e.orphans \in Held /\ m \in 1..Len(e.orphans) /\ f \in GoodChains
  BY <1>2, <1>3 DEF Drains, Held
<1>5. then \in Drains(k)
  <2> HIDE DEF e
  <2>1. m - 1 \in 0..Len(e.orphans)
    BY <1>4 DEF Held
  <2> QED
    BY <1>3, <2>1, DrainPassSound
<1>0. PICK t \in Torn(f, then.chain) :
        /\ f \notin then.chain.known /\ Parent[f] \in then.chain.known
        /\ d = [chain |-> t, orphans |-> Without(then.orphans, f)]
  BY <1>2 DEF TryTorn
<1>6. then.chain \in RootedChains /\ then.orphans \in Held
  BY <1>5, Rooted DEF Drains
<1>7. t \in RootedChains
  <2> HIDE DEF then
  <2> QED
    BY <1>0, <1>4, <1>6, TornRooted
<1>8. Without(then.orphans, f) \in Held
  BY <1>6, KeptElements DEF Without, Held
<1> QED
  BY <1>0, <1>7, <1>8

----------------------------------------------------------------------------
(***************************************************************************)
(* What is said.  Peers name and send only blocks of their own chains,     *)
(* which validate, so nothing else comes in, waits as an orphan or is      *)
(* asked for.                                                              *)
(***************************************************************************)
Honest(m) ==
    /\ m.type \in {"getdata", "inv", "headers"} => ToSet(m.items) \subseteq GoodChains \cup Tx
    /\ m.type = "block" => m.block \in GoodChains
    /\ m.type = "tx" => m.tx \in Tx

Speech(s) == \A m \in ToSet(s) : Honest(m)

HonestInv ==
    /\ faults \in Nat
    /\ Chain \in ChainsAfter(faults)
    /\ orphans \in Held
    /\ peerTip \in [Peer -> GoodChains]
    /\ score \in [Peer -> Nat]
    /\ \A p \in Peer : Speech(toPeer[p]) /\ Speech(fromPeer[p])

LEMMA SpeechGrows ==
    ASSUME NEW s, IsSequence(s), Speech(s)
    PROVE  /\ \A m : Honest(m) => Speech(Append(s, m))
           /\ \A t : IsSequence(t) /\ Speech(t) => Speech(s \o t)
           /\ s # <<>> => Speech(Tail(s)) /\ Honest(Head(s))
<1>1. ASSUME NEW m, Honest(m) PROVE Speech(Append(s, m))
  BY <1>1, Appended DEF Speech
<1>2. ASSUME NEW t, IsSequence(t), Speech(t) PROVE Speech(s \o t)
  BY <1>2, Joined DEF Speech
<1>3. ASSUME s # <<>> PROVE Speech(Tail(s)) /\ Honest(Head(s))
  BY <1>3, Removed DEF Speech
<1> QED
  BY <1>1, <1>2, <1>3

LEMMA SpeechStarts ==
    /\ Speech(<<>>)
    /\ \A m : Honest(m) => Speech(<<m>>)
    /\ \A t : Honest(GetHeaders(t))
<1>1. Speech(<<>>) /\ \A m : Honest(m) => Speech(<<m>>)
  BY NoMessage, OneMessage DEF Speech
<1>2. \A t : Honest(GetHeaders(t))
  BY DEF Honest, GetHeaders
<1> QED
  BY <1>1, <1>2

\* A queue replaced by an honest one.
LEMMA SpeechPut ==
    ASSUME NEW f, DOMAIN f = Peer, \A q \in Peer : Speech(f[q]),
           NEW p \in Peer, NEW s, Speech(s), NEW g, g = [f EXCEPT ![p] = s]
    PROVE  \A q \in Peer : Speech(g[q])
<1>1. g[p] = s /\ \A q \in Peer \ {p} : g[q] = f[q]
  OBVIOUS
<1> QED
  BY <1>1

LEMMA SpeechSent ==
    ASSUME TypedRequests(toPeer), \A q \in Peer : Speech(toPeer[q]),
           NEW p \in Peer, NEW m, Honest(m),
           toPeer' = [toPeer EXCEPT ![p] = Append(@, m)]
    PROVE  \A q \in Peer : Speech(toPeer'[q])
<1> DEFINE s == Append(toPeer[p], m)
<1>1. DOMAIN toPeer = Peer /\ IsSequence(toPeer[p])
  BY DEF TypedRequests, Requests
<1>2. Speech(s)
  BY <1>1, SpeechGrows
<1>3. toPeer' = [toPeer EXCEPT ![p] = s]
  OBVIOUS
<1> HIDE DEF s
<1> QED
  BY <1>1, <1>2, <1>3, SpeechPut

LEMMA SpeechSaid ==
    ASSUME TypedReplies(fromPeer), \A q \in Peer : Speech(fromPeer[q]),
           NEW p \in Peer, NEW msgs, IsSequence(msgs), Speech(msgs), Say(p, msgs)
    PROVE  \A q \in Peer : Speech(fromPeer'[q])
<1> DEFINE s == fromPeer[p] \o msgs
<1>1. DOMAIN fromPeer = Peer /\ IsSequence(fromPeer[p])
  BY DEF TypedReplies, Replies
<1>2. Speech(s)
  BY <1>1, SpeechGrows
<1>3. fromPeer' = [fromPeer EXCEPT ![p] = s]
  BY DEF Say
<1> HIDE DEF s
<1> QED
  BY <1>1, <1>2, <1>3, SpeechPut

LEMMA SpeechTaken ==
    ASSUME TypedReplies(fromPeer), \A q \in Peer : Speech(fromPeer[q]),
           NEW p \in Peer, fromPeer[p] # <<>>, Taken(p)
    PROVE  Honest(Next1(p)) /\ \A q \in Peer : Speech(fromPeer'[q])
<1> DEFINE s == Tail(fromPeer[p])
<1>1. DOMAIN fromPeer = Peer /\ IsSequence(fromPeer[p])
  BY DEF TypedReplies, Replies
<1>2. Speech(s) /\ Honest(Next1(p))
  BY <1>1, SpeechGrows DEF Next1
<1>3. fromPeer' = [fromPeer EXCEPT ![p] = s]
  BY DEF Taken
<1> HIDE DEF s
<1> QED
  BY <1>1, <1>2, <1>3, SpeechPut

\* What a peer answers is of its own chain.
LEMMA AnswersAreHonest ==
    ASSUME peerTip \in [Peer -> GoodChains], NEW p \in Peer,
           NEW m, IsRequest(m), Honest(m)
    PROVE  Speech(Answers(p, m))
<1>1. CASE m.type = "getheaders"
  <2> DEFINE t == m.tip
             reply == [type |-> "headers", items |-> Above(p, t)]
             branch == FC!NewBranch(peerTip[p], t)
             active == ActiveChain(p)
  <2>1. branch \subseteq GoodChains
    BY AncestorsAreGood DEF FC!NewBranch
  <2>2. Height[peerTip[p]] \in Nat /\ MaxHeaders \in Nat
    BY SyncTree, SyncAssumption, GenesisIsGood
  <2>3. active = [h \in 1..Height[peerTip[p]] |-> active[h]]
    BY DEF ActiveChain
  <2>4. Above(p, t) = UpTo(Kept(active, branch), MaxHeaders)
    BY DEF Above
  <2>5. Answers(p, m) = <<reply>>
    BY <1>1 DEF Answers
  <2> HIDE DEF branch, active, t
  <2>6. IsSequence(active)
    BY <2>2, <2>3, FunctionIsSequence
  <2>7. IsSequence(Kept(active, branch)) /\ ToSet(Kept(active, branch)) \subseteq branch
    BY <2>6, Filtered
  <2>8. ToSet(Above(p, t)) \subseteq GoodChains
    BY <2>1, <2>2, <2>4, <2>7, Capped
  <2>9. Honest(reply)
    BY <2>8 DEF Honest
  <2> HIDE DEF reply
  <2> QED
    BY <2>5, <2>9, SpeechStarts
<1>2. CASE m.type = "getdata"
  <2> DEFINE S == {i \in ToSet(m.items) : i \in Tx => ~Confirms(p, i)}
             held == Kept(m.items, S)
             a == [i \in DOMAIN held |->
                     IF held[i] \in Tx THEN [type |-> "tx", tx |-> held[i]]
                                       ELSE [type |-> "block", block |-> held[i]]]
  <2>1. Answers(p, m) = a
    BY <1>2 DEF Answers
  <2>2. IsSequence(m.items) /\ ToSet(m.items) \subseteq GoodChains \cup Tx
    BY <1>2 DEF IsRequest, Honest
  <2> HIDE DEF S
  <2>3. IsSequence(held) /\ ToSet(held) \subseteq ToSet(m.items)
    BY <2>2, Filtered
  <2> HIDE DEF held
  <2>4. DOMAIN held = 1..Len(held) /\ ToSet(held) = {held[i] : i \in 1..Len(held)}
    BY <2>3, SequenceOf
  <2>5. \A i \in DOMAIN held : held[i] \in GoodChains \cup Tx
    BY <2>2, <2>3, <2>4
  <2>6. ASSUME NEW i \in DOMAIN held PROVE Honest(a[i])
    <3>1. CASE held[i] \in Tx
      <4>1. a[i] = [type |-> "tx", tx |-> held[i]]
        BY <3>1
      <4> QED
        BY <3>1, <4>1 DEF Honest
    <3>2. CASE held[i] \notin Tx
      <4>1. a[i] = [type |-> "block", block |-> held[i]] /\ held[i] \in GoodChains
        BY <2>5, <3>2
      <4> QED
        BY <4>1 DEF Honest
    <3> QED
      BY <3>1, <3>2
  <2>7. ToSet(a) = {a[i] : i \in DOMAIN held}
    BY DEF ToSet
  <2> HIDE DEF a
  <2> QED
    BY <2>1, <2>6, <2>7 DEF Speech
<1> QED
  BY <1>1, <1>2 DEF IsRequest

\* Asking for what was announced.
LEMMA AskingIsHonest ==
    ASSUME TypedRequests(toPeer), \A q \in Peer : Speech(toPeer[q]), NEW p \in Peer,
           NEW items, IsSequence(items), ToSet(items) \subseteq GoodChains \cup Tx,
           AskFor(p, items)
    PROVE  \A q \in Peer : Speech(toPeer'[q])
<1> DEFINE S == ToSet(items) \ (known \cup pool \cup inFlight)
           wanted == Wanted(items)
           m == [type |-> "getdata", items |-> wanted]
<1>1. toPeer' = toPeer \/ toPeer' = [toPeer EXCEPT ![p] = Append(@, m)]
  BY DEF AskFor
<1>2. IsSequence(Kept(items, S)) /\ ToSet(Kept(items, S)) \subseteq ToSet(items)
  BY Filtered
<1>3. wanted = UpTo(Kept(items, S), MaxInv) /\ MaxInv \in Nat
  BY SyncAssumption DEF Wanted
<1> HIDE DEF S, wanted
<1>4. ToSet(wanted) \subseteq GoodChains \cup Tx
  BY <1>2, <1>3, Capped
<1>5. Honest(m)
  BY <1>4 DEF Honest
<1> HIDE DEF m
<1> QED
  BY <1>1, <1>5, SpeechSent

----------------------------------------------------------------------------
LEMMA PunishScores ==
    ASSUME score \in [Peer -> Nat], NEW p \in Peer, NEW points \in Nat, Punish(p, points)
    PROVE  /\ score' \in [Peer -> Nat]
           /\ banned' \ banned \subseteq {p}
           /\ banned' # banned => score[p] + points >= BanThreshold
  BY DEF Punish

\* The chain is that of before but for the pool.
LEMMA PoolAside ==
    ASSUME NEW n, Chain \in ChainsAfter(n), known' = known, best' = best, pool' \subseteq Tx
    PROVE  Chain' \in ChainsAfter(n)
<1>1. /\ Chain.known = known /\ Chain.best = best
      /\ Chain' = [known |-> known, best |-> best, pool |-> pool']
      /\ Chain'.known = known /\ Chain'.best = best
  BY DEF Chain
<1>2. Chain \in RootedChains
  BY Rooted
<1>3. known \in SUBSET GoodChains /\ best \in Block
  BY <1>1, <1>2 DEF RootedChains, Chains
<1>4. Chain' \in Chains
  BY <1>1, <1>3 DEF Chains
<1>5. Chain' \in RootedChains
  <2> HIDE DEF Chain
  <2> QED
    BY <1>1, <1>2, <1>4 DEF RootedChains
<1>6. ASSUME Chain \in SoundChains PROVE Chain' \in SoundChains
  <2>1. \A b : Untried(b, Chain) => Untried(b, Chain')
    BY <1>1 DEF Untried
  <2> HIDE DEF Chain
  <2> QED
    BY <1>1, <1>5, <1>6, <2>1 DEF SoundChains
<1> QED
  BY <1>5, <1>6 DEF ChainsAfter

LEMMA ChainReplaced ==
    ASSUME NEW n, NEW c \in ChainsAfter(n), BecomesChain(c)
    PROVE  Chain' \in ChainsAfter(n)
<1>1. c = [known |-> c.known, best |-> c.best, pool |-> c.pool]
  BY Rooted DEF RootedChains, Chains
<1>2. Chain' = [known |-> c.known, best |-> c.best, pool |-> c.pool]
  BY DEF BecomesChain, Chain
<1> QED
  BY <1>1, <1>2

LEMMA AnnouncementsHonest ==
    ASSUME SyncTyped, HonestInv, NEW p \in Peer, OnInv(p) \/ OnHeaders(p)
    PROVE  HonestInv'
<1>1. /\ Taken(p) /\ fromPeer[p] # <<>> /\ Next1(p).type \in {"inv", "headers"}
      /\ AskFor(p, Next1(p).items)
      /\ UNCHANGED <<known, best, pool, orphans, score, peerTip, faults>>
  BY DEF OnInv, OnHeaders, Receives, chainVars, linkVars, outside
<1>2. /\ TypedRequests(toPeer) /\ TypedReplies(fromPeer)
      /\ \A q \in Peer : Speech(toPeer[q]) /\ Speech(fromPeer[q])
  BY TypedQueues DEF HonestInv
<1>3. Honest(Next1(p)) /\ \A q \in Peer : Speech(fromPeer'[q])
  BY <1>1, <1>2, SpeechTaken
<1>4. IsReply(Next1(p))
  BY <1>1, <1>2, ReplyTaken DEF Taken, Next1
<1>5. IsSequence(Next1(p).items) /\ ToSet(Next1(p).items) \subseteq GoodChains \cup Tx
  BY <1>1, <1>3, <1>4 DEF Honest, IsReply
<1>6. \A q \in Peer : Speech(toPeer'[q])
  BY <1>1, <1>2, <1>5, AskingIsHonest
<1> QED
  BY <1>1, <1>3, <1>6 DEF HonestInv, Chain

\* A block comes in: it is one of a chain that validates, as are the orphans
\* that it lets in.
LEMMA BlockHonest ==
    ASSUME SyncTyped, HonestInv, NEW p \in Peer, OnBlock(p)
    PROVE  /\ HonestInv'
           /\ banned' \ banned \subseteq {p}
           /\ banned' # banned => /\ Receives(p, "block")
                                  /\ BeyondWindow(Next1(p).block, Chain)
<1> DEFINE b == Next1(p).block
           v == Verdict(b, Chain)
           c == After(b, Chain)
           Invalid == /\ v = "invalid" /\ BecomesChain(c) /\ Punish(p, BanThreshold)
                      /\ UNCHANGED <<orphans, toPeer, claimed>>
           Orphan == /\ v = "orphan" /\ orphans' = Remember(orphans, b)
                     /\ AskHeaders(p, best) /\ UNCHANGED <<chainVars, linkVars>>
           Connected == /\ v = "connected"
                        /\ BecomesChain(Drain(c, orphans).chain)
                        /\ orphans' = Drain(c, orphans).orphans
                        /\ IF claimed[p] > ChainWork[best']
                           THEN AskHeaders(p, best') ELSE UNCHANGED toPeer
                        /\ UNCHANGED linkVars
           Aside == BecomesChain(c) /\ UNCHANGED <<orphans, toPeer, linkVars>>
<1>1. /\ Receives(p, "block") /\ Taken(p) /\ fromPeer[p] # <<>>
      /\ Next1(p).type = "block" /\ UNCHANGED <<peerTip, faults>>
      /\ Invalid \/ Orphan \/ Connected \/ Aside
  BY DEF OnBlock, Receives, outside
<1>2. /\ TypedRequests(toPeer) /\ TypedReplies(fromPeer)
      /\ \A q \in Peer : Speech(toPeer[q]) /\ Speech(fromPeer[q])
      /\ Chain \in ChainsAfter(faults) /\ orphans \in Held /\ peerTip \in [Peer -> GoodChains]
      /\ score \in [Peer -> Nat]
  BY TypedQueues DEF HonestInv
<1>3. Honest(Next1(p)) /\ \A q \in Peer : Speech(fromPeer'[q])
  BY <1>1, <1>2, SpeechTaken
<1>4. b \in GoodChains
  BY <1>1, <1>3 DEF Honest
<1>5. c \in ChainsAfter(faults) /\ (v = "invalid" => BeyondWindow(b, Chain))
  BY <1>2, <1>4, AfterKept, Rooted, VerdictOnGood
<1>6. \A t : AskHeaders(p, t) => \A q \in Peer : Speech(toPeer'[q])
  BY <1>2, SpeechStarts, SpeechSent DEF AskHeaders
<1> HIDE DEF b, v, c
<1>7. CASE Invalid
  <2>1. Chain' \in ChainsAfter(faults)
    BY <1>5, <1>7, ChainReplaced
  <2>2. score' \in [Peer -> Nat] /\ banned' \ banned \subseteq {p}
    BY <1>2, <1>7, SyncAssumption, PunishScores
  <2>3. BeyondWindow(b, Chain)
    BY <1>5, <1>7
  <2> QED
    BY <1>1, <1>2, <1>3, <1>7, <2>1, <2>2, <2>3 DEF HonestInv, b
<1>8. CASE Orphan
  <2>1. Chain' \in ChainsAfter(faults) /\ UNCHANGED <<score, banned>>
    BY <1>2, <1>8 DEF Chain, chainVars, linkVars
  <2>2. orphans' \in Held
    BY <1>2, <1>4, <1>8, RememberSound
  <2>3. \A q \in Peer : Speech(toPeer'[q])
    BY <1>6, <1>8
  <2> QED
    BY <1>1, <1>2, <1>3, <2>1, <2>2, <2>3 DEF HonestInv
<1>9. CASE Connected
  <2>1. Drain(c, orphans).chain \in ChainsAfter(faults) /\ orphans' \in Held
    BY <1>2, <1>5, <1>9, DrainSound
  <2>2. Chain' \in ChainsAfter(faults) /\ UNCHANGED <<score, banned>>
    BY <1>9, <2>1, ChainReplaced DEF linkVars
  <2>3. \A q \in Peer : Speech(toPeer'[q])
    BY <1>2, <1>6, <1>9
  <2> QED
    BY <1>1, <1>2, <1>3, <2>1, <2>2, <2>3 DEF HonestInv
<1>10. CASE Aside
  <2>1. Chain' \in ChainsAfter(faults) /\ UNCHANGED <<score, banned>>
    BY <1>5, <1>10, ChainReplaced DEF linkVars
  <2> QED
    BY <1>1, <1>2, <1>3, <1>10, <2>1 DEF HonestInv
<1> QED
  BY <1>1, <1>7, <1>8, <1>9, <1>10

\* A handler that throws leaves a chain whose blocks validate.
LEMMA ThrowHonest ==
    ASSUME SyncTyped, HonestInv, NEW p \in Peer, OnBlockThrows(p)
    PROVE  /\ HonestInv'
           /\ banned' \ banned \subseteq {p}
           /\ banned' # banned => faults' > faults /\ score[p] + ThrowPenalty >= BanThreshold
<1> DEFINE b == Next1(p).block
           First == (\E c \in Torn(b, Chain) : BecomesChain(c)) /\ UNCHANGED orphans
           Later == \E d \in DrainTorn(After(b, Chain), orphans) :
                       BecomesChain(d.chain) /\ orphans' = d.orphans
<1>1. /\ Taken(p) /\ fromPeer[p] # <<>> /\ Next1(p).type = "block"
      /\ b \notin known /\ Parent[b] \in known /\ faults' = faults + 1
      /\ Punish(p, ThrowPenalty) /\ UNCHANGED <<toPeer, peerTip>>
      /\ First \/ Later
  BY DEF OnBlockThrows, Receives
<1>2. /\ TypedReplies(fromPeer)
      /\ \A q \in Peer : Speech(toPeer[q]) /\ Speech(fromPeer[q])
      /\ Chain \in ChainsAfter(faults) /\ orphans \in Held
      /\ score \in [Peer -> Nat] /\ faults \in Nat
  BY TypedQueues DEF HonestInv
<1>3. Honest(Next1(p)) /\ \A q \in Peer : Speech(fromPeer'[q])
  BY <1>1, <1>2, SpeechTaken
<1>4. b \in GoodChains
  BY <1>1, <1>3 DEF Honest
<1>5. Chain \in RootedChains /\ Chain.known = known
  BY <1>2, Rooted DEF Chain
<1> HIDE DEF b
<1>6. \E c \in RootedChains : BecomesChain(c) /\ orphans' \in Held
  <2>1. CASE First
    <3>1. PICK c \in Torn(b, Chain) : BecomesChain(c)
      BY <2>1
    <3>2. c \in RootedChains
      BY <1>1, <1>4, <1>5, TornRooted
    <3> QED
      BY <1>2, <2>1, <3>1, <3>2
  <2>2. CASE Later
    <3>1. PICK d \in DrainTorn(After(b, Chain), orphans) :
             BecomesChain(d.chain) /\ orphans' = d.orphans
      BY <2>2
    <3>2. After(b, Chain) \in ChainsAfter(faults)
      BY <1>2, <1>4, AfterKept
    <3>3. d.chain \in RootedChains /\ d.orphans \in Held
      BY <1>2, <3>2, DrainTornRooted
    <3> QED
      BY <3>1, <3>3
  <2> QED
    BY <1>1, <2>1, <2>2
<1>7. faults' \in Nat /\ faults' # 0 /\ faults' > faults
  BY <1>1, <1>2
<1>8. RootedChains = ChainsAfter(faults')
  BY <1>7 DEF ChainsAfter
<1>9. Chain' \in ChainsAfter(faults')
  BY <1>6, <1>8, ChainReplaced
<1>10. /\ score' \in [Peer -> Nat] /\ banned' \ banned \subseteq {p}
       /\ banned' # banned => score[p] + ThrowPenalty >= BanThreshold
  BY <1>1, <1>2, SyncAssumption, PunishScores
<1>11. peerTip' \in [Peer -> GoodChains] /\ \A q \in Peer : Speech(toPeer'[q])
  BY <1>1, <1>2 DEF HonestInv
<1>12. HonestInv'
  BY <1>3, <1>6, <1>7, <1>9, <1>10, <1>11 DEF HonestInv
<1> QED
  BY <1>7, <1>10, <1>12

LEMMA TxHonest ==
    ASSUME SyncTyped, HonestInv, NEW p \in Peer, OnTx(p)
    PROVE  /\ HonestInv'
           /\ banned' \ banned \subseteq {p}
           /\ banned' # banned => score[p] + TxPenalty >= BanThreshold
<1> DEFINE t == Next1(p).tx
<1>1. /\ Taken(p) /\ fromPeer[p] # <<>> /\ Next1(p).type = "tx"
      /\ UNCHANGED <<known, best, orphans, toPeer, peerTip, faults>>
      /\ \/ Punish(p, TxPenalty) /\ UNCHANGED pool
         \/ pool' = pool \cup {t} /\ UNCHANGED <<score, banned>>
  BY DEF OnTx, Receives, outside
<1>2. /\ TypedReplies(fromPeer)
      /\ \A q \in Peer : Speech(toPeer[q]) /\ Speech(fromPeer[q])
      /\ Chain \in ChainsAfter(faults) /\ score \in [Peer -> Nat]
  BY TypedQueues DEF HonestInv
<1>3. Honest(Next1(p)) /\ \A q \in Peer : Speech(fromPeer'[q])
  BY <1>1, <1>2, SpeechTaken
<1>4. t \in Tx
  BY <1>1, <1>3 DEF Honest
<1>5. pool \subseteq Tx
  BY <1>2, Rooted DEF Chain, RootedChains, Chains
<1> HIDE DEF t
<1>6. Chain' \in ChainsAfter(faults)
  BY <1>1, <1>2, <1>4, <1>5, PoolAside
<1>7. /\ score' \in [Peer -> Nat] /\ banned' \ banned \subseteq {p}
      /\ banned' # banned => score[p] + TxPenalty >= BanThreshold
  BY <1>1, <1>2, SyncAssumption, PunishScores
<1> QED
  BY <1>1, <1>3, <1>6, <1>7 DEF HonestInv

LEMMA ServingHonest ==
    ASSUME SyncTyped, HonestInv, NEW p \in Peer, PeerServes(p)
    PROVE  HonestInv'
<1> DEFINE m == Head(toPeer[p])
           s == Tail(toPeer[p])
<1>1. /\ toPeer[p] # <<>> /\ Say(p, Answers(p, m)) /\ toPeer' = [toPeer EXCEPT ![p] = s]
      /\ UNCHANGED <<known, best, pool, orphans, score, peerTip, faults>>
  BY DEF PeerServes, chainVars, linkVars, outside
<1>2. /\ TypedRequests(toPeer) /\ TypedReplies(fromPeer)
      /\ \A q \in Peer : Speech(toPeer[q]) /\ Speech(fromPeer[q])
      /\ peerTip \in [Peer -> GoodChains] /\ peerTip \in [Peer -> Block]
  BY TypedQueues DEF HonestInv
<1>3. DOMAIN toPeer = Peer /\ IsSequence(toPeer[p]) /\ Speech(s) /\ Honest(m)
  BY <1>1, <1>2, SpeechGrows DEF TypedRequests, Requests
<1>4. IsRequest(m)
  BY <1>1, <1>2, RequestServed
<1>5. Speech(Answers(p, m))
  BY <1>2, <1>3, <1>4, AnswersAreHonest
<1>6. IsSequence(Answers(p, m))
  BY <1>2, <1>4, BlocksAreServed DEF Replies
<1> HIDE DEF m, s
<1>7. \A q \in Peer : Speech(fromPeer'[q])
  <2> DEFINE msgs == Answers(p, m)
  <2>1. IsSequence(msgs) /\ Speech(msgs) /\ Say(p, msgs)
    BY <1>1, <1>5, <1>6
  <2> HIDE DEF msgs
  <2> QED
    BY <1>2, <2>1, SpeechSaid
<1>8. \A q \in Peer : Speech(toPeer'[q])
  BY <1>1, <1>2, <1>3, SpeechPut
<1> QED
  BY <1>1, <1>7, <1>8 DEF HonestInv, Chain

LEMMA PeerSpeaksHonest ==
    ASSUME SyncTyped, HonestInv, NEW p \in Peer,
           (\E b \in Block : PeerAdvances(p, b)) \/ (\E t \in Tx : PeerRelaysTx(p, t))
    PROVE  HonestInv'
<1>1. PICK i : /\ i \in GoodChains \cup Tx
               /\ UNCHANGED fromPeer \/ Say(p, <<[type |-> "inv", items |-> <<i>>]>>)
               /\ UNCHANGED <<known, best, pool, orphans, score, toPeer, faults>>
               /\ peerTip' \in [Peer -> GoodChains]
  <2>1. CASE \E b \in Block : PeerAdvances(p, b)
    <3>1. PICK b \in Block : PeerAdvances(p, b)
      BY <2>1
    <3>2. /\ peerTip[p] \in GoodChains
          /\ Ancestors[b] \ Ancestors[peerTip[p]] \subseteq Good \cap HeaderOk
      BY <3>1 DEF HonestInv, PeerAdvances, FC!NewBranch
    <3>3. b \in GoodChains
      BY <3>2 DEF GoodChains
    <3>4. peerTip' \in [Peer -> GoodChains]
      BY <3>1, <3>3 DEF HonestInv, PeerAdvances
    <3> QED
      BY <3>1, <3>3, <3>4 DEF PeerAdvances, chainVars, linkVars
  <2>2. CASE \E t \in Tx : PeerRelaysTx(p, t)
    BY <2>2 DEF HonestInv, PeerRelaysTx, chainVars, linkVars
  <2> QED
    BY <2>1, <2>2
<1>2. /\ TypedReplies(fromPeer)
      /\ \A q \in Peer : Speech(toPeer[q]) /\ Speech(fromPeer[q])
  BY TypedQueues DEF HonestInv
<1>3. \A q \in Peer : Speech(fromPeer'[q])
  <2>1. CASE UNCHANGED fromPeer
    BY <1>2, <2>1
  <2>2. CASE Say(p, <<[type |-> "inv", items |-> <<i>>]>>)
    <3> DEFINE items == <<i>>
               m == [type |-> "inv", items |-> items]
               msgs == <<m>>
    <3>1. ToSet(items) \subseteq GoodChains \cup Tx
      BY <1>1, OneMessage
    <3> HIDE DEF items
    <3>2. Honest(m)
      BY <3>1 DEF Honest
    <3>3. Say(p, msgs)
      BY <2>2 DEF items
    <3> HIDE DEF m
    <3>4. IsSequence(msgs) /\ Speech(msgs)
      BY <3>2, OneMessage, SpeechStarts
    <3> HIDE DEF msgs
    <3> QED
      BY <1>2, <3>3, <3>4, SpeechSaid
  <2> QED
    BY <1>1, <2>1, <2>2
<1> QED
  BY <1>1, <1>2, <1>3 DEF HonestInv, Chain

LEMMA LinkHonest ==
    ASSUME SyncTyped, HonestInv, NEW p \in Peer, Connect(p) \/ Drop(p)
    PROVE  HonestInv'
<1>1. PICK s : /\ Speech(s) /\ toPeer' = [toPeer EXCEPT ![p] = s]
               /\ fromPeer' = [fromPeer EXCEPT ![p] = <<>>]
               /\ score' = score \/ score' = [score EXCEPT ![p] = 0]
               /\ UNCHANGED <<known, best, pool, orphans, peerTip, faults>>
  <2>1. CASE Connect(p)
    <3> DEFINE s == IF ChainWork[peerTip[p]] > ChainWork[best]
                    THEN <<GetHeaders(best)>> ELSE <<>>
    <3>1. Speech(s)
      BY SpeechStarts
    <3> QED
      BY <2>1, <3>1 DEF Connect, chainVars, outside
  <2>2. CASE Drop(p)
    BY <2>2, SpeechStarts DEF Drop, chainVars
  <2> QED
    BY <2>1, <2>2
<1>2. DOMAIN toPeer = Peer /\ DOMAIN fromPeer = Peer
  BY DEF SyncTyped
<1>3. \A q \in Peer : Speech(toPeer'[q])
  BY <1>1, <1>2, SpeechPut DEF HonestInv
<1>4. \A q \in Peer : Speech(fromPeer'[q])
  BY <1>1, <1>2, SpeechStarts, SpeechPut DEF HonestInv
<1>5. score' \in [Peer -> Nat]
  BY <1>1 DEF HonestInv
<1> QED
  BY <1>1, <1>3, <1>4, <1>5 DEF HonestInv, Chain

LEMMA OwnStepHonest ==
    ASSUME SyncTyped, HonestInv, (\E b \in Block : Mine(b)) \/ SyncFromBest \/ Restart
    PROVE  HonestInv'
<1>0. TypedRequests(toPeer) /\ link \subseteq Peer /\ Chain \in ChainsAfter(faults)
  BY TypedQueues DEF HonestInv
<1>1. CASE \E b \in Block : Mine(b)
  <2>1. PICK b \in Block : Mine(b)
    BY <1>1
  <2>2. /\ b \in Good \cap HeaderOk /\ b \notin known /\ Parent[b] = best
        /\ BecomesChain(After(b, Chain))
        /\ UNCHANGED <<orphans, score, toPeer, fromPeer, peerTip, faults>>
    BY <2>1 DEF Mine, linkVars, wires, outside
  <2>3. best \in known /\ known \subseteq GoodChains /\ Genesis \in known
    BY <1>0, Rooted DEF Chain, RootedChains, Chains
  <2>4. Ancestors[b] = Ancestors[best] \cup {b} /\ best \in GoodChains
    BY <2>2, <2>3, SyncTree
  <2>5. b \in GoodChains
    BY <2>2, <2>4 DEF GoodChains
  <2>6. Chain' \in ChainsAfter(faults)
    BY <1>0, <2>2, <2>5, AfterKept, ChainReplaced
  <2> QED
    BY <2>2, <2>6 DEF HonestInv
<1>2. CASE SyncFromBest
  <2>1. PICK p \in Peer : toPeer' = [toPeer EXCEPT ![p] = Append(@, GetHeaders(best))]
    BY <1>0, <1>2 DEF SyncFromBest, BestPeers, AskHeaders
  <2>2. \A q \in Peer : Speech(toPeer'[q])
    BY <1>0, <2>1, SpeechStarts, SpeechSent DEF HonestInv
  <2> QED
    BY <1>2, <2>2 DEF HonestInv, SyncFromBest, chainVars, linkVars, outside, Chain
<1>3. CASE Restart
  <2>1. Chain' \in ChainsAfter(faults)
    BY <1>0, <1>3, PoolAside DEF Restart
  <2>2. <<>> \in Held
    BY DEF Held
  <2> QED
    BY <1>3, <2>1, <2>2, SpeechStarts DEF Restart, HonestInv
<1> QED
  BY <1>1, <1>2, <1>3

----------------------------------------------------------------------------
BanJustified ==
    \A p \in banned' \ banned :
        \/ score[p] + TxPenalty >= BanThreshold
        \/ faults' > faults /\ score[p] + ThrowPenalty >= BanThreshold
        \/ /\ Receives(p, "block")
           /\ ChainWork[Next1(p).block] > ChainWork[best]
           /\ Height[best] - FC!ForkHeight(Next1(p).block, best) > UndoRetention

LEMMA InitHonest == Init => HonestInv
<1> SUFFICES ASSUME Init PROVE HonestInv
  OBVIOUS
<1>1. Chain \in ChainsAfter(faults)
  <2>1. Chain = [known |-> {Genesis}, best |-> Genesis, pool |-> {}]
    BY DEF Init, Chain
  <2>2. ~(ChainWork[Genesis] > ChainWork[Genesis]) /\ Genesis \in Block
    BY SyncTree
  <2> QED
    BY <2>1, <2>2, GenesisIsGood, SyncTree
       DEF Init, ChainsAfter, SoundChains, RootedChains, Chains
<1>2. <<>> \in Held
  BY DEF Held
<1> QED
  BY <1>1, <1>2, SpeechStarts, SyncAssumption DEF Init, HonestInv

LEMMA NextHonest ==
    ASSUME SyncTyped, HonestInv, [Next]_vars
    PROVE  HonestInv' /\ BanJustified
<1>0. score \in [Peer -> Nat] /\ TxPenalty \in Nat /\ BanThreshold \in Nat
  BY SyncAssumption DEF HonestInv
<1>1. CASE \E p \in Peer : Connect(p) \/ Drop(p)
  BY <1>1, LinkHonest DEF BanJustified, Connect, Drop
<1>2. CASE \E p \in Peer : OnInv(p) \/ OnHeaders(p)
  BY <1>2, AnnouncementsHonest DEF BanJustified, OnInv, OnHeaders, linkVars
<1>3. CASE \E p \in Peer : OnBlock(p)
  <2>1. PICK p \in Peer : OnBlock(p)
    BY <1>3
  <2>2. /\ HonestInv' /\ banned' \ banned \subseteq {p}
        /\ banned' # banned => Receives(p, "block") /\ BeyondWindow(Next1(p).block, Chain)
    BY <2>1, BlockHonest
  <2>3. \A q \in banned' \ banned :
           /\ Receives(q, "block")
           /\ ChainWork[Next1(q).block] > ChainWork[best]
           /\ Height[best] - FC!ForkHeight(Next1(q).block, best) > UndoRetention
    BY <2>2 DEF BeyondWindow, Chain
  <2> QED
    BY <2>2, <2>3 DEF BanJustified
<1>4. CASE \E p \in Peer : OnTx(p)
  <2>1. PICK p \in Peer : OnTx(p)
    BY <1>4
  <2>2. /\ HonestInv' /\ banned' \ banned \subseteq {p}
        /\ banned' # banned => score[p] + TxPenalty >= BanThreshold
    BY <2>1, TxHonest
  <2>3. \A q \in banned' \ banned : score[q] + TxPenalty >= BanThreshold
    BY <2>2
  <2> QED
    BY <2>2, <2>3 DEF BanJustified
<1>9. CASE \E p \in Peer : OnBlockThrows(p)
  BY <1>9, ThrowHonest DEF BanJustified
<1>5. CASE \E p \in Peer : PeerServes(p)
  BY <1>5, ServingHonest DEF BanJustified, PeerServes, linkVars
<1>6. CASE \E p \in Peer : (\E b \in Block : PeerAdvances(p, b)) \/ (\E t \in Tx : PeerRelaysTx(p, t))
  BY <1>6, PeerSpeaksHonest DEF BanJustified, PeerAdvances, PeerRelaysTx, linkVars
<1>7. CASE (\E b \in Block : Mine(b)) \/ SyncFromBest \/ Restart
  BY <1>7, OwnStepHonest DEF BanJustified, Mine, SyncFromBest, Restart, linkVars
<1>8. CASE UNCHANGED vars
  BY <1>8 DEF vars, chainVars, linkVars, wires, outside, HonestInv, Chain, BanJustified
<1> QED
  BY <1>1, <1>2, <1>3, <1>4, <1>5, <1>6, <1>7, <1>8, <1>9 DEF Next, Receive

LEMMA HonestInvariance == Spec => [](SyncTyped /\ HonestInv)
<1>1. Init => SyncTyped /\ HonestInv
  BY InitSyncInv, InitHonest DEF SyncInv
<1>2. SyncInv /\ HonestInv /\ [Next]_vars => HonestInv'
  BY NextHonest DEF SyncInv
<1>3. SyncInv => SyncTyped
  BY DEF SyncInv
<1> QED
  BY <1>1, <1>2, <1>3, SyncInvariance, PTL DEF Spec

\* Whatever the peers say in whatever order, with connections lost and restarts in
\* between, the index holds only blocks that validate, and leaves a heavier one
\* aside only if that was once beyond the undo window (acceptBlock, #onBlock,
\* #drainOrphans).
THEOREM HeaviestStaysBest == Spec => []HeaviestKnownIsBest
<1>1. HonestInv => HeaviestKnownIsBest
  BY Rooted DEF HonestInv, HeaviestKnownIsBest, Chain, ChainsAfter, SoundChains, RootedChains,
     Chains, Untried
<1> QED
  BY <1>1, HonestInvariance, PTL

\* #onBlock bans an honest peer only for a heavier chain from beyond the undo
\* window, whatever it was asked, and when.
THEOREM BansOnlyBeyondWindow == Spec => BannedOnlyBeyondWindow
<1>1. SyncTyped /\ HonestInv /\ [Next]_vars => BanJustified
  BY NextHonest
<1>2. Spec => [][BanJustified]_vars
  BY <1>1, HonestInvariance, PTL DEF Spec
<1> QED
  BY <1>2 DEF BannedOnlyBeyondWindow, BanJustified
=============================================================================

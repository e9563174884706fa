-------------------------- MODULE TransportProofs --------------------------
(***************************************************************************)
(* That no key and counter are used twice, and that both ends hear exactly *)
(* what the other says, for every number of frames, every cut of the       *)
(* stream into chunks, every alteration and every choice of ephemeral keys *)
(* that differ.                                                            *)
(***************************************************************************)
EXTENDS Transport, Induction, TLAPS

(***************************************************************************)
(* What an end may seal with: a key of a session of its own, on its side.  *)
(***************************************************************************)
SecretOf(e) ==
    {k \in Secret : \E theirs \in Key \ {own[e]} :
        k.session = {own[e], theirs} /\ k.side = SideOf(own[e], theirs)}

FrameOf(e) ==
    [message : Message, body : SecretOf(e), length : SecretOf(e), nonce : Nat]

SealsInOrder(e) ==
    /\ sealed[e] \in Seq(FrameOf(e))
    /\ \A i \in DOMAIN sealed[e] : sealed[e][i].nonce = i - 1

SendsNext(e) ==
    \/ send[e] = None /\ sealed[e] = <<>>
    \/ /\ send[e] \in [body : SecretOf(e), length : SecretOf(e), count : Nat]
       /\ send[e].count = Len(sealed[e])

NonceInv ==
    /\ send \in [End -> Half \cup {None}]
    /\ DOMAIN sealed = End
    /\ greeting \in [End -> Key \cup {None}]
    /\ \A e \in End : SealsInOrder(e) /\ SendsNext(e)

(***************************************************************************)
(* The two ends of a session have different sides: what one end may seal   *)
(* with the other may not.                                                 *)
(***************************************************************************)
LEMMA OwnIsKey == \A e \in End : own[e] \in Key /\ own[e] \in Nat
BY TransportConstants DEF Injection, IsInjective

LEMMA OwnDiffers == \A e, f \in End : e # f => own[e] # own[f]
BY TransportConstants DEF Injection, IsInjective

LEMMA SidesDiffer ==
    ASSUME NEW e \in End, NEW f \in End, e # f
    PROVE  SecretOf(e) \cap SecretOf(f) = {}
<1>1. SUFFICES ASSUME NEW k \in SecretOf(e), k \in SecretOf(f) PROVE FALSE
  OBVIOUS
<1>2. PICK t \in Key \ {own[e]} : k.session = {own[e], t} /\ k.side = SideOf(own[e], t)
  BY <1>1 DEF SecretOf
<1>3. PICK u \in Key \ {own[f]} : k.session = {own[f], u} /\ k.side = SideOf(own[f], u)
  BY <1>1 DEF SecretOf
<1>4. t = own[f] /\ u = own[e]
  <2>1. {own[e], t} = {own[f], u}
    BY <1>2, <1>3
  <2> QED BY <2>1, OwnDiffers
<1>5. SideOf(own[e], own[f]) # SideOf(own[f], own[e])
  BY OwnIsKey, OwnDiffers DEF SideOf
<1> QED BY <1>2, <1>3, <1>4, <1>5

(***************************************************************************)
(* Ratcheting leaves a key in its session and on its side.                 *)
(***************************************************************************)
LEMMA RatchetKeeps ==
    ASSUME NEW e \in End, NEW k \in SecretOf(e)
    PROVE  ratchet(k) \in SecretOf(e)
<1>1. k \in Secret /\ ratchet(k) \in Secret
  BY DEF SecretOf, Secret, ratchet
<1>2. ratchet(k).session = k.session /\ ratchet(k).side = k.side
  BY <1>1 DEF Secret, ratchet
<1> QED BY <1>1, <1>2 DEF SecretOf

LEMMA SealKeeps ==
    ASSUME NEW e \in End, NEW m \in Message, NEW half,
           NonceInv,
           half \in [body : SecretOf(e), length : SecretOf(e), count : Nat],
           half.count = Len(sealed[e]),
           Seal(e, half, m), UNCHANGED greeting
    PROVE  NonceInv'
<1> DEFINE H == [body : SecretOf(e), length : SecretOf(e), count : Nat]
<1>1. Frame(half, m) \in FrameOf(e) /\ Frame(half, m).nonce = Len(sealed[e])
  BY DEF Frame, FrameOf
<1>2. Advanced(half) \in H /\ Advanced(half).count = Len(sealed[e]) + 1
  <2>1. half.body \in SecretOf(e) /\ half.length \in SecretOf(e) /\ half.count \in Nat
    OBVIOUS
  <2>2. ratchet(half.body) \in SecretOf(e) /\ ratchet(half.length) \in SecretOf(e)
    BY <2>1, RatchetKeeps
  <2> QED BY <2>1, <2>2 DEF Advanced
<1>3. Advanced(half) \in Half
  BY <1>2 DEF Half, SecretOf
<1>4. /\ sealed'[e] = Append(sealed[e], Frame(half, m))
      /\ send'[e] = Advanced(half)
      /\ \A f \in End \ {e} : sealed'[f] = sealed[f] /\ send'[f] = send[f]
      /\ DOMAIN sealed' = End /\ send' \in [End -> Half \cup {None}]
  BY <1>3 DEF Seal, NonceInv
<1>5. SealsInOrder(e)'
  <2>1. sealed[e] \in Seq(FrameOf(e)) /\ \A i \in DOMAIN sealed[e] : sealed[e][i].nonce = i - 1
    BY DEF NonceInv, SealsInOrder
  <2>2. sealed'[e] \in Seq(FrameOf(e))
    BY <2>1, <1>1, <1>4
  <2>3. ASSUME NEW i \in DOMAIN sealed'[e] PROVE sealed'[e][i].nonce = i - 1
    BY <2>1, <1>1, <1>4
  <2> QED BY <2>2, <2>3 DEF SealsInOrder, FrameOf, SecretOf
<1>6. SendsNext(e)'
  <2>1. Len(sealed'[e]) = Len(sealed[e]) + 1
    BY <1>4 DEF NonceInv, SealsInOrder
  <2> QED BY <2>1, <1>2, <1>4 DEF SendsNext, SecretOf
<1>7. ASSUME NEW f \in End, f # e PROVE SealsInOrder(f)' /\ SendsNext(f)'
  <2>1. SealsInOrder(f) /\ SendsNext(f)
    BY DEF NonceInv
  <2>2. sealed'[f] = sealed[f] /\ send'[f] = send[f]
    BY <1>4, <1>7
  <2>3. SealsInOrder(f)'
    BY <2>1, <2>2 DEF SealsInOrder
  <2>4. SendsNext(f)'
    BY <2>1, <2>2 DEF SendsNext
  <2> QED BY <2>3, <2>4
<1> QED BY <1>4, <1>5, <1>6, <1>7 DEF NonceInv

(***************************************************************************)
(* The keys of a completed exchange are among those.                       *)
(***************************************************************************)
LEMMA FreshKeys ==
    ASSUME NEW e \in End, NEW theirs \in Key, theirs # own[e]
    PROVE  /\ SendKeys(own[e], theirs) \in
                  [body : SecretOf(e), length : SecretOf(e), count : Nat]
           /\ SendKeys(own[e], theirs).count = 0
<1>1. \A use \in {"body", "length"} :
        [session |-> {own[e], theirs}, side |-> SideOf(own[e], theirs),
         use |-> use, epoch |-> 0] \in SecretOf(e)
  <2>1. SideOf(own[e], theirs) \in {"a", "b"}
    BY DEF SideOf
  <2>2. {own[e], theirs} \in SUBSET Key
    BY OwnIsKey
  <2> QED BY <2>1, <2>2 DEF SecretOf, Secret
<1> QED BY <1>1 DEF SendKeys, Derived

LEMMA NonceInductive ==
    ASSUME NonceInv, [Next]_vars
    PROVE  NonceInv'
<1>1. ASSUME NEW e \in End, NEW m \in Message, Send(e, m) PROVE NonceInv'
  <2>1. /\ send[e] \in [body : SecretOf(e), length : SecretOf(e), count : Nat]
        /\ send[e].count = Len(sealed[e])
    BY <1>1 DEF Send, NonceInv, SendsNext
  <2> QED BY <1>1, <2>1, SealKeeps DEF Send
<1>2. ASSUME NEW e \in End, NEW n \in 1..Len(path[e]), KeyExchange(e, n) PROVE NonceInv'
  <2>1. send[e] = None
    BY <1>2 DEF KeyExchange, SayVersion
  <2>2. sealed[e] = <<>>
    <3>1. [body : SecretOf(e), length : SecretOf(e), count : Nat] \subseteq Half
      BY DEF SecretOf, Half
    <3> QED BY <2>1, <3>1, TransportConstants DEF NonceInv, SendsNext
  <2>3. greeting[e] \in Key /\ greeting[e] # own[e]
    BY <1>2 DEF KeyExchange, SayVersion, NonceInv
  <2>4. /\ SendKeys(own[e], greeting[e]) \in
               [body : SecretOf(e), length : SecretOf(e), count : Nat]
        /\ SendKeys(own[e], greeting[e]).count = Len(sealed[e])
    BY <2>2, <2>3, FreshKeys
  <2>5. /\ Seal(e, SendKeys(own[e], greeting[e]), Version)
        /\ UNCHANGED greeting
    BY <1>2 DEF KeyExchange, SayVersion
  <2>6. Version \in Message
    BY TransportConstants
  <2> QED BY <2>4, <2>5, <2>6, SealKeeps
<1>3. ASSUME UNCHANGED <<greeting, send, sealed>> PROVE NonceInv'
  BY <1>3 DEF NonceInv, SealsInOrder, SendsNext, FrameOf, SecretOf
<1>4. ASSUME NEW e \in End, NEW i \in DOMAIN path[e], Alter(e, i) PROVE NonceInv'
  <2>1. greeting' \in [End -> Key \cup {None}]
    BY <1>4 DEF Alter, NonceInv
  <2> QED BY <1>4, <2>1 DEF Alter, NonceInv, SealsInOrder, SendsNext, FrameOf, SecretOf
<1>5. ASSUME NEW e \in End, NEW n \in 1..Len(path[e]), Data(e, n) PROVE NonceInv'
  BY <1>3, <1>5 DEF Data
<1>6. ASSUME NEW e \in End, KeyExchangeFails(e) \/ Close(e) PROVE NonceInv'
  BY <1>3, <1>6 DEF KeyExchangeFails, Close
<1>7. CASE UNCHANGED vars
  BY <1>3, <1>7 DEF vars
<1> QED BY <1>1, <1>2, <1>4, <1>5, <1>6, <1>7 DEF Next, OnData

LEMMA NonceInitially == Init => NonceInv
<1> SUFFICES ASSUME Init PROVE NonceInv
  OBVIOUS
<1>1. \A e \in End : Other(e) \in End
  BY TransportConstants DEF Other
<1>2. greeting \in [End -> Key \cup {None}]
  BY <1>1, OwnIsKey DEF Init
<1> QED BY <1>2 DEF Init, NonceInv, SealsInOrder, SendsNext

LEMMA NonceFollows == NonceInv => NonceOnce
<1> SUFFICES ASSUME NonceInv,
                    NEW e \in End, NEW f \in End,
                    NEW i \in DOMAIN sealed[e], NEW j \in DOMAIN sealed[f],
                    e # f \/ i # j
             PROVE  /\ <<sealed[e][i].body, sealed[e][i].nonce>> # <<sealed[f][j].body, sealed[f][j].nonce>>
                    /\ <<sealed[e][i].length, sealed[e][i].nonce>> # <<sealed[f][j].length, sealed[f][j].nonce>>
  BY DEF NonceOnce
<1>1. /\ sealed[e] \in Seq(FrameOf(e)) /\ sealed[f] \in Seq(FrameOf(f))
      /\ sealed[e][i].nonce = i - 1 /\ sealed[f][j].nonce = j - 1
  BY DEF NonceInv, SealsInOrder
<1>2. CASE e = f
  <2>1. i \in Nat /\ j \in Nat /\ i # j
    BY <1>1, <1>2
  <2> QED BY <1>1, <2>1
<1>3. CASE e # f
  <2>1. /\ sealed[e][i] \in FrameOf(e) /\ sealed[f][j] \in FrameOf(f)
    BY <1>1
  <2>2. /\ sealed[e][i].body \in SecretOf(e) /\ sealed[e][i].length \in SecretOf(e)
        /\ sealed[f][j].body \in SecretOf(f) /\ sealed[f][j].length \in SecretOf(f)
    BY <2>1 DEF FrameOf
  <2> QED BY <1>3, <2>2, SidesDiffer
<1> QED BY <1>2, <1>3

(***************************************************************************)
(* No end ever seals two frames with one key and counter, nor both ends    *)
(* with the same (transport.ts: deriveSessionKeys, seal, #advanceSend).    *)
(***************************************************************************)
THEOREM NoncesUsedOnce == Spec => []NonceOnce
<1>1. Init => NonceInv
  BY NonceInitially
<1>2. NonceInv /\ [Next]_vars => NonceInv'
  BY NonceInductive
<1>3. NonceInv => NonceOnce
  BY NonceFollows
<1> QED BY <1>1, <1>2, <1>3, PTL DEF Spec
----------------------------------------------------------------------------
(***************************************************************************)
(* What is heard.                                                          *)
(***************************************************************************)
Byte == [frame : Nat, at : Nat, good : BOOLEAN]

\* The messages of the frames, in order, and nothing else.
Exactly(messages, frames) ==
    /\ Len(messages) <= Len(frames)
    /\ \A i \in 1..Len(messages) : messages[i] = frames[i].message

\* Pieces of the first n frames.
PiecesOf(bytes, n) == \A i \in DOMAIN bytes : bytes[i].frame \in 1..n

\* What the receiving loop of an end may work on.
LoopInv(e) ==
    {s \in Received : /\ s.half.count = Len(s.heard)
                      /\ Exactly(s.heard, sealed[Other(e)])
                      /\ PiecesOf(s.bytes, Len(sealed[Other(e)]))}

\* Before its key exchange an end has heard nothing, and reads a greeting first.
HearsExactly(e) ==
    /\ Exactly(heard[e], sealed[Other(e)])
    /\ PiecesOf(buffer[e], Len(sealed[Other(e)]))
    /\ \A i \in DOMAIN path[e] :
          i > 1 \/ send[e] # None => path[e][i].frame \in 1..Len(sealed[Other(e)])
    /\ IF send[e] = None
       THEN heard[e] = <<>> /\ buffer[e] = <<>>
       ELSE recv[e] \in Half /\ recv[e].count = Len(heard[e])

HearType ==
    /\ heard \in [End -> Seq(Message \cup {Garbage})]
    /\ path \in [End -> Seq(Byte)] /\ buffer \in [End -> Seq(Byte)]
    /\ recv \in [End -> Half \cup {None}]
    /\ open \in [End -> BOOLEAN] /\ altered \in Nat

HearInv == HearType /\ \A e \in End : HearsExactly(e)

LEMMA OtherEnd ==
    ASSUME NEW e \in End
    PROVE  /\ Other(e) \in End /\ Other(e) # e /\ Other(Other(e)) = e
           /\ \A f \in End : f = e \/ f = Other(e)
           /\ Link!Other(e) = Other(e)
<1>1. PICK f \in End : f # e /\ End = {e, f}
  BY TransportConstants
<1>2. Other(e) = f /\ Other(f) = e
  BY <1>1 DEF Other
<1>3. Link!Other(e) = Other(e)
  BY DEF Link!Other, Other
<1> QED
  BY <1>1, <1>2, <1>3

\* Advancing a half of the cipher counts one frame more.
LEMMA AdvancedHalf ==
    ASSUME NEW half \in Half
    PROVE  Advanced(half) \in Half /\ Advanced(half).count = half.count + 1
<1>1. half.body \in Secret /\ half.length \in Secret /\ half.count \in Nat
  BY DEF Half
<1>2. \A k \in Secret : ratchet(k) \in Secret
  BY DEF Secret, ratchet
<1> QED
  BY <1>1, <1>2 DEF Advanced, Half

\* A frame is opened only as the next one, and as it was sealed.
LEMMA TurnSound ==
    ASSUME NonceInv, NEW e \in End, NEW s \in LoopInv(e)
    PROVE  Turn(e)[s] \in LoopInv(e) /\ Len(Turn(e)[s].heard) >= Len(s.heard)
<1> DEFINE o == Other(e)
           f == s.bytes[1].frame
           t == Opened(e, s)
<1>0. s \in Received /\ Turn(e)[s] = IF Opens(e, s) THEN t ELSE s
  BY DEF LoopInv, Turn
<1>1. /\ s.half \in Half /\ s.bytes \in Seq(Byte) /\ s.heard \in Seq(Message \cup {Garbage})
      /\ s.half.count = Len(s.heard)
      /\ Exactly(s.heard, sealed[o])
      /\ PiecesOf(s.bytes, Len(sealed[o]))
  BY DEF LoopInv, Received, Byte
<1>2. CASE ~Opens(e, s)
  BY <1>0, <1>1, <1>2
<1>3. CASE Opens(e, s)
  <2>0. /\ o \in End /\ sealed[o] \in Seq(FrameOf(o))
        /\ \A i \in DOMAIN sealed[o] : sealed[o][i].nonce = i - 1
    BY OtherEnd DEF NonceInv, SealsInOrder
  <2>1. f \in 1..Len(sealed[o]) /\ 1 \in DOMAIN s.bytes
    BY <1>1, <1>3 DEF Opens, PiecesOf
  <2>1a. Foremost(e, s) = sealed[o][f]
    BY DEF Foremost
  <2>1b. sealed[o][f] \in FrameOf(o) /\ sealed[o][f].nonce = f - 1
    <3> HIDE DEF f, o
    <3> QED
      BY <2>0, <2>1
  <2>2. sealed[o][f].nonce = Len(s.heard) /\ f = Len(s.heard) + 1
    <3>1. Foremost(e, s).nonce = s.half.count
      BY <1>3 DEF Opens, LengthReads
    <3>2. Len(s.heard) \in Nat /\ f \in Nat
      BY <1>1, <2>0, <2>1
    <3> HIDE DEF f, o
    <3> QED
      BY <1>1, <2>1a, <2>1b, <3>1, <3>2
  <2>3. Foremost(e, s) = sealed[o][f] /\ sealed[o][f].message \in Message
    BY <2>1a, <2>1b DEF FrameOf
  <2>4. Payload(e, s) = sealed[o][f].message
    BY <1>3, <2>3 DEF Payload, Opens, Authentic
  <2>5. Total(e, s) \in Nat /\ Total(e, s) <= Len(s.bytes)
    <3>1. Size[sealed[o][f].message] \in Nat
      BY <2>3, TransportConstants
    <3> HIDE DEF f, o
    <3> QED
      BY <1>3, <2>3, <3>1 DEF Total, Opens
  <2> DEFINE h == Append(s.heard, Payload(e, s))
             b == SubSeq(s.bytes, Total(e, s) + 1, Len(s.bytes))
  <2>6. t = [half |-> Advanced(s.half), bytes |-> b, heard |-> h]
    BY DEF Opened
  <2>7. h \in Seq(Message \cup {Garbage}) /\ Len(h) = Len(s.heard) + 1 /\ Exactly(h, sealed[o])
    <3>1. h \in Seq(Message \cup {Garbage}) /\ Len(h) = Len(s.heard) + 1
      BY <1>1, <2>3, <2>4
    <3>2. Len(h) <= Len(sealed[o])
      BY <2>0, <2>1, <2>2, <3>1
    <3>3. ASSUME NEW i \in 1..Len(h) PROVE h[i] = sealed[o][i].message
      <4>1. CASE i = f
        BY <1>1, <2>2, <2>4, <4>1
      <4>2. CASE i # f
        <5>1. i \in 1..Len(s.heard)
          BY <1>1, <2>2, <3>1, <4>2
        <5> QED
          BY <1>1, <5>1 DEF Exactly
      <4> QED
        BY <4>1, <4>2
    <3> QED
      BY <3>1, <3>2, <3>3 DEF Exactly
  <2>8. b \in Seq(Byte) /\ PiecesOf(b, Len(sealed[o]))
    <3>1. b \in Seq(Byte)
      BY <1>1, <2>5
    <3>2. ASSUME NEW i \in DOMAIN b PROVE b[i].frame \in 1..Len(sealed[o])
      <4>1. Total(e, s) + i \in DOMAIN s.bytes /\ b[i] = s.bytes[Total(e, s) + i]
        BY <1>1, <2>5
      <4> QED
        BY <1>1, <4>1 DEF PiecesOf
    <3> QED
      BY <3>1, <3>2 DEF PiecesOf
  <2>9. Advanced(s.half) \in Half /\ Advanced(s.half).count = Len(h)
    BY <1>1, <2>7, AdvancedHalf
  <2> HIDE DEF h, b, t
  <2>10. t \in LoopInv(e) /\ t.heard = h
    BY <2>6, <2>7, <2>8, <2>9 DEF LoopInv, Received, Byte
  <2> QED
    BY <1>0, <1>1, <1>3, <2>7, <2>10
<1> QED
  BY <1>2, <1>3

\* So does the whole loop.
LEMMA DrainedSound ==
    ASSUME NonceInv, NEW e \in End, NEW s \in LoopInv(e)
    PROVE  Drained(e, s) \in LoopInv(e) /\ Len(Drained(e, s).heard) >= Len(s.heard)
<1> DEFINE N == Len(s.bytes)
           P == {t \in LoopInv(e) : Len(t.heard) >= Len(s.heard)}
           Round == [x \in P \X (1..N) |-> Turn(e)[x[1]]]
           Is(q) == q = [n \in 0..N |-> IF n = 0 THEN s ELSE Turn(e)[q[n - 1]]]
           q == CHOOSE q : Is(q)
<1>1. N \in Nat /\ s \in P
  BY DEF LoopInv, Received
<1>2. \A t \in P : Turn(e)[t] \in P
  <2> SUFFICES ASSUME NEW t \in P PROVE Turn(e)[t] \in P
    OBVIOUS
  <2>1. Turn(e)[t] \in LoopInv(e) /\ Len(Turn(e)[t].heard) >= Len(t.heard)
    BY TurnSound
  <2>2. Len(t.heard) \in Nat /\ Len(s.heard) \in Nat /\ Len(Turn(e)[t].heard) \in Nat
    BY <2>1 DEF LoopInv, Received
  <2> QED
    BY <2>1, <2>2
<1>3. StepOn(Round, P, N)
  BY <1>2 DEF StepOn
<1>4. PICK f : RunOf(f, Round, P, s, N)
  <2> HIDE DEF Round, N, P
  <2> QED
    BY <1>1, <1>3, RecursionExists
<1>5. Is(f)
  <2>1. ASSUME NEW n \in 0..N
        PROVE  f[n] = IF n = 0 THEN s ELSE Turn(e)[f[n - 1]]
    <3>1. CASE n # 0
      <4>1. n \in 1..N /\ n - 1 \in 0..N
        BY <1>1, <3>1
      <4>2. f[n - 1] \in P /\ f[n] = Round[<<f[n - 1], n>>]
        BY <1>4, <4>1 DEF RunOf
      <4>3. Round[<<f[n - 1], n>>] = Turn(e)[f[n - 1]]
        BY <4>1, <4>2
      <4> QED
        BY <3>1, <4>2, <4>3
    <3> QED
      BY <1>4, <3>1 DEF RunOf
  <2>2. f \in [0..N -> P]
    BY <1>4 DEF RunOf
  <2> HIDE DEF N
  <2> QED
    BY <2>1, <2>2
<1>6. Is(q)
  <2> HIDE DEF Is
  <2> QED
    BY <1>5
<1>7. \A n \in 0..N : q[n] = IF n = 0 THEN s ELSE Turn(e)[q[n - 1]]
  <2> HIDE DEF q, N
  <2> QED
    BY <1>6
<1>8. q[0] \in P /\ \A n \in 1..N : q[n - 1] \in P => q[n] \in P
  <2> HIDE DEF q, P
  <2> QED
    BY <1>1, <1>2, <1>7
<1>9. q[N] \in P
  <2> HIDE DEF q, N, P
  <2>1. \A n \in 0..N : q[n] \in P
    BY <1>1, <1>8, BoundedClosure
  <2> QED
    BY <1>1, <2>1
<1> QED
  BY <1>9 DEF Drained

(***************************************************************************)
(* An end that receives nothing in a step, whatever is said to it or       *)
(* altered on its way.                                                     *)
(***************************************************************************)
Said1(e) == \/ sealed'[e] = sealed[e]
            \/ \E x \in FrameOf(e) : sealed'[e] = Append(sealed[e], x)

PathGrows(e) ==
    \A i \in DOMAIN path'[e] :
        \/ i \in DOMAIN path[e] /\ path'[e][i].frame = path[e][i].frame
        \/ path'[e][i].frame \in 1..Len(sealed'[Other(e)])

LEMMA ListensOn ==
    ASSUME NEW e \in End, NonceInv, HearType, HearsExactly(e),
           heard'[e] = heard[e], buffer'[e] \in {buffer[e], <<>>}, recv'[e] = recv[e],
           (send'[e] = None) <=> (send[e] = None), Said1(Other(e)), PathGrows(e)
    PROVE  HearsExactly(e)'
<1> DEFINE o == Other(e)
<1>1. sealed[o] \in Seq(FrameOf(o)) /\ sealed'[o] \in Seq(FrameOf(o))
  <2>1. o \in End
    BY OtherEnd
  <2>2. sealed[o] \in Seq(FrameOf(o))
    BY <2>1 DEF NonceInv, SealsInOrder
  <2>3. CASE sealed'[o] = sealed[o]
    BY <2>2, <2>3
  <2>4. ASSUME NEW x \in FrameOf(o), sealed'[o] = Append(sealed[o], x)
        PROVE  sealed'[o] \in Seq(FrameOf(o))
    <3> HIDE DEF o
    <3> QED
      BY <2>2, <2>4
  <2> QED
    BY <2>2, <2>3, <2>4 DEF Said1
<1>2. /\ Len(sealed[o]) <= Len(sealed'[o])
      /\ \A i \in 1..Len(sealed[o]) : sealed'[o][i] = sealed[o][i]
  BY <1>1 DEF Said1
<1>3. Len(sealed[o]) \in Nat /\ Len(sealed'[o]) \in Nat
  BY <1>1
<1> HIDE DEF o
<1>4. Exactly(heard[e], sealed'[o])
  <2>1. Exactly(heard[e], sealed[o]) /\ Len(heard[e]) \in Nat
    BY DEF HearsExactly, HearType, o
  <2> QED
    BY <1>2, <1>3, <2>1 DEF Exactly
<1>5. PiecesOf(buffer'[e], Len(sealed'[o])) /\ buffer'[e] \in Seq(Byte)
  <2>1. PiecesOf(buffer[e], Len(sealed[o])) /\ buffer[e] \in Seq(Byte)
    BY DEF HearsExactly, HearType, o
  <2>2. CASE buffer'[e] = buffer[e]
    <3>1. \A k \in 1..Len(sealed[o]) : k \in 1..Len(sealed'[o])
      BY <1>2, <1>3
    <3> QED
      BY <2>1, <2>2, <3>1 DEF PiecesOf
  <2>3. CASE buffer'[e] = <<>>
    BY <2>3 DEF PiecesOf
  <2> QED
    BY <2>2, <2>3
<1>6. ASSUME NEW i \in DOMAIN path'[e], i > 1 \/ send'[e] # None
      PROVE  path'[e][i].frame \in 1..Len(sealed'[o])
  <2>1. CASE i \in DOMAIN path[e] /\ path'[e][i].frame = path[e][i].frame
    <3>1. path[e][i].frame \in 1..Len(sealed[o])
      BY <1>6, <2>1 DEF HearsExactly, o
    <3> QED
      BY <1>2, <1>3, <2>1, <3>1
  <2>2. CASE path'[e][i].frame \in 1..Len(sealed'[Other(e)])
    BY <2>2 DEF o
  <2> QED
    BY <2>1, <2>2 DEF PathGrows
<1>7. IF send'[e] = None
      THEN heard'[e] = <<>> /\ buffer'[e] = <<>>
      ELSE recv'[e] \in Half /\ recv'[e].count = Len(heard'[e])
  BY DEF HearsExactly
<1> QED
  BY <1>4, <1>5, <1>6, <1>7 DEF HearsExactly, o

\* What is said is written behind what is on the way.
LEMMA WrittenPath ==
    ASSUME NonceInv, HearInv, NEW e \in End, NEW m \in Message
    PROVE  LET o == Other(e)
               w == Written(e, m)
           IN  /\ w \in [End -> Seq(Byte)] /\ w[e] = path[e]
               /\ \A i \in DOMAIN w[o] : \/ i \in DOMAIN path[o] /\ w[o][i] = path[o][i]
                                         \/ w[o][i].frame = Len(sealed[e]) + 1
<1> DEFINE o == Other(e)
           b == Bytes(Len(sealed[e]) + 1, Size[m])
<1>1. path \in [End -> Seq(Byte)]
  BY DEF HearInv, HearType
<1>2. o \in End /\ o # e
  BY OtherEnd
<1>3. b \in Seq(Byte) /\ \A i \in DOMAIN b : b[i].frame = Len(sealed[e]) + 1
  <2>1. Size[m] + 2 \in Nat
    BY TransportConstants
  <2>2. Len(sealed[e]) + 1 \in Nat
    BY DEF NonceInv, SealsInOrder
  <2>3. \A i \in 1..Size[m] + 2 : [frame |-> Len(sealed[e]) + 1, at |-> i, good |-> TRUE] \in Byte
    BY <2>1, <2>2 DEF Byte
  <2> QED
    BY <2>1, <2>3 DEF Bytes
<1> HIDE DEF b
<1>4. CASE open[o]
  <2> DEFINE w == [path EXCEPT ![o] = @ \o b]
  <2>1. Written(e, m) = w
    BY <1>4 DEF Written, b
  <2>2. w \in [End -> Seq(Byte)] /\ w[e] = path[e] /\ w[o] = path[o] \o b
    BY <1>1, <1>2, <1>3
  <2>3. ASSUME NEW i \in DOMAIN w[o]
        PROVE  \/ i \in DOMAIN path[o] /\ w[o][i] = path[o][i]
               \/ w[o][i].frame = Len(sealed[e]) + 1
    <3>1. path[o] \in Seq(Byte)
      BY <1>1, <1>2
    <3>2. CASE i <= Len(path[o])
      BY <1>3, <2>2, <3>1, <3>2
    <3>3. CASE i > Len(path[o])
      <4>1. i - Len(path[o]) \in DOMAIN b /\ w[o][i] = b[i - Len(path[o])]
        BY <1>3, <2>2, <3>1, <3>3
      <4> QED
        BY <1>3, <4>1
    <3>4. i \in Nat /\ Len(path[o]) \in Nat
      BY <1>3, <2>2, <3>1
    <3> QED
      BY <3>2, <3>3, <3>4
  <2> HIDE DEF w
  <2> QED
    BY <2>1, <2>2, <2>3
<1>5. CASE ~open[o]
  BY <1>1, <1>2, <1>5 DEF Written
<1> QED
  BY <1>4, <1>5

LEMMA ReceiveSound ==
    ASSUME NonceInv, HearInv, NEW e \in End, NEW half \in Half, half.count = Len(heard[e]),
           NEW bytes \in Seq(Byte), PiecesOf(bytes, Len(sealed[Other(e)])),
           NEW rest \in Seq(Byte), PiecesOf(rest, Len(sealed[Other(e)])),
           NEW out \in [End -> Seq(Byte)],
           Receive(e, half, bytes, rest, out), altered' = altered
    PROVE  LET o == Other(e) IN
           /\ HearType'
           /\ heard' = [heard EXCEPT ![e] = heard'[e]]
           /\ recv'[e] \in Half /\ recv'[e].count = Len(heard'[e]) /\ recv'[o] = recv[o]
           /\ Exactly(heard'[e], sealed[o]) /\ Len(heard'[e]) >= Len(heard[e])
           /\ PiecesOf(buffer'[e], Len(sealed[o])) /\ buffer'[o] = buffer[o]
           /\ PiecesOf(path'[e], Len(sealed[o]))
           /\ \A i \in DOMAIN path'[o] : i \in DOMAIN out[o] /\ path'[o][i] = out[o][i]
           /\ \A f \in End : open'[f] => open[f]
<1> DEFINE o == Other(e)
           s0 == [half |-> half, bytes |-> bytes, heard |-> heard[e]]
           s == Drained(e, s0)
<1>0. o \in End /\ o # e
  BY OtherEnd
<1>1. s0 \in LoopInv(e)
  <2>1. heard[e] \in Seq(Message \cup {Garbage}) /\ Exactly(heard[e], sealed[o])
    BY DEF HearInv, HearType, HearsExactly
  <2> QED
    BY <2>1 DEF LoopInv, Received, Byte
<1>2. s \in LoopInv(e) /\ Len(s.heard) >= Len(heard[e])
  <2> HIDE DEF s0
  <2>1. s \in LoopInv(e) /\ Len(s.heard) >= Len(s0.heard)
    BY <1>1, DrainedSound
  <2> QED
    BY <2>1 DEF s0
<1>3. /\ s.half \in Half /\ s.half.count = Len(s.heard)
      /\ s.heard \in Seq(Message \cup {Garbage}) /\ Exactly(s.heard, sealed[o])
      /\ s.bytes \in Seq(Byte) /\ PiecesOf(s.bytes, Len(sealed[o]))
  <2> HIDE DEF s
  <2> QED
    BY <1>2 DEF LoopInv, Received, Byte
<1>4. /\ recv' = [recv EXCEPT ![e] = s.half]
      /\ heard' = [heard EXCEPT ![e] = s.heard]
      /\ \/ /\ buffer' = [buffer EXCEPT ![e] = s.bytes]
            /\ path' = [out EXCEPT ![e] = rest]
            /\ UNCHANGED open
         \/ /\ open' = [open EXCEPT ![e] = FALSE]
            /\ buffer' = [buffer EXCEPT ![e] = <<>>]
            /\ \E n \in 0..Len(out[o]) :
                 path' = [out EXCEPT ![e] = <<>>, ![o] = SubSeq(@, 1, n)]
  BY DEF Receive
<1> HIDE DEF s, o
<1>5. /\ heard' = [heard EXCEPT ![e] = heard'[e]] /\ heard'[e] = s.heard
      /\ heard' \in [End -> Seq(Message \cup {Garbage})]
      /\ recv'[e] = s.half /\ recv'[o] = recv[o] /\ recv' \in [End -> Half \cup {None}]
  BY <1>0, <1>3, <1>4 DEF HearInv, HearType
<1>6. PiecesOf(<<>>, Len(sealed[o]))
  BY DEF PiecesOf
<1>7. CASE /\ buffer' = [buffer EXCEPT ![e] = s.bytes]
           /\ path' = [out EXCEPT ![e] = rest]
           /\ UNCHANGED open
  <2>1. /\ buffer'[e] = s.bytes /\ buffer'[o] = buffer[o]
        /\ buffer' \in [End -> Seq(Byte)]
    BY <1>0, <1>3, <1>7 DEF HearInv, HearType
  <2>2. path'[e] = rest /\ path'[o] = out[o] /\ path' \in [End -> Seq(Byte)]
    BY <1>0, <1>7
  <2>3. open' \in [End -> BOOLEAN] /\ \A f \in End : open'[f] => open[f]
    BY <1>7 DEF HearInv, HearType
  <2>4. HearType'
    BY <1>5, <2>1, <2>2, <2>3 DEF HearInv, HearType, Half, Secret, Byte
  <2> QED
    BY <1>2, <1>3, <1>5, <2>1, <2>2, <2>3, <2>4 DEF o
<1>8. CASE /\ open' = [open EXCEPT ![e] = FALSE]
           /\ buffer' = [buffer EXCEPT ![e] = <<>>]
           /\ \E n \in 0..Len(out[o]) :
                path' = [out EXCEPT ![e] = <<>>, ![o] = SubSeq(@, 1, n)]
  <2>1. buffer'[e] = <<>> /\ buffer'[o] = buffer[o] /\ buffer' \in [End -> Seq(Byte)]
    BY <1>0, <1>8 DEF HearInv, HearType
  <2>2. PICK n \in 0..Len(out[o]) : path' = [out EXCEPT ![e] = <<>>, ![o] = SubSeq(@, 1, n)]
    BY <1>8
  <2>3a. out[o] \in Seq(Byte) /\ SubSeq(out[o], 1, n) \in Seq(Byte)
    BY <1>0
  <2>3. /\ path'[e] = <<>> /\ path'[o] = SubSeq(out[o], 1, n)
        /\ path' \in [End -> Seq(Byte)]
    <3> DEFINE r == SubSeq(out[o], 1, n)
               p == [f \in End |-> IF f = o THEN r ELSE IF f = e THEN <<>> ELSE out[f]]
    <3>1. path' = p
      BY <1>0, <2>2
    <3> HIDE DEF r
    <3>2. p \in [End -> Seq(Byte)] /\ p[e] = <<>> /\ p[o] = r
      BY <1>0, <2>3a DEF r
    <3> QED
      BY <3>1, <3>2 DEF r
  <2>4. \A i \in DOMAIN path'[o] : i \in DOMAIN out[o] /\ path'[o][i] = out[o][i]
    BY <2>3, <2>3a
  <2>5. open' \in [End -> BOOLEAN] /\ \A f \in End : open'[f] => open[f]
    BY <1>8 DEF HearInv, HearType
  <2>6. HearType'
    BY <1>5, <2>1, <2>3, <2>5 DEF HearInv, HearType, Half, Secret, Byte
  <2> QED
    BY <1>2, <1>3, <1>5, <1>6, <2>1, <2>3, <2>4, <2>5, <2>6 DEF o
<1> QED
  BY <1>4, <1>7, <1>8

\* The messages of a list of frames.
SaidIn(frames) == [i \in DOMAIN frames |-> frames[i].message]

LEMMA ExactlyIs ==
    ASSUME NEW e \in End, NEW frames \in Seq(FrameOf(e)),
           NEW messages \in Seq(Message \cup {Garbage}), Exactly(messages, frames)
    PROVE  /\ SaidIn(frames) \in Seq(Message) /\ Len(SaidIn(frames)) = Len(frames)
           /\ messages = SubSeq(SaidIn(frames), 1, Len(messages))
<1>1. \A i \in 1..Len(frames) : frames[i].message \in Message
  <2>1. \A i \in 1..Len(frames) : frames[i] \in FrameOf(e)
    OBVIOUS
  <2> QED
    BY <2>1 DEF FrameOf
<1>2. SaidIn(frames) \in Seq(Message) /\ Len(SaidIn(frames)) = Len(frames)
  BY <1>1 DEF SaidIn
<1>3. \A i \in 1..Len(messages) : messages[i] = SaidIn(frames)[i]
  BY DEF Exactly, SaidIn
<1>4. Len(messages) \in 0..Len(SaidIn(frames))
  BY <1>2 DEF Exactly
<1> HIDE DEF SaidIn
<1>5. messages = SubSeq(SaidIn(frames), 1, Len(messages))
  BY <1>2, <1>3, <1>4
<1> QED
  BY <1>2, <1>5

\* What sealing one more message is for the link.
LEMMA SealSays ==
    ASSUME NonceInv, NEW e \in End, NEW m \in Message, NEW half,
           half \in [body : SecretOf(e), length : SecretOf(e), count : Nat],
           Seal(e, half, m)
    PROVE  /\ Said1(e) /\ Len(sealed'[e]) = Len(sealed[e]) + 1
           /\ sealed'[Other(e)] = sealed[Other(e)] /\ send'[Other(e)] = send[Other(e)]
           /\ send'[e] # None
           /\ Said' = [Said EXCEPT ![e] = Append(@, m)]
<1>1. Frame(half, m) \in FrameOf(e) /\ Frame(half, m).message = m
  BY DEF Frame, FrameOf
<1>2. half \in Half
  BY DEF Half, SecretOf
<1>3. Advanced(half) # None
  BY <1>2, AdvancedHalf, TransportConstants
<1>4. sealed[e] \in Seq(FrameOf(e))
  BY DEF NonceInv, SealsInOrder
<1>5. /\ sealed'[e] = Append(sealed[e], Frame(half, m)) /\ DOMAIN sealed' = End
      /\ \A f \in End \ {e} : sealed'[f] = sealed[f] /\ send'[f] = send[f]
      /\ send'[e] = Advanced(half)
  BY DEF Seal, NonceInv
<1>6. SaidIn(sealed'[e]) = Append(SaidIn(sealed[e]), m)
  <2> DEFINE s == sealed[e]
             x == Frame(half, m)
  <2>1. SaidIn(Append(s, x)) = Append(SaidIn(s), m)
    <3>1. s \in Seq(FrameOf(e)) /\ x \in FrameOf(e) /\ x.message = m
      BY <1>1, <1>4
    <3> HIDE DEF s, x
    <3>2. \A i \in 1..Len(s) : s[i].message \in Message
      <4>1. \A i \in 1..Len(s) : s[i] \in FrameOf(e)
        BY <3>1
      <4> QED
        BY <4>1 DEF FrameOf
    <3>3. SaidIn(s) \in Seq(Message) /\ Len(SaidIn(s)) = Len(s)
      BY <3>1, <3>2 DEF SaidIn
    <3>4. \A i \in 1..Len(s) + 1 : SaidIn(Append(s, x))[i] = Append(SaidIn(s), m)[i]
      BY <3>1, <3>3 DEF SaidIn
    <3>5. DOMAIN SaidIn(Append(s, x)) = 1..Len(s) + 1
      BY <3>1 DEF SaidIn
    <3>6. Append(SaidIn(s), m) \in Seq(Message) /\ Len(Append(SaidIn(s), m)) = Len(s) + 1
      BY <3>3
    <3>7. SaidIn(Append(s, x)) = [i \in 1..Len(s) + 1 |-> SaidIn(Append(s, x))[i]]
      BY <3>5 DEF SaidIn
    <3>8. Append(SaidIn(s), m) = [i \in 1..Len(s) + 1 |-> Append(SaidIn(s), m)[i]]
      <4> DEFINE a == Append(SaidIn(s), m)
      <4>1. a \in Seq(Message) /\ Len(a) = Len(s) + 1
        BY <3>6
      <4> HIDE DEF a
      <4>2. a = [i \in 1..Len(s) + 1 |-> a[i]]
        BY <4>1
      <4> QED
        BY <4>2 DEF a
    <3> QED
      BY <3>4, <3>7, <3>8
  <2> QED
    BY <1>5, <2>1
<1>7. Said' = [Said EXCEPT ![e] = Append(@, m)]
  <2>1. Said = [f \in End |-> SaidIn(sealed[f])] /\ Said' = [f \in End |-> SaidIn(sealed'[f])]
    BY DEF Said, SaidIn
  <2>2. \A f \in End \ {e} : SaidIn(sealed'[f]) = SaidIn(sealed[f])
    BY <1>5
  <2> QED
    BY <1>6, <2>1, <2>2
<1>8. Other(e) \in End /\ Other(e) # e
  BY OtherEnd
<1>9. Said1(e) /\ Len(sealed'[e]) = Len(sealed[e]) + 1
  BY <1>1, <1>4, <1>5 DEF Said1
<1> QED
  BY <1>3, <1>5, <1>7, <1>8, <1>9

\* An end that hears nothing new hears the next none.
LEMMA HearsNone ==
    ASSUME NonceInv, HearInv, NEW e \in End, UNCHANGED heard
    PROVE  \E n \in 0..Len(Said[Link!Other(e)]) : Link!Hears(e, n)
<1> DEFINE o == Other(e)
<1>1. o \in End /\ Link!Other(e) = o /\ Said[o] = SaidIn(sealed[o])
  BY OtherEnd DEF Said, SaidIn
<1>2. sealed[o] \in Seq(FrameOf(o))
  BY <1>1 DEF NonceInv, SealsInOrder
<1>3. heard[e] \in Seq(Message \cup {Garbage}) /\ Exactly(heard[e], sealed[o])
  BY DEF HearInv, HearType, HearsExactly
<1> HIDE DEF o
<1>4. /\ Said[o] \in Seq(Message) /\ Len(Said[o]) = Len(sealed[o])
      /\ heard[e] = SubSeq(Said[o], 1, Len(heard[e]))
  BY <1>1, <1>2, <1>3, ExactlyIs
<1>5. Len(heard[e]) + 0 <= Len(Said[o]) /\ Len(heard[e]) + 0 = Len(heard[e]) /\ 0 \in 0..Len(Said[o])
  BY <1>2, <1>3, <1>4 DEF Exactly
<1>6. heard' = [heard EXCEPT ![e] = SubSeq(Said[o], 1, Len(@) + 0)]
  BY <1>4, <1>5 DEF HearInv, HearType
<1> QED
  BY <1>1, <1>5, <1>6 DEF Link!Hears

\* Sending keeps the invariant, and says the message.
LEMMA SendStep ==
    ASSUME NonceInv, HearInv, NEW e \in End, NEW m \in Message, Send(e, m)
    PROVE  HearInv' /\ Link!Step(e)
<1> DEFINE o == Other(e)
<1>0. o \in End /\ o # e /\ Other(o) = e /\ \A f \in End : f = e \/ f = o
  BY OtherEnd
<1>1. send[e] \in [body : SecretOf(e), length : SecretOf(e), count : Nat]
  BY DEF Send, NonceInv, SendsNext
<1>2. /\ Said1(e) /\ Len(sealed'[e]) = Len(sealed[e]) + 1
      /\ sealed'[o] = sealed[o] /\ send'[o] = send[o] /\ send'[e] # None
      /\ Said' = [Said EXCEPT ![e] = Append(@, m)]
  BY <1>1, SealSays DEF Send
<1>3. /\ path' \in [End -> Seq(Byte)] /\ path'[e] = path[e]
      /\ \A i \in DOMAIN path'[o] : \/ i \in DOMAIN path[o] /\ path'[o][i] = path[o][i]
                                    \/ path'[o][i].frame = Len(sealed[e]) + 1
  <2>1. path' = Written(e, m)
    BY DEF Send
  <2> QED
    BY <2>1, WrittenPath
<1>4. UNCHANGED <<recv, heard, buffer, open, altered>> /\ send[e] # None
  BY DEF Send
<1>5. HearType'
  BY <1>3, <1>4 DEF HearInv, HearType, Half, Secret, Byte
<1>6. HearsExactly(e)'
  <2>1. Said1(o) /\ PathGrows(e)
    BY <1>2, <1>3 DEF Said1, PathGrows
  <2> QED
    BY <1>2, <1>4, <2>1, ListensOn DEF HearInv
<1>7. HearsExactly(o)'
  <2>1. Len(sealed[e]) + 1 \in 1..Len(sealed'[e])
    BY <1>2 DEF NonceInv, SealsInOrder
  <2>2. PathGrows(o)
    BY <1>0, <1>3, <2>1 DEF PathGrows
  <2> HIDE DEF o
  <2> QED
    BY <1>0, <1>2, <1>4, <2>2, ListensOn DEF HearInv
<1>8. Lost => Lost'
  BY <1>4 DEF Lost
<1>9. \E n \in 0..Len(Said[Link!Other(e)]) : Link!Hears(e, n)
  BY <1>4, HearsNone
<1> QED
  BY <1>0, <1>2, <1>5, <1>6, <1>7, <1>8, <1>9 DEF HearInv, Link!Step

\* Receiving keeps the invariant, and hears the next messages.
LEMMA ReceiveStep ==
    ASSUME NonceInv, HearInv, NEW e \in End, NEW half \in Half, half.count = Len(heard[e]),
           NEW bytes \in Seq(Byte), PiecesOf(bytes, Len(sealed[Other(e)])),
           NEW rest \in Seq(Byte), PiecesOf(rest, Len(sealed[Other(e)])),
           NEW out \in [End -> Seq(Byte)],
           Receive(e, half, bytes, rest, out), altered' = altered,
           Said1(e), sealed'[Other(e)] = sealed[Other(e)],
           send'[e] # None, send'[Other(e)] = send[Other(e)],
           \A i \in DOMAIN out[Other(e)] :
               \/ i \in DOMAIN path[Other(e)] /\ out[Other(e)][i].frame = path[Other(e)][i].frame
               \/ out[Other(e)][i].frame \in 1..Len(sealed'[e])
    PROVE  /\ HearInv'
           /\ \E n \in 0..Len(Said[Link!Other(e)]) : Link!Hears(e, n)
           /\ Lost => Lost'
<1> DEFINE o == Other(e)
<1>0. o \in End /\ o # e /\ Other(o) = e /\ (\A f \in End : f = e \/ f = o) /\ Link!Other(e) = o
  BY OtherEnd
<1>1. /\ HearType'
      /\ heard' = [heard EXCEPT ![e] = heard'[e]]
      /\ recv'[e] \in Half /\ recv'[e].count = Len(heard'[e]) /\ recv'[o] = recv[o]
      /\ Exactly(heard'[e], sealed[o]) /\ Len(heard'[e]) >= Len(heard[e])
      /\ PiecesOf(buffer'[e], Len(sealed[o])) /\ buffer'[o] = buffer[o]
      /\ PiecesOf(path'[e], Len(sealed[o]))
      /\ \A i \in DOMAIN path'[o] : i \in DOMAIN out[o] /\ path'[o][i] = out[o][i]
      /\ \A f \in End : open'[f] => open[f]
  BY ReceiveSound
<1>2. HearsExactly(e)'
  <2>1. \A i \in DOMAIN path'[e] : path'[e][i].frame \in 1..Len(sealed[o])
    BY <1>1 DEF PiecesOf
  <2> QED
    BY <1>1, <2>1 DEF HearsExactly
<1>3. HearsExactly(o)'
  <2>1. PathGrows(o)
    BY <1>0, <1>1 DEF PathGrows
  <2>2. heard'[o] = heard[o]
    BY <1>0, <1>1 DEF HearInv, HearType
  <2>3. Said1(Other(o))
    BY <1>0
  <2> HIDE DEF o
  <2> QED
    BY <1>0, <1>1, <2>1, <2>2, <2>3, ListensOn DEF HearInv, o
<1>4. Lost => Lost'
  BY <1>1 DEF Lost
<1>5. \E n \in 0..Len(Said[o]) : Link!Hears(e, n)
  <2>1. sealed[o] \in Seq(FrameOf(o)) /\ Said[o] = SaidIn(sealed[o])
    BY <1>0 DEF NonceInv, SealsInOrder, Said, SaidIn
  <2>2. heard[e] \in Seq(Message \cup {Garbage}) /\ heard'[e] \in Seq(Message \cup {Garbage})
    BY <1>1 DEF HearInv, HearType
  <2> DEFINE n == Len(heard'[e]) - Len(heard[e])
  <2>3. /\ Said[o] \in Seq(Message) /\ Len(Said[o]) = Len(sealed[o])
        /\ heard'[e] = SubSeq(Said[o], 1, Len(heard'[e]))
    <3>1. Exactly(heard'[e], sealed[o])
      BY <1>1
    <3> HIDE DEF o
    <3> QED
      BY <1>0, <2>1, <2>2, <3>1, ExactlyIs
  <2>4. n \in 0..Len(Said[o]) /\ Len(heard[e]) + n = Len(heard'[e]) /\ Len(heard'[e]) <= Len(Said[o])
    <3>1. Len(heard'[e]) <= Len(sealed[o]) /\ Len(heard'[e]) >= Len(heard[e])
      BY <1>1 DEF Exactly
    <3>2. Len(heard'[e]) \in Nat /\ Len(heard[e]) \in Nat /\ Len(sealed[o]) \in Nat
      BY <2>1, <2>2
    <3>3. Len(Said[o]) = Len(sealed[o])
      BY <2>3
    <3>4. \A a, b, c \in Nat : a <= b /\ b <= c => b - a \in 0..c /\ a + (b - a) = b
      OBVIOUS
    <3> DEFINE a == Len(heard[e])
               b == Len(heard'[e])
               c == Len(sealed[o])
    <3>5. a \in Nat /\ b \in Nat /\ c \in Nat /\ a <= b /\ b <= c
      BY <3>1, <3>2
    <3> HIDE DEF a, b, c
    <3>6. b - a \in 0..c /\ a + (b - a) = b
      BY <3>4, <3>5
    <3> QED
      BY <3>3, <3>5, <3>6 DEF a, b, c
  <2>5. heard' = [heard EXCEPT ![e] = SubSeq(Said[o], 1, Len(@) + n)]
    BY <1>1, <2>3, <2>4
  <2> HIDE DEF n, o
  <2> QED
    BY <1>0, <2>4, <2>5 DEF Link!Hears
<1> QED
  BY <1>0, <1>1, <1>2, <1>3, <1>4, <1>5 DEF HearInv

LEMMA DataStep ==
    ASSUME NonceInv, HearInv, NEW e \in End, NEW k \in 1..Len(path[e]), Data(e, k)
    PROVE  HearInv' /\ Link!Step(e)
<1> DEFINE o == Other(e)
           bytes == buffer[e] \o SubSeq(path[e], 1, k)
           rest == SubSeq(path[e], k + 1, Len(path[e]))
<1>0. o \in End
  BY OtherEnd
<1>1. Receive(e, recv[e], bytes, rest, path) /\ send[e] # None
      /\ UNCHANGED <<greeting, send, sealed, altered>>
  BY DEF Data
<1>2. /\ path \in [End -> Seq(Byte)] /\ buffer[e] \in Seq(Byte) /\ path[e] \in Seq(Byte)
      /\ recv[e] \in Half /\ recv[e].count = Len(heard[e])
      /\ PiecesOf(buffer[e], Len(sealed[o]))
      /\ \A i \in DOMAIN path[e] : path[e][i].frame \in 1..Len(sealed[o])
  BY <1>1 DEF HearInv, HearType, HearsExactly
<1>3. bytes \in Seq(Byte) /\ PiecesOf(bytes, Len(sealed[o]))
  <2> DEFINE c == SubSeq(path[e], 1, k)
  <2>1. c \in Seq(Byte) /\ \A i \in DOMAIN c : i \in DOMAIN path[e] /\ c[i] = path[e][i]
    BY <1>2
  <2> HIDE DEF c
  <2> DEFINE d == buffer[e] \o c
  <2>2. d \in Seq(Byte) /\ Len(d) = Len(buffer[e]) + Len(c)
    BY <1>2, <2>1
  <2>3. ASSUME NEW i \in DOMAIN d PROVE d[i].frame \in 1..Len(sealed[o])
    <3>1. CASE i <= Len(buffer[e])
      BY <1>2, <2>1, <3>1 DEF PiecesOf
    <3>2. CASE i > Len(buffer[e])
      <4>1. i - Len(buffer[e]) \in DOMAIN c /\ d[i] = c[i - Len(buffer[e])]
        BY <1>2, <2>1, <3>2
      <4> QED
        BY <1>2, <2>1, <4>1
    <3>3. i \in Nat /\ Len(buffer[e]) \in Nat
      BY <1>2, <2>2
    <3> QED
      BY <3>1, <3>2, <3>3
  <2>4. PiecesOf(d, Len(sealed[o]))
    BY <2>3 DEF PiecesOf
  <2> QED
    BY <2>2, <2>4 DEF c
<1>4. rest \in Seq(Byte) /\ PiecesOf(rest, Len(sealed[o]))
  <2>1. rest \in Seq(Byte) /\ \A i \in DOMAIN rest : k + i \in DOMAIN path[e] /\ rest[i] = path[e][k + i]
    BY <1>2
  <2> HIDE DEF rest
  <2> QED
    BY <1>2, <2>1 DEF PiecesOf
<1> HIDE DEF bytes, rest, o
<1>5. Said1(e) /\ sealed'[o] = sealed[o] /\ send'[e] # None /\ send'[o] = send[o]
  BY <1>1 DEF Said1
<1>6. HearInv' /\ (\E n \in 0..Len(Said[Link!Other(e)]) : Link!Hears(e, n)) /\ (Lost => Lost')
  BY <1>1, <1>2, <1>3, <1>4, <1>5, ReceiveStep DEF o
<1>7. Said' = Said
  BY <1>1 DEF Said
<1> QED
  BY <1>6, <1>7 DEF Link!Step

LEMMA KeyExchangeStep ==
    ASSUME NonceInv, HearInv, NEW e \in End, NEW k \in 1..Len(path[e]), KeyExchange(e, k)
    PROVE  HearInv' /\ Link!Step(e)
<1> DEFINE o == Other(e)
           half == SendKeys(own[e], greeting[e])
           theirs == RecvKeys(own[e], greeting[e])
           bytes == SubSeq(path[e], 2, k)
           rest == SubSeq(path[e], k + 1, Len(path[e]))
<1>0. o \in End /\ Version \in Message
  BY OtherEnd, TransportConstants
<1>1. /\ Receive(e, theirs, bytes, rest, Written(e, Version)) /\ send[e] = None
      /\ Seal(e, half, Version) /\ UNCHANGED <<greeting, altered>>
      /\ greeting[e] \in Key /\ greeting[e] # own[e]
  BY DEF KeyExchange, SayVersion, NonceInv
<1>2. /\ half \in [body : SecretOf(e), length : SecretOf(e), count : Nat]
      /\ theirs \in Half /\ theirs.count = 0
  <2>1. half \in [body : SecretOf(e), length : SecretOf(e), count : Nat]
    BY <1>1, FreshKeys
  <2>2. {own[e], greeting[e]} \in SUBSET Key
    BY <1>1, OwnIsKey
  <2>3. \A side \in {"a", "b"} :
           /\ Derived(own[e], greeting[e], side) \in Half
           /\ Derived(own[e], greeting[e], side).count = 0
    BY <2>2 DEF Derived, Half, Secret
  <2> QED
    BY <2>1, <2>3 DEF RecvKeys
<1>3. /\ path \in [End -> Seq(Byte)] /\ path[e] \in Seq(Byte)
      /\ heard[e] = <<>>
      /\ \A i \in DOMAIN path[e] : i > 1 => path[e][i].frame \in 1..Len(sealed[o])
  BY <1>1 DEF HearInv, HearType, HearsExactly
<1>4. bytes \in Seq(Byte) /\ PiecesOf(bytes, Len(sealed[o]))
  <2>1. bytes \in Seq(Byte) /\ \A i \in DOMAIN bytes : 1 + i \in DOMAIN path[e] /\ 1 + i > 1 /\ bytes[i] = path[e][1 + i]
    BY <1>3
  <2> HIDE DEF bytes
  <2> QED
    BY <1>3, <2>1 DEF PiecesOf
<1>5. rest \in Seq(Byte) /\ PiecesOf(rest, Len(sealed[o]))
  <2>1. rest \in Seq(Byte) /\ \A i \in DOMAIN rest : k + i \in DOMAIN path[e] /\ k + i > 1 /\ rest[i] = path[e][k + i]
    BY <1>3
  <2> HIDE DEF rest
  <2> QED
    BY <1>3, <2>1 DEF PiecesOf
<1> HIDE DEF bytes, rest, half, theirs
<1>6. /\ Said1(e) /\ Len(sealed'[e]) = Len(sealed[e]) + 1
      /\ sealed'[o] = sealed[o] /\ send'[o] = send[o] /\ send'[e] # None
      /\ Said' = [Said EXCEPT ![e] = Append(@, Version)]
  BY <1>0, <1>1, <1>2, SealSays
<1> DEFINE out == Written(e, Version)
<1>7. /\ out \in [End -> Seq(Byte)]
      /\ \A i \in DOMAIN out[o] : \/ i \in DOMAIN path[o] /\ out[o][i] = path[o][i]
                                  \/ out[o][i].frame = Len(sealed[e]) + 1
  BY <1>0, WrittenPath
<1>8. Len(sealed[e]) + 1 \in 1..Len(sealed'[e])
  BY <1>6 DEF NonceInv, SealsInOrder
<1> HIDE DEF out
<1>9. \A i \in DOMAIN out[o] : \/ i \in DOMAIN path[o] /\ out[o][i].frame = path[o][i].frame
                               \/ out[o][i].frame \in 1..Len(sealed'[e])
  BY <1>7, <1>8
<1>10. theirs.count = Len(heard[e])
  BY <1>2, <1>3
<1>11. Receive(e, theirs, bytes, rest, out)
  BY <1>1 DEF out
<1> HIDE DEF o
<1>12. HearInv' /\ (\E n \in 0..Len(Said[Link!Other(e)]) : Link!Hears(e, n)) /\ (Lost => Lost')
  BY <1>1, <1>2, <1>4, <1>5, <1>6, <1>7, <1>9, <1>10, <1>11, ReceiveStep DEF o
<1> QED
  BY <1>0, <1>6, <1>12 DEF Link!Step

\* Closing a socket or altering a byte loses what it promises, and no more.
LEMMA DisconnectStep ==
    ASSUME NonceInv, HearInv, NEW e \in End, open[e], Disconnect(e),
           UNCHANGED <<greeting, send, recv, sealed, heard, altered>>
    PROVE  HearInv' /\ Link!Lose
<1> DEFINE o == Other(e)
<1>0. o \in End /\ o # e /\ Other(o) = e /\ \A f \in End : f = e \/ f = o
  BY OtherEnd
<1>1. path \in [End -> Seq(Byte)] /\ path[o] \in Seq(Byte)
  BY <1>0 DEF HearInv, HearType
<1>2. PICK n \in 0..Len(path[o]) :
        path' = [path EXCEPT ![e] = <<>>, ![o] = SubSeq(@, 1, n)]
  BY DEF Disconnect
<1> DEFINE r == SubSeq(path[o], 1, n)
           p == [f \in End |-> IF f = o THEN r ELSE IF f = e THEN <<>> ELSE path[f]]
<1>3. path' = p
  BY <1>0, <1>1, <1>2
<1>4. r \in Seq(Byte) /\ \A i \in DOMAIN r : i \in DOMAIN path[o] /\ r[i] = path[o][i]
  BY <1>1
<1> HIDE DEF r
<1>5. p \in [End -> Seq(Byte)] /\ p[e] = <<>> /\ p[o] = r
  BY <1>0, <1>1, <1>4
<1> HIDE DEF p
<1>6. /\ buffer' \in [End -> Seq(Byte)] /\ buffer'[e] = <<>> /\ buffer'[o] = buffer[o]
      /\ open' \in [End -> BOOLEAN] /\ open'[e] = FALSE
  BY <1>0 DEF Disconnect, HearInv, HearType
<1>7. HearType'
  BY <1>3, <1>5, <1>6 DEF HearInv, HearType, Half, Secret, Byte
<1>8. HearsExactly(e)'
  <2>1. PathGrows(e) /\ Said1(o)
    BY <1>3, <1>5 DEF PathGrows, Said1
  <2> QED
    BY <1>6, <2>1, ListensOn DEF HearInv
<1>9. HearsExactly(o)'
  <2>1. PathGrows(o) /\ Said1(Other(o))
    BY <1>3, <1>4, <1>5 DEF PathGrows, Said1
  <2> HIDE DEF o
  <2> QED
    BY <1>0, <1>6, <2>1, ListensOn DEF HearInv
<1>10. Lost' /\ Said' = Said
  BY <1>6 DEF Lost, Said
<1> QED
  BY <1>0, <1>7, <1>8, <1>9, <1>10 DEF HearInv, Link!Lose

LEMMA AlterStep ==
    ASSUME NonceInv, HearInv, NEW e \in End, NEW k \in DOMAIN path[e], Alter(e, k)
    PROVE  HearInv' /\ Link!Lose
<1> DEFINE q == [path[e] EXCEPT ![k].good = FALSE]
<1>1. path \in [End -> Seq(Byte)] /\ path[e] \in Seq(Byte)
  BY DEF HearInv, HearType
<1>2. path' = [path EXCEPT ![e] = q]
  BY <1>1 DEF Alter
<1>3. q \in Seq(Byte) /\ \A i \in DOMAIN q : i \in DOMAIN path[e] /\ q[i].frame = path[e][i].frame
  <2>1. k \in 1..Len(path[e]) /\ path[e][k] \in Byte
    BY <1>1
  <2>2. [path[e][k] EXCEPT !.good = FALSE] \in Byte
        /\ [path[e][k] EXCEPT !.good = FALSE].frame = path[e][k].frame
    BY <2>1 DEF Byte
  <2> DEFINE x == [path[e][k] EXCEPT !.good = FALSE]
             p == path[e]
  <2>3. q = [p EXCEPT ![k] = x]
    BY <1>1, <2>1
  <2> HIDE DEF x, p, q
  <2>4. q \in Seq(Byte) /\ \A i \in DOMAIN q : i \in DOMAIN p /\ q[i].frame = p[i].frame
    BY <1>1, <2>1, <2>2, <2>3 DEF x, p
  <2> QED
    BY <2>4 DEF p
<1> HIDE DEF q
<1>4. path' \in [End -> Seq(Byte)] /\ \A f \in End : path'[f] = IF f = e THEN q ELSE path[f]
  BY <1>1, <1>2, <1>3
<1>5. UNCHANGED <<send, recv, sealed, heard, buffer, open>> /\ altered' = altered + 1
  BY DEF Alter
<1>6. altered' \in Nat /\ altered' > 0
  BY <1>5 DEF HearInv, HearType
<1>7. HearType'
  BY <1>4, <1>5, <1>6 DEF HearInv, HearType, Half, Secret, Byte
<1>8. ASSUME NEW f \in End PROVE HearsExactly(f)'
  <2>1. PathGrows(f) /\ Said1(Other(f))
    BY <1>3, <1>4, <1>5 DEF PathGrows, Said1
  <2> QED
    BY <1>5, <2>1, ListensOn DEF HearInv
<1>9. Lost' /\ Said' = Said
  BY <1>5, <1>6 DEF Lost, Said
<1> QED
  BY <1>5, <1>7, <1>8, <1>9 DEF HearInv, Link!Lose

LEMMA LinkStep ==
    ASSUME NonceInv, HearInv, [Next]_vars
    PROVE  HearInv' /\ [Link!Next]_(Link!vars)
<1>1. ASSUME NEW e \in End, NEW m \in Message, Send(e, m)
      PROVE  HearInv' /\ Link!Next
  BY <1>1, SendStep DEF Link!Next
<1>2. ASSUME NEW e \in End, NEW n \in 1..Len(path[e]), Data(e, n)
      PROVE  HearInv' /\ Link!Next
  BY <1>2, DataStep DEF Link!Next
<1>3. ASSUME NEW e \in End, NEW n \in 1..Len(path[e]), KeyExchange(e, n)
      PROVE  HearInv' /\ Link!Next
  BY <1>3, KeyExchangeStep DEF Link!Next
<1>4. ASSUME NEW e \in End, KeyExchangeFails(e) \/ Close(e)
      PROVE  HearInv' /\ Link!Next
  BY <1>4, DisconnectStep DEF KeyExchangeFails, Close, Link!Next
<1>5. ASSUME NEW e \in End, NEW i \in DOMAIN path[e], Alter(e, i)
      PROVE  HearInv' /\ Link!Next
  BY <1>5, AlterStep DEF Link!Next
<1>6. CASE UNCHANGED vars
  <2>1. UNCHANGED Link!vars
    BY <1>6 DEF vars, Link!vars, Said, Lost
  <2>2. HearInv'
    BY <1>6 DEF vars, HearInv, HearType, HearsExactly, Exactly, PiecesOf, Half, Secret, Byte
  <2> QED
    BY <2>1, <2>2
<1> QED
  BY <1>1, <1>2, <1>3, <1>4, <1>5, <1>6 DEF Next, OnData

LEMMA LinkInitially == Init => HearInv /\ Link!Init
<1> SUFFICES ASSUME Init PROVE HearInv /\ Link!Init
  OBVIOUS
<1>1. Greeting \in Seq(Byte) /\ DOMAIN Greeting = {1}
  BY DEF Greeting, Byte
<1>2. HearType
  BY <1>1 DEF Init, HearType
<1>3. ASSUME NEW e \in End PROVE HearsExactly(e)
  <2>1. \A i \in DOMAIN path[e] : i = 1
    BY <1>1 DEF Init
  <2>2. /\ heard[e] = <<>> /\ buffer[e] = <<>> /\ send[e] = None
        /\ sealed[Other(e)] = <<>>
    BY OtherEnd DEF Init
  <2> QED
    BY <2>1, <2>2 DEF HearsExactly, Exactly, PiecesOf
<1>4. Said = [e \in End |-> <<>>]
  <2>1. \A e \in End : SaidIn(sealed[e]) = <<>>
    BY DEF Init, SaidIn
  <2> QED
    BY <2>1 DEF Said, SaidIn
<1>5. Lost = FALSE
  BY DEF Init, Lost
<1> QED
  BY <1>2, <1>3, <1>4, <1>5 DEF HearInv, Link!Init, Init

(***************************************************************************)
(* Whatever the chunks and whatever is altered on the way, what an end     *)
(* dispatches is what the other said, in order, once and unchanged: the    *)
(* transport implements the safety of SecureLink (peer.ts: #onData;        *)
(* transport.ts: seal, open).                                              *)
(***************************************************************************)
THEOREM LinkImplemented == Spec => RefinesLink
<1>1. Init => NonceInv /\ HearInv /\ Link!Init
  BY NonceInitially, LinkInitially
<1>2. NonceInv /\ HearInv /\ [Next]_vars => NonceInv' /\ HearInv' /\ [Link!Next]_(Link!vars)
  BY NonceInductive, LinkStep
<1> QED
  BY <1>1, <1>2, PTL DEF Spec, RefinesLink, Link!Spec
=============================================================================

----------------------------- MODULE Transport -----------------------------
(***************************************************************************)
(* net/transport.ts, and net/peer.ts as far as it drives it: the two ends  *)
(* of one connection exchange ephemeral keys in the clear, derive four     *)
(* keys each from them, and then speak in frames whose length and body are *)
(* encrypted under a key and a counter.  The path delivers the stream in   *)
(* chunks of any size, in order; a bounded number of bytes is altered on   *)
(* the way.                                                                *)
(*                                                                         *)
(* A byte of the model stands for a piece of a frame: the length, a unit   *)
(* of the body, the tag.  A key is what was hashed to obtain it, and a     *)
(* text encrypted under one key and counter opens under those only.        *)
(***************************************************************************)
EXTENDS Naturals, Sequences, Functions

CONSTANTS
    End, own,       \* the two ends, and the ephemeral key of each
    Key,            \* x-coordinates, ordered as their bytes are: numbers
    Message,        \* what may be said
    Size,           \* of the body of a message, in units
    Version,        \* the message that is said first
    RekeyInterval,  \* frames before the keys are ratcheted
    MaxMessage,     \* MAX_MESSAGE_BYTES
    MaxFrames,      \* bound: frames of each end
    MaxAltered,     \* bound: bytes altered on the way
    Garbage,        \* what an altered body decrypts to
    None

VARIABLES
    greeting,   \* the greeting each end is to read: None when no point has that coordinate
    send, recv, \* the halves of the cipher of each end, None before the key exchange
    sealed,     \* the frames each end has sealed
    heard,      \* the messages each end has dispatched
    path,       \* the bytes on the way to each end
    buffer,     \* the bytes received and not yet opened
    open,       \* whether the socket of each end is
    altered     \* bytes altered so far

vars == <<greeting, send, recv, sealed, heard, path, buffer, open, altered>>

(***************************************************************************)
(* Secrets are what HKDF was given: the two coordinates, the half and the  *)
(* use, and how often the key has been ratcheted since.                    *)
(***************************************************************************)
Secret == [session : SUBSET Key, side : {"a", "b"}, use : {"body", "length"}, epoch : Nat]
Half == [body : Secret, length : Secret, count : Nat]

ASSUME TransportConstants ==
    /\ \A e \in End : \E f \in End : f # e /\ End = {e, f}
    /\ own \in Injection(End, Key)
    /\ Key \subseteq Nat /\ None \notin Key \cup Half
    /\ Size \in [Message -> Nat] /\ Version \in Message /\ Garbage \notin Message
    /\ RekeyInterval \in Nat \ {0}
    /\ MaxMessage \in Nat /\ MaxFrames \in [End -> Nat] /\ MaxAltered \in Nat

Other(e) == CHOOSE f \in End : f # e
----------------------------------------------------------------------------
(***************************************************************************)
(* deriveSessionKeys: the ECDH secret and the sorted pair of ephemeral     *)
(* keys are the same for both ends, who take opposite halves.              *)
(***************************************************************************)
SideAlike(ours, theirs) == "a"

SideOf(ours, theirs) == IF ours < theirs THEN "a" ELSE "b"

Derived(ours, theirs, side) ==
    [body   |-> [session |-> {ours, theirs}, side |-> side, use |-> "body", epoch |-> 0],
     length |-> [session |-> {ours, theirs}, side |-> side, use |-> "length", epoch |-> 0],
     count  |-> 0]

SendKeys(ours, theirs) == Derived(ours, theirs, SideOf(ours, theirs))
RecvKeys(ours, theirs) ==
    Derived(ours, theirs, IF SideOf(ours, theirs) = "a" THEN "b" ELSE "a")

ratchet(key) ==
    [session |-> key.session, side |-> key.side, use |-> key.use, epoch |-> key.epoch + 1]

(***************************************************************************)
(* #advanceSend and #advanceRecv                                           *)
(***************************************************************************)

Advanced(half) ==
    LET n == half.count + 1
        Next(key) == IF n % RekeyInterval = 0 THEN ratchet(key) ELSE key
    IN [body |-> Next(half.body), length |-> Next(half.length), count |-> n]
----------------------------------------------------------------------------
(***************************************************************************)
(* The bytes of the n-th frame of an end, of a message of the given size;  *)
(* the greeting counts as frame 0.                                         *)
(***************************************************************************)
Bytes(n, size) == [i \in 1..size + 2 |-> [frame |-> n, at |-> i, good |-> TRUE]]

Greeting == <<[frame |-> 0, at |-> 1, good |-> TRUE]>>

Init == /\ greeting = [e \in End |-> own[Other(e)]]
        /\ send = [e \in End |-> None]
        /\ recv = [e \in End |-> None]
        /\ sealed = [e \in End |-> <<>>]
        /\ heard = [e \in End |-> <<>>]
        /\ path = [e \in End |-> Greeting]
        /\ buffer = [e \in End |-> <<>>]
        /\ open = [e \in End |-> TRUE]
        /\ altered = 0

(***************************************************************************)
(* seal, with the half of the cipher to seal with                          *)
(***************************************************************************)
Frame(half, m) ==
    [message |-> m, body |-> half.body, length |-> half.length, nonce |-> half.count]

Seal(e, half, m) ==
    /\ sealed' = [sealed EXCEPT ![e] = Append(@, Frame(half, m))]
    /\ send' = [send EXCEPT ![e] = Advanced(half)]

Written(e, m) ==
    IF open[Other(e)]
    THEN [path EXCEPT ![Other(e)] = @ \o Bytes(Len(sealed[e]) + 1, Size[m])]
    ELSE path

(***************************************************************************)
(* send: a message over the cap is refused before the counter moves.       *)
(***************************************************************************)
Send(e, m) ==
    /\ open[e] /\ send[e] # None
    /\ m # Version /\ Size[m] <= MaxMessage
    /\ Len(sealed[e]) < MaxFrames[e]
    /\ Seal(e, send[e], m)
    /\ path' = Written(e, m)
    /\ UNCHANGED <<greeting, recv, heard, buffer, open, altered>>
----------------------------------------------------------------------------
(***************************************************************************)
(* open.  s is what the receiving loop of e works on: its half of the      *)
(* cipher, the bytes and what has been heard.                              *)
(***************************************************************************)
Foremost(e, s) == sealed[Other(e)][s.bytes[1].frame]

LengthReads(e, s) ==
    /\ s.bytes[1].good /\ s.bytes[1].at = 1
    /\ Foremost(e, s).length = s.half.length
    /\ Foremost(e, s).nonce = s.half.count

Total(e, s) == Size[Foremost(e, s).message] + 2

Unaltered(e, s) == \A i \in 1..Total(e, s) : s.bytes[i].good

\* Mutant: the tag is not checked.
AuthenticUntagged(e, s) == Foremost(e, s).body = s.half.body

Authentic(e, s) == Foremost(e, s).body = s.half.body /\ Unaltered(e, s)

Opens(e, s) == /\ s.bytes # <<>>
               /\ LengthReads(e, s)
               /\ Len(s.bytes) >= Total(e, s)
               /\ Authentic(e, s)

Payload(e, s) == IF Unaltered(e, s) THEN Foremost(e, s).message ELSE Garbage

Opened(e, s) ==
    [half  |-> Advanced(s.half),
     bytes |-> SubSeq(s.bytes, Total(e, s) + 1, Len(s.bytes)),
     heard |-> Append(s.heard, Payload(e, s))]

(***************************************************************************)
(* The loop of #onData: every complete frame is opened and dispatched.     *)
(* There are no more of them than bytes.                                   *)
(***************************************************************************)
Received == [half  : Half,
             bytes : Seq([frame : Nat, at : Nat, good : BOOLEAN]),
             heard : Seq(Message \cup {Garbage})]

Turn(e) == [s \in Received |-> IF Opens(e, s) THEN Opened(e, s) ELSE s]

\* Mutant: one frame of a chunk is opened.
DrainedOnce(e, s) == Turn(e)[s]

Drained(e, s) ==
    LET loop[n \in 0..Len(s.bytes)] == IF n = 0 THEN s ELSE Turn(e)[loop[n - 1]]
    IN loop[Len(s.bytes)]

(***************************************************************************)
(* What stops the loop: a complete frame that is not authentic, or too few *)
(* bytes.  A length that was altered, or is not under our key, reads as    *)
(* anything: as over the cap, as a shorter frame, as a longer one.         *)
(***************************************************************************)
Forged(e, s) == Len(s.bytes) >= Total(e, s) /\ ~Authentic(e, s)

MayFail(e, s) == /\ s.bytes # <<>>
                 /\ LengthReads(e, s) => Forged(e, s)

MayWait(e, s) == s.bytes # <<>> => IF LengthReads(e, s)
                                   THEN ~Forged(e, s)
                                   ELSE Len(s.bytes) < MaxMessage + 2

(***************************************************************************)
(* disconnect: the buffer goes, and of what was written any tail may.      *)
(***************************************************************************)
Disconnect(e) ==
    /\ open' = [open EXCEPT ![e] = FALSE]
    /\ buffer' = [buffer EXCEPT ![e] = <<>>]
    /\ \E n \in 0..Len(path[Other(e)]) :
         path' = [path EXCEPT ![e] = <<>>, ![Other(e)] = SubSeq(@, 1, n)]

(***************************************************************************)
(* #onData once the cipher exists: bytes are what the chunk makes of the   *)
(* buffer, half the receiving half, out the path after what was written.   *)
(***************************************************************************)
Receive(e, half, bytes, rest, out) ==
    LET s == Drained(e, [half |-> half, bytes |-> bytes, heard |-> heard[e]])
    IN /\ recv' = [recv EXCEPT ![e] = s.half]
       /\ heard' = [heard EXCEPT ![e] = s.heard]
       /\ \/ /\ MayWait(e, s)
             /\ buffer' = [buffer EXCEPT ![e] = s.bytes]
             /\ path' = [out EXCEPT ![e] = rest]
             /\ UNCHANGED open
          \/ /\ MayFail(e, s)
             /\ open' = [open EXCEPT ![e] = FALSE]
             /\ buffer' = [buffer EXCEPT ![e] = <<>>]
             /\ \E n \in 0..Len(out[Other(e)]) :
                  path' = [out EXCEPT ![e] = <<>>, ![Other(e)] = SubSeq(@, 1, n)]

(***************************************************************************)
(* A chunk arrives.                                                        *)
(***************************************************************************)
Data(e, n) ==
    LET bytes == buffer[e] \o SubSeq(path[e], 1, n)
        rest == SubSeq(path[e], n + 1, Len(path[e]))
    IN /\ open[e] /\ send[e] # None
       /\ Receive(e, recv[e], bytes, rest, path)
       /\ UNCHANGED <<greeting, send, sealed, altered>>

(***************************************************************************)
(* The first chunk: accept the greeting, say version, open what follows.   *)
(***************************************************************************)
SayVersion(e) == Seal(e, SendKeys(own[e], greeting[e]), Version)

KeyExchange(e, n) ==
    LET bytes == SubSeq(path[e], 2, n)
        rest == SubSeq(path[e], n + 1, Len(path[e]))
    IN /\ open[e] /\ send[e] = None
       /\ greeting[e] \notin {None, own[e]}
       /\ SayVersion(e)
       /\ Receive(e, RecvKeys(own[e], greeting[e]), bytes, rest, Written(e, Version))
       /\ UNCHANGED <<greeting, altered>>

KeyExchangeFails(e) ==
    /\ open[e] /\ send[e] = None /\ path[e] # <<>>
    /\ greeting[e] \in {None, own[e]}
    /\ Disconnect(e)
    /\ UNCHANGED <<greeting, send, recv, sealed, heard, altered>>

OnData(e) == \/ \E n \in 1..Len(path[e]) : Data(e, n) \/ KeyExchange(e, n)
             \/ KeyExchangeFails(e)
----------------------------------------------------------------------------
Close(e) == /\ open[e]
            /\ Disconnect(e)
            /\ UNCHANGED <<greeting, send, recv, sealed, heard, altered>>

(***************************************************************************)
(* A byte on the way to e is altered.                                      *)
(***************************************************************************)
Alter(e, i) ==
    /\ altered < MaxAltered
    /\ altered' = altered + 1
    /\ path' = [path EXCEPT ![e][i].good = FALSE]
    /\ IF path[e][i].frame = 0
       THEN \E k \in Key \cup {None} : greeting' = [greeting EXCEPT ![e] = k]
       ELSE UNCHANGED greeting
    /\ UNCHANGED <<send, recv, sealed, heard, buffer, open>>

Next == \E e \in End : \/ \E m \in Message : Send(e, m)
                       \/ OnData(e)
                       \/ Close(e)
                       \/ \E i \in DOMAIN path[e] : Alter(e, i)

Spec == Init /\ [][Next]_vars

(***************************************************************************)
(* What is written to a connected socket arrives.                          *)
(***************************************************************************)
FairSpec == Spec /\ \A e \in End : WF_vars(OnData(e))
----------------------------------------------------------------------------
(***************************************************************************)
(* No key is ever used twice with one counter, by either end: not for two  *)
(* bodies, not for two lengths ("nonces are frame counters that must never *)
(* repeat"; transport.ts: deriveSessionKeys, seal, ratchet).               *)
(***************************************************************************)
NonceOnce ==
    \A e, f \in End : \A i \in DOMAIN sealed[e] : \A j \in DOMAIN sealed[f] :
        e # f \/ i # j =>
            /\ <<sealed[e][i].body, sealed[e][i].nonce>> # <<sealed[f][j].body, sealed[f][j].nonce>>
            /\ <<sealed[e][i].length, sealed[e][i].nonce>> # <<sealed[f][j].length, sealed[f][j].nonce>>

(***************************************************************************)
(* Both ends hear what the other says, in order and exactly, whatever the  *)
(* chunks and whatever is altered on the way (Cipher.open and the loop of  *)
(* #onData).                                                               *)
(***************************************************************************)
Said == [e \in End |-> [i \in DOMAIN sealed[e] |-> sealed[e][i].message]]
Lost == altered > 0 \/ \E e \in End : ~open[e]

Link == INSTANCE SecureLink WITH said <- Said, lost <- Lost

RefinesLink == Link!Spec

\* And all of it, unless an end closes or a byte is altered.
AllIsHeard == Link!NothingUnheard
=============================================================================

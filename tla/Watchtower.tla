----------------------------- MODULE Watchtower -----------------------------
(***************************************************************************)
(* volt/watchtower.ts: a tower that holds encrypted penalties for revoked  *)
(* commitments, finds those commitments in blocks and broadcasts, at a     *)
(* higher fee whenever a penalty does not confirm; its table in            *)
(* store/sqlite.ts; and the client that seals the penalties.               *)
(*                                                                         *)
(* A breach is a revoked commitment, each of a channel of its own (only    *)
(* one commitment of a channel can be mined).  Its txid, the hint and the  *)
(* key cut from it, and its number are the breach itself: hashes are       *)
(* injective, so all blobs under one hint have one sequence.  The MAC of a *)
(* blob stands for what it seals and is told apart by where it sweeps to.  *)
(* Relay fees, miners and the cheater are the environment.  The cheater    *)
(* need not wait: an input with the final sequence passes the delay of its *)
(* output (chain.ts:464, tx.ts:509), so its sweep may be in any block from *)
(* that of the breach on.  A sweep that pays is mined with the next block, *)
(* so that one waiting in the pools is not modelled.                       *)
(***************************************************************************)
EXTENDS Lists, FiniteSetsExt

CONSTANTS
    Breach,         \* commitments a cheater may publish
    Worth,          \* Worth[c]: what the penalty of c sweeps
    FeeLadder,      \* the fees sealed, cheapest first
    Address,        \* places a client may sweep to
    Damaged,        \* blobs whose ciphertext does not authenticate
    RetryAfter,     \* blocks a penalty may stay unconfirmed
    Deadline,       \* blocks by which a breach is to be punished
    Floors,         \* levels of the relay fee
    MaxLag          \* bound: blocks mined and not yet scanned

ASSUME TowerConstants ==
    /\ FeeLadder \in Seq(Nat) /\ \A i, j \in DOMAIN FeeLadder : i < j => FeeLadder[i] < FeeLadder[j]
    /\ Worth \in [Breach -> Nat]
    /\ RetryAfter \in Nat \ {0} /\ Deadline \in Nat \ {0} /\ MaxLag \in Nat \ {0}
    /\ Floors \subseteq Nat

VARIABLES
    blobs,      \* #blobs: the ladder held in memory for a breach, <<>> for none
    disk,       \* watch_blobs: at most one blob of a fee
    pending,    \* #pending: the penalty last broadcast, if not seen confirmed
    unseen,     \* blocks not yet scanned, oldest first: the breaches they hold
    floor,      \* what a transaction must pay now to be relayed or mined
    pool,       \* penalties relayed and not confirmed
    age,        \* blocks since the breach was mined, counted to Deadline; 0: not mined
    sweptBy,    \* how the cheater's output was spent
    receipts,   \* blobs the client has a receipt for and still relies on
    closed,     \* channels closed cooperatively
    excused     \* breaches the tower cannot be blamed for

tower == <<blobs, disk, pending, unseen>>
chain == <<floor, pool, age, sweptBy>>
client == <<receipts, closed>>
towerVars == <<tower, chain, client, excused>>

Blob == [fee : Range(FeeLadder), to : Address]
NoPenalty == [rung |-> 0, blob |-> <<>>, waited |-> 0]
Nobody == [by |-> "nobody"]
Cheater == [by |-> "cheater"]
Tower(b) == [by |-> "tower", blob |-> b]

----------------------------------------------------------------------------
(***************************************************************************)
(* The client.                                                             *)
(***************************************************************************)
\* ladderForRevokedState stops at the first fee that leaves nothing to sweep.
Sealed(c, to) == {b \in Blob : b.to = to /\ b.fee < Worth[c]}

\* register: memory ignores an identical blob and keeps the list by fee...
Insert(list, b) ==
    IF b \in Range(list) THEN list
    ELSE Kept(list, {x \in Blob : x.fee <= b.fee}) \o <<b>>
         \o Kept(list, {x \in Blob : x.fee > b.fee})

\* ... and the table has one row for a hint, sequence and fee, the latest.
Upsert(rows, bs) == {r \in rows : r.fee \notin {b.fee : b \in bs}} \cup bs

\* Rows of different fees, cheapest first.
ByFee(rows) ==
    CHOOSE s \in [1..Cardinality(rows) -> rows] :
        /\ Range(s) = rows
        /\ \A i, j \in DOMAIN s : i < j => s[i].fee < s[j].fee

Registered(list, bs) ==
    LET s == ByFee(bs)
        l[n \in 0..Len(s)] == IF n = 0 THEN list ELSE Insert(l[n - 1], s[n])
    IN  l[Len(s)]

\* Mutant: what is registered again with another address is not written.
RegisterInMemory(c, to) ==
    /\ age[c] = 0 /\ c \notin closed
    /\ blobs' = [blobs EXCEPT ![c] = Registered(@, Sealed(c, to))]
    /\ receipts' = [receipts EXCEPT ![c] = @ \cup Sealed(c, to)]
    /\ UNCHANGED <<disk, pending, unseen, chain, closed, excused>>

\* registerLadder (and backfill, which calls it for each revoked state): a
\* receipt for every rung.  That it comes before the breach is a bound.
Register(c, to) ==
    /\ age[c] = 0 /\ c \notin closed
    /\ blobs' = [blobs EXCEPT ![c] = Registered(@, Sealed(c, to))]
    /\ disk' = [disk EXCEPT ![c] = Upsert(@, Sealed(c, to) \ Range(blobs[c]))]
    /\ receipts' = [receipts EXCEPT ![c] = @ \cup Sealed(c, to)]
    /\ UNCHANGED <<pending, unseen, chain, closed, excused>>

\* After a cooperative close the client has its blobs forgotten.
Forget(c) ==
    /\ age[c] = 0 /\ c \notin closed
    /\ closed' = closed \cup {c}
    /\ blobs' = [blobs EXCEPT ![c] = <<>>]
    /\ disk' = [disk EXCEPT ![c] = {}]
    /\ pending' = [pending EXCEPT ![c] = NoPenalty]
    /\ receipts' = [receipts EXCEPT ![c] = {}]
    /\ UNCHANGED <<unseen, chain, excused>>

----------------------------------------------------------------------------
(***************************************************************************)
(* The tower.                                                              *)
(***************************************************************************)
Opens(c, b) == <<c, b>> \notin Damaged

\* The relay takes a penalty that pays the floor and more than its rivals.
Relays(c, b) ==
    /\ sweptBy[c] = Nobody
    /\ b.fee >= floor
    /\ \A p \in pool : p[1] = c => p[2].fee < b.fee

\* What a scan makes of a breach.
Outcome(list, rows, pen, sent) == [list |-> list, rows |-> rows, pen |-> pen, sent |-> sent]

\* #act: the first rung, from the one given, that opens and is taken.
Act(c, from, otherwise) ==
    LET usable == {r \in from..Len(blobs[c]) : Opens(c, blobs[c][r]) /\ Relays(c, blobs[c][r])}
        r == Min(usable)
    IN IF usable = {} THEN Outcome(blobs[c], disk[c], otherwise, {})
       ELSE Outcome(blobs[c], disk[c], [rung |-> r, blob |-> blobs[c][r], waited |-> 0],
                    {<<c, blobs[c][r]>>})

\* Mutants: one block more is waited before climbing; the same rung is tried again
\* instead of the next.
RetryLate(c) ==
    LET pen == [pending[c] EXCEPT !.waited = @ + 1]
    IN CASE sweptBy[c] = Tower(pen.blob) -> Outcome(<<>>, {}, NoPenalty, {})
         [] sweptBy[c] # Tower(pen.blob) /\ pen.waited <= RetryAfter + 1
              -> Outcome(blobs[c], disk[c], pen, {})
         [] OTHER -> Act(c, pen.rung + 1, [pen EXCEPT !.waited = 0])
RetrySameRung(c) ==
    LET pen == [pending[c] EXCEPT !.waited = @ + 1]
    IN CASE sweptBy[c] = Tower(pen.blob) -> Outcome(<<>>, {}, NoPenalty, {})
         [] sweptBy[c] # Tower(pen.blob) /\ pen.waited < RetryAfter
              -> Outcome(blobs[c], disk[c], pen, {})
         [] OTHER -> Outcome(blobs[c], disk[c], [pen EXCEPT !.waited = 0], {})

\* #retryStalled: a penalty seen confirmed ends the matter; one that has waited
\* long enough is replaced by a dearer one, or, when there is none, waits on.
Retry(c) ==
    LET pen == [pending[c] EXCEPT !.waited = @ + 1]
    IN CASE sweptBy[c] = Tower(pen.blob) -> Outcome(<<>>, {}, NoPenalty, {})
         [] sweptBy[c] # Tower(pen.blob) /\ pen.waited < RetryAfter
              -> Outcome(blobs[c], disk[c], pen, {})
         [] OTHER -> Act(c, pen.rung + 1, [pen EXCEPT !.waited = 0])

\* scanBlock, for one hint: a breach under a pending penalty is not acted on again.
Scanned(c) ==
    CASE pending[c] # NoPenalty -> Retry(c)
      [] pending[c] = NoPenalty /\ c \in Head(unseen) /\ blobs[c] # <<>> -> Act(c, 1, NoPenalty)
      [] OTHER -> Outcome(blobs[c], disk[c], NoPenalty, {})

\* The highest fee the tower could pay for a breach.
TopFee(c) == Max({-1} \cup {b.fee : b \in {x \in Range(blobs[c]) : Opens(c, x)}})

ScanBlock ==
    /\ unseen # <<>>
    /\ LET after == [c \in Breach |-> Scanned(c)]
       IN /\ blobs' = [c \in Breach |-> after[c].list]
          /\ disk' = [c \in Breach |-> after[c].rows]
          /\ pending' = [c \in Breach |-> after[c].pen]
          /\ pool' = pool \cup UNION {after[c].sent : c \in Breach}
    /\ unseen' = Tail(unseen)
    \* Not the code's: the tower is not blamed where no rung pays the floor.
    /\ excused' = excused \cup {c \in Breach : age[c] > 0 /\ TopFee(c) < floor}
    /\ receipts' = [c \in Breach |-> IF sweptBy[c].by = "tower" THEN {} ELSE receipts[c]]
    /\ UNCHANGED <<floor, age, sweptBy, closed>>

\* A penalty is out that would be mined at relay fee f.
Afloat(c, f) == \E p \in pool : p[1] = c /\ p[2].fee >= f

\* A crash and the constructor: the blobs come back, the pending penalties do
\* not, so that one already out is on its own.
Restart ==
    /\ blobs' = [c \in Breach |-> ByFee(disk[c])]
    /\ pending' = [c \in Breach |-> NoPenalty]
    \* The tower is not blamed for a penalty that a restart left unpaid for.
    /\ excused' = excused \cup {c \in Breach : pending[c] # NoPenalty /\ ~Afloat(c, floor)}
    /\ UNCHANGED <<disk, unseen, chain, client>>

----------------------------------------------------------------------------
(***************************************************************************)
(* The chain.                                                              *)
(***************************************************************************)
\* The tower has scanned the breach, and no penalty of it is pending.
Adrift(c) ==
    /\ age[c] > 0 /\ pending[c] = NoPenalty
    /\ \A i \in DOMAIN unseen : c \notin unseen[i]

\* Relay fees move; what no longer pays may be dropped from the pools.
MoveFloor(f) ==
    /\ floor' = f
    /\ \/ pool' = pool
       \/ pool' = {p \in pool : p[2].fee >= f}
    \* Nor where the dearest rung stops paying, for it is not broadcast again; or
    \* a rung that was out at a restart.
    /\ excused' = excused \cup {c \in Breach : \/ age[c] > 0 /\ TopFee(c) < f
                                               \/ Adrift(c) /\ ~Afloat(c, f)}
    /\ UNCHANGED <<tower, age, sweptBy, client>>

\* How the output of a breach may be spent in a block that mines new breaches: by
\* a penalty that pays, which miners take, or by the cheater.
Spends(c, new) ==
    LET paying == {Tower(p[2]) : p \in {q \in pool : q[1] = c /\ q[2].fee >= floor}}
    IN IF sweptBy[c] # Nobody \/ (age[c] = 0 /\ c \notin new) THEN {sweptBy[c]}
       ELSE paying \cup {Cheater} \cup (IF paying = {} THEN {Nobody} ELSE {})

MineBlock(new) ==
    /\ Len(unseen) < MaxLag
    /\ new \subseteq {c \in Breach : age[c] = 0 /\ c \notin closed}
    /\ age' = [c \in Breach |-> IF c \in new THEN 1
                                ELSE IF age[c] \in 1..(Deadline - 1) THEN age[c] + 1 ELSE age[c]]
    /\ sweptBy' \in [Breach -> UNION {Spends(c, new) : c \in Breach}]
    /\ \A c \in Breach : sweptBy'[c] \in Spends(c, new)
    /\ pool' = {p \in pool : sweptBy'[p[1]] = Nobody}
    /\ unseen' = Append(unseen, new)
    \* Nor where it has blocks to catch up on, or was given nothing.
    /\ excused' = excused \cup {c \in Breach : \/ unseen # <<>> /\ age[c] > 0
                                               \/ c \in new /\ receipts[c] = {}}
    /\ UNCHANGED <<blobs, disk, pending, floor, client>>

TowerInit ==
    /\ blobs = [c \in Breach |-> <<>>] /\ disk = [c \in Breach |-> {}]
    /\ pending = [c \in Breach |-> NoPenalty] /\ unseen = <<>>
    /\ floor \in Floors /\ pool = {}
    /\ age = [c \in Breach |-> 0] /\ sweptBy = [c \in Breach |-> Nobody]
    /\ receipts = [c \in Breach |-> {}] /\ closed = {} /\ excused = {}

TowerNext ==
    \/ \E c \in Breach, to \in Address : Register(c, to)
    \/ \E c \in Breach : Forget(c)
    \/ ScanBlock
    \/ Restart
    \/ \E f \in Floors : MoveFloor(f)
    \/ \E new \in SUBSET Breach : MineBlock(new)

TowerSpec == TowerInit /\ [][TowerNext]_towerVars

\* Blocks are mined and handed to the tower.
FairTowerSpec ==
    /\ TowerSpec
    /\ WF_towerVars(\E new \in SUBSET Breach : MineBlock(new))
    /\ WF_towerVars(ScanBlock)

----------------------------------------------------------------------------
(***************************************************************************)
(* Properties.                                                             *)
(***************************************************************************)

\* A rung the tower gave a receipt for is held, in memory and in the table, until
\* a penalty for its breach has confirmed or the client lets it go, through any
\* number of restarts and registrations (register, forget and the constructor).
ReceiptedRungsHeld ==
    \A c \in Breach : sweptBy[c].by # "tower" =>
        \A b \in receipts[c] : /\ \E x \in Range(blobs[c]) : x.fee = b.fee
                               /\ \E x \in disk[c] : x.fee = b.fee

\* What the client could seal for a breach; of that, what opens and is not the
\* dearest; and a deadline with time for every rung: to find the breach, to wait
\* for each below the dearest, and to be mined.
Sealable(c) == {b \in Blob : b.fee < Worth[c]}
LowRungs(c) ==
    {b \in Sealable(c) : Opens(c, b) /\ \E d \in Sealable(c) : Opens(c, d) /\ b.fee < d.fee}
DeadlineSuffices ==
    \A c \in Breach : IsFiniteSet(LowRungs(c)) /\ Deadline >= 2 + RetryAfter * Cardinality(LowRungs(c))

\* A breach is not left unpunished for long: its output is unspent at the deadline
\* only where the tower was given nothing to punish with, was behind with its
\* blocks, had no rung that paid the relay fee, or was restarted and the penalty
\* then out does not pay (scanBlock, #act and #retryStalled climb the whole ladder
\* in the time DeadlineSuffices gives them).  A cheater who spends first is not
\* held up by the delay of its output, and nothing here says that it is.
UnpunishedOnlyIfExcused ==
    \A c \in Breach : age[c] >= Deadline /\ sweptBy[c] = Nobody => c \in excused

\* A penalty that stays out of the pools and below the top of its ladder is
\* replaced by a dearer one, once relay fees settle at a level the ladder
\* reaches (#retryStalled), unless the tower restarts.
StalledClimbs ==
    \A c \in Breach : \A r \in 1..(2 * Len(FeeLadder)) :
        <>[](floor <= TopFee(c)) =>
            [](pending[c].rung = r
               => <>(\/ pending[c].rung # r \/ sweptBy[c] # Nobody
                     \/ r = Len(blobs[c]) \/ \E p \in pool : p[1] = c /\ p[2].fee >= floor))
============================================================================

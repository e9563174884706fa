------------------------------- MODULE Faucet -------------------------------
(***************************************************************************)
(* node/faucet.ts and its use in deckxd.ts: requests are served one at a   *)
(* time (of those that wait, any may be the next), each judged against the *)
(* confirmed coins and the ledger of grants, which is written to disk      *)
(* after a grant and read back at a start.  The node's pool refuses a      *)
(* payment that spends what a pooled one does and has no objection to one  *)
(* it already has (node/mempool.ts); it does not survive a crash, what it  *)
(* has relayed does.  The clock only moves forward.                        *)
(***************************************************************************)
EXTENDS Wallet, Lists

CONSTANTS
    Address, Client,
    Funds,              \* values of the coins at the start
    TopUps,             \* values of the coinbases mined to the faucet
    Amount, Reserve, DailyCap, AddressCooldown, ClientCooldown, Day,
    MaxTime,            \* bound: ticks of the clock
    MaxTopUps,          \* bound: coinbases
    MaxFaults           \* bound: crashes, and broadcasts that throw

ASSUME FaucetConstants ==
    /\ Amount \in Nat \ {0} /\ DailyCap \in Nat /\ Reserve \in Nat /\ Day \in Nat \ {0}
    /\ MaxTime \in Nat
    /\ AddressCooldown \in Nat /\ ClientCooldown \in Nat

VARIABLES
    now,
    coins,      \* the wallet's confirmed coins
    minted,     \* coins there have been
    topUps,
    pool,       \* payments in the node's pool
    relayed,    \* payments the network has seen
    ledger,     \* grants: records address, client, at, pay
    disk,       \* the ledger's file, or Torn
    unwritten,  \* history: the last write failed
    serving,    \* the grant whose broadcast is awaited, or None
    sent,       \* history: grants whose payment the node took
    lost,       \* history: grants a crash has made the faucet forget
    thrown,     \* history: grants whose broadcast threw
    faults

money == <<coins, minted, topUps, relayed>>
book == <<ledger, disk, unwritten, sent, lost, thrown>>
faucetVars == <<now, money, pool, book, serving, faults>>

None == [address |-> "none", accepted |-> FALSE]
\* A file that was truncated and not written to its end: JSON.parse throws on it.
Torn == <<None>>

InitFaucet ==
    /\ now = 0 /\ pool = {} /\ relayed = {} /\ faults = 0
    /\ coins = {[id |-> i, value |-> Funds[i], branch |-> "receive", index |-> 0, ripe |-> TRUE] :
                i \in DOMAIN Funds}
    /\ minted = Len(Funds) /\ topUps = 0
    /\ ledger = <<>> /\ disk = <<>> /\ unwritten = FALSE
    /\ sent = {} /\ lost = {} /\ thrown = {}
    /\ serving = None

----------------------------------------------------------------------------
(***************************************************************************)
(* judgeRequest                                                            *)
(***************************************************************************)
LastFor(address) == Max({0} \cup {i \in DOMAIN ledger : ledger[i].address = address})
LastForClient(client) == Max({0} \cup {i \in DOMAIN ledger : ledger[i].client = client})
Cooled(i, cooldown) == i > 0 => now - ledger[i].at >= cooldown

Dispensed == Amount * Cardinality({i \in DOMAIN ledger : ledger[i].at > now - Day})

CanSpend == Value(Spendable(coins))

Allowed(address, client) ==
    /\ CanSpend >= Amount /\ CanSpend - Amount >= Reserve
    /\ Cooled(LastFor(address), AddressCooldown)
    /\ Cooled(LastForClient(client), ClientCooldown)
    /\ Dispensed + Amount <= DailyCap

----------------------------------------------------------------------------
(***************************************************************************)
(* Faucet                                                                  *)
(***************************************************************************)
Grant(address, client, pay) ==
    [address |-> address, client |-> client, at |-> now, pay |-> pay]

\* #serve up to its await: judged, built, recorded.
Serve(address, client) ==
    /\ serving = None
    /\ Allowed(address, client)
    /\ LET pay == Send(coins, address, Amount)
           grant == Grant(address, client, pay)
       IN /\ pay # NoPayment
          /\ ledger' = Append(ledger, grant)
          /\ serving' = [address |-> address, grant |-> grant, accepted |-> FALSE]
    /\ UNCHANGED <<now, money, pool, disk, unwritten, sent, lost, thrown, faults>>

Current == serving.grant
Awaiting == serving # None /\ ~serving.accepted
Unspent(pay) == pay.ins \subseteq {c.id : c \in coins}
Conflicts(pay) == \E p \in pool : p # pay /\ p.ins \cap pay.ins # {}

\* submitTransaction takes the payment, or has it already.
Accept ==
    /\ Awaiting
    /\ Current.pay \in pool \/ (~Conflicts(Current.pay) /\ Unspent(Current.pay))
    /\ pool' = pool \cup {Current.pay} /\ relayed' = relayed \cup {Current.pay}
    /\ serving' = [serving EXCEPT !.accepted = TRUE]
    /\ sent' = sent \cup {Current}
    /\ UNCHANGED <<now, coins, minted, topUps, ledger, disk, unwritten, lost, thrown, faults>>

\* rollback: the last grant of this payment.
Rollback(grants, pay) == RemoveAt(grants, Max({i \in DOMAIN grants : grants[i].pay = pay}))

\* Mutant: a refusal leaves the grant in the ledger.
RefuseKeep ==
    /\ Awaiting /\ Current.pay \notin pool
    /\ Conflicts(Current.pay) \/ ~Unspent(Current.pay)
    /\ serving' = None
    /\ UNCHANGED <<now, money, pool, ledger, disk, unwritten, sent, lost, thrown, faults>>

Refuse ==
    /\ Awaiting /\ Current.pay \notin pool
    /\ Conflicts(Current.pay) \/ ~Unspent(Current.pay)
    /\ ledger' = Rollback(ledger, Current.pay)
    /\ serving' = None
    /\ UNCHANGED <<now, money, pool, disk, unwritten, sent, lost, thrown, faults>>

\* The node throws before it has taken the payment: the request fails, the queue
\* goes on, the grant stays.
BroadcastThrows ==
    /\ Awaiting /\ faults < MaxFaults
    /\ faults' = faults + 1
    /\ thrown' = thrown \cup {Current}
    /\ serving' = None
    /\ UNCHANGED <<now, money, pool, ledger, disk, unwritten, sent, lost>>

\* prune, by the time at which the request was taken up.
Recent(grants) == Kept(grants, {g \in ToSet(grants) : g.at >= Current.at - 2 * Day})

\* onChange: a write that fails is only logged, and may have truncated the file.
Persist(grants) ==
    \/ disk' = grants /\ unwritten' = FALSE
    \/ disk' \in {disk, Torn} /\ unwritten' = TRUE

\* Mutant: only the last day is kept, less a tick.
FinishShort ==
    /\ serving # None /\ serving.accepted
    /\ ledger' = Kept(ledger, {g \in ToSet(ledger) : g.at > Current.at - Day + 1})
    /\ Persist(ledger')
    /\ serving' = None
    /\ UNCHANGED <<now, money, pool, sent, lost, thrown, faults>>

\* The rest of #serve.
Finish ==
    /\ serving # None /\ serving.accepted
    /\ ledger' = Recent(ledger)
    /\ Persist(ledger')
    /\ serving' = None
    /\ UNCHANGED <<now, money, pool, sent, lost, thrown, faults>>

\* The daemon reads the file as it starts; over a torn one it fails, and starts
\* once the operator has moved it away.
OnDisk == IF disk = Torn THEN <<>> ELSE disk

Crash ==
    /\ faults < MaxFaults
    /\ faults' = faults + 1
    /\ ledger' = OnDisk /\ disk' = OnDisk /\ unwritten' = FALSE
    /\ lost' = lost \cup (ToSet(ledger) \ ToSet(OnDisk))
    /\ serving' = None /\ pool' = {}
    /\ UNCHANGED <<now, money, sent, thrown>>

----------------------------------------------------------------------------
(***************************************************************************)
(* The chain                                                               *)
(***************************************************************************)
\* Any relayed payment whose coins are unspent may be mined; the pool then drops
\* what can no longer be.
MinePayment(pay) ==
    /\ pay \in relayed /\ Unspent(pay)
    /\ coins' = {c \in coins : c.id \notin pay.ins} \cup
                (IF pay.change = 0 THEN {}
                 ELSE {[id |-> minted + 1, value |-> pay.change, branch |-> "change",
                        index |-> pay.slot, ripe |-> TRUE]})
    /\ minted' = minted + 1
    /\ pool' = {p \in pool : p.ins \cap pay.ins = {}}
    /\ UNCHANGED <<now, topUps, relayed, book, serving, faults>>

TopUp(value) ==
    /\ topUps < MaxTopUps
    /\ topUps' = topUps + 1
    /\ minted' = minted + 1
    /\ coins' = coins \cup {[id |-> minted + 1, value |-> value, branch |-> "receive",
                             index |-> 0, ripe |-> FALSE]}
    /\ UNCHANGED <<now, relayed, pool, book, serving, faults>>

Ripen(c) ==
    /\ ~c.ripe
    /\ coins' = (coins \ {c}) \cup {[c EXCEPT !.ripe = TRUE]}
    /\ UNCHANGED <<now, minted, topUps, relayed, pool, book, serving, faults>>

Tick ==
    /\ now < MaxTime
    /\ now' = now + 1
    /\ UNCHANGED <<money, pool, book, serving, faults>>

NextFaucet ==
    \/ \E a \in Address, c \in Client : Serve(a, c)
    \/ Accept \/ Refuse \/ BroadcastThrows \/ Finish \/ Crash
    \/ \E pay \in relayed : MinePayment(pay)
    \/ \E v \in TopUps : TopUp(v)
    \/ \E c \in coins : Ripen(c)
    \/ Tick

----------------------------------------------------------------------------
(***************************************************************************)
(* Properties.                                                             *)
(***************************************************************************)
Remembered(cooldown) == Min({cooldown, 2 * Day})
Close(g, h, limit) == g # h /\ g.at <= h.at /\ h.at - g.at < limit

\* Whatever was paid, but for what a crash made the faucet forget, kept the daily
\* cap and the cooldowns as far as the ledger remembers: two days.  And unless the
\* last write failed, a crash can forget no payment but the one in service ("a
\* faucet that forgets on restart is one you drain by crashing it", deckxd.ts:170).
LimitsKept ==
    LET paid == sent \ lost
    IN /\ \A g, h \in paid :
             /\ g.address = h.address => ~Close(g, h, Remembered(AddressCooldown))
             /\ g.client = h.client => ~Close(g, h, Remembered(ClientCooldown))
       /\ \A t \in {g.at : g \in paid} :
             Amount * Cardinality({g \in paid : g.at \in (t - Day + 1)..t}) <= DailyCap
       /\ ~unwritten => \A g \in paid \cap ToSet(ledger) :
                           g \in ToSet(disk) \/ (serving # None /\ g = Current)

\* A grant in the ledger is being served, or its payment was taken by the node: a
\* refusal frees address and client at once.  Where the broadcast threw instead, the
\* grant stays and nothing was given.
LedgerIsTrue ==
    \A i \in DOMAIN ledger :
        \/ ledger[i] \in sent \cup thrown
        \/ serving # None /\ ledger[i] = Current
=============================================================================

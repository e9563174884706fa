------------------------------ MODULE Gateway -------------------------------
(***************************************************************************)
(* node/gateway.ts, beside the faucet it serves: the rate limiter, and the *)
(* cache of the node's answers.  What the node would answer to a query is  *)
(* its tip, a number that grows with every block.                          *)
(***************************************************************************)
EXTENDS Faucet

CONSTANTS
    Query,          \* method and parameters of a call, as the cache keys them
    Ttl,            \* Ttl[q]: ticks an answer may be kept
    CacheMax,
    BucketSize, RefillPerTick,
    FaucetCost,     \* what a request to the faucet takes from the bucket
    MaxCalls,       \* bound: calls on their way
    MaxTip,         \* bound: blocks
    Asking,         \* bound: a behaviour asks the faucet or the node, or both
    Asker,          \* bound: clients who ask the node
    Proxies,        \* addresses of the reverse proxies in front, the outermost first
    Claims          \* what a client may itself write in X-Forwarded-For

ASSUME GatewayConstants ==
    /\ Ttl \in [Query -> Nat] /\ CacheMax \in Nat \ {0}
    /\ BucketSize \in Nat /\ RefillPerTick \in Nat /\ FaucetCost \in Nat
    /\ Asker \subseteq Client
    /\ Claims \subseteq Seq(Client)
    /\ Proxies \in Seq(ToSet(Proxies))

VARIABLES
    bucket,     \* bucket[address]: tokens, and when they were counted
    cache,      \* entries query, value, until, oldest first
    calls,      \* calls to the node: query, asked, tip or NoValue yet
    ceased,     \* ceased[v]: when tip v was replaced; the tip is Len(ceased)
    answer,     \* the last answer given
    asking,
    spent       \* history: spent[client][t], tokens the client itself took at t

queryVars == <<bucket, cache, calls, ceased, answer, spent>>
vars == <<faucetVars, queryVars, asking>>

NoValue == -1
NoAnswer == [query |-> "none"]

Init ==
    /\ InitFaucet
    /\ bucket = [c \in Client \cup ToSet(Proxies) |-> [tokens |-> BucketSize, at |-> 0]]
    /\ cache = <<>> /\ calls = {} /\ ceased = <<>> /\ answer = NoAnswer
    /\ asking \in Asking
    /\ spent = [c \in Asker |-> [t \in 0..MaxTime |-> 0]]

----------------------------------------------------------------------------
(***************************************************************************)
(* Who asks.  Every proxy appends the address it was called from to the    *)
(* header; an address stands for its clientKey, and trustProxy is the      *)
(* number of proxies, as the operator is told to set it.                   *)
(***************************************************************************)
Remote(client) == IF Proxies = <<>> THEN client ELSE Last(Proxies)
Header(client, claim) ==
    IF Proxies = <<>> THEN claim ELSE Append(claim, client) \o Front(Proxies)

\* Mutant: the leftmost entry is believed.
ClientAddressClaimed(remote, header) ==
    IF Len(Proxies) = 0 \/ header = <<>> THEN remote ELSE header[1]

ClientAddress(remote, header) ==
    IF Len(Proxies) = 0 \/ header = <<>> THEN remote
    ELSE header[Max({1, Len(header) - Len(Proxies) + 1})]

\* #clientFor: the buckets a client may be served from.
ClientFor(client) == {ClientAddress(Remote(client), Header(client, claim)) : claim \in Claims}

----------------------------------------------------------------------------
\* Mutant: a bucket refills without end.
TokensUncapped(a) == bucket[a].tokens + (now - bucket[a].at) * RefillPerTick

Tokens(a) == Min({BucketSize, bucket[a].tokens + (now - bucket[a].at) * RefillPerTick})

Take(client, a, cost) ==
    /\ Tokens(a) >= cost
    /\ bucket' = [bucket EXCEPT ![a] = [tokens |-> Tokens(a) - cost, at |-> now]]
    /\ spent' = [spent EXCEPT ![client][now] = @ + cost]

\* Refused: the bucket is only brought up to date.
Refused(a, cost) ==
    /\ Tokens(a) < cost
    /\ bucket' = [bucket EXCEPT ![a] = [tokens |-> Tokens(a), at |-> now]]
    /\ UNCHANGED spent

Tip == Len(ceased)
Entry(q) == {i \in DOMAIN cache : cache[i].query = q}
Live(q) == {i \in Entry(q) : cache[i].until > now}
\* since: from when on the answer has to have been true at some time.
Answered(q, value, since) ==
    answer' = [query |-> q, of |-> value[1], tip |-> value[2], since |-> since]

\* An entry that has expired is deleted as it is looked up.
Lookup(q) == Kept(cache, {e \in ToSet(cache) : e.query = q => e.until > now})

\* The cache answers before the limiter is asked.
Hit(q) ==
    /\ Live(q) # {}
    /\ Answered(q, cache[CHOOSE i \in Live(q) : TRUE].value, now - Ttl[q] + 1)
    /\ UNCHANGED <<bucket, cache, calls, ceased, spent>>

Miss(client, a, q) ==
    /\ Live(q) = {} /\ Cardinality(calls) < MaxCalls
    /\ Take(client, a, 1)
    /\ cache' = Lookup(q)
    /\ calls' = calls \cup {[query |-> q, asked |-> now, tip |-> NoValue]}
    /\ UNCHANGED <<ceased, answer>>

Throttle(a, q) ==
    /\ Live(q) = {}
    /\ Refused(a, 1)
    /\ cache' = Lookup(q)
    /\ UNCHANGED <<calls, ceased, answer>>

\* The node computes an answer; it has yet to arrive.
Compute(call) ==
    /\ call.tip = NoValue
    /\ calls' = (calls \ {call}) \cup {[call EXCEPT !.tip = Tip]}
    /\ UNCHANGED <<bucket, cache, ceased, answer, spent>>

\* Map.set leaves a key where it is; the oldest goes first, wanted or not.
Stored(q, value, until) ==
    LET room == IF Len(cache) >= CacheMax THEN Tail(cache) ELSE cache
        entry == [query |-> q, value |-> value, until |-> until]
        at == {i \in DOMAIN room : room[i].query = q}
    IN IF at = {} THEN Append(room, entry) ELSE [room EXCEPT ![Max(at)] = entry]

\* Mutant: kept from the moment the answer arrives.
ArriveLater(call) ==
    /\ call.tip # NoValue
    /\ calls' = calls \ {call}
    /\ cache' = IF Ttl[call.query] = 0 THEN cache
                ELSE Stored(call.query, <<call.query, call.tip>>, now + Ttl[call.query])
    /\ Answered(call.query, <<call.query, call.tip>>, call.asked)
    /\ UNCHANGED <<bucket, ceased, spent>>

\* Kept from the moment of the question.
Arrive(call) ==
    /\ call.tip # NoValue
    /\ calls' = calls \ {call}
    /\ cache' = IF Ttl[call.query] = 0 THEN cache
                ELSE Stored(call.query, <<call.query, call.tip>>, call.asked + Ttl[call.query])
    /\ Answered(call.query, <<call.query, call.tip>>, call.asked)
    /\ UNCHANGED <<bucket, ceased, spent>>

\* An error is passed on and not kept.
CallFails(call) ==
    /\ call.tip = NoValue
    /\ calls' = calls \ {call}
    /\ UNCHANGED <<bucket, cache, ceased, answer, spent>>

\* POST /faucet costs more, of the same bucket.
PostFaucet(client, a) ==
    /\ Take(client, a, FaucetCost) \/ Refused(a, FaucetCost)
    /\ UNCHANGED <<cache, calls, ceased, answer>>

NewTip ==
    /\ Len(ceased) < MaxTip
    /\ ceased' = Append(ceased, now)
    /\ UNCHANGED <<bucket, cache, calls, answer, spent>>

NextQuery ==
    \/ \E c \in Asker : \E a \in ClientFor(c) :
          PostFaucet(c, a) \/ \E q \in Query : Miss(c, a, q) \/ Throttle(a, q)
    \/ \E q \in Query : Hit(q)
    \/ \E call \in calls : Compute(call) \/ Arrive(call) \/ CallFails(call)
    \/ NewTip

Next ==
    /\ UNCHANGED asking
    /\ \/ asking # "node" /\ NextFaucet /\ UNCHANGED queryVars
       \/ asking # "faucet" /\ NextQuery /\ UNCHANGED faucetVars
       \/ asking = "node" /\ Tick /\ UNCHANGED queryVars

Spec == Init /\ [][Next]_vars

----------------------------------------------------------------------------
(***************************************************************************)
(* Properties.                                                             *)
(***************************************************************************)
\* A cached answer is the answer to the question asked, and was true within its ttl
\* before it was given, whatever order the node's answers came in; one from the
\* node was true after it was asked for.
AnswersFresh ==
    answer # NoAnswer =>
        /\ answer.of = answer.query
        /\ answer.tip = Tip \/ ceased[answer.tip + 1] >= answer.since

\* f[s] + f[s + 1] + ..., n terms.
SumOf(f, s, n) == SumFunctionOnSet(f, s..(s + n - 1))

\* Over no span of time does a client, whatever it writes in its headers, get more
\* than a full bucket and what has dripped into it since ("anyone can send a fresh
\* value per request and defeat every limit here", gateway.ts:232).
BudgetKept ==
    \A c \in Asker : \A s \in 0..now : \A t \in s..now :
        SumOf(spent[c], s, t - s + 1) <= BucketSize + (t - s) * RefillPerTick
=============================================================================

----------------------------- MODULE ForkChoice -----------------------------
(***************************************************************************)
(* What ChainState promises, without stores, undo records or steps         *)
(* (chain/src/node/chainstate.ts, header comment): a block index that      *)
(* keeps every block whose parent it knows, and a best block chosen by     *)
(* accumulated work, moved in one step, and only to a chain that validates *)
(* and forks off no deeper than the undo window.                           *)
(***************************************************************************)
EXTENDS Integers

CONSTANTS
    Block, Genesis,
    Parent,        \* Parent[b], for b # Genesis
    Ancestors,     \* Ancestors[b]: b and every block below it
    Height,
    ChainWork,     \* accumulated work
    HeaderOk,      \* blocks that pass every header check
    Good,          \* blocks that apply cleanly to the state after their parent
    UndoRetention

VARIABLES
    known,         \* blocks in the index
    best,          \* tip of the active chain
    damaged        \* a failed move was put back over the wrong block

ForkVars == <<known, best, damaged>>

\* The highest block that two chains share.
ForkHeight(b, t) ==
    CHOOSE h \in {Height[a] : a \in Ancestors[b] \cap Ancestors[t]} :
        \A a \in Ancestors[b] \cap Ancestors[t] : Height[a] <= h

NewBranch(b, t) == Ancestors[b] \ Ancestors[t]

\* A move to b is attempted; it succeeds if all of the new branch is good.
Attempted(b) ==
    /\ ChainWork[b] > ChainWork[best]
    /\ Height[best] - ForkHeight(b, best) <= UndoRetention

Wins(b) == Attempted(b) /\ NewBranch(b, best) \subseteq Good

Offered(b) ==
    /\ b \in HeaderOk \ known
    /\ b # Genesis
    /\ Parent[b] \in known

\* A block on top of the best block is kept only if it is good.
Extend(b) ==
    /\ Offered(b)
    /\ Parent[b] = best
    /\ b \in Good
    /\ known' = known \cup {b}
    /\ best' = b
    /\ UNCHANGED damaged

\* A block elsewhere is always kept; the best block moves when it wins.
Branch(b) ==
    /\ Offered(b)
    /\ Parent[b] # best
    /\ known' = known \cup {b}
    /\ best' = IF Wins(b) THEN b ELSE best
    /\ UNCHANGED damaged

\* The node stops in the middle of a move to b: the best block is then one
\* between the fork point and either end, on a chain that validates.
Interrupt(b) ==
    /\ Offered(b)
    /\ Parent[b] # best
    /\ Attempted(b)
    /\ known' = known \cup {b}
    /\ best' \in {x \in Ancestors[best] \cup Ancestors[b] :
                    /\ Height[x] >= ForkHeight(b, best)
                    /\ NewBranch(x, best) \subseteq Good}
    /\ UNCHANGED damaged

\* A move over a branch longer than the window may damage the index ...
Damage(b) ==
    /\ Offered(b)
    /\ Parent[b] # best
    /\ Attempted(b)
    /\ Height[b] > ForkHeight(b, best) + UndoRetention + 2
    /\ damaged' = TRUE
    /\ UNCHANGED <<known, best>>

\* ... which then no longer finds the fork of a branch: a better block may be
\* refused, but the best block still moves along its own chain or the one
\* offered, stays on blocks that validate, and goes to b for more work only.
Wander(b) ==
    /\ damaged
    /\ Offered(b)
    /\ Parent[b] # best
    /\ known' = known \cup {b}
    /\ best' \in {x \in Ancestors[best] \cup Ancestors[b] :
                    NewBranch(x, best) \subseteq Good}
    /\ best' = b => ChainWork[b] > ChainWork[best]
    /\ UNCHANGED damaged

ForkInit == known = {Genesis} /\ best = Genesis /\ ~damaged

ForkNext ==
    \E b \in Block :
        Extend(b) \/ Branch(b) \/ Interrupt(b) \/ Damage(b) \/ Wander(b)

ForkSpec == ForkInit /\ [][ForkNext]_ForkVars
=============================================================================

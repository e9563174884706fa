----------------------------- MODULE MCGateway ------------------------------
EXTENDS Gateway, TLC
MCFunds == <<6, 5>>
CONSTANTS c1, c2, outer, inner
MCProxies == <<outer, inner>>
MCClaims == {<<>>, <<c2>>, <<c2, c1>>}
MCTtl == ("tip" :> 1) @@ ("block" :> 2)
MCSymmetry == Permutations(Address)
=============================================================================

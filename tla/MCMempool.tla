----------------------------- MODULE MCMempool -----------------------------
(***************************************************************************)
(* An instance of Mempool for TLC.  pay and rival spend the same coin;     *)
(* child spends what pay makes, and aged too, two blocks later; dep1 and   *)
(* dep2 are deployments by one account with the same nonce, and call goes  *)
(* to another contract.  Two contract transactions exceed a block's gas.   *)
(***************************************************************************)
EXTENDS Mempool

MCTx == {"pay", "rival", "child", "aged", "dep1", "dep2", "call"}

MCBase == {<<"genesis", 0>>, <<"genesis", 1>>, <<"genesis", 2>>, <<"genesis", 3>>,
           <<"nonce", 0>>}
MCResource == MCBase \cup (MCTx \X {0, 1, 2})

MCInputs == [t \in MCTx |->
    CASE t \in {"pay", "rival"} -> {<<"genesis", 0>>}
      [] t = "child" -> {<<"pay", 1>>}
      [] t = "aged"  -> {<<"pay", 2>>}
      [] t = "dep1"  -> {<<"genesis", 1>>}
      [] t = "dep2"  -> {<<"genesis", 2>>}
      [] t = "call"  -> {<<"genesis", 3>>}]

MCConsumes == [t \in MCTx |->
    MCInputs[t] \cup IF t \in {"dep1", "dep2"} THEN {<<"nonce", 0>>} ELSE {}]

MCCreates == [t \in MCTx |-> {t} \X IF t = "pay" THEN {0, 1, 2} ELSE {0}]

MCMinAge   == [t \in MCTx |-> IF t = "aged" THEN 2 ELSE 0]
MCLockTime == [t \in MCTx |-> IF t = "call" THEN 2 ELSE 0]
MCGas      == [t \in MCTx |-> IF t \in {"dep1", "dep2", "call"} THEN 2 ELSE 0]
MCFeeRate  == [t \in MCTx |->
    CASE t = "pay" -> 4 [] t = "rival" -> 5 [] t = "child" -> 3 [] t = "aged" -> 2
      [] t = "dep1" -> 6 [] t = "dep2" -> 7 [] t = "call" -> 1]

MCOffered == {<<>>, <<"pay">>, <<"pay", "child">>, <<"rival", "dep2">>, <<"aged", "call">>}
=============================================================================

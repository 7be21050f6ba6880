---------------------------- MODULE MCChainQuery ----------------------------
(***************************************************************************)
(* A block tree for ChainQuery: t1 is spent by t2 on one branch and by t3  *)
(* at the same height of the other, and t4 confirms on both at different   *)
(* heights.  Every output but t3 pays the script s1.                       *)
(***************************************************************************)
EXTENDS ChainQuery, TLC

\* genesis - a1 - a2, and a fork a1 - b2 - b3.
TreeBlocks == {"g", "a1", "a2", "b2", "b3"}
TreeAnc == [b \in TreeBlocks |->
    CASE b = "g"  -> {"g"}
      [] b = "a1" -> {"g", "a1"}
      [] b = "a2" -> {"g", "a1", "a2"}
      [] b = "b2" -> {"g", "a1", "b2"}
      [] b = "b3" -> {"g", "a1", "b2", "b3"}]

TreeTxs == {"t0", "t1", "t2", "t3", "t4"}
TreeTxsOf == [b \in TreeBlocks |->
    CASE b = "g"  -> {"t0"}
      [] b = "a1" -> {"t1"}
      [] b = "a2" -> {"t2", "t4"}
      [] b = "b2" -> {"t3"}
      [] b = "b3" -> {"t4"}]
TreeSpends == [t \in TreeTxs |->
    CASE t = "t1" -> {"t0"}
      [] t \in {"t2", "t3"} -> {"t1"}
      [] OTHER -> {}]

TwoScripts == {"s1", "s2"}
TreeScriptOf == [t \in TreeTxs |-> IF t = "t3" THEN "s2" ELSE "s1"]

LegacyB == {"b2", "b3"}
AskedOnce == {<<"utxo", "s1">>, <<"stats", "s1">>, <<"history", "s1">>, <<"spend", "t1">>}
AskedStats == {<<"stats", "s1">>}
AskedUtxo == {<<"utxo", "s1">>}
AskedSpend == {<<"spend", "t1">>}

\* The client threads are interchangeable.
ClientSymmetry == Permutations(Queries)
==============================================================================

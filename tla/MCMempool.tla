------------------------------ MODULE MCMempool ------------------------------
(***************************************************************************)
(* A parent p with a child c, and a transaction r that replaces p.         *)
(***************************************************************************)
EXTENDS Mempool

PoolTxs == {"p", "c", "r"}
PoolSpends == [t \in PoolTxs |-> IF t = "c" THEN {"p"} ELSE {"coin"}]

PoolPackages == {<<"c">>, <<"r">>, <<"p", "c">>}
Replacement == {<<"r">>}
==============================================================================

------------------------------ MODULE MCIndexer ------------------------------
(***************************************************************************)
(* Small block trees for Indexer.  t1 is the output every branch spends:   *)
(* t2, in both branches at different heights, spends it, and t3, at the    *)
(* same height of both branches, spends t2 or an output of its own branch. *)
(***************************************************************************)
EXTENDS Indexer

\* genesis - a1 - a2 - a3, and a fork a1 - b2 - b3.
TreeBlocks == {"g", "a1", "a2", "a3", "b2", "b3"}
TreeAnc == [b \in TreeBlocks |->
    CASE b = "g"  -> {"g"}
      [] b = "a1" -> {"g", "a1"}
      [] b = "a2" -> {"g", "a1", "a2"}
      [] b = "a3" -> {"g", "a1", "a2", "a3"}
      [] b = "b2" -> {"g", "a1", "b2"}
      [] b = "b3" -> {"g", "a1", "b2", "b3"}]

TreeTxs == {"t1", "t2", "t3"}
TreeTxsOf == [b \in TreeBlocks |->
    CASE b = "a1" -> {"t1"}
      [] b = "a2" -> {"t2"}
      [] b = "a3" -> {"t3"}
      [] b = "b3" -> {"t2", "t3"}
      [] OTHER -> {}]
\* No transaction at the same height of both branches.
DisjointTxsOf == [TreeTxsOf EXCEPT !["b3"] = {"t2"}]
TreeSpends == [t \in TreeTxs |->
    CASE t = "t1" -> {}
      [] t = "t2" -> {"t1"}
      [] t = "t3" -> {"t2"}]

\* The tree without a3.
ShortBlocks == TreeBlocks \ {"a3"}
ShortAnc == [b \in ShortBlocks |-> TreeAnc[b]]
ShortTxsOf == [b \in ShortBlocks |-> TreeTxsOf[b]]

LegacyStaleB == {"b3"}
==============================================================================

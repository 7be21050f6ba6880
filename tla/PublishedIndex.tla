---------------------------- MODULE PublishedIndex ----------------------------
(***************************************************************************)
(* What the index promises to the queries that read it: there is always    *)
(* one published chain, every answer is the answer for exactly that chain, *)
(* and the chain changes by adding blocks on top or by removing them from  *)
(* the top, never by both in one step.                                     *)
(***************************************************************************)
EXTENDS BlockTree

VARIABLES
    tip,     \* the last block of the published chain, None before the first
    answers  \* what the history, confirmation and spend lookups return

\* The lookups' results for the chain that ends at b.
ChainAnswers(b) ==
    [rows |-> RowsOf(Chain(b)), conf |-> ConfOf(Chain(b)), edge |-> EdgeOf(Chain(b))]

Publish(b) == tip' = b /\ answers' = ChainAnswers(b)

Init ==
    /\ tip \in Blocks \cup {None}
    /\ answers = ChainAnswers(tip)

Extend == \E b \in Blocks : Chain(tip) \subseteq Anc[b] /\ Publish(b)

Truncate == \E b \in Chain(tip) : Publish(b)

Spec == Init /\ [][Extend \/ Truncate]_<<tip, answers>>
==============================================================================

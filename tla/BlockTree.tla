------------------------------ MODULE BlockTree ------------------------------
(***************************************************************************)
(* The data bitcoind serves: a tree of blocks, the transactions of each    *)
(* block and the outputs each transaction spends.  The tree is given by    *)
(* the chain Anc[b] that every block b ends, genesis and b included, which *)
(* is all that the index ever asks of a header's prev_blockhash.  Every    *)
(* transaction has one output, named by the transaction itself.            *)
(***************************************************************************)
EXTENDS Naturals, FiniteSets

CONSTANTS Blocks, Genesis, Anc, Txs, TxsOf, Spends, None

\* A tree: chains start at genesis, hold the chain of each of their blocks, and
\* every part of a chain has a last block.
ASSUME TreeAssumption ==
    /\ IsFiniteSet(Blocks) /\ Genesis \in Blocks /\ None \notin Blocks
    /\ Anc \in [Blocks -> SUBSET Blocks]
    /\ \A b \in Blocks : b \in Anc[b] /\ Genesis \in Anc[b]
    /\ \A b \in Blocks : \A c \in Anc[b] : Anc[c] \subseteq Anc[b]
    /\ \A b \in Blocks : \A c \in Anc[b] : b \in Anc[c] => b = c
    /\ \A b \in Blocks : \A part \in SUBSET Anc[b] :
          part # {} => \E x \in part : part \subseteq Anc[x]

\* What consensus guarantees: a transaction confirms once per chain, and an
\* input spends an output of its own chain that nothing else there spends.
ASSUME TxAssumption ==
    /\ None \notin Txs \cup Nat \cup (Txs \X Nat)
    /\ TxsOf \in [Blocks -> SUBSET Txs]
    /\ Spends \in [Txs -> SUBSET Txs]
    /\ \A b \in Blocks : \A c, d \in Anc[b] : c # d => TxsOf[c] \cap TxsOf[d] = {}
    /\ \A b \in Blocks : \A t \in TxsOf[b] :
          Spends[t] \subseteq UNION {TxsOf[c] : c \in Anc[b]} \ {t}
    /\ \A b \in Blocks : \A t, u \in UNION {TxsOf[c] : c \in Anc[b]} :
          t # u => Spends[t] \cap Spends[u] = {}

\* The blocks of the chain that ends at b; None is the empty chain's tip.
Chain(b) == IF b = None THEN {} ELSE Anc[b]

\* Height of a block, and the height of the first block after the chain of b.
Height(b) == Cardinality(Anc[b]) - 1
ChainLen(b) == Cardinality(Chain(b))

\* The last block of a set of blocks that lies on one chain.
Top(bs) == CHOOSE x \in bs : bs \subseteq Anc[x]

\* The last block the chains of b and c have in common, None if there is none.
Fork(b, c) == IF Chain(b) \cap Chain(c) = {} THEN None ELSE Top(Chain(b) \cap Chain(c))

\* No chain holds both blocks, so they may hold the same transaction and share rows.
OffBranch(x, b) == x \notin Anc[b] /\ b \notin Anc[x]

\* No transaction confirms at the same height of two branches, so that no two blocks
\* have a history row in common.
HeightsApart ==
    \A x, y \in Blocks : x # y /\ Height(x) = Height(y) => TxsOf[x] \cap TxsOf[y] = {}

OutputsOf(bs) == UNION {TxsOf[b] : b \in bs}
InputsOf(bs) == UNION {Spends[t] : t \in OutputsOf(bs)}

----------------------------------------------------------------------------
(* The history of a chain.  A script-history row (H) is <<height, tx,      *)
(* output>>: the funding row of tx has output None, a spending row names    *)
(* the output tx spends.                                                    *)

\* index_blocks: the H rows of a block.
HistoryRows(b) ==
    UNION {{<<Height(b), t, o>> : o \in Spends[t] \cup {None}} : t \in TxsOf[b]}

RowsOf(bs) == UNION {HistoryRows(b) : b \in bs}

\* The C row of every transaction that confirms in blocks bs, and the S row of
\* every output spent there: one value per key, from any of the blocks, and None
\* where there is no row.
ConfOf(bs) ==
    [t \in Txs |-> IF t \in OutputsOf(bs) THEN Height(CHOOSE b \in bs : t \in TxsOf[b]) ELSE None]

EdgeOf(bs) ==
    LET spenders(o) == {p \in Txs \X bs : p[1] \in TxsOf[p[2]] /\ o \in Spends[p[1]]}
        edge(p) == <<p[1], Height(p[2])>>
    IN  [o \in Txs |-> IF spenders(o) = {} THEN None ELSE edge(CHOOSE p \in spenders(o) : TRUE)]

\* A table after the rows of new are put, and after the rows of keys are deleted.
Put(table, new) == [k \in Txs |-> IF new[k] # None THEN new[k] ELSE table[k]]
Delete(table, keys) == [k \in Txs |-> IF k \in keys THEN None ELSE table[k]]
==============================================================================

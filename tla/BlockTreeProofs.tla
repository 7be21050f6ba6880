--------------------------- MODULE BlockTreeProofs ---------------------------
(***************************************************************************)
(* Proofs about the block tree and the history of a chain, for every tree: *)
(* what the index of blocks of one branch holds under a key is the one     *)
(* value that any of these blocks has for it.                              *)
(***************************************************************************)
EXTENDS BlockTree, FiniteSetTheorems, TLAPS

----------------------------------------------------------------------------
(* Facts about the block tree *)

\* Heights are natural numbers: a chain holds at least its own last block.
LEMMA HeightNat ==
    ASSUME NEW b \in Blocks
    PROVE  Height(b) \in Nat
<1>1. Anc[b] \subseteq Blocks /\ b \in Anc[b]
  BY TreeAssumption
<1>2. IsFiniteSet(Anc[b]) /\ Anc[b] # {}
  BY <1>1, TreeAssumption, FS_Subset
<1>3. Cardinality(Anc[b]) \in Nat /\ Cardinality(Anc[b]) # 0
  BY <1>2, FS_CardinalityType, FS_EmptySet
<1> QED
  BY <1>3 DEF Height

\* The blocks a chain shares with any set of blocks can be counted.
LEMMA CountNat ==
    ASSUME NEW S, S \subseteq Blocks
    PROVE  Cardinality(S) \in Nat
  BY TreeAssumption, FS_Subset, FS_CardinalityType

\* The length of the published chain, HeaderList::len, is a natural number.
LEMMA ChainLenNat ==
    ASSUME NEW b \in Blocks \cup {None}
    PROVE  ChainLen(b) \in Nat
<1>1. Chain(b) \subseteq Blocks
  BY TreeAssumption DEF Chain
<1> QED
  BY <1>1, CountNat DEF ChainLen

\* finish_rewrite up to the number of blocks leaves no height out.
LEMMA HeightBound ==
    ASSUME NEW b \in Blocks
    PROVE  Height(b) <= Cardinality(Blocks)
<1>1. Anc[b] \subseteq Blocks /\ IsFiniteSet(Blocks)
  BY ZenonT(60), TreeAssumption
<1>2. Cardinality(Anc[b]) <= Cardinality(Blocks)
  BY ZenonT(60), <1>1, FS_Subset
<1>3. Cardinality(Anc[b]) \in Nat /\ Cardinality(Blocks) \in Nat
  BY ZenonT(60), <1>1, CountNat
<1> QED
  BY SMTT(60), <1>2, <1>3 DEF Height

\* Top finds the last block of every part of a chain.
LEMMA TopInChain ==
    ASSUME NEW b \in Blocks, NEW part \in SUBSET Anc[b], part # {}
    PROVE  Top(part) \in part /\ part \subseteq Anc[Top(part)]
<1>1. \E x \in part : part \subseteq Anc[x]
  BY TreeAssumption
<1> QED
  BY <1>1 DEF Top

\* The last block of the chain of b is b.
LEMMA TopOfChain ==
    ASSUME NEW b \in Blocks
    PROVE  Top(Anc[b]) = b
<1>1. Anc[b] # {} /\ Anc[b] \in SUBSET Anc[b] /\ b \in Anc[b]
  BY TreeAssumption
<1>2. Top(Anc[b]) \in Anc[b] /\ Anc[b] \subseteq Anc[Top(Anc[b])]
  BY <1>1, TopInChain
<1> QED
  BY <1>1, <1>2, TreeAssumption

\* The common ancestor of two chains ends exactly what they share, and exists as
\* soon as the second is not empty: both start at genesis.
LEMMA ForkIsMeet ==
    ASSUME NEW b \in Blocks, NEW c \in Blocks \cup {None}
    PROVE  /\ Fork(b, c) \in Blocks \cup {None}
           /\ Chain(Fork(b, c)) = Chain(b) \cap Chain(c)
           /\ c # None => Fork(b, c) \in Blocks
<1> DEFINE common == Chain(b) \cap Chain(c)
<1>0. b # None
  BY TreeAssumption
<1>1. common \in SUBSET Anc[b] /\ common \in SUBSET Blocks
  BY <1>0, TreeAssumption DEF Chain
<1>2. CASE c = None
  <2>1. common = {}
    BY <1>2 DEF Chain
  <2> QED
    BY <2>1, <1>2 DEF Fork, Chain
<1>3. CASE c # None
  <2>1. Genesis \in common
    BY <1>3, <1>0, TreeAssumption DEF Chain
  <2>2. Top(common) \in common /\ common \subseteq Anc[Top(common)]
    BY <2>1, <1>1, TopInChain
  <2>3. Top(common) \in Blocks /\ Top(common) # None
    BY <2>2, <1>1, TreeAssumption
  <2>4. Anc[Top(common)] \subseteq common
    BY <2>2, <1>0, <1>3, TreeAssumption DEF Chain
  <2>5. Fork(b, c) = Top(common)
    BY <2>1 DEF Fork
  <2> QED
    BY <2>2, <2>3, <2>4, <2>5 DEF Chain
<1> QED
  BY <1>2, <1>3

\* Of two blocks of a chain, one is on the chain of the other.
LEMMA TwoOfChain ==
    ASSUME NEW b \in Blocks, NEW x \in Anc[b], NEW y \in Anc[b]
    PROVE  x \in Anc[y] \/ y \in Anc[x]
<1> DEFINE both == {x, y}
<1>1. both \in SUBSET Anc[b] /\ both # {}
  OBVIOUS
<1>2. Top(both) \in both /\ both \subseteq Anc[Top(both)]
  BY <1>1, TopInChain
<1> QED
  BY <1>2

\* Two blocks of a chain have different heights.
LEMMA HeightInjective ==
    ASSUME NEW b \in Blocks, NEW x \in Anc[b], NEW y \in Anc[b], Height(x) = Height(y)
    PROVE  x = y
<1>1. ASSUME NEW c \in Blocks, NEW d \in Blocks, c \in Anc[d], Height(c) = Height(d) PROVE c = d
  <2>1. Anc[c] \subseteq Anc[d] /\ Anc[d] \subseteq Blocks
    BY <1>1, TreeAssumption
  <2>2. IsFiniteSet(Anc[d]) /\ IsFiniteSet(Anc[c])
    BY <2>1, TreeAssumption, FS_Subset
  <2>3. Cardinality(Anc[c]) \in Nat /\ Cardinality(Anc[d]) \in Nat
    BY <2>2, FS_CardinalityType
  <2>4. Cardinality(Anc[c]) = Cardinality(Anc[d])
    BY <1>1, <2>3 DEF Height
  <2>5. Anc[c] = Anc[d]
    BY <2>1, <2>2, <2>4, FS_Subset
  <2> QED
    BY <1>1, <2>5, TreeAssumption
<1>2. x \in Blocks /\ y \in Blocks
  BY TreeAssumption
<1> QED
  BY <1>1, <1>2, TwoOfChain

\* A block is not below its ancestors.
LEMMA HeightMonotone ==
    ASSUME NEW b \in Blocks, NEW c \in Anc[b]
    PROVE  Height(c) <= Height(b)
<1>1. Anc[c] \subseteq Anc[b] /\ Anc[b] \subseteq Blocks /\ IsFiniteSet(Blocks)
  BY TreeAssumption
<1>2. IsFiniteSet(Anc[b])
  BY <1>1, FS_Subset
<1>3. Cardinality(Anc[c]) <= Cardinality(Anc[b]) /\ Cardinality(Anc[c]) \in Nat /\ Cardinality(Anc[b]) \in Nat
  BY <1>1, <1>2, FS_Subset, CountNat
<1> QED
  BY <1>3 DEF Height

\* A block of a branch is on the chain of another one exactly when it is below its
\* length (HeaderList::header_by_height finds it).
LEMMA BelowLength ==
    ASSUME NEW b \in Blocks, NEW x \in Anc[b], NEW c \in Anc[b] \cup {None}
    PROVE  x \in Chain(c) <=> Height(x) < ChainLen(c)
<1>1. x \in Blocks /\ Height(x) \in Nat
  BY TreeAssumption, HeightNat
<1>2. CASE c = None
  BY <1>1, <1>2, FS_EmptySet DEF Chain, ChainLen
<1>3. CASE c # None
  <2>1. c \in Blocks /\ c \in Anc[b] /\ Chain(c) = Anc[c] /\ ChainLen(c) = Cardinality(Anc[c])
    BY <1>3, TreeAssumption DEF Chain, ChainLen
  <2>2. /\ IsFiniteSet(Anc[c]) /\ IsFiniteSet(Anc[x])
        /\ Cardinality(Anc[c]) \in Nat /\ Cardinality(Anc[x]) \in Nat
    BY <1>1, <2>1, TreeAssumption, FS_Subset, FS_CardinalityType
  <2>3. ASSUME x \in Anc[c] PROVE Height(x) < ChainLen(c)
    <3>1. Anc[x] \subseteq Anc[c]
      BY <2>1, <2>3, TreeAssumption
    <3>2. Cardinality(Anc[x]) <= Cardinality(Anc[c])
      BY <2>2, <3>1, FS_Subset
    <3> QED
      BY <2>1, <2>2, <3>2 DEF Height
  <2>4. ASSUME x \notin Anc[c] PROVE ~(Height(x) < ChainLen(c))
    <3>1. c \in Anc[x]
      BY <2>1, <2>4, TwoOfChain
    <3>2. Anc[c] \subseteq Anc[x] /\ Anc[c] # Anc[x]
      BY <1>1, <2>4, <3>1, TreeAssumption
    <3>3. Cardinality(Anc[c]) <= Cardinality(Anc[x]) /\ Cardinality(Anc[c]) # Cardinality(Anc[x])
      BY <2>2, <3>2, FS_Subset
    <3> QED
      BY <2>1, <2>2, <3>3 DEF Height
  <2> QED
    BY <2>1, <2>3, <2>4
<1> QED
  BY <1>2, <1>3

----------------------------------------------------------------------------
(* The rows of blocks of one branch *)

\* The C row of a transaction of a branch has the height of the block it is in, and
\* there is none for a transaction of no block.
LEMMA ConfOfBranch ==
    ASSUME NEW b \in Blocks, NEW bs \in SUBSET Anc[b]
    PROVE  /\ \A x \in bs : \A t \in TxsOf[x] : ConfOf(bs)[t] = Height(x)
           /\ \A t \in Txs : t \notin OutputsOf(bs) => ConfOf(bs)[t] = None
           /\ ConfOf(bs) = [t \in Txs |-> ConfOf(bs)[t]]
<1>1. ASSUME NEW x \in bs, NEW t \in TxsOf[x] PROVE ConfOf(bs)[t] = Height(x)
  <2>1. t \in OutputsOf(bs) /\ t \in Txs
    BY TreeAssumption, TxAssumption DEF OutputsOf
  <2>2. PICK y : y = CHOOSE z \in bs : t \in TxsOf[z]
    OBVIOUS
  <2>3. y \in bs /\ t \in TxsOf[y]
    BY <2>2
  <2>4. y = x
    BY <2>3, TxAssumption
  <2>5. ConfOf(bs)[t] = Height(CHOOSE z \in bs : t \in TxsOf[z])
    BY <2>1 DEF ConfOf
  <2> QED
    BY ZenonT(60), <2>2, <2>4, <2>5
<1>2. ASSUME NEW t \in Txs, t \notin OutputsOf(bs) PROVE ConfOf(bs)[t] = None
  BY <1>2 DEF ConfOf
<1>3. ConfOf(bs) = [t \in Txs |-> ConfOf(bs)[t]]
  BY DEF ConfOf
<1> QED
  BY <1>1, <1>2, <1>3

\* The S row of an output spent on a branch has the one transaction that spends it
\* there and its height, and there is none for an output that is not spent.
LEMMA EdgeOfBranch ==
    ASSUME NEW b \in Blocks, NEW bs \in SUBSET Anc[b]
    PROVE  /\ \A x \in bs : \A t \in TxsOf[x] : \A o \in Spends[t] : EdgeOf(bs)[o] = <<t, Height(x)>>
           /\ \A o \in Txs : o \notin InputsOf(bs) => EdgeOf(bs)[o] = None
           /\ EdgeOf(bs) = [o \in Txs |-> EdgeOf(bs)[o]]
<1> DEFINE spenders(o) == {p \in Txs \X bs : p[1] \in TxsOf[p[2]] /\ o \in Spends[p[1]]}
           edge(p) == <<p[1], Height(p[2])>>
<1>1. EdgeOf(bs) = [o \in Txs |-> IF spenders(o) = {} THEN None
                                  ELSE edge(CHOOSE p \in spenders(o) : TRUE)]
  BY DEF EdgeOf
<1>2. ASSUME NEW x \in bs, NEW t \in TxsOf[x], NEW o \in Spends[t] PROVE EdgeOf(bs)[o] = <<t, Height(x)>>
  <2>1. t \in Txs /\ o \in Txs /\ x \in Anc[b] /\ <<t, x>> \in spenders(o)
    BY TreeAssumption, TxAssumption
  <2>2. PICK p : p = CHOOSE q \in spenders(o) : TRUE
    OBVIOUS
  <2>3. p \in spenders(o)
    BY <2>1, <2>2
  <2>4. p[1] \in TxsOf[p[2]] /\ o \in Spends[p[1]] /\ p[2] \in Anc[b]
    BY <2>3
  <2>5. t \in UNION {TxsOf[c] : c \in Anc[b]} /\ p[1] \in UNION {TxsOf[c] : c \in Anc[b]}
    BY <2>1, <2>4
  <2>6. p[1] = t
    BY <2>4, <2>5, TxAssumption
  <2>7. p[2] = x
    BY <2>1, <2>4, <2>6, TxAssumption
  <2>8. EdgeOf(bs)[o] = edge(p)
    <3> HIDE DEF spenders, edge
    <3> QED
      BY <1>1, <2>1, <2>2
  <2> QED
    BY <2>6, <2>7, <2>8
<1>3. ASSUME NEW o \in Txs, o \notin InputsOf(bs) PROVE EdgeOf(bs)[o] = None
  <2>1. spenders(o) = {}
    <3> SUFFICES ASSUME NEW p \in spenders(o) PROVE FALSE
      OBVIOUS
    <3>1. p[2] \in bs /\ p[1] \in TxsOf[p[2]] /\ o \in Spends[p[1]]
      OBVIOUS
    <3>2. p[1] \in OutputsOf(bs)
      BY <3>1 DEF OutputsOf
    <3>3. o \in InputsOf(bs)
      BY <3>1, <3>2 DEF InputsOf
    <3> QED
      BY <1>3, <3>3
  <2> HIDE DEF spenders, edge
  <2> QED
    BY <1>1, <2>1
<1>4. EdgeOf(bs) = [o \in Txs |-> EdgeOf(bs)[o]]
  <2> HIDE DEF spenders, edge
  <2> QED
    BY <1>1
<1> HIDE DEF spenders, edge
<1> QED
  BY <1>2, <1>3, <1>4

\* Blocks of a branch have no transaction and no spent output in common.
LEMMA BranchDisjoint ==
    ASSUME NEW b \in Blocks, NEW as \in SUBSET Anc[b], NEW bs \in SUBSET Anc[b], as \cap bs = {}
    PROVE  /\ OutputsOf(as) \cap OutputsOf(bs) = {} /\ InputsOf(as) \cap InputsOf(bs) = {}
           /\ RowsOf(as) \cap RowsOf(bs) = {}
<1>1. ASSUME NEW x \in as, NEW y \in bs PROVE TxsOf[x] \cap TxsOf[y] = {}
  BY ZenonT(60), TxAssumption
<1>2. OutputsOf(as) \cap OutputsOf(bs) = {}
  <2> SUFFICES ASSUME NEW t, t \in OutputsOf(as), t \in OutputsOf(bs) PROVE FALSE
    BY ZenonT(60)
  <2>1. PICK x \in as : t \in TxsOf[x]
    BY ZenonT(60) DEF OutputsOf
  <2>2. PICK y \in bs : t \in TxsOf[y]
    BY DEF OutputsOf
  <2> QED
    BY ZenonT(60), <1>1, <2>1, <2>2
<1>3. InputsOf(as) \cap InputsOf(bs) = {}
  <2> SUFFICES ASSUME NEW o, o \in InputsOf(as), o \in InputsOf(bs) PROVE FALSE
    BY ZenonT(60)
  <2>a. PICK t \in OutputsOf(as) : o \in Spends[t]
    BY ZenonT(60) DEF InputsOf
  <2>b. PICK u \in OutputsOf(bs) : o \in Spends[u]
    BY DEF InputsOf
  <2>1. t # u
    BY ZenonT(60), <1>2
  <2>2. t \in UNION {TxsOf[c] : c \in Anc[b]} /\ u \in UNION {TxsOf[c] : c \in Anc[b]}
    BY ZenonT(60) DEF OutputsOf
  <2> QED
    BY <2>a, <2>b, <2>1, <2>2, TxAssumption
<1>4. RowsOf(as) \cap RowsOf(bs) = {}
  <2> SUFFICES ASSUME NEW r, r \in RowsOf(as), r \in RowsOf(bs) PROVE FALSE
    BY ZenonT(60)
  <2>a. PICK x \in as : r \in HistoryRows(x)
    BY ZenonT(60) DEF RowsOf
  <2>b. PICK y \in bs : r \in HistoryRows(y)
    BY DEF RowsOf
  <2>1. r[1] = Height(x) /\ r[1] = Height(y)
    BY <2>a, <2>b DEF HistoryRows
  <2>2. x = y
    BY ZenonT(60), <2>1, HeightInjective
  <2> QED
    BY ZenonT(60), <2>2
<1> QED
  BY ZenonT(60), <1>2, <1>3, <1>4

----------------------------------------------------------------------------
(* The C and S tables of blocks of one branch *)

\* Indexer::index puts the C rows of further blocks of a branch.
LEMMA PutConf ==
    ASSUME NEW b \in Blocks, NEW as \in SUBSET Anc[b], NEW bs \in SUBSET Anc[b]
    PROVE  Put(ConfOf(as), ConfOf(bs)) = ConfOf(as \cup bs)
<1>1. PICK cs \in SUBSET Anc[b] : cs = as \cup bs
  BY ZenonT(60)
<1>2a. \A x \in as : \A t \in TxsOf[x] : ConfOf(as)[t] = Height(x)
  BY ZenonT(60), ConfOfBranch
<1>2b. \A t \in Txs : t \notin OutputsOf(as) => ConfOf(as)[t] = None
  BY ZenonT(60), ConfOfBranch
<1>2c. ConfOf(as) = [t \in Txs |-> ConfOf(as)[t]]
  BY ZenonT(60), ConfOfBranch
<1>3a. \A x \in bs : \A t \in TxsOf[x] : ConfOf(bs)[t] = Height(x)
  BY ConfOfBranch
<1>3b. \A t \in Txs : t \notin OutputsOf(bs) => ConfOf(bs)[t] = None
  BY ConfOfBranch
<1>3c. ConfOf(bs) = [t \in Txs |-> ConfOf(bs)[t]]
  BY ConfOfBranch
<1>4a. \A x \in cs : \A t \in TxsOf[x] : ConfOf(cs)[t] = Height(x)
  BY ConfOfBranch
<1>4b. \A t \in Txs : t \notin OutputsOf(cs) => ConfOf(cs)[t] = None
  BY ConfOfBranch
<1>4c. ConfOf(cs) = [t \in Txs |-> ConfOf(cs)[t]]
  BY ConfOfBranch
<1>5. \A x \in bs : \A t \in TxsOf[x] : ConfOf(bs)[t] = ConfOf(cs)[t] /\ ConfOf(bs)[t] # None
  <2> SUFFICES ASSUME NEW x \in bs, NEW t \in TxsOf[x] PROVE ConfOf(bs)[t] = ConfOf(cs)[t] /\ ConfOf(bs)[t] # None
    OBVIOUS
  <2>1. x \in cs /\ x \in Blocks
    BY ZenonT(60), <1>1, TreeAssumption
  <2>2. ConfOf(bs)[t] = Height(x)
    BY ZenonT(60), <1>3a
  <2>3. ConfOf(cs)[t] = Height(x)
    BY ZenonT(60), <1>4a, <2>1
  <2>4. Height(x) \in Nat /\ t \in Txs
    BY ZenonT(60), <2>1, HeightNat, TxAssumption
  <2>5. Height(x) # None
    BY ZenonT(60), <2>4, TxAssumption
  <2> QED
    BY ZenonT(60), <2>2, <2>3, <2>5
<1>6. \A x \in as : \A t \in TxsOf[x] : ConfOf(as)[t] = ConfOf(cs)[t]
  <2> SUFFICES ASSUME NEW x \in as, NEW t \in TxsOf[x] PROVE ConfOf(as)[t] = ConfOf(cs)[t]
    BY ZenonT(60)
  <2>1. x \in cs
    BY ZenonT(60), <1>1
  <2>2. ConfOf(as)[t] = Height(x)
    BY ZenonT(60), <1>2a
  <2>3. ConfOf(cs)[t] = Height(x)
    BY ZenonT(60), <1>4a, <2>1
  <2> QED
    BY ZenonT(60), <2>2, <2>3
<1>7. ASSUME NEW t \in Txs PROVE Put(ConfOf(as), ConfOf(bs))[t] = ConfOf(cs)[t]
  <2>1. Put(ConfOf(as), ConfOf(bs))[t] = IF ConfOf(bs)[t] # None THEN ConfOf(bs)[t] ELSE ConfOf(as)[t]
    BY ZenonT(60) DEF Put
  <2>2. CASE t \in OutputsOf(bs)
    <3>1. PICK x \in bs : t \in TxsOf[x]
      BY ZenonT(60), <2>2 DEF OutputsOf
    <3> QED
      BY ZenonT(60), <1>5, <3>1, <2>1
  <2>3. CASE t \notin OutputsOf(bs) /\ t \in OutputsOf(as)
    <3>1. PICK x \in as : t \in TxsOf[x]
      BY ZenonT(60), <2>3 DEF OutputsOf
    <3> QED
      BY ZenonT(60), <1>3b, <1>6, <3>1, <2>1, <2>3
  <2>4. CASE t \notin OutputsOf(bs) /\ t \notin OutputsOf(as)
    <3>1. t \notin OutputsOf(cs)
      BY ZenonT(60), <1>1, <2>4 DEF OutputsOf
    <3> QED
      BY ZenonT(60), <1>2b, <1>3b, <1>4b, <2>1, <2>4, <3>1
  <2> QED
    BY ZenonT(60), <2>2, <2>3, <2>4
<1>8. Put(ConfOf(as), ConfOf(bs)) = [t \in Txs |-> Put(ConfOf(as), ConfOf(bs))[t]]
  BY ZenonT(60) DEF Put
<1> QED
  BY ZenonT(60), <1>1, <1>4c, <1>7, <1>8

\* Indexer::index puts the S rows of further blocks of a branch.
LEMMA PutEdge ==
    ASSUME NEW b \in Blocks, NEW as \in SUBSET Anc[b], NEW bs \in SUBSET Anc[b]
    PROVE  Put(EdgeOf(as), EdgeOf(bs)) = EdgeOf(as \cup bs)
<1>1. PICK cs \in SUBSET Anc[b] : cs = as \cup bs
  BY ZenonT(60)
<1>2a. \A x \in as : \A t \in TxsOf[x] : \A o \in Spends[t] : EdgeOf(as)[o] = <<t, Height(x)>>
  BY ZenonT(60), EdgeOfBranch
<1>2b. \A o \in Txs : o \notin InputsOf(as) => EdgeOf(as)[o] = None
  BY ZenonT(60), EdgeOfBranch
<1>2c. EdgeOf(as) = [o \in Txs |-> EdgeOf(as)[o]]
  BY ZenonT(60), EdgeOfBranch
<1>3a. \A x \in bs : \A t \in TxsOf[x] : \A o \in Spends[t] : EdgeOf(bs)[o] = <<t, Height(x)>>
  BY EdgeOfBranch
<1>3b. \A o \in Txs : o \notin InputsOf(bs) => EdgeOf(bs)[o] = None
  BY EdgeOfBranch
<1>3c. EdgeOf(bs) = [o \in Txs |-> EdgeOf(bs)[o]]
  BY EdgeOfBranch
<1>4a. \A x \in cs : \A t \in TxsOf[x] : \A o \in Spends[t] : EdgeOf(cs)[o] = <<t, Height(x)>>
  BY EdgeOfBranch
<1>4b. \A o \in Txs : o \notin InputsOf(cs) => EdgeOf(cs)[o] = None
  BY EdgeOfBranch
<1>4c. EdgeOf(cs) = [o \in Txs |-> EdgeOf(cs)[o]]
  BY EdgeOfBranch
<1>5. \A x \in bs : \A t \in TxsOf[x] : \A o \in Spends[t] : EdgeOf(bs)[o] = EdgeOf(cs)[o] /\ EdgeOf(bs)[o] # None
  <2> SUFFICES ASSUME NEW x \in bs, NEW t \in TxsOf[x], NEW o \in Spends[t] PROVE EdgeOf(bs)[o] = EdgeOf(cs)[o] /\ EdgeOf(bs)[o] # None
    OBVIOUS
  <2>1. x \in cs /\ x \in Blocks
    BY ZenonT(60), <1>1, TreeAssumption
  <2>2. EdgeOf(bs)[o] = <<t, Height(x)>>
    BY ZenonT(60), <1>3a
  <2>3. EdgeOf(cs)[o] = <<t, Height(x)>>
    BY ZenonT(60), <1>4a, <2>1
  <2>4. Height(x) \in Nat /\ t \in Txs
    BY ZenonT(60), <2>1, HeightNat, TxAssumption
  <2>5. <<t, Height(x)>> # None
    <3>1. <<t, Height(x)>> \in Txs \X Nat
      BY <2>4
    <3>2. None \notin Txs \X Nat
      BY TxAssumption
    <3> QED
      BY ZenonT(60), <3>1, <3>2
  <2> QED
    BY ZenonT(60), <2>2, <2>3, <2>5
<1>6. \A x \in as : \A t \in TxsOf[x] : \A o \in Spends[t] : EdgeOf(as)[o] = EdgeOf(cs)[o]
  <2> SUFFICES ASSUME NEW x \in as, NEW t \in TxsOf[x], NEW o \in Spends[t] PROVE EdgeOf(as)[o] = EdgeOf(cs)[o]
    BY ZenonT(60)
  <2>1. x \in cs
    BY ZenonT(60), <1>1
  <2>2. EdgeOf(as)[o] = <<t, Height(x)>>
    BY ZenonT(60), <1>2a
  <2>3. EdgeOf(cs)[o] = <<t, Height(x)>>
    BY ZenonT(60), <1>4a, <2>1
  <2> QED
    BY ZenonT(60), <2>2, <2>3
<1>7. ASSUME NEW o \in Txs PROVE Put(EdgeOf(as), EdgeOf(bs))[o] = EdgeOf(cs)[o]
  <2>1. Put(EdgeOf(as), EdgeOf(bs))[o] = IF EdgeOf(bs)[o] # None THEN EdgeOf(bs)[o] ELSE EdgeOf(as)[o]
    BY ZenonT(60) DEF Put
  <2>2. CASE o \in InputsOf(bs)
    <3>1. PICK t \in OutputsOf(bs) : o \in Spends[t]
      BY ZenonT(60), <2>2 DEF InputsOf
    <3>2. PICK x \in bs : t \in TxsOf[x]
      BY ZenonT(60), <3>1 DEF OutputsOf
    <3> QED
      BY ZenonT(60), <1>5, <3>1, <3>2, <2>1
  <2>3. CASE o \notin InputsOf(bs) /\ o \in InputsOf(as)
    <3>1. PICK t \in OutputsOf(as) : o \in Spends[t]
      BY ZenonT(60), <2>3 DEF InputsOf
    <3>2. PICK x \in as : t \in TxsOf[x]
      BY ZenonT(60), <3>1 DEF OutputsOf
    <3> QED
      BY ZenonT(60), <1>3b, <1>6, <3>1, <3>2, <2>1, <2>3
  <2>4. CASE o \notin InputsOf(bs) /\ o \notin InputsOf(as)
    <3>1. o \notin InputsOf(cs)
      <4> SUFFICES ASSUME NEW x \in cs, NEW t \in TxsOf[x] PROVE o \notin Spends[t]
        BY ZenonT(60) DEF InputsOf, OutputsOf
      <4>1. x \in as \/ x \in bs
        BY ZenonT(60), <1>1
      <4> QED
        BY ZenonT(60), <4>1, <2>4 DEF InputsOf, OutputsOf
    <3> QED
      BY ZenonT(60), <1>2b, <1>3b, <1>4b, <2>1, <2>4, <3>1
  <2> QED
    BY ZenonT(60), <2>2, <2>3, <2>4
<1>8. Put(EdgeOf(as), EdgeOf(bs)) = [o \in Txs |-> Put(EdgeOf(as), EdgeOf(bs))[o]]
  BY ZenonT(60) DEF Put
<1> QED
  BY ZenonT(60), <1>1, <1>4c, <1>7, <1>8

\* Of the C rows of a branch, a deletion that names all the keys of some blocks
\* and none of the others leaves those of the others.
LEMMA DeleteConf ==
    ASSUME NEW b \in Blocks, NEW as \in SUBSET Anc[b], NEW cs \in SUBSET as, NEW keys,
           keys \cap OutputsOf(cs) = {}, \A t \in OutputsOf(as) : t \in keys \/ t \in OutputsOf(cs)
    PROVE  Delete(ConfOf(as), keys) = ConfOf(cs)
<1>1. cs \in SUBSET Anc[b]
  BY ZenonT(60)
<1>2. \A x \in as : \A t \in TxsOf[x] : ConfOf(as)[t] = Height(x)
  BY ZenonT(60), ConfOfBranch
<1>3. \A x \in cs : \A t \in TxsOf[x] : ConfOf(cs)[t] = Height(x)
  BY ZenonT(60), <1>1, ConfOfBranch
<1>4. \A t \in Txs : t \notin OutputsOf(as) => ConfOf(as)[t] = None
  BY ZenonT(60), ConfOfBranch
<1>5. \A t \in Txs : t \notin OutputsOf(cs) => ConfOf(cs)[t] = None
  BY ZenonT(60), <1>1, ConfOfBranch
<1>6. ConfOf(cs) = [t \in Txs |-> ConfOf(cs)[t]]
  BY ZenonT(60), <1>1, ConfOfBranch
<1>7. ASSUME NEW t \in Txs PROVE Delete(ConfOf(as), keys)[t] = ConfOf(cs)[t]
  <2>1. Delete(ConfOf(as), keys)[t] = IF t \in keys THEN None ELSE ConfOf(as)[t]
    BY ZenonT(60) DEF Delete
  <2>2. CASE t \in OutputsOf(cs)
    <3>1. PICK x \in cs : t \in TxsOf[x]
      BY ZenonT(60), <2>2 DEF OutputsOf
    <3>3. x \in as /\ t \notin keys
      BY ZenonT(60), <2>2
    <3>4. ConfOf(as)[t] = Height(x)
      BY ZenonT(60), <1>2, <3>1, <3>3
    <3>5. ConfOf(cs)[t] = Height(x)
      BY ZenonT(60), <1>3, <3>1
    <3> QED
      BY ZenonT(60), <2>1, <3>3, <3>4, <3>5
  <2>3. CASE t \notin OutputsOf(cs)
    BY ZenonT(60), <1>4, <1>5, <2>1, <2>3
  <2> QED
    BY ZenonT(60), <2>2, <2>3
<1>8. Delete(ConfOf(as), keys) = [t \in Txs |-> Delete(ConfOf(as), keys)[t]]
  BY ZenonT(60) DEF Delete
<1> QED
  BY ZenonT(60), <1>6, <1>7, <1>8

\* Of the S rows of a branch, a deletion that names all the keys of some blocks
\* and none of the others leaves those of the others.
LEMMA DeleteEdge ==
    ASSUME NEW b \in Blocks, NEW as \in SUBSET Anc[b], NEW cs \in SUBSET as, NEW keys,
           keys \cap InputsOf(cs) = {}, \A o \in InputsOf(as) : o \in keys \/ o \in InputsOf(cs)
    PROVE  Delete(EdgeOf(as), keys) = EdgeOf(cs)
<1>1. cs \in SUBSET Anc[b]
  BY ZenonT(60)
<1>2. \A x \in as : \A t \in TxsOf[x] : \A o \in Spends[t] : EdgeOf(as)[o] = <<t, Height(x)>>
  BY ZenonT(60), EdgeOfBranch
<1>3. \A x \in cs : \A t \in TxsOf[x] : \A o \in Spends[t] : EdgeOf(cs)[o] = <<t, Height(x)>>
  BY ZenonT(60), <1>1, EdgeOfBranch
<1>4. \A o \in Txs : o \notin InputsOf(as) => EdgeOf(as)[o] = None
  BY ZenonT(60), EdgeOfBranch
<1>5. \A o \in Txs : o \notin InputsOf(cs) => EdgeOf(cs)[o] = None
  BY ZenonT(60), <1>1, EdgeOfBranch
<1>6. EdgeOf(cs) = [o \in Txs |-> EdgeOf(cs)[o]]
  BY ZenonT(60), <1>1, EdgeOfBranch
<1>7. ASSUME NEW o \in Txs PROVE Delete(EdgeOf(as), keys)[o] = EdgeOf(cs)[o]
  <2>1. Delete(EdgeOf(as), keys)[o] = IF o \in keys THEN None ELSE EdgeOf(as)[o]
    BY ZenonT(60) DEF Delete
  <2>2. CASE o \in InputsOf(cs)
    <3>1. PICK t \in OutputsOf(cs) : o \in Spends[t]
      BY ZenonT(60), <2>2 DEF InputsOf
    <3>2. PICK x \in cs : t \in TxsOf[x]
      BY ZenonT(60), <3>1 DEF OutputsOf
    <3>3. x \in as /\ o \notin keys
      BY ZenonT(60), <2>2
    <3>4. EdgeOf(as)[o] = <<t, Height(x)>>
      BY ZenonT(60), <1>2, <3>1, <3>2, <3>3
    <3>5. EdgeOf(cs)[o] = <<t, Height(x)>>
      BY ZenonT(60), <1>3, <3>1, <3>2
    <3> QED
      BY ZenonT(60), <2>1, <3>3, <3>4, <3>5
  <2>3. CASE o \notin InputsOf(cs)
    BY ZenonT(60), <1>4, <1>5, <2>1, <2>3
  <2> QED
    BY ZenonT(60), <2>2, <2>3
<1>8. Delete(EdgeOf(as), keys) = [o \in Txs |-> Delete(EdgeOf(as), keys)[o]]
  BY ZenonT(60) DEF Delete
<1> QED
  BY ZenonT(60), <1>6, <1>7, <1>8

----------------------------------------------------------------------------
(* What the lookups find in the index of one branch *)

\* The history scans skip exactly the rows of the blocks above the published tip.
LEMMA VisibleRows ==
    ASSUME NEW b \in Blocks, NEW ht \in Anc[b] \cup {None}, NEW us \in SUBSET Anc[b],
           NEW rows, RowsOf(Chain(ht)) \subseteq rows, rows \subseteq RowsOf(us)
    PROVE  {r \in rows : r[1] < ChainLen(ht)} = RowsOf(Chain(ht))
<1>1. \A x \in Anc[b] : x \in Chain(ht) <=> Height(x) < ChainLen(ht)
  BY ZenonT(60), BelowLength
<1>2. ASSUME NEW r \in rows, r[1] < ChainLen(ht) PROVE r \in RowsOf(Chain(ht))
  <2>1. PICK x \in us : r \in HistoryRows(x)
    BY ZenonT(60) DEF RowsOf
  <2>2. r[1] = Height(x)
    BY <2>1 DEF HistoryRows
  <2>3. x \in Chain(ht)
    BY ZenonT(60), <1>1, <1>2, <2>2
  <2> QED
    BY ZenonT(60), <2>1, <2>3 DEF RowsOf
<1>3. ASSUME NEW r \in RowsOf(Chain(ht)) PROVE r \in rows /\ r[1] < ChainLen(ht)
  <2>1. PICK x \in Chain(ht) : r \in HistoryRows(x)
    BY ZenonT(60) DEF RowsOf
  <2>2. r[1] = Height(x)
    BY <2>1 DEF HistoryRows
  <2>3. x \in Anc[b]
    BY ZenonT(60), TreeAssumption DEF Chain
  <2>4. Height(x) < ChainLen(ht)
    BY ZenonT(60), <1>1, <2>3
  <2>5. r \in rows
    BY ZenonT(60)
  <2> QED
    BY ZenonT(60), <2>2, <2>4, <2>5
<1> QED
  BY ZenonT(60), <1>2, <1>3

\* tx_confirming_block skips exactly the C rows of the blocks above the published
\* tip.
LEMMA VisibleConf ==
    ASSUME NEW b \in Blocks, NEW as \in SUBSET Anc[b],
           NEW ht \in Anc[b] \cup {None}, Chain(ht) \subseteq as
    PROVE  Delete(ConfOf(as), {t \in Txs : ConfOf(as)[t] # None /\ ~(ConfOf(as)[t] < ChainLen(ht))})
             = ConfOf(Chain(ht))
<1> DEFINE keys == {t \in Txs : ConfOf(as)[t] # None /\ ~(ConfOf(as)[t] < ChainLen(ht))}
<1>1. \A x \in Anc[b] : x \in Chain(ht) <=> Height(x) < ChainLen(ht)
  BY ZenonT(60), BelowLength
<1>2. \A x \in as : \A t \in TxsOf[x] : ConfOf(as)[t] = Height(x)
  BY ZenonT(60), ConfOfBranch
<1>3. keys \cap OutputsOf(Chain(ht)) = {}
  <2> SUFFICES ASSUME NEW x \in Chain(ht), NEW t \in TxsOf[x] PROVE t \notin keys
    BY ZenonT(60) DEF OutputsOf
  <2>1. x \in as /\ x \in Anc[b]
    BY ZenonT(60)
  <2>2. ConfOf(as)[t] = Height(x) /\ Height(x) < ChainLen(ht)
    BY ZenonT(60), <1>1, <1>2, <2>1
  <2> QED
    BY ZenonT(60), <2>2
<1>4. \A t \in OutputsOf(as) : t \in keys \/ t \in OutputsOf(Chain(ht))
  <2> SUFFICES ASSUME NEW x \in as, NEW t \in TxsOf[x], x \notin Chain(ht) PROVE t \in keys
    BY ZenonT(60) DEF OutputsOf
  <2>1. x \in Anc[b] /\ x \in Blocks /\ t \in Txs
    BY ZenonT(60), TreeAssumption, TxAssumption
  <2>2. Height(x) # None
    BY <2>1, HeightNat, TxAssumption
  <2>3. ConfOf(as)[t] = Height(x) /\ ~(Height(x) < ChainLen(ht))
    BY ZenonT(60), <1>1, <1>2, <2>1
  <2> QED
    BY ZenonT(60), <2>1, <2>2, <2>3
<1> HIDE DEF keys
<1>5. Chain(ht) \in SUBSET as
  BY ZenonT(60)
<1>6. Delete(ConfOf(as), keys) = ConfOf(Chain(ht))
  BY ZenonT(60), <1>3, <1>4, <1>5, DeleteConf
<1> QED
  BY ZenonT(60), <1>6 DEF keys

\* lookup_spend skips exactly the S rows of the blocks above the published tip.
LEMMA VisibleEdge ==
    ASSUME NEW b \in Blocks, NEW as \in SUBSET Anc[b],
           NEW ht \in Anc[b] \cup {None}, Chain(ht) \subseteq as
    PROVE  Delete(EdgeOf(as), {o \in Txs : EdgeOf(as)[o] # None /\ ~(EdgeOf(as)[o][2] < ChainLen(ht))})
             = EdgeOf(Chain(ht))
<1> DEFINE keys == {o \in Txs : EdgeOf(as)[o] # None /\ ~(EdgeOf(as)[o][2] < ChainLen(ht))}
<1>1. \A x \in Anc[b] : x \in Chain(ht) <=> Height(x) < ChainLen(ht)
  BY ZenonT(60), BelowLength
<1>2. \A x \in as : \A t \in TxsOf[x] : \A o \in Spends[t] : EdgeOf(as)[o] = <<t, Height(x)>>
  BY ZenonT(60), EdgeOfBranch
<1>3. keys \cap InputsOf(Chain(ht)) = {}
  <2> HIDE DEF keys
  <2> SUFFICES ASSUME NEW x \in Chain(ht), NEW t \in TxsOf[x], NEW o \in Spends[t] PROVE o \notin keys
    BY ZenonT(60) DEF InputsOf, OutputsOf
  <2> USE DEF keys
  <2>1. x \in as /\ x \in Anc[b]
    BY ZenonT(60)
  <2>2. EdgeOf(as)[o] = <<t, Height(x)>>
    BY ZenonT(60), <1>2, <2>1
  <2>3. EdgeOf(as)[o][2] = Height(x)
    BY <2>2
  <2>4. Height(x) < ChainLen(ht)
    BY ZenonT(60), <1>1, <2>1
  <2> QED
    BY ZenonT(60), <2>3, <2>4
<1>4. \A o \in InputsOf(as) : o \in keys \/ o \in InputsOf(Chain(ht))
  <2> HIDE DEF keys
  <2> SUFFICES ASSUME NEW x \in as, NEW t \in TxsOf[x], NEW o \in Spends[t], x \notin Chain(ht)
               PROVE  o \in keys
    BY ZenonT(60) DEF InputsOf, OutputsOf
  <2> USE DEF keys
  <2>1. x \in Anc[b] /\ x \in Blocks /\ t \in Txs /\ o \in Txs
    BY ZenonT(60), TreeAssumption, TxAssumption
  <2>2. <<t, Height(x)>> \in Txs \X Nat
    BY <2>1, HeightNat
  <2>3. <<t, Height(x)>> # None
    BY ZenonT(60), <2>2, TxAssumption
  <2>4. EdgeOf(as)[o] = <<t, Height(x)>>
    BY ZenonT(60), <1>2, <2>1
  <2>5. EdgeOf(as)[o][2] = Height(x)
    BY <2>4
  <2>6. ~(Height(x) < ChainLen(ht))
    BY ZenonT(60), <1>1, <2>1
  <2> QED
    BY ZenonT(60), <2>1, <2>3, <2>4, <2>5, <2>6
<1> HIDE DEF keys
<1>5. Chain(ht) \in SUBSET as
  BY ZenonT(60)
<1>6. Delete(EdgeOf(as), keys) = EdgeOf(Chain(ht))
  BY ZenonT(60), <1>3, <1>4, <1>5, DeleteEdge
<1> QED
  BY ZenonT(60), <1>6 DEF keys

----------------------------------------------------------------------------
(* The rows of blocks of several branches *)

\* fork_height: chains that end below a block are no longer than its height.
LEMMA BelowBlock ==
    ASSUME NEW b \in Blocks, NEW S, S \subseteq Anc[b] \ {b}
    PROVE  Cardinality(S) <= Height(b)
<1>1. Anc[b] \subseteq Blocks /\ b \in Anc[b] /\ IsFiniteSet(Blocks)
  BY ZenonT(60), TreeAssumption
<1>2. IsFiniteSet(Anc[b])
  BY ZenonT(60), <1>1, FS_Subset
<1>3. IsFiniteSet(Anc[b] \ {b}) /\ Cardinality(Anc[b] \ {b}) = Cardinality(Anc[b]) - 1
  BY SMTT(60), <1>1, <1>2, FS_RemoveElement
<1>4. Cardinality(S) <= Cardinality(Anc[b] \ {b})
  BY ZenonT(60), <1>3, FS_Subset
<1> QED
  BY SMTT(60), <1>3, <1>4 DEF Height

\* fork_height of a block that the chain of ht does not hold, against the height of a
\* block of that chain that is off its branch, and against its own height.
LEMMA ForkBelow ==
    ASSUME NEW ht \in Blocks \cup {None}, NEW x \in Blocks
    PROVE  /\ \A b \in Chain(ht) : b \notin Anc[x] => Cardinality(Anc[x] \cap Chain(ht)) <= Height(b)
           /\ x \notin Chain(ht) => Cardinality(Anc[x] \cap Chain(ht)) <= Height(x)
<1>1. ASSUME NEW b \in Chain(ht), b \notin Anc[x] PROVE Cardinality(Anc[x] \cap Chain(ht)) <= Height(b)
  <2>1. ht \in Blocks /\ Chain(ht) = Anc[ht] /\ b \in Blocks
    BY ZenonT(60), <1>1, TreeAssumption DEF Chain
  <2>2. ASSUME NEW c \in Anc[x], c \in Chain(ht) PROVE c \in Anc[b] \ {b}
    <3>1. c \in Anc[b] \/ b \in Anc[c]
      BY ZenonT(60), <1>1, <2>1, <2>2, TwoOfChain
    <3>2. Anc[c] \subseteq Anc[x]
      BY ZenonT(60), TreeAssumption
    <3> QED
      BY ZenonT(60), <1>1, <3>1, <3>2
  <2>3. PICK S : S = Anc[x] \cap Chain(ht)
    BY ZenonT(60)
  <2>4. S \subseteq Anc[b] \ {b}
    BY ZenonT(60), <2>2, <2>3
  <2> QED
    BY ZenonT(60), <2>1, <2>3, <2>4, BelowBlock
<1>2. ASSUME x \notin Chain(ht) PROVE Cardinality(Anc[x] \cap Chain(ht)) <= Height(x)
  <2>1. PICK S : S = Anc[x] \cap Chain(ht)
    BY ZenonT(60)
  <2>2. S \subseteq Anc[x] \ {x}
    BY ZenonT(60), <1>2, <2>1
  <2> QED
    BY ZenonT(60), <2>1, <2>2, BelowBlock
<1> QED
  BY ZenonT(60), <1>1, <1>2

\* A block above the common ancestor of a reorg has at least the height R is set to.
LEMMA AboveFork ==
    ASSUME NEW b \in Blocks, NEW f \in Anc[b], f # b
    PROVE  ChainLen(f) <= Height(b)
<1>1. f \in Blocks /\ Chain(f) = Anc[f] /\ Anc[f] \subseteq Anc[b]
  BY SMTT(60), TreeAssumption DEF Chain
<1>2. b \notin Anc[f]
  BY ZenonT(60), <1>1, TreeAssumption
<1>3. Chain(f) \subseteq Anc[b] \ {b}
  BY ZenonT(60), <1>1, <1>2
<1> QED
  BY ZenonT(60), <1>3, BelowBlock DEF ChainLen

\* Two blocks with a C or an S row in common are on no common chain.
LEMMA SharedOffBranch ==
    ASSUME NEW x \in Blocks, NEW b \in Blocks, NEW t \in TxsOf[x], NEW u \in TxsOf[b],
           t = u \/ Spends[t] \cap Spends[u] # {}, x # b
    PROVE  OffBranch(x, b)
<1>1. ASSUME NEW c \in Blocks, x \in Anc[c], b \in Anc[c] PROVE FALSE
  <2>1. TxsOf[x] \cap TxsOf[b] = {}
    BY ZenonT(60), <1>1, TxAssumption
  <2>2. t # u
    BY ZenonT(60), <2>1
  <2>3. t \in UNION {TxsOf[d] : d \in Anc[c]} /\ u \in UNION {TxsOf[d] : d \in Anc[c]}
    BY ZenonT(60), <1>1
  <2>4. Spends[t] \cap Spends[u] = {}
    BY ZenonT(60), <2>2, <2>3, TxAssumption
  <2> QED
    BY ZenonT(60), <2>2, <2>4
<1>2. x \in Anc[x] /\ b \in Anc[b]
  BY ZenonT(60), TreeAssumption
<1> QED
  BY ZenonT(60), <1>1, <1>2 DEF OffBranch

\* An output is spent by one transaction of a block.
LEMMA OneSpender ==
    ASSUME NEW b \in Blocks, NEW t \in TxsOf[b], NEW u \in TxsOf[b], NEW o \in Spends[t], o \in Spends[u]
    PROVE  t = u
<1>1. b \in Anc[b]
  BY ZenonT(60), TreeAssumption
<1>2. t \in UNION {TxsOf[d] : d \in Anc[b]} /\ u \in UNION {TxsOf[d] : d \in Anc[b]}
  BY ZenonT(60), <1>1
<1> QED
  BY ZenonT(60), <1>2, TxAssumption

\* build_single_value_rows: a C row has the height of one of the blocks.
LEMMA ConfChosen ==
    ASSUME NEW bs \in SUBSET Blocks, NEW t \in Txs
    PROVE  \/ t \notin OutputsOf(bs) /\ ConfOf(bs)[t] = None
           \/ \E x \in bs : t \in TxsOf[x] /\ ConfOf(bs)[t] = Height(x)
<1>1. CASE t \in OutputsOf(bs)
  <2>1. \E x \in bs : t \in TxsOf[x]
    BY ZenonT(60), <1>1 DEF OutputsOf
  <2>2. PICK x \in bs : t \in TxsOf[x] /\ x = CHOOSE y \in bs : t \in TxsOf[y]
    BY ZenonT(60), <2>1
  <2>3. ConfOf(bs)[t] = Height(x)
    BY ZenonT(60), <1>1, <2>2 DEF ConfOf
  <2> QED
    BY ZenonT(60), <2>2, <2>3
<1>2. CASE t \notin OutputsOf(bs)
  BY ZenonT(60), <1>2 DEF ConfOf
<1> QED
  BY ZenonT(60), <1>1, <1>2

\* build_single_value_rows: an S row names a spender of one of the blocks.
LEMMA EdgeChosen ==
    ASSUME NEW bs \in SUBSET Blocks, NEW o \in Txs
    PROVE  \/ o \notin InputsOf(bs) /\ EdgeOf(bs)[o] = None
           \/ \E x \in bs : \E t \in TxsOf[x] : o \in Spends[t] /\ EdgeOf(bs)[o] = <<t, Height(x)>>
<1> DEFINE spenders == {p \in Txs \X bs : p[1] \in TxsOf[p[2]] /\ o \in Spends[p[1]]}
<1>1. EdgeOf(bs)[o] = IF spenders = {} THEN None
                      ELSE <<(CHOOSE p \in spenders : TRUE)[1], Height((CHOOSE p \in spenders : TRUE)[2])>>
  BY ZenonT(60) DEF EdgeOf
<1>2. CASE spenders = {}
  <2>1. ASSUME o \in InputsOf(bs) PROVE FALSE
    <3>1. PICK x \in bs, t \in Txs : t \in TxsOf[x] /\ o \in Spends[t]
      <4>1. PICK t \in OutputsOf(bs) : o \in Spends[t]
        BY ZenonT(60), <2>1 DEF InputsOf
      <4>2. PICK x \in bs : t \in TxsOf[x]
        BY ZenonT(60) DEF OutputsOf
      <4>3. t \in Txs
        BY ZenonT(60), <4>2, TxAssumption
      <4> QED
        BY ZenonT(60), <4>1, <4>2, <4>3
    <3>2. <<t, x>> \in spenders
      BY SMTT(60), <3>1
    <3> QED
      BY ZenonT(60), <1>2, <3>2
  <2> QED
    BY ZenonT(60), <1>1, <1>2, <2>1
<1>3. CASE spenders # {}
  <2>1. PICK p \in spenders : p = CHOOSE q \in spenders : TRUE
    BY ZenonT(60), <1>3
  <2>2. p[2] \in bs /\ p[1] \in TxsOf[p[2]] /\ o \in Spends[p[1]]
    BY SMTT(60)
  <2>3. EdgeOf(bs)[o] = <<p[1], Height(p[2])>>
    BY ZenonT(60), <1>1, <1>3, <2>1
  <2> HIDE DEF spenders
  <2> QED
    BY ZenonT(60), <2>2, <2>3
<1> QED
  BY ZenonT(60), <1>2, <1>3

\* DB::write_rows with the C rows of blocks: a block of them, or one whose rows were
\* right, has the right rows then unless one of the blocks is off its branch.
LEMMA PutConfRight ==
    ASSUME NEW b \in Blocks, NEW bs \in SUBSET Blocks, NEW conf,
           b \in bs \/ \A t \in TxsOf[b] : conf[t] = Height(b),
           \A x \in bs : ~OffBranch(x, b)
    PROVE  \A t \in TxsOf[b] : Put(conf, ConfOf(bs))[t] = Height(b)
<1> TAKE t \in TxsOf[b]
<1>1. t \in Txs /\ None \notin Nat
  BY ZenonT(60), TxAssumption
<1>2. ASSUME NEW x \in bs, t \in TxsOf[x] PROVE x = b
  BY ZenonT(60), <1>2, SharedOffBranch
<1>3. Put(conf, ConfOf(bs))[t] = IF ConfOf(bs)[t] # None THEN ConfOf(bs)[t] ELSE conf[t]
  BY ZenonT(60), <1>1 DEF Put
<1>4. CASE t \notin OutputsOf(bs) /\ ConfOf(bs)[t] = None
  <2>1. b \notin bs
    BY ZenonT(60), <1>4 DEF OutputsOf
  <2> QED
    BY ZenonT(60), <1>3, <1>4, <2>1
<1>5. CASE \E x \in bs : t \in TxsOf[x] /\ ConfOf(bs)[t] = Height(x)
  <2>1. ConfOf(bs)[t] = Height(b)
    BY ZenonT(60), <1>2, <1>5
  <2>2. Height(b) # None
    BY ZenonT(60), <1>1, HeightNat
  <2> QED
    BY ZenonT(60), <1>3, <2>1, <2>2
<1> QED
  BY ZenonT(60), <1>1, <1>4, <1>5, ConfChosen

\* DB::write_rows with the S rows of blocks, in the same way.
LEMMA PutEdgeRight ==
    ASSUME NEW b \in Blocks, NEW bs \in SUBSET Blocks, NEW edge,
           b \in bs \/ \A t \in TxsOf[b] : \A o \in Spends[t] : edge[o] = <<t, Height(b)>>,
           \A x \in bs : ~OffBranch(x, b)
    PROVE  \A t \in TxsOf[b] : \A o \in Spends[t] : Put(edge, EdgeOf(bs))[o] = <<t, Height(b)>>
<1> TAKE t \in TxsOf[b]
<1> TAKE o \in Spends[t]
<1>1. t \in Txs /\ o \in Txs /\ None \notin Txs \X Nat
  BY ZenonT(60), TxAssumption
<1>2. ASSUME NEW x \in bs, NEW u \in TxsOf[x], o \in Spends[u] PROVE x = b /\ u = t
  <2>1. x = b
    BY ZenonT(60), <1>2, SharedOffBranch
  <2> QED
    BY ZenonT(60), <1>2, <2>1, OneSpender
<1>3. Put(edge, EdgeOf(bs))[o] = IF EdgeOf(bs)[o] # None THEN EdgeOf(bs)[o] ELSE edge[o]
  BY ZenonT(60), <1>1 DEF Put
<1>4. CASE o \notin InputsOf(bs) /\ EdgeOf(bs)[o] = None
  <2>1. b \notin bs
    BY ZenonT(60), <1>4 DEF OutputsOf, InputsOf
  <2> QED
    BY ZenonT(60), <1>3, <1>4, <2>1
<1>5. CASE \E x \in bs : \E u \in TxsOf[x] : o \in Spends[u] /\ EdgeOf(bs)[o] = <<u, Height(x)>>
  <2>1. EdgeOf(bs)[o] = <<t, Height(b)>>
    BY ZenonT(60), <1>2, <1>5
  <2>2. <<t, Height(b)>> \in Txs \X Nat
    BY SMTT(60), <1>1, HeightNat
  <2>3. EdgeOf(bs)[o] # None
    BY ZenonT(60), <1>1, <2>1, <2>2
  <2> QED
    BY ZenonT(60), <1>3, <2>1, <2>3
<1> QED
  BY ZenonT(60), <1>1, <1>4, <1>5, EdgeChosen

\* DB::delete_rows with the C and S rows of blocks: a block on the branch of each of
\* them, and not one of them, keeps its rows.
LEMMA DeleteKeepsRight ==
    ASSUME NEW b \in Blocks, NEW bs \in SUBSET Blocks, b \notin bs, \A x \in bs : ~OffBranch(x, b)
    PROVE  /\ \A t \in TxsOf[b] : t \in Txs /\ t \notin OutputsOf(bs)
           /\ \A t \in TxsOf[b] : \A o \in Spends[t] : o \in Txs /\ o \notin InputsOf(bs)
<1>1. ASSUME NEW t \in TxsOf[b], t \in OutputsOf(bs) PROVE FALSE
  <2>1. PICK x \in bs : t \in TxsOf[x]
    BY ZenonT(60), <1>1 DEF OutputsOf
  <2> QED
    BY ZenonT(60), <2>1, SharedOffBranch
<1>2. ASSUME NEW t \in TxsOf[b], NEW o \in Spends[t], o \in InputsOf(bs) PROVE FALSE
  <2>1. PICK u \in OutputsOf(bs) : o \in Spends[u]
    BY ZenonT(60), <1>2 DEF InputsOf
  <2>2. PICK x \in bs : u \in TxsOf[x]
    BY ZenonT(60) DEF OutputsOf
  <2>3. Spends[u] \cap Spends[t] # {}
    BY ZenonT(60), <2>1
  <2> QED
    BY ZenonT(60), <2>2, <2>3, SharedOffBranch
<1>3. \A t \in TxsOf[b] : t \in Txs /\ Spends[t] \subseteq Txs
  BY ZenonT(60), TxAssumption
<1> QED
  BY ZenonT(60), <1>1, <1>2, <1>3

\* On one branch the C rows are those of the indexed blocks when each block has its own
\* and there are no others.
LEMMA BranchConf ==
    ASSUME NEW b \in Blocks, NEW as \in SUBSET Anc[b], NEW S, NEW conf \in [Txs -> S],
           \A x \in as : \A t \in TxsOf[x] : conf[t] = Height(x),
           \A t \in Txs : conf[t] # None => \E x \in as : t \in TxsOf[x]
    PROVE  conf = ConfOf(as)
<1>1. \A x \in as : \A t \in TxsOf[x] : ConfOf(as)[t] = Height(x)
  BY ZenonT(60), ConfOfBranch
<1>2. \A t \in Txs : t \notin OutputsOf(as) => ConfOf(as)[t] = None
  BY ZenonT(60), ConfOfBranch
<1>3. ConfOf(as) = [t \in Txs |-> ConfOf(as)[t]]
  BY ZenonT(60), ConfOfBranch
<1>4. ASSUME NEW t \in Txs PROVE conf[t] = ConfOf(as)[t]
  <2>1. CASE \E x \in as : t \in TxsOf[x]
    BY ZenonT(60), <1>1, <2>1
  <2>2. CASE ~\E x \in as : t \in TxsOf[x]
    <3>1. t \notin OutputsOf(as) /\ conf[t] = None
      BY ZenonT(60), <2>2 DEF OutputsOf
    <3> QED
      BY ZenonT(60), <1>2, <3>1
  <2> QED
    BY ZenonT(60), <2>1, <2>2
<1> QED
  BY ZenonT(60), <1>3, <1>4

\* The same for the S rows.
LEMMA BranchEdge ==
    ASSUME NEW as \in SUBSET Blocks, NEW S, NEW edge \in [Txs -> S],
           \A x \in as : \A t \in TxsOf[x] : \A o \in Spends[t] : edge[o] = <<t, Height(x)>>,
           \A o \in Txs : edge[o] # None => o \in InputsOf(as)
    PROVE  edge = EdgeOf(as)
<1>1. ASSUME NEW o \in Txs PROVE edge[o] = EdgeOf(as)[o]
  <2>1. CASE o \notin InputsOf(as) /\ EdgeOf(as)[o] = None
    BY ZenonT(60), <2>1
  <2>2. CASE \E x \in as : \E t \in TxsOf[x] : o \in Spends[t] /\ EdgeOf(as)[o] = <<t, Height(x)>>
    <3>1. PICK x \in as : \E t \in TxsOf[x] : o \in Spends[t] /\ EdgeOf(as)[o] = <<t, Height(x)>>
      BY ZenonT(60), <2>2
    <3>2. PICK t \in TxsOf[x] : o \in Spends[t] /\ EdgeOf(as)[o] = <<t, Height(x)>>
      BY ZenonT(60), <3>1
    <3>3. edge[o] = <<t, Height(x)>>
      BY ZenonT(60), <3>2
    <3> QED
      BY ZenonT(60), <3>2, <3>3
  <2> QED
    BY ZenonT(60), <2>1, <2>2, EdgeChosen
<1>2. EdgeOf(as) = [o \in Txs |-> EdgeOf(as)[o]]
  BY ZenonT(60) DEF EdgeOf
<1> QED
  BY ZenonT(60), <1>1, <1>2

\* Blocks share a history row only at one height.
LEMMA RowsApart ==
    ASSUME HeightsApart, NEW as \in SUBSET Blocks, NEW bs \in SUBSET Blocks, as \cap bs = {}
    PROVE  RowsOf(as) \cap RowsOf(bs) = {}
<1> SUFFICES ASSUME NEW r, r \in RowsOf(as), r \in RowsOf(bs) PROVE FALSE
  BY ZenonT(60)
<1>1. PICK a \in as : r \in HistoryRows(a)
  BY ZenonT(60) DEF RowsOf
<1>2. PICK b \in bs : r \in HistoryRows(b)
  BY ZenonT(60) DEF RowsOf
<1>3. PICK t \in TxsOf[a] : \E o \in Spends[t] \cup {None} : r = <<Height(a), t, o>>
  BY ZenonT(60), <1>1 DEF HistoryRows
<1>4. PICK u \in TxsOf[b] : \E o \in Spends[u] \cup {None} : r = <<Height(b), u, o>>
  BY ZenonT(60), <1>2 DEF HistoryRows
<1>5. Height(a) = r[1] /\ Height(b) = r[1] /\ t = r[2] /\ u = r[2]
  BY SMTT(60), <1>3, <1>4
<1>6. a # b /\ Height(a) = Height(b) /\ t \in TxsOf[a] /\ t \in TxsOf[b]
  BY ZenonT(60), <1>5
<1> QED
  BY ZenonT(60), <1>6 DEF HeightsApart
==============================================================================

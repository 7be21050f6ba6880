---------------------------- MODULE IndexerProofs ----------------------------
(***************************************************************************)
(* Proofs about Indexer, for every block tree and every value of the       *)
(* bounds: the type invariant, the crash safety of the saved chain, and    *)
(* the cleanup of stale blocks.                                            *)
(***************************************************************************)
EXTENDS Indexer, BlockTreeProofs, WellFoundedInduction

----------------------------------------------------------------------------
\* A nonempty set of natural numbers has a least element.
LEMMA LeastNat ==
    ASSUME NEW S, S \subseteq Nat, S # {}
    PROVE  \E h \in S : \A g \in S : h <= g
<1> USE ZenonT(60)
<1>1. PICK h \in S : \A g \in S : ~ (<<g, h>> \in OpToRel(<, Nat))
  BY NatLessThanWellFounded, WFMin
<1>2. \A g \in S : ~ (g < h)
  BY <1>1 DEF OpToRel
<1> QED
  BY SMT, <1>2

----------------------------------------------------------------------------
(* Every database operation maps a database to a database, and what it does *)
(* to the markers *)

\* The rows index_blocks produces for any blocks are history rows.
LEMMA RowsOfType ==
    ASSUME NEW bs \in SUBSET Blocks
    PROVE  RowsOf(bs) \subseteq HistoryRow
<1> SUFFICES ASSUME NEW b \in bs, NEW t \in TxsOf[b], NEW o \in Spends[t] \cup {None}
             PROVE  <<Height(b), t, o>> \in HistoryRow
  BY DEF RowsOf, HistoryRows
<1>1. b \in Blocks /\ t \in Txs /\ o \in Txs \cup {None}
  BY TxAssumption
<1> QED
  BY <1>1, HeightNat DEF HistoryRow

\* The C rows of any blocks hold heights.
LEMMA ConfOfType ==
    ASSUME NEW bs \in SUBSET Blocks
    PROVE  ConfOf(bs) \in [Txs -> Nat \cup {None}]
<1> SUFFICES ASSUME NEW t \in Txs, t \in OutputsOf(bs)
             PROVE  Height(CHOOSE b \in bs : t \in TxsOf[b]) \in Nat
  BY DEF ConfOf
<1>1. \E b \in bs : t \in TxsOf[b]
  BY DEF OutputsOf
<1>2. (CHOOSE b \in bs : t \in TxsOf[b]) \in Blocks
  BY <1>1
<1> QED
  BY <1>2, HeightNat

\* The S rows of any blocks hold a spending transaction and its height.
LEMMA EdgeOfType ==
    ASSUME NEW bs \in SUBSET Blocks
    PROVE  EdgeOf(bs) \in [Txs -> (Txs \X Nat) \cup {None}]
<1> DEFINE spenders(o) == {p \in Txs \X bs : p[1] \in TxsOf[p[2]] /\ o \in Spends[p[1]]}
           edge(p) == <<p[1], Height(p[2])>>
<1>1. ASSUME NEW o \in Txs, spenders(o) # {}
      PROVE  edge(CHOOSE p \in spenders(o) : TRUE) \in Txs \X Nat
  <2>1. PICK p : p = (CHOOSE q \in spenders(o) : TRUE)
    OBVIOUS
  <2>2. p \in spenders(o)
    BY <1>1, <2>1
  <2>3. p[1] \in Txs /\ p[2] \in Blocks
    BY <2>2
  <2>4. Height(p[2]) \in Nat
    BY <2>3, HeightNat
  <2> QED
    BY <2>1, <2>3, <2>4
<1>2. EdgeOf(bs) = [o \in Txs |-> IF spenders(o) = {} THEN None
                                  ELSE edge(CHOOSE p \in spenders(o) : TRUE)]
  BY DEF EdgeOf
<1> HIDE DEF spenders, edge
<1> QED
  BY <1>1, <1>2

\* Rewriting C and S rows (finish_rewrite) leaves a well-formed history database.
LEMMA PutSingleValuedType ==
    ASSUME NEW hs \in HistoryDB, NEW bs \in SUBSET Blocks
    PROVE  /\ PutSingleValued(hs, bs) \in HistoryDB
           /\ PutSingleValued(hs, bs).done = hs.done
           /\ PutSingleValued(hs, bs).undo = hs.undo
           /\ PutSingleValued(hs, bs).rows = hs.rows
<1>1. ConfOf(bs) \in [Txs -> Nat \cup {None}]
  BY ConfOfType
<1>2. EdgeOf(bs) \in [Txs -> (Txs \X Nat) \cup {None}]
  BY EdgeOfType
<1>3. Put(hs.conf, ConfOf(bs)) \in [Txs -> Nat \cup {None}]
  BY <1>1 DEF Put, HistoryDB
<1>4. Put(hs.edge, EdgeOf(bs)) \in [Txs -> (Txs \X Nat) \cup {None}]
  BY <1>2 DEF Put, HistoryDB
<1> QED
  BY ZenonT(60), <1>3, <1>4 DEF PutSingleValued, HistoryDB

\* Indexing blocks leaves a well-formed history database with exactly their
\* done-markers added and their undo markers removed.
LEMMA PutIndexType ==
    ASSUME NEW hs \in HistoryDB, NEW bs \in SUBSET Blocks
    PROVE  /\ PutIndex(hs, bs) \in HistoryDB
           /\ PutIndex(hs, bs).done = hs.done \cup bs
           /\ PutIndex(hs, bs).undo = hs.undo \ bs
<1>1. RowsOf(bs) \subseteq HistoryRow
  BY RowsOfType
<1> QED
  BY ZenonT(60), <1>1, PutSingleValuedType DEF PutIndex, HistoryDB

\* One deletion batch of the cleanup leaves a well-formed history database.
LEMMA DeleteIndexType ==
    ASSUME NEW hs \in HistoryDB, NEW rows, NEW bs, NEW del, NEW put \in SUBSET Blocks
    PROVE  /\ DeleteIndex(hs, rows, bs, del, put) \in HistoryDB
           /\ DeleteIndex(hs, rows, bs, del, put).done = hs.done \ bs
           /\ DeleteIndex(hs, rows, bs, del, put).undo = (hs.undo \ del) \cup put
<1>1. Delete(hs.conf, OutputsOf(bs)) \in [Txs -> Nat \cup {None}]
  BY DEF Delete, HistoryDB
<1>2. Delete(hs.edge, InputsOf(bs)) \in [Txs -> (Txs \X Nat) \cup {None}]
  BY DEF Delete, HistoryDB
<1> QED
  BY ZenonT(60), <1>1, <1>2 DEF DeleteIndex, HistoryDB

\* Writing R leaves a well-formed history database.
LEMMA BeginRewriteType ==
    ASSUME NEW hs \in HistoryDB, NEW height \in Nat
    PROVE  /\ BeginRewrite(hs, height) \in HistoryDB
           /\ BeginRewrite(hs, height).done = hs.done
           /\ BeginRewrite(hs, height).undo = hs.undo
  BY DEF BeginRewrite, HistoryDB

----------------------------------------------------------------------------
(* The inductive invariant: initially and after every step *)

\* The invariant holds when Store::open returns, on an empty or a legacy database.
LEMMA InitInvariant == Init => IndexerInvariant
<1> SUFFICES ASSUME Init PROVE IndexerInvariant
  OBVIOUS
<1>1. txst \in TxStore /\ hist \in HistoryDB
      /\ Chain(txst.tip) \subseteq txst.added \cap hist.done /\ hist.undo = {}
      /\ hist.done \cap hist.undo = {}
  <2>0. EmptyHistory \in HistoryDB /\ EmptyHistory.undo = {} /\ EmptyHistory.done = {}
    BY DEF EmptyHistory, HistoryDB
  <2>1. CASE LegacyTip = None
    BY <2>1, <2>0 DEF Init, TxStore, Chain
  <2>2. CASE LegacyTip # None
    <3> DEFINE bs == Anc[LegacyTip] \cup LegacyStale
    <3>1. LegacyTip \in Blocks /\ LegacyStale \in SUBSET Blocks /\ Anc[LegacyTip] \in SUBSET Blocks
      BY <2>2, IndexerAssumption, TreeAssumption
    <3>2. \A xs, ys \in SUBSET Blocks :
             PutSingleValued(PutSingleValued(EmptyHistory, xs), ys) \in HistoryDB
      BY <2>0, PutSingleValuedType
    <3>3. PICK w \in HistoryDB :
             hist = [EmptyHistory EXCEPT !.done = bs, !.rows = RowsOf(bs), !.conf = w.conf, !.edge = w.edge]
      BY ZenonT(60), <2>2, <3>1, <3>2 DEF Init, LegacyHistory
    <3>4. RowsOf(bs) \subseteq HistoryRow
      BY <3>1, RowsOfType
    <3>5. hist \in HistoryDB /\ hist.done = bs /\ hist.undo = {}
      BY ZenonT(60), <3>1, <3>3, <3>4, <2>0 DEF HistoryDB, EmptyHistory
    <3>6. txst = [added |-> bs, tip |-> LegacyTip]
      BY <2>2 DEF Init
    <3> QED
      BY <3>1, <3>5, <3>6, <2>2 DEF TxStore, Chain
  <2> QED
    BY <2>1, <2>2
<1> USE <1>1
<1>2. headTip = txst.tip
  <2>1. CASE txst.tip = None
    BY <2>1 DEF Init, LoadedTip
  <2>2. CASE txst.tip # None
    <3>1. Anc[txst.tip] \cap hist.done = Anc[txst.tip]
      BY <2>2 DEF Chain
    <3> QED
      BY ZenonT(60), <2>2, <3>1, TopOfChain DEF Init, LoadedTip, TxStore
  <2> QED
    BY <2>1, <2>2
<1>3. TypeOK
  <2>1. headTip \in Blocks \cup {None} /\ uncommitted \subseteq Blocks
    BY <1>2 DEF Init, UncommittedBlocks, TxStore, HistoryDB
  <2> QED
    BY ZenonT(60), <2>1, IndexerAssumption DEF Init, TypeOK, Steps, FetchFrom
<1>4. uncommitted \cap Chain(headTip) = {}
  BY DEF Init, UncommittedBlocks
<1> QED
  BY <1>2, <1>3, <1>4
     DEF Init, IndexerInvariant, DiskBehindMemory, MarkersExclusive, UpdateLocals, TipSaved,
         SavedChainIndexed

\* The process starts again on what is on disk.
LEMMA RestartInvariant ==
    ASSUME IndexerInvariant, Restart, best' = best, budget' \in [reorg : Nat, crash : Nat, fail : Nat]
    PROVE  IndexerInvariant'
<1> USE DEF IndexerInvariant
<1>1. txstD \in TxStore /\ histD \in HistoryDB /\ Chain(txstD.tip) \subseteq txstD.added \cap histD.done
  BY DEF TypeOK, SavedChainIndexed
<1> USE <1>1
<1>2. LoadedTip(txstD, histD) = txstD.tip
  <2>1. CASE txstD.tip = None
    BY <2>1 DEF LoadedTip
  <2>2. CASE txstD.tip # None
    <3>1. Anc[txstD.tip] \cap histD.done = Anc[txstD.tip]
      BY <2>2 DEF Chain
    <3> QED
      BY ZenonT(60), <2>2, <3>1, TopOfChain DEF LoadedTip, TxStore
  <2> QED
    BY <2>1, <2>2
<1>3. txst' = txstD /\ hist' = histD /\ txstD' = txstD /\ histD' = histD /\ headTip' = txstD.tip
      /\ uncommitted' = UncommittedBlocks(histD, txstD.tip)
      /\ flush' = "Disable" /\ from' = FetchFrom(txstD) /\ failedAt' = None /\ pc' = "start"
  BY <1>2 DEF Restart
<1> USE <1>3
<1>4. uncommitted' \subseteq Blocks /\ uncommitted' \cap Chain(headTip') = {}
  BY DEF UncommittedBlocks, HistoryDB, MarkersExclusive
<1>5. TypeOK'
  BY <1>4 DEF TypeOK, Restart, LocalsReset, TxStore, Steps, FetchFrom
<1>6. DiskBehindMemory' /\ MarkersExclusive'
  BY DEF DiskBehindMemory, MarkersExclusive
<1>7. UpdateLocals'
  BY <1>4 DEF UpdateLocals, Restart, LocalsReset
<1>8. TipSaved' /\ SavedChainIndexed'
  BY DEF TipSaved, SavedChainIndexed
<1> QED
  BY ZenonT(60), <1>5, <1>6, <1>7, <1>8

\* Reading bitcoind's tip and headers writes nothing; the locals it sets describe
\* the chain being indexed.
LEMMA BeginUpdateInvariant ==
    ASSUME IndexerInvariant, BeginUpdate
    PROVE  IndexerInvariant'
<1> USE DEF IndexerInvariant
<1>1. best \in Blocks /\ headTip \in Blocks \cup {None} /\ None \notin Blocks
  BY TreeAssumption DEF TypeOK
<1> USE <1>1
<1>2. /\ Fork(best, headTip) \in Blocks \cup {None}
      /\ Chain(Fork(best, headTip)) = Chain(best) \cap Chain(headTip)
      /\ headTip # None => Fork(best, headTip) \in Blocks
  BY ForkIsMeet
<1>3. Fork(best, headTip) # headTip => headTip # None
  BY DEF Fork, Chain
<1>4. pc \in {"start", "idle"} /\ headTip = txst.tip
  BY DEF BeginUpdate, UpdateDue, TipSaved
<1>5. /\ pc' \in {"mark", "stale", "rewrite", "plan"}
      /\ pc' = "mark" => Fork(best, headTip) # headTip
      /\ pc' = "stale" => stale' # {}
  BY DEF BeginUpdate
<1> USE <1>5
<1>6. Chain(best) \subseteq Blocks
  BY ZenonT(60), TreeAssumption DEF Chain
<1>7. TypeOK'
  BY ZenonT(60), <1>2, <1>6 DEF TypeOK, BeginUpdate, StaleUncommitted, Steps, store
<1>8. DiskBehindMemory' /\ MarkersExclusive' /\ SavedChainIndexed'
  BY DEF DiskBehindMemory, MarkersExclusive, SavedChainIndexed, BeginUpdate, store
<1>9. UpdateLocals'
  <2>1. tip' = best /\ newHdrs' = Chain(best) \ Chain(headTip) /\ fork' = Fork(best, headTip)
        /\ stale' = uncommitted \ newHdrs' /\ UNCHANGED <<headTip, uncommitted>>
    BY DEF BeginUpdate, StaleUncommitted
  <2>2. pc' = "mark" => fork' \in Blocks /\ Anc[fork'] = Chain(tip') \cap Chain(headTip')
    BY ZenonT(60), <1>2, <1>3, <2>1 DEF Chain
  <2> QED
    BY ZenonT(60), <2>1, <2>2 DEF UpdateLocals
<1>10. TipSaved'
  BY <1>4 DEF TipSaved, BeginUpdate, store
<1> QED
  BY <1>7, <1>8, <1>9, <1>10

\* A write to history_db that leaves both kinds of markers alone.
LEMMA SameMarkersInvariant ==
    ASSUME IndexerInvariant,
           hist' \in HistoryDB, hist'.done = hist.done, hist'.undo = hist.undo,
           histD' \in HistoryDB, histD'.done = histD.done, histD'.undo = histD.undo,
           histD = hist => histD' = hist',
           UNCHANGED <<best, txst, txstD, headTip, uncommitted, flush, from, budget>>,
           failedAt' \in Blocks \cup {None},
           pc \notin {"start", "idle", "save"},
           pc' \in Steps \ {"mark", "save", "flushHistory", "commit"},
           pc' = "pop" => pc = "mark",
           pc' = "undo" => queue' \cap Chain(headTip) = {},
           pc' = "stale" => stale' # {},
           queue' \subseteq Blocks, stale' \subseteq stale,
           UNCHANGED <<tip, newHdrs, fork, pend, todo, batch>>
    PROVE  IndexerInvariant'
<1> USE DEF IndexerInvariant
<1>1. TypeOK'
  BY DEF TypeOK
<1>2. DiskBehindMemory' /\ MarkersExclusive' /\ SavedChainIndexed'
  BY DEF DiskBehindMemory, MarkersExclusive, SavedChainIndexed, Steps
<1>3. UpdateLocals' /\ TipSaved'
  BY DEF UpdateLocals, TipSaved, Steps
<1> QED
  BY ZenonT(60), <1>1, <1>2, <1>3

\* Writing R moves neither tips nor done-markers.
LEMMA MarkReorgInvariant ==
    ASSUME IndexerInvariant, MarkReorg
    PROVE  IndexerInvariant'
<1> USE DEF IndexerInvariant
<1>1. ChainLen(fork) \in Nat
  BY ChainLenNat DEF TypeOK
<1>2. hist \in HistoryDB /\ histD \in HistoryDB
  BY DEF TypeOK
<1>3. hist' = BeginRewrite(hist, ChainLen(fork)) /\ histD' = BeginRewrite(histD, ChainLen(fork))
  BY DEF MarkReorg, WriteHistory
<1>4. hist' \in HistoryDB /\ hist'.done = hist.done /\ hist'.undo = hist.undo
  BY <1>1, <1>2, <1>3, BeginRewriteType
<1>5. histD' \in HistoryDB /\ histD'.done = histD.done /\ histD'.undo = histD.undo
  BY <1>1, <1>2, <1>3, BeginRewriteType
<1>6. pc = "mark" /\ pc' = "pop" /\ queue' \subseteq Blocks /\ stale' = stale
      /\ failedAt' \in Blocks \cup {None}
  BY DEF MarkReorg, locals, TypeOK
<1> QED
  BY ZenonT(60), <1>3, <1>4, <1>5, <1>6, SameMarkersInvariant DEF MarkReorg, locals, Steps

\* HeaderList::pop takes the published tip down to the common ancestor, which is on
\* the saved chain.
LEMMA PopHeadersInvariant ==
    ASSUME IndexerInvariant, PopHeaders
    PROVE  IndexerInvariant'
<1> USE ZenonT(60)
<1> USE DEF IndexerInvariant
<1>1. fork \in Blocks /\ Anc[fork] = Chain(tip) \cap Chain(headTip) /\ fork \in Anc[fork]
      /\ Chain(fork) = Anc[fork] /\ headTip = txst.tip
      /\ newHdrs = Chain(tip) \ Chain(headTip)
  BY SMT, TreeAssumption DEF PopHeaders, UpdateLocals, TipSaved, Chain
<1>2. Chain(headTip) \subseteq Blocks
  BY TreeAssumption DEF Chain, TypeOK
<1>3. TypeOK'
  BY SMT, <1>1, <1>2 DEF TypeOK, PopHeaders, PoppedTip, Steps, store
<1>4. DiskBehindMemory' /\ MarkersExclusive' /\ SavedChainIndexed'
  BY DEF DiskBehindMemory, MarkersExclusive, SavedChainIndexed, PopHeaders, store
<1>5. UpdateLocals'
  BY SMT, <1>1 DEF UpdateLocals, PopHeaders, PoppedTip
<1>6. TipSaved'
  BY <1>1 DEF TipSaved, PopHeaders, PoppedTip, store
<1> QED
  BY <1>3, <1>4, <1>5, <1>6

\* The tip moves back on disk, to a block of the chain saved before.
LEMMA SaveAncestorInvariant ==
    ASSUME IndexerInvariant, SaveAncestor
    PROVE  IndexerInvariant'
<1> USE DEF IndexerInvariant
<1>1. headTip = fork /\ fork \in Chain(txst.tip) /\ txst.tip \in Blocks \cup {None}
  BY DEF SaveAncestor, TipSaved, TypeOK, TxStore
<1>2. fork \in Blocks /\ Chain(fork) \subseteq Chain(txst.tip)
  BY <1>1, TreeAssumption DEF Chain
<1>3. /\ txst' = [txst EXCEPT !.tip = fork] /\ txstD' = [txstD EXCEPT !.tip = fork]
      /\ pc = "save" /\ pc' = "undo" /\ uncommitted' = uncommitted \cup queue
      /\ UNCHANGED <<best, hist, histD, headTip, flush, from, failedAt, budget>>
      /\ UNCHANGED <<tip, newHdrs, fork, stale, queue, pend, todo, batch>>
  BY DEF SaveAncestor, WriteTxstore, AncestorSaved, locals
<1> USE <1>3
<1>4. txst' \in TxStore /\ txst'.added = txst.added /\ txst'.tip = fork
  BY <1>2 DEF TypeOK, TxStore
<1>5. txstD' \in TxStore /\ txstD'.added = txstD.added /\ txstD'.tip = fork
  BY <1>2 DEF TypeOK, TxStore
<1>6. TypeOK'
  BY ZenonT(60), <1>4, <1>5 DEF TypeOK, Steps
<1>7. DiskBehindMemory' /\ MarkersExclusive'
  BY <1>4, <1>5 DEF DiskBehindMemory, MarkersExclusive
<1>8. SavedChainIndexed'
  BY ZenonT(60), <1>2, <1>5 DEF SavedChainIndexed, DiskBehindMemory
<1>9. UpdateLocals' /\ TipSaved'
  BY ZenonT(60), <1>1, <1>4 DEF UpdateLocals, TipSaved
<1> QED
  BY ZenonT(60), <1>6, <1>7, <1>8, <1>9

\* undo_uncommitted_blocks queues blocks that are not published.
LEMMA MarkStaleInvariant ==
    ASSUME IndexerInvariant, MarkStale
    PROVE  IndexerInvariant'
<1> USE DEF IndexerInvariant
<1> DEFINE forks == {ForkHeight(x) : x \in stale}
           lowest == CHOOSE h \in forks : \A g \in forks : h <= g
<1>1. \A x \in stale : ForkHeight(x) \in Nat
  <2> SUFFICES ASSUME NEW x \in stale
               PROVE  ForkHeight(x) \in Nat
    OBVIOUS
  <2>1. Anc[x] \cap (newHdrs \cup Chain(headTip)) \subseteq Blocks
    BY TreeAssumption DEF TypeOK
  <2> QED
    BY <2>1, CountNat DEF ForkHeight
<1>2. stale # {} /\ stale \subseteq Blocks /\ stale \cap Chain(headTip) = {}
  BY DEF MarkStale, UpdateLocals, TypeOK
<1>3. lowest \in Nat
  <2>1. \E h \in forks : \A g \in forks : h <= g
    BY ZenonT(60), <1>1, <1>2, LeastNat
  <2> QED
    BY <1>1, <2>1
<1>4. hist \in HistoryDB /\ histD \in HistoryDB
  BY DEF TypeOK
<1>5. hist' = BeginRewrite(hist, lowest) /\ histD' = BeginRewrite(histD, lowest)
  BY DEF MarkStale, WriteHistory
<1> HIDE DEF lowest
<1>6. hist' \in HistoryDB /\ hist'.done = hist.done /\ hist'.undo = hist.undo
  BY <1>3, <1>4, <1>5, BeginRewriteType
<1>7. histD' \in HistoryDB /\ histD'.done = histD.done /\ histD'.undo = histD.undo
  BY <1>3, <1>4, <1>5, BeginRewriteType
<1>8. pc = "stale" /\ pc' = "undo" /\ queue' = stale /\ stale' = {}
      /\ failedAt' \in Blocks \cup {None}
  BY DEF MarkStale, TypeOK
<1>9. stale' \subseteq stale /\ queue' \subseteq Blocks /\ queue' \cap Chain(headTip) = {}
  BY <1>2, <1>8
<1> QED
  BY ZenonT(60), <1>5, <1>6, <1>7, <1>8, <1>9, SameMarkersInvariant DEF MarkStale, Steps

\* Deleting the index of blocks that are not published.
LEMMA DeleteInvariant ==
    ASSUME IndexerInvariant, pc = "undo", NEW rows, NEW bs, NEW del, NEW put \in SUBSET Blocks,
           bs \subseteq queue, put \subseteq bs,
           hist' = DeleteIndex(hist, rows, bs, del, put),
           histD' = DeleteIndex(histD, rows, bs, del, put),
           uncommitted' \subseteq uncommitted, queue' \subseteq queue,
           pend' \subseteq Blocks \X Txs \X Txs,
           UNCHANGED <<best, txst, txstD, headTip, flush, from, failedAt, pc,
                       tip, newHdrs, fork, stale, todo, batch, budget>>
    PROVE  IndexerInvariant'
<1>1. hist \in HistoryDB /\ histD \in HistoryDB
  BY ZenonT(60) DEF IndexerInvariant, TypeOK
<1>2. hist' \in HistoryDB /\ hist'.done = hist.done \ bs /\ hist'.undo = (hist.undo \ del) \cup put
  <2>1. /\ DeleteIndex(hist, rows, bs, del, put) \in HistoryDB
        /\ DeleteIndex(hist, rows, bs, del, put).done = hist.done \ bs
        /\ DeleteIndex(hist, rows, bs, del, put).undo = (hist.undo \ del) \cup put
    BY <1>1, DeleteIndexType
  <2> QED
    BY ZenonT(60), <2>1
<1>3. histD' \in HistoryDB /\ histD'.done = histD.done \ bs /\ histD'.undo = (histD.undo \ del) \cup put
  <2>1. /\ DeleteIndex(histD, rows, bs, del, put) \in HistoryDB
        /\ DeleteIndex(histD, rows, bs, del, put).done = histD.done \ bs
        /\ DeleteIndex(histD, rows, bs, del, put).undo = (histD.undo \ del) \cup put
    BY <1>1, DeleteIndexType
  <2> QED
    BY ZenonT(60), <2>1
<1> USE DEF IndexerInvariant
<1>4. headTip = txst.tip /\ txstD.tip = txst.tip /\ queue \cap Chain(headTip) = {}
  BY ZenonT(60) DEF TipSaved, DiskBehindMemory, UpdateLocals
<1>5. TypeOK'
  BY <1>2, <1>3 DEF TypeOK
<1>6. DiskBehindMemory' /\ MarkersExclusive'
  BY ZenonT(60), <1>2, <1>3 DEF DiskBehindMemory, MarkersExclusive
<1>7. SavedChainIndexed'
  <2>1. Chain(txstD.tip) \cap bs = {}
    BY ZenonT(60), <1>4
  <2>2. txstD' = txstD /\ histD'.done = histD.done \ bs
    BY ZenonT(60), <1>3
  <2>3. Chain(txstD.tip) \subseteq txstD.added \cap (histD.done \ bs)
    BY ZenonT(60), <2>1 DEF SavedChainIndexed
  <2> QED
    BY ZenonT(60), <2>2, <2>3 DEF SavedChainIndexed
<1>8. UpdateLocals' /\ TipSaved'
  BY <1>4 DEF UpdateLocals, TipSaved
<1> QED
  BY ZenonT(60), <1>5, <1>6, <1>7, <1>8

\* A batch of undo_index_or_defer deletes done-markers of unpublished blocks only.
LEMMA UndoBatchInvariant ==
    ASSUME IndexerInvariant, NEW bs \in UndoBatches, UndoBatch(bs)
    PROVE  IndexerInvariant'
<1> DEFINE resolved == {p \in pend : p[3] \in OutputsOf(bs)}
           missing == InputsOf(bs) \ (OutputsOf(txst.added) \cup OutputsOf(bs))
           deferred == {p \in bs \X Txs \X missing : p[2] \in TxsOf[p[1]] /\ p[3] \in Spends[p[2]]}
           left == (pend \ resolved) \cup deferred
           released == Holders(resolved) \ Holders(left)
           rows == (RowsOf(bs) \ SpendRows(deferred)) \cup SpendRows(resolved)
           finished == (bs \ Holders(deferred)) \cup released
           unowned == {r \in rows : ~Owned(r)}
<1>1. bs \subseteq queue /\ queue \subseteq Blocks /\ pend \subseteq Blocks \X Txs \X Txs
  BY DEF UndoBatches, IndexerInvariant, TypeOK
<1> USE <1>1
<1>2. \A p \in deferred : p[1] \in bs /\ p[1] \in Blocks
  OBVIOUS
<1>3. Holders(deferred) \subseteq bs /\ Holders(deferred) \in SUBSET Blocks
  BY <1>2 DEF Holders
<1>4. missing \subseteq Txs
  <2>1. \A t \in OutputsOf(bs) : Spends[t] \subseteq Txs
    BY TxAssumption DEF OutputsOf
  <2> QED
    BY <2>1 DEF InputsOf
<1>5. deferred \subseteq Blocks \X Txs \X Txs
  BY <1>4
<1>6. /\ pc = "undo"
      /\ hist' = DeleteIndex(hist, unowned, bs, finished, Holders(deferred))
      /\ histD' = DeleteIndex(histD, unowned, bs, finished, Holders(deferred))
      /\ pend' = left /\ queue' = queue \ bs /\ uncommitted' = uncommitted \ finished
      /\ UNCHANGED <<best, txst, txstD, headTip, flush, from, failedAt, pc,
                     tip, newHdrs, fork, stale, todo, batch, budget>>
  BY ZenonT(60) DEF UndoBatch, WriteHistory
<1>7. pend' \subseteq Blocks \X Txs \X Txs
  BY ZenonT(60), <1>5, <1>6
<1> HIDE DEF deferred, unowned, finished
<1> QED
  BY ZenonT(60), <1>3, <1>6, <1>7, DeleteInvariant

\* undo_by_history_scan deletes undo markers, and no done-marker.
LEMMA UndoByScanInvariant ==
    ASSUME IndexerInvariant, UndoByScan
    PROVE  IndexerInvariant'
<1> DEFINE rows == {r \in SpendRows(pend) : ~Owned(r)}
<1>1. /\ pc = "undo"
      /\ hist' = DeleteIndex(hist, rows, {}, Holders(pend), {})
      /\ histD' = DeleteIndex(histD, rows, {}, Holders(pend), {})
      /\ pend' = {} /\ queue' = queue /\ uncommitted' \subseteq uncommitted
      /\ UNCHANGED <<best, txst, txstD, headTip, flush, from, failedAt, pc,
                     tip, newHdrs, fork, stale, todo, batch, budget>>
  BY DEF UndoByScan, WriteHistory
<1> HIDE DEF rows
<1>2. PICK none \in SUBSET Blocks : none = {}
  BY ZenonT(60)
<1>3. /\ hist' = DeleteIndex(hist, rows, none, Holders(pend), none)
      /\ histD' = DeleteIndex(histD, rows, none, Holders(pend), none)
      /\ none \subseteq queue /\ none \subseteq none /\ queue' \subseteq queue
      /\ pend' \subseteq Blocks \X Txs \X Txs
  BY ZenonT(60), <1>1, <1>2
<1> QED
  BY ZenonT(60), <1>1, <1>3, DeleteInvariant

\* The cleanup goes on to the next list of stale blocks, or to the rewrite.
LEMMA UndoDoneInvariant ==
    ASSUME IndexerInvariant, UndoDone
    PROVE  IndexerInvariant'
<1> USE DEF IndexerInvariant
<1>1. TypeOK'
  BY DEF TypeOK, UndoDone, store, locals, Steps
<1>2. DiskBehindMemory' /\ MarkersExclusive' /\ SavedChainIndexed'
  BY ZenonT(60) DEF DiskBehindMemory, MarkersExclusive, SavedChainIndexed, UndoDone, store
<1>3. UpdateLocals' /\ TipSaved'
  BY DEF UpdateLocals, TipSaved, UndoDone, store, locals
<1> QED
  BY ZenonT(60), <1>1, <1>2, <1>3

\* The rows put by a rewrite are those of blocks, and no marker changes but R.
LEMMA RewrittenType ==
    ASSUME IndexerInvariant, NEW hs \in HistoryDB, NEW upto
    PROVE  /\ Rewritten(hs, upto) \in HistoryDB
           /\ Rewritten(hs, upto).done = hs.done
           /\ Rewritten(hs, upto).undo = hs.undo
<1> DEFINE bs == {a \in Active : hist.rewrite <= Height(a) /\ Height(a) <= upto}
<1>1. Chain(headTip) \subseteq Blocks /\ newHdrs \subseteq Blocks
  BY TreeAssumption DEF Chain, IndexerInvariant, TypeOK
<1>2. bs \in SUBSET Blocks
  BY <1>1 DEF Active
<1>3. Rewritten(hs, upto) = PutSingleValued(hs, bs)
  BY DEF Rewritten
<1> HIDE DEF bs
<1> QED
  BY ZenonT(60), <1>2, <1>3, PutSingleValuedType

\* A batch of finish_rewrite changes C and S rows only.
LEMMA RewriteBatchInvariant ==
    ASSUME IndexerInvariant, NEW upto, RewriteBatch(upto)
    PROVE  IndexerInvariant'
<1> USE DEF IndexerInvariant
<1>1. hist' = Rewritten(hist, upto) /\ histD' = Rewritten(histD, upto)
  BY DEF RewriteBatch, WriteHistory
<1>2. hist' \in HistoryDB /\ hist'.done = hist.done /\ hist'.undo = hist.undo
  BY ZenonT(60), <1>1, RewrittenType DEF TypeOK
<1>3. histD' \in HistoryDB /\ histD'.done = histD.done /\ histD'.undo = histD.undo
  BY <1>1, RewrittenType DEF TypeOK
<1>4. pc = "rewrite" /\ pc' = "rewrite" /\ queue' \subseteq Blocks /\ stale' = stale
      /\ failedAt' \in Blocks \cup {None}
  BY DEF RewriteBatch, locals, TypeOK
<1> QED
  BY ZenonT(60), <1>1, <1>2, <1>3, <1>4, SameMarkersInvariant DEF RewriteBatch, locals, Steps

\* The last batch of finish_rewrite deletes R and leaves the markers alone.
LEMMA FinishRewriteInvariant ==
    ASSUME IndexerInvariant, FinishRewrite
    PROVE  IndexerInvariant'
<1> USE DEF IndexerInvariant
<1> DEFINE Finished(hs) == [Rewritten(hs, Cardinality(Blocks)) EXCEPT !.rewrite = None]
<1>1. hist' = Finished(hist) /\ histD' = Finished(histD)
  BY DEF FinishRewrite, WriteHistory
<1>2. ASSUME NEW hs \in HistoryDB
      PROVE  Finished(hs) \in HistoryDB /\ Finished(hs).done = hs.done /\ Finished(hs).undo = hs.undo
  <2>1. PICK rs \in HistoryDB : rs = Rewritten(hs, Cardinality(Blocks))
                                /\ rs.done = hs.done /\ rs.undo = hs.undo
    BY RewrittenType
  <2> QED
    BY <2>1 DEF HistoryDB
<1>3. hist' \in HistoryDB /\ hist'.done = hist.done /\ hist'.undo = hist.undo
  BY ZenonT(60), <1>1, <1>2 DEF TypeOK
<1>4. histD' \in HistoryDB /\ histD'.done = histD.done /\ histD'.undo = histD.undo
  BY ZenonT(60), <1>1, <1>2 DEF TypeOK
<1>5. pc = "rewrite" /\ pc' = "plan" /\ queue' \subseteq Blocks /\ stale' = stale
      /\ failedAt' \in Blocks \cup {None} /\ (histD = hist => histD' = hist')
  BY <1>1 DEF FinishRewrite, locals, TypeOK
<1> HIDE DEF Finished
<1> QED
  BY <1>3, <1>4, <1>5, SameMarkersInvariant DEF FinishRewrite, locals, Steps

\* A cleanup may give up at any of its steps: nothing on disk changes.
LEMMA CleanupFailsInvariant ==
    ASSUME IndexerInvariant, CleanupFails
    PROVE  IndexerInvariant'
<1> USE DEF IndexerInvariant
<1>1. budget' \in [reorg : Nat, crash : Nat, fail : Nat]
  BY DEF TypeOK, CleanupFails
<1>2. TypeOK'
  BY <1>1 DEF TypeOK, CleanupFails, LocalsReset, store, Steps
<1>3. DiskBehindMemory' /\ MarkersExclusive' /\ SavedChainIndexed'
  BY DEF DiskBehindMemory, MarkersExclusive, SavedChainIndexed, CleanupFails, store
<1>4. UpdateLocals' /\ TipSaved'
  BY DEF UpdateLocals, TipSaved, CleanupFails, LocalsReset, store
<1> QED
  BY <1>2, <1>3, <1>4

\* Steps that only choose what is fetched next.
LEMMA FetchStepInvariant ==
    ASSUME IndexerInvariant, PlanFetch \/ FetchDone \/ FetchFails
    PROVE  IndexerInvariant'
<1> USE DEF IndexerInvariant
<1>1. /\ UNCHANGED <<best, store, headTip, uncommitted, flush, failedAt,
                     tip, newHdrs, fork, stale, queue, pend, batch>>
      /\ pc \in {"plan", "fetch"} /\ pc' \in {"fetch", "complete"}
      /\ from' \in {from, "Bitcoind"} /\ todo' \in {todo, HeadersToProcess, {}}
      /\ \/ budget' = budget
         \/ budget.fail > 0 /\ budget' = [budget EXCEPT !.fail = @ - 1]
  BY DEF PlanFetch, FetchDone, FetchFails, locals
<1> USE <1>1
<1>2. budget' \in [reorg : Nat, crash : Nat, fail : Nat]
  BY DEF TypeOK
<1>3. HeadersToProcess \subseteq Blocks
  BY DEF HeadersToProcess, TypeOK
<1>4. TypeOK'
  BY ZenonT(60), <1>2, <1>3 DEF TypeOK, store, Steps
<1>5. DiskBehindMemory' /\ MarkersExclusive' /\ SavedChainIndexed'
  BY DEF DiskBehindMemory, MarkersExclusive, SavedChainIndexed, store
<1>6. UpdateLocals' /\ TipSaved'
  BY DEF UpdateLocals, TipSaved, store
<1> QED
  BY <1>4, <1>5, <1>6

\* Indexer::add only adds blocks to txstore_db, on disk or in its memtable.
LEMMA AddBatchInvariant ==
    ASSUME IndexerInvariant, NEW bs \in FetchBatches, AddBatch(bs)
    PROVE  IndexerInvariant'
<1> USE ZenonT(60)
<1> USE DEF IndexerInvariant
<1>1. bs \subseteq Blocks
  BY SMT DEF FetchBatches, TypeOK
<1>2. /\ txst' = [txst EXCEPT !.added = @ \cup bs]
      /\ txstD' = IF flush = "Enable" THEN [txstD EXCEPT !.added = @ \cup bs] ELSE txstD
  BY SMT DEF AddBatch, WriteTxstore
<1>3. txst' \in TxStore /\ txst'.added = txst.added \cup bs /\ txst'.tip = txst.tip
  BY <1>1, <1>2 DEF TypeOK, TxStore
<1>4. txstD' \in TxStore /\ txstD.added \subseteq txstD'.added /\ txstD'.tip = txstD.tip
      /\ txstD'.added \subseteq txstD.added \cup bs
  BY <1>1, <1>2 DEF TypeOK, TxStore
<1>5. TypeOK'
  BY <1>1, <1>3, <1>4 DEF TypeOK, AddBatch, Steps
<1>6. DiskBehindMemory'
  BY <1>2, <1>3, <1>4 DEF DiskBehindMemory, AddBatch
<1>7. MarkersExclusive' /\ SavedChainIndexed'
  BY SMT, <1>4 DEF MarkersExclusive, SavedChainIndexed, AddBatch
<1>8. UpdateLocals' /\ TipSaved'
  BY SMT, <1>3 DEF UpdateLocals, TipSaved, AddBatch
<1> QED
  BY <1>5, <1>6, <1>7, <1>8

\* Indexer::index only adds done-markers, and removes the undo markers of the blocks
\* it indexes.
LEMMA IndexBatchInvariant ==
    ASSUME IndexerInvariant, IndexBatch
    PROVE  IndexerInvariant'
<1> USE ZenonT(60)
<1> USE DEF IndexerInvariant
<1> DEFINE bs == batch \ hist.done
<1>1. bs \in SUBSET Blocks /\ hist \in HistoryDB /\ histD \in HistoryDB
  BY DEF TypeOK
<1>2. hist' = PutIndex(hist, bs) /\ histD' = IF flush = "Enable" THEN PutIndex(histD, bs) ELSE histD
  BY SMT DEF IndexBatch, WriteHistory
<1> HIDE DEF bs
<1>3. hist' \in HistoryDB /\ hist'.done = hist.done \cup bs /\ hist'.undo = hist.undo \ bs
  BY <1>1, <1>2, PutIndexType
<1>4. /\ histD' \in HistoryDB /\ histD.done \subseteq histD'.done
      /\ histD'.done \subseteq histD.done \cup bs
      /\ histD.done \cap histD.undo = {} => histD'.done \cap histD'.undo = {}
  BY <1>1, <1>2, PutIndexType
<1>5. TypeOK'
  BY <1>3, <1>4 DEF TypeOK, IndexBatch, Steps
<1>6. DiskBehindMemory'
  BY <1>2, <1>3, <1>4 DEF DiskBehindMemory, IndexBatch
<1>7. MarkersExclusive' /\ SavedChainIndexed'
  BY SMT, <1>3, <1>4 DEF MarkersExclusive, SavedChainIndexed, IndexBatch
<1>8. UpdateLocals' /\ TipSaved'
  BY SMT DEF UpdateLocals, TipSaved, IndexBatch
<1> QED
  BY <1>5, <1>6, <1>7, <1>8

\* Blocks indexed above a gap are not published blocks.
LEMMA RememberUncommittedInvariant ==
    ASSUME IndexerInvariant, RememberUncommitted
    PROVE  IndexerInvariant'
<1> USE ZenonT(60)
<1> USE DEF IndexerInvariant
<1>1. RememberedAbove \subseteq newHdrs /\ newHdrs \subseteq Blocks
  BY DEF RememberedAbove, TypeOK
<1>2. TypeOK'
  BY <1>1 DEF TypeOK, RememberUncommitted, store, locals, Steps
<1>3. DiskBehindMemory' /\ MarkersExclusive' /\ SavedChainIndexed'
  BY DEF DiskBehindMemory, MarkersExclusive, SavedChainIndexed, RememberUncommitted, store, TypeOK
<1>4. UpdateLocals' /\ TipSaved'
  BY SMT, <1>1 DEF UpdateLocals, TipSaved, RememberUncommitted, store, locals
<1> QED
  BY <1>2, <1>3, <1>4

\* finish_sync_writes and the flushes RocksDB does on its own.
LEMMA FlushInvariant ==
    ASSUME IndexerInvariant, FlushTxstore \/ FlushHistory \/ BackgroundFlush
    PROVE  IndexerInvariant'
<1> USE ZenonT(60)
<1> USE DEF IndexerInvariant
<1>1. UNCHANGED <<best, txst, hist, headTip, uncommitted, from, failedAt, locals, budget>>
  BY SMT DEF FlushTxstore, FlushHistory, BackgroundFlush
<1> USE <1>1
<1>2. txstD' \in {txstD, txst} /\ histD' \in {histD, hist}
  BY DEF FlushTxstore, FlushHistory, BackgroundFlush
<1>3. TypeOK'
  <2>1. txstD' \in TxStore /\ histD' \in HistoryDB
    BY <1>2 DEF TypeOK
  <2>2. flush' \in {"Enable", "Disable"} /\ pc' \in Steps
    BY DEF TypeOK, FlushTxstore, FlushHistory, BackgroundFlush, Steps
  <2> QED
    BY <2>1, <2>2 DEF TypeOK, locals
<1>4. DiskBehindMemory'
  BY DEF DiskBehindMemory, FlushTxstore, FlushHistory, BackgroundFlush
<1>5. MarkersExclusive' /\ SavedChainIndexed'
  BY <1>2 DEF MarkersExclusive, SavedChainIndexed, DiskBehindMemory
<1>6. UpdateLocals' /\ TipSaved'
  BY DEF UpdateLocals, TipSaved, FlushTxstore, FlushHistory, BackgroundFlush, locals
<1> QED
  BY <1>3, <1>4, <1>5, <1>6

\* The tip moves forward, on disk and in memory, over blocks that are complete
\* and flushed.
LEMMA CommitInvariant ==
    ASSUME IndexerInvariant, Commit
    PROVE  IndexerInvariant'
<1> USE ZenonT(60)
<1> USE DEF IndexerInvariant
<1>1. /\ pc = "commit" /\ flush = "Enable" /\ txstD = txst /\ histD = hist
      /\ headTip = txst.tip /\ tip \in Blocks /\ newHdrs = Chain(tip) \ Chain(headTip)
      /\ Chain(headTip) \subseteq txst.added \cap hist.done
  BY SMT DEF Commit, DiskBehindMemory, TipSaved, UpdateLocals, SavedChainIndexed
<1> USE <1>1
<1>2. SyncedTip \in Blocks /\ Anc[SyncedTip] \subseteq txst.added \cap hist.done
  <2>1. CASE CompletedPrefix = {}
    BY <2>1 DEF SyncedTip, Commit, TypeOK, Chain
  <2>2. CASE CompletedPrefix # {}
    <3>1. CompletedPrefix \in SUBSET Anc[tip] /\ CompletedPrefix \subseteq newHdrs
      BY SMT, TreeAssumption DEF CompletedPrefix, Chain
    <3>2. SyncedTip \in CompletedPrefix
      BY <2>2, <3>1, TopInChain DEF SyncedTip
    <3>3. SyncedTip \in Blocks /\ Anc[SyncedTip] \subseteq Anc[tip]
      BY <3>1, <3>2, TreeAssumption
    <3>4. Anc[SyncedTip] \subseteq newHdrs \cup Chain(headTip)
      BY <3>3, TreeAssumption DEF Chain
    <3>5. Anc[SyncedTip] \cap newHdrs \subseteq txst.added \cap hist.done
      BY ZenonT(60), <3>2 DEF CompletedPrefix
    <3> QED
      BY <3>3, <3>4, <3>5
  <2> QED
    BY <2>1, <2>2
<1> USE <1>2
<1>3. Chain(SyncedTip) = Anc[SyncedTip]
  BY SMT, TreeAssumption DEF Chain
<1>4. txst' = [txst EXCEPT !.tip = SyncedTip] /\ txstD' = [txstD EXCEPT !.tip = SyncedTip]
      /\ headTip' = SyncedTip /\ uncommitted' = uncommitted \ Anc[SyncedTip] /\ pc' = "idle"
      /\ UNCHANGED <<best, hist, histD, flush, from, failedAt, budget>>
  BY SMT DEF Commit, WriteTxstore, StillUncommitted
<1> USE <1>4
<1>5. txst' \in TxStore /\ txst'.added = txst.added /\ txst'.tip = SyncedTip /\ txstD' = txst'
  BY DEF TypeOK, TxStore
<1> USE <1>5
<1>6. TypeOK'
  BY DEF TypeOK, Commit, LocalsReset, Steps
<1>7. DiskBehindMemory' /\ MarkersExclusive'
  BY DEF DiskBehindMemory, MarkersExclusive
<1>8. SavedChainIndexed'
  BY <1>3 DEF SavedChainIndexed
<1>9. UpdateLocals' /\ TipSaved'
  BY SMT, <1>3 DEF UpdateLocals, TipSaved, Commit, LocalsReset
<1> QED
  BY <1>6, <1>7, <1>8, <1>9

\* Every step of the indexer and of its environment preserves the invariant.
LEMMA NextInvariant == IndexerInvariant /\ [Next]_vars => IndexerInvariant'
<1> USE ZenonT(60)
<1> SUFFICES ASSUME IndexerInvariant, [Next]_vars
             PROVE  IndexerInvariant'
  BY SMT
<1>1. CASE BeginUpdate
  BY SMT, <1>1, BeginUpdateInvariant
<1>2. CASE Cleanup
  BY <1>2, MarkReorgInvariant, PopHeadersInvariant, SaveAncestorInvariant, MarkStaleInvariant,
     UndoBatchInvariant, UndoByScanInvariant, UndoDoneInvariant, FinishRewriteInvariant DEF Cleanup
<1>3. CASE Fetch
  <2>1. CASE IndexPanics
    BY ZenonT(60), <2>1, RestartInvariant DEF IndexPanics, IndexerInvariant, TypeOK
  <2> QED
    BY <1>3, <2>1, FetchStepInvariant, AddBatchInvariant, IndexBatchInvariant DEF Fetch
<1>4. CASE Publish
  <2>1. CASE CommitNothing
    BY <2>1, RestartInvariant DEF CommitNothing, IndexerInvariant, TypeOK
  <2> QED
    BY <1>4, <2>1, RememberUncommittedInvariant, FlushInvariant, CommitInvariant DEF Publish
<1>5. CASE DaemonReorg
  <2>1. budget' \in [reorg : Nat, crash : Nat, fail : Nat] /\ best' \in Blocks
    BY SMT, <1>5 DEF DaemonReorg, IndexerInvariant, TypeOK
  <2>2. UNCHANGED <<store, headTip, uncommitted, flush, from, failedAt, pc, locals>>
    BY <1>5 DEF DaemonReorg
  <2>3. TypeOK'
    BY <2>1, <2>2 DEF IndexerInvariant, TypeOK, store, locals
  <2> QED
    BY <2>2, <2>3 DEF IndexerInvariant, DiskBehindMemory, MarkersExclusive, UpdateLocals, TipSaved,
                      SavedChainIndexed, store, locals
<1>6. CASE Crash
  <2>1. budget' \in [reorg : Nat, crash : Nat, fail : Nat]
    BY SMT, <1>6 DEF Crash, IndexerInvariant, TypeOK
  <2> QED
    BY <1>6, <2>1, RestartInvariant DEF Crash
<1>7. CASE BackgroundFlush \/ CleanupFails \/ FetchFails \/ \E b \in Blocks : RewriteBatch(Height(b))
  BY <1>7, FlushInvariant, CleanupFailsInvariant, FetchStepInvariant, RewriteBatchInvariant
<1>8. CASE UNCHANGED vars
  <2>1. UNCHANGED <<store, headTip, uncommitted, flush, from, failedAt, pc, locals, best, budget>>
    BY <1>8 DEF vars, store, locals
  <2>2. TypeOK'
    BY ZenonT(60), <2>1 DEF IndexerInvariant, TypeOK, store, locals
  <2> QED
    BY <2>1, <2>2 DEF IndexerInvariant, DiskBehindMemory, MarkersExclusive, UpdateLocals, TipSaved,
                      SavedChainIndexed, store, locals
<1>9. CASE Update
  BY <1>1, <1>2, <1>3, <1>4, <1>9 DEF Update
<1>10. CASE Poll
  BY SMT, <1>8, <1>10 DEF Poll
<1>11. CASE Environment
  BY SMT, <1>5, <1>6, <1>7, <1>11 DEF Environment
<1> QED
  BY SMT, <1>8, <1>9, <1>10, <1>11 DEF Next

\* The inductive invariant holds in every state of every run of the indexer.
THEOREM InvariantHolds == Spec => []IndexerInvariant
  BY InitInvariant, NextInvariant, PTL DEF Spec

\* Type correctness of the databases and of the locals of Indexer::update.
THEOREM TypeCorrect == Spec => []TypeOK
<1>1. IndexerInvariant => TypeOK
  BY DEF IndexerInvariant
<1> QED
  BY <1>1, InvariantHolds, PTL

\* Crash safety: for every block tree, batch size and import mode, and any number
\* of reorgs, crashes and failures, the chain that load_headers finds on disk is
\* completely indexed on disk, so Store::open never walks back and never panics.
THEOREM SavedChainSafe == Spec => []SavedChainIndexed
<1>1. IndexerInvariant => SavedChainIndexed
  BY DEF IndexerInvariant
<1> QED
  BY <1>1, InvariantHolds, PTL

\* Queries only see complete blocks: every block of the published headers has its
\* transactions in txstore_db and its history in history_db at every moment.
THEOREM PublishedBlocksComplete == Spec => []PublishedChainIndexed
<1>1. IndexerInvariant => PublishedChainIndexed
  <2> SUFFICES ASSUME IndexerInvariant
               PROVE  Chain(headTip) \subseteq txst.added \cap hist.done
    BY DEF PublishedChainIndexed
  <2>1. Chain(txst.tip) \subseteq txst.added \cap hist.done
    BY DEF IndexerInvariant, SavedChainIndexed, DiskBehindMemory
  <2>2. Chain(headTip) \subseteq Chain(txst.tip)
    <3>1. CASE pc = "save"
      BY ZenonT(60), <3>1, TreeAssumption DEF IndexerInvariant, TipSaved, TypeOK, TxStore, Chain
    <3>2. CASE pc # "save"
      BY <3>2 DEF IndexerInvariant, TipSaved
    <3> QED
      BY ZenonT(60), <3>1, <3>2
  <2> QED
    BY ZenonT(60), <2>1, <2>2
<1> QED
  BY <1>1, InvariantHolds, PTL

----------------------------------------------------------------------------
(* Proofs about the cleanup of stale blocks in Indexer: no history row is  *)
(* ever without a marker by which a later update or a restart finds it,    *)
(* and the set of uncommitted blocks that a running indexer keeps is the   *)
(* one a restart would compute, for every block tree and every database.   *)
(* An import over RPC always finds the outputs that its blocks spend.      *)

\* What CleanupInvariant adds to IndexerInvariant.
Tracking == CleanupOnDisk /\ UncommittedKnown /\ UndoPending /\ RowsMarked

----------------------------------------------------------------------------
(* What the database operations do to the history rows *)

\* Indexer::index puts the rows of its blocks and removes none.
LEMMA PutIndexRows ==
    ASSUME NEW hs \in HistoryDB, NEW bs \in SUBSET Blocks
    PROVE  PutIndex(hs, bs).rows = hs.rows \cup RowsOf(bs)
<1>1. PutSingleValued(hs, bs).rows = hs.rows /\ PutSingleValued(hs, bs) \in HistoryDB
  BY PutSingleValuedType
<1> HIDE DEF PutSingleValued
<1> QED
  BY ZenonT(60), <1>1 DEF PutIndex, HistoryDB

\* A deletion batch of the cleanup deletes the rows it names.
LEMMA DeleteIndexRows ==
    ASSUME NEW hs \in HistoryDB, NEW rows, NEW bs, NEW del, NEW put
    PROVE  DeleteIndex(hs, rows, bs, del, put).rows = hs.rows \ rows
  BY ZenonT(60) DEF DeleteIndex, HistoryDB

\* Writing R deletes no row.
LEMMA BeginRewriteRows ==
    ASSUME NEW hs \in HistoryDB, NEW height \in Nat
    PROVE  BeginRewrite(hs, height).rows = hs.rows
  BY ZenonT(60) DEF BeginRewrite, HistoryDB

\* The rewrite of C and S rows leaves the history rows alone.
LEMMA RewrittenRows ==
    ASSUME IndexerInvariant, NEW hs \in HistoryDB, NEW upto
    PROVE  Rewritten(hs, upto).rows = hs.rows
<1> DEFINE bs == {a \in Active : hist.rewrite <= Height(a) /\ Height(a) <= upto}
<1>1. Chain(headTip) \subseteq Blocks /\ newHdrs \subseteq Blocks
  BY TreeAssumption DEF Chain, IndexerInvariant, TypeOK
<1>2. bs \in SUBSET Blocks
  BY <1>1 DEF Active
<1>3. Rewritten(hs, upto) = PutSingleValued(hs, bs)
  BY DEF Rewritten
<1> HIDE DEF bs
<1> QED
  BY ZenonT(60), <1>2, <1>3, PutSingleValuedType

\* More blocks have more rows.
LEMMA RowsOfMonotone ==
    ASSUME NEW as, NEW bs, as \subseteq bs
    PROVE  RowsOf(as) \subseteq RowsOf(bs)
  BY ZenonT(60) DEF RowsOf

\* Every published block is indexed.
LEMMA PublishedDone ==
    ASSUME IndexerInvariant
    PROVE  Chain(headTip) \subseteq hist.done
<1>1. Chain(txst.tip) \subseteq hist.done
  BY DEF IndexerInvariant, SavedChainIndexed, DiskBehindMemory
<1>2. CASE pc = "save"
  BY ZenonT(60), <1>1, <1>2, TreeAssumption DEF IndexerInvariant, TipSaved, TypeOK, TxStore, Chain
<1>3. CASE pc # "save"
  BY <1>1, <1>3 DEF IndexerInvariant, TipSaved
<1> QED
  BY <1>2, <1>3

\* The blocks that ActiveChainView sees are indexed, and unpublished blocks of the
\* chain being indexed are uncommitted.
LEMMA ActiveDone ==
    ASSUME IndexerInvariant, pc \notin {"start", "idle"}
    PROVE  /\ Active \subseteq hist.done
           /\ newHdrs \cap hist.done \subseteq UncommittedBlocks(hist, headTip)
<1>1. newHdrs \cap Chain(headTip) = {}
  BY DEF IndexerInvariant, UpdateLocals
<1> QED
  BY ZenonT(60), <1>1, PublishedDone DEF Active, UncommittedBlocks

\* The row of a deferred input is a row of the block that holds the input.
LEMMA PendingRows ==
    ASSUME NEW ps, \A p \in ps : p[2] \in TxsOf[p[1]] /\ p[3] \in Spends[p[2]]
    PROVE  SpendRows(ps) \subseteq RowsOf(Holders(ps))
<1> SUFFICES ASSUME NEW p \in ps
             PROVE  <<Height(p[1]), p[2], p[3]>> \in RowsOf(Holders(ps))
  BY DEF SpendRows
<1>1. p[2] \in TxsOf[p[1]] /\ p[3] \in Spends[p[2]] /\ p[1] \in Holders(ps)
  BY DEF Holders
<1> QED
  BY <1>1 DEF RowsOf, HistoryRows

\* The deferred inputs are of blocks that have an undo marker, so every row that is
\* left is of a block with a marker.
LEMMA MarkedRows ==
    ASSUME CleanupInvariant
    PROVE  hist.rows \subseteq RowsOf(hist.done \cup hist.undo)
<1>1. SpendRows(pend) \subseteq RowsOf(Holders(pend))
  BY ZenonT(60), PendingRows DEF CleanupInvariant, UndoPending
<1>2. Holders(pend) \subseteq hist.undo
  BY DEF CleanupInvariant, UndoPending
<1>3. /\ RowsOf(Holders(pend)) \subseteq RowsOf(hist.done \cup hist.undo)
      /\ RowsOf(hist.done \cup (hist.undo \ Holders(pend))) \subseteq RowsOf(hist.done \cup hist.undo)
  BY <1>2, RowsOfMonotone
<1> QED
  BY ZenonT(60), <1>1, <1>3 DEF CleanupInvariant, RowsMarked

\* A row that ActiveChainView owns (owns_history_row) is a row of a block of its chain.
LEMMA OwnedRows ==
    ASSUME NEW b, NEW r \in HistoryRows(b), Owned(r)
    PROVE  \E a \in Active : r \in HistoryRows(a)
<1>1. PICK t \in TxsOf[b] : \E o \in Spends[t] \cup {None} : r = <<Height(b), t, o>>
  BY DEF HistoryRows
<1>2. PICK a \in Active : Height(a) = r[1] /\ r[2] \in TxsOf[a]
  BY DEF Owned
<1>3. Height(a) = Height(b) /\ t \in TxsOf[a]
  BY <1>1, <1>2
<1> QED
  BY <1>1, <1>3 DEF HistoryRows

----------------------------------------------------------------------------
(* Steps that change no marker and no history row *)

\* A step that leaves markers, history rows and the memory of the indexer alone,
\* between two steps of the cleanup or two of the import, keeps track.
LEMMA QuietTracks ==
    ASSUME CleanupInvariant, CleanupOnDisk',
           hist'.done = hist.done, hist'.undo = hist.undo, hist'.rows = hist.rows,
           histD'.rows \subseteq RowsOf(histD'.done \cup histD'.undo),
           UNCHANGED <<headTip, uncommitted, newHdrs, queue, pend, stale>>,
           \/ pc' = pc /\ txst'.added = txst.added
           \/ (pc = "mark" /\ pc' = "pop") \/ (pc = "rewrite" /\ pc' = "plan")
           \/ pc \in {"plan", "fetch", "index"} /\ pc' \in {"fetch", "index", "complete"}
           \/ /\ pc \in {"flushTxstore", "flushHistory"} /\ pc' \in {"flushHistory", "commit"}
              /\ txst'.added = txst.added
    PROVE  Tracking'
<1>1. UncommittedBlocks(hist, headTip)' = UncommittedBlocks(hist, headTip)
  BY DEF UncommittedBlocks
<1> USE <1>1
<1>2. UncommittedKnown'
  <2>1. CASE pc' = pc /\ txst'.added = txst.added
    <3>1. CompletedPrefix' = CompletedPrefix
      BY <2>1 DEF CompletedPrefix
    <3> QED
      BY ZenonT(60), <2>1, <3>1 DEF CleanupInvariant, UncommittedKnown
  <2>2. CASE (pc = "mark" /\ pc' = "pop") \/ (pc = "rewrite" /\ pc' = "plan")
    BY <2>2 DEF CleanupInvariant, UncommittedKnown
  <2>3. CASE pc \in {"plan", "fetch", "index"} /\ pc' \in {"fetch", "index", "complete"}
    <3>1. newHdrs \cap hist.done \subseteq UncommittedBlocks(hist, headTip)
      BY <2>3, ActiveDone DEF CleanupInvariant
    <3> QED
      BY ZenonT(60), <2>3, <3>1 DEF CleanupInvariant, UncommittedKnown
  <2>4. CASE /\ pc \in {"flushTxstore", "flushHistory"} /\ pc' \in {"flushHistory", "commit"}
             /\ txst'.added = txst.added
    <3>1. CompletedPrefix' = CompletedPrefix
      BY ZenonT(60), <2>4 DEF CompletedPrefix
    <3> QED
      BY ZenonT(60), <2>4, <3>1 DEF CleanupInvariant, UncommittedKnown
  <2> QED
    BY ZenonT(60), <2>1, <2>2, <2>3, <2>4
<1>3. UndoPending'
  BY DEF CleanupInvariant, UndoPending
<1>4. RowsMarked'
  BY ZenonT(60) DEF CleanupInvariant, RowsMarked
<1> QED
  BY ZenonT(60), <1>2, <1>3, <1>4 DEF Tracking

\* Writing R changes no marker of a block and no row.
LEMMA MarkReorgTracks ==
    ASSUME CleanupInvariant, MarkReorg
    PROVE  Tracking'
<1>1. ChainLen(fork) \in Nat /\ hist \in HistoryDB /\ histD = hist /\ txstD = txst
  BY ChainLenNat DEF CleanupInvariant, IndexerInvariant, TypeOK, CleanupOnDisk, MarkReorg
<1>2. hist' = BeginRewrite(hist, ChainLen(fork)) /\ histD' = BeginRewrite(histD, ChainLen(fork))
  BY DEF MarkReorg, WriteHistory
<1>3. hist'.done = hist.done /\ hist'.undo = hist.undo /\ hist'.rows = hist.rows /\ histD' = hist'
  BY <1>1, <1>2, BeginRewriteType, BeginRewriteRows
<1>4. histD'.rows \subseteq RowsOf(histD'.done \cup histD'.undo)
  BY ZenonT(60), <1>1, <1>3 DEF CleanupInvariant, RowsMarked
<1>5. CleanupOnDisk'
  BY <1>1, <1>3 DEF MarkReorg, CleanupOnDisk
<1>6. pc = "mark" /\ pc' = "pop" /\ UNCHANGED <<headTip, uncommitted, newHdrs, queue, pend, stale>>
  BY DEF MarkReorg, locals
<1> QED
  BY ZenonT(60), <1>3, <1>4, <1>5, <1>6, QuietTracks

\* finish_rewrite changes C and S rows only, and R.
LEMMA RewriteTracks ==
    ASSUME CleanupInvariant, (\E b \in Blocks : RewriteBatch(Height(b))) \/ FinishRewrite
    PROVE  Tracking'
<1>1. hist \in HistoryDB /\ pc = "rewrite" /\ histD = hist /\ txstD = txst /\ IndexerInvariant
  BY ZenonT(60) DEF CleanupInvariant, IndexerInvariant, TypeOK, CleanupOnDisk, RewriteBatch, FinishRewrite
<1> USE <1>1
<1>2. PICK upto : /\ hist' \in {Rewritten(hist, upto), [Rewritten(hist, upto) EXCEPT !.rewrite = None]}
                  /\ histD' = hist'
  BY DEF RewriteBatch, FinishRewrite, WriteHistory
<1>3. PICK rs \in HistoryDB : rs = Rewritten(hist, upto) /\ rs.done = hist.done /\ rs.undo = hist.undo
                              /\ rs.rows = hist.rows
  BY RewrittenType, RewrittenRows
<1>4. hist' = rs \/ hist' = [rs EXCEPT !.rewrite = None]
  BY <1>2, <1>3
<1>5. hist'.done = hist.done /\ hist'.undo = hist.undo /\ hist'.rows = hist.rows
  BY <1>3, <1>4 DEF HistoryDB
<1>6. pc' \in {"rewrite", "plan"} /\ UNCHANGED <<txst, txstD, headTip, uncommitted, newHdrs, queue, pend, stale>>
  BY ZenonT(60) DEF RewriteBatch, FinishRewrite, locals
<1>7. CleanupOnDisk'
  BY <1>2, <1>6 DEF CleanupOnDisk
<1>8. histD'.rows \subseteq RowsOf(histD'.done \cup histD'.undo)
  BY ZenonT(60), <1>2, <1>5 DEF CleanupInvariant, RowsMarked
<1> QED
  BY ZenonT(60), <1>5, <1>6, <1>7, <1>8, QuietTracks

\* Choosing what to fetch, and adding blocks to txstore_db, change no history.
LEMMA FetchTracks ==
    ASSUME CleanupInvariant, PlanFetch \/ FetchDone \/ FetchFails \/ \E bs \in FetchBatches : AddBatch(bs)
    PROVE  Tracking'
<1>1. /\ UNCHANGED <<hist, histD, headTip, uncommitted, newHdrs, queue, pend, stale>>
      /\ pc \in {"plan", "fetch"} /\ pc' \in {"fetch", "index", "complete"}
  BY ZenonT(60) DEF PlanFetch, FetchDone, FetchFails, AddBatch, locals, store
<1>2. CleanupOnDisk'
  BY <1>1 DEF CleanupOnDisk
<1>3. histD'.rows \subseteq RowsOf(histD'.done \cup histD'.undo)
  BY <1>1 DEF CleanupInvariant, RowsMarked
<1> QED
  BY <1>1, <1>2, <1>3, QuietTracks

\* A flush brings the disk nearer to what is in memory.
LEMMA FlushTracks ==
    ASSUME CleanupInvariant, FlushTxstore \/ FlushHistory \/ BackgroundFlush
    PROVE  Tracking'
<1>1. UNCHANGED <<txst, hist, headTip, uncommitted, newHdrs, queue, pend, stale>>
  BY DEF FlushTxstore, FlushHistory, BackgroundFlush, locals
<1>2. txstD' \in {txstD, txst} /\ histD' \in {histD, hist}
  BY ZenonT(60) DEF FlushTxstore, FlushHistory, BackgroundFlush
<1>3. \/ pc' = pc
      \/ pc \in {"flushTxstore", "flushHistory"} /\ pc' \in {"flushHistory", "commit"}
  BY DEF FlushTxstore, FlushHistory, BackgroundFlush
<1>4. CleanupOnDisk'
  BY ZenonT(60), <1>1, <1>2, <1>3 DEF CleanupOnDisk, CleanupInvariant
<1>5. histD'.rows \subseteq RowsOf(histD'.done \cup histD'.undo)
  <2>1. CASE histD' = histD
    BY <2>1 DEF CleanupInvariant, RowsMarked
  <2>2. CASE histD' = hist
    BY ZenonT(60), <2>2, MarkedRows DEF CleanupInvariant
  <2> QED
    BY ZenonT(60), <1>2, <2>1, <2>2
<1> QED
  BY ZenonT(60), <1>1, <1>3, <1>4, <1>5, QuietTracks

\* bitcoind's chain moves, or nothing happens.
LEMMA StutterTracks ==
    ASSUME CleanupInvariant, UNCHANGED <<store, headTip, uncommitted, pc, locals>>
    PROVE  Tracking'
<1>1. UNCHANGED <<txst, txstD, hist, histD, headTip, uncommitted, newHdrs, queue, pend, stale, pc>>
  BY DEF store, locals
<1>2. CleanupOnDisk'
  BY ZenonT(60), <1>1 DEF CleanupOnDisk, CleanupInvariant
<1>3. histD'.rows \subseteq RowsOf(histD'.done \cup histD'.undo)
  BY <1>1 DEF CleanupInvariant, RowsMarked
<1> QED
  BY ZenonT(60), <1>1, <1>2, <1>3, QuietTracks

----------------------------------------------------------------------------
(* The start *)

\* Indexer::open on an empty or a legacy database: every row is of an indexed block.
LEMMA InitTracks == Init => Tracking /\ HeadersContinue
<1> USE ZenonT(60)
<1> SUFFICES ASSUME Init PROVE Tracking /\ HeadersContinue
  BY SMT
<1>1. hist.rows = RowsOf(hist.done) /\ hist.undo = {}
  <2>1. CASE LegacyTip = None
    <3>1. hist = EmptyHistory
      BY <2>1 DEF Init
    <3>2. RowsOf({}) = {}
      BY DEF RowsOf
    <3> QED
      BY <3>1, <3>2 DEF EmptyHistory
  <2>2. CASE LegacyTip # None
    <3> DEFINE bs == Anc[LegacyTip] \cup LegacyStale
    <3>1. PICK c, e : hist = [EmptyHistory EXCEPT !.done = bs, !.rows = RowsOf(bs), !.conf = c, !.edge = e]
      BY <2>2 DEF Init, LegacyHistory
    <3> HIDE DEF bs
    <3> QED
      BY <3>1 DEF EmptyHistory
  <2> QED
    BY <2>1, <2>2
<1>2. hist.done \cup (hist.undo \ Holders(pend)) = hist.done /\ histD = hist /\ txstD = txst /\ pend = {}
      /\ hist.done \cup hist.undo = hist.done /\ Holders(pend) = {}
  BY <1>1 DEF Init, Holders
<1>3. CleanupOnDisk /\ HeadersContinue
  BY <1>2 DEF Init, CleanupOnDisk, HeadersContinue
<1>4. UncommittedKnown
  BY DEF Init, UncommittedKnown
<1>5. UndoPending
  BY <1>2 DEF Init, UndoPending
<1>6. RowsMarked
  BY <1>1, <1>2 DEF RowsMarked
<1> QED
  BY ZenonT(60), <1>3, <1>4, <1>5, <1>6 DEF Tracking

\* A restart computes the uncommitted blocks from the markers it finds.
LEMMA RestartTracks ==
    ASSUME CleanupInvariant, Restart
    PROVE  Tracking'
<1> USE ZenonT(60)
<1>1. /\ hist' = histD /\ histD' = histD /\ txst' = txstD /\ txstD' = txstD /\ pc' = "start"
      /\ uncommitted' = UncommittedBlocks(hist', headTip') /\ pend' = {} /\ stale' = {} /\ queue' = {}
  BY ZenonT(60) DEF Restart, LocalsReset
<1> USE <1>1
<1>2. Holders(pend') = {} /\ hist'.done \cup (hist'.undo \ Holders(pend')) = histD.done \cup histD.undo
  BY SMT DEF Holders
<1>3. CleanupOnDisk'
  BY SMT DEF CleanupOnDisk
<1>4. UncommittedKnown'
  BY DEF UncommittedKnown
<1>5. UndoPending'
  BY <1>2 DEF UndoPending
<1>6. RowsMarked'
  BY <1>2 DEF RowsMarked, CleanupInvariant
<1> QED
  BY <1>3, <1>4, <1>5, <1>6 DEF Tracking

----------------------------------------------------------------------------
(* The steps of the cleanup *)

\* clean_up_stale_blocks starts with the blocks that are not of the chain to index.
LEMMA BeginUpdateTracks ==
    ASSUME CleanupInvariant, BeginUpdate
    PROVE  Tracking'
<1>1. /\ pc \in {"start", "idle"} /\ pc' \in {"mark", "stale", "rewrite", "plan"}
      /\ stale' = uncommitted \ newHdrs'
      /\ UNCHANGED <<txst, txstD, hist, histD, headTip, uncommitted, queue, pend>>
  BY ZenonT(60) DEF BeginUpdate, UpdateDue, StaleUncommitted, store
<1> USE <1>1
<1>2. pend = {} /\ Holders(pend) = {}
  BY DEF CleanupInvariant, UndoPending, Holders
<1>3. CleanupOnDisk'
  BY DEF CleanupInvariant, CleanupOnDisk
<1>4. UncommittedKnown'
  BY DEF CleanupInvariant, UncommittedKnown
<1>5. UndoPending'
  BY <1>2 DEF UndoPending
<1>6. RowsMarked'
  BY ZenonT(60) DEF CleanupInvariant, RowsMarked
<1> QED
  BY ZenonT(60), <1>3, <1>4, <1>5, <1>6 DEF Tracking

\* The popped headers are indexed blocks, and of no other list of the cleanup.
LEMMA PopHeadersTracks ==
    ASSUME CleanupInvariant, PopHeaders
    PROVE  Tracking'
<1>1. /\ pc = "pop" /\ pc' = "save" /\ queue' = Chain(headTip) \ Chain(fork) /\ headTip' = fork
      /\ UNCHANGED <<txst, txstD, hist, histD, uncommitted, newHdrs, stale, pend>>
  BY ZenonT(60) DEF PopHeaders, PoppedTip, store
<1> USE <1>1
<1>2. /\ Chain(fork) \subseteq Chain(headTip) /\ newHdrs \cap Chain(headTip) = {}
      /\ stale \cap Chain(headTip) = {}
  BY ZenonT(60), TreeAssumption DEF CleanupInvariant, IndexerInvariant, UpdateLocals, Chain
<1>3. Chain(headTip) \subseteq hist.done
  BY ZenonT(60), PublishedDone DEF CleanupInvariant
<1>4. pend = {} /\ Holders(pend) = {}
  BY DEF CleanupInvariant, UndoPending, Holders
<1>5. CleanupOnDisk'
  BY DEF CleanupInvariant, CleanupOnDisk
<1>6. UncommittedKnown'
  <2>1. UncommittedBlocks(hist, headTip) = uncommitted
    BY DEF CleanupInvariant, UncommittedKnown
  <2>2. UncommittedBlocks(hist, headTip)' = uncommitted' \cup queue'
    BY ZenonT(60), <1>2, <1>3, <2>1 DEF UncommittedBlocks
  <2> QED
    BY <2>2 DEF UncommittedKnown
<1>7. UndoPending'
  <2>1. stale \subseteq uncommitted \ newHdrs
    BY DEF CleanupInvariant, UndoPending
  <2> QED
    BY ZenonT(60), <1>2, <1>3, <1>4, <2>1 DEF UndoPending
<1>8. RowsMarked'
  BY ZenonT(60) DEF CleanupInvariant, RowsMarked
<1> QED
  BY ZenonT(60), <1>5, <1>6, <1>7, <1>8 DEF Tracking

\* The popped blocks are remembered when the ancestor is saved.
LEMMA SaveAncestorTracks ==
    ASSUME CleanupInvariant, SaveAncestor
    PROVE  Tracking'
<1>1. /\ pc = "save" /\ pc' = "undo" /\ uncommitted' = uncommitted \cup queue
      /\ UNCHANGED <<hist, histD, headTip, newHdrs, stale, queue, pend>>
      /\ (txstD = txst => txstD' = txst')
  BY ZenonT(60) DEF SaveAncestor, WriteTxstore, AncestorSaved, locals
<1> USE <1>1
<1>2. pend = {} /\ Holders(pend) = {}
  BY DEF CleanupInvariant, UndoPending, Holders
<1>3. CleanupOnDisk'
  BY DEF CleanupInvariant, CleanupOnDisk
<1>4. UncommittedKnown'
  <2>1. UncommittedBlocks(hist, headTip) = uncommitted \cup queue
    BY DEF CleanupInvariant, UncommittedKnown
  <2> QED
    BY <2>1 DEF UncommittedKnown
<1>5. UndoPending'
  <2>1. queue \cap (newHdrs \cup stale) = {} /\ stale \subseteq uncommitted \ newHdrs
    BY DEF CleanupInvariant, UndoPending
  <2> QED
    BY ZenonT(60), <1>2, <2>1 DEF UndoPending
<1>6. RowsMarked'
  BY ZenonT(60) DEF CleanupInvariant, RowsMarked
<1> QED
  BY ZenonT(60), <1>3, <1>4, <1>5, <1>6 DEF Tracking

\* undo_uncommitted_blocks undoes the stale blocks, which are uncommitted.
LEMMA MarkStaleTracks ==
    ASSUME CleanupInvariant, MarkStale
    PROVE  Tracking'
<1> USE ZenonT(60)
<1>1. /\ pc = "stale" /\ pc' = "undo" /\ queue' = stale /\ stale' = {}
      /\ UNCHANGED <<txst, txstD, headTip, uncommitted, newHdrs, pend>>
  BY SMT DEF MarkStale
<1> USE <1>1
<1>2. PICK lowest : hist' = BeginRewrite(hist, lowest) /\ histD' = BeginRewrite(histD, lowest)
  BY DEF MarkStale, WriteHistory
<1>3. hist'.done = hist.done /\ hist'.undo = hist.undo /\ hist'.rows = hist.rows
  BY <1>2 DEF BeginRewrite, CleanupInvariant, IndexerInvariant, TypeOK, HistoryDB
<1>4. txstD = txst /\ histD = hist /\ pend = {} /\ Holders(pend) = {} /\ histD' = hist'
  BY <1>2 DEF CleanupInvariant, CleanupOnDisk, UndoPending, Holders
<1>5. CleanupOnDisk'
  BY SMT, <1>4 DEF CleanupOnDisk
<1>6. UncommittedKnown'
  <2>1. UncommittedBlocks(hist, headTip) = uncommitted
    BY DEF CleanupInvariant, UncommittedKnown
  <2>2. UncommittedBlocks(hist, headTip)' = UncommittedBlocks(hist, headTip)
    BY <1>3 DEF UncommittedBlocks
  <2> QED
    BY <2>1, <2>2 DEF UncommittedKnown
<1>7. UndoPending'
  <2>1. stale \subseteq uncommitted \ newHdrs
    BY SMT DEF CleanupInvariant, UndoPending
  <2> QED
    BY <1>4, <2>1 DEF UndoPending
<1>8. RowsMarked'
  BY <1>3, <1>4 DEF CleanupInvariant, RowsMarked
<1> QED
  BY <1>5, <1>6, <1>7, <1>8 DEF Tracking

\* A deletion batch of the cleanup, with the markers it leaves, keeps the set of
\* uncommitted blocks: bs are undone, the blocks of put keep an undo marker.
LEMMA DeletionKnown ==
    ASSUME CleanupInvariant, pc = "undo", pc' = "undo", headTip' = headTip,
           NEW bs, NEW del, NEW put, bs \subseteq uncommitted, put \subseteq bs,
           bs \ put \subseteq del, del \subseteq (bs \ put) \cup hist.undo, del \cap put = {},
           hist'.done = hist.done \ bs, hist'.undo = (hist.undo \ del) \cup put,
           uncommitted' = uncommitted \ del
    PROVE  UncommittedKnown'
<1>1. UncommittedBlocks(hist, headTip) = uncommitted
  BY DEF CleanupInvariant, UncommittedKnown
<1>2. hist.done \cap hist.undo = {}
  BY DEF CleanupInvariant, IndexerInvariant, MarkersExclusive
<1>3. UncommittedBlocks(hist, headTip)' = ((hist.done \ bs) \ Chain(headTip)) \cup (hist.undo \ del) \cup put
  BY DEF UncommittedBlocks
<1>4. ASSUME NEW x PROVE x \in UncommittedBlocks(hist, headTip)' <=> x \in uncommitted'
  BY ZenonT(60), <1>1, <1>2, <1>3 DEF UncommittedBlocks
<1>5. UncommittedBlocks(hist, headTip)' = uncommitted'
  BY <1>4
<1> QED
  BY <1>5 DEF UncommittedKnown

\* A batch of undo_index_or_defer: what it does not delete is owned by the chain, or
\* is of a block that keeps a marker, or is a deferred input's.
LEMMA UndoBatchTracks ==
    ASSUME CleanupInvariant, NEW bs \in UndoBatches, UndoBatch(bs)
    PROVE  Tracking'
<1> USE ZenonT(60)
<1> DEFINE resolved == {p \in pend : p[3] \in OutputsOf(bs)}
           missing == InputsOf(bs) \ (OutputsOf(txst.added) \cup OutputsOf(bs))
           deferred == {p \in bs \X Txs \X missing : p[2] \in TxsOf[p[1]] /\ p[3] \in Spends[p[2]]}
           left == (pend \ resolved) \cup deferred
           released == Holders(resolved) \ Holders(left)
           rows == (RowsOf(bs) \ SpendRows(deferred)) \cup SpendRows(resolved)
           finished == (bs \ Holders(deferred)) \cup released
           unowned == {r \in rows : ~Owned(r)}
<1>1. /\ pc = "undo"
      /\ hist' = DeleteIndex(hist, unowned, bs, finished, Holders(deferred))
      /\ histD' = DeleteIndex(histD, unowned, bs, finished, Holders(deferred))
      /\ pend' = left /\ queue' = queue \ bs /\ uncommitted' = uncommitted \ finished
      /\ UNCHANGED <<txst, txstD, headTip, pc, newHdrs, stale>>
  BY DEF UndoBatch, WriteHistory
<1>2. /\ bs \subseteq queue /\ queue \subseteq uncommitted /\ queue \cap (newHdrs \cup stale) = {}
      /\ Holders(pend) \subseteq hist.undo \ (stale \cup queue)
      /\ stale \subseteq uncommitted \ newHdrs
      /\ \A p \in pend : p[2] \in TxsOf[p[1]] /\ p[3] \in Spends[p[2]]
  BY <1>1 DEF UndoBatches, CleanupInvariant, UndoPending
<1>3. /\ \A p \in left : p[2] \in TxsOf[p[1]] /\ p[3] \in Spends[p[2]]
      /\ \A p \in deferred : p[1] \in bs
  BY SMT, <1>2
<1>4. resolved \subseteq pend /\ left = (pend \ resolved) \cup deferred
  OBVIOUS
<1>5. txstD = txst /\ histD = hist /\ hist \in HistoryDB /\ queue \cap Chain(headTip) = {} /\ bs \subseteq Blocks
  BY <1>1, <1>2 DEF CleanupInvariant, CleanupOnDisk, IndexerInvariant, TypeOK, UpdateLocals
<1> HIDE DEF resolved, missing, deferred, left
<1>6. /\ Holders(deferred) \subseteq bs /\ Holders(deferred) \subseteq Holders(left)
      /\ Holders(resolved) \subseteq Holders(pend)
      /\ Holders(left) \subseteq Holders(pend) \cup Holders(deferred)
  BY <1>3, <1>4 DEF Holders
<1>7. released \subseteq Holders(pend) /\ released \cap Holders(left) = {}
  BY <1>6
<1>8. /\ hist'.done = hist.done \ bs /\ hist'.undo = (hist.undo \ finished) \cup Holders(deferred)
      /\ hist'.rows = hist.rows \ unowned /\ histD' = hist'
  <2> DEFINE put == Holders(deferred)
  <2> HIDE DEF finished, unowned
  <2>1. hist \in HistoryDB
    BY <1>5
  <2>2. hist' = DeleteIndex(hist, unowned, bs, finished, put) /\ histD' = hist'
    BY <1>1, <1>5
  <2>3. /\ hist'.done = hist.done \ bs /\ hist'.undo = (hist.undo \ finished) \cup put
        /\ hist'.rows = hist.rows \ unowned
    <3> HIDE DEF put
    <3>1. /\ DeleteIndex(hist, unowned, bs, finished, put).done = hist.done \ bs
          /\ DeleteIndex(hist, unowned, bs, finished, put).undo = (hist.undo \ finished) \cup put
          /\ DeleteIndex(hist, unowned, bs, finished, put).rows = hist.rows \ unowned
      BY <2>1 DEF DeleteIndex, HistoryDB
    <3> QED
      BY <2>2, <3>1
  <2> QED
    BY <2>2, <2>3
<1> HIDE DEF released
<1>9. CleanupOnDisk'
  BY <1>1, <1>5, <1>8 DEF CleanupOnDisk
<1>10. UncommittedKnown'
  <2>1. /\ bs \ Holders(deferred) \subseteq finished /\ finished \subseteq (bs \ Holders(deferred)) \cup hist.undo
        /\ finished \cap Holders(deferred) = {} /\ bs \subseteq uncommitted
    BY <1>2, <1>6, <1>7
  <2> HIDE DEF finished, unowned
  <2> QED
    BY <1>1, <1>6, <1>8, <2>1, DeletionKnown
<1>11. Holders(left) \subseteq hist'.undo
  BY <1>2, <1>6, <1>7, <1>8
<1>12. UndoPending'
  <2>1. Holders(pend') \subseteq hist'.undo \ (stale' \cup queue')
    BY <1>1, <1>2, <1>6, <1>11
  <2>2. queue' \subseteq uncommitted' /\ stale' \subseteq uncommitted' \ newHdrs'
    BY <1>1, <1>2, <1>7
  <2> QED
    BY <1>1, <1>2, <1>3, <2>1, <2>2 DEF UndoPending
<1>13. ASSUME NEW r \in rows, r \notin unowned PROVE r \in RowsOf(hist'.done)
  <2>1. Owned(r)
    BY SMT, <1>13
  <2>2. \E b : r \in HistoryRows(b)
    <3>1. CASE r \in RowsOf(bs)
      BY ZenonT(60), <3>1 DEF RowsOf
    <3>2. CASE r \in SpendRows(resolved)
      <4>1. SpendRows(resolved) \subseteq RowsOf(Holders(resolved))
        BY <1>2, <1>4, PendingRows
      <4> QED
        BY SMT, <3>2, <4>1 DEF RowsOf
    <3> QED
      BY <1>13, <3>1, <3>2
  <2>3. PICK a \in Active : r \in HistoryRows(a)
    BY <2>1, <2>2, OwnedRows
  <2>4. a \in hist.done
    BY <1>1, <2>3, ActiveDone DEF CleanupInvariant
  <2>5. a \notin bs
    BY <1>2, <1>5, <2>3 DEF Active
  <2> QED
    BY <1>8, <2>3, <2>4, <2>5 DEF RowsOf
<1>14. hist'.rows \subseteq RowsOf(hist'.done \cup (hist'.undo \ Holders(left))) \cup SpendRows(left)
  <2> DEFINE Kept == RowsOf(hist'.done \cup (hist'.undo \ Holders(left)))
  <2> SUFFICES ASSUME NEW r \in hist.rows, r \notin unowned PROVE r \in Kept \cup SpendRows(left)
    BY <1>8
  <2>1. RowsOf(hist'.done) \subseteq Kept
    BY SMT, RowsOfMonotone
  <2>2. ASSUME NEW d \in hist.done \cup (hist.undo \ Holders(pend)), r \in HistoryRows(d)
        PROVE  r \in Kept \cup SpendRows(left)
    <3>1. CASE d \in bs
      <4>1. r \in SpendRows(deferred) \/ r \in rows
        BY <2>2, <3>1 DEF RowsOf
      <4>2. SpendRows(deferred) \subseteq SpendRows(left)
        BY ZenonT(60), <1>4 DEF SpendRows
      <4> QED
        BY <1>13, <2>1, <4>1, <4>2
    <3>2. CASE d \notin bs
      <4>1. d \in hist'.done \cup (hist'.undo \ Holders(left))
        BY <1>6, <1>7, <1>8, <2>2, <3>2
      <4> QED
        BY SMT, <2>2, <4>1 DEF RowsOf
    <3> QED
      BY <3>1, <3>2
  <2>3. CASE r \in SpendRows(pend)
    <3>1. SpendRows(pend) \subseteq SpendRows(resolved) \cup SpendRows(left)
      BY <1>4 DEF SpendRows
    <3> QED
      BY <1>13, <2>1, <2>3, <3>1
  <2>4. CASE r \in RowsOf(hist.done \cup (hist.undo \ Holders(pend)))
    BY <2>2, <2>4 DEF RowsOf
  <2> QED
    BY <2>3, <2>4 DEF CleanupInvariant, RowsMarked
<1>15. RowsMarked'
  <2>1. SpendRows(left) \subseteq RowsOf(Holders(left))
    BY <1>3, PendingRows
  <2>2. /\ RowsOf(Holders(left)) \subseteq RowsOf(hist'.done \cup hist'.undo)
        /\ RowsOf(hist'.done \cup (hist'.undo \ Holders(left))) \subseteq RowsOf(hist'.done \cup hist'.undo)
    <3>1. PICK kept : kept = hist'.done \cup (hist'.undo \ Holders(left))
      OBVIOUS
    <3>2. PICK marked : marked = hist'.done \cup hist'.undo
      OBVIOUS
    <3>3. Holders(left) \subseteq marked /\ kept \subseteq marked
      BY <1>11, <3>1, <3>2
    <3>4. RowsOf(Holders(left)) \subseteq RowsOf(marked) /\ RowsOf(kept) \subseteq RowsOf(marked)
      BY <3>3, RowsOfMonotone
    <3> QED
      BY <3>1, <3>2, <3>4
  <2> QED
    BY <1>1, <1>8, <1>14, <2>1, <2>2 DEF RowsMarked
<1> QED
  BY <1>9, <1>10, <1>12, <1>15 DEF Tracking

\* undo_by_history_scan: the deferred rows that the chain does not own are deleted
\* with the undo markers of their blocks.
LEMMA UndoByScanTracks ==
    ASSUME CleanupInvariant, UndoByScan
    PROVE  Tracking'
<1> USE ZenonT(60)
<1> DEFINE rows == {r \in SpendRows(pend) : ~Owned(r)}
<1>1. /\ pc = "undo" /\ queue = {}
      /\ hist' = DeleteIndex(hist, rows, {}, Holders(pend), {})
      /\ histD' = DeleteIndex(histD, rows, {}, Holders(pend), {})
      /\ pend' = {} /\ uncommitted' = uncommitted \ Holders(pend)
      /\ UNCHANGED <<txst, txstD, headTip, pc, newHdrs, stale, queue>>
  BY DEF UndoByScan, WriteHistory
<1>2. /\ Holders(pend) \subseteq hist.undo \ (stale \cup queue) /\ stale \subseteq uncommitted \ newHdrs
      /\ \A p \in pend : p[2] \in TxsOf[p[1]] /\ p[3] \in Spends[p[2]]
  BY <1>1 DEF CleanupInvariant, UndoPending
<1>3. txstD = txst /\ histD = hist /\ hist \in HistoryDB /\ {} \in SUBSET Blocks
  BY <1>1 DEF CleanupInvariant, CleanupOnDisk, IndexerInvariant, TypeOK
<1>4. /\ hist'.done = hist.done \ {} /\ hist'.undo = (hist.undo \ Holders(pend)) \cup {}
      /\ hist'.rows = hist.rows \ rows /\ histD' = hist'
  <2> HIDE DEF rows
  <2>1. PICK none \in SUBSET Blocks : none = {}
    OBVIOUS
  <2>2. /\ hist' = DeleteIndex(hist, rows, none, Holders(pend), none)
        /\ histD' = DeleteIndex(hist, rows, none, Holders(pend), none)
    BY <1>1, <1>3, <2>1
  <2>3. /\ hist'.done = hist.done \ none /\ hist'.undo = (hist.undo \ Holders(pend)) \cup none
        /\ hist'.rows = hist.rows \ rows /\ histD' = hist'
    <3>1. PICK next : next = DeleteIndex(hist, rows, none, Holders(pend), none)
      OBVIOUS
    <3>2. next.done = hist.done \ none /\ next.undo = (hist.undo \ Holders(pend)) \cup none
      BY <1>3, <3>1 DEF DeleteIndex, HistoryDB
    <3>3. next.rows = hist.rows \ rows
      BY <1>3, <3>1 DEF DeleteIndex, HistoryDB
    <3> QED
      BY <2>2, <3>1, <3>2, <3>3
  <2> QED
    BY ZenonT(60), <2>1, <2>3
<1>5. CleanupOnDisk'
  BY <1>1, <1>3, <1>4 DEF CleanupOnDisk
<1>6. UncommittedKnown'
  <2> DEFINE none == {}
  <2>1. /\ none \subseteq uncommitted /\ none \subseteq none /\ none \ none \subseteq Holders(pend)
        /\ Holders(pend) \subseteq (none \ none) \cup hist.undo /\ Holders(pend) \cap none = {}
        /\ hist'.done = hist.done \ none /\ hist'.undo = (hist.undo \ Holders(pend)) \cup none
    BY <1>2, <1>4
  <2> HIDE DEF none
  <2> QED
    BY <1>1, <2>1, DeletionKnown
<1>7. UndoPending'
  <2>1. Holders(pend') = {} /\ stale' \subseteq uncommitted' \ newHdrs'
    BY <1>1, <1>2 DEF Holders
  <2> QED
    BY <1>1, <2>1 DEF UndoPending
<1>8. hist'.rows \subseteq RowsOf(hist'.done \cup hist'.undo)
  <2> SUFFICES ASSUME NEW r \in hist.rows, r \notin rows PROVE r \in RowsOf(hist'.done \cup hist'.undo)
    BY <1>4
  <2>1. CASE r \in SpendRows(pend)
    <3>1. Owned(r)
      BY SMT, <2>1
    <3>2. SpendRows(pend) \subseteq RowsOf(Holders(pend))
      BY <1>2, PendingRows
    <3>3. \E b : r \in HistoryRows(b)
      BY ZenonT(60), <2>1, <3>2 DEF RowsOf
    <3>4. PICK a \in Active : r \in HistoryRows(a)
      BY <3>1, <3>3, OwnedRows
    <3>5. a \in hist.done
      BY <1>1, <3>4, ActiveDone DEF CleanupInvariant
    <3> QED
      BY <1>4, <3>4, <3>5 DEF RowsOf
  <2>2. CASE r \in RowsOf(hist.done \cup (hist.undo \ Holders(pend)))
    <3>1. hist.done \cup (hist.undo \ Holders(pend)) = hist'.done \cup hist'.undo
      BY <1>4
    <3> QED
      BY <2>2, <3>1
  <2> QED
    BY <2>1, <2>2 DEF CleanupInvariant, RowsMarked
<1>9. RowsMarked'
  <2>1. hist'.undo \ Holders(pend') = hist'.undo
    BY SMT, <1>1 DEF Holders
  <2> QED
    BY <1>4, <1>8, <2>1 DEF RowsMarked
<1> QED
  BY <1>5, <1>6, <1>7, <1>9 DEF Tracking

\* The cleanup goes on when nothing is deferred, or gives up: deferred inputs are
\* forgotten, and their rows are of blocks that keep an undo marker.
LEMMA CleanupEndsTracks ==
    ASSUME CleanupInvariant, UndoDone \/ CleanupFails
    PROVE  Tracking'
<1>1. /\ UNCHANGED <<txst, txstD, hist, histD, headTip, uncommitted>> /\ pend' = {}
      /\ pc \in {"mark", "stale", "undo", "rewrite"}
      /\ \/ pc' \in {"stale", "rewrite"} /\ pc = "undo" /\ stale' = stale /\ newHdrs' = newHdrs
         \/ pc' = "idle"
  BY DEF UndoDone, CleanupFails, LocalsReset, store, locals
<1> USE <1>1
<1>2. Holders(pend') = {}
  BY DEF Holders
<1>3. CleanupOnDisk'
  BY DEF CleanupInvariant, CleanupOnDisk
<1>4. UncommittedKnown'
  <2>1. UncommittedBlocks(hist, headTip) = uncommitted
    BY DEF CleanupInvariant, UncommittedKnown
  <2>2. UncommittedBlocks(hist, headTip)' = uncommitted'
    BY ZenonT(60), <2>1
  <2> QED
    BY <2>2 DEF UncommittedKnown
<1>5. UndoPending'
  <2>1. pc = "undo" => stale \subseteq uncommitted \ newHdrs
    BY DEF CleanupInvariant, UndoPending
  <2> QED
    BY ZenonT(60), <1>2, <2>1 DEF UndoPending
<1>6. RowsMarked'
  <2>1. hist'.undo \ Holders(pend') = hist.undo /\ hist' = hist /\ histD' = histD
    BY <1>2
  <2> QED
    BY ZenonT(60), <2>1, MarkedRows DEF CleanupInvariant, RowsMarked
<1> QED
  BY ZenonT(60), <1>3, <1>4, <1>5, <1>6 DEF Tracking

----------------------------------------------------------------------------
(* The steps of the import *)

\* Indexer::index puts the rows of its blocks with their done-markers.
LEMMA IndexBatchTracks ==
    ASSUME CleanupInvariant, IndexBatch
    PROVE  Tracking'
<1> USE ZenonT(60)
<1> DEFINE bs == batch \ hist.done
<1>1. /\ pc = "index" /\ pc' = "fetch" /\ hist' = PutIndex(hist, bs)
      /\ histD' = IF flush = "Enable" THEN PutIndex(histD, bs) ELSE histD
      /\ UNCHANGED <<headTip, uncommitted, newHdrs, stale, queue, pend>>
  BY DEF IndexBatch, WriteHistory
<1> USE <1>1
<1>2. /\ bs \in SUBSET Blocks /\ bs \subseteq newHdrs /\ hist \in HistoryDB /\ histD \in HistoryDB
      /\ newHdrs \cap Chain(headTip) = {}
  BY DEF CleanupInvariant, HeadersContinue, IndexerInvariant, TypeOK, UpdateLocals
<1> USE <1>2
<1> HIDE DEF bs
<1>3. hist'.done = hist.done \cup bs /\ hist'.undo = hist.undo \ bs /\ hist'.rows = hist.rows \cup RowsOf(bs)
  BY PutIndexType, PutIndexRows
<1>4. pend = {} /\ Holders(pend) = {}
  BY ZenonT(60) DEF CleanupInvariant, UndoPending, Holders
<1>5. CleanupOnDisk'
  BY SMT DEF CleanupOnDisk
<1>6. UncommittedKnown'
  <2>1. UncommittedBlocks(hist, headTip) = uncommitted \cup (newHdrs \cap hist.done)
    BY DEF CleanupInvariant, UncommittedKnown
  <2>2. UncommittedBlocks(hist, headTip)' = UncommittedBlocks(hist, headTip) \cup bs
    BY <1>3 DEF UncommittedBlocks
  <2>3. UncommittedBlocks(hist, headTip)' = uncommitted' \cup (newHdrs' \cap hist'.done)
    BY <1>3, <2>1, <2>2
  <2> QED
    BY SMT, <2>3 DEF UncommittedKnown
<1>7. UndoPending'
  BY <1>4 DEF UndoPending
<1>8. RowsMarked'
  <2>1. ASSUME NEW hs \in HistoryDB, NEW ns, ns.done = hs.done \cup bs, ns.undo = hs.undo \ bs,
               ns.rows = hs.rows \cup RowsOf(bs), hs.rows \subseteq RowsOf(hs.done \cup hs.undo)
        PROVE  ns.rows \subseteq RowsOf(ns.done \cup ns.undo)
    <3>1. /\ RowsOf(hs.done \cup hs.undo) \subseteq RowsOf(ns.done \cup ns.undo)
          /\ RowsOf(bs) \subseteq RowsOf(ns.done \cup ns.undo)
      BY SMT, <2>1, RowsOfMonotone
    <3> QED
      BY <2>1, <3>1
  <2>2. hist'.rows \subseteq RowsOf(hist'.done \cup hist'.undo)
    BY <1>3, <2>1, MarkedRows
  <2>3. histD.rows \subseteq RowsOf(histD.done \cup histD.undo)
    BY ZenonT(60) DEF CleanupInvariant, RowsMarked
  <2>4. histD'.rows \subseteq RowsOf(histD'.done \cup histD'.undo)
    <3>1. CASE flush = "Enable"
      <4>1. /\ histD'.done = histD.done \cup bs /\ histD'.undo = histD.undo \ bs
            /\ histD'.rows = histD.rows \cup RowsOf(bs)
        BY <3>1, PutIndexType, PutIndexRows
      <4> QED
        BY <2>1, <2>3, <4>1
    <3>2. CASE flush # "Enable"
      BY <2>3, <3>2
    <3> QED
      BY SMT, <3>1, <3>2
  <2>5. hist'.undo \ Holders(pend') = hist'.undo
    BY ZenonT(60), <1>4
  <2> QED
    BY <2>2, <2>4, <2>5 DEF RowsMarked
<1> QED
  BY <1>5, <1>6, <1>7, <1>8 DEF Tracking

\* remember_uncommitted_headers: what is indexed above the first gap.
LEMMA RememberTracks ==
    ASSUME CleanupInvariant, RememberUncommitted
    PROVE  Tracking'
<1> USE ZenonT(60)
<1>1. /\ pc = "complete" /\ pc' \in {"flushTxstore", "commit"}
      /\ uncommitted' = uncommitted \cup ((newHdrs \ CompletedPrefix) \cap hist.done)
      /\ UNCHANGED <<txst, txstD, hist, histD, headTip, newHdrs, stale, queue, pend>>
  BY DEF RememberUncommitted, RememberedAbove, store, locals
<1> USE <1>1
<1>2. CompletedPrefix \subseteq newHdrs \cap hist.done /\ CompletedPrefix' = CompletedPrefix
  BY TreeAssumption DEF CompletedPrefix, CleanupInvariant, IndexerInvariant, TypeOK
<1>3. pend = {}
  BY DEF CleanupInvariant, UndoPending
<1>4. CleanupOnDisk'
  BY SMT DEF CleanupOnDisk
<1>5. UncommittedKnown'
  <2>1. UncommittedBlocks(hist, headTip) = uncommitted \cup (newHdrs \cap hist.done)
    BY DEF CleanupInvariant, UncommittedKnown
  <2>2. UncommittedBlocks(hist, headTip)' = uncommitted' \cup CompletedPrefix'
    BY <1>2, <2>1
  <2> QED
    BY SMT, <2>2 DEF UncommittedKnown
<1>6. UndoPending' /\ RowsMarked'
  BY <1>3 DEF CleanupInvariant, UndoPending, RowsMarked
<1> QED
  BY ZenonT(60), <1>4, <1>5, <1>6 DEF Tracking

\* The new tip ends the published chain and the completed headers after it.
LEMMA SyncedChain ==
    ASSUME CleanupInvariant, Commit
    PROVE  /\ SyncedTip \in Blocks /\ Chain(SyncedTip) = Anc[SyncedTip]
           /\ Anc[SyncedTip] \subseteq hist.done
           /\ Anc[SyncedTip] = Chain(headTip) \cup CompletedPrefix
<1> USE ZenonT(60)
<1>1. /\ tip \in Blocks /\ newHdrs = Chain(tip) \ Chain(headTip) /\ Chain(headTip) \subseteq Chain(tip)
      /\ headTip \in Blocks \cup {None} /\ Chain(tip) = Anc[tip] /\ SyncedTip # None
  BY TreeAssumption DEF Commit, CleanupInvariant, HeadersContinue, IndexerInvariant, UpdateLocals, TypeOK, Chain
<1> USE <1>1
<1>2. CompletedPrefix \subseteq newHdrs \cap hist.done
  BY TreeAssumption DEF CompletedPrefix, CleanupInvariant, IndexerInvariant, TypeOK
<1>3. CASE CompletedPrefix = {}
  BY <1>3, PublishedDone DEF SyncedTip, Chain, CleanupInvariant
<1>4. CASE CompletedPrefix # {}
  <2>1. CompletedPrefix \in SUBSET Anc[tip]
    BY SMT, <1>2
  <2>2. SyncedTip \in CompletedPrefix /\ CompletedPrefix \subseteq Anc[SyncedTip]
    BY <1>4, <2>1, TopInChain DEF SyncedTip
  <2>3. SyncedTip \in Anc[tip] /\ SyncedTip \in Blocks /\ SyncedTip \notin Chain(headTip)
    <3>1. SyncedTip \in newHdrs
      BY <1>2, <2>2
    <3>2. Anc[tip] \subseteq Blocks
      BY TreeAssumption
    <3> QED
      BY <3>1, <3>2
  <2>4. Chain(headTip) \subseteq Anc[SyncedTip]
    <3> SUFFICES ASSUME NEW x \in Chain(headTip) PROVE x \in Anc[SyncedTip]
      BY ZenonT(60)
    <3>1. x \in Anc[tip]
      BY SMT
    <3>2. x \in Anc[SyncedTip] \/ SyncedTip \in Anc[x]
      BY <2>3, <3>1, TwoOfChain
    <3>3. headTip \in Blocks /\ Anc[x] \subseteq Chain(headTip)
      BY ZenonT(60), TreeAssumption DEF Chain
    <3> QED
      BY <2>3, <3>2, <3>3
  <2>5. Anc[SyncedTip] \subseteq Chain(headTip) \cup newHdrs
    <3>1. Anc[SyncedTip] \subseteq Anc[tip]
      BY <2>3, TreeAssumption
    <3> QED
      BY <3>1
  <2>6. Anc[SyncedTip] \cap newHdrs \subseteq CompletedPrefix
    <3> SUFFICES ASSUME NEW x \in Anc[SyncedTip], x \in newHdrs PROVE x \in CompletedPrefix
      BY SMT
    <3>1. Anc[x] \subseteq Anc[SyncedTip]
      BY <2>3, TreeAssumption
    <3>2. Anc[SyncedTip] \cap newHdrs \subseteq txst.added \cap hist.done
      BY <2>2 DEF CompletedPrefix
    <3> QED
      BY <3>1, <3>2 DEF CompletedPrefix
  <2> QED
    BY <1>2, <2>2, <2>3, <2>4, <2>5, <2>6, PublishedDone, TreeAssumption DEF Chain, CleanupInvariant
<1> QED
  BY <1>3, <1>4

\* Published blocks stop being uncommitted, in memory as by the markers.
LEMMA CommitTracks ==
    ASSUME CleanupInvariant, Commit
    PROVE  Tracking'
<1>1. /\ pc = "commit" /\ pc' = "idle" /\ headTip' = SyncedTip /\ uncommitted' = uncommitted \ Anc[SyncedTip]
      /\ pend' = {} /\ queue' = {} /\ stale' = {}
      /\ UNCHANGED <<hist, histD>> /\ (txstD = txst => txstD' = txst')
  BY ZenonT(60) DEF Commit, StillUncommitted, WriteTxstore, LocalsReset
<1> USE <1>1
<1>2. txstD = txst /\ histD = hist /\ hist.done \cap hist.undo = {}
  BY ZenonT(60) DEF CleanupInvariant, IndexerInvariant, DiskBehindMemory, MarkersExclusive
<1>3. pend = {} /\ Holders(pend) = {}
  BY ZenonT(60) DEF CleanupInvariant, UndoPending, Holders
<1>4. CleanupOnDisk'
  BY <1>2 DEF CleanupOnDisk
<1>5. UncommittedKnown'
  <2>1. UncommittedBlocks(hist, headTip) = uncommitted \cup CompletedPrefix
    BY ZenonT(60) DEF CleanupInvariant, UncommittedKnown
  <2>2. /\ Chain(SyncedTip) = Anc[SyncedTip] /\ Anc[SyncedTip] \subseteq hist.done
        /\ Anc[SyncedTip] = Chain(headTip) \cup CompletedPrefix
    BY ZenonT(60), SyncedChain
  <2>3. UncommittedBlocks(hist, headTip)' = (hist.done \ Anc[SyncedTip]) \cup hist.undo
    BY <2>2 DEF UncommittedBlocks
  <2>4. ASSUME NEW x PROVE x \in UncommittedBlocks(hist, headTip)' <=> x \in uncommitted'
    BY ZenonT(60), <1>2, <2>1, <2>2, <2>3 DEF UncommittedBlocks
  <2>5. UncommittedBlocks(hist, headTip)' = uncommitted'
    BY ZenonT(60), <2>4
  <2> QED
    BY <2>5 DEF UncommittedKnown
<1>6. UndoPending' /\ RowsMarked'
  BY ZenonT(60), <1>3 DEF CleanupInvariant, UndoPending, RowsMarked
<1> QED
  BY ZenonT(60), <1>4, <1>5, <1>6 DEF Tracking

----------------------------------------------------------------------------
(* The headers being indexed *)

\* get_new_headers continues the published chain, and a fetcher is asked for new
\* headers only.
LEMMA StepContinues ==
    ASSUME CleanupInvariant, [Next]_vars
    PROVE  HeadersContinue'
<1> USE ZenonT(60)
<1> USE DEF CleanupInvariant, HeadersContinue
<1>1. ASSUME UNCHANGED <<headTip, tip, newHdrs, todo, batch>>, pc' \notin {"fetch", "index"},
             pc \notin {"fetch", "index"},
             pc' \notin {"start", "idle", "mark", "pop"} => pc \notin {"start", "idle", "mark", "pop"}
      PROVE  HeadersContinue'
  BY <1>1
<1>2. CASE Restart \/ CleanupFails \/ Commit
  BY ZenonT(60), <1>2 DEF Restart, CleanupFails, Commit, LocalsReset
<1>3. CASE BeginUpdate
  <2>1. /\ best \in Blocks /\ headTip \in Blocks \cup {None} /\ todo = {} /\ batch = {}
        /\ pc' \in {"mark", "stale", "rewrite", "plan"} /\ (pc' # "mark" => Fork(best, headTip) = headTip)
        /\ tip' = best /\ UNCHANGED <<headTip, todo, batch>>
    BY <1>3 DEF BeginUpdate, UpdateDue, IndexerInvariant, TypeOK
  <2>2. Chain(Fork(best, headTip)) = Chain(best) \cap Chain(headTip)
    BY <2>1, ForkIsMeet
  <2> QED
    BY <2>1, <2>2
<1>4. CASE PopHeaders
  <2>1. /\ pc = "pop" /\ pc' = "save" /\ headTip' = fork /\ UNCHANGED <<tip, newHdrs, todo, batch>>
    BY <1>4 DEF PopHeaders, PoppedTip
  <2>2. Chain(fork) \subseteq Chain(tip)
    BY <2>1, TreeAssumption DEF IndexerInvariant, UpdateLocals, Chain
  <2> QED
    BY <2>1, <2>2
<1>5. CASE \/ MarkReorg \/ SaveAncestor \/ MarkStale \/ UndoDone \/ FinishRewrite \/ UndoByScan
           \/ (\E bs \in UndoBatches : UndoBatch(bs)) \/ (\E b \in Blocks : RewriteBatch(Height(b)))
           \/ RememberUncommitted \/ FlushTxstore \/ FlushHistory
  <2>1. UNCHANGED <<headTip, tip, newHdrs, todo, batch>>
    BY <1>5 DEF MarkReorg, SaveAncestor, MarkStale, UndoDone, FinishRewrite, UndoByScan, UndoBatch,
                            RewriteBatch, RememberUncommitted, FlushTxstore, FlushHistory, locals
  <2>2. /\ pc' \notin {"fetch", "index"} /\ pc \notin {"fetch", "index"}
        /\ pc' \notin {"start", "idle", "mark", "pop"} => pc \notin {"start", "idle", "mark", "pop"}
    BY <1>5 DEF MarkReorg, SaveAncestor, MarkStale, UndoDone, FinishRewrite, UndoByScan, UndoBatch,
                RewriteBatch, RememberUncommitted, FlushTxstore, FlushHistory
  <2> QED
    BY <1>1, <2>1, <2>2
<1>6. CASE PlanFetch \/ FetchDone \/ FetchFails
  <2>1. /\ pc \in {"plan", "fetch"} /\ UNCHANGED <<headTip, tip, newHdrs, batch>>
        /\ \/ pc' = "fetch" /\ todo' = HeadersToProcess
           \/ pc' = "complete" /\ todo' = {}
    BY <1>6 DEF PlanFetch, FetchDone, FetchFails, locals
  <2>2. HeadersToProcess \subseteq newHdrs
    BY SMT DEF HeadersToProcess
  <2> QED
    BY ZenonT(60), <2>1, <2>2
<1>7. ASSUME NEW bs \in FetchBatches, AddBatch(bs) PROVE HeadersContinue'
  <2>1. bs \subseteq todo
    BY SMT DEF FetchBatches
  <2> QED
    BY <1>7, <2>1 DEF AddBatch
<1>8. CASE IndexBatch
  BY ZenonT(60), <1>8 DEF IndexBatch
<1>9. CASE DaemonReorg \/ BackgroundFlush \/ UNCHANGED vars
  <2>1. UNCHANGED <<headTip, tip, newHdrs, todo, batch, pc>>
    BY <1>9 DEF DaemonReorg, BackgroundFlush, vars, locals
  <2> QED
    BY <2>1
<1> HIDE DEF CleanupInvariant, HeadersContinue
<1> QED
  BY <1>2, <1>3, <1>4, <1>5, <1>6, <1>7, <1>8, <1>9
     DEF Next, Update, Cleanup, Fetch, Publish, Poll, Environment, IndexPanics, CommitNothing, Crash

----------------------------------------------------------------------------
(* Theorems *)

\* Every step of the indexer and of its environment keeps track of stale rows.
LEMMA NextTracks == CleanupInvariant /\ [Next]_vars => CleanupInvariant'
<1> USE ZenonT(60)
<1> SUFFICES ASSUME CleanupInvariant, [Next]_vars PROVE CleanupInvariant'
  BY SMT
<1>1. IndexerInvariant'
  BY ZenonT(60), NextInvariant DEF CleanupInvariant
<1>2. HeadersContinue'
  BY SMT, StepContinues
<1>3. Tracking'
  <2>1. CASE Cleanup
    BY <2>1, MarkReorgTracks, PopHeadersTracks, SaveAncestorTracks, MarkStaleTracks, UndoBatchTracks,
       UndoByScanTracks, CleanupEndsTracks, RewriteTracks DEF Cleanup
  <2>2. CASE Fetch
    BY <2>2, FetchTracks, IndexBatchTracks, RestartTracks DEF Fetch, IndexPanics
  <2>3. CASE Publish
    BY <2>3, RememberTracks, FlushTracks, CommitTracks, RestartTracks DEF Publish, CommitNothing
  <2>4. CASE Environment
    BY <2>4, StutterTracks, FlushTracks, RestartTracks, CleanupEndsTracks, FetchTracks, RewriteTracks
       DEF Environment, DaemonReorg, Crash
  <2>5. CASE UNCHANGED vars
    BY <2>5, StutterTracks DEF vars
  <2> QED
    BY <2>1, <2>2, <2>3, <2>4, <2>5, BeginUpdateTracks DEF Next, Update, Poll
<1> QED
  BY ZenonT(60), <1>1, <1>2, <1>3 DEF CleanupInvariant, Tracking

\* The invariant of the cleanup holds in every state of every run of the indexer.
THEOREM CleanupHolds == Spec => []CleanupInvariant
<1>1. Init => CleanupInvariant
  BY ZenonT(60), InitInvariant, InitTracks DEF CleanupInvariant, Tracking
<1> QED
  BY <1>1, NextTracks, PTL DEF Spec

\* A block with a marker is of the chain, or Store::uncommitted_blocks finds it.
LEMMA MarkedIsTracked ==
    ASSUME NEW hs, NEW ht, hs.rows \subseteq RowsOf(hs.done \cup hs.undo)
    PROVE  hs.rows \subseteq RowsOf(Chain(ht) \cup Tracked(hs, ht))
<1>1. hs.done \cup hs.undo \subseteq Chain(ht) \cup Tracked(hs, ht)
  BY ZenonT(60) DEF Tracked, UncommittedBlocks
<1>2. RowsOf(hs.done \cup hs.undo) \subseteq RowsOf(Chain(ht) \cup Tracked(hs, ht))
  BY <1>1, RowsOfMonotone
<1> QED
  BY <1>2

\* Cleanup never loses track of a stale row, for every block tree, database, batch
\* size and import mode: on disk and in memory, a history row that no block of the
\* chain owns is of a block that still has a done-marker or an undo marker
\* (undo_index_or_defer, undo_by_history_scan).
THEOREM NoRowIsLost == Spec => []StaleRowsTracked
<1>1. CleanupInvariant => StaleRowsTracked
  <2> SUFFICES ASSUME CleanupInvariant PROVE StaleRowsTracked
    BY ZenonT(60)
  <2>3. histD.rows \subseteq RowsOf(histD.done \cup histD.undo)
    BY DEF CleanupInvariant, RowsMarked
  <2> QED
    BY <2>3, MarkedRows, MarkedIsTracked DEF StaleRowsTracked
<1> QED
  BY ZenonT(60), <1>1, CleanupHolds, PTL

\* Between updates, Indexer.uncommitted_blocks is what Store::uncommitted_blocks would
\* compute after a restart, so a retry and a restart clean up the same blocks.
THEOREM RetryIsRestart == Spec => []UncommittedAsAfterRestart
<1>1. CleanupInvariant => UncommittedAsAfterRestart
  BY DEF CleanupInvariant, UncommittedKnown, UncommittedAsAfterRestart
<1> QED
  BY <1>1, CleanupHolds, PTL

----------------------------------------------------------------------------
(* The import finds the outputs its blocks spend *)

\* What the induction is about: the cleanup's invariant and the order of the fetch.
FetchInvariant == CleanupInvariant /\ FetchInOrder

\* Nothing is fetched when the process starts, and the configuration says from where.
LEMMA InitInOrder == Init => FetchInvariant
<1> USE ZenonT(60)
<1>1. Init => CleanupInvariant
  BY InitInvariant, InitTracks DEF CleanupInvariant, Tracking
<1>2. Init => FetchInOrder
  BY DEF Init, FetchInOrder, FetchFrom
<1> QED
  BY ZenonT(60), <1>1, <1>2 DEF FetchInvariant

\* Headers are planned, fetched lowest first and added before they are indexed; a
\* fetcher that fails over to bitcoind starts with a plan of its own.
LEMMA NextInOrder == FetchInvariant /\ [Next]_vars => FetchInvariant'
<1> USE ZenonT(60)
<1> SUFFICES ASSUME FetchInvariant, [Next]_vars PROVE FetchInvariant'
  BY SMT
<1>1. CleanupInvariant /\ FetchInOrder
  BY SMT DEF FetchInvariant
<1> USE <1>1
<1>2. CleanupInvariant'
  BY NextTracks
<1>3. ASSUME pc' \notin {"fetch", "index"}, JsonrpcImport => from' = "Bitcoind" PROVE FetchInOrder'
  BY <1>3 DEF FetchInOrder
<1>4. ASSUME UNCHANGED <<txst, from, pc, newHdrs, todo, batch>> PROVE FetchInOrder'
  BY <1>4 DEF FetchInOrder
<1>5. ASSUME Restart PROVE FetchInOrder'
  BY <1>3, <1>5 DEF Restart, FetchFrom
<1>6. ASSUME BeginUpdate \/ Cleanup \/ CleanupFails PROVE FetchInOrder'
  <2>1. pc' \notin {"fetch", "index"}
    BY <1>6 DEF BeginUpdate, Cleanup, MarkReorg, PopHeaders, SaveAncestor, MarkStale, UndoBatch, UndoByScan,
       UndoDone, FinishRewrite, CleanupFails
  <2>2. from' = from
    BY <1>6 DEF BeginUpdate, Cleanup, MarkReorg, PopHeaders, SaveAncestor, MarkStale, UndoBatch, UndoByScan,
       UndoDone, FinishRewrite, CleanupFails
  <2> QED
    BY <1>3, <2>1, <2>2 DEF FetchInOrder
<1>7. ASSUME PlanFetch \/ FetchDone \/ FetchFails PROVE FetchInOrder'
  <2>1. /\ pc' \in {"fetch", "complete"} /\ newHdrs' = newHdrs /\ txst' = txst /\ from' \in {from, "Bitcoind"}
        /\ pc' = "fetch" => todo' = HeadersToProcess
    BY <1>7 DEF PlanFetch, FetchDone, FetchFails, store, locals
  <2>2. newHdrs \ HeadersToProcess \subseteq txst.added
    BY DEF HeadersToProcess
  <2> QED
    BY <2>1, <2>2 DEF FetchInOrder
<1>8. ASSUME NEW bs \in FetchBatches, AddBatch(bs) PROVE FetchInOrder'
  <2>1. /\ pc = "fetch" /\ pc' = "index" /\ todo' = todo \ bs /\ batch' = bs /\ from' = from /\ newHdrs' = newHdrs
        /\ txst' = [txst EXCEPT !.added = @ \cup bs]
    BY <1>8 DEF AddBatch, WriteTxstore
  <2>2. txst'.added = txst.added \cup bs
    BY <2>1 DEF CleanupInvariant, IndexerInvariant, TypeOK, TxStore
  <2>3. from = "Bitcoind" => \A b \in bs, c \in todo \ bs : Height(b) <= Height(c)
    BY DEF FetchBatches
  <2>4. newHdrs \ todo \subseteq txst.added
    BY <2>1 DEF FetchInOrder
  <2>5. newHdrs' \ todo' \subseteq txst'.added /\ batch' \cap todo' = {}
    BY <2>1, <2>2, <2>4
  <2> QED
    BY <2>1, <2>3, <2>5 DEF FetchInOrder
<1>9. ASSUME IndexBatch PROVE FetchInOrder'
  BY <1>9 DEF IndexBatch, FetchInOrder
<1>10. ASSUME RememberUncommitted \/ FlushTxstore \/ FlushHistory \/ Commit PROVE FetchInOrder'
  <2>1. pc' \notin {"fetch", "index"} /\ from' = from
    BY <1>10 DEF RememberUncommitted, FlushTxstore, FlushHistory, Commit
  <2> QED
    BY <1>3, <2>1 DEF FetchInOrder
<1>11. ASSUME DaemonReorg \/ BackgroundFlush \/ (\E b \in Blocks : RewriteBatch(Height(b))) \/ UNCHANGED vars
       PROVE  FetchInOrder'
  BY <1>4, <1>11 DEF DaemonReorg, BackgroundFlush, RewriteBatch, vars, store, locals
<1>12. ASSUME Fetch \/ Publish PROVE FetchInOrder'
  BY <1>5, <1>7, <1>8, <1>9, <1>10, <1>12 DEF Fetch, Publish, IndexPanics, CommitNothing
<1>13. ASSUME Environment PROVE FetchInOrder'
  BY <1>5, <1>6, <1>7, <1>11, <1>13 DEF Environment, Crash
<1>14. FetchInOrder'
  BY <1>6, <1>11, <1>12, <1>13 DEF Next, Update, Poll
<1> QED
  BY <1>2, <1>14 DEF FetchInvariant

\* Blocks that are not above each other have one height.
LEMMA SameHeight ==
    ASSUME NEW b \in Blocks, NEW c \in Blocks, Height(b) <= Height(c), Height(c) <= Height(b)
    PROVE  Height(b) = Height(c)
<1>1. Height(b) \in Nat /\ Height(c) \in Nat
  BY ZenonT(60), HeightNat
<1> QED
  BY SMT, <1>1

\* The blocks below one that is being indexed are in txstore_db, and so are the
\* outputs that its transactions spend.
LEMMA AncestorsAdded ==
    ASSUME FetchInvariant, pc = "index", from = "Bitcoind"
    PROVE  PrevoutsFound
<1> USE ZenonT(60)
<1>1. /\ tip \in Blocks /\ newHdrs = Chain(tip) \ Chain(headTip) /\ batch \subseteq newHdrs
      /\ newHdrs \ todo \subseteq txst.added /\ batch \cap todo = {}
      /\ \A b \in batch, c \in todo : Height(b) <= Height(c)
  BY DEF FetchInvariant, CleanupInvariant, IndexerInvariant, UpdateLocals, HeadersContinue, FetchInOrder
<1> USE <1>1
<1>2. Chain(headTip) \subseteq txst.added
  BY DEF FetchInvariant, CleanupInvariant, IndexerInvariant, SavedChainIndexed, DiskBehindMemory, TipSaved
<1>3. Chain(tip) = Anc[tip] /\ Anc[tip] \subseteq Blocks
  BY TreeAssumption DEF Chain
<1> USE <1>3
<1>4. ASSUME NEW x \in batch, NEW c \in Anc[x] PROVE c \in txst.added
  <2>1. x \in Anc[tip] /\ x \in Blocks
    OBVIOUS
  <2>2. c \in Anc[tip] /\ c \in Blocks
    BY <2>1, TreeAssumption
  <2>3. ASSUME c \in todo PROVE FALSE
    <3>1. Height(c) <= Height(x) /\ Height(x) <= Height(c)
      BY <2>1, <2>3, HeightMonotone
    <3>2. Height(c) = Height(x)
      BY <2>1, <2>2, <3>1, SameHeight
    <3>3. c = x
      BY <2>1, <2>2, <3>2, HeightInjective
    <3> QED
      BY <2>3, <3>3
  <2> QED
    BY <1>2, <2>2, <2>3
<1>5. ASSUME NEW x \in batch, NEW t \in TxsOf[x], NEW o \in Spends[t] PROVE o \in OutputsOf(txst.added)
  <2>1. x \in Blocks
    OBVIOUS
  <2>2. o \in UNION {TxsOf[c] : c \in Anc[x]}
    BY <2>1, TxAssumption
  <2>3. PICK c \in Anc[x] : o \in TxsOf[c]
    BY <2>2
  <2>4. c \in txst.added
    BY <1>4
  <2> QED
    BY <2>3, <2>4 DEF OutputsOf
<1> SUFFICES ASSUME NEW o \in InputsOf(batch \ hist.done) PROVE o \in OutputsOf(txst.added)
  BY DEF PrevoutsFound
<1>6. PICK t \in OutputsOf(batch \ hist.done) : o \in Spends[t]
  BY DEF InputsOf
<1>7. PICK x \in batch : t \in TxsOf[x]
  BY <1>6 DEF OutputsOf
<1> QED
  BY <1>5, <1>6, <1>7

\* Whenever the blocks come from bitcoind, the unwrap of lookup_txos in
\* Indexer::_index succeeds: also after a blk-file import that was cut short, after a
\* reorg, a failed fetch and a crash.
THEOREM PrevoutsAlwaysFound == Spec => [](from = "Bitcoind" => IndexFindsPrevouts)
<1>1. FetchInvariant => (from = "Bitcoind" => IndexFindsPrevouts)
  BY AncestorsAdded DEF IndexFindsPrevouts
<1> QED
  BY <1>1, InitInOrder, NextInOrder, PTL DEF Spec

\* In particular, an import over RPC never aborts on a missing output.
THEOREM RpcImportFindsPrevouts ==
    ASSUME JsonrpcImport
    PROVE  Spec => []IndexFindsPrevouts
<1>1. FetchInvariant => IndexFindsPrevouts
  BY ZenonT(60), AncestorsAdded DEF IndexFindsPrevouts, FetchInvariant, FetchInOrder
<1> QED
  BY <1>1, InitInOrder, NextInOrder, PTL DEF Spec
==============================================================================

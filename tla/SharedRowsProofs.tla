-------------------------- MODULE SharedRowsProofs --------------------------
(***************************************************************************)
(* Proofs about the C and S rows that blocks of several branches share: an *)
(* indexed block whose row another block overwrote or an undo deleted is   *)
(* covered by the rewrite marker R or by a block that is still to be       *)
(* undone, for every database that an older version may have left.  From   *)
(* them, that the index answers for the published chain.                   *)
(***************************************************************************)
EXTENDS IndexerProofs

----------------------------------------------------------------------------
(* Every step keeps the blocks of another branch on a list of the cleanup *)

\* clean_up_stale_blocks: what is not on the new chain is listed as stale, and the
\* cleanup is skipped only when there is nothing of the kind.
LEMMA BeginUpdateListed ==
    ASSUME ListedInvariant, BeginUpdate
    PROVE  OtherBranchListed'
<1> USE ZenonT(60)
<1>1. /\ pc \in {"start", "idle"} /\ tip' = best /\ newHdrs' = Chain(best) \ Chain(headTip)
      /\ stale' = uncommitted \ newHdrs'
      /\ UNCHANGED <<hist, headTip, uncommitted>>
  BY DEF BeginUpdate, UpdateDue, StaleUncommitted, store
<1> USE <1>1
<1>2. \/ pc' \in {"mark", "stale"}
      \/ pc' \in {"rewrite", "plan"} /\ Fork(best, headTip) = headTip /\ stale' = {}
  BY DEF BeginUpdate
<1>3. UncommittedBlocks(hist, headTip) = uncommitted \cup {}
  BY DEF ListedInvariant, CleanupInvariant, UncommittedKnown
<1>4. best \in Blocks /\ headTip \in Blocks \cup {None}
  BY DEF ListedInvariant, CleanupInvariant, IndexerInvariant, TypeOK
<1>5. Chain(Fork(best, headTip)) = Chain(best) \cap Chain(headTip)
  BY <1>4, ForkIsMeet
<1>6. ASSUME Fork(best, headTip) = headTip, stale' = {} PROVE hist'.done \cup hist'.undo \subseteq Chain(tip')
  <2>1. Chain(headTip) \subseteq Chain(best)
    BY <1>5, <1>6
  <2>2. uncommitted \subseteq Chain(best)
    BY <1>6
  <2>3. hist.done \cup hist.undo \subseteq Chain(headTip) \cup uncommitted
    BY <1>3 DEF UncommittedBlocks
  <2> QED
    BY <2>1, <2>2, <2>3
<1>7. CASE pc' \in {"mark", "stale"}
  <2>1. uncommitted' \subseteq newHdrs' \cup stale'
    OBVIOUS
  <2> QED
    BY <1>7, <2>1 DEF OtherBranchListed
<1>8. CASE pc' \in {"rewrite", "plan"} /\ Fork(best, headTip) = headTip /\ stale' = {}
  BY <1>6, <1>8 DEF OtherBranchListed
<1> QED
  BY <1>2, <1>7, <1>8

\* undo_index_or_defer: an undone block is forgotten, or has deferred inputs left.
LEMMA UndoBatchListed ==
    ASSUME ListedInvariant, NEW bs \in UndoBatches, UndoBatch(bs)
    PROVE  OtherBranchListed'
<1> USE ZenonT(60)
<1> DEFINE resolved == {p \in pend : p[3] \in OutputsOf(bs)}
           missing == InputsOf(bs) \ (OutputsOf(txst.added) \cup OutputsOf(bs))
           deferred == {p \in bs \X Txs \X missing : p[2] \in TxsOf[p[1]] /\ p[3] \in Spends[p[2]]}
           left == (pend \ resolved) \cup deferred
           released == Holders(resolved) \ Holders(left)
           finished == (bs \ Holders(deferred)) \cup released
<1>1. /\ pc = "undo" /\ pc' = "undo"
      /\ pend' = left /\ queue' = queue \ bs /\ uncommitted' = uncommitted \ finished
      /\ UNCHANGED <<newHdrs, stale>>
  BY DEF UndoBatch
<1>2. uncommitted \subseteq newHdrs \cup stale \cup queue \cup Holders(pend)
  BY <1>1 DEF ListedInvariant, OtherBranchListed
<1>3. left = (pend \ resolved) \cup deferred
  OBVIOUS
<1> HIDE DEF resolved, missing, deferred, left
<1>4. Holders(deferred) \subseteq Holders(left) /\ Holders(pend) \subseteq Holders(resolved) \cup Holders(left)
  BY <1>3 DEF Holders
<1>5. uncommitted' \subseteq newHdrs' \cup stale' \cup queue' \cup Holders(pend')
  <2> SUFFICES ASSUME NEW x \in uncommitted, x \notin finished, x \notin newHdrs, x \notin stale, x \notin queue \ bs
               PROVE  x \in Holders(left)
    BY <1>1
  <2>1. CASE x \in bs
    BY <1>4, <2>1
  <2>2. CASE x \in Holders(pend)
    BY <1>4, <2>2
  <2> QED
    BY <1>2, <2>1, <2>2
<1> QED
  BY <1>1, <1>5 DEF OtherBranchListed

\* After undo_blocks what is still uncommitted is stale or of the new chain.
LEMMA UndoDoneListed ==
    ASSUME ListedInvariant, UndoDone
    PROVE  OtherBranchListed'
<1> USE ZenonT(60)
<1>1. /\ pc = "undo" /\ queue = {} /\ pend = {}
      /\ pc' = IF stale # {} THEN "stale" ELSE "rewrite"
      /\ UNCHANGED <<hist, headTip, uncommitted, tip, newHdrs, stale>>
  BY DEF UndoDone, store, locals
<1> USE <1>1
<1>2. Holders(pend) = {}
  BY DEF Holders
<1>3. uncommitted \subseteq newHdrs \cup stale
  BY <1>2 DEF ListedInvariant, OtherBranchListed
<1>4. UncommittedBlocks(hist, headTip) = uncommitted \cup {}
  BY DEF ListedInvariant, CleanupInvariant, UncommittedKnown
<1>5. newHdrs \subseteq Chain(tip) /\ Chain(headTip) \subseteq Chain(tip)
  BY DEF ListedInvariant, CleanupInvariant, IndexerInvariant, UpdateLocals, HeadersContinue
<1>6. hist.done \cup hist.undo \subseteq Chain(headTip) \cup uncommitted
  BY <1>4 DEF UncommittedBlocks
<1>7. CASE stale # {}
  BY <1>3, <1>7 DEF OtherBranchListed
<1>8. CASE stale = {}
  <2>1. hist'.done \cup hist'.undo \subseteq Chain(tip')
    BY <1>3, <1>5, <1>6, <1>8
  <2> QED
    BY <1>8, <2>1 DEF OtherBranchListed
<1> QED
  BY <1>7, <1>8

\* The reorged headers and the stale blocks become the queue of undo_blocks.
LEMMA QueueListed ==
    ASSUME ListedInvariant, MarkReorg \/ PopHeaders \/ SaveAncestor \/ MarkStale \/ UndoByScan
    PROVE  OtherBranchListed'
<1> USE ZenonT(60)
<1>1. ASSUME MarkReorg \/ PopHeaders PROVE OtherBranchListed'
  <2>1. /\ pc \in {"mark", "pop"} /\ pc' \in {"pop", "save"} /\ UNCHANGED <<uncommitted, newHdrs, stale>>
    BY <1>1 DEF MarkReorg, PopHeaders, locals
  <2>2. uncommitted \subseteq newHdrs \cup stale
    BY <2>1 DEF ListedInvariant, OtherBranchListed
  <2> QED
    BY <2>1, <2>2 DEF OtherBranchListed
<1>2. ASSUME SaveAncestor \/ MarkStale PROVE OtherBranchListed'
  <2>1. /\ pc \in {"save", "stale"} /\ pc' = "undo" /\ newHdrs' = newHdrs
        /\ \/ uncommitted' = uncommitted \cup queue /\ queue' = queue /\ stale' = stale
           \/ uncommitted' = uncommitted /\ queue' = stale
    BY <1>2 DEF SaveAncestor, MarkStale, locals
  <2>2. uncommitted \subseteq newHdrs \cup stale
    BY <2>1 DEF ListedInvariant, OtherBranchListed
  <2>3. uncommitted' \subseteq newHdrs' \cup stale' \cup queue'
    BY <2>1, <2>2
  <2> QED
    BY <2>1, <2>3 DEF OtherBranchListed
<1>3. ASSUME UndoByScan PROVE OtherBranchListed'
  <2>1. /\ pc = "undo" /\ pc' = "undo" /\ uncommitted' = uncommitted \ Holders(pend)
        /\ UNCHANGED <<newHdrs, stale, queue>>
    BY <1>3 DEF UndoByScan
  <2>2. uncommitted \subseteq newHdrs \cup stale \cup queue \cup Holders(pend)
    BY <2>1 DEF ListedInvariant, OtherBranchListed
  <2>3. uncommitted' \subseteq newHdrs' \cup stale' \cup queue'
    BY <2>1, <2>2
  <2> QED
    BY <2>1, <2>3 DEF OtherBranchListed
<1> QED
  BY <1>1, <1>2, <1>3

\* The import adds blocks of the new chain to blocks of the new chain.
LEMMA ImportListed ==
    ASSUME ListedInvariant,
           \/ \E b \in Blocks : RewriteBatch(Height(b))
           \/ FinishRewrite \/ PlanFetch \/ (\E bs \in FetchBatches : AddBatch(bs)) \/ IndexBatch \/ FetchDone
           \/ FetchFails \/ RememberUncommitted \/ FlushTxstore \/ FlushHistory
    PROVE  OtherBranchListed'
<1> USE ZenonT(60)
<1> DEFINE Early == {"start", "idle", "mark", "pop", "save", "stale", "undo"}
<1>1. pc \notin Early /\ pc' \notin Early /\ tip' = tip
  BY DEF RewriteBatch, FinishRewrite, PlanFetch, AddBatch, IndexBatch, FetchDone, FetchFails,
     RememberUncommitted, FlushTxstore, FlushHistory, locals
<1>2. hist.done \cup hist.undo \subseteq Chain(tip)
  BY <1>1 DEF ListedInvariant, OtherBranchListed
<1>3. hist'.done \cup hist'.undo \subseteq Chain(tip)
  <2>1. CASE IndexBatch
    <3>1. pc = "index" /\ hist' = PutIndex(hist, batch \ hist.done)
      BY <2>1 DEF IndexBatch, WriteHistory
    <3>2. batch \subseteq Chain(tip) /\ batch \in SUBSET Blocks /\ hist \in HistoryDB
      BY <3>1 DEF ListedInvariant, CleanupInvariant, IndexerInvariant, UpdateLocals, HeadersContinue, TypeOK
    <3>3. PICK bs \in SUBSET Blocks : bs = batch \ hist.done
      BY <3>2
    <3>4. hist'.done = hist.done \cup bs /\ hist'.undo = hist.undo \ bs
      BY <3>1, <3>2, <3>3, PutIndexType
    <3> QED
      BY <1>2, <3>2, <3>3, <3>4
  <2>2. CASE (\E b \in Blocks : RewriteBatch(Height(b))) \/ FinishRewrite
    <3>1. PICK upto : hist' \in {Rewritten(hist, upto), [Rewritten(hist, upto) EXCEPT !.rewrite = None]}
      <4>1. ASSUME NEW b \in Blocks, RewriteBatch(Height(b)) PROVE hist' = Rewritten(hist, Height(b))
        BY <4>1 DEF RewriteBatch, WriteHistory
      <4>2. ASSUME FinishRewrite PROVE hist' = [Rewritten(hist, Cardinality(Blocks)) EXCEPT !.rewrite = None]
        BY <4>2 DEF FinishRewrite, WriteHistory
      <4> QED
        BY SMTT(60), <2>2, <4>1, <4>2
    <3>2. PICK gs \in HistoryDB : gs = Rewritten(hist, upto) /\ gs.done = hist.done /\ gs.undo = hist.undo
      BY RewrittenType DEF ListedInvariant, CleanupInvariant, IndexerInvariant, TypeOK
    <3>3. hist' = gs \/ hist' = [gs EXCEPT !.rewrite = None]
      BY <3>1, <3>2
    <3>4. hist'.done = hist.done /\ hist'.undo = hist.undo
      BY <3>2, <3>3 DEF HistoryDB
    <3> QED
      BY <1>2, <3>4
  <2>3. CASE \/ PlanFetch \/ (\E bs \in FetchBatches : AddBatch(bs)) \/ FetchDone
             \/ FetchFails \/ RememberUncommitted \/ FlushTxstore \/ FlushHistory
    <3>1. hist' = hist
      BY <2>3 DEF PlanFetch, AddBatch, FetchDone, FetchFails, RememberUncommitted,
         FlushTxstore, FlushHistory, store
    <3> QED
      BY <1>2, <3>1
  <2> QED
    BY <2>1, <2>2, <2>3
<1>4. hist'.done \cup hist'.undo \subseteq Chain(tip')
  BY <1>1, <1>3
<1> QED
  BY <1>1, <1>4 DEF OtherBranchListed

\* Between updates there is no list.
LEMMA StepListed ==
    ASSUME ListedInvariant, [Next]_vars
    PROVE  OtherBranchListed'
<1> USE ZenonT(60)
<1>1. ASSUME pc' \in {"start", "idle"} PROVE OtherBranchListed'
  BY <1>1 DEF OtherBranchListed
<1>2. ASSUME UNCHANGED <<hist, uncommitted, newHdrs, stale, queue, pend, tip, pc>> PROVE OtherBranchListed'
  BY <1>2 DEF ListedInvariant, OtherBranchListed
<1>3. ASSUME Restart \/ CleanupFails \/ Commit PROVE OtherBranchListed'
  BY <1>1, <1>3 DEF Restart, CleanupFails, Commit
<1>4. ASSUME DaemonReorg \/ BackgroundFlush \/ UNCHANGED vars PROVE OtherBranchListed'
  BY <1>2, <1>4 DEF DaemonReorg, BackgroundFlush, vars, store, locals
<1>5. ASSUME Cleanup PROVE OtherBranchListed'
  BY <1>5, QueueListed, UndoBatchListed, UndoDoneListed, ImportListed DEF Cleanup
<1>6. ASSUME Fetch \/ Publish PROVE OtherBranchListed'
  BY <1>3, <1>6, ImportListed DEF Fetch, Publish, IndexPanics, CommitNothing
<1>7. ASSUME Environment PROVE OtherBranchListed'
  BY <1>3, <1>4, <1>7, ImportListed DEF Environment, Crash
<1> QED
  BY <1>4, <1>5, <1>6, <1>7, BeginUpdateListed DEF Next, Update, Poll

----------------------------------------------------------------------------
(* The C and S rows of one block under the writes of the index *)

\* A block's C and S rows are right: its height, and its spenders at its height.
LEMMA RightValues ==
    ASSUME NEW hs, NEW b \in Blocks
    PROVE  SingleValuesOf(hs, b) <=>
             /\ \A t \in TxsOf[b] : hs.conf[t] = Height(b)
             /\ \A t \in TxsOf[b] : \A o \in Spends[t] : hs.edge[o] = <<t, Height(b)>>
<1> USE ZenonT(60)
<1>1. PICK one \in SUBSET Anc[b] : one = {b}
  BY TreeAssumption
<1>2. \A t \in TxsOf[b] : \A o \in Spends[t] : EdgeOf(one)[o] = <<t, Height(b)>>
  BY <1>1, EdgeOfBranch
<1>3. \A t \in TxsOf[b] : \A o \in Spends[t] : EdgeOf({b})[o] = <<t, Height(b)>>
  BY <1>1, <1>2
<1>4. \A o : o \in InputsOf({b}) <=> \E t \in TxsOf[b] : o \in Spends[t]
  BY DEF InputsOf, OutputsOf
<1>5. ASSUME SingleValuesOf(hs, b), NEW t \in TxsOf[b], NEW o \in Spends[t] PROVE hs.edge[o] = <<t, Height(b)>>
  <2>1. o \in InputsOf({b})
    BY <1>4
  <2> QED
    BY <1>3, <1>5, <2>1 DEF SingleValuesOf
<1>6. ASSUME \A t \in TxsOf[b] : hs.conf[t] = Height(b),
             \A t \in TxsOf[b] : \A o \in Spends[t] : hs.edge[o] = <<t, Height(b)>>
      PROVE  SingleValuesOf(hs, b)
  <2>1. ASSUME NEW o \in InputsOf({b}) PROVE hs.edge[o] = EdgeOf({b})[o]
    <3>1. PICK t \in TxsOf[b] : o \in Spends[t]
      BY <1>4
    <3> QED
      BY <1>3, <1>6, <3>1
  <2> QED
    BY <1>6, <2>1 DEF SingleValuesOf
<1>7. SingleValuesOf(hs, b) => \A t \in TxsOf[b] : hs.conf[t] = Height(b)
  BY DEF SingleValuesOf
<1> QED
  BY <1>5, <1>6, <1>7

\* build_single_value_rows: a block of the batch, or one whose rows were right, has the
\* right rows then unless a block of the batch is off its branch.
LEMMA PutMakesRight ==
    ASSUME NEW hs \in HistoryDB, NEW gs, NEW bs \in SUBSET Blocks, NEW b \in Blocks,
           gs.conf = Put(hs.conf, ConfOf(bs)), gs.edge = Put(hs.edge, EdgeOf(bs)),
           b \in bs \/ SingleValuesOf(hs, b), \A x \in bs : ~OffBranch(x, b)
    PROVE  SingleValuesOf(gs, b)
<1> USE ZenonT(60)
<1>1. PICK conf : conf = hs.conf
  OBVIOUS
<1>2. PICK edge : edge = hs.edge
  OBVIOUS
<1>3. b \in bs \/ \A t \in TxsOf[b] : conf[t] = Height(b)
  <2>1. b \in bs \/ \A t \in TxsOf[b] : hs.conf[t] = Height(b)
    BY RightValues
  <2> QED
    BY <1>1, <2>1
<1>4. b \in bs \/ \A t \in TxsOf[b] : \A o \in Spends[t] : edge[o] = <<t, Height(b)>>
  <2>1. b \in bs \/ \A t \in TxsOf[b] : \A o \in Spends[t] : hs.edge[o] = <<t, Height(b)>>
    BY RightValues
  <2> QED
    BY <1>2, <2>1
<1>5. \A t \in TxsOf[b] : Put(conf, ConfOf(bs))[t] = Height(b)
  BY <1>3, PutConfRight
<1>6. \A t \in TxsOf[b] : \A o \in Spends[t] : Put(edge, EdgeOf(bs))[o] = <<t, Height(b)>>
  BY <1>4, PutEdgeRight
<1>7. /\ gs.conf = Put(conf, ConfOf(bs))
      /\ gs.edge = Put(edge, EdgeOf(bs))
  BY <1>1, <1>2
<1>8. \A t \in TxsOf[b] : gs.conf[t] = Height(b)
  BY <1>5, <1>7
<1>9. \A t \in TxsOf[b] : \A o \in Spends[t] : gs.edge[o] = <<t, Height(b)>>
  BY <1>6, <1>7
<1> QED
  BY <1>8, <1>9, RightValues

\* delete_stale_rows: a block that is not undone, on the branch of every undone block,
\* keeps its rows.
LEMMA DeleteKeepsValues ==
    ASSUME NEW hs \in HistoryDB, NEW gs, NEW bs \in SUBSET Blocks, NEW b \in Blocks, b \notin bs,
           gs.conf = Delete(hs.conf, OutputsOf(bs)), gs.edge = Delete(hs.edge, InputsOf(bs)),
           SingleValuesOf(hs, b), \A x \in bs : ~OffBranch(x, b)
    PROVE  SingleValuesOf(gs, b)
<1> USE ZenonT(60)
<1>1. /\ \A t \in TxsOf[b] : t \in Txs /\ t \notin OutputsOf(bs)
      /\ \A t \in TxsOf[b] : \A o \in Spends[t] : o \in Txs /\ o \notin InputsOf(bs)
  BY DeleteKeepsRight
<1>2. \A t \in Txs : t \notin OutputsOf(bs) => gs.conf[t] = hs.conf[t]
  BY DEF Delete
<1>3. \A o \in Txs : o \notin InputsOf(bs) => gs.edge[o] = hs.edge[o]
  BY DEF Delete
<1>4. \A t \in TxsOf[b] : gs.conf[t] = Height(b)
  <2>1. \A t \in TxsOf[b] : hs.conf[t] = Height(b)
    BY RightValues
  <2> QED
    BY <1>1, <1>2, <2>1
<1>5. \A t \in TxsOf[b] : \A o \in Spends[t] : gs.edge[o] = <<t, Height(b)>>
  <2>1. \A t \in TxsOf[b] : \A o \in Spends[t] : hs.edge[o] = <<t, Height(b)>>
    BY RightValues
  <2> QED
    BY <1>1, <1>3, <2>1
<1> QED
  BY <1>4, <1>5, RightValues

----------------------------------------------------------------------------
(* The C and S rows of all indexed blocks under the writes of the index *)

\* Rows put for blocks bs, and R kept or taken off the blocks it covered when bs holds
\* them: Indexer::index, a batch of finish_rewrite and its last batch.
LEMMA PutKeepsProtected ==
    ASSUME NEW hs \in HistoryDB, ValuesProtected(hs), NEW bs \in SUBSET Blocks, NEW gs,
           gs.conf = Put(hs.conf, ConfOf(bs)), gs.edge = Put(hs.edge, EdgeOf(bs)), gs.done = hs.done \cup bs,
           \/ gs.rewrite = hs.rewrite
           \/ \A b \in hs.done : hs.rewrite # None /\ hs.rewrite <= Height(b) => b \in bs
    PROVE  ValuesProtected(gs)
<1> USE ZenonT(60)
<1> SUFFICES ASSUME NEW b \in gs.done, \A x \in gs.done : ~OffBranch(x, b),
                    ~(gs.rewrite # None /\ gs.rewrite <= Height(b))
             PROVE  SingleValuesOf(gs, b)
  BY DEF ValuesProtected
<1>1. b \in Blocks /\ bs \subseteq gs.done /\ hs.done \subseteq gs.done
  BY DEF HistoryDB
<1>2. \A x \in bs : ~OffBranch(x, b)
  BY <1>1
<1>3. b \in bs \/ SingleValuesOf(hs, b)
  <2> SUFFICES ASSUME b \notin bs PROVE SingleValuesOf(hs, b)
    BY SMT
  <2>1. b \in hs.done /\ \A x \in hs.done : ~OffBranch(x, b)
    BY <1>1
  <2>2. ~(hs.rewrite # None /\ hs.rewrite <= Height(b))
    BY <2>1
  <2> QED
    BY <2>1, <2>2 DEF ValuesProtected
<1> QED
  BY <1>1, <1>2, <1>3, PutMakesRight

\* Rows deleted of blocks bs, while R covers every indexed block off the branch of one
\* of them, or one of the blocks cs that stay is off its branch: delete_stale_rows.
LEMMA DeleteKeepsProtected ==
    ASSUME NEW hs \in HistoryDB, ValuesProtected(hs), NEW bs \in SUBSET Blocks, NEW cs \in SUBSET (hs.done \ bs),
           \A x \in bs, b \in hs.done :
              OffBranch(x, b) => (hs.rewrite # None /\ hs.rewrite <= Height(b)) \/ \E c \in cs : OffBranch(c, b),
           NEW gs, gs.conf = Delete(hs.conf, OutputsOf(bs)), gs.edge = Delete(hs.edge, InputsOf(bs)),
           gs.done = hs.done \ bs, gs.rewrite = hs.rewrite
    PROVE  ValuesProtected(gs)
<1> USE ZenonT(60)
<1> SUFFICES ASSUME NEW b \in gs.done, \A x \in gs.done : ~OffBranch(x, b),
                    ~(hs.rewrite # None /\ hs.rewrite <= Height(b))
             PROVE  SingleValuesOf(gs, b)
  BY DEF ValuesProtected
<1>1. b \in Blocks /\ b \in hs.done /\ b \notin bs /\ cs \subseteq gs.done
  BY DEF HistoryDB
<1>2. \A x \in bs : ~OffBranch(x, b)
  BY <1>1
<1>3. \A x \in hs.done : ~OffBranch(x, b)
  BY <1>2
<1>4. SingleValuesOf(hs, b)
  BY <1>1, <1>3 DEF ValuesProtected
<1> QED
  BY <1>1, <1>2, <1>4, DeleteKeepsValues

\* begin_rewrite: the lower of the two heights, so what was covered still is.
LEMMA MarkLowers ==
    ASSUME NEW hs \in HistoryDB, NEW height \in Nat
    PROVE  LET gs == BeginRewrite(hs, height)
           IN  /\ gs.done = hs.done /\ gs.conf = hs.conf /\ gs.edge = hs.edge
               /\ gs.rewrite \in Nat /\ gs.rewrite <= height
               /\ hs.rewrite # None => gs.rewrite <= hs.rewrite
<1> USE ZenonT(60)
<1>1. hs.rewrite \in Nat \cup {None}
  BY DEF HistoryDB
<1>2. BeginRewrite(hs, height).rewrite = IF hs.rewrite # None /\ hs.rewrite < height THEN hs.rewrite ELSE height
  BY DEF BeginRewrite, HistoryDB
<1>3. /\ BeginRewrite(hs, height).rewrite \in Nat /\ BeginRewrite(hs, height).rewrite <= height
      /\ hs.rewrite # None => BeginRewrite(hs, height).rewrite <= hs.rewrite
  BY SMTT(60), <1>1, <1>2
<1>4. /\ BeginRewrite(hs, height).done = hs.done
      /\ BeginRewrite(hs, height).conf = hs.conf /\ BeginRewrite(hs, height).edge = hs.edge
  BY DEF BeginRewrite, HistoryDB
<1> QED
  BY <1>3, <1>4

\* Heights are ordered.
LEMMA AtMost ==
    ASSUME NEW k \in Nat, NEW m \in Nat, NEW n \in Nat, k <= m, m <= n
    PROVE  k <= n
  OBVIOUS

\* Writing R leaves no block without cover that had one.
LEMMA MarkKeepsProtected ==
    ASSUME NEW hs \in HistoryDB, ValuesProtected(hs), NEW height \in Nat
    PROVE  ValuesProtected(BeginRewrite(hs, height))
<1> USE ZenonT(60)
<1>1. PICK gs : gs = BeginRewrite(hs, height)
  OBVIOUS
<1>2. gs.done = hs.done /\ gs.conf = hs.conf /\ gs.edge = hs.edge
  BY <1>1, MarkLowers
<1> USE <1>2
<1>3. gs.rewrite \in Nat /\ (hs.rewrite # None => gs.rewrite <= hs.rewrite)
  BY <1>1, MarkLowers
<1>4. ASSUME NEW b \in gs.done
      PROVE  \/ SingleValuesOf(gs, b)
             \/ gs.rewrite # None /\ gs.rewrite <= Height(b)
             \/ \E x \in gs.done : OffBranch(x, b)
  <2>1. CASE SingleValuesOf(hs, b)
    BY <2>1 DEF SingleValuesOf
  <2>2. CASE hs.rewrite # None /\ hs.rewrite <= Height(b)
    <3>1. b \in Blocks /\ hs.rewrite \in Nat /\ None \notin Nat
      BY <2>2, TxAssumption DEF HistoryDB
    <3>2. Height(b) \in Nat
      BY <3>1, HeightNat
    <3>3. gs.rewrite <= Height(b)
      BY <1>3, <2>2, <3>1, <3>2, AtMost
    <3> QED
      BY <1>3, <3>1, <3>3
  <2>3. CASE \E x \in hs.done : OffBranch(x, b)
    BY <2>3
  <2> QED
    BY <2>1, <2>2, <2>3 DEF ValuesProtected
<1>5. ValuesProtected(gs)
  BY <1>4 DEF ValuesProtected
<1> QED
  BY <1>1, <1>5

----------------------------------------------------------------------------
(* R covers what the undo may take *)

\* undo_uncommitted_blocks: R is at most the fork height of every stale block.
LEMMA LowestFork ==
    ASSUME ListedInvariant, MarkStale
    PROVE  \E lowest \in Nat : /\ hist' = BeginRewrite(hist, lowest) /\ histD' = BeginRewrite(histD, lowest)
                              /\ \A x \in stale : lowest <= ForkHeight(x)
<1> USE ZenonT(60)
<1> DEFINE forks == {ForkHeight(x) : x \in stale}
           lowest == CHOOSE h \in forks : \A g \in forks : h <= g
<1>1. \A x \in stale : ForkHeight(x) \in Nat
  <2> SUFFICES ASSUME NEW x \in stale
               PROVE  ForkHeight(x) \in Nat
    BY SMT
  <2>1. Anc[x] \subseteq Blocks
    BY TreeAssumption DEF ListedInvariant, CleanupInvariant, IndexerInvariant, TypeOK
  <2>2. Anc[x] \cap (newHdrs \cup Chain(headTip)) \subseteq Blocks
    BY <2>1
  <2> QED
    BY <2>2, CountNat DEF ForkHeight
<1>2. stale # {}
  BY DEF ListedInvariant, CleanupInvariant, IndexerInvariant, UpdateLocals, MarkStale
<1>3. \E h \in forks : \A g \in forks : h <= g
  BY <1>1, <1>2, LeastNat
<1>4. lowest \in forks /\ \A g \in forks : lowest <= g
  BY <1>3
<1>5. lowest \in Nat /\ \A x \in stale : lowest <= ForkHeight(x)
  BY <1>1, <1>4
<1>6. hist' = BeginRewrite(hist, lowest) /\ histD' = BeginRewrite(histD, lowest)
  BY DEF MarkStale, WriteHistory
<1> QED
  BY <1>5, <1>6

\* fork_height is at most the height of an indexed block off the branch of the stale
\* one: on the new chain that block is above the fork, and elsewhere it is stale too.
LEMMA StaleCovered ==
    ASSUME ListedInvariant, MarkStale
    PROVE  UndoCovered'
<1> USE ZenonT(60)
<1>1. /\ pc = "stale" /\ pc' = "undo" /\ queue' = stale /\ headTip' = headTip
  BY DEF MarkStale
<1> USE <1>1
<1>2. PICK lowest \in Nat : /\ hist' = BeginRewrite(hist, lowest)
                           /\ \A x \in stale : lowest <= ForkHeight(x)
  BY LowestFork
<1>3. /\ hist \in HistoryDB /\ tip \in Blocks /\ stale \subseteq Blocks
      /\ newHdrs = Chain(tip) \ Chain(headTip) /\ Chain(headTip) \subseteq Chain(tip)
      /\ uncommitted \subseteq newHdrs \cup stale /\ stale \subseteq uncommitted
      /\ hist.done \ Chain(headTip) \subseteq uncommitted
  <2>1. UncommittedBlocks(hist, headTip) = uncommitted \cup {}
    BY DEF ListedInvariant, CleanupInvariant, UncommittedKnown
  <2>2. hist.done \ Chain(headTip) \subseteq uncommitted
    BY <2>1 DEF UncommittedBlocks
  <2>3. Chain(headTip) \subseteq Chain(tip) /\ tip \in Blocks /\ newHdrs = Chain(tip) \ Chain(headTip)
    BY DEF ListedInvariant, CleanupInvariant, IndexerInvariant, UpdateLocals, HeadersContinue
  <2>4. uncommitted \subseteq newHdrs \cup stale /\ stale \subseteq uncommitted
    BY DEF ListedInvariant, CleanupInvariant, OtherBranchListed, UndoPending
  <2>5. hist \in HistoryDB /\ stale \subseteq Blocks
    BY DEF ListedInvariant, CleanupInvariant, IndexerInvariant, TypeOK
  <2> QED
    BY <2>2, <2>3, <2>4, <2>5
<1> USE <1>3
<1>4. hist'.done = hist.done /\ hist'.rewrite \in Nat /\ hist'.rewrite <= lowest
  BY <1>2, MarkLowers
<1>5. \A x \in stale : ForkHeight(x) = Cardinality(Anc[x] \cap Chain(tip))
  <2>1. newHdrs \cup Chain(headTip) = Chain(tip)
    OBVIOUS
  <2> QED
    BY <2>1 DEF ForkHeight
<1>6. ASSUME NEW x \in stale, NEW b \in hist.done, OffBranch(x, b) PROVE hist'.rewrite <= Height(b)
  <2>1. b \in Blocks /\ x \in Blocks
    BY DEF HistoryDB
  <2>2. PICK y \in stale : Cardinality(Anc[y] \cap Chain(tip)) <= Height(b)
    <3>1. CASE b \in Chain(tip)
      <4>1. b \notin Anc[x]
        BY <1>6 DEF OffBranch
      <4> QED
        BY <2>1, <3>1, <4>1, ForkBelow
    <3>2. CASE b \notin Chain(tip)
      <4>1. b \in stale
        BY <3>2
      <4> QED
        BY <2>1, <3>2, <4>1, ForkBelow
    <3> QED
      BY <3>1, <3>2
  <2>3. lowest <= Cardinality(Anc[y] \cap Chain(tip))
    BY <1>2, <1>5
  <2>4. Cardinality(Anc[y] \cap Chain(tip)) \in Nat /\ Height(b) \in Nat
    <3>1. Anc[y] \cap Chain(tip) \subseteq Blocks
      BY TreeAssumption
    <3> QED
      BY <2>1, <3>1, CountNat, HeightNat
  <2>5. lowest \in Nat /\ lowest <= Height(b)
    BY <1>2, <2>2, <2>3, <2>4, AtMost
  <2> QED
    BY <1>4, <2>4, <2>5, AtMost
<1>7. None \notin Nat
  BY TxAssumption
<1>8. hist'.rewrite # None
  BY <1>4, <1>7
<1>9. \A x \in queue', b \in hist'.done : OffBranch(x, b) => hist'.rewrite <= Height(b)
  BY <1>4, <1>6
<1> QED
  BY <1>8, <1>9 DEF UndoCovered

\* pop_reorged_headers: an indexed block off the branch of a reorged one is above the
\* common ancestor, where R is, or off the branch of the ancestor.
LEMMA ReorgCovered ==
    ASSUME ListedInvariant, UndoCovered, PopHeaders
    PROVE  UndoCovered'
<1> USE ZenonT(60)
<1>1. /\ pc = "pop" /\ pc' = "save" /\ queue' = Chain(headTip) \ Chain(fork) /\ headTip' = fork /\ hist' = hist
  BY DEF PopHeaders, PoppedTip, store
<1> USE <1>1
<1>2. hist \in HistoryDB /\ hist.rewrite # None /\ hist.rewrite <= ChainLen(fork)
  BY DEF UndoCovered, ListedInvariant, CleanupInvariant, IndexerInvariant, TypeOK
<1>3. fork \in Blocks /\ Anc[fork] = Chain(tip) \cap Chain(headTip) /\ headTip \in Blocks \cup {None}
  BY DEF ListedInvariant, CleanupInvariant, IndexerInvariant, UpdateLocals, TypeOK
<1> USE <1>3
<1>4. Chain(fork) = Anc[fork] /\ fork \in Anc[fork]
  BY TreeAssumption DEF Chain
<1>5. ASSUME NEW x \in queue', NEW b \in hist.done, OffBranch(x, b)
      PROVE  hist.rewrite <= Height(b) \/ OffBranch(fork, b)
  <2>1. headTip \in Blocks /\ Chain(headTip) = Anc[headTip]
    BY <1>5 DEF Chain
  <2>2. x \in Anc[headTip] /\ fork \in Anc[headTip] /\ x \notin Anc[fork]
    BY <1>4, <2>1
  <2>3. fork \in Anc[x] /\ x \in Blocks
    BY <2>1, <2>2, TwoOfChain, TreeAssumption
  <2>4. b \in Blocks /\ hist.rewrite \in Nat
    BY <1>2 DEF HistoryDB
  <2>5. b \notin Anc[x]
    BY <1>5 DEF OffBranch
  <2>6. CASE fork \in Anc[b]
    <3>1. ChainLen(fork) <= Height(b)
      BY <2>3, <2>4, <2>5, <2>6, AboveFork
    <3>2. ChainLen(fork) \in Nat /\ Height(b) \in Nat
      BY <2>4, ChainLenNat, HeightNat
    <3> QED
      BY <1>2, <2>4, <3>1, <3>2, AtMost
  <2>7. CASE fork \notin Anc[b]
    <3>1. Anc[fork] \subseteq Anc[x]
      BY <2>3, TreeAssumption
    <3> QED
      BY <2>5, <2>7, <3>1 DEF OffBranch
  <2> QED
    BY <2>6, <2>7
<1>6. fork \in Chain(headTip')
  BY <1>4
<1>7. \A x \in queue', b \in hist'.done :
         OffBranch(x, b) => hist'.rewrite <= Height(b) \/ \E c \in Chain(headTip') : OffBranch(c, b)
  BY <1>5, <1>6
<1> QED
  BY <1>2, <1>7 DEF UndoCovered

----------------------------------------------------------------------------
(* What one step does to history_db, in memory and on disk *)

\* No write: a flush, a restart, or a step elsewhere.
HistoryKept == hist' \in {hist, histD} /\ histD' \in {hist, histD}

\* begin_rewrite
HistoryMarked == \E height \in Nat : hist' = BeginRewrite(hist, height) /\ histD' = hist'

\* delete_stale_rows for blocks bs: the history rows are of blocks us that have a marker
\* before the batch and no done-marker after it.
HistoryUndone ==
    \E bs \in SUBSET queue, us \in SUBSET (hist.done \cup hist.undo), rows \in SUBSET HistoryRow,
       del \in SUBSET Blocks, put \in SUBSET Blocks :
        /\ pc = "undo" /\ bs \subseteq us /\ us \cap (hist.done \ bs) = {}
        /\ rows \subseteq RowsOf(us) /\ put \subseteq bs
        /\ hist' = DeleteIndex(hist, rows, bs, del, put) /\ histD' = hist'

\* A batch of finish_rewrite for indexed blocks bs; the one that deletes R leaves none of
\* the indexed blocks out that R covers.
HistoryRewritten ==
    \E bs \in SUBSET hist.done, gs \in HistoryDB :
        /\ pc = "rewrite" /\ gs = PutSingleValued(hist, bs) /\ histD' = hist'
        /\ \/ hist' = gs /\ pc' = pc
           \/ hist' = [gs EXCEPT !.rewrite = None] /\ \A b \in hist.done : hist.rewrite <= Height(b) => b \in bs

\* Indexer::index writes blocks of the chain that ends at the new tip.
HistoryIndexed ==
    \E bs \in SUBSET Chain(tip) : pc = "index" /\ hist' = PutIndex(hist, bs) /\ histD' \in {histD, hist'}

HistoryStep == HistoryKept \/ HistoryMarked \/ HistoryUndone \/ HistoryRewritten \/ HistoryIndexed

\* The databases are of their type, and a durable write of the cleanup starts from
\* what is on disk.
LEMMA ListedTypes ==
    ASSUME ListedInvariant
    PROVE  /\ hist \in HistoryDB /\ histD \in HistoryDB /\ IndexerInvariant /\ CleanupInvariant
           /\ pc \in {"mark", "stale", "undo", "rewrite"} => histD = hist
           /\ flush = "Enable" => histD = hist
  BY ZenonT(60) DEF ListedInvariant, CleanupInvariant, IndexerInvariant, TypeOK, CleanupOnDisk, DiskBehindMemory

\* undo_reorged_blocks and undo_uncommitted_blocks write R.
LEMMA MarkStep ==
    ASSUME ListedInvariant, MarkReorg \/ MarkStale
    PROVE  HistoryMarked
<1> USE ZenonT(60)
<1>1. pc \in {"mark", "stale"} /\ histD = hist
  BY ListedTypes DEF MarkReorg, MarkStale
<1>2. ASSUME MarkReorg PROVE HistoryMarked
  <2>1. ChainLen(fork) \in Nat
    BY ListedTypes, ChainLenNat DEF IndexerInvariant, TypeOK
  <2>2. hist' = BeginRewrite(hist, ChainLen(fork)) /\ histD' = BeginRewrite(histD, ChainLen(fork))
    BY <1>2 DEF MarkReorg, WriteHistory
  <2> QED
    BY <1>1, <2>1, <2>2 DEF HistoryMarked
<1>3. ASSUME MarkStale PROVE HistoryMarked
  BY <1>1, <1>3, LowestFork DEF HistoryMarked
<1> QED
  BY <1>2, <1>3

\* undo_index_or_defer: the rows it deletes are of the undone blocks and of blocks
\* with deferred inputs.
LEMMA UndoBatchStep ==
    ASSUME ListedInvariant, NEW bs \in UndoBatches, UndoBatch(bs)
    PROVE  HistoryUndone
<1> USE ZenonT(60)
<1> DEFINE resolved == {p \in pend : p[3] \in OutputsOf(bs)}
           missing == InputsOf(bs) \ (OutputsOf(txst.added) \cup OutputsOf(bs))
           deferred == {p \in bs \X Txs \X missing : p[2] \in TxsOf[p[1]] /\ p[3] \in Spends[p[2]]}
           left == (pend \ resolved) \cup deferred
           released == Holders(resolved) \ Holders(left)
           rows == (RowsOf(bs) \ SpendRows(deferred)) \cup SpendRows(resolved)
           finished == (bs \ Holders(deferred)) \cup released
           unowned == {r \in rows : ~Owned(r)}
<1>1. /\ pc = "undo"
      /\ hist' = DeleteIndex(hist, unowned, bs, finished, Holders(deferred))
      /\ histD' = DeleteIndex(histD, unowned, bs, finished, Holders(deferred))
  BY DEF UndoBatch, WriteHistory
<1> USE <1>1
<1>2. hist \in HistoryDB /\ histD = hist /\ CleanupInvariant
  BY ListedTypes
<1> USE <1>2
<1>3. /\ bs \subseteq queue /\ queue \subseteq uncommitted /\ Holders(pend) \subseteq hist.undo
      /\ \A p \in pend : p[2] \in TxsOf[p[1]] /\ p[3] \in Spends[p[2]]
  BY DEF UndoBatches, CleanupInvariant, UndoPending
<1> USE <1>3
<1>4. bs \subseteq hist.done \cup hist.undo
  <2>1. UncommittedBlocks(hist, headTip) = uncommitted \cup {}
    BY DEF CleanupInvariant, UncommittedKnown
  <2> QED
    BY <2>1 DEF UncommittedBlocks
<1>5. \A p \in deferred : p[1] \in bs
  OBVIOUS
<1>6. resolved \subseteq pend
  OBVIOUS
<1> HIDE DEF resolved, missing, deferred, left
<1>7. Holders(deferred) \subseteq bs /\ Holders(resolved) \subseteq Holders(pend)
  BY <1>5, <1>6 DEF Holders
<1>8. PICK us \in SUBSET (hist.done \cup hist.undo) : us = bs \cup Holders(pend)
  BY <1>4
<1>9. unowned \subseteq RowsOf(us)
  <2>1. SpendRows(resolved) \subseteq RowsOf(Holders(resolved))
    BY <1>6, PendingRows
  <2>2. RowsOf(Holders(resolved)) \subseteq RowsOf(us)
    BY <1>7, <1>8, RowsOfMonotone
  <2>3. RowsOf(bs) \subseteq RowsOf(us)
    BY <1>8, RowsOfMonotone
  <2> QED
    BY <2>1, <2>2, <2>3
<1>10. us \cap (hist.done \ bs) = {}
  BY <1>8 DEF CleanupInvariant, IndexerInvariant, MarkersExclusive
<1>11. hist.done \cup hist.undo \subseteq Blocks
  BY DEF HistoryDB
<1>12. Holders(deferred) \in SUBSET Blocks /\ finished \in SUBSET Blocks /\ us \in SUBSET Blocks
  BY <1>4, <1>7, <1>8, <1>11
<1>13. unowned \in SUBSET HistoryRow
  <2>1. RowsOf(us) \subseteq HistoryRow
    BY <1>12, RowsOfType
  <2> QED
    BY <1>9, <2>1
<1> HIDE DEF unowned, finished
<1>14. histD' = hist'
  OBVIOUS
<1>15. bs \in SUBSET queue /\ bs \subseteq us
  BY <1>8
<1> USE <1>8, <1>12, <1>13, <1>15 DEF HistoryUndone
<1> WITNESS bs \in SUBSET queue, us \in SUBSET (hist.done \cup hist.undo), unowned \in SUBSET HistoryRow,
            finished \in SUBSET Blocks, Holders(deferred) \in SUBSET Blocks
<1> QED
  BY <1>7, <1>9, <1>10, <1>14, <1>15

\* undo_by_history_scan deletes rows of blocks with deferred inputs only.
LEMMA UndoByScanStep ==
    ASSUME ListedInvariant, UndoByScan
    PROVE  HistoryUndone
<1> USE ZenonT(60)
<1> DEFINE rows == {r \in SpendRows(pend) : ~Owned(r)}
<1>1. PICK none \in SUBSET Blocks : none = {}
  OBVIOUS
<1>2. /\ pc = "undo"
      /\ hist' = DeleteIndex(hist, rows, none, Holders(pend), none)
      /\ histD' = DeleteIndex(histD, rows, none, Holders(pend), none)
  BY <1>1 DEF UndoByScan, WriteHistory
<1>3. hist \in HistoryDB /\ histD = hist /\ CleanupInvariant
  BY <1>2, ListedTypes
<1> USE <1>3
<1>4. Holders(pend) \subseteq hist.undo /\ \A p \in pend : p[2] \in TxsOf[p[1]] /\ p[3] \in Spends[p[2]]
  BY DEF CleanupInvariant, UndoPending
<1> USE <1>4
<1>5. PICK us \in SUBSET (hist.done \cup hist.undo) : us = Holders(pend)
  OBVIOUS
<1>6. rows \subseteq RowsOf(us)
  BY <1>5, PendingRows
<1>7. us \cap (hist.done \ none) = {}
  BY <1>5 DEF CleanupInvariant, IndexerInvariant, MarkersExclusive
<1>8. Holders(pend) \in SUBSET Blocks /\ none \in SUBSET queue /\ us \in SUBSET Blocks /\ none \subseteq us
  BY <1>1, <1>5 DEF HistoryDB
<1>9. rows \in SUBSET HistoryRow
  <2>1. RowsOf(us) \subseteq HistoryRow
    BY <1>8, RowsOfType
  <2> QED
    BY <1>6, <2>1
<1> HIDE DEF rows
<1>10. histD' = hist'
  BY <1>2
<1>11. none \in SUBSET Blocks /\ none \subseteq none
  OBVIOUS
<1> USE <1>8, <1>9, <1>11 DEF HistoryUndone
<1> WITNESS none \in SUBSET queue, us \in SUBSET (hist.done \cup hist.undo), rows \in SUBSET HistoryRow,
            Holders(pend) \in SUBSET Blocks, none \in SUBSET Blocks
<1> QED
  BY <1>2, <1>6, <1>7, <1>8, <1>10, <1>11

\* finish_rewrite: the active blocks are indexed, and when it runs every indexed block
\* is active.
LEMMA RewriteStep ==
    ASSUME ListedInvariant, (\E b \in Blocks : RewriteBatch(Height(b))) \/ FinishRewrite
    PROVE  HistoryRewritten
<1> USE ZenonT(60)
<1> DEFINE Batch(upto) == {a \in Active : hist.rewrite <= Height(a) /\ Height(a) <= upto}
<1>1. pc = "rewrite" /\ hist \in HistoryDB /\ histD = hist
  BY ListedTypes DEF RewriteBatch, FinishRewrite
<1> USE <1>1
<1>2. Active \subseteq hist.done
  BY ListedTypes, ActiveDone
<1>3. ASSUME NEW upto
      PROVE  /\ Batch(upto) \in SUBSET hist.done /\ PutSingleValued(hist, Batch(upto)) \in HistoryDB
             /\ Rewritten(hist, upto) = PutSingleValued(hist, Batch(upto))
  <2>1. Batch(upto) \in SUBSET hist.done /\ Batch(upto) \in SUBSET Blocks
    BY <1>2 DEF HistoryDB
  <2>2. PutSingleValued(hist, Batch(upto)) \in HistoryDB
    BY <2>1, PutSingleValuedType
  <2> QED
    BY <2>1, <2>2 DEF Rewritten
<1>4. ASSUME NEW b \in Blocks, RewriteBatch(Height(b)) PROVE HistoryRewritten
  <2>1. hist' = Rewritten(hist, Height(b)) /\ histD' = Rewritten(histD, Height(b)) /\ pc' = pc
    BY <1>4 DEF RewriteBatch, WriteHistory
  <2>2. PICK bs \in SUBSET hist.done : PutSingleValued(hist, bs) \in HistoryDB /\ Rewritten(hist, Height(b)) = PutSingleValued(hist, bs)
    BY <1>3
  <2> QED
    BY <2>1, <2>2 DEF HistoryRewritten
<1>5. ASSUME FinishRewrite PROVE HistoryRewritten
  <2>1. /\ hist' = [Rewritten(hist, Cardinality(Blocks)) EXCEPT !.rewrite = None]
        /\ histD' = [Rewritten(histD, Cardinality(Blocks)) EXCEPT !.rewrite = None]
    BY <1>5 DEF FinishRewrite, WriteHistory
  <2>2. hist.done \subseteq Chain(tip) /\ newHdrs = Chain(tip) \ Chain(headTip)
    BY DEF ListedInvariant, OtherBranchListed, CleanupInvariant, IndexerInvariant, UpdateLocals
  <2>3. hist.done \subseteq Active
    BY <2>2 DEF Active
  <2>4. \A b \in hist.done : Height(b) <= Cardinality(Blocks)
    BY HeightBound DEF HistoryDB
  <2>5. \A b \in hist.done : hist.rewrite <= Height(b) => b \in Batch(Cardinality(Blocks))
    BY <2>3, <2>4
  <2>6. PICK bs \in SUBSET hist.done : bs = Batch(Cardinality(Blocks))
    BY <1>3
  <2>7. PICK gs \in HistoryDB : gs = PutSingleValued(hist, bs) /\ Rewritten(hist, Cardinality(Blocks)) = gs
    BY <1>3, <2>6
  <2>8. \A b \in hist.done : hist.rewrite <= Height(b) => b \in bs
    BY <2>5, <2>6
  <2>9. hist' = [gs EXCEPT !.rewrite = None] /\ histD' = hist'
    BY <2>1, <2>7
  <2> QED
    BY <2>7, <2>8, <2>9 DEF HistoryRewritten
<1> QED
  BY <1>4, <1>5

\* Indexer::index: the batch is of new headers.
LEMMA IndexStep ==
    ASSUME ListedInvariant, IndexBatch
    PROVE  HistoryIndexed
<1> USE ZenonT(60)
<1>1. PICK bs : bs = batch \ hist.done
  OBVIOUS
<1>2. /\ pc = "index" /\ hist' = PutIndex(hist, bs)
      /\ histD' = IF flush = "Enable" THEN PutIndex(histD, bs) ELSE histD
  BY <1>1 DEF IndexBatch, WriteHistory
<1>3. bs \in SUBSET Chain(tip)
  BY <1>1, <1>2 DEF ListedInvariant, CleanupInvariant, IndexerInvariant, UpdateLocals, HeadersContinue
<1>4. histD' \in {histD, hist'}
  BY <1>2, ListedTypes
<1> QED
  BY <1>2, <1>3, <1>4 DEF HistoryIndexed

\* Every step of the indexer is one of these writes or leaves the history, flushes it,
\* or restarts from disk.
LEMMA StepHistory ==
    ASSUME ListedInvariant, [Next]_vars
    PROVE  HistoryStep
<1> USE ZenonT(60)
<1>1. ASSUME hist' = hist, histD' = histD \/ histD' = hist PROVE HistoryStep
  BY <1>1 DEF HistoryStep, HistoryKept
<1>2. ASSUME Restart PROVE HistoryStep
  BY <1>2 DEF HistoryStep, HistoryKept, Restart
<1>3. ASSUME BeginUpdate PROVE HistoryStep
  BY <1>1, <1>3 DEF BeginUpdate, store
<1>4. ASSUME Cleanup PROVE HistoryStep
  <2>1. ASSUME PopHeaders \/ SaveAncestor \/ UndoDone PROVE HistoryStep
    BY <1>1, <2>1 DEF PopHeaders, SaveAncestor, UndoDone, store
  <2> QED
    BY <1>4, <2>1, MarkStep, UndoBatchStep, UndoByScanStep, RewriteStep DEF Cleanup, HistoryStep
<1>5. ASSUME PlanFetch \/ FetchDone \/ FetchFails \/ \E bs \in FetchBatches : AddBatch(bs) PROVE HistoryStep
  BY <1>1, <1>5 DEF PlanFetch, FetchDone, FetchFails, AddBatch, store
<1>6. ASSUME Fetch PROVE HistoryStep
  BY <1>2, <1>5, <1>6, IndexStep DEF Fetch, IndexPanics, HistoryStep
<1>7. ASSUME Publish PROVE HistoryStep
  <2>1. ASSUME RememberUncommitted \/ FlushTxstore \/ FlushHistory \/ Commit PROVE HistoryStep
    BY <1>1, <2>1 DEF RememberUncommitted, FlushTxstore, FlushHistory, Commit, store
  <2> QED
    BY <1>2, <1>7, <2>1 DEF Publish, CommitNothing
<1>8. ASSUME Environment PROVE HistoryStep
  <2>1. ASSUME DaemonReorg \/ BackgroundFlush \/ CleanupFails PROVE HistoryStep
    BY <1>1, <2>1 DEF DaemonReorg, BackgroundFlush, CleanupFails, store
  <2> QED
    BY <1>2, <1>5, <1>8, <2>1, RewriteStep DEF Environment, Crash, HistoryStep
<1>9. ASSUME UNCHANGED vars PROVE HistoryStep
  BY <1>1, <1>9 DEF vars, store
<1> QED
  BY <1>3, <1>4, <1>6, <1>7, <1>8, <1>9 DEF Next, Update, Poll

----------------------------------------------------------------------------
(* Every step keeps the shared rows protected *)

\* The C and S rows after each write of history_db.
LEMMA HistoryProtected ==
    ASSUME ProtectedInvariant, HistoryStep
    PROVE  ValuesProtected(hist') /\ ValuesProtected(histD')
<1> USE ZenonT(60)
<1>1. /\ ListedInvariant /\ ValuesProtected(hist) /\ ValuesProtected(histD) /\ UndoCovered
  BY DEF ProtectedInvariant
<1> USE <1>1
<1>2. hist \in HistoryDB /\ IndexerInvariant
  BY ListedTypes
<1> USE <1>2
<1>3. ASSUME HistoryKept PROVE ValuesProtected(hist') /\ ValuesProtected(histD')
  BY <1>3 DEF HistoryKept
<1>4. ASSUME HistoryMarked PROVE ValuesProtected(hist') /\ ValuesProtected(histD')
  <2>1. PICK height \in Nat : hist' = BeginRewrite(hist, height) /\ histD' = hist'
    BY <1>4 DEF HistoryMarked
  <2>2. ValuesProtected(BeginRewrite(hist, height))
    BY MarkKeepsProtected
  <2> QED
    BY <2>1, <2>2
<1>5. ASSUME HistoryUndone PROVE ValuesProtected(hist') /\ ValuesProtected(histD')
  <2>1. PICK bs \in SUBSET queue, us \in SUBSET (hist.done \cup hist.undo), rows \in SUBSET HistoryRow,
             del \in SUBSET Blocks, put \in SUBSET Blocks :
           /\ pc = "undo" /\ bs \subseteq us /\ us \cap (hist.done \ bs) = {}
           /\ rows \subseteq RowsOf(us) /\ put \subseteq bs
           /\ hist' = DeleteIndex(hist, rows, bs, del, put) /\ histD' = hist'
    BY <1>5 DEF HistoryUndone
  <2>2. bs \in SUBSET Blocks /\ queue \cap Chain(headTip) = {}
    BY <2>1 DEF IndexerInvariant, TypeOK, UpdateLocals
  <2>3. Chain(headTip) \in SUBSET (hist.done \ bs)
    BY <2>2, PublishedDone
  <2>4. PICK cs \in SUBSET (hist.done \ bs) : cs = Chain(headTip)
    BY <2>3
  <2>5. \A x \in bs, b \in hist.done :
           OffBranch(x, b) => (hist.rewrite # None /\ hist.rewrite <= Height(b)) \/ \E c \in cs : OffBranch(c, b)
    BY <2>1, <2>4 DEF UndoCovered
  <2>6. PICK gs : gs = DeleteIndex(hist, rows, bs, del, put)
    OBVIOUS
  <2>7. /\ gs.conf = Delete(hist.conf, OutputsOf(bs)) /\ gs.edge = Delete(hist.edge, InputsOf(bs))
        /\ gs.done = hist.done \ bs /\ gs.rewrite = hist.rewrite
    BY <2>6 DEF DeleteIndex, HistoryDB
  <2>8. ValuesProtected(gs)
    BY <2>2, <2>5, <2>7, DeleteKeepsProtected
  <2> QED
    BY <2>1, <2>6, <2>8
<1>6. ASSUME HistoryRewritten PROVE ValuesProtected(hist') /\ ValuesProtected(histD')
  <2>1. PICK bs \in SUBSET hist.done, gs \in HistoryDB :
           /\ gs = PutSingleValued(hist, bs) /\ histD' = hist'
           /\ \/ hist' = gs
              \/ hist' = [gs EXCEPT !.rewrite = None] /\ \A b \in hist.done : hist.rewrite <= Height(b) => b \in bs
    BY <1>6 DEF HistoryRewritten
  <2>2. bs \in SUBSET Blocks /\ hist.done \cup bs = hist.done
    BY DEF HistoryDB
  <2>3. /\ gs.conf = Put(hist.conf, ConfOf(bs)) /\ gs.edge = Put(hist.edge, EdgeOf(bs))
        /\ gs.done = hist.done /\ gs.rewrite = hist.rewrite
    BY <2>1 DEF PutSingleValued, HistoryDB
  <2>4. PICK fs : fs = hist'
    OBVIOUS
  <2>5. /\ fs.conf = Put(hist.conf, ConfOf(bs)) /\ fs.edge = Put(hist.edge, EdgeOf(bs)) /\ fs.done = hist.done \cup bs
        /\ fs.rewrite = hist.rewrite \/ \A b \in hist.done : hist.rewrite # None /\ hist.rewrite <= Height(b) => b \in bs
    BY <2>1, <2>2, <2>3, <2>4 DEF HistoryDB
  <2>6. ValuesProtected(fs)
    BY <2>2, <2>5, PutKeepsProtected
  <2> QED
    BY <2>1, <2>4, <2>6
<1>7. ASSUME HistoryIndexed PROVE ValuesProtected(hist') /\ ValuesProtected(histD')
  <2>1. PICK bs \in SUBSET Chain(tip) : hist' = PutIndex(hist, bs) /\ histD' \in {histD, hist'}
    BY <1>7 DEF HistoryIndexed
  <2>2. bs \in SUBSET Blocks
    BY TreeAssumption DEF Chain, IndexerInvariant, TypeOK
  <2>3. PICK gs : gs = PutIndex(hist, bs)
    OBVIOUS
  <2>4. gs.done = hist.done \cup bs
    BY <2>2, <2>3, PutIndexType
  <2>5. gs.conf = Put(hist.conf, ConfOf(bs)) /\ gs.edge = Put(hist.edge, EdgeOf(bs)) /\ gs.rewrite = hist.rewrite
    BY <2>3 DEF PutIndex, PutSingleValued, HistoryDB
  <2>6. ValuesProtected(gs)
    BY <2>2, <2>4, <2>5, PutKeepsProtected
  <2> QED
    BY <2>1, <2>3, <2>6
<1> QED
  BY <1>3, <1>4, <1>5, <1>6, <1>7 DEF HistoryStep

\* undo_blocks works off its queue under the R it started with.
LEMMA UndoStaysCovered ==
    ASSUME ListedInvariant, UndoCovered, UndoByScan \/ \E bs \in UndoBatches : UndoBatch(bs)
    PROVE  UndoCovered'
<1> USE ZenonT(60)
<1>1. pc = "undo" /\ pc' = "undo" /\ headTip' = headTip /\ queue' \subseteq queue
  BY DEF UndoBatch, UndoByScan
<1>2. hist \in HistoryDB /\ HistoryUndone
  BY ListedTypes, UndoBatchStep, UndoByScanStep
<1>3. PICK bs \in SUBSET queue, us \in SUBSET (hist.done \cup hist.undo), rows \in SUBSET HistoryRow,
           del \in SUBSET Blocks, put \in SUBSET Blocks :
         /\ pc = "undo" /\ bs \subseteq us /\ us \cap (hist.done \ bs) = {}
         /\ rows \subseteq RowsOf(us) /\ put \subseteq bs
         /\ hist' = DeleteIndex(hist, rows, bs, del, put) /\ histD' = hist'
  BY <1>2 DEF HistoryUndone
<1>4. hist'.done \subseteq hist.done /\ hist'.rewrite = hist.rewrite
  BY <1>2, <1>3 DEF DeleteIndex, HistoryDB
<1>5. /\ hist.rewrite # None
      /\ \A x \in queue, b \in hist.done :
            OffBranch(x, b) => hist.rewrite <= Height(b) \/ \E c \in Chain(headTip) : OffBranch(c, b)
  BY <1>1 DEF UndoCovered
<1>6. \A x \in queue', b \in hist'.done :
         OffBranch(x, b) => hist'.rewrite <= Height(b) \/ \E c \in Chain(headTip') : OffBranch(c, b)
  BY <1>1, <1>4, <1>5
<1> QED
  BY <1>1, <1>4, <1>5, <1>6 DEF UndoCovered

\* R is written before the headers are popped, and it is not touched until the rewrite.
LEMMA StepCovered ==
    ASSUME ListedInvariant, UndoCovered, [Next]_vars
    PROVE  UndoCovered'
<1> USE ZenonT(60)
<1>1. ASSUME pc' \notin {"pop", "save", "undo"} PROVE UndoCovered'
  BY <1>1 DEF UndoCovered
<1>2. ASSUME UNCHANGED <<hist, headTip, queue, fork, pc>> PROVE UndoCovered'
  BY <1>2 DEF UndoCovered
<1>3. ASSUME MarkReorg PROVE UndoCovered'
  <2>1. ChainLen(fork) \in Nat /\ hist \in HistoryDB /\ None \notin Nat
    BY ListedTypes, ChainLenNat, TxAssumption DEF IndexerInvariant, TypeOK
  <2>2. hist' = BeginRewrite(hist, ChainLen(fork)) /\ pc' = "pop" /\ fork' = fork
    BY <1>3 DEF MarkReorg, WriteHistory, locals
  <2>3. hist'.rewrite \in Nat /\ hist'.rewrite <= ChainLen(fork)
    BY <2>1, <2>2, MarkLowers
  <2> QED
    BY <2>1, <2>2, <2>3 DEF UndoCovered
<1>4. ASSUME SaveAncestor PROVE UndoCovered'
  <2>1. pc = "save" /\ pc' = "undo" /\ UNCHANGED <<hist, headTip, queue>>
    BY <1>4 DEF SaveAncestor, locals
  <2> QED
    BY <2>1 DEF UndoCovered
<1>5. ASSUME Restart \/ CleanupFails \/ BeginUpdate PROVE UndoCovered'
  BY <1>1, <1>5 DEF Restart, CleanupFails, BeginUpdate
<1>6. ASSUME UndoDone \/ FinishRewrite \/ \E b \in Blocks : RewriteBatch(Height(b)) PROVE UndoCovered'
  BY <1>1, <1>6 DEF UndoDone, FinishRewrite, RewriteBatch
<1>7. ASSUME Cleanup PROVE UndoCovered'
  BY <1>3, <1>4, <1>6, <1>7, ReorgCovered, StaleCovered, UndoStaysCovered DEF Cleanup
<1>8. ASSUME PlanFetch \/ FetchDone \/ FetchFails \/ IndexBatch \/ \E bs \in FetchBatches : AddBatch(bs) PROVE UndoCovered'
  BY <1>1, <1>8 DEF PlanFetch, FetchDone, FetchFails, IndexBatch, AddBatch
<1>9. ASSUME RememberUncommitted \/ FlushTxstore \/ FlushHistory \/ Commit PROVE UndoCovered'
  BY <1>1, <1>9 DEF RememberUncommitted, FlushTxstore, FlushHistory, Commit
<1>10. ASSUME Fetch \/ Publish PROVE UndoCovered'
  BY <1>5, <1>8, <1>9, <1>10 DEF Fetch, Publish, IndexPanics, CommitNothing
<1>11. ASSUME DaemonReorg \/ BackgroundFlush \/ UNCHANGED vars PROVE UndoCovered'
  BY <1>2, <1>11 DEF DaemonReorg, BackgroundFlush, vars, store, locals
<1>12. ASSUME Environment PROVE UndoCovered'
  BY <1>5, <1>6, <1>8, <1>11, <1>12 DEF Environment, Crash
<1> QED
  BY <1>5, <1>7, <1>10, <1>11, <1>12 DEF Next, Update, Poll

----------------------------------------------------------------------------
(* The theorems *)

\* Two sets of blocks put into an empty database one after the other: the rows of a
\* block are right unless one of the blocks is off its branch.
LEMMA LegacyRight ==
    ASSUME NEW as \in SUBSET Blocks, NEW cs \in SUBSET Blocks, NEW b \in as \cup cs,
           \A x \in as \cup cs : ~OffBranch(x, b),
           NEW gs, gs.conf = PutSingleValued(PutSingleValued(EmptyHistory, as), cs).conf,
           gs.edge = PutSingleValued(PutSingleValued(EmptyHistory, as), cs).edge
    PROVE  SingleValuesOf(gs, b)
<1> USE ZenonT(60)
<1>1. PICK es \in HistoryDB : es = EmptyHistory
  BY SMT DEF EmptyHistory, HistoryDB
<1>2. PICK hs \in HistoryDB : hs = PutSingleValued(es, as)
  BY PutSingleValuedType
<1>3. hs.conf = Put(es.conf, ConfOf(as)) /\ hs.edge = Put(es.edge, EdgeOf(as))
  BY <1>2 DEF PutSingleValued, HistoryDB
<1>4. PICK fs \in HistoryDB : fs = PutSingleValued(hs, cs)
  BY PutSingleValuedType
<1>5. fs.conf = Put(hs.conf, ConfOf(cs)) /\ fs.edge = Put(hs.edge, EdgeOf(cs))
  BY <1>4 DEF PutSingleValued, HistoryDB
<1>6. gs.conf = Put(hs.conf, ConfOf(cs)) /\ gs.edge = Put(hs.edge, EdgeOf(cs))
  BY <1>1, <1>2, <1>4, <1>5
<1>7. b \in Blocks /\ (\A x \in as : ~OffBranch(x, b)) /\ (\A x \in cs : ~OffBranch(x, b))
  OBVIOUS
<1>8. b \in cs \/ SingleValuesOf(hs, b)
  BY <1>3, <1>7, PutMakesRight
<1> QED
  BY <1>6, <1>7, <1>8, PutMakesRight

\* A database of an older version: whichever branch was written last, a block's row is
\* wrong only where a block of another branch is indexed.
LEMMA InitProtected == Init => ProtectedInvariant
<1> USE ZenonT(60)
<1> SUFFICES ASSUME Init PROVE ProtectedInvariant
  BY SMT
<1>1. ValuesProtected(hist)
  <2>1. CASE LegacyTip = None
    <3>1. hist = EmptyHistory
      BY <2>1 DEF Init
    <3>2. hist.done = {}
      BY <3>1 DEF EmptyHistory
    <3> QED
      BY <3>2 DEF ValuesProtected
  <2>2. CASE LegacyTip # None
    <3>1. LegacyTip \in Blocks /\ LegacyStale \in SUBSET Blocks
      BY <2>2, IndexerAssumption
    <3>2. PICK as \in SUBSET Blocks : as = Anc[LegacyTip]
      BY <3>1, TreeAssumption
    <3>3. PICK w \in {PutSingleValued(PutSingleValued(EmptyHistory, LegacyStale), as),
                      PutSingleValued(PutSingleValued(EmptyHistory, as), LegacyStale)} :
             hist = [EmptyHistory EXCEPT !.done = as \cup LegacyStale, !.rows = RowsOf(as \cup LegacyStale),
                                         !.conf = w.conf, !.edge = w.edge]
      BY <2>2, <3>2 DEF Init, LegacyHistory
    <3>4. hist.done = as \cup LegacyStale /\ hist.conf = w.conf /\ hist.edge = w.edge
      BY <3>3 DEF EmptyHistory
    <3>5. ASSUME NEW b \in hist.done, \A x \in hist.done : ~OffBranch(x, b) PROVE SingleValuesOf(hist, b)
      <4>1. /\ b \in as \cup LegacyStale /\ b \in LegacyStale \cup as
            /\ \A x \in as \cup LegacyStale : ~OffBranch(x, b)
            /\ \A x \in LegacyStale \cup as : ~OffBranch(x, b)
        BY <3>4, <3>5
      <4>2. CASE w = PutSingleValued(PutSingleValued(EmptyHistory, as), LegacyStale)
        BY <3>1, <3>4, <4>1, <4>2, LegacyRight
      <4>3. CASE w = PutSingleValued(PutSingleValued(EmptyHistory, LegacyStale), as)
        BY <3>1, <3>4, <4>1, <4>3, LegacyRight
      <4> QED
        BY <3>3, <4>2, <4>3
    <3> QED
      BY <3>5 DEF ValuesProtected
  <2> QED
    BY <2>1, <2>2
<1>2. histD = hist /\ pc = "start"
  BY DEF Init
<1>3. CleanupInvariant
  BY InitInvariant, InitTracks DEF CleanupInvariant, Tracking
<1>4. OtherBranchListed /\ UndoCovered
  BY <1>2 DEF OtherBranchListed, UndoCovered
<1> QED
  BY <1>1, <1>2, <1>3, <1>4 DEF ProtectedInvariant, ListedInvariant

\* The induction step.
LEMMA NextProtected == ProtectedInvariant /\ [Next]_vars => ProtectedInvariant'
<1> USE ZenonT(60)
<1> SUFFICES ASSUME ProtectedInvariant, [Next]_vars PROVE ProtectedInvariant'
  BY SMT
<1>1. ListedInvariant /\ UndoCovered
  BY DEF ProtectedInvariant
<1>2. CleanupInvariant'
  BY <1>1, NextTracks DEF ListedInvariant
<1>3. OtherBranchListed' /\ UndoCovered'
  BY <1>1, StepListed, StepCovered
<1>4. ValuesProtected(hist)' /\ ValuesProtected(histD)'
  <2>1. ValuesProtected(hist') /\ ValuesProtected(histD')
    BY <1>1, StepHistory, HistoryProtected
  <2> QED
    BY <2>1 DEF ValuesProtected, SingleValuesOf
<1> QED
  BY <1>2, <1>3, <1>4 DEF ProtectedInvariant, ListedInvariant

\* The invariant of the shared rows holds in every state, on every database that an
\* older version may have left.
THEOREM ProtectedHolds == Spec => []ProtectedInvariant
  BY InitProtected, NextProtected, PTL DEF Spec

\* A block off the branch of a published one is uncommitted and forks off below it.
LEMMA ForkIsTracked ==
    ASSUME NEW hs \in HistoryDB, ValuesProtected(hs), NEW ht \in Blocks \cup {None}, Chain(ht) \subseteq hs.done
    PROVE  SingleValuesProtected(hs, ht)
<1> USE ZenonT(60)
<1> SUFFICES ASSUME NEW b \in Chain(ht), NEW x \in hs.done, OffBranch(x, b)
             PROVE  x \in Tracked(hs, ht) /\ Cardinality(Anc[x] \cap Chain(ht)) <= Height(b)
  BY DEF ValuesProtected, SingleValuesProtected
<1>1. x \in Blocks /\ b \notin Anc[x] /\ x \notin Anc[b]
  BY DEF OffBranch, HistoryDB
<1>2. ht \in Blocks /\ Chain(ht) = Anc[ht]
  BY DEF Chain
<1>3. x \notin Chain(ht)
  BY <1>1, <1>2, TwoOfChain
<1>4. x \in Tracked(hs, ht)
  BY <1>3 DEF Tracked, UncommittedBlocks
<1> QED
  BY <1>1, <1>4, ForkBelow

\* No shared row is lost: in every state, in memory and on disk, the C and S rows of a
\* published block are right, or R or an uncommitted block leads to their rewrite.
THEOREM SharedRowsSafe == Spec => []SharedRowsProtected
<1> USE ZenonT(60)
<1>1. ProtectedInvariant => SharedRowsProtected
  <2> SUFFICES ASSUME ProtectedInvariant PROVE SharedRowsProtected
    BY SMT
  <2>1. ListedInvariant /\ ValuesProtected(hist) /\ ValuesProtected(histD)
    BY DEF ProtectedInvariant
  <2>2. hist \in HistoryDB /\ histD \in HistoryDB /\ IndexerInvariant
    BY <2>1, ListedTypes
  <2>3. headTip \in Blocks \cup {None} /\ txstD.tip \in Blocks \cup {None}
    BY <2>2 DEF IndexerInvariant, TypeOK, TxStore
  <2>4. Chain(headTip) \subseteq hist.done
    BY <2>2, PublishedDone
  <2>5. Chain(txstD.tip) \subseteq histD.done
    BY <2>2 DEF IndexerInvariant, SavedChainIndexed
  <2>6. SingleValuesProtected(hist, headTip)
    BY <2>1, <2>2, <2>3, <2>4, ForkIsTracked
  <2>7. SingleValuesProtected(histD, txstD.tip)
    BY <2>1, <2>2, <2>3, <2>5, ForkIsTracked
  <2> QED
    BY <2>6, <2>7 DEF SharedRowsProtected
<1> QED
  BY <1>1, ProtectedHolds, PTL

----------------------------------------------------------------------------
(* Proofs that the index answers for the published chain and nothing else: *)
(* on a database without blocks that an older version left behind, Indexer *)
(* implements PublishedIndex, for every block tree, batch size, import     *)
(* mode, and any number of reorgs, failures and crashes.                   *)

----------------------------------------------------------------------------
(* What the lookups find in the index of one branch *)

\* The lookups answer for the published chain when one branch is indexed and holds
\* that chain, and every history row is of a block with a marker.
LEMMA VisibleExact ==
    ASSUME NEW hs, OneBranchIndexed(hs), NEW ht \in Blocks \cup {None},
           Chain(ht) \subseteq hs.done, hs.rows \subseteq RowsOf(hs.done \cup hs.undo)
    PROVE  Visible(hs, ht) = Published!ChainAnswers(ht)
<1> USE ZenonT(60)
<1>1. PICK b \in Blocks : hs.done \cup hs.undo \subseteq Anc[b]
  BY DEF OneBranchIndexed
<1>2. hs.done \in SUBSET Anc[b] /\ hs.done \cup hs.undo \in SUBSET Anc[b]
  BY <1>1
<1> USE <1>2
<1>3. ht \in Anc[b] \cup {None}
  BY TreeAssumption DEF Chain
<1>4. hs.conf = ConfOf(hs.done) /\ hs.edge = EdgeOf(hs.done) /\ RowsOf(hs.done) \subseteq hs.rows
  BY DEF OneBranchIndexed
<1>5. {r \in hs.rows : r[1] < ChainLen(ht)} = RowsOf(Chain(ht))
  <2>1. PICK us \in SUBSET Anc[b] : us = hs.done \cup hs.undo
    OBVIOUS
  <2>2. PICK rows : rows = hs.rows
    OBVIOUS
  <2>3. RowsOf(Chain(ht)) \subseteq RowsOf(hs.done)
    BY RowsOfMonotone
  <2>4. RowsOf(Chain(ht)) \subseteq rows /\ rows \subseteq RowsOf(us)
    BY <1>4, <2>1, <2>2, <2>3
  <2>5. {r \in rows : r[1] < ChainLen(ht)} = RowsOf(Chain(ht))
    BY <1>3, <2>4, VisibleRows
  <2> QED
    BY <2>2, <2>5
<1>6. Delete(hs.conf, {t \in Txs : hs.conf[t] # None /\ ~(hs.conf[t] < ChainLen(ht))}) = ConfOf(Chain(ht))
  <2>1. PICK as \in SUBSET Anc[b] : as = hs.done
    OBVIOUS
  <2>2. Delete(ConfOf(as), {t \in Txs : ConfOf(as)[t] # None /\ ~(ConfOf(as)[t] < ChainLen(ht))}) = ConfOf(Chain(ht))
    BY <1>3, <2>1, VisibleConf
  <2> QED
    BY <1>4, <2>1, <2>2
<1>7. Delete(hs.edge, {o \in Txs : hs.edge[o] # None /\ ~(hs.edge[o][2] < ChainLen(ht))}) = EdgeOf(Chain(ht))
  <2>1. PICK as \in SUBSET Anc[b] : as = hs.done
    OBVIOUS
  <2>2. Delete(EdgeOf(as), {o \in Txs : EdgeOf(as)[o] # None /\ ~(EdgeOf(as)[o][2] < ChainLen(ht))}) = EdgeOf(Chain(ht))
    BY <1>3, <2>1, VisibleEdge
  <2> QED
    BY <1>4, <2>1, <2>2
<1>8. Visible(hs, ht) = [rows |-> RowsOf(Chain(ht)), conf |-> ConfOf(Chain(ht)), edge |-> EdgeOf(Chain(ht))]
  BY <1>5, <1>6, <1>7 DEF Visible
<1>9. Published!ChainAnswers(ht) = [rows |-> RowsOf(Chain(ht)), conf |-> ConfOf(Chain(ht)), edge |-> EdgeOf(Chain(ht))]
  <2> USE DEF Published!Cardinality, Cardinality, Published!Height, Height
  <2>1. Published!Chain(ht) = Chain(ht)
    BY SMT DEF Published!Chain, Chain
  <2>2. \A bs : Published!RowsOf(bs) = RowsOf(bs)
    BY DEF Published!RowsOf, Published!HistoryRows, RowsOf, HistoryRows
  <2>3. \A bs : Published!ConfOf(bs) = ConfOf(bs)
    BY ZenonT(60) DEF Published!ConfOf, Published!OutputsOf, ConfOf, OutputsOf
  <2>4. \A bs : Published!EdgeOf(bs) = EdgeOf(bs)
    BY SMT DEF Published!EdgeOf, EdgeOf
  <2> QED
    BY <2>1, <2>2, <2>3, <2>4 DEF Published!ChainAnswers
<1> QED
  BY <1>8, <1>9

----------------------------------------------------------------------------
(* The writes of Indexer::update keep the index one of a single branch *)

\* A write of R alone changes nothing about the rows.
LEMMA SameBranch ==
    ASSUME NEW hs, NEW gs, OneBranchIndexed(hs), gs.done = hs.done, gs.undo = hs.undo,
           gs.rows = hs.rows, gs.conf = hs.conf, gs.edge = hs.edge
    PROVE  OneBranchIndexed(gs)
  BY ZenonT(60) DEF OneBranchIndexed

\* Indexer::index adds blocks of the branch that is indexed already.
LEMMA PutKeepsBranch ==
    ASSUME NEW hs \in HistoryDB, OneBranchIndexed(hs), NEW b \in Blocks,
           hs.done \cup hs.undo \subseteq Anc[b], NEW bs \in SUBSET Anc[b]
    PROVE  OneBranchIndexed(PutIndex(hs, bs))
<1> USE ZenonT(60)
<1>1. bs \in SUBSET Blocks /\ hs.done \in SUBSET Anc[b]
  BY TreeAssumption
<1> USE <1>1
<1>2. PICK gs : gs = PutIndex(hs, bs)
  OBVIOUS
<1>3. gs.done = hs.done \cup bs /\ gs.undo = hs.undo \ bs
  BY <1>2, PutIndexType
<1> USE <1>3
<1>4. gs.rows = hs.rows \cup RowsOf(bs)
  BY <1>2, PutIndexRows
<1>5. gs.conf = Put(hs.conf, ConfOf(bs)) /\ gs.edge = Put(hs.edge, EdgeOf(bs))
  BY <1>2 DEF PutIndex, PutSingleValued, HistoryDB
<1>6. hs.conf = ConfOf(hs.done) /\ hs.edge = EdgeOf(hs.done) /\ RowsOf(hs.done) \subseteq hs.rows
  BY DEF OneBranchIndexed
<1>7. gs.conf = ConfOf(gs.done)
  <2>1. Put(ConfOf(hs.done), ConfOf(bs)) = ConfOf(hs.done \cup bs)
    BY PutConf
  <2> QED
    BY <1>5, <1>6, <2>1
<1>8. gs.edge = EdgeOf(gs.done)
  <2>1. Put(EdgeOf(hs.done), EdgeOf(bs)) = EdgeOf(hs.done \cup bs)
    BY PutEdge
  <2> QED
    BY <1>5, <1>6, <2>1
<1>9. RowsOf(gs.done) \subseteq gs.rows
  BY <1>4, <1>6 DEF RowsOf
<1>10. gs.done \cup gs.undo \subseteq Anc[b]
  OBVIOUS
<1>11. OneBranchIndexed(gs)
  BY <1>7, <1>8, <1>9, <1>10 DEF OneBranchIndexed
<1> QED
  BY <1>2, <1>11

\* finish_rewrite writes values that are there already.
LEMMA RewriteKeepsBranch ==
    ASSUME NEW hs \in HistoryDB, OneBranchIndexed(hs), NEW bs \in SUBSET hs.done
    PROVE  /\ PutSingleValued(hs, bs).conf = hs.conf /\ PutSingleValued(hs, bs).edge = hs.edge
           /\ OneBranchIndexed(PutSingleValued(hs, bs))
<1> USE ZenonT(60)
<1>1. PICK b \in Blocks : hs.done \cup hs.undo \subseteq Anc[b]
  BY DEF OneBranchIndexed
<1>2. bs \in SUBSET Blocks /\ bs \in SUBSET Anc[b] /\ hs.done \in SUBSET Anc[b] /\ hs.done \cup bs = hs.done
  BY <1>1, TreeAssumption
<1> USE <1>2
<1>3. PICK gs : gs = PutSingleValued(hs, bs)
  OBVIOUS
<1>4. gs.done = hs.done /\ gs.undo = hs.undo /\ gs.rows = hs.rows
  BY <1>3, PutSingleValuedType
<1>5. gs.conf = Put(hs.conf, ConfOf(bs)) /\ gs.edge = Put(hs.edge, EdgeOf(bs))
  BY <1>3 DEF PutSingleValued, HistoryDB
<1>6. hs.conf = ConfOf(hs.done) /\ hs.edge = EdgeOf(hs.done)
  BY DEF OneBranchIndexed
<1>7. gs.conf = hs.conf
  <2>1. Put(ConfOf(hs.done), ConfOf(bs)) = ConfOf(hs.done \cup bs)
    BY PutConf
  <2> QED
    BY <1>5, <1>6, <2>1
<1>8. gs.edge = hs.edge
  <2>1. Put(EdgeOf(hs.done), EdgeOf(bs)) = EdgeOf(hs.done \cup bs)
    BY PutEdge
  <2> QED
    BY <1>5, <1>6, <2>1
<1>9. OneBranchIndexed(gs)
  BY <1>4, <1>7, <1>8, SameBranch
<1> QED
  BY <1>3, <1>7, <1>8, <1>9

\* The undo deletes the rows of the blocks it takes out, and of no other block of
\* their branch.
LEMMA DeleteKeepsBranch ==
    ASSUME NEW hs \in HistoryDB, OneBranchIndexed(hs), NEW rows, NEW bs, NEW del, NEW put \in SUBSET Blocks,
           bs \subseteq hs.done \cup hs.undo, put \subseteq bs,
           NEW us \in SUBSET (hs.done \cup hs.undo), rows \subseteq RowsOf(us), us \cap (hs.done \ bs) = {}
    PROVE  OneBranchIndexed(DeleteIndex(hs, rows, bs, del, put))
<1> USE ZenonT(60)
<1>1. PICK b \in Blocks : hs.done \cup hs.undo \subseteq Anc[b]
  BY DEF OneBranchIndexed
<1>2. PICK as \in SUBSET Anc[b] : as = hs.done
  BY <1>1
<1>3. PICK cs \in SUBSET as : cs = as \ bs
  OBVIOUS
<1>4. PICK gs : gs = DeleteIndex(hs, rows, bs, del, put)
  OBVIOUS
<1>5. gs.done = cs /\ gs.undo = (hs.undo \ del) \cup put
  <2>1. gs.done = hs.done \ bs /\ gs.undo = (hs.undo \ del) \cup put
    BY <1>4 DEF DeleteIndex, HistoryDB
  <2> QED
    BY <1>2, <1>3, <2>1
<1> USE <1>5
<1>6. gs.rows = hs.rows \ rows
  BY <1>4 DEF DeleteIndex, HistoryDB
<1>7. gs.conf = Delete(hs.conf, OutputsOf(bs)) /\ gs.edge = Delete(hs.edge, InputsOf(bs))
  BY <1>4 DEF DeleteIndex, HistoryDB
<1>8. hs.conf = ConfOf(as) /\ hs.edge = EdgeOf(as) /\ RowsOf(as) \subseteq hs.rows
  BY <1>2 DEF OneBranchIndexed
<1>9. bs \in SUBSET Anc[b] /\ cs \in SUBSET Anc[b] /\ bs \cap cs = {}
  BY <1>1, <1>3
<1>10. OutputsOf(bs) \cap OutputsOf(cs) = {} /\ InputsOf(bs) \cap InputsOf(cs) = {}
  BY <1>9, BranchDisjoint
<1>11. \A t \in OutputsOf(as) : t \in OutputsOf(bs) \/ t \in OutputsOf(cs)
  BY <1>3 DEF OutputsOf
<1>12. \A o \in InputsOf(as) : o \in InputsOf(bs) \/ o \in InputsOf(cs)
  BY <1>11 DEF InputsOf
<1>13. gs.conf = ConfOf(gs.done)
  <2>1. Delete(ConfOf(as), OutputsOf(bs)) = ConfOf(cs)
    BY <1>10, <1>11, DeleteConf
  <2> QED
    BY <1>7, <1>8, <2>1
<1>14. gs.edge = EdgeOf(gs.done)
  <2>1. Delete(EdgeOf(as), InputsOf(bs)) = EdgeOf(cs)
    BY <1>10, <1>12, DeleteEdge
  <2> QED
    BY <1>7, <1>8, <2>1
<1>15. RowsOf(cs) \cap RowsOf(us) = {}
  <2>1. us \in SUBSET Anc[b] /\ cs \cap us = {}
    BY <1>1, <1>2, <1>3
  <2> QED
    BY <1>9, <2>1, BranchDisjoint
<1>16. RowsOf(cs) \subseteq RowsOf(as)
  BY RowsOfMonotone
<1>17. RowsOf(gs.done) \subseteq gs.rows
  BY <1>6, <1>8, <1>15, <1>16
<1>18. gs.done \cup gs.undo \subseteq Anc[b]
  BY <1>1, <1>9
<1>19. OneBranchIndexed(gs)
  BY <1>13, <1>14, <1>17, <1>18 DEF OneBranchIndexed
<1> QED
  BY <1>4, <1>19

----------------------------------------------------------------------------
(* Every step keeps the index one of a single branch *)

\* Both the index that is read and the one a crash would leave.
OneBranch == OneBranchIndexed(hist) /\ OneBranchIndexed(histD)

\* What the invariant says of the databases.
LEMMA ExactTypes ==
    ASSUME ExactInvariant
    PROVE  /\ ListedInvariant /\ hist \in HistoryDB /\ IndexerInvariant /\ CleanupInvariant
           /\ OneBranchIndexed(hist) /\ OneBranchIndexed(histD)
  BY ZenonT(60) DEF ExactInvariant, ListedInvariant, CleanupInvariant, IndexerInvariant, TypeOK

\* Every write of history_db: writing R changes no row, finish_rewrite writes the rows of
\* indexed blocks again, the undo deletes the rows of blocks that are all of the branch
\* and no longer indexed, and Indexer::index writes blocks of the branch that is indexed.
LEMMA StepOneBranch ==
    ASSUME ExactInvariant, [Next]_vars
    PROVE  OneBranch'
<1> USE ZenonT(60)
<1>1. hist \in HistoryDB /\ OneBranchIndexed(hist) /\ OneBranchIndexed(histD) /\ IndexerInvariant
  BY ExactTypes
<1> USE <1>1
<1>2. HistoryStep
  BY ExactTypes, StepHistory
<1>3. ASSUME HistoryKept PROVE OneBranch'
  BY <1>3 DEF HistoryKept, OneBranch
<1>4. ASSUME HistoryMarked PROVE OneBranch'
  <2>1. PICK height \in Nat : hist' = BeginRewrite(hist, height) /\ histD' = hist'
    BY <1>4 DEF HistoryMarked
  <2>2. PICK gs : gs = BeginRewrite(hist, height)
    OBVIOUS
  <2>3. gs.done = hist.done /\ gs.undo = hist.undo /\ gs.rows = hist.rows /\ gs.conf = hist.conf /\ gs.edge = hist.edge
    BY <2>2 DEF BeginRewrite, HistoryDB
  <2>4. OneBranchIndexed(gs)
    BY <2>3, SameBranch
  <2> QED
    BY <2>1, <2>2, <2>4 DEF OneBranch
<1>5. ASSUME HistoryUndone PROVE OneBranch'
  <2>1. PICK bs \in SUBSET queue, us \in SUBSET (hist.done \cup hist.undo), rows \in SUBSET HistoryRow,
             del \in SUBSET Blocks, put \in SUBSET Blocks :
           /\ pc = "undo" /\ bs \subseteq us /\ us \cap (hist.done \ bs) = {}
           /\ rows \subseteq RowsOf(us) /\ put \subseteq bs
           /\ hist' = DeleteIndex(hist, rows, bs, del, put) /\ histD' = hist'
    BY <1>5 DEF HistoryUndone
  <2>2. bs \subseteq hist.done \cup hist.undo
    BY <2>1
  <2>3. OneBranchIndexed(DeleteIndex(hist, rows, bs, del, put))
    BY <2>1, <2>2, DeleteKeepsBranch
  <2> QED
    BY <2>1, <2>3 DEF OneBranch
<1>6. ASSUME HistoryRewritten PROVE OneBranch'
  <2>1. PICK bs \in SUBSET hist.done, gs \in HistoryDB :
           /\ gs = PutSingleValued(hist, bs) /\ histD' = hist'
           /\ hist' = gs \/ hist' = [gs EXCEPT !.rewrite = None]
    BY <1>6 DEF HistoryRewritten
  <2>2. OneBranchIndexed(gs)
    BY <2>1, RewriteKeepsBranch
  <2>3. PICK fs : fs = [gs EXCEPT !.rewrite = None]
    OBVIOUS
  <2>4. fs.done = gs.done /\ fs.undo = gs.undo /\ fs.rows = gs.rows /\ fs.conf = gs.conf /\ fs.edge = gs.edge
    BY <2>3 DEF HistoryDB
  <2>5. OneBranchIndexed(fs)
    BY <2>2, <2>4, SameBranch
  <2> QED
    BY <2>1, <2>2, <2>3, <2>5 DEF OneBranch
<1>7. ASSUME HistoryIndexed PROVE OneBranch'
  <2>1. PICK bs \in SUBSET Chain(tip) : pc = "index" /\ hist' = PutIndex(hist, bs) /\ histD' \in {histD, hist'}
    BY <1>7 DEF HistoryIndexed
  <2>2. tip \in Blocks /\ Chain(tip) = Anc[tip]
    BY <2>1, TreeAssumption DEF Chain, IndexerInvariant, UpdateLocals
  <2>3. hist.done \cup hist.undo \subseteq Anc[tip] /\ bs \in SUBSET Anc[tip]
    BY <2>1, <2>2 DEF ExactInvariant, OtherBranchListed
  <2>4. OneBranchIndexed(PutIndex(hist, bs))
    BY <2>2, <2>3, PutKeepsBranch
  <2>5. OneBranchIndexed(hist')
    BY <2>1, <2>4
  <2> QED
    BY <2>1, <2>5 DEF OneBranch
<1> QED
  BY <1>2, <1>3, <1>4, <1>5, <1>6, <1>7 DEF HistoryStep

----------------------------------------------------------------------------
(* The theorems *)

\* A database without blocks of another branch, new or left by an older version, is
\* the index of one branch.
LEMMA InitExact ==
    ASSUME LegacyStale = {}, Init
    PROVE  ExactInvariant
<1> USE ZenonT(60)
<1>1. PICK none \in SUBSET Anc[Genesis] : none = {}
  OBVIOUS
<1>2. Genesis \in Blocks
  BY TreeAssumption
<1> USE <1>2
<1>3. EmptyHistory \in HistoryDB /\ EmptyHistory.conf = ConfOf(none) /\ EmptyHistory.edge = EdgeOf(none)
  <2>1. OutputsOf(none) = {} /\ InputsOf(none) = {}
    BY <1>1 DEF OutputsOf, InputsOf
  <2>2. \A t \in Txs : ConfOf(none)[t] = None
    BY <2>1, ConfOfBranch
  <2>3. ConfOf(none) = [t \in Txs |-> ConfOf(none)[t]]
    BY ConfOfBranch
  <2>4. \A o \in Txs : EdgeOf(none)[o] = None
    BY <2>1, EdgeOfBranch
  <2>5. EdgeOf(none) = [o \in Txs |-> EdgeOf(none)[o]]
    BY EdgeOfBranch
  <2>6. EmptyHistory.conf = [t \in Txs |-> None] /\ EmptyHistory.edge = [o \in Txs |-> None]
    BY DEF EmptyHistory
  <2>7. EmptyHistory \in HistoryDB
    BY SMT DEF EmptyHistory, HistoryDB
  <2> QED
    BY <2>2, <2>3, <2>4, <2>5, <2>6, <2>7
<1>4. OneBranchIndexed(hist)
  <2>1. CASE LegacyTip = None
    <3>1. hist = EmptyHistory
      BY <2>1 DEF Init
    <3>2. hist.done = none /\ hist.undo = {} /\ hist.rows = {}
      BY <1>1, <3>1 DEF EmptyHistory
    <3>3. hist.done \cup hist.undo \subseteq Anc[Genesis] /\ RowsOf(hist.done) \subseteq hist.rows
      BY <1>1, <3>2 DEF RowsOf
    <3> QED
      BY <1>3, <3>1, <3>2, <3>3 DEF OneBranchIndexed
  <2>2. CASE LegacyTip # None
    <3>1. LegacyTip \in Blocks
      BY <2>2, IndexerAssumption
    <3>2. PICK as \in SUBSET Anc[LegacyTip] : as = Anc[LegacyTip]
      OBVIOUS
    <3>3. none \in SUBSET Anc[LegacyTip] /\ none \in SUBSET Blocks /\ as \in SUBSET Blocks
      BY <1>1, <3>1, TreeAssumption
    <3>4. as \cup LegacyStale = as /\ LegacyStale = none
      BY <1>1
    <3>5. PICK w \in {PutSingleValued(PutSingleValued(EmptyHistory, none), as),
                      PutSingleValued(PutSingleValued(EmptyHistory, as), none)} :
             hist = [EmptyHistory EXCEPT !.done = as, !.rows = RowsOf(as), !.conf = w.conf, !.edge = w.edge]
      BY <2>2, <3>2, <3>4 DEF Init, LegacyHistory
    <3>6. hist.done = as /\ hist.undo = {} /\ hist.rows = RowsOf(as) /\ hist.conf = w.conf /\ hist.edge = w.edge
      BY <3>5 DEF EmptyHistory
    <3>7. ASSUME NEW hs \in HistoryDB, NEW bs \in SUBSET Blocks
          PROVE  /\ PutSingleValued(hs, bs).conf = Put(hs.conf, ConfOf(bs))
                 /\ PutSingleValued(hs, bs).edge = Put(hs.edge, EdgeOf(bs))
                 /\ PutSingleValued(hs, bs) \in HistoryDB
      <4>1. PutSingleValued(hs, bs) \in HistoryDB
        BY PutSingleValuedType
      <4> QED
        BY <4>1 DEF PutSingleValued, HistoryDB
    <3>8. ASSUME NEW bs \in SUBSET Anc[LegacyTip], NEW cs \in SUBSET Anc[LegacyTip], bs \cup cs = as,
                 bs \in SUBSET Blocks, cs \in SUBSET Blocks
          PROVE  /\ PutSingleValued(PutSingleValued(EmptyHistory, bs), cs).conf = ConfOf(as)
                 /\ PutSingleValued(PutSingleValued(EmptyHistory, bs), cs).edge = EdgeOf(as)
      <4>1. PICK hs \in HistoryDB : hs = PutSingleValued(EmptyHistory, bs)
        BY <1>3, <3>7, <3>8
      <4>2. hs.conf = Put(ConfOf(none), ConfOf(bs)) /\ hs.edge = Put(EdgeOf(none), EdgeOf(bs))
        BY <1>3, <3>7, <3>8, <4>1
      <4>3. none \cup bs = bs
        BY <1>1
      <4>4. Put(ConfOf(none), ConfOf(bs)) = ConfOf(none \cup bs)
        BY <3>1, <3>3, PutConf
      <4>5. Put(EdgeOf(none), EdgeOf(bs)) = EdgeOf(none \cup bs)
        BY <3>1, <3>3, PutEdge
      <4>6. Put(ConfOf(bs), ConfOf(cs)) = ConfOf(bs \cup cs)
        BY <3>1, PutConf
      <4>7. Put(EdgeOf(bs), EdgeOf(cs)) = EdgeOf(bs \cup cs)
        BY <3>1, PutEdge
      <4>8. PutSingleValued(hs, cs).conf = Put(hs.conf, ConfOf(cs)) /\ PutSingleValued(hs, cs).edge = Put(hs.edge, EdgeOf(cs))
        BY <3>7, <3>8
      <4> QED
        BY <3>8, <4>1, <4>2, <4>3, <4>4, <4>5, <4>6, <4>7, <4>8
    <3>9. none \cup as = as /\ as \cup none = as
      BY <1>1
    <3>10. w.conf = ConfOf(as) /\ w.edge = EdgeOf(as)
      BY <3>3, <3>5, <3>8, <3>9
    <3>11. hist.done \cup hist.undo \subseteq Anc[LegacyTip]
      BY <3>6
    <3> QED
      BY <3>1, <3>6, <3>10, <3>11 DEF OneBranchIndexed
  <2> QED
    BY <2>1, <2>2
<1>5. histD = hist /\ pc = "start"
  BY DEF Init
<1>6. CleanupInvariant
  BY InitInvariant, InitTracks DEF CleanupInvariant, Tracking
<1>7. OtherBranchListed
  BY <1>5 DEF OtherBranchListed
<1> QED
  BY <1>4, <1>5, <1>6, <1>7 DEF ExactInvariant

\* The induction step.
LEMMA NextExact == ExactInvariant /\ [Next]_vars => ExactInvariant'
<1> USE ZenonT(60)
<1> SUFFICES ASSUME ExactInvariant, [Next]_vars PROVE ExactInvariant'
  BY SMT
<1>1. CleanupInvariant'
  BY NextTracks DEF ExactInvariant
<1> QED
  BY <1>1, StepOneBranch, StepListed DEF ExactInvariant, OneBranch, ListedInvariant

\* The lookups answer for the published chain, and would after a crash.
LEMMA ExactAnswers == ExactInvariant => PublishedIndexExact
<1> USE ZenonT(60)
<1> SUFFICES ASSUME ExactInvariant PROVE PublishedIndexExact
  BY ZenonT(60)
<1>1. headTip \in Blocks \cup {None} /\ txstD.tip \in Blocks \cup {None}
  BY DEF ExactInvariant, CleanupInvariant, IndexerInvariant, TypeOK, TxStore
<1>2. Chain(headTip) \subseteq hist.done
  BY ExactTypes, PublishedDone
<1>3. Chain(txstD.tip) \subseteq histD.done
  BY ExactTypes DEF IndexerInvariant, SavedChainIndexed
<1>4. hist.rows \subseteq RowsOf(hist.done \cup hist.undo)
  BY ExactTypes, MarkedRows
<1>5. histD.rows \subseteq RowsOf(histD.done \cup histD.undo)
  BY ExactTypes DEF CleanupInvariant, RowsMarked
<1>6. Visible(hist, headTip) = Published!ChainAnswers(headTip)
  BY <1>1, <1>2, <1>4, ExactTypes, VisibleExact
<1>7. Visible(histD, txstD.tip) = Published!ChainAnswers(txstD.tip)
  BY <1>1, <1>3, <1>5, ExactTypes, VisibleExact
<1> QED
  BY <1>6, <1>7 DEF PublishedIndexExact

\* The invariant of the exact index holds in every state, on every database without
\* blocks that an older version indexed and never undid.
THEOREM ExactHolds ==
    ASSUME LegacyStale = {}
    PROVE  Spec => []ExactInvariant
<1>1. Init => ExactInvariant
  BY InitExact
<1> QED
  BY <1>1, NextExact, PTL DEF Spec

\* At every moment of a reorg, of an import and of a recovery the lookups answer for
\* the published chain and nothing else, and so would the index left by a crash.
THEOREM PublishedExact ==
    ASSUME LegacyStale = {}
    PROVE  Spec => []PublishedIndexExact
  BY ExactHolds, ExactAnswers, PTL

----------------------------------------------------------------------------
(* The index after a cleanup, also of a database that an older version damaged *)

\* Rows put for indexed blocks have the value of an indexed block.
LEMMA PutKeepsIndexed ==
    ASSUME NEW hs \in HistoryDB, ValuesIndexed(hs), NEW bs \in SUBSET Blocks, NEW gs,
           gs.conf = Put(hs.conf, ConfOf(bs)), gs.edge = Put(hs.edge, EdgeOf(bs)), gs.done = hs.done \cup bs
    PROVE  ValuesIndexed(gs)
<1> USE ZenonT(60)
<1>1. ASSUME NEW t \in Txs, gs.conf[t] # None
      PROVE  \E x \in gs.done : t \in TxsOf[x] /\ gs.conf[t] = Height(x)
  <2>1. gs.conf[t] = IF ConfOf(bs)[t] # None THEN ConfOf(bs)[t] ELSE hs.conf[t]
    BY DEF Put
  <2>2. CASE ConfOf(bs)[t] # None
    <3>1. PICK x \in bs : t \in TxsOf[x] /\ ConfOf(bs)[t] = Height(x)
      BY <2>2, ConfChosen
    <3> QED
      BY <2>1, <2>2, <3>1
  <2>3. CASE ConfOf(bs)[t] = None
    <3>1. gs.conf[t] = hs.conf[t] /\ hs.conf[t] # None
      BY <1>1, <2>1, <2>3
    <3>2. PICK x \in hs.done : t \in TxsOf[x] /\ hs.conf[t] = Height(x)
      BY <3>1 DEF ValuesIndexed
    <3> QED
      BY <3>1, <3>2
  <2> QED
    BY <2>2, <2>3
<1>2. ASSUME NEW o \in Txs, gs.edge[o] # None
      PROVE  \E x \in gs.done : \E t \in TxsOf[x] : o \in Spends[t] /\ gs.edge[o] = <<t, Height(x)>>
  <2>1. gs.edge[o] = IF EdgeOf(bs)[o] # None THEN EdgeOf(bs)[o] ELSE hs.edge[o]
    BY DEF Put
  <2>2. CASE EdgeOf(bs)[o] # None
    <3>1. PICK x \in bs : \E t \in TxsOf[x] : o \in Spends[t] /\ EdgeOf(bs)[o] = <<t, Height(x)>>
      BY <2>2, EdgeChosen
    <3>2. gs.edge[o] = EdgeOf(bs)[o] /\ x \in gs.done
      BY <2>1, <2>2
    <3> QED
      BY <3>1, <3>2
  <2>3. CASE EdgeOf(bs)[o] = None
    <3>1. gs.edge[o] = hs.edge[o] /\ hs.edge[o] # None
      BY <1>2, <2>1, <2>3
    <3>2. PICK x \in hs.done : \E t \in TxsOf[x] : o \in Spends[t] /\ hs.edge[o] = <<t, Height(x)>>
      BY <3>1 DEF ValuesIndexed
    <3>3. x \in gs.done
      OBVIOUS
    <3> QED
      BY <3>1, <3>2, <3>3
  <2> QED
    BY <2>2, <2>3
<1> QED
  BY <1>1, <1>2 DEF ValuesIndexed

\* delete_stale_rows takes the rows of the undone blocks along.
LEMMA DeleteKeepsIndexed ==
    ASSUME NEW hs \in HistoryDB, ValuesIndexed(hs), NEW bs \in SUBSET Blocks, NEW gs,
           gs.conf = Delete(hs.conf, OutputsOf(bs)), gs.edge = Delete(hs.edge, InputsOf(bs)), gs.done = hs.done \ bs
    PROVE  ValuesIndexed(gs)
<1> USE ZenonT(60)
<1>1. ASSUME NEW t \in Txs, gs.conf[t] # None
      PROVE  \E x \in gs.done : t \in TxsOf[x] /\ gs.conf[t] = Height(x)
  <2>1. t \notin OutputsOf(bs) /\ gs.conf[t] = hs.conf[t] /\ hs.conf[t] # None
    BY <1>1 DEF Delete
  <2>2. PICK x \in hs.done : t \in TxsOf[x] /\ hs.conf[t] = Height(x)
    BY <2>1 DEF ValuesIndexed
  <2>3. x \notin bs
    BY <2>1, <2>2 DEF OutputsOf
  <2> QED
    BY <2>1, <2>2, <2>3
<1>2. ASSUME NEW o \in Txs, gs.edge[o] # None
      PROVE  \E x \in gs.done : \E t \in TxsOf[x] : o \in Spends[t] /\ gs.edge[o] = <<t, Height(x)>>
  <2>1. o \notin InputsOf(bs) /\ gs.edge[o] = hs.edge[o] /\ hs.edge[o] # None
    BY <1>2 DEF Delete
  <2>2. PICK x \in hs.done : \E t \in TxsOf[x] : o \in Spends[t] /\ hs.edge[o] = <<t, Height(x)>>
    BY <2>1 DEF ValuesIndexed
  <2>3. x \in bs => o \in InputsOf(bs)
    BY <2>2 DEF InputsOf, OutputsOf
  <2>4. x \in gs.done
    BY <2>1, <2>3
  <2> QED
    BY <2>1, <2>2, <2>4
<1> QED
  BY <1>1, <1>2 DEF ValuesIndexed

\* The database holds values of indexed blocks, and all rows of theirs.
Whole(hs) == ValuesIndexed(hs) /\ RowsComplete(hs)

\* Every write of history_db keeps it whole: the undo of a block deletes no row of a block
\* that stays indexed, because blocks of different heights have no row in common.
LEMMA HistoryWhole ==
    ASSUME HeightsApart, ListedInvariant, HistoryStep, Whole(hist), Whole(histD)
    PROVE  Whole(hist') /\ Whole(histD')
<1> USE ZenonT(60)
<1>1. hist \in HistoryDB /\ IndexerInvariant
  BY ListedTypes
<1> USE <1>1
<1>2. ValuesIndexed(hist) /\ RowsOf(hist.done) \subseteq hist.rows
  BY DEF Whole, RowsComplete
<1> USE <1>2
<1>3. ASSUME HistoryKept PROVE Whole(hist') /\ Whole(histD')
  BY <1>3 DEF HistoryKept
<1>4. ASSUME HistoryMarked PROVE Whole(hist') /\ Whole(histD')
  <2>1. PICK height \in Nat : hist' = BeginRewrite(hist, height) /\ histD' = hist'
    BY <1>4 DEF HistoryMarked
  <2>2. PICK gs : gs = BeginRewrite(hist, height)
    OBVIOUS
  <2>3. gs.done = hist.done /\ gs.rows = hist.rows /\ gs.conf = hist.conf /\ gs.edge = hist.edge
    BY <2>2 DEF BeginRewrite, HistoryDB
  <2>4. ValuesIndexed(gs) /\ RowsComplete(gs)
    BY <2>3 DEF ValuesIndexed, RowsComplete
  <2> QED
    BY <2>1, <2>2, <2>4 DEF Whole
<1>5. ASSUME HistoryUndone PROVE Whole(hist') /\ Whole(histD')
  <2>1. PICK bs \in SUBSET queue, us \in SUBSET (hist.done \cup hist.undo), rows \in SUBSET HistoryRow,
             del \in SUBSET Blocks, put \in SUBSET Blocks :
           /\ pc = "undo" /\ bs \subseteq us /\ us \cap (hist.done \ bs) = {}
           /\ rows \subseteq RowsOf(us) /\ put \subseteq bs
           /\ hist' = DeleteIndex(hist, rows, bs, del, put) /\ histD' = hist'
    BY <1>5 DEF HistoryUndone
  <2>2. bs \in SUBSET Blocks /\ us \in SUBSET Blocks /\ hist.done \in SUBSET Blocks
    BY DEF IndexerInvariant, TypeOK, HistoryDB
  <2>3. PICK gs : gs = DeleteIndex(hist, rows, bs, del, put)
    OBVIOUS
  <2>4. /\ gs.conf = Delete(hist.conf, OutputsOf(bs)) /\ gs.edge = Delete(hist.edge, InputsOf(bs))
        /\ gs.done = hist.done \ bs /\ gs.rows = hist.rows \ rows
    BY <2>3 DEF DeleteIndex, HistoryDB
  <2>5. ValuesIndexed(gs)
    BY <2>2, <2>4, DeleteKeepsIndexed
  <2>6. PICK cs \in SUBSET Blocks : cs = hist.done \ bs
    BY <2>2
  <2>7. us \cap cs = {}
    BY <2>1, <2>6
  <2>8. RowsOf(us) \cap RowsOf(cs) = {}
    BY <2>2, <2>7, RowsApart
  <2>9. RowsOf(cs) \subseteq RowsOf(hist.done)
    BY <2>6, RowsOfMonotone
  <2>10. RowsOf(cs) \subseteq gs.rows
    BY <2>1, <2>4, <2>8, <2>9
  <2>11. RowsComplete(gs)
    BY <2>4, <2>6, <2>10 DEF RowsComplete
  <2> QED
    BY <2>1, <2>3, <2>5, <2>11 DEF Whole
<1>6. ASSUME HistoryRewritten PROVE Whole(hist') /\ Whole(histD')
  <2>1. PICK bs \in SUBSET hist.done, gs \in HistoryDB :
           /\ gs = PutSingleValued(hist, bs) /\ histD' = hist'
           /\ hist' = gs \/ hist' = [gs EXCEPT !.rewrite = None]
    BY <1>6 DEF HistoryRewritten
  <2>2. bs \in SUBSET Blocks /\ hist.done \cup bs = hist.done
    BY DEF HistoryDB
  <2>3. /\ gs.conf = Put(hist.conf, ConfOf(bs)) /\ gs.edge = Put(hist.edge, EdgeOf(bs))
        /\ gs.done = hist.done /\ gs.rows = hist.rows
    BY <2>1 DEF PutSingleValued, HistoryDB
  <2>4. PICK fs : fs = hist'
    OBVIOUS
  <2>5. /\ fs.conf = Put(hist.conf, ConfOf(bs)) /\ fs.edge = Put(hist.edge, EdgeOf(bs))
        /\ fs.done = hist.done \cup bs /\ fs.rows = hist.rows
    BY <2>1, <2>2, <2>3, <2>4 DEF HistoryDB
  <2>6. ValuesIndexed(fs)
    BY <2>2, <2>5, PutKeepsIndexed
  <2>7. RowsComplete(fs)
    BY <2>2, <2>5 DEF RowsComplete
  <2> QED
    BY <2>1, <2>4, <2>6, <2>7 DEF Whole
<1>7. ASSUME HistoryIndexed PROVE Whole(hist') /\ Whole(histD')
  <2>1. PICK bs \in SUBSET Chain(tip) : hist' = PutIndex(hist, bs) /\ histD' \in {histD, hist'}
    BY <1>7 DEF HistoryIndexed
  <2>2. bs \in SUBSET Blocks
    BY TreeAssumption DEF Chain, IndexerInvariant, TypeOK
  <2>3. PICK gs : gs = PutIndex(hist, bs)
    OBVIOUS
  <2>4. gs.done = hist.done \cup bs /\ gs.rows = hist.rows \cup RowsOf(bs)
    BY <2>2, <2>3, PutIndexType, PutIndexRows
  <2>5. gs.conf = Put(hist.conf, ConfOf(bs)) /\ gs.edge = Put(hist.edge, EdgeOf(bs))
    BY <2>3 DEF PutIndex, PutSingleValued, HistoryDB
  <2>6. ValuesIndexed(gs)
    BY <2>2, <2>4, <2>5, PutKeepsIndexed
  <2>7. RowsOf(gs.done) \subseteq gs.rows
    BY <2>4 DEF RowsOf
  <2> QED
    BY <2>1, <2>3, <2>6, <2>7 DEF Whole, RowsComplete
<1> QED
  BY <1>3, <1>4, <1>5, <1>6, <1>7 DEF HistoryStep

\* Two sets of blocks put into an empty database one after the other.
LEMMA LegacyIndexed ==
    ASSUME NEW as \in SUBSET Blocks, NEW cs \in SUBSET Blocks, NEW gs, gs.done = as \cup cs,
           gs.conf = PutSingleValued(PutSingleValued(EmptyHistory, as), cs).conf,
           gs.edge = PutSingleValued(PutSingleValued(EmptyHistory, as), cs).edge
    PROVE  ValuesIndexed(gs)
<1> USE ZenonT(60)
<1>1. PICK es \in HistoryDB : es = EmptyHistory
  BY SMT DEF EmptyHistory, HistoryDB
<1>2. es.done = {} /\ ValuesIndexed(es)
  BY <1>1 DEF EmptyHistory, ValuesIndexed
<1>3. PICK hs \in HistoryDB : hs = PutSingleValued(es, as)
  BY PutSingleValuedType
<1>4. hs.conf = Put(es.conf, ConfOf(as)) /\ hs.edge = Put(es.edge, EdgeOf(as))
  BY <1>3 DEF PutSingleValued, HistoryDB
<1>5. PICK ds \in HistoryDB : ds = [hs EXCEPT !.done = as]
  BY DEF HistoryDB
<1>6. ds.done = as /\ ds.conf = hs.conf /\ ds.edge = hs.edge
  BY <1>5 DEF HistoryDB
<1>7. ds.done = es.done \cup as /\ ds.conf = Put(es.conf, ConfOf(as)) /\ ds.edge = Put(es.edge, EdgeOf(as))
  BY <1>2, <1>4, <1>6
<1>8. ValuesIndexed(ds)
  BY <1>2, <1>7, PutKeepsIndexed
<1>9. PICK fs \in HistoryDB : fs = PutSingleValued(hs, cs)
  BY PutSingleValuedType
<1>10. fs.conf = Put(hs.conf, ConfOf(cs)) /\ fs.edge = Put(hs.edge, EdgeOf(cs))
  BY <1>9 DEF PutSingleValued, HistoryDB
<1>11. gs.conf = Put(ds.conf, ConfOf(cs)) /\ gs.edge = Put(ds.edge, EdgeOf(cs)) /\ gs.done = ds.done \cup cs
  BY <1>1, <1>3, <1>6, <1>9, <1>10
<1> QED
  BY <1>8, <1>11, PutKeepsIndexed

\* The database that Indexer::open finds is whole, also one of an older version.
LEMMA InitWhole ==
    ASSUME Init
    PROVE  Whole(hist)
<1> USE ZenonT(60)
<1>1. CASE LegacyTip = None
  <2>1. hist = EmptyHistory
    BY <1>1 DEF Init
  <2>2. hist.done = {} /\ ValuesIndexed(hist)
    BY <2>1 DEF EmptyHistory, ValuesIndexed
  <2> QED
    BY <2>2 DEF Whole, RowsComplete, RowsOf
<1>2. CASE LegacyTip # None
  <2>1. LegacyTip \in Blocks /\ LegacyStale \in SUBSET Blocks
    BY <1>2, IndexerAssumption
  <2>2. PICK as \in SUBSET Blocks : as = Anc[LegacyTip]
    BY <2>1, TreeAssumption
  <2>3. PICK w \in {PutSingleValued(PutSingleValued(EmptyHistory, LegacyStale), as),
                    PutSingleValued(PutSingleValued(EmptyHistory, as), LegacyStale)} :
           hist = [EmptyHistory EXCEPT !.done = as \cup LegacyStale, !.rows = RowsOf(as \cup LegacyStale),
                                       !.conf = w.conf, !.edge = w.edge]
    BY <1>2, <2>2 DEF Init, LegacyHistory
  <2>4. /\ hist.done = as \cup LegacyStale /\ hist.rows = RowsOf(as \cup LegacyStale)
        /\ hist.conf = w.conf /\ hist.edge = w.edge
    BY <2>3 DEF EmptyHistory
  <2>5. hist.done = LegacyStale \cup as
    BY <2>4
  <2>6. CASE w = PutSingleValued(PutSingleValued(EmptyHistory, as), LegacyStale)
    <3>1. ValuesIndexed(hist)
      BY <2>1, <2>4, <2>6, LegacyIndexed
    <3> QED
      BY <2>4, <3>1 DEF Whole, RowsComplete
  <2>7. CASE w = PutSingleValued(PutSingleValued(EmptyHistory, LegacyStale), as)
    <3>1. ValuesIndexed(hist)
      BY <2>1, <2>4, <2>5, <2>7, LegacyIndexed
    <3> QED
      BY <2>4, <3>1 DEF Whole, RowsComplete
  <2> QED
    BY <2>3, <2>6, <2>7
<1> QED
  BY <1>1, <1>2

\* clean_up_stale_blocks returns when nothing of another branch is indexed and R is gone,
\* and the import writes neither.
LEMMA StepOver ==
    ASSUME ListedInvariant, ListedInvariant', CleanupOver, [Next]_vars
    PROVE  CleanupOver'
<1> USE ZenonT(60)
<1> DEFINE Import == {"plan", "fetch", "index", "complete", "flushTxstore", "flushHistory", "commit"}
<1>1. ASSUME pc' \notin Import, pc' = "idle" => failedAt' # None PROVE CleanupOver'
  BY <1>1 DEF CleanupOver, ImportRuns
<1>2. ASSUME UNCHANGED <<hist, failedAt, pc>> PROVE CleanupOver'
  BY <1>2 DEF CleanupOver, ImportRuns
<1>3. ASSUME pc \in Import, hist' = hist PROVE CleanupOver'
  BY <1>3 DEF CleanupOver, ImportRuns
<1>4. ASSUME pc' \in Import, hist'.rewrite = None PROVE CleanupOver'
  <2>1. tip' \in Blocks /\ hist'.done \cup hist'.undo \subseteq Chain(tip')
    BY <1>4 DEF ListedInvariant, OtherBranchListed, CleanupInvariant, IndexerInvariant, UpdateLocals
  <2>2. Chain(tip') = Anc[tip']
    BY <2>1, TreeAssumption DEF Chain
  <2> QED
    BY <1>4, <2>1, <2>2 DEF CleanupOver
<1>5. ASSUME BeginUpdate PROVE CleanupOver'
  <2>1. /\ hist' = hist
        /\ \/ pc' \in {"mark", "stale", "rewrite"}
           \/ pc' = "plan" /\ hist.rewrite = None
    BY ZenonT(60), <1>5 DEF BeginUpdate, store
  <2> QED
    BY <1>1, <1>4, <2>1
<1>6. ASSUME FinishRewrite PROVE CleanupOver'
  <2>1. pc' = "plan" /\ hist' = [Rewritten(hist, Cardinality(Blocks)) EXCEPT !.rewrite = None]
    BY <1>6 DEF FinishRewrite, WriteHistory
  <2>2. PICK gs \in HistoryDB : gs = Rewritten(hist, Cardinality(Blocks))
    BY ListedTypes, RewrittenType
  <2>3. hist'.rewrite = None
    BY <2>1, <2>2 DEF HistoryDB
  <2> QED
    BY <1>4, <2>1, <2>3
<1>7. ASSUME MarkReorg \/ PopHeaders \/ SaveAncestor \/ MarkStale \/ UndoByScan \/ UndoDone PROVE CleanupOver'
  BY <1>1, <1>7 DEF MarkReorg, PopHeaders, SaveAncestor, MarkStale, UndoByScan, UndoDone
<1>8. ASSUME (\E bs \in UndoBatches : UndoBatch(bs)) \/ \E b \in Blocks : RewriteBatch(Height(b)) PROVE CleanupOver'
  BY <1>1, <1>8 DEF UndoBatch, RewriteBatch
<1>9. ASSUME Cleanup PROVE CleanupOver'
  BY <1>6, <1>7, <1>8, <1>9 DEF Cleanup
<1>10. ASSUME IndexBatch PROVE CleanupOver'
  <2>1. PICK bs : hist' = PutIndex(hist, bs)
    BY <1>10 DEF IndexBatch, WriteHistory
  <2>2. hist \in HistoryDB /\ pc = "index" /\ pc' = "fetch"
    BY <1>10, ListedTypes DEF IndexBatch
  <2>3. hist'.rewrite = hist.rewrite
    BY <2>1, <2>2 DEF PutIndex, PutSingleValued, HistoryDB
  <2>4. hist.rewrite = None
    BY <2>2 DEF CleanupOver, ImportRuns
  <2> QED
    BY <1>4, <2>2, <2>3, <2>4
<1>11. ASSUME PlanFetch \/ FetchDone \/ FetchFails \/ \E bs \in FetchBatches : AddBatch(bs) PROVE CleanupOver'
  BY <1>3, <1>11 DEF PlanFetch, FetchDone, FetchFails, AddBatch, store
<1>12. ASSUME RememberUncommitted \/ FlushTxstore \/ FlushHistory \/ Commit PROVE CleanupOver'
  BY <1>3, <1>12 DEF RememberUncommitted, FlushTxstore, FlushHistory, Commit, store
<1>13. ASSUME Restart PROVE CleanupOver'
  BY <1>1, <1>13 DEF Restart
<1>14. ASSUME Fetch \/ Publish PROVE CleanupOver'
  BY <1>10, <1>11, <1>12, <1>13, <1>14 DEF Fetch, Publish, IndexPanics, CommitNothing
<1>15. ASSUME CleanupFails PROVE CleanupOver'
  <2>1. pc \in {"mark", "stale", "undo", "rewrite"} /\ failedAt' = tip /\ pc' = "idle"
    BY <1>15 DEF CleanupFails
  <2>2. tip \in Blocks /\ None \notin Blocks
    BY <2>1, TreeAssumption DEF ListedInvariant, CleanupInvariant, IndexerInvariant, UpdateLocals
  <2> QED
    BY <1>1, <2>1, <2>2
<1>16. ASSUME DaemonReorg \/ BackgroundFlush \/ UNCHANGED vars PROVE CleanupOver'
  BY <1>2, <1>16 DEF DaemonReorg, BackgroundFlush, vars, store
<1>17. ASSUME Environment PROVE CleanupOver'
  BY <1>8, <1>11, <1>13, <1>15, <1>16, <1>17 DEF Environment, Crash
<1> QED
  BY <1>5, <1>9, <1>14, <1>16, <1>17 DEF Next, Update, Poll

\* The shared rows are protected, and a cleanup that is over leaves one branch and no R,
\* in every state and on every database that an older version may have left.
THEOREM CleanupEnds == Spec => [](ProtectedInvariant /\ CleanupOver)
<1> USE ZenonT(60)
<1>1. Init => ProtectedInvariant /\ CleanupOver
  BY InitProtected DEF Init, CleanupOver, ImportRuns
<1>2. ProtectedInvariant /\ CleanupOver /\ [Next]_vars => (ProtectedInvariant /\ CleanupOver)'
  <2> SUFFICES ASSUME ProtectedInvariant, CleanupOver, [Next]_vars PROVE ProtectedInvariant' /\ CleanupOver'
    BY SMT
  <2>1. ProtectedInvariant'
    BY NextProtected
  <2>2. ListedInvariant /\ ListedInvariant'
    BY <2>1 DEF ProtectedInvariant
  <2> QED
    BY <2>1, <2>2, StepOver
<1> QED
  BY <1>1, <1>2, PTL DEF Spec

\* The rows of the indexed blocks are complete, and all values are of indexed blocks, when
\* no transaction confirms at the same height of two branches.
THEOREM SettledHolds ==
    ASSUME HeightsApart
    PROVE  Spec => []SettledInvariant
<1> USE ZenonT(60)
<1> DEFINE AllWhole == Whole(hist) /\ Whole(histD)
<1>1. Init => AllWhole
  BY InitWhole DEF Init
<1>2. ProtectedInvariant /\ AllWhole /\ [Next]_vars => AllWhole'
  <2> SUFFICES ASSUME ProtectedInvariant, AllWhole, [Next]_vars PROVE AllWhole'
    BY ZenonT(60)
  <2>1. ListedInvariant
    BY DEF ProtectedInvariant
  <2>2. HistoryStep
    BY <2>1, StepHistory
  <2>3. Whole(hist') /\ Whole(histD')
    BY <2>1, <2>2, HistoryWhole
  <2> QED
    BY <2>3 DEF Whole, ValuesIndexed, RowsComplete
<1>3. ProtectedInvariant /\ CleanupOver /\ AllWhole => SettledInvariant
  BY DEF SettledInvariant, Whole
<1> HIDE DEF AllWhole
<1> QED
  BY <1>1, <1>2, <1>3, CleanupEnds, PTL DEF Spec

\* With one branch indexed and no R, the rows are those of the branch.
LEMMA SettledIsOneBranch ==
    ASSUME NEW hs \in HistoryDB, ValuesProtected(hs), ValuesIndexed(hs), RowsComplete(hs),
           hs.rewrite = None, NEW b \in Blocks, hs.done \cup hs.undo \subseteq Anc[b]
    PROVE  OneBranchIndexed(hs)
<1> USE ZenonT(60)
<1>1. PICK as \in SUBSET Anc[b] : as = hs.done
  OBVIOUS
<1>2. as \in SUBSET Blocks
  BY TreeAssumption
<1>3. \A x \in as, y \in as : ~OffBranch(x, y)
  BY TwoOfChain DEF OffBranch
<1>4. \A x \in as : SingleValuesOf(hs, x)
  BY <1>1, <1>3 DEF ValuesProtected
<1>5. PICK conf \in [Txs -> Nat \cup {None}] : conf = hs.conf
  BY DEF HistoryDB
<1>6. PICK edge \in [Txs -> (Txs \X Nat) \cup {None}] : edge = hs.edge
  BY DEF HistoryDB
<1>7. \A x \in as : \A t \in TxsOf[x] : conf[t] = Height(x)
  BY <1>4, <1>5 DEF SingleValuesOf
<1>8. \A t \in Txs : conf[t] # None => \E x \in as : t \in TxsOf[x]
  BY <1>1, <1>5 DEF ValuesIndexed
<1>9. conf = ConfOf(as)
  BY <1>7, <1>8, BranchConf
<1>10. \A x \in as : \A t \in TxsOf[x] : \A o \in Spends[t] : edge[o] = <<t, Height(x)>>
  <2>1. ASSUME NEW x \in as PROVE \A t \in TxsOf[x] : \A o \in Spends[t] : hs.edge[o] = <<t, Height(x)>>
    BY <1>2, <1>4, RightValues
  <2> QED
    BY <1>6, <2>1
<1>11. \A o \in Txs : edge[o] # None => o \in InputsOf(as)
  <2>1. ASSUME NEW o \in Txs, hs.edge[o] # None PROVE \E x \in as : \E t \in TxsOf[x] : o \in Spends[t]
    BY <1>1, <2>1 DEF ValuesIndexed
  <2>2. ASSUME NEW o, \E x \in as : \E t \in TxsOf[x] : o \in Spends[t] PROVE o \in InputsOf(as)
    BY <2>2 DEF InputsOf, OutputsOf
  <2> QED
    BY <1>6, <2>1, <2>2
<1>12. edge = EdgeOf(as)
  BY <1>2, <1>10, <1>11, BranchEdge
<1> QED
  BY <1>1, <1>5, <1>6, <1>9, <1>12 DEF OneBranchIndexed, RowsComplete

\* An update that returns without a failing cleanup leaves an exact index: always when the
\* database has no blocks that an older version left behind, and otherwise when no
\* transaction confirms at the same height of two branches.
THEOREM SettledExact ==
    ASSUME LegacyStale = {} \/ HeightsApart
    PROVE  Spec => []SettledIndexExact
<1> USE ZenonT(60)
<1>1. CASE LegacyStale = {}
  <2>1. CleanupOver /\ PublishedIndexExact => SettledIndexExact
    BY DEF CleanupOver, PublishedIndexExact, SettledIndexExact
  <2>2. Spec => []PublishedIndexExact
    BY <1>1, PublishedExact
  <2> QED
    BY <2>1, <2>2, CleanupEnds, PTL
<1>2. CASE HeightsApart
  <2>1. SettledInvariant => SettledIndexExact
    <3> SUFFICES ASSUME SettledInvariant, pc = "idle", failedAt = None
                 PROVE  Visible(hist, headTip) = Published!ChainAnswers(headTip) /\ hist.rewrite = None
      BY DEF SettledIndexExact
    <3>1. /\ ListedInvariant /\ ValuesProtected(hist) /\ ValuesIndexed(hist) /\ RowsComplete(hist)
      BY DEF SettledInvariant, ProtectedInvariant
    <3>2. hist \in HistoryDB /\ IndexerInvariant /\ CleanupInvariant
      BY <3>1, ListedTypes
    <3>3. PICK b \in Blocks : hist.rewrite = None /\ hist.done \cup hist.undo \subseteq Anc[b]
      BY DEF SettledInvariant, CleanupOver
    <3>4. OneBranchIndexed(hist)
      BY <3>1, <3>2, <3>3, SettledIsOneBranch
    <3>5. headTip \in Blocks \cup {None} /\ Chain(headTip) \subseteq hist.done
      BY <3>2, PublishedDone DEF IndexerInvariant, TypeOK
    <3>6. hist.rows \subseteq RowsOf(hist.done \cup hist.undo)
      BY <3>2, MarkedRows
    <3>7. Visible(hist, headTip) = Published!ChainAnswers(headTip)
      BY <3>4, <3>5, <3>6, VisibleExact
    <3> QED
      BY <3>3, <3>7
  <2>2. Spec => []SettledInvariant
    BY <1>2, SettledHolds
  <2> QED
    BY <2>1, <2>2, PTL
<1> QED
  BY ZenonT(60), <1>1, <1>2

----------------------------------------------------------------------------
(* The refinement of PublishedIndex *)

\* How the published chain moves: commit_completed_headers adds headers on top,
\* pop_reorged_headers takes them from the top, and a restart can only undo a pop
\* whose ancestor was not saved yet.
LEMMA TipMoves ==
    ASSUME CleanupInvariant, [Next]_vars
    PROVE  \/ headTip' = headTip
           \/ headTip' \in Blocks /\ Chain(headTip) \subseteq Anc[headTip']
           \/ headTip' \in Chain(headTip)
<1> USE ZenonT(60)
<1> DEFINE Moves == \/ headTip' = headTip
                    \/ headTip' \in Blocks /\ Chain(headTip) \subseteq Anc[headTip']
                    \/ headTip' \in Chain(headTip)
<1>0. IndexerInvariant /\ IndexerInvariant'
  BY NextInvariant DEF CleanupInvariant
<1> USE <1>0
<1>1. ASSUME PopHeaders PROVE Moves
  <2>1. pc = "pop" /\ headTip' = fork
    BY <1>1 DEF PopHeaders, PoppedTip
  <2>2. fork \in Blocks /\ Anc[fork] = Chain(tip) \cap Chain(headTip)
    BY <2>1 DEF IndexerInvariant, UpdateLocals
  <2>3. fork \in Anc[fork]
    BY <2>2, TreeAssumption
  <2> QED
    BY <2>1, <2>2, <2>3
<1>2. ASSUME Commit PROVE Moves
  <2>1. headTip' = SyncedTip
    BY <1>2 DEF Commit
  <2>2. SyncedTip \in Blocks /\ Anc[SyncedTip] = Chain(headTip) \cup CompletedPrefix
    BY <1>2, SyncedChain
  <2> QED
    BY <2>1, <2>2
<1>3. ASSUME Restart PROVE Moves
  <2>1. txst' = txstD /\ pc' = "start"
    BY <1>3 DEF Restart
  <2>2. headTip' = txst'.tip
    BY <2>1 DEF IndexerInvariant, TipSaved
  <2>3. txstD.tip = txst.tip
    BY DEF IndexerInvariant, DiskBehindMemory
  <2>4. headTip' = txst.tip
    BY <2>1, <2>2, <2>3
  <2>5. CASE pc # "save"
    BY <2>4, <2>5 DEF IndexerInvariant, TipSaved
  <2>6. CASE pc = "save"
    <3>1. headTip = fork /\ fork \in Chain(txst.tip) /\ txst.tip \in Blocks \cup {None}
      BY <2>6 DEF IndexerInvariant, TipSaved, TypeOK, TxStore
    <3>2. txst.tip \in Blocks /\ fork \in Anc[txst.tip]
      BY <3>1 DEF Chain
    <3>3. Anc[fork] \subseteq Anc[txst.tip] /\ fork \in Blocks
      BY ZenonT(60), <3>2, TreeAssumption
    <3>4. Chain(fork) = Anc[fork]
      BY <3>3, TreeAssumption DEF Chain
    <3> QED
      BY <2>4, <3>1, <3>2, <3>3, <3>4
  <2> QED
    BY <2>5, <2>6
<1> HIDE DEF Moves
<1>4. ASSUME headTip' = headTip PROVE Moves
  BY <1>4 DEF Moves
<1>5. ASSUME BeginUpdate PROVE Moves
  BY <1>4, <1>5 DEF BeginUpdate
<1>6. ASSUME Cleanup PROVE Moves
  BY <1>1, <1>4, <1>6 DEF Cleanup, MarkReorg, SaveAncestor, MarkStale, UndoBatch, UndoByScan, UndoDone,
     FinishRewrite
<1>7. ASSUME Fetch PROVE Moves
  BY <1>3, <1>4, <1>7 DEF Fetch, PlanFetch, AddBatch, IndexBatch, IndexPanics, FetchDone
<1>8. ASSUME Publish PROVE Moves
  BY <1>2, <1>3, <1>4, <1>8 DEF Publish, RememberUncommitted, FlushTxstore, FlushHistory, CommitNothing
<1>9. ASSUME Environment PROVE Moves
  BY <1>3, <1>4, <1>9 DEF Environment, DaemonReorg, BackgroundFlush, Crash, CleanupFails, FetchFails,
     RewriteBatch
<1>10. ASSUME UNCHANGED vars PROVE Moves
  BY <1>4, <1>10 DEF vars
<1>11. Moves
  BY <1>5, <1>6, <1>7, <1>8, <1>9, <1>10 DEF Next, Update, Poll
<1> QED
  BY <1>11 DEF Moves

\* The chains of the published index are the chains of the indexer.
LEMMA SameChain ==
    ASSUME NEW b
    PROVE  Published!Chain(b) = Chain(b)
  BY DEF Published!Chain, Chain

\* A step of the indexer is a step of the published index, or changes neither the
\* published tip nor an answer.
LEMMA StepPublishes ==
    ASSUME ExactInvariant, [Next]_vars
    PROVE  [Published!Extend \/ Published!Truncate]_<<headTip, Visible(hist, headTip)>>
<1>1. ExactInvariant'
  BY ZenonT(60), NextExact
<1>2. Visible(hist, headTip) = Published!ChainAnswers(headTip)
  BY ZenonT(60), ExactAnswers DEF PublishedIndexExact
<1>3. PublishedIndexExact'
  BY <1>1, ExactAnswers, PTL
<1>4. Visible(hist, headTip)' = Published!ChainAnswers(headTip')
  BY ZenonT(60), <1>3 DEF PublishedIndexExact
<1>5. CASE headTip' = headTip
  <2>1. Visible(hist, headTip)' = Visible(hist, headTip)
    BY ZenonT(60), <1>2, <1>4, <1>5
  <2> QED
    BY ZenonT(60), <1>5, <2>1
<1>6. CASE headTip' \in Blocks /\ Chain(headTip) \subseteq Anc[headTip']
  <2>1. Published!Publish(headTip')
    BY <1>4 DEF Published!Publish
  <2>2. Published!Extend
    BY ZenonT(60), <1>6, <2>1, SameChain DEF Published!Extend
  <2> QED
    BY <2>2
<1>7. CASE headTip' \in Chain(headTip)
  <2>1. Published!Publish(headTip')
    BY ZenonT(60), <1>4 DEF Published!Publish
  <2>2. Published!Truncate
    BY ZenonT(60), <1>7, <2>1, SameChain DEF Published!Truncate
  <2> QED
    BY ZenonT(60), <2>2
<1> QED
  BY ZenonT(60), <1>5, <1>6, <1>7, TipMoves DEF ExactInvariant

\* Indexer implements PublishedIndex: whatever Indexer::update, its failures, crashes
\* and restarts do, queries see the exact answers for one chain, which from one step
\* to the next only grows or only loses blocks from its top.
THEOREM IndexerImplementsPublishedIndex ==
    ASSUME LegacyStale = {}
    PROVE  Spec => ImplementsPublishedIndex
<1>1. Init => Published!Init
  <2> SUFFICES ASSUME Init PROVE Published!Init
    OBVIOUS
  <2>1. ExactInvariant
    BY InitExact
  <2>2. Visible(hist, headTip) = Published!ChainAnswers(headTip)
    BY ZenonT(60), <2>1, ExactAnswers DEF PublishedIndexExact
  <2>3. headTip \in Blocks \cup {None}
    BY ZenonT(60), <2>1 DEF ExactInvariant, CleanupInvariant, IndexerInvariant, TypeOK
  <2> QED
    BY ZenonT(60), <2>2, <2>3 DEF Published!Init
<1>2. ExactInvariant /\ [Next]_vars
        => [Published!Extend \/ Published!Truncate]_<<headTip, Visible(hist, headTip)>>
  BY StepPublishes
<1>3. Spec => []ExactInvariant
  BY ExactHolds
<1> QED
  BY <1>1, <1>2, <1>3, PTL DEF Spec, ImplementsPublishedIndex, Published!Spec
==============================================================================

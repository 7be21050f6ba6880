------------------------------- MODULE Indexer -------------------------------
(***************************************************************************)
(* The indexer of electrs: Store, Indexer::update and the cleanup of stale *)
(* blocks (new_index/schema.rs, new_index/schema/reorg.rs), against a      *)
(* bitcoind whose best chain moves at any time, with a crash possible      *)
(* between any two writes.                                                 *)
(*                                                                         *)
(* txst and hist are the contents of txstore_db and history_db as a read   *)
(* sees them; txstD and histD are what a crash at this moment would leave. *)
(* They differ only while writes bypass the WAL (DBFlush::Disable).  The   *)
(* in-memory sets added_blockhashes and indexed_blockhashes are txst.added *)
(* and hist.done: the only thread that writes done-markers updates them    *)
(* with the same write, and Store::open reloads them from the markers.     *)
(***************************************************************************)
EXTENDS BlockTree

CONSTANTS
    BatchSize,      \* iconfig.block_batch_size
    LightMode,      \* iconfig.light_mode: no transactions in txstore
    JsonrpcImport,  \* config.jsonrpc_import
    LegacyTip,      \* saved tip of a database left by an older version, or None
    LegacyStale,    \* blocks that older version left indexed and never undid
    MaxReorgs, MaxCrashes, MaxFailures  \* bounds on the environment

ASSUME IndexerAssumption ==
    /\ BatchSize \in Nat \ {0}
    /\ LightMode \in BOOLEAN /\ JsonrpcImport \in BOOLEAN
    /\ LegacyTip \in Blocks \cup {None}
    /\ LegacyStale \subseteq Blocks /\ LegacyStale \cap Chain(LegacyTip) = {}
    /\ MaxReorgs \in Nat /\ MaxCrashes \in Nat /\ MaxFailures \in Nat

VARIABLES
    best,         \* bitcoind's best block
    txst, txstD,  \* txstore_db: done-markers `added`, saved tip `tip` (key t)
    hist, histD,  \* history_db, see HistoryDB
    headTip,      \* tip of Store.indexed_headers, the chain queries see
    uncommitted,  \* Indexer.uncommitted_blocks
    flush, from,  \* Indexer.flush, Indexer.from
    failedAt,     \* CleanupRetry.failed_at_tip, None when cleanup is not failing
    pc,           \* the step of Indexer::update that comes next
    tip, newHdrs, fork, stale,   \* locals of update and clean_up_stale_blocks
    queue, pend,  \* undo_blocks: blocks left to undo, DeferredUndo.pending
    todo, batch,  \* fetch_index_batches: blocks left to fetch, the current batch
    budget        \* what the environment may still do

store == <<txst, txstD, hist, histD>>
locals == <<tip, newHdrs, fork, stale, queue, pend, todo, batch>>
vars == <<best, store, headTip, uncommitted, flush, from, failedAt, pc, locals, budget>>

----------------------------------------------------------------------------
(* The databases *)

HistoryRow == Nat \X Txs \X (Txs \cup {None})

HistoryDB == [done : SUBSET Blocks,             \* D markers
              undo : SUBSET Blocks,             \* u markers
              rows : SUBSET HistoryRow,         \* H
              conf : [Txs -> Nat \cup {None}],            \* C, None: no row
              edge : [Txs -> (Txs \X Nat) \cup {None}],    \* S, None: no row
              rewrite : Nat \cup {None}]        \* R

TxStore == [added : SUBSET Blocks, tip : Blocks \cup {None}]

EmptyHistory == [done |-> {}, undo |-> {}, rows |-> {}, conf |-> [t \in Txs |-> None],
                 edge |-> [o \in Txs |-> None], rewrite |-> None]

\* The C and S rows of blocks bs put over those of hs.
PutSingleValued(hs, bs) ==
    [hs EXCEPT !.conf = Put(@, ConfOf(bs)), !.edge = Put(@, EdgeOf(bs))]

\* Indexer::index: all rows of the blocks, their done-markers, no undo marker.
PutIndex(hs, bs) ==
    [PutSingleValued(hs, bs) EXCEPT !.rows = @ \cup RowsOf(bs),
                                    !.done = @ \cup bs, !.undo = @ \ bs]

\* One history batch that deletes rows, the C and S rows and done-markers of
\* blocks bs and the undo markers del, and puts the undo markers put.
DeleteIndex(hs, rows, bs, del, put) ==
    [hs EXCEPT !.rows = @ \ rows,
               !.conf = Delete(@, OutputsOf(bs)), !.edge = Delete(@, InputsOf(bs)),
               !.done = @ \ bs, !.undo = (@ \ del) \cup put]

\* A write that reaches the disk only with the next memtable flush when mode
\* is Disable (DB::write_batch); put_sync and Enable writes are durable at once.
WriteTxstore(Op(_), mode) ==
    /\ txst' = Op(txst)
    /\ txstD' = IF mode = "Enable" THEN Op(txstD) ELSE txstD

WriteHistory(Op(_), mode) ==
    /\ hist' = Op(hist)
    /\ histD' = IF mode = "Enable" THEN Op(histD) ELSE histD

----------------------------------------------------------------------------
(* Store::open, load_headers, Indexer::open, fetch_from *)

\* load_headers: walk back from the saved tip to the first indexed block.
LoadedTip(ts, hs) ==
    IF ts.tip = None THEN None ELSE Top(Anc[ts.tip] \cap hs.done)

\* Store::uncommitted_blocks
UncommittedBlocks(hs, ht) == (hs.done \ Chain(ht)) \cup hs.undo

FetchFrom(ts) == IF JsonrpcImport \/ ts.tip # None THEN "Bitcoind" ELSE "BlkFiles"

LocalsReset ==
    /\ tip' = None /\ newHdrs' = {} /\ fork' = None /\ stale' = {}
    /\ queue' = {} /\ pend' = {} /\ todo' = {} /\ batch' = {}

\* The process ends at any point and is started again on what is on disk.
Restart ==
    /\ txst' = txstD /\ hist' = histD /\ UNCHANGED <<txstD, histD>>
    /\ headTip' = LoadedTip(txstD, histD)
    /\ uncommitted' = UncommittedBlocks(histD, LoadedTip(txstD, histD))
    /\ flush' = "Disable" /\ from' = FetchFrom(txstD)
    /\ failedAt' = None /\ pc' = "start" /\ LocalsReset

\* The database of an older version that indexed LegacyStale above a gap and
\* never undid it: the C and S rows have the value of whichever block wrote last.
LegacyHistory ==
    LET bs == Anc[LegacyTip] \cup LegacyStale
    IN  {[EmptyHistory EXCEPT !.done = bs, !.rows = RowsOf(bs), !.conf = w.conf, !.edge = w.edge] :
            w \in {PutSingleValued(PutSingleValued(EmptyHistory, LegacyStale), Anc[LegacyTip]),
                   PutSingleValued(PutSingleValued(EmptyHistory, Anc[LegacyTip]), LegacyStale)}}

Init ==
    /\ best \in Blocks
    /\ \/ /\ LegacyTip = None
          /\ txst = [added |-> {}, tip |-> None]
          /\ hist = EmptyHistory
       \/ /\ LegacyTip # None
          /\ txst = [added |-> Anc[LegacyTip] \cup LegacyStale, tip |-> LegacyTip]
          /\ hist \in LegacyHistory
    /\ txstD = txst /\ histD = hist
    /\ headTip = LoadedTip(txst, hist)
    /\ uncommitted = UncommittedBlocks(hist, headTip)
    /\ flush = "Disable" /\ from = FetchFrom(txst)
    /\ failedAt = None /\ pc = "start"
    /\ tip = None /\ newHdrs = {} /\ fork = None /\ stale = {}
    /\ queue = {} /\ pend = {} /\ todo = {} /\ batch = {}
    /\ budget = [reorg |-> MaxReorgs, crash |-> MaxCrashes, fail |-> MaxFailures]

----------------------------------------------------------------------------
(* Indexer::update up to the cleanup *)

UpdateDueOnNewTip == pc = "start" \/ (pc = "idle" /\ best # headTip)

\* run_server calls update once at startup and then whenever bitcoind's tip is
\* not the indexed one or a cleanup is failing; a failing cleanup whose retry is
\* not due yet returns at once, which changes nothing.
UpdateDue == pc = "start" \/ (pc = "idle" /\ (best # headTip \/ failedAt # None))

NoneStale(new) == {}

\* stale_uncommitted: indexed blocks that the chain being indexed does not hold.
StaleUncommitted(new) == uncommitted \ new

\* getbestblockhash, get_new_headers (HeaderList::preprocess) and the tests of
\* clean_up_stale_blocks.
BeginUpdate ==
    LET new == Chain(best) \ Chain(headTip)
        ancestor == Fork(best, headTip)
    IN  /\ UpdateDue
        /\ tip' = best /\ newHdrs' = new /\ fork' = ancestor
        /\ stale' = StaleUncommitted(new)
        /\ pc' = IF ancestor # headTip THEN "mark"
                 ELSE IF StaleUncommitted(new) # {} THEN "stale"
                 ELSE IF hist.rewrite # None THEN "rewrite" ELSE "plan"
        /\ failedAt' = IF pc' = "plan" THEN None ELSE failedAt
        /\ UNCHANGED <<best, store, headTip, uncommitted, flush, from, queue, pend, todo, batch, budget>>

----------------------------------------------------------------------------
(* clean_up_stale_blocks *)

BeginRewriteAbove(hs, height) ==
    [hs EXCEPT !.rewrite = IF @ # None /\ @ < height + 1 THEN @ ELSE height + 1]

\* begin_rewrite: the lowest height wins when a rewrite is already pending.
BeginRewrite(hs, height) ==
    [hs EXCEPT !.rewrite = IF @ # None /\ @ < height THEN @ ELSE height]

\* undo_reorged_blocks, first write: R before anything else.
MarkReorg ==
    /\ pc = "mark"
    /\ WriteHistory(LAMBDA hs : BeginRewrite(hs, ChainLen(fork)), "Enable")
    /\ pc' = "pop"
    /\ UNCHANGED <<best, txst, txstD, headTip, uncommitted, flush, from, failedAt, locals, budget>>

TipKept == headTip

\* HeaderList::pop: the tip is the last header below the reorged ones.
PoppedTip == fork

\* pop_reorged_headers, in memory: queries stop seeing the reorged heights.
PopHeaders ==
    /\ pc = "pop"
    /\ queue' = Chain(headTip) \ Chain(fork)
    /\ headTip' = PoppedTip
    /\ pc' = "save"
    /\ UNCHANGED <<best, store, uncommitted, flush, from, failedAt,
                   tip, newHdrs, fork, stale, pend, todo, batch, budget>>

AncestorNotSaved(ts) == ts

\* The put_sync of key t.
AncestorSaved(ts) == [ts EXCEPT !.tip = fork]

\* pop_reorged_headers, on disk, after the headers lock is released; then the
\* popped blocks are remembered.
SaveAncestor ==
    /\ pc = "save"
    /\ WriteTxstore(AncestorSaved, "Enable")
    /\ uncommitted' = uncommitted \cup queue
    /\ pc' = "undo"
    /\ UNCHANGED <<best, hist, histD, headTip, flush, from, failedAt, locals, budget>>

\* fork_height: the height after the last header x shares with the active chain.
ForkHeight(x) == Cardinality(Anc[x] \cap (newHdrs \cup Chain(headTip)))

\* undo_uncommitted_blocks up to undo_blocks.
MarkStale ==
    /\ pc = "stale"
    /\ LET forks == {ForkHeight(x) : x \in stale}
           lowest == CHOOSE h \in forks : \A g \in forks : h <= g
       IN  WriteHistory(LAMBDA hs : BeginRewrite(hs, lowest), "Enable")
    /\ queue' = stale /\ stale' = {}
    /\ pc' = "undo"
    /\ UNCHANGED <<best, txst, txstD, headTip, uncommitted, flush, from, failedAt,
                   tip, newHdrs, fork, pend, todo, batch, budget>>

ActiveSaved == Chain(headTip)

\* ActiveChainView::active_block_at: the indexed blocks of the active chain.
Active == (newHdrs \cap hist.done) \cup Chain(headTip)

OwnedByNone(r) == FALSE

\* ActiveChainView::owns_history_row
Owned(r) == \E a \in Active : Height(a) = r[1] /\ r[2] \in TxsOf[a]

\* stored_block: blocks rebuilt from txstore; the others come from bitcoind.
Stored(b) == ~LightMode /\ b \in txst.added

\* The next blocks undo_blocks hands to undo_index_or_defer: highest first, the
\* stored ones before the fetched ones, block_batch_size at a time.
UndoBatches ==
    LET stored == {b \in queue : Stored(b)}
        source == IF stored # {} THEN stored ELSE queue
        size == IF Cardinality(source) < BatchSize THEN Cardinality(source) ELSE BatchSize
    IN  {bs \in SUBSET source :
            /\ bs # {} /\ Cardinality(bs) = size
            /\ \A b \in bs, c \in source \ bs : Height(b) >= Height(c)}

SpendRows(ps) == {<<Height(p[1]), p[2], p[3]>> : p \in ps}
HoldersForgotten(ps) == {}

\* The blocks that still have deferred inputs.
Holders(ps) == {p[1] : p \in ps}

\* undo_index_or_defer for the batch bs.  A spending row needs the script of the
\* output it spends; an input <<block, tx, output>> whose output is neither in
\* txstore nor in the batch is deferred, and its block keeps an undo marker
\* until a later batch holds the output.
UndoBatch(bs) ==
    LET resolved == {p \in pend : p[3] \in OutputsOf(bs)}
        missing == InputsOf(bs) \ (OutputsOf(txst.added) \cup OutputsOf(bs))
        deferred == {p \in bs \X Txs \X missing : p[2] \in TxsOf[p[1]] /\ p[3] \in Spends[p[2]]}
        left == (pend \ resolved) \cup deferred
        released == Holders(resolved) \ Holders(left)
        rows == (RowsOf(bs) \ SpendRows(deferred)) \cup SpendRows(resolved)
        finished == (bs \ Holders(deferred)) \cup released
        unowned == {r \in rows : ~Owned(r)}
    IN  /\ pc = "undo"
        /\ WriteHistory(LAMBDA hs : DeleteIndex(hs, unowned, bs, finished, Holders(deferred)), "Enable")
        /\ pend' = left
        /\ queue' = queue \ bs
        /\ uncommitted' = uncommitted \ finished
        /\ UNCHANGED <<best, txst, txstD, headTip, flush, from, failedAt, pc,
                       tip, newHdrs, fork, stale, todo, batch, budget>>

\* undo_by_history_scan: find the deferred spending rows by scanning them all.
UndoByScan ==
    LET rows == {r \in SpendRows(pend) : ~Owned(r)}
    IN  /\ pc = "undo" /\ queue = {} /\ pend # {}
        /\ WriteHistory(LAMBDA hs : DeleteIndex(hs, rows, {}, Holders(pend), {}), "Enable")
        /\ uncommitted' = uncommitted \ Holders(pend)
        /\ pend' = {}
        /\ UNCHANGED <<best, txst, txstD, headTip, flush, from, failedAt, pc,
                       tip, newHdrs, fork, stale, queue, todo, batch, budget>>

\* clean_up_stale_blocks goes on after undo_blocks.
UndoDone ==
    /\ pc = "undo" /\ queue = {} /\ pend = {}
    /\ pc' = IF stale # {} THEN "stale" ELSE "rewrite"
    /\ UNCHANGED <<best, store, headTip, uncommitted, flush, from, failedAt, locals, budget>>

\* finish_rewrite: the C and S rows of the active blocks from R on, up to a
\* height `upto` in one batch; the last batch also deletes R.
Rewritten(hs, upto) ==
    PutSingleValued(hs, {a \in Active : hist.rewrite <= Height(a) /\ Height(a) <= upto})

RewriteBatch(upto) ==
    /\ pc = "rewrite"
    /\ hist.rewrite # None
    /\ WriteHistory(LAMBDA hs : Rewritten(hs, upto), "Enable")
    /\ UNCHANGED <<best, txst, txstD, headTip, uncommitted, flush, from, failedAt, pc, locals, budget>>

FinishRewrite ==
    /\ pc = "rewrite"
    /\ hist.rewrite # None
    /\ WriteHistory(LAMBDA hs : [Rewritten(hs, Cardinality(Blocks)) EXCEPT !.rewrite = None], "Enable")
    /\ failedAt' = None
    /\ pc' = "plan"
    /\ UNCHANGED <<best, txst, txstD, headTip, uncommitted, flush, from, locals, budget>>

\* An error in the cleanup (bitcoind does not serve a block or header, a row
\* cannot be read): update gives up and keeps serving the current headers.
CleanupFails ==
    /\ pc \in {"mark", "stale", "undo", "rewrite"}
    /\ budget.fail > 0
    /\ budget' = [budget EXCEPT !.fail = @ - 1]
    /\ failedAt' = tip
    /\ pc' = "idle" /\ LocalsReset
    /\ UNCHANGED <<best, store, headTip, uncommitted, flush, from>>

----------------------------------------------------------------------------
(* fetch_and_index *)

\* Store::headers_to_process
HeadersToProcess == {b \in newHdrs : b \notin txst.added \/ b \notin hist.done}

PlanFetch ==
    /\ pc = "plan"
    /\ todo' = HeadersToProcess
    /\ pc' = "fetch"
    /\ UNCHANGED <<best, store, headTip, uncommitted, flush, from, failedAt,
                   tip, newHdrs, fork, stale, queue, pend, batch, budget>>

FetchBatchesAnyOrder == {bs \in SUBSET todo : bs # {}}

\* The batches a fetcher can deliver next: bitcoind is asked for the headers in
\* order, block_batch_size at a time; a blk file holds any of the blocks.
FetchBatches ==
    LET size == IF Cardinality(todo) < BatchSize THEN Cardinality(todo) ELSE BatchSize
    IN  {bs \in SUBSET todo :
            /\ bs # {}
            /\ from = "Bitcoind" =>
                  /\ Cardinality(bs) = size
                  /\ \A b \in bs, c \in todo \ bs : Height(b) <= Height(c)}

\* process_block_batch, Indexer::add
AddBatch(bs) ==
    /\ pc = "fetch"
    /\ WriteTxstore(LAMBDA ts : [ts EXCEPT !.added = @ \cup bs], flush)
    /\ todo' = todo \ bs /\ batch' = bs
    /\ pc' = "index"
    /\ UNCHANGED <<best, hist, histD, headTip, uncommitted, flush, from, failedAt,
                   tip, newHdrs, fork, stale, queue, pend, budget>>

\* process_block_batch, Indexer::index: lookup_txos finds every spent output.
PrevoutsFound == InputsOf(batch \ hist.done) \subseteq OutputsOf(txst.added)

IndexBatch ==
    /\ pc = "index" /\ PrevoutsFound
    /\ LET bs == batch \ hist.done
       IN  WriteHistory(LAMBDA hs : PutIndex(hs, bs), flush)
    /\ batch' = {} /\ pc' = "fetch"
    /\ UNCHANGED <<best, txst, txstD, headTip, uncommitted, flush, from, failedAt,
                   tip, newHdrs, fork, stale, queue, pend, todo, budget>>

\* Indexer::_index unwraps lookup_txos: the process aborts on a missing output.
IndexPanics ==
    /\ pc = "index" /\ ~PrevoutsFound
    /\ Restart /\ UNCHANGED <<best, budget>>

\* A fetcher ends early: what blk files did not deliver is asked of bitcoind,
\* and when bitcoind fails update goes on with the blocks it has.
FetchFails ==
    /\ pc = "fetch" /\ todo # {}
    /\ budget.fail > 0
    /\ budget' = [budget EXCEPT !.fail = @ - 1]
    /\ from' = "Bitcoind"
    /\ IF from = "BlkFiles" THEN todo' = HeadersToProcess /\ pc' = pc
                            ELSE todo' = {} /\ pc' = "complete"
    /\ UNCHANGED <<best, store, headTip, uncommitted, flush, failedAt,
                   tip, newHdrs, fork, stale, queue, pend, batch>>

FetchDone ==
    /\ pc = "fetch" /\ todo = {}
    /\ from' = "Bitcoind" /\ pc' = "complete"
    /\ UNCHANGED <<best, store, headTip, uncommitted, flush, failedAt, locals, budget>>

----------------------------------------------------------------------------
(* Indexer::update after the fetch *)

CompletedAnywhere == newHdrs \cap txst.added \cap hist.done

\* Store::completed_header_prefix
CompletedPrefix == {b \in newHdrs : Anc[b] \cap newHdrs \subseteq txst.added \cap hist.done}

ForgottenAbove == {}

\* Blocks indexed above the first gap.
RememberedAbove == (newHdrs \ CompletedPrefix) \cap hist.done

\* remember_uncommitted_headers
RememberUncommitted ==
    /\ pc = "complete"
    /\ uncommitted' = uncommitted \cup RememberedAbove
    /\ pc' = IF flush = "Disable" THEN "flushTxstore" ELSE "commit"
    /\ UNCHANGED <<best, store, headTip, flush, from, failedAt, locals, budget>>

\* finish_sync_writes: txstore_db is flushed before history_db.
FlushTxstore ==
    /\ pc = "flushTxstore"
    /\ txstD' = txst
    /\ pc' = "flushHistory"
    /\ UNCHANGED <<best, txst, hist, histD, headTip, uncommitted, flush, from, failedAt, locals, budget>>

FlushHistory ==
    /\ pc = "flushHistory"
    /\ histD' = hist
    /\ flush' = "Enable" /\ pc' = "commit"
    /\ UNCHANGED <<best, txst, txstD, hist, headTip, uncommitted, from, failedAt, locals, budget>>

\* commit_completed_headers: queries see the new headers when advance_synced_tip
\* releases the headers lock, after the tip is on disk.
SyncedTip == IF CompletedPrefix = {} THEN headTip ELSE Top(CompletedPrefix)

\* Published blocks stop being uncommitted.
StillUncommitted(ht) == uncommitted \ Anc[ht]

Commit ==
    /\ pc = "commit" /\ SyncedTip # None
    /\ headTip' = SyncedTip
    /\ WriteTxstore(LAMBDA ts : [ts EXCEPT !.tip = SyncedTip], "Enable")
    /\ uncommitted' = StillUncommitted(SyncedTip)
    /\ pc' = "idle" /\ LocalsReset
    /\ UNCHANGED <<best, hist, histD, flush, from, failedAt, budget>>

\* advance_synced_tip on an empty index is an error and ends run_server.
CommitNothing ==
    /\ pc = "commit" /\ SyncedTip = None
    /\ Restart /\ UNCHANGED <<best, budget>>

----------------------------------------------------------------------------
(* The environment *)

\* bitcoind's best chain moves, to a longer branch or back (invalidateblock).
DaemonReorg ==
    /\ budget.reorg > 0
    /\ budget' = [budget EXCEPT !.reorg = @ - 1]
    /\ best' \in Blocks \ {best}
    /\ UNCHANGED <<store, headTip, uncommitted, flush, from, failedAt, pc, locals>>

\* RocksDB flushes a full memtable of either database on its own.
BackgroundFlush ==
    /\ flush = "Disable"
    /\ \/ txstD' = txst /\ UNCHANGED histD
       \/ histD' = hist /\ UNCHANGED txstD
    /\ UNCHANGED <<best, txst, hist, headTip, uncommitted, flush, from, failedAt, pc, locals, budget>>

Crash ==
    /\ budget.crash > 0
    /\ budget' = [budget EXCEPT !.crash = @ - 1]
    /\ Restart /\ UNCHANGED best

Cleanup ==
    \/ MarkReorg \/ PopHeaders \/ SaveAncestor \/ MarkStale
    \/ \E bs \in UndoBatches : UndoBatch(bs)
    \/ UndoByScan \/ UndoDone \/ FinishRewrite

Fetch ==
    \/ PlanFetch \/ \E bs \in FetchBatches : AddBatch(bs)
    \/ IndexBatch \/ IndexPanics \/ FetchDone

Publish ==
    \/ RememberUncommitted \/ FlushTxstore \/ FlushHistory \/ Commit \/ CommitNothing

\* A cycle of the main loop that finds nothing to do.
Poll ==
    /\ pc = "idle" /\ ~UpdateDue
    /\ UNCHANGED vars

\* The steps of the indexer's own thread.
Update == BeginUpdate \/ Cleanup \/ Fetch \/ Publish

Environment ==
    \/ DaemonReorg \/ BackgroundFlush \/ Crash \/ CleanupFails \/ FetchFails
    \/ \E b \in Blocks : RewriteBatch(Height(b))

Next == Update \/ Poll \/ Environment

Spec == Init /\ [][Next]_vars

\* The main loop runs update as long as there is something to do, every step of
\* update returns, and bitcoind moves, fails and crashes finitely often.
FairSpec == Spec /\ WF_vars(Update)

----------------------------------------------------------------------------
(* Properties *)

Steps == {"start", "idle", "mark", "pop", "save", "stale", "undo", "rewrite", "plan",
          "fetch", "index", "complete", "flushTxstore", "flushHistory", "commit"}

\* Every variable holds a value of its type.
TypeOK ==
    /\ best \in Blocks
    /\ txst \in TxStore /\ txstD \in TxStore
    /\ hist \in HistoryDB /\ histD \in HistoryDB
    /\ headTip \in Blocks \cup {None} /\ uncommitted \subseteq Blocks
    /\ flush \in {"Enable", "Disable"} /\ from \in {"Bitcoind", "BlkFiles"}
    /\ failedAt \in Blocks \cup {None} /\ pc \in Steps
    /\ tip \in Blocks \cup {None} /\ newHdrs \subseteq Blocks
    /\ fork \in Blocks \cup {None} /\ stale \subseteq Blocks
    /\ queue \subseteq Blocks /\ pend \subseteq Blocks \X Txs \X Txs
    /\ todo \subseteq Blocks /\ batch \subseteq Blocks
    /\ budget \in [reorg : Nat, crash : Nat, fail : Nat]

\* Store::open can always be run: whenever the process dies, every block of the
\* saved chain has its header in txstore_db and its history in history_db, so
\* load_headers neither walks back nor panics ("Current versions move the saved
\* tip to the common ancestor before deleting anything", schema.rs:117).
SavedChainIndexed ==
    Chain(txstD.tip) \subseteq txstD.added \cap histD.done

\* Queries see complete blocks only: whatever fetch, flush or cleanup is under
\* way, every published block is in txstore_db and in history_db.
PublishedChainIndexed == Chain(headTip) \subseteq txst.added \cap hist.done

\* Queries never miss history: all script-history rows of every block that
\* the published headers hold are there, whatever cleanup is under way.
PublishedHistoryComplete ==
    /\ PublishedChainIndexed
    /\ RowsOf(Chain(headTip)) \subseteq hist.rows

\* What the lookups return: rows above the published tip are skipped (lookup_spend,
\* tx_confirming_block, the history scans).
Visible(hs, ht) ==
    LET seen(height) == height < ChainLen(ht)
    IN  [rows |-> {r \in hs.rows : seen(r[1])},
         conf |-> Delete(hs.conf, {t \in Txs : hs.conf[t] # None /\ ~seen(hs.conf[t])}),
         edge |-> Delete(hs.edge, {o \in Txs : hs.edge[o] # None /\ ~seen(hs.edge[o][2])})]

Published == INSTANCE PublishedIndex WITH tip <- headTip, answers <- Visible(hist, headTip)

\* The C row of every transaction and the S row of every output spent in block b.
SingleValuesOf(hs, b) ==
    /\ \A t \in TxsOf[b] : hs.conf[t] = Height(b)
    /\ \A o \in InputsOf({b}) : hs.edge[o] = EdgeOf({b})[o]

\* Blocks with history outside the chain of ht that cleanup will find again.
Tracked(hs, ht) == UncommittedBlocks(hs, ht)

\* Cleanup never loses track of a stale row: on disk and in memory, a
\* script-history row that no block of the chain owns belongs to a block whose
\* done-marker or undo marker is still there, so a later update (or restart)
\* removes it (undo_index_or_defer keeps the marker until the last row is gone).
StaleRowsTracked ==
    /\ hist.rows \subseteq RowsOf(Chain(headTip) \cup Tracked(hist, headTip))
    /\ histD.rows \subseteq RowsOf(Chain(txstD.tip) \cup Tracked(histD, txstD.tip))

\* "A crash between the two cannot lose a shared row once the stale block's
\* done-marker is gone" (reorg.rs:28): the C and S rows of a block of the chain
\* are right unless R, or a stale block that forks off below it, covers it.
SingleValuesProtected(hs, ht) ==
    \A b \in Chain(ht) :
        \/ SingleValuesOf(hs, b)
        \/ hs.rewrite # None /\ hs.rewrite <= Height(b)
        \/ \E x \in Tracked(hs, ht) : Cardinality(Anc[x] \cap Chain(ht)) <= Height(b)

SharedRowsProtected ==
    SingleValuesProtected(hist, headTip) /\ SingleValuesProtected(histD, txstD.tip)

\* "Hide old heights so queries cannot attach their history to replacement
\* blocks" (reorg.rs:297): at every moment, also in the middle of a reorg and of
\* an import, the visible index answers for the published chain and nothing else,
\* and so would the index found on disk after a crash.
PublishedIndexExact ==
    /\ Visible(hist, headTip) = Published!ChainAnswers(headTip)
    /\ Visible(histD, txstD.tip) = Published!ChainAnswers(txstD.tip)

\* An update that returns without a failing cleanup leaves an exact index, also
\* of a database an older version damaged.
SettledIndexExact ==
    pc = "idle" /\ failedAt = None =>
        Visible(hist, headTip) = Published!ChainAnswers(headTip) /\ hist.rewrite = None

\* The set the running indexer keeps agrees between updates with the one a
\* restart would compute, so a retry and a restart clean up the same blocks.
UncommittedAsAfterRestart ==
    pc = "idle" => uncommitted = UncommittedBlocks(hist, headTip)

\* The indexer implements the published index: at every step of an update, a
\* crash or a restart, queries see the answers of one chain, and from one step to
\* the next that chain only grows or only loses blocks from its top.
ImplementsPublishedIndex == Published!Spec

\* "blk-file import incomplete, fetching remaining ... blocks over RPC"
\* (schema.rs:613): an import can always be completed, because the outputs that a
\* batch spends are in txstore_db when process_block_batch indexes it, and the
\* unwrap of lookup_txos in Indexer::_index succeeds.
IndexFindsPrevouts == pc = "index" => PrevoutsFound

\* Once bitcoind stays put, the index catches up with it and no cleanup is left
\* pending: no failure, no rewrite marker, no deferred undo.
CatchesUp ==
    <>[](headTip = best /\ failedAt = None /\ hist.rewrite = None /\ hist.undo = {})

----------------------------------------------------------------------------
(* The inductive invariant behind SavedChainIndexed *)

\* The disk is behind memory by unflushed writes only, and by none of them once
\* finish_sync_writes has switched to DBFlush::Enable; the saved tip is never.
DiskBehindMemory ==
    /\ txstD.added \subseteq txst.added /\ txstD.tip = txst.tip
    /\ histD.done \subseteq hist.done
    /\ flush = "Enable" => txstD = txst /\ histD = hist
    /\ pc = "flushHistory" => txstD = txst
    /\ pc = "commit" => flush = "Enable"

\* A block has a done-marker or an undo marker, never both.
MarkersExclusive == hist.done \cap hist.undo = {} /\ histD.done \cap histD.undo = {}

\* The locals of update: the headers being indexed continue the published chain,
\* the reorg's common ancestor is on both chains, and no block that is about to be
\* undone is published.
UpdateLocals ==
    /\ pc \notin {"start", "idle"} => tip \in Blocks /\ newHdrs = Chain(tip) \ Chain(headTip)
    /\ pc \in {"mark", "pop"} => fork \in Blocks /\ Anc[fork] = Chain(tip) \cap Chain(headTip)
    /\ (uncommitted \cup stale) \cap Chain(headTip) = {}
    /\ pc \in {"save", "undo"} => queue \cap Chain(headTip) = {}
    /\ pc = "stale" => stale # {}

\* The published tip is the saved one, except between the pop of the headers and
\* the write of the ancestor.
TipSaved ==
    IF pc = "save" THEN headTip = fork /\ fork \in Chain(txst.tip) ELSE headTip = txst.tip

\* Store::open can be run at every moment, by induction: the saved chain is
\* indexed on disk because blocks are undone only above the saved tip, and the
\* tip is saved only when the blocks below it are flushed.
IndexerInvariant ==
    /\ TypeOK /\ DiskBehindMemory /\ MarkersExclusive /\ UpdateLocals /\ TipSaved
    /\ SavedChainIndexed

----------------------------------------------------------------------------
(* The inductive invariant behind StaleRowsTracked and UncommittedAsAfterRestart *)

\* Only an import leaves writes that are not on disk: the cleanup starts from what
\* a crash would leave, and writes it through.
CleanupOnDisk ==
    pc \in {"start", "idle", "mark", "pop", "save", "stale", "undo", "rewrite", "plan"} =>
        txstD = txst /\ histD = hist

\* Indexer.uncommitted_blocks against the markers: it lacks the popped headers
\* until they are remembered, and the blocks of the import under way.
UncommittedKnown ==
    UncommittedBlocks(hist, headTip) =
        uncommitted \cup CASE pc = "save" -> queue
                           [] pc \in {"fetch", "index", "complete"} -> newHdrs \cap hist.done
                           [] pc \in {"flushTxstore", "flushHistory", "commit"} -> CompletedPrefix
                           [] OTHER -> {}

\* The headers of update continue the published chain once the reorged ones are
\* popped, and only new headers are fetched.
HeadersContinue ==
    /\ pc \notin {"start", "idle", "mark", "pop"} => Chain(headTip) \subseteq Chain(tip)
    /\ todo \subseteq IF pc \in {"fetch", "index"} THEN newHdrs ELSE {}
    /\ batch \subseteq IF pc = "index" THEN newHdrs ELSE {}

\* What undo_blocks has left to do: its queue holds uncommitted blocks and none
\* that is being indexed, the blocks of deferred inputs have their undo marker, and
\* the stale blocks of undo_uncommitted_blocks are still to come.
UndoPending ==
    /\ pc # "undo" => pend = {}
    /\ pc \in {"save", "undo"} =>
          /\ queue \subseteq uncommitted \cup (IF pc = "save" THEN hist.done ELSE {})
          /\ queue \cap (newHdrs \cup stale) = {}
    /\ Holders(pend) \subseteq hist.undo \ (stale \cup queue)
    /\ \A p \in pend : p[2] \in TxsOf[p[1]] /\ p[3] \in Spends[p[2]]
    /\ pc \in {"mark", "pop", "save", "stale", "undo"} => stale \subseteq uncommitted \ newHdrs

\* Every history row is of a block with a marker; of a block with deferred inputs
\* only the rows of those inputs are left.
RowsMarked ==
    /\ hist.rows \subseteq RowsOf(hist.done \cup (hist.undo \ Holders(pend))) \cup SpendRows(pend)
    /\ histD.rows \subseteq RowsOf(histD.done \cup histD.undo)

\* No stale row is lost, by induction: markers and rows change in one batch, and
\* the memory of the indexer says which markers are left.
CleanupInvariant ==
    /\ IndexerInvariant /\ CleanupOnDisk /\ HeadersContinue
    /\ UncommittedKnown /\ UndoPending /\ RowsMarked

----------------------------------------------------------------------------
(* The inductive invariant behind IndexFindsPrevouts *)

\* Over RPC the headers are fetched in the order of their heights, and a header that
\* is not left to fetch has its block in txstore_db.
FetchInOrder ==
    /\ JsonrpcImport => from = "Bitcoind"
    /\ pc \in {"fetch", "index"} => newHdrs \ todo \subseteq txst.added
    /\ pc = "index" =>
          /\ batch \cap todo = {}
          /\ from = "Bitcoind" => \A b \in batch, c \in todo : Height(b) <= Height(c)

----------------------------------------------------------------------------
(* The inductive invariant behind SharedRowsProtected *)

\* The cleanup has every uncommitted block of another branch on one of its lists,
\* so that the import starts with blocks of its own branch only.
OtherBranchListed ==
    /\ pc \in {"mark", "pop", "save", "stale"} => uncommitted \subseteq newHdrs \cup stale
    /\ pc = "undo" => uncommitted \subseteq newHdrs \cup stale \cup queue \cup Holders(pend)
    /\ pc \notin {"start", "idle", "mark", "pop", "save", "stale", "undo"} =>
          hist.done \cup hist.undo \subseteq Chain(tip)

\* Nothing of another branch is indexed when the rewrite and the import run, by induction:
\* what the memory of the indexer lists is what the markers say is there.
ListedInvariant == CleanupInvariant /\ OtherBranchListed

\* A C or S row of an indexed block has another block's value, or is missing, only
\* while R covers the block or a block of another branch is indexed.
ValuesProtected(hs) ==
    \A b \in hs.done :
        \/ SingleValuesOf(hs, b)
        \/ hs.rewrite # None /\ hs.rewrite <= Height(b)
        \/ \E x \in hs.done : OffBranch(x, b)

\* R is on disk before a block is undone, and low enough for every indexed block
\* whose rows the undo may take, unless that block is off the published chain too.
UndoCovered ==
    /\ pc = "pop" => hist.rewrite # None /\ hist.rewrite <= ChainLen(fork)
    /\ pc \in {"save", "undo"} =>
          /\ hist.rewrite # None
          /\ \A x \in queue, b \in hist.done :
                OffBranch(x, b) => \/ hist.rewrite <= Height(b)
                                   \/ \E c \in Chain(headTip) : OffBranch(c, b)

\* No shared row is lost, by induction: R is written before the undo that may take the
\* row, and deleted with the batch that puts it back.
ProtectedInvariant ==
    ListedInvariant /\ ValuesProtected(hist) /\ ValuesProtected(histD) /\ UndoCovered

----------------------------------------------------------------------------
(* The inductive invariant behind SettledIndexExact *)

\* A C or S row has the value of an indexed block.
ValuesIndexed(hs) ==
    /\ \A t \in Txs : hs.conf[t] # None =>
          \E x \in hs.done : t \in TxsOf[x] /\ hs.conf[t] = Height(x)
    /\ \A o \in Txs : hs.edge[o] # None =>
          \E x \in hs.done : \E t \in TxsOf[x] : o \in Spends[t] /\ hs.edge[o] = <<t, Height(x)>>

\* No history row of an indexed block is missing.
RowsComplete(hs) == RowsOf(hs.done) \subseteq hs.rows

\* fetch_and_index, and what update does after it.
ImportRuns == pc \in {"plan", "fetch", "index", "complete", "flushTxstore", "flushHistory", "commit"}

\* When the cleanup is over, one branch is indexed and no rewrite is pending.
CleanupOver ==
    ImportRuns \/ (pc = "idle" /\ failedAt = None) =>
        hist.rewrite = None /\ \E b \in Blocks : hist.done \cup hist.undo \subseteq Anc[b]

\* The index is exact once a cleanup is over, by induction: no shared row is lost, no
\* value is of a block that is gone, and no undo deletes a row that another block has.
SettledInvariant ==
    /\ ProtectedInvariant /\ CleanupOver
    /\ ValuesIndexed(hist) /\ ValuesIndexed(histD)
    /\ RowsComplete(hist) /\ RowsComplete(histD)

----------------------------------------------------------------------------
(* The inductive invariant behind PublishedIndexExact, on a database without *)
(* blocks that an older version left behind                                  *)

\* The database holds the index of blocks of one branch, the C and S rows are of
\* the indexed blocks only, and no row of an indexed block is missing.
OneBranchIndexed(hs) ==
    /\ \E b \in Blocks : hs.done \cup hs.undo \subseteq Anc[b]
    /\ hs.conf = ConfOf(hs.done) /\ hs.edge = EdgeOf(hs.done)
    /\ RowsOf(hs.done) \subseteq hs.rows

\* The published index is exact, by induction: two branches are never indexed at
\* once, so no block's rows hide or replace those of another.
ExactInvariant ==
    CleanupInvariant /\ OneBranchIndexed(hist) /\ OneBranchIndexed(histD) /\ OtherBranchListed
====

----------------------------- MODULE ChainQuery -----------------------------
(***************************************************************************)
(* Script queries and their caches in cache_db (ChainQuery::utxo, stats,   *)
(* history_txids, lookup_spend in new_index/schema.rs), run by any number  *)
(* of client threads while the indexer extends, pops and cleans up the     *)
(* chain they read.                                                        *)
(*                                                                         *)
(* The indexer appears through the steps a query can observe: the pop and  *)
(* the append of headers, the deletion of a block's history under the      *)
(* write side of history_cache_lock, the rows of a new block.  Module      *)
(* Indexer has them in full.  indexed is the set of blocks with rows in    *)
(* history_db; a query's hold on history_cache_lock is its step.           *)
(***************************************************************************)
EXTENDS BlockTree, FiniteSetsExt

CONSTANTS
    Scripts, ScriptOf,   \* the script of every output
    Queries,             \* client threads
    Asked,               \* the queries they make: <<operation, script or output>>
    LegacyBlocks,        \* stale blocks an older version left indexed
    HistoryScanLimit,    \* --history-scan-limit
    CheckpointLimit,     \* utxos_checkpoint_limit
    MinItemsToCache,     \* MIN_HISTORY_ITEMS_TO_CACHE
    MaxUpdates, MaxCrashes, MaxQueries   \* bounds

ASSUME QueryAssumption ==
    /\ ScriptOf \in [Txs -> Scripts] /\ LegacyBlocks \subseteq Blocks
    /\ Asked \subseteq ({"utxo", "stats", "history"} \X Scripts) \cup ({"spend"} \X Txs)
    /\ HistoryScanLimit \in Nat \ {0}
    /\ {CheckpointLimit, MinItemsToCache} \subseteq Nat
    /\ {MaxUpdates, MaxCrashes, MaxQueries} \subseteq Nat

VARIABLES
    head,           \* tip of Store.indexed_headers
    indexed,        \* blocks with rows in history_db
    utxoCache, statsCache,  \* cache_db: per script None or [at, value]
    step, target,   \* the indexer: its step and the tip it indexes
    stale, undoing, \* blocks left to undo, and the one being undone
    query,          \* the client threads
    budget

vars == <<head, indexed, utxoCache, statsCache, step, target, stale, undoing, query, budget>>

----------------------------------------------------------------------------
(* History rows and what a chain makes of them *)

\* The script a row is filed under: that of the output funded or spent.
ScriptOfRow(r) == IF r[3] = None THEN ScriptOf[r[2]] ELSE ScriptOf[r[3]]

ScriptRows(bs, s) == {r \in RowsOf(bs) : ScriptOfRow(r) = s}

BlockAt(height, tip) == CHOOSE b \in Chain(tip) : Height(b) = height

\* history_iter_scan from a height, without the rows of heights that have no
\* published header.
VisibleRows(s, from) ==
    {r \in ScriptRows(indexed, s) : from <= r[1] /\ r[1] < ChainLen(head)}

\* The last height a scan processes: it stops at the first row of a block once
\* history_scan_limit rows are behind it.
HeightsOf(rows) == {r[1] : r \in rows}

StopHeights(rows) ==
    {h \in HeightsOf(rows) :
        /\ h # Min(HeightsOf(rows))
        /\ Cardinality({r \in rows : r[1] < h}) >= HistoryScanLimit}

HitsScanLimit(rows) == StopHeights(rows) # {}

Scanned(rows) ==
    IF HitsScanLimit(rows) THEN {r \in rows : r[1] < Min(StopHeights(rows))} ELSE rows

\* The block a scan of rows is complete for, None if there was no row.
LastBlock(rows, tip) == IF rows = {} THEN None ELSE BlockAt(Max(HeightsOf(rows)), tip)

\* utxo_delta: unspent outputs <<output, block>> after rows, from init_utxos.
\* Rows come in the order of height, and fundings before spendings in a block.
UtxoDelta(init, rows, tip) ==
    LET funded(o) == {r[1] : r \in {x \in rows : x[2] = o /\ x[3] = None}}
        spent(o) == {r[1] : r \in {x \in rows : x[3] = o}}
        kept == {u \in init : spent(u[1]) = {} /\ funded(u[1]) = {}}
        fresh == {o \in Txs : funded(o) # {} /\ \A h \in spent(o) : h < Max(funded(o))}
    IN  kept \cup {<<o, BlockAt(Max(funded(o)), tip)>> : o \in fresh}

\* More unspent outputs at once than utxos_checkpoint_limit, after the fundings
\* of some block of the scan.
HitsCheckpointLimit(init, rows, tip) ==
    \E h \in HeightsOf(rows) :
        Cardinality(UtxoDelta(init, {r \in rows : r[1] < h \/ (r[1] = h /\ r[3] = None)}, tip))
            > CheckpointLimit

\* stats_delta: the totals [txs, funded, spent] after rows.
StatsDelta(init, rows) ==
    [txs    |-> init.txs + Cardinality({<<r[1], r[2]>> : r \in rows}),
     funded |-> init.funded + Cardinality({r \in rows : r[3] = None}),
     spent  |-> init.spent + Cardinality({r \in rows : r[3] # None})]

NoStats == [txs |-> 0, funded |-> 0, spent |-> 0]

\* What the chain that ends at b says of script s.
UtxosOf(b, s) == UtxoDelta({}, ScriptRows(Chain(b), s), b)
StatsOf(b, s) == StatsDelta(NoStats, ScriptRows(Chain(b), s))
HistoryOf(b, s) == {<<r[2], BlockAt(r[1], b)>> : r \in ScriptRows(Chain(b), s)}
SpendsOf(b) ==
    UNION {{<<o, t, c>> : o \in Spends[t]} : <<t, c>> \in {p \in Txs \X Chain(b) : p[1] \in TxsOf[p[2]]}}

----------------------------------------------------------------------------
(* Queries *)

Idle == [step |-> "idle", op |-> None, arg |-> None, got |-> None, seen |-> {}]

Init ==
    /\ head \in Blocks
    /\ indexed = Chain(head) \cup (LegacyBlocks \ Chain(head))
    /\ utxoCache = [s \in Scripts |-> None] /\ statsCache = [s \in Scripts |-> None]
    /\ step = "idle" /\ target = head /\ stale = {} /\ undoing = None
    /\ query = [q \in Queries |-> Idle]
    /\ budget = [update |-> MaxUpdates, crash |-> MaxCrashes, query |-> MaxQueries]

HoldsNothing(q) == FALSE

\* history_cache_lock.read(), from the read of the cache to the write back.
HoldsCacheLock(q) == query[q].step \in {"cached", "resolve", "scan", "save"}

WriterHoldsCacheLock == step = "delete"

\* The chains that were published since a query began.
Witness(tip) ==
    query' = [q \in Queries |->
        IF query[q].step = "idle" THEN query[q] ELSE [query[q] EXCEPT !.seen = @ \cup {tip}]]

Advance(q, next, value) ==
    query' = [query EXCEPT ![q].step = next, ![q].got = value]

Begin(q, op, arg, next, value) ==
    /\ query[q].step = "idle" /\ <<op, arg>> \in Asked /\ budget.query > 0
    /\ budget' = [budget EXCEPT !.query = @ - 1]
    /\ query' = [query EXCEPT ![q] =
          [step |-> next, op |-> op, arg |-> arg, got |-> value, seen |-> {head}]]
    /\ UNCHANGED <<head, indexed, utxoCache, statsCache, step, target, stale, undoing>>

\* utxo and stats: take the lock and read the cache row; a cached set above
\* utxos_checkpoint_limit is refused at once.
BeginUtxo(q, s) ==
    /\ ~WriterHoldsCacheLock
    /\ LET big == utxoCache[s] # None /\ Cardinality(utxoCache[s].value) > CheckpointLimit
       IN  Begin(q, "utxo", s, IF big THEN "done" ELSE "cached", IF big THEN None ELSE utxoCache[s])

BeginStats(q, s) ==
    ~WriterHoldsCacheLock /\ Begin(q, "stats", s, "cached", statsCache[s])

\* height_by_hash: a row stamped with an orphaned block is not used.
StampValid(row) == row # None /\ row.at \in Chain(head)

ValidateCache(q) ==
    /\ query[q].step = "cached"
    /\ LET row == IF StampValid(query[q].got) THEN query[q].got ELSE None
       IN  Advance(q, IF query[q].op = "utxo" /\ row # None THEN "resolve" ELSE "scan", row)
    /\ UNCHANGED <<head, indexed, utxoCache, statsCache, step, target, stale, undoing, budget>>

\* Every cached entry <<output, height>> finds its header.
EntriesResolve(q) == \A u \in query[q].got.value : u[2] < ChainLen(head)

\* from_utxo_cache turns heights back into blocks; a missing header panics,
\* which ends the query and releases the lock.
ResolveCache(q) ==
    /\ query[q].step = "resolve"
    /\ LET blocks == {<<u[1], BlockAt(u[2], head)>> : u \in query[q].got.value}
       IN  IF EntriesResolve(q) THEN Advance(q, "scan", [query[q].got EXCEPT !.value = blocks])
                                ELSE query' = [query EXCEPT ![q] = Idle]
    /\ UNCHANGED <<head, indexed, utxoCache, statsCache, step, target, stale, undoing, budget>>

\* The height after the cached block: its own, as it was when it was validated.
FromCachedBlock(row) == IF row = None THEN 0 ELSE Height(row.at)
StartHeight(row) == IF row = None THEN 0 ELSE Height(row.at) + 1

\* utxo_delta, stats_delta: the headers stay locked during the scan.
ScanRows(q) ==
    LET row == query[q].got
        all == VisibleRows(query[q].arg, StartHeight(row))
        rows == Scanned(all)
        utxo == query[q].op = "utxo"
        init == IF row # None THEN row.value ELSE IF utxo THEN {} ELSE NoStats
        value == IF utxo THEN UtxoDelta(init, rows, head) ELSE StatsDelta(init, rows)
        save == IF utxo THEN row # None \/ HitsScanLimit(all) \/ Cardinality(rows) > MinItemsToCache
                        ELSE HitsScanLimit(all) \/ value.funded + value.spent > MinItemsToCache
    IN  /\ query[q].step = "scan"
        /\ IF utxo /\ HitsCheckpointLimit(init, rows, head)
           THEN Advance(q, "done", None)
           ELSE Advance(q, "save",
                   [at |-> IF save THEN LastBlock(rows, head) ELSE None, value |-> value,
                    full |-> ~HitsScanLimit(all)])
        /\ UNCHANGED <<head, indexed, utxoCache, statsCache, step, target, stale, undoing, budget>>

\* A cache row keeps the height of an output, not its block.
MakeUtxoCache(utxos) == {<<u[1], Height(u[2])>> : u \in utxos}

\* The write of the cache row, and the answer.
SaveCache(q) ==
    LET found == query[q].got
        row(value) == [at |-> found.at, value |-> value]
        s == query[q].arg
    IN  /\ query[q].step = "save"
        /\ utxoCache' = IF query[q].op = "utxo" /\ found.at # None
                        THEN [utxoCache EXCEPT ![s] = row(MakeUtxoCache(found.value))] ELSE utxoCache
        /\ statsCache' = IF query[q].op = "stats" /\ found.at # None
                         THEN [statsCache EXCEPT ![s] = row(found.value)] ELSE statsCache
        /\ Advance(q, "done", IF found.full THEN found.value ELSE None)
        /\ UNCHANGED <<head, indexed, step, target, stale, undoing, budget>>

\* history_txids: the headers are locked before the scan.
HistoryTxids(q, s) ==
    Begin(q, "history", s, "done", {<<r[2], BlockAt(r[1], head)>> : r \in VisibleRows(s, 0)})

\* lookup_spend: the S row <<spender, height>> is read first, the headers are
\* locked after it, and the header at the height is attached to the answer.
LookupSpend(q, o) ==
    LET edges == {EdgeOf({b})[o] : b \in indexed} \ {None}
    IN  /\ query[q].step = "idle" /\ <<"spend", o>> \in Asked
        /\ \E edge \in IF edges = {} THEN {None} ELSE edges : Begin(q, "spend", o, "attach", edge)

AttachHeader(q) ==
    LET edge == query[q].got
    IN  /\ query[q].step = "attach"
        /\ Advance(q, "done", IF edge = None \/ edge[2] >= ChainLen(head) THEN None
                              ELSE <<edge[1], BlockAt(edge[2], head)>>)
        /\ UNCHANGED <<head, indexed, utxoCache, statsCache, step, target, stale, undoing, budget>>

Return(q) ==
    /\ query[q].step = "done"
    /\ query' = [query EXCEPT ![q] = Idle]
    /\ UNCHANGED <<head, indexed, utxoCache, statsCache, step, target, stale, undoing, budget>>

----------------------------------------------------------------------------
(* The indexer, as queries see it *)

\* HeaderList::pop: queries no longer see the reorged heights.
PoppedTip(fork) == fork

\* Indexer::update up to the cleanup: bitcoind's tip is t.
StartUpdate(t) ==
    LET fork == Fork(t, head)
        reorged == Chain(head) \ Chain(fork)
        uncommitted == (indexed \ Chain(head)) \ Chain(t)
    IN  /\ step = "idle" /\ budget.update > 0
        /\ budget' = [budget EXCEPT !.update = @ - 1]
        /\ target' = t /\ stale' = reorged \cup uncommitted /\ step' = "undo"
        /\ head' = PoppedTip(fork) /\ Witness(head')
        /\ UNCHANGED <<indexed, utxoCache, statsCache, undoing>>

\* The rows of block b that no block of the active chain owns.
DeletedRows(b) == RowsOf({b}) \ RowsOf(Chain(target) \cap indexed)

TouchedScripts(b) == {ScriptOfRow(r) : r \in DeletedRows(b)}

\* delete_stale_rows: take history_cache_lock.write() and delete the cache rows
\* of every script whose history is about to change ...
InvalidateCaches(b) ==
    /\ step = "undo" /\ b \in stale
    /\ \A q \in Queries : ~HoldsCacheLock(q)
    /\ utxoCache' = [s \in Scripts |-> IF s \in TouchedScripts(b) THEN None ELSE utxoCache[s]]
    /\ statsCache' = [s \in Scripts |-> IF s \in TouchedScripts(b) THEN None ELSE statsCache[s]]
    /\ step' = "delete" /\ undoing' = b
    /\ UNCHANGED <<head, indexed, target, stale, query, budget>>

\* ... then delete the history rows and release the lock.
DeleteHistory ==
    /\ step = "delete"
    /\ indexed' = indexed \ {undoing} /\ stale' = stale \ {undoing}
    /\ step' = "undo" /\ undoing' = None
    /\ UNCHANGED <<head, utxoCache, statsCache, target, query, budget>>

CleanupDone ==
    /\ step = "undo" /\ stale = {}
    /\ step' = "index"
    /\ UNCHANGED <<head, indexed, utxoCache, statsCache, target, stale, undoing, query, budget>>

CleanupFails ==
    /\ step = "undo" /\ stale # {}
    /\ step' = "idle" /\ stale' = {}
    /\ UNCHANGED <<head, indexed, utxoCache, statsCache, target, undoing, query, budget>>

\* Indexer::index: rows of heights that are not published yet.
IndexBlock ==
    LET missing == Chain(target) \ indexed
    IN  /\ step = "index" /\ missing # {}
        /\ indexed' = indexed \cup {CHOOSE b \in missing : \A c \in missing : Height(b) <= Height(c)}
        /\ UNCHANGED <<head, utxoCache, statsCache, step, target, stale, undoing, query, budget>>

\* commit_completed_headers: publish the complete prefix, also after a fetch
\* that ended early.
AppendHeaders ==
    /\ step = "index"
    /\ head' = Top({b \in Chain(target) : Anc[b] \subseteq indexed}) /\ Witness(head')
    /\ step' = "idle"
    /\ UNCHANGED <<indexed, utxoCache, statsCache, target, stale, undoing, budget>>

\* The process ends and restarts: queries are gone, both databases stay.
Crash ==
    /\ budget.crash > 0
    /\ budget' = [budget EXCEPT !.crash = @ - 1]
    /\ step' = "idle" /\ stale' = {} /\ undoing' = None
    /\ query' = [q \in Queries |-> Idle]
    /\ UNCHANGED <<head, indexed, utxoCache, statsCache, target>>

\* Nobody has anything to do.
Rest == step = "idle" /\ (\A q \in Queries : query[q].step = "idle") /\ UNCHANGED vars

QueryStep(q) ==
    \/ \E s \in Scripts : BeginUtxo(q, s) \/ BeginStats(q, s) \/ HistoryTxids(q, s)
    \/ \E o \in Txs : LookupSpend(q, o)
    \/ ValidateCache(q) \/ ResolveCache(q) \/ ScanRows(q) \/ SaveCache(q)
    \/ AttachHeader(q) \/ Return(q)

UpdateStep ==
    \/ \E t \in Blocks : StartUpdate(t)
    \/ \E b \in Blocks : InvalidateCaches(b)
    \/ DeleteHistory \/ CleanupDone \/ CleanupFails \/ IndexBlock \/ AppendHeaders

Next == (\E q \in Queries : QueryStep(q)) \/ UpdateStep \/ Crash \/ Rest

Spec == Init /\ [][Next]_vars

----------------------------------------------------------------------------
(* Properties *)

CacheRow(V) == [at : Blocks, value : V] \cup {None}

\* Every variable holds a value of its type; a query's intermediate result is not
\* constrained.
TypeOK ==
    /\ head \in Blocks /\ indexed \subseteq Blocks
    /\ utxoCache \in [Scripts -> CacheRow(SUBSET (Txs \X Nat))]
    /\ statsCache \in [Scripts -> CacheRow([txs : Nat, funded : Nat, spent : Nat])]
    /\ step \in {"idle", "undo", "delete", "index"}
    /\ target \in Blocks /\ stale \subseteq Blocks /\ undoing \in Blocks \cup {None}
    /\ \A q \in Queries : query[q].seen \subseteq Blocks

\* No row of script s up to the height of b comes from a block outside the chain.
HistoryClean(s, b) ==
    \A r \in ScriptRows(indexed, s) : r[1] <= Height(b) => r \in RowsOf(Chain(head))

\* "Invalidate durably before deleting history, so neither concurrent queries nor
\* crashes retain old totals" (reorg.rs:846): a cached total that height_by_hash
\* accepts is the total of the chain it is stamped with, except while rows of a
\* stale block still stand in the history it was computed from.
CacheExact ==
    \A s \in Scripts :
        /\ StampValid(utxoCache[s]) /\ HistoryClean(s, utxoCache[s].at) =>
              utxoCache[s].value = MakeUtxoCache(UtxosOf(utxoCache[s].at, s))
        /\ StampValid(statsCache[s]) /\ HistoryClean(s, statsCache[s].at) =>
              statsCache[s].value = StatsOf(statsCache[s].at, s)

\* The answer of a finished utxo, stats or history query is that of one chain: of
\* a block that was published at some moment while the query ran, whatever the
\* indexer popped, deleted or appended in between.
AnswerOfOneChain ==
    \A q \in Queries :
        LET r == query[q]
        IN  r.step = "done" /\ r.op # "spend" /\ r.got # None =>
              \E tip \in r.seen : \E b \in Chain(tip) :
                  r.got = CASE r.op = "utxo" -> UtxosOf(b, r.arg)
                            [] r.op = "stats" -> StatsOf(b, r.arg)
                            [] r.op = "history" -> HistoryOf(b, r.arg)

\* lookup_spend is exact as long as no header is popped or appended while it runs:
\* it finds the spend of the published chain, in its block, or rightly none, although
\* rows of blocks being indexed or undone stand next to it.
SpendExactWhileStill ==
    \A q \in Queries :
        LET r == query[q]
        IN  r.step = "done" /\ r.op = "spend" =>
              \A tip \in r.seen : r.seen = {tip} =>
                  IF r.got = None THEN \A e \in SpendsOf(tip) : e[1] # r.arg
                                  ELSE <<r.arg, r.got[1], r.got[2]>> \in SpendsOf(tip)

\* "missing blockheader for valid utxo cache entry" (schema.rs:2338): once the
\* stamp of a cached row is found valid, its entries have headers.
ValidCacheResolves == \A q \in Queries : query[q].step = "resolve" => EntriesResolve(q)

\* "Hide old heights so queries cannot attach their history to replacement blocks"
\* (reorg.rs:297): a spend is reported in a block that holds the spender.
SpendInItsBlock ==
    \A q \in Queries :
        query[q].step = "done" /\ query[q].op = "spend" /\ query[q].got # None =>
            query[q].got[1] \in TxsOf[query[q].got[2]]
====

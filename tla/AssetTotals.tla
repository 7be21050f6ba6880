----------------------------- MODULE AssetTotals -----------------------------
(***************************************************************************)
(* The totals of an asset on Liquid (elements/asset.rs): the history of an *)
(* asset is indexed with each block, and its totals are kept in a cache    *)
(* with the block they are for, brought up to date by each query.  The     *)
(* main loop meanwhile indexes blocks and undoes them.                     *)
(***************************************************************************)
EXTENDS Integers, Sequences, FiniteSetsExt

CONSTANTS
    Askers,         \* threads that ask for totals
    AssetTxs,       \* transactions
    Changes,        \* the amounts of an asset in the entries of each, negative if burned or pegged out
    MaxHeight, MaxReorgs, MaxAsks       \* bounds

VARIABLES
    published,      \* the headers: the transactions of each block
    assetRows,      \* the I rows of the asset: a height, a transaction and an entry
    totals,         \* the cached totals and the block they are for, which the chain up to it identifies
    indexer,        \* "idle", "publish" or "cleanup"
    fresh,          \* the block whose rows were just written
    query,          \* what each query does
    reorgs, asks

vars == <<published, assetRows, totals, indexer, fresh, query, reorgs, asks>>

None == <<>>
NoTotals == [txs |-> 0, plus |-> 0, minus |-> 0]
Resting == [at |-> "none", got |-> None, from |-> 0, stats |-> NoTotals, seen |-> {}]

Init ==
    /\ published = <<>> /\ assetRows = {} /\ totals = None /\ indexer = "idle" /\ fresh = {}
    /\ query = [q \in Askers |-> Resting] /\ reorgs = 0 /\ asks = 0

\* history_cache_lock.read(), from the read of the cache to its write.
HoldsNothing(q) == FALSE

HoldsLock(q) == query[q].at # "none"

----------------------------------------------------------------------------
(* The main loop *)

Confirmed == UNION {published[h] : h \in DOMAIN published}
EntriesOf(height, txs) == UNION {{<<height, t, e>> : e \in DOMAIN Changes[t]} : t \in txs}

\* The chains that were published while a query was answered.
Witness(chain) ==
    query' = [q \in Askers |->
        IF query[q].at = "none" THEN query[q] ELSE [query[q] EXCEPT !.seen = @ \cup {chain}]]

\* index_confirmed_tx_assets, with the other rows of a block; then its header is published.
WriteRows(txs) ==
    /\ indexer = "idle" /\ indexer' = "publish" /\ Len(published) < MaxHeight
    /\ txs # {} /\ txs \cap Confirmed = {}
    /\ fresh' = txs /\ assetRows' = assetRows \cup EntriesOf(Len(published) + 1, txs)
    /\ UNCHANGED <<published, totals, query, reorgs, asks>>

Publish ==
    /\ indexer = "publish" /\ indexer' = "idle" /\ published' = Append(published, fresh) /\ fresh' = {}
    /\ Witness(published') /\ UNCHANGED <<assetRows, totals, reorgs, asks>>

\* A reorganization takes headers back, or an update ends before it published a block; either may come
\* again before the blocks are undone.
Reorg(height) ==
    /\ indexer' = "cleanup" /\ fresh' = {} /\ reorgs < MaxReorgs /\ reorgs' = reorgs + 1
    /\ height < Len(published) \/ (indexer = "publish" /\ height = Len(published))
    /\ published' = SubSeq(published, 1, height) /\ Witness(published')
    /\ UNCHANGED <<assetRows, totals, asks>>

\* delete_stale_rows, for a batch of blocks: under the write lock, the cached totals first if there is a row
\* to delete, then the rows.
StaleRows(heights) == {row \in assetRows : row[1] > Len(published) /\ row[1] \in heights}

Cleanup(heights) ==
    /\ indexer = "cleanup" /\ \A q \in Askers : ~HoldsLock(q)
    /\ totals' = (IF StaleRows(heights) = {} THEN totals ELSE None) /\ assetRows' = assetRows \ StaleRows(heights)
    /\ indexer' = IF StaleRows(1..MaxHeight) = StaleRows(heights) THEN "idle" ELSE "cleanup"
    /\ UNCHANGED <<published, fresh, query, reorgs, asks>>

Indexes ==
    \/ (\E txs \in SUBSET AssetTxs : WriteRows(txs)) \/ Publish
    \/ (\E height \in 0..MaxHeight : Reorg(height)) \/ (\E heights \in SUBSET (1..MaxHeight) : Cleanup(heights))

----------------------------------------------------------------------------
(* chain_asset_stats *)

Others == UNCHANGED <<published, assetRows, indexer, fresh, reorgs>>

ReadCache(q) ==
    /\ query[q].at = "none" /\ asks < MaxAsks /\ asks' = asks + 1
    /\ query' = [query EXCEPT ![q].at = "height", ![q].got = totals, ![q].seen = {published}]
    /\ Others /\ UNCHANGED totals

OnChain(block) == Len(block) <= Len(published) /\ SubSeq(published, 1, Len(block)) = block

\* Totals of a block that is not on the chain are not used.
Usable(got) == got # None /\ OnChain(got[1].block)

CheckHeight(q) ==
    LET got == query[q].got
    IN  /\ query[q].at = "height"
        /\ query' = [query EXCEPT
              ![q].at = "scan", ![q].got = None,
              ![q].from = IF Usable(got) THEN Len(got[1].block) + 1 ELSE 0,
              ![q].stats = IF Usable(got) THEN got[1].stats ELSE NoTotals]
        /\ Others /\ UNCHANGED <<totals, asks>>

\* apply_issued_asset_stats and apply_pegged_asset_stats, of each row.
Sum(rs, sign) ==
    MapThenSumSet(LAMBDA row : IF sign * Changes[row[2]][row[3]] > 0 THEN sign * Changes[row[2]][row[3]] ELSE 0, rs)
Applied(stats, rs) ==
    [txs |-> stats.txs + Cardinality({<<row[1], row[2]>> : row \in rs}),
     plus |-> stats.plus + Sum(rs, 1), minus |-> stats.minus + Sum(rs, -1)]

\* chain_asset_stats_delta: rows of heights that have no header are skipped.
WithHeader(rs) == {row \in rs : row[1] <= Len(published)}

Scan(q) ==
    LET new == WithHeader({row \in assetRows : row[1] >= query[q].from})
    IN  /\ query[q].at = "scan"
        /\ query' = [query EXCEPT
              ![q].at = "save", ![q].stats = Applied(@, new),
              ![q].got = IF new = {} THEN None ELSE <<SubSeq(published, 1, Max({row[1] : row \in new}))>>]
        /\ Others /\ UNCHANGED <<totals, asks>>

\* The totals are kept with the last block that had a row, and returned.
Save(q) ==
    LET got == query[q].got
    IN  /\ query[q].at = "save" /\ query' = [query EXCEPT ![q] = Resting]
        /\ totals' = IF got = None THEN totals ELSE <<[stats |-> query[q].stats, block |-> got[1]]>>
        /\ Others /\ UNCHANGED asks

Queries == \E q \in Askers : ReadCache(q) \/ CheckHeight(q) \/ Scan(q) \/ Save(q)
Next == Indexes \/ Queries
Spec == Init /\ [][Next]_vars

----------------------------------------------------------------------------
TotalsOf(chain) == Applied(NoTotals, UNION {EntriesOf(h, chain[h]) : h \in DOMAIN chain})

\* Cached totals for a block of the chain are those of the chain up to it, whichever queries save theirs
\* while blocks are taken back (asset.rs:502-530, reorg.rs:846-858).
TotalsExact ==
    (totals # None /\ OnChain(totals[1].block)) => totals[1].stats = TotalsOf(totals[1].block)

\* The totals that a query returns are those of one chain that was published while it was answered, up to
\* some block of it: never of blocks of two chains, nor of part of a block (asset.rs:498-566).
TotalsOfOneChain ==
    \A q \in Askers : query[q].at = "save" =>
        \E chain \in query[q].seen : \E h \in 0..Len(chain) : query[q].stats = TotalsOf(SubSeq(chain, 1, h))
==============================================================================

----------------------------- MODULE ClientView -----------------------------
(***************************************************************************)
(* What an HTTP client is told about transactions, from two stores that    *)
(* are read one after the other without a common lock: the index of the    *)
(* chain and the view of the mempool (rest.rs, new_index/query.rs).  While *)
(* a request runs, blocks are indexed, published and taken back and the    *)
(* mempool view gains and loses transactions.                              *)
(*                                                                         *)
(* A client asks for the newest transactions of a script and pages on      *)
(* through the confirmed ones, or asks for one transaction.  All           *)
(* transactions of the model are of that script.  The index keeps whole    *)
(* transactions (no light mode).                                           *)
(***************************************************************************)
EXTENDS Integers, SequencesExt

CONSTANTS
    Txids,          \* transactions, as numbers: the order of rows of one height
    ParentsOf,      \* the transactions whose outputs one spends
    Funding,        \* the transactions that have funding rows in the script's history,
    Spending,       \* and those that have spending rows
    PageSize,       \* CHAIN_TXS_PER_PAGE
    ScanLimits,     \* the values of history_scan_limit
    MaxHeight,      \* bound on the height
    MaxPops,        \* bound on the blocks that are taken back
    Nothing

VARIABLES
    scanLimit,      \* history_scan_limit
    heights,        \* the published chain: the transactions of each block
    above,          \* rows of a block above the tip, not published yet or not deleted yet
    stored,         \* transactions whose T and O rows are in txstore
    pool,           \* the view of the mempool
    pops,
    kind,           \* what the client asks for: Nothing, "history" or "tx"
    target,         \* the transaction it asks for
    at,             \* what the request does next
    txs,            \* transactions selected for the answer: <<txid, confirmed>>
    prevouts,       \* the parents whose outputs were found in the mempool
    pageEnd,        \* last_seen_txid
    told,           \* transactions the client was told of
    result,         \* the outcome of the last request
    lost,           \* the transaction that was not found
    row,            \* the height in the TxConf row that was read, 0 if there is none
    always          \* transactions that the client could see all the time

vars == <<scanLimit, heights, above, stored, pool, pops, kind, target, at, txs, prevouts, pageEnd, told, result, lost,
          row, always>>
requestVars == <<kind, target, at, txs, prevouts, pageEnd, told, result, lost, row>>

Confirmed == UNION {heights[h] : h \in DOMAIN heights}
HeightOfTx(t) == CHOOSE h \in DOMAIN heights : t \in heights[h]

Init ==
    /\ scanLimit \in ScanLimits /\ heights = <<{}>> /\ above = {} /\ stored = {} /\ pool = {} /\ pops = 0
    /\ kind = Nothing /\ target = Nothing /\ at = "idle" /\ txs = {} /\ prevouts = {} /\ pageEnd = Nothing
    /\ told = {} /\ result = Nothing /\ lost = Nothing /\ row = 0 /\ always = {}

----------------------------------------------------------------------------
\* The indexer and the mempool sync, as the modules Indexer and Mempool have them.  A transaction can be
\* seen all the time if it leaves the mempool view only after its block is published, and the block stays.
IndexBlock ==
    /\ above = {} /\ Len(heights) < MaxHeight
    /\ \E b \in SUBSET (Txids \ Confirmed) :
         /\ b # {} /\ \A t \in b : ParentsOf[t] \subseteq Confirmed \cup b
         /\ above' = b /\ stored' = stored \cup b
    /\ UNCHANGED <<scanLimit, heights, pool, pops, always, requestVars>>

Publish ==
    /\ above # {} /\ Len(heights) < MaxHeight
    /\ heights' = Append(heights, above) /\ above' = {}
    /\ UNCHANGED <<scanLimit, stored, pool, pops, always, requestVars>>

TakeBack ==
    /\ above = {} /\ Len(heights) > 1 /\ pops < MaxPops /\ pops' = pops + 1
    /\ above' = heights[Len(heights)] /\ heights' = SubSeq(heights, 1, Len(heights) - 1)
    /\ always' = always \ above'
    /\ UNCHANGED <<scanLimit, stored, pool, requestVars>>

DeleteRows ==
    /\ above # {} /\ above' = {}
    /\ UNCHANGED <<scanLimit, heights, stored, pool, pops, always, requestVars>>

PoolGains ==
    /\ \E t \in Txids \ pool : ParentsOf[t] \subseteq pool \cup stored /\ pool' = pool \cup {t}
    /\ UNCHANGED <<scanLimit, heights, above, stored, pops, always, requestVars>>

PoolLoses ==
    /\ \E t \in pool : pool' = pool \ {t} /\ always' = always \ ({t} \ Confirmed)
    /\ UNCHANGED <<scanLimit, heights, above, stored, pops, requestVars>>

----------------------------------------------------------------------------
\* ChainQuery::_history.  Rows of the script from a height down; at one height the spending rows come
\* first, and rows above the tip may be there.
Descending(S) == SetToSortSeq(S, >)
RowsAt(h) ==
    LET b == IF h = Len(heights) + 1 THEN above ELSE heights[h]
        all == Descending(b \cap Spending) \o Descending(b \cap Funding)
    IN  [i \in DOMAIN all |-> <<all[i], h>>]
RowsDown(h) == FlattenSeq([i \in 1..h |-> RowsAt(h - i + 1)])
Unique(rows) == FoldLeft(LAMBDA new, r : IF Contains(new, r) THEN new ELSE Append(new, r), <<>>, rows)

\* The height the scan starts at: all of the block of the last seen transaction is read again.
BelowLastSeen(last) == IF last = Nothing THEN Len(heights) + 1 ELSE HeightOfTx(last) - 1

SeekHeight(last) == IF last = Nothing THEN Len(heights) + 1 ELSE HeightOfTx(last)

Scanned(last) ==
    LET rows == RowsDown(SeekHeight(last))
    IN  SubSeq(rows, 1, IF Len(rows) < scanLimit THEN Len(rows) ELSE scanLimit)

\* What comes after the last seen transaction and is published.
AfterLastSeen(last) ==
    LET unique == Unique(Scanned(last))
        start == IF last = Nothing THEN 0 ELSE SelectInSeq(unique, LAMBDA r : r[1] = last)
    IN  IF last # Nothing /\ start = 0
        THEN <<>>
        ELSE SelectSeq(SubSeq(unique, start + 1, Len(unique)), LAMBDA r : r[2] <= Len(heights))

Page(last) ==
    LET next == AfterLastSeen(last)
    IN  [i \in 1..(IF Len(next) < PageSize THEN Len(next) ELSE PageSize) |-> next[i][1]]

TooBigHistory(last) ==
    /\ Len(AfterLastSeen(last)) < PageSize
    /\ Len(RowsDown(SeekHeight(last))) > scanLimit

----------------------------------------------------------------------------
Starts(k, t, where) ==
    /\ at = "idle" /\ kind' = k /\ target' = t /\ at' = where /\ always' = pool \cup Confirmed
    /\ UNCHANGED <<scanLimit, heights, above, stored, pool, pops, txs, prevouts, pageEnd, told, result, lost, row>>

Fails(status, what) == at' = "failed" /\ result' = status /\ lost' = what

\* GET address/:address/txs and GET tx/:txid.
AskHistory == Starts("history", Nothing, "capture")
AskTx == \E t \in Txids : Starts("tx", t, "lookup")

\* prepare_tx looks in the index first.  The status is looked up after it.
LookupTx ==
    /\ at = "lookup"
    /\ txs' = {<<target, FALSE>>} /\ at' = IF target \in stored THEN "indexed" ELSE "capture"
    /\ UNCHANGED <<scanLimit, heights, above, stored, pool, pops, always, kind, target, prevouts, pageEnd, told, result, lost, row>>

\* MempoolTxs::capture: the transactions and those of their prevouts that are in the mempool, under one
\* lock of it.
Selected == IF kind = "history" THEN pool ELSE pool \cap {target}

Prevouts(ts) == UNION {ParentsOf[t] : t \in ts} \cap pool

Capture ==
    /\ at = "capture"
    /\ txs' = {<<t, FALSE>> : t \in Selected} /\ prevouts' = Prevouts(Selected)
    /\ at' = IF kind = "history" THEN "chain" ELSE IF Selected = {} THEN "again" ELSE "captured"
    /\ UNCHANGED <<scanLimit, heights, above, stored, pool, pops, always, kind, target, pageEnd, told, result, lost, row>>

\* prepare_captured_tx looks in the index again when the mempool does not have the transaction.
LookupAgain ==
    /\ at = "again"
    /\ IF target \in stored
       THEN txs' = {<<target, FALSE>>} /\ at' = "captured" /\ UNCHANGED <<result, lost, row>>
       ELSE Fails("notFound", target) /\ UNCHANGED txs
    /\ UNCHANGED <<scanLimit, heights, above, stored, pool, pops, always, kind, target, prevouts, pageEnd, told, row>>

\* ChainQuery::try_tx_confirming_block reads the row, and then the block of its height under the lock of
\* the headers.
RowHeight(t) == IF t \in Confirmed THEN HeightOfTx(t) ELSE IF t \in above THEN Len(heights) + 1 ELSE 0
HasBlock(h) == h \in DOMAIN heights

ReadRow ==
    /\ at \in {"indexed", "captured", "missing"} /\ row' = RowHeight(IF at = "missing" THEN lost ELSE target)
    /\ at' = [indexed |-> "indexedRow", captured |-> "capturedRow", missing |-> "missingRow"][at]
    /\ UNCHANGED <<scanLimit, heights, above, stored, pool, pops, always, kind, target, txs, prevouts, pageEnd, told,
                   result, lost>>

Status ==
    /\ at \in {"indexedRow", "capturedRow"}
    /\ txs' = {<<target, HasBlock(row)>>} /\ row' = 0
    /\ at' = IF at = "indexedRow" THEN "chainPrevouts" ELSE "prevouts"
    /\ UNCHANGED <<scanLimit, heights, above, stored, pool, pops, always, kind, target, prevouts, pageEnd, told, result,
                   lost>>

\* prepare_history reads the chain after the mempool, and prefers the confirmed entry.
Retained(page) == {x \in txs : x[1] \notin page}

ChainHistory ==
    /\ at = "chain"
    /\ IF TooBigHistory(Nothing)
       THEN Fails("tooBig", Nothing) /\ UNCHANGED <<txs, pageEnd>>
       ELSE LET page == Page(Nothing)
            IN  /\ txs' = Retained(ToSet(page)) \cup {<<t, TRUE>> : t \in ToSet(page)}
                /\ pageEnd' = IF page = <<>> THEN Nothing ELSE Last(page)
                /\ at' = "prevouts" /\ UNCHANGED <<result, lost>>
    /\ UNCHANGED <<scanLimit, heights, above, stored, pool, pops, always, kind, target, prevouts, told, row>>

\* GET address/:address/txs/chain/:last_seen_txid, until a page is empty.
NextPage ==
    /\ at = "answered" /\ kind = "history" /\ pageEnd # Nothing /\ prevouts' = {}
    /\ IF pageEnd \notin Confirmed
       THEN at' = "cut" /\ UNCHANGED <<txs, pageEnd, result, lost>>
       ELSE IF TooBigHistory(pageEnd)
       THEN Fails("tooBig", Nothing) /\ UNCHANGED <<txs, pageEnd>>
       ELSE LET page == Page(pageEnd)
            IN  /\ txs' = {<<t, TRUE>> : t \in ToSet(page)}
                /\ pageEnd' = IF page = <<>> THEN pageEnd ELSE Last(page)
                /\ at' = IF page = <<>> THEN "end" ELSE "chainPrevouts"
                /\ UNCHANGED <<result, lost>>
    /\ UNCHANGED <<scanLimit, heights, above, stored, pool, pops, always, kind, target, told, row>>

\* prepare_txs and MempoolTxs::prepare: the prevouts that were not captured are looked up in the index.
Needed == UNION {ParentsOf[x[1]] : x \in txs} \ prevouts

Prepare ==
    /\ at \in {"prevouts", "chainPrevouts"} /\ Needed \subseteq stored
    /\ told' = told \cup {x[1] : x \in txs} /\ result' = "answer"
    /\ at' = IF kind = "history" /\ pageEnd = Nothing THEN "end" ELSE "answered"
    /\ UNCHANGED <<scanLimit, heights, above, stored, pool, pops, always, kind, target, txs, prevouts, pageEnd, lost, row>>

MissingPrevout ==
    /\ at \in {"prevouts", "chainPrevouts"}
    /\ \E p \in Needed \ stored :
         \/ at = "chainPrevouts" /\ Fails("unavailable", p)
         \/ at = "prevouts" /\ at' = "missing" /\ lost' = p /\ UNCHANGED result
    /\ UNCHANGED <<scanLimit, heights, above, stored, pool, pops, always, kind, target, txs, prevouts, pageEnd, told, row>>

\* HttpError::mempool_prevout tells a prevout that vanished with the mempool (404) from a failing lookup.
Vanished == ~HasBlock(row) /\ \A x \in txs : ~(x[2] /\ lost \in ParentsOf[x[1]])

Refuse ==
    /\ at = "missingRow" /\ Fails(IF Vanished THEN "notFound" ELSE "unavailable", lost) /\ row' = 0
    /\ UNCHANGED <<scanLimit, heights, above, stored, pool, pops, always, kind, target, txs, prevouts, pageEnd, told>>

\* The client is done and asks something else.
Leave ==
    /\ \/ at \in {"failed", "end", "cut"}
       \/ at = "answered" /\ kind # "history"
    /\ at' = "idle" /\ kind' = Nothing /\ target' = Nothing /\ txs' = {} /\ prevouts' = {} /\ pageEnd' = Nothing
    /\ told' = {} /\ result' = Nothing /\ lost' = Nothing /\ row' = 0 /\ always' = {}
    /\ UNCHANGED <<scanLimit, heights, above, stored, pool, pops>>

Environment == IndexBlock \/ Publish \/ TakeBack \/ DeleteRows \/ PoolGains \/ PoolLoses
Request ==
    \/ LookupTx \/ Capture \/ LookupAgain \/ ReadRow \/ Status \/ ChainHistory \/ NextPage \/ Prepare
    \/ MissingPrevout \/ Refuse

Next == Environment \/ AskHistory \/ AskTx \/ Request \/ Leave

----------------------------------------------------------------------------
\* An answer lists a transaction once, though it is confirmed between the two reads of prepare_history
\* (rest.rs:550-558), or is in both stores until the next sync of the mempool.
AnswersOnce == at = "answered" => \A x, y \in txs : x[1] = y[1] => x = y

\* A client that reads the newest transactions and pages to the end (rest.rs:1069, schema.rs:983) is told
\* of every transaction it could see all the time, though blocks arrive and are taken back between its
\* pages, a page ends inside a block, and a transaction is confirmed between the two reads.
HistoryComplete == at = "end" => always \subseteq told

\* What can be seen all the time is found: a transaction that moves from the mempool to the chain while
\* prepare_tx looks for it (rest.rs:566-623), and the parents of an answer's transactions (rest.rs:502-541).
VisibleIsFound == result \in {"notFound", "unavailable"} => lost \notin always
==============================================================================

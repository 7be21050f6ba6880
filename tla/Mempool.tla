------------------------------ MODULE Mempool ------------------------------
(***************************************************************************)
(* The local view of bitcoind's mempool (new_index/mempool.rs), kept by    *)
(* the main loop (Mempool::update, bin/electrs.rs) and by client threads   *)
(* that broadcast transactions (Query::broadcast_raw, submit_package).     *)
(* bitcoind changes its mempool and its chain between any two RPCs, and    *)
(* the RPCs run without the mempool lock.                                  *)
(*                                                                         *)
(* A transaction has one output, named after it, and spends a set of them. *)
(***************************************************************************)
EXTENDS Naturals, FiniteSets, Sequences, Functions

CONSTANTS
    Txs,              \* transactions
    Coins,            \* confirmed outputs to start from
    Spends,           \* Spends[t]: the outputs that t spends
    None,
    Clients,          \* threads that broadcast
    Packages,         \* what they submit: sequences of transactions
    MaxInitialRetries,  \* MAX_INITIAL_MEMPOOL_SYNC_RETRIES
    MaxSyncFailures,    \* MAX_CONSECUTIVE_MEMPOOL_SYNC_FAILURES
    MaxRelays, MaxEvictions, MaxBlocks, MaxDisconnects, MaxSubmits, MaxIndexFailures \* bounds

Outputs == Txs \cup Coins

ASSUME MempoolAssumption ==
    /\ IsFiniteSet(Txs) /\ IsFiniteSet(Coins) /\ Txs \cap Coins = {}
    /\ None \notin Outputs
    /\ Spends \in [Txs -> SUBSET Outputs]
    /\ Packages \subseteq Seq(Txs)
    /\ {MaxInitialRetries, MaxSyncFailures} \subseteq Nat \ {0}
    /\ {MaxRelays, MaxEvictions, MaxBlocks, MaxDisconnects, MaxSubmits, MaxIndexFailures} \subseteq Nat

VARIABLES
    pool, chain,             \* bitcoind: mempool, blocks (sets of transactions)
    tip, stored,             \* the indexed chain, the transactions in txstore_db
    txs, history, edges,     \* the view: txstore, history, edges
    pc, serving, failures,              \* run_server: its step, start-up done, failed syncs
    listed, snapshot, asked, fetched,   \* the locals of Mempool::update
    client,                  \* the broadcasting threads
    left,                    \* indexed transactions bitcoind dropped since they were indexed
    budget

bitcoind == <<pool, chain>>
index == <<tip, stored>>
view == <<txs, history, edges>>
update == <<listed, snapshot, asked, fetched>>
sync == <<pc, serving, failures, update>>
vars == <<bitcoind, index, view, sync, client, left, budget>>

\* The transactions of S that spend, directly or not, from D: those in every set that
\* has with D and its own transactions also those that spend from them.
Downstream(D, S) ==
    LET Closed(C) == \A t \in S : Spends[t] \cap (D \cup C) # {} => t \in C
    IN  {t \in S : \A C \in SUBSET S : Closed(C) => t \in C}

Confirmed(blocks) == Coins \cup UNION Range(blocks)

----------------------------------------------------------------------------
(* bitcoind *)

SpentBy(S) == UNION {Spends[t] : t \in S}

\* The mempool p after t is accepted: what t replaces is gone, with descendants.
Survivors(p, t) ==
    LET replaced == {u \in p : Spends[u] \cap Spends[t] # {}}
    IN  p \ (replaced \cup Downstream(replaced, p))

Acceptable(p, t) ==
    /\ t \notin p \cup Confirmed(chain)
    /\ Spends[t] \subseteq Survivors(p, t) \cup Confirmed(chain)
    /\ Spends[t] \cap SpentBy(UNION Range(chain)) = {}

AfterAccept(p, t) == IF Acceptable(p, t) THEN Survivors(p, t) \cup {t} ELSE p

Spend(what) == budget[what] > 0 /\ budget' = [budget EXCEPT ![what] = @ - 1]

Relay(t) ==
    /\ Spend("relay") /\ Acceptable(pool, t)
    /\ pool' = AfterAccept(pool, t)
    /\ UNCHANGED <<chain, index, view, sync, client>>

Evict(t) ==
    /\ Spend("evict") /\ t \in pool
    /\ pool' = pool \ ({t} \cup Downstream({t}, pool))
    /\ UNCHANGED <<chain, index, view, sync, client>>

Mine(block) ==
    /\ Spend("block") /\ block \subseteq pool
    /\ \A t \in block : Spends[t] \subseteq block \cup Confirmed(chain)
    /\ pool' = pool \ block /\ chain' = Append(chain, block)
    /\ UNCHANGED <<index, view, sync, client>>

TopBlock(blocks) == blocks[Len(blocks)]
WithoutTop(blocks) == SubSeq(blocks, 1, Len(blocks) - 1)

\* invalidateblock, or a reorg seen half-way: transactions return to the mempool.
Disconnect ==
    /\ Spend("disconnect") /\ chain # <<>>
    /\ pool' = pool \cup TopBlock(chain) /\ chain' = WithoutTop(chain)
    /\ UNCHANGED <<index, view, sync, client>>

\* getrawtransaction finds a mempool transaction, and with -txindex a confirmed one.
Replies(t) ==
    IF t \in pool THEN {TRUE} ELSE IF t \in Confirmed(chain) THEN BOOLEAN ELSE {FALSE}

----------------------------------------------------------------------------
(* Mempool::add, Mempool::remove, lookup_txos *)

Entries == Txs \X (Outputs \cup {None})

\* The funding and spending entries of a transaction.
EntriesOf(t) == {<<t, None>>} \cup ({t} \X Spends[t])

\* Every prevout is found in the batch, in the mempool or on the chain.
Resolvable(t, batch) == Spends[t] \subseteq batch \cup txs \cup stored

AddTxs(batch) ==
    /\ txs' = txs \cup batch
    /\ history' = [e \in Entries |->
          history[e] + IF e[1] \in batch /\ e \in EntriesOf(e[1]) THEN 1 ELSE 0]
    /\ edges' = [o \in Outputs |->
          IF o \in SpentBy(batch) THEN CHOOSE t \in batch : o \in Spends[t] ELSE edges[o]]

Disowned(o, gone) == TRUE

LeftBehind(o, gone) == FALSE

\* An edge that a conflicting transaction took over stays.
EdgeRemoved(o, gone) == edges[o] \in gone

\* prune_history_entries
Pruned(e) == 0

RemoveTxs(gone) ==
    /\ txs' = txs \ gone
    /\ history' = [e \in Entries |-> IF e[1] \in gone THEN Pruned(e) ELSE history[e]]
    /\ edges' = [o \in Outputs |->
          IF o \in SpentBy(gone) /\ EdgeRemoved(o, gone) THEN None ELSE edges[o]]

----------------------------------------------------------------------------
(* The main loop: index, then Mempool::update *)

Init ==
    /\ pool = {} /\ chain = <<>>
    /\ tip = <<>> /\ stored = Coins
    /\ txs = {} /\ history = [e \in Entries |-> 0] /\ edges = [o \in Outputs |-> None]
    /\ pc = "wait" /\ serving = FALSE
    /\ listed = {} /\ snapshot = {} /\ asked = {} /\ fetched = {} /\ failures = 0
    /\ client = [c \in Clients |-> [step |-> "idle", want |-> {}, have |-> {}]]
    /\ left = {}
    /\ budget = [relay |-> MaxRelays, evict |-> MaxEvictions, block |-> MaxBlocks,
                 disconnect |-> MaxDisconnects, submit |-> MaxSubmits, index |-> MaxIndexFailures]

\* Indexer::update. txstore_db keeps the transactions of blocks that bitcoind
\* disconnects later. A fetch that fails leaves the tip, and may have written
\* transactions before it failed.
Indexed ==
    \/ tip' = chain /\ stored' = stored \cup Confirmed(chain) /\ UNCHANGED budget
    \/ /\ tip # chain /\ Spend("index") /\ UNCHANGED tip
       /\ stored' \in {stored, stored \cup Confirmed(chain)}

\* The first update of the index at start-up, and the one of every cycle.
IndexChain ==
    /\ pc = "wait" /\ Indexed
    /\ pc' = "list"
    /\ UNCHANGED <<bitcoind, view, serving, failures, update, client>>

\* The tip moved in the initial sync: serve a partial index if the index is stuck.
IndexAgain ==
    /\ pc = "again" /\ Indexed
    /\ serving' = (tip' = tip) /\ pc' = IF serving' THEN "wait" ELSE "list"
    /\ failures' = IF serving' THEN 0 ELSE failures
    /\ UNCHANGED <<bitcoind, view, update, client>>

\* getmempooltxids
ListTxids ==
    /\ pc = "list"
    /\ listed' = pool /\ pc' = "snapshot"
    /\ UNCHANGED <<bitcoind, index, view, serving, failures, snapshot, asked, fetched, client, budget>>

\* txids_set, under the read lock
TakeSnapshot ==
    /\ pc = "snapshot"
    /\ snapshot' = txs /\ pc' = "evict"
    /\ UNCHANGED <<bitcoind, index, view, serving, failures, listed, asked, fetched, client, budget>>

NoneEvicted(known, current) == {}

EvictsMissing(known, current) == current \ known

Evicted(known, current) == known \ current

\* Mempool::update returns.
Return == listed' = {} /\ snapshot' = {} /\ asked' = {} /\ fetched' = {}

\* MempoolSyncStatus::Synced ends the initial sync and the row of failures.
Synced == Return /\ serving' = TRUE /\ failures' = 0 /\ pc' = "wait"

\* Remove evicted transactions; with nothing to fetch the update is over.
RemoveEvicted ==
    LET missing == listed \ snapshot
    IN  /\ pc = "evict"
        /\ RemoveTxs(Evicted(snapshot, listed))
        /\ IF missing = {} THEN Synced
           ELSE asked' = missing /\ pc' = "fetch" /\ UNCHANGED <<serving, failures, listed, snapshot, fetched>>
        /\ UNCHANGED <<bitcoind, index, client, budget>>

\* gettransactions_available: one RPC per transaction, in any order.
FetchTx(t) ==
    /\ pc = "fetch" /\ t \in asked
    /\ asked' = asked \ {t}
    /\ \E found \in Replies(t) : fetched' = IF found THEN fetched \cup {t} ELSE fetched
    /\ UNCHANGED <<bitcoind, index, view, pc, serving, failures, listed, snapshot, client, budget>>

MovedUnnoticed(old, new) == FALSE

TipMoved(old, new) == old # new

\* getbestblockhash after the fetch
CheckTip ==
    /\ pc = "fetch" /\ asked = {}
    /\ IF TipMoved(tip, chain)
       THEN Return /\ pc' = IF serving THEN "wait" ELSE "again"
       ELSE pc' = "add" /\ UNCHANGED update
    /\ UNCHANGED <<bitcoind, index, view, serving, failures, client, budget>>

AllFetched(batch) == batch

\* What was indexed by a broadcast since the snapshot is not added again.
NotIndexed(batch) == batch \ txs

\* MempoolSyncStatus::FailedToIndex: the initial sync retries at once.
FailedToIndex ==
    /\ Return /\ failures' = failures + 1
    /\ pc' = IF failures' >= (IF serving THEN MaxSyncFailures ELSE MaxInitialRetries)
             THEN "stopped" ELSE IF serving THEN "wait" ELSE "list"
    /\ UNCHANGED serving

\* Without the descendants of transactions that could not be fetched, and without
\* those whose prevouts are not found (drop_unresolvable).
AddFetched ==
    LET replaced == (listed \ snapshot) \ fetched
        batch == NotIndexed(fetched \ Downstream(replaced, fetched))
        unresolvable == {t \in batch : ~Resolvable(t, batch)}
    IN  /\ pc = "add"
        /\ AddTxs(batch \ (unresolvable \cup Downstream(unresolvable, batch)))
        /\ IF unresolvable = {} THEN Synced ELSE FailedToIndex
        /\ UNCHANGED <<bitcoind, index, client, budget>>

----------------------------------------------------------------------------
(* Query::broadcast_raw, Query::submit_package, Mempool::add_missing *)

\* bitcoind takes what it can of a package, in order: its mempool after each transaction.
PoolsAfter(package) ==
    LET after[i \in 0..Len(package)] ==
            IF i = 0 THEN pool ELSE AfterAccept(after[i - 1], package[i])
    IN  after

AfterSubmit(package) == PoolsAfter(package)[Len(package)]

\* A single transaction is always fetched; of a package the client's copies of
\* the known transactions are used, which need no RPC.
Submit(c, package, known) ==
    LET accepted == Range(package) \cap AfterSubmit(package)
    IN  /\ client[c].step = "idle" /\ serving /\ pc # "stopped" /\ Spend("submit")
        /\ accepted # {} /\ known \subseteq accepted /\ (Len(package) = 1 => known = {})
        /\ pool' = AfterSubmit(package)
        /\ client' = [client EXCEPT ![c] =
              [step |-> "check", want |-> accepted, have |-> known]]
        /\ UNCHANGED <<chain, index, view, sync>>

\* The missing ones, under the read lock.
CheckMissing(c) ==
    /\ client[c].step = "check"
    /\ client' = [client EXCEPT ![c] =
          [step |-> "fetch", want |-> (@.want \ @.have) \ txs, have |-> @.have \ txs]]
    /\ UNCHANGED <<bitcoind, index, view, sync, budget>>

\* getmempooltx
FetchBroadcast(c, t) ==
    /\ client[c].step = "fetch" /\ t \in client[c].want
    /\ \E found \in Replies(t) :
          client' = [client EXCEPT ![c].want = @ \ {t},
                                   ![c].have = IF found THEN @ \cup {t} ELSE @]
    /\ UNCHANGED <<bitcoind, index, view, sync, budget>>

\* Under the write lock; a missing prevout fails the whole batch.
InsertBroadcast(c) ==
    LET batch == NotIndexed(client[c].have)
    IN  /\ client[c].step = "fetch" /\ client[c].want = {}
        /\ AddTxs(IF \A t \in batch : Resolvable(t, batch) THEN batch ELSE {})
        /\ client' = [client EXCEPT ![c] = [step |-> "idle", want |-> {}, have |-> {}]]
        /\ UNCHANGED <<bitcoind, index, sync, budget>>

----------------------------------------------------------------------------

\* Follows every step: indexed transactions stay left until they are removed.
NoteLeft == left' = (left \cup (txs' \ pool')) \cap txs'

Sync ==
    /\ \/ IndexChain \/ IndexAgain \/ ListTxids \/ TakeSnapshot \/ RemoveEvicted
       \/ \E t \in Txs : FetchTx(t)
       \/ CheckTip \/ AddFetched
    /\ NoteLeft

Broadcast(c) ==
    /\ CheckMissing(c) \/ InsertBroadcast(c) \/ \E t \in Txs : FetchBroadcast(c, t)
    /\ NoteLeft

Environment ==
    /\ \/ \E t \in Txs : Relay(t) \/ Evict(t)
       \/ \E block \in SUBSET pool : Mine(block)
       \/ Disconnect
       \/ \E c \in Clients, package \in Packages :
             \E known \in SUBSET Range(package) : Submit(c, package, known)
    /\ NoteLeft

Next == Sync \/ Environment \/ \E c \in Clients : Broadcast(c)

Spec == Init /\ [][Next]_vars

\* The main loop polls every 5 seconds and a client's calls return.
FairSpec == Spec /\ WF_vars(Sync) /\ \A c \in Clients : WF_vars(Broadcast(c))

----------------------------------------------------------------------------
(* Properties *)

\* Every variable has its type.
TypeOK ==
    /\ pool \subseteq Txs /\ chain \in Seq(SUBSET Txs)
    /\ tip \in Seq(SUBSET Txs) /\ stored \subseteq Outputs
    /\ txs \subseteq Txs /\ history \in [Entries -> Nat] /\ edges \in [Outputs -> Txs \cup {None}]
    /\ pc \in {"wait", "again", "list", "snapshot", "evict", "fetch", "add", "stopped"}
    /\ listed \subseteq Txs /\ snapshot \subseteq Txs /\ asked \subseteq Txs /\ fetched \subseteq Txs
    /\ serving \in BOOLEAN /\ failures \in 0..(MaxSyncFailures + MaxInitialRetries) /\ left \subseteq txs
    /\ client \in [Clients -> [step : {"idle", "check", "fetch"}, want : SUBSET Txs, have : SUBSET Txs]]

\* The history has each entry of an indexed transaction once and no other entry,
\* although the sync and the broadcasters fetch the same transactions without a
\* lock: prune_history_entries always finds what it prunes, and no balance counts
\* a transaction twice.
HistoryExact ==
    \A e \in Entries : history[e] = IF e[1] \in txs /\ e \in EntriesOf(e[1]) THEN 1 ELSE 0

\* lookup_spend never names a transaction that is not indexed or does not spend the
\* output, however conflicting transactions came and went; a spend whose edge was
\* taken over is still an indexed spend.
EdgesOwned ==
    \A o \in Outputs : edges[o] # None => edges[o] \in txs /\ o \in Spends[edges[o]]

\* Mempool::remove panics on a transaction that is not indexed ("missing mempool
\* tx"). The txids it is given are from a snapshot taken before the write lock, and
\* broadcasts change the view in between.
RemovesIndexed == pc = "evict" => Evicted(snapshot, listed) \subseteq txs

\* A spend that a client was told of is not forgotten while its transaction stays
\* indexed: it can only be taken over by an indexed conflicting transaction.
EdgesKept == [][\A o \in Outputs : edges[o] \in txs' => edges'[o] \in txs']_vars

\* The sync does not give up on a reorg: thanks to the check of the tip, every
\* cycle that fails to index is paid for by a block that bitcoind disconnected.
FailuresNeedReorgs == failures <= MaxDisconnects - budget.disconnect

\* When bitcoind comes to rest, the view becomes bitcoind's mempool and stays so.
Converges == <>[](pc # "stopped" => txs = pool /\ tip = chain)

\* "Remove evicted mempool transactions from the local mempool view"
\* (mempool.rs:697): what the sync removes has left bitcoind's mempool since it was
\* indexed.
EvictsOnlyEvicted == [][\A t \in txs \ txs' : t \in left]_vars

\* "Recoverable bookkeeping noise, not a reason to crash" (mempool.rs:632): when
\* bitcoind comes to rest, every output that an indexed transaction spends has its
\* edge again, whatever conflicts went by.
EdgesRecover ==
    <>[](pc # "stopped" => \A t \in txs : \A o \in Spends[t] : edges[o] = t)
====

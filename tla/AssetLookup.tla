----------------------------- MODULE AssetLookup -----------------------------
(***************************************************************************)
(* Looking up an issued asset on Liquid (elements/asset.rs, query.rs): the *)
(* row of its issuance is in the index or in the mempool view, and its     *)
(* metadata in a registry of files (elements/registry.rs) that a thread    *)
(* reads again every 15 seconds.  The mempool view and the registry have   *)
(* an RwLock each, in which a reader waits behind a writer that waits.     *)
(***************************************************************************)
EXTENDS Integers, FiniteSets

CONSTANTS
    Lookups,        \* requests
    RegisteredSets, \* what the files of the registry may hold of the asset: {{}, {"meta"}} or fewer
    MaxBlocks, MaxSyncs         \* bounds

VARIABLES
    bitcoind,       \* where the issuance is for elementsd: "mempool" or "chain"
    issuanceRow,    \* its row is in the index
    issued,         \* it is in the mempool view
    listing,        \* the mempool of elementsd that an update goes by
    loop,           \* the main loop: "index", "list" or "update", which waits for the write lock
    registry,       \* what the registry holds of the asset
    syncer,         \* the thread of the registry: "asleep" or "waiting" for the write lock
    lookup,         \* what each request does
    mined, syncs

vars == <<bitcoind, issuanceRow, issued, listing, loop, registry, syncer, lookup, mined, syncs>>

Known == issuanceRow \/ issued
NoLookup == [at |-> "none", list |-> FALSE, row |-> FALSE, known |-> FALSE]

Init ==
    /\ bitcoind = "mempool" /\ issuanceRow = FALSE /\ issued = FALSE /\ listing = FALSE
    /\ loop = "index" /\ registry \in RegisteredSets /\ syncer = "asleep"
    /\ lookup = [r \in Lookups |-> NoLookup]
    /\ mined = 0 /\ syncs = 0

----------------------------------------------------------------------------
(* The locks *)

HoldsRegistry(r) == lookup[r].list /\ lookup[r].at \in {"mempool", "row", "find", "answer"}

HoldsMempool(r) == lookup[r].at \in {"row", "find", "meta", "answer"}

\* Whether the asset was known at all times of a request.
Witness(known) == lookup' = [r \in Lookups |-> [lookup[r] EXCEPT !.known = @ /\ known]]

----------------------------------------------------------------------------
(* elementsd, the main loop and the thread of the registry *)

\* A block confirms the issuance, or a reorganization takes it back.
Mine ==
    /\ mined < MaxBlocks /\ mined' = mined + 1
    /\ bitcoind' \in {"mempool", "chain"} \ {bitcoind}
    /\ UNCHANGED <<issuanceRow, issued, listing, loop, registry, syncer, lookup, syncs>>

\* index_confirmed_tx_assets, or the undoing of it.
Index ==
    /\ loop = "index" /\ loop' = "list" /\ issuanceRow' = (bitcoind = "chain") /\ Witness(issuanceRow' \/ issued)
    /\ UNCHANGED <<bitcoind, issued, listing, registry, syncer, mined, syncs>>

\* Mempool::update, which takes no lock if nothing changed.
ListMempool ==
    /\ loop = "list" /\ listing' = (bitcoind = "mempool")
    /\ loop' = IF listing' = issued THEN "index" ELSE "update"
    /\ UNCHANGED <<bitcoind, issuanceRow, issued, registry, syncer, lookup, mined, syncs>>

\* index_mempool_tx_assets and remove_mempool_tx_assets.
UpdateMempool ==
    /\ loop = "update" /\ loop' = "index" /\ \A r \in Lookups : ~HoldsMempool(r)
    /\ issued' = listing /\ Witness(issuanceRow \/ issued')
    /\ UNCHANGED <<bitcoind, issuanceRow, listing, registry, syncer, mined, syncs>>

WakeUp ==
    /\ syncer = "asleep" /\ syncer' = "waiting" /\ syncs < MaxSyncs /\ syncs' = syncs + 1
    /\ UNCHANGED <<bitcoind, issuanceRow, issued, listing, loop, registry, lookup, mined>>

\* fs_sync: if a file cannot be read, the assets stay as they were.
FsSync(fails, files) ==
    /\ syncer = "waiting" /\ syncer' = "asleep" /\ \A r \in Lookups : ~HoldsRegistry(r)
    /\ registry' = IF fails THEN registry ELSE files
    /\ UNCHANGED <<bitcoind, issuanceRow, issued, listing, loop, lookup, mined, syncs>>

Others ==
    \/ Mine \/ Index \/ ListMempool \/ UpdateMempool \/ WakeUp
    \/ \E fails \in BOOLEAN, files \in RegisteredSets : FsSync(fails, files)

----------------------------------------------------------------------------
(* Requests *)

Keeps == UNCHANGED <<bitcoind, issuanceRow, issued, listing, loop, registry, syncer, mined, syncs>>
At(q, to) == IF to = "done" THEN [NoLookup EXCEPT !.at = "done"] ELSE [q EXCEPT !.at = to, !.row = FALSE]
Goes(r, from, to) == lookup[r].at = from /\ lookup' = [lookup EXCEPT ![r] = At(@, to)] /\ Keeps

Ask(r, list) ==
    /\ lookup[r].at = "none"
    /\ lookup' = [lookup EXCEPT ![r] =
          [at |-> IF list THEN "list" ELSE "mempool", list |-> list, row |-> FALSE, known |-> Known]]
    /\ Keeps

\* list_registry_assets: the lock is kept while what the registry lists is looked up.
List(r) == syncer # "waiting" /\ Goes(r, "list", IF registry = {} THEN "done" ELSE "mempool")

\* lookup_asset: a row of the chain, or else of the mempool.
LockMempool(r) == loop # "update" /\ Goes(r, "mempool", "row")

ReadRow(r) ==
    /\ lookup[r].at = "row" /\ lookup' = [lookup EXCEPT ![r].at = "find", ![r].row = issuanceRow] /\ Keeps

AfterFound(r) == IF lookup[r].list THEN "answer" ELSE "meta"
Find(r) == Goes(r, "find", IF lookup[r].row \/ issued THEN AfterFound(r) ELSE "missing")

\* The metadata, unless it came with the list.
Meta(r) == syncer # "waiting" /\ Goes(r, "meta", "answer")

Answer(r) == Goes(r, "answer", "done")

Request(r) ==
    \/ \E list \in BOOLEAN : Ask(r, list)
    \/ List(r) \/ LockMempool(r) \/ ReadRow(r) \/ Find(r) \/ Meta(r) \/ Answer(r)

Next == Others \/ \E r \in Lookups : Request(r)

----------------------------------------------------------------------------
\* An asset whose issuance was in the index or in the mempool view throughout a request is found, though
\* the two are read one after the other while it is confirmed (asset.rs:377-389).
KnownAssetFound == \A r \in Lookups : lookup[r].at = "missing" => ~lookup[r].known

\* "is only polled periodically for new blocks and for syncing the mempool" (README.md:55-56): the main loop
\* never waits for a lock that no request can release.
Blocked(r) ==
    \/ lookup[r].at = "mempool" /\ loop = "update"
    \/ lookup[r].at \in {"list", "meta"} /\ syncer = "waiting"
Holders == {r \in Lookups : HoldsMempool(r) \/ HoldsRegistry(r)}
SyncerCanGoOn == syncer = "waiting" /\ \A r \in Lookups : ~HoldsRegistry(r)
PollingGoesOn ==
    (loop = "update" /\ \E r \in Lookups : HoldsMempool(r)) => (\E r \in Holders : ~Blocked(r)) \/ SyncerCanGoOn
==============================================================================

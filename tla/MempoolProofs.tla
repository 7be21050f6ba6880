--------------------------- MODULE MempoolProofs ---------------------------
(***************************************************************************)
(* The local view of the mempool stays consistent for any transactions,    *)
(* any number of broadcasting clients and any behaviour of bitcoind.       *)
(***************************************************************************)
EXTENDS Mempool, WellFoundedInduction, TLAPS

\* add and remove keep history and edges in step with txstore.
ViewInvariant == HistoryExact /\ EdgesOwned

\* What Mempool::update remembers as indexed stays indexed until it removes it.
SnapshotIndexed == pc = "evict" => snapshot \subseteq txs

\* Mempool::add of transactions that are not indexed yet.
LEMMA AddKeepsView ==
    ASSUME ViewInvariant, NEW batch, batch \cap txs = {}, AddTxs(batch)
    PROVE  ViewInvariant'
<1>1. HistoryExact'
  BY DEF ViewInvariant, HistoryExact, AddTxs, EntriesOf
<1>2. EdgesOwned'
  <2> SUFFICES ASSUME NEW o \in Outputs, edges'[o] # None
               PROVE  edges'[o] \in txs' /\ o \in Spends[edges'[o]]
    BY DEF EdgesOwned
  <2>1. CASE o \in SpentBy(batch)
    <3>1. \E t \in batch : o \in Spends[t]
      BY <2>1 DEF SpentBy
    <3> QED
      BY <2>1, <3>1 DEF AddTxs
  <2>2. CASE o \notin SpentBy(batch)
    BY <2>2 DEF AddTxs, ViewInvariant, EdgesOwned
  <2> QED
    BY <2>1, <2>2
<1> QED
  BY <1>1, <1>2 DEF ViewInvariant

\* Mempool::remove of any transactions.
LEMMA RemoveKeepsView ==
    ASSUME ViewInvariant, NEW gone, RemoveTxs(gone)
    PROVE  ViewInvariant'
<1>1. HistoryExact'
  BY DEF ViewInvariant, HistoryExact, RemoveTxs, Pruned, EntriesOf
<1>2. EdgesOwned'
  <2> SUFFICES ASSUME NEW o \in Outputs, edges'[o] # None
               PROVE  edges'[o] \in txs' /\ o \in Spends[edges'[o]]
    BY DEF EdgesOwned
  <2>1. edges'[o] = edges[o] /\ ~(o \in SpentBy(gone) /\ edges[o] \in gone)
    BY DEF RemoveTxs, EdgeRemoved
  <2>2. edges[o] \in txs /\ o \in Spends[edges[o]]
    BY <2>1 DEF ViewInvariant, EdgesOwned
  <2>3. edges[o] \notin gone
    BY <2>1, <2>2 DEF SpentBy
  <2> QED
    BY <2>1, <2>2, <2>3 DEF RemoveTxs
<1> QED
  BY <1>1, <1>2 DEF ViewInvariant

\* Every step adds transactions that are not indexed, removes some, or leaves the
\* view alone: the sync and the broadcasts check txstore under the write lock.
LEMMA ViewSteps ==
    ASSUME [Next]_vars
    PROVE  \/ \E batch : batch \cap txs = {} /\ AddTxs(batch)
           \/ \E gone : RemoveTxs(gone)
           \/ UNCHANGED view
<1>1. CASE Sync
  <2>1. CASE AddFetched
    BY ZenonT(60), <2>1 DEF AddFetched, NotIndexed
  <2>2. CASE RemoveEvicted
    BY <2>2 DEF RemoveEvicted
  <2>3. CASE IndexChain \/ IndexAgain \/ ListTxids \/ TakeSnapshot \/ CheckTip
    BY <2>3 DEF IndexChain, IndexAgain, ListTxids, TakeSnapshot, CheckTip
  <2>4. CASE \E t \in Txs : FetchTx(t)
    BY <2>4 DEF FetchTx
  <2> QED
    BY ZenonT(60), <1>1, <2>1, <2>2, <2>3, <2>4 DEF Sync
<1>2. CASE \E c \in Clients : Broadcast(c)
  <2>1. PICK c \in Clients : Broadcast(c)
    BY <1>2
  <2>2. CASE InsertBroadcast(c)
    <3> DEFINE batch == NotIndexed(client[c].have)
    <3>1. batch \cap txs = {} /\ {} \cap txs = {}
      BY DEF NotIndexed
    <3>2. AddTxs(batch) \/ AddTxs({})
      BY <2>2 DEF InsertBroadcast
    <3> QED
      BY <3>1, <3>2
  <2>3. CASE CheckMissing(c) \/ \E t \in Txs : FetchBroadcast(c, t)
    BY ZenonT(60), <2>3 DEF CheckMissing, FetchBroadcast
  <2> QED
    BY <2>1, <2>2, <2>3 DEF Broadcast
<1>3. CASE Environment
  BY ZenonT(60), <1>3 DEF Environment, Relay, Evict, Mine, Disconnect, Submit
<1>4. CASE UNCHANGED vars
  BY <1>4 DEF vars
<1> QED
  BY <1>1, <1>2, <1>3, <1>4 DEF Next

\* Only the sync removes, and it takes a new snapshot for every removal.
LEMMA SnapshotStays ==
    ASSUME SnapshotIndexed, [Next]_vars
    PROVE  SnapshotIndexed'
<1>1. CASE Sync
  <2>1. CASE TakeSnapshot
    BY <2>1 DEF TakeSnapshot, SnapshotIndexed, view
  <2>2. CASE IndexChain \/ IndexAgain \/ ListTxids \/ RemoveEvicted \/ CheckTip \/ AddFetched
    <3>1. pc' # "evict"
      BY <2>2 DEF IndexChain, IndexAgain, ListTxids, RemoveEvicted, CheckTip, AddFetched,
                  Synced, FailedToIndex
    <3> QED
      BY <3>1 DEF SnapshotIndexed
  <2>3. CASE \E t \in Txs : FetchTx(t)
    BY <2>3 DEF FetchTx, SnapshotIndexed
  <2> QED
    BY ZenonT(60), <1>1, <2>1, <2>2, <2>3 DEF Sync
<1>2. CASE \E c \in Clients : Broadcast(c)
  <2>1. PICK c \in Clients : Broadcast(c)
    BY <1>2
  <2>2. pc' = pc /\ snapshot' = snapshot
    BY ZenonT(60), <2>1 DEF Broadcast, CheckMissing, FetchBroadcast, InsertBroadcast, sync, update
  <2>3. txs \subseteq txs'
    BY ZenonT(60), <2>1 DEF Broadcast, CheckMissing, FetchBroadcast, InsertBroadcast, AddTxs, view
  <2> QED
    BY <2>2, <2>3 DEF SnapshotIndexed
<1>3. CASE Environment
  BY ZenonT(60), <1>3 DEF Environment, Relay, Evict, Mine, Disconnect, Submit, SnapshotIndexed, view, sync, update
<1>4. CASE UNCHANGED vars
  BY <1>4 DEF vars, SnapshotIndexed, view, sync, update
<1> QED
  BY ZenonT(60), <1>1, <1>2, <1>3, <1>4 DEF Next

\* History and edges stay in step with txstore.
LEMMA ViewConsistent == Spec => []ViewInvariant
<1>1. Init => ViewInvariant
  BY DEF Init, ViewInvariant, HistoryExact, EdgesOwned
<1>2. ViewInvariant /\ [Next]_vars => ViewInvariant'
  <2>1. ASSUME ViewInvariant, UNCHANGED view
        PROVE  ViewInvariant'
    BY <2>1 DEF view, ViewInvariant, HistoryExact, EdgesOwned
  <2> QED
    BY <2>1, ViewSteps, AddKeepsView, RemoveKeepsView
<1> QED
  BY <1>1, <1>2, PTL DEF Spec

\* Whatever bitcoind does and however broadcasts race with the sync, the history
\* has every entry of an indexed transaction once and no other, so that the
\* assertion of prune_history_entries holds.
THEOREM HistoryAlwaysExact == Spec => []HistoryExact
<1>1. ViewInvariant => HistoryExact
  BY DEF ViewInvariant
<1> QED
  BY <1>1, ViewConsistent, PTL

\* A spend that Mempool::lookup_spend reports is by an indexed transaction that does
\* spend the output.
THEOREM EdgesAlwaysOwned == Spec => []EdgesOwned
<1>1. ViewInvariant => EdgesOwned
  BY DEF ViewInvariant
<1> QED
  BY <1>1, ViewConsistent, PTL

\* Mempool::remove finds every transaction it is given.
THEOREM RemoveNeverPanics == Spec => []RemovesIndexed
<1>1. Init => SnapshotIndexed
  BY DEF Init, SnapshotIndexed
<1>2. SnapshotIndexed /\ [Next]_vars => SnapshotIndexed'
  BY SnapshotStays
<1>3. SnapshotIndexed => RemovesIndexed
  BY DEF SnapshotIndexed, RemovesIndexed, Evicted
<1> QED
  BY <1>1, <1>2, <1>3, PTL DEF Spec

\* add and remove never drop the edge of a transaction that stays indexed.
THEOREM EdgesAlwaysKept == Spec => EdgesKept
<1>1. [Next]_vars => [\A o \in Outputs : edges[o] \in txs' => edges'[o] \in txs']_vars
  <2> SUFFICES ASSUME [Next]_vars, NEW o \in Outputs, edges[o] \in txs'
               PROVE  edges'[o] \in txs'
    OBVIOUS
  <2>1. ASSUME NEW batch, AddTxs(batch)
        PROVE  edges'[o] \in txs'
    <3>1. CASE o \in SpentBy(batch)
      <4>1. \E t \in batch : o \in Spends[t]
        BY <3>1 DEF SpentBy
      <4> QED
        BY <2>1, <3>1, <4>1 DEF AddTxs
    <3>2. CASE o \notin SpentBy(batch)
      BY <2>1, <3>2 DEF AddTxs
    <3> QED
      BY <3>1, <3>2
  <2>2. ASSUME NEW gone, RemoveTxs(gone)
        PROVE  edges'[o] \in txs'
    BY <2>2 DEF RemoveTxs, EdgeRemoved
  <2>3. CASE UNCHANGED view
    BY <2>3 DEF view
  <2> QED
    BY ViewSteps, <2>1, <2>2, <2>3
<1> QED
  BY <1>1, PTL DEF Spec, EdgesKept

----------------------------------------------------------------------------
(* The failed syncs *)

\* The blocks that bitcoind disconnected.
Disconnected == MaxDisconnects - budget.disconnect

\* Relayed transactions have their parents: in bitcoind's mempool or in its chain.
PoolWhole == \A t \in pool : Spends[t] \subseteq pool \cup Confirmed(chain)

\* The transactions of a block have their parents in it or in a block below.
BlocksWhole(blocks) ==
    \A i \in 1..Len(blocks) : \A t \in blocks[i] : \A o \in Spends[t] :
        o \in Coins \/ \E j \in 1..i : o \in blocks[j]

\* What the sync knows of the transactions that it listed, until one more block is
\* disconnected than syncs failed: their parents were listed too, or are in the chain, and
\* after the check of the tip in txstore_db.
ListedWhole ==
    failures = Disconnected =>
        /\ pc \in {"snapshot", "evict", "fetch"} => \A t \in listed : Spends[t] \subseteq listed \cup Confirmed(chain)
        /\ pc = "add" => \A t \in listed : Spends[t] \subseteq listed \cup stored

\* What Mempool::update listed is indexed, to be fetched, fetched, or was not found.
ListedKnown ==
    /\ pc \notin {"fetch", "add"} => fetched = {}
    /\ pc \in {"fetch", "add"} => fetched \subseteq listed \ snapshot /\ snapshot \cap listed \subseteq txs
    /\ pc = "fetch" => asked \subseteq listed \ snapshot

Budgets == [relay : Nat, evict : Nat, block : Nat, disconnect : Nat, submit : Nat, index : Nat]

SyncTypes ==
    /\ pool \subseteq Txs /\ chain \in Seq(SUBSET Txs) /\ budget \in Budgets /\ failures \in Nat
    /\ BlocksWhole(chain)

FailureInvariant ==
    /\ SyncTypes /\ PoolWhole /\ Confirmed(tip) \subseteq stored
    /\ SnapshotIndexed /\ ListedKnown /\ ListedWhole /\ FailuresNeedReorgs

\* The transactions that spend from a set, directly or not, include those that spend
\* from one of them.
LEMMA DownstreamClosed ==
    ASSUME NEW D, NEW S, NEW t \in S, Spends[t] \cap (D \cup Downstream(D, S)) # {}
    PROVE  t \in Downstream(D, S)
<1> DEFINE Closed(C) == \A u \in S : Spends[u] \cap (D \cup C) # {} => u \in C
<1> SUFFICES ASSUME NEW C \in SUBSET S, Closed(C)
             PROVE  t \in C
  BY ZenonT(60) DEF Downstream
<1>1. Downstream(D, S) \subseteq C
  BY ZenonT(60) DEF Downstream
<1> QED
  BY ZenonT(60), <1>1

\* What is downstream is a part of where it is looked for.
LEMMA DownstreamWithin ==
    ASSUME NEW D, NEW S
    PROVE  Downstream(D, S) \subseteq S
  BY ZenonT(60) DEF Downstream

\* A set that has the parents of its transactions, in it or confirmed, still has them
\* without some transactions and all that spend from them.
LEMMA DropWhole ==
    ASSUME NEW p, NEW conf, \A t \in p : Spends[t] \subseteq p \cup conf, NEW D
    PROVE  \A t \in p \ (D \cup Downstream(D, p)) : Spends[t] \subseteq (p \ (D \cup Downstream(D, p))) \cup conf
<1> SUFFICES ASSUME NEW t \in p \ (D \cup Downstream(D, p)), NEW o \in Spends[t], o \notin conf
             PROVE  o \in p \ (D \cup Downstream(D, p))
  BY ZenonT(60)
<1>1. o \in p
  BY ZenonT(60)
<1>2. o \notin D \cup Downstream(D, p)
  BY ZenonT(60), DownstreamClosed
<1> QED
  BY ZenonT(60), <1>1, <1>2

\* Accepting a transaction, or not, keeps bitcoind's mempool whole.
LEMMA AcceptWhole ==
    ASSUME NEW p \in SUBSET Txs, NEW t \in Txs, \A u \in p : Spends[u] \subseteq p \cup Confirmed(chain)
    PROVE  /\ AfterAccept(p, t) \in SUBSET Txs
           /\ \A u \in AfterAccept(p, t) : Spends[u] \subseteq AfterAccept(p, t) \cup Confirmed(chain)
<1> DEFINE replaced == {u \in p : Spends[u] \cap Spends[t] # {}}
<1>1. Survivors(p, t) = p \ (replaced \cup Downstream(replaced, p))
  BY ZenonT(60) DEF Survivors
<1> HIDE DEF replaced
<1>2. \A u \in Survivors(p, t) : Spends[u] \subseteq Survivors(p, t) \cup Confirmed(chain)
  BY ZenonT(60), <1>1, DropWhole
<1>3. Survivors(p, t) \subseteq p
  BY ZenonT(60), <1>1
<1>4. CASE Acceptable(p, t)
  <2>1. Spends[t] \subseteq Survivors(p, t) \cup Confirmed(chain)
    BY ZenonT(60), <1>4 DEF Acceptable
  <2>2. AfterAccept(p, t) = Survivors(p, t) \cup {t}
    BY ZenonT(60), <1>4 DEF AfterAccept
  <2> QED
    BY ZenonT(60), <1>2, <1>3, <2>1, <2>2
<1>5. CASE ~Acceptable(p, t)
  BY ZenonT(60), <1>5 DEF AfterAccept
<1> QED
  BY <1>4, <1>5

\* A nonempty set of natural numbers has a least element.
LEMMA LeastNat ==
    ASSUME NEW S, S \subseteq Nat, S # {}
    PROVE  \E n \in S : \A m \in S : n <= m
<1>1. PICK n \in S : \A m \in S : ~ (<<m, n>> \in OpToRel(<, Nat))
  BY ZenonT(60), NatLessThanWellFounded, WFMin
<1>2. \A m \in S : ~ (m < n)
  BY ZenonT(60), <1>1 DEF OpToRel
<1> QED
  BY <1>2

\* The mempools after each transaction of a package, up to the n-th.
UpTo(package, n, f) ==
    f = [i \in 0..n |-> IF i = 0 THEN pool ELSE AfterAccept(f[i - 1], package[i])]

\* bitcoind takes a package one transaction after the other: the recursion is well-defined.
LEMMA PoolsDefined ==
    ASSUME NEW package, Len(package) \in Nat
    PROVE  UpTo(package, Len(package), PoolsAfter(package))
<1> DEFINE bad == {n \in Nat : ~ \E f : UpTo(package, n, f)}
<1>1. 0 \notin bad
  <2>1. UpTo(package, 0, [i \in 0..0 |-> pool])
    BY DEF UpTo
  <2> QED
    BY <2>1
<1>2. ASSUME NEW n \in Nat, n \notin bad
      PROVE  n + 1 \notin bad
  <2>1. PICK f : UpTo(package, n, f)
    BY <1>2
  <2> DEFINE last == AfterAccept(f[n], package[n + 1])
             g == [i \in 0..(n + 1) |-> IF i = n + 1 THEN last ELSE f[i]]
  <2>2. ASSUME NEW i \in 0..(n + 1)
        PROVE  g[i] = IF i = 0 THEN pool ELSE AfterAccept(g[i - 1], package[i])
    <3>1. CASE i = n + 1
      <4>1. g[i] = AfterAccept(f[n], package[n + 1]) /\ i # 0 /\ i - 1 = n /\ g[n] = f[n]
        BY <3>1
      <4> QED
        BY <3>1, <4>1
    <3>2. CASE i # n + 1
      <4>1. i \in 0..n /\ g[i] = f[i] /\ (i # 0 => g[i - 1] = f[i - 1])
        BY <3>2
      <4>2. f[i] = IF i = 0 THEN pool ELSE AfterAccept(f[i - 1], package[i])
        BY ZenonT(60), <2>1, <4>1 DEF UpTo
      <4> QED
        BY <4>1, <4>2
    <3> QED
      BY <3>1, <3>2
  <2>3. g = [i \in 0..(n + 1) |-> g[i]]
    OBVIOUS
  <2> HIDE DEF g
  <2>4. UpTo(package, n + 1, g)
    BY <2>2, <2>3 DEF UpTo
  <2> QED
    BY <2>4
<1>3. bad = {}
  <2> SUFFICES ASSUME bad # {} PROVE FALSE
    OBVIOUS
  <2>1. PICK n \in bad : \A m \in bad : n <= m
    BY ZenonT(60), LeastNat
  <2>2. n \in Nat /\ n # 0
    BY <1>1
  <2> HIDE DEF bad
  <2>3. n - 1 \in Nat /\ n - 1 \notin bad /\ (n - 1) + 1 = n
    BY <2>1, <2>2
  <2> QED
    BY ZenonT(60), <1>2, <2>1, <2>3
<1>4. \E f : UpTo(package, Len(package), f)
  BY <1>3
<1> QED
  BY ZenonT(60), <1>4 DEF UpTo, PoolsAfter

\* sendrawtransaction and submitpackage keep bitcoind's mempool whole.
LEMMA SubmitWhole ==
    ASSUME NEW package \in Seq(Txs), pool \subseteq Txs, PoolWhole
    PROVE  /\ AfterSubmit(package) \in SUBSET Txs
           /\ \A u \in AfterSubmit(package) : Spends[u] \subseteq AfterSubmit(package) \cup Confirmed(chain)
<1> DEFINE Whole(p) == p \in SUBSET Txs /\ \A u \in p : Spends[u] \subseteq p \cup Confirmed(chain)
           last == Len(package)
           after == PoolsAfter(package)
           bad == {n \in 0..last : ~ Whole(after[n])}
<1>1. last \in Nat /\ \A i \in 1..last : package[i] \in Txs
  OBVIOUS
<1>2. after = [i \in 0..last |-> IF i = 0 THEN pool ELSE AfterAccept(after[i - 1], package[i])]
  BY <1>1, PoolsDefined DEF UpTo
<1> HIDE DEF after, last
<1>3. after[0] = pool /\ \A i \in 1..last : after[i] = AfterAccept(after[i - 1], package[i])
  BY <1>1, <1>2
<1>4. Whole(after[0])
  BY ZenonT(60), <1>3 DEF PoolWhole
<1>5. ASSUME NEW i \in 1..last, Whole(after[i - 1])
      PROVE  Whole(after[i])
  <2>1. PICK p : p = after[i - 1]
    OBVIOUS
  <2>2. Whole(AfterAccept(p, package[i]))
    BY ZenonT(60), <1>1, <1>5, <2>1, AcceptWhole
  <2> HIDE DEF Whole
  <2> QED
    BY ZenonT(60), <1>3, <2>1, <2>2
<1> HIDE DEF Whole
<1>6. bad = {}
  <2> SUFFICES ASSUME bad # {} PROVE FALSE
    OBVIOUS
  <2>1. bad \subseteq Nat
    BY <1>1
  <2>2. PICK n \in bad : \A m \in bad : n <= m
    BY ZenonT(60), <2>1, LeastNat
  <2>3. n \in 0..last /\ ~ Whole(after[n])
    OBVIOUS
  <2>4. n # 0
    BY <1>4, <2>3
  <2>5. n \in 1..last /\ n - 1 \in 0..last /\ n - 1 \notin bad
    BY <1>1, <2>1, <2>2, <2>3, <2>4
  <2>6. Whole(after[n - 1])
    BY ZenonT(60), <2>5
  <2> QED
    BY ZenonT(60), <1>5, <2>3, <2>5, <2>6
<1>7. Whole(after[last])
  BY <1>1, <1>6
<1> QED
  BY <1>7 DEF Whole, AfterSubmit, after, last

\* A chain with one more block.
LEMMA ChainGrows ==
    ASSUME NEW S, NEW blocks \in Seq(S), NEW block \in S
    PROVE  /\ Append(blocks, block) \in Seq(S)
           /\ Len(blocks) \in Nat /\ Len(Append(blocks, block)) = Len(blocks) + 1
           /\ Append(blocks, block)[Len(blocks) + 1] = block
           /\ \A i \in 1..Len(blocks) : Append(blocks, block)[i] = blocks[i]
  OBVIOUS

\* A chain without its last block.
LEMMA ChainShrinks ==
    ASSUME NEW S, NEW blocks \in Seq(S), blocks # <<>>
    PROVE  /\ WithoutTop(blocks) \in Seq(S) /\ TopBlock(blocks) = blocks[Len(blocks)]
           /\ Len(blocks) \in Nat \ {0} /\ Len(WithoutTop(blocks)) = Len(blocks) - 1
           /\ \A i \in 1..(Len(blocks) - 1) : WithoutTop(blocks)[i] = blocks[i]
<1>1. Len(blocks) \in Nat \ {0} /\ TopBlock(blocks) = blocks[Len(blocks)]
  BY DEF TopBlock
<1>2. \A i \in 1..(Len(blocks) - 1) : blocks[i] \in S
  BY <1>1
<1>3. WithoutTop(blocks) = [i \in 1..(Len(blocks) - 1) |-> blocks[i]]
  BY <1>1 DEF WithoutTop
<1>4. Len(WithoutTop(blocks)) = Len(blocks) - 1 /\ WithoutTop(blocks) \in Seq(S)
  BY <1>1, <1>2, <1>3
<1> QED
  BY ZenonT(60), <1>1, <1>3, <1>4

\* What is confirmed by a chain.
LEMMA ConfirmedBy ==
    ASSUME NEW blocks \in Seq(SUBSET Txs), NEW o
    PROVE  o \in Confirmed(blocks) <=> o \in Coins \/ \E i \in 1..Len(blocks) : o \in blocks[i]
<1>1. Range(blocks) = {blocks[i] : i \in 1..Len(blocks)}
  BY DEF Range
<1> QED
  BY ZenonT(60), <1>1 DEF Confirmed

\* A block is mined: what it confirms, and that its transactions have their parents.
LEMMA MineWhole ==
    ASSUME NEW blocks \in Seq(SUBSET Txs), BlocksWhole(blocks), NEW block \in SUBSET Txs,
           \A t \in block : Spends[t] \subseteq block \cup Confirmed(blocks)
    PROVE  /\ Append(blocks, block) \in Seq(SUBSET Txs) /\ BlocksWhole(Append(blocks, block))
           /\ Confirmed(Append(blocks, block)) = Confirmed(blocks) \cup block
<1>1. PICK S : S = SUBSET Txs
  BY ZenonT(60)
<1>2. PICK more \in Seq(S) : more = Append(blocks, block)
  BY ZenonT(60), <1>1, ChainGrows
<1>3. PICK n \in Nat : n = Len(blocks)
  BY ZenonT(60), <1>1, ChainGrows
<1>4. Len(more) = n + 1 /\ more[n + 1] = block /\ \A i \in 1..n : more[i] = blocks[i]
  <2>1. /\ Len(Append(blocks, block)) = Len(blocks) + 1 /\ Append(blocks, block)[Len(blocks) + 1] = block
        /\ \A i \in 1..Len(blocks) : Append(blocks, block)[i] = blocks[i]
    <3>1. blocks \in Seq(S) /\ block \in S
      BY ZenonT(60), <1>1
    <3> QED
      BY <3>1, ChainGrows
  <2> QED
    BY ZenonT(60), <1>2, <1>3, <2>1
<1>5. ASSUME NEW o
      PROVE  o \in Confirmed(more) <=> o \in Confirmed(blocks) \cup block
  <2>1. (\E i \in 1..Len(more) : o \in more[i]) <=> (\E i \in 1..n : o \in blocks[i]) \/ o \in block
    BY <1>4
  <2> QED
    BY ZenonT(60), <1>1, <1>2, <1>3, <2>1, ConfirmedBy
<1>6. BlocksWhole(more)
  <2> SUFFICES ASSUME NEW i \in 1..Len(more), NEW t \in more[i], NEW o \in Spends[t], o \notin Coins
               PROVE  \E j \in 1..i : o \in more[j]
    BY ZenonT(60) DEF BlocksWhole
  <2>1. CASE i \in 1..n
    <3>1. \E j \in 1..i : o \in blocks[j]
      BY ZenonT(60), <1>3, <1>4, <2>1 DEF BlocksWhole
    <3> QED
      BY <1>4, <2>1, <3>1
  <2>2. CASE i = n + 1
    <3>1. o \in block \/ \E j \in 1..n : o \in blocks[j]
      BY ZenonT(60), <1>3, <1>4, <2>2, ConfirmedBy
    <3> QED
      BY <1>4, <2>2, <3>1
  <2> QED
    BY <1>4, <2>1, <2>2
<1> QED
  BY ZenonT(60), <1>1, <1>2, <1>5, <1>6

\* A block is disconnected: its transactions have their parents in it or still confirmed.
LEMMA DisconnectWhole ==
    ASSUME NEW blocks \in Seq(SUBSET Txs), BlocksWhole(blocks), blocks # <<>>
    PROVE  /\ WithoutTop(blocks) \in Seq(SUBSET Txs) /\ BlocksWhole(WithoutTop(blocks)) /\ TopBlock(blocks) \in SUBSET Txs
           /\ Confirmed(blocks) \subseteq Confirmed(WithoutTop(blocks)) \cup TopBlock(blocks)
           /\ \A t \in TopBlock(blocks) : Spends[t] \subseteq Confirmed(WithoutTop(blocks)) \cup TopBlock(blocks)
<1>1. PICK S : S = SUBSET Txs
  BY ZenonT(60)
<1>2. PICK less \in Seq(S) : less = WithoutTop(blocks)
  BY ZenonT(60), <1>1, ChainShrinks
<1>3. PICK n \in Nat : n = Len(blocks) /\ n # 0
  BY ZenonT(60), <1>1, ChainShrinks
<1>4. Len(less) = n - 1 /\ TopBlock(blocks) = blocks[n] /\ \A i \in 1..(n - 1) : less[i] = blocks[i]
  <2>1. /\ TopBlock(blocks) = blocks[Len(blocks)] /\ Len(WithoutTop(blocks)) = Len(blocks) - 1
        /\ \A i \in 1..(Len(blocks) - 1) : WithoutTop(blocks)[i] = blocks[i]
    BY ZenonT(60), <1>1, ChainShrinks
  <2> QED
    BY ZenonT(60), <1>2, <1>3, <2>1
<1>5. TopBlock(blocks) \in SUBSET Txs
  BY <1>3, <1>4
<1>6. ASSUME NEW o, o \in Coins \/ \E j \in 1..n : o \in blocks[j]
      PROVE  o \in Confirmed(less) \cup TopBlock(blocks)
  <2>1. o \in Coins \/ o \in blocks[n] \/ \E j \in 1..(n - 1) : o \in less[j]
    BY <1>4, <1>6
  <2> QED
    BY ZenonT(60), <1>1, <1>4, <2>1, ConfirmedBy
<1>7. Confirmed(blocks) \subseteq Confirmed(less) \cup TopBlock(blocks)
  BY ZenonT(60), <1>3, <1>6, ConfirmedBy
<1>8. \A t \in TopBlock(blocks) : Spends[t] \subseteq Confirmed(less) \cup TopBlock(blocks)
  <2> SUFFICES ASSUME NEW t \in blocks[n], NEW o \in Spends[t]
               PROVE  o \in Confirmed(less) \cup TopBlock(blocks)
    BY ZenonT(60), <1>4
  <2>1. n \in 1..Len(blocks)
    BY <1>3
  <2> QED
    BY ZenonT(60), <1>6, <2>1 DEF BlocksWhole
<1>9. BlocksWhole(less)
  <2> SUFFICES ASSUME NEW i \in 1..Len(less), NEW t \in less[i], NEW o \in Spends[t], o \notin Coins
               PROVE  \E j \in 1..i : o \in less[j]
    BY ZenonT(60) DEF BlocksWhole
  <2>1. i \in 1..(n - 1) /\ i \in 1..Len(blocks) /\ t \in blocks[i]
    BY <1>3, <1>4
  <2>2. PICK j \in 1..i : o \in blocks[j]
    BY ZenonT(60), <2>1 DEF BlocksWhole
  <2> QED
    BY <1>4, <2>1, <2>2
<1> QED
  BY ZenonT(60), <1>1, <1>2, <1>5, <1>7, <1>8, <1>9

\* The disconnected blocks are a number.
LEMMA DisconnectedInt ==
    ASSUME budget \in Budgets
    PROVE  Disconnected \in Int
<1>1. MaxDisconnects \in Nat
  BY ZenonT(60), MempoolAssumption
<1>2. budget.disconnect \in Nat
  BY ZenonT(60) DEF Budgets
<1> QED
  BY <1>1, <1>2 DEF Disconnected

\* Everything that happens counts one event, a disconnection only a disconnection.
LEMMA SpendOne ==
    ASSUME budget \in Budgets,
           NEW what \in {"relay", "evict", "block", "submit", "index", "disconnect"}, Spend(what)
    PROVE  /\ budget' \in Budgets
           /\ Disconnected' = IF what = "disconnect" THEN Disconnected + 1 ELSE Disconnected
<1>1. MaxDisconnects \in Nat
  BY ZenonT(60), MempoolAssumption
<1>2. CASE what = "disconnect"
  BY SMTT(60), <1>1, <1>2 DEF Spend, Budgets, Disconnected
<1>3. CASE what # "disconnect"
  BY SMTT(60), <1>1, <1>3 DEF Spend, Budgets, Disconnected
<1> QED
  BY ZenonT(60), <1>2, <1>3

\* bitcoind's mempool stays whole, and its chain only grows or loses a block, which is
\* counted.
LEMMA EnvironmentWhole ==
    ASSUME SyncTypes, PoolWhole, Environment
    PROVE  /\ SyncTypes' /\ PoolWhole'
           /\ \/ Disconnected' = Disconnected + 1
              \/ Disconnected' = Disconnected /\ Confirmed(chain) \subseteq Confirmed(chain')
           /\ UNCHANGED <<index, view, sync>>
<1>1. UNCHANGED <<index, view, sync>> /\ failures' = failures
  BY ZenonT(60) DEF Environment, Relay, Evict, Mine, Disconnect, Submit, sync
<1>2. pool \in SUBSET Txs /\ budget \in Budgets /\ chain \in Seq(SUBSET Txs) /\ failures \in Nat /\ BlocksWhole(chain)
  BY DEF SyncTypes
<1>3. ASSUME NEW p \in SUBSET Txs, pool' = p, chain' = chain,
             \A t \in p : Spends[t] \subseteq p \cup Confirmed(chain),
             NEW what \in {"relay", "evict", "submit"}, Spend(what)
      PROVE  /\ SyncTypes' /\ PoolWhole'
             /\ Disconnected' = Disconnected /\ Confirmed(chain) \subseteq Confirmed(chain')
  <2>1. budget' \in Budgets /\ Disconnected' = Disconnected
    BY ZenonT(60), <1>2, <1>3, SpendOne
  <2>2. Confirmed(chain') = Confirmed(chain)
    BY ZenonT(60), <1>3
  <2>3. PoolWhole'
    BY ZenonT(60), <1>3, <2>2 DEF PoolWhole
  <2>4. SyncTypes'
    BY ZenonT(60), <1>1, <1>2, <1>3, <2>1 DEF SyncTypes, BlocksWhole
  <2> QED
    BY ZenonT(60), <2>1, <2>2, <2>3, <2>4
<1>4. ASSUME NEW t \in Txs, Relay(t)
      PROVE  /\ SyncTypes' /\ PoolWhole'
             /\ Disconnected' = Disconnected /\ Confirmed(chain) \subseteq Confirmed(chain')
  <2>1. pool' = AfterAccept(pool, t) /\ chain' = chain /\ Spend("relay")
    BY ZenonT(60), <1>4 DEF Relay
  <2>2. PICK p : p = AfterAccept(pool, t)
    OBVIOUS
  <2>3. p \in SUBSET Txs /\ \A u \in p : Spends[u] \subseteq p \cup Confirmed(chain)
    BY ZenonT(60), <1>2, <2>2, AcceptWhole DEF PoolWhole
  <2> QED
    BY ZenonT(60), <1>3, <2>1, <2>2, <2>3
<1>5. ASSUME NEW t \in Txs, Evict(t)
      PROVE  /\ SyncTypes' /\ PoolWhole'
             /\ Disconnected' = Disconnected /\ Confirmed(chain) \subseteq Confirmed(chain')
  <2>1. pool' = pool \ ({t} \cup Downstream({t}, pool)) /\ chain' = chain /\ Spend("evict")
    BY ZenonT(60), <1>5 DEF Evict
  <2>2. PICK p : p = pool \ ({t} \cup Downstream({t}, pool))
    BY ZenonT(60)
  <2>3. PICK gone : gone = {t}
    BY ZenonT(60)
  <2>4. \A u \in pool \ (gone \cup Downstream(gone, pool)) :
           Spends[u] \subseteq (pool \ (gone \cup Downstream(gone, pool))) \cup Confirmed(chain)
    BY ZenonT(60), DropWhole DEF PoolWhole
  <2>5. p = pool \ (gone \cup Downstream(gone, pool))
    BY ZenonT(60), <2>2, <2>3
  <2>6. p \in SUBSET Txs /\ \A u \in p : Spends[u] \subseteq p \cup Confirmed(chain)
    BY ZenonT(60), <1>2, <2>4, <2>5
  <2> QED
    BY ZenonT(60), <1>3, <2>1, <2>2, <2>6
<1>6. ASSUME NEW block \in SUBSET pool, Mine(block)
      PROVE  /\ SyncTypes' /\ PoolWhole'
             /\ Disconnected' = Disconnected /\ Confirmed(chain) \subseteq Confirmed(chain')
  <2>1. pool' = pool \ block /\ chain' = Append(chain, block) /\ Spend("block") /\ block \in SUBSET Txs
    BY ZenonT(60), <1>2, <1>6 DEF Mine
  <2>2. /\ Confirmed(chain') = Confirmed(chain) \cup block
        /\ chain' \in Seq(SUBSET Txs) /\ BlocksWhole(chain')
    BY ZenonT(60), <1>2, <1>6, <2>1, MineWhole DEF Mine
  <2>3. budget' \in Budgets /\ Disconnected' = Disconnected
    BY ZenonT(60), <1>2, <2>1, SpendOne
  <2>4. PoolWhole'
    BY ZenonT(60), <2>1, <2>2 DEF PoolWhole
  <2>5. SyncTypes'
    BY ZenonT(60), <1>1, <1>2, <2>1, <2>2, <2>3 DEF SyncTypes, BlocksWhole
  <2> QED
    BY ZenonT(60), <2>2, <2>3, <2>4, <2>5
<1>7. ASSUME Disconnect
      PROVE  SyncTypes' /\ PoolWhole' /\ Disconnected' = Disconnected + 1
  <2>1. chain # <<>> /\ pool' = pool \cup TopBlock(chain) /\ chain' = WithoutTop(chain) /\ Spend("disconnect")
    BY ZenonT(60), <1>7 DEF Disconnect
  <2>2. /\ chain' \in Seq(SUBSET Txs) /\ TopBlock(chain) \in SUBSET Txs
        /\ BlocksWhole(chain')
        /\ Confirmed(chain) \subseteq Confirmed(chain') \cup TopBlock(chain)
        /\ \A t \in TopBlock(chain) : Spends[t] \subseteq Confirmed(chain') \cup TopBlock(chain)
    BY ZenonT(60), <1>2, <2>1, DisconnectWhole
  <2>3. budget' \in Budgets /\ Disconnected' = Disconnected + 1
    BY ZenonT(60), <1>2, <2>1, SpendOne
  <2>4. PoolWhole'
    <3> SUFFICES ASSUME NEW t \in pool', NEW o \in Spends[t], o \notin Confirmed(chain')
                 PROVE  o \in pool'
      BY ZenonT(60) DEF PoolWhole
    <3>1. CASE t \in pool
      BY ZenonT(60), <2>1, <2>2, <3>1 DEF PoolWhole
    <3>2. CASE t \in TopBlock(chain)
      BY ZenonT(60), <2>1, <2>2, <3>2
    <3> QED
      BY ZenonT(60), <2>1, <3>1, <3>2
  <2>5. SyncTypes'
    BY ZenonT(60), <1>1, <1>2, <2>1, <2>2, <2>3 DEF SyncTypes, BlocksWhole
  <2> QED
    BY ZenonT(60), <2>3, <2>4, <2>5
<1>8. ASSUME NEW c \in Clients, NEW package \in Packages, NEW known \in SUBSET Range(package),
             Submit(c, package, known)
      PROVE  /\ SyncTypes' /\ PoolWhole'
             /\ Disconnected' = Disconnected /\ Confirmed(chain) \subseteq Confirmed(chain')
  <2>1. pool' = AfterSubmit(package) /\ chain' = chain /\ Spend("submit") /\ package \in Seq(Txs)
    BY ZenonT(60), <1>8, MempoolAssumption DEF Submit
  <2>2. PICK p : p = AfterSubmit(package)
    BY ZenonT(60)
  <2>3. p \in SUBSET Txs /\ \A u \in p : Spends[u] \subseteq p \cup Confirmed(chain)
    BY ZenonT(60), <1>2, <2>1, <2>2, SubmitWhole
  <2> QED
    BY ZenonT(60), <1>3, <2>1, <2>2, <2>3
<1> QED
  BY ZenonT(60), <1>1, <1>4, <1>5, <1>6, <1>7, <1>8 DEF Environment

\* The start: nothing is listed, nothing failed.
LEMMA InitFailures == Init => FailureInvariant
<1> SUFFICES ASSUME Init PROVE FailureInvariant
  BY ZenonT(60)
<1>1. /\ pool = {} /\ chain = <<>> /\ tip = <<>> /\ stored = Coins /\ pc = "wait" /\ failures = 0
      /\ fetched = {}
      /\ budget = [relay |-> MaxRelays, evict |-> MaxEvictions, block |-> MaxBlocks,
                   disconnect |-> MaxDisconnects, submit |-> MaxSubmits, index |-> MaxIndexFailures]
  BY ZenonT(60) DEF Init
<1>2. budget \in Budgets /\ Disconnected = 0 /\ MaxDisconnects \in Nat
  BY SMTT(60), <1>1, MempoolAssumption DEF Budgets, Disconnected
<1>3. <<>> \in Seq(SUBSET Txs) /\ Len(<<>>) = 0
  OBVIOUS
<1>4. Confirmed(<<>>) \subseteq Coins /\ BlocksWhole(<<>>)
  <2>1. ASSUME NEW o, o \in Confirmed(<<>>) PROVE o \in Coins
    <3>1. o \in Coins \/ \E i \in 1..Len(<<>>) : o \in <<>>[i]
      BY ZenonT(60), <1>3, <2>1, ConfirmedBy
    <3> QED
      BY <1>3, <3>1
  <2>2. BlocksWhole(<<>>)
    BY <1>3 DEF BlocksWhole
  <2> QED
    BY ZenonT(60), <2>1, <2>2
<1>5. SyncTypes
  BY ZenonT(60), <1>1, <1>2, <1>3, <1>4 DEF SyncTypes
<1>6. PoolWhole /\ Confirmed(tip) \subseteq stored
  BY ZenonT(60), <1>1, <1>4 DEF PoolWhole
<1>7. SnapshotIndexed /\ ListedKnown /\ ListedWhole
  BY ZenonT(60), <1>1 DEF SnapshotIndexed, ListedKnown, ListedWhole
<1>8. FailuresNeedReorgs
  BY <1>1, <1>2 DEF FailuresNeedReorgs, Disconnected
<1> QED
  BY ZenonT(60), <1>5, <1>6, <1>7, <1>8 DEF FailureInvariant

\* Failures that do not exceed the disconnected blocks.
LEMMA WithinCount ==
    ASSUME NEW f \in Nat, NEW d \in Int, f <= d
    PROVE  /\ f <= d + 1 /\ f # d + 1 /\ 0 \in Nat /\ 0 <= d
           /\ f # d => f + 1 \in Nat /\ f + 1 <= d
  OBVIOUS

\* bitcoind moves: what the sync knows stays true, or one more block is disconnected.
LEMMA EnvironmentFailures ==
    ASSUME FailureInvariant, Environment
    PROVE  FailureInvariant'
<1>1. /\ SyncTypes' /\ PoolWhole' /\ UNCHANGED <<index, view, sync>>
      /\ \/ Disconnected' = Disconnected + 1
         \/ Disconnected' = Disconnected /\ Confirmed(chain) \subseteq Confirmed(chain')
  BY ZenonT(60), EnvironmentWhole DEF FailureInvariant
<1>2. UNCHANGED <<tip, stored, txs, pc, failures, listed, snapshot, asked, fetched>>
  BY ZenonT(60), <1>1 DEF index, view, sync, update
<1>3. /\ SyncTypes /\ Confirmed(tip) \subseteq stored /\ SnapshotIndexed /\ ListedKnown /\ ListedWhole
      /\ failures <= Disconnected
  BY ZenonT(60) DEF FailureInvariant, FailuresNeedReorgs, Disconnected
<1>4. Confirmed(tip') \subseteq stored' /\ SnapshotIndexed' /\ ListedKnown'
  BY ZenonT(60), <1>2, <1>3 DEF SnapshotIndexed, ListedKnown
<1>5. failures \in Nat /\ Disconnected \in Int
  BY ZenonT(60), <1>3, DisconnectedInt DEF SyncTypes
<1>6. CASE Disconnected' = Disconnected + 1
  <2>1. failures' <= Disconnected' /\ failures' # Disconnected'
    BY ZenonT(60), <1>2, <1>3, <1>5, <1>6, WithinCount
  <2>2. FailuresNeedReorgs' /\ ListedWhole'
    BY ZenonT(60), <2>1 DEF FailuresNeedReorgs, Disconnected, ListedWhole
  <2> QED
    BY ZenonT(60), <1>1, <1>4, <2>2 DEF FailureInvariant
<1>7. CASE Disconnected' = Disconnected /\ Confirmed(chain) \subseteq Confirmed(chain')
  <2>1. FailuresNeedReorgs'
    BY ZenonT(60), <1>2, <1>3, <1>7 DEF FailuresNeedReorgs, Disconnected
  <2>2. ListedWhole'
    BY ZenonT(60), <1>2, <1>3, <1>7 DEF ListedWhole
  <2> QED
    BY ZenonT(60), <1>1, <1>4, <2>1, <2>2 DEF FailureInvariant
<1> QED
  BY ZenonT(60), <1>1, <1>6, <1>7

\* What a step of electrs leaves alone of bitcoind.
Apart == UNCHANGED <<pool, chain>> /\ budget' \in Budgets /\ Disconnected' = Disconnected

\* A step of electrs that keeps the count of failures keeps the invariant when it keeps
\* what the sync knows.
LEMMA ApartKeeps ==
    ASSUME FailureInvariant, Apart, Confirmed(tip') \subseteq stored', SnapshotIndexed', ListedKnown',
           ListedWhole', failures' \in Nat, failures' <= Disconnected'
    PROVE  FailureInvariant'
<1>1. SyncTypes' /\ PoolWhole'
  BY ZenonT(60) DEF FailureInvariant, Apart, SyncTypes, PoolWhole
<1>2. FailuresNeedReorgs'
  BY ZenonT(60) DEF FailuresNeedReorgs, Disconnected
<1> QED
  BY ZenonT(60), <1>1, <1>2 DEF FailureInvariant

\* A broadcast only adds to what is indexed.
LEMMA BroadcastFailures ==
    ASSUME FailureInvariant, NEW c \in Clients, Broadcast(c)
    PROVE  FailureInvariant'
<1>1. UNCHANGED <<pool, chain, tip, stored, pc, serving, failures, listed, snapshot, asked, fetched, budget>>
  BY ZenonT(60) DEF Broadcast, CheckMissing, FetchBroadcast, InsertBroadcast, bitcoind, index, sync, update
<1>2. txs \subseteq txs'
  BY ZenonT(60) DEF Broadcast, CheckMissing, FetchBroadcast, InsertBroadcast, AddTxs, view
<1>3. Apart
  BY ZenonT(60), <1>1 DEF Apart, FailureInvariant, SyncTypes, Disconnected
<1>4. /\ Confirmed(tip) \subseteq stored /\ SnapshotIndexed /\ ListedKnown /\ ListedWhole
      /\ failures \in Nat /\ failures <= Disconnected
  BY ZenonT(60) DEF FailureInvariant, SyncTypes, FailuresNeedReorgs, Disconnected
<1>5. Confirmed(tip') \subseteq stored' /\ SnapshotIndexed' /\ ListedKnown'
  BY ZenonT(60), <1>1, <1>2, <1>4 DEF SnapshotIndexed, ListedKnown
<1>6. ListedWhole'
  BY ZenonT(60), <1>1, <1>4 DEF ListedWhole, Disconnected
<1>7. failures' \in Nat /\ failures' <= Disconnected'
  BY ZenonT(60), <1>1, <1>4 DEF Disconnected
<1> QED
  BY ZenonT(60), <1>3, <1>5, <1>6, <1>7, ApartKeeps

\* Outside a cycle, or at its start, there is nothing to know of what was listed.
LEMMA NothingListed ==
    ASSUME pc' \notin {"snapshot", "evict", "fetch", "add"}, fetched' = {}
    PROVE  SnapshotIndexed' /\ ListedKnown' /\ ListedWhole'
  BY ZenonT(60) DEF SnapshotIndexed, ListedKnown, ListedWhole

\* Indexer::update stores the transactions of the chain that it indexes.
LEMMA IndexFailures ==
    ASSUME FailureInvariant, IndexChain \/ IndexAgain
    PROVE  FailureInvariant'
<1>1. /\ pc \in {"wait", "again"} /\ pc' \in {"wait", "list"} /\ Indexed
      /\ UNCHANGED <<pool, chain, fetched>> /\ failures' \in {0, failures}
  BY ZenonT(60) DEF IndexChain, IndexAgain, bitcoind, update
<1>2. /\ budget \in Budgets /\ Confirmed(tip) \subseteq stored /\ failures \in Nat /\ failures <= Disconnected
      /\ fetched = {}
  BY ZenonT(60), <1>1 DEF FailureInvariant, SyncTypes, FailuresNeedReorgs, Disconnected, ListedKnown
<1>3. budget' \in Budgets /\ Disconnected' = Disconnected
  <2>1. CASE UNCHANGED budget
    BY ZenonT(60), <1>2, <2>1 DEF Disconnected
  <2>2. CASE Spend("index")
    BY ZenonT(60), <1>2, <2>2, SpendOne
  <2> QED
    BY ZenonT(60), <1>1, <2>1, <2>2 DEF Indexed
<1>4. Apart
  BY ZenonT(60), <1>1, <1>3 DEF Apart
<1>5. Confirmed(tip') \subseteq stored'
  BY ZenonT(60), <1>1, <1>2 DEF Indexed
<1>6. SnapshotIndexed' /\ ListedKnown' /\ ListedWhole'
  BY ZenonT(60), <1>1, <1>2, NothingListed
<1>7. Disconnected \in Int
  BY ZenonT(60), <1>2, DisconnectedInt
<1>8. failures' \in Nat /\ failures' <= Disconnected'
  BY ZenonT(60), <1>1, <1>2, <1>3, <1>7, WithinCount
<1> QED
  BY ZenonT(60), <1>4, <1>5, <1>6, <1>8, ApartKeeps

\* A step of a cycle that calls bitcoind or takes the lock, and changes no count.
LEMMA QuietFailures ==
    ASSUME FailureInvariant, UNCHANGED <<pool, chain, tip, stored, failures, budget>>
    PROVE  /\ Apart /\ Confirmed(tip') \subseteq stored' /\ failures' \in Nat /\ failures' <= Disconnected'
           /\ Disconnected' = Disconnected
  BY ZenonT(60) DEF FailureInvariant, Apart, SyncTypes, FailuresNeedReorgs, Disconnected

\* A sync that succeeds ends the row of failures.
LEMMA SyncedFailures ==
    ASSUME FailureInvariant, UNCHANGED <<pool, chain, tip, stored, budget>>, Synced
    PROVE  FailureInvariant'
<1>1. pc' = "wait" /\ failures' = 0 /\ fetched' = {}
  BY ZenonT(60) DEF Synced, Return
<1>2. SnapshotIndexed' /\ ListedKnown' /\ ListedWhole'
  BY ZenonT(60), <1>1, NothingListed
<1>3. /\ budget \in Budgets /\ Confirmed(tip) \subseteq stored /\ failures \in Nat /\ failures <= Disconnected
  BY ZenonT(60) DEF FailureInvariant, SyncTypes, FailuresNeedReorgs, Disconnected
<1>4. Apart /\ Confirmed(tip') \subseteq stored' /\ Disconnected' = Disconnected
  BY ZenonT(60), <1>3 DEF Apart, Disconnected
<1>5. Disconnected \in Int
  BY ZenonT(60), <1>3, DisconnectedInt
<1>6. failures' \in Nat /\ failures' <= Disconnected'
  BY ZenonT(60), <1>1, <1>3, <1>4, <1>5, WithinCount
<1> QED
  BY ZenonT(60), <1>2, <1>4, <1>6, ApartKeeps

\* getmempooltxids lists a whole mempool.
LEMMA ListFailures ==
    ASSUME FailureInvariant, ListTxids
    PROVE  FailureInvariant'
<1>1. /\ UNCHANGED <<pool, chain, tip, stored, failures, budget>>
      /\ pc = "list" /\ pc' = "snapshot" /\ listed' = pool /\ fetched' = fetched
  BY ZenonT(60) DEF ListTxids, bitcoind, index
<1>2. PoolWhole /\ fetched = {}
  BY ZenonT(60), <1>1 DEF FailureInvariant, ListedKnown
<1>3. SnapshotIndexed' /\ ListedKnown' /\ ListedWhole'
  BY ZenonT(60), <1>1, <1>2 DEF SnapshotIndexed, ListedKnown, ListedWhole, PoolWhole
<1> QED
  BY ZenonT(60), <1>1, <1>3, QuietFailures, ApartKeeps

\* txids_set.
LEMMA SnapshotFailures ==
    ASSUME FailureInvariant, TakeSnapshot
    PROVE  FailureInvariant'
<1>1. /\ UNCHANGED <<pool, chain, tip, stored, failures, budget>> /\ UNCHANGED <<txs, listed, fetched>>
      /\ pc = "snapshot" /\ pc' = "evict" /\ snapshot' = txs
  BY ZenonT(60) DEF TakeSnapshot, bitcoind, index, view
<1>2. ListedKnown /\ ListedWhole
  BY ZenonT(60) DEF FailureInvariant
<1>3. SnapshotIndexed' /\ ListedKnown'
  BY ZenonT(60), <1>1, <1>2 DEF SnapshotIndexed, ListedKnown
<1>4. ListedWhole'
  BY ZenonT(60), <1>1, <1>2, QuietFailures DEF ListedWhole
<1> QED
  BY ZenonT(60), <1>1, <1>3, <1>4, QuietFailures, ApartKeeps

\* Mempool::remove keeps what was listed.
LEMMA RemoveFailures ==
    ASSUME FailureInvariant, RemoveEvicted
    PROVE  FailureInvariant'
<1>1. /\ UNCHANGED <<pool, chain, tip, stored, budget>> /\ pc = "evict"
      /\ txs' = txs \ (snapshot \ listed)
  BY ZenonT(60) DEF RemoveEvicted, RemoveTxs, Evicted, bitcoind, index
<1>2. \/ Synced
      \/ /\ asked' = listed \ snapshot /\ pc' = "fetch"
         /\ UNCHANGED <<failures, listed, snapshot, fetched>>
  BY ZenonT(60) DEF RemoveEvicted
<1>3. /\ ListedKnown /\ ListedWhole /\ SnapshotIndexed /\ SyncTypes /\ Confirmed(tip) \subseteq stored
      /\ failures <= Disconnected
  BY ZenonT(60) DEF FailureInvariant, FailuresNeedReorgs, Disconnected
<1>4. CASE Synced
  BY ZenonT(60), <1>1, <1>4, SyncedFailures
<1>5. CASE /\ asked' = listed \ snapshot /\ pc' = "fetch"
           /\ UNCHANGED <<failures, listed, snapshot, fetched>>
  <2>1. SnapshotIndexed' /\ ListedKnown'
    BY ZenonT(60), <1>1, <1>3, <1>5 DEF SnapshotIndexed, ListedKnown
  <2>2. ListedWhole'
    BY ZenonT(60), <1>1, <1>3, <1>5, QuietFailures DEF ListedWhole
  <2> QED
    BY ZenonT(60), <1>1, <1>5, <2>1, <2>2, QuietFailures, ApartKeeps
<1> QED
  BY ZenonT(60), <1>2, <1>4, <1>5

\* gettransactions_available moves a transaction from what is asked to what is fetched.
LEMMA FetchFailures ==
    ASSUME FailureInvariant, NEW t \in Txs, FetchTx(t)
    PROVE  FailureInvariant'
<1>1. /\ UNCHANGED <<pool, chain, tip, stored, failures, budget>> /\ UNCHANGED <<txs, listed, snapshot, pc>>
      /\ pc = "fetch" /\ t \in asked /\ asked' \subseteq asked /\ fetched' \subseteq fetched \cup {t}
  BY ZenonT(60) DEF FetchTx, bitcoind, index, view
<1>2. ListedKnown /\ ListedWhole
  BY ZenonT(60) DEF FailureInvariant
<1>3. SnapshotIndexed' /\ ListedKnown'
  BY ZenonT(60), <1>1, <1>2 DEF SnapshotIndexed, ListedKnown
<1>4. ListedWhole'
  BY ZenonT(60), <1>1, <1>2, QuietFailures DEF ListedWhole
<1> QED
  BY ZenonT(60), <1>1, <1>3, <1>4, QuietFailures, ApartKeeps

\* With the tip that is indexed, what is confirmed is stored.
LEMMA CheckTipFailures ==
    ASSUME FailureInvariant, CheckTip
    PROVE  FailureInvariant'
<1>1. UNCHANGED <<pool, chain, tip, stored, failures, budget>> /\ UNCHANGED txs /\ pc = "fetch"
  BY ZenonT(60) DEF CheckTip, bitcoind, index, view
<1>2. \/ Return /\ pc' \in {"wait", "again"}
      \/ tip = chain /\ pc' = "add" /\ UNCHANGED <<listed, snapshot, asked, fetched>>
  BY ZenonT(60) DEF CheckTip, TipMoved, update
<1>3. ListedKnown /\ ListedWhole /\ Confirmed(tip) \subseteq stored
  BY ZenonT(60) DEF FailureInvariant
<1>4. CASE Return /\ pc' \in {"wait", "again"}
  <2>1. SnapshotIndexed' /\ ListedKnown' /\ ListedWhole'
    BY ZenonT(60), <1>4, NothingListed DEF Return
  <2> QED
    BY ZenonT(60), <1>1, <2>1, QuietFailures, ApartKeeps
<1>5. CASE tip = chain /\ pc' = "add" /\ UNCHANGED <<listed, snapshot, asked, fetched>>
  <2>1. SnapshotIndexed' /\ ListedKnown'
    BY ZenonT(60), <1>1, <1>3, <1>5 DEF SnapshotIndexed, ListedKnown
  <2>2. ListedWhole'
    BY ZenonT(60), <1>1, <1>3, <1>5, QuietFailures DEF ListedWhole
  <2> QED
    BY ZenonT(60), <1>1, <2>1, <2>2, QuietFailures, ApartKeeps
<1> QED
  BY ZenonT(60), <1>2, <1>4, <1>5

\* While no block was disconnected that no failed sync has paid for, every fetched
\* transaction that is not downstream of a missing one finds its prevouts.
LEMMA BatchResolves ==
    ASSUME FailureInvariant, pc = "add", failures = Disconnected,
           NEW replaced, replaced = (listed \ snapshot) \ fetched,
           NEW batch, batch = NotIndexed(fetched \ Downstream(replaced, fetched)),
           NEW t \in batch
    PROVE  Resolvable(t, batch)
<1> SUFFICES ASSUME NEW o \in Spends[t], o \notin stored, o \notin txs
             PROVE  o \in batch
  BY ZenonT(60) DEF Resolvable
<1>1. /\ fetched \subseteq listed \ snapshot /\ snapshot \cap listed \subseteq txs
      /\ \A u \in listed : Spends[u] \subseteq listed \cup stored
  BY ZenonT(60) DEF FailureInvariant, ListedKnown, ListedWhole
<1>2. t \in fetched /\ t \notin Downstream(replaced, fetched)
  BY ZenonT(60) DEF NotIndexed
<1>3. o \in listed /\ o \notin snapshot
  BY ZenonT(60), <1>1, <1>2
<1>4. o \notin replaced /\ o \notin Downstream(replaced, fetched)
  BY ZenonT(60), <1>2, DownstreamClosed
<1>5. o \in fetched
  BY ZenonT(60), <1>3, <1>4
<1> QED
  BY ZenonT(60), <1>4, <1>5 DEF NotIndexed

\* A cycle that fails to index is paid for by a block that was disconnected.
LEMMA AddFailures ==
    ASSUME FailureInvariant, AddFetched
    PROVE  FailureInvariant'
<1>1. PICK replaced : replaced = (listed \ snapshot) \ fetched
  BY ZenonT(60)
<1>2. PICK batch : batch = NotIndexed(fetched \ Downstream(replaced, fetched))
  OBVIOUS
<1>3. /\ pc = "add" /\ UNCHANGED <<pool, chain, tip, stored, budget>>
      /\ IF {t \in batch : ~ Resolvable(t, batch)} = {} THEN Synced ELSE FailedToIndex
  BY ZenonT(60), <1>1, <1>2 DEF AddFetched, bitcoind, index
<1>4. CASE Synced
  BY ZenonT(60), <1>3, <1>4, SyncedFailures
<1>5. CASE FailedToIndex /\ {t \in batch : ~ Resolvable(t, batch)} # {}
  <2>1. failures # Disconnected
    BY ZenonT(60), <1>1, <1>2, <1>3, <1>5, BatchResolves
  <2>2. /\ budget \in Budgets /\ Confirmed(tip) \subseteq stored /\ failures \in Nat /\ failures <= Disconnected
    BY ZenonT(60) DEF FailureInvariant, SyncTypes, FailuresNeedReorgs, Disconnected
  <2>3. failures' = failures + 1 /\ fetched' = {} /\ pc' \in {"stopped", "wait", "list"}
    BY ZenonT(60), <1>5 DEF FailedToIndex, Return
  <2>4. SnapshotIndexed' /\ ListedKnown' /\ ListedWhole'
    BY ZenonT(60), <2>3, NothingListed
  <2>5. Apart /\ Confirmed(tip') \subseteq stored' /\ Disconnected' = Disconnected
    BY ZenonT(60), <1>3, <2>2 DEF Apart, Disconnected
  <2>6. Disconnected \in Int
    BY ZenonT(60), <2>2, DisconnectedInt
  <2>7. failures' \in Nat /\ failures' <= Disconnected'
    BY ZenonT(60), <2>1, <2>2, <2>3, <2>5, <2>6, WithinCount
  <2> QED
    BY ZenonT(60), <2>4, <2>5, <2>7, ApartKeeps
<1> QED
  BY ZenonT(60), <1>3, <1>4, <1>5

\* Every step keeps the invariant of the failures.
LEMMA NextFailures ==
    ASSUME FailureInvariant, [Next]_vars
    PROVE  FailureInvariant'
<1>1. CASE Sync
  BY ZenonT(60), <1>1, IndexFailures, ListFailures, SnapshotFailures, RemoveFailures, FetchFailures,
     CheckTipFailures, AddFailures DEF Sync
<1>2. CASE Environment
  BY ZenonT(60), <1>2, EnvironmentFailures
<1>3. ASSUME NEW c \in Clients, Broadcast(c)
      PROVE  FailureInvariant'
  BY ZenonT(60), <1>3, BroadcastFailures
<1>4. CASE UNCHANGED vars
  <2>1. UNCHANGED <<pool, chain, tip, stored, failures, budget, txs, pc, listed, snapshot, asked, fetched>>
    BY ZenonT(60), <1>4 DEF vars, bitcoind, index, view, sync, update
  <2>2. SnapshotIndexed' /\ ListedKnown'
    BY ZenonT(60), <2>1 DEF FailureInvariant, SnapshotIndexed, ListedKnown
  <2>3. ListedWhole'
    BY ZenonT(60), <2>1, QuietFailures DEF FailureInvariant, ListedWhole
  <2> QED
    BY ZenonT(60), <2>1, <2>2, <2>3, QuietFailures, ApartKeeps
<1> QED
  BY ZenonT(60), <1>1, <1>2, <1>3, <1>4 DEF Next

\* The main loop gives up (too many failed syncs in a row) only after as many blocks were
\* disconnected: whatever bitcoind relays, replaces, evicts and mines, and whatever clients
\* broadcast, a cycle that fails to index needs a reorg of its own.
THEOREM FailuresAreReorgs == Spec => []FailuresNeedReorgs
<1>1. FailureInvariant => FailuresNeedReorgs
  BY DEF FailureInvariant
<1> QED
  BY <1>1, InitFailures, NextFailures, PTL DEF Spec
====

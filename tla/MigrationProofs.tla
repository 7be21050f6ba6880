-------------------------- MODULE MigrationProofs ---------------------------
(***************************************************************************)
(* Proofs about the offline migration of a database, for any chain, any    *)
(* stale blocks and any batch size: wherever it dies no fact about the     *)
(* best chain is lost, and version 2 means that all rows are converted.    *)
(***************************************************************************)
EXTENDS DaemonParts, TLAPS

OldConfs == UNION {OldTxs[b] \X {b} : b \in OldBlocks}
OldEdges == UNION {SpentBy[t] \X {t} : t \in Move!AllTxs(OldBlocks)}
OldHistory == Move!Confs(OldBlocks)
BestConfs == Move!Confs(BestChain)
BestSpends == Move!BestEdges

TxStoreOf(A, C) == [version : {1, 2}, addr : A, conf : C]
HistoryOf(A, C, E, O, H) == [version : {1, 2}, addr : A, conf : C, edge : E, oldEdge : O, hist : H]
TxStores == TxStoreOf(SUBSET Addresses, SUBSET OldConfs)
Histories == HistoryOf(SUBSET Addresses, SUBSET BestConfs, SUBSET BestSpends, SUBSET OldEdges, SUBSET OldHistory)
Caches == [version : {1, 2}]
StoresOf(T, H, K) == [txstore : T, history : H, cache : K]

\* Each fact about the best chain is there, in its old or in its new form.
KeptAddrs(t, h) == Addresses \subseteq t.addr \cup h.addr
KeptConfs(t, h) ==
    \A b \in BestChain : \A x \in OldTxs[b] : <<x, b>> \in t.conf \/ <<x, OldHeight[b]>> \in h.conf
KeptEdges(h) == \A e \in BestSpends : <<e[1], e[2][1]>> \in h.oldEdge \/ e \in h.edge
AllKept(t, h) == KeptAddrs(t, h) /\ KeptConfs(t, h) /\ KeptEdges(h) /\ BestConfs \subseteq h.hist

\* The rows of version 2.
Exact(t, h) ==
    /\ t.addr = Addresses /\ t.conf = {} /\ h.addr = {} /\ h.oldEdge = {}
    /\ h.conf = BestConfs /\ h.hist = BestConfs /\ h.edge = BestSpends

StoreSet == StoresOf(TxStores, Histories, Caches)
Confirming == {"conf", "confDelete"}
Spending == {"edge", "hist"}
Finishing == {"version", "done"}
Moving == {"addr", "addrDelete"} \cup Confirming \cup Spending
MoveDoings == {"stopped", "refused"} \cup Moving \cup Finishing

MoveTypes == rows \in StoreSet /\ disk \in StoreSet /\ doing \in MoveDoings

\* What is written with the log, and so is the same on disk.
Logged ==
    /\ rows.txstore.version = disk.txstore.version /\ rows.history.version = disk.history.version
    /\ rows.cache.version = disk.cache.version
    /\ rows.history.addr = disk.history.addr /\ rows.txstore.conf = disk.txstore.conf

\* What has been moved when the tool is at a step, and what its iterator has yet to read.
Moved ==
    /\ doing \in Moving =>
         rows.txstore.version = 1 /\ rows.history.version = 1 /\ rows.cache.version = 1
    /\ doing = "addr" => todo \subseteq Addresses /\ rows.history.addr \subseteq todo \cup rows.txstore.addr
    /\ doing = "addrDelete" => Addresses \subseteq rows.txstore.addr /\ Addresses \subseteq disk.txstore.addr
    /\ doing \in Confirming \cup Spending \cup Finishing => rows.history.addr = {}
    /\ doing = "conf" =>
         /\ todo \subseteq OldConfs
         /\ \A b \in BestChain : \A x \in OldTxs[b] : <<x, b>> \in todo \/ <<x, OldHeight[b]>> \in rows.history.conf
    /\ doing = "confDelete" => BestConfs \subseteq rows.history.conf /\ BestConfs \subseteq disk.history.conf
    /\ doing \in Spending \cup Finishing => rows.txstore.conf = {}
    /\ doing = "edge" => rows.history.oldEdge = todo
    /\ doing \in {"hist"} \cup Finishing => rows.history.oldEdge = {} /\ disk.history.oldEdge = {}
    /\ doing = "hist" => rows.history.hist \subseteq todo \cup BestConfs
    /\ doing \in Finishing => rows.history.hist = BestConfs /\ disk.history.hist = BestConfs
    /\ doing = "version" => todo \subseteq Move!Databases

\* A database of version 2 means that all rows are those of version 2.
Upgraded ==
    rows.txstore.version = 2 \/ rows.history.version = 2 \/ rows.cache.version = 2 =>
      Exact(rows.txstore, rows.history) /\ Exact(disk.txstore, disk.history)

MoveInvariant ==
    /\ MoveTypes /\ Logged /\ Moved /\ Upgraded
    /\ AllKept(rows.txstore, rows.history) /\ AllKept(disk.txstore, disk.history)

----------------------------------------------------------------------------
\* The rows of version 1 and 2, member by member.
LEMMA ConfMembers ==
    /\ \A r : r \in OldConfs <=> \E b \in OldBlocks : \E x \in OldTxs[b] : r = <<x, b>>
    /\ \A r : r \in BestConfs <=> \E b \in BestChain : \E x \in OldTxs[b] : r = <<x, OldHeight[b]>>
    /\ \A r : r \in OldHistory <=> \E b \in OldBlocks : \E x \in OldTxs[b] : r = <<x, OldHeight[b]>>
  BY DEF OldConfs, BestConfs, OldHistory, Move!Confs

\* The edges of version 1 and 2, member by member.
LEMMA EdgeMembers ==
    /\ \A r : r \in OldEdges <=> \E b \in OldBlocks : \E x \in OldTxs[b] : \E o \in SpentBy[x] : r = <<o, x>>
    /\ \A e : e \in BestSpends <=> \E r \in BestConfs : \E o \in SpentBy[r[1]] : e = <<o, r>>
  BY DEF OldEdges, BestSpends, BestConfs, Move!AllTxs, Move!BestEdges

\* A transaction of the best chain has one height.
LEMMA OneHeight ==
    ASSUME NEW p \in BestConfs, NEW q \in BestConfs, p[1] = q[1]
    PROVE  p = q
<1>1. PICK b \in BestChain : \E x \in OldTxs[b] : p = <<x, OldHeight[b]>>
  BY ZenonT(60), ConfMembers
<1>1a. PICK x \in OldTxs[b] : p = <<x, OldHeight[b]>>
  BY ZenonT(60), <1>1
<1>2. PICK c \in BestChain : \E y \in OldTxs[c] : q = <<y, OldHeight[c]>>
  BY ZenonT(60), ConfMembers
<1>2a. PICK y \in OldTxs[c] : q = <<y, OldHeight[c]>>
  BY ZenonT(60), <1>2
<1>3. x = y
  BY <1>1a, <1>2a
<1>4. b = c
  BY ZenonT(60), <1>3, MigrationAssumption
<1> QED
  BY <1>1a, <1>2a, <1>3, <1>4

\* An output is spent by one transaction of the best chain.
LEMMA OneSpender ==
    ASSUME NEW p \in BestSpends, NEW q \in BestSpends, p[1] = q[1]
    PROVE  p = q
<1>1. PICK r \in BestConfs : \E o \in SpentBy[r[1]] : p = <<o, r>>
  BY ZenonT(60), EdgeMembers
<1>1a. PICK o \in SpentBy[r[1]] : p = <<o, r>>
  BY ZenonT(60), <1>1
<1>2. PICK s \in BestConfs : \E u \in SpentBy[s[1]] : q = <<u, s>>
  BY ZenonT(60), EdgeMembers
<1>2a. PICK u \in SpentBy[s[1]] : q = <<u, s>>
  BY ZenonT(60), <1>2
<1>3. o = u
  BY <1>1a, <1>2a
<1>4. PICK b \in BestChain : \E x \in OldTxs[b] : r = <<x, OldHeight[b]>> /\ r[1] = x
  BY ConfMembers
<1>4a. PICK x \in OldTxs[b] : r = <<x, OldHeight[b]>> /\ r[1] = x
  BY ZenonT(60), <1>4
<1>5. PICK c \in BestChain : \E y \in OldTxs[c] : s = <<y, OldHeight[c]>> /\ s[1] = y
  BY ConfMembers
<1>5a. PICK y \in OldTxs[c] : s = <<y, OldHeight[c]>> /\ s[1] = y
  BY ZenonT(60), <1>5
<1>6. x = y
  BY ZenonT(60), <1>1a, <1>2a, <1>3, <1>4a, <1>5a, MigrationAssumption
<1>7. r = s
  BY ZenonT(60), <1>4a, <1>5a, <1>6, OneHeight
<1> QED
  BY ZenonT(60), <1>1a, <1>2a, <1>3, <1>7

\* The tip is as high as every block of the best chain.
LEMMA TipIsHighest ==
    ASSUME NEW r \in BestConfs
    PROVE  r[2] <= Move!Tip
<1>1. PICK h : h \in {OldHeight[b] : b \in BestChain} /\ \A b \in BestChain : OldHeight[b] <= h
  BY ZenonT(60), MigrationAssumption
<1>2. \A b \in BestChain : OldHeight[b] <= Move!Tip
  BY ZenonT(60), <1>1 DEF Move!Tip
<1>3. PICK b \in BestChain : \E x \in OldTxs[b] : r = <<x, OldHeight[b]>> /\ r[2] = OldHeight[b]
  BY ConfMembers
<1>3a. PICK x \in OldTxs[b] : r = <<x, OldHeight[b]>> /\ r[2] = OldHeight[b]
  BY ZenonT(60), <1>3
<1> QED
  BY ZenonT(60), <1>2, <1>3a

PutBeside(old, new) == Move!Put(old, new) = old \cup new
OnePerKey(S) == \A p, q \in S : p[1] = q[1] => p = q

\* Rows with different keys are put beside each other.
LEMMA PutAdds ==
    ASSUME NEW S, OnePerKey(S), NEW old \in SUBSET S, NEW new \in SUBSET S
    PROVE  PutBeside(old, new)
  BY ZenonT(60) DEF Move!Put, OnePerKey, PutBeside

----------------------------------------------------------------------------
\* The parts of the databases.
HasStores(d, t, h, k) == d \in StoreSet /\ d.txstore = t /\ d.history = h /\ d.cache = k
IsTx(t, v, a, c) == t \in TxStores /\ t.version = v /\ t.addr = a /\ t.conf = c
IsHist(h, v, a, c, e, o, r) ==
    /\ h \in Histories /\ h.version = v /\ h.addr = a /\ h.conf = c
    /\ h.edge = e /\ h.oldEdge = o /\ h.hist = r

\* The databases, one by one.
LEMMA StoreFields ==
    ASSUME NEW d \in StoreSet
    PROVE  d.txstore \in TxStores /\ d.history \in Histories /\ d.cache \in Caches
  BY ZenonT(60) DEF StoreSet, StoresOf

\* The rows of txstore.
LEMMA TxFields ==
    ASSUME NEW t \in TxStores
    PROVE  t.version \in {1, 2} /\ t.addr \subseteq Addresses /\ t.conf \subseteq OldConfs
<1>1. ASSUME NEW A, NEW C, t \in TxStoreOf(A, C) PROVE t.version \in {1, 2} /\ t.addr \in A /\ t.conf \in C
  BY ZenonT(60), <1>1 DEF TxStoreOf
<1>2. t.version \in {1, 2} /\ t.addr \in SUBSET Addresses /\ t.conf \in SUBSET OldConfs
  BY ZenonT(60), <1>1 DEF TxStores
<1> QED
  BY ZenonT(60), <1>2

\* The rows of history.
LEMMA HistFields ==
    ASSUME NEW h \in Histories
    PROVE  /\ h.version \in {1, 2} /\ h.addr \subseteq Addresses /\ h.conf \subseteq BestConfs
           /\ h.edge \subseteq BestSpends /\ h.oldEdge \subseteq OldEdges /\ h.hist \subseteq OldHistory
<1>1. ASSUME NEW A, NEW C, NEW E, NEW O, NEW H, h \in HistoryOf(A, C, E, O, H)
      PROVE  h.version \in {1, 2} /\ h.addr \in A /\ h.conf \in C /\ h.edge \in E /\ h.oldEdge \in O /\ h.hist \in H
  BY ZenonT(60), <1>1 DEF HistoryOf
<1>2. /\ h.version \in {1, 2} /\ h.addr \in SUBSET Addresses /\ h.conf \in SUBSET BestConfs
      /\ h.edge \in SUBSET BestSpends /\ h.oldEdge \in SUBSET OldEdges /\ h.hist \in SUBSET OldHistory
  BY ZenonT(60), <1>1 DEF Histories
<1> QED
  BY ZenonT(60), <1>2

\* One database changes.
LEMMA TxStoreChanges ==
    ASSUME NEW d \in StoreSet, NEW t \in TxStores, NEW e, e = [d EXCEPT !["txstore"] = t]
    PROVE  HasStores(e, t, d.history, d.cache)
<1>1. ASSUME NEW T, NEW H, NEW K, d \in StoresOf(T, H, K), t \in T
      PROVE  e \in StoresOf(T, H, K) /\ e.txstore = t /\ e.history = d.history /\ e.cache = d.cache
  BY ZenonT(60), <1>1 DEF StoresOf
<1> QED
  BY ZenonT(60), <1>1 DEF StoreSet, HasStores

\* One database changes.
LEMMA HistoryChanges ==
    ASSUME NEW d \in StoreSet, NEW h \in Histories, NEW e, e = [d EXCEPT !["history"] = h]
    PROVE  HasStores(e, d.txstore, h, d.cache)
<1>1. ASSUME NEW T, NEW H, NEW K, d \in StoresOf(T, H, K), h \in H
      PROVE  e \in StoresOf(T, H, K) /\ e.txstore = d.txstore /\ e.history = h /\ e.cache = d.cache
  BY ZenonT(60), <1>1 DEF StoresOf
<1> QED
  BY ZenonT(60), <1>1 DEF StoreSet, HasStores

\* One database changes.
LEMMA CacheChanges ==
    ASSUME NEW d \in StoreSet, NEW k \in Caches, NEW e, e = [d EXCEPT !["cache"] = k]
    PROVE  HasStores(e, d.txstore, d.history, k)
<1>1. ASSUME NEW T, NEW H, NEW K, d \in StoresOf(T, H, K), k \in K
      PROVE  e \in StoresOf(T, H, K) /\ e.txstore = d.txstore /\ e.history = d.history /\ e.cache = k
  BY ZenonT(60), <1>1 DEF StoresOf
<1> QED
  BY ZenonT(60), <1>1 DEF StoreSet, HasStores

\* Address rows are put into txstore.
LEMMA TxAddrs ==
    ASSUME NEW t \in TxStores, NEW a \in SUBSET Addresses, NEW u, u = [t EXCEPT !.addr = a]
    PROVE  IsTx(u, t.version, a, t.conf)
<1>1. ASSUME NEW A, NEW C, t \in TxStoreOf(A, C), a \in A
      PROVE  u \in TxStoreOf(A, C) /\ u.version = t.version /\ u.addr = a /\ u.conf = t.conf
  BY ZenonT(60), <1>1 DEF TxStoreOf
<1> QED
  BY ZenonT(60), <1>1 DEF TxStores, IsTx

\* Confirmations are deleted from txstore.
LEMMA TxConfs ==
    ASSUME NEW t \in TxStores, NEW c \in SUBSET OldConfs, NEW u, u = [t EXCEPT !.conf = c]
    PROVE  IsTx(u, t.version, t.addr, c)
<1>1. ASSUME NEW A, NEW C, t \in TxStoreOf(A, C), c \in C
      PROVE  u \in TxStoreOf(A, C) /\ u.version = t.version /\ u.addr = t.addr /\ u.conf = c
  BY ZenonT(60), <1>1 DEF TxStoreOf
<1> QED
  BY ZenonT(60), <1>1 DEF TxStores, IsTx

\* The version of txstore is put.
LEMMA TxVersion ==
    ASSUME NEW t \in TxStores, NEW v \in {1, 2}, NEW u, u = [t EXCEPT !.version = v]
    PROVE  IsTx(u, v, t.addr, t.conf)
<1>1. ASSUME NEW A, NEW C, t \in TxStoreOf(A, C)
      PROVE  u \in TxStoreOf(A, C) /\ u.version = v /\ u.addr = t.addr /\ u.conf = t.conf
  BY ZenonT(60), <1>1 DEF TxStoreOf
<1> QED
  BY ZenonT(60), <1>1 DEF TxStores, IsTx

\* The address rows are deleted from history.
LEMMA HistAddrs ==
    ASSUME NEW h \in Histories, NEW a \in SUBSET Addresses, NEW g, g = [h EXCEPT !.addr = a]
    PROVE  IsHist(g, h.version, a, h.conf, h.edge, h.oldEdge, h.hist)
<1>1. ASSUME NEW A, NEW C, NEW E, NEW O, NEW H, h \in HistoryOf(A, C, E, O, H), a \in A
      PROVE  /\ g \in HistoryOf(A, C, E, O, H) /\ g.version = h.version /\ g.addr = a
             /\ g.conf = h.conf /\ g.edge = h.edge /\ g.oldEdge = h.oldEdge /\ g.hist = h.hist
  BY ZenonT(60), <1>1 DEF HistoryOf
<1> QED
  BY ZenonT(60), <1>1 DEF Histories, IsHist

\* Confirmations are put into history.
LEMMA HistConfs ==
    ASSUME NEW h \in Histories, NEW c \in SUBSET BestConfs, NEW g, g = [h EXCEPT !.conf = c]
    PROVE  IsHist(g, h.version, h.addr, c, h.edge, h.oldEdge, h.hist)
<1>1. ASSUME NEW A, NEW C, NEW E, NEW O, NEW H, h \in HistoryOf(A, C, E, O, H), c \in C
      PROVE  /\ g \in HistoryOf(A, C, E, O, H) /\ g.version = h.version /\ g.addr = h.addr
             /\ g.conf = c /\ g.edge = h.edge /\ g.oldEdge = h.oldEdge /\ g.hist = h.hist
  BY ZenonT(60), <1>1 DEF HistoryOf
<1> QED
  BY ZenonT(60), <1>1 DEF Histories, IsHist

\* Edges of version 1 are replaced by those of version 2.
LEMMA HistEdges ==
    ASSUME NEW h \in Histories, NEW o \in SUBSET OldEdges, NEW e \in SUBSET BestSpends, NEW g, g = [h EXCEPT !.oldEdge = o, !.edge = e]
    PROVE  IsHist(g, h.version, h.addr, h.conf, e, o, h.hist)
<1>1. ASSUME NEW A, NEW C, NEW E, NEW O, NEW H, h \in HistoryOf(A, C, E, O, H), o \in O, e \in E
      PROVE  /\ g \in HistoryOf(A, C, E, O, H) /\ g.version = h.version /\ g.addr = h.addr
             /\ g.conf = h.conf /\ g.edge = e /\ g.oldEdge = o /\ g.hist = h.hist
  BY ZenonT(60), <1>1 DEF HistoryOf
<1> QED
  BY ZenonT(60), <1>1 DEF Histories, IsHist

\* Rows of stale blocks are deleted from history.
LEMMA HistRows ==
    ASSUME NEW h \in Histories, NEW r \in SUBSET OldHistory, NEW g, g = [h EXCEPT !.hist = r]
    PROVE  IsHist(g, h.version, h.addr, h.conf, h.edge, h.oldEdge, r)
<1>1. ASSUME NEW A, NEW C, NEW E, NEW O, NEW H, h \in HistoryOf(A, C, E, O, H), r \in H
      PROVE  /\ g \in HistoryOf(A, C, E, O, H) /\ g.version = h.version /\ g.addr = h.addr
             /\ g.conf = h.conf /\ g.edge = h.edge /\ g.oldEdge = h.oldEdge /\ g.hist = r
  BY ZenonT(60), <1>1 DEF HistoryOf
<1> QED
  BY ZenonT(60), <1>1 DEF Histories, IsHist

\* The version of history is put.
LEMMA HistVersion ==
    ASSUME NEW h \in Histories, NEW v \in {1, 2}, NEW g, g = [h EXCEPT !.version = v]
    PROVE  IsHist(g, v, h.addr, h.conf, h.edge, h.oldEdge, h.hist)
<1>1. ASSUME NEW A, NEW C, NEW E, NEW O, NEW H, h \in HistoryOf(A, C, E, O, H)
      PROVE  /\ g \in HistoryOf(A, C, E, O, H) /\ g.version = v /\ g.addr = h.addr
             /\ g.conf = h.conf /\ g.edge = h.edge /\ g.oldEdge = h.oldEdge /\ g.hist = h.hist
  BY ZenonT(60), <1>1 DEF HistoryOf
<1> QED
  BY ZenonT(60), <1>1 DEF Histories, IsHist

----------------------------------------------------------------------------
\* What holds before every step.
LEMMA MoveBefore ==
    ASSUME MoveInvariant
    PROVE  /\ rows \in StoreSet /\ disk \in StoreSet /\ rows.txstore \in TxStores /\ rows.history \in Histories
           /\ disk.txstore \in TxStores /\ disk.history \in Histories
           /\ rows.cache \in Caches /\ disk.cache \in Caches
  BY ZenonT(60), StoreFields DEF MoveInvariant, MoveTypes

\* A chunk of the address rows is copied.
LEMMA MoveAddrsStep ==
    ASSUME MoveInvariant, Move!MoveAddrs
    PROVE  MoveInvariant'
<1>1. PICK c \in SUBSET todo : Move!OneChunk(c) /\ Move!Written("txstore", [rows.txstore EXCEPT !.addr = rows.txstore.addr \cup c])
  BY ZenonT(60) DEF Move!MoveAddrs
<1>2. doing = "addr" /\ doing' = "addr" /\ todo' = todo \ c /\ disk' = disk
  BY ZenonT(60), <1>1 DEF Move!MoveAddrs, Move!OneChunk, Move!Written
<1>3. PICK a : a = rows.txstore.addr \cup c
  BY ZenonT(60)
<1>4. PICK u : u = [rows.txstore EXCEPT !.addr = a]
  BY ZenonT(60)
<1>5. rows' = [rows EXCEPT !["txstore"] = u]
  BY ZenonT(60), <1>1, <1>3, <1>4 DEF Move!Written
<1>6. todo \subseteq Addresses /\ rows.history.addr \subseteq todo \cup rows.txstore.addr
  BY ZenonT(60), <1>2 DEF MoveInvariant, Moved
<1>7. a \in SUBSET Addresses
  BY ZenonT(60), <1>1, <1>3, <1>6, MoveBefore, TxFields
<1>8. IsTx(u, rows.txstore.version, a, rows.txstore.conf)
  BY ZenonT(60), <1>4, <1>7, MoveBefore, TxAddrs
<1>9. HasStores(rows', u, rows.history, rows.cache)
  BY ZenonT(60), <1>5, <1>8, MoveBefore, TxStoreChanges DEF IsTx
<1>10. MoveTypes' /\ Logged'
  BY ZenonT(60), <1>2, <1>8, <1>9 DEF MoveInvariant, MoveTypes, Logged, HasStores, IsTx
<1>11. AllKept(u, rows.history)
  BY ZenonT(60), <1>3, <1>8 DEF MoveInvariant, AllKept, KeptAddrs, KeptConfs, IsTx
<1>12. rows'.txstore.version = 1 /\ rows'.history.version = 1 /\ rows'.cache.version = 1
  BY ZenonT(60), <1>2, <1>8, <1>9 DEF MoveInvariant, Moved, HasStores, IsTx, Moving
<1>13. Moved'
  <2>1. todo' \subseteq Addresses /\ rows'.history.addr \subseteq todo' \cup rows'.txstore.addr
    BY ZenonT(60), <1>2, <1>3, <1>6, <1>8, <1>9 DEF HasStores, IsTx
  <2> QED
    BY ZenonT(60), <1>2, <1>12, <2>1 DEF Moved, Moving, Confirming, Spending, Finishing
<1>14. Upgraded'
  BY <1>12 DEF Upgraded
<1> QED
  BY ZenonT(60), <1>2, <1>9, <1>10, <1>11, <1>13, <1>14 DEF MoveInvariant, HasStores

\* A database is flushed.
LEMMA Flush ==
    ASSUME MoveInvariant, NEW db \in Move!Databases, rows' = rows, disk' = [disk EXCEPT ![db] = rows[db]]
    PROVE  /\ disk' \in StoreSet /\ Logged' /\ AllKept(disk'.txstore, disk'.history)
           /\ disk'.txstore \in {disk.txstore, rows.txstore} /\ disk'.history \in {disk.history, rows.history}
           /\ db = "txstore" => disk'.txstore = rows.txstore
           /\ db = "history" => disk'.history = rows.history
<1>1. CASE db = "txstore"
  <2>1. disk' = [disk EXCEPT !["txstore"] = rows.txstore]
    BY ZenonT(60), <1>1
  <2>2. HasStores(disk', rows.txstore, disk.history, disk.cache)
    BY ZenonT(60), <2>1, MoveBefore, TxStoreChanges
  <2>3. Logged'
    BY ZenonT(60), <2>2 DEF HasStores, MoveInvariant, Logged
  <2>4. AllKept(disk'.txstore, disk'.history)
    BY ZenonT(60), <2>2 DEF HasStores, MoveInvariant, Logged, AllKept, KeptAddrs, KeptConfs
  <2> QED
    BY <1>1, <2>2, <2>3, <2>4 DEF HasStores
<1>2. CASE db = "history"
  <2>1. disk' = [disk EXCEPT !["history"] = rows.history]
    BY ZenonT(60), <1>2
  <2>2. HasStores(disk', disk.txstore, rows.history, disk.cache)
    BY ZenonT(60), <2>1, MoveBefore, HistoryChanges
  <2>3. Logged'
    BY ZenonT(60), <2>2 DEF HasStores, MoveInvariant, Logged
  <2>4. AllKept(disk'.txstore, disk'.history)
    BY ZenonT(60), <2>2 DEF HasStores, MoveInvariant, Logged, AllKept, KeptAddrs, KeptConfs
  <2> QED
    BY <1>2, <2>2, <2>3, <2>4 DEF HasStores
<1>3. CASE db = "cache"
  <2>1. disk' = [disk EXCEPT !["cache"] = rows.cache]
    BY ZenonT(60), <1>3
  <2>2. HasStores(disk', disk.txstore, disk.history, rows.cache)
    BY ZenonT(60), <2>1, MoveBefore, CacheChanges
  <2>3. Logged'
    BY ZenonT(60), <2>2 DEF HasStores, MoveInvariant, Logged
  <2>4. AllKept(disk'.txstore, disk'.history)
    BY ZenonT(60), <2>2 DEF HasStores, MoveInvariant
  <2> QED
    BY <1>3, <2>2, <2>3, <2>4 DEF HasStores
<1> QED
  BY ZenonT(60), <1>1, <1>2, <1>3 DEF Move!Databases

\* Rows of version 2 stay so when a database is flushed.
LEMMA FlushExact ==
    ASSUME MoveInvariant, NEW t \in {disk.txstore, rows.txstore}, NEW h \in {disk.history, rows.history},
           Exact(rows.txstore, rows.history) /\ Exact(disk.txstore, disk.history)
    PROVE  Exact(t, h)
  BY ZenonT(60) DEF Exact

\* RocksDB flushes a database on its own.
LEMMA PersistStep ==
    ASSUME MoveInvariant, NEW db \in Move!Databases, Move!Persist(db)
    PROVE  MoveInvariant'
<1>1. rows' = rows /\ doing' = doing /\ todo' = todo /\ disk' = [disk EXCEPT ![db] = rows[db]]
  BY ZenonT(60) DEF Move!Persist
<1>2. /\ disk' \in StoreSet /\ Logged' /\ AllKept(disk'.txstore, disk'.history)
      /\ disk'.txstore \in {disk.txstore, rows.txstore} /\ disk'.history \in {disk.history, rows.history}
  BY ZenonT(60), <1>1, Flush
<1>3. MoveTypes'
  BY ZenonT(60), <1>1, <1>2 DEF MoveInvariant, MoveTypes
<1>4. Moved'
  <2>1. Moved
    BY ZenonT(60) DEF MoveInvariant
  <2> QED
    BY <1>1, <1>2, <2>1 DEF Moved
<1>5. Upgraded'
  <2>1. Exact(rows.txstore, rows.history) /\ Exact(disk.txstore, disk.history) => Exact(disk'.txstore, disk'.history)
    BY ZenonT(60), <1>2, FlushExact
  <2> QED
    BY ZenonT(60), <1>1, <2>1 DEF MoveInvariant, Upgraded
<1> QED
  BY ZenonT(60), <1>1, <1>2, <1>3, <1>4, <1>5 DEF MoveInvariant

\* The tool dies, and finds what is durable.
LEMMA MoveCrashStep ==
    ASSUME MoveInvariant, Move!Crash
    PROVE  MoveInvariant'
<1>1. rows' = disk /\ disk' = disk /\ doing' = "stopped"
  BY ZenonT(60) DEF Move!Crash
<1>2. MoveTypes' /\ Logged'
  BY ZenonT(60), <1>1 DEF MoveInvariant, MoveTypes, Logged, MoveDoings
<1>3. Moved'
  BY ZenonT(60), <1>1 DEF Moved, Moving, Confirming, Spending, Finishing
<1>4. Upgraded'
  BY ZenonT(60), <1>1 DEF MoveInvariant, Upgraded, Logged
<1> QED
  BY ZenonT(60), <1>1, <1>2, <1>3, <1>4 DEF MoveInvariant

\* The tool starts, or refuses to.
LEMMA MoveOpenStep ==
    ASSUME MoveInvariant, Move!Open
    PROVE  MoveInvariant'
<1>1. rows' = rows /\ disk' = disk
  BY ZenonT(60) DEF Move!Open
<1>2. Logged' /\ Upgraded'
  BY ZenonT(60), <1>1 DEF MoveInvariant, Logged, Upgraded
<1>3. CASE \A db \in Move!Databases : rows[db].version = 1
  <2>1. doing' = "addr" /\ todo' = rows.history.addr
    BY ZenonT(60), <1>3 DEF Move!Open
  <2>2. rows.txstore.version = 1 /\ rows.history.version = 1 /\ rows.cache.version = 1
    BY ZenonT(60), <1>3 DEF Move!Databases
  <2>3. rows.history.addr \subseteq Addresses
    BY ZenonT(60), MoveBefore, HistFields
  <2>4. MoveTypes'
    BY ZenonT(60), <1>1, <2>1 DEF MoveInvariant, MoveTypes, MoveDoings, Moving
  <2>5. todo' \subseteq Addresses /\ rows'.history.addr \subseteq todo' \cup rows'.txstore.addr
    BY ZenonT(60), <1>1, <2>1, <2>3
  <2>6. Moved'
    BY ZenonT(60), <1>1, <2>1, <2>2, <2>5 DEF Moved, Moving, Confirming, Spending, Finishing
  <2> QED
    BY ZenonT(60), <1>1, <1>2, <2>4, <2>6 DEF MoveInvariant
<1>4. CASE ~\A db \in Move!Databases : rows[db].version = 1
  <2>1. doing' = "refused"
    BY ZenonT(60), <1>4 DEF Move!Open
  <2>2. MoveTypes'
    BY ZenonT(60), <1>1, <2>1 DEF MoveInvariant, MoveTypes, MoveDoings
  <2>3. Moved'
    BY ZenonT(60), <2>1 DEF Moved, Moving, Confirming, Spending, Finishing
  <2> QED
    BY ZenonT(60), <1>1, <1>2, <2>2, <2>3 DEF MoveInvariant
<1> QED
  BY ZenonT(60), <1>3, <1>4

\* While rows are moved all databases have version 1.
LEMMA StillOne ==
    ASSUME MoveInvariant, doing \in Moving, doing' \in Moving,
           rows'.txstore.version = rows.txstore.version, rows'.history.version = rows.history.version,
           rows'.cache.version = rows.cache.version
    PROVE  /\ rows'.txstore.version = 1 /\ rows'.history.version = 1 /\ rows'.cache.version = 1
           /\ Upgraded'
<1>1. rows'.txstore.version = 1 /\ rows'.history.version = 1 /\ rows'.cache.version = 1
  BY ZenonT(60) DEF MoveInvariant, Moved
<1> QED
  BY <1>1 DEF Upgraded

\* All confirmations of the best chain are in history once txstore has none.
LEMMA ConfsThere ==
    ASSUME NEW t, NEW h, KeptConfs(t, h), t.conf = {}
    PROVE  BestConfs \subseteq h.conf
<1> SUFFICES ASSUME NEW r \in BestConfs PROVE r \in h.conf
  BY ZenonT(60)
<1>1. PICK b \in BestChain : \E x \in OldTxs[b] : r = <<x, OldHeight[b]>>
  BY ZenonT(60), ConfMembers
<1> QED
  BY ZenonT(60), <1>1 DEF KeptConfs

\* The address rows are all copied: txstore is flushed.
LEMMA AddrsMovedStep ==
    ASSUME MoveInvariant, Move!AddrsMoved
    PROVE  MoveInvariant'
<1>1. doing = "addr" /\ todo = {} /\ doing' = "addrDelete" /\ disk' = [disk EXCEPT !["txstore"] = rows["txstore"]] /\ rows' = rows
  BY ZenonT(60) DEF Move!AddrsMoved, Move!Flushed
<1>2. disk' \in StoreSet /\ Logged' /\ AllKept(disk'.txstore, disk'.history) /\ disk'.txstore = rows.txstore
  BY ZenonT(60), <1>1, Flush DEF Move!Databases
<1>3. MoveTypes' /\ doing \in Moving /\ doing' \in Moving
  BY ZenonT(60), <1>1, <1>2 DEF MoveInvariant, MoveTypes, MoveDoings, Moving
<1>4. /\ rows'.txstore.version = 1 /\ rows'.history.version = 1 /\ rows'.cache.version = 1
      /\ Upgraded'
  BY ZenonT(60), <1>1, <1>3, StillOne
<1>5. Addresses \subseteq rows.txstore.addr
  <2>1. rows.history.addr \subseteq todo \cup rows.txstore.addr
    BY ZenonT(60), <1>1 DEF MoveInvariant, Moved
  <2>2. Addresses \subseteq rows.txstore.addr \cup rows.history.addr
    BY ZenonT(60) DEF MoveInvariant, AllKept, KeptAddrs
  <2> QED
    BY ZenonT(60), <1>1, <2>1, <2>2
<1>6. Moved'
  BY ZenonT(60), <1>1, <1>2, <1>4, <1>5 DEF Moved, Moving, Confirming, Spending, Finishing
<1> QED
  BY ZenonT(60), <1>1, <1>2, <1>3, <1>4, <1>6 DEF MoveInvariant

\* Then they are deleted from history.
LEMMA DeleteAddrsStep ==
    ASSUME MoveInvariant, Move!DeleteAddrs
    PROVE  MoveInvariant'
<1>1. /\ doing = "addrDelete" /\ doing' = "conf" /\ todo' = rows.txstore.conf
      /\ rows' = [rows EXCEPT !["history"] = [rows.history EXCEPT !.addr = {}]]
      /\ disk' = [disk EXCEPT !["history"] = [disk.history EXCEPT !.addr = {}]]
  BY ZenonT(60) DEF Move!DeleteAddrs
<1>2. PICK none \in SUBSET Addresses : none = {}
  BY ZenonT(60)
<1>3. PICK h, g : h = [rows.history EXCEPT !.addr = none] /\ g = [disk.history EXCEPT !.addr = none]
  BY ZenonT(60)
<1>4. /\ IsHist(h, rows.history.version, none, rows.history.conf, rows.history.edge, rows.history.oldEdge, rows.history.hist)
      /\ IsHist(g, disk.history.version, none, disk.history.conf, disk.history.edge, disk.history.oldEdge, disk.history.hist)
  BY ZenonT(60), <1>3, MoveBefore, HistAddrs
<1>5. HasStores(rows', rows.txstore, h, rows.cache)
  BY ZenonT(60), <1>1, <1>2, <1>3, <1>4, MoveBefore, HistoryChanges DEF IsHist
<1>6. HasStores(disk', disk.txstore, g, disk.cache)
  BY ZenonT(60), <1>1, <1>2, <1>3, <1>4, MoveBefore, HistoryChanges DEF IsHist
<1>7. MoveTypes' /\ Logged' /\ doing \in Moving /\ doing' \in Moving
  BY ZenonT(60), <1>1, <1>4, <1>5, <1>6 DEF MoveInvariant, MoveTypes, Logged, MoveDoings, Moving, Confirming, HasStores, IsHist
<1>8. /\ rows'.txstore.version = 1 /\ rows'.history.version = 1 /\ rows'.cache.version = 1
      /\ Upgraded'
  BY ZenonT(60), <1>4, <1>5, <1>7, StillOne DEF HasStores, IsHist
<1>9. Addresses \subseteq rows.txstore.addr /\ Addresses \subseteq disk.txstore.addr
  BY ZenonT(60), <1>1 DEF MoveInvariant, Moved
<1>10. AllKept(rows.txstore, h) /\ AllKept(disk.txstore, g)
  BY ZenonT(60), <1>4, <1>9 DEF MoveInvariant, AllKept, KeptAddrs, KeptConfs, KeptEdges, IsHist
<1>11. /\ todo' \subseteq OldConfs /\ rows'.history.addr = {}
       /\ \A b \in BestChain : \A x \in OldTxs[b] : <<x, b>> \in todo' \/ <<x, OldHeight[b]>> \in rows'.history.conf
  <2>1. todo' \subseteq OldConfs /\ rows'.history.addr = {}
    BY ZenonT(60), <1>1, <1>2, <1>4, <1>5, MoveBefore, TxFields DEF HasStores, IsHist
  <2>2. KeptConfs(rows.txstore, h) /\ rows'.history = h
    BY ZenonT(60), <1>5, <1>10 DEF AllKept, HasStores
  <2> QED
    BY ZenonT(60), <1>1, <2>1, <2>2 DEF KeptConfs
<1>12. Moved'
  BY ZenonT(60), <1>1, <1>8, <1>11 DEF Moved, Moving, Confirming, Spending, Finishing
<1> QED
  BY ZenonT(60), <1>5, <1>6, <1>7, <1>8, <1>10, <1>12 DEF MoveInvariant, HasStores

\* A chunk of the confirmations is moved.
LEMMA MoveConfsStep ==
    ASSUME MoveInvariant, Move!MoveConfs
    PROVE  MoveInvariant'
<1>1. PICK c \in SUBSET todo :
         /\ Move!OneChunk(c)
         /\ Move!Written("history", [rows.history EXCEPT !.conf =
               Move!Put(rows.history.conf, {<<r[1], OldHeight[r[2]]>> : r \in {q \in c : q[2] \in BestChain}})])
  BY ZenonT(60) DEF Move!MoveConfs
<1>2. doing = "conf" /\ doing' = "conf" /\ todo' = todo \ c /\ disk' = disk
  BY ZenonT(60), <1>1 DEF Move!MoveConfs, Move!OneChunk, Move!Written
<1>3. PICK best : best = {<<r[1], OldHeight[r[2]]>> : r \in {q \in c : q[2] \in BestChain}}
  BY ZenonT(60)
<1>4. /\ todo \subseteq OldConfs
      /\ \A b \in BestChain : \A x \in OldTxs[b] : <<x, b>> \in todo \/ <<x, OldHeight[b]>> \in rows.history.conf
  BY ZenonT(60), <1>2 DEF MoveInvariant, Moved
<1>5. best \in SUBSET BestConfs
  <2>1. ASSUME NEW r \in c, r[2] \in BestChain PROVE <<r[1], OldHeight[r[2]]>> \in BestConfs
    <3>1. r \in OldConfs
      BY ZenonT(60), <1>1, <1>4
    <3>2. PICK b \in OldBlocks : \E x \in OldTxs[b] : r = <<x, b>>
      BY ZenonT(60), <3>1, ConfMembers
    <3>3. PICK x \in OldTxs[b] : r = <<x, b>>
      BY ZenonT(60), <3>2
    <3>4. r[1] = x /\ r[2] = b
      BY <3>3
    <3> QED
      BY ZenonT(60), <2>1, <3>4, ConfMembers
  <2> QED
    BY ZenonT(60), <1>3, <2>1
<1>6. \A b \in BestChain : \A x \in OldTxs[b] : <<x, b>> \in c => <<x, OldHeight[b]>> \in best
  BY <1>3
<1>7. PICK all \in SUBSET BestConfs : all = rows.history.conf \cup best
  BY ZenonT(60), <1>5, MoveBefore, HistFields
<1>8. Move!Put(rows.history.conf, best) = all
  <2>1. rows.history.conf \in SUBSET BestConfs
    BY ZenonT(60), MoveBefore, HistFields
  <2>2. OnePerKey(BestConfs)
    BY ZenonT(60), OneHeight DEF OnePerKey
  <2>3. PutBeside(rows.history.conf, best)
    BY ZenonT(60), <1>5, <2>1, <2>2, PutAdds
  <2> QED
    BY ZenonT(60), <1>7, <2>3 DEF PutBeside
<1>9. PICK h : h = [rows.history EXCEPT !.conf = all]
  BY ZenonT(60)
<1>10. IsHist(h, rows.history.version, rows.history.addr, all, rows.history.edge, rows.history.oldEdge, rows.history.hist)
  BY ZenonT(60), <1>7, <1>9, MoveBefore, HistConfs
<1>11. HasStores(rows', rows.txstore, h, rows.cache)
  <2>1. rows' = [rows EXCEPT !["history"] = h]
    BY ZenonT(60), <1>1, <1>3, <1>8, <1>9 DEF Move!Written
  <2> QED
    BY ZenonT(60), <1>10, <2>1, MoveBefore, HistoryChanges DEF IsHist
<1>12. MoveTypes' /\ Logged' /\ doing \in Moving /\ doing' \in Moving
  BY ZenonT(60), <1>2, <1>10, <1>11 DEF MoveInvariant, MoveTypes, Logged, Moving, Confirming, HasStores, IsHist
<1>13. /\ rows'.txstore.version = 1 /\ rows'.history.version = 1 /\ rows'.cache.version = 1
       /\ Upgraded'
  BY ZenonT(60), <1>10, <1>11, <1>12, StillOne DEF HasStores, IsHist
<1>14. AllKept(rows.txstore, h)
  BY ZenonT(60), <1>7, <1>10 DEF MoveInvariant, AllKept, KeptAddrs, KeptConfs, KeptEdges, IsHist
<1>15. /\ todo' \subseteq OldConfs /\ rows'.history.addr = {}
       /\ \A b \in BestChain : \A x \in OldTxs[b] : <<x, b>> \in todo' \/ <<x, OldHeight[b]>> \in rows'.history.conf
  <2>1. todo' \subseteq OldConfs
    BY ZenonT(60), <1>2, <1>4
  <2>2. rows'.history.addr = {} /\ rows'.history.conf = all
    BY ZenonT(60), <1>2, <1>10, <1>11 DEF MoveInvariant, Moved, Confirming, HasStores, IsHist
  <2> QED
    BY ZenonT(60), <1>2, <1>4, <1>6, <1>7, <2>1, <2>2
<1>16. Moved'
  BY ZenonT(60), <1>2, <1>13, <1>15 DEF Moved, Moving, Confirming, Spending, Finishing
<1> QED
  BY ZenonT(60), <1>2, <1>11, <1>12, <1>13, <1>14, <1>16 DEF MoveInvariant, HasStores

\* The confirmations are all moved: history is flushed.
LEMMA ConfsMovedStep ==
    ASSUME MoveInvariant, Move!ConfsMoved
    PROVE  MoveInvariant'
<1>1. doing = "conf" /\ todo = {} /\ doing' = "confDelete" /\ disk' = [disk EXCEPT !["history"] = rows["history"]] /\ rows' = rows
  BY ZenonT(60) DEF Move!ConfsMoved, Move!Flushed
<1>2. disk' \in StoreSet /\ Logged' /\ AllKept(disk'.txstore, disk'.history) /\ disk'.history = rows.history
  BY ZenonT(60), <1>1, Flush DEF Move!Databases
<1>3. MoveTypes' /\ doing \in Moving /\ doing' \in Moving
  BY ZenonT(60), <1>1, <1>2 DEF MoveInvariant, MoveTypes, MoveDoings, Moving, Confirming
<1>4. /\ rows'.txstore.version = 1 /\ rows'.history.version = 1 /\ rows'.cache.version = 1
      /\ Upgraded'
  BY ZenonT(60), <1>1, <1>3, StillOne
<1>5. BestConfs \subseteq rows.history.conf /\ rows.history.addr = {}
  <2>1. \A b \in BestChain : \A x \in OldTxs[b] : <<x, b>> \in todo \/ <<x, OldHeight[b]>> \in rows.history.conf
    BY ZenonT(60), <1>1 DEF MoveInvariant, Moved
  <2>2. ASSUME NEW r \in BestConfs PROVE r \in rows.history.conf
    <3>1. PICK b \in BestChain : \E x \in OldTxs[b] : r = <<x, OldHeight[b]>>
      BY ZenonT(60), ConfMembers
    <3> QED
      BY ZenonT(60), <1>1, <2>1, <3>1
  <2>3. rows.history.addr = {}
    BY ZenonT(60), <1>1 DEF MoveInvariant, Moved, Confirming
  <2> QED
    BY ZenonT(60), <2>2, <2>3
<1>6. Moved'
  BY ZenonT(60), <1>1, <1>2, <1>4, <1>5 DEF Moved, Moving, Confirming, Spending, Finishing
<1> QED
  BY ZenonT(60), <1>1, <1>2, <1>3, <1>4, <1>6 DEF MoveInvariant

\* Then they are deleted from txstore.
LEMMA DeleteConfsStep ==
    ASSUME MoveInvariant, Move!DeleteConfs
    PROVE  MoveInvariant'
<1>1. /\ doing = "confDelete" /\ doing' = "edge" /\ todo' = rows.history.oldEdge
      /\ rows' = [rows EXCEPT !["txstore"] = [rows.txstore EXCEPT !.conf = {}]]
      /\ disk' = [disk EXCEPT !["txstore"] = [disk.txstore EXCEPT !.conf = {}]]
  BY ZenonT(60) DEF Move!DeleteConfs
<1>2. PICK none \in SUBSET OldConfs : none = {}
  BY ZenonT(60)
<1>3. PICK t, u : t = [rows.txstore EXCEPT !.conf = none] /\ u = [disk.txstore EXCEPT !.conf = none]
  BY ZenonT(60)
<1>4. /\ IsTx(t, rows.txstore.version, rows.txstore.addr, none)
      /\ IsTx(u, disk.txstore.version, disk.txstore.addr, none)
  BY ZenonT(60), <1>3, MoveBefore, TxConfs
<1>5. HasStores(rows', t, rows.history, rows.cache)
  BY ZenonT(60), <1>1, <1>2, <1>3, <1>4, MoveBefore, TxStoreChanges DEF IsTx
<1>6. HasStores(disk', u, disk.history, disk.cache)
  BY ZenonT(60), <1>1, <1>2, <1>3, <1>4, MoveBefore, TxStoreChanges DEF IsTx
<1>7. MoveTypes' /\ Logged' /\ doing \in Moving /\ doing' \in Moving
  BY ZenonT(60), <1>1, <1>4, <1>5, <1>6 DEF MoveInvariant, MoveTypes, Logged, MoveDoings, Moving, Confirming, Spending, HasStores, IsTx
<1>8. /\ rows'.txstore.version = 1 /\ rows'.history.version = 1 /\ rows'.cache.version = 1
      /\ Upgraded'
  BY ZenonT(60), <1>4, <1>5, <1>7, StillOne DEF HasStores, IsTx
<1>9. BestConfs \subseteq rows.history.conf /\ BestConfs \subseteq disk.history.conf /\ rows.history.addr = {}
  BY ZenonT(60), <1>1 DEF MoveInvariant, Moved, Confirming
<1>10. AllKept(t, rows.history) /\ AllKept(u, disk.history)
  <2>1. \A b \in BestChain : \A x \in OldTxs[b] : <<x, OldHeight[b]>> \in BestConfs
    BY ZenonT(60), ConfMembers
  <2>2. KeptConfs(t, rows.history) /\ KeptConfs(u, disk.history)
    BY ZenonT(60), <1>9, <2>1 DEF KeptConfs
  <2> QED
    BY ZenonT(60), <1>4, <2>2 DEF MoveInvariant, AllKept, KeptAddrs, IsTx
<1>11. rows'.history.addr = {} /\ rows'.txstore.conf = {} /\ rows'.history.oldEdge = todo'
  BY ZenonT(60), <1>1, <1>2, <1>4, <1>5, <1>9 DEF HasStores, IsTx
<1>12. Moved'
  BY ZenonT(60), <1>1, <1>8, <1>11 DEF Moved, Moving, Confirming, Spending, Finishing
<1> QED
  BY ZenonT(60), <1>5, <1>6, <1>7, <1>8, <1>10, <1>12 DEF MoveInvariant, HasStores

\* What the tool looks a height up in is the best chain, once the confirmations are moved.
LEMMA ConfirmationsAreBest ==
    ASSUME MoveInvariant, doing \in Spending
    PROVE  Move!Confirmations = BestConfs
<1>1. BestConfs \subseteq rows.history.conf
  BY ZenonT(60), ConfsThere DEF MoveInvariant, Moved, AllKept
<1>2. rows.history.conf \subseteq BestConfs
  BY ZenonT(60), MoveBefore, HistFields
<1> QED
  BY ZenonT(60), <1>1, <1>2, TipIsHighest DEF Move!Confirmations

\* A chunk of edges is replaced.
LEMMA MoveEdgesStep ==
    ASSUME MoveInvariant, Move!MoveEdges
    PROVE  MoveInvariant'
<1>1. PICK c \in SUBSET todo :
         /\ Move!OneChunk(c)
         /\ Move!Written("history", [rows.history EXCEPT !.oldEdge = rows.history.oldEdge \ c,
                                                         !.edge = Move!Put(rows.history.edge, Move!V2TxEdges(c))])
  BY ZenonT(60) DEF Move!MoveEdges
<1>2. doing = "edge" /\ doing' = "edge" /\ todo' = todo \ c /\ disk' = disk
  BY ZenonT(60), <1>1 DEF Move!MoveEdges, Move!OneChunk, Move!Written
<1>3. /\ rows.history.oldEdge = todo /\ rows.history.addr = {} /\ rows.txstore.conf = {}
      /\ rows.history.oldEdge \subseteq OldEdges /\ rows.history.edge \subseteq BestSpends
  <2>1. rows.history.oldEdge = todo /\ rows.history.addr = {} /\ rows.txstore.conf = {}
    BY ZenonT(60), <1>2 DEF MoveInvariant, Moved, Spending
  <2> QED
    BY ZenonT(60), <2>1, MoveBefore, HistFields
<1>4. Move!Confirmations = BestConfs
  BY ZenonT(60), <1>2, ConfirmationsAreBest DEF Spending
<1>5. \A e : e \in Move!V2TxEdges(c) <=> \E r \in c : \E q \in BestConfs : q[1] = r[2] /\ e = <<r[1], q>>
  BY <1>4 DEF Move!V2TxEdges
<1>6. PICK new : new = Move!V2TxEdges(c)
  BY ZenonT(60)
<1>7. new \in SUBSET BestSpends
  <2>1. ASSUME NEW r \in c, NEW q \in BestConfs, q[1] = r[2] PROVE <<r[1], q>> \in BestSpends
    <3>1. r \in OldEdges
      BY ZenonT(60), <1>1, <1>3
    <3>2. PICK b \in OldBlocks : \E x \in OldTxs[b] : \E o \in SpentBy[x] : r = <<o, x>>
      BY ZenonT(60), <3>1, EdgeMembers
    <3>3. PICK x \in OldTxs[b] : \E o \in SpentBy[x] : r = <<o, x>>
      BY ZenonT(60), <3>2
    <3>4. PICK o \in SpentBy[x] : r = <<o, x>>
      BY ZenonT(60), <3>3
    <3>5. r[1] = o /\ r[2] = x
      BY <3>4
    <3>6. o \in SpentBy[q[1]]
      BY ZenonT(60), <2>1, <3>5
    <3>7. <<o, q>> \in BestSpends
      BY ZenonT(60), <3>6, EdgeMembers
    <3> QED
      BY <3>5, <3>7
  <2>2. ASSUME NEW e \in new PROVE e \in BestSpends
    <3>1. PICK r \in c : \E q \in BestConfs : q[1] = r[2] /\ e = <<r[1], q>>
      BY ZenonT(60), <1>5, <1>6
    <3>2. PICK q \in BestConfs : q[1] = r[2] /\ e = <<r[1], q>>
      BY ZenonT(60), <3>1
    <3>3. PICK f : f = <<r[1], q>>
      BY ZenonT(60)
    <3>4. f \in BestSpends
      BY ZenonT(60), <2>1, <3>2, <3>3
    <3> QED
      BY ZenonT(60), <3>2, <3>3, <3>4
  <2> QED
    BY ZenonT(60), <2>2
<1>8. PICK old \in SUBSET OldEdges : old = rows.history.oldEdge \ c
  BY ZenonT(60), <1>3
<1>9. PICK all \in SUBSET BestSpends : all = rows.history.edge \cup new
  BY ZenonT(60), <1>3, <1>7
<1>10. Move!Put(rows.history.edge, new) = all
  <2>1. rows.history.edge \in SUBSET BestSpends
    BY ZenonT(60), <1>3
  <2>2. OnePerKey(BestSpends)
    BY ZenonT(60), OneSpender DEF OnePerKey
  <2>3. PutBeside(rows.history.edge, new)
    BY ZenonT(60), <1>7, <2>1, <2>2, PutAdds
  <2> QED
    BY ZenonT(60), <1>9, <2>3 DEF PutBeside
<1>11. PICK h : h = [rows.history EXCEPT !.oldEdge = old, !.edge = all]
  BY ZenonT(60)
<1>12. IsHist(h, rows.history.version, rows.history.addr, rows.history.conf, all, old, rows.history.hist)
  BY ZenonT(60), <1>8, <1>9, <1>11, MoveBefore, HistEdges
<1>13. HasStores(rows', rows.txstore, h, rows.cache)
  <2>1. rows' = [rows EXCEPT !["history"] = h]
    BY ZenonT(60), <1>1, <1>6, <1>8, <1>10, <1>11 DEF Move!Written
  <2> QED
    BY ZenonT(60), <1>12, <2>1, MoveBefore, HistoryChanges DEF IsHist
<1>14. MoveTypes' /\ Logged' /\ doing \in Moving /\ doing' \in Moving
  BY ZenonT(60), <1>2, <1>12, <1>13 DEF MoveInvariant, MoveTypes, Logged, Moving, Spending, HasStores, IsHist
<1>15. /\ rows'.txstore.version = 1 /\ rows'.history.version = 1 /\ rows'.cache.version = 1
       /\ Upgraded'
  BY ZenonT(60), <1>12, <1>13, <1>14, StillOne DEF HasStores, IsHist
<1>16. AllKept(rows.txstore, h)
  <2>1. ASSUME NEW e \in BestSpends PROVE <<e[1], e[2][1]>> \in old \/ e \in all
    <3>1. PICK q \in BestConfs : \E o \in SpentBy[q[1]] : e = <<o, q>>
      BY ZenonT(60), EdgeMembers
    <3>2. e = <<e[1], q>> /\ e[2] = q
      BY <3>1
    <3>3. PICK r : r = <<e[1], q[1]>>
      BY ZenonT(60)
    <3>4. r[1] = e[1] /\ r[2] = q[1]
      BY <3>3
    <3>5. r \in c => e \in new
      BY ZenonT(60), <1>5, <1>6, <3>2, <3>4
    <3>6. r \in rows.history.oldEdge \/ e \in rows.history.edge
      BY ZenonT(60), <3>2, <3>3 DEF MoveInvariant, AllKept, KeptEdges
    <3> QED
      BY ZenonT(60), <1>8, <1>9, <3>2, <3>3, <3>5, <3>6
  <2>2. KeptEdges(h)
    BY ZenonT(60), <1>12, <2>1 DEF KeptEdges, IsHist
  <2> QED
    BY ZenonT(60), <1>12, <2>2 DEF MoveInvariant, AllKept, KeptAddrs, KeptConfs, IsHist
<1>17. rows'.history.addr = {} /\ rows'.txstore.conf = {} /\ rows'.history.oldEdge = todo'
  BY ZenonT(60), <1>2, <1>3, <1>8, <1>12, <1>13 DEF HasStores, IsHist
<1>18. Moved'
  BY ZenonT(60), <1>2, <1>15, <1>17 DEF Moved, Moving, Confirming, Spending, Finishing
<1> QED
  BY ZenonT(60), <1>2, <1>13, <1>14, <1>15, <1>16, <1>18 DEF MoveInvariant, HasStores

\* The edges are all replaced: history is flushed.
LEMMA EdgesMovedStep ==
    ASSUME MoveInvariant, Move!EdgesMoved
    PROVE  MoveInvariant'
<1>1. /\ doing = "edge" /\ todo = {} /\ doing' = "hist" /\ todo' = rows.history.hist
      /\ disk' = [disk EXCEPT !["history"] = rows["history"]] /\ rows' = rows
  BY ZenonT(60) DEF Move!EdgesMoved, Move!Flushed
<1>2. disk' \in StoreSet /\ Logged' /\ AllKept(disk'.txstore, disk'.history) /\ disk'.history = rows.history
  BY ZenonT(60), <1>1, Flush DEF Move!Databases
<1>3. MoveTypes' /\ doing \in Moving /\ doing' \in Moving
  BY ZenonT(60), <1>1, <1>2 DEF MoveInvariant, MoveTypes, MoveDoings, Moving, Spending
<1>4. /\ rows'.txstore.version = 1 /\ rows'.history.version = 1 /\ rows'.cache.version = 1
      /\ Upgraded'
  BY ZenonT(60), <1>1, <1>3, StillOne
<1>5. rows.history.oldEdge = {} /\ rows.history.addr = {} /\ rows.txstore.conf = {}
  BY ZenonT(60), <1>1 DEF MoveInvariant, Moved, Spending
<1>6. Moved'
  BY ZenonT(60), <1>1, <1>2, <1>4, <1>5 DEF Moved, Moving, Confirming, Spending, Finishing
<1> QED
  BY ZenonT(60), <1>1, <1>2, <1>3, <1>4, <1>6 DEF MoveInvariant

\* The rows of stale blocks are deleted from a chunk of the history.
LEMMA PruneHistoryStep ==
    ASSUME MoveInvariant, Move!PruneHistory
    PROVE  MoveInvariant'
<1>1. PICK c \in SUBSET todo :
         /\ Move!OneChunk(c)
         /\ Move!Written("history", [rows.history EXCEPT !.hist = rows.history.hist \ {r \in c : Move!StaleRow(r)}])
  BY ZenonT(60) DEF Move!PruneHistory
<1>2. doing = "hist" /\ doing' = "hist" /\ todo' = todo \ c /\ disk' = disk
  BY ZenonT(60), <1>1 DEF Move!PruneHistory, Move!OneChunk, Move!Written
<1>3. /\ rows.history.oldEdge = {} /\ disk.history.oldEdge = {} /\ rows.history.addr = {} /\ rows.txstore.conf = {}
      /\ rows.history.hist \subseteq todo \cup BestConfs
  BY ZenonT(60), <1>2 DEF MoveInvariant, Moved, Spending
<1>4. Move!Confirmations = BestConfs
  BY ZenonT(60), <1>2, ConfirmationsAreBest DEF Spending
<1>5. PICK left \in SUBSET OldHistory : left = rows.history.hist \ {r \in c : Move!StaleRow(r)}
  <2>1. rows.history.hist \subseteq OldHistory
    BY ZenonT(60), MoveBefore, HistFields
  <2> QED
    BY ZenonT(60), <2>1
<1>6. left \subseteq (todo \ c) \cup BestConfs /\ (BestConfs \subseteq rows.history.hist => BestConfs \subseteq left)
  BY ZenonT(60), <1>3, <1>4, <1>5 DEF Move!StaleRow
<1>7. PICK h : h = [rows.history EXCEPT !.hist = left]
  BY ZenonT(60)
<1>8. IsHist(h, rows.history.version, rows.history.addr, rows.history.conf, rows.history.edge, rows.history.oldEdge, left)
  BY ZenonT(60), <1>5, <1>7, MoveBefore, HistRows
<1>9. HasStores(rows', rows.txstore, h, rows.cache)
  <2>1. rows' = [rows EXCEPT !["history"] = h]
    BY ZenonT(60), <1>1, <1>5, <1>7 DEF Move!Written
  <2> QED
    BY ZenonT(60), <1>8, <2>1, MoveBefore, HistoryChanges DEF IsHist
<1>10. MoveTypes' /\ Logged' /\ doing \in Moving /\ doing' \in Moving
  BY ZenonT(60), <1>2, <1>8, <1>9 DEF MoveInvariant, MoveTypes, Logged, Moving, Spending, HasStores, IsHist
<1>11. /\ rows'.txstore.version = 1 /\ rows'.history.version = 1 /\ rows'.cache.version = 1
       /\ Upgraded'
  BY ZenonT(60), <1>8, <1>9, <1>10, StillOne DEF HasStores, IsHist
<1>12. AllKept(rows.txstore, h)
  BY ZenonT(60), <1>6, <1>8 DEF MoveInvariant, AllKept, KeptAddrs, KeptConfs, KeptEdges, IsHist
<1>13. /\ rows'.history.oldEdge = {} /\ disk'.history.oldEdge = {} /\ rows'.history.addr = {} /\ rows'.txstore.conf = {}
       /\ rows'.history.hist \subseteq todo' \cup BestConfs
  BY ZenonT(60), <1>2, <1>3, <1>6, <1>8, <1>9 DEF HasStores, IsHist
<1>14. Moved'
  BY ZenonT(60), <1>2, <1>11, <1>13 DEF Moved, Moving, Confirming, Spending, Finishing
<1> QED
  BY ZenonT(60), <1>2, <1>9, <1>10, <1>11, <1>12, <1>14 DEF MoveInvariant, HasStores

\* The history is pruned: it is flushed.
LEMMA HistoryPrunedStep ==
    ASSUME MoveInvariant, Move!HistoryPruned
    PROVE  MoveInvariant'
<1>1. /\ doing = "hist" /\ todo = {} /\ doing' = "version" /\ todo' = Move!Databases
      /\ disk' = [disk EXCEPT !["history"] = rows["history"]] /\ rows' = rows
  BY ZenonT(60) DEF Move!HistoryPruned, Move!Flushed
<1>2. disk' \in StoreSet /\ Logged' /\ AllKept(disk'.txstore, disk'.history) /\ disk'.history = rows.history
  BY ZenonT(60), <1>1, Flush DEF Move!Databases
<1>3. MoveTypes'
  BY ZenonT(60), <1>1, <1>2 DEF MoveInvariant, MoveTypes, MoveDoings, Finishing
<1>4. Upgraded'
  <2>1. rows.txstore.version = 1 /\ rows.history.version = 1 /\ rows.cache.version = 1
    BY ZenonT(60), <1>1 DEF MoveInvariant, Moved, Moving, Spending
  <2> QED
    BY <1>1, <2>1 DEF Upgraded
<1>5. rows.history.oldEdge = {} /\ rows.history.addr = {} /\ rows.txstore.conf = {} /\ rows.history.hist = BestConfs
  <2>1. /\ rows.history.oldEdge = {} /\ rows.history.addr = {} /\ rows.txstore.conf = {}
        /\ rows.history.hist \subseteq todo \cup BestConfs
    BY ZenonT(60), <1>1 DEF MoveInvariant, Moved, Spending
  <2>2. BestConfs \subseteq rows.history.hist
    BY ZenonT(60) DEF MoveInvariant, AllKept
  <2> QED
    BY ZenonT(60), <1>1, <2>1, <2>2
<1>6. Moved'
  BY ZenonT(60), <1>1, <1>2, <1>5 DEF Moved, Moving, Confirming, Spending, Finishing
<1> QED
  BY ZenonT(60), <1>1, <1>2, <1>3, <1>4, <1>6 DEF MoveInvariant

\* With nothing left to move, what is kept is what version 2 has.
LEMMA KeptIsExact ==
    ASSUME NEW t \in TxStores, NEW h \in Histories, AllKept(t, h), h.addr = {}, t.conf = {}, h.oldEdge = {}, h.hist = BestConfs
    PROVE  Exact(t, h)
<1>1. t.addr = Addresses
  <2>1. t.addr \subseteq Addresses
    BY ZenonT(60), TxFields
  <2> QED
    BY ZenonT(60), <2>1 DEF AllKept, KeptAddrs
<1>2. h.conf = BestConfs
  <2>1. h.conf \subseteq BestConfs /\ BestConfs \subseteq h.conf
    BY ZenonT(60), HistFields, ConfsThere DEF AllKept
  <2> QED
    BY ZenonT(60), <2>1
<1>3. h.edge = BestSpends
  <2>1. h.edge \subseteq BestSpends
    BY ZenonT(60), HistFields
  <2>2. \A e \in BestSpends : e \in h.edge
    BY ZenonT(60) DEF AllKept, KeptEdges
  <2> QED
    BY ZenonT(60), <2>1, <2>2
<1> QED
  BY ZenonT(60), <1>1, <1>2, <1>3 DEF Exact

\* The version of one database is put.
LEMMA PutVersionStep ==
    ASSUME MoveInvariant, Move!PutVersion
    PROVE  MoveInvariant'
<1>1. PICK db \in todo :
         /\ todo = {db} \cup Move!Later[db] /\ todo' = Move!Later[db]
         /\ rows' = [rows EXCEPT ![db].version = 2] /\ disk' = [disk EXCEPT ![db].version = 2]
  BY ZenonT(60) DEF Move!PutVersion
<1>2. doing = "version" /\ doing' \in Finishing
  BY ZenonT(60) DEF Move!PutVersion, Finishing
<1>3. /\ rows.history.addr = {} /\ rows.txstore.conf = {} /\ rows.history.oldEdge = {} /\ rows.history.hist = BestConfs
      /\ disk.history.addr = {} /\ disk.txstore.conf = {} /\ disk.history.oldEdge = {} /\ disk.history.hist = BestConfs
  BY ZenonT(60), <1>2 DEF MoveInvariant, Moved, Logged, Finishing
<1>4. Exact(rows.txstore, rows.history) /\ Exact(disk.txstore, disk.history)
  BY ZenonT(60), <1>3, MoveBefore, KeptIsExact DEF MoveInvariant
<1>4a. todo \subseteq Move!Databases
  BY ZenonT(60), <1>2 DEF MoveInvariant, Moved
<1>4b. todo' \subseteq Move!Databases
  BY ZenonT(60), <1>1, <1>4a
<1>5. ASSUME NEW t, NEW h, NEW k, NEW u, NEW g, NEW l,
             HasStores(rows', t, h, k), HasStores(disk', u, g, l),
             \/ IsTx(t, 2, rows.txstore.addr, rows.txstore.conf) /\ IsTx(u, 2, disk.txstore.addr, disk.txstore.conf)
             \/ t = rows.txstore /\ u = disk.txstore,
             \/ /\ IsHist(h, 2, rows.history.addr, rows.history.conf, rows.history.edge, rows.history.oldEdge, rows.history.hist)
                /\ IsHist(g, 2, disk.history.addr, disk.history.conf, disk.history.edge, disk.history.oldEdge, disk.history.hist)
             \/ h = rows.history /\ g = disk.history,
             k.version = l.version
      PROVE  MoveInvariant'
  <2>1. /\ t.addr = rows.txstore.addr /\ t.conf = rows.txstore.conf /\ t.version = u.version
        /\ u.addr = disk.txstore.addr /\ u.conf = disk.txstore.conf
    BY ZenonT(60), <1>5 DEF IsTx, MoveInvariant, Logged
  <2>2. /\ h.addr = rows.history.addr /\ h.conf = rows.history.conf /\ h.edge = rows.history.edge
        /\ h.oldEdge = rows.history.oldEdge /\ h.hist = rows.history.hist /\ h.version = g.version
    BY ZenonT(60), <1>5 DEF IsHist, MoveInvariant, Logged
  <2>3. /\ g.addr = disk.history.addr /\ g.conf = disk.history.conf /\ g.edge = disk.history.edge
        /\ g.oldEdge = disk.history.oldEdge /\ g.hist = disk.history.hist
    BY ZenonT(60), <1>5 DEF IsHist
  <2>4. MoveTypes' /\ Logged'
    BY ZenonT(60), <1>2, <1>5, <2>1, <2>2, <2>3 DEF MoveInvariant, MoveTypes, Logged, MoveDoings, HasStores
  <2>5. Exact(t, h) /\ Exact(u, g)
    BY ZenonT(60), <1>4, <2>1, <2>2, <2>3 DEF Exact
  <2>6. AllKept(t, h) /\ AllKept(u, g)
    BY ZenonT(60), <2>1, <2>2, <2>3 DEF MoveInvariant, AllKept, KeptAddrs, KeptConfs, KeptEdges
  <2>7. /\ rows'.history.addr = {} /\ rows'.txstore.conf = {} /\ rows'.history.oldEdge = {} /\ disk'.history.oldEdge = {}
        /\ rows'.history.hist = BestConfs /\ disk'.history.hist = BestConfs
    BY ZenonT(60), <1>3, <1>5, <2>1, <2>2, <2>3 DEF HasStores
  <2>8. Moved'
    BY ZenonT(60), <1>2, <1>4b, <2>7 DEF Moved, Moving, Confirming, Spending, Finishing
  <2>9. Upgraded'
    BY ZenonT(60), <1>5, <2>5 DEF Upgraded, HasStores
  <2> QED
    BY ZenonT(60), <1>5, <2>4, <2>6, <2>8, <2>9 DEF MoveInvariant, HasStores
<1>6. PICK two \in {1, 2} : two = 2
  OBVIOUS
<1>7. CASE db = "txstore"
  <2>1. PICK t, u : t = [rows.txstore EXCEPT !.version = two] /\ u = [disk.txstore EXCEPT !.version = two]
    BY ZenonT(60)
  <2>2. IsTx(t, two, rows.txstore.addr, rows.txstore.conf) /\ IsTx(u, two, disk.txstore.addr, disk.txstore.conf)
    BY ZenonT(60), <2>1, MoveBefore, TxVersion
  <2>3. rows' = [rows EXCEPT !["txstore"] = t] /\ disk' = [disk EXCEPT !["txstore"] = u]
    BY ZenonT(60), <1>1, <1>6, <1>7, <2>1
  <2>4. HasStores(rows', t, rows.history, rows.cache) /\ HasStores(disk', u, disk.history, disk.cache)
    BY ZenonT(60), <2>2, <2>3, MoveBefore, TxStoreChanges DEF IsTx
  <2>5. rows.cache.version = disk.cache.version
    BY ZenonT(60) DEF MoveInvariant, Logged
  <2> QED
    BY ZenonT(60), <1>5, <1>6, <2>2, <2>4, <2>5
<1>8. CASE db = "history"
  <2>1. PICK h, g : h = [rows.history EXCEPT !.version = two] /\ g = [disk.history EXCEPT !.version = two]
    BY ZenonT(60)
  <2>2. /\ IsHist(h, two, rows.history.addr, rows.history.conf, rows.history.edge, rows.history.oldEdge, rows.history.hist)
        /\ IsHist(g, two, disk.history.addr, disk.history.conf, disk.history.edge, disk.history.oldEdge, disk.history.hist)
    BY ZenonT(60), <2>1, MoveBefore, HistVersion
  <2>3. rows' = [rows EXCEPT !["history"] = h] /\ disk' = [disk EXCEPT !["history"] = g]
    BY ZenonT(60), <1>1, <1>6, <1>8, <2>1
  <2>4. HasStores(rows', rows.txstore, h, rows.cache) /\ HasStores(disk', disk.txstore, g, disk.cache)
    BY ZenonT(60), <2>2, <2>3, MoveBefore, HistoryChanges DEF IsHist
  <2>5. rows.cache.version = disk.cache.version
    BY ZenonT(60) DEF MoveInvariant, Logged
  <2> QED
    BY ZenonT(60), <1>5, <1>6, <2>2, <2>4, <2>5
<1>9. CASE db = "cache"
  <2>1. PICK k, l : k = [rows.cache EXCEPT !.version = two] /\ l = [disk.cache EXCEPT !.version = two]
    BY ZenonT(60)
  <2>2. k \in Caches /\ l \in Caches /\ k.version = two /\ l.version = two
    BY ZenonT(60), <2>1, MoveBefore DEF Caches
  <2>3. rows' = [rows EXCEPT !["cache"] = k] /\ disk' = [disk EXCEPT !["cache"] = l]
    BY ZenonT(60), <1>1, <1>6, <1>9, <2>1
  <2>4. HasStores(rows', rows.txstore, rows.history, k) /\ HasStores(disk', disk.txstore, disk.history, l)
    BY ZenonT(60), <2>2, <2>3, MoveBefore, CacheChanges
  <2>5. k.version = l.version
    BY ZenonT(60), <2>2
  <2> QED
    BY ZenonT(60), <1>5, <2>4, <2>5
<1>10. db \in Move!Databases
  BY ZenonT(60), <1>4a
<1> QED
  BY ZenonT(60), <1>7, <1>8, <1>9, <1>10 DEF Move!Databases

FirstHistoryIn(A, C, E, O, H) == Addresses \in A /\ {} \in C /\ {} \in E /\ OldEdges \in O /\ OldHistory \in H

\* The databases of version 1, before the tool ran.
LEMMA MoveStarts ==
    ASSUME Move!Init
    PROVE  MoveInvariant
<1>1. PICK t : t = [version |-> 1, addr |-> {}, conf |-> OldConfs]
  BY ZenonT(60)
<1>2. PICK h : h = [version |-> 1, addr |-> Addresses, conf |-> {}, edge |-> {}, oldEdge |-> OldEdges, hist |-> OldHistory]
  BY ZenonT(60)
<1>3. PICK k : k = [version |-> 1]
  BY ZenonT(60)
<1>4. rows = [txstore |-> t, history |-> h, cache |-> k] /\ disk = rows /\ doing = "stopped"
  BY ZenonT(60), <1>1, <1>2, <1>3 DEF Move!Init, OldConfs, OldEdges, OldHistory
<1>5. t \in TxStores /\ t.version = 1 /\ t.conf = OldConfs
  <2>1. ASSUME NEW A, NEW C, {} \in A, OldConfs \in C PROVE t \in TxStoreOf(A, C) /\ t.version = 1 /\ t.conf = OldConfs
    BY ZenonT(60), <1>1, <2>1 DEF TxStoreOf
  <2>2. {} \in SUBSET Addresses /\ OldConfs \in SUBSET OldConfs
    BY ZenonT(60)
  <2> QED
    BY ZenonT(60), <2>1, <2>2 DEF TxStores
<1>6. h \in Histories /\ h.version = 1 /\ h.addr = Addresses /\ h.oldEdge = OldEdges /\ h.hist = OldHistory
  <2>1. ASSUME NEW A, NEW C, NEW E, NEW O, NEW H, FirstHistoryIn(A, C, E, O, H)
        PROVE  /\ h \in HistoryOf(A, C, E, O, H)
               /\ h.version = 1 /\ h.addr = Addresses /\ h.oldEdge = OldEdges /\ h.hist = OldHistory
    BY ZenonT(60), <1>2, <2>1 DEF HistoryOf, FirstHistoryIn
  <2>2. FirstHistoryIn(SUBSET Addresses, SUBSET BestConfs, SUBSET BestSpends, SUBSET OldEdges, SUBSET OldHistory)
    BY ZenonT(60) DEF FirstHistoryIn
  <2> QED
    BY ZenonT(60), <2>1, <2>2 DEF Histories
<1>7. k \in Caches /\ k.version = 1
  BY ZenonT(60), <1>3 DEF Caches
<1>8. HasStores(rows, t, h, k)
  <2>1. ASSUME NEW T, NEW H, NEW K, t \in T, h \in H, k \in K
        PROVE  rows \in StoresOf(T, H, K) /\ rows.txstore = t /\ rows.history = h /\ rows.cache = k
    BY ZenonT(60), <1>4, <2>1 DEF StoresOf
  <2> QED
    BY ZenonT(60), <1>5, <1>6, <1>7, <2>1 DEF HasStores, StoreSet
<1>9. AllKept(t, h)
  <2>1. KeptAddrs(t, h)
    BY ZenonT(60), <1>6 DEF KeptAddrs
  <2>2. \A b \in BestChain : b \in OldBlocks
    BY ZenonT(60), MigrationAssumption
  <2>3. \A b \in BestChain : \A x \in OldTxs[b] : <<x, b>> \in OldConfs
    BY ZenonT(60), <2>2, ConfMembers
  <2>4. KeptConfs(t, h)
    BY ZenonT(60), <1>5, <2>3 DEF KeptConfs
  <2>5. BestConfs \subseteq OldHistory
    <3>1. ASSUME NEW r \in BestConfs PROVE r \in OldHistory
      <4>1. PICK b \in BestChain : \E x \in OldTxs[b] : r = <<x, OldHeight[b]>>
        BY ZenonT(60), ConfMembers
      <4> QED
        BY ZenonT(60), <2>2, <4>1, ConfMembers
    <3> QED
      BY ZenonT(60), <3>1
  <2>6. ASSUME NEW e \in BestSpends PROVE <<e[1], e[2][1]>> \in OldEdges
    <3>1. PICK q \in BestConfs : \E o \in SpentBy[q[1]] : e = <<o, q>>
      BY ZenonT(60), EdgeMembers
    <3>2. PICK o \in SpentBy[q[1]] : e = <<o, q>>
      BY ZenonT(60), <3>1
    <3>3. e[1] = o /\ e[2] = q
      BY <3>2
    <3>4. PICK b \in BestChain : \E x \in OldTxs[b] : q = <<x, OldHeight[b]>>
      BY ZenonT(60), ConfMembers
    <3>5. PICK x \in OldTxs[b] : q = <<x, OldHeight[b]>>
      BY ZenonT(60), <3>4
    <3>6. q[1] = x
      BY <3>5
    <3>7. PICK f : f = <<o, x>>
      BY ZenonT(60)
    <3>8. o \in SpentBy[x]
      BY ZenonT(60), <3>2, <3>6
    <3>9. f \in OldEdges
      BY ZenonT(60), <2>2, <3>7, <3>8, EdgeMembers
    <3>10. f = <<e[1], e[2][1]>>
      BY <3>3, <3>6, <3>7
    <3> QED
      BY ZenonT(60), <3>9, <3>10
  <2>7. KeptEdges(h)
    BY ZenonT(60), <1>6, <2>6 DEF KeptEdges
  <2> QED
    BY ZenonT(60), <1>6, <2>1, <2>4, <2>5, <2>7 DEF AllKept
<1>10. MoveTypes /\ Logged
  BY ZenonT(60), <1>4, <1>8 DEF MoveTypes, Logged, MoveDoings, HasStores
<1>11. Moved
  BY ZenonT(60), <1>4 DEF Moved, Moving, Confirming, Spending, Finishing
<1>12. Upgraded
  BY <1>5, <1>6, <1>7, <1>8 DEF Upgraded, HasStores
<1> QED
  BY ZenonT(60), <1>4, <1>8, <1>9, <1>10, <1>11, <1>12 DEF MoveInvariant, HasStores

\* Every step of the tool, and a crash, keep the invariant.
LEMMA MoveKeepsInvariant ==
    ASSUME MoveInvariant, [Move!Next]_(Move!vars)
    PROVE  MoveInvariant'
<1>1. CASE UNCHANGED Move!vars
  <2>1. rows' = rows /\ disk' = disk /\ doing' = doing /\ todo' = todo
    BY ZenonT(60), <1>1 DEF Move!vars
  <2>2. MoveTypes' /\ Logged' /\ Upgraded' /\ AllKept(rows'.txstore, rows'.history) /\ AllKept(disk'.txstore, disk'.history)
    BY ZenonT(60), <2>1 DEF MoveInvariant, MoveTypes, Logged, Upgraded
  <2>3. Moved'
    <3>1. Moved
      BY ZenonT(60) DEF MoveInvariant
    <3> QED
      BY <2>1, <3>1 DEF Moved
  <2> QED
    BY ZenonT(60), <2>2, <2>3 DEF MoveInvariant
<1>2. CASE Move!Migrate
  BY ZenonT(60), <1>2, MoveOpenStep, MoveAddrsStep, AddrsMovedStep, DeleteAddrsStep, MoveConfsStep, ConfsMovedStep,
     DeleteConfsStep, MoveEdgesStep, EdgesMovedStep, PruneHistoryStep, HistoryPrunedStep, PutVersionStep
     DEF Move!Migrate
<1> QED
  BY ZenonT(60), <1>1, <1>2, MoveCrashStep, PersistStep DEF Move!Next

\* What the run checks follows from the invariant.
LEMMA MoveMeans ==
    ASSUME MoveInvariant
    PROVE  MigrationIsSafe
<1>1. Move!NothingLost
  BY ZenonT(60) DEF MoveInvariant, AllKept, KeptAddrs, KeptConfs, KeptEdges, Move!NothingLost, BestConfs, BestSpends
<1>2. ASSUME NEW db \in Move!Databases, disk[db].version = 2 PROVE Exact(disk.txstore, disk.history)
  <2>1. rows.txstore.version = 2 \/ rows.history.version = 2 \/ rows.cache.version = 2
    BY ZenonT(60), <1>2 DEF MoveInvariant, Logged, Move!Databases
  <2> QED
    BY ZenonT(60), <2>1 DEF MoveInvariant, Upgraded
<1>3. Move!MigratedExact
  BY ZenonT(60), <1>2 DEF Move!MigratedExact, Exact, BestConfs, BestSpends
<1> QED
  BY ZenonT(60), <1>1, <1>3 DEF MigrationIsSafe

\* Wherever bin/db-migrate-v1-to-v2.rs dies, and whichever of its unlogged batches are lost with it, every fact
\* about the best chain is on disk in its old or new form, and a database that says version 2 holds exactly the
\* rows of the best chain: for any chain, any stale blocks, any batch size and any number of crashes.
THEOREM MigrationIsSafeAlways == Move!Spec => []MigrationIsSafe
<1>1. Move!Init => MoveInvariant
  BY ZenonT(60), MoveStarts
<1>2. MoveInvariant /\ [Move!Next]_(Move!vars) => MoveInvariant'
  BY ZenonT(60), MoveKeepsInvariant
<1>3. MoveInvariant => MigrationIsSafe
  BY ZenonT(60), MoveMeans
<1> QED
  BY <1>1, <1>2, <1>3, PTL DEF Move!Spec
=============================================================================

----------------------------- MODULE Migration ------------------------------
(***************************************************************************)
(* The offline conversion of a database from version 1 to version 2        *)
(* (bin/db-migrate-v1-to-v2.rs).  It runs alone, writes in batches without *)
(* the write-ahead log, and is started again after it died.                *)
(*                                                                         *)
(* Version 1 kept the rows of stale blocks.  Version 2 has one TxConf and  *)
(* one TxEdge row per key, of the best chain, and moves the address rows   *)
(* to txstore and the TxConf rows to history.                              *)
(***************************************************************************)
EXTENDS Integers, FiniteSets

CONSTANTS
    OldBlocks,      \* the blocks that were ever indexed
    OldHeight,      \* their heights
    BestChain,      \* those of the best chain
    OldTxs,         \* their transactions
    SpentBy,        \* the outputs a transaction spends
    Addresses,      \* the rows of the address search
    BatchRows,      \* BATCH_SIZE
    MaxCrashes      \* bound on how often the tool dies

VARIABLES
    rows,           \* the databases as the process reads them
    disk,           \* what of them survives a crash
    doing,          \* the step the tool is at
    todo,           \* the rows of its iterator that were not read yet
    crashes

vars == <<rows, disk, doing, todo, crashes>>

Databases == {"txstore", "history", "cache"}
Confs(bs) == UNION {OldTxs[b] \X {OldHeight[b]} : b \in bs}
AllTxs(bs) == UNION {OldTxs[b] : b \in bs}
Tip == CHOOSE h \in {OldHeight[b] : b \in BestChain} : \A b \in BestChain : OldHeight[b] <= h

\* The rows of version 1: a TxConf row per block that holds the transaction, a TxEdge row per
\* transaction that spends the output, and a TxHistory row per transaction and height.
Init ==
    /\ rows = [txstore |-> [version |-> 1, addr |-> {},
                            conf |-> UNION {OldTxs[b] \X {b} : b \in OldBlocks}],
               history |-> [version |-> 1, addr |-> Addresses, conf |-> {}, edge |-> {},
                            oldEdge |-> UNION {SpentBy[t] \X {t} : t \in AllTxs(OldBlocks)},
                            hist |-> Confs(OldBlocks)],
               cache |-> [version |-> 1]]
    /\ disk = rows /\ doing = "stopped" /\ todo = {} /\ crashes = 0

----------------------------------------------------------------------------
\* DB::write_batch without the log: the batch is durable with the next flush.
Written(db, new) == rows' = [rows EXCEPT ![db] = new] /\ UNCHANGED disk

\* DB::flush.
NotFlushed(db) == disk

Flushed(db) == [disk EXCEPT ![db] = rows[db]]

\* Any two rows of one key: the later one is kept.
Put(old, new) == {r \in old : \A n \in new : n[1] # r[1]} \cup new

\* A chunk of the iterator.  Keys are hashes, so rows come in any order.
OneChunk(c) ==
    /\ c \in SUBSET todo /\ c # {}
    /\ Cardinality(c) = IF Cardinality(todo) < BatchRows THEN Cardinality(todo) ELSE BatchRows
    /\ todo' = todo \ c

\* schema.rs lookup_confirmations: the height of a transaction, unless it is above the tip.
Confirmations == {r \in rows.history.conf : r[2] <= Tip}

\* The tool starts only when all databases have version 1.
Open ==
    /\ doing = "stopped"
    /\ IF \A db \in Databases : rows[db].version = 1
       THEN doing' = "addr" /\ todo' = rows.history.addr
       ELSE doing' = "refused" /\ UNCHANGED todo
    /\ UNCHANGED <<rows, disk, crashes>>

\* 1. The address rows are copied to txstore, which is flushed before they are deleted from history.
MoveAddrs ==
    /\ doing = "addr"
    /\ \E c \in SUBSET todo : OneChunk(c) /\ Written("txstore", [rows.txstore EXCEPT !.addr = @ \cup c])
    /\ UNCHANGED <<doing, crashes>>

AddrsMoved ==
    /\ doing = "addr" /\ todo = {} /\ doing' = "addrDelete" /\ disk' = Flushed("txstore")
    /\ UNCHANGED <<rows, todo, crashes>>

\* The deletion of the range is written with the log and synced; so it is durable by itself.
DeleteAddrs ==
    /\ doing = "addrDelete" /\ doing' = "conf" /\ todo' = rows.txstore.conf
    /\ rows' = [rows EXCEPT !.history.addr = {}] /\ disk' = [disk EXCEPT !.history.addr = {}]
    /\ UNCHANGED crashes

\* 2. A TxConf row of a block of the best chain becomes one of its height, the others are left behind.
MoveConfs ==
    /\ doing = "conf"
    /\ \E c \in SUBSET todo :
         /\ OneChunk(c)
         /\ LET best == {<<r[1], OldHeight[r[2]]>> : r \in {q \in c : q[2] \in BestChain}}
            IN  Written("history", [rows.history EXCEPT !.conf = Put(@, best)])
    /\ UNCHANGED <<doing, crashes>>

ConfsMoved ==
    /\ doing = "conf" /\ todo = {} /\ doing' = "confDelete" /\ disk' = Flushed("history")
    /\ UNCHANGED <<rows, todo, crashes>>

DeleteConfs ==
    /\ doing = "confDelete" /\ doing' = "edge" /\ todo' = rows.history.oldEdge
    /\ rows' = [rows EXCEPT !.txstore.conf = {}] /\ disk' = [disk EXCEPT !.txstore.conf = {}]
    /\ UNCHANGED crashes

\* The row of version 2 has the output as its key and the transaction and its height as its value.
V2TxEdges(c) == UNION {{r[1]} \X {q \in Confirmations : q[1] = r[2]} : r \in c}

\* 3. A TxEdge row is replaced, in one batch, by one with the height of its transaction, if that is
\* confirmed.  Rows that a run before replaced have a shorter key and are not read.
MoveEdges ==
    /\ doing = "edge"
    /\ \E c \in SUBSET todo :
         /\ OneChunk(c)
         /\ Written("history", [rows.history EXCEPT !.oldEdge = @ \ c, !.edge = Put(@, V2TxEdges(c))])
    /\ UNCHANGED <<doing, crashes>>

EdgesMoved ==
    /\ doing = "edge" /\ todo = {} /\ doing' = "hist" /\ todo' = rows.history.hist
    /\ disk' = Flushed("history")
    /\ UNCHANGED <<rows, crashes>>

\* 4. A TxHistory row of another height than that of its transaction is of a stale block.
StaleRow(r) == r \notin Confirmations

PruneHistory ==
    /\ doing = "hist"
    /\ \E c \in SUBSET todo :
         /\ OneChunk(c)
         /\ Written("history", [rows.history EXCEPT !.hist = @ \ {r \in c : StaleRow(r)}])
    /\ UNCHANGED <<doing, crashes>>

HistoryPruned ==
    /\ doing = "hist" /\ todo = {} /\ doing' = "version" /\ todo' = Databases
    /\ disk' = Flushed("history")
    /\ UNCHANGED <<rows, crashes>>

\* The version is put and synced in one database after the other.
Later == [txstore |-> {"history", "cache"}, history |-> {"cache"}, cache |-> {}]

PutVersion ==
    /\ doing = "version"
    /\ \E db \in todo :
         /\ todo = {db} \cup Later[db] /\ todo' = Later[db]
         /\ rows' = [rows EXCEPT ![db].version = 2] /\ disk' = [disk EXCEPT ![db].version = 2]
    /\ doing' = IF todo' = {} THEN "done" ELSE "version"
    /\ UNCHANGED crashes

Migrate ==
    \/ Open \/ MoveAddrs \/ AddrsMoved \/ DeleteAddrs \/ MoveConfs \/ ConfsMoved \/ DeleteConfs
    \/ MoveEdges \/ EdgesMoved \/ PruneHistory \/ HistoryPruned \/ PutVersion

\* RocksDB flushes a memtable on its own.
Persist(db) ==
    /\ disk[db] # rows[db] /\ disk' = [disk EXCEPT ![db] = rows[db]]
    /\ UNCHANGED <<rows, doing, todo, crashes>>

\* The process dies; it finds what is durable when it is started again.
Crash ==
    /\ doing \notin {"stopped", "refused", "done"} /\ crashes < MaxCrashes /\ crashes' = crashes + 1
    /\ rows' = disk /\ doing' = "stopped" /\ todo' = {} /\ UNCHANGED disk

Next == Migrate \/ Crash \/ \E db \in Databases : Persist(db)

Spec == Init /\ [][Next]_vars

----------------------------------------------------------------------------
\* What version 2 has for the best chain: the height of each transaction and who spends each output.
BestEdges == UNION {SpentBy[r[1]] \X {r} : r \in Confs(BestChain)}

\* Wherever the tool dies (db-migrate-v1-to-v2.rs:60-213 flushes one database before it deletes from the
\* other, and replaces rows in one batch), each fact about the best chain is on disk, in its old or in its
\* new form, so that the next run can finish.
NothingLost ==
    /\ Addresses \subseteq disk.txstore.addr \cup disk.history.addr
    /\ \A b \in BestChain : \A t \in OldTxs[b] :
         <<t, b>> \in disk.txstore.conf \/ <<t, OldHeight[b]>> \in disk.history.conf
    /\ \A e \in BestEdges : <<e[1], e[2][1]>> \in disk.history.oldEdge \/ e \in disk.history.edge
    /\ Confs(BestChain) \subseteq disk.history.hist

\* Once a database says version 2 (db-migrate-v1-to-v2.rs:215-219), all of them hold exactly the rows of
\* the best chain, however often the tool died on the way and whichever batches were lost.
MigratedExact ==
    (\E db \in Databases : disk[db].version = 2) =>
        /\ disk.txstore.addr = Addresses /\ disk.txstore.conf = {}
        /\ disk.history.addr = {} /\ disk.history.oldEdge = {}
        /\ disk.history.conf = Confs(BestChain) /\ disk.history.hist = Confs(BestChain)
        /\ disk.history.edge = BestEdges
==============================================================================

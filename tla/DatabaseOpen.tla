---------------------------- MODULE DatabaseOpen ----------------------------
(***************************************************************************)
(* What electrs records about its databases themselves, and reads when it  *)
(* opens them (new_index/db.rs): the settings the rows were built with,    *)
(* and whether the full compaction that ends the bulk load was made.       *)
(* electrs is started with any settings, and dies anywhere.                *)
(***************************************************************************)
EXTENDS Integers, Sequences

CONSTANTS
    Lights,         \* the values of light_mode
    Flags,          \* the values of (index_unspendables, address_search)
    MaxStarts       \* bound on the starts

VARIABLES
    origin,         \* how the databases were before: "fresh", "combined" or "unflagged"
    marks,          \* the rows V, VF and F of each database; <<>> where there is none
    built,          \* the settings that the rows of each database were built with
    backlog,        \* databases with many files at level 0
    triggers,       \* the compaction triggers of each open database: "wide" or "steady"
    config,         \* the settings of the process
    doing,          \* what the process does
    todo,           \* the databases it has yet to do it with
    starts

vars == <<origin, marks, built, backlog, triggers, config, doing, todo, starts>>

Settings == [light : Lights, flags : Flags]
Stores == <<"txstore", "history", "cache">>
Names == {Stores[i] : i \in DOMAIN Stores}

\* A database of an earlier version has all settings in V, or no VF.
Init ==
    /\ origin \in {"fresh", "combined", "unflagged"} /\ config \in Settings
    /\ \E full \in BOOLEAN :
         LET v == CASE origin = "fresh" -> <<>>
                    [] origin = "combined" -> <<config.light, config.flags>>
                    [] origin = "unflagged" -> <<config.light>>
         IN  /\ (origin = "fresh") => ~full
             /\ marks = [d \in Names |-> [version |-> v, flags |-> <<>>, full |-> full]]
             /\ backlog = IF full \/ origin = "fresh" THEN {} ELSE Names
    /\ built = [d \in Names |-> IF origin = "fresh" THEN {} ELSE {config}]
    /\ triggers = [d \in Names |-> "wide"] /\ doing = "down" /\ todo = <<>> /\ starts = 0

----------------------------------------------------------------------------
Start ==
    /\ doing \in {"down", "refused"} /\ starts < MaxStarts /\ starts' = starts + 1
    /\ config' \in Settings /\ doing' = "open" /\ todo' = Stores
    /\ UNCHANGED <<origin, marks, built, backlog, triggers>>

\* The triggers are RocksDB's own, unless the full compaction is still to come.
OpenedWith(db) == IF marks[db].full THEN "steady" ELSE "wide"

Open ==
    /\ doing = "open" /\ doing' = "verify"
    /\ triggers' = [triggers EXCEPT ![Head(todo)] = OpenedWith(Head(todo))]
    /\ UNCHANGED <<origin, marks, built, backlog, config, todo, starts>>

\* The next database, or what follows the last one.
Go(step, then) == todo' = Tail(todo) /\ doing' = IF Len(todo) > 1 THEN step ELSE then

Upgrades(m) == m.version = <<config.light, config.flags>>

Matches(m) == m.version = <<config.light>>
Refuses(m) ==
    \/ m.version # <<>> /\ ~Upgrades(m) /\ ~Matches(m)
    \/ Matches(m) /\ m.flags \notin {<<>>, <<config.flags>>}

\* verify_compatibility: what it finds in V and VF.
Verify ==
    /\ doing = "verify"
    /\ LET m == marks[Head(todo)]
       IN  \/ Refuses(m) /\ doing' = "refused" /\ todo' = <<>>
           \/ (m.version = <<>> \/ Upgrades(m)) /\ doing' = "putFlags" /\ UNCHANGED todo
           \/ Matches(m) /\ m.flags = <<>> /\ doing' = "putOnlyFlags" /\ UNCHANGED todo
           \/ Matches(m) /\ m.flags = <<config.flags>> /\ Go("open", "running")
    /\ UNCHANGED <<origin, marks, built, backlog, triggers, config, starts>>

\* VF is put before V.
VersionFirst(m) == [m EXCEPT !.version = <<config.light>>]

FlagsPut(m) == [m EXCEPT !.flags = <<config.flags>>]
VersionPut(m) == [m EXCEPT !.version = <<config.light>>]

PutFlags ==
    /\ doing \in {"putFlags", "putOnlyFlags"} /\ marks' = [marks EXCEPT ![Head(todo)] = FlagsPut(@)]
    /\ IF doing = "putFlags" THEN doing' = "putVersion" /\ UNCHANGED todo ELSE Go("open", "running")
    /\ UNCHANGED <<origin, built, backlog, triggers, config, starts>>

PutVersion ==
    /\ doing = "putVersion" /\ marks' = [marks EXCEPT ![Head(todo)] = VersionPut(@)]
    /\ Go("open", "running")
    /\ UNCHANGED <<origin, built, backlog, triggers, config, starts>>

\* The indexer writes rows of its settings; with wide triggers their files pile up at level 0.
Write(db) ==
    /\ doing = "running"
    /\ built' = [built EXCEPT ![db] = @ \cup {config}]
    /\ backlog' = IF triggers[db] = "wide" THEN backlog \cup {db} ELSE backlog
    /\ UNCHANGED <<origin, marks, triggers, config, doing, todo, starts>>

\* finish_sync_writes and start_auto_compactions, for one database after the other.
FinishSync ==
    /\ doing = "running" /\ doing' = "compact" /\ todo' = Stores
    /\ UNCHANGED <<origin, marks, built, backlog, triggers, config, starts>>

Compact ==
    /\ doing = "compact"
    /\ IF marks[Head(todo)].full
       THEN Go("compact", "running") /\ UNCHANGED backlog
       ELSE backlog' = backlog \ {Head(todo)} /\ doing' = "tighten" /\ UNCHANGED todo
    /\ UNCHANGED <<origin, marks, built, triggers, config, starts>>

Tighten ==
    /\ doing = "tighten" /\ doing' = "sentinel" /\ triggers' = [triggers EXCEPT ![Head(todo)] = "steady"]
    /\ UNCHANGED <<origin, marks, built, backlog, config, todo, starts>>

PutSentinel ==
    /\ doing = "sentinel" /\ marks' = [marks EXCEPT ![Head(todo)].full = TRUE]
    /\ Go("compact", "running")
    /\ UNCHANGED <<origin, built, backlog, triggers, config, starts>>

Crash ==
    /\ doing \notin {"down", "refused"} /\ doing' = "down" /\ todo' = <<>>
    /\ UNCHANGED <<origin, marks, built, backlog, triggers, config, starts>>

Next ==
    \/ Start \/ Open \/ Verify \/ PutFlags \/ PutVersion \/ (\E db \in Names : Write(db))
    \/ FinishSync \/ Compact \/ Tighten \/ PutSentinel \/ Crash

Spec == Init /\ [][Next]_vars

----------------------------------------------------------------------------
BuiltWith == UNION {built[d] : d \in Names}

\* The rows of the three databases were all built with the same settings (db.rs:399-447), whichever
\* settings electrs is started with and wherever it dies; except if an earlier version did not record them.
OneSetting == origin # "unflagged" => \A s, t \in BuiltWith : s = t

\* Databases that hold rows are never refused to the settings these rows were built with
\* (db.rs:414-435), also if electrs died while it recorded them.
RightSettingOpens == (origin # "unflagged" /\ doing = "refused") => config \notin BuiltWith

\* "Must be called only after a compaction has drained L0" (db.rs:236): no open database has steady-state
\* triggers and the backlog of a bulk load, whenever electrs died during it or during the compaction.
BacklogDrained ==
    \A d \in Names : (doing \notin {"down", "refused"} /\ triggers[d] = "steady") => d \notin backlog
==============================================================================

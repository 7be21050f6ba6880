---------------------------- MODULE DaemonParts ----------------------------
(***************************************************************************)
(* The parts of electrs that guard its calls of bitcoind and its databases:*)
(* the calls over the shared connection (DaemonRpc), the proxied calls and *)
(* the receipt of one reply; what is recorded about the databases when     *)
(* they are opened, and their offline migration.  "part" is the one that a *)
(* behaviour runs.                                                         *)
(***************************************************************************)
EXTENDS DaemonRpc, FiniteSets

CONSTANTS
    Proxies, Permits, MaxProxied,
    MaxLine, MaxHeaders, MaxHeaderBytes, MaxBody, Budget, Pieces, Lengths, Unknown,
    OldBlocks, OldHeight, BestChain, OldTxs, SpentBy, Addresses, BatchRows, MaxCrashes,
    Lights, Flags, MaxStarts

ASSUME LimitAssumption == IsFiniteSet(Proxies) /\ Permits \subseteq Nat
ASSUME ReplyAssumption ==
    /\ MaxLine \in Nat /\ MaxHeaders \in Nat /\ MaxHeaderBytes \in Nat /\ MaxBody \in Nat /\ Budget \in Nat
    /\ Pieces \subseteq Nat /\ Lengths \subseteq Nat

\* The best chain is a chain: it has a tip, and a transaction is in one block of it and an output spent once.
ASSUME MigrationAssumption ==
    /\ BestChain \subseteq OldBlocks /\ \A b \in BestChain : OldHeight[b] \in Nat
    /\ \E b \in BestChain : \A c \in BestChain : OldHeight[c] <= OldHeight[b]
    /\ \A b, c \in BestChain : OldTxs[b] \cap OldTxs[c] # {} => b = c
    /\ \A b, c \in BestChain : \A t \in OldTxs[b] : \A u \in OldTxs[c] : SpentBy[t] \cap SpentBy[u] # {} => t = u

VARIABLES
    part,
    capacity, available, proxy, late, proxied,
    stage, line, fields, fieldBytes, length, body, clock, wakes,
    rows, disk, doing, todo, crashes,
    origin, marks, built, backlog, triggers, config, opening, toOpen, starts

Limit == INSTANCE ProxyLimit
Reply == INSTANCE HttpReply
Move == INSTANCE Migration
Stored == INSTANCE DatabaseOpen WITH doing <- opening, todo <- toOpen

----------------------------------------------------------------------------
\* A result goes to the request that it answers, and a connection with a reply that nobody waits for is
\* about to be replaced (DaemonRpc).
ResultsAreMatched == part = "rpc" => TypeOK /\ ResultsMatch /\ RepairPending

\* The permits are those not in use, and no thread sleeps past a free one (ProxyLimit); receiving a reply
\* ends by its deadline, within its caps and within the reply (HttpReply).
LimitIsKept ==
    /\ part = "limit" => Limit!SlotsExact /\ Limit!NoLostWakeup
    /\ part = "reply" => Reply!RecvBounded /\ Reply!ReadsWithinCaps

\* Wherever the migration dies the next run can finish it, and a database of version 2 holds the rows of
\* the best chain (Migration).
MigrationIsSafe == part = "migrate" => Move!NothingLost /\ Move!MigratedExact

\* All rows were built with the same settings, the databases open with the settings they were built with,
\* and none has steady-state triggers and the backlog of a bulk load (DatabaseOpen).
SettingsAreOne ==
    part = "open" => Stored!OneSetting /\ Stored!RightSettingOpens /\ Stored!BacklogDrained
=============================================================================

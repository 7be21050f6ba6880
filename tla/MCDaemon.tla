------------------------------ MODULE MCDaemon ------------------------------
(***************************************************************************)
(* What electrs does with bitcoind, apart from the index: the shared and   *)
(* the proxied calls, receiving one reply, what an update downloads, the   *)
(* threads that fetch blocks, and what wakes the main loop; and what it    *)
(* records about its databases when it opens them, and their offline       *)
(* migration.  A behaviour runs one of these parts, chosen in its initial  *)
(* state.                                                                  *)
(***************************************************************************)
EXTENDS DaemonParts

CONSTANTS
    Parent, Origin, Chunk, MaxAttempts, MaxSwitches,
    Files, NewHeaders, Batches,
    Main, Helpers, Patience, MaxBreaks, MaxBackoffs, MaxTerms,
    Askers, AssetTxs, Changes, MaxHeight, MaxReorgs, MaxAsks,
    Lookups, RegisteredSets, MaxBlocks, MaxSyncs

VARIABLES
    best, switches, phase, tip, indexed, cursor, hashes, headers, blocks, attempts,
    input, parsing, wanted, entries, chan, hold, gone, state, errs, fetched,
    behind, arrived, signals, wakeups, remains, at, link, queued, event, dead, recent,
    breaks, backoffs, terms,
    published, assetRows, totals, indexer, fresh, query, reorgs, asks,
    bitcoind, issuanceRow, issued, listing, loop, registry, syncer, lookup, mined, syncs

Load == INSTANCE Download
Fetch == INSTANCE Fetcher
Wake == INSTANCE Wakeup
File == INSTANCE BlkFile
Total == INSTANCE AssetTotals
Assets == INSTANCE AssetLookup

rpcVars == <<up, faults, conn, holder, caller, lastId, requests, interrupted, matched>>
limitVars == <<capacity, available, proxy, late, proxied>>
replyVars == <<stage, line, fields, fieldBytes, length, body, clock, wakes>>
loadVars == <<best, switches, phase, tip, indexed, cursor, hashes, headers, blocks, attempts>>
fetchVars == <<input, parsing, wanted, entries, chan, hold, gone, state, errs, fetched>>
wakeVars == <<behind, arrived, signals, wakeups, remains, at, link, queued, event, dead, recent,
              breaks, backoffs, terms>>
moveVars == <<rows, disk, doing, todo, crashes>>
openVars == <<origin, marks, built, backlog, triggers, config, opening, toOpen, starts>>
totalVars == <<published, assetRows, totals, indexer, fresh, query, reorgs, asks>>
assetVars == <<bitcoind, issuanceRow, issued, listing, loop, registry, syncer, lookup, mined, syncs>>
mcVars == <<part, rpcVars, limitVars, replyVars, loadVars, fetchVars, wakeVars, moveVars, openVars,
            totalVars, assetVars>>

----------------------------------------------------------------------------
\* An asset that one transaction issues and another burns in two outputs.
IssuedAndBurned == [i |-> <<2>>, b |-> <<-1, -1>>]

\* A branch of four blocks and one of five that forks from it at the second.
TwoBranches == [b \in 1..7 |-> IF b = 5 THEN 2 ELSE b - 1]

\* Files that end in a part of a block, hold a block twice, or hold the prefix of one that was not written.
Blob(a, b, c, cut) == SubSeq(a \o b \o c, 1, Len(a \o b \o c) - cut)
Contents ==
    {<<Blob(a, b, c, cut)>> : cut \in 0..2,
        a \in {File!Written(1, 2), File!Unwritten(1) \o File!Written(3, 1), File!Unwritten(4)},
        b \in {File!Written(2, 1), File!Reserved(1) \o File!Written(2, 2)},
        c \in {File!Written(3, 3), File!Reserved(2), File!Written(1, 2)}}
    \cup {<<File!Written(2, 1) \o File!Written(1, 2), File!Written(1, 2) \o File!Reserved(1),
            Blob(File!Written(3, 1), File!Written(2, 2), <<>>, 1), File!Reserved(2), File!Written(2, 1)>>}
FourBatches == {<<<<1, 2>>, <<3, 4>>, <<5>>, <<6>>>>}

\* A branch of two stale blocks: "t1" is confirmed at another height than in it, "t2" conflicts with
\* "t3", and "t4" is at the same height of both branches.
TwoHeights == [b1 |-> 1, b2 |-> 2, s1 |-> 1, s2 |-> 2]
TwoVersions == [b1 |-> {"t3"}, b2 |-> {"t1", "t4"}, s1 |-> {"t1", "t2"}, s2 |-> {"t4"}]
Conflict == [t1 |-> {}, t2 |-> {"o"}, t3 |-> {"o"}, t4 |-> {"q"}]

----------------------------------------------------------------------------
NoRpc == up = 0 /\ faults = 0 /\ conn = 0 /\ holder = 0 /\ caller = 0 /\ lastId = 0 /\ requests = 0
         /\ interrupted = 0 /\ matched = 0
NoLimit == capacity = 0 /\ available = 0 /\ proxy = 0 /\ late = 0 /\ proxied = 0
NoReply == stage = 0 /\ line = 0 /\ fields = 0 /\ fieldBytes = 0 /\ length = 0 /\ body = 0 /\ clock = 0
           /\ wakes = 0
NoLoad == best = 0 /\ switches = 0 /\ phase = 0 /\ tip = 0 /\ indexed = 0 /\ cursor = 0 /\ hashes = 0
          /\ headers = 0 /\ blocks = 0 /\ attempts = 0
NoFetch == input = 0 /\ parsing = 0 /\ wanted = 0 /\ entries = 0 /\ chan = 0 /\ hold = 0 /\ gone = 0
           /\ state = 0 /\ errs = 0 /\ fetched = 0
NoWake == behind = 0 /\ arrived = 0 /\ signals = 0 /\ wakeups = 0 /\ remains = 0 /\ at = 0
          /\ link = 0 /\ queued = 0 /\ event = 0 /\ dead = 0 /\ recent = 0 /\ breaks = 0 /\ backoffs = 0
          /\ terms = 0
NoMove == rows = 0 /\ disk = 0 /\ doing = 0 /\ todo = 0 /\ crashes = 0
NoOpen == origin = 0 /\ marks = 0 /\ built = 0 /\ backlog = 0 /\ triggers = 0 /\ config = 0 /\ opening = 0
          /\ toOpen = 0 /\ starts = 0
NoTotal == published = 0 /\ assetRows = 0 /\ totals = 0 /\ indexer = 0 /\ fresh = 0 /\ query = 0 /\ reorgs = 0
           /\ asks = 0
NoAsset == bitcoind = 0 /\ issuanceRow = 0 /\ issued = 0 /\ listing = 0 /\ loop = 0 /\ registry = 0 /\ syncer = 0
           /\ lookup = 0 /\ mined = 0 /\ syncs = 0

MCInit ==
    \/ part = "rpc" /\ Init /\ NoLimit /\ NoReply /\ NoLoad /\ NoFetch /\ NoWake /\ NoMove /\ NoOpen /\ NoTotal /\ NoAsset
    \/ part = "limit" /\ NoRpc /\ Limit!Init /\ NoReply /\ NoLoad /\ NoFetch /\ NoWake /\ NoMove /\ NoOpen /\ NoTotal /\ NoAsset
    \/ part = "reply" /\ NoRpc /\ NoLimit /\ Reply!Init /\ NoLoad /\ NoFetch /\ NoWake /\ NoMove /\ NoOpen /\ NoTotal /\ NoAsset
    \/ part = "load" /\ NoRpc /\ NoLimit /\ NoReply /\ Load!Init /\ NoFetch /\ NoWake /\ NoMove /\ NoOpen /\ NoTotal /\ NoAsset
    \/ part = "fetch" /\ NoRpc /\ NoLimit /\ NoReply /\ NoLoad /\ Fetch!Init /\ NoWake /\ NoMove /\ NoOpen /\ NoTotal /\ NoAsset
    \/ part = "wake" /\ NoRpc /\ NoLimit /\ NoReply /\ NoLoad /\ NoFetch /\ Wake!Init /\ NoMove /\ NoOpen /\ NoTotal /\ NoAsset
    \/ part = "migrate" /\ NoRpc /\ NoLimit /\ NoReply /\ NoLoad /\ NoFetch /\ NoWake /\ Move!Init /\ NoOpen /\ NoTotal /\ NoAsset
    \/ part = "open" /\ NoRpc /\ NoLimit /\ NoReply /\ NoLoad /\ NoFetch /\ NoWake /\ NoMove /\ Stored!Init /\ NoTotal /\ NoAsset
    \/ part = "totals" /\ NoRpc /\ NoLimit /\ NoReply /\ NoLoad /\ NoFetch /\ NoWake /\ NoMove /\ NoOpen /\ Total!Init /\ NoAsset
    \/ part = "assets" /\ NoRpc /\ NoLimit /\ NoReply /\ NoLoad /\ NoFetch /\ NoWake /\ NoMove /\ NoOpen /\ NoTotal /\ Assets!Init

RpcOnly == /\ part = "rpc"
           /\ UNCHANGED <<part, limitVars, replyVars, loadVars, fetchVars, wakeVars, moveVars, openVars, totalVars, assetVars>>
LimitOnly == /\ part = "limit"
             /\ UNCHANGED <<part, rpcVars, replyVars, loadVars, fetchVars, wakeVars, moveVars, openVars, totalVars, assetVars>>
ReplyOnly == /\ part = "reply"
             /\ UNCHANGED <<part, rpcVars, limitVars, loadVars, fetchVars, wakeVars, moveVars, openVars, totalVars, assetVars>>
LoadOnly == /\ part = "load"
            /\ UNCHANGED <<part, rpcVars, limitVars, replyVars, fetchVars, wakeVars, moveVars, openVars, totalVars, assetVars>>
FetchOnly == /\ part = "fetch"
             /\ UNCHANGED <<part, rpcVars, limitVars, replyVars, loadVars, wakeVars, moveVars, openVars, totalVars, assetVars>>
WakeOnly == /\ part = "wake"
            /\ UNCHANGED <<part, rpcVars, limitVars, replyVars, loadVars, fetchVars, moveVars, openVars, totalVars, assetVars>>
MoveOnly == /\ part = "migrate"
            /\ UNCHANGED <<part, rpcVars, limitVars, replyVars, loadVars, fetchVars, wakeVars, openVars, totalVars, assetVars>>
OpenOnly == /\ part = "open"
            /\ UNCHANGED <<part, rpcVars, limitVars, replyVars, loadVars, fetchVars, wakeVars, moveVars, totalVars, assetVars>>
TotalOnly == /\ part = "totals"
             /\ UNCHANGED <<part, rpcVars, limitVars, replyVars, loadVars, fetchVars, wakeVars, moveVars, openVars, assetVars>>
AssetOnly == /\ part = "assets"
             /\ UNCHANGED <<part, rpcVars, limitVars, replyVars, loadVars, fetchVars, wakeVars, moveVars, openVars, totalVars>>

MCNext ==
    \/ RpcOnly /\ Next
    \/ LimitOnly /\ Limit!Next
    \/ ReplyOnly /\ Reply!Next
    \/ LoadOnly /\ Load!Next
    \/ FetchOnly /\ Fetch!Next
    \/ WakeOnly /\ Wake!Next
    \/ MoveOnly /\ Move!Next
    \/ OpenOnly /\ Stored!Next
    \/ TotalOnly /\ Total!Next
    \/ AssetOnly /\ Assets!Next

\* The fairness of the parts, of which one runs: the i-th fair action of each.
Fair(i) ==
    \/ RpcOnly /\ \/ i \in Callers /\ Calls(i)
                  \/ i = 3 /\ Answer
                  \/ i = 4 /\ Restart
    \/ LimitOnly /\ i \in Proxies /\ Limit!Serves(i)
    \/ ReplyOnly /\ \/ i = 1 /\ Reply!Tick
                    \/ i = 2 /\ Reply!TimesOut
    \/ LoadOnly /\ i = 1 /\ Load!Steps
    \/ FetchOnly /\ i \in DOMAIN state /\ Fetch!Runs(i)
    \/ WakeOnly /\ \/ i = 1 /\ Wake!Tick
                   \/ i = 2 /\ Wake!CatchUp
                   \/ i = 3 /\ Wake!Rebuild
                   \/ i = 4 /\ Wake!OnTimer(Main)
                   \/ i = 5 /\ \E h \in Helpers : Wake!OnTimer(h)

MCSpec == MCInit /\ [][MCNext]_mcVars /\ \A i \in 1..5 : WF_mcVars(Fair(i))

----------------------------------------------------------------------------
\* Headers that are accepted are the chain of the tip, and blocks that are returned those asked for
\* (Download).
DownloadsAreExact == part = "load" => Load!HeadersExact /\ Load!BlocksExact

\* A fetch that succeeds handed over every block once, with no thread left running, and what parse_blocks
\* finds is in the file (Fetcher, BlkFile).
FetchedIsAll == part = "fetch" => Fetch!FetchedAll /\ Fetch!NoneLeftBehind /\ Fetch!ParsesBlocks

\* Cached totals of an asset are those of the chain up to their block, the totals returned are of one chain
\* (AssetTotals), and an asset known throughout a request is found (AssetLookup).
AssetsAreExact ==
    /\ part = "totals" => Total!TotalsExact /\ Total!TotalsOfOneChain
    /\ part = "assets" => Assets!KnownAssetFound

\* "bitcoind is no longer queried to serve user requests and is only polled periodically for new blocks and
\* for syncing the mempool" (README.md:55-56): the main loop, which polls, never waits for a lock that no
\* request can release (AssetLookup).
PollingGoesOn == part = "assets" => Assets!PollingGoesOn

\* Every call of bitcoind returns: a request once bitcoind answers, a proxied one and the receipt of a
\* reply by their deadlines, a download after its attempts.  The threads of a fetch end whichever of them
\* fails, and a wait to reconnect ends however often it is interrupted (Fetcher, Wakeup).
CallsReturn ==
    LET Waiting == CASE part = "rpc" -> Pending(1)
                     [] part = "limit" -> Limit!Pending(1)
                     [] part = "reply" -> Reply!Receiving
                     [] part = "load" -> phase \notin {"done", "failed"}
                     [] part = "fetch" -> \E t \in DOMAIN state : ~Fetch!Returned(t)
                     [] part = "wake" -> \E h \in Helpers : at[h] = "wait"
                     [] OTHER -> FALSE
    IN  Waiting ~> ~Waiting

\* A block is indexed whatever becomes of its notification, and the subscription to notifications is
\* rebuilt (Wakeup).
BlocksAreNoticed ==
    /\ part = "wake" /\ behind ~> part # "wake" \/ ~behind \/ at[Main] = "stopped"
    /\ part = "wake" /\ link = "gone" ~> part # "wake" \/ link = "up"
==============================================================================

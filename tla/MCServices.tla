----------------------------- MODULE MCServices -----------------------------
(***************************************************************************)
(* What the servers do for their clients beside the Electrum sessions: the *)
(* bytes of replies, the time one may take, the age of a connection, the   *)
(* caches that requests share, the peers that clients add and the two      *)
(* stores that the HTTP server answers from.  A behaviour runs one of      *)
(* these parts, chosen in its initial state.                               *)
(***************************************************************************)
EXTENDS Responses

CONSTANTS
    Size, SendBuffer, Timeouts, MaxAssembly, Never,
    MaxAge, CompactMin, MaxLive, MaxConnections, LastTick, Endless,
    Threads, Chains, Proofs, MaxLeaves, MaxEntries, TreeCapacity, Limits, MaxProofs, MaxReorgs, Nil,
    Clients, Blocks, HeightOf, MaxFetches, MaxTips, Absent,
    Callers, MaxAsks, NoFee,
    Services, ServerOf, Defaults, MaxQueue, MaxServices, MaxFailures, MaxAdded,
    Txids, ParentsOf, Funding, Spending, PageSize, ScanLimits, MaxHeight, MaxPops, Nothing,
    HttpConns

VARIABLES
    which,
    timeout, now, writing, deadline, began, wakes, sent, read, timedOut, open,
    clock, accepted, live, inbox, queue, compactAt, sleeps, peak,
    limit, chain, reorgs, entries, waiters, holder, lastBuilt, rebuilds, buildBytes, step, asked, cpHash,
    sibling, tree, best, served, proofs,
    daemonTip, indexTip, tips, cache, fetch, fetches, client, fits,
    cached, locked, caller, asks,
    checks, running, doing, healthy, added,
    scanLimit, heights, above, stored, pool, pops, kind, target, at, txs, prevouts, pageEnd, told, result,
    lost, row, always,
    server, http, handlers, httpReply, cut, late

Writing == INSTANCE ClientWriter
Reaper == INSTANCE ExpiryQueue
Checkpoint == INSTANCE CheckpointCache WITH Requests <- Proofs, answer <- served
Template == INSTANCE BlockTemplate
Fee == INSTANCE FeeCache
Peers == INSTANCE Discovery
View == INSTANCE ClientView
Web == INSTANCE HttpServer

writerVars == <<timeout, now, writing, deadline, began, wakes, sent, read, timedOut, open>>
reaperVars == <<clock, accepted, live, inbox, queue, compactAt, sleeps, peak>>
proofVars == <<limit, chain, reorgs, entries, waiters, holder, lastBuilt, rebuilds, buildBytes, step, asked,
               cpHash, sibling, tree, best, served, proofs>>
templateVars == <<daemonTip, indexTip, tips, cache, fetch, fetches, client, fits>>
feeVars == <<cached, locked, caller, asks>>
peerVars == <<checks, running, doing, healthy, added>>
viewVars == <<scanLimit, heights, above, stored, pool, pops, kind, target, at, txs, prevouts, pageEnd, told,
              result, lost, row, always>>
webVars == <<server, http, handlers, httpReply, cut, late>>
mcVars == <<which, vars, writerVars, reaperVars, proofVars, templateVars, feeVars, peerVars, viewVars, webVars>>

----------------------------------------------------------------------------
Command(id, reply) == [id |-> id, reply |-> reply]
Alone(reply) == [batch |-> FALSE, commands |-> <<Command(1, reply)>>]
Pair(a, b) == [batch |-> TRUE, commands |-> <<Command(0, a), Command(1, b)>>]

SomeRequests ==
    {Alone(2), Alone(9), Pair(4, 7), Pair(8, 1),
     [batch |-> FALSE, commands |-> <<>>], [batch |-> TRUE, commands |-> <<>>],
     [batch |-> TRUE, commands |-> <<Command(0, 1), Command(0, 1), Command(0, 1)>>],
     [batch |-> TRUE, commands |-> <<Command(9, 1)>>]}

Envelopes == [line |-> 2, global |-> 2, skipped |-> 3, parse |-> 1]

ThreeChains == {<<"g", "a1", "a2", "a3">>, <<"g", "a1", "b2", "b3">>, <<"g", "a1", "b2">>}
TwoProofs == {[height |-> 2, cp |-> 2], [height |-> 3, cp |-> 3]}

Tips == {"a2", "b2"}
TipHeight == [a2 |-> 2, b2 |-> 2]

\* A server with two services; the second is also that of a default server.
OneServer == <<"a", "a">>

\* The second transaction spends an output of the first.
ChildOfOne == <<{}, {1}>>

----------------------------------------------------------------------------
NoReply == reserved = 0 /\ granted = 0 /\ len = 0 /\ cap = 0 /\ pc = 0 /\ request = 0 /\ item = 0
           /\ part = 0 /\ left = 0 /\ start = 0 /\ seen = 0 /\ overflow = 0 /\ replies = 0
           /\ executed = 0 /\ received = 0
NoWriter == timeout = 0 /\ now = 0 /\ writing = 0 /\ deadline = 0 /\ began = 0 /\ wakes = 0
            /\ sent = 0 /\ read = 0 /\ timedOut = 0 /\ open = 0
NoReaper == clock = 0 /\ accepted = 0 /\ live = 0 /\ inbox = 0 /\ queue = 0 /\ compactAt = 0
            /\ sleeps = 0 /\ peak = 0
NoProof == limit = 0 /\ chain = 0 /\ reorgs = 0 /\ entries = 0 /\ waiters = 0 /\ holder = 0
           /\ lastBuilt = 0 /\ rebuilds = 0 /\ buildBytes = 0 /\ step = 0 /\ asked = 0 /\ cpHash = 0
           /\ sibling = 0 /\ tree = 0 /\ best = 0 /\ served = 0 /\ proofs = 0
NoTemplate == daemonTip = 0 /\ indexTip = 0 /\ tips = 0 /\ cache = 0 /\ fetch = 0 /\ fetches = 0
              /\ client = 0 /\ fits = 0
NoFees == cached = 0 /\ locked = 0 /\ caller = 0 /\ asks = 0
NoPeer == checks = 0 /\ running = 0 /\ doing = 0 /\ healthy = 0 /\ added = 0
NoView == scanLimit = 0 /\ heights = 0 /\ above = 0 /\ stored = 0 /\ pool = 0 /\ pops = 0 /\ kind = 0
          /\ target = 0 /\ at = 0 /\ txs = 0 /\ prevouts = 0 /\ pageEnd = 0 /\ told = 0 /\ result = 0
          /\ lost = 0 /\ row = 0 /\ always = 0
NoWeb == server = 0 /\ http = 0 /\ handlers = 0 /\ httpReply = 0 /\ cut = 0 /\ late = 0

MCInit ==
    \/ which = "replies" /\ Init
       /\ NoWriter /\ NoReaper /\ NoProof /\ NoTemplate /\ NoFees /\ NoPeer /\ NoView /\ NoWeb
    \/ which = "write" /\ Writing!Init
       /\ NoReply /\ NoReaper /\ NoProof /\ NoTemplate /\ NoFees /\ NoPeer /\ NoView /\ NoWeb
    \/ which = "reaper" /\ Reaper!Init
       /\ NoReply /\ NoWriter /\ NoProof /\ NoTemplate /\ NoFees /\ NoPeer /\ NoView /\ NoWeb
    \/ which = "checkpoint" /\ Checkpoint!Init
       /\ NoReply /\ NoWriter /\ NoReaper /\ NoTemplate /\ NoFees /\ NoPeer /\ NoView /\ NoWeb
    \/ which = "template" /\ Template!Init /\ daemonTip = "a2"
       /\ NoReply /\ NoWriter /\ NoReaper /\ NoProof /\ NoFees /\ NoPeer /\ NoView /\ NoWeb
    \/ which = "fee" /\ Fee!Init
       /\ NoReply /\ NoWriter /\ NoReaper /\ NoProof /\ NoTemplate /\ NoPeer /\ NoView /\ NoWeb
    \/ which = "peers" /\ Peers!Init
       /\ NoReply /\ NoWriter /\ NoReaper /\ NoProof /\ NoTemplate /\ NoFees /\ NoView /\ NoWeb
    \/ which = "view" /\ View!Init
       /\ NoReply /\ NoWriter /\ NoReaper /\ NoProof /\ NoTemplate /\ NoFees /\ NoPeer /\ NoWeb
    \/ which = "web" /\ Web!Init
       /\ NoReply /\ NoWriter /\ NoReaper /\ NoProof /\ NoTemplate /\ NoFees /\ NoPeer /\ NoView

ReplyOnly ==
    /\ which = "replies"
    /\ UNCHANGED <<which, writerVars, reaperVars, proofVars, templateVars, feeVars, peerVars, viewVars, webVars>>
WriterOnly ==
    /\ which = "write"
    /\ UNCHANGED <<which, vars, reaperVars, proofVars, templateVars, feeVars, peerVars, viewVars, webVars>>
ReaperOnly ==
    /\ which = "reaper"
    /\ UNCHANGED <<which, vars, writerVars, proofVars, templateVars, feeVars, peerVars, viewVars, webVars>>
ProofOnly ==
    /\ which = "checkpoint"
    /\ UNCHANGED <<which, vars, writerVars, reaperVars, templateVars, feeVars, peerVars, viewVars, webVars>>
TemplateOnly ==
    /\ which = "template"
    /\ UNCHANGED <<which, vars, writerVars, reaperVars, proofVars, feeVars, peerVars, viewVars, webVars>>
FeeOnly ==
    /\ which = "fee"
    /\ UNCHANGED <<which, vars, writerVars, reaperVars, proofVars, templateVars, peerVars, viewVars, webVars>>
PeerOnly ==
    /\ which = "peers"
    /\ UNCHANGED <<which, vars, writerVars, reaperVars, proofVars, templateVars, feeVars, viewVars, webVars>>
ViewOnly ==
    /\ which = "view"
    /\ UNCHANGED <<which, vars, writerVars, reaperVars, proofVars, templateVars, feeVars, peerVars, webVars>>
WebOnly ==
    /\ which = "web"
    /\ UNCHANGED <<which, vars, writerVars, reaperVars, proofVars, templateVars, feeVars, peerVars, viewVars>>

MCNext ==
    \/ ReplyOnly /\ Next
    \/ WriterOnly /\ Writing!Next
    \/ ReaperOnly /\ Reaper!Next
    \/ ProofOnly /\ Checkpoint!Next
    \/ TemplateOnly /\ Template!Next
    \/ FeeOnly /\ Fee!Next
    \/ PeerOnly /\ Peers!Next
    \/ ViewOnly /\ View!Next
    \/ WebOnly /\ Web!Next

\* The fairness of the parts, of which one runs: the i-th fair action of each.
Fair(i) ==
    \/ ReplyOnly /\ i \in Conns /\ Step(i)
    \/ WriterOnly /\ \/ i = 1 /\ Writing!Tick
                     \/ i = 2 /\ Writing!Writer
    \/ ProofOnly /\ i \in Threads /\ Checkpoint!Works(i)
    \/ TemplateOnly /\ \/ i \in Clients /\ Template!Receive(i)
                       \/ i - 2 \in 1..MaxFetches /\ Template!Worker(i - 2)
    \/ FeeOnly /\ i \in Callers /\ Fee!Proceeds(i)
    \/ WebOnly /\ \/ i \in HttpConns /\ Web!HandlerEnds(i)
                  \/ i = 4 /\ Web!Shutdown

MCSpec == MCInit /\ [][MCNext]_mcVars /\ \A i \in 1..4 : WF_mcVars(Fair(i))

----------------------------------------------------------------------------
\* The bytes reserved are those of the grants that are held, a reply above the floor is charged for, the
\* error of a refused request always fits, and every executed command has its one reply (Responses).
RepliesAreSafe ==
    which = "replies" => BudgetExact /\ ChargedAboveFloor /\ ErrorsAlwaysFit /\ OneReplyEach

\* A reply is written or given up by its deadline (ClientWriter); a connection is closed at its age, and
\* the queue of ages stays in proportion to the live connections (ExpiryQueue).
ConnectionsAreBounded ==
    /\ which = "write" => Writing!DeliveryBounded
    /\ which = "reaper" => Reaper!AgeBounded /\ Reaper!QueueProportional

\* Over lists of up to MaxLeaves leaves, both ways to make a branch climb from every leaf to the
\* root, levels of odd length included; looked at once, when the checkpoint cache starts.
BranchesClimb ==
    which = "checkpoint" /\ proofs = 0 /\ reorgs = 0 =>
        \A n \in 1..MaxLeaves : Checkpoint!BranchesAgree(n)

\* Branches climb to the root (Merkle), and a served proof climbs to the root of one chain, whatever the
\* cached tree and the headers were read from (CheckpointCache).
ProofsAreValid == BranchesClimb /\ (which = "checkpoint" => Checkpoint!ProofsVerify)

\* The permits of builds are those in use, the cached trees stay within their share, and cached, retained
\* and growing trees together within the capacity (CheckpointCache).
MemoryIsBounded ==
    which = "checkpoint" => Checkpoint!PermitsExact /\ Checkpoint!CacheBounded /\ Checkpoint!MemoryBounded

\* At most one call for a block template is in flight, a served template fits a tip of the index
\* (BlockTemplate), and fees are asked for one call at a time and only when they are stale (FeeCache).
CallsAreShared ==
    /\ which = "template" => Template!SingleFlight /\ Template!TemplatesFit
    /\ which = "fee" => Fee!CalledWhenStale

\* A service that is listed is checked again, and the queue of checks keeps its bound (Discovery).
PeersAreWatched == which = "peers" => Peers!ListedWatched /\ Peers!QueueBounded

\* The assertion of remove_unhealthy_service (Discovery).
RemovesListed == which = "peers" => Peers!RemovesListed

\* An HTTP client that pages through a history or looks a transaction up is told once of each transaction,
\* and of each one that was visible all the time (ClientView); and the stop of the server breaks off
\* no request, unless it takes too long (HttpServer).
HttpAnswersAreWhole ==
    /\ which = "view" => View!AnswersOnce /\ View!HistoryComplete /\ View!VisibleIsFound
    /\ which = "web" => Web!CutsNone

\* Every request is answered, though the build, the worker or the call that it waits for is refused, fails
\* or stops; the delivery of a reply with a write timeout ends; and the stop of the HTTP server returns,
\* though clients never send, never read or never leave.
RequestsAnswered ==
    \A n \in {1, 2} :
        LET Waiting == CASE which = "replies" -> pc[n] \notin {"idle", "failed", "closed"}
                         [] which = "write" -> timeout # Never /\ writing \notin {"done", "failed"}
                         [] which = "checkpoint" -> Checkpoint!Pending(n)
                         [] which = "template" -> Template!Pending(n)
                         [] which = "fee" -> Fee!Pending(n)
                         [] which = "web" -> Web!Stopping
                         [] OTHER -> FALSE
        IN  Waiting ~> ~Waiting
==============================================================================

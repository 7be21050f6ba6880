--------------------------- MODULE BlockTemplate ---------------------------
(***************************************************************************)
(* The block-template cache (new_index/block_template.rs): requests share  *)
(* one fetch from the daemon, made by a worker that outlives them, and its *)
(* result is kept while it fits the tip of the index.  The passing of time *)
(* is the moment at which a kept result becomes too old.                   *)
(***************************************************************************)
EXTENDS Integers, FiniteSets

CONSTANTS
    Clients,            \* HTTP requests
    Blocks, HeightOf,   \* blocks that may be a tip, and their heights
    MaxFetches,         \* bound on the fetches started
    MaxTips,            \* bound on the changes of tips
    Absent

VARIABLES
    daemonTip, indexTip, tips,  \* the daemon's and the index's tip
    cache,              \* BlockTemplateCacheEntry
    fetch,              \* per fetch: the worker and its watch channel
    fetches,            \* number of fetches so far
    client,             \* per client: the fetch it waits for, or 0
    fits                \* every template served so far fitted a tip of the index

vars == <<daemonTip, indexTip, tips, cache, fetch, fetches, client, fits>>
world == <<daemonTip, indexTip, tips>>

Fetches == 1..MaxFetches
Empty == [kind |-> "empty", of |-> 0, body |-> Absent, seen |-> Absent, old |-> FALSE]

NotStarted == [at |-> "none", body |-> Absent, seen |-> Absent, tried |-> 0, during |-> {}]

Init ==
    /\ daemonTip \in Blocks /\ indexTip = daemonTip /\ tips = 0
    /\ cache = Empty /\ fetches = 0
    /\ fetch = [f \in Fetches |-> NotStarted]
    /\ client = [c \in Clients |-> 0] /\ fits = TRUE

----------------------------------------------------------------------------
(* The daemon's chain, the index that follows it, and time.                *)

DaemonTip ==
    /\ tips < MaxTips /\ tips' = tips + 1
    /\ \E b \in Blocks \ {daemonTip} : HeightOf[b] >= HeightOf[daemonTip] /\ daemonTip' = b
    /\ UNCHANGED <<indexTip, cache, fetch, fetches, client, fits>>

\* The index catches up; the tips it has had since a fetch began are remembered with it.
Sync ==
    /\ indexTip # daemonTip /\ indexTip' = daemonTip
    /\ fetch' = [f \in Fetches |-> [fetch[f] EXCEPT !.during = IF @ = {} THEN {} ELSE @ \cup {daemonTip}]]
    /\ UNCHANGED <<daemonTip, tips, cache, fetches, client, fits>>

\* The time to live, or the backoff after a failure, has elapsed.
Elapse ==
    /\ cache.kind \in {"ready", "failed"} /\ ~cache.old /\ cache' = [cache EXCEPT !.old = TRUE]
    /\ UNCHANGED <<world, fetch, fetches, client, fits>>

----------------------------------------------------------------------------

\* CachedBlockTemplate::is_valid; a body stands for its parent block.
IsValid(tip) ==
    \/ cache.body = tip
    \/ HeightOf[cache.body] > HeightOf[tip] /\ cache.seen = tip

NeverJoins == FALSE

Joins == cache.kind = "fetching"

Hit == cache.kind = "ready" /\ ~cache.old /\ IsValid(indexTip)
BacksOff == cache.kind = "failed" /\ ~cache.old

\* A template for a block on top of parent is current for a tip in since, or ahead of it.
Serve(parent, since) ==
    fits' = (fits /\ \E tip \in since : parent = tip \/ HeightOf[parent] > HeightOf[tip])

\* get_or_fetch_with_tip_probe, up to the wait for the outcome.
Get(c) ==
    /\ client[c] = 0
    /\ \/ Hit /\ Serve(cache.body, {indexTip}) /\ UNCHANGED <<cache, fetch, fetches, client>>
       \/ BacksOff /\ UNCHANGED <<cache, fetch, fetches, client, fits>>
       \/ /\ Joins /\ client' = [client EXCEPT ![c] = cache.of]
          /\ UNCHANGED <<cache, fetch, fetches, fits>>
       \/ /\ ~Hit /\ ~BacksOff /\ ~Joins /\ fetches < MaxFetches
          /\ fetches' = fetches + 1
          /\ cache' = [Empty EXCEPT !.kind = "fetching", !.of = fetches']
          /\ fetch' = [fetch EXCEPT ![fetches'] = [NotStarted EXCEPT !.at = "fetch", !.during = {indexTip}]]
          /\ client' = [client EXCEPT ![c] = fetches'] /\ UNCHANGED fits
    /\ UNCHANGED world

\* A watch channel whose worker is done goes with its last receiver; the cache may hold one.
WithoutReceiver(c) ==
    LET f == client[c]
        kept == (\E d \in Clients \ {c} : client[d] = f) \/ (cache'.kind = "fetching" /\ cache'.of = f)
    IN  IF fetch[f].at \in {"done", "stopped"} /\ ~kept THEN [fetch EXCEPT ![f] = NotStarted] ELSE fetch

\* The request is dropped while it waits; the worker goes on.
Disconnect(c) ==
    /\ client[c] # 0 /\ client' = [client EXCEPT ![c] = 0]
    /\ UNCHANGED <<world, cache, fetches, fits>>
    /\ fetch' = WithoutReceiver(c)

----------------------------------------------------------------------------
(* The worker: fetch_valid_template, then the cache, then the channel.     *)

Fetch(f) ==
    /\ fetch[f].at = "fetch"
    /\ \/ fetch' = [fetch EXCEPT ![f].at = "probe", ![f].body = daemonTip]
       \/ fetch' = [fetch EXCEPT ![f].at = "store", ![f].body = Absent]     \* the call failed
    /\ UNCHANGED <<world, cache, fetches, client, fits>>

\* classify_template_tip: current or ahead of the index is used, stale is fetched once more.
Probe(f) ==
    /\ fetch[f].at = "probe"
    /\ LET body == fetch[f].body
       IN  fetch' = [fetch EXCEPT ![f] =
             IF body = indexTip \/ HeightOf[body] > HeightOf[indexTip]
             THEN [@ EXCEPT !.at = "store", !.seen = indexTip]
             ELSE [@ EXCEPT !.at = IF fetch[f].tried = 0 THEN "fetch" ELSE "store",
                            !.tried = @ + 1, !.body = Absent]]
    /\ UNCHANGED <<world, cache, fetches, client, fits>>

Store(f) ==
    /\ fetch[f].at = "store" /\ fetch' = [fetch EXCEPT ![f].at = "send"]
    /\ cache' = [kind |-> IF fetch[f].body = Absent THEN "failed" ELSE "ready", of |-> 0,
                 body |-> fetch[f].body, seen |-> fetch[f].seen, old |-> FALSE]
    /\ UNCHANGED <<world, fetches, client, fits>>

Send(f) ==
    /\ fetch[f].at = "send"
    /\ fetch' = [fetch EXCEPT ![f] = IF \E c \in Clients : client[c] = f
                                     THEN [NotStarted EXCEPT !.at = "done", !.body = fetch[f].body, !.during = fetch[f].during] ELSE NotStarted]
    /\ UNCHANGED <<world, cache, fetches, client, fits>>

\* The worker's task ends without a result and its sender is dropped.
Stops(f) ==
    /\ fetch[f].at \in {"fetch", "probe", "store"} /\ fetch' = [fetch EXCEPT ![f].at = "stopped"]
    /\ UNCHANGED <<world, cache, fetches, client, fits>>

----------------------------------------------------------------------------
SameChannel(c) == cache.kind = "fetching" /\ cache.of = client[c]

\* The outcome that the channel holds.
Outcome(c) ==
    /\ fetch[client[c]].at = "done" /\ UNCHANGED cache
    /\ IF fetch[client[c]].body = Absent THEN UNCHANGED fits
       ELSE Serve(fetch[client[c]].body, fetch[client[c]].during)

NeverStops(c) == FALSE

\* The worker stopped without one: who waited for it clears its entry.
WorkerStopped(c) ==
    /\ fetch[client[c]].at = "stopped" /\ UNCHANGED fits
    /\ cache' = IF SameChannel(c) THEN Empty ELSE cache

\* receive_fetch_outcome
Receive(c) ==
    /\ client[c] # 0 /\ client' = [client EXCEPT ![c] = 0]
    /\ Outcome(c) \/ WorkerStopped(c)
    /\ fetch' = WithoutReceiver(c)
    /\ UNCHANGED <<world, fetches>>

Worker(f) == Fetch(f) \/ Probe(f) \/ Store(f) \/ Send(f)

Next ==
    \/ DaemonTip \/ Sync \/ Elapse
    \/ \E c \in Clients : Get(c) \/ Disconnect(c) \/ Receive(c)
    \/ \E f \in Fetches : Worker(f) \/ Stops(f)

\* Workers and requests that can go on do.
Fairness ==
    /\ \A f \in Fetches : WF_vars(Worker(f))
    /\ \A c \in Clients : WF_vars(Receive(c))

Spec == Init /\ [][Next]_vars /\ Fairness

----------------------------------------------------------------------------
Running == {f \in Fetches : fetch[f].at \in {"fetch", "probe", "store"}}

\* At most one call for a template is made at a time, however requests come, leave and fail.
SingleFlight == Cardinality(Running) <= 1

\* A served template builds on a tip that the index had after its fetch began (or has now, when
\* it comes from the cache), or is ahead of it: never on a block the index had left by then.
TemplatesFit == fits

\* A request that waits for an outcome.
Pending(c) == client[c] # 0
==============================================================================

------------------------------ MODULE Discovery ------------------------------
(***************************************************************************)
(* Peer discovery (electrum/discovery.rs): a queue of health checks, one   *)
(* per service of a server, the thread that runs them one at a time, and   *)
(* the requests of clients that add servers meanwhile.                     *)
(***************************************************************************)
EXTENDS Integers, SequencesExt

CONSTANTS
    Services,           \* numbers
    ServerOf,           \* the address of each service
    Defaults,           \* services of the default servers
    MaxQueue,           \* MAX_QUEUE_SIZE
    MaxServices,        \* MAX_SERVICES_PER_REQUEST
    MaxFailures,        \* MAX_CONSECUTIVE_FAILURES
    MaxAdded            \* bound on the requests of clients

VARIABLES
    checks,             \* the queue, by the time of the last check; new ones are first, in any order
    running,            \* the check that was popped, in a sequence
    doing,              \* "idle", "check", "push", or "panicked"
    healthy,            \* the services listed for clients
    added               \* requests of clients so far

vars == <<checks, running, doing, healthy, added>>

\* last_check is None, last_check = last_healthy, last_healthy is not None, consecutive_failures.
HealthCheck(s, default) ==
    [service |-> s, default |-> default, new |-> TRUE, good |-> FALSE, seen |-> FALSE, failures |-> 0]

Init ==
    /\ checks = SetToSeq({HealthCheck(s, TRUE) : s \in Defaults})
    /\ running = <<>> /\ doing = "idle" /\ healthy = {} /\ added = 0

\* The services of the hosts that a request names, its host names being valid, of the client's own
\* address or onion ones, and not ours.  Two names of one address may name a service twice.
Offers ==
    {s \in SeqOf(Services, MaxServices + 1) : \A i, j \in DOMAIN s : i <= j => s[i] <= s[j]}

Room(n) == Len(checks) < MaxQueue /\ Len(checks) + n <= MaxQueue

\* add_server_request, under the lock of the queue; the check that is running is not in it.
AddPeer(offered) ==
    /\ added < MaxAdded /\ added' = added + 1
    /\ LET Unqueued(s) == \A i \in DOMAIN checks : checks[i].service # s
           unqueued == SelectSeq(offered, Unqueued)
           jobs == SubSeq(unqueued, 1, Min({MaxServices, Len(unqueued)}))
       IN  checks' = IF Room(Len(jobs))
                     THEN checks \o [i \in DOMAIN jobs |-> HealthCheck(jobs[i], FALSE)]
                     ELSE checks
    /\ UNCHANGED <<running, doing, healthy>>

New == {i \in DOMAIN checks : checks[i].new}

\* run_health_check: the check that was run longest ago, once it is due.
Pop ==
    /\ doing = "idle" /\ checks # <<>> /\ doing' = "check"
    /\ \E i \in (IF New # {} THEN New ELSE {1}) :
          running' = <<checks[i]>> /\ checks' = RemoveAt(checks, i)
    /\ UNCHANGED <<healthy, added>>

\* check_server succeeds: save_healthy_service, unless the check last found it healthy.
Available ==
    /\ doing = "check" /\ doing' = "push"
    /\ healthy' = IF running[1].good THEN healthy ELSE healthy \cup {running[1].service}
    /\ running' = <<[running[1] EXCEPT !.new = FALSE, !.good = TRUE, !.seen = TRUE, !.failures = 0]>>
    /\ UNCHANGED <<checks, added>>

ShouldRetry(job) == (job.seen \/ job.default) /\ job.failures < MaxFailures

KeptListed(job) == healthy

\* remove_unhealthy_service
Removed(job) == IF job.good THEN healthy \ {job.service} ELSE healthy

\* Its assertion: an address that has an entry has the service in it.
Asserted(job) ==
    (job.good /\ \E s \in healthy : ServerOf[s] = ServerOf[job.service]) => job.service \in healthy

Unavailable ==
    /\ doing = "check"
    /\ IF ~Asserted(running[1]) THEN doing' = "panicked" /\ UNCHANGED <<running, healthy>>
       ELSE LET job == [running[1] EXCEPT !.new = FALSE, !.good = FALSE, !.failures = @ + 1]
            IN  /\ healthy' = Removed(running[1])
                /\ IF ShouldRetry(job) THEN running' = <<job>> /\ doing' = "push"
                   ELSE running' = <<>> /\ doing' = "idle"
    /\ UNCHANGED <<checks, added>>

\* The next check is scheduled.
Push ==
    /\ doing = "push" /\ checks' = checks \o running /\ running' = <<>> /\ doing' = "idle"
    /\ UNCHANGED <<healthy, added>>

Next == (\E offered \in Offers : AddPeer(offered)) \/ Pop \/ Available \/ Unavailable \/ Push

Spec == Init /\ [][Next]_vars

----------------------------------------------------------------------------
\* A service that clients are told of is checked again: of every service in `healthy`, a check that last
\* found it healthy is queued or running.
ListedWatched ==
    LET jobs == checks \o running
    IN  \A s \in healthy : \E i \in DOMAIN jobs : jobs[i].service = s /\ jobs[i].good

\* The queue exceeds MAX_QUEUE_SIZE, or the default servers, at most by the check that was running while
\* a request filled it.
QueueBounded == Len(checks) <= Max({MaxQueue, Cardinality(Defaults)}) + 1

\* assert!(server.services.remove(&job.service)) in remove_unhealthy_service: a check that last found its
\* service healthy finds it listed.
RemovesListed == doing # "panicked"
==============================================================================

----------------------------- MODULE ProxyLimit -----------------------------
(***************************************************************************)
(* Calls of bitcoind on behalf of clients (daemon.rs, request_proxied):    *)
(* one connection and one attempt each, under a semaphore of permits that  *)
(* is waited for a bounded time on a condition variable.                   *)
(***************************************************************************)
EXTENDS Integers, FiniteSets

CONSTANTS
    Proxies,            \* threads that serve clients
    Permits,            \* values of DAEMON_PROXY_MAX_CONCURRENCY
    MaxProxied          \* bound on the calls

VARIABLES
    capacity,
    available,          \* BlockingSemaphore.available
    proxy,              \* per thread: where it is
    late,               \* threads whose deadline for a permit has passed
    proxied

vars == <<capacity, available, proxy, late, proxied>>

AtLeastOne(n) == IF n = 0 THEN 1 ELSE n

Init ==
    /\ capacity \in {AtLeastOne(n) : n \in Permits} /\ available = capacity
    /\ proxy = [p \in Proxies |-> "idle"] /\ late = {} /\ proxied = 0

Moves(p, to) == proxy' = [proxy EXCEPT ![p] = to]
At(places) == {p \in Proxies : proxy[p] \in places}

Enter(p) ==
    /\ proxy[p] = "idle" /\ proxied < MaxProxied /\ proxied' = proxied + 1 /\ Moves(p, "check")
    /\ UNCHANGED <<capacity, available, late>>

GivesUpFirst(p) == available > 0 /\ p \notin late

MayTake(p) == available > 0

\* acquire, with its mutex held: a permit, DaemonBusy, or a wait that releases the mutex.
Check(p) ==
    /\ proxy[p] = "check"
    /\ IF MayTake(p) THEN Moves(p, "connect") /\ available' = available - 1
       ELSE Moves(p, IF p \in late THEN "idle" ELSE "sleep") /\ UNCHANGED available
    /\ late' = IF proxy'[p] = "sleep" THEN late ELSE late \ {p}
    /\ UNCHANGED <<capacity, proxied>>

\* DAEMON_PROXY_QUEUE_TIMEOUT passes; a sleeping thread wakes up.
Expire(p) ==
    /\ proxy[p] \in {"check", "sleep"} /\ p \notin late /\ late' = late \cup {p}
    /\ Moves(p, "check")
    /\ UNCHANGED <<capacity, available, proxied>>

AfterFailure == "release"

\* connect_once: the primary address, then the fallback.
Connect(p) ==
    /\ proxy[p] = "connect" /\ (Moves(p, "call") \/ Moves(p, AfterFailure))
    /\ UNCHANGED <<capacity, available, late, proxied>>

\* The call ends with a reply, an error or the deadline of recv.
Call(p) ==
    /\ proxy[p] = "call" /\ Moves(p, "release")
    /\ UNCHANGED <<capacity, available, late, proxied>>

\* SemaphorePermit::drop
Release(p) ==
    /\ proxy[p] = "release" /\ available' = available + 1 /\ Moves(p, "notify")
    /\ UNCHANGED <<capacity, late, proxied>>

\* notify_one, after the mutex is released.
Notify(p) ==
    /\ proxy[p] = "notify"
    /\ IF At({"sleep"}) = {} THEN Moves(p, "idle")
       ELSE \E s \in At({"sleep"}) : proxy' = [proxy EXCEPT ![p] = "idle", ![s] = "check"]
    /\ UNCHANGED <<capacity, available, late, proxied>>

Serves(p) == Check(p) \/ Expire(p) \/ Connect(p) \/ Call(p) \/ Release(p) \/ Notify(p)

Next == \E p \in Proxies : Enter(p) \/ Serves(p)

Fairness == \A p \in Proxies : WF_vars(Serves(p))

Spec == Init /\ [][Next]_vars /\ Fairness

----------------------------------------------------------------------------
\* The permits are those not in use, on every way out of a call.
SlotsExact == available + Cardinality(At({"connect", "call", "release"})) = capacity

\* No thread sleeps past a permit: for each one that is free while some sleep, a thread is awake
\* that will take it, or about to wake one.
NoLostWakeup == At({"sleep"}) # {} => available <= Cardinality(At({"check", "notify"}))

\* A client that has not been answered.
Pending(p) == proxy[p] # "idle"
==============================================================================

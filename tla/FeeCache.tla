------------------------------ MODULE FeeCache ------------------------------
(***************************************************************************)
(* The caches of Query for fee estimates, which grow stale, and for the    *)
(* relay fee, which does not (new_index/query.rs).  A cache is filled by   *)
(* one request at a time, under a refresh lock.                            *)
(***************************************************************************)
EXTENDS Integers, FiniteSets

CONSTANTS
    Callers,        \* request threads
    MaxAsks,        \* bound on the requests
    NoFee

Fees == {"estimates", "relay"}

VARIABLES
    cached,         \* per cache: NoFee, "fresh" or "stale"
    locked,         \* per cache: who holds the refresh lock
    caller,         \* per thread: [at, fee, got]
    asks            \* number of requests

vars == <<cached, locked, caller, asks>>

Resting == [at |-> "idle", fee |-> "relay", got |-> NoFee]

Init ==
    /\ cached = [f \in Fees |-> NoFee] /\ locked = [f \in Fees |-> NoFee]
    /\ caller = [t \in Callers |-> Resting] /\ asks = 0

\* FEE_ESTIMATES_TTL elapses.
Stale ==
    /\ cached["estimates"] = "fresh" /\ cached' = [cached EXCEPT !["estimates"] = "stale"]
    /\ UNCHANGED <<locked, caller, asks>>

\* estimate_fee, estimate_fee_map, get_relayfee: the cache, if it is fresh.
Request(t) ==
    /\ caller[t].at = "idle" /\ asks < MaxAsks /\ asks' = asks + 1
    /\ \E f \in Fees :
         caller' = [caller EXCEPT ![t] =
             [at |-> IF cached[f] = "fresh" THEN "return" ELSE "lock", fee |-> f, got |-> cached[f]]]
    /\ UNCHANGED <<cached, locked>>

\* try_lock, and the estimates there are when another request is refreshing them.
Lock(t) ==
    LET f == caller[t].fee
    IN  /\ caller[t].at = "lock"
        /\ \/ /\ locked[f] = NoFee /\ locked' = [locked EXCEPT ![f] = t]
              /\ caller' = [caller EXCEPT ![t].at = "check"]
           \/ /\ locked[f] # NoFee /\ f = "estimates" /\ cached[f] # NoFee
              /\ caller' = [caller EXCEPT ![t].at = "read"] /\ UNCHANGED locked
        /\ UNCHANGED <<cached, asks>>

Refreshed(f) == cached[f] = "fresh"

\* Another request may have refreshed the cache before this one got the lock.
Check(t) ==
    LET f == caller[t].fee
    IN  /\ caller[t].at = "check"
        /\ IF Refreshed(f)
           THEN caller' = [caller EXCEPT ![t].at = "read"] /\ locked' = [locked EXCEPT ![f] = NoFee]
           ELSE caller' = [caller EXCEPT ![t].at = "call"] /\ UNCHANGED locked
        /\ UNCHANGED <<cached, asks>>

\* The daemon answers, or the call fails: estimates are then served as they were.
Called(t) ==
    LET f == caller[t].fee
    IN  /\ caller[t].at = "call"
        /\ \/ cached' = [cached EXCEPT ![f] = "fresh"] /\ locked' = [locked EXCEPT ![f] = NoFee]
              /\ caller' = [caller EXCEPT ![t].at = "read"]
           \/ UNCHANGED cached /\ locked' = [locked EXCEPT ![f] = NoFee]
              /\ caller' = [caller EXCEPT ![t].at = IF f = "relay" THEN "return" ELSE "read"]
        /\ UNCHANGED asks

Read(t) ==
    /\ caller[t].at = "read"
    /\ caller' = [caller EXCEPT ![t].at = "return", ![t].got = cached[caller[t].fee]]
    /\ UNCHANGED <<cached, locked, asks>>

Return(t) ==
    /\ caller[t].at = "return" /\ caller' = [caller EXCEPT ![t] = Resting]
    /\ UNCHANGED <<cached, locked, asks>>

Proceeds(t) == Lock(t) \/ Check(t) \/ Called(t) \/ Read(t) \/ Return(t)

Next == Stale \/ \E t \in Callers : Request(t) \/ Proceeds(t)

Fairness == \A t \in Callers : WF_vars(Proceeds(t))

Spec == Init /\ [][Next]_vars /\ Fairness

----------------------------------------------------------------------------
\* The daemon is asked for fees only while the cache is not fresh, by one request at a time:
\* requests that find a stale cache together cause one call.
CalledWhenStale ==
    \A f \in Fees :
      LET calling == {t \in Callers : caller[t].at = "call" /\ caller[t].fee = f}
      IN  Cardinality(calling) <= 1 /\ (calling # {} => cached[f] # "fresh")

\* A request that has not returned yet.
Pending(t) == caller[t].at # "idle"
==============================================================================

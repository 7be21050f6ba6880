------------------------------ MODULE DaemonRpc ------------------------------
(***************************************************************************)
(* Calls of bitcoind over the connection that the main loop and the        *)
(* requests share (daemon.rs): the mutex around it, the retries that       *)
(* replace it, and the replies that arrive after their caller gave up.     *)
(***************************************************************************)
EXTENDS Integers, Sequences

CONSTANTS
    Callers,            \* threads that call request
    MaxRequests,        \* bound on the requests
    MaxFaults,          \* bound on lost connections, missed deadlines and warm-up errors
    Free

ASSUME RpcAssumption == MaxRequests \in Nat /\ MaxFaults \in Nat /\ Free \notin Callers

VARIABLES
    up,                 \* bitcoind accepts connections
    faults,
    conn,               \* the shared connection
    holder,             \* who holds its mutex
    caller,             \* per thread: [at, id]
    lastId,             \* message_id
    requests,
    interrupted,        \* a wait was ended by SIGINT or SIGTERM
    matched             \* every result returned so far was that of its own request

vars == <<up, faults, conn, holder, caller, lastId, requests, interrupted, matched>>

\* Requests that bitcoind has not answered, replies not read yet, and whether the first of them
\* has been read in part.
Fresh == [asked |-> <<>>, replies |-> <<>>, torn |-> FALSE, open |-> TRUE, age |-> "young"]

Init ==
    /\ up = TRUE /\ faults = 0 /\ conn = Fresh /\ holder = Free
    /\ caller = [c \in Callers |-> [at |-> "idle", id |-> 0]]
    /\ lastId = 0 /\ requests = 0 /\ interrupted = FALSE /\ matched = TRUE

----------------------------------------------------------------------------
(* bitcoind and the network.                                               *)

Fault == faults < MaxFaults /\ faults' = faults + 1
Apart == UNCHANGED <<holder, caller, lastId, requests, interrupted, matched>>

Kinds == {"result", "error", "refused"}

Answer ==
    /\ conn.open /\ conn.asked # <<>>
    /\ \/ \E kind \in Kinds :
            conn' = [conn EXCEPT !.asked = Tail(@), !.replies = Append(@, [id |-> Head(conn.asked), kind |-> kind])]
          /\ UNCHANGED faults
       \/ /\ Fault
          /\ conn' = [conn EXCEPT !.asked = Tail(@), !.replies = Append(@, [id |-> Head(conn.asked), kind |-> "warmup"])]
    /\ UNCHANGED up /\ Apart

Disconnect ==
    /\ Fault /\ conn.open /\ conn' = [conn EXCEPT !.open = FALSE, !.asked = <<>>]
    /\ up' \in BOOLEAN /\ Apart

Restart == ~up /\ up' = TRUE /\ UNCHANGED <<faults, conn>> /\ Apart

\* daemon_conn_max_age, then DAEMON_CONN_RECYCLE_COOLDOWN after a failed attempt.
Ages ==
    /\ conn.age # "expired" /\ conn' = [conn EXCEPT !.age = "expired"]
    /\ Fault /\ UNCHANGED up /\ Apart

----------------------------------------------------------------------------
Goes(c, to) == caller' = [caller EXCEPT ![c] = [at |-> to, id |-> 0]]

\* handle_request takes an id before the mutex.
Numbered(c) ==
    /\ lastId' = lastId + 1 /\ caller' = [caller EXCEPT ![c] = [at |-> "lock", id |-> lastId']]

Begin(c) ==
    /\ caller[c].at = "idle" /\ requests < MaxRequests /\ requests' = requests + 1
    /\ Numbered(c)
    /\ UNCHANGED <<up, faults, conn, holder, interrupted, matched>>

\* recycle_due and try_reconnect_once: a failed attempt keeps the connection there is.
Recycled ==
    CASE conn.age # "expired" -> conn
      [] conn.age = "expired" /\ up -> Fresh
      [] OTHER -> [conn EXCEPT !.age = "cooling"]

\* call_jsonrpc_on_connection up to the send, which may not notice that the connection is lost.
Send(c) ==
    /\ caller[c].at = "lock" /\ holder = Free
    /\ LET k == Recycled
       IN  \/ /\ k.open /\ conn' = [k EXCEPT !.asked = Append(@, caller[c].id)]
              /\ holder' = c /\ caller' = [caller EXCEPT ![c].at = "recv"]
           \/ /\ ~k.open /\ conn' = k /\ holder' = c /\ caller' = [caller EXCEPT ![c].at = "recv"]
           \/ /\ ~k.open /\ conn' = k /\ Goes(c, "backoff") /\ UNCHANGED holder
           \/ conn' = k /\ Goes(c, "idle") /\ UNCHANGED holder        \* the cookie cannot be read
    /\ UNCHANGED <<up, faults, lastId, requests, interrupted, matched>>

AnyId(c, reply) == TRUE

RightId(c, reply) == reply.id = caller[c].id

\* parse_jsonrpc_reply, and retry_request's match on its outcome.
Parsed(c, reply) ==
    /\ Goes(c, IF reply.kind = "warmup" THEN "backoff" ELSE "idle")
    /\ matched' = (matched /\ (reply.kind = "result" /\ RightId(c, reply) => reply.id = caller[c].id))

\* A whole reply.
Receive(c) ==
    /\ caller[c].at = "recv" /\ ~conn.torn /\ conn.replies # <<>>
    /\ conn' = [conn EXCEPT !.replies = Tail(@)] /\ Parsed(c, Head(conn.replies)) /\ holder' = Free
    /\ UNCHANGED <<up, faults, lastId, requests, interrupted>>

Rest == [conn EXCEPT !.replies = Tail(@), !.torn = FALSE]

\* What is left of a reply is no reply: an error that is not retried, after the rest of its body, or
\* the next reply with it, or only some of its headers, has been read.
ReceiveRest(c) ==
    /\ caller[c].at = "recv" /\ conn.torn
    /\ \/ conn' = Rest
       \/ Len(conn.replies) > 1 /\ conn' = [conn EXCEPT !.replies = Tail(Tail(@)), !.torn = FALSE]
       \/ UNCHANGED conn
    /\ Goes(c, "idle") /\ holder' = Free
    /\ UNCHANGED <<up, faults, lastId, requests, interrupted, matched>>

\* The end of the stream, or the deadline, before the whole reply is there.
ReceiveFails(c) ==
    /\ caller[c].at = "recv" /\ Goes(c, "backoff") /\ holder' = Free
    /\ \/ ~conn.open /\ conn.replies = <<>> /\ UNCHANGED <<conn, faults>>
       \/ Fault /\ conn.replies = <<>> /\ UNCHANGED conn
       \/ Fault /\ conn.replies # <<>> /\ conn' = [conn EXCEPT !.torn = TRUE]
    /\ UNCHANGED <<up, lastId, requests, interrupted, matched>>

\* signal.wait: 3 seconds, or a signal that ends the request.
Backoff(c) ==
    /\ caller[c].at = "backoff"
    /\ \/ Goes(c, "relock") /\ UNCHANGED interrupted
       \/ Goes(c, "idle") /\ interrupted' = TRUE
    /\ UNCHANGED <<up, faults, conn, holder, lastId, requests, matched>>

Relock(c) ==
    /\ caller[c].at = "relock" /\ holder = Free /\ holder' = c /\ Goes(c, "connect")
    /\ UNCHANGED <<up, faults, conn, lastId, requests, interrupted, matched>>

Reconnected == Fresh

\* tcp_connect tries until it succeeds, with the mutex held, and the request is sent again.
Connect(c) ==
    /\ caller[c].at = "connect" /\ holder' = Free
    /\ \/ up /\ conn' = Reconnected /\ Numbered(c) /\ UNCHANGED interrupted
       \/ ~up /\ interrupted' = TRUE /\ Goes(c, "idle") /\ UNCHANGED <<conn, lastId>>
    /\ UNCHANGED <<up, faults, requests, matched>>

Calls(c) ==
    \/ Send(c) \/ Receive(c) \/ ReceiveRest(c) \/ ReceiveFails(c) \/ Backoff(c) \/ Relock(c) \/ Connect(c)

Next ==
    \/ Answer \/ Disconnect \/ Restart \/ Ages
    \/ \E c \in Callers : Begin(c) \/ Calls(c)

\* Threads run, and bitcoind answers and comes back.
Fairness ==
    /\ WF_vars(Answer) /\ WF_vars(Restart)
    /\ \A c \in Callers : WF_vars(Calls(c))

Spec == Init /\ [][Next]_vars /\ Fairness

----------------------------------------------------------------------------
Places == {"idle", "lock", "recv", "backoff", "relock", "connect"}

TypeOK ==
    /\ up \in BOOLEAN /\ faults \in 0..MaxFaults /\ requests \in 0..MaxRequests /\ lastId \in Nat
    /\ holder \in Callers \cup {Free} /\ interrupted \in BOOLEAN /\ matched \in BOOLEAN
    /\ caller \in [Callers -> [at : Places, id : Nat]]
    /\ conn.open \in BOOLEAN /\ conn.torn \in BOOLEAN /\ conn.age \in {"young", "expired", "cooling"}
    /\ conn.asked \in Seq(Nat) /\ conn.replies \in Seq([id : Nat, kind : Kinds \cup {"warmup"}])
    /\ conn.torn => conn.replies # <<>>

\* A result is returned only to the request it answers, although a thread that takes the mutex
\* while another one backs off may read that one's late reply from the connection.
ResultsMatch == matched

Sent == IF \E c \in Callers : caller[c].at = "recv" THEN 1 ELSE 0

\* A connection on which a reply is outstanding that nobody waits for, or that was read in part, is
\* about to be replaced by a thread that backs off, unless a signal ended that thread's wait.
RepairPending ==
    conn.torn \/ Len(conn.asked) + Len(conn.replies) > Sent =>
      interrupted \/ \E c \in Callers : caller[c].at \in {"backoff", "relock", "connect"}

\* A request that has not returned.
Pending(c) == caller[c].at # "idle"
==============================================================================

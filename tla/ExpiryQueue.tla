----------------------------- MODULE ExpiryQueue -----------------------------
(***************************************************************************)
(* The reaper of the Electrum server (electrum/server.rs): connections     *)
(* register the time at which they are to be shut down, and most end       *)
(* before it.  The reaper sleeps until the soonest of these times.         *)
(***************************************************************************)
EXTENDS Integers, Sequences, FiniteSets, FiniteSetsExt

CONSTANTS
    MaxAge,         \* electrum_connection_max_age
    CompactMin,     \* REAPER_COMPACT_MIN
    MaxLive,        \* bound on the connections open at a time
    MaxConnections, \* bound on the connections
    LastTick,       \* bound on the clock
    Endless

VARIABLES
    clock,          \* Instant::now()
    accepted,       \* number of connections so far
    live,           \* connections whose stream is still held
    inbox,          \* the channel of registrations, [conn, at]
    queue,          \* ExpiryQueue.expiries
    compactAt,      \* ExpiryQueue.compact_at
    sleeps,         \* until when recv_timeout waits (Endless: recv), or 0 when awake
    peak            \* most connections live at once so far

vars == <<clock, accepted, live, inbox, queue, compactAt, sleeps, peak>>

Init ==
    /\ clock = 0 /\ accepted = 0 /\ live = {} /\ inbox = <<>> /\ queue = {}
    /\ compactAt = CompactMin /\ sleeps = 0 /\ peak = 0

Greater(a, b) == IF a > b THEN a ELSE b

\* connection_lifetime: between half the maximum age, rounded up, and all of it.
Lifetimes == ((MaxAge \div 2) + (MaxAge % 2))..MaxAge

Connect ==
    /\ Cardinality(live) < MaxLive /\ accepted < MaxConnections
    /\ accepted' = accepted + 1 /\ live' = live \cup {accepted'}
    /\ \E life \in Lifetimes : inbox' = Append(inbox, [conn |-> accepted', at |-> clock + life])
    /\ peak' = Greater(peak, Cardinality(live'))
    /\ UNCHANGED <<clock, queue, compactAt, sleeps>>

\* The connection ends by itself.
Disconnect(c) ==
    /\ c \in live /\ live' = live \ {c}
    /\ UNCHANGED <<clock, accepted, inbox, queue, compactAt, sleeps, peak>>

\* Time passes; the reaper runs when it has something to do.
Pass ==
    /\ sleeps # 0 /\ inbox = <<>> /\ clock < LastTick
    /\ sleeps # Endless => clock < sleeps
    /\ clock' = clock + 1
    /\ UNCHANGED <<accepted, live, inbox, queue, compactAt, sleeps, peak>>

LastDeadline == IF queue' = {} THEN Endless ELSE Max({e.at : e \in queue'})

\* next_deadline: the heap holds the soonest one at its top.
NextDeadline == IF queue' = {} THEN Endless ELSE Min({e.at : e \in queue'})

\* reap_due, then the wait for a registration or for the next deadline.
ReapDue ==
    /\ sleeps = 0
    /\ LET due == {e \in queue : e.at <= clock}
       IN  queue' = queue \ due /\ live' = live \ {e.conn : e \in due}
    /\ sleeps' = NextDeadline
    /\ UNCHANGED <<clock, accepted, inbox, compactAt, peak>>

Compacted(q) == {e \in q : e.conn \in live}

Register ==
    /\ sleeps # 0 /\ inbox # <<>>
    /\ inbox' = Tail(inbox) /\ sleeps' = 0
    /\ LET q == queue \cup {Head(inbox)}
       IN  IF Cardinality(q) >= compactAt
           THEN /\ queue' = Compacted(q)
                /\ compactAt' = Greater(CompactMin, 2 * Cardinality(queue'))
           ELSE queue' = q /\ UNCHANGED compactAt
    /\ UNCHANGED <<clock, accepted, live, peak>>

TimedOut ==
    /\ sleeps \notin {0, Endless} /\ inbox = <<>> /\ clock >= sleeps /\ sleeps' = 0
    /\ UNCHANGED <<clock, accepted, live, inbox, queue, compactAt, peak>>

Next ==
    \/ Connect \/ Pass \/ ReapDue \/ Register \/ TimedOut
    \/ \E c \in live : Disconnect(c)

Spec == Init /\ [][Next]_vars

----------------------------------------------------------------------------
\* The queue stays proportional to the connections that were ever open together, whatever the
\* number of connections that came and went before their deadlines.
QueueProportional == Cardinality(queue) < Greater(CompactMin, 2 * peak)

\* No connection is open past the maximum age: the reaper
\* wakes for the soonest of the registered deadlines, whichever order they came in.
AgeBounded ==
    \A c \in live : \E e \in queue \cup {inbox[i] : i \in DOMAIN inbox} : e.conn = c /\ clock <= e.at
=============================================================================

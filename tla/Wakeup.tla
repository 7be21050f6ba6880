------------------------------- MODULE Wakeup -------------------------------
(***************************************************************************)
(* What wakes the main loop (bin/electrs.rs): a Waiter (signal.rs) that    *)
(* selects over signals, block notifications and a timer, and the thread   *)
(* that forwards bitcoind's notifications (new_index/zmq.rs).  Threads     *)
(* that wait to reconnect to bitcoind share the Waiter's two channels.     *)
(***************************************************************************)
EXTENDS Integers, FiniteSets

CONSTANTS
    Main,
    Helpers,            \* threads that back off after a failed call of bitcoind
    Patience,           \* the duration of a wait
    MaxBreaks, MaxBackoffs, MaxTerms

VARIABLES
    behind,             \* the tip of the index is not bitcoind's
    arrived,            \* signals that the notifier thread has yet to send
    signals, wakeups,   \* the two channels of capacity 1: the signal, and whether one is there
    remains,            \* per waiting thread: what is left of its wait
    at,                 \* per thread: "wait", "work", "idle" or "stopped"
    link,               \* the session of the SUB socket: "up" or "gone"
    queued,             \* a message is in the socket's queue
    event,              \* a disconnection is in the monitor's queue
    dead,               \* Subscriber.dead
    recent,             \* a notification was forwarded less than MIN_NOTIFY_INTERVAL ago
    breaks, backoffs, terms

vars == <<behind, arrived, signals, wakeups, remains, at, link, queued, event, dead, recent,
          breaks, backoffs, terms>>

waiterVars == <<arrived, signals, wakeups, remains, at, backoffs, terms>>
zmqVars == <<link, queued, event, dead, recent, breaks>>

None == "none"
Waiters == {Main} \cup Helpers

Init ==
    /\ behind = FALSE /\ arrived = {} /\ signals = None /\ wakeups = FALSE
    /\ remains = [w \in Waiters |-> Patience] /\ at = [w \in Waiters |-> IF w = Main THEN "wait" ELSE "idle"]
    /\ link = "up" /\ queued = FALSE /\ event = FALSE /\ dead = FALSE /\ recent = FALSE
    /\ breaks = 0 /\ backoffs = 0 /\ terms = 0

----------------------------------------------------------------------------
\* A block is published; the notification may be lost.
NewBlock ==
    /\ behind' = TRUE /\ queued' \in {queued, queued \/ link = "up"}
    /\ UNCHANGED <<waiterVars, link, event, dead, recent, breaks>>

\* libzmq ends the session for a protocol error and reports it once, to the monitor.
LinkBreaks ==
    /\ link = "up" /\ breaks < MaxBreaks /\ breaks' = breaks + 1 /\ link' = "gone" /\ event' = TRUE
    /\ UNCHANGED <<waiterVars, behind, queued, dead, recent>>

Quiet == recent /\ recent' = FALSE /\ UNCHANGED <<waiterVars, behind, link, queued, event, dead, breaks>>

Forgets == FALSE

\* A rebuild that fails is still owed.
Owed == TRUE

\* reconnect_if_peer_dropped
Rebuild ==
    /\ dead \/ event
    /\ event' = FALSE
    /\ \/ link' = "up" /\ dead' = FALSE /\ queued' = FALSE /\ UNCHANGED breaks
       \/ /\ breaks < MaxBreaks /\ breaks' = breaks + 1            \* connect fails
          /\ dead' = Owed /\ UNCHANGED <<link, queued>>
    /\ UNCHANGED <<waiterVars, behind, recent>>

\* recv, parse_hashblock, Throttle::allow, try_send.
Forward ==
    /\ ~dead /\ ~event /\ queued /\ queued' = FALSE
    /\ \/ UNCHANGED <<wakeups, recent>>                            \* rejected
       \/ recent /\ UNCHANGED <<wakeups, recent>>                  \* throttled
       \/ ~recent /\ recent' = TRUE /\ wakeups' = TRUE             \* forwarded, or coalesced
    /\ UNCHANGED <<behind, arrived, signals, remains, at, backoffs, terms, link, event, dead, breaks>>

----------------------------------------------------------------------------
Signal(s) ==
    /\ (s = "term" => terms < MaxTerms) /\ terms' = terms + (IF s = "term" THEN 1 ELSE 0)
    /\ arrived' = arrived \cup {s}
    /\ UNCHANGED <<behind, zmqVars, signals, wakeups, remains, at, backoffs>>

\* The notifier thread; send blocks while the channel is full.
Notifier(s) ==
    /\ signals = None /\ s \in arrived /\ signals' = s /\ arrived' = arrived \ {s}
    /\ UNCHANGED <<behind, zmqVars, wakeups, remains, at, backoffs, terms>>

Tick ==
    /\ \E w \in Waiters : at[w] = "wait" /\ remains[w] > 0
    /\ remains' = [w \in Waiters |-> IF at[w] = "wait" /\ remains[w] > 0 THEN remains[w] - 1 ELSE remains[w]]
    /\ UNCHANGED <<behind, zmqVars, arrived, signals, wakeups, at, backoffs, terms>>

\* What is left of a wait that a notification interrupted.
Remaining(w) == remains[w]

\* wait returns to the main loop, and to a call of bitcoind that will be tried again.
Woken(w) == IF w = Main THEN "work" ELSE "idle"

Wakes(w, accepts) ==
    /\ at' = IF accepts THEN [at EXCEPT ![w] = Woken(w)] ELSE at
    /\ remains' = [remains EXCEPT ![w] = IF accepts THEN Patience ELSE Remaining(w)]
    /\ UNCHANGED <<behind, zmqVars, arrived, backoffs, terms>>

Expired(w) == remains[w] = 0

\* Waiter::wait; only the main loop's accepts notifications.
OnTimer(w) == at[w] = "wait" /\ Expired(w) /\ Wakes(w, TRUE) /\ UNCHANGED <<signals, wakeups>>

OnBlock(w) == at[w] = "wait" /\ wakeups /\ wakeups' = FALSE /\ Wakes(w, w = Main) /\ UNCHANGED signals

OnUsr1(w) ==
    at[w] = "wait" /\ signals = "usr1" /\ signals' = None /\ Wakes(w, w = Main) /\ UNCHANGED wakeups

\* An interruption stops the server, or is the error of a call.
OnTerm(w) ==
    /\ at[w] = "wait" /\ signals = "term" /\ signals' = None
    /\ at' = [at EXCEPT ![w] = IF w = Main THEN "stopped" ELSE "idle"]
    /\ remains' = [remains EXCEPT ![w] = Patience]
    /\ UNCHANGED <<behind, zmqVars, arrived, wakeups, backoffs, terms>>

\* The rest of the main loop's body: the index catches up.
CatchUp ==
    /\ at[Main] = "work" /\ behind' = FALSE /\ at' = [at EXCEPT ![Main] = "wait"]
    /\ UNCHANGED <<zmqVars, arrived, signals, wakeups, remains, backoffs, terms>>

\* A call of bitcoind fails and will be tried again after a wait.
BackOff(h) ==
    /\ at[h] = "idle" /\ backoffs < MaxBackoffs /\ backoffs' = backoffs + 1
    /\ at' = [at EXCEPT ![h] = "wait"]
    /\ UNCHANGED <<behind, zmqVars, arrived, signals, wakeups, remains, terms>>

Waits(w) == OnTimer(w) \/ OnBlock(w) \/ OnUsr1(w) \/ OnTerm(w)

Next ==
    \/ NewBlock \/ LinkBreaks \/ Quiet \/ Rebuild \/ Forward
    \/ (\E s \in {"usr1", "term"} : Signal(s) \/ Notifier(s)) \/ Tick \/ CatchUp
    \/ (\E w \in Waiters : Waits(w)) \/ (\E h \in Helpers : BackOff(h))

\* Time passes, and the loops of the main and the zmq thread run.
Fairness ==
    /\ WF_vars(Tick) /\ WF_vars(CatchUp) /\ WF_vars(Rebuild)
    /\ \A w \in Waiters : WF_vars(OnTimer(w))

Spec == Init /\ [][Next]_vars /\ Fairness

----------------------------------------------------------------------------
\* A block is indexed unless the server stops, even when its notification is lost, throttled or
\* taken by another thread.
BlocksNoticed == behind ~> ~behind \/ at[Main] = "stopped"

\* Whoever backs off returns, however often notifications interrupt the wait.
WaitsEnd == \A h \in Helpers : at[h] = "wait" ~> at[h] # "wait"

\* The subscription is rebuilt after the session ends, also when rebuilding fails at first.
ZmqRecovers == link = "gone" ~> link = "up"
==============================================================================

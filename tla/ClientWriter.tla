---------------------------- MODULE ClientWriter ----------------------------
(***************************************************************************)
(* One reply written to a socket under one deadline                        *)
(* (electrum/client_io.rs).  The client reads when it pleases, one unit at *)
(* a time; a partial write returns and the caller writes the rest.         *)
(***************************************************************************)
EXTENDS Integers

CONSTANTS
    Size,           \* units of the reply
    SendBuffer,     \* units the socket takes before a write blocks
    Timeouts,       \* values of electrum_write_timeout, Never for none
    MaxAssembly,    \* bound on the time a reply takes to assemble
    Never

VARIABLES
    timeout,        \* the configured write timeout
    now,            \* Instant::now()
    writing,        \* "assemble", "ready" (to write), "blocked" (in write), "done", "failed"
    deadline,       \* ClientWriter.deadline
    began,          \* when the first write was made
    wakes,          \* when the socket's write timeout ends the blocked write
    sent, read,     \* units accepted by the socket, and read by the client
    timedOut,       \* ClientWriter.timed_out
    open            \* not shut down

vars == <<timeout, now, writing, deadline, began, wakes, sent, read, timedOut, open>>

Init ==
    /\ timeout \in Timeouts /\ now = 0 /\ writing = "assemble" /\ deadline = Never /\ began = Never /\ wakes = Never
    /\ sent = 0 /\ read = 0 /\ timedOut = FALSE /\ open = TRUE

Room == SendBuffer - (sent - read)

\* Time passes while the reply is assembled and while a write blocks.
Tick ==
    /\ \/ writing = "assemble" /\ now < MaxAssembly
       \/ writing = "blocked" /\ wakes # Never /\ now < wakes
    /\ now' = now + 1
    /\ UNCHANGED <<timeout, writing, deadline, began, wakes, sent, read, timedOut, open>>

Read ==
    /\ read < sent /\ read' = read + 1
    /\ UNCHANGED <<timeout, now, writing, deadline, began, wakes, sent, timedOut, open>>

\* The commands have run and the line is assembled.
Assembled ==
    /\ writing = "assemble" /\ writing' = "ready"
    /\ UNCHANGED <<timeout, now, deadline, began, wakes, sent, read, timedOut, open>>

\* The socket is shut down, without lingering.
Expired ==
    /\ timedOut' = TRUE /\ open' = FALSE /\ writing' = "failed"
    /\ UNCHANGED <<timeout, now, wakes, sent, read>>

Deadline == IF deadline = Never THEN now + timeout ELSE deadline

\* write: the first one starts the deadline, every one gets only the time that remains.
Write ==
    /\ writing = "ready" /\ began' = IF began = Never THEN now ELSE began
    /\ IF timeout = Never THEN writing' = "blocked" /\ UNCHANGED <<timeout, now, deadline, wakes, sent, read, timedOut, open>>
       ELSE /\ deadline' = Deadline
            /\ IF now >= Deadline THEN Expired
               ELSE /\ wakes' = Deadline /\ writing' = "blocked"
                    /\ UNCHANGED <<timeout, now, sent, read, timedOut, open>>

\* The socket takes some of the bytes; write_all comes back with the others.
Accepted ==
    /\ writing = "blocked" /\ Room > 0
    /\ \E n \in 1..(IF Room < Size - sent THEN Room ELSE Size - sent) :
         /\ sent' = sent + n
         /\ writing' = IF sent' = Size THEN "done" ELSE "ready"
    /\ wakes' = Never
    /\ UNCHANGED <<timeout, now, deadline, began, read, timedOut, open>>

RetriesBlocked ==
    /\ writing = "blocked" /\ wakes # Never /\ now >= wakes /\ Room = 0
    /\ wakes' = Never
    /\ UNCHANGED <<timeout, now, writing, deadline, began, sent, read, timedOut, open>>

\* Nothing was taken in time: WouldBlock.
WouldBlock ==
    /\ writing = "blocked" /\ wakes # Never /\ now >= wakes /\ Room = 0
    /\ timedOut' = TRUE /\ open' = FALSE /\ writing' = "failed" /\ wakes' = Never
    /\ UNCHANGED <<timeout, now, deadline, began, sent, read>>

Writer == Assembled \/ Write \/ Accepted \/ WouldBlock

Next == Tick \/ Read \/ Writer

Fairness == WF_vars(Tick) /\ WF_vars(Writer)

Spec == Init /\ [][Next]_vars /\ Fairness

----------------------------------------------------------------------------
\* A reply with a write timeout is written or given up within that time of its first write,
\* however slowly the client takes it, and is given up no earlier than that; a reply that
\* was given up leaves a socket that is shut down.
DeliveryBounded ==
    /\ timeout # Never /\ began # Never /\ writing \in {"ready", "blocked"} => now <= began + timeout
    /\ timedOut => now = began + timeout /\ ~open

\* With a write timeout, a reply is delivered or given up, even to a client that does not read.
DeliveryEnds == timeout # Never /\ writing = "ready" ~> writing \in {"done", "failed"}
=============================================================================

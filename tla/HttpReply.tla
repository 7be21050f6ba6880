------------------------------ MODULE HttpReply ------------------------------
(***************************************************************************)
(* Receiving one reply of bitcoind (daemon.rs, recv): a status line,       *)
(* header lines and a body, read in the pieces in which they arrive, under *)
(* caps on what is buffered and a deadline for the whole.                  *)
(***************************************************************************)
EXTENDS Integers

CONSTANTS
    MaxLine,            \* DAEMON_MAX_HEADER_LINE_BYTES
    MaxHeaders,         \* DAEMON_MAX_HEADER_COUNT
    MaxHeaderBytes,     \* DAEMON_MAX_HEADER_TOTAL_BYTES
    MaxBody,            \* DAEMON_MAX_BODY_BYTES
    Budget,             \* recv_budget
    Pieces,             \* sizes of what one read returns
    Lengths,            \* values of Content-Length
    Unknown

VARIABLES
    stage,              \* "status", "headers", "body", or how the call ended
    line,               \* bytes of the line read so far
    fields, fieldBytes,
    length,             \* Content-Length, once its header is read
    body,               \* bytes of the body read so far
    clock, wakes        \* the time, and when the read that blocks times out

vars == <<stage, line, fields, fieldBytes, length, body, clock, wakes>>

Receiving == stage \in {"status", "headers", "body"}

\* arm_read_deadline: what is left of the budget.
Armed == Budget

Init ==
    /\ stage = "status" /\ line = 0 /\ fields = 0 /\ fieldBytes = 0 /\ length = Unknown /\ body = 0
    /\ clock = 0 /\ wakes = Budget

Fails == stage' = "failed" /\ UNCHANGED <<line, fields, fieldBytes, length, body, clock, wakes>>

\* The next turn of a read loop: the deadline is checked before the read blocks.
Again(to) ==
    /\ UNCHANGED clock
    /\ IF clock >= Budget THEN stage' = "failed" /\ UNCHANGED wakes ELSE stage' = to /\ wakes' = Armed

Tick == Receiving /\ clock < wakes /\ clock' = clock + 1
        /\ UNCHANGED <<stage, line, fields, fieldBytes, length, body, wakes>>

TimesOut ==
    /\ Receiving /\ clock >= wakes /\ Again(stage)
    /\ UNCHANGED <<line, fields, fieldBytes, length, body>>

TooLong(n) == line + n > MaxLine

\* A piece without a newline.
Piece(n) ==
    /\ stage \in {"status", "headers"} /\ clock < wakes
    /\ IF TooLong(n) THEN Fails
       ELSE line' = line + n /\ Again(stage) /\ UNCHANGED <<fields, fieldBytes, length, body>>

StatusLine(n) ==
    /\ stage = "status" /\ clock < wakes
    /\ IF TooLong(n) THEN Fails
       ELSE line' = 0 /\ Again("headers") /\ UNCHANGED <<fields, fieldBytes, length, body>>

\* A line of `text' bytes and its end, "\n" or "\r\n".
EndsLine(n, text) == line + n - text \in {1, 2}

Header(n) ==
    /\ stage = "headers" /\ clock < wakes
    /\ \E text \in 1..(line + n) :
          /\ EndsLine(n, text)
          /\ IF TooLong(n) \/ fields + 1 > MaxHeaders \/ fieldBytes + text > MaxHeaderBytes THEN Fails
             ELSE /\ line' = 0 /\ fields' = fields + 1 /\ fieldBytes' = fieldBytes + text
                  /\ length' \in Lengths \cup {length}
                  /\ Again("headers") /\ UNCHANGED body

\* A Content-Length that is missing, zero or above the cap is refused.
Blank(n) ==
    /\ stage = "headers" /\ clock < wakes /\ EndsLine(n, 0)
    /\ IF TooLong(n) \/ length = Unknown THEN Fails
       ELSE IF length = 0 \/ length > MaxBody THEN Fails
       ELSE line' = 0 /\ Again("body") /\ UNCHANGED <<fields, fieldBytes, length, body>>

\* What belongs to this reply of the n bytes that are there.
Take(n) == IF n < length - body THEN n ELSE length - body

Body(n) ==
    /\ stage = "body" /\ clock < wakes /\ body' = body + Take(n)
    /\ UNCHANGED <<line, fields, fieldBytes, length>>
    /\ IF body' >= length THEN stage' \in {"ok", "failed"} /\ UNCHANGED <<clock, wakes>>
       ELSE Again("body")

\* The end of the stream, even in a line or a body, an error of the read, or bytes that are not UTF-8.
Breaks == Receiving /\ clock < wakes /\ Fails

Reads == \/ TimesOut \/ Breaks
         \/ \E n \in Pieces : Piece(n) \/ StatusLine(n) \/ Header(n) \/ Blank(n) \/ Body(n)

Next == Tick \/ Reads

Fairness == WF_vars(Tick) /\ WF_vars(TimesOut)

Spec == Init /\ [][Next]_vars /\ Fairness

----------------------------------------------------------------------------
\* The call ends by its deadline, however the bytes trickle in.
RecvBounded == clock <= Budget

\* It holds no more than the caps allow, and a body that is returned is the declared one: bytes of
\* the next reply stay in the stream.
ReadsWithinCaps ==
    /\ line <= MaxLine /\ fields <= MaxHeaders /\ fieldBytes <= MaxHeaderBytes
    /\ body <= MaxBody /\ (stage = "ok" => body = length)
==============================================================================

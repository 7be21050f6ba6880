----------------------------- MODULE Responses -----------------------------
(***************************************************************************)
(* How connections assemble their replies (electrum/response.rs): a reply  *)
(* line under a per-line limit, in a buffer whose bytes above a floor are  *)
(* charged to one budget that all connections share without a lock.        *)
(*                                                                         *)
(* A request is a sequence of commands, in an array (batch) or alone.      *)
(* Only sizes matter: a command has the size of its id and of its reply.   *)
(***************************************************************************)
EXTENDS Integers, FiniteSets, FiniteSetsExt, SequencesExt

CONSTANTS
    Conns,          \* connections, one writer thread each
    Requests,       \* [batch : BOOLEAN, commands : Seq([id : Nat, reply : Nat])]
    MaxBatch,       \* MAX_ARRAY_BATCH
    Floor, Chunk,   \* BUFFER_FLOOR, BUDGET_CHUNK
    LineLimit,      \* electrum_rpc_max_response_num_bytes
    Budget,         \* electrum_rpc_global_response_budget_bytes
    Envelope,       \* sizes of the error envelopes, without the id
    MaxRequests,    \* bound on the requests of all clients
    Piece,          \* the serializer writes at most so many bytes at a time
    None

ASSUME ResponsesAssumption ==
    /\ {Floor, LineLimit, Budget, MaxBatch} \subseteq Nat /\ {Chunk, Piece} \subseteq Nat \ {0}
    /\ Budget >= LineLimit
    /\ Envelope \in [{"line", "global", "skipped", "parse"} -> Nat]
    /\ Floor >= 3 /\ Floor > Envelope["parse"]
    /\ Envelope["skipped"] >= Envelope["line"] /\ Envelope["line"] >= Envelope["global"]

VARIABLES
    reserved,               \* ResponseBudget.reserved
    granted,                \* Reservation.granted
    len, cap,               \* the buffer: bytes.len(), bytes.capacity()
    pc, request, item,      \* the step, the request and the command in hand
    part, left, start,      \* what is being encoded, its bytes to go, where it began
    seen,                   \* reserved as last loaded
    overflow, replies, executed,    \* the batch so far
    received                \* requests received, of all connections

shared == <<reserved, granted>>
buffer == <<len, cap>>
encoding == <<part, left, start>>
answer == <<overflow, replies, executed>>
vars == <<shared, buffer, pc, request, item, encoding, seen, answer, received>>

Commands(c) == request[c].commands
Count(c) == Len(Commands(c))

\* ErrorEnvelope::encoded_len
ErrorSize(kind, command) == Envelope[kind] + command.id

SkipSize(c, i) == ErrorSize("skipped", Commands(c)[i])

\* The envelopes of the commands from i on, were they all skipped.
ErrorsFrom(c, i) == MapThenSumSet(LAMBDA j : SkipSize(c, j), i..Count(c))

\* What is kept free behind command i: the later envelopes, commas and the line's end.
Tail_(c, i) == IF request[c].batch THEN ErrorsFrom(c, i + 1) + (Count(c) - i) + 2 ELSE 1

\* What try_reserve_single_error_response and try_reserve_batch_error_responses reserve.
EnvelopesSize(c) ==
    IF request[c].batch THEN ErrorsFrom(c, 1) + Count(c) + 2
    ELSE ErrorSize("line", Commands(c)[1]) + 1

Init ==
    /\ reserved = 0 /\ granted = [c \in Conns |-> 0]
    /\ len = [c \in Conns |-> 0] /\ cap = [c \in Conns |-> 0]
    /\ pc = [c \in Conns |-> "idle"] /\ request = [c \in Conns |-> None]
    /\ item = [c \in Conns |-> 0]
    /\ part = [c \in Conns |-> None] /\ left = [c \in Conns |-> 0] /\ start = [c \in Conns |-> 0]
    /\ seen = [c \in Conns |-> None]
    /\ overflow = [c \in Conns |-> None] /\ replies = [c \in Conns |-> <<>>]
    /\ executed = [c \in Conns |-> {}]
    /\ received = 0

Saturate(n) == IF n < 0 THEN 0 ELSE n
Least(a, b) == IF a < b THEN a ELSE b
RoundUp(n) == ((n + Chunk - 1) \div Chunk) * Chunk

----------------------------------------------------------------------------
(* LimitedWriter::write and Reservation::ensure *)

TailOf(c) == IF part[c] \in {"reply", "error", "skip"} THEN Tail_(c, item[c]) ELSE 0

WholePiece(c) == Piece

Bytes(c) == Least(left[c], Piece)

\* The bytes the reservation has to cover next, above the floor.
Total(c) ==
    Saturate((IF pc[c] = "reserve" THEN EnvelopesSize(c) ELSE len[c] + Bytes(c) + TailOf(c)) - Floor)

Required(c) == Total(c) - granted[c]
Covered(c) == Total(c) <= granted[c]
OverLine(c) == pc[c] = "write" /\ len[c] + Bytes(c) > LineLimit - TailOf(c)

Load(c) ==
    /\ pc[c] \in {"reserve", "write"} /\ seen[c] = None /\ ~OverLine(c) /\ ~Covered(c)
    /\ seen' = [seen EXCEPT ![c] = reserved]
    /\ UNCHANGED <<shared, buffer, pc, request, item, encoding, answer, received>>

Available(c) == seen[c] # None /\ Required(c) <= Budget - seen[c]

SetBlindly(c) == TRUE

Unchanged(c) == reserved = seen[c]

AsLoaded(c) == seen[c]

Latest(c) == reserved

\* compare_exchange_weak: the grant is taken if reserved is as it was loaded, else tried again.
CompareExchange(c) ==
    /\ Available(c)
    /\ IF Unchanged(c)
       THEN LET grant == Least(RoundUp(Required(c)), Budget - seen[c])
            IN  /\ reserved' = reserved + grant
                /\ granted' = [granted EXCEPT ![c] = @ + grant]
                /\ seen' = [seen EXCEPT ![c] = None]
       ELSE seen' = [seen EXCEPT ![c] = Latest(c)] /\ UNCHANGED shared
    /\ UNCHANGED <<buffer, pc, request, item, encoding, answer, received>>

\* The capacity for n bytes: never more than the floor and what is charged.
Capacity(c, n) ==
    Least(IF n <= Floor THEN Floor ELSE granted[c] + Floor, LineLimit - TailOf(c))

Put(c) ==
    /\ pc[c] = "write" /\ ~OverLine(c) /\ Covered(c)
    /\ LET n == len[c] + Bytes(c)
       IN  /\ len' = [len EXCEPT ![c] = n]
           /\ cap' = [cap EXCEPT ![c] = IF n > @ THEN Capacity(c, n) ELSE @]
    /\ left' = [left EXCEPT ![c] = @ - Bytes(c)]
    /\ pc' = [pc EXCEPT ![c] = IF left'[c] = 0 THEN "next" ELSE "write"]
    /\ UNCHANGED <<shared, request, item, part, start, seen, answer, received>>

----------------------------------------------------------------------------
(* ResponseWriter::send, assemble_single, assemble_batch *)

\* The line's reservation is released and its buffer kept for the next one, up to the floor.
Recycle(c) ==
    /\ reserved' = reserved - granted[c] /\ granted' = [granted EXCEPT ![c] = 0]
    /\ len' = [len EXCEPT ![c] = 0] /\ cap' = [cap EXCEPT ![c] = IF @ > Floor THEN 0 ELSE @]

\* The locals of send go out of scope.
Forget(c) ==
    /\ item' = [item EXCEPT ![c] = 0] /\ part' = [part EXCEPT ![c] = None]
    /\ left' = [left EXCEPT ![c] = 0] /\ start' = [start EXCEPT ![c] = 0]
    /\ seen' = [seen EXCEPT ![c] = None] /\ overflow' = [overflow EXCEPT ![c] = None]
    /\ replies' = [replies EXCEPT ![c] = <<>>] /\ executed' = [executed EXCEPT ![c] = {}]

\* send returns an error and the connection ends.
Fail(c) ==
    /\ Recycle(c) /\ Forget(c) /\ pc' = [pc EXCEPT ![c] = "failed"]
    /\ UNCHANGED <<request, received>>

Encode(c, what, size) ==
    /\ pc' = [pc EXCEPT ![c] = "write"] /\ part' = [part EXCEPT ![c] = what]
    /\ left' = [left EXCEPT ![c] = size] /\ start' = [start EXCEPT ![c] = len[c]]

Receive(c, r) ==
    /\ pc[c] = "idle" /\ pc' = [pc EXCEPT ![c] = "begin"]
    /\ received < MaxRequests /\ received' = received + 1
    /\ request' = [request EXCEPT ![c] = r]
    /\ item' = [item EXCEPT ![c] = 1]
    /\ UNCHANGED <<shared, buffer, encoding, seen, answer>>

Refused(c) ==
    IF request[c].batch
    THEN Count(c) > MaxBatch \/ (Count(c) > 0 /\ EnvelopesSize(c) > LineLimit)
    ELSE Count(c) = 1 /\ LineLimit = 0

\* An empty array is answered at once, and so is a line that is not JSON (no command, no array).
Begin(c) ==
    /\ pc[c] = "begin"
    /\ IF Refused(c) THEN Fail(c)
       ELSE /\ CASE Count(c) > 0 -> pc' = [pc EXCEPT ![c] = "reserve"] /\ UNCHANGED encoding
              [] request[c].batch -> Encode(c, "end", 3)
              [] OTHER -> Encode(c, "error", Envelope["parse"])
            /\ UNCHANGED <<shared, buffer, request, item, seen, answer, received>>

\* The error replies are paid for before any command runs.
Reserved(c) ==
    /\ pc[c] = "reserve" /\ Covered(c)
    /\ IF request[c].batch THEN Encode(c, "open", 1)
       ELSE pc' = [pc EXCEPT ![c] = "item"] /\ UNCHANGED encoding
    /\ UNCHANGED <<shared, buffer, request, item, seen, answer, received>>

\* The budget cannot cover them: no command runs, the same errors are streamed unbuffered.
Unreserved(c) ==
    /\ pc[c] = "reserve" /\ seen[c] # None /\ ~Available(c)
    /\ IF ~request[c].batch /\ EnvelopesSize(c) > LineLimit THEN Fail(c)
       ELSE /\ pc' = [pc EXCEPT ![c] = "deliver"] /\ cap' = [cap EXCEPT ![c] = 0]
            /\ replies' = [replies EXCEPT ![c] = [i \in 1..Count(c) |-> "global"]]
            /\ seen' = [seen EXCEPT ![c] = None]
            /\ UNCHANGED <<shared, len, request, item, encoding, overflow, executed, received>>

Runs(c) == IF overflow[c] = None THEN {item[c]} ELSE {}

\* Commands run until one overflows; the ones after it get an error and are not executed.
Execute(c) ==
    /\ pc[c] = "item"
    /\ executed' = [executed EXCEPT ![c] = @ \cup Runs(c)]
    /\ IF overflow[c] = None THEN Encode(c, "reply", Commands(c)[item[c]].reply)
       ELSE Encode(c, "skip", SkipSize(c, item[c]))
    /\ UNCHANGED <<shared, buffer, request, item, seen, overflow, replies, received>>

\* A reply that overflows is rolled back and replaced by its error; a part that must fit ends send.
Overflow(c) ==
    /\ pc[c] = "write"
    /\ \E limit \in {"line", "global"} :
         /\ IF limit = "line" THEN OverLine(c) ELSE seen[c] # None /\ ~Available(c)
         /\ IF part[c] # "reply" THEN Fail(c)
            ELSE /\ len' = [len EXCEPT ![c] = start[c]]
                 /\ overflow' = [overflow EXCEPT ![c] = limit]
                 /\ part' = [part EXCEPT ![c] = "error"]
                 /\ left' = [left EXCEPT ![c] = ErrorSize(limit, Commands(c)[item[c]])]
                 /\ seen' = [seen EXCEPT ![c] = None]
                 /\ UNCHANGED <<shared, cap, pc, request, item, start, replies, executed, received>>

\* What a reply or an error says to the client.
Outcome(c) ==
    CASE part[c] = "reply" -> "ok"
      [] request[c].commands = <<>> -> "parse"
      [] part[c] = "skip" -> "skipped"
      [] OTHER -> overflow[c]

\* A part is complete: the framing and the next command, or the end of the line.
Advance(c) ==
    /\ pc[c] = "next"
    /\ replies' = [replies EXCEPT ![c] = IF part[c] \in {"reply", "error", "skip"} THEN Append(@, Outcome(c)) ELSE @]
    /\ CASE part[c] = "end" -> pc' = [pc EXCEPT ![c] = "deliver"] /\ UNCHANGED <<encoding, item>>
         [] part[c] \in {"open", "comma"} -> pc' = [pc EXCEPT ![c] = "item"] /\ UNCHANGED <<encoding, item>>
         [] OTHER -> IF item[c] < Count(c)
                     THEN Encode(c, "comma", 1) /\ item' = [item EXCEPT ![c] = @ + 1]
                     ELSE Encode(c, "end", IF request[c].batch THEN 2 ELSE 1) /\ UNCHANGED item
    /\ UNCHANGED <<shared, buffer, request, seen, overflow, executed, received>>

\* Delivery::send: the client gets the line, or the write fails or times out.
Deliver(c) ==
    /\ pc[c] = "deliver" /\ Recycle(c) /\ Forget(c)
    /\ \E to \in {"idle", "closed"} : pc' = [pc EXCEPT ![c] = to]
    /\ request' = [request EXCEPT ![c] = None] /\ UNCHANGED received

\* send_notification: exempt from the limits, the shared buffer cut back to the floor after it.
Notify(c) ==
    /\ pc[c] = "idle"
    /\ \E n \in {0, Floor} : cap' = [cap EXCEPT ![c] = n]
    /\ UNCHANGED <<shared, len, pc, request, item, encoding, seen, answer, received>>

\* A new connection takes the place of one that ended.
Reconnect(c) ==
    /\ pc[c] \in {"failed", "closed"}
    /\ pc' = [pc EXCEPT ![c] = "idle"] /\ cap' = [cap EXCEPT ![c] = 0]
    /\ request' = [request EXCEPT ![c] = None]
    /\ UNCHANGED <<shared, len, item, encoding, seen, answer, received>>

Step(c) ==
    \/ Begin(c) \/ Reserved(c) \/ Unreserved(c) \/ Execute(c) \/ Overflow(c) \/ Advance(c)
    \/ Load(c) \/ CompareExchange(c) \/ Put(c) \/ Deliver(c)

Quiet == received = MaxRequests /\ \A c \in Conns : pc[c] = "idle"

Next ==
    \/ Quiet /\ UNCHANGED vars
    \/ \E c \in Conns : Step(c) \/ Notify(c) \/ Reconnect(c) \/ \E r \in Requests : Receive(c, r)

\* The writer threads run; clients need not send anything.
Fairness == \A c \in Conns : WF_vars(Step(c))

Spec == Init /\ [][Next]_vars /\ Fairness

----------------------------------------------------------------------------
TypeOK ==
    /\ reserved \in Int /\ granted \in [Conns -> Nat]
    /\ len \in [Conns -> Nat] /\ cap \in [Conns -> Nat]
    /\ pc \in [Conns -> {"idle", "begin", "reserve", "item", "write", "next", "deliver", "failed", "closed"}]
    /\ request \in [Conns -> Requests \cup {None}] /\ item \in [Conns -> Nat]
    /\ part \in [Conns -> {None, "open", "reply", "error", "skip", "comma", "end"}]
    /\ left \in [Conns -> Nat] /\ start \in [Conns -> Nat]
    /\ seen \in [Conns -> Int \cup {None}]
    /\ overflow \in [Conns -> {None, "line", "global"}]
    /\ replies \in [Conns -> Seq({"ok", "line", "global", "skipped", "parse"})]
    /\ executed \in [Conns -> SUBSET Nat] /\ received \in Nat

\* The shared counter is the sum of the live reservations and never above the budget, so that
\* `limit - reserved` in ensure cannot underflow and a line that ends returns all it took.
BudgetExact ==
    reserved = MapThenSumSet(LAMBDA c : granted[c], Conns) /\ reserved <= Budget

\* Every byte of capacity above the exempt floor is charged, while a line is assembled and when
\* a buffer is kept for the next line, rolled-back replies included.
ChargedAboveFloor ==
    \A c \in Conns : len[c] <= cap[c] /\ cap[c] <= Floor + granted[c]

Fits(c) ==
    CASE Count(c) > 0 -> EnvelopesSize(c) <= LineLimit /\ (request[c].batch => Count(c) <= MaxBatch)
      [] request[c].batch -> 3 <= LineLimit
      [] OTHER -> Envelope["parse"] + 1 <= LineLimit

\* Once its error replies fit, a request is answered: neither the line limit nor what other
\* connections take from the budget can make an error reply or the framing fail half-way.
ErrorsAlwaysFit == \A c \in Conns : pc[c] = "failed" => ~Fits(c)

\* A line within the limit holds one reply per command, in order; a command is reported as
\* skipped or refused by the budget up front if and only if it did not run.
OneReplyEach ==
    \A c \in Conns :
      pc[c] = "deliver" /\ Count(c) > 0 =>
        /\ Len(replies[c]) = Count(c) /\ len[c] <= LineLimit
        /\ \A i \in 1..Count(c) :
             i \in executed[c] <=> replies[c][i] # "skipped" /\ ~(executed[c] = {} /\ replies[c][i] = "global")
        /\ \E n \in 0..Count(c) : executed[c] = 1..n

\* Every request is answered or ends its connection, though connections contend for the budget.
RequestsEnd == \A c \in Conns : pc[c] = "begin" ~> pc[c] \in {"idle", "failed", "closed"}
==============================================================================

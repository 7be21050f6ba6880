---------------------------- MODULE DaemonProofs ----------------------------
(***************************************************************************)
(* Proofs about the calls over the shared connection to the daemon, for    *)
(* any number of threads, retries and replies, and about the settings that *)
(* the databases are opened with, for any settings and crashes.            *)
(***************************************************************************)
EXTENDS DaemonParts, TLAPS

----------------------------------------------------------------------------
(* Calls over the shared connection: DaemonRpc.                            *)

ReplyKinds == Kinds \cup {"warmup"}
ReplySet == [id : Nat, kind : ReplyKinds]
Ageing == {"young", "expired", "cooling"}
ConnOf(A, R) == [asked : A, replies : R, torn : BOOLEAN, open : BOOLEAN, age : Ageing]
Conns == ConnOf(Seq(Nat), Seq(ReplySet))

\* The requests and replies that are on a connection.
Outstanding(k) == Len(k.asked) + Len(k.replies)

\* The mutex of the connection is held by the thread that waits for a reply or connects.
MutexHeld == \A c \in Callers : caller[c].at \in {"recv", "connect"} <=> holder = c

RpcInvariant == TypeOK /\ conn \in Conns /\ MutexHeld /\ matched = TRUE /\ RepairPending

Repairs == {"backoff", "relock", "connect"}
Repairing == \E c \in Callers : caller[c].at \in Repairs
Unclaimed == conn.torn \/ Outstanding(conn) > Sent

\* Lengths of what a queue holds.
LEMMA QueueLengths ==
    ASSUME NEW S, NEW q \in Seq(S)
    PROVE  /\ Len(q) \in Nat
           /\ \A x \in S : Append(q, x) \in Seq(S) /\ Len(Append(q, x)) = Len(q) + 1 /\ Append(q, x) # <<>>
           /\ q # <<>> => Tail(q) \in Seq(S) /\ Len(Tail(q)) = Len(q) - 1 /\ Head(q) \in S /\ Len(q) > 0
  OBVIOUS

\* An empty queue.
LEMMA NothingAsked == <<>> \in Seq(Nat) /\ Len(<<>>) = 0
  OBVIOUS

\* The parts of a connection.
LEMMA ConnFields ==
    ASSUME NEW k \in Conns
    PROVE  /\ k.asked \in Seq(Nat) /\ k.replies \in Seq(ReplySet) /\ k.torn \in BOOLEAN /\ k.open \in BOOLEAN
           /\ k.age \in Ageing /\ Len(k.asked) \in Nat /\ Len(k.replies) \in Nat /\ Outstanding(k) \in Nat
<1>1. k \in ConnOf(Seq(Nat), Seq(ReplySet))
  BY ZenonT(60) DEF Conns
<1>2. ASSUME NEW A, NEW R, k \in ConnOf(A, R)
      PROVE  /\ k.asked \in A /\ k.replies \in R /\ k.torn \in BOOLEAN /\ k.open \in BOOLEAN /\ k.age \in Ageing
  BY ZenonT(60), <1>2 DEF ConnOf
<1>3. k.asked \in Seq(Nat) /\ k.replies \in Seq(ReplySet)
  BY ZenonT(60), <1>1, <1>2
<1>4. Len(k.asked) \in Nat /\ Len(k.replies) \in Nat
  BY ZenonT(60), <1>3, QueueLengths
<1>5. \A x, y \in Nat : x + y \in Nat
  OBVIOUS
<1>6. Outstanding(k) \in Nat
  BY ZenonT(60), <1>4, <1>5 DEF Outstanding
<1>7. k.torn \in BOOLEAN /\ k.open \in BOOLEAN /\ k.age \in Ageing
  BY ZenonT(60), <1>1, <1>2
<1> QED
  BY ZenonT(60), <1>3, <1>4, <1>6, <1>7

\* A connection with the requests a, the replies r, and t if one was read in part.
Has(k, a, r, t) == k \in Conns /\ k.asked = a /\ k.replies = r /\ k.torn = t

\* A request is sent.
LEMMA AskedChanges ==
    ASSUME NEW k \in Conns, NEW a \in Seq(Nat), NEW j, j = [k EXCEPT !.asked = a]
    PROVE  Has(j, a, k.replies, k.torn)
<1>1. ASSUME NEW A, NEW R, k \in ConnOf(A, R), a \in A
      PROVE  j \in ConnOf(A, R) /\ j.asked = a /\ j.replies = k.replies /\ j.torn = k.torn
  BY ZenonT(60), <1>1 DEF ConnOf
<1> QED
  BY ZenonT(60), <1>1 DEF Conns, Has

\* The connection is lost, with the requests on it.
LEMMA ConnLost ==
    ASSUME NEW k \in Conns, NEW a \in Seq(Nat), NEW j, j = [k EXCEPT !.open = FALSE, !.asked = a]
    PROVE  Has(j, a, k.replies, k.torn)
<1>1. ASSUME NEW A, NEW R, k \in ConnOf(A, R), a \in A
      PROVE  j \in ConnOf(A, R) /\ j.asked = a /\ j.replies = k.replies /\ j.torn = k.torn
  BY ZenonT(60), <1>1 DEF ConnOf
<1> QED
  BY ZenonT(60), <1>1 DEF Conns, Has

\* A reply is read.
LEMMA RepliesChange ==
    ASSUME NEW k \in Conns, NEW r \in Seq(ReplySet), NEW j, j = [k EXCEPT !.replies = r]
    PROVE  Has(j, k.asked, r, k.torn)
<1>1. ASSUME NEW A, NEW R, k \in ConnOf(A, R), r \in R
      PROVE  j \in ConnOf(A, R) /\ j.asked = k.asked /\ j.replies = r /\ j.torn = k.torn
  BY ZenonT(60), <1>1 DEF ConnOf
<1> QED
  BY ZenonT(60), <1>1 DEF Conns, Has

\* A request is answered.
LEMMA AskedAnswered ==
    ASSUME NEW k \in Conns, NEW a \in Seq(Nat), NEW r \in Seq(ReplySet), NEW j, j = [k EXCEPT !.asked = a, !.replies = r]
    PROVE  Has(j, a, r, k.torn)
<1>1. ASSUME NEW A, NEW R, k \in ConnOf(A, R), a \in A, r \in R
      PROVE  j \in ConnOf(A, R) /\ j.asked = a /\ j.replies = r /\ j.torn = k.torn
  BY ZenonT(60), <1>1 DEF ConnOf
<1> QED
  BY ZenonT(60), <1>1 DEF Conns, Has

\* The rest of a reply is read.
LEMMA RestRead ==
    ASSUME NEW k \in Conns, NEW r \in Seq(ReplySet), NEW j, j = [k EXCEPT !.replies = r, !.torn = FALSE]
    PROVE  Has(j, k.asked, r, FALSE)
<1>1. ASSUME NEW A, NEW R, k \in ConnOf(A, R), r \in R
      PROVE  j \in ConnOf(A, R) /\ j.asked = k.asked /\ j.replies = r /\ j.torn = FALSE
  BY ZenonT(60), <1>1 DEF ConnOf
<1> QED
  BY ZenonT(60), <1>1 DEF Conns, Has

\* A part of a reply is read.
LEMMA PartRead ==
    ASSUME NEW k \in Conns, NEW j, j = [k EXCEPT !.torn = TRUE]
    PROVE  Has(j, k.asked, k.replies, TRUE)
<1>1. ASSUME NEW A, NEW R, k \in ConnOf(A, R)
      PROVE  j \in ConnOf(A, R) /\ j.asked = k.asked /\ j.replies = k.replies /\ j.torn = TRUE
  BY ZenonT(60), <1>1 DEF ConnOf
<1> QED
  BY ZenonT(60), <1>1 DEF Conns, Has

\* The connection gets old.
LEMMA ConnAges ==
    ASSUME NEW k \in Conns, NEW g \in Ageing, NEW j, j = [k EXCEPT !.age = g]
    PROVE  Has(j, k.asked, k.replies, k.torn)
<1>1. ASSUME NEW A, NEW R, k \in ConnOf(A, R)
      PROVE  j \in ConnOf(A, R) /\ j.asked = k.asked /\ j.replies = k.replies /\ j.torn = k.torn
  BY ZenonT(60), <1>1 DEF ConnOf
<1> QED
  BY ZenonT(60), <1>1 DEF Conns, Has

\* A thread's step leaves the places of the others.
LEMMA OthersStay ==
    ASSUME TypeOK, NEW c \in Callers, NEW to \in [at : Places, id : Nat], caller' = [caller EXCEPT ![c] = to]
    PROVE  /\ caller' \in [Callers -> [at : Places, id : Nat]] /\ caller'[c] = to
           /\ \A d \in Callers : d # c => caller'[d] = caller[d]
  BY ZenonT(60) DEF TypeOK

\* Who repairs and who waits, after the step of one thread.
LEMMA AfterStep ==
    ASSUME RpcInvariant, NEW c \in Callers, NEW to \in [at : Places, id : Nat],
           caller' = [caller EXCEPT ![c] = to]
    PROVE  /\ to.at \in Repairs => Repairing'
           /\ Repairing /\ caller[c].at \notin Repairs => Repairing'
           /\ to.at = "recv" => Sent' = 1
           /\ holder \in {Free, c} /\ to.at # "recv" => Sent' = 0
           /\ holder = Free => Sent = 0
           /\ caller[c].at = "recv" => Sent = 1
           /\ Sent \in {0, 1}
<1>1. /\ caller'[c] = to /\ \A d \in Callers : d # c => caller'[d] = caller[d]
  BY ZenonT(60), OthersStay DEF RpcInvariant
<1>2. \A d \in Callers : caller[d].at \in {"recv", "connect"} <=> holder = d
  BY ZenonT(60) DEF RpcInvariant, MutexHeld
<1>3. Free \notin Callers
  BY ZenonT(60), RpcAssumption
<1> QED
  BY <1>1, <1>2, <1>3 DEF Repairing, Repairs, Sent

\* The promise about a connection in terms of what is on it.
LEMMA RepairMeans ==
    RepairPending <=> (Unclaimed => interrupted \/ Repairing)
  BY ZenonT(60) DEF RepairPending, Unclaimed, Outstanding, Repairing, Repairs

\* The types after a step, from those of what it changes.
LEMMA RpcTypes ==
    ASSUME up' \in BOOLEAN, faults' \in 0..MaxFaults, requests' \in 0..MaxRequests, lastId' \in Nat,
           holder' \in Callers \cup {Free}, interrupted' \in BOOLEAN, matched' = TRUE,
           caller' \in [Callers -> [at : Places, id : Nat]], conn' \in Conns,
           conn'.torn => conn'.replies # <<>>
    PROVE  TypeOK'
<1>1. /\ conn'.asked \in Seq(Nat) /\ conn'.replies \in Seq(ReplySet) /\ conn'.torn \in BOOLEAN
      /\ conn'.open \in BOOLEAN /\ conn'.age \in Ageing
  BY ZenonT(60), ConnFields
<1> QED
  BY ZenonT(60), <1>1 DEF TypeOK, ReplySet, ReplyKinds, Ageing

\* A thread takes the mutex, releases it, or does neither.
Locks(c, to) ==
    \/ holder' = holder /\ caller[c].at \notin {"recv", "connect"} /\ to \notin {"recv", "connect"}
    \/ holder = Free /\ holder' = c /\ to \in {"recv", "connect"}
    \/ caller[c].at \in {"recv", "connect"} /\ holder' = Free /\ to \notin {"recv", "connect"}

\* A step of one thread keeps the promise if the thread goes to repair the connection, or a signal ended a
\* wait, or what is on the connection without a reader was there before and the thread was not to repair it.
LEMMA ThreadKeeps ==
    ASSUME RpcInvariant, NEW c \in Callers, NEW to \in [at : Places, id : Nat],
           caller' = [caller EXCEPT ![c] = to], Locks(c, to.at), up' = up, matched' = TRUE,
           faults' \in 0..MaxFaults, requests' \in 0..MaxRequests, lastId' \in Nat, interrupted' \in BOOLEAN,
           conn' \in Conns, conn'.torn => conn'.replies # <<>>,
           \/ to.at \in Repairs
           \/ interrupted'
           \/ ~Unclaimed'
           \/ Unclaimed /\ caller[c].at \notin Repairs /\ (interrupted => interrupted')
    PROVE  RpcInvariant'
<1>1. /\ TypeOK /\ holder \in Callers \cup {Free} /\ up \in BOOLEAN /\ Free \notin Callers
      /\ \A d \in Callers : caller[d].at \in {"recv", "connect"} <=> holder = d
  BY ZenonT(60), RpcAssumption DEF RpcInvariant, TypeOK, MutexHeld
<1>2. /\ caller'[c] = to /\ \A d \in Callers : d # c => caller'[d] = caller[d]
      /\ caller' \in [Callers -> [at : Places, id : Nat]]
  BY ZenonT(60), <1>1, OthersStay
<1>3. holder' \in Callers \cup {Free}
  BY ZenonT(60), <1>1 DEF Locks
<1>4. TypeOK'
  BY ZenonT(60), <1>1, <1>2, <1>3, RpcTypes
<1>5. MutexHeld'
  BY <1>1, <1>2 DEF MutexHeld, Locks
<1>6. /\ to.at \in Repairs => Repairing'
      /\ Repairing /\ caller[c].at \notin Repairs => Repairing'
  BY <1>2 DEF Repairing, Repairs
<1>7. Unclaimed => interrupted \/ Repairing
  BY ZenonT(60), RepairMeans DEF RpcInvariant
<1>8. Unclaimed' => interrupted' \/ Repairing'
  BY ZenonT(60), <1>6, <1>7
<1>9. RepairPending'
  BY ZenonT(60), <1>8 DEF RepairPending, Unclaimed, Outstanding, Repairing, Repairs
<1> QED
  BY ZenonT(60), <1>4, <1>5, <1>9 DEF RpcInvariant

\* Numbers of replies, and of threads that wait for one.
LEMMA Counts ==
    ASSUME NEW a \in Nat, NEW b \in Nat, NEW n \in {0, 1}
    PROVE  /\ a <= b /\ a > n => b > n
           /\ a + 1 > 1 => a > 0
           /\ a - 1 > 0 => a > 1
           /\ ~(0 + 0 > n)
  OBVIOUS

\* A step of bitcoind or of the network moves no thread.
LEMMA NobodyMoves ==
    ASSUME RpcInvariant, Apart, conn' \in Conns, up' \in BOOLEAN, faults' \in 0..MaxFaults,
           conn'.torn = conn.torn, conn'.torn => conn'.replies # <<>>, Outstanding(conn') <= Outstanding(conn)
    PROVE  RpcInvariant'
<1>1. /\ requests' \in 0..MaxRequests /\ lastId' \in Nat /\ holder' \in Callers \cup {Free}
      /\ interrupted' \in BOOLEAN /\ matched' = TRUE /\ caller' \in [Callers -> [at : Places, id : Nat]]
  BY ZenonT(60) DEF RpcInvariant, TypeOK, Apart
<1>2. TypeOK'
  BY ZenonT(60), <1>1, RpcTypes
<1>3. MutexHeld'
  BY ZenonT(60) DEF RpcInvariant, MutexHeld, Apart
<1>4. Sent' = Sent /\ Sent \in {0, 1}
  BY ZenonT(60) DEF Sent, Apart
<1>5. Outstanding(conn) \in Nat /\ Outstanding(conn') \in Nat
  BY ZenonT(60), ConnFields DEF RpcInvariant
<1>6. Outstanding(conn') > Sent' => Outstanding(conn) > Sent
  BY ZenonT(60), <1>4, <1>5, Counts
<1>7. Unclaimed' => Unclaimed
  BY ZenonT(60), <1>6 DEF Unclaimed, Outstanding
<1>8. Repairing' = Repairing /\ interrupted' = interrupted
  BY ZenonT(60) DEF Repairing, Apart
<1>9. RepairPending'
  BY ZenonT(60), <1>7, <1>8, RepairMeans DEF RpcInvariant, RepairPending, Unclaimed, Outstanding, Repairing, Repairs
<1> QED
  BY ZenonT(60), <1>1, <1>2, <1>3, <1>9 DEF RpcInvariant

\* One fault more is within the bound.
LEMMA FaultsBounded ==
    ASSUME TypeOK, Fault
    PROVE  faults' \in 0..MaxFaults
  BY RpcAssumption DEF TypeOK, Fault

\* An answer of bitcoind takes the place of its request.
LEMMA AnswerStep ==
    ASSUME RpcInvariant, Answer
    PROVE  RpcInvariant'
<1>1. PICK kind \in ReplyKinds :
          conn' = [conn EXCEPT !.asked = Tail(conn.asked),
                               !.replies = Append(conn.replies, [id |-> Head(conn.asked), kind |-> kind])]
  BY ZenonT(60) DEF Answer, ReplyKinds
<1>2. conn \in Conns /\ conn.asked # <<>> /\ Apart /\ up' = up
  BY ZenonT(60) DEF RpcInvariant, Answer
<1>3. conn.asked \in Seq(Nat) /\ conn.replies \in Seq(ReplySet)
  BY ZenonT(60), <1>2, ConnFields
<1>4. /\ Head(conn.asked) \in Nat /\ Tail(conn.asked) \in Seq(Nat) /\ Len(Tail(conn.asked)) = Len(conn.asked) - 1
      /\ Len(conn.asked) \in Nat /\ Len(conn.replies) \in Nat
  BY ZenonT(60), <1>2, <1>3, QueueLengths
<1>5. [id |-> Head(conn.asked), kind |-> kind] \in ReplySet
  BY ZenonT(60), <1>1, <1>4 DEF ReplySet
<1>6. PICK more \in Seq(ReplySet) :
         /\ more = Append(conn.replies, [id |-> Head(conn.asked), kind |-> kind])
         /\ Len(more) = Len(conn.replies) + 1 /\ more # <<>>
  BY ZenonT(60), <1>3, <1>5, QueueLengths
<1>7. PICK less \in Seq(Nat) : less = Tail(conn.asked) /\ Len(less) = Len(conn.asked) - 1
  BY ZenonT(60), <1>4
<1>8. Has(conn', less, more, conn.torn)
  <2>1. conn' = [conn EXCEPT !.asked = less, !.replies = more]
    BY ZenonT(60), <1>1, <1>6, <1>7
  <2> QED
    BY ZenonT(60), <1>2, <2>1, AskedAnswered
<1>9. Outstanding(conn') <= Outstanding(conn)
  <2>1. \A x, y \in Nat : (x - 1) + (y + 1) <= x + y
    OBVIOUS
  <2> QED
    BY ZenonT(60), <1>4, <1>6, <1>7, <1>8, <2>1 DEF Outstanding, Has
<1>10. faults' \in 0..MaxFaults /\ up \in BOOLEAN
  BY ZenonT(60), FaultsBounded DEF RpcInvariant, TypeOK, Answer
<1> QED
  BY ZenonT(60), <1>2, <1>6, <1>8, <1>9, <1>10, NobodyMoves DEF Has

\* The connection is lost, bitcoind comes back, or the connection grows old.
LEMMA NetworkStep ==
    ASSUME RpcInvariant, Disconnect \/ Restart \/ Ages
    PROVE  RpcInvariant'
<1>1. conn \in Conns /\ TypeOK /\ up \in BOOLEAN /\ faults \in 0..MaxFaults
  BY ZenonT(60) DEF RpcInvariant, TypeOK
<1>2. Apart /\ up' \in BOOLEAN /\ faults' \in 0..MaxFaults
  BY ZenonT(60), <1>1, FaultsBounded DEF Disconnect, Restart, Ages
<1>3. conn.torn => conn.replies # <<>>
  BY ZenonT(60), <1>1 DEF TypeOK
<1>4. Outstanding(conn) \in Nat /\ Len(conn.asked) \in Nat /\ Len(conn.replies) \in Nat
  BY ZenonT(60), <1>1, ConnFields
<1>5. CASE Disconnect
  <2>1. PICK none \in Seq(Nat) : none = <<>> /\ Len(none) = 0
    BY ZenonT(60), NothingAsked
  <2>2. conn' = [conn EXCEPT !.open = FALSE, !.asked = none]
    BY ZenonT(60), <1>5, <2>1 DEF Disconnect
  <2>3. Has(conn', none, conn.replies, conn.torn)
    BY ZenonT(60), <1>1, <2>1, <2>2, ConnLost
  <2>4. Outstanding(conn') <= Outstanding(conn)
    <3>1. \A x, y \in Nat : 0 + y <= x + y
      OBVIOUS
    <3> QED
      BY ZenonT(60), <1>4, <2>1, <2>3, <3>1 DEF Outstanding, Has
  <2> QED
    BY ZenonT(60), <1>2, <1>3, <2>3, <2>4, NobodyMoves DEF Has
<1>6. ASSUME Has(conn', conn.asked, conn.replies, conn.torn)
      PROVE  RpcInvariant'
  <2>1. \A x \in Nat : x <= x
    OBVIOUS
  <2> QED
    BY ZenonT(60), <1>2, <1>3, <1>4, <1>6, <2>1, NobodyMoves DEF Has, Outstanding
<1>7. CASE Restart
  BY ZenonT(60), <1>1, <1>6, <1>7 DEF Restart, Has
<1>8. CASE Ages
  <2>1. conn' = [conn EXCEPT !.age = "expired"] /\ "expired" \in Ageing
    BY ZenonT(60), <1>8 DEF Ages, Ageing
  <2> QED
    BY ZenonT(60), <1>1, <1>6, <2>1, ConnAges
<1> QED
  BY ZenonT(60), <1>5, <1>7, <1>8

\* What holds before every step.
LEMMA BeforeStep ==
    ASSUME RpcInvariant
    PROVE  /\ TypeOK /\ conn \in Conns /\ matched = TRUE /\ (conn.torn => conn.replies # <<>>)
           /\ faults \in 0..MaxFaults /\ requests \in 0..MaxRequests /\ lastId \in Nat /\ interrupted \in BOOLEAN
           /\ \A c \in Callers : caller[c].at \in Places /\ caller[c].id \in Nat
  BY ZenonT(60) DEF RpcInvariant, TypeOK

\* Where a thread goes, with or without the number of a request.
LEMMA GoesTo ==
    ASSUME NEW at \in Places, NEW id \in Nat
    PROVE  [at |-> at, id |-> id] \in [at : Places, id : Nat] /\ [at |-> at, id |-> id].at = at
  BY ZenonT(60)

\* A step that leaves the connection and moves a thread that was not to repair it.
LEMMA Quiet ==
    ASSUME RpcInvariant, NEW c \in Callers, NEW at \in Places, NEW id \in Nat,
           caller' = [caller EXCEPT ![c] = [at |-> at, id |-> id]], Locks(c, at),
           UNCHANGED <<up, faults, conn, interrupted, matched>>, lastId' \in Nat, requests' \in 0..MaxRequests,
           at \in Repairs \/ (caller[c].at \notin {"recv"} \cup Repairs /\ at # "recv")
    PROVE  RpcInvariant'
<1>1. PICK to \in [at : Places, id : Nat] : to = [at |-> at, id |-> id] /\ to.at = at
  BY ZenonT(60), GoesTo
<1>2. caller' = [caller EXCEPT ![c] = to]
  BY ZenonT(60), <1>1
<1>3. at \in Repairs \/ ~Unclaimed' \/ (Unclaimed /\ caller[c].at \notin Repairs)
  <2>1. CASE at \in Repairs
    BY <2>1
  <2>2. CASE caller[c].at \notin {"recv"} \cup Repairs /\ at # "recv"
    <3>1. Sent' = Sent
      BY <1>1, <1>2, <2>2, OthersStay DEF Sent, RpcInvariant
    <3> QED
      BY ZenonT(60), <2>2, <3>1 DEF Unclaimed, Outstanding
  <2> QED
    BY ZenonT(60), <2>1, <2>2
<1> QED
  BY ZenonT(60), <1>1, <1>2, <1>3, BeforeStep, ThreadKeeps

\* A request begins, waits before it tries again, or takes the mutex to connect.
LEMMA WaitingStep ==
    ASSUME RpcInvariant, NEW c \in Callers, Begin(c) \/ Backoff(c) \/ Relock(c)
    PROVE  RpcInvariant'
<1>1. /\ lastId \in Nat /\ lastId + 1 \in Nat /\ requests \in 0..MaxRequests /\ 0 \in Nat
      /\ requests < MaxRequests => requests + 1 \in 0..MaxRequests
  <2>1. lastId \in Nat /\ requests \in 0..MaxRequests
    BY ZenonT(60), BeforeStep
  <2> QED
    BY <2>1, RpcAssumption
<1>2. CASE Begin(c)
  <2>1. /\ caller' = [caller EXCEPT ![c] = [at |-> "lock", id |-> lastId + 1]]
        /\ UNCHANGED <<up, faults, conn, interrupted, matched>> /\ holder' = holder
        /\ lastId' = lastId + 1 /\ requests' \in 0..MaxRequests /\ caller[c].at = "idle"
    BY ZenonT(60), <1>1, <1>2 DEF Begin, Numbered
  <2>2. "lock" \in Places /\ "lock" # "recv" /\ caller[c].at \notin {"recv"} \cup Repairs /\ Locks(c, "lock")
    BY <2>1 DEF Places, Repairs, Locks
  <2> QED
    BY ZenonT(60), <1>1, <2>1, <2>2, Quiet
<1>3. CASE Relock(c)
  <2>1. /\ caller' = [caller EXCEPT ![c] = [at |-> "connect", id |-> 0]]
        /\ UNCHANGED <<up, faults, conn, interrupted, matched>>
        /\ lastId' = lastId /\ requests' = requests /\ holder = Free /\ holder' = c
    BY ZenonT(60), <1>3 DEF Relock, Goes
  <2>2. "connect" \in Places /\ "connect" \in Repairs /\ Locks(c, "connect")
    BY <2>1 DEF Places, Repairs, Locks
  <2> QED
    BY ZenonT(60), <1>1, <2>1, <2>2, Quiet
<1>4. CASE Backoff(c)
  <2>1. caller[c].at = "backoff" /\ UNCHANGED <<up, faults, conn, holder, lastId, requests, matched>>
    BY ZenonT(60), <1>4 DEF Backoff
  <2>2. \/ Goes(c, "relock") /\ interrupted' = interrupted
        \/ Goes(c, "idle") /\ interrupted' = TRUE
    BY ZenonT(60), <1>4 DEF Backoff
  <2>3. "relock" \in Places /\ "relock" \in Repairs /\ Locks(c, "relock") /\ "idle" \in Places /\ Locks(c, "idle")
    BY <2>1 DEF Places, Repairs, Locks
  <2>4. CASE Goes(c, "relock") /\ interrupted' = interrupted
    BY ZenonT(60), <1>1, <2>1, <2>3, <2>4, Quiet DEF Goes
  <2>5. CASE Goes(c, "idle") /\ interrupted' = TRUE
    <3>1. PICK to \in [at : Places, id : Nat] : to = [at |-> "idle", id |-> 0] /\ to.at = "idle"
      BY ZenonT(60), <1>1, <2>3, GoesTo
    <3> QED
      BY ZenonT(60), <2>1, <2>3, <2>5, <3>1, BeforeStep, ThreadKeeps DEF Goes
  <2> QED
    BY ZenonT(60), <2>2, <2>4, <2>5
<1> QED
  BY ZenonT(60), <1>2, <1>3, <1>4

\* A new connection.
LEMMA FreshConn ==
    ASSUME NEW k, k = Fresh
    PROVE  k \in Conns /\ ~k.torn /\ Outstanding(k) = 0
<1>1. <<>> \in Seq(Nat) /\ Len(<<>>) = 0
  BY ZenonT(60), NothingAsked
<1>2. <<>> \in Seq(ReplySet)
  OBVIOUS
<1>3. ASSUME NEW A, NEW R, NEW none, none \in A, none \in R,
             k = [asked |-> none, replies |-> none, torn |-> FALSE, open |-> TRUE, age |-> "young"]
      PROVE  k \in ConnOf(A, R) /\ k.asked = none /\ k.replies = none /\ k.torn = FALSE
  BY <1>3 DEF ConnOf, Ageing
<1>5. PICK none : none = <<>> /\ none \in Seq(Nat) /\ none \in Seq(ReplySet) /\ Len(none) = 0
  BY ZenonT(60), <1>1, <1>2
<1>6. k = [asked |-> none, replies |-> none, torn |-> FALSE, open |-> TRUE, age |-> "young"]
  BY ZenonT(60), <1>5 DEF Fresh
<1>7. /\ k \in ConnOf(Seq(Nat), Seq(ReplySet)) /\ k.asked = none /\ k.replies = none /\ k.torn = FALSE
  BY ZenonT(60), <1>3, <1>5, <1>6
<1>4. 0 + 0 = 0
  OBVIOUS
<1> QED
  BY ZenonT(60), <1>4, <1>5, <1>7 DEF Conns, Outstanding

\* The connection that a request is sent over.
LEMMA RecycledConn ==
    ASSUME RpcInvariant, NEW k, k = Recycled
    PROVE  /\ k \in Conns /\ (k.torn => k.replies # <<>>)
           /\ k.torn \/ Outstanding(k) > 0 => conn.torn \/ Outstanding(conn) > 0
<1>1. conn \in Conns /\ (conn.torn => conn.replies # <<>>)
  BY ZenonT(60), BeforeStep
<1>2. k = conn \/ k = Fresh \/ k = [conn EXCEPT !.age = "cooling"]
  BY ZenonT(60) DEF Recycled
<1>3. CASE k = Fresh
  <2>1. ~(0 > 0)
    OBVIOUS
  <2> QED
    <3>1. k \in Conns /\ ~k.torn /\ Outstanding(k) = 0
      BY ZenonT(60), <1>3, FreshConn
    <3> QED
      BY ZenonT(60), <2>1, <3>1
<1>4. CASE k = [conn EXCEPT !.age = "cooling"]
  <2>1. Has(k, conn.asked, conn.replies, conn.torn)
    BY ZenonT(60), <1>1, <1>4, ConnAges DEF Ageing
  <2> QED
    BY ZenonT(60), <1>1, <2>1 DEF Has, Outstanding
<1> QED
  BY ZenonT(60), <1>1, <1>2, <1>3, <1>4

\* A request is sent, or cannot be.
LEMMA SendStep ==
    ASSUME RpcInvariant, NEW c \in Callers, Send(c)
    PROVE  RpcInvariant'
<1>1. PICK k : k = Recycled
  OBVIOUS
<1>2. /\ k \in Conns /\ (k.torn => k.replies # <<>>)
      /\ k.torn \/ Outstanding(k) > 0 => conn.torn \/ Outstanding(conn) > 0
  BY ZenonT(60), <1>1, RecycledConn
<1>3. /\ caller[c].at = "lock" /\ holder = Free /\ UNCHANGED <<up, faults, lastId, requests, interrupted, matched>>
      /\ \/ /\ conn' = [k EXCEPT !.asked = Append(k.asked, caller[c].id)]
            /\ holder' = c /\ caller' = [caller EXCEPT ![c].at = "recv"]
         \/ conn' = k /\ holder' = c /\ caller' = [caller EXCEPT ![c].at = "recv"]
         \/ conn' = k /\ Goes(c, "backoff") /\ holder' = holder
         \/ conn' = k /\ Goes(c, "idle") /\ holder' = holder
  BY ZenonT(60), <1>1 DEF Send
<1>4. /\ caller[c].id \in Nat /\ 0 \in Nat /\ caller[c].at \notin Repairs /\ {"recv", "backoff", "idle"} \subseteq Places
      /\ caller[c] = [at |-> caller[c].at, id |-> caller[c].id]
  BY <1>3, BeforeStep DEF Repairs, Places, TypeOK
<1>5. holder = Free /\ Sent = 0
  BY <1>3, RpcAssumption DEF RpcInvariant, MutexHeld, Sent
<1>6. conn.torn \/ Outstanding(conn) > 0 => Unclaimed
  BY ZenonT(60), <1>5 DEF Unclaimed
<1>7. k.asked \in Seq(Nat) /\ Len(k.asked) \in Nat /\ Len(k.replies) \in Nat /\ Outstanding(k) \in Nat
  BY ZenonT(60), <1>2, ConnFields
<1>8. CASE holder' = c /\ caller' = [caller EXCEPT ![c].at = "recv"]
  <2>1. PICK to \in [at : Places, id : Nat] : to = [at |-> "recv", id |-> caller[c].id] /\ to.at = "recv"
    BY ZenonT(60), <1>4, GoesTo
  <2>2. caller' = [caller EXCEPT ![c] = to]
    <3>1. \A r \in [at : Places, id : Nat] : [r EXCEPT !.at = "recv"] = [at |-> "recv", id |-> r.id]
      OBVIOUS
    <3>2. caller[c] \in [at : Places, id : Nat]
      BY ZenonT(60), BeforeStep DEF TypeOK
    <3>3. [caller[c] EXCEPT !.at = "recv"] = to
      BY ZenonT(60), <2>1, <3>1, <3>2
    <3>4. caller' = [caller EXCEPT ![c] = [caller[c] EXCEPT !.at = "recv"]]
      BY ZenonT(60), <1>8
    <3> QED
      BY ZenonT(60), <3>3, <3>4
  <2>3. Sent' = 1
    BY ZenonT(60), <2>1, <2>2, AfterStep
  <2>4. conn' \in Conns /\ (conn'.torn => conn'.replies # <<>>) /\ (Unclaimed' => k.torn \/ Outstanding(k) > 0)
    <3>1. CASE conn' = k
      <4>1. Outstanding(k) > 1 => Outstanding(k) > 0
        BY <1>7
      <4> QED
        BY ZenonT(60), <1>2, <2>3, <3>1, <4>1 DEF Unclaimed, Outstanding
    <3>2. CASE conn' = [k EXCEPT !.asked = Append(k.asked, caller[c].id)]
      <4>1. PICK a \in Seq(Nat) : a = Append(k.asked, caller[c].id) /\ Len(a) = Len(k.asked) + 1
        BY ZenonT(60), <1>4, <1>7, QueueLengths
      <4>2. Has(conn', a, k.replies, k.torn)
        BY ZenonT(60), <1>2, <3>2, <4>1, AskedChanges
      <4>3. \A x, y \in Nat : (x + 1) + y > 1 => x + y > 0
        OBVIOUS
      <4> QED
        BY ZenonT(60), <1>2, <1>7, <2>3, <4>1, <4>2, <4>3 DEF Unclaimed, Outstanding, Has
    <3> QED
      BY ZenonT(60), <1>3, <3>1, <3>2
  <2>5. Locks(c, to.at)
    BY ZenonT(60), <1>3, <1>8, <2>1 DEF Locks
  <2> QED
    BY ZenonT(60), <1>2, <1>3, <1>4, <1>6, <2>1, <2>2, <2>4, <2>5, BeforeStep, ThreadKeeps
<1>9. CASE conn' = k /\ (Goes(c, "backoff") \/ Goes(c, "idle")) /\ holder' = holder
  <2>1. PICK at \in {"backoff", "idle"} : Goes(c, at)
    BY ZenonT(60), <1>9
  <2>2. PICK to \in [at : Places, id : Nat] : to = [at |-> at, id |-> 0] /\ to.at = at
    BY ZenonT(60), <1>4, <2>1, GoesTo
  <2>3. caller' = [caller EXCEPT ![c] = to] /\ at # "recv" /\ Locks(c, to.at)
    BY <1>3, <1>9, <2>1, <2>2 DEF Goes, Locks
  <2>4. Sent' = 0
    BY ZenonT(60), <1>5, <2>2, <2>3, AfterStep
  <2>5. Unclaimed' => k.torn \/ Outstanding(k) > 0
    BY ZenonT(60), <1>9, <2>4 DEF Unclaimed, Outstanding
  <2> QED
    BY ZenonT(60), <1>2, <1>3, <1>4, <1>6, <1>9, <2>2, <2>3, <2>5, BeforeStep, ThreadKeeps
<1> QED
  BY ZenonT(60), <1>3, <1>8, <1>9

\* A reply is read, the rest of one is, or none came in time.
LEMMA ReceiveStep ==
    ASSUME RpcInvariant, NEW c \in Callers, Receive(c) \/ ReceiveRest(c) \/ ReceiveFails(c)
    PROVE  RpcInvariant'
<1>1. /\ caller[c].at = "recv" /\ holder' = Free /\ UNCHANGED <<up, lastId, requests, interrupted>>
      /\ conn \in Conns /\ (conn.torn => conn.replies # <<>>)
  BY ZenonT(60), BeforeStep DEF Receive, ReceiveRest, ReceiveFails
<1>2. faults' \in 0..MaxFaults /\ matched' = TRUE
  BY ZenonT(60), BeforeStep, FaultsBounded DEF Receive, ReceiveRest, ReceiveFails, Parsed, RightId
<1>3. 0 \in Nat /\ caller[c].at \notin Repairs /\ {"backoff", "idle"} \subseteq Places /\ "backoff" \in Repairs
  BY <1>1 DEF Repairs, Places
<1>4. PICK at \in {"backoff", "idle"} : Goes(c, at) /\ (ReceiveFails(c) => at = "backoff")
  BY ZenonT(60) DEF Receive, ReceiveRest, ReceiveFails, Parsed
<1>5. PICK to \in [at : Places, id : Nat] : to = [at |-> at, id |-> 0] /\ to.at = at
  BY ZenonT(60), <1>3, <1>4, GoesTo
<1>6. caller' = [caller EXCEPT ![c] = to] /\ at # "recv" /\ Locks(c, to.at)
  BY <1>1, <1>4, <1>5 DEF Goes, Locks
<1>7. Sent = 1 /\ Sent' = 0
  <2>1. holder = c
    BY ZenonT(60), <1>1 DEF RpcInvariant, MutexHeld
  <2> QED
    BY ZenonT(60), <1>1, <1>5, <1>6, <2>1, AfterStep
<1>8. /\ conn.asked \in Seq(Nat) /\ conn.replies \in Seq(ReplySet)
      /\ Len(conn.asked) \in Nat /\ Len(conn.replies) \in Nat
  BY ZenonT(60), <1>1, ConnFields
<1>9. CASE Receive(c)
  <2>1. PICK r \in Seq(ReplySet) : r = Tail(conn.replies) /\ Len(r) = Len(conn.replies) - 1
    BY ZenonT(60), <1>8, <1>9, QueueLengths DEF Receive
  <2>2. Has(conn', conn.asked, r, conn.torn) /\ ~conn.torn
    BY ZenonT(60), <1>1, <1>9, <2>1, RepliesChange DEF Receive
  <2>3. \A x, y \in Nat : x + (y - 1) > 0 => x + y > 1
    OBVIOUS
  <2>4. Unclaimed' => Unclaimed
    BY ZenonT(60), <1>7, <1>8, <2>1, <2>2, <2>3 DEF Unclaimed, Outstanding, Has
  <2> QED
    BY ZenonT(60), <1>1, <1>2, <1>3, <1>6, <2>2, <2>4, BeforeStep, ThreadKeeps DEF Has
<1>10. CASE ReceiveRest(c)
  <2>1. conn.torn /\ Unclaimed
    BY ZenonT(60), <1>10 DEF ReceiveRest, Unclaimed
  <2>2. conn' \in Conns /\ (conn'.torn => conn'.replies # <<>>)
    <3>1. ASSUME NEW r \in Seq(ReplySet), conn' = [conn EXCEPT !.replies = r, !.torn = FALSE]
          PROVE  conn' \in Conns /\ ~conn'.torn
      BY ZenonT(60), <1>1, <3>1, RestRead DEF Has
    <3>2. /\ Tail(conn.replies) \in Seq(ReplySet)
          /\ Len(conn.replies) > 1 => Tail(Tail(conn.replies)) \in Seq(ReplySet)
      <4>1. Tail(conn.replies) \in Seq(ReplySet) /\ Len(Tail(conn.replies)) = Len(conn.replies) - 1
        BY ZenonT(60), <1>1, <1>8, <2>1, QueueLengths
      <4>2. Len(conn.replies) > 1 => Len(conn.replies) - 1 # 0
        <5>1. \A n \in Nat : n > 1 => n - 1 # 0
          OBVIOUS
        <5> QED
          BY ZenonT(60), <1>8, <5>1
      <4>3. Tail(conn.replies) = <<>> => Len(Tail(conn.replies)) = 0
        BY ZenonT(60), NothingAsked
      <4> QED
        BY ZenonT(60), <4>1, <4>2, <4>3, QueueLengths
    <3> QED
      BY ZenonT(60), <1>1, <1>10, <3>1, <3>2 DEF ReceiveRest, Rest
  <2> QED
    BY ZenonT(60), <1>1, <1>2, <1>3, <1>6, <2>1, <2>2, BeforeStep, ThreadKeeps
<1>11. CASE ReceiveFails(c)
  <2>1. conn' = conn \/ (conn.replies # <<>> /\ conn' = [conn EXCEPT !.torn = TRUE])
    BY ZenonT(60), <1>11 DEF ReceiveFails
  <2>2. conn' \in Conns /\ (conn'.torn => conn'.replies # <<>>)
    BY ZenonT(60), <1>1, <2>1, PartRead DEF Has
  <2> QED
    BY ZenonT(60), <1>1, <1>2, <1>3, <1>4, <1>5, <1>6, <1>11, <2>2, BeforeStep, ThreadKeeps
<1> QED
  BY ZenonT(60), <1>9, <1>10, <1>11

\* A thread connects again, or a signal ends its attempts.
LEMMA ConnectStep ==
    ASSUME RpcInvariant, NEW c \in Callers, Connect(c)
    PROVE  RpcInvariant'
<1>1. /\ caller[c].at = "connect" /\ holder' = Free /\ UNCHANGED <<up, faults, requests, matched>>
      /\ conn \in Conns /\ (conn.torn => conn.replies # <<>>)
  BY ZenonT(60), BeforeStep DEF Connect
<1>2. 0 \in Nat /\ lastId + 1 \in Nat /\ {"lock", "idle"} \subseteq Places /\ "lock" # "recv"
  <2>1. lastId \in Nat
    BY ZenonT(60), BeforeStep
  <2> QED
    BY <2>1 DEF Places
<1>3. Locks(c, "lock") /\ Locks(c, "idle")
  BY <1>1 DEF Locks
<1>4. CASE conn' = Fresh /\ Numbered(c) /\ interrupted' = interrupted
  <2>1. PICK to \in [at : Places, id : Nat] : to = [at |-> "lock", id |-> lastId + 1] /\ to.at = "lock"
    BY ZenonT(60), <1>2, GoesTo
  <2>2. caller' = [caller EXCEPT ![c] = to] /\ lastId' = lastId + 1
    BY ZenonT(60), <1>4, <2>1 DEF Numbered
  <2>3. conn' \in Conns /\ ~conn'.torn /\ Outstanding(conn') = 0
    BY ZenonT(60), <1>4, FreshConn
  <2>4. Sent' = 0
    <3>1. holder = c
      BY ZenonT(60), <1>1 DEF RpcInvariant, MutexHeld
    <3> QED
      BY ZenonT(60), <1>2, <2>1, <2>2, <3>1, AfterStep
  <2>5. ~(0 > 0)
    OBVIOUS
  <2>6. ~Unclaimed'
    BY ZenonT(60), <2>3, <2>4, <2>5 DEF Unclaimed, Outstanding
  <2> QED
    BY ZenonT(60), <1>1, <1>2, <1>3, <1>4, <2>1, <2>2, <2>3, <2>6, BeforeStep, ThreadKeeps
<1>5. CASE conn' = conn /\ lastId' = lastId /\ interrupted' = TRUE /\ Goes(c, "idle")
  <2>1. PICK to \in [at : Places, id : Nat] : to = [at |-> "idle", id |-> 0] /\ to.at = "idle"
    BY ZenonT(60), <1>2, GoesTo
  <2> QED
    BY ZenonT(60), <1>1, <1>3, <1>5, <2>1, BeforeStep, ThreadKeeps DEF Goes
<1> QED
  BY ZenonT(60), <1>4, <1>5 DEF Connect, Reconnected

\* Whatever the threads, bitcoind and the network do, in any order and for any number of threads: a result
\* goes to the request it answers, and a connection on which a reply is outstanding that no thread waits
\* for, or that was read in part, is about to be replaced by a thread that backs off (retry_request and
\* handle_request), unless a signal ended that thread's wait.
THEOREM ResultsMatchAlways == Spec => []ResultsAreMatched
<1>1. Init => RpcInvariant
  <2> SUFFICES ASSUME Init PROVE RpcInvariant
    OBVIOUS
  <2>1. conn \in Conns /\ ~conn.torn /\ Outstanding(conn) = 0
    BY ZenonT(60), FreshConn DEF Init
  <2>2. /\ up \in BOOLEAN /\ faults \in 0..MaxFaults /\ requests \in 0..MaxRequests /\ lastId \in Nat
        /\ holder \in Callers \cup {Free} /\ interrupted \in BOOLEAN /\ matched = TRUE
        /\ caller \in [Callers -> [at : Places, id : Nat]] /\ Sent = 0 /\ MutexHeld
    <3>1. 0 \in 0..MaxFaults /\ 0 \in 0..MaxRequests /\ 0 \in Nat
      BY RpcAssumption
    <3>2. [at |-> "idle", id |-> 0] \in [at : Places, id : Nat] /\ [at |-> "idle", id |-> 0].at = "idle"
      BY ZenonT(60), <3>1, GoesTo DEF Places
    <3>3. caller = [c \in Callers |-> [at |-> "idle", id |-> 0]]
      BY ZenonT(60) DEF Init
    <3>4. \A c \in Callers : caller[c].at = "idle"
      BY ZenonT(60), <3>2, <3>3
    <3>5. caller \in [Callers -> [at : Places, id : Nat]]
      BY ZenonT(60), <3>2, <3>3
    <3>6. Sent = 0
      BY <3>4 DEF Sent
    <3>7. MutexHeld
      BY <3>4, RpcAssumption DEF MutexHeld, Init
    <3> QED
      BY ZenonT(60), <3>1, <3>5, <3>6, <3>7 DEF Init
  <2>3. /\ conn.asked \in Seq(Nat) /\ conn.replies \in Seq(ReplySet) /\ conn.torn \in BOOLEAN
        /\ conn.open \in BOOLEAN /\ conn.age \in Ageing
    BY ZenonT(60), <2>1, ConnFields
  <2>4. TypeOK
    BY ZenonT(60), <2>1, <2>2, <2>3 DEF TypeOK, ReplySet, ReplyKinds, Ageing
  <2>5. ~(0 > 0)
    OBVIOUS
  <2>6. RepairPending
    BY ZenonT(60), <2>1, <2>2, <2>5, RepairMeans DEF Unclaimed
  <2> QED
    BY ZenonT(60), <2>1, <2>2, <2>4, <2>6 DEF RpcInvariant
<1>2. RpcInvariant /\ [Next]_vars => RpcInvariant'
  <2> SUFFICES ASSUME RpcInvariant, [Next]_vars PROVE RpcInvariant'
    OBVIOUS
  <2>1. CASE Next
    BY ZenonT(60), <2>1, AnswerStep, NetworkStep, WaitingStep, SendStep, ReceiveStep, ConnectStep DEF Next, Calls
  <2>2. CASE UNCHANGED vars
    BY ZenonT(60), <2>2 DEF vars, RpcInvariant, TypeOK, MutexHeld, RepairPending, Sent
  <2> QED
    BY ZenonT(60), <2>1, <2>2
<1>3. RpcInvariant => ResultsAreMatched
  BY ZenonT(60) DEF RpcInvariant, ResultsAreMatched, ResultsMatch
<1> QED
  BY <1>1, <1>2, <1>3, PTL DEF Spec

----------------------------------------------------------------------------
(* The settings of the databases: DatabaseOpen.                            *)

Names == {"txstore", "history", "cache"}
Versions == {<<>>} \cup {<<l>> : l \in Lights} \cup {<<l, f>> : l \in Lights, f \in Flags}
FlagRows == {<<>>} \cup {<<f>> : f \in Flags}
MarkOf(V, F) == [version : V, flags : F, full : BOOLEAN]
Marks == MarkOf(Versions, FlagRows)

\* The databases that a pass over them has yet to reach, in its order, and those that it has done.
Suffixes == {<<>>, <<"cache">>, <<"history", "cache">>, <<"txstore", "history", "cache">>}
Passed(q) == CASE q = <<>> -> Names [] q = <<"cache">> -> {"txstore", "history"}
               [] q = <<"history", "cache">> -> {"txstore"} [] OTHER -> {}

\* The rows V and VF of a database with rows built with the settings s, before or after they are upgraded.
MarkedBy(m, s) ==
    \/ m.version = <<s.light, s.flags>> /\ m.flags \in {<<>>, <<s.flags>>}
    \/ m.version = <<s.light>> /\ m.flags = <<s.flags>>
Settled(m) == m.version = <<config.light>> /\ m.flags = <<config.flags>>
Unsettled(m) == m.version = <<>> \/ m.version = <<config.light, config.flags>>

Verifying == {"verify", "putFlags", "putOnlyFlags", "putVersion"}
Compacting == {"compact", "tighten", "sentinel"}
Doings == {"down", "refused", "open", "running"} \cup Verifying \cup Compacting

StoredTypes ==
    /\ marks \in [Names -> Marks] /\ built \in [Names -> SUBSET Stored!Settings] /\ backlog \subseteq Names
    /\ triggers \in [Names -> {"wide", "steady"}] /\ config \in Stored!Settings
    /\ opening \in Doings /\ toOpen \in Suffixes
    /\ opening \in {"open"} \cup Verifying \cup Compacting => toOpen # <<>>

\* What the pass over the databases knows of the rows V and VF.
Progress ==
    /\ opening \in {"open"} \cup Verifying => \A d \in Passed(toOpen) : Settled(marks[d])
    /\ opening \in {"running"} \cup Compacting => \A d \in Names : Settled(marks[d])
    /\ opening = "putFlags" => Unsettled(marks[Head(toOpen)])
    /\ opening = "putVersion" => Unsettled(marks[Head(toOpen)]) /\ marks[Head(toOpen)].flags = <<config.flags>>
    /\ opening = "putOnlyFlags" =>
         marks[Head(toOpen)].version = <<config.light>> /\ marks[Head(toOpen)].flags = <<>>

\* Rows are in a database only when all of them are marked with the settings of these rows.
RowsMarked ==
    origin # "unflagged" =>
      /\ \A d, e \in Names : \A s \in built[d] : MarkedBy(marks[e], s)
      /\ opening = "refused" => \A d \in Names : config \notin built[d]

\* A database with steady-state triggers, or with the row F, has no backlog.
Drained ==
    /\ \A d \in Names : triggers[d] = "steady" \/ marks[d].full => d \notin backlog
    /\ opening = "open" => \A d \in Passed(toOpen) : marks[d].full => triggers[d] = "steady"
    /\ opening \in Verifying => \A d \in Passed(toOpen) \cup {Head(toOpen)} : marks[d].full => triggers[d] = "steady"
    /\ opening \in {"running"} \cup Compacting => \A d \in Names : marks[d].full => triggers[d] = "steady"
    /\ opening = "tighten" => Head(toOpen) \notin backlog
    /\ opening = "sentinel" => triggers[Head(toOpen)] = "steady"

StoredInvariant == StoredTypes /\ Progress /\ RowsMarked /\ Drained

\* The databases are the ones that are opened.
LEMMA StoredNames == Stored!Names = Names /\ Stored!Stores \in Suffixes /\ Stored!Stores # <<>> /\ Passed(Stored!Stores) = {}
  BY DEF Stored!Names, Stored!Stores, Names, Suffixes, Passed

\* The step from a database to the next one.
LEMMA Passing ==
    ASSUME NEW q \in Suffixes, q # <<>>
    PROVE  /\ Head(q) \in Names /\ Tail(q) \in Suffixes /\ Passed(q) \subseteq Names
           /\ Passed(Tail(q)) = Passed(q) \cup {Head(q)} /\ Head(q) \notin Passed(q)
           /\ Len(q) > 1 => Tail(q) # <<>>
           /\ ~(Len(q) > 1) => Tail(q) = <<>> /\ Passed(q) \cup {Head(q)} = Names
<1>1. CASE q = <<"cache">>
  BY <1>1 DEF Suffixes, Passed, Names
<1>2. CASE q = <<"history", "cache">>
  BY <1>2 DEF Suffixes, Passed, Names
<1>3. CASE q = <<"txstore", "history", "cache">>
  BY <1>3 DEF Suffixes, Passed, Names
<1> QED
  BY ZenonT(60), <1>1, <1>2, <1>3 DEF Suffixes

\* Rows of different shapes differ.
LEMMA Rows ==
    ASSUME NEW a, NEW b, NEW c, NEW d
    PROVE  /\ <<a>> = <<b>> => a = b
           /\ <<a, b>> = <<c, d>> => a = c /\ b = d
           /\ <<a>> # <<b, c>> /\ <<a>> # <<>> /\ <<a, b>> # <<>>
  OBVIOUS

\* Only one setting is the one that a database is marked with.
LEMMA OneMark ==
    ASSUME NEW m, NEW s \in Stored!Settings, NEW t \in Stored!Settings, MarkedBy(m, s), MarkedBy(m, t)
    PROVE  s = t
<1>1. s.light = t.light /\ s.flags = t.flags
  <2>1. CASE m.version = <<s.light, s.flags>>
    <3>1. m.version = <<t.light, t.flags>>
      BY <2>1, Rows DEF MarkedBy
    <3> QED
      BY <2>1, <3>1, Rows
  <2>2. CASE m.version = <<s.light>> /\ m.flags = <<s.flags>>
    <3>1. m.version = <<t.light>> /\ m.flags = <<t.flags>>
      BY <2>2, Rows DEF MarkedBy
    <3> QED
      BY <2>2, <3>1, Rows
  <2> QED
    BY ZenonT(60), <2>1, <2>2 DEF MarkedBy
<1> QED
  BY <1>1 DEF Stored!Settings

\* The rows about a database.
IsMark(n, v, f, u) == n \in Marks /\ n.version = v /\ n.flags = f /\ n.full = u

\* VF is put.
LEMMA FlagsPutMark ==
    ASSUME NEW m \in Marks, NEW f \in FlagRows, NEW n, n = [m EXCEPT !.flags = f]
    PROVE  IsMark(n, m.version, f, m.full)
<1>1. ASSUME NEW V, NEW F, m \in MarkOf(V, F), f \in F
      PROVE  n \in MarkOf(V, F) /\ n.version = m.version /\ n.flags = f /\ n.full = m.full
  BY ZenonT(60), <1>1 DEF MarkOf
<1> QED
  BY ZenonT(60), <1>1 DEF Marks, IsMark

\* V is put.
LEMMA VersionPutMark ==
    ASSUME NEW m \in Marks, NEW v \in Versions, NEW n, n = [m EXCEPT !.version = v]
    PROVE  IsMark(n, v, m.flags, m.full)
<1>1. ASSUME NEW V, NEW F, m \in MarkOf(V, F), v \in V
      PROVE  n \in MarkOf(V, F) /\ n.version = v /\ n.flags = m.flags /\ n.full = m.full
  BY ZenonT(60), <1>1 DEF MarkOf
<1> QED
  BY ZenonT(60), <1>1 DEF Marks, IsMark

\* F is put.
LEMMA FullPutMark ==
    ASSUME NEW m \in Marks, NEW n, n = [m EXCEPT !.full = TRUE]
    PROVE  IsMark(n, m.version, m.flags, TRUE)
<1>1. ASSUME NEW V, NEW F, m \in MarkOf(V, F)
      PROVE  n \in MarkOf(V, F) /\ n.version = m.version /\ n.flags = m.flags /\ n.full = TRUE
  BY ZenonT(60), <1>1 DEF MarkOf
<1> QED
  BY ZenonT(60), <1>1 DEF Marks, IsMark

\* electrs starts with some settings, dies, or begins the pass that compacts the databases.
LEMMA StartStep ==
    ASSUME StoredInvariant, Stored!Start \/ Stored!Crash \/ Stored!FinishSync
    PROVE  StoredInvariant'
<1>1. CASE Stored!Start
  <2>1. /\ config' \in Stored!Settings /\ opening' = "open" /\ toOpen' = Stored!Stores
        /\ UNCHANGED <<origin, marks, built, backlog, triggers>>
    BY ZenonT(60), <1>1 DEF Stored!Start
  <2>2. StoredTypes'
    BY ZenonT(60), <2>1, StoredNames DEF StoredInvariant, StoredTypes, Doings
  <2>3. Progress'
    BY <2>1, StoredNames DEF Progress, Verifying, Compacting
  <2>4. RowsMarked'
    BY ZenonT(60), <2>1 DEF StoredInvariant, RowsMarked
  <2>5. Drained'
    BY <2>1, StoredNames DEF StoredInvariant, Drained, Verifying, Compacting
  <2> QED
    BY ZenonT(60), <2>2, <2>3, <2>4, <2>5 DEF StoredInvariant
<1>2. CASE Stored!Crash
  <2>1. opening' = "down" /\ toOpen' = <<>> /\ UNCHANGED <<origin, marks, built, backlog, triggers, config>>
    BY ZenonT(60), <1>2 DEF Stored!Crash
  <2>2. StoredTypes'
    BY <2>1 DEF StoredInvariant, StoredTypes, Doings, Suffixes, Verifying, Compacting
  <2>3. Progress'
    BY <2>1 DEF Progress, Verifying, Compacting
  <2>4. RowsMarked'
    BY ZenonT(60), <2>1 DEF StoredInvariant, RowsMarked
  <2>5. Drained'
    BY <2>1 DEF StoredInvariant, Drained, Verifying, Compacting
  <2> QED
    BY ZenonT(60), <2>2, <2>3, <2>4, <2>5 DEF StoredInvariant
<1>3. CASE Stored!FinishSync
  <2>1. /\ opening = "running" /\ opening' = "compact" /\ toOpen' = Stored!Stores
        /\ UNCHANGED <<origin, marks, built, backlog, triggers, config>>
    BY ZenonT(60), <1>3 DEF Stored!FinishSync
  <2>2. StoredTypes'
    BY ZenonT(60), <2>1, StoredNames DEF StoredInvariant, StoredTypes, Doings, Compacting
  <2>3. Progress'
    BY <2>1 DEF StoredInvariant, Progress, Verifying, Compacting, Settled
  <2>4. RowsMarked'
    BY ZenonT(60), <2>1 DEF StoredInvariant, RowsMarked
  <2>5. Drained'
    BY <2>1 DEF StoredInvariant, Drained, Verifying, Compacting
  <2> QED
    BY ZenonT(60), <2>2, <2>3, <2>4, <2>5 DEF StoredInvariant
<1> QED
  BY ZenonT(60), <1>1, <1>2, <1>3

\* A database is opened, with the triggers that the row F asks for.
LEMMA OpenStep ==
    ASSUME StoredInvariant, Stored!Open
    PROVE  StoredInvariant'
<1>1. opening = "open" /\ opening' = "verify" /\ UNCHANGED <<origin, marks, built, backlog, config, toOpen>>
  BY ZenonT(60) DEF Stored!Open
<1>2. toOpen \in Suffixes /\ toOpen # <<>>
  BY ZenonT(60), <1>1 DEF StoredInvariant, StoredTypes
<1>3. PICK h \in Names : h = Head(toOpen) /\ Passed(toOpen) \subseteq Names
  BY ZenonT(60), <1>2, Passing
<1>4. triggers' = [triggers EXCEPT ![h] = IF marks[h].full THEN "steady" ELSE "wide"]
  BY ZenonT(60), <1>3 DEF Stored!Open, Stored!OpenedWith
<1>5. /\ triggers' \in [Names -> {"wide", "steady"}] /\ triggers'[h] = (IF marks[h].full THEN "steady" ELSE "wide")
      /\ \A d \in Names : d # h => triggers'[d] = triggers[d]
  BY <1>3, <1>4 DEF StoredInvariant, StoredTypes
<1>6. StoredTypes'
  BY ZenonT(60), <1>1, <1>2, <1>5 DEF StoredInvariant, StoredTypes, Doings, Verifying
<1>7. Progress'
  BY <1>1 DEF StoredInvariant, Progress, Verifying, Compacting, Settled
<1>8. RowsMarked'
  BY ZenonT(60), <1>1 DEF StoredInvariant, RowsMarked
<1>9. Drained'
  BY <1>1, <1>3, <1>5 DEF StoredInvariant, Drained, Verifying, Compacting
<1> QED
  BY ZenonT(60), <1>6, <1>7, <1>8, <1>9 DEF StoredInvariant

\* The rows about one database are written.
LEMMA MarkPut ==
    ASSUME StoredTypes, NEW h \in Names, NEW n \in Marks, marks' = [marks EXCEPT ![h] = n]
    PROVE  /\ marks' \in [Names -> Marks] /\ marks'[h] = n
           /\ \A d \in Names : d # h => marks'[d] = marks[d]
  BY ZenonT(60) DEF StoredTypes

\* The next database, or what follows the last one.
LEMMA GoMeans ==
    ASSUME StoredTypes, toOpen # <<>>, NEW step, NEW then, Stored!Go(step, then)
    PROVE  /\ toOpen' \in Suffixes /\ Passed(toOpen') = Passed(toOpen) \cup {Head(toOpen)}
           /\ \/ opening' = step /\ toOpen' # <<>>
              \/ opening' = then /\ Passed(toOpen) \cup {Head(toOpen)} = Names
<1>1. toOpen \in Suffixes
  BY ZenonT(60) DEF StoredTypes
<1> QED
  BY ZenonT(60), <1>1, Passing DEF Stored!Go

\* A database is found, or made, to be marked with the settings of the process.
LEMMA VerifiedStep ==
    ASSUME StoredInvariant, opening \in Verifying, Stored!Go("open", "running"),
           UNCHANGED <<origin, built, backlog, triggers, config>>,
           NEW h \in Names, h = Head(toOpen), NEW n \in Marks, marks' = [marks EXCEPT ![h] = n],
           Settled(n), n.full = marks[h].full,
           origin # "unflagged" => \A d \in Names : \A s \in built[d] : MarkedBy(n, s)
    PROVE  StoredInvariant'
<1>1. StoredTypes /\ toOpen # <<>> /\ toOpen \in Suffixes
  BY ZenonT(60) DEF StoredInvariant, StoredTypes
<1>2. /\ marks' \in [Names -> Marks] /\ marks'[h] = n
      /\ \A d \in Names : d # h => marks'[d] = marks[d]
  BY ZenonT(60), <1>1, MarkPut
<1>3. /\ toOpen' \in Suffixes /\ Passed(toOpen') = Passed(toOpen) \cup {h}
      /\ \/ opening' = "open" /\ toOpen' # <<>>
         \/ opening' = "running" /\ Passed(toOpen) \cup {h} = Names
  BY ZenonT(60), <1>1, GoMeans
<1>4. Passed(toOpen) \subseteq Names
  BY ZenonT(60), <1>1, Passing
<1>5. StoredTypes'
  BY <1>1, <1>2, <1>3 DEF StoredTypes, Doings, Verifying, Compacting
<1>6. \A d \in Names : marks'[d].full = marks[d].full
  BY ZenonT(60), <1>2
<1>7. \A d \in Passed(toOpen) \cup {h} : Settled(marks[d])'
  <2>1. \A d \in Passed(toOpen) : Settled(marks[d])
    BY ZenonT(60) DEF StoredInvariant, Progress
  <2> QED
    BY ZenonT(60), <1>2, <1>4, <2>1 DEF Settled
<1>8. Progress'
  BY <1>3, <1>7 DEF Progress, Verifying, Compacting
<1>9. RowsMarked'
  <2>1. opening' # "refused"
    BY <1>3
  <2>2. origin # "unflagged" => \A d, e \in Names : \A s \in built[d] : MarkedBy(marks'[e], s)
    BY ZenonT(60), <1>2 DEF StoredInvariant, RowsMarked
  <2> QED
    BY ZenonT(60), <2>1, <2>2 DEF RowsMarked
<1>10. Drained'
  <2>1. \A d \in Passed(toOpen) \cup {h} : marks[d].full => triggers[d] = "steady"
    BY ZenonT(60) DEF StoredInvariant, Drained
  <2>2. \A d \in Names : triggers[d] = "steady" \/ marks[d].full => d \notin backlog
    BY ZenonT(60) DEF StoredInvariant, Drained
  <2> QED
    BY <1>3, <1>4, <1>6, <2>1, <2>2 DEF Drained, Verifying, Compacting
<1> QED
  BY ZenonT(60), <1>5, <1>8, <1>9, <1>10 DEF StoredInvariant

\* A step within the verification of one database.
LEMMA VerifyingStep ==
    ASSUME StoredInvariant, opening \in Verifying, opening' \in Verifying, toOpen' = toOpen,
           UNCHANGED <<origin, built, backlog, triggers, config>>,
           NEW h \in Names, h = Head(toOpen), NEW n \in Marks, marks' = [marks EXCEPT ![h] = n],
           n.full = marks[h].full, h \notin Passed(toOpen),
           opening' = "putFlags" => Unsettled(n),
           opening' = "putVersion" => Unsettled(n) /\ n.flags = <<config.flags>>,
           opening' = "putOnlyFlags" => n.version = <<config.light>> /\ n.flags = <<>>,
           origin # "unflagged" => \A d \in Names : \A s \in built[d] : MarkedBy(n, s)
    PROVE  StoredInvariant'
<1>1. StoredTypes /\ toOpen # <<>> /\ toOpen \in Suffixes
  BY ZenonT(60) DEF StoredInvariant, StoredTypes
<1>2. /\ marks' \in [Names -> Marks] /\ marks'[h] = n
      /\ \A d \in Names : d # h => marks'[d] = marks[d]
  BY ZenonT(60), <1>1, MarkPut
<1>4. Passed(toOpen) \subseteq Names
  BY ZenonT(60), <1>1, Passing
<1>5. StoredTypes'
  BY ZenonT(60), <1>1, <1>2 DEF StoredTypes, Doings
<1>6. \A d \in Names : marks'[d].full = marks[d].full
  BY ZenonT(60), <1>2
<1>7. \A d \in Passed(toOpen) : Settled(marks[d])'
  <2>1. \A d \in Passed(toOpen) : Settled(marks[d])
    BY ZenonT(60) DEF StoredInvariant, Progress
  <2> QED
    BY ZenonT(60), <1>2, <1>4, <2>1 DEF Settled
<1>8. Progress'
  BY <1>2, <1>7 DEF Progress, Verifying, Compacting, Unsettled
<1>9. RowsMarked'
  <2>1. opening' # "refused"
    BY DEF Verifying
  <2>2. origin # "unflagged" => \A d, e \in Names : \A s \in built[d] : MarkedBy(marks'[e], s)
    BY ZenonT(60), <1>2 DEF StoredInvariant, RowsMarked
  <2> QED
    BY ZenonT(60), <2>1, <2>2 DEF RowsMarked
<1>10. Drained'
  <2>1. \A d \in Passed(toOpen) \cup {h} : marks[d].full => triggers[d] = "steady"
    BY ZenonT(60) DEF StoredInvariant, Drained
  <2>2. \A d \in Names : triggers[d] = "steady" \/ marks[d].full => d \notin backlog
    BY ZenonT(60) DEF StoredInvariant, Drained
  <2> QED
    BY <1>4, <1>6, <2>1, <2>2 DEF Drained, Verifying, Compacting
<1> QED
  BY ZenonT(60), <1>5, <1>8, <1>9, <1>10 DEF StoredInvariant

\* What the rows of a database say about the settings of the process, when they say anything about the
\* settings s of rows that were built.
LEMMA MarkSays ==
    ASSUME NEW m, NEW s \in Stored!Settings, MarkedBy(m, s), config \in Stored!Settings
    PROVE  /\ Unsettled(m) => s = config
           /\ ~(m.version = <<config.light>> /\ m.flags = <<>>)
           /\ s = config => ~Stored!Refuses(m)
<1>1. CASE m.version = <<s.light, s.flags>> /\ m.flags \in {<<>>, <<s.flags>>}
  <2>1. m.version # <<>> /\ m.version # <<config.light>>
    BY <1>1, Rows
  <2>2. m.version = <<config.light, config.flags>> => s.light = config.light /\ s.flags = config.flags
    BY <1>1, Rows
  <2>3. s.light = config.light /\ s.flags = config.flags => s = config
    BY DEF Stored!Settings
  <2>4. s = config => ~Stored!Refuses(m)
    BY <1>1, <2>1 DEF Stored!Refuses, Stored!Matches, Stored!Upgrades
  <2> QED
    BY ZenonT(60), <2>1, <2>2, <2>3, <2>4 DEF Unsettled
<1>2. CASE m.version = <<s.light>> /\ m.flags = <<s.flags>>
  <2>1. m.version # <<>> /\ m.version # <<config.light, config.flags>> /\ m.flags # <<>>
    BY <1>2, Rows
  <2>2. s = config => ~Stored!Refuses(m)
    BY ZenonT(60), <1>2, <2>1 DEF Stored!Refuses, Stored!Matches, Stored!Upgrades
  <2> QED
    BY ZenonT(60), <2>1, <2>2 DEF Unsettled
<1> QED
  BY ZenonT(60), <1>1, <1>2 DEF MarkedBy

\* What is known of the database that is verified.
LEMMA Verified ==
    ASSUME StoredInvariant, opening \in Verifying, NEW h, h = Head(toOpen), NEW m, m = marks[h]
    PROVE  /\ StoredTypes /\ config \in Stored!Settings /\ h \in Names /\ m \in Marks /\ h \notin Passed(toOpen)
           /\ toOpen # <<>> /\ marks = [marks EXCEPT ![h] = m]
           /\ origin # "unflagged" => \A d \in Names : \A s \in built[d] : s \in Stored!Settings /\ MarkedBy(m, s)
<1>1. StoredTypes /\ toOpen # <<>> /\ toOpen \in Suffixes /\ config \in Stored!Settings
  BY ZenonT(60) DEF StoredInvariant, StoredTypes
<1>2. h \in Names /\ h \notin Passed(toOpen)
  BY ZenonT(60), <1>1, Passing
<1>3. m \in Marks
  BY ZenonT(60), <1>1, <1>2 DEF StoredTypes
<1>4. marks = [marks EXCEPT ![h] = m]
  BY <1>1, <1>2 DEF StoredTypes
<1>5. \A d \in Names : built[d] \subseteq Stored!Settings
  BY ZenonT(60), <1>1 DEF StoredTypes
<1> QED
  BY ZenonT(60), <1>1, <1>2, <1>3, <1>4, <1>5 DEF StoredInvariant, RowsMarked

\* verify_compatibility looks at V and VF.
LEMMA VerifyStep ==
    ASSUME StoredInvariant, Stored!Verify
    PROVE  StoredInvariant'
<1>1. PICK h : h = Head(toOpen)
  OBVIOUS
<1>2. PICK m : m = marks[h]
  OBVIOUS
<1>3. /\ opening = "verify" /\ UNCHANGED <<origin, marks, built, backlog, triggers, config>>
      /\ \/ Stored!Refuses(m) /\ opening' = "refused" /\ toOpen' = <<>>
         \/ (m.version = <<>> \/ Stored!Upgrades(m)) /\ opening' = "putFlags" /\ toOpen' = toOpen
         \/ Stored!Matches(m) /\ m.flags = <<>> /\ opening' = "putOnlyFlags" /\ toOpen' = toOpen
         \/ Stored!Matches(m) /\ m.flags = <<config.flags>> /\ Stored!Go("open", "running")
  BY ZenonT(60), <1>1, <1>2 DEF Stored!Verify
<1>4. opening \in Verifying
  BY ZenonT(60), <1>3 DEF Verifying
<1>5. /\ StoredTypes /\ config \in Stored!Settings /\ h \in Names /\ m \in Marks /\ h \notin Passed(toOpen)
      /\ toOpen # <<>> /\ marks = [marks EXCEPT ![h] = m]
      /\ origin # "unflagged" => \A d \in Names : \A s \in built[d] : s \in Stored!Settings /\ MarkedBy(m, s)
  BY ZenonT(60), <1>1, <1>2, <1>4, Verified
<1>6. CASE Stored!Refuses(m) /\ opening' = "refused" /\ toOpen' = <<>>
  <2>1. origin # "unflagged" => \A d \in Names : config \notin built[d]
    BY ZenonT(60), <1>5, <1>6, MarkSays
  <2>2. StoredTypes'
    BY ZenonT(60), <1>3, <1>5, <1>6 DEF StoredTypes, Doings, Suffixes, Verifying, Compacting
  <2>3. Progress'
    BY <1>6 DEF Progress, Verifying, Compacting
  <2>4. RowsMarked'
    BY ZenonT(60), <1>3, <1>6, <2>1 DEF StoredInvariant, RowsMarked
  <2>5. Drained'
    BY <1>3, <1>6 DEF StoredInvariant, Drained, Verifying, Compacting
  <2> QED
    BY ZenonT(60), <2>2, <2>3, <2>4, <2>5 DEF StoredInvariant
<1>7. CASE (m.version = <<>> \/ Stored!Upgrades(m)) /\ opening' = "putFlags" /\ toOpen' = toOpen
  <2>1. opening' \in Verifying /\ opening' # "putVersion" /\ opening' # "putOnlyFlags" /\ Unsettled(m)
    BY <1>7 DEF Verifying, Unsettled, Stored!Upgrades
  <2> QED
    BY ZenonT(60), <1>1, <1>2, <1>3, <1>4, <1>5, <1>7, <2>1, VerifyingStep
<1>8. CASE Stored!Matches(m) /\ m.flags = <<>> /\ opening' = "putOnlyFlags" /\ toOpen' = toOpen
  <2>1. opening' \in Verifying /\ opening' # "putVersion" /\ opening' # "putFlags" /\ m.version = <<config.light>>
    BY <1>8 DEF Verifying, Stored!Matches
  <2> QED
    BY ZenonT(60), <1>1, <1>2, <1>3, <1>4, <1>5, <1>8, <2>1, VerifyingStep
<1>9. CASE Stored!Matches(m) /\ m.flags = <<config.flags>> /\ Stored!Go("open", "running")
  <2>1. Settled(m)
    BY ZenonT(60), <1>9 DEF Settled, Stored!Matches
  <2> QED
    BY ZenonT(60), <1>1, <1>2, <1>3, <1>4, <1>5, <1>9, <2>1, VerifiedStep
<1> QED
  BY ZenonT(60), <1>3, <1>6, <1>7, <1>8, <1>9

\* VF is put, then V.
LEMMA PutStep ==
    ASSUME StoredInvariant, Stored!PutFlags \/ Stored!PutVersion
    PROVE  StoredInvariant'
<1>1. PICK h : h = Head(toOpen)
  OBVIOUS
<1>2. PICK m : m = marks[h]
  OBVIOUS
<1>3. opening \in Verifying /\ UNCHANGED <<origin, built, backlog, triggers, config>>
  BY ZenonT(60) DEF Verifying, Stored!PutFlags, Stored!PutVersion
<1>5. /\ StoredTypes /\ config \in Stored!Settings /\ h \in Names /\ m \in Marks /\ h \notin Passed(toOpen)
      /\ toOpen # <<>> /\ marks = [marks EXCEPT ![h] = m]
      /\ origin # "unflagged" => \A d \in Names : \A s \in built[d] : s \in Stored!Settings /\ MarkedBy(m, s)
  BY ZenonT(60), <1>1, <1>2, <1>3, Verified
<1>6. <<config.flags>> \in FlagRows /\ <<config.light>> \in Versions
  BY <1>5 DEF FlagRows, Versions, Stored!Settings
<1>7. CASE Stored!PutFlags
  <2>a. PICK r \in FlagRows : r = <<config.flags>>
    BY ZenonT(60), <1>6
  <2>b. PICK n : n = [m EXCEPT !.flags = r]
    BY ZenonT(60)
  <2>c. IsMark(n, m.version, r, m.full)
    BY ZenonT(60), <1>5, <2>b, FlagsPutMark
  <2>1. /\ n = [m EXCEPT !.flags = <<config.flags>>]
        /\ n \in Marks /\ n.flags = <<config.flags>> /\ n.version = m.version /\ n.full = m.full
    BY ZenonT(60), <2>a, <2>b, <2>c DEF IsMark
  <2>2. marks' = [marks EXCEPT ![h] = n]
    BY ZenonT(60), <1>1, <1>2, <1>7, <2>1 DEF Stored!PutFlags, Stored!FlagsPut
  <2>3. CASE opening = "putFlags" /\ opening' = "putVersion" /\ toOpen' = toOpen
    <3>1. Unsettled(m) /\ Unsettled(n)
      BY ZenonT(60), <1>1, <1>2, <2>1, <2>3 DEF StoredInvariant, Progress, Unsettled
    <3>2. opening' \in Verifying /\ opening' # "putFlags" /\ opening' # "putOnlyFlags"
      BY <2>3 DEF Verifying
    <3>3. ASSUME origin # "unflagged", NEW d \in Names, NEW s \in built[d]
          PROVE  MarkedBy(n, s)
      <4>1. s = config /\ MarkedBy(m, s)
        BY ZenonT(60), <1>5, <3>1, <3>3, MarkSays
      <4> QED
        BY ZenonT(60), <2>1, <4>1 DEF MarkedBy
    <3> QED
      BY ZenonT(60), <1>1, <1>2, <1>3, <1>5, <2>1, <2>2, <2>3, <3>1, <3>2, <3>3, VerifyingStep
  <2>4. CASE opening = "putOnlyFlags" /\ Stored!Go("open", "running")
    <3>1. m.version = <<config.light>> /\ m.flags = <<>> /\ Settled(n)
      BY ZenonT(60), <1>1, <1>2, <2>1, <2>4 DEF StoredInvariant, Progress, Settled
    <3>2. ASSUME origin # "unflagged", NEW d \in Names, NEW s \in built[d]
          PROVE  MarkedBy(n, s)
      BY ZenonT(60), <1>5, <3>1, <3>2, MarkSays
    <3> QED
      BY ZenonT(60), <1>1, <1>2, <1>3, <1>5, <2>1, <2>2, <2>4, <3>1, <3>2, VerifiedStep
  <2> QED
    BY ZenonT(60), <1>7, <2>3, <2>4 DEF Stored!PutFlags
<1>8. CASE Stored!PutVersion
  <2>a. PICK r \in Versions : r = <<config.light>>
    BY ZenonT(60), <1>6
  <2>b. PICK n : n = [m EXCEPT !.version = r]
    BY ZenonT(60)
  <2>c. IsMark(n, r, m.flags, m.full)
    BY ZenonT(60), <1>5, <2>b, VersionPutMark
  <2>1. /\ n = [m EXCEPT !.version = <<config.light>>]
        /\ n \in Marks /\ n.flags = m.flags /\ n.version = <<config.light>> /\ n.full = m.full
    BY ZenonT(60), <2>a, <2>b, <2>c DEF IsMark
  <2>2. marks' = [marks EXCEPT ![h] = n] /\ opening = "putVersion" /\ Stored!Go("open", "running")
    BY ZenonT(60), <1>1, <1>2, <1>8, <2>1 DEF Stored!PutVersion, Stored!VersionPut
  <2>3. Unsettled(m) /\ m.flags = <<config.flags>> /\ Settled(n)
    BY ZenonT(60), <1>1, <1>2, <2>1, <2>2 DEF StoredInvariant, Progress, Settled
  <2>4. ASSUME origin # "unflagged", NEW d \in Names, NEW s \in built[d]
        PROVE  MarkedBy(n, s)
    <3>1. s = config
      BY ZenonT(60), <1>5, <2>3, <2>4, MarkSays
    <3> QED
      BY ZenonT(60), <2>1, <2>3, <3>1 DEF MarkedBy
  <2> QED
    BY ZenonT(60), <1>1, <1>2, <1>3, <1>5, <2>1, <2>2, <2>3, <2>4, VerifiedStep
<1> QED
  BY ZenonT(60), <1>7, <1>8

\* Rows are written.
LEMMA WriteStep ==
    ASSUME StoredInvariant, NEW db \in Names, Stored!Write(db)
    PROVE  StoredInvariant'
<1>1. /\ opening = "running" /\ UNCHANGED <<origin, marks, triggers, config, opening, toOpen>>
      /\ built' = [built EXCEPT ![db] = built[db] \cup {config}]
      /\ backlog' = IF triggers[db] = "wide" THEN backlog \cup {db} ELSE backlog
  BY ZenonT(60) DEF Stored!Write
<1>2. StoredTypes /\ \A d \in Names : Settled(marks[d]) /\ (marks[d].full => triggers[d] = "steady")
  BY ZenonT(60), <1>1 DEF StoredInvariant, Progress, Drained
<1>3. /\ built' \in [Names -> SUBSET Stored!Settings] /\ built'[db] = built[db] \cup {config}
      /\ \A d \in Names : d # db => built'[d] = built[d]
  BY <1>1, <1>2 DEF StoredTypes
<1>4. StoredTypes'
  <2>1. backlog' \subseteq Names
    BY ZenonT(60), <1>1, <1>2 DEF StoredTypes
  <2> QED
    BY ZenonT(60), <1>1, <1>2, <1>3, <2>1 DEF StoredTypes
<1>5. Progress'
  BY <1>1 DEF StoredInvariant, Progress, Verifying, Compacting, Settled
<1>6. \A e \in Names : MarkedBy(marks[e], config)
  BY ZenonT(60), <1>2 DEF Settled, MarkedBy
<1>7. RowsMarked'
  <2>1. \A d \in Names : \A s \in built'[d] : s \in built[d] \/ s = config
    BY ZenonT(60), <1>3
  <2> QED
    BY ZenonT(60), <1>1, <1>6, <2>1 DEF StoredInvariant, RowsMarked
<1>8. \A d \in Names : triggers[d] = "steady" => (d \in backlog' => d \in backlog)
  BY ZenonT(60), <1>1
<1>9. Drained'
  BY <1>1, <1>2, <1>8 DEF StoredInvariant, Drained, Verifying, Compacting
<1> QED
  BY ZenonT(60), <1>4, <1>5, <1>7, <1>9 DEF StoredInvariant

\* A database is compacted, its triggers are tightened, and F is put.
LEMMA CompactStep ==
    ASSUME StoredInvariant, Stored!Compact \/ Stored!Tighten \/ Stored!PutSentinel
    PROVE  StoredInvariant'
<1>1. PICK h : h = Head(toOpen)
  OBVIOUS
<1>2. opening \in Compacting /\ opening \notin Verifying /\ UNCHANGED <<origin, built, config>>
  BY DEF Compacting, Verifying, Stored!Compact, Stored!Tighten, Stored!PutSentinel
<1>3. /\ StoredTypes /\ toOpen # <<>> /\ toOpen \in Suffixes
      /\ \A d \in Names : Settled(marks[d]) /\ (marks[d].full => triggers[d] = "steady")
      /\ \A d \in Names : triggers[d] = "steady" \/ marks[d].full => d \notin backlog
  BY ZenonT(60), <1>2 DEF StoredInvariant, StoredTypes, Progress, Drained
<1>4. h \in Names
  BY ZenonT(60), <1>1, <1>3, Passing
<1>5. ASSUME Stored!Go("compact", "running")
      PROVE  toOpen' \in Suffixes /\ opening' \in {"compact", "running"} /\ (opening' = "compact" => toOpen' # <<>>)
  <2>1. toOpen' \in Suffixes /\ ((opening' = "compact" /\ toOpen' # <<>>) \/ opening' = "running")
    BY ZenonT(60), <1>3, <1>5, GoMeans
  <2> QED
    BY <2>1
<1>6. CASE Stored!Compact /\ marks[h].full
  <2>1. /\ toOpen' \in Suffixes /\ opening' \in {"compact", "running"} /\ (opening' = "compact" => toOpen' # <<>>)
        /\ UNCHANGED <<origin, marks, built, triggers, config, backlog>>
    BY ZenonT(60), <1>1, <1>5, <1>6 DEF Stored!Compact
  <2>2. StoredTypes'
    BY ZenonT(60), <1>3, <2>1 DEF StoredTypes, Doings, Verifying, Compacting
  <2>3. Progress' /\ Drained'
    BY ZenonT(60), <1>3, <2>1 DEF Progress, Drained, Verifying, Compacting, Settled
  <2>4. RowsMarked'
    BY ZenonT(60), <2>1 DEF StoredInvariant, RowsMarked
  <2> QED
    BY ZenonT(60), <2>2, <2>3, <2>4 DEF StoredInvariant
<1>7. CASE Stored!Compact /\ ~marks[h].full
  <2>1. /\ backlog' = backlog \ {h} /\ opening' = "tighten" /\ toOpen' = toOpen
        /\ UNCHANGED <<origin, marks, built, triggers, config>>
    BY ZenonT(60), <1>1, <1>7 DEF Stored!Compact
  <2>2. StoredTypes'
    BY ZenonT(60), <1>3, <2>1 DEF StoredTypes, Doings, Verifying, Compacting
  <2>3. Progress' /\ Drained'
    BY ZenonT(60), <1>1, <1>3, <2>1 DEF Progress, Drained, Verifying, Compacting, Settled
  <2>4. RowsMarked'
    BY <2>1 DEF StoredInvariant, RowsMarked
  <2> QED
    BY ZenonT(60), <2>2, <2>3, <2>4 DEF StoredInvariant
<1>8. CASE Stored!Tighten
  <2>1. /\ opening = "tighten" /\ opening' = "sentinel" /\ triggers' = [triggers EXCEPT ![h] = "steady"]
        /\ UNCHANGED <<origin, marks, built, backlog, config, toOpen>>
    BY ZenonT(60), <1>1, <1>8 DEF Stored!Tighten
  <2>2. /\ triggers' \in [Names -> {"wide", "steady"}] /\ triggers'[h] = "steady"
        /\ \A d \in Names : d # h => triggers'[d] = triggers[d]
    BY <1>3, <1>4, <2>1 DEF StoredTypes
  <2>3. h \notin backlog
    BY ZenonT(60), <1>1, <2>1 DEF StoredInvariant, Drained
  <2>4. StoredTypes'
    BY ZenonT(60), <1>3, <2>1, <2>2 DEF StoredTypes, Doings, Verifying, Compacting
  <2>5. Progress' /\ Drained'
    BY ZenonT(60), <1>1, <1>3, <2>1, <2>2, <2>3 DEF Progress, Drained, Verifying, Compacting, Settled
  <2>6. RowsMarked'
    BY ZenonT(60), <2>1 DEF StoredInvariant, RowsMarked
  <2> QED
    BY ZenonT(60), <2>4, <2>5, <2>6 DEF StoredInvariant
<1>9. CASE Stored!PutSentinel
  <2>0. PICK m, n : m = marks[h] /\ n = [m EXCEPT !.full = TRUE]
    BY ZenonT(60)
  <2>1. m \in Marks /\ IsMark(n, m.version, m.flags, TRUE)
    BY ZenonT(60), <1>3, <1>4, <2>0, FullPutMark DEF StoredTypes
  <2>2. /\ opening = "sentinel" /\ marks' = [marks EXCEPT ![h] = n] /\ UNCHANGED <<backlog, triggers>>
        /\ toOpen' \in Suffixes /\ opening' \in {"compact", "running"} /\ (opening' = "compact" => toOpen' # <<>>)
    BY ZenonT(60), <1>1, <1>5, <1>9, <2>0 DEF Stored!PutSentinel
  <2>3. /\ marks' \in [Names -> Marks] /\ marks'[h] = n
        /\ \A d \in Names : d # h => marks'[d] = marks[d]
    BY ZenonT(60), <1>3, <1>4, <2>1, <2>2, MarkPut DEF IsMark
  <2>4. triggers[h] = "steady"
    BY ZenonT(60), <1>1, <2>2 DEF StoredInvariant, Drained
  <2>5. \A d \in Names : marks'[d].version = marks[d].version /\ marks'[d].flags = marks[d].flags
    BY ZenonT(60), <2>0, <2>1, <2>3 DEF IsMark
  <2>6. \A d \in Names : marks'[d].full => marks[d].full \/ d = h
    BY ZenonT(60), <2>3
  <2>7. StoredTypes'
    BY ZenonT(60), <1>2, <1>3, <2>2, <2>3 DEF StoredTypes, Doings, Verifying, Compacting
  <2>8. Progress' /\ Drained'
    BY ZenonT(60), <1>2, <1>3, <2>2, <2>4, <2>5, <2>6 DEF Progress, Drained, Verifying, Compacting, Settled
  <2>9. RowsMarked'
    BY ZenonT(60), <1>2, <2>2, <2>5 DEF StoredInvariant, RowsMarked, MarkedBy
  <2> QED
    BY ZenonT(60), <2>7, <2>8, <2>9 DEF StoredInvariant
<1> QED
  BY ZenonT(60), <1>1, <1>6, <1>7, <1>8, <1>9

\* The databases before the first start, as an earlier version or nobody left them.
LEMMA StoredStarts ==
    ASSUME Stored!Init
    PROVE  StoredInvariant
<1>1. /\ config \in Stored!Settings /\ opening = "down" /\ toOpen = <<>> /\ triggers = [d \in Names |-> "wide"]
      /\ built = [d \in Names |-> IF origin = "fresh" THEN {} ELSE {config}]
  BY ZenonT(60), StoredNames DEF Stored!Init
<1>2a. PICK v : v = CASE origin = "fresh" -> <<>>
                      [] origin = "combined" -> <<config.light, config.flags>>
                      [] origin = "unflagged" -> <<config.light>>
  BY ZenonT(60)
<1>2b. PICK full \in BOOLEAN :
         /\ marks = [d \in Names |-> [version |-> v, flags |-> <<>>, full |-> full]]
         /\ backlog = IF full \/ origin = "fresh" THEN {} ELSE Names
  BY ZenonT(60), <1>2a, StoredNames DEF Stored!Init
<1>2. /\ v = CASE origin = "fresh" -> <<>>
               [] origin = "combined" -> <<config.light, config.flags>>
               [] origin = "unflagged" -> <<config.light>>
      /\ marks = [d \in Names |-> [version |-> v, flags |-> <<>>, full |-> full]]
      /\ backlog = IF full \/ origin = "fresh" THEN {} ELSE Names
  BY ZenonT(60), <1>2a, <1>2b
<1>3. origin \in {"fresh", "combined", "unflagged"} /\ config.light \in Lights /\ config.flags \in Flags
  BY ZenonT(60), <1>1 DEF Stored!Init, Stored!Settings
<1>4. v \in Versions /\ (origin = "combined" => v = <<config.light, config.flags>>)
  BY <1>2, <1>3 DEF Versions
<1>5. <<>> \in FlagRows
  BY ZenonT(60) DEF FlagRows
<1>6. ASSUME NEW V, NEW F, NEW w \in V, NEW f \in F, marks = [d \in Names |-> [version |-> w, flags |-> f, full |-> full]]
      PROVE  /\ marks \in [Names -> MarkOf(V, F)]
             /\ \A d \in Names : marks[d].version = w /\ marks[d].flags = f /\ marks[d].full = full
  BY <1>6 DEF MarkOf
<1>7. /\ marks \in [Names -> Marks]
      /\ \A d \in Names : marks[d].version = v /\ marks[d].flags = <<>> /\ marks[d].full = full
  <2>1. PICK none \in FlagRows : none = <<>>
    BY ZenonT(60), <1>5
  <2>2. marks = [d \in Names |-> [version |-> v, flags |-> none, full |-> full]]
    BY ZenonT(60), <1>2, <2>1
  <2>3. /\ marks \in [Names -> MarkOf(Versions, FlagRows)]
        /\ \A d \in Names : marks[d].version = v /\ marks[d].flags = none /\ marks[d].full = full
    <3>1. PICK W, F : W = Versions /\ F = FlagRows
      BY ZenonT(60)
    <3>2. v \in W /\ none \in F
      BY ZenonT(60), <1>4, <2>1, <3>1
    <3>3. /\ marks \in [Names -> MarkOf(W, F)]
          /\ \A d \in Names : marks[d].version = v /\ marks[d].flags = none /\ marks[d].full = full
      BY <1>6, <2>2, <3>2
    <3> QED
      BY ZenonT(60), <3>1, <3>3
  <2> QED
    BY ZenonT(60), <2>1, <2>3 DEF Marks
<1>8. StoredTypes
  <2>1. built \in [Names -> SUBSET Stored!Settings] /\ triggers \in [Names -> {"wide", "steady"}] /\ backlog \subseteq Names
    BY <1>1, <1>2
  <2>2. opening \in Doings /\ toOpen \in Suffixes /\ opening \notin {"open"} \cup Verifying \cup Compacting
    BY ZenonT(60), <1>1 DEF Doings, Suffixes, Verifying, Compacting
  <2> QED
    BY ZenonT(60), <1>1, <1>7, <2>1, <2>2 DEF StoredTypes
<1>9. Progress
  BY <1>1 DEF Progress, Verifying, Compacting
<1>10. RowsMarked
  <2>1. \A d \in Names : \A s \in built[d] : origin # "fresh" /\ s = config
    BY <1>1
  <2>2. origin = "combined" => \A e \in Names : MarkedBy(marks[e], config)
    BY ZenonT(60), <1>4, <1>7 DEF MarkedBy
  <2> QED
    BY ZenonT(60), <1>1, <1>3, <2>1, <2>2 DEF RowsMarked
<1>11. Drained
  <2>1. \A d \in Names : triggers[d] # "steady"
    BY <1>1
  <2> QED
    BY ZenonT(60), <1>1, <1>2, <1>7, <2>1 DEF Drained, Verifying, Compacting
<1> QED
  BY ZenonT(60), <1>8, <1>9, <1>10, <1>11 DEF StoredInvariant

\* Every step.
LEMMA StoredKeepsInvariant ==
    ASSUME StoredInvariant, [Stored!Next]_(Stored!vars)
    PROVE  StoredInvariant'
<1>1. CASE UNCHANGED Stored!vars
  BY ZenonT(60), <1>1 DEF Stored!vars, StoredInvariant, StoredTypes, Progress, RowsMarked, Drained, Settled, Unsettled
<1>2. CASE Stored!Next
  BY ZenonT(60), <1>2, StoredNames, StartStep, OpenStep, VerifyStep, PutStep, WriteStep, CompactStep DEF Stored!Next
<1> QED
  BY <1>1, <1>2

\* Rows of at most one setting are in the databases.
LEMMA OneSettingHolds ==
    ASSUME StoredInvariant
    PROVE  Stored!OneSetting
<1> SUFFICES ASSUME origin # "unflagged" PROVE \A s, t \in Stored!BuiltWith : s = t
  BY ZenonT(60) DEF Stored!OneSetting
<1> SUFFICES ASSUME NEW s \in Stored!BuiltWith, NEW t \in Stored!BuiltWith PROVE s = t
  OBVIOUS
<1>1. PICK d \in Names : s \in built[d]
  BY ZenonT(60), StoredNames DEF Stored!BuiltWith
<1>2. PICK e \in Names : t \in built[e]
  BY ZenonT(60), StoredNames DEF Stored!BuiltWith
<1>3. s \in Stored!Settings /\ t \in Stored!Settings
  BY ZenonT(60), <1>1, <1>2 DEF StoredInvariant, StoredTypes
<1>4. MarkedBy(marks[d], s) /\ MarkedBy(marks[d], t)
  BY ZenonT(60), <1>1, <1>2 DEF StoredInvariant, RowsMarked
<1> QED
  BY ZenonT(60), <1>3, <1>4, OneMark

\* Whichever settings electrs is started with and wherever it dies: the rows of the three databases were all
\* built with one setting, and the databases are never refused to it (verify_compatibility, which writes VF
\* before V), unless an earlier version did not record it; and no open database has the triggers of the
\* steady state with the backlog of a bulk load (start_auto_compactions).
THEOREM SettingsAreOneAlways == Stored!Spec => []SettingsAreOne
<1>1. Stored!Init => StoredInvariant
  BY ZenonT(60), StoredStarts
<1>2. StoredInvariant /\ [Stored!Next]_(Stored!vars) => StoredInvariant'
  BY StoredKeepsInvariant
<1>3. StoredInvariant => SettingsAreOne
  <2> SUFFICES ASSUME StoredInvariant PROVE SettingsAreOne
    OBVIOUS
  <2>1. Stored!OneSetting
    BY ZenonT(60), OneSettingHolds
  <2>2. Stored!RightSettingOpens
    BY ZenonT(60), StoredNames DEF StoredInvariant, RowsMarked, Stored!RightSettingOpens, Stored!BuiltWith
  <2>3. Stored!BacklogDrained
    BY ZenonT(60), StoredNames DEF StoredInvariant, Drained, Stored!BacklogDrained
  <2> QED
    BY ZenonT(60), <2>1, <2>2, <2>3 DEF SettingsAreOne
<1> QED
  BY <1>1, <1>2, <1>3, PTL DEF Stored!Spec
=============================================================================

--------------------------- MODULE ElectrumProofs ---------------------------
(***************************************************************************)
(* What a connection records as told to its client is what the client was  *)
(* told (electrum/server.rs), for any number of connections, scripts and   *)
(* requests and any limits.                                                *)
(***************************************************************************)
EXTENDS Electrum, TLAPS

\* The messages of a queue.
Said(q) == {q[i] : i \in 1..Len(q)}

\* A queue with one more message (Vec::push, Sender::send).
LEMMA Appended ==
    ASSUME NEW S, NEW q \in Seq(S), NEW m \in S
    PROVE  /\ Len(q) \in Nat /\ Len(Append(q, m)) = Len(q) + 1 /\ Append(q, m)[Len(q) + 1] = m
           /\ Append(q, m) \in Seq(S) /\ \A i \in 1..Len(q) : Append(q, m)[i] = q[i]
           /\ \A i \in 1..Len(Append(q, m)) : i = Len(q) + 1 \/ i \in 1..Len(q)
  OBVIOUS

\* A queue with its first message gone (Receiver::recv, the loop of send_values).
LEMMA Shortened ==
    ASSUME NEW S, NEW q \in Seq(S), q # <<>>
    PROVE  /\ Len(q) \in Nat \ {0} /\ Head(q) = q[1] /\ Head(q) \in S /\ Tail(q) \in Seq(S)
           /\ Len(Tail(q)) = Len(q) - 1 /\ \A i \in 1..Len(Tail(q)) : Tail(q)[i] = q[i + 1]
  OBVIOUS

\* An empty queue says nothing, and a queue of one message says it.
LEMMA SaidFew ==
    /\ Said(<<>>) = {}
    /\ \A m : Said(<<m>>) = {m}
  BY DEF Said

\* A queue says what it said and the message put in last.
LEMMA SaidAppended ==
    ASSUME NEW S, NEW q \in Seq(S), NEW m \in S
    PROVE  Append(q, m) \in Seq(S) /\ Said(Append(q, m)) = Said(q) \cup {m}
  BY Appended DEF Said

\* A queue says its first message and what the rest says.
LEMMA SaidShortened ==
    ASSUME NEW S, NEW q \in Seq(S), q # <<>>
    PROVE  Head(q) \in S /\ Tail(q) \in Seq(S) /\ Said(q) = {Head(q)} \cup Said(Tail(q))
<1>1. \A i \in 1..Len(q) : i = 1 \/ (i - 1 \in 1..Len(Tail(q)) /\ q[i] = Tail(q)[i - 1])
  BY Shortened
<1>2. 1 \in 1..Len(q) /\ \A i \in 1..Len(Tail(q)) : i + 1 \in 1..Len(q) /\ Tail(q)[i] = q[i + 1]
  BY Shortened
<1> QED
  BY <1>1, <1>2, Shortened DEF Said

\* Requests name scripts, and None is no connection.
WellFormed ==
    /\ Requests \subseteq {<<"other">>, <<"headers">>} \cup ({"subscribe", "unsubscribe", "broadcast"} \X Scripts)
    /\ None \notin Conns

OutMessages ==
    {<<"answer">>, <<"error">>, <<"txid">>} \cup ({"tip"} \X Status) \cup ({"status"} \X Scripts \X Status)

StateTypes ==
    /\ tip \in Nat /\ hist \in [Scripts -> Nat]
    /\ stream \in [Conns -> {"none", "open", "shut"}]
    /\ reader \in [Conns -> {"off", "read", "send", "done", "gone"}]
    /\ line \in [Conns -> Requests \cup {None}]
    /\ writer \in [Conns -> {"off", "recv", "broadcast", "refresh", "write", "join", "gone"}]
    /\ stale \in [Conns -> SUBSET Scripts] /\ out \in [Conns -> Seq(OutMessages)]
    /\ known \in [Conns -> Picture] /\ view \in [Conns -> Picture] /\ hungup \in [Conns -> BOOLEAN]

TellTypes == StateTypes /\ channel \in [Conns -> Seq(Messages)]

\* A reader that sends has a line.
HasLine == \A c \in Conns : reader[c] = "send" => line[c] \in Requests

\* A connection that waits to be served has no threads, and waits once.
WaitsOnce ==
    /\ acceptor \in Seq(Conns \cup {None})
    /\ \A i \in 1..Len(acceptor) : acceptor[i] # None => stream[acceptor[i]] # "none" /\ writer[acceptor[i]] = "off"
    /\ \A i, j \in 1..Len(acceptor) : i # j /\ acceptor[i] = acceptor[j] => acceptor[i] = None

\* The messages that are about to be written say what is recorded, and of no script to be refreshed.
Queued(c) ==
    \A m \in Said(out[c]) :
      /\ m[1] = "tip" => m[2] = known[c].tip
      /\ m[1] = "status" => m[2] \in Scripts \ stale[c] /\ m[3] = known[c].st[m[2]]

\* What the client was not told is about to be written.
Settled(c) ==
    /\ view[c].tip = known[c].tip \/ \E m \in Said(out[c]) : m[1] = "tip"
    /\ \A s \in Scripts :
         view[c].st[s] = known[c].st[s] \/ \E m \in Said(out[c]) : m[1] = "status" /\ m[2] = s

Listens(c) == stream[c] = "open" /\ ~hungup[c]

Tells(c) ==
    /\ writer[c] \notin {"write", "refresh"} => out[c] = <<>>
    /\ writer[c] = "write" => out[c] # <<>>
    /\ writer[c] # "refresh" => stale[c] = {}
    /\ writer[c] = "off" => view[c] = Nothing /\ known[c] = Nothing
    /\ stream[c] = "none" => writer[c] = "off"
    /\ Queued(c)
    /\ Running(c) /\ Listens(c) => Settled(c)

TellInvariant == TellTypes /\ HasLine /\ WaitsOnce /\ \A c \in Conns : Tells(c)

----------------------------------------------------------------------------
\* A connection that a step leaves alone, but that may have hung up or been shut down.
LEMMA Frame ==
    ASSUME NEW c \in Conns, Tells(c), TellTypes,
           writer'[c] = writer[c], out'[c] = out[c], stale'[c] = stale[c], known'[c] = known[c],
           view'[c] = view[c],
           hungup'[c] = hungup[c] \/ hungup'[c] = TRUE,
           stream'[c] = stream[c] \/ stream'[c] = "shut"
    PROVE  Tells(c)'
<1>1. Queued(c)'
  BY DEF Tells, Queued
<1>2. Settled(c) => Settled(c)'
  BY DEF Settled
<1>3. (Running(c) /\ Listens(c))' => Running(c) /\ Listens(c)
  BY DEF Running, Listens, TellTypes, StateTypes
<1> QED
  BY <1>1, <1>2, <1>3 DEF Tells, Nothing

\* A connection whose writer has ended.
LEMMA EndTells ==
    ASSUME NEW c \in Conns, out'[c] = <<>>, stale'[c] = {}, writer'[c] \in {"join", "gone"}, stream'[c] # "none"
    PROVE  Tells(c)'
  BY SaidFew DEF Tells, Queued, Running

\* A connection whose record is the client's and that has nothing to write but one message that says so.
LEMMA Recv ==
    ASSUME NEW c \in Conns, Tells(c), TellTypes, writer[c] = "recv"
    PROVE  /\ out[c] = <<>> /\ stale[c] = {} /\ stream[c] # "none"
           /\ Listens(c) => view[c].tip = known[c].tip /\ \A s \in Scripts : view[c].st[s] = known[c].st[s]
<1>1. out[c] = <<>> /\ stale[c] = {} /\ stream[c] # "none" /\ (Listens(c) => Settled(c))
  BY DEF Tells, Running
<1> QED
  BY <1>1, SaidFew DEF Settled

----------------------------------------------------------------------------
\* Messages reach a channel whole.
LEMMA ChannelTypes ==
    ASSUME WellFormed, TellTypes, HasLine, [Next]_vars
    PROVE  channel' \in [Conns -> Seq(Messages)]
<1> USE DEF TellTypes, StateTypes
<1>1. Update \in Messages /\ Done \in Messages /\ Requests \subseteq Messages
  BY DEF Messages
<1>2. ASSUME NEW c \in Conns, NEW m \in Messages PROVE TrySend(channel, c, m) \in Seq(Messages)
  BY DEF TrySend
<1>3. ASSUME NEW c \in Conns, channel[c] # <<>>, channel' = [channel EXCEPT ![c] = Tail(@)]
      PROVE  channel' \in [Conns -> Seq(Messages)]
  BY <1>3
<1>4. CASE UNCHANGED channel
  BY <1>4
<1>5. CASE SendDone
  <2>1. CASE senders = <<>>
    BY <1>5, <2>1 DEF SendDone
  <2>2. CASE senders # <<>>
    <3>1. channel' = [channel EXCEPT ![Head(senders)] = TrySend(channel, Head(senders), Done)]
      BY <1>5, <2>2 DEF SendDone
    <3>2. CASE Head(senders) \in Conns
      BY <1>1, <1>2, <3>1, <3>2
    <3>3. CASE Head(senders) \notin Conns
      BY ZenonT(60), <3>1, <3>3
    <3> QED
      BY <3>2, <3>3
  <2> QED
    BY <2>1, <2>2
<1>6. CASE Notifier
  <2>1. CASE channel' = [c \in Conns |-> IF c \in Range(senders) THEN TrySend(channel, c, Update) ELSE channel[c]]
    <3>1. \A c \in Conns : TrySend(channel, c, Update) \in Seq(Messages) /\ channel[c] \in Seq(Messages)
      BY <1>1, <1>2
    <3> HIDE DEF TellTypes, StateTypes
    <3> QED
      BY ZenonT(60), <2>1, <3>1
  <2> QED
    BY <1>4, <1>6, <2>1 DEF Notifier
<1>7. ASSUME NEW c \in Conns, ReaderSend(c) PROVE channel' \in [Conns -> Seq(Messages)]
  <2>1. (IF reader[c] = "done" THEN Done ELSE line[c]) \in Messages
    BY <1>1, <1>7 DEF ReaderSend, HasLine
  <2> QED
    BY <1>2, <1>7, <2>1 DEF ReaderSend
<1>8. ASSUME NEW c \in Conns, UpdateSelf(c) PROVE channel' \in [Conns -> Seq(Messages)]
  BY <1>1, <1>2, <1>8 DEF UpdateSelf
<1>9. ASSUME NEW c \in Conns, Join(c) PROVE channel' \in [Conns -> Seq(Messages)]
  BY <1>9 DEF Join
<1>10. ASSUME NEW c \in Conns,
              TakeDone(c) \/ Answer(c) \/ HeadersSubscribe(c) \/ Subscribe(c) \/ Unsubscribe(c)
              \/ Broadcast(c) \/ UpdateHeader(c)
       PROVE  channel' \in [Conns -> Seq(Messages)]
  BY ZenonT(60), <1>3, <1>10 DEF TakeDone, Answer, HeadersSubscribe, Subscribe, Unsubscribe, Broadcast, UpdateHeader, Takes
<1>11. ASSUME NEW c \in Conns, UpdateStatus(c) \/ Write(c) \/ WriteExpires(c) \/ Read(c) \/ Reap(c)
       PROVE  UNCHANGED channel
  BY <1>11 DEF UpdateStatus, Write, WriteExpires, Read, Reap
<1>12. CASE Environment \/ Notify \/ Drop \/ Serve \/ StopAccepting \/ Stop \/ Finished \/ UNCHANGED vars
  BY <1>4, <1>12 DEF Environment, NewTip, HistoryChange, HangUp, StallOrResume, Accept, Notify, Drop, Serve,
                     StopAccepting, Stop, Finished, vars
<1> QED
  BY <1>4, <1>5, <1>6, <1>7, <1>8, <1>9, <1>10, <1>11, <1>12 DEF Next, Server, Writer

----------------------------------------------------------------------------
\* A step of connection c leaves the others alone.
Only(c) ==
    \A d \in Conns \ {c} :
      /\ writer'[d] = writer[d] /\ out'[d] = out[d] /\ stale'[d] = stale[d] /\ known'[d] = known[d]
      /\ view'[d] = view[d] /\ hungup'[d] = hungup[d] /\ stream'[d] = stream[d]

\* Such a step leaves what is true of every other client true.
LEMMA OthersTell ==
    ASSUME TellInvariant, NEW c \in Conns, Only(c), Tells(c)'
    PROVE  \A d \in Conns : Tells(d)'
<1> SUFFICES ASSUME NEW d \in Conns \ {c} PROVE Tells(d)'
  OBVIOUS
<1> QED
  BY ZenonT(60), Frame DEF Only, TellInvariant

\* A request that is no request of the connection's record: its answer is written.
LEMMA AnswerTells ==
    ASSUME WellFormed, TellInvariant, NEW c \in Conns, NEW m \in {<<"answer">>, <<"error">>, <<"txid">>},
           writer[c] \in {"recv", "broadcast"}, Replies(c, m),
           UNCHANGED <<stale, known, view, hungup, stream, reader, line, tip>>,
           hist' \in [Scripts -> Nat]
    PROVE  StateTypes' /\ HasLine' /\ \A d \in Conns : Tells(d)'
<1> USE DEF TellInvariant, TellTypes, StateTypes
<1>1. out' = [out EXCEPT ![c] = <<m>>] /\ writer' = [writer EXCEPT ![c] = "write"]
  BY DEF Replies
<1>2. <<m>> \in Seq(OutMessages)
  BY DEF OutMessages
<1>3. StateTypes'
  BY <1>1, <1>2
<1>4. Only(c)
  BY <1>1 DEF Only
<1>5. out[c] = <<>> /\ stale[c] = {} /\ (Listens(c) => Settled(c)) /\ stream[c] # "none"
  BY ZenonT(60) DEF Tells, Running
<1>6. out'[c] = <<m>> /\ out'[c] # <<>> /\ Said(out[c]) = {} /\ Said(out'[c]) = {m} /\ m[1] \notin {"tip", "status"}
  BY <1>1, <1>5, SaidFew
<1>7. Queued(c)'
  BY <1>6 DEF Queued
<1>8. Listens(c)' => Settled(c)'
  BY <1>5, <1>6 DEF Settled, Listens
<1>9. Tells(c)'
  BY <1>1, <1>5, <1>6, <1>7, <1>8 DEF Tells
<1> QED
  BY <1>3, <1>4, <1>9, OthersTell DEF HasLine

\* The record of a connection with another header, or another status of a script.
LEMMA TipRecorded ==
    ASSUME NEW k \in [Conns -> Picture], NEW c \in Conns, NEW t \in Status
    PROVE  /\ [k EXCEPT ![c].tip = t] \in [Conns -> Picture]
           /\ [k EXCEPT ![c].tip = t][c].tip = t /\ [k EXCEPT ![c].tip = t][c].st = k[c].st
           /\ \A d \in Conns \ {c} : [k EXCEPT ![c].tip = t][d] = k[d]
<1> DEFINE r == [k[c] EXCEPT !.tip = t]
<1>1. k[c] \in Picture
  OBVIOUS
<1>2. r \in Picture /\ r.tip = t /\ r.st = k[c].st
  BY <1>1 DEF Picture
<1>3. [k EXCEPT ![c].tip = t] = [k EXCEPT ![c] = r]
  OBVIOUS
<1> HIDE DEF r
<1> QED
  BY <1>2, <1>3

\* The statuses of connection c with the one of script s replaced (status_hashes.insert).
WithStatus(k, c, s, n) == [k EXCEPT ![c].st[s] = n]

\* Recording the status of one script changes nothing else of the record.
LEMMA StatusRecorded ==
    ASSUME NEW k \in [Conns -> Picture], NEW c \in Conns, NEW s \in Scripts, NEW n \in Status
    PROVE  /\ WithStatus(k, c, s, n) \in [Conns -> Picture]
           /\ WithStatus(k, c, s, n)[c].tip = k[c].tip
           /\ WithStatus(k, c, s, n)[c].st[s] = n
           /\ \A t \in Scripts \ {s} : WithStatus(k, c, s, n)[c].st[t] = k[c].st[t]
           /\ \A d \in Conns \ {c} : WithStatus(k, c, s, n)[d] = k[d]
<1> DEFINE f == [k[c].st EXCEPT ![s] = n]
           r == [k[c] EXCEPT !.st = f]
<1>1. k[c] \in Picture /\ k[c].st \in [Scripts -> Status]
  BY DEF Picture
<1>2. f \in [Scripts -> Status] /\ f[s] = n /\ \A t \in Scripts \ {s} : f[t] = k[c].st[t]
  BY <1>1
<1>3. r \in Picture /\ r.tip = k[c].tip /\ r.st = f
  <2> HIDE DEF f
  <2> QED
    BY <1>1, <1>2 DEF Picture
<1>4. WithStatus(k, c, s, n) = [k EXCEPT ![c] = r]
  BY DEF WithStatus
<1> HIDE DEF r
<1>5. [k EXCEPT ![c] = r] \in [Conns -> Picture] /\ [k EXCEPT ![c] = r][c] = r
      /\ \A d \in Conns \ {c} : [k EXCEPT ![c] = r][d] = k[d]
  BY <1>3
<1> QED
  BY <1>2, <1>3, <1>4, <1>5

\* blockchain_headers_subscribe: the header is recorded and written.
LEMMA HeadersTell ==
    ASSUME WellFormed, TellInvariant, NEW c \in Conns, HeadersSubscribe(c)
    PROVE  StateTypes' /\ HasLine' /\ \A d \in Conns : Tells(d)'
<1> USE DEF TellInvariant, TellTypes, StateTypes
<1> DEFINE m == <<"tip", tip>>
<1>1. /\ out' = [out EXCEPT ![c] = <<m>>] /\ writer' = [writer EXCEPT ![c] = "write"]
      /\ known' = [known EXCEPT ![c].tip = tip] /\ writer[c] = "recv"
      /\ UNCHANGED <<stale, view, hungup, stream, reader, line, tip, hist>>
  BY DEF HeadersSubscribe, Replies, Takes, data, client
<1>2. <<m>> \in Seq(OutMessages)
  BY DEF OutMessages, Status
<1>3. known'[c].tip = tip /\ known'[c].st = known[c].st /\ known' \in [Conns -> Picture]
  <2>1. tip \in Status /\ known \in [Conns -> Picture]
    BY DEF Status
  <2> HIDE DEF TellInvariant, TellTypes, StateTypes
  <2> QED
    BY <1>1, <2>1, TipRecorded
<1>4. StateTypes'
  BY <1>1, <1>2, <1>3
<1>5. Only(c)
  BY <1>1 DEF Only
<1>6. /\ out[c] = <<>> /\ stale[c] = {} /\ stream[c] # "none"
      /\ Listens(c) => \A s \in Scripts : view[c].st[s] = known[c].st[s]
  BY ZenonT(60), <1>1, Recv
<1>7. out'[c] = <<m>> /\ out'[c] # <<>> /\ Said(out'[c]) = {m} /\ m[1] = "tip" /\ m[2] = tip
  BY ZenonT(60), <1>1, SaidFew
<1>8. Queued(c)'
  BY <1>3, <1>7 DEF Queued
<1>9. Listens(c)' => Settled(c)'
  <2> HIDE DEF TellInvariant, TellTypes, StateTypes
  <2>1. m \in Said(out'[c]) /\ m[1] = "tip"
    BY <1>7
  <2>2. Listens(c)' => \A s \in Scripts : view'[c].st[s] = known'[c].st[s]
    BY <1>1, <1>3, <1>6 DEF Listens
  <2> HIDE DEF m
  <2> QED
    BY ZenonT(60), <2>1, <2>2 DEF Settled
<1>10. Tells(c)'
  BY <1>1, <1>6, <1>7, <1>8, <1>9 DEF Tells
<1> QED
  BY <1>1, <1>4, <1>5, <1>10, OthersTell DEF HasLine

\* A subscription or the end of one: the status is recorded and written.
LEMMA StatusTells ==
    ASSUME WellFormed, TellInvariant, NEW c \in Conns, NEW s \in Scripts, NEW n \in Status,
           writer[c] = "recv", known' = WithStatus(known, c, s, n), Replies(c, <<"status", s, n>>),
           UNCHANGED <<stale, view, hungup, stream, reader, line, tip, hist>>
    PROVE  StateTypes' /\ HasLine' /\ \A d \in Conns : Tells(d)'
<1> DEFINE m == <<"status", s, n>>
<1>1. /\ out' = [out EXCEPT ![c] = <<m>>] /\ writer' = [writer EXCEPT ![c] = "write"]
  BY DEF Replies
<1>2. <<m>> \in Seq(OutMessages)
  BY DEF OutMessages
<1>3. StateTypes /\ TellTypes /\ Tells(c) /\ known \in [Conns -> Picture]
  BY DEF TellInvariant, TellTypes, StateTypes
<1>4. /\ known'[c].tip = known[c].tip /\ known'[c].st[s] = n /\ known' \in [Conns -> Picture]
      /\ \A t \in Scripts \ {s} : known'[c].st[t] = known[c].st[t]
      /\ \A d \in Conns \ {c} : known'[d] = known[d]
  BY <1>3, StatusRecorded
<1> HIDE DEF m
<1>5. StateTypes'
  BY <1>1, <1>2, <1>3, <1>4 DEF StateTypes
<1>6. Only(c)
  BY ZenonT(60), <1>1, <1>3, <1>4 DEF Only, StateTypes
<1>7. /\ out[c] = <<>> /\ stale[c] = {} /\ stream[c] # "none"
      /\ Listens(c) => view[c].tip = known[c].tip /\ \A t \in Scripts : view[c].st[t] = known[c].st[t]
  BY <1>3, Recv
<1>8. out'[c] = <<m>> /\ writer'[c] = "write"
  BY <1>1, <1>3 DEF StateTypes
<1>9. /\ Said(out'[c]) = {m} /\ out'[c] # <<>> /\ m[1] = "status" /\ m[2] = s /\ m[3] = n
  <2>1. Said(<<m>>) = {m}
    BY ZenonT(60), SaidFew
  <2>2. <<m>> # <<>>
    OBVIOUS
  <2>3. m[1] = "status" /\ m[2] = s /\ m[3] = n
    BY DEF m
  <2> QED
    BY ZenonT(60), <1>8, <2>1, <2>2, <2>3
<1>10. Queued(c)'
  BY <1>4, <1>7, <1>9 DEF Queued
<1>11. Listens(c)' => Settled(c)'
  <2>1. m \in Said(out'[c]) /\ m[1] = "status" /\ m[2] = s
    BY <1>9
  <2>2. Listens(c)' => view'[c].tip = known'[c].tip /\ \A t \in Scripts \ {s} : view'[c].st[t] = known'[c].st[t]
    BY ZenonT(60), <1>4, <1>7 DEF Listens
  <2> QED
    BY ZenonT(60), <2>1, <2>2 DEF Settled
<1>12. Tells(c)'
  BY <1>7, <1>8, <1>9, <1>10, <1>11 DEF Tells
<1> QED
  BY <1>5, <1>6, <1>12, OthersTell DEF HasLine, TellInvariant

\* A request with a script names one.
LEMMA ScriptIsOne ==
    ASSUME WellFormed, TellTypes, NEW c \in Conns,
           Takes(c, "subscribe") \/ Takes(c, "unsubscribe") \/ Takes(c, "broadcast")
    PROVE  Script(c) \in Scripts
<1>1. Head(channel[c]) \in Messages /\ Head(channel[c])[1] \in {"subscribe", "unsubscribe", "broadcast"}
  BY DEF TellTypes, Takes
<1>2. Head(channel[c]) \in {"subscribe", "unsubscribe", "broadcast"} \X Scripts
  BY <1>1 DEF Messages, Update, Done, WellFormed
<1> QED
  BY <1>2 DEF Script

\* blockchain_scripthash_subscribe and _unsubscribe record the status that they answer.
LEMMA SubscriptionTells ==
    ASSUME WellFormed, TellInvariant, NEW c \in Conns, Subscribe(c) \/ Unsubscribe(c)
    PROVE  StateTypes' /\ HasLine' /\ \A d \in Conns : Tells(d)'
<1> DEFINE s == Script(c)
<1>1. s \in Scripts /\ hist[s] \in Status /\ None \in Status
  BY ScriptIsOne DEF TellInvariant, TellTypes, StateTypes, Subscribe, Unsubscribe, Status
<1>2. writer[c] = "recv" /\ UNCHANGED <<stale, view, hungup, stream, reader, line, tip, hist>>
  BY DEF Subscribe, Unsubscribe, Takes, data, client
<1>3. \/ known' = WithStatus(known, c, s, hist[s]) /\ Replies(c, <<"status", s, hist[s]>>)
      \/ known' = WithStatus(known, c, s, None) /\ Replies(c, <<"status", s, None>>)
      \/ Replies(c, <<"error">>) /\ UNCHANGED known
  BY DEF Subscribe, Unsubscribe, WithStatus
<1>4. hist' \in [Scripts -> Nat]
  BY ZenonT(60), <1>2 DEF TellInvariant, TellTypes, StateTypes
<1> HIDE DEF s
<1> QED
  BY <1>1, <1>2, <1>3, <1>4, StatusTells, AnswerTells

\* A connection that ends says nothing more.
LEMMA EndsTells ==
    ASSUME TellInvariant, NEW c \in Conns, Ends(c), UNCHANGED <<known, view, hungup, reader, line, tip, hist>>
    PROVE  StateTypes' /\ HasLine' /\ \A d \in Conns : Tells(d)'
<1>1. StateTypes
  BY DEF TellInvariant, TellTypes
<1>2. StateTypes'
  BY <1>1 DEF StateTypes, Ends
<1>3. Only(c)
  BY <1>1 DEF Only, StateTypes, Ends
<1>4. out'[c] = <<>> /\ stale'[c] = {} /\ writer'[c] = "join" /\ stream'[c] = "shut"
  BY <1>1 DEF StateTypes, Ends
<1>5. Tells(c)'
  BY <1>4, EndTells
<1> QED
  BY <1>2, <1>3, <1>5, OthersTell DEF HasLine, TellInvariant

\* Nothing recorded, nothing told.
LEMMA NothingTyped == Nothing \in Picture
  BY DEF Nothing, Picture, Status

\* The reader is joined and the connection's state dropped.
LEMMA JoinTells ==
    ASSUME TellInvariant, NEW c \in Conns, Join(c)
    PROVE  StateTypes' /\ HasLine' /\ \A d \in Conns : Tells(d)'
<1>1. StateTypes /\ Tells(c)
  BY DEF TellInvariant, TellTypes
<1>2. /\ writer[c] = "join" /\ writer' = [writer EXCEPT ![c] = "gone"]
      /\ known' = [known EXCEPT ![c] = Nothing] /\ view' = [view EXCEPT ![c] = Nothing]
      /\ hungup' = [hungup EXCEPT ![c] = FALSE]
      /\ UNCHANGED <<stream, stale, out, reader, line, tip, hist>>
  BY DEF Join, data
<1>3. StateTypes'
  BY <1>1, <1>2, NothingTyped DEF StateTypes
<1>4. Only(c)
  BY <1>1, <1>2 DEF Only, StateTypes
<1>5. out'[c] = <<>> /\ stale'[c] = {} /\ writer'[c] = "gone" /\ stream'[c] # "none"
  BY <1>1, <1>2 DEF StateTypes, Tells
<1>6. Tells(c)'
  BY ZenonT(60), <1>5, EndTells
<1> QED
  BY <1>2, <1>3, <1>4, <1>6, OthersTell DEF HasLine, TellInvariant

\* The first step of update_subscriptions: the header, and the scripts to refresh.
LEMMA UpdateHeaderTells ==
    ASSUME WellFormed, TellInvariant, NEW c \in Conns, UpdateHeader(c)
    PROVE  StateTypes' /\ HasLine' /\ \A d \in Conns : Tells(d)'
<1> DEFINE m == <<"tip", tip>>
           w == Onward(stale'[c], out'[c])
<1>1. StateTypes /\ TellTypes /\ Tells(c) /\ known \in [Conns -> Picture] /\ tip \in Status
  BY DEF TellInvariant, TellTypes, StateTypes, Status
<1>2. /\ writer[c] = "recv" /\ writer' = [writer EXCEPT ![c] = w]
      /\ stale' = [stale EXCEPT ![c] = Subscribed(known[c])]
      /\ UNCHANGED <<view, hungup, stream, reader, line, tip, hist>>
  BY DEF UpdateHeader, Takes, data, client
<1>change. \/ known' = [known EXCEPT ![c].tip = tip] /\ out' = [out EXCEPT ![c] = <<m>>]
           \/ UNCHANGED <<known, out>>
  BY DEF UpdateHeader
<1>3. /\ out[c] = <<>> /\ stale[c] = {} /\ stream[c] # "none"
      /\ Listens(c) => view[c].tip = known[c].tip /\ \A t \in Scripts : view[c].st[t] = known[c].st[t]
  BY <1>1, <1>2, Recv
<1>4. w \in {"refresh", "write", "recv"} /\ Subscribed(known[c]) \subseteq Scripts
  BY DEF Onward, Subscribed
<1>5. stale'[c] = Subscribed(known[c]) /\ writer'[c] = w
  BY <1>1, <1>2 DEF StateTypes
<1>6. <<m>> \in Seq(OutMessages)
  BY <1>1 DEF OutMessages
<1>7. /\ known' \in [Conns -> Picture] /\ known'[c].st = known[c].st
      /\ \A d \in Conns \ {c} : known'[d] = known[d]
      /\ known' = known \/ known'[c].tip = tip
  <2>1. CASE UNCHANGED known
    BY <1>1, <2>1
  <2>2. CASE known' = [known EXCEPT ![c].tip = tip]
    BY <1>1, <2>2, TipRecorded
  <2> QED
    BY <1>change, <2>1, <2>2
<1>8. /\ out' \in [Conns -> Seq(OutMessages)]
      /\ \A d \in Conns \ {c} : out'[d] = out[d]
      /\ \/ out'[c] = <<>> /\ known' = known
         \/ out'[c] = <<m>> /\ known'[c].tip = tip
  <2>1. CASE UNCHANGED <<known, out>>
    BY <1>1, <1>3, <2>1 DEF StateTypes
  <2>2. CASE known' = [known EXCEPT ![c].tip = tip] /\ out' = [out EXCEPT ![c] = <<m>>]
    <3>1. known'[c].tip = tip
      BY <1>1, <2>2, TipRecorded
    <3> HIDE DEF m
    <3> QED
      BY <1>1, <1>6, <2>2, <3>1 DEF StateTypes
  <2> QED
    BY <1>change, <2>1, <2>2
<1> HIDE DEF w
<1>9. StateTypes'
  <2>1. /\ writer' \in [Conns -> {"off", "recv", "broadcast", "refresh", "write", "join", "gone"}]
        /\ stale' \in [Conns -> SUBSET Scripts]
    BY <1>1, <1>2, <1>4 DEF StateTypes
  <2> QED
    BY ZenonT(60), <1>1, <1>2, <1>7, <1>8, <2>1 DEF StateTypes
<1>10. Only(c)
  BY ZenonT(60), <1>1, <1>2, <1>7, <1>8 DEF Only, StateTypes
<1>11. /\ w # "refresh" => stale'[c] = {}
       /\ w = "write" => out'[c] # <<>>
       /\ w \notin {"write", "refresh"} => out'[c] = <<>>
  BY DEF w, Onward
<1>12. CASE out'[c] = <<>> /\ known' = known
  <2>1. Queued(c)'
    BY <1>12, SaidFew DEF Queued
  <2>2. Listens(c)' => Settled(c)'
    BY ZenonT(60), <1>2, <1>3, <1>12, SaidFew DEF Listens, Settled
  <2>3. Tells(c)'
    BY ZenonT(60), <1>2, <1>3, <1>4, <1>5, <1>11, <1>12, <2>1, <2>2 DEF Tells
  <2> QED
    BY <1>2, <1>9, <1>10, <2>3, OthersTell DEF HasLine, TellInvariant
<1>13. CASE out'[c] = <<m>> /\ known'[c].tip = tip
  <2>1. Said(out'[c]) = {m} /\ m[1] = "tip" /\ m[2] = tip
    BY <1>13, SaidFew
  <2>2. Queued(c)'
    BY <1>13, <2>1 DEF Queued
  <2>3. m \in Said(out'[c]) /\ m[1] = "tip"
    BY <2>1
  <2>4. Listens(c)' => \A t \in Scripts : view'[c].st[t] = known'[c].st[t]
    BY <1>2, <1>3, <1>7 DEF Listens
  <2>5. Listens(c)' => Settled(c)'
    <3> HIDE DEF m
    <3> QED
      BY ZenonT(60), <2>3, <2>4 DEF Settled
  <2>6. Tells(c)'
    BY ZenonT(60), <1>2, <1>3, <1>4, <1>5, <1>11, <2>2, <2>5 DEF Tells
  <2> QED
    BY <1>2, <1>9, <1>10, <2>6, OthersTell DEF HasLine, TellInvariant
<1> QED
  BY <1>8, <1>12, <1>13

\* UpdateStatus with a history within the limit: script s is refreshed.
Refreshes(c, s) ==
    /\ stale' = [stale EXCEPT ![c] = @ \ {s}]
    /\ known' = WithStatus(known, c, s, hist[s])
    /\ out' = [out EXCEPT ![c] = IF known[c].st[s] = hist[s] THEN @ ELSE Append(@, <<"status", s, hist[s]>>)]
    /\ writer' = [writer EXCEPT ![c] = Onward(stale'[c], out'[c])]
    /\ UNCHANGED <<view, hungup, stream, reader, line, tip, hist>>

\* A refreshed script: its status is recorded, and a new one is written after the rest.
LEMMA UpdateStatusTells ==
    ASSUME WellFormed, TellInvariant, NEW c \in Conns, writer[c] = "refresh", NEW s \in stale[c], Refreshes(c, s)
    PROVE  StateTypes' /\ HasLine' /\ \A d \in Conns : Tells(d)'
<1> DEFINE m == <<"status", s, hist[s]>>
           n == hist[s]
           w == Onward(stale'[c], out'[c])
           o == IF known[c].st[s] = n THEN out[c] ELSE Append(out[c], m)
<1>1. /\ StateTypes /\ TellTypes /\ Tells(c) /\ known \in [Conns -> Picture] /\ out[c] \in Seq(OutMessages)
      /\ s \in Scripts /\ n \in Status
  BY ZenonT(60) DEF TellInvariant, TellTypes, StateTypes, Status
<1>2. m \in OutMessages /\ m[1] = "status" /\ m[2] = s /\ m[3] = n
  BY ZenonT(60), <1>1 DEF OutMessages
<1>3. /\ out' = [out EXCEPT ![c] = o] /\ writer' = [writer EXCEPT ![c] = w]
      /\ stale' = [stale EXCEPT ![c] = @ \ {s}]
      /\ UNCHANGED <<view, hungup, stream, reader, line, tip, hist>>
  BY ZenonT(60) DEF Refreshes
<1> HIDE DEF n
<1>4. /\ known'[c].tip = known[c].tip /\ known'[c].st[s] = n /\ known' \in [Conns -> Picture]
      /\ \A t \in Scripts \ {s} : known'[c].st[t] = known[c].st[t]
      /\ \A d \in Conns \ {c} : known'[d] = known[d]
  <2>1. known' = WithStatus(known, c, s, n)
    BY DEF n, Refreshes
  <2> QED
    BY <1>1, <2>1, StatusRecorded
<1> HIDE DEF m
<1>5. o \in Seq(OutMessages) /\ Said(Append(out[c], m)) = Said(out[c]) \cup {m}
  <2>1. out[c] \in Seq(OutMessages) /\ m \in OutMessages
    BY ZenonT(60), <1>1, <1>2
  <2> QED
    BY SMT, <2>1, SaidAppended
<1>6. /\ w \in {"refresh", "write", "recv"}
      /\ w # "refresh" => stale'[c] = {}
      /\ w = "write" => out'[c] # <<>>
      /\ w \notin {"write", "refresh"} => out'[c] = <<>>
  BY DEF w, Onward
<1> HIDE DEF o, w
<1>7. out'[c] = o /\ writer'[c] = w /\ stale'[c] = stale[c] \ {s}
  BY <1>1, <1>3 DEF StateTypes
<1>8. StateTypes'
  <2>1. /\ writer' \in [Conns -> {"off", "recv", "broadcast", "refresh", "write", "join", "gone"}]
        /\ stale' \in [Conns -> SUBSET Scripts] /\ out' \in [Conns -> Seq(OutMessages)]
    BY <1>1, <1>3, <1>5, <1>6 DEF StateTypes
  <2> QED
    BY ZenonT(60), <1>1, <1>3, <1>4, <2>1 DEF StateTypes
<1>9. Only(c)
  BY ZenonT(60), <1>1, <1>3, <1>4 DEF Only, StateTypes
<1>10. /\ Queued(c) /\ stream[c] # "none" /\ (Listens(c) => Settled(c))
  BY ZenonT(60), <1>1 DEF Tells, Running
<1>quiet. stream'[c] # "none" /\ writer'[c] \in {"refresh", "write", "recv"}
  BY ZenonT(60), <1>3, <1>6, <1>7, <1>10
<1>11. ASSUME o = out[c], known[c].st[s] = n PROVE Tells(c)'
  <2>1. \A t \in Scripts : known'[c].st[t] = known[c].st[t]
    BY ZenonT(60), <1>4, <1>11
  <2>2. Queued(c)'
    BY ZenonT(60), <1>3, <1>4, <1>7, <1>10, <1>11, <2>1 DEF Queued
  <2>3. /\ view'[c] = view[c] /\ out'[c] = out[c] /\ known'[c].tip = known[c].tip
        /\ Listens(c)' => Settled(c)
    BY <1>3, <1>4, <1>7, <1>10, <1>11 DEF Listens
  <2>4. Listens(c)' => Settled(c)'
    BY ZenonT(60), <2>1, <2>3 DEF Settled
  <2> QED
    BY ZenonT(60), <1>6, <1>7, <1>quiet, <2>2, <2>4 DEF Tells
<1>12. ASSUME o = Append(out[c], m) PROVE Tells(c)'
  <2>1. Said(out'[c]) = Said(out[c]) \cup {m}
    BY ZenonT(60), <1>5, <1>7, <1>12
  <2>2. Queued(c)'
    <3> SUFFICES ASSUME NEW x \in Said(out'[c])
                 PROVE  /\ x[1] = "tip" => x[2] = known'[c].tip
                        /\ x[1] = "status" => x[2] \in Scripts \ stale'[c] /\ x[3] = known'[c].st[x[2]]
      BY ZenonT(60) DEF Queued
    <3>1. CASE x = m
      BY ZenonT(60), <1>1, <1>2, <1>4, <1>7, <3>1
    <3>2. CASE x \in Said(out[c])
      <4>1. /\ x[1] = "tip" => x[2] = known[c].tip
            /\ x[1] = "status" => x[2] \in Scripts \ stale[c] /\ x[3] = known[c].st[x[2]]
        BY ZenonT(60), <1>10, <3>2 DEF Queued
      <4> QED
        BY ZenonT(60), <1>1, <1>4, <1>7, <4>1
    <3> QED
      BY ZenonT(60), <2>1, <3>1, <3>2
  <2>3. Listens(c)' => Settled(c)'
    <3> SUFFICES ASSUME Listens(c)' PROVE Settled(c)'
      BY ZenonT(60)
    <3>1. Settled(c) /\ view'[c] = view[c] /\ Said(out[c]) \subseteq Said(out'[c]) /\ m \in Said(out'[c])
      BY <1>3, <1>10, <2>1 DEF Listens
    <3>2. view'[c].tip = known'[c].tip \/ \E x \in Said(out'[c]) : x[1] = "tip"
      BY ZenonT(60), <1>4, <3>1 DEF Settled
    <3>3. ASSUME NEW t \in Scripts
          PROVE  \/ view'[c].st[t] = known'[c].st[t]
                 \/ \E x \in Said(out'[c]) : x[1] = "status" /\ x[2] = t
      <4>1. CASE t = s
        BY ZenonT(60), <1>2, <3>1, <4>1
      <4>2. CASE t # s
        BY ZenonT(60), <1>4, <3>1, <4>2 DEF Settled
      <4> QED
        BY <4>1, <4>2
    <3> QED
      BY ZenonT(60), <3>2, <3>3 DEF Settled
  <2> QED
    BY ZenonT(60), <1>6, <1>7, <1>quiet, <2>2, <2>3 DEF Tells
<1>13. Tells(c)'
  BY ZenonT(60), <1>11, <1>12 DEF o
<1> QED
  BY ZenonT(60), <1>3, <1>8, <1>9, <1>13, OthersTell DEF HasLine, TellInvariant

\* What a client that reads a message knows after it.
LEMMA ToldOne ==
    ASSUME NEW v \in Picture, NEW m \in OutMessages
    PROVE  /\ Told(v, m) \in Picture
           /\ m[1] = "tip" => Told(v, m).tip = m[2] /\ Told(v, m).st = v.st
           /\ m[1] = "status" => /\ Told(v, m).tip = v.tip /\ Told(v, m).st[m[2]] = m[3]
                                 /\ \A t \in Scripts \ {m[2]} : Told(v, m).st[t] = v.st[t]
           /\ m[1] \notin {"tip", "status"} => Told(v, m) = v
<1>1. v.tip \in Status /\ v.st \in [Scripts -> Status]
  BY DEF Picture
<1>2. CASE m[1] = "tip"
  <2>1. m[2] \in Status
    BY <1>2 DEF OutMessages
  <2>2. Told(v, m) = [v EXCEPT !.tip = m[2]]
    BY ZenonT(60), <1>2 DEF Told
  <2> QED
    BY <1>1, <1>2, <2>1, <2>2 DEF Picture
<1>3. CASE m[1] = "status"
  <2> DEFINE f == [v.st EXCEPT ![m[2]] = m[3]]
  <2>1. m[2] \in Scripts /\ m[3] \in Status
    BY <1>3 DEF OutMessages
  <2>2. Told(v, m) = [v EXCEPT !.st = f]
    BY <1>3 DEF Told
  <2>3. f \in [Scripts -> Status] /\ f[m[2]] = m[3] /\ \A t \in Scripts \ {m[2]} : f[t] = v.st[t]
    BY <1>1, <2>1
  <2> HIDE DEF f
  <2>4. Told(v, m) \in Picture /\ Told(v, m).tip = v.tip /\ Told(v, m).st = f
    BY <1>1, <2>2, <2>3 DEF Picture
  <2> QED
    BY <1>3, <2>3, <2>4
<1>4. CASE m[1] \notin {"tip", "status"}
  BY ZenonT(60), <1>4 DEF Told
<1> QED
  BY <1>2, <1>3, <1>4

\* Write to a socket that takes the message.
Writes(c) ==
    /\ view' = [view EXCEPT ![c] = IF hungup[c] THEN @ ELSE Told(@, Head(out[c]))]
    /\ out' = [out EXCEPT ![c] = Tail(@)]
    /\ writer' = [writer EXCEPT ![c] = Onward({}, out'[c])]
    /\ UNCHANGED <<stale, stream, known, hungup, reader, line, tip, hist>>

\* A message that is written is told, and the rest is still to be.
LEMMA WriteTells ==
    ASSUME TellInvariant, NEW c \in Conns, writer[c] = "write", Writes(c)
    PROVE  StateTypes' /\ HasLine' /\ \A d \in Conns : Tells(d)'
<1> DEFINE m == Head(out[c])
           w == Onward({}, out'[c])
           v == IF hungup[c] THEN view[c] ELSE Told(view[c], m)
<1>1. /\ StateTypes /\ Tells(c) /\ out[c] \in Seq(OutMessages)
      /\ view[c] \in Picture /\ known[c] \in Picture
  BY ZenonT(60) DEF TellInvariant, TellTypes, StateTypes
<1>2. /\ out[c] # <<>> /\ stale[c] = {} /\ stream[c] # "none" /\ Queued(c) /\ (Listens(c) => Settled(c))
  BY <1>1 DEF Tells, Running
<1>3. /\ out' = [out EXCEPT ![c] = Tail(out[c])] /\ writer' = [writer EXCEPT ![c] = w]
      /\ view' = [view EXCEPT ![c] = v]
      /\ UNCHANGED <<stale, stream, known, hungup, reader, line, tip, hist>>
  BY DEF Writes
<1>4. /\ w \in {"write", "recv"} /\ (w = "write" => out'[c] # <<>>) /\ (w # "write" => out'[c] = <<>>)
  BY DEF w, Onward
<1> HIDE DEF w
<1>5. /\ m \in OutMessages /\ Tail(out[c]) \in Seq(OutMessages) /\ Said(out[c]) = {m} \cup Said(Tail(out[c]))
  BY ZenonT(60), <1>1, <1>2, SaidShortened
<1> HIDE DEF m
<1>6. v \in Picture
  BY <1>1, <1>5, ToldOne
<1> HIDE DEF v
<1>7. StateTypes'
  <2>1. /\ writer' \in [Conns -> {"off", "recv", "broadcast", "refresh", "write", "join", "gone"}]
        /\ view' \in [Conns -> Picture] /\ out' \in [Conns -> Seq(OutMessages)]
    BY ZenonT(60), <1>1, <1>3, <1>4, <1>5, <1>6 DEF StateTypes
  <2> QED
    BY ZenonT(60), <1>1, <1>3, <2>1 DEF StateTypes
<1>8. Only(c)
  BY <1>1, <1>3 DEF Only, StateTypes
<1>9. /\ out'[c] = Tail(out[c]) /\ writer'[c] = w /\ view'[c] = v
      /\ known'[c] = known[c] /\ stale'[c] = {} /\ stream'[c] # "none" /\ hungup'[c] = hungup[c]
      /\ stream'[c] = stream[c]
  BY ZenonT(60), <1>1, <1>2, <1>3 DEF StateTypes
<1>10. Said(out[c]) = {m} \cup Said(out'[c])
  BY <1>5, <1>9
<1>12. Queued(c)'
  BY ZenonT(60), <1>2, <1>9, <1>10 DEF Queued
<1>13. ASSUME Listens(c)' PROVE Settled(c)'
  <2>1. Settled(c) /\ v = Told(view[c], m)
    BY <1>2, <1>9, <1>13 DEF Listens, v
  <2>2. /\ m[1] = "tip" => m[2] = known[c].tip
        /\ m[1] = "status" => m[2] \in Scripts /\ m[3] = known[c].st[m[2]]
    <3>1. m \in Said(out[c])
      BY <1>5
    <3> QED
      BY ZenonT(60), <1>2, <3>1 DEF Queued
  <2>3. /\ m[1] = "tip" => v.tip = m[2] /\ v.st = view[c].st
        /\ m[1] = "status" => /\ v.tip = view[c].tip /\ v.st[m[2]] = m[3]
                              /\ \A t \in Scripts \ {m[2]} : v.st[t] = view[c].st[t]
        /\ m[1] \notin {"tip", "status"} => v = view[c]
    BY ZenonT(60), <1>1, <1>5, <2>1, ToldOne
  <2>4. v.tip = known[c].tip \/ \E x \in Said(out'[c]) : x[1] = "tip"
    <3>1. CASE view[c].tip = known[c].tip
      BY <2>2, <2>3, <3>1
    <3>2. ASSUME NEW x \in Said(out[c]), x[1] = "tip"
          PROVE  v.tip = known[c].tip \/ \E y \in Said(out'[c]) : y[1] = "tip"
      BY ZenonT(60), <1>10, <2>2, <2>3, <3>2
    <3> QED
      BY ZenonT(60), <2>1, <3>1, <3>2 DEF Settled
  <2>5. ASSUME NEW t \in Scripts
        PROVE  v.st[t] = known[c].st[t] \/ \E x \in Said(out'[c]) : x[1] = "status" /\ x[2] = t
    <3>1. CASE view[c].st[t] = known[c].st[t]
      BY ZenonT(60), <2>2, <2>3, <3>1
    <3>2. ASSUME NEW x \in Said(out[c]), x[1] = "status", x[2] = t
          PROVE  v.st[t] = known[c].st[t] \/ \E y \in Said(out'[c]) : y[1] = "status" /\ y[2] = t
      <4>1. x = m \/ x \in Said(out'[c])
        BY ZenonT(60), <1>10
      <4> QED
        BY ZenonT(60), <2>2, <2>3, <3>2, <4>1
    <3> QED
      BY ZenonT(60), <2>1, <3>1, <3>2 DEF Settled
  <2> QED
    BY ZenonT(60), <1>9, <2>4, <2>5 DEF Settled
<1>14. Tells(c)'
  BY ZenonT(60), <1>4, <1>9, <1>12, <1>13 DEF Tells
<1> QED
  BY <1>3, <1>7, <1>8, <1>14, OthersTell DEF HasLine, TellInvariant

----------------------------------------------------------------------------
\* The steps that are answered, and the ends of a connection.
LEMMA WriterTells ==
    ASSUME WellFormed, TellInvariant, NEW c \in Conns, Writer(c) \/ WriteExpires(c)
    PROVE  StateTypes' /\ HasLine' /\ \A d \in Conns : Tells(d)'
<1>1. StateTypes /\ TellTypes /\ Tells(c) /\ hist \in [Scripts -> Nat]
  BY DEF TellInvariant, TellTypes, StateTypes
<1>2. CASE TakeDone(c)
  <2>1. Ends(c) /\ UNCHANGED <<known, view, hungup, reader, line, tip, hist>>
    BY <1>2 DEF TakeDone, data, client
  <2> QED
    BY <2>1, EndsTells
<1>3. CASE WriteExpires(c)
  <2>1. Ends(c) /\ UNCHANGED <<known, view, hungup, reader, line, tip, hist>>
    BY ZenonT(60), <1>3 DEF WriteExpires, data, client
  <2> QED
    BY ZenonT(60), <2>1, EndsTells
<1>4. CASE Answer(c)
  <2>1. /\ Replies(c, <<"answer">>) /\ writer[c] = "recv"
        /\ UNCHANGED <<stale, known, view, hungup, stream, reader, line, tip, hist>>
    BY <1>4 DEF Answer, Takes, data, client
  <2> QED
    BY <1>1, <2>1, AnswerTells
<1>5. CASE UpdateSelf(c)
  <2>1. /\ Replies(c, <<"txid">>) /\ writer[c] = "broadcast"
        /\ UNCHANGED <<stale, known, view, hungup, stream, reader, line, tip, hist>>
    BY <1>5 DEF UpdateSelf, data, client
  <2> QED
    BY <1>1, <2>1, AnswerTells
<1>6. CASE Broadcast(c)
  <2>1. /\ writer[c] = "recv" /\ Script(c) \in Scripts
        /\ UNCHANGED <<stale, known, view, hungup, stream, reader, line, tip>>
    <3>1. Takes(c, "broadcast") /\ UNCHANGED <<stale, known, view, hungup, stream, reader, line, tip>>
      BY <1>6 DEF Broadcast, client
    <3> QED
      BY ZenonT(60), <1>1, <3>1, ScriptIsOne DEF Takes
  <2>2. CASE Replies(c, <<"error">>) /\ UNCHANGED hist
    BY ZenonT(60), <1>1, <2>1, <2>2, AnswerTells
  <2>3. CASE /\ hist' = [hist EXCEPT ![Script(c)] = @ + 1] /\ writer' = [writer EXCEPT ![c] = "broadcast"]
             /\ UNCHANGED out
    <3>1. hist' \in [Scripts -> Nat]
      BY <1>1, <2>1, <2>3
    <3>2. StateTypes'
      BY <1>1, <2>1, <2>3, <3>1 DEF StateTypes
    <3>3. Only(c)
      BY ZenonT(60), <1>1, <2>1, <2>3 DEF Only, StateTypes
    <3>4. /\ writer'[c] = "broadcast" /\ out'[c] = <<>> /\ stale'[c] = {} /\ stream'[c] # "none"
          /\ Listens(c) => Settled(c)
      BY ZenonT(60), <1>1, <2>1, <2>3 DEF StateTypes, Tells, Running
    <3>5. Listens(c)' => Settled(c)'
      BY ZenonT(60), SaidFew, <2>1, <2>3, <3>4 DEF Listens, Settled
    <3>6. Queued(c)'
      BY ZenonT(60), SaidFew, <3>4 DEF Queued
    <3>7. Tells(c)'
      BY ZenonT(60), <3>4, <3>5, <3>6 DEF Tells
    <3> QED
      BY ZenonT(60), <2>1, <3>2, <3>3, <3>7, OthersTell DEF HasLine, TellInvariant
  <2> QED
    BY <1>6, <2>2, <2>3 DEF Broadcast
<1>7. CASE UpdateStatus(c)
  <2>1. writer[c] = "refresh"
    BY <1>7 DEF UpdateStatus
  <2>2. PICK s \in stale[c] : Refreshes(c, s) \/ (Ends(c) /\ UNCHANGED <<known, view, hungup, reader, line, tip, hist>>)
    BY <1>7 DEF UpdateStatus, Refreshes, WithStatus, data, client
  <2> QED
    BY ZenonT(60), <2>1, <2>2, UpdateStatusTells, EndsTells
<1>8. CASE Write(c)
  <2>1. writer[c] = "write"
    BY <1>8 DEF Write
  <2>2. Writes(c) \/ (Ends(c) /\ UNCHANGED <<known, view, hungup, reader, line, tip, hist>>)
    BY <1>8 DEF Write, Writes, data
  <2> QED
    BY <2>1, <2>2, WriteTells, EndsTells
<1> QED
  BY ZenonT(60), <1>2, <1>3, <1>4, <1>5, <1>6, <1>7, <1>8, HeadersTell, SubscriptionTells, UpdateHeaderTells, JoinTells DEF Writer

\* Steps that no writer takes, with what they may do to a connection.
LEMMA QuietTells ==
    ASSUME TellInvariant, UNCHANGED <<writer, out, stale, known, view>>,
           \A d \in Conns : /\ hungup'[d] = hungup[d] \/ hungup'[d] = TRUE
                            /\ stream'[d] = stream[d] \/ stream'[d] = "shut"
    PROVE  \A d \in Conns : Tells(d)'
  BY ZenonT(60), Frame DEF TellInvariant

\* A connection that is accepted has not been told anything.
LEMMA AcceptTells ==
    ASSUME TellInvariant, NEW c \in Conns, Accept(c)
    PROVE  StateTypes' /\ HasLine' /\ \A d \in Conns : Tells(d)'
<1>1. StateTypes /\ Tells(c)
  BY ZenonT(60) DEF TellInvariant, TellTypes
<1>2. /\ stream[c] = "none" /\ stream' = [stream EXCEPT ![c] = "open"]
      /\ UNCHANGED <<writer, out, stale, known, view, hungup, reader, line, tip, hist>>
  BY ZenonT(60) DEF Accept, data, peer, client
<1>3. StateTypes'
  BY ZenonT(60), <1>1, <1>2 DEF StateTypes
<1>4. Only(c)
  BY ZenonT(60), <1>1, <1>2 DEF Only, StateTypes
<1>5. /\ writer'[c] = "off" /\ out'[c] = <<>> /\ stale'[c] = {} /\ view'[c] = Nothing /\ known'[c] = Nothing
  BY ZenonT(60), <1>1, <1>2 DEF Tells
<1>6. Tells(c)'
  BY ZenonT(60), <1>5, SaidFew DEF Tells, Queued, Running, Nothing
<1> QED
  BY <1>2, <1>3, <1>4, <1>6, OthersTell DEF HasLine, TellInvariant

\* A connection that is served starts with nothing recorded and nothing told.
LEMMA ServeTells ==
    ASSUME WellFormed, TellInvariant, Serve
    PROVE  StateTypes' /\ HasLine' /\ \A d \in Conns : Tells(d)'
<1>first. Head(acceptor) \in Conns /\ writer[Head(acceptor)] = "off" /\ stream[Head(acceptor)] # "none"
  <2>1. /\ acceptor \in Seq(Conns \cup {None}) /\ Len(acceptor) \in Nat \ {0} /\ Head(acceptor) = acceptor[1]
        /\ Head(acceptor) \in Conns \cup {None} /\ Head(acceptor) # None
    BY Shortened DEF TellInvariant, WaitsOnce, Serve
  <2> QED
    BY <2>1 DEF TellInvariant, WaitsOnce
<1>1. PICK c \in Conns :
        /\ writer[c] = "off" /\ stream[c] # "none"
        /\ reader' = [reader EXCEPT ![c] = "read"] /\ writer' = [writer EXCEPT ![c] = "recv"]
  BY ZenonT(60), <1>first DEF Serve
<1>2. UNCHANGED <<stream, out, stale, known, view, hungup, line, tip, hist>>
  BY DEF Serve, data, client
<1>3. StateTypes /\ Tells(c)
  BY DEF TellInvariant, TellTypes
<1>4. StateTypes'
  BY ZenonT(60), <1>1, <1>2, <1>3 DEF StateTypes
<1>5. Only(c)
  BY ZenonT(60), <1>1, <1>2, <1>3 DEF Only, StateTypes
<1>6. /\ writer'[c] = "recv" /\ out'[c] = <<>> /\ stale'[c] = {} /\ stream'[c] # "none"
      /\ view'[c] = known'[c]
  BY ZenonT(60), <1>1, <1>2, <1>3 DEF Tells, StateTypes
<1>7. Queued(c)' /\ Settled(c)'
  BY ZenonT(60), <1>6, SaidFew DEF Queued, Settled
<1>8. Tells(c)'
  BY ZenonT(60), <1>6, <1>7 DEF Tells
<1>9. HasLine'
  BY ZenonT(60), <1>1, <1>2, <1>3 DEF HasLine, TellInvariant, StateTypes
<1> QED
  BY ZenonT(60), <1>4, <1>5, <1>8, <1>9, OthersTell

\* No step but a writer's, Accept and Serve touches what is recorded, written or told.
LEMMA StepTells ==
    ASSUME WellFormed, TellInvariant, [Next]_vars
    PROVE  StateTypes' /\ HasLine' /\ \A d \in Conns : Tells(d)'
<1>1. StateTypes /\ HasLine
  BY DEF TellInvariant, TellTypes
<1>2. CASE UNCHANGED <<peer, stream, hungup, tip, hist, view>>
  <2>1. UNCHANGED <<reader, line, writer, stale, out, known, stream, hungup, tip, hist, view>>
    BY <1>2 DEF peer
  <2>2. StateTypes' /\ HasLine'
    BY ZenonT(60), <1>1, <2>1 DEF StateTypes, HasLine
  <2> QED
    BY <2>1, <2>2, QuietTells
<1>3. CASE NewTip \/ \E s \in Scripts : HistoryChange(s)
  <2>1. UNCHANGED <<reader, line, writer, stale, out, known, stream, hungup, view>>
    BY <1>3 DEF NewTip, HistoryChange, peer, client
  <2>2. tip' \in Nat /\ hist' \in [Scripts -> Nat]
    <3>1. CASE NewTip
      BY <1>1, <3>1 DEF NewTip, StateTypes
    <3>2. ASSUME NEW s \in Scripts, HistoryChange(s) PROVE tip' \in Nat /\ hist' \in [Scripts -> Nat]
      <4>1. PICK n \in Nat : hist' = [hist EXCEPT ![s] = n] /\ tip' = tip
        BY ZenonT(60), <3>2 DEF HistoryChange
      <4> QED
        BY <1>1, <4>1 DEF StateTypes
    <3> QED
      BY <1>3, <3>1, <3>2
  <2>3. StateTypes' /\ HasLine'
    BY <1>1, <2>1, <2>2 DEF StateTypes, HasLine
  <2> QED
    BY <2>1, <2>3, QuietTells
<1>4. ASSUME NEW c \in Conns, HangUp(c) \/ Reap(c)
      PROVE  StateTypes' /\ HasLine' /\ \A d \in Conns : Tells(d)'
  <2>1. UNCHANGED <<reader, line, writer, stale, out, known, tip, hist, view>>
    BY <1>4 DEF HangUp, Reap, peer, client, data
  <2>2. /\ hungup' \in [Conns -> BOOLEAN] /\ stream' \in [Conns -> {"none", "open", "shut"}]
        /\ \A d \in Conns : /\ hungup'[d] = hungup[d] \/ hungup'[d] = TRUE
                            /\ stream'[d] = stream[d] \/ stream'[d] = "shut"
    BY ZenonT(60), <1>1, <1>4 DEF HangUp, Reap, StateTypes, client
  <2>3. StateTypes' /\ HasLine'
    BY ZenonT(60), <1>1, <2>1, <2>2 DEF StateTypes, HasLine
  <2> QED
    BY ZenonT(60), <2>1, <2>2, <2>3, QuietTells
<1>5. ASSUME NEW c \in Conns, Read(c) \/ ReaderSend(c)
      PROVE  StateTypes' /\ HasLine' /\ \A d \in Conns : Tells(d)'
  <2>1. UNCHANGED <<writer, stale, out, known, stream, hungup, tip, hist, view>>
    BY <1>5 DEF Read, ReaderSend, client, data
  <2>2. /\ reader' \in [Conns -> {"off", "read", "send", "done", "gone"}]
        /\ line' \in [Conns -> Requests \cup {None}] /\ HasLine'
    <3>1. PICK r \in {"read", "send", "done", "gone"}, l \in Requests \cup {None} :
            /\ reader' = [reader EXCEPT ![c] = r] /\ line' = [line EXCEPT ![c] = l]
            /\ r = "send" => l \in Requests
      <4>1. line = [line EXCEPT ![c] = line[c]] /\ line[c] \in Requests \cup {None}
        BY <1>1 DEF StateTypes
      <4>2. CASE Read(c)
        BY <4>1, <4>2 DEF Read
      <4>3. CASE ReaderSend(c)
        <5>1. PICK r \in {"read", "done", "gone"} : reader' = [reader EXCEPT ![c] = r]
          BY ZenonT(60), <4>3 DEF ReaderSend
        <5>2. line' = [line EXCEPT ![c] = None]
          BY ZenonT(60), <4>3 DEF ReaderSend
        <5> QED
          BY ZenonT(60), <5>1, <5>2
      <4> QED
        BY <1>5, <4>2, <4>3
    <3> QED
      BY <1>1, <3>1 DEF StateTypes, HasLine
  <2>3. StateTypes'
    BY ZenonT(60), <1>1, <2>1, <2>2 DEF StateTypes
  <2> QED
    BY ZenonT(60), <2>1, <2>2, <2>3, QuietTells
<1>6. CASE Notify \/ Drop \/ Notifier \/ StopAccepting \/ SendDone \/ Stop \/ Finished \/ UNCHANGED vars
  BY ZenonT(60), <1>2, <1>6 DEF Notify, Drop, Notifier, StopAccepting, SendDone, Stop, Finished, vars, client, data
<1>7. ASSUME NEW c \in Conns, StallOrResume(c)
      PROVE  StateTypes' /\ HasLine' /\ \A d \in Conns : Tells(d)'
  BY ZenonT(60), <1>2, <1>7 DEF StallOrResume, data
<1> QED
  BY <1>3, <1>4, <1>5, <1>6, <1>7, AcceptTells, ServeTells, WriterTells DEF Next, Environment, Server

\* What a sequence has at its indices is of its type.
LEMMA Elements ==
    ASSUME NEW S, NEW s \in Seq(S)
    PROVE  \A i \in 1..Len(s) : s[i] \in S
  OBVIOUS

\* The queue r is q with one more entry.
Grown(S, q, x, r) ==
    /\ Len(q) \in Nat /\ Len(r) = Len(q) + 1 /\ r[Len(q) + 1] = x
    /\ r \in Seq(S) /\ \A i \in 1..Len(q) : r[i] = q[i]
    /\ \A i \in 1..Len(r) : i = Len(q) + 1 \/ i \in 1..Len(q)

\* What Append does.
LEMMA Entered ==
    ASSUME NEW S, NEW q \in Seq(S), NEW x \in S, NEW r, r = Append(q, x)
    PROVE  Grown(S, q, x, r)
  BY DEF Grown

\* The acceptor's channel with one more connection, or the end of the notifier.
LEMMA Enters ==
    ASSUME acceptor \in Seq(Conns \cup {None}), NEW x \in Conns \cup {None}, acceptor' = Append(acceptor, x)
    PROVE  /\ Len(acceptor) \in Nat /\ Len(acceptor') = Len(acceptor) + 1 /\ acceptor'[Len(acceptor) + 1] = x
           /\ acceptor' \in Seq(Conns \cup {None}) /\ \A i \in 1..Len(acceptor) : acceptor'[i] = acceptor[i]
           /\ \A i \in 1..Len(acceptor') : i = Len(acceptor) + 1 \/ i \in 1..Len(acceptor)
<1>1. Grown(Conns \cup {None}, acceptor, x, acceptor')
  BY ZenonT(60), Entered
<1> QED
  BY ZenonT(60), <1>1 DEF Grown

\* The acceptor's channel: a connection enters it once, and no thread is started before it leaves.
LEMMA StepWaits ==
    ASSUME WellFormed, TellInvariant, [Next]_vars
    PROVE  WaitsOnce'
<1>1. StateTypes /\ WaitsOnce /\ \A c \in Conns : stream[c] = "none" => writer[c] = "off"
  BY ZenonT(60) DEF TellInvariant, TellTypes, Tells
<1> DEFINE Started(c) == writer'[c] # writer[c] /\ writer[c] = "off"
<1>2. ASSUME UNCHANGED acceptor, \A c \in Conns : ~Started(c) /\ (stream[c] # "none" => stream'[c] # "none")
      PROVE  WaitsOnce'
  <2>1. \A i \in 1..Len(acceptor) : acceptor[i] \in Conns \cup {None}
    BY ZenonT(60), <1>1, Elements DEF WaitsOnce
  <2> QED
    BY ZenonT(60), <1>1, <1>2, <2>1 DEF WaitsOnce
<1>3. ASSUME NEW c \in Conns, Accept(c) PROVE WaitsOnce'
  <2>1. /\ stream[c] = "none" /\ stream' = [stream EXCEPT ![c] = "open"] /\ acceptor' = Append(acceptor, c)
        /\ UNCHANGED writer
    BY ZenonT(60), <1>3 DEF Accept, peer
  <2>2. /\ Len(acceptor) \in Nat /\ Len(acceptor') = Len(acceptor) + 1 /\ acceptor'[Len(acceptor) + 1] = c
        /\ acceptor' \in Seq(Conns \cup {None}) /\ \A i \in 1..Len(acceptor) : acceptor'[i] = acceptor[i]
        /\ \A i \in 1..Len(acceptor') : i = Len(acceptor) + 1 \/ i \in 1..Len(acceptor)
    <3>1. acceptor \in Seq(Conns \cup {None}) /\ c \in Conns \cup {None}
      BY ZenonT(60), <1>1 DEF WaitsOnce
    <3> QED
      BY ZenonT(60), <2>1, <3>1, Enters
  <2>3. \A i \in 1..Len(acceptor) : acceptor[i] \in Conns \cup {None} /\ acceptor[i] # c
    <3>1. acceptor \in Seq(Conns \cup {None}) /\ c # None
      BY ZenonT(60), <1>1 DEF WaitsOnce, WellFormed
    <3>2. \A i \in 1..Len(acceptor) : acceptor[i] \in Conns \cup {None}
      BY ZenonT(60), <3>1, Elements
    <3> QED
      BY ZenonT(60), <1>1, <2>1, <3>1, <3>2 DEF WaitsOnce
  <2>4. writer'[c] = "off" /\ stream'[c] = "open" /\ \A d \in Conns \ {c} : stream'[d] = stream[d]
    BY <1>1, <2>1 DEF StateTypes
  <2>5. \A i \in 1..Len(acceptor') : i = Len(acceptor) + 1 \/ i \in 1..Len(acceptor)
    BY ZenonT(60), <2>2
  <2>6. ASSUME NEW i \in 1..Len(acceptor'), acceptor'[i] # None
        PROVE  stream'[acceptor'[i]] # "none" /\ writer'[acceptor'[i]] = "off"
    <3>1. CASE i = Len(acceptor) + 1
      BY ZenonT(60), <2>2, <2>4, <3>1
    <3>2. CASE i \in 1..Len(acceptor)
      <4>1. acceptor'[i] = acceptor[i] /\ acceptor[i] \in Conns \ {c}
        <5>1. acceptor'[i] = acceptor[i]
          BY ZenonT(60), <2>2, <3>2
        <5>2. acceptor[i] \in Conns \cup {None} /\ acceptor[i] # c
          BY ZenonT(60), <2>3, <3>2
        <5>3. acceptor[i] # None
          BY ZenonT(60), <2>6, <5>1
        <5> QED
          BY ZenonT(60), <5>1, <5>2, <5>3
      <4>2. stream[acceptor[i]] # "none" /\ writer[acceptor[i]] = "off"
        BY ZenonT(60), <1>1, <2>6, <3>2, <4>1 DEF WaitsOnce
      <4> QED
        BY ZenonT(60), <2>1, <2>4, <4>1, <4>2
    <3> QED
      BY ZenonT(60), <2>5, <3>1, <3>2
  <2>7. ASSUME NEW i \in 1..Len(acceptor'), NEW j \in 1..Len(acceptor'), i # j, acceptor'[i] = acceptor'[j]
        PROVE  acceptor'[i] = None
    BY ZenonT(60), <1>1, <2>2, <2>3, <2>5, <2>7 DEF WaitsOnce
  <2> QED
    BY ZenonT(60), <2>2, <2>6, <2>7 DEF WaitsOnce
<1>4. CASE Serve \/ StopAccepting
  <2>1. /\ acceptor # <<>> /\ acceptor' = Tail(acceptor) /\ UNCHANGED stream
        /\ writer' = [writer EXCEPT ![Head(acceptor)] = "recv"] \/ UNCHANGED writer
    BY <1>4 DEF Serve, StopAccepting, peer
  <2>2. /\ Len(acceptor) \in Nat \ {0} /\ Head(acceptor) = acceptor[1] /\ acceptor' \in Seq(Conns \cup {None})
        /\ Len(acceptor') = Len(acceptor) - 1 /\ \A i \in 1..Len(acceptor') : acceptor'[i] = acceptor[i + 1]
    <3>1. acceptor \in Seq(Conns \cup {None}) /\ acceptor # <<>>
      BY ZenonT(60), <1>1, <2>1 DEF WaitsOnce
    <3>2. PICK q : q = Tail(acceptor)
      BY ZenonT(60)
    <3>3. /\ Len(acceptor) \in Nat \ {0} /\ Head(acceptor) = acceptor[1] /\ q \in Seq(Conns \cup {None})
          /\ Len(q) = Len(acceptor) - 1 /\ \A i \in 1..Len(q) : q[i] = acceptor[i + 1]
      BY ZenonT(60), <3>1, <3>2, Shortened
    <3>4. acceptor' = q
      BY ZenonT(60), <2>1, <3>2
    <3> QED
      BY ZenonT(60), <3>3, <3>4
  <2>3. \A i \in 1..Len(acceptor') : i + 1 \in 1..Len(acceptor) /\ i + 1 # 1 /\ 1 \in 1..Len(acceptor)
    BY SMTT(60), <2>2
  <2>4. ASSUME NEW i \in 1..Len(acceptor'), acceptor'[i] # None
        PROVE  stream'[acceptor'[i]] # "none" /\ writer'[acceptor'[i]] = "off"
    <3>1. /\ acceptor'[i] # Head(acceptor) /\ acceptor'[i] \in Conns
          /\ stream[acceptor'[i]] # "none" /\ writer[acceptor'[i]] = "off"
      <4>1. acceptor'[i] = acceptor[i + 1] /\ i + 1 \in 1..Len(acceptor) /\ 1 \in 1..Len(acceptor) /\ i + 1 # 1
        BY ZenonT(60), <2>2, <2>3
      <4>2. acceptor[i + 1] # None /\ acceptor[i + 1] \in Conns \cup {None}
        <5>1. acceptor \in Seq(Conns \cup {None})
          BY ZenonT(60), <1>1 DEF WaitsOnce
        <5> QED
          BY ZenonT(60), <2>4, <4>1, <5>1, Elements
      <4>3. acceptor[i + 1] # acceptor[1]
        BY ZenonT(60), <1>1, <4>1, <4>2 DEF WaitsOnce
      <4>4. stream[acceptor[i + 1]] # "none" /\ writer[acceptor[i + 1]] = "off"
        BY ZenonT(60), <1>1, <4>1, <4>2 DEF WaitsOnce
      <4> QED
        BY ZenonT(60), <2>2, <4>1, <4>2, <4>3, <4>4
    <3> QED
      BY ZenonT(60), <1>1, <2>1, <3>1 DEF StateTypes
  <2>5. ASSUME NEW i \in 1..Len(acceptor'), NEW j \in 1..Len(acceptor'), i # j, acceptor'[i] = acceptor'[j]
        PROVE  acceptor'[i] = None
    BY <1>1, <2>2, <2>3, <2>5 DEF WaitsOnce
  <2> QED
    BY ZenonT(60), <2>2, <2>4, <2>5 DEF WaitsOnce
<1>5. CASE Notifier
  <2>1. UNCHANGED <<writer, stream>> /\ (UNCHANGED acceptor \/ acceptor' = Append(acceptor, None))
    BY <1>5 DEF Notifier, peer
  <2>2. CASE UNCHANGED acceptor
    BY ZenonT(60), <1>2, <2>1, <2>2
  <2>3. CASE acceptor' = Append(acceptor, None)
    <3>1. /\ Len(acceptor) \in Nat /\ Len(acceptor') = Len(acceptor) + 1 /\ acceptor'[Len(acceptor) + 1] = None
          /\ acceptor' \in Seq(Conns \cup {None}) /\ \A i \in 1..Len(acceptor) : acceptor'[i] = acceptor[i]
          /\ \A i \in 1..Len(acceptor') : i = Len(acceptor) + 1 \/ i \in 1..Len(acceptor)
      <4>1. acceptor \in Seq(Conns \cup {None}) /\ None \in Conns \cup {None}
        BY ZenonT(60), <1>1 DEF WaitsOnce
      <4> QED
        BY ZenonT(60), <2>3, <4>1, Enters
    <3>2. \A i \in 1..Len(acceptor') : i = Len(acceptor) + 1 \/ i \in 1..Len(acceptor)
      BY ZenonT(60), <3>1
    <3> QED
      BY ZenonT(60), <1>1, <2>1, <3>1, <3>2 DEF WaitsOnce
  <2> QED
    BY <2>1, <2>2, <2>3
<1>6. ASSUME NEW c \in Conns, Reap(c) \/ Read(c) \/ ReaderSend(c) \/ HangUp(c) \/ StallOrResume(c) PROVE WaitsOnce'
  <2>1. /\ UNCHANGED <<writer, acceptor>> /\ \A d \in Conns : stream[d] # "none" => stream'[d] # "none"
    BY ZenonT(60), <1>1, <1>6 DEF Reap, Read, ReaderSend, HangUp, StallOrResume, server, peer, StateTypes
  <2> QED
    BY <1>2, <2>1
<1>7. ASSUME NEW c \in Conns, Writer(c) \/ WriteExpires(c) PROVE WaitsOnce'
  <2>1. /\ writer[c] # "off" /\ \A d \in Conns \ {c} : writer'[d] = writer[d]
    BY ZenonT(60), <1>1, <1>7 DEF Writer, TakeDone, Answer, HeadersSubscribe, Subscribe, Unsubscribe, Broadcast, UpdateSelf,
                      UpdateHeader, UpdateStatus, Write, WriteExpires, Join, Ends, Takes, Replies, StateTypes
  <2>2. UNCHANGED acceptor
    BY <1>7 DEF Writer, TakeDone, Answer, HeadersSubscribe, Subscribe, Unsubscribe, Broadcast, UpdateSelf,
                UpdateHeader, UpdateStatus, Write, WriteExpires, Join, server
  <2>3. UNCHANGED stream \/ stream' = [stream EXCEPT ![c] = "shut"]
    BY ZenonT(60), <1>7 DEF Writer, TakeDone, Answer, HeadersSubscribe, Subscribe, Unsubscribe, Broadcast, UpdateSelf,
                UpdateHeader, UpdateStatus, Write, WriteExpires, Join, Ends
  <2> QED
    BY <1>1, <1>2, <2>1, <2>2, <2>3 DEF StateTypes
<1>8. CASE \/ Notify \/ Drop \/ SendDone \/ Stop \/ Finished \/ UNCHANGED vars
           \/ NewTip \/ \E s \in Scripts : HistoryChange(s)
  <2>1. UNCHANGED <<writer, stream, acceptor>>
    BY ZenonT(60), <1>8 DEF Notify, Drop, SendDone, Stop, Finished, vars, NewTip, HistoryChange, server, peer
  <2> QED
    BY ZenonT(60), <1>2, <2>1
<1> QED
  BY ZenonT(60), <1>3, <1>4, <1>5, <1>6, <1>7, <1>8 DEF Next, Environment, Server

\* RPC::start, with no connection.
LEMMA NothingToTell ==
    ASSUME WellFormed, Init PROVE TellInvariant
<1>1. TellTypes
  <2>1. 0 \in Nat /\ <<>> \in Seq(OutMessages) /\ <<>> \in Seq(Messages)
    OBVIOUS
  <2>2. tip \in Nat /\ hist \in [Scripts -> Nat] /\ stream \in [Conns -> {"none", "open", "shut"}]
    BY ZenonT(60), <2>1 DEF Init
  <2>3. /\ reader \in [Conns -> {"off", "read", "send", "done", "gone"}]
        /\ line \in [Conns -> Requests \cup {None}]
        /\ writer \in [Conns -> {"off", "recv", "broadcast", "refresh", "write", "join", "gone"}]
    BY ZenonT(60) DEF Init
  <2>4. /\ stale \in [Conns -> SUBSET Scripts] /\ out \in [Conns -> Seq(OutMessages)]
        /\ channel \in [Conns -> Seq(Messages)]
    BY ZenonT(60), <2>1 DEF Init
  <2>5. known \in [Conns -> Picture] /\ view \in [Conns -> Picture] /\ hungup \in [Conns -> BOOLEAN]
    BY ZenonT(60), NothingTyped DEF Init
  <2> QED
    BY ZenonT(60), <2>2, <2>3, <2>4, <2>5 DEF TellTypes, StateTypes
<1>2. HasLine /\ WaitsOnce
  BY SMTT(60) DEF Init, HasLine, WaitsOnce
<1>3. \A c \in Conns : Tells(c)
  BY ZenonT(60), SaidFew DEF Init, Tells, Queued, Running
<1> QED
  BY ZenonT(60), <1>1, <1>2, <1>3 DEF TellInvariant

\* Two pictures that agree on the header and on every script are one.
LEMMA SamePicture ==
    ASSUME NEW p \in Picture, NEW q \in Picture, p.tip = q.tip, \A s \in Scripts : p.st[s] = q.st[s]
    PROVE  p = q
<1>1. p.st \in [Scripts -> Status] /\ q.st \in [Scripts -> Status]
  BY SMTT(60) DEF Picture
<1>2. p.st = q.st
  BY SMTT(60), <1>1
<1>3. p = [tip |-> p.tip, st |-> p.st] /\ q = [tip |-> q.tip, st |-> q.st]
  BY SMTT(60) DEF Picture
<1> QED
  BY ZenonT(60), <1>2, <1>3

\* Between two messages, what a connection records as its client's header and statuses is what
\* the client was told (handle_replies, update_subscriptions), for any number of connections,
\* scripts and requests and any limits.
THEOREM RecordAlwaysTold ==
    ASSUME WellFormed PROVE Spec => []RecordIsTold
<1>1. Init => TellInvariant
  BY NothingToTell
<1>2. TellInvariant /\ [Next]_vars => TellInvariant'
  <2> SUFFICES ASSUME TellInvariant, [Next]_vars PROVE TellInvariant'
    OBVIOUS
  <2>1. channel' \in [Conns -> Seq(Messages)]
    BY ChannelTypes DEF TellInvariant
  <2> QED
    BY <2>1, StepTells, StepWaits DEF TellInvariant, TellTypes
<1>3. TellInvariant => RecordIsTold
  <2> SUFFICES ASSUME TellInvariant, NEW c \in Conns, writer[c] = "recv", Listens(c) PROVE view[c] = known[c]
    BY DEF RecordIsTold, Listens
  <2>1. /\ view[c].tip = known[c].tip /\ \A s \in Scripts : view[c].st[s] = known[c].st[s]
        /\ view[c] \in Picture /\ known[c] \in Picture
    BY ZenonT(60), Recv DEF TellInvariant, TellTypes, StateTypes
  <2> QED
    BY ZenonT(60), <2>1, SamePicture
<1> QED
  BY <1>1, <1>2, <1>3, PTL DEF Spec
=============================================================================

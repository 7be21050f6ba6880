------------------------------ MODULE Electrum ------------------------------
(***************************************************************************)
(* The Electrum RPC server (electrum/server.rs): the acceptor, the thread  *)
(* that serves connections, the notifier, the reaper, and the reader and   *)
(* the writer (peer) thread of every connection.  Reader, notifier and     *)
(* server feed the writer through one bounded channel.  Clients may stop   *)
(* reading or hang up at any point; the index and the mempool change       *)
(* between any two queries.                                                *)
(*                                                                         *)
(* The status of a script is the length of its history, 0 for Null.        *)
(***************************************************************************)
EXTENDS Integers, Sequences, FiniteSets, Functions

CONSTANTS
    Conns,              \* connections, numbered in the order they are accepted
    Scripts,            \* script hashes that clients subscribe to
    Requests,           \* what clients send: <<method>> or <<method, script>>
    ChannelBound,       \* sync_channel(10)
    TxsLimit, SubscriptionLimit,    \* electrum_txs_limit, electrum_subscription_limit
    None,
    Budgets,            \* bounds (accepts, requests, changes) and the deadlines that are configured
    MaxNotifications    \* bound on the notification channel

VARIABLES
    tip, hist,                  \* what queries answer: best header, histories
    main,                       \* run_server: "loop", or RPC "dropped"
    notification, acceptor,     \* the two unbounded channels
    senders, rpc,               \* senders, the step of the "rpc" thread
    expiries,                   \* connections registered with the reaper
    stream, channel, receiver,  \* per connection: socket, channel, receiver alive
    reader, line,               \* reader thread: its step, the request it read
    writer, stale, out,         \* peer thread: step, scripts to refresh, messages to write
    known,                      \* last_header_entry and status_hashes
    view, stalled, hungup,      \* the client: what it was told, not reading, gone
    clients, subscriptions,     \* the two gauges
    budget

data == <<tip, hist>>
server == <<main, notification, acceptor, senders, rpc, expiries>>
peer == <<reader, line, writer, stale, out, known>>
client == <<view, stalled, hungup>>
gauges == <<clients, subscriptions>>
vars == <<data, server, stream, channel, receiver, peer, client, gauges, budget>>

\* Message::PeriodicUpdate, Message::Done
Update == <<"update">>
Done == <<"done">>

Nothing == [tip |-> None, st |-> [s \in Scripts |-> None]]
Subscribed(k) == {s \in Scripts : k.st[s] # None}

Init ==
    /\ tip = 0 /\ hist = [s \in Scripts |-> 0]
    /\ main = "loop" /\ notification = <<>> /\ acceptor = <<>> /\ senders = <<>>
    /\ rpc = "accept" /\ expiries = {}
    /\ stream = [c \in Conns |-> "none"]
    /\ channel = [c \in Conns |-> <<>>] /\ receiver = [c \in Conns |-> FALSE]
    /\ reader = [c \in Conns |-> "off"] /\ line = [c \in Conns |-> None]
    /\ writer = [c \in Conns |-> "off"]
    /\ stale = [c \in Conns |-> {}] /\ out = [c \in Conns |-> <<>>]
    /\ known = [c \in Conns |-> Nothing] /\ view = [c \in Conns |-> Nothing]
    /\ stalled = [c \in Conns |-> FALSE] /\ hungup = [c \in Conns |-> FALSE]
    /\ clients = 0 /\ subscriptions = 0
    /\ budget \in Budgets

Spend(what) == budget[what] > 0 /\ budget' = [budget EXCEPT ![what] = @ - 1]

Room(c) == Len(channel[c]) < ChannelBound

\* try_send: a full or disconnected channel leaves the message unsent.
TrySend(ch, c, m) == IF receiver[c] /\ Len(ch[c]) < ChannelBound THEN Append(ch[c], m) ELSE ch[c]

----------------------------------------------------------------------------
(* The index, the mempool and the clients *)

NewTip == /\ Spend("changes") /\ tip' = tip + 1
          /\ UNCHANGED <<hist, server, stream, channel, receiver, peer, client, gauges>>

HistoryChange(s) ==
    /\ Spend("changes")
    /\ \E n \in {hist[s] - 1, hist[s] + 1} \cap Nat : hist' = [hist EXCEPT ![s] = n]
    /\ UNCHANGED <<tip, server, stream, channel, receiver, peer, client, gauges>>

HangUp(c) ==
    /\ stream[c] = "open" /\ ~hungup[c]
    /\ hungup' = [hungup EXCEPT ![c] = TRUE]
    /\ UNCHANGED <<data, server, stream, channel, receiver, peer, view, stalled, gauges, budget>>

\* The socket's buffer fills up because the client does not read, or drains.
StallOrResume(c) ==
    /\ stream[c] = "open" /\ ~hungup[c] /\ out[c] # <<>>
    /\ stalled' = [stalled EXCEPT ![c] = ~@]
    /\ UNCHANGED <<data, server, stream, channel, receiver, peer, view, hungup, gauges, budget>>

----------------------------------------------------------------------------
(* RPC: acceptor, server loop, notifier, reaper, notify and drop *)

\* start_acceptor: registered with the reaper before it is enqueued.
Accept(c) ==
    /\ stream[c] = "none" /\ \A d \in Conns : d < c => stream[d] # "none"
    /\ rpc # "stopped" /\ Spend("accepts")
    /\ stream' = [stream EXCEPT ![c] = "open"]
    /\ expiries' = IF "conn_max_age" \in budget.deadlines THEN expiries \cup {c} ELSE expiries
    /\ acceptor' = Append(acceptor, c)
    /\ UNCHANGED <<data, main, notification, senders, rpc, channel, receiver, peer, client, gauges>>

\* One turn of the rpc thread's loop: a connection gets its channel and its two threads.
Serve ==
    /\ rpc = "accept" /\ acceptor # <<>> /\ Head(acceptor) # None
    /\ LET c == Head(acceptor)
       IN  /\ senders' = Append(senders, c)
           /\ receiver' = [receiver EXCEPT ![c] = TRUE]
           /\ reader' = [reader EXCEPT ![c] = "read"]
           /\ writer' = [writer EXCEPT ![c] = "recv"]
    /\ acceptor' = Tail(acceptor) /\ clients' = clients + 1
    /\ UNCHANGED <<data, main, notification, rpc, expiries, stream, channel, line, stale, out,
                   known, client, subscriptions, budget>>

\* The loop ends: the lock on senders is held until every Done is sent.
StopAccepting ==
    /\ rpc = "accept" /\ acceptor # <<>> /\ Head(acceptor) = None
    /\ acceptor' = Tail(acceptor) /\ rpc' = "closing"
    /\ UNCHANGED <<data, main, notification, senders, expiries, stream, channel, receiver, peer, client,
                   gauges, budget>>

\* sender.send(Message::Done) waits for room, or fails when the receiver is gone.
SendDone ==
    /\ rpc = "closing"
    /\ IF senders = <<>> THEN rpc' = "joining" /\ UNCHANGED <<senders, channel>>
       ELSE LET c == Head(senders)
            IN  /\ receiver[c] => Room(c)
                /\ channel' = [channel EXCEPT ![c] = TrySend(channel, c, Done)]
                /\ senders' = Tail(senders) /\ UNCHANGED rpc
    /\ UNCHANGED <<data, main, notification, acceptor, expiries, stream, receiver, peer, client, gauges, budget>>

\* The peer threads are joined, then the reaper is stopped.
Stop ==
    /\ rpc = "joining" /\ \A c \in Conns : writer[c] \in {"off", "gone"}
    /\ rpc' = "stopped" /\ expiries' = {}
    /\ UNCHANGED <<data, main, notification, acceptor, senders, stream, channel, receiver, peer, client,
                   gauges, budget>>

\* A full channel is skipped; only a disconnected one is dropped.
Keeps(c) == receiver[c]

\* One message of the notifier, under the lock on senders.
Notifier ==
    /\ notification # <<>> /\ rpc # "closing"
    /\ IF Head(notification) = "periodic"
       THEN /\ channel' = [c \in Conns |-> IF c \in Range(senders)
                                           THEN TrySend(channel, c, Update) ELSE channel[c]]
            /\ senders' = SelectSeq(senders, Keeps)
            /\ UNCHANGED acceptor
       ELSE acceptor' = Append(acceptor, None) /\ UNCHANGED <<channel, senders>>
    /\ notification' = Tail(notification)
    /\ UNCHANGED <<data, main, rpc, expiries, stream, receiver, peer, client, gauges, budget>>

\* RPC::notify, at the end of every turn of the main loop, and RPC::drop.
Notify ==
    /\ main = "loop" /\ Len(notification) < MaxNotifications
    /\ notification' = Append(notification, "periodic")
    /\ UNCHANGED <<data, main, acceptor, senders, rpc, expiries, stream, channel, receiver, peer,
                   client, gauges, budget>>

Drop ==
    /\ main = "loop" /\ main' = "dropped"
    /\ notification' = Append(notification, "exit")
    /\ UNCHANGED <<data, acceptor, senders, rpc, expiries, stream, channel, receiver, peer, client,
                   gauges, budget>>

BetweenMessages(c) == writer[c] = "recv"

\* A connection that ended no longer upgrades; any other is cut off, in a write or not.
Interrupts(c) == writer[c] # "gone"

\* The reaper shuts a connection down at its deadline, unless it ended before.
Reap(c) ==
    /\ c \in expiries /\ expiries' = expiries \ {c}
    /\ stream' = [stream EXCEPT ![c] = IF Interrupts(c) THEN "shut" ELSE @]
    /\ UNCHANGED <<data, main, notification, acceptor, senders, rpc, channel, receiver, peer, client,
                   gauges, budget>>

----------------------------------------------------------------------------
(* The reader thread: parse_requests, reader_thread *)

Ended(c) == stream[c] = "shut" \/ hungup[c]

\* A request line; or end of file, or a line that is too long, not UTF-8 or SSL.
Read(c) ==
    /\ reader[c] = "read"
    /\ \/ \E r \in Requests :
             /\ ~Ended(c) /\ Spend("requests")
             /\ line' = [line EXCEPT ![c] = r] /\ reader' = [reader EXCEPT ![c] = "send"]
       \/ /\ reader' = [reader EXCEPT ![c] = "done"] /\ UNCHANGED line
          /\ IF Ended(c) THEN UNCHANGED budget ELSE Spend("requests")
    /\ UNCHANGED <<data, server, stream, channel, receiver, writer, stale, out, known, client, gauges>>

\* tx.send waits for room, or fails when the writer dropped the receiver.
ReaderSend(c) ==
    /\ reader[c] \in {"send", "done"} /\ (receiver[c] => Room(c))
    /\ channel' = [channel EXCEPT ![c] =
                     TrySend(channel, c, IF reader[c] = "done" THEN Done ELSE line[c])]
    /\ reader' = [reader EXCEPT ![c] = IF @ = "done" THEN "gone"
                                       ELSE IF receiver[c] THEN "read" ELSE "done"]
    /\ line' = [line EXCEPT ![c] = None]
    /\ UNCHANGED <<data, server, stream, receiver, writer, stale, out, known, client, gauges, budget>>

----------------------------------------------------------------------------
(* The writer thread: handle_replies, update_subscriptions, handle_value, run *)

\* The writer takes the next message off its channel.
Takes(c, method) ==
    /\ writer[c] = "recv" /\ channel[c] # <<>> /\ Head(channel[c])[1] = method
    /\ channel' = [channel EXCEPT ![c] = Tail(@)]

Script(c) == Head(channel[c])[2]

Replies(c, m) ==
    out' = [out EXCEPT ![c] = <<m>>] /\ writer' = [writer EXCEPT ![c] = "write"]

NotReleased(c) == 0

Released(c) == Cardinality(Subscribed(known[c]))

\* handle_replies returns and drops the receiver; run updates the gauges, shuts the socket
\* down and waits for the reader.
Ends(c) ==
    /\ writer' = [writer EXCEPT ![c] = "join"]
    /\ receiver' = [receiver EXCEPT ![c] = FALSE]
    /\ out' = [out EXCEPT ![c] = <<>>] /\ stale' = [stale EXCEPT ![c] = {}]
    /\ clients' = clients - 1
    /\ subscriptions' = subscriptions - Released(c)
    /\ stream' = [stream EXCEPT ![c] = "shut"]

TakeDone(c) ==
    /\ Takes(c, "done") /\ Ends(c)
    /\ UNCHANGED <<data, server, reader, line, known, client, budget>>

\* handle_command, for a method that only reads, an unknown one or an invalid request.
Answer(c) ==
    /\ Takes(c, "other") /\ Replies(c, <<"answer">>)
    /\ UNCHANGED <<data, server, stream, receiver, reader, line, stale, known, client, gauges, budget>>

\* blockchain_headers_subscribe
HeadersSubscribe(c) ==
    /\ Takes(c, "headers")
    /\ known' = [known EXCEPT ![c].tip = tip]
    /\ Replies(c, <<"tip", tip>>)
    /\ UNCHANGED <<data, server, stream, receiver, reader, line, stale, client, gauges, budget>>

SubscriptionAllowed(c, s) ==
    \/ SubscriptionLimit = 0
    \/ Cardinality(Subscribed(known[c])) < SubscriptionLimit
    \/ s \in Subscribed(known[c])

\* blockchain_scripthash_subscribe: refused over either limit.
Subscribe(c) ==
    /\ Takes(c, "subscribe")
    /\ LET s == Script(c)
       IN  IF SubscriptionAllowed(c, s) /\ hist[s] <= TxsLimit
           THEN /\ known' = [known EXCEPT ![c].st[s] = hist[s]]
                /\ subscriptions' = subscriptions + Cardinality({s} \ Subscribed(known[c]))
                /\ Replies(c, <<"status", s, hist[s]>>)
           ELSE Replies(c, <<"error">>) /\ UNCHANGED <<known, subscriptions>>
    /\ UNCHANGED <<data, server, stream, receiver, reader, line, stale, client, clients, budget>>

Removed(c, s) == Cardinality({s} \cap Subscribed(known[c]))

\* blockchain_scripthash_unsubscribe
Unsubscribe(c) ==
    /\ Takes(c, "unsubscribe")
    /\ LET s == Script(c)
       IN  /\ known' = [known EXCEPT ![c].st[s] = None]
           /\ subscriptions' = subscriptions - Removed(c, s)
           /\ Replies(c, <<"status", s, None>>)
    /\ UNCHANGED <<data, server, stream, receiver, reader, line, stale, client, clients, budget>>

\* blockchain_transaction_broadcast and _broadcast_package: the daemon refuses the transaction,
\* or it is in the mempool and this connection's own channel is tried, full again perhaps.
Broadcast(c) ==
    /\ Takes(c, "broadcast")
    /\ \/ /\ Spend("changes") /\ hist' = [hist EXCEPT ![Script(c)] = @ + 1]
          /\ writer' = [writer EXCEPT ![c] = "broadcast"] /\ UNCHANGED out
       \/ Replies(c, <<"error">>) /\ UNCHANGED <<hist, budget>>
    /\ UNCHANGED <<tip, server, stream, receiver, reader, line, stale, known, client, gauges>>

\* try_send: the writer, the channel's only consumer, never waits for room in it.
UpdateSelf(c) ==
    /\ writer[c] = "broadcast" /\ Replies(c, <<"txid">>)
    /\ channel' = [channel EXCEPT ![c] = TrySend(channel, c, Update)]
    /\ UNCHANGED <<data, server, stream, receiver, reader, line, stale, known, client, gauges, budget>>

\* Where the writer goes with scripts left to refresh and notifications to write.
Onward(left, sends) == IF left # {} THEN "refresh" ELSE IF sends # <<>> THEN "write" ELSE "recv"

ChangedForWatchers(c) == known[c].tip \notin {None, tip} /\ Subscribed(known[c]) # {}

HeaderChanged(c) == known[c].tip \notin {None, tip}

\* update_subscriptions: the header, then every subscribed script in the map's order.
UpdateHeader(c) ==
    /\ Takes(c, "update")
    /\ stale' = [stale EXCEPT ![c] = Subscribed(known[c])]
    /\ IF HeaderChanged(c)
       THEN known' = [known EXCEPT ![c].tip = tip] /\ out' = [out EXCEPT ![c] = <<<<"tip", tip>>>>]
       ELSE UNCHANGED <<known, out>>
    /\ writer' = [writer EXCEPT ![c] = Onward(stale'[c], out'[c])]
    /\ UNCHANGED <<data, server, stream, receiver, reader, line, client, gauges, budget>>

UpdateStatus(c) ==
    /\ writer[c] = "refresh"
    /\ \E s \in stale[c] :
         IF hist[s] > TxsLimit THEN Ends(c) /\ UNCHANGED known
         ELSE /\ stale' = [stale EXCEPT ![c] = @ \ {s}]
              /\ known' = [known EXCEPT ![c].st[s] = hist[s]]
              /\ out' = [out EXCEPT ![c] = IF known[c].st[s] = hist[s] THEN @
                                           ELSE Append(@, <<"status", s, hist[s]>>)]
              /\ writer' = [writer EXCEPT ![c] = Onward(stale'[c], out'[c])]
              /\ UNCHANGED <<receiver, gauges, stream>>
    /\ UNCHANGED <<data, server, channel, reader, line, client, budget>>

\* The client's picture after it reads message m.
Told(v, m) ==
    CASE m[1] = "tip" -> [v EXCEPT !.tip = m[2]]
      [] m[1] = "status" -> [v EXCEPT !.st[m[2]] = m[3]]
      [] OTHER -> v

\* write_to_client for each message: bytes to a client that is gone are lost or refused;
\* a client that does not read blocks the write.
Write(c) ==
    /\ writer[c] = "write"
    /\ \/ /\ stream[c] = "open" /\ ~stalled[c]
          /\ view' = [view EXCEPT ![c] = IF hungup[c] THEN @ ELSE Told(@, Head(out[c]))]
          /\ out' = [out EXCEPT ![c] = Tail(@)]
          /\ writer' = [writer EXCEPT ![c] = Onward({}, out'[c])]
          /\ UNCHANGED <<stale, receiver, gauges, stream>>
       \/ Ended(c) /\ Ends(c) /\ UNCHANGED view
    /\ UNCHANGED <<data, server, channel, reader, line, known, stalled, hungup, budget>>

DropsResponse(c) ==
    /\ writer[c] = "write" /\ stream[c] = "open" /\ stalled[c]
    /\ out' = [out EXCEPT ![c] = <<>>] /\ writer' = [writer EXCEPT ![c] = "recv"]
    /\ UNCHANGED <<data, server, stream, channel, receiver, reader, line, stale, known, client,
                   gauges, budget>>

\* ClientWriter::expired: the response missed its deadline, the socket is shut down.
WriteExpires(c) ==
    /\ "write_timeout" \in budget.deadlines
    /\ writer[c] = "write" /\ stream[c] = "open" /\ stalled[c] /\ Ends(c)
    /\ UNCHANGED <<data, server, channel, reader, line, known, client, budget>>

Join(c) ==
    /\ writer[c] = "join" /\ reader[c] = "gone"
    /\ writer' = [writer EXCEPT ![c] = "gone"]
    /\ known' = [known EXCEPT ![c] = Nothing] /\ view' = [view EXCEPT ![c] = Nothing]
    /\ channel' = [channel EXCEPT ![c] = <<>>]
    /\ stalled' = [stalled EXCEPT ![c] = FALSE] /\ hungup' = [hungup EXCEPT ![c] = FALSE]
    /\ UNCHANGED <<data, server, stream, receiver, reader, line, stale, out, gauges, budget>>

----------------------------------------------------------------------------
Environment ==
    \/ NewTip
    \/ \E s \in Scripts : HistoryChange(s)
    \/ \E c \in Conns : HangUp(c) \/ StallOrResume(c) \/ Accept(c)

Writer(c) ==
    \/ TakeDone(c) \/ Answer(c) \/ HeadersSubscribe(c) \/ Subscribe(c) \/ Unsubscribe(c) \/ Broadcast(c)
    \/ UpdateSelf(c) \/ UpdateHeader(c) \/ UpdateStatus(c) \/ Write(c) \/ Join(c)

Server == Serve \/ StopAccepting \/ SendDone \/ Stop

Finished == rpc = "stopped" /\ UNCHANGED vars

Next ==
    \/ Environment \/ Notify \/ Drop \/ Notifier \/ Server \/ Finished
    \/ \E c \in Conns : Reap(c) \/ Read(c) \/ ReaderSend(c) \/ Writer(c) \/ WriteExpires(c)

\* Every thread runs; time passes, so deadlines are met; the main loop notifies every turn.
\* Nothing is assumed of clients, nor that RPC is dropped.
Fairness ==
    /\ WF_vars(Notify) /\ WF_vars(Notifier) /\ WF_vars(Server)
    /\ \A c \in Conns :
         /\ WF_vars(Reap(c)) /\ WF_vars(Writer(c) \/ WriteExpires(c))
         /\ WF_vars(Ended(c) /\ Read(c)) /\ WF_vars(ReaderSend(c))

Spec == Init /\ [][Next]_vars /\ Fairness

----------------------------------------------------------------------------
Status == Nat \cup {None}
Picture == [tip : Status, st : [Scripts -> Status]]
Messages == Requests \cup {Update, Done}

TypeOK ==
    /\ tip \in Nat /\ hist \in [Scripts -> Nat]
    /\ main \in {"loop", "dropped"} /\ notification \in Seq({"periodic", "exit"})
    /\ acceptor \in Seq(Conns \cup {None}) /\ senders \in Seq(Conns)
    /\ rpc \in {"accept", "closing", "joining", "stopped"} /\ expiries \subseteq Conns
    /\ stream \in [Conns -> {"none", "open", "shut"}]
    /\ channel \in [Conns -> Seq(Messages)] /\ \A c \in Conns : Len(channel[c]) <= ChannelBound
    /\ receiver \in [Conns -> BOOLEAN]
    /\ reader \in [Conns -> {"off", "read", "send", "done", "gone"}]
    /\ line \in [Conns -> Requests \cup {None}]
    /\ writer \in [Conns -> {"off", "recv", "broadcast", "refresh", "write", "join", "gone"}]
    /\ stale \in [Conns -> SUBSET Scripts]
    /\ known \in [Conns -> Picture] /\ view \in [Conns -> Picture]
    /\ stalled \in [Conns -> BOOLEAN] /\ hungup \in [Conns -> BOOLEAN]
    /\ clients \in Nat /\ subscriptions \in Nat

\* Between two messages, what a connection records as its client's header and statuses is what
\* the client was told: update_subscriptions records a status before it is written, so every
\* write that fails or expires must end the connection.
RecordIsTold ==
    \A c \in Conns : writer[c] = "recv" /\ stream[c] = "open" /\ ~hungup[c] => view[c] = known[c]

Running(c) == writer[c] \notin {"off", "join", "gone"}

\* The gauges count the connections that run and their subscriptions, whatever order a
\* connection's threads, the reaper and the server end it in.
GaugesExact ==
    /\ clients = Cardinality({c \in Conns : Running(c)})
    /\ subscriptions = Cardinality({cs \in Conns \X Scripts :
                                       Running(cs[1]) /\ cs[2] \in Subscribed(known[cs[1]])})

\* A connection that still takes messages is on the list that Done is sent to at shutdown: the
\* notifier drops a sender only after its receiver.
LiveAreListed ==
    rpc = "accept" => \A c \in Conns : receiver[c] => c \in Range(senders)

\* Once RPC is dropped the server stops, however the clients behave: a client that does not
\* read holds its writer, its full channel and the blocking send of Done only to a deadline.
ShutdownCompletes == main = "dropped" ~> rpc = "stopped"

Attentive(c) == Running(c) /\ stream[c] = "open" /\ ~hungup[c] /\ ~stalled[c]
Current(c) ==
    /\ view[c].tip \in {None, tip}
    /\ \A s \in Subscribed(view[c]) : view[c].st[s] = hist[s]

\* A client that keeps reading is told every change in the end, though the notifier skips
\* full channels and broadcasts skip them too.
SubscribersCaughtUp == \A c \in Conns : <>[]Attentive(c) => []<>Current(c)
==============================================================================

------------------------------- MODULE Fetcher -------------------------------
(***************************************************************************)
(* The threads that fetch blocks for an update (new_index/fetch.rs), each  *)
(* joined to the next by a bounded channel: from bitcoind one thread and   *)
(* the indexer; from blk*.dat files a reader, a parser, a fetcher and the  *)
(* indexer.  Fetcher::map takes what the previous thread sends, drops the  *)
(* receiver and joins the thread.                                          *)
(***************************************************************************)
EXTENDS BlkFile, FiniteSets

CONSTANTS
    Files,              \* contents of the blk*.dat files: sequences of blobs
    NewHeaders,         \* the blocks that are looked for in them
    Batches             \* what is asked of bitcoind: sequences of sequences of blocks

VARIABLES
    input,              \* the blobs or the batches of this update
    parsing,            \* whether they are blobs
    wanted,             \* new_headers
    entries,            \* entry_map
    chan,               \* per thread: the channel to the next one
    hold,               \* per thread: the item it is about to send, in a sequence
    gone,               \* per thread: the receiver of its channel is dropped
    state,              \* per thread: "run", "join", "ok", "err", "panic"
    errs,               \* threads whose own work failed
    fetched             \* the blocks handed to the indexer

vars == <<input, parsing, wanted, entries, chan, hold, gone, state, errs, fetched>>

Threads == 1..(IF parsing THEN 3 ELSE 1)
Indexer == Cardinality(Threads) + 1
Capacity == IF parsing THEN 2 ELSE 1
Returned(t) == state[t] \in {"ok", "err", "panic"}

Init ==
    /\ parsing \in BOOLEAN
    /\ \/ parsing /\ input \in Files /\ wanted \in NewHeaders
       \/ ~parsing /\ input \in Batches /\ wanted = UNION {ToSet(input[i]) : i \in DOMAIN input}
    /\ entries = wanted
    /\ chan = [t \in Threads |-> <<>>] /\ hold = [t \in Threads |-> <<>>]
    /\ gone = [t \in Threads |-> FALSE]
    /\ state = [t \in Threads \cup {Indexer} |-> "run"] /\ errs = {} /\ fetched = <<>>

Ready(t) == state[t] = "run" /\ (t \in Threads => hold[t] = <<>>)

Fixed == UNCHANGED <<parsing, wanted>>

KeepsReceiver(t) == gone

\* The end of map's loop: the receiver is dropped, then the previous thread is joined.
Drops(t) == [gone EXCEPT ![t - 1] = TRUE]

Leaves(t, to) ==
    /\ state' = [state EXCEPT ![t] = to]
    /\ gone' = IF to = "join" THEN Drops(t) ELSE IF t = 1 THEN gone ELSE [gone EXCEPT ![t - 1] = TRUE]

\* The first thread: getblocks of a batch, or the contents of a file.
Produce ==
    /\ Ready(1) /\ Fixed /\ UNCHANGED <<entries, chan, errs, fetched>>
    /\ \/ /\ input # <<>> /\ hold' = [hold EXCEPT ![1] = <<Head(input)>>] /\ input' = Tail(input)
          /\ UNCHANGED <<gone, state>>
       \/ input # <<>> /\ Leaves(1, "err") /\ UNCHANGED <<hold, input>>
       \/ input = <<>> /\ Leaves(1, "ok") /\ UNCHANGED <<hold, input>>

\* send: it blocks while the channel is full and fails when its receiver is gone.
Send(t) ==
    /\ state[t] = "run" /\ hold[t] # <<>> /\ Fixed /\ UNCHANGED <<input, entries, fetched>>
    /\ hold' = [hold EXCEPT ![t] = <<>>]
    /\ \/ /\ gone[t] /\ Leaves(t, IF t = 1 THEN "err" ELSE "join") /\ errs' = errs \cup {t}
          /\ UNCHANGED chan
       \/ /\ ~gone[t] /\ Len(chan[t]) < Capacity
          /\ chan' = [chan EXCEPT ![t] = @ \o hold[t]] /\ UNCHANGED <<gone, state, errs>>

Fails(t) ==
    /\ Leaves(t, "join") /\ errs' = errs \cup {t}
    /\ UNCHANGED <<hold, entries, fetched>>

\* entry_map.remove: a block that is stored twice is taken once.
Taken(blocks) ==
    FoldLeft(LAMBDA taken, b : IF b \in entries \ ToSet(taken) THEN Append(taken, b) ELSE taken, <<>>, blocks)

Hands(t, item) == hold' = [hold EXCEPT ![t] = <<item>>] /\ UNCHANGED <<gone, state, errs, fetched>>

\* A thread's work on one item: it is parsed, filtered or indexed, fails, or panics.
Work(t) ==
    /\ t # 1 /\ Ready(t) /\ chan[t - 1] # <<>> /\ Fixed /\ UNCHANGED input
    /\ chan' = [chan EXCEPT ![t - 1] = Tail(@)]
    /\ LET item == Head(chan[t - 1])
       IN  \/ /\ t = 2 /\ t # Indexer
              /\ IF Bad \in ToSet(ParseBlocks(item)) THEN Fails(t)
                 ELSE Hands(t, ParseBlocks(item)) /\ UNCHANGED entries
           \/ /\ t = 3 /\ t # Indexer
              /\ Hands(t, Taken(item)) /\ entries' = entries \ ToSet(item)
           \/ /\ t = Indexer /\ fetched' = fetched \o item
              /\ entries' = IF parsing THEN entries ELSE entries \ ToSet(item)
              /\ UNCHANGED <<hold, gone, state, errs>>
           \/ t # 3 /\ Fails(t)
           \/ /\ t # Indexer /\ Leaves(t, "panic") /\ UNCHANGED <<hold, entries, errs, fetched>>

\* The channel is empty and its sender dropped.
Drained(t) ==
    /\ t # 1 /\ Ready(t) /\ chan[t - 1] = <<>> /\ Returned(t - 1)
    /\ Leaves(t, "join") /\ Fixed /\ UNCHANGED <<input, entries, chan, hold, errs, fetched>>

Uncounted(t) == FALSE

\* The end of blkfiles_fetcher: entries whose block was in no file.
Missing(t) == t = 3 /\ entries # {}

Joined(t) == Returned(t - 1)

Join(t) ==
    /\ t # 1 /\ state[t] = "join" /\ Joined(t)
    /\ state' = [state EXCEPT ![t] = IF t \in errs \/ state[t - 1] # "ok" \/ (t # Indexer /\ Missing(t))
                                     THEN "err" ELSE "ok"]
    /\ Fixed /\ UNCHANGED <<input, entries, chan, hold, gone, errs, fetched>>

Runs(t) == (t = 1 /\ Produce) \/ (t \in Threads /\ Send(t)) \/ Work(t) \/ Drained(t) \/ Join(t)

Next == \E t \in Threads \cup {Indexer} : Runs(t)

Spec == Init /\ [][Next]_vars /\ \A t \in 1..4 : WF_vars(t \in DOMAIN state /\ Runs(t))

----------------------------------------------------------------------------
\* An update whose fetch succeeds has been handed every new block, each once.
FetchedAll ==
    state[Indexer] = "ok" => ToSet(fetched) = wanted /\ Len(fetched) = Cardinality(wanted)

\* No thread of a fetch is left running when it returns, unless one panicked and abandoned its own.
NoneLeftBehind ==
    Returned(Indexer) /\ (\A t \in Threads : state[t] # "panic") => \A t \in Threads : Returned(t)

\* Every thread ends, whichever of them fails and however full the channels are.
AllEnd == <>(\A t \in DOMAIN state : Returned(t))

\* Nothing but blocks of a file comes out of it, in their order, and all of those that are there as a
\* whole when bitcoind failed to write none.
ParsesBlocks == parsing => \A i \in DOMAIN input :
    LET blob == input[i]
        found == SelectSeq(ParseBlocks(blob), LAMBDA b : b # Bad)
    IN  /\ IsPrefix(found, WholeBlocks(blob))
        /\ (\A at \in 1..(Len(blob) - 2) : blob[at] = Magic => Head(blob[at + 2]) = "version") => found = WholeBlocks(blob)
==============================================================================

------------------------------ MODULE Download ------------------------------
(***************************************************************************)
(* What an update asks of bitcoind (daemon.rs): the headers up to its best *)
(* block, then blocks.  The first update asks for the hash at each height, *)
(* in chunks and in parallel, while bitcoind may reorganise; later ones    *)
(* walk back from the best block to an indexed one.                        *)
(***************************************************************************)
EXTENDS Integers, SequencesExt

CONSTANTS
    Parent,             \* prev_blockhash of every block
    Origin,             \* DEFAULT_BLOCKHASH, the parent of genesis
    Chunk,              \* CHUNK_SIZE
    MaxAttempts,        \* MAX_ATTEMPTS
    MaxSwitches         \* bound on the reorganisations

VARIABLES
    best,               \* the tip of bitcoind's active chain
    switches,
    phase, tip,
    indexed,            \* the headers in the index
    cursor,             \* the hash that the walk is at
    hashes,             \* per height of the chunk: the reply to getblockhash
    headers, blocks, attempts

vars == <<best, switches, phase, tip, indexed, cursor, hashes, headers, blocks, attempts>>

HeadersOf[b \in DOMAIN Parent \cup {Origin}] ==
    IF b = Origin THEN <<>> ELSE Append(HeadersOf[Parent[b]], b)

NoHash == [h \in {} |-> Origin]

Init ==
    /\ best \in DOMAIN Parent /\ switches = 0 /\ phase = "idle" /\ tip = Origin
    /\ indexed \in {ToSet(HeadersOf[b]) : b \in DOMAIN HeadersOf}
    /\ cursor = Origin /\ hashes = NoHash /\ headers = <<>> /\ blocks = <<>> /\ attempts = 0

Switch ==
    /\ switches < MaxSwitches /\ switches' = switches + 1 /\ best' \in DOMAIN Parent \ {best}
    /\ UNCHANGED <<phase, tip, indexed, cursor, hashes, headers, blocks, attempts>>

Ends == phase' = "failed" /\ UNCHANGED <<tip, cursor, hashes, headers, blocks, attempts>>

Local == UNCHANGED <<best, switches, indexed>>

\* getbestblockhash, and getblockheight of it.
Begin ==
    /\ phase = "idle" /\ tip' = best /\ cursor' = best
    /\ phase' = IF indexed = {} THEN "all" ELSE "walk"
    /\ Local /\ UNCHANGED <<hashes, headers, blocks, attempts>>

TipHeight == Len(HeadersOf[tip])

Heights == Len(headers) + 1 .. (IF Len(headers) + Chunk < TipHeight THEN Len(headers) + Chunk ELSE TipHeight)

\* One getblockhash of a chunk, answered from the chain active by then; a height above it is an error.
AskHash(h) ==
    /\ phase = "all" /\ h \in Heights \ DOMAIN hashes /\ Local
    /\ IF h > Len(HeadersOf[best]) THEN Ends
       ELSE /\ hashes' = [i \in DOMAIN hashes \cup {h} |-> IF i = h THEN HeadersOf[best][h] ELSE hashes[i]]
            /\ UNCHANGED <<phase, tip, cursor, headers, blocks, attempts>>

\* The parallel getblockheader of the chunk: a header never changes.
ChunkHeaders ==
    /\ phase = "all" /\ Heights # {} /\ DOMAIN hashes = Heights /\ Local
    /\ headers' = headers \o [i \in 1..Cardinality(Heights) |-> hashes[Len(headers) + i]]
    /\ hashes' = NoHash
    /\ UNCHANGED <<phase, tip, cursor, blocks, attempts>>

EndsAtTip == Last(headers) = tip

Contiguous ==
    /\ \A i \in DOMAIN headers : Parent[headers[i]] = (IF i = 1 THEN Origin ELSE headers[i - 1])
    /\ Last(headers) = tip

AllHeaders ==
    /\ phase = "all" /\ Heights = {} /\ Local
    /\ IF Contiguous THEN phase' = "blocks" /\ UNCHANGED <<tip, cursor, hashes, headers, blocks, attempts>>
       ELSE Ends

\* get_new_headers, one getblockheader.
WalkBack ==
    /\ phase = "walk" /\ Local
    /\ \/ Ends
       \/ /\ cursor \in indexed \cup {Origin} /\ phase' = "blocks"
          /\ UNCHANGED <<tip, cursor, hashes, headers, blocks, attempts>>
       \/ /\ cursor \notin indexed \cup {Origin}
          /\ cursor' = Parent[cursor] /\ headers' = <<cursor>> \o headers
          /\ UNCHANGED <<phase, tip, hashes, blocks, attempts>>

\* Each block is the one that was asked for.
AsAsked(replies) == replies = headers

\* getblocks: the replies of one attempt, in the order of the requests.
GetBlocks ==
    /\ phase = "blocks" /\ Local /\ UNCHANGED <<tip, cursor, hashes, headers>>
    /\ attempts' = attempts + 1
    /\ \E replies \in {headers} \cup {[headers EXCEPT ![i] = tip] : i \in DOMAIN headers} :
          IF AsAsked(replies) THEN phase' = "done" /\ blocks' = replies
          ELSE phase' = "failed" /\ UNCHANGED blocks

Retries == attempts + 1 < MaxAttempts

\* An attempt that bitcoind cannot answer yet is made again; another error ends the call.
GetBlocksFails ==
    /\ phase = "blocks" /\ Local /\ attempts' = attempts + 1 /\ UNCHANGED <<tip, cursor, hashes, headers, blocks>>
    /\ phase' \in {"failed"} \cup (IF Retries THEN {"blocks"} ELSE {})

Steps == \/ Begin \/ \E h \in Heights : AskHash(h)
         \/ ChunkHeaders \/ AllHeaders \/ WalkBack \/ GetBlocks \/ GetBlocksFails

Next == Switch \/ Steps

Spec == Init /\ [][Next]_vars /\ WF_vars(Steps)

----------------------------------------------------------------------------
\* Headers that are accepted are the chain of the tip above what is indexed, whatever the
\* reorganisations during the download.
HeadersExact ==
    phase \in {"blocks", "done"} => headers = SelectSeq(HeadersOf[tip], LAMBDA b : b \notin indexed)

\* Blocks that are returned are those of the headers, in their order, and bitcoind is asked at most
\* MAX_ATTEMPTS times.
BlocksExact == attempts <= MaxAttempts /\ (phase = "done" => blocks = headers)
==============================================================================

------------------------------- MODULE BlkFile -------------------------------
(***************************************************************************)
(* The contents of a blk*.dat file and what parse_blocks (new_index/       *)
(* fetch.rs) finds in it.  A file is a sequence of 4-byte words: a block   *)
(* is the network's magic, the size of what follows, and the block, whose  *)
(* first word is its version.                                              *)
(***************************************************************************)
EXTENDS Integers, SequencesExt

Magic == <<"magic">>
Prefix(k) == <<"size", k>>
Version(b) == <<"version", b>>
Data == <<"data">>
Zero == <<"zero">>

\* What bitcoind writes: a block of k words, a block of which only the prefix was written, and the
\* space reserved ahead of the next one.
Written(b, k) == <<Magic, Prefix(k), Version(b)>> \o [i \in 1..(k - 1) |-> Data]
Unwritten(k) == <<Magic, Prefix(k)>>
Reserved(k) == [i \in 1..k |-> Zero]

\* An error: no block size, or a block that cannot be deserialized.
Bad == 0

\* The body that starts at `start' ends within the file.
Fits(blob, start, size) == start + size <= Len(blob) + 1

\* parse_blocks: the blocks, followed by Bad when one ends the parsing.
ParseBlocks(blob) ==
    LET From[at \in 1..(Len(blob) + 1)] ==
            IF at > Len(blob) THEN <<>>
            ELSE IF blob[at] # Magic THEN From[at + 1]
            ELSE IF at = Len(blob) THEN <<Bad>>
            ELSE LET start == at + 2
                     size == blob[at + 1][2]
                 IN  IF ~Fits(blob, start, size) THEN <<>>
                     ELSE IF blob[start] = Magic THEN From[start]
                     ELSE IF Head(blob[start]) # "version" THEN <<Bad>>
                     ELSE <<blob[start][2]>> \o From[start + size]
    IN  From[1]

\* The reference: the blocks that are there as a whole.
WholeBlocks(blob) ==
    LET At == {at \in 1..(Len(blob) - 2) :
                  /\ blob[at] = Magic /\ Head(blob[at + 2]) = "version"
                  /\ at + 1 + blob[at + 1][2] <= Len(blob)}
    IN  [i \in 1..Cardinality(At) |-> blob[SetToSortSeq(At, <)[i] + 2][2]]
==============================================================================

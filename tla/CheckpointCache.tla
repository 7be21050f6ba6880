--------------------------- MODULE CheckpointCache ---------------------------
(***************************************************************************)
(* Checkpoint proofs (util/electrum_merkle.rs, and the two header methods  *)
(* of electrum/server.rs): connections prove a header against the tree of  *)
(* all headers up to a checkpoint, share built trees in a bounded cache,   *)
(* and build missing ones under permits, while the chain reorganizes.      *)
(***************************************************************************)
EXTENDS Merkle, FiniteSets, FiniteSetsExt

CONSTANTS
    Threads,            \* writer threads of connections
    Chains,             \* header chains the indexer publishes, sequences of block names
    Requests,           \* [height, cp] with a checkpoint above 0; others have no proof
    MaxLeaves,          \* bound on the leaves of the trees compared
    MaxEntries,         \* MAX_CACHE_ENTRIES
    TreeCapacity,           \* capacity_bytes, in hashes
    Limits,             \* values of checkpoint_proof_concurrency_limit
    MaxProofs,          \* bound on the requests
    MaxReorgs,          \* bound on the changes of the chain
    Nil

VARIABLES
    limit,              \* the configured concurrency limit
    chain, reorgs,      \* the published headers
    entries,            \* cached trees, [height, hash, levels]
    waiters, holder, lastBuilt,     \* per height: BuildSlot, and who holds its lock
    rebuilds, buildBytes,           \* inflight_rebuilds, inflight_build_bytes
    step, asked,        \* per thread: the step and the request
    cpHash, sibling,    \* the snapshot
    tree, best,         \* the tree obtained, current_best_height
    answer,             \* what was served last, [header, index, branch, root, leaves]
    proofs

slots == <<waiters, holder, lastBuilt>>
permits == <<rebuilds, buildBytes>>
own == <<cpHash, sibling, tree, best>>
vars == <<limit, chain, reorgs, entries, slots, permits, step, asked, own, answer, proofs>>

Heights == {r.cp : r \in Requests}

BestHeight == Len(chain) - 1
HeaderAt(height) == chain[height + 1]
Leaf(name) == <<name>>
LeavesUpTo(cp) == [i \in 1..(cp + 1) |-> Leaf(chain[i])]

TreeSize(levels) == MapThenSumSet(LAMBDA k : Len(levels[k]), DOMAIN levels)
Bytes(trees) == MapThenSumSet(LAMBDA e : TreeSize(e.levels), trees)
Retained(h) == IF lastBuilt[h] = Nil THEN 0 ELSE TreeSize(lastBuilt[h].levels)

\* estimated_peak_build_bytes
PeakBytes(cp) == 3 * (cp + 1)

CacheCapacity == TreeCapacity \div 2

Init ==
    /\ limit \in Limits /\ chain \in Chains /\ reorgs = 0 /\ entries = {}
    /\ waiters = [h \in Heights |-> 0] /\ holder = [h \in Heights |-> Nil]
    /\ lastBuilt = [h \in Heights |-> Nil] /\ rebuilds = 0 /\ buildBytes = 0
    /\ step = [t \in Threads |-> "idle"] /\ asked = [t \in Threads |-> Nil]
    /\ cpHash = [t \in Threads |-> Nil] /\ sibling = [t \in Threads |-> Nil]
    /\ tree = [t \in Threads |-> Nil] /\ best = [t \in Threads |-> 0]
    /\ answer = [t \in Threads |-> Nil] /\ proofs = 0

\* The indexer publishes another chain.
Publish ==
    /\ reorgs < MaxReorgs /\ reorgs' = reorgs + 1
    /\ chain' \in Chains \ {chain}
    /\ UNCHANGED <<limit, entries, slots, permits, step, asked, own, answer, proofs>>

----------------------------------------------------------------------------
Cp(t) == asked[t].cp
SiblingHeight(r) == Min({Other(r.height), r.cp})
Goes(t, to) == step' = [step EXCEPT ![t] = to]

\* The request and its snapshot of the checkpoint's hash and the proven header's sibling.
Ask(t, r) ==
    /\ step[t] = "idle" /\ proofs < MaxProofs /\ proofs' = proofs + 1
    /\ r.cp >= r.height /\ BestHeight >= r.cp
    /\ asked' = [asked EXCEPT ![t] = r] /\ Goes(t, "lookup")
    /\ cpHash' = [cpHash EXCEPT ![t] = HeaderAt(r.cp)]
    /\ sibling' = [sibling EXCEPT ![t] = Leaf(HeaderAt(SiblingHeight(r)))]
    /\ UNCHANGED <<limit, chain, reorgs, entries, slots, permits, tree, best, answer>>

\* get_valid
Valid(t) == {e \in entries : e.height = Cp(t) /\ e.hash = cpHash[t]}

Takes(t, e) == tree' = [tree EXCEPT ![t] = [hash |-> e.hash, levels |-> e.levels]]

\* get_or_build: the cache, else the build slot of the height.
Lookup(t) ==
    /\ step[t] = "lookup"
    /\ \/ \E e \in Valid(t) : Takes(t, e) /\ Goes(t, "reply") /\ UNCHANGED slots
       \/ /\ Valid(t) = {} /\ Goes(t, "wait")
          /\ waiters' = [waiters EXCEPT ![Cp(t)] = @ + 1]
          /\ UNCHANGED <<tree, holder, lastBuilt>>
    /\ UNCHANGED <<limit, chain, reorgs, entries, permits, asked, cpHash, sibling, best, answer, proofs>>

\* The tree that the previous holder of the lock built, if it is the one wanted.
Built(t) == lastBuilt[Cp(t)] # Nil /\ lastBuilt[Cp(t)].hash = cpHash[t]

Acquire(t) ==
    /\ step[t] = "wait" /\ holder[Cp(t)] = Nil
    /\ holder' = [holder EXCEPT ![Cp(t)] = t]
    /\ CASE Valid(t) # {} -> (\E e \in Valid(t) : Takes(t, e)) /\ Goes(t, "unlock")
         [] Valid(t) = {} /\ Built(t) -> Takes(t, lastBuilt[Cp(t)]) /\ Goes(t, "unlock")
         [] OTHER -> Goes(t, "permit") /\ UNCHANGED tree
    /\ UNCHANGED <<limit, chain, reorgs, entries, waiters, lastBuilt, permits, asked, cpHash, sibling, best,
                   answer, proofs>>

\* RebuildPermit::acquire
Permit(t) ==
    /\ step[t] = "permit"
    /\ IF rebuilds >= limit THEN Goes(t, "unlock") /\ UNCHANGED rebuilds
       ELSE Goes(t, "memory") /\ rebuilds' = rebuilds + 1
    /\ UNCHANGED <<limit, chain, reorgs, entries, slots, buildBytes, asked, own, answer, proofs>>

TooLarge(cp) == buildBytes > 0 /\ buildBytes + PeakBytes(cp) > TreeCapacity - Bytes(entries)

\* MemoryPermit::acquire, with the cache locked.
Memory(t) ==
    /\ step[t] = "memory"
    /\ IF TooLarge(Cp(t)) THEN Goes(t, "unlock") /\ rebuilds' = rebuilds - 1 /\ UNCHANGED buildBytes
       ELSE Goes(t, "build") /\ buildBytes' = buildBytes + PeakBytes(Cp(t)) /\ UNCHANGED rebuilds
    /\ UNCHANGED <<limit, chain, reorgs, entries, slots, asked, own, answer, proofs>>

\* The checkpoint may have left the chain since the snapshot, or been replaced.
Build(t) ==
    /\ step[t] = "build"
    /\ IF BestHeight < Cp(t)
       THEN /\ Goes(t, "unlock") /\ rebuilds' = rebuilds - 1
            /\ buildBytes' = buildBytes - PeakBytes(Cp(t)) /\ UNCHANGED <<cpHash, sibling, tree>>
       ELSE LET leaves == LeavesUpTo(Cp(t))
            IN  /\ Goes(t, "best")
                /\ cpHash' = [cpHash EXCEPT ![t] = HeaderAt(Cp(t))]
                /\ sibling' = [sibling EXCEPT ![t] = leaves[SiblingHeight(asked[t]) + 1]]
                /\ Takes(t, [hash |-> HeaderAt(Cp(t)), levels |-> LevelsAbove(leaves)])
                /\ UNCHANGED permits
    /\ UNCHANGED <<limit, chain, reorgs, entries, slots, asked, best, answer, proofs>>

ReadBest(t) ==
    /\ step[t] = "best" /\ Goes(t, "insert") /\ best' = [best EXCEPT ![t] = BestHeight]
    /\ UNCHANGED <<limit, chain, reorgs, entries, slots, permits, asked, cpHash, sibling, tree, answer, proofs>>

\* The k entries of the least heights.
Lowest(trees, k) == {e \in trees : Cardinality({o \in trees : o.height < e.height}) < k}

HasRoom(trees, size) == Bytes(trees) + size <= CacheCapacity /\ Cardinality(trees) < MaxEntries

\* insert: lower checkpoints make room, higher ones never do, and none does in vain.
Inserted(cp, upTo, new) ==
    LET kept == {e \in entries : e.height # cp /\ e.height <= upTo}
        lower == {e \in kept : e.height < cp}
        enough == {k \in 0..Cardinality(lower) : HasRoom(kept \ Lowest(lower, k), TreeSize(new.levels))}
    IN  CASE TreeSize(new.levels) > CacheCapacity -> entries
          [] cp > upTo \/ enough = {} -> kept
          [] OTHER -> (kept \ Lowest(lower, Min(enough)))
                        \cup {[height |-> cp, hash |-> new.hash, levels |-> new.levels]}

Insert(t) ==
    /\ step[t] = "insert" /\ Goes(t, "retain")
    /\ entries' = Inserted(Cp(t), best[t], tree[t])
    /\ UNCHANGED <<limit, chain, reorgs, slots, permits, asked, own, answer, proofs>>

Charge(t) == TreeSize(tree[t].levels)

\* The tree is kept for the threads behind this one, and charged; the permits, then the lock.
Retain(t) ==
    /\ step[t] = "retain" /\ Goes(t, "leave")
    /\ lastBuilt' = [lastBuilt EXCEPT ![Cp(t)] = tree[t]]
    /\ buildBytes' = buildBytes + Charge(t) - Retained(Cp(t)) - PeakBytes(Cp(t))
    /\ rebuilds' = rebuilds - 1
    /\ holder' = [holder EXCEPT ![Cp(t)] = Nil]
    /\ UNCHANGED <<limit, chain, reorgs, entries, waiters, asked, own, answer, proofs>>

\* It returns early, with a tree or an error.
Unlock(t) ==
    /\ step[t] = "unlock" /\ Goes(t, "leave")
    /\ holder' = [holder EXCEPT ![Cp(t)] = Nil]
    /\ UNCHANGED <<limit, chain, reorgs, entries, waiters, lastBuilt, permits, asked, own, answer, proofs>>

Forgotten(t) ==
    /\ asked' = [asked EXCEPT ![t] = Nil] /\ tree' = [tree EXCEPT ![t] = Nil]
    /\ cpHash' = [cpHash EXCEPT ![t] = Nil] /\ sibling' = [sibling EXCEPT ![t] = Nil]
    /\ best' = [best EXCEPT ![t] = 0]

NeverLast(h) == FALSE

LastOut(h) == waiters[h] = 1

\* BuildSlotGuard::drop: the last one out removes the slot and the tree it retains.
Leave(t) ==
    /\ step[t] = "leave"
    /\ LET h == Cp(t)
       IN  /\ waiters' = [waiters EXCEPT ![h] = @ - 1]
           /\ lastBuilt' = [lastBuilt EXCEPT ![h] = IF LastOut(h) THEN Nil ELSE @]
           /\ buildBytes' = buildBytes - (IF waiters[h] = 1 THEN Retained(h) ELSE 0)
    /\ IF tree[t] = Nil THEN Forgotten(t) /\ Goes(t, "idle")
       ELSE Goes(t, "reply") /\ UNCHANGED <<asked, own>>
    /\ UNCHANGED <<limit, chain, reorgs, entries, holder, rebuilds, answer, proofs>>

StillThere(t) == BestHeight >= asked[t].height

\* "chain changed while creating checkpoint merkle proof"
SameCheckpoint(t) == BestHeight >= Cp(t) /\ HeaderAt(Cp(t)) = tree[t].hash

\* blockchain_block_header, blockchain_block_headers: checked and read from one view of the headers.
Reply(t) ==
    /\ step[t] = "reply"
    /\ IF SameCheckpoint(t)
       THEN /\ answer' = [answer EXCEPT ![t] =
                 [leaf |-> Leaf(HeaderAt(asked[t].height)), index |-> asked[t].height,
                  branch |-> ExtractBranch(tree[t].levels, sibling[t], asked[t].height),
                  root |-> ExtractRoot(tree[t].levels), leaves |-> LeavesUpTo(Cp(t))]]
            /\ Goes(t, "answered")
       ELSE Goes(t, "idle") /\ UNCHANGED answer
    /\ Forgotten(t)
    /\ UNCHANGED <<limit, chain, reorgs, entries, slots, permits, proofs>>

Answered(t) ==
    /\ step[t] = "answered" /\ Goes(t, "idle")
    /\ answer' = [answer EXCEPT ![t] = Nil]
    /\ UNCHANGED <<limit, chain, reorgs, entries, slots, permits, asked, own, proofs>>

Works(t) ==
    \/ Lookup(t) \/ Acquire(t) \/ Permit(t) \/ Memory(t) \/ Build(t) \/ ReadBest(t) \/ Insert(t)
    \/ Retain(t) \/ Unlock(t) \/ Leave(t) \/ Reply(t) \/ Answered(t)

Next ==
    \/ Publish
    \/ \E t \in Threads : Works(t) \/ \E r \in Requests : Ask(t, r)

\* A thread that has been asked runs until it has answered.
Fairness == \A t \in Threads : WF_vars(Works(t))

Spec == Init /\ [][Next]_vars /\ Fairness

----------------------------------------------------------------------------
Names == UNION {ToSet(c) : c \in Chains}

TypeOK ==
    /\ limit \in Limits /\ chain \in Chains /\ reorgs \in 0..MaxReorgs /\ proofs \in 0..MaxProofs
    /\ \A e \in entries : e.height \in Heights /\ e.hash \in Names
    /\ waiters \in [Heights -> Nat] /\ holder \in [Heights -> Threads \cup {Nil}]
    /\ \A h \in Heights : lastBuilt[h] = Nil \/ lastBuilt[h].hash \in Names
    /\ rebuilds \in Nat /\ buildBytes \in Nat
    /\ step \in [Threads -> {"idle", "lookup", "wait", "permit", "memory", "build", "best", "insert",
                             "retain", "unlock", "leave", "reply", "answered"}]
    /\ asked \in [Threads -> Requests \cup {Nil}] /\ cpHash \in [Threads -> Names \cup {Nil}]
    /\ best \in [Threads -> Nat]

Leaves(n) == [i \in 1..n |-> Leaf(i)]

\* For every leaf of a list of n, the branch that is made for a transaction, and the one that is
\* taken from the levels above the leaves for a header.
BranchesAgree(n) ==
    \A i \in 0..(n - 1) :
      LET levels == LevelsAbove(Leaves(n))
          branch == CreateBranch(Leaves(n), i)
      IN  /\ Proves(Leaf(i + 1), i, branch, RootOf(Leaves(n)))
          /\ n > 1 => /\ ExtractBranch(levels, Leaf(Min({Other(i), n - 1}) + 1), i) = branch
                      /\ ExtractRoot(levels) = RootOf(Leaves(n))

\* A proof that is served climbs from the header to the root, and the root is
\* that of the chain which is published when the reply is made, though the snapshot, the cached
\* tree and the build read the headers at other times.
ProofsVerify ==
    \A t \in Threads : step[t] = "answered" =>
      LET a == answer[t] IN Proves(a.leaf, a.index, a.branch, a.root) /\ a.root = RootOf(a.leaves)

Permitted == {t \in Threads : step[t] \in {"memory", "build", "best", "insert", "retain"}}
Building == {t \in Permitted : step[t] # "memory"}
In(h) == {t \in Threads : asked[t] # Nil /\ Cp(t) = h /\ step[t] \notin {"idle", "lookup", "reply"}}

\* The permits and charges outstanding are those of the builds and retained trees that exist, on
\* every path out of a build, and a slot that nobody uses is gone with its tree.
PermitsExact ==
    /\ rebuilds = Cardinality(Permitted) /\ rebuilds <= limit
    /\ buildBytes = MapThenSumSet(LAMBDA t : PeakBytes(Cp(t)), Building) + MapThenSumSet(Retained, Heights)
    /\ \A h \in Heights :
         /\ waiters[h] = Cardinality(In(h))
         /\ In(h) = {} => lastBuilt[h] = Nil /\ holder[h] = Nil

\* Cached trees use at most half of the memory given to checkpoint proofs, one per height.
CacheBounded ==
    /\ Bytes(entries) <= CacheCapacity /\ Cardinality(entries) <= MaxEntries
    /\ \A e, o \in entries : e.height = o.height => e = o

\* What the trees take, cached, retained or being built.
InUse ==
    LET kept == {[hash |-> e.hash, levels |-> e.levels] : e \in entries}
                \cup {lastBuilt[h] : h \in {k \in Heights : lastBuilt[k] # Nil}}
                \cup {tree[t] : t \in {u \in Building : step[u] # "build"}}
    IN  Bytes(kept) + MapThenSumSet(LAMBDA t : PeakBytes(Cp(t)), {t \in Building : step[t] = "build"})

\* Cached, retained and growing trees stay within the capacity, but for the one build that is
\* admitted when no other is in flight.
MemoryBounded == InUse <= TreeCapacity \/ Cardinality(Building) <= 1

\* A request that is not answered yet.
Pending(t) == step[t] # "idle"
==============================================================================

---------------------------- MODULE LimitProofs -----------------------------
(***************************************************************************)
(* Proofs about the limits on calls to the daemon, for any number of       *)
(* threads and permits and for any reply: the permits of proxied calls are *)
(* all accounted for and none is slept past, and no reply is received      *)
(* beyond its limits.                                                      *)
(***************************************************************************)
EXTENDS DaemonParts, FiniteSetTheorems, TLAPS

LimitPlaces == {"idle", "check", "sleep", "connect", "call", "release", "notify"}
Using == {"connect", "call", "release"}
Awake == {"check", "notify"}

LimitTypes == /\ capacity \in Nat /\ available \in Nat
              /\ proxy \in [Proxies -> LimitPlaces]

LimitInvariant == LimitTypes /\ Limit!SlotsExact /\ Limit!NoLostWakeup

\* Both modules count alike.
LEMMA LimitCounts ==
    ASSUME NEW S
    PROVE  Limit!Cardinality(S) = Cardinality(S)
  BY ZenonT(60) DEF Limit!Cardinality, Cardinality

\* What is promised, in terms of the threads that use a permit and of those that will take or pass one on.
LEMMA LimitMeans ==
    /\ Limit!SlotsExact <=> available + Cardinality(Limit!At(Using)) = capacity
    /\ Limit!SlotsExact' <=> available' + Cardinality(Limit!At(Using)') = capacity'
    /\ Limit!NoLostWakeup <=> (Limit!At({"sleep"}) # {} => available <= Cardinality(Limit!At(Awake)))
    /\ Limit!NoLostWakeup' <=> (Limit!At({"sleep"})' # {} => available' <= Cardinality(Limit!At(Awake)'))
  BY ZenonT(60), LimitCounts DEF Limit!SlotsExact, Limit!NoLostWakeup, Using, Awake

\* The threads at some places are finitely many.
LEMMA CountIsNat ==
    ASSUME IsFiniteSet(Proxies), NEW places
    PROVE  IsFiniteSet(Limit!At(places)) /\ Cardinality(Limit!At(places)) \in Nat
<1>1. Limit!At(places) \subseteq Proxies
  BY DEF Limit!At
<1> QED
  BY <1>1, FS_Subset, FS_CardinalityType

\* A thread that moves is counted where it goes and no longer where it was.
LEMMA CountMoves ==
    ASSUME IsFiniteSet(Proxies), LimitTypes, NEW p \in Proxies, NEW to, Limit!Moves(p, to), NEW CONSTANT places
    PROVE  Cardinality(Limit!At(places)') = Cardinality(Limit!At(places)) + (IF to \in places THEN 1 ELSE 0)
                                                       - (IF proxy[p] \in places THEN 1 ELSE 0)
<1>1. IsFiniteSet(Limit!At(places)) /\ Cardinality(Limit!At(places)) \in Nat
  BY CountIsNat
<1>2. CASE to \in places /\ proxy[p] \in places
  <2>1. Limit!At(places)' = Limit!At(places)
    BY <1>2 DEF Limit!At, Limit!Moves, LimitTypes
  <2> QED
    BY <1>1, <1>2, <2>1
<1>3. CASE to \in places /\ proxy[p] \notin places
  <2>1. Limit!At(places)' = Limit!At(places) \cup {p} /\ p \notin Limit!At(places)
    BY <1>3 DEF Limit!At, Limit!Moves, LimitTypes
  <2>2. Cardinality(Limit!At(places) \cup {p}) = Cardinality(Limit!At(places)) + 1
    BY ZenonT(60), <1>1, <2>1, FS_AddElement
  <2> QED
    BY <1>1, <1>3, <2>1, <2>2
<1>4. CASE to \notin places /\ proxy[p] \in places
  <2>1. Limit!At(places)' = Limit!At(places) \ {p} /\ p \in Limit!At(places)
    BY <1>4 DEF Limit!At, Limit!Moves, LimitTypes
  <2>2. Cardinality(Limit!At(places) \ {p}) = Cardinality(Limit!At(places)) - 1
    BY ZenonT(60), <1>1, <2>1, FS_RemoveElement
  <2> QED
    BY <1>1, <1>4, <2>1, <2>2
<1>5. CASE to \notin places /\ proxy[p] \notin places
  <2>1. Limit!At(places)' = Limit!At(places)
    BY <1>5 DEF Limit!At, Limit!Moves, LimitTypes
  <2> QED
    BY <1>1, <1>5, <2>1
<1> QED
  BY <1>2, <1>3, <1>4, <1>5

\* A thread that is moved to a place other than sleep makes nobody sleep.
LEMMA NobodyFallsAsleep ==
    ASSUME LimitTypes, NEW p \in Proxies, NEW to \in LimitPlaces \ {"sleep"}, Limit!Moves(p, to), Limit!At({"sleep"})' # {}
    PROVE  Limit!At({"sleep"}) # {}
  BY DEF Limit!At, Limit!Moves, LimitTypes

\* Threads keep to their places.
LEMMA MovesTypes ==
    ASSUME LimitTypes, NEW p \in Proxies, NEW to \in LimitPlaces, Limit!Moves(p, to)
    PROVE  proxy' \in [Proxies -> LimitPlaces] /\ proxy'[p] = to
  BY DEF Limit!Moves, LimitTypes

\* A step that moves one thread and changes the free permits as it changes the permits in use keeps both
\* facts if, while some thread sleeps, it changes the threads awake as much at least.
LEMMA MoveKeepsInvariant ==
    ASSUME IsFiniteSet(Proxies), LimitInvariant, NEW p \in Proxies, NEW to \in LimitPlaces \ {"sleep"},
           Limit!Moves(p, to), capacity' = capacity, available' \in Nat,
           available' = available - (IF to \in Using THEN 1 ELSE 0) + (IF proxy[p] \in Using THEN 1 ELSE 0),
           available' = 0 \/ available' - available <= (IF to \in Awake THEN 1 ELSE 0)
                                                      - (IF proxy[p] \in Awake THEN 1 ELSE 0)
    PROVE  LimitInvariant'
<1>1. LimitTypes'
  BY MovesTypes DEF LimitInvariant, LimitTypes
<1>2. Cardinality(Limit!At(Using)) \in Nat /\ Cardinality(Limit!At(Awake)) \in Nat /\ Cardinality(Limit!At(Awake)') \in Nat
  <2>1. Cardinality(Limit!At(Awake)') \in Nat
    <3>1. Limit!At(Awake)' \subseteq Proxies
      BY DEF Limit!At
    <3> QED
      BY <3>1, FS_Subset, FS_CardinalityType
  <2> QED
    BY <2>1, CountIsNat
<1>3. Limit!SlotsExact'
  <2>1. Cardinality(Limit!At(Using)') = Cardinality(Limit!At(Using)) + (IF to \in Using THEN 1 ELSE 0)
                                                    - (IF proxy[p] \in Using THEN 1 ELSE 0)
    BY CountMoves DEF LimitInvariant
  <2>2. available + Cardinality(Limit!At(Using)) = capacity
    BY ZenonT(60), LimitMeans DEF LimitInvariant
  <2>3. available' + Cardinality(Limit!At(Using)') = capacity'
    BY <1>2, <2>1, <2>2 DEF LimitInvariant, LimitTypes
  <2> QED
    BY ZenonT(60), <2>3, LimitMeans
<1>4. Limit!NoLostWakeup'
  <2> SUFFICES ASSUME Limit!At({"sleep"})' # {} PROVE available' <= Cardinality(Limit!At(Awake)')
    BY ZenonT(60), LimitMeans
  <2>1. available <= Cardinality(Limit!At(Awake))
    BY ZenonT(60), NobodyFallsAsleep, LimitMeans DEF LimitInvariant
  <2>2. Cardinality(Limit!At(Awake)') = Cardinality(Limit!At(Awake)) + (IF to \in Awake THEN 1 ELSE 0)
                                                    - (IF proxy[p] \in Awake THEN 1 ELSE 0)
    BY CountMoves DEF LimitInvariant
  <2> QED
    BY <1>2, <2>1, <2>2 DEF LimitInvariant, LimitTypes
<1> QED
  BY <1>1, <1>3, <1>4 DEF LimitInvariant

\* acquire
LEMMA CheckKeepsInvariant ==
    ASSUME IsFiniteSet(Proxies), LimitInvariant, NEW p \in Proxies, Limit!Check(p)
    PROVE  LimitInvariant'
<1>1. proxy[p] = "check" /\ capacity' = capacity /\ capacity \in Nat /\ available \in Nat
  BY DEF Limit!Check, LimitInvariant, LimitTypes
<1>2. CASE Limit!MayTake(p)
  <2>1. Limit!Moves(p, "connect") /\ available' = available - 1 /\ available > 0
    BY <1>2 DEF Limit!Check, Limit!MayTake
  <2> QED
    BY <1>1, <2>1, MoveKeepsInvariant DEF Using, Awake, LimitPlaces
<1>3. CASE ~Limit!MayTake(p) /\ p \in late
  <2>1. Limit!Moves(p, "idle") /\ available' = 0 /\ available = 0
    BY <1>1, <1>3 DEF Limit!Check, Limit!MayTake
  <2> QED
    BY <1>1, <2>1, MoveKeepsInvariant DEF Using, Awake, LimitPlaces
<1>4. CASE ~Limit!MayTake(p) /\ p \notin late
  <2>1. Limit!Moves(p, "sleep") /\ available' = 0 /\ available = 0
    BY <1>1, <1>4 DEF Limit!Check, Limit!MayTake
  <2>2. LimitTypes'
    BY <1>1, <2>1, MovesTypes DEF LimitInvariant, LimitTypes, LimitPlaces
  <2>3. Cardinality(Limit!At(Using)') = Cardinality(Limit!At(Using)) /\ Cardinality(Limit!At(Using)) \in Nat
    BY <1>1, <2>1, CountMoves, CountIsNat DEF LimitInvariant, Using
  <2>4. Limit!SlotsExact'
    BY ZenonT(60), <1>1, <2>1, <2>3, LimitMeans DEF LimitInvariant
  <2>5. Limit!NoLostWakeup'
    <3>1. Limit!At(Awake)' \subseteq Proxies
      BY DEF Limit!At
    <3>2. Cardinality(Limit!At(Awake)') \in Nat
      BY <3>1, FS_Subset, FS_CardinalityType
    <3>3. 0 <= Cardinality(Limit!At(Awake)')
      BY <3>2
    <3> QED
      BY ZenonT(60), <2>1, <3>3, LimitMeans
  <2> QED
    BY <2>2, <2>4, <2>5 DEF LimitInvariant
<1> QED
  BY <1>2, <1>3, <1>4

\* notify_one: the thread that notifies goes, the one it wakes comes.
LEMMA NotifyKeepsInvariant ==
    ASSUME IsFiniteSet(Proxies), LimitInvariant, NEW p \in Proxies, Limit!Notify(p)
    PROVE  LimitInvariant'
<1>1. proxy[p] = "notify" /\ capacity' = capacity /\ available' = available /\ available \in Nat
  BY DEF Limit!Notify, LimitInvariant, LimitTypes
<1>2. CASE Limit!At({"sleep"}) = {}
  <2>1. Limit!Moves(p, "idle")
    BY <1>2 DEF Limit!Notify
  <2>2. LimitTypes'
    BY <1>1, <2>1, MovesTypes DEF LimitInvariant, LimitTypes, LimitPlaces
  <2>3. Cardinality(Limit!At(Using)') = Cardinality(Limit!At(Using)) /\ Cardinality(Limit!At(Using)) \in Nat
    BY <1>1, <2>1, CountMoves, CountIsNat DEF LimitInvariant, Using
  <2>4. Limit!SlotsExact'
    BY ZenonT(60), <1>1, <2>3, LimitMeans DEF LimitInvariant
  <2>5. Limit!At({"sleep"})' = {}
    BY <1>2, <2>1, NobodyFallsAsleep DEF LimitInvariant, LimitPlaces
  <2> QED
    BY <2>2, <2>4, <2>5 DEF LimitInvariant, Limit!NoLostWakeup
<1>3. CASE Limit!At({"sleep"}) # {}
  <2>1. PICK s \in Limit!At({"sleep"}) : proxy' = [proxy EXCEPT ![p] = "idle", ![s] = "check"]
    BY <1>3 DEF Limit!Notify
  <2>2. s \in Proxies /\ proxy[s] = "sleep" /\ s # p
    BY <1>1, <2>1 DEF Limit!At
  <2>3. LimitTypes'
    BY <1>1, <2>1, <2>2 DEF LimitInvariant, LimitTypes, LimitPlaces
  <2>4. Limit!At(Using)' = Limit!At(Using)
    BY <1>1, <2>1, <2>2 DEF LimitInvariant, LimitTypes, Limit!At, Using
  <2>5. Limit!SlotsExact'
    BY ZenonT(60), <1>1, <2>4, LimitMeans DEF LimitInvariant
  <2>6. Limit!At(Awake)' = (Limit!At(Awake) \ {p}) \cup {s} /\ p \in Limit!At(Awake) /\ s \notin Limit!At(Awake) \ {p}
    BY <1>1, <2>1, <2>2 DEF LimitInvariant, LimitTypes, Limit!At, Awake
  <2>7. IsFiniteSet(Limit!At(Awake)) /\ Cardinality(Limit!At(Awake)) \in Nat
    BY CountIsNat
  <2>8. IsFiniteSet(Limit!At(Awake) \ {p}) /\ Cardinality(Limit!At(Awake) \ {p}) = Cardinality(Limit!At(Awake)) - 1
    BY <2>6, <2>7, FS_RemoveElement
  <2>9. Cardinality(Limit!At(Awake)') = Cardinality(Limit!At(Awake) \ {p}) + 1
    BY ZenonT(60), <2>6, <2>8, FS_AddElement
  <2>10. available <= Cardinality(Limit!At(Awake))
    BY ZenonT(60), <1>3, LimitMeans DEF LimitInvariant
  <2>11. Limit!NoLostWakeup'
    <3>1. available' <= Cardinality(Limit!At(Awake)')
      BY <1>1, <2>7, <2>8, <2>9, <2>10
    <3> QED
      BY ZenonT(60), <3>1, LimitMeans
  <2> QED
    BY <2>3, <2>5, <2>11 DEF LimitInvariant
<1> QED
  BY <1>2, <1>3

\* Every step of every thread.
LEMMA StepKeepsInvariant ==
    ASSUME IsFiniteSet(Proxies), LimitInvariant, [Limit!Next]_(Limit!vars)
    PROVE  LimitInvariant'
<1>1. CASE UNCHANGED Limit!vars
  BY <1>1 DEF Limit!vars, LimitInvariant, LimitTypes, Limit!SlotsExact, Limit!NoLostWakeup, Limit!At
<1>2. ASSUME NEW p \in Proxies, Limit!Enter(p) PROVE LimitInvariant'
  <2>1. proxy[p] = "idle" /\ Limit!Moves(p, "check") /\ UNCHANGED <<capacity, available>> /\ available \in Nat
    BY <1>2 DEF Limit!Enter, LimitInvariant, LimitTypes
  <2> QED
    BY <2>1, MoveKeepsInvariant DEF Using, Awake, LimitPlaces
<1>3. ASSUME NEW p \in Proxies, Limit!Expire(p) PROVE LimitInvariant'
  <2>1. proxy[p] \in {"check", "sleep"} /\ Limit!Moves(p, "check") /\ UNCHANGED <<capacity, available>> /\ available \in Nat
    BY <1>3 DEF Limit!Expire, LimitInvariant, LimitTypes
  <2> QED
    BY <2>1, MoveKeepsInvariant DEF Using, Awake, LimitPlaces
<1>4. ASSUME NEW p \in Proxies, Limit!Connect(p) \/ Limit!Call(p) PROVE LimitInvariant'
  <2>1. /\ proxy[p] \in {"connect", "call"} /\ (Limit!Moves(p, "call") \/ Limit!Moves(p, "release"))
        /\ UNCHANGED <<capacity, available>> /\ available \in Nat
    BY <1>4 DEF Limit!Connect, Limit!Call, Limit!AfterFailure, LimitInvariant, LimitTypes
  <2> QED
    BY <2>1, MoveKeepsInvariant DEF Using, Awake, LimitPlaces
<1>5. ASSUME NEW p \in Proxies, Limit!Release(p) PROVE LimitInvariant'
  <2>1. /\ proxy[p] = "release" /\ Limit!Moves(p, "notify") /\ capacity' = capacity
        /\ available' = available + 1 /\ available \in Nat
    BY <1>5 DEF Limit!Release, LimitInvariant, LimitTypes
  <2> QED
    BY <2>1, MoveKeepsInvariant DEF Using, Awake, LimitPlaces
<1> QED
  <2>1. ASSUME NEW p \in Proxies, Limit!Enter(p) \/ Limit!Serves(p) PROVE LimitInvariant'
    BY ZenonT(60), <1>2, <1>3, <1>4, <1>5, <2>1, CheckKeepsInvariant, NotifyKeepsInvariant DEF Limit!Serves
  <2>2. CASE Limit!Next
    BY ZenonT(60), <2>1, <2>2 DEF Limit!Next
  <2> QED
    BY <1>1, <2>2

\* The semaphore starts with all its permits free.
LEMMA LimitStarts ==
    ASSUME IsFiniteSet(Proxies), Permits \subseteq Nat, Limit!Init
    PROVE  LimitInvariant
<1>1. LimitTypes /\ available = capacity
  BY DEF Limit!Init, LimitTypes, Limit!AtLeastOne, LimitPlaces
<1>2. Limit!At(Using) = {} /\ Limit!At({"sleep"}) = {}
  BY DEF Limit!Init, Limit!At, Using
<1>3. Limit!SlotsExact
  <2>1. Cardinality({}) = 0 /\ capacity \in Nat
    BY ZenonT(60), <1>1, FS_EmptySet DEF LimitTypes
  <2>2. \A n \in Nat : n + 0 = n
    OBVIOUS
  <2> QED
    BY ZenonT(60), <1>1, <1>2, <2>1, <2>2, LimitMeans
<1> QED
  BY <1>1, <1>2, <1>3 DEF LimitInvariant, Limit!NoLostWakeup

----------------------------------------------------------------------------
(* Receiving one reply: HttpReply.                                         *)

ReplyStages == {"status", "headers", "body", "ok", "failed"}

\* The read that blocks times out when the budget is spent; a body is read only once its length is known
\* to be within the cap, and never past it.
ReplyInvariant ==
    /\ stage \in ReplyStages /\ clock \in 0..Budget /\ wakes = Budget
    /\ line \in 0..MaxLine /\ fields \in 0..MaxHeaders /\ fieldBytes \in 0..MaxHeaderBytes
    /\ length \in Lengths \cup {Unknown} /\ body \in 0..MaxBody
    /\ stage \in {"status", "headers"} => body = 0
    /\ stage = "body" => length \in 1..MaxBody /\ body < length
    /\ stage = "ok" => body = length

\* A turn of a read loop leaves the clock and the time at which the next read gives up.
LEMMA AgainMeans ==
    ASSUME ReplyInvariant, NEW to, Reply!Again(to)
    PROVE  clock' = clock /\ wakes' = Budget /\ stage' \in {to, "failed"}
  BY DEF ReplyInvariant, Reply!Again, Reply!Armed

\* A step that reads part of a line.
LEMMA LineStep ==
    ASSUME ReplyInvariant, NEW n \in Pieces, Reply!Piece(n) \/ Reply!StatusLine(n)
    PROVE  ReplyInvariant'
<1>1. n \in Nat /\ MaxLine \in Nat
  BY ReplyAssumption
<1>2. CASE Reply!Fails
  BY <1>2 DEF Reply!Fails, ReplyInvariant, ReplyStages
<1>3. CASE ~Reply!TooLong(n)
  <2>1. /\ stage \in {"status", "headers"} /\ body = 0 /\ UNCHANGED <<fields, fieldBytes, length, body>>
        /\ line' \in {line + n, 0} /\ (Reply!Again(stage) \/ Reply!Again("headers"))
    BY <1>3 DEF Reply!Piece, Reply!StatusLine, ReplyInvariant
  <2>2. clock' = clock /\ wakes' = Budget /\ stage' \in {"status", "headers", "failed"}
    BY <2>1, AgainMeans
  <2>3. line' \in 0..MaxLine
    BY <1>1, <1>3, <2>1 DEF Reply!TooLong, ReplyInvariant
  <2> QED
    BY <2>1, <2>2, <2>3 DEF ReplyInvariant, ReplyStages
<1> QED
  BY <1>2, <1>3 DEF Reply!Piece, Reply!StatusLine

\* A header, or the blank line after the last one.
LEMMA HeaderStep ==
    ASSUME ReplyInvariant, NEW n \in Pieces, Reply!Header(n) \/ Reply!Blank(n)
    PROVE  ReplyInvariant'
<1>1. n \in Nat /\ MaxHeaders \in Nat /\ MaxHeaderBytes \in Nat /\ MaxLine \in Nat /\ MaxBody \in Nat /\ Lengths \subseteq Nat
  BY ReplyAssumption
<1>2. CASE Reply!Fails
  BY <1>2 DEF Reply!Fails, ReplyInvariant, ReplyStages
<1>3. CASE Reply!Header(n) /\ ~Reply!Fails
  <2>1. PICK text \in 1..(line + n) :
          /\ ~(fields + 1 > MaxHeaders \/ fieldBytes + text > MaxHeaderBytes)
          /\ line' = 0 /\ fields' = fields + 1 /\ fieldBytes' = fieldBytes + text
          /\ length' \in Lengths \cup {length} /\ Reply!Again("headers") /\ UNCHANGED body
    BY <1>3 DEF Reply!Header
  <2>2. clock' = clock /\ wakes' = Budget /\ stage' \in {"headers", "failed"} /\ stage = "headers"
    BY ZenonT(30), <1>3, <2>1, AgainMeans DEF Reply!Header
  <2>3. line \in Nat /\ fields \in Nat /\ fieldBytes \in Nat /\ body = 0
    BY <2>2 DEF ReplyInvariant
  <2>4. fields' \in 0..MaxHeaders /\ fieldBytes' \in 0..MaxHeaderBytes /\ line' \in 0..MaxLine
    BY <1>1, <2>1, <2>3
  <2> QED
    BY ZenonT(30), <2>1, <2>2, <2>3, <2>4 DEF ReplyInvariant, ReplyStages
<1>4. CASE Reply!Blank(n) /\ ~Reply!Fails
  <2>1. /\ stage = "headers" /\ length # Unknown /\ ~(length = 0 \/ length > MaxBody)
        /\ line' = 0 /\ Reply!Again("body") /\ UNCHANGED <<fields, fieldBytes, length, body>>
    BY <1>4 DEF Reply!Blank
  <2>2. clock' = clock /\ wakes' = Budget /\ stage' \in {"body", "failed"}
    BY <2>1, AgainMeans
  <2>3. length \in 1..MaxBody /\ body = 0
    BY <1>1, <2>1 DEF ReplyInvariant
  <2>4. 0 \in 0..MaxLine /\ 0 < length
    BY <1>1, <2>3
  <2> QED
    BY ZenonT(30), <2>1, <2>2, <2>3, <2>4 DEF ReplyInvariant, ReplyStages
<1> QED
  BY <1>2, <1>3, <1>4

\* Part of the body, or what was missing of it.
LEMMA BodyStep ==
    ASSUME ReplyInvariant, NEW n \in Pieces, Reply!Body(n)
    PROVE  ReplyInvariant'
<1>1. n \in Nat /\ MaxBody \in Nat /\ stage = "body" /\ length \in 1..MaxBody /\ body \in 0..MaxBody /\ body < length
  BY ReplyAssumption DEF Reply!Body, ReplyInvariant
<1>2. body' \in 0..MaxBody /\ body' <= length /\ UNCHANGED <<line, fields, fieldBytes, length>>
  BY <1>1 DEF Reply!Body, Reply!Take
<1>3. CASE body' >= length
  <2>1. body' = length /\ stage' \in {"ok", "failed"} /\ UNCHANGED <<clock, wakes>>
    BY <1>1, <1>2, <1>3 DEF Reply!Body
  <2> QED
    BY <1>2, <2>1 DEF ReplyInvariant, ReplyStages
<1>4. CASE ~(body' >= length)
  <2>1. Reply!Again("body") /\ body' < length
    BY <1>1, <1>2, <1>4 DEF Reply!Body
  <2>2. clock' = clock /\ wakes' = Budget /\ stage' \in {"body", "failed"}
    BY <2>1, AgainMeans
  <2> QED
    BY ZenonT(30), <1>1, <1>2, <2>1, <2>2 DEF ReplyInvariant, ReplyStages
<1> QED
  BY <1>3, <1>4

\* Every step of the receipt.
LEMMA ReplyKeepsInvariant ==
    ASSUME ReplyInvariant, [Reply!Next]_(Reply!vars)
    PROVE  ReplyInvariant'
<1>1. CASE UNCHANGED Reply!vars
  BY <1>1 DEF Reply!vars, ReplyInvariant
<1>2. CASE Reply!Tick
  BY <1>2, ReplyAssumption DEF Reply!Tick, ReplyInvariant
<1>3. CASE Reply!TimesOut
  <2>1. stage' \in {stage, "failed"} /\ UNCHANGED <<line, fields, fieldBytes, length, body>>
        /\ clock' = clock /\ wakes' = Budget
    BY <1>3, AgainMeans DEF Reply!TimesOut
  <2> QED
    BY <2>1 DEF ReplyInvariant, ReplyStages
<1>4. CASE Reply!Breaks
  BY <1>4 DEF Reply!Breaks, Reply!Fails, ReplyInvariant, ReplyStages
<1> QED
  BY ZenonT(30), <1>1, <1>2, <1>3, <1>4, LineStep, HeaderStep, BodyStep DEF Reply!Next, Reply!Reads

\* The permits that are free and those in use are all there ever were, and no thread sleeps past a free one,
\* for any number of threads that serve clients and any limit (BlockingSemaphore); and receiving a reply
\* ends by its deadline, within its caps and within the reply, for any caps, budget and pieces (recv).
THEOREM LimitHolds ==
    /\ part = "limit" => Limit!Spec
    /\ part = "reply" => Reply!Spec
    /\ [][part' = part]_part
    => []LimitIsKept
<1>1. Limit!Init => LimitInvariant
  BY LimitStarts, LimitAssumption
<1>2. LimitInvariant /\ [Limit!Next]_(Limit!vars) => LimitInvariant'
  BY StepKeepsInvariant, LimitAssumption
<1>3. LimitInvariant => Limit!SlotsExact /\ Limit!NoLostWakeup
  BY DEF LimitInvariant
<1>4. Limit!Spec => [](Limit!SlotsExact /\ Limit!NoLostWakeup)
  BY <1>1, <1>2, <1>3, PTL DEF Limit!Spec
<1>5. Reply!Init => ReplyInvariant
  BY ReplyAssumption DEF Reply!Init, ReplyInvariant, ReplyStages
<1>6. ReplyInvariant /\ [Reply!Next]_(Reply!vars) => ReplyInvariant'
  BY ReplyKeepsInvariant
<1>7. ReplyInvariant => Reply!RecvBounded /\ Reply!ReadsWithinCaps
  BY ReplyAssumption DEF ReplyInvariant, Reply!RecvBounded, Reply!ReadsWithinCaps
<1>8. Reply!Spec => [](Reply!RecvBounded /\ Reply!ReadsWithinCaps)
  BY <1>5, <1>6, <1>7, PTL DEF Reply!Spec
<1>9. [][part' = part]_part => ((part = "limit" \/ [](~(part = "limit"))) /\ (part = "reply" \/ [](~(part = "reply"))))
  <2>1. ~(part = "limit") /\ [part' = part]_part => (~(part = "limit"))'
    OBVIOUS
  <2>2. ~(part = "reply") /\ [part' = part]_part => (~(part = "reply"))'
    OBVIOUS
  <2> QED
    BY <2>1, <2>2, PTL
<1>11. /\ (part = "limit" => Limit!SlotsExact /\ Limit!NoLostWakeup)
       /\ (part = "reply" => Reply!RecvBounded /\ Reply!ReadsWithinCaps)
       => LimitIsKept
  BY DEF LimitIsKept
<1> QED
  BY <1>4, <1>8, <1>9, <1>11, PTL
=============================================================================

--------------------------- MODULE TransportProofs ---------------------------
(***************************************************************************)
(* The bounds and the order of the idle pool, for every number of tasks    *)
(* and every max_idle, and the flows on its streams, for any number of     *)
(* writes and frames.                                                      *)
(*                                                                         *)
(* PoolInv is inductive as it stands.  A task dials only if the counter    *)
(* was below MaxIdle when it added itself; the counter being exact, fewer  *)
(* than MaxIdle tasks were dialling then.                                  *)
(*                                                                         *)
(* FlowInv numbers the parts of a stream: Taken is the number of those the *)
(* pump has taken off the wire, the parts on the wire are the next ones,   *)
(* and the flow has been given the data frames whose two parts are taken.  *)
(* A read that is dropped leaves Taken odd with no header held, where      *)
(* read_chunk finds a block it cannot open.                                *)
(***************************************************************************)
EXTENDS Transport, Integers, FiniteSetTheorems, TLAPS

PoolInv == TypeOK /\ IdleBounded /\ DialsBounded /\ CounterIsExact

-----------------------------------------------------------------------------
(* The two sets of tasks.                                                  *)

\* Counted and Dialling are finite, and who dials is counted.
LEMMA TaskSets ==
    /\ IsFiniteSet(Counted) /\ IsFiniteSet(Dialling)
    /\ Cardinality(Counted) \in Nat /\ Cardinality(Dialling) \in Nat
    /\ Cardinality(Dialling) <= Cardinality(Counted)
<1>1. Counted \in SUBSET Fillers /\ Dialling \in SUBSET Counted
  BY Zenon DEF Counted, Dialling
<1>2. IsFiniteSet(Counted)
  BY Zenon, <1>1, FS_Subset, PoolAssumption
<1>3. IsFiniteSet(Dialling) /\ Cardinality(Dialling) <= Cardinality(Counted)
  BY Zenon, <1>1, <1>2, FS_Subset
<1> QED BY Zenon, <1>2, <1>3, FS_CardinalityType

\* A step of tasks that neither add nor remove themselves changes neither set.
LEMMA SameSets ==
    ASSUME pc \in [Fillers -> Points], pc' \in [Fillers -> Points],
           \A f \in Fillers : pc'[f] = pc[f] \/ {pc[f], pc'[f]} \cap {"dialing", "refused"} = {}
    PROVE  Counted' = Counted /\ Dialling' = Dialling
BY Zenon DEF Counted, Dialling

-----------------------------------------------------------------------------
(* The queue.                                                              *)

\* What each action does to the queue keeps it a queue of ages and within its
\* bound.
LEMMA QueueStep ==
    ASSUME TypeOK, IdleBounded, [Next]_vars
    PROVE  idle' \in Seq(0 .. MaxAge) /\ Len(idle') <= MaxIdle
<1> USE PoolAssumption DEF TypeOK, IdleBounded
<1>1. CASE UNCHANGED idle
  BY Zenon, <1>1
<1>2. CASE Take
  <2>1. PICK k \in 0 .. Len(idle) :
            \/ idle' = <<>>
            \/ k < Len(idle) /\ idle' = SubSeq(idle, k + 2, Len(idle))
    BY Zenon, <1>2 DEF Take
  <2>2. CASE idle' = <<>>
    BY <2>2
  <2>3. CASE k < Len(idle) /\ idle' = SubSeq(idle, k + 2, Len(idle))
    BY <2>3
  <2> QED BY Zenon, <2>1, <2>2, <2>3
<1>3. CASE Tick
  <2> DEFINE older == [i \in 1 .. Len(idle) |-> IF idle[i] < MaxAge THEN idle[i] + 1 ELSE MaxAge]
  <2>1. \A i \in 1 .. Len(idle) : older[i] \in 0 .. MaxAge
    OBVIOUS
  <2>2. older \in Seq(0 .. MaxAge) /\ Len(older) = Len(idle)
    BY <2>1
  <2> QED BY Zenon, <1>3, <2>2 DEF Tick
<1>4. ASSUME NEW f \in Fillers, Push(f)
      PROVE  idle' \in Seq(0 .. MaxAge) /\ Len(idle') <= MaxIdle
  <2>1. 0 \in 0 .. MaxAge /\ Len(idle) \in Nat
    OBVIOUS
  <2>2. CASE Len(idle) < MaxIdle
    <3>1. idle' = Append(idle, 0)
      BY Zenon, <1>4, <2>2 DEF Push
    <3>2. Append(idle, 0) \in Seq(0 .. MaxAge) /\ Len(Append(idle, 0)) = Len(idle) + 1
      BY <2>1
    <3> QED BY <2>1, <2>2, <3>1, <3>2
  <2>3. CASE ~(Len(idle) < MaxIdle)
    BY Zenon, <1>4, <2>3 DEF Push
  <2> QED BY Zenon, <2>2, <2>3
<1> QED BY Zenon, <1>1, <1>2, <1>3, <1>4
        DEF Next, vars, Fill, FillOne, Check, Count, Uncount, Dialled

-----------------------------------------------------------------------------
(* The tasks.                                                              *)

\* The counter and the two bounds over the tasks are kept by every step.
LEMMA TaskStep ==
    ASSUME PoolInv, [Next]_vars
    PROVE  /\ filling' \in Nat
           /\ pc' \in [Fillers -> Points]
           /\ DialsBounded' /\ CounterIsExact'
<1> USE PoolAssumption DEF PoolInv, TypeOK
<1>1. /\ IsFiniteSet(Counted) /\ IsFiniteSet(Dialling)
      /\ Cardinality(Counted) \in Nat /\ Cardinality(Dialling) \in Nat
      /\ Cardinality(Dialling) <= Cardinality(Counted)
  BY Zenon, TaskSets
<1>2. ASSUME pc' \in [Fillers -> Points], filling' = filling,
             \A f \in Fillers : \/ pc'[f] = pc[f]
                                \/ {pc[f], pc'[f]} \cap {"dialing", "refused"} = {}
      PROVE  /\ filling' \in Nat
             /\ pc' \in [Fillers -> Points]
             /\ DialsBounded' /\ CounterIsExact'
  <2>1. Counted' = Counted /\ Dialling' = Dialling
    BY Zenon, <1>2, SameSets
  <2> QED BY Zenon, <2>1, <1>2 DEF DialsBounded, CounterIsExact
<1>3. ASSUME NEW F \in SUBSET Fillers, Spawn(F), filling' = filling
      PROVE  /\ filling' \in Nat
             /\ pc' \in [Fillers -> Points]
             /\ DialsBounded' /\ CounterIsExact'
  BY Zenon, <1>2, <1>3 DEF Spawn, Points
<1>4. CASE UNCHANGED vars
  BY Zenon, <1>2, <1>4 DEF vars
<1>5. CASE Fill \/ Take
  BY Zenon, <1>3, <1>5 DEF Fill, Take
<1>6. CASE Tick
  BY Zenon, <1>2, <1>6 DEF Tick
<1>7. ASSUME NEW f \in Fillers, FillOne(f)
      PROVE  /\ filling' \in Nat
             /\ pc' \in [Fillers -> Points]
             /\ DialsBounded' /\ CounterIsExact'
  <2>1. CASE Check(f) \/ Push(f)
    BY Zenon, <1>2, <2>1 DEF Check, Push, Goto, Points
  <2>2. CASE Count(f) /\ filling >= MaxIdle
    <3>1. /\ pc' = [pc EXCEPT ![f] = "refused"] /\ pc[f] = "count"
          /\ filling' = filling + 1
      BY Zenon, <2>2 DEF Count, Goto
    <3>2. Counted' = Counted \cup {f} /\ f \notin Counted /\ Dialling' = Dialling
      BY Zenon, <3>1 DEF Counted, Dialling
    <3>3. Cardinality(Counted') = Cardinality(Counted) + 1
      BY Zenon, <1>1, <3>2, FS_AddElement
    <3> QED BY <1>1, <3>1, <3>2, <3>3 DEF DialsBounded, CounterIsExact, Points
  <2>3. CASE Count(f) /\ ~(filling >= MaxIdle)
    <3>1. /\ pc' = [pc EXCEPT ![f] = "dialing"] /\ pc[f] = "count"
          /\ filling' = filling + 1
      BY Zenon, <2>3 DEF Count, Goto
    <3>2. /\ Counted' = Counted \cup {f} /\ f \notin Counted
          /\ Dialling' = Dialling \cup {f} /\ f \notin Dialling
      BY Zenon, <3>1 DEF Counted, Dialling
    <3>3. /\ Cardinality(Counted') = Cardinality(Counted) + 1
          /\ Cardinality(Dialling') = Cardinality(Dialling) + 1
      BY Zenon, <1>1, <3>2, FS_AddElement
    <3>4. Cardinality(Dialling) < MaxIdle
      BY <1>1, <2>3 DEF CounterIsExact
    <3> QED BY <1>1, <3>1, <3>3, <3>4 DEF DialsBounded, CounterIsExact, Points
  <2>4. CASE Uncount(f) \/ Dialled(f)
    <3>1. PICK l \in {"none", "landed"} : pc' = [pc EXCEPT ![f] = l]
      BY Zenon, <2>4 DEF Uncount, Dialled, Goto
    <3>2. pc[f] \in {"dialing", "refused"} /\ filling' = filling - 1
      BY Zenon, <2>4 DEF Uncount, Dialled
    <3>3. /\ Counted' = Counted \ {f} /\ f \in Counted
          /\ Dialling' = Dialling \ {f}
      BY Zenon, <3>1, <3>2 DEF Counted, Dialling
    <3>4. /\ Cardinality(Counted') = Cardinality(Counted) - 1
          /\ Cardinality(Dialling') <= Cardinality(Dialling)
          /\ Cardinality(Dialling') \in Nat
          /\ Cardinality(Counted') \in Nat
      <4>1. /\ Cardinality(Counted') = Cardinality(Counted) - 1
            /\ IsFiniteSet(Counted')
        BY Zenon, <1>1, <3>3, FS_RemoveElement
      <4>2. /\ Cardinality(Dialling') = IF f \in Dialling THEN Cardinality(Dialling) - 1
                                         ELSE Cardinality(Dialling)
            /\ IsFiniteSet(Dialling')
        BY Zenon, <1>1, <3>3, FS_RemoveElement
      <4>3. Cardinality(Counted') \in Nat /\ Cardinality(Dialling') \in Nat
        BY Zenon, <4>1, <4>2, FS_CardinalityType
      <4> QED BY <1>1, <4>1, <4>2, <4>3
    <3> QED BY <1>1, <3>1, <3>2, <3>4 DEF DialsBounded, CounterIsExact, Points
  <2> QED BY Zenon, <1>7, <2>1, <2>2, <2>3, <2>4 DEF FillOne
<1> QED BY Zenon, <1>4, <1>5, <1>6, <1>7 DEF Next

-----------------------------------------------------------------------------

LEMMA PoolInvInit == Init => PoolInv
<1> SUFFICES ASSUME Init PROVE PoolInv
  BY Zenon
<1>1. Counted = {} /\ Dialling = {}
  BY Zenon DEF Init, Counted, Dialling
<1> QED BY <1>1, FS_EmptySet, PoolAssumption
        DEF Init, PoolInv, TypeOK, IdleBounded, DialsBounded, CounterIsExact, Points

LEMMA PoolInvStep == PoolInv /\ [Next]_vars => PoolInv'
<1> SUFFICES ASSUME PoolInv, [Next]_vars PROVE PoolInv'
  BY Zenon
<1>1. idle' \in Seq(0 .. MaxAge) /\ Len(idle') <= MaxIdle
  BY Zenon, QueueStep DEF PoolInv
<1>2. filling' \in Nat /\ pc' \in [Fillers -> Points] /\ DialsBounded' /\ CounterIsExact'
  BY Zenon, TaskStep
<1> QED BY Zenon, <1>1, <1>2 DEF PoolInv, TypeOK, IdleBounded

\* Whatever the number of fill_one tasks, the queue never exceeds max_idle.
THEOREM PoolIsBounded == Spec => []IdleBounded
<1>1. PoolInv => IdleBounded
  BY Zenon DEF PoolInv
<1> QED BY PoolInvInit, PoolInvStep, <1>1, PTL DEF Spec

\* At most max_idle tasks of the pool dial at a time, though the counter they
\* check is incremented before it is compared.
THEOREM DialsAreBounded == Spec => []DialsBounded
<1>1. PoolInv => DialsBounded
  BY Zenon DEF PoolInv
<1> QED BY PoolInvInit, PoolInvStep, <1>1, PTL DEF Spec

\* The counter is the number of tasks between fetch_add and fetch_sub.
THEOREM CounterCounts == Spec => []CounterIsExact
<1>1. PoolInv => CounterIsExact
  BY Zenon DEF PoolInv
<1> QED BY PoolInvInit, PoolInvStep, <1>1, PTL DEF Spec

-----------------------------------------------------------------------------
(* The order of the queue.                                                 *)

\* take removes a prefix, time ages all streams alike and a new stream, the
\* youngest, goes to the end.
LEMMA OrderStep ==
    ASSUME TypeOK, OldestFirst, [Next]_vars
    PROVE  OldestFirst'
<1> USE PoolAssumption DEF TypeOK, OldestFirst
<1>1. CASE UNCHANGED idle
  BY Zenon, <1>1
<1>2. CASE Take
  <2>1. PICK k \in 0 .. Len(idle) :
            \/ idle' = <<>>
            \/ k < Len(idle) /\ idle' = SubSeq(idle, k + 2, Len(idle))
    BY Zenon, <1>2 DEF Take
  <2>2. CASE idle' = <<>>
    BY <2>2
  <2>3. CASE k < Len(idle) /\ idle' = SubSeq(idle, k + 2, Len(idle))
    <3>1. Len(idle') = Len(idle) - (k + 1)
      BY <2>3
    <3>2. \A i \in 1 .. Len(idle') : idle'[i] = idle[i + (k + 1)]
      BY <2>3, <3>1
    <3> QED BY <2>3, <3>1, <3>2
  <2> QED BY Zenon, <2>1, <2>2, <2>3
<1>3. CASE Tick
  <2>1. Len(idle') = Len(idle)
    BY <1>3 DEF Tick
  <2>2. \A i \in 1 .. Len(idle) : idle'[i] = IF idle[i] < MaxAge THEN idle[i] + 1 ELSE MaxAge
    BY Zenon, <1>3 DEF Tick
  <2>3. \A i \in 1 .. Len(idle) : idle[i] \in 0 .. MaxAge
    OBVIOUS
  <2> QED BY <2>1, <2>2, <2>3
<1>4. ASSUME NEW f \in Fillers, Push(f)
      PROVE  OldestFirst'
  <2>1. CASE Len(idle) < MaxIdle
    <3>1. idle' = Append(idle, 0)
      BY Zenon, <1>4, <2>1 DEF Push
    <3>2. Len(idle') = Len(idle) + 1 /\ idle'[Len(idle) + 1] = 0
      BY <3>1
    <3>3. \A i \in 1 .. Len(idle) : idle'[i] = idle[i] /\ idle[i] \in 0 .. MaxAge
      BY <3>1
    <3>4. Len(idle) \in Nat
      OBVIOUS
    <3>5. ASSUME NEW i \in 1 .. Len(idle'), NEW j \in 1 .. Len(idle'), i < j
          PROVE  idle'[i] >= idle'[j]
      <4>1. i \in 1 .. Len(idle) /\ (j \in 1 .. Len(idle) \/ j = Len(idle) + 1)
        BY <3>2, <3>4, <3>5
      <4>2. CASE j = Len(idle) + 1
        BY <3>2, <3>3, <4>1, <4>2
      <4>3. CASE j \in 1 .. Len(idle)
        BY Zenon, <3>3, <3>5, <4>1, <4>3
      <4> QED BY Zenon, <4>1, <4>2, <4>3
    <3> QED BY Zenon, <3>5
  <2>2. CASE ~(Len(idle) < MaxIdle)
    BY Zenon, <1>1, <1>4, <2>2 DEF Push
  <2> QED BY Zenon, <2>1, <2>2
<1> QED BY Zenon, <1>1, <1>2, <1>3, <1>4
        DEF Next, vars, Fill, FillOne, Check, Count, Uncount, Dialled

\* The queue is always ordered by age, so the search of take from the front
\* drops every aged stream and hands out the oldest fresh one.
THEOREM QueueIsOrdered == Spec => []OldestFirst
<1>1. Init => OldestFirst
  BY DEF Init, OldestFirst
<1>2. PoolInv => TypeOK
  BY Zenon DEF PoolInv
<1>3. TypeOK /\ OldestFirst /\ [Next]_vars => OldestFirst'
  BY Zenon, OrderStep
<1> QED BY PoolInvInit, PoolInvStep, <1>1, <1>2, <1>3, PTL DEF Spec

-----------------------------------------------------------------------------
(* The flow.                                                               *)

Parts == [what : {"salt", "head", "body"}, n : Nat]
Writes == [what : {"address", "data"}, chunks : {1, 2}]
Blocks == [what : {"address", "data"}, nonce : Nat]

\* The parts that have left the wire; one less while the salt is on it
Taken == Len(frames) + whole - Len(wire)

\* The number of a part in the stream
At(p) == IF p.what = "salt" THEN -1 ELSE NonceOf(p)

FlowTypes ==
    /\ layer \in {"ws", "ss"} /\ flow \in {"none", "open"}
    /\ pending \in Seq(Writes) /\ up \in Seq(Blocks)
    /\ frames \in Seq({"data", "ping", "close"})
    /\ whole \in Nat /\ whole <= Len(frames) /\ Len(frames) <= whole + 1
    /\ wire \in Seq(Parts) /\ got \in Seq(Parts)
    /\ salted \in BOOLEAN /\ expect \in Nat
    /\ pong \in BOOLEAN /\ out \in Seq(Nat) /\ torn \in BOOLEAN

WireInOrder ==
    \A k \in 1 .. Len(wire) :
      /\ At(wire[k]) = Taken + k - 1
      /\ IF wire[k].what = "salt" THEN layer = "ss" ELSE wire[k].n \in 1 .. Len(frames)

\* The flow has the data frames that were taken, and no others.
GivenIsTaken ==
    /\ \A i \in 1 .. Len(out) :
         out[i] \in 1 .. Len(frames) /\ frames[out[i]] = "data" /\ 2 * out[i] <= Taken
    /\ \A i, j \in 1 .. Len(out) : i < j => out[i] < out[j]
    /\ \A n \in 1 .. Len(frames) :
         frames[n] = "data" /\ 2 * n <= Taken => \E i \in 1 .. Len(out) : out[i] = n

ChunksInOrder ==
    layer = "ss" =>
      /\ ~pong /\ GivenIsTaken
      /\ \A n \in 1 .. Len(frames) : frames[n] = "data"
      /\ IF salted THEN frames # <<>> /\ expect = Taken
                   ELSE /\ expect = 0 /\ got = <<>>
                        /\ IF frames = <<>> THEN wire = <<>> ELSE Taken = -1

FramesInOrder ==
    layer = "ws" /\ ~torn =>
      /\ GivenIsTaken
      /\ pong => got = <<>>
      /\ IF got = <<>> THEN Taken % 2 = 0
         ELSE Len(got) = 1 /\ got[1].n \in 1 .. Len(frames) /\ Taken = 2 * got[1].n - 1

BlocksInOrder ==
    /\ flow = "none" => up = <<>>
    /\ layer = "ss" => /\ \A i \in 1 .. Len(up) : up[i].nonce = i - 1
                       /\ IF up = <<>> THEN flow = "open" => pending # <<>> /\ pending[1].what = "address"
                          ELSE Len(up) >= 2 /\ up[1].what = "address" /\ up[2].what = "address"

FlowInv == FlowTypes /\ WireInOrder /\ ChunksInOrder /\ FramesInOrder /\ BlocksInOrder

-----------------------------------------------------------------------------
(* The user of the pool.                                                   *)

\* Every step of a flow or of the pool is one of the pool or leaves it alone.
LEMMA PoolSimulation == [TransportNext]_allVars => [Next]_vars
<1> SUFFICES ASSUME [TransportNext]_allVars PROVE [Next]_vars
  BY Zenon
<1>1. CASE PoolStep
  BY Zenon, <1>1 DEF PoolStep, Next
<1>2. CASE OpenFlow
  BY Zenon, <1>2 DEF OpenFlow, Next
<1>3. CASE FlowWrites \/ ServerBegins \/ ServerEnds \/ PumpUp \/ ReadDataFrame
           \/ PongWritten \/ ReadChunk \/ PumpEnds
  BY Zenon, <1>3 DEF FlowWrites, ServerBegins, ServerEnds, PumpUp, ReadDataFrame, PongWritten,
              ReadChunk, PumpEnds, vars
<1>4. CASE UNCHANGED allVars
  BY Zenon, <1>4 DEF allVars, vars
<1> QED
  BY Zenon, <1>1, <1>2, <1>3, <1>4 DEF TransportNext

\* The streams are taken through take alone, so Transport implements IdlePool
\* and the theorems about the pool hold for the pool in use.
THEOREM PoolIsUsedAsSpecified == TransportSpec => PoolIsKept
<1>1. TransportInit => Init
  BY Zenon DEF TransportInit
<1> QED
  BY <1>1, PoolSimulation, PTL DEF TransportSpec, Spec, PoolIsKept

-----------------------------------------------------------------------------
(* The length field.                                                       *)

LEMMA TwoBytes ==
  ASSUME NEW n \in Nat
  PROVE  n = 256 * (n \div 256) + (n % 256)
OBVIOUS

LEMMA TwoWords ==
  ASSUME NEW n \in Nat
  PROVE  /\ n = 65536 * (n \div 65536) + (n % 65536)
         /\ n \div 65536 \in Nat /\ n % 65536 \in Nat
OBVIOUS

\* For every length that fits a u64.
LEMMA LengthIsRead ==
  ASSUME NEW n \in Nat, Words(n)[4] < 65536
  PROVE  ReadLength(WriteLength(n)) = n
<1>1. CASE n < 126
  <2>1. WriteLength(n) = <<n>>
    BY <1>1 DEF WriteLength
  <2> QED
    BY <1>1, <2>1 DEF ReadLength
<1>2. CASE n >= 126 /\ n <= 65535
  <2>2. WriteLength(n) = <<126, n \div 256, n % 256>>
    BY <1>2 DEF WriteLength
  <2> DEFINE q == n \div 256
             r == n % 256
  <2>3. n = 256 * q + r
    BY TwoBytes
  <2> HIDE DEF q, r
  <2>4. WriteLength(n) = <<126, q, r>>
    BY <2>2 DEF q, r
  <2>5. ReadLength(WriteLength(n)) = 256 * q + r
    BY <2>4 DEF ReadLength, U16
  <2> QED
    BY <2>3, <2>5
<1>3. CASE n > 65535
  <2> DEFINE k == n \div 65536
             l == k \div 65536
             m == l \div 65536
             w1 == n % 65536
             w2 == k % 65536
             w3 == l % 65536
  <2>1. Words(n) = <<w1, w2, w3, m>>
    BY DEF Words
  <2>2. /\ n = 65536 * k + w1 /\ k = 65536 * l + w2 /\ l = 65536 * m + w3
        /\ k \in Nat /\ l \in Nat /\ m \in Nat /\ w1 \in Nat /\ w2 \in Nat /\ w3 \in Nat
    BY TwoWords
  <2> HIDE DEF k, l, m, w1, w2, w3
  <2>3. WriteLength(n) = <<127, m \div 256, m % 256, w3 \div 256, w3 % 256,
                           w2 \div 256, w2 % 256, w1 \div 256, w1 % 256>>
    <3>2. Words(n)[1] = w1 /\ Words(n)[2] = w2 /\ Words(n)[3] = w3 /\ Words(n)[4] = m
      BY <2>1
    <3> QED
      BY <1>3, <3>2 DEF WriteLength
  <2>4. ReadLength(WriteLength(n)) = U64(WriteLength(n), 2)
    BY <2>3 DEF ReadLength
  <2>5. /\ U16(WriteLength(n), 2) = m /\ U16(WriteLength(n), 4) = w3
        /\ U16(WriteLength(n), 6) = w2 /\ U16(WriteLength(n), 8) = w1
    <3>1. /\ U16(WriteLength(n), 2) = 256 * (m \div 256) + (m % 256)
          /\ U16(WriteLength(n), 4) = 256 * (w3 \div 256) + (w3 % 256)
          /\ U16(WriteLength(n), 6) = 256 * (w2 \div 256) + (w2 % 256)
          /\ U16(WriteLength(n), 8) = 256 * (w1 \div 256) + (w1 % 256)
      <4> DEFINE b1 == m \div 256
                 b2 == m % 256
                 b3 == w3 \div 256
                 b4 == w3 % 256
                 b5 == w2 \div 256
                 b6 == w2 % 256
                 b7 == w1 \div 256
                 b8 == w1 % 256
      <4>1. WriteLength(n) = <<127, b1, b2, b3, b4, b5, b6, b7, b8>>
        BY <2>3
      <4> HIDE DEF b1, b2, b3, b4, b5, b6, b7, b8
      <4>2. /\ U16(WriteLength(n), 2) = 256 * b1 + b2 /\ U16(WriteLength(n), 4) = 256 * b3 + b4
            /\ U16(WriteLength(n), 6) = 256 * b5 + b6 /\ U16(WriteLength(n), 8) = 256 * b7 + b8
        BY <4>1 DEF U16
      <4> QED
        BY <4>2 DEF b1, b2, b3, b4, b5, b6, b7, b8
    <3> QED
      BY <2>2, <3>1, TwoBytes
  <2>6. U64(WriteLength(n), 2) = 65536 * (65536 * (65536 * m + w3)) + (65536 * w2 + w1)
    BY <2>5 DEF U64, U32
  <2> QED
    BY <2>2, <2>4, <2>6
<1> QED
  BY <1>1, <1>2, <1>3

\* Every length of a u64 is read as write_frame wrote it.
THEOREM LengthsSurvive == TransportSpec => []LengthsAreRead
<1>1. LengthsAreRead
  BY LengthIsRead, TransportAssumption DEF LengthsAreRead
<1> QED
  BY <1>1, PTL

-----------------------------------------------------------------------------
(* The parts of a stream.                                                  *)

LEMMA TakenType == FlowTypes => Taken \in Int /\ Len(frames) \in Nat /\ Len(wire) \in Nat
BY DEF FlowTypes, Taken

LEMMA PartAt ==
  ASSUME NEW p \in Parts
  PROVE  /\ p.what = "salt" => At(p) = -1
         /\ p.what = "head" => At(p) = 2 * p.n - 2
         /\ p.what = "body" => At(p) = 2 * p.n - 1
         /\ p.what \in {"salt", "head", "body"} /\ p.n \in Nat
BY DEF Parts, At, NonceOf

\* The first part on the wire is the next one.
LEMMA WireHead ==
  ASSUME FlowTypes, WireInOrder, wire # <<>>
  PROVE  /\ Head(wire) \in Parts /\ At(Head(wire)) = Taken
         /\ IF Head(wire).what = "salt" THEN layer = "ss" ELSE Head(wire).n \in 1 .. Len(frames)
<1>1. wire \in Seq(Parts) /\ Head(wire) = wire[1] /\ Len(wire) \in Nat /\ 1 \in 1 .. Len(wire)
  BY DEF FlowTypes
<1>2. wire[1] \in Parts
  BY <1>1
<1> QED
  BY <1>1, <1>2, TakenType DEF WireInOrder

\* The pump takes it.
LEMMA WireAdvances ==
  ASSUME FlowTypes, WireInOrder, wire # <<>>, wire' = Tail(wire), UNCHANGED <<layer, frames, whole>>
  PROVE  wire' \in Seq(Parts) /\ Taken' = Taken + 1 /\ WireInOrder'
<1>1. /\ wire' \in Seq(Parts) /\ Len(wire') = Len(wire) - 1
      /\ \A k \in 1 .. Len(wire') : k + 1 \in 1 .. Len(wire) /\ wire'[k] = wire[k + 1]
  BY DEF FlowTypes
<1>2. Taken' = Taken + 1
  BY <1>1 DEF Taken, FlowTypes
<1>3. ASSUME NEW k \in 1 .. Len(wire')
      PROVE  /\ At(wire'[k]) = Taken' + k - 1
             /\ IF wire'[k].what = "salt" THEN layer' = "ss" ELSE wire'[k].n \in 1 .. Len(frames')
  <2>1. k + 1 \in 1 .. Len(wire) /\ wire'[k] = wire[k + 1]
    BY Zenon, <1>1
  <2>2. At(wire[k + 1]) = Taken + (k + 1) - 1
    BY Zenon, <2>1 DEF WireInOrder
  <2>3. IF wire[k + 1].what = "salt" THEN layer = "ss" ELSE wire[k + 1].n \in 1 .. Len(frames)
    BY Zenon, <2>1 DEF WireInOrder
  <2> QED
    BY <1>2, <2>1, <2>2, <2>3, TakenType
<1>4. WireInOrder'
  BY Zenon, <1>3 DEF WireInOrder, At, NonceOf
<1> QED
  BY Zenon, <1>1, <1>2, <1>4

\* No data frame is completed: the flow has what it should have.
LEMMA GivenStays ==
  ASSUME FlowTypes, GivenIsTaken, UNCHANGED <<out, frames>>, Taken' = Taken + 1,
         \A n \in 1 .. Len(frames) : frames[n] = "data" => 2 * n # Taken + 1
  PROVE  GivenIsTaken'
<1>1. Taken \in Int /\ out \in Seq(Nat) /\ Len(out) \in Nat
  BY TakenType DEF FlowTypes
<1>2. \A i \in 1 .. Len(out) : out[i] \in Nat
  BY <1>1
<1> QED
  BY <1>1, <1>2 DEF GivenIsTaken

\* The data frame n is completed and given to the flow.
LEMMA GivenGrows ==
  ASSUME FlowTypes, GivenIsTaken, NEW n \in 1 .. Len(frames), frames[n] = "data",
         Taken = 2 * n - 1, Taken' = Taken + 1, out' = Append(out, n), frames' = frames
  PROVE  GivenIsTaken'
<1>1. Taken \in Int /\ out \in Seq(Nat) /\ Len(out) \in Nat /\ n \in Nat /\ Len(frames) \in Nat
  BY TakenType DEF FlowTypes
<1>2. \A i \in 1 .. Len(out) : out[i] \in Nat
  BY <1>1
<1>3. /\ Len(out') = Len(out) + 1 /\ out'[Len(out) + 1] = n
      /\ \A i \in 1 .. Len(out) : out'[i] = out[i]
  BY <1>1
<1>4. \A i \in 1 .. Len(out') :
        out'[i] \in 1 .. Len(frames) /\ frames[out'[i]] = "data" /\ 2 * out'[i] <= Taken'
  BY SMTT(30), <1>1, <1>2, <1>3 DEF GivenIsTaken
<1>5. ASSUME NEW i \in 1 .. Len(out'), NEW j \in 1 .. Len(out'), i < j
      PROVE  out'[i] < out'[j]
  <2>1. i \in 1 .. Len(out) /\ 2 * out[i] <= Taken
    BY <1>1, <1>3, <1>5 DEF GivenIsTaken
  <2>2. CASE j = Len(out) + 1
    BY <1>1, <1>2, <1>3, <2>1, <2>2
  <2>3. CASE j \in 1 .. Len(out)
    BY Zenon, <1>1, <1>3, <1>5, <2>1, <2>3 DEF GivenIsTaken
  <2> QED
    BY <1>1, <1>3, <2>2, <2>3
<1>6. ASSUME NEW m \in 1 .. Len(frames), frames[m] = "data", 2 * m <= Taken'
      PROVE  \E i \in 1 .. Len(out') : out'[i] = m
  <2>1. CASE m = n
    BY <1>1, <1>3, <2>1
  <2>2. CASE m # n
    <3>1. 2 * m <= Taken
      BY <1>1, <1>6, <2>2
    <3>2. PICK i \in 1 .. Len(out) : out[i] = m
      BY Zenon, <1>6, <3>1 DEF GivenIsTaken
    <3>3. i \in 1 .. Len(out') /\ out'[i] = m
      BY <1>1, <1>3, <3>2
    <3> QED
      BY Zenon, <3>3
  <2> QED
    BY Zenon, <2>1, <2>2
<1> QED
  BY Zenon, <1>4, <1>5, <1>6 DEF GivenIsTaken

\* A frame that the server has only begun is not due yet.
LEMMA GivenBegins ==
  ASSUME FlowTypes, GivenIsTaken, out' = out, Taken' = Taken, whole = Len(frames),
         NEW kind \in {"data", "ping", "close"}, frames' = Append(frames, kind)
  PROVE  GivenIsTaken'
<1>1. Taken \in Int /\ out \in Seq(Nat) /\ Len(out) \in Nat /\ Len(frames) \in Nat
  BY TakenType DEF FlowTypes
<1>2. \A i \in 1 .. Len(out) : out[i] \in Nat
  BY <1>1
<1>3. Taken < 2 * (Len(frames) + 1)
  BY <1>1, TakenType DEF Taken
<1>4. Len(frames') = Len(frames) + 1 /\ \A n \in 1 .. Len(frames) : frames'[n] = frames[n]
  BY DEF FlowTypes
<1> QED
  BY <1>1, <1>2, <1>3, <1>4 DEF GivenIsTaken

-----------------------------------------------------------------------------
(* Sequences.                                                              *)

LEMMA EmptySeq == \A S : <<>> \in Seq(S) /\ Len(<<>>) = 0
OBVIOUS

LEMMA OneSeq ==
  ASSUME NEW S, NEW x \in S
  PROVE  <<x>> \in Seq(S) /\ Len(<<x>>) = 1 /\ <<x>>[1] = x
OBVIOUS

LEMMA FunctionSeq ==
  ASSUME NEW S, NEW n \in Nat, NEW f \in [1 .. n -> S]
  PROVE  f \in Seq(S) /\ Len(f) = n
OBVIOUS

LEMMA JoinedSeq ==
  ASSUME NEW S, NEW a \in Seq(S), NEW b \in Seq(S), NEW c, c = a \o b
  PROVE  /\ c \in Seq(S) /\ Len(c) = Len(a) + Len(b) /\ Len(a) \in Nat /\ Len(b) \in Nat
         /\ \A i \in 1 .. Len(a) : c[i] = a[i]
         /\ \A i \in 1 .. Len(b) : c[Len(a) + i] = b[i]
OBVIOUS

-----------------------------------------------------------------------------
(* The steps of a flow.                                                    *)

\* A stream that nothing has been sent on
Unused ==
    /\ layer \in {"ws", "ss"} /\ flow = "none"
    /\ pending = <<>> /\ up = <<>>
    /\ frames = <<>> /\ whole = 0 /\ wire = <<>> /\ got = <<>>
    /\ salted = FALSE /\ expect = 0
    /\ pong = FALSE /\ out = <<>> /\ torn = FALSE

LEMMA UnusedInv == Unused => FlowInv
<1> SUFFICES ASSUME Unused PROVE FlowInv
  BY Zenon
<1>1. FlowTypes
  <2>1. /\ pending \in Seq(Writes) /\ up \in Seq(Blocks) /\ frames \in Seq({"data", "ping", "close"})
        /\ wire \in Seq(Parts) /\ got \in Seq(Parts) /\ out \in Seq(Nat) /\ Len(frames) = 0
    BY EmptySeq, Zenon DEF Unused
  <2>2. whole = 0 /\ whole \in Nat /\ expect \in Nat
    BY Zenon DEF Unused
  <2>3. whole <= Len(frames) /\ Len(frames) <= whole + 1
    BY <2>1, <2>2
  <2> QED
    BY <2>1, <2>2, <2>3, Zenon DEF Unused, FlowTypes
<1>2. Taken = 0 /\ Len(wire) = 0 /\ Len(frames) = 0 /\ Len(out) = 0 /\ Len(up) = 0
  BY DEF Unused, Taken
<1>3. GivenIsTaken /\ WireInOrder
  BY <1>2 DEF GivenIsTaken, WireInOrder
<1> QED
  BY <1>1, <1>2, <1>3 DEF Unused, FlowInv, ChunksInOrder, FramesInOrder, BlocksInOrder

LEMMA ReturnInv ==
  ASSUME FlowInv, PumpReturns, layer' = layer
  PROVE  FlowInv'
<1>1. Unused'
  BY Zenon DEF PumpReturns, Unused, FlowInv, FlowTypes
<1> QED
  BY <1>1, UnusedInv, PTL

\* The stream from the server is as it was.
SameStream == UNCHANGED <<layer, frames, whole, wire, got, salted, expect, pong, out, torn>>

LEMMA SameStreamInv ==
  ASSUME FlowInv, SameStream
  PROVE  WireInOrder' /\ ChunksInOrder' /\ FramesInOrder'
<1>1. Taken' = Taken
  BY Zenon DEF SameStream, Taken
<1>2. GivenIsTaken' <=> GivenIsTaken
  BY Zenon, <1>1 DEF SameStream, GivenIsTaken
<1>3. WireInOrder'
  BY Zenon, <1>1 DEF SameStream, FlowInv, WireInOrder, At, NonceOf
<1>4. ChunksInOrder'
  BY Zenon, <1>1, <1>2 DEF SameStream, FlowInv, ChunksInOrder
<1>5. FramesInOrder'
  BY Zenon, <1>1, <1>2 DEF SameStream, FlowInv, FramesInOrder
<1> QED
  BY Zenon, <1>3, <1>4, <1>5

LEMMA OpenFlowInv ==
  ASSUME FlowInv, OpenFlow
  PROVE  FlowInv'
<1>1. SameStream /\ up' = up /\ flow' = "open" /\ flow = "none"
  BY Zenon DEF OpenFlow, SameStream
<1>2. pending' \in Seq(Writes) /\ (layer = "ss" => pending' # <<>> /\ pending'[1].what = "address")
  <2>1. CASE layer = "ss"
    <3>1. pending' = <<[what |-> "address", chunks |-> 1]>>
      BY Zenon, <2>1 DEF OpenFlow
    <3>2. [what |-> "address", chunks |-> 1] \in Writes
      BY Zenon DEF Writes
    <3> QED
      BY <3>1, <3>2
  <2>2. CASE layer # "ss"
    BY <2>2 DEF OpenFlow
  <2> QED
    BY Zenon, <2>1, <2>2
<1>3. FlowTypes'
  BY Zenon, <1>1, <1>2 DEF FlowInv, FlowTypes, SameStream
<1>4. BlocksInOrder'
  BY Zenon, <1>1, <1>2 DEF FlowInv, BlocksInOrder, SameStream
<1> QED
  BY Zenon, <1>1, <1>3, <1>4, SameStreamInv DEF FlowInv

LEMMA FlowWritesInv ==
  ASSUME FlowInv, FlowWrites
  PROVE  FlowInv'
<1>1. SameStream /\ up' = up /\ flow' = flow
  BY Zenon DEF FlowWrites, SameStream
<1>2. PICK n \in {1, 2} : pending' = Append(pending, [what |-> "data", chunks |-> n])
  BY Zenon DEF FlowWrites
<1>3. pending \in Seq(Writes) /\ [what |-> "data", chunks |-> n] \in Writes
  BY Zenon DEF FlowInv, FlowTypes, Writes
<1>4. /\ pending' \in Seq(Writes) /\ pending' # <<>>
      /\ pending # <<>> => pending'[1] = pending[1]
  BY <1>2, <1>3
<1>5. FlowTypes'
  BY Zenon, <1>1, <1>4 DEF FlowInv, FlowTypes, SameStream
<1>6. BlocksInOrder'
  BY Zenon, <1>1, <1>4 DEF FlowInv, BlocksInOrder, SameStream
<1> QED
  BY Zenon, <1>1, <1>5, <1>6, SameStreamInv DEF FlowInv

\* What is sealed goes on where the blocks on the wire end.
LEMMA Sealed ==
  ASSUME FlowTypes, layer = "ss", NEW w \in Writes
  PROVE  /\ Seal(w) \in Seq(Blocks) /\ Len(Seal(w)) >= 2
         /\ \A i \in 1 .. Len(Seal(w)) : Seal(w)[i].nonce = Len(up) + i - 1 /\ Seal(w)[i].what = w.what
<1>1. Len(up) \in Nat /\ 2 * w.chunks \in Nat /\ 2 * w.chunks >= 2 /\ w.what \in {"address", "data"}
  BY DEF FlowTypes, Writes
<1>2. \A i \in 1 .. 2 * w.chunks : [what |-> w.what, nonce |-> Len(up) + i - 1] \in Blocks
  BY <1>1 DEF Blocks
<1>3. Seal(w) = [i \in 1 .. 2 * w.chunks |-> [what |-> w.what, nonce |-> Len(up) + i - 1]]
  BY Zenon DEF Seal
<1>4. Seal(w) \in [1 .. 2 * w.chunks -> Blocks]
  BY Zenon, <1>2, <1>3
<1>5. Seal(w) \in Seq(Blocks) /\ Len(Seal(w)) = 2 * w.chunks
  BY Zenon, <1>1, <1>4, FunctionSeq
<1>6. \A i \in 1 .. 2 * w.chunks : Seal(w)[i] = [what |-> w.what, nonce |-> Len(up) + i - 1]
  BY Zenon, <1>3
<1>7. ASSUME NEW i \in 1 .. Len(Seal(w))
      PROVE  Seal(w)[i].nonce = Len(up) + i - 1 /\ Seal(w)[i].what = w.what
  <2>1. Seal(w)[i] = [what |-> w.what, nonce |-> Len(up) + i - 1]
    BY <1>5, <1>6, Zenon
  <2> QED
    BY <2>1
<1>8. Len(Seal(w)) >= 2
  BY Zenon, <1>1, <1>5
<1> QED
  BY Zenon, <1>5, <1>7, <1>8

LEMMA PumpUpInv ==
  ASSUME FlowInv, PumpUp
  PROVE  FlowInv'
<1> USE DEF FlowInv
<1>1. /\ flow = "open" /\ pending # <<>> /\ pending \in Seq(Writes) /\ up \in Seq(Blocks)
      /\ up' = up \o Seal(Head(pending)) /\ pending' = Tail(pending)
      /\ got' = <<>> /\ pong' = FALSE
      /\ layer' = layer /\ flow' = flow /\ frames' = frames /\ whole' = whole /\ wire' = wire
      /\ salted' = salted /\ expect' = expect /\ out' = out
  BY Zenon DEF PumpUp, FlowTypes
<1>2. torn' \in BOOLEAN /\ (~torn' => ~torn /\ got = <<>> /\ ~pong)
  BY Zenon DEF PumpUp, FlowTypes
<1>3. Head(pending) \in Writes /\ Head(pending) = pending[1] /\ pending' \in Seq(Writes)
  BY <1>1
<1>4. /\ up' \in Seq(Blocks) /\ up' # <<>>
      /\ layer = "ss" => /\ \A i \in 1 .. Len(up') : up'[i].nonce = i - 1
                         /\ Len(up') >= 2 /\ up'[1].what = "address" /\ up'[2].what = "address"
  <2>1. CASE layer = "ws"
    <3>1. [what |-> Head(pending).what, nonce |-> Len(up)] \in Blocks
      BY <1>1, <1>3 DEF Writes, Blocks
    <3>2. Seal(Head(pending)) = <<[what |-> Head(pending).what, nonce |-> Len(up)]>>
      BY Zenon, <2>1 DEF Seal
    <3>3. Seal(Head(pending)) \in Seq(Blocks) /\ Len(Seal(Head(pending))) = 1
      BY Zenon, <3>1, <3>2, OneSeq
    <3>4. up' \in Seq(Blocks) /\ Len(up') = Len(up) + Len(Seal(Head(pending))) /\ Len(up) \in Nat
      <4>1. up \in Seq(Blocks) /\ up' = up \o Seal(Head(pending))
        BY Zenon, <1>1
      <4> QED
        BY <3>3, <4>1, JoinedSeq
    <3>5. Len(up') # 0
      BY <3>3, <3>4
    <3> QED
      BY Zenon, <2>1, <3>4, <3>5, EmptySeq
  <2>2. CASE layer = "ss"
    <3> DEFINE s == Seal(Head(pending))
    <3>1. /\ s \in Seq(Blocks) /\ Len(s) >= 2
          /\ \A i \in 1 .. Len(s) : s[i].nonce = Len(up) + i - 1 /\ s[i].what = Head(pending).what
      BY Zenon, <1>3, <2>2, Sealed
    <3> HIDE DEF s
    <3>2. up' = up \o s
      BY Zenon, <1>1 DEF s
    <3>3. /\ up' \in Seq(Blocks) /\ Len(up') = Len(up) + Len(s) /\ Len(up) \in Nat /\ Len(s) \in Nat
          /\ \A i \in 1 .. Len(up) : up'[i] = up[i]
          /\ \A i \in 1 .. Len(s) : up'[Len(up) + i] = s[i]
      <4>1. up \in Seq(Blocks) /\ s \in Seq(Blocks)
        BY Zenon, <1>1, <3>1
      <4> QED
        BY <3>2, <4>1, JoinedSeq
    <3>4. ASSUME NEW i \in 1 .. Len(up')
          PROVE  up'[i].nonce = i - 1
      <4>1. CASE i \in 1 .. Len(up)
        BY Zenon, <2>2, <3>3, <4>1 DEF BlocksInOrder
      <4>2. CASE i \notin 1 .. Len(up)
        <5>1. i - Len(up) \in 1 .. Len(s) /\ i = Len(up) + (i - Len(up))
          BY <3>3, <4>2
        <5>2. up'[i] = s[i - Len(up)]
          BY <3>3, <5>1, Zenon
        <5>3. s[i - Len(up)].nonce = Len(up) + (i - Len(up)) - 1
          BY <3>1, <5>1, Zenon
        <5> QED
          BY <3>3, <5>2, <5>3
      <4> QED
        BY Zenon, <4>1, <4>2
    <3>5. up'[1].what = "address" /\ up'[2].what = "address"
      <4>1. CASE up = <<>>
        <5>1. pending[1].what = "address" /\ Len(up) = 0
          BY Zenon, <1>1, <2>2, <4>1 DEF BlocksInOrder
        <5>2. up'[1] = s[1] /\ up'[2] = s[2] /\ 1 \in 1 .. Len(s) /\ 2 \in 1 .. Len(s)
          BY <3>1, <3>3, <5>1
        <5> QED
          BY Zenon, <1>3, <3>1, <5>1, <5>2
      <4>2. CASE up # <<>>
        BY <2>2, <3>3, <4>2 DEF BlocksInOrder
      <4> QED
        BY Zenon, <4>1, <4>2
    <3> QED
      BY <3>1, <3>3, <3>4, <3>5
  <2> QED
    BY Zenon, <2>1, <2>2 DEF FlowTypes
<1>5. FlowTypes'
  BY <1>1, <1>2, <1>3, <1>4, EmptySeq, Zenon DEF FlowTypes
<1>6. Taken' = Taken
  BY Zenon, <1>1 DEF Taken
<1>7. GivenIsTaken' <=> GivenIsTaken
  BY Zenon, <1>1, <1>6 DEF GivenIsTaken
<1>8. WireInOrder'
  BY Zenon, <1>1, <1>6 DEF WireInOrder, At, NonceOf
<1>9. ChunksInOrder'
  BY Zenon, <1>1, <1>6, <1>7 DEF ChunksInOrder
<1>10. FramesInOrder'
  BY Zenon, <1>1, <1>2, <1>6, <1>7 DEF FramesInOrder
<1>11. BlocksInOrder'
  BY Zenon, <1>1, <1>4 DEF BlocksInOrder
<1> QED
  BY Zenon, <1>5, <1>8, <1>9, <1>10, <1>11

LEMMA ServerBeginsInv ==
  ASSUME FlowInv, ServerBegins
  PROVE  FlowInv'
<1> USE DEF FlowInv
<1> DEFINE n == Len(frames) + 1
           h == Part("head", n)
           s == Part("salt", 0)
           first == layer = "ss" /\ frames = <<>>
<1>1. /\ flow = "open" /\ whole = Len(frames)
      /\ layer' = layer /\ flow' = flow /\ pending' = pending /\ up' = up /\ whole' = whole /\ got' = got
      /\ salted' = salted /\ expect' = expect /\ pong' = pong /\ out' = out /\ torn' = torn
  BY Zenon DEF ServerBegins
<1>2. PICK kind \in {"data", "ping", "close"} :
        frames' = Append(frames, kind) /\ (layer = "ss" => kind = "data")
  BY Zenon DEF ServerBegins, FlowTypes
<1>3. /\ frames \in Seq({"data", "ping", "close"}) /\ wire \in Seq(Parts) /\ whole \in Nat
      /\ Len(frames) \in Nat /\ Len(wire) \in Nat
  BY DEF FlowTypes
<1>4. /\ frames' \in Seq({"data", "ping", "close"}) /\ Len(frames') = n /\ frames'[n] = kind
      /\ frames' # <<>> /\ \A i \in 1 .. Len(frames) : frames'[i] = frames[i]
  BY <1>2, <1>3
<1>5. /\ h \in Parts /\ s \in Parts /\ h.what = "head" /\ h.n = n /\ s.what = "salt"
      /\ At(h) = 2 * n - 2 /\ At(s) = -1
  BY <1>3 DEF Part, Parts, At, NonceOf
<1> HIDE DEF h, s
<1>6. wire' \in Seq(Parts) /\ WireInOrder'
      /\ Taken' = (IF first THEN -1 ELSE Taken)
  <2>1. CASE first
    <3>1. ~salted /\ wire = <<>> /\ Len(frames) = 0 /\ n = 1
      BY <1>3, <2>1 DEF ChunksInOrder
    <3>2. wire' = (<<>> \o <<s>>) \o <<h>>
      <4>1. wire' = (wire \o (IF first THEN <<s>> ELSE <<>>)) \o <<h>>
        BY Zenon DEF ServerBegins, s, h
      <4> QED
        BY <2>1, <3>1, <4>1, Zenon
    <3>3. wire' \in Seq(Parts) /\ Len(wire') = 2 /\ wire'[1] = s /\ wire'[2] = h
      <4>1. h \in Parts /\ s \in Parts
        BY Zenon, <1>5
      <4> DEFINE a == <<>> \o <<s>>
      <4>2. a \in Seq(Parts)
        BY <4>1
      <4>6. Len(a) = 1 /\ a[1] = s
        BY <4>1
      <4>3. wire' = a \o <<h>>
        BY Zenon, <3>2
      <4> HIDE DEF a
      <4>4. wire' = Append(a, h)
        BY <4>1, <4>2, <4>3
      <4>5. /\ wire' \in Seq(Parts) /\ Len(wire') = Len(a) + 1 /\ wire'[Len(a) + 1] = h
            /\ \A k \in 1 .. Len(a) : wire'[k] = a[k]
        BY <4>1, <4>2, <4>4
      <4> QED
        BY <4>5, <4>6
    <3>4. Taken' = -1
      BY <1>1, <1>3, <1>4, <3>1, <3>3 DEF Taken
    <3>5. WireInOrder'
      BY <1>1, <1>4, <1>5, <2>1, <3>1, <3>3, <3>4 DEF WireInOrder, At, NonceOf
    <3> QED
      BY Zenon, <2>1, <3>3, <3>4, <3>5
  <2>2. CASE ~first
    <3>1. wire' = Append(wire, h)
      <4>1. wire' = (wire \o <<>>) \o <<h>>
        BY Zenon, <2>2 DEF ServerBegins, h
      <4> QED
        BY <1>3, <1>5, <4>1
    <3>2. /\ wire' \in Seq(Parts) /\ Len(wire') = Len(wire) + 1 /\ wire'[Len(wire) + 1] = h
          /\ \A k \in 1 .. Len(wire) : wire'[k] = wire[k]
      BY <1>3, <1>5, <3>1
    <3>3. Taken' = Taken /\ Taken \in Int
      BY <1>1, <1>3, <1>4, <3>2 DEF Taken
    <3>4. At(h) = Taken + (Len(wire) + 1) - 1
      BY <1>1, <1>3, <1>5 DEF Taken
    <3>5. ASSUME NEW k \in 1 .. Len(wire')
          PROVE  /\ At(wire'[k]) = Taken' + k - 1
                 /\ IF wire'[k].what = "salt" THEN layer' = "ss" ELSE wire'[k].n \in 1 .. Len(frames')
      <4>1. CASE k \in 1 .. Len(wire)
        <5>1. /\ At(wire[k]) = Taken + k - 1
              /\ IF wire[k].what = "salt" THEN layer = "ss" ELSE wire[k].n \in 1 .. Len(frames)
          BY Zenon, <4>1 DEF WireInOrder
        <5>2. wire'[k] = wire[k]
          BY Zenon, <3>2, <4>1
        <5> QED
          BY <1>1, <1>3, <1>4, <3>3, <5>1, <5>2
      <4>2. CASE k = Len(wire) + 1
        BY <1>3, <1>4, <1>5, <3>2, <3>3, <3>4, <4>2
      <4> QED
        BY <1>3, <3>2, <4>1, <4>2
    <3>6. WireInOrder'
      BY Zenon, <3>5 DEF WireInOrder, At, NonceOf
    <3> QED
      BY Zenon, <2>2, <3>2, <3>3, <3>6
  <2> QED
    BY Zenon, <2>1, <2>2
<1>7. GivenIsTaken => GivenIsTaken'
  <2>1. CASE first /\ GivenIsTaken
    <3>1. Len(frames) = 0 /\ n = 1 /\ Taken' = -1 /\ Len(frames') = 1
      BY <1>3, <1>4, <1>6, <2>1
    <3>2. Len(out) \in Nat /\ \A i \in 1 .. Len(out) : out[i] \in 1 .. 0
      BY <2>1, <3>1 DEF GivenIsTaken, FlowTypes
    <3>3. Len(out) = 0
      BY <3>2
    <3> QED
      BY <1>1, <3>1, <3>3 DEF GivenIsTaken
  <2>2. CASE ~first
    BY Zenon, <1>1, <1>2, <1>6, <2>2, GivenBegins
  <2> QED
    BY Zenon, <2>1, <2>2
<1>8. FlowTypes'
  <2>1. whole' <= Len(frames') /\ Len(frames') <= whole' + 1
    BY <1>1, <1>3, <1>4
  <2> QED
    BY <1>1, <1>4, <1>6, <2>1, Zenon DEF FlowTypes
<1>9. ChunksInOrder'
  <2> SUFFICES ASSUME layer = "ss" PROVE ChunksInOrder'
    BY Zenon, <1>1 DEF ChunksInOrder
  <2>1. \A i \in 1 .. Len(frames') : frames'[i] = "data"
    BY <1>2, <1>3, <1>4 DEF ChunksInOrder
  <2> QED
    BY Zenon, <1>1, <1>4, <1>6, <1>7, <2>1 DEF ChunksInOrder
<1>10. FramesInOrder'
  <2> SUFFICES ASSUME layer = "ws", ~torn PROVE FramesInOrder'
    BY Zenon, <1>1 DEF FramesInOrder
  <2>1. Taken' = Taken /\ Len(frames) <= Len(frames')
    BY <1>3, <1>4, <1>6
  <2> QED
    BY <1>1, <1>3, <1>4, <1>7, <2>1 DEF FramesInOrder, FlowTypes
<1>11. BlocksInOrder'
  BY Zenon, <1>1 DEF BlocksInOrder
<1> QED
  BY Zenon, <1>6, <1>8, <1>9, <1>10, <1>11

LEMMA ServerEndsInv ==
  ASSUME FlowInv, ServerEnds
  PROVE  FlowInv'
<1> USE DEF FlowInv
<1> DEFINE n == Len(frames)
           b == Part("body", n)
<1>1. /\ flow = "open" /\ whole < n /\ whole' = n /\ wire' = Append(wire, b)
      /\ layer' = layer /\ flow' = flow /\ pending' = pending /\ up' = up /\ frames' = frames /\ got' = got
      /\ salted' = salted /\ expect' = expect /\ pong' = pong /\ out' = out /\ torn' = torn
  BY Zenon DEF ServerEnds
<1>2. wire \in Seq(Parts) /\ whole \in Nat /\ n \in Nat /\ Len(wire) \in Nat /\ n = whole + 1
  BY <1>1 DEF FlowTypes
<1>3. b \in Parts /\ b.what = "body" /\ b.n = n /\ At(b) = 2 * n - 1
  BY <1>2 DEF Part, Parts, At, NonceOf
<1> HIDE DEF b
<1>4. /\ wire' \in Seq(Parts) /\ Len(wire') = Len(wire) + 1 /\ wire'[Len(wire) + 1] = b
      /\ \A k \in 1 .. Len(wire) : wire'[k] = wire[k]
  BY <1>1, <1>2, <1>3
<1>5. Taken' = Taken /\ Taken \in Int
  BY <1>1, <1>2, <1>4 DEF Taken
<1>6. At(b) = Taken + (Len(wire) + 1) - 1
  BY <1>2, <1>3 DEF Taken
<1>7. ASSUME NEW k \in 1 .. Len(wire')
      PROVE  /\ At(wire'[k]) = Taken' + k - 1
             /\ IF wire'[k].what = "salt" THEN layer' = "ss" ELSE wire'[k].n \in 1 .. Len(frames')
  <2>1. CASE k \in 1 .. Len(wire)
    BY Zenon, <1>1, <1>4, <1>5, <2>1 DEF WireInOrder
  <2>2. CASE k = Len(wire) + 1
    BY <1>1, <1>2, <1>3, <1>4, <1>5, <1>6, <2>2
  <2> QED
    BY <1>2, <1>4, <2>1, <2>2
<1>8. WireInOrder'
  BY Zenon, <1>7 DEF WireInOrder, At, NonceOf
<1>9. GivenIsTaken' <=> GivenIsTaken
  BY Zenon, <1>1, <1>5 DEF GivenIsTaken
<1>10. FlowTypes'
  <2>1. whole' \in Nat /\ whole' <= Len(frames') /\ Len(frames') <= whole' + 1
    BY <1>1, <1>2
  <2> QED
    BY <1>1, <1>4, <2>1, Zenon DEF FlowTypes
<1>11. ChunksInOrder'
  <2>1. frames = <<>> => n = 0
    OBVIOUS
  <2> QED
    BY <1>1, <1>2, <1>5, <1>9, <2>1 DEF ChunksInOrder
<1>12. FramesInOrder'
  BY Zenon, <1>1, <1>5, <1>9 DEF FramesInOrder
<1>13. BlocksInOrder'
  BY Zenon, <1>1 DEF BlocksInOrder
<1> QED
  BY Zenon, <1>8, <1>10, <1>11, <1>12, <1>13

\* What reading any part keeps.
LEMMA AdvanceInv ==
  ASSUME FlowInv, wire # <<>>, layer' = layer, salted' \in BOOLEAN, expect' \in Nat,
         NEW parts \in Seq(Parts), NEW given \in Seq(Nat), NEW answer \in BOOLEAN,
         Advance(parts, given, answer)
  PROVE  FlowTypes' /\ WireInOrder' /\ BlocksInOrder' /\ Taken' = Taken + 1
<1> USE DEF FlowInv
<1>1. /\ wire' = Tail(wire) /\ got' = parts /\ out' = given /\ pong' = answer
      /\ flow' = flow /\ pending' = pending /\ up' = up /\ frames' = frames /\ whole' = whole /\ torn' = torn
  BY Zenon DEF Advance
<1>2. wire' \in Seq(Parts) /\ Taken' = Taken + 1 /\ WireInOrder'
  BY Zenon, <1>1, WireAdvances
<1>3. FlowTypes'
  BY <1>1, <1>2, Zenon DEF FlowTypes
<1>4. BlocksInOrder'
  BY Zenon, <1>1 DEF BlocksInOrder
<1> QED
  BY Zenon, <1>2, <1>3, <1>4

LEMMA Parity ==
  ASSUME NEW a \in Int, NEW b \in Int
  PROVE  2 * a - 2 # 2 * b - 1 /\ ((2 * a - 1) + 1) % 2 = 0 /\ (2 * a - 1 = 2 * b - 1 => a = b)
BY SMTT(30)

LEMMA ReadDataFrameInv ==
  ASSUME FlowInv, ReadDataFrame
  PROVE  FlowInv'
<1> USE DEF FlowInv
<1> DEFINE p == Head(wire)
           g == got[1].n
           kind == IF got = <<>> THEN p.what ELSE frames[g]
<1>1. layer = "ws" /\ layer' = layer /\ wire # <<>> /\ ~pong
  BY Zenon DEF ReadDataFrame
<1>2. /\ p \in Parts /\ At(p) = Taken /\ p.what # "salt" /\ p.n \in 1 .. Len(frames)
      /\ Taken \in Int /\ Len(frames) \in Nat /\ p.n \in Nat
  BY <1>1, WireHead, TakenType
<1>3. /\ p.what \in {"head", "body"}
      /\ p.what = "head" => Taken = 2 * p.n - 2
      /\ p.what = "body" => Taken = 2 * p.n - 1
  BY Zenon, <1>2, PartAt
<1>4. ASSUME NEW parts \in Seq(Parts), NEW given \in Seq(Nat), NEW answer \in BOOLEAN,
             Advance(parts, given, answer), UNCHANGED <<salted, expect>>,
             ~torn => /\ GivenIsTaken'
                      /\ answer => parts = <<>>
                      /\ IF parts = <<>> THEN (Taken + 1) % 2 = 0
                         ELSE Len(parts) = 1 /\ parts[1].n \in 1 .. Len(frames)
                              /\ Taken + 1 = 2 * parts[1].n - 1
      PROVE  FlowInv'
  <2>1. salted' \in BOOLEAN /\ expect' \in Nat
    BY Zenon, <1>4 DEF FlowTypes
  <2>2. FlowTypes' /\ WireInOrder' /\ BlocksInOrder' /\ Taken' = Taken + 1
    BY Zenon, <1>1, <1>4, <2>1, AdvanceInv
  <2>3. ChunksInOrder'
    BY Zenon, <1>1 DEF ChunksInOrder
  <2>4. FramesInOrder'
    BY Zenon, <1>1, <1>4, <2>2 DEF FramesInOrder, Advance
  <2> QED
    BY Zenon, <2>2, <2>3, <2>4
<1>5. /\ out \in Seq(Nat) /\ <<>> \in Seq(Parts) /\ <<p>> \in Seq(Parts) /\ Len(<<p>>) = 1 /\ <<p>>[1] = p
      /\ Append(out, p.n) \in Seq(Nat) /\ Append(out, 0) \in Seq(Nat) /\ <<p>> # <<>>
  <2>1. out \in Seq(Nat)
    BY Zenon DEF FlowTypes
  <2>2. <<p>> \in Seq(Parts) /\ Len(<<p>>) = 1 /\ <<p>>[1] = p
    BY <1>2, OneSeq, Zenon
  <2> QED
    BY <1>2, <2>1, <2>2, EmptySeq
<1>6. ~torn => IF got = <<>> THEN p.what = "head" /\ Taken % 2 = 0 /\ Taken = 2 * p.n - 2
               ELSE /\ g \in 1 .. Len(frames) /\ Taken = 2 * g - 1 /\ p.n = g
                    /\ frames[g] \in {"data", "ping", "close"}
  <2> SUFFICES ASSUME ~torn
               PROVE  IF got = <<>> THEN p.what = "head" /\ Taken % 2 = 0 /\ Taken = 2 * p.n - 2
                      ELSE /\ g \in 1 .. Len(frames) /\ Taken = 2 * g - 1 /\ p.n = g
                           /\ frames[g] \in {"data", "ping", "close"}
    BY Zenon
  <2>1. CASE got = <<>>
    BY <1>1, <1>2, <1>3, <2>1 DEF FramesInOrder
  <2>2. CASE got # <<>>
    <3>1. g \in 1 .. Len(frames) /\ Taken = 2 * g - 1
      BY Zenon, <1>1, <2>2 DEF FramesInOrder
    <3>2. g \in Int /\ p.n \in Int
      BY <1>2, <3>1
    <3>3. p.n = g
      BY Zenon, <1>3, <3>1, <3>2, Parity
    <3>4. frames[g] \in {"data", "ping", "close"}
      BY <3>1 DEF FlowTypes
    <3> QED
      BY Zenon, <2>2, <3>1, <3>3, <3>4
  <2> QED
    BY Zenon, <2>1, <2>2
<1> HIDE DEF p
<1>7. CASE kind = "head" /\ Advance(<<p>>, out, FALSE) /\ UNCHANGED <<salted, expect>>
  <2>1. ASSUME ~torn
        PROVE  GivenIsTaken' /\ p.n \in 1 .. Len(frames) /\ Taken + 1 = 2 * p.n - 1
    <3>1. got = <<>> /\ Taken = 2 * p.n - 2
      BY Zenon, <1>6, <1>7, <2>1
    <3>2. GivenIsTaken /\ out' = out /\ frames' = frames /\ Taken' = Taken + 1
      BY Zenon, <1>1, <1>7, <2>1, WireAdvances DEF FramesInOrder, Advance
    <3>3. \A n \in 1 .. Len(frames) : 2 * n # Taken + 1
      BY <1>2, <3>1
    <3> QED
      BY <1>2, <3>1, <3>2, <3>3, GivenStays
  <2> QED
    BY Zenon, <1>4, <1>5, <1>7, <2>1
<1>8. CASE kind = "data" /\ Advance(<<>>, Append(out, p.n), FALSE) /\ UNCHANGED <<salted, expect>>
  <2>1. ASSUME ~torn
        PROVE  GivenIsTaken' /\ (Taken + 1) % 2 = 0
    <3>1. g \in 1 .. Len(frames) /\ Taken = 2 * g - 1 /\ p.n = g /\ frames[g] = "data"
      BY Zenon, <1>6, <1>8, <2>1
    <3>2. GivenIsTaken /\ out' = Append(out, g) /\ frames' = frames /\ Taken' = Taken + 1
      BY Zenon, <1>1, <1>8, <2>1, <3>1, WireAdvances DEF FramesInOrder, Advance
    <3>3. GivenIsTaken'
      BY Zenon, <3>1, <3>2, GivenGrows
    <3>4. (Taken + 1) % 2 = 0
      <4>1. g \in Int
        BY <1>2, <3>1
      <4> QED
        BY Zenon, <3>1, <4>1, Parity
    <3> QED
      BY Zenon, <3>3, <3>4
  <2> QED
    BY Zenon, <1>4, <1>5, <1>8, <2>1
<1>9. CASE kind = "ping" /\ Advance(<<>>, out, TRUE) /\ UNCHANGED <<salted, expect>>
  <2>1. ASSUME ~torn
        PROVE  GivenIsTaken' /\ (Taken + 1) % 2 = 0
    <3>1. g \in 1 .. Len(frames) /\ Taken = 2 * g - 1 /\ frames[g] = "ping"
      BY Zenon, <1>6, <1>9, <2>1
    <3>2. GivenIsTaken /\ out' = out /\ frames' = frames /\ Taken' = Taken + 1
      BY Zenon, <1>1, <1>9, <2>1, WireAdvances DEF FramesInOrder, Advance
    <3>3. \A n \in 1 .. Len(frames) : frames[n] = "data" => 2 * n # Taken + 1
      <4>1. \A n \in 1 .. Len(frames) : 2 * n = Taken + 1 => n = g
        BY <1>2, <3>1
      <4> QED
        BY Zenon, <3>1, <4>1
    <3>4. GivenIsTaken'
      BY Zenon, <3>2, <3>3, GivenStays
    <3>5. (Taken + 1) % 2 = 0
      <4>1. g \in Int
        BY <1>2, <3>1
      <4> QED
        BY Zenon, <3>1, <4>1, Parity
    <3> QED
      BY Zenon, <3>4, <3>5
  <2> QED
    BY Zenon, <1>4, <1>5, <1>9, <2>1
<1>10. CASE kind = "body" /\ Advance(<<>>, Append(out, 0), FALSE) /\ UNCHANGED <<salted, expect>>
  <2>1. torn
    BY Zenon, <1>6, <1>10
  <2> QED
    BY Zenon, <1>4, <1>5, <1>10, <2>1
<1>11. CASE PumpReturns
  BY Zenon, <1>1, <1>11, ReturnInv
<1> QED
  BY Zenon, <1>7, <1>8, <1>9, <1>10, <1>11 DEF ReadDataFrame, p

LEMMA ReadChunkInv ==
  ASSUME FlowInv, ReadChunk
  PROVE  FlowInv'
<1> USE DEF FlowInv
<1> DEFINE p == Head(wire)
<1>1. layer = "ss" /\ layer' = layer /\ wire # <<>>
  BY Zenon DEF ReadChunk
<1>2. /\ p \in Parts /\ At(p) = Taken /\ Taken \in Int /\ Len(frames) \in Nat /\ p.n \in Nat
      /\ p.what # "salt" => p.n \in 1 .. Len(frames)
  BY Zenon, <1>1, WireHead, TakenType, PartAt
<1>3. /\ p.what = "head" => Taken = 2 * p.n - 2
      /\ p.what = "body" => Taken = 2 * p.n - 1
  BY Zenon, <1>2, PartAt
<1>4. /\ GivenIsTaken /\ ~pong
      /\ \A n \in 1 .. Len(frames) : frames[n] = "data"
      /\ IF salted THEN frames # <<>> /\ expect = Taken
                   ELSE expect = 0 /\ got = <<>> /\ frames # <<>> /\ Taken = -1
  BY Zenon, <1>1 DEF ChunksInOrder
<1>5. ASSUME NEW parts \in Seq(Parts), NEW given \in Seq(Nat), Advance(parts, given, FALSE),
             salted' = TRUE, expect' \in Nat, expect' = Taken + 1, GivenIsTaken'
      PROVE  FlowInv'
  <2>1. FlowTypes' /\ WireInOrder' /\ BlocksInOrder' /\ Taken' = Taken + 1
    BY Zenon, <1>1, <1>5, AdvanceInv
  <2>2. frames' = frames /\ pong' = FALSE /\ frames # <<>>
    BY Zenon, <1>4, <1>5 DEF Advance
  <2>3. ChunksInOrder'
    BY Zenon, <1>1, <1>4, <1>5, <2>1, <2>2 DEF ChunksInOrder
  <2>4. FramesInOrder'
    BY Zenon, <1>1 DEF FramesInOrder
  <2> QED
    BY Zenon, <2>1, <2>3, <2>4
<1>6. out \in Seq(Nat) /\ <<>> \in Seq(Parts) /\ <<p>> \in Seq(Parts) /\ Append(out, p.n) \in Seq(Nat)
  <2>1. out \in Seq(Nat)
    BY Zenon DEF FlowTypes
  <2>2. <<p>> \in Seq(Parts)
    BY <1>2, OneSeq, Zenon
  <2> QED
    BY <1>2, <2>1, <2>2, EmptySeq
<1> HIDE DEF p
<1>7. ASSUME NEW parts, NEW given, NEW answer, Advance(parts, given, answer)
      PROVE  Taken' = Taken + 1 /\ out' = given /\ frames' = frames
  BY Zenon, <1>1, <1>7, WireAdvances DEF Advance
<1>8. CASE ~salted /\ salted' = TRUE /\ Advance(<<>>, out, FALSE) /\ UNCHANGED expect
  <2>1. Taken = -1 /\ expect' = 0
    BY Zenon, <1>4, <1>8
  <2>2. \A n \in 1 .. Len(frames) : 2 * n # Taken + 1
    BY <1>2, <2>1
  <2>3. GivenIsTaken'
    BY Zenon, <1>4, <1>7, <1>8, <2>2, GivenStays
  <2>4. expect' \in Nat /\ expect' = Taken + 1
    BY <2>1
  <2> QED
    BY Zenon, <1>5, <1>6, <1>8, <2>3, <2>4
<1>9. CASE /\ salted /\ got = <<>> /\ Opens(p, "head")
           /\ expect' = expect + 1 /\ Advance(<<p>>, out, FALSE) /\ UNCHANGED salted
  <2>1. p.what = "head" /\ expect = Taken /\ expect \in Nat
    BY Zenon, <1>4, <1>9 DEF Opens, FlowTypes
  <2>2. Taken = 2 * p.n - 2
    BY Zenon, <1>3, <2>1
  <2>3. \A n \in 1 .. Len(frames) : 2 * n # Taken + 1
    BY <1>2, <2>2
  <2>4. GivenIsTaken'
    BY Zenon, <1>4, <1>7, <1>9, <2>3, GivenStays
  <2>5. expect' \in Nat /\ expect' = Taken + 1 /\ salted' = TRUE
    BY <1>9, <2>1
  <2> QED
    BY Zenon, <1>5, <1>6, <1>9, <2>4, <2>5
<1>10. CASE /\ salted /\ got # <<>> /\ Opens(p, "body")
            /\ expect' = expect + 1 /\ Advance(<<>>, Append(out, p.n), FALSE) /\ UNCHANGED salted
  <2>1. p.what = "body" /\ expect = Taken /\ expect \in Nat
    BY Zenon, <1>4, <1>10 DEF Opens, FlowTypes
  <2>2. Taken = 2 * p.n - 1 /\ p.n \in 1 .. Len(frames) /\ frames[p.n] = "data"
    BY Zenon, <1>2, <1>3, <1>4, <2>1
  <2>3. GivenIsTaken'
    <3>1. Taken' = Taken + 1 /\ out' = Append(out, p.n) /\ frames' = frames
      BY Zenon, <1>7, <1>10
    <3>2. GivenIsTaken
      BY Zenon, <1>4
    <3> QED
      BY Zenon, <2>2, <3>1, <3>2, GivenGrows
  <2>4. expect' \in Nat /\ expect' = Taken + 1 /\ salted' = TRUE
    BY <1>10, <2>1
  <2> QED
    BY Zenon, <1>5, <1>6, <1>10, <2>3, <2>4
<1>11. CASE PumpReturns
  BY Zenon, <1>1, <1>11, ReturnInv
<1> QED
  BY Zenon, <1>8, <1>9, <1>10, <1>11 DEF ReadChunk, p

LEMMA PongWrittenInv ==
  ASSUME FlowInv, PongWritten
  PROVE  FlowInv'
<1> USE DEF FlowInv
<1>1. /\ pong' = FALSE
      /\ layer' = layer /\ flow' = flow /\ pending' = pending /\ up' = up /\ frames' = frames /\ whole' = whole
      /\ wire' = wire /\ got' = got /\ salted' = salted /\ expect' = expect /\ out' = out /\ torn' = torn
  BY Zenon DEF PongWritten
<1>2. Taken' = Taken
  BY Zenon, <1>1 DEF Taken
<1>3. GivenIsTaken' <=> GivenIsTaken
  BY Zenon, <1>1, <1>2 DEF GivenIsTaken
<1>4. FlowTypes'
  BY <1>1, Zenon DEF FlowTypes
<1>5. WireInOrder'
  BY Zenon, <1>1, <1>2 DEF WireInOrder, At, NonceOf
<1>6. ChunksInOrder'
  BY Zenon, <1>1, <1>2, <1>3 DEF ChunksInOrder
<1>7. FramesInOrder'
  BY Zenon, <1>1, <1>2, <1>3 DEF FramesInOrder
<1>8. BlocksInOrder'
  BY Zenon, <1>1 DEF BlocksInOrder
<1> QED
  BY Zenon, <1>4, <1>5, <1>6, <1>7, <1>8

-----------------------------------------------------------------------------

LEMMA FlowInit == TransportInit => FlowInv
<1>1. TransportInit => Unused
  BY Zenon DEF TransportInit, Unused
<1> QED
  BY Zenon, <1>1, UnusedInv

LEMMA FlowStep == FlowInv /\ [TransportNext]_allVars => FlowInv'
<1> SUFFICES ASSUME FlowInv, [TransportNext]_allVars PROVE FlowInv'
  BY Zenon
<1>1. CASE PoolStep \/ UNCHANGED allVars
  <2>1. SameStream /\ flow' = flow /\ pending' = pending /\ up' = up
    BY Zenon, <1>1 DEF PoolStep, allVars, flowVars, SameStream
  <2>2. FlowTypes' /\ BlocksInOrder'
    BY Zenon, <2>1 DEF FlowInv, FlowTypes, BlocksInOrder, SameStream
  <2> QED
    BY Zenon, <2>1, <2>2, SameStreamInv DEF FlowInv
<1>2. CASE OpenFlow
  BY Zenon, <1>2, OpenFlowInv
<1>3. CASE FlowWrites
  BY Zenon, <1>3, FlowWritesInv
<1>4. CASE ServerBegins
  BY Zenon, <1>4, ServerBeginsInv
<1>5. CASE ServerEnds
  BY Zenon, <1>5, ServerEndsInv
<1>6. CASE PumpUp
  BY Zenon, <1>6, PumpUpInv
<1>7. CASE ReadDataFrame
  BY Zenon, <1>7, ReadDataFrameInv
<1>8. CASE PongWritten
  BY Zenon, <1>8, PongWrittenInv
<1>9. CASE ReadChunk
  BY Zenon, <1>9, ReadChunkInv
<1>10. CASE PumpEnds
  BY Zenon, <1>10, ReturnInv DEF PumpEnds
<1> QED
  BY Zenon, <1>1, <1>2, <1>3, <1>4, <1>5, <1>6, <1>7, <1>8, <1>9, <1>10 DEF TransportNext

\* Whatever the writes, the frames and the interruptions, a Shadowsocks flow,
\* and a WebSocket flow none of whose reads was dropped, is given the data
\* frames of the server in order and without gaps.
THEOREM FlowStaysTrue == TransportSpec => []FlowIsTrue
<1>1. FlowInv => FlowIsTrue
  <2> SUFFICES ASSUME FlowInv, layer = "ss" \/ ~torn PROVE GivenAsSent
    BY Zenon DEF FlowIsTrue
  <2>1. GivenIsTaken /\ out \in Seq(Nat) /\ Taken \in Int
    BY Zenon, TakenType DEF FlowInv, FlowTypes, ChunksInOrder, FramesInOrder
  <2>2. ASSUME NEW n \in 1 .. Len(frames), NEW i \in 1 .. Len(out), frames[n] = "data", n < out[i]
        PROVE  \E j \in 1 .. Len(out) : out[j] = n
    <3>1. 2 * n <= Taken
      BY SMTT(30), <2>1, <2>2 DEF GivenIsTaken
    <3> QED
      BY Zenon, <2>1, <2>2, <3>1 DEF GivenIsTaken
  <2> QED
    BY <2>1, <2>2 DEF GivenIsTaken, GivenAsSent
<1> QED
  BY <1>1, FlowInit, FlowStep, PTL DEF TransportSpec

\* For any sizes and number of writes the pump uses each nonce once and in
\* order, and nothing goes out before the address.
THEOREM ServerOpensAll == TransportSpec => []ServerCanOpen
<1>1. FlowInv => ServerCanOpen
  BY Zenon DEF FlowInv, BlocksInOrder, ServerCanOpen
<1> QED
  BY <1>1, FlowInit, FlowStep, PTL DEF TransportSpec
=============================================================================

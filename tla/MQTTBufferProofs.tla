--------------------------- MODULE MQTTBufferProofs ---------------------------
(***************************************************************************)
(* What MQTTBuffer guarantees for every capacity and every number of rows. *)
(* The lemmas on IsOverflow count what a purge discards; the rest of the   *)
(* module, and the proofs about the client, only use what they state.      *)
(***************************************************************************)
EXTENDS MQTTBuffer, FiniteSetTheorems, TLAPS

-----------------------------------------------------------------------------
(* Counting                                                                 *)

(* A finite set is counted by counting what is inside and outside another.  *)
LEMMA SplitCount ==
    ASSUME NEW S, IsFiniteSet(S), NEW T
    PROVE  /\ IsFiniteSet(S \ T) /\ IsFiniteSet(S \cap T)
           /\ Cardinality(S) \in Nat
           /\ Cardinality(S \ T) \in Nat /\ Cardinality(S \cap T) \in Nat
           /\ Cardinality(S) = Cardinality(S \ T) + Cardinality(S \cap T)
<1>1. IsFiniteSet(S \ T) /\ IsFiniteSet(S \cap T)
  BY FS_Difference, FS_Intersection
<1>2. /\ Cardinality(S) \in Nat
      /\ Cardinality(S \ T) \in Nat /\ Cardinality(S \cap T) \in Nat
  BY <1>1, FS_CardinalityType
<1>3. Cardinality(S \ T) = Cardinality(S) - Cardinality(S \cap T)
  BY FS_Difference
<1> QED
  BY <1>1, <1>2, <1>3

(* What a purge discards and what it leaves: exactly the rows above the     *)
(* capacity in all, and exactly the QoS 1 rows above the capacity.          *)
LEMMA OverflowCount ==
    ASSUME NEW B, IsFiniteSet(B), NEW q, NEW v, IsOverflow(v, B, q)
    PROVE  /\ v \subseteq B
           /\ Cardinality(B \ v) \in Nat
           /\ Cardinality(B \ v) <= MaxMessages
           /\ Cardinality(B) > MaxMessages => Cardinality(B \ v) = MaxMessages
           /\ Cardinality(v \cap q) = Excess(Cardinality(B \cap q), MaxMessages)
<1> DEFINE ov == Excess(Cardinality(B), MaxMessages)
           T == B \ q
           U == B \cap q
<1>1. /\ v \subseteq B
      /\ Cardinality(v \ q) = AtMost(ov, Cardinality(T))
      /\ Cardinality(v \cap q) = AtMost(Excess(ov, Cardinality(T)), Cardinality(U))
  BY DEF IsOverflow, IsOldest
<1>2. IsFiniteSet(v)
  BY <1>1, FS_Subset
<1>3. /\ Cardinality(B) \in Nat /\ Cardinality(T) \in Nat /\ Cardinality(U) \in Nat
      /\ Cardinality(B) = Cardinality(T) + Cardinality(U)
  BY SplitCount
<1>4. /\ Cardinality(v) \in Nat
      /\ Cardinality(v) = Cardinality(v \ q) + Cardinality(v \cap q)
  BY <1>2, SplitCount
<1>5. /\ Cardinality(B \ v) \in Nat
      /\ Cardinality(B) = Cardinality(B \ v) + Cardinality(v)
  <2>1. B \cap v = v
    BY <1>1
  <2> QED
    BY <2>1, SplitCount
<1>6. MaxMessages \in Nat \ {0}
  BY BufferAssumption
<1> HIDE DEF T, U
<1>7. /\ Cardinality(v) = ov
      /\ Cardinality(v \cap q) = Excess(Cardinality(U), MaxMessages)
  BY <1>1, <1>3, <1>4, <1>6 DEF AtMost, Excess
<1>8. /\ Cardinality(B \ v) <= MaxMessages
      /\ Cardinality(B) > MaxMessages => Cardinality(B \ v) = MaxMessages
  BY <1>3, <1>5, <1>6, <1>7 DEF Excess
<1> QED
  BY <1>1, <1>5, <1>7, <1>8 DEF U

(* Which QoS 1 rows a purge discards: if any, then all the telemetry goes   *)
(* with them, and they are older than every row left.                       *)
LEMMA OverflowOrder ==
    ASSUME NEW B, IsFiniteSet(B), NEW q, NEW v, IsOverflow(v, B, q),
           v \cap q # {}
    PROVE  /\ B \ v \subseteq q
           /\ Cardinality(B) > MaxMessages
           /\ \A i \in v \cap q, j \in B \ v : i < j
<1>1. /\ v \subseteq B /\ v \ q \subseteq B \ q
      /\ Cardinality(v \ q) = AtMost(Excess(Cardinality(B), MaxMessages), Cardinality(B \ q))
      /\ Cardinality(v \cap q) =
            AtMost(Excess(Excess(Cardinality(B), MaxMessages), Cardinality(B \ q)),
                   Cardinality(B \cap q))
      /\ \A i \in v \cap q, j \in (B \cap q) \ (v \cap q) : i < j
  BY DEF IsOverflow, IsOldest
<1>2. IsFiniteSet(v \cap q) /\ IsFiniteSet(v \ q)
  <2>1. IsFiniteSet(v)
    BY <1>1, FS_Subset
  <2> QED
    BY <2>1, SplitCount
<1>3. Cardinality(v \cap q) \in Nat /\ Cardinality(v \cap q) # 0
  BY <1>2, FS_CardinalityType, FS_EmptySet
<1>4. /\ Cardinality(B) \in Nat /\ Cardinality(B \ q) \in Nat
      /\ Cardinality(B \cap q) \in Nat /\ MaxMessages \in Nat
  BY SplitCount, BufferAssumption
<1>5. /\ Cardinality(v \ q) = Cardinality(B \ q)
      /\ Cardinality(B) > MaxMessages
  BY <1>1, <1>3, <1>4 DEF AtMost, Excess
<1>6. v \ q = B \ q
  <2>1. IsFiniteSet(B \ q)
    BY SplitCount
  <2> QED
    BY <1>1, <1>5, <2>1, FS_Subset
<1>7. B \ v \subseteq q
  BY <1>6
<1>8. \A i \in v \cap q, j \in B \ v : i < j
  BY <1>1, <1>7
<1> QED
  BY <1>5, <1>7, <1>8

-----------------------------------------------------------------------------
(* The inductive invariant of the buffer                                    *)

BufferInv == BufferTypeOK /\ BacklogBounded

(* The empty table satisfies the invariant.                                 *)
LEMMA BufferInitInv == BufferInit => BufferInv
<1> SUFFICES ASSUME BufferInit
             PROVE  BufferInv
  OBVIOUS
<1>1. BufferTypeOK
  BY BufferAssumption DEF BufferInit, BufferTypeOK
<1>2. BacklogBounded
  BY FS_EmptySet, BufferAssumption DEF BufferInit, BacklogBounded
<1> QED
  BY <1>1, <1>2 DEF BufferInv

(* The rows waiting, with the one to be inserted, are finite in number.     *)
LEMMA BacklogFinite ==
    ASSUME BufferTypeOK
    PROVE  /\ IsFiniteSet(pending) /\ IsFiniteSet(pending \cup {lastId + 1})
           /\ lastId \in Nat
<1>1. lastId \in Nat
  BY BufferAssumption DEF BufferTypeOK
<1>2. IsFiniteSet(1 .. lastId)
  BY <1>1, FS_Interval
<1>3. IsFiniteSet(pending)
  BY <1>2, FS_Subset DEF BufferTypeOK
<1> QED
  BY <1>1, <1>3, FS_AddElement

(* enqueue makes room for the row it inserts.                               *)
LEMMA EnqueueInv ==
    ASSUME BufferInv, NEW qos \in {0, 1}, Enqueue(qos)
    PROVE  BufferInv'
<1> DEFINE id == lastId + 1
           q1 == IF qos > 0 THEN urgent \cup {id} ELSE urgent
           B  == pending \cup {id}
<1>1. /\ lastId < MaxRows /\ lastId' = id
      /\ urgent' = q1
      /\ \E aged \in SUBSET settled : settled' = settled \ aged /\ purged' = purged \cup aged
  BY DEF Enqueue, NextRowId
<1>2. PICK v \in SUBSET B :
         /\ IsOverflow(v, B, q1)
         /\ pending' = B \ v
         /\ evicted' = evicted \cup v
  BY DEF Enqueue, NextRowId
<1>3. lastId \in Nat /\ IsFiniteSet(B) /\ MaxRows \in Nat
  BY BacklogFinite, BufferAssumption DEF BufferInv
<1>4. BufferTypeOK'
  <2>1. lastId' \in 0 .. MaxRows /\ 1 .. lastId \subseteq 1 .. lastId'
        /\ id \in 1 .. lastId' /\ id \notin 1 .. lastId
    BY <1>1, <1>3
  <2> QED
    BY <1>1, <1>2, <2>1 DEF BufferTypeOK, BufferInv
<1>5. BacklogBounded'
  BY <1>2, <1>3, OverflowCount DEF BacklogBounded
<1> QED
  BY <1>4, <1>5 DEF BufferInv

(* mark_delivered moves a row that is there, or does nothing.               *)
LEMMA MarkDeliveredInv ==
    ASSUME BufferInv, NEW id, MarkDelivered(id)
    PROVE  BufferInv'
<1>1. BufferTypeOK'
  BY DEF MarkDelivered, BufferTypeOK, BufferInv
<1>2. BacklogBounded'
  <2>1. IsFiniteSet(pending) /\ pending' \subseteq pending
    BY BacklogFinite DEF BufferInv, MarkDelivered
  <2>2. Cardinality(pending') <= Cardinality(pending)
        /\ Cardinality(pending) \in Nat /\ Cardinality(pending') \in Nat
    BY <2>1, FS_Subset, FS_CardinalityType
  <2> QED
    BY <2>2, BufferAssumption DEF BufferInv, BacklogBounded
<1> QED
  BY <1>1, <1>2 DEF BufferInv

(* purge_delivered leaves the backlog alone.                                *)
LEMMA PurgeDeliveredInv ==
    ASSUME BufferInv, PurgeDelivered
    PROVE  BufferInv'
  BY DEF PurgeDelivered, BufferInv, BufferTypeOK, BacklogBounded

(* A step that leaves the table alone keeps its invariant.                  *)
LEMMA BufferStutterInv ==
    ASSUME BufferInv, UNCHANGED bufVars
    PROVE  BufferInv'
  BY DEF bufVars, BufferInv, BufferTypeOK, BacklogBounded

(* Every operation preserves the invariant.                                 *)
LEMMA BufferNextInv == BufferInv /\ [BufferNext]_bufVars => BufferInv'
<1> SUFFICES ASSUME BufferInv, [BufferNext]_bufVars
             PROVE  BufferInv'
  OBVIOUS
<1>1. CASE \E qos \in {0, 1} : Enqueue(qos)
  BY <1>1, EnqueueInv
<1>2. CASE \E id \in 1 .. lastId : MarkDelivered(id)
  BY <1>2, MarkDeliveredInv
<1>3. CASE PurgeDelivered
  BY <1>3, PurgeDeliveredInv
<1>4. CASE UNCHANGED bufVars
  BY <1>4, BufferStutterInv
<1> QED
  BY <1>1, <1>2, <1>3, <1>4 DEF BufferNext

-----------------------------------------------------------------------------
(* Theorems                                                                 *)

(* Type correctness of the buffer: no row is ever in two places.            *)
THEOREM BufferTypeCorrect == BufferSpec => []BufferTypeOK
<1>1. BufferInv => BufferTypeOK
  BY DEF BufferInv
<1> QED
  BY <1>1, BufferInitInv, BufferNextInv, PTL DEF BufferSpec

(* buffer.py:25: the backlog never exceeds max_messages.                    *)
THEOREM BacklogStaysBounded == BufferSpec => []BacklogBounded
<1>1. BufferInv => BacklogBounded
  BY DEF BufferInv
<1> QED
  BY <1>1, BufferInitInv, BufferNextInv, PTL DEF BufferSpec

(* buffer.py:25-28: a purge that reaches QoS 1 rows has left no telemetry,  *)
(* fills the buffer to the brim and took the oldest.                        *)
LEMMA EnqueueEvictsOldestUrgent ==
    ASSUME BufferInv, NEW qos \in {0, 1}, Enqueue(qos),
           (evicted' \ evicted) \cap urgent' # {}
    PROVE  /\ pending' \subseteq urgent'
           /\ Cardinality(pending') = MaxMessages
           /\ \A i \in (evicted' \ evicted) \cap urgent', j \in pending' : i < j
<1> DEFINE B == pending \cup {lastId + 1}
<1>1. PICK v \in SUBSET B :
         /\ IsOverflow(v, B, urgent')
         /\ pending' = B \ v
         /\ evicted' = evicted \cup v
  BY DEF Enqueue, NextRowId
<1>2. IsFiniteSet(B)
  BY BacklogFinite DEF BufferInv
<1>3. v \cap urgent' # {}
  BY <1>1
<1>4. /\ B \ v \subseteq urgent'
      /\ Cardinality(B) > MaxMessages
      /\ \A i \in v \cap urgent', j \in B \ v : i < j
  BY <1>1, <1>2, <1>3, OverflowOrder
<1>5. Cardinality(B \ v) = MaxMessages
  BY <1>1, <1>2, <1>4, OverflowCount
<1> QED
  BY <1>1, <1>4, <1>5

(* buffer.py:25-28: no operation discards an undelivered QoS 1 row while    *)
(* telemetry is left, room is left, or an older QoS 1 row is kept.          *)
THEOREM TelemetryNeverEvicts == BufferSpec => TelemetryNeverEvictsUrgent
<1> DEFINE Lost == (evicted' \ evicted) \cap urgent'
           Fair == Lost # {} =>
                      /\ pending' \subseteq urgent'
                      /\ Cardinality(pending') = MaxMessages
                      /\ \A i \in Lost, j \in pending' : i < j
<1>1. BufferInv /\ [BufferNext]_bufVars => [Fair]_bufVars
  <2> SUFFICES ASSUME BufferInv, BufferNext
               PROVE  Fair
    OBVIOUS
  <2>1. CASE \E qos \in {0, 1} : Enqueue(qos)
    BY <2>1, EnqueueEvictsOldestUrgent
  <2>2. CASE \E id \in 1 .. lastId : MarkDelivered(id)
    BY <2>2 DEF MarkDelivered
  <2>3. CASE PurgeDelivered
    BY <2>3 DEF PurgeDelivered
  <2> QED
    BY <2>1, <2>2, <2>3 DEF BufferNext
<1> QED
  BY <1>1, BufferInitInv, BufferNextInv, PTL
  DEF BufferSpec, TelemetryNeverEvictsUrgent

(* Rows deleted or delivered stay out of the backlog: enqueue gives its row *)
(* an id that no row has had.                                               *)
LEMMA EnqueueTakesNewId ==
    ASSUME BufferTypeOK, NEW qos, Enqueue(qos)
    PROVE  /\ settled' \subseteq settled
           /\ (settled \cup evicted \cup purged) \cap pending' = {}
<1>1. pending' \subseteq pending \cup {lastId + 1} /\ settled' \subseteq settled
  BY DEF Enqueue, NextRowId
<1>2. settled \cup evicted \cup purged \subseteq 1 .. lastId /\ lastId \in Nat
  BY BacklogFinite DEF BufferTypeOK
<1>3. (settled \cup evicted \cup purged) \cap pending = {}
  BY DEF BufferTypeOK
<1>4. lastId + 1 \notin 1 .. lastId
  BY <1>2
<1> QED
  BY <1>1, <1>2, <1>3, <1>4

(* buffer.py:46 (AUTOINCREMENT), 105-127, 161-208: ids are never given out  *)
(* twice, however long ago their rows were delivered, purged or evicted, so *)
(* what is still to be done to such a row never befalls another message.    *)
THEOREM RowsNeverReturn == BufferSpec => RowNeverReturns
<1> DEFINE Gone == /\ settled \cap pending' = {}
                   /\ (evicted \cup purged) \cap (pending' \cup settled') = {}
<1>1. BufferInv /\ [BufferNext]_bufVars => [Gone]_bufVars
  <2> SUFFICES ASSUME BufferInv, BufferNext
               PROVE  Gone
    OBVIOUS
  <2> USE DEF BufferInv, BufferTypeOK
  <2>1. CASE \E qos \in {0, 1} : Enqueue(qos)
    <3>1. /\ settled' \subseteq settled
          /\ (settled \cup evicted \cup purged) \cap pending' = {}
      BY <2>1, EnqueueTakesNewId
    <3> QED
      BY <3>1
  <2>2. CASE \E id \in 1 .. lastId : MarkDelivered(id)
    BY <2>2 DEF MarkDelivered
  <2>3. CASE PurgeDelivered
    BY <2>3 DEF PurgeDelivered
  <2> QED
    BY <2>1, <2>2, <2>3 DEF BufferNext
<1> QED
  BY <1>1, BufferInitInv, BufferNextInv, PTL DEF BufferSpec, RowNeverReturns
=============================================================================

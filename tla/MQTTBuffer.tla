------------------------------ MODULE MQTTBuffer ------------------------------
(***************************************************************************)
(* The edge's durable outbound buffer (edge/src/mqtt/buffer.py): one       *)
(* SQLite table of messages, each undelivered ("pending") or delivered     *)
(* ("settled").  A row is its AUTOINCREMENT id; topic, payload, timestamps *)
(* and the attempts counter, which nothing reads back, are left out.       *)
(*                                                                         *)
(* Every coroutine of MQTTBuffer holds the asyncio lock and suspends       *)
(* nowhere inside it, so each operation is one action.  The module stands  *)
(* alone (its Spec calls the operations in any order) and is extended by   *)
(* EdgeUplink, the client that drives it.                                  *)
(***************************************************************************)
EXTENDS Naturals, FiniteSets

CONSTANTS MaxMessages,  \* max_messages: undelivered rows kept (10000)
          MaxRows       \* model bound: rows inserted in a behaviour

ASSUME BufferAssumption == MaxMessages \in Nat \ {0} /\ MaxRows \in Nat

VARIABLES lastId,   \* last id SQLite's AUTOINCREMENT has given out
          urgent,   \* ids inserted with qos > 0
          pending,  \* stored rows with delivered = 0
          settled,  \* stored rows with delivered = 1
          evicted,  \* history: rows deleted while still undelivered
          purged    \* history: rows deleted once delivered

bufVars == <<lastId, urgent, pending, settled, evicted, purged>>

Rows == 1 .. MaxRows

(* Type invariant.  Every row ever inserted is in one place: stored as      *)
(* pending or as settled, or deleted before or after its delivery.          *)
BufferTypeOK ==
    /\ lastId \in 0 .. MaxRows
    /\ urgent \in SUBSET (1 .. lastId)
    /\ pending \cup settled \cup evicted \cup purged = 1 .. lastId
    /\ pending \cap settled = {}
    /\ evicted \cap (pending \cup settled) = {}
    /\ purged \cap (pending \cup settled \cup evicted) = {}

BufferInit ==
    /\ lastId = 0
    /\ urgent = {} /\ pending = {} /\ settled = {} /\ evicted = {} /\ purged = {}

-----------------------------------------------------------------------------
(* ORDER BY id ASC LIMIT k                                                  *)

AtMost(a, b) == IF a <= b THEN a ELSE b

Excess(a, b) == IF a > b THEN a - b ELSE 0

(* d is what "SELECT ... FROM S ORDER BY id ASC LIMIT k" returns.           *)
IsOldest(d, S, k) ==
    /\ d \subseteq S
    /\ Cardinality(d) = AtMost(k, Cardinality(S))
    /\ \A i \in d, j \in S \ d : i < j

(* Mutants of IsOverflow: the oldest rows go whatever their QoS, and only   *)
(* telemetry ever goes.                                                     *)
IsOverflowByAge(v, backlog, qos1) ==
    IsOldest(v, backlog, Excess(Cardinality(backlog), MaxMessages))

IsOverflowTelemetryOnly(v, backlog, qos1) ==
    IsOldest(v, backlog \ qos1, Excess(Cardinality(backlog), MaxMessages))

(* v is what the overflow half of _maybe_purge deletes from backlog: QoS 0  *)
(* rows first, and rows of qos1 only for what is left of the overflow.      *)
IsOverflow(v, backlog, qos1) ==
    LET overflow  == Excess(Cardinality(backlog), MaxMessages)
        telemetry == backlog \ qos1
    IN  /\ v \subseteq backlog
        /\ IsOldest(v \ qos1, telemetry, overflow)
        /\ IsOldest(v \cap qos1, backlog \cap qos1,
                    Excess(overflow, Cardinality(telemetry)))

-----------------------------------------------------------------------------
(* Operations                                                               *)

(* A mutant: rows are numbered by counting the ones that are stored, whose  *)
(* number comes down when a purge takes the old ones.                       *)
CountedRowId == Cardinality(pending \cup settled) + 1

NextRowId == lastId + 1

(* enqueue: insert the row, then _maybe_purge: settled rows past max_age go *)
(* (which ones is left open: how old a row is is not modelled), and so does *)
(* the overflow, the row just inserted included.                            *)
Enqueue(qos) ==
    LET id      == NextRowId
        qos1    == IF qos > 0 THEN urgent \cup {id} ELSE urgent
        backlog == pending \cup {id}
    IN  /\ lastId < MaxRows
        /\ lastId' = id
        /\ urgent' = qos1
        /\ \E aged \in SUBSET settled :
              /\ settled' = settled \ aged
              /\ purged' = purged \cup aged
        /\ \E v \in SUBSET backlog :
              /\ IsOverflow(v, backlog, qos1)
              /\ pending' = backlog \ v
              /\ evicted' = evicted \cup v

(* A mutant: the row is moved to the delivered ones whether or not it is    *)
(* still there.                                                             *)
MarkDeliveredInserts(id) ==
    /\ pending' = pending \ {id}
    /\ settled' = settled \cup {id}
    /\ UNCHANGED <<lastId, urgent, evicted, purged>>

(* mark_delivered: UPDATE ... WHERE id: nothing happens to a row that was   *)
(* purged in the meantime.                                                  *)
MarkDelivered(id) ==
    /\ pending' = pending \ {id}
    /\ settled' = settled \cup (pending \cap {id})
    /\ UNCHANGED <<lastId, urgent, evicted, purged>>

(* iter_pending(batch_size = n): the snapshot a caller goes on to walk.     *)
IsBatch(b, n) == IsOldest(b, pending, n)

(* purge_delivered *)
PurgeDelivered ==
    /\ settled # {}
    /\ settled' = {}
    /\ purged' = purged \cup settled
    /\ UNCHANGED <<lastId, urgent, pending, evicted>>

BufferNext ==
    \/ \E qos \in {0, 1} : Enqueue(qos)
    \/ \E id \in 1 .. lastId : MarkDelivered(id)
    \/ PurgeDelivered

BufferSpec == BufferInit /\ [][BufferNext]_bufVars

-----------------------------------------------------------------------------
(* Properties                                                               *)

(* buffer.py:25 "Capacity is bounded": however calls interleave, no more    *)
(* than max_messages rows wait for delivery.                                *)
BacklogBounded == Cardinality(pending) <= MaxMessages

(* buffer.py:25-28: QoS 1 traffic gives way only to QoS 1 traffic.  A step  *)
(* that discards an undelivered QoS 1 row leaves no telemetry behind, keeps *)
(* the buffer full, and keeps nothing older than what it discarded.         *)
TelemetryNeverEvictsUrgent ==
    [][LET lost == (evicted' \ evicted) \cap urgent'
       IN  lost # {} =>
              /\ pending' \subseteq urgent'
              /\ Cardinality(pending') = MaxMessages
              /\ \A i \in lost, j \in pending' : i < j]_bufVars

(* Ids are never given out twice (AUTOINCREMENT): a delivered row never     *)
(* waits again, and a row deleted at any time, delivered or not, is never   *)
(* in the table again.  A mark_delivered, an acknowledgement or a replay    *)
(* that comes late for it can therefore not touch another message.          *)
RowNeverReturns ==
    [][/\ settled \cap pending' = {}
       /\ (evicted \cup purged) \cap (pending' \cup settled') = {}]_bufVars
=============================================================================

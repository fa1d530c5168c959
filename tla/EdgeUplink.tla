------------------------------ MODULE EdgeUplink ------------------------------
(***************************************************************************)
(* The edge's way up to the broker: EdgeMQTTClient (edge/src/mqtt/         *)
(* client.py) driving MQTTBuffer, paho-mqtt underneath it and the broker   *)
(* at the far end.                                                         *)
(*                                                                         *)
(* Two threads act on the client.  The asyncio event loop runs publish,    *)
(* the reconnect monitor with its backlog replay, and the mark_delivered   *)
(* coroutines; it changes task only where a coroutine suspends.  paho's    *)
(* network thread runs the callbacks, and may run between any two          *)
(* statements of the event loop: `at' is the event loop's position between *)
(* two statements the other thread can separate.                           *)
(*                                                                         *)
(* External, modelled from what client.py relies on: paho keeps a QoS 1    *)
(* message under its message id until the PUBACK, also when publish        *)
(* returned an error for want of a connection, and sends every kept        *)
(* message again after a reconnect; a lost connection loses what is in     *)
(* transit both ways; the broker acknowledges each QoS 1 copy it receives. *)
(***************************************************************************)
EXTENDS MQTTBuffer

CONSTANTS Mids,          \* paho message ids (1 .. 65535)
          BatchSize,     \* rows per replay query (200)
          OutageIsSeen,  \* TRUE: no outage falls between two 1 s polls
          MaxDrops,      \* model bound: connections lost
          MaxCrashes     \* model bound: crashes and restarts of the process

ASSUME UplinkAssumption ==
    /\ BatchSize \in Nat \ {0}
    /\ OutageIsSeen \in BOOLEAN
    /\ MaxDrops \in Nat /\ MaxCrashes \in Nat
    /\ IsFiniteSet(Mids)

NoRow == 0

Steps == {"idle", "store", "fetch", "handoff", "register"}

Callers == {"publish", "replay"}

VARIABLES sock,       \* paho has a connection on which it sends
          connected,  \* _connected, set by paho's callbacks
          out,        \* paho's queue: message id -> row, NoRow when free
          wire,       \* ids of QoS 1 packets on their way to the broker
          acks,       \* ids whose PUBACK is on its way back
          received,   \* QoS 1 rows the broker has received
          inflight,   \* _inflight: message id -> row, NoRow when absent
          marks,      \* mark_delivered coroutines scheduled, by row
          at,         \* where the running coroutine of the event loop is
          caller,     \* whose hand-off is under way
          row,        \* the row it hands to paho
          mid,        \* the message id paho gave it
          was,        \* was_connected of the monitor
          replaying,  \* _replay_buffer is under way
          batch,      \* rows of its snapshot not handed off yet
          progressed, \* its local of that name
          drops, crashes

linkVars   == <<sock, connected, out, wire, acks, received>>
loopVars   == <<at, caller, row, mid>>
replayVars == <<was, replaying, batch, progressed>>
budget     == <<drops, crashes>>
clientVars == <<inflight, marks, loopVars, replayVars>>
vars       == <<bufVars, linkVars, clientVars, budget>>

(* Type invariant: nothing is on the wire or acknowledged that paho has     *)
(* forgotten, and a message id is in one of the two at most.                *)
UplinkTypeOK ==
    /\ BufferTypeOK
    /\ sock \in BOOLEAN /\ connected \in BOOLEAN
    /\ out \in [Mids -> {NoRow} \cup urgent]
    /\ wire \in SUBSET {m \in Mids : out[m] # NoRow}
    /\ acks \in SUBSET {m \in Mids : out[m] # NoRow}
    /\ wire \cap acks = {}
    /\ received \in SUBSET urgent
    /\ inflight \in [Mids -> {NoRow} \cup urgent]
    /\ marks \in SUBSET urgent
    /\ at \in Steps /\ caller \in Callers
    /\ row \in 0 .. lastId
    /\ mid \in Mids \cup {NoRow}
    /\ was \in BOOLEAN /\ replaying \in BOOLEAN /\ progressed \in BOOLEAN
    /\ batch \in SUBSET (1 .. lastId)
    /\ drops \in 0 .. MaxDrops /\ crashes \in 0 .. MaxCrashes

(* What a new process starts from: EdgeMQTTClient.__init__, a fresh paho    *)
(* client and the locals of _connect_loop.                                  *)
FreshClient ==
    /\ sock = FALSE /\ connected = FALSE
    /\ out = [m \in Mids |-> NoRow] /\ wire = {} /\ acks = {}
    /\ inflight = [m \in Mids |-> NoRow] /\ marks = {}
    /\ at = "idle" /\ caller = "publish" /\ row = NoRow /\ mid = NoRow
    /\ was = FALSE /\ replaying = FALSE /\ batch = {} /\ progressed = FALSE

Init ==
    /\ BufferInit
    /\ FreshClient
    /\ received = {}
    /\ drops = 0 /\ crashes = 0

-----------------------------------------------------------------------------
(* publish, on the event loop                                               *)

Free == {m \in Mids : out[m] = NoRow}

(* Model bound: paho has 65535 message ids, the model a few.  A caller that *)
(* would need more than are free waits, so that a hand-off always gets one. *)
MidsFor(n) == n <= Cardinality(Free)

(* A coroutine that returns or suspends takes its locals with it.           *)
GoTo(step) == at' = step /\ caller' = "publish" /\ row' = NoRow /\ mid' = NoRow

(* publish(qos >= 1): the row is on disk before anything else happens.      *)
PublishUrgent ==
    /\ at = "idle"
    /\ MidsFor(Cardinality(batch) + 1)
    /\ Enqueue(1)
    /\ at' = "handoff" /\ caller' = "publish" /\ row' = lastId' /\ mid' = NoRow
    /\ UNCHANGED <<linkVars, inflight, marks, replayVars, budget>>

(* paho sends a QoS 0 message and reports the write with on_publish, for    *)
(* QoS 0 too, and _on_publish looks the message id up: it can be one of an  *)
(* entry left behind in _inflight.                                          *)
TelemetryWritten ==
    \E m \in Free :
       /\ inflight' = [inflight EXCEPT ![m] = NoRow]
       /\ marks' = marks \cup ({inflight[m]} \ {NoRow})

(* publish(qos = 0) that paho accepts: nothing is stored.                   *)
PublishTelemetry ==
    /\ at = "idle" /\ connected /\ sock
    /\ TelemetryWritten
    /\ UNCHANGED <<bufVars, linkVars, loopVars, replayVars, budget>>

(* publish(qos = 0) with no connection, or an error from paho ...           *)
TelemetryFails ==
    /\ at = "idle" /\ ~(connected /\ sock) /\ lastId < MaxRows
    /\ GoTo("store")
    /\ UNCHANGED <<bufVars, linkVars, inflight, marks, replayVars, budget>>

(* ... is buffered; the link may have come back in between.                 *)
StoreTelemetry ==
    /\ at = "store"
    /\ Enqueue(0)
    /\ GoTo("idle")
    /\ UNCHANGED <<linkVars, inflight, marks, replayVars, budget>>

-----------------------------------------------------------------------------
(* The hand-off of a QoS 1 row to paho, shared by publish and the replay.   *)

(* The caller finds the link down.  publish returns False; the replay       *)
(* leaves its for loop and comes to the conditions of the outer one.        *)
FindDisconnected ==
    /\ at = "handoff" /\ ~connected
    /\ GoTo(IF caller = "replay" THEN "fetch" ELSE "idle")
    /\ batch' = IF caller = "replay" THEN {} ELSE batch
    /\ UNCHANGED <<bufVars, linkVars, inflight, marks, was, replaying,
                   progressed, budget>>

(* paho's publish with a connection: rc = 0, the packet is on its way.  The *)
(* message id is in _inflight only after the next step.                     *)
HandOff ==
    /\ at = "handoff" /\ connected /\ sock /\ row \in urgent
    /\ \E m \in Free :
          /\ out' = [out EXCEPT ![m] = row]
          /\ wire' = wire \cup {m}
          /\ mid' = m
    /\ at' = "register"
    /\ UNCHANGED <<bufVars, sock, connected, acks, received, inflight, marks,
                   caller, row, replayVars, budget>>

(* A mutant: rc = 0 is taken for delivery.                                  *)
RegisterSettles ==
    /\ at = "register"
    /\ MarkDelivered(row)
    /\ GoTo("idle")
    /\ batch' = batch \ {row}
    /\ progressed' = (caller = "replay" \/ progressed)
    /\ UNCHANGED <<linkVars, inflight, marks, was, replaying, budget>>

(* _inflight[info.mid] = row.  A replay then sleeps for 5 ms.               *)
Register ==
    /\ at = "register"
    /\ inflight' = [inflight EXCEPT ![mid] = row]
    /\ GoTo("idle")
    /\ batch' = IF caller = "replay" THEN batch \ {row} ELSE batch
    /\ progressed' = IF caller = "replay" THEN TRUE ELSE progressed
    /\ UNCHANGED <<bufVars, linkVars, marks, was, replaying, budget>>

(* The socket is gone and on_disconnect has not run yet: paho returns an    *)
(* error, and keeps the message.  The caller records no message id.         *)
HandOffRefused ==
    /\ at = "handoff" /\ connected /\ ~sock
    /\ \/ /\ row \in urgent
          /\ \E m \in Free : out' = [out EXCEPT ![m] = row]
       \/ row \notin urgent /\ UNCHANGED out
    /\ GoTo("idle")
    /\ batch' = IF caller = "replay" THEN batch \ {row} ELSE batch
    /\ UNCHANGED <<bufVars, sock, connected, wire, acks, received, inflight,
                   marks, was, replaying, progressed, budget>>

(* A mutant: mark_delivered is called and never awaited.                    *)
ReplayTelemetryUnawaited ==
    /\ at = "handoff" /\ connected /\ sock /\ row \notin urgent
    /\ TelemetryWritten
    /\ GoTo("idle")
    /\ batch' = batch \ {row}
    /\ progressed' = TRUE
    /\ UNCHANGED <<bufVars, linkVars, was, replaying, budget>>

(* The replay of a buffered QoS 0 row: settled as soon as paho takes it.    *)
ReplayTelemetry ==
    /\ at = "handoff" /\ connected /\ sock /\ row \notin urgent
    /\ TelemetryWritten
    /\ MarkDelivered(row)
    /\ GoTo("idle")
    /\ batch' = batch \ {row}
    /\ progressed' = TRUE
    /\ UNCHANGED <<linkVars, was, replaying, budget>>

-----------------------------------------------------------------------------
(* The reconnect monitor and the replay, on the event loop                  *)

(* A mutant: the monitor leaves the replay to someone else.                 *)
PollConnectedForgets ==
    /\ at = "idle" /\ ~replaying /\ connected /\ ~was
    /\ was' = TRUE
    /\ UNCHANGED <<bufVars, linkVars, inflight, marks, loopVars, replaying,
                   batch, progressed, budget>>

(* _connect_loop wakes and sees a connection it had not seen.               *)
PollConnected ==
    /\ at = "idle" /\ ~replaying /\ connected /\ ~was
    /\ was' = TRUE
    /\ replaying' = (pending # {})
    /\ progressed' = (pending # {})
    /\ GoTo(IF pending # {} THEN "fetch" ELSE "idle")
    /\ UNCHANGED <<bufVars, linkVars, inflight, marks, batch, budget>>

(* _connect_loop wakes and sees that the connection is gone.                *)
PollDisconnected ==
    /\ at = "idle" /\ ~replaying /\ ~connected /\ was
    /\ was' = FALSE
    /\ UNCHANGED <<bufVars, linkVars, inflight, marks, loopVars, replaying,
                   batch, progressed, budget>>

(* The outer loop's exits: no progress, the link down, the backlog empty.   *)
ReplayEnds ==
    /\ at = "fetch" /\ (~progressed \/ ~connected \/ pending = {})
    /\ replaying' = FALSE /\ progressed' = FALSE
    /\ GoTo("idle")
    /\ UNCHANGED <<bufVars, linkVars, inflight, marks, was, batch, budget>>

Oldest(S, r) == r \in S /\ \A s \in S : r <= s

(* The next batch, unacknowledged rows of the one before included, and its  *)
(* first row: no suspension lies between the two.                           *)
ReplayFetch ==
    /\ at = "fetch" /\ progressed /\ connected /\ pending # {}
    /\ MidsFor(AtMost(BatchSize, Cardinality(pending)))
    /\ \E b \in SUBSET pending :
          /\ IsBatch(b, BatchSize)
          /\ batch' = b
          /\ \E r \in b : Oldest(b, r) /\ row' = r
    /\ progressed' = FALSE
    /\ at' = "handoff" /\ caller' = "replay" /\ mid' = NoRow
    /\ UNCHANGED <<bufVars, linkVars, inflight, marks, was, replaying, budget>>

(* A mutant: the replay ends with its first batch.                          *)
ReplayWakeOnce ==
    /\ at = "idle" /\ replaying
    /\ IF batch # {}
       THEN /\ \E r \in batch : Oldest(batch, r) /\ row' = r
            /\ at' = "handoff" /\ caller' = "replay" /\ mid' = NoRow
            /\ UNCHANGED replaying
       ELSE replaying' = FALSE /\ UNCHANGED loopVars
    /\ UNCHANGED <<bufVars, linkVars, inflight, marks, was, batch, progressed,
                   budget>>

(* The 5 ms sleep is over: on to the next row of the snapshot, which may    *)
(* have been settled or purged in the meantime, or to the outer loop.       *)
ReplayWake ==
    /\ at = "idle" /\ replaying
    /\ IF batch # {}
       THEN /\ \E r \in batch : Oldest(batch, r) /\ row' = r
            /\ at' = "handoff" /\ caller' = "replay" /\ mid' = NoRow
       ELSE GoTo("fetch")
    /\ UNCHANGED <<bufVars, linkVars, inflight, marks, replayVars, budget>>

(* A scheduled mark_delivered runs when the event loop is free.             *)
RunMark ==
    /\ at = "idle"
    /\ \E r \in marks : MarkDelivered(r) /\ marks' = marks \ {r}
    /\ UNCHANGED <<linkVars, inflight, loopVars, replayVars, budget>>

-----------------------------------------------------------------------------
(* paho's network thread                                                    *)

(* on_connect.  paho sends every message it kept, once more.                *)
OnConnect ==
    /\ ~sock /\ ~connected
    /\ OutageIsSeen => ~was
    /\ sock' = TRUE /\ connected' = TRUE
    /\ wire' = {m \in Mids : out[m] # NoRow}
    /\ UNCHANGED <<bufVars, out, acks, received, clientVars, budget>>

(* The connection breaks; _connected still says otherwise.                  *)
LoseConnection ==
    /\ sock /\ drops < MaxDrops
    /\ sock' = FALSE
    /\ wire' = {} /\ acks' = {}
    /\ drops' = drops + 1
    /\ UNCHANGED <<bufVars, connected, out, received, clientVars, crashes>>

OnDisconnect ==
    /\ ~sock /\ connected
    /\ connected' = FALSE
    /\ UNCHANGED <<bufVars, sock, out, wire, acks, received, clientVars, budget>>

(* on_publish: the PUBACK.  paho forgets the message; the row, if its id is *)
(* registered by now, is to be marked delivered by the event loop.          *)
OnPublish ==
    /\ \E m \in acks :
          /\ acks' = acks \ {m}
          /\ out' = [out EXCEPT ![m] = NoRow]
          /\ inflight' = [inflight EXCEPT ![m] = NoRow]
          /\ marks' = marks \cup ({inflight[m]} \ {NoRow})
    /\ UNCHANGED <<bufVars, sock, connected, wire, received, loopVars,
                   replayVars, budget>>

(* The broker receives a QoS 1 packet and acknowledges it.                  *)
BrokerReceive ==
    /\ \E m \in wire :
          /\ wire' = wire \ {m}
          /\ acks' = acks \cup {m}
          /\ received' = received \cup {out[m]}
    /\ UNCHANGED <<bufVars, sock, connected, out, clientVars, budget>>

(* A mutant: the table of message ids outlives the process.                 *)
RestartKeepsInflight ==
    /\ crashes < MaxCrashes
    /\ crashes' = crashes + 1
    /\ sock' = FALSE /\ connected' = FALSE
    /\ out' = [m \in Mids |-> NoRow] /\ wire' = {} /\ acks' = {}
    /\ marks' = {}
    /\ at' = "idle" /\ caller' = "publish" /\ row' = NoRow /\ mid' = NoRow
    /\ was' = FALSE /\ replaying' = FALSE /\ batch' = {} /\ progressed' = FALSE
    /\ UNCHANGED <<bufVars, received, inflight, drops>>

(* The process dies wherever it is and is started again: only SQLite stays, *)
(* the rest is as in FreshClient.                                           *)
Restart ==
    /\ crashes < MaxCrashes
    /\ crashes' = crashes + 1
    /\ sock' = FALSE /\ connected' = FALSE
    /\ out' = [m \in Mids |-> NoRow] /\ wire' = {} /\ acks' = {}
    /\ inflight' = [m \in Mids |-> NoRow] /\ marks' = {}
    /\ at' = "idle" /\ caller' = "publish" /\ row' = NoRow /\ mid' = NoRow
    /\ was' = FALSE /\ replaying' = FALSE /\ batch' = {} /\ progressed' = FALSE
    /\ UNCHANGED <<bufVars, received, drops>>

-----------------------------------------------------------------------------
EventLoop ==
    \/ FindDisconnected \/ HandOff \/ Register \/ HandOffRefused
    \/ ReplayTelemetry \/ StoreTelemetry
    \/ PollConnected \/ PollDisconnected
    \/ ReplayEnds \/ ReplayFetch \/ ReplayWake \/ RunMark

Network == OnConnect \/ OnDisconnect \/ OnPublish \/ BrokerReceive

Next ==
    \/ PublishUrgent \/ PublishTelemetry \/ TelemetryFails
    \/ EventLoop
    \/ Network
    \/ LoseConnection \/ Restart

Spec == Init /\ [][Next]_vars

(* The event loop and paho's thread keep running, paho keeps reconnecting   *)
(* (reconnect_delay_set), the broker keeps serving.  Nothing makes anybody  *)
(* publish, lose a connection or crash.                                     *)
Fairness ==
    /\ WF_vars(FindDisconnected) /\ WF_vars(HandOff) /\ WF_vars(Register)
    /\ WF_vars(HandOffRefused) /\ WF_vars(ReplayTelemetry)
    /\ WF_vars(StoreTelemetry) /\ SF_vars(PollConnected)
    /\ SF_vars(PollDisconnected) /\ WF_vars(ReplayEnds)
    /\ WF_vars(ReplayFetch) /\ SF_vars(ReplayWake) /\ SF_vars(RunMark)
    /\ WF_vars(OnConnect) /\ WF_vars(OnDisconnect)
    /\ WF_vars(OnPublish) /\ WF_vars(BrokerReceive)

FairSpec == Spec /\ Fairness

-----------------------------------------------------------------------------
(* Properties                                                               *)

(* client.py:369-386: a QoS 1 row is settled by its PUBACK alone.  The path *)
(* from the acknowledgement to the row crosses two threads, a message id    *)
(* that is reused, and reconnects that send the message again; wherever     *)
(* those interleave, a settled row is one the broker has.                   *)
SettledWasReceived == settled \cap urgent \subseteq received

(* Why SettledWasReceived holds, step by step along the acknowledgement's   *)
(* way: an entry of _inflight names the row paho holds under that id, or a  *)
(* row the broker has; so do a PUBACK, a scheduled mark_delivered and the   *)
(* hand-off not registered yet; and no QoS 1 row is ever unaccounted for.   *)
AckTrail ==
    /\ urgent \subseteq pending \cup evicted \cup received
    /\ marks \subseteq received
    /\ \A m \in acks : out[m] \in received
    /\ \A m \in Mids : inflight[m] \in {NoRow, out[m]} \cup received
    /\ at = "register" => /\ mid \in Mids /\ row \in urgent
                          /\ row \in {out[mid]} \cup received
    /\ ~sock => wire = {} /\ acks = {}

(* The client as a whole keeps the promise of AtLeastOnce: no interleaving, *)
(* reconnect or crash makes it drop a QoS 1 message that the broker has not *)
(* received, except the oldest when QoS 1 traffic alone fills the buffer.   *)
Promise == INSTANCE AtLeastOnce WITH LastMsg  <- MaxRows,
                                     Capacity <- MaxMessages,
                                     kept     <- pending \cap urgent,
                                     evicted  <- evicted \cap urgent

KeepsPromise == Promise!Spec

(* client.py:198-210: once the monitor has seen a connection and its replay *)
(* is over, nothing waits on disk that is in nobody's hands: as long as the *)
(* connection holds, every pending QoS 1 row is with paho or received.      *)
NoOrphan ==
    (sock /\ connected /\ was /\ ~replaying /\ at = "idle")
        => \A r \in pending \cap urgent :
              r \in received \/ \E m \in Mids : out[m] = r

(* buffer.py:10-12: a message left pending by a crash or a disconnect is    *)
(* replayed on the next connection: the broker gets it in the end, unless   *)
(* QoS 1 traffic overflows the buffer.  With KeepsPromise this is all of    *)
(* AtLeastOnce!FairSpec, and it holds only while outages are seen.          *)
EventuallyReceived == Promise!Delivers

(* buffer.py:14-20: a QoS 0 message published while the link is down is     *)
(* retained and replayed, not left on disk.                                 *)
TelemetryReplayed ==
    \A r \in Rows : (r \in pending \ urgent) ~> (r \notin pending)
=============================================================================

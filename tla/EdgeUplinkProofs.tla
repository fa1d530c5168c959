--------------------------- MODULE EdgeUplinkProofs ---------------------------
(***************************************************************************)
(* The QoS 1 guarantees of the edge's uplink, for every capacity, every    *)
(* set of message ids and any number of outages and crashes.               *)
(*                                                                         *)
(* UplinkInv is inductive: the type invariant and the bound of the buffer, *)
(* AckTrail (whatever the client takes for an acknowledgement leads back   *)
(* to a row the broker has) and SettledWasReceived, which follows from it  *)
(* a step later.  The refinement of AtLeastOnce needs all of them.         *)
(*                                                                         *)
(* ReplayInv is inductive when an outage is seen: every pending row of an  *)
(* established session is in somebody's hands, those of a publisher, of    *)
(* the replay or of paho.  NoOrphan is what it comes to when all of them   *)
(* have finished.                                                          *)
(*                                                                         *)
(* The last section has the other refinement: with respect to the table    *)
(* the client is one of the environments MQTTBuffer allows, so what is     *)
(* proved of BufferSpec holds of the uplink.                               *)
(***************************************************************************)
EXTENDS EdgeUplink, MQTTBufferProofs

UplinkInv ==
    /\ UplinkTypeOK
    /\ BacklogBounded
    /\ AckTrail
    /\ SettledWasReceived

(* The buffer's invariant is part of the uplink's.                          *)
LEMMA UplinkBuffer == UplinkInv => BufferInv
BY DEF UplinkInv, UplinkTypeOK, BufferInv

(* The id 0 stands for no row because no row has it.                        *)
LEMMA NoRowIsNoRow == UplinkInv => NoRow \notin urgent /\ lastId \in Nat
<1> SUFFICES ASSUME UplinkInv
             PROVE  NoRow \notin urgent /\ lastId \in Nat
  OBVIOUS
<1>1. lastId \in Nat
  BY UplinkBuffer, BacklogFinite DEF BufferInv
<1>2. urgent \subseteq 1 .. lastId
  BY DEF UplinkInv, UplinkTypeOK, BufferTypeOK
<1> QED
  BY <1>1, <1>2 DEF NoRow

(* The initial state satisfies the invariant.                               *)
LEMMA UplinkInitInv == Init => UplinkInv
<1> SUFFICES ASSUME Init
             PROVE  UplinkInv
  OBVIOUS
<1>1. BufferInv
  BY BufferInitInv DEF Init
<1>2. UplinkTypeOK
  <2>1. drops \in 0 .. MaxDrops /\ crashes \in 0 .. MaxCrashes /\ row \in 0 .. lastId
    BY UplinkAssumption DEF Init, BufferInit, FreshClient, NoRow
  <2>2. /\ at \in Steps /\ caller \in Callers /\ mid \in Mids \cup {NoRow}
        /\ out \in [Mids -> {NoRow} \cup urgent]
        /\ inflight \in [Mids -> {NoRow} \cup urgent]
    BY DEF Init, FreshClient, Steps, Callers
  <2> QED
    BY <1>1, <2>1, <2>2
    DEF BufferInv, Init, BufferInit, FreshClient, UplinkTypeOK
<1>3. AckTrail /\ SettledWasReceived
  BY DEF Init, BufferInit, FreshClient, AckTrail, SettledWasReceived
<1> QED
  BY <1>1, <1>2, <1>3 DEF UplinkInv, BufferInv

-----------------------------------------------------------------------------
(* Steps that write the table                                               *)

(* What an insert does to the rows, whatever the purge discards: urgent     *)
(* rows stay urgent, nothing is settled, nothing is lost track of.          *)
LEMMA EnqueueKeepsTrack ==
    ASSUME UplinkInv, NEW qos \in {0, 1}, Enqueue(qos)
    PROVE  /\ BufferInv'
           /\ lastId' = lastId + 1
           /\ urgent' = IF qos = 1 THEN urgent \cup {lastId + 1} ELSE urgent
           /\ settled' \cap urgent' \subseteq settled \cap urgent
           /\ pending' \cup evicted' = pending \cup evicted \cup {lastId + 1}
<1>1. BufferInv'
  BY EnqueueInv, UplinkBuffer
<1>2. /\ lastId' = lastId + 1
      /\ urgent' = IF qos = 1 THEN urgent \cup {lastId + 1} ELSE urgent
      /\ settled' \subseteq settled
      /\ pending' \cup evicted' = pending \cup evicted \cup {lastId + 1}
  BY DEF Enqueue, NextRowId
<1>3. lastId + 1 \notin settled
  BY NoRowIsNoRow DEF UplinkInv, UplinkTypeOK, BufferTypeOK
<1> QED
  BY <1>1, <1>2, <1>3

(* publish stores its QoS 1 message before it hands it to paho.             *)
LEMMA PublishUrgentInv == UplinkInv /\ PublishUrgent => UplinkInv'
<1> SUFFICES ASSUME UplinkInv, PublishUrgent
             PROVE  UplinkInv'
  OBVIOUS
<1>1. /\ BufferInv'
      /\ lastId' = lastId + 1
      /\ urgent' = urgent \cup {lastId + 1}
      /\ settled' \cap urgent' \subseteq settled \cap urgent
      /\ pending' \cup evicted' = pending \cup evicted \cup {lastId + 1}
  BY EnqueueKeepsTrack DEF PublishUrgent
<1>2. UplinkTypeOK'
  BY <1>1, NoRowIsNoRow
  DEF UplinkInv, UplinkTypeOK, PublishUrgent, BufferInv, Steps, Callers,
      linkVars, replayVars, budget
<1>3. AckTrail' /\ SettledWasReceived'
  BY <1>1 DEF UplinkInv, AckTrail, SettledWasReceived, PublishUrgent, linkVars
<1> QED
  BY <1>1, <1>2, <1>3 DEF UplinkInv, BufferInv

(* A QoS 0 message that could not be sent is stored.                        *)
LEMMA StoreTelemetryInv == UplinkInv /\ StoreTelemetry => UplinkInv'
<1> SUFFICES ASSUME UplinkInv, StoreTelemetry
             PROVE  UplinkInv'
  OBVIOUS
<1>1. /\ BufferInv'
      /\ lastId' = lastId + 1
      /\ urgent' = urgent
      /\ settled' \cap urgent' \subseteq settled \cap urgent
      /\ pending' \cup evicted' = pending \cup evicted \cup {lastId + 1}
  BY EnqueueKeepsTrack DEF StoreTelemetry
<1>2. UplinkTypeOK'
  BY <1>1, NoRowIsNoRow
  DEF UplinkInv, UplinkTypeOK, StoreTelemetry, GoTo, BufferInv, Steps, Callers,
      linkVars, replayVars, budget, NoRow
<1>3. AckTrail' /\ SettledWasReceived'
  BY <1>1
  DEF UplinkInv, AckTrail, SettledWasReceived, StoreTelemetry, GoTo, linkVars
<1> QED
  BY <1>1, <1>2, <1>3 DEF UplinkInv, BufferInv

(* mark_delivered on a row that is telemetry, or that the broker has.       *)
LEMMA MarkKeepsTrack ==
    ASSUME UplinkInv, NEW r, MarkDelivered(r), r \notin urgent \/ r \in received
    PROVE  /\ BufferInv'
           /\ UNCHANGED <<lastId, urgent, evicted>>
           /\ urgent \subseteq pending' \cup evicted \cup received
           /\ settled' \cap urgent \subseteq received
<1>1. BufferInv'
  BY MarkDeliveredInv, UplinkBuffer
<1> QED
  BY <1>1 DEF MarkDelivered, UplinkInv, AckTrail, SettledWasReceived

(* The replay settles a QoS 0 row as soon as paho has taken it.             *)
LEMMA ReplayTelemetryInv == UplinkInv /\ ReplayTelemetry => UplinkInv'
<1> SUFFICES ASSUME UplinkInv, ReplayTelemetry
             PROVE  UplinkInv'
  OBVIOUS
<1>1. /\ BufferInv'
      /\ UNCHANGED <<lastId, urgent, evicted>>
      /\ urgent \subseteq pending' \cup evicted \cup received
      /\ settled' \cap urgent \subseteq received
  BY MarkKeepsTrack DEF ReplayTelemetry
<1>2. UplinkTypeOK'
  BY <1>1, NoRowIsNoRow
  DEF UplinkInv, UplinkTypeOK, ReplayTelemetry, TelemetryWritten, GoTo, BufferInv,
      Steps, Callers, linkVars, budget, Free, NoRow
<1>3. AckTrail' /\ SettledWasReceived'
  BY <1>1, NoRowIsNoRow
  DEF UplinkInv, UplinkTypeOK, AckTrail, SettledWasReceived, ReplayTelemetry,
      TelemetryWritten, GoTo, linkVars, Free, NoRow
<1> QED
  BY <1>1, <1>2, <1>3 DEF UplinkInv, BufferInv

(* A scheduled mark_delivered settles a row whose PUBACK has come.          *)
LEMMA RunMarkInv == UplinkInv /\ RunMark => UplinkInv'
<1> SUFFICES ASSUME UplinkInv, RunMark
             PROVE  UplinkInv'
  OBVIOUS
<1>1. PICK r \in marks : MarkDelivered(r) /\ marks' = marks \ {r}
  BY DEF RunMark
<1>2. r \in received
  BY DEF UplinkInv, AckTrail
<1>3. /\ BufferInv'
      /\ UNCHANGED <<lastId, urgent, evicted>>
      /\ urgent \subseteq pending' \cup evicted \cup received
      /\ settled' \cap urgent \subseteq received
  BY <1>1, <1>2, MarkKeepsTrack
<1>4. UplinkTypeOK'
  BY <1>1, <1>3
  DEF UplinkInv, UplinkTypeOK, RunMark, BufferInv, linkVars, loopVars,
      replayVars, budget
<1>5. AckTrail' /\ SettledWasReceived'
  BY <1>1, <1>3
  DEF UplinkInv, AckTrail, SettledWasReceived, RunMark, linkVars, loopVars
<1> QED
  BY <1>3, <1>4, <1>5 DEF UplinkInv, BufferInv

-----------------------------------------------------------------------------
(* Steps that leave the table alone                                         *)

(* The event loop's own moves: they touch neither the table nor any of the  *)
(* places an acknowledgement passes through.                                *)
Moves ==
    \/ TelemetryFails \/ FindDisconnected \/ PollConnected \/ PollDisconnected
    \/ ReplayEnds \/ ReplayFetch \/ ReplayWake \/ OnDisconnect

(* Each of them preserves the invariant.                                    *)
LEMMA MovesInv == UplinkInv /\ Moves => UplinkInv'
<1> SUFFICES ASSUME UplinkInv, Moves
             PROVE  UplinkInv'
  OBVIOUS
<1>1. BufferInv' /\ UNCHANGED bufVars
  <2>1. UNCHANGED bufVars
    BY DEF Moves, TelemetryFails, FindDisconnected, PollConnected,
           PollDisconnected, ReplayEnds, ReplayFetch, ReplayWake, OnDisconnect
  <2> QED
    BY <2>1, BufferStutterInv, UplinkBuffer
<1>2. CASE TelemetryFails
  BY <1>2, <1>1, NoRowIsNoRow
  DEF TelemetryFails, UplinkInv, UplinkTypeOK, BufferInv, AckTrail,
      SettledWasReceived, bufVars, linkVars, loopVars, replayVars, budget,
      GoTo, Steps, Callers, NoRow
<1>3. CASE FindDisconnected
  BY <1>3, <1>1, NoRowIsNoRow
  DEF FindDisconnected, UplinkInv, UplinkTypeOK, BufferInv, AckTrail,
      SettledWasReceived, bufVars, linkVars, loopVars, replayVars, budget,
      GoTo, Steps, Callers, NoRow
<1>4. CASE PollConnected
  BY <1>4, <1>1, NoRowIsNoRow
  DEF PollConnected, UplinkInv, UplinkTypeOK, BufferInv, AckTrail,
      SettledWasReceived, bufVars, linkVars, loopVars, replayVars, budget,
      GoTo, Steps, Callers, NoRow
<1>5. CASE PollDisconnected
  BY <1>5, <1>1, NoRowIsNoRow
  DEF PollDisconnected, UplinkInv, UplinkTypeOK, BufferInv, AckTrail,
      SettledWasReceived, bufVars, linkVars, loopVars, replayVars, budget,
      GoTo, Steps, Callers, NoRow
<1>6. CASE ReplayEnds
  <2>1. was' \in BOOLEAN /\ replaying' \in BOOLEAN /\ progressed' \in BOOLEAN
    BY <1>6 DEF ReplayEnds, UplinkInv, UplinkTypeOK
  <2>2. UplinkTypeOK'
    BY <1>6, <1>1, <2>1, NoRowIsNoRow
    DEF ReplayEnds, UplinkInv, UplinkTypeOK, BufferInv, bufVars, linkVars,
        budget, GoTo, Steps, Callers, NoRow
  <2>3. AckTrail' /\ SettledWasReceived'
    BY <1>6, <1>1
    DEF ReplayEnds, UplinkInv, AckTrail, SettledWasReceived, bufVars, linkVars,
        GoTo
  <2> QED
    BY <1>1, <2>2, <2>3 DEF UplinkInv, BufferInv
<1>7. CASE ReplayFetch
  <2>1. PICK b \in SUBSET pending : batch' = b /\ \E r \in b : row' = r
    BY <1>7 DEF ReplayFetch, Oldest
  <2>2. batch' \subseteq 1 .. lastId /\ row' \in 0 .. lastId
    BY <2>1, NoRowIsNoRow DEF UplinkInv, UplinkTypeOK, BufferTypeOK
  <2>3. UplinkTypeOK'
    <3>1. was' \in BOOLEAN /\ replaying' \in BOOLEAN /\ progressed' \in BOOLEAN
      BY <1>7 DEF ReplayFetch, UplinkInv, UplinkTypeOK
    <3> QED
      BY <1>7, <1>1, <2>2, <3>1
      DEF ReplayFetch, UplinkInv, UplinkTypeOK, BufferInv, bufVars, linkVars,
          budget, Steps, Callers, NoRow
  <2>4. AckTrail' /\ SettledWasReceived'
    BY <1>7, <1>1
    DEF ReplayFetch, UplinkInv, AckTrail, SettledWasReceived, bufVars, linkVars
  <2> QED
    BY <1>1, <2>3, <2>4 DEF UplinkInv, BufferInv
<1>8. CASE ReplayWake
  BY <1>8, <1>1, NoRowIsNoRow
  DEF ReplayWake, Oldest, UplinkInv, UplinkTypeOK, BufferInv, AckTrail,
      SettledWasReceived, bufVars, linkVars, loopVars, replayVars, budget,
      GoTo, Steps, Callers, NoRow
<1>9. CASE OnDisconnect
  BY <1>9, <1>1, NoRowIsNoRow
  DEF OnDisconnect, clientVars, UplinkInv, UplinkTypeOK, BufferInv, AckTrail,
      SettledWasReceived, bufVars, linkVars, loopVars, replayVars, budget,
      GoTo, Steps, Callers, NoRow
<1> QED
  BY <1>2, <1>3, <1>4, <1>5, <1>6, <1>7, <1>8, <1>9 DEF Moves

(* on_publish for a QoS 0 message under a free id: a row left behind in     *)
(* _inflight under that id is one the broker has.                           *)
LEMMA PublishTelemetryInv == UplinkInv /\ PublishTelemetry => UplinkInv'
<1> SUFFICES ASSUME UplinkInv, PublishTelemetry
             PROVE  UplinkInv'
  OBVIOUS
<1>1. BufferInv' /\ UNCHANGED bufVars
  BY BufferStutterInv, UplinkBuffer DEF PublishTelemetry
<1>2. UplinkTypeOK'
  BY <1>1, NoRowIsNoRow
  DEF PublishTelemetry, TelemetryWritten, UplinkInv, UplinkTypeOK, BufferInv, bufVars, Steps, Callers,
      linkVars, loopVars, replayVars, budget, Free, NoRow
<1>3. AckTrail' /\ SettledWasReceived'
  BY <1>1, NoRowIsNoRow
  DEF PublishTelemetry, TelemetryWritten, UplinkInv, UplinkTypeOK, AckTrail, SettledWasReceived, bufVars,
      linkVars, loopVars, replayVars, budget, Free, NoRow
<1> QED
  BY <1>1, <1>2, <1>3 DEF UplinkInv, BufferInv

(* paho takes the row under a free id: nothing acknowledges that id yet.    *)
LEMMA HandOffInv == UplinkInv /\ HandOff => UplinkInv'
<1> SUFFICES ASSUME UplinkInv, HandOff
             PROVE  UplinkInv'
  OBVIOUS
<1>1. BufferInv' /\ UNCHANGED bufVars
  BY BufferStutterInv, UplinkBuffer DEF HandOff
<1>2. UplinkTypeOK'
  BY <1>1, NoRowIsNoRow
  DEF HandOff, UplinkInv, UplinkTypeOK, BufferInv, bufVars, Steps, Callers,
      replayVars, budget, Free, NoRow
<1>3. AckTrail' /\ SettledWasReceived'
  BY <1>1, NoRowIsNoRow
  DEF HandOff, UplinkInv, UplinkTypeOK, AckTrail, SettledWasReceived, bufVars,
      replayVars, budget, Free, NoRow
<1> QED
  BY <1>1, <1>2, <1>3 DEF UplinkInv, BufferInv

(* The id is registered; if its PUBACK has come, the broker has the row.    *)
LEMMA RegisterInv == UplinkInv /\ Register => UplinkInv'
<1> SUFFICES ASSUME UplinkInv, Register
             PROVE  UplinkInv'
  OBVIOUS
<1>1. BufferInv' /\ UNCHANGED bufVars
  BY BufferStutterInv, UplinkBuffer DEF Register
<1>2. UplinkTypeOK'
  <2>1. inflight' \in [Mids -> {NoRow} \cup urgent']
    BY <1>1 DEF Register, UplinkInv, UplinkTypeOK, AckTrail, bufVars
  <2>2. progressed' \in BOOLEAN /\ batch' \in SUBSET (1 .. lastId)
    BY DEF Register, UplinkInv, UplinkTypeOK
  <2>3. UNCHANGED <<linkVars, marks, was, replaying, budget>>
    BY DEF Register
  <2>4. at' \in Steps /\ caller' \in Callers /\ row' = NoRow /\ mid' = NoRow
    BY DEF Register, GoTo, Steps, Callers
  <2> QED
    BY <1>1, <2>1, <2>2, <2>3, <2>4, NoRowIsNoRow
    DEF UplinkInv, UplinkTypeOK, BufferInv, bufVars, linkVars, budget, NoRow
<1>3. AckTrail' /\ SettledWasReceived'
  BY <1>1, NoRowIsNoRow
  DEF Register, UplinkInv, UplinkTypeOK, AckTrail, SettledWasReceived, bufVars,
      linkVars, GoTo, budget, NoRow
<1> QED
  BY <1>1, <1>2, <1>3 DEF UplinkInv, BufferInv

(* paho keeps the row of a failed publish under an id nobody registered.    *)
LEMMA HandOffRefusedInv == UplinkInv /\ HandOffRefused => UplinkInv'
<1> SUFFICES ASSUME UplinkInv, HandOffRefused
             PROVE  UplinkInv'
  OBVIOUS
<1>1. BufferInv' /\ UNCHANGED bufVars
  BY BufferStutterInv, UplinkBuffer DEF HandOffRefused
<1>2. UplinkTypeOK'
  BY <1>1, NoRowIsNoRow
  DEF HandOffRefused, UplinkInv, UplinkTypeOK, BufferInv, bufVars, Steps, Callers,
      budget, Free, GoTo, NoRow
<1>3. AckTrail' /\ SettledWasReceived'
  BY <1>1, NoRowIsNoRow
  DEF HandOffRefused, UplinkInv, UplinkTypeOK, AckTrail, SettledWasReceived, bufVars,
      budget, Free, GoTo, NoRow
<1> QED
  BY <1>1, <1>2, <1>3 DEF UplinkInv, BufferInv

(* paho sends again what it kept; no PUBACK of the old connection is left.  *)
LEMMA OnConnectInv == UplinkInv /\ OnConnect => UplinkInv'
<1> SUFFICES ASSUME UplinkInv, OnConnect
             PROVE  UplinkInv'
  OBVIOUS
<1>1. BufferInv' /\ UNCHANGED bufVars
  BY BufferStutterInv, UplinkBuffer DEF OnConnect
<1>2. UplinkTypeOK'
  <2>1. /\ sock' \in BOOLEAN /\ connected' \in BOOLEAN
        /\ wire' \in SUBSET {m \in Mids : out'[m] # NoRow}
        /\ acks' = {} /\ UNCHANGED <<out, received, clientVars, budget>>
    BY DEF OnConnect, UplinkInv, AckTrail
  <2> QED
    BY <1>1, <2>1
    DEF UplinkInv, UplinkTypeOK, BufferInv, bufVars, clientVars, loopVars,
        replayVars, budget
<1>3. AckTrail' /\ SettledWasReceived'
  BY <1>1, NoRowIsNoRow
  DEF OnConnect, UplinkInv, UplinkTypeOK, AckTrail, SettledWasReceived, bufVars,
      clientVars, loopVars, replayVars, budget, NoRow
<1> QED
  BY <1>1, <1>2, <1>3 DEF UplinkInv, BufferInv

(* What was in transit is lost.                                             *)
LEMMA LoseConnectionInv == UplinkInv /\ LoseConnection => UplinkInv'
<1> SUFFICES ASSUME UplinkInv, LoseConnection
             PROVE  UplinkInv'
  OBVIOUS
<1>1. BufferInv' /\ UNCHANGED bufVars
  BY BufferStutterInv, UplinkBuffer DEF LoseConnection
<1>2. UplinkTypeOK'
  <2>1. drops' \in 0 .. MaxDrops
    BY UplinkAssumption DEF LoseConnection, UplinkInv, UplinkTypeOK
  <2> QED
    BY <1>1, <2>1
    DEF LoseConnection, UplinkInv, UplinkTypeOK, BufferInv, bufVars, clientVars,
        loopVars, replayVars
<1>3. AckTrail' /\ SettledWasReceived'
  BY <1>1, NoRowIsNoRow
  DEF LoseConnection, UplinkInv, UplinkTypeOK, AckTrail, SettledWasReceived, bufVars,
      clientVars, loopVars, replayVars
<1> QED
  BY <1>1, <1>2, <1>3 DEF UplinkInv, BufferInv

(* A PUBACK frees its id and schedules the row registered under it.         *)
LEMMA OnPublishInv == UplinkInv /\ OnPublish => UplinkInv'
<1> SUFFICES ASSUME UplinkInv, OnPublish
             PROVE  UplinkInv'
  OBVIOUS
<1>1. BufferInv' /\ UNCHANGED bufVars
  BY BufferStutterInv, UplinkBuffer DEF OnPublish
<1>2. UplinkTypeOK'
  BY <1>1, NoRowIsNoRow
  DEF OnPublish, UplinkInv, UplinkTypeOK, BufferInv, bufVars, Steps, Callers,
      loopVars, replayVars, budget, NoRow
<1>3. AckTrail' /\ SettledWasReceived'
  BY <1>1, NoRowIsNoRow
  DEF OnPublish, UplinkInv, UplinkTypeOK, AckTrail, SettledWasReceived, bufVars,
      loopVars, replayVars, budget, NoRow
<1> QED
  BY <1>1, <1>2, <1>3 DEF UplinkInv, BufferInv

(* The broker receives a row, and only then acknowledges it.                *)
LEMMA BrokerReceiveInv == UplinkInv /\ BrokerReceive => UplinkInv'
<1> SUFFICES ASSUME UplinkInv, BrokerReceive
             PROVE  UplinkInv'
  OBVIOUS
<1>1. BufferInv' /\ UNCHANGED bufVars
  BY BufferStutterInv, UplinkBuffer DEF BrokerReceive
<1>2. UplinkTypeOK'
  BY <1>1, NoRowIsNoRow
  DEF BrokerReceive, UplinkInv, UplinkTypeOK, BufferInv, bufVars, Steps, Callers,
      clientVars, loopVars, replayVars, budget, NoRow
<1>3. AckTrail' /\ SettledWasReceived'
  BY <1>1, NoRowIsNoRow
  DEF BrokerReceive, UplinkInv, UplinkTypeOK, AckTrail, SettledWasReceived, bufVars,
      clientVars, loopVars, replayVars, budget, NoRow
<1> QED
  BY <1>1, <1>2, <1>3 DEF UplinkInv, BufferInv

(* A new process starts with empty tables of message ids.                   *)
LEMMA RestartInv == UplinkInv /\ Restart => UplinkInv'
<1> SUFFICES ASSUME UplinkInv, Restart
             PROVE  UplinkInv'
  OBVIOUS
<1>1. BufferInv' /\ UNCHANGED bufVars
  BY BufferStutterInv, UplinkBuffer DEF Restart
<1>2. UplinkTypeOK'
  <2>1. crashes' \in 0 .. MaxCrashes
    BY UplinkAssumption DEF Restart, UplinkInv, UplinkTypeOK
  <2>2. /\ at' \in Steps /\ caller' \in Callers /\ row' \in 0 .. lastId
        /\ mid' \in Mids \cup {NoRow}
        /\ out' \in [Mids -> {NoRow} \cup urgent]
        /\ inflight' \in [Mids -> {NoRow} \cup urgent]
    BY NoRowIsNoRow DEF Restart, Steps, Callers, NoRow
  <2> QED
    BY <1>1, <2>1, <2>2
    DEF Restart, UplinkInv, UplinkTypeOK, BufferInv, bufVars
<1>3. AckTrail' /\ SettledWasReceived'
  BY <1>1, NoRowIsNoRow
  DEF Restart, UplinkInv, UplinkTypeOK, AckTrail, SettledWasReceived, bufVars,
      NoRow
<1> QED
  BY <1>1, <1>2, <1>3 DEF UplinkInv, BufferInv

(* So does doing nothing.                                                   *)
LEMMA UplinkStutterInv == UplinkInv /\ UNCHANGED vars => UplinkInv'
<1> SUFFICES ASSUME UplinkInv, UNCHANGED vars
             PROVE  UplinkInv'
  OBVIOUS
<1>1. BufferInv'
  BY BufferStutterInv, UplinkBuffer DEF vars
<1> QED
  BY <1>1
  DEF UplinkInv, UplinkTypeOK, BufferInv, AckTrail, SettledWasReceived, vars,
      bufVars, linkVars, clientVars, loopVars, replayVars, budget

-----------------------------------------------------------------------------
(* Theorems                                                                 *)

(* Every step of the specification preserves the invariant.                 *)
LEMMA UplinkNextInv == UplinkInv /\ [Next]_vars => UplinkInv'
<1> SUFFICES ASSUME UplinkInv, [Next]_vars
             PROVE  UplinkInv'
  OBVIOUS
<1>1. CASE PublishUrgent \/ StoreTelemetry \/ ReplayTelemetry \/ RunMark
  BY <1>1, PublishUrgentInv, StoreTelemetryInv, ReplayTelemetryInv, RunMarkInv
<1>2. CASE Moves
  BY <1>2, MovesInv
<1>3. CASE PublishTelemetry \/ HandOff \/ Register \/ HandOffRefused
  BY <1>3, PublishTelemetryInv, HandOffInv, RegisterInv, HandOffRefusedInv
<1>4. CASE \/ OnConnect \/ LoseConnection \/ OnPublish \/ BrokerReceive
           \/ Restart
  BY <1>4, OnConnectInv, LoseConnectionInv, OnPublishInv, BrokerReceiveInv,
     RestartInv
<1>5. CASE UNCHANGED vars
  BY <1>5, UplinkStutterInv
<1> QED
  BY <1>1, <1>2, <1>3, <1>4, <1>5 DEF Next, EventLoop, Network, Moves

(* Type correctness of the client, the library under it and the table.      *)
THEOREM UplinkTypeCorrect == Spec => []UplinkTypeOK
<1>1. UplinkInv => UplinkTypeOK
  BY DEF UplinkInv
<1> QED
  BY <1>1, UplinkInitInv, UplinkNextInv, PTL DEF Spec

(* client.py:369-386: a QoS 1 row is marked delivered only if the broker    *)
(* has it, whatever the order in which the two threads, the acknowledgement *)
(* and the outages come.                                                    *)
THEOREM SettledRowsWereReceived == Spec => []SettledWasReceived
<1>1. UplinkInv => SettledWasReceived
  BY DEF UplinkInv
<1> QED
  BY <1>1, UplinkInitInv, UplinkNextInv, PTL DEF Spec

(* client.py:242-251, 369-386: no entry of _inflight, no PUBACK and no       *)
(* scheduled mark_delivered ever leads to a row paho does not hold and the  *)
(* broker does not have, and no QoS 1 row is lost track of.                 *)
THEOREM AcksLeadBack == Spec => []AckTrail
<1>1. UplinkInv => AckTrail
  BY DEF UplinkInv
<1> QED
  BY <1>1, UplinkInitInv, UplinkNextInv, PTL DEF Spec

(* buffer.py:25: the bound holds for the client as it does for the buffer.  *)
THEOREM UplinkBacklogBounded == Spec => []BacklogBounded
<1>1. UplinkInv => BacklogBounded
  BY DEF UplinkInv
<1> QED
  BY <1>1, UplinkInitInv, UplinkNextInv, PTL DEF Spec

-----------------------------------------------------------------------------
(* No row is orphaned                                                       *)

(* A connection that the monitor has seen, and that has held since.         *)
LinkHolds == sock /\ was

(* paho holds the row, or the broker has it.                                *)
Held(r) == r \in received \/ \E m \in Mids : out[m] = r

(* Why NoOrphan holds, when no outage goes unseen.  Only the replay could   *)
(* give up rows while the link holds, by making no progress; but a batch    *)
(* without a success is one that met a dead socket, and while `was' is set  *)
(* a dead socket stays dead.  So the replay ends with nothing pending, and  *)
(* a row that comes later is held, or about to be handed over.              *)
ReplayInv ==
    /\ sock => connected
    /\ at \notin {"handoff", "register"} => caller = "publish"
    /\ LinkHolds /\ replaying /\ caller = "publish" => progressed
    /\ LinkHolds /\ ~replaying =>
          \A r \in pending \cap urgent : Held(r) \/ (at = "handoff" /\ row = r)

(* The initial state satisfies it: there is no connection.                  *)
LEMMA ReplayInitInv == Init => ReplayInv
BY DEF Init, FreshClient, ReplayInv, LinkHolds

(* A row that is held stays so, unless the process dies: paho forgets a row *)
(* when its PUBACK comes, and then the broker has it.                       *)
LEMMA HeldStays ==
    ASSUME UplinkInv, [Next]_vars, ~Restart,
           NEW r \in urgent, Held(r)
    PROVE  Held(r)'
<1>1. CASE HandOff \/ HandOffRefused
  <2>1. received' = received
    BY <1>1 DEF HandOff, HandOffRefused
  <2>2. r # NoRow /\ out \in [Mids -> {NoRow} \cup urgent]
    BY NoRowIsNoRow DEF UplinkInv, UplinkTypeOK
  <2>3. \/ out' = out
        \/ \E m \in Mids : out[m] = NoRow /\ out' = [out EXCEPT ![m] = row]
    BY <1>1 DEF HandOff, HandOffRefused, Free
  <2> QED
    BY <2>1, <2>2, <2>3 DEF Held
<1>2. CASE OnPublish
  <2>1. PICK n \in acks : out' = [out EXCEPT ![n] = NoRow]
    BY <1>2 DEF OnPublish
  <2>2. received' = received /\ out[n] \in received
    BY <1>2 DEF OnPublish, UplinkInv, AckTrail
  <2>3. out \in [Mids -> {NoRow} \cup urgent]
    BY DEF UplinkInv, UplinkTypeOK
  <2> QED
    BY <2>1, <2>2, <2>3 DEF Held
<1>3. CASE BrokerReceive
  BY <1>3 DEF BrokerReceive, Held
<1>4. CASE \/ Moves \/ PublishUrgent \/ PublishTelemetry \/ StoreTelemetry
           \/ Register \/ ReplayTelemetry \/ RunMark \/ OnConnect
           \/ LoseConnection \/ UNCHANGED vars
  <2>1. UNCHANGED <<out, received>>
    BY <1>4
    DEF Moves, TelemetryFails, FindDisconnected, PollConnected,
        PollDisconnected, ReplayEnds, ReplayFetch, ReplayWake, OnDisconnect,
        PublishUrgent, PublishTelemetry, StoreTelemetry, Register,
        ReplayTelemetry, RunMark, OnConnect, LoseConnection, vars, linkVars
  <2> QED
    BY <2>1 DEF Held
<1> QED
  BY <1>1, <1>2, <1>3, <1>4 DEF Next, EventLoop, Network, Moves

(* The QoS 1 rows that wait after a step waited before it, but for the one  *)
(* that publish is about to hand over.                                      *)
LEMMA NewRowIsInHand ==
    ASSUME UplinkInv, [Next]_vars, NEW r \in pending' \cap urgent'
    PROVE  \/ r \in pending \cap urgent
           \/ PublishUrgent /\ at' = "handoff" /\ row' = r
<1>1. CASE PublishUrgent
  <2>1. /\ pending' \subseteq pending \cup {lastId + 1}
        /\ urgent' = urgent \cup {lastId + 1}
        /\ at' = "handoff" /\ row' = lastId + 1
    BY <1>1 DEF PublishUrgent, Enqueue, NextRowId
  <2>2. lastId + 1 \notin pending /\ lastId + 1 \notin urgent
    BY NoRowIsNoRow DEF UplinkInv, UplinkTypeOK, BufferTypeOK
  <2> QED
    BY <1>1, <2>1, <2>2
<1>2. CASE StoreTelemetry
  <2>1. pending' \subseteq pending \cup {lastId + 1} /\ urgent' = urgent
    BY <1>2 DEF StoreTelemetry, Enqueue, NextRowId
  <2>2. lastId + 1 \notin urgent
    BY NoRowIsNoRow DEF UplinkInv, UplinkTypeOK, BufferTypeOK
  <2> QED
    BY <2>1, <2>2
<1>3. CASE ~PublishUrgent /\ ~StoreTelemetry
  <2>1. CASE \E id : MarkDelivered(id)
    BY <2>1 DEF MarkDelivered
  <2>2. CASE UNCHANGED bufVars
    BY <2>2 DEF bufVars
  <2>3. \/ \E id : MarkDelivered(id)
        \/ UNCHANGED bufVars
    BY <1>3
    DEF Next, EventLoop, Network, TelemetryFails, FindDisconnected,
        PollConnected, PollDisconnected, ReplayEnds, ReplayFetch, ReplayWake,
        RunMark, OnDisconnect, PublishTelemetry, HandOff, Register,
        HandOffRefused, ReplayTelemetry, OnConnect, LoseConnection, OnPublish,
        BrokerReceive, Restart, vars
  <2> QED
    BY <2>1, <2>2, <2>3
<1> QED
  BY <1>1, <1>2, <1>3

(* The link's part of ReplayInv: how the two flags and the coroutine's      *)
(* place go together.                                                       *)
LEMMA ReplayPlace ==
    ASSUME UplinkInv, ReplayInv, OutageIsSeen, [Next]_vars
    PROVE  /\ sock' => connected'
           /\ at' \notin {"handoff", "register"} => caller' = "publish"
           /\ LinkHolds' /\ replaying' /\ caller' = "publish" => progressed'
<1> USE DEF ReplayInv, LinkHolds
<1>1. CASE PublishUrgent \/ TelemetryFails \/ StoreTelemetry \/ PublishTelemetry
  BY <1>1
  DEF PublishUrgent, TelemetryFails, StoreTelemetry, PublishTelemetry, GoTo,
      linkVars, loopVars, replayVars
<1>2. CASE FindDisconnected \/ HandOffRefused
  BY <1>2 DEF FindDisconnected, HandOffRefused, GoTo, linkVars
<1>3. CASE HandOff \/ Register \/ ReplayTelemetry
  <2>1. caller \in {"publish", "replay"} /\ progressed \in BOOLEAN
    BY DEF UplinkInv, UplinkTypeOK, Callers
  <2>2. CASE HandOff
    BY <2>2 DEF HandOff, replayVars
  <2>3. CASE Register
    BY <2>1, <2>3 DEF Register, GoTo, linkVars
  <2>4. CASE ReplayTelemetry
    BY <2>4 DEF ReplayTelemetry, GoTo, linkVars
  <2> QED
    BY <1>3, <2>2, <2>3, <2>4
<1>4. CASE PollConnected \/ PollDisconnected \/ RunMark
  BY <1>4
  DEF PollConnected, PollDisconnected, RunMark, GoTo, linkVars, loopVars,
      replayVars
<1>5. CASE ReplayEnds \/ ReplayFetch \/ ReplayWake
  BY <1>5
  DEF ReplayEnds, ReplayFetch, ReplayWake, GoTo, linkVars, loopVars, replayVars
<1>6. CASE OnConnect \/ LoseConnection \/ OnDisconnect \/ OnPublish \/ BrokerReceive
  BY <1>6
  DEF OnConnect, LoseConnection, OnDisconnect, OnPublish, BrokerReceive,
      clientVars, loopVars, replayVars
<1>7. CASE Restart \/ UNCHANGED vars
  BY <1>7 DEF Restart, vars, linkVars, clientVars, loopVars, replayVars
<1> QED
  BY <1>1, <1>2, <1>3, <1>4, <1>5, <1>6, <1>7 DEF Next, EventLoop, Network

(* While the link holds, a replay ends only with nothing pending.           *)
LEMMA ReplayEndsEmpty ==
    ASSUME UplinkInv, ReplayInv, OutageIsSeen, [Next]_vars,
           LinkHolds', ~replaying', ~(LinkHolds /\ ~replaying)
    PROVE  pending' = {}
<1> USE DEF ReplayInv, LinkHolds
<1>1. CASE ReplayEnds
  BY <1>1 DEF ReplayEnds, linkVars, bufVars
<1>2. CASE PollConnected
  BY <1>2 DEF PollConnected, bufVars
<1>3. CASE ~ReplayEnds /\ ~PollConnected
  <2>1. CASE OnConnect
    BY <2>1 DEF OnConnect, clientVars, replayVars
  <2>2. CASE Restart
    BY <2>2 DEF Restart
  <2>3. CASE ~OnConnect /\ ~Restart
    <3>1. CASE sock
      <4>1. was' => was
        BY <1>3, <2>3
        DEF Next, EventLoop, Network, PublishUrgent, PublishTelemetry,
            TelemetryFails, StoreTelemetry, FindDisconnected, HandOff, Register,
            HandOffRefused, ReplayTelemetry, PollDisconnected, ReplayFetch,
            ReplayWake, RunMark, OnDisconnect, OnPublish, BrokerReceive,
            LoseConnection, vars, clientVars, replayVars
      <4>2. ~replaying' => ~replaying
        BY <1>3, <2>3
        DEF Next, EventLoop, Network, PublishUrgent, PublishTelemetry,
            TelemetryFails, StoreTelemetry, FindDisconnected, HandOff, Register,
            HandOffRefused, ReplayTelemetry, PollDisconnected, ReplayFetch,
            ReplayWake, RunMark, OnDisconnect, OnPublish, BrokerReceive,
            LoseConnection, vars, clientVars, replayVars
      <4> QED
        BY <3>1, <4>1, <4>2
    <3>2. CASE ~sock
      BY <1>3, <2>3, <3>2
      DEF Next, EventLoop, Network, PublishUrgent, PublishTelemetry,
          TelemetryFails, StoreTelemetry, FindDisconnected, HandOff, Register,
          HandOffRefused, ReplayTelemetry, PollDisconnected, ReplayFetch,
          ReplayWake, RunMark, OnDisconnect, OnPublish, BrokerReceive,
          LoseConnection, vars, linkVars
    <3> QED
      BY <3>1, <3>2
  <2> QED
    BY <2>1, <2>2, <2>3
<1> QED
  BY <1>1, <1>2, <1>3

(* A row about to be handed over is held once it is; a dead socket, which   *)
(* would leave it in nobody's hands, is not one that holds.                 *)
LEMMA HandedRowIsHeld ==
    ASSUME UplinkInv, ReplayInv, OutageIsSeen, [Next]_vars, LinkHolds', LinkHolds,
           at = "handoff", NEW r \in pending' \cap urgent, row = r
    PROVE  Held(r)' \/ (at' = "handoff" /\ row' = r)
<1> USE DEF ReplayInv, LinkHolds
<1>1. CASE HandOff
  <2>1. PICK m \in Mids : out' = [out EXCEPT ![m] = r]
    BY <1>1 DEF HandOff, Free
  <2>2. out'[m] = r
    BY <2>1 DEF UplinkInv, UplinkTypeOK
  <2> QED
    BY <2>2 DEF Held
<1>2. CASE FindDisconnected \/ HandOffRefused
  BY <1>2 DEF FindDisconnected, HandOffRefused
<1>3. CASE ReplayTelemetry
  BY <1>3 DEF ReplayTelemetry
<1>4. CASE \/ PublishUrgent \/ PublishTelemetry \/ TelemetryFails
           \/ StoreTelemetry \/ Register \/ PollConnected \/ PollDisconnected
           \/ ReplayEnds \/ ReplayFetch \/ ReplayWake \/ RunMark
  BY <1>4
  DEF PublishUrgent, PublishTelemetry, TelemetryFails, StoreTelemetry, Register,
      PollConnected, PollDisconnected, ReplayEnds, ReplayFetch, ReplayWake,
      RunMark
<1>5. CASE \/ OnConnect \/ LoseConnection \/ OnDisconnect \/ OnPublish
           \/ BrokerReceive \/ UNCHANGED vars
  BY <1>5
  DEF OnConnect, LoseConnection, OnDisconnect, OnPublish, BrokerReceive, vars,
      clientVars, loopVars
<1>6. CASE Restart
  BY <1>6 DEF Restart
<1> QED
  BY <1>1, <1>2, <1>3, <1>4, <1>5, <1>6 DEF Next, EventLoop, Network

(* Every step preserves ReplayInv, if no outage goes unseen.                *)
LEMMA ReplayNextInv ==
    ASSUME OutageIsSeen
    PROVE  UplinkInv /\ ReplayInv /\ [Next]_vars => ReplayInv'
<1> SUFFICES ASSUME UplinkInv, ReplayInv, [Next]_vars
             PROVE  ReplayInv'
  OBVIOUS
<1>1. ASSUME LinkHolds', ~replaying', NEW r \in pending' \cap urgent'
      PROVE  Held(r)' \/ (at' = "handoff" /\ row' = r)
  <2>1. CASE ~(LinkHolds /\ ~replaying)
    BY <1>1, <2>1, ReplayEndsEmpty
  <2>2. CASE LinkHolds /\ ~replaying
    <3>1. CASE PublishUrgent /\ at' = "handoff" /\ row' = r
      BY <3>1
    <3>2. CASE r \in pending \cap urgent
      <4>1. ~Restart
        BY <1>1 DEF Restart, LinkHolds
      <4>2. CASE Held(r)
        BY <3>2, <4>1, <4>2, HeldStays
      <4>3. CASE at = "handoff" /\ row = r
        BY <1>1, <2>2, <3>2, <4>3, HandedRowIsHeld
      <4> QED
        BY <2>2, <3>2, <4>2, <4>3 DEF ReplayInv
    <3> QED
      BY <3>1, <3>2, NewRowIsInHand
  <2> QED
    BY <2>1, <2>2
<1> QED
  BY <1>1, ReplayPlace DEF ReplayInv

(* client.py:198-210, 272-329: if no outage falls between two polls of the  *)
(* monitor, then once its replay is over and as long as the connection      *)
(* holds, no QoS 1 message waits on disk that is in nobody's hands, for any *)
(* batch size, any number of ids, outages and crashes.                      *)
THEOREM NoRowIsOrphaned ==
    ASSUME OutageIsSeen
    PROVE  Spec => []NoOrphan
<1>1. UplinkInv /\ ReplayInv => NoOrphan
  BY DEF ReplayInv, NoOrphan, LinkHolds, Held
<1> QED
  BY <1>1, UplinkInitInv, UplinkNextInv, ReplayInitInv, ReplayNextInv, PTL
  DEF Spec

(* client.py:285-296: a replay does not give up for want of progress while  *)
(* the connection holds: it ends with the backlog.                          *)
ReplayDrains ==
    [][replaying /\ ~replaying' /\ LinkHolds' => pending = {}]_vars

(* client.py:285-296: under that assumption a replay ends, while the link   *)
(* holds, with nothing pending.                                             *)
THEOREM ReplayDrainsBacklog ==
    ASSUME OutageIsSeen
    PROVE  Spec => ReplayDrains
<1> DEFINE Drained == replaying /\ ~replaying' /\ LinkHolds' => pending = {}
<1>1. UplinkInv /\ ReplayInv /\ [Next]_vars => [Drained]_vars
  <2> SUFFICES ASSUME UplinkInv, ReplayInv, Next, replaying, ~replaying', LinkHolds'
               PROVE  pending = {}
    OBVIOUS
  <2>1. CASE ReplayEnds
    BY <2>1 DEF ReplayEnds, ReplayInv, LinkHolds, linkVars
  <2>2. CASE Restart
    BY <2>2 DEF Restart, LinkHolds
  <2>3. CASE PollConnected
    BY <2>3 DEF PollConnected
  <2> QED
    BY <2>1, <2>2, <2>3
    DEF Next, EventLoop, Network, PublishUrgent, PublishTelemetry,
        TelemetryFails, StoreTelemetry, FindDisconnected, HandOff, Register,
        HandOffRefused, ReplayTelemetry, PollDisconnected, ReplayFetch,
        ReplayWake, RunMark, OnConnect, OnDisconnect, OnPublish, BrokerReceive,
        LoseConnection, clientVars, replayVars
<1> QED
  BY <1>1, UplinkInitInv, UplinkNextInv, ReplayInitInv, ReplayNextInv, PTL
  DEF Spec, ReplayDrains

-----------------------------------------------------------------------------
(* The refinement of MQTTBuffer                                             *)

(* Whatever the client does is to the table one operation of MQTTBuffer's,  *)
(* or nothing.                                                              *)
LEMMA BufferSimulation ==
    UplinkInv /\ [Next]_vars => [BufferNext]_bufVars
<1> SUFFICES ASSUME UplinkInv, [Next]_vars
             PROVE  BufferNext \/ UNCHANGED bufVars
  OBVIOUS
<1>1. CASE PublishUrgent
  BY <1>1 DEF PublishUrgent, BufferNext
<1>2. CASE StoreTelemetry
  BY <1>2 DEF StoreTelemetry, BufferNext
<1>3. CASE ReplayTelemetry
  <2>1. MarkDelivered(row) /\ row \in 0 .. lastId
    BY <1>3 DEF ReplayTelemetry, UplinkInv, UplinkTypeOK
  <2>2. CASE row = 0
    <3>1. 0 \notin pending
      BY UplinkBuffer, BacklogFinite DEF BufferInv, BufferTypeOK
    <3> QED
      BY <2>1, <2>2, <3>1 DEF MarkDelivered, bufVars
  <2>3. CASE row \in 1 .. lastId
    BY <2>1, <2>3 DEF BufferNext
  <2> QED
    BY <2>1, <2>2, <2>3, NoRowIsNoRow
<1>4. CASE RunMark
  BY <1>4 DEF RunMark, BufferNext, UplinkInv, UplinkTypeOK, BufferTypeOK
<1>5. CASE \/ Moves \/ PublishTelemetry \/ HandOff \/ Register
           \/ HandOffRefused \/ OnConnect \/ LoseConnection \/ OnPublish
           \/ BrokerReceive \/ Restart \/ UNCHANGED vars
  BY <1>5
  DEF Moves, TelemetryFails, FindDisconnected, PollConnected, PollDisconnected,
      ReplayEnds, ReplayFetch, ReplayWake, OnDisconnect, PublishTelemetry,
      HandOff, Register, HandOffRefused, OnConnect, LoseConnection, OnPublish,
      BrokerReceive, Restart, vars
<1> QED
  BY <1>1, <1>2, <1>3, <1>4, <1>5 DEF Next, EventLoop, Network, Moves

(* client.py:226-299, 369-386: two threads, outages and crashes included,   *)
(* the client uses the table as MQTTBuffer offers it, so that all MQTTBuffer *)
(* guarantees holds under the client.                                       *)
THEOREM UplinkDrivesBuffer == Spec => BufferSpec
<1>1. Init => BufferInit
  BY DEF Init
<1> QED
  BY <1>1, UplinkInitInv, UplinkNextInv, BufferSimulation, PTL
  DEF Spec, BufferSpec

(* buffer.py:25-28: telemetry never takes a QoS 1 row's place, whichever    *)
(* thread's work the purge falls between.                                   *)
THEOREM UplinkSparesUrgent == Spec => TelemetryNeverEvictsUrgent
BY UplinkDrivesBuffer, TelemetryNeverEvicts, PTL

(* buffer.py:46: a PUBACK, a scheduled mark_delivered or a replayed batch   *)
(* that comes after its row was purged never touches another message.       *)
THEOREM UplinkRowsNeverReturn == Spec => RowNeverReturns
BY UplinkDrivesBuffer, RowsNeverReturn, PTL

-----------------------------------------------------------------------------
(* The refinement of AtLeastOnce                                            *)

(* What the channel keeps, and what it gave up.                             *)
Kept == pending \cap urgent
Lost == evicted \cap urgent

(* Both modules count the same way.                                         *)
LEMMA SameCardinality == \A S : Promise!Cardinality(S) = Cardinality(S)
BY Zenon DEF Promise!Cardinality, Cardinality

(* A stored QoS 1 row is one that AtLeastOnce has accepted, and the next id *)
(* comes after all of them.                                                 *)
LEMMA AcceptedRows ==
    ASSUME UplinkInv
    PROVE  /\ Kept \cup received \cup Lost = urgent
           /\ urgent \subseteq 1 .. lastId /\ lastId \in 0 .. MaxRows
           /\ lastId + 1 \notin urgent
<1>1. urgent \subseteq 1 .. lastId /\ lastId \in 0 .. MaxRows
  BY DEF UplinkInv, UplinkTypeOK, BufferTypeOK
<1>2. lastId + 1 \notin urgent
  BY <1>1, NoRowIsNoRow
<1>3. Kept \cup received \cup Lost = urgent
  BY DEF UplinkInv, UplinkTypeOK, AckTrail, Kept, Lost
<1> QED
  BY <1>1, <1>2, <1>3

(* publish of a QoS 1 message is Accept: what the purge takes of the QoS 1  *)
(* rows is their surplus, the telemetry it takes is invisible.              *)
LEMMA EnqueueAccepts ==
    ASSUME UplinkInv, Enqueue(1), UNCHANGED received
    PROVE  Promise!Accept(lastId + 1) /\ lastId + 1 \in 1 .. MaxRows
<1> DEFINE id == lastId + 1
           B  == pending \cup {id}
           q  == urgent \cup {id}
<1>1. lastId < MaxRows /\ urgent' = q
  BY DEF Enqueue, NextRowId
<1>2. PICK v \in SUBSET B : /\ IsOverflow(v, B, q)
                           /\ pending' = B \ v
                           /\ evicted' = evicted \cup v
  BY DEF Enqueue, NextRowId
<1>3. IsFiniteSet(B)
  BY UplinkBuffer, BacklogFinite DEF BufferInv
<1>4. /\ Kept \cup received \cup Lost = urgent
      /\ urgent \subseteq 1 .. lastId /\ lastId \in Nat /\ MaxRows \in Nat
  BY AcceptedRows, NoRowIsNoRow, BufferAssumption
<1>5. /\ id \in 1 .. MaxRows
      /\ \A a \in urgent : a < id
  BY <1>1, <1>4
<1>6. id \notin evicted
  BY <1>4 DEF UplinkInv, UplinkTypeOK, BufferTypeOK
<1> DEFINE w == v \cap q
<1>7. /\ B \cap q = Kept \cup {id}
      /\ pending' \cap urgent' = (Kept \cup {id}) \ w
      /\ evicted' \cap urgent' = Lost \cup w
      /\ w \subseteq Kept \cup {id}
  <2>1. id \notin pending /\ id \notin urgent
    BY <1>4 DEF UplinkInv, UplinkTypeOK, BufferTypeOK
  <2> QED
    BY <1>1, <1>2, <1>6, <2>1 DEF Kept, Lost
<1>8. Promise!IsSurplus(w, Kept \cup {id})
  <2>1. Cardinality(w) = Excess(Cardinality(B \cap q), MaxMessages)
    <3>1. IsOverflow(v, B, q) /\ IsFiniteSet(B)
      BY <1>2, <1>3
    <3> HIDE DEF B, q
    <3> QED
      BY <3>1, OverflowCount
  <2>2. Cardinality(w) = IF Cardinality(Kept \cup {id}) > MaxMessages
                         THEN Cardinality(Kept \cup {id}) - MaxMessages ELSE 0
    BY <2>1, <1>7 DEF Excess
  <2>3. \A i \in w, j \in (B \cap q) \ w : i < j
    BY <1>2 DEF IsOverflow, IsOldest
  <2> HIDE DEF B, q, w
  <2> QED
    BY <1>7, <2>2, <2>3, SameCardinality DEF Promise!IsSurplus
<1>9. Promise!Accept(id)
  BY <1>4, <1>5, <1>7, <1>8
  DEF Promise!Accept, Promise!Accepted, Kept, Lost
<1> QED
  BY <1>5, <1>9

(* A QoS 0 message that is stored takes no QoS 1 row's place.               *)
LEMMA TelemetryIsInvisible ==
    ASSUME UplinkInv, Enqueue(0)
    PROVE  Kept' = Kept /\ Lost' = Lost
<1> DEFINE B == pending \cup {lastId + 1}
<1>1. urgent' = urgent
  BY DEF Enqueue
<1>2. PICK v \in SUBSET B : /\ IsOverflow(v, B, urgent)
                           /\ pending' = B \ v
                           /\ evicted' = evicted \cup v
  BY DEF Enqueue, NextRowId
<1>3. IsFiniteSet(B) /\ IsFiniteSet(pending)
  BY UplinkBuffer, BacklogFinite DEF BufferInv
<1>4. lastId + 1 \notin urgent
  BY AcceptedRows
<1>5. Cardinality(v \cap urgent) = 0
  <2>1. Cardinality(v \cap urgent) = Excess(Cardinality(B \cap urgent), MaxMessages)
    BY <1>2, <1>3, OverflowCount
  <2>2. B \cap urgent \subseteq pending
    BY <1>4
  <2>3. /\ Cardinality(B \cap urgent) <= Cardinality(pending)
        /\ Cardinality(B \cap urgent) \in Nat /\ Cardinality(pending) \in Nat
    BY <1>3, <2>2, FS_Subset, FS_CardinalityType
  <2>4. Cardinality(pending) <= MaxMessages /\ MaxMessages \in Nat
    BY BufferAssumption DEF UplinkInv, BacklogBounded
  <2> HIDE DEF B
  <2> QED
    BY <2>1, <2>3, <2>4 DEF Excess
<1>6. v \cap urgent = {}
  <2>1. IsFiniteSet(v \cap urgent)
    BY <1>2, <1>3, FS_Subset
  <2> QED
    BY <1>5, <2>1, FS_EmptySet
<1> QED
  BY <1>1, <1>2, <1>4, <1>6 DEF Kept, Lost

(* Every step of the client is a step of AtLeastOnce or changes nothing     *)
(* that AtLeastOnce sees.                                                   *)
LEMMA StepSimulation ==
    UplinkInv /\ [Next]_vars => [Promise!Next]_(Promise!vars)
<1> SUFFICES ASSUME UplinkInv, [Next]_vars
             PROVE  Promise!Next \/ UNCHANGED <<Kept, received, Lost>>
  BY DEF Promise!vars, Kept, Lost
<1>1. CASE PublishUrgent
  <2>1. Promise!Accept(lastId + 1) /\ lastId + 1 \in 1 .. MaxRows
    BY <1>1, EnqueueAccepts DEF PublishUrgent, linkVars
  <2> QED
    BY <2>1 DEF Promise!Next
<1>2. CASE StoreTelemetry
  BY <1>2, TelemetryIsInvisible DEF StoreTelemetry, linkVars
<1>3. CASE ReplayTelemetry
  BY <1>3 DEF ReplayTelemetry, MarkDelivered, linkVars, Kept, Lost
<1>4. CASE RunMark
  <2>1. PICK r \in marks : MarkDelivered(r)
    BY <1>4 DEF RunMark
  <2>2. r \in received /\ r \in 1 .. MaxRows
    <3>1. r \in received /\ r \in urgent
      BY DEF UplinkInv, UplinkTypeOK, AckTrail
    <3> QED
      BY <3>1, AcceptedRows, BufferAssumption
  <2>3. CASE r \in Kept
    <3>1. Promise!Settle(r)
      BY <1>4, <2>1, <2>2, <2>3
      DEF RunMark, MarkDelivered, linkVars, Promise!Settle, Kept
    <3> QED
      BY <2>2, <3>1 DEF Promise!Next
  <2>4. CASE r \notin Kept
    BY <1>4, <2>1, <2>4 DEF RunMark, MarkDelivered, linkVars, Kept, Lost
  <2> QED
    BY <2>3, <2>4
<1>5. CASE BrokerReceive
  <2>1. PICK m \in wire : received' = received \cup {out[m]}
    BY <1>5 DEF BrokerReceive
  <2>2. out[m] \in urgent
    BY DEF UplinkInv, UplinkTypeOK
  <2>3. out[m] \in Kept \cup received \cup Lost /\ out[m] \in 1 .. MaxRows
    BY <2>2, AcceptedRows, BufferAssumption
  <2>4. Promise!Receive(out[m])
    BY <1>5, <2>1, <2>3
    DEF BrokerReceive, bufVars, Promise!Receive, Promise!Accepted, Kept, Lost
  <2> QED
    BY <2>3, <2>4 DEF Promise!Next
<1>6. CASE \/ Moves \/ PublishTelemetry \/ HandOff \/ Register
           \/ HandOffRefused \/ OnConnect \/ LoseConnection \/ OnPublish
           \/ Restart \/ UNCHANGED vars
  <2>1. UNCHANGED bufVars /\ UNCHANGED received
    BY <1>6
    DEF Moves, TelemetryFails, FindDisconnected, PollConnected,
        PollDisconnected, ReplayEnds, ReplayFetch, ReplayWake, OnDisconnect,
        PublishTelemetry, HandOff, Register, HandOffRefused, OnConnect,
        LoseConnection, OnPublish, Restart, vars, linkVars
  <2> QED
    BY <2>1 DEF bufVars, Kept, Lost
<1> QED
  BY <1>1, <1>2, <1>3, <1>4, <1>5, <1>6 DEF Next, EventLoop, Network, Moves

(* buffer.py:7-28: the client, with its two threads, its outages and its    *)
(* crashes, implements AtLeastOnce: a QoS 1 message is kept until the       *)
(* broker has received it or newer QoS 1 messages fill the buffer.          *)
THEOREM UplinkKeepsPromise == Spec => KeepsPromise
<1>1. Init => Promise!Init
  BY DEF Init, BufferInit, Promise!Init
<1> QED
  BY <1>1, UplinkInitInv, UplinkNextInv, StepSimulation, PTL
  DEF Spec, KeepsPromise, Promise!Spec
=============================================================================

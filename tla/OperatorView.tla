----------------------------- MODULE OperatorView -----------------------------
(***************************************************************************)
(* What an operator at the cloud can do to a device and see of it: the     *)
(* command endpoint (cloud/api/src/router.py), the broker, the edge's      *)
(* downlink handler and fault reports (edge/src/main.py), the subscriber   *)
(* (cloud/api/src/mqtt_subscriber.py) and the writer behind it.            *)
(*                                                                         *)
(* Commands are numbered in the order they are posted, the edge's QoS 1    *)
(* messages in the order it makes them, which is that of their timestamps. *)
(* Between edge and broker those messages go through AtLeastOnce, which    *)
(* EdgeUplink implements: none is lost, but an older one may overtake a    *)
(* newer one and any may come twice.  That a message is also received      *)
(* (AtLeastOnce!Delivers) holds of EdgeUplink only while its monitor sees  *)
(* every outage, and so it is assumed here of such outages only.           *)
(*                                                                         *)
(* router.py:120-125 refuses a mode, a power or a duration that the edge   *)
(* would refuse (main.py:527-530), so every command posted is one the edge *)
(* accepts.                                                                *)
(***************************************************************************)
EXTENDS Naturals, Sequences, FiniteSets

CONSTANTS LastMsg, Capacity, \* of the channel from the edge
          Codes,       \* values of the fault bitmask, 0 for none
          MaxCommands, \* model bound: commands posted
          MaxChanges,  \* model bound: changes of the fault code
          MaxTrouble   \* model bound: outages, restarts, lost writes and reports

ASSUME OperatorAssumption ==
    /\ {LastMsg, Capacity, MaxCommands, MaxChanges, MaxTrouble} \subseteq Nat
    /\ Codes \subseteq Nat /\ 0 \in Codes
    /\ MaxCommands + MaxChanges + MaxTrouble <= LastMsg

NoCommand == 0
CommandIds == 1 .. MaxCommands
Contents == [kind : {"ack"}, of : CommandIds] \cup [kind : {"fault"}, of : Codes]

VARIABLES
    posted,    \* how many commands have been posted
    client,    \* the request whose connection as "cloud-api-pub" is open
    handed,    \* commands the broker has received
    answered,  \* requests answered with "queued"
    failed,    \* requests answered with 502
    downlink,  \* commands on their way from the broker to the edge
    dropped,   \* history: commands the edge's session never got
    edgeUp,    \* the edge is connected and subscribed
    unseen,    \* history: its monitor missed an outage since it was started
    running,   \* the command the emulator was last told to follow
    botched,   \* history: commands applied by a handler that then raised
    fault,     \* fault code of the last snapshot
    lastFault, \* _last_fault_code
    forgot,    \* history: _last_fault_code is not the code reported last
    made,      \* QoS 1 messages of the edge, in the order of their ts
    kept, received, evicted, \* the channel
    subUp,     \* the subscriber is connected
    written,   \* messages whose point is in InfluxDB
    missed,    \* history: messages that reached the broker but not InfluxDB
    changes, trouble

requestVars == <<posted, client, handed, answered, failed>>
downlinkVars == <<downlink, dropped, edgeUp, unseen>>
edgeVars == <<running, botched, fault, lastFault, forgot, made>>
channelVars == <<kept, received, evicted>>
cloudVars == <<subUp, written, missed>>
boundVars == <<changes, trouble>>
vars == <<requestVars, downlinkVars, edgeVars, channelVars, cloudVars, boundVars>>

Channel == INSTANCE AtLeastOnce

Messages == 1 .. Len(made)

(* Type invariant: a request has one answer at most, a command one fate,    *)
(* and only what the broker received can be in InfluxDB.                    *)
OperatorTypeOK ==
    /\ posted \in 0 .. MaxCommands /\ client \in 0 .. posted
    /\ handed \subseteq 1 .. posted
    /\ answered \subseteq handed /\ failed \subseteq 1 .. posted
    /\ answered \cap failed = {} /\ client \notin answered \cup failed
    /\ downlink \subseteq handed /\ dropped \subseteq handed
    /\ botched \subseteq handed
    /\ downlink \cap dropped = {} /\ botched \cap (downlink \cup dropped) = {}
    /\ edgeUp \in BOOLEAN /\ (~edgeUp => downlink = {}) /\ unseen \in BOOLEAN
    /\ running \in {NoCommand} \cup handed
    /\ fault \in Codes /\ lastFault \in Codes /\ forgot \in BOOLEAN
    /\ made \in Seq(Contents) /\ Len(made) <= LastMsg
    /\ kept \cup received \cup evicted \subseteq Messages
    /\ written \cup missed \subseteq received
    /\ subUp \in BOOLEAN
    /\ changes \in 0 .. MaxChanges /\ trouble \in 0 .. MaxTrouble

(* Everyone has connected; nothing has been said yet.                       *)
Init ==
    /\ posted = 0 /\ client = NoCommand
    /\ handed = {} /\ answered = {} /\ failed = {}
    /\ downlink = {} /\ dropped = {} /\ edgeUp = TRUE /\ unseen = FALSE
    /\ running = NoCommand /\ botched = {} /\ made = <<>>
    /\ fault = 0 /\ lastFault = 0 /\ forgot = FALSE
    /\ Channel!Init
    /\ subUp = TRUE /\ written = {} /\ missed = {}
    /\ changes = 0 /\ trouble = 0

Disturb == trouble < MaxTrouble /\ trouble' = trouble + 1

-----------------------------------------------------------------------------
(* router.py: post_command and _mqtt_publish                                *)

(* A request connects.  Every request uses the same client identifier, so   *)
(* the broker closes the connection of one still under way: it answers 502, *)
(* whether or not its command has been handed over.                         *)
PostCommand ==
    /\ posted < MaxCommands /\ posted' = posted + 1
    /\ client' = posted'
    /\ failed' = failed \cup ({client} \ {NoCommand})
    /\ UNCHANGED <<handed, answered, downlinkVars, edgeVars, channelVars,
                   cloudVars, boundVars>>

(* The broker receives the command and passes it on to the edge's session.  *)
(* It is not retained: with no session, it is gone.                         *)
BrokerTakesCommand ==
    /\ client # NoCommand /\ client \notin handed
    /\ handed' = handed \cup {client}
    /\ IF edgeUp THEN downlink' = downlink \cup {client} /\ UNCHANGED dropped
                 ELSE dropped' = dropped \cup {client} /\ UNCHANGED downlink
    /\ UNCHANGED <<posted, client, answered, failed, edgeUp, unseen, edgeVars,
                   channelVars, cloudVars, boundVars>>

(* publish returns on the broker's PUBACK.                                  *)
RequestAnswered ==
    /\ client \in handed
    /\ answered' = answered \cup {client}
    /\ client' = NoCommand
    /\ UNCHANGED <<posted, handed, failed, downlinkVars, edgeVars, channelVars,
                   cloudVars, boundVars>>

(* The connection cannot be made or is lost before the PUBACK.              *)
RequestFails ==
    /\ client # NoCommand /\ Disturb
    /\ failed' = failed \cup {client}
    /\ client' = NoCommand
    /\ UNCHANGED <<posted, handed, answered, downlinkVars, edgeVars, channelVars,
                   cloudVars, changes>>

-----------------------------------------------------------------------------
(* The edge                                                                 *)

(* MQTT client.publish with QoS 1: the message is in the buffer.            *)
Publish(kind, of) ==
    /\ Len(made) < LastMsg
    /\ made' = Append(made, [kind |-> kind, of |-> of])
    /\ Channel!Accept(Len(made) + 1)

EdgeConnects ==
    /\ ~edgeUp /\ edgeUp' = TRUE
    /\ UNCHANGED <<requestVars, downlink, dropped, unseen, edgeVars, channelVars,
                   cloudVars, boundVars>>

(* A mutant of SessionEnds: what was on its way waits for the next session. *)
SessionWaits ==
    /\ edgeUp' = FALSE
    /\ UNCHANGED <<downlink, dropped>>

(* The session ends with the connection, and what was on its way with it.   *)
SessionEnds ==
    /\ edgeUp' = FALSE
    /\ downlink' = {} /\ dropped' = dropped \cup downlink

(* Two polls a second apart may both miss the outage (client.py:198-215).   *)
EdgeDisconnects ==
    /\ edgeUp /\ Disturb
    /\ SessionEnds
    /\ unseen' \in {unseen, TRUE}
    /\ UNCHANGED <<requestVars, edgeVars, channelVars, cloudVars, changes>>

(* _apply_command: commands arrive in order, and the mode is set first.     *)
Applies(k) ==
    /\ \A j \in downlink : k <= j
    /\ downlink' = downlink \ {k}
    /\ running' = k

(* A mutant of CommandArrives: the command is applied, no verdict is sent.  *)
CommandArrivesUnanswered ==
    /\ \E k \in downlink : Applies(k)
    /\ UNCHANGED <<requestVars, dropped, edgeUp, unseen, botched, fault, lastFault,
                   forgot, made, channelVars, cloudVars, boundVars>>

(* _dispatch_downlink: a command is applied and its verdict published, in   *)
(* one go on the event loop.                                                *)
CommandArrives ==
    /\ \E k \in downlink : Applies(k) /\ Publish("ack", k)
    /\ UNCHANGED <<requestVars, dropped, edgeUp, unseen, botched, fault, lastFault,
                   forgot, cloudVars, boundVars>>

(* The store is read for the verdict, or the verdict stored, and that       *)
(* raises: the command stays applied, and no verdict is ever made.          *)
CommandFails ==
    /\ Disturb
    /\ \E k \in downlink : Applies(k) /\ botched' = botched \cup {k}
    /\ UNCHANGED <<requestVars, dropped, edgeUp, unseen, fault, lastFault, forgot,
                   made, channelVars, cloudVars, changes>>

(* The emulator's tick finds other conditions than the one before.          *)
FaultChanges ==
    /\ changes < MaxChanges /\ changes' = changes + 1
    /\ fault' \in Codes \ {fault}
    /\ UNCHANGED <<requestVars, downlinkVars, running, botched, lastFault, forgot,
                   made, channelVars, cloudVars, trouble>>

(* _sensor_loop: the fault code is not the one reported last.               *)
FaultReported ==
    /\ fault # lastFault
    /\ Publish("fault", fault)
    /\ lastFault' = fault /\ forgot' = FALSE
    /\ UNCHANGED <<requestVars, downlinkVars, running, botched, fault, cloudVars,
                   boundVars>>

(* A mutant of AfterFailedReport: the code is taken for reported.           *)
AfterFailedReportForgets == lastFault' = fault

(* The code counts as reported only once publish has returned.              *)
AfterFailedReport == lastFault' = lastFault

(* Storing the snapshot or the report raises, or what enqueue does once the *)
(* report is in the table (_maybe_purge): the next tick tries again.        *)
FaultReportFails ==
    /\ fault # lastFault /\ Disturb
    /\ \/ UNCHANGED <<forgot, made, channelVars>>
       \/ Publish("fault", fault) /\ forgot' = TRUE
    /\ AfterFailedReport
    /\ UNCHANGED <<requestVars, downlinkVars, running, botched, fault, cloudVars,
                   changes>>

(* A new process: no override, no faults, and none reported; its monitor    *)
(* sees its first connection and replays all that is left in the table.     *)
EdgeRestarts ==
    /\ Disturb
    /\ SessionEnds
    /\ unseen' = FALSE
    /\ running' = NoCommand /\ fault' = 0 /\ lastFault' = 0
    /\ forgot' = (forgot \/ lastFault # 0)
    /\ UNCHANGED <<requestVars, botched, made, channelVars, cloudVars, changes>>

-----------------------------------------------------------------------------
(* The subscriber and the writer                                            *)

(* The broker receives a message of the edge's over its connection, for the *)
(* first time or once more, and passes it on to the subscriber, whose       *)
(* _dispatch hands it to the writer: a point in InfluxDB under the          *)
(* message's own ts.                                                        *)
MessageArrives(m) ==
    /\ edgeUp /\ Channel!Receive(m)
    /\ subUp
    /\ written' = written \cup {m}
    /\ UNCHANGED <<requestVars, downlinkVars, edgeVars, subUp, missed, boundVars>>

(* The same with nobody subscribed (the session is clean, so nothing waits  *)
(* for it), or with InfluxDB refusing the point, which is logged.           *)
MessageMissed(m) ==
    /\ edgeUp /\ Channel!Receive(m)
    /\ IF subUp THEN Disturb ELSE UNCHANGED trouble
    /\ missed' = missed \cup {m}
    /\ UNCHANGED <<requestVars, downlinkVars, edgeVars, subUp, written,
                   changes>>

(* The edge learns that the broker has the message.                         *)
MessageSettled(m) ==
    /\ Channel!Settle(m)
    /\ UNCHANGED <<requestVars, downlinkVars, edgeVars, cloudVars, boundVars>>

SubscriberConnects ==
    /\ ~subUp /\ subUp' = TRUE
    /\ UNCHANGED <<requestVars, downlinkVars, edgeVars, channelVars, written,
                   missed, boundVars>>

(* The connection or the process is lost.                                   *)
SubscriberStops ==
    /\ subUp /\ Disturb
    /\ subUp' = FALSE
    /\ UNCHANGED <<requestVars, downlinkVars, edgeVars, channelVars, written,
                   missed, changes>>

-----------------------------------------------------------------------------
Request == PostCommand \/ BrokerTakesCommand \/ RequestAnswered \/ RequestFails

Edge ==
    \/ EdgeConnects \/ EdgeDisconnects \/ CommandArrives \/ CommandFails
    \/ FaultChanges \/ FaultReported \/ FaultReportFails \/ EdgeRestarts

Cloud ==
    \/ SubscriberConnects \/ SubscriberStops
    \/ \E m \in 1 .. LastMsg : MessageArrives(m) \/ MessageMissed(m) \/ MessageSettled(m)

Next == Request \/ Edge \/ Cloud

Spec == Init /\ [][Next]_vars

(* What has come to the edge is handled, a change of the fault code is      *)
(* reported by some tick, and paho reconnects the edge.  The broker gets    *)
(* what the channel keeps, over a connection that lasts and as long as no   *)
(* outage goes unseen: that much EdgeUplink does under its own fairness.    *)
Fairness ==
    /\ WF_vars(CommandArrives \/ CommandFails) /\ WF_vars(FaultReported)
    /\ WF_vars(EdgeConnects)
    /\ \A m \in 1 .. LastMsg :
          WF_vars(~unseen /\ m \in kept /\ (MessageArrives(m) \/ MessageMissed(m)))

FairSpec == Spec /\ Fairness

-----------------------------------------------------------------------------
(* Properties                                                               *)

(* The newest of some messages, by ts; 0 if there is none.                  *)
Newest(S) == IF S = {} THEN 0 ELSE CHOOSE m \in S : \A n \in S : n <= m

OfKind(kind) == {m \in Messages : made[m].kind = kind}
CodeOf(m) == IF m = 0 THEN 0 ELSE made[m].of

(* The fault code on record: that of the latest fault_event in InfluxDB.    *)
OnRecord == CodeOf(Newest(written \cap OfKind("fault")))

(* main.py:177-183: faults are reported on change only, so one lost or late *)
(* report would stay the latest: whatever code lasts is on record in the    *)
(* end, whichever way its report and earlier ones overtake each other,      *)
(* unless that report is lost at the cloud or in a full buffer, an outage   *)
(* goes unseen, or it is the code the edge takes for reported after it has  *)
(* forgotten, in a restart or a failed report, what it reported last.       *)
FaultOnRecord ==
    \A c \in Codes :
        (fault = c) ~> \/ OnRecord = c \/ fault # c
                       \/ Newest(OfKind("fault")) \in missed \cup evicted
                       \/ forgot /\ lastFault = c
                       \/ unseen

Verdict(k) == {m \in OfKind("ack") : made[m].of = k}

(* router.py:138-140: of a command answered with "queued" the device's      *)
(* verdict arrives, unless the edge was offline (or went) when the command  *)
(* came, its handler raised, the verdict is lost at the cloud or in a full  *)
(* buffer, or an outage goes unseen.                                        *)
VerdictArrives ==
    \A k \in CommandIds :
        (k \in answered) ~> \/ Verdict(k) \cap (written \cup missed \cup evicted) # {}
                            \/ k \in dropped \cup botched
                            \/ unseen
=============================================================================

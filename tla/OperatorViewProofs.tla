-------------------------- MODULE OperatorViewProofs --------------------------
(***************************************************************************)
(* What an operator can rely on, for any number of commands, messages and  *)
(* fault codes, any capacity of the channel and any number of outages and  *)
(* restarts.                                                               *)
(*                                                                         *)
(* OperatorInv is inductive.  Its parts follow one command or one report   *)
(* along its way: from the request to the edge (HandedInOrder), over the   *)
(* edge (CommandsTraced, VerdictsInOrder, LastReport), through the channel *)
(* to the writer (NothingVanishes).                                        *)
(***************************************************************************)
EXTENDS OperatorView, TLAPS

(* What the channel has accepted is what the edge has made, and what it has *)
(* delivered has come to the writer or was missed there.                    *)
NothingVanishes ==
    /\ kept \cup received \cup evicted = Messages
    /\ received = written \cup missed

(* The request under way is the last one posted: whoever posts a command    *)
(* takes the identifier over.                                               *)
HandedInOrder == client \in {NoCommand, posted}

(* A command the broker has taken is on its way, was lost with the edge's   *)
(* session, has its verdict, or was applied by a handler that raised.       *)
CommandsTraced ==
    \A k \in handed : k \in downlink \cup dropped \cup botched \/ Verdict(k) # {}

(* Verdicts are of commands the broker has taken and whose handler did not  *)
(* raise, in the order of posting, and what is still on its way is newer    *)
(* than every command applied.                                              *)
VerdictsInOrder ==
    /\ \A m \in OfKind("ack") : made[m].of \in handed \ botched
    /\ \A m \in OfKind("ack"), k \in downlink : made[m].of < k
    /\ \A j \in botched, k \in downlink : j < k
    /\ \A m, n \in OfKind("ack") : m < n => made[m].of < made[n].of

(* There is a newest fault report as soon as there is one, and it says what *)
(* _last_fault_code does, unless the edge has forgotten it.                 *)
LastReport ==
    /\ Newest(OfKind("fault")) \in OfKind("fault") \cup {0}
    /\ \A m \in OfKind("fault") : m <= Newest(OfKind("fault"))
    /\ ~forgot => CodeOf(Newest(OfKind("fault"))) = lastFault

OperatorInv ==
    /\ OperatorTypeOK
    /\ NothingVanishes
    /\ HandedInOrder
    /\ CommandsTraced
    /\ VerdictsInOrder
    /\ LastReport

-----------------------------------------------------------------------------
(* What follows from it                                                     *)

(* router.py:138-140: the safety half of VerdictArrives.  A command that    *)
(* was answered with "queued" is still on its way or was lost on it; or its *)
(* handler raised, and then it has no verdict; or it has one, which is on   *)
(* its way, in InfluxDB, missed there or evicted.                           *)
CommandAccounted ==
    \A k \in answered :
        \/ k \in downlink \cup dropped
        \/ k \in botched /\ Verdict(k) = {}
        \/ Verdict(k) \cap (kept \cup written \cup missed \cup evicted) # {}

(* main.py:177-183: the safety half of FaultOnRecord.  Once the code that   *)
(* holds is the one reported last, it is on record, or its report is on its *)
(* way or lost, whichever older reports overtake it.                        *)
FaultAccounted ==
    fault = lastFault /\ ~forgot =>
        \/ OnRecord = fault
        \/ Newest(OfKind("fault")) \in kept \cup missed \cup evicted

(* main.py:474-485: a command, once applied, is not applied again: it never *)
(* gets a second verdict, nor one after its handler raised.                 *)
AppliedOnce ==
    \A k \in CommandIds : /\ \A m, n \in Verdict(k) : m = n
                          /\ k \in botched => Verdict(k) = {}

(* main.py: nothing but a restart takes the edge away from the newest       *)
(* command it has had, and only a newer one replaces it.                    *)
NeverBackToOlder ==
    [][running' # running =>
          \/ running' = NoCommand
          \/ /\ \A m \in OfKind("ack") : made[m].of < running'
             /\ \A j \in botched : j < running']_vars

-----------------------------------------------------------------------------
(* What a publish and a reception do                                        *)

(* A message of the edge's is put at the end of those it has made, and the  *)
(* channel answers for it.                                                  *)
LEMMA Published ==
    ASSUME OperatorTypeOK, NEW kind, NEW of, Publish(kind, of),
           [kind |-> kind, of |-> of] \in Contents
    PROVE  /\ Len(made) \in Nat /\ Len(made) + 1 \in 1 .. LastMsg
           /\ made' \in Seq(Contents) /\ Len(made') = Len(made) + 1
           /\ Messages' = Messages \cup {Len(made) + 1}
           /\ \A m \in Messages : made'[m] = made[m]
           /\ made'[Len(made) + 1] = [kind |-> kind, of |-> of]
           /\ Channel!Accept(Len(made) + 1)
           /\ kept' \cup evicted' = kept \cup evicted \cup {Len(made) + 1}
           /\ received' = received
<1> DEFINE new == Len(made) + 1
<1>1. made \in Seq(Contents) /\ Len(made) \in Nat /\ LastMsg \in Nat
  BY OperatorAssumption DEF OperatorTypeOK
<1>2. /\ Len(made) < LastMsg
      /\ made' = Append(made, [kind |-> kind, of |-> of])
      /\ Channel!Accept(new)
  BY DEF Publish
<1>3. /\ made' \in Seq(Contents) /\ Len(made') = new
      /\ \A m \in 1 .. Len(made) : made'[m] = made[m]
      /\ made'[new] = [kind |-> kind, of |-> of]
  BY <1>1, <1>2
<1>4. Messages' = Messages \cup {new}
  BY <1>1, <1>3 DEF Messages
<1>5. kept' \cup evicted' = kept \cup evicted \cup {new} /\ received' = received
  <2>1. PICK v \in SUBSET (kept \cup {new}) :
           kept' = (kept \cup {new}) \ v /\ evicted' = evicted \cup v
    BY <1>2 DEF Channel!Accept
  <2> QED
    BY <1>2, <2>1 DEF Channel!Accept
<1> QED
  BY <1>1, <1>2, <1>3, <1>4, <1>5 DEF Messages

(* The messages of a kind are those before, and the new one if it is of it. *)
LEMMA PublishedKinds ==
    ASSUME OperatorTypeOK, NEW kind, NEW of, Publish(kind, of),
           [kind |-> kind, of |-> of] \in Contents,
           NEW k
    PROVE  /\ OfKind(k)' = OfKind(k) \cup (IF k = kind THEN {Len(made) + 1} ELSE {})
           /\ \A m \in OfKind(k) : made'[m] = made[m] /\ m < Len(made) + 1
<1>1. /\ Len(made) \in Nat
      /\ Messages' = Messages \cup {Len(made) + 1}
      /\ \A m \in Messages : made'[m] = made[m]
      /\ made'[Len(made) + 1].kind = kind
  BY Published
<1> QED
  BY <1>1 DEF OfKind, Messages

(* The bounds are numbers.                                                  *)
LEMMA BoundsAreNumbers ==
    /\ LastMsg \in Nat /\ MaxCommands \in Nat /\ MaxChanges \in Nat
    /\ MaxTrouble \in Nat /\ 0 \in Codes /\ Codes \subseteq Nat
BY OperatorAssumption

(* The two messages there are.                                              *)
LEMMA WhatIsPublished ==
    ASSUME OperatorTypeOK
    PROVE  /\ \A k \in downlink : k \in CommandIds
                                  /\ [kind |-> "ack", of |-> k] \in Contents
           /\ [kind |-> "fault", of |-> fault] \in Contents
<1>1. downlink \subseteq CommandIds
  BY OperatorAssumption DEF OperatorTypeOK, CommandIds
<1> QED
  BY <1>1 DEF Contents, OperatorTypeOK

(* In particular a verdict leaves the fault reports as they are, and the    *)
(* other way round.                                                         *)
LEMMA VerdictSparesReports ==
    ASSUME OperatorTypeOK, CommandArrives
    PROVE  /\ OfKind("fault")' = OfKind("fault")
           /\ \A m \in OfKind("fault") : made'[m] = made[m]
<1>1. PICK k \in downlink : Publish("ack", k)
  BY DEF CommandArrives
<1>2. [kind |-> "ack", of |-> k] \in Contents
  BY <1>1, WhatIsPublished
<1>3. OfKind("fault")' = OfKind("fault") \cup (IF "fault" = "ack" THEN {Len(made) + 1} ELSE {})
  BY <1>1, <1>2, PublishedKinds
<1>4. \A m \in OfKind("fault") : made'[m] = made[m]
  BY <1>1, <1>2, PublishedKinds
<1> QED
  BY <1>3, <1>4

LEMMA ReportSparesVerdicts ==
    ASSUME OperatorTypeOK, Publish("fault", fault)
    PROVE  /\ OfKind("ack")' = OfKind("ack")
           /\ \A m \in OfKind("ack") : made'[m] = made[m]
<1>1. [kind |-> "fault", of |-> fault] \in Contents
  BY WhatIsPublished
<1>2. OfKind("ack")' = OfKind("ack") \cup (IF "ack" = "fault" THEN {Len(made) + 1} ELSE {})
  BY <1>1, PublishedKinds
<1>3. \A m \in OfKind("ack") : made'[m] = made[m]
  BY <1>1, PublishedKinds
<1> QED
  BY <1>2, <1>3

(* A step that makes no message leaves what has been made as it is.         *)
LEMMA SameMessages ==
    ASSUME UNCHANGED made
    PROVE  /\ Messages' = Messages
           /\ \A k : OfKind(k)' = OfKind(k)
           /\ \A k : Verdict(k)' = Verdict(k)
BY DEF Messages, OfKind, Verdict

-----------------------------------------------------------------------------
(* Every step preserves each part of the invariant                          *)

(* The initial state satisfies all of it.                                   *)
LEMMA OperatorInitInv == Init => OperatorInv
<1> SUFFICES ASSUME Init
             PROVE  OperatorInv
  OBVIOUS
<1>1. Messages = {} /\ \A k : OfKind(k) = {}
  BY DEF Init, Messages, OfKind
<1>2. OperatorTypeOK
  <2>1. /\ 0 \in 0 .. MaxCommands /\ 0 \in 0 .. MaxChanges /\ 0 \in 0 .. MaxTrouble
        /\ 0 \in Codes /\ 0 <= LastMsg
    BY BoundsAreNumbers
  <2>2. made \in Seq(Contents) /\ Len(made) = 0
    BY DEF Init
  <2>3. client \in 0 .. posted /\ client \notin answered \cup failed
    BY DEF Init, NoCommand
  <2> QED
    BY <1>1, <2>1, <2>2, <2>3 DEF Init, Channel!Init, OperatorTypeOK, NoCommand
<1>3. NothingVanishes /\ HandedInOrder
  BY <1>1 DEF Init, Channel!Init, NothingVanishes, HandedInOrder
<1>4. CommandsTraced /\ VerdictsInOrder
  BY <1>1 DEF Init, CommandsTraced, VerdictsInOrder
<1>5. LastReport
  BY <1>1 DEF Init, LastReport, Newest, CodeOf
<1> QED
  BY <1>2, <1>3, <1>4, <1>5 DEF OperatorInv

(* The channel and the writer: no message is lost track of.                 *)
LEMMA NothingVanishesNext ==
    OperatorInv /\ [Next]_vars => NothingVanishes'
<1> SUFFICES ASSUME OperatorInv, [Next]_vars
             PROVE  NothingVanishes'
  OBVIOUS
<1> USE DEF OperatorInv
<1>1. CASE CommandArrives
  <2>1. PICK k \in downlink : Publish("ack", k)
    BY <1>1 DEF CommandArrives
  <2>2. /\ Messages' = Messages \cup {Len(made) + 1}
        /\ kept' \cup evicted' = kept \cup evicted \cup {Len(made) + 1}
        /\ received' = received
    BY <2>1, WhatIsPublished, Published
  <2> QED
    BY <1>1, <2>2 DEF CommandArrives, cloudVars, NothingVanishes
<1>2. CASE Publish("fault", fault) /\ UNCHANGED cloudVars
  <2>1. /\ Messages' = Messages \cup {Len(made) + 1}
        /\ kept' \cup evicted' = kept \cup evicted \cup {Len(made) + 1}
        /\ received' = received
    BY <1>2, WhatIsPublished, Published
  <2> QED
    BY <1>2, <2>1 DEF cloudVars, NothingVanishes
<1>3. CASE \E m \in 1 .. LastMsg : MessageArrives(m) \/ MessageMissed(m) \/ MessageSettled(m)
  <2>1. PICK m \in 1 .. LastMsg : MessageArrives(m) \/ MessageMissed(m) \/ MessageSettled(m)
    BY <1>3
  <2>2. Messages' = Messages
    BY <2>1, SameMessages DEF MessageArrives, MessageMissed, MessageSettled, edgeVars
  <2> QED
    BY <2>1, <2>2
    DEF MessageArrives, MessageMissed, MessageSettled, cloudVars,
        Channel!Receive, Channel!Settle, Channel!Accepted, NothingVanishes
<1>4. CASE UNCHANGED <<made, kept, received, evicted, written, missed>>
  BY <1>4, SameMessages DEF NothingVanishes
<1> QED
  BY <1>1, <1>2, <1>3, <1>4
  DEF Next, Request, Edge, Cloud, PostCommand, BrokerTakesCommand,
      RequestAnswered, RequestFails, EdgeConnects, EdgeDisconnects,
      CommandFails, FaultChanges, FaultReported, FaultReportFails,
      EdgeRestarts, SubscriberConnects, SubscriberStops, vars, edgeVars,
      channelVars, cloudVars

(* The endpoint: a new request takes the identifier over.                   *)
LEMMA HandedInOrderNext ==
    OperatorInv /\ [Next]_vars => HandedInOrder'
<1> SUFFICES ASSUME OperatorInv, [Next]_vars
             PROVE  HandedInOrder'
  OBVIOUS
<1>1. CASE PostCommand
  BY <1>1 DEF PostCommand, HandedInOrder
<1>2. CASE RequestAnswered \/ RequestFails
  BY <1>2 DEF RequestAnswered, RequestFails, HandedInOrder
<1>3. CASE UNCHANGED <<client, posted>>
  BY <1>3 DEF OperatorInv, HandedInOrder
<1> QED
  BY <1>1, <1>2, <1>3
  DEF Next, Request, Edge, Cloud, BrokerTakesCommand, EdgeConnects,
      EdgeDisconnects, CommandArrives, CommandFails, FaultChanges,
      FaultReported, FaultReportFails, EdgeRestarts, SubscriberConnects,
      SubscriberStops, MessageArrives, MessageMissed, MessageSettled, vars,
      requestVars

(* A command the broker takes is newer than all it has taken before.        *)
LEMMA NewestIsTaken ==
    ASSUME OperatorInv, BrokerTakesCommand
    PROVE  /\ client \in CommandIds
           /\ \A k \in handed : k < client
<1>1. client = posted /\ posted \in 0 .. MaxCommands /\ client # 0
  BY DEF OperatorInv, OperatorTypeOK, HandedInOrder, BrokerTakesCommand, NoCommand
<1>2. handed \subseteq 1 .. posted /\ client \notin handed
  BY DEF OperatorInv, OperatorTypeOK, BrokerTakesCommand
<1> QED
  BY <1>1, <1>2, OperatorAssumption DEF CommandIds

(* From the broker to the edge: no command vanishes, and none overtakes.    *)
LEMMA CommandsNext ==
    OperatorInv /\ [Next]_vars => CommandsTraced' /\ VerdictsInOrder'
<1> SUFFICES ASSUME OperatorInv, [Next]_vars
             PROVE  CommandsTraced' /\ VerdictsInOrder'
  OBVIOUS
<1>1. CASE BrokerTakesCommand
  <2>1. /\ client \in CommandIds /\ \A k \in handed : k < client
        /\ handed' = handed \cup {client}
        /\ downlink' \subseteq downlink \cup {client}
        /\ downlink' \cup dropped' = downlink \cup dropped \cup {client}
        /\ made' = made /\ botched' = botched /\ botched \subseteq handed
        /\ client \notin handed
    BY <1>1, NewestIsTaken DEF BrokerTakesCommand, edgeVars, OperatorInv, OperatorTypeOK
  <2>2. \A k : OfKind(k)' = OfKind(k) /\ Verdict(k)' = Verdict(k)
    BY <2>1, SameMessages
  <2>3. CommandsTraced'
    BY <2>1, <2>2 DEF OperatorInv, CommandsTraced
  <2>4. VerdictsInOrder'
    BY <2>1, <2>2 DEF OperatorInv, VerdictsInOrder
  <2> QED
    BY <2>3, <2>4
<1>2. CASE CommandArrives
  <2> DEFINE new == Len(made) + 1
  <2>1. PICK k \in downlink : /\ \A j \in downlink : k <= j
                             /\ downlink' = downlink \ {k}
                             /\ Publish("ack", k)
    BY <1>2 DEF CommandArrives, Applies
  <2>2. UNCHANGED <<handed, dropped, botched>>
    BY <1>2 DEF CommandArrives, requestVars
  <2>3. OperatorTypeOK /\ [kind |-> "ack", of |-> k] \in Contents
    BY WhatIsPublished DEF OperatorInv
  <2>4. /\ OfKind("ack")' = OfKind("ack") \cup {new}
        /\ \A m \in OfKind("ack") : made'[m] = made[m] /\ m < new
        /\ made'[new] = [kind |-> "ack", of |-> k]
    BY <2>1, <2>3, Published, PublishedKinds
  <2>5. /\ k \in handed \ botched /\ handed \subseteq Nat /\ downlink \subseteq handed
        /\ Len(made) \in Nat /\ OfKind("ack") \subseteq Nat
    BY OperatorAssumption DEF OperatorInv, OperatorTypeOK, OfKind, Messages
  <2>6. CommandsTraced'
    <3>1. new \in Verdict(k)'
      BY <2>4 DEF Verdict
    <3>2. \A j : Verdict(j) \subseteq Verdict(j)'
      BY <2>4 DEF Verdict
    <3>3. downlink' \cup dropped' \cup {k} = downlink \cup dropped
      BY <2>1, <2>2
    <3> QED
      BY <2>2, <3>1, <3>2, <3>3 DEF OperatorInv, CommandsTraced
  <2>7. VerdictsInOrder'
    <3>1. \A m \in OfKind("ack")' : made'[m].of \in handed' \ botched'
      BY <2>2, <2>4, <2>5 DEF OperatorInv, VerdictsInOrder
    <3>2. \A m \in OfKind("ack")', j \in downlink' : made'[m].of < j
      <4>1. \A j \in downlink' : k < j /\ j \in downlink
        BY <2>1, <2>5
      <4> QED
        BY <2>4, <4>1 DEF OperatorInv, VerdictsInOrder
    <3>3. \A m, n \in OfKind("ack")' : m < n => made'[m].of < made'[n].of
      BY <2>4, <2>5 DEF OperatorInv, VerdictsInOrder
    <3>4. \A i \in botched', j \in downlink' : i < j
      BY <2>1, <2>2 DEF OperatorInv, VerdictsInOrder
    <3> QED
      BY <3>1, <3>2, <3>3, <3>4 DEF VerdictsInOrder
  <2> QED
    BY <2>6, <2>7
<1>3. CASE CommandFails
  <2>1. PICK k \in downlink : /\ \A j \in downlink : k <= j
                             /\ downlink' = downlink \ {k}
                             /\ botched' = botched \cup {k}
    BY <1>3 DEF CommandFails, Applies
  <2>2. UNCHANGED <<handed, dropped, made>>
    BY <1>3 DEF CommandFails, requestVars
  <2>3. \A j : OfKind(j)' = OfKind(j) /\ Verdict(j)' = Verdict(j)
    BY <2>2, SameMessages
  <2>4. CommandsTraced'
    BY <2>1, <2>2, <2>3 DEF OperatorInv, CommandsTraced
  <2>5. /\ downlink \subseteq Nat
        /\ \A m \in OfKind("ack") : made[m].of # k
    <3>1. downlink \subseteq Nat
      BY OperatorAssumption DEF OperatorInv, OperatorTypeOK
    <3>2. \A m \in OfKind("ack") : made[m].of < k
      BY DEF OperatorInv, VerdictsInOrder
    <3> QED
      BY <3>1, <3>2
  <2>6. \A j \in downlink' : k < j
    BY <2>1, <2>5
  <2>7. VerdictsInOrder'
    BY <2>1, <2>2, <2>3, <2>5, <2>6 DEF OperatorInv, VerdictsInOrder
  <2> QED
    BY <2>4, <2>7
<1>4. CASE Publish("fault", fault) /\ UNCHANGED <<handed, downlink, dropped, botched>>
  <2>1. /\ OfKind("ack")' = OfKind("ack")
        /\ \A m \in OfKind("ack") : made'[m] = made[m]
    BY <1>4, ReportSparesVerdicts DEF OperatorInv
  <2>2. \A k : Verdict(k)' = Verdict(k)
    BY <2>1 DEF Verdict
  <2>3. UNCHANGED <<handed, downlink, dropped, botched>>
    BY <1>4
  <2> QED
    BY <2>1, <2>2, <2>3 DEF OperatorInv, CommandsTraced, VerdictsInOrder
<1>5. CASE EdgeDisconnects \/ EdgeRestarts
  <2>1. /\ handed' = handed /\ made' = made /\ botched' = botched
        /\ downlink' = {} /\ dropped' = dropped \cup downlink
    BY <1>5 DEF EdgeDisconnects, EdgeRestarts, SessionEnds, requestVars, edgeVars
  <2>2. \A k : OfKind(k)' = OfKind(k) /\ Verdict(k)' = Verdict(k)
    BY <2>1, SameMessages
  <2> QED
    BY <2>1, <2>2 DEF OperatorInv, CommandsTraced, VerdictsInOrder
<1>6. CASE UNCHANGED <<handed, downlink, dropped, botched, made>>
  BY <1>6, SameMessages DEF OperatorInv, CommandsTraced, VerdictsInOrder
<1> QED
  BY <1>1, <1>2, <1>3, <1>4, <1>5, <1>6
  DEF Next, Request, Edge, Cloud, PostCommand, RequestAnswered, RequestFails,
      EdgeConnects, FaultChanges, FaultReported, FaultReportFails,
      SubscriberConnects, SubscriberStops, MessageArrives, MessageMissed,
      MessageSettled, vars, requestVars, downlinkVars, edgeVars

(* The newest of some messages is the one that comes after all the others.  *)
LEMMA NewestIs ==
    ASSUME NEW S \in SUBSET Nat, NEW n \in S, \A m \in S : m <= n
    PROVE  Newest(S) = n
<1>1. \A x \in S : (\A m \in S : m <= x) => x = n
  <2> SUFFICES ASSUME NEW x \in S, \A m \in S : m <= x
               PROVE  x = n
    OBVIOUS
  <2>1. x <= n /\ n <= x /\ x \in Nat /\ n \in Nat
    OBVIOUS
  <2> QED
    BY <2>1
<1> QED
  BY <1>1 DEF Newest

(* Which report is the newest depends on the reports alone.                 *)
LEMMA SameReports ==
    ASSUME OfKind("fault")' = OfKind("fault")
    PROVE  Newest(OfKind("fault"))' = Newest(OfKind("fault"))
<1>1. Newest(OfKind("fault"))' = Newest(OfKind("fault")')
  BY DEF Newest
<1> QED
  BY <1>1

(* The fault reports: the last one made says what _last_fault_code says.    *)
LEMMA LastReportNext == OperatorInv /\ [Next]_vars => LastReport'
<1> SUFFICES ASSUME OperatorInv, [Next]_vars
             PROVE  LastReport'
  OBVIOUS
<1>1. CASE Publish("fault", fault) /\ (lastFault' = fault \/ forgot')
  <2> DEFINE new == Len(made) + 1
  <2>1. /\ OfKind("fault")' = OfKind("fault") \cup {new}
        /\ \A m \in OfKind("fault") : m < new
        /\ made'[new] = [kind |-> "fault", of |-> fault]
        /\ Len(made) \in Nat /\ OfKind("fault") \subseteq Nat
    BY <1>1, WhatIsPublished, Published, PublishedKinds
    DEF OperatorInv, OfKind, Messages
  <2>2. Newest(OfKind("fault")') = new /\ new # 0
    BY <2>1, NewestIs
  <2>3. Newest(OfKind("fault"))' = new
    BY <2>2 DEF Newest
  <2>4. CodeOf(Newest(OfKind("fault")))' = fault
    BY <2>1, <2>2, <2>3 DEF CodeOf
  <2> QED
    BY <1>1, <2>1, <2>3, <2>4 DEF LastReport
<1>2. CASE CommandArrives
  <2>1. /\ OfKind("fault")' = OfKind("fault")
        /\ \A m \in OfKind("fault") : made'[m] = made[m]
    BY <1>2, VerdictSparesReports DEF OperatorInv
  <2>2. Newest(OfKind("fault"))' = Newest(OfKind("fault"))
    BY <2>1, SameReports
  <2>3. UNCHANGED <<forgot, lastFault>>
    BY <1>2 DEF CommandArrives
  <2> QED
    BY <2>1, <2>2, <2>3 DEF OperatorInv, LastReport, CodeOf
<1>3. CASE EdgeRestarts \/ UNCHANGED <<forgot, lastFault, made>>
  <2>1. made' = made /\ OfKind("fault")' = OfKind("fault")
    BY <1>3, SameMessages DEF EdgeRestarts
  <2>2. Newest(OfKind("fault"))' = Newest(OfKind("fault"))
    BY <2>1, SameReports
  <2>3. ~forgot' => ~forgot /\ lastFault' = lastFault
    BY <1>3 DEF EdgeRestarts
  <2> QED
    BY <2>1, <2>2, <2>3 DEF OperatorInv, LastReport, CodeOf
<1> QED
  BY <1>1, <1>2, <1>3
  DEF Next, Request, Edge, Cloud, PostCommand, BrokerTakesCommand,
      RequestAnswered, RequestFails, EdgeConnects, EdgeDisconnects,
      CommandFails, FaultChanges, FaultReported, FaultReportFails,
      AfterFailedReport, SubscriberConnects, SubscriberStops, MessageArrives, MessageMissed, MessageSettled, vars,
      edgeVars

(* The type invariant.                                                      *)
LEMMA OperatorTypeNext == OperatorInv /\ [Next]_vars => OperatorTypeOK'
<1> SUFFICES ASSUME OperatorInv, [Next]_vars
             PROVE  OperatorTypeOK'
  OBVIOUS
<1>1. OperatorTypeOK /\ NothingVanishes'
  BY NothingVanishesNext DEF OperatorInv
<1>2. /\ posted \in Nat /\ posted <= MaxCommands /\ client \in 0 .. posted
      /\ handed \subseteq 1 .. posted /\ failed \subseteq 1 .. posted
      /\ answered \subseteq handed
  BY <1>1, BoundsAreNumbers DEF OperatorTypeOK
<1>3. trouble' \in 0 .. MaxTrouble /\ changes' \in 0 .. MaxChanges
  <2>1. trouble \in 0 .. MaxTrouble /\ changes \in 0 .. MaxChanges
    BY <1>1 DEF OperatorTypeOK
  <2>2. \/ UNCHANGED trouble
        \/ trouble < MaxTrouble /\ trouble' = trouble + 1
    BY DEF Next, Request, Edge, Cloud, PostCommand, BrokerTakesCommand,
           RequestAnswered, RequestFails, EdgeConnects, EdgeDisconnects,
           CommandArrives, CommandFails, FaultChanges, FaultReported,
           FaultReportFails, EdgeRestarts, SubscriberConnects, SubscriberStops,
           MessageArrives, MessageMissed, MessageSettled, Disturb,
           vars, boundVars
  <2>3. \/ UNCHANGED changes
        \/ changes < MaxChanges /\ changes' = changes + 1
    BY DEF Next, Request, Edge, Cloud, PostCommand, BrokerTakesCommand,
           RequestAnswered, RequestFails, EdgeConnects, EdgeDisconnects,
           CommandArrives, CommandFails, FaultChanges, FaultReported,
           FaultReportFails, EdgeRestarts, SubscriberConnects, SubscriberStops,
           MessageArrives, MessageMissed, MessageSettled, vars, boundVars
  <2> QED
    BY <2>1, <2>2, <2>3, BoundsAreNumbers
<1>4. /\ kept' \cup received' \cup evicted' \subseteq Messages'
      /\ written' \cup missed' \subseteq received'
  BY <1>1 DEF NothingVanishes
<1>5. CASE PostCommand
  <2>1. /\ posted' = posted + 1 /\ posted' \in 0 .. MaxCommands
        /\ client' = posted' /\ client' \in 0 .. posted'
        /\ failed' = failed \cup ({client} \ {0})
        /\ 1 .. posted \subseteq 1 .. posted' /\ posted' \notin 1 .. posted
        /\ posted' # 0
    BY <1>2, <1>5, BoundsAreNumbers DEF PostCommand, NoCommand
  <2>2. client # 0 => client \in 1 .. posted
    BY <1>2
  <2>3. failed' \subseteq 1 .. posted /\ client' \notin answered \cup failed'
        /\ answered \cap failed' = {} /\ handed \subseteq 1 .. posted'
    BY <1>2, <1>1, <2>1, <2>2 DEF OperatorTypeOK
  <2>4. failed' \subseteq 1 .. posted'
    BY <2>1, <2>3
  <2> QED
    BY <1>1, <1>3, <1>4, <1>5, <2>1, <2>3, <2>4
    DEF PostCommand, OperatorTypeOK, downlinkVars, edgeVars, cloudVars
<1>6. CASE BrokerTakesCommand
  <2>1. client \in 1 .. posted
    BY <1>2, <1>6 DEF BrokerTakesCommand, NoCommand
  <2>2. /\ handed' = handed \cup {client} /\ client \notin handed
        /\ downlink' \subseteq downlink \cup {client}
        /\ dropped' \subseteq dropped \cup {client}
        /\ downlink' \cap dropped' = {}
        /\ ~edgeUp => downlink' = downlink
        /\ botched \subseteq handed /\ botched \cap (downlink' \cup dropped') = {}
    BY <1>1, <1>6 DEF BrokerTakesCommand, OperatorTypeOK
  <2>3. UNCHANGED <<posted, client, answered, failed, edgeUp, unseen, edgeVars, cloudVars>>
    BY <1>6 DEF BrokerTakesCommand
  <2> QED
    BY <1>1, <1>3, <1>4, <2>1, <2>2, <2>3 DEF OperatorTypeOK, edgeVars, cloudVars
<1>7. CASE RequestAnswered \/ RequestFails
  <2>1. client' = 0 /\ client \in 1 .. posted /\ 0 \notin 1 .. posted
    BY <1>2, <1>7 DEF RequestAnswered, RequestFails, NoCommand
  <2>2. /\ answered' \subseteq handed /\ failed' \subseteq 1 .. posted
        /\ answered' \cap failed' = {}
    BY <1>2, <1>1, <1>7, <2>1 DEF RequestAnswered, RequestFails, OperatorTypeOK
  <2>3. client' \in 0 .. posted /\ client' \notin answered' \cup failed'
    BY <1>2, <2>1, <2>2
  <2>4. UNCHANGED <<posted, handed, downlinkVars, edgeVars, cloudVars>>
    BY <1>7 DEF RequestAnswered, RequestFails
  <2> QED
    BY <1>1, <1>3, <1>4, <2>2, <2>3, <2>4
    DEF OperatorTypeOK, downlinkVars, edgeVars, cloudVars
<1>8. CASE EdgeDisconnects \/ EdgeRestarts
  BY <1>1, <1>3, <1>4, <1>8, OperatorAssumption
  DEF EdgeDisconnects, EdgeRestarts, SessionEnds, OperatorTypeOK,
      requestVars, edgeVars, cloudVars
<1>9. CASE CommandArrives
  <2>1. PICK k \in downlink : /\ downlink' = downlink \ {k} /\ running' = k
                             /\ Publish("ack", k)
    BY <1>9 DEF CommandArrives, Applies
  <2>2. made' \in Seq(Contents) /\ Len(made') <= LastMsg
    <3>1. [kind |-> "ack", of |-> k] \in Contents
      BY <1>1, WhatIsPublished
    <3> QED
      BY <1>1, <2>1, <3>1, Published, BoundsAreNumbers
  <2> QED
    BY <1>1, <1>3, <1>4, <1>9, <2>1, <2>2
    DEF CommandArrives, OperatorTypeOK, requestVars, cloudVars
<1>10. CASE FaultReported
  <2>1. made' \in Seq(Contents) /\ Len(made') <= LastMsg
    BY <1>1, <1>10, WhatIsPublished, Published, OperatorAssumption DEF FaultReported
  <2> QED
    BY <1>1, <1>3, <1>4, <1>10, <2>1
    DEF FaultReported, OperatorTypeOK, requestVars, downlinkVars, cloudVars
<1>11. CASE \/ EdgeConnects \/ FaultChanges
            \/ SubscriberConnects \/ SubscriberStops \/ UNCHANGED vars
  BY <1>1, <1>3, <1>4, <1>11
  DEF EdgeConnects, FaultChanges, SubscriberConnects, SubscriberStops, vars,
      OperatorTypeOK, requestVars, downlinkVars, edgeVars, cloudVars
<1>12. CASE FaultReportFails
  <2>1. made' \in Seq(Contents) /\ Len(made') <= LastMsg /\ forgot' \in BOOLEAN
    <3>1. CASE UNCHANGED <<forgot, made>>
      BY <1>1, <3>1 DEF OperatorTypeOK
    <3>2. CASE Publish("fault", fault) /\ forgot' = TRUE
      BY <1>1, <3>2, WhatIsPublished, Published, BoundsAreNumbers
    <3> QED
      BY <1>12, <3>1, <3>2 DEF FaultReportFails
  <2> QED
    BY <1>1, <1>3, <1>4, <1>12, <2>1
    DEF FaultReportFails, AfterFailedReport, OperatorTypeOK, requestVars,
        downlinkVars, cloudVars
<1>13. CASE CommandFails
  <2>1. PICK k \in downlink : /\ downlink' = downlink \ {k} /\ running' = k
                             /\ botched' = botched \cup {k}
    BY <1>13 DEF CommandFails, Applies
  <2>2. UNCHANGED <<requestVars, dropped, edgeUp, unseen, fault, lastFault, forgot,
                    made, cloudVars>>
    BY <1>13 DEF CommandFails
  <2> QED
    BY <1>1, <1>3, <1>4, <2>1, <2>2 DEF OperatorTypeOK, requestVars, cloudVars
<1>14. CASE \E m \in 1 .. LastMsg : MessageArrives(m) \/ MessageMissed(m) \/ MessageSettled(m)
  <2>1. UNCHANGED <<requestVars, downlinkVars, edgeVars, subUp>>
    BY <1>14 DEF MessageArrives, MessageMissed, MessageSettled, cloudVars
  <2> QED
    BY <1>1, <1>3, <1>4, <2>1
    DEF OperatorTypeOK, requestVars, downlinkVars, edgeVars
<1> QED
  BY <1>5, <1>6, <1>7, <1>8, <1>9, <1>10, <1>11, <1>12, <1>13, <1>14
  DEF Next, Request, Edge, Cloud

(* Every step preserves the invariant.                                      *)
LEMMA OperatorNextInv == OperatorInv /\ [Next]_vars => OperatorInv'
BY OperatorTypeNext, NothingVanishesNext, HandedInOrderNext, CommandsNext,
   LastReportNext
DEF OperatorInv

-----------------------------------------------------------------------------
(* Theorems                                                                 *)

(* Type correctness: a request has one answer at most, a command one fate.  *)
THEOREM OperatorTypeCorrect == Spec => []OperatorTypeOK
<1>1. OperatorInv => OperatorTypeOK
  BY DEF OperatorInv
<1> QED
  BY <1>1, OperatorInitInv, OperatorNextInv, PTL DEF Spec

(* router.py:138-140: a command answered with "queued" never just           *)
(* disappears: it is on its way or was lost with the edge's session; the    *)
(* edge's handler raised once it was applied; or it has a verdict that is   *)
(* on its way, in InfluxDB, missed there or evicted.                        *)
THEOREM QueuedCommandsAccounted == Spec => []CommandAccounted
<1>1. OperatorInv => CommandAccounted
  <2> SUFFICES ASSUME OperatorInv, NEW k \in answered
               PROVE  \/ k \in downlink \cup dropped
                      \/ k \in botched /\ Verdict(k) = {}
                      \/ Verdict(k) \cap (kept \cup written \cup missed \cup evicted) # {}
    BY DEF CommandAccounted
  <2>1. k \in handed
    BY DEF OperatorInv, OperatorTypeOK
  <2>2. Verdict(k) \subseteq kept \cup written \cup missed \cup evicted
    BY DEF OperatorInv, NothingVanishes, Verdict, OfKind
  <2>3. k \in botched => Verdict(k) = {}
    BY DEF OperatorInv, VerdictsInOrder, Verdict
  <2> QED
    BY <2>1, <2>2, <2>3 DEF OperatorInv, CommandsTraced
<1> QED
  BY <1>1, OperatorInitInv, OperatorNextInv, PTL DEF Spec

(* main.py:177-198: between a report made and a report on record there is   *)
(* nothing but the channel's room, the subscriber and InfluxDB.             *)
THEOREM ReportedFaultAccounted == Spec => []FaultAccounted
<1>1. OperatorInv => FaultAccounted
  <2> SUFFICES ASSUME OperatorInv, fault = lastFault, ~forgot
               PROVE  \/ OnRecord = fault
                      \/ Newest(OfKind("fault")) \in kept \cup missed \cup evicted
    BY DEF FaultAccounted
  <2> DEFINE reports == OfKind("fault")
             n       == Newest(reports)
  <2>1. /\ n \in reports \cup {0} /\ \A m \in reports : m <= n
        /\ CodeOf(n) = fault
    BY DEF OperatorInv, LastReport
  <2>2. reports \subseteq Messages /\ reports \subseteq Nat \ {0}
    BY DEF OfKind, Messages, OperatorInv, OperatorTypeOK
  <2> HIDE DEF n, reports
  <2>3. CASE n \in reports
    <3>1. n \in kept \cup evicted \cup written \cup missed
      BY <2>2, <2>3 DEF OperatorInv, NothingVanishes
    <3>2. ASSUME n \in written
          PROVE  Newest(written \cap reports) = n
      BY <2>1, <2>2, <2>3, <3>2, NewestIs
    <3> QED
      BY <2>1, <3>1, <3>2 DEF OnRecord, n, reports
  <2>4. CASE n = 0 /\ n \notin reports
    <3>1. reports = {}
      BY <2>1, <2>2, <2>4
    <3> QED
      BY <2>1, <2>4, <3>1 DEF OnRecord, Newest, reports
  <2> QED
    BY <2>1, <2>3, <2>4
<1> QED
  BY <1>1, OperatorInitInv, OperatorNextInv, PTL DEF Spec

(* main.py:474-485: no command is applied a second time, whether or not its *)
(* handler raised the first.                                                *)
THEOREM CommandsAppliedOnce == Spec => []AppliedOnce
<1>1. OperatorInv => AppliedOnce
  <2>1. OperatorInv => \A k \in botched : Verdict(k) = {}
    BY DEF OperatorInv, VerdictsInOrder, Verdict
  <2> SUFFICES ASSUME OperatorInv, NEW k \in CommandIds,
                      NEW m \in Verdict(k), NEW n \in Verdict(k)
               PROVE  m = n
    BY <2>1 DEF AppliedOnce
  <2>2. /\ m \in OfKind("ack") /\ n \in OfKind("ack") /\ m \in Nat /\ n \in Nat
        /\ made[m].of = k /\ made[n].of = k /\ k \in Nat
    BY DEF Verdict, OfKind, Messages, OperatorInv, OperatorTypeOK, CommandIds
  <2>3. ~ (m < n) /\ ~ (n < m)
    BY <2>2 DEF OperatorInv, VerdictsInOrder
  <2> QED
    BY <2>2, <2>3
<1> QED
  BY <1>1, OperatorInitInv, OperatorNextInv, PTL DEF Spec

(* main.py:110-146, 474-481: the edge takes up a command only if it is newer *)
(* than every one it has taken up before, also over outages and restarts.   *)
THEOREM NewerCommandsOnly == Spec => NeverBackToOlder
<1> DEFINE Forward == running' # running =>
                         \/ running' = NoCommand
                         \/ /\ \A m \in OfKind("ack") : made[m].of < running'
                            /\ \A j \in botched : j < running'
<1>1. OperatorInv /\ [Next]_vars => [Forward]_vars
  <2> SUFFICES ASSUME OperatorInv, Next
               PROVE  Forward
    OBVIOUS
  <2>1. CASE CommandArrives \/ CommandFails
    BY <2>1 DEF CommandArrives, CommandFails, Applies, OperatorInv, VerdictsInOrder
  <2>2. CASE EdgeRestarts
    BY <2>2 DEF EdgeRestarts
  <2> QED
    BY <2>1, <2>2
    DEF Next, Request, Edge, Cloud, PostCommand, BrokerTakesCommand,
        RequestAnswered, RequestFails, EdgeConnects, EdgeDisconnects,
        FaultChanges, FaultReported, FaultReportFails, SubscriberConnects,
        SubscriberStops, MessageArrives, MessageMissed, MessageSettled, edgeVars
<1> QED
  BY <1>1, OperatorInitInv, OperatorNextInv, PTL DEF Spec, NeverBackToOlder

(* The edge's messages go through a channel that EdgeUplink implements: all *)
(* this module does to it is what AtLeastOnce allows.                       *)
THEOREM UsesChannel == Spec => Channel!Spec
<1>1. Init => Channel!Init
  BY DEF Init
<1>2. OperatorInv /\ [Next]_vars => [Channel!Next]_(Channel!vars)
  <2> SUFFICES ASSUME OperatorInv, [Next]_vars
               PROVE  Channel!Next \/ UNCHANGED <<kept, received, evicted>>
    BY DEF Channel!vars
  <2>1. CASE CommandArrives \/ Publish("fault", fault)
    <3>1. /\ Channel!Accept(Len(made) + 1)
          /\ Len(made) + 1 \in 1 .. LastMsg
      BY <2>1, WhatIsPublished, Published DEF CommandArrives, OperatorInv
    <3> QED
      BY <3>1 DEF Channel!Next
  <2>2. CASE \E m \in 1 .. LastMsg : MessageArrives(m) \/ MessageMissed(m) \/ MessageSettled(m)
    BY <2>2 DEF MessageArrives, MessageMissed, MessageSettled, Channel!Next
  <2>3. CASE UNCHANGED channelVars
    BY <2>3 DEF channelVars
  <2> QED
    BY <2>1, <2>2, <2>3
    DEF Next, Request, Edge, Cloud, PostCommand, BrokerTakesCommand,
        RequestAnswered, RequestFails, EdgeConnects, EdgeDisconnects,
        CommandFails, FaultChanges, FaultReported, FaultReportFails,
        EdgeRestarts, SubscriberConnects, SubscriberStops, vars
<1> QED
  BY <1>1, <1>2, OperatorInitInv, OperatorNextInv, PTL DEF Spec, Channel!Spec
=============================================================================

--------------------------- MODULE MarketPushProofs ---------------------------
(***************************************************************************)
(* What MarketPush guarantees for any number of days, cuts and restarts.   *)
(* That the retained message is the latest curve rests on the order in     *)
(* which the loop walks through its dates: InOrder, that whatever is still *)
(* to be pushed is later than what has been, and why nothing is jumped     *)
(* over as long as nothing fails with two dates to push.  What a connected *)
(* edge has follows from EdgeInv, which needs no such restriction.         *)
(***************************************************************************)
EXTENDS MarketPush, FiniteSetTheorems, TLAPS

-----------------------------------------------------------------------------
(* The type invariant                                                       *)

LEMMA InitType == Init => PushTypeOK
<1> SUFFICES ASSUME Init PROVE PushTypeOK
  OBVIOUS
<1>1. 0 \in 0 .. LastDay /\ 0 \in 0 .. MaxCuts /\ 0 \in 0 .. MaxRestarts
  BY PushAssumption
<1>2. 0 \in 0 .. 0
  OBVIOUS
<1> QED
  BY <1>1, <1>2 DEF Init, PushTypeOK

(* Taking a curve, and a message's way through the broker.                  *)
LEMMA TakenType ==
    ASSUME PushTypeOK, NEW d \in Days
    PROVE  /\ Taken(d) \subseteq Days
           /\ Broker(d) => retained' \in Days \cup {None} /\ edgeHas' \subseteq Days
BY DEF PushTypeOK, Taken, Broker

LEMMA NextType == PushTypeOK /\ [Next]_vars => PushTypeOK'
<1> SUFFICES ASSUME PushTypeOK, [Next]_vars PROVE PushTypeOK'
  OBVIOUS
<1>0. /\ LastDay \in Nat /\ MaxCuts \in Nat /\ MaxRestarts \in Nat
      /\ today \in Nat /\ now \in Nat /\ cuts \in Nat /\ restarts \in Nat
      /\ today + 1 \in Days /\ now + 1 \in Days
  BY PushAssumption DEF PushTypeOK, Days
<1>1. CASE Tick
  <2>1. now' = today /\ waiting' \subseteq Days
    BY <1>0, <1>1 DEF Tick, PushTypeOK
  <2>2. at' \in {"fetch", "push"} /\ queue' \in {queue, fetched}
    BY <1>1 DEF Tick
  <2>3. UNCHANGED <<today, due, cloudUp, edgeUp, cuts, fetched, pushed, retained,
                    edgeHas, restarts>>
    BY <1>1 DEF Tick, linkVars
  <2> QED
    BY <1>0, <2>1, <2>2, <2>3 DEF PushTypeOK
<1>2. CASE FetchSucceeds
  <2>1. fetched' \subseteq Days /\ queue' = fetched' /\ pushed \subseteq fetched'
    BY <1>0, <1>2 DEF FetchSucceeds, PushTypeOK
  <2> QED
    BY <1>2, <2>1 DEF FetchSucceeds, PushTypeOK, linkVars
<1>3. CASE FetchFails
  BY <1>3 DEF FetchFails, PushTypeOK, linkVars
<1>4. CASE SkipPushed \/ PublishRefused
  BY <1>4 DEF SkipPushed, PublishRefused, PushTypeOK, linkVars
<1>5. CASE Publish
  <2>1. PICK d \in fetched \ pushed :
           queue' = queue \ {d} /\ pushed' = pushed \cup {d} /\ Broker(d)
    BY <1>5 DEF Publish
  <2>2. d \in Days
    BY DEF PushTypeOK
  <2>3. retained' \in Days \cup {None} /\ edgeHas' \subseteq Days
    BY <2>1, <2>2, TakenType
  <2> QED
    BY <1>5, <2>1, <2>3 DEF Publish, PushTypeOK, linkVars
<1>6. CASE PublishFails
  <2>1. PICK d \in fetched \ pushed :
           queue' = queue \ {d} /\ (Broker(d) \/ UNCHANGED <<retained, edgeHas>>)
    BY <1>6 DEF PublishFails
  <2>2. d \in Days
    BY DEF PushTypeOK
  <2>3. retained' \in Days \cup {None} /\ edgeHas' \subseteq Days
    BY <2>1, <2>2, TakenType DEF PushTypeOK
  <2>4. cuts' \in 0 .. MaxCuts /\ cloudUp' \in BOOLEAN
    BY <1>0, <1>6 DEF PublishFails, PushTypeOK
  <2> QED
    BY <1>6, <2>1, <2>3, <2>4 DEF PublishFails, PushTypeOK
<1>7. CASE Forget
  BY <1>7 DEF Forget, PushTypeOK, linkVars
<1>8. CASE RetryDelayOver
  BY <1>8 DEF RetryDelayOver, PushTypeOK, linkVars
<1>9. CASE CloudRestarts
  <2>1. restarts' \in 0 .. MaxRestarts
    BY <1>0, <1>9 DEF CloudRestarts, PushTypeOK
  <2>2. cloudUp' \in BOOLEAN
    BY <1>9 DEF CloudRestarts
  <2> QED
    BY <1>9, <2>1, <2>2 DEF CloudRestarts, PushTypeOK
<1>10. CASE EdgeConnects
  <2>1. edgeHas' \subseteq Days
    BY <1>10, TakenType DEF EdgeConnects, PushTypeOK
  <2>2. edgeUp' \in BOOLEAN
    BY <1>10 DEF EdgeConnects
  <2> QED
    BY <1>10, <2>1, <2>2 DEF EdgeConnects, PushTypeOK, loopVars
<1>11. CASE EdgeCut \/ CloudCut
  <2>1. cuts' \in 0 .. MaxCuts
    BY <1>0, <1>11 DEF EdgeCut, CloudCut, PushTypeOK
  <2>2. edgeUp' \in BOOLEAN /\ cloudUp' \in BOOLEAN
    BY <1>11 DEF EdgeCut, CloudCut, PushTypeOK
  <2> QED
    BY <1>11, <2>1, <2>2 DEF EdgeCut, CloudCut, PushTypeOK, loopVars
<1>12. CASE CloudConnects
  <2>1. cloudUp' \in BOOLEAN
    BY <1>12 DEF CloudConnects
  <2> QED
    BY <1>12, <2>1 DEF CloudConnects, PushTypeOK, loopVars
<1>13. CASE Afternoon
  <2>1. due' \in BOOLEAN
    BY <1>13 DEF Afternoon
  <2> QED
    BY <1>13, <2>1 DEF Afternoon, PushTypeOK, linkVars, loopVars
<1>14. CASE Midnight
  <2>1. today' \in 0 .. LastDay /\ now \in 0 .. today'
    BY <1>0, <1>14 DEF Midnight, PushTypeOK
  <2>2. due' \in BOOLEAN
    BY <1>14 DEF Midnight
  <2> QED
    BY <1>14, <2>1, <2>2 DEF Midnight, PushTypeOK, linkVars, loopVars
<1>15. CASE UNCHANGED vars
  BY <1>15 DEF vars, PushTypeOK, linkVars, loopVars
<1> QED
  BY <1>1, <1>2, <1>3, <1>4, <1>5, <1>6, <1>7, <1>8, <1>9, <1>10, <1>11, <1>12,
     <1>13, <1>14, <1>15 DEF Next, Loop

(* What the loop remembers as pushed it has fetched, and it has nothing to  *)
(* push but what it has fetched, also across restarts of the process.       *)
THEOREM PushTypeCorrect == Spec => []PushTypeOK
BY InitType, NextType, PTL DEF Spec

-----------------------------------------------------------------------------
(* The order of the dates                                                   *)

ToPush == fetched \ pushed

(* Two dates to push: what MayFail counts.                                  *)
TwoToPush == \E d, e \in ToPush : d # e

LEMMA TwoCount == PushTypeOK /\ TwoToPush => Cardinality(ToPush) >= 2
<1> SUFFICES ASSUME PushTypeOK, NEW d \in ToPush, NEW e \in ToPush, d # e
             PROVE  Cardinality(ToPush) >= 2
  BY DEF TwoToPush
<1>1. IsFiniteSet(Days)
  BY PushAssumption, FS_Interval DEF Days
<1>2. ToPush \subseteq Days
  BY DEF PushTypeOK, ToPush
<1>3. IsFiniteSet(ToPush) /\ Cardinality(ToPush) \in Nat
  BY <1>1, <1>2, FS_Subset, FS_CardinalityType
<1>4. IsFiniteSet({d}) /\ Cardinality({d}) = 1
  BY FS_Singleton
<1>5. Cardinality({d} \cup {e}) = 2
  BY <1>4, FS_AddElement
<1>6. Cardinality({d} \cup {e}) <= Cardinality(ToPush)
  <2>1. {d} \cup {e} \in SUBSET ToPush
    OBVIOUS
  <2> QED
    BY <1>3, <2>1, FS_Subset
<1> QED
  BY <1>3, <1>5, <1>6

(* The dates come in one after another; the loop, unless it has no          *)
(* connection, has the whole of what is to be pushed in hand, and so pushes *)
(* the earliest of it.                                                      *)
InOrder ==
    /\ \A d \in fetched : d <= now + 1
    /\ at = "fetch" => now + 1 \notin fetched
    /\ \A e \in pushed, d \in ToPush : e < d
    /\ at = "push" /\ cloudUp /\ TwoToPush => ToPush \subseteq queue
    /\ RetainedIsLatest

LEMMA InitInOrder == Init => InOrder
BY DEF Init, InOrder, ToPush, TwoToPush, RetainedIsLatest

LEMMA NextInOrder ==
    ASSUME FailsHalfWay = FALSE, PushTypeOK, InOrder, [Next]_vars
    PROVE  InOrder'
<1>0. /\ today \in Nat /\ now \in Nat /\ now <= today
      /\ fetched \subseteq Nat /\ pushed \subseteq fetched /\ queue \subseteq fetched
      /\ retained \in Int
  BY PushAssumption DEF PushTypeOK, Days, None
<1>a. MayFail /\ at = "push" => ~TwoToPush
  <2> SUFFICES ASSUME MayFail, at = "push", TwoToPush PROVE FALSE
    OBVIOUS
  <2>1. Cardinality(ToPush) < 2 /\ Cardinality(ToPush) >= 2
    BY TwoCount DEF MayFail, ToPush
  <2>2. Cardinality(ToPush) \in Nat
    <3>1. IsFiniteSet(Days)
      BY PushAssumption, FS_Interval DEF Days
    <3>2. ToPush \subseteq Days
      BY DEF PushTypeOK, ToPush
    <3> QED
      BY <3>1, <3>2, FS_Subset, FS_CardinalityType
  <2> QED
    BY <2>1, <2>2
<1>b. ASSUME UNCHANGED <<fetched, pushed, now, at, queue, retained>>, cloudUp' => cloudUp
      PROVE  InOrder'
  BY <1>b DEF InOrder, ToPush, TwoToPush, RetainedIsLatest
<1>1. CASE Tick
  <2>1. /\ now' = today /\ UNCHANGED <<fetched, pushed, retained, cloudUp>>
        /\ \/ at' = "fetch" /\ today + 1 \notin fetched
           \/ at' = "push" /\ queue' = fetched
    BY <1>1 DEF Tick, linkVars
  <2>2. \A d \in fetched : d <= today + 1
    BY <1>0 DEF InOrder
  <2> QED
    BY <2>1, <2>2 DEF InOrder, ToPush, TwoToPush, RetainedIsLatest
<1>2. CASE FetchSucceeds
  <2>1. /\ at = "fetch" /\ at' = "push"
        /\ fetched' = fetched \cup {now + 1} /\ queue' = fetched'
        /\ UNCHANGED <<pushed, now, retained>>
    BY <1>2 DEF FetchSucceeds
  <2>2. \A e \in pushed : e < now + 1
    BY <1>0, <2>1 DEF InOrder
  <2>3. \A e \in pushed', d \in ToPush' : e < d
    BY <2>1, <2>2 DEF InOrder, ToPush
  <2>4. \A d \in fetched' : d <= now' + 1
    BY <1>0, <2>1 DEF InOrder
  <2> QED
    BY <2>1, <2>3, <2>4 DEF InOrder, ToPush, RetainedIsLatest
<1>3. CASE FetchFails
  <2>1. /\ at' = "push" /\ queue' = fetched
        /\ UNCHANGED <<fetched, pushed, now, retained>>
    BY <1>3 DEF FetchFails
  <2> QED
    BY <2>1 DEF InOrder, ToPush, RetainedIsLatest
<1>4. CASE SkipPushed
  <2>1. PICK d \in pushed : queue' = queue \ {d}
    BY <1>4 DEF SkipPushed
  <2>2. UNCHANGED <<fetched, pushed, at, now, retained, cloudUp>>
    BY <1>4 DEF SkipPushed, linkVars
  <2> QED
    BY <2>1, <2>2 DEF InOrder, ToPush, TwoToPush, RetainedIsLatest
<1>5. CASE Publish
  <2>1. PICK d \in fetched \ pushed :
           /\ First(d) /\ queue' = queue \ {d} /\ pushed' = pushed \cup {d}
           /\ retained' = d
    BY <1>5 DEF Publish, Broker
  <2>2. at = "push" /\ cloudUp /\ UNCHANGED <<fetched, at, now>>
    BY <1>5 DEF Publish
  <2>3. ToPush' = ToPush \ {d} /\ d \in ToPush
    BY <2>1, <2>2 DEF ToPush
  <2>4. ASSUME NEW f \in ToPush' PROVE d < f /\ f \in queue
    <3>1. f \in ToPush /\ f # d /\ TwoToPush
      BY <2>3, <2>4 DEF TwoToPush
    <3>2. f \in queue
      BY <2>2, <3>1 DEF InOrder
    <3> QED
      BY <1>0, <2>1, <3>1, <3>2 DEF First
  <2>5. \A e \in pushed', f \in ToPush' : e < f
    BY <2>1, <2>3, <2>4 DEF InOrder
  <2>6. ToPush' \subseteq queue'
    BY <2>1, <2>3, <2>4
  <2>7. \A e \in pushed' : e <= retained'
    BY <1>0, <2>1, <2>3 DEF InOrder
  <2> QED
    BY <2>1, <2>2, <2>5, <2>6, <2>7 DEF InOrder, RetainedIsLatest
<1>6. CASE PublishRefused
  <2>1. ~cloudUp' /\ UNCHANGED <<fetched, pushed, at, now, retained>>
    BY <1>6 DEF PublishRefused, linkVars
  <2> QED
    BY <2>1 DEF InOrder, ToPush, RetainedIsLatest
<1>7. CASE PublishFails
  <2>1. PICK d \in fetched \ pushed : retained' \in {d, retained}
    BY <1>7 DEF PublishFails, Broker
  <2>2. MayFail /\ at = "push" /\ UNCHANGED <<fetched, pushed, at, now>>
    BY <1>7 DEF PublishFails
  <2>3. ~TwoToPush'
    BY <1>a, <2>2 DEF TwoToPush, ToPush
  <2>4. \A e \in pushed' : e <= retained'
    BY <1>0, <2>1, <2>2 DEF InOrder, ToPush, RetainedIsLatest
  <2> QED
    BY <2>2, <2>3, <2>4 DEF InOrder, ToPush, RetainedIsLatest
<1>8. CASE Forget
  <2>1. /\ fetched' = {d \in fetched : d >= now} /\ pushed' = {d \in pushed : d >= now}
        /\ at' = "sleep" /\ UNCHANGED <<now, retained>>
    BY <1>8 DEF Forget
  <2>2. ToPush' \subseteq ToPush
    BY <2>1 DEF ToPush
  <2> QED
    BY <2>1, <2>2 DEF InOrder, RetainedIsLatest
<1>9. CASE CloudRestarts
  <2>1. fetched' = {} /\ pushed' = {} /\ at' = "sleep"
    BY <1>9 DEF CloudRestarts
  <2> QED
    BY <2>1 DEF InOrder, ToPush, RetainedIsLatest
<1>10. CASE CloudConnects
  <2>1. MayFail /\ UNCHANGED <<fetched, pushed, now, at, queue, retained>>
    BY <1>10 DEF CloudConnects, loopVars
  <2>2. at = "push" => ~TwoToPush'
    BY <1>a, <2>1 DEF TwoToPush, ToPush
  <2> QED
    BY <2>1, <2>2 DEF InOrder, ToPush, RetainedIsLatest
<1>11. CASE CloudCut
  <2>1. ~cloudUp' /\ UNCHANGED <<fetched, pushed, now, at, queue, retained>>
    BY <1>11 DEF CloudCut, loopVars
  <2> QED
    BY <1>b, <2>1
<1>12. CASE \/ RetryDelayOver \/ EdgeConnects \/ EdgeCut \/ Afternoon \/ Midnight
            \/ UNCHANGED vars
  <2>1. UNCHANGED <<fetched, pushed, now, at, queue, retained, cloudUp>>
    BY <1>12 DEF RetryDelayOver, EdgeConnects, EdgeCut, Afternoon, Midnight, vars,
       loopVars, linkVars
  <2> QED
    BY <1>b, <2>1
<1> QED
  BY <1>1, <1>2, <1>3, <1>4, <1>5, <1>6, <1>7, <1>8, <1>9, <1>10, <1>11, <1>12
     DEF Next, Loop

(* main.py:123-127 (_publish_market): a device that connects is sent the    *)
(* latest curve that was pushed, as long as no push fails, and the link     *)
(* stays as it is, while two dates are to be pushed; MarketPush_back shows  *)
(* what becomes of it otherwise.                                            *)
THEOREM LatestIsRetained ==
    ASSUME FailsHalfWay = FALSE
    PROVE  Spec => []RetainedIsLatest
<1>1. Init => PushTypeOK /\ InOrder
  BY InitType, InitInOrder
<1>2. PushTypeOK /\ InOrder /\ [Next]_vars => (PushTypeOK /\ InOrder)'
  BY NextType, NextInOrder
<1>3. InOrder => RetainedIsLatest
  BY DEF InOrder
<1> QED
  BY <1>1, <1>2, <1>3, PTL DEF Spec

-----------------------------------------------------------------------------
(* What the edge has                                                        *)

(* edge/src/main.py:558-560 (_apply_market_push): what the broker retains, a*)
(* connected edge has taken, unless its day is over.                        *)
RetainedIsTaken == edgeUp /\ retained >= today => retained \in edgeHas

(* main.py:175-177: the safety half of TomorrowReachesEdge.  A curve that   *)
(* the loop has marked as pushed it does not push again, so a connected     *)
(* edge must have it by then, whichever of the two sides was offline when.  *)
PushedTomorrowIsTaken == today + 1 \in pushed /\ edgeUp => today + 1 \in edgeHas

(* No curve is fetched earlier than on the day before its own, by a clock   *)
(* that the loop has read some time ago.                                    *)
NoneTooEarly ==
    /\ \A d \in fetched : d <= now + 1
    /\ retained <= today + 1

EdgeInv == PushTypeOK /\ RetainedIsTaken /\ NoneTooEarly

LEMMA InitEdgeInv == Init => EdgeInv
<1>1. Init => RetainedIsTaken /\ NoneTooEarly
  BY DEF Init, RetainedIsTaken, NoneTooEarly, None
<1> QED
  BY <1>1, InitType DEF EdgeInv

(* Once the edge is connected, what the broker sends it is taken.           *)
LEMMA BrokerSends ==
    ASSUME PushTypeOK, NEW d \in Days, Broker(d), UNCHANGED <<today, edgeUp>>
    PROVE  RetainedIsTaken'
BY DEF Broker, Taken, RetainedIsTaken

LEMMA NextEdgeInv == EdgeInv /\ [Next]_vars => EdgeInv'
<1> SUFFICES ASSUME EdgeInv, [Next]_vars PROVE RetainedIsTaken' /\ NoneTooEarly'
  BY NextType DEF EdgeInv
<1>0. /\ PushTypeOK /\ RetainedIsTaken /\ NoneTooEarly
      /\ today \in Nat /\ now \in Nat /\ now <= today
      /\ fetched \subseteq Days /\ Days \subseteq Nat /\ retained \in Int
  BY PushAssumption DEF EdgeInv, PushTypeOK, Days, None
<1>a. ASSUME UNCHANGED <<today, edgeUp, retained, edgeHas>> PROVE RetainedIsTaken'
  BY <1>0, <1>a DEF RetainedIsTaken
<1>1. CASE Tick
  <2>1. /\ now' = today
        /\ UNCHANGED <<today, edgeUp, retained, edgeHas, fetched>>
    BY <1>1 DEF Tick, linkVars
  <2> QED
    BY <1>0, <1>a, <2>1 DEF NoneTooEarly
<1>2. CASE FetchSucceeds
  <2>1. /\ fetched' = fetched \cup {now + 1}
        /\ UNCHANGED <<today, edgeUp, retained, edgeHas, now>>
    BY <1>2 DEF FetchSucceeds, linkVars
  <2> QED
    BY <1>0, <1>a, <2>1 DEF NoneTooEarly
<1>3. CASE Publish \/ PublishFails
  <2>1. PICK d \in fetched : Broker(d) \/ UNCHANGED <<retained, edgeHas>>
    BY <1>3 DEF Publish, PublishFails
  <2>2. UNCHANGED <<today, edgeUp, fetched, now>>
    BY <1>3 DEF Publish, PublishFails, linkVars
  <2>3. d \in Days /\ d <= today + 1
    BY <1>0, <2>1 DEF NoneTooEarly
  <2>4. NoneTooEarly'
    BY <1>0, <2>1, <2>2, <2>3 DEF NoneTooEarly, Broker
  <2> QED
    BY <1>0, <1>a, <2>1, <2>2, <2>3, <2>4, BrokerSends
<1>4. CASE Forget \/ CloudRestarts
  <2>1. fetched' \subseteq fetched /\ UNCHANGED <<today, edgeUp, retained, edgeHas, now>>
    BY <1>4 DEF Forget, CloudRestarts, linkVars
  <2> QED
    BY <1>0, <1>a, <2>1 DEF NoneTooEarly
<1>5. CASE EdgeConnects
  <2>1. /\ edgeHas' = IF retained = None THEN edgeHas ELSE Taken(retained)
        /\ UNCHANGED <<today, retained, fetched, now>>
    BY <1>5 DEF EdgeConnects, loopVars
  <2> QED
    BY <1>0, <2>1 DEF RetainedIsTaken, NoneTooEarly, Taken, None
<1>6. CASE EdgeCut
  <2>1. ~edgeUp' /\ UNCHANGED <<today, retained, fetched, now>>
    BY <1>6 DEF EdgeCut, loopVars
  <2> QED
    BY <1>0, <2>1 DEF RetainedIsTaken, NoneTooEarly
<1>7. CASE Midnight
  <2>1. /\ today' = today + 1
        /\ UNCHANGED <<edgeUp, retained, edgeHas, fetched, now>>
    BY <1>7 DEF Midnight, loopVars, linkVars
  <2> QED
    BY <1>0, <2>1 DEF RetainedIsTaken, NoneTooEarly
<1>8. CASE \/ FetchFails \/ SkipPushed \/ PublishRefused \/ CloudConnects \/ CloudCut
           \/ RetryDelayOver \/ Afternoon \/ UNCHANGED vars
  <2>1. UNCHANGED <<today, edgeUp, retained, edgeHas, fetched, now>>
    BY <1>8 DEF FetchFails, SkipPushed, PublishRefused, CloudConnects, CloudCut,
       RetryDelayOver, Afternoon, vars, loopVars, linkVars
  <2> QED
    BY <1>0, <1>a, <2>1 DEF NoneTooEarly
<1> QED
  BY <1>1, <1>2, <1>3, <1>4, <1>5, <1>6, <1>7, <1>8 DEF Next, Loop

(* edge/src/main.py:558-560 (_apply_market_push): a connected device has    *)
(* the curve that the broker retains, over any cuts of either link, a       *)
(* publish whose outcome was unknown, restarts of the cloud and midnights.  *)
THEOREM RetainedReachesEdge == Spec => []RetainedIsTaken
<1>1. EdgeInv => RetainedIsTaken
  BY DEF EdgeInv
<1> QED
  BY <1>1, InitEdgeInv, NextEdgeInv, PTL DEF Spec

(* main.py:175-177: tomorrow's curve, once the loop has marked it as        *)
(* pushed, is with every connected device, as long as nothing fails while   *)
(* two dates are to be pushed; otherwise yesterday's can be retained over   *)
(* it, and the loop never looks at it again.                                *)
THEOREM PushedTomorrowReachesEdge ==
    ASSUME FailsHalfWay = FALSE
    PROVE  Spec => []PushedTomorrowIsTaken
<1>1. EdgeInv /\ RetainedIsLatest => PushedTomorrowIsTaken
  <2> SUFFICES ASSUME EdgeInv, RetainedIsLatest, today + 1 \in pushed, edgeUp
               PROVE  today + 1 \in edgeHas
    BY DEF PushedTomorrowIsTaken
  <2>1. today \in Nat /\ retained \in Int
    BY PushAssumption DEF EdgeInv, PushTypeOK, Days, None
  <2>2. retained = today + 1
    BY <2>1 DEF EdgeInv, NoneTooEarly, RetainedIsLatest
  <2> QED
    BY <2>1, <2>2 DEF EdgeInv, RetainedIsTaken
<1>2. Spec => []EdgeInv
  BY InitEdgeInv, NextEdgeInv, PTL DEF Spec
<1> QED
  BY <1>1, <1>2, LatestIsRetained, PTL
=============================================================================

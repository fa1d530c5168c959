------------------------ MODULE ForwardProjectionProofs ------------------------
(***************************************************************************)
(* What ForwardProjection guarantees for every horizon and near term.  The *)
(* pass decides on a schedule that it read some awaits ago: LookedUp says  *)
(* how long what it read remains true, which is what the device's own      *)
(* schedule owes its life to.  ProjectInv follows a projection through the *)
(* deletions and writes that make it anew.                                 *)
(***************************************************************************)
EXTENDS ForwardProjection, TLAPS

-----------------------------------------------------------------------------
(* The type invariant                                                       *)

(* The basis of a projection is chosen anew for every day.                  *)
BasisInv == at \in {"off", "look", "prices", "schedule"} => basis = "cloud"

IndInv == ForwardTypeOK /\ BasisInv

LEMMA InitIndInv == Init => IndInv
<1> SUFFICES ASSUME Init PROVE IndInv
  OBVIOUS
<1>1. 0 \in 0 .. LastDay /\ 0 \in 0 .. Horizon /\ 0 \in 0 .. MaxTroubles
  BY ForwardAssumption
<1>2. kept = FALSE
  BY DEF Init
<1> QED
  BY <1>1, <1>2 DEF Init, IndInv, ForwardTypeOK, BasisInv, Steps

(* Behind the last look of a day the day is within the horizon.             *)
LEMMA DayInHand ==
    ASSUME ForwardTypeOK, offset < Horizon
    PROVE  /\ d0 \in Days /\ offset + 1 \in 0 .. Horizon /\ offset \in Nat
           /\ plan[d0] \in {None, "edge", "oree", "fallback"}
           /\ fc[d0] \in {None, "part", "mixed", "edge", "cloud"}
BY ForwardAssumption DEF ForwardTypeOK, d0, Days

LEMMA CallCounts ==
    ASSUME NEW ok \in BOOLEAN, Call(ok), ForwardTypeOK
    PROVE  /\ troubles' \in 0 .. MaxTroubles
           /\ troubles' = 0 => ok /\ troubles = 0
BY ForwardAssumption DEF Call, ForwardTypeOK

LEMMA NextIndInv == IndInv /\ [Next]_vars => IndInv'
<1> SUFFICES ASSUME IndInv, [Next]_vars PROVE IndInv'
  OBVIOUS
<1> USE DEF IndInv, ForwardTypeOK, BasisInv, Steps
<1>0. /\ LastDay \in Nat /\ MaxTroubles \in Nat
      /\ Horizon \in Nat \ {0} /\ NearTerm \in 0 .. Horizon
  BY ForwardAssumption
<1>1. CASE StartPass
  BY <1>0, <1>1 DEF StartPass
<1>2. CASE Look
  <2>1. PICK ok \in BOOLEAN :
           /\ Call(ok) /\ found' \in Lookup(ok)
           /\ kept' \in {~Rebuilt} \cup (IF ok THEN {} ELSE {FALSE})
           /\ \/ NextOffset
              \/ at' = "prices" /\ misled' = ~ok /\ UNCHANGED <<offset, basis>>
    BY <1>2 DEF Look
  <2>2. /\ at = "look" /\ offset < Horizon
        /\ UNCHANGED <<now, plan, price, fc, today, source>>
    BY <1>2 DEF Look
  <2>3. found' \in {None, "edge", "oree", "fallback", "unknown"}
    BY <2>1, <2>2, DayInHand DEF Lookup
  <2>4. kept' \in BOOLEAN
    BY <2>1 DEF Rebuilt, near
  <2>5. troubles' \in 0 .. MaxTroubles
    BY <2>1, CallCounts
  <2>6. /\ offset' \in 0 .. Horizon /\ at' \in {"look", "prices"}
        /\ at' = "prices" => offset' < Horizon
        /\ basis' = "cloud" /\ misled' \in BOOLEAN
    BY <2>1, <2>2, DayInHand DEF NextOffset
  <2> QED
    BY <2>2, <2>3, <2>4, <2>5, <2>6
<1>3. CASE PassDone
  BY <1>3 DEF PassDone, locals
<1>4. CASE RealPrices
  BY <1>4 DEF RealPrices
<1>5. CASE StaticPrices
  <2>1. troubles' \in 0 .. MaxTroubles
    BY <1>5, CallCounts DEF StaticPrices
  <2> QED
    BY <1>5, <2>1 DEF StaticPrices
<1>6. CASE Schedule
  <2>1. PICK ok \in BOOLEAN :
           Call(ok)
           /\ basis' = IF ok /\ near /\ found = "edge" THEN "edge" ELSE "cloud"
    BY <1>6 DEF Schedule
  <2>2. troubles' \in 0 .. MaxTroubles
    BY <2>1, CallCounts
  <2>3. basis' \in {"edge", "cloud"} /\ (basis' = "edge" => near /\ found = "edge")
    BY <2>1
  <2>4. /\ at = "schedule" /\ at' \in {"storePrices", "clear"}
        /\ UNCHANGED <<now, plan, price, fc, today, offset, found, kept, source, misled>>
    BY <1>6 DEF Schedule
  <2> QED
    BY <2>2, <2>3, <2>4 DEF near
<1>7. CASE StorePrices
  <2>1. PICK ok \in BOOLEAN : Call(ok)
    BY <1>7 DEF StorePrices
  <2>2. price' \in {price, [price EXCEPT ![d0] = source]}
    BY <1>7 DEF StorePrices
  <2>3. price' \in [Days -> {None, "oree", "fallback"}]
    BY <2>2
  <2>4. troubles' \in 0 .. MaxTroubles
    BY <2>1, CallCounts
  <2> QED
    BY <1>7, <2>3, <2>4 DEF StorePrices, locals
<1>8. CASE StorePlan
  <2>1. PICK ok \in BOOLEAN : Call(ok)
    BY <1>8 DEF StorePlan
  <2>2. plan' \in {plan, [plan EXCEPT ![d0] = source]}
    BY <1>8 DEF StorePlan
  <2>3. plan' \in [Days -> {None, "edge", "oree", "fallback"}]
    BY <2>2
  <2>4. troubles' \in 0 .. MaxTroubles
    BY <2>1, CallCounts
  <2>5. at = "storePlan" /\ UNCHANGED <<now, price, fc, today, found, kept, source>>
    BY <1>8 DEF StorePlan
  <2>6. NextOffset \/ (at' = "clear" /\ UNCHANGED <<offset, basis, misled>>)
    BY <1>8 DEF StorePlan
  <2>7. offset' \in 0 .. Horizon /\ misled' \in BOOLEAN
    BY <2>5, <2>6, DayInHand DEF NextOffset
  <2> QED
    BY <2>3, <2>4, <2>5, <2>6, <2>7 DEF NextOffset
<1>9. CASE Clear
  <2>1. PICK ok \in BOOLEAN : Call(ok)
    BY <1>9 DEF Clear
  <2>2. \E new \in {None, "mixed"} : fc' = [fc EXCEPT ![d0] = new]
    BY <1>9 DEF Clear
  <2>3. fc' \in [Days -> {None, "part", "mixed", "edge", "cloud"}]
    BY <2>2
  <2>4. troubles' \in 0 .. MaxTroubles
    BY <2>1, CallCounts
  <2> QED
    BY <1>9, <2>3, <2>4 DEF Clear, locals
<1>10. CASE ReplayBegins
  <2>1. PICK ok \in BOOLEAN : Call(ok)
    BY <1>10 DEF ReplayBegins
  <2>2. fc' \in {fc, [fc EXCEPT ![d0] = "part"]}
    BY <1>10 DEF ReplayBegins
  <2>3. fc' \in [Days -> {None, "part", "mixed", "edge", "cloud"}]
    BY <2>2
  <2>4. troubles' \in 0 .. MaxTroubles
    BY <2>1, CallCounts
  <2> QED
    BY <1>10, <2>3, <2>4 DEF ReplayBegins, locals
<1>11. CASE ReplayEnds
  <2>1. PICK ok \in BOOLEAN : Call(ok)
    BY <1>11 DEF ReplayEnds
  <2>2. \/ fc' = fc
        \/ \E new \in {basis, "part"} : fc' = [fc EXCEPT ![d0] = new]
    BY <1>11 DEF ReplayEnds
  <2>3. fc' \in [Days -> {None, "part", "mixed", "edge", "cloud"}]
    BY <2>2
  <2>4. troubles' \in 0 .. MaxTroubles
    BY <2>1, CallCounts
  <2>5. /\ at = "rest" /\ NextOffset
        /\ UNCHANGED <<now, plan, price, today, found, kept, source>>
    BY <1>11 DEF ReplayEnds
  <2>6. offset' \in 0 .. Horizon /\ misled' = FALSE
    BY <2>5, DayInHand DEF NextOffset
  <2> QED
    BY <2>3, <2>4, <2>5, <2>6 DEF NextOffset
<1>12. CASE Abort
  <2>1. troubles' \in 0 .. MaxTroubles
    BY <1>0, <1>12 DEF Abort
  <2>2. at' \in Steps /\ offset' \in 0 .. Horizon /\ basis' \in {"edge", "cloud"}
    BY <1>0, <1>12 DEF Abort
  <2>3. /\ at' = "off" /\ basis' = "cloud" /\ misled' = FALSE
        /\ UNCHANGED <<now, plan, price, fc, today, found, kept, source>>
    BY <1>12 DEF Abort
  <2> QED
    BY <2>1, <2>2, <2>3
<1>13. CASE EdgeSchedule
  <2>1. \E d : plan' = [plan EXCEPT ![d] = "edge"]
    BY <1>13 DEF EdgeSchedule
  <2>2. plan' \in [Days -> {None, "edge", "oree", "fallback"}]
    BY <2>1
  <2> QED
    BY <1>13, <2>2 DEF EdgeSchedule, locals
<1>14. CASE Clock
  BY <1>0, <1>14 DEF Clock, locals
<1>15. CASE UNCHANGED vars
  BY <1>15 DEF vars, locals
<1> QED
  BY <1>1, <1>2, <1>3, <1>4, <1>5, <1>6, <1>7, <1>8, <1>9, <1>10, <1>11, <1>12,
     <1>13, <1>14, <1>15 DEF Next, Pass

(* The type of the database's contents and of _ensure_forward's locals; in  *)
(* particular it never writes outside of the horizon it was asked for.      *)
THEOREM ForwardTypeCorrect == Spec => []ForwardTypeOK
<1>1. Spec => []IndInv
  BY InitIndInv, NextIndInv, PTL DEF Spec
<1>2. IndInv => ForwardTypeOK
  BY DEF IndInv
<1> QED
  BY <1>1, <1>2, PTL

-----------------------------------------------------------------------------
(* The device's own schedule                                                *)

(* Unless the lookup has failed, or the device has published its schedule   *)
(* of the day in hand meanwhile, what the pass found is what is stored; and *)
(* it comes to write a schedule only where it found none or one to upgrade. *)
LookedUp ==
    /\ at \in {"prices", "schedule", "storePrices", "storePlan"} =>
          misled \/ found = plan[d0]
    /\ at \in {"storePrices", "storePlan"} =>
          found = None \/ NeedsUpgrade(found)

LEMMA InitLookedUp == Init => LookedUp
BY DEF Init, LookedUp

LEMMA NextLookedUp == IndInv /\ LookedUp /\ [Next]_vars => LookedUp'
<1> SUFFICES ASSUME IndInv, LookedUp, [Next]_vars PROVE LookedUp'
  OBVIOUS
<1>0. ForwardTypeOK
  BY DEF IndInv
<1>1. CASE StartPass
  BY <1>1 DEF StartPass, LookedUp
<1>2. CASE Look
  <2>1. PICK ok \in BOOLEAN :
           /\ found' \in Lookup(ok)
           /\ \/ NextOffset
              \/ at' = "prices" /\ misled' = ~ok /\ UNCHANGED <<offset, basis>>
    BY <1>2 DEF Look
  <2>2. CASE NextOffset
    BY <2>2 DEF NextOffset, LookedUp
  <2>3. CASE at' = "prices" /\ misled' = ~ok /\ UNCHANGED <<offset, basis>>
    <3>1. plan[d0]' = plan[d0]
      BY <1>2, <2>3 DEF Look, d0
    <3>2. misled' \/ found' = plan[d0]
      BY <2>1, <2>3 DEF Lookup
    <3> QED
      BY <2>3, <3>1, <3>2 DEF LookedUp
  <2> QED
    BY <2>1, <2>2, <2>3
<1>3. CASE PassDone
  BY <1>3 DEF PassDone, LookedUp
<1>4. CASE RealPrices \/ StaticPrices
  BY <1>4 DEF RealPrices, StaticPrices, LookedUp, d0
<1>5. CASE Schedule
  <2>1. /\ at = "schedule" /\ at' \in {"storePrices", "clear"}
        /\ at' = "storePrices" => found = None \/ UpgradedNow
        /\ UNCHANGED <<plan, today, offset, found, misled>>
    BY <1>5 DEF Schedule
  <2> QED
    BY <2>1 DEF LookedUp, UpgradedNow, NeedsUpgrade, near, d0
<1>6. CASE StorePrices
  BY <1>6 DEF StorePrices, LookedUp, NeedsUpgrade, near, d0, locals
<1>7. CASE StorePlan
  BY <1>7 DEF StorePlan, NextOffset, LookedUp
<1>8. CASE Clear
  BY <1>8 DEF Clear, LookedUp
<1>9. CASE ReplayBegins
  BY <1>9 DEF ReplayBegins, LookedUp
<1>10. CASE ReplayEnds
  BY <1>10 DEF ReplayEnds, NextOffset, LookedUp
<1>11. CASE Abort
  BY <1>11 DEF Abort, LookedUp
<1>12. CASE EdgeSchedule
  <2>1. PICK d : /\ plan' = [plan EXCEPT ![d] = "edge"]
                 /\ misled' = (misled \/ (at \notin {"off", "look"} /\ d = d0))
    BY <1>12 DEF EdgeSchedule
  <2>2. UNCHANGED <<at, today, offset, found>>
    BY <1>12 DEF EdgeSchedule, locals
  <2>3. at \notin {"off", "look"} => misled' \/ (plan'[d0] = plan[d0] /\ misled' = misled)
    BY <1>0, <2>1, DayInHand DEF ForwardTypeOK
  <2> QED
    BY <2>2, <2>3 DEF LookedUp, NeedsUpgrade, near, d0
<1>13. CASE Clock \/ UNCHANGED vars
  BY <1>13 DEF Clock, vars, locals, LookedUp, NeedsUpgrade, near, d0
<1> QED
  BY <1>1, <1>2, <1>3, <1>4, <1>5, <1>6, <1>7, <1>8, <1>9, <1>10, <1>11, <1>12,
     <1>13 DEF Next, Pass

LEMMA StepKeepsEdgePlan ==
    ASSUME IndInv, LookedUp, [Next]_vars,
           NEW d \in Days, plan[d] = "edge", ~(misled /\ d = d0)
    PROVE  plan'[d] = "edge"
<1>0. ForwardTypeOK
  BY DEF IndInv
<1>1. CASE StorePlan
  <2>1. plan' = plan \/ plan' = [plan EXCEPT ![d0] = source]
    BY <1>1 DEF StorePlan
  <2>2. misled \/ plan[d0] # "edge"
    BY <1>1 DEF StorePlan, LookedUp, NeedsUpgrade, None
  <2> QED
    BY <1>0, <2>1, <2>2 DEF ForwardTypeOK
<1>2. CASE EdgeSchedule
  <2>1. \E e : plan' = [plan EXCEPT ![e] = "edge"]
    BY <1>2 DEF EdgeSchedule
  <2> QED
    BY <1>0, <2>1 DEF ForwardTypeOK
<1>3. CASE ~StorePlan /\ ~EdgeSchedule
  BY <1>3 DEF Next, Pass, StartPass, Look, PassDone, RealPrices, StaticPrices, Schedule,
     StorePrices, Clear, ReplayBegins, ReplayEnds, Abort, Clock, vars
<1> QED
  BY <1>1, <1>2, <1>3

(* influx_writer.py:131-134: the cloud overwrites the schedule that the     *)
(* device published in two ways only, a lookup of that very day that has    *)
(* just failed and a schedule that comes in between lookup and write; no    *)
(* other failed call, abandoned pass, midnight or publication costs it.     *)
THEOREM EdgePlanIsKept == Spec => EdgePlanStays
<1>1. Spec => [](IndInv /\ LookedUp)
  <2>1. Init => IndInv /\ LookedUp
    BY InitIndInv, InitLookedUp
  <2>2. IndInv /\ LookedUp /\ [Next]_vars => (IndInv /\ LookedUp)'
    BY NextIndInv, NextLookedUp
  <2> QED
    BY <2>1, <2>2, PTL DEF Spec
<1>2. IndInv /\ LookedUp /\ [Next]_vars =>
         [\A d \in Days :
             plan[d] = "edge" /\ ~(misled /\ d = d0) => plan'[d] = "edge"]_vars
  BY StepKeepsEdgePlan
<1> QED
  BY <1>1, <1>2, PTL DEF Spec, EdgePlanStays

-----------------------------------------------------------------------------
(* The projection                                                           *)

(* history.py:263-266: the safety half of NoBlankDay.  As long as nothing   *)
(* has failed, every day that the pass is through with has a schedule and a *)
(* complete projection, also while the edge publishes and midnight passes.  *)
DaysBehindAreProjected ==
    at # "off" /\ troubles = 0 =>
        \A d \in today .. d0 - 1 : plan[d] # None /\ fc[d] \in {"edge", "cloud"}

(* history.py:317-319: the safety half of ForecastFollowsPlan.  A           *)
(* projection that follows the device's schedule has it to be compared      *)
(* with: that schedule is the one stored.                                   *)
ProjectionHasItsPlan ==
    troubles = 0 => \A d \in Days : fc[d] = "edge" => plan[d] = "edge"

(* When nothing has failed: only the projection in hand is incomplete, and  *)
(* it goes through its stages one by one; and only the day in hand can have *)
(* had its schedule decided upon before the device's came, in which case no *)
(* projection follows the latter.                                           *)
ProjectInv ==
    troubles = 0 =>
        /\ \A d \in Days : /\ fc[d] = "part" => at = "rest" /\ d = d0
                           /\ fc[d] # "mixed"
        /\ at = "rest" => fc[d0] = "part"
        /\ at = "replay" => fc[d0] = None
        /\ at \in {"prices", "schedule", "storePrices", "storePlan", "clear",
                   "replay", "rest"} =>
              /\ found # "edge" => fc[d0] # "edge"
              /\ found = "edge" => plan[d0] = "edge"
              /\ found # None => plan[d0] # None
        /\ at \in {"prices", "schedule", "storePrices", "storePlan"} =>
              (kept => fc[d0] # None)
        /\ at \in {"storePrices", "storePlan"} => found # "edge"
        /\ at \in {"schedule", "storePrices", "storePlan"} => source # None
        /\ at \in {"clear", "replay", "rest"} => plan[d0] # None

ForwardInv ==
    /\ IndInv
    /\ ProjectInv
    /\ DaysBehindAreProjected
    /\ ProjectionHasItsPlan

LEMMA InitForwardInv == Init => ForwardInv
<1>1. Init => ProjectInv /\ DaysBehindAreProjected /\ ProjectionHasItsPlan
  BY DEF Init, ProjectInv, DaysBehindAreProjected, ProjectionHasItsPlan, None
<1> QED
  BY <1>1, InitIndInv DEF ForwardInv

(* The days behind, and the day in hand that is about to join them.         *)
LEMMA DayIsDone ==
    ASSUME ForwardTypeOK, NextOffset, UNCHANGED today
    PROVE  \A d \in today' .. d0' - 1 : d = d0 \/ d \in today .. d0 - 1
BY ForwardAssumption DEF ForwardTypeOK, NextOffset, d0

(* The days behind are others than the day in hand.                         *)
LEMMA DaysBehindAreOthers ==
    ASSUME ForwardTypeOK
    PROVE  \A d \in today .. d0 - 1 : d \in Days /\ d # d0
BY ForwardAssumption DEF ForwardTypeOK, d0, Days

(* A step that leaves the schedules and the projections alone.              *)
LEMMA NothingIsWritten ==
    ASSUME ForwardInv, troubles = 0, UNCHANGED <<plan, fc, today, offset>>,
           at # "off", at' # "off", at' # "rest"
    PROVE  DaysBehindAreProjected' /\ ProjectionHasItsPlan'
<1>1. d0' = d0
  BY DEF d0
<1> QED
  BY <1>1 DEF ForwardInv, DaysBehindAreProjected, ProjectionHasItsPlan

LEMMA NextForwardInv == ForwardInv /\ [Next]_vars => ForwardInv'
<1> SUFFICES ASSUME ForwardInv, [Next]_vars, troubles' = 0
             PROVE  ProjectInv' /\ DaysBehindAreProjected' /\ ProjectionHasItsPlan'
  BY NextIndInv DEF ForwardInv, ProjectInv, DaysBehindAreProjected, ProjectionHasItsPlan
<1>0. /\ ForwardTypeOK /\ troubles \in Nat /\ today \in Nat /\ offset \in Nat
      /\ plan \in [Days -> {None, "edge", "oree", "fallback"}]
      /\ fc \in [Days -> {None, "part", "mixed", "edge", "cloud"}]
      /\ ProjectInv /\ DaysBehindAreProjected /\ ProjectionHasItsPlan
  BY ForwardAssumption DEF ForwardInv, IndInv, ForwardTypeOK
<1>a. ASSUME NEW ok \in BOOLEAN, Call(ok) PROVE ok /\ troubles = 0
  BY <1>0, <1>a, CallCounts
<1>b. at \notin {"off", "look"} => d0 \in Days
  BY <1>0, DayInHand DEF ForwardTypeOK
<1>c. UNCHANGED <<today, offset>> => d0' = d0
  BY DEF d0
<1>1. CASE StartPass
  <2>1. /\ troubles = 0 /\ at = "off" /\ at' = "look" /\ today' = now /\ offset' = 0
        /\ UNCHANGED <<plan, fc>>
    BY <1>1 DEF StartPass
  <2>2. today' .. d0' - 1 = {}
    BY <1>0, <2>1 DEF d0, ForwardTypeOK
  <2> QED
    BY <1>0, <2>1, <2>2 DEF ProjectInv, DaysBehindAreProjected, ProjectionHasItsPlan
<1>2. CASE Look
  <2>1. PICK ok \in BOOLEAN :
           /\ Call(ok) /\ found' \in Lookup(ok)
           /\ kept' \in {~Rebuilt} \cup (IF ok THEN {} ELSE {FALSE})
    BY <1>2 DEF Look
  <2>2. /\ troubles = 0 /\ at = "look" /\ found' = plan[d0] /\ kept' = ~Rebuilt
        /\ UNCHANGED <<plan, fc, today>>
    BY <1>2, <1>a, <2>1 DEF Look, Lookup
  <2>3. d0 \in Days /\ (kept' => fc[d0] # None)
    BY <1>0, <1>2, <2>2, DayInHand DEF Look, Rebuilt
  <2>4. fc[d0] \notin {"part", "mixed"} /\ (fc[d0] = "edge" => plan[d0] = "edge")
    BY <1>0, <2>2, <2>3 DEF ProjectInv, ProjectionHasItsPlan
  <2>5. CASE found' # None /\ kept' /\ NextOffset
    <3>1. at' = "look" /\ plan[d0] # None /\ fc[d0] \in {"edge", "cloud"}
      BY <1>0, <2>2, <2>3, <2>4, <2>5 DEF NextOffset
    <3>2. \A d \in today' .. d0' - 1 : d = d0 \/ d \in today .. d0 - 1
      BY <1>0, <2>2, <2>5, DayIsDone
    <3> QED
      BY <1>0, <2>2, <3>1, <3>2
      DEF ProjectInv, DaysBehindAreProjected, ProjectionHasItsPlan
  <2>6. CASE at' = "prices" /\ UNCHANGED <<offset, basis>>
    <3>1. d0' = d0
      BY <1>c, <2>2, <2>6
    <3>2. ProjectInv'
      BY <1>0, <2>2, <2>3, <2>4, <2>6, <3>1 DEF ProjectInv
    <3> QED
      BY <2>2, <2>6, <3>2, NothingIsWritten
  <2> QED
    BY <1>2, <2>5, <2>6 DEF Look
<1>3. CASE PassDone
  <2>1. troubles = 0 /\ at = "look" /\ at' = "off" /\ UNCHANGED <<plan, fc>>
    BY <1>3 DEF PassDone
  <2> QED
    BY <1>0, <2>1 DEF ProjectInv, DaysBehindAreProjected, ProjectionHasItsPlan
<1>4. CASE RealPrices \/ StaticPrices
  <2>1. troubles = 0
    BY <1>4, <1>a DEF RealPrices, StaticPrices
  <2>2. /\ at = "prices" /\ at' = "schedule" /\ source' \in {"oree", "fallback"}
        /\ UNCHANGED <<plan, fc, today, offset, found, kept>>
    BY <1>4 DEF RealPrices, StaticPrices
  <2>3. ProjectInv'
    BY <1>0, <1>c, <2>1, <2>2 DEF ProjectInv, None
  <2> QED
    BY <2>1, <2>2, <2>3, NothingIsWritten
<1>5. CASE Schedule
  <2>1. PICK ok \in BOOLEAN : Call(ok)
    BY <1>5 DEF Schedule
  <2>2. troubles = 0
    BY <1>a, <2>1
  <2>3. /\ at = "schedule"
        /\ \/ at' = "storePrices" /\ (found = None \/ UpgradedNow)
           \/ at' = "clear" /\ found # None
        /\ UNCHANGED <<plan, fc, today, offset, found, kept, source>>
    BY <1>5 DEF Schedule
  <2>4. at' = "storePrices" => found # "edge"
    BY <2>3 DEF UpgradedNow, NeedsUpgrade, None
  <2>5. ProjectInv'
    BY <1>0, <1>c, <2>2, <2>3, <2>4 DEF ProjectInv
  <2> QED
    BY <2>2, <2>3, <2>5, NothingIsWritten
<1>6. CASE StorePrices
  <2>1. PICK ok \in BOOLEAN : Call(ok)
    BY <1>6 DEF StorePrices
  <2>2. /\ troubles = 0 /\ at = "storePrices" /\ at' = "storePlan"
        /\ UNCHANGED <<plan, fc, today, offset, found, kept, source>>
    BY <1>6, <1>a, <2>1 DEF StorePrices, locals
  <2>3. ProjectInv'
    BY <1>0, <1>c, <2>2 DEF ProjectInv
  <2> QED
    BY <2>2, <2>3, NothingIsWritten
<1>7. CASE StorePlan
  <2>1. PICK ok \in BOOLEAN :
           Call(ok) /\ plan' = IF ok THEN [plan EXCEPT ![d0] = source] ELSE plan
    BY <1>7 DEF StorePlan
  <2>2. /\ troubles = 0 /\ at = "storePlan" /\ plan' = [plan EXCEPT ![d0] = source]
        /\ UNCHANGED <<fc, today, found, kept, source>>
    BY <1>7, <1>a, <2>1 DEF StorePlan
  <2>3. /\ d0 \in Days /\ plan'[d0] # None /\ fc[d0] \notin {"part", "mixed", "edge"}
        /\ found # "edge" /\ (kept => fc[d0] # None)
        /\ \A d \in Days \ {d0} : plan'[d] = plan[d]
    BY <1>0, <1>b, <2>2 DEF ProjectInv
  <2>4. ProjectionHasItsPlan'
    BY <1>0, <2>2, <2>3 DEF ProjectionHasItsPlan
  <2>5. CASE kept /\ NextOffset
    <3>1. at' = "look" /\ fc[d0] = "cloud"
      BY <1>0, <2>3, <2>5 DEF NextOffset
    <3>2. \A d \in today' .. d0' - 1 : d = d0 \/ d \in today .. d0 - 1
      BY <1>0, <2>2, <2>5, DayIsDone
    <3>3. \A d \in today .. d0 - 1 : d \in Days /\ d # d0
      BY <1>0, DaysBehindAreOthers
    <3>4. DaysBehindAreProjected'
      BY <1>0, <2>2, <2>3, <3>1, <3>2, <3>3 DEF DaysBehindAreProjected
    <3> QED
      BY <1>0, <2>2, <2>4, <3>1, <3>4 DEF ProjectInv
  <2>6. CASE at' = "clear" /\ UNCHANGED <<offset, basis>>
    <3>1. d0' = d0
      BY <1>c, <2>2, <2>6
    <3>2. \A d \in today .. d0 - 1 : d \in Days /\ d # d0
      BY <1>0, DaysBehindAreOthers
    <3>3. DaysBehindAreProjected'
      BY <1>0, <2>2, <2>3, <2>6, <3>1, <3>2 DEF DaysBehindAreProjected
    <3> QED
      BY <1>0, <2>2, <2>3, <2>4, <2>6, <3>1, <3>3 DEF ProjectInv
  <2> QED
    BY <1>7, <2>5, <2>6 DEF StorePlan
<1>8. CASE Clear
  <2>1. PICK ok \in BOOLEAN :
           /\ Call(ok)
           /\ fc' = [fc EXCEPT ![d0] = IF ok \/ @ = None THEN None ELSE "mixed"]
    BY <1>8 DEF Clear
  <2>2. /\ troubles = 0 /\ at = "clear" /\ at' = "replay"
        /\ fc' = [fc EXCEPT ![d0] = None]
        /\ UNCHANGED <<plan, today, offset, found, kept, source>>
    BY <1>8, <1>a, <2>1 DEF Clear, locals
  <2>3. /\ d0 \in Days /\ d0' = d0 /\ fc'[d0] = None
        /\ \A d \in Days \ {d0} : fc'[d] = fc[d]
    BY <1>0, <1>b, <1>c, <2>2
  <2> QED
    BY <1>0, <2>2, <2>3, DaysBehindAreOthers
    DEF ProjectInv, DaysBehindAreProjected, ProjectionHasItsPlan, None
<1>9. CASE ReplayBegins
  <2>1. PICK ok \in BOOLEAN :
           /\ Call(ok)
           /\ fc' = IF ok /\ fc[d0] = None THEN [fc EXCEPT ![d0] = "part"] ELSE fc
    BY <1>9 DEF ReplayBegins
  <2>2. /\ troubles = 0 /\ at = "replay" /\ at' = "rest"
        /\ fc' = [fc EXCEPT ![d0] = "part"]
        /\ UNCHANGED <<plan, today, offset, found, kept, source>>
    BY <1>0, <1>9, <1>a, <2>1 DEF ReplayBegins, locals, ProjectInv
  <2>3. /\ d0 \in Days /\ d0' = d0 /\ fc'[d0] = "part"
        /\ \A d \in Days \ {d0} : fc'[d] = fc[d]
    BY <1>0, <1>b, <1>c, <2>2
  <2> QED
    BY <1>0, <2>2, <2>3, DaysBehindAreOthers
    DEF ProjectInv, DaysBehindAreProjected, ProjectionHasItsPlan, None
<1>10. CASE ReplayEnds
  <2>1. PICK ok \in BOOLEAN :
           /\ Call(ok)
           /\ fc' = IF ok /\ fc[d0] \in {None, "part"}
                    THEN [fc EXCEPT ![d0] = IF @ = None THEN "part" ELSE basis]
                    ELSE fc
    BY <1>10 DEF ReplayEnds
  <2>2. troubles = 0 /\ at = "rest" /\ NextOffset /\ UNCHANGED <<plan, today>>
    BY <1>10, <1>a, <2>1 DEF ReplayEnds
  <2>3. /\ d0 \in Days /\ fc' = [fc EXCEPT ![d0] = basis]
        /\ plan[d0] # None /\ basis \in {"edge", "cloud"}
        /\ basis = "edge" => plan[d0] = "edge"
    BY <1>0, <1>a, <1>b, <2>1, <2>2 DEF None, ProjectInv, ForwardTypeOK
  <2>4. fc'[d0] = basis /\ \A d \in Days \ {d0} : fc'[d] = fc[d]
    BY <1>0, <2>3
  <2>5. \A d \in today' .. d0' - 1 : d = d0 \/ d \in today .. d0 - 1
    BY <1>0, <2>2, DayIsDone
  <2>6. at' = "look"
    BY <2>2 DEF NextOffset
  <2>7. DaysBehindAreProjected'
    BY <1>0, <2>2, <2>3, <2>4, <2>5, DaysBehindAreOthers DEF DaysBehindAreProjected
  <2> QED
    BY <1>0, <2>2, <2>3, <2>4, <2>6, <2>7 DEF ProjectInv, ProjectionHasItsPlan
<1>11. CASE Abort
  BY <1>0, <1>11 DEF Abort
<1>12. CASE EdgeSchedule
  <2>1. PICK d : plan' = [plan EXCEPT ![d] = "edge"]
    BY <1>12 DEF EdgeSchedule
  <2>2. UNCHANGED <<fc, at, today, offset, found, kept, source, troubles>>
    BY <1>12 DEF EdgeSchedule, locals
  <2>3. \A e \in Days : plan'[e] \in {plan[e], "edge"}
    BY <1>0, <2>1
  <2>4. ProjectInv'
    BY <1>0, <1>b, <1>c, <2>2, <2>3 DEF ProjectInv, None
  <2>5. DaysBehindAreProjected'
    BY <1>0, <1>c, <2>2, <2>3, DaysBehindAreOthers DEF DaysBehindAreProjected, None
  <2> QED
    BY <1>0, <2>2, <2>3, <2>4, <2>5 DEF ProjectionHasItsPlan
<1>13. CASE Clock \/ UNCHANGED vars
  <2>1. UNCHANGED <<plan, fc, at, today, offset, found, kept, source, troubles>>
    BY <1>13 DEF Clock, vars, locals
  <2> QED
    BY <1>0, <1>c, <2>1
    DEF ProjectInv, DaysBehindAreProjected, ProjectionHasItsPlan
<1> QED
  BY <1>1, <1>2, <1>3, <1>4, <1>5, <1>6, <1>7, <1>8, <1>9, <1>10, <1>11, <1>12,
     <1>13 DEF Next, Pass

(* history.py:263-266: when a pass is through, and nothing has failed so    *)
(* far, no day of its horizon is without a schedule or a projection.        *)
THEOREM PassLeavesNoBlankDay == Spec => []DaysBehindAreProjected
<1>1. ForwardInv => DaysBehindAreProjected
  BY DEF ForwardInv
<1> QED
  BY <1>1, InitForwardInv, NextForwardInv, PTL DEF Spec

(* history.py:317-319: a projection said to follow the device's schedule    *)
(* can be compared with it, also when that comes in while the pass has its  *)
(* day in hand and is overwritten.                                          *)
THEOREM ProjectionsHaveTheirPlans == Spec => []ProjectionHasItsPlan
<1>1. ForwardInv => ProjectionHasItsPlan
  BY DEF ForwardInv
<1> QED
  BY <1>1, InitForwardInv, NextForwardInv, PTL DEF Spec

-----------------------------------------------------------------------------
(* A pass after earlier ones have failed                                    *)

(* History: the pass in hand, or the last one, has gone smoothly since it   *)
(* began.                                                                   *)
VARIABLE smooth

historyVars == <<vars, smooth>>

Begins == at = "off" /\ at' = "look"

Recorded == smooth' = (troubles' = troubles /\ (Begins \/ smooth))

HistorySpec == Init /\ smooth = FALSE /\ [][Next /\ Recorded]_historyVars

(* A day has a schedule and a projection; and a day of the near term has a  *)
(* complete one, the device's only if that is what is stored, and its       *)
(* schedule is not the static curve's when real prices are stored.          *)
InOrder(d) ==
    /\ plan[d] # None /\ fc[d] # None
    /\ d < today + NearTerm =>
          /\ fc[d] \notin {"part", "mixed"}
          /\ fc[d] = "edge" => plan[d] = "edge"
          /\ plan[d] = "fallback" => price[d] # "oree"

(* history.py:263-266, 282-289, 317-319: the safety half of NoBlankDay,     *)
(* UpgradeEventually and ForecastFollowsPlan after troubles.  Whatever      *)
(* earlier passes have left, a smooth one puts every day it is through with *)
(* in order, also when the device's schedules come in between.              *)
SmoothPassOrders == smooth => \A d \in today .. d0 - 1 : InOrder(d)

(* The same, with what the pass knows of its day in hand.                   *)
SmoothInv ==
    smooth =>
        /\ \A d \in today .. d0 - 1 : InOrder(d)
        /\ at \notin {"off", "look"} =>
              /\ found # "unknown"
              /\ found = "edge" => plan[d0] = "edge"
              /\ found # None => plan[d0] # None
        /\ at \in {"prices", "schedule"} => plan[d0] \in {found, "edge"}
        /\ at \in {"prices", "schedule", "storePrices", "storePlan"} =>
              (kept => ~near /\ fc[d0] # None)
        /\ at \in {"schedule", "storePrices", "storePlan"} =>
              source # None /\ (source = "fallback" => price[d0] # "oree")
        /\ at \in {"storePrices", "storePlan"} => found # "edge"
        /\ at \in {"clear", "replay", "rest"} =>
              /\ plan[d0] # None
              /\ near /\ plan[d0] = "fallback" => price[d0] # "oree"
        /\ at = "replay" => fc[d0] = None
        /\ at = "rest" => fc[d0] = "part"

LEMMA SmoothCall ==
    ASSUME ForwardTypeOK, NEW ok \in BOOLEAN, Call(ok), troubles' = troubles
    PROVE  ok
BY ForwardAssumption DEF Call, ForwardTypeOK

(* A step that writes to the day in hand only, and stays with it.           *)
LEMMA SameDays ==
    ASSUME ForwardTypeOK, \A d \in today .. d0 - 1 : InOrder(d),
           UNCHANGED <<today, offset>>,
           \A d \in Days \ {d0} :
              plan'[d] \in {plan[d], "edge"} /\ fc'[d] = fc[d] /\ price'[d] = price[d]
    PROVE  /\ d0' = d0 /\ near' = near
           /\ \A d \in today' .. d0' - 1 : InOrder(d)'
<1>1. d0' = d0 /\ near' = near
  BY DEF d0, near
<1>2. \A d \in today .. d0 - 1 : d \in Days /\ d # d0
  BY DaysBehindAreOthers
<1> QED
  BY <1>1, <1>2 DEF InOrder, None

(* A step that goes on from the day in hand, which is in order then.        *)
LEMMA OneDayMore ==
    ASSUME ForwardTypeOK, \A d \in today .. d0 - 1 : InOrder(d), NextOffset,
           UNCHANGED today,
           \A d \in Days \ {d0} : plan'[d] = plan[d] /\ fc'[d] = fc[d] /\ price'[d] = price[d],
           plan'[d0] # None, fc'[d0] # None,
           near => /\ fc'[d0] \notin {"part", "mixed"}
                   /\ fc'[d0] = "edge" => plan'[d0] = "edge"
                   /\ plan'[d0] = "fallback" => price'[d0] # "oree"
    PROVE  \A d \in today' .. d0' - 1 : InOrder(d)'
<1>1. \A d \in today' .. d0' - 1 : d = d0 \/ d \in today .. d0 - 1
  BY DayIsDone
<1>2. \A d \in today .. d0 - 1 : d \in Days /\ d # d0
  BY DaysBehindAreOthers
<1>3. \A d \in today .. d0 - 1 : InOrder(d)'
  BY <1>2 DEF InOrder
<1>4. near <=> d0 < today + NearTerm
  BY ForwardAssumption DEF ForwardTypeOK, near, d0
<1>5. /\ plan'[d0] # None /\ fc'[d0] # None
      /\ d0 < today' + NearTerm =>
            /\ fc'[d0] \notin {"part", "mixed"}
            /\ fc'[d0] = "edge" => plan'[d0] = "edge"
            /\ plan'[d0] = "fallback" => price'[d0] # "oree"
  BY <1>4
<1>6. ASSUME NEW d, d = d0 PROVE InOrder(d)'
  BY <1>5, <1>6 DEF InOrder
<1> QED
  BY <1>1, <1>3, <1>6

LEMMA NextSmooth ==
    IndInv /\ SmoothInv /\ [Next /\ Recorded]_historyVars => SmoothInv'
<1> SUFFICES ASSUME IndInv, SmoothInv, [Next /\ Recorded]_historyVars, smooth'
             PROVE  SmoothInv'
  BY DEF SmoothInv
<1>0. /\ ForwardTypeOK /\ today \in Nat /\ offset \in Nat
      /\ plan \in [Days -> {None, "edge", "oree", "fallback"}]
      /\ price \in [Days -> {None, "oree", "fallback"}]
      /\ fc \in [Days -> {None, "part", "mixed", "edge", "cloud"}]
      /\ source \in {None, "oree", "fallback"}
      /\ found \in {None, "edge", "oree", "fallback", "unknown"}
      /\ at \notin {"off", "look"} => d0 \in Days
  BY ForwardAssumption, DayInHand DEF IndInv, ForwardTypeOK
<1>a. ASSUME NEW ok \in BOOLEAN, Call(ok), troubles' = troubles PROVE ok
  BY <1>0, <1>a, SmoothCall
<1>1. CASE UNCHANGED historyVars
  BY <1>1 DEF historyVars, vars, locals, SmoothInv, InOrder, d0, near
<1>2. CASE StartPass /\ Recorded
  <2>1. /\ at' = "look" /\ today' = now /\ offset' = 0
    BY <1>2 DEF StartPass
  <2>2. today' .. d0' - 1 = {}
    BY <1>0, <2>1 DEF d0, ForwardTypeOK
  <2> QED
    BY <2>1, <2>2 DEF SmoothInv
<1>3. CASE Next /\ Recorded /\ ~StartPass
  <2>1. ~Begins
    BY <1>3
    DEF Begins, Next, Pass, Look, PassDone, RealPrices, StaticPrices, Schedule,
        StorePrices, StorePlan, Clear, ReplayBegins, ReplayEnds, Abort, EdgeSchedule,
        Clock, NextOffset
  <2>2. smooth /\ troubles' = troubles /\ \A d \in today .. d0 - 1 : InOrder(d)
    BY <1>3, <2>1 DEF Recorded, SmoothInv
  <2>3. CASE Look
    <3>1. PICK ok \in BOOLEAN :
             /\ Call(ok) /\ found' \in Lookup(ok)
             /\ kept' \in {~Rebuilt} \cup (IF ok THEN {} ELSE {FALSE})
      BY <2>3 DEF Look
    <3>2. /\ at = "look" /\ found' = plan[d0] /\ kept' = ~Rebuilt
          /\ UNCHANGED <<plan, price, fc, today>>
      BY <1>a, <2>2, <2>3, <3>1 DEF Look, Lookup
    <3>3. d0 \in Days /\ (kept' => ~near /\ fc[d0] # None)
      BY <1>0, <2>3, <3>2, DayInHand DEF Look, Rebuilt
    <3>4. CASE found' # None /\ kept' /\ NextOffset
      <4>1. \A d \in today' .. d0' - 1 : InOrder(d)'
        BY <1>0, <2>2, <3>2, <3>3, <3>4, OneDayMore
      <4> QED
        BY <3>4, <4>1 DEF NextOffset, SmoothInv
    <3>5. CASE at' = "prices" /\ UNCHANGED <<offset, basis>>
      <4>1. /\ d0' = d0 /\ near' = near
            /\ \A d \in today' .. d0' - 1 : InOrder(d)'
        BY <1>0, <2>2, <3>2, <3>5, SameDays
      <4>2. found' # "unknown"
        BY <1>0, <3>2, <3>3 DEF None
      <4> QED
        BY <3>2, <3>3, <3>5, <4>1, <4>2 DEF SmoothInv
    <3> QED
      BY <2>3, <3>4, <3>5 DEF Look
  <2>4. CASE PassDone
    <3>1. at' = "off" /\ UNCHANGED <<plan, price, fc, today, offset>>
      BY <2>4 DEF PassDone, locals
    <3> QED
      BY <1>0, <2>2, <3>1, SameDays DEF SmoothInv
  <2>5. CASE RealPrices \/ StaticPrices
    <3>1. /\ at = "prices" /\ at' = "schedule"
          /\ UNCHANGED <<plan, price, fc, today, offset, found, kept>>
          /\ source' \in {"oree", "fallback"}
      BY <2>5 DEF RealPrices, StaticPrices
    <3>2. source' = "fallback" => price[d0] # "oree"
      BY <1>a, <2>2, <2>5 DEF RealPrices, StaticPrices
    <3>3. /\ d0' = d0 /\ near' = near
          /\ \A d \in today' .. d0' - 1 : InOrder(d)'
      BY <1>0, <2>2, <3>1, SameDays
    <3> QED
      BY <2>2, <3>1, <3>2, <3>3 DEF SmoothInv, None
  <2>6. CASE Schedule
    <3>1. /\ at = "schedule"
          /\ \/ at' = "storePrices" /\ (found = None \/ UpgradedNow)
             \/ at' = "clear" /\ found # None /\ ~UpgradedNow
          /\ UNCHANGED <<plan, price, fc, today, offset, found, kept, source>>
      BY <2>6 DEF Schedule
    <3>2. /\ d0' = d0 /\ near' = near
          /\ \A d \in today' .. d0' - 1 : InOrder(d)'
      BY <1>0, <2>2, <3>1, SameDays
    <3>3. at' = "storePrices" => found # "edge"
      BY <3>1 DEF UpgradedNow, NeedsUpgrade, None
    <3>4. /\ source # None /\ (source = "fallback" => price[d0] # "oree")
          /\ plan[d0] \in {found, "edge"} /\ found # "unknown"
          /\ (found = "edge" => plan[d0] = "edge") /\ (found # None => plan[d0] # None)
          /\ kept => ~near /\ fc[d0] # None
      BY <2>2, <3>1 DEF SmoothInv
    <3>5. at' = "clear" /\ near /\ plan[d0] = "fallback" => price[d0] # "oree"
      BY <1>0, <3>1, <3>4 DEF UpgradedNow, NeedsUpgrade
    <3> QED
      BY <3>1, <3>2, <3>3, <3>4, <3>5 DEF SmoothInv
  <2>7. CASE StorePrices
    <3>1. /\ at = "storePrices" /\ at' = "storePlan"
          /\ UNCHANGED <<plan, fc, today, offset, found, kept, source>>
          /\ price' = price \/ price' = [price EXCEPT ![d0] = source]
      BY <2>7 DEF StorePrices, locals
    <3>2. /\ d0' = d0 /\ near' = near
          /\ \A d \in today' .. d0' - 1 : InOrder(d)'
      BY <1>0, <2>2, <3>1, SameDays
    <3>3. price'[d0] \in {price[d0], source}
      BY <1>0, <3>1
    <3> QED
      BY <2>2, <3>1, <3>2, <3>3 DEF SmoothInv
  <2>8. CASE StorePlan
    <3>1. PICK ok \in BOOLEAN :
             Call(ok) /\ plan' = IF ok THEN [plan EXCEPT ![d0] = source] ELSE plan
      BY <2>8 DEF StorePlan
    <3>2. /\ at = "storePlan" /\ plan' = [plan EXCEPT ![d0] = source]
          /\ UNCHANGED <<price, fc, today, found, kept, source>>
      BY <1>a, <2>2, <2>8, <3>1 DEF StorePlan
    <3>3. d0 \in Days /\ plan'[d0] = source /\ \A d \in Days \ {d0} : plan'[d] = plan[d]
      BY <1>0, <3>2
    <3>4. /\ source # None /\ (source = "fallback" => price[d0] # "oree")
          /\ found # "edge" /\ found # "unknown"
          /\ kept => ~near /\ fc[d0] # None
      BY <2>2, <3>2 DEF SmoothInv
    <3>5. CASE kept /\ NextOffset
      <4>1. \A d \in today' .. d0' - 1 : InOrder(d)'
        BY <1>0, <2>2, <3>2, <3>3, <3>4, <3>5, OneDayMore
      <4> QED
        BY <3>5, <4>1 DEF NextOffset, SmoothInv
    <3>6. CASE at' = "clear" /\ UNCHANGED <<offset, basis>>
      <4>1. /\ d0' = d0 /\ near' = near
            /\ \A d \in today' .. d0' - 1 : InOrder(d)'
        BY <1>0, <2>2, <3>2, <3>3, <3>6, SameDays
      <4> QED
        BY <3>2, <3>3, <3>4, <3>6, <4>1 DEF SmoothInv
    <3> QED
      BY <2>8, <3>5, <3>6 DEF StorePlan
  <2>9. CASE Clear
    <3>1. /\ at = "clear" /\ at' = "replay"
          /\ UNCHANGED <<plan, price, today, offset, found, kept, source>>
          /\ fc' = [fc EXCEPT ![d0] = None]
      BY <1>a, <2>2, <2>9 DEF Clear, locals
    <3>2. fc'[d0] = None /\ \A d \in Days \ {d0} : fc'[d] = fc[d]
      BY <1>0, <3>1
    <3>3. /\ d0' = d0 /\ near' = near
          /\ \A d \in today' .. d0' - 1 : InOrder(d)'
      BY <1>0, <2>2, <3>1, <3>2, SameDays
    <3> QED
      BY <2>2, <3>1, <3>2, <3>3 DEF SmoothInv
  <2>10. CASE ReplayBegins
    <3>1. PICK ok \in BOOLEAN :
             /\ Call(ok)
             /\ fc' = IF ok /\ fc[d0] = None THEN [fc EXCEPT ![d0] = "part"] ELSE fc
      BY <2>10 DEF ReplayBegins
    <3>2. /\ at = "replay" /\ at' = "rest"
          /\ UNCHANGED <<plan, price, today, offset, found, kept, source>>
          /\ fc' = [fc EXCEPT ![d0] = "part"]
      BY <1>a, <2>2, <2>10, <3>1 DEF ReplayBegins, locals, SmoothInv
    <3>3. fc'[d0] = "part" /\ \A d \in Days \ {d0} : fc'[d] = fc[d]
      BY <1>0, <3>2
    <3>4. /\ d0' = d0 /\ near' = near
          /\ \A d \in today' .. d0' - 1 : InOrder(d)'
      BY <1>0, <2>2, <3>2, <3>3, SameDays
    <3> QED
      BY <2>2, <3>2, <3>3, <3>4 DEF SmoothInv
  <2>11. CASE ReplayEnds
    <3>1. PICK ok \in BOOLEAN :
             /\ Call(ok)
             /\ fc' = IF ok /\ fc[d0] \in {None, "part"}
                      THEN [fc EXCEPT ![d0] = IF @ = None THEN "part" ELSE basis]
                      ELSE fc
      BY <2>11 DEF ReplayEnds
    <3>2. at = "rest" /\ NextOffset /\ UNCHANGED <<plan, price, today>> /\ d0 \in Days
      BY <1>0, <2>11 DEF ReplayEnds
    <3>3. /\ fc[d0] = "part" /\ plan[d0] # None
          /\ near /\ plan[d0] = "fallback" => price[d0] # "oree"
          /\ found = "edge" => plan[d0] = "edge"
      BY <2>2, <3>2 DEF SmoothInv
    <3>4. basis \in {"edge", "cloud"} /\ (basis = "edge" => found = "edge")
      BY <1>0 DEF ForwardTypeOK
    <3>5. fc'[d0] = basis /\ \A d \in Days \ {d0} : fc'[d] = fc[d]
      BY <1>0, <1>a, <2>2, <3>1, <3>2, <3>3 DEF None
    <3>6. \A d \in today' .. d0' - 1 : InOrder(d)'
      BY <1>0, <2>2, <3>2, <3>3, <3>4, <3>5, OneDayMore DEF None
    <3> QED
      BY <3>2, <3>6 DEF NextOffset, SmoothInv
  <2>12. CASE Abort
    BY <1>0, <2>2, <2>12, ForwardAssumption DEF Abort, ForwardTypeOK
  <2>13. CASE EdgeSchedule
    <3>1. PICK d : plan' = [plan EXCEPT ![d] = "edge"]
      BY <2>13 DEF EdgeSchedule
    <3>2. UNCHANGED <<price, fc, at, today, offset, found, kept, source>>
      BY <2>13 DEF EdgeSchedule, locals
    <3>3. \A e \in Days : plan'[e] \in {plan[e], "edge"}
      BY <1>0, <3>1
    <3>4. /\ d0' = d0 /\ near' = near
          /\ \A e \in today' .. d0' - 1 : InOrder(e)'
      BY <1>0, <2>2, <3>2, <3>3, SameDays
    <3> QED
      BY <1>0, <2>2, <3>2, <3>3, <3>4 DEF SmoothInv, None
  <2>14. CASE Clock
    <3>1. UNCHANGED <<plan, price, fc, at, today, offset, found, kept, source>>
      BY <2>14 DEF Clock, locals
    <3>2. /\ d0' = d0 /\ near' = near
          /\ \A e \in today' .. d0' - 1 : InOrder(e)'
      BY <1>0, <2>2, <3>1, SameDays
    <3> QED
      BY <2>2, <3>1, <3>2 DEF SmoothInv
  <2> QED
    BY <1>3, <2>3, <2>4, <2>5, <2>6, <2>7, <2>8, <2>9, <2>10, <2>11, <2>12, <2>13, <2>14
    DEF Next, Pass
<1> QED
  BY <1>1, <1>2, <1>3

(* The history variable is only a record: what it is added to is the        *)
(* specification itself.                                                    *)
LEMMA HistoryIsSpec == HistorySpec => Spec
<1>1. [Next /\ Recorded]_historyVars => [Next]_vars
  BY DEF historyVars
<1> QED
  BY <1>1, PTL DEF HistorySpec, Spec

(* history.py:263-266, 282-289, 317-319: one smooth pass puts the days of   *)
(* its horizon in order, whatever was abandoned or failed before it.        *)
THEOREM SmoothPassPutsInOrder == HistorySpec => []SmoothPassOrders
<1>1. SmoothInv => SmoothPassOrders
  BY DEF SmoothInv, SmoothPassOrders
<1>2. smooth = FALSE => SmoothInv
  BY DEF SmoothInv
<1>3. Spec => []IndInv
  BY InitIndInv, NextIndInv, PTL DEF Spec
<1> QED
  BY <1>1, <1>2, <1>3, HistoryIsSpec, NextSmooth, PTL DEF HistorySpec
=============================================================================

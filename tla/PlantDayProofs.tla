---------------------------- MODULE PlantDayProofs ----------------------------
(***************************************************************************)
(* What PlantDay guarantees for every pack, inverter, number of hours and  *)
(* of ticks in them.  PlanHolds needs OnPlan, which says what a plan on    *)
(* course is; DefaultNeverEmpties needs SaleCovered, which counts what a   *)
(* sale has taken so far.  Both rest on the type invariant, whose one      *)
(* difficult part is greedy's simulated pack: it is defined by recursion,  *)
(* so that it has a level in every hour is proved by induction (as the     *)
(* library's induction theorems take operators, through least numbers).    *)
(* The last part says when the solver's model has a solution: its caps are *)
(* sums over the hours, of which the same induction shows that they exist  *)
(* and can be taken in any order.                                          *)
(***************************************************************************)
EXTENDS PlantDay, FiniteSetTheorems, WellFoundedInduction, TLAPS

-----------------------------------------------------------------------------
(* Numbers                                                                  *)

(* Every non-empty set of numbers has a least one: induction without        *)
(* operators.                                                               *)
LEMMA LeastNumber ==
    ASSUME NEW S \in SUBSET Nat, S # {}
    PROVE  \E n \in S : \A m \in S : n <= m
<1> DEFINE R == OpToRel(<, Nat)
<1>0. IsWellFoundedOn(R, Nat)
  BY NatLessThanWellFounded
<1>1. \E x \in S : \A y \in S : ~ (<<y, x>> \in R)
  <2> HIDE DEF R
  <2> QED
    BY <1>0, WFMin
<1>2. R = {ss \in Nat \X Nat : ss[1] < ss[2]}
  BY Zenon DEF OpToRel
<1> HIDE DEF R
<1>3. PICK n \in S : \A m \in S : ~ (<<m, n>> \in R)
  BY <1>1
<1>4. \A m \in S : ~ (m < n)
  BY <1>2, <1>3
<1> QED
  BY <1>4

(* Products, which the provers only take one step at a time.                *)
LEMMA OneMoreTick == \A n, f \in Int : (n + 1) * f = n * f + f
  OBVIOUS

LEMMA OneTick == \A f \in Int : 1 * f = f
  OBVIOUS

(* What moves steadily from one point of an interval to another stays in    *)
(* it.                                                                      *)
LEMMA SteadyProgress ==
    ASSUME NEW t \in Nat, NEW n \in 0 .. t, NEW f \in Int,
           NEW lo \in Int, NEW hi \in Int, NEW a \in lo .. hi, a + t * f \in lo .. hi
    PROVE  a + n * f \in lo .. hi
<1>1. \A x, y \in Nat : x * y \in Nat
  OBVIOUS
<1>2. CASE f >= 0
  <2>1. n * f >= 0 /\ (t - n) * f >= 0
    BY <1>1, <1>2
  <2>2. (t - n) * f = t * f - n * f
    OBVIOUS
  <2> QED
    BY <2>1, <2>2
<1>3. CASE f < 0
  <2>1. n * (-f) >= 0 /\ (t - n) * (-f) >= 0
    BY <1>1, <1>3
  <2>2. (t - n) * (-f) = n * f - t * f /\ n * (-f) = -(n * f)
    OBVIOUS
  <2> QED
    BY <2>1, <2>2
<1> QED
  BY <1>2, <1>3

-----------------------------------------------------------------------------
(* Plans                                                                    *)

(* A share of what all ticks can move is what one can.                      *)
LEMMA WholeTicks ==
    ASSUME NEW t \in Nat \ {0}, NEW c \in Nat, NEW x \in Nat, x <= t * c
    PROVE  x \div t \in 0 .. c
OBVIOUS

(* A slot of greedy's has a power the inverter has.                         *)
LEMMA GreedySlotType ==
    ASSUME NEW prices, NEW start, NEW h, NEW level \in Int
    PROVE  /\ GreedySlot(prices, start, h, level).slot \in Actions
           /\ GreedySlot(prices, start, h, level).energy \in Int
<1> USE EmulatorAssumption, OptimizerAssumption
<1> DEFINE charged == TicksPerHour * ChargeStep
           drained == TicksPerHour * DrainStep
           room    == Smaller(charged, SocMax - level)
           avail   == Smaller(drained, level - SocMin)
<1>1. charged \in Nat /\ drained \in Nat
  OBVIOUS
<1>2. room \in Int /\ avail \in Int
  BY <1>1 DEF Smaller
<1>3. level < SocMax => room \in Nat /\ room <= charged
  BY <1>1 DEF Smaller
<1>4. level > SocMin => avail \in Nat /\ avail <= drained
  BY <1>1 DEF Smaller
<1>5. level < SocMax => Charge(room \div TicksPerHour) \in Actions
  <2>1. level < SocMax => room \div TicksPerHour \in 0 .. ChargeStep
    BY <1>3, WholeTicks
  <2> QED
    BY <2>1 DEF Charge, Do, Actions, Modes, Larger
<1>6. level > SocMin => Sell(avail \div TicksPerHour) \in Actions
  <2>1. level > SocMin => avail \div TicksPerHour \in 0 .. DrainStep
    BY <1>4, WholeTicks
  <2> QED
    BY <2>1 DEF Sell, Do, Actions, Modes, Larger
<1>7. SolarPriority \in Actions
  BY DEF SolarPriority, Do, Actions, Modes, Larger
<1> HIDE DEF room, avail
<1> DEFINE charge == [slot |-> Charge(room \div TicksPerHour), energy |-> room]
           sell   == [slot |-> Sell(avail \div TicksPerHour), energy |-> -avail]
           rest   == [slot |-> SolarPriority, energy |-> 0]
<1>8. \/ level < SocMax /\ GreedySlot(prices, start, h, level) = charge
      \/ level > SocMin /\ GreedySlot(prices, start, h, level) = sell
      \/ GreedySlot(prices, start, h, level) = rest
  BY DEF GreedySlot, room, avail
<1> QED
  BY <1>2, <1>5, <1>6, <1>7, <1>8

(* One more hour of greedy's simulated pack, and a course that follows it.  *)
Moved(prices, start, h, x) == x + GreedySlot(prices, start, h, x).energy

IsCourse(g, prices, start, level, n) ==
    \A h \in 0 .. n :
       g[h] = IF h = 0 THEN level ELSE Moved(prices, start, h - 1, g[h - 1])

(* A level stays a number from hour to hour.                                *)
LEMMA MovedType ==
    ASSUME NEW prices, NEW start, NEW h, NEW x \in Int
    PROVE  Moved(prices, start, h, x) \in Int
BY GreedySlotType DEF Moved

(* A course that is as long as wanted exists, by induction on its length:   *)
(* without it the recursive definition would say nothing.                   *)
LEMMA GreedyCourseExists ==
    ASSUME NEW prices, NEW start, NEW level \in Int, NEW n \in Nat
    PROVE  \E g \in [0 .. n -> Int] : IsCourse(g, prices, start, level, n)
<1> DEFINE Follows(g, m) == IsCourse(g, prices, start, level, m)
           Without == {m \in Nat : ~ \E g \in [0 .. m -> Int] : Follows(g, m)}
<1>1. Without = {}
  <2> SUFFICES ASSUME Without # {} PROVE FALSE
    OBVIOUS
  <2>1. PICK m \in Without : \A k \in Without : m <= k
    <3> Without \in SUBSET Nat
      OBVIOUS
    <3> HIDE DEF Without
    <3> QED
      BY LeastNumber
  <2>2. CASE m = 0
    <3> DEFINE g == [h \in 0 .. 0 |-> level]
    <3>1. g \in [0 .. 0 -> Int] /\ Follows(g, 0)
      BY DEF IsCourse
    <3> QED
      BY <2>2, <3>1
  <2>3. CASE m # 0
    <3>1. m - 1 \in Nat /\ m - 1 \notin Without
      <4>1. m \in Nat
        OBVIOUS
      <4> HIDE DEF Without
      <4> QED
        BY <2>1, <2>3, <4>1
    <3>2. PICK g \in [0 .. m - 1 -> Int] : Follows(g, m - 1)
      BY <3>1
    <3> DEFINE last == Moved(prices, start, m - 1, g[m - 1])
               g2   == [h \in 0 .. m |-> IF h < m THEN g[h] ELSE last]
    <3>3. last \in Int
      BY <3>1, <3>2, MovedType
    <3> HIDE DEF last
    <3>4. g2 \in [0 .. m -> Int]
      BY <3>2, <3>3
    <3>5. ASSUME NEW h \in 0 .. m
          PROVE  g2[h] = IF h = 0 THEN level ELSE Moved(prices, start, h - 1, g2[h - 1])
      <4>1. CASE h < m
        BY <2>3, <3>2, <4>1 DEF IsCourse
      <4>2. CASE h = m
        BY <2>3, <4>2 DEF last
      <4> QED
        BY <4>1, <4>2
    <3>6. Follows(g2, m)
      BY <3>5 DEF IsCourse
    <3> HIDE DEF g2, Follows
    <3> QED
      BY <3>4, <3>6
  <2> QED
    BY <2>2, <2>3
<1> QED
  BY <1>1

(* Greedy's simulated pack has a level in every hour.                       *)
LEMMA GreedyCourseType ==
    ASSUME NEW prices, NEW start, NEW level \in Int, NEW h \in 0 .. Hours
    PROVE  GreedyCourse(prices, start, level)[h] \in Int
<1> DEFINE Course(g) == g = [k \in 0 .. Hours |->
                               IF k = 0 THEN level
                               ELSE Moved(prices, start, k - 1, g[k - 1])]
           course == GreedyCourse(prices, start, level)
<1>1. course = CHOOSE g : Course(g)
  BY DEF GreedyCourse, Moved
<1>2. \E g : Course(g)
  <2>1. Hours \in Nat
    BY OptimizerAssumption
  <2>2. PICK g \in [0 .. Hours -> Int] : IsCourse(g, prices, start, level, Hours)
    BY <2>1, GreedyCourseExists
  <2>3. Course(g)
    BY <2>2 DEF IsCourse
  <2> QED
    BY <2>3
<1> HIDE DEF course
<1>3. Course(course)
  BY <1>1, <1>2
<1> DEFINE Untyped == {k \in 0 .. Hours : course[k] \notin Int}
<1>4. Untyped = {}
  <2> SUFFICES ASSUME Untyped # {} PROVE FALSE
    OBVIOUS
  <2>1. PICK m \in Untyped : \A k \in Untyped : m <= k
    <3> Untyped \in SUBSET Nat
      BY OptimizerAssumption
    <3> HIDE DEF Untyped
    <3> QED
      BY LeastNumber
  <2>2. CASE m = 0
    BY <1>3, <2>1, <2>2, OptimizerAssumption
  <2>3. CASE m # 0
    <3>0. m \in 0 .. Hours
      OBVIOUS
    <3>1. m - 1 \in 0 .. Hours /\ m - 1 \notin Untyped
      <4> HIDE DEF Untyped
      <4> QED
        BY <2>1, <2>3, <3>0, OptimizerAssumption
    <3>2. course[m] = Moved(prices, start, m - 1, course[m - 1])
      BY <1>3, <2>1, <2>3
    <3>3. course[m - 1] \in Int
      BY <3>1
    <3>4. course[m] \in Int
      <4> HIDE DEF Untyped
      <4>1. m - 1 \in Int
        BY <3>0, OptimizerAssumption
      <4>2. Moved(prices, start, m - 1, course[m - 1]) \in Int
        BY <3>3, <4>1, MovedType
      <4> QED
        BY <3>2, <4>2
    <3> QED
      BY <2>1, <3>4
  <2> QED
    BY <2>2, <2>3
<1> QED
  BY <1>4 DEF course

(* A flow within the power limits makes an action.                          *)
LEMMA SlotActionType ==
    ASSUME NEW f \in -DrainStep .. ChargeStep
    PROVE  SlotAction(f) \in Actions
BY EmulatorAssumption
   DEF SlotAction, Sell, Charge, Idle, Do, Actions, Modes, Larger

(* So do the rules of the default.                                          *)
LEMMA DefaultActionType ==
    ASSUME NEW h, NEW level, NEW known
    PROVE  DefaultAction(h, level, known) \in Actions
BY EmulatorAssumption, OptimizerAssumption
   DEF DefaultAction, Sell, Charge, SolarPriority, Do, Actions, Modes, Larger

(* A plan of the solver's.                                                  *)
LEMMA MilpPlanOK ==
    ASSUME NEW start \in Int, NEW level \in Int, NEW traj \in Feasible(start, level)
    PROVE  PlanOK(MilpPlan(traj))
<1> DEFINE p == MilpPlan(traj)
<1>1. p.method = "milp" /\ p.traj = traj
         /\ p.slots = [h \in Hour |-> SlotAction(Flow(traj, h))]
  BY DEF MilpPlan
<1>2. /\ traj \in [0 .. Hours -> SocMin .. SocMax]
      /\ traj[0] = SocInit(level) /\ Dynamics(traj, start)
      /\ traj[Hours] >= TerminalReserve(level)
  BY DEF Feasible
<1>3. Dynamics(traj, 0)
  BY <1>2, OptimizerAssumption DEF Dynamics, Hour
<1>4. TerminalReserve(traj[0]) = TerminalReserve(level)
  BY <1>2, EmulatorAssumption DEF TerminalReserve, SocInit, Clamp, Larger, Smaller
<1>5. \A h \in Hour : SlotAction(Flow(traj, h)) \in Actions
  BY <1>3, SlotActionType DEF Dynamics
<1> HIDE DEF p
<1>6. p.slots \in [Hour -> Actions] /\ \A h \in Hour : p.slots[h] = SlotAction(Flow(traj, h))
  BY <1>1, <1>5
<1>7. traj[Hours] >= TerminalReserve(traj[0])
  BY <1>2, <1>4
<1>8. PlanOK(p)
  BY <1>1, <1>2, <1>3, <1>6, <1>7 DEF PlanOK
<1> QED
  BY <1>8 DEF p

(* A plan of greedy's.                                                      *)
LEMMA GreedyPlanOK ==
    ASSUME NEW prices, NEW start, NEW level \in Int
    PROVE  PlanOK(GreedyPlan(prices, start, level))
<1>1. ASSUME NEW h \in Hour
      PROVE  GreedySlot(prices, start, h, GreedyCourse(prices, start, level)[h]).slot
                \in Actions
  BY GreedyCourseType, GreedySlotType, OptimizerAssumption DEF Hour
<1> QED
  BY <1>1 DEF PlanOK, GreedyPlan

(* Whatever the optimizer returns.                                          *)
LEMMA PlannedOK ==
    ASSUME NEW start \in Hour, NEW level \in 0 .. Full, NEW p \in Planned[start][level]
    PROVE  PlanOK(p) /\ p # NoPlan
<1>1. p \in PlansFor(start, level)
  BY DEF Planned
<1>2. start \in Int /\ level \in Int
  BY OptimizerAssumption DEF Hour
<1>3. PlanOK(p)
  BY <1>1, <1>2, MilpPlanOK, GreedyPlanOK DEF PlansFor
<1> QED
  BY <1>3 DEF PlanOK, NoPlan

-----------------------------------------------------------------------------
(* The emulator                                                             *)

(* What is in force is an action.                                           *)
LEMMA InForceType ==
    ASSUME EmulatorTypeOK
    PROVE  InForce \in Actions
BY EmulatorAssumption
   DEF EmulatorTypeOK, InForce, SolarPriority, Do, Actions, Modes, Larger

(* What it asks of the battery is a number.                                 *)
LEMMA SetPointType ==
    ASSUME NEW a \in Actions, NEW surplus \in Int, NEW up \in BOOLEAN
    PROVE  SetPoint(a, surplus, up) \in Int
BY EmulatorAssumption DEF SetPoint, Actions, Modes, Clamp, Smaller, Larger

(* A tick moves the pack by what it was asked, to no further than the ends  *)
(* of its window, and by what leaks.                                        *)
LEMMA TickLevel ==
    ASSUME soc \in 0 .. Full, NEW ask \in Int, NEW leak \in {0, 1}
    PROVE  /\ SocAfter(Limited(ask), leak) \in 0 .. Full
           /\ leak = 0 => /\ SocAfter(Limited(ask), leak) <= Larger(soc, SocMax)
                          /\ SocAfter(Limited(ask), leak) >= Smaller(soc, SocMin)
           /\ ask >= 0 => SocAfter(Limited(ask), leak) >= soc - leak
           /\ ask < 0 => SocAfter(Limited(ask), leak) >= soc + ask - leak
BY EmulatorAssumption DEF SocAfter, Limited, LowSoc, Clamp, Smaller, Larger

(* A tick of the emulator leaves its state well-typed.                      *)
LEMMA TickType ==
    ASSUME EmulatorTypeOK, NEW surplus \in Int, NEW leak \in {0, 1},
           NEW up \in BOOLEAN, EmulatorTick(surplus, leak, up)
    PROVE  EmulatorTypeOK'
<1> DEFINE ask == SetPoint(InForce, surplus, up)
<1>1. InForce \in Actions /\ ask \in Int
  BY InForceType, SetPointType
<1> HIDE DEF ask
<1>2. soc' \in 0 .. Full
  <2>1. soc' = SocAfter(Limited(ask), leak)
    BY DEF EmulatorTick, ask
  <2> QED
    BY <1>1, <2>1, TickLevel DEF EmulatorTypeOK
<1>3. action' \in Actions /\ hold' \in 0 .. MaxHold
  BY <1>1, EmulatorAssumption DEF EmulatorTick, SetMode, EmulatorTypeOK, Larger
<1>4. gridUp' \in BOOLEAN /\ faults' \subseteq Faults
  BY DEF EmulatorTick, EmulatorTypeOK, FaultsAfter, Faults
<1> QED
  BY <1>2, <1>3, <1>4 DEF EmulatorTypeOK

-----------------------------------------------------------------------------
(* Type correctness                                                         *)

(* Where a plan promises the pack to be is inside its window.               *)
LEMMA PromisedType ==
    ASSUME NEW p, PlanOK(p), p.method = "milp", NEW h \in 0 .. Hours,
           NEW n \in 0 .. TicksPerHour, h = Hours => n = 0
    PROVE  Promised(p, h, n) \in SocMin .. SocMax
<1> USE EmulatorAssumption, OptimizerAssumption
<1>1. p.traj \in [0 .. Hours -> SocMin .. SocMax] /\ Dynamics(p.traj, 0)
  BY DEF PlanOK
<1>2. CASE n = 0
  BY <1>1, <1>2 DEF Promised
<1>3. CASE n # 0
  <2>1. h \in Hour /\ h + 1 \in 0 .. Hours
    BY <1>3 DEF Hour
  <2>2. /\ p.traj[h] \in SocMin .. SocMax /\ p.traj[h + 1] \in SocMin .. SocMax
        /\ p.traj[h + 1] - p.traj[h] = TicksPerHour * Flow(p.traj, h)
        /\ Flow(p.traj, h) \in -DrainStep .. ChargeStep
    BY <1>1, <2>1 DEF Dynamics
  <2> DEFINE f == Flow(p.traj, h)
             a == p.traj[h]
  <2>3. f \in Int /\ a \in SocMin .. SocMax
    BY <2>2
  <2>4. a + TicksPerHour * f \in SocMin .. SocMax
    <3>1. \A x, y, z \in Int : y - x = z => x + z = y
      OBVIOUS
    <3>2. TicksPerHour * f \in Int
      BY <2>3
    <3> HIDE DEF f
    <3> QED
      BY <2>2, <3>1, <3>2 DEF f
  <2> HIDE DEF f, a
  <2>5. a + n * f \in SocMin .. SocMax
    BY <2>3, <2>4, SteadyProgress
  <2> QED
    BY <1>3, <2>5 DEF Promised, f, a
<1> QED
  BY <1>2, <1>3

(* How far off a plan begins is a number.                                   *)
LEMMA TrackType ==
    ASSUME NEW p, p # NoPlan => PlanOK(p), NEW h \in 0 .. Hours,
           NEW n \in 0 .. TicksPerHour, h = Hours => n = 0,
           soc \in 0 .. Full, Track(p, h, n)
    PROVE  adrift' \in BOOLEAN /\ slack' \in Nat
<1>1. CASE p = NoPlan \/ p.method # "milp"
  <2>1. adrift' = TRUE /\ slack' = 0
    BY <1>1, Zenon DEF Track
  <2> QED
    BY <2>1
<1>2. CASE ~ (p = NoPlan \/ p.method # "milp")
  <2>1. Promised(p, h, n) \in SocMin .. SocMax
    BY <1>2, PromisedType
  <2>2. Distance(Promised(p, h, n), soc) \in Nat
    BY <2>1, EmulatorAssumption DEF Distance
  <2>3. adrift' = FALSE /\ slack' = Distance(Promised(p, h, n), soc)
    BY <1>2 DEF Track
  <2> QED
    BY <2>2, <2>3
<1> QED
  BY <1>1, <1>2

(* The level plans are made for is one the pack can have.                   *)
LEMMA ReadingType ==
    ASSUME PlantTypeOK PROVE Reading \in 0 .. Full
BY EmulatorAssumption, OptimizerAssumption DEF PlantTypeOK, Reading, NoReading

(* What the schedule loop sets is an action.                                *)
LEMMA CurrentActionType ==
    ASSUME PlantTypeOK, DayRuns PROVE CurrentAction \in Actions
<1>1. hour \in Hour
  BY OptimizerAssumption DEF PlantTypeOK, DayRuns, Hour
<1>2. CASE plan = NoPlan
  BY <1>2, DefaultActionType DEF CurrentAction
<1>3. CASE plan # NoPlan
  BY <1>1, <1>3 DEF CurrentAction, PlantTypeOK, PlanOK
<1> QED
  BY <1>2, <1>3

(* Disturbances stay within their bound.                                    *)
LEMMA DisturbType ==
    ASSUME trouble \in 0 .. MaxTrouble, Disturb PROVE trouble' \in 0 .. MaxTrouble
BY PlantAssumption DEF Disturb

(* Types hold at first,                                                     *)
LEMMA TypeInit == Init => PlantTypeOK
<1> SUFFICES ASSUME Init PROVE PlantTypeOK
  OBVIOUS
<1> USE EmulatorAssumption, OptimizerAssumption, PlantAssumption
<1>1. PICK level \in SocMin - 1 .. SocMax :
         /\ EmulatorStart(level)
         /\ telem \in {level} \cup (IF level = InitialSoc THEN {NoReading} ELSE {})
  BY DEF Init
<1>2. EmulatorTypeOK
  BY <1>1 DEF EmulatorStart, EmulatorTypeOK, SolarPriority, Do, Actions, Modes, Faults, Larger
<1>3. telem \in {NoReading} \cup 0 .. Full
  BY <1>1
<1>4. \A p \in {plan, next} \ {NoPlan} : PlanOK(p)
  BY DEF Init
<1>5. /\ day \in 1 .. LastDay /\ hour \in 0 .. Hours
      /\ part \in 0 .. TicksPerHour - 1 /\ (hour = Hours => part = 0)
      /\ override \in 0 .. MaxHold /\ slack \in Nat
      /\ plans \in 0 .. MaxPlans /\ trouble \in 0 .. MaxTrouble
  BY DEF Init
<1>6. /\ polled \in BOOLEAN /\ adrift \in BOOLEAN
      /\ source \in {"plan", "default", "blind", "command", "none"}
  BY DEF Init
<1> QED
  BY <1>2, <1>3, <1>4, <1>5, <1>6 DEF PlantTypeOK

(* in a tick of the sensor loop,                                            *)
LEMMA TypeTick ==
    ASSUME PlantTypeOK, NEW surplus \in Surpluses, NEW leak \in {0, 1},
           NEW up \in BOOLEAN, NEW stored \in BOOLEAN,
           SensorTick(surplus, leak, up, stored)
    PROVE  PlantTypeOK'
<1> USE EmulatorAssumption, OptimizerAssumption, PlantAssumption
<1>1. EmulatorTypeOK'
  BY TickType DEF PlantTypeOK, SensorTick
<1>2. day' \in 1 .. LastDay /\ hour' \in 0 .. Hours
         /\ part' \in 0 .. TicksPerHour - 1 /\ (hour' = Hours => part' = 0)
  BY DEF PlantTypeOK, SensorTick, DayRuns
<1>3. \A p \in {plan', next'} \ {NoPlan} : PlanOK(p)
  BY DEF PlantTypeOK, SensorTick
<1>4. telem' \in {NoReading} \cup 0 .. Full
  BY <1>1 DEF PlantTypeOK, SensorTick, EmulatorTypeOK
<1>5. override' \in 0 .. MaxHold
  BY DEF PlantTypeOK, SensorTick, Larger
<1>6. adrift' \in BOOLEAN /\ slack' \in Nat
  BY DEF PlantTypeOK, SensorTick
<1>7. trouble' \in 0 .. MaxTrouble
  BY DisturbType DEF PlantTypeOK, SensorTick
<1>8. /\ polled' \in BOOLEAN /\ plans' \in 0 .. MaxPlans
      /\ source' \in {"plan", "default", "blind", "command", "none"}
  BY DEF PlantTypeOK, SensorTick
<1> QED
  BY <1>1, <1>2, <1>3, <1>4, <1>5, <1>6, <1>7, <1>8 DEF PlantTypeOK, PlanOK

(* and in every step.                                                       *)
LEMMA TypeNext ==
    ASSUME PlantTypeOK, [Next]_vars
    PROVE  PlantTypeOK'
<1> USE EmulatorAssumption, OptimizerAssumption, PlantAssumption
<1>1. CASE FollowsSchedule
  <2>1. CurrentAction \in Actions
    BY <1>1, CurrentActionType DEF FollowsSchedule
  <2>2. EmulatorTypeOK'
    BY <1>1, <2>1 DEF FollowsSchedule, SetHourly, SetMode, PlantTypeOK, EmulatorTypeOK
  <2>3. source' \in {"plan", "default", "blind", "command", "none"}
    BY <1>1 DEF FollowsSchedule
  <2> QED
    BY <1>1, <2>2, <2>3 DEF FollowsSchedule, PlantTypeOK, PlanOK, clockVars
<1>2. CASE LeavesOverride
  BY <1>2 DEF LeavesOverride, PlantTypeOK, EmulatorTypeOK, PlanOK,
              emulatorVars, clockVars, historyVars
<1>3. CASE ScheduleLoopFails
  BY <1>3, DisturbType DEF ScheduleLoopFails, PlantTypeOK, EmulatorTypeOK, PlanOK,
              emulatorVars, clockVars
<1>4. CASE SensorLoop
  BY <1>4, TypeTick DEF SensorLoop
<1>5. CASE PlanToday
  <2>1. PICK p \in Planned[hour][Reading] : plan' = p /\ Track(p, hour, part)
    BY <1>5 DEF PlanToday
  <2>2. PlanOK(p)
    BY <1>5, <2>1, ReadingType, PlannedOK DEF PlanToday, PlantTypeOK, DayRuns, Hour
  <2>3. adrift' \in BOOLEAN /\ slack' \in Nat
    BY <2>1, <2>2, TrackType DEF PlantTypeOK, EmulatorTypeOK
  <2>4. \A q \in {plan', next'} \ {NoPlan} : PlanOK(q)
    BY <1>5, <2>1, <2>2 DEF PlanToday, PlantTypeOK
  <2> QED
    BY <1>5, <2>3, <2>4 DEF PlanToday, PlantTypeOK, EmulatorTypeOK, PlanOK,
                            emulatorVars, clockVars
<1>6. CASE PlanTomorrow
  <2>1. PICK p \in Planned[0][Reading] : next' = p
    BY <1>6 DEF PlanTomorrow
  <2>2. PlanOK(p)
    BY <2>1, ReadingType, PlannedOK DEF Hour
  <2>3. \A q \in {plan', next'} \ {NoPlan} : PlanOK(q)
    BY <1>6, <2>1, <2>2 DEF PlanTomorrow, PlantTypeOK
  <2> QED
    BY <1>6, <2>3 DEF PlanTomorrow, PlantTypeOK, EmulatorTypeOK, PlanOK,
                      emulatorVars, clockVars
<1>7. CASE Command
  <2>1. PICK a \in Commands, ticks \in 1 .. MaxHold : SetMode(a, ticks) /\ override' = ticks
    BY <1>7 DEF Command
  <2>2. EmulatorTypeOK' /\ override' \in 0 .. MaxHold
    BY <1>7, <2>1 DEF Command, SetMode, PlantTypeOK, EmulatorTypeOK
  <2>3. trouble' \in 0 .. MaxTrouble
    BY <1>7, DisturbType DEF Command, PlantTypeOK
  <2> QED
    BY <1>7, <2>2, <2>3 DEF Command, PlantTypeOK, PlanOK, clockVars
<1>8. CASE Midnight
  <2>1. next # NoPlan => PlanOK(next)
    BY DEF PlantTypeOK
  <2>2. adrift' \in BOOLEAN /\ slack' \in Nat
    BY <1>8, <2>1, TrackType DEF Midnight, PlantTypeOK, EmulatorTypeOK
  <2>3. \A q \in {plan', next'} \ {NoPlan} : PlanOK(q)
    BY <1>8, <2>1 DEF Midnight
  <2>4. day' \in 1 .. LastDay /\ hour' \in 0 .. Hours /\ plans' \in 0 .. MaxPlans
           /\ part' \in 0 .. TicksPerHour - 1 /\ (hour' = Hours => part' = 0)
    BY <1>8 DEF Midnight, PlantTypeOK
  <2>5. EmulatorTypeOK'
    BY <1>8 DEF Midnight, PlantTypeOK, EmulatorTypeOK, emulatorVars
  <2> QED
    BY <1>8, <2>2, <2>3, <2>4, <2>5 DEF Midnight, PlantTypeOK, PlanOK
<1>9. CASE Restart
  <2>1. EmulatorTypeOK'
    BY <1>9, ReadingType DEF Restart, EmulatorRestart, SetMode, EmulatorTypeOK,
            SolarPriority, Do, Actions, Modes, Faults, Larger
  <2>2. trouble' \in 0 .. MaxTrouble
    BY <1>9, DisturbType DEF Restart, PlantTypeOK
  <2>3. adrift' \in BOOLEAN /\ slack' \in Nat
    BY <1>9 DEF Restart, PlantTypeOK
  <2>4. /\ day' \in 1 .. LastDay /\ hour' \in 0 .. Hours
        /\ part' \in 0 .. TicksPerHour - 1 /\ (hour' = Hours => part' = 0)
        /\ override' \in 0 .. MaxHold /\ plans' \in 0 .. MaxPlans
        /\ telem' \in {NoReading} \cup 0 .. Full
    BY <1>9 DEF Restart, PlantTypeOK, clockVars
  <2>5. /\ polled' \in BOOLEAN
        /\ source' \in {"plan", "default", "blind", "command", "none"}
        /\ \A q \in {plan', next'} \ {NoPlan} : PlanOK(q)
    BY <1>9 DEF Restart, PlantTypeOK
  <2> QED
    BY <2>1, <2>2, <2>3, <2>4, <2>5 DEF PlantTypeOK, PlanOK
<1>10. CASE UNCHANGED vars
  BY <1>10 DEF vars, loopVars, historyVars, emulatorVars, clockVars,
               PlantTypeOK, EmulatorTypeOK, PlanOK
<1> QED
  BY <1>1, <1>2, <1>3, <1>4, <1>5, <1>6, <1>7, <1>8, <1>9, <1>10 DEF Next, ScheduleLoop

(* Types hold, and every stored plan is one the optimizer can have made,    *)
(* greedy's simulation included.                                            *)
THEOREM PlantTypeCorrect == Spec => []PlantTypeOK
<1> QED
  BY TypeInit, TypeNext, PTL DEF Spec

-----------------------------------------------------------------------------
(* The pack's window and the fault bits                                     *)

(* A tick that leaks, and a restart, are disturbances the model counts.     *)
THEOREM SocStaysInWindow == Spec => SocWindow
<1> DEFINE Within == trouble' = trouble =>
                        /\ soc' <= Larger(soc, SocMax)
                        /\ soc' >= Smaller(soc, SocMin)
<1>1. ASSUME PlantTypeOK, [Next]_vars PROVE Within
  <2>1. soc \in Int /\ trouble \in Int
    BY <1>1 DEF PlantTypeOK, EmulatorTypeOK
  <2>2. CASE soc' = soc
    BY <2>1, <2>2, EmulatorAssumption DEF Larger, Smaller
  <2>3. CASE SensorLoop
    <3>1. PICK surplus \in Surpluses, leak \in {0, 1}, up \in BOOLEAN, stored \in BOOLEAN :
             SensorTick(surplus, leak, up, stored)
      BY <2>3 DEF SensorLoop
    <3> DEFINE ask == SetPoint(InForce, surplus, up)
    <3>2. ask \in Int
      BY <1>1, InForceType, SetPointType, PlantAssumption DEF PlantTypeOK
    <3>3. soc' = SocAfter(Limited(ask), leak)
      BY <3>1 DEF SensorTick, EmulatorTick
    <3>4. trouble' = trouble => leak = 0
      BY <2>1, <3>1 DEF SensorTick, Disturb
    <3> HIDE DEF ask
    <3> QED
      BY <1>1, <3>2, <3>3, <3>4, TickLevel DEF PlantTypeOK, EmulatorTypeOK
  <2>4. CASE Restart
    BY <2>1, <2>4 DEF Restart, Disturb
  <2> QED
    BY <1>1, <2>2, <2>3, <2>4
       DEF Next, ScheduleLoop, FollowsSchedule, LeavesOverride, ScheduleLoopFails,
           PlanToday, PlanTomorrow, Command, Midnight, vars, emulatorVars
<1>2. PlantTypeOK /\ [Next]_vars => [Within]_vars
  BY <1>1
<1> QED
  BY <1>2, PlantTypeCorrect, PTL DEF Spec, SocWindow

(* The bits of a tick, of the level it began with and the grid it met.      *)
LEMMA TickFaults ==
    ASSUME EmulatorTypeOK, FaultsCurrent, NEW surplus \in Int, NEW leak \in {0, 1},
           NEW up \in BOOLEAN, EmulatorTick(surplus, leak, up)
    PROVE  FaultsCurrent'
<1> DEFINE ask == SetPoint(InForce, surplus, up)
<1>1. ask \in Int /\ soc \in 0 .. Full
  BY InForceType, SetPointType DEF EmulatorTypeOK
<1>2. gridUp' = up /\ faults' = FaultsAfter(ask, InForce, up)
         /\ soc' = SocAfter(Limited(ask), leak)
  BY DEF EmulatorTick
<1> HIDE DEF ask
<1>3. LowSoc(ask) => soc' <= SocMin
  BY <1>1, <1>2, EmulatorAssumption DEF LowSoc, SocAfter, Limited, Clamp, Smaller, Larger
<1>4. "GRID_OUTAGE" \in faults' <=> ~up
  BY <1>2 DEF FaultsCurrent, FaultsAfter, EmulatorTypeOK
<1>5. /\ "LOW_SOC" \in faults' => LowSoc(ask)
      /\ "BLACKOUT_RISK" \in faults' => LowSoc(ask) /\ ~up
  BY <1>2 DEF FaultsAfter
<1> QED
  BY <1>2, <1>3, <1>4, <1>5 DEF FaultsCurrent

(* The fault bitmask is never out of date: in no state, reached by whatever *)
(* ticks, outages, commands and restarts, does a bit outlive its cause.     *)
THEOREM FaultsStayCurrent == Spec => []FaultsCurrent
<1>1. Init => FaultsCurrent
  BY DEF Init, EmulatorStart, FaultsCurrent
<1>2. ASSUME PlantTypeOK, FaultsCurrent, [Next]_vars PROVE FaultsCurrent'
  <2>1. CASE SensorLoop
    BY <1>2, <2>1, TickFaults, PlantAssumption DEF SensorLoop, SensorTick, PlantTypeOK
  <2>2. CASE Restart
    BY <2>2 DEF Restart, EmulatorRestart, FaultsCurrent
  <2>3. CASE UNCHANGED <<soc, gridUp, faults>>
    BY <1>2, <2>3 DEF FaultsCurrent
  <2> QED
    BY <1>2, <2>1, <2>2, <2>3
       DEF Next, ScheduleLoop, FollowsSchedule, LeavesOverride, ScheduleLoopFails,
           PlanToday, PlanTomorrow, Command, Midnight, vars, emulatorVars
<1> QED
  BY <1>1, <1>2, PlantTypeCorrect, PTL DEF Spec

-----------------------------------------------------------------------------
(* Following the plan                                                       *)

(* The pack moves as the plan does, and where it cannot it gets closer.     *)
LEMMA OnCourse ==
    ASSUME soc \in 0 .. Full, NEW f \in Int, NEW leak \in {0, 1}, NEW k \in Nat,
           NEW at \in SocMin .. SocMax, at + f \in SocMin .. SocMax,
           Distance(at, soc) <= k
    PROVE  Distance(at + f, SocAfter(Limited(f), leak)) <= k + leak
BY EmulatorAssumption DEF Distance, SocAfter, Limited, LowSoc, Clamp, Smaller, Larger

(* What a slot asks of the battery is the flow it was made from.            *)
LEMMA SlotAsks ==
    ASSUME NEW f \in -DrainStep .. ChargeStep, NEW surplus
    PROVE  SetPoint(SlotAction(f), surplus, TRUE) = f
BY EmulatorAssumption
   DEF SlotAction, SetPoint, Sell, Charge, Idle, Do, Smaller

(* One tick further into the hour the plan is one tick's flow further on,   *)
(* into the next hour at the end of one.                                    *)
LEMMA PromisedNext ==
    ASSUME NEW p, PlanOK(p), p.method = "milp", NEW h \in Hour,
           NEW n \in 0 .. TicksPerHour - 1
    PROVE  /\ n + 1 < TicksPerHour => Promised(p, h, n + 1) = Promised(p, h, n) + Flow(p.traj, h)
           /\ n + 1 = TicksPerHour => Promised(p, h + 1, 0) = Promised(p, h, n) + Flow(p.traj, h)
<1> USE OptimizerAssumption, EmulatorAssumption
<1> DEFINE f == Flow(p.traj, h)
           a == p.traj[h]
           b == p.traj[h + 1]
<1>1. /\ a \in Int /\ b \in Int /\ f \in Int
      /\ b - a = TicksPerHour * f
  <2>1. p.traj \in [0 .. Hours -> SocMin .. SocMax] /\ Dynamics(p.traj, 0)
    BY DEF PlanOK
  <2>2. h \in 0 .. Hours /\ h + 1 \in 0 .. Hours
    BY DEF Hour
  <2>3. a \in Int /\ b \in Int
    BY <2>1, <2>2
  <2> QED
    BY <2>1, <2>3 DEF Dynamics
<1>2. Promised(p, h, n) = IF n = 0 THEN a ELSE a + n * f
  BY DEF Promised
<1>3. Promised(p, h, n + 1) = a + (n + 1) * f /\ Promised(p, h + 1, 0) = b
  BY DEF Promised
<1> HIDE DEF f, a, b
<1>4. (n + 1) * f = n * f + f /\ 1 * f = f /\ n * f \in Int /\ TicksPerHour * f \in Int
  BY <1>1, OneMoreTick, OneTick
<1>5. a + (n + 1) * f = Promised(p, h, n) + f
  BY <1>1, <1>2, <1>4
<1>6. n + 1 = TicksPerHour => b = a + (n + 1) * f
  BY <1>1, <1>4
<1> QED
  BY <1>3, <1>5, <1>6 DEF f

(* The strengthening of PlanHolds: a plant on course follows a plan of the  *)
(* solver's.                                                                *)
OnPlan ==
    ~adrift => /\ plan # NoPlan /\ plan.method = "milp"
               /\ Distance(Promised(plan, hour, part), soc) <= slack

(* A plan that comes into force promises the level it is then off by.       *)
LEMMA TrackOnPlan ==
    ASSUME NEW p, NEW h, NEW n, Track(p, h, n)
    PROVE  ~adrift' => /\ p # NoPlan /\ p.method = "milp"
                       /\ slack' = Distance(Promised(p, h, n), soc)
BY Zenon DEF Track

(* A tick that does not leave the plan keeps the distance, but for its      *)
(* leak.                                                                    *)
LEMMA TickOnPlan ==
    ASSUME PlantTypeOK, OnPlan, NEW surplus \in Surpluses, NEW leak \in {0, 1},
           NEW up \in BOOLEAN, NEW stored \in BOOLEAN,
           SensorTick(surplus, leak, up, stored), ~adrift'
    PROVE  /\ plan # NoPlan /\ plan.method = "milp"
           /\ Distance(Promised(plan, hour', part'), soc') <= slack'
<1> USE EmulatorAssumption, OptimizerAssumption
<1> DEFINE f  == Flow(plan.traj, hour)
           at == Promised(plan, hour, part)
<1>1. ~adrift /\ up /\ InForce = plan.slots[hour]
  BY DEF SensorTick
<1>2. plan # NoPlan /\ plan.method = "milp" /\ Distance(at, soc) <= slack
  BY <1>1 DEF OnPlan
<1>3. PlanOK(plan)
  BY <1>2 DEF PlantTypeOK
<1>4. /\ hour \in Hour /\ hour \in 0 .. Hours /\ hour # Hours
      /\ part \in 0 .. TicksPerHour - 1 /\ part \in 0 .. TicksPerHour
      /\ soc \in 0 .. Full /\ slack \in Nat
  BY DEF SensorTick, DayRuns, PlantTypeOK, EmulatorTypeOK, Hour
<1>5. f \in -DrainStep .. ChargeStep /\ plan.slots[hour] = SlotAction(f)
  BY <1>2, <1>3, <1>4 DEF PlanOK, Dynamics
<1>6. at \in SocMin .. SocMax
  BY <1>2, <1>3, <1>4, PromisedType
<1>7. /\ Promised(plan, hour', part') = at + f
      /\ at + f \in SocMin .. SocMax
  <2>1. /\ part + 1 < TicksPerHour => Promised(plan, hour, part + 1) = at + f
        /\ part + 1 = TicksPerHour => Promised(plan, hour + 1, 0) = at + f
    BY <1>2, <1>3, <1>4, PromisedNext
  <2>2. CASE part + 1 = TicksPerHour
    <3>1. hour' = hour + 1 /\ part' = 0
      BY <2>2 DEF SensorTick
    <3>2. Promised(plan, hour + 1, 0) \in SocMin .. SocMax
      BY <1>2, <1>3, <1>4, PromisedType DEF Hour
    <3> QED
      BY <2>1, <2>2, <3>1, <3>2
  <2>3. CASE part + 1 # TicksPerHour
    <3>1. hour' = hour /\ part' = part + 1
      BY <2>3 DEF SensorTick
    <3>2. Promised(plan, hour, part + 1) \in SocMin .. SocMax
      BY <1>2, <1>3, <1>4, <2>3, PromisedType
    <3> QED
      BY <1>4, <2>1, <2>3, <3>1, <3>2
  <2> QED
    BY <2>2, <2>3
<1>8. soc' = SocAfter(Limited(f), leak)
  <2>1. SetPoint(InForce, surplus, up) = f
    BY <1>1, <1>5, SlotAsks
  <2> QED
    BY <2>1 DEF SensorTick, EmulatorTick
<1>9. slack' = slack + leak
  BY DEF SensorTick
<1> HIDE DEF f, at
<1>10. f \in Int
  BY <1>5
<1>11. Distance(at + f, soc') <= slack + leak
  BY <1>2, <1>4, <1>6, <1>7, <1>8, <1>10, OnCourse
<1> QED
  BY <1>2, <1>7, <1>9, <1>11

(* OnPlan is inductive, given the types,                                    *)
LEMMA OnPlanNext ==
    ASSUME PlantTypeOK, OnPlan, [Next]_vars
    PROVE  OnPlan'
<1>1. CASE SensorLoop
  <2>1. PICK surplus \in Surpluses, leak \in {0, 1}, up \in BOOLEAN, stored \in BOOLEAN :
           SensorTick(surplus, leak, up, stored)
    BY <1>1 DEF SensorLoop
  <2>2. plan' = plan
    BY <2>1 DEF SensorTick
  <2> QED
    BY <2>1, <2>2, TickOnPlan DEF OnPlan, Promised, Flow
<1>2. CASE PlanToday
  <2>1. PICK p : plan' = p /\ Track(p, hour, part)
    BY <1>2 DEF PlanToday
  <2>2. hour' = hour /\ part' = part /\ soc' = soc
    BY <1>2 DEF PlanToday, emulatorVars, clockVars
  <2>3. ~adrift' => slack' \in Nat
    BY <1>2, TypeNext DEF Next, PlantTypeOK
  <2>4. ~adrift' => /\ p # NoPlan /\ p.method = "milp"
                    /\ slack' = Distance(Promised(p, hour, part), soc)
    BY <2>1, TrackOnPlan
  <2> QED
    BY <2>1, <2>2, <2>3, <2>4 DEF OnPlan, Promised, Flow
<1>3. CASE Midnight
  <2>1. hour' = 0 /\ part' = 0 /\ soc' = soc /\ plan' = next /\ Track(next, 0, 0)
    BY <1>3, OptimizerAssumption DEF Midnight, emulatorVars, PlantTypeOK
  <2>2. ~adrift' => slack' \in Nat
    BY <1>3, TypeNext DEF Next, PlantTypeOK
  <2>3. ~adrift' => /\ next # NoPlan /\ next.method = "milp"
                    /\ slack' = Distance(Promised(next, 0, 0), soc)
    BY <2>1, TrackOnPlan
  <2> QED
    BY <2>1, <2>2, <2>3 DEF OnPlan, Promised, Flow
<1>4. CASE Restart
  <2>1. ~adrift' => ~adrift /\ soc' = soc /\ slack' = slack
    BY <1>4 DEF Restart, EmulatorRestart
  <2>2. plan' = plan /\ hour' = hour /\ part' = part
    BY <1>4 DEF Restart, clockVars
  <2> QED
    BY <2>1, <2>2 DEF OnPlan, Promised, Flow
<1>5. CASE UNCHANGED <<soc, hour, part, plan, adrift, slack>>
  BY <1>5 DEF OnPlan, Promised, Flow
<1> QED
  BY <1>1, <1>2, <1>3, <1>4, <1>5
     DEF Next, ScheduleLoop, FollowsSchedule, LeavesOverride, ScheduleLoopFails,
         PlanTomorrow, Command, vars, emulatorVars, loopVars, historyVars, clockVars

(* and so always holds.                                                     *)
LEMMA OnPlanAlways == Spec => []OnPlan
<1>1. Init => OnPlan
  BY DEF Init, OnPlan
<1> QED
  BY <1>1, OnPlanNext, PlantTypeCorrect, PTL DEF Spec

(* A day that follows a plan of the solver's stays with it, whatever the    *)
(* hours, the powers and the house's load: no further off than it began,    *)
(* but for what leaked.                                                     *)
THEOREM PlantFollowsPlan == Spec => []PlanHolds
<1>1. OnPlan => PlanHolds
  BY DEF OnPlan, PlanHolds
<1> QED
  BY <1>1, OnPlanAlways, PTL

(* And it ends with the reserve the next day is to begin with.              *)
THEOREM DayEndsWithReserve == Spec => []ReserveKept
<1>1. ASSUME PlantTypeOK, OnPlan, hour = Hours, ~adrift
      PROVE  soc >= TerminalReserve(plan.traj[0]) - slack
  <2>1. PlanOK(plan) /\ plan.method = "milp" /\ Distance(Promised(plan, hour, part), soc) <= slack
    BY <1>1 DEF OnPlan, PlantTypeOK
  <2>2. Promised(plan, hour, part) = plan.traj[Hours]
    BY <1>1 DEF Promised, PlantTypeOK
  <2>3. /\ plan.traj[Hours] \in Int /\ plan.traj[Hours] >= TerminalReserve(plan.traj[0])
        /\ plan.traj[0] \in Int
    BY <2>1, EmulatorAssumption, OptimizerAssumption DEF PlanOK
  <2>4. TerminalReserve(plan.traj[0]) \in Int
    BY <2>3, EmulatorAssumption, OptimizerAssumption
       DEF TerminalReserve, SocInit, Clamp, Larger, Smaller
  <2>5. soc \in Int /\ slack \in Nat
    BY <1>1 DEF PlantTypeOK, EmulatorTypeOK
  <2> QED
    BY <2>1, <2>2, <2>3, <2>4, <2>5 DEF Distance
<1>2. PlantTypeOK /\ OnPlan => ReserveKept
  BY <1>1 DEF ReserveKept
<1> QED
  BY <1>2, OnPlanAlways, PlantTypeCorrect, PTL

-----------------------------------------------------------------------------
(* The default                                                              *)

(* What an hour of the default's sale can take in so many ticks.            *)
Sag(n) == n * (PeakPower + 1)

(* The strengthening of DefaultNeverEmpties: a sale of the default's began  *)
(* above the reserve, and has taken no more than its ticks can.             *)
SaleCovered ==
    source = "default" =>
        /\ hold <= TicksPerHour
        /\ hold > 0 /\ action.mode = "DISCHARGE_SELL" =>
              /\ action.power <= PeakPower
              /\ soc > Reserve - Sag(TicksPerHour - hold)
        /\ hold < TicksPerHour => "LOW_SOC" \notin faults

(* Sag grows by a tick's sale and leak, and is less than the reserve in an  *)
(* hour.                                                                    *)
LEMMA SagNumber ==
    ASSUME NEW n \in Nat
    PROVE  /\ Sag(n) \in Nat /\ Sag(0) = 0
           /\ Sag(n + 1) = Sag(n) + PeakPower + 1
           /\ n <= TicksPerHour - 1 => Sag(n) <= Reserve - SocMin
<1> USE EmulatorAssumption, OptimizerAssumption
<1> DEFINE k == PeakPower + 1
<1>1. k \in Nat /\ k > 0
  OBVIOUS
<1> HIDE DEF k
<1>2. \A x, y \in Nat : x * y \in Nat
  OBVIOUS
<1>3. n * k \in Nat /\ 0 * k = 0 /\ (n + 1) * k = n * k + k
  BY <1>1, <1>2
<1>4. ASSUME n <= TicksPerHour - 1 PROVE n * k <= Reserve - SocMin
  <2> DEFINE r == TicksPerHour - 1 - n
  <2>1. r \in Nat
    BY <1>4
  <2>2. r * k \in Nat /\ (TicksPerHour - 1) * k = r * k + n * k
    BY <1>1, <1>2, <2>1
  <2>3. (TicksPerHour - 1) * k <= Reserve - SocMin
    BY ReserveAssumption DEF k
  <2> HIDE DEF r
  <2> QED
    BY <1>3, <2>2, <2>3
<1>5. Sag(n) = n * k /\ Sag(0) = 0 * k /\ Sag(n + 1) = (n + 1) * k
  BY DEF Sag, k
<1> QED
  BY <1>3, <1>4, <1>5 DEF k

(* A sale is the default's only in the evening, from above the reserve and  *)
(* at no more than its power.                                               *)
LEMMA DefaultSale ==
    ASSUME PlantTypeOK, NEW h, Reading = soc,
           DefaultAction(h, telem, telem # NoReading).mode = "DISCHARGE_SELL"
    PROVE  /\ DefaultAction(h, telem, telem # NoReading).power = PeakPower
           /\ soc > Reserve
<1>1. DefaultAction(h, telem, telem # NoReading) = Sell(PeakPower)
         /\ ~ (telem # NoReading /\ telem <= Reserve)
  BY DEF DefaultAction, Sell, Charge, SolarPriority, Do
<1>2. soc > Reserve
  BY <1>1, EmulatorAssumption, OptimizerAssumption, ReserveAssumption
     DEF PlantTypeOK, EmulatorTypeOK, Reading, NoReading
<1> QED
  BY <1>1, <1>2 DEF Sell, Do

(* The schedule loop starts a sale above the reserve,                       *)
LEMMA SaleStarts ==
    ASSUME PlantTypeOK, FollowsSchedule
    PROVE  SaleCovered'
<1> SUFFICES ASSUME source' = "default" PROVE SaleCovered'
  BY DEF SaleCovered
<1> USE EmulatorAssumption, OptimizerAssumption
<1>1. plan = NoPlan /\ Reading = soc
  BY DEF FollowsSchedule
<1>2. /\ action' = DefaultAction(hour, telem, telem # NoReading)
      /\ hold' = TicksPerHour /\ soc' = soc
  BY <1>1 DEF FollowsSchedule, SetHourly, SetMode, CurrentAction
<1>3. action'.mode = "DISCHARGE_SELL" => action'.power = PeakPower /\ soc > Reserve
  BY <1>1, <1>2, DefaultSale
<1>4. Sag(TicksPerHour - hold') = 0
  BY <1>2, SagNumber
<1>5. soc \in Int
  BY DEF PlantTypeOK, EmulatorTypeOK
<1> QED
  BY <1>2, <1>3, <1>4, <1>5 DEF SaleCovered

(* and a tick takes no more of it than it can.                              *)
LEMMA SaleGoesOn ==
    ASSUME PlantTypeOK, SaleCovered, NEW surplus \in Surpluses, NEW leak \in {0, 1},
           NEW up \in BOOLEAN, NEW stored \in BOOLEAN,
           SensorTick(surplus, leak, up, stored)
    PROVE  SaleCovered'
<1> SUFFICES ASSUME source' = "default" PROVE SaleCovered'
  BY DEF SaleCovered
<1> USE EmulatorAssumption, OptimizerAssumption
<1> DEFINE ask == SetPoint(InForce, surplus, up)
           n   == TicksPerHour - hold
<1>1. source = "default" /\ up
  BY DEF SensorTick
<1>2. /\ EmulatorTypeOK /\ soc \in 0 .. Full /\ hold \in Nat /\ action \in Actions
      /\ ask \in Int
  BY InForceType, SetPointType, PlantAssumption DEF PlantTypeOK, EmulatorTypeOK
<1>3. /\ soc' = SocAfter(Limited(ask), leak)
      /\ faults' = FaultsAfter(ask, InForce, up)
      /\ action' = InForce /\ hold' = Larger(hold - 1, 0)
  BY DEF SensorTick, EmulatorTick, SetMode
<1>4. hold <= TicksPerHour
  BY <1>1 DEF SaleCovered
<1>5. CASE hold = 0 \/ action.mode # "DISCHARGE_SELL"
  <2>1. InForce.mode # "DISCHARGE_SELL"
    BY <1>5 DEF InForce, SolarPriority, Do
  <2>2. "LOW_SOC" \notin faults'
    BY <1>3, <2>1 DEF FaultsAfter
  <2>3. hold' <= TicksPerHour
    BY <1>2, <1>3, <1>4 DEF Larger
  <2> QED
    BY <1>3, <2>1, <2>2, <2>3 DEF SaleCovered
<1>6. CASE hold > 0 /\ action.mode = "DISCHARGE_SELL"
  <2>1. /\ n \in Nat /\ n <= TicksPerHour - 1
        /\ hold' = hold - 1 /\ TicksPerHour - hold' = n + 1
    BY <1>2, <1>3, <1>4, <1>6 DEF Larger
  <2>2. InForce = action /\ action.power <= PeakPower /\ soc > Reserve - Sag(n)
    BY <1>1, <1>2, <1>6 DEF InForce, SaleCovered
  <2>3. ask = -Smaller(action.power, DrainStep) /\ action.power \in Nat
    BY <1>1, <1>2, <1>6, <2>2 DEF SetPoint, Actions
  <2>4. ask <= 0 /\ ask >= -PeakPower
    BY <2>2, <2>3 DEF Smaller
  <2> HIDE DEF ask, n
  <2>5. /\ Sag(n) \in Nat /\ Sag(n) <= Reserve - SocMin
        /\ Sag(n + 1) = Sag(n) + PeakPower + 1
    BY <2>1, SagNumber
  <2>6. soc > SocMin
    BY <1>2, <2>2, <2>5
  <2>7. "LOW_SOC" \notin faults'
    BY <1>2, <1>3, <2>6 DEF FaultsAfter, LowSoc
  <2>8. soc' \in Int /\ soc' >= soc + ask - leak
    BY <1>2, <1>3, <2>4, TickLevel
  <2>9. soc' > Reserve - Sag(n + 1)
    BY <1>2, <2>2, <2>4, <2>5, <2>8
  <2>10. hold' <= TicksPerHour
    BY <1>2, <1>4, <2>1
  <2> QED
    BY <1>3, <2>1, <2>2, <2>7, <2>9, <2>10 DEF SaleCovered
<1> QED
  BY <1>2, <1>5, <1>6

(* The rule-based default sells from above its reserve, and an hour of it,  *)
(* which is how long a set-point lasts without the schedule loop, does not  *)
(* take the pack to its minimum.                                            *)
THEOREM DefaultSparesPack == Spec => []DefaultNeverEmpties
<1>1. Init => SaleCovered
  BY DEF Init, SaleCovered
<1>2. ASSUME PlantTypeOK, SaleCovered, [Next]_vars PROVE SaleCovered'
  <2>1. CASE FollowsSchedule
    BY <1>2, <2>1, SaleStarts
  <2>2. CASE SensorLoop
    BY <1>2, <2>2, SaleGoesOn DEF SensorLoop
  <2>3. CASE Command
    BY <2>3 DEF Command, SaleCovered
  <2>4. CASE Restart
    BY <2>4 DEF Restart, SaleCovered
  <2>5. CASE UNCHANGED <<soc, action, hold, faults, source>>
    BY <1>2, <2>5 DEF SaleCovered
  <2> QED
    BY <1>2, <2>1, <2>2, <2>3, <2>4, <2>5
       DEF Next, ScheduleLoop, LeavesOverride, ScheduleLoopFails, PlanToday,
           PlanTomorrow, Midnight, vars, emulatorVars, historyVars
<1>3. SaleCovered => DefaultNeverEmpties
  BY DEF SaleCovered, DefaultNeverEmpties
<1> QED
  BY <1>1, <1>2, <1>3, PlantTypeCorrect, PTL DEF Spec

-----------------------------------------------------------------------------
(* Sums over a set                                                          *)

(* The community module's fold takes the elements in the order of this      *)
(* choice.                                                                  *)
Pick(s) == CHOOSE x \in s : TRUE

(* What the fold defines by recursion: g is the sum of f over each part     *)
(* of S.                                                                    *)
SumStep(g, f, s) == IF s = {} THEN 0 ELSE f[Pick(s)] + g[s \ {Pick(s)}]

IsSum(g, f, S) == g = [s \in SUBSET S |-> SumStep(g, f, s)]

(* A part of a finite set, with an element less: what an induction on its   *)
(* size goes down by.                                                       *)
LEMMA OneLess ==
    ASSUME NEW S, IsFiniteSet(S), NEW s \in SUBSET S, NEW x \in s
    PROVE  /\ Cardinality(s) \in Nat /\ Cardinality(s) # 0
           /\ Cardinality(s \ {x}) = Cardinality(s) - 1
<1>1. IsFiniteSet(s) /\ Cardinality(s) \in Nat
  BY FS_Subset, FS_CardinalityType
<1> QED
  BY <1>1, FS_RemoveElement, FS_EmptySet

LEMMA SumStepEmpty == \A g, f : SumStep(g, f, {}) = 0
BY DEF SumStep

LEMMA PickIsThere == \A s : s # {} => Pick(s) \in s
BY DEF Pick

(* The sums exist, by induction on the size of the parts.                   *)
LEMMA SumExists ==
    ASSUME NEW S, IsFiniteSet(S), NEW f \in [S -> Int]
    PROVE  \E g : IsSum(g, f, S)
<1> DEFINE Upto(n) == {s \in SUBSET S : Cardinality(s) <= n}
           Sums(g, n) == \A s \in Upto(n) : g[s] = SumStep(g, f, s)
           Without == {n \in Nat : ~ \E g \in [Upto(n) -> Int] : Sums(g, n)}
<1>0. \A s \in SUBSET S : Cardinality(s) \in Nat
  BY FS_Subset, FS_CardinalityType
<1>1. Without = {}
  <2> SUFFICES ASSUME Without # {} PROVE FALSE
    OBVIOUS
  <2>1. PICK m \in Without : \A k \in Without : m <= k
    <3> Without \in SUBSET Nat
      OBVIOUS
    <3> HIDE DEF Without
    <3> QED
      BY LeastNumber
  <2>2. CASE m = 0
    <3> DEFINE g == [s \in Upto(0) |-> 0]
    <3>1. ASSUME NEW s \in Upto(0) PROVE s = {}
      <4>1. IsFiniteSet(s) /\ Cardinality(s) = 0
        BY <1>0, FS_Subset
      <4> QED
        BY <4>1, FS_EmptySet
    <3>2. g \in [Upto(0) -> Int] /\ Sums(g, 0)
      BY <3>1 DEF SumStep
    <3> QED
      BY <2>2, <3>2
  <2>3. CASE m # 0
    <3>1. m - 1 \in Nat /\ m - 1 \notin Without /\ m \in Nat
      <4>1. m \in Nat
        OBVIOUS
      <4> HIDE DEF Without
      <4> QED
        BY <2>1, <2>3, <4>1
    <3>2. PICK g \in [Upto(m - 1) -> Int] : Sums(g, m - 1)
      BY <3>1
    <3> DEFINE g2 == [s \in Upto(m) |-> SumStep(g, f, s)]
    <3>3. ASSUME NEW s \in Upto(m), s # {}
          PROVE  Pick(s) \in S /\ s \ {Pick(s)} \in Upto(m - 1)
      BY <1>0, <3>1, <3>3, OneLess, PickIsThere
    <3>4. \A s \in Upto(m) : SumStep(g, f, s) \in Int
      BY <3>2, <3>3 DEF SumStep
    <3>5. \A s \in Upto(m - 1) : s \in Upto(m) /\ g2[s] = g[s]
      BY <1>0, <3>1, <3>2
    <3> HIDE DEF Upto
    <3>6. \A s \in Upto(m) : g2[s] = SumStep(g2, f, s)
      BY <3>3, <3>5 DEF SumStep
    <3>7. g2 \in [Upto(m) -> Int]
      BY <3>4
    <3> HIDE DEF g2
    <3> QED
      BY <3>6, <3>7
  <2> QED
    BY <2>2, <2>3
<1>2. Cardinality(S) \in Nat /\ Upto(Cardinality(S)) = SUBSET S
  <2>1. \A s \in SUBSET S : Cardinality(s) <= Cardinality(S)
    BY FS_Subset
  <2> QED
    BY <1>0, <2>1
<1>3. PICK g \in [Upto(Cardinality(S)) -> Int] : Sums(g, Cardinality(S))
  BY <1>1, <1>2
<1> QED
  BY <1>2, <1>3 DEF IsSum

(* They are numbers,                                                        *)
LEMMA SumType ==
    ASSUME NEW S, IsFiniteSet(S), NEW f \in [S -> Int], NEW g, IsSum(g, f, S),
           NEW s \in SUBSET S
    PROVE  g[s] \in Int
<1> DEFINE Untyped == {Cardinality(t) : t \in {u \in SUBSET S : g[u] \notin Int}}
<1>1. \A t \in SUBSET S : g[t] = SumStep(g, f, t)
  BY DEF IsSum
<1>2. Untyped = {}
  <2> SUFFICES ASSUME Untyped # {} PROVE FALSE
    OBVIOUS
  <2>1. PICK m \in Untyped : \A k \in Untyped : m <= k
    <3> Untyped \in SUBSET Nat
      BY FS_Subset, FS_CardinalityType
    <3> HIDE DEF Untyped
    <3> QED
      BY LeastNumber
  <2>2. PICK t \in SUBSET S : g[t] \notin Int /\ Cardinality(t) = m
    OBVIOUS
  <2>3. g[t] = SumStep(g, f, t)
    BY <1>1
  <2>4. t # {}
    BY <2>3, <2>2, SumStepEmpty
  <2>5. Pick(t) \in t
    BY <2>4, PickIsThere
  <2>6. Cardinality(t \ {Pick(t)}) = m - 1 /\ m \in Nat /\ m - 1 \in Nat
    <3>1. Cardinality(t) \in Nat /\ Cardinality(t) # 0
             /\ Cardinality(t \ {Pick(t)}) = Cardinality(t) - 1
      BY <2>5, OneLess
    <3> QED
      BY <3>1, <2>2
  <2>7. t \ {Pick(t)} \in SUBSET S /\ m - 1 \notin Untyped
    <3> HIDE DEF Untyped
    <3> QED
      BY <2>1, <2>6
  <2>8. g[t \ {Pick(t)}] \in Int
    BY <2>6, <2>7
  <2> QED
    <3>1. g[t] = f[Pick(t)] + g[t \ {Pick(t)}]
      BY <2>3, <2>4 DEF SumStep
    <3>2. f[Pick(t)] \in Int
      BY <2>5
    <3> QED
      BY <2>2, <2>8, <3>1, <3>2
<1> QED
  BY <1>2

(* and the element that is taken first does not matter.                     *)
LEMMA SumOfAny ==
    ASSUME NEW S, IsFiniteSet(S), NEW f \in [S -> Int], NEW g, IsSum(g, f, S),
           NEW s \in SUBSET S, NEW x \in s
    PROVE  g[s] = f[x] + g[s \ {x}]
<1> DEFINE Holds(t, y) == g[t] = f[y] + g[t \ {y}]
           Wrong == {Cardinality(t) : t \in {u \in SUBSET S : \E y \in u : ~ Holds(u, y)}}
<1>1. \A t \in SUBSET S : g[t] \in Int
  BY SumType
<1>2. \A t \in SUBSET S : t # {} => Holds(t, Pick(t))
  BY DEF IsSum, SumStep
<1>3. Wrong = {}
  <2> SUFFICES ASSUME Wrong # {} PROVE FALSE
    OBVIOUS
  <2>1. PICK m \in Wrong : \A k \in Wrong : m <= k
    <3> Wrong \in SUBSET Nat
      BY FS_Subset, FS_CardinalityType
    <3> HIDE DEF Wrong
    <3> QED
      BY LeastNumber
  <2>2. PICK t \in SUBSET S : Cardinality(t) = m /\ \E y \in t : ~ Holds(t, y)
    OBVIOUS
  <2>3. PICK y \in t : ~ Holds(t, y)
    BY <2>2
  <2> DEFINE p == Pick(t)
  <2>4. p \in t /\ p # y
    BY <1>2, <2>3, PickIsThere
  <2>5. m \in Nat /\ m - 1 \notin Wrong
    <3>1. m \in Nat /\ m # 0
      BY <2>2, <2>3, OneLess
    <3> HIDE DEF Wrong
    <3> QED
      BY <2>1, <3>1
  <2>6. ASSUME NEW z \in t, NEW w \in t \ {z} PROVE Holds(t \ {z}, w)
    <3>1. t \ {z} \in SUBSET S /\ Cardinality(t \ {z}) = m - 1
      BY <2>2, OneLess
    <3> HIDE DEF Holds
    <3> QED
      BY <2>5, <3>1
  <2>7. Holds(t, p)
    BY <1>2, <2>4
  <2>8. Holds(t \ {p}, y) /\ Holds(t \ {y}, p)
    BY <2>4, <2>6
  <2>9. (t \ {p}) \ {y} = (t \ {y}) \ {p}
    OBVIOUS
  <2>10. f[p] \in Int /\ f[y] \in Int
    BY <2>3, <2>4
  <2>11. g[t \ {p}] \in Int /\ g[t \ {y}] \in Int /\ g[(t \ {p}) \ {y}] \in Int
    BY <1>1
  <2> HIDE DEF p
  <2>12. g[t] = f[p] + (f[y] + g[(t \ {p}) \ {y}]) /\ g[t \ {y}] = f[p] + g[(t \ {p}) \ {y}]
    BY <2>7, <2>8, <2>9
  <2>13. g[t] = f[y] + g[t \ {y}]
    BY <2>10, <2>11, <2>12
  <2> QED
    BY <2>3, <2>13
<1>4. Cardinality(s) \notin Wrong
  BY <1>3
<1> QED
  BY <1>4

LEMMA HourFinite == IsFiniteSet(Hour) /\ Hours \in Nat
<1>1. Hours \in Nat /\ Hours - 1 \in Int
  BY OptimizerAssumption
<1> QED
  BY <1>1, FS_Interval DEF Hour

(* What grows by f in every hour of the day has grown by the sum of f.      *)
LEMMA Telescope ==
    ASSUME NEW f \in [Hour -> Int], NEW F \in [0 .. Hours -> Int],
           \A h \in Hour : F[h + 1] - F[h] = f[h], NEW g, IsSum(g, f, Hour)
    PROVE  g[Hour] = F[Hours] - F[0]
<1> DEFINE Reached(n) == g[0 .. n - 1] = F[n] - F[0]
           Wrong == {n \in 0 .. Hours : ~ Reached(n)}
<1>0. IsFiniteSet(Hour) /\ Hours \in Nat
  BY HourFinite
<1>1. Wrong = {}
  <2> SUFFICES ASSUME Wrong # {} PROVE FALSE
    OBVIOUS
  <2>1. PICK m \in Wrong : \A k \in Wrong : m <= k
    <3> Wrong \in SUBSET Nat
      BY <1>0
    <3> HIDE DEF Wrong
    <3> QED
      BY LeastNumber
  <2>2. CASE m = 0
    <3>1. 0 .. m - 1 = {} /\ {} \in SUBSET Hour
      BY <2>2
    <3>2. g[{}] = 0
      BY <3>1 DEF IsSum, SumStep
    <3>3. F[0] \in Int
      BY <1>0
    <3> QED
      BY <2>1, <2>2, <3>1, <3>2, <3>3
  <2>3. CASE m # 0
    <3>1. m \in 0 .. Hours
      OBVIOUS
    <3>2. m - 1 \in 0 .. Hours /\ m - 1 \notin Wrong /\ m - 1 \in Hour
      <4> HIDE DEF Wrong
      <4> QED
        BY <1>0, <2>1, <2>3, <3>1 DEF Hour
    <3>3. 0 .. m - 1 \in SUBSET Hour /\ m - 1 \in 0 .. m - 1
      BY <1>0, <2>3, <3>1 DEF Hour
    <3>4. (0 .. m - 1) \ {m - 1} = 0 .. (m - 1) - 1
      <4>1. m \in Int
        BY <1>0, <3>1
      <4>2. \A i : i \in (0 .. m - 1) \ {m - 1} <=> i \in 0 .. (m - 1) - 1
        BY <4>1
      <4> QED
        BY <4>2
    <3>5. g[0 .. m - 1] = f[m - 1] + g[0 .. (m - 1) - 1]
      <4>1. ASSUME NEW s \in SUBSET Hour, NEW x \in s PROVE g[s] = f[x] + g[s \ {x}]
        BY <1>0, SumOfAny, SMTT(60)
      <4>2. g[0 .. m - 1] = f[m - 1] + g[(0 .. m - 1) \ {m - 1}]
        BY <3>3, <4>1
      <4> QED
        BY <3>4, <4>2
    <3>6. g[0 .. (m - 1) - 1] = F[m - 1] - F[0]
      BY <3>2
    <3>7. f[m - 1] = F[m] - F[m - 1]
      <4>1. (m - 1) + 1 = m
        BY <1>0, <3>1
      <4> QED
        BY <3>2, <4>1
    <3>8. F[m] \in Int /\ F[m - 1] \in Int /\ F[0] \in Int
      BY <1>0, <3>1, <3>2
    <3>9. g[0 .. m - 1] = (F[m] - F[m - 1]) + (F[m - 1] - F[0])
      BY <3>5, <3>6, <3>7
    <3>10. g[0 .. m - 1] = F[m] - F[0]
      BY <3>8, <3>9
    <3> QED
      BY <2>1, <3>10
  <2> QED
    BY <2>2, <2>3
<1>2. Hours \in 0 .. Hours /\ 0 .. Hours - 1 = Hour
  BY <1>0 DEF Hour
<1> QED
  BY <1>1, <1>2

(* What a course gains and spends in a day, as sums of functions.           *)
Gains(traj) == [h \in Hour |-> Larger(traj[h + 1] - traj[h], 0)]
Losses(traj) == [h \in Hour |-> Larger(traj[h] - traj[h + 1], 0)]

LEMMA GainedIsSum ==
    ASSUME NEW traj, Gains(traj) \in [Hour -> Int]
    PROVE  \E g : IsSum(g, Gains(traj), Hour) /\ Gained(traj) = g[Hour]
<1> DEFINE Body(g, s) == IF s = {} THEN 0
                         ELSE Larger(traj[Pick(s) + 1] - traj[Pick(s)], 0)
                                + g[s \ {Pick(s)}]
           Def(g) == g = [s \in SUBSET Hour |-> Body(g, s)]
           it == CHOOSE g : Def(g)
<1>1. Gained(traj) = it[Hour]
  BY DEF Gained, MapThenSumSet, MapThenFoldSet, Pick
<1>2. \A g : \A s \in SUBSET Hour : Body(g, s) = SumStep(g, Gains(traj), s)
  BY PickIsThere DEF Gains, SumStep
<1>3. \A g : Def(g) <=> IsSum(g, Gains(traj), Hour)
  <2> HIDE DEF Body
  <2> QED
    BY <1>2 DEF IsSum
<1>4. \E g : IsSum(g, Gains(traj), Hour)
  BY SumExists, HourFinite
<1>5. Def(it)
  <2> HIDE DEF Def
  <2> QED
    BY <1>3, <1>4
<1> QED
  BY <1>1, <1>3, <1>5

LEMMA SpentIsSum ==
    ASSUME NEW traj, Losses(traj) \in [Hour -> Int]
    PROVE  \E g : IsSum(g, Losses(traj), Hour) /\ Spent(traj) = g[Hour]
<1> DEFINE Body(g, s) == IF s = {} THEN 0
                         ELSE Larger(traj[Pick(s)] - traj[Pick(s) + 1], 0)
                                + g[s \ {Pick(s)}]
           Def(g) == g = [s \in SUBSET Hour |-> Body(g, s)]
           it == CHOOSE g : Def(g)
<1>1. Spent(traj) = it[Hour]
  BY DEF Spent, MapThenSumSet, MapThenFoldSet, Pick
<1>2. \A g : \A s \in SUBSET Hour : Body(g, s) = SumStep(g, Losses(traj), s)
  BY PickIsThere DEF Losses, SumStep
<1>3. \A g : Def(g) <=> IsSum(g, Losses(traj), Hour)
  <2> HIDE DEF Body
  <2> QED
    BY <1>2 DEF IsSum
<1>4. \E g : IsSum(g, Losses(traj), Hour)
  BY SumExists, HourFinite
<1>5. Def(it)
  <2> HIDE DEF Def
  <2> QED
    BY <1>3, <1>4
<1> QED
  BY <1>1, <1>3, <1>5

(* A course that never falls gains what lies between its ends, and spends   *)
(* nothing.                                                                 *)
LEMMA RisingCourse ==
    ASSUME NEW traj \in [0 .. Hours -> Int], \A h \in Hour : traj[h] <= traj[h + 1]
    PROVE  Gained(traj) = traj[Hours] - traj[0] /\ Spent(traj) = 0
<1>0. Hours \in Nat
  BY HourFinite
<1>1. \A h \in Hour : h \in 0 .. Hours /\ h + 1 \in 0 .. Hours
  BY <1>0 DEF Hour
<1>2. /\ Gains(traj) \in [Hour -> Int] /\ Losses(traj) \in [Hour -> Int]
      /\ \A h \in Hour : traj[h + 1] - traj[h] = Gains(traj)[h] /\ Losses(traj)[h] = 0
  <2>1. \A h \in Hour : traj[h] \in Int /\ traj[h + 1] \in Int /\ traj[h] <= traj[h + 1]
    BY <1>1
  <2>2. \A h \in Hour : /\ Larger(traj[h + 1] - traj[h], 0) = traj[h + 1] - traj[h]
                        /\ Larger(traj[h] - traj[h + 1], 0) = 0
    BY <2>1 DEF Larger
  <2> QED
    BY <2>1, <2>2 DEF Gains, Losses
<1>3. PICK g : IsSum(g, Gains(traj), Hour) /\ Gained(traj) = g[Hour]
  BY <1>2, GainedIsSum
<1>4. PICK l : IsSum(l, Losses(traj), Hour) /\ Spent(traj) = l[Hour]
  BY <1>2, SpentIsSum
<1>5. g[Hour] = traj[Hours] - traj[0]
  BY <1>2, <1>3, Telescope
<1> DEFINE still == [h \in 0 .. Hours |-> 0]
<1>6. still \in [0 .. Hours -> Int] /\ \A h \in Hour : still[h + 1] - still[h] = Losses(traj)[h]
  BY <1>1, <1>2
<1>7. still[Hours] = 0 /\ still[0] = 0
  BY <1>0
<1> HIDE DEF still
<1>8. l[Hour] = still[Hours] - still[0]
  BY <1>2, <1>4, <1>6, Telescope
<1>9. l[Hour] = 0
  BY <1>7, <1>8
<1> QED
  BY <1>3, <1>4, <1>5, <1>9

-----------------------------------------------------------------------------
(* When the solver's model has a solution                                   *)

(* What the reserve asks for, and whether the charger can still bring it    *)
(* before the day is over.                                                  *)
Wanted(level) == TerminalReserve(level) - SocInit(level)

HourCharge == TicksPerHour * ChargeStep

InTime(start, level) == Wanted(level) <= (Hours - start) * HourCharge

LEMMA SolvableIsFeasible ==
    ASSUME NEW start \in Hour, NEW level \in 0 .. Full
    PROVE  Solvable(start, level) <=> Feasible(start, level) # {}
<1>1. Planned[start][level] = PlansFor(start, level)
  BY DEF Planned
<1>2. \A traj : MilpPlan(traj).method = "milp"
  BY DEF MilpPlan
<1>3. \A prices : GreedyPlan(prices, start, level).method # "milp"
  BY DEF GreedyPlan
<1> QED
  BY <1>1, <1>2, <1>3 DEF Solvable, PlansFor

LEMMA WantedType ==
    ASSUME NEW level \in 0 .. Full
    PROVE  /\ SocInit(level) \in SocMin .. SocMax
           /\ TerminalReserve(level) \in Int /\ TerminalReserve(level) <= SocMax
           /\ TerminalReserve(level) <= Terminal
           /\ Wanted(level) \in Int /\ Wanted(level) <= ChargeCap
BY EmulatorAssumption, OptimizerAssumption
   DEF Wanted, TerminalReserve, SocInit, Clamp, Smaller, Larger

LEMMA HourChargeType == HourCharge \in Nat /\ HourCharge > 0
<1>1. \A x, y \in Nat \ {0} : x * y \in Nat /\ x * y > 0
  OBVIOUS
<1> QED
  BY <1>1, EmulatorAssumption, OptimizerAssumption DEF HourCharge

(* A course that has to keep to the charger's power gains no more than the  *)
(* charger can bring in the hours that are left.                            *)
LEMMA ChargerBounds ==
    ASSUME NEW start \in Hour, NEW traj \in [0 .. Hours -> Int], Dynamics(traj, start)
    PROVE  traj[Hours] <= traj[0] + (Hours - start) * HourCharge
<1>0. Hours \in Nat /\ start \in Nat /\ start < Hours
  BY HourFinite DEF Hour
<1>1. \A h \in Hour : h \in 0 .. Hours /\ h + 1 \in 0 .. Hours
  BY <1>0 DEF Hour
<1>2. ASSUME NEW h \in Hour
      PROVE  /\ traj[h + 1] <= traj[h] + HourCharge
             /\ h < start => traj[h + 1] = traj[h]
  <2>1. /\ traj[h] \in Int /\ traj[h + 1] \in Int
    BY <1>1
  <2>2. /\ traj[h + 1] - traj[h] = TicksPerHour * Flow(traj, h)
        /\ Flow(traj, h) \in -DrainStep .. ChargeStep
        /\ h < start => Flow(traj, h) = 0
    BY DEF Dynamics
  <2>3. Flow(traj, h) \in Int /\ Flow(traj, h) <= ChargeStep
    BY <2>2, EmulatorAssumption
  <2>4. \A t \in Nat, a, b \in Int : a <= b => t * a <= t * b
    OBVIOUS
  <2>5. TicksPerHour * Flow(traj, h) <= HourCharge
    BY <2>3, <2>4, EmulatorAssumption, OptimizerAssumption DEF HourCharge
  <2>6. h < start => TicksPerHour * Flow(traj, h) = 0
    BY <2>2, OptimizerAssumption
  <2> QED
    BY <2>1, <2>2, <2>5, <2>6, HourChargeType
<1> DEFINE Above(h) == IF h <= start THEN 0 ELSE (h - start) * HourCharge
           Wrong == {h \in 0 .. Hours : ~ (traj[h] <= traj[0] + Above(h))}
<1>3. Wrong = {}
  <2> SUFFICES ASSUME Wrong # {} PROVE FALSE
    OBVIOUS
  <2>1. PICK m \in Wrong : \A k \in Wrong : m <= k
    <3> Wrong \in SUBSET Nat
      BY <1>0
    <3> HIDE DEF Wrong
    <3> QED
      BY LeastNumber
  <2>2. m \in 0 .. Hours /\ m \in Int /\ traj[m] \in Int /\ traj[0] \in Int
    BY <1>0
  <2>3. m # 0
    BY <1>0, <2>1, <2>2
  <2>4. m - 1 \in Hour /\ (m - 1) + 1 = m /\ m - 1 \notin Wrong
    <3> HIDE DEF Wrong
    <3> QED
      BY <1>0, <2>1, <2>2, <2>3 DEF Hour
  <2>5. traj[m - 1] \in Int /\ traj[m - 1] <= traj[0] + Above(m - 1)
    BY <1>1, <2>4
  <2>6. /\ traj[m] <= traj[m - 1] + HourCharge
        /\ m - 1 < start => traj[m] = traj[m - 1]
    BY <1>2, <2>4
  <2>7. CASE m <= start
    <3>1. Above(m - 1) = 0 /\ Above(m) = 0
      BY <1>0, <2>2, <2>7
    <3>2. traj[m] <= traj[0] + Above(m)
      BY <1>0, <2>2, <2>5, <2>6, <2>7, <3>1
    <3> QED
      BY <2>1, <3>2
  <2>8. CASE m > start
    <3>1. Above(m) = Above(m - 1) + HourCharge /\ Above(m - 1) \in Int
      <4>1. Above(m) = (m - start) * HourCharge
        BY <1>0, <2>2, <2>8
      <4>2. Above(m - 1) = ((m - 1) - start) * HourCharge
        <5>1. CASE m - 1 = start
          BY <1>0, <2>2, <5>1, HourChargeType
        <5>2. CASE m - 1 > start
          BY <1>0, <2>2, <5>2
        <5> QED
          BY <1>0, <2>2, <2>8, <5>1, <5>2
      <4>3. (m - start) = ((m - 1) - start) + 1 /\ (m - 1) - start \in Int
        BY <1>0, <2>2
      <4>4. (((m - 1) - start) + 1) * HourCharge = ((m - 1) - start) * HourCharge + HourCharge
        BY <4>3, HourChargeType, OneMoreTick
      <4>5. ((m - 1) - start) * HourCharge \in Int
        BY <4>3, HourChargeType
      <4> QED
        BY <4>1, <4>2, <4>3, <4>4, <4>5
    <3> HIDE DEF Above
    <3>2. traj[m] <= traj[0] + Above(m)
      BY <2>2, <2>5, <2>6, <3>1, HourChargeType
    <3> QED
      BY <2>1, <3>2
  <2> QED
    BY <1>0, <2>2, <2>7, <2>8
<1>4. Hours \in 0 .. Hours /\ Above(Hours) = (Hours - start) * HourCharge
  BY <1>0
<1> QED
  BY <1>3, <1>4

(* The witness: the pack is charged at full power until it has what the     *)
(* reserve asks for, rounded up to what a whole hour's ticks can move.      *)
LEMMA CourseInTime ==
    ASSUME NEW cap \in Nat, ChargeCap = TicksPerHour * cap,
           Terminal + TicksPerHour - 1 <= SocMax,
           NEW start \in Hour, NEW level \in 0 .. Full, InTime(start, level)
    PROVE  Feasible(start, level) # {}
<1> DEFINE t == TicksPerHour
           base == SocInit(level)
           most == (Hours - start) * ChargeStep
           Enough == {n \in Nat : t * n >= Wanted(level)}
<1>0. /\ Hours \in Nat /\ start \in Nat /\ start < Hours
      /\ t \in Nat /\ t > 0 /\ ChargeStep \in Nat /\ ChargeStep > 0
      /\ SocMin \in Nat /\ SocMax \in Nat /\ DrainStep \in Nat /\ DrainCap \in Nat
      /\ Terminal \in Nat
  BY HourFinite, EmulatorAssumption, OptimizerAssumption DEF Hour
<1>1. /\ base \in SocMin .. SocMax /\ TerminalReserve(level) \in Int
      /\ TerminalReserve(level) <= Terminal
      /\ Wanted(level) \in Int /\ Wanted(level) <= ChargeCap
      /\ Wanted(level) = TerminalReserve(level) - base
  BY WantedType DEF Wanted
<1> HIDE DEF base
<1>2. most \in Nat /\ t * most = (Hours - start) * HourCharge
  <2>1. Hours - start \in Nat
    BY <1>0
  <2>2. \A a, b, c \in Nat : a * (b * c) = b * (a * c)
    OBVIOUS
  <2>3. \A a, b \in Nat : a * b \in Nat
    OBVIOUS
  <2> QED
    BY <1>0, <2>1, <2>2, <2>3 DEF HourCharge
<1>3. most \in Enough
  BY <1>0, <1>1, <1>2 DEF InTime
<1> HIDE DEF most
<1>4. PICK m \in Enough : \A k \in Enough : m <= k
  <2> Enough \in SUBSET Nat /\ Enough # {}
    BY <1>3
  <2> HIDE DEF Enough
  <2> QED
    BY LeastNumber
<1>5. m \in Nat /\ t * m >= Wanted(level) /\ m <= most
  <2>1. m <= most
    <3> HIDE DEF Enough
    <3> QED
      BY <1>3, <1>4
  <2> QED
    BY <2>1
<1>6. \A a, b \in Int : a <= b => t * a <= t * b
  BY <1>0
<1>7. t * m <= ChargeCap
  <2>1. cap \in Enough
    BY <1>1
  <2>2. m <= cap
    <3> HIDE DEF Enough
    <3> QED
      BY <1>4, <2>1
  <2> QED
    BY <1>5, <1>6, <2>2
<1>8. base + t * m <= SocMax
  <2>1. CASE m = 0
    BY <1>0, <1>1, <2>1
  <2>2. CASE m # 0
    <3>1. m - 1 \in Nat /\ m - 1 \notin Enough
      <4>1. m - 1 \in Nat /\ ~ (m <= m - 1)
        BY <1>5, <2>2
      <4> HIDE DEF Enough
      <4> QED
        BY <1>4, <4>1
    <3>2. t * (m - 1) < Wanted(level)
      BY <1>0, <1>1, <3>1
    <3>3. t * (m - 1) = t * m - t
      BY <1>0, <1>5
    <3>4. t * m \in Int
      BY <1>0, <1>5
    <3> QED
      BY <1>0, <1>1, <3>2, <3>3, <3>4
  <2> QED
    BY <2>1, <2>2
<1> HIDE DEF Enough
<1> DEFINE charged == [h \in 0 .. Hours |->
                          IF h <= start THEN 0 ELSE Smaller(m, (h - start) * ChargeStep)]
           traj == [h \in 0 .. Hours |-> base + t * charged[h]]
<1>9. \A h \in 0 .. Hours : charged[h] \in 0 .. m /\ charged[h] \in Int
  <2>1. ASSUME NEW h \in 0 .. Hours, ~ (h <= start)
        PROVE  (h - start) * ChargeStep \in Nat
    <3>1. h - start \in Nat
      BY <1>0, <2>1
    <3> QED
      BY <1>0, <3>1
  <2> QED
    BY <1>0, <1>5, <2>1 DEF Smaller
<1>10. charged[0] = 0 /\ charged[Hours] = m
  BY <1>0, <1>2, <1>5 DEF Smaller, most
<1>11. ASSUME NEW h \in Hour
       PROVE  /\ h \in 0 .. Hours /\ h + 1 \in 0 .. Hours
              /\ charged[h + 1] - charged[h] \in 0 .. ChargeStep
              /\ h < start => charged[h + 1] - charged[h] = 0
  <2>1. h \in 0 .. Hours /\ h + 1 \in 0 .. Hours /\ h \in Nat
    BY <1>0 DEF Hour
  <2>2. CASE h < start
    BY <1>0, <2>1, <2>2
  <2>3. CASE h = start
    BY <1>0, <1>5, <2>1, <2>3, OneTick DEF Smaller
  <2>4. CASE h > start
    <3>1. h - start \in Nat /\ (h + 1) - start = (h - start) + 1
      BY <1>0, <2>1, <2>4
    <3>2. ((h - start) + 1) * ChargeStep = (h - start) * ChargeStep + ChargeStep
      BY <1>0, <3>1, OneMoreTick
    <3>3. (h - start) * ChargeStep \in Int
      BY <1>0, <3>1
    <3>4. /\ charged[h] = Smaller(m, (h - start) * ChargeStep)
          /\ charged[h + 1] = Smaller(m, (h - start) * ChargeStep + ChargeStep)
      BY <1>0, <2>1, <2>4, <3>1, <3>2
    <3> HIDE DEF charged
    <3> QED
      BY <1>0, <1>5, <2>1, <2>4, <3>3, <3>4 DEF Smaller
  <2> QED
    BY <1>0, <2>1, <2>2, <2>3, <2>4
<1> HIDE DEF charged
<1>12. traj \in [0 .. Hours -> SocMin .. SocMax]
  <2>1. ASSUME NEW h \in 0 .. Hours PROVE base + t * charged[h] \in SocMin .. SocMax
    <3>1. t * charged[h] <= t * m /\ t * 0 <= t * charged[h] /\ t * charged[h] \in Int
      BY <1>0, <1>5, <1>6, <1>9
    <3>2. t * m \in Int /\ t * 0 = 0
      BY <1>0, <1>5
    <3> QED
      BY <1>0, <1>1, <1>8, <3>1, <3>2
  <2> QED
    BY <2>1
<1>13. traj[0] = base /\ traj[Hours] = base + t * m
  <2>1. t * 0 = 0
    BY <1>0
  <2> QED
    BY <1>0, <1>1, <1>10, <2>1
<1>14. ASSUME NEW h \in Hour
       PROVE  /\ traj[h + 1] - traj[h] = t * (charged[h + 1] - charged[h])
              /\ Flow(traj, h) = charged[h + 1] - charged[h]
  <2>1. /\ h \in 0 .. Hours /\ h + 1 \in 0 .. Hours
        /\ charged[h] \in Int /\ charged[h + 1] \in Int
    BY <1>9, <1>11
  <2>2. t * (charged[h + 1] - charged[h]) = t * charged[h + 1] - t * charged[h]
    BY <1>0, <2>1
  <2>3. t * charged[h + 1] \in Int /\ t * charged[h] \in Int /\ base \in Int
    BY <1>0, <1>1, <2>1
  <2>4. traj[h + 1] - traj[h] = t * (charged[h + 1] - charged[h])
    BY <2>1, <2>2, <2>3
  <2>5. \A d \in Int : (t * d) \div t = d
    BY <1>0
  <2>6. charged[h + 1] - charged[h] \in Int
    BY <2>1
  <2> QED
    BY <2>4, <2>5, <2>6 DEF Flow
<1>15. Dynamics(traj, start)
  BY <1>0, <1>11, <1>14 DEF Dynamics
<1>16. Gained(traj) = t * m /\ Spent(traj) = 0
  <2>1. traj \in [0 .. Hours -> Int]
    BY <1>0, <1>12
  <2>2. \A h \in Hour : traj[h] <= traj[h + 1]
    <3> SUFFICES ASSUME NEW h \in Hour PROVE traj[h] <= traj[h + 1]
      OBVIOUS
    <3>1. charged[h + 1] - charged[h] \in Nat
      BY <1>0, <1>11
    <3>2. t * (charged[h + 1] - charged[h]) \in Nat
      BY <1>0, <3>1
    <3>3. traj[h] \in Int /\ traj[h + 1] \in Int
      BY <1>11, <2>1
    <3> HIDE DEF traj
    <3> QED
      BY <1>14, <3>2, <3>3
  <2>3. t * m \in Int /\ base \in Int
    BY <1>0, <1>1, <1>5
  <2> HIDE DEF traj
  <2>4. Gained(traj) = traj[Hours] - traj[0] /\ Spent(traj) = 0
    BY <2>1, <2>2, RisingCourse
  <2> QED
    BY <1>13, <2>3, <2>4
<1>17. base + t * m >= TerminalReserve(level)
  <2>1. t * m \in Int
    BY <1>0, <1>5
  <2> QED
    BY <1>0, <1>1, <1>5, <2>1
<1> HIDE DEF traj
<1>18. traj \in Feasible(start, level)
  BY <1>0, <1>7, <1>12, <1>13, <1>15, <1>16, <1>17 DEF Feasible, base
<1> QED
  BY <1>18

(* optimizer.py:226-229: the throughput cap is taken into account when the  *)
(* reserve is set, the hours that are left are not.  So the solver's model  *)
(* has a solution exactly when full power from now on brings the reserve    *)
(* before the day is over; the generation, the prices and the cap on what   *)
(* is sold have no say.                                                     *)
THEOREM SolvableExactly ==
    ASSUME ChargeCap % TicksPerHour = 0, Terminal + TicksPerHour - 1 <= SocMax,
           NEW start \in Hour, NEW level \in 0 .. Full
    PROVE  Solvable(start, level) <=> InTime(start, level)
<1>1. ASSUME InTime(start, level) PROVE Feasible(start, level) # {}
  <2>1. ChargeCap \div TicksPerHour \in Nat
           /\ ChargeCap = TicksPerHour * (ChargeCap \div TicksPerHour)
    BY OptimizerAssumption
  <2> QED
    BY <1>1, <2>1, CourseInTime
<1>2. ASSUME Feasible(start, level) # {} PROVE InTime(start, level)
  <2>1. PICK traj \in Feasible(start, level) : TRUE
    BY <1>2
  <2>2. /\ traj \in [0 .. Hours -> SocMin .. SocMax] /\ Dynamics(traj, start)
        /\ traj[0] = SocInit(level) /\ traj[Hours] >= TerminalReserve(level)
    BY DEF Feasible
  <2>3. traj \in [0 .. Hours -> Int] /\ traj[Hours] \in Int /\ traj[0] \in Int
    BY <2>2, HourFinite, EmulatorAssumption
  <2>4. traj[Hours] <= traj[0] + (Hours - start) * HourCharge
    BY <2>2, <2>3, ChargerBounds
  <2>5. (Hours - start) * HourCharge \in Int
    BY HourChargeType, HourFinite DEF Hour
  <2> QED
    BY <2>2, <2>3, <2>4, <2>5, WantedType DEF InTime, Wanted
<1> QED
  BY <1>1, <1>2, SolvableIsFeasible

(* optimizer.py:201-204: when a day's charging is enough for the reserve,   *)
(* as it is with config.yaml's pack and inverter, the model of tomorrow has *)
(* a solution whatever level the pack is at when it is planned.             *)
THEOREM TomorrowIsFeasible ==
    ASSUME ChargeCap % TicksPerHour = 0, Terminal + TicksPerHour - 1 <= SocMax,
           Terminal - SocMin <= Hours * HourCharge
    PROVE  Spec => []TomorrowFeasible
<1>1. ASSUME PlantTypeOK PROVE TomorrowFeasible
  <2>1. Reading \in 0 .. Full
    BY <1>1, ReadingType
  <2>2. 0 \in Hour /\ Hours - 0 = Hours
    BY HourFinite, OptimizerAssumption DEF Hour
  <2>3. Terminal \in Int /\ SocMin \in Int /\ SocMax \in Int /\ Hours * HourCharge \in Int
    BY EmulatorAssumption, OptimizerAssumption, HourChargeType
  <2>4. InTime(0, Reading)
    BY <2>1, <2>2, <2>3, WantedType DEF InTime, Wanted
  <2> QED
    BY <2>1, <2>2, <2>4, SolvableExactly DEF TomorrowFeasible
<1> QED
  BY <1>1, PlantTypeCorrect, PTL
=============================================================================

------------------------------ MODULE Optimizer ------------------------------
(***************************************************************************)
(* How a day's prices become 24 hourly actions: BESSOptimizer              *)
(* (edge/src/control/optimizer.py) and the rule-based action that stands   *)
(* in when there is no plan (edge/src/control/fallback.py).  Operators     *)
(* only: the optimizer keeps no state but the name of its last method,     *)
(* which is part of the plan here.                                         *)
(*                                                                         *)
(* The MILP is given by its constraints.  Which of the feasible plans the  *)
(* solver picks is left open: CBC is external and may stop at its time     *)
(* limit with any of them.  A slot's power is the flow of one tick, and an *)
(* hour has TicksPerHour of them.                                          *)
(***************************************************************************)
EXTENDS Emulator, FiniteSetsExt

CONSTANTS Hours,         \* model bound: hours of the day (24)
          TicksPerHour,  \* model: ticks in an hour
          ChargeCap,     \* max_daily_throughput_kwh, as energy stored
          DrainCap,      \* the same, as energy taken out
          Terminal,      \* terminal_soc_pct (50 %)
          Ranked,        \* how many cheap and dear hours greedy looks at (8)
          Prices,        \* price levels of an hour
          HalfSpread,    \* min_spread_uah_mwh / 2
          InitialSoc,    \* initial_soc_pct (50 %)
          Reserve,       \* RESERVE_PCT (35 %)
          Night, Peak, Midday, \* local hours of the default's windows
          LocalOffset,   \* Kyiv time minus UTC
          NightPower, DepletedPower, MiddayPower, PeakPower \* 50, 80, 60, 70 %

ASSUME OptimizerAssumption ==
    /\ Hours \in Nat \ {0} /\ TicksPerHour \in Nat \ {0}
    /\ ChargeCap \in Nat /\ DrainCap \in Nat /\ Terminal \in Nat
    /\ Ranked \in Nat /\ Prices \subseteq Nat /\ HalfSpread \in Nat
    /\ InitialSoc \in SocMin .. SocMax /\ Reserve \in SocMin .. SocMax
    /\ LocalOffset \in Nat
    /\ {NightPower, DepletedPower, MiddayPower} \subseteq 0 .. ChargeStep
    /\ PeakPower \in 0 .. DrainStep
    /\ TicksPerHour <= MaxHold

(* The default's reserve is worth more than an hour of its sale: 25 % of    *)
(* the pack, where config.yaml's inverter takes 18.4 % at 70 % of its power.*)
ASSUME ReserveAssumption ==
    /\ InitialSoc > Reserve
    /\ (TicksPerHour - 1) * (PeakPower + 1) <= Reserve - SocMin

Hour == 0 .. Hours - 1

-----------------------------------------------------------------------------
(* _milp_optimize                                                           *)

(* A mutant of SocInit: the pack's level is taken as it is.                 *)
SocInitUnclamped(level) == level

(* The level the plan starts from: the pack can sit a little outside.       *)
SocInit(level) == Clamp(level, SocMin, SocMax)

(* The reserve the day must end with, lowered to what the throughput cap    *)
(* lets the pack reach.                                                     *)
TerminalReserve(level) ==
    Smaller(Smaller(Terminal, SocMax), SocInit(level) + ChargeCap)

(* The flow of one tick of hour h, when traj[h] is the state of charge at   *)
(* the start of hour h.                                                     *)
Flow(traj, h) == (traj[h + 1] - traj[h]) \div TicksPerHour

Gained(traj) == MapThenSumSet(LAMBDA h : Larger(traj[h + 1] - traj[h], 0), Hour)
Spent(traj) == MapThenSumSet(LAMBDA h : Larger(traj[h] - traj[h + 1], 0), Hour)

(* SoC dynamics within the power limits; nothing moves before hour start.   *)
Dynamics(traj, start) ==
    \A h \in Hour :
        /\ traj[h + 1] - traj[h] = TicksPerHour * Flow(traj, h)
        /\ Flow(traj, h) \in -DrainStep .. ChargeStep
        /\ h < start => Flow(traj, h) = 0

(* The model handed to the solver.                                          *)
Feasible(start, level) ==
    {traj \in [0 .. Hours -> SocMin .. SocMax] :
        /\ traj[0] = SocInit(level)
        /\ Dynamics(traj, start)
        /\ Gained(traj) <= ChargeCap /\ Spent(traj) <= DrainCap
        /\ traj[Hours] >= TerminalReserve(level)}

(* A mutant of SlotAction: an hour without battery power is SOLAR_PRIORITY. *)
SlotActionSolar(flow) ==
    IF flow < 0 THEN Sell(-flow) ELSE IF flow > 0 THEN Charge(flow) ELSE SolarPriority

(* The action of an hour in which the solution moves this much: the edge    *)
(* always passes both forecasts, so an hour without battery power is IDLE.  *)
SlotAction(flow) ==
    IF flow < 0 THEN Sell(-flow) ELSE IF flow > 0 THEN Charge(flow) ELSE Idle

MilpPlan(traj) ==
    [method |-> "milp", traj |-> traj,
     slots |-> [h \in Hour |-> SlotAction(Flow(traj, h))]]

-----------------------------------------------------------------------------
(* _greedy_optimize                                                         *)

Total(prices) == MapThenSumSet(LAMBDA h : prices[h], Hour)

(* Position of h in the hours sorted by price; the sort is stable.          *)
Position(prices, h) ==
    Cardinality({g \in Hour : prices[g] < prices[h]
                                \/ (prices[g] = prices[h] /\ g < h)})

(* Among the cheapest or dearest Ranked hours, by enough below or above the *)
(* day's average.                                                           *)
Cheap(prices, h) ==
    /\ Position(prices, h) < Ranked
    /\ Total(prices) - Hours * prices[h] > Hours * HalfSpread

Dear(prices, h) ==
    /\ Position(prices, h) >= Hours - Ranked
    /\ Hours * prices[h] - Total(prices) > Hours * HalfSpread

(* What greedy plans for hour h with the pack simulated to be at level: the *)
(* action, and the energy it books.  The power is rounded to what a slot    *)
(* can hold, the booked energy is not.                                      *)
GreedySlot(prices, start, h, level) ==
    LET room  == Smaller(TicksPerHour * ChargeStep, SocMax - level)
        avail == Smaller(TicksPerHour * DrainStep, level - SocMin)
    IN  CASE h >= start /\ Cheap(prices, h) /\ level < SocMax ->
                 [slot |-> Charge(room \div TicksPerHour), energy |-> room]
          [] h >= start /\ Dear(prices, h) /\ level > SocMin ->
                 [slot |-> Sell(avail \div TicksPerHour), energy |-> -avail]
          [] OTHER -> [slot |-> SolarPriority, energy |-> 0]

(* The simulated pack at the start of each hour.                            *)
GreedyCourse(prices, start, level) ==
    LET course[h \in 0 .. Hours] ==
            IF h = 0 THEN level
            ELSE course[h - 1] + GreedySlot(prices, start, h - 1, course[h - 1]).energy
    IN  course

GreedyPlan(prices, start, level) ==
    LET course == GreedyCourse(prices, start, level)
    IN  [method |-> "greedy",
         slots |-> [h \in Hour |-> GreedySlot(prices, start, h, course[h]).slot]]

-----------------------------------------------------------------------------
(* optimize: a plan of the solver's; greedy's when it fails or finds none.  *)
PlansFor(start, level) ==
    {MilpPlan(traj) : traj \in Feasible(start, level)}
    \cup {GreedyPlan(prices, start, level) : prices \in [Hour -> Prices]}

(* The same as a table, computed once.                                      *)
Planned == [start \in Hour |-> [level \in 0 .. Full |-> PlansFor(start, level)]]

-----------------------------------------------------------------------------
(* FallbackController._default_action: rules by the local clock, for a pack *)
(* reported at this level (or by a device that has no reading yet).         *)

(* A mutant of DefaultAction: the rules do not look at the pack.            *)
DefaultActionByClock(h, level, known) ==
    LET local == (h + LocalOffset) % Hours
    IN  CASE local \in Night -> Charge(NightPower)
          [] local \in Peak  -> Sell(PeakPower)
          [] OTHER           -> SolarPriority

DefaultAction(h, level, known) ==
    LET local    == (h + LocalOffset) % Hours
        depleted == known /\ level <= Reserve
    IN  CASE local \in Night -> Charge(IF depleted THEN DepletedPower ELSE NightPower)
          [] local \in Peak  -> IF depleted THEN SolarPriority ELSE Sell(PeakPower)
          [] depleted /\ local \in Midday -> Charge(MiddayPower)
          [] OTHER           -> SolarPriority
=============================================================================

------------------------------- MODULE PlantDay -------------------------------
(***************************************************************************)
(* A plan and the plant that carries it out: the optimizer, the emulator   *)
(* and the loops of EdgeOrchestrator between them (edge/src/main.py), over *)
(* a few days.  Time goes by in ticks, TicksPerHour to the hour.  In each  *)
(* the schedule loop has its turn (it polls every minute) before the       *)
(* sensor loop ticks the emulator; plans, commands and restarts come in    *)
(* between.  Where the prices come from and how plans are stored is the    *)
(* subject of EdgePlanner; here a day has a plan or it has none.           *)
(***************************************************************************)
EXTENDS Optimizer

CONSTANTS LastDay,     \* model bound: days are 1 .. LastDay
          DueHour,     \* 14 UTC, from when prices for tomorrow are out
          MaxPlans,    \* model bound: plans computed in a day
          MaxTrouble,  \* model bound: everything that disturbs a plan
          Surpluses,   \* generation minus load in a tick
          Commands     \* what operators command

ASSUME PlantAssumption ==
    /\ LastDay \in Nat \ {0} /\ DueHour \in Nat /\ MaxPlans \in Nat /\ MaxTrouble \in Nat
    /\ Surpluses \subseteq Int /\ Commands \subseteq Actions

NoPlan == [method |-> "none"]
NoReading == -1

VARIABLES day, hour,   \* the UTC date and hour; the day is over in hour Hours
          part,        \* ticks of the hour that are over
          polled,      \* the schedule loop had its turn in this tick
          plan, next,  \* the stored plans for today and for tomorrow
          telem,       \* state of charge of the latest stored telemetry
          override,    \* ticks until the orchestrator's _override_until
          source,      \* history: who decided the action in force; "blind":
                       \* the default did, without the level, or the grid went
          adrift,      \* history: the plan was not what the plant followed
          slack,       \* history: how far the plant was off when it was made
          plans, trouble

clockVars == <<day, hour, part>>
loopVars == <<clockVars, polled, plan, next, telem, override>>
historyVars == <<source, adrift, slack, plans, trouble>>
vars == <<emulatorVars, loopVars, historyVars>>

DayRuns == hour < Hours

(* A plan of the solver's obeys the constraints it was given, and its slots *)
(* are what its trajectory calls for.                                       *)
PlanOK(p) ==
    /\ p.method \in {"milp", "greedy"}
    /\ p.slots \in [Hour -> Actions]
    /\ p.method = "milp" =>
          /\ p.traj \in [0 .. Hours -> SocMin .. SocMax]
          /\ Dynamics(p.traj, 0)
          /\ p.traj[Hours] >= TerminalReserve(p.traj[0])
          /\ \A h \in Hour : p.slots[h] = SlotAction(Flow(p.traj, h))

(* Type invariant: every stored plan is one the optimizer can have made.    *)
PlantTypeOK ==
    /\ EmulatorTypeOK
    /\ day \in 1 .. LastDay /\ hour \in 0 .. Hours
    /\ part \in 0 .. TicksPerHour - 1 /\ (hour = Hours => part = 0)
    /\ polled \in BOOLEAN
    /\ \A p \in {plan, next} \ {NoPlan} : PlanOK(p)
    /\ telem \in {NoReading} \cup 0 .. Full
    /\ override \in 0 .. MaxHold
    /\ source \in {"plan", "default", "blind", "command", "none"}
    /\ adrift \in BOOLEAN /\ slack \in Nat
    /\ plans \in 0 .. MaxPlans /\ trouble \in 0 .. MaxTrouble

-----------------------------------------------------------------------------
(* Where a plan of the solver's says the pack is, so far into an hour.      *)
Promised(p, h, n) ==
    IF n = 0 THEN p.traj[h] ELSE p.traj[h] + n * Flow(p.traj, h)

(* A plan comes into force: how far off it is from the start, and whether   *)
(* it promises anything at all (greedy does not model the house).           *)
Track(p, h, n) ==
    IF p = NoPlan \/ p.method # "milp"
    THEN adrift' = TRUE /\ slack' = 0
    ELSE adrift' = FALSE /\ slack' = Distance(Promised(p, h, n), soc)

Disturb == trouble < MaxTrouble /\ trouble' = trouble + 1

(* run: the pack continues from where it was; at the first start there is   *)
(* no telemetry yet.  The day begins with any level the pack can be at.     *)
Init ==
    /\ \E level \in SocMin - 1 .. SocMax :
          /\ EmulatorStart(level)
          /\ telem \in {level} \cup (IF level = InitialSoc THEN {NoReading} ELSE {})
    /\ day = 1 /\ hour = 0 /\ part = 0 /\ polled = FALSE
    /\ plan = NoPlan /\ next = NoPlan
    /\ override = 0
    /\ source = "none" /\ adrift = TRUE /\ slack = 0
    /\ plans = 0 /\ trouble = 0

(* What the optimizer and a new process take the pack's level to be.        *)
Reading == IF telem = NoReading THEN InitialSoc ELSE telem

-----------------------------------------------------------------------------
(* _schedule_loop                                                           *)

CurrentAction ==
    IF plan # NoPlan THEN plan.slots[hour]
    ELSE DefaultAction(hour, telem, telem # NoReading)

(* The hourly action is set for 61 minutes: for the hour, and not to run    *)
(* out before the next poll.                                                *)
SetHourly == SetMode(CurrentAction, TicksPerHour)

FollowsSchedule ==
    /\ ~polled /\ DayRuns /\ override = 0
    /\ polled' = TRUE
    /\ SetHourly
    /\ source' = IF plan # NoPlan THEN "plan"
                 ELSE IF Reading = soc THEN "default" ELSE "blind"
    /\ UNCHANGED <<soc, gridUp, faults, clockVars, plan, next, telem, override,
                   adrift, slack, plans, trouble>>

(* An operator's override is left alone.                                    *)
LeavesOverride ==
    /\ ~polled /\ DayRuns /\ override > 0
    /\ polled' = TRUE
    /\ UNCHANGED <<emulatorVars, clockVars, plan, next, telem, override, historyVars>>

(* The loop's round fails, in the store for instance, and is logged.        *)
ScheduleLoopFails ==
    /\ ~polled /\ DayRuns /\ Disturb
    /\ polled' = TRUE
    /\ UNCHANGED <<emulatorVars, clockVars, plan, next, telem, override,
                   source, adrift, slack, plans>>

-----------------------------------------------------------------------------
(* _run_optimizer_and_publish                                               *)

(* For today, from the hour that has begun.                                 *)
PlanToday ==
    /\ plans < MaxPlans /\ DayRuns
    /\ \E p \in Planned[hour][Reading] : plan' = p /\ Track(p, hour, part)
    /\ plans' = plans + 1
    /\ UNCHANGED <<emulatorVars, clockVars, polled, next, telem, override, source, trouble>>

(* For tomorrow, from midnight, though the level is the one of now.         *)
PlanTomorrow ==
    /\ plans < MaxPlans /\ hour \in DueHour .. Hours - 1 /\ day < LastDay
    /\ \E p \in Planned[0][Reading] : next' = p
    /\ plans' = plans + 1
    /\ UNCHANGED <<emulatorVars, clockVars, polled, plan, telem, override, source,
                   adrift, slack, trouble>>

-----------------------------------------------------------------------------
(* _apply_command, from the cloud or the local API, accepted.               *)
Command ==
    /\ Disturb
    /\ \E a \in Commands, ticks \in 1 .. MaxHold :
          SetMode(a, ticks) /\ override' = ticks
    /\ source' = "command"
    /\ UNCHANGED <<soc, gridUp, faults, clockVars, polled, plan, next, telem,
                   adrift, slack, plans>>

-----------------------------------------------------------------------------
(* _sensor_loop                                                             *)

(* One tick of the emulator.  Its snapshot is stored, unless that fails; a  *)
(* tick that leaks, an outage that begins, and a snapshot that is lost are  *)
(* the disturbances the model counts.                                       *)
SensorTick(surplus, leak, up, stored) ==
    /\ polled /\ DayRuns
    /\ EmulatorTick(surplus, leak, up)
    /\ IF leak > 0 \/ (gridUp /\ ~up) \/ ~stored THEN Disturb ELSE UNCHANGED trouble
    /\ telem' = IF stored THEN soc' ELSE telem
    /\ IF part + 1 = TicksPerHour THEN hour' = hour + 1 /\ part' = 0
                                 ELSE part' = part + 1 /\ UNCHANGED hour
    /\ polled' = FALSE
    /\ override' = Larger(override - 1, 0)
    /\ adrift' = (adrift \/ ~up \/ InForce # plan.slots[hour])
    /\ slack' = IF adrift' THEN 0 ELSE slack + leak
    /\ source' = IF source = "default" /\ ~up THEN "blind" ELSE source
    /\ UNCHANGED <<day, plan, next, plans>>

SensorLoop ==
    \E surplus \in Surpluses, leak \in {0, 1}, up, stored \in BOOLEAN :
        SensorTick(surplus, leak, up, stored)

(* The date changes, and with it which of the stored plans is today's.      *)
Midnight ==
    /\ hour = Hours /\ day < LastDay
    /\ day' = day + 1 /\ hour' = 0
    /\ plan' = next /\ next' = NoPlan
    /\ Track(next, 0, 0)
    /\ plans' = 0
    /\ UNCHANGED <<emulatorVars, part, polled, telem, override, source, trouble>>

(* run, in a new process: the plans come back from their file, the pack     *)
(* from its last stored reading, an override is forgotten.                  *)
Restart ==
    /\ Disturb
    /\ EmulatorRestart(Reading)
    /\ polled' = FALSE /\ override' = 0 /\ source' = "none"
    /\ adrift' = (adrift \/ Reading # soc)
    /\ slack' = IF adrift' THEN 0 ELSE slack
    /\ UNCHANGED <<clockVars, plan, next, telem, plans>>

-----------------------------------------------------------------------------
ScheduleLoop == FollowsSchedule \/ LeavesOverride \/ ScheduleLoopFails

Next ==
    \/ ScheduleLoop \/ SensorLoop
    \/ PlanToday \/ PlanTomorrow \/ Command
    \/ Midnight \/ Restart

Spec == Init /\ [][Next]_vars

-----------------------------------------------------------------------------
(* Properties                                                               *)

(* emulator.py:400-403, 430-441: no tick, whatever its mode and its length, *)
(* and grid or no grid, takes the pack past either end of its window.       *)
(* Self-discharge alone does.                                               *)
SocWindow ==
    [][trouble' = trouble =>
          /\ soc' <= Larger(soc, SocMax)
          /\ soc' >= Smaller(soc, SocMin)]_vars

(* emulator.py:443-455: what the fault bitmask says is so now: an outage,   *)
(* an empty pack, an empty pack with no grid; nothing it says is history.   *)
FaultsCurrent ==
    /\ "GRID_OUTAGE" \in faults <=> ~gridUp
    /\ "LOW_SOC" \in faults => soc <= SocMin
    /\ "BLACKOUT_RISK" \in faults => soc <= SocMin /\ ~gridUp

(* optimizer.py:260-265: a day carried out by the solver's plan stays with  *)
(* it: the pack is never further from the planned level than it was when    *)
(* the plan was made (or came into force at midnight), but for what leaked. *)
PlanHolds == ~adrift => Distance(Promised(plan, hour, part), soc) <= slack

(* optimizer.py:54-59: such a day ends with the reserve for the next one.   *)
ReserveKept ==
    hour = Hours /\ ~adrift => soc >= TerminalReserve(plan.traj[0]) - slack

(* fallback.py:156-161: the rule-based default never sells a pack empty: as *)
(* long as it sees the pack's level and the grid is there, no low-SoC fault *)
(* comes from its action, even when the loop that would end a sale fails.   *)
DefaultNeverEmpties == source = "default" /\ hold < TicksPerHour => "LOW_SOC" \notin faults

(* optimizer.py:201-204: whatever level the pack is at, the solver is given *)
(* a model of tomorrow it can solve.                                        *)
Solvable(start, level) == \E p \in Planned[start][level] : p.method = "milp"

TomorrowFeasible == Solvable(0, Reading)

(* optimizer.py:226-228: the terminal reserve alone never makes the model   *)
(* infeasible, from whatever hour the rest of the day is planned.  It does, *)
(* late in the day; then greedy plans.                                      *)
AlwaysFeasible == DayRuns => Solvable(hour, Reading)
=============================================================================

------------------------------- MODULE Emulator -------------------------------
(***************************************************************************)
(* The plant behind the edge: BESSEmulator (edge/src/sensors/emulator.py). *)
(*                                                                         *)
(* Energy is counted in pack units, as it arrives in or leaves the pack,   *)
(* so the two efficiencies show as ChargeStep being smaller than DrainStep *)
(* for one and the same inverter power.  A tick here stands for all the    *)
(* code's ticks of a TickMin-long stretch with one and the same set-point: *)
(* the limits of _compute_dispatch do not depend on the step's length.     *)
(* The clamp of one tick to 0.1 to 60 s is left out: the loop ticks every  *)
(* few seconds, and a tick that comes late (the loop was held up, or the   *)
(* host suspended) moves less energy here than the time would allow, as if *)
(* the stretch had been shorter.                                           *)
(* Left out: everything that feeds no decision of the program (weather,    *)
(* voltages, temperatures, meters) and FAULT_THERMAL, which the thermal    *)
(* model never raises: it tends to at most 27 degrees, the alarm is at 45. *)
(***************************************************************************)
EXTENDS Integers

CONSTANTS Full,       \* 100 % of the pack
          SocMin,     \* soc_min_pct (10 %)
          SocMax,     \* soc_max_pct (95 %)
          ChargeStep, \* most a tick adds: battery_charge_kw_max x efficiency
          DrainStep,  \* most a tick takes: battery_discharge_kw_max / efficiency
          MaxHold     \* model bound: ticks an override lasts

ASSUME EmulatorAssumption ==
    /\ Full \in Nat /\ SocMin \in Nat /\ SocMax \in Nat
    /\ 0 < SocMin /\ SocMin < SocMax /\ SocMax < Full
    /\ ChargeStep \in Nat \ {0} /\ DrainStep \in Nat \ {0}
    /\ MaxHold \in Nat \ {0}

VARIABLES soc,     \* _soc_pct
          action,  \* _mode with _charge_pct or _discharge_pct
          hold,    \* ticks until _override_until; 0 once it has passed
          gridUp,  \* _grid_connected
          faults   \* _fault_code

emulatorVars == <<soc, action, hold, gridUp, faults>>

Smaller(a, b) == IF a < b THEN a ELSE b
Larger(a, b) == IF a < b THEN b ELSE a
Clamp(x, low, high) == Larger(low, Smaller(high, x))
Distance(a, b) == IF a < b THEN b - a ELSE a - b

Modes == {"SOLAR_PRIORITY", "GRID_CHARGE", "DISCHARGE_SELL", "BACKUP_MODE", "IDLE"}
Actions == [mode : Modes, power : 0 .. Larger(ChargeStep, DrainStep)]
Faults == {"LOW_SOC", "BLACKOUT_RISK", "GRID_OUTAGE"}

Do(mode, power) == [mode |-> mode, power |-> power]
SolarPriority == Do("SOLAR_PRIORITY", 0)
Idle == Do("IDLE", 0)
Charge(power) == Do("GRID_CHARGE", power)
Sell(power) == Do("DISCHARGE_SELL", power)

EmulatorTypeOK ==
    /\ soc \in 0 .. Full
    /\ action \in Actions
    /\ hold \in 0 .. MaxHold
    /\ gridUp \in BOOLEAN
    /\ faults \subseteq Faults

(* __init__                                                                 *)
EmulatorStart(level) ==
    /\ soc = level /\ action = SolarPriority /\ hold = 0
    /\ gridUp = TRUE /\ faults = {}

-----------------------------------------------------------------------------
(* set_mode: the new mode and, for duration_min, its expiry.                *)
SetMode(a, ticks) == action' = a /\ hold' = ticks

(* A new process: __init__, then restore from the last recorded telemetry.  *)
EmulatorRestart(level) ==
    /\ soc' = level /\ SetMode(SolarPriority, 0)
    /\ gridUp' = TRUE /\ faults' = {}

-----------------------------------------------------------------------------
(* _compute_dispatch                                                        *)

(* An override past its deadline gives way to SOLAR_PRIORITY.               *)
InForce == IF hold = 0 THEN SolarPriority ELSE action

(* What the mode asks of the battery, + charging.  Alone against the house  *)
(* load (no grid, SOLAR_PRIORITY, BACKUP_MODE) the battery takes or gives   *)
(* the surplus.                                                             *)
SetPoint(a, surplus, up) ==
    CASE ~up \/ a.mode \in {"SOLAR_PRIORITY", "BACKUP_MODE"} ->
             Clamp(surplus, -DrainStep, ChargeStep)
      [] up /\ a.mode = "GRID_CHARGE"    -> Smaller(a.power, ChargeStep)
      [] up /\ a.mode = "DISCHARGE_SELL" -> -Smaller(a.power, DrainStep)
      [] up /\ a.mode = "IDLE"           -> 0

LowSoc(ask) == ask < 0 /\ soc <= SocMin

(* A mutant of Limited: at the end of its window the pack stops, but within *)
(* one step it may travel past it.                                          *)
LimitedAtStart(ask) ==
    IF (ask > 0 /\ soc >= SocMax) \/ LowSoc(ask) THEN 0 ELSE ask

(* The limits of the state of charge: no further than to soc_max or to      *)
(* soc_min within the step, and nothing out of a pack at soc_min.           *)
Limited(ask) ==
    CASE ask > 0  -> Smaller(ask, Larger(0, SocMax - soc))
      [] ask = 0  -> 0
      [] ask < 0  -> IF LowSoc(ask) THEN 0 ELSE Larger(ask, SocMin - soc)

(* The fault bits after a tick: _evolve_grid touches its own on a change of *)
(* the grid only, the other two are recomputed by every dispatch.           *)
FaultsAfter(ask, a, up) ==
    (IF gridUp = up THEN faults \cap {"GRID_OUTAGE"} ELSE {})
    \cup (IF gridUp /\ ~up THEN {"GRID_OUTAGE"} ELSE {})
    \cup (IF LowSoc(ask) /\ a.mode = "DISCHARGE_SELL" THEN {"LOW_SOC"} ELSE {})
    \cup (IF LowSoc(ask) /\ ~up THEN {"BLACKOUT_RISK"} ELSE {})

(* A mutant of SocAfter: nothing keeps the level between 0 and 100 %.       *)
SocAfterUnclamped(flow, leak) == soc - leak + flow

(* _update_battery: self-discharge, then the step's energy, within 0..100 %. *)
SocAfter(flow, leak) == Clamp(soc - leak + flow, 0, Full)

(* tick: the grid evolves first, then the dispatch, then the battery.       *)
EmulatorTick(surplus, leak, up) ==
    LET ask == SetPoint(InForce, surplus, up)
    IN  /\ gridUp' = up
        /\ faults' = FaultsAfter(ask, InForce, up)
        /\ soc' = SocAfter(Limited(ask), leak)
        /\ SetMode(InForce, Larger(hold - 1, 0))
=============================================================================

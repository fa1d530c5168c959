--------------------------- MODULE ForwardProjection ---------------------------
(***************************************************************************)
(* The cloud's hourly maintenance pass over the future: _ensure_forward    *)
(* (cloud/api/src/history.py), which ensure_history calls once the past is *)
(* filled.  For every day from today on it looks for a stored schedule and *)
(* a projection, computes what is missing and writes it.  The schedules    *)
(* that the edge publishes arrive meanwhile (InfluxWriter.write_schedule   *)
(* for the producer "edge").                                               *)
(*                                                                         *)
(* Each database call and each page fetched is an await; a call that fails *)
(* is logged and goes unnoticed.  The charge that the projection starts    *)
(* from is left out, and so is the hour of today it starts at.             *)
(*                                                                         *)
(* The lookups of a day are one step.  They read a schedule that is never  *)
(* deleted and a projection that only the pass itself writes, so what may  *)
(* come between two of them is the device's schedule.  Coming after the    *)
(* first it is as if it came after all of them, unless a stored schedule   *)
(* was found: then the metadata read next are the device's, as if it had   *)
(* come before all of them.                                                *)
(***************************************************************************)
EXTENDS Naturals

CONSTANTS LastDay,      \* model bound: the clock stops on this day
          Horizon,      \* FORECAST_DAYS
          NearTerm,     \* near_term_upgrade_days
          MaxTroubles   \* model bound: passes abandoned half-way and calls
                        \* that the database fails

ASSUME ForwardAssumption ==
    /\ LastDay \in Nat /\ MaxTroubles \in Nat
    /\ Horizon \in Nat \ {0} /\ NearTerm \in 0 .. Horizon

Days == 0 .. LastDay + Horizon - 1
None == "none"

VARIABLES now,     \* today
          plan,    \* stored schedule of a day: the edge's, or one the cloud made
                   \* from real ("oree") or from static ("fallback") prices
          price,   \* best source of a day's market_price
          fc,      \* what a day's projection follows, "part" while incomplete,
                   \* "mixed" if points of an older one stand beside it
          at,      \* the await the pass is at
          today, offset,  \* its locals
          found,   \* the schedule it found, "unknown" if that was all it got
          kept,    \* has_telemetry_fc
          source, basis,
          misled,  \* history: the lookup of the day in hand failed, or the
                   \* device's schedule of that day has come in since
          troubles

locals == <<today, offset, found, kept, source, basis>>
vars == <<now, plan, price, fc, at, locals, misled, troubles>>

Steps == {"off", "look", "prices", "schedule", "storePrices", "storePlan",
          "clear", "replay", "rest"}

(* Type invariant.                                                          *)
ForwardTypeOK ==
    /\ now \in 0 .. LastDay /\ today \in 0 .. LastDay
    /\ plan \in [Days -> {None, "edge", "oree", "fallback"}]
    /\ price \in [Days -> {None, "oree", "fallback"}]
    /\ fc \in [Days -> {None, "part", "mixed", "edge", "cloud"}]
    /\ at \in Steps /\ offset \in 0 .. Horizon
    /\ at \notin {"off", "look"} => offset < Horizon
    /\ found \in {None, "edge", "oree", "fallback", "unknown"}
    /\ kept \in BOOLEAN
    /\ source \in {None, "oree", "fallback"} /\ basis \in {"edge", "cloud"}
    /\ basis = "edge" => found = "edge" /\ offset < NearTerm
    /\ misled \in BOOLEAN
    /\ troubles \in 0 .. MaxTroubles

Init ==
    /\ now = 0
    /\ plan = [d \in Days |-> None] /\ price = [d \in Days |-> None]
    /\ fc = [d \in Days |-> None]
    /\ at = "off" /\ today = 0 /\ offset = 0
    /\ found = None /\ kept = FALSE /\ source = None /\ basis = "cloud"
    /\ misled = FALSE /\ troubles = 0

(* A call of InfluxWriter: it does what it says, or it fails unnoticed.     *)
Call(ok) ==
    IF ok THEN UNCHANGED troubles
    ELSE troubles < MaxTroubles /\ troubles' = troubles + 1

-----------------------------------------------------------------------------
(* The pass                                                                 *)

d0 == today + offset
near == offset < NearTerm

NextOffset ==
    offset' = offset + 1 /\ at' = "look" /\ basis' = "cloud" /\ misled' = FALSE

(* Mutants of NeedsUpgrade: the device's schedule is redone too; a schedule *)
(* once written is done.                                                    *)
NeedsUpgradeOfAny(plan0) == near /\ plan0 \notin {None, "oree"}
NeedsUpgradeNever(plan0) == FALSE

(* needs_upgrade                                                            *)
NeedsUpgrade(plan0) == near /\ plan0 \in {"fallback", "unknown"}

UpgradedNow == NeedsUpgrade(found) /\ source = "oree"

StartPass ==
    /\ at = "off"
    /\ at' = "look" /\ today' = now /\ offset' = 0
    /\ UNCHANGED <<now, plan, price, fc, found, kept, source, basis, misled, troubles>>

(* What the lookups of _has_schedule and _schedule_meta answer; with a      *)
(* failed call nothing is found, or nothing but that there is a schedule.   *)
Lookup(ok) ==
    IF ok \/ plan[d0] = None THEN {plan[d0]} ELSE {None, "unknown"}

(* Mutants of Rebuilt: a projection is never made anew; it need not exist.  *)
RebuiltNever == fc[d0] = None
RebuiltNearOnly == near

(* The near-term projection is always made anew, a later one if there is    *)
(* none.                                                                    *)
Rebuilt == near \/ fc[d0] = None

(* A mutant: one day too many.                                              *)
LookTooFar ==
    /\ at = "look" /\ offset <= Horizon
    /\ found' \in Lookup(TRUE)
    /\ kept' = ~Rebuilt
    /\ IF found' # None /\ kept' /\ ~NeedsUpgrade(found') THEN NextOffset
       ELSE at' = "prices" /\ UNCHANGED <<offset, basis, misled>>
    /\ UNCHANGED <<now, plan, price, fc, today, source, troubles>>

(* The lookups of the next day, and whether there is anything to do.        *)
Look ==
    /\ at = "look" /\ offset < Horizon
    /\ \E ok \in BOOLEAN :
          /\ Call(ok)
          /\ found' \in Lookup(ok)
          /\ kept' \in {~Rebuilt} \cup (IF ok THEN {} ELSE {FALSE})
          /\ IF found' # None /\ kept' /\ ~NeedsUpgrade(found') THEN NextOffset
             ELSE at' = "prices" /\ misled' = ~ok /\ UNCHANGED <<offset, basis>>
    /\ UNCHANGED <<now, plan, price, fc, today, source>>

PassDone ==
    /\ at = "look" /\ offset = Horizon
    /\ at' = "off"
    /\ UNCHANGED <<now, plan, price, fc, locals, misled, troubles>>

(* _prices_for: stored real prices, or a page that is there.                *)
RealPrices ==
    /\ at = "prices"
    /\ source' = "oree"
    /\ at' = "schedule"
    /\ UNCHANGED <<now, plan, price, fc, today, offset, found, kept, basis, misled,
                   troubles>>

(* Neither: the static curve.                                               *)
StaticPrices ==
    /\ at = "prices"
    /\ Call(price[d0] # "oree")
    /\ source' = "fallback"
    /\ at' = "schedule"
    /\ UNCHANGED <<now, plan, price, fc, today, offset, found, kept, basis, misled>>

(* The device's own schedule, read back, or else the optimizer's.           *)
Schedule ==
    /\ at = "schedule"
    /\ \E ok \in BOOLEAN :
          /\ Call(ok)
          /\ basis' = IF ok /\ near /\ found = "edge" THEN "edge" ELSE "cloud"
    /\ IF found = None \/ UpgradedNow THEN at' = "storePrices" ELSE at' = "clear"
    /\ UNCHANGED <<now, plan, price, fc, today, offset, found, kept, source, misled>>

StorePrices ==
    /\ at = "storePrices"
    /\ \E ok \in BOOLEAN :
          /\ Call(ok)
          /\ price' = IF ok /\ price[d0] # "oree" THEN [price EXCEPT ![d0] = source]
                      ELSE price
    /\ at' = "storePlan"
    /\ UNCHANGED <<now, plan, fc, locals, misled>>

(* The schedule is written over whatever is stored by now.                  *)
StorePlan ==
    /\ at = "storePlan"
    /\ \E ok \in BOOLEAN :
          /\ Call(ok)
          /\ plan' = IF ok THEN [plan EXCEPT ![d0] = source] ELSE plan
    /\ IF kept /\ ~UpgradedNow THEN NextOffset
       ELSE at' = "clear" /\ UNCHANGED <<offset, basis, misled>>
    /\ UNCHANGED <<now, price, fc, today, found, kept, source>>

(* _replay_day deletes the day's old projection; its points stay beside the *)
(* new ones, as series of their own, if that fails,                         *)
Clear ==
    /\ at = "clear"
    /\ \E ok \in BOOLEAN :
          /\ Call(ok)
          /\ fc' = [fc EXCEPT ![d0] = IF ok \/ @ = None THEN None ELSE "mixed"]
    /\ at' = "replay"
    /\ UNCHANGED <<now, plan, price, locals, misled>>

(* writes the first point of the new one                                    *)
ReplayBegins ==
    /\ at = "replay"
    /\ \E ok \in BOOLEAN :
          /\ Call(ok)
          /\ fc' = IF ok /\ fc[d0] = None THEN [fc EXCEPT ![d0] = "part"] ELSE fc
    /\ at' = "rest"
    /\ UNCHANGED <<now, plan, price, locals, misled>>

(* and the others.                                                          *)
ReplayEnds ==
    /\ at = "rest"
    /\ \E ok \in BOOLEAN :
          /\ Call(ok)
          /\ fc' = IF ok /\ fc[d0] \in {None, "part"}
                   THEN [fc EXCEPT ![d0] = IF @ = None THEN "part" ELSE basis]
                   ELSE fc
    /\ NextOffset
    /\ UNCHANGED <<now, plan, price, today, found, kept, source>>

(* BACKFILL_MAX_RUNTIME_S is up or the process restarts.                    *)
Abort ==
    /\ at # "off" /\ troubles < MaxTroubles
    /\ troubles' = troubles + 1
    /\ at' = "off" /\ offset' = 0 /\ basis' = "cloud" /\ misled' = FALSE
    /\ UNCHANGED <<now, plan, price, fc, today, found, kept, source>>

-----------------------------------------------------------------------------
(* The edge publishes schedules for the near term: today and tomorrow.      *)
EdgeSchedule ==
    /\ \E d \in now .. now + NearTerm - 1 :
          /\ plan[d] # "edge"
          /\ plan' = [plan EXCEPT ![d] = "edge"]
          /\ misled' = (misled \/ (at \notin {"off", "look"} /\ d = d0))
    /\ UNCHANGED <<now, price, fc, at, locals, troubles>>

Clock ==
    /\ now < LastDay /\ now' = now + 1
    /\ UNCHANGED <<plan, price, fc, at, locals, misled, troubles>>

Pass ==
    \/ StartPass \/ Look \/ PassDone \/ RealPrices \/ StaticPrices \/ Schedule
    \/ StorePrices \/ StorePlan \/ Clear \/ ReplayBegins \/ ReplayEnds

Next == Pass \/ Abort \/ EdgeSchedule \/ Clock

Spec == Init /\ [][Next]_vars

(* Passes are started and their calls return; the page of a day that is     *)
(* asked for again and again is there one day.                              *)
FairSpec ==
    /\ Spec /\ WF_vars(Pass)
    /\ \A d \in Days : SF_vars(d0 = d /\ RealPrices)

-----------------------------------------------------------------------------
(* Properties                                                               *)

(* influx_writer.py:131-134: the projection "never overwrites [the plan the *)
(* device really runs] with one of its own".  It does so in two ways only:  *)
(* the lookup of that very day has just failed, or the schedule came in     *)
(* between it and the write.  Nothing else costs a schedule: not the other  *)
(* calls that fail, nor a pass abandoned, nor a schedule that comes in for  *)
(* another day, at midnight, or for this day during an earlier pass.        *)
EdgePlanStays ==
    [][\A d \in Days :
          plan[d] = "edge" /\ ~(misled /\ d = d0) => plan'[d] = "edge"]_vars

(* The sentence as it is written, which TLC refutes in either way.          *)
EdgePlanNeverLost == [][\A d \in Days : plan[d] = "edge" => plan'[d] = "edge"]_vars

(* history.py:263-266: no day within the horizon stays without a schedule   *)
(* and a projection, whatever was abandoned or failed.                      *)
NoBlankDay ==
    \A d \in Days :
        (now <= d /\ d < now + Horizon)
            ~> (d < now \/ (plan[d] # None /\ fc[d] # None))

(* history.py:317-319, 334-337: the projection of today and of tomorrow     *)
(* comes to follow the schedule that the device has published.              *)
ForecastFollowsPlan ==
    \A d \in Days :
        (plan[d] = "edge" /\ now <= d /\ d < now + NearTerm)
            ~> (d < now \/ plan[d] # "edge" \/ fc[d] = "edge")

(* history.py:282-289: a schedule made from the static curve does not stay  *)
(* once its day is near enough for real prices to exist.                    *)
UpgradeEventually ==
    \A d \in Days :
        (plan[d] = "fallback" /\ now <= d /\ d < now + NearTerm)
            ~> (d < now \/ plan[d] # "fallback")
=============================================================================

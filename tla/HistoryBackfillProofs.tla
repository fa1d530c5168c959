------------------------- MODULE HistoryBackfillProofs -------------------------
(***************************************************************************)
(* What HistoryBackfill guarantees for any number of hours, of hours in a  *)
(* day and of ticks in an hour.  The pass reads the clock twice, so both   *)
(* proofs rest on what the locals still mean when the clock has moved on:  *)
(* PassInv, that whatever is eligible for a replay lies in the past; and   *)
(* for deletions CleanInv, that a pass nothing went wrong in leaves no     *)
(* tick with two points.  GapInv and PlanInv say what such a pass leaves   *)
(* behind of the days it is through with.                                  *)
(***************************************************************************)
EXTENDS HistoryBackfill, TLAPS

-----------------------------------------------------------------------------
(* Hours and days                                                           *)

(* An hour before another is of an earlier day, or earlier in its day.      *)
LEMMA EarlierHour ==
    ASSUME NEW g \in Nat, NEW h \in Nat
    PROVE  /\ DayOf(g) \in Nat /\ g % HoursPerDay \in 0 .. HoursPerDay - 1
           /\ g <= h => DayOf(g) <= DayOf(h)
           /\ DayOf(g) < DayOf(h) => g < h
           /\ DayOf(g) = DayOf(h) /\ g % HoursPerDay < h % HoursPerDay => g < h
<1> DEFINE n == HoursPerDay
           q == g \div n
           r == h \div n
           x == g % n
           y == h % n
<1>1. n \in Nat /\ n > 0
  BY BackfillAssumption
<1>2. /\ q \in Nat /\ x \in 0 .. n - 1 /\ g = n * q + x
      /\ r \in Nat /\ y \in 0 .. n - 1 /\ h = n * r + y
  BY <1>1
<1>3. DayOf(g) = q /\ DayOf(h) = r
  BY DEF DayOf
<1>0. g % HoursPerDay = x /\ h % HoursPerDay = y
  OBVIOUS
<1> HIDE DEF n, q, r, x, y
<1>4. \A i, j \in Nat : i * j \in Nat
  OBVIOUS
<1>5. ASSUME NEW a \in Nat, NEW b \in Nat, a < b PROVE n * b >= n * a + n
  <2>1. n * (b - a - 1) \in Nat
    BY <1>1, <1>4, <1>5
  <2>2. n * (b - a - 1) = n * b - n * a - n
    BY <1>1
  <2>3. n * a \in Nat /\ n * b \in Nat
    BY <1>1, <1>4
  <2> QED
    BY <1>1, <2>1, <2>2, <2>3
<1>6. n * q \in Nat /\ n * r \in Nat
  BY <1>1, <1>2, <1>4
<1>7. g <= h => q <= r
  <2> SUFFICES ASSUME q > r PROVE h < g
    BY <1>2
  <2> QED
    BY <1>1, <1>2, <1>5, <1>6
<1>8. q < r => g < h
  BY <1>1, <1>2, <1>5, <1>6
<1>9. q = r /\ x < y => g < h
  BY <1>2, <1>6
<1> QED
  BY <1>0, <1>2, <1>3, <1>7, <1>8, <1>9 DEF n

-----------------------------------------------------------------------------
(* What the locals mean                                                     *)

(* The date was read first and the hour after it, so that what lies before  *)
(* both lies before the hour in progress, now or later.                     *)
PassInv ==
    /\ today <= DayOf(now)
    /\ at \notin {"off", "purge"} =>
          \A d \in 0 .. today : \A h \in Eligible(d) : h < now
    /\ at \in {"retry", "prices", "replay", "store", "lookup", "record"} =>
          day <= today
    /\ at \in {"prices", "replay"} => todo \subseteq Eligible(day)

IndInv == BackfillTypeOK /\ PassInv /\ NeverAheadOfClock

LEMMA HourFacts ==
    /\ HoursPerDay \in Nat \ {0} /\ Ticks \in Nat \ {0}
    /\ LastHour \in Nat /\ MaxTroubles \in Nat
    /\ \A h \in Hours : h \in Nat /\ DayOf(h) \in Days /\ DayOf(h) \in Nat
    /\ \A d \in Days : d \in Nat /\ \A e \in Nat : e <= d => e \in Days
    /\ DayOf(0) = 0 /\ 0 \in Days /\ 0 \in Hours
    /\ \A d : Missing(d) \subseteq Eligible(d) /\ Eligible(d) \subseteq HoursOf(d)
    /\ \A d : HoursOf(d) \subseteq Hours
<1>1. /\ HoursPerDay \in Nat \ {0} /\ Ticks \in Nat \ {0}
      /\ LastHour \in Nat /\ MaxTroubles \in Nat
  BY BackfillAssumption
<1>2. DayOf(LastHour) \in Nat
  BY <1>1, EarlierHour
<1>3. DayOf(0) = 0
  BY <1>1 DEF DayOf
<1>4. ASSUME NEW h \in Hours
      PROVE  h \in Nat /\ DayOf(h) \in Days /\ DayOf(h) \in Nat
  BY <1>1, <1>2, EarlierHour DEF Hours, Days
<1>5. ASSUME NEW d \in Days
      PROVE  d \in Nat /\ \A e \in Nat : e <= d => e \in Days
  BY <1>2 DEF Days
<1> QED
  BY <1>1, <1>2, <1>3, <1>4, <1>5 DEF Missing, Eligible, HoursOf, Hours, Days

(* The day after one of the window is in the window or just behind it.      *)
LEMMA NextDayIsThere ==
    ASSUME BackfillTypeOK, day <= today
    PROVE  day + 1 \in 0 .. today + 1
BY HourFacts DEF BackfillTypeOK

LEMMA InitIndInv == Init => IndInv
<1> SUFFICES ASSUME Init PROVE IndInv
  OBVIOUS
<1>1. BackfillTypeOK
  <2>1. HoursPerDay - 1 \in Nat
    BY HourFacts
  <2> QED
    BY HourFacts, <2>1 DEF Init, BackfillTypeOK, Steps
<1>2. PassInv /\ NeverAheadOfClock
  BY HourFacts DEF Init, PassInv, NeverAheadOfClock
<1> QED
  BY <1>1, <1>2 DEF IndInv

(* What is eligible depends on the date and the hour that the pass has read.*)
LEMMA SameEligible ==
    UNCHANGED <<today, cutoff>> =>
        /\ \A d : Eligible(d)' = Eligible(d) /\ HoursOf(d)' = HoursOf(d)
        /\ UNCHANGED day => Eligible(day)' = Eligible(day) /\ HoursOf(day)' = HoursOf(day)
BY DEF Eligible, HoursOf, Hours, DayOf

(* Steps of the pass after the purge that neither move the clock nor touch  *)
(* the points: going on to a replay is all that needs a look.               *)
LEMMA UnmovedPass ==
    ASSUME BackfillTypeOK, PassInv, NeverAheadOfClock,
           UNCHANGED <<now, real, synth, doubled, today, cutoff, todo, tick>>,
           price' \in [Days -> {None, "fallback", "oree"}], planned' \subseteq Days,
           source' \in {None, "fallback", "oree"}, troubles' \in 0 .. MaxTroubles,
           day' \in 0 .. today + 1, at' \in Steps \ {"purge"},
           at' \in {"retry", "prices", "replay", "store", "lookup", "record"} =>
              day' <= today,
           at' \notin {"prices"}, at' = "replay" => at = "prices" /\ day' = day,
           at \notin {"off", "purge"}
    PROVE  IndInv'
<1>1. at' = "replay" => todo' \subseteq Eligible(day)' /\ todo' \subseteq HoursOf(day)'
  <2> SUFFICES ASSUME at' = "replay"
               PROVE  todo' \subseteq Eligible(day)' /\ todo' \subseteq HoursOf(day)'
    OBVIOUS
  <2>1. Eligible(day)' = Eligible(day) /\ HoursOf(day)' = HoursOf(day)
    BY SameEligible
  <2> QED
    BY <2>1, HourFacts DEF PassInv
<1>2. BackfillTypeOK'
  BY <1>1 DEF BackfillTypeOK
<1>3. PassInv'
  BY <1>1, SameEligible DEF PassInv
<1>4. NeverAheadOfClock'
  BY DEF NeverAheadOfClock
<1> QED
  BY <1>2, <1>3, <1>4 DEF IndInv

(* Each step of the pass, and each of the world around it, keeps all of it. *)
LEMMA NextIndInv == IndInv /\ [Next]_vars => IndInv'
<1> SUFFICES ASSUME IndInv, [Next]_vars PROVE IndInv'
  OBVIOUS
<1>0. /\ BackfillTypeOK /\ PassInv /\ NeverAheadOfClock
      /\ now \in Nat /\ day \in Nat /\ today \in Nat /\ tick \in Nat
  BY HourFacts DEF IndInv, BackfillTypeOK
<1>1. CASE StartPass
  <2>1. todo' \subseteq Hours
    BY <1>1 DEF StartPass, Overlapping, Stacked
  <2>2. DayOf(now) \in Days /\ today <= DayOf(now) /\ DayOf(now) \in Nat
    BY <1>0, HourFacts DEF BackfillTypeOK, PassInv
  <2>3. UNCHANGED <<now, real, synth, doubled, price, planned, cutoff, day, source>>
    BY <1>1 DEF StartPass, edgeVars, database
  <2>4. at' = "purge" /\ today' = DayOf(now) /\ tick' = 1 /\ troubles' \in 0 .. MaxTroubles
    BY <1>0, <1>1, HourFacts DEF StartPass, Call, BackfillTypeOK
  <2>5. BackfillTypeOK'
    <3>1. day \in 0 .. DayOf(now) + 1
      BY <1>0, <2>2 DEF BackfillTypeOK
    <3> QED
      BY <1>0, <2>1, <2>2, <2>3, <2>4, <3>1, HourFacts DEF BackfillTypeOK, Steps
  <2>6. PassInv'
    BY <2>2, <2>3, <2>4 DEF PassInv
  <2>7. NeverAheadOfClock'
    BY <1>0, <2>3 DEF NeverAheadOfClock
  <2> QED
    BY <2>5, <2>6, <2>7 DEF IndInv
<1>2. CASE PurgePoint
  <2>1. PICK h \in todo : NextTick(h) /\ h \in Hours
                    /\ \/ UNCHANGED <<synth, doubled>>
                       \/ /\ synth' = [synth EXCEPT ![h] = @ \ {tick}]
                          /\ doubled' = [doubled EXCEPT ![h] = @ \ {tick}]
    BY <1>0, <1>2 DEF PurgePoint, BackfillTypeOK
  <2>2. /\ UNCHANGED <<now, real, price, planned, at, today, cutoff, day, source>>
        /\ at = "purge" /\ troubles' \in 0 .. MaxTroubles
    BY <1>0, <1>2, HourFacts DEF PurgePoint, Call, edgeVars, BackfillTypeOK
  <2>3. todo' \subseteq todo /\ tick' \in 1 .. Ticks
    BY <1>0, <2>1, HourFacts DEF NextTick, BackfillTypeOK
  <2>4. /\ synth' \in [Hours -> SUBSET (1 .. Ticks)]
        /\ doubled' \in [Hours -> SUBSET (1 .. Ticks)]
        /\ \A i \in Hours : doubled'[i] \subseteq synth'[i] /\ synth'[i] \subseteq synth[i]
    BY <1>0, <2>1 DEF BackfillTypeOK
  <2>5. BackfillTypeOK'
    BY <1>0, <2>2, <2>3, <2>4 DEF BackfillTypeOK, Steps
  <2>6. PassInv' /\ NeverAheadOfClock'
    BY <1>0, <2>2, <2>4 DEF PassInv, NeverAheadOfClock
  <2> QED
    BY <2>5, <2>6 DEF IndInv
<1>3. CASE PurgeSkipsHour
  <2>1. todo' \subseteq todo /\ troubles' \in 0 .. MaxTroubles
    BY <1>0, <1>3, HourFacts DEF PurgeSkipsHour, Call, BackfillTypeOK
  <2>2. UNCHANGED <<now, real, synth, doubled, price, planned, at, today, cutoff, day,
                    source, tick>> /\ at = "purge"
    BY <1>3 DEF PurgeSkipsHour, edgeVars, database
  <2> QED
    BY <1>0, <2>1, <2>2 DEF IndInv, BackfillTypeOK, PassInv, NeverAheadOfClock
<1>4. CASE PurgeDone
  <2>1. UNCHANGED <<now, real, synth, doubled, price, planned, today, source, todo, tick,
                    troubles>>
    BY <1>4 DEF PurgeDone, edgeVars, database
  <2>2. cutoff' = now % HoursPerDay /\ day' = 0 /\ at' = "survey"
    BY <1>4 DEF PurgeDone
  <2>3. ASSUME NEW d \in 0 .. today, NEW h \in Eligible(d)' PROVE h < now
    <3>1. h \in Hours /\ DayOf(h) = d /\ (d = today => h % HoursPerDay < now % HoursPerDay)
      BY <2>1, <2>2, <2>3 DEF Eligible, HoursOf, Hours, DayOf
    <3>2. h \in Nat /\ d \in Nat /\ DayOf(now) \in Nat /\ today <= DayOf(now)
      BY <1>0, <3>1, HourFacts DEF PassInv, BackfillTypeOK
    <3>3. CASE d < DayOf(now)
      BY <1>0, <3>1, <3>2, <3>3, EarlierHour
    <3>4. CASE d = DayOf(now) /\ d = today
      BY <1>0, <3>1, <3>2, <3>4, EarlierHour
    <3> QED
      BY <1>0, <3>2, <3>3, <3>4, <2>3
  <2>4. now % HoursPerDay \in 0 .. HoursPerDay - 1
    BY <1>0, EarlierHour
  <2>5. BackfillTypeOK'
    BY <1>0, <2>1, <2>2, <2>4 DEF BackfillTypeOK, Steps
  <2>6. PassInv'
    BY <1>0, <2>1, <2>2, <2>3 DEF PassInv
  <2>7. NeverAheadOfClock'
    BY <1>0, <2>1 DEF NeverAheadOfClock
  <2> QED
    BY <2>5, <2>6, <2>7 DEF IndInv
<1>5. CASE Survey
  <2>1. UNCHANGED <<now, real, synth, doubled, price, planned, today, cutoff, source, tick>>
    BY <1>5 DEF Survey, edgeVars, database
  <2>2. /\ at = "survey" /\ day <= today /\ troubles' \in 0 .. MaxTroubles
        /\ todo' \subseteq Eligible(day) /\ todo' \subseteq Hours
    BY <1>0, <1>5, HourFacts DEF Survey, Call, BackfillTypeOK
  <2>3. \/ at' \in {"prices", "retry"} /\ day' = day
        \/ at' = "survey" /\ day' = day + 1
    BY <1>5 DEF Survey, NextDay
  <2>4. \A d : Eligible(d)' = Eligible(d)
    BY <2>1 DEF Eligible, HoursOf, Hours, DayOf
  <2>5. BackfillTypeOK'
    <3>1. day' \in 0 .. today + 1
      BY <1>0, <2>2, <2>3, NextDayIsThere DEF BackfillTypeOK
    <3> QED
      BY <1>0, <2>1, <2>2, <2>3, <3>1 DEF BackfillTypeOK, Steps
  <2>6. PassInv'
    BY <1>0, <2>1, <2>2, <2>3, <2>4 DEF PassInv
  <2>7. NeverAheadOfClock'
    BY <1>0, <2>1 DEF NeverAheadOfClock
  <2> QED
    BY <2>5, <2>6, <2>7 DEF IndInv
<1>6. CASE PassDone
  <2>1. UNCHANGED <<now, real, synth, doubled, today, cutoff, todo, tick>>
    BY <1>6 DEF PassDone, edgeVars, database, locals
  <2>2. /\ price' \in [Days -> {None, "fallback", "oree"}] /\ planned' \subseteq Days
        /\ source' \in {None, "fallback", "oree"} /\ troubles' \in 0 .. MaxTroubles
    BY <1>0, <1>6, HourFacts DEF PassDone, Call, BackfillTypeOK, database, locals
  <2>3. /\ day' \in 0 .. today + 1 /\ at' \in Steps \ {"purge"}
        /\ at' \in {"retry", "prices", "replay", "store", "lookup", "record"} =>
              day' <= today
        /\ at' \notin {"prices"} /\ (at' = "replay" => at = "prices" /\ day' = day)
    BY <1>0, <1>6, NextDayIsThere
       DEF PassDone, NextDay, BackfillTypeOK, PassInv, database, locals, Steps
  <2>4. at \notin {"off", "purge"}
    BY <1>6 DEF PassDone
  <2> QED
    BY <1>0, <2>1, <2>2, <2>3, <2>4, UnmovedPass
<1>7. CASE RetrySucceeds
  <2>1. UNCHANGED <<now, real, synth, doubled, today, cutoff, todo, tick>>
    BY <1>7 DEF RetrySucceeds, edgeVars, database, locals
  <2>2. /\ price' \in [Days -> {None, "fallback", "oree"}] /\ planned' \subseteq Days
        /\ source' \in {None, "fallback", "oree"} /\ troubles' \in 0 .. MaxTroubles
    BY <1>0, <1>7, HourFacts DEF RetrySucceeds, Call, BackfillTypeOK, database, locals
  <2>3. /\ day' \in 0 .. today + 1 /\ at' \in Steps \ {"purge"}
        /\ at' \in {"retry", "prices", "replay", "store", "lookup", "record"} =>
              day' <= today
        /\ at' \notin {"prices"} /\ (at' = "replay" => at = "prices" /\ day' = day)
    BY <1>0, <1>7, NextDayIsThere
       DEF RetrySucceeds, NextDay, BackfillTypeOK, PassInv, database, locals, Steps
  <2>4. at \notin {"off", "purge"}
    BY <1>7 DEF RetrySucceeds
  <2> QED
    BY <1>0, <2>1, <2>2, <2>3, <2>4, UnmovedPass
<1>8. CASE RetryFails
  <2>1. UNCHANGED <<now, real, synth, doubled, today, cutoff, todo, tick>>
    BY <1>8 DEF RetryFails, edgeVars, database, locals
  <2>2. /\ price' \in [Days -> {None, "fallback", "oree"}] /\ planned' \subseteq Days
        /\ source' \in {None, "fallback", "oree"} /\ troubles' \in 0 .. MaxTroubles
    BY <1>0, <1>8, HourFacts DEF RetryFails, Call, BackfillTypeOK, database, locals
  <2>3. /\ day' \in 0 .. today + 1 /\ at' \in Steps \ {"purge"}
        /\ at' \in {"retry", "prices", "replay", "store", "lookup", "record"} =>
              day' <= today
        /\ at' \notin {"prices"} /\ (at' = "replay" => at = "prices" /\ day' = day)
    BY <1>0, <1>8, NextDayIsThere
       DEF RetryFails, NextDay, BackfillTypeOK, PassInv, database, locals, Steps
  <2>4. at \notin {"off", "purge"}
    BY <1>8 DEF RetryFails
  <2> QED
    BY <1>0, <2>1, <2>2, <2>3, <2>4, UnmovedPass
<1>9. CASE PricesFor
  <2>1. UNCHANGED <<now, real, synth, doubled, today, cutoff, todo, tick>>
    BY <1>9 DEF PricesFor, edgeVars, database, locals
  <2>2. /\ price' \in [Days -> {None, "fallback", "oree"}] /\ planned' \subseteq Days
        /\ source' \in {None, "fallback", "oree"} /\ troubles' \in 0 .. MaxTroubles
    BY <1>0, <1>9, HourFacts DEF PricesFor, Call, BackfillTypeOK, database, locals
  <2>3. /\ day' \in 0 .. today + 1 /\ at' \in Steps \ {"purge"}
        /\ at' \in {"retry", "prices", "replay", "store", "lookup", "record"} =>
              day' <= today
        /\ at' \notin {"prices"} /\ (at' = "replay" => at = "prices" /\ day' = day)
    BY <1>0, <1>9, NextDayIsThere
       DEF PricesFor, NextDay, BackfillTypeOK, PassInv, database, locals, Steps
  <2>4. at \notin {"off", "purge"}
    BY <1>9 DEF PricesFor
  <2> QED
    BY <1>0, <2>1, <2>2, <2>3, <2>4, UnmovedPass
<1>10. CASE ReplayDone
  <2>1. UNCHANGED <<now, real, synth, doubled, today, cutoff, todo, tick>>
    BY <1>10 DEF ReplayDone, edgeVars, database, locals
  <2>2. /\ price' \in [Days -> {None, "fallback", "oree"}] /\ planned' \subseteq Days
        /\ source' \in {None, "fallback", "oree"} /\ troubles' \in 0 .. MaxTroubles
    BY <1>0, <1>10, HourFacts DEF ReplayDone, Call, BackfillTypeOK, database, locals
  <2>3. /\ day' \in 0 .. today + 1 /\ at' \in Steps \ {"purge"}
        /\ at' \in {"retry", "prices", "replay", "store", "lookup", "record"} =>
              day' <= today
        /\ at' \notin {"prices"} /\ (at' = "replay" => at = "prices" /\ day' = day)
    BY <1>0, <1>10, NextDayIsThere
       DEF ReplayDone, NextDay, BackfillTypeOK, PassInv, database, locals, Steps
  <2>4. at \notin {"off", "purge"}
    BY <1>10 DEF ReplayDone
  <2> QED
    BY <1>0, <2>1, <2>2, <2>3, <2>4, UnmovedPass
<1>11. CASE StorePrices
  <2>1. UNCHANGED <<now, real, synth, doubled, today, cutoff, todo, tick>>
    BY <1>11 DEF StorePrices, edgeVars, database, locals
  <2>2. /\ price' \in [Days -> {None, "fallback", "oree"}] /\ planned' \subseteq Days
        /\ source' \in {None, "fallback", "oree"} /\ troubles' \in 0 .. MaxTroubles
    <3>1. PICK ok \in BOOLEAN : Call(ok)
      BY <1>11 DEF StorePrices
    <3>2. troubles' \in 0 .. MaxTroubles
      BY <1>0, <3>1, HourFacts DEF Call, BackfillTypeOK
    <3>3. price' \in {price, [price EXCEPT ![day] = source]}
      BY <1>11 DEF StorePrices
    <3>4. UNCHANGED <<planned, source>>
      BY <1>11 DEF StorePrices, locals
    <3> QED
      BY <1>0, <3>2, <3>3, <3>4 DEF BackfillTypeOK
  <2>3. /\ day' \in 0 .. today + 1 /\ at' \in Steps \ {"purge"}
        /\ at' \in {"retry", "prices", "replay", "store", "lookup", "record"} =>
              day' <= today
        /\ at' \notin {"prices"} /\ (at' = "replay" => at = "prices" /\ day' = day)
    BY <1>0, <1>11, NextDayIsThere
       DEF StorePrices, NextDay, BackfillTypeOK, PassInv, database, locals, Steps
  <2>4. at \notin {"off", "purge"}
    BY <1>11 DEF StorePrices
  <2> QED
    BY <1>0, <2>1, <2>2, <2>3, <2>4, UnmovedPass
<1>12. CASE LookForPlan
  <2>1. UNCHANGED <<now, real, synth, doubled, today, cutoff, todo, tick>>
    BY <1>12 DEF LookForPlan, edgeVars, database, locals
  <2>2. /\ price' \in [Days -> {None, "fallback", "oree"}] /\ planned' \subseteq Days
        /\ source' \in {None, "fallback", "oree"} /\ troubles' \in 0 .. MaxTroubles
    BY <1>0, <1>12, HourFacts DEF LookForPlan, Call, BackfillTypeOK, database, locals
  <2>3. /\ day' \in 0 .. today + 1 /\ at' \in Steps \ {"purge"}
        /\ at' \in {"retry", "prices", "replay", "store", "lookup", "record"} =>
              day' <= today
        /\ at' \notin {"prices"} /\ (at' = "replay" => at = "prices" /\ day' = day)
    BY <1>0, <1>12, NextDayIsThere
       DEF LookForPlan, NextDay, BackfillTypeOK, PassInv, database, locals, Steps
  <2>4. at \notin {"off", "purge"}
    BY <1>12 DEF LookForPlan
  <2> QED
    BY <1>0, <2>1, <2>2, <2>3, <2>4, UnmovedPass
<1>13. CASE RecordPlan
  <2>1. UNCHANGED <<now, real, synth, doubled, today, cutoff, todo, tick>>
    BY <1>13 DEF RecordPlan, edgeVars, database, locals
  <2>2. /\ price' \in [Days -> {None, "fallback", "oree"}] /\ planned' \subseteq Days
        /\ source' \in {None, "fallback", "oree"} /\ troubles' \in 0 .. MaxTroubles
    <3>1. PICK ok \in BOOLEAN : Call(ok)
      BY <1>13 DEF RecordPlan
    <3>2. troubles' \in 0 .. MaxTroubles
      BY <1>0, <3>1, HourFacts DEF Call, BackfillTypeOK
    <3>3. planned' \in {planned, planned \cup {day}} /\ UNCHANGED <<price, source>>
      BY <1>13 DEF RecordPlan
    <3>4. day \in Days
      <4>1. today \in Days /\ day <= today
        BY <1>0, <1>13 DEF RecordPlan, BackfillTypeOK, PassInv
      <4> QED
        BY <1>0, <4>1, HourFacts
    <3> QED
      BY <1>0, <3>2, <3>3, <3>4 DEF BackfillTypeOK
  <2>3. /\ day' \in 0 .. today + 1 /\ at' \in Steps \ {"purge"}
        /\ at' \in {"retry", "prices", "replay", "store", "lookup", "record"} =>
              day' <= today
        /\ at' \notin {"prices"} /\ (at' = "replay" => at = "prices" /\ day' = day)
    BY <1>0, <1>13, NextDayIsThere
       DEF RecordPlan, NextDay, BackfillTypeOK, PassInv, database, locals, Steps
  <2>4. at \notin {"off", "purge"}
    BY <1>13 DEF RecordPlan
  <2> QED
    BY <1>0, <2>1, <2>2, <2>3, <2>4, UnmovedPass
<1>14. CASE ReplayPoint
  <2>1. PICK h \in todo : /\ NextTick(h) /\ h \in Hours
                          /\ synth' \in {synth, [synth EXCEPT ![h] = @ \cup {tick}]}
                          /\ \/ UNCHANGED doubled
                             \/ /\ tick \in synth[h]
                                /\ doubled' = [doubled EXCEPT ![h] = @ \cup {tick}]
    BY <1>0, <1>14 DEF ReplayPoint, BackfillTypeOK
  <2>2. /\ UNCHANGED <<now, real, price, planned, at, today, cutoff, day, source>>
        /\ at = "replay" /\ troubles' \in 0 .. MaxTroubles
    BY <1>0, <1>14, HourFacts DEF ReplayPoint, Call, edgeVars, BackfillTypeOK
  <2>3. todo' \subseteq todo /\ tick' \in 1 .. Ticks
    BY <1>0, <2>1, HourFacts DEF NextTick, BackfillTypeOK
  <2>4. /\ synth' \in [Hours -> SUBSET (1 .. Ticks)]
        /\ doubled' \in [Hours -> SUBSET (1 .. Ticks)]
        /\ \A i \in Hours : doubled'[i] \subseteq synth'[i]
        /\ \A i \in Hours \ {h} : synth'[i] = synth[i]
    BY <1>0, <2>1 DEF BackfillTypeOK
  <2>5. BackfillTypeOK'
    <3>1. HoursOf(day)' = HoursOf(day)
      BY <2>2 DEF HoursOf, Hours, DayOf
    <3> QED
      BY <1>0, <2>2, <2>3, <2>4, <3>1 DEF BackfillTypeOK
  <2>6. Eligible(day)' = Eligible(day) /\ \A d : Eligible(d)' = Eligible(d)
    BY <2>2 DEF Eligible, HoursOf, Hours, DayOf
  <2>7. PassInv'
    BY <1>0, <2>2, <2>3, <2>6 DEF PassInv
  <2>8. h < now
    BY <1>0, <2>1, <2>2 DEF PassInv
  <2>9. NeverAheadOfClock'
    BY <1>0, <2>2, <2>4, <2>8 DEF NeverAheadOfClock
  <2> QED
    BY <2>5, <2>7, <2>9 DEF IndInv
<1>15. CASE Abort
  <2>1. /\ at' = "off" /\ troubles' \in 0 .. MaxTroubles
        /\ UNCHANGED <<now, real, synth, doubled, price, planned, today, cutoff, day,
                       source, todo, tick>>
    BY <1>0, <1>15, HourFacts DEF Abort, edgeVars, database, locals, BackfillTypeOK
  <2> QED
    BY <1>0, <2>1 DEF IndInv, BackfillTypeOK, PassInv, NeverAheadOfClock, Steps
<1>16. CASE Telemetry
  <2>1. UNCHANGED <<now, synth, doubled, price, planned, at, today, cutoff, day,
                    source, todo, tick, troubles>>
    BY <1>16 DEF Telemetry, database, locals
  <2>2. PICK h \in (0 .. now) \ real : real' = real \cup {h}
    BY <1>16 DEF Telemetry
  <2>3. h \in Hours
    BY <1>0, HourFacts DEF BackfillTypeOK, Hours
  <2>4. real' \subseteq Hours
    BY <1>0, <2>2, <2>3 DEF BackfillTypeOK
  <2> QED
    BY <1>0, <2>1, <2>4, SameEligible
       DEF IndInv, BackfillTypeOK, PassInv, NeverAheadOfClock
<1>17. CASE EdgeSchedule
  <2>1. /\ planned' \subseteq Days
        /\ UNCHANGED <<now, real, synth, doubled, price, at, today, cutoff, day,
                       source, todo, tick, troubles>>
    BY <1>0, <1>17 DEF EdgeSchedule, edgeVars, locals, BackfillTypeOK
  <2> QED
    BY <1>0, <2>1, SameEligible DEF IndInv, BackfillTypeOK, PassInv, NeverAheadOfClock
<1>18. CASE Clock
  <2>1. /\ now' \in Hours /\ now' = now + 1
        /\ UNCHANGED <<real, synth, doubled, price, planned, at, today, cutoff, day,
                       source, todo, tick, troubles>>
    BY <1>0, <1>18, HourFacts DEF Clock, database, locals, BackfillTypeOK, Hours
  <2>2. DayOf(now) \in Nat /\ DayOf(now + 1) \in Nat /\ DayOf(now) <= DayOf(now + 1)
    BY <1>0, EarlierHour
  <2>3. BackfillTypeOK'
    BY <1>0, <2>1, SameEligible DEF BackfillTypeOK
  <2>4. PassInv'
    <3>1. today <= DayOf(now) /\ DayOf(now)' = DayOf(now + 1)
      BY <1>0, <2>1 DEF PassInv, DayOf
    <3>2. today' <= DayOf(now)'
      BY <1>0, <2>1, <2>2, <3>1
    <3>3. \A d : \A h \in Eligible(d) : h \in Nat
      BY HourFacts
    <3>4. ASSUME at' \notin {"off", "purge"}, NEW d \in 0 .. today', NEW h \in Eligible(d)'
          PROVE  h < now'
      <4>1. h \in Eligible(d) /\ d \in 0 .. today /\ h \in Nat
        BY <2>1, <3>3, <3>4, SameEligible
      <4>2. h < now
        BY <1>0, <2>1, <3>4, <4>1 DEF PassInv
      <4> QED
        BY <1>0, <2>1, <4>1, <4>2
    <3>5. Eligible(day)' = Eligible(day)
      BY <2>1 DEF Eligible, HoursOf, Hours, DayOf
    <3> QED
      BY <1>0, <2>1, <3>2, <3>4, <3>5 DEF PassInv
  <2>5. NeverAheadOfClock'
    <3>1. ASSUME NEW h \in Hours, synth[h] # {} PROVE h < now'
      <4>1. h < now /\ h \in Nat
        BY <1>0, <3>1, HourFacts DEF NeverAheadOfClock
      <4> QED
        BY <1>0, <2>1, <4>1
    <3>2. Hours' = Hours /\ synth' = synth
      BY <2>1 DEF Hours
    <3> QED
      BY <3>1, <3>2 DEF NeverAheadOfClock
  <2> QED
    BY <2>3, <2>4, <2>5 DEF IndInv
<1>19. CASE UNCHANGED vars
  BY <1>0, <1>19, SameEligible DEF IndInv, BackfillTypeOK, PassInv, NeverAheadOfClock,
     vars, edgeVars, database, locals
<1> QED
  BY <1>1, <1>2, <1>3, <1>4, <1>5, <1>6, <1>7, <1>8, <1>9, <1>10, <1>11, <1>12, <1>13,
     <1>14, <1>15, <1>16, <1>17, <1>18, <1>19 DEF Next, Pass, Environment

-----------------------------------------------------------------------------
(* What is deleted                                                          *)

Clear(h) == synth[h] = {} \/ (First(h) /\ synth[h] \subseteq 1 .. tick - 1)

(* Until something goes wrong no tick holds two points: an hour is replayed *)
(* only when it is empty, tick by tick.  So the purge has only hours in     *)
(* hand that live telemetry has come for.                                   *)
CleanInv ==
    Undisturbed =>
       /\ \A h \in Hours : doubled[h] = {}
       /\ at = "purge" => todo \subseteq real
       /\ at \in {"purge", "replay"} => (todo = {} => tick = 1)
       /\ at \notin {"off", "purge", "replay"} => tick = 1
       /\ at \in {"prices", "replay"} => \A h \in todo : Clear(h)

LEMMA InitCleanInv == Init => CleanInv
BY DEF Init, CleanInv

LEMMA NextCleanInv == IndInv /\ CleanInv /\ [Next]_vars => CleanInv'
<1> SUFFICES ASSUME IndInv, CleanInv, [Next]_vars, Undisturbed' PROVE CleanInv'
  BY DEF CleanInv
<1>0. /\ BackfillTypeOK /\ tick \in Nat /\ Ticks \in Nat \ {0}
      /\ todo \subseteq Hours /\ Hours \subseteq Nat /\ troubles \in Nat
  BY HourFacts DEF IndInv, BackfillTypeOK, Hours
<1>a. ASSUME NEW ok \in BOOLEAN, Call(ok) PROVE Undisturbed /\ ok
  BY <1>0, <1>a DEF Call, Undisturbed
<1>b. ASSUME UNCHANGED <<synth, tick, todo>>
      PROVE  \A h \in todo : Clear(h)' = Clear(h)
  BY <1>b DEF Clear, First
<1>1. CASE StartPass
  <2>1. PICK ok \in BOOLEAN :
           /\ Call(ok)
           /\ ok => todo' = Overlapping(DayOf(now)) \cup Stacked(DayOf(now))
    BY <1>1 DEF StartPass
  <2>2. Undisturbed /\ todo' = Overlapping(DayOf(now)) \cup Stacked(DayOf(now))
    BY <1>a, <2>1
  <2>3. todo' \subseteq real
    BY <2>2 DEF CleanInv, Overlapping, Stacked
  <2>4. at' = "purge" /\ tick' = 1 /\ UNCHANGED <<real, synth, doubled>>
    BY <1>1 DEF StartPass, edgeVars, database
  <2> QED
    BY <2>2, <2>3, <2>4 DEF CleanInv
<1>2. CASE PurgePoint
  <2>1. PICK h \in todo, ok \in BOOLEAN :
           /\ NextTick(h) /\ Call(ok) /\ h \in Hours
           /\ ok => doubled' = [doubled EXCEPT ![h] = @ \ {tick}]
    BY <1>0, <1>2 DEF PurgePoint
  <2>2. Undisturbed /\ doubled' = [doubled EXCEPT ![h] = @ \ {tick}]
    BY <1>a, <2>1
  <2>3. \A i \in Hours : doubled'[i] = {}
    BY <1>0, <2>2 DEF CleanInv, BackfillTypeOK
  <2>4. todo' \subseteq todo /\ (todo' = {} => tick' = 1)
    BY <2>1 DEF NextTick
  <2>5. at' = "purge" /\ at = "purge" /\ real' = real
    BY <1>2 DEF PurgePoint, edgeVars
  <2> QED
    BY <2>2, <2>3, <2>4, <2>5 DEF CleanInv
<1>3. CASE PurgeSkipsHour
  BY <1>3, <1>a DEF PurgeSkipsHour
<1>4. CASE PurgeDone
  BY <1>4 DEF PurgeDone, CleanInv, Undisturbed, database
<1>5. CASE Survey
  <2>1. PICK ok \in BOOLEAN : Call(ok) /\ (ok => todo' = Missing(day))
    BY <1>5 DEF Survey
  <2>2. Undisturbed /\ todo' = Missing(day)
    BY <1>a, <2>1
  <2>3. /\ at = "survey" /\ at' \in {"prices", "retry", "survey"}
        /\ UNCHANGED <<real, synth, doubled, tick>>
    BY <1>5 DEF Survey, NextDay, edgeVars, database
  <2>4. \A h \in todo' : Clear(h)'
    BY <2>2, <2>3 DEF Clear, Missing
  <2> QED
    BY <2>2, <2>3, <2>4 DEF CleanInv
<1>6. CASE PassDone
  BY <1>6 DEF PassDone, CleanInv, Undisturbed, database
<1>7. CASE RetrySucceeds \/ RetryFails
  BY <1>7 DEF RetrySucceeds, RetryFails, NextDay, CleanInv, Undisturbed, database
<1>8. CASE PricesFor
  <2>1. PICK ok \in BOOLEAN : Call(ok)
    BY <1>8 DEF PricesFor
  <2>2. Undisturbed
    BY <1>a, <2>1
  <2>3. at = "prices" /\ at' = "replay" /\ UNCHANGED <<synth, doubled, todo, tick>>
    BY <1>8 DEF PricesFor, database
  <2> QED
    BY <1>b, <2>2, <2>3 DEF CleanInv
<1>9. CASE ReplayPoint
  <2>1. PICK h \in todo, ok \in BOOLEAN :
           /\ First(h) /\ NextTick(h) /\ Call(ok) /\ h \in Hours
           /\ ok => synth' = [synth EXCEPT ![h] = @ \cup {tick}]
           /\ \/ UNCHANGED doubled
              \/ tick \in synth[h]
    BY <1>0, <1>9 DEF ReplayPoint
  <2>2. Undisturbed /\ synth' = [synth EXCEPT ![h] = @ \cup {tick}]
    BY <1>a, <2>1
  <2>3. at = "replay" /\ at' = "replay"
    BY <1>9 DEF ReplayPoint
  <2>4. synth[h] \subseteq 1 .. tick - 1
    BY <2>1, <2>2, <2>3 DEF CleanInv, Clear
  <2>5. UNCHANGED doubled
    BY <1>0, <2>1, <2>4
  <2>6. \A i \in todo \ {h} : synth'[i] = {} /\ i \in Hours
    <3> TAKE i \in todo \ {h}
    <3>1. ~ First(i)
      BY <1>0, <2>1 DEF First
    <3>2. synth[i] = {}
      BY <2>2, <2>3, <3>1 DEF CleanInv, Clear
    <3> QED
      BY <1>0, <2>2, <3>2 DEF BackfillTypeOK
  <2>7. \A i \in todo' : Clear(i)'
    <3>1. CASE tick < Ticks
      <4>1. tick' = tick + 1 /\ todo' = todo
        BY <2>1, <3>1 DEF NextTick
      <4>2. synth'[h] \subseteq 1 .. tick' - 1
        BY <1>0, <2>1, <2>2, <2>4, <4>1 DEF BackfillTypeOK
      <4>3. First(h)'
        BY <2>1, <4>1 DEF First
      <4> QED
        BY <2>6, <4>1, <4>2, <4>3 DEF Clear
    <3>2. CASE ~ tick < Ticks
      BY <2>1, <2>6, <3>2 DEF NextTick, Clear
    <3> QED
      BY <3>1, <3>2
  <2>8. todo' = {} => tick' = 1
    BY <2>1 DEF NextTick
  <2> QED
    BY <2>2, <2>3, <2>5, <2>7, <2>8 DEF CleanInv
<1>10. CASE ReplayDone
  BY <1>10 DEF ReplayDone, CleanInv, Undisturbed, database, locals
<1>11. CASE StorePrices
  <2>1. PICK ok \in BOOLEAN : Call(ok)
    BY <1>11 DEF StorePrices
  <2>2. Undisturbed
    BY <1>a, <2>1
  <2> QED
    BY <1>11, <2>2 DEF StorePrices, CleanInv, locals
<1>12. CASE LookForPlan
  <2>1. PICK ok \in BOOLEAN : Call(ok)
    BY <1>12 DEF LookForPlan
  <2>2. Undisturbed
    BY <1>a, <2>1
  <2>3. /\ at = "lookup" /\ at' \in {"survey", "record"}
        /\ UNCHANGED <<synth, doubled, tick, todo>>
    BY <1>12 DEF LookForPlan, NextDay, database
  <2> QED
    BY <2>2, <2>3 DEF CleanInv
<1>13. CASE RecordPlan
  <2>1. PICK ok \in BOOLEAN : Call(ok)
    BY <1>13 DEF RecordPlan
  <2>2. Undisturbed
    BY <1>a, <2>1
  <2>3. at = "record" /\ at' = "survey" /\ UNCHANGED <<synth, doubled, tick, todo>>
    BY <1>13 DEF RecordPlan, NextDay
  <2> QED
    BY <2>2, <2>3 DEF CleanInv
<1>14. CASE Abort
  BY <1>0, <1>14 DEF Abort, Undisturbed
<1>15. CASE Telemetry
  <2>1. real \subseteq real' /\ UNCHANGED <<synth, doubled, at, todo, tick, troubles>>
    BY <1>15 DEF Telemetry, database, locals
  <2> QED
    BY <1>b, <2>1 DEF CleanInv, Undisturbed
<1>16. CASE EdgeSchedule \/ Clock \/ UNCHANGED vars
  <2>1. UNCHANGED <<real, synth, doubled, at, todo, tick, troubles>>
    BY <1>16 DEF EdgeSchedule, Clock, vars, edgeVars, database, locals
  <2> QED
    BY <1>b, <2>1 DEF CleanInv, Undisturbed
<1> QED
  BY <1>1, <1>2, <1>3, <1>4, <1>5, <1>6, <1>7, <1>8, <1>9, <1>10, <1>11, <1>12, <1>13,
     <1>14, <1>15, <1>16 DEF Next, Pass, Environment

(* The only step that deletes is the purge of an hour in hand.              *)
LEMMA OnlyPurgeDeletes ==
    ASSUME IndInv, CleanInv, [Next]_vars, Undisturbed,
           NEW h \in Hours, ~ synth[h] \subseteq synth'[h]
    PROVE  h \in real
<1>0. BackfillTypeOK
  BY DEF IndInv
<1>1. CASE PurgePoint
  <2>1. PICK i \in todo : synth' = synth \/ synth' = [synth EXCEPT ![i] = @ \ {tick}]
    BY <1>1 DEF PurgePoint
  <2>2. h = i
    BY <1>0, <2>1 DEF BackfillTypeOK
  <2> QED
    BY <1>1, <2>1, <2>2 DEF PurgePoint, CleanInv
<1>2. CASE ReplayPoint
  <2>1. PICK i \in todo : synth' = synth \/ synth' = [synth EXCEPT ![i] = @ \cup {tick}]
    BY <1>2 DEF ReplayPoint
  <2> QED
    BY <1>0, <2>1 DEF BackfillTypeOK
<1>3. CASE ~PurgePoint /\ ~ReplayPoint
  <2>1. UNCHANGED synth
    BY <1>3 DEF Next, Pass, Environment, StartPass, PurgeSkipsHour, PurgeDone, Survey,
       PassDone, RetrySucceeds, RetryFails, PricesFor, ReplayDone, StorePrices,
       LookForPlan, RecordPlan, Abort, Telemetry, EdgeSchedule, Clock, vars, database
  <2> QED
    BY <2>1
<1> QED
  BY <1>1, <1>2, <1>3

-----------------------------------------------------------------------------
(* What a pass leaves behind                                                *)

(* The hour has live telemetry, or all its synthetic points.                *)
Filled(h) == h \in real \/ synth[h] = 1 .. Ticks

(* main.py:70-88: the safety half of GapsClose.  Of the days the loop is    *)
(* through with, every hour it looked at is filled, unless something has    *)
(* failed.                                                                  *)
NoGapLeftBehind ==
    Undisturbed /\ at = "survey" =>
        \A h \in Hours : DayOf(h) < day /\ h \in Eligible(DayOf(h)) => Filled(h)

(* history.py:497-499: _missing_hours takes an hour with any points for a   *)
(* covered one, which is right as long as no hour is filled by halves: but  *)
(* for the one being replayed, each has all its synthetic points, or none,  *)
(* or live ones.                                                            *)
NoHourHalfFilled ==
    Undisturbed =>
        \A h \in Hours : Filled(h) \/ synth[h] = {} \/ (at = "replay" /\ First(h))

(* history.py:146-152: the safety half of ReplayedDayHasPlan.  Only the day *)
(* whose prices have just been stored can be without a plan.                *)
PricedDayIsPlanned ==
    Undisturbed =>
        \A d \in Days : price[d] # None =>
            d \in planned \/ (at \in {"lookup", "record"} /\ d = day)

(* The hours that the pass is about to fill.                                *)
InHand == IF at \in {"prices", "replay"} THEN todo ELSE {}

(* All the others are filled or empty, those of the days behind are filled, *)
(* and so are those of the day in hand.                                     *)
GapInv ==
    Undisturbed =>
       /\ \A h \in Hours \ InHand : Filled(h) \/ synth[h] = {}
       /\ \A h \in InHand : synth[h] = IF First(h) THEN 1 .. tick - 1 ELSE {}
       /\ at \notin {"off", "purge"} =>
             \A h \in Hours \ InHand :
                /\ h \in Eligible(DayOf(h))
                /\ DayOf(h) < day \/ (DayOf(h) = day /\ at # "survey")
                => Filled(h)

(* A day whose prices are asked for again has some, so it keeps its plan.   *)
PlanInv == PricedDayIsPlanned /\ (at = "retry" => price[day] # None)

LEMMA InitGapInv == Init => GapInv /\ PlanInv
BY DEF Init, GapInv, PlanInv, PricedDayIsPlanned, InHand, Filled

(* A step of the pass that fills nothing and moves nothing.                 *)
LEMMA SameGaps ==
    ASSUME GapInv, Undisturbed, UNCHANGED <<synth, tick, todo, today, cutoff>>,
           real \subseteq real', InHand' = InHand,
           \/ at' \in {"off", "purge"}
           \/ at \notin {"off", "purge"} /\ at' # "survey" /\ at # "survey" /\ day' = day
           \/ at' = at /\ day' = day
           \/ at \notin {"off", "purge", "survey"} /\ at' = "survey" /\ day' = day + 1,
           day \in Nat
    PROVE  GapInv'
<1>1. \A h \in InHand' : First(h)' = First(h)
  BY DEF First
<1>2. \A h : Filled(h) => Filled(h)'
  BY DEF Filled
<1>3. \A h \in Hours : h \in Eligible(DayOf(h))' => h \in Eligible(DayOf(h))
  BY SameEligible
<1>4. Hours' = Hours /\ \A h \in Hours : DayOf(h)' = DayOf(h) /\ DayOf(h) \in Nat
  BY HourFacts DEF Hours, DayOf
<1>5. \A h \in Hours' \ InHand' : Filled(h)' \/ synth'[h] = {}
  BY <1>2, <1>4 DEF GapInv
<1>6. \A h \in InHand' : synth'[h] = IF First(h)' THEN 1 .. tick' - 1 ELSE {}
  BY <1>1 DEF GapInv
<1>7. ASSUME at' \notin {"off", "purge"}, NEW h \in Hours' \ InHand',
             h \in Eligible(DayOf(h))',
             DayOf(h)' < day' \/ (DayOf(h)' = day' /\ at' # "survey")
      PROVE  Filled(h)'
  <2>1. h \in Hours \ InHand /\ h \in Eligible(DayOf(h)) /\ at \notin {"off", "purge"}
    BY <1>3, <1>4, <1>7
  <2>2. DayOf(h) < day \/ (DayOf(h) = day /\ at # "survey")
    BY <1>4, <1>7
  <2> QED
    BY <1>2, <2>1, <2>2 DEF GapInv
<1> QED
  BY <1>5, <1>6, <1>7 DEF GapInv

(* The replay fills the hours in hand one after the other.                  *)
LEMMA ReplayFills ==
    ASSUME IndInv, GapInv, Undisturbed, ReplayPoint, Undisturbed'
    PROVE  GapInv'
<1>0. /\ BackfillTypeOK /\ tick \in Nat /\ tick <= Ticks /\ Ticks \in Nat \ {0}
      /\ todo \subseteq Hours /\ Hours \subseteq Nat
  BY HourFacts DEF IndInv, BackfillTypeOK, Hours
<1>1. PICK h \in todo, ok \in BOOLEAN :
         /\ First(h) /\ NextTick(h) /\ Call(ok) /\ h \in Hours
         /\ ok => synth' = [synth EXCEPT ![h] = @ \cup {tick}]
  BY <1>0 DEF ReplayPoint
<1>2. synth' = [synth EXCEPT ![h] = @ \cup {tick}]
  BY <1>1, <1>0 DEF Call, Undisturbed, BackfillTypeOK
<1>3. /\ at = "replay" /\ InHand = todo /\ InHand' = todo'
      /\ UNCHANGED <<at, real, day, today, cutoff>>
  BY DEF ReplayPoint, InHand, edgeVars
<1>4. /\ synth'[h] = 1 .. tick
      /\ \A i \in Hours \ {h} : synth'[i] = synth[i]
  <2>1. synth[h] = 1 .. tick - 1
    BY <1>1, <1>3 DEF GapInv
  <2>2. (1 .. tick - 1) \cup {tick} = 1 .. tick
    BY <1>0, HourFacts DEF BackfillTypeOK
  <2> QED
    BY <1>0, <1>1, <1>2, <2>1, <2>2 DEF BackfillTypeOK
<1>5. \A i \in todo \ {h} : synth'[i] = {} /\ i \in Hours
  <2> TAKE i \in todo \ {h}
  <2>1. ~ First(i)
    BY <1>0, <1>1 DEF First
  <2> QED
    BY <1>0, <1>3, <1>4, <2>1 DEF GapInv
<1>6. CASE tick < Ticks
  <2>1. tick' = tick + 1 /\ todo' = todo
    BY <1>1, <1>6 DEF NextTick
  <2>2. \A i \in todo : First(i)' <=> i = h
    BY <1>0, <1>1, <2>1 DEF First
  <2>3. \A i \in InHand' : synth'[i] = IF First(i)' THEN 1 .. tick' - 1 ELSE {}
    <3>1. tick' - 1 = tick /\ InHand' = todo
      BY <1>0, <1>3, <2>1
    <3> QED
      BY <1>4, <1>5, <2>2, <3>1
  <2>4. \A i \in Hours \ InHand' : Filled(i)' <=> Filled(i)
    BY <1>1, <1>3, <1>4, <2>1 DEF Filled
  <2> QED
    BY <1>0, <1>1, <1>3, <1>4, <2>1, <2>3, <2>4, SameEligible DEF GapInv, Hours, DayOf
<1>7. CASE ~ tick < Ticks
  <2>1. tick = Ticks /\ tick' = 1 /\ todo' = todo \ {h}
    BY <1>0, <1>1, <1>7 DEF NextTick
  <2>2. Filled(h)' /\ \A i \in Hours \ InHand : Filled(i)' <=> Filled(i)
    BY <1>1, <1>3, <1>4, <2>1 DEF Filled
  <2>3. \A i \in InHand' : synth'[i] = IF First(i)' THEN 1 .. tick' - 1 ELSE {}
    BY <1>3, <1>5, <2>1
  <2>4. \A i \in Hours \ InHand' : i = h \/ i \in Hours \ InHand
    BY <1>3, <2>1
  <2>5. Hours' = Hours /\ \A i \in Hours : DayOf(i)' = DayOf(i)
    BY DEF Hours, DayOf
  <2>6. \A i \in Hours \ InHand' : Filled(i)' \/ synth'[i] = {}
    BY <1>1, <1>3, <1>4, <2>2, <2>4 DEF GapInv
  <2>7. \A i \in Hours \ InHand' :
           /\ i \in Eligible(DayOf(i))'
           /\ DayOf(i) < day \/ (DayOf(i) = day /\ at # "survey")
           => Filled(i)'
    BY <1>3, <2>2, <2>4, SameEligible DEF GapInv
  <2> QED
    BY <1>3, <2>3, <2>5, <2>6, <2>7 DEF GapInv
<1> QED
  BY <1>6, <1>7

(* The survey sets down what is missing; the rest is filled, as no hour is  *)
(* filled by halves.                                                        *)
LEMMA SurveyFinds ==
    ASSUME IndInv, CleanInv, GapInv, Undisturbed, Survey, Undisturbed'
    PROVE  GapInv'
<1>0. BackfillTypeOK /\ day \in Nat /\ HoursOf(day) \subseteq Hours
  BY HourFacts DEF IndInv, BackfillTypeOK
<1>1. PICK ok \in BOOLEAN : Call(ok) /\ (ok => todo' = Missing(day))
  BY DEF Survey
<1>2. todo' = Missing(day)
  BY <1>0, <1>1 DEF Call, Undisturbed, BackfillTypeOK
<1>3. /\ at = "survey" /\ InHand = {} /\ InHand' = Missing(day)
      /\ \/ at' \in {"prices", "retry"} /\ day' = day
         \/ at' = "survey" /\ day' = day + 1
      /\ UNCHANGED <<real, synth, today, cutoff, tick>>
  BY <1>2 DEF Survey, NextDay, InHand, edgeVars, database
<1>4. \A h : (Filled(h)' <=> Filled(h)) /\ (h \in Eligible(DayOf(h))' <=> h \in Eligible(DayOf(h)))
  BY <1>3, SameEligible DEF Filled
<1>5. \A h \in Hours : Filled(h) \/ synth[h] = {}
  BY <1>3 DEF GapInv
<1>6. Hours' = Hours /\ \A h \in Hours : DayOf(h)' = DayOf(h) /\ DayOf(h) \in Nat
  BY HourFacts DEF Hours, DayOf
<1>7. \A h \in InHand' : synth'[h] = IF First(h)' THEN 1 .. tick' - 1 ELSE {}
  BY <1>3 DEF CleanInv, Missing
<1>8. ASSUME NEW h \in Hours \ InHand', h \in Eligible(DayOf(h)), DayOf(h) <= day
      PROVE  Filled(h)
  <2>1. CASE DayOf(h) < day
    BY <1>3, <1>8, <2>1 DEF GapInv
  <2>2. CASE DayOf(h) = day
    BY <1>3, <1>5, <1>8, <2>2 DEF Missing, Filled
  <2> QED
    BY <1>0, <1>6, <1>8, <2>1, <2>2
<1>9. ASSUME NEW h \in Hours' \ InHand', h \in Eligible(DayOf(h))',
             DayOf(h)' < day' \/ (DayOf(h)' = day' /\ at' # "survey")
      PROVE  Filled(h)'
  <2>1. DayOf(h) <= day
    BY <1>0, <1>3, <1>6, <1>9
  <2> QED
    BY <1>4, <1>6, <1>8, <1>9, <2>1
<1> QED
  BY <1>3, <1>4, <1>5, <1>6, <1>7, <1>9 DEF GapInv

LEMMA NextGapInv == IndInv /\ CleanInv /\ GapInv /\ [Next]_vars => GapInv'
<1> SUFFICES ASSUME IndInv, CleanInv, GapInv, [Next]_vars, Undisturbed'
             PROVE  GapInv'
  BY DEF GapInv
<1>0. BackfillTypeOK /\ troubles \in Nat /\ day \in Nat
  BY HourFacts DEF IndInv, BackfillTypeOK
<1>a. ASSUME NEW ok \in BOOLEAN, Call(ok) PROVE Undisturbed /\ ok
  BY <1>0, <1>a DEF Call, Undisturbed
<1>1. CASE StartPass
  <2>1. PICK ok \in BOOLEAN : Call(ok)
    BY <1>1 DEF StartPass
  <2>2. /\ Undisturbed /\ InHand = {} /\ InHand' = {} /\ at' = "purge"
        /\ UNCHANGED <<real, synth>>
    BY <1>1, <1>a, <2>1 DEF StartPass, InHand, edgeVars, database
  <2> QED
    BY <2>2 DEF GapInv, Filled, Hours
<1>2. CASE PurgePoint
  <2>1. PICK h \in todo, ok \in BOOLEAN :
           /\ Call(ok)
           /\ synth' = IF ok THEN [synth EXCEPT ![h] = @ \ {tick}] ELSE synth
    BY <1>2 DEF PurgePoint
  <2>2. /\ Undisturbed /\ at = "purge" /\ at' = "purge" /\ real' = real
        /\ InHand = {} /\ InHand' = {}
    BY <1>2, <1>a, <2>1 DEF PurgePoint, InHand, edgeVars
  <2>3. h \in real
    BY <2>1, <2>2 DEF CleanInv
  <2>4. \A i \in Hours \ {h} : synth'[i] = synth[i]
    BY <1>0, <2>1 DEF BackfillTypeOK
  <2> QED
    BY <2>2, <2>3, <2>4 DEF GapInv, Filled, Hours
<1>3. CASE PurgeSkipsHour
  BY <1>3, <1>a DEF PurgeSkipsHour
<1>4. CASE PurgeDone
  <2>1. /\ Undisturbed /\ at' = "survey" /\ day' = 0 /\ InHand = {} /\ InHand' = {}
        /\ UNCHANGED <<real, synth>>
    BY <1>4 DEF PurgeDone, InHand, edgeVars, database, Undisturbed
  <2>2. \A h \in Hours' : ~ DayOf(h)' < day'
    BY <2>1, HourFacts DEF Hours, DayOf
  <2> QED
    BY <2>1, <2>2 DEF GapInv, Filled, Hours
<1>5. CASE Survey
  <2>1. Undisturbed
    BY <1>5, <1>a DEF Survey
  <2> QED
    BY <1>5, <2>1, SurveyFinds
<1>6. CASE PassDone \/ RetrySucceeds \/ RetryFails \/ ReplayDone
  <2>1. /\ Undisturbed /\ UNCHANGED <<synth, real, tick, todo, today, cutoff>>
        /\ \/ at' = "off"
           \/ at = "retry" /\ at' = "survey" /\ day' = day + 1
           \/ at = "replay" /\ at' = "store" /\ day' = day
    BY <1>6
    DEF PassDone, RetrySucceeds, RetryFails, ReplayDone, NextDay, edgeVars, database,
        locals, Undisturbed
  <2>2. InHand' = InHand
    BY <1>6, <2>1 DEF PassDone, RetrySucceeds, RetryFails, ReplayDone, NextDay, InHand
  <2> QED
    BY <1>0, <2>1, <2>2, SameGaps
<1>7. CASE PricesFor \/ StorePrices \/ LookForPlan \/ RecordPlan
  <2>1. Undisturbed
    BY <1>7, <1>a DEF PricesFor, StorePrices, LookForPlan, RecordPlan
  <2>2. /\ UNCHANGED <<synth, real, tick, todo, today, cutoff>>
        /\ at \in {"prices", "store", "lookup", "record"}
        /\ at = "prices" <=> at' = "replay"
        /\ \/ at' \in {"replay", "lookup", "record"} /\ day' = day
           \/ at' = "survey" /\ day' = day + 1
    BY <1>7
    DEF PricesFor, StorePrices, LookForPlan, RecordPlan, NextDay, edgeVars, database,
        locals
  <2>3. InHand' = InHand
    BY <2>2 DEF InHand
  <2> QED
    BY <1>0, <2>1, <2>2, <2>3, SameGaps
<1>8. CASE ReplayPoint
  <2>1. Undisturbed
    BY <1>8, <1>a DEF ReplayPoint
  <2> QED
    BY <1>8, <2>1, ReplayFills
<1>9. CASE Abort
  BY <1>0, <1>9 DEF Abort, Undisturbed
<1>10. CASE Telemetry \/ EdgeSchedule \/ Clock \/ UNCHANGED vars
  <2>1. /\ Undisturbed /\ UNCHANGED <<synth, tick, todo, today, cutoff, at, day>>
        /\ real \subseteq real'
    BY <1>10
    DEF Telemetry, EdgeSchedule, Clock, vars, edgeVars, database, locals, Undisturbed
  <2>2. InHand' = InHand
    BY <2>1 DEF InHand
  <2> QED
    BY <1>0, <2>1, <2>2, SameGaps
<1> QED
  BY <1>1, <1>2, <1>3, <1>4, <1>5, <1>6, <1>7, <1>8, <1>9, <1>10
  DEF Next, Pass, Environment

LEMMA NextPlanInv == IndInv /\ PlanInv /\ [Next]_vars => PlanInv'
<1> SUFFICES ASSUME IndInv, PlanInv, [Next]_vars
             PROVE  PlanInv'
  OBVIOUS
<1>0. BackfillTypeOK /\ troubles \in Nat /\ Days' = Days
  BY HourFacts DEF IndInv, BackfillTypeOK, Days, DayOf
<1>a. ASSUME NEW ok \in BOOLEAN, Call(ok), Undisturbed' PROVE Undisturbed /\ ok
  BY <1>0, <1>a DEF Call, Undisturbed
<1>1. CASE RetrySucceeds
  <2>1. /\ at = "retry" /\ at' = "survey" /\ price' = [price EXCEPT ![day] = "oree"]
        /\ UNCHANGED <<planned, troubles>>
    BY <1>1 DEF RetrySucceeds, NextDay
  <2>2. \A d \in Days : price'[d] # None => price[d] # None
    BY <1>0, <2>1 DEF PlanInv, BackfillTypeOK
  <2> QED
    BY <1>0, <2>1, <2>2 DEF PlanInv, PricedDayIsPlanned, Undisturbed
<1>2. CASE StorePrices
  <2>1. /\ at' = "lookup" /\ UNCHANGED <<planned, day>> /\ at = "store"
        /\ price' \in {price, [price EXCEPT ![day] = source]}
    BY <1>2 DEF StorePrices, locals
  <2>2. \A d \in Days \ {day} : price'[d] = price[d]
    BY <1>0, <2>1 DEF BackfillTypeOK
  <2>3. Undisturbed' => Undisturbed
    BY <1>2, <1>a DEF StorePrices
  <2> QED
    BY <1>0, <2>1, <2>2, <2>3 DEF PlanInv, PricedDayIsPlanned
<1>3. CASE LookForPlan
  <2>1. /\ at = "lookup" /\ UNCHANGED <<planned, price>>
        /\ \/ at' = "survey"
           \/ at' = "record" /\ day' = day
    BY <1>3 DEF LookForPlan, NextDay, database
  <2>2. ASSUME Undisturbed', at' = "survey" PROVE day \in planned
    BY <1>3, <1>a, <2>2 DEF LookForPlan
  <2>3. Undisturbed' => Undisturbed
    BY <1>3, <1>a DEF LookForPlan
  <2> QED
    BY <1>0, <2>1, <2>2, <2>3 DEF PlanInv, PricedDayIsPlanned
<1>4. CASE RecordPlan
  <2>1. PICK ok \in BOOLEAN :
           Call(ok) /\ planned' = IF ok THEN planned \cup {day} ELSE planned
    BY <1>4 DEF RecordPlan
  <2>2. at = "record" /\ at' = "survey" /\ UNCHANGED price
    BY <1>4 DEF RecordPlan, NextDay
  <2>3. Undisturbed' => Undisturbed /\ planned' = planned \cup {day}
    BY <1>a, <2>1
  <2> QED
    BY <1>0, <2>2, <2>3 DEF PlanInv, PricedDayIsPlanned
<1>5. CASE Survey
  <2>1. /\ at = "survey" /\ UNCHANGED <<planned, price>>
        /\ at' \in {"survey", "prices", "retry"}
        /\ at' = "retry" => price[day] = "fallback" /\ day' = day
    BY <1>5 DEF Survey, NextDay, database
  <2>2. Undisturbed' => Undisturbed
    BY <1>5, <1>a DEF Survey
  <2> QED
    BY <1>0, <2>1, <2>2 DEF PlanInv, PricedDayIsPlanned, None
<1>6. CASE Abort
  <2>1. ~Undisturbed' /\ at' = "off"
    BY <1>0, <1>6 DEF Abort, Undisturbed
  <2> QED
    BY <2>1 DEF PlanInv, PricedDayIsPlanned
<1>7. CASE StartPass \/ PurgePoint \/ PurgeSkipsHour \/ PricesFor \/ ReplayPoint
  <2>1. /\ UNCHANGED <<planned, price>> /\ at' \in {"purge", "replay"}
        /\ at \in {"off", "purge", "prices", "replay"}
    BY <1>7
    DEF StartPass, PurgePoint, PurgeSkipsHour, PricesFor, ReplayPoint, database
  <2>2. Undisturbed' => Undisturbed
    BY <1>7, <1>a
    DEF StartPass, PurgePoint, PurgeSkipsHour, PricesFor, ReplayPoint
  <2> QED
    BY <1>0, <2>1, <2>2 DEF PlanInv, PricedDayIsPlanned
<1>8. CASE PurgeDone \/ PassDone \/ RetryFails \/ ReplayDone
  <2>1. /\ UNCHANGED <<planned, price, troubles>>
        /\ at' \in {"survey", "off", "store"} /\ at \in {"purge", "survey", "retry", "replay"}
    BY <1>8
    DEF PurgeDone, PassDone, RetryFails, ReplayDone, NextDay, database
  <2> QED
    BY <1>0, <2>1 DEF PlanInv, PricedDayIsPlanned, Undisturbed
<1>9. CASE Telemetry \/ EdgeSchedule \/ Clock \/ UNCHANGED vars
  <2>1. UNCHANGED <<price, troubles, at, day>> /\ planned \subseteq planned'
    BY <1>9
    DEF Telemetry, EdgeSchedule, Clock, vars, database, locals
  <2> QED
    BY <1>0, <2>1 DEF PlanInv, PricedDayIsPlanned, Undisturbed
<1> QED
  BY <1>1, <1>2, <1>3, <1>4, <1>5, <1>6, <1>7, <1>8, <1>9
  DEF Next, Pass, Environment

-----------------------------------------------------------------------------
(* What a pass leaves behind when others have failed                        *)

(* History: whether the pass in hand, or the last one, has gone smoothly    *)
(* since it began, and the hours that had live telemetry when it began.     *)
VARIABLES smooth, live

historyVars == <<vars, smooth, live>>

Begins == at = "off" /\ at' = "purge"

Recorded ==
    /\ smooth' = (troubles' = troubles /\ (Begins \/ smooth))
    /\ live' = IF Begins THEN real ELSE live

HistorySpec ==
    /\ Init /\ smooth = FALSE /\ live = {}
    /\ [][Next /\ Recorded]_historyVars

(* One series, and none where live telemetry was.                           *)
Settled(h) == doubled[h] = {} /\ (h \in live => synth[h] = {})

(* history.py:380-408: the safety half of RealWins and StacksGo.  Whatever  *)
(* earlier passes have left, after the purge of a smooth one no hour holds  *)
(* two series or both kinds of points, but for those whose telemetry has    *)
(* come since it began.                                                     *)
PassCleans == smooth /\ at # "purge" => \A h \in Hours : Settled(h)

(* main.py:70-88: and what it has looked at has points of one kind or the   *)
(* other, if not, after earlier troubles, all of them.                      *)
PassCovers ==
    smooth /\ at \in {"survey", "off"} =>
        \A h \in Hours :
            DayOf(h) < day /\ h \in Eligible(DayOf(h)) => h \in real \/ synth[h] # {}

(* The purge goes through the hours in hand tick by tick, the replay fills  *)
(* empty ones, and what neither has in hand is settled and covered.         *)
SmoothInv ==
    /\ smooth \in BOOLEAN /\ live \subseteq real
    /\ smooth =>
          /\ at \in {"purge", "replay"} => (todo = {} => tick = 1)
          /\ at \notin {"off", "purge", "replay"} => tick = 1
          /\ at = "purge" =>
                /\ \A h \in Hours \ todo : Settled(h)
                /\ \A h \in todo : First(h) => synth[h] \cap (1 .. tick - 1) = {}
          /\ at # "purge" =>
                /\ \A h \in Hours : Settled(h)
                /\ \A h \in Hours \ InHand :
                      /\ h \in Eligible(DayOf(h))
                      /\ DayOf(h) < day \/ (DayOf(h) = day /\ at \notin {"survey", "off"})
                      => h \in real \/ synth[h] # {}
          /\ \A h \in InHand : Clear(h) /\ h \notin live

LEMMA InitSmooth == Init /\ smooth = FALSE /\ live = {} => SmoothInv
BY DEF Init, SmoothInv

(* A call of a smooth pass has succeeded.                                   *)
LEMMA SmoothCall ==
    ASSUME BackfillTypeOK, NEW ok \in BOOLEAN, Call(ok), troubles' = troubles
    PROVE  ok
BY HourFacts DEF Call, BackfillTypeOK

(* A step of the pass in which it neither fills nor deletes nor takes up    *)
(* other hours, and leaves none of a day uncovered that it goes on from.    *)
LEMMA SmoothStep ==
    ASSUME SmoothInv, smooth, Recorded, smooth', ~Begins, day \in Nat,
           UNCHANGED <<synth, doubled, tick, todo, today, cutoff>>, real \subseteq real',
           InHand' = InHand,
           \/ at' = at /\ day' = day
           \/ at = "survey" /\ at' = "off" /\ day' = day
           \/ at \in {"retry", "lookup", "record"} /\ at' = "survey" /\ day' = day + 1
           \/ at = "replay" /\ todo = {} /\ at' = "store" /\ day' = day
           \/ at \in {"store", "lookup"} /\ at' \in {"lookup", "record"} /\ day' = day
           \/ at = "prices" /\ at' = "replay" /\ day' = day
    PROVE  SmoothInv'
<1>1. live' = live /\ smooth' \in BOOLEAN /\ live \subseteq real
  BY DEF Recorded, SmoothInv
<1>2. Hours' = Hours /\ \A h \in Hours : DayOf(h)' = DayOf(h) /\ DayOf(h) \in Nat
  BY HourFacts DEF Hours, DayOf
<1>3. \A h : Settled(h)' = Settled(h) /\ First(h)' = First(h)
  BY <1>1 DEF Settled, First
<1>4. \A h \in InHand : Clear(h)' = Clear(h)
  BY <1>3 DEF Clear
<1>5. \A h \in Hours : h \in Eligible(DayOf(h))' => h \in Eligible(DayOf(h))
  BY SameEligible
<1>6. /\ at' \in {"purge", "replay"} => (todo' = {} => tick' = 1)
      /\ at' \notin {"off", "purge", "replay"} => tick' = 1
  BY DEF SmoothInv
<1>7. at' = "purge" <=> at = "purge"
  OBVIOUS
<1>8. ASSUME at' # "purge", NEW h \in Hours' \ InHand', h \in Eligible(DayOf(h))',
             DayOf(h)' < day' \/ (DayOf(h)' = day' /\ at' \notin {"survey", "off"})
      PROVE  h \in real' \/ synth'[h] # {}
  <2>1. h \in Hours \ InHand /\ h \in Eligible(DayOf(h)) /\ at # "purge"
    BY <1>2, <1>5, <1>7, <1>8
  <2>2. DayOf(h) < day \/ (DayOf(h) = day /\ at \notin {"survey", "off"})
    BY <1>2, <1>8
  <2> QED
    BY <2>1, <2>2 DEF SmoothInv
<1> QED
  BY <1>1, <1>2, <1>3, <1>4, <1>6, <1>7, <1>8 DEF SmoothInv

(* The pass begins with everything that is not settled in hand.             *)
LEMMA SmoothBegins ==
    ASSUME IndInv, StartPass, Recorded, smooth'
    PROVE  SmoothInv'
<1>0. /\ BackfillTypeOK /\ NeverAheadOfClock /\ now \in Nat
      /\ \A h \in Hours : h \in Nat
  BY HourFacts DEF IndInv, BackfillTypeOK
<1>1. /\ Begins /\ at' = "purge" /\ tick' = 1 /\ live' = real
      /\ UNCHANGED <<real, synth, doubled, troubles>>
  BY DEF StartPass, Recorded, Begins, edgeVars, database
<1>2. todo' = Overlapping(DayOf(now)) \cup Stacked(DayOf(now))
  <2>1. PICK ok \in BOOLEAN :
           /\ Call(ok)
           /\ ok => todo' = Overlapping(DayOf(now)) \cup Stacked(DayOf(now))
    BY DEF StartPass
  <2> QED
    BY <1>0, <1>1, <2>1, SmoothCall
<1>3. \A h \in Hours : synth[h] # {} => DayOf(h) <= DayOf(now)
  BY <1>0, EarlierHour DEF NeverAheadOfClock
<1>4. ASSUME NEW h \in Hours \ todo' PROVE Settled(h)'
  <2>1. doubled[h] \subseteq synth[h]
    BY <1>0 DEF BackfillTypeOK
  <2>2. h \notin Overlapping(DayOf(now)) /\ h \notin Stacked(DayOf(now))
    BY <1>2, <1>4
  <2>3. doubled[h] = {}
    BY <1>3, <2>1, <2>2 DEF Stacked
  <2>4. h \in real => synth[h] = {}
    BY <1>3, <2>2 DEF Overlapping
  <2> QED
    BY <1>1, <2>3, <2>4 DEF Settled
<1>5. Hours' = Hours /\ InHand' = {}
  BY <1>1 DEF Hours, InHand
<1>6. \A h \in todo' : First(h)' => synth'[h] \cap (1 .. tick' - 1) = {}
  BY <1>1
<1> QED
  BY <1>1, <1>4, <1>5, <1>6 DEF SmoothInv, Recorded

(* The purge empties the hours in hand one after the other.                 *)
LEMMA SmoothPurge ==
    ASSUME IndInv, SmoothInv, smooth, PurgePoint, Recorded, smooth'
    PROVE  SmoothInv'
<1>0. /\ BackfillTypeOK /\ tick \in Nat /\ tick >= 1 /\ tick <= Ticks /\ Ticks \in Nat
      /\ todo \subseteq Hours /\ Hours \subseteq Nat
  BY HourFacts DEF IndInv, BackfillTypeOK, Hours
<1>1. PICK h \in todo, ok \in BOOLEAN :
         /\ First(h) /\ NextTick(h) /\ Call(ok) /\ h \in Hours
         /\ ok => /\ synth' = [synth EXCEPT ![h] = @ \ {tick}]
                  /\ doubled' = [doubled EXCEPT ![h] = @ \ {tick}]
  BY <1>0 DEF PurgePoint
<1>2. /\ at = "purge" /\ at' = "purge" /\ real' = real /\ live' = live /\ live \subseteq real
      /\ troubles' = troubles /\ InHand' = {} /\ Hours' = Hours
  BY DEF PurgePoint, Recorded, Begins, SmoothInv, InHand, Hours, edgeVars
<1>3. /\ synth' = [synth EXCEPT ![h] = @ \ {tick}]
      /\ doubled' = [doubled EXCEPT ![h] = @ \ {tick}]
  BY <1>0, <1>1, <1>2, SmoothCall
<1>4. /\ synth'[h] = synth[h] \ {tick} /\ doubled'[h] = doubled[h] \ {tick}
      /\ \A i \in Hours \ {h} : synth'[i] = synth[i] /\ doubled'[i] = doubled[i]
      /\ doubled[h] \subseteq synth[h] /\ synth[h] \subseteq 1 .. Ticks
  BY <1>0, <1>1, <1>3 DEF BackfillTypeOK
<1>5. synth[h] \cap (1 .. tick - 1) = {}
  BY <1>1, <1>2 DEF SmoothInv
<1>6. \A i \in Hours \ todo : Settled(i)'
  <2>1. \A i \in Hours \ todo : Settled(i)
    BY <1>2 DEF SmoothInv
  <2> QED
    BY <1>1, <1>2, <1>4, <2>1 DEF Settled
<1>7. CASE tick < Ticks
  <2>1. tick' = tick + 1 /\ todo' = todo
    BY <1>1, <1>7 DEF NextTick
  <2>2. synth'[h] \cap (1 .. tick' - 1) = {}
    BY <1>0, <1>4, <1>5, <2>1
  <2>3. \A i \in todo : First(i)' => i = h
    BY <1>0, <1>1, <2>1 DEF First
  <2>4. \A i \in todo' : First(i)' => synth'[i] \cap (1 .. tick' - 1) = {}
    BY <2>1, <2>2, <2>3
  <2>5. todo' # {}
    BY <1>1, <2>1
  <2> QED
    BY <1>2, <1>6, <2>1, <2>4, <2>5 DEF SmoothInv, Recorded
<1>8. CASE ~ tick < Ticks
  <2>1. tick = Ticks /\ tick' = 1 /\ todo' = todo \ {h}
    BY <1>0, <1>1, <1>8 DEF NextTick
  <2>2. synth'[h] = {} /\ doubled'[h] = {}
    BY <1>0, <1>4, <1>5, <2>1
  <2>3. Settled(h)'
    BY <2>2 DEF Settled
  <2>4. \A i \in Hours' \ todo' : Settled(i)'
    BY <1>2, <1>6, <2>1, <2>3
  <2>5. \A i \in todo' : First(i)' => synth'[i] \cap (1 .. tick' - 1) = {}
    BY <2>1
  <2> QED
    BY <1>2, <2>1, <2>4, <2>5 DEF SmoothInv, Recorded
<1> QED
  BY <1>7, <1>8

(* The survey takes up empty hours, and all of the day's.                   *)
LEMMA SmoothSurvey ==
    ASSUME IndInv, SmoothInv, smooth, Survey, Recorded, smooth'
    PROVE  SmoothInv'
<1>0. BackfillTypeOK /\ day \in Nat /\ HoursOf(day) \subseteq Hours
  BY HourFacts DEF IndInv, BackfillTypeOK
<1>1. /\ at = "survey" /\ tick = 1 /\ InHand = {}
      /\ UNCHANGED <<real, synth, doubled, today, cutoff, tick>>
      /\ \/ at' \in {"prices", "retry"} /\ day' = day
         \/ at' = "survey" /\ day' = day + 1
      /\ live' = live /\ troubles' = troubles
  BY DEF Survey, NextDay, SmoothInv, Recorded, Begins, InHand, edgeVars, database
<1>2. todo' = Missing(day)
  <2>1. PICK ok \in BOOLEAN : Call(ok) /\ (ok => todo' = Missing(day))
    BY DEF Survey
  <2> QED
    BY <1>0, <1>1, <2>1, SmoothCall
<1>3. /\ todo' # {} <=> at' = "prices"
      /\ InHand' = Missing(day)
  BY <1>1, <1>2 DEF Survey, NextDay, InHand
<1>4. Hours' = Hours /\ \A h \in Hours : DayOf(h)' = DayOf(h) /\ DayOf(h) \in Nat
  BY HourFacts DEF Hours, DayOf
<1>5. \A h \in Hours : Settled(h)' /\ (h \in Eligible(DayOf(h))' => h \in Eligible(DayOf(h)))
  BY <1>1, SameEligible DEF SmoothInv, Settled
<1>6. \A h \in InHand' : Clear(h)' /\ h \notin live'
  BY <1>1, <1>3 DEF Clear, Missing, SmoothInv
<1>7. ASSUME NEW h \in Hours \ InHand', h \in Eligible(DayOf(h)), DayOf(h) <= day
      PROVE  h \in real \/ synth[h] # {}
  <2>1. CASE DayOf(h) < day
    BY <1>1, <1>7, <2>1 DEF SmoothInv
  <2>2. CASE DayOf(h) = day
    BY <1>3, <1>7, <2>2 DEF Missing
  <2> QED
    BY <1>0, <1>4, <1>7, <2>1, <2>2
<1>8. ASSUME NEW h \in Hours' \ InHand', h \in Eligible(DayOf(h))',
             DayOf(h)' < day' \/ (DayOf(h)' = day' /\ at' \notin {"survey", "off"})
      PROVE  h \in real' \/ synth'[h] # {}
  <2>1. DayOf(h) <= day
    BY <1>0, <1>1, <1>4, <1>8
  <2> QED
    BY <1>1, <1>4, <1>5, <1>7, <1>8, <2>1
<1>9. live \subseteq real /\ smooth' \in BOOLEAN
  BY DEF SmoothInv, Recorded
<1> QED
  BY <1>1, <1>4, <1>5, <1>6, <1>8, <1>9 DEF SmoothInv

(* The replay writes where nothing is.                                      *)
LEMMA SmoothReplay ==
    ASSUME IndInv, SmoothInv, smooth, ReplayPoint, Recorded, smooth'
    PROVE  SmoothInv'
<1>0. /\ BackfillTypeOK /\ tick \in Nat /\ Ticks \in Nat \ {0}
      /\ todo \subseteq Hours /\ Hours \subseteq Nat
  BY HourFacts DEF IndInv, BackfillTypeOK, Hours
<1>1. PICK h \in todo, ok \in BOOLEAN :
         /\ First(h) /\ NextTick(h) /\ Call(ok) /\ h \in Hours
         /\ ok => synth' = [synth EXCEPT ![h] = @ \cup {tick}]
         /\ UNCHANGED doubled \/ tick \in synth[h]
  BY <1>0 DEF ReplayPoint
<1>2. /\ at = "replay" /\ at' = "replay" /\ live' = live /\ troubles' = troubles
      /\ UNCHANGED <<real, day, today, cutoff>>
      /\ InHand = todo /\ InHand' = todo'
  BY DEF ReplayPoint, Recorded, Begins, InHand, edgeVars
<1>3. synth' = [synth EXCEPT ![h] = @ \cup {tick}]
  BY <1>0, <1>1, <1>2, SmoothCall
<1>4. /\ synth'[h] = synth[h] \cup {tick} /\ synth'[h] # {}
      /\ \A i \in Hours \ {h} : synth'[i] = synth[i]
  BY <1>0, <1>1, <1>3 DEF BackfillTypeOK
<1>5. synth[h] \subseteq 1 .. tick - 1 /\ h \notin live /\ live \subseteq real
  BY <1>1, <1>2 DEF SmoothInv, Clear
<1>6. UNCHANGED doubled
  BY <1>0, <1>1, <1>5
<1>7. Hours' = Hours /\ \A i \in Hours : DayOf(i)' = DayOf(i)
  BY DEF Hours, DayOf
<1>8. \A i \in Hours : Settled(i)'
  <2>1. \A i \in Hours : Settled(i)
    BY <1>2 DEF SmoothInv
  <2> QED
    BY <1>2, <1>4, <1>5, <1>6, <2>1 DEF Settled
<1>9. \A i \in todo \ {h} : synth'[i] = {} /\ i \in Hours /\ i \notin live
  <2> TAKE i \in todo \ {h}
  <2>1. ~ First(i)
    BY <1>0, <1>1 DEF First
  <2>2. Clear(i) /\ i \notin live
    BY <1>2 DEF SmoothInv
  <2> QED
    BY <1>0, <1>4, <2>1, <2>2 DEF Clear
<1>10. todo' \subseteq todo /\ (todo' = {} => tick' = 1) /\ (h \notin todo' => tick' = 1)
  BY <1>1 DEF NextTick
<1>11. \A i \in InHand' : Clear(i)' /\ i \notin live'
  <2>1. CASE tick < Ticks
    <3>1. tick' = tick + 1 /\ todo' = todo
      BY <1>1, <2>1 DEF NextTick
    <3>2. synth'[h] \subseteq 1 .. tick' - 1
      BY <1>0, <1>1, <1>4, <1>5, <3>1 DEF BackfillTypeOK
    <3>3. First(h)'
      BY <1>1, <3>1 DEF First
    <3> QED
      BY <1>2, <1>5, <1>9, <3>1, <3>2, <3>3 DEF Clear
  <2>2. CASE ~ tick < Ticks
    BY <1>1, <1>2, <1>9, <2>2 DEF NextTick, Clear
  <2> QED
    BY <2>1, <2>2
<1>12. ASSUME NEW i \in Hours' \ InHand', i \in Eligible(DayOf(i))',
              DayOf(i)' < day' \/ (DayOf(i)' = day' /\ at' \notin {"survey", "off"})
       PROVE  i \in real' \/ synth'[i] # {}
  <2>1. i = h \/ i \in Hours \ InHand
    BY <1>1, <1>2, <1>7, <1>12 DEF NextTick
  <2>2. i \in Eligible(DayOf(i))
    BY <1>2, <1>7, <1>12, SameEligible
  <2>3. CASE i \in Hours \ InHand /\ i # h
    <3>1. i \in real \/ synth[i] # {}
      BY <1>2, <1>7, <1>12, <2>2, <2>3 DEF SmoothInv
    <3> QED
      BY <1>2, <1>4, <2>3, <3>1
  <2> QED
    BY <1>4, <2>1, <2>3
<1> QED
  BY <1>2, <1>5, <1>7, <1>8, <1>10, <1>11, <1>12 DEF SmoothInv, Recorded

LEMMA NextSmooth ==
    IndInv /\ SmoothInv /\ [Next /\ Recorded]_historyVars => SmoothInv'
<1> SUFFICES ASSUME IndInv, SmoothInv, [Next /\ Recorded]_historyVars
             PROVE  SmoothInv'
  OBVIOUS
<1>0. BackfillTypeOK /\ day \in Nat /\ troubles \in Nat
  BY HourFacts DEF IndInv, BackfillTypeOK
<1>1. CASE UNCHANGED historyVars
  BY <1>1, SameEligible
  DEF historyVars, vars, edgeVars, database, locals, SmoothInv, Settled, First, Clear,
      InHand, Hours, DayOf
<1>2. CASE Next /\ Recorded /\ ~smooth'
  <2>1. live' = real \/ live' = live
    BY <1>2 DEF Recorded
  <2>2. real \subseteq real'
    BY <1>2
    DEF Next, Pass, Environment, StartPass, PurgePoint, PurgeSkipsHour, PurgeDone,
        Survey, PassDone, RetrySucceeds, RetryFails, PricesFor, ReplayPoint, ReplayDone,
        StorePrices, LookForPlan, RecordPlan, Abort, Telemetry, EdgeSchedule, Clock,
        edgeVars
  <2> QED
    BY <1>2, <2>1, <2>2 DEF SmoothInv, Recorded
<1>3. CASE StartPass /\ Recorded /\ smooth'
  BY <1>3, SmoothBegins
<1>4. CASE Next /\ ~StartPass /\ Recorded /\ smooth'
  <2>1. ~Begins
    BY <1>4
    DEF Begins, Next, Pass, Environment, PurgePoint, PurgeSkipsHour, PurgeDone,
        Survey, PassDone, RetrySucceeds, RetryFails, PricesFor, ReplayPoint, ReplayDone,
        StorePrices, LookForPlan, RecordPlan, Abort, Telemetry, EdgeSchedule, Clock,
        NextDay
  <2>2. smooth /\ troubles' = troubles /\ live' = live /\ smooth' \in BOOLEAN
    BY <1>4, <2>1 DEF Recorded
  <2>3. CASE PurgePoint
    BY <1>4, <2>2, <2>3, SmoothPurge
  <2>4. CASE PurgeSkipsHour
    BY <1>0, <2>2, <2>4 DEF PurgeSkipsHour, Call
  <2>5. CASE PurgeDone
    <3>1. /\ at = "purge" /\ at' = "survey" /\ todo = {} /\ tick = 1 /\ day' = 0
          /\ UNCHANGED <<real, synth, doubled, todo, tick>> /\ InHand' = {}
      BY <2>2, <2>5 DEF PurgeDone, SmoothInv, InHand, edgeVars, database
    <3>2. Hours' = Hours /\ \A h \in Hours : DayOf(h)' = DayOf(h) /\ DayOf(h) \in Nat
      BY HourFacts DEF Hours, DayOf
    <3>3. \A h \in Hours : Settled(h)' /\ ~ (DayOf(h)' < day')
      BY <2>2, <3>1, <3>2 DEF SmoothInv, Settled
    <3>4. live' \subseteq real'
      BY <2>2, <3>1 DEF SmoothInv
    <3> QED
      BY <2>2, <3>1, <3>2, <3>3, <3>4 DEF SmoothInv
  <2>6. CASE Survey
    BY <1>4, <2>2, <2>6, SmoothSurvey
  <2>7. CASE ReplayPoint
    BY <1>4, <2>2, <2>7, SmoothReplay
  <2>8. CASE PassDone \/ RetrySucceeds \/ RetryFails \/ ReplayDone
    <3>1. /\ UNCHANGED <<synth, doubled, real, tick, todo, today, cutoff>>
          /\ \/ at = "survey" /\ at' = "off" /\ day' = day
             \/ at = "retry" /\ at' = "survey" /\ day' = day + 1
             \/ at = "replay" /\ at' = "store" /\ day' = day /\ todo = {}
      BY <2>8
      DEF PassDone, RetrySucceeds, RetryFails, ReplayDone, NextDay, edgeVars, database,
          locals
    <3>2. InHand' = InHand
      BY <3>1 DEF InHand
    <3> QED
      BY <1>0, <1>4, <2>1, <2>2, <3>1, <3>2, SmoothStep
  <2>9. CASE PricesFor \/ StorePrices \/ LookForPlan \/ RecordPlan
    <3>1. /\ UNCHANGED <<synth, doubled, real, tick, todo, today, cutoff>>
          /\ \/ at = "prices" /\ at' = "replay" /\ day' = day
             \/ at \in {"store", "lookup"} /\ at' \in {"lookup", "record"} /\ day' = day
             \/ at \in {"lookup", "record"} /\ at' = "survey" /\ day' = day + 1
      BY <2>9
      DEF PricesFor, StorePrices, LookForPlan, RecordPlan, NextDay, edgeVars, database,
          locals
    <3>2. InHand' = InHand
      BY <3>1 DEF InHand
    <3> QED
      BY <1>0, <1>4, <2>1, <2>2, <3>1, <3>2, SmoothStep
  <2>10. CASE Abort
    BY <1>0, <2>2, <2>10 DEF Abort
  <2>11. CASE Telemetry \/ EdgeSchedule \/ Clock
    <3>1. /\ UNCHANGED <<synth, doubled, tick, todo, today, cutoff, at, day>>
          /\ real \subseteq real'
      BY <2>11 DEF Telemetry, EdgeSchedule, Clock, edgeVars, database, locals
    <3>2. InHand' = InHand
      BY <3>1 DEF InHand
    <3> QED
      BY <1>0, <1>4, <2>1, <2>2, <3>1, <3>2, SmoothStep
  <2> QED
    BY <1>4, <2>3, <2>4, <2>5, <2>6, <2>7, <2>8, <2>9, <2>10, <2>11
    DEF Next, Pass, Environment
<1> QED
  BY <1>1, <1>2, <1>3, <1>4

-----------------------------------------------------------------------------
(* The theorems                                                             *)

(* The types, the meaning of the locals, and NeverAheadOfClock.             *)
THEOREM IndInvHolds == Spec => []IndInv
BY InitIndInv, NextIndInv, PTL DEF Spec

(* What the pass has in hand are hours of its day, and a doubled tick is    *)
(* there: the type of history.py's locals and of the points it writes.      *)
THEOREM BackfillTypeCorrect == Spec => []BackfillTypeOK
<1>1. IndInv => BackfillTypeOK
  BY DEF IndInv
<1> QED
  BY <1>1, IndInvHolds, PTL

(* history.py:108-119: nothing synthetic is ever written into the hour in   *)
(* progress or a later one, wherever midnight falls and whatever fails.     *)
THEOREM OnlyThePastIsFilled == Spec => []NeverAheadOfClock
<1>1. IndInv => NeverAheadOfClock
  BY DEF IndInv
<1> QED
  BY <1>1, IndInvHolds, PTL

(* history.py:380-385, "Real data wins": as long as no call has failed, a   *)
(* synthetic point is deleted only from an hour that has live telemetry.    *)
THEOREM OnlyTheReplacedIsDeleted == Spec => PurgeLeavesTheReal
<1>1. Spec => [](IndInv /\ CleanInv)
  BY IndInvHolds, InitCleanInv, NextCleanInv, PTL DEF Spec
<1>2. IndInv /\ CleanInv /\ [Next]_vars =>
         [\A h \in Hours :
             Undisturbed /\ ~ synth[h] \subseteq synth'[h] => h \in real]_vars
  BY OnlyPurgeDeletes
<1> QED
  BY <1>1, <1>2, PTL DEF Spec, PurgeLeavesTheReal

(* What the theorems on gaps and halves rest on.                            *)
THEOREM GapInvHolds == Spec => [](IndInv /\ CleanInv /\ GapInv)
<1>1. Init => IndInv /\ CleanInv /\ GapInv
  BY InitIndInv, InitCleanInv, InitGapInv
<1>2. IndInv /\ CleanInv /\ GapInv /\ [Next]_vars => (IndInv /\ CleanInv /\ GapInv)'
  BY NextIndInv, NextCleanInv, NextGapInv
<1> QED
  BY <1>1, <1>2, PTL DEF Spec

(* main.py:70-88: until something fails, a pass leaves no gap behind: every *)
(* hour that was over when it read the clock has live telemetry or all its  *)
(* synthetic points, whatever telemetry and midnights came in between.      *)
THEOREM PassLeavesNoGap == Spec => []NoGapLeftBehind
<1>1. GapInv => NoGapLeftBehind
  BY DEF GapInv, NoGapLeftBehind, InHand
<1> QED
  BY <1>1, GapInvHolds, PTL

(* history.py:497-499: that an hour with any points counts as covered loses *)
(* none, until something fails.                                             *)
THEOREM HoursAreWhole == Spec => []NoHourHalfFilled
<1>1. CleanInv /\ GapInv => NoHourHalfFilled
  <2> SUFFICES ASSUME CleanInv, GapInv, Undisturbed, NEW h \in Hours
               PROVE  Filled(h) \/ synth[h] = {} \/ (at = "replay" /\ First(h))
    BY DEF NoHourHalfFilled
  <2>1. CASE h \notin InHand
    BY <2>1 DEF GapInv
  <2>2. CASE h \in InHand /\ ~ First(h)
    BY <2>2 DEF GapInv
  <2>3. CASE h \in InHand /\ First(h) /\ at # "replay"
    <3>1. at = "prices" /\ tick = 1
      BY <2>3 DEF InHand, CleanInv
    <3> QED
      BY <2>3, <3>1 DEF GapInv
  <2> QED
    BY <2>1, <2>2, <2>3
<1> QED
  BY <1>1, GapInvHolds, PTL

(* history.py:146-152: a day that was replayed has a plan to be judged by   *)
(* as soon as the pass goes on to the next, until something fails.          *)
THEOREM ReplayedDaysArePlanned == Spec => []PricedDayIsPlanned
<1>1. PlanInv => PricedDayIsPlanned
  BY DEF PlanInv
<1>2. Init => PlanInv
  BY InitGapInv
<1> QED
  BY <1>1, <1>2, IndInvHolds, NextPlanInv, PTL DEF Spec

(* The history variables are only a record: what they are added to is the   *)
(* specification itself.                                                    *)
LEMMA HistoryIsSpec == HistorySpec => Spec
<1>1. [Next /\ Recorded]_historyVars => [Next]_vars
  BY DEF historyVars
<1> QED
  BY <1>1, PTL DEF HistorySpec, Spec

LEMMA SmoothInvHolds == HistorySpec => []SmoothInv
<1>1. HistorySpec => []IndInv
  BY HistoryIsSpec, IndInvHolds, PTL
<1> QED
  BY <1>1, InitSmooth, NextSmooth, PTL DEF HistorySpec

(* history.py:380-408: one smooth pass puts an end to parallel series, and  *)
(* to synthetic points beside the real ones there were when it began.       *)
THEOREM SmoothPassCleans == HistorySpec => []PassCleans
<1>1. SmoothInv => PassCleans
  BY DEF SmoothInv, PassCleans
<1> QED
  BY <1>1, SmoothInvHolds, PTL

(* main.py:70-88, 98-99: and leaves no hour without points on the days it   *)
(* is through with, though earlier passes were abandoned.                   *)
THEOREM SmoothPassCovers == HistorySpec => []PassCovers
<1>1. SmoothInv => PassCovers
  BY DEF SmoothInv, PassCovers, InHand
<1> QED
  BY <1>1, SmoothInvHolds, PTL
=============================================================================

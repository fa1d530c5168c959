------------------------------ MODULE MarketPush ------------------------------
(***************************************************************************)
(* How tomorrow's price curve gets from the cloud to the edge:             *)
(* _market_fetch_loop and _publish_market (cloud/api/src/main.py) poll     *)
(* once a minute and publish through MQTTSubscriber                        *)
(* (cloud/api/src/mqtt_subscriber.py), the broker retains the last         *)
(* message, and the edge takes it in _apply_market_push                    *)
(* (edge/src/main.py), at once or when it connects again.                  *)
(*                                                                         *)
(* The edge's handling of one message is a single step here; EdgePlanner   *)
(* has its interleavings.  There is one device.                            *)
(***************************************************************************)
EXTENDS Integers, FiniteSets

CONSTANTS LastDay,      \* model bound: the clock stops on this day
          FailsHalfWay, \* may the cloud's link change, or a publish fail, while
                        \* the loop has two dates to push?
          MaxCuts,      \* model bound: times that a link is cut
          MaxRestarts   \* model bound: restarts of the cloud's process

ASSUME PushAssumption ==
    /\ LastDay \in Nat /\ MaxCuts \in Nat /\ MaxRestarts \in Nat
    /\ FailsHalfWay \in BOOLEAN

Days == 0 .. LastDay + 1
None == -1

VARIABLES today, due,       \* the date; is it MARKET_FETCH_HOUR_UTC already?
          cloudUp, edgeUp,  \* connections to the broker
          fetched, pushed,  \* locals of the loop: dates
          waiting,          \* dates tried less than MARKET_FETCH_RETRY_S ago
          at, now, queue,   \* where the loop is, its date, what it has to push
          retained,         \* date of the retained market message, or None
          edgeHas,          \* dates whose curve the edge has stored and planned
          cuts, restarts

loopVars == <<fetched, pushed, waiting, at, now, queue>>
linkVars == <<cloudUp, edgeUp, cuts>>
vars == <<today, due, linkVars, loopVars, retained, edgeHas, restarts>>

(* Type invariant: only what is in memory counts as pushed.                 *)
PushTypeOK ==
    /\ today \in 0 .. LastDay /\ due \in BOOLEAN
    /\ cloudUp \in BOOLEAN /\ edgeUp \in BOOLEAN
    /\ fetched \subseteq Days /\ pushed \subseteq fetched
    /\ waiting \subseteq Days
    /\ at \in {"sleep", "fetch", "push"} /\ now \in 0 .. today
    /\ queue \subseteq fetched
    /\ retained \in Days \cup {None} /\ edgeHas \subseteq Days
    /\ cuts \in 0 .. MaxCuts /\ restarts \in 0 .. MaxRestarts

Init ==
    /\ today = 0 /\ due = FALSE
    /\ cloudUp = FALSE /\ edgeUp = FALSE
    /\ fetched = {} /\ pushed = {} /\ waiting = {}
    /\ at = "sleep" /\ now = 0 /\ queue = {}
    /\ retained = None /\ edgeHas = {}
    /\ cuts = 0 /\ restarts = 0

-----------------------------------------------------------------------------
(* The edge                                                                 *)

(* _apply_market_push: a curve of a day that is over is ignored.            *)
Taken(d) == IF d >= today THEN edgeHas \cup {d} ELSE edgeHas

(* A mutant: the subscription is not made again.                            *)
EdgeConnectsOnly ==
    /\ ~edgeUp /\ edgeUp' = TRUE
    /\ UNCHANGED <<today, due, cloudUp, cuts, loopVars, retained, edgeHas, restarts>>

(* It subscribes with every connection and is sent the retained message.    *)
EdgeConnects ==
    /\ ~edgeUp /\ edgeUp' = TRUE
    /\ edgeHas' = IF retained = None THEN edgeHas ELSE Taken(retained)
    /\ UNCHANGED <<today, due, cloudUp, cuts, loopVars, retained, restarts>>

EdgeCut ==
    /\ edgeUp /\ edgeUp' = FALSE
    /\ cuts < MaxCuts /\ cuts' = cuts + 1
    /\ UNCHANGED <<today, due, cloudUp, loopVars, retained, edgeHas, restarts>>

-----------------------------------------------------------------------------
(* The cloud's link                                                         *)

MayFail == FailsHalfWay \/ at # "push" \/ Cardinality(fetched \ pushed) < 2

CloudConnects ==
    /\ ~cloudUp /\ cloudUp' = TRUE
    /\ MayFail
    /\ UNCHANGED <<today, due, edgeUp, cuts, loopVars, retained, edgeHas, restarts>>

CloudCut ==
    /\ cloudUp /\ cloudUp' = FALSE
    /\ MayFail
    /\ cuts < MaxCuts /\ cuts' = cuts + 1
    /\ UNCHANGED <<today, due, edgeUp, loopVars, retained, edgeHas, restarts>>

-----------------------------------------------------------------------------
(* The loop                                                                 *)

(* Once a minute: is tomorrow's curve due, missing, and not just tried?     *)
Tick ==
    /\ at = "sleep"
    /\ now' = today
    /\ IF due /\ today + 1 \notin fetched /\ today + 1 \notin waiting
       THEN /\ at' = "fetch" /\ waiting' = waiting \cup {today + 1}
            /\ UNCHANGED queue
       ELSE at' = "push" /\ queue' = fetched /\ UNCHANGED waiting
    /\ UNCHANGED <<today, due, linkVars, fetched, pushed, retained, edgeHas, restarts>>

FetchSucceeds ==
    /\ at = "fetch"
    /\ fetched' = fetched \cup {now + 1}
    /\ at' = "push" /\ queue' = fetched'
    /\ UNCHANGED <<today, due, linkVars, pushed, waiting, now, retained, edgeHas,
                   restarts>>

FetchFails ==
    /\ at = "fetch"
    /\ at' = "push" /\ queue' = fetched
    /\ UNCHANGED <<today, due, linkVars, fetched, pushed, waiting, now, retained,
                   edgeHas, restarts>>

(* A mutant: the newest date first.                                         *)
FirstNewest(d) == d \in queue /\ \A e \in queue : d >= e

(* fetched is walked through in the order the dates came in.                *)
First(d) == d \in queue /\ \A e \in queue : d <= e

(* What the broker does with a market message.                              *)
Broker(d) ==
    /\ retained' = d
    /\ edgeHas' = IF edgeUp THEN Taken(d) ELSE edgeHas

SkipPushed ==
    /\ at = "push"
    /\ \E d \in pushed : First(d) /\ queue' = queue \ {d}
    /\ UNCHANGED <<today, due, linkVars, fetched, pushed, waiting, at, now, retained,
                   edgeHas, restarts>>

Publish ==
    /\ at = "push" /\ cloudUp
    /\ \E d \in fetched \ pushed :
          /\ First(d) /\ queue' = queue \ {d}
          /\ pushed' = pushed \cup {d}
          /\ Broker(d)
    /\ UNCHANGED <<today, due, linkVars, fetched, waiting, at, now, restarts>>

(* There is no connection.                                                  *)
PublishRefused ==
    /\ at = "push" /\ ~cloudUp
    /\ \E d \in fetched \ pushed : First(d) /\ queue' = queue \ {d}
    /\ UNCHANGED <<today, due, linkVars, fetched, pushed, waiting, at, now, retained,
                   edgeHas, restarts>>

(* The connection breaks, or nothing comes back in time; the broker may or  *)
(* may not have the message.                                                *)
PublishFails ==
    /\ at = "push" /\ cloudUp /\ MayFail
    /\ \E d \in fetched \ pushed :
          /\ First(d) /\ queue' = queue \ {d}
          /\ Broker(d) \/ UNCHANGED <<retained, edgeHas>>
    /\ cloudUp' \in BOOLEAN
    /\ cuts < MaxCuts /\ cuts' = cuts + 1
    /\ UNCHANGED <<today, due, edgeUp, fetched, pushed, waiting, at, now, restarts>>

(* A mutant: the curves are forgotten, not what became of them.             *)
ForgetCurves ==
    /\ at = "push" /\ queue = {}
    /\ fetched' = {d \in fetched : d >= now}
    /\ waiting' = waiting \ {d \in fetched : d < now}
    /\ at' = "sleep"
    /\ UNCHANGED <<today, due, linkVars, pushed, now, queue, retained, edgeHas, restarts>>

(* The dates that are over by the loop's clock are forgotten.               *)
Forget ==
    /\ at = "push" /\ queue = {}
    /\ fetched' = {d \in fetched : d >= now}
    /\ pushed' = {d \in pushed : d >= now}
    /\ waiting' = waiting \ {d \in fetched : d < now}
    /\ at' = "sleep"
    /\ UNCHANGED <<today, due, linkVars, now, queue, retained, edgeHas, restarts>>

RetryDelayOver ==
    /\ waiting # {} /\ waiting' = {}
    /\ UNCHANGED <<today, due, linkVars, fetched, pushed, at, now, queue, retained,
                   edgeHas, restarts>>

CloudRestarts ==
    /\ restarts < MaxRestarts /\ restarts' = restarts + 1
    /\ fetched' = {} /\ pushed' = {} /\ waiting' = {}
    /\ at' = "sleep" /\ queue' = {} /\ cloudUp' = FALSE
    /\ UNCHANGED <<today, due, edgeUp, cuts, now, retained, edgeHas>>

-----------------------------------------------------------------------------
(* The clock                                                                *)

Afternoon ==
    /\ ~due /\ due' = TRUE
    /\ UNCHANGED <<today, linkVars, loopVars, retained, edgeHas, restarts>>

Midnight ==
    /\ today < LastDay /\ today' = today + 1 /\ due' = FALSE
    /\ UNCHANGED <<linkVars, loopVars, retained, edgeHas, restarts>>

Loop ==
    \/ Tick \/ FetchSucceeds \/ FetchFails
    \/ SkipPushed \/ Publish \/ PublishRefused \/ PublishFails \/ Forget

Next ==
    \/ Loop \/ RetryDelayOver \/ CloudRestarts
    \/ EdgeConnects \/ EdgeCut \/ CloudConnects \/ CloudCut
    \/ Afternoon \/ Midnight

Spec == Init /\ [][Next]_vars

(* The loop runs, both sides reconnect, and a page that is asked for again  *)
(* and again is there one day.                                              *)
Fairness ==
    /\ WF_vars(Loop) /\ SF_vars(FetchSucceeds) /\ WF_vars(RetryDelayOver)
    /\ SF_vars(CloudConnects) /\ WF_vars(EdgeConnects)

FairSpec == Spec /\ Fairness

-----------------------------------------------------------------------------
(* Properties                                                               *)

(* main.py:123-127 (_publish_market): what a device that connects is sent   *)
(* is "the latest curve": no later one has been pushed.                     *)
RetainedIsLatest == \A d \in pushed : d <= retained

(* main.py:123-127, 148-149: once it is due, tomorrow's curve gets to the   *)
(* edge before it is tomorrow, whenever the edge or the cloud is offline,   *)
(* unless the day ends first.                                               *)
TomorrowReachesEdge ==
    \A d \in 0 .. LastDay :
        (due /\ today = d) ~> (d + 1 \in edgeHas \/ today > d)
=============================================================================

----------------------------- MODULE AtLeastOnce -----------------------------
(***************************************************************************)
(* What edge/src/mqtt/buffer.py:7-28 promises for QoS 1, with no word of   *)
(* connections, message ids, threads or telemetry: a message that publish  *)
(* has accepted is kept until the broker has received it, and is given up  *)
(* only to make room for later QoS 1 messages, the oldest first.           *)
(***************************************************************************)
EXTENDS Naturals, FiniteSets

CONSTANTS LastMsg,   \* messages are 1 .. LastMsg, in order of acceptance
          Capacity   \* messages kept at most

VARIABLES kept,      \* accepted, and the channel still answers for them
          received,  \* received by the broker at least once
          evicted    \* given up for want of room

vars == <<kept, received, evicted>>

Init == kept = {} /\ received = {} /\ evicted = {}

Accepted == kept \cup received \cup evicted

(* The surplus of a set of messages: its oldest, beyond what there is room  *)
(* for.                                                                     *)
IsSurplus(v, S) ==
    /\ v \subseteq S
    /\ Cardinality(v) = IF Cardinality(S) > Capacity
                        THEN Cardinality(S) - Capacity ELSE 0
    /\ \A i \in v, j \in S \ v : i < j

Accept(m) ==
    /\ \A a \in Accepted : a < m
    /\ \E v \in SUBSET (kept \cup {m}) :
          /\ IsSurplus(v, kept \cup {m})
          /\ kept' = (kept \cup {m}) \ v
          /\ evicted' = evicted \cup v
    /\ UNCHANGED received

(* The broker receives a message, for the first time or once more.          *)
Receive(m) ==
    /\ m \in Accepted
    /\ received' = received \cup {m}
    /\ UNCHANGED <<kept, evicted>>

(* The channel stops answering for a message it knows to be received.       *)
Settle(m) ==
    /\ m \in kept \cap received
    /\ kept' = kept \ {m}
    /\ UNCHANGED <<received, evicted>>

Next == \E m \in 1 .. LastMsg : Accept(m) \/ Receive(m) \/ Settle(m)

Spec == Init /\ [][Next]_vars

(* A message that is kept is received sooner or later, or gives way.        *)
Delivers == \A m \in 1 .. LastMsg : (m \in kept) ~> (m \in received \cup evicted)

FairSpec == Spec /\ Delivers
=============================================================================

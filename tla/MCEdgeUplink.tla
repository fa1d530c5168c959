---------------------------- MODULE MCEdgeUplink ----------------------------
(* EdgeUplink with a few message ids.  paho hands ids out in turn and may   *)
(* come back to any; the model takes any free one, so they are symmetric.   *)
EXTENDS EdgeUplink, TLC

MidSymmetry == Permutations(Mids)
=============================================================================

---------------------------- MODULE MCBridgedRooms -----------------------------
(* Model checking BridgedRooms: two identities, one Matrix and one inbox lane.  *)
EXTENDS BridgedRooms

EveryKind == AllKinds
================================================================================

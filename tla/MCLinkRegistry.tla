--------------------------- MODULE MCLinkRegistry ---------------------------
(***************************************************************************)
(* Instances of LinkRegistry for TLC.  "roomy" is an agent of two clients  *)
(* that never has to let a session go; "tight" is one client's agent that  *)
(* holds one session at a time; "crowded" is two clients' and holds one.   *)
(***************************************************************************)
EXTENDS LinkRegistry

RoomyAndTight == [c1 |-> "roomy", c2 |-> "roomy", c3 |-> "tight"]
Rooms == [roomy |-> 2, tight |-> 1]

Crowded == [c1 |-> "crowded", c2 |-> "crowded"]
CrowdedRoom == [crowded |-> 1]
=============================================================================

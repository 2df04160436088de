----------------------------- MODULE MCHubRooms -----------------------------
(* Instances of HubRooms for TLC: the first two connections come from one  *)
(* device, which has a session; the other one is a guest's.                *)
EXTENDS HubRooms, TLC

CONSTANTS a1, a2, b1, phone, laptop, t1, ann

DeviceOfConns == [c \in Conns |-> IF c \in {a1, a2} THEN phone ELSE laptop]
PhoneHasOne   == [c \in Conns |-> IF DeviceOfConns[c] = phone THEN Tokens ELSE {}]
OwnedByAnn    == [t \in Tokens |-> ann]
Twins         == Permutations(Rooms) \cup Permutations({a1, a2})
=============================================================================

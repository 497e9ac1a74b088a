---------------------------- MODULE MCBuildables -----------------------------
(* Instances of the buildings for TLC: three sites in a row, on which only  *)
(* buildings at the same site collide, next to each other as near as to     *)
(* take most of each other's power.                                         *)
EXTENDS Buildables

MCPosition == <<0, 100, 200>>
MCBuildPoints == [spawn |-> 2, reactor |-> 0, repeater |-> 1, turret |-> 1, drill |-> 1]
MCPowerConsumption == [spawn |-> 10, reactor |-> 0, repeater |-> 0, turret |-> 12, drill |-> 10]
MCSupply == [reactor |-> 20, repeater |-> 10]
MCSupplyRange == [reactor |-> 160, repeater |-> 160]

(* The bases of some maps, and one that nobody could have built: its        *)
(* turrets take each other's power.                                         *)
MCLayouts == { <<"spawn", "reactor", "none">>, <<"drill", "reactor", "spawn">>,
               <<"repeater", "turret", "reactor">>, <<"reactor", "turret", "turret">> }
=============================================================================

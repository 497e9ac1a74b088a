---------------------------- MODULE MCSpawnQueue -----------------------------
(* Instances of the spawn queues for TLC. *)
EXTENDS SpawnQueueRefinement

CONSTANTS aliens, humans, none

BothTeams == {aliens, humans}
OneTeam   == {aliens}
NoClients == {}
Some      == {1}
All       == Clients
=============================================================================

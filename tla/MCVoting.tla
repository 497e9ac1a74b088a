------------------------------ MODULE MCVoting -------------------------------
(* Instances of the votes for TLC. *)
EXTENDS Voting, TLC

CONSTANTS c1, c2, c3, c4, aliens, none

TwoClients   == {c1, c2}
FourClients  == {c1, c2, c3, c4}
NoTeams      == {}
OneTeam      == {aliens}
Symmetry     == Permutations(Clients)

Row(type, stop, quorum, auto, map, percent, delay) ==
  [type |-> type, stop |-> stop, quorum |-> quorum, auto |-> auto, map |-> map,
   percent |-> percent, delay |-> delay]

(* Rows of voteInfo, with one frame for the delay of three seconds and the *)
(* cvars at their defaults, except for the poll, which they disable.       *)
DefaultKinds == {"kick", "draw", "nextmap"}
TeamKinds    == {"kick", "admitdefeat"}
BothKinds    == {"map", "admitdefeat"}
MapKinds     == {"map", "poll"}
Defaults == [k \in {"kick", "draw", "nextmap", "map", "poll", "admitdefeat"} |->
  CASE k = "kick"        -> Row("ANY",    FALSE, TRUE,  TRUE,  FALSE, 51, 0)
    [] k = "draw"        -> Row("PUBLIC", TRUE,  TRUE,  TRUE,  FALSE, 51, 1)
    [] k = "nextmap"     -> Row("PUBLIC", FALSE, FALSE, TRUE,  FALSE, 51, 0)
    [] k = "map"         -> Row("PUBLIC", TRUE,  TRUE,  TRUE,  TRUE,  51, 1)
    [] k = "poll"        -> Row("ANY",    FALSE, FALSE, FALSE, FALSE, 50, 0)
    [] k = "admitdefeat" -> Row("TEAM",   TRUE,  TRUE,  TRUE,  FALSE, 74, 1)]
DefaultInfo == [k \in DefaultKinds |-> Defaults[k]]
TeamInfo    == [k \in TeamKinds |-> Defaults[k]]
BothInfo    == [k \in BothKinds |-> Defaults[k]]
MapInfo     == [k \in MapKinds |-> Defaults[k]]
=============================================================================

---------------------------- MODULE MCSnapshots -----------------------------
EXTENDS Snapshots

E(number, value) == [number |-> number, value |-> value]

(* Entities that come, change, stay and go; two come ahead of one that was *)
(* there, which is more than the margin of the instances.                  *)
ComeAndGo == {<<E(2, 0), E(3, 0)>>, <<E(0, 0), E(1, 1), E(2, 0), E(3, 1)>>}
=============================================================================

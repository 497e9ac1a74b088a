------------------------ MODULE SpawnQueueRefinement -------------------------
(***************************************************************************)
(* The rings implement the plain lines of SpawnFifo: a team's line is what *)
(* its ring holds, read from front onwards.                                *)
(***************************************************************************)
EXTENDS SpawnQueue, Sequences

LineOf(q) == [i \in 1 .. Cardinality(Members(q)) |->
                q.clients[(q.front + i - 1) % MAX_CLIENTS]]

Fifo == INSTANCE SpawnFifo WITH line <- [t \in Teams |-> LineOf(queue[t])]

(* Every step of every handler joins a team's line at its end, serves its  *)
(* head, takes one client out of the middle, or leaves the lines alone: no *)
(* client overtakes another in the queue, appears twice or vanishes with   *)
(* somebody else's removal.                                                *)
ImplementsFifo == Fifo!Spec
=============================================================================

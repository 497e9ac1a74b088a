------------------------------ MODULE SpawnRing ------------------------------
(***************************************************************************)
(* The ring buffer behind a team's spawn queue: spawnQueue_t and the       *)
(* G_*SpawnQueue helpers of src/gamelogic/game/g_main.c, as operators on a *)
(* record [clients, front, back].  `back` is the last occupied slot, so    *)
(* the empty queue has back one before front - and so has the full one.    *)
(***************************************************************************)
EXTENDS Integers

CONSTANT MAX_CLIENTS            \* slots of the ring (64 in the build)

ASSUME RingAssumption == MAX_CLIENTS \in Nat \ {0}

Slots  == 0 .. (MAX_CLIENTS - 1)
Nobody == -1                    \* "0 is a valid clientNum, so use something else"

(* Mutant: no wrap at the end of the array. *)
PlusWithoutWrap(x) == x + 1

QUEUE_PLUS1(x)  == (x + 1) % MAX_CLIENTS
QUEUE_MINUS1(x) == (x + MAX_CLIENTS - 1) % MAX_CLIENTS

Ring == [clients : [Slots -> Slots \cup {Nobody}], front : Slots, back : Slots]

G_InitSpawnQueue == [clients |-> [s \in Slots |-> Nobody],
                     front   |-> 0,
                     back    |-> QUEUE_MINUS1(0)]

(* Mutant: the number of steps from front to back, one short. *)
LengthOneShort(q) == (q.back - q.front) % MAX_CLIENTS

(* The two while loops bring back - front + 1 into 0 .. MAX_CLIENTS-1. *)
G_GetSpawnQueueLength(q) == (q.back - q.front + 1) % MAX_CLIENTS

(* How many slots s lies behind the front. *)
Offset(q, s) == (s - q.front) % MAX_CLIENTS

(* The slots the do-while loops from front to back visit; none when the    *)
(* length reads 0, because the loops are guarded by it.                    *)
Visited(q) == {s \in Slots : Offset(q, s) < G_GetSpawnQueueLength(q)}

G_PeekSpawnQueue(q) == q.clients[q.front]

(* The search walks every slot, occupied or not. *)
G_SearchSpawnQueue(q, c) == \E s \in Slots : q.clients[s] = c

G_PushSpawnQueue(q, c) ==
  IF G_SearchSpawnQueue(q, c) THEN q
  ELSE [q EXCEPT !.back = QUEUE_PLUS1(q.back),
                 !.clients = [@ EXCEPT ![QUEUE_PLUS1(q.back)] = c]]

(* Only called with a positive length; the other branch returns -1. *)
G_PopSpawnQueue(q) ==
  [q EXCEPT !.clients = [@ EXCEPT ![q.front] = Nobody],
            !.front = QUEUE_PLUS1(q.front)]

(* Does the loop of G_RemoveFromSpawnQueue / G_GetPosInSpawnQueue find c? *)
Finds(q, c) == \E s \in Visited(q) : q.clients[s] = c

SlotOf(q, c) ==
  CHOOSE s \in Visited(q) :
    /\ q.clients[s] = c
    /\ \A r \in Visited(q) : q.clients[r] = c => Offset(q, s) <= Offset(q, r)

(* Mutant: back stays where it was. *)
RemoveKeepingBack(q, c) ==
  IF ~Finds(q, c) THEN q
  ELSE [q EXCEPT
          !.clients = [s \in Slots |->
             IF s \in Visited(q) /\ Offset(q, s) >= Offset(q, SlotOf(q, c))
             THEN q.clients[QUEUE_PLUS1(s)]
             ELSE q.clients[s]]]

(* Mutant: the hole is filled with the last client instead of shifting. *)
RemoveBySwapping(q, c) ==
  IF ~Finds(q, c) THEN q
  ELSE [q EXCEPT
          !.clients = [[@ EXCEPT ![SlotOf(q, c)] = q.clients[q.back]]
                        EXCEPT ![q.back] = Nobody],
          !.back = QUEUE_MINUS1(q.back)]

(* Every slot from c's to back takes its successor's content: the slot     *)
(* after back, Nobody, ends up in the old back.                            *)
G_RemoveFromSpawnQueue(q, c) ==
  IF ~Finds(q, c) THEN q
  ELSE [q EXCEPT
          !.clients = [s \in Slots |->
             IF s \in Visited(q) /\ Offset(q, s) >= Offset(q, SlotOf(q, c))
             THEN q.clients[QUEUE_PLUS1(s)]
             ELSE q.clients[s]],
          !.back = QUEUE_MINUS1(q.back)]

(* The clients in the ring, whatever the length reads. *)
Members(q) == {q.clients[s] : s \in Slots} \ {Nobody}
=============================================================================

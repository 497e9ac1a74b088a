--------------------------- MODULE SpawnQueue_proof --------------------------
(***************************************************************************)
(* For every ring size, number of clients and set of teams: the rings and  *)
(* the client records keep their types, the rings stay well formed and     *)
(* implement the lines of SpawnFifo.  Where no client follows another, who *)
(* is queued is waiting, and nobody leaves a queue, or stays in it, behind *)
(* its back.                                                               *)
(*                                                                         *)
(* The ring operators have a lemma each, of what they leave in which slot, *)
(* and one of the line they leave (PushLine, PopLine, RemoveLine).         *)
(***************************************************************************)
EXTENDS SpawnQueueRefinement, SequencesExt, FiniteSetTheorems, SequenceTheorems,
        Lemmas_proof

(* What the modulus computes on slots. *)
LEMMA SlotArithmetic ==
  /\ \A s \in Slots : QUEUE_PLUS1(s) = IF s = MAX_CLIENTS - 1 THEN 0 ELSE s + 1
  /\ \A s \in Slots : QUEUE_MINUS1(s) = IF s = 0 THEN MAX_CLIENTS - 1 ELSE s - 1
  /\ \A a, b \in Slots :
       (a - b) % MAX_CLIENTS = IF a >= b THEN a - b ELSE a - b + MAX_CLIENTS
  /\ \A a, b \in Slots :
       (a - b + 1) % MAX_CLIENTS =
         IF a - b + 1 = MAX_CLIENTS THEN 0
         ELSE IF a - b + 1 >= 0 THEN a - b + 1 ELSE a - b + 1 + MAX_CLIENTS
  BY RingAssumption DEF Slots, QUEUE_PLUS1, QUEUE_MINUS1

LEMMA SlotTypes ==
  /\ 0 \in Slots /\ Nobody \notin Slots
  /\ \A s \in Slots : QUEUE_PLUS1(s) \in Slots /\ QUEUE_MINUS1(s) \in Slots
  /\ Clients \subseteq Slots
  BY SlotArithmetic, RingAssumption, SpawnQueueAssumption
     DEF Slots, Clients, Nobody

(* The empty ring is well formed. *)
LEMMA InitRing == /\ G_InitSpawnQueue \in Ring /\ RingOK(G_InitSpawnQueue)
                  /\ Members(G_InitSpawnQueue) = {}
  BY SlotArithmetic, SlotTypes, RingAssumption
     DEF G_InitSpawnQueue, Ring, RingOK, Offset, G_GetSpawnQueueLength, Slots, Nobody,
         Members

(* Length and offsets of a ring, without the modulus. *)
LengthOf(q) ==
  IF q.back - q.front + 1 = MAX_CLIENTS THEN 0
  ELSE IF q.back - q.front + 1 >= 0 THEN q.back - q.front + 1
  ELSE q.back - q.front + 1 + MAX_CLIENTS

OffsetOf(q, s) == IF s >= q.front THEN s - q.front
                  ELSE s - q.front + MAX_CLIENTS

LEMMA RingShape ==
  ASSUME NEW q \in Ring
  PROVE  /\ q.front \in Slots /\ q.back \in Slots
         /\ q.clients \in [Slots -> Slots \cup {Nobody}]
         /\ G_GetSpawnQueueLength(q) = LengthOf(q)
         /\ G_GetSpawnQueueLength(q) \in Slots
         /\ \A s \in Slots : Offset(q, s) = OffsetOf(q, s) /\ Offset(q, s) \in Slots
  <1>1. q.front \in Slots /\ q.back \in Slots
        /\ q.clients \in [Slots -> Slots \cup {Nobody}]
    BY DEF Ring
  <1>2. G_GetSpawnQueueLength(q) = LengthOf(q)
    BY <1>1, SlotArithmetic DEF LengthOf, G_GetSpawnQueueLength
  <1>3. \A s \in Slots : Offset(q, s) = OffsetOf(q, s)
    BY <1>1, SlotArithmetic DEF OffsetOf, Offset
  <1>4. LengthOf(q) \in Slots /\ \A s \in Slots : OffsetOf(q, s) \in Slots
    BY <1>1, RingAssumption DEF LengthOf, OffsetOf, Slots
  <1> QED
    BY <1>1, <1>2, <1>3, <1>4

(* Serving the head keeps a ring well formed. *)
LEMMA PopRing ==
  ASSUME NEW q \in Ring, RingOK(q), G_GetSpawnQueueLength(q) > 0
  PROVE  /\ G_PopSpawnQueue(q) \in Ring /\ RingOK(G_PopSpawnQueue(q))
         /\ Members(G_PopSpawnQueue(q)) = Members(q) \ {G_PeekSpawnQueue(q)}
         /\ G_PeekSpawnQueue(q) \in Members(q)
         /\ G_GetSpawnQueueLength(G_PopSpawnQueue(q)) = G_GetSpawnQueueLength(q) - 1
         /\ \A s \in Slots :
              LET d == Offset(G_PopSpawnQueue(q), s)
                  c == G_PopSpawnQueue(q).clients[s]
              IN  /\ (c # Nobody) <=> d < G_GetSpawnQueueLength(q) - 1
                  /\ c # Nobody => c = q.clients[s] /\ d = Offset(q, s) - 1
  <1> DEFINE p == G_PopSpawnQueue(q)
  <1>0. /\ q.front \in Slots /\ q.back \in Slots
        /\ q.clients \in [Slots -> Slots \cup {Nobody}]
        /\ G_GetSpawnQueueLength(q) = LengthOf(q)
        /\ \A s \in Slots : Offset(q, s) = OffsetOf(q, s)
    BY RingShape
  <1>1. /\ p \in Ring
        /\ p.front = (IF q.front = MAX_CLIENTS - 1 THEN 0 ELSE q.front + 1)
        /\ p.back = q.back
        /\ p.clients = [q.clients EXCEPT ![q.front] = Nobody]
    BY SlotTypes, SlotArithmetic DEF G_PopSpawnQueue, Ring
  <1>2. \A s \in Slots : (q.clients[s] # Nobody) <=> Offset(q, s) < G_GetSpawnQueueLength(q)
    BY <1>0, RingAssumption DEF RingOK, Slots
  <1>3. q.clients[q.front] # Nobody
    BY <1>0, <1>2, RingAssumption DEF OffsetOf, Slots
  <1> HIDE DEF p
  <1>4. /\ G_GetSpawnQueueLength(p) = LengthOf(p)
        /\ \A s \in Slots : Offset(p, s) = OffsetOf(p, s)
    BY <1>1, RingShape
  <1>5. LengthOf(p) = LengthOf(q) - 1
    <2>1. q.front \in Slots /\ q.back \in Slots /\ LengthOf(q) > 0
      BY <1>0
    <2>2. CASE q.front = MAX_CLIENTS - 1
      <3>1. p.front = 0 /\ p.back = q.back
        BY <1>1, <2>2
      <3> QED
        BY <2>1, <2>2, <3>1, RingAssumption DEF LengthOf, Slots
    <2>3. CASE q.front # MAX_CLIENTS - 1
      <3>1. p.front = q.front + 1 /\ p.back = q.back
        BY <1>1, <2>3
      <3> QED
        BY <2>1, <2>3, <3>1, RingAssumption DEF LengthOf, Slots
    <2> QED
      BY <2>2, <2>3
  <1>6. \A s \in Slots : OffsetOf(p, s) = IF s = q.front THEN MAX_CLIENTS - 1
                                          ELSE OffsetOf(q, s) - 1
    <2> SUFFICES ASSUME NEW s \in Slots
                 PROVE  OffsetOf(p, s) = IF s = q.front THEN MAX_CLIENTS - 1
                                         ELSE OffsetOf(q, s) - 1
      OBVIOUS
    <2>1. CASE q.front = MAX_CLIENTS - 1
      <3>1. p.front = 0
        BY <1>1, <2>1
      <3> QED
        BY <2>1, <3>1, RingAssumption DEF OffsetOf, Slots
    <2>2. CASE q.front # MAX_CLIENTS - 1
      <3>1. p.front = q.front + 1 /\ q.front \in Slots
        BY <1>0, <1>1, <2>2
      <3> QED
        BY <3>1, RingAssumption DEF OffsetOf, Slots
    <2> QED
      BY <2>1, <2>2
  <1>7. ASSUME NEW s \in Slots
        PROVE  (p.clients[s] # Nobody) <=> Offset(p, s) < G_GetSpawnQueueLength(p)
    <2>1. LengthOf(q) \in Slots /\ OffsetOf(q, s) \in Slots
      BY <1>0, RingShape
    <2>2. CASE s = q.front
      BY <1>0, <1>1, <1>4, <1>5, <1>6, <2>1, <2>2, RingAssumption DEF Slots
    <2>3. CASE s # q.front
      BY <1>0, <1>1, <1>2, <1>4, <1>5, <1>6, <2>1, <2>3, RingAssumption DEF Slots
    <2> QED
      BY <2>2, <2>3
  <1>8. RingOK(p)
    BY <1>0, <1>1, <1>7 DEF RingOK
  <1>9. /\ Members(p) = Members(q) \ {G_PeekSpawnQueue(q)}
        /\ G_PeekSpawnQueue(q) \in Members(q)
    BY <1>0, <1>1, <1>3 DEF Members, G_PeekSpawnQueue, RingOK
  <1>10. \A s \in Slots : p.clients[s] # Nobody
                           => p.clients[s] = q.clients[s] /\ Offset(p, s) = Offset(q, s) - 1
    BY <1>0, <1>1, <1>4, <1>6
  <1> QED
    BY <1>0, <1>1, <1>4, <1>5, <1>7, <1>8, <1>9, <1>10 DEF p

(* Offsets number the slots: distinct ones differ, the next one is one     *)
(* further, and the slots next to back lie at the ends of the queue.       *)
LEMMA OffsetSteps ==
  ASSUME NEW q \in Ring
  PROVE  /\ \A r, s \in Slots : Offset(q, r) = Offset(q, s) => r = s
         /\ \A s \in Slots : Offset(q, s) < MAX_CLIENTS - 1
                              => Offset(q, QUEUE_PLUS1(s)) = Offset(q, s) + 1
         /\ Offset(q, QUEUE_PLUS1(q.back)) = G_GetSpawnQueueLength(q)
  <1>1. q.front \in Slots /\ q.back \in Slots
    BY RingShape
  <1>2. \A s \in Slots : Offset(q, s) = OffsetOf(q, s)
    BY RingShape
  <1>3. \A r, s \in Slots : OffsetOf(q, r) = OffsetOf(q, s) => r = s
    BY <1>1, RingAssumption DEF OffsetOf, Slots
  <1>4. ASSUME NEW s \in Slots, OffsetOf(q, s) < MAX_CLIENTS - 1
        PROVE  OffsetOf(q, QUEUE_PLUS1(s)) = OffsetOf(q, s) + 1
    <2>1. QUEUE_PLUS1(s) = IF s = MAX_CLIENTS - 1 THEN 0 ELSE s + 1
      BY SlotArithmetic
    <2>2. CASE s = MAX_CLIENTS - 1
      BY <1>1, <1>4, <2>1, <2>2, RingAssumption DEF OffsetOf, Slots
    <2>3. CASE s # MAX_CLIENTS - 1
      BY <1>1, <1>4, <2>1, <2>3, RingAssumption DEF OffsetOf, Slots
    <2> QED
      BY <2>2, <2>3
  <1>5. OffsetOf(q, QUEUE_PLUS1(q.back)) = LengthOf(q)
    <2>1. QUEUE_PLUS1(q.back) = IF q.back = MAX_CLIENTS - 1 THEN 0 ELSE q.back + 1
      BY <1>1, SlotArithmetic
    <2>2. CASE q.back = MAX_CLIENTS - 1
      BY <1>1, <2>1, <2>2, RingAssumption DEF OffsetOf, LengthOf, Slots
    <2>3. CASE q.back # MAX_CLIENTS - 1
      BY <1>1, <2>1, <2>3, RingAssumption DEF OffsetOf, LengthOf, Slots
    <2> QED
      BY <2>2, <2>3
  <1>6. /\ \A s \in Slots : QUEUE_PLUS1(s) \in Slots
        /\ G_GetSpawnQueueLength(q) = LengthOf(q)
    BY SlotTypes, RingShape
  <1>7. \A s \in Slots : Offset(q, s) < MAX_CLIENTS - 1
                          => Offset(q, QUEUE_PLUS1(s)) = Offset(q, s) + 1
    BY <1>2, <1>4, <1>6
  <1> QED
    BY <1>1, <1>2, <1>3, <1>5, <1>6, <1>7

(* A client that is not in the ring finds a free slot: the clients of a    *)
(* full ring are all there are.                                            *)
LEMMA RoomForAnother ==
  ASSUME NEW q \in Ring, RingOK(q),
         NEW c \in Slots, ~G_SearchSpawnQueue(q, c)
  PROVE  \A s \in Slots : (q.clients[s] # Nobody)
                          <=> Offset(q, s) < G_GetSpawnQueueLength(q)
  <1> SUFFICES ASSUME \A s \in Slots : q.clients[s] # Nobody
               PROVE  FALSE
    BY DEF RingOK
  <1>1. q.clients \in [Slots -> Slots \ {c}]
    BY RingShape DEF G_SearchSpawnQueue
  <1>2. IsFiniteSet(Slots) /\ Cardinality(Slots) = MAX_CLIENTS
    BY FS_Interval, RingAssumption DEF Slots
  <1>3. /\ IsFiniteSet(Slots \ {c})
        /\ Cardinality(Slots \ {c}) = MAX_CLIENTS - 1
    BY <1>2, FS_RemoveElement
  <1>4. \E r, s \in Slots : r # s /\ q.clients[r] = q.clients[s]
    BY <1>1, <1>2, <1>3, FS_PigeonHole, RingAssumption
  <1> QED
    BY <1>4 DEF RingOK

(* Queueing up keeps a ring well formed, even when it fills the last slot. *)
LEMMA PushRing ==
  ASSUME NEW q \in Ring, RingOK(q), NEW c \in Slots
  PROVE  /\ G_PushSpawnQueue(q, c) \in Ring /\ RingOK(G_PushSpawnQueue(q, c))
         /\ Members(G_PushSpawnQueue(q, c)) = Members(q) \cup {c}
         /\ ~G_SearchSpawnQueue(q, c) =>
              \A s \in Slots :
                /\ G_PushSpawnQueue(q, c).clients[s] =
                     IF Offset(q, s) = G_GetSpawnQueueLength(q) THEN c ELSE q.clients[s]
                /\ Offset(G_PushSpawnQueue(q, c), s) = Offset(q, s)
  <1> DEFINE p == G_PushSpawnQueue(q, c)
             L == G_GetSpawnQueueLength(q)
             b == QUEUE_PLUS1(q.back)
  <1>1. CASE G_SearchSpawnQueue(q, c)
    BY <1>1, SlotTypes DEF G_PushSpawnQueue, G_SearchSpawnQueue, Members
  <1>2. CASE ~G_SearchSpawnQueue(q, c)
    <2>1. /\ q.front \in Slots /\ q.back \in Slots /\ b \in Slots
          /\ q.clients \in [Slots -> Slots \cup {Nobody}]
          /\ Nobody \notin Slots /\ L \in Slots
          /\ \A s \in Slots : Offset(q, s) \in Slots
      BY RingShape, SlotTypes
    <2>2. /\ p \in Ring /\ p.front = q.front /\ p.back = b
          /\ p.clients = [q.clients EXCEPT ![b] = c]
      BY <1>2, <2>1 DEF G_PushSpawnQueue, Ring
    <2>3. \A s \in Slots : (q.clients[s] # Nobody) <=> Offset(q, s) < L
      BY <1>2, RoomForAnother
    <2>4. /\ Offset(q, b) = L
          /\ \A s \in Slots : Offset(q, s) = L => s = b
      BY <2>1, OffsetSteps
    <2>5. /\ \A s \in Slots : Offset(p, s) = Offset(q, s)
          /\ \A s \in Slots : Offset(p, s) \in Int /\ Offset(p, s) <= MAX_CLIENTS - 1
          /\ L \in Int /\ L <= MAX_CLIENTS - 1 /\ c # Nobody
      <3>1. \A s \in Slots : Offset(p, s) = Offset(q, s)
        BY <2>2 DEF Offset
      <3>2. \A x \in Slots : x \in Int /\ x <= MAX_CLIENTS - 1
        BY RingAssumption DEF Slots
      <3> QED
        BY <2>1, <3>1, <3>2
    <2>6. G_GetSpawnQueueLength(p) = IF L = MAX_CLIENTS - 1 THEN 0 ELSE L + 1
      <3>1. LengthOf(p) = IF LengthOf(q) = MAX_CLIENTS - 1 THEN 0 ELSE LengthOf(q) + 1
        <4>1. b = IF q.back = MAX_CLIENTS - 1 THEN 0 ELSE q.back + 1
          BY <2>1, SlotArithmetic
        <4>2. CASE q.back = MAX_CLIENTS - 1
          <5>1. p.front = q.front /\ p.back = 0 /\ q.front \in Slots
            BY <2>1, <2>2, <4>1, <4>2
          <5> QED
            BY <4>2, <5>1, RingAssumption DEF LengthOf, Slots
        <4>3. CASE q.back # MAX_CLIENTS - 1
          <5>1. /\ p.front = q.front /\ p.back = q.back + 1
                /\ q.front \in Slots /\ q.back \in Slots
            BY <2>1, <2>2, <4>1, <4>3
          <5> QED
            BY <4>3, <5>1, RingAssumption DEF LengthOf, Slots
        <4> QED
          BY <4>2, <4>3
      <3> QED
        BY <2>2, <3>1, RingShape
    <2> HIDE DEF p, L, b
    <2>7. \A s \in Slots : (p.clients[s] # Nobody) <=> Offset(p, s) <= L
      <3> SUFFICES ASSUME NEW s \in Slots
                   PROVE  (p.clients[s] # Nobody) <=> Offset(p, s) <= L
        OBVIOUS
      <3>1. CASE s = b
        <4>1. p.clients[s] = c /\ Offset(p, s) = L
          BY <2>1, <2>2, <2>4, <2>5, <3>1
        <4> QED
          BY <2>5, <4>1
      <3>2. CASE s # b
        <4>1. Offset(q, s) # L /\ p.clients[s] = q.clients[s]
          BY <2>1, <2>2, <2>4, <3>2
        <4>2. Offset(p, s) = Offset(q, s) /\ Offset(p, s) \in Int /\ L \in Int
          BY <2>5
        <4> QED
          BY <2>3, <4>1, <4>2
      <3> QED
        BY <3>1, <3>2
    <2>8. \/ \A s \in Slots : (p.clients[s] # Nobody)
                               <=> Offset(p, s) < G_GetSpawnQueueLength(p)
          \/ /\ G_GetSpawnQueueLength(p) = 0
             /\ \A s \in Slots : p.clients[s] # Nobody
      <3>1. CASE L = MAX_CLIENTS - 1
        BY <2>5, <2>6, <2>7, <3>1
      <3>2. CASE L # MAX_CLIENTS - 1
        <4>1. ASSUME NEW s \in Slots
              PROVE  (p.clients[s] # Nobody)
                     <=> Offset(p, s) < G_GetSpawnQueueLength(p)
          <5>1. /\ G_GetSpawnQueueLength(p) = L + 1
                /\ Offset(p, s) \in Int /\ L \in Int
            BY <2>5, <2>6, <3>2
          <5> QED
            BY <2>7, <5>1
        <4> QED
          BY <4>1
      <3> QED
        BY <3>1, <3>2
    <2>9. \A r, s \in Slots : p.clients[r] = p.clients[s] /\ r # s
                               => p.clients[r] = Nobody
      BY <1>2, <2>1, <2>2 DEF RingOK, G_SearchSpawnQueue
    <2>10. RingOK(p)
      BY <2>8, <2>9 DEF RingOK
    <2>11. \A s \in Slots : p.clients[s] = IF Offset(q, s) = L THEN c ELSE q.clients[s]
      BY <2>1, <2>2, <2>4
    <2>12. Members(p) = Members(q) \cup {c}
      <3>1. q.clients[b] = Nobody /\ p.clients[b] = c /\ b \in Slots /\ c # Nobody
        BY <2>1, <2>2, <2>3, <2>4, <2>5
      <3>2. \A s \in Slots : s # b => p.clients[s] = q.clients[s]
        BY <2>1, <2>2
      <3> QED
        BY <3>1, <3>2 DEF Members
    <2> QED
      BY <1>2, <2>2, <2>5, <2>10, <2>11, <2>12 DEF p, L
  <1> QED
    BY <1>1, <1>2

(* The ring p is q after the client in slot k has stepped out: the ones    *)
(* behind it have moved up, the front stays.                               *)
TakenFrom(q, k, p) ==
  \A s \in Slots :
    /\ Offset(p, s) = Offset(q, s)
    /\ (p.clients[s] # Nobody) <=> Offset(q, s) < G_GetSpawnQueueLength(q) - 1
    /\ p.clients[s] = IF /\ Offset(q, s) < G_GetSpawnQueueLength(q)
                         /\ Offset(q, s) >= Offset(q, k)
                      THEN q.clients[QUEUE_PLUS1(s)]
                      ELSE q.clients[s]

(* Stepping out of the queue keeps the ring well formed and takes away     *)
(* nobody else.                                                            *)
LEMMA RemoveRing ==
  ASSUME NEW q \in Ring, RingOK(q), NEW c
  PROVE  /\ G_RemoveFromSpawnQueue(q, c) \in Ring
         /\ RingOK(G_RemoveFromSpawnQueue(q, c))
         /\ Finds(q, c) =>
              /\ Members(G_RemoveFromSpawnQueue(q, c)) = Members(q) \ {c}
              /\ G_GetSpawnQueueLength(q) > 0
              /\ \E k \in Slots :
                   /\ q.clients[k] = c /\ Offset(q, k) < G_GetSpawnQueueLength(q)
                   /\ TakenFrom(q, k, G_RemoveFromSpawnQueue(q, c))
         /\ Members(G_RemoveFromSpawnQueue(q, c)) \subseteq Members(q)
  <1> DEFINE p == G_RemoveFromSpawnQueue(q, c)
             L == G_GetSpawnQueueLength(q)
             k == SlotOf(q, c)
             Shifted(s) == Offset(q, s) < L /\ Offset(q, s) >= Offset(q, k)
  <1>1. CASE ~Finds(q, c)
    BY <1>1 DEF G_RemoveFromSpawnQueue
  <1>2. CASE Finds(q, c)
    <2>1. /\ q.front \in Slots /\ q.back \in Slots
          /\ q.clients \in [Slots -> Slots \cup {Nobody}]
          /\ Nobody \notin Slots /\ L \in Slots
          /\ \A s \in Slots : Offset(q, s) \in Slots /\ QUEUE_PLUS1(s) \in Slots
      BY RingShape, SlotTypes
    <2>2. /\ \A x \in Slots : x \in Int /\ 0 <= x /\ x <= MAX_CLIENTS - 1
          /\ MAX_CLIENTS \in Int
      BY RingAssumption DEF Slots
    <2>3. PICK v \in Slots : Offset(q, v) < L /\ q.clients[v] = c
      BY <1>2 DEF Finds, Visited
    <2>4. \A s \in Slots : (q.clients[s] # Nobody) <=> Offset(q, s) < L
      <3>1. L # 0
        BY <2>1, <2>2, <2>3
      <3> QED
        BY <3>1 DEF RingOK
    <2>5. k = v
      <3>1. \A s \in Slots : q.clients[s] = c => s = v
        BY <2>3, <2>4 DEF RingOK
      <3>2. Offset(q, v) \in Int
        BY <2>1, <2>2
      <3> QED
        BY <2>3, <3>1, <3>2 DEF SlotOf, Visited
    <2>6. /\ p \in Ring /\ p.front = q.front /\ p.back = QUEUE_MINUS1(q.back)
          /\ \A s \in Slots : p.clients[s] = IF Shifted(s)
                                             THEN q.clients[QUEUE_PLUS1(s)]
                                             ELSE q.clients[s]
      <3>1. p = [q EXCEPT
                   !.clients = [s \in Slots |->
                      IF Shifted(s) THEN q.clients[QUEUE_PLUS1(s)] ELSE q.clients[s]],
                   !.back = QUEUE_MINUS1(q.back)]
        BY <1>2 DEF G_RemoveFromSpawnQueue, Visited
      <3> HIDE DEF p, Shifted
      <3> QED
        BY <2>1, <3>1, SlotTypes DEF Ring
    <2>7. /\ \A s \in Slots : Offset(p, s) = Offset(q, s)
          /\ G_GetSpawnQueueLength(p) = L - 1
      <3>1. \A s \in Slots : Offset(p, s) = Offset(q, s)
        BY <2>6 DEF Offset
      <3>2. LengthOf(q) # 0 /\ LengthOf(q) = L
        BY <2>1, <2>2, <2>3, RingShape
      <3>3. LengthOf(p) = LengthOf(q) - 1
        <4>1. /\ p.back = IF q.back = 0 THEN MAX_CLIENTS - 1 ELSE q.back - 1
              /\ p.front = q.front
          BY <2>1, <2>6, SlotArithmetic
        <4>2. q.front \in Slots /\ q.back \in Slots
          BY <2>1
        <4> HIDE DEF p, L
        <4>3. CASE q.back = 0
          <5>1. /\ p.back = MAX_CLIENTS - 1 /\ p.front = q.front
                /\ q.front \in Slots /\ LengthOf(q) # 0
            BY <3>2, <4>1, <4>2, <4>3
          <5> QED
            BY <4>3, <5>1, RingAssumption DEF LengthOf, Slots
        <4>4. CASE q.back # 0
          <5>1. /\ p.back = q.back - 1 /\ p.front = q.front
                /\ q.front \in Slots /\ q.back \in Slots /\ LengthOf(q) # 0
            BY <3>2, <4>1, <4>2, <4>4
          <5> QED
            BY <4>4, <5>1, RingAssumption DEF LengthOf, Slots
        <4> QED
          BY <4>3, <4>4
      <3> QED
        BY <2>6, <3>1, <3>2, <3>3, RingShape
    <2>8. \A s \in Slots : Offset(q, s) < L
                            => Offset(q, QUEUE_PLUS1(s)) = Offset(q, s) + 1
      <3> SUFFICES ASSUME NEW s \in Slots, Offset(q, s) < L
                   PROVE  Offset(q, QUEUE_PLUS1(s)) = Offset(q, s) + 1
        OBVIOUS
      <3>1. Offset(q, s) < MAX_CLIENTS - 1
        BY <2>1, <2>2
      <3> QED
        BY <3>1, OffsetSteps
    <2> HIDE DEF p, L, k
    <2>9. \A s \in Slots : (p.clients[s] # Nobody)
                            <=> Offset(p, s) < G_GetSpawnQueueLength(p)
      <3> SUFFICES ASSUME NEW s \in Slots
                   PROVE  (p.clients[s] # Nobody) <=> Offset(q, s) < L - 1
        BY <2>7
      <3>1. /\ Offset(q, s) \in Int /\ L \in Int /\ Offset(q, k) \in Int
            /\ QUEUE_PLUS1(s) \in Slots /\ Offset(q, k) < L
        BY <2>1, <2>2, <2>3, <2>5
      <3>2. CASE Shifted(s)
        BY <2>4, <2>6, <2>8, <3>1, <3>2
      <3>3. CASE ~Shifted(s)
        BY <2>4, <2>6, <3>1, <3>3
      <3> QED
        BY <3>2, <3>3
    <2>10. ASSUME NEW r \in Slots, NEW s \in Slots, r # s,
                  p.clients[r] = p.clients[s], p.clients[r] # Nobody
           PROVE  FALSE
      <3>1. /\ QUEUE_PLUS1(r) \in Slots /\ QUEUE_PLUS1(s) \in Slots
            /\ Offset(q, r) \in Int /\ Offset(q, s) \in Int
            /\ Offset(q, k) \in Int /\ L \in Int
        BY <2>1, <2>2, <2>3, <2>5
      <3>2. \A x, y \in Slots : q.clients[x] = q.clients[y] /\ q.clients[x] # Nobody
                                => x = y
        BY DEF RingOK
      <3>3. \A x, y \in Slots : Offset(q, x) = Offset(q, y) => x = y
        BY OffsetSteps
      <3>4. CASE Shifted(r) /\ Shifted(s)
        <4>1. QUEUE_PLUS1(r) = QUEUE_PLUS1(s)
          BY <2>6, <2>10, <3>1, <3>2, <3>4
        <4>2. Offset(q, r) + 1 = Offset(q, s) + 1
          BY <2>8, <3>4, <4>1
        <4> QED
          BY <2>10, <3>1, <3>3, <4>2
      <3>5. CASE Shifted(r) /\ ~Shifted(s)
        BY <2>4, <2>6, <2>8, <2>10, <3>1, <3>2, <3>5
      <3>6. CASE ~Shifted(r) /\ Shifted(s)
        BY <2>4, <2>6, <2>8, <2>10, <3>1, <3>2, <3>6
      <3>7. CASE ~Shifted(r) /\ ~Shifted(s)
        BY <2>6, <2>10, <3>2, <3>7
      <3> QED
        BY <3>4, <3>5, <3>6, <3>7
    <2>11. RingOK(p)
      BY <2>9, <2>10 DEF RingOK
    <2>12. Members(p) \subseteq Members(q)
      BY <2>1, <2>6 DEF Members
    <2>13. c \notin Members(p)
      <3> SUFFICES ASSUME NEW s \in Slots, p.clients[s] = c, c # Nobody
                   PROVE  FALSE
        BY DEF Members
      <3>1. /\ Offset(q, s) \in Int /\ L \in Int /\ Offset(q, k) \in Int
            /\ QUEUE_PLUS1(s) \in Slots
        BY <2>1, <2>2, <2>5
      <3>2. \A x \in Slots : q.clients[x] = c => x = k
        BY <2>3, <2>5 DEF RingOK
      <3>3. CASE Shifted(s)
        BY <2>6, <2>8, <3>1, <3>2, <3>3
      <3>4. CASE ~Shifted(s)
        BY <2>3, <2>5, <2>6, <3>1, <3>2, <3>4
      <3> QED
        BY <3>3, <3>4
    <2>14. Members(q) \ {c} \subseteq Members(p)
      <3> SUFFICES ASSUME NEW s \in Slots, q.clients[s] # c, q.clients[s] # Nobody
                   PROVE  \E r \in Slots : p.clients[r] = q.clients[s]
        BY DEF Members
      <3>1. /\ Offset(q, s) \in Int /\ L \in Int /\ Offset(q, k) \in Int
            /\ Offset(q, s) < L /\ Offset(q, s) # Offset(q, k) /\ Offset(q, s) >= 0
            /\ Offset(q, k) >= 0 /\ L <= MAX_CLIENTS - 1
        BY <2>1, <2>2, <2>3, <2>4, <2>5, OffsetSteps
      <3>2. CASE Offset(q, s) < Offset(q, k)
        BY <2>6, <3>1, <3>2
      <3>3. CASE Offset(q, s) > Offset(q, k)
        <4> DEFINE r == QUEUE_MINUS1(s)
        <4>1. r \in Slots /\ QUEUE_PLUS1(r) = s
          BY SlotArithmetic, RingAssumption DEF Slots
        <4>2. s # q.front
          BY <2>1, <2>2, <3>1, <3>3, RingShape DEF OffsetOf
        <4>3. Offset(q, r) = Offset(q, s) - 1
          <5>1. Offset(q, r) = OffsetOf(q, r) /\ Offset(q, s) = OffsetOf(q, s)
            BY <4>1, RingShape
          <5>2. r = IF s = 0 THEN MAX_CLIENTS - 1 ELSE s - 1
            BY SlotArithmetic
          <5>3. q.front \in Slots /\ s \in Slots
            BY <2>1
          <5> HIDE DEF r
          <5>4. OffsetOf(q, r) = OffsetOf(q, s) - 1
            <6>1. CASE s = 0
              <7>1. r = MAX_CLIENTS - 1
                BY <5>2, <6>1
              <7> QED
                BY <4>2, <5>3, <6>1, <7>1, RingAssumption DEF OffsetOf, Slots
            <6>2. CASE s # 0
              <7>1. r = s - 1
                BY <5>2, <6>2
              <7> QED
                BY <4>2, <5>3, <6>2, <7>1, RingAssumption DEF OffsetOf, Slots
            <6> QED
              BY <6>1, <6>2
          <5> QED
            BY <5>1, <5>4
        <4> HIDE DEF r
        <4>4. Shifted(r)
          BY <3>1, <3>3, <4>3
        <4> QED
          BY <2>6, <4>1, <4>4
      <3> QED
        BY <3>1, <3>2, <3>3
    <2>15. Members(p) = Members(q) \ {c}
      BY <2>12, <2>13, <2>14
    <2>16. k \in Slots /\ q.clients[k] = c /\ Offset(q, k) < L
      BY <2>3, <2>5
    <2>17. \A s \in Slots :
              /\ Offset(p, s) = Offset(q, s)
              /\ (p.clients[s] # Nobody) <=> Offset(q, s) < L - 1
      BY <2>7, <2>9
    <2>18. L > 0
      BY <2>1, <2>2, <2>3
    <2>19. \A s \in Slots :
              p.clients[s] = IF Offset(q, s) < L /\ Offset(q, s) >= Offset(q, k)
                             THEN q.clients[QUEUE_PLUS1(s)] ELSE q.clients[s]
      BY <2>6
    <2>20. TakenFrom(q, k, p)
      BY <2>17, <2>19 DEF TakenFrom, L
    <2>21. p \in Ring
      BY <2>6
    <2> QED
      BY <1>2, <2>11, <2>12, <2>15, <2>16, <2>18, <2>20, <2>21 DEF p, L
  <1> QED
    BY <1>1, <1>2

-----------------------------------------------------------------------------
QueuesOK == queue \in [Teams -> Ring] /\ RingsOK

(* Leaving a team, whichever number G_LeaveTeam passes on. *)
LEMMA LeavingKeepsQueues ==
  ASSUME QueuesOK, NEW c
  PROVE  /\ LeaveQueue(c) \in [Teams -> Ring]
         /\ \A t \in Teams : RingOK(LeaveQueue(c)[t])
                             /\ Members(LeaveQueue(c)[t]) \subseteq Clients
  BY RemoveRing DEF QueuesOK, RingsOK, LeaveQueue

(* Every handler keeps the rings well formed. *)
LEMMA NextQueues == QueuesOK /\ [Next]_vars => QueuesOK'
  <1> SUFFICES ASSUME QueuesOK, [Next]_vars
               PROVE  QueuesOK'
    OBVIOUS
  <1>1. ASSUME UNCHANGED queue
        PROVE  QueuesOK'
    BY <1>1 DEF QueuesOK, RingsOK
  <1>2. ASSUME NEW c \in Clients, queue' = LeaveQueue(c)
        PROVE  QueuesOK'
    BY <1>2, LeavingKeepsQueues DEF QueuesOK, RingsOK
  <1>3. ASSUME NEW c \in Clients, Cmd_Class_f(c)
        PROVE  QueuesOK'
    BY <1>1, <1>3, PushRing, SlotTypes DEF Cmd_Class_f, QueuesOK, RingsOK
  <1>4. ASSUME NEW c \in Clients, SpectatorAttack(c)
        PROVE  QueuesOK'
    BY <1>1, <1>4, RemoveRing DEF SpectatorAttack, QueuesOK, RingsOK
  <1>5. ASSUME NEW t \in Teams, G_SpawnClients(t)
        PROVE  QueuesOK'
    BY <1>5, PopRing DEF G_SpawnClients, QueuesOK, RingsOK
  <1>6. ASSUME NEW c \in Clients
        PROVE  /\ ClientDisconnect(c) => QueuesOK'
               /\ \A t \in Teams \cup {NoTeam} : G_ChangeTeam(c, t) => QueuesOK'
    BY <1>2, <1>6 DEF ClientDisconnect, G_ChangeTeam
  <1>7. ASSUME NEW c \in Clients
        PROVE  /\ ClientConnect(c) => QueuesOK'
               /\ ClientBegin(c) => QueuesOK'
               /\ \A d \in Clients : Cmd_Follow_f(c, d) => QueuesOK'
               /\ G_ToggleFollow(c) => QueuesOK'
               /\ \A dir \in {1, -1} : Cmd_FollowCycle_f(c, dir) => QueuesOK'
               /\ SpectatorThink(c) => QueuesOK'
               /\ SpectatorClientEndFrame(c) => QueuesOK'
               /\ respawn(c) => QueuesOK'
    BY <1>1 DEF ClientConnect, ClientBegin, Cmd_Follow_f, G_ToggleFollow,
                Cmd_FollowCycle_f, SpectatorThink, SpectatorClientEndFrame, respawn
  <1> QED
    BY <1>1, <1>3, <1>4, <1>5, <1>6, <1>7 DEF Next, vars

(* In every reachable state every team's ring is well formed and holds     *)
(* client numbers only - for all ring sizes, all numbers of clients up to  *)
(* it, and whatever the clients do, following and leaving included.        *)
THEOREM SpawnQueuesStayWellFormed == Spec => []RingsOK
  <1>1. Init => QueuesOK
    BY InitRing DEF Init, QueuesOK, RingsOK
  <1>2. QueuesOK => RingsOK
    BY DEF QueuesOK
  <1> QED
    BY <1>1, <1>2, NextQueues, PTL DEF Spec

-----------------------------------------------------------------------------
ClientsOK == client \in [Clients -> ClientState]

LEMMA StopFollowingTypes ==
  ASSUME NEW r \in ClientState, NEW c \in Clients
  PROVE  G_StopFollowing(r, c) \in ClientState
  BY DEF G_StopFollowing, ClientState

LEMMA ClientSpawnTypes ==
  ASSUME NEW r \in ClientState, NEW c \in Clients, NEW q
  PROVE  ClientSpawn(r, c, q) \in ClientState
  <1>1. (/\ r.connected = "CONNECTED"
         /\ (IF r.class = NoTeam THEN IF r.team = NoTeam THEN "FREE" ELSE "LOCKED"
             ELSE IF r.target # -1 THEN "FREE" ELSE r.spec) # "NOT"
         /\ r.team # NoTeam
         /\ G_SearchSpawnQueue(q[r.team], c)) \in BOOLEAN
    BY Zenon
  <1> QED
    BY <1>1 DEF ClientSpawn, ClientState

(* Among the clients that may be followed, one is the next in the          *)
(* direction of the search: G_FollowNewClient's loop ends at it.           *)
LEMMA NextIsFound ==
  ASSUME NEW cl, NEW i \in Clients, NEW from \in Clients, NEW dir \in {1, -1},
         \E d \in Clients : Eligible(cl, i, d)
  PROVE  \E x \in Clients :
           /\ Eligible(cl, i, x)
           /\ \A y \in Clients : Eligible(cl, i, y)
                => Distance(from, x, dir) <= Distance(from, y, dir)
  <1> DEFINE T == {Distance(from, d, dir) : d \in {e \in Clients : Eligible(cl, i, e)}}
  <1>1. \A d \in Clients : Distance(from, d, dir) \in Nat
    BY SpawnQueueAssumption DEF Distance, Clients
  <1>2. T \subseteq Nat /\ T # {}
    BY <1>1
  <1>3. PICK m \in T : \A y \in T : m <= y
    BY <1>2, Least
  <1>4. PICK x \in {e \in Clients : Eligible(cl, i, e)} : m = Distance(from, x, dir)
    BY <1>3
  <1> QED
    BY <1>3, <1>4

LEMMA FollowNextTypes ==
  ASSUME NEW cl \in [Clients -> ClientState], NEW i \in Clients,
         NEW dir \in {1, -1}, CanFollow(cl, i)
  PROVE  FollowNext(cl, i, dir) \in ClientState
  <1> DEFINE from == IF cl[i].target = -1 THEN 0 ELSE cl[i].target
             Next1(x) == /\ Eligible(cl, i, x)
                         /\ \A y \in Clients : Eligible(cl, i, y)
                              => Distance(from, x, dir) <= Distance(from, y, dir)
             d == CHOOSE x \in Clients : Next1(x)
  <1>1. cl[i] \in ClientState
    OBVIOUS
  <1>2. from \in Clients
    BY <1>1, SpawnQueueAssumption DEF ClientState, Clients
  <1>3. \E x \in Clients : Next1(x)
    BY <1>2, NextIsFound DEF CanFollow
  <1>4. d \in Clients
    BY <1>3, Zenon
  <1>5. FollowNext(cl, i, dir) = [cl[i] EXCEPT !.target = d, !.spec = "FOLLOW",
                                    !.num = IF cl[d].spec # "NOT" THEN d ELSE @]
    BY DEF FollowNext
  <1> HIDE DEF d
  <1> QED
    BY <1>1, <1>4, <1>5 DEF ClientState

LEMMA FollowOrStopTypes ==
  ASSUME NEW cl \in [Clients -> ClientState], NEW i \in Clients
  PROVE  FollowOrStop(cl, i) \in ClientState
  BY FollowNextTypes, StopFollowingTypes DEF FollowOrStop

LEMMA StopFromFollowingTypes ==
  ASSUME NEW cl \in [Clients -> ClientState], NEW c
  PROVE  G_StopFromFollowing(cl, c) \in [Clients -> ClientState]
  BY FollowOrStopTypes DEF G_StopFromFollowing

LEMMA LeaveClientsTypes ==
  ASSUME ClientsOK, NEW c \in Clients
  PROVE  LeaveClients(c) \in [Clients -> ClientState]
  <1> DEFINE cleared == IF Finds(queue[client[c].team], client[c].num)
                        THEN [client EXCEPT ![client[c].num].queued = FALSE]
                        ELSE client
  <1>1. client[c] \in ClientState /\ client[c].num \in Clients
    BY DEF ClientsOK, ClientState
  <1>2. cleared \in [Clients -> ClientState]
    BY <1>1 DEF ClientsOK, ClientState
  <1>3. CASE client[c].team = NoTeam
    BY <1>1, <1>3, StopFollowingTypes DEF LeaveClients, ClientsOK
  <1>4. CASE client[c].team # NoTeam
    <2>1. LeaveClients(c) = G_StopFromFollowing(cleared, c)
      BY <1>4 DEF LeaveClients
    <2> HIDE DEF cleared
    <2> QED
      BY <1>2, <2>1, StopFromFollowingTypes
  <1> QED
    BY <1>3, <1>4

(* Each field of a client record takes the values of its type. *)
LEMMA FieldTypes ==
  ASSUME NEW r \in ClientState
  PROVE  /\ \A x \in {"DISCONNECTED", "CONNECTING", "CONNECTED"} :
              [r EXCEPT !.connected = x] \in ClientState
         /\ \A x \in Teams \cup {NoTeam} :
              /\ [r EXCEPT !.team = x] \in ClientState
              /\ [r EXCEPT !.class = x] \in ClientState
         /\ \A x \in {"NOT", "FREE", "LOCKED", "FOLLOW"} :
              [r EXCEPT !.spec = x] \in ClientState
         /\ \A x \in Clients \cup {-1} : [r EXCEPT !.target = x] \in ClientState
         /\ \A x \in Clients : [r EXCEPT !.num = x] \in ClientState
         /\ \A x \in BOOLEAN : [r EXCEPT !.queued = x] \in ClientState
  BY DEF ClientState

LEMMA InitTypes == Init => ClientsOK
  BY SpawnQueueAssumption DEF Init, ClientsOK, ClientState, Clients

LEMMA NextTypes == QueuesOK /\ ClientsOK /\ [Next]_vars => ClientsOK'
  <1> SUFFICES ASSUME QueuesOK, ClientsOK, [Next]_vars
               PROVE  ClientsOK'
    OBVIOUS
  <1>1. CASE UNCHANGED vars
    BY <1>1 DEF vars, ClientsOK
  <1>2. ASSUME NEW c \in Clients, NEW r \in ClientState,
               client' = [client EXCEPT ![c] = r]
        PROVE  ClientsOK'
    BY <1>2 DEF ClientsOK
  <1>3. \A c \in Clients : client[c] \in ClientState
    BY DEF ClientsOK
  <1>4. ASSUME NEW c \in Clients, ClientConnect(c)
        PROVE  ClientsOK'
    BY <1>4, SpawnQueueAssumption DEF ClientConnect, ClientsOK, ClientState, Clients
  <1>5. ASSUME NEW c \in Clients, ClientBegin(c)
        PROVE  ClientsOK'
    <2>1. [client[c] EXCEPT !.connected = "CONNECTED"] \in ClientState
      BY <1>3 DEF ClientState
    <2>2. ClientSpawn([client[c] EXCEPT !.connected = "CONNECTED"], c, queue)
            \in ClientState
      BY <2>1, ClientSpawnTypes
    <2> QED
      BY <1>2, <1>5, <2>2 DEF ClientBegin
  <1>6. ASSUME NEW c \in Clients, ClientDisconnect(c)
        PROVE  ClientsOK'
    <2> DEFINE left == LeaveClients(c)
    <2>1. left \in [Clients -> ClientState]
      BY LeaveClientsTypes
    <2>2. client' = [left EXCEPT ![c].connected = "DISCONNECTED", ![c].spec = "NOT"]
      BY <1>6 DEF ClientDisconnect
    <2> DEFINE r == [left[c] EXCEPT !.connected = "DISCONNECTED", !.spec = "NOT"]
    <2> HIDE DEF left
    <2>3. client' = [left EXCEPT ![c] = r]
      BY <2>1, <2>2, Zenon
    <2>4. left[c] \in ClientState
      BY <2>1
    <2>5. r \in ClientState
      BY <2>4, FieldTypes, Zenon
    <2> HIDE DEF r
    <2> QED
      BY <2>1, <2>3, <2>5 DEF ClientsOK
  <1>7. ASSUME NEW c \in Clients, NEW t \in Teams \cup {NoTeam}, G_ChangeTeam(c, t)
        PROVE  ClientsOK'
    <2> DEFINE left == LeaveClients(c)
               r == [left[c] EXCEPT !.team = t, !.class = NoTeam]
    <2>1. left \in [Clients -> ClientState]
      BY LeaveClientsTypes
    <2>2. client' = [left EXCEPT ![c] = ClientSpawn(r, c, LeaveQueue(c))]
      BY <1>7 DEF G_ChangeTeam
    <2> HIDE DEF left
    <2>3. left[c] \in ClientState
      BY <2>1
    <2>4. r \in ClientState
      BY <2>3, FieldTypes, Zenon
    <2> HIDE DEF r
    <2>5. ClientSpawn(r, c, LeaveQueue(c)) \in ClientState
      BY <2>4, ClientSpawnTypes
    <2> QED
      BY <2>1, <2>2, <2>5 DEF ClientsOK
  <1>8. ASSUME NEW c \in Clients, \/ Cmd_Class_f(c) \/ SpectatorAttack(c)
        PROVE  ClientsOK'
    <2> DEFINE t == client[c].team
               r == IF client[c].spec = "FOLLOW" THEN G_StopFollowing(client[c], c)
                    ELSE client[c]
    <2>1. r \in ClientState /\ t \in Teams \cup {NoTeam}
      BY <1>3, StopFollowingTypes DEF ClientState
    <2>2. \/ client' = [client EXCEPT ![c] = r]
          \/ t \in Teams
             /\ client' = [client EXCEPT ![c] = [r EXCEPT !.queued = TRUE, !.class = t]]
          \/ client' = [client EXCEPT ![c] = [r EXCEPT !.class = NoTeam, !.queued = FALSE]]
      BY <1>8 DEF Cmd_Class_f, SpectatorAttack
    <2> HIDE DEF r, t
    <2>3. /\ [r EXCEPT !.class = NoTeam, !.queued = FALSE] \in ClientState
          /\ t \in Teams => [r EXCEPT !.queued = TRUE, !.class = t] \in ClientState
      BY <2>1, FieldTypes, Zenon
    <2> QED
      BY <1>2, <2>1, <2>2, <2>3
  <1>9. ASSUME NEW c \in Clients, NEW d \in Clients, Cmd_Follow_f(c, d)
        PROVE  ClientsOK'
    <2> DEFINE r == [client[c] EXCEPT !.spec = "FOLLOW", !.target = d]
    <2>1. client' = [client EXCEPT ![c].spec = "FOLLOW", ![c].target = d]
      BY <1>9 DEF Cmd_Follow_f
    <2>2. client' = [client EXCEPT ![c] = r]
      BY <2>1, Zenon DEF ClientsOK
    <2>3. d \in Clients \cup {-1}
      OBVIOUS
    <2>4. r \in ClientState
      BY <1>3, <2>3, FieldTypes, Zenon
    <2> QED
      BY <1>2, <2>2, <2>4
  <1>10. ASSUME NEW c \in Clients,
                \/ G_ToggleFollow(c)
                \/ \E dir \in {1, -1} : Cmd_FollowCycle_f(c, dir)
         PROVE  ClientsOK'
    BY <1>2, <1>3, <1>10, StopFollowingTypes, FollowNextTypes
       DEF G_ToggleFollow, Cmd_FollowCycle_f, ClientsOK
  <1>11. ASSUME NEW c \in Clients, SpectatorThink(c)
         PROVE  ClientsOK'
    <2>1. client' = [client EXCEPT ![c].queued = TRUE]
      BY <1>11 DEF SpectatorThink
    <2> QED
      BY <2>1 DEF ClientsOK, ClientState
  <1>12. ASSUME NEW c \in Clients, SpectatorClientEndFrame(c)
         PROVE  ClientsOK'
    <2> DEFINE d == client[c].target
    <2>1. d \in Clients
      BY <1>3, <1>12 DEF SpectatorClientEndFrame, ClientState
    <2>2. client[d].num \in Clients
      BY <1>3, <2>1 DEF ClientState
    <2>3. client' = [client EXCEPT ![c].num = client[d].num, ![c].queued = FALSE]
      BY <1>12 DEF SpectatorClientEndFrame
    <2> DEFINE n == client[d].num
               r == [client[c] EXCEPT !.num = n, !.queued = FALSE]
    <2>4. client' = [client EXCEPT ![c] = r]
      BY <2>3, Zenon DEF ClientsOK
    <2> HIDE DEF n
    <2>5. r \in ClientState
      BY <1>3, <2>2, FieldTypes, Zenon DEF n
    <2> QED
      BY <1>2, <2>4, <2>5
  <1>13. ASSUME NEW c \in Clients, respawn(c)
         PROVE  ClientsOK'
    <2> DEFINE r    == ClientSpawn([client[c] EXCEPT !.class = NoTeam], c, queue)
               dead == [client EXCEPT ![c] = r]
    <2>1. [client[c] EXCEPT !.class = NoTeam] \in ClientState
      BY <1>3 DEF ClientState
    <2>2. r \in ClientState
      BY <2>1, ClientSpawnTypes
    <2>3. client' = [i \in Clients |->
            IF dead[i].spec # "FOLLOW" \/ dead[i].target # c THEN dead[i]
            ELSE IF i \in Sticky THEN [dead[i] EXCEPT !.num = c]
            ELSE FollowOrStop(dead, i)]
      BY <1>13 DEF respawn
    <2> HIDE DEF r
    <2>4. dead \in [Clients -> ClientState]
      BY <2>2 DEF ClientsOK
    <2> HIDE DEF dead
    <2>5. \A i \in Clients : /\ dead[i] \in ClientState
                             /\ [dead[i] EXCEPT !.num = c] \in ClientState
                             /\ FollowOrStop(dead, i) \in ClientState
      BY <2>4, FollowOrStopTypes DEF ClientState
    <2> QED
      BY <2>3, <2>5 DEF ClientsOK
  <1>14. ASSUME NEW t \in Teams, G_SpawnClients(t)
         PROVE  ClientsOK'
    <2> DEFINE c == G_PeekSpawnQueue(queue[t])
               r == [G_StopFollowing(client[c], c) EXCEPT !.spec = "NOT"]
               q == [queue EXCEPT ![t] = G_PopSpawnQueue(@)]
    <2>1. c \in Clients
      BY <1>14, PopRing DEF G_SpawnClients, QueuesOK, RingsOK
    <2>2. client' = [client EXCEPT ![c] = ClientSpawn(r, c, q)]
      BY <1>14 DEF G_SpawnClients
    <2> HIDE DEF c, q
    <2>3. r \in ClientState
      BY <1>3, <2>1, StopFollowingTypes DEF ClientState
    <2> HIDE DEF r
    <2>4. ClientSpawn(r, c, q) \in ClientState
      BY <2>1, <2>3, ClientSpawnTypes
    <2> QED
      BY <1>2, <2>1, <2>2, <2>4
  <1> QED
    BY <1>1, <1>4, <1>5, <1>6, <1>7, <1>8, <1>9, <1>10, <1>11, <1>12, <1>13, <1>14
       DEF Next

(* The queues and the client records keep their types: whoever is followed *)
(* or takes its place at the head of a queue is a client number, after any *)
(* sequence of commands, deaths and disconnects.                           *)
THEOREM SpawnQueueTypes == Spec => []TypeOK
  <1>1. Init => QueuesOK /\ ClientsOK
    BY InitRing, InitTypes DEF Init, QueuesOK, RingsOK
  <1>2. QueuesOK /\ ClientsOK => TypeOK
    BY DEF QueuesOK, ClientsOK, TypeOK
  <1> QED
    BY <1>1, <1>2, NextQueues, NextTypes, PTL DEF Spec

-----------------------------------------------------------------------------
(* A ring holds its length, or everybody when the length reads 0 because   *)
(* every slot is taken.                                                    *)
Full(q) == \A s \in Slots : q.clients[s] # Nobody

Held(q) == IF Full(q) THEN MAX_CLIENTS ELSE G_GetSpawnQueueLength(q)

(* The slot i places behind the front. *)
Place(q, i) == (q.front + i) % MAX_CLIENTS

LEMMA Places ==
  ASSUME NEW q \in Ring
  PROVE  /\ \A i \in Slots : Place(q, i) \in Slots /\ Offset(q, Place(q, i)) = i
         /\ \A s \in Slots : Place(q, Offset(q, s)) = s
  <1>1. q.front \in Slots /\ \A s \in Slots : Offset(q, s) = OffsetOf(q, s)
                                              /\ Offset(q, s) \in Slots
    BY RingShape
  <1>2. ASSUME NEW i \in Slots
        PROVE  /\ Place(q, i) = IF q.front + i < MAX_CLIENTS THEN q.front + i
                                ELSE q.front + i - MAX_CLIENTS
               /\ Place(q, i) \in Slots
    BY <1>1, RingAssumption DEF Place, Slots
  <1>3. ASSUME NEW i \in Slots
        PROVE  OffsetOf(q, Place(q, i)) = i
    <2>1. CASE q.front + i < MAX_CLIENTS
      <3>1. Place(q, i) = q.front + i
        BY <1>2, <2>1
      <3> QED
        BY <1>1, <2>1, <3>1, RingAssumption DEF OffsetOf, Slots
    <2>2. CASE ~(q.front + i < MAX_CLIENTS)
      <3>1. Place(q, i) = q.front + i - MAX_CLIENTS
        BY <1>2, <2>2
      <3> QED
        BY <1>1, <2>2, <3>1, RingAssumption DEF OffsetOf, Slots
    <2> QED
      BY <2>1, <2>2
  <1>4. ASSUME NEW s \in Slots
        PROVE  Place(q, OffsetOf(q, s)) = s
    <2>1. OffsetOf(q, s) \in Slots
      BY <1>1
    <2> QED
      BY <1>1, <1>2, <2>1, RingAssumption DEF OffsetOf, Slots
  <1> QED
    BY <1>1, <1>2, <1>3, <1>4

(* The occupied slots are the first Held(q), and hold distinct clients. *)
LEMMA HeldSlots ==
  ASSUME NEW q \in Ring, RingOK(q)
  PROVE  /\ Held(q) \in 0 .. MAX_CLIENTS
         /\ \A s \in Slots : (q.clients[s] # Nobody) <=> Offset(q, s) < Held(q)
         /\ \A r, s \in Slots : q.clients[r] = q.clients[s] /\ q.clients[r] # Nobody
                                  => r = s
  <1>1. /\ G_GetSpawnQueueLength(q) \in Slots
        /\ \A s \in Slots : Offset(q, s) \in Slots
    BY RingShape
  <1>2. \A x \in Slots : x \in Int /\ 0 <= x /\ x < MAX_CLIENTS
    BY RingAssumption DEF Slots
  <1>3. CASE Full(q)
    BY <1>1, <1>2, <1>3, RingAssumption DEF Full, Held, RingOK
  <1>4. CASE ~Full(q)
    BY <1>1, <1>2, <1>4, RingAssumption DEF Full, Held, RingOK
  <1> QED
    BY <1>3, <1>4

(* The content of a ring, given slot by slot, is its line. *)
LEMMA LineIs ==
  ASSUME NEW q \in Ring, RingOK(q), NEW h \in 0 .. MAX_CLIENTS,
         \A s \in Slots : (q.clients[s] # Nobody) <=> Offset(q, s) < h
  PROVE  /\ Cardinality(Members(q)) = h
         /\ LineOf(q) = [i \in 1 .. h |-> q.clients[Place(q, i - 1)]]
         /\ LineOf(q) \in Seq(Slots) /\ Len(LineOf(q)) = h
         /\ \A s \in Slots : Offset(q, s) < h
              => LineOf(q)[Offset(q, s) + 1] = q.clients[s]
         /\ \A i \in 1 .. h : LineOf(q)[i] \in Members(q)
  <1> DEFINE l == [i \in 1 .. h |-> q.clients[Place(q, i - 1)]]
  <1>1. q.clients \in [Slots -> Slots \cup {Nobody}] /\ h \in Nat /\ MAX_CLIENTS \in Nat
    BY RingShape, RingAssumption
  <1>2. \A i \in 1 .. h : i - 1 \in Slots
    BY <1>1 DEF Slots
  <1>3. \A i \in 1 .. h : /\ Place(q, i - 1) \in Slots
                          /\ Offset(q, Place(q, i - 1)) = i - 1
    BY <1>2, Places
  <1>4. \A i \in 1 .. h : l[i] # Nobody /\ l[i] \in Slots /\ l[i] \in Members(q)
    BY <1>1, <1>3 DEF Members
  <1>5. l \in [1 .. h -> Members(q)]
    BY <1>4
  <1>6. \A i, j \in 1 .. h : l[i] = l[j] => i = j
    <2> SUFFICES ASSUME NEW i \in 1 .. h, NEW j \in 1 .. h, l[i] = l[j]
                 PROVE  i = j
      OBVIOUS
    <2>1. Place(q, i - 1) = Place(q, j - 1)
      BY <1>3, <1>4, HeldSlots
    <2>2. i - 1 = j - 1
      BY <1>3, <2>1
    <2> QED
      BY <2>2
  <1>7. \A s \in Slots : Offset(q, s) < h => /\ Offset(q, s) + 1 \in 1 .. h
                                             /\ l[Offset(q, s) + 1] = q.clients[s]
    <2> SUFFICES ASSUME NEW s \in Slots, Offset(q, s) < h
                 PROVE  Offset(q, s) + 1 \in 1 .. h /\ l[Offset(q, s) + 1] = q.clients[s]
      OBVIOUS
    <2>1. Offset(q, s) \in Nat /\ Place(q, Offset(q, s)) = s
      BY Places, RingShape DEF Slots
    <2>2. Offset(q, s) + 1 \in 1 .. h /\ Offset(q, s) + 1 - 1 = Offset(q, s)
      BY <1>1, <2>1
    <2> QED
      BY <2>1, <2>2
  <1>8. \A c \in Members(q) : \E i \in 1 .. h : l[i] = c
    BY <1>7 DEF Members
  <1>9. l \in Bijection(1 .. h, Members(q))
    BY <1>5, <1>6, <1>8 DEF Bijection, Injection, Surjection, IsInjective
  <1>10. Cardinality(Members(q)) = h
    BY <1>1, <1>9, FS_CountingElements DEF ExistsBijection
  <1>11. LineOf(q) = l
    <2>1. \A i \in 1 .. h : q.front + i - 1 = q.front + (i - 1)
      BY RingShape DEF Slots
    <2> QED
      BY <1>10, <2>1 DEF LineOf, Place
  <1>12. l \in Seq(Slots) /\ Len(l) = h
    BY <1>1, <1>4
  <1> HIDE DEF l
  <1> QED
    BY <1>4, <1>7, <1>10, <1>11, <1>12 DEF l

(* A ring's line, slot by slot. *)
LEMMA LineShape ==
  ASSUME NEW q \in Ring, RingOK(q)
  PROVE  /\ Cardinality(Members(q)) = Held(q)
         /\ LineOf(q) \in Seq(Slots) /\ Len(LineOf(q)) = Held(q)
         /\ \A s \in Slots : Offset(q, s) < Held(q)
              => LineOf(q)[Offset(q, s) + 1] = q.clients[s]
         /\ \A i \in 1 .. Held(q) : LineOf(q)[i] \in Members(q)
  BY HeldSlots, LineIs

(* Two lines of the same length with the same clients are the same. *)
LEMMA SameLine ==
  ASSUME NEW q \in Ring, RingOK(q), NEW line \in Seq(Slots),
         Len(line) <= MAX_CLIENTS,
         \A s \in Slots : (q.clients[s] # Nobody) <=> Offset(q, s) < Len(line),
         \A s \in Slots : Offset(q, s) < Len(line)
                            => q.clients[s] = line[Offset(q, s) + 1]
  PROVE  LineOf(q) = line
  <1>1. Len(line) \in 0 .. MAX_CLIENTS /\ MAX_CLIENTS \in Nat
    BY RingAssumption
  <1>2. LineOf(q) = [i \in 1 .. Len(line) |-> q.clients[Place(q, i - 1)]]
    BY <1>1, LineIs
  <1>3. ASSUME NEW i \in 1 .. Len(line)
        PROVE  q.clients[Place(q, i - 1)] = line[i]
    <2>1. i - 1 \in Slots /\ i - 1 < Len(line) /\ i - 1 + 1 = i
      BY <1>1 DEF Slots
    <2>2. Place(q, i - 1) \in Slots /\ Offset(q, Place(q, i - 1)) = i - 1
      BY <2>1, Places
    <2> QED
      BY <2>1, <2>2
  <1>4. line = [i \in 1 .. Len(line) |-> line[i]]
    OBVIOUS
  <1> QED
    BY <1>2, <1>3, <1>4

(* Who is found in the ring is in its line. *)
LEMMA InLine ==
  ASSUME NEW q \in Ring, RingOK(q), NEW c \in Slots
  PROVE  G_SearchSpawnQueue(q, c) <=> c \in Members(q)
  BY SlotTypes DEF G_SearchSpawnQueue, Members

(* G_PushSpawnQueue appends a client that is not in the line yet. *)
LEMMA PushLine ==
  ASSUME NEW q \in Ring, RingOK(q), NEW c \in Slots, ~G_SearchSpawnQueue(q, c)
  PROVE  LineOf(G_PushSpawnQueue(q, c)) = Append(LineOf(q), c)
  <1> DEFINE p == G_PushSpawnQueue(q, c)
             L == G_GetSpawnQueueLength(q)
             line == LineOf(q)
  <1>1. p \in Ring /\ RingOK(p)
    BY PushRing
  <1>2. \A s \in Slots : /\ p.clients[s] = IF Offset(q, s) = L THEN c ELSE q.clients[s]
                         /\ Offset(p, s) = Offset(q, s)
    BY PushRing
  <1>3. /\ L \in Slots /\ c # Nobody
        /\ \A s \in Slots : Offset(q, s) \in Slots
    BY RingShape, SlotTypes
  <1>4. \A s \in Slots : (q.clients[s] # Nobody) <=> Offset(q, s) < L
    BY RoomForAnother
  <1>5. \A x \in Slots : x \in Int /\ 0 <= x /\ x <= MAX_CLIENTS - 1
    BY RingAssumption DEF Slots
  <1>6. L \in 0 .. MAX_CLIENTS
    BY <1>3, <1>5, RingAssumption
  <1>7. /\ line \in Seq(Slots) /\ Len(line) = L
        /\ \A s \in Slots : Offset(q, s) < L => line[Offset(q, s) + 1] = q.clients[s]
    BY <1>4, <1>6, LineIs
  <1> HIDE DEF p, L, line
  <1>8. /\ Append(line, c) \in Seq(Slots) /\ Len(Append(line, c)) = L + 1
        /\ Append(line, c)[L + 1] = c
        /\ \A i \in 1 .. L : Append(line, c)[i] = line[i]
    BY <1>7, AppendProperties
  <1>9. ASSUME NEW s \in Slots
        PROVE  /\ (p.clients[s] # Nobody) <=> Offset(p, s) < L + 1
               /\ Offset(p, s) < L + 1
                    => p.clients[s] = Append(line, c)[Offset(p, s) + 1]
    <2>1. Offset(q, s) \in Int /\ Offset(q, s) >= 0 /\ L \in Int /\ L >= 0
      BY <1>3, <1>5
    <2>2. CASE Offset(q, s) = L
      BY <1>2, <1>3, <1>8, <2>1, <2>2
    <2>3. CASE Offset(q, s) < L
      <3>1. Offset(q, s) + 1 \in 1 .. L
        BY <2>1, <2>3
      <3> QED
        BY <1>2, <1>4, <1>7, <1>8, <2>1, <2>3, <3>1
    <2>4. CASE Offset(q, s) > L
      BY <1>2, <1>4, <2>1, <2>4
    <2>5. Offset(q, s) = L \/ Offset(q, s) < L \/ Offset(q, s) > L
      BY <2>1
    <2> QED
      BY <2>2, <2>3, <2>4, <2>5, Zenon
  <1>10. LineOf(p) = Append(line, c)
    <2>1. L + 1 <= MAX_CLIENTS
      BY <1>3, <1>5, RingAssumption
    <2> QED
      BY <1>1, <1>8, <1>9, <2>1, SameLine
  <1> QED
    BY <1>10 DEF p, line

(* G_PopSpawnQueue serves the head of the line. *)
LEMMA PopLine ==
  ASSUME NEW q \in Ring, RingOK(q), G_GetSpawnQueueLength(q) > 0
  PROVE  LineOf(q) # << >> /\ LineOf(G_PopSpawnQueue(q)) = Tail(LineOf(q))
  <1> DEFINE p == G_PopSpawnQueue(q)
             L == G_GetSpawnQueueLength(q)
             line == LineOf(q)
  <1>1. p \in Ring /\ RingOK(p)
    BY PopRing
  <1>2. \A s \in Slots : /\ (p.clients[s] # Nobody) <=> Offset(p, s) < L - 1
                         /\ p.clients[s] # Nobody
                              => /\ p.clients[s] = q.clients[s]
                                 /\ Offset(p, s) = Offset(q, s) - 1
    BY PopRing
  <1>3. /\ L \in Slots
        /\ \A s \in Slots : Offset(q, s) \in Slots /\ Offset(p, s) \in Slots
    BY <1>1, RingShape
  <1>4. \A s \in Slots : (q.clients[s] # Nobody) <=> Offset(q, s) < L
    BY RingAssumption DEF RingOK
  <1>5. \A x \in Slots : x \in Int /\ 0 <= x /\ x <= MAX_CLIENTS - 1
    BY RingAssumption DEF Slots
  <1>6. L \in 0 .. MAX_CLIENTS /\ L > 0
    BY <1>3, <1>5, RingAssumption
  <1>7. /\ line \in Seq(Slots) /\ Len(line) = L
        /\ \A s \in Slots : Offset(q, s) < L => line[Offset(q, s) + 1] = q.clients[s]
    BY <1>4, <1>6, LineIs
  <1> HIDE DEF p, L, line
  <1>8. /\ line # << >> /\ Tail(line) \in Seq(Slots) /\ Len(Tail(line)) = L - 1
        /\ \A i \in 1 .. (L - 1) : Tail(line)[i] = line[i + 1]
    BY <1>6, <1>7, HeadTailProperties
  <1>9. ASSUME NEW s \in Slots, Offset(p, s) < L - 1
        PROVE  p.clients[s] = Tail(line)[Offset(p, s) + 1]
    <2>1. /\ Offset(q, s) \in Int /\ Offset(p, s) \in Int /\ Offset(p, s) >= 0
          /\ L \in Int
      BY <1>3, <1>5
    <2>2. p.clients[s] = q.clients[s] /\ Offset(p, s) + 1 = Offset(q, s)
      BY <1>2, <1>9, <2>1
    <2>3. Offset(p, s) + 1 \in 1 .. (L - 1) /\ Offset(q, s) < L
      BY <1>9, <2>1, <2>2
    <2> QED
      BY <1>7, <1>8, <2>2, <2>3
  <1>10. LineOf(p) = Tail(line)
    <2>1. L - 1 <= MAX_CLIENTS
      BY <1>3, <1>5, RingAssumption
    <2> QED
      BY <1>1, <1>2, <1>8, <1>9, <2>1, SameLine
  <1> QED
    BY <1>8, <1>10 DEF p, line

(* RemoveAt of the community modules, place by place. *)
LEMMA RemovedPlace ==
  ASSUME NEW S, NEW line \in Seq(S), NEW i \in 1 .. Len(line)
  PROVE  /\ RemoveAt(line, i) \in Seq(S) /\ Len(RemoveAt(line, i)) = Len(line) - 1
         /\ \A j \in 1 .. (Len(line) - 1) :
              RemoveAt(line, i)[j] = IF j < i THEN line[j] ELSE line[j + 1]
  <1> DEFINE front == SubSeq(line, 1, i - 1)
             back  == SubSeq(line, i + 1, Len(line))
  <1>1. Len(line) \in Nat /\ i \in Nat /\ 1 <= i /\ i <= Len(line)
    BY LenProperties
  <1>2. /\ front \in Seq(S) /\ Len(front) = i - 1
        /\ \A j \in 1 .. (i - 1) : front[j] = line[j]
    BY <1>1, SubSeqProperties
  <1>3. /\ back \in Seq(S) /\ Len(back) = Len(line) - i
        /\ \A j \in 1 .. (Len(line) - i) : back[j] = line[i + j]
    BY <1>1, SubSeqProperties
  <1>4. RemoveAt(line, i) = front \o back
    BY DEF RemoveAt
  <1> HIDE DEF front, back
  <1>5. /\ front \o back \in Seq(S) /\ Len(front \o back) = Len(line) - 1
        /\ \A j \in 1 .. (Len(line) - 1) :
             (front \o back)[j] = IF j <= i - 1 THEN front[j] ELSE back[j - (i - 1)]
    <2>1. /\ front \o back \in Seq(S)
          /\ Len(front \o back) = Len(front) + Len(back)
          /\ \A j \in 1 .. (Len(front) + Len(back)) :
               (front \o back)[j] = IF j <= Len(front) THEN front[j]
                                    ELSE back[j - Len(front)]
      BY <1>2, <1>3, ConcatProperties
    <2>2. Len(front) + Len(back) = Len(line) - 1 /\ Len(front) = i - 1
      BY <1>1, <1>2, <1>3
    <2> QED
      BY <2>1, <2>2
  <1>6. ASSUME NEW j \in 1 .. (Len(line) - 1)
        PROVE  (front \o back)[j] = IF j < i THEN line[j] ELSE line[j + 1]
    <2>1. CASE j < i
      <3>1. j \in 1 .. (i - 1) /\ j <= i - 1
        BY <1>1, <2>1
      <3> QED
        BY <1>2, <1>5, <2>1, <3>1
    <2>2. CASE ~(j < i)
      <3>1. ~(j <= i - 1) /\ j - (i - 1) \in 1 .. (Len(line) - i)
            /\ i + (j - (i - 1)) = j + 1
        BY <1>1, <2>2
      <3> QED
        BY <1>3, <1>5, <2>2, <3>1
    <2> QED
      BY <2>1, <2>2
  <1> QED
    BY <1>4, <1>5, <1>6

(* G_RemoveFromSpawnQueue takes the client out of its place in the line    *)
(* and leaves the others in their order; it does nothing when the client   *)
(* is not among those the length spans.                                    *)
LEMMA RemoveLine ==
  ASSUME NEW q \in Ring, RingOK(q), NEW c
  PROVE  \/ G_RemoveFromSpawnQueue(q, c) = q
         \/ \E i \in 1 .. Len(LineOf(q)) :
              /\ LineOf(q)[i] = c
              /\ LineOf(G_RemoveFromSpawnQueue(q, c)) = RemoveAt(LineOf(q), i)
  <1> DEFINE p == G_RemoveFromSpawnQueue(q, c)
             L == G_GetSpawnQueueLength(q)
             line == LineOf(q)
  <1>1. CASE ~Finds(q, c)
    BY <1>1 DEF G_RemoveFromSpawnQueue
  <1>2. CASE Finds(q, c)
    <2>1. /\ p \in Ring /\ RingOK(p) /\ L > 0
          /\ \E k \in Slots : q.clients[k] = c /\ Offset(q, k) < L /\ TakenFrom(q, k, p)
      BY <1>2, RemoveRing
    <2>2. PICK k \in Slots : q.clients[k] = c /\ Offset(q, k) < L /\ TakenFrom(q, k, p)
      BY <2>1
    <2>3. \A s \in Slots :
            /\ Offset(p, s) = Offset(q, s)
            /\ (p.clients[s] # Nobody) <=> Offset(q, s) < L - 1
            /\ p.clients[s] = IF /\ Offset(q, s) < L
                                 /\ Offset(q, s) >= Offset(q, k)
                              THEN q.clients[QUEUE_PLUS1(s)]
                              ELSE q.clients[s]
      BY <2>2 DEF TakenFrom
    <2>4. L \in Slots /\ \A s \in Slots : Offset(q, s) \in Slots
      BY RingShape
    <2>5. \A x \in Slots : x \in Int /\ 0 <= x /\ x <= MAX_CLIENTS - 1
      BY RingAssumption DEF Slots
    <2>6. \A s \in Slots : (q.clients[s] # Nobody) <=> Offset(q, s) < L
      BY <2>1 DEF RingOK
    <2>7. L \in 0 .. MAX_CLIENTS /\ MAX_CLIENTS \in Int
      BY <2>4, <2>5, RingAssumption
    <2>8. /\ line \in Seq(Slots) /\ Len(line) = L
          /\ \A s \in Slots : Offset(q, s) < L => line[Offset(q, s) + 1] = q.clients[s]
      BY <2>6, <2>7, LineIs
    <2>9. \A s \in Slots : Offset(q, s) < MAX_CLIENTS - 1
                            => /\ Offset(q, QUEUE_PLUS1(s)) = Offset(q, s) + 1
                               /\ QUEUE_PLUS1(s) \in Slots
      BY OffsetSteps, SlotTypes
    <2> DEFINE i == Offset(q, k) + 1
               rest == RemoveAt(line, i)
    <2>10. i \in 1 .. L /\ line[i] = c
      <3>1. Offset(q, k) \in Int /\ Offset(q, k) >= 0 /\ L \in Int
        BY <2>4, <2>5
      <3> QED
        BY <2>2, <2>8, <3>1
    <2>11. i = Offset(q, k) + 1
      OBVIOUS
    <2> HIDE DEF p, L, line, i
    <2>12. /\ rest \in Seq(Slots) /\ Len(rest) = L - 1
           /\ \A j \in 1 .. (L - 1) : rest[j] = IF j < i THEN line[j] ELSE line[j + 1]
      BY <2>8, <2>10, RemovedPlace
    <2> HIDE DEF rest
    <2>13. ASSUME NEW s \in Slots, Offset(p, s) < L - 1
           PROVE  p.clients[s] = rest[Offset(p, s) + 1]
      <3>1. /\ Offset(q, s) \in Int /\ Offset(q, k) \in Int /\ L \in Int
            /\ Offset(q, s) >= 0 /\ L <= MAX_CLIENTS - 1
        BY <2>4, <2>5
      <3>2. Offset(p, s) = Offset(q, s) /\ Offset(q, s) < L - 1
        BY <2>3, <2>13
      <3>3. Offset(q, s) + 1 \in 1 .. (L - 1) /\ Offset(q, s) < L
            /\ Offset(q, s) < MAX_CLIENTS - 1
        BY <2>7, <3>1, <3>2
      <3>4. CASE Offset(q, s) < Offset(q, k)
        <4>1. p.clients[s] = q.clients[s]
          BY <2>3, <3>1, <3>4
        <4>2. Offset(q, s) + 1 < i
          BY <2>11, <3>1, <3>4
        <4>3. rest[Offset(q, s) + 1] = line[Offset(q, s) + 1]
          BY <2>12, <3>3, <4>2
        <4> QED
          BY <2>8, <3>2, <3>3, <4>1, <4>3
      <3>5. CASE Offset(q, s) >= Offset(q, k)
        <4>1. p.clients[s] = q.clients[QUEUE_PLUS1(s)]
          BY <2>3, <3>1, <3>3, <3>5
        <4>2. ~(Offset(q, s) + 1 < i)
          BY <2>11, <3>1, <3>5
        <4>3. rest[Offset(q, s) + 1] = line[Offset(q, s) + 1 + 1]
          BY <2>12, <3>3, <4>2
        <4>4. /\ QUEUE_PLUS1(s) \in Slots
              /\ Offset(q, QUEUE_PLUS1(s)) = Offset(q, s) + 1
          BY <2>9, <3>3
        <4>5. Offset(q, QUEUE_PLUS1(s)) < L
          BY <3>1, <3>2, <4>4
        <4>6. line[Offset(q, s) + 1 + 1] = q.clients[QUEUE_PLUS1(s)]
          BY <2>8, <4>4, <4>5
        <4> QED
          BY <3>2, <4>1, <4>3, <4>6
      <3>6. Offset(q, s) < Offset(q, k) \/ Offset(q, s) >= Offset(q, k)
        BY <3>1
      <3> QED
        BY <3>4, <3>5, <3>6
    <2>14. \A s \in Slots : (p.clients[s] # Nobody) <=> Offset(p, s) < L - 1
      BY <2>3
    <2>15. LineOf(p) = rest
      <3>1. L - 1 <= MAX_CLIENTS
        BY <2>4, <2>5, <2>7
      <3> QED
        BY <2>1, <2>12, <2>13, <2>14, <3>1, SameLine
    <2> QED
      BY <2>8, <2>10, <2>15 DEF p, line, rest
  <1> QED
    BY <1>1, <1>2

-----------------------------------------------------------------------------
(* The lines of SpawnFifo, as the rings hold them. *)
Lines == [t \in Teams |-> LineOf(queue[t])]

(* A handler that changes one team's ring changes that team's line.        *)
LEMMA LinesChange ==
  ASSUME queue \in [Teams -> Ring], NEW t \in Teams, NEW p,
         queue' = [queue EXCEPT ![t] = p]
  PROVE  Lines' = [Lines EXCEPT ![t] = LineOf(p)]
  <1>1. Lines' = [u \in Teams |-> LineOf(queue'[u])]
    BY DEF Lines
  <1>2. \A u \in Teams : queue'[u] = IF u = t THEN p ELSE queue[u]
    OBVIOUS
  <1>3. Lines' = [u \in Teams |-> IF u = t THEN LineOf(p) ELSE LineOf(queue[u])]
    BY <1>1, <1>2, Zenon
  <1> QED
    BY <1>3, Zenon DEF Lines

LEMMA JoinsTheLine ==
  ASSUME QueuesOK, NEW t \in Teams, NEW c \in Clients, ~InQueue(t, c),
         queue' = [queue EXCEPT ![t] = G_PushSpawnQueue(@, c)]
  PROVE  Fifo!Join(t, c)
  <1> DEFINE q == queue[t]
  <1>1. q \in Ring /\ RingOK(q) /\ c \in Slots /\ ~G_SearchSpawnQueue(q, c)
    BY SlotTypes DEF QueuesOK, RingsOK, InQueue
  <1>2. Lines' = [Lines EXCEPT ![t] = LineOf(G_PushSpawnQueue(q, c))]
    BY LinesChange DEF QueuesOK
  <1> HIDE DEF q
  <1>3. LineOf(G_PushSpawnQueue(q, c)) = Append(LineOf(q), c)
    BY <1>1, PushLine
  <1>4. Lines[t] = LineOf(q)
    BY DEF Lines, q
  <1>5. ~Contains(Lines[t], c)
    <2>1. \A i \in 1 .. Len(LineOf(q)) : LineOf(q)[i] \in Members(q)
      BY <1>1, LineShape
    <2>2. c \notin Members(q)
      BY <1>1, InLine
    <2> QED
      BY <1>4, <2>1, <2>2 DEF Contains
  <1>6. Lines' = [Lines EXCEPT ![t] = Append(@, c)]
    BY <1>2, <1>3, <1>4
  <1> QED
    BY <1>5, <1>6 DEF Fifo!Join, Fifo!Contains, Contains, Lines

LEMMA HeadIsServed ==
  ASSUME QueuesOK, NEW t \in Teams, G_GetSpawnQueueLength(queue[t]) > 0,
         queue' = [queue EXCEPT ![t] = G_PopSpawnQueue(@)]
  PROVE  Fifo!Serve(t)
  <1>1. queue[t] \in Ring /\ RingOK(queue[t])
    BY DEF QueuesOK, RingsOK
  <1>2. Lines' = [Lines EXCEPT ![t] = LineOf(G_PopSpawnQueue(queue[t]))]
    BY LinesChange DEF QueuesOK
  <1>3. /\ LineOf(queue[t]) # << >>
        /\ LineOf(G_PopSpawnQueue(queue[t])) = Tail(LineOf(queue[t]))
    BY <1>1, PopLine
  <1>4. Lines[t] = LineOf(queue[t])
    BY DEF Lines
  <1>5. Lines[t] # << >> /\ Lines' = [Lines EXCEPT ![t] = Tail(@)]
    BY <1>2, <1>3, <1>4
  <1> QED
    BY <1>5 DEF Fifo!Serve, Lines

LEMMA StepsOutOfTheLine ==
  ASSUME QueuesOK, NEW t \in Teams, NEW n,
         queue' = [queue EXCEPT ![t] = G_RemoveFromSpawnQueue(@, n)]
  PROVE  \/ UNCHANGED Lines
         \/ \E i \in DOMAIN Lines[t] : Fifo!StepOut(t, i)
  <1> DEFINE p == G_RemoveFromSpawnQueue(queue[t], n)
  <1>1. queue[t] \in Ring /\ RingOK(queue[t])
    BY DEF QueuesOK, RingsOK
  <1>2. Lines' = [Lines EXCEPT ![t] = LineOf(p)]
    BY LinesChange DEF QueuesOK
  <1>3. Lines[t] = LineOf(queue[t])
    BY DEF Lines
  <1> HIDE DEF p
  <1>4. CASE p = queue[t]
    BY <1>2, <1>3, <1>4 DEF Lines
  <1>5. ASSUME NEW i \in 1 .. Len(LineOf(queue[t])),
               LineOf(p) = RemoveAt(LineOf(queue[t]), i)
        PROVE  i \in DOMAIN Lines[t] /\ Fifo!StepOut(t, i)
    <2>1. DOMAIN LineOf(queue[t]) = 1 .. Len(LineOf(queue[t]))
      BY <1>1, LineShape
    <2>2. Lines' = [Lines EXCEPT ![t] = RemoveAt(@, i)]
      BY <1>2, <1>3, <1>5
    <2> QED
      BY <1>3, <2>1, <2>2 DEF Fifo!StepOut, Fifo!RemoveAt, RemoveAt, Lines
  <1>6. \/ p = queue[t]
        \/ \E i \in 1 .. Len(LineOf(queue[t])) :
             LineOf(p) = RemoveAt(LineOf(queue[t]), i)
    BY <1>1, RemoveLine DEF p
  <1> QED
    BY <1>4, <1>5, <1>6

(* The rings implement the lines of SpawnFifo, for every size of the ring  *)
(* - one that all clients fill to the last slot included - and whatever    *)
(* number G_LeaveTeam removes: a step of a handler is a client joining a   *)
(* line at its end, the head being served, one client stepping out, or     *)
(* nothing the lines show.                                                 *)
THEOREM SpawnQueuesAreFifo == Spec => ImplementsFifo
  <1>1. Init => Fifo!Init
    <2>1. LineOf(G_InitSpawnQueue) = << >>
      BY InitRing, FS_EmptySet DEF LineOf
    <2> QED
      BY <2>1 DEF Init, Fifo!Init
  <1>2. QueuesOK /\ ClientsOK /\ [Next]_vars => [Fifo!Next]_Lines
    <2> SUFFICES ASSUME QueuesOK, ClientsOK, [Next]_vars
                 PROVE  Fifo!Next \/ UNCHANGED Lines
      OBVIOUS
    <2>1. ASSUME UNCHANGED queue
          PROVE  UNCHANGED Lines
      BY <2>1 DEF Lines
    <2>2. ASSUME NEW t \in Teams, NEW n,
                 queue' = [queue EXCEPT ![t] = G_RemoveFromSpawnQueue(@, n)]
          PROVE  Fifo!Next \/ UNCHANGED Lines
      <3>1. CASE UNCHANGED Lines
        BY <3>1
      <3>2. ASSUME NEW i \in DOMAIN Lines[t], Fifo!StepOut(t, i)
            PROVE  Fifo!Next
        BY <3>2 DEF Fifo!Next, Lines
      <3> QED
        BY <2>2, <3>1, <3>2, StepsOutOfTheLine
    <2>3. ASSUME NEW c \in Clients, queue' = LeaveQueue(c)
          PROVE  Fifo!Next \/ UNCHANGED Lines
      <3>1. client[c].team \in Teams \cup {NoTeam}
        BY DEF ClientsOK, ClientState
      <3>2. CASE client[c].team = NoTeam
        BY <2>1, <2>3, <3>2 DEF LeaveQueue
      <3>3. CASE client[c].team \in Teams
        BY <2>2, <2>3, <3>3, SpawnQueueAssumption DEF LeaveQueue
      <3> QED
        BY <3>1, <3>2, <3>3
    <2>4. ASSUME NEW c \in Clients, Cmd_Class_f(c)
          PROVE  Fifo!Next \/ UNCHANGED Lines
      <3>1. ASSUME NEW t \in Teams, ~InQueue(t, c),
                   queue' = [queue EXCEPT ![t] = G_PushSpawnQueue(@, c)]
            PROVE  Fifo!Next
        <4>1. Fifo!Join(t, c)
          BY <3>1, JoinsTheLine
        <4> QED
          BY <4>1 DEF Fifo!Next
      <3> QED
        BY <2>1, <2>4, <3>1 DEF Cmd_Class_f
    <2>5. ASSUME NEW c \in Clients, SpectatorAttack(c)
          PROVE  Fifo!Next \/ UNCHANGED Lines
      BY <2>1, <2>2, <2>5 DEF SpectatorAttack
    <2>6. ASSUME NEW t \in Teams, G_SpawnClients(t)
          PROVE  Fifo!Next
      <3>1. Fifo!Serve(t)
        BY <2>6, HeadIsServed DEF G_SpawnClients
      <3> QED
        BY <3>1 DEF Fifo!Next
    <2>7. ASSUME NEW c \in Clients
          PROVE  /\ ClientDisconnect(c) => Fifo!Next \/ UNCHANGED Lines
                 /\ \A t \in Teams \cup {NoTeam} :
                      G_ChangeTeam(c, t) => Fifo!Next \/ UNCHANGED Lines
      BY <2>3, <2>7 DEF ClientDisconnect, G_ChangeTeam
    <2>8. ASSUME NEW c \in Clients
          PROVE  \/ ClientConnect(c) \/ ClientBegin(c)
                 \/ \E d \in Clients : Cmd_Follow_f(c, d)
                 \/ G_ToggleFollow(c)
                 \/ \E dir \in {1, -1} : Cmd_FollowCycle_f(c, dir)
                 \/ SpectatorThink(c) \/ SpectatorClientEndFrame(c) \/ respawn(c)
                 => UNCHANGED queue
      BY DEF ClientConnect, ClientBegin, Cmd_Follow_f, G_ToggleFollow,
             Cmd_FollowCycle_f, SpectatorThink, SpectatorClientEndFrame, respawn
    <2>9. CASE UNCHANGED vars
      BY <2>1, <2>9 DEF vars
    <2> QED
      BY <2>1, <2>4, <2>5, <2>6, <2>7, <2>8, <2>9 DEF Next
  <1>3. Init => QueuesOK /\ ClientsOK
    BY InitRing, InitTypes DEF Init, QueuesOK, RingsOK
  <1> QED
    BY <1>1, <1>2, <1>3, NextQueues, NextTypes, PTL
       DEF Spec, ImplementsFifo, Fifo!Spec, Lines

-----------------------------------------------------------------------------
(* Where nobody follows anybody, ps.clientNum is the client's own number   *)
(* and every call names the client that makes it.                          *)
OwnNumber(c) ==
  /\ client[c].spec # "FOLLOW"
  /\ client[c].connected = "CONNECTED" => client[c].num = c
  /\ client[c].connected = "CONNECTING" => client[c].team = NoTeam

WaitingInv == /\ QueuesOK /\ ClientsOK /\ QueuedIsWaiting
              /\ \A c \in Clients : OwnNumber(c)

Waits(c, t) == /\ Connected(c) /\ client[c].spec # "NOT"
               /\ client[c].team = t /\ client[c].class = t

(* What the queues can tell of a record stays as it was. *)
Same(r, s) == /\ r.connected = s.connected /\ r.team = s.team /\ r.spec = s.spec
              /\ r.num = s.num /\ r.class = s.class

(* Only client c changes, and its place in the queues: it enters one only  *)
(* when it waits there, and leaves one only when it has spawned, has gone  *)
(* or has changed its class.                                               *)
Moves(c) ==
  /\ \A i \in Clients : i # c => Same(client'[i], client[i])
  /\ OwnNumber(c)'
  /\ \A t \in Teams :
       /\ Members(queue'[t]) \ {c} = Members(queue[t]) \ {c}
       /\ c \in Members(queue'[t]) => Waits(c, t)'
       /\ c \in Members(queue[t]) /\ c \notin Members(queue'[t])
            => client'[c].spec = "NOT" \/ client'[c].class # client[c].class

LEMMA MovesKeepsWaiting ==
  ASSUME WaitingInv, NEW c \in Clients, Moves(c)
  PROVE  QueuedIsWaiting' /\ \A i \in Clients : OwnNumber(i)'
  <1>1. ASSUME NEW i \in Clients
        PROVE  OwnNumber(i)'
    <2>1. CASE i = c
      BY <2>1 DEF Moves
    <2>2. CASE i # c
      BY <2>2 DEF Moves, Same, OwnNumber, WaitingInv
    <2> QED
      BY <2>1, <2>2
  <1>2. ASSUME NEW t \in Teams, NEW i \in Members(queue'[t])
        PROVE  Waits(i, t)'
    <2>1. CASE i = c
      BY <1>2, <2>1 DEF Moves
    <2>2. CASE i # c
      <3>1. i \in Members(queue[t])
        BY <1>2, <2>2 DEF Moves
      <3>2. i \in Clients /\ Waits(i, t)
        BY <3>1 DEF WaitingInv, QueuesOK, RingsOK, QueuedIsWaiting, Waits
      <3>3. Same(client'[i], client[i])
        BY <2>2, <3>2 DEF Moves
      <3> QED
        BY <3>2, <3>3 DEF Waits, Same, Connected
    <2> QED
      BY <2>1, <2>2
  <1> QED
    BY <1>1, <1>2 DEF QueuedIsWaiting, Waits, Connected

(* With a slot to spare the length of a ring is the number it holds, so    *)
(* that whoever is in the ring is found, and removed, there.               *)
LEMMA FoundWhereHeld ==
  ASSUME MaxClients < MAX_CLIENTS, NEW q \in Ring, RingOK(q),
         Members(q) \subseteq Clients, NEW c
  PROVE  Members(G_RemoveFromSpawnQueue(q, c)) = Members(q) \ {c}
  <1>1. MAX_CLIENTS - 1 \in Slots /\ MAX_CLIENTS - 1 \notin Clients
    BY RingAssumption, SpawnQueueAssumption DEF Slots, Clients
  <1>2. ~G_SearchSpawnQueue(q, MAX_CLIENTS - 1)
    BY <1>1, InLine
  <1>3. \A s \in Slots : (q.clients[s] # Nobody)
                         <=> Offset(q, s) < G_GetSpawnQueueLength(q)
    BY <1>1, <1>2, RoomForAnother
  <1>4. CASE Finds(q, c)
    BY <1>4, RemoveRing
  <1>5. CASE ~Finds(q, c)
    <2>1. c \notin Members(q)
      BY <1>3, <1>5 DEF Members, Finds, Visited
    <2>2. G_RemoveFromSpawnQueue(q, c) = q
      BY <1>5 DEF G_RemoveFromSpawnQueue
    <2> QED
      BY <2>1, <2>2
  <1> QED
    BY <1>4, <1>5

(* G_LeaveTeam where nobody follows: the leaver, and nobody else, is out   *)
(* of its team's queue, and of the other clients' records only the flag    *)
(* that shows the queue may change.                                        *)
LEMMA LeavingAlone ==
  ASSUME WaitingInv, MaxClients < MAX_CLIENTS, NEW c \in Clients,
         client[c].connected # "DISCONNECTED"
  PROVE  /\ LeaveClients(c) \in [Clients -> ClientState]
         /\ \A i \in Clients : Same(LeaveClients(c)[i], client[i])
         /\ \A t \in Teams : Members(LeaveQueue(c)[t]) = Members(queue[t]) \ {c}
  <1> DEFINE r == client[c]
             cleared == IF Finds(queue[r.team], r.num)
                        THEN [client EXCEPT ![r.num].queued = FALSE] ELSE client
  <1>1. /\ r \in ClientState /\ r.num \in Clients /\ r.team \in Teams \cup {NoTeam}
        /\ r.connected \in {"CONNECTING", "CONNECTED"} /\ r.spec # "FOLLOW"
    BY DEF WaitingInv, ClientsOK, ClientState, OwnNumber
  <1>2. cleared \in [Clients -> ClientState]
    BY <1>1 DEF WaitingInv, ClientsOK, ClientState
  <1>3. \A i \in Clients : Same(cleared[i], client[i])
    BY <1>1 DEF Same, WaitingInv, ClientsOK, ClientState
  <1>4. ASSUME NEW t \in Teams
        PROVE  Members(LeaveQueue(c)[t]) = Members(queue[t]) \ {c}
    <2>1. queue[t] \in Ring /\ RingOK(queue[t]) /\ Members(queue[t]) \subseteq Clients
          /\ queue \in [Teams -> Ring]
      BY DEF WaitingInv, QueuesOK, RingsOK
    <2>2. CASE r.team = t
      <3>1. r.num = c
        BY <1>1, <2>2, SpawnQueueAssumption DEF WaitingInv, OwnNumber
      <3>2. LeaveQueue(c)[t] = G_RemoveFromSpawnQueue(queue[t], c)
        BY <2>1, <2>2, <3>1, SpawnQueueAssumption DEF LeaveQueue
      <3> QED
        BY <2>1, <3>2, FoundWhereHeld
    <2>3. CASE r.team # t
      <3>1. c \notin Members(queue[t])
        BY <2>3 DEF WaitingInv, QueuedIsWaiting
      <3>2. LeaveQueue(c)[t] = queue[t]
        BY <2>1, <2>3 DEF LeaveQueue
      <3> QED
        BY <3>1, <3>2
    <2> QED
      BY <2>2, <2>3
  <1>5. /\ LeaveClients(c) \in [Clients -> ClientState]
        /\ \A i \in Clients : Same(LeaveClients(c)[i], client[i])
    <2>1. CASE r.team = NoTeam
      <3>1. LeaveClients(c) = [client EXCEPT ![c] = r]
        BY <1>1, <2>1 DEF LeaveClients
      <3> QED
        BY <3>1 DEF Same, WaitingInv, ClientsOK
    <2>2. CASE r.team # NoTeam
      <3>1. LeaveClients(c) = G_StopFromFollowing(cleared, c)
        BY <2>2 DEF LeaveClients
      <3>2. \A i \in Clients : cleared[i].spec # "FOLLOW"
        BY <1>3 DEF Same, WaitingInv, OwnNumber
      <3> HIDE DEF cleared
      <3>3. G_StopFromFollowing(cleared, c) = [i \in Clients |-> cleared[i]]
        BY <3>2 DEF G_StopFromFollowing
      <3> QED
        BY <1>2, <1>3, <3>1, <3>3
    <2> QED
      BY <2>1, <2>2
  <1> QED
    BY <1>4, <1>5

(* The client with its own number and not in a queue may change freely. *)
LEMMA MovesOutside ==
  ASSUME WaitingInv, UNCHANGED queue, NEW c \in Clients, OwnNumber(c)',
         \A t \in Teams : c \notin Members(queue[t]),
         \A i \in Clients : i # c => client'[i] = client[i]
  PROVE  Moves(c)
  BY DEF Moves, Same

LEMMA SpawnedRecord ==
  ASSUME NEW r \in ClientState, NEW c, NEW q
  PROVE  /\ ClientSpawn(r, c, q).connected = r.connected
         /\ ClientSpawn(r, c, q).team = r.team
         /\ ClientSpawn(r, c, q).class = r.class
         /\ ClientSpawn(r, c, q).num = c
         /\ r.spec # "FOLLOW" => ClientSpawn(r, c, q).spec # "FOLLOW"
         /\ r.class # NoTeam /\ r.target = -1
              => ClientSpawn(r, c, q).spec = r.spec
  BY DEF ClientSpawn, ClientState

LEMMA WaitingStep ==
  ASSUME WaitingInv, MaxClients < MAX_CLIENTS, Followers = {}, Next, ClientsOK'
  PROVE  \E c \in Clients : Moves(c)
  <1>0. \A c \in Clients : client[c] \in ClientState /\ client'[c] \in ClientState
    BY DEF WaitingInv, ClientsOK
  <1>1. client \in [Clients -> ClientState] /\ queue \in [Teams -> Ring]
    BY DEF WaitingInv, ClientsOK, QueuesOK
  <1>2. \A t \in Teams : RingOK(queue[t]) /\ queue[t] \in Ring
                         /\ Members(queue[t]) \subseteq Clients
    BY DEF WaitingInv, QueuesOK, RingsOK
  <1>3. \A c \in Clients : OwnNumber(c)
    BY DEF WaitingInv
  <1>4. \A t \in Teams : \A c \in Members(queue[t]) :
          /\ client[c].connected = "CONNECTED" /\ client[c].spec # "NOT"
          /\ client[c].team = t /\ client[c].class = t
    BY DEF WaitingInv, QueuedIsWaiting, Connected
  <1>5. NoTeam \notin Teams
    BY SpawnQueueAssumption
  <1>6. ASSUME NEW c \in Clients, ClientConnect(c)
        PROVE  Moves(c)
    <2>1. \A t \in Teams : c \notin Members(queue[t])
      BY <1>4, <1>6 DEF ClientConnect
    <2>2. OwnNumber(c)'
      BY <1>1, <1>6 DEF ClientConnect, OwnNumber
    <2>3. UNCHANGED queue /\ \A i \in Clients : i # c => client'[i] = client[i]
      BY <1>1, <1>6 DEF ClientConnect
    <2> QED
      BY <2>1, <2>2, <2>3, MovesOutside
  <1>7. ASSUME NEW c \in Clients, ClientBegin(c)
        PROVE  Moves(c)
    <2> DEFINE r == [client[c] EXCEPT !.connected = "CONNECTED"]
               s == ClientSpawn(r, c, queue)
    <2>1. \A t \in Teams : c \notin Members(queue[t])
      BY <1>4, <1>7 DEF ClientBegin
    <2>2. r \in ClientState /\ r.connected = "CONNECTED" /\ r.spec # "FOLLOW"
      BY <1>0, <1>3 DEF ClientState, OwnNumber
    <2> HIDE DEF r
    <2>3. s.connected = "CONNECTED" /\ s.num = c /\ s.spec # "FOLLOW"
      BY <2>2, SpawnedRecord
    <2>4. UNCHANGED queue /\ client' = [client EXCEPT ![c] = s]
      BY <1>7 DEF ClientBegin, r
    <2> HIDE DEF s
    <2>5. OwnNumber(c)' /\ \A i \in Clients : i # c => client'[i] = client[i]
      BY <1>1, <2>3, <2>4 DEF OwnNumber
    <2> QED
      BY <2>1, <2>4, <2>5, MovesOutside
  <1>8. ASSUME NEW c \in Clients, ClientDisconnect(c)
        PROVE  Moves(c)
    <2> DEFINE left == LeaveClients(c)
               r == [left[c] EXCEPT !.connected = "DISCONNECTED", !.spec = "NOT"]
    <2>1. /\ left \in [Clients -> ClientState]
          /\ \A i \in Clients : Same(left[i], client[i])
          /\ \A t \in Teams : Members(LeaveQueue(c)[t]) = Members(queue[t]) \ {c}
      BY <1>8, LeavingAlone DEF ClientDisconnect
    <2>2. /\ queue' = LeaveQueue(c)
          /\ client' = [left EXCEPT ![c].connected = "DISCONNECTED", ![c].spec = "NOT"]
      BY <1>8 DEF ClientDisconnect
    <2> HIDE DEF left
    <2>3. client' = [left EXCEPT ![c] = r]
      BY <2>1, <2>2, Zenon
    <2>4. r.connected = "DISCONNECTED" /\ r.spec = "NOT"
      BY <2>1 DEF ClientState
    <2> HIDE DEF r
    <2>5. client'[c] = r /\ \A i \in Clients : i # c => client'[i] = left[i]
      BY <2>1, <2>3
    <2> QED
      BY <2>1, <2>2, <2>4, <2>5 DEF Moves, OwnNumber
  <1>9. ASSUME NEW c \in Clients, NEW t \in Teams \cup {NoTeam}, G_ChangeTeam(c, t)
        PROVE  Moves(c)
    <2> DEFINE left == LeaveClients(c)
               r == [left[c] EXCEPT !.team = t, !.class = NoTeam]
               s == ClientSpawn(r, c, LeaveQueue(c))
    <2>1. /\ left \in [Clients -> ClientState]
          /\ \A i \in Clients : Same(left[i], client[i])
          /\ \A u \in Teams : Members(LeaveQueue(c)[u]) = Members(queue[u]) \ {c}
          /\ client[c].connected = "CONNECTED"
      BY <1>9, LeavingAlone DEF G_ChangeTeam, Connected
    <2>2. queue' = LeaveQueue(c) /\ client' = [left EXCEPT ![c] = s]
      BY <1>9 DEF G_ChangeTeam
    <2> HIDE DEF left
    <2>3. /\ r \in ClientState /\ r.class = NoTeam
          /\ r.connected = "CONNECTED" /\ r.spec # "FOLLOW"
      <3>1. left[c] \in ClientState
        BY <2>1
      <3>2. r \in ClientState
        BY <3>1, FieldTypes, Zenon
      <3>3. left[c].connected = "CONNECTED" /\ left[c].spec # "FOLLOW"
        BY <1>3, <2>1 DEF Same, OwnNumber
      <3> QED
        BY <3>1, <3>2, <3>3 DEF ClientState
    <2> HIDE DEF r
    <2>4. /\ s.class = NoTeam /\ s.num = c /\ s.spec # "FOLLOW"
          /\ s.connected = "CONNECTED"
      BY <2>3, SpawnedRecord
    <2> HIDE DEF s
    <2>5. client'[c] = s /\ \A i \in Clients : i # c => client'[i] = left[i]
      BY <2>1, <2>2
    <2>6. \A u \in Teams : c \in Members(queue[u]) => client[c].class # client'[c].class
      BY <1>4, <1>5, <2>4, <2>5
    <2> QED
      BY <2>1, <2>2, <2>4, <2>5, <2>6 DEF Moves, OwnNumber
  <1>10. ASSUME NEW c \in Clients, Cmd_Class_f(c)
         PROVE  Moves(c)
    <2> DEFINE t == client[c].team
               r == [client[c] EXCEPT !.queued = TRUE, !.class = t]
    <2>1. /\ client[c].spec # "FOLLOW" /\ client[c].spec # "NOT"
          /\ client[c].connected = "CONNECTED" /\ client[c].num = c
      BY <1>3, <1>10 DEF Cmd_Class_f, OwnNumber, Connected
    <2>2. \/ UNCHANGED queue /\ client' = [client EXCEPT ![c] = client[c]]
          \/ /\ t \in Teams /\ queue' = [queue EXCEPT ![t] = G_PushSpawnQueue(@, c)]
             /\ client' = [client EXCEPT ![c] = r]
      BY <1>10, <2>1 DEF Cmd_Class_f
    <2>3. CASE UNCHANGED queue /\ client' = [client EXCEPT ![c] = client[c]]
      <3>1. UNCHANGED client
        BY <1>1, <2>3
      <3> QED
        BY <1>3, <1>4, <2>3, <3>1 DEF Moves, Same, OwnNumber, Waits, Connected
    <2>4. CASE /\ t \in Teams /\ queue' = [queue EXCEPT ![t] = G_PushSpawnQueue(@, c)]
               /\ client' = [client EXCEPT ![c] = r]
      <3> PICK u \in Teams : u = t
        BY <2>4
      <3>1. /\ r.connected = "CONNECTED" /\ r.num = c /\ r.team = u /\ r.class = u
            /\ r.spec # "FOLLOW" /\ r.spec # "NOT"
        BY <1>0, <2>1 DEF ClientState
      <3>2. c \in Slots
        BY SlotTypes
      <3>3. \A v \in Teams : Members(queue'[v]) = IF v = u THEN Members(queue[v]) \cup {c}
                                                  ELSE Members(queue[v])
        BY <1>1, <1>2, <2>4, <3>2, PushRing
      <3>4. \A v \in Teams : c \in Members(queue'[v]) => v = u
        BY <1>4, <3>3
      <3> HIDE DEF r, t
      <3>5. client'[c] = r /\ \A i \in Clients : i # c => client'[i] = client[i]
        BY <1>1, <2>4
      <3>6. OwnNumber(c)' /\ Waits(c, u)'
        BY <3>1, <3>5 DEF OwnNumber, Waits, Connected
      <3> QED
        BY <3>3, <3>4, <3>5, <3>6 DEF Moves, Same
    <2> QED
      BY <2>2, <2>3, <2>4
  <1>11. ASSUME NEW c \in Clients, SpectatorAttack(c)
         PROVE  Moves(c)
    <2> DEFINE t == client[c].team
               r == [client[c] EXCEPT !.class = NoTeam, !.queued = FALSE]
    <2>1. /\ client[c].spec # "FOLLOW"
          /\ client[c].connected = "CONNECTED" /\ client[c].num = c
      BY <1>3, <1>11 DEF SpectatorAttack, OwnNumber, Connected
    <2>2. \/ UNCHANGED queue /\ client' = [client EXCEPT ![c] = client[c]]
          \/ /\ t \in Teams /\ queue' = [queue EXCEPT ![t] = G_RemoveFromSpawnQueue(@, c)]
             /\ client' = [client EXCEPT ![c] = r]
      BY <1>11, <2>1 DEF SpectatorAttack
    <2>3. CASE UNCHANGED queue /\ client' = [client EXCEPT ![c] = client[c]]
      <3>1. UNCHANGED client
        BY <1>1, <2>3
      <3> QED
        BY <1>3, <1>4, <2>3, <3>1 DEF Moves, Same, OwnNumber, Waits, Connected
    <2>4. CASE /\ t \in Teams /\ queue' = [queue EXCEPT ![t] = G_RemoveFromSpawnQueue(@, c)]
               /\ client' = [client EXCEPT ![c] = r]
      <3>1. /\ r.connected = "CONNECTED" /\ r.num = c /\ r.class = NoTeam
            /\ r.spec # "FOLLOW"
        BY <1>0, <2>1 DEF ClientState
      <3>2. \A u \in Teams : Members(queue'[u]) = IF u = t THEN Members(queue[u]) \ {c}
                                                  ELSE Members(queue[u])
        BY <1>1, <1>2, <2>4, FoundWhereHeld
      <3>6. \A u \in Teams : c \in Members(queue[u]) => u = t /\ client[c].class = u
        BY <1>4
      <3> HIDE DEF r, t
      <3>3. client'[c] = r /\ \A i \in Clients : i # c => client'[i] = client[i]
        BY <1>1, <2>4
      <3>4. OwnNumber(c)'
        BY <3>1, <3>3 DEF OwnNumber
      <3>5. \A u \in Teams : /\ c \notin Members(queue'[u])
                             /\ c \in Members(queue[u])
                                  => client'[c].class # client[c].class
        BY <1>5, <3>1, <3>2, <3>3, <3>6
      <3> QED
        BY <3>2, <3>3, <3>4, <3>5 DEF Moves, Same
    <2> QED
      BY <2>2, <2>3, <2>4
  <1>12. ASSUME NEW c \in Clients, SpectatorThink(c)
         PROVE  Moves(c)
    <2>1. client' = [client EXCEPT ![c].queued = TRUE] /\ UNCHANGED queue
      BY <1>12 DEF SpectatorThink
    <2>2. \A i \in Clients : Same(client'[i], client[i])
      BY <1>1, <2>1 DEF Same, ClientState
    <2> QED
      BY <1>3, <1>4, <2>1, <2>2 DEF Moves, Same, OwnNumber, Waits, Connected
  <1>13. ASSUME NEW c \in Clients, respawn(c)
         PROVE  Moves(c)
    <2> DEFINE r    == [client[c] EXCEPT !.class = NoTeam]
               s    == ClientSpawn(r, c, queue)
               dead == [client EXCEPT ![c] = s]
    <2>1. /\ r \in ClientState /\ r.connected = client[c].connected
          /\ r.team = client[c].team /\ r.spec # "FOLLOW"
      BY <1>0, <1>3 DEF ClientState, OwnNumber
    <2> HIDE DEF r
    <2>2. /\ s.connected = client[c].connected /\ s.team = client[c].team
          /\ s.spec # "FOLLOW" /\ s.num = c
      BY <2>1, SpawnedRecord
    <2>3. client' = [i \in Clients |->
            IF dead[i].spec # "FOLLOW" \/ dead[i].target # c THEN dead[i]
            ELSE IF i \in Sticky THEN [dead[i] EXCEPT !.num = c]
            ELSE FollowOrStop(dead, i)]
      BY <1>13 DEF respawn, r
    <2> HIDE DEF s
    <2>4. /\ dead[c] = s /\ \A i \in Clients : i # c => dead[i] = client[i]
          /\ \A i \in Clients : dead[i].spec # "FOLLOW"
      BY <1>1, <1>3, <2>2 DEF OwnNumber
    <2> HIDE DEF dead
    <2>5. \A i \in Clients : client'[i] = dead[i]
      BY <2>3, <2>4
    <2>6. \A t \in Teams : c \notin Members(queue[t])
      BY <1>4, <1>13 DEF respawn
    <2>7. UNCHANGED queue /\ client[c].connected = "CONNECTED"
      BY <1>13 DEF respawn, Connected
    <2>8. client'[c] = s /\ \A i \in Clients : i # c => client'[i] = client[i]
      BY <2>4, <2>5
    <2>9. OwnNumber(c)'
      BY <2>2, <2>7, <2>8 DEF OwnNumber
    <2> QED
      BY <2>6, <2>7, <2>8, <2>9, MovesOutside
  <1>14. ASSUME NEW t \in Teams, G_SpawnClients(t)
         PROVE  \E c \in Clients : Moves(c)
    <2> DEFINE c == G_PeekSpawnQueue(queue[t])
               q == [queue EXCEPT ![t] = G_PopSpawnQueue(@)]
               r == [G_StopFollowing(client[c], c) EXCEPT !.spec = "NOT"]
               s == ClientSpawn(r, c, q)
    <2>1. /\ c \in Members(queue[t]) /\ c \in Clients
          /\ Members(G_PopSpawnQueue(queue[t])) = Members(queue[t]) \ {c}
      BY <1>2, <1>14, PopRing DEF G_SpawnClients
    <2>2. queue' = q /\ client' = [client EXCEPT ![c] = s]
      BY <1>14 DEF G_SpawnClients
    <2> HIDE DEF c
    <2>3. /\ r \in ClientState /\ r.spec = "NOT" /\ r.target = -1
          /\ r.class = client[c].class /\ r.connected = client[c].connected
      <3> DEFINE f == G_StopFollowing(client[c], c)
      <3>1. /\ f \in ClientState /\ f.target = -1 /\ f.class = client[c].class
            /\ f.connected = client[c].connected
        BY <1>0, <2>1, StopFollowingTypes DEF ClientState, G_StopFollowing
      <3>2. r = [f EXCEPT !.spec = "NOT"]
        OBVIOUS
      <3> HIDE DEF f, r
      <3> QED
        BY <3>1, <3>2 DEF ClientState
    <2>4. r.class # NoTeam /\ r.connected = "CONNECTED"
      BY <1>4, <1>5, <2>1, <2>3
    <2> HIDE DEF r, q
    <2>5. s.spec = "NOT" /\ s.num = c /\ s.connected = "CONNECTED"
      BY <2>3, <2>4, SpawnedRecord
    <2> HIDE DEF s
    <2>6. client'[c] = s /\ \A i \in Clients : i # c => client'[i] = client[i]
      BY <1>1, <2>1, <2>2
    <2>7. \A u \in Teams : Members(queue'[u]) = IF u = t THEN Members(queue[u]) \ {c}
                                                ELSE Members(queue[u])
      BY <1>1, <2>1, <2>2 DEF q
    <2>8. \A u \in Teams : c \notin Members(queue'[u])
      BY <1>4, <2>1, <2>7
    <2> QED
      BY <2>1, <2>5, <2>6, <2>7, <2>8 DEF Moves, Same, OwnNumber
  <1>15. ASSUME NEW c \in Clients
         PROVE  /\ \A d \in Clients : ~Cmd_Follow_f(c, d)
                /\ ~G_ToggleFollow(c)
                /\ \A dir \in {1, -1} : ~Cmd_FollowCycle_f(c, dir)
                /\ ~SpectatorClientEndFrame(c)
    BY <1>3 DEF Cmd_Follow_f, G_ToggleFollow, Cmd_FollowCycle_f,
                SpectatorClientEndFrame, OwnNumber
  <1> QED
    BY <1>6, <1>7, <1>8, <1>9, <1>10, <1>11, <1>12, <1>13, <1>14, <1>15 DEF Next

LEMMA SpecWaiting ==
  ASSUME MaxClients < MAX_CLIENTS, Followers = {}
  PROVE  Spec => []WaitingInv
  <1>1. Init => WaitingInv
    <2> SUFFICES ASSUME Init PROVE WaitingInv
      OBVIOUS
    <2>1. QueuesOK /\ ClientsOK
      BY InitRing, InitTypes DEF Init, QueuesOK, RingsOK
    <2>2. QueuedIsWaiting
      BY InitRing DEF Init, QueuedIsWaiting
    <2>3. \A c \in Clients : OwnNumber(c)
      BY DEF Init, OwnNumber
    <2> QED
      BY <2>1, <2>2, <2>3 DEF WaitingInv
  <1>2. WaitingInv /\ [Next]_vars => WaitingInv'
    <2> SUFFICES ASSUME WaitingInv, [Next]_vars PROVE WaitingInv'
      OBVIOUS
    <2>1. QueuesOK' /\ ClientsOK'
      BY NextQueues, NextTypes DEF WaitingInv
    <2>2. CASE Next
      BY <2>1, <2>2, WaitingStep, MovesKeepsWaiting DEF WaitingInv
    <2>3. CASE UNCHANGED vars
      <3>1. QueuedIsWaiting' /\ \A c \in Clients : OwnNumber(c)'
        BY <2>3 DEF WaitingInv, QueuedIsWaiting, OwnNumber, Connected, vars
      <3> QED
        BY <2>1, <3>1 DEF WaitingInv
    <2> QED
      BY <2>2, <2>3
  <1> QED
    BY <1>1, <1>2, PTL DEF Spec

(* Whoever stands in a team's queue is a connected member of that team who *)
(* has chosen one of its classes and is not playing - on every server with *)
(* a client slot less than MAX_CLIENTS, as long as nobody uses the follow  *)
(* commands.  Both conditions are needed: a follower may leave a team in   *)
(* somebody else's name (the run SpawnQueueStale), and nobody is found in  *)
(* a ring whose every slot is taken, since its length reads 0.             *)
THEOREM QueuedAreWaiting ==
  ASSUME MaxClients < MAX_CLIENTS, Followers = {}
  PROVE  Spec => []QueuedIsWaiting
  <1>1. WaitingInv => QueuedIsWaiting
    BY DEF WaitingInv
  <1> QED
    BY <1>1, SpecWaiting, PTL

(* Nobody loses a place in a queue behind its back: who leaves a queue has *)
(* spawned, has gone or has given up its class or team.                    *)
THEOREM QueuesAreLeftKnowingly ==
  ASSUME MaxClients < MAX_CLIENTS, Followers = {}
  PROVE  Spec => LeavesKnowingly
  <1>1. WaitingInv /\ WaitingInv' /\ [Next]_vars =>
          [\A t \in Teams : \A c \in Members(queue[t]) \ Members(queue'[t]) :
             \/ client'[c].spec = "NOT"
             \/ client'[c].class # client[c].class]_vars
    <2> SUFFICES ASSUME WaitingInv, WaitingInv', Next,
                        NEW t \in Teams, NEW c \in Members(queue[t]) \ Members(queue'[t])
                 PROVE  \/ client'[c].spec = "NOT"
                        \/ client'[c].class # client[c].class
      OBVIOUS
    <2>1. PICK m \in Clients : Moves(m)
      BY WaitingStep DEF WaitingInv
    <2>2. c = m
      BY <2>1 DEF Moves
    <2> QED
      BY <2>1, <2>2 DEF Moves
  <1> QED
    BY <1>1, SpecWaiting, PTL DEF Spec, LeavesKnowingly

-----------------------------------------------------------------------------
(* Only a full ring hides the clients in it: there the length reads 0 and  *)
(* nobody is removed, elsewhere exactly the client asked for.              *)
LEMMA RemovedUnlessFull ==
  ASSUME NEW q \in Ring, RingOK(q), NEW c
  PROVE  Members(G_RemoveFromSpawnQueue(q, c)) =
           IF Full(q) THEN Members(q) ELSE Members(q) \ {c}
  <1>1. CASE Full(q)
    <2>1. MAX_CLIENTS - 1 \in Slots
      BY RingAssumption DEF Slots
    <2>2. /\ Place(q, MAX_CLIENTS - 1) \in Slots
          /\ Offset(q, Place(q, MAX_CLIENTS - 1)) = MAX_CLIENTS - 1
      BY <2>1, Places
    <2>3. G_GetSpawnQueueLength(q) \in Slots
      BY RingShape
    <2>4. G_GetSpawnQueueLength(q) = 0
      BY <1>1, <2>2, <2>3, RingAssumption DEF RingOK, Full, Slots
    <2>5. \A s \in Slots : Offset(q, s) \in Slots
      BY RingShape
    <2>6. Visited(q) = {}
      BY <2>4, <2>5, RingAssumption DEF Visited, Slots
    <2>7. G_RemoveFromSpawnQueue(q, c) = q
      BY <2>6 DEF G_RemoveFromSpawnQueue, Finds
    <2> QED
      BY <1>1, <2>7
  <1>2. CASE ~Full(q)
    <2>1. \A s \in Slots : (q.clients[s] # Nobody)
                           <=> Offset(q, s) < G_GetSpawnQueueLength(q)
      BY <1>2 DEF RingOK, Full
    <2>2. CASE Finds(q, c)
      BY <1>2, <2>2, RemoveRing
    <2>3. CASE ~Finds(q, c)
      <3>1. c \notin Members(q)
        BY <2>1, <2>3 DEF Members, Finds, Visited
      <3>2. G_RemoveFromSpawnQueue(q, c) = q
        BY <2>3 DEF G_RemoveFromSpawnQueue
      <3> QED
        BY <1>2, <3>1, <3>2
    <2> QED
      BY <2>2, <2>3
  <1> QED
    BY <1>1, <1>2

(* ps.clientNum is another's only while the client follows, and only those *)
(* who have begun have a team.                                             *)
OwnView(r, c) ==
  /\ r.connected = "CONNECTED" /\ r.spec # "FOLLOW" => r.num = c
  /\ r.connected = "CONNECTING" => r.team = NoTeam

(* The record s is r after some follow command: team and connection stay,  *)
(* and the number is its own again when the client does not follow.        *)
Follows(r, s, c) ==
  /\ s.team = r.team /\ s.connected = r.connected
  /\ OwnView(r, c) => OwnView(s, c)

LEMMA StopFollows ==
  ASSUME NEW r \in ClientState, NEW c \in Clients
  PROVE  Follows(r, G_StopFollowing(r, c), c)
  BY DEF G_StopFollowing, ClientState, Follows, OwnView

LEMMA NextFollows ==
  ASSUME NEW cl \in [Clients -> ClientState], NEW i \in Clients, NEW dir
  PROVE  Follows(cl[i], FollowNext(cl, i, dir), i)
  <1> DEFINE r == cl[i]
  <1>1. r \in ClientState
    OBVIOUS
  <1>2. \E d, n : FollowNext(cl, i, dir) =
                    [r EXCEPT !.target = d, !.spec = "FOLLOW", !.num = n]
    BY DEF FollowNext
  <1>3. PICK d, n : FollowNext(cl, i, dir) =
                      [r EXCEPT !.target = d, !.spec = "FOLLOW", !.num = n]
    BY <1>2
  <1> HIDE DEF r
  <1>4. Follows(r, FollowNext(cl, i, dir), i)
    BY <1>1, <1>3 DEF ClientState, Follows, OwnView
  <1> QED
    BY <1>4 DEF r

LEMMA FollowOrStopFollows ==
  ASSUME NEW cl \in [Clients -> ClientState], NEW i \in Clients
  PROVE  Follows(cl[i], FollowOrStop(cl, i), i)
  BY NextFollows, StopFollows DEF FollowOrStop

LEMMA StopFromFollows ==
  ASSUME NEW cl \in [Clients -> ClientState], NEW c, NEW i \in Clients
  PROVE  Follows(cl[i], G_StopFromFollowing(cl, c)[i], i)
  <1>1. \/ G_StopFromFollowing(cl, c)[i] = FollowOrStop(cl, i)
        \/ G_StopFromFollowing(cl, c)[i] = cl[i]
    BY DEF G_StopFromFollowing
  <1>2. Follows(cl[i], cl[i], i)
    BY DEF Follows
  <1> QED
    BY <1>1, <1>2, FollowOrStopFollows

(* G_LeaveTeam changes what everybody looks at and no more. *)
LEMMA LeavingFollows ==
  ASSUME ClientsOK, NEW c \in Clients, NEW i \in Clients
  PROVE  Follows(client[i], LeaveClients(c)[i], i)
  <1> DEFINE r == client[c]
             cleared == IF Finds(queue[r.team], r.num)
                        THEN [client EXCEPT ![r.num].queued = FALSE] ELSE client
  <1>1. r \in ClientState /\ r.num \in Clients /\ client[i] \in ClientState
    BY DEF ClientsOK, ClientState
  <1>2. cleared \in [Clients -> ClientState]
    BY <1>1 DEF ClientsOK, ClientState
  <1>3. Follows(client[i], cleared[i], i)
    BY <1>1 DEF Follows, OwnView, ClientsOK, ClientState
  <1>4. CASE r.team = NoTeam
    <2>1. \/ LeaveClients(c)[i] = client[i]
          \/ i = c /\ LeaveClients(c)[i] = G_StopFollowing(client[c], c)
      BY <1>4 DEF LeaveClients, ClientsOK
    <2>2. Follows(client[i], client[i], i)
      BY DEF Follows
    <2> QED
      BY <1>1, <2>1, <2>2, StopFollows
  <1>5. CASE r.team # NoTeam
    <2>1. LeaveClients(c) = G_StopFromFollowing(cleared, c)
      BY <1>5 DEF LeaveClients
    <2> HIDE DEF cleared
    <2>2. Follows(cleared[i], LeaveClients(c)[i], i)
      BY <1>2, <2>1, StopFromFollows
    <2> QED
      BY <1>3, <2>2 DEF Follows
  <1> QED
    BY <1>4, <1>5

ViewInv == /\ QueuesOK /\ ClientsOK
           /\ \A c \in Clients : OwnView(client[c], c)

(* What one step does to a client's team: nothing, unless the client is    *)
(* only now connecting, or the step is the client's own G_LeaveTeam.       *)
Remains(c) ==
  \/ client[c].connected = "DISCONNECTED"
  \/ /\ client'[c].team = client[c].team
     /\ client'[c].connected # "DISCONNECTED"
  \/ queue' = LeaveQueue(c)

LEMMA SpawnFollows ==
  ASSUME NEW r \in ClientState, NEW c, NEW q
  PROVE  /\ Follows(r, ClientSpawn(r, c, q), c)
         /\ r.connected = "CONNECTED" => OwnView(ClientSpawn(r, c, q), c)
  BY SpawnedRecord DEF Follows, OwnView

LEMMA FollowsRemains ==
  ASSUME NEW i \in Clients, OwnView(client[i], i),
         Follows(client[i], client'[i], i)
  PROVE  OwnView(client'[i], i) /\ Remains(i)
  BY DEF Follows, Remains

LEMMA ViewStep ==
  ASSUME ViewInv, Next, NEW i \in Clients
  PROVE  OwnView(client'[i], i) /\ Remains(i)
  <1>1. /\ \A c \in Clients : client[c] \in ClientState
        /\ client \in [Clients -> ClientState]
        /\ \A c \in Clients : OwnView(client[c], c)
    BY DEF ViewInv, ClientsOK
  <1>2. ASSUME NEW c \in Clients, NEW r, Follows(client[c], r, c),
               client' = [client EXCEPT ![c] = r]
        PROVE  OwnView(client'[i], i) /\ Remains(i)
    <2>1. client'[i] = IF i = c THEN r ELSE client[i]
      BY <1>1, <1>2
    <2>2. Follows(client[i], client[i], i)
      BY DEF Follows
    <2>3. Follows(client[i], client'[i], i)
      BY <1>2, <2>1, <2>2
    <2> QED
      BY <1>1, <2>3, FollowsRemains
  <1>3. ASSUME NEW c \in Clients, ClientConnect(c)
        PROVE  OwnView(client'[i], i) /\ Remains(i)
    <2> DEFINE r == [connected |-> "CONNECTING", team |-> NoTeam, spec |-> "FREE",
                     target |-> -1, num |-> 0, queued |-> FALSE, class |-> NoTeam]
    <2>1. client'[i] = IF i = c THEN r ELSE client[i]
      BY <1>1, <1>3 DEF ClientConnect
    <2>2. OwnView(r, c)
      BY DEF OwnView
    <2>3. client[c].connected = "DISCONNECTED"
      BY <1>3 DEF ClientConnect
    <2> HIDE DEF r
    <2>4. Follows(client[i], client[i], i)
      BY DEF Follows
    <2> QED
      BY <1>1, <2>1, <2>2, <2>3, <2>4, FollowsRemains DEF Remains
  <1>4. ASSUME NEW c \in Clients, ClientBegin(c)
        PROVE  OwnView(client'[i], i) /\ Remains(i)
    <2> DEFINE r == [client[c] EXCEPT !.connected = "CONNECTED"]
    <2>1. r \in ClientState /\ r.connected = "CONNECTED" /\ r.team = client[c].team
      BY <1>1 DEF ClientState
    <2>2. client' = [client EXCEPT ![c] = ClientSpawn(r, c, queue)]
      BY <1>4 DEF ClientBegin
    <2> HIDE DEF r
    <2>3. /\ OwnView(ClientSpawn(r, c, queue), c)
          /\ ClientSpawn(r, c, queue).team = client[c].team
          /\ ClientSpawn(r, c, queue).connected = "CONNECTED"
      BY <2>1, SpawnFollows, SpawnedRecord
    <2>4. client'[i] = IF i = c THEN ClientSpawn(r, c, queue) ELSE client[i]
      BY <1>1, <2>2
    <2>5. Follows(client[i], client[i], i)
      BY DEF Follows
    <2> QED
      BY <1>1, <2>3, <2>4, <2>5, FollowsRemains DEF Remains
  <1>5. ASSUME NEW c \in Clients, ClientDisconnect(c)
        PROVE  OwnView(client'[i], i) /\ Remains(i)
    <2> DEFINE left == LeaveClients(c)
    <2>1. left \in [Clients -> ClientState]
      BY LeaveClientsTypes DEF ViewInv
    <2>2. client' = [left EXCEPT ![c].connected = "DISCONNECTED", ![c].spec = "NOT"]
      BY <1>5 DEF ClientDisconnect
    <2>3. Follows(client[i], left[i], i)
      BY LeavingFollows DEF ViewInv
    <2>4. queue' = LeaveQueue(c)
      BY <1>5 DEF ClientDisconnect
    <2> HIDE DEF left
    <2>5. CASE i = c
      <3>1. client'[i] = [left[i] EXCEPT !.connected = "DISCONNECTED", !.spec = "NOT"]
        BY <2>1, <2>2, <2>5, Zenon
      <3>2. client'[i].connected = "DISCONNECTED"
        BY <2>1, <3>1 DEF ClientState
      <3> QED
        BY <2>4, <2>5, <3>2 DEF OwnView, Remains
    <2>6. CASE i # c
      <3>1. client'[i] = left[i]
        BY <2>1, <2>2, <2>6
      <3> QED
        BY <1>1, <2>3, <3>1, FollowsRemains
    <2> QED
      BY <2>5, <2>6
  <1>6. ASSUME NEW c \in Clients, NEW t \in Teams \cup {NoTeam}, G_ChangeTeam(c, t)
        PROVE  OwnView(client'[i], i) /\ Remains(i)
    <2> DEFINE left == LeaveClients(c)
               r == [left[c] EXCEPT !.team = t, !.class = NoTeam]
    <2>1. left \in [Clients -> ClientState]
      BY LeaveClientsTypes DEF ViewInv
    <2>2. client' = [left EXCEPT ![c] = ClientSpawn(r, c, LeaveQueue(c))]
      BY <1>6 DEF G_ChangeTeam
    <2>3. \A j \in Clients : Follows(client[j], left[j], j)
      BY LeavingFollows DEF ViewInv
    <2>4. queue' = LeaveQueue(c) /\ client[c].connected = "CONNECTED"
      BY <1>6 DEF G_ChangeTeam, Connected
    <2> HIDE DEF left
    <2>5. left[c] \in ClientState /\ left[c].connected = "CONNECTED"
      BY <2>1, <2>3, <2>4 DEF Follows
    <2>6. r \in ClientState
      BY <2>5, FieldTypes, Zenon
    <2>7. r.connected = "CONNECTED"
      BY <2>5 DEF ClientState
    <2> HIDE DEF r
    <2>8. OwnView(ClientSpawn(r, c, LeaveQueue(c)), c)
      BY <2>6, <2>7, SpawnFollows
    <2>9. client'[i] = IF i = c THEN ClientSpawn(r, c, LeaveQueue(c)) ELSE left[i]
      BY <2>1, <2>2
    <2>10. CASE i = c
      BY <2>4, <2>8, <2>9, <2>10 DEF Remains
    <2>11. CASE i # c
      BY <1>1, <2>3, <2>9, <2>11, FollowsRemains
    <2> QED
      BY <2>10, <2>11
  <1>7. ASSUME NEW c \in Clients, \/ Cmd_Class_f(c) \/ SpectatorAttack(c)
        PROVE  OwnView(client'[i], i) /\ Remains(i)
    <2> DEFINE t == client[c].team
               r == IF client[c].spec = "FOLLOW" THEN G_StopFollowing(client[c], c)
                    ELSE client[c]
    <2>1. r \in ClientState
      BY <1>1, StopFollowingTypes
    <2>2. Follows(client[c], r, c)
      BY <1>1, StopFollows DEF Follows
    <2>3. \/ client' = [client EXCEPT ![c] = r]
          \/ client' = [client EXCEPT ![c] = [r EXCEPT !.queued = TRUE, !.class = t]]
          \/ client' = [client EXCEPT ![c] = [r EXCEPT !.class = NoTeam, !.queued = FALSE]]
      BY <1>7 DEF Cmd_Class_f, SpectatorAttack
    <2> HIDE DEF r, t
    <2>4. /\ Follows(client[c], [r EXCEPT !.queued = TRUE, !.class = t], c)
          /\ Follows(client[c], [r EXCEPT !.class = NoTeam, !.queued = FALSE], c)
      BY <2>1, <2>2 DEF Follows, OwnView, ClientState
    <2> QED
      BY <1>2, <2>2, <2>3, <2>4
  <1>8. ASSUME NEW c \in Clients, NEW d \in Clients, Cmd_Follow_f(c, d)
        PROVE  OwnView(client'[i], i) /\ Remains(i)
    <2> DEFINE r == [client[c] EXCEPT !.spec = "FOLLOW", !.target = d]
    <2>1. client' = [client EXCEPT ![c].spec = "FOLLOW", ![c].target = d]
      BY <1>8 DEF Cmd_Follow_f
    <2>2. client' = [client EXCEPT ![c] = r]
      BY <1>1, <2>1, Zenon
    <2>3. Follows(client[c], r, c)
      BY <1>1 DEF Follows, OwnView, ClientState
    <2> HIDE DEF r
    <2> QED
      BY <1>2, <2>2, <2>3
  <1>9. ASSUME NEW c \in Clients,
               \/ G_ToggleFollow(c)
               \/ \E dir \in {1, -1} : Cmd_FollowCycle_f(c, dir)
        PROVE  OwnView(client'[i], i) /\ Remains(i)
    <2>1. CASE G_ToggleFollow(c)
      BY <1>1, <1>2, <2>1, StopFollows DEF G_ToggleFollow
    <2>2. ASSUME NEW dir \in {1, -1}, Cmd_FollowCycle_f(c, dir)
          PROVE  OwnView(client'[i], i) /\ Remains(i)
      BY <1>1, <1>2, <2>2, NextFollows DEF Cmd_FollowCycle_f
    <2> QED
      BY <1>9, <2>1, <2>2
  <1>10. ASSUME NEW c \in Clients, SpectatorThink(c)
         PROVE  OwnView(client'[i], i) /\ Remains(i)
    <2>1. client' = [client EXCEPT ![c] = [client[c] EXCEPT !.queued = TRUE]]
      BY <1>10 DEF SpectatorThink
    <2>2. Follows(client[c], [client[c] EXCEPT !.queued = TRUE], c)
      BY <1>1 DEF Follows, OwnView, ClientState
    <2> QED
      BY <1>2, <2>1, <2>2
  <1>11. ASSUME NEW c \in Clients, SpectatorClientEndFrame(c)
         PROVE  OwnView(client'[i], i) /\ Remains(i)
    <2> DEFINE n == client[client[c].target].num
               r == [client[c] EXCEPT !.num = n, !.queued = FALSE]
    <2>1. client' = [client EXCEPT ![c].num = n, ![c].queued = FALSE]
      BY <1>11 DEF SpectatorClientEndFrame
    <2>2. client' = [client EXCEPT ![c] = r]
      BY <1>1, <2>1, Zenon
    <2>3. client[c].spec = "FOLLOW" /\ client[c].connected = "CONNECTED"
      BY <1>11 DEF SpectatorClientEndFrame, Connected
    <2> HIDE DEF n
    <2>4. Follows(client[c], r, c)
      BY <1>1, <2>3 DEF Follows, OwnView, ClientState
    <2> HIDE DEF r
    <2> QED
      BY <1>2, <2>2, <2>4
  <1>12. ASSUME NEW c \in Clients, respawn(c)
         PROVE  OwnView(client'[i], i) /\ Remains(i)
    <2> DEFINE r    == ClientSpawn([client[c] EXCEPT !.class = NoTeam], c, queue)
               dead == [client EXCEPT ![c] = r]
    <2>1. /\ [client[c] EXCEPT !.class = NoTeam] \in ClientState
          /\ Follows(client[c], [client[c] EXCEPT !.class = NoTeam], c)
      BY <1>1 DEF ClientState, Follows, OwnView
    <2>2. r \in ClientState /\ Follows(client[c], r, c)
      BY <2>1, ClientSpawnTypes, SpawnFollows DEF Follows
    <2>3. client' = [j \in Clients |->
            IF dead[j].spec # "FOLLOW" \/ dead[j].target # c THEN dead[j]
            ELSE IF j \in Sticky THEN [dead[j] EXCEPT !.num = c]
            ELSE FollowOrStop(dead, j)]
      BY <1>12 DEF respawn
    <2> HIDE DEF r
    <2>4. dead \in [Clients -> ClientState]
      BY <1>1, <2>2
    <2>5. Follows(client[i], dead[i], i)
      <3>1. Follows(client[i], client[i], i)
        BY DEF Follows
      <3> QED
        BY <1>1, <2>2, <3>1
    <2> HIDE DEF dead
    <2>6. \/ client'[i] = dead[i]
          \/ client'[i] = FollowOrStop(dead, i)
          \/ dead[i].spec = "FOLLOW" /\ client'[i] = [dead[i] EXCEPT !.num = c]
      BY <2>3
    <2>7. Follows(dead[i], FollowOrStop(dead, i), i)
      BY <2>4, FollowOrStopFollows
    <2>8. dead[i].spec = "FOLLOW" => Follows(dead[i], [dead[i] EXCEPT !.num = c], i)
      BY <2>4 DEF ClientState, Follows, OwnView
    <2>9. Follows(client[i], client'[i], i)
      BY <2>5, <2>6, <2>7, <2>8 DEF Follows
    <2> QED
      BY <1>1, <2>9, FollowsRemains
  <1>13. ASSUME NEW t \in Teams, G_SpawnClients(t)
         PROVE  OwnView(client'[i], i) /\ Remains(i)
    <2> DEFINE c == G_PeekSpawnQueue(queue[t])
               f == G_StopFollowing(client[c], c)
               r == [f EXCEPT !.spec = "NOT"]
               q == [queue EXCEPT ![t] = G_PopSpawnQueue(@)]
    <2>1. c \in Clients
      BY <1>13, PopRing DEF G_SpawnClients, ViewInv, QueuesOK, RingsOK
    <2>2. client' = [client EXCEPT ![c] = ClientSpawn(r, c, q)]
      BY <1>13 DEF G_SpawnClients
    <2> HIDE DEF c, q
    <2>3. /\ f \in ClientState /\ f.num = c /\ Follows(client[c], f, c)
      BY <1>1, <2>1, StopFollowingTypes, StopFollows DEF G_StopFollowing, ClientState
    <2> HIDE DEF f
    <2>4. r \in ClientState /\ Follows(client[c], r, c)
      BY <2>3 DEF ClientState, Follows, OwnView
    <2> HIDE DEF r
    <2>5. Follows(client[c], ClientSpawn(r, c, q), c)
      BY <2>4, SpawnFollows DEF Follows
    <2> QED
      BY <1>2, <2>1, <2>2, <2>5
  <1> QED
    BY <1>3, <1>4, <1>5, <1>6, <1>7, <1>8, <1>9, <1>10, <1>11, <1>12, <1>13 DEF Next

LEMMA SpecView == Spec => []ViewInv
  <1>1. Init => ViewInv
    <2> SUFFICES ASSUME Init PROVE ViewInv
      OBVIOUS
    <2>1. QueuesOK /\ ClientsOK
      BY InitRing, InitTypes DEF Init, QueuesOK, RingsOK
    <2>2. \A c \in Clients : OwnView(client[c], c)
      BY DEF Init, OwnView
    <2> QED
      BY <2>1, <2>2 DEF ViewInv
  <1>2. ViewInv /\ [Next]_vars => ViewInv'
    <2> SUFFICES ASSUME ViewInv, [Next]_vars PROVE ViewInv'
      OBVIOUS
    <2>1. QueuesOK' /\ ClientsOK'
      BY NextQueues, NextTypes DEF ViewInv
    <2>2. ASSUME NEW c \in Clients
          PROVE  OwnView(client'[c], c)
      <3>1. CASE Next
        BY <3>1, ViewStep
      <3>2. CASE UNCHANGED vars
        BY <3>2 DEF vars, ViewInv
      <3> QED
        BY <3>1, <3>2
    <2> QED
      BY <2>1, <2>2 DEF ViewInv
  <1> QED
    BY <1>1, <1>2, PTL DEF Spec

(* Whoever leaves a team or the server, and whoever it follows: the number *)
(* in its ps, and no other, is taken out of its team's queue, unless every *)
(* slot is taken; and that number is its own, save while it follows.  So a *)
(* leaver stays in the queue only while it follows, carrying another's     *)
(* number - the run SpawnQueueStale shows it - or where the ring is full.  *)
THEOREM LeaversAreRemoved == Spec => LeaverIsRemovedByNumber
  <1> DEFINE Leaves(c) == /\ client[c].team \in Teams
                          /\ client[c].connected # "DISCONNECTED"
                          /\ \/ client'[c].team # client[c].team
                             \/ client'[c].connected = "DISCONNECTED"
             Named(c) ==
               /\ Members(queue'[client[c].team]) =
                    IF \A s \in Slots : queue[client[c].team].clients[s] # Nobody
                    THEN Members(queue[client[c].team])
                    ELSE Members(queue[client[c].team]) \ {client[c].num}
               /\ client[c].spec # "FOLLOW" => client[c].num = c
  <1>1. ASSUME ViewInv, Next, NEW c \in Clients, Leaves(c)
        PROVE  Named(c)
    <2> DEFINE t == client[c].team
    <2>1. Remains(c) /\ OwnView(client[c], c) /\ client[c] \in ClientState
      BY <1>1, ViewStep DEF ViewInv, ClientsOK
    <2>2. queue' = LeaveQueue(c)
      BY <1>1, <2>1 DEF Remains
    <2>3. /\ queue \in [Teams -> Ring] /\ t \in Teams /\ t # NoTeam
          /\ queue[t] \in Ring /\ RingOK(queue[t])
      BY <1>1, SpawnQueueAssumption DEF ViewInv, QueuesOK, RingsOK
    <2>4. queue'[t] = G_RemoveFromSpawnQueue(queue[t], client[c].num)
      BY <2>2, <2>3 DEF LeaveQueue
    <2>5. client[c].spec # "FOLLOW" => client[c].num = c
      BY <1>1, <2>1, SpawnQueueAssumption DEF OwnView, ClientState
    <2>6. Members(queue'[t]) = IF Full(queue[t]) THEN Members(queue[t])
                               ELSE Members(queue[t]) \ {client[c].num}
      BY <2>3, <2>4, RemovedUnlessFull
    <2> QED
      BY <2>5, <2>6 DEF Full
  <1>2. ASSUME ViewInv, UNCHANGED vars, NEW c \in Clients
        PROVE  ~Leaves(c)
    BY <1>2 DEF vars
  <1>3. ViewInv /\ [Next]_vars =>
          [\A c \in Clients :
             LET t == client[c].team
             IN  /\ t \in Teams
                 /\ client[c].connected # "DISCONNECTED"
                 /\ client'[c].team # t \/ client'[c].connected = "DISCONNECTED"
                 => /\ Members(queue'[t]) =
                         IF \A s \in Slots : queue[t].clients[s] # Nobody
                         THEN Members(queue[t])
                         ELSE Members(queue[t]) \ {client[c].num}
                    /\ client[c].spec # "FOLLOW" => client[c].num = c]_vars
    BY <1>1, <1>2
  <1> QED
    BY <1>3, SpecView, PTL DEF Spec, LeaverIsRemovedByNumber
=============================================================================

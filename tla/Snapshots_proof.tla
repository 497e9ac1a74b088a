--------------------------- MODULE Snapshots_proof ---------------------------
(***************************************************************************)
(* Proofs about the snapshots, for rings of every size and any number of   *)
(* messages, entities and levels.                                          *)
(*                                                                         *)
(* A delta is made against what the client has because a snapshot that was *)
(* once asked for stays in the client's ring until PACKET_BACKUP numbers   *)
(* have gone by (Held), and the server does not make a delta that far      *)
(* back.  A new level empties the ring: what was asked for in an old one   *)
(* must not be taken for a snapshot of the new one, which the levels of    *)
(* the messages under way show (DownOK, UpOK).                             *)
(*                                                                         *)
(* cgame reads what the server built (ReadIsBuilt) for three reasons.  The *)
(* server's frames are the views they were built of, as far as its ring    *)
(* still has them (Recorded), so that the changes it sends are those       *)
(* between two views (Tells).  The client's valid snapshots are the views  *)
(* they were read for, as far as its ring still has them (Intact).  And    *)
(* CL_ParsePacketEntities makes the one of the other: after every turn of  *)
(* its loop i entities of the base are done with and j of the new view are *)
(* written, and what is left of both and of the changes lies behind them   *)
(* (Merged).  The loop writes to the ring it reads from.  It never writes  *)
(* over an entity it has still to read as long as no more than MARGIN new  *)
(* entities come ahead of one that was there before, which is what fits    *)
(* says of a snapshot, and nothing is said of one that does not fit.       *)
(* cgame asks for a snapshot by its number and takes what is in its place: *)
(* a valid one there is of the last PACKET_BACKUP numbers (Numbered), for  *)
(* the places of the skipped ones have been cleared.                       *)
(***************************************************************************)
EXTENDS Snapshots, Lemmas_proof

(* The client has read the snapshot numbered n, in this level, and keeps   *)
(* it for as long as its ring is long.                                     *)
Held(n) == /\ n \in 1 .. snap
           /\ snap - n < PACKET_BACKUP => Has(snapshots[PacketMask(n)], n)

NumbersOK ==
  /\ outgoingSequence \in Nat /\ serverMessageSequence \in Nat /\ snap \in Nat
  /\ serverMessageSequence < outgoingSequence /\ snap <= serverMessageSequence
  /\ deltaMessage \in Int /\ gamestateMessageNum \in Nat
  /\ level \in Nat /\ serverId \in Nat /\ level <= serverId
  /\ snapshots = [s \in 0 .. (PACKET_BACKUP - 1) |-> snapshots[s]]

(* What is under way to the client is newer than what it has read; a       *)
(* gamestate is of a later level than the client's, a snapshot of the      *)
(* client's.                                                               *)
DownOK(msg) ==
  /\ msg.sequence \in Nat /\ msg.serverId \in Nat
  /\ serverMessageSequence < msg.sequence /\ msg.sequence < outgoingSequence
  /\ msg.serverId <= serverId
  /\ msg.kind # "snapshot" => msg.lastframe = 0
  /\ msg.kind = "gamestate" => level < msg.serverId /\ msg.sequence = gamestateMessageNum
  /\ msg.kind = "snapshot" => /\ msg.serverId = level
                              /\ msg.lastframe \in Nat
                              /\ msg.lastframe > 0 =>
                                   /\ msg.lastframe < PACKET_BACKUP - KEEP
                                   /\ Held(msg.sequence - msg.lastframe)

(* What is under way to the server acknowledges what the client has read,  *)
(* and asks for a delta to what it holds.  Once the client is in the       *)
(* server's level, no message from an older one looks like a lost gamestate. *)
UpOK(msg) ==
  /\ msg.ack \in Nat /\ msg.serverId \in Nat /\ msg.delta \in BOOLEAN
  /\ msg.ack <= serverMessageSequence /\ msg.serverId <= level
  /\ msg.serverId = level /\ msg.delta => Held(msg.ack)
  /\ level = serverId /\ msg.serverId # serverId => msg.ack <= gamestateMessageNum

ActiveOK ==
  /\ state \in {"connected", "primed", "active"}
  /\ state = "active" => level = serverId
  /\ state = "active" /\ deltaMessage > 0 => Held(deltaMessage)

IInv ==
  /\ NumbersOK
  /\ snap # 0 => Held(snap)
  /\ ActiveOK
  /\ down = <<>> \/ \E msg : down = <<msg>> /\ DownOK(msg)
  /\ up = <<>> \/ \E msg : up = <<msg>> /\ UpOK(msg)

-----------------------------------------------------------------------------
(* What the client holds.                                                  *)

(* It holds it as long as it stores nothing. *)
LEMMA HeldUnchanged ==
  ASSUME NEW n, Held(n), UNCHANGED <<snap, snapshots>>
  PROVE  Held(n)'
  BY DEF Held

(* What a snapshot that comes does to those the client holds: it is not    *)
(* used, or stored in its place and those of the messages between are      *)
(* invalid.                                                                *)
LEMMA Stored ==
  ASSUME NEW msg, CL_ParseSnapshot(msg)
  PROVE  \/ UNCHANGED <<snap, snapshots>>
         \/ /\ snap' = msg.sequence
            /\ \E new : /\ new.valid = TRUE /\ new.messageNum = msg.sequence
                        /\ snapshots' = [s \in DOMAIN snapshots |->
                             IF s = PacketMask(msg.sequence) THEN new
                             ELSE IF s \in Skipped(msg.sequence) THEN Unread(snapshots[s])
                             ELSE snapshots[s]]
<1>. DEFINE num == CL_ParsePacketEntities(msg.changes,
                     IF msg.lastframe = 0 THEN NoSnapshot
                     ELSE snapshots[PacketMask(msg.sequence - msg.lastframe)]).num
            new == [valid |-> TRUE, messageNum |-> msg.sequence,
                    parseEntitiesNum |-> parseEntitiesNum, numEntities |-> num - parseEntitiesNum,
                    built |-> msg.built,
                    fits |-> Fits(IF msg.lastframe = 0 THEN NoSnapshot
                                  ELSE snapshots[PacketMask(msg.sequence - msg.lastframe)],
                                  msg.built)]
<1>1. new.valid = TRUE /\ new.messageNum = msg.sequence
  OBVIOUS
<1>2. \/ UNCHANGED <<snap, snapshots>>
      \/ /\ snap' = msg.sequence
         /\ snapshots' = [s \in DOMAIN snapshots |->
              IF s = PacketMask(msg.sequence) THEN new
              ELSE IF s \in Skipped(msg.sequence) THEN Unread(snapshots[s])
              ELSE snapshots[s]]
  BY DEF CL_ParseSnapshot
<1>. HIDE DEF new
<1>. QED
  BY <1>1, <1>2

(* A snapshot that comes writes over the place of its own number and those *)
(* of the messages between, all later than what is held.                   *)
LEMMA HeldStored ==
  ASSUME NumbersOK, NEW msg, msg.sequence \in Nat, serverMessageSequence < msg.sequence,
         CL_ParseSnapshot(msg), NEW n, Held(n)
  PROVE  Held(n)'
<1>. USE SnapshotsAssumption DEF SnapshotsAssumption
<1>. DEFINE q == msg.sequence
<1>1. CASE UNCHANGED <<snap, snapshots>>
  BY <1>1, HeldUnchanged
<1>2. CASE /\ snap' = q
           /\ \E new : snapshots' = [s \in DOMAIN snapshots |->
                         IF s = PacketMask(q) THEN new
                         ELSE IF s \in Skipped(q) THEN Unread(snapshots[s])
                         ELSE snapshots[s]]
  <2>0. \A a, b \in Nat : a < b /\ b - a < PACKET_BACKUP => PacketMask(a) # PacketMask(b)
    <3>1. ASSUME NEW a \in Nat, NEW b \in Nat, a < b, b - a < PACKET_BACKUP
          PROVE  a % PACKET_BACKUP # b % PACKET_BACKUP
      <4>1. a \in Int /\ b \in Int /\ PACKET_BACKUP \in Nat \ {0}
        OBVIOUS
      <4>. QED
        BY <3>1, <4>1, PlacesDiffer, Zenon
    <3>. QED
      BY <3>1 DEF PacketMask
  <2>1. n \in Nat /\ n \in 1 .. snap /\ q \in Nat /\ snap \in Nat /\ snap < q
    <3>1. snap \in Nat /\ serverMessageSequence \in Nat /\ snap <= serverMessageSequence
      BY DEF NumbersOK
    <3>2. n \in 1 .. snap
      BY DEF Held
    <3>. QED
      BY <3>1, <3>2
  <2>2. n \in 1 .. snap'
    <3>1. snap' = q
      BY <1>2
    <3>. QED
      BY <2>1, <3>1
  <2>3. SUFFICES ASSUME q - n < PACKET_BACKUP PROVE Has(snapshots'[PacketMask(n)], n)
    BY <1>2, <2>2 DEF Held, Has
  <2>4. Has(snapshots[PacketMask(n)], n)
    BY <2>1, <2>3 DEF Held
  <2>5. PacketMask(n) # PacketMask(q)
    BY <2>0, <2>1, <2>3
  <2>6. PacketMask(n) \notin Skipped(q)
    <3>1. SUFFICES ASSUME NEW k \in Int, k >= snap + 1, k <= q - 1
                   PROVE  PacketMask(n) # PacketMask(k)
      BY <2>1 DEF Skipped
    <3>2. k \in Nat /\ n < k /\ k - n < PACKET_BACKUP
      BY <2>1, <2>3, <3>1
    <3>. QED
      BY <2>0, <2>1, <3>2
  <2>7. PacketMask(n) \in DOMAIN snapshots
    BY <2>1, Rounds DEF NumbersOK, PacketMask
  <2>8. snapshots'[PacketMask(n)] = snapshots[PacketMask(n)]
    BY <1>2, <2>5, <2>6, <2>7
  <2>. QED
    BY <2>4, <2>8
<1>3. \/ UNCHANGED <<snap, snapshots>>
      \/ /\ snap' = q
         /\ \E new : snapshots' = [s \in DOMAIN snapshots |->
                       IF s = PacketMask(q) THEN new
                       ELSE IF s \in Skipped(q) THEN Unread(snapshots[s])
                       ELSE snapshots[s]]
  <2>1. SUFFICES ASSUME ~ UNCHANGED <<snap, snapshots>>
                 PROVE  /\ snap' = q
                        /\ \E new : snapshots' = [s \in DOMAIN snapshots |->
                             IF s = PacketMask(q) THEN new
                             ELSE IF s \in Skipped(q) THEN Unread(snapshots[s])
                             ELSE snapshots[s]]
    OBVIOUS
  <2>2. /\ snap' = msg.sequence
        /\ \E new : /\ new.valid = TRUE /\ new.messageNum = msg.sequence
                    /\ snapshots' = [s \in DOMAIN snapshots |->
                         IF s = PacketMask(msg.sequence) THEN new
                         ELSE IF s \in Skipped(msg.sequence) THEN Unread(snapshots[s])
                         ELSE snapshots[s]]
    BY <2>1, Stored, Zenon
  <2>. QED
    BY <2>2, Zenon
<1>. QED
  BY <1>1, <1>2, <1>3

(* The snapshot shown is the last one stored. *)
LEMMA ShownIsHeld ==
  ASSUME NumbersOK, NEW msg, msg.sequence \in Nat, serverMessageSequence < msg.sequence,
         CL_ParseSnapshot(msg), snap # 0 => Held(snap)
  PROVE  snap' # 0 => Held(snap)'
<1>. DEFINE q == msg.sequence
<1>1. CASE UNCHANGED <<snap, snapshots>>
  BY <1>1 DEF Held
<1>2. CASE /\ snap' = q
           /\ \E new : /\ new.valid = TRUE /\ new.messageNum = q
                       /\ snapshots' = [s \in DOMAIN snapshots |->
                            IF s = PacketMask(q) THEN new
                            ELSE IF s \in Skipped(q) THEN Unread(snapshots[s])
                            ELSE snapshots[s]]
  <2>1. q \in Nat /\ q # 0 /\ PacketMask(q) \in DOMAIN snapshots
    BY SnapshotsAssumption, Rounds DEF SnapshotsAssumption, NumbersOK, PacketMask
  <2>2. Has(snapshots'[PacketMask(q)], q)
    BY <1>2, <2>1 DEF Has
  <2>3. snap' \in 1 .. snap'
    BY <1>2, <2>1
  <2>4. Has(snapshots'[PacketMask(snap')], snap')
    <3>1. snap' = q
      BY <1>2
    <3>. QED
      BY <2>2, <3>1
  <2>. QED
    BY <2>3, <2>4 DEF Held
<1>. QED
  BY <1>1, <1>2, Stored

-----------------------------------------------------------------------------
(* The invariant is inductive.                                             *)

(* Nothing is under way at first, and nothing held. *)
LEMMA InitOK == Init => IInv
<1>. SUFFICES ASSUME Init PROVE IInv
  OBVIOUS
<1>1. NumbersOK
  BY DEF Init, NumbersOK, NoSnapshots
<1>2. ActiveOK
  BY DEF Init, ActiveOK
<1>. QED
  BY <1>1, <1>2 DEF Init, IInv

(* What is under way keeps its bounds while the client reads nothing. *)
LEMMA DownUnchanged ==
  ASSUME NumbersOK, NumbersOK', NEW msg, DownOK(msg),
         UNCHANGED <<level, serverMessageSequence, snap, snapshots>>,
         outgoingSequence' >= outgoingSequence, serverId' >= serverId,
         gamestateMessageNum' = gamestateMessageNum
  PROVE  DownOK(msg)'
<1>1. \A n : Held(n) => Held(n)'
  BY HeldUnchanged
<1>. QED
  BY <1>1 DEF DownOK, NumbersOK

(* A message of the server other than a snapshot or a gamestate. *)
LEMMA IdleOK ==
  ASSUME NumbersOK, NumbersOK', NEW kind \in {"idle", "gamestate"}, NEW msg, msg = Other(kind),
         UNCHANGED <<level, serverMessageSequence, snap, snapshots, serverId>>,
         outgoingSequence' = outgoingSequence + 1,
         kind = "gamestate" => level < serverId /\ gamestateMessageNum' = outgoingSequence
  PROVE  DownOK(msg)'
  BY DEF DownOK, Other, NumbersOK

(* A snapshot, made against nothing or against what the client holds. *)
LEMMA SnapshotOK ==
  ASSUME NumbersOK, ActiveOK, state = "active", NEW view, NEW msg,
         msg = SV_WriteSnapshotToClient(view),
         UNCHANGED <<level, serverMessageSequence, snap, snapshots, serverId>>,
         outgoingSequence' = outgoingSequence + 1
  PROVE  DownOK(msg)'
<1>. USE SnapshotsAssumption DEF SnapshotsAssumption
<1>1. /\ msg.sequence = outgoingSequence /\ msg.kind = "snapshot" /\ msg.serverId = serverId
      /\ \/ msg.lastframe = 0
         \/ Answers(deltaMessage) /\ msg.lastframe = outgoingSequence - deltaMessage
  BY DEF SV_WriteSnapshotToClient
<1>2. /\ outgoingSequence \in Nat /\ serverMessageSequence \in Nat /\ snap \in Nat
      /\ serverId \in Nat /\ level = serverId /\ deltaMessage \in Int
      /\ serverMessageSequence < outgoingSequence /\ snap <= serverMessageSequence
  BY DEF NumbersOK, ActiveOK
<1>3. msg.lastframe \in Nat /\ (msg.lastframe > 0 =>
                                  /\ msg.lastframe < PACKET_BACKUP - KEEP
                                  /\ Held(msg.sequence - msg.lastframe))
  <2>1. CASE msg.lastframe = 0
    BY <2>1
  <2>2. CASE Answers(deltaMessage) /\ msg.lastframe = outgoingSequence - deltaMessage
    <3>1. deltaMessage > 0 /\ msg.lastframe < PACKET_BACKUP - KEEP
      BY <2>2 DEF Answers
    <3>2. Held(deltaMessage)
      BY <3>1 DEF ActiveOK
    <3>3. deltaMessage \in 1 .. snap
      BY <3>2 DEF Held
    <3>4. msg.sequence - msg.lastframe = deltaMessage
      BY <1>1, <1>2, <2>2
    <3>. QED
      BY <1>2, <2>2, <3>1, <3>2, <3>3, <3>4
  <2>. QED
    BY <1>1, <2>1, <2>2
<1>4. \A n : Held(n) => Held(n)'
  BY HeldUnchanged
<1>. QED
  BY <1>1, <1>2, <1>3, <1>4 DEF DownOK

(* The message under way to the server keeps its bounds. *)
LEMMA UpUnchanged ==
  ASSUME NumbersOK, NEW msg, UpOK(msg),
         UNCHANGED <<level, serverMessageSequence, snap, snapshots, serverId, gamestateMessageNum>>
  PROVE  UpOK(msg)'
<1>1. \A n : Held(n) => Held(n)'
  BY HeldUnchanged
<1>. QED
  BY <1>1 DEF UpOK

(* Snapshots, idle messages and those of the other clients. *)
LEMMA ServerSendsOK ==
  IInv /\ (SV_SendClientSnapshot \/ SV_SendClientIdle \/ SnapshotsOfOthers) => IInv'
<1>. SUFFICES ASSUME IInv, SV_SendClientSnapshot \/ SV_SendClientIdle \/ SnapshotsOfOthers
              PROVE  IInv'
  OBVIOUS
<1>1. NumbersOK /\ ActiveOK
  BY DEF IInv
<1>2. /\ UNCHANGED <<level, serverMessageSequence, snap, snapshots, serverId, gamestateMessageNum,
                     state, deltaMessage, up>>
      /\ outgoingSequence' = outgoingSequence \/ outgoingSequence' = outgoingSequence + 1
  BY DEF SV_SendClientSnapshot, SV_SendClientIdle, SnapshotsOfOthers, Send, clientVars,
         clientOfServer, serverEntities
<1>3. NumbersOK'
  BY <1>1, <1>2 DEF NumbersOK
<1>4. \A n : Held(n) => Held(n)'
  BY <1>2, HeldUnchanged
<1>5. snap' # 0 => Held(snap)'
  BY <1>2 DEF IInv, Held
<1>6. ActiveOK'
  BY <1>1, <1>2, <1>4 DEF ActiveOK
<1>7. up' = <<>> \/ \E msg : up' = <<msg>> /\ UpOK(msg)'
  BY <1>1, <1>2, UpUnchanged DEF IInv
<1>8. down' = <<>> \/ \E msg : down' = <<msg>> /\ DownOK(msg)'
  <2>1. CASE SV_SendClientSnapshot
    <3>1. PICK view : Send(SV_WriteSnapshotToClient(view))
      BY <2>1 DEF SV_SendClientSnapshot
    <3>2. PICK msg : msg = SV_WriteSnapshotToClient(view)
      OBVIOUS
    <3>3. state = "active"
      BY <2>1 DEF SV_SendClientSnapshot
    <3>4. DownOK(msg)'
      BY <1>1, <1>2, <3>1, <3>2, <3>3, SnapshotOK DEF Send
    <3>. QED
      BY <3>1, <3>2, <3>4 DEF Send
  <2>2. CASE SV_SendClientIdle
    <3>1. Send(Other("idle"))
      BY <2>2 DEF SV_SendClientIdle
    <3>2. PICK msg : msg = Other("idle")
      OBVIOUS
    <3>3. DownOK(msg)'
      BY <1>1, <1>2, <1>3, <3>1, <3>2, IdleOK DEF Send
    <3>. QED
      BY <3>1, <3>2, <3>3 DEF Send
  <2>3. CASE SnapshotsOfOthers
    <3>1. down' = down /\ outgoingSequence' = outgoingSequence
      BY <2>3 DEF SnapshotsOfOthers, clientOfServer
    <3>2. ASSUME NEW msg, DownOK(msg) PROVE DownOK(msg)'
      <4>1. outgoingSequence' >= outgoingSequence /\ serverId' >= serverId
        BY <1>1, <1>2, <3>1 DEF NumbersOK
      <4>. QED
        BY <1>1, <1>2, <1>3, <3>2, <4>1, DownUnchanged
    <3>. QED
      BY <3>1, <3>2 DEF IInv
  <2>. QED
    BY <2>1, <2>2, <2>3
<1>. QED
  BY <1>3, <1>5, <1>6, <1>7, <1>8 DEF IInv

(* A new level: the client is not in it yet, and loads it. *)
LEMMA SpawnServerOK == IInv /\ SV_SpawnServer => IInv'
<1>. SUFFICES ASSUME IInv, SV_SpawnServer PROVE IInv'
  OBVIOUS
<1>1. NumbersOK /\ ActiveOK
  BY DEF IInv
<1>2. /\ UNCHANGED <<level, serverMessageSequence, snap, snapshots, gamestateMessageNum,
                     outgoingSequence, deltaMessage, down, up>>
      /\ serverId' = serverId + 1 /\ state' = "connected"
  BY DEF SV_SpawnServer, clientVars
<1>3. NumbersOK'
  BY <1>1, <1>2 DEF NumbersOK
<1>4. \A n : Held(n) => Held(n)'
  BY <1>2, HeldUnchanged
<1>5. snap' # 0 => Held(snap)'
  BY <1>2 DEF IInv, Held
<1>6. ActiveOK'
  BY <1>2 DEF ActiveOK
<1>7. ASSUME NEW msg, UpOK(msg) PROVE UpOK(msg)'
  <2>1. level' # serverId'
    BY <1>1, <1>2 DEF NumbersOK
  <2>. QED
    BY <1>2, <1>4, <1>7, <2>1 DEF UpOK
<1>8. ASSUME NEW msg, DownOK(msg) PROVE DownOK(msg)'
  <2>1. outgoingSequence' >= outgoingSequence /\ serverId' >= serverId
    BY <1>1, <1>2 DEF NumbersOK
  <2>. QED
    BY <1>1, <1>2, <1>3, <1>8, <2>1, DownUnchanged
<1>. QED
  BY <1>2, <1>3, <1>5, <1>6, <1>7, <1>8 DEF IInv

(* A message of the client's: a move, which may put the client into the    *)
(* world, or one that shows that the gamestate was lost.                   *)
LEMMA ExecuteOK == IInv /\ SV_ExecuteClientMessage => IInv'
<1>. SUFFICES ASSUME IInv, SV_ExecuteClientMessage PROVE IInv'
  OBVIOUS
<1>1. NumbersOK /\ ActiveOK
  BY DEF IInv
<1>2. /\ UNCHANGED <<level, serverMessageSequence, snap, snapshots, serverId>>
      /\ up # <<>> /\ up' = <<>>
  BY DEF SV_ExecuteClientMessage, clientVars
<1>3. PICK u : up = <<u>> /\ UpOK(u)
  BY <1>2 DEF IInv
<1>4. Head(up) = u
  BY <1>3
<1>5. \A n : Held(n) => Held(n)'
  BY <1>2, HeldUnchanged
<1>6. snap' # 0 => Held(snap)'
  BY <1>2 DEF IInv, Held
<1>7. CASE u.serverId = serverId /\ SV_UserMove(u)
  <2>1. /\ UNCHANGED <<outgoingSequence, gamestateMessageNum, down>>
        /\ deltaMessage' = IF u.delta /\ state = "active" THEN u.ack ELSE -1
        /\ state' = IF state = "primed" THEN "active" ELSE state
    BY <1>7 DEF SV_UserMove
  <2>2. u.ack \in Nat /\ level = serverId /\ (u.delta => Held(u.ack))
    BY <1>1, <1>3, <1>7 DEF UpOK, NumbersOK
  <2>3. NumbersOK'
    <3>1. deltaMessage' \in Int
      BY <2>1, <2>2
    <3>. QED
      BY <1>1, <1>2, <2>1, <3>1 DEF NumbersOK
  <2>4. ActiveOK'
    <3>1. state' \in {"connected", "primed", "active"}
      BY <1>1, <2>1 DEF ActiveOK
    <3>2. level' = serverId'
      BY <1>2, <2>2
    <3>3. deltaMessage' > 0 => Held(deltaMessage)'
      <4>1. CASE u.delta /\ state = "active"
        <5>1. deltaMessage' = u.ack
          BY <2>1, <4>1
        <5>2. Held(u.ack)
          BY <2>2, <4>1
        <5>. QED
          BY <1>2, <5>1, <5>2 DEF Held
      <4>2. CASE ~(u.delta /\ state = "active")
        BY <2>1, <4>2
      <4>. QED
        BY <4>1, <4>2
    <3>. QED
      BY <3>1, <3>2, <3>3 DEF ActiveOK
  <2>5. ASSUME NEW msg, DownOK(msg) PROVE DownOK(msg)'
    <3>1. outgoingSequence' >= outgoingSequence /\ serverId' >= serverId
      BY <1>1, <1>2, <2>1 DEF NumbersOK
    <3>. QED
      BY <1>1, <1>2, <2>1, <2>3, <2>5, <3>1, DownUnchanged
  <2>. QED
    BY <1>2, <1>6, <2>1, <2>3, <2>4, <2>5 DEF IInv
<1>8. CASE u.serverId # serverId /\ u.ack > gamestateMessageNum /\ SV_SendClientGameState
  <2>1. /\ Send(Other("gamestate")) /\ state' = "primed"
        /\ gamestateMessageNum' = outgoingSequence /\ deltaMessage' = deltaMessage
    BY <1>8 DEF SV_SendClientGameState
  <2>2. level < serverId
    BY <1>1, <1>3, <1>8 DEF UpOK, NumbersOK
  <2>3. NumbersOK'
    BY <1>1, <1>2, <2>1 DEF NumbersOK, Send
  <2>4. ActiveOK'
    BY <2>1 DEF ActiveOK
  <2>5. PICK msg : msg = Other("gamestate")
    OBVIOUS
  <2>6. DownOK(msg)'
    BY <1>1, <1>2, <2>1, <2>2, <2>3, <2>5, IdleOK DEF Send
  <2>. QED
    BY <1>2, <1>6, <2>1, <2>3, <2>4, <2>5, <2>6 DEF IInv, Send
<1>9. CASE UNCHANGED <<clientOfServer, down>>
  <2>1. UNCHANGED <<outgoingSequence, state, deltaMessage, gamestateMessageNum, down>>
    BY <1>9 DEF clientOfServer
  <2>2. NumbersOK' /\ ActiveOK'
    BY <1>1, <1>2, <1>5, <2>1 DEF NumbersOK, ActiveOK
  <2>3. ASSUME NEW msg, DownOK(msg) PROVE DownOK(msg)'
    <3>1. outgoingSequence' >= outgoingSequence /\ serverId' >= serverId
      BY <1>1, <1>2, <2>1 DEF NumbersOK
    <3>. QED
      BY <1>1, <1>2, <2>1, <2>2, <2>3, <3>1, DownUnchanged
  <2>. QED
    BY <1>2, <1>6, <2>1, <2>2, <2>3 DEF IInv
<1>. QED
  BY <1>4, <1>7, <1>8, <1>9 DEF SV_ExecuteClientMessage

(* The client reads what is under way: a snapshot, a gamestate of a later  *)
(* level, or neither.                                                      *)
LEMMA PacketOK == IInv /\ CL_PacketEvent => IInv'
<1>. SUFFICES ASSUME IInv, CL_PacketEvent PROVE IInv'
  OBVIOUS
<1>1. NumbersOK /\ ActiveOK /\ (snap # 0 => Held(snap))
  BY DEF IInv
<1>2. /\ UNCHANGED <<outgoingSequence, state, deltaMessage, gamestateMessageNum, serverId, up>>
      /\ down # <<>> /\ down' = <<>>
  BY DEF CL_PacketEvent, clientOfServer
<1>3. PICK m : down = <<m>> /\ DownOK(m)
  BY <1>2 DEF IInv
<1>4. Head(down) = m
  BY <1>3
<1>5. /\ serverMessageSequence' = m.sequence /\ m.sequence \in Nat
      /\ serverMessageSequence < m.sequence /\ m.sequence < outgoingSequence
  BY <1>3, <1>4 DEF CL_PacketEvent, DownOK
<1>6. CASE m.kind = "snapshot" /\ CL_ParseSnapshot(m)
  <2>1. level' = level
    BY <1>6 DEF CL_ParseSnapshot
  <2>2. \A n : Held(n) => Held(n)'
    BY <1>1, <1>5, <1>6, HeldStored
  <2>3. snap' # 0 => Held(snap)'
    BY <1>1, <1>5, <1>6, ShownIsHeld
  <2>4. NumbersOK'
    <3>1. snap' = snap \/ snap' = m.sequence
      BY <1>6, Stored
    <3>2. snapshots' = [s \in 0 .. (PACKET_BACKUP - 1) |-> snapshots'[s]]
      <4>1. DOMAIN snapshots = 0 .. (PACKET_BACKUP - 1)
        BY <1>1 DEF NumbersOK
      <4>. QED
        BY <1>1, <1>6, <4>1, Stored DEF NumbersOK
    <3>. QED
      BY <1>1, <1>2, <1>5, <2>1, <3>1, <3>2 DEF NumbersOK
  <2>5. ActiveOK'
    BY <1>1, <1>2, <2>1, <2>2 DEF ActiveOK
  <2>6. ASSUME NEW msg, UpOK(msg) PROVE UpOK(msg)'
    BY <1>1, <1>2, <1>5, <2>1, <2>2, <2>6 DEF UpOK, NumbersOK
  <2>. QED
    BY <1>2, <2>3, <2>4, <2>5, <2>6 DEF IInv
<1>7. CASE m.kind = "gamestate" /\ CL_ParseGamestate(m)
  <2>1. level' = m.serverId /\ snap' = 0 /\ snapshots' = NoSnapshots
    BY <1>7 DEF CL_ParseGamestate
  <2>2. /\ m.serverId \in Nat /\ level < m.serverId /\ m.serverId <= serverId
        /\ m.sequence = gamestateMessageNum
    BY <1>3, <1>7 DEF DownOK
  <2>3. NumbersOK'
    BY <1>1, <1>2, <1>5, <2>1, <2>2 DEF NumbersOK, NoSnapshots
  <2>4. ActiveOK'
    <3>1. state # "active"
      BY <1>1, <2>2 DEF ActiveOK, NumbersOK
    <3>. QED
      BY <1>1, <1>2, <3>1 DEF ActiveOK
  <2>5. ASSUME NEW msg, UpOK(msg) PROVE UpOK(msg)'
    <3>1. msg.serverId < level'
      BY <1>1, <2>1, <2>2, <2>5 DEF UpOK, NumbersOK
    <3>2. msg.ack <= gamestateMessageNum'
      BY <1>1, <1>2, <1>5, <2>2, <2>5 DEF UpOK, NumbersOK
    <3>3. level' \in Nat /\ msg.serverId \in Nat /\ msg.ack \in Nat
      BY <2>1, <2>2, <2>5 DEF UpOK
    <3>4. msg.ack <= serverMessageSequence'
      BY <1>1, <1>5, <2>5 DEF UpOK, NumbersOK
    <3>. QED
      BY <2>5, <3>1, <3>2, <3>3, <3>4 DEF UpOK
  <2>. QED
    BY <1>2, <2>1, <2>3, <2>4, <2>5 DEF IInv
<1>8. CASE UNCHANGED <<level, snap, snapshots>>
  <2>1. \A n : Held(n) => Held(n)'
    BY <1>8, HeldUnchanged
  <2>2. NumbersOK'
    BY <1>1, <1>2, <1>5, <1>8 DEF NumbersOK
  <2>3. ActiveOK'
    BY <1>1, <1>2, <1>8, <2>1 DEF ActiveOK
  <2>4. ASSUME NEW msg, UpOK(msg) PROVE UpOK(msg)'
    BY <1>1, <1>2, <1>5, <1>8, <2>1, <2>4 DEF UpOK, NumbersOK
  <2>5. snap' # 0 => Held(snap)'
    BY <1>1, <1>8 DEF Held
  <2>. QED
    BY <1>2, <2>2, <2>3, <2>4, <2>5 DEF IInv
<1>. QED
  BY <1>4, <1>6, <1>7, <1>8 DEF CL_PacketEvent

(* The client asks for a delta to what it shows. *)
LEMMA WriteOK == IInv /\ CL_WritePacket => IInv'
<1>. SUFFICES ASSUME IInv, CL_WritePacket PROVE IInv'
  OBVIOUS
<1>. DEFINE u == [serverId |-> level, ack |-> serverMessageSequence, delta |-> AsksForDelta]
<1>1. NumbersOK /\ ActiveOK /\ (snap # 0 => Held(snap))
  BY DEF IInv
<1>2. /\ UNCHANGED <<outgoingSequence, state, deltaMessage, gamestateMessageNum, serverId,
                     level, serverMessageSequence, snap, snapshots, down>>
      /\ up' = <<u>>
  BY DEF CL_WritePacket, clientOfServer, clientVars
<1>3. NumbersOK' /\ ActiveOK' /\ (snap' # 0 => Held(snap)')
  BY <1>1, <1>2 DEF NumbersOK, ActiveOK, Held
<1>4. PICK msg : msg = u
  OBVIOUS
<1>5. UpOK(msg)'
  <2>1. msg.serverId = level /\ msg.ack = serverMessageSequence /\ msg.delta = AsksForDelta
    BY <1>4
  <2>2. AsksForDelta \in BOOLEAN /\ (AsksForDelta => Held(serverMessageSequence))
    BY <1>1 DEF AsksForDelta
  <2>3. Held(serverMessageSequence) => Held(msg.ack)'
    BY <1>2, <2>1 DEF Held
  <2>. QED
    BY <1>1, <1>2, <2>1, <2>2, <2>3 DEF UpOK, NumbersOK
<1>6. ASSUME NEW d, DownOK(d) PROVE DownOK(d)'
  <2>1. outgoingSequence' >= outgoingSequence /\ serverId' >= serverId
    BY <1>1, <1>2 DEF NumbersOK
  <2>. QED
    BY <1>1, <1>2, <1>3, <1>6, <2>1, DownUnchanged
<1>. QED
  BY <1>2, <1>3, <1>4, <1>5, <1>6 DEF IInv

(* Every step keeps the invariant. *)
LEMMA StepOK == IInv /\ [Next]_vars => IInv'
<1>. SUFFICES ASSUME IInv, [Next]_vars PROVE IInv'
  OBVIOUS
<1>1. CASE UNCHANGED vars
  BY <1>1 DEF vars, IInv, NumbersOK, ActiveOK, DownOK, UpOK, Held
<1>. QED
  BY <1>1, ServerSendsOK, SpawnServerOK, ExecuteOK, PacketOK, WriteOK DEF Next

(* What has been said of Held, DownOK, UpOK and ActiveOK holds always. *)
LEMMA InvariantHolds == Spec => []IInv
  BY InitOK, StepOK, PTL DEF Spec

-----------------------------------------------------------------------------
(* SV_WriteSnapshotToClient never makes a delta against a snapshot that    *)
(* CL_ParseSnapshot does not find, valid and of the right number, in the   *)
(* client's ring: the error "Delta from invalid frame" is not met, for     *)
(* rings of any length, whatever is lost and however the levels change.    *)
THEOREM DeltasHaveTheirBase == Spec => []BaseIsKept
<1>1. ASSUME IInv PROVE BaseIsKept
  <2>. USE SnapshotsAssumption DEF SnapshotsAssumption
  <2>1. SUFFICES ASSUME down # <<>>, Head(down).lastframe > 0
                 PROVE  LET base == Head(down).sequence - Head(down).lastframe
                        IN  Has(snapshots[PacketMask(base)], base)
    BY DEF BaseIsKept
  <2>2. PICK m : down = <<m>> /\ DownOK(m)
    BY <1>1, <2>1 DEF IInv
  <2>3. Head(down) = m
    BY <2>2
  <2>4. /\ m.sequence \in Nat /\ m.lastframe \in Nat /\ m.lastframe > 0
        /\ serverMessageSequence < m.sequence
        /\ m.lastframe < PACKET_BACKUP - KEEP /\ Held(m.sequence - m.lastframe)
    BY <2>1, <2>2, <2>3 DEF DownOK
  <2>5. snap - (m.sequence - m.lastframe) < PACKET_BACKUP
    <3>1. snap \in Nat /\ serverMessageSequence \in Nat /\ snap <= serverMessageSequence
      BY <1>1 DEF IInv, NumbersOK
    <3>. QED
      BY <2>4, <3>1
  <2>. QED
    BY <2>3, <2>4, <2>5 DEF Held
<1>. QED
  BY <1>1, InvariantHolds, PTL

(* A snapshot so far from the last one that SV_WriteSnapshotToClient takes *)
(* the base for too old is made against nothing, so that CL_ParseSnapshot  *)
(* can use it: a client is never left with its old picture.                *)
THEOREM ClientsCatchUp == Spec => NeverStuck
<1>1. ASSUME IInv, [Next]_vars, down # <<>>, down' = <<>>, Head(down).kind = "snapshot",
             Head(down).sequence - snap >= PACKET_BACKUP - KEEP
      PROVE  snap' = Head(down).sequence
  <2>. USE SnapshotsAssumption DEF SnapshotsAssumption
  <2>1. PICK m : down = <<m>> /\ DownOK(m)
    BY <1>1 DEF IInv
  <2>2. Head(down) = m
    BY <2>1
  <2>3. CL_PacketEvent
    BY <1>1 DEF Next, vars, SV_SendClientSnapshot, SV_SendClientIdle, SnapshotsOfOthers,
                SV_SpawnServer, SV_ExecuteClientMessage, SV_UserMove, SV_SendClientGameState,
                CL_WritePacket, Send, clientOfServer
  <2>4. m.kind = "snapshot" /\ CL_ParseSnapshot(m)
    BY <1>1, <2>2, <2>3 DEF CL_PacketEvent
  <2>5. m.lastframe = 0
    <3>1. SUFFICES ASSUME m.lastframe # 0 PROVE FALSE
      OBVIOUS
    <3>2. /\ m.sequence \in Nat /\ m.lastframe \in Nat
          /\ m.lastframe < PACKET_BACKUP - KEEP /\ Held(m.sequence - m.lastframe)
      BY <2>1, <2>4, <3>1 DEF DownOK
    <3>3. snap \in Nat /\ m.sequence - m.lastframe <= snap
      BY <1>1, <3>2 DEF Held, IInv, NumbersOK
    <3>. QED
      BY <1>1, <2>2, <3>2, <3>3
  <2>. QED
    BY <2>2, <2>4, <2>5 DEF CL_ParseSnapshot
<1>2. IInv /\ [Next]_vars =>
        (down # <<>> /\ down' = <<>> /\ Head(down).kind = "snapshot"
         /\ Head(down).sequence - snap >= PACKET_BACKUP - KEEP
           => snap' = Head(down).sequence)
  BY <1>1
<1>. QED
  BY <1>2, InvariantHolds, PTL DEF NeverStuck, Spec

-----------------------------------------------------------------------------
(* Counting, and lists defined from the number before.                     *)

(* What holds of 0, and of n + 1 when it holds of n, holds of all numbers. *)
LEMMA Inducts ==
  ASSUME NEW T, 0 \in T, \A n \in Nat : n \in T => n + 1 \in T
  PROVE  Nat \subseteq T
<1>. DEFINE B == {n \in Nat : n \notin T}
<1>1. SUFFICES ASSUME B # {} PROVE FALSE
  OBVIOUS
<1>2. PICK n \in B : \A m \in B : n <= m
  <2>1. B \subseteq Nat
    OBVIOUS
  <2>. HIDE DEF B
  <2>. QED
    BY <1>1, <2>1, Least
<1>3. n # 0
  OBVIOUS
<1>4. n - 1 \in Nat /\ n - 1 \notin B
  BY <1>2, <1>3
<1>5. n - 1 \in T
  BY <1>4
<1>. QED
  BY <1>4, <1>5

(* A function on the numbers may be defined from its value at the number   *)
(* before, as long as the values stay in a set.                            *)
LEMMA RunExists ==
  ASSUME NEW V, NEW a \in V, NEW G \in [V -> V]
  PROVE  \E f \in [Nat -> V] : f[0] = a /\ \A n \in Nat : f[n + 1] = G[f[n]]
<1>. DEFINE Runs(f, n) == \A m \in 0 .. n : f[m] = IF m = 0 THEN a ELSE G[f[m - 1]]
            T == {n \in Nat : \E f \in [0 .. n -> V] : Runs(f, n)}
<1>1. 0 \in T
  <2>1. [m \in 0 .. 0 |-> a] \in [0 .. 0 -> V] /\ Runs([m \in 0 .. 0 |-> a], 0)
    OBVIOUS
  <2>. QED
    BY <2>1
<1>2. ASSUME NEW n \in Nat, n \in T PROVE n + 1 \in T
  <2>1. PICK f \in [0 .. n -> V] : Runs(f, n)
    BY <1>2
  <2>. DEFINE g == [m \in 0 .. (n + 1) |-> IF m <= n THEN f[m] ELSE G[f[n]]]
  <2>2. f[n] \in V /\ G[f[n]] \in V
    OBVIOUS
  <2>3. g \in [0 .. (n + 1) -> V]
    BY <2>2
  <2>4. ASSUME NEW m \in 0 .. (n + 1) PROVE g[m] = IF m = 0 THEN a ELSE G[g[m - 1]]
    <3>1. CASE m = n + 1
      <4>1. m # 0 /\ ~ m <= n /\ m - 1 = n /\ m - 1 \in 0 .. (n + 1) /\ m - 1 <= n
        BY <3>1
      <4>. QED
        BY <4>1
    <3>2. CASE m # n + 1 /\ m # 0
      <4>1. m \in 0 .. n /\ m - 1 \in 0 .. n /\ m <= n /\ m - 1 \in 0 .. (n + 1) /\ m - 1 <= n
        BY <3>2
      <4>. QED
        BY <2>1, <3>2, <4>1
    <3>3. CASE m = 0
      BY <2>1, <3>3
    <3>. QED
      BY <3>1, <3>2, <3>3
  <2>5. Runs(g, n + 1)
    BY <2>4
  <2>. HIDE DEF Runs, g
  <2>. QED
    BY <2>3, <2>5
<1>3. \A n \in Nat : n \in T
  <2>. HIDE DEF T
  <2>1. Nat \subseteq T
    BY <1>1, <1>2, Inducts
  <2>. QED
    BY <2>1
<1>. DEFINE F == [n \in Nat |-> CHOOSE f \in [0 .. n -> V] : Runs(f, n)]
            h == [n \in Nat |-> F[n][n]]
<1>4. \A n \in Nat : F[n] \in [0 .. n -> V] /\ Runs(F[n], n)
  <2>. TAKE n \in Nat
  <2>1. \E f \in [0 .. n -> V] : Runs(f, n)
    BY <1>3
  <2>. HIDE DEF Runs
  <2>. QED
    BY <2>1
<1>. HIDE DEF F
<1>5. \A n \in Nat : F[n + 1][n] = F[n][n]
  <2>. TAKE n \in Nat
  <2>. DEFINE D == {m \in Nat : m <= n => F[n + 1][m] = F[n][m]}
  <2>1. 0 \in D
    BY <1>4
  <2>2. ASSUME NEW m \in Nat, m \in D PROVE m + 1 \in D
    <3>1. SUFFICES ASSUME m + 1 <= n PROVE F[n + 1][m + 1] = F[n][m + 1]
      OBVIOUS
    <3>2. /\ m + 1 \in 0 .. n /\ m + 1 \in 0 .. (n + 1) /\ m + 1 # 0 /\ (m + 1) - 1 = m
          /\ n + 1 \in Nat /\ F[n + 1][m] = F[n][m]
      BY <2>2, <3>1
    <3>3. F[n + 1][m + 1] = G[F[n + 1][m]] /\ F[n][m + 1] = G[F[n][m]]
      BY <1>4, <3>2
    <3>. QED
      BY <3>2, <3>3
  <2>3. n \in D
    <3>. HIDE DEF D
    <3>1. Nat \subseteq D
      BY <2>1, <2>2, Inducts
    <3>. QED
      BY <3>1
  <2>. QED
    BY <2>3
<1>6. h \in [Nat -> V]
  BY <1>4
<1>7. h[0] = a
  BY <1>4
<1>8. ASSUME NEW n \in Nat PROVE h[n + 1] = G[h[n]]
  <2>1. n + 1 \in Nat /\ n + 1 # 0 /\ (n + 1) - 1 = n /\ n + 1 \in 0 .. (n + 1)
    OBVIOUS
  <2>2. F[n + 1][n + 1] = G[F[n + 1][n]]
    BY <1>4, <2>1
  <2>3. F[n + 1][n] = F[n][n]
    BY <1>5
  <2>. QED
    BY <2>1, <2>2, <2>3
<1>. QED
  BY <1>6, <1>7, <1>8

-----------------------------------------------------------------------------
(* Single entities, and what a message says of one.                        *)

(* A change as the messages have it. *)
Changing == [number : 0 .. None, removed : BOOLEAN, changed : SUBSET (0 .. 1)]

(* Where CL_ParsePacketEntities is: as the LET of the model has it. *)
Parsing ==
  {p \in [ring : Ring(MAX_PARSE_ENTITIES, Entity), num : Nat, changes : SUBSET Changing,
          oldindex : Nat, oldnum : 0 .. None \cup {Behind}] : IsFiniteSet(p.changes)}

Ended(p) == p.oldnum = Behind /\ p.changes = {}

(* A place in the client's ring. *)
LEMMA SlotInRing ==
  ASSUME NEW n \in Int
  PROVE  ClientSlot(n) \in 0 .. (MAX_PARSE_ENTITIES - 1)
  BY SnapshotsAssumption, Rounds DEF SnapshotsAssumption, ClientSlot

(* The next change is that of the least number. *)
LEMMA NextIsLeast ==
  ASSUME NEW changes, changes \subseteq Changing, IsFiniteSet(changes), changes # {}
  PROVE  /\ NextChange(changes) \in changes
         /\ \A d \in changes : NextChange(changes).number <= d.number
<1>. DEFINE F == [c \in changes |-> c.number]
<1>1. \A c \in changes : F[c] \in Int
  BY DEF Changing
<1>2. PICK c \in changes : \A d \in changes : F[c] <= F[d]
  <2>. HIDE DEF F
  <2>. QED
    BY <1>1, LeastOf
<1>3. \E x \in changes : \A d \in changes : x.number <= d.number
  BY <1>2
<1>. QED
  BY <1>3 DEF NextChange

(* What is read is an entity, or none. *)
LEMMA ReadIsEntity ==
  ASSUME NEW c \in Changing, NEW from \in Entity
  PROVE  MSG_ReadDeltaEntity(c, from) \in Entity
<1>1. CASE c.removed
  BY <1>1 DEF MSG_ReadDeltaEntity, Removed, Entity, None
<1>2. CASE ~c.removed
  <2>1. c.number \in 0 .. None /\ c.changed \subseteq 0 .. 1 /\ from.value \in 0 .. 1
    BY DEF Changing, Entity
  <2>2. c.changed # {} => (CHOOSE v \in c.changed : TRUE) \in c.changed
    OBVIOUS
  <2>. QED
    BY <1>2, <2>1, <2>2 DEF MSG_ReadDeltaEntity, Entity
<1>. QED
  BY <1>1, <1>2

(* A baseline is an entity. *)
LEMMA BaselineIsEntity ==
  ASSUME NEW lvl \in Nat, NEW n \in 0 .. None
  PROVE  Baseline(lvl, n) \in Entity
<1>1. lvl % 2 \in 0 .. 1
  OBVIOUS
<1>. QED
  BY <1>1 DEF Baseline, Entity

(* The number behind the last one is no entity's. *)
LEMMA NumberAtType ==
  ASSUME NEW ring \in Ring(MAX_PARSE_ENTITIES, Entity), NEW old, NEW i \in Nat,
         old.parseEntitiesNum \in Nat, old.numEntities \in Nat
  PROVE  /\ NumberAt(ring, old, i) \in 0 .. None \cup {Behind}
         /\ NumberAt(ring, old, i) # Behind <=> i < old.numEntities
<1>. DEFINE n == ClientSlot(old.parseEntitiesNum + i)
<1>1. n \in 0 .. (MAX_PARSE_ENTITIES - 1)
  BY SlotInRing
<1>2. ring[n] \in Entity
  BY <1>1 DEF Ring
<1>3. ring[n].number \in 0 .. None
  BY <1>2 DEF Entity
<1>4. 0 .. None \subseteq Nat /\ Behind \notin 0 .. None
  BY DEF None, Behind
<1>5. CASE i < old.numEntities
  BY <1>3, <1>4, <1>5 DEF NumberAt
<1>6. CASE ~ i < old.numEntities
  BY <1>6 DEF NumberAt
<1>. QED
  BY <1>5, <1>6

(* An entity goes into the ring. *)
Wrote(p, q, e) ==
  /\ q.ring = [s \in 0 .. (MAX_PARSE_ENTITIES - 1) |->
                 IF s = ClientSlot(p.num) THEN e ELSE p.ring[s]]
  /\ q.num = IF e.number = None THEN p.num ELSE p.num + 1

(* The base moves on, or does not. *)
Passes(p, q, old) ==
  /\ p.oldnum # Behind /\ q.oldindex = p.oldindex + 1
  /\ q.oldnum = NumberAt(q.ring, old, p.oldindex + 1)
Stays(p, q) == q.oldindex = p.oldindex /\ q.oldnum = p.oldnum

OldState(p, old) == p.ring[ClientSlot(old.parseEntitiesNum + p.oldindex)]

(* One turn: an entity unchanged, changed, or new. *)
Keeps(p, q, old) ==
  /\ p.changes = {} \/ p.oldnum < NextChange(p.changes).number
  /\ Wrote(p, q, OldState(p, old)) /\ Passes(p, q, old) /\ q.changes = p.changes

Changes(p, q, old) ==
  LET c == NextChange(p.changes) IN
  /\ p.changes # {} /\ p.oldnum = c.number
  /\ Wrote(p, q, MSG_ReadDeltaEntity(c, OldState(p, old)))
  /\ Passes(p, q, old) /\ q.changes = p.changes \ {c}

Adds(p, q) ==
  LET c == NextChange(p.changes) IN
  /\ p.changes # {} /\ p.oldnum > c.number
  /\ Wrote(p, q, MSG_ReadDeltaEntity(c, Baseline(level, c.number)))
  /\ Stays(p, q) /\ q.changes = p.changes \ {c}

(* An entity goes into the ring, in the number's place. *)
LEMMA DeltaIs ==
  ASSUME NEW p \in Parsing, NEW e
  PROVE  CL_DeltaEntity(p, e)
           = [ring |-> [s \in 0 .. (MAX_PARSE_ENTITIES - 1) |->
                          IF s = ClientSlot(p.num) THEN e ELSE p.ring[s]],
              num |-> IF e.number = None THEN p.num ELSE p.num + 1, changes |-> p.changes,
              oldindex |-> p.oldindex, oldnum |-> p.oldnum]
<1>1. PICK r, n, ch, i, o : p = [ring |-> r, num |-> n, changes |-> ch, oldindex |-> i, oldnum |-> o]
  BY DEF Parsing
<1>2. r = [s \in 0 .. (MAX_PARSE_ENTITIES - 1) |-> r[s]]
  BY <1>1 DEF Parsing, Ring
<1>3. PICK w : w = [r EXCEPT ![ClientSlot(n)] = e]
  OBVIOUS
<1>4. w = [s \in 0 .. (MAX_PARSE_ENTITIES - 1) |-> IF s = ClientSlot(n) THEN e ELSE r[s]]
  BY <1>2, <1>3
<1>5. PICK a : a = IF e.number = None THEN n ELSE n + 1
  OBVIOUS
<1>6. p.ring = r /\ p.num = n /\ p.changes = ch /\ p.oldindex = i /\ p.oldnum = o
  BY <1>1
<1>7. CL_DeltaEntity(p, e) = [p EXCEPT !.ring = w, !.num = a]
  <2>1. [p.ring EXCEPT ![ClientSlot(p.num)] = e] = w
    BY <1>3, <1>6
  <2>2. a = IF e.number = None THEN p.num ELSE p.num + 1
    BY <1>5, <1>6
  <2>. QED
    BY <2>1, <2>2, Zenon DEF CL_DeltaEntity
<1>8. [p EXCEPT !.ring = w, !.num = a]
        = [ring |-> w, num |-> a, changes |-> ch, oldindex |-> i, oldnum |-> o]
  <2>1. [p EXCEPT !.ring = w]
          = [ring |-> w, num |-> n, changes |-> ch, oldindex |-> i, oldnum |-> o]
    BY <1>1
  <2>2. [[ring |-> w, num |-> n, changes |-> ch, oldindex |-> i, oldnum |-> o] EXCEPT !.num = a]
          = [ring |-> w, num |-> a, changes |-> ch, oldindex |-> i, oldnum |-> o]
    OBVIOUS
  <2>3. [p EXCEPT !.ring = w, !.num = a] = [[p EXCEPT !.ring = w] EXCEPT !.num = a]
    OBVIOUS
  <2>. QED
    BY <2>1, <2>2, <2>3, Zenon
<1>. QED
  BY <1>4, <1>5, <1>6, <1>7, <1>8

(* The next change is read. *)
LEMMA TakenIs ==
  ASSUME NEW p \in Parsing
  PROVE  /\ Taken(p) = [ring |-> p.ring, num |-> p.num,
                        changes |-> p.changes \ {NextChange(p.changes)},
                        oldindex |-> p.oldindex, oldnum |-> p.oldnum]
         /\ Taken(p) \in Parsing
<1>1. p = [ring |-> p.ring, num |-> p.num, changes |-> p.changes,
           oldindex |-> p.oldindex, oldnum |-> p.oldnum]
  BY DEF Parsing
<1>2. PICK r, n, ch, i, o : p = [ring |-> r, num |-> n, changes |-> ch, oldindex |-> i, oldnum |-> o]
  BY <1>1
<1>3. p.ring = r /\ p.num = n /\ p.changes = ch /\ p.oldindex = i /\ p.oldnum = o
  BY <1>2
<1>4. Taken(p) = [ring |-> r, num |-> n, changes |-> ch \ {NextChange(ch)},
                  oldindex |-> i, oldnum |-> o]
  BY <1>2 DEF Taken
<1>5. IsFiniteSet(ch \ {NextChange(ch)}) /\ ch \ {NextChange(ch)} \subseteq Changing
  BY <1>3, FS_Subset DEF Parsing
<1>6. [ring |-> r, num |-> n, changes |-> ch \ {NextChange(ch)}, oldindex |-> i, oldnum |-> o]
        \in Parsing
  BY <1>3, <1>5 DEF Parsing
<1>. QED
  BY <1>3, <1>4, <1>6

(* The base moves on. *)
LEMMA PassedIs ==
  ASSUME NEW r, NEW n, NEW ch, NEW i, NEW o, NEW old
  PROVE  Passed([ring |-> r, num |-> n, changes |-> ch, oldindex |-> i, oldnum |-> o], old)
           = [ring |-> r, num |-> n, changes |-> ch, oldindex |-> i + 1,
              oldnum |-> NumberAt(r, old, i + 1)]
<1>. DEFINE p == [ring |-> r, num |-> n, changes |-> ch, oldindex |-> i, oldnum |-> o]
<1>1. PICK y : y = NumberAt(r, old, i + 1)
  OBVIOUS
<1>2. PICK z : z = i + 1
  OBVIOUS
<1>3. p.ring = r /\ p.oldindex = i
  OBVIOUS
<1>4. NumberAt(p.ring, old, p.oldindex + 1) = y /\ p.oldindex + 1 = z
  BY <1>1, <1>2, <1>3
<1>5. [p EXCEPT !.oldindex = z, !.oldnum = y]
        = [ring |-> r, num |-> n, changes |-> ch, oldindex |-> z, oldnum |-> y]
  <2>1. [p EXCEPT !.oldindex = z]
          = [ring |-> r, num |-> n, changes |-> ch, oldindex |-> z, oldnum |-> o]
    OBVIOUS
  <2>2. [[ring |-> r, num |-> n, changes |-> ch, oldindex |-> z, oldnum |-> o] EXCEPT !.oldnum = y]
          = [ring |-> r, num |-> n, changes |-> ch, oldindex |-> z, oldnum |-> y]
    OBVIOUS
  <2>3. [p EXCEPT !.oldindex = z, !.oldnum = y] = [[p EXCEPT !.oldindex = z] EXCEPT !.oldnum = y]
    OBVIOUS
  <2>. QED
    BY <2>1, <2>2, <2>3, Zenon
<1>6. Passed(p, old) = [p EXCEPT !.oldindex = z, !.oldnum = y]
  <2>. HIDE DEF p
  <2>. QED
    BY <1>4, Zenon DEF Passed
<1>. QED
  BY <1>1, <1>2, <1>5, <1>6

(* Each turn is one of the three. *)
LEMMA Turns ==
  ASSUME NEW p \in Parsing, ~Ended(p), NEW old
  PROVE  LET q == ParseEntity(p, old)
         IN  /\ q = [ring |-> q.ring, num |-> q.num, changes |-> q.changes,
                     oldindex |-> q.oldindex, oldnum |-> q.oldnum]
             /\ Keeps(p, q, old) \/ Changes(p, q, old) \/ Adds(p, q)
<1>. DEFINE oldstate == OldState(p, old)
            c == NextChange(p.changes)
            newnum == IF p.changes = {} THEN Behind ELSE c.number
            q == ParseEntity(p, old)
            write(e) == [s \in 0 .. (MAX_PARSE_ENTITIES - 1) |->
                           IF s = ClientSlot(p.num) THEN e ELSE p.ring[s]]
            after(e) == IF e.number = None THEN p.num ELSE p.num + 1
            rest == p.changes \ {c}
<1>1. \A e : CL_DeltaEntity(p, e) = [ring |-> write(e), num |-> after(e), changes |-> p.changes,
                                     oldindex |-> p.oldindex, oldnum |-> p.oldnum]
  BY DeltaIs
<1>2. \A e : CL_DeltaEntity(Taken(p), e)
               = [ring |-> write(e), num |-> after(e), changes |-> rest,
                  oldindex |-> p.oldindex, oldnum |-> p.oldnum]
  <2>1. PICK t \in Parsing : t = Taken(p)
    BY TakenIs
  <2>2. /\ t.ring = p.ring /\ t.num = p.num /\ t.changes = rest
        /\ t.oldindex = p.oldindex /\ t.oldnum = p.oldnum
    BY <2>1, TakenIs
  <2>. TAKE e
  <2>3. CL_DeltaEntity(t, e)
          = [ring |-> [s \in 0 .. (MAX_PARSE_ENTITIES - 1) |->
                         IF s = ClientSlot(t.num) THEN e ELSE t.ring[s]],
             num |-> IF e.number = None THEN t.num ELSE t.num + 1, changes |-> t.changes,
             oldindex |-> t.oldindex, oldnum |-> t.oldnum]
    BY DeltaIs
  <2>. QED
    BY <2>1, <2>2, <2>3
<1>3. p.oldnum \in Nat /\ newnum \in Nat /\ (p.oldnum = Behind \/ p.oldnum < Behind)
  <2>1. p.changes # {} => c \in p.changes
    BY NextIsLeast DEF Parsing
  <2>2. p.changes # {} => c.number \in 0 .. None
    BY <2>1 DEF Parsing, Changing
  <2>3. p.oldnum \in 0 .. None \cup {Behind}
    BY DEF Parsing
  <2>4. newnum \in 0 .. None \cup {Behind}
    BY <2>2
  <2>5. \A n \in 0 .. None \cup {Behind} : n \in Nat /\ (n = Behind \/ n < Behind)
    BY DEF None, Behind
  <2>. HIDE DEF newnum
  <2>. QED
    BY <2>3, <2>4, <2>5
<1>4. CASE p.oldnum < newnum
  <2>. DEFINE r == [ring |-> write(oldstate), num |-> after(oldstate), changes |-> p.changes,
                    oldindex |-> p.oldindex + 1,
                    oldnum |-> NumberAt(write(oldstate), old, p.oldindex + 1)]
  <2>1. q = r
    <3>1. q = Passed(CL_DeltaEntity(p, oldstate), old)
      BY <1>3, <1>4 DEF ParseEntity, OldState
    <3>2. CL_DeltaEntity(p, oldstate)
            = [ring |-> write(oldstate), num |-> after(oldstate), changes |-> p.changes,
               oldindex |-> p.oldindex, oldnum |-> p.oldnum]
      BY <1>1
    <3>3. PICK w, a : w = write(oldstate) /\ a = after(oldstate)
      OBVIOUS
    <3>4. q = Passed([ring |-> w, num |-> a, changes |-> p.changes,
                      oldindex |-> p.oldindex, oldnum |-> p.oldnum], old)
      BY <3>1, <3>2, <3>3
    <3>5. q = [ring |-> w, num |-> a, changes |-> p.changes, oldindex |-> p.oldindex + 1,
               oldnum |-> NumberAt(w, old, p.oldindex + 1)]
      BY <3>4, PassedIs
    <3>. QED
      BY <3>3, <3>5
  <2>2. p.oldnum # Behind /\ (p.changes = {} \/ p.oldnum < c.number)
    <3>1. newnum <= Behind
      <4>1. p.changes # {} => c \in p.changes
        BY NextIsLeast DEF Parsing
      <4>. QED
        BY <4>1 DEF Parsing, Changing, None, Behind
    <3>. QED
      BY <1>3, <1>4, <3>1
  <2>3. Keeps(p, r, old)
    BY <2>2 DEF Keeps, Wrote, Passes
  <2>. QED
    BY <2>1, <2>3
<1>5. CASE p.oldnum = newnum
  <2>1. p.changes # {} /\ p.oldnum = c.number /\ p.oldnum # Behind
    <3>1. p.changes # {}
      BY <1>5 DEF Ended
    <3>2. c \in p.changes
      BY <3>1, NextIsLeast DEF Parsing
    <3>. QED
      BY <1>5, <3>1, <3>2 DEF Parsing, Changing, None, Behind
  <2>. DEFINE e == MSG_ReadDeltaEntity(c, oldstate)
              r == [ring |-> write(e), num |-> after(e), changes |-> rest,
                    oldindex |-> p.oldindex + 1,
                    oldnum |-> NumberAt(write(e), old, p.oldindex + 1)]
  <2>2. q = r
    <3>1. q = Passed(CL_DeltaEntity(Taken(p), e), old)
      BY <1>3, <1>5, <2>1 DEF ParseEntity, OldState
    <3>2. CL_DeltaEntity(Taken(p), e)
            = [ring |-> write(e), num |-> after(e), changes |-> rest,
               oldindex |-> p.oldindex, oldnum |-> p.oldnum]
      BY <1>2
    <3>3. PICK w, a : w = write(e) /\ a = after(e)
      OBVIOUS
    <3>4. q = Passed([ring |-> w, num |-> a, changes |-> rest,
                      oldindex |-> p.oldindex, oldnum |-> p.oldnum], old)
      BY <3>1, <3>2, <3>3
    <3>5. q = [ring |-> w, num |-> a, changes |-> rest, oldindex |-> p.oldindex + 1,
               oldnum |-> NumberAt(w, old, p.oldindex + 1)]
      BY <3>4, PassedIs
    <3>. QED
      BY <3>3, <3>5
  <2>3. Changes(p, r, old)
    BY <2>1 DEF Changes, Wrote, Passes
  <2>. QED
    BY <2>2, <2>3
<1>6. CASE p.oldnum > newnum
  <2>1. p.changes # {}
    BY <1>3, <1>6
  <2>. DEFINE e == MSG_ReadDeltaEntity(c, Baseline(level, c.number))
              r == [ring |-> write(e), num |-> after(e), changes |-> rest,
                    oldindex |-> p.oldindex, oldnum |-> p.oldnum]
  <2>2. q = r
    <3>1. q = CL_DeltaEntity(Taken(p), e)
      BY <1>3, <1>6, <2>1 DEF ParseEntity
    <3>. QED
      BY <1>2, <3>1
  <2>3. Adds(p, r)
    BY <1>6, <2>1 DEF Adds, Wrote, Stays
  <2>. QED
    BY <2>2, <2>3
<1>. QED
  BY <1>3, <1>4, <1>5, <1>6

-----------------------------------------------------------------------------
(* The turns of CL_ParsePacketEntities.                                    *)

(* What a base is at least: numbers in the client's ring. *)
BaseOK(old) == old.parseEntitiesNum \in Nat /\ old.numEntities \in Nat

ClientOK ==
  /\ parseEntities \in Ring(MAX_PARSE_ENTITIES, Entity) /\ parseEntitiesNum \in Nat
  /\ level \in Nat

(* Where CL_ParsePacketEntities begins, and its turns. *)
Begin(changes, old) ==
  [ring |-> parseEntities, num |-> parseEntitiesNum, changes |-> changes,
   oldindex |-> 0, oldnum |-> NumberAt(parseEntities, old, 0)]

Runs(f, changes, old) ==
  /\ f \in [Nat -> Parsing] /\ f[0] = Begin(changes, old)
  /\ \A k \in Nat : f[k + 1] = IF Ended(f[k]) THEN f[k] ELSE ParseEntity(f[k], old)

(* The ring written to is a ring of entities. *)
LEMMA WriteTypes ==
  ASSUME NEW p \in Parsing, NEW q, NEW e \in Entity, Wrote(p, q, e)
  PROVE  q.ring \in Ring(MAX_PARSE_ENTITIES, Entity) /\ q.num \in Nat
<1>1. p.ring \in Ring(MAX_PARSE_ENTITIES, Entity) /\ p.num \in Nat
  BY DEF Parsing
<1>2. q.num \in Nat
  BY <1>1 DEF Wrote
<1>3. \A s \in 0 .. (MAX_PARSE_ENTITIES - 1) : p.ring[s] \in Entity
  BY <1>1 DEF Ring
<1>4. q.ring = [s \in 0 .. (MAX_PARSE_ENTITIES - 1) |->
                  IF s = ClientSlot(p.num) THEN e ELSE p.ring[s]]
  BY DEF Wrote
<1>. QED
  BY <1>2, <1>3, <1>4 DEF Ring

(* Each turn leads from such a state to such a state. *)
LEMMA TurnTypes ==
  ASSUME ClientOK, NEW old, BaseOK(old), NEW p \in Parsing, ~Ended(p)
  PROVE  ParseEntity(p, old) \in Parsing
<1>. DEFINE q == ParseEntity(p, old)
            c == NextChange(p.changes)
<1>1. /\ q = [ring |-> q.ring, num |-> q.num, changes |-> q.changes,
              oldindex |-> q.oldindex, oldnum |-> q.oldnum]
      /\ Keeps(p, q, old) \/ Changes(p, q, old) \/ Adds(p, q)
  BY Turns
<1>2. /\ p.ring \in Ring(MAX_PARSE_ENTITIES, Entity) /\ p.num \in Nat /\ p.oldindex \in Nat
      /\ p.changes \subseteq Changing /\ IsFiniteSet(p.changes)
      /\ p.oldnum \in 0 .. None \cup {Behind}
  BY DEF Parsing
<1>3. OldState(p, old) \in Entity
  <2>1. old.parseEntitiesNum + p.oldindex \in Int
    BY <1>2 DEF BaseOK
  <2>2. ClientSlot(old.parseEntitiesNum + p.oldindex) \in 0 .. (MAX_PARSE_ENTITIES - 1)
    BY <2>1, SlotInRing
  <2>. QED
    BY <1>2, <2>2 DEF OldState, Ring
<1>4. p.changes # {} => c \in Changing /\ c.number \in 0 .. None
  <2>1. p.changes # {} => c \in p.changes
    BY <1>2, NextIsLeast
  <2>. QED
    BY <1>2, <2>1 DEF Changing
<1>5. IsFiniteSet(p.changes \ {c}) /\ p.changes \ {c} \subseteq Changing
  BY <1>2, FS_Subset
<1>. HIDE DEF q, c
<1>6. ASSUME q.ring \in Ring(MAX_PARSE_ENTITIES, Entity), Passes(p, q, old)
      PROVE  q.oldindex \in Nat /\ q.oldnum \in 0 .. None \cup {Behind}
  <2>1. p.oldindex + 1 \in Nat
    BY <1>2
  <2>2. NumberAt(q.ring, old, p.oldindex + 1) \in 0 .. None \cup {Behind}
    BY <1>6, <2>1, NumberAtType DEF BaseOK
  <2>. QED
    BY <1>6, <2>1, <2>2 DEF Passes
<1>7. /\ q.ring \in Ring(MAX_PARSE_ENTITIES, Entity) /\ q.num \in Nat /\ q.oldindex \in Nat
      /\ q.changes \subseteq Changing /\ IsFiniteSet(q.changes)
      /\ q.oldnum \in 0 .. None \cup {Behind}
  <2>1. CASE Keeps(p, q, old)
    <3>1. q.ring \in Ring(MAX_PARSE_ENTITIES, Entity) /\ q.num \in Nat
      BY <1>3, <2>1, WriteTypes DEF Keeps
    <3>. QED
      BY <1>2, <1>6, <2>1, <3>1 DEF Keeps
  <2>2. CASE Changes(p, q, old)
    <3>1. MSG_ReadDeltaEntity(c, OldState(p, old)) \in Entity
      BY <1>3, <1>4, <2>2, ReadIsEntity DEF Changes
    <3>2. Wrote(p, q, MSG_ReadDeltaEntity(c, OldState(p, old)))
      BY <2>2 DEF Changes, c
    <3>3. q.ring \in Ring(MAX_PARSE_ENTITIES, Entity) /\ q.num \in Nat
      BY <3>1, <3>2, WriteTypes
    <3>4. q.changes = p.changes \ {c} /\ Passes(p, q, old)
      BY <2>2 DEF Changes, c
    <3>. QED
      BY <1>5, <1>6, <3>3, <3>4
  <2>3. CASE Adds(p, q)
    <3>1. Baseline(level, c.number) \in Entity
      BY <1>4, <2>3, BaselineIsEntity DEF Adds, ClientOK
    <3>2. MSG_ReadDeltaEntity(c, Baseline(level, c.number)) \in Entity
      BY <1>4, <2>3, <3>1, ReadIsEntity DEF Adds
    <3>3. Wrote(p, q, MSG_ReadDeltaEntity(c, Baseline(level, c.number)))
      BY <2>3 DEF Adds, c
    <3>4. q.ring \in Ring(MAX_PARSE_ENTITIES, Entity) /\ q.num \in Nat
      BY <3>2, <3>3, WriteTypes
    <3>5. q.changes = p.changes \ {c} /\ Stays(p, q)
      BY <2>3 DEF Adds, c
    <3>. QED
      BY <1>2, <1>5, <3>4, <3>5 DEF Stays
  <2>. QED
    BY <1>1, <2>1, <2>2, <2>3
<1>8. q \in Parsing
  BY <1>1, <1>7 DEF Parsing
<1>. QED
  BY <1>8 DEF q

(* CL_ParsePacketEntities is where its turns end. *)
LEMMA ParseRuns ==
  ASSUME ClientOK, NEW old, BaseOK(old),
         NEW changes, changes \subseteq Changing, IsFiniteSet(changes)
  PROVE  \E f : /\ Runs(f, changes, old)
                /\ CL_ParsePacketEntities(changes, old)
                     = f[Cardinality(changes) + old.numEntities]
<1>. DEFINE a == Begin(changes, old)
            After(p) == IF Ended(p) THEN p ELSE ParseEntity(p, old)
            G == [p \in Parsing |-> After(p)]
            g == CHOOSE h : h = [k \in Nat |-> IF k = 0 THEN a ELSE After(h[k - 1])]
<1>1. a \in Parsing
  <2>1. NumberAt(parseEntities, old, 0) \in 0 .. None \cup {Behind}
    BY NumberAtType DEF ClientOK, BaseOK
  <2>. QED
    BY <2>1 DEF Begin, Parsing, ClientOK
<1>2. \A p \in Parsing : After(p) \in Parsing
  BY TurnTypes
<1>3. G \in [Parsing -> Parsing]
  BY <1>2
<1>4. PICK f \in [Nat -> Parsing] : f[0] = a /\ \A n \in Nat : f[n + 1] = G[f[n]]
  <2>. HIDE DEF G, a
  <2>. QED
    BY <1>1, <1>3, RunExists
<1>5. f = [k \in Nat |-> IF k = 0 THEN a ELSE After(f[k - 1])]
  <2>1. ASSUME NEW k \in Nat PROVE f[k] = IF k = 0 THEN a ELSE After(f[k - 1])
    <3>1. CASE k = 0
      BY <1>4, <3>1
    <3>2. CASE k # 0
      <4>1. k - 1 \in Nat /\ (k - 1) + 1 = k
        BY <3>2
      <4>2. f[k] = G[f[k - 1]] /\ f[k - 1] \in Parsing
        <5>. HIDE DEF G, a
        <5>. QED
          BY <1>4, <4>1
      <4>3. G[f[k - 1]] = After(f[k - 1])
        BY <4>2
      <4>. QED
        BY <3>2, <4>2, <4>3
    <3>. QED
      BY <3>1, <3>2
  <2>. HIDE DEF a, After, G
  <2>. QED
    BY <2>1
<1>6. g = [k \in Nat |-> IF k = 0 THEN a ELSE After(g[k - 1])]
  <2>. HIDE DEF a, After
  <2>. QED
    BY <1>5
<1>7. CL_ParsePacketEntities(changes, old) = g[Cardinality(changes) + old.numEntities]
  BY DEF CL_ParsePacketEntities, Begin, Ended
<1>. HIDE DEF g, G
<1>8. g[0] = a /\ \A k \in Nat : g[k + 1] = After(g[k])
  <2>1. \A k \in Nat : k + 1 \in Nat /\ k + 1 # 0 /\ (k + 1) - 1 = k
    OBVIOUS
  <2>. HIDE DEF a, After
  <2>. QED
    BY <1>6, <2>1
<1>9. g \in [Nat -> Parsing]
  <2>. DEFINE T == {k \in Nat : g[k] \in Parsing}
  <2>1. 0 \in T
    BY <1>1, <1>8
  <2>2. \A k \in Nat : k \in T => k + 1 \in T
    <3>. HIDE DEF a, After
    <3>. QED
      BY <1>2, <1>8
  <2>3. Nat \subseteq T
    <3>. HIDE DEF T
    <3>. QED
      BY <2>1, <2>2, Inducts
  <2>4. g = [k \in Nat |-> g[k]]
    <3>. HIDE DEF a, After
    <3>. QED
      BY <1>6
  <2>. QED
    BY <2>3, <2>4
<1>. QED
  BY <1>7, <1>8, <1>9 DEF Runs

-----------------------------------------------------------------------------
(* The base and the list merged.                                           *)

(* A list of entities as SV_BuildClientSnapshot makes it. *)
Sorted(v) ==
  /\ v \in Seq(Entity) /\ \A i \in 1 .. Len(v) : v[i].number # None
  /\ \A i, j \in 1 .. Len(v) : i < j => v[i].number < v[j].number

(* What the changes from v to w say of each entity. *)
Tells(changes, lvl, v, w) ==
  /\ \A c \in changes : \/ \E i \in 1 .. Len(v) : v[i].number = c.number
                        \/ \E j \in 1 .. Len(w) : w[j].number = c.number
  /\ \A c, d \in changes : c.number = d.number => c = d
  /\ \A i \in 1 .. Len(v) : \/ \E c \in changes : c.number = v[i].number
                            \/ \E j \in 1 .. Len(w) : w[j] = v[i]
  /\ \A j \in 1 .. Len(w) : \/ \E c \in changes : c.number = w[j].number
                            \/ \E i \in 1 .. Len(v) : v[i] = w[j]
  /\ \A c \in changes : \A i \in 1 .. Len(v) : c.number = v[i].number =>
       \/ \E j \in 1 .. Len(w) : w[j].number = c.number /\ MSG_ReadDeltaEntity(c, v[i]) = w[j]
       \/ /\ \A j \in 1 .. Len(w) : w[j].number # c.number
          /\ MSG_ReadDeltaEntity(c, v[i]) = Removed
  /\ \A c \in changes : \A j \in 1 .. Len(w) :
       c.number = w[j].number /\ (\A i \in 1 .. Len(v) : v[i].number # c.number)
         => MSG_ReadDeltaEntity(c, Baseline(lvl, c.number)) = w[j]

(* The client has the base v, in a place that is not about to be written   *)
(* over, and reads the changes to w.                                       *)
Merges(old, changes, v, w) ==
  /\ BaseOK(old) /\ old.numEntities = Len(v) /\ Sorted(v) /\ Sorted(w)
  /\ Tells(changes, level, v, w) /\ NotAhead(v, w)
  /\ changes \subseteq Changing /\ IsFiniteSet(changes)
  /\ \A t \in 1 .. Len(v) : parseEntities[ClientSlot(old.parseEntitiesNum + t - 1)] = v[t]
  /\ Len(v) > 0 => /\ parseEntitiesNum - old.parseEntitiesNum <= MAX_PARSE_ENTITIES - MARGIN
                   /\ old.parseEntitiesNum + Len(v) <= parseEntitiesNum

(* How far it is: i entities of the base are done with, j are written. *)
Written(p, w, j) ==
  \A t \in 1 .. j : parseEntitiesNum + t - 1 > p.num - MAX_PARSE_ENTITIES
                      => p.ring[ClientSlot(parseEntitiesNum + t - 1)] = w[t]
BaseAhead(p, old, v, i) ==
  \A t \in (i + 1) .. Len(v) : p.ring[ClientSlot(old.parseEntitiesNum + t - 1)] = v[t]
Apart(v, w, i, j) ==
  /\ \A t \in 1 .. i, u \in (j + 1) .. Len(w) : v[t].number < w[u].number
  /\ \A t \in 1 .. j, u \in (i + 1) .. Len(v) : w[t].number < v[u].number
Ahead(n, v, w, i, j) ==
  (\E t \in (i + 1) .. Len(v) : v[t].number = n) \/ (\E u \in (j + 1) .. Len(w) : w[u].number = n)
Left(p, changes, v, w, i, j) ==
  \A c : c \in p.changes <=> c \in changes /\ Ahead(c.number, v, w, i, j)
NumberOf(v, i) == IF i < Len(v) THEN v[i + 1].number ELSE Behind

Merged(p, old, changes, v, w, i, j) ==
  /\ p \in Parsing /\ p.oldindex = i /\ p.num = parseEntitiesNum + j
  /\ i \in 0 .. Len(v) /\ j \in 0 .. Len(w) /\ p.oldnum = NumberOf(v, i)
  /\ Written(p, w, j) /\ BaseAhead(p, old, v, i) /\ Apart(v, w, i, j)
  /\ Left(p, changes, v, w, i, j)

(* Numbers less than the ring apart have places of their own. *)
LEMMA SlotsDiffer ==
  ASSUME NEW x \in Int, NEW y \in Int, x < y, y - x < MAX_PARSE_ENTITIES
  PROVE  ClientSlot(x) # ClientSlot(y)
<1>1. MAX_PARSE_ENTITIES \in Nat \ {0}
  BY SnapshotsAssumption DEF SnapshotsAssumption
<1>2. x % MAX_PARSE_ENTITIES # y % MAX_PARSE_ENTITIES
  BY <1>1, PlacesDiffer
<1>. QED
  BY <1>2 DEF ClientSlot

(* The numbers of a list of entities. *)
LEMMA SortedNumbers ==
  ASSUME NEW v, Sorted(v)
  PROVE  /\ Len(v) \in Nat
         /\ \A i \in 1 .. Len(v) : v[i] \in Entity /\ v[i].number \in Nat /\ v[i].number < Behind
                                   /\ v[i].number # None
         /\ \A i, j \in 1 .. Len(v) : i < j => v[i].number < v[j].number
<1>1. Len(v) \in Nat /\ \A i \in 1 .. Len(v) : v[i] \in Entity
  BY DEF Sorted
<1>2. \A e \in Entity : e.number \in Nat /\ e.number < Behind
  BY DEF Entity, None, Behind
<1>. QED
  BY <1>1, <1>2 DEF Sorted

(* What is written and what is still to be read of the base outlasts the   *)
(* next write.                                                             *)
LEMMA WriteKeeps ==
  ASSUME ClientOK, NEW old, NEW changes, NEW v, NEW w, Merges(old, changes, v, w),
         NEW p, NEW i, NEW j, Merged(p, old, changes, v, w, i, j), NEW q, NEW e, Wrote(p, q, e),
         NEW k \in {i, i + 1}, k < Len(v) => j + 1 <= MARGIN + k
  PROVE  BaseAhead(q, old, v, k) /\ Written(q, w, j)
<1>. DEFINE M == MAX_PARSE_ENTITIES
            n == parseEntitiesNum + j
<1>1. /\ M \in Nat \ {0} /\ MARGIN \in Nat /\ parseEntitiesNum \in Nat
      /\ old.parseEntitiesNum \in Nat /\ Len(v) \in Nat /\ Len(w) \in Nat
      /\ i \in 0 .. Len(v) /\ j \in 0 .. Len(w) /\ p.num = n /\ n \in Nat
  BY SnapshotsAssumption, SortedNumbers
  DEF SnapshotsAssumption, ClientOK, Merges, Merged, BaseOK
<1>2. \A x \in Int : x < n /\ n - x < M => q.ring[ClientSlot(x)] = p.ring[ClientSlot(x)]
  <2>. TAKE x \in Int
  <2>. HAVE x < n /\ n - x < M
  <2>1. ClientSlot(x) # ClientSlot(n)
    <3>. HIDE DEF n
    <3>. QED
      BY <1>1, SlotsDiffer
  <2>2. ClientSlot(x) \in 0 .. (M - 1)
    BY SlotInRing
  <2>. QED
    BY <1>1, <2>1, <2>2 DEF Wrote
<1>3. q.num \in Nat /\ q.num >= n
  BY <1>1 DEF Wrote
<1>4. ASSUME NEW t \in 1 .. j, parseEntitiesNum + t - 1 > q.num - M
      PROVE  q.ring[ClientSlot(parseEntitiesNum + t - 1)] = w[t]
  <2>. DEFINE x == parseEntitiesNum + t - 1
  <2>1. x \in Int /\ x < n /\ n - x < M /\ x > n - M
    BY <1>1, <1>3, <1>4
  <2>2. p.ring[ClientSlot(x)] = w[t]
    BY <1>1, <2>1 DEF Merged, Written
  <2>. HIDE DEF x
  <2>3. q.ring[ClientSlot(x)] = w[t]
    BY <1>2, <2>1, <2>2
  <2>. QED
    BY <2>3 DEF x
<1>5. ASSUME NEW t \in (k + 1) .. Len(v)
      PROVE  q.ring[ClientSlot(old.parseEntitiesNum + t - 1)] = v[t]
  <2>. DEFINE x == old.parseEntitiesNum + t - 1
  <2>1. Len(v) > 0 /\ k < Len(v) /\ t \in (i + 1) .. Len(v)
    BY <1>1
  <2>2. /\ parseEntitiesNum - old.parseEntitiesNum <= M - MARGIN
        /\ old.parseEntitiesNum + Len(v) <= parseEntitiesNum
    BY <2>1 DEF Merges
  <2>3. x \in Int /\ x < n /\ n - x < M
    <3>1. j + 1 <= MARGIN + k /\ k \in Int /\ t \in Int /\ t >= k + 1 /\ t <= Len(v)
      BY <1>1, <2>1
    <3>2. j \in Nat /\ M \in Int /\ MARGIN \in Int
      BY <1>1
    <3>3. old.parseEntitiesNum + t - 1 < parseEntitiesNum + j
      BY <1>1, <2>2, <3>1, <3>2
    <3>4. (parseEntitiesNum + j) - (old.parseEntitiesNum + t - 1) < M
      <4>. HIDE DEF M
      <4>. QED
        BY <1>1, <2>2, <3>1, <3>2
    <3>. QED
      BY <1>1, <3>1, <3>3, <3>4
  <2>4. p.ring[ClientSlot(x)] = v[t]
    BY <2>1 DEF Merged, BaseAhead
  <2>. HIDE DEF x
  <2>5. q.ring[ClientSlot(x)] = v[t]
    BY <1>2, <2>3, <2>4
  <2>. QED
    BY <2>5 DEF x
<1>. QED
  BY <1>4, <1>5 DEF BaseAhead, Written

(* The entity written is the next of the list. *)
LEMMA WriteAdds ==
  ASSUME ClientOK, NEW old, NEW changes, NEW v, NEW w, Merges(old, changes, v, w),
         NEW p, NEW i, NEW j, Merged(p, old, changes, v, w, i, j), j < Len(w),
         NEW q, Wrote(p, q, w[j + 1]), Written(q, w, j)
  PROVE  Written(q, w, j + 1) /\ q.num = parseEntitiesNum + (j + 1)
<1>1. /\ j \in Nat /\ parseEntitiesNum \in Nat /\ p.num = parseEntitiesNum + j
      /\ j + 1 \in 1 .. Len(w)
  BY SortedNumbers DEF ClientOK, Merges, Merged
<1>2. w[j + 1].number # None
  BY <1>1, SortedNumbers DEF Merges
<1>3. q.num = parseEntitiesNum + (j + 1)
  BY <1>1, <1>2 DEF Wrote
<1>4. q.ring[ClientSlot(parseEntitiesNum + j)] = w[j + 1]
  <2>1. ClientSlot(parseEntitiesNum + j) \in 0 .. (MAX_PARSE_ENTITIES - 1)
    BY <1>1, SlotInRing
  <2>. QED
    BY <1>1, <2>1 DEF Wrote
<1>5. \A t \in 1 .. (j + 1) : t \in 1 .. j \/ (t = j + 1 /\ parseEntitiesNum + t - 1 = parseEntitiesNum + j)
  BY <1>1
<1>. QED
  BY <1>3, <1>4, <1>5 DEF Written

(* The base moves on. *)
LEMMA BaseMovesOn ==
  ASSUME ClientOK, NEW old, NEW changes, NEW v, NEW w, Merges(old, changes, v, w),
         NEW p, NEW i, NEW j, Merged(p, old, changes, v, w, i, j), i < Len(v), NEW q,
         Passes(p, q, old), BaseAhead(q, old, v, i + 1)
  PROVE  /\ q.oldindex = i + 1 /\ q.oldnum = NumberOf(v, i + 1) /\ i + 1 \in 0 .. Len(v)
<1>1. /\ i \in Nat /\ Len(v) \in Nat /\ p.oldindex = i /\ old.numEntities = Len(v)
      /\ old.parseEntitiesNum \in Nat
  BY SortedNumbers DEF Merges, Merged, BaseOK
<1>2. q.oldindex = i + 1 /\ q.oldnum = NumberAt(q.ring, old, i + 1) /\ i + 1 \in 0 .. Len(v)
  BY <1>1 DEF Passes
<1>3. CASE i + 1 < Len(v)
  <2>1. (i + 1) + 1 \in ((i + 1) + 1) .. Len(v)
    BY <1>1, <1>3
  <2>2. old.parseEntitiesNum + ((i + 1) + 1) - 1 = old.parseEntitiesNum + (i + 1)
    BY <1>1
  <2>3. q.ring[ClientSlot(old.parseEntitiesNum + (i + 1))] = v[(i + 1) + 1]
    BY <2>1, <2>2 DEF BaseAhead
  <2>. QED
    BY <1>1, <1>2, <1>3, <2>3 DEF NumberAt, NumberOf
<1>4. CASE ~ i + 1 < Len(v)
  BY <1>1, <1>2, <1>4 DEF NumberAt, NumberOf
<1>. QED
  BY <1>3, <1>4

(* What comes next of the base. *)
LEMMA OldStateIs ==
  ASSUME NEW old, NEW changes, NEW v, NEW w, Merges(old, changes, v, w),
         NEW p, NEW i, NEW j, Merged(p, old, changes, v, w, i, j), i < Len(v)
  PROVE  OldState(p, old) = v[i + 1]
<1>1. i \in Nat /\ Len(v) \in Nat /\ p.oldindex = i /\ old.parseEntitiesNum \in Nat
  BY SortedNumbers DEF Merges, Merged, BaseOK
<1>2. i + 1 \in (i + 1) .. Len(v) /\ old.parseEntitiesNum + (i + 1) - 1 = old.parseEntitiesNum + i
  BY <1>1
<1>. QED
  BY <1>1, <1>2 DEF OldState, Merged, BaseAhead

(* If the list's next entity comes before the base's, there is a change    *)
(* for it.                                                                 *)
LEMMA NextHasChange ==
  ASSUME NEW old, NEW changes, NEW v, NEW w, Merges(old, changes, v, w),
         NEW p, NEW i, NEW j, Merged(p, old, changes, v, w, i, j), j < Len(w),
         i < Len(v) => w[j + 1].number < v[i + 1].number
  PROVE  \E c \in p.changes : c.number = w[j + 1].number
<1>1. /\ i \in Nat /\ Len(v) \in Nat /\ j \in Nat /\ Len(w) \in Nat
      /\ j + 1 \in 1 .. Len(w) /\ j + 1 \in (j + 1) .. Len(w)
  BY SortedNumbers DEF Merges, Merged
<1>2. ASSUME NEW t \in 1 .. Len(v), v[t] = w[j + 1] PROVE FALSE
  <2>0. v[t].number \in Nat /\ w[j + 1].number = v[t].number
    BY <1>2, SortedNumbers DEF Merges
  <2>1. CASE t <= i
    <3>1. t \in 1 .. i
      BY <1>1, <2>1
    <3>2. v[t].number < w[j + 1].number
      BY <1>1, <3>1 DEF Merged, Apart
    <3>. QED
      BY <2>0, <3>2
  <2>2. CASE t > i
    <3>1. i < Len(v) /\ i + 1 \in 1 .. Len(v) /\ (t = i + 1 \/ i + 1 < t)
      BY <1>1, <2>2
    <3>2. v[i + 1].number \in Nat /\ (v[i + 1].number = v[t].number \/ v[i + 1].number < v[t].number)
      BY <3>1, SortedNumbers DEF Merges
    <3>. QED
      BY <2>0, <3>1, <3>2
  <2>. QED
    BY <1>1, <2>1, <2>2
<1>3. \E c \in changes : c.number = w[j + 1].number
  BY <1>1, <1>2 DEF Merges, Tells
<1>4. Ahead(w[j + 1].number, v, w, i, j)
  BY <1>1 DEF Ahead
<1>. QED
  BY <1>3, <1>4 DEF Merged, Left

-----------------------------------------------------------------------------
(* A turn of the merge.                                                    *)

(* What comes next of either list, and of the changes. *)
LEMMA MergeNumbers ==
  ASSUME NEW old, NEW changes, NEW v, NEW w, Merges(old, changes, v, w),
         NEW p, NEW i, NEW j, Merged(p, old, changes, v, w, i, j)
  PROVE  /\ i \in Nat /\ j \in Nat /\ Len(v) \in Nat /\ Len(w) \in Nat
         /\ i <= Len(v) /\ j <= Len(w) /\ MARGIN \in Nat
         /\ p.oldnum # Behind <=> i < Len(v)
         /\ i < Len(v) => i + 1 \in 1 .. Len(v) /\ p.oldnum = v[i + 1].number
         /\ i = Len(v) => p.oldnum = Behind
         /\ \A c \in p.changes : c \in changes /\ c.number \in Nat /\ c.number < Behind
         /\ p.changes # {} => /\ NextChange(p.changes) \in p.changes
                              /\ \A d \in p.changes : NextChange(p.changes).number <= d.number
<1>1. /\ i \in Nat /\ j \in Nat /\ Len(v) \in Nat /\ Len(w) \in Nat /\ i <= Len(v) /\ j <= Len(w)
  BY SortedNumbers DEF Merges, Merged
<1>2. i < Len(v) => i + 1 \in 1 .. Len(v) /\ v[i + 1].number \in Nat /\ v[i + 1].number < Behind
  BY <1>1, SortedNumbers DEF Merges
<1>3. p.oldnum = IF i < Len(v) THEN v[i + 1].number ELSE Behind
  BY DEF Merged, NumberOf
<1>4. Behind \in Nat
  BY DEF Behind
<1>5. \A c \in Changing : c.number \in Nat /\ c.number < Behind
  BY DEF Changing, None, Behind
<1>6. p.changes \subseteq Changing /\ IsFiniteSet(p.changes)
  BY DEF Merged, Parsing
<1>7. p.changes # {} => /\ NextChange(p.changes) \in p.changes
                        /\ \A d \in p.changes : NextChange(p.changes).number <= d.number
  BY <1>6, NextIsLeast
<1>8. \A c \in p.changes : c \in changes
  BY DEF Merged, Left
<1>9. MARGIN \in Nat
  BY SnapshotsAssumption DEF SnapshotsAssumption
<1>. QED
  BY <1>1, <1>2, <1>3, <1>4, <1>5, <1>6, <1>7, <1>8, <1>9

(* An entity of the list that comes no later than the base's next one and  *)
(* the next change is the list's next one.                                 *)
LEMMA FirstOfList ==
  ASSUME NEW old, NEW changes, NEW v, NEW w, Merges(old, changes, v, w),
         NEW p, NEW i, NEW j, Merged(p, old, changes, v, w, i, j),
         NEW u \in (j + 1) .. Len(w), i < Len(v) => w[u].number <= v[i + 1].number,
         \A d \in p.changes : w[u].number <= d.number
  PROVE  u = j + 1
<1>1. SUFFICES ASSUME u # j + 1 PROVE FALSE
  OBVIOUS
<1>2. /\ i \in Nat /\ j \in Nat /\ Len(v) \in Nat /\ Len(w) \in Nat
      /\ i < Len(v) => i + 1 \in 1 .. Len(v)
      /\ \A d \in p.changes : d.number \in Nat
  BY MergeNumbers
<1>3. j + 1 < u /\ j + 1 \in 1 .. Len(w) /\ u \in 1 .. Len(w) /\ j < Len(w)
  BY <1>1, <1>2
<1>4. w[j + 1].number \in Nat /\ w[u].number \in Nat /\ w[j + 1].number < w[u].number
  BY <1>3, SortedNumbers DEF Merges
<1>5. i < Len(v) => v[i + 1].number \in Nat
  BY <1>2, SortedNumbers DEF Merges
<1>6. i < Len(v) => w[j + 1].number < v[i + 1].number
  BY <1>4, <1>5
<1>7. PICK c \in p.changes : c.number = w[j + 1].number
  BY <1>3, <1>6, NextHasChange
<1>. QED
  BY <1>2, <1>4, <1>7

(* No more than MARGIN entities are written ahead of the base. *)
LEMMA MarginFits ==
  ASSUME NEW old, NEW changes, NEW v, NEW w, Merges(old, changes, v, w),
         NEW p, NEW i, NEW j, Merged(p, old, changes, v, w, i, j), i < Len(v)
  PROVE  j <= MARGIN + i
<1>1. /\ i \in Nat /\ j \in Nat /\ MARGIN \in Nat /\ Len(v) \in Nat /\ Len(w) \in Nat /\ j <= Len(w)
      /\ i + 1 \in 1 .. Len(v)
  BY MergeNumbers
<1>2. CASE j = 0
  BY <1>1, <1>2
<1>3. CASE j # 0
  <2>1. j \in 1 .. j /\ i + 1 \in (i + 1) .. Len(v) /\ j \in 1 .. Len(w)
    BY <1>1, <1>3
  <2>2. w[j].number < v[i + 1].number
    BY <2>1 DEF Merged, Apart
  <2>3. j <= MARGIN + (i + 1) - 1
    BY <1>1, <2>1, <2>2 DEF Merges, NotAhead
  <2>. QED
    BY <1>1, <2>3
<1>. QED
  BY <1>2, <1>3

(* Both lists move on, at the same number. *)
LEMMA BothMoveOn ==
  ASSUME NEW v, Sorted(v), NEW w, Sorted(w), NEW i \in Nat, NEW j \in Nat, i < Len(v), j < Len(w),
         Apart(v, w, i, j), v[i + 1].number = w[j + 1].number
  PROVE  /\ Apart(v, w, i + 1, j + 1)
         /\ \A n : Ahead(n, v, w, i + 1, j + 1)
                     <=> Ahead(n, v, w, i, j) /\ n # v[i + 1].number
<1>1. /\ Len(v) \in Nat /\ Len(w) \in Nat
      /\ \A t \in 1 .. Len(v) : v[t].number \in Nat
      /\ \A t \in 1 .. Len(w) : w[t].number \in Nat
      /\ \A s, t \in 1 .. Len(v) : s < t => v[s].number < v[t].number
      /\ \A s, t \in 1 .. Len(w) : s < t => w[s].number < w[t].number
  BY SortedNumbers
<1>2. \A t \in 1 .. (i + 1) : t \in 1 .. i \/ t = i + 1
  OBVIOUS
<1>3. \A t \in 1 .. (j + 1) : t \in 1 .. j \/ t = j + 1
  OBVIOUS
<1>4. \A t : /\ t \in ((i + 1) + 1) .. Len(v) => t \in (i + 1) .. Len(v) /\ t \in 1 .. Len(v) /\ i + 1 < t
             /\ t \in (i + 1) .. Len(v) => t = i + 1 \/ t \in ((i + 1) + 1) .. Len(v)
  BY <1>1
<1>5. \A t : /\ t \in ((j + 1) + 1) .. Len(w) => t \in (j + 1) .. Len(w) /\ t \in 1 .. Len(w) /\ j + 1 < t
             /\ t \in (j + 1) .. Len(w) => t = j + 1 \/ t \in ((j + 1) + 1) .. Len(w)
  BY <1>1
<1>6. i + 1 \in 1 .. Len(v) /\ j + 1 \in 1 .. Len(w) /\ i + 1 \in (i + 1) .. Len(v)
      /\ j + 1 \in (j + 1) .. Len(w)
  BY <1>1
<1>7. \A t \in ((i + 1) + 1) .. Len(v) : v[i + 1].number < v[t].number
  BY <1>1, <1>4, <1>6
<1>8. \A t \in ((j + 1) + 1) .. Len(w) : w[j + 1].number < w[t].number
  BY <1>1, <1>5, <1>6
<1>9. Apart(v, w, i + 1, j + 1)
  BY <1>2, <1>3, <1>4, <1>5, <1>7, <1>8 DEF Apart
<1>10. ASSUME NEW n PROVE Ahead(n, v, w, i + 1, j + 1)
                            <=> Ahead(n, v, w, i, j) /\ n # v[i + 1].number
  <2>1. ASSUME Ahead(n, v, w, i + 1, j + 1) PROVE Ahead(n, v, w, i, j) /\ n # v[i + 1].number
    <3>1. Ahead(n, v, w, i, j)
      BY <2>1, <1>4, <1>5 DEF Ahead
    <3>2. n # v[i + 1].number
      BY <2>1, <1>1, <1>4, <1>5, <1>6, <1>7, <1>8 DEF Ahead
    <3>. QED
      BY <3>1, <3>2
  <2>2. ASSUME Ahead(n, v, w, i, j), n # v[i + 1].number PROVE Ahead(n, v, w, i + 1, j + 1)
    BY <2>2, <1>4, <1>5 DEF Ahead
  <2>. QED
    BY <2>1, <2>2
<1>. QED
  BY <1>9, <1>10

(* The base alone moves on. *)
LEMMA BaseAloneMovesOn ==
  ASSUME NEW v, Sorted(v), NEW w, Sorted(w), NEW i \in Nat, NEW j \in Nat, i < Len(v),
         Apart(v, w, i, j), \A u \in (j + 1) .. Len(w) : v[i + 1].number < w[u].number
  PROVE  /\ Apart(v, w, i + 1, j)
         /\ \A n : Ahead(n, v, w, i + 1, j)
                     <=> Ahead(n, v, w, i, j) /\ n # v[i + 1].number
<1>1. /\ Len(v) \in Nat /\ Len(w) \in Nat
      /\ \A t \in 1 .. Len(v) : v[t].number \in Nat
      /\ \A t \in 1 .. Len(w) : w[t].number \in Nat
      /\ \A s, t \in 1 .. Len(v) : s < t => v[s].number < v[t].number
  BY SortedNumbers
<1>2. \A t \in 1 .. (i + 1) : t \in 1 .. i \/ t = i + 1
  OBVIOUS
<1>4. \A t : /\ t \in ((i + 1) + 1) .. Len(v) => t \in (i + 1) .. Len(v) /\ t \in 1 .. Len(v) /\ i + 1 < t
             /\ t \in (i + 1) .. Len(v) => t = i + 1 \/ t \in ((i + 1) + 1) .. Len(v)
  BY <1>1
<1>5. \A t : t \in (j + 1) .. Len(w) => t \in 1 .. Len(w)
  BY <1>1
<1>6. i + 1 \in 1 .. Len(v)
  BY <1>1
<1>7. \A t \in ((i + 1) + 1) .. Len(v) : v[i + 1].number < v[t].number
  BY <1>1, <1>4, <1>6
<1>8. Apart(v, w, i + 1, j)
  BY <1>2, <1>4 DEF Apart
<1>9. ASSUME NEW n PROVE Ahead(n, v, w, i + 1, j)
                            <=> Ahead(n, v, w, i, j) /\ n # v[i + 1].number
  <2>1. ASSUME Ahead(n, v, w, i + 1, j) PROVE Ahead(n, v, w, i, j) /\ n # v[i + 1].number
    <3>1. Ahead(n, v, w, i, j)
      BY <2>1, <1>4 DEF Ahead
    <3>2. n # v[i + 1].number
      BY <2>1, <1>1, <1>4, <1>5, <1>6, <1>7 DEF Ahead
    <3>. QED
      BY <3>1, <3>2
  <2>2. ASSUME Ahead(n, v, w, i, j), n # v[i + 1].number PROVE Ahead(n, v, w, i + 1, j)
    BY <2>2, <1>4 DEF Ahead
  <2>. QED
    BY <2>1, <2>2
<1>. QED
  BY <1>8, <1>9

(* The list alone moves on. *)
LEMMA ListMovesOn ==
  ASSUME NEW v, Sorted(v), NEW w, Sorted(w), NEW i \in Nat, NEW j \in Nat, j < Len(w),
         Apart(v, w, i, j), \A u \in (i + 1) .. Len(v) : w[j + 1].number < v[u].number
  PROVE  /\ Apart(v, w, i, j + 1)
         /\ \A n : Ahead(n, v, w, i, j + 1)
                     <=> Ahead(n, v, w, i, j) /\ n # w[j + 1].number
<1>1. Apart(w, v, j, i)
  BY DEF Apart
<1>2. /\ Apart(w, v, j + 1, i)
      /\ \A n : Ahead(n, w, v, j + 1, i) <=> Ahead(n, w, v, j, i) /\ n # w[j + 1].number
  BY <1>1, BaseAloneMovesOn
<1>3. Apart(v, w, i, j + 1)
  BY <1>2 DEF Apart
<1>4. \A n, k, l : Ahead(n, v, w, k, l) <=> Ahead(n, w, v, l, k)
  BY DEF Ahead
<1>. QED
  BY <1>2, <1>3, <1>4

-----------------------------------------------------------------------------
(* Where a turn leads to.                                                  *)

(* The pieces of a turn after which i entities of the base and j of the    *)
(* list are done with.                                                     *)
LEMMA Advanced ==
  ASSUME NEW old, NEW changes, NEW v, NEW w, NEW q \in Parsing, NEW i, NEW j,
         i \in 0 .. Len(v), j \in 0 .. Len(w), q.oldindex = i, q.num = parseEntitiesNum + j,
         q.oldnum = NumberOf(v, i), Written(q, w, j), BaseAhead(q, old, v, i),
         Apart(v, w, i, j), Left(q, changes, v, w, i, j)
  PROVE  Merged(q, old, changes, v, w, i, j)
  BY DEF Merged

(* An entity that no change is about stays as it is. *)
LEMMA KeepsMerged ==
  ASSUME ClientOK, NEW old, NEW changes, NEW v, NEW w, Merges(old, changes, v, w),
         NEW p, NEW i, NEW j, Merged(p, old, changes, v, w, i, j),
         NEW q \in Parsing, Keeps(p, q, old)
  PROVE  Merged(q, old, changes, v, w, i + 1, j + 1)
<1>1. /\ i \in Nat /\ j \in Nat /\ Len(v) \in Nat /\ Len(w) \in Nat
      /\ i <= Len(v) /\ j <= Len(w) /\ MARGIN \in Nat
      /\ \A c \in p.changes : c \in changes /\ c.number \in Nat
  BY MergeNumbers
<1>2. p.oldnum # Behind
  BY DEF Keeps, Passes
<1>3. i < Len(v) /\ i + 1 \in 1 .. Len(v) /\ p.oldnum = v[i + 1].number
  BY <1>2, MergeNumbers
<1>4. OldState(p, old) = v[i + 1]
  BY <1>3, OldStateIs
<1>5. v[i + 1].number \in Nat
  BY <1>3, SortedNumbers DEF Merges
<1>6. \A d \in p.changes : v[i + 1].number < d.number
  <2>1. SUFFICES ASSUME NEW d \in p.changes PROVE v[i + 1].number < d.number
    OBVIOUS
  <2>2. NextChange(p.changes) \in p.changes /\ NextChange(p.changes).number <= d.number
    BY MergeNumbers
  <2>3. v[i + 1].number < NextChange(p.changes).number
    BY <1>3 DEF Keeps
  <2>4. d.number \in Nat /\ NextChange(p.changes).number \in Nat
    BY <1>1, <2>2
  <2>. QED
    BY <1>5, <2>2, <2>3, <2>4
<1>7. PICK u \in 1 .. Len(w) : w[u] = v[i + 1]
  <2>1. Ahead(v[i + 1].number, v, w, i, j)
    <3>1. i + 1 \in (i + 1) .. Len(v)
      BY <1>1, <1>3
    <3>. QED
      BY <3>1 DEF Ahead
  <2>2. ASSUME NEW c \in changes, c.number = v[i + 1].number PROVE FALSE
    <3>1. c \in p.changes
      BY <2>1, <2>2 DEF Merged, Left
    <3>. QED
      BY <1>5, <1>6, <2>2, <3>1
  <2>. QED
    BY <1>3, <2>2 DEF Merges, Tells
<1>8. u \in (j + 1) .. Len(w)
  <2>1. ASSUME u <= j PROVE FALSE
    <3>1. u \in 1 .. j /\ i + 1 \in (i + 1) .. Len(v)
      BY <1>1, <1>3, <2>1
    <3>2. w[u].number < v[i + 1].number
      BY <3>1 DEF Merged, Apart
    <3>. QED
      BY <1>5, <1>7, <3>2
  <2>. QED
    BY <1>1, <2>1
<1>9. u = j + 1
  <2>1. i < Len(v) => w[u].number <= v[i + 1].number
    BY <1>5, <1>7
  <2>2. \A d \in p.changes : w[u].number <= d.number
    BY <1>1, <1>5, <1>6, <1>7
  <2>. QED
    BY <1>8, <2>1, <2>2, FirstOfList
<1>10. j < Len(w) /\ j + 1 \in 0 .. Len(w) /\ w[j + 1] = v[i + 1]
  BY <1>1, <1>7, <1>9
<1>11. Wrote(p, q, w[j + 1]) /\ Passes(p, q, old) /\ q.changes = p.changes
  BY <1>4, <1>10 DEF Keeps
<1>12. BaseAhead(q, old, v, i + 1) /\ Written(q, w, j)
  <2>1. j <= MARGIN + i
    BY <1>3, MarginFits
  <2>2. i + 1 < Len(v) => j + 1 <= MARGIN + (i + 1)
    BY <1>1, <2>1
  <2>. QED
    BY <1>11, <2>2, WriteKeeps
<1>13. Written(q, w, j + 1) /\ q.num = parseEntitiesNum + (j + 1)
  BY <1>10, <1>11, <1>12, WriteAdds
<1>14. q.oldindex = i + 1 /\ q.oldnum = NumberOf(v, i + 1) /\ i + 1 \in 0 .. Len(v)
  BY <1>3, <1>11, <1>12, BaseMovesOn
<1>15. /\ Apart(v, w, i + 1, j + 1)
       /\ \A n : Ahead(n, v, w, i + 1, j + 1) <=> Ahead(n, v, w, i, j) /\ n # v[i + 1].number
  <2>1. Sorted(v) /\ Sorted(w) /\ Apart(v, w, i, j) /\ v[i + 1].number = w[j + 1].number
    BY <1>10 DEF Merges, Merged
  <2>. QED
    BY <1>1, <1>3, <1>10, <2>1, BothMoveOn
<1>16. Left(q, changes, v, w, i + 1, j + 1)
  <2>1. \A d \in p.changes : d.number # v[i + 1].number
    BY <1>1, <1>5, <1>6
  <2>2. \A c : c \in p.changes <=> c \in changes /\ Ahead(c.number, v, w, i, j)
    BY DEF Merged, Left
  <2>. QED
    BY <1>11, <1>15, <2>1, <2>2 DEF Left
<1>. QED
  BY <1>10, <1>12, <1>13, <1>14, <1>15, <1>16, Advanced

(* A change that is read is done with, and no other is. *)
LEMMA LeftWithout ==
  ASSUME NEW old, NEW changes, NEW v, NEW w, Merges(old, changes, v, w),
         NEW p, NEW i, NEW j, Merged(p, old, changes, v, w, i, j), NEW c \in p.changes,
         NEW q, q.changes = p.changes \ {c}, NEW k, NEW l,
         \A n : Ahead(n, v, w, k, l) <=> Ahead(n, v, w, i, j) /\ n # c.number
  PROVE  Left(q, changes, v, w, k, l)
<1>1. \A d : d \in p.changes <=> d \in changes /\ Ahead(d.number, v, w, i, j)
  BY DEF Merged, Left
<1>2. \A d \in changes : d.number = c.number => d = c
  BY <1>1 DEF Merges, Tells
<1>. QED
  BY <1>1, <1>2 DEF Left

(* An entity of the base has changed, or is gone. *)
LEMMA ChangesMerged ==
  ASSUME ClientOK, NEW old, NEW changes, NEW v, NEW w, Merges(old, changes, v, w),
         NEW p, NEW i, NEW j, Merged(p, old, changes, v, w, i, j),
         NEW q \in Parsing, Changes(p, q, old)
  PROVE  \/ Merged(q, old, changes, v, w, i + 1, j + 1)
         \/ Merged(q, old, changes, v, w, i + 1, j)
<1>. DEFINE c == NextChange(p.changes)
<1>1. /\ i \in Nat /\ j \in Nat /\ Len(v) \in Nat /\ Len(w) \in Nat
      /\ i <= Len(v) /\ j <= Len(w) /\ MARGIN \in Nat
      /\ \A d \in p.changes : d \in changes /\ d.number \in Nat
  BY MergeNumbers
<1>2. /\ p.oldnum # Behind /\ p.changes # {} /\ p.oldnum = c.number
      /\ Wrote(p, q, MSG_ReadDeltaEntity(c, OldState(p, old)))
      /\ Passes(p, q, old) /\ q.changes = p.changes \ {c}
  BY DEF Changes, Passes
<1>3. i < Len(v) /\ i + 1 \in 1 .. Len(v) /\ p.oldnum = v[i + 1].number
  BY <1>2, MergeNumbers
<1>4. OldState(p, old) = v[i + 1]
  BY <1>3, OldStateIs
<1>5. c \in p.changes /\ \A d \in p.changes : c.number <= d.number
  BY <1>2, MergeNumbers
<1>. HIDE DEF c
<1>6. c \in changes /\ c.number \in Nat /\ c.number = v[i + 1].number
  BY <1>1, <1>2, <1>3, <1>5
<1>7. Wrote(p, q, MSG_ReadDeltaEntity(c, v[i + 1]))
  BY <1>2, <1>4
<1>8. BaseAhead(q, old, v, i + 1) /\ Written(q, w, j)
  <2>1. j <= MARGIN + i
    BY <1>3, MarginFits
  <2>2. i + 1 < Len(v) => j + 1 <= MARGIN + (i + 1)
    BY <1>1, <2>1
  <2>. QED
    BY <1>7, <2>2, WriteKeeps
<1>9. q.oldindex = i + 1 /\ q.oldnum = NumberOf(v, i + 1) /\ i + 1 \in 0 .. Len(v)
  BY <1>2, <1>3, <1>8, BaseMovesOn
<1>10. Sorted(v) /\ Sorted(w) /\ Apart(v, w, i, j)
  BY DEF Merges, Merged
<1>11. CASE \E u \in 1 .. Len(w) : w[u].number = c.number /\ MSG_ReadDeltaEntity(c, v[i + 1]) = w[u]
  <2>1. PICK u \in 1 .. Len(w) : w[u].number = c.number /\ MSG_ReadDeltaEntity(c, v[i + 1]) = w[u]
    BY <1>11
  <2>2. u \in (j + 1) .. Len(w)
    <3>1. ASSUME u <= j PROVE FALSE
      <4>1. u \in 1 .. j /\ i + 1 \in (i + 1) .. Len(v)
        BY <1>1, <1>3, <3>1
      <4>2. w[u].number < v[i + 1].number
        BY <4>1 DEF Merged, Apart
      <4>. QED
        BY <1>6, <2>1, <4>2
    <3>. QED
      BY <1>1, <3>1
  <2>3. u = j + 1
    <3>1. i < Len(v) => w[u].number <= v[i + 1].number
      BY <1>6, <2>1
    <3>2. \A d \in p.changes : w[u].number <= d.number
      BY <1>5, <2>1
    <3>. QED
      BY <2>2, <3>1, <3>2, FirstOfList
  <2>4. j < Len(w) /\ j + 1 \in 0 .. Len(w) /\ w[j + 1].number = v[i + 1].number
    BY <1>1, <1>6, <2>1, <2>3
  <2>5. Wrote(p, q, w[j + 1])
    BY <1>7, <2>1, <2>3
  <2>6. Written(q, w, j + 1) /\ q.num = parseEntitiesNum + (j + 1)
    BY <1>8, <2>4, <2>5, WriteAdds
  <2>7. /\ Apart(v, w, i + 1, j + 1)
        /\ \A n : Ahead(n, v, w, i + 1, j + 1) <=> Ahead(n, v, w, i, j) /\ n # c.number
    BY <1>1, <1>3, <1>6, <1>10, <2>4, BothMoveOn
  <2>8. Left(q, changes, v, w, i + 1, j + 1)
    BY <1>2, <1>5, <2>7, LeftWithout
  <2>. QED
    BY <1>8, <1>9, <2>4, <2>6, <2>7, <2>8, Advanced
<1>12. CASE /\ \A u \in 1 .. Len(w) : w[u].number # c.number
            /\ MSG_ReadDeltaEntity(c, v[i + 1]) = Removed
  <2>1. q.num = parseEntitiesNum + j
    <3>1. q.num = p.num
      BY <1>7, <1>12 DEF Wrote, Removed
    <3>. QED
      BY <3>1 DEF Merged
  <2>2. ASSUME NEW u \in (j + 1) .. Len(w) PROVE v[i + 1].number < w[u].number
    <3>1. j + 1 \in 1 .. Len(w) /\ u \in 1 .. Len(w) /\ (u = j + 1 \/ j + 1 < u) /\ j < Len(w)
      BY <1>1
    <3>2. /\ w[j + 1].number \in Nat /\ w[u].number \in Nat
          /\ w[j + 1].number = w[u].number \/ w[j + 1].number < w[u].number
      BY <1>10, <3>1, SortedNumbers
    <3>3. w[j + 1].number # c.number
      BY <1>12, <3>1
    <3>4. ~(w[j + 1].number < c.number)
      <4>1. SUFFICES ASSUME w[j + 1].number < c.number PROVE FALSE
        OBVIOUS
      <4>2. i < Len(v) => w[j + 1].number < v[i + 1].number
        BY <1>6, <4>1
      <4>3. PICK d \in p.changes : d.number = w[j + 1].number
        BY <3>1, <4>2, NextHasChange
      <4>. QED
        BY <1>5, <1>6, <3>2, <4>1, <4>3
    <3>. QED
      BY <1>6, <3>2, <3>3, <3>4
  <2>3. /\ Apart(v, w, i + 1, j)
        /\ \A n : Ahead(n, v, w, i + 1, j) <=> Ahead(n, v, w, i, j) /\ n # c.number
    BY <1>1, <1>3, <1>6, <1>10, <2>2, BaseAloneMovesOn
  <2>4. Left(q, changes, v, w, i + 1, j)
    BY <1>2, <1>5, <2>3, LeftWithout
  <2>5. j \in 0 .. Len(w)
    BY <1>1
  <2>. QED
    BY <1>8, <1>9, <2>1, <2>3, <2>4, <2>5, Advanced
<1>. QED
  BY <1>3, <1>6, <1>11, <1>12 DEF Merges, Tells

(* An entity is new. *)
LEMMA AddsMerged ==
  ASSUME ClientOK, NEW old, NEW changes, NEW v, NEW w, Merges(old, changes, v, w),
         NEW p, NEW i, NEW j, Merged(p, old, changes, v, w, i, j),
         NEW q \in Parsing, Adds(p, q)
  PROVE  Merged(q, old, changes, v, w, i, j + 1)
<1>. DEFINE c == NextChange(p.changes)
<1>1. /\ i \in Nat /\ j \in Nat /\ Len(v) \in Nat /\ Len(w) \in Nat
      /\ i <= Len(v) /\ j <= Len(w) /\ MARGIN \in Nat
      /\ \A d \in p.changes : d \in changes /\ d.number \in Nat
      /\ i < Len(v) => i + 1 \in 1 .. Len(v) /\ p.oldnum = v[i + 1].number
  BY MergeNumbers
<1>2. /\ p.changes # {} /\ p.oldnum > c.number
      /\ Wrote(p, q, MSG_ReadDeltaEntity(c, Baseline(level, c.number)))
      /\ Stays(p, q) /\ q.changes = p.changes \ {c}
  BY DEF Adds
<1>5. c \in p.changes /\ \A d \in p.changes : c.number <= d.number
  BY <1>2, MergeNumbers
<1>. HIDE DEF c
<1>6. c \in changes /\ c.number \in Nat /\ Ahead(c.number, v, w, i, j)
  BY <1>1, <1>5 DEF Merged, Left
<1>7. Sorted(v) /\ Sorted(w) /\ Apart(v, w, i, j)
  BY DEF Merges, Merged
<1>8. ASSUME NEW t \in (i + 1) .. Len(v) PROVE c.number < v[t].number
  <2>1. i < Len(v) /\ i + 1 \in 1 .. Len(v) /\ t \in 1 .. Len(v) /\ (t = i + 1 \/ i + 1 < t)
    BY <1>1
  <2>2. c.number < v[i + 1].number
    BY <1>1, <1>2, <2>1
  <2>3. /\ v[i + 1].number \in Nat /\ v[t].number \in Nat
        /\ v[i + 1].number = v[t].number \/ v[i + 1].number < v[t].number
    BY <1>7, <2>1, SortedNumbers
  <2>. QED
    BY <1>6, <2>2, <2>3
<1>9. PICK u \in (j + 1) .. Len(w) : w[u].number = c.number
  <2>1. \A t \in (i + 1) .. Len(v) : v[t].number \in Nat
    <3>1. \A t \in (i + 1) .. Len(v) : t \in 1 .. Len(v)
      BY <1>1
    <3>. QED
      BY <1>7, <3>1, SortedNumbers
  <2>2. \A t \in (i + 1) .. Len(v) : v[t].number # c.number
    BY <1>6, <1>8, <2>1
  <2>. QED
    BY <1>6, <2>2 DEF Ahead
<1>10. u = j + 1
  <2>1. i < Len(v) => w[u].number <= v[i + 1].number
    <3>1. SUFFICES ASSUME i < Len(v) PROVE w[u].number <= v[i + 1].number
      OBVIOUS
    <3>2. i + 1 \in (i + 1) .. Len(v) /\ i + 1 \in 1 .. Len(v)
      BY <1>1, <3>1
    <3>3. c.number < v[i + 1].number /\ v[i + 1].number \in Nat
      BY <1>7, <1>8, <3>2, SortedNumbers
    <3>. QED
      BY <1>6, <1>9, <3>3
  <2>2. \A d \in p.changes : w[u].number <= d.number
    BY <1>5, <1>9
  <2>. QED
    BY <2>1, <2>2, FirstOfList
<1>11. j < Len(w) /\ j + 1 \in 0 .. Len(w) /\ j + 1 \in 1 .. Len(w) /\ w[j + 1].number = c.number
  BY <1>1, <1>9, <1>10
<1>12. ASSUME NEW t \in 1 .. Len(v) PROVE v[t].number # c.number
  <2>1. t \in 1 .. i \/ t \in (i + 1) .. Len(v)
    BY <1>1
  <2>2. t \in 1 .. i => v[t].number < w[u].number
    BY <1>7, <1>9 DEF Apart
  <2>3. v[t].number \in Nat
    BY <1>7, SortedNumbers
  <2>. QED
    BY <1>6, <1>8, <1>9, <2>1, <2>2, <2>3
<1>13. MSG_ReadDeltaEntity(c, Baseline(level, c.number)) = w[j + 1]
  BY <1>6, <1>11, <1>12 DEF Merges, Tells
<1>14. Wrote(p, q, w[j + 1])
  BY <1>2, <1>13
<1>15. BaseAhead(q, old, v, i) /\ Written(q, w, j)
  <2>1. ASSUME i < Len(v) PROVE j + 1 <= MARGIN + i
    <3>1. i + 1 \in (i + 1) .. Len(v) /\ i + 1 \in 1 .. Len(v)
      BY <1>1, <2>1
    <3>2. w[j + 1].number < v[i + 1].number
      BY <1>8, <1>11, <3>1
    <3>3. j + 1 <= MARGIN + (i + 1) - 1
      BY <1>11, <3>1, <3>2 DEF Merges, NotAhead
    <3>. QED
      BY <1>1, <3>3
  <2>. QED
    BY <1>14, <2>1, WriteKeeps
<1>16. Written(q, w, j + 1) /\ q.num = parseEntitiesNum + (j + 1)
  BY <1>11, <1>14, <1>15, WriteAdds
<1>17. q.oldindex = i /\ q.oldnum = NumberOf(v, i) /\ i \in 0 .. Len(v)
  BY <1>2 DEF Stays, Merged
<1>18. /\ Apart(v, w, i, j + 1)
       /\ \A n : Ahead(n, v, w, i, j + 1) <=> Ahead(n, v, w, i, j) /\ n # c.number
  <2>1. \A t \in (i + 1) .. Len(v) : w[j + 1].number < v[t].number
    BY <1>8, <1>11
  <2>2. /\ Apart(v, w, i, j + 1)
        /\ \A n : Ahead(n, v, w, i, j + 1) <=> Ahead(n, v, w, i, j) /\ n # w[j + 1].number
    <3>1. Sorted(v) /\ Sorted(w) /\ Apart(v, w, i, j)
      BY <1>7
    <3>2. i \in Nat /\ j \in Nat /\ j < Len(w)
      BY <1>1, <1>11
    <3>. QED
      BY <2>1, <3>1, <3>2, ListMovesOn
  <2>. QED
    BY <1>11, <2>2
<1>19. Left(q, changes, v, w, i, j + 1)
  BY <1>2, <1>5, <1>18, LeftWithout
<1>. QED
  BY <1>11, <1>15, <1>16, <1>17, <1>18, <1>19, Advanced

-----------------------------------------------------------------------------
(* The merge as a whole.                                                   *)

(* Nothing is read yet. *)
LEMMA BeginMerged ==
  ASSUME ClientOK, NEW old, NEW changes, NEW v, NEW w, Merges(old, changes, v, w),
         NEW p \in Parsing, p = Begin(changes, old)
  PROVE  Merged(p, old, changes, v, w, 0, 0)
<1>1. /\ Len(v) \in Nat /\ Len(w) \in Nat /\ parseEntitiesNum \in Nat
      /\ old.parseEntitiesNum \in Nat /\ old.numEntities = Len(v)
  BY SortedNumbers DEF Merges, ClientOK, BaseOK
<1>2. /\ p.ring = parseEntities /\ p.num = parseEntitiesNum + 0 /\ p.changes = changes
      /\ p.oldindex = 0 /\ p.oldnum = NumberAt(parseEntities, old, 0)
  BY <1>1 DEF Begin
<1>3. \A t \in 1 .. Len(v) : parseEntities[ClientSlot(old.parseEntitiesNum + t - 1)] = v[t]
  BY DEF Merges
<1>4. p.oldnum = NumberOf(v, 0)
  <2>1. CASE 0 < Len(v)
    <3>1. 1 \in 1 .. Len(v) /\ old.parseEntitiesNum + 1 - 1 = old.parseEntitiesNum + 0
      BY <1>1, <2>1
    <3>2. parseEntities[ClientSlot(old.parseEntitiesNum + 0)] = v[1]
      BY <1>3, <3>1
    <3>. QED
      BY <1>1, <1>2, <2>1, <3>2 DEF NumberAt, NumberOf
  <2>2. CASE ~(0 < Len(v))
    BY <1>1, <1>2, <2>2 DEF NumberAt, NumberOf
  <2>. QED
    BY <2>1, <2>2
<1>5. Written(p, w, 0)
  BY DEF Written
<1>6. BaseAhead(p, old, v, 0)
  BY <1>2, <1>3 DEF BaseAhead
<1>7. Apart(v, w, 0, 0)
  BY DEF Apart
<1>8. Left(p, changes, v, w, 0, 0)
  <2>1. \A c \in changes : Ahead(c.number, v, w, 0, 0)
    BY DEF Merges, Tells, Ahead
  <2>. QED
    BY <1>2, <2>1 DEF Left
<1>9. 0 \in 0 .. Len(v) /\ 0 \in 0 .. Len(w)
  BY <1>1
<1>. QED
  BY <1>2, <1>4, <1>5, <1>6, <1>7, <1>8, <1>9, Advanced

(* Each turn is done with an entity of the base, a change or both. *)
LEMMA TurnsCount ==
  ASSUME ClientOK, NEW old, NEW changes, NEW v, NEW w, Merges(old, changes, v, w),
         NEW p, NEW i, NEW j, Merged(p, old, changes, v, w, i, j), ~Ended(p),
         NEW k \in Nat, k + Cardinality(p.changes) <= Cardinality(changes) + i
  PROVE  \E m, n : /\ Merged(ParseEntity(p, old), old, changes, v, w, m, n)
                   /\ (k + 1) + Cardinality(ParseEntity(p, old).changes) <= Cardinality(changes) + m
<1>1. PICK q : q = ParseEntity(p, old)
  OBVIOUS
<1>2. p \in Parsing /\ BaseOK(old) /\ i \in Nat /\ j \in Nat
  BY MergeNumbers DEF Merged, Merges
<1>3. q \in Parsing
  BY <1>1, <1>2, TurnTypes
<1>4. Keeps(p, q, old) \/ Changes(p, q, old) \/ Adds(p, q)
  BY <1>1, <1>2, Turns
<1>5. /\ IsFiniteSet(p.changes) /\ Cardinality(p.changes) \in Nat
      /\ Cardinality(changes) \in Nat
  BY <1>2, FS_CardinalityType DEF Parsing, Merges
<1>6. \A c \in p.changes : Cardinality(p.changes \ {c}) = Cardinality(p.changes) - 1
  BY <1>5, FS_RemoveElement
<1>7. p.changes # {} => NextChange(p.changes) \in p.changes
  BY MergeNumbers
<1>8. CASE Keeps(p, q, old)
  <2>1. Merged(q, old, changes, v, w, i + 1, j + 1)
    BY <1>3, <1>8, KeepsMerged
  <2>2. q.changes = p.changes
    BY <1>8 DEF Keeps
  <2>3. (k + 1) + Cardinality(q.changes) <= Cardinality(changes) + (i + 1)
    BY <1>2, <1>5, <2>2
  <2>. QED
    BY <1>1, <2>1, <2>3
<1>9. CASE Changes(p, q, old)
  <2>1. \/ Merged(q, old, changes, v, w, i + 1, j + 1)
        \/ Merged(q, old, changes, v, w, i + 1, j)
    BY <1>3, <1>9, ChangesMerged
  <2>2. p.changes # {} /\ q.changes = p.changes \ {NextChange(p.changes)}
    BY <1>9 DEF Changes
  <2>3. Cardinality(q.changes) = Cardinality(p.changes) - 1
    BY <1>6, <1>7, <2>2
  <2>4. (k + 1) + Cardinality(q.changes) <= Cardinality(changes) + (i + 1)
    BY <1>2, <1>5, <2>3
  <2>. QED
    BY <1>1, <2>1, <2>4
<1>10. CASE Adds(p, q)
  <2>1. Merged(q, old, changes, v, w, i, j + 1)
    BY <1>3, <1>10, AddsMerged
  <2>2. p.changes # {} /\ q.changes = p.changes \ {NextChange(p.changes)}
    BY <1>10 DEF Adds
  <2>3. Cardinality(q.changes) = Cardinality(p.changes) - 1
    BY <1>6, <1>7, <2>2
  <2>4. (k + 1) + Cardinality(q.changes) <= Cardinality(changes) + i
    BY <1>2, <1>5, <2>3
  <2>. QED
    BY <1>1, <2>1, <2>4
<1>. QED
  BY <1>4, <1>8, <1>9, <1>10

(* A base that is read to the changes made against it gives the list they  *)
(* were made for.                                                          *)
LEMMA ParseReads ==
  ASSUME ClientOK, NEW old, NEW changes, NEW v, NEW w, Merges(old, changes, v, w)
  PROVE  /\ CL_ParsePacketEntities(changes, old).num = parseEntitiesNum + Len(w)
         /\ Written(CL_ParsePacketEntities(changes, old), w, Len(w))
<1>1. BaseOK(old) /\ changes \subseteq Changing /\ IsFiniteSet(changes)
      /\ old.numEntities = Len(v) /\ Len(v) \in Nat /\ Len(w) \in Nat
  BY SortedNumbers DEF Merges
<1>2. PICK f : /\ Runs(f, changes, old)
               /\ CL_ParsePacketEntities(changes, old)
                    = f[Cardinality(changes) + old.numEntities]
  BY <1>1, ParseRuns
<1>3. /\ f[0] = Begin(changes, old) /\ f[0] \in Parsing
      /\ \A k \in Nat : f[k + 1] = IF Ended(f[k]) THEN f[k] ELSE ParseEntity(f[k], old)
  BY <1>2 DEF Runs
<1>4. Cardinality(changes) \in Nat
  BY <1>1, FS_CardinalityType
<1>. DEFINE Far(k, i) == Ended(f[k])
                         \/ k + Cardinality(f[k].changes) <= Cardinality(changes) + i
            T == {k \in Nat : \E i, j : Merged(f[k], old, changes, v, w, i, j) /\ Far(k, i)}
<1>5. 0 \in T
  <2>1. Merged(f[0], old, changes, v, w, 0, 0)
    BY <1>3, BeginMerged
  <2>2. f[0].changes = changes
    BY <1>3 DEF Begin
  <2>3. 0 + Cardinality(f[0].changes) <= Cardinality(changes) + 0
    BY <1>4, <2>2
  <2>. QED
    BY <2>1, <2>3
<1>6. ASSUME NEW k \in Nat, k \in T PROVE k + 1 \in T
  <2>1. PICK i, j : Merged(f[k], old, changes, v, w, i, j) /\ Far(k, i)
    BY <1>6
  <2>2. CASE Ended(f[k])
    <3>1. f[k + 1] = f[k]
      BY <1>3, <2>2
    <3>. QED
      BY <2>1, <2>2, <3>1
  <2>3. CASE ~Ended(f[k])
    <3>1. f[k + 1] = ParseEntity(f[k], old)
      BY <1>3, <2>3
    <3>2. PICK p : p = f[k]
      OBVIOUS
    <3>3. k + Cardinality(p.changes) <= Cardinality(changes) + i
          /\ Merged(p, old, changes, v, w, i, j) /\ ~Ended(p)
      BY <2>1, <2>3, <3>2
    <3>4. PICK m, n : /\ Merged(ParseEntity(p, old), old, changes, v, w, m, n)
                      /\ (k + 1) + Cardinality(ParseEntity(p, old).changes)
                           <= Cardinality(changes) + m
      BY <3>3, TurnsCount
    <3>5. Merged(f[k + 1], old, changes, v, w, m, n) /\ Far(k + 1, m)
      BY <3>1, <3>2, <3>4
    <3>. QED
      BY <3>5
  <2>. QED
    BY <2>2, <2>3
<1>7. Nat \subseteq T
  <2>. HIDE DEF T
  <2>. QED
    BY <1>5, <1>6, Inducts
<1>8. PICK N : N = Cardinality(changes) + old.numEntities
  OBVIOUS
<1>9. N \in Nat
  BY <1>1, <1>4, <1>8
<1>10. PICK i, j : Merged(f[N], old, changes, v, w, i, j) /\ Far(N, i)
  BY <1>7, <1>9
<1>. HIDE DEF T
<1>11. PICK p : p = f[N]
  OBVIOUS
<1>12. Merged(p, old, changes, v, w, i, j)
  BY <1>10, <1>11
<1>13. /\ i \in Nat /\ j \in Nat /\ i <= Len(v) /\ j <= Len(w)
       /\ p.oldnum # Behind <=> i < Len(v)
  BY <1>12, MergeNumbers
<1>14. Ended(p)
  <2>1. SUFFICES ASSUME ~Ended(p) PROVE FALSE
    OBVIOUS
  <2>2. N + Cardinality(p.changes) <= Cardinality(changes) + i
    BY <1>10, <1>11, <2>1
  <2>3. IsFiniteSet(p.changes) /\ Cardinality(p.changes) \in Nat
    BY <1>12, FS_CardinalityType DEF Merged, Parsing
  <2>4. Cardinality(p.changes) = 0 /\ i = Len(v)
    BY <1>1, <1>4, <1>8, <1>13, <2>2, <2>3
  <2>5. p.changes = {}
    BY <2>3, <2>4, FS_EmptySet
  <2>. QED
    BY <1>1, <1>13, <2>1, <2>4, <2>5 DEF Ended
<1>15. p.oldnum = Behind /\ p.changes = {}
  BY <1>14 DEF Ended
<1>16. i = Len(v)
  BY <1>1, <1>13, <1>15
<1>17. j = Len(w)
  <2>1. ASSUME j < Len(w) PROVE FALSE
    <3>1. i < Len(v) => w[j + 1].number < v[i + 1].number
      BY <1>1, <1>16
    <3>2. \E c \in p.changes : c.number = w[j + 1].number
      BY <1>12, <2>1, <3>1, NextHasChange
    <3>. QED
      BY <1>15, <3>2
  <2>. QED
    BY <1>1, <1>13, <2>1
<1>. QED
  BY <1>2, <1>8, <1>11, <1>12, <1>17 DEF Merged

(* Whatever is read, the ring moves on and what is not written over stays. *)
LEMMA ParseKeeps ==
  ASSUME ClientOK, NEW old, BaseOK(old),
         NEW changes, changes \subseteq Changing, IsFiniteSet(changes)
  PROVE  LET parse == CL_ParsePacketEntities(changes, old)
         IN  /\ parse.ring \in Ring(MAX_PARSE_ENTITIES, Entity)
             /\ parse.num \in Nat /\ parse.num >= parseEntitiesNum
             /\ \A x \in Int : x < parseEntitiesNum /\ x > parse.num - MAX_PARSE_ENTITIES
                  => parse.ring[ClientSlot(x)] = parseEntities[ClientSlot(x)]
<1>1. PICK f : /\ Runs(f, changes, old)
               /\ CL_ParsePacketEntities(changes, old)
                    = f[Cardinality(changes) + old.numEntities]
  BY ParseRuns
<1>2. /\ f[0] = Begin(changes, old) /\ \A k \in Nat : f[k] \in Parsing
      /\ \A k \in Nat : f[k + 1] = IF Ended(f[k]) THEN f[k] ELSE ParseEntity(f[k], old)
  BY <1>1 DEF Runs
<1>3. parseEntitiesNum \in Nat /\ MAX_PARSE_ENTITIES \in Nat \ {0}
  BY SnapshotsAssumption DEF SnapshotsAssumption, ClientOK
<1>. DEFINE Kept(p) == /\ p.num >= parseEntitiesNum
                       /\ \A x \in Int : x < parseEntitiesNum /\ x > p.num - MAX_PARSE_ENTITIES
                            => p.ring[ClientSlot(x)] = parseEntities[ClientSlot(x)]
            T == {k \in Nat : Kept(f[k])}
<1>4. 0 \in T
  <2>1. f[0].num = parseEntitiesNum /\ f[0].ring = parseEntities
    BY <1>2 DEF Begin
  <2>. QED
    BY <1>3, <2>1
<1>5. ASSUME NEW k \in Nat, k \in T PROVE k + 1 \in T
  <2>1. CASE Ended(f[k])
    BY <1>2, <1>5, <2>1
  <2>2. CASE ~Ended(f[k])
    <3>1. PICK p, q : p = f[k] /\ q = f[k + 1]
      OBVIOUS
    <3>2. p \in Parsing /\ q = ParseEntity(p, old) /\ ~Ended(p) /\ Kept(p)
      BY <1>2, <1>5, <2>2, <3>1
    <3>3. Keeps(p, q, old) \/ Changes(p, q, old) \/ Adds(p, q)
      BY <3>2, Turns
    <3>4. PICK e : Wrote(p, q, e)
      BY <3>3 DEF Keeps, Changes, Adds
    <3>5. p.num \in Nat /\ q.num \in Nat /\ q.num >= p.num
      BY <3>2, <3>4 DEF Parsing, Wrote
    <3>6. q.num >= parseEntitiesNum
      BY <1>3, <3>2, <3>5
    <3>7. ASSUME NEW x \in Int, x < parseEntitiesNum, x > q.num - MAX_PARSE_ENTITIES
          PROVE  q.ring[ClientSlot(x)] = parseEntities[ClientSlot(x)]
      <4>1. x < p.num /\ p.num - x < MAX_PARSE_ENTITIES /\ x > p.num - MAX_PARSE_ENTITIES
        BY <1>3, <3>2, <3>5, <3>7
      <4>2. ClientSlot(x) # ClientSlot(p.num)
        BY <3>5, <4>1, SlotsDiffer
      <4>3. ClientSlot(x) \in 0 .. (MAX_PARSE_ENTITIES - 1)
        BY SlotInRing
      <4>4. q.ring[ClientSlot(x)] = p.ring[ClientSlot(x)]
        BY <3>4, <4>2, <4>3 DEF Wrote
      <4>. QED
        BY <3>2, <3>7, <4>1, <4>4
    <3>8. Kept(q)
      BY <3>6, <3>7
    <3>. QED
      BY <3>1, <3>8
  <2>. QED
    BY <2>1, <2>2
<1>6. Nat \subseteq T
  <2>. HIDE DEF T
  <2>. QED
    BY <1>4, <1>5, Inducts
<1>7. PICK N : N = Cardinality(changes) + old.numEntities
  OBVIOUS
<1>8. N \in Nat
  BY <1>7, FS_CardinalityType DEF BaseOK
<1>9. Kept(f[N]) /\ f[N] \in Parsing
  BY <1>2, <1>6, <1>8
<1>. HIDE DEF T
<1>10. f[N].ring \in Ring(MAX_PARSE_ENTITIES, Entity) /\ f[N].num \in Nat
  BY <1>9 DEF Parsing
<1>. QED
  BY <1>1, <1>7, <1>9, <1>10

-----------------------------------------------------------------------------
(* What the server writes says what has changed.                           *)

(* There are only so many changes. *)
LEMMA ChangingIsFinite ==
  ASSUME NEW changes, changes \subseteq Changing
  PROVE  IsFiniteSet(changes)
<1>. DEFINE S == (0 .. None) \X (BOOLEAN \X SUBSET (0 .. 1))
            f == [t \in S |-> [number |-> t[1], removed |-> t[2][1], changed |-> t[2][2]]]
<1>1. IsFiniteSet(0 .. None) /\ IsFiniteSet(0 .. 1)
  <2>1. 0 \in Int /\ None \in Int /\ 1 \in Int
    BY DEF None
  <2>. QED
    BY <2>1, FS_Interval
<1>2. IsFiniteSet(SUBSET (0 .. 1))
  BY <1>1, FS_SUBSET
<1>3. IsFiniteSet(BOOLEAN)
  <2>1. BOOLEAN = {TRUE} \cup {FALSE}
    OBVIOUS
  <2>2. IsFiniteSet({TRUE}) /\ IsFiniteSet({FALSE})
    BY FS_Singleton
  <2>. QED
    BY <2>1, <2>2, FS_Union
<1>4. IsFiniteSet(BOOLEAN \X SUBSET (0 .. 1))
  BY <1>2, <1>3, FS_Product
<1>5. IsFiniteSet(S)
  BY <1>1, <1>4, FS_Product
<1>6. f \in Surjection(S, Changing)
  <2>1. \A t \in S : f[t] \in Changing
    BY DEF Changing
  <2>2. ASSUME NEW c \in Changing PROVE \E t \in S : f[t] = c
    <3>1. /\ c = [number |-> c.number, removed |-> c.removed, changed |-> c.changed]
          /\ c.number \in 0 .. None /\ c.removed \in BOOLEAN /\ c.changed \in SUBSET (0 .. 1)
      BY DEF Changing
    <3>2. <<c.number, <<c.removed, c.changed>>>> \in S
      BY <3>1
    <3>3. f[<<c.number, <<c.removed, c.changed>>>>] = c
      BY <3>1, <3>2
    <3>. QED
      BY <3>2, <3>3
  <2>3. f \in [S -> Changing]
    BY <2>1
  <2>. HIDE DEF f, S
  <2>. QED
    BY <2>2, <2>3 DEF Surjection
<1>7. IsFiniteSet(Changing)
  <2>. HIDE DEF f, S
  <2>. QED
    BY <1>5, <1>6, FS_Surjection DEF ExistsSurjection
<1>. QED
  BY <1>7, FS_Subset

-----------------------------------------------------------------------------
(* The server's ring.                                                      *)

ServerOK ==
  snapshotEntities \in Ring(numSnapshotEntities, Entity) /\ nextSnapshotEntities \in Nat

(* Numbers less than the server's ring apart have places of their own. *)
LEMMA ServerSlots ==
  ASSUME NEW x \in Int
  PROVE  /\ ServerSlot(x) \in 0 .. (numSnapshotEntities - 1)
         /\ \A y \in Int : x < y /\ y - x < numSnapshotEntities => ServerSlot(x) # ServerSlot(y)
<1>1. numSnapshotEntities \in Nat \ {0}
  BY SnapshotsAssumption DEF SnapshotsAssumption
<1>2. x % numSnapshotEntities \in 0 .. (numSnapshotEntities - 1)
  BY <1>1, Rounds
<1>3. \A y \in Int : x < y /\ y - x < numSnapshotEntities
                       => x % numSnapshotEntities # y % numSnapshotEntities
  BY <1>1, PlacesDiffer
<1>. QED
  BY <1>2, <1>3 DEF ServerSlot

(* The places of a view in the ring. *)
At(view, s) == {i \in 1 .. Len(view) : ServerSlot(nextSnapshotEntities + i - 1) = s}

(* The ring after a view is copied to it, in terms of the view's places. *)
LEMMA CopiedIs ==
  ASSUME ServerOK, NEW view
  PROVE  Copied(view) = [s \in 0 .. (numSnapshotEntities - 1) |->
           IF At(view, s) = {} THEN snapshotEntities[s] ELSE view[Max(At(view, s))]]
<1>1. DOMAIN snapshotEntities = 0 .. (numSnapshotEntities - 1)
  BY DEF ServerOK, Ring
<1>. QED
  BY <1>1 DEF Copied, At

(* The ring still has entities. *)
LEMMA CopiedType ==
  ASSUME ServerOK, NEW view \in Seq(Entity)
  PROVE  Copied(view) \in Ring(numSnapshotEntities, Entity)
<1>1. ASSUME NEW s \in 0 .. (numSnapshotEntities - 1), At(view, s) # {}
      PROVE  view[Max(At(view, s))] \in Entity
  <2>1. Len(view) \in Nat
    OBVIOUS
  <2>2. IsFiniteSet(At(view, s)) /\ At(view, s) \subseteq 1 .. Len(view)
    <3>1. IsFiniteSet(1 .. Len(view))
      BY <2>1, FS_Interval
    <3>2. At(view, s) \subseteq 1 .. Len(view)
      BY DEF At
    <3>. QED
      BY <3>1, <3>2, FS_Subset
  <2>. DEFINE F == [i \in At(view, s) |-> -i]
  <2>3. \A i \in At(view, s) : F[i] \in Int
    BY <2>1, <2>2
  <2>4. \E i \in At(view, s) : \A k \in At(view, s) : F[i] <= F[k]
    <3>. HIDE DEF F
    <3>. QED
      BY <1>1, <2>2, <2>3, LeastOf
  <2>5. \E i \in At(view, s) : \A k \in At(view, s) : i >= k
    BY <2>1, <2>2, <2>4
  <2>6. Max(At(view, s)) \in At(view, s)
    BY <2>5 DEF Max
  <2>. QED
    BY <2>1, <2>2, <2>6
<1>2. \A s \in 0 .. (numSnapshotEntities - 1) : snapshotEntities[s] \in Entity
  BY DEF ServerOK, Ring
<1>3. \A s \in 0 .. (numSnapshotEntities - 1) :
        (IF At(view, s) = {} THEN snapshotEntities[s] ELSE view[Max(At(view, s))]) \in Entity
  BY <1>1, <1>2
<1>. QED
  BY <1>3, CopiedIs DEF Ring

(* A view that fits the ring is in it. *)
LEMMA CopiedNew ==
  ASSUME ServerOK, NEW view \in Seq(Entity), Len(view) <= numSnapshotEntities,
         NEW i \in 1 .. Len(view)
  PROVE  Copied(view)[ServerSlot(nextSnapshotEntities + i - 1)] = view[i]
<1>. DEFINE n == nextSnapshotEntities
<1>1. n \in Nat /\ Len(view) \in Nat /\ numSnapshotEntities \in Nat \ {0} /\ i \in Int
  BY SnapshotsAssumption DEF SnapshotsAssumption, ServerOK
<1>2. PICK s : s = ServerSlot(n + i - 1)
  OBVIOUS
<1>3. s \in 0 .. (numSnapshotEntities - 1)
  BY <1>1, <1>2, ServerSlots
<1>4. ASSUME NEW k \in 1 .. Len(view), k # i PROVE ServerSlot(n + k - 1) # s
  <2>1. k \in Int /\ n + k - 1 \in Int /\ n + i - 1 \in Int
    BY <1>1
  <2>2. CASE k < i
    <3>1. n + k - 1 < n + i - 1 /\ (n + i - 1) - (n + k - 1) < numSnapshotEntities
      BY <1>1, <2>1, <2>2
    <3>. QED
      BY <1>2, <2>1, <3>1, ServerSlots
  <2>3. CASE i < k
    <3>1. n + i - 1 < n + k - 1 /\ (n + k - 1) - (n + i - 1) < numSnapshotEntities
      BY <1>1, <2>1, <2>3
    <3>. QED
      BY <1>2, <2>1, <3>1, ServerSlots
  <2>. QED
    BY <1>1, <1>4, <2>1, <2>2, <2>3
<1>5. At(view, s) = {i}
  BY <1>2, <1>4 DEF At
<1>6. Max({i}) = i
  BY <1>1 DEF Max
<1>7. Copied(view)[s] = IF At(view, s) = {} THEN snapshotEntities[s] ELSE view[Max(At(view, s))]
  BY <1>3, CopiedIs
<1>8. Copied(view)[s] = view[i]
  BY <1>5, <1>6, <1>7
<1>. QED
  BY <1>2, <1>8

(* What the view does not reach stays. *)
LEMMA CopiedKeeps ==
  ASSUME ServerOK, NEW view \in Seq(Entity), NEW x \in Int, x < nextSnapshotEntities,
         x > nextSnapshotEntities + Len(view) - numSnapshotEntities
  PROVE  Copied(view)[ServerSlot(x)] = snapshotEntities[ServerSlot(x)]
<1>. DEFINE n == nextSnapshotEntities
<1>1. n \in Nat /\ Len(view) \in Nat /\ numSnapshotEntities \in Nat \ {0}
  BY SnapshotsAssumption DEF SnapshotsAssumption, ServerOK
<1>2. ServerSlot(x) \in 0 .. (numSnapshotEntities - 1)
  BY ServerSlots
<1>3. ASSUME NEW k \in 1 .. Len(view) PROVE ServerSlot(n + k - 1) # ServerSlot(x)
  <2>1. n + k - 1 \in Int /\ x < n + k - 1 /\ (n + k - 1) - x < numSnapshotEntities
    BY <1>1
  <2>. QED
    BY <2>1, ServerSlots
<1>4. At(view, ServerSlot(x)) = {}
  BY <1>3 DEF At
<1>. QED
  BY <1>2, <1>4, CopiedIs

-----------------------------------------------------------------------------
(* The changes of a snapshot.                                              *)

Gone(c, from, to) ==
  \E x \in from : (\A y \in to : y.number # x.number) /\ c = Change(x.number, TRUE, {})
New(c, from, to) ==
  \E y \in to : /\ \A x \in from : x.number # y.number
                /\ c = Change(y.number, FALSE, Changed(Baseline(serverId, y.number), y))
Kept(c, from, to) ==
  \E x \in from, y \in to : /\ x.number = y.number /\ x # y
                            /\ c = Change(y.number, FALSE, Changed(x, y))

(* A change in a message says that an entity has left, is new or has changed. *)
LEMMA EmitCases ==
  ASSUME NEW from, NEW to, NEW c
  PROVE  c \in SV_EmitPacketEntities(from, to)
           <=> Gone(c, from, to) \/ New(c, from, to) \/ Kept(c, from, to)
<1>. DEFINE gone == {Change(n, TRUE, {}) : n \in Numbers(from) \ Numbers(to)}
            new  == {Change(e.number, FALSE, Changed(Baseline(serverId, e.number), e)) :
                       e \in {x \in to : x.number \notin Numbers(from)}}
            both == {x \in from \X to : x[1].number = x[2].number /\ x[1] # x[2]}
            kept == {Change(p[2].number, FALSE, Changed(p[1], p[2])) : p \in both}
<1>1. c \in SV_EmitPacketEntities(from, to) <=> c \in gone \/ c \in new \/ c \in kept
  BY DEF SV_EmitPacketEntities
<1>2. c \in gone <=> Gone(c, from, to)
  BY DEF Gone, Numbers
<1>3. c \in new <=> New(c, from, to)
  BY DEF New, Numbers
<1>4. c \in kept <=> Kept(c, from, to)
  <2>1. ASSUME c \in kept PROVE Kept(c, from, to)
    <3>1. PICK p \in both : c = Change(p[2].number, FALSE, Changed(p[1], p[2]))
      BY <2>1
    <3>2. p[1] \in from /\ p[2] \in to
      BY <3>1
    <3>. QED
      BY <3>1, <3>2 DEF Kept
  <2>2. ASSUME Kept(c, from, to) PROVE c \in kept
    <3>1. PICK x \in from, y \in to : /\ x.number = y.number /\ x # y
                                      /\ c = Change(y.number, FALSE, Changed(x, y))
      BY <2>2 DEF Kept
    <3>2. PICK p : p = <<x, y>>
      OBVIOUS
    <3>3. p \in both /\ p[1] = x /\ p[2] = y
      BY <3>1, <3>2
    <3>4. c = Change(p[2].number, FALSE, Changed(p[1], p[2]))
      BY <3>1, <3>3
    <3>. HIDE DEF both
    <3>. QED
      BY <3>3, <3>4, Zenon
  <2>. QED
    BY <2>1, <2>2
<1>. HIDE DEF gone, new, kept
<1>. QED
  BY <1>1, <1>2, <1>3, <1>4

(* They are changes as the message has them. *)
LEMMA EmitTypes ==
  ASSUME NEW from, from \subseteq Entity, NEW to, to \subseteq Entity
  PROVE  SV_EmitPacketEntities(from, to) \subseteq Changing
<1>1. \A e \in Entity : e.number \in 0 .. None /\ e.value \in 0 .. 1
  BY DEF Entity
<1>2. \A n \in 0 .. None, r \in BOOLEAN, ch \in SUBSET (0 .. 1) : Change(n, r, ch) \in Changing
  BY DEF Change, Changing
<1>3. \A x, y : y.value \in 0 .. 1 => Changed(x, y) \in SUBSET (0 .. 1)
  BY DEF Changed
<1>4. ASSUME NEW c \in SV_EmitPacketEntities(from, to) PROVE c \in Changing
  <2>1. CASE Gone(c, from, to)
    BY <1>1, <1>2, <2>1 DEF Gone
  <2>2. CASE New(c, from, to)
    <3>1. PICK y \in to : c = Change(y.number, FALSE, Changed(Baseline(serverId, y.number), y))
      BY <2>2 DEF New
    <3>. QED
      BY <1>1, <1>2, <1>3, <3>1
  <2>3. CASE Kept(c, from, to)
    <3>1. PICK x \in from, y \in to : c = Change(y.number, FALSE, Changed(x, y))
      BY <2>3 DEF Kept
    <3>. QED
      BY <1>1, <1>2, <1>3, <3>1
  <2>. QED
    BY <2>1, <2>2, <2>3, EmitCases
<1>. QED
  BY <1>4

(* What is read of a change. *)
LEMMA ReadsChange ==
  ASSUME NEW x, NEW y \in Entity
  PROVE  /\ MSG_ReadDeltaEntity(Change(y.number, FALSE, Changed(x, y)), x) = y
         /\ \A n : MSG_ReadDeltaEntity(Change(n, TRUE, {}), x) = Removed
<1>1. \A n : MSG_ReadDeltaEntity(Change(n, TRUE, {}), x) = Removed
  BY DEF MSG_ReadDeltaEntity, Change
<1>2. y = [number |-> y.number, value |-> y.value]
  BY DEF Entity
<1>3. CASE x.value = y.value
  <2>1. Changed(x, y) = {}
    BY <1>3 DEF Changed
  <2>. QED
    BY <1>1, <1>2, <1>3, <2>1 DEF MSG_ReadDeltaEntity, Change
<1>4. CASE x.value # y.value
  <2>1. Changed(x, y) = {y.value}
    BY <1>4 DEF Changed
  <2>2. (CHOOSE z \in {y.value} : TRUE) = y.value
    OBVIOUS
  <2>. QED
    BY <1>1, <1>2, <2>1, <2>2 DEF MSG_ReadDeltaEntity, Change
<1>. QED
  BY <1>3, <1>4

(* The number of a change. *)
LEMMA EmitNumbers ==
  ASSUME NEW from, NEW to, NEW c
  PROVE  /\ Gone(c, from, to)
              => \E x \in from : (\A y \in to : y.number # x.number) /\ c.number = x.number
         /\ New(c, from, to)
              => \E y \in to : (\A x \in from : x.number # y.number) /\ c.number = y.number
         /\ Kept(c, from, to) => \E x \in from, y \in to : x.number = y.number /\ c.number = y.number
<1>1. \A n, r, ch : Change(n, r, ch).number = n
  BY DEF Change
<1>2. ASSUME Gone(c, from, to)
      PROVE  \E x \in from : (\A y \in to : y.number # x.number) /\ c.number = x.number
  <2>1. PICK x \in from : /\ \A y \in to : y.number # x.number
                          /\ c = Change(x.number, TRUE, {})
    BY <1>2, Zenon DEF Gone
  <2>2. c.number = x.number
    BY <1>1, <2>1
  <2>. QED
    BY <2>1, <2>2
<1>3. ASSUME New(c, from, to)
      PROVE  \E y \in to : (\A x \in from : x.number # y.number) /\ c.number = y.number
  <2>1. PICK y \in to : /\ \A x \in from : x.number # y.number
                        /\ c = Change(y.number, FALSE, Changed(Baseline(serverId, y.number), y))
    BY <1>3, Zenon DEF New
  <2>2. c.number = y.number
    BY <1>1, <2>1
  <2>. QED
    BY <2>1, <2>2
<1>4. ASSUME Kept(c, from, to)
      PROVE  \E x \in from, y \in to : x.number = y.number /\ c.number = y.number
  <2>1. PICK x \in from, y \in to : /\ x.number = y.number /\ x # y
                                    /\ c = Change(y.number, FALSE, Changed(x, y))
    BY <1>4, Zenon DEF Kept
  <2>2. c.number = y.number
    BY <1>1, <2>1
  <2>. QED
    BY <2>1, <2>2
<1>. QED
  BY <1>2, <1>3, <1>4

(* The changes from v to w tell the client of w. *)
LEMMA EmitTells ==
  ASSUME NEW v, Sorted(v), NEW w, Sorted(w),
         NEW from, from = {v[i] : i \in 1 .. Len(v)}, NEW to, to = {w[j] : j \in 1 .. Len(w)}
  PROVE  Tells(SV_EmitPacketEntities(from, to), serverId, v, w)
<1>. DEFINE changes == SV_EmitPacketEntities(from, to)
<1>1. from \subseteq Entity /\ to \subseteq Entity
  BY SortedNumbers
<1>3. \A x, y \in from : x.number = y.number => x = y
  <2>1. SUFFICES ASSUME NEW i \in 1 .. Len(v), NEW k \in 1 .. Len(v), v[i].number = v[k].number
                 PROVE  i = k
    OBVIOUS
  <2>2. Len(v) \in Nat /\ v[i].number \in Nat
        /\ (i < k => v[i].number < v[k].number) /\ (k < i => v[k].number < v[i].number)
    BY SortedNumbers
  <2>. QED
    BY <2>1, <2>2
<1>4. \A x, y \in to : x.number = y.number => x = y
  <2>1. SUFFICES ASSUME NEW i \in 1 .. Len(w), NEW k \in 1 .. Len(w), w[i].number = w[k].number
                 PROVE  i = k
    OBVIOUS
  <2>2. Len(w) \in Nat /\ w[i].number \in Nat
        /\ (i < k => w[i].number < w[k].number) /\ (k < i => w[k].number < w[i].number)
    BY SortedNumbers
  <2>. QED
    BY <2>1, <2>2
<1>5. \A c : c \in changes <=> Gone(c, from, to) \/ New(c, from, to) \/ Kept(c, from, to)
  BY EmitCases
<1>6. \A n, r, ch : Change(n, r, ch).number = n
  BY DEF Change
<1>. HIDE DEF changes
<1>7. \A c \in changes : \/ \E x \in from : x.number = c.number
                         \/ \E y \in to : y.number = c.number
  <2>1. SUFFICES ASSUME NEW c \in changes
                 PROVE  \/ \E x \in from : x.number = c.number
                        \/ \E y \in to : y.number = c.number
    OBVIOUS
  <2>2. Gone(c, from, to) \/ New(c, from, to) \/ Kept(c, from, to)
    BY <1>5, <2>1
  <2>. QED
    BY <2>2, EmitNumbers
<1>8. \A c, d \in changes : c.number = d.number => c = d
  <2>1. SUFFICES ASSUME NEW c \in changes, NEW d \in changes, c.number = d.number PROVE c = d
    OBVIOUS
  <2>2. /\ Gone(c, from, to) \/ New(c, from, to) \/ Kept(c, from, to)
        /\ Gone(d, from, to) \/ New(d, from, to) \/ Kept(d, from, to)
    BY <1>5, <2>1
  <2>3. CASE Gone(c, from, to)
    <3>1. PICK x \in from : /\ \A y \in to : y.number # x.number
                            /\ c = Change(x.number, TRUE, {})
      BY <2>3, Zenon DEF Gone
    <3>2. c.number = x.number
      BY <1>6, <3>1
    <3>3. Gone(d, from, to)
      <4>1. ~New(d, from, to) /\ ~Kept(d, from, to)
        <5>1. ASSUME New(d, from, to) PROVE FALSE
          <6>1. \E b \in to : (\A a \in from : a.number # b.number) /\ d.number = b.number
            BY <5>1, EmitNumbers
          <6>. QED
            BY <2>1, <3>1, <3>2, <6>1
        <5>2. ASSUME Kept(d, from, to) PROVE FALSE
          <6>1. \E a \in from, b \in to : a.number = b.number /\ d.number = b.number
            BY <5>2, EmitNumbers
          <6>. QED
            BY <2>1, <3>1, <3>2, <6>1
        <5>. QED
          BY <5>1, <5>2
      <4>. QED
        BY <2>2, <4>1
    <3>4. PICK a \in from : d = Change(a.number, TRUE, {})
      BY <3>3, Zenon DEF Gone
    <3>5. d.number = a.number
      BY <1>6, <3>4
    <3>6. a.number = x.number
      BY <2>1, <3>2, <3>5
    <3>. QED
      BY <3>1, <3>4, <3>6
  <2>4. CASE New(c, from, to)
    <3>1. PICK y \in to : /\ \A x \in from : x.number # y.number
                          /\ c = Change(y.number, FALSE, Changed(Baseline(serverId, y.number), y))
      BY <2>4, Zenon DEF New
    <3>2. c.number = y.number
      BY <1>6, <3>1
    <3>3. New(d, from, to)
      <4>1. ~Gone(d, from, to) /\ ~Kept(d, from, to)
        <5>1. ASSUME Gone(d, from, to) PROVE FALSE
          <6>1. \E a \in from : (\A b \in to : b.number # a.number) /\ d.number = a.number
            BY <5>1, EmitNumbers
          <6>. QED
            BY <2>1, <3>1, <3>2, <6>1
        <5>2. ASSUME Kept(d, from, to) PROVE FALSE
          <6>1. \E a \in from, b \in to : a.number = b.number /\ d.number = b.number
            BY <5>2, EmitNumbers
          <6>. QED
            BY <2>1, <3>1, <3>2, <6>1
        <5>. QED
          BY <5>1, <5>2
      <4>. QED
        BY <2>2, <4>1
    <3>4. PICK b \in to : d = Change(b.number, FALSE, Changed(Baseline(serverId, b.number), b))
      BY <3>3, Zenon DEF New
    <3>5. d.number = b.number
      BY <1>6, <3>4
    <3>6. b = y
      BY <1>4, <2>1, <3>2, <3>5
    <3>. QED
      BY <3>1, <3>4, <3>6
  <2>5. CASE Kept(c, from, to)
    <3>1. PICK x \in from, y \in to : /\ x.number = y.number /\ x # y
                                      /\ c = Change(y.number, FALSE, Changed(x, y))
      BY <2>5, Zenon DEF Kept
    <3>2. c.number = y.number
      BY <1>6, <3>1
    <3>3. Kept(d, from, to)
      <4>1. ~Gone(d, from, to) /\ ~New(d, from, to)
        <5>1. ASSUME Gone(d, from, to) PROVE FALSE
          <6>1. \E a \in from : (\A b \in to : b.number # a.number) /\ d.number = a.number
            BY <5>1, EmitNumbers
          <6>. QED
            BY <2>1, <3>1, <3>2, <6>1
        <5>2. ASSUME New(d, from, to) PROVE FALSE
          <6>1. \E b \in to : (\A a \in from : a.number # b.number) /\ d.number = b.number
            BY <5>2, EmitNumbers
          <6>. QED
            BY <2>1, <3>1, <3>2, <6>1
        <5>. QED
          BY <5>1, <5>2
      <4>. QED
        BY <2>2, <4>1
    <3>4. PICK a \in from, b \in to : /\ a.number = b.number /\ a # b
                                      /\ d = Change(b.number, FALSE, Changed(a, b))
      BY <3>3, Zenon DEF Kept
    <3>5. d.number = b.number
      BY <1>6, <3>4
    <3>6. b.number = y.number /\ a.number = x.number
      BY <2>1, <3>1, <3>2, <3>4, <3>5
    <3>7. a = x /\ b = y
      BY <1>3, <1>4, <3>6
    <3>. QED
      BY <3>1, <3>4, <3>7
  <2>. QED
    BY <2>2, <2>3, <2>4, <2>5
<1>9. \A x \in from : \/ \E c \in changes : c.number = x.number
                      \/ x \in to
  <2>1. SUFFICES ASSUME NEW x \in from, x \notin to PROVE \E c \in changes : c.number = x.number
    OBVIOUS
  <2>2. CASE \A y \in to : y.number # x.number
    <3>1. Gone(Change(x.number, TRUE, {}), from, to)
      BY <2>1, <2>2, Zenon DEF Gone
    <3>. QED
      BY <1>5, <1>6, <3>1
  <2>3. CASE \E y \in to : y.number = x.number
    <3>1. PICK y \in to : y.number = x.number
      BY <2>3
    <3>2. Kept(Change(y.number, FALSE, Changed(x, y)), from, to)
      BY <2>1, <3>1 DEF Kept
    <3>. QED
      BY <1>5, <1>6, <3>1, <3>2
  <2>. QED
    BY <2>2, <2>3
<1>10. \A y \in to : \/ \E c \in changes : c.number = y.number
                     \/ y \in from
  <2>1. SUFFICES ASSUME NEW y \in to, y \notin from PROVE \E c \in changes : c.number = y.number
    OBVIOUS
  <2>2. CASE \A x \in from : x.number # y.number
    <3>1. New(Change(y.number, FALSE, Changed(Baseline(serverId, y.number), y)), from, to)
      BY <2>1, <2>2, Zenon DEF New
    <3>. QED
      BY <1>5, <1>6, <3>1
  <2>3. CASE \E x \in from : x.number = y.number
    <3>1. PICK x \in from : x.number = y.number
      BY <2>3
    <3>2. Kept(Change(y.number, FALSE, Changed(x, y)), from, to)
      BY <2>1, <3>1 DEF Kept
    <3>. QED
      BY <1>5, <1>6, <3>1, <3>2
  <2>. QED
    BY <2>2, <2>3
<1>11. \A c \in changes : \A x \in from : c.number = x.number =>
         \/ \E y \in to : y.number = c.number /\ MSG_ReadDeltaEntity(c, x) = y
         \/ (\A y \in to : y.number # c.number) /\ MSG_ReadDeltaEntity(c, x) = Removed
  <2>1. SUFFICES ASSUME NEW c \in changes, NEW x \in from, c.number = x.number
                 PROVE  \/ \E y \in to : y.number = c.number /\ MSG_ReadDeltaEntity(c, x) = y
                        \/ /\ \A y \in to : y.number # c.number
                           /\ MSG_ReadDeltaEntity(c, x) = Removed
    OBVIOUS
  <2>3. CASE Gone(c, from, to)
    <3>1. PICK a \in from : /\ \A y \in to : y.number # a.number
                            /\ c = Change(a.number, TRUE, {})
      BY <2>3 DEF Gone
    <3>2. c.number = a.number
      BY <3>1 DEF Change
    <3>3. MSG_ReadDeltaEntity(c, x) = Removed
      BY <3>1 DEF MSG_ReadDeltaEntity, Change
    <3>. QED
      BY <3>1, <3>2, <3>3
  <2>4. CASE New(c, from, to)
    BY <2>1, <2>4, EmitNumbers
  <2>5. CASE Kept(c, from, to)
    <3>1. PICK a \in from, b \in to : /\ a.number = b.number /\ a # b
                                      /\ c = Change(b.number, FALSE, Changed(a, b))
      BY <2>5 DEF Kept
    <3>2. c.number = b.number
      BY <3>1 DEF Change
    <3>3. a = x
      BY <1>3, <2>1, <3>1, <3>2
    <3>4. MSG_ReadDeltaEntity(c, x) = b
      BY <1>1, <3>1, <3>3, ReadsChange
    <3>. QED
      BY <3>2, <3>4
  <2>. QED
    BY <1>5, <2>3, <2>4, <2>5
<1>12. \A c \in changes : \A y \in to :
         c.number = y.number /\ (\A x \in from : x.number # c.number)
           => MSG_ReadDeltaEntity(c, Baseline(serverId, c.number)) = y
  <2>1. SUFFICES ASSUME NEW c \in changes, NEW y \in to, c.number = y.number,
                        \A x \in from : x.number # c.number
                 PROVE  MSG_ReadDeltaEntity(c, Baseline(serverId, c.number)) = y
    OBVIOUS
  <2>2. ~Gone(c, from, to) /\ ~Kept(c, from, to)
    BY <2>1, EmitNumbers
  <2>3. PICK b \in to : c = Change(b.number, FALSE, Changed(Baseline(serverId, b.number), b))
    BY <1>5, <2>2 DEF New
  <2>4. c.number = b.number
    BY <2>3 DEF Change
  <2>5. b = y
    BY <1>4, <2>1, <2>4
  <2>6. PICK z : z = Baseline(serverId, c.number)
    OBVIOUS
  <2>7. c = Change(y.number, FALSE, Changed(z, y)) /\ y \in Entity
    BY <1>1, <2>3, <2>4, <2>5, <2>6
  <2>8. MSG_ReadDeltaEntity(Change(y.number, FALSE, Changed(z, y)), z) = y
    BY <2>7, ReadsChange
  <2>. QED
    BY <2>6, <2>7, <2>8
<1>13. \A i \in 1 .. Len(v) : v[i] \in from
  OBVIOUS
<1>14. \A j \in 1 .. Len(w) : w[j] \in to
  OBVIOUS
<1>15. \A x \in from : \E i \in 1 .. Len(v) : x = v[i]
  OBVIOUS
<1>16. \A y \in to : \E j \in 1 .. Len(w) : y = w[j]
  OBVIOUS
<1>21. \A c \in changes : \/ \E i \in 1 .. Len(v) : v[i].number = c.number
                          \/ \E j \in 1 .. Len(w) : w[j].number = c.number
  BY <1>7, <1>15, <1>16
<1>22. \A i \in 1 .. Len(v) : \/ \E c \in changes : c.number = v[i].number
                              \/ \E j \in 1 .. Len(w) : w[j] = v[i]
  BY <1>9, <1>13, <1>16
<1>23. \A j \in 1 .. Len(w) : \/ \E c \in changes : c.number = w[j].number
                              \/ \E i \in 1 .. Len(v) : v[i] = w[j]
  BY <1>10, <1>14, <1>15
<1>24. ASSUME NEW c \in changes, NEW i \in 1 .. Len(v), c.number = v[i].number
       PROVE  \/ \E j \in 1 .. Len(w) : /\ w[j].number = c.number
                                        /\ MSG_ReadDeltaEntity(c, v[i]) = w[j]
              \/ /\ \A j \in 1 .. Len(w) : w[j].number # c.number
                 /\ MSG_ReadDeltaEntity(c, v[i]) = Removed
  <2>1. v[i] \in from
    BY <1>13
  <2>2. CASE \E y \in to : y.number = c.number /\ MSG_ReadDeltaEntity(c, v[i]) = y
    BY <1>16, <2>2
  <2>3. CASE (\A y \in to : y.number # c.number) /\ MSG_ReadDeltaEntity(c, v[i]) = Removed
    BY <1>14, <2>3
  <2>. QED
    BY <1>11, <1>24, <2>1, <2>2, <2>3
<1>25. \A c \in changes : \A j \in 1 .. Len(w) :
         c.number = w[j].number /\ (\A i \in 1 .. Len(v) : v[i].number # c.number)
           => MSG_ReadDeltaEntity(c, Baseline(serverId, c.number)) = w[j]
  BY <1>12, <1>14, <1>15
<1>. QED
  BY <1>8, <1>21, <1>22, <1>23, <1>24, <1>25 DEF Tells, changes

-----------------------------------------------------------------------------
(* The types.                                                              *)

(* The parts of the type invariant. *)
ServerTypes ==
  /\ outgoingSequence \in 2 .. (MaxMessages + 1) /\ state \in {"connected", "primed", "active"}
  /\ deltaMessage \in Int /\ gamestateMessageNum \in Nat /\ serverId \in 1 .. MaxLevels
RingTypes ==
  /\ frames \in Ring(PACKET_BACKUP, [first_entity : Nat, num_entities : Nat])
  /\ snapshotEntities \in Ring(numSnapshotEntities, Entity)
  /\ nextSnapshotEntities \in Nat /\ others \in 0 .. MaxEntities
ClientTypes ==
  /\ level \in 1 .. serverId /\ serverMessageSequence \in 1 .. outgoingSequence
  /\ snap \in 0 .. serverMessageSequence /\ snapshots \in Ring(PACKET_BACKUP, Snapshot)
  /\ parseEntities \in Ring(MAX_PARSE_ENTITIES, Entity) /\ parseEntitiesNum \in Nat
DownType == down = <<>> \/ (Len(down) = 1 /\ Head(down) \in Message)
UpType ==
  up = <<>> \/ (Len(up) = 1 /\ Head(up) \in [serverId : Nat, ack : Nat, delta : BOOLEAN])

(* The type invariant is its parts. *)
LEMMA TypeParts ==
  TypeOK <=> ServerTypes /\ RingTypes /\ ClientTypes /\ DownType /\ UpType
  BY DEF TypeOK, ServerTypes, RingTypes, ClientTypes, DownType, UpType

(* And so it is after a step. *)
LEMMA TypePartsNext ==
  ServerTypes' /\ RingTypes' /\ ClientTypes' /\ DownType' /\ UpType' => TypeOK'
  BY DEF TypeOK, ServerTypes, RingTypes, ClientTypes, DownType, UpType

(* What is assumed of the constants. *)
LEMMA Bounds ==
  /\ PACKET_BACKUP \in Nat \ {0} /\ KEEP \in 0 .. PACKET_BACKUP
  /\ numSnapshotEntities \in Nat \ {0} /\ MAX_PARSE_ENTITIES \in Nat \ {0}
  /\ MaxMessages \in Nat \ {0} /\ MaxLevels \in Nat \ {0} /\ MaxEntities \in Nat /\ MARGIN \in Nat \ {0}
  /\ Views \subseteq Seq(Entity) /\ OtherEntities \subseteq Nat
  BY SnapshotsAssumption DEF SnapshotsAssumption

(* A frame has its place in the ring. *)
LEMMA FrameSlots ==
  ASSUME NEW n \in Int
  PROVE  PacketMask(n) \in 0 .. (PACKET_BACKUP - 1)
  BY Bounds, Rounds DEF PacketMask

(* A zeroed entity is an entity. *)
LEMMA ZeroedIsEntity == Zeroed \in Entity
  BY DEF Zeroed, Entity, None

(* An entry of the ring never read is of the type of a snapshot. *)
LEMMA NoSnapshotType == NoSnapshot \in Snapshot
  BY DEF NoSnapshot, Snapshot

(* The types hold at the start. *)
LEMMA InitType == Init => TypeOK
<1>. SUFFICES ASSUME Init PROVE TypeOK
  OBVIOUS
<1>1. ServerTypes
  <2>1. outgoingSequence \in 2 .. (MaxMessages + 1) /\ serverId \in 1 .. MaxLevels
    BY Bounds DEF Init
  <2>. QED
    BY <2>1 DEF Init, ServerTypes
<1>2. RingTypes
  <2>1. [first_entity |-> 0, num_entities |-> 0] \in [first_entity : Nat, num_entities : Nat]
    OBVIOUS
  <2>2. frames \in Ring(PACKET_BACKUP, [first_entity : Nat, num_entities : Nat])
    BY <2>1 DEF Init, Ring
  <2>3. snapshotEntities \in Ring(numSnapshotEntities, Entity)
    BY ZeroedIsEntity DEF Init, Ring, NoEntities
  <2>. QED
    BY <2>2, <2>3, Bounds DEF Init, RingTypes
<1>3. ClientTypes
  <2>1. snapshots \in Ring(PACKET_BACKUP, Snapshot)
    BY NoSnapshotType DEF Init, Ring, NoSnapshots
  <2>2. parseEntities \in Ring(MAX_PARSE_ENTITIES, Entity)
    BY ZeroedIsEntity DEF Init, Ring, NoEntities
  <2>3. level \in 1 .. serverId /\ serverMessageSequence \in 1 .. outgoingSequence
        /\ snap \in 0 .. serverMessageSequence /\ parseEntitiesNum \in Nat
    BY DEF Init
  <2>. QED
    BY <2>1, <2>2, <2>3 DEF ClientTypes
<1>4. DownType /\ UpType
  BY DEF Init, DownType, UpType
<1>. QED
  BY <1>1, <1>2, <1>3, <1>4, TypeParts

(* A message of the server. *)
LEMMA SendType ==
  ASSUME ServerTypes, NEW msg \in Message, Send(msg)
  PROVE  /\ outgoingSequence' = outgoingSequence + 1 /\ outgoingSequence' \in 2 .. (MaxMessages + 1)
         /\ DownType'
<1>1. /\ outgoingSequence' = outgoingSequence + 1 /\ outgoingSequence <= MaxMessages
      /\ down' = <<msg>>
  BY DEF Send
<1>2. outgoingSequence' \in 2 .. (MaxMessages + 1)
  BY <1>1, Bounds DEF ServerTypes
<1>3. Len(down') = 1 /\ Head(down') \in Message
  BY <1>1
<1>. QED
  BY <1>1, <1>2, <1>3 DEF DownType

(* A message without a snapshot is a message. *)
LEMMA OtherType ==
  ASSUME ServerTypes, NEW kind \in {"gamestate", "idle"}
  PROVE  Other(kind) \in Message
<1>1. outgoingSequence \in Nat /\ serverId \in Nat /\ 0 \in 0 .. (PACKET_BACKUP - 1)
      /\ {} \in SUBSET [number : 0 .. None, removed : BOOLEAN, changed : SUBSET (0 .. 1)]
  BY Bounds DEF ServerTypes
<1>. QED
  BY <1>1 DEF Other, Message

(* The entities of a frame. *)
LEMMA FrameEntitiesType ==
  ASSUME NEW ring \in Ring(numSnapshotEntities, Entity),
         NEW frame, frame.first_entity \in Nat, frame.num_entities \in Nat
  PROVE  FrameEntities(ring, frame) \subseteq Entity
<1>1. \A i \in 0 .. (frame.num_entities - 1) :
        ServerSlot(frame.first_entity + i) \in 0 .. (numSnapshotEntities - 1)
  BY ServerSlots
<1>. QED
  BY <1>1 DEF FrameEntities, Ring

(* A snapshot is a message: its base is less than the ring away. *)
LEMMA SnapshotType ==
  ASSUME ServerTypes, RingTypes, NEW view \in Views,
         Answers(deltaMessage) => deltaMessage < outgoingSequence
  PROVE  SV_WriteSnapshotToClient(view) \in Message
<1>. DEFINE next == nextSnapshotEntities + Len(view)
            ring == Copied(view)
            base == frames[PacketMask(deltaMessage)]
            delta == Answers(deltaMessage) /\ IsKept(base, next)
            from == IF delta THEN FrameEntities(ring, base) ELSE {}
            to == FrameEntities(ring, NewFrame(view))
            lastframe == IF delta THEN outgoingSequence - deltaMessage ELSE 0
            changes == SV_EmitPacketEntities(from, to)
<1>1. /\ outgoingSequence \in Nat /\ serverId \in Nat /\ deltaMessage \in Int
      /\ view \in Seq(Entity) /\ Len(view) \in Nat /\ nextSnapshotEntities \in Nat
  BY Bounds DEF ServerTypes, RingTypes
<1>2. ring \in Ring(numSnapshotEntities, Entity)
  BY <1>1, CopiedType DEF ServerOK, RingTypes
<1>3. base.first_entity \in Nat /\ base.num_entities \in Nat
  BY <1>1, FrameSlots DEF RingTypes, Ring
<1>4. NewFrame(view).first_entity \in Nat /\ NewFrame(view).num_entities \in Nat
  BY <1>1 DEF NewFrame
<1>5. from \subseteq Entity /\ to \subseteq Entity
  <2>. HIDE DEF ring, base, delta
  <2>. QED
    BY <1>2, <1>3, <1>4, FrameEntitiesType
<1>6. changes \subseteq Changing
  <2>. HIDE DEF from, to
  <2>. QED
    BY <1>5, EmitTypes
<1>7. lastframe \in 0 .. (PACKET_BACKUP - 1)
  <2>1. CASE delta
    BY <1>1, <2>1, Bounds DEF Answers
  <2>2. CASE ~delta
    BY <2>2, Bounds
  <2>. QED
    BY <2>1, <2>2
<1>8. SV_WriteSnapshotToClient(view)
        = [sequence |-> outgoingSequence, kind |-> "snapshot", serverId |-> serverId,
           lastframe |-> lastframe, changes |-> changes, built |-> view]
  BY DEF SV_WriteSnapshotToClient
<1>. HIDE DEF lastframe, changes
<1>. QED
  BY <1>1, <1>6, <1>7, <1>8 DEF Message, Changing

-----------------------------------------------------------------------------
(* The server's steps.                                                     *)

(* SV_SendClientSnapshot keeps the types. *)
LEMMA SendSnapshotType == IInv /\ TypeOK /\ SV_SendClientSnapshot => TypeOK'
<1>. SUFFICES ASSUME IInv, TypeOK, SV_SendClientSnapshot PROVE TypeOK'
  OBVIOUS
<1>1. ServerTypes /\ RingTypes /\ ClientTypes /\ DownType /\ UpType
  BY TypeParts
<1>2. PICK view \in Views :
        /\ Send(SV_WriteSnapshotToClient(view))
        /\ frames' = [frames EXCEPT ![PacketMask(outgoingSequence)] = NewFrame(view)]
        /\ snapshotEntities' = Copied(view)
        /\ nextSnapshotEntities' = nextSnapshotEntities + Len(view)
  BY DEF SV_SendClientSnapshot
<1>3. UNCHANGED <<state, deltaMessage, gamestateMessageNum, serverId, others, clientVars, up>>
      /\ state = "active"
  BY DEF SV_SendClientSnapshot
<1>4. Answers(deltaMessage) => deltaMessage < outgoingSequence
  <2>1. SUFFICES ASSUME deltaMessage > 0 PROVE deltaMessage < outgoingSequence
    BY DEF Answers
  <2>2. Held(deltaMessage)
    BY <1>3, <2>1 DEF IInv, ActiveOK
  <2>3. deltaMessage \in 1 .. snap
    BY <2>2 DEF Held
  <2>. QED
    BY <2>3 DEF IInv, NumbersOK
<1>5. SV_WriteSnapshotToClient(view) \in Message
  BY <1>1, <1>4, SnapshotType
<1>6. /\ outgoingSequence' = outgoingSequence + 1 /\ outgoingSequence' \in 2 .. (MaxMessages + 1)
      /\ DownType'
  BY <1>1, <1>2, <1>5, SendType
<1>7. ServerTypes'
  BY <1>1, <1>3, <1>6 DEF ServerTypes
<1>8. RingTypes'
  <2>1. /\ view \in Seq(Entity) /\ Len(view) \in Nat /\ nextSnapshotEntities \in Nat
        /\ outgoingSequence \in Int
    BY <1>1, Bounds DEF RingTypes, ServerTypes
  <2>2. NewFrame(view) \in [first_entity : Nat, num_entities : Nat]
    BY <2>1 DEF NewFrame
  <2>3. frames' \in Ring(PACKET_BACKUP, [first_entity : Nat, num_entities : Nat])
    BY <1>1, <1>2, <2>2 DEF RingTypes, Ring
  <2>4. snapshotEntities' \in Ring(numSnapshotEntities, Entity)
    BY <1>1, <1>2, <2>1, CopiedType DEF RingTypes, ServerOK
  <2>. QED
    BY <1>1, <1>2, <1>3, <2>1, <2>3, <2>4 DEF RingTypes
<1>9. ClientTypes'
  <2>1. serverMessageSequence \in 1 .. (outgoingSequence + 1)
    BY <1>1 DEF ServerTypes, ClientTypes
  <2>. QED
    BY <1>1, <1>3, <1>6, <2>1 DEF ClientTypes, clientVars
<1>10. UpType'
  BY <1>1, <1>3 DEF UpType
<1>. QED
  BY <1>6, <1>7, <1>8, <1>9, <1>10, TypePartsNext

(* SV_SendClientIdle keeps the types. *)
LEMMA SendIdleType == TypeOK /\ SV_SendClientIdle => TypeOK'
<1>. SUFFICES ASSUME TypeOK, SV_SendClientIdle PROVE TypeOK'
  OBVIOUS
<1>1. ServerTypes /\ RingTypes /\ ClientTypes /\ DownType /\ UpType
  BY TypeParts
<1>2. Send(Other("idle")) /\ UNCHANGED <<state, deltaMessage, gamestateMessageNum, serverId,
                                         serverEntities, clientVars, up>>
  BY DEF SV_SendClientIdle
<1>3. Other("idle") \in Message
  BY <1>1, OtherType
<1>4. /\ outgoingSequence' = outgoingSequence + 1 /\ outgoingSequence' \in 2 .. (MaxMessages + 1)
      /\ DownType'
  BY <1>1, <1>2, <1>3, SendType
<1>5. ServerTypes'
  BY <1>1, <1>2, <1>4 DEF ServerTypes
<1>6. RingTypes'
  BY <1>1, <1>2 DEF RingTypes, serverEntities
<1>7. ClientTypes'
  <2>1. serverMessageSequence \in 1 .. (outgoingSequence + 1)
    BY <1>1 DEF ServerTypes, ClientTypes
  <2>. QED
    BY <1>1, <1>2, <1>4, <2>1 DEF ClientTypes, clientVars
<1>8. UpType'
  BY <1>1, <1>2 DEF UpType
<1>. QED
  BY <1>4, <1>5, <1>6, <1>7, <1>8, TypePartsNext

(* Another client's snapshot keeps the types. *)
LEMMA OthersType == TypeOK /\ SnapshotsOfOthers => TypeOK'
<1>. SUFFICES ASSUME TypeOK, SnapshotsOfOthers PROVE TypeOK'
  OBVIOUS
<1>1. ServerTypes /\ RingTypes /\ ClientTypes /\ DownType /\ UpType
  BY TypeParts
<1>2. PICK n \in OtherEntities :
        /\ others + n <= MaxEntities /\ others' = others + n
        /\ snapshotEntities' = [s \in DOMAIN snapshotEntities |->
             IF \E i \in 0 .. (n - 1) : ServerSlot(nextSnapshotEntities + i) = s THEN Zeroed
             ELSE snapshotEntities[s]]
        /\ nextSnapshotEntities' = nextSnapshotEntities + n
  BY DEF SnapshotsOfOthers
<1>3. UNCHANGED <<clientOfServer, serverId, frames, clientVars, down, up>>
  BY DEF SnapshotsOfOthers
<1>4. n \in Nat
  BY Bounds
<1>5. snapshotEntities' \in Ring(numSnapshotEntities, Entity)
  BY <1>1, <1>2, ZeroedIsEntity DEF RingTypes, Ring
<1>6. others' \in 0 .. MaxEntities /\ nextSnapshotEntities' \in Nat
  BY <1>1, <1>2, <1>4, Bounds DEF RingTypes
<1>7. RingTypes'
  BY <1>1, <1>3, <1>5, <1>6 DEF RingTypes
<1>8. ServerTypes' /\ ClientTypes' /\ DownType' /\ UpType'
  BY <1>1, <1>3 DEF ServerTypes, ClientTypes, DownType, UpType, clientOfServer, clientVars
<1>. QED
  BY <1>7, <1>8, TypePartsNext

(* SV_SpawnServer keeps the types. *)
LEMMA SpawnServerType == TypeOK /\ SV_SpawnServer => TypeOK'
<1>. SUFFICES ASSUME TypeOK, SV_SpawnServer PROVE TypeOK'
  OBVIOUS
<1>1. ServerTypes /\ RingTypes /\ ClientTypes /\ DownType /\ UpType
  BY TypeParts
<1>2. /\ serverId < MaxLevels /\ serverId' = serverId + 1 /\ state' = "connected"
      /\ snapshotEntities' = [s \in DOMAIN snapshotEntities |-> Zeroed]
      /\ nextSnapshotEntities' = 0
      /\ UNCHANGED <<outgoingSequence, deltaMessage, gamestateMessageNum, frames, others,
                     clientVars, down, up>>
  BY DEF SV_SpawnServer
<1>3. serverId' \in 1 .. MaxLevels /\ level \in 1 .. serverId'
  BY <1>1, <1>2, Bounds DEF ServerTypes, ClientTypes
<1>4. ServerTypes'
  BY <1>1, <1>2, <1>3 DEF ServerTypes
<1>5. snapshotEntities' \in Ring(numSnapshotEntities, Entity)
  BY <1>1, <1>2, ZeroedIsEntity DEF RingTypes, Ring
<1>6. RingTypes'
  BY <1>1, <1>2, <1>5 DEF RingTypes
<1>7. ClientTypes'
  BY <1>1, <1>2, <1>3 DEF ClientTypes, clientVars
<1>8. DownType' /\ UpType'
  BY <1>1, <1>2 DEF DownType, UpType
<1>. QED
  BY <1>4, <1>6, <1>7, <1>8, TypePartsNext

(* SV_ExecuteClientMessage keeps the types. *)
LEMMA ExecuteType == TypeOK /\ SV_ExecuteClientMessage => TypeOK'
<1>. SUFFICES ASSUME TypeOK, SV_ExecuteClientMessage PROVE TypeOK'
  OBVIOUS
<1>1. ServerTypes /\ RingTypes /\ ClientTypes /\ DownType /\ UpType
  BY TypeParts
<1>2. PICK msg : msg = Head(up)
  OBVIOUS
<1>3. /\ up # <<>> /\ up' = <<>> /\ UNCHANGED <<serverId, serverEntities, clientVars>>
      /\ \/ SV_UserMove(msg)
         \/ SV_SendClientGameState
         \/ UNCHANGED <<clientOfServer, down>>
  BY <1>2 DEF SV_ExecuteClientMessage
<1>4. msg.ack \in Nat
  BY <1>1, <1>2, <1>3 DEF UpType
<1>5. ServerTypes' /\ DownType' /\ outgoingSequence' \in {outgoingSequence, outgoingSequence + 1}
  <2>1. CASE SV_UserMove(msg)
    <3>1. deltaMessage' \in Int /\ state' \in {"connected", "primed", "active"}
      BY <1>1, <1>4, <2>1 DEF SV_UserMove, ServerTypes
    <3>. QED
      BY <1>1, <1>3, <2>1, <3>1 DEF SV_UserMove, ServerTypes, DownType
  <2>2. CASE SV_SendClientGameState
    <3>1. Send(Other("gamestate")) /\ state' = "primed" /\ gamestateMessageNum' = outgoingSequence
          /\ deltaMessage' = deltaMessage
      BY <2>2 DEF SV_SendClientGameState
    <3>2. Other("gamestate") \in Message
      BY <1>1, OtherType
    <3>3. /\ outgoingSequence' = outgoingSequence + 1
          /\ outgoingSequence' \in 2 .. (MaxMessages + 1) /\ DownType'
      BY <1>1, <3>1, <3>2, SendType
    <3>4. gamestateMessageNum' \in Nat
      BY <1>1, <3>1 DEF ServerTypes
    <3>. QED
      BY <1>1, <1>3, <3>1, <3>3, <3>4 DEF ServerTypes
  <2>3. CASE UNCHANGED <<clientOfServer, down>>
    BY <1>1, <1>3, <2>3 DEF ServerTypes, DownType, clientOfServer
  <2>. QED
    BY <1>3, <2>1, <2>2, <2>3
<1>6. RingTypes'
  BY <1>1, <1>3 DEF RingTypes, serverEntities
<1>7. ClientTypes'
  <2>1. serverMessageSequence \in 1 .. outgoingSequence'
    BY <1>1, <1>5 DEF ServerTypes, ClientTypes
  <2>. QED
    BY <1>1, <1>3, <2>1 DEF ClientTypes, clientVars
<1>8. UpType'
  BY <1>3 DEF UpType
<1>. QED
  BY <1>5, <1>6, <1>7, <1>8, TypePartsNext

-----------------------------------------------------------------------------
(* The client's steps.                                                     *)

(* What CL_ParseSnapshot reads is a snapshot, and a ring of entities. *)
LEMMA ParseSnapshotType ==
  ASSUME ServerTypes, ClientTypes, NEW msg \in Message, CL_ParseSnapshot(msg),
         msg.sequence > serverMessageSequence
  PROVE  /\ level' = level /\ snap' \in 0 .. msg.sequence /\ snapshots' \in Ring(PACKET_BACKUP, Snapshot)
         /\ parseEntities' \in Ring(MAX_PARSE_ENTITIES, Entity) /\ parseEntitiesNum' \in Nat
<1>. DEFINE base == msg.sequence - msg.lastframe
            old == IF msg.lastframe = 0 THEN NoSnapshot ELSE snapshots[PacketMask(base)]
            parse == CL_ParsePacketEntities(msg.changes, old)
            new == [valid |-> TRUE, messageNum |-> msg.sequence,
                    parseEntitiesNum |-> parseEntitiesNum,
                    numEntities |-> parse.num - parseEntitiesNum, built |-> msg.built,
                    fits |-> Fits(old, msg.built)]
<1>1. /\ msg.sequence \in Nat /\ msg.lastframe \in Nat /\ msg.changes \subseteq Changing
      /\ msg.built \in Views \cup {<<>>}
  BY Bounds DEF Message, Changing
<1>2. /\ snap \in Nat /\ serverMessageSequence \in Nat /\ snap <= serverMessageSequence
      /\ parseEntitiesNum \in Nat
  BY DEF ClientTypes, ServerTypes
<1>3. ClientOK
  BY DEF ClientOK, ClientTypes, ServerTypes
<1>4. old \in Snapshot
  <2>1. base \in Int
    BY <1>1
  <2>2. snapshots[PacketMask(base)] \in Snapshot
    BY <2>1, FrameSlots DEF ClientTypes, Ring
  <2>. QED
    BY <2>2, NoSnapshotType
<1>. HIDE DEF old
<1>5. BaseOK(old)
  BY <1>4 DEF BaseOK, Snapshot
<1>6. parse.ring \in Ring(MAX_PARSE_ENTITIES, Entity) /\ parse.num \in Nat
      /\ parse.num >= parseEntitiesNum
  <2>1. IsFiniteSet(msg.changes)
    BY <1>1, ChangingIsFinite
  <2>. QED
    BY <1>1, <1>3, <1>5, <2>1, ParseKeeps
<1>7. /\ parseEntities' = parse.ring /\ parseEntitiesNum' = parse.num /\ level' = level
      /\ \/ /\ snap' = msg.sequence
            /\ snapshots' = [s \in DOMAIN snapshots |->
                 IF s = PacketMask(msg.sequence) THEN new
                 ELSE IF s \in Skipped(msg.sequence) THEN Unread(snapshots[s])
                 ELSE snapshots[s]]
         \/ UNCHANGED <<snap, snapshots>>
  BY DEF CL_ParseSnapshot, old
<1>. HIDE DEF parse
<1>8. new \in Snapshot
  <2>1. parse.num - parseEntitiesNum \in Nat
    BY <1>2, <1>6
  <2>2. Fits(old, msg.built) \in BOOLEAN
    BY DEF Fits
  <2>. QED
    BY <1>1, <1>2, <2>1, <2>2 DEF Snapshot
<1>9. \A r \in Snapshot : Unread(r) \in Snapshot
  <2>1. SUFFICES ASSUME NEW r \in Snapshot PROVE Unread(r) \in Snapshot
    OBVIOUS
  <2>2. PICK a \in BOOLEAN, b \in Nat, c \in Nat, d \in Nat, e \in Views \cup {<<>>}, g \in BOOLEAN :
          r = [valid |-> a, messageNum |-> b, parseEntitiesNum |-> c, numEntities |-> d,
               built |-> e, fits |-> g]
    BY DEF Snapshot
  <2>3. Unread(r) = [valid |-> FALSE, messageNum |-> b, parseEntitiesNum |-> c,
                     numEntities |-> d, built |-> <<>>, fits |-> TRUE]
    <3>1. PICK f, u, t : f = FALSE /\ u = <<>> /\ t = TRUE
      OBVIOUS
    <3>2. [[valid |-> a, messageNum |-> b, parseEntitiesNum |-> c, numEntities |-> d,
            built |-> e, fits |-> g] EXCEPT !.valid = f]
            = [valid |-> f, messageNum |-> b, parseEntitiesNum |-> c, numEntities |-> d,
               built |-> e, fits |-> g]
      OBVIOUS
    <3>3. [[valid |-> f, messageNum |-> b, parseEntitiesNum |-> c, numEntities |-> d,
            built |-> e, fits |-> g] EXCEPT !.built = u]
            = [valid |-> f, messageNum |-> b, parseEntitiesNum |-> c, numEntities |-> d,
               built |-> u, fits |-> g]
      OBVIOUS
    <3>4. [[valid |-> f, messageNum |-> b, parseEntitiesNum |-> c, numEntities |-> d,
            built |-> u, fits |-> g] EXCEPT !.fits = t]
            = [valid |-> f, messageNum |-> b, parseEntitiesNum |-> c, numEntities |-> d,
               built |-> u, fits |-> t]
      OBVIOUS
    <3>5. Unread(r) = [[[r EXCEPT !.valid = f] EXCEPT !.built = u] EXCEPT !.fits = t]
      BY <3>1, Zenon DEF Unread
    <3>. QED
      BY <2>2, <3>1, <3>2, <3>3, <3>4, <3>5, Zenon
  <2>. QED
    BY <2>3 DEF Snapshot
<1>. HIDE DEF new
<1>10. snapshots' \in Ring(PACKET_BACKUP, Snapshot)
  BY <1>7, <1>8, <1>9 DEF ClientTypes, Ring
<1>11. snap' \in 0 .. msg.sequence
  BY <1>1, <1>2, <1>7
<1>. QED
  BY <1>6, <1>7, <1>10, <1>11

(* CL_PacketEvent keeps the types. *)
LEMMA PacketType == IInv /\ TypeOK /\ CL_PacketEvent => TypeOK'
<1>. SUFFICES ASSUME IInv, TypeOK, CL_PacketEvent PROVE TypeOK'
  OBVIOUS
<1>1. ServerTypes /\ RingTypes /\ ClientTypes /\ DownType /\ UpType
  BY TypeParts
<1>2. PICK msg : down = <<msg>> /\ DownOK(msg)
  BY DEF IInv, CL_PacketEvent
<1>3. msg = Head(down) /\ msg \in Message
  BY <1>1, <1>2 DEF DownType
<1>4. /\ down' = <<>> /\ serverMessageSequence' = msg.sequence
      /\ \/ msg.kind = "snapshot" /\ CL_ParseSnapshot(msg)
         \/ msg.kind = "gamestate" /\ CL_ParseGamestate(msg)
         \/ UNCHANGED <<level, snap, snapshots, parseEntities, parseEntitiesNum>>
      /\ UNCHANGED <<clientOfServer, serverId, serverEntities, up>>
  BY <1>3 DEF CL_PacketEvent
<1>5. /\ msg.sequence \in Nat /\ msg.sequence > serverMessageSequence
      /\ msg.sequence < outgoingSequence /\ msg.serverId \in Nat /\ msg.serverId <= serverId
      /\ msg.kind = "gamestate" => level < msg.serverId
  BY <1>2, <1>1 DEF DownOK, ClientTypes, ServerTypes
<1>6. serverMessageSequence' \in 1 .. outgoingSequence
  BY <1>1, <1>4, <1>5 DEF ClientTypes, ServerTypes
<1>7. ClientTypes'
  <2>1. CASE msg.kind = "snapshot" /\ CL_ParseSnapshot(msg)
    <3>1. /\ level' = level /\ snap' \in 0 .. msg.sequence /\ snapshots' \in Ring(PACKET_BACKUP, Snapshot)
          /\ parseEntities' \in Ring(MAX_PARSE_ENTITIES, Entity) /\ parseEntitiesNum' \in Nat
      BY <1>1, <1>3, <1>5, <2>1, ParseSnapshotType
    <3>. QED
      BY <1>1, <1>4, <1>6, <3>1 DEF ClientTypes, clientOfServer
  <2>2. CASE msg.kind = "gamestate" /\ CL_ParseGamestate(msg)
    <3>1. level' = msg.serverId /\ snap' = 0 /\ snapshots' = NoSnapshots
          /\ parseEntities' = NoEntities(MAX_PARSE_ENTITIES) /\ parseEntitiesNum' = 0
      BY <2>2 DEF CL_ParseGamestate
    <3>2. level' \in 1 .. serverId
      BY <1>1, <1>5, <2>2, <3>1 DEF ClientTypes, ServerTypes
    <3>3. snap' \in 0 .. msg.sequence
      BY <1>5, <3>1
    <3>4. snapshots' \in Ring(PACKET_BACKUP, Snapshot)
      BY <3>1, NoSnapshotType DEF NoSnapshots, Ring
    <3>5. parseEntities' \in Ring(MAX_PARSE_ENTITIES, Entity)
      BY <3>1, ZeroedIsEntity DEF NoEntities, Ring
    <3>. QED
      BY <1>4, <1>6, <3>1, <3>2, <3>3, <3>4, <3>5 DEF ClientTypes, clientOfServer
  <2>3. CASE UNCHANGED <<level, snap, snapshots, parseEntities, parseEntitiesNum>>
    <3>1. snap \in 0 .. msg.sequence
      BY <1>1, <1>5 DEF ClientTypes, ServerTypes
    <3>. QED
      BY <1>1, <1>4, <1>6, <2>3, <3>1 DEF ClientTypes, clientOfServer
  <2>. QED
    BY <1>4, <2>1, <2>2, <2>3
<1>8. ServerTypes' /\ RingTypes' /\ DownType' /\ UpType'
  BY <1>1, <1>4 DEF ServerTypes, RingTypes, DownType, UpType, clientOfServer, serverEntities
<1>. QED
  BY <1>7, <1>8, TypePartsNext

(* CL_WritePacket keeps the types. *)
LEMMA WriteType == TypeOK /\ CL_WritePacket => TypeOK'
<1>. SUFFICES ASSUME TypeOK, CL_WritePacket PROVE TypeOK'
  OBVIOUS
<1>1. ServerTypes /\ RingTypes /\ ClientTypes /\ DownType /\ UpType
  BY TypeParts
<1>2. PICK msg : msg = [serverId |-> level, ack |-> serverMessageSequence, delta |-> AsksForDelta]
  OBVIOUS
<1>3. up' = <<msg>> /\ UNCHANGED <<clientOfServer, serverId, serverEntities, clientVars, down>>
  BY <1>2 DEF CL_WritePacket
<1>4. msg \in [serverId : Nat, ack : Nat, delta : BOOLEAN]
  <2>1. level \in Nat /\ serverMessageSequence \in Nat /\ AsksForDelta \in BOOLEAN
    BY <1>1 DEF ClientTypes, ServerTypes, AsksForDelta
  <2>. QED
    BY <1>2, <2>1
<1>5. UpType'
  <2>1. Len(up') = 1 /\ Head(up') = msg
    BY <1>3
  <2>. QED
    BY <1>4, <2>1 DEF UpType
<1>6. ServerTypes' /\ RingTypes' /\ ClientTypes' /\ DownType'
  BY <1>1, <1>3 DEF ServerTypes, RingTypes, ClientTypes, DownType, clientOfServer, serverEntities, clientVars
<1>. QED
  BY <1>5, <1>6, TypePartsNext

(* Every step keeps the types. *)
LEMMA TypeStep == IInv /\ TypeOK /\ [Next]_vars => TypeOK'
<1>1. TypeOK /\ UNCHANGED vars => TypeOK'
  BY DEF TypeOK, vars
<1>. QED
  BY <1>1, SendSnapshotType, SendIdleType, OthersType, SpawnServerType, ExecuteType,
     PacketType, WriteType DEF Next

(* Every variable keeps its type; the distance to the base of a snapshot   *)
(* fits the frames, and a client is never ahead of the server.             *)
THEOREM TypesHold == Spec => []TypeOK
<1>1. IInv /\ TypeOK /\ [Next]_vars => TypeOK'
  BY TypeStep
<1>. QED
  BY <1>1, InitType, InvariantHolds, PTL DEF Spec

-----------------------------------------------------------------------------
(* What both ends keep of a snapshot.                                      *)

(* The frame of message n is the view, where the ring still has it. *)
Recorded(n, view) ==
  /\ frames[PacketMask(n)].num_entities = Len(view)
  /\ frames[PacketMask(n)].first_entity + Len(view) <= nextSnapshotEntities
  /\ Len(view) <= numSnapshotEntities => \A i \in 1 .. Len(view) :
       frames[PacketMask(n)].first_entity + i - 1 > nextSnapshotEntities - numSnapshotEntities
         => snapshotEntities[ServerSlot(frames[PacketMask(n)].first_entity + i - 1)] = view[i]

(* The client's snapshot is what was built, where the ring still has it *)
(* and it fits.                                                           *)
Whole(r) ==
  /\ r.numEntities = Len(r.built) /\ r.parseEntitiesNum + Len(r.built) <= parseEntitiesNum
  /\ \A i \in 1 .. Len(r.built) :
       r.parseEntitiesNum + i - 1 > parseEntitiesNum - MAX_PARSE_ENTITIES
         => parseEntities[ClientSlot(r.parseEntitiesNum + i - 1)] = r.built[i]
Intact(r) == r.built \in Views /\ r.messageNum <= snap /\ (r.fits => Whole(r))

(* What the changes of a message are made against. *)
BaseOf(msg) ==
  IF msg.lastframe = 0 THEN <<>> ELSE snapshots[PacketMask(msg.sequence - msg.lastframe)].built

(* A snapshot under way tells the client what was built for it. *)
BuiltOK(msg) ==
  msg.kind = "snapshot" =>
    /\ msg.built \in Views
    /\ msg.serverId = serverId => Recorded(msg.sequence, msg.built)
    /\ Len(msg.built) <= numSnapshotEntities
         => Tells(msg.changes, msg.serverId, BaseOf(msg), msg.built)

KeptInv == \A s \in 0 .. (PACKET_BACKUP - 1) : snapshots[s].valid => Intact(snapshots[s])
RecordInv ==
  level = serverId =>
    \A n \in Nat : outgoingSequence - n <= PACKET_BACKUP /\ Has(snapshots[PacketMask(n)], n)
                     => Recorded(n, snapshots[PacketMask(n)].built)
DownInv == \A msg : down = <<msg>> => BuiltOK(msg)

KInv == KeptInv /\ RecordInv /\ DownInv

-----------------------------------------------------------------------------
(* A view is a list of entities in the order of their numbers. *)
LEMMA ViewsAreSorted ==
  /\ \A v \in Views : Sorted(v)
  /\ Sorted(<<>>)
<1>1. \A v \in Views : Sorted(v)
  BY SnapshotsAssumption DEF SnapshotsAssumption, Sorted
<1>2. Sorted(<<>>)
  BY DEF Sorted
<1>. QED
  BY <1>1, <1>2

(* A frame stays as it is while the ring keeps what it is not written over. *)
LEMMA RecordedKept ==
  ASSUME NEW n, NEW view, Len(view) \in Nat, Recorded(n, view), RingTypes, n \in Int,
         frames'[PacketMask(n)] = frames[PacketMask(n)],
         nextSnapshotEntities' \in Nat, nextSnapshotEntities' >= nextSnapshotEntities,
         \A x \in Int : x < nextSnapshotEntities /\ x > nextSnapshotEntities' - numSnapshotEntities
           => snapshotEntities'[ServerSlot(x)] = snapshotEntities[ServerSlot(x)]
  PROVE  Recorded(n, view)'
<1>1. PICK f : f = frames[PacketMask(n)].first_entity
  OBVIOUS
<1>2. f \in Nat /\ nextSnapshotEntities \in Nat /\ numSnapshotEntities \in Nat
  BY <1>1, FrameSlots, Bounds DEF RingTypes, Ring
<1>3. /\ frames[PacketMask(n)].num_entities = Len(view) /\ f + Len(view) <= nextSnapshotEntities
      /\ Len(view) <= numSnapshotEntities
           => \A i \in 1 .. Len(view) : f + i - 1 > nextSnapshotEntities - numSnapshotEntities
                => snapshotEntities[ServerSlot(f + i - 1)] = view[i]
  BY <1>1 DEF Recorded
<1>4. ASSUME Len(view) <= numSnapshotEntities,
             NEW i \in 1 .. Len(view), f + i - 1 > nextSnapshotEntities' - numSnapshotEntities
      PROVE  snapshotEntities'[ServerSlot(f + i - 1)] = view[i]
  <2>1. f + i - 1 \in Int /\ f + i - 1 < nextSnapshotEntities
        /\ f + i - 1 > nextSnapshotEntities - numSnapshotEntities
    BY <1>2, <1>3, <1>4
  <2>. QED
    BY <1>3, <1>4, <2>1
<1>5. f + Len(view) <= nextSnapshotEntities'
  BY <1>2, <1>3
<1>. QED
  BY <1>1, <1>3, <1>4, <1>5 DEF Recorded

(* A frame stays what it is as long as the server builds nothing. *)
LEMMA RecordedUnchanged ==
  ASSUME NEW n, NEW view, Recorded(n, view),
         UNCHANGED <<frames, snapshotEntities, nextSnapshotEntities>>
  PROVE  Recorded(n, view)'
  BY DEF Recorded

(* Where the client reads nothing, its snapshots stay. *)
LEMMA ClientUnchanged ==
  ASSUME KeptInv, UNCHANGED <<snap, snapshots, parseEntities, parseEntitiesNum>>
  PROVE  KeptInv'
  BY DEF KeptInv, Intact, Whole

(* The message under way stays what was built. *)
LEMMA BuiltUnchanged ==
  ASSUME DownInv, UNCHANGED <<down, snapshots, serverId, frames, snapshotEntities, nextSnapshotEntities>>
  PROVE  DownInv'
  BY DEF DownInv, BuiltOK, Recorded, BaseOf

(* The frames of what the client holds stay, as the messages go on. *)
LEMMA RecordUnchanged ==
  ASSUME RecordInv, outgoingSequence \in Nat, outgoingSequence' \in Nat,
         outgoingSequence' >= outgoingSequence,
         UNCHANGED <<level, serverId, snapshots, frames, snapshotEntities, nextSnapshotEntities>>
  PROVE  RecordInv'
<1>1. PACKET_BACKUP \in Nat
  BY Bounds
<1>2. SUFFICES ASSUME level = serverId, NEW n \in Nat, outgoingSequence' - n <= PACKET_BACKUP,
                      Has(snapshots[PacketMask(n)], n)
               PROVE  Recorded(n, snapshots[PacketMask(n)].built)'
  BY DEF RecordInv
<1>3. outgoingSequence - n <= PACKET_BACKUP
  <2>1. \A a, b, c \in Nat : b >= a /\ b - n <= c => a - n <= c
    OBVIOUS
  <2>. QED
    BY <1>1, <1>2, <2>1
<1>4. PICK view : view = snapshots[PacketMask(n)].built
  OBVIOUS
<1>5. Recorded(n, view)
  BY <1>2, <1>3, <1>4 DEF RecordInv
<1>6. Recorded(n, view)'
  BY <1>5, RecordedUnchanged
<1>. QED
  BY <1>4, <1>6 DEF Recorded

(* A message that is no snapshot tells nothing. *)
LEMMA OtherBuilt ==
  ASSUME NEW msg, msg.kind # "snapshot", down' = <<msg>>
  PROVE  DownInv'
<1>1. ASSUME NEW m, down' = <<m>> PROVE BuiltOK(m)'
  <2>1. m = msg
    BY <1>1
  <2>. QED
    BY <2>1 DEF BuiltOK
<1>. QED
  BY <1>1 DEF DownInv

(* The client has no snapshot of the message that is sent. *)
LEMMA NotYetRead ==
  ASSUME IInv, KeptInv, NEW n \in Nat, Has(snapshots[PacketMask(n)], n)
  PROVE  n < outgoingSequence
<1>1. PacketMask(n) \in 0 .. (PACKET_BACKUP - 1)
  BY FrameSlots
<1>2. n <= snap
  BY <1>1 DEF KeptInv, Intact, Has
<1>. QED
  BY <1>2 DEF IInv, NumbersOK

(* SV_SendClientIdle takes a number, and so ends what is a ring away. *)
LEMMA IdleKeeps == IInv /\ KInv /\ SV_SendClientIdle => KInv'
<1>. SUFFICES ASSUME IInv, KInv, SV_SendClientIdle PROVE KInv'
  OBVIOUS
<1>1. KeptInv /\ RecordInv /\ DownInv
  BY DEF KInv
<1>2. /\ outgoingSequence' = outgoingSequence + 1 /\ down' = <<Other("idle")>>
      /\ UNCHANGED <<serverId, serverEntities, clientVars>>
  BY DEF SV_SendClientIdle, Send
<1>3. KeptInv'
  BY <1>1, <1>2, ClientUnchanged DEF clientVars
<1>4. DownInv'
  <2>1. Other("idle").kind # "snapshot"
    BY DEF Other
  <2>. QED
    BY <1>2, <2>1, OtherBuilt
<1>5. outgoingSequence \in Nat
  BY DEF IInv, NumbersOK
<1>6. RecordInv'
  BY <1>1, <1>2, <1>5, RecordUnchanged DEF serverEntities, clientVars
<1>. QED
  BY <1>3, <1>4, <1>6 DEF KInv

(* In a new level the client holds nothing yet. *)
LEMMA SpawnKeeps == IInv /\ KInv /\ SV_SpawnServer => KInv'
<1>. SUFFICES ASSUME IInv, KInv, SV_SpawnServer PROVE KInv'
  OBVIOUS
<1>1. KeptInv /\ RecordInv /\ DownInv
  BY DEF KInv
<1>2. serverId' = serverId + 1 /\ UNCHANGED <<clientVars, down>>
  BY DEF SV_SpawnServer
<1>3. serverId \in Nat /\ level \in Nat /\ level <= serverId
  BY DEF IInv, NumbersOK
<1>4. KeptInv'
  BY <1>1, <1>2, ClientUnchanged DEF clientVars
<1>5. RecordInv'
  BY <1>2, <1>3 DEF RecordInv, clientVars
<1>6. ASSUME NEW msg, down' = <<msg>> PROVE BuiltOK(msg)'
  <2>1. down = <<msg>>
    BY <1>2, <1>6
  <2>2. BuiltOK(msg)
    BY <1>1, <2>1 DEF DownInv
  <2>3. msg.serverId \in Nat /\ msg.serverId <= serverId
    <3>1. PICK m : down = <<m>> /\ DownOK(m)
      BY <2>1 DEF IInv
    <3>2. m = msg
      BY <2>1, <3>1
    <3>. QED
      BY <3>1, <3>2 DEF DownOK
  <2>4. msg.serverId # serverId'
    BY <1>2, <1>3, <2>3
  <2>5. BaseOf(msg)' = BaseOf(msg)
    BY <1>2 DEF BaseOf, clientVars
  <2>. QED
    BY <2>2, <2>4, <2>5 DEF BuiltOK
<1>. QED
  BY <1>4, <1>5, <1>6 DEF KInv, DownInv

(* SV_ExecuteClientMessage touches no ring, but sends a lost gamestate again. *)
LEMMA ExecuteKeeps == IInv /\ KInv /\ SV_ExecuteClientMessage => KInv'
<1>. SUFFICES ASSUME IInv, KInv, SV_ExecuteClientMessage PROVE KInv'
  OBVIOUS
<1>1. KeptInv /\ RecordInv /\ DownInv
  BY DEF KInv
<1>2. PICK msg : msg = Head(up)
  OBVIOUS
<1>3. /\ UNCHANGED <<serverId, serverEntities, clientVars>>
      /\ \/ SV_UserMove(msg)
         \/ SV_SendClientGameState
         \/ UNCHANGED <<clientOfServer, down>>
  BY <1>2 DEF SV_ExecuteClientMessage
<1>4. KeptInv'
  BY <1>1, <1>3, ClientUnchanged DEF clientVars
<1>5. outgoingSequence \in Nat
  BY DEF IInv, NumbersOK
<1>6. CASE UNCHANGED <<outgoingSequence, down>>
  <2>1. DownInv'
    BY <1>1, <1>3, <1>6, BuiltUnchanged DEF clientVars, serverEntities
  <2>2. RecordInv'
    BY <1>1, <1>3, <1>5, <1>6, RecordUnchanged DEF serverEntities, clientVars
  <2>. QED
    BY <1>4, <2>1, <2>2 DEF KInv
<1>7. CASE SV_SendClientGameState
  <2>1. outgoingSequence' = outgoingSequence + 1 /\ down' = <<Other("gamestate")>>
    BY <1>7 DEF SV_SendClientGameState, Send
  <2>2. Other("gamestate").kind # "snapshot"
    BY DEF Other
  <2>3. DownInv'
    BY <2>1, <2>2, OtherBuilt
  <2>4. RecordInv'
    BY <1>1, <1>3, <1>5, <2>1, RecordUnchanged DEF serverEntities, clientVars
  <2>. QED
    BY <1>4, <2>3, <2>4 DEF KInv
<1>. QED
  BY <1>3, <1>6, <1>7 DEF SV_UserMove, clientOfServer

(* Another client's entities are written over the oldest ones of the ring only. *)
LEMMA OthersKeep == TypeOK /\ KInv /\ SnapshotsOfOthers => KInv'
<1>. SUFFICES ASSUME TypeOK, KInv, SnapshotsOfOthers PROVE KInv'
  OBVIOUS
<1>1. KeptInv /\ RecordInv /\ DownInv /\ RingTypes /\ ServerTypes /\ ClientTypes /\ DownType
  BY TypeParts DEF KInv
<1>2. PICK k \in OtherEntities :
        /\ snapshotEntities' = [s \in DOMAIN snapshotEntities |->
             IF \E i \in 0 .. (k - 1) : ServerSlot(nextSnapshotEntities + i) = s THEN Zeroed
             ELSE snapshotEntities[s]]
        /\ nextSnapshotEntities' = nextSnapshotEntities + k
  BY DEF SnapshotsOfOthers
<1>3. UNCHANGED <<clientOfServer, serverId, frames, clientVars, down>>
  BY DEF SnapshotsOfOthers
<1>4. k \in Nat /\ nextSnapshotEntities \in Nat /\ numSnapshotEntities \in Nat
      /\ nextSnapshotEntities' \in Nat /\ nextSnapshotEntities' >= nextSnapshotEntities
  BY <1>1, <1>2, Bounds DEF RingTypes
<1>5. \A x \in Int : x < nextSnapshotEntities /\ x > nextSnapshotEntities' - numSnapshotEntities
        => snapshotEntities'[ServerSlot(x)] = snapshotEntities[ServerSlot(x)]
  <2>. TAKE x \in Int
  <2>. HAVE x < nextSnapshotEntities /\ x > nextSnapshotEntities' - numSnapshotEntities
  <2>1. ASSUME NEW i \in 0 .. (k - 1) PROVE ServerSlot(nextSnapshotEntities + i) # ServerSlot(x)
    <3>1. nextSnapshotEntities + i \in Int /\ x < nextSnapshotEntities + i
          /\ (nextSnapshotEntities + i) - x < numSnapshotEntities
      BY <1>2, <1>4
    <3>. QED
      BY <3>1, ServerSlots
  <2>2. ServerSlot(x) \in DOMAIN snapshotEntities
    BY <1>1, ServerSlots DEF RingTypes, Ring
  <2>. QED
    BY <1>2, <2>1, <2>2
<1>6. \A v \in Views \cup {<<>>} : Len(v) \in Nat
  BY Bounds
<1>7. KeptInv'
  BY <1>1, <1>3, ClientUnchanged DEF clientVars
<1>8. RecordInv'
  <2>1. SUFFICES ASSUME level = serverId, NEW n \in Nat, outgoingSequence - n <= PACKET_BACKUP,
                        Has(snapshots[PacketMask(n)], n)
                 PROVE  Recorded(n, snapshots[PacketMask(n)].built)'
    BY <1>3 DEF RecordInv, clientVars, clientOfServer
  <2>2. PICK view : view = snapshots[PacketMask(n)].built
    OBVIOUS
  <2>3. Recorded(n, view)
    BY <1>1, <2>1, <2>2 DEF RecordInv
  <2>4. PacketMask(n) \in 0 .. (PACKET_BACKUP - 1)
    BY FrameSlots
  <2>5. view \in Views
    BY <1>1, <2>1, <2>2, <2>4 DEF KeptInv, Has, Intact
  <2>6. Len(view) \in Nat /\ n \in Int /\ frames'[PacketMask(n)] = frames[PacketMask(n)]
    BY <1>3, <1>6, <2>5
  <2>7. Recorded(n, view)'
    BY <1>1, <1>4, <1>5, <2>3, <2>6, RecordedKept
  <2>. QED
    BY <1>3, <2>2, <2>7 DEF clientVars, Recorded
<1>9. ASSUME NEW msg, down' = <<msg>> PROVE BuiltOK(msg)'
  <2>1. down = <<msg>>
    BY <1>3, <1>9
  <2>2. BuiltOK(msg)
    BY <1>1, <2>1 DEF DownInv
  <2>3. BaseOf(msg)' = BaseOf(msg)
    BY <1>3 DEF BaseOf, clientVars
  <2>4. ASSUME msg.kind = "snapshot", msg.serverId = serverId PROVE Recorded(msg.sequence, msg.built)'
    <3>1. Recorded(msg.sequence, msg.built) /\ msg.built \in Views
      BY <2>2, <2>4 DEF BuiltOK
    <3>2. msg \in Message
      BY <1>1, <2>1 DEF DownType
    <3>3. PICK n \in Nat, view \in Views : n = msg.sequence /\ view = msg.built
      BY <3>1, <3>2 DEF Message
    <3>4. Len(view) \in Nat /\ n \in Int /\ frames'[PacketMask(n)] = frames[PacketMask(n)]
          /\ Recorded(n, view)
      BY <1>3, <1>6, <3>1, <3>3
    <3>5. Recorded(n, view)'
      BY <1>1, <1>4, <1>5, <3>4, RecordedKept
    <3>. QED
      BY <3>3, <3>5
  <2>. QED
    BY <1>3, <2>2, <2>3, <2>4 DEF BuiltOK
<1>. QED
  BY <1>7, <1>8, <1>9 DEF KInv, DownInv

-----------------------------------------------------------------------------
(* The server's snapshot.                                                  *)

(* The frame of the view, as the ring has it, is the view. *)
LEMMA NewFrameIs ==
  ASSUME ServerOK, NEW view \in Seq(Entity), Len(view) <= numSnapshotEntities
  PROVE  FrameEntities(Copied(view), NewFrame(view)) = {view[i] : i \in 1 .. Len(view)}
<1>. DEFINE n == nextSnapshotEntities
            ring == Copied(view)
<1>1. n \in Nat /\ Len(view) \in Nat
  BY DEF ServerOK
<1>2. \A i \in 1 .. Len(view) : ring[ServerSlot(n + i - 1)] = view[i]
  BY CopiedNew
<1>3. FrameEntities(ring, NewFrame(view)) = {ring[ServerSlot(n + i)] : i \in 0 .. (Len(view) - 1)}
  BY DEF FrameEntities, NewFrame
<1>. HIDE DEF ring
<1>4. \A i \in 0 .. (Len(view) - 1) : i + 1 \in 1 .. Len(view) /\ ring[ServerSlot(n + i)] = view[i + 1]
  <2>1. SUFFICES ASSUME NEW i \in 0 .. (Len(view) - 1)
                 PROVE  i + 1 \in 1 .. Len(view) /\ ring[ServerSlot(n + i)] = view[i + 1]
    OBVIOUS
  <2>2. i + 1 \in 1 .. Len(view) /\ n + (i + 1) - 1 = n + i
    BY <1>1
  <2>3. ring[ServerSlot(n + (i + 1) - 1)] = view[i + 1]
    BY <1>2, <2>2
  <2>. QED
    BY <2>2, <2>3
<1>5. \A i \in 1 .. Len(view) : i - 1 \in 0 .. (Len(view) - 1) /\ ring[ServerSlot(n + (i - 1))] = view[i]
  <2>1. SUFFICES ASSUME NEW i \in 1 .. Len(view)
                 PROVE  i - 1 \in 0 .. (Len(view) - 1) /\ ring[ServerSlot(n + (i - 1))] = view[i]
    OBVIOUS
  <2>2. i - 1 \in 0 .. (Len(view) - 1) /\ n + i - 1 = n + (i - 1)
    BY <1>1
  <2>. QED
    BY <1>2, <2>2
<1>. QED
  BY <1>3, <1>4, <1>5 DEF ring

(* The frame of the base is the base. *)
LEMMA BaseFrameIs ==
  ASSUME RingTypes, NEW view \in Seq(Entity), NEW n \in Nat, NEW v \in Seq(Entity), Recorded(n, v),
         IsKept(frames[PacketMask(n)], nextSnapshotEntities + Len(view))
  PROVE  FrameEntities(Copied(view), frames[PacketMask(n)]) = {v[i] : i \in 1 .. Len(v)}
<1>. DEFINE ring == Copied(view)
<1>1. PICK f : f = frames[PacketMask(n)].first_entity
  OBVIOUS
<1>2. /\ f \in Nat /\ nextSnapshotEntities \in Nat /\ Len(view) \in Nat /\ Len(v) \in Nat
      /\ numSnapshotEntities \in Nat
  <2>1. n \in Int
    OBVIOUS
  <2>2. PacketMask(n) \in 0 .. (PACKET_BACKUP - 1)
    BY <2>1, FrameSlots
  <2>3. f \in Nat
    BY <1>1, <2>2 DEF RingTypes, Ring
  <2>4. nextSnapshotEntities \in Nat
    BY DEF RingTypes
  <2>. QED
    BY <2>3, <2>4, Bounds
<1>3. /\ frames[PacketMask(n)].num_entities = Len(v) /\ f + Len(v) <= nextSnapshotEntities
      /\ Len(v) <= numSnapshotEntities
           => \A i \in 1 .. Len(v) : f + i - 1 > nextSnapshotEntities - numSnapshotEntities
                => snapshotEntities[ServerSlot(f + i - 1)] = v[i]
  BY <1>1 DEF Recorded
<1>4. f > nextSnapshotEntities + Len(view) - numSnapshotEntities /\ Len(v) <= numSnapshotEntities
  <2>1. f > nextSnapshotEntities + Len(view) - numSnapshotEntities
    BY <1>1, <1>2 DEF IsKept
  <2>2. f + Len(v) <= nextSnapshotEntities
    BY <1>3
  <2>. QED
    BY <1>2, <2>1, <2>2
<1>5. \A i \in 1 .. Len(v) : ring[ServerSlot(f + i - 1)] = v[i]
  <2>1. SUFFICES ASSUME NEW i \in 1 .. Len(v) PROVE ring[ServerSlot(f + i - 1)] = v[i]
    OBVIOUS
  <2>2. f + i - 1 \in Int /\ f + i - 1 < nextSnapshotEntities
        /\ f + i - 1 > nextSnapshotEntities + Len(view) - numSnapshotEntities
        /\ f + i - 1 > nextSnapshotEntities - numSnapshotEntities
    BY <1>2, <1>3, <1>4
  <2>3. ring[ServerSlot(f + i - 1)] = snapshotEntities[ServerSlot(f + i - 1)]
    BY <2>2, CopiedKeeps DEF ServerOK, RingTypes
  <2>. QED
    BY <1>3, <1>4, <2>2, <2>3
<1>6. FrameEntities(ring, frames[PacketMask(n)]) = {ring[ServerSlot(f + i)] : i \in 0 .. (Len(v) - 1)}
  BY <1>1, <1>3 DEF FrameEntities
<1>. HIDE DEF ring
<1>7. \A i \in 0 .. (Len(v) - 1) : i + 1 \in 1 .. Len(v) /\ ring[ServerSlot(f + i)] = v[i + 1]
  <2>1. SUFFICES ASSUME NEW i \in 0 .. (Len(v) - 1)
                 PROVE  i + 1 \in 1 .. Len(v) /\ ring[ServerSlot(f + i)] = v[i + 1]
    OBVIOUS
  <2>2. i + 1 \in 1 .. Len(v) /\ f + (i + 1) - 1 = f + i
    BY <1>2
  <2>3. ring[ServerSlot(f + (i + 1) - 1)] = v[i + 1]
    BY <1>5, <2>2
  <2>. QED
    BY <2>2, <2>3
<1>8. \A i \in 1 .. Len(v) : i - 1 \in 0 .. (Len(v) - 1) /\ ring[ServerSlot(f + (i - 1))] = v[i]
  <2>1. SUFFICES ASSUME NEW i \in 1 .. Len(v)
                 PROVE  i - 1 \in 0 .. (Len(v) - 1) /\ ring[ServerSlot(f + (i - 1))] = v[i]
    OBVIOUS
  <2>2. i - 1 \in 0 .. (Len(v) - 1) /\ f + i - 1 = f + (i - 1)
    BY <1>2
  <2>. QED
    BY <1>5, <2>2
<1>. QED
  BY <1>6, <1>7, <1>8 DEF ring

(* The snapshot tells the client of the view, from the base it holds. *)
LEMMA WriteTells ==
  ASSUME IInv, TypeOK, KInv, state = "active", NEW view \in Views,
         Len(view) <= numSnapshotEntities, NEW msg, msg = SV_WriteSnapshotToClient(view)
  PROVE  Tells(msg.changes, serverId, BaseOf(msg), view)
<1>. DEFINE next == nextSnapshotEntities + Len(view)
            ring == Copied(view)
            base == frames[PacketMask(deltaMessage)]
            delta == Answers(deltaMessage) /\ IsKept(base, next)
            from == IF delta THEN FrameEntities(ring, base) ELSE {}
            to == FrameEntities(ring, NewFrame(view))
            v == IF delta THEN snapshots[PacketMask(deltaMessage)].built ELSE <<>>
<1>1. KeptInv /\ RecordInv /\ RingTypes /\ ServerTypes /\ ClientTypes
  BY TypeParts DEF KInv
<1>2. view \in Seq(Entity) /\ Len(view) <= numSnapshotEntities /\ Sorted(view)
  BY Bounds, ViewsAreSorted
<1>3. /\ msg.kind = "snapshot" /\ msg.built = view /\ msg.sequence = outgoingSequence
      /\ msg.serverId = serverId /\ msg.changes = SV_EmitPacketEntities(from, to)
      /\ msg.lastframe = IF delta THEN outgoingSequence - deltaMessage ELSE 0
  BY DEF SV_WriteSnapshotToClient
<1>4. to = {view[i] : i \in 1 .. Len(view)}
  BY <1>1, <1>2, NewFrameIs DEF ServerOK, RingTypes
<1>. HIDE DEF to
<1>5. CASE delta
  <2>1. deltaMessage \in Int /\ deltaMessage > 0 /\ outgoingSequence - deltaMessage < PACKET_BACKUP - KEEP
    BY <1>1, <1>5 DEF Answers, ServerTypes
  <2>2. level = serverId /\ Held(deltaMessage)
    BY <2>1 DEF IInv, ActiveOK
  <2>3. outgoingSequence \in Nat /\ snap \in Nat /\ snap < outgoingSequence
    BY DEF IInv, NumbersOK
  <2>4. PACKET_BACKUP \in Nat /\ KEEP \in Nat
    BY Bounds
  <2>5. deltaMessage \in Nat /\ deltaMessage < outgoingSequence
        /\ snap - deltaMessage < PACKET_BACKUP /\ outgoingSequence - deltaMessage <= PACKET_BACKUP
    BY <2>1, <2>2, <2>3, <2>4 DEF Held
  <2>6. Has(snapshots[PacketMask(deltaMessage)], deltaMessage)
    BY <2>2, <2>5 DEF Held
  <2>7. v = snapshots[PacketMask(deltaMessage)].built
    BY <1>5
  <2>8. Recorded(deltaMessage, v)
    BY <1>1, <2>2, <2>5, <2>6, <2>7 DEF RecordInv
  <2>9. v \in Views
    <3>1. PacketMask(deltaMessage) \in 0 .. (PACKET_BACKUP - 1)
      BY <2>1, FrameSlots
    <3>. QED
      BY <1>1, <2>6, <2>7, <3>1 DEF KeptInv, Has, Intact
  <2>10. from = {v[i] : i \in 1 .. Len(v)}
    <3>1. v \in Seq(Entity)
      BY <2>9, Bounds
    <3>2. IsKept(frames[PacketMask(deltaMessage)], nextSnapshotEntities + Len(view))
      BY <1>5
    <3>3. FrameEntities(ring, base) = {v[i] : i \in 1 .. Len(v)}
      <4>. HIDE DEF v
      <4>. QED
        BY <1>1, <1>2, <2>5, <2>8, <3>1, <3>2, BaseFrameIs
    <3>. QED
      BY <1>5, <3>3
  <2>11. BaseOf(msg) = v
    <3>1. msg.lastframe # 0 /\ msg.sequence - msg.lastframe = deltaMessage
      BY <1>3, <1>5, <2>3, <2>5
    <3>. QED
      BY <2>7, <3>1 DEF BaseOf
  <2>12. Sorted(v)
    BY <2>9, ViewsAreSorted
  <2>. HIDE DEF v, from
  <2>13. Tells(SV_EmitPacketEntities(from, to), serverId, v, view)
    BY <1>2, <1>4, <2>10, <2>12, EmitTells
  <2>. QED
    BY <1>3, <2>11, <2>13
<1>6. CASE ~delta
  <2>1. from = {} /\ v = <<>> /\ BaseOf(msg) = <<>>
    BY <1>3, <1>6 DEF BaseOf
  <2>2. from = {v[i] : i \in 1 .. Len(v)} /\ Sorted(v)
    BY <2>1, ViewsAreSorted
  <2>. HIDE DEF v, from
  <2>3. Tells(SV_EmitPacketEntities(from, to), serverId, v, view)
    BY <1>2, <1>4, <2>2, EmitTells
  <2>. QED
    BY <1>3, <2>1, <2>3
<1>. QED
  BY <1>5, <1>6

(* A snapshot that is sent tells what was built, against what the client holds. *)
LEMMA SendKeeps == IInv /\ TypeOK /\ KInv /\ SV_SendClientSnapshot => KInv'
<1>. SUFFICES ASSUME IInv, TypeOK, KInv, SV_SendClientSnapshot PROVE KInv'
  OBVIOUS
<1>1. KeptInv /\ RecordInv /\ DownInv /\ RingTypes /\ ServerTypes /\ ClientTypes
  BY TypeParts DEF KInv
<1>2. PICK view \in Views :
        /\ Send(SV_WriteSnapshotToClient(view))
        /\ frames' = [frames EXCEPT ![PacketMask(outgoingSequence)] = NewFrame(view)]
        /\ snapshotEntities' = Copied(view)
        /\ nextSnapshotEntities' = nextSnapshotEntities + Len(view)
  BY DEF SV_SendClientSnapshot
<1>3. UNCHANGED <<serverId, clientVars>> /\ state = "active"
  BY DEF SV_SendClientSnapshot
<1>4. PICK msg : msg = SV_WriteSnapshotToClient(view)
  OBVIOUS
<1>5. outgoingSequence' = outgoingSequence + 1 /\ down' = <<msg>>
  BY <1>2, <1>4 DEF Send
<1>6. /\ msg.kind = "snapshot" /\ msg.built = view /\ msg.sequence = outgoingSequence
      /\ msg.serverId = serverId
      /\ Len(view) <= numSnapshotEntities => Tells(msg.changes, serverId, BaseOf(msg), view)
  <2>1. Len(view) <= numSnapshotEntities => Tells(msg.changes, serverId, BaseOf(msg), view)
    BY <1>3, <1>4, WriteTells
  <2>. QED
    BY <1>4, <2>1 DEF SV_WriteSnapshotToClient
<1>7. /\ view \in Seq(Entity) /\ Len(view) \in Nat
      /\ nextSnapshotEntities \in Nat /\ outgoingSequence \in Nat
      /\ nextSnapshotEntities' \in Nat /\ nextSnapshotEntities' >= nextSnapshotEntities
  <2>1. view \in Seq(Entity)
    BY Bounds
  <2>2. nextSnapshotEntities \in Nat /\ outgoingSequence \in Nat
    BY <1>1 DEF RingTypes, IInv, NumbersOK
  <2>. QED
    BY <1>2, <2>1, <2>2
<1>8. \A x \in Int : x < nextSnapshotEntities /\ x > nextSnapshotEntities' - numSnapshotEntities
        => snapshotEntities'[ServerSlot(x)] = snapshotEntities[ServerSlot(x)]
  <2>. TAKE x \in Int
  <2>. HAVE x < nextSnapshotEntities /\ x > nextSnapshotEntities' - numSnapshotEntities
  <2>1. x > nextSnapshotEntities + Len(view) - numSnapshotEntities
    <3>1. nextSnapshotEntities' = nextSnapshotEntities + Len(view)
      BY <1>2
    <3>. QED
      BY <1>7, <3>1, Bounds
  <2>2. Copied(view)[ServerSlot(x)] = snapshotEntities[ServerSlot(x)]
    BY <1>1, <1>7, <2>1, CopiedKeeps DEF ServerOK, RingTypes
  <2>. QED
    BY <1>2, <2>2
<1>9. KeptInv'
  BY <1>1, <1>3, ClientUnchanged DEF clientVars
<1>10. PacketMask(outgoingSequence) \in 0 .. (PACKET_BACKUP - 1)
  BY <1>7, FrameSlots
<1>11. PICK n : n = outgoingSequence
  OBVIOUS
<1>12. Recorded(n, view)'
  <2>1. frames'[PacketMask(n)] = NewFrame(view)
    BY <1>1, <1>2, <1>10, <1>11 DEF RingTypes, Ring
  <2>2. frames'[PacketMask(n)].num_entities = Len(view)
        /\ frames'[PacketMask(n)].first_entity = nextSnapshotEntities
    BY <2>1 DEF NewFrame
  <2>3. Len(view) <= numSnapshotEntities => \A i \in 1 .. Len(view) :
          snapshotEntities'[ServerSlot(nextSnapshotEntities + i - 1)] = view[i]
    BY <1>1, <1>2, <1>7, CopiedNew DEF ServerOK, RingTypes
  <2>4. nextSnapshotEntities + Len(view) <= nextSnapshotEntities'
    BY <1>2, <1>7
  <2>. QED
    BY <2>2, <2>3, <2>4 DEF Recorded
<1>13. DownInv'
  <2>1. ASSUME NEW m, down' = <<m>> PROVE BuiltOK(m)'
    <3>1. m = msg
      BY <1>5, <2>1
    <3>2. BaseOf(m)' = BaseOf(m)
      BY <1>3 DEF BaseOf, clientVars
    <3>3. /\ m.built = view /\ m.sequence = n /\ m.serverId = serverId
          /\ Len(m.built) <= numSnapshotEntities
               => Tells(m.changes, m.serverId, BaseOf(m), m.built)
      BY <1>6, <1>11, <3>1
    <3>4. Recorded(m.sequence, m.built)'
      BY <1>12, <3>3
    <3>. QED
      BY <1>3, <3>2, <3>3, <3>4 DEF BuiltOK
  <2>. QED
    BY <2>1 DEF DownInv
<1>14. RecordInv'
  <2>0. level' = level /\ serverId' = serverId /\ snapshots' = snapshots
    BY <1>3 DEF clientVars
  <2>1. SUFFICES ASSUME level = serverId, NEW k \in Nat, outgoingSequence' - k <= PACKET_BACKUP,
                        Has(snapshots[PacketMask(k)], k)
                 PROVE  Recorded(k, snapshots[PacketMask(k)].built)'
    BY <2>0 DEF RecordInv
  <2>2. k < outgoingSequence
    BY <1>1, <2>1, NotYetRead
  <2>3. PACKET_BACKUP \in Nat \ {0}
    BY Bounds
  <2>4. outgoingSequence - k <= PACKET_BACKUP /\ outgoingSequence - k < PACKET_BACKUP
    BY <1>5, <1>7, <2>1, <2>2, <2>3
  <2>5. PICK v : v = snapshots[PacketMask(k)].built
    OBVIOUS
  <2>6. Recorded(k, v)
    BY <1>1, <2>1, <2>4, <2>5 DEF RecordInv
  <2>7. PacketMask(k) \in 0 .. (PACKET_BACKUP - 1)
    BY FrameSlots
  <2>8. v \in Views /\ Len(v) \in Nat
    <3>1. v \in Views
      BY <1>1, <2>1, <2>5, <2>7 DEF KeptInv, Has, Intact
    <3>. QED
      BY <3>1, Bounds
  <2>9. PacketMask(k) # PacketMask(outgoingSequence)
    <3>1. k \in Int /\ outgoingSequence \in Int
      BY <1>7
    <3>2. k % PACKET_BACKUP # outgoingSequence % PACKET_BACKUP
      BY <2>2, <2>3, <2>4, <3>1, PlacesDiffer
    <3>. QED
      BY <3>2 DEF PacketMask
  <2>10. frames'[PacketMask(k)] = frames[PacketMask(k)]
    BY <1>1, <1>2, <2>7, <2>9 DEF RingTypes, Ring
  <2>11. k \in Int
    OBVIOUS
  <2>12. Recorded(k, v)'
    BY <1>1, <1>7, <1>8, <2>6, <2>8, <2>10, <2>11, RecordedKept
  <2>. QED
    BY <2>0, <2>5, <2>12 DEF Recorded
<1>. QED
  BY <1>9, <1>13, <1>14 DEF KInv

-----------------------------------------------------------------------------
(* The client reads a snapshot.                                            *)

(* What a message is read against. *)
OldOf(msg) ==
  IF msg.lastframe = 0 THEN NoSnapshot ELSE snapshots[PacketMask(msg.sequence - msg.lastframe)]

Usable(msg) ==
  \/ msg.lastframe = 0
  \/ Has(OldOf(msg), msg.sequence - msg.lastframe) /\ NotTooOld(OldOf(msg))

(* The snapshot goes into its place; those of the messages between are     *)
(* not valid any more.                                                     *)
Stores(msg, parse, new) ==
  /\ new.valid = TRUE /\ new.messageNum = msg.sequence
  /\ new.parseEntitiesNum = parseEntitiesNum /\ new.built = msg.built
  /\ new.numEntities = parse.num - parseEntitiesNum
  /\ new.fits <=> Fits(OldOf(msg), msg.built)
  /\ \A s \in DOMAIN snapshots : snapshots'[s] =
       IF s = PacketMask(msg.sequence) THEN new
       ELSE IF s \in Skipped(msg.sequence) THEN Unread(snapshots[s])
       ELSE snapshots[s]

(* What reading it does. *)
LEMMA ParseDoes ==
  ASSUME NEW msg, CL_ParseSnapshot(msg),
         NEW parse, parse = CL_ParsePacketEntities(msg.changes, OldOf(msg))
  PROVE  /\ parseEntities' = parse.ring /\ parseEntitiesNum' = parse.num /\ level' = level
         /\ ~Usable(msg) => UNCHANGED <<snap, snapshots>>
         /\ Usable(msg) =>
              /\ snap' = msg.sequence
              /\ \E new : Stores(msg, parse, new)
<1>1. PICK old : old = OldOf(msg)
  OBVIOUS
<1>2. PICK new : new = [valid |-> TRUE, messageNum |-> msg.sequence,
                        parseEntitiesNum |-> parseEntitiesNum,
                        numEntities |-> parse.num - parseEntitiesNum, built |-> msg.built,
                        fits |-> Fits(old, msg.built)]
  OBVIOUS
<1>3. /\ parseEntities' = parse.ring /\ parseEntitiesNum' = parse.num /\ level' = level
      /\ IF msg.lastframe = 0 \/ (Has(old, msg.sequence - msg.lastframe) /\ NotTooOld(old))
         THEN /\ snap' = msg.sequence
              /\ snapshots' = [s \in DOMAIN snapshots |->
                   IF s = PacketMask(msg.sequence) THEN new
                   ELSE IF s \in Skipped(msg.sequence) THEN Unread(snapshots[s])
                   ELSE snapshots[s]]
         ELSE UNCHANGED <<snap, snapshots>>
  BY <1>1, <1>2 DEF CL_ParseSnapshot, OldOf
<1>4. /\ new.valid = TRUE /\ new.messageNum = msg.sequence
      /\ new.parseEntitiesNum = parseEntitiesNum /\ new.built = msg.built
      /\ new.numEntities = parse.num - parseEntitiesNum
      /\ new.fits <=> Fits(OldOf(msg), msg.built)
  BY <1>1, <1>2
<1>5. Usable(msg) <=> msg.lastframe = 0 \/ (Has(old, msg.sequence - msg.lastframe) /\ NotTooOld(old))
  BY <1>1 DEF Usable
<1>. HIDE DEF Usable
<1>6. CASE Usable(msg)
  <2>1. Stores(msg, parse, new)
    BY <1>3, <1>4, <1>5, <1>6 DEF Stores
  <2>. QED
    BY <1>3, <1>5, <1>6, <2>1
<1>7. CASE ~Usable(msg)
  BY <1>3, <1>5, <1>7
<1>. QED
  BY <1>6, <1>7

(* A snapshot that is kept stays what it was. *)
LEMMA WholeKept ==
  ASSUME NEW r, Whole(r), r.built \in Views, r.parseEntitiesNum \in Nat,
         parseEntitiesNum \in Nat, parseEntitiesNum' \in Nat, parseEntitiesNum' >= parseEntitiesNum,
         \A x \in Int : x < parseEntitiesNum /\ x > parseEntitiesNum' - MAX_PARSE_ENTITIES
           => parseEntities'[ClientSlot(x)] = parseEntities[ClientSlot(x)]
  PROVE  Whole(r)'
<1>1. PICK f, v : f = r.parseEntitiesNum /\ v = r.built
  OBVIOUS
<1>2. /\ v \in Views /\ r.numEntities = Len(v)
      /\ f + Len(v) <= parseEntitiesNum
      /\ \A i \in 1 .. Len(v) : f + i - 1 > parseEntitiesNum - MAX_PARSE_ENTITIES
           => parseEntities[ClientSlot(f + i - 1)] = v[i]
  BY <1>1 DEF Whole
<1>3. f \in Nat /\ Len(v) \in Nat /\ MAX_PARSE_ENTITIES \in Nat
  BY <1>1, <1>2, Bounds
<1>4. ASSUME NEW i \in 1 .. Len(v), f + i - 1 > parseEntitiesNum' - MAX_PARSE_ENTITIES
      PROVE  parseEntities'[ClientSlot(f + i - 1)] = v[i]
  <2>1. f + i - 1 \in Int /\ f + i - 1 < parseEntitiesNum
    BY <1>2, <1>3
  <2>2. f + i - 1 > parseEntitiesNum - MAX_PARSE_ENTITIES
    <3>1. \A a, b, c \in Nat, x \in Int : x > b - c /\ b >= a => x > a - c
      OBVIOUS
    <3>. QED
      BY <1>3, <1>4, <2>1, <3>1
  <2>. QED
    BY <1>2, <1>4, <2>1, <2>2
<1>5. f + Len(v) <= parseEntitiesNum'
  BY <1>2, <1>3
<1>. QED
  BY <1>1, <1>2, <1>4, <1>5 DEF Whole

LEMMA IntactKept ==
  ASSUME NEW r, Intact(r), r.messageNum \in Nat, r.parseEntitiesNum \in Nat,
         parseEntitiesNum \in Nat, parseEntitiesNum' \in Nat, parseEntitiesNum' >= parseEntitiesNum,
         snap \in Nat, snap' \in Nat, snap' >= snap,
         \A x \in Int : x < parseEntitiesNum /\ x > parseEntitiesNum' - MAX_PARSE_ENTITIES
           => parseEntities'[ClientSlot(x)] = parseEntities[ClientSlot(x)]
  PROVE  Intact(r)'
<1>1. r.built \in Views /\ r.messageNum <= snap /\ (r.fits => Whole(r))
  BY DEF Intact
<1>2. r.fits => Whole(r)'
  BY <1>1, WholeKept
<1>3. r.messageNum <= snap'
  BY <1>1
<1>. QED
  BY <1>1, <1>2, <1>3 DEF Intact

(* A usable base is what its changes were made against, if the view fits. *)
LEMMA UsableMerges ==
  ASSUME IInv, TypeOK, KInv, NEW msg, msg \in Message, msg.kind = "snapshot",
         DownOK(msg), BuiltOK(msg), Usable(msg), Fits(OldOf(msg), msg.built)
  PROVE  Merges(OldOf(msg), msg.changes, BaseOf(msg), msg.built)
<1>1. ServerTypes /\ RingTypes /\ ClientTypes /\ KeptInv
  BY TypeParts DEF KInv
<1>2. PICK old, v, w : old = OldOf(msg) /\ v = BaseOf(msg) /\ w = msg.built
  OBVIOUS
<1>3. w \in Views /\ Sorted(w) /\ Tells(msg.changes, level, v, w)
  <2>1. msg.serverId = level
    BY DEF DownOK
  <2>. QED
    BY <1>2, <2>1, ViewsAreSorted DEF BuiltOK, Fits
<1>4. msg.changes \subseteq Changing /\ IsFiniteSet(msg.changes) /\ msg.lastframe \in Nat
      /\ msg.sequence \in Nat
  <2>1. msg.changes \subseteq Changing /\ msg.lastframe \in Nat /\ msg.sequence \in Nat
    BY Bounds DEF Message, Changing
  <2>. QED
    BY <2>1, ChangingIsFinite
<1>5. CASE msg.lastframe = 0
  <2>1. old = NoSnapshot /\ v = <<>>
    BY <1>2, <1>5 DEF OldOf, BaseOf
  <2>2. BaseOK(old) /\ old.numEntities = Len(v) /\ Sorted(v) /\ Len(v) = 0
    BY <2>1, ViewsAreSorted DEF BaseOK, NoSnapshot
  <2>3. NotAhead(v, w)
    BY <2>2 DEF NotAhead
  <2>. QED
    BY <1>2, <1>3, <1>4, <2>2, <2>3 DEF Merges
<1>6. CASE msg.lastframe # 0
  <2>. DEFINE base == msg.sequence - msg.lastframe
  <2>1. /\ old = snapshots[PacketMask(base)] /\ v = old.built
        /\ Has(old, base) /\ NotTooOld(old)
    BY <1>2, <1>6 DEF OldOf, BaseOf, Usable
  <2>2. PacketMask(base) \in 0 .. (PACKET_BACKUP - 1)
    BY <1>4, FrameSlots
  <2>3. Intact(old) /\ old \in Snapshot
    BY <1>1, <2>1, <2>2 DEF KeptInv, Has, ClientTypes, Ring
  <2>. HIDE DEF base
  <2>4. /\ v \in Views /\ NotAhead(v, w) /\ old.numEntities = Len(v)
        /\ old.parseEntitiesNum + Len(v) <= parseEntitiesNum
        /\ \A i \in 1 .. Len(v) :
             old.parseEntitiesNum + i - 1 > parseEntitiesNum - MAX_PARSE_ENTITIES
               => parseEntities[ClientSlot(old.parseEntitiesNum + i - 1)] = v[i]
    BY <1>2, <2>1, <2>3 DEF Intact, Whole, Fits
  <2>5. BaseOK(old) /\ parseEntitiesNum \in Nat
    BY <1>1, <2>3 DEF BaseOK, Snapshot, ClientTypes
  <2>6. Sorted(v) /\ NotAhead(v, w) /\ Len(v) \in Nat
    BY <1>3, <2>4, Bounds, ViewsAreSorted
  <2>7. parseEntitiesNum - old.parseEntitiesNum <= MAX_PARSE_ENTITIES - MARGIN
    BY <2>1 DEF NotTooOld
  <2>8. \A t \in 1 .. Len(v) : parseEntities[ClientSlot(old.parseEntitiesNum + t - 1)] = v[t]
    <3>1. SUFFICES ASSUME NEW t \in 1 .. Len(v)
                   PROVE  old.parseEntitiesNum + t - 1 > parseEntitiesNum - MAX_PARSE_ENTITIES
      BY <2>4
    <3>2. MARGIN \in Nat /\ MARGIN > 0 /\ MAX_PARSE_ENTITIES \in Nat /\ old.parseEntitiesNum \in Nat
      BY <2>5, Bounds DEF BaseOK
    <3>. QED
      BY <2>5, <2>6, <2>7, <3>2
  <2>. QED
    BY <1>2, <1>3, <1>4, <2>4, <2>5, <2>6, <2>7, <2>8 DEF Merges
<1>. QED
  BY <1>5, <1>6

(* A snapshot that is read becomes what was built, and the others stay what they are. *)
LEMMA ReadKeeps ==
  ASSUME IInv, TypeOK, KInv, NEW msg, msg \in Message, msg.kind = "snapshot",
         DownOK(msg), BuiltOK(msg), CL_ParseSnapshot(msg),
         UNCHANGED <<outgoingSequence, serverId, frames, snapshotEntities, nextSnapshotEntities>>
  PROVE  KeptInv' /\ RecordInv'
<1>. DEFINE q == msg.sequence
<1>1. ServerTypes /\ RingTypes /\ ClientTypes /\ KeptInv /\ RecordInv
  BY TypeParts DEF KInv
<1>2. PICK old : old = OldOf(msg)
  OBVIOUS
<1>3. PICK parse : parse = CL_ParsePacketEntities(msg.changes, old)
  OBVIOUS
<1>4. /\ parseEntities' = parse.ring /\ parseEntitiesNum' = parse.num /\ level' = level
      /\ ~Usable(msg) => UNCHANGED <<snap, snapshots>>
      /\ Usable(msg) =>
           /\ snap' = msg.sequence
           /\ \E new : Stores(msg, parse, new)
  <2>1. parse = CL_ParsePacketEntities(msg.changes, OldOf(msg))
    BY <1>2, <1>3
  <2>. QED
    BY <2>1, ParseDoes
<1>5. msg.changes \subseteq Changing /\ IsFiniteSet(msg.changes) /\ msg.lastframe \in Nat /\ q \in Nat
  <2>1. msg.changes \subseteq Changing /\ msg.lastframe \in Nat /\ q \in Nat
    BY Bounds DEF Message, Changing
  <2>. QED
    BY <2>1, ChangingIsFinite
<1>6. snap \in Nat /\ snap < q /\ parseEntitiesNum \in Nat
  <2>1. serverMessageSequence < q
    BY DEF DownOK
  <2>2. snap \in Nat /\ serverMessageSequence \in Nat /\ snap <= serverMessageSequence
    BY DEF IInv, NumbersOK
  <2>3. parseEntitiesNum \in Nat
    BY <1>1 DEF ClientTypes
  <2>. QED
    BY <1>5, <2>1, <2>2, <2>3
<1>7. ClientOK
  BY <1>1 DEF ClientOK, ClientTypes, ServerTypes
<1>8. old \in Snapshot /\ BaseOK(old)
  <2>1. PacketMask(q - msg.lastframe) \in 0 .. (PACKET_BACKUP - 1)
    BY <1>5, FrameSlots
  <2>2. old \in Snapshot
    BY <1>1, <1>2, <2>1, NoSnapshotType DEF OldOf, ClientTypes, Ring
  <2>. QED
    BY <2>2 DEF BaseOK, Snapshot
<1>9. /\ parse.num \in Nat /\ parse.num >= parseEntitiesNum
      /\ \A x \in Int : x < parseEntitiesNum /\ x > parse.num - MAX_PARSE_ENTITIES
           => parse.ring[ClientSlot(x)] = parseEntities[ClientSlot(x)]
  BY <1>3, <1>5, <1>7, <1>8, ParseKeeps
<1>10. PacketMask(q) \in 0 .. (PACKET_BACKUP - 1)
  BY <1>5, FrameSlots
<1>11. DOMAIN snapshots = 0 .. (PACKET_BACKUP - 1)
       /\ \A s \in 0 .. (PACKET_BACKUP - 1) : snapshots[s] \in Snapshot
  BY <1>1 DEF ClientTypes, Ring
<1>12. snap' \in Nat /\ snap' >= snap
  BY <1>4, <1>5, <1>6
<1>13. ASSUME NEW s \in 0 .. (PACKET_BACKUP - 1), snapshots[s].valid
       PROVE  Intact(snapshots[s]) /\ \A r : r = snapshots[s] => Intact(r)'
  <2>1. PICK r : r = snapshots[s]
    OBVIOUS
  <2>2. Intact(r)
    BY <1>1, <1>13, <2>1 DEF KeptInv
  <2>3. r.messageNum \in Nat /\ r.parseEntitiesNum \in Nat
    BY <1>11, <2>1 DEF Snapshot
  <2>4. parseEntitiesNum' \in Nat /\ parseEntitiesNum' >= parseEntitiesNum
        /\ \A x \in Int : x < parseEntitiesNum /\ x > parseEntitiesNum' - MAX_PARSE_ENTITIES
             => parseEntities'[ClientSlot(x)] = parseEntities[ClientSlot(x)]
    BY <1>4, <1>9
  <2>5. Intact(r)'
    BY <1>6, <1>12, <2>2, <2>3, <2>4, IntactKept
  <2>. QED
    BY <2>1, <2>2, <2>5
<1>14. CASE ~Usable(msg)
  <2>1. snap' = snap /\ snapshots' = snapshots /\ level' = level
    BY <1>4, <1>14
  <2>2. KeptInv'
    <3>1. SUFFICES ASSUME NEW s \in 0 .. (PACKET_BACKUP - 1), snapshots[s].valid
                   PROVE  Intact(snapshots[s])'
      BY <2>1 DEF KeptInv
    <3>2. PICK r : r = snapshots[s]
      OBVIOUS
    <3>3. Intact(r)'
      BY <1>13, <3>1, <3>2
    <3>. QED
      BY <2>1, <3>2, <3>3 DEF Intact, Whole
  <2>3. outgoingSequence \in Nat /\ outgoingSequence' = outgoingSequence
    BY DEF IInv, NumbersOK
  <2>4. RecordInv'
    BY <1>1, <2>1, <2>3, RecordUnchanged
  <2>. QED
    BY <2>2, <2>4
<1>15. CASE Usable(msg)
  <2>1. snap' = q
    BY <1>4, <1>15
  <2>2. PICK new : Stores(msg, parse, new)
    BY <1>4, <1>15
  <2>. USE DEF Stores
  <2>3. PICK w : w = msg.built
    OBVIOUS
  <2>4. w \in Views /\ Len(w) \in Nat
    <3>1. w \in Views
      BY <2>3 DEF BuiltOK
    <3>. QED
      BY <3>1, Bounds
  <2>5. ASSUME Fits(old, w)
        PROVE  parse.num = parseEntitiesNum + Len(w) /\ Written(parse, w, Len(w))
    <3>1. PICK v : v = BaseOf(msg)
      OBVIOUS
    <3>2. Merges(old, msg.changes, v, w)
      BY <1>2, <1>15, <2>3, <2>5, <3>1, UsableMerges
    <3>. QED
      BY <1>3, <1>7, <3>2, ParseReads
  <2>6. Intact(new)'
    <3>1. new.built = w /\ new.messageNum <= snap' /\ (new.fits <=> Fits(old, w))
      BY <1>2, <1>5, <2>1, <2>2, <2>3
    <3>2. ASSUME Fits(old, w) PROVE Whole(new)'
      <4>1. new.numEntities = Len(w) /\ new.parseEntitiesNum + Len(w) <= parseEntitiesNum'
        BY <1>4, <1>6, <2>2, <2>4, <2>5, <3>2
      <4>2. \A i \in 1 .. Len(w) :
              new.parseEntitiesNum + i - 1 > parseEntitiesNum' - MAX_PARSE_ENTITIES
                => parseEntities'[ClientSlot(new.parseEntitiesNum + i - 1)] = w[i]
        BY <1>4, <2>2, <2>5, <3>2 DEF Written
      <4>. QED
        BY <3>1, <4>1, <4>2 DEF Whole
    <3>. QED
      BY <2>4, <3>1, <3>2 DEF Intact
  <2>7. snapshots'[PacketMask(q)] = new
    BY <1>10, <1>11, <2>2
  <2>8. ASSUME NEW s \in 0 .. (PACKET_BACKUP - 1), s # PacketMask(q), snapshots'[s].valid
        PROVE  snapshots'[s] = snapshots[s]
    <3>1. CASE s \in Skipped(q)
      <4>1. snapshots'[s] = Unread(snapshots[s])
        BY <1>11, <2>2, <2>8, <3>1
      <4>2. Unread(snapshots[s]).valid = FALSE
        <5>1. PICK a, b, c, d, e, g : snapshots[s] = [valid |-> a, messageNum |-> b,
                parseEntitiesNum |-> c, numEntities |-> d, built |-> e, fits |-> g]
          BY <1>11 DEF Snapshot
        <5>. QED
          BY <5>1 DEF Unread
      <4>. QED
        BY <2>8, <4>1, <4>2
    <3>2. CASE s \notin Skipped(q)
      BY <1>11, <2>2, <2>8, <3>2
    <3>. QED
      BY <3>1, <3>2
  <2>9. KeptInv'
    <3>1. SUFFICES ASSUME NEW s \in 0 .. (PACKET_BACKUP - 1), snapshots'[s].valid
                   PROVE  Intact(snapshots[s])'
      BY DEF KeptInv
    <3>2. PICK r : r = snapshots'[s]
      OBVIOUS
    <3>3. CASE s = PacketMask(q)
      <4>1. r = new
        BY <2>7, <3>2, <3>3
      <4>2. Intact(r)'
        BY <2>6, <4>1
      <4>. QED
        BY <3>2, <4>2 DEF Intact, Whole
    <3>4. CASE s # PacketMask(q)
      <4>1. r = snapshots[s] /\ snapshots[s].valid
        BY <2>8, <3>1, <3>2, <3>4
      <4>2. Intact(r)'
        BY <1>13, <4>1
      <4>. QED
        BY <3>2, <4>2 DEF Intact, Whole
    <3>. QED
      BY <3>3, <3>4
  <2>10. RecordInv'
    <3>0. level' = level /\ serverId' = serverId /\ outgoingSequence' = outgoingSequence
      BY <1>4
    <3>1. SUFFICES ASSUME level = serverId, NEW n \in Nat, outgoingSequence - n <= PACKET_BACKUP,
                          Has(snapshots'[PacketMask(n)], n)
                   PROVE  Recorded(n, snapshots[PacketMask(n)].built)'
      BY <3>0 DEF RecordInv, Has
    <3>2. PacketMask(n) \in 0 .. (PACKET_BACKUP - 1)
      BY FrameSlots
    <3>3. PICK view : view = snapshots'[PacketMask(n)].built
      OBVIOUS
    <3>4. Recorded(n, view)
      <4>1. CASE PacketMask(n) = PacketMask(q)
        <5>1. n = q /\ view = w
          BY <2>2, <2>3, <2>7, <3>1, <3>3, <4>1 DEF Has
        <5>2. msg.serverId = serverId
          BY <3>1 DEF DownOK
        <5>. QED
          BY <2>3, <5>1, <5>2 DEF BuiltOK
      <4>2. CASE PacketMask(n) # PacketMask(q)
        <5>1. snapshots'[PacketMask(n)] = snapshots[PacketMask(n)]
          BY <2>8, <3>1, <3>2, <4>2 DEF Has
        <5>2. Has(snapshots[PacketMask(n)], n) /\ view = snapshots[PacketMask(n)].built
          BY <3>1, <3>3, <5>1 DEF Has
        <5>. QED
          BY <1>1, <3>1, <5>2 DEF RecordInv
      <4>. QED
        BY <4>1, <4>2
    <3>5. Recorded(n, view)'
      BY <3>4, RecordedUnchanged
    <3>. QED
      BY <3>3, <3>5 DEF Recorded
  <2>. QED
    BY <2>9, <2>10
<1>. QED
  BY <1>14, <1>15

(* CL_PacketEvent keeps the rings as they are to be. *)
LEMMA PacketKeeps == IInv /\ TypeOK /\ KInv /\ CL_PacketEvent => KInv'
<1>. SUFFICES ASSUME IInv, TypeOK, KInv, CL_PacketEvent PROVE KInv'
  OBVIOUS
<1>1. KeptInv /\ RecordInv /\ DownInv /\ DownType
  BY TypeParts DEF KInv
<1>2. PICK msg : down = <<msg>> /\ DownOK(msg)
  BY DEF IInv, CL_PacketEvent
<1>3. msg = Head(down) /\ msg \in Message /\ BuiltOK(msg)
  BY <1>1, <1>2 DEF DownType, DownInv
<1>4. /\ down' = <<>>
      /\ \/ msg.kind = "snapshot" /\ CL_ParseSnapshot(msg)
         \/ msg.kind = "gamestate" /\ CL_ParseGamestate(msg)
         \/ UNCHANGED <<level, snap, snapshots, parseEntities, parseEntitiesNum>>
      /\ UNCHANGED <<clientOfServer, serverId, serverEntities>>
  BY <1>3 DEF CL_PacketEvent
<1>5. DownInv'
  BY <1>4 DEF DownInv
<1>6. UNCHANGED <<outgoingSequence, serverId, frames, snapshotEntities, nextSnapshotEntities>>
  BY <1>4 DEF clientOfServer, serverEntities
<1>7. CASE msg.kind = "snapshot" /\ CL_ParseSnapshot(msg)
  <2>1. KeptInv' /\ RecordInv'
    BY <1>2, <1>3, <1>6, <1>7, ReadKeeps
  <2>. QED
    BY <1>5, <2>1 DEF KInv
<1>8. CASE msg.kind = "gamestate" /\ CL_ParseGamestate(msg)
  <2>1. \A s \in 0 .. (PACKET_BACKUP - 1) : snapshots'[s].valid = FALSE
    BY <1>8 DEF CL_ParseGamestate, NoSnapshots, NoSnapshot
  <2>2. \A n \in Nat : PacketMask(n) \in 0 .. (PACKET_BACKUP - 1)
    BY FrameSlots
  <2>3. KeptInv' /\ RecordInv'
    BY <2>1, <2>2 DEF KeptInv, RecordInv, Has
  <2>. QED
    BY <1>5, <2>3 DEF KInv
<1>9. CASE UNCHANGED <<level, snap, snapshots, parseEntities, parseEntitiesNum>>
  <2>1. outgoingSequence \in Nat
    BY DEF IInv, NumbersOK
  <2>2. KeptInv' /\ RecordInv'
    BY <1>1, <1>6, <1>9, <2>1, ClientUnchanged, RecordUnchanged
  <2>. QED
    BY <1>5, <2>2 DEF KInv
<1>. QED
  BY <1>4, <1>7, <1>8, <1>9

(* CL_WritePacket touches no ring. *)
LEMMA WriteKeepsAll == IInv /\ KInv /\ CL_WritePacket => KInv'
<1>. SUFFICES ASSUME IInv, KInv, CL_WritePacket PROVE KInv'
  OBVIOUS
<1>1. KeptInv /\ RecordInv /\ DownInv
  BY DEF KInv
<1>2. UNCHANGED <<clientOfServer, serverId, serverEntities, clientVars, down>>
  BY DEF CL_WritePacket
<1>3. outgoingSequence \in Nat
  BY DEF IInv, NumbersOK
<1>. QED
  BY <1>1, <1>2, <1>3, ClientUnchanged, RecordUnchanged, BuiltUnchanged
  DEF KInv, clientOfServer, serverEntities, clientVars

(* At the start there is nothing to keep. *)
LEMMA InitKept == Init => KInv
<1>. SUFFICES ASSUME Init PROVE KInv
  OBVIOUS
<1>1. \A s \in 0 .. (PACKET_BACKUP - 1) : snapshots[s].valid = FALSE
  BY DEF Init, NoSnapshots, NoSnapshot
<1>2. \A n \in Nat : PacketMask(n) \in 0 .. (PACKET_BACKUP - 1)
  BY FrameSlots
<1>3. KeptInv /\ RecordInv
  BY <1>1, <1>2 DEF KeptInv, RecordInv, Has
<1>4. DownInv
  BY DEF Init, DownInv
<1>. QED
  BY <1>3, <1>4 DEF KInv

(* Every step keeps the rings as they are to be. *)
LEMMA KeptStep == IInv /\ TypeOK /\ KInv /\ [Next]_vars => KInv'
<1>. SUFFICES ASSUME IInv, TypeOK, KInv, [Next]_vars PROVE KInv'
  OBVIOUS
<1>1. CASE UNCHANGED vars
  <2>1. KeptInv /\ RecordInv /\ DownInv
    BY DEF KInv
  <2>2. outgoingSequence \in Nat
    BY DEF IInv, NumbersOK
  <2>. QED
    BY <1>1, <2>1, <2>2, ClientUnchanged, RecordUnchanged, BuiltUnchanged DEF KInv, vars
<1>2. CASE Next
  BY <1>2, SendKeeps, IdleKeeps, OthersKeep, SpawnKeeps, ExecuteKeeps, PacketKeeps, WriteKeepsAll
  DEF Next
<1>. QED
  BY <1>1, <1>2

(* A valid snapshot is of the last PACKET_BACKUP numbers, and in its place. *)
Numbered(m, s, last) ==
  m \in Nat /\ PacketMask(m) = s /\ m <= last /\ last - m < PACKET_BACKUP
NumberedInv ==
  \A s \in 0 .. (PACKET_BACKUP - 1) :
    snapshots[s].valid => Numbered(snapshots[s].messageNum, s, snap)

(* What is left valid, as another is stored, is of the last PACKET_BACKUP  *)
(* numbers before it: the places of all others have been cleared.          *)
LEMMA OthersNumbered ==
  ASSUME NEW q \in Nat, snap \in Nat, snap < q, NEW s \in 0 .. (PACKET_BACKUP - 1),
         s # PacketMask(q), s \notin Skipped(q), NEW m, Numbered(m, s, snap)
  PROVE  Numbered(m, s, q)
<1>1. PACKET_BACKUP \in Nat \ {0} /\ q \in Int
  BY Bounds
<1>2. PICK k \in (q - (PACKET_BACKUP - 1)) .. (q - 1) : k % PACKET_BACKUP = s
  <2>1. s # q % PACKET_BACKUP
    BY DEF PacketMask
  <2>. QED
    BY <1>1, <2>1, PlaceBefore
<1>3. k \in Int /\ k > q - PACKET_BACKUP /\ k < q /\ PacketMask(k) = s
  BY <1>1, <1>2 DEF PacketMask
<1>4. k <= snap
  <2>1. SUFFICES ASSUME k > snap PROVE FALSE
    BY <1>3
  <2>2. k >= (IF q - (snap + 1) >= PACKET_BACKUP THEN q - (PACKET_BACKUP - 1) ELSE snap + 1)
        /\ k <= q - 1
    BY <1>1, <1>3, <2>1
  <2>3. k \in (IF q - (snap + 1) >= PACKET_BACKUP THEN q - (PACKET_BACKUP - 1) ELSE snap + 1) .. (q - 1)
    BY <1>1, <1>3, <2>2
  <2>. QED
    BY <1>3, <2>3 DEF Skipped
<1>5. m \in Nat /\ m <= snap /\ snap - m < PACKET_BACKUP /\ PacketMask(m) = s
  BY DEF Numbered
<1>6. m % PACKET_BACKUP = k % PACKET_BACKUP
  BY <1>3, <1>5 DEF PacketMask
<1>7. ~(m < k) /\ ~(k < m)
  <2>1. m < k => k - m < PACKET_BACKUP
    BY <1>1, <1>3, <1>4, <1>5
  <2>2. k < m => m - k < PACKET_BACKUP
    BY <1>1, <1>3, <1>4, <1>5
  <2>3. m \in Int
    BY <1>5
  <2>. QED
    BY <1>1, <1>3, <1>6, <2>1, <2>2, <2>3, PlacesDiffer
<1>8. m <= q /\ q - m < PACKET_BACKUP
  BY <1>1, <1>3, <1>5, <1>7
<1>. QED
  BY <1>5, <1>8 DEF Numbered

(* A snapshot that is read goes into its place, and what is left valid is  *)
(* of the last PACKET_BACKUP numbers still.                                *)
LEMMA ReadNumbers ==
  ASSUME IInv, TypeOK, NumberedInv, NEW msg, msg \in Message, DownOK(msg), CL_ParseSnapshot(msg)
  PROVE  NumberedInv'
<1>. DEFINE q == msg.sequence
<1>1. ClientTypes
  BY TypeParts
<1>2. q \in Nat /\ snap \in Nat /\ snap < q
  <2>1. q \in Nat /\ serverMessageSequence < q
    BY DEF DownOK
  <2>2. snap \in Nat /\ serverMessageSequence \in Nat /\ snap <= serverMessageSequence
    BY DEF IInv, NumbersOK
  <2>. QED
    BY <2>1, <2>2
<1>3. DOMAIN snapshots = 0 .. (PACKET_BACKUP - 1)
      /\ \A s \in 0 .. (PACKET_BACKUP - 1) : snapshots[s] \in Snapshot
  BY <1>1 DEF ClientTypes, Ring
<1>4. PICK parse : parse = CL_ParsePacketEntities(msg.changes, OldOf(msg))
  OBVIOUS
<1>5. \/ UNCHANGED <<snap, snapshots>>
      \/ /\ snap' = q
         /\ \E new : Stores(msg, parse, new)
  BY <1>4, ParseDoes
<1>6. CASE UNCHANGED <<snap, snapshots>>
  BY <1>6 DEF NumberedInv, Numbered
<1>7. ASSUME snap' = q, NEW new, Stores(msg, parse, new) PROVE NumberedInv'
  <2>1. /\ new.messageNum = q
        /\ \A s \in 0 .. (PACKET_BACKUP - 1) : snapshots'[s] =
             IF s = PacketMask(q) THEN new
             ELSE IF s \in Skipped(q) THEN Unread(snapshots[s])
             ELSE snapshots[s]
    BY <1>3, <1>7 DEF Stores
  <2>2. SUFFICES ASSUME NEW s \in 0 .. (PACKET_BACKUP - 1), snapshots'[s].valid
                 PROVE  Numbered(snapshots'[s].messageNum, s, q)
    BY <1>7 DEF NumberedInv, Numbered
  <2>3. CASE s = PacketMask(q)
    <3>1. snapshots'[s].messageNum = q
      BY <2>1, <2>3
    <3>2. q <= q /\ q - q < PACKET_BACKUP
      BY <1>2, Bounds
    <3>. QED
      BY <1>2, <2>3, <3>1, <3>2 DEF Numbered
  <2>4. CASE s # PacketMask(q) /\ s \in Skipped(q)
    <3>1. snapshots'[s] = Unread(snapshots[s])
      BY <2>1, <2>4
    <3>2. Unread(snapshots[s]).valid = FALSE
      <4>1. PICK a, b, c, d, e, g : snapshots[s] = [valid |-> a, messageNum |-> b,
              parseEntitiesNum |-> c, numEntities |-> d, built |-> e, fits |-> g]
        BY <1>3 DEF Snapshot
      <4>. QED
        BY <4>1 DEF Unread
    <3>. QED
      BY <2>2, <3>1, <3>2
  <2>5. CASE s # PacketMask(q) /\ s \notin Skipped(q)
    <3>1. snapshots'[s] = snapshots[s]
      BY <2>1, <2>5
    <3>2. PICK m : m = snapshots[s].messageNum
      OBVIOUS
    <3>3. Numbered(m, s, snap)
      BY <2>2, <3>1, <3>2 DEF NumberedInv
    <3>4. Numbered(m, s, q)
      BY <1>2, <2>5, <3>3, OthersNumbered
    <3>. QED
      BY <3>1, <3>2, <3>4
  <2>. QED
    BY <2>3, <2>4, <2>5
<1>. QED
  BY <1>5, <1>6, <1>7

(* Every step keeps the numbers: only what is read changes them. *)
LEMMA NumberedStep == IInv /\ TypeOK /\ NumberedInv /\ [Next]_vars => NumberedInv'
<1>. SUFFICES ASSUME IInv, TypeOK, NumberedInv, [Next]_vars PROVE NumberedInv'
  OBVIOUS
<1>1. CASE UNCHANGED <<snap, snapshots>>
  BY <1>1 DEF NumberedInv, Numbered
<1>2. CASE CL_PacketEvent
  <2>1. PICK msg : down = <<msg>> /\ DownOK(msg)
    BY <1>2 DEF IInv, CL_PacketEvent
  <2>2. msg = Head(down) /\ msg \in Message
    <3>1. DownType
      BY TypeParts
    <3>. QED
      BY <2>1, <3>1 DEF DownType
  <2>3. \/ CL_ParseSnapshot(msg)
        \/ CL_ParseGamestate(msg)
        \/ UNCHANGED <<snap, snapshots>>
    BY <1>2, <2>2 DEF CL_PacketEvent
  <2>4. CASE CL_ParseSnapshot(msg)
    BY <2>1, <2>2, <2>4, ReadNumbers
  <2>5. CASE CL_ParseGamestate(msg)
    <3>1. \A s \in 0 .. (PACKET_BACKUP - 1) : snapshots'[s].valid = FALSE
      BY <2>5 DEF CL_ParseGamestate, NoSnapshots, NoSnapshot
    <3>. QED
      BY <3>1 DEF NumberedInv
  <2>. QED
    BY <1>1, <2>3, <2>4, <2>5
<1>3. UNCHANGED <<snap, snapshots>> \/ CL_PacketEvent
  BY DEF Next, vars, clientVars, SV_SendClientSnapshot, SV_SendClientIdle, SnapshotsOfOthers,
         SV_SpawnServer, SV_ExecuteClientMessage, CL_WritePacket
<1>. QED
  BY <1>1, <1>2, <1>3

(* At the start no snapshot is valid. *)
LEMMA InitNumbered == Init => NumberedInv
  BY DEF Init, NoSnapshots, NoSnapshot, NumberedInv

(* What is in the place of the snapshot asked for has its number. *)
LEMMA PlaceHasNumber ==
  ASSUME IInv, TypeOK, NumberedInv, NEW n \in 1 .. snap, CL_GetSnapshot(n)
  PROVE  snapshots[PacketMask(n)].messageNum = n
<1>1. n \in Int /\ snap \in Nat /\ n <= snap /\ PACKET_BACKUP \in Nat \ {0}
  BY Bounds DEF IInv, NumbersOK
<1>2. PacketMask(n) \in 0 .. (PACKET_BACKUP - 1)
  BY <1>1, FrameSlots
<1>3. snap - n < PACKET_BACKUP /\ snapshots[PacketMask(n)].valid
  BY DEF CL_GetSnapshot
<1>4. PICK m : m = snapshots[PacketMask(n)].messageNum
  OBVIOUS
<1>5. m \in Nat /\ PacketMask(m) = PacketMask(n) /\ m <= snap /\ snap - m < PACKET_BACKUP
  BY <1>2, <1>3, <1>4 DEF NumberedInv, Numbered
<1>6. m % PACKET_BACKUP = n % PACKET_BACKUP
  BY <1>5 DEF PacketMask
<1>7. ~(m < n) /\ ~(n < m)
  <2>1. m < n => n - m < PACKET_BACKUP
    BY <1>1, <1>3, <1>5
  <2>2. n < m => m - n < PACKET_BACKUP
    BY <1>1, <1>3, <1>5
  <2>3. m \in Int
    BY <1>5
  <2>. QED
    BY <1>1, <1>6, <2>1, <2>2, <2>3, PlacesDiffer
<1>. QED
  BY <1>1, <1>4, <1>5, <1>7

(* What the client hands out is what the ring still has of it. *)
LEMMA KeptIsRead ==
  ASSUME IInv, TypeOK, KInv, NumberedInv
  PROVE  ReadIsBuilt
<1>1. KeptInv /\ ClientTypes
  BY TypeParts DEF KInv
<1>2. SUFFICES ASSUME NEW n \in 1 .. snap, CL_GetSnapshot(n), snapshots[PacketMask(n)].fits
               PROVE  EntitiesOf(n) = snapshots[PacketMask(n)].built
  BY PlaceHasNumber DEF ReadIsBuilt
<1>3. n \in Int /\ PacketMask(n) \in 0 .. (PACKET_BACKUP - 1)
  <2>1. n \in Int
    OBVIOUS
  <2>. QED
    BY <2>1, FrameSlots
<1>4. PICK s : s = snapshots[PacketMask(n)]
  OBVIOUS
<1>5. s.valid /\ parseEntitiesNum - s.parseEntitiesNum < MAX_PARSE_ENTITIES
  BY <1>2, <1>4 DEF CL_GetSnapshot
<1>6. Intact(s) /\ s \in Snapshot
  BY <1>1, <1>3, <1>4, <1>5 DEF KeptInv, ClientTypes, Ring
<1>7. PICK v, f : v = s.built /\ f = s.parseEntitiesNum
  OBVIOUS
<1>8. /\ v \in Views /\ s.numEntities = Len(v)
      /\ \A i \in 1 .. Len(v) : f + i - 1 > parseEntitiesNum - MAX_PARSE_ENTITIES
           => parseEntities[ClientSlot(f + i - 1)] = v[i]
  BY <1>2, <1>4, <1>6, <1>7 DEF Intact, Whole
<1>9. f \in Nat /\ parseEntitiesNum \in Nat /\ MAX_PARSE_ENTITIES \in Nat /\ v \in Seq(Entity)
  BY <1>1, <1>6, <1>7, <1>8, Bounds DEF Snapshot, ClientTypes
<1>10. \A i \in 1 .. Len(v) : parseEntities[ClientSlot(f + i - 1)] = v[i]
  <2>1. SUFFICES ASSUME NEW i \in 1 .. Len(v)
                 PROVE  f + i - 1 > parseEntitiesNum - MAX_PARSE_ENTITIES
    BY <1>8
  <2>2. Len(v) \in Nat
    BY <1>9
  <2>. QED
    BY <1>5, <1>7, <1>9, <2>1, <2>2
<1>11. EntitiesOf(n) = [i \in 1 .. Len(v) |-> parseEntities[ClientSlot(f + i - 1)]]
  BY <1>4, <1>7, <1>8 DEF EntitiesOf
<1>12. v = [i \in 1 .. Len(v) |-> v[i]]
  BY <1>9
<1>13. EntitiesOf(n) = v
  BY <1>10, <1>11, <1>12
<1>. QED
  BY <1>4, <1>7, <1>13

(* What cgame gets under the number of a message is the snapshot of that   *)
(* message, and is what the server built for it, if that fits: through     *)
(* lost messages, rings that have gone round and snapshots that could not  *)
(* be used, for rings of every size and all views.                         *)
THEOREM ReadsWhatWasBuilt == Spec => []ReadIsBuilt
<1>1. IInv /\ TypeOK /\ KInv /\ [Next]_vars => KInv'
  BY KeptStep
<1>2. IInv /\ TypeOK /\ NumberedInv /\ [Next]_vars => NumberedInv'
  BY NumberedStep
<1>3. IInv /\ TypeOK /\ KInv /\ NumberedInv => ReadIsBuilt
  BY KeptIsRead
<1>. QED
  BY <1>1, <1>2, <1>3, InitKept, InitNumbered, InvariantHolds, TypesHold, PTL DEF Spec
=============================================================================

------------------------------ MODULE Snapshots ------------------------------
(***************************************************************************)
(* Snapshots: what the server sends a client of the world, as a difference *)
(* to a snapshot the client has acknowledged.  The server keeps its last   *)
(* PACKET_BACKUP frames and, in one ring for all clients, their entities;  *)
(* the client keeps the snapshots it has read and their entities in rings  *)
(* of its own.  No end knows what the other has written over.              *)
(*                                                                         *)
(* A message is under way until it is read or the next one replaces it,    *)
(* which is how it is lost; the channel lets none overtake another.  Of    *)
(* the fields of an entity the model keeps one, value, which the baselines *)
(* of a level give its parity.  No message is fragmented.                  *)
(***************************************************************************)
EXTENDS Integers, Sequences, FiniteSetsExt

CONSTANTS
  PACKET_BACKUP,        \* frames and snapshots kept at either end
  KEEP,                 \* the 3 of "PACKET_BACKUP - 3"
  numSnapshotEntities,  \* size of the server's ring of entities
  MAX_PARSE_ENTITIES,   \* size of the client's
  MARGIN,               \* the 128 of "MAX_PARSE_ENTITIES - 128"
  Views,                \* what a client may see: entities in the order of their numbers
  OtherEntities,        \* how many entities the other clients may see in a frame
  MaxMessages,          \* bound of this model: messages of the server
  MaxEntities,          \* bound of this model: entities sent to the other clients
  MaxLevels             \* bound of this model: levels

(* The number behind the last entity of a list, and that of a removed      *)
(* entity (MAX_GENTITIES - 1), in which a message ends too.                *)
Behind == 99999
None == 1023

Entity == [number : 0 .. None, value : 0 .. 1]

(* No entity of the game has the last number. *)
ASSUME SnapshotsAssumption ==
  /\ PACKET_BACKUP \in Nat \ {0} /\ KEEP \in 0 .. PACKET_BACKUP
  /\ numSnapshotEntities \in Nat \ {0} /\ MAX_PARSE_ENTITIES \in Nat \ {0}
  /\ MARGIN \in Nat \ {0} /\ OtherEntities \subseteq Nat /\ MaxEntities \in Nat
  /\ Views \subseteq Seq(Entity)
  /\ \A v \in Views : \A i, j \in 1 .. Len(v) : i < j => v[i].number < v[j].number
  /\ \A v \in Views : \A i \in 1 .. Len(v) : v[i].number # None
  /\ MaxMessages \in Nat \ {0} /\ MaxLevels \in Nat \ {0}

VARIABLES
  outgoingSequence,     \* netchan.outgoingSequence of the client_t
  state,                \* client_t.state
  deltaMessage,         \* client_t.deltaMessage
  gamestateMessageNum,  \* client_t.gamestateMessageNum
  serverId,             \* sv.serverId
  frames,               \* client_t.frames
  snapshotEntities,     \* svs.snapshotEntities
  nextSnapshotEntities, \* svs.nextSnapshotEntities
  others,               \* entities sent to the other clients
  level,                \* cl.serverId
  serverMessageSequence,\* clc.serverMessageSequence
  snap,                 \* cl.snap.messageNum, 0 while cl.snap is not valid
  snapshots,            \* cl.snapshots
  parseEntities,        \* cl.parseEntities
  parseEntitiesNum,     \* cl.parseEntitiesNum
  down, up              \* the message under way to the client, and to the server

clientOfServer == <<outgoingSequence, state, deltaMessage, gamestateMessageNum>>
serverEntities == <<frames, snapshotEntities, nextSnapshotEntities, others>>
clientVars == <<level, serverMessageSequence, snap, snapshots, parseEntities, parseEntitiesNum>>
vars == <<outgoingSequence, state, deltaMessage, gamestateMessageNum, serverId,
          frames, snapshotEntities, nextSnapshotEntities, others,
          level, serverMessageSequence, snap, snapshots, parseEntities, parseEntitiesNum,
          down, up>>

PacketMask(n) == n % PACKET_BACKUP
ServerSlot(n) == n % numSnapshotEntities
ClientSlot(n) == n % MAX_PARSE_ENTITIES

Zeroed == [number |-> 0, value |-> 0]
Removed == [number |-> None, value |-> 0]

(* The baseline of an entity, fixed when its level was spawned. *)
Baseline(lvl, number) == [number |-> number, value |-> lvl % 2]

-----------------------------------------------------------------------------
(* The server.                                                             *)

(* The entities of a frame, as the ring has them. *)
FrameEntities(ring, frame) ==
  {ring[ServerSlot(frame.first_entity + i)] : i \in 0 .. (frame.num_entities - 1)}

Numbers(entities) == {e.number : e \in entities}

(* MSG_WriteDeltaEntity: the fields that are no longer those of old. *)
Changed(old, e) == IF old.value = e.value THEN {} ELSE {e.value}

Change(number, removed, changed) == [number |-> number, removed |-> removed, changed |-> changed]

(* SV_EmitPacketEntities: what has left, what is new and what has changed. *)
(* The message has the changes in the order of the numbers.                *)
SV_EmitPacketEntities(from, to) ==
  LET gone == {Change(n, TRUE, {}) : n \in Numbers(from) \ Numbers(to)}
      new  == {Change(e.number, FALSE, Changed(Baseline(serverId, e.number), e)) :
                 e \in {x \in to : x.number \notin Numbers(from)}}
      kept == {Change(p[2].number, FALSE, Changed(p[1], p[2])) :
                 p \in {x \in from \X to : x[1].number = x[2].number /\ x[1] # x[2]}}
  IN  gone \cup new \cup kept

(* SV_BuildClientSnapshot copies the entities in view into the ring; its   *)
(* frame, and the ring after it.                                           *)
NewFrame(view) == [first_entity |-> nextSnapshotEntities, num_entities |-> Len(view)]

Copied(view) ==
  [s \in DOMAIN snapshotEntities |->
     LET at == {i \in 1 .. Len(view) : ServerSlot(nextSnapshotEntities + i - 1) = s}
     IN  IF at = {} THEN snapshotEntities[s] ELSE view[Max(at)]]

(* Mutant: a base is good until its frame is written over. *)
AnswersLate(delta) == delta > 0 /\ outgoingSequence - delta <= PACKET_BACKUP

(* The client has asked for a delta, and not too long ago. *)
Answers(delta) == delta > 0 /\ outgoingSequence - delta < PACKET_BACKUP - KEEP

(* The entities of the frame have not rolled off the ring. *)
IsKept(frame, next) == frame.first_entity > next - numSnapshotEntities

(* SV_WriteSnapshotToClient, from the base the client has asked for or     *)
(* from nothing; built is what the snapshot says, for the properties.      *)
SV_WriteSnapshotToClient(view) ==
  LET next == nextSnapshotEntities + Len(view)
      ring == Copied(view)
      base == frames[PacketMask(deltaMessage)]
      delta == Answers(deltaMessage) /\ IsKept(base, next)
  IN  [sequence |-> outgoingSequence, kind |-> "snapshot", serverId |-> serverId,
       lastframe |-> IF delta THEN outgoingSequence - deltaMessage ELSE 0,
       changes |-> SV_EmitPacketEntities(IF delta THEN FrameEntities(ring, base) ELSE {},
                                         FrameEntities(ring, NewFrame(view))),
       built |-> view]

(* A message without a snapshot. *)
Other(kind) == [sequence |-> outgoingSequence, kind |-> kind, serverId |-> serverId,
                lastframe |-> 0, changes |-> {}, built |-> <<>>]

(* SV_SendMessageToClient *)
Send(msg) ==
  /\ outgoingSequence <= MaxMessages
  /\ outgoingSequence' = outgoingSequence + 1 /\ down' = <<msg>>

(* SV_SendClientSnapshot for a client in the world. *)
SV_SendClientSnapshot ==
  /\ state = "active"
  /\ \E view \in Views :
       /\ Send(SV_WriteSnapshotToClient(view))
       /\ frames' = [frames EXCEPT ![PacketMask(outgoingSequence)] = NewFrame(view)]
       /\ snapshotEntities' = Copied(view)
       /\ nextSnapshotEntities' = nextSnapshotEntities + Len(view)
  /\ UNCHANGED <<state, deltaMessage, gamestateMessageNum, serverId, others, clientVars, up>>

(* ... and for one that loads the level. *)
SV_SendClientIdle ==
  /\ state # "active" /\ Send(Other("idle"))
  /\ UNCHANGED <<state, deltaMessage, gamestateMessageNum, serverId, serverEntities,
                 clientVars, up>>

(* The snapshots of the other clients in a frame. *)
SnapshotsOfOthers ==
  /\ \E n \in OtherEntities :
       /\ others + n <= MaxEntities /\ others' = others + n
       /\ snapshotEntities' = [s \in DOMAIN snapshotEntities |->
            IF \E i \in 0 .. (n - 1) : ServerSlot(nextSnapshotEntities + i) = s THEN Zeroed
            ELSE snapshotEntities[s]]
       /\ nextSnapshotEntities' = nextSnapshotEntities + n
  /\ UNCHANGED <<clientOfServer, serverId, frames, clientVars, down, up>>

(* SV_SpawnServer: a new level, with a new ring and new baselines. *)
SV_SpawnServer ==
  /\ serverId < MaxLevels /\ serverId' = serverId + 1 /\ state' = "connected"
  /\ snapshotEntities' = [s \in DOMAIN snapshotEntities |-> Zeroed]
  /\ nextSnapshotEntities' = 0
  /\ UNCHANGED <<outgoingSequence, deltaMessage, gamestateMessageNum, frames, others,
                 clientVars, down, up>>

SV_SendClientGameState ==
  /\ Send(Other("gamestate"))
  /\ state' = "primed" /\ gamestateMessageNum' = outgoingSequence
  /\ UNCHANGED deltaMessage

(* SV_UserMove; the first move puts the client into the world, through     *)
(* SV_ClientEnterWorld.                                                    *)
SV_UserMove(msg) ==
  /\ deltaMessage' = IF msg.delta /\ state = "active" THEN msg.ack ELSE -1
  /\ state' = IF state = "primed" THEN "active" ELSE state
  /\ UNCHANGED <<outgoingSequence, gamestateMessageNum, down>>

(* SV_ExecuteClientMessage *)
SV_ExecuteClientMessage ==
  /\ up # <<>> /\ up' = <<>>
  /\ LET msg == Head(up)
     IN  \/ /\ msg.serverId = serverId
            /\ SV_UserMove(msg)
         \/ /\ msg.serverId # serverId /\ msg.ack > gamestateMessageNum
            /\ SV_SendClientGameState
         \/ /\ msg.serverId # serverId /\ msg.ack <= gamestateMessageNum
            /\ UNCHANGED <<clientOfServer, down>>
  /\ UNCHANGED <<serverId, serverEntities, clientVars>>

-----------------------------------------------------------------------------
(* The client.                                                             *)

NoSnapshot == [valid |-> FALSE, messageNum |-> 0, parseEntitiesNum |-> 0, numEntities |-> 0,
               built |-> <<>>, fits |-> TRUE]

(* The number of the entity of old at oldindex. *)
NumberAt(ring, old, oldindex) ==
  IF oldindex < old.numEntities
  THEN ring[ClientSlot(old.parseEntitiesNum + oldindex)].number ELSE Behind

(* CL_DeltaEntity: e goes into the ring, which moves on unless e is gone. *)
CL_DeltaEntity(parse, e) ==
  [parse EXCEPT !.ring[ClientSlot(parse.num)] = e,
                !.num = IF e.number = None THEN @ ELSE @ + 1]

(* MSG_ReadDeltaEntity *)
MSG_ReadDeltaEntity(change, from) ==
  IF change.removed THEN Removed
  ELSE [number |-> change.number,
        value |-> IF change.changed = {} THEN from.value ELSE CHOOSE v \in change.changed : TRUE]

(* The next change in the message. *)
NextChange(changes) == CHOOSE c \in changes : \A d \in changes : c.number <= d.number

(* The next change is read; the base's next entity is looked at as soon as *)
(* the one before is done with.                                            *)
Taken(parse) == [parse EXCEPT !.changes = @ \ {NextChange(@)}]
Passed(parse, old) ==
  [parse EXCEPT !.oldindex = @ + 1, !.oldnum = NumberAt(parse.ring, old, parse.oldindex + 1)]

(* One turn of CL_ParsePacketEntities: an entity that has not changed, one *)
(* that has, or a new one.                                                 *)
ParseEntity(parse, old) ==
  LET oldstate == parse.ring[ClientSlot(old.parseEntitiesNum + parse.oldindex)]
      next == NextChange(parse.changes)
      newnum == IF parse.changes = {} THEN Behind ELSE next.number
      Read(from) == CL_DeltaEntity(Taken(parse), MSG_ReadDeltaEntity(next, from))
  IN  CASE parse.oldnum < newnum -> Passed(CL_DeltaEntity(parse, oldstate), old)
        [] parse.oldnum = newnum -> Passed(Read(oldstate), old)
        [] parse.oldnum > newnum -> Read(Baseline(level, newnum))

(* CL_ParsePacketEntities, until neither list has an entity left. *)
CL_ParsePacketEntities(changes, old) ==
  LET Parse[k \in Nat] ==
        IF k = 0
        THEN [ring |-> parseEntities, num |-> parseEntitiesNum, changes |-> changes,
              oldindex |-> 0, oldnum |-> NumberAt(parseEntities, old, 0)]
        ELSE LET parse == Parse[k - 1]
             IN  IF parse.oldnum = Behind /\ parse.changes = {} THEN parse
                 ELSE ParseEntity(parse, old)
  IN  Parse[Cardinality(changes) + old.numEntities]

(* The client has the snapshot numbered n ... *)
Has(old, n) == old.valid /\ old.messageNum = n

(* ... and its entities are not about to be written over. *)
NotTooOld(old) == parseEntitiesNum - old.parseEntitiesNum <= MAX_PARSE_ENTITIES - MARGIN

(* At most MARGIN new entities come ahead of one of the base. *)
NotAhead(v, w) ==
  \A i \in 1 .. Len(v), j \in 1 .. Len(w) : w[j].number < v[i].number => j <= MARGIN + i - 1

(* What no check of the code is made for: the view fits the server's ring, *)
(* and the margin is room enough for what is new in it; and so were those  *)
(* of the bases before it.                                                 *)
Fits(old, view) ==
  old.fits /\ Len(view) <= numSnapshotEntities /\ NotAhead(old.built, view)

(* Mutant: what was in the places of the skipped snapshots stays valid. *)
SkipsNone(n) == {}

(* The places of the messages between the last snapshot and the one        *)
(* numbered n.                                                             *)
Skipped(n) ==
  LET first == IF n - (snap + 1) >= PACKET_BACKUP THEN n - (PACKET_BACKUP - 1) ELSE snap + 1
  IN  {PacketMask(k) : k \in first .. (n - 1)}

(* A snapshot that is skipped is not valid any more, and nobody asks for   *)
(* what was built for it.                                                  *)
Unread(old) == [old EXCEPT !.valid = FALSE, !.built = <<>>, !.fits = TRUE]

(* CL_ParseSnapshot: the entities are read whether or not the snapshot can *)
(* be used.                                                                *)
CL_ParseSnapshot(msg) ==
  LET full == msg.lastframe = 0
      base == msg.sequence - msg.lastframe
      old == IF full THEN NoSnapshot ELSE snapshots[PacketMask(base)]
      parse == CL_ParsePacketEntities(msg.changes, old)
      new == [valid |-> TRUE, messageNum |-> msg.sequence,
              parseEntitiesNum |-> parseEntitiesNum, numEntities |-> parse.num - parseEntitiesNum,
              built |-> msg.built, fits |-> Fits(old, msg.built)]
  IN  /\ parseEntities' = parse.ring /\ parseEntitiesNum' = parse.num
      /\ IF full \/ (Has(old, base) /\ NotTooOld(old))
         THEN /\ snap' = msg.sequence
              /\ snapshots' = [s \in DOMAIN snapshots |->
                   IF s = PacketMask(msg.sequence) THEN new
                   ELSE IF s \in Skipped(msg.sequence)
                   THEN Unread(snapshots[s])
                   ELSE snapshots[s]]
         ELSE UNCHANGED <<snap, snapshots>>
      /\ UNCHANGED level

NoSnapshots == [s \in 0 .. (PACKET_BACKUP - 1) |-> NoSnapshot]
NoEntities(size) == [s \in 0 .. (size - 1) |-> Zeroed]

(* CL_ParseGamestate, and the CL_ClearState in it. *)
CL_ParseGamestate(msg) ==
  /\ level' = msg.serverId /\ snap' = 0 /\ snapshots' = NoSnapshots
  /\ parseEntities' = NoEntities(MAX_PARSE_ENTITIES) /\ parseEntitiesNum' = 0

(* CL_PacketEvent *)
CL_PacketEvent ==
  /\ down # <<>> /\ down' = <<>>
  /\ serverMessageSequence' = Head(down).sequence
  /\ \/ /\ Head(down).kind = "snapshot" /\ CL_ParseSnapshot(Head(down))
     \/ /\ Head(down).kind = "gamestate" /\ CL_ParseGamestate(Head(down))
     \/ /\ Head(down).kind = "idle"
        /\ UNCHANGED <<level, snap, snapshots, parseEntities, parseEntitiesNum>>
  /\ UNCHANGED <<clientOfServer, serverId, serverEntities, up>>

(* Mutant: any snapshot will do as a base. *)
AsksWithAny == snap # 0

(* The last message was a snapshot and is a good base. *)
AsksForDelta == snap # 0 /\ serverMessageSequence = snap

(* CL_WritePacket, with a clc_move or a clc_moveNoDelta. *)
CL_WritePacket ==
  /\ up' = <<[serverId |-> level, ack |-> serverMessageSequence, delta |-> AsksForDelta]>>
  /\ UNCHANGED <<clientOfServer, serverId, serverEntities, clientVars, down>>

(* CL_GetSnapshot returns the snapshot numbered n to cgame. *)
CL_GetSnapshot(n) ==
  LET s == snapshots[PacketMask(n)]
  IN  snap - n < PACKET_BACKUP /\ s.valid
      /\ parseEntitiesNum - s.parseEntitiesNum < MAX_PARSE_ENTITIES

(* ... with these entities. *)
EntitiesOf(n) ==
  LET s == snapshots[PacketMask(n)]
  IN  [i \in 1 .. s.numEntities |-> parseEntities[ClientSlot(s.parseEntitiesNum + i - 1)]]

-----------------------------------------------------------------------------
(* The client has read the gamestate, message 1, and has not moved yet.    *)
Init ==
  /\ outgoingSequence = 2 /\ state = "primed" /\ deltaMessage = 0 /\ gamestateMessageNum = 1
  /\ serverId = 1 /\ frames = [s \in 0 .. (PACKET_BACKUP - 1) |->
                                 [first_entity |-> 0, num_entities |-> 0]]
  /\ snapshotEntities = NoEntities(numSnapshotEntities)
  /\ nextSnapshotEntities = 0 /\ others = 0
  /\ level = 1 /\ serverMessageSequence = 1 /\ snap = 0 /\ snapshots = NoSnapshots
  /\ parseEntities = NoEntities(MAX_PARSE_ENTITIES) /\ parseEntitiesNum = 0
  /\ down = <<>> /\ up = <<>>

Next ==
  \/ SV_SendClientSnapshot \/ SV_SendClientIdle \/ SnapshotsOfOthers
  \/ SV_SpawnServer \/ SV_ExecuteClientMessage
  \/ CL_PacketEvent \/ CL_WritePacket

Spec == Init /\ [][Next]_vars

-----------------------------------------------------------------------------
Ring(size, S) == [0 .. (size - 1) -> S]
Snapshot == [valid : BOOLEAN, messageNum : Nat, parseEntitiesNum : Nat, numEntities : Nat,
             built : Views \cup {<<>>}, fits : BOOLEAN]
Message == [sequence : Nat, kind : {"snapshot", "gamestate", "idle"}, serverId : Nat,
            lastframe : 0 .. (PACKET_BACKUP - 1),
            changes : SUBSET [number : 0 .. None, removed : BOOLEAN, changed : SUBSET (0 .. 1)],
            built : Views \cup {<<>>}]

(* Every variable has the type the code gives it; the distance to the base *)
(* fits the frames.                                                        *)
TypeOK ==
  /\ outgoingSequence \in 2 .. (MaxMessages + 1) /\ state \in {"connected", "primed", "active"}
  /\ deltaMessage \in Int /\ gamestateMessageNum \in Nat /\ serverId \in 1 .. MaxLevels
  /\ frames \in Ring(PACKET_BACKUP, [first_entity : Nat, num_entities : Nat])
  /\ snapshotEntities \in Ring(numSnapshotEntities, Entity)
  /\ nextSnapshotEntities \in Nat /\ others \in 0 .. MaxEntities
  /\ level \in 1 .. serverId /\ serverMessageSequence \in 1 .. outgoingSequence
  /\ snap \in 0 .. serverMessageSequence /\ snapshots \in Ring(PACKET_BACKUP, Snapshot)
  /\ parseEntities \in Ring(MAX_PARSE_ENTITIES, Entity) /\ parseEntitiesNum \in Nat
  /\ down = <<>> \/ (Len(down) = 1 /\ Head(down) \in Message)
  /\ up = <<>> \/ (Len(up) = 1 /\ Head(up) \in [serverId : Nat, ack : Nat, delta : BOOLEAN])

(* What cgame gets under the number of a message, now or later, is that    *)
(* message's snapshot and no older one's in its place, and has what the    *)
(* server built for it, if that fits: through lost messages and            *)
(* acknowledgements, rings that have gone round and snapshots that could   *)
(* not be used.                                                            *)
ReadIsBuilt ==
  \A n \in 1 .. snap : CL_GetSnapshot(n) =>
    LET s == snapshots[PacketMask(n)]
    IN  s.messageNum = n /\ (s.fits => EntitiesOf(n) = s.built)

(* Refuted: ... whatever the views are.  With more new entities ahead of   *)
(* one of the base than the margin, CL_ParsePacketEntities writes over the *)
(* base it still reads.                                                    *)
ReadIsAlwaysBuilt ==
  \A n \in 1 .. snap : CL_GetSnapshot(n) => EntitiesOf(n) = snapshots[PacketMask(n)].built

(* A delta is never made against a snapshot the client does not have: the  *)
(* "Delta from invalid frame" of CL_ParseSnapshot "should never happen".   *)
BaseIsKept ==
  down # <<>> /\ Head(down).lastframe > 0 /\ Head(down).serverId = level
    => LET base == Head(down).sequence - Head(down).lastframe
       IN  Has(snapshots[PacketMask(base)], base)

(* No client is left with an old picture: a snapshot that comes            *)
(* PACKET_BACKUP - 3 messages after the one shown is shown.                *)
NeverStuck ==
  [][down # <<>> /\ down' = <<>> /\ Head(down).kind = "snapshot"
     /\ Head(down).sequence - snap >= PACKET_BACKUP - KEEP
     => snap' = Head(down).sequence]_vars
=============================================================================

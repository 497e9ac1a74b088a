-------------------------- MODULE ReliableCommands ---------------------------
(***************************************************************************)
(* The commands that must arrive, between the server and one client.  Each *)
(* end numbers its commands, keeps the last MAX_RELIABLE_COMMANDS in a     *)
(* ring and repeats, in every message, those the other end has not         *)
(* acknowledged.  Messages are lost but neither repeated nor reordered     *)
(* (LossyChannel).                                                         *)
(*                                                                         *)
(* A text is the number it was written under, below zero if it is a        *)
(* "disconnect"; 0 is the empty slot.  Both ends encode with the text of   *)
(* the last command acknowledged; a message carries that text as its key.  *)
(* What a message read with the wrong key says is anybody's guess: the     *)
(* model stops there, with garbled set.                                    *)
(***************************************************************************)
EXTENDS Integers, Sequences

CONSTANTS
  MAX_RELIABLE_COMMANDS,
  MaxServerCommands,  \* bound of this model: commands of the game
  MaxClientCommands,  \* bound of this model: commands of the player
  MaxLevels,          \* bound of this model: levels
  MaxInFlight         \* bound of this model: messages under way in a direction

ASSUME ReliableCommandsAssumption ==
  /\ MAX_RELIABLE_COMMANDS \in Nat \ {0} /\ MaxInFlight \in Nat \ {0}
  /\ MaxServerCommands \in Nat /\ MaxClientCommands \in Nat /\ MaxLevels \in Nat \ {0}

VARIABLES
  state,              \* client_t.state
  sv,                 \* the server's numbers and ring, in client_t
  lastClientCommand,  \* number of the last command executed for the client
  done,               \* the texts of those executed, in order
  serverId,           \* sv.serverId, the level
  mode,               \* the client: "running", "gone", or "crashed" in Sys_Error
  cl,                 \* the client's numbers and ring, in clc
  got,                \* clc.serverCommandSequence and serverCommands
  snaps,              \* serverCommandNum of the snapshots cgame has yet to reach
  heard,              \* the texts cgame has executed, in order
  level,              \* cl.serverId, the level of the client
  down, up,           \* messages under way to the client and to the server
  garbled

serverVars == <<state, sv, lastClientCommand, done, serverId>>
clientVars == <<mode, cl, got, snaps, heard, level>>
vars == <<state, sv, lastClientCommand, done, serverId,
          mode, cl, got, snaps, heard, level, down, up, garbled>>

Slots == 0 .. (MAX_RELIABLE_COMMANDS - 1)
Slot(n) == n % MAX_RELIABLE_COMMANDS

(* lost: the numbers whose text was never stored, or was written over      *)
(* before it was acknowledged.                                             *)
Sender == [reliableSequence : Nat, reliableAcknowledge : Nat,
           reliableCommands : [Slots -> Int], lost : SUBSET Nat]
Receiver == [serverCommandSequence : Nat, serverCommands : [Slots -> Int]]
Downward == [last : Nat, key : Int, first : Nat, texts : Seq(Int), sequence : Nat,
             kind : {"idle", "snapshot", "gamestate"}, serverId : Nat]
Upward == [ack : Nat, key : Int, first : Nat, texts : Seq(Int), serverId : Nat]

NoCommands == [s \in Slots |-> 0]
NewSender == [reliableSequence |-> 0, reliableAcknowledge |-> 0,
              reliableCommands |-> NoCommands, lost |-> {}]

(* SV_DirectConnect has accepted the client, which knows of no level yet. *)
Init ==
  /\ state = "connected" /\ sv = NewSender /\ lastClientCommand = 0 /\ done = <<>>
  /\ serverId = 1
  /\ mode = "running" /\ cl = NewSender
  /\ got = [serverCommandSequence |-> 0, serverCommands |-> NoCommands]
  /\ snaps = {} /\ heard = <<>> /\ level = 0
  /\ down = <<>> /\ up = <<>> /\ garbled = FALSE

-----------------------------------------------------------------------------
Pending(s) == s.reliableSequence - s.reliableAcknowledge

(* The next number, without a text. *)
Numbered(s) ==
  [reliableSequence |-> s.reliableSequence + 1,
   reliableAcknowledge |-> s.reliableAcknowledge,
   reliableCommands |-> s.reliableCommands,
   lost |-> s.lost \cup {s.reliableSequence + 1}]

WrittenOver(s) ==
  IF Pending(s) < MAX_RELIABLE_COMMANDS THEN {}
  ELSE {s.reliableSequence + 1 - MAX_RELIABLE_COMMANDS}

(* The next number with its text in the ring. *)
Stored(s, sign) ==
  [reliableSequence |-> s.reliableSequence + 1,
   reliableAcknowledge |-> s.reliableAcknowledge,
   reliableCommands |-> [s.reliableCommands EXCEPT
     ![Slot(s.reliableSequence + 1)] = sign * (s.reliableSequence + 1)],
   lost |-> s.lost \cup WrittenOver(s)]

Acknowledged(s, n) ==
  [reliableSequence |-> s.reliableSequence, reliableAcknowledge |-> n,
   reliableCommands |-> s.reliableCommands, lost |-> s.lost]

(* Mutant: the last command waits for the next one. *)
ButTheLast(s) ==
  [i \in 1 .. (Pending(s) - 1) |-> s.reliableCommands[Slot(s.reliableAcknowledge + i)]]

(* SV_UpdateServerCommandsToClient and CL_WritePacket: the texts of all    *)
(* commands not acknowledged yet.                                          *)
Unacknowledged(s) ==
  [i \in 1 .. Pending(s) |-> s.reliableCommands[Slot(s.reliableAcknowledge + i)]]

(* A message joins those under way; with MaxInFlight of them the oldest is *)
(* lost.                                                                   *)
Sent(channel, msg) ==
  IF Len(channel) < MaxInFlight THEN Append(channel, msg)
  ELSE Append(Tail(channel), msg)

(* The i-th message under way arrives; those before it never will. *)
After(channel, i) == SubSeq(channel, i + 1, Len(channel))

(* The texts up to the first "disconnect". *)
UpToDisconnect(texts) ==
  LET Ends(k) == texts[k] < 0 \/ k = Len(texts)
  IN  IF texts = <<>> THEN <<>>
      ELSE SubSeq(texts, 1, CHOOSE k \in DOMAIN texts :
                              Ends(k) /\ \A j \in 1 .. (k - 1) : ~Ends(j))

Disconnects(texts) == \E i \in DOMAIN texts : texts[i] < 0

-----------------------------------------------------------------------------
(* The server's side. *)

(* Mutant: the client is dropped one command late. *)
OverflowsLate(s) == Pending(s) = MAX_RELIABLE_COMMANDS + 1

(* "==" in SV_AddServerCommand, after the number was counted up. *)
Overflows(s) == Pending(s) = MAX_RELIABLE_COMMANDS

(* The last command of SV_DropClient, to a client that is a zombie by now: *)
(* if it does not fit, SV_DropClient returns at once.                      *)
Farewell(s) == IF Overflows(s) THEN Numbered(s) ELSE Stored(s, -1)

(* The broadcast "print" of SV_DropClient, which comes before the client   *)
(* is a zombie: it reaches the client itself, and drops it again if it     *)
(* does not fit.                                                           *)
Printed(st, s) ==
  IF st \notin {"primed", "active"} THEN s
  ELSE IF Overflows(s) THEN Farewell(Stored(Numbered(s), 1))
  ELSE Stored(s, 1)

(* SV_DropClient of a client that is not a zombie yet. *)
Dropped(st, s) == Farewell(Printed(st, s))

(* A command of the game for this client alone or for all. *)
SV_AddServerCommand ==
  /\ ~garbled /\ state # "free" /\ sv.reliableSequence < MaxServerCommands
  /\ IF ~Overflows(sv)
     THEN sv' = Stored(sv, 1) /\ UNCHANGED state
     ELSE IF state = "zombie"
     THEN sv' = Numbered(sv) /\ UNCHANGED state
     ELSE state' = "zombie" /\ sv' = Dropped(state, Numbered(sv))
  /\ UNCHANGED <<lastClientCommand, done, serverId, clientVars, down, up, garbled>>

(* The player is kicked, or a message for him is too long. *)
SV_DropClient ==
  /\ ~garbled /\ state \notin {"free", "zombie"}
  /\ state' = "zombie" /\ sv' = Dropped(state, sv)
  /\ UNCHANGED <<lastClientCommand, done, serverId, clientVars, down, up, garbled>>

(* SV_CheckTimeouts: a silent client, or a zombie whose time is over. *)
SV_CheckTimeouts ==
  /\ ~garbled /\ state # "free"
  /\ state' = "free"
  /\ sv' = IF state = "zombie" THEN sv ELSE Dropped(state, sv)
  /\ UNCHANGED <<lastClientCommand, done, serverId, clientVars, down, up, garbled>>

(* SV_SpawnServer. *)
NewLevel ==
  /\ ~garbled /\ state # "free" /\ serverId < MaxLevels
  /\ serverId' = serverId + 1
  /\ state' = IF state = "zombie" THEN "zombie" ELSE "connected"
  /\ UNCHANGED <<sv, lastClientCommand, done, clientVars, down, up, garbled>>

Connected == state \in {"connected", "primed", "active"}

lastClientCommandString == IF done = <<>> THEN 0 ELSE done[Len(done)]

Message(s, kind) ==
  [last |-> lastClientCommand, key |-> lastClientCommandString,
   first |-> s.reliableAcknowledge + 1, texts |-> Unacknowledged(s),
   sequence |-> s.reliableSequence, kind |-> kind, serverId |-> serverId]

(* Mutant: the gamestate does not bring the commands its number counts. *)
BareGamestate(s) ==
  [last |-> lastClientCommand, key |-> lastClientCommandString,
   first |-> s.reliableSequence + 1, texts |-> <<>>,
   sequence |-> s.reliableSequence, kind |-> "gamestate", serverId |-> serverId]

(* SV_SendClientGameState. *)
Gamestate(s) == Message(s, "gamestate")

(* SV_SendClientSnapshot, or SV_SendClientIdle while the level is loaded.  *)
(* A zombie gets snapshots.                                                *)
SV_SendClientMessages ==
  /\ ~garbled /\ state # "free"
  /\ down' = Sent(down, Message(sv, IF state \in {"connected", "primed"}
                                    THEN "idle" ELSE "snapshot"))
  /\ UNCHANGED <<serverVars, clientVars, up, garbled>>

(* Mutant: a repeated command is executed again. *)
AllTexts(msg) == msg.texts

(* SV_ClientCommand skips what it has executed. *)
NewTexts(msg) ==
  IF msg.first > lastClientCommand + 1 THEN <<>>
  ELSE SubSeq(msg.texts, lastClientCommand + 2 - msg.first, Len(msg.texts))

(* "Lost reliable commands". *)
Gap(msg) == msg.texts # <<>> /\ msg.first > lastClientCommand + 1

(* The commands of a message, by SV_ClientCommand, and then its moves: the *)
(* first puts a primed client into the world.                              *)
ClientCommands(msg, st, s) ==
  LET new == UpToDisconnect(NewTexts(msg))
  IN  IF Gap(msg)
      THEN /\ state' = "zombie" /\ sv' = Dropped(st, s)
           /\ UNCHANGED <<lastClientCommand, done>>
      ELSE /\ done' = done \o new
           /\ lastClientCommand' = lastClientCommand + Len(new)
           /\ IF Disconnects(new)
              THEN state' = "zombie" /\ sv' = Dropped(st, s)
              ELSE /\ sv' = s
                   /\ \/ state' = st
                      \/ st = "primed" /\ msg.serverId = serverId /\ state' = "active"

(* Mutant: the number acknowledged before counts. *)
DecodesWithTheOld(msg) == sv.reliableCommands[Slot(sv.reliableAcknowledge)] = msg.key

(* SV_Netchan_Decode. *)
ServerDecodes(msg) == sv.reliableCommands[Slot(msg.ack)] = msg.key

(* SV_PacketEvent and SV_ExecuteClientMessage.  Which of the messages of a *)
(* client in an old level shows that it missed the gamestate               *)
(* (messageAcknowledge > gamestateMessageNum) is left open.                *)
SV_ExecuteClientMessage(i) ==
  LET msg == up[i]
      s == Acknowledged(sv, msg.ack)
  IN  /\ ~garbled /\ state # "free"
      /\ up' = After(up, i)
      /\ IF state = "zombie" THEN UNCHANGED <<serverVars, down, garbled>>
         ELSE IF msg.ack < sv.reliableSequence - MAX_RELIABLE_COMMANDS
         THEN /\ sv' = Acknowledged(sv, sv.reliableSequence)
              /\ UNCHANGED <<state, lastClientCommand, done, serverId, down, garbled>>
         ELSE IF ~ServerDecodes(msg)
         THEN garbled' = TRUE /\ UNCHANGED <<serverVars, down>>
         ELSE /\ \/ /\ ClientCommands(msg, state, s)
                    /\ UNCHANGED down
                 \/ /\ msg.serverId # serverId
                    /\ ClientCommands(msg, "primed", s)
                    /\ down' = Sent(down, Gamestate(s))
              /\ UNCHANGED <<serverId, garbled>>
      /\ UNCHANGED clientVars

-----------------------------------------------------------------------------
(* The client's side. *)

(* Mutant: the last command is not acknowledged. *)
LatePacket(c) ==
  [ack |-> got.serverCommandSequence - 1,
   key |-> got.serverCommands[Slot(got.serverCommandSequence - 1)],
   first |-> c.reliableAcknowledge + 1, texts |-> Unacknowledged(c),
   serverId |-> level]

(* CL_WritePacket and CL_Netchan_Encode. *)
Packet(c) ==
  [ack |-> got.serverCommandSequence,
   key |-> got.serverCommands[Slot(got.serverCommandSequence)],
   first |-> c.reliableAcknowledge + 1, texts |-> Unacknowledged(c),
   serverId |-> level]

CL_WritePacket ==
  /\ ~garbled /\ mode = "running"
  /\ up' = Sent(up, Packet(cl))
  /\ UNCHANGED <<serverVars, clientVars, down, garbled>>

(* CL_AddReliableCommand; one more command is let in than the ring holds.  *)
TooMany(c) == Pending(c) > MAX_RELIABLE_COMMANDS

(* CL_Disconnect sends a last command.  If there is no room for it,        *)
(* Com_Error comes back to CL_Disconnect, and the second error ends the    *)
(* program.                                                                *)
CL_Disconnect(c) ==
  IF TooMany(c) THEN mode' = "crashed" /\ cl' = c /\ UNCHANGED up
  ELSE /\ mode' = "gone" /\ cl' = Stored(c, -1)
       /\ up' = Sent(up, Packet(Stored(c, -1)))

(* A command of the player. *)
CL_AddReliableCommand ==
  /\ ~garbled /\ mode = "running" /\ cl.reliableSequence < MaxClientCommands
  /\ IF TooMany(cl) THEN CL_Disconnect(cl)
     ELSE cl' = Stored(cl, 1) /\ UNCHANGED <<mode, up>>
  /\ UNCHANGED <<serverVars, got, snaps, heard, level, down, garbled>>

(* The player leaves, or the client no longer hears the server. *)
Leave ==
  /\ ~garbled /\ mode = "running"
  /\ CL_Disconnect(cl)
  /\ UNCHANGED <<serverVars, got, snaps, heard, level, down, garbled>>

(* CL_Netchan_Decode. *)
ClientDecodes(msg) == cl.reliableCommands[Slot(msg.last)] = msg.key

(* The number of the last command in a message. *)
LastOf(msg) == msg.first + Len(msg.texts) - 1

(* CL_ParseCommandString, for each command of a message it has not got.    *)
Parsed(msg) ==
  LET new == {n \in msg.first .. LastOf(msg) : n > got.serverCommandSequence}
      In(s) == {n \in new : Slot(n) = s}
  IN  [serverCommandSequence |->
         IF new = {} THEN got.serverCommandSequence ELSE LastOf(msg),
       serverCommands |-> [s \in Slots |->
         IF In(s) = {} THEN got.serverCommands[s]
         ELSE msg.texts[(CHOOSE n \in In(s) : \A k \in In(s) : k <= n) - msg.first + 1]]]

(* The number of the last command the server has executed. *)
Corrected(msg) ==
  IF msg.last < cl.reliableSequence - MAX_RELIABLE_COMMANDS
  THEN cl.reliableSequence ELSE msg.last

(* CL_ParseServerMessage, with CL_ParseGamestate. *)
CL_ParseServerMessage(i) ==
  LET msg == down[i]
      parsed == Parsed(msg)
  IN  /\ ~garbled /\ mode = "running"
      /\ down' = After(down, i)
      /\ IF ~ClientDecodes(msg) THEN garbled' = TRUE /\ UNCHANGED clientVars
         ELSE
            /\ cl' = Acknowledged(cl, Corrected(msg))
            /\ IF msg.kind = "gamestate"
               THEN /\ got' = [serverCommandSequence |-> msg.sequence,
                               serverCommands |-> parsed.serverCommands]
                    /\ level' = msg.serverId /\ snaps' = {}
               ELSE /\ got' = parsed
                    /\ snaps' = IF msg.kind = "snapshot"
                                THEN snaps \cup {parsed.serverCommandSequence} ELSE snaps
                    /\ UNCHANGED level
            /\ UNCHANGED <<mode, heard, garbled>>
      /\ UNCHANGED <<serverVars, up>>

(* CL_GetServerCommand cannot find the next command in the ring. *)
CycledOut == Len(heard) + 1 <= got.serverCommandSequence - MAX_RELIABLE_COMMANDS

(* CG_ExecuteNewServerCommands, as cgame passes to a snapshot: one by one, *)
(* up to a "disconnect".  cgame may skip snapshots.                        *)
CG_ExecuteNewServerCommands(n) ==
  LET texts == [i \in 1 .. (n - Len(heard)) |->
                  got.serverCommands[Slot(Len(heard) + i)]]
      new == UpToDisconnect(texts)
  IN  /\ ~garbled /\ mode = "running"
      /\ snaps' = {k \in snaps : k > n}
      /\ \/ /\ n <= Len(heard)
            /\ UNCHANGED <<mode, cl, heard, up>>
         \/ /\ n > Len(heard) /\ CycledOut
            /\ CL_Disconnect(cl) /\ UNCHANGED heard
         \/ /\ n > Len(heard) /\ ~CycledOut
            /\ heard' = heard \o new
            /\ IF Disconnects(new) THEN CL_Disconnect(cl)
               ELSE UNCHANGED <<mode, cl, up>>
      /\ UNCHANGED <<serverVars, got, level, down, garbled>>

-----------------------------------------------------------------------------
ServerNext ==
  \/ SV_AddServerCommand \/ SV_DropClient \/ SV_CheckTimeouts \/ NewLevel
  \/ SV_SendClientMessages
  \/ \E i \in DOMAIN up : SV_ExecuteClientMessage(i)

ClientNext ==
  \/ CL_AddReliableCommand \/ Leave \/ CL_WritePacket
  \/ \E i \in DOMAIN down : CL_ParseServerMessage(i)
  \/ \E n \in snaps : CG_ExecuteNewServerCommands(n)

Next == ServerNext \/ ClientNext

Spec == Init /\ [][Next]_vars

(* Both ends send and read in every frame; the network does not lose every *)
(* message; and of the messages of a client that has missed the gamestate  *)
(* some show it, of those of one that has it some hold moves.              *)
Progresses(i) ==
  /\ SV_ExecuteClientMessage(i)
  /\ IF up[i].serverId # serverId THEN down' # down
     ELSE Connected' => state' = "active"

FairSpec ==
  /\ Spec
  /\ WF_vars(SV_SendClientMessages) /\ WF_vars(CL_WritePacket)
  /\ WF_vars(\E i \in DOMAIN down : CL_ParseServerMessage(i))
  /\ SF_vars(\E i \in DOMAIN down : down[i].kind = "gamestate" /\ CL_ParseServerMessage(i))
  /\ SF_vars(\E i \in DOMAIN up : Progresses(i))
  /\ WF_vars(\E n \in snaps : CG_ExecuteNewServerCommands(n))

-----------------------------------------------------------------------------
TypeOK ==
  /\ state \in {"connected", "primed", "active", "zombie", "free"}
  /\ sv \in Sender /\ lastClientCommand \in Nat /\ done \in Seq(Int)
  /\ serverId \in Nat /\ mode \in {"running", "gone", "crashed"}
  /\ cl \in Sender /\ got \in Receiver /\ snaps \subseteq Nat /\ heard \in Seq(Int)
  /\ level \in Nat /\ down \in Seq(Downward) /\ up \in Seq(Upward)
  /\ garbled \in BOOLEAN

(* cgame executes the commands of the server, each once and in order, but  *)
(* for those whose text the server did not keep; and as long as the client *)
(* is not dropped it keeps them all (SV_AddServerCommand,                  *)
(* SV_UpdateServerCommandsToClient, CL_ParseCommandString,                 *)
(* CG_ExecuteNewServerCommands).                                           *)
HeardAsSent ==
  /\ \A n \in DOMAIN heard : heard[n] \in {n, -n} \/ n \in sv.lost
  /\ Connected => sv.lost = {}

(* The same of the commands of the client, but for those the client wrote  *)
(* over before the server had acknowledged them (SV_ClientCommand).        *)
DoneAsTyped ==
  \A n \in DOMAIN done : done[n] \in {n, -n} \/ n \in cl.lost

(* A connected client that follows the protocol never acknowledges a       *)
(* command the server has let go of, however old its messages are:         *)
(* SV_ExecuteClientMessage corrects "fux0red" numbers only.                *)
AcksStayInWindow ==
  Connected =>
    /\ Pending(sv) \in 0 .. MAX_RELIABLE_COMMANDS
    /\ \A i \in DOMAIN up :
         up[i].ack \in sv.reliableAcknowledge .. sv.reliableSequence

(* Unless the window is full, each end finds under the number a message    *)
(* acknowledges the text the other end encoded it with                     *)
(* (SV_Netchan_Decode, CL_Netchan_Decode).                                 *)
KeysAgreeBelowFull ==
  /\ Connected => \A i \in DOMAIN up :
       sv.reliableSequence - up[i].ack < MAX_RELIABLE_COMMANDS => ServerDecodes(up[i])
  /\ mode = "running" /\ cl.lost = {} => \A i \in DOMAIN down :
       cl.reliableSequence - down[i].last < MAX_RELIABLE_COMMANDS => ClientDecodes(down[i])

(* The texts of the server's ring are those the client has read: the key   *)
(* of a message is "the last received now acknowledged server command".    *)
KeysAgree == Connected => \A i \in DOMAIN up : ServerDecodes(up[i])

(* "if we would be losing an old command that hasn't been acknowledged, we *)
(* must drop the connection": what the server executes for the client is   *)
(* what the client typed.                                                  *)
NothingTypedIsLost == \A n \in DOMAIN done : done[n] \in {n, -n}

(* Every command of the server is executed by cgame, unless one end leaves *)
(* the other or the window fills up.                                       *)
SentIsHeard ==
  \A n \in 1 .. MaxServerCommands :
    Connected /\ sv.reliableSequence >= n
      ~> Len(heard) >= n \/ ~Connected \/ mode # "running" \/ garbled

(* The same of the commands of the client. *)
TypedIsDone ==
  \A n \in 1 .. MaxClientCommands :
    mode = "running" /\ cl.reliableSequence >= n
      ~> lastClientCommand >= n \/ ~Connected \/ mode # "running" \/ garbled
=============================================================================

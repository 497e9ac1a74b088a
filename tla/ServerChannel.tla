---------------------------- MODULE ServerChannel ----------------------------
(***************************************************************************)
(* The channel from the server to one of its clients: SV_Netchan_Transmit  *)
(* with the queue of messages that wait for a fragmented one, the frames   *)
(* that send fragment after fragment, a network that loses, duplicates,    *)
(* delays and reorders packets, and the client's end.                      *)
(*                                                                         *)
(* The contents of a message are its place in the order of the calls of    *)
(* SV_SendMessageToClient, its length and the client command it            *)
(* acknowledges.  Encoding is the choice of the key: the sequence number   *)
(* of the transmission and the text of a client command, which stands here *)
(* under its number.                                                       *)
(***************************************************************************)
EXTENDS Netchan

CONSTANTS
  Lengths,       \* the lengths of messages
  MaxMessages,   \* bound of this model: messages made
  MaxCommands    \* bound of this model: client commands received

ASSUME ServerChannelAssumption ==
  Lengths \subseteq Nat /\ Lengths # {} /\ MaxMessages \in Nat /\ MaxCommands \in Nat

VARIABLES
  chan,      \* client_t.netchan of the server, as a sender
  queue,     \* netchan_start_queue .. netchan_end_queue
  made,      \* how many messages SV_SendMessageToClient was called with
  command,   \* lastClientCommand, and lastClientCommandString with it
  net,       \* every packet ever sent: it may arrive at any time, again or never
  peer,      \* clc.netchan of the client, as a receiver
  read       \* the messages Netchan_Process has handed to the client

vars == <<chan, queue, made, command, net, peer, read>>

Message == [id : Nat, length : Lengths, ack : Nat]
Queued  == [msg : Message, lastClientCommandString : Nat]
Encoded == [id : Nat, length : Lengths, ack : Nat, keySequence : Nat, keyCommand : Nat]
Nothing == [id |-> 0, length |-> CHOOSE n \in Lengths : TRUE, ack |-> 0,
            keySequence |-> 0, keyCommand |-> 0]
Pieces  == [data : Encoded, start : Nat, length : Nat]
Packets == [sequence : Nat, fragmented : BOOLEAN, piece : Pieces]
Sender  == [outgoingSequence : Nat, unsentFragments : BOOLEAN,
            unsentFragmentStart : Nat, unsent : Encoded]
Receiver == [incomingSequence : Nat, fragmentSequence : Nat, fragmentLength : Nat,
             fragmentBuffer : Seq(Pieces)]

Init ==
  /\ chan = SenderSetup(Nothing) /\ queue = <<>> /\ made = 0 /\ command = 0
  /\ net = {} /\ peer = ReceiverSetup /\ read = <<>>

(* SV_Netchan_Encode with the command the message acknowledges. *)
SV_Netchan_Encode(msg, sequence, commandString) ==
  [id |-> msg.id, length |-> msg.length, ack |-> msg.ack,
   keySequence |-> sequence, keyCommand |-> commandString]

-----------------------------------------------------------------------------
(* SV_SendMessageToClient and SV_Netchan_Transmit: behind unsent fragments *)
(* the message is queued, and the next fragment goes out, even the last.   *)
SV_Netchan_Transmit(length) ==
  /\ made < MaxMessages
  /\ made' = made + 1
  /\ LET msg == [id |-> made + 1, length |-> length, ack |-> command]
         out == SV_Netchan_Encode(msg, chan.outgoingSequence, command)
     IN  IF chan.unsentFragments
         THEN /\ queue' = Append(queue, [msg |-> msg, lastClientCommandString |-> command])
              /\ net' = net \cup {FragmentPacket(chan)}
              /\ chan' = Netchan_TransmitNextFragment(chan)
         ELSE /\ net' = net \cup {TransmitPacket(chan, out)}
              /\ chan' = Netchan_Transmit(chan, out)
              /\ UNCHANGED queue
  /\ UNCHANGED <<command, peer, read>>

(* The while loop of SV_Netchan_TransmitNextFragment pops n messages of    *)
(* the queue: all of them, or up to the first that is fragmented.          *)
Pops(after, n) ==
  IF after.unsentFragments THEN n = 0
  ELSE /\ \A i \in 1 .. (n - 1) : queue[i].msg.length < FRAGMENT_SIZE
       /\ n < Len(queue) => n > 0 /\ queue[n].msg.length >= FRAGMENT_SIZE

(* Mutant: the key comes from the command received last. *)
EncodedLate(after, i) ==
  SV_Netchan_Encode(queue[i].msg, after.outgoingSequence + i - 1, command)

(* Mutant: the queue is a stack. *)
EncodedFromEnd(after, i) ==
  SV_Netchan_Encode(queue[Len(queue) + 1 - i].msg, after.outgoingSequence + i - 1,
                    queue[Len(queue) + 1 - i].lastClientCommandString)

(* The i-th message of the queue as the loop encodes it, and the channel   *)
(* it is transmitted on.                                                   *)
EncodedFromQueue(after, i) ==
  SV_Netchan_Encode(queue[i].msg, after.outgoingSequence + i - 1,
                    queue[i].lastClientCommandString)
Advanced(after, i) ==
  [outgoingSequence |-> after.outgoingSequence + i - 1,
   unsentFragments |-> after.unsentFragments,
   unsentFragmentStart |-> after.unsentFragmentStart, unsent |-> after.unsent]

(* SV_Netchan_TransmitNextFragment, which SV_SendClientMessages calls in   *)
(* place of a snapshot while there are unsent fragments.                   *)
SV_Netchan_TransmitNextFragment ==
  /\ chan.unsentFragments
  /\ LET after == Netchan_TransmitNextFragment(chan)
     IN  \E n \in 0 .. Len(queue) :
           /\ Pops(after, n)
           /\ net' = net \cup {FragmentPacket(chan)} \cup
                {TransmitPacket(Advanced(after, i), EncodedFromQueue(after, i)) : i \in 1 .. n}
           /\ chan' = IF n = 0 THEN after
                      ELSE Netchan_Transmit(Advanced(after, n), EncodedFromQueue(after, n))
           /\ queue' = SubSeq(queue, n + 1, Len(queue))
  /\ UNCHANGED <<made, command, peer, read>>

(* SV_ClientCommand: the next reliable command; what it makes the game do, *)
(* messages included, comes before lastClientCommand is set.               *)
SV_ClientCommand ==
  /\ command < MaxCommands
  /\ command' = command + 1
  /\ UNCHANGED <<chan, queue, made, net, peer, read>>

(* SV_FreeClient, when the client is dropped: SV_Netchan_FreeQueue.  The   *)
(* zombie still gets the unsent fragments and snapshots.                   *)
SV_FreeClient ==
  /\ queue' = <<>>
  /\ UNCHANGED <<chan, made, command, net, peer, read>>

(* CL_PacketEvent: a packet arrives at the client. *)
CL_Netchan_Process(p) ==
  /\ peer' = Netchan_Process(peer, p)
  /\ read' = IF Completes(peer, p)
             THEN Append(read, [number |-> p.sequence, pieces |-> Received(peer, p)])
             ELSE read
  /\ UNCHANGED <<chan, queue, made, command, net>>

Next ==
  \/ \E length \in Lengths : SV_Netchan_Transmit(length)
  \/ SV_Netchan_TransmitNextFragment
  \/ SV_ClientCommand
  \/ SV_FreeClient
  \/ \E p \in net : CL_Netchan_Process(p)

Spec == Init /\ [][Next]_vars

(* SV_Frame calls SV_SendClientMessages in every frame, for zombies too;   *)
(* the rate only delays a client's turn.  Nothing is assumed of the        *)
(* network.                                                                *)
FairSpec == Spec /\ WF_vars(SV_Netchan_TransmitNextFragment)

-----------------------------------------------------------------------------
TypeOK ==
  /\ chan \in Sender /\ queue \in Seq(Queued) /\ made \in Nat /\ command \in Nat
  /\ net \subseteq Packets /\ peer \in Receiver
  /\ read \in Seq([number : Nat, pieces : Seq(Pieces)])

(* The pieces, one behind the other, are the message and nothing else. *)
Whole(pieces, data) ==
  /\ pieces # <<>> /\ pieces[1].start = 0
  /\ \A i \in DOMAIN pieces : pieces[i].data = data
  /\ \A i \in DOMAIN pieces \ {1} :
       pieces[i].start = pieces[i - 1].start + pieces[i - 1].length
  /\ pieces[Len(pieces)].start + pieces[Len(pieces)].length = data.length

(* What the client reads is, whole, the message that was sent under that   *)
(* number, never parts of two, and the numbers increase: no message is     *)
(* read twice or after a later one, whatever the network does              *)
(* (Netchan_Process).                                                      *)
ReadsWholeMessages ==
  /\ \A i \in DOMAIN read : \E p \in net :
       p.sequence = read[i].number /\ Whole(read[i].pieces, p.piece.data)
  /\ \A i, j \in DOMAIN read : i < j => read[i].number < read[j].number

(* A message is decoded with the key it was encoded with: the sequence     *)
(* number it travels under and the text of the command it acknowledges,    *)
(* however long it waited in the queue (SV_Netchan_Encode,                 *)
(* CL_Netchan_Decode, and lastClientCommandString of netchan_buffer_t).    *)
DecodesWithItsKey ==
  \A i \in DOMAIN read : LET data == read[i].pieces[1].data
                         IN  /\ data.keySequence = read[i].number
                             /\ data.keyCommand = data.ack

(* The message sent under number n. *)
Sent(n) == (CHOOSE p \in net : p.sequence = n).piece.data

(* Every fragmented message is finished, whatever is queued behind it and  *)
(* whether or not the client is dropped (SV_SendClientMessages).           *)
FragmentsFinish ==
  \A n \in 1 .. MaxMessages :
    chan.unsentFragments /\ chan.outgoingSequence = n ~> chan.outgoingSequence > n

(* Messages are sent in the order in which they were handed over, as the   *)
(* comment at SV_Netchan_Transmit has it (buffer them and make sure they   *)
(* get sent in correct order).  The code breaks it: TLC refutes this with  *)
(* ServerChannelOrder.cfg.                                                 *)
SentInOrder ==
  \A p, q \in net : p.sequence < q.sequence => p.piece.data.id < q.piece.data.id

(* The message the pieces make up, or Nothing. *)
Assembled(pieces) == IF Whole(pieces, pieces[1].data) THEN pieces[1].data ELSE Nothing

(* A message before it was encoded. *)
Contents(data) == [id |-> data.id, length |-> data.length, ack |-> data.ack]

Channel == INSTANCE LossyChannel WITH
  Messages <- Message,
  sending <- IF chan.unsentFragments THEN <<Contents(chan.unsent)>> ELSE <<>>,
  waiting <- [i \in DOMAIN queue |-> queue[i].msg],
  wire <- [n \in 1 .. (chan.outgoingSequence - 1) |-> Contents(Sent(n))],
  last <- peer.incomingSequence,
  read <- [i \in DOMAIN read |-> Contents(Assembled(read[i].pieces))]

(* The two ends, the queue and the network together are a channel that     *)
(* loses messages but never mixes or repeats them, whose client reads them *)
(* in the order of their numbers, and whose queue is emptied in its order  *)
(* though later messages may overtake all of it (SV_Netchan_Transmit,      *)
(* SV_Netchan_TransmitNextFragment, SV_Netchan_FreeQueue, Netchan_Process).*)
ImplementsLossyChannel == Channel!Spec
=============================================================================

------------------------- MODULE ServerChannel_proof -------------------------
(***************************************************************************)
(* Proofs about the server's channel, for every fragment size, every set   *)
(* of lengths and any number of messages and client commands.              *)
(*                                                                         *)
(* The network keeps every packet ever sent, so what the client can be     *)
(* handed is a matter of the packets (NetOK) and of what the client holds  *)
(* of a message it has not read yet (PeerOK).                              *)
(***************************************************************************)
EXTENDS ServerChannel, TLAPS

Data(p) == p.piece.data

(* A packet carries a whole short message or one fragment, and a fragment  *)
(* that is shorter than the others is the last.                            *)
PieceOK(p) ==
  IF p.fragmented
  THEN p.piece.length # FRAGMENT_SIZE
         => p.piece.start + p.piece.length = Data(p).length
  ELSE p.piece.start = 0 /\ p.piece.length = Data(p).length

(* What is sent under a number n is one message, encoded for that number;  *)
(* the number in use is that of the message not all sent, and no packet    *)
(* that completes it is out.                                               *)
SentBefore(p, ch) ==
  \/ p.sequence < ch.outgoingSequence
  \/ /\ p.sequence = ch.outgoingSequence
     /\ ch.unsentFragments /\ p.fragmented /\ p.piece.length = FRAGMENT_SIZE
     /\ Data(p) = ch.unsent

PacketOK(p, ch) ==
  /\ p \in Packets /\ p.sequence # 0
  /\ PieceOK(p) /\ SentBefore(p, ch)
  /\ Data(p).keySequence = p.sequence /\ Data(p).keyCommand = Data(p).ack

SameMessage(p, q) ==
  p.sequence = q.sequence => Data(p) = Data(q) /\ p.fragmented = q.fragmented

(* Every number before the one in use has been sent. *)
Numbered(pks, ch) ==
  \A n \in 1 .. (ch.outgoingSequence - 1) : \E p \in pks : p.sequence = n

NetOK(pks, ch) ==
  /\ \A p \in pks : PacketOK(p, ch)
  /\ \A p, q \in pks : SameMessage(p, q)
  /\ Numbered(pks, ch)

(* The message being fragmented is the one its number belongs to, and no   *)
(* more of it is sent than there is.                                       *)
ChanOK(ch) ==
  /\ ch \in Sender /\ ch.outgoingSequence # 0
  /\ ch.unsentFragments =>
       /\ ch.unsentFragmentStart <= ch.unsent.length
       /\ ch.unsent.keySequence = ch.outgoingSequence
       /\ ch.unsent.keyCommand = ch.unsent.ack

(* Whatever waits in the queue was stored with the command it acknowledges. *)
QueueOK(qu) ==
  /\ qu \in Seq(Queued)
  /\ \A i \in DOMAIN qu : qu[i].lastClientCommandString = qu[i].msg.ack

(* Pieces one behind the other, of one message, up to end. *)
Run(pieces, data, end) ==
  /\ \A i \in DOMAIN pieces : pieces[i].data = data
  /\ \A i \in DOMAIN pieces \ {1} :
       pieces[i].start = pieces[i - 1].start + pieces[i - 1].length
  /\ IF pieces = <<>> THEN end = 0
     ELSE /\ pieces[1].start = 0
          /\ end = pieces[Len(pieces)].start + pieces[Len(pieces)].length

(* What the client has of the message numbered fragmentSequence is a       *)
(* beginning of it, and it never read a number it was not sent.            *)
PeerOK(pe, pks, ch) ==
  /\ pe \in Receiver /\ pe.incomingSequence < ch.outgoingSequence
  /\ \/ pe.fragmentBuffer = <<>> /\ pe.fragmentLength = 0
     \/ \E p \in pks : /\ p.sequence = pe.fragmentSequence
                       /\ Run(pe.fragmentBuffer, Data(p), pe.fragmentLength)

ReadEntryOK(e, pks) ==
  \E p \in pks : p.sequence = e.number /\ Whole(e.pieces, Data(p))

ReadOK(rd, pks, pe) ==
  /\ rd \in Seq([number : Nat, pieces : Seq(Pieces)])
  /\ \A i \in DOMAIN rd : ReadEntryOK(rd[i], pks) /\ rd[i].number <= pe.incomingSequence
  /\ \A i, j \in DOMAIN rd : i < j => rd[i].number < rd[j].number

IInv ==
  /\ ChanOK(chan) /\ QueueOK(queue) /\ made \in Nat /\ command \in Nat
  /\ NetOK(net, chan)
  /\ PeerOK(peer, net, chan) /\ ReadOK(read, net, peer)

-----------------------------------------------------------------------------
USE DEF Data

(* One more fragment of the message being sent. *)
LEMMA NextFragment ==
  ASSUME NEW ch, NEW pks, ChanOK(ch), NetOK(pks, ch), ch.unsentFragments
  PROVE  LET after == Netchan_TransmitNextFragment(ch)
         IN  /\ ChanOK(after) /\ NetOK(pks \cup {FragmentPacket(ch)}, after)
             /\ after.outgoingSequence >= ch.outgoingSequence
  <1> DEFINE after  == Netchan_TransmitNextFragment(ch)
             new    == FragmentPacket(ch)
             length == ch.unsent.length
             start  == ch.unsentFragmentStart
             end    == FragmentEnd(length, start)
  <1>1. /\ ch \in Sender /\ ch.outgoingSequence \in Nat /\ start \in Nat /\ length \in Nat
        /\ ch.unsent \in Encoded /\ start <= length /\ FRAGMENT_SIZE \in Nat \ {0}
    BY FragmentAssumption, ServerChannelAssumption DEF ChanOK, Sender, Encoded
  <1>2. /\ end \in Nat /\ end >= start /\ end <= length
        /\ end - start # FRAGMENT_SIZE => end = length
        /\ LastFragment(ch) <=> end - start # FRAGMENT_SIZE
    BY <1>1 DEF FragmentEnd, LastFragment
  <1>3. /\ after \in Sender /\ after.unsent = ch.unsent
        /\ after.unsentFragments <=> ~LastFragment(ch)
        /\ after.unsentFragmentStart = end
        /\ after.outgoingSequence = IF LastFragment(ch) THEN ch.outgoingSequence + 1
                                    ELSE ch.outgoingSequence
    <2>1. after.unsentFragments = ~LastFragment(ch)
      BY Zenon DEF Netchan_TransmitNextFragment
    <2>2. LastFragment(ch) \in BOOLEAN
      BY <1>1 DEF LastFragment
    <2>3. after.unsentFragments <=> ~LastFragment(ch)
      BY <2>1, <2>2, Zenon
    <2>4. /\ after.unsent = ch.unsent /\ after.unsentFragmentStart = end
          /\ after.outgoingSequence = IF LastFragment(ch) THEN ch.outgoingSequence + 1
                                      ELSE ch.outgoingSequence
      BY DEF Netchan_TransmitNextFragment
    <2>5. after \in Sender
      BY <1>1, <1>2, <2>2 DEF Netchan_TransmitNextFragment, Sender
    <2> QED
      BY <2>3, <2>4, <2>5
  <1>4. ChanOK(after)
    BY <1>1, <1>2, <1>3 DEF ChanOK
  <1>5. /\ new \in Packets /\ new.sequence = ch.outgoingSequence /\ new.fragmented
        /\ new.piece.data = ch.unsent /\ new.piece.start = start
        /\ new.piece.length = end - start
    BY <1>1, <1>2 DEF FragmentPacket, Piece, Packets, Pieces
  <1> HIDE DEF after, new, end
  <1>6. PacketOK(new, after)
    BY <1>1, <1>2, <1>3, <1>5 DEF PacketOK, PieceOK, SentBefore, ChanOK
  <1>7. \A p \in pks : PacketOK(p, after)
    <2> SUFFICES ASSUME NEW p \in pks PROVE SentBefore(p, after)
      BY DEF NetOK, PacketOK
    <2>1. SentBefore(p, ch) /\ p.sequence \in Nat
      BY DEF NetOK, PacketOK, Packets
    <2> QED
      BY <2>1, <1>1, <1>3 DEF SentBefore
  <1>8. \A p \in pks : SameMessage(p, new) /\ SameMessage(new, p)
    <2> SUFFICES ASSUME NEW p \in pks, p.sequence = new.sequence
                 PROVE  Data(p) = Data(new) /\ p.fragmented = new.fragmented
      BY DEF SameMessage
    <2>1. p.sequence = ch.outgoingSequence /\ SentBefore(p, ch) /\ p \in Packets
      BY <1>5 DEF NetOK, PacketOK
    <2>2. p.fragmented /\ Data(p) = ch.unsent
      BY <2>1, <1>1 DEF SentBefore
    <2> QED
      BY <2>1, <2>2, <1>5 DEF Packets
  <1>9. Numbered(pks \cup {new}, after)
    BY <1>1, <1>3, <1>5 DEF NetOK, Numbered
  <1>10. NetOK(pks \cup {new}, after)
    BY <1>6, <1>7, <1>8, <1>9 DEF NetOK, SameMessage
  <1>11. after.outgoingSequence >= ch.outgoingSequence
    BY <1>1, <1>3
  <1> QED
    BY <1>4, <1>10, <1>11 DEF after, new

(* A message is transmitted on a channel with nothing unsent. *)
LEMMA TransmitOne ==
  ASSUME NEW ch, NEW pks, ChanOK(ch), NetOK(pks, ch), ~ch.unsentFragments,
         NEW data \in Encoded,
         data.keySequence = ch.outgoingSequence, data.keyCommand = data.ack
  PROVE  LET after == Netchan_Transmit(ch, data)
         IN  /\ ChanOK(after) /\ NetOK(pks \cup {TransmitPacket(ch, data)}, after)
             /\ after.outgoingSequence >= ch.outgoingSequence
  <1>1. /\ ch \in Sender /\ ch.outgoingSequence \in Nat /\ data.length \in Nat
        /\ FRAGMENT_SIZE \in Nat \ {0}
    BY FragmentAssumption, ServerChannelAssumption DEF ChanOK, Sender, Encoded
  <1>2. \A p \in pks : p.sequence < ch.outgoingSequence
    BY DEF NetOK, PacketOK, SentBefore
  <1>3. CASE data.length >= FRAGMENT_SIZE
    <2> DEFINE loaded == Loaded(ch, data)
    <2>1. ChanOK(loaded) /\ loaded.unsentFragments
          /\ loaded.outgoingSequence = ch.outgoingSequence
      BY <1>1 DEF Loaded, ChanOK, Sender
    <2> HIDE DEF loaded
    <2>2. NetOK(pks, loaded)
      BY <1>2, <2>1 DEF NetOK, PacketOK, SentBefore, Numbered
    <2>3. LET after == Netchan_TransmitNextFragment(loaded)
          IN  /\ ChanOK(after) /\ NetOK(pks \cup {FragmentPacket(loaded)}, after)
              /\ after.outgoingSequence >= loaded.outgoingSequence
      BY <2>1, <2>2, NextFragment
    <2>4. /\ Netchan_Transmit(ch, data) = Netchan_TransmitNextFragment(loaded)
          /\ TransmitPacket(ch, data) = FragmentPacket(loaded)
      BY <1>3 DEF loaded, Netchan_Transmit, TransmitPacket
    <2> QED
      BY <2>1, <2>3, <2>4
  <1>4. CASE ~(data.length >= FRAGMENT_SIZE)
    <2> DEFINE after == Netchan_Transmit(ch, data)
               new   == TransmitPacket(ch, data)
    <2>1. /\ after \in Sender /\ after.outgoingSequence = ch.outgoingSequence + 1
          /\ after.unsentFragments = FALSE
      BY <1>1, <1>4 DEF Netchan_Transmit, Sender
    <2>2. /\ new \in Packets /\ new.sequence = ch.outgoingSequence
          /\ new.fragmented = FALSE /\ new.piece.data = data
          /\ new.piece.start = 0 /\ new.piece.length = data.length
      BY <1>1, <1>4 DEF TransmitPacket, Packets, Pieces, Piece
    <2> HIDE DEF after, new
    <2>3. ChanOK(after)
      BY <1>1, <2>1 DEF ChanOK
    <2>4. PacketOK(new, after)
      BY <1>1, <2>1, <2>2 DEF PacketOK, PieceOK, SentBefore, ChanOK
    <2>5. \A p \in pks : PacketOK(p, after)
      <3> SUFFICES ASSUME NEW p \in pks PROVE SentBefore(p, after)
        BY DEF NetOK, PacketOK
      <3> QED
        BY <1>1, <1>2, <2>1 DEF SentBefore, NetOK, PacketOK, Packets
    <2>6. \A p \in pks : p.sequence # new.sequence
      BY <1>1, <1>2, <2>2
    <2>7. Numbered(pks \cup {new}, after)
      BY <1>1, <2>1, <2>2 DEF NetOK, Numbered
    <2>8. NetOK(pks \cup {new}, after)
      BY <2>4, <2>5, <2>6, <2>7 DEF NetOK, SameMessage
    <2> QED
      BY <1>1, <2>1, <2>3, <2>8 DEF after, new
  <1> QED
    BY <1>3, <1>4

(* What the client holds and has read stays as good when more is sent.     *)
LEMMA MoreSent ==
  ASSUME NEW ch, NEW after, NEW pks, NEW more, pks \subseteq more,
         ChanOK(ch), ChanOK(after), after.outgoingSequence >= ch.outgoingSequence,
         NEW pe, PeerOK(pe, pks, ch), NEW rd, ReadOK(rd, pks, pe)
  PROVE  PeerOK(pe, more, after) /\ ReadOK(rd, more, pe)
  <1>1. pe.incomingSequence < after.outgoingSequence
    BY DEF PeerOK, ChanOK, Sender, Receiver
  <1>2. PeerOK(pe, more, after)
    BY <1>1 DEF PeerOK
  <1>3. ReadOK(rd, more, pe)
    BY DEF ReadOK, ReadEntryOK
  <1> QED
    BY <1>2, <1>3

-----------------------------------------------------------------------------
(* The queue is drained behind the last fragment: all popped messages but  *)
(* the last fit one packet, so they take one number each.                  *)
LEMMA Drain ==
  ASSUME NEW ch, NEW pks, ChanOK(ch), NetOK(pks, ch), QueueOK(queue),
         NEW n \in 1 .. Len(queue), ~ch.unsentFragments,
         \A i \in 1 .. (n - 1) : queue[i].msg.length < FRAGMENT_SIZE
  PROVE  LET after == Netchan_Transmit(Advanced(ch, n), EncodedFromQueue(ch, n))
             new   == {TransmitPacket(Advanced(ch, i), EncodedFromQueue(ch, i)) : i \in 1 .. n}
         IN  /\ ChanOK(after) /\ NetOK(pks \cup new, after)
             /\ after.outgoingSequence >= ch.outgoingSequence
  <1> DEFINE out(i) == EncodedFromQueue(ch, i)
             pkt(i) == TransmitPacket(Advanced(ch, i), out(i))
             last   == Advanced(ch, n)
             before == {pkt(i) : i \in 1 .. (n - 1)}
             new    == {pkt(i) : i \in 1 .. n}
  <1>1. /\ ch \in Sender /\ ch.outgoingSequence \in Nat \ {0} /\ Len(queue) \in Nat
        /\ FRAGMENT_SIZE \in Nat \ {0}
    BY FragmentAssumption DEF ChanOK, Sender, QueueOK
  <1>2. \A i \in 1 .. n : /\ out(i) \in Encoded
                          /\ out(i).keySequence = ch.outgoingSequence + i - 1
                          /\ out(i).keyCommand = out(i).ack
                          /\ out(i).length = queue[i].msg.length /\ out(i).length \in Nat
    <2> TAKE i \in 1 .. n
    <2>1. /\ queue[i] \in Queued /\ queue[i].lastClientCommandString = queue[i].msg.ack
          /\ i \in 1 .. Len(queue)
      BY <1>1 DEF QueueOK
    <2>2. /\ queue[i].msg.id \in Nat /\ queue[i].msg.length \in Lengths
          /\ queue[i].msg.ack \in Nat /\ queue[i].msg.length \in Nat
      BY <2>1, ServerChannelAssumption DEF Queued, Message
    <2>3. ch.outgoingSequence + i - 1 \in Nat
      BY <1>1
    <2>4. out(i) = [id |-> queue[i].msg.id, length |-> queue[i].msg.length,
                    ack |-> queue[i].msg.ack,
                    keySequence |-> ch.outgoingSequence + i - 1,
                    keyCommand |-> queue[i].msg.ack]
      BY <2>1 DEF EncodedFromQueue, SV_Netchan_Encode
    <2> QED
      BY <2>2, <2>3, <2>4 DEF Encoded
  <1>3. /\ ChanOK(last) /\ ~last.unsentFragments
        /\ last.outgoingSequence = ch.outgoingSequence + n - 1
    BY <1>1 DEF Advanced, ChanOK, Sender
  <1>4. \A i \in 1 .. (n - 1) :
          /\ pkt(i) \in Packets /\ pkt(i).sequence = ch.outgoingSequence + i - 1
          /\ pkt(i).fragmented = FALSE /\ pkt(i).piece.data = out(i)
          /\ pkt(i).piece.start = 0 /\ pkt(i).piece.length = out(i).length
    <2> TAKE i \in 1 .. (n - 1)
    <2> HIDE DEF out
    <2>0. i \in 1 .. n /\ queue[i].msg.length < FRAGMENT_SIZE
      BY <1>1
    <2>1. out(i) \in Encoded /\ out(i).length \in Nat /\ ~(out(i).length >= FRAGMENT_SIZE)
      BY <1>1, <1>2, <2>0
    <2> QED
      BY <1>1, <2>1 DEF TransmitPacket, Advanced, Packets, Pieces, Piece
  <1> HIDE DEF out, pkt, last
  <1>5. \A i \in 1 .. (n - 1) : PacketOK(pkt(i), last)
    <2> TAKE i \in 1 .. (n - 1)
    <2>1. ch.outgoingSequence + i - 1 < last.outgoingSequence
      BY <1>1, <1>3
    <2>2. SentBefore(pkt(i), last) /\ pkt(i).sequence # 0
      BY <1>1, <1>4, <2>1 DEF SentBefore
    <2>3. PieceOK(pkt(i))
      BY <1>4 DEF PieceOK
    <2>4. /\ pkt(i).piece.data.keySequence = pkt(i).sequence
          /\ pkt(i).piece.data.keyCommand = pkt(i).piece.data.ack
      BY <1>2, <1>4
    <2> QED
      BY <1>4, <2>2, <2>3, <2>4 DEF PacketOK
  <1>6. \A p \in pks : p.sequence < ch.outgoingSequence /\ p.sequence \in Nat
    BY DEF NetOK, PacketOK, SentBefore, Packets
  <1>7. \A p \in pks : PacketOK(p, last)
    <2> SUFFICES ASSUME NEW p \in pks PROVE SentBefore(p, last)
      BY DEF NetOK, PacketOK
    <2> QED
      BY <1>1, <1>3, <1>6 DEF SentBefore
  <1>8. \A i, j \in 1 .. (n - 1) : SameMessage(pkt(i), pkt(j))
    <2> TAKE i, j \in 1 .. (n - 1)
    <2>1. pkt(i).sequence = pkt(j).sequence => i = j
      BY <1>1, <1>4
    <2> QED
      BY <2>1 DEF SameMessage
  <1>9. \A p \in pks : \A i \in 1 .. (n - 1) :
          SameMessage(p, pkt(i)) /\ SameMessage(pkt(i), p)
    BY <1>1, <1>4, <1>6 DEF SameMessage
  <1>10. Numbered(pks \cup before, last)
    <2> SUFFICES ASSUME NEW m \in 1 .. (last.outgoingSequence - 1)
                 PROVE  \E p \in pks \cup before : p.sequence = m
      BY DEF Numbered
    <2>1. CASE m < ch.outgoingSequence
      BY <1>1, <2>1 DEF NetOK, Numbered
    <2>2. CASE ~(m < ch.outgoingSequence)
      <3> DEFINE i == m - ch.outgoingSequence + 1
      <3>1. i \in 1 .. (n - 1) /\ ch.outgoingSequence + i - 1 = m
        BY <1>1, <1>3, <2>2
      <3> HIDE DEF i
      <3>2. pkt(i) \in before /\ pkt(i).sequence = m
        BY <1>4, <3>1
      <3> QED
        BY <3>2
    <2> QED
      BY <2>1, <2>2
  <1>11. NetOK(pks \cup before, last)
    BY <1>5, <1>7, <1>8, <1>9, <1>10 DEF NetOK
  <1>12. LET after == Netchan_Transmit(last, out(n))
         IN  /\ ChanOK(after)
             /\ NetOK((pks \cup before) \cup {TransmitPacket(last, out(n))}, after)
             /\ after.outgoingSequence >= last.outgoingSequence
    BY <1>2, <1>3, <1>11, TransmitOne
  <1>13. (pks \cup before) \cup {pkt(n)} = pks \cup new
    BY <1>1
  <1>14. pkt(n) = TransmitPacket(last, out(n))
    BY DEF pkt, last
  <1>15. /\ Netchan_Transmit(last, out(n)).outgoingSequence >= ch.outgoingSequence
    BY <1>1, <1>3, <1>12 DEF ChanOK, Sender
  <1> QED
    BY <1>12, <1>13, <1>14, <1>15 DEF out, pkt, last

-----------------------------------------------------------------------------
(* The next piece of a message prolongs the run of those before it. *)
LEMMA RunAppend ==
  ASSUME NEW pieces \in Seq(Pieces), NEW data, NEW end \in Nat, Run(pieces, data, end),
         NEW piece \in Pieces, piece.data = data, piece.start = end
  PROVE  Run(Append(pieces, piece), data, end + piece.length)
  <1> DEFINE all == Append(pieces, piece)
             k   == Len(pieces)
  <1>1. /\ k \in Nat /\ Len(all) = k + 1 /\ DOMAIN all = 1 .. (k + 1)
        /\ \A i \in 1 .. k : all[i] = pieces[i]
        /\ all[k + 1] = piece /\ DOMAIN pieces = 1 .. k
    OBVIOUS
  <1>2. \A i \in 1 .. k : pieces[i] \in Pieces
    BY <1>1
  <1>3. all # <<>>
    BY <1>1
  <1> HIDE DEF all
  <1>4. \A i \in 1 .. (k + 1) : all[i].data = data
    BY <1>1 DEF Run
  <1>5. k # 0 => pieces[1].start = 0 /\ end = pieces[k].start + pieces[k].length
    BY <1>1 DEF Run
  <1>6. k = 0 => end = 0
    BY <1>1 DEF Run
  <1>7. all[1].start = 0
    BY <1>1, <1>5, <1>6
  <1>8. \A i \in (1 .. (k + 1)) \ {1} : all[i].start = all[i - 1].start + all[i - 1].length
    <2> TAKE i \in (1 .. (k + 1)) \ {1}
    <2>1. CASE i = k + 1
      BY <1>1, <1>5, <2>1
    <2>2. CASE i # k + 1
      <3>1. i \in DOMAIN pieces \ {1} /\ i \in 1 .. k /\ i - 1 \in 1 .. k
        BY <1>1, <2>2
      <3> QED
        BY <1>1, <3>1 DEF Run
    <2> QED
      BY <2>1, <2>2
  <1> QED
    BY <1>1, <1>3, <1>4, <1>7, <1>8 DEF Run, all

(* With the buffer emptied for another number, what is left in it belongs  *)
(* to the packet's message.                                                *)
LEMMA AlignedRun ==
  ASSUME NEW pe, PeerOK(pe, net, chan), NetOK(net, chan), ChanOK(chan), NEW p \in net
  PROVE  LET a == Aligned(pe, p.sequence)
         IN  /\ PeerOK(a, net, chan)
             /\ a.incomingSequence = pe.incomingSequence /\ a.fragmentSequence = p.sequence
             /\ Run(a.fragmentBuffer, Data(p), a.fragmentLength)
  <1> DEFINE a == Aligned(pe, p.sequence)
  <1>1. p \in Packets /\ p.sequence \in Nat /\ pe \in Receiver
    BY DEF NetOK, PacketOK, Packets, PeerOK
  <1>2. CASE pe.fragmentSequence = p.sequence
    <2>1. a = pe
      BY <1>2 DEF Aligned
    <2>2. CASE pe.fragmentBuffer = <<>> /\ pe.fragmentLength = 0
      BY <1>2, <2>1, <2>2 DEF Run
    <2>3. CASE \E q \in net : /\ q.sequence = pe.fragmentSequence
                              /\ Run(pe.fragmentBuffer, Data(q), pe.fragmentLength)
      <3>1. PICK q \in net : /\ q.sequence = pe.fragmentSequence
                             /\ Run(pe.fragmentBuffer, Data(q), pe.fragmentLength)
        BY <2>3
      <3>2. Data(q) = Data(p)
        BY <1>2, <3>1 DEF NetOK, SameMessage
      <3> QED
        BY <1>2, <2>1, <3>1, <3>2
    <2> QED
      BY <2>2, <2>3 DEF PeerOK
  <1>3. CASE pe.fragmentSequence # p.sequence
    <2>1. a = [incomingSequence |-> pe.incomingSequence, fragmentSequence |-> p.sequence,
               fragmentLength |-> 0, fragmentBuffer |-> <<>>]
      BY <1>3 DEF Aligned
    <2>2. a \in Receiver /\ a.incomingSequence = pe.incomingSequence
          /\ a.fragmentSequence = p.sequence /\ a.fragmentLength = 0
          /\ a.fragmentBuffer = <<>>
      BY <1>1, <2>1 DEF Receiver
    <2> QED
      BY <2>2 DEF PeerOK, Run
  <1> QED
    BY <1>2, <1>3

(* A message that is read adds an entry to what was read before. *)
LEMMA ReadOne ==
  ASSUME NEW pe, NEW after, NEW p \in net, NEW pieces \in Seq(Pieces),
         pe \in Receiver, after \in Receiver, p \in Packets, ReadOK(read, net, pe),
         p.sequence > pe.incomingSequence, after.incomingSequence = p.sequence,
         Whole(pieces, Data(p))
  PROVE  ReadOK(Append(read, [number |-> p.sequence, pieces |-> pieces]), net, after)
  <1> DEFINE e  == [number |-> p.sequence, pieces |-> pieces]
             rd == Append(read, e)
             k  == Len(read)
  <1>1. /\ p.sequence \in Nat /\ pe.incomingSequence \in Nat
        /\ e.number = p.sequence /\ e.pieces = pieces
        /\ e \in [number : Nat, pieces : Seq(Pieces)]
    BY DEF Packets, Receiver
  <1> HIDE DEF e
  <1>2. read \in Seq([number : Nat, pieces : Seq(Pieces)])
    BY DEF ReadOK
  <1>3. /\ rd \in Seq([number : Nat, pieces : Seq(Pieces)]) /\ k \in Nat
        /\ DOMAIN rd = 1 .. (k + 1) /\ DOMAIN read = 1 .. k
        /\ \A i \in 1 .. k : rd[i] = read[i] /\ read[i].number \in Nat
        /\ rd[k + 1] = e
    <2> DEFINE Entry == [number : Nat, pieces : Seq(Pieces)]
    <2>1. /\ \A x \in Entry : x.number \in Nat
          /\ e \in Entry /\ read \in Seq(Entry)
      BY <1>1, <1>2
    <2> HIDE DEF Entry
    <2>2. /\ rd \in Seq(Entry) /\ k \in Nat
          /\ DOMAIN rd = 1 .. (k + 1) /\ DOMAIN read = 1 .. k
          /\ \A i \in 1 .. k : rd[i] = read[i] /\ read[i] \in Entry
          /\ rd[k + 1] = e
      BY <2>1
    <2> QED
      BY <2>1, <2>2 DEF Entry
  <1> HIDE DEF rd
  <1>4. \A i \in 1 .. k : ReadEntryOK(read[i], net) /\ read[i].number <= pe.incomingSequence
    BY <1>3 DEF ReadOK
  <1>5. ReadEntryOK(e, net)
    BY <1>1 DEF ReadEntryOK
  <1>6. \A i \in 1 .. (k + 1) : ReadEntryOK(rd[i], net) /\ rd[i].number <= after.incomingSequence
    <2> TAKE i \in 1 .. (k + 1)
    <2>1. CASE i = k + 1
      BY <1>1, <1>3, <1>5, <2>1
    <2>2. CASE i # k + 1
      <3>1. i \in 1 .. k
        BY <1>3, <2>2
      <3>2. /\ rd[i] = read[i] /\ read[i].number \in Nat
            /\ ReadEntryOK(read[i], net) /\ read[i].number <= pe.incomingSequence
        BY <1>3, <1>4, <3>1
      <3>3. read[i].number <= after.incomingSequence
        BY <1>1, <3>2
      <3> QED
        BY <3>2, <3>3
    <2> QED
      BY <2>1, <2>2
  <1>7. \A i, j \in 1 .. (k + 1) : i < j => rd[i].number < rd[j].number
    <2> TAKE i, j \in 1 .. (k + 1)
    <2> HAVE i < j
    <2>1. i \in 1 .. k
      BY <1>3
    <2>2. CASE j = k + 1
      BY <1>1, <1>3, <1>4, <2>1, <2>2
    <2>3. CASE j # k + 1
      <3>1. j \in 1 .. k
        BY <1>3, <2>3
      <3> QED
        BY <1>3, <2>1, <3>1 DEF ReadOK
    <2> QED
      BY <2>2, <2>3
  <1> QED
    BY <1>3, <1>6, <1>7 DEF ReadOK, rd, e

(* A packet arrives. *)
LEMMA Receive ==
  ASSUME IInv, NEW p \in net, CL_Netchan_Process(p)
  PROVE  PeerOK(peer', net, chan) /\ ReadOK(read', net, peer')
  <1> DEFINE a == Aligned(peer, p.sequence)
  <1>1. /\ PeerOK(peer, net, chan) /\ ReadOK(read, net, peer) /\ NetOK(net, chan)
        /\ ChanOK(chan) /\ peer \in Receiver /\ chan \in Sender
        /\ FRAGMENT_SIZE \in Nat \ {0}
    BY FragmentAssumption DEF IInv, PeerOK, ChanOK
  <1>2. /\ PacketOK(p, chan) /\ p \in Packets /\ p.sequence \in Nat /\ p.piece \in Pieces
        /\ p.piece.start \in Nat /\ p.piece.length \in Nat /\ p.fragmented \in BOOLEAN
    BY <1>1 DEF NetOK, PacketOK, Packets, Pieces
  <1>3. /\ PeerOK(a, net, chan) /\ a \in Receiver
        /\ a.incomingSequence = peer.incomingSequence /\ a.fragmentSequence = p.sequence
        /\ Run(a.fragmentBuffer, Data(p), a.fragmentLength)
        /\ a.fragmentBuffer \in Seq(Pieces) /\ a.fragmentLength \in Nat
    BY <1>1, AlignedRun DEF PeerOK, Receiver
  <1>4. /\ peer' = Netchan_Process(peer, p)
        /\ read' = IF Completes(peer, p)
                   THEN Append(read, [number |-> p.sequence, pieces |-> Received(peer, p)])
                   ELSE read
    BY DEF CL_Netchan_Process
  <1> HIDE DEF a
  <1>5. CASE ~IsNew(peer, p)
    BY <1>1, <1>4, <1>5 DEF Netchan_Process, Completes
  <1>6. CASE IsNew(peer, p) /\ ~p.fragmented
    <2>1. /\ p.piece.start = 0 /\ p.piece.length = Data(p).length
          /\ p.sequence < chan.outgoingSequence
      BY <1>2, <1>6 DEF PacketOK, PieceOK, SentBefore
    <2>2. Completes(peer, p) /\ Received(peer, p) = <<p.piece>>
      BY <1>6 DEF Completes, Received
    <2>3. peer' = [incomingSequence |-> p.sequence, fragmentSequence |-> peer.fragmentSequence,
                   fragmentLength |-> peer.fragmentLength,
                   fragmentBuffer |-> peer.fragmentBuffer]
      BY <1>4, <1>6 DEF Netchan_Process
    <2>4. /\ peer' \in Receiver /\ peer'.incomingSequence = p.sequence
          /\ peer'.fragmentSequence = peer.fragmentSequence
          /\ peer'.fragmentLength = peer.fragmentLength
          /\ peer'.fragmentBuffer = peer.fragmentBuffer
      BY <1>1, <1>2, <2>3 DEF Receiver
    <2>5. PeerOK(peer', net, chan)
      BY <1>1, <2>1, <2>4 DEF PeerOK
    <2>6. <<p.piece>> \in Seq(Pieces) /\ Whole(<<p.piece>>, Data(p))
      BY <1>2, <2>1 DEF Whole
    <2>7. ReadOK(Append(read, [number |-> p.sequence, pieces |-> <<p.piece>>]), net, peer')
      BY <1>1, <1>2, <1>6, <2>4, <2>6, ReadOne DEF IsNew
    <2> QED
      BY <1>4, <2>2, <2>5, <2>7
  <1>7. CASE IsNew(peer, p) /\ p.fragmented /\ ~Fits(peer, p)
    <2>1. peer' = a /\ read' = read
      BY <1>4, <1>7 DEF Netchan_Process, Completes, a
    <2>2. ReadOK(read, net, a)
      BY <1>1, <1>3 DEF ReadOK
    <2> QED
      BY <1>3, <2>1, <2>2
  <1>8. CASE IsNew(peer, p) /\ p.fragmented /\ Fits(peer, p)
    <2> DEFINE pieces == Append(a.fragmentBuffer, p.piece)
    <2>1. p.piece.start = a.fragmentLength
      BY <1>8 DEF Fits, a
    <2>2. /\ pieces \in Seq(Pieces) /\ pieces # <<>>
          /\ Run(pieces, Data(p), a.fragmentLength + p.piece.length)
      BY <1>2, <1>3, <2>1, RunAppend
    <2> HIDE DEF pieces
    <2>3. CASE p.piece.length # FRAGMENT_SIZE
      <3>1. /\ p.piece.start + p.piece.length = Data(p).length
            /\ p.sequence < chan.outgoingSequence
        BY <1>2, <1>8, <2>3 DEF PacketOK, PieceOK, SentBefore
      <3>2. Completes(peer, p) /\ Received(peer, p) = pieces
        BY <1>8, <2>3 DEF Completes, Received, a, pieces
      <3>3. peer' = [incomingSequence |-> p.sequence, fragmentSequence |-> a.fragmentSequence,
                     fragmentLength |-> 0, fragmentBuffer |-> <<>>]
        BY <1>4, <1>8, <3>2 DEF Netchan_Process, a
      <3>4. /\ peer' \in Receiver /\ peer'.incomingSequence = p.sequence
            /\ peer'.fragmentLength = 0 /\ peer'.fragmentBuffer = <<>>
        BY <1>2, <1>3, <3>3 DEF Receiver
      <3>5. PeerOK(peer', net, chan)
        BY <3>1, <3>4 DEF PeerOK
      <3>6. Whole(pieces, Data(p))
        BY <2>1, <2>2, <3>1 DEF Run, Whole
      <3>7. ReadOK(Append(read, [number |-> p.sequence, pieces |-> pieces]), net, peer')
        BY <1>1, <1>2, <1>8, <2>2, <3>4, <3>6, ReadOne DEF IsNew
      <3> QED
        BY <1>4, <3>2, <3>5, <3>7
    <2>4. CASE p.piece.length = FRAGMENT_SIZE
      <3>1. ~Completes(peer, p)
        BY <1>8, <2>4 DEF Completes
      <3>2. peer' = [incomingSequence |-> peer.incomingSequence,
                     fragmentSequence |-> a.fragmentSequence,
                     fragmentLength |-> a.fragmentLength + p.piece.length,
                     fragmentBuffer |-> pieces]
        BY <1>4, <1>8, <3>1 DEF Netchan_Process, a, pieces
      <3>3. /\ peer' \in Receiver /\ peer'.incomingSequence = peer.incomingSequence
            /\ peer'.fragmentSequence = p.sequence /\ peer'.fragmentBuffer = pieces
            /\ peer'.fragmentLength = a.fragmentLength + p.piece.length
        BY <1>1, <1>2, <1>3, <2>2, <3>2 DEF Receiver
      <3>4. PeerOK(peer', net, chan)
        BY <1>1, <2>2, <3>3 DEF PeerOK
      <3>5. ReadOK(read, net, peer')
        BY <1>1, <3>3 DEF ReadOK
      <3> QED
        BY <1>4, <3>1, <3>4, <3>5
    <2> QED
      BY <2>3, <2>4
  <1> QED
    BY <1>5, <1>6, <1>7, <1>8

-----------------------------------------------------------------------------
(* IInv holds initially ... *)
LEMMA InitIInv == Init => IInv
  <1> SUFFICES ASSUME Init PROVE IInv
    OBVIOUS
  <1>1. Nothing \in Encoded
    BY ServerChannelAssumption DEF Nothing, Encoded
  <1>2. /\ chan \in Sender /\ chan.outgoingSequence = 1 /\ chan.unsentFragments = FALSE
    BY <1>1 DEF Init, SenderSetup, Sender
  <1>3. /\ peer \in Receiver /\ peer.incomingSequence = 0 /\ peer.fragmentLength = 0
        /\ peer.fragmentBuffer = <<>>
    BY DEF Init, ReceiverSetup, Receiver
  <1>4. ChanOK(chan)
    BY <1>2 DEF ChanOK
  <1>5. QueueOK(queue)
    BY DEF Init, QueueOK
  <1>6. NetOK(net, chan)
    BY <1>2 DEF Init, NetOK, Numbered
  <1>7. PeerOK(peer, net, chan)
    BY <1>2, <1>3 DEF PeerOK
  <1>8. ReadOK(read, net, peer)
    BY DEF Init, ReadOK
  <1> QED
    BY <1>4, <1>5, <1>6, <1>7, <1>8 DEF Init, IInv

(* ... and every step preserves it. *)
LEMMA NextIInv == IInv /\ [Next]_vars => IInv'
  <1> SUFFICES ASSUME IInv, [Next]_vars PROVE IInv'
    OBVIOUS
  <1>0. /\ ChanOK(chan) /\ QueueOK(queue) /\ made \in Nat /\ command \in Nat
        /\ NetOK(net, chan) /\ PeerOK(peer, net, chan) /\ ReadOK(read, net, peer)
    BY DEF IInv
  <1>1. ASSUME NEW length \in Lengths, SV_Netchan_Transmit(length)
        PROVE  IInv'
    <2> DEFINE msg == [id |-> made + 1, length |-> length, ack |-> command]
               out == SV_Netchan_Encode(msg, chan.outgoingSequence, command)
    <2>1. /\ made' = made + 1 /\ command' = command /\ peer' = peer /\ read' = read
          /\ chan.unsentFragments =>
               /\ queue' = Append(queue, [msg |-> msg, lastClientCommandString |-> command])
               /\ net' = net \cup {FragmentPacket(chan)}
               /\ chan' = Netchan_TransmitNextFragment(chan)
          /\ ~chan.unsentFragments =>
               /\ net' = net \cup {TransmitPacket(chan, out)}
               /\ chan' = Netchan_Transmit(chan, out) /\ queue' = queue
      BY <1>1 DEF SV_Netchan_Transmit
    <2>2. /\ msg \in Message /\ msg.ack = command
          /\ out \in Encoded /\ out.keySequence = chan.outgoingSequence
          /\ out.keyCommand = out.ack
      BY <1>0, ServerChannelAssumption
      DEF Message, Encoded, SV_Netchan_Encode, ChanOK, Sender
    <2> HIDE DEF msg, out
    <2>3. /\ ChanOK(chan') /\ NetOK(net', chan') /\ net \subseteq net'
          /\ chan'.outgoingSequence >= chan.outgoingSequence
      BY <1>0, <2>1, <2>2, NextFragment, TransmitOne
    <2>4. QueueOK(queue')
      <3> DEFINE item == [msg |-> msg, lastClientCommandString |-> command]
      <3>1. item \in Queued /\ item.lastClientCommandString = item.msg.ack
        BY <1>0, <2>2 DEF Queued
      <3> HIDE DEF item
      <3>2. QueueOK(Append(queue, item))
        BY <1>0, <3>1 DEF QueueOK
      <3> QED
        BY <1>0, <2>1, <3>2 DEF item
    <2>5. PeerOK(peer', net', chan') /\ ReadOK(read', net', peer')
      BY <1>0, <2>1, <2>3, MoreSent
    <2> QED
      BY <1>0, <2>1, <2>3, <2>4, <2>5 DEF IInv
  <1>2. ASSUME SV_Netchan_TransmitNextFragment
        PROVE  IInv'
    <2> DEFINE after == Netchan_TransmitNextFragment(chan)
               sent  == net \cup {FragmentPacket(chan)}
    <2>1. PICK n \in 0 .. Len(queue) :
            /\ chan.unsentFragments /\ Pops(after, n)
            /\ net' = sent \cup
                 {TransmitPacket(Advanced(after, i), EncodedFromQueue(after, i)) : i \in 1 .. n}
            /\ chan' = IF n = 0 THEN after
                       ELSE Netchan_Transmit(Advanced(after, n), EncodedFromQueue(after, n))
            /\ queue' = SubSeq(queue, n + 1, Len(queue))
            /\ UNCHANGED <<made, command, peer, read>>
      BY <1>2 DEF SV_Netchan_TransmitNextFragment
    <2>2. /\ ChanOK(after) /\ NetOK(sent, after)
          /\ after.outgoingSequence >= chan.outgoingSequence
      BY <1>0, <2>1, NextFragment
    <2> HIDE DEF after, sent
    <2>3. /\ ChanOK(chan') /\ NetOK(net', chan') /\ sent \subseteq net'
          /\ chan'.outgoingSequence >= after.outgoingSequence
      <3>1. CASE n = 0
        <4>1. 1 .. n = {}
          BY <3>1
        <4>2. net' = sent
          BY <2>1, <4>1, Zenon
        <4>3. chan' = after
          BY <2>1, <3>1
        <4> QED
          BY <2>2, <4>2, <4>3 DEF ChanOK, Sender
      <3>2. CASE n # 0
        <4>1. /\ n \in 1 .. Len(queue) /\ ~after.unsentFragments
              /\ \A i \in 1 .. (n - 1) : queue[i].msg.length < FRAGMENT_SIZE
          BY <1>0, <2>1, <3>2 DEF Pops, QueueOK
        <4> DEFINE last == Netchan_Transmit(Advanced(after, n), EncodedFromQueue(after, n))
                   new  == {TransmitPacket(Advanced(after, i), EncodedFromQueue(after, i)) :
                              i \in 1 .. n}
        <4>2. /\ ChanOK(last) /\ NetOK(sent \cup new, last)
              /\ last.outgoingSequence >= after.outgoingSequence
          BY <1>0, <2>2, <4>1, Drain
        <4>3. net' = sent \cup new /\ chan' = last
          BY <2>1, <3>2
        <4> HIDE DEF last, new
        <4> QED
          BY <4>2, <4>3
      <3> QED
        BY <3>1, <3>2
    <2>4. QueueOK(queue')
      BY <1>0, <2>1 DEF QueueOK
    <2>5. chan'.outgoingSequence >= chan.outgoingSequence /\ net \subseteq net'
      BY <1>0, <2>2, <2>3 DEF sent, ChanOK, Sender
    <2>6. peer' = peer /\ read' = read
      BY <2>1
    <2>7. PeerOK(peer, net', chan') /\ ReadOK(read, net', peer)
      BY <1>0, <2>3, <2>5, MoreSent
    <2> QED
      BY <1>0, <2>1, <2>3, <2>4, <2>6, <2>7 DEF IInv
  <1>3. ASSUME SV_ClientCommand
        PROVE  IInv'
    BY <1>0, <1>3 DEF SV_ClientCommand, IInv
  <1>4. ASSUME SV_FreeClient
        PROVE  IInv'
    <2>1. QueueOK(<<>>)
      BY DEF QueueOK
    <2> QED
      BY <1>0, <1>4, <2>1 DEF SV_FreeClient, IInv
  <1>5. ASSUME NEW p \in net, CL_Netchan_Process(p)
        PROVE  IInv'
    <2>1. PeerOK(peer', net, chan) /\ ReadOK(read', net, peer')
      BY <1>5, Receive
    <2>2. UNCHANGED <<chan, queue, made, command, net>>
      BY <1>5 DEF CL_Netchan_Process
    <2> QED
      BY <1>0, <2>1, <2>2 DEF IInv
  <1>6. CASE UNCHANGED vars
    BY <1>0, <1>6 DEF vars, IInv
  <1> QED
    BY <1>1, <1>2, <1>3, <1>4, <1>5, <1>6 DEF Next

LEMMA SpecIInv == Spec => []IInv
  BY InitIInv, NextIInv, PTL DEF Spec

(* For every fragment size and all lengths, whatever the network loses,    *)
(* repeats or reorders, the client reads whole messages, each at most once *)
(* and in the order of their numbers.                                      *)
THEOREM ChannelReadsWholeMessages == Spec => []ReadsWholeMessages
  <1>1. IInv => ReadsWholeMessages
    BY DEF IInv, ReadOK, ReadEntryOK, ReadsWholeMessages
  <1> QED
    BY SpecIInv, <1>1, PTL

(* For every fragment size and all lengths, what the client reads was      *)
(* encoded with the key it decodes it with, also when it waited in the     *)
(* queue while commands arrived and other messages were numbered.          *)
THEOREM ChannelKeysMatch == Spec => []DecodesWithItsKey
  <1>1. IInv => DecodesWithItsKey
    <2> SUFFICES ASSUME IInv, NEW i \in DOMAIN read
                 PROVE  /\ read[i].pieces[1].data.keySequence = read[i].number
                        /\ read[i].pieces[1].data.keyCommand = read[i].pieces[1].data.ack
      BY DEF DecodesWithItsKey
    <2>1. read[i].pieces \in Seq(Pieces)
      <3> DEFINE Entry == [number : Nat, pieces : Seq(Pieces)]
      <3>1. read \in Seq(Entry)
        BY DEF IInv, ReadOK
      <3>2. \A e \in Entry : e.pieces \in Seq(Pieces)
        OBVIOUS
      <3> HIDE DEF Entry
      <3> QED
        BY <3>1, <3>2
    <2>2. PICK p \in net : p.sequence = read[i].number /\ Whole(read[i].pieces, Data(p))
      BY DEF IInv, ReadOK, ReadEntryOK
    <2>3. read[i].pieces[1].data = Data(p)
      BY <2>1, <2>2 DEF Whole
    <2>4. PacketOK(p, chan)
      BY DEF IInv, NetOK
    <2> QED
      BY <2>2, <2>3, <2>4 DEF PacketOK
  <1> QED
    BY SpecIInv, <1>1, PTL

(* Both ends, the queue and the network keep their types for all constants. *)
THEOREM ChannelTypes == Spec => []TypeOK
  <1>1. IInv => TypeOK
    BY DEF IInv, ChanOK, QueueOK, NetOK, PacketOK, PeerOK, ReadOK, TypeOK
  <1> QED
    BY SpecIInv, <1>1, PTL

-----------------------------------------------------------------------------
(* What was sent under a number is what any packet of that number carries, *)
(* and stays so.                                                           *)
LEMMA SentIs ==
  ASSUME IInv, NEW p \in net
  PROVE  Sent(p.sequence) = Data(p)
  BY DEF Sent, IInv, NetOK, SameMessage

LEMMA SentIsKept ==
  ASSUME IInv, IInv', net \subseteq net', NEW n \in 1 .. (chan.outgoingSequence - 1)
  PROVE  Sent(n)' = Sent(n)
  <1>1. PICK p \in net : p.sequence = n
    BY DEF IInv, NetOK, Numbered
  <1>2. Sent(n) = Data(p)
    BY <1>1, SentIs
  <1>3. \A q \in net' : q.sequence = n => Data(q) = Data(p)
    BY <1>1 DEF IInv, NetOK, SameMessage
  <1>4. Sent(n)' = (CHOOSE q \in net' : q.sequence = n).piece.data
    BY DEF Sent
  <1>5. (CHOOSE q \in net' : q.sequence = n) \in net'
          /\ (CHOOSE q \in net' : q.sequence = n).sequence = n
    BY <1>1
  <1> QED
    BY <1>2, <1>3, <1>4, <1>5

(* The refinement mapping. *)
Sending == IF chan.unsentFragments THEN <<Contents(chan.unsent)>> ELSE <<>>
Waiting == [i \in DOMAIN queue |-> queue[i].msg]
Wire    == [n \in 1 .. (chan.outgoingSequence - 1) |-> Contents(Sent(n))]
Reads   == [i \in DOMAIN read |-> Contents(Assembled(read[i].pieces))]

LEMMA MappingTypes ==
  ASSUME IInv
  PROVE  /\ Wire \in Seq(Message) /\ Len(Wire) = chan.outgoingSequence - 1
         /\ chan.outgoingSequence \in Nat \ {0}
         /\ Waiting \in Seq(Message) /\ Len(Waiting) = Len(queue)
         /\ chan.unsentFragments => Contents(chan.unsent) \in Message
  <1>1. chan.outgoingSequence \in Nat \ {0} /\ chan.unsent \in Encoded
    BY DEF IInv, ChanOK, Sender
  <1>2. \A e \in Encoded : Contents(e) \in Message
    BY DEF Encoded, Contents, Message
  <1>3. \A n \in 1 .. (chan.outgoingSequence - 1) : Contents(Sent(n)) \in Message
    <2> TAKE n \in 1 .. (chan.outgoingSequence - 1)
    <2>1. PICK p \in net : p.sequence = n
      BY DEF IInv, NetOK, Numbered
    <2>2. p \in Packets
      BY DEF IInv, NetOK, PacketOK
    <2>3. Sent(n) \in Encoded
      BY <2>1, <2>2, SentIs DEF Packets, Pieces
    <2> QED
      BY <1>2, <2>3
  <1>4. Waiting \in Seq(Message) /\ Len(Waiting) = Len(queue)
    <2>1. queue \in Seq(Queued) /\ \A e \in Queued : e.msg \in Message
      BY DEF IInv, QueueOK, Queued
    <2> QED
      BY <2>1 DEF Waiting
  <1> QED
    BY <1>1, <1>2, <1>3, <1>4 DEF Wire

(* A sequence is one behind another if its elements are theirs. *)
LEMMA ConcatIs ==
  ASSUME NEW S, NEW front \in Seq(S), NEW back \in Seq(S), NEW all \in Seq(S),
         Len(all) = Len(front) + Len(back),
         \A i \in 1 .. Len(front) : all[i] = front[i],
         \A i \in 1 .. Len(back) : all[Len(front) + i] = back[i]
  PROVE  all = front \o back
  <1> DEFINE both == front \o back
  <1>1. /\ both \in Seq(S) /\ Len(both) = Len(front) + Len(back)
        /\ Len(front) \in Nat /\ Len(back) \in Nat
        /\ \A i \in 1 .. Len(both) :
             both[i] = IF i <= Len(front) THEN front[i] ELSE back[i - Len(front)]
    OBVIOUS
  <1> HIDE DEF both
  <1>2. \A i \in 1 .. Len(both) : all[i] = both[i]
    <2> TAKE i \in 1 .. Len(both)
    <2>1. CASE i <= Len(front)
      BY <1>1, <2>1
    <2>2. CASE ~(i <= Len(front))
      <3> DEFINE j == i - Len(front)
      <3>1. j \in 1 .. Len(back) /\ i = Len(front) + j
        BY <1>1, <2>2
      <3> HIDE DEF j
      <3>2. all[i] = back[j]
        BY <3>1
      <3>3. both[i] = back[i - Len(front)]
        BY <1>1, <2>2
      <3> QED
        BY <3>2, <3>3 DEF j
    <2> QED
      BY <2>1, <2>2
  <1> QED
    BY <1>1, <1>2 DEF both

(* When the server sends, what was on the wire stays there, and the        *)
(* messages more that were sent are behind it.                             *)
LEMMA WireGrows ==
  ASSUME IInv, IInv', net \subseteq net', NEW more \in Seq(Message),
         chan'.outgoingSequence = chan.outgoingSequence + Len(more),
         \A i \in 1 .. Len(more) : \E p \in net' :
           /\ p.sequence = chan.outgoingSequence + i - 1
           /\ Contents(Data(p)) = more[i]
  PROVE  Wire' = Wire \o more
  <1>1. /\ Wire \in Seq(Message) /\ Len(Wire) = chan.outgoingSequence - 1
        /\ chan.outgoingSequence \in Nat \ {0} /\ Len(more) \in Nat
    BY MappingTypes
  <1>2. /\ Wire' \in Seq(Message) /\ Len(Wire') = chan'.outgoingSequence - 1
        /\ chan'.outgoingSequence \in Nat \ {0}
    <2>1. (IInv => /\ Wire \in Seq(Message) /\ Len(Wire) = chan.outgoingSequence - 1
                   /\ chan.outgoingSequence \in Nat \ {0})'
      BY MappingTypes, PTL
    <2> QED
      BY <2>1
  <1>3. \A n \in 1 .. Len(Wire) : Wire'[n] = Wire[n]
    <2> TAKE n \in 1 .. Len(Wire)
    <2>1. n \in 1 .. (chan.outgoingSequence - 1) /\ n \in 1 .. (chan'.outgoingSequence - 1)
      BY <1>1, <1>2
    <2>2. Sent(n)' = Sent(n)
      BY <2>1, SentIsKept
    <2> QED
      BY <2>1, <2>2 DEF Wire, Contents
  <1>4. \A i \in 1 .. Len(more) : Wire'[Len(Wire) + i] = more[i]
    <2> TAKE i \in 1 .. Len(more)
    <2> DEFINE n == chan.outgoingSequence + i - 1
    <2>1. PICK p \in net' : p.sequence = n /\ Contents(Data(p)) = more[i]
      OBVIOUS
    <2>2. \A q \in net' : q.sequence = n => Data(q) = Data(p)
      BY <2>1 DEF IInv, NetOK, SameMessage
    <2>3. n \in 1 .. (chan'.outgoingSequence - 1) /\ n = Len(Wire) + i
      BY <1>1, <1>2
    <2> HIDE DEF n
    <2>4. /\ (CHOOSE q \in net' : q.sequence = n) \in net'
          /\ (CHOOSE q \in net' : q.sequence = n).sequence = n
      BY <2>1
    <2>5. (CHOOSE q \in net' : q.sequence = n).piece.data = Data(p)
      BY <2>2, <2>4
    <2>6. Wire'[n] = Contents((CHOOSE q \in net' : q.sequence = n).piece.data)
      BY <2>3 DEF Wire, Sent, Contents
    <2> QED
      BY <2>1, <2>3, <2>5, <2>6
  <1> HIDE DEF Wire
  <1>5. Len(Wire') = Len(Wire) + Len(more)
    BY <1>1, <1>2
  <1> QED
    BY <1>1, <1>2, <1>3, <1>4, <1>5, ConcatIs

LEMMA WireStays ==
  ASSUME IInv, IInv', net \subseteq net', chan'.outgoingSequence = chan.outgoingSequence
  PROVE  Wire' = Wire
  <1>1. \A n \in 1 .. (chan.outgoingSequence - 1) : Sent(n)' = Sent(n)
    BY SentIsKept
  <1> QED
    BY <1>1 DEF Wire, Contents

(* Pieces that are a whole message make up that message. *)
LEMMA AssembledIs ==
  ASSUME NEW pieces \in Seq(Pieces), NEW data, Whole(pieces, data)
  PROVE  Assembled(pieces) = data
  <1>1. pieces[1].data = data
    BY DEF Whole
  <1> QED
    BY <1>1 DEF Assembled

(* When a packet completes a message, the next one is read; no other       *)
(* packet is noticed.                                                      *)
LEMMA ReceiveReads ==
  ASSUME IInv, IInv', NEW p \in net, CL_Netchan_Process(p)
  PROVE  Channel!Read
           \/ UNCHANGED <<Sending, Waiting, Wire, peer.incomingSequence, Reads>>
  <1>1. /\ UNCHANGED <<chan, queue, net>> /\ peer' = Netchan_Process(peer, p)
        /\ read' = IF Completes(peer, p)
                   THEN Append(read, [number |-> p.sequence, pieces |-> Received(peer, p)])
                   ELSE read
    BY DEF CL_Netchan_Process
  <1>2. Wire' = Wire /\ Sending' = Sending /\ Waiting' = Waiting
    BY <1>1 DEF Wire, Sent, Contents, Sending, Waiting
  <1>3. CASE ~Completes(peer, p)
    <2>1. read' = read /\ Reads' = Reads
      BY <1>1, <1>3 DEF Reads, Assembled, Whole, Contents
    <2>2. peer'.incomingSequence = peer.incomingSequence
      BY <1>1, <1>3 DEF Netchan_Process, Completes, Aligned
    <2> QED
      BY <1>2, <2>1, <2>2
  <1>4. CASE Completes(peer, p)
    <2> DEFINE e == [number |-> p.sequence, pieces |-> Received(peer, p)]
               k == Len(read)
    <2>1. IsNew(peer, p) /\ read' = Append(read, e) /\ peer'.incomingSequence = p.sequence
      BY <1>1, <1>4 DEF Completes, Netchan_Process
    <2>2. /\ p.sequence \in Nat /\ peer.incomingSequence \in Nat
          /\ p.sequence > peer.incomingSequence
          /\ peer'.incomingSequence < chan.outgoingSequence
      BY <1>1, <2>1 DEF IInv, NetOK, PacketOK, Packets, PeerOK, Receiver, IsNew
    <2> DEFINE Entry == [number : Nat, pieces : Seq(Pieces)]
    <2>3. read \in Seq(Entry) /\ read' \in Seq(Entry)
      BY DEF IInv, ReadOK
    <2>4. \A x \in Entry : x.pieces \in Seq(Pieces)
      OBVIOUS
    <2> HIDE DEF Entry, e
    <2>5. /\ k \in Nat /\ DOMAIN read = 1 .. k /\ DOMAIN read' = 1 .. (k + 1)
          /\ \A i \in 1 .. k : read'[i] = read[i]
          /\ read'[k + 1] = e /\ e \in Entry
      BY <2>1, <2>3
    <2>6. ReadEntryOK(e, net)
      BY <1>1, <2>5 DEF IInv, ReadOK
    <2>7. Assembled(e.pieces) = Sent(p.sequence)
      <3>1. PICK q \in net : q.sequence = e.number /\ Whole(e.pieces, Data(q))
        BY <2>6 DEF ReadEntryOK
      <3>2. q.sequence = p.sequence
        BY <3>1 DEF e
      <3>3. Sent(p.sequence) = Data(q)
        BY <3>2, SentIs
      <3> QED
        BY <2>4, <2>5, <3>1, <3>3, AssembledIs
    <2>8. /\ Wire \in Seq(Message) /\ Len(Wire) = chan.outgoingSequence - 1
          /\ chan.outgoingSequence \in Nat \ {0}
      BY MappingTypes
    <2>9. /\ p.sequence \in (peer.incomingSequence + 1) .. Len(Wire)
          /\ Wire[p.sequence] = Contents(Sent(p.sequence))
      <3>1. p.sequence \in 1 .. (chan.outgoingSequence - 1)
        BY <2>1, <2>2, <2>8
      <3> QED
        BY <2>2, <2>8, <3>1 DEF Wire
    <2>10. Reads' = Append(Reads, Wire[p.sequence])
      <3> DEFINE x == Wire[p.sequence]
      <3>1. Reads' = [i \in 1 .. (k + 1) |-> Contents(Assembled(read'[i].pieces))]
        BY <2>5 DEF Reads, Assembled, Whole, Contents
      <3>2. Reads = [i \in 1 .. k |-> Contents(Assembled(read[i].pieces))]
        BY <2>5 DEF Reads
      <3>3. Contents(Assembled(read'[k + 1].pieces)) = x
        BY <2>5, <2>7, <2>9
      <3>4. \A i \in 1 .. k : Assembled(read'[i].pieces) = Assembled(read[i].pieces)
        BY <2>5
      <3> HIDE DEF x
      <3>5. Append(Reads, x) = [i \in 1 .. (k + 1) |-> IF i = k + 1 THEN x ELSE Reads[i]]
        BY <2>5, <3>2
      <3> QED
        BY <2>5, <3>1, <3>2, <3>3, <3>4, <3>5 DEF x
    <2> QED
      BY <1>2, <2>1, <2>9, <2>10 DEF Channel!Read, Sending, Waiting, Wire, Reads
  <1> QED
    BY <1>3, <1>4

(* A fragment of the message being sent: at the last, it is on the wire.   *)
LEMMA FragmentSends ==
  ASSUME IInv, chan.unsentFragments
  PROVE  LET after == Netchan_TransmitNextFragment(chan)
         IN  /\ after.unsent = chan.unsent
             /\ \/ /\ after.unsentFragments
                   /\ after.outgoingSequence = chan.outgoingSequence
                \/ /\ ~after.unsentFragments
                   /\ after.outgoingSequence = chan.outgoingSequence + 1
             /\ FragmentPacket(chan).sequence = chan.outgoingSequence
             /\ Data(FragmentPacket(chan)) = chan.unsent
  <1>1. LastFragment(chan) \in BOOLEAN
    BY DEF LastFragment
  <1>2. /\ FragmentPacket(chan).sequence = chan.outgoingSequence
        /\ Data(FragmentPacket(chan)) = chan.unsent
    BY DEF FragmentPacket, Piece
  <1>3. Netchan_TransmitNextFragment(chan).unsentFragments = ~LastFragment(chan)
    BY Zenon DEF Netchan_TransmitNextFragment
  <1>4. /\ Netchan_TransmitNextFragment(chan).unsent = chan.unsent
        /\ Netchan_TransmitNextFragment(chan).outgoingSequence =
             IF LastFragment(chan) THEN chan.outgoingSequence + 1 ELSE chan.outgoingSequence
    BY DEF Netchan_TransmitNextFragment
  <1> QED
    BY <1>1, <1>2, <1>3, <1>4

(* A message on a channel with nothing unsent: a short one is sent, of a   *)
(* long one the first fragment.                                            *)
LEMMA TransmitSends ==
  ASSUME NEW ch, NEW data, data.length \in Nat
  PROVE  LET after == Netchan_Transmit(ch, data)
         IN  IF data.length >= FRAGMENT_SIZE
             THEN /\ after.unsentFragments /\ after.unsent = data
                  /\ after.outgoingSequence = ch.outgoingSequence
             ELSE /\ ~after.unsentFragments
                  /\ after.outgoingSequence = ch.outgoingSequence + 1
                  /\ TransmitPacket(ch, data).sequence = ch.outgoingSequence
                  /\ Data(TransmitPacket(ch, data)) = data
  <1>1. FRAGMENT_SIZE \in Nat \ {0}
    BY FragmentAssumption
  <1>2. CASE data.length >= FRAGMENT_SIZE
    <2> DEFINE loaded == Loaded(ch, data)
    <2>1. /\ loaded.outgoingSequence = ch.outgoingSequence /\ loaded.unsent = data
          /\ loaded.unsentFragmentStart = 0
      BY DEF Loaded
    <2>2. Netchan_Transmit(ch, data) = Netchan_TransmitNextFragment(loaded)
      BY <1>2 DEF Netchan_Transmit
    <2> HIDE DEF loaded
    <2>3. LastFragment(loaded) = FALSE
      BY <1>1, <1>2, <2>1 DEF LastFragment, FragmentEnd
    <2>4. Netchan_TransmitNextFragment(loaded).unsentFragments = ~LastFragment(loaded)
      BY Zenon DEF Netchan_TransmitNextFragment
    <2>5. /\ Netchan_TransmitNextFragment(loaded).unsent = loaded.unsent
          /\ Netchan_TransmitNextFragment(loaded).outgoingSequence =
               IF LastFragment(loaded) THEN loaded.outgoingSequence + 1
               ELSE loaded.outgoingSequence
      BY DEF Netchan_TransmitNextFragment
    <2> QED
      BY <1>2, <2>1, <2>2, <2>3, <2>4, <2>5
  <1>3. CASE ~(data.length >= FRAGMENT_SIZE)
    BY <1>3 DEF Netchan_Transmit, TransmitPacket, Piece
  <1> QED
    BY <1>2, <1>3

(* A message is handed over: it waits behind a long one, or is sent.       *)
LEMMA TransmitHands ==
  ASSUME IInv, IInv', NEW length \in Lengths, SV_Netchan_Transmit(length)
  PROVE  Channel!Wait \/ Channel!Send
  <1> DEFINE msg == [id |-> made + 1, length |-> length, ack |-> command]
             out == SV_Netchan_Encode(msg, chan.outgoingSequence, command)
             item == [msg |-> msg, lastClientCommandString |-> command]
  <1>1. /\ Wire \in Seq(Message) /\ Waiting \in Seq(Message) /\ Len(Waiting) = Len(queue)
        /\ chan.outgoingSequence \in Nat \ {0}
        /\ chan.unsentFragments => Contents(chan.unsent) \in Message
    BY MappingTypes
  <1>2. /\ peer' = peer /\ read' = read
        /\ chan.unsentFragments =>
             /\ queue' = Append(queue, item) /\ net' = net \cup {FragmentPacket(chan)}
             /\ chan' = Netchan_TransmitNextFragment(chan)
        /\ ~chan.unsentFragments =>
             /\ net' = net \cup {TransmitPacket(chan, out)}
             /\ chan' = Netchan_Transmit(chan, out) /\ queue' = queue
    BY DEF SV_Netchan_Transmit
  <1>3. msg \in Message /\ Contents(out) = msg /\ out.length = length /\ length \in Nat
    BY ServerChannelAssumption DEF IInv, Message, SV_Netchan_Encode, Contents
  <1>4. Reads' = Reads /\ UNCHANGED peer.incomingSequence
    BY <1>2 DEF Reads, Assembled, Whole, Contents
  <1>5. item.msg = msg
    OBVIOUS
  <1>6. queue \in Seq(Queued)
    BY DEF IInv, QueueOK
  <1> HIDE DEF msg, out, item
  <1>7. CASE chan.unsentFragments
    <2>1. /\ chan'.unsent = chan.unsent
          /\ \/ /\ chan'.unsentFragments
                /\ chan'.outgoingSequence = chan.outgoingSequence
             \/ /\ ~chan'.unsentFragments
                /\ chan'.outgoingSequence = chan.outgoingSequence + 1
          /\ FragmentPacket(chan).sequence = chan.outgoingSequence
          /\ Data(FragmentPacket(chan)) = chan.unsent
      BY <1>2, <1>7, FragmentSends
    <2>2. Channel!OneMore(Waiting', Waiting)
      <3>1. Waiting' = Append(Waiting, msg)
        BY <1>2, <1>5, <1>6, <1>7 DEF Waiting
      <3> HIDE DEF Waiting
      <3> QED
        BY <1>1, <1>3, <3>1 DEF Channel!OneMore
    <2>3. Sending = <<Contents(chan.unsent)>>
      BY <1>7 DEF Sending
    <2>4. \/ Wire' = Wire \o Sending /\ Sending' = <<>>
          \/ Wire' = Wire /\ Sending' = Sending
      <3>1. CASE /\ chan'.unsentFragments
                 /\ chan'.outgoingSequence = chan.outgoingSequence
        <4>1. net \subseteq net'
          BY <1>2, <1>7
        <4>2. Wire' = Wire
          BY <3>1, <4>1, WireStays
        <4>3. Sending' = Sending
          BY <1>7, <2>1, <3>1 DEF Sending, Contents
        <4> QED
          BY <4>2, <4>3
      <3>2. CASE /\ ~chan'.unsentFragments
                 /\ chan'.outgoingSequence = chan.outgoingSequence + 1
        <4>1. Sending \in Seq(Message) /\ Len(Sending) = 1
              /\ Sending[1] = Contents(chan.unsent)
          BY <1>1, <1>7, <2>3
        <4>2. FragmentPacket(chan) \in net' /\ net \subseteq net'
          BY <1>2, <1>7
        <4>3. \A i \in 1 .. Len(Sending) : \E p \in net' :
                /\ p.sequence = chan.outgoingSequence + i - 1
                /\ Contents(Data(p)) = Sending[i]
          BY <1>1, <2>1, <4>1, <4>2
        <4> HIDE DEF Sending
        <4>4. Wire' = Wire \o Sending
          BY <3>2, <4>1, <4>2, <4>3, WireGrows
        <4>5. Sending' = <<>>
          BY <3>2 DEF Sending
        <4> QED
          BY <4>4, <4>5
      <3> QED
        BY <2>1, <3>1, <3>2
    <2>5. Sending # <<>>
      BY <2>3
    <2> QED
      BY <1>4, <2>2, <2>4, <2>5 DEF Channel!Wait, Sending, Waiting, Wire, Reads
  <1>8. CASE ~chan.unsentFragments
    <2>1. Waiting' = Waiting /\ Sending = <<>> /\ net \subseteq net'
      BY <1>2, <1>8 DEF Waiting, Sending
    <2>2. CASE length >= FRAGMENT_SIZE
      <3>1. /\ chan'.unsentFragments /\ chan'.unsent = out
            /\ chan'.outgoingSequence = chan.outgoingSequence
        BY <1>2, <1>3, <1>8, <2>2, TransmitSends
      <3>2. Sending' = <<msg>>
        BY <1>3, <3>1 DEF Sending, Contents
      <3>4. Wire' = Wire
        BY <2>1, <3>1, WireStays
      <3>5. Channel!OneMore(Sending', <<>>)
        BY <1>3, <3>2 DEF Channel!OneMore
      <3> QED
        BY <1>4, <2>1, <3>4, <3>5 DEF Channel!Send, Sending, Waiting, Wire, Reads
    <2>3. CASE ~(length >= FRAGMENT_SIZE)
      <3>1. /\ ~chan'.unsentFragments
            /\ chan'.outgoingSequence = chan.outgoingSequence + 1
            /\ TransmitPacket(chan, out).sequence = chan.outgoingSequence
            /\ Data(TransmitPacket(chan, out)) = out
            /\ TransmitPacket(chan, out) \in net'
        BY <1>2, <1>3, <1>8, <2>3, TransmitSends
      <3>2. /\ <<msg>> \in Seq(Message) /\ Len(<<msg>>) = 1 /\ <<msg>>[1] = msg
        BY <1>3
      <3>3. \A i \in 1 .. Len(<<msg>>) : \E p \in net' :
              /\ p.sequence = chan.outgoingSequence + i - 1
              /\ Contents(Data(p)) = <<msg>>[i]
        BY <1>1, <1>3, <3>1, <3>2
      <3>4. Wire' = Wire \o <<msg>>
        BY <2>1, <3>1, <3>2, <3>3, WireGrows
      <3>5. Channel!OneMore(Wire', Wire)
        <4> HIDE DEF Wire
        <4> QED
          BY <1>1, <1>3, <3>4 DEF Channel!OneMore
      <3>6. Sending' = <<>>
        BY <3>1 DEF Sending
      <3> QED
        BY <1>4, <2>1, <3>5, <3>6 DEF Channel!Send, Sending, Waiting, Wire, Reads
    <2> QED
      BY <2>2, <2>3
  <1> QED
    BY <1>7, <1>8

(* The queue without its first n messages. *)
LEMMA WaitingPopped ==
  ASSUME NEW n \in 0 .. Len(queue), queue \in Seq(Queued), Waiting \in Seq(Message),
         Len(Waiting) = Len(queue), queue' = SubSeq(queue, n + 1, Len(queue))
  PROVE  Waiting' = SubSeq(Waiting, n + 1, Len(Waiting))
  <1>1. /\ Len(queue) \in Nat /\ Len(queue') = Len(queue) - n
        /\ DOMAIN queue' = 1 .. (Len(queue) - n)
        /\ \A i \in 1 .. (Len(queue) - n) : queue'[i] = queue[n + i]
    OBVIOUS
  <1>2. Waiting' = [i \in 1 .. (Len(queue) - n) |-> queue[n + i].msg]
    <2>1. Waiting' = [i \in 1 .. (Len(queue) - n) |-> queue'[i].msg]
      <3>1. Waiting' = [i \in DOMAIN queue' |-> queue'[i].msg]
        BY Zenon DEF Waiting
      <3> QED
        BY <1>1, <3>1, Zenon
    <2>2. \A i \in 1 .. (Len(queue) - n) : queue'[i].msg = queue[n + i].msg
      BY <1>1
    <2> QED
      BY <2>1, <2>2
  <1>3. \A i \in 1 .. (Len(queue) - n) : Waiting[n + i] = queue[n + i].msg
    <2>1. \A i \in 1 .. (Len(queue) - n) : n + i \in DOMAIN queue
      BY <1>1
    <2>2. \A j \in DOMAIN queue : Waiting[j] = queue[j].msg
      BY Zenon DEF Waiting
    <2> QED
      BY <2>1, <2>2, Zenon
  <1> HIDE DEF Waiting
  <1>4. SubSeq(Waiting, n + 1, Len(Waiting))
          = [i \in 1 .. (Len(queue) - n) |-> Waiting[n + i]]
    BY <1>1
  <1> QED
    BY <1>2, <1>3, <1>4

(* The message being sent is finished and the first k that wait go out     *)
(* behind it, a number each.                                               *)
LEMMA BehindSending ==
  ASSUME IInv, IInv', net \subseteq net', NEW k \in 0 .. Len(queue),
         Waiting \in Seq(Message), Len(Waiting) = Len(queue), Len(queue) \in Nat,
         chan.outgoingSequence \in Nat, Sending = <<Contents(chan.unsent)>>, Contents(chan.unsent) \in Message,
         FragmentPacket(chan) \in net',
         FragmentPacket(chan).sequence = chan.outgoingSequence,
         Data(FragmentPacket(chan)) = chan.unsent,
         \A i \in 1 .. k : \E p \in net' : /\ p.sequence = chan.outgoingSequence + i
                                          /\ Contents(Data(p)) = Waiting[i],
         chan'.outgoingSequence = chan.outgoingSequence + (k + 1)
  PROVE  Wire' = Wire \o (Sending \o SubSeq(Waiting, 1, k))
  <1> DEFINE more == Sending \o SubSeq(Waiting, 1, k)
  <1>1. Sending \in Seq(Message) /\ Len(Sending) = 1 /\ Sending[1] = Contents(chan.unsent)
    OBVIOUS
  <1> HIDE DEF Sending, Waiting, Wire
  <1>2. /\ SubSeq(Waiting, 1, k) \in Seq(Message) /\ Len(SubSeq(Waiting, 1, k)) = k
        /\ \A i \in 1 .. k : SubSeq(Waiting, 1, k)[i] = Waiting[i]
    OBVIOUS
  <1>3. /\ more \in Seq(Message) /\ Len(more) = k + 1 /\ more[1] = Contents(chan.unsent)
        /\ \A i \in 2 .. (k + 1) : more[i] = Waiting[i - 1]
    BY <1>1, <1>2
  <1> HIDE DEF more
  <1>4. \A i \in 1 .. Len(more) : \E p \in net' :
          /\ p.sequence = chan.outgoingSequence + i - 1
          /\ Contents(Data(p)) = more[i]
    <2> TAKE i \in 1 .. Len(more)
    <2>1. CASE i = 1
      BY <1>3, <2>1
    <2>2. CASE i # 1
      <3> DEFINE j == i - 1
      <3>1. j \in 1 .. k /\ more[i] = Waiting[j] /\ i \in Nat
        <4>1. i \in 2 .. (k + 1)
          BY <1>3, <2>2
        <4> QED
          BY <1>3, <4>1
      <3> HIDE DEF j
      <3>2. PICK p \in net' : /\ p.sequence = chan.outgoingSequence + j
                              /\ Contents(Data(p)) = Waiting[j]
        BY <3>1
      <3>3. p.sequence = chan.outgoingSequence + i - 1
        BY <3>1, <3>2 DEF j
      <3> QED
        BY <3>1, <3>2, <3>3
    <2> QED
      BY <2>1, <2>2
  <1>5. chan'.outgoingSequence = chan.outgoingSequence + Len(more)
    BY <1>3
  <1>6. Wire' = Wire \o more
    BY <1>3, <1>4, <1>5, WireGrows
  <1> QED
    BY <1>6 DEF more

(* The next fragment goes out; behind the last one the queue follows.      *)
LEMMA FinishesOrNot ==
  ASSUME IInv, IInv', SV_Netchan_TransmitNextFragment
  PROVE  Channel!Finish
           \/ UNCHANGED <<Sending, Waiting, Wire, peer.incomingSequence, Reads>>
  <1> DEFINE after == Netchan_TransmitNextFragment(chan)
             pkt(i) == TransmitPacket(Advanced(after, i), EncodedFromQueue(after, i))
             last(n) == Netchan_Transmit(Advanced(after, n), EncodedFromQueue(after, n))
  <1>1. PICK n \in 0 .. Len(queue) :
          /\ chan.unsentFragments /\ Pops(after, n)
          /\ net' = net \cup {FragmentPacket(chan)} \cup {pkt(i) : i \in 1 .. n}
          /\ chan' = IF n = 0 THEN after ELSE last(n)
          /\ queue' = SubSeq(queue, n + 1, Len(queue))
          /\ peer' = peer /\ read' = read
    BY DEF SV_Netchan_TransmitNextFragment
  <1>2. /\ Wire \in Seq(Message) /\ Waiting \in Seq(Message) /\ Len(Waiting) = Len(queue)
        /\ chan.outgoingSequence \in Nat \ {0}
        /\ Contents(chan.unsent) \in Message
    BY <1>1, MappingTypes
  <1>3. /\ after.unsent = chan.unsent
        /\ \/ after.unsentFragments /\ after.outgoingSequence = chan.outgoingSequence
           \/ ~after.unsentFragments /\ after.outgoingSequence = chan.outgoingSequence + 1
        /\ FragmentPacket(chan).sequence = chan.outgoingSequence
        /\ Data(FragmentPacket(chan)) = chan.unsent
    BY <1>1, FragmentSends
  <1>4. Reads' = Reads /\ UNCHANGED peer.incomingSequence
    BY <1>1 DEF Reads, Assembled, Whole, Contents
  <1>5. queue \in Seq(Queued) /\ Len(queue) \in Nat
    BY DEF IInv, QueueOK
  <1>6. /\ net \subseteq net' /\ FragmentPacket(chan) \in net'
        /\ \A i \in 1 .. n : pkt(i) \in net'
    BY <1>1
  <1>7. \A i \in 1 .. n : /\ EncodedFromQueue(after, i).length = queue[i].msg.length
                          /\ queue[i].msg.length \in Nat
                          /\ Contents(EncodedFromQueue(after, i)) = queue[i].msg
                          /\ Waiting[i] = queue[i].msg
                          /\ Advanced(after, i).outgoingSequence
                               = after.outgoingSequence + i - 1
    <2> TAKE i \in 1 .. n
    <2>1. queue[i] \in Queued /\ i \in 1 .. Len(queue)
      BY <1>5
    <2>2. queue[i].msg \in Message /\ queue[i].msg.length \in Nat
      BY <2>1, ServerChannelAssumption DEF Queued, Message
    <2>3. Contents(EncodedFromQueue(after, i)) =
            [id |-> queue[i].msg.id, length |-> queue[i].msg.length, ack |-> queue[i].msg.ack]
      BY DEF Contents, EncodedFromQueue, SV_Netchan_Encode
    <2>4. Contents(EncodedFromQueue(after, i)) = queue[i].msg
      BY <2>2, <2>3 DEF Message
    <2> QED
      BY <1>5, <2>1, <2>2, <2>4
      DEF EncodedFromQueue, SV_Netchan_Encode, Advanced, Waiting
  <1>8. Sending = <<Contents(chan.unsent)>>
    BY <1>1 DEF Sending
  <1>9. Pops(after, n)
    BY <1>1
  <1>10. /\ chan' = IF n = 0 THEN after ELSE last(n)
         /\ queue' = SubSeq(queue, n + 1, Len(queue))
    BY <1>1
  <1> HIDE DEF after
  <1>11. CASE after.unsentFragments
    <2>1. n = 0
      BY <1>9, <1>11 DEF Pops
    <2>2. chan' = after /\ queue' = queue
      BY <1>5, <1>10, <2>1
    <2>3. Wire' = Wire
      BY <1>2, <1>3, <1>6, <1>11, <2>2, WireStays
    <2>4. Sending' = Sending /\ Waiting' = Waiting
      BY <1>1, <1>3, <1>11, <2>2 DEF Sending, Waiting, Contents
    <2> QED
      BY <1>4, <2>3, <2>4
  <1>12. CASE ~after.unsentFragments
    <2>1. /\ \A i \in 1 .. (n - 1) : queue[i].msg.length < FRAGMENT_SIZE
          /\ n < Len(queue) => n > 0 /\ queue[n].msg.length >= FRAGMENT_SIZE
          /\ after.outgoingSequence = chan.outgoingSequence + 1
          /\ FRAGMENT_SIZE \in Nat \ {0}
      BY <1>3, <1>9, <1>12, FragmentAssumption DEF Pops
    <2>2. \A i \in 1 .. n : queue[i].msg.length < FRAGMENT_SIZE =>
            /\ pkt(i).sequence = chan.outgoingSequence + i
            /\ Contents(Data(pkt(i))) = Waiting[i]
      <3> TAKE i \in 1 .. n
      <3> HAVE queue[i].msg.length < FRAGMENT_SIZE
      <3>1. /\ EncodedFromQueue(after, i).length \in Nat
            /\ ~(EncodedFromQueue(after, i).length >= FRAGMENT_SIZE)
        BY <1>7, <2>1
      <3>2. /\ pkt(i).sequence = Advanced(after, i).outgoingSequence
            /\ Data(pkt(i)) = EncodedFromQueue(after, i)
        BY <3>1, TransmitSends
      <3>3. Contents(Data(pkt(i))) = Waiting[i]
        BY <1>7, <3>2, Zenon
      <3>4. pkt(i).sequence = after.outgoingSequence + i - 1
        BY <1>7, <3>2
      <3> HIDE DEF pkt
      <3>5. pkt(i).sequence = chan.outgoingSequence + i
        BY <1>2, <2>1, <3>4
      <3> QED
        BY <3>3, <3>5, Zenon
    <2>3. CASE n > 0 /\ queue[n].msg.length >= FRAGMENT_SIZE
      <3>1. /\ chan'.unsentFragments /\ chan'.unsent = EncodedFromQueue(after, n)
            /\ chan'.outgoingSequence = chan.outgoingSequence + n
        <4>1. n \in 1 .. n
          BY <2>3
        <4>2. /\ EncodedFromQueue(after, n).length \in Nat
              /\ EncodedFromQueue(after, n).length >= FRAGMENT_SIZE
              /\ Advanced(after, n).outgoingSequence = after.outgoingSequence + n - 1
          BY <1>7, <2>3, <4>1
        <4>3. chan' = last(n)
          BY <1>10, <2>3
        <4>4. /\ last(n).unsentFragments /\ last(n).unsent = EncodedFromQueue(after, n)
              /\ last(n).outgoingSequence = Advanced(after, n).outgoingSequence
          BY <4>2, TransmitSends
        <4> QED
          BY <1>2, <2>1, <4>2, <4>3, <4>4
      <3>2. \A i \in 1 .. (n - 1) : /\ pkt(i).sequence = chan.outgoingSequence + i
                                    /\ Contents(Data(pkt(i))) = Waiting[i]
                                    /\ pkt(i) \in net'
        BY <1>6, <2>1, <2>2
      <3>3. Wire' = Wire \o (Sending \o SubSeq(Waiting, 1, n - 1))
        <4>1. n - 1 \in 0 .. Len(queue)
          BY <2>3
        <4> DEFINE k == n - 1
        <4>2. k \in 0 .. Len(queue) /\ chan'.outgoingSequence = chan.outgoingSequence + (k + 1)
          BY <1>2, <3>1, <4>1
        <4>3. \A i \in 1 .. k : \E p \in net' : /\ p.sequence = chan.outgoingSequence + i
                                               /\ Contents(Data(p)) = Waiting[i]
          BY <3>2
        <4> HIDE DEF k, Waiting, Wire, Sending
        <4>4. Wire' = Wire \o (Sending \o SubSeq(Waiting, 1, k))
          BY <1>2, <1>3, <1>5, <1>6, <1>8, <4>2, <4>3, BehindSending
        <4> QED
          BY <4>4 DEF k
      <3>4. Sending' = <<Waiting[n]>>
        <4>1. Contents(EncodedFromQueue(after, n)) = Waiting[n]
          BY <1>7, <2>3
        <4> QED
          BY <3>1, <4>1 DEF Sending, Contents
      <3>5. Waiting' = SubSeq(Waiting, n + 1, Len(Waiting))
        BY <1>2, <1>5, <1>10, WaitingPopped
      <3> DEFINE k == n - 1
      <3>6. k \in 0 .. Len(Waiting) /\ k < Len(Waiting) /\ k + 1 = n /\ k + 2 = n + 1
        BY <1>2, <2>3
      <3>7. Sending # <<>>
        BY <1>8
      <3> HIDE DEF k
      <3>8. /\ Wire' = Wire \o (Sending \o SubSeq(Waiting, 1, k))
            /\ Sending' = <<Waiting[k + 1]>>
            /\ Waiting' = SubSeq(Waiting, k + 2, Len(Waiting))
        BY <3>3, <3>4, <3>5, <3>6 DEF k
      <3> HIDE DEF Wire, Sending, Waiting, Reads
      <3>9. /\ Sending # <<>>
            /\ \E kk \in 0 .. Len(Waiting) :
                 /\ Wire' = Wire \o (Sending \o SubSeq(Waiting, 1, kk))
                 /\ \/ kk = Len(Waiting) /\ Sending' = <<>> /\ Waiting' = <<>>
                    \/ /\ kk < Len(Waiting) /\ Sending' = <<Waiting[kk + 1]>>
                       /\ Waiting' = SubSeq(Waiting, kk + 2, Len(Waiting))
            /\ UNCHANGED <<peer.incomingSequence, Reads>>
        BY <1>4, <3>6, <3>7, <3>8
      <3> QED
        BY <3>9 DEF Channel!Finish, Wire, Sending, Waiting, Reads
    <2>4. CASE ~(n > 0 /\ queue[n].msg.length >= FRAGMENT_SIZE)
      <3>1. n = Len(queue)
        BY <1>5, <2>1, <2>4
      <3>2. ~chan'.unsentFragments /\ chan'.outgoingSequence = chan.outgoingSequence + n + 1
        <4>1. CASE n = 0
          BY <1>2, <1>10, <1>12, <2>1, <4>1
        <4>2. CASE n # 0
          <5>1. /\ EncodedFromQueue(after, n).length \in Nat
                /\ ~(EncodedFromQueue(after, n).length >= FRAGMENT_SIZE)
                /\ Advanced(after, n).outgoingSequence = after.outgoingSequence + n - 1
            BY <1>7, <2>4, <4>2
          <5>2. chan' = last(n)
            BY <1>10, <4>2
          <5>3. /\ ~last(n).unsentFragments
                /\ last(n).outgoingSequence = Advanced(after, n).outgoingSequence + 1
            BY <5>1, TransmitSends
          <5> HIDE DEF last
          <5>4. /\ ~chan'.unsentFragments
                /\ chan'.outgoingSequence = after.outgoingSequence + n - 1 + 1
            BY <5>1, <5>2, <5>3
          <5>5. chan'.outgoingSequence = chan.outgoingSequence + n + 1
            BY <1>2, <2>1, <5>4
          <5> QED
            BY <5>4, <5>5
        <4> QED
          BY <4>1, <4>2
      <3>3. \A i \in 1 .. n : /\ pkt(i).sequence = chan.outgoingSequence + i
                              /\ Contents(Data(pkt(i))) = Waiting[i]
                              /\ pkt(i) \in net'
        <4> TAKE i \in 1 .. n
        <4>1. queue[i].msg.length < FRAGMENT_SIZE
          <5>1. CASE i = n
            BY <1>7, <2>1, <2>4, <5>1
          <5>2. CASE i # n
            BY <2>1, <5>2
          <5> QED
            BY <5>1, <5>2
        <4> QED
          BY <1>6, <2>2, <4>1
      <3>4. Wire' = Wire \o (Sending \o SubSeq(Waiting, 1, n))
        <4>1. chan'.outgoingSequence = chan.outgoingSequence + (n + 1)
          BY <1>2, <3>2
        <4>2. \A i \in 1 .. n : \E p \in net' : /\ p.sequence = chan.outgoingSequence + i
                                               /\ Contents(Data(p)) = Waiting[i]
          BY <3>3
        <4> HIDE DEF Waiting, Wire, Sending
        <4> QED
          BY <1>2, <1>3, <1>5, <1>6, <1>8, <4>1, <4>2, BehindSending
      <3>5. Sending' = <<>>
        BY <3>2 DEF Sending
      <3>6. Waiting' = <<>>
        <4>1. queue' = <<>>
          BY <1>5, <1>10, <3>1
        <4> QED
          BY <4>1 DEF Waiting
      <3>7. Sending # <<>> /\ n \in 0 .. Len(Waiting) /\ n = Len(Waiting)
        BY <1>2, <1>8, <3>1
      <3> HIDE DEF Wire, Sending, Waiting, Reads
      <3>8. /\ Sending # <<>>
            /\ \E kk \in 0 .. Len(Waiting) :
                 /\ Wire' = Wire \o (Sending \o SubSeq(Waiting, 1, kk))
                 /\ \/ kk = Len(Waiting) /\ Sending' = <<>> /\ Waiting' = <<>>
                    \/ /\ kk < Len(Waiting) /\ Sending' = <<Waiting[kk + 1]>>
                       /\ Waiting' = SubSeq(Waiting, kk + 2, Len(Waiting))
            /\ UNCHANGED <<peer.incomingSequence, Reads>>
        BY <1>4, <3>4, <3>5, <3>6, <3>7
      <3> QED
        BY <3>8 DEF Channel!Finish, Wire, Sending, Waiting, Reads
    <2> QED
      BY <2>3, <2>4
  <1> QED
    BY <1>11, <1>12

(* For every fragment size, all lengths and any number of messages, the    *)
(* channel loses messages but never mixes or repeats them, its client      *)
(* reads them in the order of their numbers, and its queue is sent in the  *)
(* order of handing over, behind the long message it waited for unless     *)
(* later ones overtook it.                                                 *)
THEOREM ChannelIsLossyChannel == Spec => ImplementsLossyChannel
  <1>1. Init => Channel!Init
    <2> SUFFICES ASSUME Init PROVE Channel!Init
      OBVIOUS
    <2>1. /\ chan.outgoingSequence = 1 /\ peer.incomingSequence = 0 /\ read = <<>>
          /\ queue = <<>> /\ chan.unsentFragments = FALSE
      BY DEF Init, SenderSetup, ReceiverSetup
    <2>2. Wire = <<>>
      BY <2>1 DEF Wire
    <2>3. Reads = <<>>
      BY <2>1 DEF Reads
    <2>4. Sending = <<>> /\ Waiting = <<>>
      BY <2>1 DEF Sending, Waiting
    <2> QED
      BY <2>1, <2>2, <2>3, <2>4 DEF Channel!Init, Sending, Waiting, Wire, Reads
  <1>2. IInv /\ IInv' /\ [Next]_vars => [Channel!Next]_(Channel!vars)
    <2> SUFFICES ASSUME IInv, IInv', [Next]_vars
                 PROVE  \/ Channel!Next
                        \/ UNCHANGED <<Sending, Waiting, Wire, peer.incomingSequence, Reads>>
      BY DEF Channel!vars, Sending, Waiting, Wire, Reads
    <2>1. ASSUME NEW length \in Lengths, SV_Netchan_Transmit(length)
          PROVE  Channel!Next
      BY <2>1, TransmitHands DEF Channel!Next
    <2>2. ASSUME SV_Netchan_TransmitNextFragment
          PROVE  \/ Channel!Next
                 \/ UNCHANGED <<Sending, Waiting, Wire, peer.incomingSequence, Reads>>
      BY <2>2, FinishesOrNot DEF Channel!Next
    <2>3. ASSUME SV_ClientCommand \/ UNCHANGED vars
          PROVE  UNCHANGED <<Sending, Waiting, Wire, peer.incomingSequence, Reads>>
      <3>1. UNCHANGED <<chan, queue, net, peer, read>>
        BY <2>3 DEF SV_ClientCommand, vars
      <3> QED
        BY <3>1 DEF Sending, Waiting, Wire, Reads, Sent, Assembled, Whole, Contents
    <2>4. ASSUME SV_FreeClient
          PROVE  Channel!Drop
      <3>1. UNCHANGED <<chan, net, peer, read>> /\ queue' = <<>>
        BY <2>4 DEF SV_FreeClient
      <3>2. UNCHANGED <<Sending, Wire, peer.incomingSequence, Reads>> /\ Waiting' = <<>>
        BY <3>1 DEF Sending, Waiting, Wire, Reads, Sent, Assembled, Whole, Contents
      <3> QED
        BY <3>2 DEF Channel!Drop, Sending, Waiting, Wire, Reads
    <2>5. ASSUME NEW p \in net, CL_Netchan_Process(p)
          PROVE  \/ Channel!Read
                 \/ UNCHANGED <<Sending, Waiting, Wire, peer.incomingSequence, Reads>>
      BY <2>5, ReceiveReads
    <2> QED
      BY <2>1, <2>2, <2>3, <2>4, <2>5 DEF Next, Channel!Next
  <1> QED
    BY <1>1, <1>2, SpecIInv, PTL DEF Spec, ImplementsLossyChannel, Channel!Spec
=============================================================================

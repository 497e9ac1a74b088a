------------------------------- MODULE Netchan -------------------------------
(***************************************************************************)
(* The network channel: sequence numbers, fragmentation of the messages    *)
(* that do not fit one packet and their reassembly.  Operators on the      *)
(* netchan_t of one end; ServerChannel composes two ends.                  *)
(*                                                                         *)
(* A message is any record with a length; a piece of it is the message, an *)
(* offset and a length.                                                    *)
(***************************************************************************)
EXTENDS Integers, Sequences

CONSTANT FRAGMENT_SIZE   \* the bytes of a message that fit one fragment

ASSUME FragmentAssumption == FRAGMENT_SIZE \in Nat \ {0}

Piece(data, start, length) == [data |-> data, start |-> start, length |-> length]

(* Netchan_Setup for the sending end; unsent is the unsentBuffer, with its *)
(* unsentLength, and is read only while unsentFragments is set.            *)
SenderSetup(nothing) ==
  [outgoingSequence |-> 1, unsentFragments |-> FALSE,
   unsentFragmentStart |-> 0, unsent |-> nothing]

(* Netchan_Setup for the receiving end; fragmentBuffer is the sequence of  *)
(* the pieces copied one behind the other into it.                         *)
ReceiverSetup ==
  [incomingSequence |-> 0, fragmentSequence |-> 0, fragmentLength |-> 0,
   fragmentBuffer |-> <<>>]

-----------------------------------------------------------------------------
(* Sending.                                                                *)

(* Where a fragment that starts at start ends. *)
FragmentEnd(length, start) ==
  IF start + FRAGMENT_SIZE > length THEN length ELSE start + FRAGMENT_SIZE

(* The packet of the next fragment. *)
FragmentPacket(chan) ==
  LET start == chan.unsentFragmentStart
  IN  [sequence |-> chan.outgoingSequence, fragmented |-> TRUE,
       piece |-> Piece(chan.unsent, start,
                       FragmentEnd(chan.unsent.length, start) - start)]

(* Mutant: no message ends with a fragment of length zero. *)
LastIsPartial(chan) ==
  chan.unsent.length - chan.unsentFragmentStart \in 1 .. (FRAGMENT_SIZE - 1)

(* A last fragment that is full is followed by one of length zero. *)
LastFragment(chan) ==
  FragmentEnd(chan.unsent.length, chan.unsentFragmentStart)
    < chan.unsentFragmentStart + FRAGMENT_SIZE

(* Netchan_TransmitNextFragment: the channel after it; it sends            *)
(* FragmentPacket(chan).                                                   *)
Netchan_TransmitNextFragment(chan) ==
  [outgoingSequence |-> IF LastFragment(chan) THEN chan.outgoingSequence + 1
                        ELSE chan.outgoingSequence,
   unsentFragments |-> ~LastFragment(chan),
   unsentFragmentStart |-> FragmentEnd(chan.unsent.length, chan.unsentFragmentStart),
   unsent |-> chan.unsent]

(* Mutant: the next message starts where the last one ended. *)
LoadedBehind(chan, data) ==
  [outgoingSequence |-> chan.outgoingSequence, unsentFragments |-> TRUE,
   unsentFragmentStart |-> chan.unsentFragmentStart, unsent |-> data]

(* The channel in which Netchan_Transmit has stored a message to fragment. *)
Loaded(chan, data) ==
  [outgoingSequence |-> chan.outgoingSequence, unsentFragments |-> TRUE,
   unsentFragmentStart |-> 0, unsent |-> data]

(* Netchan_Transmit: the packet it sends, the whole message or its first   *)
(* fragment, and the channel after it.                                     *)
TransmitPacket(chan, data) ==
  IF data.length >= FRAGMENT_SIZE THEN FragmentPacket(Loaded(chan, data))
  ELSE [sequence |-> chan.outgoingSequence, fragmented |-> FALSE,
        piece |-> Piece(data, 0, data.length)]
Netchan_Transmit(chan, data) ==
  IF data.length >= FRAGMENT_SIZE
  THEN Netchan_TransmitNextFragment(Loaded(chan, data))
  ELSE [outgoingSequence |-> chan.outgoingSequence + 1, unsentFragments |-> FALSE,
        unsentFragmentStart |-> 0, unsent |-> chan.unsent]

-----------------------------------------------------------------------------
(* Receiving.                                                              *)

(* Mutant: the pieces of two messages meet in the buffer. *)
NeverAligned(chan, sequence) == chan

(* The fragments of another message empty the buffer. *)
Aligned(chan, sequence) ==
  IF chan.fragmentSequence = sequence THEN chan
  ELSE [incomingSequence |-> chan.incomingSequence, fragmentSequence |-> sequence,
        fragmentLength |-> 0, fragmentBuffer |-> <<>>]

(* Out of order and duplicated packets are discarded. *)
IsNew(chan, p) == p.sequence > chan.incomingSequence

(* A fragment that is the next one. *)
Fits(chan, p) ==
  p.fragmented /\ p.piece.start = Aligned(chan, p.sequence).fragmentLength

(* The packet completes a message. *)
Completes(chan, p) ==
  /\ IsNew(chan, p)
  /\ p.fragmented => Fits(chan, p) /\ p.piece.length # FRAGMENT_SIZE

(* What Netchan_Process hands on when it returns qtrue. *)
Received(chan, p) ==
  IF p.fragmented THEN Append(Aligned(chan, p.sequence).fragmentBuffer, p.piece)
  ELSE <<p.piece>>

(* Netchan_Process: the channel after it. *)
Netchan_Process(chan, p) ==
  LET a == Aligned(chan, p.sequence)
  IN  CASE ~IsNew(chan, p) -> chan
        [] IsNew(chan, p) /\ ~p.fragmented ->
             [incomingSequence |-> p.sequence, fragmentSequence |-> chan.fragmentSequence,
              fragmentLength |-> chan.fragmentLength,
              fragmentBuffer |-> chan.fragmentBuffer]
        [] IsNew(chan, p) /\ p.fragmented /\ ~Fits(chan, p) -> a
        [] Completes(chan, p) /\ p.fragmented ->
             [incomingSequence |-> p.sequence, fragmentSequence |-> a.fragmentSequence,
              fragmentLength |-> 0, fragmentBuffer |-> <<>>]
        [] OTHER ->
             [incomingSequence |-> chan.incomingSequence,
              fragmentSequence |-> a.fragmentSequence,
              fragmentLength |-> a.fragmentLength + p.piece.length,
              fragmentBuffer |-> Append(a.fragmentBuffer, p.piece)]
=============================================================================

----------------------------- MODULE LossyChannel ----------------------------
(***************************************************************************)
(* What the server's channel promises of the messages handed to it.  They  *)
(* are sent one after the other; while a long one is being sent, the next  *)
(* ones wait, and they follow it in the order in which they were handed    *)
(* over.  The receiver reads some of the messages sent, whole, each at     *)
(* most once and in the order of sending.                                  *)
(*                                                                         *)
(* It is not first in, first out: the message being sent may be finished   *)
(* when the next one is handed over, and then that one waits for nothing;  *)
(* whatever is handed over until the next long message overtakes it.       *)
(***************************************************************************)
EXTENDS Naturals, Sequences

CONSTANT Messages

VARIABLES
  sending,   \* the message of which a part is sent, if any: a sequence of one
  waiting,   \* those handed over that are still to be sent
  wire,      \* the messages sent, in the order of sending
  last,      \* the place on the wire of the one last read
  read       \* the messages read so far

vars == <<sending, waiting, wire, last, read>>

Init == sending = <<>> /\ waiting = <<>> /\ wire = <<>> /\ last = 0 /\ read = <<>>

OneMore(longer, shorter) ==
  /\ longer \in Seq(Messages) /\ Len(longer) = Len(shorter) + 1
  /\ SubSeq(longer, 1, Len(shorter)) = shorter

(* Behind a long message the next one waits, though it may be finished now. *)
Wait ==
  /\ sending # <<>> /\ OneMore(waiting', waiting)
  /\ \/ wire' = wire \o sending /\ sending' = <<>>
     \/ UNCHANGED <<wire, sending>>
  /\ UNCHANGED <<last, read>>

(* With no message half sent the next one is sent, or a part of it, before *)
(* any that wait.                                                          *)
Send ==
  /\ sending = <<>>
  /\ \/ OneMore(wire', wire) /\ sending' = <<>>
     \/ OneMore(sending', <<>>) /\ wire' = wire
  /\ UNCHANGED <<waiting, last, read>>

(* The message being sent is finished and those that wait follow, all of   *)
(* them or up to a long one.                                               *)
Finish ==
  /\ sending # <<>>
  /\ \E k \in 0 .. Len(waiting) :
       /\ wire' = wire \o (sending \o SubSeq(waiting, 1, k))
       /\ \/ k = Len(waiting) /\ sending' = <<>> /\ waiting' = <<>>
          \/ /\ k < Len(waiting) /\ sending' = <<waiting[k + 1]>>
             /\ waiting' = SubSeq(waiting, k + 2, Len(waiting))
  /\ UNCHANGED <<last, read>>

(* The receiver is gone: what waits is not sent any more. *)
Drop == waiting' = <<>> /\ UNCHANGED <<sending, wire, last, read>>

Read == \E n \in (last + 1) .. Len(wire) :
          /\ last' = n /\ read' = Append(read, wire[n])
          /\ UNCHANGED <<sending, waiting, wire>>

Next == Wait \/ Send \/ Finish \/ Drop \/ Read

Spec == Init /\ [][Next]_vars
=============================================================================

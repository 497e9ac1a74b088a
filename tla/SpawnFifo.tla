------------------------------ MODULE SpawnFifo ------------------------------
(***************************************************************************)
(* What a spawn queue promises, without its ring: each team keeps a line   *)
(* of distinct clients; a client joins at the end, the head is served      *)
(* first, and a client may step out of the line from any place, the ones   *)
(* behind keeping their order.                                             *)
(***************************************************************************)
EXTENDS Sequences, SequencesExt

CONSTANTS Teams, Clients

VARIABLE line                   \* [Teams -> sequence of distinct clients]

Init == line = [t \in Teams |-> << >>]

Join(t, c) == /\ ~Contains(line[t], c)
              /\ line' = [line EXCEPT ![t] = Append(@, c)]

Serve(t) == /\ line[t] # << >>
            /\ line' = [line EXCEPT ![t] = Tail(@)]

StepOut(t, i) == line' = [line EXCEPT ![t] = RemoveAt(@, i)]

Next == \E t \in Teams : \/ \E c \in Clients : Join(t, c)
                         \/ Serve(t)
                         \/ \E i \in DOMAIN line[t] : StepOut(t, i)

Spec == Init /\ [][Next]_line
=============================================================================

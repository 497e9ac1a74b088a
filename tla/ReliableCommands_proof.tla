----------------------- MODULE ReliableCommands_proof ------------------------
(***************************************************************************)
(* Proofs about the reliable commands, for every size of the ring and any  *)
(* number of commands, levels and messages under way.                      *)
(*                                                                         *)
(* The server may keep MAX_RELIABLE_COMMANDS texts only because the        *)
(* numbers a client acknowledges never go back.  They do not because       *)
(* messages arrive in order: the acknowledgements under way are between    *)
(* what the server knows and what the client has (UpOK), and the numbers   *)
(* under way to the client between what it has and what the server has     *)
(* given out (DownOK).                                                     *)
(***************************************************************************)
EXTENDS ReliableCommands, Lemmas_proof, SequenceTheorems

InOrder(s) == s.reliableAcknowledge <= s.reliableSequence

WindowOK(st, s) ==
  /\ InOrder(s)
  /\ st \in {"connected", "primed", "active"} =>
       s.reliableSequence <= s.reliableAcknowledge + MAX_RELIABLE_COMMANDS

(* low: what the server knows to have arrived; high: what has arrived.     *)
UpOK(channel, low, high) ==
  /\ low <= high
  /\ \A i \in DOMAIN channel : channel[i].ack \in low .. high
  /\ \A i, j \in DOMAIN channel : i < j => channel[i].ack <= channel[j].ack

(* low: what has arrived; high: what the server has numbered. *)
MessageOK(msg, low, high) ==
  LastOf(msg) = msg.sequence /\ msg.sequence \in low .. high

DownOK(channel, low, high) ==
  /\ low <= high
  /\ \A i \in DOMAIN channel : MessageOK(channel[i], low, high)
  /\ \A i, j \in DOMAIN channel : i < j => channel[i].sequence <= channel[j].sequence

IInv ==
  /\ TypeOK
  /\ WindowOK(state, sv)
  /\ UpOK(up, sv.reliableAcknowledge, got.serverCommandSequence)
  /\ DownOK(down, got.serverCommandSequence, sv.reliableSequence)

-----------------------------------------------------------------------------
(* The ring. *)

LEMMA SlotInRing ==
  ASSUME NEW n \in Int
  PROVE  Slot(n) \in Slots
BY ReliableCommandsAssumption DEF Slot, Slots

LEMMA NumberedOK ==
  ASSUME NEW s \in Sender
  PROVE  /\ Numbered(s) \in Sender
         /\ Numbered(s).reliableSequence = s.reliableSequence + 1
         /\ Numbered(s).reliableAcknowledge = s.reliableAcknowledge
BY DEF Numbered, Sender

LEMMA StoredOK ==
  ASSUME NEW s \in Sender, NEW sign \in {1, -1}
  PROVE  /\ Stored(s, sign) \in Sender
         /\ Stored(s, sign).reliableSequence = s.reliableSequence + 1
         /\ Stored(s, sign).reliableAcknowledge = s.reliableAcknowledge
<1>1. s.reliableSequence + 1 \in Nat
  BY DEF Sender
<1>2. sign * (s.reliableSequence + 1) \in Int
  BY <1>1
<1>3. Slot(s.reliableSequence + 1) \in Slots
  BY <1>1, SlotInRing
<1>4. [s.reliableCommands EXCEPT ![Slot(s.reliableSequence + 1)]
         = sign * (s.reliableSequence + 1)] \in [Slots -> Int]
  BY <1>2, <1>3 DEF Sender
<1>5. WrittenOver(s) \subseteq Nat
  BY ReliableCommandsAssumption DEF WrittenOver, Pending, Sender
<1> QED
  BY <1>1, <1>4, <1>5 DEF Stored, Sender

LEMMA AcknowledgedOK ==
  ASSUME NEW s \in Sender, NEW n \in Nat
  PROVE  /\ Acknowledged(s, n) \in Sender
         /\ Acknowledged(s, n).reliableSequence = s.reliableSequence
         /\ Acknowledged(s, n).reliableAcknowledge = n
BY DEF Acknowledged, Sender

LEMMA UnacknowledgedOK ==
  ASSUME NEW s \in Sender
  PROVE  /\ Unacknowledged(s) \in Seq(Int)
         /\ InOrder(s) => Len(Unacknowledged(s)) = Pending(s)
<1>1. Pending(s) \in Int
  BY DEF Pending, Sender
<1>2. ASSUME NEW i \in 1 .. Pending(s)
      PROVE  s.reliableCommands[Slot(s.reliableAcknowledge + i)] \in Int
  <2>1. s.reliableAcknowledge + i \in Int
    BY <1>1 DEF Sender
  <2> QED
    BY <2>1, SlotInRing DEF Sender
<1>3. CASE Pending(s) >= 0
  <2>1. Pending(s) \in Nat
    BY <1>1, <1>3
  <2>2. Unacknowledged(s) \in [1 .. Pending(s) -> Int]
    BY <1>2 DEF Unacknowledged
  <2> QED
    BY <2>1, <2>2, LenProperties, IsASeq
<1>4. CASE Pending(s) < 0
  <2>1. 1 .. Pending(s) = 1 .. 0
    BY <1>1, <1>4
  <2>2. Unacknowledged(s) \in [1 .. 0 -> Int]
    BY <1>2, <2>1 DEF Unacknowledged
  <2>3. ~InOrder(s)
    BY <1>4 DEF InOrder, Pending, Sender
  <2> QED
    BY <2>2, <2>3, SeqDef
<1> QED
  BY <1>1, <1>3, <1>4

-----------------------------------------------------------------------------
(* Messages under way. *)

LEMMA SentOK ==
  ASSUME NEW S, NEW channel \in Seq(S), NEW msg \in S
  PROVE  /\ Sent(channel, msg) \in Seq(S)
         /\ \E k \in {0, 1} :
              /\ Len(Sent(channel, msg)) = Len(channel) + 1 - k
              /\ Len(channel) >= k
              /\ \A i \in 1 .. (Len(channel) - k) : Sent(channel, msg)[i] = channel[i + k]
              /\ Sent(channel, msg)[Len(channel) + 1 - k] = msg
<1>1. CASE Len(channel) < MaxInFlight
  BY <1>1, AppendProperties, LenProperties DEF Sent
<1>2. CASE ~(Len(channel) < MaxInFlight)
  <2>1. Len(channel) \in Nat /\ Len(channel) >= 1 /\ channel # <<>>
    BY <1>2, LenProperties, ReliableCommandsAssumption
  <2>2. /\ Tail(channel) \in Seq(S)
        /\ Len(Tail(channel)) = Len(channel) - 1
        /\ \A i \in 1 .. (Len(channel) - 1) : Tail(channel)[i] = channel[i + 1]
    BY <2>1
  <2>3. Sent(channel, msg) = Append(Tail(channel), msg)
    BY <1>2 DEF Sent
  <2>4. /\ Append(Tail(channel), msg) \in Seq(S)
        /\ Len(Append(Tail(channel), msg)) = Len(channel)
        /\ \A i \in 1 .. (Len(channel) - 1) :
             Append(Tail(channel), msg)[i] = Tail(channel)[i]
        /\ Append(Tail(channel), msg)[Len(channel)] = msg
    BY <2>1, <2>2, AppendProperties
  <2>5. \A i \in 1 .. (Len(channel) - 1) : Sent(channel, msg)[i] = channel[i + 1]
    BY <2>2, <2>3, <2>4
  <2>6. Len(channel) + 1 - 1 = Len(channel)
    BY <2>1
  <2> QED
    BY <2>1, <2>3, <2>4, <2>5, <2>6
<1> QED
  BY <1>1, <1>2

LEMMA AfterOK ==
  ASSUME NEW S, NEW channel \in Seq(S), NEW i \in DOMAIN channel
  PROVE  /\ After(channel, i) \in Seq(S)
         /\ Len(After(channel, i)) = Len(channel) - i
         /\ \A j \in 1 .. (Len(channel) - i) : After(channel, i)[j] = channel[i + j]
<1>1. Len(channel) \in Nat /\ i \in 1 .. Len(channel)
  BY LenProperties
<1> QED
  BY <1>1, SubSeqProperties DEF After

(* What is executed up to a "disconnect" is how the texts begin. *)
LEMMA UpToDisconnectOK ==
  ASSUME NEW texts \in Seq(Int)
  PROVE  /\ UpToDisconnect(texts) \in Seq(Int)
         /\ Len(UpToDisconnect(texts)) \in 0 .. Len(texts)
         /\ \A k \in DOMAIN UpToDisconnect(texts) :
              k \in DOMAIN texts /\ UpToDisconnect(texts)[k] = texts[k]
<1>1. CASE texts = <<>>
  BY <1>1, EmptySeq DEF UpToDisconnect
<1>2. CASE texts # <<>>
  <2> DEFINE Ends(k) == texts[k] < 0 \/ k = Len(texts)
              T == {k \in DOMAIN texts : Ends(k)}
              First(k) == Ends(k) /\ \A j \in 1 .. (k - 1) : ~Ends(j)
              K == CHOOSE k \in DOMAIN texts : First(k)
  <2>1. Len(texts) \in Nat /\ DOMAIN texts = 1 .. Len(texts) /\ Len(texts) # 0
    BY <1>2, LenProperties, EmptySeq
  <2>2. T \subseteq Nat /\ Len(texts) \in T
    BY <2>1
  <2>3. PICK x \in T : \A y \in T : x <= y
    BY <2>2, Least
  <2>4. x \in DOMAIN texts /\ First(x)
    <3>1. x \in 1 .. Len(texts) /\ Ends(x)
      BY <2>1
    <3>2. \A j \in 1 .. (x - 1) : j \in 1 .. Len(texts) /\ ~(x <= j)
      <4> HIDE DEF Ends, T
      <4> QED
        BY <2>1, <3>1
    <3>3. ASSUME NEW j \in 1 .. (x - 1), Ends(j)
          PROVE  FALSE
      <4>1. j \in T
        BY <2>1, <3>2, <3>3
      <4> QED
        BY <2>3, <3>2, <4>1
    <3> QED
      BY <2>1, <3>1, <3>3
  <2>5. K \in DOMAIN texts
    <3> HIDE DEF First
    <3> QED
      BY <2>4
  <2>6. UpToDisconnect(texts) = SubSeq(texts, 1, K)
    BY <1>2 DEF UpToDisconnect
  <2> HIDE DEF K
  <2>7. /\ SubSeq(texts, 1, K) \in Seq(Int) /\ Len(SubSeq(texts, 1, K)) = K
        /\ \A k \in 1 .. K : SubSeq(texts, 1, K)[k] = texts[k]
    BY <2>1, <2>5, SubSeqProperties
  <2>8. DOMAIN SubSeq(texts, 1, K) = 1 .. K
    BY <2>1, <2>5, <2>7, LenProperties
  <2> QED
    BY <2>1, <2>5, <2>6, <2>7, <2>8
<1> QED
  BY <1>1, <1>2

(* In a set of numbers up to a bound one is the greatest. *)
LEMMA Greatest ==
  ASSUME NEW a \in Nat, NEW b \in Int, NEW T, T \subseteq a .. b, T # {}
  PROVE  \E x \in T : \A y \in T : y <= x
<1> DEFINE D == {b - y : y \in T}
<1>1. \A y \in T : y \in Int /\ y <= b
  OBVIOUS
<1>2. D \subseteq Nat
  BY <1>1
<1>3. D # {}
  OBVIOUS
<1>4. PICK d \in D : \A e \in D : d <= e
  BY <1>2, <1>3, Least
<1>5. PICK x \in T : d = b - x
  BY <1>4
<1>6. \A y \in T : b - x <= b - y
  BY <1>4, <1>5
<1>7. ASSUME NEW y \in T PROVE y <= x
  BY <1>1, <1>6
<1> QED
  BY <1>7

LEMMA ParsedOK ==
  ASSUME NEW msg \in Downward, got \in Receiver
  PROVE  /\ Parsed(msg) \in Receiver
         /\ \/ Parsed(msg).serverCommandSequence = got.serverCommandSequence
            \/ Parsed(msg).serverCommandSequence = LastOf(msg)
<1> DEFINE new == {n \in msg.first .. LastOf(msg) : n > got.serverCommandSequence}
           In(t) == {n \in new : Slot(n) = t}
           Most(t) == CHOOSE n \in In(t) : \A k \in In(t) : k <= n
           Ring == [t \in Slots |-> IF In(t) = {} THEN got.serverCommands[t]
                                   ELSE msg.texts[Most(t) - msg.first + 1]]
           Number == IF new = {} THEN got.serverCommandSequence ELSE LastOf(msg)
<1>1. /\ msg.first \in Nat /\ msg.texts \in Seq(Int) /\ Len(msg.texts) \in Nat
      /\ LastOf(msg) \in Int /\ LastOf(msg) = msg.first + Len(msg.texts) - 1
  BY LenProperties DEF Downward, LastOf
<1>2. new \subseteq msg.first .. LastOf(msg)
  OBVIOUS
<1>3. Number \in Nat
  <2>1. got.serverCommandSequence \in Nat
    BY DEF Receiver
  <2>2. CASE new = {}
    BY <2>1, <2>2
  <2>3. CASE new # {}
    <3>1. PICK n \in msg.first .. LastOf(msg) : TRUE
      BY <1>2, <2>3
    <3>2. LastOf(msg) \in Nat
      BY <1>1, <3>1
    <3> QED
      BY <2>3, <3>2
  <2> QED
    BY <2>2, <2>3
<1>4. ASSUME NEW t \in Slots, In(t) # {}
      PROVE  msg.texts[Most(t) - msg.first + 1] \in Int
  <2> DEFINE Is(n) == \A k \in In(t) : k <= n
  <2>1. In(t) \subseteq msg.first .. LastOf(msg)
    BY <1>2
  <2>2. \E n \in In(t) : Is(n)
    <3> HIDE DEF In
    <3> QED
      BY <1>1, <1>4, <2>1, Greatest
  <2>3. Most(t) \in In(t)
    <3>1. Most(t) = CHOOSE n \in In(t) : Is(n)
      OBVIOUS
    <3> HIDE DEF In, Is, Most
    <3> QED
      BY <2>2, <3>1
  <2>4. Most(t) \in msg.first .. LastOf(msg)
    BY <2>1, <2>3
  <2> HIDE DEF Most
  <2>5. Most(t) - msg.first + 1 \in 1 .. Len(msg.texts)
    BY <1>1, <2>4
  <2> QED
    BY <1>1, <2>5, ElementOfSeq
<1>5. Ring \in [Slots -> Int]
  <2>1. \A t \in Slots : got.serverCommands[t] \in Int
    BY DEF Receiver
  <2> HIDE DEF In, Most
  <2> QED
    BY <1>4, <2>1
<1>6. Parsed(msg) = [serverCommandSequence |-> Number, serverCommands |-> Ring]
  BY DEF Parsed
<1>7. Number = got.serverCommandSequence \/ Number = LastOf(msg)
  OBVIOUS
<1> HIDE DEF Number, Ring
<1> QED
  BY <1>3, <1>5, <1>6, <1>7 DEF Receiver

(* What SV_DropClient adds changes no acknowledgement. *)
LEMMA DroppedOK ==
  ASSUME NEW s \in Sender, NEW st
  PROVE  /\ Dropped(st, s) \in Sender
         /\ Dropped(st, s).reliableAcknowledge = s.reliableAcknowledge
         /\ Dropped(st, s).reliableSequence >= s.reliableSequence
<1> DEFINE OK(r, q) == /\ r \in Sender /\ r.reliableAcknowledge = q.reliableAcknowledge
                       /\ r.reliableSequence >= q.reliableSequence
<1>0. \A q \in Sender : q.reliableSequence \in Nat
  BY DEF Sender
<1>1. ASSUME NEW q \in Sender PROVE OK(Stored(q, 1), q) /\ OK(Stored(q, -1), q)
  BY <1>0, StoredOK
<1>2. ASSUME NEW q \in Sender PROVE OK(Numbered(q), q)
  BY <1>0, NumberedOK
<1>3. ASSUME NEW q \in Sender PROVE OK(Farewell(q), q)
  <2>1. Farewell(q) = Numbered(q) \/ Farewell(q) = Stored(q, -1)
    BY DEF Farewell
  <2> HIDE DEF OK
  <2> QED
    BY <1>1, <1>2, <2>1
<1>4. ASSUME NEW p \in Sender, NEW q, NEW r, q \in Sender, OK(q, p), OK(r, q)
      PROVE  OK(r, p)
  BY <1>0, <1>4
<1>5. OK(Printed(st, s), s)
  <2>1. OK(s, s)
    BY <1>0
  <2>2. OK(Farewell(Stored(Numbered(s), 1)), s)
    <3> DEFINE a == Numbered(s)
               b == Stored(a, 1)
    <3>1. OK(a, s) /\ a \in Sender
      BY <1>2
    <3>2. OK(b, a) /\ b \in Sender
      BY <1>1, <3>1
    <3>3. OK(b, s)
      BY <1>4, <3>1, <3>2
    <3>4. OK(Farewell(b), b)
      BY <1>3, <3>2
    <3> QED
      BY <1>4, <3>2, <3>3, <3>4
  <2>3. OK(Stored(s, 1), s)
    BY <1>1
  <2>4. \/ Printed(st, s) = s \/ Printed(st, s) = Farewell(Stored(Numbered(s), 1))
        \/ Printed(st, s) = Stored(s, 1)
    BY DEF Printed
  <2> HIDE DEF OK
  <2> QED
    BY <2>1, <2>2, <2>3, <2>4
<1>6. OK(Farewell(Printed(st, s)), Printed(st, s))
  BY <1>3, <1>5
<1>7. OK(Dropped(st, s), s)
  BY <1>4, <1>5, <1>6 DEF Dropped
<1> QED
  BY <1>7

-----------------------------------------------------------------------------
(* What messages under way keep. *)

LEMMA UpSent ==
  ASSUME NEW channel \in Seq(Upward), NEW msg \in Upward, NEW low \in Nat, NEW high \in Nat,
         UpOK(channel, low, high), msg.ack = high
  PROVE  UpOK(Sent(channel, msg), low, high)
<1> DEFINE after == Sent(channel, msg)
<1>1. after \in Seq(Upward) /\ Len(channel) \in Nat /\ Len(after) \in Nat
  BY SentOK, LenProperties
<1>2. PICK k \in {0, 1} :
        /\ Len(after) = Len(channel) + 1 - k
        /\ Len(channel) >= k
        /\ \A i \in 1 .. (Len(channel) - k) : after[i] = channel[i + k]
        /\ after[Len(channel) + 1 - k] = msg
  BY SentOK
<1> HIDE DEF after
<1>3. DOMAIN after = 1 .. Len(after) /\ DOMAIN channel = 1 .. Len(channel)
  BY <1>1, LenProperties
<1>4. \A i \in DOMAIN after : i = Len(after) \/ i \in 1 .. (Len(channel) - k)
  BY <1>1, <1>2, <1>3
<1>5. \A i \in 1 .. (Len(channel) - k) : i + k \in DOMAIN channel
  BY <1>1, <1>2, <1>3
<1>6. \A i \in DOMAIN after : after[i].ack \in low .. high
  <2>1. high \in low .. high
    BY DEF UpOK
  <2> QED
    BY <1>2, <1>4, <1>5, <2>1 DEF UpOK
<1>7. ASSUME NEW i \in DOMAIN after, NEW j \in DOMAIN after, i < j
      PROVE  after[i].ack <= after[j].ack
  <2>1. CASE j = Len(after)
    <3>1. after[j].ack = high
      BY <1>2, <2>1
    <3> QED
      BY <1>6, <3>1
  <2>2. CASE j # Len(after)
    <3>1. i \in 1 .. (Len(channel) - k) /\ j \in 1 .. (Len(channel) - k)
      BY <1>1, <1>2, <1>3, <1>4, <1>7, <2>2
    <3>2. i + k \in DOMAIN channel /\ j + k \in DOMAIN channel /\ i + k < j + k
      BY <1>5, <1>7, <3>1
    <3>3. after[i] = channel[i + k] /\ after[j] = channel[j + k]
      BY <1>2, <3>1
    <3> QED
      BY <3>2, <3>3 DEF UpOK
  <2> QED
    BY <2>1, <2>2
<1> QED
  BY <1>6, <1>7 DEF UpOK, after

LEMMA UpAfter ==
  ASSUME NEW channel \in Seq(Upward), NEW i \in DOMAIN channel, NEW low \in Nat, NEW high \in Nat,
         UpOK(channel, low, high)
  PROVE  /\ UpOK(After(channel, i), low, high)
         /\ UpOK(After(channel, i), channel[i].ack, high)
         /\ channel[i].ack \in low .. high
<1> DEFINE after == After(channel, i)
<1>1. after \in Seq(Upward) /\ Len(channel) \in Nat /\ i \in 1 .. Len(channel)
  BY AfterOK, LenProperties
<1>2. /\ Len(after) = Len(channel) - i
      /\ \A j \in 1 .. (Len(channel) - i) : after[j] = channel[i + j]
  BY AfterOK
<1> HIDE DEF after
<1>3. DOMAIN after = 1 .. (Len(channel) - i) /\ DOMAIN channel = 1 .. Len(channel)
  BY <1>1, <1>2, LenProperties
<1>4. \A j \in DOMAIN after : after[j] = channel[i + j] /\ i + j \in DOMAIN channel /\ i < i + j
  BY <1>1, <1>2, <1>3
<1>5. channel[i].ack \in low .. high
  BY DEF UpOK
<1>6. \A j \in DOMAIN after : after[j].ack \in low .. high /\ channel[i].ack <= after[j].ack
  BY <1>4 DEF UpOK
<1>7. ASSUME NEW j \in DOMAIN after, NEW k \in DOMAIN after, j < k
      PROVE  after[j].ack <= after[k].ack
  <2>1. i + j < i + k
    BY <1>1, <1>3, <1>7
  <2> QED
    BY <1>4, <2>1 DEF UpOK
<1>8. \A j \in DOMAIN after : after[j].ack \in channel[i].ack .. high
  BY <1>5, <1>6
<1>9. low <= high /\ channel[i].ack <= high
  BY <1>5
<1> QED
  BY <1>5, <1>6, <1>7, <1>8, <1>9 DEF UpOK, after

LEMMA UpHigher ==
  ASSUME NEW channel, NEW low \in Nat, NEW high \in Nat, NEW higher \in Nat,
         UpOK(channel, low, high), high <= higher
  PROVE  UpOK(channel, low, higher)
BY DEF UpOK

LEMMA DownSent ==
  ASSUME NEW channel \in Seq(Downward), NEW msg \in Downward, NEW low \in Nat, NEW high \in Nat,
         DownOK(channel, low, high), LastOf(msg) = msg.sequence, msg.sequence = high
  PROVE  DownOK(Sent(channel, msg), low, high)
<1> DEFINE after == Sent(channel, msg)
<1>1. after \in Seq(Downward) /\ Len(channel) \in Nat /\ Len(after) \in Nat
  BY SentOK, LenProperties
<1>2. PICK k \in {0, 1} :
        /\ Len(after) = Len(channel) + 1 - k
        /\ Len(channel) >= k
        /\ \A i \in 1 .. (Len(channel) - k) : after[i] = channel[i + k]
        /\ after[Len(channel) + 1 - k] = msg
  BY SentOK
<1> HIDE DEF after
<1>3. DOMAIN after = 1 .. Len(after) /\ DOMAIN channel = 1 .. Len(channel)
  BY <1>1, LenProperties
<1>4. \A i \in DOMAIN after : i = Len(after) \/ i \in 1 .. (Len(channel) - k)
  BY <1>1, <1>2, <1>3
<1>5. \A i \in 1 .. (Len(channel) - k) : i + k \in DOMAIN channel
  BY <1>1, <1>2, <1>3
<1>6. \A i \in DOMAIN after : MessageOK(after[i], low, high)
  <2>1. MessageOK(msg, low, high)
    BY DEF DownOK, MessageOK
  <2> QED
    BY <1>2, <1>4, <1>5, <2>1 DEF DownOK
<1>7. ASSUME NEW i \in DOMAIN after, NEW j \in DOMAIN after, i < j
      PROVE  after[i].sequence <= after[j].sequence
  <2>1. CASE j = Len(after)
    <3>1. after[j].sequence = high
      BY <1>2, <2>1
    <3> QED
      BY <1>6, <3>1 DEF MessageOK
  <2>2. CASE j # Len(after)
    <3>1. i \in 1 .. (Len(channel) - k) /\ j \in 1 .. (Len(channel) - k)
      BY <1>1, <1>2, <1>3, <1>4, <1>7, <2>2
    <3>2. i + k \in DOMAIN channel /\ j + k \in DOMAIN channel /\ i + k < j + k
      BY <1>5, <1>7, <3>1
    <3>3. after[i] = channel[i + k] /\ after[j] = channel[j + k]
      BY <1>2, <3>1
    <3> QED
      BY <3>2, <3>3 DEF DownOK
  <2> QED
    BY <2>1, <2>2
<1> QED
  BY <1>6, <1>7 DEF DownOK, after

LEMMA DownAfter ==
  ASSUME NEW channel \in Seq(Downward), NEW i \in DOMAIN channel, NEW low \in Nat, NEW high \in Nat,
         DownOK(channel, low, high)
  PROVE  /\ DownOK(After(channel, i), low, high)
         /\ DownOK(After(channel, i), channel[i].sequence, high)
         /\ channel[i].sequence \in low .. high
<1> DEFINE after == After(channel, i)
<1>1. after \in Seq(Downward) /\ Len(channel) \in Nat /\ i \in 1 .. Len(channel)
  BY AfterOK, LenProperties
<1>2. /\ Len(after) = Len(channel) - i
      /\ \A j \in 1 .. (Len(channel) - i) : after[j] = channel[i + j]
  BY AfterOK
<1> HIDE DEF after
<1>3. DOMAIN after = 1 .. (Len(channel) - i) /\ DOMAIN channel = 1 .. Len(channel)
  BY <1>1, <1>2, LenProperties
<1>4. \A j \in DOMAIN after : after[j] = channel[i + j] /\ i + j \in DOMAIN channel /\ i < i + j
  BY <1>1, <1>2, <1>3
<1>5. channel[i].sequence \in low .. high
  BY DEF DownOK, MessageOK
<1>6. \A j \in DOMAIN after :
        MessageOK(after[j], low, high) /\ channel[i].sequence <= after[j].sequence
  BY <1>4 DEF DownOK
<1>7. ASSUME NEW j \in DOMAIN after, NEW k \in DOMAIN after, j < k
      PROVE  after[j].sequence <= after[k].sequence
  <2>1. i + j < i + k
    BY <1>1, <1>3, <1>7
  <2> QED
    BY <1>4, <2>1 DEF DownOK
<1>8. \A j \in DOMAIN after : MessageOK(after[j], channel[i].sequence, high)
  BY <1>5, <1>6 DEF MessageOK
<1>9. low <= high /\ channel[i].sequence <= high
  BY <1>5
<1> QED
  BY <1>5, <1>6, <1>7, <1>8, <1>9 DEF DownOK, after

LEMMA DownHigher ==
  ASSUME NEW channel, NEW low \in Nat, NEW high \in Nat, NEW higher \in Nat,
         DownOK(channel, low, high), high <= higher
  PROVE  DownOK(channel, low, higher)
BY DEF DownOK, MessageOK

-----------------------------------------------------------------------------
(* What is put under way. *)

LEMMA PacketOK ==
  ASSUME NEW c \in Sender, got \in Receiver, level \in Nat
  PROVE  Packet(c) \in Upward /\ Packet(c).ack = got.serverCommandSequence
<1>1. got.serverCommandSequence \in Nat
  BY DEF Receiver
<1>2. got.serverCommands[Slot(got.serverCommandSequence)] \in Int
  BY <1>1, SlotInRing DEF Receiver
<1>3. c.reliableAcknowledge + 1 \in Nat
  BY DEF Sender
<1> QED
  BY <1>1, <1>2, <1>3, UnacknowledgedOK DEF Packet, Upward

LEMMA PayloadOK ==
  ASSUME NEW s \in Sender, InOrder(s), NEW kind \in {"idle", "snapshot", "gamestate"},
         lastClientCommand \in Nat, done \in Seq(Int), serverId \in Nat
  PROVE  /\ Message(s, kind) \in Downward
         /\ LastOf(Message(s, kind)) = s.reliableSequence
         /\ Message(s, kind).sequence = s.reliableSequence
<1>1. lastClientCommandString \in Int
  <2>1. CASE done = <<>>
    BY <2>1 DEF lastClientCommandString
  <2>2. CASE done # <<>>
    <3>1. Len(done) \in 1 .. Len(done)
      BY <2>2, EmptySeq
    <3> QED
      BY <2>2, <3>1, ElementOfSeq DEF lastClientCommandString
  <2> QED
    BY <2>1, <2>2
<1>2. s.reliableAcknowledge \in Nat /\ s.reliableSequence \in Nat
  BY DEF Sender
<1>3. Unacknowledged(s) \in Seq(Int) /\ Len(Unacknowledged(s)) = Pending(s)
  BY UnacknowledgedOK
<1>4. Message(s, kind) \in Downward
  BY <1>1, <1>2, <1>3 DEF Message, Downward
<1>5. /\ Message(s, kind).first = s.reliableAcknowledge + 1
      /\ Message(s, kind).texts = Unacknowledged(s)
      /\ Message(s, kind).sequence = s.reliableSequence
  BY DEF Message
<1>6. LastOf(Message(s, kind)) = (s.reliableAcknowledge + 1) + Pending(s) - 1
  BY <1>3, <1>5 DEF LastOf
<1>7. Pending(s) = s.reliableSequence - s.reliableAcknowledge
  BY DEF Pending
<1>8. LastOf(Message(s, kind)) = s.reliableSequence
  BY <1>2, <1>6, <1>7
<1> QED
  BY <1>4, <1>5, <1>8

(* The last command of a client that leaves goes the way of all packets. *)
LEMMA DisconnectOK ==
  ASSUME NEW c \in Sender, got \in Receiver, level \in Nat, up \in Seq(Upward),
         NEW low \in Nat, UpOK(up, low, got.serverCommandSequence),
         mode \in {"running", "gone", "crashed"},
         CL_Disconnect(c)
  PROVE  /\ cl' \in Sender /\ mode' \in {"running", "gone", "crashed"}
         /\ up' \in Seq(Upward) /\ UpOK(up', low, got.serverCommandSequence)
<1>1. CASE TooMany(c)
  BY <1>1 DEF CL_Disconnect
<1>2. CASE ~TooMany(c)
  <2>1. Stored(c, -1) \in Sender
    BY StoredOK
  <2>2. /\ Packet(Stored(c, -1)) \in Upward
        /\ Packet(Stored(c, -1)).ack = got.serverCommandSequence
    BY <2>1, PacketOK
  <2>3. mode' = "gone" /\ cl' = Stored(c, -1) /\ up' = Sent(up, Packet(Stored(c, -1)))
    BY <1>2 DEF CL_Disconnect
  <2>4. got.serverCommandSequence \in Nat
    BY DEF Receiver
  <2>5. up' \in Seq(Upward)
    BY <2>2, <2>3, SentOK
  <2>6. UpOK(up', low, got.serverCommandSequence)
    BY <2>2, <2>3, <2>4, UpSent
  <2> QED
    BY <2>1, <2>3, <2>5, <2>6
<1> QED
  BY <1>1, <1>2

-----------------------------------------------------------------------------
(* The inductive invariant. *)

LEMMA InitOK == Init => IInv
<1> SUFFICES ASSUME Init PROVE IInv
  OBVIOUS
<1>1. NoCommands \in [Slots -> Int]
  BY DEF NoCommands
<1>2. NewSender \in Sender /\ NewSender.reliableSequence = 0 /\ NewSender.reliableAcknowledge = 0
  BY <1>1 DEF NewSender, Sender
<1>3. got \in Receiver /\ got.serverCommandSequence = 0
  BY <1>1 DEF Init, Receiver
<1>4. TypeOK
  <2>1. done \in Seq(Int) /\ heard \in Seq(Int)
    BY EmptySeq DEF Init
  <2>2. down \in Seq(Downward) /\ up \in Seq(Upward)
    BY EmptySeq DEF Init
  <2>3. sv \in Sender /\ cl \in Sender
    BY <1>2 DEF Init
  <2>4. /\ state = "connected" /\ lastClientCommand = 0 /\ serverId = 1
        /\ mode = "running" /\ snaps = {} /\ level = 0 /\ garbled = FALSE
    BY DEF Init
  <2> QED
    BY <1>3, <2>1, <2>2, <2>3, <2>4 DEF TypeOK
<1>5. WindowOK(state, sv)
  BY <1>2, ReliableCommandsAssumption DEF Init, WindowOK, InOrder
<1>6. UpOK(up, sv.reliableAcknowledge, got.serverCommandSequence)
  BY <1>2, <1>3 DEF Init, UpOK
<1>7. DownOK(down, got.serverCommandSequence, sv.reliableSequence)
  BY <1>2, <1>3 DEF Init, DownOK
<1> QED
  BY <1>4, <1>5, <1>6, <1>7 DEF IInv

(* A step of the server that only adds commands, or drops the client. *)
LEMMA ServerAdds ==
  ASSUME IInv, sv' \in Sender, sv'.reliableAcknowledge = sv.reliableAcknowledge,
         sv'.reliableSequence >= sv.reliableSequence,
         state' \in {"connected", "primed", "active", "zombie", "free"},
         state' \in {"connected", "primed", "active"} =>
           sv'.reliableSequence <= sv'.reliableAcknowledge + MAX_RELIABLE_COMMANDS,
         serverId' \in Nat,
         UNCHANGED <<lastClientCommand, done, clientVars, down, up, garbled>>
  PROVE  IInv'
<1>1. /\ sv.reliableSequence \in Nat /\ sv'.reliableSequence \in Nat
      /\ sv.reliableAcknowledge \in Nat /\ got.serverCommandSequence \in Nat
  BY DEF IInv, TypeOK, Sender, Receiver
<1>2. TypeOK'
  BY DEF IInv, TypeOK, clientVars
<1>3. WindowOK(state, sv)'
  BY <1>1 DEF IInv, WindowOK, InOrder
<1>4. UpOK(up, sv.reliableAcknowledge, got.serverCommandSequence)'
  BY DEF IInv, UpOK, clientVars
<1>5. DownOK(down, got.serverCommandSequence, sv.reliableSequence)'
  <2>1. DownOK(down, got.serverCommandSequence, sv'.reliableSequence)
    BY <1>1, DownHigher DEF IInv
  <2> QED
    BY <2>1 DEF DownOK, MessageOK, clientVars
<1> QED
  BY <1>2, <1>3, <1>4, <1>5 DEF IInv

LEMMA AddServerCommandOK == IInv /\ SV_AddServerCommand => IInv'
<1> SUFFICES ASSUME IInv, SV_AddServerCommand PROVE IInv'
  OBVIOUS
<1>1. sv \in Sender /\ serverId' \in Nat
  BY DEF IInv, TypeOK, SV_AddServerCommand
<1>2. UNCHANGED <<lastClientCommand, done, clientVars, down, up, garbled>>
  BY DEF SV_AddServerCommand
<1>3. state \in {"connected", "primed", "active", "zombie", "free"}
  BY DEF IInv, TypeOK
<1>4. /\ sv.reliableSequence \in Nat /\ sv.reliableAcknowledge \in Nat
      /\ Pending(sv) = sv.reliableSequence - sv.reliableAcknowledge
  BY <1>1 DEF Sender, Pending
<1>5. CASE ~Overflows(sv)
  <2>1. sv' = Stored(sv, 1) /\ state' = state
    BY <1>5 DEF SV_AddServerCommand
  <2>2. /\ sv' \in Sender /\ sv'.reliableAcknowledge = sv.reliableAcknowledge
        /\ sv'.reliableSequence = sv.reliableSequence + 1
    BY <1>1, <2>1, StoredOK
  <2>3. Pending(sv) # MAX_RELIABLE_COMMANDS
    BY <1>5 DEF Overflows
  <2>4. state' \in {"connected", "primed", "active"} =>
          sv'.reliableSequence <= sv'.reliableAcknowledge + MAX_RELIABLE_COMMANDS
    BY <1>4, <2>1, <2>2, <2>3, ReliableCommandsAssumption DEF IInv, WindowOK
  <2>5. sv'.reliableSequence >= sv.reliableSequence
    BY <1>4, <2>2
  <2> QED
    BY <1>1, <1>2, <1>3, <2>1, <2>2, <2>4, <2>5, ServerAdds
<1>6. CASE Overflows(sv) /\ state = "zombie"
  <2>1. sv' = Numbered(sv) /\ state' = "zombie"
    BY <1>6 DEF SV_AddServerCommand
  <2>2. /\ sv' \in Sender /\ sv'.reliableAcknowledge = sv.reliableAcknowledge
        /\ sv'.reliableSequence >= sv.reliableSequence
    BY <1>1, <1>4, <2>1, NumberedOK
  <2> QED
    BY <1>1, <1>2, <2>1, <2>2, ServerAdds
<1>7. CASE Overflows(sv) /\ state # "zombie"
  <2>1. sv' = Dropped(state, Numbered(sv)) /\ state' = "zombie"
    BY <1>7 DEF SV_AddServerCommand
  <2>2. /\ Numbered(sv) \in Sender
        /\ Numbered(sv).reliableAcknowledge = sv.reliableAcknowledge
        /\ Numbered(sv).reliableSequence = sv.reliableSequence + 1
    BY <1>1, NumberedOK
  <2>3. /\ sv' \in Sender /\ sv'.reliableAcknowledge = Numbered(sv).reliableAcknowledge
        /\ sv'.reliableSequence >= Numbered(sv).reliableSequence
    BY <2>1, <2>2, DroppedOK
  <2>4. sv'.reliableSequence >= sv.reliableSequence
    BY <1>4, <2>2, <2>3 DEF Sender
  <2> QED
    BY <1>1, <1>2, <2>1, <2>2, <2>3, <2>4, ServerAdds
<1> QED
  BY <1>5, <1>6, <1>7

LEMMA DropsOK == IInv /\ (SV_DropClient \/ SV_CheckTimeouts \/ NewLevel) => IInv'
<1> SUFFICES ASSUME IInv, SV_DropClient \/ SV_CheckTimeouts \/ NewLevel PROVE IInv'
  OBVIOUS
<1>1. /\ sv \in Sender /\ serverId \in Nat
      /\ state \in {"connected", "primed", "active", "zombie", "free"}
  BY DEF IInv, TypeOK
<1>2. /\ Dropped(state, sv) \in Sender
      /\ Dropped(state, sv).reliableAcknowledge = sv.reliableAcknowledge
      /\ Dropped(state, sv).reliableSequence >= sv.reliableSequence
  BY <1>1, DroppedOK
<1>3. sv.reliableSequence >= sv.reliableSequence
  BY <1>1 DEF Sender
<1>4. CASE SV_DropClient
  <2>1. /\ state' = "zombie" /\ sv' = Dropped(state, sv) /\ serverId' = serverId
        /\ UNCHANGED <<lastClientCommand, done, clientVars, down, up, garbled>>
    BY <1>4 DEF SV_DropClient
  <2> QED
    BY <1>1, <1>2, <2>1, ServerAdds
<1>5. CASE SV_CheckTimeouts
  <2>1. /\ state' = "free" /\ serverId' = serverId
        /\ sv' = sv \/ sv' = Dropped(state, sv)
        /\ UNCHANGED <<lastClientCommand, done, clientVars, down, up, garbled>>
    BY <1>5 DEF SV_CheckTimeouts
  <2> QED
    BY <1>1, <1>2, <1>3, <2>1, ServerAdds
<1>6. CASE NewLevel
  <2>1. /\ sv' = sv /\ serverId' \in Nat
        /\ state' = "zombie" \/ (state' = "connected" /\ state # "zombie" /\ state # "free")
        /\ UNCHANGED <<lastClientCommand, done, clientVars, down, up, garbled>>
    BY <1>1, <1>6 DEF NewLevel
  <2>2. state' = "connected" => state \in {"connected", "primed", "active"}
    BY <1>1, <2>1
  <2>3. state' \in {"connected", "primed", "active"} =>
          sv'.reliableSequence <= sv'.reliableAcknowledge + MAX_RELIABLE_COMMANDS
    BY <2>1, <2>2 DEF IInv, WindowOK
  <2> QED
    BY <1>1, <1>3, <2>1, <2>3, ServerAdds
<1> QED
  BY <1>4, <1>5, <1>6

LEMMA SendOK == IInv /\ SV_SendClientMessages => IInv'
<1> SUFFICES ASSUME IInv, SV_SendClientMessages PROVE IInv'
  OBVIOUS
<1> DEFINE kind == IF state \in {"connected", "primed"} THEN "idle" ELSE "snapshot"
           msg == Message(sv, kind)
<1>1. UNCHANGED <<serverVars, clientVars, up, garbled>> /\ down' = Sent(down, msg)
  BY DEF SV_SendClientMessages
<1>2. /\ msg \in Downward /\ LastOf(msg) = msg.sequence
      /\ msg.sequence = sv.reliableSequence
  BY PayloadOK DEF IInv, TypeOK, WindowOK
<1> HIDE DEF msg
<1>3. sv.reliableSequence \in Nat /\ got.serverCommandSequence \in Nat /\ down \in Seq(Downward)
  BY DEF IInv, TypeOK, Sender, Receiver
<1>4. DownOK(Sent(down, msg), got.serverCommandSequence, sv.reliableSequence)
  BY <1>2, <1>3, DownSent DEF IInv
<1>5. DownOK(down, got.serverCommandSequence, sv.reliableSequence)'
  BY <1>1, <1>4 DEF serverVars, clientVars
<1>6. down' \in Seq(Downward)
  BY <1>1, <1>2, <1>3, SentOK
<1>7. TypeOK'
  BY <1>1, <1>6 DEF IInv, TypeOK, serverVars, clientVars
<1>8. WindowOK(state, sv)' /\ UpOK(up, sv.reliableAcknowledge, got.serverCommandSequence)'
  BY <1>1 DEF IInv, WindowOK, InOrder, UpOK, serverVars, clientVars
<1> QED
  BY <1>5, <1>7, <1>8 DEF IInv

(* The commands and moves of a message. *)
LEMMA ClientCommandsOK ==
  ASSUME NEW msg \in Upward, NEW st \in {"connected", "primed", "active"},
         NEW s \in Sender, lastClientCommand \in Nat, done \in Seq(Int),
         ClientCommands(msg, st, s)
  PROVE  /\ sv' \in Sender /\ sv'.reliableAcknowledge = s.reliableAcknowledge
         /\ sv'.reliableSequence >= s.reliableSequence
         /\ state' \in {"connected", "primed", "active", "zombie"}
         /\ state' # "zombie" => sv' = s
         /\ lastClientCommand' \in Nat /\ done' \in Seq(Int)
<1> DEFINE new == UpToDisconnect(NewTexts(msg))
<1>1. msg.texts \in Seq(Int) /\ msg.first \in Nat
  BY DEF Upward
<1>2. NewTexts(msg) \in Seq(Int)
  <2>1. CASE msg.first > lastClientCommand + 1
    BY <2>1, EmptySeq DEF NewTexts
  <2>2. CASE ~(msg.first > lastClientCommand + 1)
    <3> DEFINE from == lastClientCommand + 2 - msg.first
    <3>1. from \in Int /\ from >= 1 /\ Len(msg.texts) \in Nat
      BY <1>1, <2>2, LenProperties
    <3>2. NewTexts(msg) = SubSeq(msg.texts, from, Len(msg.texts))
      BY <2>2 DEF NewTexts
    <3> HIDE DEF from
    <3>3. \A i \in from .. Len(msg.texts) : i \in 1 .. Len(msg.texts)
      BY <3>1
    <3>4. \A i \in from .. Len(msg.texts) : msg.texts[i] \in Int
      BY <1>1, <3>3, ElementOfSeq
    <3> QED
      BY <3>1, <3>2, <3>4, SubSeqProperties
  <2> QED
    BY <2>1, <2>2
<1>3. new \in Seq(Int) /\ Len(new) \in Nat
  BY <1>2, UpToDisconnectOK, LenProperties
<1>4. /\ Dropped(st, s) \in Sender
      /\ Dropped(st, s).reliableAcknowledge = s.reliableAcknowledge
      /\ Dropped(st, s).reliableSequence >= s.reliableSequence
  BY DroppedOK
<1>5. s.reliableSequence >= s.reliableSequence
  BY DEF Sender
<1>6. CASE Gap(msg)
  <2>1. /\ state' = "zombie" /\ sv' = Dropped(st, s)
        /\ lastClientCommand' = lastClientCommand /\ done' = done
    BY <1>6 DEF ClientCommands
  <2> QED
    BY <1>4, <2>1
<1>7. CASE ~Gap(msg)
  <2>1. /\ done' = done \o new /\ lastClientCommand' = lastClientCommand + Len(new)
        /\ \/ state' = "zombie" /\ sv' = Dropped(st, s)
           \/ sv' = s /\ state' \in {st, "active"}
    BY <1>7 DEF ClientCommands
  <2> HIDE DEF new
  <2>2. done' \in Seq(Int) /\ lastClientCommand' \in Nat
    BY <1>3, <2>1, ConcatProperties
  <2> QED
    BY <1>4, <1>5, <2>1, <2>2
<1> QED
  BY <1>6, <1>7

LEMMA ExecuteOK ==
  ASSUME IInv, NEW i \in DOMAIN up, SV_ExecuteClientMessage(i)
  PROVE  IInv'
<1> DEFINE msg == up[i]
           s == Acknowledged(sv, msg.ack)
           high == got.serverCommandSequence
<1>1. /\ sv \in Sender /\ up \in Seq(Upward) /\ down \in Seq(Downward)
      /\ lastClientCommand \in Nat /\ done \in Seq(Int) /\ serverId \in Nat
      /\ high \in Nat /\ state \in {"connected", "primed", "active", "zombie", "free"}
      /\ sv.reliableSequence \in Nat /\ sv.reliableAcknowledge \in Nat
  BY DEF IInv, TypeOK, Sender, Receiver
<1>2. msg \in Upward /\ msg.ack \in Nat
  <2>1. up[i] \in Upward
    BY <1>1, LenProperties, ElementOfSeq
  <2> QED
    BY <2>1 DEF Upward
<1>3. /\ UpOK(After(up, i), sv.reliableAcknowledge, high)
      /\ UpOK(After(up, i), msg.ack, high)
      /\ msg.ack \in sv.reliableAcknowledge .. high
  BY <1>1, UpAfter DEF IInv
<1>4. /\ s \in Sender /\ s.reliableSequence = sv.reliableSequence
      /\ s.reliableAcknowledge = msg.ack
  BY <1>1, <1>2, AcknowledgedOK
<1>5. UNCHANGED clientVars /\ up' = After(up, i) /\ up' \in Seq(Upward)
  BY <1>1, AfterOK DEF SV_ExecuteClientMessage
<1>6. DownOK(down, high, sv.reliableSequence)
  BY DEF IInv
<1>7. CASE UNCHANGED <<serverVars, down>> /\ garbled' \in BOOLEAN
  <2>1. TypeOK'
    BY <1>5, <1>7 DEF IInv, TypeOK, serverVars, clientVars
  <2>2. WindowOK(state, sv)'
    BY <1>7 DEF IInv, WindowOK, InOrder, serverVars
  <2>3. UpOK(up, sv.reliableAcknowledge, got.serverCommandSequence)'
    BY <1>3, <1>5, <1>7 DEF serverVars, clientVars
  <2>4. DownOK(down, got.serverCommandSequence, sv.reliableSequence)'
    BY <1>5, <1>6, <1>7 DEF serverVars, clientVars
  <2> QED
    BY <2>1, <2>2, <2>3, <2>4 DEF IInv
<1>8. ASSUME NEW st \in {"connected", "primed", "active"}, ClientCommands(msg, st, s),
             down' = down \/ down' = Sent(down, Gamestate(s)),
             state \in {"connected", "primed", "active"},
             serverId' = serverId, garbled' = garbled
      PROVE  IInv'
  <2>1. InOrder(s)
    <3>1. msg.ack <= sv.reliableSequence
      BY <1>1, <1>3, <1>6 DEF DownOK
    <3> QED
      BY <1>4, <3>1 DEF InOrder
  <2>2. /\ sv' \in Sender /\ sv'.reliableAcknowledge = msg.ack
        /\ sv'.reliableSequence >= sv.reliableSequence
        /\ state' \in {"connected", "primed", "active", "zombie"}
        /\ state' # "zombie" => sv' = s
        /\ lastClientCommand' \in Nat /\ done' \in Seq(Int)
    BY <1>1, <1>2, <1>4, <1>8, ClientCommandsOK
  <2>3. /\ Gamestate(s) \in Downward /\ LastOf(Gamestate(s)) = Gamestate(s).sequence
        /\ Gamestate(s).sequence = sv.reliableSequence
    BY <1>1, <1>4, <2>1, PayloadOK DEF Gamestate
  <2>4. down' \in Seq(Downward) /\ DownOK(down', high, sv.reliableSequence)
    <3>1. DownOK(Sent(down, Gamestate(s)), high, sv.reliableSequence)
      BY <1>1, <1>6, <2>3, DownSent
    <3>2. Sent(down, Gamestate(s)) \in Seq(Downward)
      BY <1>1, <2>3, SentOK
    <3> QED
      BY <1>1, <1>6, <1>8, <3>1, <3>2
  <2>5. sv'.reliableSequence \in Nat
    BY <2>2 DEF Sender
  <2>6. DownOK(down', high, sv'.reliableSequence)
    BY <1>1, <2>2, <2>4, <2>5, DownHigher
  <2>7. TypeOK'
    BY <1>5, <1>8, <2>2, <2>4 DEF IInv, TypeOK, clientVars
  <2>8. InOrder(sv')
    <3>1. msg.ack <= sv.reliableSequence
      BY <1>4, <2>1 DEF InOrder
    <3> HIDE DEF msg
    <3> QED
      BY <1>1, <1>2, <2>2, <2>5, <3>1 DEF InOrder
  <2>9. state' # "zombie" =>
          sv'.reliableSequence <= sv'.reliableAcknowledge + MAX_RELIABLE_COMMANDS
    <3>1. sv.reliableSequence <= sv.reliableAcknowledge + MAX_RELIABLE_COMMANDS
      BY <1>8 DEF IInv, WindowOK
    <3>2. sv.reliableAcknowledge <= msg.ack
      BY <1>1, <1>3
    <3>3. sv.reliableSequence <= msg.ack + MAX_RELIABLE_COMMANDS
      BY <1>1, <1>2, <3>1, <3>2, ReliableCommandsAssumption
    <3> QED
      BY <1>4, <2>2, <3>3
  <2>10. WindowOK(state, sv)'
    BY <2>8, <2>9 DEF WindowOK, InOrder
  <2>11. UpOK(up, sv.reliableAcknowledge, got.serverCommandSequence)'
    BY <1>3, <1>5, <2>2 DEF clientVars
  <2>12. DownOK(down, got.serverCommandSequence, sv.reliableSequence)'
    BY <1>5, <2>6 DEF clientVars
  <2> QED
    BY <2>7, <2>10, <2>11, <2>12 DEF IInv
<1>9. CASE state = "zombie"
  <2>1. UNCHANGED <<serverVars, down>> /\ garbled' \in BOOLEAN
    BY <1>9 DEF SV_ExecuteClientMessage, IInv, TypeOK
  <2> QED
    BY <1>7, <2>1
<1>10. CASE state # "zombie"
  <2>1. state \in {"connected", "primed", "active"}
    BY <1>1, <1>10 DEF SV_ExecuteClientMessage
  <2>2. ~(msg.ack < sv.reliableSequence - MAX_RELIABLE_COMMANDS)
    <3>1. sv.reliableSequence <= sv.reliableAcknowledge + MAX_RELIABLE_COMMANDS
      BY <2>1 DEF IInv, WindowOK
    <3> QED
      BY <1>1, <1>2, <1>3, <3>1, ReliableCommandsAssumption
  <2>3. CASE ~ServerDecodes(msg)
    <3>1. UNCHANGED <<serverVars, down>> /\ garbled' \in BOOLEAN
      BY <1>10, <2>2, <2>3 DEF SV_ExecuteClientMessage
    <3> QED
      BY <1>7, <3>1
  <2>4. CASE ServerDecodes(msg)
    <3>1. /\ \/ ClientCommands(msg, state, s) /\ down' = down
             \/ ClientCommands(msg, "primed", s) /\ down' = Sent(down, Gamestate(s))
          /\ serverId' = serverId /\ garbled' = garbled
      BY <1>10, <2>2, <2>4 DEF SV_ExecuteClientMessage
    <3> HIDE DEF msg, s, high
    <3> QED
      BY <1>8, <2>1, <3>1
  <2> QED
    BY <2>3, <2>4
<1> QED
  BY <1>9, <1>10

(* A step of the client that leaves what is under way to it alone. *)
LEMMA ClientSteps ==
  ASSUME IInv, cl' \in Sender, mode' \in {"running", "gone", "crashed"},
         snaps' \subseteq Nat, heard' \in Seq(Int), up' \in Seq(Upward),
         UpOK(up', sv.reliableAcknowledge, got.serverCommandSequence),
         UNCHANGED <<serverVars, got, level, down, garbled>>
  PROVE  IInv'
<1>1. TypeOK'
  BY DEF IInv, TypeOK, serverVars
<1>2. WindowOK(state, sv)'
  BY DEF IInv, WindowOK, InOrder, serverVars
<1>3. UpOK(up, sv.reliableAcknowledge, got.serverCommandSequence)'
  BY DEF serverVars
<1>4. DownOK(down, got.serverCommandSequence, sv.reliableSequence)'
  BY DEF IInv, serverVars
<1> QED
  BY <1>1, <1>2, <1>3, <1>4 DEF IInv

LEMMA PlayerOK == IInv /\ (CL_AddReliableCommand \/ Leave \/ CL_WritePacket) => IInv'
<1> SUFFICES ASSUME IInv, CL_AddReliableCommand \/ Leave \/ CL_WritePacket PROVE IInv'
  OBVIOUS
<1>1. /\ cl \in Sender /\ got \in Receiver /\ level \in Nat /\ up \in Seq(Upward)
      /\ mode \in {"running", "gone", "crashed"} /\ snaps \subseteq Nat /\ heard \in Seq(Int)
      /\ sv.reliableAcknowledge \in Nat /\ got.serverCommandSequence \in Nat
  BY DEF IInv, TypeOK, Sender, Receiver
<1>2. UpOK(up, sv.reliableAcknowledge, got.serverCommandSequence)
  BY DEF IInv
<1>3. CASE CL_Disconnect(cl) /\ UNCHANGED <<serverVars, got, snaps, heard, level, down, garbled>>
  <2>1. /\ cl' \in Sender /\ mode' \in {"running", "gone", "crashed"}
        /\ up' \in Seq(Upward)
        /\ UpOK(up', sv.reliableAcknowledge, got.serverCommandSequence)
    BY <1>1, <1>2, <1>3, DisconnectOK
  <2> QED
    BY <1>1, <1>3, <2>1, ClientSteps
<1>4. CASE cl' = Stored(cl, 1) /\ UNCHANGED <<mode, up>>
           /\ UNCHANGED <<serverVars, got, snaps, heard, level, down, garbled>>
  BY <1>1, <1>2, <1>4, StoredOK, ClientSteps
<1>5. CASE CL_WritePacket
  <2>1. Packet(cl) \in Upward /\ Packet(cl).ack = got.serverCommandSequence
    BY <1>1, PacketOK
  <2>2. up' = Sent(up, Packet(cl)) /\ UNCHANGED <<serverVars, clientVars, down, garbled>>
    BY <1>5 DEF CL_WritePacket
  <2>3. up' \in Seq(Upward)
    BY <1>1, <2>1, <2>2, SentOK
  <2>4. UpOK(up', sv.reliableAcknowledge, got.serverCommandSequence)
    BY <1>1, <1>2, <2>1, <2>2, UpSent
  <2> QED
    BY <1>1, <2>2, <2>3, <2>4, ClientSteps DEF clientVars
<1> QED
  BY <1>3, <1>4, <1>5 DEF CL_AddReliableCommand, Leave

LEMMA ParseOK ==
  ASSUME IInv, NEW i \in DOMAIN down, CL_ParseServerMessage(i)
  PROVE  IInv'
<1> DEFINE msg == down[i]
           parsed == Parsed(msg)
           had == got.serverCommandSequence
<1>1. /\ sv \in Sender /\ up \in Seq(Upward) /\ down \in Seq(Downward)
      /\ cl \in Sender /\ got \in Receiver /\ snaps \subseteq Nat /\ level \in Nat
      /\ had \in Nat /\ cl.reliableSequence \in Nat
      /\ sv.reliableSequence \in Nat /\ sv.reliableAcknowledge \in Nat
  BY DEF IInv, TypeOK, Sender, Receiver
<1>2. msg \in Downward /\ msg.sequence \in Nat /\ msg.last \in Nat /\ msg.serverId \in Nat
  <2>1. down[i] \in Downward
    BY <1>1, LenProperties, ElementOfSeq
  <2> QED
    BY <2>1 DEF Downward
<1>3. /\ DownOK(After(down, i), had, sv.reliableSequence)
      /\ DownOK(After(down, i), msg.sequence, sv.reliableSequence)
      /\ msg.sequence \in had .. sv.reliableSequence
  BY <1>1, DownAfter DEF IInv
<1>4. LastOf(msg) = msg.sequence
  BY DEF IInv, DownOK, MessageOK
<1>5. /\ parsed \in Receiver
      /\ parsed.serverCommandSequence \in {had, msg.sequence}
      /\ parsed.serverCommandSequence \in Nat
  <2>1. /\ Parsed(msg) \in Receiver
        /\ \/ Parsed(msg).serverCommandSequence = had
           \/ Parsed(msg).serverCommandSequence = LastOf(msg)
    BY <1>1, <1>2, ParsedOK
  <2> QED
    BY <1>4, <2>1 DEF Receiver
<1>6. /\ UNCHANGED <<serverVars, up>> /\ down' = After(down, i) /\ down' \in Seq(Downward)
  BY <1>1, AfterOK DEF CL_ParseServerMessage
<1>7. CASE ~ClientDecodes(msg)
  <2>1. UNCHANGED clientVars /\ garbled' \in BOOLEAN
    BY <1>7 DEF CL_ParseServerMessage
  <2>2. TypeOK'
    BY <1>6, <2>1 DEF IInv, TypeOK, serverVars, clientVars
  <2>3. WindowOK(state, sv)' /\ UpOK(up, sv.reliableAcknowledge, got.serverCommandSequence)'
    BY <1>6, <2>1 DEF IInv, WindowOK, InOrder, serverVars, clientVars
  <2>4. DownOK(down, got.serverCommandSequence, sv.reliableSequence)'
    BY <1>3, <1>6, <2>1 DEF serverVars, clientVars
  <2> QED
    BY <2>2, <2>3, <2>4 DEF IInv
<1>8. CASE ClientDecodes(msg)
  <2>1. /\ cl' = Acknowledged(cl, Corrected(msg))
        /\ \/ /\ got' = [serverCommandSequence |-> msg.sequence,
                         serverCommands |-> parsed.serverCommands]
              /\ level' = msg.serverId /\ snaps' = {}
           \/ /\ got' = parsed /\ level' = level
              /\ snaps' \in {snaps, snaps \cup {parsed.serverCommandSequence}}
        /\ UNCHANGED <<mode, heard, garbled>>
    BY <1>8 DEF CL_ParseServerMessage
  <2> HIDE DEF parsed, msg
  <2>2. got' \in Receiver /\ got'.serverCommandSequence \in {had, msg.sequence}
    <3>1. [serverCommandSequence |-> msg.sequence,
           serverCommands |-> parsed.serverCommands] \in Receiver
      BY <1>2, <1>5 DEF Receiver
    <3> QED
      BY <1>5, <2>1, <3>1
  <2>3. level' \in Nat /\ snaps' \subseteq Nat
    BY <1>1, <1>2, <1>5, <2>1
  <2>4. cl' \in Sender
    <3>1. Corrected(msg) \in Nat
      BY <1>1, <1>2 DEF Corrected
    <3> QED
      BY <1>1, <2>1, <3>1, AcknowledgedOK
  <2>5. TypeOK'
    BY <1>6, <2>1, <2>2, <2>3, <2>4 DEF IInv, TypeOK, serverVars
  <2>6. WindowOK(state, sv)'
    BY <1>6 DEF IInv, WindowOK, InOrder, serverVars
  <2>7. had <= msg.sequence
    BY <1>1, <1>2, <1>3
  <2>8. UpOK(up, sv.reliableAcknowledge, got.serverCommandSequence)'
    <3>1. UpOK(up, sv.reliableAcknowledge, had)
      BY DEF IInv
    <3>2. UpOK(up, sv.reliableAcknowledge, msg.sequence)
      BY <1>1, <1>2, <2>7, <3>1, UpHigher
    <3> QED
      BY <1>6, <2>2, <3>1, <3>2 DEF serverVars
  <2>9. DownOK(down, got.serverCommandSequence, sv.reliableSequence)'
    BY <1>3, <1>6, <2>2 DEF serverVars
  <2> QED
    BY <2>5, <2>6, <2>8, <2>9 DEF IInv
<1> QED
  BY <1>7, <1>8

LEMMA HearOK ==
  ASSUME IInv, NEW n \in snaps, CG_ExecuteNewServerCommands(n)
  PROVE  IInv'
<1> DEFINE Text(i) == got.serverCommands[Slot(Len(heard) + i)]
           count == n - Len(heard)
           texts == [i \in 1 .. count |-> Text(i)]
           new == UpToDisconnect(texts)
<1>1. /\ cl \in Sender /\ got \in Receiver /\ level \in Nat /\ up \in Seq(Upward)
      /\ mode \in {"running", "gone", "crashed"} /\ snaps \subseteq Nat /\ n \in Nat
      /\ heard \in Seq(Int) /\ Len(heard) \in Nat /\ sv.reliableAcknowledge \in Nat
  BY LenProperties DEF IInv, TypeOK, Sender
<1>2. UpOK(up, sv.reliableAcknowledge, got.serverCommandSequence)
  BY DEF IInv
<1>3. /\ UNCHANGED <<serverVars, got, level, down, garbled>> /\ snaps' \subseteq snaps
      /\ \/ UNCHANGED <<mode, cl, heard, up>>
         \/ CL_Disconnect(cl) /\ heard' = heard
         \/ /\ n > Len(heard) /\ heard' = heard \o new
            /\ CL_Disconnect(cl) \/ UNCHANGED <<mode, cl, up>>
  BY DEF CG_ExecuteNewServerCommands
<1>4. /\ cl' \in Sender /\ mode' \in {"running", "gone", "crashed"}
      /\ up' \in Seq(Upward)
      /\ UpOK(up', sv.reliableAcknowledge, got.serverCommandSequence)
  <2>1. CASE CL_Disconnect(cl)
    BY <1>1, <1>2, <2>1, DisconnectOK
  <2>2. CASE UNCHANGED <<mode, cl, up>>
    BY <1>1, <1>2, <2>2
  <2> QED
    BY <1>3, <2>1, <2>2
<1>5. heard' \in Seq(Int)
  <2>1. CASE heard' = heard
    BY <1>1, <2>1
  <2>2. CASE n > Len(heard) /\ heard' = heard \o new
    <3>1. count \in Nat
      BY <1>1, <2>2
    <3>2. ASSUME NEW i \in 1 .. count PROVE Text(i) \in Int
      <4>1. Len(heard) + i \in Int
        BY <1>1, <3>1
      <4> QED
        BY <1>1, <4>1, SlotInRing DEF Receiver
    <3> HIDE DEF Text, count
    <3>3. texts \in Seq(Int)
      <4>1. texts \in [1 .. count -> Int]
        BY <3>2
      <4> QED
        BY <3>1, <4>1, SeqDef
    <3>4. new \in Seq(Int)
      BY <3>3, UpToDisconnectOK
    <3> QED
      BY <1>1, <2>2, <3>4, ConcatProperties
  <2> QED
    BY <1>3, <2>1, <2>2
<1> HIDE DEF new
<1> QED
  BY <1>1, <1>3, <1>4, <1>5, ClientSteps

LEMMA StepOK == IInv /\ [Next]_vars => IInv'
<1> SUFFICES ASSUME IInv, [Next]_vars PROVE IInv'
  OBVIOUS
<1>1. CASE ServerNext
  BY <1>1, AddServerCommandOK, DropsOK, SendOK, ExecuteOK DEF ServerNext
<1>2. CASE ClientNext
  BY <1>2, PlayerOK, ParseOK, HearOK DEF ClientNext
<1>3. CASE UNCHANGED vars
  BY <1>3 DEF vars, IInv, TypeOK, WindowOK, InOrder
<1> QED
  BY <1>1, <1>2, <1>3 DEF Next

LEMMA InvariantHolds == Spec => []IInv
<1> QED
  BY InitOK, StepOK, PTL DEF Spec

-----------------------------------------------------------------------------
(* The numbers, rings and messages of both ends stay what they should be.  *)
THEOREM ReliableTypes == Spec => []TypeOK
<1>1. IInv => TypeOK
  BY DEF IInv
<1> QED
  BY <1>1, InvariantHolds, PTL

(* A connected client never has more than MAX_RELIABLE_COMMANDS commands   *)
(* to acknowledge, and no message of a client that follows the protocol    *)
(* acknowledges a command the server has let go of, whatever the network   *)
(* loses: the correction of SV_ExecuteClientMessage is for others.         *)
THEOREM AcknowledgementsStayInWindow == Spec => []AcksStayInWindow
<1>1. IInv => AcksStayInWindow
  <2> SUFFICES ASSUME IInv, Connected PROVE AcksStayInWindow
    BY DEF AcksStayInWindow
  <2>1. /\ sv.reliableSequence \in Nat /\ sv.reliableAcknowledge \in Nat
        /\ got.serverCommandSequence \in Nat /\ up \in Seq(Upward)
    BY DEF IInv, TypeOK, Sender, Receiver
  <2>2. Pending(sv) \in 0 .. MAX_RELIABLE_COMMANDS
    BY <2>1, ReliableCommandsAssumption DEF IInv, WindowOK, InOrder, Pending, Connected
  <2>3. got.serverCommandSequence <= sv.reliableSequence
    BY DEF IInv, DownOK
  <2>4. ASSUME NEW i \in DOMAIN up
        PROVE  up[i].ack \in sv.reliableAcknowledge .. sv.reliableSequence
    <3>1. up[i].ack \in sv.reliableAcknowledge .. got.serverCommandSequence
      BY DEF IInv, UpOK
    <3> QED
      BY <2>1, <2>3, <3>1
  <2> QED
    BY <2>2, <2>4 DEF AcksStayInWindow
<1> QED
  BY <1>1, InvariantHolds, PTL
-----------------------------------------------------------------------------
(***************************************************************************)
(* The texts of the commands: what is executed under a number, and what a  *)
(* message is encoded with, is the text the number was given.              *)
(*                                                                         *)
(* A ring of MAX_RELIABLE_COMMANDS texts has the last that many of its     *)
(* numbers (RingSays).  From there the texts go, with their numbers,       *)
(* through the messages under way (DownSays, UpSays) into the client's     *)
(* ring (GotSays) and what either end executes (HeardSays, DoneSays).  The *)
(* numbers without a text are those in lost.  A text alone does not tell   *)
(* whether a command was a "disconnect"; but an end that has sent one      *)
(* sends nothing more (ServerPlain, ClientPlain).                          *)
(***************************************************************************)

Says(text, n, lost) == text \in {n, -n} \/ n \in lost

RingSays(s) ==
  \A n \in 0 .. s.reliableSequence :
    n > s.reliableSequence - MAX_RELIABLE_COMMANDS
      => Says(s.reliableCommands[Slot(n)], n, s.lost)

(* Every number not acknowledged, unless it is lost. *)
KeepsAll(s) ==
  \A n \in 1 .. s.reliableSequence :
    n > s.reliableAcknowledge /\ n <= s.reliableSequence - MAX_RELIABLE_COMMANDS
      => n \in s.lost

GotSays(g, lost) ==
  \A n \in 0 .. g.serverCommandSequence :
    n > g.serverCommandSequence - MAX_RELIABLE_COMMANDS
      => Says(g.serverCommands[Slot(n)], n, lost)

(* A message to the client, of which only the last MAX_RELIABLE_COMMANDS   *)
(* texts will be kept; and none before them is missing.                    *)
DownSays(msg, s, c, g) ==
  /\ msg.first <= g.serverCommandSequence + 1
  /\ \A n \in msg.first .. LastOf(msg) :
       n > LastOf(msg) - MAX_RELIABLE_COMMANDS
         => Says(msg.texts[n - msg.first + 1], n, s.lost)
  /\ Says(msg.key, msg.last, c.lost) /\ msg.last <= c.reliableSequence

UpSays(msg, s, c) ==
  /\ \A n \in msg.first .. LastOf(msg) : Says(msg.texts[n - msg.first + 1], n, c.lost)
  /\ LastOf(msg) <= c.reliableSequence
  /\ Says(msg.key, msg.ack, s.lost)

HeardSays ==
  /\ snaps \subseteq 0 .. got.serverCommandSequence
  /\ \A n \in DOMAIN heard : Says(heard[n], n, sv.lost)

DoneSays ==
  /\ lastClientCommand = Len(done) /\ lastClientCommand <= cl.reliableSequence
  /\ \A n \in DOMAIN done : Says(done[n], n, cl.lost)

(* No "disconnect" among them. *)
Plain(texts) == \A i \in DOMAIN texts : texts[i] >= 0

ServerPlain ==
  Connected =>
    /\ sv.lost = {} /\ Plain(sv.reliableCommands) /\ Plain(got.serverCommands)
    /\ \A i \in DOMAIN down : Plain(down[i].texts)
    /\ \A i \in DOMAIN up : up[i].key >= 0

ClientPlain ==
  mode = "running" =>
    /\ Plain(cl.reliableCommands) /\ Plain(done)
    /\ \A i \in DOMAIN up : Plain(up[i].texts)
    /\ \A i \in DOMAIN down : down[i].key >= 0

SaysInv ==
  /\ RingSays(sv) /\ RingSays(cl) /\ KeepsAll(cl) /\ InOrder(cl)
  /\ GotSays(got, sv.lost)
  /\ \A i \in DOMAIN down : DownSays(down[i], sv, cl, got)
  /\ \A i \in DOMAIN up : UpSays(up[i], sv, cl)
  /\ HeardSays /\ DoneSays
  /\ ServerPlain /\ ClientPlain

-----------------------------------------------------------------------------
(* The rings.                                                              *)

(* The last MAX_RELIABLE_COMMANDS numbers have slots of their own. *)
LEMMA SlotsDiffer ==
  ASSUME NEW a \in Int, NEW b \in Int, a < b, b - a < MAX_RELIABLE_COMMANDS
  PROVE  Slot(a) # Slot(b)
<1>1. MAX_RELIABLE_COMMANDS \in Nat \ {0}
  BY ReliableCommandsAssumption
<1>2. a % MAX_RELIABLE_COMMANDS # b % MAX_RELIABLE_COMMANDS
  BY <1>1, PlacesDiffer, Zenon
<1>. QED
  BY <1>2 DEF Slot

(* What is said holds on when more is lost. *)
LEMMA SaysOn ==
  ASSUME NEW text, NEW n, NEW lost, NEW more, lost \subseteq more, Says(text, n, lost)
  PROVE  Says(text, n, more)
  BY DEF Says

(* A command that is counted but not stored is lost. *)
LEMMA NumberedSays ==
  ASSUME NEW s \in Sender, RingSays(s)
  PROVE  RingSays(Numbered(s)) /\ s.lost \subseteq Numbered(s).lost
<1>. USE ReliableCommandsAssumption
<1>. DEFINE t == Numbered(s)
            k == s.reliableSequence + 1
<1>1. /\ t.reliableSequence = k /\ t.reliableCommands = s.reliableCommands
      /\ t.lost = s.lost \cup {k} /\ s.reliableSequence \in Nat
  BY DEF Numbered, Sender
<1>. HIDE DEF t
<1>2. ASSUME NEW n \in 0 .. k, n > k - MAX_RELIABLE_COMMANDS
      PROVE  Says(t.reliableCommands[Slot(n)], n, t.lost)
  <2>1. CASE n = k
    BY <1>1, <2>1 DEF Says
  <2>2. CASE n # k
    <3>1. n \in 0 .. s.reliableSequence /\ n > s.reliableSequence - MAX_RELIABLE_COMMANDS
      BY <1>1, <1>2, <2>2
    <3>. QED
      BY <1>1, <3>1 DEF RingSays, Says
  <2>. QED
    BY <2>1, <2>2
<1>3. s.lost \subseteq t.lost
  BY <1>1
<1>. QED
  BY <1>1, <1>2, <1>3 DEF RingSays, t

(* A command that is stored writes over none of the last                   *)
(* MAX_RELIABLE_COMMANDS, and what it writes over is acknowledged or lost. *)
LEMMA StoredSays ==
  ASSUME NEW s \in Sender, NEW sign \in {1, -1}, RingSays(s)
  PROVE  /\ RingSays(Stored(s, sign)) /\ s.lost \subseteq Stored(s, sign).lost
         /\ KeepsAll(s) => KeepsAll(Stored(s, sign))
<1>. USE ReliableCommandsAssumption
<1>. DEFINE t == Stored(s, sign)
            k == s.reliableSequence + 1
<1>1. /\ t.reliableSequence = k /\ t.reliableAcknowledge = s.reliableAcknowledge
      /\ t.reliableCommands = [s.reliableCommands EXCEPT ![Slot(k)] = sign * k]
      /\ t.lost = s.lost \cup WrittenOver(s)
      /\ s.reliableSequence \in Nat /\ k \in Nat /\ s.reliableAcknowledge \in Nat
  BY DEF Stored, Sender
<1>2. DOMAIN s.reliableCommands = Slots
  BY DEF Sender
<1>. HIDE DEF t
<1>3. ASSUME NEW n \in 0 .. k, n > k - MAX_RELIABLE_COMMANDS
      PROVE  Says(t.reliableCommands[Slot(n)], n, t.lost)
  <2>0. Slot(n) \in Slots /\ Slot(k) \in Slots
    BY <1>1, SlotInRing
  <2>1. CASE n = k
    <3>1. t.reliableCommands[Slot(n)] = sign * k
      BY <1>1, <1>2, <2>0, <2>1
    <3>. QED
      BY <1>1, <2>1, <3>1 DEF Says
  <2>2. CASE n # k
    <3>1. n \in 0 .. s.reliableSequence /\ n > s.reliableSequence - MAX_RELIABLE_COMMANDS
      BY <1>1, <1>3, <2>2
    <3>2. Slot(n) # Slot(k)
      BY <1>1, <1>3, <2>2, SlotsDiffer
    <3>3. t.reliableCommands[Slot(n)] = s.reliableCommands[Slot(n)]
      BY <1>1, <1>2, <2>0, <3>2
    <3>. QED
      BY <1>1, <3>1, <3>3 DEF RingSays, Says
  <2>. QED
    BY <2>1, <2>2
<1>4. ASSUME KeepsAll(s), NEW n \in 1 .. k, n > s.reliableAcknowledge,
             n <= k - MAX_RELIABLE_COMMANDS
      PROVE  n \in t.lost
  <2>1. n \in 1 .. s.reliableSequence
    BY <1>1, <1>4
  <2>2. CASE n <= s.reliableSequence - MAX_RELIABLE_COMMANDS
    BY <1>1, <1>4, <2>1, <2>2 DEF KeepsAll
  <2>3. CASE n = k - MAX_RELIABLE_COMMANDS
    BY <1>1, <1>4, <2>3 DEF WrittenOver, Pending
  <2>. QED
    BY <1>1, <1>4, <2>2, <2>3
<1>5. s.lost \subseteq t.lost
  BY <1>1
<1>. QED
  BY <1>1, <1>3, <1>4, <1>5 DEF RingSays, KeepsAll, t

(* An acknowledgement of what the ring still has changes nothing. *)
LEMMA AcknowledgedSays ==
  ASSUME NEW s \in Sender, NEW n \in Nat, RingSays(s)
  PROVE  /\ RingSays(Acknowledged(s, n)) /\ Acknowledged(s, n).lost = s.lost
         /\ n >= s.reliableSequence - MAX_RELIABLE_COMMANDS => KeepsAll(Acknowledged(s, n))
<1>. USE ReliableCommandsAssumption
<1>1. /\ Acknowledged(s, n).reliableSequence = s.reliableSequence
      /\ Acknowledged(s, n).reliableAcknowledge = n
      /\ Acknowledged(s, n).reliableCommands = s.reliableCommands
      /\ Acknowledged(s, n).lost = s.lost /\ s.reliableSequence \in Nat
  BY DEF Acknowledged, Sender
<1>. QED
  BY <1>1 DEF RingSays, KeepsAll

(* Nor does what SV_DropClient adds. *)
LEMMA DroppedSays ==
  ASSUME NEW s \in Sender, NEW st, RingSays(s)
  PROVE  RingSays(Dropped(st, s)) /\ s.lost \subseteq Dropped(st, s).lost
<1>. DEFINE OK(r, q) == r \in Sender /\ RingSays(r) /\ q.lost \subseteq r.lost
<1>1. ASSUME NEW q \in Sender, RingSays(q)
      PROVE  OK(Stored(q, 1), q) /\ OK(Stored(q, -1), q) /\ OK(Numbered(q), q)
  BY <1>1, StoredOK, NumberedOK, StoredSays, NumberedSays
<1>2. ASSUME NEW q \in Sender, RingSays(q) PROVE OK(Farewell(q), q)
  <2>1. Farewell(q) = Numbered(q) \/ Farewell(q) = Stored(q, -1)
    BY DEF Farewell
  <2>. HIDE DEF OK
  <2>. QED
    BY <1>1, <1>2, <2>1
<1>3. OK(Printed(st, s), s)
  <2>1. OK(s, s)
    OBVIOUS
  <2>2. OK(Farewell(Stored(Numbered(s), 1)), s)
    <3>. DEFINE a == Numbered(s)
                b == Stored(a, 1)
    <3>1. OK(a, s)
      BY <1>1
    <3>2. OK(b, a)
      BY <1>1, <3>1
    <3>3. OK(Farewell(b), b)
      BY <1>2, <3>2
    <3>. QED
      BY <3>1, <3>2, <3>3
  <2>3. OK(Stored(s, 1), s)
    BY <1>1
  <2>4. \/ Printed(st, s) = s \/ Printed(st, s) = Farewell(Stored(Numbered(s), 1))
        \/ Printed(st, s) = Stored(s, 1)
    BY DEF Printed
  <2>. HIDE DEF OK
  <2>. QED
    BY <2>1, <2>2, <2>3, <2>4
<1>4. OK(Farewell(Printed(st, s)), Printed(st, s))
  BY <1>2, <1>3
<1>. QED
  BY <1>3, <1>4 DEF Dropped

-----------------------------------------------------------------------------
(* The messages.                                                           *)

(* What is under way after a message was sent. *)
LEMMA SentElements ==
  ASSUME NEW S, NEW channel \in Seq(S), NEW msg \in S, NEW i \in DOMAIN Sent(channel, msg)
  PROVE  Sent(channel, msg)[i] = msg
         \/ \E j \in DOMAIN channel : Sent(channel, msg)[i] = channel[j]
<1>. DEFINE after == Sent(channel, msg)
<1>1. after \in Seq(S) /\ Len(channel) \in Nat /\ Len(after) \in Nat
  BY SentOK, LenProperties
<1>2. PICK k \in {0, 1} :
        /\ Len(after) = Len(channel) + 1 - k
        /\ Len(channel) >= k
        /\ \A j \in 1 .. (Len(channel) - k) : after[j] = channel[j + k]
        /\ after[Len(channel) + 1 - k] = msg
  BY SentOK
<1>. HIDE DEF after
<1>3. DOMAIN after = 1 .. Len(after) /\ DOMAIN channel = 1 .. Len(channel)
  BY <1>1, LenProperties
<1>4. i \in 1 .. Len(after)
  BY <1>3 DEF after
<1>5. CASE i = Len(after)
  BY <1>2, <1>5 DEF after
<1>6. CASE i # Len(after)
  <2>1. i \in 1 .. (Len(channel) - k) /\ i + k \in 1 .. Len(channel)
    BY <1>1, <1>2, <1>4, <1>6
  <2>2. after[i] = channel[i + k] /\ i + k \in DOMAIN channel
    BY <1>2, <1>3, <2>1
  <2>. QED
    BY <2>2 DEF after
<1>. QED
  BY <1>5, <1>6

(* What is under way after one was read. *)
LEMMA AfterElements ==
  ASSUME NEW S, NEW channel \in Seq(S), NEW i \in DOMAIN channel,
         NEW j \in DOMAIN After(channel, i)
  PROVE  \E k \in DOMAIN channel : After(channel, i)[j] = channel[k]
<1>. DEFINE after == After(channel, i)
<1>1. /\ after \in Seq(S) /\ Len(after) = Len(channel) - i
      /\ \A k \in 1 .. (Len(channel) - i) : after[k] = channel[i + k]
  BY AfterOK
<1>2. Len(channel) \in Nat /\ i \in 1 .. Len(channel) /\ DOMAIN channel = 1 .. Len(channel)
  BY LenProperties
<1>. HIDE DEF after
<1>3. DOMAIN after = 1 .. (Len(channel) - i)
  BY <1>1, LenProperties
<1>4. j \in 1 .. (Len(channel) - i)
  BY <1>3 DEF after
<1>5. i + j \in DOMAIN channel /\ after[j] = channel[i + j]
  BY <1>1, <1>2, <1>4
<1>. QED
  BY <1>5 DEF after

(* The texts not acknowledged are those of their slots. *)
LEMMA UnacknowledgedTexts ==
  ASSUME NEW s \in Sender, InOrder(s)
  PROVE  /\ Unacknowledged(s) \in Seq(Int)
         /\ Len(Unacknowledged(s)) = s.reliableSequence - s.reliableAcknowledge
         /\ \A n \in (s.reliableAcknowledge + 1) .. s.reliableSequence :
              Unacknowledged(s)[n - s.reliableAcknowledge] = s.reliableCommands[Slot(n)]
         /\ Plain(s.reliableCommands) => Plain(Unacknowledged(s))
<1>1. s.reliableAcknowledge \in Nat /\ s.reliableSequence \in Nat
      /\ DOMAIN s.reliableCommands = Slots
  BY DEF Sender
<1>2. Unacknowledged(s) \in Seq(Int) /\ Len(Unacknowledged(s)) = Pending(s)
  BY UnacknowledgedOK
<1>3. ASSUME NEW n \in (s.reliableAcknowledge + 1) .. s.reliableSequence
      PROVE  Unacknowledged(s)[n - s.reliableAcknowledge] = s.reliableCommands[Slot(n)]
  <2>1. n - s.reliableAcknowledge \in 1 .. Pending(s)
        /\ s.reliableAcknowledge + (n - s.reliableAcknowledge) = n
    BY <1>1 DEF Pending
  <2>. QED
    BY <2>1 DEF Unacknowledged
<1>4. ASSUME Plain(s.reliableCommands), NEW i \in 1 .. Pending(s)
      PROVE  Unacknowledged(s)[i] >= 0
  <2>1. Slot(s.reliableAcknowledge + i) \in Slots
    BY <1>1, SlotInRing
  <2>2. Unacknowledged(s)[i] = s.reliableCommands[Slot(s.reliableAcknowledge + i)]
    BY DEF Unacknowledged
  <2>. QED
    BY <1>1, <1>4, <2>1, <2>2 DEF Plain
<1>5. DOMAIN Unacknowledged(s) = 1 .. Pending(s)
  BY DEF Unacknowledged
<1>. QED
  BY <1>2, <1>3, <1>4, <1>5 DEF Pending, Plain

(* What is under way to the client keeps saying so while numbers and       *)
(* losses grow.                                                            *)
LEMMA DownSaysOn ==
  ASSUME NEW msg \in Downward, NEW s, NEW c, NEW g, DownSays(msg, s, c, g),
         NEW t, NEW d, NEW h, s.lost \subseteq t.lost, c.lost \subseteq d.lost,
         c.reliableSequence \in Nat, d.reliableSequence \in Nat,
         c.reliableSequence <= d.reliableSequence,
         g.serverCommandSequence \in Nat, h.serverCommandSequence \in Nat,
         g.serverCommandSequence <= h.serverCommandSequence
  PROVE  DownSays(msg, t, d, h)
<1>1. msg.first \in Nat /\ msg.last \in Nat
  BY DEF Downward
<1>. QED
  BY <1>1 DEF DownSays, Says

(* ... and so does what is under way to the server. *)
LEMMA UpSaysOn ==
  ASSUME NEW msg \in Upward, NEW s, NEW c, UpSays(msg, s, c),
         NEW t, NEW d, s.lost \subseteq t.lost, c.lost \subseteq d.lost,
         c.reliableSequence \in Nat, d.reliableSequence \in Nat,
         c.reliableSequence <= d.reliableSequence
  PROVE  UpSays(msg, t, d)
<1>1. LastOf(msg) \in Int
  <2>1. msg.first \in Nat /\ Len(msg.texts) \in Nat
    BY LenProperties DEF Upward
  <2>. QED
    BY <2>1 DEF LastOf
<1>. QED
  BY <1>1 DEF UpSays, Says

(* A message of the client's. *)
LEMMA PacketSays ==
  ASSUME NEW c \in Sender, InOrder(c), RingSays(c), KeepsAll(c), got \in Receiver,
         NEW s, GotSays(got, s.lost)
  PROVE  /\ UpSays(Packet(c), s, c)
         /\ Plain(c.reliableCommands) => Plain(Packet(c).texts)
         /\ Plain(got.serverCommands) => Packet(c).key >= 0
<1>. USE ReliableCommandsAssumption
<1>. DEFINE msg == Packet(c)
            seq == got.serverCommandSequence
<1>1. /\ msg.first = c.reliableAcknowledge + 1 /\ msg.texts = Unacknowledged(c)
      /\ msg.ack = seq /\ msg.key = got.serverCommands[Slot(seq)]
  BY DEF Packet
<1>. HIDE DEF msg
<1>2. /\ c.reliableAcknowledge \in Nat /\ c.reliableSequence \in Nat /\ seq \in Nat
      /\ DOMAIN got.serverCommands = Slots
  BY DEF Sender, Receiver
<1>3. LastOf(msg) = c.reliableSequence
  <2>1. Len(msg.texts) = c.reliableSequence - c.reliableAcknowledge
    BY <1>1, UnacknowledgedTexts
  <2>. QED
    BY <1>1, <1>2, <2>1 DEF LastOf
<1>4. ASSUME NEW n \in msg.first .. LastOf(msg)
      PROVE  Says(msg.texts[n - msg.first + 1], n, c.lost)
  <2>1. /\ n \in (c.reliableAcknowledge + 1) .. c.reliableSequence
        /\ n - msg.first + 1 = n - c.reliableAcknowledge
    BY <1>1, <1>2, <1>3
  <2>2. msg.texts[n - msg.first + 1] = c.reliableCommands[Slot(n)]
    BY <1>1, <2>1, UnacknowledgedTexts
  <2>3. CASE n > c.reliableSequence - MAX_RELIABLE_COMMANDS
    BY <1>2, <2>1, <2>2, <2>3 DEF RingSays
  <2>4. CASE n <= c.reliableSequence - MAX_RELIABLE_COMMANDS
    BY <1>2, <2>1, <2>4 DEF KeepsAll, Says
  <2>. QED
    BY <1>2, <2>1, <2>3, <2>4
<1>5. Says(msg.key, msg.ack, s.lost)
  BY <1>1, <1>2 DEF GotSays
<1>6. Plain(got.serverCommands) => msg.key >= 0
  BY <1>1, <1>2, SlotInRing DEF Plain
<1>7. Plain(c.reliableCommands) => Plain(msg.texts)
  BY <1>1, UnacknowledgedTexts
<1>. QED
  BY <1>2, <1>3, <1>4, <1>5, <1>6, <1>7 DEF UpSays, msg

(* A message of the server's. *)
LEMMA MessageSays ==
  ASSUME NEW s \in Sender, InOrder(s), RingSays(s), NEW kind,
         got.serverCommandSequence \in Nat,
         s.reliableAcknowledge <= got.serverCommandSequence,
         DoneSays, done \in Seq(Int), cl.reliableSequence \in Nat
  PROVE  /\ DownSays(Message(s, kind), s, cl, got)
         /\ Plain(s.reliableCommands) => Plain(Message(s, kind).texts)
         /\ Plain(done) => Message(s, kind).key >= 0
<1>. USE ReliableCommandsAssumption
<1>. DEFINE msg == Message(s, kind)
<1>1. /\ msg.first = s.reliableAcknowledge + 1 /\ msg.texts = Unacknowledged(s)
      /\ msg.last = lastClientCommand /\ msg.key = lastClientCommandString
  BY DEF Message
<1>. HIDE DEF msg
<1>2. s.reliableAcknowledge \in Nat /\ s.reliableSequence \in Nat
  BY DEF Sender
<1>3. LastOf(msg) = s.reliableSequence
  <2>1. Len(msg.texts) = s.reliableSequence - s.reliableAcknowledge
    BY <1>1, UnacknowledgedTexts
  <2>. QED
    BY <1>1, <1>2, <2>1 DEF LastOf
<1>4. ASSUME NEW n \in msg.first .. LastOf(msg), n > LastOf(msg) - MAX_RELIABLE_COMMANDS
      PROVE  Says(msg.texts[n - msg.first + 1], n, s.lost)
  <2>1. /\ n \in (s.reliableAcknowledge + 1) .. s.reliableSequence
        /\ n - msg.first + 1 = n - s.reliableAcknowledge
    BY <1>1, <1>2, <1>3
  <2>2. msg.texts[n - msg.first + 1] = s.reliableCommands[Slot(n)]
    BY <1>1, <2>1, UnacknowledgedTexts
  <2>. QED
    BY <1>2, <1>3, <1>4, <2>1, <2>2 DEF RingSays
<1>5. Says(msg.key, msg.last, cl.lost) /\ (Plain(done) => msg.key >= 0)
  <2>1. CASE done = <<>>
    BY <1>1, <2>1 DEF DoneSays, Says, lastClientCommandString
  <2>2. CASE done # <<>>
    <3>1. Len(done) \in DOMAIN done
      BY <2>2, LenProperties, EmptySeq
    <3>2. msg.key = done[Len(done)] /\ msg.last = Len(done)
      BY <1>1, <2>2 DEF DoneSays, lastClientCommandString
    <3>. QED
      BY <3>1, <3>2 DEF DoneSays, Plain
  <2>. QED
    BY <2>1, <2>2
<1>6. msg.last <= cl.reliableSequence
  BY <1>1 DEF DoneSays
<1>7. msg.first <= got.serverCommandSequence + 1
  BY <1>1, <1>2
<1>8. Plain(s.reliableCommands) => Plain(msg.texts)
  BY <1>1, UnacknowledgedTexts
<1>. QED
  BY <1>4, <1>5, <1>6, <1>7, <1>8 DEF DownSays, msg

(* What the client has after a message: the last MAX_RELIABLE_COMMANDS of  *)
(* what it had and of what the message says.                               *)
LEMMA ParsedSays ==
  ASSUME NEW msg \in Downward, got \in Receiver, NEW lost, GotSays(got, lost),
         msg.first <= got.serverCommandSequence + 1,
         LastOf(msg) >= got.serverCommandSequence,
         \A n \in msg.first .. LastOf(msg) :
           n > LastOf(msg) - MAX_RELIABLE_COMMANDS
             => Says(msg.texts[n - msg.first + 1], n, lost)
  PROVE  /\ Parsed(msg).serverCommandSequence = LastOf(msg)
         /\ GotSays(Parsed(msg), lost)
         /\ Plain(got.serverCommands) /\ Plain(msg.texts) => Plain(Parsed(msg).serverCommands)
<1>. USE ReliableCommandsAssumption
<1>. DEFINE had == got.serverCommandSequence
            last == LastOf(msg)
            new == {n \in msg.first .. LastOf(msg) : n > got.serverCommandSequence}
            In(t) == {n \in new : Slot(n) = t}
            Most(t) == CHOOSE n \in In(t) : \A k \in In(t) : k <= n
            ring == [t \in Slots |-> IF In(t) = {} THEN got.serverCommands[t]
                                    ELSE msg.texts[Most(t) - msg.first + 1]]
<1>1. /\ msg.first \in Nat /\ msg.texts \in Seq(Int) /\ Len(msg.texts) \in Nat
      /\ last \in Int /\ last = msg.first + Len(msg.texts) - 1
      /\ had \in Nat /\ last \in Nat /\ last >= had /\ msg.first <= had + 1
      /\ DOMAIN msg.texts = 1 .. Len(msg.texts)
  BY LenProperties DEF Downward, LastOf, Receiver
<1>2. /\ Parsed(msg).serverCommands = ring
      /\ Parsed(msg).serverCommandSequence = IF new = {} THEN had ELSE last
  BY DEF Parsed
<1>3. Parsed(msg).serverCommandSequence = last
  <2>1. CASE last = had
    BY <1>2, <2>1
  <2>2. CASE last # had
    <3>1. last \in new
      BY <1>1, <2>2
    <3>. QED
      BY <1>2, <3>1
  <2>. QED
    BY <2>1, <2>2
<1>4. \A t : In(t) \subseteq msg.first .. last /\ \A m \in In(t) : m > had /\ Slot(m) = t
  OBVIOUS
<1>5. \A m \in Int : m \in msg.first .. last /\ m > had => m \in In(Slot(m))
  OBVIOUS
<1>6. ASSUME NEW t \in Slots, In(t) # {}
      PROVE  Most(t) \in In(t) /\ \A k \in In(t) : k <= Most(t)
  <2>1. \E n \in In(t) : \A k \in In(t) : k <= n
    <3>1. In(t) \subseteq msg.first .. last
      BY <1>4
    <3>. HIDE DEF In, last
    <3>. QED
      BY <1>1, <1>6, <3>1, Greatest
  <2>. HIDE DEF In
  <2>. QED
    BY <2>1
<1>. HIDE DEF In, Most, new, last
<1>7. ASSUME NEW n \in 0 .. last, n > last - MAX_RELIABLE_COMMANDS
      PROVE  Says(ring[Slot(n)], n, lost)
  <2>1. Slot(n) \in Slots
    BY <1>1, SlotInRing
  <2>2. CASE n > had
    <3>1. n \in In(Slot(n)) /\ n \in msg.first .. last
      BY <1>1, <1>5, <2>2
    <3>2. \A k \in In(Slot(n)) : k <= n
      <4>1. SUFFICES ASSUME NEW k \in In(Slot(n)), k > n PROVE FALSE
        BY <1>1, <1>4
      <4>2. k \in Int /\ k <= last /\ Slot(k) = Slot(n)
        BY <1>1, <1>4
      <4>3. k - n < MAX_RELIABLE_COMMANDS
        BY <1>1, <1>7, <4>2
      <4>. QED
        BY <4>1, <4>2, <4>3, SlotsDiffer
    <3>3. Most(Slot(n)) = n
      <4>1. Most(Slot(n)) \in In(Slot(n)) /\ n <= Most(Slot(n))
        BY <1>6, <2>1, <3>1
      <4>2. Most(Slot(n)) \in Int
        BY <1>1, <1>4, <4>1
      <4>. QED
        BY <3>2, <4>1, <4>2
    <3>4. ring[Slot(n)] = msg.texts[n - msg.first + 1]
      BY <2>1, <3>1, <3>3
    <3>. QED
      BY <1>7, <3>1, <3>4 DEF last
  <2>3. CASE n <= had
    <3>1. In(Slot(n)) = {}
      <4>1. SUFFICES ASSUME NEW k \in In(Slot(n)) PROVE FALSE
        OBVIOUS
      <4>2. k \in Int /\ k <= last /\ k > had /\ Slot(k) = Slot(n)
        BY <1>1, <1>4
      <4>3. k - n < MAX_RELIABLE_COMMANDS /\ n < k
        BY <1>1, <1>7, <2>3, <4>2
      <4>. QED
        BY <4>2, <4>3, SlotsDiffer
    <3>2. ring[Slot(n)] = got.serverCommands[Slot(n)]
      BY <2>1, <3>1
    <3>3. n \in 0 .. had /\ n > had - MAX_RELIABLE_COMMANDS
      BY <1>1, <1>7, <2>3
    <3>. QED
      BY <3>2, <3>3 DEF GotSays
  <2>. QED
    BY <1>1, <2>2, <2>3
<1>8. ASSUME Plain(got.serverCommands), Plain(msg.texts), NEW t \in Slots
      PROVE  ring[t] >= 0
  <2>1. CASE In(t) = {}
    <3>1. ring[t] = got.serverCommands[t] /\ t \in DOMAIN got.serverCommands
      BY <2>1 DEF Receiver
    <3>. QED
      BY <1>8, <3>1 DEF Plain
  <2>2. CASE In(t) # {}
    <3>1. Most(t) \in msg.first .. last
      BY <1>4, <1>6, <2>2
    <3>2. Most(t) - msg.first + 1 \in DOMAIN msg.texts
      BY <1>1, <3>1
    <3>3. ring[t] = msg.texts[Most(t) - msg.first + 1]
      BY <2>2
    <3>. QED
      BY <1>8, <3>2, <3>3 DEF Plain
  <2>. QED
    BY <2>1, <2>2
<1>9. DOMAIN ring = Slots
  OBVIOUS
<1>. HIDE DEF ring
<1>. QED
  BY <1>2, <1>3, <1>7, <1>8, <1>9 DEF GotSays, Plain, last

-----------------------------------------------------------------------------
(* The invariant is inductive.                                             *)

(* What a step has to show. *)
LEMMA SaysNext ==
  ASSUME RingSays(sv'), RingSays(cl'), KeepsAll(cl'), InOrder(cl'), GotSays(got', sv'.lost),
         \A i \in DOMAIN down' : DownSays(down'[i], sv', cl', got'),
         \A i \in DOMAIN up' : UpSays(up'[i], sv', cl'),
         HeardSays', DoneSays', ServerPlain', ClientPlain'
  PROVE  SaysInv'
  BY DEF SaysInv

(* The types of what the steps touch. *)
LEMMA Types ==
  ASSUME IInv
  PROVE  /\ sv \in Sender /\ cl \in Sender /\ got \in Receiver /\ done \in Seq(Int)
         /\ heard \in Seq(Int) /\ Len(heard) \in Nat /\ level \in Nat
         /\ down \in Seq(Downward) /\ up \in Seq(Upward)
         /\ (\A i \in DOMAIN down : down[i] \in Downward)
         /\ (\A i \in DOMAIN up : up[i] \in Upward)
         /\ sv.reliableSequence \in Nat /\ sv.reliableAcknowledge \in Nat
         /\ cl.reliableSequence \in Nat /\ cl.reliableAcknowledge \in Nat
         /\ got.serverCommandSequence \in Nat /\ lastClientCommand \in Nat
         /\ serverId \in Nat /\ mode \in {"running", "gone", "crashed"}
         /\ state \in {"connected", "primed", "active", "zombie", "free"}
<1>1. TypeOK
  BY DEF IInv
<1>2. (\A i \in DOMAIN down : down[i] \in Downward) /\ (\A i \in DOMAIN up : up[i] \in Upward)
  BY <1>1, LenProperties, ElementOfSeq DEF TypeOK
<1>. QED
  BY <1>1, <1>2, LenProperties DEF TypeOK, Sender, Receiver

(* Nothing is numbered at first. *)
LEMMA SaysInit == Init => SaysInv
<1>. SUFFICES ASSUME Init PROVE SaysInv
  OBVIOUS
<1>. USE ReliableCommandsAssumption
<1>1. /\ NewSender.reliableSequence = 0 /\ NewSender.reliableAcknowledge = 0
      /\ NewSender.reliableCommands = NoCommands /\ NewSender.lost = {}
  BY DEF NewSender
<1>2. \A n \in 0 .. 0 : NoCommands[Slot(n)] = 0
  BY SlotInRing DEF NoCommands
<1>3. RingSays(NewSender) /\ KeepsAll(NewSender) /\ InOrder(NewSender)
  BY <1>1, <1>2 DEF RingSays, KeepsAll, InOrder, Says
<1>4. GotSays(got, {})
  BY <1>2 DEF Init, GotSays, Says
<1>5. Plain(NoCommands)
  BY DEF Plain, NoCommands
<1>6. /\ sv = NewSender /\ cl = NewSender /\ down = <<>> /\ up = <<>> /\ done = <<>>
      /\ heard = <<>> /\ snaps = {} /\ lastClientCommand = 0
      /\ got = [serverCommandSequence |-> 0, serverCommands |-> NoCommands]
  BY DEF Init
<1>7. HeardSays /\ DoneSays
  BY <1>1, <1>6, EmptySeq DEF HeardSays, DoneSays
<1>8. ServerPlain /\ ClientPlain
  BY <1>1, <1>5, <1>6, EmptySeq DEF ServerPlain, ClientPlain, Plain
<1>9. RingSays(sv) /\ RingSays(cl) /\ KeepsAll(cl) /\ InOrder(cl)
  BY <1>3, <1>6
<1>10. GotSays(got, sv.lost)
  BY <1>1, <1>4, <1>6
<1>11. /\ \A i \in DOMAIN down : DownSays(down[i], sv, cl, got)
       /\ \A i \in DOMAIN up : UpSays(up[i], sv, cl)
  BY <1>6, EmptySeq
<1>. QED
  BY <1>7, <1>8, <1>9, <1>10, <1>11 DEF SaysInv

(* A step of the server that only adds commands, or drops the client. *)
LEMMA ServerAddsSays ==
  ASSUME IInv, SaysInv, RingSays(sv'), sv.lost \subseteq sv'.lost,
         UNCHANGED <<lastClientCommand, done, clientVars, down, up>>,
         Connected' => Connected /\ sv'.lost = {} /\ Plain(sv'.reliableCommands)
  PROVE  SaysInv'
<1>0. /\ cl.reliableSequence \in Nat /\ got.serverCommandSequence \in Nat
      /\ cl.reliableSequence <= cl.reliableSequence /\ cl.lost \subseteq cl.lost
      /\ got.serverCommandSequence <= got.serverCommandSequence
  BY Types
<1>1. UNCHANGED <<mode, cl, got, snaps, heard>>
  BY DEF clientVars
<1>2. GotSays(got', sv'.lost)
  BY <1>1 DEF SaysInv, GotSays, Says
<1>3. ASSUME NEW i \in DOMAIN down PROVE DownSays(down[i], sv', cl, got)
  <2>1. down[i] \in Downward /\ DownSays(down[i], sv, cl, got)
    BY Types DEF SaysInv
  <2>. QED
    BY <1>0, <2>1, DownSaysOn
<1>4. ASSUME NEW i \in DOMAIN up PROVE UpSays(up[i], sv', cl)
  <2>1. up[i] \in Upward /\ UpSays(up[i], sv, cl)
    BY Types DEF SaysInv
  <2>. QED
    BY <1>0, <2>1, UpSaysOn
<1>5. HeardSays'
  BY <1>1 DEF SaysInv, HeardSays, Says
<1>6. DoneSays'
  BY <1>1 DEF SaysInv, DoneSays
<1>7. ServerPlain'
  BY <1>1 DEF SaysInv, ServerPlain
<1>8. ClientPlain'
  BY <1>1 DEF SaysInv, ClientPlain
<1>9. RingSays(cl') /\ KeepsAll(cl') /\ InOrder(cl')
  BY <1>1 DEF SaysInv
<1>. QED
  BY <1>1, <1>2, <1>3, <1>4, <1>5, <1>6, <1>7, <1>8, <1>9, SaysNext

(* The commands of the game. *)
LEMMA AddServerCommandSays == IInv /\ SaysInv /\ SV_AddServerCommand => SaysInv'
<1>. SUFFICES ASSUME IInv, SaysInv, SV_AddServerCommand PROVE SaysInv'
  OBVIOUS
<1>1. sv \in Sender /\ RingSays(sv) /\ (Connected => sv.lost = {} /\ Plain(sv.reliableCommands))
  BY Types DEF SaysInv, ServerPlain
<1>2. UNCHANGED <<lastClientCommand, done, clientVars, down, up, garbled>>
  BY DEF SV_AddServerCommand
<1>3. CASE ~Overflows(sv) /\ sv' = Stored(sv, 1) /\ state' = state
  <2>1. RingSays(sv') /\ sv.lost \subseteq sv'.lost
    BY <1>1, <1>3, StoredSays
  <2>2. ASSUME Connected' PROVE Connected /\ sv'.lost = {} /\ Plain(sv'.reliableCommands)
    <3>1. Connected
      BY <1>3, <2>2 DEF Connected
    <3>2. Pending(sv) < MAX_RELIABLE_COMMANDS
      <4>1. sv.reliableSequence \in Nat /\ sv.reliableAcknowledge \in Nat
        BY Types
      <4>2. sv.reliableSequence <= sv.reliableAcknowledge + MAX_RELIABLE_COMMANDS
        BY <3>1 DEF IInv, WindowOK, Connected
      <4>3. Pending(sv) # MAX_RELIABLE_COMMANDS
        BY <1>3 DEF Overflows
      <4>. QED
        BY <4>1, <4>2, <4>3, ReliableCommandsAssumption DEF Pending
    <3>3. sv'.lost = {}
      BY <1>1, <1>3, <3>1, <3>2 DEF Stored, WrittenOver
    <3>4. Plain(sv'.reliableCommands)
      <4>1. 1 * (sv.reliableSequence + 1) >= 0
        BY Types
      <4>2. sv'.reliableCommands = [sv.reliableCommands EXCEPT
              ![Slot(sv.reliableSequence + 1)] = 1 * (sv.reliableSequence + 1)]
        BY <1>3 DEF Stored
      <4>. HIDE <1>3
      <4>. QED
        BY <1>1, <3>1, <4>1, <4>2 DEF Plain
    <3>. QED
      BY <3>1, <3>3, <3>4
  <2>. QED
    BY <1>2, <2>1, <2>2, ServerAddsSays
<1>4. CASE state = "zombie" /\ sv' = Numbered(sv) /\ state' = state
  BY <1>1, <1>2, <1>4, NumberedSays, ServerAddsSays DEF Connected
<1>5. CASE state' = "zombie" /\ sv' = Dropped(state, Numbered(sv))
  <2>1. Numbered(sv) \in Sender /\ RingSays(Numbered(sv)) /\ sv.lost \subseteq Numbered(sv).lost
    BY <1>1, NumberedOK, NumberedSays
  <2>2. RingSays(sv') /\ sv.lost \subseteq sv'.lost
    BY <1>5, <2>1, DroppedSays
  <2>. QED
    BY <1>2, <1>5, <2>2, ServerAddsSays DEF Connected
<1>. QED
  BY <1>3, <1>4, <1>5 DEF SV_AddServerCommand

(* The client is dropped, or the level changes. *)
LEMMA DropsSays == IInv /\ SaysInv /\ (SV_DropClient \/ SV_CheckTimeouts \/ NewLevel) => SaysInv'
<1>. SUFFICES ASSUME IInv, SaysInv, SV_DropClient \/ SV_CheckTimeouts \/ NewLevel PROVE SaysInv'
  OBVIOUS
<1>1. sv \in Sender /\ RingSays(sv) /\ (Connected => sv.lost = {} /\ Plain(sv.reliableCommands))
  BY Types DEF SaysInv, ServerPlain
<1>2. UNCHANGED <<lastClientCommand, done, clientVars, down, up>>
  BY DEF SV_DropClient, SV_CheckTimeouts, NewLevel
<1>3. \/ sv' = Dropped(state, sv) /\ state' \in {"zombie", "free"}
      \/ sv' = sv /\ state' \in {"zombie", "free"}
      \/ sv' = sv /\ state \notin {"zombie", "free"}
  BY DEF SV_DropClient, SV_CheckTimeouts, NewLevel
<1>4. RingSays(sv') /\ sv.lost \subseteq sv'.lost
  BY <1>1, <1>3, DroppedSays
<1>5. Connected' => Connected /\ sv'.lost = {} /\ Plain(sv'.reliableCommands)
  BY <1>1, <1>3, Types DEF Connected
<1>. QED
  BY <1>2, <1>4, <1>5, ServerAddsSays

(* A message of the server's sets out. *)
LEMMA SendSays == IInv /\ SaysInv /\ SV_SendClientMessages => SaysInv'
<1>. SUFFICES ASSUME IInv, SaysInv, SV_SendClientMessages PROVE SaysInv'
  OBVIOUS
<1>. DEFINE kind == IF state \in {"connected", "primed"} THEN "idle" ELSE "snapshot"
            msg == Message(sv, kind)
<1>1. UNCHANGED <<serverVars, clientVars, up>> /\ down' = Sent(down, msg)
  BY DEF SV_SendClientMessages
<1>2. msg \in Downward /\ down \in Seq(Downward)
  BY PayloadOK DEF IInv, TypeOK, WindowOK
<1>3. /\ DownSays(msg, sv, cl, got)
      /\ Plain(sv.reliableCommands) => Plain(msg.texts)
      /\ Plain(done) => msg.key >= 0
  <2>1. /\ sv \in Sender /\ got.serverCommandSequence \in Nat /\ done \in Seq(Int)
        /\ cl.reliableSequence \in Nat
    BY Types
  <2>2. InOrder(sv) /\ sv.reliableAcknowledge <= got.serverCommandSequence
    BY DEF IInv, WindowOK, UpOK
  <2>3. RingSays(sv) /\ DoneSays
    BY DEF SaysInv
  <2>. QED
    BY <2>1, <2>2, <2>3, MessageSays
<1>. HIDE DEF msg
<1>4. UNCHANGED <<state, sv, lastClientCommand, done, mode, cl, got, snaps, heard, up>>
  BY <1>1 DEF serverVars, clientVars
<1>5. ASSUME NEW i \in DOMAIN down'
      PROVE  down'[i] = msg \/ \E j \in DOMAIN down : down'[i] = down[j]
  BY <1>1, <1>2, SentElements
<1>6. \A i \in DOMAIN down' : DownSays(down'[i], sv', cl', got')
  BY <1>3, <1>4, <1>5 DEF SaysInv
<1>7. \A i \in DOMAIN up' : UpSays(up'[i], sv', cl')
  BY <1>4 DEF SaysInv
<1>8. HeardSays' /\ DoneSays'
  BY <1>4 DEF SaysInv, HeardSays, DoneSays
<1>9. ServerPlain'
  BY <1>3, <1>4, <1>5 DEF SaysInv, ServerPlain, Connected
<1>10. ClientPlain'
  BY <1>3, <1>4, <1>5 DEF SaysInv, ClientPlain
<1>11. RingSays(sv') /\ RingSays(cl') /\ KeepsAll(cl') /\ InOrder(cl') /\ GotSays(got', sv'.lost)
  BY <1>4 DEF SaysInv
<1>. QED
  BY <1>6, <1>7, <1>8, <1>9, <1>10, <1>11, SaysNext

(* Executed after what was executed before. *)
LEMMA JoinedSays ==
  ASSUME NEW a \in Seq(Int), NEW b \in Seq(Int), NEW lost,
         \A n \in DOMAIN a : Says(a[n], n, lost),
         \A k \in DOMAIN b : Says(b[k], Len(a) + k, lost)
  PROVE  /\ a \o b \in Seq(Int) /\ Len(a \o b) = Len(a) + Len(b)
         /\ \A n \in DOMAIN (a \o b) : Says((a \o b)[n], n, lost)
         /\ Plain(a) /\ Plain(b) => Plain(a \o b)
<1>. DEFINE ab == a \o b
<1>1. /\ ab \in Seq(Int) /\ Len(ab) = Len(a) + Len(b)
      /\ \A n \in 1 .. (Len(a) + Len(b)) :
           ab[n] = IF n <= Len(a) THEN a[n] ELSE b[n - Len(a)]
  BY ConcatProperties
<1>. HIDE DEF ab
<1>2. /\ Len(a) \in Nat /\ Len(b) \in Nat /\ DOMAIN a = 1 .. Len(a) /\ DOMAIN b = 1 .. Len(b)
      /\ DOMAIN ab = 1 .. (Len(a) + Len(b))
  BY <1>1, LenProperties
<1>3. ASSUME NEW n \in DOMAIN ab
      PROVE  \/ n \in DOMAIN a /\ ab[n] = a[n]
             \/ n - Len(a) \in DOMAIN b /\ ab[n] = b[n - Len(a)] /\ n = Len(a) + (n - Len(a))
  BY <1>1, <1>2
<1>4. ASSUME NEW n \in DOMAIN ab PROVE Says(ab[n], n, lost)
  <2>1. CASE n \in DOMAIN a /\ ab[n] = a[n]
    BY <2>1
  <2>2. CASE n - Len(a) \in DOMAIN b /\ ab[n] = b[n - Len(a)] /\ n = Len(a) + (n - Len(a))
    <3>1. Says(b[n - Len(a)], Len(a) + (n - Len(a)), lost)
      BY <2>2
    <3>. QED
      BY <2>2, <3>1
  <2>. QED
    BY <1>3, <2>1, <2>2
<1>5. Plain(a) /\ Plain(b) => Plain(ab)
  BY <1>3 DEF Plain
<1>. QED
  BY <1>1, <1>4, <1>5 DEF ab

(* The texts that SV_ClientCommand has not executed yet have the next      *)
(* numbers.                                                                *)
LEMMA NewTextsNext ==
  ASSUME NEW msg \in Upward, lastClientCommand \in Nat
  PROVE  /\ NewTexts(msg) \in Seq(Int)
         /\ \A k \in DOMAIN NewTexts(msg) : \E n \in msg.first .. LastOf(msg) :
              /\ n = lastClientCommand + k /\ n - msg.first + 1 \in DOMAIN msg.texts
              /\ NewTexts(msg)[k] = msg.texts[n - msg.first + 1]
<1>. DEFINE new == NewTexts(msg)
<1>1. /\ msg.texts \in Seq(Int) /\ msg.first \in Nat /\ Len(msg.texts) \in Nat
      /\ DOMAIN msg.texts = 1 .. Len(msg.texts)
  BY LenProperties DEF Upward
<1>2. CASE msg.first > lastClientCommand + 1
  <2>1. new = <<>>
    BY <1>2 DEF NewTexts
  <2>. QED
    BY <2>1, EmptySeq
<1>3. CASE ~(msg.first > lastClientCommand + 1)
  <2>. DEFINE from == lastClientCommand + 2 - msg.first
  <2>1. from \in Int /\ from >= 1
    BY <1>1, <1>3
  <2>2. new = SubSeq(msg.texts, from, Len(msg.texts))
    BY <1>3 DEF NewTexts
  <2>. HIDE DEF from, new
  <2>3. \A k \in from .. Len(msg.texts) : msg.texts[k] \in Int
    BY <1>1, <2>1, ElementOfSeq
  <2>4. CASE from > Len(msg.texts)
    <3>1. new = <<>>
      BY <1>1, <2>1, <2>2, <2>3, <2>4, SubSeqProperties
    <3>. QED
      BY <3>1, EmptySeq DEF new
  <2>5. CASE ~(from > Len(msg.texts))
    <3>1. /\ new \in Seq(Int) /\ Len(new) = Len(msg.texts) - from + 1
          /\ \A k \in 1 .. (Len(msg.texts) - from + 1) : new[k] = msg.texts[from + k - 1]
      BY <1>1, <2>1, <2>2, <2>3, <2>5, SubSeqProperties
    <3>2. DOMAIN new = 1 .. (Len(msg.texts) - from + 1)
      BY <3>1, LenProperties
    <3>3. ASSUME NEW k \in DOMAIN new
          PROVE  \E n \in msg.first .. LastOf(msg) :
                   /\ n = lastClientCommand + k /\ n - msg.first + 1 \in DOMAIN msg.texts
                   /\ new[k] = msg.texts[n - msg.first + 1]
      <4>. DEFINE n == lastClientCommand + k
      <4>1. k \in 1 .. (Len(msg.texts) - from + 1) /\ new[k] = msg.texts[from + k - 1]
        BY <3>1, <3>2
      <4>2. n \in Int /\ from + k - 1 = n - msg.first + 1
        BY <1>1, <4>1 DEF from
      <4>3. from + k - 1 \in 1 .. Len(msg.texts)
        BY <1>1, <2>1, <4>1
      <4>. HIDE DEF n
      <4>4. n \in msg.first .. LastOf(msg)
        BY <1>1, <4>2, <4>3 DEF LastOf
      <4>5. n - msg.first + 1 \in DOMAIN msg.texts /\ new[k] = msg.texts[n - msg.first + 1]
        BY <1>1, <4>1, <4>2, <4>3
      <4>. QED
        BY <4>4, <4>5 DEF n
    <3>. QED
      BY <3>1, <3>3 DEF new
  <2>. QED
    BY <2>4, <2>5
<1>. QED
  BY <1>2, <1>3

(* The commands of a message are executed under the numbers the client     *)
(* gave them.                                                              *)
LEMMA ClientCommandsSays ==
  ASSUME NEW msg \in Upward, NEW st, NEW s \in Sender, RingSays(s),
         lastClientCommand \in Nat, done \in Seq(Int), cl.reliableSequence \in Nat,
         DoneSays, UpSays(msg, sv, cl), cl' = cl, ClientCommands(msg, st, s)
  PROVE  /\ RingSays(sv') /\ s.lost \subseteq sv'.lost
         /\ state' # "zombie" => sv' = s
         /\ DoneSays'
         /\ Plain(done) /\ Plain(msg.texts) => Plain(done')
<1>. DEFINE texts == NewTexts(msg)
            new == UpToDisconnect(texts)
<1>1. RingSays(Dropped(st, s)) /\ s.lost \subseteq Dropped(st, s).lost
  BY DroppedSays
<1>2. /\ texts \in Seq(Int)
      /\ \A k \in DOMAIN texts : \E n \in msg.first .. LastOf(msg) :
           /\ n = lastClientCommand + k /\ n - msg.first + 1 \in DOMAIN msg.texts
           /\ texts[k] = msg.texts[n - msg.first + 1]
  BY NewTextsNext
<1>. HIDE DEF texts
<1>3. /\ new \in Seq(Int) /\ Len(new) \in 0 .. Len(texts)
      /\ \A k \in DOMAIN new : k \in DOMAIN texts /\ new[k] = texts[k]
  BY <1>2, UpToDisconnectOK
<1>. HIDE DEF new
<1>4. Len(new) \in Nat /\ DOMAIN new = 1 .. Len(new)
  BY <1>3, LenProperties
<1>5. ASSUME NEW k \in DOMAIN new PROVE Says(new[k], lastClientCommand + k, cl.lost)
  <2>1. k \in DOMAIN texts /\ new[k] = texts[k]
    BY <1>3
  <2>2. PICK n \in msg.first .. LastOf(msg) :
          n = lastClientCommand + k /\ texts[k] = msg.texts[n - msg.first + 1]
    BY <1>2, <2>1
  <2>3. Says(msg.texts[n - msg.first + 1], n, cl.lost)
    BY <2>2 DEF UpSays
  <2>. QED
    BY <2>1, <2>2, <2>3
<1>6. lastClientCommand + Len(new) <= cl.reliableSequence
  <2>1. CASE Len(new) = 0
    BY <2>1 DEF DoneSays
  <2>2. CASE Len(new) # 0
    <3>0. Len(new) \in DOMAIN new
      BY <1>4, <2>2
    <3>1. lastClientCommand + Len(new) \in msg.first .. LastOf(msg)
      BY <1>2, <1>3, <3>0, Zenon
    <3>2. msg.first \in Nat /\ LastOf(msg) \in Int
      BY LenProperties DEF Upward, LastOf
    <3>. QED
      BY <1>4, <3>1, <3>2 DEF UpSays
  <2>. QED
    BY <2>1, <2>2
<1>7. Plain(msg.texts) => Plain(new)
  BY <1>2, <1>3 DEF Plain
<1>8. CASE Gap(msg)
  <2>1. /\ state' = "zombie" /\ sv' = Dropped(st, s)
        /\ lastClientCommand' = lastClientCommand /\ done' = done
    BY <1>8 DEF ClientCommands
  <2>2. DoneSays'
    BY <2>1 DEF DoneSays
  <2>. QED
    BY <1>1, <2>1, <2>2
<1>9. CASE ~Gap(msg)
  <2>1. /\ done' = done \o new /\ lastClientCommand' = lastClientCommand + Len(new)
        /\ \/ state' = "zombie" /\ sv' = Dropped(st, s)
           \/ sv' = s
    BY <1>9 DEF ClientCommands, new, texts
  <2>2. lastClientCommand = Len(done) /\ \A n \in DOMAIN done : Says(done[n], n, cl.lost)
    BY DEF DoneSays
  <2>3. /\ Len(done \o new) = Len(done) + Len(new)
        /\ \A n \in DOMAIN (done \o new) : Says((done \o new)[n], n, cl.lost)
        /\ Plain(done) /\ Plain(new) => Plain(done \o new)
    BY <1>3, <1>5, <2>2, JoinedSays
  <2>4. DoneSays'
    BY <1>6, <2>1, <2>2, <2>3 DEF DoneSays
  <2>5. RingSays(sv') /\ s.lost \subseteq sv'.lost /\ (state' # "zombie" => sv' = s)
    BY <1>1, <2>1
  <2>. QED
    BY <1>7, <2>1, <2>3, <2>4, <2>5
<1>. QED
  BY <1>8, <1>9

(* The server reads a message. *)
LEMMA ExecuteSays ==
  ASSUME IInv, SaysInv, NEW i \in DOMAIN up, SV_ExecuteClientMessage(i)
  PROVE  SaysInv'
<1>. PICK msg : msg = up[i]
  OBVIOUS
<1>. DEFINE s == Acknowledged(sv, msg.ack)
<1>1. /\ sv \in Sender /\ cl \in Sender /\ got \in Receiver /\ done \in Seq(Int)
      /\ down \in Seq(Downward) /\ up \in Seq(Upward) /\ msg \in Upward
      /\ sv.reliableSequence \in Nat /\ sv.reliableAcknowledge \in Nat
      /\ cl.reliableSequence \in Nat /\ got.serverCommandSequence \in Nat
      /\ lastClientCommand \in Nat /\ serverId \in Nat
      /\ state \in {"connected", "primed", "active", "zombie", "free"}
  BY Types
<1>2. UNCHANGED <<mode, cl, got, snaps, heard>> /\ up' = After(up, i)
  BY DEF SV_ExecuteClientMessage, clientVars
<1>3. ASSUME NEW j \in DOMAIN up' PROVE \E k \in DOMAIN up : up'[j] = up[k]
  BY <1>1, <1>2, AfterElements
<1>4. msg.ack \in Nat /\ msg.ack >= sv.reliableAcknowledge /\ msg.ack <= got.serverCommandSequence
      /\ got.serverCommandSequence <= sv.reliableSequence
  <2>1. msg.ack \in Nat
    BY <1>1 DEF Upward
  <2>2. msg.ack \in sv.reliableAcknowledge .. got.serverCommandSequence
        /\ got.serverCommandSequence <= sv.reliableSequence
    BY DEF IInv, UpOK, DownOK
  <2>. QED
    BY <1>1, <2>1, <2>2
<1>5. /\ s \in Sender /\ RingSays(s) /\ s.lost = sv.lost
      /\ s.reliableSequence = sv.reliableSequence /\ s.reliableAcknowledge = msg.ack
      /\ s.reliableCommands = sv.reliableCommands
  <2>1. s \in Sender /\ RingSays(s) /\ s.lost = sv.lost
    BY <1>1, <1>4, AcknowledgedOK, AcknowledgedSays DEF SaysInv
  <2>. QED
    BY <2>1 DEF Acknowledged
<1>6. RingSays(cl') /\ KeepsAll(cl') /\ InOrder(cl')
  BY <1>2 DEF SaysInv
<1>7. UpSays(msg, sv, cl) /\ DoneSays /\ (mode = "running" => Plain(msg.texts))
  BY DEF SaysInv, ClientPlain
<1>8. CASE UNCHANGED <<serverVars, down>>
  <2>1. UNCHANGED <<state, sv, lastClientCommand, done, down>>
    BY <1>8 DEF serverVars
  <2>2. \A j \in DOMAIN down' : DownSays(down'[j], sv', cl', got')
    BY <1>2, <2>1 DEF SaysInv
  <2>3. \A j \in DOMAIN up' : UpSays(up'[j], sv', cl')
    BY <1>2, <1>3, <2>1 DEF SaysInv
  <2>4. HeardSays' /\ DoneSays' /\ GotSays(got', sv'.lost) /\ RingSays(sv')
    BY <1>2, <2>1 DEF SaysInv, HeardSays, DoneSays
  <2>5. ServerPlain' /\ ClientPlain'
    BY <1>2, <1>3, <2>1 DEF SaysInv, ServerPlain, ClientPlain, Connected
  <2>. QED
    BY <1>6, <2>2, <2>3, <2>4, <2>5, SaysNext
<1>. HIDE DEF s
<1>9. ASSUME Connected, NEW st, ClientCommands(msg, st, s),
             down' = down \/ down' = Sent(down, Gamestate(s))
      PROVE  SaysInv'
  <2>1. /\ RingSays(sv') /\ s.lost \subseteq sv'.lost
        /\ state' # "zombie" => sv' = s
        /\ DoneSays'
        /\ Plain(done) /\ Plain(msg.texts) => Plain(done')
    BY <1>1, <1>2, <1>5, <1>7, <1>9, ClientCommandsSays
  <2>2. sv.lost = {} /\ Plain(sv.reliableCommands)
    BY <1>9 DEF SaysInv, ServerPlain
  <2>3. PICK new \in Downward : new = Gamestate(s)
    <3>1. InOrder(s)
      BY <1>1, <1>4, <1>5 DEF InOrder
    <3>. QED
      BY <1>1, <1>5, <3>1, PayloadOK DEF Gamestate
  <2>4. /\ DownSays(new, s, cl, got) /\ Plain(new.texts)
        /\ Plain(done) => new.key >= 0
    <3>1. InOrder(s)
      BY <1>1, <1>4, <1>5 DEF InOrder
    <3>2. s.reliableAcknowledge <= got.serverCommandSequence
      BY <1>4, <1>5
    <3>3. /\ DownSays(Gamestate(s), s, cl, got)
          /\ Plain(s.reliableCommands) => Plain(Gamestate(s).texts)
          /\ Plain(done) => Gamestate(s).key >= 0
      BY <1>1, <1>5, <1>7, <3>1, <3>2, MessageSays DEF Gamestate
    <3>. QED
      BY <1>5, <2>2, <2>3, <3>3
  <2>5. ASSUME NEW j \in DOMAIN down'
        PROVE  down'[j] = new \/ \E k \in DOMAIN down : down'[j] = down[k]
    BY <1>1, <1>9, <2>3, SentElements
  <2>6. ASSUME NEW j \in DOMAIN down' PROVE DownSays(down'[j], sv', cl', got')
    <3>1. CASE down'[j] = new
      <4>1. DownSays(new, sv', cl, got)
        BY <1>1, <2>1, <2>4, DownSaysOn
      <4>. QED
        BY <1>2, <3>1, <4>1
    <3>2. ASSUME NEW k \in DOMAIN down, down'[j] = down[k] PROVE DownSays(down'[j], sv', cl', got')
      <4>1. down[k] \in Downward /\ DownSays(down[k], sv, cl, got)
        BY Types DEF SaysInv
      <4>2. sv.lost \subseteq sv'.lost /\ cl.lost \subseteq cl.lost
            /\ cl.reliableSequence <= cl.reliableSequence
            /\ got.serverCommandSequence <= got.serverCommandSequence
        BY <1>1, <1>5, <2>1
      <4>3. DownSays(down[k], sv', cl, got)
        BY <1>1, <4>1, <4>2, DownSaysOn
      <4>. QED
        BY <1>2, <3>2, <4>3
    <3>. QED
      BY <2>5, <3>1, <3>2
  <2>7. ASSUME NEW j \in DOMAIN up' PROVE UpSays(up'[j], sv', cl')
    <3>1. PICK k \in DOMAIN up : up'[j] = up[k]
      BY <1>3
    <3>2. up[k] \in Upward /\ UpSays(up[k], sv, cl)
      BY Types DEF SaysInv
    <3>3. UpSays(up[k], sv', cl)
      BY <1>1, <1>5, <2>1, <3>2, UpSaysOn
    <3>. QED
      BY <1>2, <3>1, <3>3
  <2>8. GotSays(got', sv'.lost) /\ HeardSays'
    BY <1>2, <1>5, <2>1 DEF SaysInv, GotSays, HeardSays, Says
  <2>9. ServerPlain'
    <3>1. Connected' => sv' = s
      BY <2>1 DEF Connected
    <3>. QED
      BY <1>2, <1>3, <1>5, <1>9, <2>2, <2>4, <2>5, <3>1 DEF SaysInv, ServerPlain
  <2>10. ClientPlain'
    BY <1>2, <1>3, <1>7, <2>1, <2>4, <2>5 DEF SaysInv, ClientPlain
  <2>. QED
    BY <1>6, <2>1, <2>6, <2>7, <2>8, <2>9, <2>10, SaysNext
<1>10. CASE state = "zombie"
  BY <1>8, <1>10 DEF SV_ExecuteClientMessage
<1>11. CASE state # "zombie"
  <2>1. Connected
    BY <1>1, <1>11 DEF SV_ExecuteClientMessage, Connected
  <2>2. ~(msg.ack < sv.reliableSequence - MAX_RELIABLE_COMMANDS)
    <3>1. sv.reliableSequence <= sv.reliableAcknowledge + MAX_RELIABLE_COMMANDS
      BY <2>1 DEF IInv, WindowOK, Connected
    <3>. QED
      BY <1>1, <1>4, <3>1, ReliableCommandsAssumption
  <2>3. CASE ~ServerDecodes(msg)
    BY <1>8, <1>11, <2>2, <2>3 DEF SV_ExecuteClientMessage
  <2>4. CASE ServerDecodes(msg)
    <3>1. \/ ClientCommands(msg, state, s) /\ down' = down
          \/ ClientCommands(msg, "primed", s) /\ down' = Sent(down, Gamestate(s))
      BY <1>11, <2>2, <2>4 DEF SV_ExecuteClientMessage, s
    <3>. QED
      BY <1>9, <2>1, <3>1
  <2>. QED
    BY <2>3, <2>4
<1>. QED
  BY <1>10, <1>11

(* A command that is no "disconnect" leaves the ring without one. *)
LEMMA StoredPlain ==
  ASSUME NEW s \in Sender, Plain(s.reliableCommands)
  PROVE  Plain(Stored(s, 1).reliableCommands)
<1>1. s.reliableSequence \in Nat /\ 1 * (s.reliableSequence + 1) >= 0
  BY DEF Sender
<1>2. Stored(s, 1).reliableCommands = [s.reliableCommands EXCEPT
        ![Slot(s.reliableSequence + 1)] = 1 * (s.reliableSequence + 1)]
  BY DEF Stored
<1>. QED
  BY <1>1, <1>2 DEF Plain

(* A step of the client that leaves what is under way to it alone. *)
LEMMA ClientAddsSays ==
  ASSUME IInv, SaysInv, UNCHANGED <<serverVars, got, down>>, snaps' \subseteq snaps,
         \A n \in DOMAIN heard' : Says(heard'[n], n, sv.lost),
         \/ UNCHANGED <<mode, cl, up>>
         \/ mode' = mode /\ cl' = Stored(cl, 1) /\ up' = up
         \/ mode' = mode /\ cl' = cl /\ up' = Sent(up, Packet(cl))
         \/ mode' # "running" /\ CL_Disconnect(cl)
  PROVE  SaysInv'
<1>. DEFINE Added(c) ==
       /\ c \in Sender /\ RingSays(c) /\ KeepsAll(c) /\ InOrder(c) /\ cl.lost \subseteq c.lost
       /\ c.reliableSequence \in Nat /\ cl.reliableSequence <= c.reliableSequence
<1>1. /\ cl \in Sender /\ got \in Receiver /\ up \in Seq(Upward) /\ down \in Seq(Downward)
      /\ cl.reliableSequence \in Nat /\ cl.reliableAcknowledge \in Nat
      /\ got.serverCommandSequence \in Nat /\ level \in Nat
  BY Types
<1>2. UNCHANGED <<state, sv, lastClientCommand, done, serverId>>
  BY DEF serverVars
<1>3. GotSays(got, sv.lost)
  BY DEF SaysInv
<1>4. Added(cl)
  BY <1>1 DEF SaysInv
<1>5. Added(Stored(cl, 1)) /\ Added(Stored(cl, -1))
  <2>1. ASSUME NEW sign \in {1, -1} PROVE Added(Stored(cl, sign))
    <3>1. /\ Stored(cl, sign) \in Sender
          /\ Stored(cl, sign).reliableSequence = cl.reliableSequence + 1
          /\ Stored(cl, sign).reliableAcknowledge = cl.reliableAcknowledge
      BY <1>1, StoredOK
    <3>2. RingSays(Stored(cl, sign)) /\ KeepsAll(Stored(cl, sign))
          /\ cl.lost \subseteq Stored(cl, sign).lost
      BY <1>4, StoredSays
    <3>. QED
      BY <1>1, <1>4, <3>1, <3>2 DEF InOrder
  <2>. QED
    BY <2>1
<1>6. ASSUME NEW c, Added(c), up' = Sent(up, Packet(c)), NEW j \in DOMAIN up'
      PROVE  \/ \E k \in DOMAIN up : up'[j] = up[k]
             \/ /\ UpSays(up'[j], sv, c)
                /\ Plain(c.reliableCommands) => Plain(up'[j].texts)
                /\ Plain(got.serverCommands) => up'[j].key >= 0
  <2>1. Packet(c) \in Upward
    BY <1>1, <1>6, PacketOK
  <2>2. /\ UpSays(Packet(c), sv, c)
        /\ Plain(c.reliableCommands) => Plain(Packet(c).texts)
        /\ Plain(got.serverCommands) => Packet(c).key >= 0
    BY <1>1, <1>3, <1>6, PacketSays
  <2>3. up'[j] = Packet(c) \/ \E k \in DOMAIN up : up'[j] = up[k]
    BY <1>1, <1>6, <2>1, SentElements
  <2>. QED
    BY <2>2, <2>3
<1>. HIDE DEF Added
<1>7. /\ Added(cl')
      /\ mode' = "running" => mode = "running" /\ Plain(cl'.reliableCommands)
      /\ \A j \in DOMAIN up' :
           \/ \E k \in DOMAIN up : up'[j] = up[k]
           \/ /\ UpSays(up'[j], sv, cl')
              /\ Plain(cl'.reliableCommands) => Plain(up'[j].texts)
              /\ Plain(got.serverCommands) => up'[j].key >= 0
  <2>0. mode = "running" => Plain(cl.reliableCommands)
    BY DEF SaysInv, ClientPlain
  <2>1. CASE UNCHANGED <<mode, cl, up>>
    BY <1>4, <2>0, <2>1
  <2>2. CASE mode' = mode /\ cl' = Stored(cl, 1) /\ up' = up
    <3>1. mode = "running" => Plain(Stored(cl, 1).reliableCommands)
      BY <1>1, <2>0, StoredPlain
    <3>. QED
      BY <1>5, <2>2, <3>1
  <2>3. CASE mode' = mode /\ cl' = cl /\ up' = Sent(up, Packet(cl))
    BY <1>4, <1>6, <2>0, <2>3
  <2>4. CASE mode' # "running" /\ CL_Disconnect(cl)
    <3>1. CASE cl' = cl /\ up' = up
      BY <1>4, <2>4, <3>1
    <3>2. CASE cl' = Stored(cl, -1) /\ up' = Sent(up, Packet(Stored(cl, -1)))
      BY <1>5, <1>6, <2>4, <3>2
    <3>. QED
      BY <2>4, <3>1, <3>2 DEF CL_Disconnect
  <2>. QED
    BY <2>1, <2>2, <2>3, <2>4
<1>8. /\ cl'.reliableSequence \in Nat /\ cl.reliableSequence <= cl'.reliableSequence
      /\ cl.lost \subseteq cl'.lost
      /\ RingSays(cl') /\ KeepsAll(cl') /\ InOrder(cl')
  BY <1>7 DEF Added
<1>9. ASSUME NEW j \in DOMAIN up' PROVE UpSays(up'[j], sv', cl')
  <2>1. ASSUME NEW k \in DOMAIN up, up'[j] = up[k] PROVE UpSays(up'[j], sv', cl')
    <3>1. up[k] \in Upward /\ UpSays(up[k], sv, cl)
      BY Types DEF SaysInv
    <3>2. UpSays(up[k], sv, cl')
      BY <1>1, <1>8, <3>1, UpSaysOn
    <3>. QED
      BY <1>2, <2>1, <3>2
  <2>. QED
    BY <1>2, <1>7, <2>1
<1>10. ASSUME NEW j \in DOMAIN down' PROVE DownSays(down'[j], sv', cl', got')
  <2>1. down[j] \in Downward /\ DownSays(down[j], sv, cl, got)
    BY Types DEF SaysInv
  <2>2. sv.lost \subseteq sv.lost /\ got.serverCommandSequence <= got.serverCommandSequence
    BY <1>1
  <2>3. DownSays(down[j], sv, cl', got)
    BY <1>1, <1>8, <2>1, <2>2, DownSaysOn
  <2>. QED
    BY <1>2, <2>3
<1>11. HeardSays'
  BY <1>2 DEF SaysInv, HeardSays
<1>12. DoneSays'
  <2>1. lastClientCommand \in Nat
    BY Types
  <2>. QED
    BY <1>1, <1>2, <1>8, <2>1 DEF SaysInv, DoneSays, Says
<1>13. ServerPlain'
  BY <1>2, <1>7 DEF SaysInv, ServerPlain, Connected
<1>14. ClientPlain'
  BY <1>2, <1>7 DEF SaysInv, ClientPlain
<1>15. RingSays(sv') /\ GotSays(got', sv'.lost)
  BY <1>2 DEF SaysInv
<1>. QED
  BY <1>8, <1>9, <1>10, <1>11, <1>12, <1>13, <1>14, <1>15, SaysNext

(* A command of the player, a message of the client's, and its leaving. *)
LEMMA PlayerSays ==
  IInv /\ SaysInv /\ (CL_AddReliableCommand \/ Leave \/ CL_WritePacket) => SaysInv'
<1>. SUFFICES ASSUME IInv, SaysInv, CL_AddReliableCommand \/ Leave \/ CL_WritePacket
              PROVE  SaysInv'
  OBVIOUS
<1>1. UNCHANGED <<serverVars, got, snaps, heard, down>>
  BY DEF CL_AddReliableCommand, Leave, CL_WritePacket, clientVars
<1>2. \/ mode' = mode /\ cl' = Stored(cl, 1) /\ up' = up
      \/ mode' = mode /\ cl' = cl /\ up' = Sent(up, Packet(cl))
      \/ mode' # "running" /\ CL_Disconnect(cl)
  BY DEF CL_AddReliableCommand, Leave, CL_WritePacket, clientVars, CL_Disconnect
<1>3. \A n \in DOMAIN heard' : Says(heard'[n], n, sv.lost)
  BY <1>1 DEF SaysInv, HeardSays
<1>4. snaps' \subseteq snaps
  BY <1>1
<1>. QED
  BY <1>1, <1>2, <1>3, <1>4, ClientAddsSays

(* The client reads a message. *)
LEMMA ParseSays ==
  ASSUME IInv, SaysInv, NEW i \in DOMAIN down, CL_ParseServerMessage(i)
  PROVE  SaysInv'
<1>. PICK msg : msg = down[i]
  OBVIOUS
<1>. DEFINE parsed == Parsed(msg)
            c == Acknowledged(cl, Corrected(msg))
<1>1. /\ cl \in Sender /\ got \in Receiver /\ down \in Seq(Downward) /\ msg \in Downward
      /\ cl.reliableSequence \in Nat /\ got.serverCommandSequence \in Nat
      /\ sv.reliableSequence \in Nat /\ msg.sequence \in Nat /\ msg.last \in Nat
  BY Types DEF Downward
<1>2. /\ UNCHANGED <<state, sv, lastClientCommand, done, mode, heard, up>>
      /\ down' = After(down, i)
  BY DEF CL_ParseServerMessage, serverVars, clientVars
<1>3. ASSUME NEW j \in DOMAIN down' PROVE \E k \in DOMAIN down : down'[j] = down[k]
  BY <1>1, <1>2, AfterElements
<1>4. RingSays(sv')
  BY <1>2 DEF SaysInv
<1>5. CASE UNCHANGED <<cl, got, snaps>>
  <2>1. \A j \in DOMAIN down' : DownSays(down'[j], sv', cl', got')
    BY <1>2, <1>3, <1>5 DEF SaysInv
  <2>2. \A j \in DOMAIN up' : UpSays(up'[j], sv', cl')
    BY <1>2, <1>5 DEF SaysInv
  <2>3. HeardSays' /\ DoneSays' /\ GotSays(got', sv'.lost)
    BY <1>2, <1>5 DEF SaysInv, HeardSays, DoneSays
  <2>4. RingSays(cl') /\ KeepsAll(cl') /\ InOrder(cl')
    BY <1>5 DEF SaysInv
  <2>5. ServerPlain' /\ ClientPlain'
    BY <1>2, <1>3, <1>5 DEF SaysInv, ServerPlain, ClientPlain, Connected
  <2>. QED
    BY <1>4, <2>1, <2>2, <2>3, <2>4, <2>5, SaysNext
<1>6. CASE ~ClientDecodes(msg)
  BY <1>5, <1>6 DEF CL_ParseServerMessage, clientVars
<1>7. CASE ClientDecodes(msg)
  <2>1. /\ DownSays(msg, sv, cl, got) /\ LastOf(msg) = msg.sequence
        /\ msg.sequence >= got.serverCommandSequence
    BY <1>1 DEF SaysInv, IInv, DownOK, MessageOK
  <2>2. /\ parsed.serverCommandSequence = msg.sequence /\ GotSays(parsed, sv.lost)
        /\ Plain(got.serverCommands) /\ Plain(msg.texts) => Plain(parsed.serverCommands)
    <3>1. GotSays(got, sv.lost)
      BY DEF SaysInv
    <3>2. /\ msg.first <= got.serverCommandSequence + 1
          /\ \A n \in msg.first .. LastOf(msg) :
               n > LastOf(msg) - MAX_RELIABLE_COMMANDS
                 => Says(msg.texts[n - msg.first + 1], n, sv.lost)
      BY <2>1 DEF DownSays
    <3>3. LastOf(msg) >= got.serverCommandSequence
      BY <2>1
    <3>4. /\ Parsed(msg).serverCommandSequence = LastOf(msg)
          /\ GotSays(Parsed(msg), sv.lost)
          /\ Plain(got.serverCommands) /\ Plain(msg.texts) => Plain(Parsed(msg).serverCommands)
      BY <1>1, <3>1, <3>2, <3>3, ParsedSays, Zenon
    <3>. QED
      BY <2>1, <3>4
  <2>3. /\ cl' = c
        /\ got'.serverCommandSequence = msg.sequence
        /\ got'.serverCommands = parsed.serverCommands
        /\ snaps' \subseteq snaps \cup {msg.sequence}
    BY <1>7, <2>2 DEF CL_ParseServerMessage
  <2>. HIDE DEF parsed
  <2>4. GotSays(got', sv'.lost)
    BY <1>2, <2>2, <2>3 DEF GotSays
  <2>5. /\ Corrected(msg) \in Nat /\ Corrected(msg) <= cl.reliableSequence
        /\ Corrected(msg) >= cl.reliableSequence - MAX_RELIABLE_COMMANDS
    BY <1>1, <2>1, ReliableCommandsAssumption DEF Corrected, DownSays
  <2>6. /\ RingSays(c) /\ KeepsAll(c) /\ InOrder(c)
        /\ c.lost = cl.lost /\ c.reliableSequence = cl.reliableSequence
        /\ c.reliableCommands = cl.reliableCommands
    <3>1. RingSays(cl)
      BY DEF SaysInv
    <3>2. RingSays(c) /\ KeepsAll(c)
      BY <1>1, <2>5, <3>1, AcknowledgedSays
    <3>. QED
      BY <2>5, <3>2 DEF Acknowledged, InOrder
  <2>. HIDE DEF c
  <2>7. cl.lost \subseteq cl'.lost /\ cl.reliableSequence <= cl'.reliableSequence
        /\ cl'.reliableSequence \in Nat /\ sv.lost \subseteq sv.lost
        /\ got'.serverCommandSequence \in Nat
        /\ got.serverCommandSequence <= got'.serverCommandSequence
    BY <1>1, <2>1, <2>3, <2>6
  <2>8. ASSUME NEW j \in DOMAIN down' PROVE DownSays(down'[j], sv', cl', got')
    <3>1. PICK k \in DOMAIN down : down'[j] = down[k]
      BY <1>3
    <3>2. down[k] \in Downward /\ DownSays(down[k], sv, cl, got)
      BY Types DEF SaysInv
    <3>3. DownSays(down[k], sv, cl', got')
      BY <1>1, <2>7, <3>2, DownSaysOn
    <3>. QED
      BY <1>2, <3>1, <3>3
  <2>9. ASSUME NEW j \in DOMAIN up' PROVE UpSays(up'[j], sv', cl')
    <3>1. up[j] \in Upward /\ UpSays(up[j], sv, cl)
      BY <1>2, Types DEF SaysInv
    <3>2. UpSays(up[j], sv, cl')
      BY <1>1, <2>7, <3>1, UpSaysOn
    <3>. QED
      BY <1>2, <3>2
  <2>10. HeardSays'
    <3>1. snaps \subseteq 0 .. got.serverCommandSequence
          /\ \A n \in DOMAIN heard : Says(heard[n], n, sv.lost)
      BY DEF SaysInv, HeardSays
    <3>2. snaps' \subseteq 0 .. got'.serverCommandSequence
      BY <1>1, <2>1, <2>3, <3>1
    <3>. QED
      BY <1>2, <3>1, <3>2 DEF HeardSays
  <2>11. DoneSays'
    BY <1>2, <2>3, <2>6 DEF SaysInv, DoneSays
  <2>12. ServerPlain'
    BY <1>2, <1>3, <2>2, <2>3 DEF SaysInv, ServerPlain, Connected
  <2>13. ClientPlain'
    BY <1>2, <1>3, <2>3, <2>6 DEF SaysInv, ClientPlain
  <2>14. RingSays(cl') /\ KeepsAll(cl') /\ InOrder(cl')
    BY <2>3, <2>6
  <2>. QED
    BY <1>4, <2>4, <2>8, <2>9, <2>10, <2>11, <2>12, <2>13, <2>14, SaysNext
<1>. QED
  BY <1>6, <1>7

(* cgame passes to a snapshot. *)
LEMMA HearSays ==
  ASSUME IInv, SaysInv, NEW n \in snaps, CG_ExecuteNewServerCommands(n)
  PROVE  SaysInv'
<1>. DEFINE count == n - Len(heard)
            texts == [k \in 1 .. count |-> got.serverCommands[Slot(Len(heard) + k)]]
            new == UpToDisconnect(texts)
<1>1. /\ UNCHANGED <<serverVars, got, down>> /\ snaps' \subseteq snaps
      /\ \/ UNCHANGED <<mode, cl, up>>
         \/ mode' # "running" /\ CL_Disconnect(cl)
      /\ \/ heard' = heard
         \/ n > Len(heard) /\ ~CycledOut /\ heard' = heard \o new
  BY DEF CG_ExecuteNewServerCommands, CL_Disconnect
<1>2. /\ heard \in Seq(Int) /\ Len(heard) \in Nat /\ got \in Receiver
      /\ got.serverCommandSequence \in Nat
  BY Types
<1>3. n \in 0 .. got.serverCommandSequence /\ \A k \in DOMAIN heard : Says(heard[k], k, sv.lost)
  BY DEF SaysInv, HeardSays
<1>4. ASSUME n > Len(heard), ~CycledOut
      PROVE  \A k \in DOMAIN (heard \o new) : Says((heard \o new)[k], k, sv.lost)
  <2>1. count \in Nat
    BY <1>2, <1>3, <1>4
  <2>. HIDE DEF count
  <2>2. ASSUME NEW k \in 1 .. count
        PROVE  /\ texts[k] \in Int /\ Says(texts[k], Len(heard) + k, sv.lost)
    <3>1. texts[k] = got.serverCommands[Slot(Len(heard) + k)]
      OBVIOUS
    <3>2. /\ Len(heard) + k \in 0 .. got.serverCommandSequence
          /\ Len(heard) + k > got.serverCommandSequence - MAX_RELIABLE_COMMANDS
      BY <1>2, <1>3, <1>4, <2>1, ReliableCommandsAssumption DEF count, CycledOut
    <3>3. Slot(Len(heard) + k) \in Slots
      BY <1>2, SlotInRing
    <3>4. got.serverCommands[Slot(Len(heard) + k)] \in Int
      BY <1>2, <3>3 DEF Receiver
    <3>. QED
      BY <3>1, <3>2, <3>4 DEF SaysInv, GotSays
  <2>3. DOMAIN texts = 1 .. count
    OBVIOUS
  <2>4. texts \in Seq(Int)
    <3>1. texts \in [1 .. count -> Int]
      BY <2>2
    <3>. HIDE DEF texts
    <3>. QED
      BY <2>1, <3>1, SeqDef
  <2>. HIDE DEF texts
  <2>5. /\ new \in Seq(Int)
        /\ \A k \in DOMAIN new : k \in DOMAIN texts /\ new[k] = texts[k]
    BY <2>4, UpToDisconnectOK
  <2>. HIDE DEF new
  <2>6. \A k \in DOMAIN new : Says(new[k], Len(heard) + k, sv.lost)
    BY <2>2, <2>3, <2>5
  <2>. QED
    BY <1>2, <1>3, <2>5, <2>6, JoinedSays, Zenon
<1>. HIDE DEF new
<1>5. \A k \in DOMAIN heard' : Says(heard'[k], k, sv.lost)
  BY <1>1, <1>3, <1>4
<1>. QED
  BY <1>1, <1>5, ClientAddsSays

-----------------------------------------------------------------------------
(* What is executed, and what messages are encoded with.                   *)

(* Every step keeps what is said. *)
LEMMA StepSays == IInv /\ SaysInv /\ [Next]_vars => SaysInv'
<1>. SUFFICES ASSUME IInv, SaysInv, [Next]_vars PROVE SaysInv'
  OBVIOUS
<1>1. CASE ServerNext
  BY <1>1, AddServerCommandSays, DropsSays, SendSays, ExecuteSays DEF ServerNext
<1>2. CASE ClientNext
  BY <1>2, PlayerSays, ParseSays, HearSays DEF ClientNext
<1>3. CASE UNCHANGED vars
  <2>1. UNCHANGED <<serverVars, got, down, snaps, heard, mode, cl, up>>
    BY <1>3 DEF vars, serverVars
  <2>2. \A k \in DOMAIN heard' : Says(heard'[k], k, sv.lost)
    BY <2>1 DEF SaysInv, HeardSays
  <2>3. snaps' \subseteq snaps
    BY <2>1
  <2>. QED
    BY <2>1, <2>2, <2>3, ClientAddsSays
<1>. QED
  BY <1>1, <1>2, <1>3 DEF Next

(* What the rings, the messages and the two logs say stays true. *)
LEMMA SaysHolds == Spec => [](IInv /\ SaysInv)
<1>1. Spec => []IInv
  BY InvariantHolds
<1>. QED
  BY <1>1, SaysInit, StepSays, PTL DEF Spec

(* cgame executes under every number the text the server gave it, unless   *)
(* the server did not keep that text; and while the client is not dropped  *)
(* the server keeps them all: whatever messages are lost, a command can be *)
(* repeated or skipped neither by the ring of MAX_RELIABLE_COMMANDS texts  *)
(* nor by a message read late.                                             *)
THEOREM CommandsAreHeardAsSent == Spec => []HeardAsSent
<1>1. SaysInv => HeardAsSent
  BY DEF SaysInv, HeardSays, ServerPlain, Says, HeardAsSent
<1>. QED
  BY <1>1, SaysHolds, PTL

(* What the server executes for the client is what the client typed under  *)
(* that number, unless the client wrote over it before the server had      *)
(* acknowledged it: "Lost reliable commands" drops the client rather than  *)
(* skip one.                                                               *)
THEOREM CommandsAreDoneAsTyped == Spec => []DoneAsTyped
<1>1. SaysInv => DoneAsTyped
  BY DEF SaysInv, DoneSays, Says, DoneAsTyped
<1>. QED
  BY <1>1, SaysHolds, PTL

(* A message arrives at an end whose ring still has, under the number the  *)
(* message acknowledges, the text it was encoded with, as long as fewer    *)
(* than MAX_RELIABLE_COMMANDS numbers were given out since.  (With just as *)
(* many the slot has been used again: see the finding.)                    *)
THEOREM BelowFullKeysAgree == Spec => []KeysAgreeBelowFull
<1>1. ASSUME NEW s \in Sender, RingSays(s), s.lost = {}, Plain(s.reliableCommands),
             NEW n \in Nat, n <= s.reliableSequence,
             s.reliableSequence - n < MAX_RELIABLE_COMMANDS
      PROVE  s.reliableCommands[Slot(n)] = n
  <2>1. /\ s.reliableSequence \in Nat /\ DOMAIN s.reliableCommands = Slots
        /\ s.reliableCommands \in [Slots -> Int] /\ Slot(n) \in Slots
    BY SlotInRing DEF Sender
  <2>2. n \in 0 .. s.reliableSequence /\ n > s.reliableSequence - MAX_RELIABLE_COMMANDS
    BY <1>1, <2>1, ReliableCommandsAssumption
  <2>3. s.reliableCommands[Slot(n)] \in {n, -n}
    BY <1>1, <2>2 DEF RingSays, Says
  <2>4. s.reliableCommands[Slot(n)] >= 0
    BY <1>1, <2>1 DEF Plain
  <2>. QED
    BY <2>3, <2>4
<1>2. ASSUME IInv, SaysInv, Connected, NEW i \in DOMAIN up,
             sv.reliableSequence - up[i].ack < MAX_RELIABLE_COMMANDS
      PROVE  ServerDecodes(up[i])
  <2>1. /\ sv \in Sender /\ up[i] \in Upward /\ up[i].ack \in Nat
        /\ sv.reliableSequence \in Nat /\ got.serverCommandSequence \in Nat
        /\ sv.reliableAcknowledge \in Nat
    BY <1>2, Types DEF Upward
  <2>2. /\ RingSays(sv) /\ sv.lost = {} /\ Plain(sv.reliableCommands)
        /\ up[i].key >= 0 /\ Says(up[i].key, up[i].ack, sv.lost)
    BY <1>2 DEF SaysInv, ServerPlain, UpSays
  <2>3. up[i].ack <= sv.reliableSequence
    <3>1. up[i].ack \in sv.reliableAcknowledge .. got.serverCommandSequence
          /\ got.serverCommandSequence <= sv.reliableSequence
      BY <1>2 DEF IInv, UpOK, DownOK
    <3>. QED
      BY <2>1, <3>1
  <2>4. sv.reliableCommands[Slot(up[i].ack)] = up[i].ack
    BY <1>1, <1>2, <2>1, <2>2, <2>3
  <2>5. up[i].key = up[i].ack
    BY <2>1, <2>2 DEF Says
  <2>. QED
    BY <2>4, <2>5 DEF ServerDecodes
<1>3. ASSUME IInv, SaysInv, mode = "running", cl.lost = {}, NEW i \in DOMAIN down,
             cl.reliableSequence - down[i].last < MAX_RELIABLE_COMMANDS
      PROVE  ClientDecodes(down[i])
  <2>1. /\ cl \in Sender /\ down[i] \in Downward /\ down[i].last \in Nat
    BY <1>3, Types DEF Downward
  <2>2. /\ RingSays(cl) /\ Plain(cl.reliableCommands) /\ down[i].last <= cl.reliableSequence
        /\ down[i].key >= 0 /\ Says(down[i].key, down[i].last, cl.lost)
    BY <1>3 DEF SaysInv, ClientPlain, DownSays
  <2>3. cl.reliableCommands[Slot(down[i].last)] = down[i].last
    BY <1>1, <1>3, <2>1, <2>2
  <2>4. down[i].key = down[i].last
    BY <1>3, <2>1, <2>2 DEF Says
  <2>. QED
    BY <2>3, <2>4 DEF ClientDecodes
<1>4. IInv /\ SaysInv => KeysAgreeBelowFull
  BY <1>2, <1>3 DEF KeysAgreeBelowFull
<1>. QED
  BY <1>4, SaysHolds, PTL
=============================================================================

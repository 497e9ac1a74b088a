---------------------------- MODULE Download_proof ----------------------------
(***************************************************************************)
(* Proofs about the downloads, for any files, windows, levels and numbers  *)
(* of messages under way: IInv of DownloadInvariant is inductive.          *)
(*                                                                         *)
(* First what each batch of commands does to the server, and each action   *)
(* to the client or the server, without primes of records updated; then    *)
(* that every action keeps each layer of the invariant, the lower ones     *)
(* being known: Base, Tidy, Alone, and Fits with Serves.                   *)
(***************************************************************************)
EXTENDS DownloadInvariant, Lemmas_proof, FiniteSetTheorems, SequenceTheorems

-----------------------------------------------------------------------------
(* What a fold over one or two commands runs. *)

(* The parts of {1} and of {1, 2}. *)
LEMMA UpToOne ==
  /\ {} \in SUBSET {1} /\ {1} \in SUBSET {1}
  /\ \A t \in SUBSET {1} : t = {} \/ t = {1}
  /\ {1} # {} /\ {1} \ {1} = {}
<1>1. \A t \in SUBSET {1} : t = {} \/ t = {1}
  OBVIOUS
<1>. QED
  BY <1>1

LEMMA UpToTwo ==
  /\ {} \in SUBSET {1, 2} /\ {1} \in SUBSET {1, 2} /\ {2} \in SUBSET {1, 2}
  /\ {1, 2} \in SUBSET {1, 2}
  /\ \A t \in SUBSET {1, 2} : t = {} \/ t = {1} \/ t = {2} \/ t = {1, 2}
<1>1. \A t \in SUBSET {1, 2} : t = {} \/ t = {1} \/ t = {2} \/ t = {1, 2}
  OBVIOUS
<1>. QED
  BY <1>1

LEMMA TwoDiffer ==
  /\ {1} # {} /\ {2} # {} /\ {1, 2} # {} /\ {1, 2} # {1} /\ {1, 2} # {2} /\ {1} # {2}
<1>1. {1} # {} /\ {2} # {} /\ {1, 2} # {}
  OBVIOUS
<1>2. {1, 2} # {1} /\ {1, 2} # {2} /\ {1} # {2}
  OBVIOUS
<1>. QED
  BY <1>1, <1>2

LEMMA TwoLess == {1} \ {1} = {} /\ {2} \ {2} = {} /\ {1, 2} \ {2} = {1}
  OBVIOUS

LEMMA Single == ASSUME NEW c PROVE DOMAIN <<c>> = {1} /\ <<c>>[1] = c
  OBVIOUS

LEMMA Pair ==
  ASSUME NEW c, NEW d PROVE DOMAIN <<c, d>> = {1, 2} /\ <<c, d>>[1] = c /\ <<c, d>>[2] = d
  OBVIOUS

LEMMA RunsOne ==
  ASSUME NEW s, NEW c
  PROVE  FoldLeft(ClientCommand, s, <<c>>) = ClientCommand(s, c)
<1>. DEFINE Step(h) == [t \in SUBSET {1} |-> IF t = {} THEN s ELSE ClientCommand(h[t \ {Max(t)}], <<c>>[Max(t)])]
            h == CHOOSE f : f = Step(f)
            k == [t \in SUBSET {1} |-> IF t = {} THEN s ELSE ClientCommand(s, c)]
<1>1. Max({1}) = 1
  BY DEF Max
<1>2. /\ {} \in SUBSET {1} /\ {1} \in SUBSET {1} /\ \A t \in SUBSET {1} : t = {} \/ t = {1}
      /\ {1} # {} /\ {1} \ {1} = {} /\ DOMAIN <<c>> = {1} /\ <<c>>[1] = c
  BY UpToOne, Single
<1>3. k = Step(k)
  <2>1. k[{}] = s
    BY <1>2
  <2>2. ASSUME NEW t \in SUBSET {1}
        PROVE  (IF t = {} THEN s ELSE ClientCommand(s, c)) = IF t = {} THEN s ELSE ClientCommand(k[t \ {Max(t)}], <<c>>[Max(t)])
    <3>. HIDE DEF k
    <3>1. CASE t = {}
      BY <3>1
    <3>2. CASE t = {1}
      <4>1. t \ {Max(t)} = {} /\ <<c>>[Max(t)] = c
        BY <3>2, <1>1, <1>2
      <4>. QED
        BY <3>2, <2>1, <4>1
    <3>. QED
      BY <3>1, <3>2, <1>2
  <2>. QED
    BY <2>2
<1>4. h = Step(h)
  <2>. HIDE DEF Step, k
  <2>. QED
    BY <1>3
<1>5. FoldLeft(ClientCommand, s, <<c>>) = h[{1}]
  BY <1>2 DEF FoldLeft, MapThenFoldSet
<1>. HIDE DEF h
<1>6. \A t \in SUBSET {1} : h[t] = IF t = {} THEN s ELSE ClientCommand(h[t \ {Max(t)}], <<c>>[Max(t)])
  BY <1>4
<1>7. h[{}] = s
  BY <1>2, <1>6, Zenon
<1>8. h[{1}] = ClientCommand(h[{1} \ {Max({1})}], <<c>>[Max({1})])
  BY <1>2, <1>6, Zenon
<1>. QED
  BY <1>1, <1>2, <1>5, <1>7, <1>8

LEMMA RunsTwo ==
  ASSUME NEW s, NEW q, DOMAIN q = {1, 2}
  PROVE  FoldLeft(ClientCommand, s, q) = ClientCommand(ClientCommand(s, q[1]), q[2])
<1>. DEFINE Step(h) == [t \in SUBSET {1, 2} |-> IF t = {} THEN s ELSE ClientCommand(h[t \ {Max(t)}], q[Max(t)])]
            h == CHOOSE f : f = Step(f)
            k == [t \in SUBSET {1, 2} |->
                    IF t = {} THEN s ELSE IF t = {1} THEN ClientCommand(s, q[1])
                    ELSE IF t = {2} THEN ClientCommand(s, q[2]) ELSE ClientCommand(ClientCommand(s, q[1]), q[2])]
<1>1. Max({1}) = 1 /\ Max({2}) = 2 /\ Max({1, 2}) = 2
  BY DEF Max
<1>2. /\ {} \in SUBSET {1, 2} /\ {1} \in SUBSET {1, 2} /\ {2} \in SUBSET {1, 2} /\ {1, 2} \in SUBSET {1, 2}
      /\ \A t \in SUBSET {1, 2} : t = {} \/ t = {1} \/ t = {2} \/ t = {1, 2}
      /\ {1} # {} /\ {2} # {} /\ {1, 2} # {} /\ {1, 2} # {1} /\ {1, 2} # {2} /\ {1} # {2}
      /\ {1} \ {1} = {} /\ {2} \ {2} = {} /\ {1, 2} \ {2} = {1}
  BY UpToTwo, TwoDiffer, TwoLess
<1>3. k = Step(k)
  <2>1. k[{}] = s /\ k[{1}] = ClientCommand(s, q[1])
    BY <1>2
  <2>2. ASSUME NEW t \in SUBSET {1, 2}
        PROVE  (IF t = {} THEN s ELSE IF t = {1} THEN ClientCommand(s, q[1])
                ELSE IF t = {2} THEN ClientCommand(s, q[2]) ELSE ClientCommand(ClientCommand(s, q[1]), q[2]))
               = IF t = {} THEN s ELSE ClientCommand(k[t \ {Max(t)}], q[Max(t)])
    <3>. HIDE DEF k
    <3>1. CASE t = {}
      BY <3>1
    <3>2. CASE t = {1}
      <4>1. t \ {Max(t)} = {} /\ q[Max(t)] = q[1]
        BY <3>2, <1>1, <1>2
      <4>. QED
        BY <3>2, <2>1, <4>1
    <3>3. CASE t = {2}
      <4>1. t \ {Max(t)} = {} /\ q[Max(t)] = q[2]
        BY <3>3, <1>1, <1>2
      <4>. QED
        BY <3>3, <2>1, <4>1, <1>2
    <3>4. CASE t = {1, 2}
      <4>1. t \ {Max(t)} = {1} /\ q[Max(t)] = q[2]
        BY <3>4, <1>1, <1>2
      <4>. QED
        BY <3>4, <2>1, <4>1, <1>2
    <3>. QED
      BY <3>1, <3>2, <3>3, <3>4, <1>2
  <2>. QED
    BY <2>2
<1>4. h = Step(h)
  <2>. HIDE DEF Step, k
  <2>. QED
    BY <1>3
<1>5. FoldLeft(ClientCommand, s, q) = h[{1, 2}]
  BY <1>2 DEF FoldLeft, MapThenFoldSet
<1>. HIDE DEF h
<1>6. \A t \in SUBSET {1, 2} : h[t] = IF t = {} THEN s ELSE ClientCommand(h[t \ {Max(t)}], q[Max(t)])
  BY <1>4
<1>7. h[{}] = s
  BY <1>2, <1>6, Zenon
<1>8. h[{1}] = ClientCommand(h[{1} \ {Max({1})}], q[Max({1})])
  BY <1>2, <1>6, Zenon
<1>9. h[{1, 2}] = ClientCommand(h[{1, 2} \ {Max({1, 2})}], q[Max({1, 2})])
  BY <1>2, <1>6, Zenon
<1>. QED
  BY <1>1, <1>2, <1>5, <1>7, <1>8, <1>9

(* A command is executed, and its name is kept. *)
LEMMA Runs ==
  ASSUME NEW s, s.state # "zombie", NEW cmd, cmd \in Words, NEW arg,
         NEW t, t = ClientCommand(s, Cmd(cmd, arg)),
         NEW u \in Server, u = Executed(s, Cmd(cmd, arg))
  PROVE  /\ t \in Server /\ Kept(u, t) /\ Unmoved(u, t) /\ t.state = u.state /\ t.quiet = u.quiet
         /\ t.downloadName = u.downloadName /\ t.download = u.download /\ t.bWWWing = u.bWWWing
         /\ t.lastCommand = cmd
<1>1. t = [u EXCEPT !.lastCommand = cmd]
  BY DEF ClientCommand, Cmd
<1>. QED
  BY <1>1 DEF Server, Kept, Unmoved

LEMMA Closes ==
  ASSUME NEW s \in Server, NEW u, u = SV_CloseDownload(s)
  PROVE  /\ u \in Server /\ Kept(s, u) /\ Unmoved(s, u) /\ Closed(u)
         /\ u.bWWWing = s.bWWWing /\ u.state = s.state
  BY DEF SV_CloseDownload, Server, Kept, Unmoved, Closed

LEMMA Drops ==
  ASSUME NEW s \in Server, NEW u, u = SV_DropClient(s)
  PROVE  u \in Server /\ Dropped(s, u) /\ u.bWWWing = s.bWWWing
<1>. DEFINE v == SV_CloseDownload(s)
<1>1. u = [v EXCEPT !.state = "zombie"]
  BY DEF SV_DropClient
<1>2. /\ v \in Server /\ Kept(s, v) /\ Unmoved(s, v) /\ Closed(v)
      /\ v.bWWWing = s.bWWWing /\ v.state = s.state
  BY Closes
<1>. HIDE DEF v
<1>3. u \in Server /\ Kept(v, u) /\ Unmoved(v, u) /\ u.downloadName = v.downloadName
      /\ u.download = v.download /\ u.state = "zombie"
      /\ u.bWWWing = v.bWWWing
  BY <1>1, <1>2 DEF Server, Kept, Unmoved
<1>. QED
  BY <1>2, <1>3 DEF Dropped, Kept, Unmoved, Closed

LEMMA NextdlRuns ==
  ASSUME NEW s \in Server, s.state # "zombie", NEW n \in Nat,
         NEW t, t = ClientCommand(s, Cmd("nextdl", n))
  PROVE  /\ t \in Server /\ Kept(s, t)
         /\ t.bFallback = s.bFallback /\ t.gamestate = s.gamestate /\ t.bWWWing = s.bWWWing
         /\ t.lastCommand = "nextdl"
         /\ \/ n # s.downloadClientBlock /\ Dropped(s, t)
            \/ /\ n = s.downloadClientBlock /\ t.state = s.state /\ Unmoved(s, t) /\ Closed(t)
               /\ s.downloadBlocks[Slot(n)].part = 0
            \/ /\ n = s.downloadClientBlock /\ t.state = s.state
               /\ t.downloadClientBlock = n + 1
               /\ t.downloadName = s.downloadName /\ t.download = s.download
               /\ s.downloadBlocks[Slot(n)].part # 0
<1>. DEFINE u == Executed(s, Cmd("nextdl", n))
<1>1. u = SV_NextDownload(s, n)
  BY DEF Executed, Cmd
<1>2. /\ u \in Server /\ Kept(s, u)
      /\ u.bFallback = s.bFallback /\ u.gamestate = s.gamestate /\ u.bWWWing = s.bWWWing
      /\ \/ n # s.downloadClientBlock /\ Dropped(s, u)
         \/ /\ n = s.downloadClientBlock /\ u.state = s.state /\ Unmoved(s, u) /\ Closed(u)
            /\ s.downloadBlocks[Slot(n)].part = 0
         \/ /\ n = s.downloadClientBlock /\ u.state = s.state
            /\ u.downloadClientBlock = n + 1
            /\ u.downloadName = s.downloadName /\ u.download = s.download
            /\ s.downloadBlocks[Slot(n)].part # 0
  <2>1. CASE n # s.downloadClientBlock
    BY <1>1, <2>1, Drops DEF SV_NextDownload, Dropped, Unmoved
  <2>2. CASE n = s.downloadClientBlock /\ s.downloadBlocks[Slot(n)].part = 0
    BY <1>1, <2>2, Closes DEF SV_NextDownload, Unmoved
  <2>3. CASE n = s.downloadClientBlock /\ s.downloadBlocks[Slot(n)].part # 0
    <3>1. u = [s EXCEPT !.quiet = FALSE, !.downloadClientBlock = @ + 1]
      BY <1>1, <2>3 DEF SV_NextDownload
    <3>2. /\ u.downloadClientBlock = n + 1 /\ Kept(s, u) /\ u.state = s.state
          /\ u.downloadName = s.downloadName /\ u.download = s.download
          /\ u.bFallback = s.bFallback /\ u.gamestate = s.gamestate /\ u.bWWWing = s.bWWWing
      BY <2>3, <3>1 DEF Server, Kept
    <3>3. u \in Server
      <4>1. PICK v \in Nat : u = [s EXCEPT !.quiet = FALSE, !.downloadClientBlock = v]
        <5>1. s.downloadClientBlock + 1 \in Nat
          BY <2>3
        <5>. QED
          BY <3>1, <5>1
      <4>. HIDE DEF u
      <4>. QED
        BY <4>1 DEF Server
    <3>. QED
      BY <2>3, <3>2, <3>3
  <2>. QED
    BY <2>1, <2>2, <2>3
<1>0. u = Executed(s, Cmd("nextdl", n))
  OBVIOUS
<1>9. "nextdl" \in Words
  BY DEF Words
<1>. HIDE DEF u
<1>3. /\ t \in Server /\ Kept(u, t) /\ Unmoved(u, t) /\ t.state = u.state /\ t.lastCommand = "nextdl"
      /\ t.downloadName = u.downloadName /\ t.download = u.download /\ t.bWWWing = u.bWWWing
  BY <1>0, <1>9, <1>2, Runs
<1>. QED
  BY <1>2, <1>3 DEF Kept, Unmoved, Closed, Dropped

LEMMA AskRuns ==
  ASSUME NEW s \in Server, s.state # "zombie", NEW f \in {None} \cup Files,
         NEW t, t = ClientCommand(s, Asks(f))
  PROVE  /\ t \in Server /\ Kept(s, t) /\ t.bWWWing = s.bWWWing
         /\ t.downloadClientBlock = s.downloadClientBlock /\ t.bFallback = s.bFallback
         /\ t.state # "zombie" /\ t.lastCommand # "nextdl"
         /\ f = None => t.gamestate /\ t.downloadName = s.downloadName /\ t.download = s.download
         /\ f # None => t.gamestate = s.gamestate /\ t.downloadName = f /\ ~t.download
<1>. DEFINE u == Executed(s, Asks(f))
            cmd == IF f = None THEN "donedl" ELSE "download"
<1>1. CASE f = None
  <2>1. u = OwesGamestate(s)
    BY <1>1 DEF Executed, Asks, Cmd, SV_DoneDownload
  <2>2. /\ u \in Server /\ Kept(s, u) /\ u.bWWWing = s.bWWWing
        /\ u.downloadClientBlock = s.downloadClientBlock /\ u.bFallback = s.bFallback
        /\ u.state = "primed" /\ u.gamestate /\ u.downloadName = s.downloadName /\ u.download = s.download
    BY <2>1 DEF OwesGamestate, Server, Kept
  <2>0. u = Executed(s, Cmd("donedl", 0)) /\ t = ClientCommand(s, Cmd("donedl", 0))
    BY <1>1 DEF Asks
  <2>9. "donedl" \in Words
    BY DEF Words
  <2>. HIDE DEF u
  <2>3. /\ t \in Server /\ Kept(u, t) /\ Unmoved(u, t) /\ t.state = u.state /\ t.lastCommand = "donedl"
        /\ t.downloadName = u.downloadName /\ t.download = u.download /\ t.bWWWing = u.bWWWing
    BY <2>0, <2>9, <2>2, Runs
  <2>. QED
    BY <1>1, <2>2, <2>3 DEF Kept, Unmoved
<1>2. CASE f # None
  <2>. DEFINE v == SV_CloseDownload(s)
  <2>1. u = [v EXCEPT !.downloadName = f]
    BY <1>2 DEF Executed, Asks, Cmd, SV_BeginDownload
  <2>2. /\ v \in Server /\ Kept(s, v) /\ Unmoved(s, v) /\ Closed(v)
        /\ v.bWWWing = s.bWWWing /\ v.state = s.state
    BY Closes
  <2>0. /\ u = Executed(s, Cmd("download", f)) /\ t = ClientCommand(s, Cmd("download", f))
    BY <1>2 DEF Asks
  <2>9. "download" \in Words
    BY DEF Words
  <2>. HIDE DEF u, v
  <2>3. /\ u \in Server /\ Kept(v, u) /\ Unmoved(v, u) /\ u.downloadName = f
        /\ u.download = v.download /\ u.bWWWing = v.bWWWing /\ u.state = v.state
    BY <2>1, <2>2 DEF Server, Kept, Unmoved
  <2>4. /\ t \in Server /\ Kept(u, t) /\ Unmoved(u, t) /\ t.state = u.state /\ t.lastCommand = "download"
        /\ t.downloadName = u.downloadName /\ t.download = u.download /\ t.bWWWing = u.bWWWing
    BY <2>0, <2>9, <2>3, Runs
  <2>. QED
    BY <1>2, <2>2, <2>3, <2>4 DEF Kept, Unmoved, Closed
<1>. QED
  BY <1>1, <1>2

LEMMA StopRuns ==
  ASSUME NEW s \in Server, s.state # "zombie", NEW t, t = ClientCommand(s, Cmd("stopdl", 0))
  PROVE  /\ t \in Server /\ Kept(s, t) /\ Unmoved(s, t) /\ Closed(t)
         /\ t.bWWWing = s.bWWWing /\ t.state = s.state /\ t.lastCommand # "nextdl"
<1>. DEFINE u == Executed(s, Cmd("stopdl", 0))
<1>1. u = SV_CloseDownload(s)
  BY DEF Executed, Cmd
<1>2. /\ u \in Server /\ Kept(s, u) /\ Unmoved(s, u) /\ Closed(u)
      /\ u.bWWWing = s.bWWWing /\ u.state = s.state
  BY <1>1, Closes
<1>0. u = Executed(s, Cmd("stopdl", 0))
  OBVIOUS
<1>9. "stopdl" \in Words
  BY DEF Words
<1>. HIDE DEF u
<1>3. /\ t \in Server /\ Kept(u, t) /\ Unmoved(u, t) /\ t.state = u.state
      /\ t.downloadName = u.downloadName /\ t.download = u.download /\ t.bWWWing = u.bWWWing
      /\ t.lastCommand = "stopdl"
  BY <1>0, <1>9, <1>2, Runs
<1>. QED
  BY <1>2, <1>3 DEF Kept, Unmoved, Closed

LEMMA AckRuns ==
  ASSUME NEW s \in Server, s.state # "zombie", NEW t, t = ClientCommand(s, Cmd("wwwdl_ack", 0))
  PROVE  /\ t \in Server /\ Kept(s, t) /\ Unmoved(s, t)
         /\ \/ ~s.bWWWDl /\ Closed(t) /\ t.state = "zombie"
            \/ /\ s.bWWWDl /\ t.bWWWing /\ t.state = s.state
               /\ t.downloadName = s.downloadName /\ t.download = s.download
<1>. DEFINE u == Executed(s, Cmd("wwwdl_ack", 0))
<1>1. u = IF s.bWWWDl THEN [s EXCEPT !.bWWWing = TRUE] ELSE SV_DropClient(s)
  BY DEF Executed, Cmd, SV_WWWDownload, Server
<1>2. /\ u \in Server /\ Kept(s, u) /\ Unmoved(s, u)
      /\ \/ ~s.bWWWDl /\ Closed(u) /\ u.state = "zombie"
         \/ /\ s.bWWWDl /\ u.bWWWing /\ u.state = s.state
            /\ u.downloadName = s.downloadName /\ u.download = s.download
  <2>1. CASE s.bWWWDl
    BY <1>1, <2>1 DEF Server, Kept, Unmoved
  <2>2. CASE ~s.bWWWDl
    BY <1>1, <2>2, Drops DEF Dropped
  <2>. QED
    BY <2>1, <2>2
<1>0. u = Executed(s, Cmd("wwwdl_ack", 0))
  OBVIOUS
<1>9. "wwwdl_ack" \in Words
  BY DEF Words
<1>. HIDE DEF u
<1>3. /\ t \in Server /\ Kept(u, t) /\ Unmoved(u, t) /\ t.state = u.state
      /\ t.downloadName = u.downloadName /\ t.download = u.download /\ t.bWWWing = u.bWWWing
  BY <1>0, <1>9, <1>2, Runs
<1>. QED
  BY <1>2, <1>3 DEF Kept, Unmoved, Closed

LEMMA RedirectEnds ==
  ASSUME NEW s \in Server, NEW u, u = Redirected(s)
  PROVE  /\ u \in Server /\ Kept(s, u) /\ Unmoved(s, u) /\ Closed(u)
         /\ u.state = s.state /\ ~u.bWWWing
  BY DEF Redirected, Server, Kept, Unmoved, Closed

LEMMA DoneRuns ==
  ASSUME NEW s \in Server, s.state # "zombie", NEW t, t = ClientCommand(s, Cmd("wwwdl_done", 0))
  PROVE  /\ t \in Server /\ Kept(s, t) /\ Unmoved(s, t) /\ Closed(t)
         /\ \/ ~(s.bWWWDl /\ s.bWWWing) /\ t.state = "zombie"
            \/ s.bWWWDl /\ s.bWWWing /\ t.state = s.state /\ ~t.bWWWing
<1>. DEFINE u == Executed(s, Cmd("wwwdl_done", 0))
<1>1. u = IF s.bWWWDl /\ s.bWWWing THEN Redirected(s) ELSE SV_DropClient(s)
  BY DEF Executed, Cmd, SV_WWWDownload, Server
<1>2. /\ u \in Server /\ Kept(s, u) /\ Unmoved(s, u) /\ Closed(u)
      /\ \/ ~(s.bWWWDl /\ s.bWWWing) /\ u.state = "zombie"
         \/ s.bWWWDl /\ s.bWWWing /\ u.state = s.state /\ ~u.bWWWing
  <2>1. CASE s.bWWWDl /\ s.bWWWing
    BY <1>1, <2>1, RedirectEnds
  <2>2. CASE ~(s.bWWWDl /\ s.bWWWing)
    BY <1>1, <2>2, Drops DEF Dropped
  <2>. QED
    BY <2>1, <2>2
<1>0. u = Executed(s, Cmd("wwwdl_done", 0))
  OBVIOUS
<1>9. "wwwdl_done" \in Words
  BY DEF Words
<1>. HIDE DEF u
<1>3. /\ t \in Server /\ Kept(u, t) /\ Unmoved(u, t) /\ t.state = u.state
      /\ t.downloadName = u.downloadName /\ t.download = u.download /\ t.bWWWing = u.bWWWing
  BY <1>0, <1>9, <1>2, Runs
<1>. QED
  BY <1>2, <1>3 DEF Kept, Unmoved, Closed

LEMMA FailRuns ==
  ASSUME NEW s \in Server, s.state # "zombie", NEW t, t = ClientCommand(s, Cmd("wwwdl_fail", 0))
  PROVE  /\ t \in Server /\ Kept(s, t) /\ Closed(t)
         /\ t.downloadClientBlock = s.downloadClientBlock
         /\ \/ ~(s.bWWWDl /\ s.bWWWing) /\ t.state = "zombie" /\ Unmoved(s, t)
            \/ /\ s.bWWWDl /\ s.bWWWing /\ t.state # "zombie" /\ t.gamestate /\ ~t.bWWWing
               /\ t.lastCommand # "nextdl"
<1>. DEFINE u == Executed(s, Cmd("wwwdl_fail", 0))
            r == Redirected(s)
<1>1. /\ s.bWWWDl /\ s.bWWWing => u = OwesGamestate([r EXCEPT !.bFallback = TRUE])
      /\ ~(s.bWWWDl /\ s.bWWWing) => u = SV_DropClient(s)
  BY DEF Executed, Cmd, SV_WWWDownload, Server
<1>2. /\ u \in Server /\ Kept(s, u) /\ Closed(u)
      /\ u.downloadClientBlock = s.downloadClientBlock
      /\ \/ ~(s.bWWWDl /\ s.bWWWing) /\ u.state = "zombie" /\ Unmoved(s, u)
         \/ s.bWWWDl /\ s.bWWWing /\ u.state # "zombie" /\ u.gamestate /\ ~u.bWWWing
  <2>1. CASE s.bWWWDl /\ s.bWWWing
    <3>1. /\ r \in Server /\ Kept(s, r) /\ Unmoved(s, r) /\ Closed(r)
          /\ r.state = s.state /\ ~r.bWWWing
      BY RedirectEnds
    <3>. DEFINE q == [r EXCEPT !.bFallback = TRUE]
    <3>2. u = OwesGamestate(q)
      BY <1>1, <2>1
    <3>. HIDE DEF r, u
    <3>3. /\ q \in Server /\ Kept(r, q) /\ q.downloadClientBlock = r.downloadClientBlock
          /\ q.download = r.download /\ q.downloadName = r.downloadName /\ q.bWWWing = r.bWWWing
      BY <3>1 DEF Server, Kept
    <3>. HIDE DEF q
    <3>4. /\ u \in Server /\ Kept(q, u) /\ u.downloadClientBlock = q.downloadClientBlock
          /\ u.download = q.download /\ u.downloadName = q.downloadName /\ u.bWWWing = q.bWWWing
          /\ u.state = "primed" /\ u.gamestate
      BY <3>2, <3>3 DEF OwesGamestate, Server, Kept
    <3>. QED
      BY <2>1, <3>1, <3>3, <3>4 DEF Kept, Unmoved, Closed
  <2>2. CASE ~(s.bWWWDl /\ s.bWWWing)
    BY <1>1, <2>2, Drops DEF Dropped, Unmoved
  <2>. QED
    BY <2>1, <2>2
<1>0. u = Executed(s, Cmd("wwwdl_fail", 0))
  OBVIOUS
<1>9. "wwwdl_fail" \in Words
  BY DEF Words
<1>. HIDE DEF u
<1>3. /\ t \in Server /\ Kept(u, t) /\ Unmoved(u, t) /\ t.state = u.state /\ t.lastCommand = "wwwdl_fail"
      /\ t.downloadName = u.downloadName /\ t.download = u.download /\ t.bWWWing = u.bWWWing
  BY <1>0, <1>9, <1>2, Runs
<1>. QED
  BY <1>2, <1>3 DEF Kept, Unmoved, Closed

(* A zombie's commands are not read. *)
LEMMA ZombieRuns ==
  ASSUME NEW s, s.state = "zombie", NEW c PROVE ClientCommand(s, c) = s
  BY DEF ClientCommand

-----------------------------------------------------------------------------
(* What a batch of commands does to the server. *)

LEMMA Settles ==
  ASSUME NEW s \in Server, NEW t, t = [s EXCEPT !.gamestate = FALSE]
  PROVE  Settled(s, t)
  BY DEF Server, Settled

LEMMA ExecutesBatch ==
  ASSUME NEW level, ExecuteBatch(level), NEW t \in Server,
         t = FoldLeft(ClientCommand, sv, Head(up).commands)
  PROVE  Settled(t, sv') /\ down' = IF t.gamestate THEN Sent(Gamestate) ELSE down
<1>1. /\ sv' = [t EXCEPT !.gamestate = FALSE]
      /\ down' = IF t.gamestate THEN Sent(Gamestate) ELSE down
  BY DEF ExecuteBatch
<1>. QED
  BY <1>1, Settles

LEMMA ExecutesNextdl ==
  ASSUME NEW level, ExecuteBatch(level), NEW n \in Nat, Executing(NextdlOf(n))
  PROVE  /\ sv' \in Server /\ Kept(sv, sv') /\ ~sv'.gamestate /\ down' = down
         /\ sv'.bFallback = sv.bFallback /\ sv'.bWWWing = sv.bWWWing
         /\ sv'.lastCommand = "nextdl"
         /\ \/ /\ n # sv.downloadClientBlock /\ Closed(sv') /\ sv'.state = "zombie"
               /\ sv'.downloadClientBlock = sv.downloadClientBlock
            \/ /\ n = sv.downloadClientBlock /\ Closed(sv') /\ sv'.state = sv.state
               /\ sv'.downloadClientBlock = sv.downloadClientBlock
               /\ sv.downloadBlocks[Slot(n)].part = 0
            \/ /\ n = sv.downloadClientBlock /\ sv'.state = sv.state
               /\ sv'.downloadClientBlock = n + 1
               /\ sv'.downloadName = sv.downloadName /\ sv'.download = sv.download
               /\ sv.downloadBlocks[Slot(n)].part # 0
<1>. DEFINE t == FoldLeft(ClientCommand, sv, Head(up).commands)
<1>1. t = ClientCommand(sv, Cmd("nextdl", n))
  BY RunsOne DEF Executing, NextdlOf
<1>. HIDE DEF t
<1>2. /\ t \in Server /\ Kept(sv, t)
      /\ t.bFallback = sv.bFallback /\ t.gamestate = sv.gamestate /\ t.bWWWing = sv.bWWWing
      /\ t.lastCommand = "nextdl"
      /\ \/ n # sv.downloadClientBlock /\ Dropped(sv, t)
         \/ /\ n = sv.downloadClientBlock /\ t.state = sv.state /\ Unmoved(sv, t) /\ Closed(t)
            /\ sv.downloadBlocks[Slot(n)].part = 0
         \/ /\ n = sv.downloadClientBlock /\ t.state = sv.state
            /\ t.downloadClientBlock = n + 1
            /\ t.downloadName = sv.downloadName /\ t.download = sv.download
            /\ sv.downloadBlocks[Slot(n)].part # 0
  BY <1>1, NextdlRuns DEF Executing
<1>3. Settled(t, sv') /\ down' = IF t.gamestate THEN Sent(Gamestate) ELSE down
  BY <1>2, ExecutesBatch DEF t
<1>. QED
  BY <1>2, <1>3 DEF Settled, Kept, Unmoved, Closed, Dropped, Executing

LEMMA ExecutesAsk ==
  ASSUME NEW level, ExecuteBatch(level), NEW f \in {None} \cup Files, Executing(AskFor(f))
  PROVE  /\ Frame /\ Granted(f) /\ sv'.bWWWing = sv.bWWWing
         /\ f = None => sv'.downloadName = sv.downloadName /\ sv'.download = sv.download
<1>. DEFINE t == FoldLeft(ClientCommand, sv, Head(up).commands)
<1>1. t = ClientCommand(sv, Asks(f))
  BY RunsOne DEF Executing, AskFor
<1>. HIDE DEF t
<1>2. /\ t \in Server /\ Kept(sv, t) /\ t.bWWWing = sv.bWWWing
      /\ t.downloadClientBlock = sv.downloadClientBlock /\ t.bFallback = sv.bFallback
      /\ t.state # "zombie" /\ t.lastCommand # "nextdl"
      /\ f = None => t.gamestate /\ t.downloadName = sv.downloadName /\ t.download = sv.download
      /\ f # None => t.gamestate = sv.gamestate /\ t.downloadName = f /\ ~t.download
  BY <1>1, AskRuns DEF Executing
<1>3. Settled(t, sv') /\ down' = IF t.gamestate THEN Sent(Gamestate) ELSE down
  BY <1>2, ExecutesBatch DEF t
<1>. QED
  BY <1>2, <1>3 DEF Settled, Kept, Executing, Frame, Granted

LEMMA ExecutesStopAsk ==
  ASSUME NEW level, ExecuteBatch(level), NEW f \in {None} \cup Files, Executing(StopAsk(f))
  PROVE  Frame /\ Granted(f) /\ sv'.bWWWing = sv.bWWWing /\ (f = None => Closed(sv'))
<1>. DEFINE t == FoldLeft(ClientCommand, sv, Head(up).commands)
            s == ClientCommand(sv, Cmd("stopdl", 0))
<1>1. t = ClientCommand(s, Asks(f))
  <2>. DEFINE q == Head(up).commands
  <2>1. q = <<Cmd("stopdl", 0), Asks(f)>>
    BY DEF Executing, StopAsk
  <2>2. DOMAIN q = {1, 2} /\ q[1] = Cmd("stopdl", 0) /\ q[2] = Asks(f)
    BY <2>1, Pair
  <2>. HIDE DEF q
  <2>3. FoldLeft(ClientCommand, sv, q) = ClientCommand(ClientCommand(sv, q[1]), q[2])
    BY <2>2, RunsTwo
  <2>. QED
    BY <2>2, <2>3 DEF q
<1>. HIDE DEF t
<1>2. /\ s \in Server /\ Kept(sv, s) /\ Unmoved(sv, s) /\ Closed(s)
      /\ s.bWWWing = sv.bWWWing /\ s.state = sv.state
  BY StopRuns DEF Executing
<1>. HIDE DEF s
<1>3. /\ t \in Server /\ Kept(s, t) /\ t.bWWWing = s.bWWWing
      /\ t.downloadClientBlock = s.downloadClientBlock /\ t.bFallback = s.bFallback
      /\ t.state # "zombie" /\ t.lastCommand # "nextdl"
      /\ f = None => t.gamestate /\ t.downloadName = s.downloadName /\ t.download = s.download
      /\ f # None => t.gamestate = s.gamestate /\ t.downloadName = f /\ ~t.download
  BY <1>1, <1>2, AskRuns DEF Executing
<1>4. Settled(t, sv') /\ down' = IF t.gamestate THEN Sent(Gamestate) ELSE down
  BY <1>3, ExecutesBatch DEF t
<1>. QED
  BY <1>2, <1>3, <1>4 DEF Settled, Kept, Unmoved, Closed, Executing, Frame, Granted

LEMMA ExecutesDoneAsk ==
  ASSUME NEW level, ExecuteBatch(level), NEW f \in {None} \cup Files, Executing(DoneAsk(f))
  PROVE  /\ Frame
         /\ \/ /\ ~(sv.bWWWDl /\ sv.bWWWing) /\ sv'.state = "zombie" /\ Closed(sv')
               /\ sv'.bFallback = sv.bFallback /\ down' = down
            \/ /\ sv.bWWWDl /\ sv.bWWWing /\ Granted(f)
               /\ (f = None => Closed(sv')) /\ ~sv'.bWWWing
<1>. DEFINE t == FoldLeft(ClientCommand, sv, Head(up).commands)
            s == ClientCommand(sv, Cmd("wwwdl_done", 0))
<1>1. t = ClientCommand(s, Asks(f))
  <2>. DEFINE q == Head(up).commands
  <2>1. q = <<Cmd("wwwdl_done", 0), Asks(f)>>
    BY DEF Executing, DoneAsk
  <2>2. DOMAIN q = {1, 2} /\ q[1] = Cmd("wwwdl_done", 0) /\ q[2] = Asks(f)
    BY <2>1, Pair
  <2>. HIDE DEF q
  <2>3. FoldLeft(ClientCommand, sv, q) = ClientCommand(ClientCommand(sv, q[1]), q[2])
    BY <2>2, RunsTwo
  <2>. QED
    BY <2>2, <2>3 DEF q
<1>. HIDE DEF t
<1>2. /\ s \in Server /\ Kept(sv, s) /\ Unmoved(sv, s) /\ Closed(s)
      /\ \/ ~(sv.bWWWDl /\ sv.bWWWing) /\ s.state = "zombie"
         \/ sv.bWWWDl /\ sv.bWWWing /\ s.state = sv.state /\ ~s.bWWWing
  BY DoneRuns DEF Executing
<1>. HIDE DEF s
<1>3. CASE s.state = "zombie"
  <2>1. t = s
    BY <1>1, <1>3, ZombieRuns
  <2>2. Settled(t, sv') /\ down' = IF t.gamestate THEN Sent(Gamestate) ELSE down
    BY <1>2, <2>1, ExecutesBatch DEF t
  <2>. QED
    BY <1>2, <1>3, <2>1, <2>2 DEF Settled, Kept, Unmoved, Closed, Executing, Frame
<1>4. CASE s.state # "zombie"
  <2>1. /\ t \in Server /\ Kept(s, t) /\ t.bWWWing = s.bWWWing
        /\ t.downloadClientBlock = s.downloadClientBlock /\ t.bFallback = s.bFallback
        /\ t.state # "zombie" /\ t.lastCommand # "nextdl"
        /\ f = None => t.gamestate /\ t.downloadName = s.downloadName /\ t.download = s.download
        /\ f # None => t.gamestate = s.gamestate /\ t.downloadName = f /\ ~t.download
    BY <1>1, <1>2, <1>4, AskRuns
  <2>2. Settled(t, sv') /\ down' = IF t.gamestate THEN Sent(Gamestate) ELSE down
    BY <2>1, ExecutesBatch DEF t
  <2>. QED
    BY <1>2, <1>4, <2>1, <2>2 DEF Settled, Kept, Unmoved, Closed, Executing, Frame, Granted
<1>. QED
  BY <1>3, <1>4

LEMMA ExecutesAck ==
  ASSUME NEW level, ExecuteBatch(level), Executing(Ack)
  PROVE  /\ Frame /\ down' = down /\ sv'.bFallback = sv.bFallback
         /\ \/ ~sv.bWWWDl /\ Closed(sv') /\ sv'.state = "zombie"
            \/ /\ sv.bWWWDl /\ sv'.bWWWing /\ sv'.state = sv.state
               /\ sv'.downloadName = sv.downloadName /\ sv'.download = sv.download
<1>. DEFINE t == FoldLeft(ClientCommand, sv, Head(up).commands)
<1>1. t = ClientCommand(sv, Cmd("wwwdl_ack", 0))
  BY RunsOne DEF Executing, Ack
<1>. HIDE DEF t
<1>2. /\ t \in Server /\ Kept(sv, t) /\ Unmoved(sv, t)
      /\ \/ ~sv.bWWWDl /\ Closed(t) /\ t.state = "zombie"
         \/ /\ sv.bWWWDl /\ t.bWWWing /\ t.state = sv.state
            /\ t.downloadName = sv.downloadName /\ t.download = sv.download
  BY <1>1, AckRuns DEF Executing
<1>3. Settled(t, sv') /\ down' = IF t.gamestate THEN Sent(Gamestate) ELSE down
  BY <1>2, ExecutesBatch DEF t
<1>. QED
  BY <1>2, <1>3 DEF Settled, Kept, Unmoved, Closed, Executing, Frame

LEMMA ExecutesFail ==
  ASSUME NEW level, ExecuteBatch(level), Executing(Fail)
  PROVE  /\ Frame /\ Closed(sv') /\ GaveUp
         /\ sv.bWWWDl /\ sv.bWWWing => sv'.state # "zombie"
<1>. DEFINE t == FoldLeft(ClientCommand, sv, Head(up).commands)
<1>1. t = ClientCommand(sv, Cmd("wwwdl_fail", 0))
  BY RunsOne DEF Executing, Fail
<1>. HIDE DEF t
<1>2. /\ t \in Server /\ Kept(sv, t) /\ Closed(t)
      /\ t.downloadClientBlock = sv.downloadClientBlock
      /\ \/ ~(sv.bWWWDl /\ sv.bWWWing) /\ t.state = "zombie" /\ Unmoved(sv, t)
         \/ /\ sv.bWWWDl /\ sv.bWWWing /\ t.state # "zombie" /\ t.gamestate /\ ~t.bWWWing
            /\ t.lastCommand # "nextdl"
  BY <1>1, FailRuns DEF Executing
<1>3. Settled(t, sv') /\ down' = IF t.gamestate THEN Sent(Gamestate) ELSE down
  BY <1>2, ExecutesBatch DEF t
<1>. QED
  BY <1>2, <1>3 DEF Settled, Kept, Unmoved, Closed, Executing, Frame, GaveUp

LEMMA ExecutesAckFail ==
  ASSUME NEW level, ExecuteBatch(level), Executing(AckFail)
  PROVE  /\ Frame /\ Closed(sv') /\ GaveUp
         /\ sv.bWWWDl => sv'.state # "zombie"
<1>. DEFINE t == FoldLeft(ClientCommand, sv, Head(up).commands)
            s == ClientCommand(sv, Cmd("wwwdl_ack", 0))
<1>1. t = ClientCommand(s, Cmd("wwwdl_fail", 0))
  <2>. DEFINE q == Head(up).commands
  <2>1. q = <<Cmd("wwwdl_ack", 0), Cmd("wwwdl_fail", 0)>>
    BY DEF Executing, AckFail
  <2>2. DOMAIN q = {1, 2} /\ q[1] = Cmd("wwwdl_ack", 0) /\ q[2] = Cmd("wwwdl_fail", 0)
    BY <2>1, Pair
  <2>. HIDE DEF q
  <2>3. FoldLeft(ClientCommand, sv, q) = ClientCommand(ClientCommand(sv, q[1]), q[2])
    BY <2>2, RunsTwo
  <2>. QED
    BY <2>2, <2>3 DEF q
<1>. HIDE DEF t
<1>2. /\ s \in Server /\ Kept(sv, s) /\ Unmoved(sv, s)
      /\ \/ ~sv.bWWWDl /\ Closed(s) /\ s.state = "zombie"
         \/ /\ sv.bWWWDl /\ s.bWWWing /\ s.state = sv.state
            /\ s.downloadName = sv.downloadName /\ s.download = sv.download
  BY AckRuns DEF Executing
<1>. HIDE DEF s
<1>3. CASE s.state = "zombie"
  <2>1. t = s
    BY <1>1, <1>3, ZombieRuns
  <2>2. Settled(t, sv') /\ down' = IF t.gamestate THEN Sent(Gamestate) ELSE down
    BY <1>2, <2>1, ExecutesBatch DEF t
  <2>. QED
    BY <1>2, <1>3, <2>1, <2>2 DEF Settled, Kept, Unmoved, Closed, Executing, Frame, GaveUp
<1>4. CASE s.state # "zombie"
  <2>1. /\ t \in Server /\ Kept(s, t) /\ Closed(t)
        /\ t.downloadClientBlock = s.downloadClientBlock
        /\ s.bWWWDl = sv.bWWWDl
        /\ \/ ~(s.bWWWDl /\ s.bWWWing) /\ t.state = "zombie" /\ Unmoved(s, t)
           \/ /\ s.bWWWDl /\ s.bWWWing /\ t.state # "zombie" /\ t.gamestate /\ ~t.bWWWing
              /\ t.lastCommand # "nextdl"
    BY <1>1, <1>2, <1>4, FailRuns DEF Kept
  <2>2. Settled(t, sv') /\ down' = IF t.gamestate THEN Sent(Gamestate) ELSE down
    BY <2>1, ExecutesBatch DEF t
  <2>. QED
    BY <1>2, <1>4, <2>1, <2>2 DEF Settled, Kept, Unmoved, Closed, Executing, Frame, GaveUp
<1>. QED
  BY <1>3, <1>4

LEMMA ExecutesStop ==
  ASSUME NEW level, ExecuteBatch(level), Executing(Stop)
  PROVE  /\ Frame /\ Closed(sv') /\ down' = down /\ sv'.bFallback = sv.bFallback
         /\ sv'.bWWWing = sv.bWWWing /\ sv'.state = sv.state /\ sv'.lastCommand # "nextdl"
<1>. DEFINE t == FoldLeft(ClientCommand, sv, Head(up).commands)
<1>1. t = ClientCommand(sv, Cmd("stopdl", 0))
  BY RunsOne DEF Executing, Stop
<1>. HIDE DEF t
<1>2. /\ t \in Server /\ Kept(sv, t) /\ Unmoved(sv, t) /\ Closed(t)
      /\ t.bWWWing = sv.bWWWing /\ t.state = sv.state /\ t.lastCommand # "nextdl"
  BY <1>1, StopRuns DEF Executing
<1>3. Settled(t, sv') /\ down' = IF t.gamestate THEN Sent(Gamestate) ELSE down
  BY <1>2, ExecutesBatch DEF t
<1>. QED
  BY <1>2, <1>3 DEF Settled, Kept, Unmoved, Closed, Executing, Frame

LEMMA ExecutesDone ==
  ASSUME NEW level, ExecuteBatch(level), Executing(Done)
  PROVE  /\ Frame /\ Closed(sv') /\ down' = down /\ sv'.bFallback = sv.bFallback
         /\ sv.bWWWDl /\ sv.bWWWing => sv'.state # "zombie"
<1>. DEFINE t == FoldLeft(ClientCommand, sv, Head(up).commands)
<1>1. t = ClientCommand(sv, Cmd("wwwdl_done", 0))
  BY RunsOne DEF Executing, Done
<1>. HIDE DEF t
<1>2. /\ t \in Server /\ Kept(sv, t) /\ Unmoved(sv, t) /\ Closed(t)
      /\ \/ ~(sv.bWWWDl /\ sv.bWWWing) /\ t.state = "zombie"
         \/ sv.bWWWDl /\ sv.bWWWing /\ t.state = sv.state /\ ~t.bWWWing
  BY <1>1, DoneRuns DEF Executing
<1>3. Settled(t, sv') /\ down' = IF t.gamestate THEN Sent(Gamestate) ELSE down
  BY <1>2, ExecutesBatch DEF t
<1>. QED
  BY <1>2, <1>3 DEF Settled, Kept, Unmoved, Closed, Executing, Frame

-----------------------------------------------------------------------------
(* The messages and the batches under way. *)

LEMMA TailIs ==
  ASSUME NEW S, NEW s \in Seq(S), s # <<>>
  PROVE  /\ Tail(s) \in Seq(S) /\ Len(s) > 0 /\ Len(Tail(s)) = Len(s) - 1
         /\ \A i \in 1 .. Len(Tail(s)) : Tail(s)[i] = s[i + 1]
         /\ Head(s) = s[1] /\ s[1] \in S
  OBVIOUS

LEMMA AppendIs ==
  ASSUME NEW S, NEW s \in Seq(S), NEW e \in S
  PROVE  /\ Append(s, e) \in Seq(S) /\ Len(Append(s, e)) = Len(s) + 1
         /\ \A i \in 1 .. Len(s) : Append(s, e)[i] = s[i]
         /\ Append(s, e)[Len(s) + 1] = e
  OBVIOUS

LEMMA SentIs ==
  ASSUME down \in Seq(Message), Len(down) <= MaxInFlight,
         NEW msg \in Message, down' = Sent(msg)
  PROVE  Posts(msg)
<1>. USE DownloadAssumption DEF DownloadAssumption
<1>1. CASE Len(down) < MaxInFlight
  <2>1. down' = Append(down, msg)
    BY <1>1 DEF Sent
  <2>2. /\ down' \in Seq(Message) /\ Len(down') = Len(down) + 1
        /\ \A i \in 1 .. Len(down) : down'[i] = down[i]
        /\ down'[Len(down) + 1] = msg
    BY <2>1, AppendIs
  <2>. HIDE DownloadAssumption
  <2>3. Len(down) \in Nat /\ MaxInFlight \in Nat
    BY DownloadAssumption DEF DownloadAssumption
  <2>4. Len(down') = Len(down) + 1 - 0 /\ \A i \in 1 .. (Len(down') - 1) : down'[i] = down[i + 0]
    BY <2>2, <2>3
  <2>5. \E d \in 0 .. 1 : /\ Len(down') = Len(down) + 1 - d
                          /\ \A i \in 1 .. (Len(down') - 1) : down'[i] = down[i + d]
    BY <2>4
  <2>. QED
    BY <1>1, <2>2, <2>3, <2>5 DEF Posts
<1>2. CASE ~ Len(down) < MaxInFlight
  <2>0. Len(down) \in Nat /\ MaxInFlight \in Nat /\ MaxInFlight > 0
    BY DownloadAssumption DEF DownloadAssumption
  <2>1. down' = Append(Tail(down), msg) /\ down # <<>> /\ Len(down) = MaxInFlight
    BY <1>2, <2>0 DEF Sent
  <2>2. /\ Tail(down) \in Seq(Message) /\ Len(Tail(down)) = Len(down) - 1
        /\ \A i \in 1 .. Len(Tail(down)) : Tail(down)[i] = down[i + 1]
    BY <2>1, TailIs
  <2>3. /\ down' \in Seq(Message) /\ Len(down') = Len(Tail(down)) + 1
        /\ \A i \in 1 .. Len(Tail(down)) : down'[i] = Tail(down)[i]
        /\ down'[Len(Tail(down)) + 1] = msg
    BY <2>1, <2>2, AppendIs
  <2>4. Len(down') = Len(down) + 1 - 1 /\ \A i \in 1 .. (Len(down') - 1) : down'[i] = down[i + 1]
    BY <2>0, <2>2, <2>3
  <2>5. \E d \in 0 .. 1 : /\ Len(down') = Len(down) + 1 - d
                          /\ \A i \in 1 .. (Len(down') - 1) : down'[i] = down[i + d]
    BY <2>4
  <2>. QED
    BY <2>0, <2>1, <2>2, <2>3, <2>5 DEF Posts
<1>. QED
  BY <1>1, <1>2

LEMMA TakenFromDown ==
  ASSUME down \in Seq(Message), down # <<>>, down' = Tail(down)
  PROVE  Loses(1) /\ Len(down) > 0 /\ Head(down) = down[1] /\ down[1] \in Message
  BY TailIs DEF Loses

(* One batch more, or two. *)
LEMMA JoinsOne ==
  ASSUME up \in Seq(Batch), NEW e \in Batch, up' = up \o <<e>>
  PROVE  /\ up' \in Seq(Batch) /\ Len(up') = Len(up) + 1 /\ up'[Len(up) + 1] = e
         /\ \A i \in 1 .. Len(up) : up'[i] = up[i]
  OBVIOUS

LEMMA JoinsTwo ==
  ASSUME up \in Seq(Batch), NEW e \in Batch, NEW f \in Batch, up' = up \o <<e, f>>
  PROVE  /\ up' \in Seq(Batch) /\ Len(up') = Len(up) + 2
         /\ up'[Len(up) + 1] = e /\ up'[Len(up) + 2] = f
         /\ \A i \in 1 .. Len(up) : up'[i] = up[i]
  OBVIOUS

LEMMA StampedOne ==
  ASSUME NEW b \in Seq(Command), NEW level \in Nat
  PROVE  \E e \in Batch : Stamped(<<b>>, level) = <<e>> /\ e.commands = b /\ e.serverId = level
  BY DEF Stamped, Batch

LEMMA StampedTwo ==
  ASSUME NEW b \in Seq(Command), NEW c \in Seq(Command), NEW level \in Nat
  PROVE  \E e, f \in Batch : /\ Stamped(<<b, c>>, level) = <<e, f>>
                             /\ e.commands = b /\ e.serverId = level
                             /\ f.commands = c /\ f.serverId = level
<1>. DEFINE e == [commands |-> b, serverId |-> level]
            f == [commands |-> c, serverId |-> level]
<1>1. Stamped(<<b, c>>, level) = <<e, f>>
  BY DEF Stamped
<1>2. e \in Batch /\ f \in Batch
  BY DEF Batch
<1>. QED
  BY <1>1, <1>2

LEMMA AddsOne ==
  ASSUME up \in Seq(Batch), cl'.serverId \in Nat, NEW b \in Seq(Command),
         up' = up \o Stamped(<<b>>, cl'.serverId)
  PROVE  Adds(b)
<1>1. PICK e \in Batch : /\ Stamped(<<b>>, cl'.serverId) = <<e>>
                         /\ e.commands = b /\ e.serverId = cl'.serverId
  BY StampedOne
<1>2. up' = up \o <<e>>
  BY <1>1
<1>3. /\ up' \in Seq(Batch) /\ Len(up') = Len(up) + 1 /\ up'[Len(up) + 1] = e
      /\ \A i \in 1 .. Len(up) : up'[i] = up[i]
  BY <1>2, JoinsOne, Zenon
<1>. QED
  BY <1>1, <1>3 DEF Adds

LEMMA AddsTwo ==
  ASSUME up \in Seq(Batch), cl'.serverId \in Nat, NEW b \in Seq(Command), NEW c \in Seq(Command),
         up' = up \o Stamped(<<b, c>>, cl'.serverId)
  PROVE  AddsBoth(b, c)
<1>1. PICK e \in Batch, f \in Batch :
         /\ Stamped(<<b, c>>, cl'.serverId) = <<e, f>>
         /\ e.commands = b /\ e.serverId = cl'.serverId
         /\ f.commands = c /\ f.serverId = cl'.serverId
  BY StampedTwo
<1>2. up' = up \o <<e, f>>
  BY <1>1
<1>3. /\ up' \in Seq(Batch) /\ Len(up') = Len(up) + 2
      /\ up'[Len(up) + 1] = e /\ up'[Len(up) + 2] = f
      /\ \A i \in 1 .. Len(up) : up'[i] = up[i]
  BY <1>2, JoinsTwo, Zenon
<1>. QED
  BY <1>1, <1>3 DEF AddsBoth

LEMMA TakesOne ==
  ASSUME up \in Seq(Batch), up # <<>>, up' = Tail(up)
  PROVE  Takes /\ Head(up) = up[1] /\ up[1] \in Batch
  BY TailIs DEF Takes

-----------------------------------------------------------------------------
(* The files. *)

LEMMA FilesAre ==
  /\ Files = 1 .. Len(Blocks) /\ Len(Blocks) \in Nat /\ None \notin Files
  /\ \A f \in Files : Blocks[f] \in Nat /\ f \in Nat /\ f # 0
  /\ MAX_DOWNLOAD_WINDOW \in Nat /\ MAX_DOWNLOAD_WINDOW > 0
  /\ MaxInFlight \in Nat /\ MaxInFlight > 0
<1>1. Blocks \in Seq(Nat) /\ MAX_DOWNLOAD_WINDOW \in Nat \ {0} /\ MaxInFlight \in Nat \ {0}
  BY DownloadAssumption DEF DownloadAssumption
<1>. QED
  BY <1>1 DEF Files, None

LEMMA LongestIs ==
  /\ Longest \in Nat
  /\ \A f \in Files : Blocks[f] \in Nat /\ Blocks[f] <= Longest
<1>. DEFINE S == {0} \cup {Blocks[f] : f \in Files}
<1>1. IsFiniteSet(Files)
  BY FilesAre, FS_Interval
<1>2. \A f \in Files : Blocks[f] \in Nat
  BY FilesAre
<1>3. \E l \in S : \A f \in Files : Blocks[f] <= l
  <2>1. CASE Files = {}
    BY <2>1
  <2>2. CASE Files # {}
    <3>. DEFINE G == [f \in Files |-> 0 - Blocks[f]]
    <3>1. \A f \in Files : G[f] \in Int /\ G[f] = 0 - Blocks[f]
      BY <1>2
    <3>. HIDE DEF G
    <3>2. PICK f \in Files : \A g \in Files : G[f] <= G[g]
      BY <1>1, <2>2, <3>1, LeastOf
    <3>3. Blocks[f] \in S /\ \A g \in Files : Blocks[g] <= Blocks[f]
      BY <1>2, <3>1, <3>2
    <3>. QED
      BY <3>3
  <2>. QED
    BY <2>1, <2>2
<1>4. Longest \in S /\ \A f \in Files : Blocks[f] <= Longest
  <2>. HIDE DEF S
  <2>1. Longest = CHOOSE l \in S : \A f \in Files : Blocks[f] <= l
    BY DEF Longest, S
  <2>. QED
    BY <1>3, <2>1
<1>. QED
  BY <1>2, <1>4

LEMMA LowestIs ==
  ASSUME NEW T, T \subseteq Files, T # {}
  PROVE  Lowest(T) \in T /\ \A g \in T : Lowest(T) <= g
<1>1. T \subseteq Nat
  BY FilesAre
<1>2. \E x \in T : \A y \in T : x <= y
  BY <1>1, Least
<1>. QED
  BY <1>2 DEF Lowest

LEMMA CounterIs ==
  /\ \A f \in Files : \A b \in Nat : b <= Blocks[f] + 1 => b \in Counter
  /\ Counter \subseteq Nat /\ 0 \in Counter
  BY LongestIs DEF Counter

-----------------------------------------------------------------------------
(* What the client does next. *)

LEMMA Finishes ==
  ASSUME NEW c \in Client,
         NEW d, d = [c EXCEPT !.downloadRestart = FALSE, !.downloadName = None]
  PROVE  /\ Elsewhere(c, d) /\ d.mode = c.mode /\ d.downloadName = None
         /\ d.bWWWDl = c.bWWWDl /\ d.bWWWDlAborting = c.bWWWDlAborting
         /\ d.downloadBlock = c.downloadBlock
  BY DEF Elsewhere, Client

LEMMA NextDownloadIs ==
  ASSUME NEW c \in Client, NEW n, n = NextDownload(c)
  PROVE  \/ NextFile(c, n.c) /\ n.commands = AskFor(n.c.downloadName)
         \/ /\ c.downloadRestart = FALSE /\ n.c \in Client /\ n.c.mode = "loading"
            /\ n.c.serverId = c.serverId /\ n.c.download = c.download
            /\ n.c.written = c.written /\ n.c.downloadName = c.downloadName
            /\ n.commands = <<>>
<1>0. c.downloadRestart \in BOOLEAN
  BY DEF Client
<1>3. CASE c.downloadList = {} /\ c.downloadRestart = FALSE
  <2>1. n.c = [c EXCEPT !.mode = "loading"]
    BY <1>3 DEF NextDownload, DownloadsComplete
  <2>2. n.commands = <<>>
    BY <1>3 DEF NextDownload, DownloadsComplete
  <2>3. /\ n.c \in Client /\ n.c.mode = "loading" /\ n.c.serverId = c.serverId
        /\ n.c.download = c.download /\ n.c.written = c.written
        /\ n.c.downloadName = c.downloadName
    BY <2>1 DEF Client
  <2>. QED
    BY <1>3, <2>2, <2>3
<1>1. CASE c.downloadList = {} /\ c.downloadRestart = TRUE
  <2>1. n.c = [c EXCEPT !.downloadRestart = FALSE, !.downloadName = None]
    BY <1>1 DEF NextDownload, DownloadsComplete
  <2>4. n.commands = <<Cmd("donedl", 0)>>
    BY <1>1 DEF NextDownload, DownloadsComplete
  <2>2. /\ Elsewhere(c, n.c) /\ n.c.mode = c.mode /\ n.c.downloadName = None
        /\ n.c.bWWWDl = c.bWWWDl /\ n.c.bWWWDlAborting = c.bWWWDlAborting
        /\ n.c.downloadBlock = c.downloadBlock
    BY <2>1, Finishes
  <2>3. NextFile(c, n.c)
    BY <2>2 DEF NextFile
  <2>. QED
    BY <2>2, <2>3, <2>4 DEF AskFor, Asks
<1>2. CASE c.downloadList # {}
  <2>0. PICK f \in Files : f = Lowest(c.downloadList)
    BY <1>2, LowestIs DEF Client
  <2>1. n.c = [c EXCEPT !.downloadName = f, !.downloadBlock = 0, !.downloadRestart = TRUE,
                        !.downloadList = c.downloadList \ {f}]
    BY <1>2, <2>0 DEF NextDownload, BeginDownload
  <2>7. n.commands = <<Cmd("download", f)>>
    BY <1>2, <2>0 DEF NextDownload, BeginDownload
  <2>2. c.downloadList \subseteq Files
    BY DEF Client
  <2>3. f \in c.downloadList /\ f \in Files
    BY <1>2, <2>0, <2>2, LowestIs
  <2>4. f # None
    BY <2>3, FilesAre
  <2>5. /\ Elsewhere(c, n.c) /\ n.c.mode = c.mode /\ n.c.downloadName = f
        /\ n.c.bWWWDl = c.bWWWDl /\ n.c.bWWWDlAborting = c.bWWWDlAborting
        /\ n.c.downloadBlock = 0 /\ n.c.downloadRestart
        /\ n.c.downloadList = c.downloadList \ {f}
    <3>1. PICK rest \in SUBSET Files : rest = c.downloadList \ {f}
      BY <2>2
    <3>2. PICK d : d = n.c
      OBVIOUS
    <3>3. d = [c EXCEPT !.downloadName = f, !.downloadBlock = 0, !.downloadRestart = TRUE,
                        !.downloadList = rest]
      BY <2>1, <3>1, <3>2
    <3>4. /\ Elsewhere(c, d) /\ d.mode = c.mode /\ d.downloadName = f
          /\ d.bWWWDl = c.bWWWDl /\ d.bWWWDlAborting = c.bWWWDlAborting
          /\ d.downloadBlock = 0 /\ d.downloadRestart = TRUE /\ d.downloadList = rest
      BY <3>3 DEF Elsewhere, Client
    <3>. QED
      BY <3>1, <3>2, <3>4
  <2>6. NextFile(c, n.c)
    BY <2>3, <2>5 DEF NextFile
  <2>. QED
    BY <2>4, <2>5, <2>6, <2>7 DEF AskFor, Asks
<1>. QED
  BY <1>0, <1>1, <1>2, <1>3

(* The first of the missing files is asked for, or the level loaded. *)
LEMMA InitDownloadsIs ==
  ASSUME NEW c \in Client, have \subseteq Files, NEW n, n = InitDownloads(c)
  PROVE  /\ Elsewhere(c, n.c) /\ ~n.c.bWWWDl /\ ~n.c.bWWWDlAborting
         /\ \/ /\ have = Files /\ n.c.mode = "loading" /\ n.c.downloadName = None /\ n.commands = <<>>
            \/ /\ n.c.mode = c.mode /\ n.c.downloadName \in Files \ have
               /\ \A g \in Files \ have : n.c.downloadName <= g
               /\ n.c.downloadBlock = 0 /\ n.c.downloadRestart
               /\ n.c.downloadName \notin n.c.downloadList
               /\ n.commands = AskFor(n.c.downloadName)
<1>. DEFINE list == Files \ have
            d == [c EXCEPT !.bWWWDl = FALSE, !.bWWWDlAborting = FALSE, !.downloadName = None,
                           !.downloadRestart = FALSE, !.downloadList = list]
<1>1. n = NextDownload(d)
  BY DEF InitDownloads
<1>2. /\ Elsewhere(c, d) /\ ~d.bWWWDl /\ ~d.bWWWDlAborting /\ d.mode = c.mode
      /\ d.downloadList = list /\ ~d.downloadRestart /\ d.downloadName = None
  BY DEF Elsewhere, Client
<1>. HIDE DEF d
<1>3. CASE list = {}
  <2>1. n.c = [d EXCEPT !.mode = "loading"] /\ n.commands = <<>>
    BY <1>1, <1>2, <1>3 DEF NextDownload, DownloadsComplete
  <2>2. /\ Elsewhere(d, n.c) /\ n.c.bWWWDl = d.bWWWDl /\ n.c.bWWWDlAborting = d.bWWWDlAborting
        /\ n.c.mode = "loading" /\ n.c.downloadName = d.downloadName
    BY <1>2, <2>1 DEF Elsewhere, Client
  <2>3. have = Files
    BY <1>3
  <2>. QED
    BY <1>2, <2>1, <2>2, <2>3 DEF Elsewhere
<1>4. CASE list # {}
  <2>0. PICK f \in Files : f = Lowest(list)
    BY <1>4, LowestIs
  <2>1. n.c = [d EXCEPT !.downloadName = f, !.downloadBlock = 0, !.downloadRestart = TRUE,
                        !.downloadList = list \ {f}]
    BY <1>1, <1>2, <1>4, <2>0 DEF NextDownload, BeginDownload
  <2>6. n.commands = <<Cmd("download", f)>>
    BY <1>1, <1>2, <1>4, <2>0 DEF NextDownload, BeginDownload
  <2>2. f \in list /\ \A g \in list : f <= g
    BY <1>4, <2>0, LowestIs
  <2>3. f # None /\ f \in Files
    BY <2>2, FilesAre
  <2>4. /\ Elsewhere(d, n.c) /\ n.c.bWWWDl = d.bWWWDl /\ n.c.bWWWDlAborting = d.bWWWDlAborting
        /\ n.c.mode = d.mode /\ n.c.downloadName = f /\ n.c.downloadBlock = 0
        /\ n.c.downloadRestart /\ n.c.downloadList = list \ {f}
    <3>1. PICK rest \in SUBSET Files : rest = list \ {f}
      BY <1>2
    <3>2. PICK e : e = n.c
      OBVIOUS
    <3>5. PICK c2 \in Client : c2 = d
      BY <1>2 DEF Elsewhere
    <3>3. e = [c2 EXCEPT !.downloadName = f, !.downloadBlock = 0, !.downloadRestart = TRUE,
                        !.downloadList = rest]
      BY <2>1, <3>1, <3>2, <3>5
    <3>4. /\ Elsewhere(c2, e) /\ e.mode = c2.mode /\ e.downloadName = f
          /\ e.bWWWDl = c2.bWWWDl /\ e.bWWWDlAborting = c2.bWWWDlAborting
          /\ e.downloadBlock = 0 /\ e.downloadRestart = TRUE /\ e.downloadList = rest
      BY <3>3 DEF Elsewhere, Client
    <3>. QED
      BY <3>1, <3>2, <3>4, <3>5
  <2>5. f \notin n.c.downloadList
    BY <2>4
  <2>. QED
    BY <1>2, <2>2, <2>3, <2>4, <2>5, <2>6 DEF Elsewhere, AskFor, Asks
<1>. QED
  BY <1>3, <1>4

-----------------------------------------------------------------------------
(* What the client does with a message. *)

LEMMA BatchIs ==
  /\ \A n \in Nat : IsBatch(NextdlOf(n))
  /\ \A f \in {None} \cup Files : IsBatch(AskFor(f)) /\ IsBatch(StopAsk(f)) /\ IsBatch(DoneAsk(f))
  /\ IsBatch(Ack) /\ IsBatch(Fail) /\ IsBatch(AckFail) /\ IsBatch(Stop) /\ IsBatch(Done)
  BY DEF IsBatch

LEMMA CmdIs ==
  /\ \A w \in Words : \A n \in Nat : Cmd(w, n) \in Command
  /\ \A f \in {None} \cup Files : Asks(f) \in Command
<1>1. \A w \in Words : \A n \in Nat : Cmd(w, n) \in Command
  BY DEF Cmd, Command
<1>2. "donedl" \in Words /\ "download" \in Words
  BY DEF Words
<1>3. \A f \in {None} \cup Files : f \in Nat
  BY FilesAre DEF None
<1>. QED
  BY <1>1, <1>2, <1>3 DEF Asks

LEMMA OneIs == ASSUME NEW S, NEW a \in S PROVE <<a>> \in Seq(S)
  OBVIOUS

LEMMA TwoIs == ASSUME NEW S, NEW a \in S, NEW b \in S PROVE <<a, b>> \in Seq(S)
  OBVIOUS

LEMMA OneHas == ASSUME NEW a PROVE Len(<<a>>) = 1 /\ <<a>>[1] = a
  OBVIOUS

LEMMA TwoHas == ASSUME NEW a, NEW b PROVE Len(<<a, b>>) = 2 /\ <<a, b>>[1] = a /\ <<a, b>>[2] = b
  OBVIOUS

LEMMA Joined ==
  ASSUME NEW S, NEW u \in Seq(S), NEW v \in Seq(S), NEW w \in Seq(S),
         Len(u) = 1, Len(v) = 1, Len(w) = 2, w[1] = u[1], w[2] = v[1]
  PROVE  u \o v = w
<1>1. PICK z : z = u \o v
  OBVIOUS
<1>2. z \in Seq(S) /\ Len(z) = Len(u) + Len(v)
  BY <1>1, ConcatProperties
<1>3. \A i \in 1 .. Len(u) + Len(v) : z[i] = IF i <= Len(u) THEN u[i] ELSE v[i - Len(u)]
  BY <1>1, ConcatProperties, Zenon
<1>4. z[1] = u[1] /\ z[2] = v[1]
  BY <1>3
<1>5. Len(z) = Len(w) /\ \A i \in 1 .. Len(z) : z[i] = w[i]
  BY <1>2, <1>4
<1>. QED
  BY <1>1, <1>2, <1>5, SeqEqual

LEMMA Joining ==
  ASSUME NEW S, NEW a \in S, NEW c \in S PROVE <<c>> \o <<a>> = <<c, a>>
<1>1. <<c>> \in Seq(S) /\ Len(<<c>>) = 1 /\ <<c>>[1] = c
  BY OneIs, OneHas
<1>2. <<a>> \in Seq(S) /\ Len(<<a>>) = 1 /\ <<a>>[1] = a
  BY OneIs, OneHas
<1>3. <<c, a>> \in Seq(S) /\ Len(<<c, a>>) = 2 /\ <<c, a>>[1] = c /\ <<c, a>>[2] = a
  BY TwoIs, TwoHas
<1>. QED
  BY <1>1, <1>2, <1>3, Joined

LEMMA CommandsAre ==
  ASSUME NEW b, IsBatch(b)
  PROVE  b \in Seq(Command)
<1>0. /\ "stopdl" \in Words /\ "nextdl" \in Words /\ "wwwdl_ack" \in Words
      /\ "wwwdl_done" \in Words /\ "wwwdl_fail" \in Words
  BY DEF Words
<1>1. /\ Cmd("stopdl", 0) \in Command /\ Cmd("wwwdl_ack", 0) \in Command
      /\ Cmd("wwwdl_done", 0) \in Command /\ Cmd("wwwdl_fail", 0) \in Command
      /\ \A n \in Nat : Cmd("nextdl", n) \in Command
  BY <1>0, CmdIs
<1>2. CASE \E n \in Nat : b = NextdlOf(n)
  <2>1. PICK n \in Nat : b = <<Cmd("nextdl", n)>>
    BY <1>2 DEF NextdlOf
  <2>2. PICK c \in Command : c = Cmd("nextdl", n)
    BY <1>1
  <2>. QED
    BY <2>1, <2>2, OneIs
<1>3. CASE \E f \in {None} \cup Files : b \in {AskFor(f), StopAsk(f), DoneAsk(f)}
  <2>1. PICK f \in {None} \cup Files : b \in {AskFor(f), StopAsk(f), DoneAsk(f)}
    BY <1>3
  <2>2. PICK c \in Command : c = Asks(f)
    BY CmdIs
  <2>3. b \in {<<c>>, <<Cmd("stopdl", 0), c>>, <<Cmd("wwwdl_done", 0), c>>}
    BY <2>1, <2>2 DEF AskFor, StopAsk, DoneAsk
  <2>. QED
    BY <1>1, <2>3, OneIs, TwoIs
<1>4. CASE b \in {Ack, Fail, AckFail, Stop, Done}
  BY <1>1, <1>4, OneIs, TwoIs DEF Ack, Fail, AckFail, Stop, Done
<1>. QED
  BY <1>2, <1>3, <1>4 DEF IsBatch

(* The commands of a batch for the next file are never none. *)
LEMMA AskedIs ==
  ASSUME NEW f \in {None} \cup Files
  PROVE  /\ AskFor(f) # <<>> /\ Nonempty(AskFor(f)) = <<AskFor(f)>>
         /\ <<Cmd("stopdl", 0)>> \o AskFor(f) = StopAsk(f)
         /\ <<Cmd("wwwdl_done", 0)>> \o AskFor(f) = DoneAsk(f)
         /\ Ack \o Fail = AckFail /\ Ack \o <<>> = Ack /\ Done \o <<>> = Done
<1>0. "stopdl" \in Words /\ "wwwdl_ack" \in Words /\ "wwwdl_done" \in Words /\ "wwwdl_fail" \in Words
  BY DEF Words
<1>1. /\ Cmd("stopdl", 0) \in Command /\ Cmd("wwwdl_ack", 0) \in Command
      /\ Cmd("wwwdl_done", 0) \in Command /\ Cmd("wwwdl_fail", 0) \in Command
  BY <1>0, CmdIs
<1>2. PICK a \in Command : a = Asks(f)
  BY CmdIs
<1>3. <<a>> # <<>>
  OBVIOUS
<1>4. /\ <<Cmd("stopdl", 0)>> \o <<a>> = <<Cmd("stopdl", 0), a>>
      /\ <<Cmd("wwwdl_done", 0)>> \o <<a>> = <<Cmd("wwwdl_done", 0), a>>
      /\ <<Cmd("wwwdl_ack", 0)>> \o <<Cmd("wwwdl_fail", 0)>> = <<Cmd("wwwdl_ack", 0), Cmd("wwwdl_fail", 0)>>
  BY <1>1, Joining
<1>5. /\ <<Cmd("wwwdl_ack", 0)>> \o <<>> = <<Cmd("wwwdl_ack", 0)>>
      /\ <<Cmd("wwwdl_done", 0)>> \o <<>> = <<Cmd("wwwdl_done", 0)>>
  BY <1>1, OneIs, ConcatEmptySeq
<1>. QED
  BY <1>2, <1>3, <1>4, <1>5 DEF AskFor, StopAsk, DoneAsk, Nonempty, Ack, Fail, AckFail, Done

LEMMA StampedNone ==
  ASSUME up \in Seq(Batch), NEW level PROVE up \o Stamped(Nonempty(<<>>), level) = up
<1>1. Stamped(Nonempty(<<>>), level) = <<>>
  <2>1. DOMAIN <<>> = {}
    OBVIOUS
  <2>. QED
    BY <2>1 DEF Stamped, Nonempty
<1>. QED
  BY <1>1

LEMMA ArrivesIs ==
  ASSUME Types, NEW kind, Arrives(kind)
  PROVE  Reads(kind)
<1>1. down \in Seq(Message) /\ down # <<>> /\ down' = Tail(down) /\ Len(down) <= MaxInFlight
  BY DEF Types, Arrives
<1>2. Loses(1) /\ Len(down) > 0 /\ Head(down) = down[1] /\ down[1] \in Message
  BY <1>1, TakenFromDown
<1>3. Len(down) \in Nat /\ Len(down') = Len(down) - 1 /\ MaxInFlight \in Nat
  BY <1>1, <1>2, FilesAre DEF Loses
<1>. QED
  BY <1>1, <1>2, <1>3 DEF Reads, Arrives

(* No number is -1; one that reads as the block asked for is that block's.  *)
LEMMA NumbersAre == Numbers \subseteq Nat /\ 0 \in Numbers
  BY DownloadAssumption DEF Numbers

LEMMA ExpectedIs ==
  ASSUME Types, Expects, Head(down) \in Message
  PROVE  Head(down).block = N
<1>1. PICK n \in Numbers : n = Head(down).block
  BY DEF Message
<1>2. N \in Nat /\ Signed(n) = N
  BY <1>1 DEF Types, Client, N, Expects
<1>3. n \in 0 .. (SHORT - 2) /\ SHORT \in Nat
  BY DownloadAssumption DEF Numbers
<1>. QED
  BY <1>1, <1>2, <1>3 DEF Signed

LEMMA MessageIs ==
  ASSUME NEW m \in Message
  PROVE  /\ m.kind \in {"block", "bad", "redirect", "gamestate"} /\ m.block \in Nat
         /\ m.data \in Part /\ m.data.file \in {None} \cup Files /\ m.data.part \in Nat
         /\ m.again \in BOOLEAN /\ m.serverId \in Nat
  BY NumbersAre DEF Message, Part

LEMMA GamestateIsRead ==
  ASSUME Types, ReceiveGamestate
  PROVE  /\ Reads("gamestate") /\ have' = have /\ mixed' = mixed
         /\ cl' \in Client /\ cl'.serverId = down[1].serverId
         /\ cl'.download = cl.download /\ cl'.written = cl.written
         /\ ~cl'.bWWWDl /\ ~cl'.bWWWDlAborting
         /\ \/ have = Files /\ cl'.mode = "loading" /\ F' = None /\ up' = up
            \/ /\ Asked(F') /\ F' \in Files \ have /\ \A g \in Files \ have : F' <= g
               /\ Adds(AskFor(F'))
<1>1. Reads("gamestate")
  BY ArrivesIs DEF ReceiveGamestate
<1>2. PICK level \in Nat : level = down[1].serverId
  BY <1>1, MessageIs DEF Reads
<1>3. PICK c : c = [cl EXCEPT !.serverId = level]
  OBVIOUS
<1>4. cl \in Client /\ have \subseteq Files /\ up \in Seq(Batch) /\ cl.mode = "connected"
  BY DEF Types, ReceiveGamestate, Arrives, Connected
<1>5. /\ c \in Client /\ c.mode = cl.mode /\ c.download = cl.download /\ c.written = cl.written
      /\ c.serverId = level
  BY <1>3, <1>4 DEF Client
<1>6. PICK n : n = InitDownloads(c)
  OBVIOUS
<1>7. cl' = n.c /\ up' = up \o Stamped(Nonempty(n.commands), level) /\ have' = have /\ mixed' = mixed
  BY <1>1, <1>2, <1>3, <1>6 DEF ReceiveGamestate, Reads
<1>8. /\ Elsewhere(c, n.c) /\ ~n.c.bWWWDl /\ ~n.c.bWWWDlAborting
      /\ \/ /\ have = Files /\ n.c.mode = "loading" /\ n.c.downloadName = None /\ n.commands = <<>>
         \/ /\ n.c.mode = c.mode /\ n.c.downloadName \in Files \ have
            /\ \A g \in Files \ have : n.c.downloadName <= g
            /\ n.c.downloadBlock = 0 /\ n.c.downloadRestart
            /\ n.c.downloadName \notin n.c.downloadList
            /\ n.commands = AskFor(n.c.downloadName)
  BY <1>4, <1>5, <1>6, InitDownloadsIs
<1>9. /\ cl' \in Client /\ cl'.download = cl.download /\ cl'.written = cl.written
      /\ cl'.serverId = level /\ ~cl'.bWWWDl /\ ~cl'.bWWWDlAborting
  BY <1>5, <1>7, <1>8 DEF Elsewhere
<1>10. CASE have = Files /\ n.c.mode = "loading" /\ n.c.downloadName = None /\ n.commands = <<>>
  BY <1>1, <1>2, <1>4, <1>7, <1>9, <1>10, StampedNone DEF F
<1>11. CASE /\ n.c.mode = c.mode /\ n.c.downloadName \in Files \ have
            /\ \A g \in Files \ have : n.c.downloadName <= g
            /\ n.c.downloadBlock = 0 /\ n.c.downloadRestart
            /\ n.c.downloadName \notin n.c.downloadList
            /\ n.commands = AskFor(n.c.downloadName)
  <2>1. PICK f \in {None} \cup Files : f = F'
    BY <1>7, <1>11 DEF F
  <2>2. n.commands = AskFor(f) /\ f \in Files \ have /\ \A g \in Files \ have : f <= g
    BY <1>7, <1>11, <2>1 DEF F
  <2>3. Asked(f)
    BY <1>4, <1>5, <1>7, <1>9, <1>11, <2>1 DEF F, N, Asked
  <2>4. up' = up \o Stamped(<<AskFor(f)>>, cl'.serverId)
    BY <1>7, <1>9, <2>2, AskedIs
  <2>5. AskFor(f) \in Seq(Command)
    BY BatchIs, CommandsAre
  <2>6. Adds(AskFor(f))
    BY <1>2, <1>4, <1>9, <2>4, <2>5, AddsOne
  <2>. QED
    BY <1>1, <1>2, <1>7, <1>9, <2>1, <2>2, <2>3, <2>6
<1>. QED
  BY <1>8, <1>10, <1>11

LEMMA UnrequestedIsRead ==
  ASSUME Types, ReceiveUnrequested
  PROVE  /\ \E kind \in {"block", "bad", "redirect"} : Reads(kind)
         /\ have' = have /\ mixed' = mixed /\ F = None /\ F' = F
         /\ cl' \in Client /\ cl'.mode = "garbled" /\ cl'.serverId = cl.serverId
         /\ Adds(Stop)
<1>1. \E kind \in {"block", "bad", "redirect"} : Reads(kind)
  BY ArrivesIs DEF ReceiveUnrequested
<1>2. cl \in Client /\ up \in Seq(Batch) /\ cl.serverId \in Nat
  BY DEF Types, Client
<1>3. cl' = [cl EXCEPT !.mode = "garbled"]
  BY DEF ReceiveUnrequested
<1>4. cl' \in Client /\ cl'.mode = "garbled" /\ cl'.serverId = cl.serverId /\ F' = F
  BY <1>2, <1>3 DEF Client, F
<1>5. up' = up \o Stamped(<<Stop>>, cl'.serverId)
  BY <1>4 DEF ReceiveUnrequested, Batched, Stop
<1>6. Adds(Stop)
  BY <1>2, <1>4, <1>5, BatchIs, CommandsAre, AddsOne
<1>. QED
  BY <1>1, <1>4, <1>6 DEF ReceiveUnrequested, F

LEMMA RedirectIsRead ==
  ASSUME Types, NEW begins \in BOOLEAN, ReceiveRedirect(begins)
  PROVE  /\ Reads("redirect") /\ have' = have /\ F # None
         /\ \/ cl.bWWWDl /\ cl' = cl /\ up' = up /\ mixed' = mixed
            \/ /\ ~cl.bWWWDl /\ cl' \in Client /\ cl'.bWWWDl /\ F' = F /\ N' = N
               /\ cl'.bWWWDlAborting = (cl.bWWWDlAborting \/ ~begins)
               /\ cl'.mode = cl.mode /\ cl'.serverId = cl.serverId
               /\ cl'.download = cl.download /\ cl'.written = cl.written
               /\ cl'.downloadRestart = cl.downloadRestart /\ cl'.downloadList = cl.downloadList
               /\ mixed' = Mixes(down[1]) /\ Adds(Answer(begins))
<1>1. Reads("redirect") /\ have' = have /\ F # None
  BY ArrivesIs DEF ReceiveRedirect, F
<1>2. cl \in Client /\ up \in Seq(Batch) /\ cl.serverId \in Nat
  BY DEF Types, Client
<1>3. CASE cl.bWWWDl /\ cl' = cl /\ up' = up /\ mixed' = mixed
  BY <1>1, <1>3
<1>4. CASE /\ ~cl.bWWWDl
           /\ cl' = [cl EXCEPT !.bWWWDl = TRUE, !.url = Head(down).data.file,
                               !.bWWWDlAborting = IF begins THEN @ ELSE TRUE]
           /\ up' = Batched(<< Ack \o (IF begins THEN <<>> ELSE Fail) >>)
           /\ mixed' = Mixes(Head(down))
  <2>1. PICK f \in {None} \cup Files : f = Head(down).data.file
    BY <1>1, MessageIs DEF Reads
  <2>2. PICK a \in BOOLEAN : a = (cl.bWWWDlAborting \/ ~begins)
    OBVIOUS
  <2>3. cl.bWWWDlAborting \in BOOLEAN
    BY <1>2 DEF Client
  <2>4. cl' = [cl EXCEPT !.bWWWDl = TRUE, !.url = f, !.bWWWDlAborting = a]
    <3>1. a = IF begins THEN cl.bWWWDlAborting ELSE TRUE
      BY <2>2, <2>3, Zenon
    <3>. QED
      BY <1>4, <2>1, <3>1
  <2>5. /\ cl' \in Client /\ cl'.bWWWDl /\ F' = F /\ N' = N /\ cl'.bWWWDlAborting = a
        /\ cl'.mode = cl.mode /\ cl'.serverId = cl.serverId
        /\ cl'.download = cl.download /\ cl'.written = cl.written
        /\ cl'.downloadRestart = cl.downloadRestart /\ cl'.downloadList = cl.downloadList
    BY <1>2, <2>4 DEF Client, F, N
  <2>6. Ack \o (IF begins THEN <<>> ELSE Fail) = Answer(begins)
    BY AskedIs DEF Answer
  <2>7. up' = up \o Stamped(<<Answer(begins)>>, cl'.serverId)
    BY <1>4, <2>5, <2>6 DEF Batched
  <2>8. Answer(begins) \in Seq(Command)
    BY BatchIs, CommandsAre DEF Answer
  <2>9. Adds(Answer(begins))
    BY <1>2, <2>5, <2>7, <2>8, AddsOne
  <2>. QED
    BY <1>1, <1>4, <2>2, <2>5, <2>9 DEF Reads
<1>. QED
  BY <1>3, <1>4 DEF ReceiveRedirect, Ack, Fail

LEMMA BadIsRead ==
  ASSUME Types, ReceiveBad
  PROVE  /\ Reads("bad") /\ have' = have /\ mixed' = mixed /\ up' = up
         /\ cl' \in Client /\ cl'.mode = "dropped" /\ cl'.serverId = cl.serverId /\ F' = F
<1>1. Reads("bad") /\ cl \in Client
  BY ArrivesIs DEF ReceiveBad, Types
<1>2. cl' = [cl EXCEPT !.mode = "dropped"]
  BY DEF ReceiveBad
<1>3. cl' \in Client /\ cl'.mode = "dropped" /\ cl'.serverId = cl.serverId /\ F' = F
  BY <1>1, <1>2 DEF Client, F
<1>. QED
  BY <1>1, <1>3 DEF ReceiveBad

LEMMA OtherIsRead ==
  ASSUME Types, ReceiveOther
  PROVE  /\ Reads("block") /\ cl' = cl /\ have' = have /\ mixed' = mixed /\ up' = up
  BY ArrivesIs DEF ReceiveOther

LEMMA NextFileIs ==
  ASSUME NEW c \in Client, c.mode = "connected", c.downloadRestart = TRUE, F # None,
         F \notin c.downloadList, NEW n, n = NextDownload(c), cl' = n.c
  PROVE  \E f \in {None} \cup Files :
         /\ Asked(f) /\ f # F /\ n.commands = AskFor(f)
         /\ cl'.serverId = c.serverId /\ cl'.bWWWDl = c.bWWWDl
         /\ cl'.bWWWDlAborting = c.bWWWDlAborting /\ cl'.download = c.download
         /\ cl'.written = c.written /\ (f = None => N' = c.downloadBlock)
<1>1. NextFile(c, n.c) /\ n.commands = AskFor(n.c.downloadName)
  BY NextDownloadIs
<1>2. PICK f : f = n.c.downloadName
  OBVIOUS
<1>3. f \in {None} \cup Files /\ f # F
  BY <1>1, <1>2 DEF NextFile, Elsewhere, Client
<1>4. Asked(f)
  BY <1>1, <1>2, <1>3 DEF NextFile, Elsewhere, Asked, F, N
<1>5. /\ cl'.serverId = c.serverId /\ cl'.bWWWDl = c.bWWWDl
      /\ cl'.bWWWDlAborting = c.bWWWDlAborting /\ cl'.download = c.download
      /\ cl'.written = c.written
  BY <1>1 DEF NextFile, Elsewhere
<1>6. f = None => N' = c.downloadBlock
  <2>1. None \notin Files /\ c.downloadList \subseteq Files
    BY FilesAre DEF Client
  <2>. QED
    BY <1>1, <1>2, <2>1 DEF NextFile, N
<1>7. n.commands = AskFor(f)
  BY <1>1, <1>2
<1>. QED
  BY <1>3, <1>4, <1>5, <1>6, <1>7

LEMMA UnwritableIsRead ==
  ASSUME Types, Restarts, ReceiveUnwritable
  PROVE  /\ Taken /\ have' = have /\ cl.download = None
         /\ cl'.bWWWDl = cl.bWWWDl /\ cl'.bWWWDlAborting = cl.bWWWDlAborting
         /\ cl'.serverId = cl.serverId /\ cl'.written = cl.written /\ cl'.download = cl.download
         /\ \E f \in {None} \cup Files :
              Asked(f) /\ f # F /\ (f = None => N' = N) /\ Adds(StopAsk(f))
<1>1. Reads("block") /\ F # None /\ cl.download = None /\ Head(down) = down[1]
  BY ArrivesIs DEF ReceiveUnwritable, F, Reads
<1>2. down[1].block = N /\ mixed' = Mixes(down[1]) /\ have' = have
  BY <1>1, ExpectedIs DEF ReceiveUnwritable, Reads
<1>3. cl \in Client /\ up \in Seq(Batch) /\ cl.serverId \in Nat /\ cl.mode = "connected"
  BY <1>1 DEF Types, Client, Reads, Connected
<1>4. cl.downloadRestart = TRUE /\ F \notin cl.downloadList
  BY <1>1, <1>3 DEF Restarts, Connected
<1>5. PICK n : n = NextDownload(cl)
  OBVIOUS
<1>6. cl' = n.c /\ up' = Batched(<< <<Cmd("stopdl", 0)>> \o n.commands >>)
  BY <1>5 DEF ReceiveUnwritable
<1>7. PICK f \in {None} \cup Files :
         /\ Asked(f) /\ f # F /\ n.commands = AskFor(f)
         /\ cl'.serverId = cl.serverId /\ cl'.bWWWDl = cl.bWWWDl
         /\ cl'.bWWWDlAborting = cl.bWWWDlAborting /\ cl'.download = cl.download
         /\ cl'.written = cl.written /\ (f = None => N' = cl.downloadBlock)
  BY <1>1, <1>3, <1>4, <1>5, <1>6, NextFileIs
<1>8. up' = up \o Stamped(<<StopAsk(f)>>, cl'.serverId)
  BY <1>6, <1>7, AskedIs DEF Batched
<1>9. StopAsk(f) \in Seq(Command)
  BY BatchIs, CommandsAre
<1>10. Adds(StopAsk(f))
  BY <1>3, <1>7, <1>8, <1>9, AddsOne
<1>. QED
  BY <1>1, <1>2, <1>7, <1>10 DEF Taken, N

LEMMA EmptyIs == ASSUME NEW S PROVE <<>> \in Seq(S)
  OBVIOUS

LEMMA BlockIsRead ==
  ASSUME Types, ReceiveBlock
  PROVE  /\ Taken /\ have' = have /\ down[1].data.part # 0
         /\ cl' \in Client /\ cl'.mode = cl.mode /\ F' = F /\ N' = N + 1 /\ N \in Nat
         /\ cl'.download = Handle /\ cl'.written = Append(cl.written, down[1].data)
         /\ cl'.bWWWDl = cl.bWWWDl /\ cl'.bWWWDlAborting = cl.bWWWDlAborting
         /\ cl'.serverId = cl.serverId /\ cl'.downloadRestart = cl.downloadRestart
         /\ cl'.downloadList = cl.downloadList
         /\ Adds(NextdlOf(N))
<1>1. Reads("block") /\ F # None /\ Head(down) = down[1] /\ down[1] \in Message
  BY ArrivesIs DEF ReceiveBlock, F, Reads
<1>2. down[1].block = N /\ mixed' = Mixes(down[1]) /\ have' = have /\ down[1].data.part # 0
  BY <1>1, ExpectedIs DEF ReceiveBlock
<1>3. cl \in Client /\ up \in Seq(Batch) /\ cl.serverId \in Nat /\ N \in Nat
  BY DEF Types, Client, N
<1>4. PICK h \in {None} \cup Files : h = Handle
  BY <1>3 DEF Handle, Client
<1>5. PICK w \in Seq(Part) : w = Append(cl.written, down[1].data)
  <2>1. cl.written \in Seq(Part) /\ down[1].data \in Part
    BY <1>1, <1>3, MessageIs DEF Client
  <2>. QED
    BY <2>1, AppendIs
<1>6. PICK v \in Nat : v = N + 1
  BY <1>3
<1>7. cl' = [cl EXCEPT !.download = h, !.written = w, !.downloadBlock = v]
  BY <1>1, <1>4, <1>5, <1>6 DEF ReceiveBlock, N
<1>8. /\ cl' \in Client /\ cl'.mode = cl.mode /\ F' = F /\ N' = v
      /\ cl'.download = h /\ cl'.written = w
      /\ cl'.bWWWDl = cl.bWWWDl /\ cl'.bWWWDlAborting = cl.bWWWDlAborting
      /\ cl'.serverId = cl.serverId /\ cl'.downloadRestart = cl.downloadRestart
      /\ cl'.downloadList = cl.downloadList
  BY <1>3, <1>7 DEF Client, F, N
<1>9. up' = up \o Stamped(<<NextdlOf(N)>>, cl'.serverId)
  BY <1>8 DEF ReceiveBlock, Batched, Nextdl, NextdlOf, N
<1>10. NextdlOf(N) \in Seq(Command)
  BY <1>3, BatchIs, CommandsAre
<1>11. Adds(NextdlOf(N))
  BY <1>3, <1>8, <1>9, <1>10, AddsOne
<1>. QED
  BY <1>1, <1>2, <1>3, <1>4, <1>5, <1>6, <1>8, <1>11 DEF Taken

LEMMA EOFIsRead ==
  ASSUME Types, Restarts, ReceiveEOF
  PROVE  /\ Taken /\ down[1].data.part = 0 /\ N \in Nat
         /\ have' = IF Handle = F /\ cl.written = Contents(F) THEN have \cup {F} ELSE have
         /\ cl'.bWWWDl = cl.bWWWDl /\ cl'.bWWWDlAborting = cl.bWWWDlAborting
         /\ cl'.serverId = cl.serverId /\ cl'.download = None /\ cl'.written = <<>>
         /\ \E f \in {None} \cup Files :
              Asked(f) /\ f # F /\ (f = None => N' = N + 1) /\ AddsBoth(NextdlOf(N), AskFor(f))
<1>1. Reads("block") /\ F # None /\ Head(down) = down[1]
  BY ArrivesIs DEF ReceiveEOF, F, Reads
<1>2. /\ down[1].block = N /\ mixed' = Mixes(down[1]) /\ down[1].data.part = 0
      /\ have' = IF Handle = F /\ cl.written = Contents(F) THEN have \cup {F} ELSE have
  BY <1>1, ExpectedIs DEF ReceiveEOF, F, Reads
<1>3. cl \in Client /\ up \in Seq(Batch) /\ cl.serverId \in Nat /\ cl.mode = "connected" /\ N \in Nat
  BY <1>1 DEF Types, Client, Reads, Connected, N
<1>4. cl.downloadRestart = TRUE /\ F \notin cl.downloadList
  BY <1>1, <1>3 DEF Restarts, Connected
<1>5. PICK v \in Nat : v = N + 1
  BY <1>3
<1>15. PICK w \in Seq(Part) : w = <<>>
  BY EmptyIs
<1>6. PICK c : c = [cl EXCEPT !.download = None, !.written = w, !.downloadBlock = v, !.downloadName = None]
  OBVIOUS
<1>7. /\ c \in Client /\ c.mode = "connected" /\ c.downloadRestart = TRUE
      /\ c.downloadList = cl.downloadList /\ c.downloadBlock = v
      /\ c.serverId = cl.serverId /\ c.bWWWDl = cl.bWWWDl
      /\ c.bWWWDlAborting = cl.bWWWDlAborting /\ c.download = None /\ c.written = w
  BY <1>3, <1>4, <1>6 DEF Client
<1>8. PICK n : n = NextDownload(c)
  OBVIOUS
<1>9. cl' = n.c /\ up' = Batched(<<Nextdl>> \o Nonempty(n.commands))
  BY <1>5, <1>6, <1>8, <1>15 DEF ReceiveEOF, N
<1>10. PICK f \in {None} \cup Files :
         /\ Asked(f) /\ f # F /\ n.commands = AskFor(f)
         /\ cl'.serverId = c.serverId /\ cl'.bWWWDl = c.bWWWDl
         /\ cl'.bWWWDlAborting = c.bWWWDlAborting /\ cl'.download = c.download
         /\ cl'.written = c.written /\ (f = None => N' = c.downloadBlock)
  <2>1. F # None /\ F \notin c.downloadList /\ cl' = n.c
    BY <1>1, <1>4, <1>7, <1>9
  <2>. QED
    BY <1>7, <1>8, <2>1, NextFileIs
<1>11. NextdlOf(N) \in Seq(Command) /\ AskFor(f) \in Seq(Command)
  BY <1>3, BatchIs, CommandsAre
<1>12. <<NextdlOf(N)>> \o Nonempty(AskFor(f)) = <<NextdlOf(N), AskFor(f)>>
  BY <1>11, AskedIs, Joining
<1>13. up' = up \o Stamped(<<NextdlOf(N), AskFor(f)>>, cl'.serverId)
  BY <1>7, <1>9, <1>10, <1>12 DEF Batched, Nextdl, NextdlOf, N
<1>14. AddsBoth(NextdlOf(N), AskFor(f))
  BY <1>3, <1>7, <1>10, <1>11, <1>13, AddsTwo
<1>. QED
  BY <1>1, <1>2, <1>3, <1>5, <1>7, <1>10, <1>14, <1>15 DEF Taken

LEMMA WWWDoneIs ==
  ASSUME Types, Restarts, WWWDone, F # None
  PROVE  /\ OffLine /\ have' \in {have, have \cup {F}} /\ Downloading
         /\ ~cl'.bWWWDl /\ cl'.bWWWDlAborting = cl.bWWWDlAborting
         /\ cl'.serverId = cl.serverId /\ cl'.download = None /\ cl'.written = <<>>
         /\ \E f \in {None} \cup Files :
              Asked(f) /\ f # F /\ (f = None => N' = N) /\ Adds(DoneAsk(f))
<1>1. OffLine /\ Downloading /\ have' \in {have, have \cup {F}}
  BY DEF WWWDone, OffLine, F
<1>2. cl \in Client /\ up \in Seq(Batch) /\ cl.serverId \in Nat /\ cl.mode = "connected"
  BY <1>1 DEF Types, Client, Downloading, Connected
<1>3. cl.downloadRestart = TRUE /\ F \notin cl.downloadList
  BY <1>2 DEF Restarts, Connected
<1>15. PICK w \in Seq(Part) : w = <<>>
  BY EmptyIs
<1>4. PICK c : c = [cl EXCEPT !.download = None, !.written = w, !.downloadName = None, !.bWWWDl = FALSE]
  OBVIOUS
<1>5. /\ c \in Client /\ c.mode = "connected" /\ c.downloadRestart = TRUE
      /\ c.downloadList = cl.downloadList /\ c.downloadBlock = N
      /\ c.serverId = cl.serverId /\ ~c.bWWWDl
      /\ c.bWWWDlAborting = cl.bWWWDlAborting /\ c.download = None /\ c.written = w
  BY <1>2, <1>3, <1>4 DEF Client, N
<1>6. PICK n : n = NextDownload(c)
  OBVIOUS
<1>7. cl' = n.c /\ up' = Batched(<< <<Cmd("wwwdl_done", 0)>> \o n.commands >>)
  BY <1>4, <1>6, <1>15 DEF WWWDone
<1>8. PICK f \in {None} \cup Files :
         /\ Asked(f) /\ f # F /\ n.commands = AskFor(f)
         /\ cl'.serverId = c.serverId /\ cl'.bWWWDl = c.bWWWDl
         /\ cl'.bWWWDlAborting = c.bWWWDlAborting /\ cl'.download = c.download
         /\ cl'.written = c.written /\ (f = None => N' = c.downloadBlock)
  BY <1>3, <1>5, <1>6, <1>7, NextFileIs
<1>9. up' = up \o Stamped(<<DoneAsk(f)>>, cl'.serverId)
  BY <1>5, <1>7, <1>8, AskedIs DEF Batched
<1>10. DoneAsk(f) \in Seq(Command)
  BY BatchIs, CommandsAre
<1>11. Adds(DoneAsk(f))
  BY <1>2, <1>5, <1>8, <1>9, <1>10, AddsOne
<1>. QED
  BY <1>1, <1>5, <1>8, <1>11, <1>15

LEMMA WWWFailIs ==
  ASSUME Types, WWWFail
  PROVE  /\ OffLine /\ have' = have /\ Downloading
         /\ cl' \in Client /\ cl'.bWWWDl = cl.bWWWDl /\ cl'.bWWWDlAborting
         /\ cl'.serverId = cl.serverId /\ cl'.download = cl.download /\ cl'.written = cl.written
         /\ cl'.mode = cl.mode /\ F' = F /\ N' = N /\ cl'.downloadRestart = cl.downloadRestart
         /\ cl'.downloadList = cl.downloadList /\ Adds(Fail)
<1>1. OffLine /\ Downloading /\ have' = have
  BY DEF WWWFail, OffLine
<1>2. cl \in Client /\ up \in Seq(Batch) /\ cl.serverId \in Nat
  BY DEF Types, Client
<1>3. cl' = [cl EXCEPT !.bWWWDlAborting = TRUE]
  BY DEF WWWFail
<1>4. /\ cl' \in Client /\ cl'.bWWWDl = cl.bWWWDl /\ cl'.bWWWDlAborting
      /\ cl'.serverId = cl.serverId /\ cl'.download = cl.download /\ cl'.written = cl.written
      /\ cl'.mode = cl.mode /\ F' = F /\ N' = N /\ cl'.downloadRestart = cl.downloadRestart
      /\ cl'.downloadList = cl.downloadList
  BY <1>2, <1>3 DEF Client, F, N
<1>5. up' = up \o Stamped(<<Fail>>, cl'.serverId)
  BY <1>4 DEF WWWFail, Batched, Fail
<1>6. Fail \in Seq(Command)
  BY BatchIs, CommandsAre
<1>7. Adds(Fail)
  BY <1>2, <1>4, <1>5, <1>6, AddsOne
<1>. QED
  BY <1>1, <1>4, <1>7

LEMMA GivesUpIs ==
  ASSUME Types, GivesUp
  PROVE  /\ OffLine /\ have' = have /\ up' = up /\ sv.state = "zombie" /\ Connected
         /\ cl' \in Client /\ cl'.mode = "dropped" /\ cl'.serverId = cl.serverId /\ F' = F
<1>1. OffLine /\ have' = have /\ up' = up /\ sv.state = "zombie" /\ cl \in Client /\ Connected
  BY DEF GivesUp, OffLine, Types
<1>2. cl' = [cl EXCEPT !.mode = "dropped"]
  BY DEF GivesUp
<1>3. cl' \in Client /\ cl'.mode = "dropped" /\ cl'.serverId = cl.serverId /\ F' = F
  BY <1>1, <1>2 DEF Client, F
<1>. QED
  BY <1>1, <1>3

(* Whatever the web transfer was for. *)
LEMMA WWWDoneAnyIs ==
  ASSUME Types, WWWDone
  PROVE  /\ OffLine /\ have' \in {have, have \cup {F}} /\ cl' \in Client
         /\ cl'.serverId = cl.serverId
         /\ \/ cl'.mode = "loading" /\ Adds(Done)
            \/ \E f \in {None} \cup Files : Asked(f) /\ Adds(DoneAsk(f))
<1>1. OffLine /\ Downloading /\ have' \in {have, have \cup {F}}
  BY DEF WWWDone, OffLine, F
<1>2. cl \in Client /\ up \in Seq(Batch) /\ cl.serverId \in Nat /\ cl.mode = "connected"
  BY <1>1 DEF Types, Client, Downloading, Connected
<1>3. PICK w \in Seq(Part) : w = <<>>
  BY EmptyIs
<1>4. PICK c : c = [cl EXCEPT !.download = None, !.written = w, !.downloadName = None, !.bWWWDl = FALSE]
  OBVIOUS
<1>5. c \in Client /\ c.mode = "connected" /\ c.serverId = cl.serverId
  BY <1>2, <1>3, <1>4 DEF Client
<1>6. PICK n : n = NextDownload(c)
  OBVIOUS
<1>7. cl' = n.c /\ up' = Batched(<< <<Cmd("wwwdl_done", 0)>> \o n.commands >>)
  BY <1>3, <1>4, <1>6 DEF WWWDone
<1>8. CASE NextFile(c, n.c) /\ n.commands = AskFor(n.c.downloadName)
  <2>1. PICK f : f = n.c.downloadName
    OBVIOUS
  <2>2. f \in {None} \cup Files /\ cl' \in Client /\ cl'.serverId = cl.serverId
    BY <1>5, <1>7, <1>8, <2>1 DEF NextFile, Elsewhere, Client
  <2>3. Asked(f)
    BY <1>5, <1>7, <1>8, <2>1, <2>2 DEF NextFile, Elsewhere, Asked, F, N
  <2>4. up' = up \o Stamped(<<DoneAsk(f)>>, cl'.serverId)
    BY <1>7, <1>8, <2>1, <2>2, AskedIs DEF Batched
  <2>5. DoneAsk(f) \in Seq(Command)
    BY <2>2, BatchIs, CommandsAre
  <2>6. Adds(DoneAsk(f))
    BY <1>2, <2>2, <2>4, <2>5, AddsOne
  <2>. QED
    BY <1>1, <2>2, <2>3, <2>6
<1>9. CASE /\ n.c \in Client /\ n.c.mode = "loading" /\ n.c.serverId = c.serverId
           /\ n.commands = <<>>
  <2>1. up' = up \o Stamped(<<Done>>, cl'.serverId)
    BY <1>5, <1>7, <1>9, AskedIs DEF Batched, Done
  <2>2. Done \in Seq(Command)
    BY BatchIs, CommandsAre
  <2>3. Adds(Done)
    BY <1>2, <1>5, <1>7, <1>9, <2>1, <2>2, AddsOne
  <2>. QED
    BY <1>1, <1>5, <1>7, <1>9, <2>3
<1>. QED
  BY <1>5, <1>6, <1>8, <1>9, NextDownloadIs

-----------------------------------------------------------------------------
(* What the server does. *)

LEMMA PacketIs ==
  ASSUME Types, NEW level, ExecuteBatch(level) \/ IgnoreBatch(level)
  PROVE  TakesPacket(level)
<1>1. up \in Seq(Batch) /\ up # <<>> /\ up' = Tail(up)
  BY DEF Types, ExecuteBatch, IgnoreBatch
<1>2. Takes /\ Head(up) = up[1] /\ up[1] \in Batch
  BY <1>1, TakesOne
<1>3. Stays /\ sv.state # "zombie" /\ level \in {Head(up).serverId, cl.serverId}
  BY DEF ExecuteBatch, IgnoreBatch, Stays
<1>. QED
  BY <1>2, <1>3 DEF TakesPacket

LEMMA ExecutingIs ==
  ASSUME Types, ~sv.gamestate, NEW level, ExecuteBatch(level)
  PROVE  TakesPacket(level) /\ ~OldLevel(level) /\ Executing(up[1].commands)
<1>1. TakesPacket(level)
  BY PacketIs
<1>2. ~OldLevel(level)
  BY DEF ExecuteBatch
<1>. QED
  BY <1>1, <1>2 DEF Executing, TakesPacket, Types

LEMMA GamestateIs ==
  ASSUME serverId \in Nat
  PROVE  Gamestate \in Message /\ Gamestate.kind = "gamestate" /\ Gamestate.serverId = serverId
  BY NumbersAre DEF Gamestate, Msg, Message, Part

LEMMA BatchHas ==
  ASSUME NEW b, IsBatch(b)
  PROVE  Len(b) \in 1 .. 2 /\ Last(b) \in Command
<1>1. b \in Seq(Command)
  BY CommandsAre
<1>2. Len(b) \in 1 .. 2
  BY OneHas, TwoHas
  DEF IsBatch, NextdlOf, AskFor, StopAsk, DoneAsk, Ack, Fail, AckFail, Stop, Done
<1>. QED
  BY <1>1, <1>2 DEF Last

LEMMA IgnoringIs ==
  ASSUME Types, NEW level, IgnoreBatch(level), IsBatch(up[1].commands)
  PROVE  /\ TakesPacket(level) /\ OldLevel(level) /\ Untouched /\ sv'.state # "zombie"
         /\ sv'.lastCommand = Last(up[1].commands).cmd
         /\ down' = IF GamestateLost THEN Sent(Gamestate) ELSE down
<1>1. TakesPacket(level)
  BY PacketIs
<1>2. sv \in Server /\ up[1] \in Batch /\ Head(up) = up[1] /\ sv.state # "zombie"
  BY <1>1 DEF Types, TakesPacket
<1>3. PICK w \in Words : w = Last(up[1].commands).cmd
  BY BatchHas DEF Command
<1>4. PICK s \in {"connected", "primed"} : s = IF GamestateLost THEN "primed" ELSE sv.state
  BY <1>2 DEF Server
<1>5. sv' = [sv EXCEPT !.lastCommand = w, !.state = s]
  BY <1>2, <1>3, <1>4 DEF IgnoreBatch
<1>6. Untouched /\ sv'.state = s /\ sv'.lastCommand = w
  BY <1>2, <1>5 DEF Server, Untouched
<1>. QED
  BY <1>1, <1>3, <1>6 DEF IgnoreBatch

LEMMA ResendingIs ==
  ASSUME Types, ResendGamestate
  PROVE  /\ Stays /\ up' = up /\ Untouched /\ sv'.state # "zombie" /\ sv.state # "zombie"
         /\ sv'.lastCommand = sv.lastCommand /\ Connected
         /\ OldLevel(cl.serverId) /\ GamestateLost /\ down' = Sent(Gamestate)
<1>1. sv \in Server
  BY DEF Types
<1>2. sv' = [sv EXCEPT !.state = "primed"]
  BY DEF ResendGamestate
<1>3. Untouched /\ sv'.state # "zombie" /\ sv'.lastCommand = sv.lastCommand
  BY <1>1, <1>2 DEF Server, Untouched
<1>. QED
  BY <1>3 DEF ResendGamestate, Stays

LEMMA QuietIs ==
  ASSUME Types, Quiet
  PROVE  /\ Stays /\ up' = up /\ down' = down /\ Untouched
         /\ sv'.state = sv.state /\ sv'.lastCommand = sv.lastCommand
<1>1. sv \in Server
  BY DEF Types
<1>2. sv' = [sv EXCEPT !.quiet = TRUE]
  BY DEF Quiet
<1>3. Untouched /\ sv'.state = sv.state /\ sv'.lastCommand = sv.lastCommand
  BY <1>1, <1>2 DEF Server, Untouched
<1>. QED
  BY <1>3 DEF Quiet, Stays

LEMMA NewLevelIs ==
  ASSUME Types, NewLevel
  PROVE  /\ serverId' = serverId + 1 /\ serverId' \in 1 .. MaxLevels
         /\ bDlOK' = bDlOK /\ cl' = cl /\ have' = have /\ mixed' = mixed
         /\ up' = up /\ down' = down /\ Untouched
         /\ sv.state # "zombie" /\ sv'.state # "zombie" /\ sv'.lastCommand = sv.lastCommand
<1>1. sv \in Server /\ serverId \in 1 .. MaxLevels
  BY DEF Types
<1>2. sv' = [sv EXCEPT !.state = "connected"]
  BY DEF NewLevel
<1>3. Untouched /\ sv'.state # "zombie" /\ sv'.lastCommand = sv.lastCommand
  BY <1>1, <1>2 DEF Server, Untouched
<1>4. serverId' = serverId + 1 /\ serverId < MaxLevels /\ MaxLevels \in Nat
  BY DownloadAssumption DEF NewLevel, DownloadAssumption
<1>5. serverId' \in 1 .. MaxLevels
  BY <1>1, <1>4
<1>. QED
  BY <1>3, <1>4, <1>5 DEF NewLevel

-----------------------------------------------------------------------------
(* The server writes to the client. *)

LEMMA TypesGive ==
  ASSUME Types
  PROVE  /\ sv \in Server /\ serverId \in Nat /\ serverId >= 1 /\ sv.top \in [Files -> Nat]
         /\ cl \in Client /\ cl.serverId \in Nat /\ N \in Nat
         /\ sv.downloadClientBlock \in Nat /\ sv.downloadCurrentBlock \in Nat
         /\ sv.downloadXmitBlock \in Nat /\ sv.downloadBlocks \in [Slots -> Part]
         /\ F \in {None} \cup Files /\ sv.downloadName \in {None} \cup Files
<1>1. sv \in Server /\ cl \in Client /\ serverId \in 1 .. MaxLevels
  BY DEF Types
<1>2. MaxLevels \in Nat /\ Counter \subseteq Nat
  BY DownloadAssumption, CounterIs DEF DownloadAssumption
<1>3. serverId \in Nat /\ serverId >= 1
  BY <1>1, <1>2
<1>4. cl.serverId \in Nat /\ N \in Nat /\ F \in {None} \cup Files
  BY <1>1 DEF Client, N, F
<1>5. /\ sv.top \in [Files -> Nat] /\ sv.downloadClientBlock \in Nat /\ sv.downloadCurrentBlock \in Counter
      /\ sv.downloadXmitBlock \in Nat /\ sv.downloadBlocks \in [Slots -> Part]
      /\ sv.downloadName \in {None} \cup Files
  BY <1>1 DEF Server
<1>. QED
  BY <1>1, <1>2, <1>3, <1>4, <1>5

LEMMA TopIs ==
  ASSUME NEW top \in [Files -> Nat], NEW f \in Files, NEW n \in Nat,
         NEW t, t = [top EXCEPT ![f] = AtLeast(top[f], n)]
  PROVE  /\ t \in [Files -> Nat] /\ t[f] = AtLeast(top[f], n)
         /\ \A g \in Files \ {f} : t[g] = top[g]
  BY DEF AtLeast

LEMMA RedirectIsWritten ==
  ASSUME Types, WriteRedirect, NEW f, f = sv.downloadName
  PROVE  /\ Writing /\ ~sv.download /\ bDlOK /\ ~sv.bFallback /\ Blocks[f] > 0
         /\ sv'.downloadCurrentBlock = sv.downloadCurrentBlock
         /\ sv'.downloadXmitBlock = sv.downloadXmitBlock /\ sv'.downloadEOF = sv.downloadEOF
         /\ sv'.downloadBlocks = sv.downloadBlocks
         /\ sv'.downloadClientBlock = sv.downloadClientBlock /\ ~sv'.bFallback
         /\ sv'.downloadName = f /\ ~sv'.download /\ sv'.bWWWDl /\ sv'.bWWWing = sv.bWWWing
         /\ TopsUp(f, 1)
         /\ \E msg \in Message :
              /\ down' = Sent(msg) /\ msg.kind = "redirect" /\ msg.block = 0
              /\ msg.data.file = f /\ msg.again = (sv.top[f] > 0) /\ msg.serverId = serverId
<1>1. sv \in Server /\ serverId \in Nat /\ sv.top \in [Files -> Nat]
  BY TypesGive
<1>2. f \in Files /\ f # None /\ sv.state # "zombie" /\ ~sv.bWWWing
  BY <1>1 DEF WriteRedirect, Writes, Server
<1>3. PICK t : t = [sv.top EXCEPT ![f] = AtLeast(sv.top[f], 1)]
  OBVIOUS
<1>4. /\ t \in [Files -> Nat] /\ t[f] = AtLeast(sv.top[f], 1)
      /\ \A g \in Files \ {f} : t[g] = sv.top[g]
  BY <1>1, <1>2, <1>3, TopIs
<1>5. sv' = [sv EXCEPT !.bWWWDl = TRUE, !.top = t]
  BY <1>3 DEF WriteRedirect
<1>6. /\ sv' \in Server /\ sv'.state = sv.state /\ sv'.lastCommand = sv.lastCommand
      /\ sv'.gamestate = sv.gamestate
      /\ sv'.downloadCurrentBlock = sv.downloadCurrentBlock
      /\ sv'.downloadXmitBlock = sv.downloadXmitBlock /\ sv'.downloadEOF = sv.downloadEOF
      /\ sv'.downloadBlocks = sv.downloadBlocks
      /\ sv'.downloadClientBlock = sv.downloadClientBlock /\ sv'.bFallback = sv.bFallback
      /\ sv'.downloadName = sv.downloadName /\ sv'.download = sv.download
      /\ sv'.bWWWDl /\ sv'.bWWWing = sv.bWWWing /\ sv'.top = t
  BY <1>1, <1>4, <1>5 DEF Server
<1>7. PICK msg : msg = Msg("redirect", 0, BlockOf(f, 0), sv.top[f] > 0)
  OBVIOUS
<1>8. /\ msg \in Message /\ msg.kind = "redirect" /\ msg.block = 0
      /\ msg.data.file = f /\ msg.again = (sv.top[f] > 0) /\ msg.serverId = serverId
  <2>1. BlockOf(f, 0) \in Part /\ BlockOf(f, 0).file = f
    BY <1>2 DEF BlockOf, Part
  <2>. QED
    BY <1>1, <1>7, <2>1, NumbersAre DEF Msg, Message
<1>9. down' = Sent(msg)
  BY <1>7 DEF WriteRedirect
<1>10. ~sv.download /\ bDlOK /\ ~sv.bFallback /\ Blocks[f] > 0
  BY DEF WriteRedirect, Redirects
<1>11. Stays /\ up' = up
  BY DEF WriteRedirect, Writes, Stays
<1>. QED
  BY <1>2, <1>4, <1>6, <1>8, <1>9, <1>10, <1>11 DEF Writing, TopsUp

LEMMA BadIsWritten ==
  ASSUME Types, WriteBad, NEW f, f = sv.downloadName
  PROVE  /\ Writing /\ ~sv.download /\ Blocks[f] = 0
         /\ sv'.downloadCurrentBlock = sv.downloadCurrentBlock
         /\ sv'.downloadXmitBlock = sv.downloadXmitBlock /\ sv'.downloadEOF = sv.downloadEOF
         /\ sv'.downloadBlocks = sv.downloadBlocks
         /\ sv'.downloadClientBlock = sv.downloadClientBlock /\ ~sv'.bFallback
         /\ sv'.downloadName = None /\ ~sv'.download /\ ~sv'.bWWWDl /\ sv'.bWWWing = sv.bWWWing
         /\ sv'.top = sv.top
         /\ \E msg \in Message :
              down' = Sent(msg) /\ msg.kind = "bad" /\ msg.serverId = serverId
<1>1. sv \in Server /\ serverId \in Nat
  BY TypesGive
<1>2. f \in Files /\ f # None /\ sv.state # "zombie" /\ ~sv.bWWWing
  BY <1>1 DEF WriteBad, Writes, Server
<1>3. sv' = [sv EXCEPT !.downloadName = None, !.bWWWDl = FALSE, !.bFallback = FALSE]
  BY DEF WriteBad
<1>4. /\ sv' \in Server /\ sv'.state = sv.state /\ sv'.lastCommand = sv.lastCommand
      /\ sv'.gamestate = sv.gamestate
      /\ sv'.downloadCurrentBlock = sv.downloadCurrentBlock
      /\ sv'.downloadXmitBlock = sv.downloadXmitBlock /\ sv'.downloadEOF = sv.downloadEOF
      /\ sv'.downloadBlocks = sv.downloadBlocks
      /\ sv'.downloadClientBlock = sv.downloadClientBlock /\ ~sv'.bFallback
      /\ sv'.downloadName = None /\ sv'.download = sv.download
      /\ ~sv'.bWWWDl /\ sv'.bWWWing = sv.bWWWing /\ sv'.top = sv.top
  BY <1>1, <1>3 DEF Server
<1>5. PICK msg : msg = Msg("bad", 0, BlockOf(f, 0), FALSE)
  OBVIOUS
<1>6. msg \in Message /\ msg.kind = "bad" /\ msg.serverId = serverId
  <2>1. BlockOf(f, 0) \in Part
    BY <1>2 DEF BlockOf, Part
  <2>. QED
    BY <1>1, <1>5, <2>1, NumbersAre DEF Msg, Message
<1>7. down' = Sent(msg) /\ ~sv.download /\ Blocks[f] = 0
  BY <1>5 DEF WriteBad
<1>8. Stays /\ up' = up
  BY DEF WriteBad, Writes, Stays
<1>. QED
  BY <1>2, <1>4, <1>6, <1>7, <1>8 DEF Writing

LEMMA SlotIs ==
  /\ \A b \in Nat : Slot(b) \in Slots
  /\ \A k \in Slots : k \in Nat /\ k < W /\ Slot(k) = k
  /\ \A a, b \in Nat : a < b /\ b - a < W => Slot(a) # Slot(b)
<1>1. W \in Nat \ {0}
  BY DownloadAssumption DEF DownloadAssumption, W
<1>2. \A b \in Nat : Slot(b) \in Slots
  BY <1>1 DEF Slot, Slots, W
<1>3. \A k \in Slots : k \in Nat /\ k < W /\ Slot(k) = k
  BY <1>1 DEF Slot, Slots, W
<1>4. \A a, b \in Nat : a < b /\ b - a < W => Slot(a) # Slot(b)
  <2>. TAKE a, b \in Nat
  <2>. HAVE a < b /\ b - a < W
  <2>1. PICK size \in Nat \ {0} : size = MAX_DOWNLOAD_WINDOW
    BY <1>1 DEF W
  <2>2. a \in Int /\ b \in Int /\ a < b /\ b - a < size
    BY <2>1 DEF W
  <2>3. a % size # b % size
    BY <2>2, PlacesDiffer
  <2>. QED
    BY <2>1, <2>3 DEF Slot
<1>. QED
  BY <1>2, <1>3, <1>4

LEMMA BlockOfIs ==
  ASSUME NEW f \in Files, NEW b \in Nat
  PROVE  /\ BlockOf(f, b) \in Part /\ BlockOf(f, b).file = f
         /\ (BlockOf(f, b).part = 0 <=> b >= Blocks[f])
         /\ (b < Blocks[f] => BlockOf(f, b) = [file |-> f, part |-> b + 1])
  BY FilesAre DEF BlockOf, Part

(* The greatest of finitely many numbers. *)
LEMMA GreatestIs ==
  ASSUME NEW c \in Nat, NEW e \in Nat, NEW S, S \subseteq c .. (e - 1), S # {}
  PROVE  \E b \in S : \A o \in S : o <= b
<1>1. IsFiniteSet(S)
  <2>1. e - 1 \in Int /\ c \in Int
    OBVIOUS
  <2>2. IsFiniteSet(c .. (e - 1))
    BY <2>1, FS_Interval
  <2>. QED
    BY <2>2, FS_Subset
<1>. DEFINE g == [b \in S |-> 0 - b]
<1>2. \A b \in S : b \in Int /\ g[b] \in Int /\ g[b] = 0 - b
  OBVIOUS
<1>. HIDE DEF g
<1>3. PICK b \in S : \A o \in S : g[b] <= g[o]
  BY <1>1, <1>2, LeastOf
<1>4. \A o \in S : o <= b
  BY <1>2, <1>3
<1>. QED
  BY <1>4

LEMMA ReadIntoIs ==
  ASSUME NEW f \in Files, NEW c \in Nat, NEW e \in Nat, NEW old \in [Slots -> Part],
         NEW new, new = ReadInto(f, c, e, old)
  PROVE  /\ new \in [Slots -> Part]
         /\ \A k \in Slots : new[k] = old[k] \/ new[k].file = f
         /\ \A k \in Slots : c <= k /\ k < e => new[k].file = f
         /\ \A b \in Nat : c <= b /\ b < e /\ b >= e - W => new[Slot(b)] = BlockOf(f, b)
         /\ \A b \in Nat : b < c /\ b >= e - W => new[Slot(b)] = old[Slot(b)]
         /\ (e <= c => \A k \in Slots : new[k] = old[k])
<1>. DEFINE Read(k) == {b \in c .. (e - 1) : Slot(b) = k}
<1>1. new = [k \in Slots |-> IF Read(k) = {} THEN old[k]
                             ELSE BlockOf(f, CHOOSE b \in Read(k) : \A o \in Read(k) : o <= b)]
  BY DEF ReadInto
<1>2. \A k \in Slots : Read(k) = {} => new[k] = old[k]
  BY <1>1
<1>3. ASSUME NEW k \in Slots, Read(k) # {}
      PROVE  \E b \in Read(k) : (\A o \in Read(k) : o <= b) /\ new[k] = BlockOf(f, b)
  <2>. DEFINE R == Read(k)
              g == CHOOSE b \in R : \A o \in R : o <= b
  <2>1. new[k] = BlockOf(f, g)
    BY <1>1, <1>3
  <2>2. R \subseteq c .. (e - 1) /\ R # {}
    BY <1>3
  <2>. HIDE DEF R
  <2>3. \E b \in R : \A o \in R : o <= b
    BY <2>2, GreatestIs
  <2>4. g \in R /\ \A o \in R : o <= g
    BY <2>3
  <2>. QED
    BY <2>1, <2>4 DEF R
<1>4. DOMAIN new = Slots /\ new = [k \in Slots |-> new[k]]
  BY <1>1
<1>5. \A k \in Slots : \A b \in Read(k) : b \in Nat /\ c <= b /\ b < e /\ Slot(b) = k
  OBVIOUS
<1>6. \A b \in Nat : c <= b /\ b < e => b \in Read(Slot(b))
  OBVIOUS
<1>. HIDE DEF Read
<1>7. \A k \in Slots : new[k] \in Part /\ (new[k] = old[k] \/ new[k].file = f)
  <2>. TAKE k \in Slots
  <2>1. CASE Read(k) = {}
    BY <1>2, <2>1
  <2>2. CASE Read(k) # {}
    BY <1>3, <1>5, <2>2, BlockOfIs
  <2>. QED
    BY <2>1, <2>2
<1>8. \A k \in Slots : c <= k /\ k < e => new[k].file = f
  <2>. TAKE k \in Slots
  <2>. HAVE c <= k /\ k < e
  <2>1. k \in Read(k)
    BY <1>6, SlotIs
  <2>. QED
    BY <1>3, <1>5, <2>1, BlockOfIs
<1>9. \A b \in Nat : c <= b /\ b < e /\ b >= e - W => new[Slot(b)] = BlockOf(f, b)
  <2>. TAKE b \in Nat
  <2>. HAVE c <= b /\ b < e /\ b >= e - W
  <2>1. b \in Read(Slot(b)) /\ Slot(b) \in Slots
    BY <1>6, SlotIs
  <2>2. PICK g \in Read(Slot(b)) : (\A o \in Read(Slot(b)) : o <= g) /\ new[Slot(b)] = BlockOf(f, g)
    BY <1>3, <2>1
  <2>3. g \in Nat /\ b <= g /\ g < e /\ Slot(g) = Slot(b)
    BY <1>5, <2>1, <2>2
  <2>4. W \in Nat
    BY FilesAre DEF W
  <2>5. g = b
    BY <2>3, <2>4, SlotIs
  <2>. QED
    BY <2>2, <2>5
<1>10. \A b \in Nat : b < c /\ b >= e - W => new[Slot(b)] = old[Slot(b)]
  <2>. TAKE b \in Nat
  <2>. HAVE b < c /\ b >= e - W
  <2>1. W \in Nat /\ Slot(b) \in Slots
    BY FilesAre, SlotIs DEF W
  <2>2. Read(Slot(b)) = {}
    <3>. SUFFICES ASSUME NEW g \in Read(Slot(b)) PROVE FALSE
      OBVIOUS
    <3>1. g \in Nat /\ c <= g /\ g < e /\ Slot(g) = Slot(b)
      BY <1>5, <2>1
    <3>2. b < g /\ g - b < W
      BY <2>1, <3>1
    <3>. QED
      BY <3>1, <3>2, SlotIs
  <2>. QED
    BY <1>2, <2>1, <2>2
<1>11. e <= c => \A k \in Slots : new[k] = old[k]
  <2>. HAVE e <= c
  <2>. TAKE k \in Slots
  <2>1. Read(k) = {}
    BY <1>5
  <2>. QED
    BY <1>2, <2>1
<1>12. new \in [Slots -> Part]
  BY <1>4, <1>7
<1>. QED
  BY <1>7, <1>8, <1>9, <1>10, <1>11, <1>12

LEMMA OpenedIs ==
  ASSUME NEW s \in Server, NEW o, o = Opened(s)
  PROVE  /\ o \in Server /\ o.download /\ o.downloadName = s.downloadName /\ o.state = s.state
         /\ o.lastCommand = s.lastCommand /\ o.gamestate = s.gamestate /\ o.top = s.top
         /\ o.bWWWing = s.bWWWing /\ o.downloadBlocks = s.downloadBlocks
         /\ (s.download => o = s)
         /\ (~s.download => /\ ~o.bFallback /\ ~o.bWWWDl /\ o.downloadCurrentBlock = 0
                            /\ o.downloadClientBlock = 0 /\ o.downloadXmitBlock = 0)
<1>1. 0 \in Counter
  BY CounterIs
<1>2. CASE s.download
  BY <1>2 DEF Opened
<1>3. CASE ~s.download
  <2>1. o = [s EXCEPT !.download = TRUE, !.bWWWDl = FALSE, !.bFallback = FALSE,
                 !.downloadCurrentBlock = 0, !.downloadClientBlock = 0,
                 !.downloadXmitBlock = 0, !.downloadEOF = FALSE]
    BY <1>3 DEF Opened
  <2>2. o \in Server
    <3>1. PICK p : p = [s EXCEPT !.download = TRUE, !.bWWWDl = FALSE, !.bFallback = FALSE,
                               !.downloadEOF = FALSE]
      OBVIOUS
    <3>2. p \in Server
      BY <3>1 DEF Server
    <3>3. PICK z \in Counter : z = 0
      BY <1>1
    <3>4. o = [p EXCEPT !.downloadCurrentBlock = z, !.downloadClientBlock = z, !.downloadXmitBlock = z]
      BY <2>1, <3>1, <3>3
    <3>5. z \in Nat
      BY <3>3
    <3>. QED
      BY <3>2, <3>3, <3>4, <3>5 DEF Server
  <2>3. /\ o.download /\ o.downloadName = s.downloadName /\ o.state = s.state
        /\ o.lastCommand = s.lastCommand /\ o.gamestate = s.gamestate /\ o.top = s.top
        /\ o.bWWWing = s.bWWWing /\ o.downloadBlocks = s.downloadBlocks
    BY <2>1 DEF Server
  <2>4. /\ ~o.bFallback /\ ~o.bWWWDl /\ o.downloadCurrentBlock = 0
        /\ o.downloadClientBlock = 0 /\ o.downloadXmitBlock = 0
    BY <2>1 DEF Server
  <2>. QED
    BY <1>3, <2>2, <2>3, <2>4
<1>. QED
  BY <1>2, <1>3

LEMMA FilledIs ==
  ASSUME NEW s \in Server, NEW f \in Files, f = s.downloadName, NEW r, r = Filled(s)
  PROVE  /\ r \in Server /\ r.download = s.download /\ r.downloadName = f /\ r.state = s.state
         /\ r.lastCommand = s.lastCommand /\ r.gamestate = s.gamestate /\ r.top = s.top
         /\ r.bWWWing = s.bWWWing /\ r.bWWWDl = s.bWWWDl /\ r.bFallback = s.bFallback
         /\ r.downloadClientBlock = s.downloadClientBlock
         /\ r.downloadXmitBlock = s.downloadXmitBlock
         /\ r.downloadCurrentBlock = AtLeast(s.downloadCurrentBlock, AtMost(s.downloadClientBlock + W, Blocks[f] + 1))
         /\ r.downloadBlocks = ReadInto(f, s.downloadCurrentBlock, r.downloadCurrentBlock, s.downloadBlocks)
<1>1. /\ s.downloadCurrentBlock \in Nat /\ s.downloadCurrentBlock \in Counter
      /\ s.downloadClientBlock \in Nat /\ s.downloadBlocks \in [Slots -> Part]
      /\ Blocks[f] \in Nat /\ W \in Nat
  BY CounterIs, FilesAre DEF Server, W
<1>2. PICK e : e = AtLeast(s.downloadCurrentBlock, AtMost(s.downloadClientBlock + W, Blocks[f] + 1))
  OBVIOUS
<1>3. e \in Counter /\ e \in Nat
  <2>1. Blocks[f] + 1 \in Nat /\ \A b \in Nat : b <= Blocks[f] + 1 => b \in Counter
    BY <1>1, CounterIs
  <2>2. e = s.downloadCurrentBlock \/ (e \in Nat /\ e <= Blocks[f] + 1)
    BY <1>1, <1>2 DEF AtLeast, AtMost
  <2>. QED
    BY <1>1, <2>1, <2>2
<1>4. PICK new : new = ReadInto(f, s.downloadCurrentBlock, e, s.downloadBlocks)
  OBVIOUS
<1>5. new \in [Slots -> Part]
  BY <1>1, <1>3, <1>4, ReadIntoIs
<1>6. PICK eof \in BOOLEAN : eof = (s.downloadEOF \/ WindowEnd(s) > Blocks[f])
  OBVIOUS
<1>7. r = [s EXCEPT !.downloadCurrentBlock = e, !.downloadEOF = eof, !.downloadBlocks = new]
  BY <1>2, <1>4, <1>6 DEF Filled, WindowEnd, ReadInto, W
<1>8. /\ r \in Server /\ r.download = s.download /\ r.downloadName = s.downloadName /\ r.state = s.state
      /\ r.lastCommand = s.lastCommand /\ r.gamestate = s.gamestate /\ r.top = s.top
      /\ r.bWWWing = s.bWWWing /\ r.bWWWDl = s.bWWWDl /\ r.bFallback = s.bFallback
      /\ r.downloadClientBlock = s.downloadClientBlock
      /\ r.downloadXmitBlock = s.downloadXmitBlock
      /\ r.downloadCurrentBlock = e /\ r.downloadBlocks = new
  BY <1>3, <1>5, <1>7 DEF Server
<1>. QED
  BY <1>2, <1>4, <1>8

LEMMA BlockIsWritten ==
  ASSUME Types, WriteBlock, NEW f, f = sv.downloadName
  PROVE  \E c, k, x, b \in Nat : Sends(f, c, k, x, b)
<1>1. /\ sv \in Server /\ serverId \in Nat /\ sv.top \in [Files -> Nat]
      /\ sv.downloadClientBlock \in Nat /\ sv.downloadCurrentBlock \in Nat
      /\ sv.downloadXmitBlock \in Nat /\ sv.downloadBlocks \in [Slots -> Part]
  BY TypesGive
<1>2. f \in Files /\ f # None /\ sv.state # "zombie" /\ Stays /\ up' = up
  BY <1>1 DEF WriteBlock, Writes, Server, Stays
<1>3. Blocks[f] > 0 /\ (sv.download \/ ~bDlOK \/ sv.bFallback)
  BY DEF WriteBlock, Redirects
<1>4. PICK o : o = Opened(sv)
  OBVIOUS
<1>5. /\ o \in Server /\ o.download /\ o.downloadName = sv.downloadName /\ o.state = sv.state
      /\ o.lastCommand = sv.lastCommand /\ o.gamestate = sv.gamestate /\ o.top = sv.top
      /\ o.bWWWing = sv.bWWWing /\ o.downloadBlocks = sv.downloadBlocks
      /\ (sv.download => o = sv)
      /\ (~sv.download => /\ ~o.bFallback /\ ~o.bWWWDl /\ o.downloadCurrentBlock = 0
                          /\ o.downloadClientBlock = 0 /\ o.downloadXmitBlock = 0)
  BY <1>1, <1>4, OpenedIs
<1>6. PICK r : r = Filled(o)
  OBVIOUS
<1>7. /\ r \in Server /\ r.download = o.download /\ r.downloadName = f /\ r.state = o.state
      /\ r.lastCommand = o.lastCommand /\ r.gamestate = o.gamestate /\ r.top = o.top
      /\ r.bWWWing = o.bWWWing /\ r.bWWWDl = o.bWWWDl /\ r.bFallback = o.bFallback
      /\ r.downloadClientBlock = o.downloadClientBlock
      /\ r.downloadXmitBlock = o.downloadXmitBlock
      /\ r.downloadCurrentBlock = AtLeast(o.downloadCurrentBlock, AtMost(o.downloadClientBlock + W, Blocks[f] + 1))
      /\ r.downloadBlocks = ReadInto(f, o.downloadCurrentBlock, r.downloadCurrentBlock, o.downloadBlocks)
  <2>1. f = o.downloadName /\ f \in Files /\ o \in Server
    BY <1>2, <1>5
  <2>. QED
    BY <1>6, <2>1, FilledIs
<1>8. PICK c \in Nat, k \in Nat, x \in Nat :
         c = o.downloadCurrentBlock /\ k = o.downloadClientBlock /\ x = o.downloadXmitBlock
  <2>1. o.downloadCurrentBlock \in Nat /\ o.downloadClientBlock \in Nat /\ o.downloadXmitBlock \in Nat
    BY <1>5, CounterIs DEF Server
  <2>. QED
    BY <2>1
<1>9. Starts(c, k, x)
  BY <1>5, <1>8 DEF Starts
<1>10. PICK b \in Nat : b = NextBlock(r)
  BY <1>7, <1>8 DEF NextBlock
<1>11. b = (IF x = r.downloadCurrentBlock THEN k ELSE x)
  BY <1>7, <1>8, <1>10 DEF NextBlock
<1>12. PICK n \in Nat : n = b + 1
  OBVIOUS
<1>13. PICK t : t = [sv.top EXCEPT ![f] = AtLeast(sv.top[f], n)]
  OBVIOUS
<1>14. /\ t \in [Files -> Nat] /\ t[f] = AtLeast(sv.top[f], n)
       /\ \A g \in Files \ {f} : t[g] = sv.top[g]
  BY <1>1, <1>2, <1>13, TopIs
<1>15. PICK msg : msg = Msg("block", b, r.downloadBlocks[Slot(b)], b < r.top[r.downloadName])
  OBVIOUS
<1>16. /\ r.downloadClientBlock # r.downloadCurrentBlock
       /\ sv' = [r EXCEPT !.downloadXmitBlock = n, !.quiet = FALSE, !.top = t]
       /\ down' = Sent(msg)
  <2>1. /\ r.downloadClientBlock # r.downloadCurrentBlock
        /\ sv' = [r EXCEPT !.downloadXmitBlock = b + 1, !.quiet = FALSE,
                           !.top[r.downloadName] = AtLeast(@, b + 1)]
        /\ down' = Sent(Msg("block", b, r.downloadBlocks[Slot(b)], b < r.top[r.downloadName]))
    BY <1>4, <1>6, <1>10 DEF WriteBlock
  <2>2. r.downloadName = f /\ r.top = sv.top
    BY <1>5, <1>7
  <2>. QED
    BY <1>12, <1>13, <1>15, <2>1, <2>2
<1>17. /\ sv' \in Server /\ sv'.state = r.state /\ sv'.lastCommand = r.lastCommand
       /\ sv'.gamestate = r.gamestate /\ sv'.download = r.download /\ sv'.downloadName = f
       /\ sv'.bWWWing = r.bWWWing /\ sv'.bWWWDl = r.bWWWDl /\ sv'.bFallback = r.bFallback
       /\ sv'.downloadClientBlock = r.downloadClientBlock
       /\ sv'.downloadCurrentBlock = r.downloadCurrentBlock
       /\ sv'.downloadBlocks = r.downloadBlocks /\ sv'.downloadXmitBlock = n /\ sv'.top = t
  BY <1>7, <1>14, <1>16 DEF Server
<1>18. Writing
  BY <1>2, <1>5, <1>7, <1>17 DEF Writing
<1>19. Fills(f, c, sv'.downloadCurrentBlock)
  <2>1. PICK e \in Nat : e = sv'.downloadCurrentBlock
    BY <1>17, CounterIs DEF Server
  <2>2. PICK new : new = sv'.downloadBlocks
    OBVIOUS
  <2>3. new = ReadInto(f, c, e, sv.downloadBlocks)
    BY <1>5, <1>7, <1>8, <1>17, <2>1, <2>2
  <2>4. /\ \A j \in Slots : new[j] = sv.downloadBlocks[j] \/ new[j].file = f
        /\ \A j \in Slots : c <= j /\ j < e => new[j].file = f
        /\ \A i \in Nat : c <= i /\ i < e /\ i >= e - W => new[Slot(i)] = BlockOf(f, i)
        /\ \A i \in Nat : i < c /\ i >= e - W => new[Slot(i)] = sv.downloadBlocks[Slot(i)]
        /\ (e <= c => \A j \in Slots : new[j] = sv.downloadBlocks[j])
    BY <1>1, <1>2, <2>3, ReadIntoIs
  <2>. QED
    BY <2>1, <2>2, <2>4 DEF Fills
<1>20. TopsUp(f, b + 1)
  BY <1>12, <1>14, <1>17 DEF TopsUp
<1>21. /\ msg \in Message /\ msg.kind = "block" /\ msg.block = b
       /\ msg.data = sv'.downloadBlocks[Slot(b)] /\ msg.again = (b < sv.top[f])
       /\ msg.serverId = serverId
  <2>1. r.downloadBlocks[Slot(b)] \in Part
    BY <1>7, SlotIs DEF Server
  <2>2. r.downloadName = f /\ r.top = sv.top
    BY <1>5, <1>7
  <2>3. b \in Numbers
    BY <1>4, <1>6, <1>10 DEF WriteBlock
  <2>. QED
    BY <1>1, <1>15, <1>17, <2>1, <2>2, <2>3 DEF Msg, Message
<1>22. Sends(f, c, k, x, b)
  <2>1. /\ sv'.download /\ sv'.downloadName = f /\ sv'.bWWWing = sv.bWWWing
        /\ (sv.download => sv'.bFallback = sv.bFallback /\ sv'.bWWWDl = sv.bWWWDl)
        /\ (~sv.download => ~sv'.bFallback /\ ~sv'.bWWWDl)
    BY <1>5, <1>7, <1>17
  <2>2. /\ sv'.downloadClientBlock = k
        /\ sv'.downloadCurrentBlock = AtLeast(c, AtMost(k + W, Blocks[f] + 1))
        /\ k # sv'.downloadCurrentBlock
        /\ b = (IF x = sv'.downloadCurrentBlock THEN k ELSE x)
        /\ sv'.downloadXmitBlock = b + 1
    BY <1>7, <1>8, <1>11, <1>12, <1>16, <1>17
  <2>. QED
    BY <1>3, <1>9, <1>16, <1>18, <1>19, <1>20, <1>21, <2>1, <2>2 DEF Sends
<1>. QED
  BY <1>22

-----------------------------------------------------------------------------
(* What holds whatever happens. *)

LEMMA LosesNone ==
  ASSUME down \in Seq(Message), down' = down PROVE Loses(0)
  BY DEF Loses

LEMMA LostKeeps ==
  ASSUME Base, NEW d, Loses(d), sv'.top = sv.top
  PROVE  Ordered' /\ Sendable'
<1>1. down \in Seq(Message) /\ Len(down) \in Nat /\ d \in 0 .. Len(down) /\ Len(down') = Len(down) - d
  BY DEF Base, Types, Loses
<1>2. \A i \in 1 .. Len(down') : i + d \in 1 .. Len(down) /\ down'[i] = down[i + d]
  BY <1>1 DEF Loses
<1>3. \A i, j \in 1 .. Len(down') : i < j => i + d < j + d
  BY <1>1
<1>4. Ordered'
  BY <1>2, <1>3 DEF Base, Ordered, Data
<1>5. Sendable'
  BY <1>2 DEF Base, Sendable, Data
<1>. QED
  BY <1>4, <1>5

(* Where a message stood before another came last. *)
LEMMA PostedIs ==
  ASSUME down \in Seq(Message), NEW msg, Posts(msg)
  PROVE  /\ Len(down') \in Nat /\ Len(down') >= 1 /\ down'[Len(down')] = msg
         /\ \E d \in 0 .. 1 :
              \A i \in 1 .. Len(down') : i < Len(down') => i + d \in 1 .. Len(down) /\ down'[i] = down[i + d]
<1>1. Len(down) \in Nat /\ Len(down') \in Nat /\ Len(down') >= 1 /\ down'[Len(down')] = msg
  BY DEF Posts
<1>2. PICK d \in 0 .. 1 : /\ Len(down') = Len(down) + 1 - d
                          /\ \A i \in 1 .. (Len(down') - 1) : down'[i] = down[i + d]
  BY DEF Posts
<1>3. \A i \in 1 .. Len(down') : i < Len(down') => i + d \in 1 .. Len(down) /\ down'[i] = down[i + d]
  BY <1>1, <1>2
<1>. QED
  BY <1>1, <1>3

LEMMA PostedKeeps ==
  ASSUME Base, NEW msg, Posts(msg), ~Data(msg), sv'.top = sv.top
  PROVE  Ordered' /\ Sendable'
<1>1. PICK d \in 0 .. 1 :
        \A i \in 1 .. Len(down') : i < Len(down') => i + d \in 1 .. Len(down) /\ down'[i] = down[i + d]
  BY PostedIs DEF Base, Types
<1>2. Len(down') \in Nat /\ Len(down') >= 1 /\ down'[Len(down')] = msg
  BY PostedIs DEF Base, Types
<1>3. \A i, j \in 1 .. Len(down') : i < j => i + d < j + d /\ i < Len(down') /\ (j = Len(down') \/ j < Len(down'))
  BY <1>2
<1>4. Ordered'
  BY <1>1, <1>2, <1>3 DEF Base, Ordered, Data
<1>5. \A i \in 1 .. Len(down') : i = Len(down') \/ i < Len(down')
  BY <1>2
<1>6. Sendable'
  BY <1>1, <1>2, <1>5 DEF Base, Sendable, Data
<1>. QED
  BY <1>4, <1>6

LEMMA DataPostedKeeps ==
  ASSUME Base, NEW msg \in Message, Posts(msg), Data(msg), NEW f \in Files, msg.data.file = f,
         sv' \in Server, TopsUp(f, msg.block + 1), msg.kind = "redirect" => msg.block = 0,
         msg.again \/ msg.block >= sv.top[f]
  PROVE  Ordered' /\ Sendable'
<1>1. PICK d \in 0 .. 1 :
        \A i \in 1 .. Len(down') : i < Len(down') => i + d \in 1 .. Len(down) /\ down'[i] = down[i + d]
  BY PostedIs DEF Base, Types
<1>2. Len(down') \in Nat /\ Len(down') >= 1 /\ down'[Len(down')] = msg
  BY PostedIs DEF Base, Types
<1>3. \A i, j \in 1 .. Len(down') : i < j => i + d < j + d /\ i < Len(down') /\ (j = Len(down') \/ j < Len(down'))
  BY <1>2
<1>4. /\ msg.block \in Nat /\ sv.top \in [Files -> Nat] /\ sv'.top \in [Files -> Nat]
      /\ \A i \in 1 .. Len(down) : down[i].block \in Nat
  <2>1. \A i \in 1 .. Len(down) : down[i] \in Message
    BY DEF Base, Types
  <2>. QED
    BY <2>1, MessageIs, TypesGive DEF Base, Server
<1>5. /\ sv'.top[f] >= msg.block + 1 /\ \A g \in Files : sv'.top[g] >= sv.top[g]
  BY <1>4 DEF TopsUp, AtLeast
<1>6. Ordered'
  <2>. SUFFICES ASSUME NEW i \in 1 .. Len(down'), NEW j \in 1 .. Len(down'), i < j,
                       Data(down'[i]), Data(down'[j]), down'[i].data.file = down'[j].data.file
                PROVE  down'[j].again \/ down'[j].block > down'[i].block
    BY DEF Ordered, Data
  <2>1. i + d \in 1 .. Len(down) /\ down'[i] = down[i + d]
    BY <1>1, <1>3
  <2>2. CASE j = Len(down')
    <3>1. down[i + d].block < sv.top[f]
      BY <1>2, <2>1, <2>2 DEF Base, Sendable
    <3>. QED
      BY <1>2, <1>4, <2>1, <2>2, <3>1
  <2>3. CASE j < Len(down')
    BY <1>1, <1>3, <2>1, <2>3 DEF Base, Ordered
  <2>. QED
    BY <1>3, <2>2, <2>3
<1>7. \A i \in 1 .. Len(down') : i = Len(down') \/ i < Len(down')
  BY <1>2
<1>8. Sendable'
  <2>. SUFFICES ASSUME NEW i \in 1 .. Len(down'), Data(down'[i])
                PROVE  /\ down'[i].data.file \in Files
                       /\ down'[i].block < sv'.top[down'[i].data.file]
                       /\ (down'[i].kind = "redirect" => down'[i].block = 0)
    BY DEF Sendable, Data
  <2>1. CASE i = Len(down')
    BY <1>2, <1>4, <1>5, <2>1
  <2>2. CASE i < Len(down')
    <3>1. i + d \in 1 .. Len(down) /\ down'[i] = down[i + d]
      BY <1>1, <2>2
    <3>2. PICK g \in Files : g = down[i + d].data.file
      BY <3>1, Zenon DEF Base, Sendable
    <3>3. down[i + d].block < sv.top[g] /\ (down[i + d].kind = "redirect" => down[i + d].block = 0)
      BY <3>1, <3>2 DEF Base, Sendable
    <3>4. down[i + d].block < sv'.top[g]
      BY <1>4, <1>5, <3>1, <3>3
    <3>. QED
      BY <3>1, <3>2, <3>3, <3>4
  <2>. QED
    BY <1>7, <2>1, <2>2
<1>. QED
  BY <1>6, <1>8

LEMMA GrowsIs ==
  ASSUME up \in Seq(Batch), Batches, Grows
  PROVE  /\ up' \in Seq(Batch) /\ Batches'
         /\ \A i \in 1 .. Len(up') : \/ i \in 1 .. Len(up) /\ up'[i] = up[i]
                                     \/ up'[i].serverId = cl'.serverId
<1>0. Len(up) \in Nat
  OBVIOUS
<1>1. CASE up' = up
  BY <1>1 DEF Batches
<1>2. CASE \E b : IsBatch(b) /\ Adds(b)
  <2>1. PICK b : IsBatch(b) /\ Adds(b)
    BY <1>2
  <2>2. \A i \in 1 .. Len(up') : i \in 1 .. Len(up) \/ i = Len(up')
    BY <1>0, <2>1 DEF Adds
  <2>. QED
    BY <2>1, <2>2 DEF Adds, Batches
<1>3. CASE \E b, c : IsBatch(b) /\ IsBatch(c) /\ AddsBoth(b, c)
  <2>1. PICK b, c : IsBatch(b) /\ IsBatch(c) /\ AddsBoth(b, c)
    BY <1>3
  <2>2. \A i \in 1 .. Len(up') : i \in 1 .. Len(up) \/ i = Len(up') \/ i = Len(up) + 1
    BY <1>0, <2>1 DEF AddsBoth
  <2>. QED
    BY <2>1, <2>2 DEF AddsBoth, Batches
<1>. QED
  BY <1>1, <1>2, <1>3 DEF Grows

LEMMA TakesIs ==
  ASSUME up \in Seq(Batch), Batches, Takes
  PROVE  /\ up' \in Seq(Batch) /\ Batches' /\ IsBatch(up[1].commands)
         /\ \A i \in 1 .. Len(up') : i + 1 \in 1 .. Len(up) /\ up'[i] = up[i + 1]
<1>1. Len(up) \in Nat /\ Len(up) > 0 /\ Len(up') = Len(up) - 1 /\ up' \in Seq(Batch)
  BY DEF Takes
<1>2. \A i \in 1 .. Len(up') : i + 1 \in 1 .. Len(up) /\ up'[i] = up[i + 1]
  BY <1>1 DEF Takes
<1>. QED
  BY <1>1, <1>2 DEF Batches

(* The client's steps. *)
LEMMA ClientKeeps ==
  ASSUME Base, sv' = sv, serverId' = serverId, bDlOK' = bDlOK, NEW d, Loses(d),
         cl' \in Client, have' \subseteq Files, mixed' \in {"no", "first", "again"}, Grows,
         \/ cl'.serverId = cl.serverId
         \/ d = 1 /\ Len(down) > 0 /\ cl'.serverId = down[1].serverId,
         Restarts'
  PROVE  Base'
<1>1. down \in Seq(Message) /\ up \in Seq(Batch) /\ Len(down) \in Nat /\ Len(down) <= MaxInFlight
  BY DEF Base, Types
<1>2. /\ down' \in Seq(Message) /\ d \in 0 .. Len(down) /\ Len(down') = Len(down) - d
      /\ \A i \in 1 .. Len(down') : i + d \in 1 .. Len(down) /\ down'[i] = down[i + d]
  <2>1. down' \in Seq(Message) /\ d \in 0 .. Len(down) /\ Len(down') = Len(down) - d
    BY DEF Loses
  <2>2. \A i \in 1 .. Len(down') : i + d \in 1 .. Len(down) /\ down'[i] = down[i + d]
    BY <1>1, <2>1 DEF Loses
  <2>. QED
    BY <2>1, <2>2
<1>3. /\ up' \in Seq(Batch) /\ Batches'
      /\ \A i \in 1 .. Len(up') : \/ i \in 1 .. Len(up) /\ up'[i] = up[i]
                                  \/ up'[i].serverId = cl'.serverId
  BY <1>1, GrowsIs DEF Base
<1>4. Ordered' /\ Sendable'
  BY LostKeeps
<1>5. Types'
  <2>1. Len(down') <= MaxInFlight
    BY <1>1, <1>2, FilesAre
  <2>. QED
    BY <1>2, <1>3, <2>1 DEF Base, Types
<1>6. Stamps'
  <2>0. cl.serverId \in Nat /\ cl'.serverId \in Nat /\ serverId \in Nat
    BY TypesGive DEF Base, Client
  <2>1. cl'.serverId >= cl.serverId /\ cl'.serverId <= serverId
    BY <1>1, <2>0 DEF Base, Stamps
  <2>2. /\ \A i \in 1 .. Len(down') : /\ down'[i].serverId >= 1 /\ down'[i].serverId <= serverId
        /\ \A i, j \in 1 .. Len(down') : i < j => down'[i].serverId <= down'[j].serverId
    <3>1. \A i, j \in 1 .. Len(down') : i < j => i + d < j + d
      BY <1>1, <1>2
    <3>. QED
      BY <1>2, <3>1 DEF Base, Stamps
  <2>3. \A i \in 1 .. Len(down') : down'[i].serverId >= cl'.serverId
    <3>1. CASE cl'.serverId = cl.serverId
      BY <1>2, <3>1 DEF Base, Stamps
    <3>2. CASE d = 1 /\ Len(down) > 0 /\ cl'.serverId = down[1].serverId
      <4>1. \A i \in 1 .. Len(down') : 1 < i + d /\ 1 \in 1 .. Len(down)
        BY <1>1, <1>2, <3>2
      <4>2. \A i \in 1 .. Len(down) : down[i].serverId \in Nat
        <5>1. \A i \in 1 .. Len(down) : down[i] \in Message
          BY <1>1
        <5>. QED
          BY <5>1, MessageIs
      <4>. QED
        BY <1>2, <3>2, <4>1, <4>2 DEF Base, Stamps
    <3>. QED
      BY <3>1, <3>2
  <2>4. \A i \in 1 .. Len(up') : up'[i].serverId <= cl'.serverId
    <3>. TAKE i \in 1 .. Len(up')
    <3>1. CASE i \in 1 .. Len(up) /\ up'[i] = up[i]
      <4>1. up[i] \in Batch
        BY <1>1, <3>1
      <4>2. up[i].serverId \in Nat
        BY <4>1 DEF Batch
      <4>. QED
        BY <2>0, <2>1, <3>1, <4>2 DEF Base, Stamps
    <3>2. CASE up'[i].serverId = cl'.serverId
      BY <2>0, <3>2
    <3>. QED
      BY <1>3, <3>1, <3>2
  <2>. QED
    BY <2>1, <2>2, <2>3, <2>4 DEF Stamps
<1>7. Tops' /\ Window' /\ ~sv'.gamestate
  BY DEF Base, Tops, Window
<1>. QED
  BY <1>3, <1>4, <1>5, <1>6, <1>7 DEF Base

(* The server's. *)
LEMMA ServerKeeps ==
  ASSUME Base, bDlOK' = bDlOK, cl' = cl, have' = have, mixed' = mixed,
         serverId' \in 1 .. MaxLevels, serverId' >= serverId,
         sv' \in Server, ~sv'.gamestate, Window', Tops', up' = up \/ Takes,
         Ordered', Sendable',
         \/ down' = down
         \/ \E msg \in Message : Posts(msg) /\ msg.serverId = serverId'
  PROVE  Base'
<1>0. /\ down \in Seq(Message) /\ up \in Seq(Batch) /\ Len(down) \in Nat /\ Len(down) <= MaxInFlight
      /\ serverId \in Nat /\ serverId' \in Nat /\ cl.serverId \in Nat /\ serverId >= 1
  <2>1. /\ down \in Seq(Message) /\ up \in Seq(Batch) /\ Len(down) \in Nat /\ Len(down) <= MaxInFlight
    BY DEF Base, Types
  <2>2. serverId \in Nat /\ cl.serverId \in Nat /\ serverId >= 1
    BY TypesGive DEF Base
  <2>. QED
    BY <2>1, <2>2
<1>1. down' \in Seq(Message) /\ Len(down') <= MaxInFlight
  <2>1. CASE down' = down
    BY <1>0, <2>1
  <2>2. CASE \E msg \in Message : Posts(msg) /\ msg.serverId = serverId'
    BY <2>2 DEF Posts
  <2>. QED
    BY <2>1, <2>2
<1>2. up' \in Seq(Batch) /\ Batches' /\ \A i \in 1 .. Len(up') : up'[i].serverId <= cl.serverId
  <2>1. CASE up' = up
    BY <1>0, <2>1 DEF Base, Batches, Stamps
  <2>2. CASE Takes
    BY <1>0, <2>2, TakesIs DEF Base, Stamps
  <2>. QED
    BY <2>1, <2>2
<1>3. Types'
  BY <1>1, <1>2 DEF Base, Types
<1>4. Restarts'
  BY DEF Base, Restarts, Connected, F
<1>5. Stamps'
  <2>1. cl.serverId <= serverId'
    BY <1>0 DEF Base, Stamps
  <2>2. CASE down' = down
    <3>1. \A i \in 1 .. Len(down) : down[i].serverId \in Nat
      <4>1. \A i \in 1 .. Len(down) : down[i] \in Message
        BY <1>0
      <4>. QED
        BY <4>1, MessageIs
    <3>2. \A i \in 1 .. Len(down) : down[i].serverId <= serverId'
      BY <1>0, <3>1 DEF Base, Stamps
    <3>. QED
      BY <1>2, <2>1, <2>2, <3>2 DEF Base, Stamps
  <2>3. CASE \E msg \in Message : Posts(msg) /\ msg.serverId = serverId'
    <3>1. PICK msg \in Message : Posts(msg) /\ msg.serverId = serverId'
      BY <2>3
    <3>2. PICK d \in 0 .. 1 :
            \A i \in 1 .. Len(down') : i < Len(down') => i + d \in 1 .. Len(down) /\ down'[i] = down[i + d]
      BY <1>0, <3>1, PostedIs
    <3>3. Len(down') \in Nat /\ Len(down') >= 1 /\ down'[Len(down')] = msg
      BY <1>0, <3>1, PostedIs
    <3>4. \A i \in 1 .. Len(down) : down[i].serverId \in Nat
      <4>1. \A i \in 1 .. Len(down) : down[i] \in Message
        BY <1>0
      <4>. QED
        BY <4>1, MessageIs
    <3>5. \A i \in 1 .. Len(down') : /\ down'[i].serverId >= cl.serverId /\ down'[i].serverId >= 1
                                     /\ down'[i].serverId <= serverId'
      <4>. TAKE i \in 1 .. Len(down')
      <4>1. CASE i < Len(down')
        <5>1. i + d \in 1 .. Len(down) /\ down'[i] = down[i + d]
          BY <3>2, <4>1
        <5>2. down[i + d].serverId \in Nat /\ down[i + d].serverId >= cl.serverId
              /\ down[i + d].serverId >= 1 /\ down[i + d].serverId <= serverId
          BY <3>4, <5>1 DEF Base, Stamps
        <5>. QED
          BY <1>0, <5>1, <5>2
      <4>2. CASE i = Len(down')
        BY <1>0, <2>1, <3>1, <3>3, <4>2
      <4>. QED
        BY <3>3, <4>1, <4>2
    <3>6. \A i, j \in 1 .. Len(down') : i < j => down'[i].serverId <= down'[j].serverId
      <4>. TAKE i, j \in 1 .. Len(down')
      <4>. HAVE i < j
      <4>0. i < Len(down')
        BY <3>3
      <4>1. CASE j < Len(down')
        <5>1. /\ i + d \in 1 .. Len(down) /\ down'[i] = down[i + d]
              /\ j + d \in 1 .. Len(down) /\ down'[j] = down[j + d] /\ i + d < j + d
          BY <3>2, <4>0, <4>1
        <5>. QED
          BY <5>1 DEF Base, Stamps
      <4>2. CASE j = Len(down')
        BY <3>1, <3>3, <3>5, <4>2
      <4>. QED
        BY <3>3, <4>1, <4>2
    <3>. QED
      BY <1>2, <2>1, <3>5, <3>6 DEF Stamps
  <2>. QED
    BY <2>2, <2>3
<1>. QED
  BY <1>2, <1>3, <1>4, <1>5 DEF Base

-----------------------------------------------------------------------------
(* It holds at first, and every step keeps it. *)

LEMMA BaseInit == Init => Base
<1>. SUFFICES ASSUME Init PROVE Base
  OBVIOUS
<1>1. /\ sv = NewServer /\ serverId = 1 /\ bDlOK \in BOOLEAN /\ cl = NewClient
      /\ have \in Held /\ mixed = "no" /\ down = <<>> /\ up = <<>>
  BY DEF Init
<1>2. /\ MaxLevels \in Nat \ {0} /\ MaxInFlight \in Nat /\ 0 \in Counter /\ Held \subseteq SUBSET Files
  BY DownloadAssumption, CounterIs DEF DownloadAssumption, Files
<1>3. sv \in Server /\ ~sv.gamestate /\ ~sv.download
  <2>1. PICK b : b = [k \in Slots |-> [file |-> None, part |-> 0]]
    OBVIOUS
  <2>2. b \in [Slots -> Part]
    BY <2>1 DEF Part
  <2>3. PICK t : t = [f \in Files |-> 0]
    OBVIOUS
  <2>4. t \in [Files -> Nat]
    BY <2>3
  <2>5. sv = [state |-> "connected", downloadName |-> None, download |-> FALSE, bWWWDl |-> FALSE,
              bWWWing |-> FALSE, bFallback |-> FALSE, downloadCurrentBlock |-> 0,
              downloadClientBlock |-> 0, downloadXmitBlock |-> 0, downloadEOF |-> FALSE,
              downloadBlocks |-> b, quiet |-> FALSE, top |-> t, lastCommand |-> "", gamestate |-> FALSE]
    BY <1>1, <2>1, <2>3 DEF NewServer
  <2>. QED
    BY <1>2, <2>2, <2>4, <2>5 DEF Server
<1>4. cl \in Client /\ F = None /\ cl.serverId = 0
  <2>1. PICK w \in Seq(Part) : w = <<>>
    BY EmptyIs
  <2>2. cl = [mode |-> "connected", downloadName |-> None, downloadList |-> {},
              downloadRestart |-> FALSE, downloadBlock |-> 0, download |-> None, written |-> w,
              bWWWDl |-> FALSE, bWWWDlAborting |-> FALSE, url |-> None, serverId |-> 0]
    BY <1>1, <2>1 DEF NewClient
  <2>. QED
    BY <2>2 DEF Client, F
<1>5. Len(down) = 0 /\ Len(up) = 0 /\ down \in Seq(Message) /\ up \in Seq(Batch)
  BY <1>1
<1>6. Types
  BY <1>1, <1>2, <1>3, <1>4, <1>5 DEF Types
<1>7. Ordered /\ Sendable /\ Batches /\ Restarts /\ Window
  BY <1>3, <1>4, <1>5 DEF Ordered, Sendable, Batches, Restarts, Window
<1>8. Tops
  <2>1. sv.top = [f \in Files |-> 0]
    BY <1>1 DEF NewServer
  <2>. QED
    BY <2>1 DEF Tops
<1>9. Stamps
  BY <1>1, <1>4, <1>5 DEF Stamps
<1>. QED
  BY <1>3, <1>6, <1>7, <1>8, <1>9 DEF Base

LEMMA ReadsGive ==
  ASSUME Base, NEW kind, Reads(kind)
  PROVE  /\ sv' = sv /\ serverId' = serverId /\ bDlOK' = bDlOK /\ Loses(1) /\ Len(down) > 0
         /\ have \subseteq Files /\ cl \in Client /\ mixed \in {"no", "first", "again"}
  BY DEF Base, Types, Reads

LEMMA OffLineGives ==
  ASSUME Base, OffLine
  PROVE  /\ sv' = sv /\ serverId' = serverId /\ bDlOK' = bDlOK /\ Loses(0) /\ mixed' = mixed
         /\ have \subseteq Files /\ cl \in Client /\ mixed \in {"no", "first", "again"}
  BY LosesNone DEF Base, Types, OffLine

LEMMA AskedRestarts ==
  ASSUME NEW f, Asked(f) PROVE Restarts' /\ cl' \in Client
  BY DEF Asked, Restarts, F, Client

LEMMA MixesIs ==
  ASSUME Base, NEW m PROVE Mixes(m) \in {"no", "first", "again"}
  BY DEF Base, Types, Mixes

LEMMA BaseReceive ==
  ASSUME Base, Receive
  PROVE  Base'
<1>0. Types /\ Restarts
  BY DEF Base
<1>1. CASE ReceiveGamestate
  <2>1. /\ Reads("gamestate") /\ have' = have /\ mixed' = mixed
        /\ cl' \in Client /\ cl'.serverId = down[1].serverId
        /\ \/ cl'.mode = "loading" /\ up' = up
           \/ Asked(F') /\ F' \in Files /\ Adds(AskFor(F'))
    BY <1>0, <1>1, GamestateIsRead
  <2>2. Restarts'
    BY <2>1, AskedRestarts DEF Restarts, Connected
  <2>3. Grows
    BY <2>1, BatchIs DEF Grows
  <2>. QED
    BY <2>1, <2>2, <2>3, ReadsGive, ClientKeeps
<1>2. CASE ReceiveUnrequested
  <2>1. /\ \E kind \in {"block", "bad", "redirect"} : Reads(kind)
        /\ have' = have /\ mixed' = mixed
        /\ cl' \in Client /\ cl'.mode = "garbled" /\ cl'.serverId = cl.serverId
        /\ Adds(Stop)
    BY <1>0, <1>2, UnrequestedIsRead
  <2>2. Restarts'
    BY <2>1 DEF Restarts, Connected
  <2>3. Grows
    BY <2>1, BatchIs DEF Grows
  <2>. QED
    BY <2>1, <2>2, <2>3, ReadsGive, ClientKeeps
<1>3. CASE ReceiveBad
  <2>1. /\ Reads("bad") /\ have' = have /\ mixed' = mixed /\ up' = up
        /\ cl' \in Client /\ cl'.mode = "dropped" /\ cl'.serverId = cl.serverId
    BY <1>0, <1>3, BadIsRead
  <2>2. Restarts' /\ Grows
    BY <2>1 DEF Restarts, Connected, Grows
  <2>. QED
    BY <2>1, <2>2, ReadsGive, ClientKeeps
<1>4. ASSUME NEW begins \in BOOLEAN, ReceiveRedirect(begins) PROVE Base'
  <2>1. /\ Reads("redirect") /\ have' = have /\ F # None
        /\ \/ cl.bWWWDl /\ cl' = cl /\ up' = up /\ mixed' = mixed
           \/ /\ cl' \in Client /\ F' = F /\ cl'.mode = cl.mode /\ cl'.serverId = cl.serverId
              /\ cl'.downloadRestart = cl.downloadRestart /\ cl'.downloadList = cl.downloadList
              /\ mixed' = Mixes(down[1]) /\ Adds(Answer(begins))
    BY <1>0, <1>4, RedirectIsRead
  <2>2. Restarts'
    BY <1>0, <2>1 DEF Restarts, Connected, F
  <2>3. Grows
    BY <2>1, BatchIs DEF Grows, Answer
  <2>4. cl' \in Client /\ mixed' \in {"no", "first", "again"} /\ cl'.serverId = cl.serverId
    BY <2>1, ReadsGive, MixesIs
  <2>. QED
    BY <2>1, <2>2, <2>3, <2>4, ReadsGive, ClientKeeps
<1>5. CASE ReceiveOther
  <2>1. Reads("block") /\ cl' = cl /\ have' = have /\ mixed' = mixed /\ up' = up
    BY <1>0, <1>5, OtherIsRead
  <2>2. Restarts' /\ Grows
    BY <1>0, <2>1 DEF Restarts, Connected, F, Grows
  <2>. QED
    BY <2>1, <2>2, ReadsGive, ClientKeeps
<1>6. CASE ReceiveUnwritable
  <2>1. Taken /\ have' = have /\ cl'.serverId = cl.serverId
    BY <1>0, <1>6, UnwritableIsRead
  <2>2. PICK f \in {None} \cup Files : Asked(f) /\ Adds(StopAsk(f))
    BY <1>0, <1>6, UnwritableIsRead
  <2>3. Restarts' /\ Grows /\ cl' \in Client
    BY <2>2, AskedRestarts, BatchIs DEF Grows
  <2>4. mixed' \in {"no", "first", "again"} /\ Reads("block")
    BY <2>1, MixesIs DEF Taken
  <2>. QED
    BY <2>1, <2>3, <2>4, ReadsGive, ClientKeeps
<1>7. CASE ReceiveBlock
  <2>1. /\ Taken /\ have' = have
        /\ cl' \in Client /\ cl'.mode = cl.mode /\ F' = F /\ N \in Nat
        /\ cl'.serverId = cl.serverId /\ cl'.downloadRestart = cl.downloadRestart
        /\ cl'.downloadList = cl.downloadList
        /\ Adds(NextdlOf(N))
    BY <1>0, <1>7, BlockIsRead
  <2>2. Restarts'
    BY <1>0, <2>1 DEF Restarts, Connected, F
  <2>3. Grows
    BY <2>1, BatchIs DEF Grows
  <2>4. mixed' \in {"no", "first", "again"} /\ Reads("block")
    BY <2>1, MixesIs DEF Taken
  <2>. QED
    BY <2>1, <2>2, <2>3, <2>4, ReadsGive, ClientKeeps
<1>8. CASE ReceiveEOF
  <2>1. /\ Taken /\ N \in Nat /\ cl'.serverId = cl.serverId
        /\ have' = IF Handle = F /\ cl.written = Contents(F) THEN have \cup {F} ELSE have
    BY <1>0, <1>8, EOFIsRead
  <2>2. PICK f \in {None} \cup Files : Asked(f) /\ AddsBoth(NextdlOf(N), AskFor(f))
    BY <1>0, <1>8, EOFIsRead
  <2>3. Restarts' /\ Grows /\ cl' \in Client
    BY <2>1, <2>2, AskedRestarts, BatchIs DEF Grows
  <2>4. mixed' \in {"no", "first", "again"} /\ Reads("block") /\ F \in Files
    BY <1>0, <2>1, MixesIs, TypesGive DEF Taken
  <2>5. have' \subseteq Files
    BY <2>1, <2>4, ReadsGive
  <2>. QED
    BY <2>1, <2>3, <2>4, <2>5, ReadsGive, ClientKeeps
<1>. QED
  BY <1>1, <1>2, <1>3, <1>4, <1>5, <1>6, <1>7, <1>8 DEF Receive

(* The buffers are as they were, and nothing was opened. *)
LEMMA WindowKept ==
  ASSUME Base, Kept(sv, sv'), sv'.downloadClientBlock = sv.downloadClientBlock,
         sv'.download => sv.download /\ sv'.downloadName = sv.downloadName
  PROVE  Window' /\ Tops'
  BY DEF Base, Window, Tops, Kept

LEMMA UntouchedKeeps ==
  ASSUME Base, Untouched
  PROVE  Kept(sv, sv') /\ ~sv'.gamestate /\ sv' \in Server /\ Window' /\ Tops' /\ sv'.top = sv.top
<1>1. Kept(sv, sv') /\ ~sv'.gamestate /\ sv' \in Server
  BY DEF Untouched, Kept, Base
<1>. QED
  BY <1>1, WindowKept DEF Untouched, Kept

(* A gamestate is sent, or nothing. *)
LEMMA SaysNothing ==
  ASSUME Base, Stays, sv' \in Server, ~sv'.gamestate, Window', Tops', sv'.top = sv.top,
         up' = up \/ Takes, down' = down \/ down' = Sent(Gamestate)
  PROVE  Base'
<1>1. down \in Seq(Message) /\ Len(down) <= MaxInFlight /\ serverId \in Nat /\ serverId \in 1 .. MaxLevels
  BY TypesGive DEF Base, Types
<1>2. CASE down' = down
  <2>1. Loses(0)
    BY <1>1, <1>2, LosesNone
  <2>2. Ordered' /\ Sendable'
    BY <2>1, LostKeeps
  <2>. QED
    BY <1>1, <1>2, <2>2, ServerKeeps DEF Stays
<1>3. CASE down' = Sent(Gamestate)
  <2>1. Gamestate \in Message /\ Gamestate.kind = "gamestate" /\ Gamestate.serverId = serverId
    BY <1>1, GamestateIs
  <2>2. Posts(Gamestate) /\ ~Data(Gamestate)
    BY <1>1, <1>3, <2>1, SentIs DEF Data
  <2>3. Ordered' /\ Sendable'
    BY <2>2, PostedKeeps
  <2>4. \E msg \in Message : Posts(msg) /\ msg.serverId = serverId'
    BY <2>1, <2>2 DEF Stays
  <2>. QED
    BY <1>1, <2>3, <2>4, ServerKeeps DEF Stays
<1>. QED
  BY <1>2, <1>3

(* A batch but "nextdl". *)
LEMMA FrameKeeps ==
  ASSUME Base, Frame, sv'.download => sv.download /\ sv'.downloadName = sv.downloadName
  PROVE  sv' \in Server /\ ~sv'.gamestate /\ Window' /\ Tops' /\ sv'.top = sv.top
  BY WindowKept DEF Frame, Kept

LEMMA NextdlKeeps ==
  ASSUME Base, NEW level, ExecuteBatch(level), NEW n \in Nat, Executing(NextdlOf(n))
  PROVE  /\ sv' \in Server /\ ~sv'.gamestate /\ Window' /\ Tops' /\ sv'.top = sv.top /\ down' = down
<1>1. /\ sv' \in Server /\ Kept(sv, sv') /\ ~sv'.gamestate /\ down' = down
      /\ \/ /\ n # sv.downloadClientBlock /\ Closed(sv') /\ sv'.state = "zombie"
            /\ sv'.downloadClientBlock = sv.downloadClientBlock
         \/ /\ n = sv.downloadClientBlock /\ Closed(sv') /\ sv'.state = sv.state
            /\ sv'.downloadClientBlock = sv.downloadClientBlock
            /\ sv.downloadBlocks[Slot(n)].part = 0
         \/ /\ n = sv.downloadClientBlock /\ sv'.state = sv.state
            /\ sv'.downloadClientBlock = n + 1
            /\ sv'.downloadName = sv.downloadName /\ sv'.download = sv.download
            /\ sv.downloadBlocks[Slot(n)].part # 0
  BY ExecutesNextdl
<1>2. CASE Closed(sv') /\ sv'.downloadClientBlock = sv.downloadClientBlock
  BY <1>1, <1>2, WindowKept DEF Closed, Kept
<1>3. CASE /\ n = sv.downloadClientBlock /\ sv'.downloadClientBlock = n + 1
           /\ sv'.downloadName = sv.downloadName /\ sv'.download = sv.download
           /\ sv.downloadBlocks[Slot(n)].part # 0
  <2>1. Tops' /\ sv'.top = sv.top
    BY <1>1 DEF Base, Tops, Kept
  <2>2. Window'
    <3>1. CASE ~sv.download
      BY <1>3, <3>1 DEF Window
    <3>2. CASE sv.download
      <4>1. PICK f : f = sv.downloadName
        OBVIOUS
      <4>2. /\ f \in Files /\ Blocks[f] > 0 /\ sv.downloadCurrentBlock <= Blocks[f] + 1
            /\ \A k \in Slots : k < sv.downloadCurrentBlock => sv.downloadBlocks[k].file = f
            /\ \/ sv.downloadCurrentBlock >= W
               \/ /\ sv.downloadCurrentBlock < W
                  /\ sv.downloadCurrentBlock = Blocks[f] + 1 /\ n <= Blocks[f]
                  /\ sv.downloadXmitBlock <= sv.downloadCurrentBlock
                  /\ \A k \in Slots : k <= Blocks[f] => sv.downloadBlocks[k] = BlockOf(f, k)
        <5>1. sv.downloadCurrentBlock \in Nat /\ W \in Nat
          BY TypesGive, FilesAre DEF Base, W
        <5>. QED
          BY <1>3, <3>2, <4>1, <5>1 DEF Base, Window
      <4>3. \/ sv.downloadCurrentBlock >= W
            \/ /\ sv.downloadCurrentBlock = Blocks[f] + 1 /\ n + 1 <= Blocks[f]
               /\ sv.downloadXmitBlock <= sv.downloadCurrentBlock
               /\ \A k \in Slots : k <= Blocks[f] => sv.downloadBlocks[k] = BlockOf(f, k)
        <5>. SUFFICES ASSUME /\ sv.downloadCurrentBlock < W
                             /\ sv.downloadCurrentBlock = Blocks[f] + 1 /\ n <= Blocks[f]
                             /\ \A k \in Slots : k <= Blocks[f] => sv.downloadBlocks[k] = BlockOf(f, k)
                      PROVE  n + 1 <= Blocks[f]
          BY <4>2
        <5>1. Blocks[f] \in Nat /\ W \in Nat
          BY <4>2, FilesAre DEF W
        <5>2. n \in Slots
          BY <5>1 DEF Slots, W
        <5>3. Slot(n) = n
          BY <5>2, SlotIs
        <5>4. BlockOf(f, n).part # 0
          BY <1>3, <5>2, <5>3
        <5>5. ~(n >= Blocks[f])
          BY <4>2, <5>4, BlockOfIs
        <5>. QED
          BY <5>1, <5>5
      <4>. QED
        BY <1>1, <1>3, <4>1, <4>2, <4>3 DEF Window, Kept
    <3>. QED
      BY <3>1, <3>2
  <2>. QED
    BY <1>1, <2>1, <2>2
<1>. QED
  BY <1>1, <1>2, <1>3

LEMMA BatchKeeps ==
  ASSUME Base, NEW level, ExecuteBatch(level), NEW b, IsBatch(b), Executing(b)
  PROVE  /\ sv' \in Server /\ ~sv'.gamestate /\ Window' /\ Tops' /\ sv'.top = sv.top
         /\ down' = down \/ down' = Sent(Gamestate)
<1>0. None \notin Files
  BY FilesAre
<1>1. ASSUME NEW n \in Nat, b = NextdlOf(n)
      PROVE  /\ sv' \in Server /\ ~sv'.gamestate /\ Window' /\ Tops' /\ sv'.top = sv.top
             /\ down' = down \/ down' = Sent(Gamestate)
  BY <1>1, NextdlKeeps
<1>2. ASSUME NEW f \in {None} \cup Files, b = AskFor(f)
      PROVE  /\ sv' \in Server /\ ~sv'.gamestate /\ Window' /\ Tops' /\ sv'.top = sv.top
             /\ down' = down \/ down' = Sent(Gamestate)
  <2>1. /\ Frame /\ Granted(f)
        /\ f = None => sv'.downloadName = sv.downloadName /\ sv'.download = sv.download
    BY <1>2, ExecutesAsk
  <2>. QED
    BY <2>1, FrameKeeps DEF Granted
<1>3. ASSUME NEW f \in {None} \cup Files, b = StopAsk(f)
      PROVE  /\ sv' \in Server /\ ~sv'.gamestate /\ Window' /\ Tops' /\ sv'.top = sv.top
             /\ down' = down \/ down' = Sent(Gamestate)
  <2>1. Frame /\ Granted(f) /\ (f = None => Closed(sv'))
    BY <1>3, ExecutesStopAsk
  <2>. QED
    BY <2>1, FrameKeeps DEF Granted, Closed
<1>4. ASSUME NEW f \in {None} \cup Files, b = DoneAsk(f)
      PROVE  /\ sv' \in Server /\ ~sv'.gamestate /\ Window' /\ Tops' /\ sv'.top = sv.top
             /\ down' = down \/ down' = Sent(Gamestate)
  <2>1. /\ Frame
        /\ \/ /\ ~(sv.bWWWDl /\ sv.bWWWing) /\ sv'.state = "zombie" /\ Closed(sv')
              /\ sv'.bFallback = sv.bFallback /\ down' = down
           \/ /\ sv.bWWWDl /\ sv.bWWWing /\ Granted(f)
              /\ (f = None => Closed(sv')) /\ ~sv'.bWWWing
    BY <1>4, ExecutesDoneAsk
  <2>. QED
    BY <2>1, FrameKeeps DEF Granted, Closed
<1>5. CASE b = Ack
  <2>1. /\ Frame /\ down' = down
        /\ \/ ~sv.bWWWDl /\ Closed(sv') /\ sv'.state = "zombie"
           \/ /\ sv.bWWWDl /\ sv'.bWWWing /\ sv'.state = sv.state
              /\ sv'.downloadName = sv.downloadName /\ sv'.download = sv.download
    BY <1>5, ExecutesAck
  <2>. QED
    BY <2>1, FrameKeeps DEF Closed
<1>6. CASE b = Fail
  BY <1>6, ExecutesFail, FrameKeeps DEF Closed, GaveUp
<1>7. CASE b = AckFail
  BY <1>7, ExecutesAckFail, FrameKeeps DEF Closed, GaveUp
<1>8. CASE b = Stop
  BY <1>8, ExecutesStop, FrameKeeps DEF Closed
<1>9. CASE b = Done
  BY <1>9, ExecutesDone, FrameKeeps DEF Closed
<1>. QED
  BY <1>1, <1>2, <1>3, <1>4, <1>5, <1>6, <1>7, <1>8, <1>9 DEF IsBatch

(* A block is sent from the window. *)
LEMMA WindowSends ==
  ASSUME Base, NEW f, f = sv.downloadName, NEW c \in Nat, NEW k \in Nat, NEW x \in Nat,
         NEW b \in Nat, Sends(f, c, k, x, b)
  PROVE  Window'
<1>1. /\ f \in Files /\ Blocks[f] \in Nat /\ Blocks[f] > 0 /\ W \in Nat /\ W > 0
      /\ sv'.download /\ sv'.downloadName = f /\ sv'.downloadClientBlock = k
      /\ sv'.downloadXmitBlock = b + 1
  BY FilesAre DEF Sends, Writing, W
<1>2. PICK e \in Nat : e = sv'.downloadCurrentBlock
  BY CounterIs DEF Sends, Writing, Server
<1>3. /\ e = AtLeast(c, AtMost(k + W, Blocks[f] + 1)) /\ b = (IF x = e THEN k ELSE x) /\ k # e
      /\ Fills(f, c, e)
  BY <1>2 DEF Sends
<1>4. CASE sv.download
  <2>1. c = sv.downloadCurrentBlock /\ k = sv.downloadClientBlock /\ x = sv.downloadXmitBlock
    BY <1>4 DEF Sends, Starts
  <2>2. /\ c <= Blocks[f] + 1
        /\ \A s \in Slots : s < c => sv.downloadBlocks[s].file = f
        /\ \/ c >= W
           \/ /\ c = Blocks[f] + 1 /\ k <= Blocks[f] /\ x <= c
              /\ \A s \in Slots : s <= Blocks[f] => sv.downloadBlocks[s] = BlockOf(f, s)
    BY <1>4, <2>1 DEF Base, Window
  <2>3. e <= Blocks[f] + 1 /\ e >= c
    BY <1>1, <1>3, <2>2 DEF AtLeast, AtMost
  <2>4. \A s \in Slots : s < e => sv'.downloadBlocks[s].file = f
    <3>. SUFFICES ASSUME NEW s \in Slots, s < e PROVE sv'.downloadBlocks[s].file = f
      OBVIOUS
    <3>1. s \in Nat
      BY SlotIs
    <3>2. CASE s < c
      BY <1>3, <2>2, <3>2 DEF Fills
    <3>3. CASE c <= s
      BY <1>3, <3>3 DEF Fills
    <3>. QED
      BY <3>1, <3>2, <3>3
  <2>5. CASE c >= W
    <3>1. e >= W
      BY <1>1, <2>3, <2>5
    <3>. QED
      BY <1>1, <1>2, <2>3, <2>4, <3>1 DEF Window
  <2>6. CASE /\ c = Blocks[f] + 1 /\ k <= Blocks[f] /\ x <= c
             /\ \A s \in Slots : s <= Blocks[f] => sv.downloadBlocks[s] = BlockOf(f, s)
    <3>1. e = c /\ b + 1 <= e
      BY <1>1, <1>3, <2>3, <2>6
    <3>2. \A s \in Slots : sv'.downloadBlocks[s] = sv.downloadBlocks[s]
      BY <1>3, <3>1 DEF Fills
    <3>. QED
      BY <1>1, <1>2, <2>3, <2>4, <2>6, <3>1, <3>2 DEF Window
  <2>. QED
    BY <2>2, <2>5, <2>6
<1>5. CASE ~sv.download
  <2>1. c = 0 /\ k = 0 /\ x = 0
    BY <1>5 DEF Sends, Starts
  <2>2. e = AtMost(W, Blocks[f] + 1) /\ e > 0 /\ b = 0
    BY <1>1, <1>3, <2>1 DEF AtLeast, AtMost
  <2>3. \A s \in Slots : s < e => sv'.downloadBlocks[s].file = f
    BY <1>3, <2>1, SlotIs DEF Fills
  <2>4. e <= Blocks[f] + 1 /\ e >= 1
    BY <1>1, <2>2 DEF AtMost
  <2>5. CASE W <= Blocks[f] + 1
    <3>1. e >= W
      BY <1>1, <2>2, <2>5 DEF AtMost
    <3>. QED
      BY <1>1, <1>2, <2>3, <2>4, <3>1 DEF Window
  <2>6. CASE ~(W <= Blocks[f] + 1)
    <3>1. e = Blocks[f] + 1 /\ e < W
      BY <1>1, <2>2, <2>6 DEF AtMost
    <3>2. \A s \in Slots : s <= Blocks[f] => sv'.downloadBlocks[s] = BlockOf(f, s)
      <4>. SUFFICES ASSUME NEW s \in Slots, s <= Blocks[f]
                    PROVE  sv'.downloadBlocks[s] = BlockOf(f, s)
        OBVIOUS
      <4>1. s \in Nat /\ Slot(s) = s
        BY SlotIs
      <4>2. 0 <= s /\ s < e /\ s >= e - W
        BY <1>1, <3>1, <4>1
      <4>. QED
        BY <1>3, <2>1, <4>1, <4>2 DEF Fills
    <3>. QED
      BY <1>1, <1>2, <2>1, <2>2, <2>3, <2>4, <3>1, <3>2 DEF Window
  <2>. QED
    BY <2>5, <2>6
<1>. QED
  BY <1>4, <1>5

(* A part of a file is sent. *)
LEMMA DataSent ==
  ASSUME Base, Stays, up' = up, sv' \in Server, ~sv'.gamestate, Window',
         NEW f \in Files, Blocks[f] > 0, NEW msg \in Message, down' = Sent(msg), Data(msg),
         msg.data.file = f, msg.serverId = serverId, TopsUp(f, msg.block + 1),
         msg.kind = "redirect" => msg.block = 0,
         msg.again \/ msg.block >= sv.top[f]
  PROVE  Base'
<1>1. down \in Seq(Message) /\ Len(down) <= MaxInFlight /\ serverId \in Nat /\ serverId \in 1 .. MaxLevels
  BY TypesGive DEF Base, Types
<1>2. Posts(msg)
  BY <1>1, SentIs
<1>3. Ordered' /\ Sendable'
  BY <1>2, DataPostedKeeps
<1>4. Tops'
  BY FilesAre DEF Base, Tops, TopsUp
<1>. QED
  BY <1>1, <1>2, <1>3, <1>4, ServerKeeps DEF Stays

(* The block sent is of the file. *)
LEMMA SentFile ==
  ASSUME Base, NEW f, f = sv.downloadName, NEW c \in Nat, NEW k \in Nat, NEW x \in Nat,
         NEW b \in Nat, Sends(f, c, k, x, b)
  PROVE  sv'.downloadBlocks[Slot(b)].file = f
<1>1. /\ f \in Files /\ Blocks[f] \in Nat /\ W \in Nat /\ W > 0 /\ Slot(b) \in Slots
  BY FilesAre, SlotIs DEF Sends, Writing, W
<1>2. Window' /\ sv'.download /\ sv'.downloadName = f
  BY WindowSends DEF Sends
<1>3. PICK e \in Nat : e = sv'.downloadCurrentBlock
  BY CounterIs DEF Sends, Writing, Server
<1>4. /\ e <= Blocks[f] + 1
      /\ \A s \in Slots : s < e => sv'.downloadBlocks[s].file = f
      /\ \/ e >= W
         \/ e < W /\ e = Blocks[f] + 1 /\ k <= Blocks[f] /\ b + 1 <= e
  BY <1>1, <1>2, <1>3 DEF Window, Sends
<1>5. CASE e >= W
  <2>1. Slot(b) < e
    BY <1>1, <1>5, SlotIs
  <2>. QED
    BY <1>1, <1>4, <2>1
<1>6. CASE e < W /\ b + 1 <= e
  <2>1. b \in Slots /\ b < e
    BY <1>1, <1>6 DEF Slots, W
  <2>. QED
    BY <1>4, <2>1, SlotIs
<1>. QED
  BY <1>4, <1>5, <1>6

LEMMA BaseWrites ==
  ASSUME Base, WriteRedirect \/ WriteBad \/ WriteBlock
  PROVE  Base'
<1>0. Types /\ sv.top \in [Files -> Nat] /\ serverId \in Nat
  BY TypesGive DEF Base
<1>1. CASE WriteRedirect
  <2>0. PICK f : f = sv.downloadName
    OBVIOUS
  <2>1. /\ Writing /\ ~sv.download /\ bDlOK /\ ~sv.bFallback /\ Blocks[f] > 0
        /\ ~sv'.download /\ TopsUp(f, 1)
        /\ \E msg \in Message :
             /\ down' = Sent(msg) /\ msg.kind = "redirect" /\ msg.block = 0
             /\ msg.data.file = f /\ msg.again = (sv.top[f] > 0) /\ msg.serverId = serverId
    BY <1>0, <1>1, <2>0, RedirectIsWritten
  <2>2. PICK msg \in Message :
          /\ down' = Sent(msg) /\ msg.kind = "redirect" /\ msg.block = 0
          /\ msg.data.file = f /\ msg.again = (sv.top[f] > 0) /\ msg.serverId = serverId
    BY <2>1
  <2>3. Window' /\ f \in Files /\ Data(msg) /\ 0 + 1 = 1
    BY <2>0, <2>1, <2>2 DEF Window, Writing, Data
  <2>4. msg.again \/ msg.block >= sv.top[f]
    <3>1. sv.top[f] > 0 => msg.again
      BY <2>2, Zenon
    <3>2. ~(sv.top[f] > 0) => msg.block >= sv.top[f]
      BY <1>0, <2>2, <2>3
    <3>. QED
      BY <3>1, <3>2
  <2>5. TopsUp(f, msg.block + 1)
    BY <2>1, <2>2
  <2>. QED
    BY <2>1, <2>2, <2>3, <2>4, <2>5, DataSent DEF Writing, Base
<1>2. CASE WriteBad
  <2>1. /\ Writing /\ ~sv.download
        /\ sv'.downloadCurrentBlock = sv.downloadCurrentBlock
        /\ ~sv'.download /\ sv'.top = sv.top
        /\ \E msg \in Message :
             down' = Sent(msg) /\ msg.kind = "bad" /\ msg.serverId = serverId
    BY <1>0, <1>2, BadIsWritten
  <2>2. PICK msg \in Message : down' = Sent(msg) /\ msg.kind = "bad" /\ msg.serverId = serverId
    BY <2>1
  <2>3. Window' /\ Tops'
    BY <2>1 DEF Window, Base, Tops
  <2>4. Posts(msg) /\ ~Data(msg) /\ serverId \in 1 .. MaxLevels
    BY <1>0, <2>2, SentIs DEF Types, Data
  <2>5. Ordered' /\ Sendable'
    BY <2>1, <2>4, PostedKeeps
  <2>6. /\ bDlOK' = bDlOK /\ cl' = cl /\ have' = have /\ mixed' = mixed /\ serverId' = serverId
        /\ sv' \in Server /\ ~sv'.gamestate /\ up' = up
    BY <2>1 DEF Writing, Stays, Base
  <2>7. serverId' \in 1 .. MaxLevels /\ serverId' >= serverId
    BY <1>0, <2>4, <2>6
  <2>8. \E m \in Message : Posts(m) /\ m.serverId = serverId'
    BY <2>2, <2>4, <2>6
  <2>. QED
    BY <2>3, <2>5, <2>6, <2>7, <2>8, ServerKeeps
<1>3. CASE WriteBlock
  <2>0. PICK f : f = sv.downloadName
    OBVIOUS
  <2>1. PICK c, k, x, b \in Nat : Sends(f, c, k, x, b)
    BY <1>0, <1>3, <2>0, BlockIsWritten
  <2>2. Window' /\ sv'.downloadBlocks[Slot(b)].file = f
    BY <2>0, <2>1, WindowSends, SentFile
  <2>3. PICK msg \in Message :
       /\ down' = Sent(msg) /\ msg.kind = "block" /\ msg.block = b
       /\ msg.data = sv'.downloadBlocks[Slot(b)] /\ msg.again = (b < sv.top[f])
       /\ msg.serverId = serverId
    BY <2>1 DEF Sends
  <2>4. Writing /\ Blocks[f] > 0 /\ f \in Files /\ TopsUp(f, b + 1) /\ Data(msg)
    BY <2>0, <2>1, <2>3 DEF Sends, Writing, Data
  <2>5. msg.again \/ msg.block >= sv.top[f]
    <3>1. b < sv.top[f] => msg.again
      BY <2>3, Zenon
    <3>2. ~(b < sv.top[f]) => msg.block >= sv.top[f]
      BY <1>0, <2>3, <2>4
    <3>. QED
      BY <3>1, <3>2
  <2>. QED
    BY <2>2, <2>3, <2>4, <2>5, DataSent DEF Writing, Base
<1>. QED
  BY <1>1, <1>2, <1>3

LEMMA NextUrl ==
  ASSUME NEW c \in Client, NEW n, n = NextDownload(c)
  PROVE  n.c.url = c.url /\ n.c.bWWWDl = c.bWWWDl
<1>1. CASE c.downloadList = {} /\ ~c.downloadRestart
  <2>1. n.c = [c EXCEPT !.mode = "loading"]
    BY <1>1 DEF NextDownload, DownloadsComplete
  <2>. QED
    BY <2>1 DEF Client
<1>2. CASE c.downloadList = {} /\ c.downloadRestart
  <2>1. n.c = [c EXCEPT !.downloadRestart = FALSE, !.downloadName = None]
    BY <1>2 DEF NextDownload, DownloadsComplete
  <2>. QED
    BY <2>1 DEF Client
<1>3. CASE c.downloadList # {}
  <2>1. PICK f, rest : n.c = [c EXCEPT !.downloadName = f, !.downloadBlock = 0,
                                       !.downloadRestart = TRUE, !.downloadList = rest]
    BY <1>3 DEF NextDownload, BeginDownload
  <2>. QED
    BY <2>1 DEF Client
<1>. QED
  BY <1>1, <1>2, <1>3

LEMMA UrlsNext ==
  ASSUME Base, Urls, Next \/ UNCHANGED vars
  PROVE  Urls'
<1>0. Types /\ Restarts /\ cl \in Client
  BY DEF Base, Types
<1>1. CASE cl' = cl
  BY <1>1 DEF Urls
<1>2. CASE ReceiveGamestate
  BY <1>0, <1>2, GamestateIsRead DEF Urls
<1>3. CASE \E mode : cl' = [cl EXCEPT !.mode = mode]
  BY <1>0, <1>3 DEF Urls, Client
<1>4. ASSUME NEW begins \in BOOLEAN, ReceiveRedirect(begins), cl' # cl PROVE Urls'
  <2>1. Arrives("redirect")
    BY <1>4 DEF ReceiveRedirect
  <2>2. Head(down) = down[1] /\ 1 \in 1 .. Len(down) /\ Data(down[1])
    BY <1>0, <2>1, ArrivesIs DEF Reads, Data
  <2>3. down[1].data.file # None
    BY <2>2, FilesAre DEF Base, Sendable
  <2>4. PICK f, a : cl' = [cl EXCEPT !.bWWWDl = TRUE, !.url = f, !.bWWWDlAborting = a] /\ f = down[1].data.file
    BY <1>4, <2>2 DEF ReceiveRedirect
  <2>. QED
    BY <1>0, <2>3, <2>4 DEF Urls, Client
<1>5. CASE ReceiveUnwritable
  <2>1. cl' = NextDownload(cl).c
    BY <1>5 DEF ReceiveUnwritable
  <2>. QED
    BY <1>0, <2>1, NextUrl DEF Urls
<1>6. CASE ReceiveBlock
  <2>1. PICK h, w, n : cl' = [cl EXCEPT !.download = h, !.written = w, !.downloadBlock = n]
    BY <1>6 DEF ReceiveBlock
  <2>. QED
    BY <1>0, <2>1 DEF Urls, Client
<1>7. CASE ReceiveEOF
  <2>1. PICK w \in Seq(Part), v \in Nat : w = <<>> /\ v = N + 1
    <3>1. N + 1 \in Nat
      BY <1>0 DEF Client, N
    <3>2. <<>> \in Seq(Part)
      BY EmptyIs
    <3>. QED
      BY <3>1, <3>2, Zenon
  <2>2. PICK c : c = [cl EXCEPT !.download = None, !.written = w, !.downloadBlock = v, !.downloadName = None]
    OBVIOUS
  <2>3. c \in Client /\ c.url = cl.url /\ c.bWWWDl = cl.bWWWDl
    BY <1>0, <2>2 DEF Client
  <2>4. cl' = NextDownload(c).c
    BY <1>7, <2>1, <2>2 DEF ReceiveEOF, N
  <2>. QED
    BY <2>3, <2>4, NextUrl DEF Urls
<1>8. CASE WWWDone
  <2>1. PICK w \in Seq(Part) : w = <<>>
    BY EmptyIs
  <2>2. PICK c : c = [cl EXCEPT !.download = None, !.written = w, !.downloadName = None, !.bWWWDl = FALSE]
    OBVIOUS
  <2>3. c \in Client /\ ~c.bWWWDl
    BY <1>0, <2>2 DEF Client
  <2>4. cl' = NextDownload(c).c
    BY <1>8, <2>1, <2>2 DEF WWWDone
  <2>. QED
    BY <2>3, <2>4, NextUrl DEF Urls
<1>9. CASE WWWFail
  <2>1. cl' = [cl EXCEPT !.bWWWDlAborting = TRUE]
    BY <1>9 DEF WWWFail
  <2>. QED
    BY <1>0, <2>1 DEF Urls, Client
<1>10. ReceiveUnrequested \/ ReceiveBad \/ GivesUp => \E mode : cl' = [cl EXCEPT !.mode = mode]
  BY DEF ReceiveUnrequested, ReceiveBad, GivesUp
<1>11. (\E level : ExecuteBatch(level) \/ IgnoreBatch(level)) \/ ResendGamestate => cl' = cl
  BY DEF ExecuteBatch, IgnoreBatch, ResendGamestate
<1>12. WriteRedirect \/ WriteBad \/ WriteBlock \/ Quiet \/ NewLevel \/ Lose \/ ReceiveOther => cl' = cl
  BY DEF WriteRedirect, WriteBad, WriteBlock, Writes, Quiet, NewLevel, Lose, ReceiveOther
<1>13. UNCHANGED vars => cl' = cl
  BY DEF vars
<1>. QED
  BY <1>1, <1>2, <1>3, <1>4, <1>5, <1>6, <1>7, <1>8, <1>9, <1>10, <1>11, <1>12, <1>13
  DEF Next, Receive, ExecutePacket

LEMMA BaseNext ==
  ASSUME Base, Urls, Next \/ UNCHANGED vars
  PROVE  Base'
<1>0. Types /\ Restarts /\ ~sv.gamestate
  BY DEF Base
<1>1. CASE Receive
  BY <1>1, BaseReceive
<1>2. CASE Lose
  <2>1. down # <<>> /\ down' = Tail(down) /\ UNCHANGED <<sv, serverId, bDlOK, cl, have, mixed, up>>
    BY <1>2 DEF Lose
  <2>2. Loses(1)
    BY <1>0, <2>1, TakenFromDown DEF Types
  <2>3. Restarts' /\ Grows
    BY <1>0, <2>1 DEF Restarts, Connected, F, Grows
  <2>. QED
    BY <1>0, <2>1, <2>2, <2>3, ClientKeeps DEF Types
<1>3. CASE WWWDone
  <2>1. /\ OffLine /\ have' \in {have, have \cup {F}} /\ cl' \in Client
        /\ cl'.serverId = cl.serverId
        /\ \/ cl'.mode = "loading" /\ Adds(Done)
           \/ \E f \in {None} \cup Files : Asked(f) /\ Adds(DoneAsk(f))
    BY <1>0, <1>3, WWWDoneAnyIs
  <2>2. have' \subseteq have \cup ({F} \cap Files)
    <3>1. F \in {None} \cup Files
      BY <1>0, TypesGive
    <3>2. cl.url # None /\ have' = IF cl.url = F THEN have \cup {F} ELSE have
      BY <1>3 DEF WWWDone, Downloading, Urls, F
    <3>. QED
      BY <3>1, <3>2
  <2>3. have' \subseteq Files
    BY <1>0, <2>1, <2>2 DEF Types
  <2>4. Restarts'
    BY <2>1, AskedRestarts DEF Restarts, Connected
  <2>5. Grows
    BY <2>1, BatchIs DEF Grows
  <2>. QED
    BY <2>1, <2>3, <2>4, <2>5, OffLineGives, ClientKeeps
<1>4. CASE WWWFail
  <2>1. /\ OffLine /\ have' = have
        /\ cl' \in Client /\ cl'.serverId = cl.serverId
        /\ cl'.mode = cl.mode /\ F' = F /\ N' = N /\ cl'.downloadRestart = cl.downloadRestart
        /\ cl'.downloadList = cl.downloadList /\ Adds(Fail)
    BY <1>0, <1>4, WWWFailIs
  <2>2. Restarts' /\ Grows
    BY <1>0, <2>1, BatchIs DEF Restarts, Connected, F, Grows
  <2>. QED
    BY <2>1, <2>2, OffLineGives, ClientKeeps
<1>5. CASE GivesUp
  <2>1. /\ OffLine /\ have' = have /\ up' = up
        /\ cl' \in Client /\ cl'.mode = "dropped" /\ cl'.serverId = cl.serverId
    BY <1>0, <1>5, GivesUpIs
  <2>2. Restarts' /\ Grows
    BY <2>1 DEF Restarts, Connected, Grows
  <2>. QED
    BY <2>1, <2>2, OffLineGives, ClientKeeps
<1>6. ASSUME NEW level, ExecuteBatch(level) PROVE Base'
  <2>1. TakesPacket(level) /\ Executing(up[1].commands)
    BY <1>0, <1>6, ExecutingIs
  <2>2. IsBatch(up[1].commands)
    BY <2>1, TakesIs DEF TakesPacket, Base, Types
  <2>3. /\ sv' \in Server /\ ~sv'.gamestate /\ Window' /\ Tops' /\ sv'.top = sv.top
        /\ down' = down \/ down' = Sent(Gamestate)
    BY <1>6, <2>1, <2>2, BatchKeeps
  <2>. QED
    BY <2>1, <2>3, SaysNothing DEF TakesPacket
<1>7. ASSUME NEW level, IgnoreBatch(level) PROVE Base'
  <2>1. TakesPacket(level)
    BY <1>0, <1>7, PacketIs
  <2>2. IsBatch(up[1].commands)
    BY <2>1, TakesIs DEF TakesPacket, Base, Types
  <2>3. Untouched /\ down' = IF GamestateLost THEN Sent(Gamestate) ELSE down
    BY <1>0, <1>7, <2>2, IgnoringIs
  <2>. QED
    BY <2>1, <2>3, UntouchedKeeps, SaysNothing DEF TakesPacket
<1>8. CASE ResendGamestate
  BY <1>0, <1>8, ResendingIs, UntouchedKeeps, SaysNothing
<1>9. CASE Quiet
  BY <1>0, <1>9, QuietIs, UntouchedKeeps, SaysNothing
<1>10. CASE NewLevel
  <2>1. /\ serverId' = serverId + 1 /\ serverId' \in 1 .. MaxLevels
        /\ bDlOK' = bDlOK /\ cl' = cl /\ have' = have /\ mixed' = mixed
        /\ up' = up /\ down' = down /\ Untouched
    BY <1>0, <1>10, NewLevelIs
  <2>2. sv' \in Server /\ ~sv'.gamestate /\ Window' /\ Tops' /\ sv'.top = sv.top
    BY <2>1, UntouchedKeeps
  <2>3. Loses(0) /\ serverId' >= serverId
    BY <1>0, <2>1, LosesNone, TypesGive DEF Types
  <2>4. Ordered' /\ Sendable'
    BY <2>2, <2>3, LostKeeps
  <2>. QED
    BY <2>1, <2>2, <2>3, <2>4, ServerKeeps
<1>11. CASE WriteRedirect \/ WriteBad \/ WriteBlock
  BY <1>11, BaseWrites
<1>12. CASE UNCHANGED vars
  <2>1. UNCHANGED <<sv, serverId, bDlOK, cl, have, mixed, down, up>>
    BY <1>12 DEF vars
  <2>2. /\ Types' /\ Restarts' /\ ~sv'.gamestate
    BY <1>0, <2>1 DEF Types, Restarts, Connected, F
  <2>3. Ordered' /\ Sendable' /\ Tops' /\ Stamps' /\ Batches' /\ Window'
    BY <2>1 DEF Base, Ordered, Sendable, Tops, Stamps, Batches, Window
  <2>. QED
    BY <2>2, <2>3 DEF Base
<1>. QED
  BY <1>1, <1>2, <1>3, <1>4, <1>5, <1>6, <1>7, <1>8, <1>9, <1>10, <1>11, <1>12
  DEF Next, ExecutePacket

-----------------------------------------------------------------------------
(* As long as no block was taken for another file's. *)

LEMMA LosesFollow ==
  ASSUME down \in Seq(Message), NEW d, Loses(d) PROVE Follows(d)
<1>1. Len(down) \in Nat /\ d \in 0 .. Len(down) /\ Len(down') = Len(down) - d
  BY DEF Loses
<1>2. \A i \in 1 .. Len(down') : i + d \in 1 .. Len(down) /\ down'[i] = down[i + d]
  BY <1>1 DEF Loses
<1>. QED
  BY <1>1, <1>2 DEF Follows

LEMMA PostsFollow ==
  ASSUME down \in Seq(Message), NEW msg, Posts(msg), ~Data(msg) PROVE \E d : Follows(d)
<1>1. PICK d \in 0 .. 1 :
        \A i \in 1 .. Len(down') : i < Len(down') => i + d \in 1 .. Len(down) /\ down'[i] = down[i + d]
  BY PostedIs
<1>2. Len(down') \in Nat /\ Len(down') >= 1 /\ down'[Len(down')] = msg /\ Len(down) \in Nat
  BY PostedIs
<1>3. \A i \in 1 .. Len(down') : i < Len(down') \/ i = Len(down')
  BY <1>2
<1>4. \A i \in 1 .. Len(down') : Data(down'[i]) => i + d \in 1 .. Len(down) /\ down'[i] = down[i + d]
  BY <1>1, <1>2, <1>3
<1>5. Follows(d)
  BY <1>2, <1>4 DEF Follows
<1>. QED
  BY <1>5

LEMMA FollowKeeps ==
  ASSUME NEW d, Follows(d), cl' = cl
  PROVE  /\ F' = F /\ N' = N /\ (Fresh' <=> Fresh) /\ (OnWeb' <=> OnWeb) /\ (Aborts' <=> Aborts)
         /\ NoOwn => NoOwn'
         /\ OwnBlocks => OwnBlocks'
         /\ OwnComes' => OwnComes
         /\ RedirectComes' => RedirectComes
         /\ Foreigns => Foreigns'
         /\ WebClient => WebClient'
         /\ Webbed /\ sv'.top = sv.top => Webbed'
         /\ OwnBelow /\ sv'.downloadCurrentBlock = sv.downloadCurrentBlock => OwnBelow'
<1>1. F' = F /\ N' = N /\ cl'.bWWWDl = cl.bWWWDl /\ cl'.bWWWDlAborting = cl.bWWWDlAborting
  BY DEF F, N
<1>2. (Fresh' <=> Fresh) /\ (OnWeb' <=> OnWeb) /\ (Aborts' <=> Aborts)
  BY <1>1 DEF Fresh, OnWeb, Aborts
<1>3. \A i \in 1 .. Len(down') : Data(down'[i]) => i + d \in 1 .. Len(down) /\ down'[i] = down[i + d]
  BY DEF Follows
<1>4. \A i, k \in 1 .. Len(down') : i < k => i + d < k + d
  BY DEF Follows
<1>5. /\ NoOwn => NoOwn'
      /\ OwnBlocks => OwnBlocks'
      /\ OwnComes' => OwnComes
      /\ OwnBelow /\ sv'.downloadCurrentBlock = sv.downloadCurrentBlock => OwnBelow'
  BY <1>1, <1>3 DEF NoOwn, OwnBlocks, OwnComes, OwnBelow, OwnBlock, Own, Data
<1>6. RedirectComes' => RedirectComes
  BY <1>3 DEF RedirectComes, Data
<1>7. Foreigns => Foreigns'
  BY <1>1, <1>2, <1>3, <1>4 DEF Foreigns, Foreign, Own, Data
<1>8. WebClient => WebClient'
  BY <1>1, <1>2, <1>3, <1>4 DEF WebClient, Data
<1>9. Webbed /\ sv'.top = sv.top => Webbed'
  BY <1>1, <1>2, <1>3 DEF Webbed, Own, Data
<1>. QED
  BY <1>1, <1>2, <1>5, <1>6, <1>7, <1>8, <1>9

LEMMA ExtendsIs ==
  ASSUME up \in Seq(Batch)
  PROVE  /\ up' = up => Extends(0)
         /\ \A b : Adds(b) => Extends(1) /\ up'[Len(up) + 1].commands = b
         /\ \A b, c : AddsBoth(b, c) => /\ Extends(2) /\ up'[Len(up) + 1].commands = b
                                        /\ up'[Len(up) + 2].commands = c
<1>1. up' = up => Extends(0)
  BY DEF Extends
<1>2. ASSUME NEW b, Adds(b) PROVE Extends(1) /\ up'[Len(up) + 1].commands = b
  BY <1>2 DEF Adds, Extends
<1>3. ASSUME NEW b, NEW c, AddsBoth(b, c)
      PROVE  Extends(2) /\ up'[Len(up) + 1].commands = b /\ up'[Len(up) + 2].commands = c
  BY <1>3 DEF AddsBoth, Extends
<1>. QED
  BY <1>1, <1>2, <1>3

LEMMA ConvExtends ==
  ASSUME NEW k \in Nat, Extends(k), NEW f, NEW n \in Nat, NEW j \in Nat, NEW m \in Nat,
         Conv(f, n, j, m)
  PROVE  Conv(f, n, j, m)'
<1>1. m <= Len(up) /\ Len(up) \in Nat /\ Len(up') = Len(up) + k
  BY DEF Conv, Extends
<1>2. \A i \in Nat : 1 <= i /\ i <= m => up'[i] = up[i]
  BY <1>1 DEF Extends
<1>3. j <= m /\ m <= Len(up') /\ m - j <= n
  BY <1>1 DEF Conv
<1>4. \A i \in Nat : 1 <= i /\ i <= j => up'[i].commands = AskFor(f)
  <2>1. \A i \in Nat : 1 <= i /\ i <= j => up[i].commands = AskFor(f) /\ up'[i] = up[i]
    BY <1>2, <1>3 DEF Conv, Says
  <2>. QED
    BY <2>1
<1>5. \A i \in Nat : j < i /\ i <= m => up'[i].commands = NextdlOf(n - m + i - 1)
  <2>1. \A i \in Nat : j < i /\ i <= m => up[i].commands = NextdlOf(n - m + i - 1) /\ up'[i] = up[i]
    BY <1>2 DEF Conv, Says
  <2>. QED
    BY <2>1
<1>. QED
  BY <1>3, <1>4, <1>5 DEF Conv, Says

(* One block more is acknowledged. *)
LEMMA ConvNext ==
  ASSUME NEW k \in Nat, k > 0, Extends(k), NEW f, NEW n \in Nat, NEW j \in Nat, NEW m \in Nat,
         Conv(f, n, j, m), m = Len(up), up'[Len(up) + 1].commands = NextdlOf(n)
  PROVE  Conv(f, n + 1, j, m + 1)'
<1>1. Conv(f, n, j, m)' /\ Len(up') = Len(up) + k
  BY ConvExtends DEF Extends
<1>2. j <= m /\ m - j <= n
  BY DEF Conv
<1>3. \A i \in Nat : 1 <= i /\ i <= j => up'[i].commands = AskFor(f)
  BY <1>1 DEF Conv, Says
<1>4. \A i \in Nat : j < i /\ i <= m + 1 => up'[i].commands = NextdlOf((n + 1) - (m + 1) + i - 1)
  <2>. SUFFICES ASSUME NEW i \in Nat, j < i, i <= m + 1
                PROVE  up'[i].commands = NextdlOf((n + 1) - (m + 1) + i - 1)
    OBVIOUS
  <2>1. CASE i <= m
    <3>1. up'[i].commands = NextdlOf(n - m + i - 1)
      BY <1>1, <2>1 DEF Conv, Says
    <3>2. n - m + i - 1 = (n + 1) - (m + 1) + i - 1
      OBVIOUS
    <3>. QED
      BY <3>1, <3>2
  <2>2. CASE i = m + 1
    <3>1. n = (n + 1) - (m + 1) + i - 1
      BY <2>2
    <3>. QED
      BY <2>2, <3>1
  <2>. QED
    BY <2>1, <2>2
<1>5. j <= m + 1 /\ m + 1 <= Len(up') /\ (m + 1) - j <= n + 1
  BY <1>1, <1>2
<1>. QED
  BY <1>3, <1>4, <1>5 DEF Conv, Says

LEMMA TakesGives ==
  ASSUME Takes
  PROVE  /\ up' \in Seq(Batch) /\ Len(up) \in Nat /\ Len(up) > 0 /\ Len(up') = Len(up) - 1
         /\ \A i \in Nat : 1 <= i /\ i <= Len(up) - 1 => up'[i] = up[i + 1]
<1>1. up' \in Seq(Batch) /\ Len(up) > 0 /\ Len(up') = Len(up) - 1 /\ Len(up') \in Nat
  BY DEF Takes
<1>2. \A i \in 1 .. Len(up') : up'[i] = up[i + 1]
  BY DEF Takes
<1>. QED
  BY <1>1, <1>2

(* The first of them asks for the file. *)
LEMMA ConvTakesAsk ==
  ASSUME up \in Seq(Batch), Takes, NEW f, NEW n \in Nat, NEW j \in Nat, NEW m \in Nat,
         Conv(f, n, j, m), j > 0
  PROVE  /\ up[1].commands = AskFor(f) /\ j - 1 \in Nat /\ m - 1 \in Nat
         /\ Conv(f, n, j - 1, m - 1)'
<1>1. Len(up) \in Nat /\ Len(up) > 0 /\ Len(up') = Len(up) - 1
  BY TakesGives
<1>2. j <= m /\ m <= Len(up) /\ m - j <= n
  BY DEF Conv
<1>3. \A i \in Nat : 1 <= i /\ i <= Len(up) - 1 => up'[i] = up[i + 1]
  BY TakesGives
<1>4. up[1].commands = AskFor(f)
  BY DEF Conv, Says
<1>5. \A i \in Nat : 1 <= i /\ i <= j - 1 => up'[i].commands = AskFor(f)
  BY <1>1, <1>2, <1>3 DEF Conv, Says
<1>6. \A i \in Nat : j - 1 < i /\ i <= m - 1 => up'[i].commands = NextdlOf(n - (m - 1) + i - 1)
  <2>. SUFFICES ASSUME NEW i \in Nat, j - 1 < i, i <= m - 1
                PROVE  up'[i].commands = NextdlOf(n - (m - 1) + i - 1)
    OBVIOUS
  <2>1. up[i + 1].commands = NextdlOf(n - m + (i + 1) - 1)
    BY <1>2 DEF Conv, Says
  <2>2. n - m + (i + 1) - 1 = n - (m - 1) + i - 1
    OBVIOUS
  <2>3. 1 <= i /\ i <= Len(up) - 1
    BY <1>1, <1>2
  <2>. QED
    BY <1>3, <2>1, <2>2, <2>3
<1>7. j - 1 <= m - 1 /\ m - 1 <= Len(up') /\ (m - 1) - (j - 1) <= n
  BY <1>1, <1>2
<1>. QED
  BY <1>2, <1>4, <1>5, <1>6, <1>7 DEF Conv, Says

(* It acknowledges a block. *)
LEMMA ConvTakesNextdl ==
  ASSUME up \in Seq(Batch), Takes, NEW f, NEW n \in Nat, NEW m \in Nat,
         Conv(f, n, 0, m), m > 0
  PROVE  /\ n - m \in Nat /\ up[1].commands = NextdlOf(n - m) /\ m - 1 \in Nat
         /\ Conv(f, n, 0, m - 1)'
<1>1. Len(up) \in Nat /\ Len(up) > 0 /\ Len(up') = Len(up) - 1
  BY TakesGives
<1>2. m <= Len(up) /\ m - 0 <= n
  BY DEF Conv
<1>3. \A i \in Nat : 1 <= i /\ i <= Len(up) - 1 => up'[i] = up[i + 1]
  BY TakesGives
<1>4. up[1].commands = NextdlOf(n - m)
  <2>1. up[1].commands = NextdlOf(n - m + 1 - 1)
    BY DEF Conv, Says
  <2>2. n - m + 1 - 1 = n - m
    OBVIOUS
  <2>. QED
    BY <2>1, <2>2
<1>6. \A i \in Nat : 0 < i /\ i <= m - 1 => up'[i].commands = NextdlOf(n - (m - 1) + i - 1)
  <2>. SUFFICES ASSUME NEW i \in Nat, 0 < i, i <= m - 1
                PROVE  up'[i].commands = NextdlOf(n - (m - 1) + i - 1)
    OBVIOUS
  <2>1. up[i + 1].commands = NextdlOf(n - m + (i + 1) - 1)
    BY <1>2 DEF Conv, Says
  <2>2. n - m + (i + 1) - 1 = n - (m - 1) + i - 1
    OBVIOUS
  <2>. QED
    BY <1>1, <1>2, <1>3, <2>1, <2>2
<1>7. m - 1 <= Len(up') /\ (m - 1) - 0 <= n
  BY <1>1, <1>2
<1>. QED
  BY <1>2, <1>4, <1>6, <1>7 DEF Conv, Says

(* The messages and the batches do not touch what the server holds. *)
LEMMA ReachedSame ==
  ASSUME NEW f, NEW n, NEW c, NEW j, Reached(f, n, c, j), Kept(sv, sv'),
         sv'.downloadClientBlock = sv.downloadClientBlock, sv.download => sv'.download
  PROVE  Reached(f, n, c, j)'
  BY DEF Reached, Exact, Kept

LEMMA SteadyPhases ==
  ASSUME Steady, up \in Seq(Batch), Phases
  PROVE  Phases'
<1>1. PICK d : Follows(d)
  BY DEF Steady
<1>2. /\ F' = F /\ N' = N /\ (Fresh' <=> Fresh) /\ (Aborts' <=> Aborts)
      /\ (NoOwn => NoOwn') /\ (OwnBlocks => OwnBlocks') /\ (OwnComes' => OwnComes)
      /\ (OwnBelow => OwnBelow')
  BY <1>1, FollowKeeps DEF Steady, Kept
<1>3. /\ up' = up /\ have' = have /\ cl'.bWWWDl = cl.bWWWDl /\ cl'.bWWWDlAborting = cl.bWWWDlAborting
      /\ sv'.top = sv.top /\ sv'.downloadName = sv.downloadName /\ sv'.download = sv.download
      /\ sv'.lastCommand = sv.lastCommand /\ (Zombie' <=> Zombie)
  BY DEF Steady, Kept
<1>4. CASE Waiting
  BY <1>2, <1>3, <1>4 DEF Waiting, Phases
<1>5. ASSUME NEW f \in Files, NEW n \in Nat, NEW j \in Nat, NEW m \in Nat, NEW e \in Endings,
             Asking(f, n, j, m, e)
      PROVE  Phases'
  <2>1. Conv(f, n, j, m)' /\ Ending(m, e)'
    BY <1>2, <1>3, <1>5 DEF Asking, Conv, Ending, Says
  <2>2. Finishing(f, n, j, m, e)'
    <3>1. Reached(f, n, m - j, j) => Reached(f, n, m - j, j)'
      BY ReachedSame DEF Steady
    <3>. QED
      BY <1>3, <1>5, <3>1 DEF Asking, Finishing
  <2>3. Asking(f, n, j, m, e)'
    BY <1>2, <1>3, <1>5, <2>1, <2>2 DEF Asking
  <2>. QED
    BY <2>3 DEF Phases
<1>6. ASSUME NEW j \in Nat, NEW m \in Nat, Fetching(j, m)
      PROVE  Phases'
  <2>0. PICK f, n : f = F /\ n = N
    OBVIOUS
  <2>1. Conv(f, n, j, m)' /\ Answered(m)'
    BY <1>3, <1>6, <2>0 DEF Fetching, Conv, Answered, Says
  <2>2. Serving(j, m)'
    <3>1. Reached(f, n, m - j, j) => Reached(f, n, m - j, j)'
      BY ReachedSame DEF Steady
    <3>. QED
      BY <1>2, <1>3, <1>6, <2>0, <3>1 DEF Fetching, Serving
  <2>3. FirstMissing => FirstMissing'
    BY <1>2, <1>3 DEF FirstMissing
  <2>4. Fetching(j, m)'
    BY <1>2, <1>3, <1>6, <2>0, <2>1, <2>2, <2>3 DEF Fetching
  <2>. QED
    BY <2>4 DEF Phases
<1>. QED
  BY <1>4, <1>5, <1>6 DEF Phases

LEMMA SteadyKeeps ==
  ASSUME Steady, up \in Seq(Batch), Tidy
  PROVE  Tidy'
<1>1. PICK d : Follows(d)
  BY DEF Steady
<1>2. /\ Foreigns' /\ WebClient' /\ Webbed'
      /\ N' = N /\ (OnWeb' <=> OnWeb) /\ (Aborts' <=> Aborts) /\ (RedirectComes' => RedirectComes)
  BY <1>1, FollowKeeps DEF Steady, Kept, Tidy
<1>3. WebServer'
  BY <1>2 DEF Tidy, WebServer, Steady
<1>4. Bounds'
  BY <1>2 DEF Tidy, Bounds, Steady, Kept
<1>. QED
  BY <1>2, <1>3, <1>4, SteadyPhases DEF Tidy

-----------------------------------------------------------------------------
(* A part of a file is taken: it is of the file asked for. *)

LEMMA BaseGives ==
  ASSUME Base
  PROVE  /\ down \in Seq(Message) /\ up \in Seq(Batch) /\ Len(down) \in Nat /\ Len(up) \in Nat
         /\ N \in Nat /\ F \in {None} \cup Files /\ None \notin Files /\ cl \in Client /\ sv \in Server
         /\ sv.downloadClientBlock \in Nat /\ sv.downloadCurrentBlock \in Nat
         /\ sv.downloadXmitBlock \in Nat /\ W \in Nat /\ W > 0
         /\ \A f \in Files : Blocks[f] \in Nat /\ sv.top[f] \in Nat
         /\ \A i \in 1 .. Len(down) : down[i] \in Message /\ down[i].block \in Nat
         /\ cl.bWWWDl \in BOOLEAN /\ cl.serverId \in Nat /\ serverId \in Nat
<1>1. down \in Seq(Message) /\ up \in Seq(Batch) /\ Types
  BY DEF Base, Types
<1>2. \A i \in 1 .. Len(down) : down[i] \in Message
  BY <1>1
<1>3. \A i \in 1 .. Len(down) : down[i].block \in Nat
  BY <1>2, MessageIs
<1>4. cl.bWWWDl \in BOOLEAN
  BY <1>1 DEF Types, Client
<1>. QED
  BY <1>1, <1>2, <1>3, <1>4, TypesGive, FilesAre DEF W

(* While the client fetches over the network and something of its file is  *)
(* under way, or over the web, the server owes no gamestate.               *)
LEMMA FetchingIs ==
  ASSUME Base, Clean, Gamestates, NEW j, NEW m, Fetching(j, m),
         OnWeb => ~cl.bWWWDlAborting, OnWeb \/ ~NoOwn
  PROVE  NoGamestate /\ (Zombie \/ (sv.downloadName = F /\ sv.downloadName # None))
<1>1. ~(sv.downloadName = None /\ Fresh /\ NoOwn /\ j = Len(up))
  BY DEF Fetching, Fresh, OnWeb
<1>2. ~Aborts
  BY DEF Aborts
<1>3. Zombie \/ (sv.downloadName = F /\ sv.downloadName # None)
  BY <1>1, <1>2 DEF Fetching, Serving
<1>4. NoGamestate
  BY <1>3 DEF Gamestates, NoGamestate, Idle
<1>. QED
  BY <1>3, <1>4

LEMMA HeadIsOwn ==
  ASSUME Base, Clean, Gamestates, Tidy, NEW kind, Reads(kind), F # None,
         mixed' = Mixes(down[1]),
         \/ kind = "block" /\ down[1].block = N
         \/ kind = "redirect" /\ ~cl.bWWWDl
  PROVE  /\ mixed' # "first"
         /\ mixed' = "no" =>
              /\ Own(down[1]) /\ ~cl.bWWWDl /\ NoForeign /\ NoGamestate /\ F \in Files
              /\ sv.top[F] >= 1 /\ down[1].block < sv.top[F]
              /\ \A i \in 1 .. Len(down) : 1 < i /\ Own(down[i]) => down[i].again \/ down[i].block > 0
              /\ \E j, m \in Nat : /\ Fetching(j, m) /\ m = Len(up)
                                   /\ Zombie \/ (sv.downloadName = F /\ sv.downloadName # None)
<1>1. /\ 1 \in 1 .. Len(down) /\ down[1] \in Message /\ down[1].kind = kind /\ Data(down[1])
      /\ mixed = "no" /\ F \in Files /\ down[1].block \in Nat
      /\ \A f \in Files : Blocks[f] \in Nat /\ sv.top[f] \in Nat
  BY BaseGives DEF Reads, Clean, Data
<1>2. kind = "redirect" => down[1].block = 0
  BY <1>1 DEF Base, Sendable
<1>3. ASSUME Foreign(down[1]) PROVE mixed' = "again"
  <2>1. (down[1].again \/ down[1].block > 0) /\ Fresh
    BY <1>1, <1>3 DEF Tidy, Foreigns
  <2>2. down[1].block = 0
    BY <1>2, <2>1 DEF Fresh
  <2>3. down[1].again
    BY <2>1, <2>2
  <2>. QED
    BY <1>1, <1>3, <2>3 DEF Mixes, Foreign, F
<1>4. ASSUME Own(down[1])
      PROVE  /\ mixed' = "no"
             /\ ~cl.bWWWDl /\ NoForeign /\ NoGamestate
             /\ sv.top[F] >= 1 /\ down[1].block < sv.top[F]
             /\ \A i \in 1 .. Len(down) : 1 < i /\ Own(down[i]) => down[i].again \/ down[i].block > 0
             /\ \E j, m \in Nat : /\ Fetching(j, m) /\ m = Len(up)
                                  /\ Zombie \/ (sv.downloadName = F /\ sv.downloadName # None)
  <2>1. mixed' = "no"
    BY <1>1, <1>4 DEF Mixes, Own, F
  <2>2. ~cl.bWWWDl
    BY <1>1 DEF Tidy, WebClient, OnWeb
  <2>3. \A i \in 1 .. Len(down) : i = 1 \/ 1 < i
    OBVIOUS
  <2>4. NoForeign
    BY <1>1, <1>4, <2>3 DEF Tidy, Foreigns, NoForeign, Foreign, Own
  <2>5. ~NoOwn
    BY <1>1, <1>4 DEF NoOwn
  <2>6. PICK j \in Nat, m \in Nat : Fetching(j, m)
    BY <2>5 DEF Tidy, Phases, Waiting, Asking
  <2>7. m = Len(up)
    BY <2>2, <2>6 DEF Fetching, Answered
  <2>8. NoGamestate /\ (Zombie \/ (sv.downloadName = F /\ sv.downloadName # None))
    BY <2>2, <2>5, <2>6, FetchingIs DEF OnWeb
  <2>9. down[1].block < sv.top[F] /\ sv.top[F] \in Nat
    BY <1>1, <1>4 DEF Base, Sendable, Own
  <2>10. \A i \in 1 .. Len(down) : 1 < i /\ Own(down[i]) => down[i].again \/ down[i].block > 0
    <3>. SUFFICES ASSUME NEW i \in 1 .. Len(down), 1 < i, Own(down[i])
                  PROVE  down[i].again \/ down[i].block > 0
      OBVIOUS
    <3>1. down[i].again \/ down[i].block > down[1].block
      BY <1>1, <1>4 DEF Base, Ordered, Own
    <3>2. down[i].block \in Nat
      BY BaseGives
    <3>. QED
      BY <1>1, <3>1, <3>2
  <2>. QED
    BY <1>1, <2>1, <2>2, <2>4, <2>6, <2>7, <2>8, <2>9, <2>10
<1>. QED
  BY <1>1, <1>3, <1>4 DEF Own, Foreign

(* The client is done with its file: what is under way is another's. *)
LEMMA Turns ==
  ASSUME NEW d, Follows(d), NoForeign, NEW f, f = F, F' # f, Fresh',
         \A i \in 1 .. Len(down') : Data(down'[i]) => down'[i].again \/ down'[i].block > 0
  PROVE  Foreigns' /\ NoOwn' /\ Webbed'
<1>1. \A i \in 1 .. Len(down') : Data(down'[i]) => down'[i].data.file = f
  BY DEF Follows, NoForeign, Foreign
<1>2. NoOwn'
  BY <1>1 DEF NoOwn, Own, Data
<1>3. Foreigns'
  BY <1>2 DEF Foreigns, NoOwn, Foreign, Data
<1>4. Webbed'
  BY DEF Webbed, OnWeb, Fresh
<1>. QED
  BY <1>2, <1>3, <1>4

(* It is not on the web. *)
LEMMA OffWeb ==
  ASSUME NEW d, Follows(d), WebClient, WebServer, ~cl'.bWWWDl, ~cl'.bWWWDlAborting,
         sv' = sv, bDlOK' = bDlOK, ~Aborts
  PROVE  WebClient' /\ WebServer'
<1>1. \A i \in 1 .. Len(down') : Data(down'[i]) => i + d \in 1 .. Len(down) /\ down'[i] = down[i + d]
  BY DEF Follows
<1>2. \A i, k \in 1 .. Len(down') : i < k => i + d < k + d
  BY DEF Follows
<1>3. WebClient'
  BY <1>1, <1>2 DEF WebClient, OnWeb, Data
<1>4. RedirectComes' => RedirectComes
  BY <1>1 DEF RedirectComes, Data
<1>5. WebServer'
  BY <1>4 DEF WebServer, OnWeb
<1>. QED
  BY <1>3, <1>5

LEMMA NoneComes ==
  ASSUME down \in Seq(Message), NEW d, Loses(d), NoGamestate
  PROVE  NoGamestate' /\ Gamestates'
<1>1. Len(down) \in Nat /\ d \in 0 .. Len(down) /\ Len(down') = Len(down) - d
  BY DEF Loses
<1>2. \A i \in 1 .. Len(down') : i + d \in 1 .. Len(down) /\ down'[i] = down[i + d]
  BY <1>1 DEF Loses
<1>. QED
  BY <1>2 DEF NoGamestate, Gamestates

(* What the server has done for a file is done when the client wants       *)
(* another one.                                                            *)
LEMMA StillReached ==
  ASSUME sv' = sv, NEW f, NEW n, NEW c, NEW j, Reached(f, n, c, j)
  PROVE  Reached(f, n, c, j)'
  BY DEF Reached, Exact

LEMMA MoreReached ==
  ASSUME sv' = sv, Base, NEW f \in Files, NEW n \in Nat, NEW c \in Nat, NEW j, Reached(f, n, c, j),
         n < sv.downloadCurrentBlock
  PROVE  Reached(f, n + 1, c + 1, j)'
<1>1. /\ sv.downloadClientBlock \in Nat /\ sv.downloadCurrentBlock \in Nat
  BY BaseGives
<1>2. n + 1 <= sv.downloadCurrentBlock /\ sv.downloadClientBlock + (c + 1) <= n + 1
  BY <1>1 DEF Reached
<1>. QED
  BY <1>2 DEF Reached, Exact

LEMMA CleanBlock ==
  ASSUME Base, Clean, Gamestates, Tidy, ReceiveBlock
  PROVE  mixed' # "first" /\ (Clean' => Gamestates' /\ Tidy')
<1>0. Types
  BY DEF Base
<1>1. /\ Taken /\ have' = have /\ down[1].data.part # 0
      /\ cl' \in Client /\ F' = F /\ N' = N + 1 /\ N \in Nat
      /\ cl'.bWWWDl = cl.bWWWDl /\ cl'.bWWWDlAborting = cl.bWWWDlAborting
      /\ Adds(NextdlOf(N))
  BY <1>0, BlockIsRead
<1>2. Reads("block") /\ F # None /\ down[1].block = N /\ mixed' = Mixes(down[1])
  BY <1>1 DEF Taken
<1>3. /\ mixed' # "first"
      /\ mixed' = "no" =>
           /\ Own(down[1]) /\ ~cl.bWWWDl /\ NoForeign /\ NoGamestate /\ F \in Files
           /\ \E j, m \in Nat : /\ Fetching(j, m) /\ m = Len(up)
                                /\ Zombie \/ (sv.downloadName = F /\ sv.downloadName # None)
  BY <1>2, HeadIsOwn
<1>. SUFFICES ASSUME Clean' PROVE Gamestates' /\ Tidy'
  BY <1>3
<1>4. Own(down[1]) /\ ~cl.bWWWDl /\ NoForeign /\ NoGamestate /\ F \in Files
  BY <1>3 DEF Clean
<1>5. PICK j \in Nat, m \in Nat : /\ Fetching(j, m) /\ m = Len(up)
                                  /\ Zombie \/ (sv.downloadName = F /\ sv.downloadName # None)
  BY <1>3 DEF Clean
<1>6. /\ down \in Seq(Message) /\ up \in Seq(Batch) /\ sv' = sv /\ bDlOK' = bDlOK /\ Loses(1)
      /\ Len(down) \in Nat /\ Len(up) \in Nat /\ 1 \in 1 .. Len(down) /\ down[1].kind = "block"
      /\ down[1] \in Message /\ serverId' = serverId
  BY <1>2, BaseGives DEF Reads
<1>7. Follows(1)
  BY <1>6, LosesFollow
<1>8. PICK f \in Files, n \in Nat : f = F /\ n = N
  BY <1>1, <1>4
<1>9. n < Blocks[f] /\ down[1].data = BlockOf(f, n)
  <2>1. /\ down[1].block <= Blocks[F]
        /\ down[1].data = BlockOf(F, down[1].block) \/ down[1].block < N
    BY <1>4, <1>5, <1>6 DEF Fetching, OwnBlocks, OwnBlock
  <2>2. down[1].data = BlockOf(f, n)
    BY <1>2, <1>8, <2>1
  <2>3. ~(n >= Blocks[f])
    BY <1>1, <1>8, <2>2, BlockOfIs
  <2>. QED
    BY <1>8, <2>2, <2>3, FilesAre
<1>10. Extends(1) /\ up'[Len(up) + 1].commands = NextdlOf(n)
  BY <1>1, <1>6, <1>8, ExtendsIs
<1>11. Conv(f, n + 1, j, m + 1)'
  BY <1>5, <1>8, <1>10, ConvNext DEF Fetching
<1>12. Answered(m + 1)'
  BY <1>5, <1>10 DEF Answered, Extends
<1>13. \A i \in 1 .. Len(down') : Data(down'[i]) => i + 1 \in 1 .. Len(down) /\ down'[i] = down[i + 1]
  BY <1>7 DEF Follows
<1>14. F' = f /\ N' = n + 1
  BY <1>1, <1>8
<1>15. OwnBlocks'
  <2>1. \A i \in 1 .. Len(down) : down[i].block \in Nat
    BY BaseGives
  <2>2. \A i \in 1 .. Len(down) : OwnBlock(down[i]) =>
           down[i].block <= Blocks[f] /\ (down[i].data = BlockOf(f, down[i].block) \/ down[i].block < n + 1)
    BY <1>5, <1>8, <2>1 DEF Fetching, OwnBlocks
  <2>3. \A i \in 1 .. Len(down') : Data(down'[i]) /\ down'[i].data.file = f /\ down'[i].kind = "block" =>
           i + 1 \in 1 .. Len(down) /\ down'[i] = down[i + 1] /\ OwnBlock(down[i + 1])
    BY <1>8, <1>13 DEF OwnBlock, Own, Data
  <2>4. \A i \in 1 .. Len(down') : Data(down'[i]) /\ down'[i].data.file = f /\ down'[i].kind = "block" =>
           /\ down'[i].block <= Blocks[f]
           /\ down'[i].data = BlockOf(f, down'[i].block) \/ down'[i].block < n + 1
    BY <2>2, <2>3
  <2>. QED
    BY <1>14, <2>4 DEF OwnBlocks, OwnBlock, Own
<1>16. Serving(j, m + 1)'
  <2>1. CASE Zombie
    BY <1>6, <2>1 DEF Serving, Zombie
  <2>2. CASE ~Zombie
    <3>1. OwnComes
      BY <1>4, <1>6 DEF OwnComes, OwnBlock
    <3>2. ~NoOwn /\ ~Aborts
      BY <1>4, <1>6 DEF NoOwn, Aborts, OnWeb
    <3>3. sv.downloadName = f /\ OwnBelow /\ Reached(f, n, m - j, j)
      BY <1>5, <1>8, <2>2, <3>1, <3>2 DEF Fetching, Serving
    <3>4. n < sv.downloadCurrentBlock
      BY <1>2, <1>4, <1>6, <1>8, <3>3 DEF OwnBelow, OwnBlock
    <3>5. m - j \in Nat /\ (m + 1) - j = (m - j) + 1
      BY <1>5 DEF Fetching, Conv
    <3>6. Reached(f, n + 1, (m + 1) - j, j)'
      BY <1>6, <3>3, <3>4, <3>5, MoreReached
    <3>7. OwnBelow'
      BY <1>6, <1>8, <1>13, <1>14, <3>3 DEF OwnBelow, OwnBlock, Own, Data
    <3>. QED
      BY <1>6, <1>14, <3>3, <3>6, <3>7 DEF Serving
  <2>. QED
    BY <2>1, <2>2
<1>17. Fetching(j, m + 1)'
  <2>1. FirstMissing => FirstMissing'
    BY <1>1 DEF FirstMissing
  <2>2. n + 1 <= Blocks[f]
    BY <1>8, <1>9, FilesAre
  <2>. QED
    BY <1>2, <1>5, <1>8, <1>11, <1>12, <1>14, <1>15, <1>16, <2>1, <2>2 DEF Fetching
<1>18. Phases'
  <2>1. m + 1 \in Nat
    OBVIOUS
  <2>. QED
    BY <1>17, <2>1 DEF Phases
<1>19. Foreigns' /\ Webbed'
  <2>1. Foreigns'
    BY <1>1, <1>4, <1>13 DEF Foreigns, NoForeign, Foreign, Data
  <2>2. Webbed'
    BY <1>1, <1>4 DEF Webbed, OnWeb
  <2>. QED
    BY <2>1, <2>2
<1>20. WebClient' /\ WebServer'
  <2>1. ~cl'.bWWWDl /\ ~cl'.bWWWDlAborting /\ ~Aborts
    BY <1>1, <1>4 DEF Tidy, WebClient, Aborts, OnWeb
  <2>. QED
    BY <1>6, <1>7, <2>1, OffWeb DEF Tidy
<1>21. Bounds'
  <2>1. n + 1 \in Counter
    BY <1>8, <1>9, CounterIs, FilesAre
  <2>. QED
    BY <1>6, <1>14, <2>1 DEF Tidy, Bounds
<1>22. Gamestates'
  BY <1>4, <1>6, NoneComes
<1>. QED
  BY <1>18, <1>19, <1>20, <1>21, <1>22 DEF Tidy

(* The block asked for has come: the server is at the file, and past it. *)
LEMMA OwnHead ==
  ASSUME Base, NEW j \in Nat, NEW m \in Nat, Fetching(j, m), 1 \in 1 .. Len(down),
         Own(down[1]), down[1].kind = "block", down[1].block = N, ~cl.bWWWDl,
         NEW f \in Files, NEW n \in Nat, f = F, n = N
  PROVE  /\ n <= Blocks[f] /\ down[1].data = BlockOf(f, n)
         /\ \/ Zombie
            \/ /\ sv.downloadName = f /\ Reached(f, n, m - j, j)
               /\ n < sv.downloadCurrentBlock
<1>1. OwnComes /\ ~NoOwn /\ ~Aborts
  BY DEF OwnComes, NoOwn, OwnBlock, Aborts, OnWeb
<1>2. n <= Blocks[f] /\ (down[1].data = BlockOf(f, n) \/ n < n)
  BY DEF Fetching, OwnBlocks, OwnBlock
<1>3. Zombie \/ (sv.downloadName = f /\ OwnBelow /\ Reached(f, n, m - j, j))
  BY <1>1 DEF Fetching, Serving
<1>4. OwnBelow => n < sv.downloadCurrentBlock
  BY DEF OwnBelow, OwnBlock
<1>. QED
  BY <1>2, <1>3, <1>4

(* The client turns to another file, or to none. *)
LEMMA Leaves ==
  ASSUME Base, Gamestates, Tidy, NEW kind, Reads(kind), NoForeign, NoGamestate,
         NEW f \in Files, f = F, sv.top[f] >= 1, ~cl.bWWWDl, cl'.bWWWDl = cl.bWWWDl,
         cl'.bWWWDlAborting = cl.bWWWDlAborting,
         \A i \in 1 .. Len(down) : 1 < i /\ Own(down[i]) => down[i].again \/ down[i].block > 0,
         NEW g, Asked(g), g # f, g = None => N' \in Counter
  PROVE  /\ Foreigns' /\ NoOwn' /\ Webbed' /\ WebClient' /\ WebServer' /\ Bounds' /\ Gamestates'
         /\ Fresh' /\ F' = g /\ sv' = sv
<1>1. down \in Seq(Message) /\ sv' = sv /\ bDlOK' = bDlOK /\ Loses(1)
  BY BaseGives DEF Reads
<1>2. Follows(1)
  BY <1>1, LosesFollow
<1>3. F' = g /\ (g = None \/ N' = 0)
  BY DEF Asked
<1>4. Fresh'
  BY <1>3 DEF Fresh
<1>5. \A i \in 1 .. Len(down') : Data(down'[i]) => down'[i].again \/ down'[i].block > 0
  <2>1. \A i \in 1 .. Len(down') : Data(down'[i]) => i + 1 \in 1 .. Len(down) /\ down'[i] = down[i + 1]
    BY <1>2 DEF Follows
  <2>2. \A i \in 1 .. Len(down') : 1 < i + 1
    OBVIOUS
  <2>3. \A i \in 1 .. Len(down') : Data(down'[i]) => Own(down[i + 1])
    BY <2>1 DEF NoForeign, Foreign, Own
  <2>. QED
    BY <2>1, <2>2, <2>3
<1>6. Foreigns' /\ NoOwn' /\ Webbed'
  BY <1>2, <1>3, <1>4, <1>5, Turns
<1>7. WebClient' /\ WebServer'
  <2>1. ~cl'.bWWWDl /\ ~cl'.bWWWDlAborting /\ ~Aborts
    BY DEF Tidy, WebClient, Aborts, OnWeb
  <2>. QED
    BY <1>1, <1>2, <2>1, OffWeb DEF Tidy
<1>8. N' \in Counter
  BY <1>3, CounterIs
<1>9. Bounds'
  BY <1>1, <1>8 DEF Tidy, Bounds
<1>10. Gamestates'
  BY <1>1, NoneComes
<1>. QED
  BY <1>1, <1>3, <1>4, <1>6, <1>7, <1>9, <1>10

LEMMA CleanEOF ==
  ASSUME Base, Clean, Gamestates, Tidy, ReceiveEOF
  PROVE  mixed' # "first" /\ (Clean' => Gamestates' /\ Tidy')
<1>0. Types /\ Restarts
  BY DEF Base
<1>1. /\ Taken /\ down[1].data.part = 0 /\ N \in Nat
      /\ cl'.bWWWDl = cl.bWWWDl /\ cl'.bWWWDlAborting = cl.bWWWDlAborting
      /\ \E g \in {None} \cup Files :
           Asked(g) /\ g # F /\ (g = None => N' = N + 1) /\ AddsBoth(NextdlOf(N), AskFor(g))
  BY <1>0, EOFIsRead
<1>2. Reads("block") /\ F # None /\ down[1].block = N /\ mixed' = Mixes(down[1])
  BY <1>1 DEF Taken
<1>3. /\ mixed' # "first"
      /\ mixed' = "no" =>
           /\ Own(down[1]) /\ ~cl.bWWWDl /\ NoForeign /\ NoGamestate /\ F \in Files
           /\ sv.top[F] >= 1
           /\ \A i \in 1 .. Len(down) : 1 < i /\ Own(down[i]) => down[i].again \/ down[i].block > 0
           /\ \E j, m \in Nat : /\ Fetching(j, m) /\ m = Len(up)
                                /\ Zombie \/ (sv.downloadName = F /\ sv.downloadName # None)
  BY <1>2, HeadIsOwn
<1>. SUFFICES ASSUME Clean' PROVE Gamestates' /\ Tidy'
  BY <1>3
<1>4. /\ Own(down[1]) /\ ~cl.bWWWDl /\ NoForeign /\ NoGamestate /\ F \in Files
      /\ sv.top[F] >= 1
      /\ \A i \in 1 .. Len(down) : 1 < i /\ Own(down[i]) => down[i].again \/ down[i].block > 0
  BY <1>3 DEF Clean
<1>5. PICK j \in Nat, m \in Nat : /\ Fetching(j, m) /\ m = Len(up)
                                  /\ Zombie \/ (sv.downloadName = F /\ sv.downloadName # None)
  BY <1>3 DEF Clean
<1>6. /\ up \in Seq(Batch) /\ sv' = sv /\ Len(up) \in Nat
      /\ 1 \in 1 .. Len(down) /\ down[1].kind = "block"
  BY <1>2, BaseGives DEF Reads
<1>7. PICK f \in Files, n \in Nat : f = F /\ n = N
  BY <1>1, <1>4
<1>8. PICK g \in {None} \cup Files :
        Asked(g) /\ g # f /\ (g = None => N' = n + 1) /\ AddsBoth(NextdlOf(n), AskFor(g))
  BY <1>1, <1>7
<1>9. /\ n <= Blocks[f] /\ down[1].data = BlockOf(f, n)
      /\ \/ Zombie
         \/ /\ sv.downloadName = f /\ Reached(f, n, m - j, j)
            /\ n < sv.downloadCurrentBlock
  BY <1>2, <1>4, <1>5, <1>6, <1>7, OwnHead
<1>10. n = Blocks[f]
  <2>1. n >= Blocks[f]
    BY <1>1, <1>9, BlockOfIs
  <2>. QED
    BY <1>9, <2>1, FilesAre
<1>11. n + 1 \in Counter
  BY <1>10, CounterIs, FilesAre
<1>12. /\ Foreigns' /\ NoOwn' /\ Webbed' /\ WebClient' /\ WebServer' /\ Bounds' /\ Gamestates'
       /\ Fresh' /\ F' = g /\ sv' = sv
  <2>1. g = None => N' \in Counter
    BY <1>8, <1>11
  <2>2. sv.top[f] >= 1
    BY <1>4, <1>7
  <2>. QED
    BY <1>1, <1>2, <1>4, <1>7, <1>8, <2>1, <2>2, Leaves
<1>13. /\ Extends(2) /\ up'[Len(up) + 1].commands = NextdlOf(n)
       /\ up'[Len(up) + 2].commands = AskFor(g)
  BY <1>6, <1>8, ExtendsIs
<1>14. Conv(f, n + 1, j, m + 1)'
  BY <1>5, <1>7, <1>13, ConvNext DEF Fetching
<1>15. m + 1 = Len(up') - 1 /\ up'[m + 2].commands = AskFor(g)
  BY <1>5, <1>6, <1>13 DEF Extends
<1>16. Ending(m + 1, "ask")'
  <2>1. (m + 1) + 1 = m + 2
    OBVIOUS
  <2>. QED
    BY <1>12, <1>15, <2>1 DEF Ending, Says
<1>17. Finishing(f, n + 1, j, m + 1, "ask")'
  <2>1. CASE Zombie
    BY <1>6, <2>1 DEF Finishing, Zombie
  <2>2. CASE ~Zombie
    <3>1. sv.downloadName = f /\ Reached(f, n, m - j, j) /\ n < sv.downloadCurrentBlock
      BY <1>9, <2>2
    <3>2. m - j \in Nat /\ (m + 1) - j = (m - j) + 1 /\ m + 1 > j
      BY <1>5 DEF Fetching, Conv
    <3>3. Reached(f, n + 1, (m + 1) - j, j)'
      BY <1>6, <3>1, <3>2, MoreReached
    <3>. QED
      BY <1>6, <1>10, <3>1, <3>2, <3>3 DEF Finishing
  <2>. QED
    BY <2>1, <2>2
<1>18. Asking(f, n + 1, j, m + 1, "ask")'
  <2>1. sv'.top[f] >= 1 /\ f # F'
    BY <1>4, <1>6, <1>7, <1>8, <1>12
  <2>. QED
    BY <1>12, <1>14, <1>16, <1>17, <2>1 DEF Asking
<1>19. Phases'
  <2>1. m + 1 \in Nat /\ n + 1 \in Nat /\ "ask" \in Endings
    BY DEF Endings
  <2>. QED
    BY <1>18, <2>1 DEF Phases
<1>. QED
  BY <1>12, <1>19 DEF Tidy

LEMMA CleanUnwritable ==
  ASSUME Base, Clean, Gamestates, Tidy, ReceiveUnwritable
  PROVE  mixed' # "first" /\ (Clean' => Gamestates' /\ Tidy')
<1>0. Types /\ Restarts
  BY DEF Base
<1>1. /\ Taken /\ cl'.bWWWDl = cl.bWWWDl /\ cl'.bWWWDlAborting = cl.bWWWDlAborting
      /\ \E g \in {None} \cup Files :
           Asked(g) /\ g # F /\ (g = None => N' = N) /\ Adds(StopAsk(g))
  BY <1>0, UnwritableIsRead
<1>2. Reads("block") /\ F # None /\ down[1].block = N /\ mixed' = Mixes(down[1])
  BY <1>1 DEF Taken
<1>3. /\ mixed' # "first"
      /\ mixed' = "no" =>
           /\ Own(down[1]) /\ ~cl.bWWWDl /\ NoForeign /\ NoGamestate /\ F \in Files
           /\ sv.top[F] >= 1
           /\ \A i \in 1 .. Len(down) : 1 < i /\ Own(down[i]) => down[i].again \/ down[i].block > 0
           /\ \E j, m \in Nat : /\ Fetching(j, m) /\ m = Len(up)
                                /\ Zombie \/ (sv.downloadName = F /\ sv.downloadName # None)
  BY <1>2, HeadIsOwn
<1>. SUFFICES ASSUME Clean' PROVE Gamestates' /\ Tidy'
  BY <1>3
<1>4. /\ Own(down[1]) /\ ~cl.bWWWDl /\ NoForeign /\ NoGamestate /\ F \in Files
      /\ sv.top[F] >= 1
      /\ \A i \in 1 .. Len(down) : 1 < i /\ Own(down[i]) => down[i].again \/ down[i].block > 0
  BY <1>3 DEF Clean
<1>5. PICK j \in Nat, m \in Nat : /\ Fetching(j, m) /\ m = Len(up)
                                  /\ Zombie \/ (sv.downloadName = F /\ sv.downloadName # None)
  BY <1>3 DEF Clean
<1>6. /\ up \in Seq(Batch) /\ sv' = sv /\ Len(up) \in Nat
      /\ 1 \in 1 .. Len(down) /\ down[1].kind = "block" /\ N \in Nat
  BY <1>2, BaseGives DEF Reads
<1>7. PICK f \in Files, n \in Nat : f = F /\ n = N
  BY <1>4, <1>6
<1>8. PICK g \in {None} \cup Files :
        Asked(g) /\ g # f /\ (g = None => N' = n) /\ Adds(StopAsk(g))
  BY <1>1, <1>7
<1>9. /\ n <= Blocks[f]
      /\ Zombie \/ (sv.downloadName = f /\ Reached(f, n, m - j, j))
  BY <1>2, <1>4, <1>5, <1>6, <1>7, OwnHead
<1>12. /\ Foreigns' /\ NoOwn' /\ Webbed' /\ WebClient' /\ WebServer' /\ Bounds' /\ Gamestates'
       /\ Fresh' /\ F' = g /\ sv' = sv
  <2>1. g = None => N' \in Counter
    BY <1>7, <1>8 DEF Tidy, Bounds
  <2>2. sv.top[f] >= 1
    BY <1>4, <1>7
  <2>. QED
    BY <1>1, <1>2, <1>4, <1>7, <1>8, <2>1, <2>2, Leaves
<1>13. Extends(1) /\ up'[Len(up) + 1].commands = StopAsk(g)
  BY <1>6, <1>8, ExtendsIs
<1>14. Conv(f, n, j, m)'
  BY <1>5, <1>7, <1>13, ConvExtends DEF Fetching
<1>15. m = Len(up') - 1 /\ up'[m + 1].commands = StopAsk(g)
  BY <1>5, <1>6, <1>13 DEF Extends
<1>16. Ending(m, "stop")'
  BY <1>12, <1>15 DEF Ending, Says
<1>17. Finishing(f, n, j, m, "stop")'
  <2>1. CASE Zombie
    BY <1>6, <2>1 DEF Finishing, Zombie
  <2>2. CASE ~Zombie
    <3>1. sv.downloadName = f /\ Reached(f, n, m - j, j)
      BY <1>9, <2>2
    <3>2. Reached(f, n, m - j, j)'
      BY <1>6, <3>1, StillReached
    <3>. QED
      BY <1>6, <1>9, <3>1, <3>2 DEF Finishing
  <2>. QED
    BY <2>1, <2>2
<1>18. Asking(f, n, j, m, "stop")'
  <2>1. sv'.top[f] >= 1 /\ f # F'
    BY <1>4, <1>6, <1>7, <1>8, <1>12
  <2>. QED
    BY <1>12, <1>14, <1>16, <1>17, <2>1 DEF Asking
<1>19. Phases'
  BY <1>18 DEF Phases, Endings
<1>. QED
  BY <1>12, <1>19 DEF Tidy

(* A gamestate stays the last message. *)
LEMMA GamestateLast ==
  ASSUME down \in Seq(Message), NEW d, Loses(d), Gamestates, cl' = cl, up' = up,
         serverId \in Nat, cl.serverId \in Nat, serverId' \in Nat, serverId' >= serverId,
         sv'.downloadName = sv.downloadName, sv'.lastCommand = sv.lastCommand, Zombie' <=> Zombie
  PROVE  Gamestates'
<1>1. Len(down) \in Nat /\ d \in 0 .. Len(down) /\ Len(down') = Len(down) - d
  BY DEF Loses
<1>2. \A i \in 1 .. Len(down') : i + d \in 1 .. Len(down) /\ down'[i] = down[i + d]
  BY <1>1 DEF Loses
<1>3. \A i \in 1 .. Len(down') : i + d = Len(down) => i = Len(down')
  BY <1>1
<1>4. Idle' <=> Idle
  BY DEF Idle
<1>5. cl.serverId < serverId => cl'.serverId < serverId'
  OBVIOUS
<1>6. Len(up) = 0 \/ (F # None /\ cl.serverId < serverId)
        => Len(up') = 0 \/ (F' # None /\ cl'.serverId < serverId')
  BY <1>5 DEF F
<1>7. \A i \in 1 .. Len(down') : down'[i].kind = "gamestate" =>
        /\ i = Len(down') /\ ~Zombie' /\ Idle'
        /\ Len(up') = 0 \/ (F' # None /\ cl'.serverId < serverId')
  BY <1>2, <1>3, <1>4, <1>6 DEF Gamestates
<1>. QED
  BY <1>7 DEF Gamestates

LEMMA LosesSteady ==
  ASSUME Base, Gamestates, Tidy, NEW d, Loses(d), sv' = sv, cl' = cl, have' = have, up' = up,
         bDlOK' = bDlOK, serverId' = serverId
  PROVE  Gamestates' /\ Tidy'
<1>1. down \in Seq(Message) /\ up \in Seq(Batch) /\ serverId \in Nat /\ cl.serverId \in Nat
  BY BaseGives
<1>2. Follows(d)
  BY <1>1, LosesFollow
<1>3. \E e : Follows(e)
  BY <1>2
<1>4. Zombie' <=> Zombie
  BY DEF Zombie
<1>5. Steady
  BY <1>3, <1>4 DEF Steady, Kept
<1>6. Tidy'
  BY <1>1, <1>5, SteadyKeeps
<1>7. Gamestates'
  BY <1>1, <1>4, GamestateLast
<1>. QED
  BY <1>6, <1>7

LEMMA CleanOther ==
  ASSUME Base, Clean, Gamestates, Tidy, ReceiveOther \/ Lose
  PROVE  mixed' # "first" /\ (Clean' => Gamestates' /\ Tidy')
<1>1. CASE ReceiveOther
  <2>1. Types
    BY DEF Base
  <2>2. Reads("block") /\ cl' = cl /\ have' = have /\ mixed' = mixed /\ up' = up
    BY <1>1, <2>1, OtherIsRead
  <2>3. Loses(1) /\ sv' = sv /\ serverId' = serverId /\ bDlOK' = bDlOK
    BY <2>2 DEF Reads
  <2>. QED
    BY <2>2, <2>3, LosesSteady DEF Clean
<1>2. CASE Lose
  <2>1. down \in Seq(Message)
    BY BaseGives
  <2>2. Loses(1)
    BY <1>2, <2>1, TakenFromDown DEF Lose
  <2>. QED
    BY <1>2, <2>2, LosesSteady DEF Clean, Lose
<1>. QED
  BY <1>1, <1>2

LEMMA CleanRedirect ==
  ASSUME Base, Clean, Gamestates, Tidy, NEW begins \in BOOLEAN, ReceiveRedirect(begins)
  PROVE  mixed' # "first" /\ (Clean' => Gamestates' /\ Tidy')
<1>0. Types
  BY DEF Base
<1>1. /\ Reads("redirect") /\ have' = have /\ F # None
      /\ \/ cl.bWWWDl /\ cl' = cl /\ up' = up /\ mixed' = mixed
         \/ /\ ~cl.bWWWDl /\ cl' \in Client /\ cl'.bWWWDl /\ F' = F /\ N' = N
            /\ cl'.bWWWDlAborting = (cl.bWWWDlAborting \/ ~begins)
            /\ mixed' = Mixes(down[1]) /\ Adds(Answer(begins))
  BY <1>0, RedirectIsRead
<1>2. /\ down \in Seq(Message) /\ up \in Seq(Batch) /\ sv' = sv /\ bDlOK' = bDlOK /\ Loses(1)
      /\ Len(down) \in Nat /\ Len(up) \in Nat /\ 1 \in 1 .. Len(down) /\ down[1].kind = "redirect"
      /\ serverId' = serverId /\ N \in Nat
  BY <1>1, BaseGives DEF Reads
<1>3. CASE cl.bWWWDl
  <2>1. cl' = cl /\ up' = up /\ mixed' = mixed
    BY <1>1, <1>3
  <2>. QED
    BY <1>1, <1>2, <2>1, LosesSteady DEF Clean
<1>4. CASE ~cl.bWWWDl
  <2>1. /\ mixed' # "first"
        /\ mixed' = "no" =>
             /\ Own(down[1]) /\ ~cl.bWWWDl /\ NoForeign /\ NoGamestate /\ F \in Files
             /\ sv.top[F] >= 1
             /\ \A i \in 1 .. Len(down) : 1 < i /\ Own(down[i]) => down[i].again \/ down[i].block > 0
             /\ \E j, m \in Nat : /\ Fetching(j, m) /\ m = Len(up)
                                  /\ Zombie \/ (sv.downloadName = F /\ sv.downloadName # None)
    BY <1>1, <1>4, HeadIsOwn
  <2>. SUFFICES ASSUME Clean' PROVE Gamestates' /\ Tidy'
    BY <2>1
  <2>2. /\ NoForeign /\ NoGamestate /\ F \in Files /\ sv.top[F] >= 1
        /\ \A i \in 1 .. Len(down) : 1 < i /\ Own(down[i]) => down[i].again \/ down[i].block > 0
    BY <2>1 DEF Clean
  <2>3. PICK j \in Nat, m \in Nat : /\ Fetching(j, m) /\ m = Len(up)
                                    /\ Zombie \/ (sv.downloadName = F /\ sv.downloadName # None)
    BY <2>1 DEF Clean
  <2>4. /\ cl' \in Client /\ cl'.bWWWDl /\ F' = F /\ N' = N
        /\ cl'.bWWWDlAborting = (cl.bWWWDlAborting \/ ~begins) /\ Adds(Answer(begins))
    BY <1>1, <1>4
  <2>5. PICK f \in Files, n \in Nat : f = F /\ n = N
    BY <1>2, <2>2
  <2>6. F' = f /\ N' = n
    BY <2>4, <2>5
  <2>7. \A i \in 1 .. Len(down') : Data(down'[i]) => i + 1 \in 1 .. Len(down) /\ down'[i] = down[i + 1]
    BY <1>2, LosesFollow DEF Follows
  <2>8. \A i \in 1 .. Len(down') : down'[i].kind # "block"
    <3>1. \A k \in 1 .. Len(down) : 1 < k => down[k].kind # "block"
      BY <1>2 DEF Tidy, WebClient
    <3>2. \A i \in 1 .. Len(down') : 1 < i + 1
      OBVIOUS
    <3>. QED
      BY <2>7, <3>1, <3>2 DEF Data
  <2>9. Extends(1) /\ up'[Len(up) + 1].commands = Answer(begins)
    BY <1>2, <2>4, ExtendsIs
  <2>10. Conv(f, n, j, m)'
    BY <2>3, <2>5, <2>9, ConvExtends DEF Fetching
  <2>11. Answered(m)'
    <3>1. m = Len(up') - 1 /\ up'[m + 1].commands = Answer(begins)
      BY <1>2, <2>3, <2>9 DEF Extends
    <3>2. CASE begins
      BY <2>4, <3>1, <3>2 DEF Answered, Answer, Says
    <3>3. CASE ~begins
      BY <2>4, <3>1, <3>3 DEF Answered, Answer, Says
    <3>. QED
      BY <3>2, <3>3
  <2>12. OwnBlocks' /\ OwnBelow' /\ ~OwnComes'
    BY <2>8 DEF OwnBlocks, OwnBelow, OwnComes, OwnBlock
  <2>13. Serving(j, m)'
    <3>1. CASE Zombie
      BY <1>2, <3>1 DEF Serving, Zombie
    <3>2. CASE ~Zombie
      <4>1. sv.downloadName = f /\ (sv.download \/ n > 0 => Reached(f, n, m - j, j))
        BY <2>3, <2>5, <3>2, FilesAre DEF Fetching, Serving
      <4>2. Reached(f, n, m - j, j) => Reached(f, n, m - j, j)'
        BY <1>2, StillReached
      <4>. QED
        BY <1>2, <2>6, <2>12, <4>1, <4>2 DEF Serving
    <3>. QED
      BY <3>1, <3>2
  <2>14. Fetching(j, m)'
    <3>1. FirstMissing => FirstMissing'
      BY <1>1, <2>4 DEF FirstMissing
    <3>. QED
      BY <1>1, <2>3, <2>5, <2>6, <2>10, <2>11, <2>12, <2>13, <3>1 DEF Fetching
  <2>15. Phases'
    BY <2>14 DEF Phases
  <2>16. Foreigns'
    BY <2>2, <2>4, <2>7 DEF Foreigns, NoForeign, Foreign, Data
  <2>17. Webbed'
    <3>1. \A i \in 1 .. Len(down') : 1 < i + 1
      OBVIOUS
    <3>2. \A i \in 1 .. Len(down') : Data(down'[i]) /\ down'[i].data.file = f =>
            down'[i].again \/ down'[i].block > 0
      BY <2>2, <2>5, <2>7, <3>1 DEF Own
    <3>3. sv'.top[f] >= 1
      BY <1>2, <2>2, <2>5
    <3>. QED
      BY <2>6, <3>2, <3>3 DEF Webbed, Own
  <2>18. WebClient'
    BY <1>1, <2>4, <2>8 DEF WebClient
  <2>19. WebServer'
    <3>1. RedirectComes /\ ~Aborts
      BY <1>2, <1>4 DEF RedirectComes, Aborts, OnWeb
    <3>2. ~sv.download /\ bDlOK /\ ~sv.bFallback
      BY <3>1 DEF Tidy, WebServer
    <3>. QED
      BY <1>2, <3>2 DEF WebServer
  <2>20. Bounds'
    BY <1>2, <2>4 DEF Tidy, Bounds
  <2>21. Gamestates'
    BY <1>2, <2>2, NoneComes
  <2>. QED
    BY <2>15, <2>16, <2>17, <2>18, <2>19, <2>20, <2>21 DEF Tidy
<1>. QED
  BY <1>3, <1>4

(* The client fetches a file from the web: no other's part comes. *)
LEMMA WebIs ==
  ASSUME Base, Clean, Gamestates, Tidy, Downloading
  PROVE  /\ F # None /\ F \in Files /\ OnWeb /\ ~Aborts /\ NoForeign /\ NoGamestate
         /\ \E j, m \in Nat : /\ Fetching(j, m)
                              /\ Zombie \/ (sv.downloadName = F /\ sv.downloadName # None)
                              /\ m = Len(up) \/ (m = Len(up) - 1 /\ Says(m + 1, Ack))
<1>1. F # None /\ F \in Files /\ OnWeb /\ ~Aborts /\ ~cl.bWWWDlAborting
  BY BaseGives DEF Downloading, Tidy, WebClient, OnWeb, Aborts
<1>2. ~Fresh
  BY <1>1 DEF Fresh, OnWeb
<1>3. NoForeign
  BY <1>2 DEF Tidy, Foreigns, NoForeign
<1>4. PICK j \in Nat, m \in Nat : Fetching(j, m)
  BY <1>1, <1>2 DEF Tidy, Phases, Waiting, Asking
<1>5. NoGamestate /\ (Zombie \/ (sv.downloadName = F /\ sv.downloadName # None))
  BY <1>1, <1>4, FetchingIs
<1>6. m = Len(up) \/ (m = Len(up) - 1 /\ Says(m + 1, Ack))
  BY <1>1, <1>4 DEF Fetching, Answered
<1>. QED
  BY <1>1, <1>3, <1>4, <1>5, <1>6

LEMMA CleanWWWDone ==
  ASSUME Base, Clean, Gamestates, Tidy, WWWDone
  PROVE  mixed' # "first" /\ Gamestates' /\ Tidy'
<1>0. Types /\ Restarts /\ Downloading
  BY DEF Base, WWWDone
<1>1. /\ F # None /\ F \in Files /\ OnWeb /\ ~Aborts /\ NoForeign /\ NoGamestate
      /\ \E j, m \in Nat : /\ Fetching(j, m)
                           /\ Zombie \/ (sv.downloadName = F /\ sv.downloadName # None)
                           /\ m = Len(up) \/ (m = Len(up) - 1 /\ Says(m + 1, Ack))
  BY <1>0, WebIs
<1>2. /\ OffLine /\ ~cl'.bWWWDl /\ cl'.bWWWDlAborting = cl.bWWWDlAborting
      /\ \E g \in {None} \cup Files : Asked(g) /\ g # F /\ (g = None => N' = N) /\ Adds(DoneAsk(g))
  BY <1>0, <1>1, WWWDoneIs
<1>3. /\ down \in Seq(Message) /\ up \in Seq(Batch) /\ sv' = sv /\ bDlOK' = bDlOK /\ mixed' = mixed
      /\ down' = down /\ N \in Nat /\ Len(up) \in Nat
  BY <1>2, BaseGives DEF OffLine
<1>4. Loses(0) /\ Follows(0)
  BY <1>3, LosesNone, LosesFollow
<1>5. PICK j \in Nat, m \in Nat : /\ Fetching(j, m)
                                  /\ Zombie \/ (sv.downloadName = F /\ sv.downloadName # None)
                                  /\ m = Len(up) \/ (m = Len(up) - 1 /\ Says(m + 1, Ack))
  BY <1>1
<1>6. PICK f \in Files, n \in Nat : f = F /\ n = N
  BY <1>1, <1>3
<1>7. PICK g \in {None} \cup Files : Asked(g) /\ g # f /\ (g = None => N' = n) /\ Adds(DoneAsk(g))
  BY <1>2, <1>6
<1>8. F' = g /\ (g = None \/ N' = 0) /\ F' # f
  BY <1>7 DEF Asked
<1>9. Fresh'
  BY <1>2, <1>8 DEF Fresh
<1>10. sv.top[f] >= 1 /\ \A i \in 1 .. Len(down) : Own(down[i]) => down[i].again \/ down[i].block > 0
  BY <1>1, <1>6 DEF Tidy, Webbed
<1>11. \A i \in 1 .. Len(down') : Data(down'[i]) => down'[i].again \/ down'[i].block > 0
  BY <1>1, <1>3, <1>10 DEF NoForeign, Foreign, Own
<1>12. Foreigns' /\ NoOwn' /\ Webbed'
  BY <1>1, <1>4, <1>6, <1>8, <1>9, <1>11, Turns
<1>13. WebClient' /\ WebServer'
  <2>1. ~cl'.bWWWDlAborting
    BY <1>0, <1>2 DEF Downloading
  <2>. QED
    BY <1>1, <1>2, <1>3, <1>4, <2>1, OffWeb DEF Tidy
<1>14. Bounds'
  <2>1. N' \in Counter
    BY <1>6, <1>7, <1>8, CounterIs DEF Tidy, Bounds
  <2>. QED
    BY <1>3, <2>1 DEF Tidy, Bounds
<1>15. Gamestates'
  BY <1>1, <1>3, <1>4, NoneComes
<1>16. Extends(1) /\ up'[Len(up) + 1].commands = DoneAsk(g)
  BY <1>3, <1>7, ExtendsIs
<1>17. Conv(f, n, j, m)'
  BY <1>5, <1>6, <1>16, ConvExtends DEF Fetching
<1>18. Ending(m, "web")'
  <2>1. CASE m = Len(up)
    BY <1>3, <1>8, <1>16, <2>1 DEF Ending, Says, Extends
  <2>2. CASE m = Len(up) - 1 /\ Says(m + 1, Ack)
    <3>1. m + 1 = Len(up) /\ up'[m + 1] = up[m + 1] /\ m = Len(up') - 2
      BY <1>3, <1>16, <2>2 DEF Extends
    <3>2. up'[m + 2].commands = DoneAsk(F')
      BY <1>3, <1>8, <1>16, <2>2
    <3>. QED
      BY <2>2, <3>1, <3>2 DEF Ending, Says
  <2>. QED
    BY <1>5, <2>1, <2>2
<1>19. Finishing(f, n, j, m, "web")'
  <2>1. n <= Blocks[f]
    BY <1>5, <1>6 DEF Fetching
  <2>2. CASE Zombie
    BY <1>3, <2>2 DEF Finishing, Zombie
  <2>3. CASE ~Zombie
    <3>1. sv.downloadName = f /\ (sv.download \/ n > 0 => Reached(f, n, m - j, j))
      BY <1>5, <1>6, <2>3 DEF Fetching, Serving
    <3>2. Reached(f, n, m - j, j) => Reached(f, n, m - j, j)'
      BY <1>3, StillReached
    <3>. QED
      BY <1>3, <2>1, <3>1, <3>2 DEF Finishing
  <2>. QED
    BY <2>2, <2>3
<1>20. Asking(f, n, j, m, "web")'
  <2>1. sv'.top[f] >= 1 /\ f # F'
    BY <1>3, <1>8, <1>10
  <2>. QED
    BY <1>9, <1>12, <1>17, <1>18, <1>19, <2>1 DEF Asking
<1>21. Phases'
  BY <1>20 DEF Phases, Endings
<1>. QED
  BY <1>3, <1>12, <1>13, <1>14, <1>15, <1>21 DEF Tidy, Clean

LEMMA CleanWWWFail ==
  ASSUME Base, Clean, Gamestates, Tidy, WWWFail
  PROVE  mixed' # "first" /\ Gamestates' /\ Tidy'
<1>0. Types /\ Downloading
  BY DEF Base, WWWFail
<1>1. /\ F # None /\ F \in Files /\ OnWeb /\ ~Aborts /\ NoForeign /\ NoGamestate
      /\ \E j, m \in Nat : /\ Fetching(j, m)
                           /\ Zombie \/ (sv.downloadName = F /\ sv.downloadName # None)
                           /\ m = Len(up) \/ (m = Len(up) - 1 /\ Says(m + 1, Ack))
  BY <1>0, WebIs
<1>2. /\ OffLine /\ have' = have /\ cl'.bWWWDl = cl.bWWWDl /\ cl'.bWWWDlAborting
      /\ F' = F /\ N' = N /\ Adds(Fail)
  BY <1>0, WWWFailIs
<1>3. /\ down \in Seq(Message) /\ up \in Seq(Batch) /\ sv' = sv /\ bDlOK' = bDlOK /\ mixed' = mixed
      /\ down' = down /\ N \in Nat /\ Len(up) \in Nat
  BY <1>2, BaseGives DEF OffLine
<1>4. Loses(0)
  BY <1>3, LosesNone
<1>5. PICK j \in Nat, m \in Nat : /\ Fetching(j, m)
                                  /\ Zombie \/ (sv.downloadName = F /\ sv.downloadName # None)
                                  /\ m = Len(up) \/ (m = Len(up) - 1 /\ Says(m + 1, Ack))
  BY <1>1
<1>6. PICK f \in Files, n \in Nat : f = F /\ n = N
  BY <1>1, <1>3
<1>7. F' = f /\ N' = n /\ (OnWeb' <=> OnWeb)
  BY <1>2, <1>6 DEF OnWeb
<1>8. Extends(1) /\ up'[Len(up) + 1].commands = Fail
  BY <1>2, <1>3, ExtendsIs
<1>9. Conv(f, n, j, m)'
  BY <1>5, <1>6, <1>8, ConvExtends DEF Fetching
<1>10. cl'.bWWWDl
  BY <1>1, <1>2 DEF OnWeb
<1>11. Answered(m)'
  <2>1. CASE m = Len(up)
    BY <1>2, <1>3, <1>8, <1>10, <2>1 DEF Answered, Says, Extends
  <2>2. CASE m = Len(up) - 1 /\ Says(m + 1, Ack)
    <3>1. m + 1 = Len(up) /\ up'[m + 1] = up[m + 1] /\ m = Len(up') - 2
      BY <1>3, <1>8, <2>2 DEF Extends
    <3>2. up'[m + 2].commands = Fail
      BY <1>3, <1>8, <2>2
    <3>. QED
      BY <1>2, <1>10, <2>2, <3>1, <3>2 DEF Answered, Says
  <2>. QED
    BY <1>5, <2>1, <2>2
<1>12. OwnBlocks' /\ (OwnBelow => OwnBelow') /\ (OwnComes' => OwnComes)
  BY <1>2, <1>3, <1>5 DEF Fetching, OwnBlocks, OwnBelow, OwnComes, OwnBlock, Own
<1>13. Serving(j, m)'
  <2>1. CASE Zombie
    BY <1>3, <2>1 DEF Serving, Zombie
  <2>2. CASE ~Zombie
    <3>1. /\ sv.downloadName = f /\ OwnBelow
          /\ (sv.download \/ n > 0 \/ OwnComes => Reached(f, n, m - j, j))
      BY <1>5, <1>6, <2>2 DEF Fetching, Serving
    <3>2. Reached(f, n, m - j, j) => Reached(f, n, m - j, j)'
      BY <1>3, StillReached
    <3>. QED
      BY <1>3, <1>7, <1>12, <3>1, <3>2 DEF Serving
  <2>. QED
    BY <2>1, <2>2
<1>14. Fetching(j, m)'
  <2>1. FirstMissing => FirstMissing'
    BY <1>2 DEF FirstMissing
  <2>. QED
    BY <1>1, <1>5, <1>6, <1>7, <1>9, <1>11, <1>12, <1>13, <2>1 DEF Fetching
<1>15. Phases'
  BY <1>14 DEF Phases
<1>16. Foreigns'
  BY <1>1, <1>2, <1>3 DEF Foreigns, NoForeign, Foreign
<1>17. Webbed'
  BY <1>2, <1>3, <1>7 DEF Tidy, Webbed, Own
<1>18. WebClient'
  BY <1>1, <1>2, <1>3, <1>7, <1>10 DEF Tidy, WebClient
<1>19. WebServer'
  <2>1. ~sv.download /\ bDlOK /\ ~sv.bFallback
    BY <1>1 DEF Tidy, WebServer
  <2>. QED
    BY <1>3, <2>1 DEF WebServer
<1>20. Bounds'
  BY <1>2, <1>3 DEF Tidy, Bounds
<1>21. Gamestates'
  BY <1>1, <1>3, <1>4, NoneComes
<1>. QED
  BY <1>3, <1>15, <1>16, <1>17, <1>18, <1>19, <1>20, <1>21 DEF Tidy, Clean

LEMMA CleanGamestate ==
  ASSUME Base, Clean, Gamestates, Tidy, ReceiveGamestate
  PROVE  mixed' # "first" /\ (Clean' => Gamestates' /\ Tidy')
<1>0. Types
  BY DEF Base
<1>1. /\ Reads("gamestate") /\ have' = have /\ mixed' = mixed
      /\ ~cl'.bWWWDl /\ ~cl'.bWWWDlAborting
      /\ \/ have = Files /\ cl'.mode = "loading" /\ F' = None /\ up' = up
         \/ /\ Asked(F') /\ F' \in Files \ have /\ \A g \in Files \ have : F' <= g
            /\ Adds(AskFor(F'))
  BY <1>0, GamestateIsRead
<1>2. /\ down \in Seq(Message) /\ up \in Seq(Batch) /\ sv' = sv /\ bDlOK' = bDlOK /\ Loses(1)
      /\ Len(down) \in Nat /\ Len(up) \in Nat /\ 1 \in 1 .. Len(down) /\ down[1].kind = "gamestate"
  BY <1>1, BaseGives DEF Reads
<1>3. 1 = Len(down) /\ ~Zombie /\ Idle
  BY <1>2 DEF Gamestates
<1>4. Len(down') = 0
  BY <1>2, <1>3 DEF Loses
<1>. SUFFICES ASSUME Clean' PROVE Gamestates' /\ Tidy'
  BY <1>1 DEF Clean
<1>5. /\ Asked(F') /\ F' \in Files \ have /\ \A g \in Files \ have : F' <= g
      /\ Adds(AskFor(F'))
  BY <1>1 DEF Clean, Connected
<1>6. PICK f \in Files : f = F' /\ f \notin have /\ \A g \in Files \ have : f <= g
  BY <1>5
<1>7. N' = 0 /\ Fresh' /\ f # None
  BY <1>1, <1>5, <1>6, FilesAre DEF Asked, Fresh
<1>8. \A i \in Nat : 1 <= i /\ i <= Len(up) => up[i].commands = AskFor(f)
  <2>1. CASE Len(up) = 0
    BY <2>1
  <2>2. CASE Len(up) # 0
    <3>1. ~Waiting
      BY <2>2 DEF Waiting
    <3>2. \A h \in Files, n, j, m \in Nat, e \in Endings : ~Asking(h, n, j, m, e)
      BY <1>3, FilesAre DEF Asking, Finishing, Idle
    <3>3. PICK j \in Nat, m \in Nat : Fetching(j, m)
      BY <3>1, <3>2 DEF Tidy, Phases
    <3>4. j = Len(up)
      BY <1>3, <2>2, <3>3 DEF Fetching, Serving, Idle
    <3>5. FirstMissing /\ F \in Files
      BY <1>2, <2>2, <3>3, <3>4, BaseGives DEF Fetching
    <3>6. F <= f /\ f <= F
      BY <1>6, <3>5 DEF FirstMissing
    <3>7. F = f
      BY <3>5, <3>6, FilesAre
    <3>. QED
      BY <3>3, <3>4, <3>7 DEF Fetching, Conv, Says
  <2>. QED
    BY <2>1, <2>2
<1>9. Extends(1) /\ up'[Len(up) + 1].commands = AskFor(f)
  BY <1>2, <1>5, <1>6, ExtendsIs
<1>10. PICK k \in Nat : k = Len(up) + 1
  BY <1>2
<1>11. /\ Len(up') = k
       /\ \A i \in Nat : 1 <= i /\ i <= k => up'[i].commands = AskFor(f)
  <2>1. \A i \in Nat : 1 <= i /\ i <= k => i <= Len(up) \/ i = k
    BY <1>2, <1>10
  <2>2. \A i \in Nat : 1 <= i /\ i <= Len(up) => up'[i] = up[i]
    BY <1>9 DEF Extends
  <2>. QED
    BY <1>8, <1>9, <1>10, <2>1, <2>2 DEF Extends
<1>12. Conv(f, 0, k, k)'
  BY <1>10, <1>11 DEF Conv, Says
<1>13. NoOwn' /\ OwnBlocks' /\ Foreigns' /\ ~RedirectComes' /\ Gamestates'
  BY <1>4 DEF NoOwn, OwnBlocks, Foreigns, RedirectComes, Gamestates
<1>14. Fetching(k, k)'
  <2>1. Serving(k, k)'
    BY <1>2, <1>3, <1>7, <1>11, <1>13 DEF Serving, Idle
  <2>2. FirstMissing'
    BY <1>1, <1>6 DEF FirstMissing
  <2>3. F' = f /\ N' = 0 /\ 0 <= Blocks[f]
    BY <1>6, <1>7, FilesAre
  <2>4. Answered(k)'
    BY <1>11 DEF Answered
  <2>. QED
    BY <1>7, <1>12, <1>13, <2>1, <2>2, <2>3, <2>4 DEF Fetching
<1>15. Phases'
  BY <1>14 DEF Phases
<1>16. Webbed' /\ WebClient' /\ WebServer'
  BY <1>1, <1>4, <1>13 DEF Webbed, WebClient, WebServer, OnWeb
<1>17. Bounds'
  BY <1>2, <1>7, CounterIs DEF Tidy, Bounds
<1>. QED
  BY <1>13, <1>15, <1>16, <1>17 DEF Tidy

-----------------------------------------------------------------------------
(* The server's steps that leave the download alone. *)

LEMMA UntouchedGives ==
  ASSUME Untouched
  PROVE  /\ Kept(sv, sv') /\ sv'.downloadClientBlock = sv.downloadClientBlock
         /\ sv'.downloadName = sv.downloadName /\ sv'.download = sv.download
         /\ sv'.bFallback = sv.bFallback /\ sv'.top = sv.top
  BY DEF Untouched, Kept

LEMMA CleanWaits ==
  ASSUME Base, Clean, Gamestates, Tidy, Quiet \/ NewLevel \/ UNCHANGED vars
  PROVE  mixed' # "first" /\ Gamestates' /\ Tidy'
<1>0. Types
  BY DEF Base
<1>1. /\ down \in Seq(Message) /\ up \in Seq(Batch) /\ serverId \in Nat /\ cl.serverId \in Nat
  BY BaseGives
<1>2. /\ down' = down /\ up' = up /\ cl' = cl /\ have' = have /\ bDlOK' = bDlOK /\ mixed' = mixed
      /\ Kept(sv, sv') /\ sv'.downloadClientBlock = sv.downloadClientBlock
      /\ sv'.downloadName = sv.downloadName /\ sv'.download = sv.download
      /\ sv'.bFallback = sv.bFallback /\ sv'.lastCommand = sv.lastCommand
      /\ (Zombie' <=> Zombie) /\ serverId' \in Nat /\ serverId' >= serverId
  <2>1. CASE Quiet
    BY <1>0, <1>1, <2>1, QuietIs, UntouchedGives DEF Stays, Zombie
  <2>2. CASE NewLevel
    BY <1>0, <1>1, <2>2, NewLevelIs, UntouchedGives DEF Zombie
  <2>3. CASE UNCHANGED vars
    BY <1>1, <2>3 DEF vars, Kept, Zombie
  <2>. QED
    BY <2>1, <2>2, <2>3
<1>3. Loses(0)
  BY <1>1, <1>2, LosesNone
<1>4. \E d : Follows(d)
  BY <1>1, <1>3, LosesFollow
<1>5. Steady
  BY <1>2, <1>4 DEF Steady
<1>6. Tidy'
  BY <1>1, <1>5, SteadyKeeps
<1>7. Gamestates'
  BY <1>1, <1>2, <1>3, GamestateLast
<1>. QED
  BY <1>2, <1>6, <1>7 DEF Clean

(* The only gamestate under way is the one just sent. *)
LEMMA GamestatePosted ==
  ASSUME down \in Seq(Message), NoGamestate, NEW msg, Posts(msg), ~Zombie', Idle',
         Len(up') = 0 \/ (F' # None /\ cl'.serverId < serverId')
  PROVE  Gamestates'
<1>1. PICK d \in 0 .. 1 :
        \A i \in 1 .. Len(down') : i < Len(down') => i + d \in 1 .. Len(down) /\ down'[i] = down[i + d]
  BY PostedIs
<1>2. Len(down') \in Nat
  BY PostedIs
<1>3. \A i \in 1 .. Len(down') : i < Len(down') \/ i = Len(down')
  BY <1>2
<1>4. \A i \in 1 .. Len(down') : down'[i].kind = "gamestate" => i = Len(down')
  BY <1>1, <1>3 DEF NoGamestate
<1>. QED
  BY <1>4 DEF Gamestates

LEMMA GamestateSent ==
  ASSUME Base, down' = Sent(Gamestate)
  PROVE  Posts(Gamestate) /\ (\E d : Follows(d))
<1>1. down \in Seq(Message) /\ Len(down) <= MaxInFlight /\ serverId \in Nat
  BY BaseGives DEF Base, Types
<1>2. Gamestate \in Message /\ Gamestate.kind = "gamestate"
  BY <1>1, GamestateIs
<1>3. Posts(Gamestate)
  BY <1>1, <1>2, SentIs
<1>4. ~Data(Gamestate)
  BY <1>2 DEF Data
<1>. QED
  BY <1>1, <1>3, <1>4, PostsFollow

(* A gamestate is under way to a client of an old level only. *)
LEMMA LostIs ==
  ASSUME Base, GamestateLost
  PROVE  NoGamestate /\ cl.serverId < serverId
<1>1. /\ down \in Seq(Message) /\ cl.serverId \in Nat /\ serverId \in Nat
      /\ cl.serverId <= serverId
  BY BaseGives DEF Base, Stamps
<1>2. DOMAIN down = 1 .. Len(down)
  BY <1>1
<1>. QED
  BY <1>1, <1>2 DEF GamestateLost, NoGamestate

(* An idle server whose client has more to say. *)
LEMMA IdleFetching ==
  ASSUME Tidy, ~Zombie, Idle
  PROVE  \/ Waiting
         \/ \E j, m \in Nat : Fetching(j, m)
<1>1. \A f \in Files, n, j, m \in Nat, e \in Endings : ~Asking(f, n, j, m, e)
  BY FilesAre DEF Asking, Finishing, Idle
<1>. QED
  BY <1>1 DEF Tidy, Phases

LEMMA CleanResend ==
  ASSUME Base, Clean, Gamestates, Tidy, ResendGamestate
  PROVE  mixed' # "first" /\ Gamestates' /\ Tidy'
<1>0. Types
  BY DEF Base
<1>1. /\ down \in Seq(Message) /\ up \in Seq(Batch) /\ serverId \in Nat /\ cl.serverId \in Nat
  BY BaseGives
<1>2. /\ Stays /\ up' = up /\ sv'.state # "zombie" /\ sv.state # "zombie"
      /\ sv'.lastCommand = sv.lastCommand
      /\ OldLevel(cl.serverId) /\ GamestateLost /\ down' = Sent(Gamestate)
      /\ Kept(sv, sv') /\ sv'.downloadClientBlock = sv.downloadClientBlock
      /\ sv'.downloadName = sv.downloadName /\ sv'.download = sv.download
      /\ sv'.bFallback = sv.bFallback /\ sv'.top = sv.top
  BY <1>0, ResendingIs, UntouchedGives
<1>3. Posts(Gamestate) /\ (\E d : Follows(d))
  BY <1>2, GamestateSent
<1>4. Steady
  BY <1>2, <1>3 DEF Steady, Stays, Zombie
<1>5. Tidy'
  BY <1>1, <1>4, SteadyKeeps
<1>6. ~Zombie /\ Idle /\ ~Zombie' /\ Idle'
  BY <1>2 DEF OldLevel, Idle, Zombie
<1>7. NoGamestate /\ cl.serverId < serverId
  BY <1>2, LostIs
<1>8. Len(up) = 0 \/ F # None
  BY <1>6, IdleFetching DEF Waiting, Fetching
<1>9. Gamestates'
  <2>1. Len(up') = 0 \/ (F' # None /\ cl'.serverId < serverId')
    BY <1>2, <1>7, <1>8 DEF Stays, F
  <2>. QED
    BY <1>1, <1>3, <1>6, <1>7, <2>1, GamestatePosted
<1>. QED
  BY <1>2, <1>5, <1>9 DEF Clean, Stays

(* A batch is read: what holds if the phase does. *)
LEMMA TakesTidy ==
  ASSUME Base, Tidy, Stays, Takes, NEW d, Follows(d), sv'.top = sv.top,
         sv'.downloadXmitBlock = sv.downloadXmitBlock, sv'.downloadClientBlock \in Counter,
         sv'.download => sv.download,
         \/ sv'.bFallback = sv.bFallback
         \/ Aborts /\ sv'.downloadName = None /\ Len(up') = 0,
         Phases'
  PROVE  Tidy'
<1>1. /\ cl' = cl /\ bDlOK' = bDlOK /\ Len(up) > 0 /\ Len(up) \in Nat
  BY BaseGives DEF Stays, Takes
<1>2. /\ Foreigns' /\ WebClient' /\ Webbed'
      /\ N' = N /\ (OnWeb' <=> OnWeb) /\ (Aborts' <=> Aborts) /\ (RedirectComes' => RedirectComes)
  BY <1>1, FollowKeeps DEF Tidy
<1>3. WebServer'
  <2>1. OnWeb \/ RedirectComes => ~sv.bFallback /\ ~sv.download /\ bDlOK
    BY <1>1 DEF Tidy, WebServer
  <2>. QED
    BY <1>1, <1>2, <2>1 DEF WebServer
<1>4. Bounds'
  BY <1>2 DEF Tidy, Bounds
<1>. QED
  BY <1>2, <1>3, <1>4 DEF Tidy

LEMMA AskIs ==
  ASSUME NEW f, f # None
  PROVE  Last(AskFor(f)).cmd = "download"
<1>1. AskFor(f) = <<Cmd("download", f)>>
  BY DEF AskFor, Asks
<1>2. Len(AskFor(f)) = 1 /\ AskFor(f)[1] = Cmd("download", f)
  BY <1>1, OneHas
<1>3. Last(AskFor(f)) = Cmd("download", f)
  BY <1>2 DEF Last
<1>. QED
  BY <1>3 DEF Cmd

LEMMA CleanIgnore ==
  ASSUME Base, Clean, Gamestates, Tidy, NEW level, IgnoreBatch(level)
  PROVE  mixed' # "first" /\ Gamestates' /\ Tidy'
<1>0. Types /\ down \in Seq(Message) /\ up \in Seq(Batch) /\ serverId \in Nat /\ cl.serverId \in Nat
      /\ Len(up) \in Nat
  BY BaseGives DEF Base
<1>1. TakesPacket(level)
  BY <1>0, PacketIs
<1>2. Takes /\ Stays /\ ~Zombie /\ Len(up) > 0
  BY <1>1 DEF TakesPacket, Takes, Zombie
<1>3. IsBatch(up[1].commands)
  BY <1>0, <1>2 DEF Base, Batches
<1>4. /\ OldLevel(level) /\ Untouched /\ ~Zombie'
      /\ sv'.lastCommand = Last(up[1].commands).cmd
      /\ down' = IF GamestateLost THEN Sent(Gamestate) ELSE down
  BY <1>0, <1>3, IgnoringIs DEF Zombie
<1>5. /\ Kept(sv, sv') /\ sv'.downloadClientBlock = sv.downloadClientBlock
      /\ sv'.downloadName = sv.downloadName /\ sv'.download = sv.download
      /\ sv'.bFallback = sv.bFallback /\ sv'.top = sv.top
      /\ sv'.downloadXmitBlock = sv.downloadXmitBlock
  BY <1>4, UntouchedGives DEF Kept
<1>6. Idle
  BY <1>4 DEF OldLevel, Idle
<1>7. PICK j \in Nat, m \in Nat : Fetching(j, m)
  BY <1>2, <1>6, IdleFetching DEF Waiting
<1>8. Fresh /\ NoOwn /\ j = Len(up) /\ F # None /\ Conv(F, N, j, m)
  BY <1>2, <1>6, <1>7 DEF Fetching, Serving, Idle
<1>9. PICK f \in Files, n \in Nat : f = F /\ n = N
  BY <1>8, BaseGives
<1>10. /\ up[1].commands = AskFor(f) /\ j - 1 \in Nat /\ m - 1 \in Nat
       /\ Conv(f, n, j - 1, m - 1)'
  BY <1>0, <1>2, <1>8, <1>9, ConvTakesAsk
<1>11. sv'.lastCommand = "download"
  BY <1>4, <1>8, <1>9, <1>10, AskIs
<1>12. Idle'
  BY <1>5, <1>6, <1>11 DEF Idle
<1>13. Len(up') = Len(up) - 1 /\ m = j
  BY <1>2, <1>8 DEF Takes, Conv
<1>14. PICK d : Follows(d)
  <2>1. CASE GamestateLost
    BY <1>4, <2>1, GamestateSent
  <2>2. CASE ~GamestateLost
    <3>1. Follows(0)
      BY <1>0, <1>4, <2>2, LosesNone, LosesFollow
    <3>. QED
      BY <3>1
  <2>. QED
    BY <2>1, <2>2
<1>15. /\ F' = f /\ N' = n /\ Fresh' /\ NoOwn' /\ OwnBlocks'
       /\ cl' = cl /\ have' = have
  BY <1>2, <1>7, <1>8, <1>9, <1>14, FollowKeeps DEF Fetching, Stays
<1>16. Fetching(j - 1, m - 1)'
  <2>1. Serving(j - 1, m - 1)'
    BY <1>5, <1>6, <1>8, <1>13, <1>15 DEF Serving, Idle
  <2>2. FirstMissing => FirstMissing'
    BY <1>9, <1>15 DEF FirstMissing
  <2>3. Answered(m - 1)'
    BY <1>8, <1>13 DEF Answered
  <2>4. n <= Blocks[f] /\ f # None /\ FirstMissing
    BY <1>0, <1>2, <1>7, <1>8, <1>9 DEF Fetching
  <2>. QED
    BY <1>10, <1>15, <2>1, <2>2, <2>3, <2>4 DEF Fetching
<1>17. Phases'
  BY <1>10, <1>16 DEF Phases
<1>18. Tidy'
  <2>1. sv'.downloadClientBlock \in Counter
    BY <1>5 DEF Tidy, Bounds
  <2>. QED
    BY <1>2, <1>5, <1>14, <1>17, <2>1, TakesTidy
<1>19. Gamestates'
  <2>1. CASE GamestateLost
    <3>1. Posts(Gamestate) /\ NoGamestate /\ cl.serverId < serverId
      BY <1>4, <2>1, GamestateSent, LostIs
    <3>2. F' # None /\ cl'.serverId < serverId'
      BY <1>2, <1>8, <1>9, <1>15, <3>1 DEF Stays
    <3>. QED
      BY <1>0, <1>4, <1>12, <3>1, <3>2, GamestatePosted
  <2>2. CASE ~GamestateLost
    <3>1. down' = down
      BY <1>4, <2>2
    <3>2. \A i \in 1 .. Len(down) : down[i].kind = "gamestate" =>
            i = Len(down) /\ cl.serverId < serverId
      BY <1>2 DEF Gamestates
    <3>3. \A i \in 1 .. Len(down') : down'[i].kind = "gamestate" =>
            i = Len(down') /\ cl'.serverId < serverId'
      BY <1>2, <3>1, <3>2 DEF Stays
    <3>. QED
      BY <1>4, <1>8, <1>9, <1>12, <1>15, <3>3 DEF Gamestates
  <2>. QED
    BY <2>1, <2>2
<1>. QED
  BY <1>2, <1>18, <1>19 DEF Clean, Stays

-----------------------------------------------------------------------------
(* The server executes a batch. *)

(* The client is let alone, or it is done with the old level. *)
LEMMA NoneOwed ==
  ASSUME Base, Gamestates, NEW level, TakesPacket(level), ~OldLevel(level)
  PROVE  NoGamestate
<1>1. /\ up \in Seq(Batch) /\ serverId \in Nat /\ cl.serverId \in Nat /\ Len(up) \in Nat
      /\ Len(up) > 0 /\ up[1].serverId <= cl.serverId /\ level \in {up[1].serverId, cl.serverId}
      /\ up[1] \in Batch
  BY BaseGives DEF Base, Stamps, TakesPacket, Takes
<1>2. up[1].serverId \in Nat
  BY <1>1 DEF Batch
<1>3. ASSUME NEW i \in 1 .. Len(down), down[i].kind = "gamestate" PROVE FALSE
  <2>1. Idle /\ cl.serverId < serverId
    BY <1>1, <1>3 DEF Gamestates
  <2>2. level # serverId
    BY <1>1, <1>2, <2>1
  <2>. QED
    BY <2>1, <2>2 DEF OldLevel, Idle
<1>. QED
  BY <1>3 DEF NoGamestate

(* The window counts for a file the client asks for again. *)
LEMMA ReachedAsk ==
  ASSUME Base, NEW f \in Files, NEW n, NEW c, NEW j \in Nat, j > 0, Reached(f, n, c, j),
         sv.downloadName = f, Kept(sv, sv'), sv'.downloadClientBlock = sv.downloadClientBlock
  PROVE  Reached(f, n, c, j - 1)'
<1>1. /\ sv.downloadCurrentBlock \in Nat /\ W \in Nat /\ Blocks[f] \in Nat
      /\ sv.downloadClientBlock = 0
  BY BaseGives DEF Reached
<1>2. sv.downloadCurrentBlock <= W /\ sv.downloadCurrentBlock <= Blocks[f] + 1
  BY <1>1 DEF Reached
<1>3. sv.downloadCurrentBlock = AtMost(W, Blocks[f] + 1)
  <2>1. CASE ~sv.download
    BY <2>1 DEF Reached
  <2>2. CASE sv.download
    <3>1. sv.downloadCurrentBlock >= W \/ sv.downloadCurrentBlock = Blocks[f] + 1
      BY <2>2 DEF Base, Window, W
    <3>. QED
      BY <1>1, <1>2, <3>1 DEF AtMost
  <2>. QED
    BY <2>1, <2>2
<1>. QED
  BY <1>1, <1>3 DEF Reached, Exact, Kept

(* A block is acknowledged. *)
LEMMA AckIs ==
  ASSUME Base, NEW f \in Files, NEW n \in Nat, NEW m \in Nat, m > 0, Reached(f, n, m, 0),
         NEW a \in Nat, a = n - m, a = sv.downloadClientBlock
  PROVE  sv.downloadBlocks[Slot(a)] = BlockOf(f, a)
<1>1. /\ sv.downloadCurrentBlock \in Nat /\ W \in Nat
  BY BaseGives
<1>2. a < sv.downloadCurrentBlock /\ a >= sv.downloadCurrentBlock - W
  BY <1>1 DEF Reached
<1>. QED
  BY <1>2 DEF Reached, Exact

LEMMA ReachedNextdl ==
  ASSUME Base, NEW f \in Files, NEW n \in Nat, NEW m \in Nat, m > 0, Reached(f, n, m, 0),
         Kept(sv, sv'), n - m = sv.downloadClientBlock,
         sv'.downloadClientBlock = (n - m) + 1, sv'.download = sv.download
  PROVE  Reached(f, n, m - 1, 0)'
<1>1. /\ sv.downloadCurrentBlock \in Nat /\ W \in Nat /\ sv.downloadClientBlock \in Nat
  BY BaseGives
<1>2. /\ sv'.downloadClientBlock + (m - 1) <= n
      /\ sv.downloadCurrentBlock <= sv'.downloadClientBlock + W
  BY <1>1 DEF Reached
<1>. QED
  BY <1>2 DEF Reached, Exact, Kept

LEMMA EndingTakes ==
  ASSUME up \in Seq(Batch), Takes, cl' = cl, NEW m \in Nat, m > 0, NEW e, Ending(m, e)
  PROVE  Ending(m - 1, e)'
<1>1. /\ Len(up) \in Nat /\ Len(up') = Len(up) - 1
      /\ \A i \in Nat : 1 <= i /\ i <= Len(up) - 1 => up'[i] = up[i + 1]
  BY TakesGives
<1>2. m = Len(up) - 1 => m - 1 = Len(up') - 1 /\ up'[(m - 1) + 1] = up[m + 1]
  BY <1>1
<1>3. m = Len(up) - 2 =>
        m - 1 = Len(up') - 2 /\ up'[(m - 1) + 1] = up[m + 1] /\ up'[(m - 1) + 2] = up[m + 2]
  BY <1>1
<1>4. F' = F
  BY DEF F
<1>. QED
  BY <1>2, <1>3, <1>4 DEF Ending, Says

LEMMA AnsweredTakes ==
  ASSUME up \in Seq(Batch), Takes, cl' = cl, NEW m \in Nat, m > 0, Answered(m)
  PROVE  Answered(m - 1)'
<1>1. /\ Len(up) \in Nat /\ Len(up') = Len(up) - 1
      /\ \A i \in Nat : 1 <= i /\ i <= Len(up) - 1 => up'[i] = up[i + 1]
  BY TakesGives
<1>2. m = Len(up) - 1 => m - 1 = Len(up') - 1 /\ up'[(m - 1) + 1] = up[m + 1]
  BY <1>1
<1>3. m = Len(up) - 2 =>
        m - 1 = Len(up') - 2 /\ up'[(m - 1) + 1] = up[m + 1] /\ up'[(m - 1) + 2] = up[m + 2]
  BY <1>1
<1>4. m = Len(up) => m - 1 = Len(up')
  BY <1>1
<1>. QED
  BY <1>2, <1>3, <1>4 DEF Answered, Says

(* No batch is left, and the server has what the client wants. *)
LEMMA GrantedPhases ==
  ASSUME Base, Stays, NEW d, Follows(d), Fresh, NoOwn, Len(up') = 0,
         \/ Zombie'
         \/ Granted(F) /\ (F = None => sv'.downloadName = None)
  PROVE  Phases'
<1>1. /\ F' = F /\ N' = N /\ Fresh' /\ NoOwn'
  BY FollowKeeps DEF Stays
<1>2. CASE F = None
  <2>1. Waiting'
    BY <1>1, <1>2 DEF Waiting
  <2>. QED
    BY <2>1 DEF Phases
<1>3. CASE F # None
  <2>1. PICK f \in Files : f = F
    BY <1>3, BaseGives
  <2>2. N' = 0 /\ F' = f /\ 0 <= Blocks[f]
    BY <1>1, <1>3, <2>1, FilesAre DEF Fresh
  <2>3. OwnBlocks' /\ OwnBelow' /\ ~OwnComes'
    BY <1>1 DEF NoOwn, OwnBlocks, OwnBelow, OwnComes, OwnBlock
  <2>4. Conv(f, 0, 0, 0)' /\ Answered(0)'
    BY DEF Conv, Answered
  <2>5. Serving(0, 0)'
    BY <1>3, <2>1, <2>2, <2>3 DEF Serving, Granted
  <2>6. Fetching(0, 0)'
    BY <1>3, <2>1, <2>2, <2>3, <2>4, <2>5 DEF Fetching
  <2>. QED
    BY <2>6 DEF Phases
<1>. QED
  BY <1>2, <1>3

(* The gamestate the client asked for. *)
LEMMA GrantedGamestates ==
  ASSUME Base, NoGamestate, Stays, Granted(F), F = None => sv'.downloadName = None, Len(up') = 0
  PROVE  Gamestates' /\ \E d : Follows(d)
<1>1. down \in Seq(Message)
  BY BaseGives
<1>2. CASE F = None
  <2>1. down' = Sent(Gamestate) /\ ~Zombie' /\ Idle'
    BY <1>2 DEF Granted, Zombie, Idle
  <2>2. Posts(Gamestate) /\ \E d : Follows(d)
    BY <2>1, GamestateSent
  <2>. QED
    BY <1>1, <2>1, <2>2, GamestatePosted
<1>3. CASE F # None
  <2>1. Loses(0)
    BY <1>1, <1>3, LosesNone DEF Granted
  <2>. QED
    BY <1>1, <2>1, LosesFollow, NoneComes
<1>. QED
  BY <1>2, <1>3

(* Nothing is sent. *)
LEMMA NoneSent ==
  ASSUME Base, NoGamestate, down' = down
  PROVE  Gamestates' /\ Follows(0)
<1>1. down \in Seq(Message) /\ Loses(0)
  BY BaseGives, LosesNone
<1>. QED
  BY <1>1, LosesFollow, NoneComes

LEMMA Turning ==
  ASSUME Base, Gamestates, NEW level, ExecuteBatch(level)
  PROVE  Turn(level)
<1>0. Types /\ ~sv.gamestate
  BY DEF Base
<1>1. TakesPacket(level) /\ ~OldLevel(level) /\ Executing(up[1].commands)
  BY <1>0, ExecutingIs
<1>2. NoGamestate
  BY <1>1, NoneOwed
<1>3. up \in Seq(Batch) /\ Len(up) \in Nat
  BY BaseGives
<1>4. Takes /\ Stays /\ ~Zombie /\ Len(up) > 0
  BY <1>1 DEF TakesPacket, Takes, Zombie
<1>. QED
  BY <1>1, <1>2, <1>3, <1>4, TakesGives DEF Turn

(* The file is asked for, and granted. *)
LEMMA AsksFor ==
  ASSUME Base, Gamestates, Tidy, NEW level, Turn(level), NEW f \in Files, NEW n \in Nat,
         NEW j \in Nat, NEW m \in Nat, Conv(f, n, j, m), j > 0
  PROVE  /\ Frame /\ down' = down /\ sv'.downloadName = f /\ ~sv'.download /\ ~Zombie'
         /\ sv'.bFallback = sv.bFallback
         /\ j - 1 \in Nat /\ m - 1 \in Nat /\ Conv(f, n, j - 1, m - 1)'
         /\ Follows(0)
         /\ Phases' => Proceeds
<1>1. /\ up[1].commands = AskFor(f) /\ j - 1 \in Nat /\ m - 1 \in Nat
      /\ Conv(f, n, j - 1, m - 1)'
  BY ConvTakesAsk DEF Turn
<1>2. Executing(AskFor(f)) /\ ExecuteBatch(level) /\ f \in {None} \cup Files /\ f # None
  BY <1>1, FilesAre DEF Turn
<1>3. Frame /\ Granted(f)
  BY <1>2, ExecutesAsk
<1>4. /\ down' = down /\ sv'.downloadName = f /\ ~sv'.download /\ ~Zombie'
      /\ sv'.bFallback = sv.bFallback
  BY <1>2, <1>3 DEF Granted, Zombie
<1>5. Gamestates' /\ Follows(0)
  BY <1>4, NoneSent DEF Turn
<1>6. sv'.downloadClientBlock \in Counter /\ sv'.top = sv.top /\ sv'.downloadXmitBlock = sv.downloadXmitBlock
  BY <1>3 DEF Frame, Kept, Tidy, Bounds
<1>. QED
  BY <1>1, <1>3, <1>4, <1>5, <1>6 DEF Proceeds

LEMMA AskingAsks ==
  ASSUME Base, Gamestates, Tidy, NEW level, Turn(level), NEW f \in Files, NEW n \in Nat,
         NEW j \in Nat, NEW m \in Nat, NEW e \in Endings, Asking(f, n, j, m, e), j > 0
  PROVE  Proceeds
<1>1. Conv(f, n, j, m) /\ Ending(m, e) /\ Fresh /\ NoOwn /\ sv.top[f] >= 1 /\ f # F
  BY DEF Asking
<1>2. /\ Frame /\ down' = down /\ sv'.downloadName = f /\ ~sv'.download /\ ~Zombie'
      /\ j - 1 \in Nat /\ m - 1 \in Nat /\ Conv(f, n, j - 1, m - 1)'
      /\ Follows(0) /\ (Phases' => Proceeds)
  BY <1>1, AsksFor
<1>3. j <= m /\ m > 0
  BY <1>1 DEF Conv
<1>4. /\ sv.downloadName = f /\ (sv.download \/ n > 0 => Reached(f, n, m - j, j))
      /\ IF e = "ask" THEN n = Blocks[f] + 1 /\ m > j ELSE n <= Blocks[f]
  <2>1. e = "ask" /\ Len(up) = 1 => m = 0
    BY <1>1 DEF Ending
  <2>. QED
    BY <1>3, <2>1 DEF Asking, Finishing, Turn
<1>5. Ending(m - 1, e)'
  BY <1>1, <1>3, EndingTakes DEF Turn, Stays
<1>6. n > 0 => Reached(f, n, (m - 1) - (j - 1), j - 1)'
  <2>1. (m - 1) - (j - 1) = m - j
    OBVIOUS
  <2>2. Reached(f, n, m - j, j) => Reached(f, n, m - j, j - 1)'
    BY <1>2, <1>4, ReachedAsk DEF Frame
  <2>. QED
    BY <1>4, <2>1, <2>2
<1>7. Finishing(f, n, j - 1, m - 1, e)'
  <2>1. m > j => m - 1 > j - 1
    OBVIOUS
  <2>. QED
    BY <1>2, <1>4, <1>6, <2>1 DEF Finishing
<1>8. Asking(f, n, j - 1, m - 1, e)'
  <2>1. F' = F /\ Fresh' /\ NoOwn'
    BY <1>1, <1>2, FollowKeeps DEF Turn, Stays
  <2>2. sv'.top = sv.top
    BY <1>2 DEF Frame, Kept
  <2>. QED
    BY <1>1, <1>2, <1>5, <1>7, <2>1, <2>2 DEF Asking
<1>9. Phases'
  BY <1>2, <1>8 DEF Phases
<1>. QED
  BY <1>2, <1>9

(* An acknowledgement: the client is dropped, or the file is through, or   *)
(* the window moves.                                                       *)
LEMMA Acknowledges ==
  ASSUME Base, Gamestates, Tidy, NEW level, Turn(level), NEW f \in Files, NEW n \in Nat,
         NEW m \in Nat, Conv(f, n, 0, m), m > 0, Reached(f, n, m, 0), n <= Blocks[f] + 1
  PROVE  /\ Kept(sv, sv') /\ down' = down /\ m - 1 \in Nat /\ Conv(f, n, 0, m - 1)'
         /\ Follows(0)
         /\ Phases' => Proceeds
         /\ \/ Zombie'
            \/ /\ sv'.downloadName = None /\ sv'.lastCommand = "nextdl"
               /\ n - m >= Blocks[f]
            \/ /\ sv'.downloadName = sv.downloadName /\ sv'.download = sv.download
               /\ n - m < Blocks[f] /\ Reached(f, n, m - 1, 0)'
<1>1. /\ n - m \in Nat /\ up[1].commands = NextdlOf(n - m) /\ m - 1 \in Nat
      /\ Conv(f, n, 0, m - 1)'
  BY ConvTakesNextdl DEF Turn
<1>2. PICK a \in Nat : a = n - m
  BY <1>1
<1>3. Executing(NextdlOf(a)) /\ ExecuteBatch(level)
  BY <1>1, <1>2 DEF Turn
<1>4. /\ Kept(sv, sv') /\ down' = down /\ sv'.bFallback = sv.bFallback
      /\ sv'.lastCommand = "nextdl"
      /\ \/ /\ Closed(sv') /\ sv'.state = "zombie"
            /\ sv'.downloadClientBlock = sv.downloadClientBlock
         \/ /\ a = sv.downloadClientBlock /\ Closed(sv')
            /\ sv'.downloadClientBlock = sv.downloadClientBlock
            /\ sv.downloadBlocks[Slot(a)].part = 0
         \/ /\ a = sv.downloadClientBlock
            /\ sv'.downloadClientBlock = a + 1
            /\ sv'.downloadName = sv.downloadName /\ sv'.download = sv.download
            /\ sv.downloadBlocks[Slot(a)].part # 0
  BY <1>3, ExecutesNextdl
<1>5. a = sv.downloadClientBlock => sv.downloadBlocks[Slot(a)] = BlockOf(f, a)
  BY <1>2, AckIs
<1>6. BlockOf(f, a).part = 0 <=> a >= Blocks[f]
  BY BlockOfIs
<1>7. \/ Zombie'
      \/ /\ sv'.downloadName = None /\ sv'.lastCommand = "nextdl"
         /\ n - m >= Blocks[f]
      \/ /\ sv'.downloadName = sv.downloadName /\ sv'.download = sv.download
         /\ n - m < Blocks[f] /\ Reached(f, n, m - 1, 0)'
  <2>1. CASE Closed(sv') /\ sv'.state = "zombie"
    BY <2>1 DEF Zombie
  <2>2. CASE a = sv.downloadClientBlock /\ Closed(sv') /\ sv.downloadBlocks[Slot(a)].part = 0
    BY <1>2, <1>4, <1>5, <1>6, <2>2 DEF Closed
  <2>3. CASE /\ a = sv.downloadClientBlock /\ sv'.downloadClientBlock = a + 1
             /\ sv'.downloadName = sv.downloadName /\ sv'.download = sv.download
             /\ sv.downloadBlocks[Slot(a)].part # 0
    <3>1. n - m < Blocks[f]
      BY <1>2, <1>5, <1>6, <2>3, FilesAre
    <3>2. Reached(f, n, m - 1, 0)'
      BY <1>2, <1>4, <2>3, ReachedNextdl
    <3>. QED
      BY <2>3, <3>1, <3>2
  <2>. QED
    BY <1>4, <2>1, <2>2, <2>3
<1>8. Gamestates' /\ Follows(0)
  BY <1>4, NoneSent DEF Turn
<1>9. sv'.downloadClientBlock \in Counter
  <2>1. a <= Blocks[f]
    BY <1>2, FilesAre
  <2>2. a + 1 <= Blocks[f] + 1 /\ a + 1 \in Nat
    BY <2>1, FilesAre
  <2>3. a + 1 \in Counter
    BY <2>2, CounterIs
  <2>. QED
    BY <1>4, <2>3 DEF Tidy, Bounds
<1>10. Phases' => Proceeds
  BY <1>4, <1>8, <1>9 DEF Proceeds, Kept, Closed
<1>. QED
  BY <1>1, <1>4, <1>7, <1>8, <1>10

LEMMA AskingAcknowledges ==
  ASSUME Base, Gamestates, Tidy, NEW level, Turn(level), NEW f \in Files, NEW n \in Nat,
         NEW m \in Nat, NEW e \in Endings, Asking(f, n, 0, m, e), m > 0
  PROVE  Proceeds
<1>1. Conv(f, n, 0, m) /\ Ending(m, e) /\ Fresh /\ NoOwn /\ sv.top[f] >= 1 /\ f # F
  BY DEF Asking
<1>2. n > 0 /\ m - 0 = m
  BY <1>1 DEF Conv
<1>3. /\ sv.downloadName = f /\ Reached(f, n, m, 0)
      /\ IF e = "ask" THEN n = Blocks[f] + 1 ELSE n <= Blocks[f]
  <2>1. e = "ask" /\ Len(up) = 1 => m = 0
    BY <1>1 DEF Ending
  <2>. QED
    BY <1>2, <2>1 DEF Asking, Finishing, Turn
<1>4. n <= Blocks[f] + 1 /\ Blocks[f] \in Nat
  BY <1>3, FilesAre
<1>5. /\ Kept(sv, sv') /\ down' = down /\ m - 1 \in Nat /\ Conv(f, n, 0, m - 1)'
      /\ Follows(0)
      /\ Phases' => Proceeds
      /\ \/ Zombie'
         \/ /\ sv'.downloadName = None /\ sv'.lastCommand = "nextdl"
            /\ n - m >= Blocks[f]
         \/ /\ sv'.downloadName = sv.downloadName /\ sv'.download = sv.download
            /\ n - m < Blocks[f] /\ Reached(f, n, m - 1, 0)'
  BY <1>1, <1>3, <1>4, Acknowledges
<1>6. Ending(m - 1, e)'
  BY <1>1, EndingTakes DEF Turn, Stays
<1>7. Finishing(f, n, 0, m - 1, e)'
  <2>1. CASE Zombie'
    BY <2>1 DEF Finishing
  <2>2. CASE /\ sv'.downloadName = None /\ sv'.lastCommand = "nextdl"
             /\ n - m >= Blocks[f]
    <3>1. e = "ask" /\ m = 1
      BY <1>3, <1>4, <2>2
    <3>2. Len(up') = 1
      BY <1>1, <3>1 DEF Ending, Turn
    <3>. QED
      BY <2>2, <3>1, <3>2 DEF Finishing
  <2>3. CASE /\ sv'.downloadName = sv.downloadName /\ sv'.download = sv.download
             /\ n - m < Blocks[f] /\ Reached(f, n, m - 1, 0)'
    <3>1. IF e = "ask" THEN n = Blocks[f] + 1 /\ m - 1 > 0 ELSE n <= Blocks[f]
      BY <1>3, <1>4, <2>3
    <3>2. (m - 1) - 0 = m - 1
      BY <1>5
    <3>. QED
      BY <1>3, <2>3, <3>1, <3>2 DEF Finishing
  <2>. QED
    BY <1>5, <2>1, <2>2, <2>3
<1>8. Asking(f, n, 0, m - 1, e)'
  <2>1. F' = F /\ Fresh' /\ NoOwn'
    BY <1>1, <1>5, FollowKeeps DEF Turn, Stays
  <2>2. sv'.top = sv.top
    BY <1>5 DEF Kept
  <2>. QED
    BY <1>1, <1>5, <1>6, <1>7, <2>1, <2>2 DEF Asking
<1>9. Phases'
  <2>1. 0 \in Nat
    OBVIOUS
  <2>. QED
    BY <1>5, <1>8, <2>1 DEF Phases
<1>. QED
  BY <1>5, <1>9

(* The last batch but perhaps the redirect's answer. *)
LEMMA AskingEnds ==
  ASSUME Base, Gamestates, Tidy, NEW level, Turn(level), NEW f \in Files, NEW n \in Nat,
         NEW e \in Endings, Asking(f, n, 0, 0, e)
  PROVE  Proceeds
<1>1. Conv(f, n, 0, 0) /\ Ending(0, e) /\ Fresh /\ NoOwn /\ sv.top[f] >= 1 /\ f # F
  BY DEF Asking
<1>2. F \in {None} \cup Files /\ ~Zombie /\ ExecuteBatch(level) /\ Stays /\ NoGamestate
  BY BaseGives DEF Turn
<1>3. CASE Zombie' /\ Frame /\ down' = down /\ ~sv'.download /\ sv'.bFallback = sv.bFallback /\ Len(up') = 0
  <2>1. Gamestates' /\ Follows(0)
    BY <1>2, <1>3, NoneSent
  <2>2. Phases'
    BY <1>1, <1>2, <1>3, <2>1, GrantedPhases
  <2>. QED
    BY <1>3, <2>1, <2>2 DEF Proceeds, Frame, Kept, Tidy, Bounds
<1>4. CASE /\ Frame /\ Granted(F) /\ Len(up') = 0 /\ (sv'.download => sv.download)
           /\ (F = None => sv'.downloadName = None)
  <2>1. Gamestates' /\ \E d : Follows(d)
    BY <1>2, <1>4, GrantedGamestates
  <2>2. Phases'
    BY <1>1, <1>2, <1>4, <2>1, GrantedPhases
  <2>3. sv'.bFallback = sv.bFallback
    BY <1>4 DEF Granted
  <2>. QED
    BY <1>4, <2>1, <2>2, <2>3 DEF Proceeds, Frame, Kept, Tidy, Bounds
<1>5. CASE e = "ask"
  <2>1. sv.downloadName = None /\ Len(up) = 1
    BY <1>2, <1>5 DEF Asking, Finishing
  <2>2. Executing(AskFor(F)) /\ Len(up') = 0
    BY <1>1, <1>5, <2>1 DEF Ending, Says, Turn
  <2>3. /\ Frame /\ Granted(F)
        /\ F = None => sv'.downloadName = sv.downloadName /\ sv'.download = sv.download
    BY <1>2, <2>2, ExecutesAsk
  <2>. QED
    BY <1>4, <2>1, <2>2, <2>3 DEF Granted
<1>6. CASE e = "stop"
  <2>1. Executing(StopAsk(F)) /\ Len(up') = 0
    <3>1. 0 = Len(up) - 1 /\ up[1].commands = StopAsk(F)
      BY <1>1, <1>6 DEF Ending, Says
    <3>2. Len(up') = 0
      BY <3>1 DEF Turn
    <3>3. Executing(StopAsk(F))
      BY <3>1 DEF Turn
    <3>. QED
      BY <3>2, <3>3
  <2>2. Frame /\ Granted(F) /\ (F = None => Closed(sv'))
    BY <1>2, <2>1, ExecutesStopAsk
  <2>. QED
    BY <1>4, <2>1, <2>2 DEF Granted, Closed
<1>7. CASE e = "web" /\ Len(up) = 1
  <2>1. Executing(DoneAsk(F)) /\ Len(up') = 0
    BY <1>1, <1>7 DEF Ending, Says, Turn
  <2>2. /\ Frame
        /\ \/ /\ sv'.state = "zombie" /\ Closed(sv')
              /\ sv'.bFallback = sv.bFallback /\ down' = down
           \/ Granted(F) /\ (F = None => Closed(sv'))
    BY <1>2, <2>1, ExecutesDoneAsk
  <2>3. CASE /\ sv'.state = "zombie" /\ Closed(sv')
             /\ sv'.bFallback = sv.bFallback /\ down' = down
    BY <1>3, <2>1, <2>2, <2>3 DEF Closed, Zombie
  <2>4. CASE Granted(F) /\ (F = None => Closed(sv'))
    BY <1>4, <2>1, <2>2, <2>4 DEF Granted, Closed
  <2>. QED
    BY <2>2, <2>3, <2>4
<1>8. CASE e = "web" /\ Len(up) = 2
  <2>1. Says(1, Ack) /\ Says(2, DoneAsk(F)) /\ Len(up') = 1 /\ up'[1] = up[2]
    BY <1>1, <1>8 DEF Ending, Turn
  <2>2. Executing(Ack)
    BY <2>1 DEF Says, Turn
  <2>3. /\ Frame /\ down' = down /\ sv'.bFallback = sv.bFallback
        /\ \/ ~sv.bWWWDl /\ Closed(sv') /\ sv'.state = "zombie"
           \/ /\ sv'.state = sv.state
              /\ sv'.downloadName = sv.downloadName /\ sv'.download = sv.download
    BY <1>2, <2>2, ExecutesAck
  <2>4. Gamestates' /\ Follows(0)
    BY <1>2, <2>3, NoneSent
  <2>5. F' = F /\ Fresh' /\ NoOwn'
    BY <1>1, <1>2, <2>4, FollowKeeps DEF Stays
  <2>6. Ending(0, "web")'
    BY <2>1, <2>5 DEF Ending, Says
  <2>7. Conv(f, n, 0, 0)'
    BY <1>1, <2>1 DEF Conv
  <2>8. Finishing(f, n, 0, 0, "web")'
    <3>1. CASE sv'.state = "zombie"
      BY <3>1 DEF Finishing, Zombie
    <3>2. CASE /\ sv'.state = sv.state
               /\ sv'.downloadName = sv.downloadName /\ sv'.download = sv.download
      <4>1. /\ sv.downloadName = f /\ (sv.download \/ n > 0 => Reached(f, n, 0 - 0, 0))
            /\ n <= Blocks[f]
        BY <1>2, <1>8 DEF Asking, Finishing
      <4>2. Reached(f, n, 0 - 0, 0) => Reached(f, n, 0 - 0, 0)'
        BY <2>3, <3>2, ReachedSame DEF Frame
      <4>. QED
        BY <3>2, <4>1, <4>2 DEF Finishing
    <3>. QED
      BY <2>3, <3>1, <3>2
  <2>9. Asking(f, n, 0, 0, "web")'
    <3>1. sv'.top = sv.top
      BY <2>3 DEF Frame, Kept
    <3>. QED
      BY <1>1, <2>5, <2>6, <2>7, <2>8, <3>1 DEF Asking
  <2>10. Phases'
    <3>1. 0 \in Nat /\ "web" \in Endings
      BY DEF Endings
    <3>. QED
      BY <2>9, <3>1 DEF Phases
  <2>. QED
    BY <2>3, <2>4, <2>10 DEF Proceeds, Frame, Kept, Tidy, Bounds, Closed
<1>. QED
  BY <1>1, <1>5, <1>6, <1>7, <1>8 DEF Ending, Turn

LEMMA FetchingAsks ==
  ASSUME Base, Gamestates, Tidy, NEW level, Turn(level), NEW j \in Nat, NEW m \in Nat,
         Fetching(j, m), j > 0
  PROVE  Proceeds
<1>0. PICK f \in Files, n \in Nat : f = F /\ n = N
  BY BaseGives DEF Fetching
<1>1. /\ Conv(f, n, j, m) /\ n <= Blocks[f] /\ Answered(m) /\ FirstMissing /\ OwnBlocks /\ F # None
  BY <1>0 DEF Fetching
<1>2. /\ Frame /\ down' = down /\ sv'.downloadName = f /\ ~sv'.download /\ ~Zombie'
      /\ j - 1 \in Nat /\ m - 1 \in Nat /\ Conv(f, n, j - 1, m - 1)'
      /\ Follows(0) /\ (Phases' => Proceeds)
  BY <1>1, AsksFor
<1>3. j <= m /\ m > 0
  BY <1>1 DEF Conv
<1>4. /\ F' = f /\ N' = n /\ OwnBlocks' /\ (OwnComes' => OwnComes) /\ (NoOwn => NoOwn')
      /\ cl' = cl /\ have' = have
      /\ (OwnBelow => OwnBelow')
  BY <1>0, <1>1, <1>2, FollowKeeps DEF Turn, Stays, Frame, Kept
<1>5. Answered(m - 1)'
  BY <1>1, <1>3, <1>4, AnsweredTakes DEF Turn
<1>6. OwnBelow' /\ (n > 0 \/ OwnComes' => Reached(f, n, (m - 1) - (j - 1), j - 1)')
  <2>1. CASE sv.downloadName = f
    <3>1. OwnBelow /\ (sv.download \/ n > 0 \/ OwnComes => Reached(f, n, m - j, j))
      BY <1>0, <1>1, <2>1, FilesAre DEF Fetching, Serving, Turn
    <3>2. (m - 1) - (j - 1) = m - j
      OBVIOUS
    <3>3. Reached(f, n, m - j, j) => Reached(f, n, m - j, j - 1)'
      BY <1>2, <2>1, ReachedAsk DEF Frame
    <3>. QED
      BY <1>4, <3>1, <3>2, <3>3
  <2>2. CASE sv.downloadName # f
    <3>1. Fresh /\ NoOwn
      BY <1>0, <1>1, <2>2 DEF Fetching, Serving, Turn
    <3>2. n = 0
      BY <1>0, <1>1, <3>1 DEF Fresh
    <3>3. OwnBelow' /\ ~OwnComes'
      BY <1>4, <3>1 DEF NoOwn, OwnBelow, OwnComes, OwnBlock
    <3>. QED
      BY <3>2, <3>3
  <2>. QED
    BY <2>1, <2>2
<1>7. Serving(j - 1, m - 1)'
  BY <1>2, <1>4, <1>6 DEF Serving
<1>8. Fetching(j - 1, m - 1)'
  <2>1. FirstMissing'
    BY <1>0, <1>1, <1>4 DEF FirstMissing
  <2>. QED
    BY <1>0, <1>1, <1>2, <1>4, <1>5, <1>7, <2>1 DEF Fetching
<1>9. Phases'
  BY <1>2, <1>8 DEF Phases
<1>. QED
  BY <1>2, <1>9

LEMMA FetchingAcknowledges ==
  ASSUME Base, Gamestates, Tidy, NEW level, Turn(level), NEW m \in Nat, Fetching(0, m), m > 0
  PROVE  Proceeds
<1>0. PICK f \in Files, n \in Nat : f = F /\ n = N
  BY BaseGives DEF Fetching
<1>1. /\ Conv(f, n, 0, m) /\ n <= Blocks[f] /\ Answered(m) /\ OwnBlocks /\ F # None
      /\ Blocks[f] \in Nat
  BY <1>0, FilesAre DEF Fetching
<1>2. n > 0 /\ m - 0 = m
  BY <1>1 DEF Conv
<1>3. sv.downloadName = f /\ OwnBelow /\ Reached(f, n, m, 0)
  BY <1>0, <1>1, <1>2 DEF Fetching, Serving, Turn
<1>4. n <= Blocks[f] + 1
  BY <1>1
<1>5. /\ Kept(sv, sv') /\ down' = down /\ m - 1 \in Nat /\ Conv(f, n, 0, m - 1)'
      /\ Follows(0)
      /\ Phases' => Proceeds
      /\ \/ Zombie'
         \/ n - m >= Blocks[f]
         \/ /\ sv'.downloadName = sv.downloadName /\ Reached(f, n, m - 1, 0)'
  BY <1>1, <1>3, <1>4, Acknowledges
<1>6. /\ F' = f /\ N' = n /\ OwnBlocks' /\ OwnBelow' /\ cl' = cl /\ have' = have
  BY <1>0, <1>1, <1>3, <1>5, FollowKeeps DEF Turn, Stays, Kept
<1>7. Answered(m - 1)'
  BY <1>1, <1>6, AnsweredTakes DEF Turn
<1>8. Serving(0, m - 1)'
  <2>1. ~(n - m >= Blocks[f])
    BY <1>1
  <2>2. (m - 1) - 0 = m - 1
    BY <1>5
  <2>. QED
    BY <1>3, <1>5, <1>6, <2>1, <2>2 DEF Serving
<1>9. Fetching(0, m - 1)'
  BY <1>0, <1>1, <1>5, <1>6, <1>7, <1>8 DEF Fetching
<1>10. Phases'
  <2>1. 0 \in Nat
    OBVIOUS
  <2>. QED
    BY <1>5, <1>9, <2>1 DEF Phases
<1>. QED
  BY <1>5, <1>10

(* The redirect's answer. *)
LEMMA FetchingEnds ==
  ASSUME Base, Gamestates, Tidy, NEW level, Turn(level), Fetching(0, 0)
  PROVE  Proceeds
<1>0. PICK f \in Files, n \in Nat : f = F /\ n = N
  BY BaseGives DEF Fetching
<1>1. /\ Conv(f, n, 0, 0) /\ n <= Blocks[f] /\ Answered(0) /\ OwnBlocks /\ F # None
      /\ ~Zombie /\ ExecuteBatch(level) /\ Stays /\ NoGamestate
  BY <1>0 DEF Fetching, Turn
<1>2. Conv(f, n, 0, 0)'
  <2>1. Len(up') \in Nat
    BY DEF Turn
  <2>. QED
    BY <1>1, <2>1 DEF Conv
<1>3. /\ sv.downloadName = f /\ OwnBelow
      /\ (sv.download \/ n > 0 \/ OwnComes => Reached(f, n, 0 - 0, 0))
  BY <1>0, <1>1 DEF Fetching, Serving, Turn
<1>4. F' = f /\ N' = n /\ cl' = cl /\ have' = have
  BY <1>0, <1>1 DEF Stays, F, N
<1>5. CASE /\ Frame /\ down' = down /\ sv'.bFallback = sv.bFallback /\ Answered(0)'
           /\ (sv'.download => sv.download)
           /\ \/ Zombie'
              \/ sv'.downloadName = sv.downloadName /\ sv'.download = sv.download
  <2>1. Gamestates' /\ Follows(0)
    BY <1>1, <1>5, NoneSent
  <2>2. OwnBlocks' /\ OwnBelow' /\ (OwnComes' => OwnComes)
    BY <1>1, <1>3, <1>4, <1>5, <2>1, FollowKeeps DEF Frame, Kept
  <2>3. Serving(0, 0)'
    <3>1. CASE Zombie'
      BY <3>1 DEF Serving
    <3>2. CASE ~Zombie'
      <4>1. Reached(f, n, 0 - 0, 0) => Reached(f, n, 0 - 0, 0)'
        BY <1>5, <3>2, ReachedSame DEF Frame
      <4>. QED
        BY <1>3, <1>4, <1>5, <2>2, <3>2, <4>1 DEF Serving
    <3>. QED
      BY <3>1, <3>2
  <2>4. Fetching(0, 0)'
    BY <1>0, <1>1, <1>2, <1>4, <1>5, <2>2, <2>3 DEF Fetching
  <2>5. Phases'
    <3>1. 0 \in Nat
      OBVIOUS
    <3>. QED
      BY <2>4, <3>1 DEF Phases
  <2>. QED
    BY <1>5, <2>1, <2>5 DEF Proceeds, Frame, Kept, Tidy, Bounds
<1>6. CASE Frame /\ Closed(sv') /\ GaveUp /\ Aborts /\ Len(up') = 0
  <2>1. CASE sv'.state = "zombie" /\ down' = down /\ sv'.bFallback = sv.bFallback
    <3>1. Answered(0)'
      BY <1>6 DEF Answered
    <3>. QED
      BY <1>5, <1>6, <2>1, <3>1 DEF Closed, Zombie
  <2>2. CASE sv'.state # "zombie" /\ down' = Sent(Gamestate) /\ sv'.lastCommand # "nextdl"
    <3>1. down \in Seq(Message)
      BY BaseGives
    <3>2. Posts(Gamestate) /\ \E d : Follows(d)
      BY <2>2, GamestateSent
    <3>3. PICK d : Follows(d)
      BY <3>2
    <3>4. ~Zombie' /\ Idle'
      BY <1>6, <2>2 DEF Zombie, Idle, Closed
    <3>5. Gamestates'
      BY <1>1, <1>6, <3>1, <3>2, <3>4, GamestatePosted
    <3>6. OwnBlocks' /\ Aborts'
      BY <1>1, <1>4, <1>6, <3>3, FollowKeeps
    <3>7. Serving(0, 0)'
      BY <1>6, <3>6 DEF Serving, Closed
    <3>8. Answered(0)'
      BY <1>6 DEF Answered
    <3>9. Fetching(0, 0)'
      BY <1>0, <1>1, <1>2, <1>4, <3>6, <3>7, <3>8 DEF Fetching
    <3>10. Phases'
      <4>1. 0 \in Nat
        OBVIOUS
      <4>. QED
        BY <3>9, <4>1 DEF Phases
    <3>. QED
      BY <1>6, <3>2, <3>5, <3>10 DEF Proceeds, Frame, Kept, Tidy, Bounds, Closed
  <2>. QED
    BY <1>6, <2>1, <2>2 DEF GaveUp
<1>7. \/ /\ cl.bWWWDl /\ Len(up) = 1 /\ up[1].commands = Ack
      \/ /\ cl.bWWWDl /\ cl.bWWWDlAborting /\ Len(up) = 1
         /\ up[1].commands = Fail \/ up[1].commands = AckFail
      \/ /\ cl.bWWWDl /\ cl.bWWWDlAborting /\ Len(up) = 2 /\ up[1].commands = Ack
         /\ up[2].commands = Fail
  <2>1. Len(up) \in Nat /\ Len(up) > 0 /\ 0 + 1 = 1 /\ 0 + 2 = 2
    BY DEF Turn
  <2>2. (0 = Len(up) - 1 => Len(up) = 1) /\ (0 = Len(up) - 2 => Len(up) = 2)
    BY <2>1
  <2>3. Says(0 + 1, Ack) => up[1].commands = Ack
    BY <2>1 DEF Says
  <2>4. Says(0 + 1, Fail) => up[1].commands = Fail
    BY <2>1 DEF Says
  <2>5. Says(0 + 1, AckFail) => up[1].commands = AckFail
    BY <2>1 DEF Says
  <2>6. Says(0 + 2, Fail) => up[2].commands = Fail
    BY <2>1 DEF Says
  <2>. QED
    BY <1>1, <2>1, <2>2, <2>3, <2>4, <2>5, <2>6 DEF Answered
<1>8. CASE up[1].commands = Ack
  <2>1. Executing(Ack)
    BY <1>8 DEF Turn
  <2>2. /\ Frame /\ down' = down /\ sv'.bFallback = sv.bFallback
        /\ \/ Closed(sv') /\ sv'.state = "zombie"
           \/ sv'.downloadName = sv.downloadName /\ sv'.download = sv.download
    BY <1>1, <2>1, ExecutesAck
  <2>3. Answered(0)'
    <3>1. CASE Len(up) = 1
      <4>1. Len(up') = 0
        BY <3>1 DEF Turn
      <4>. QED
        BY <4>1 DEF Answered
    <3>2. CASE Len(up) # 1
      <4>1. cl.bWWWDl /\ cl.bWWWDlAborting /\ Len(up) = 2 /\ up[2].commands = Fail
        BY <1>7, <3>2
      <4>2. 0 = Len(up') - 1 /\ up'[1] = up[1 + 1]
        BY <4>1 DEF Turn
      <4>3. up'[0 + 1].commands = Fail
        BY <4>1, <4>2
      <4>. QED
        BY <1>4, <4>1, <4>2, <4>3 DEF Answered, Says
    <3>. QED
      BY <3>1, <3>2
  <2>. QED
    BY <1>5, <2>2, <2>3 DEF Closed, Zombie
<1>9. CASE up[1].commands = Fail \/ up[1].commands = AckFail
  <2>1. CASE up[1].commands # Ack
    <3>1. cl.bWWWDl /\ cl.bWWWDlAborting /\ Len(up) = 1
      BY <1>7, <2>1
    <3>2. Aborts /\ Len(up') = 0
      BY <1>1, <3>1 DEF Aborts, OnWeb, Turn
    <3>3. Frame /\ Closed(sv') /\ GaveUp
      <4>1. CASE up[1].commands = Fail
        <5>1. Executing(Fail)
          BY <4>1 DEF Turn
        <5>. QED
          BY <1>1, <5>1, ExecutesFail
      <4>2. CASE up[1].commands = AckFail
        <5>1. Executing(AckFail)
          BY <4>2 DEF Turn
        <5>. QED
          BY <1>1, <5>1, ExecutesAckFail
      <4>. QED
        BY <1>9, <4>1, <4>2
    <3>. QED
      BY <1>6, <3>2, <3>3
  <2>. QED
    BY <1>8, <2>1
<1>. QED
  BY <1>7, <1>8, <1>9

LEMMA CleanExecute ==
  ASSUME Base, Clean, Gamestates, Tidy, NEW level, ExecuteBatch(level)
  PROVE  mixed' # "first" /\ Gamestates' /\ Tidy'
<1>1. Turn(level)
  BY Turning
<1>2. Proceeds
  <2>1. ~Waiting
    BY <1>1 DEF Waiting, Turn
  <2>2. ASSUME NEW f \in Files, NEW n \in Nat, NEW j \in Nat, NEW m \in Nat, NEW e \in Endings,
               Asking(f, n, j, m, e)
        PROVE  Proceeds
    <3>1. CASE j > 0
      BY <1>1, <2>2, <3>1, AskingAsks
    <3>2. CASE j = 0 /\ m > 0
      <4>1. Asking(f, n, 0, m, e)
        BY <2>2, <3>2
      <4>. QED
        BY <1>1, <3>2, <4>1, AskingAcknowledges
    <3>3. CASE j = 0 /\ m = 0
      <4>1. Asking(f, n, 0, 0, e)
        BY <2>2, <3>3
      <4>. QED
        BY <1>1, <4>1, AskingEnds
    <3>. QED
      BY <3>1, <3>2, <3>3
  <2>3. ASSUME NEW j \in Nat, NEW m \in Nat, Fetching(j, m)
        PROVE  Proceeds
    <3>1. CASE j > 0
      BY <1>1, <2>3, <3>1, FetchingAsks
    <3>2. CASE j = 0 /\ m > 0
      <4>1. Fetching(0, m)
        BY <2>3, <3>2
      <4>. QED
        BY <1>1, <3>2, <4>1, FetchingAcknowledges
    <3>3. CASE j = 0 /\ m = 0
      <4>1. Fetching(0, 0)
        BY <2>3, <3>3
      <4>. QED
        BY <1>1, <4>1, FetchingEnds
    <3>. QED
      BY <3>1, <3>2, <3>3
  <2>. QED
    BY <2>1, <2>2, <2>3 DEF Tidy, Phases
<1>3. PICK d : Follows(d)
  BY <1>2 DEF Proceeds
<1>4. Takes /\ Stays /\ mixed' = mixed
  BY <1>1 DEF Turn, Stays
<1>5. Tidy'
  BY <1>2, <1>3, <1>4, TakesTidy DEF Proceeds
<1>. QED
  BY <1>2, <1>4, <1>5 DEF Proceeds, Clean

-----------------------------------------------------------------------------
(* The server writes: what holds of the messages when one comes last. *)

LEMMA MessagePosted ==
  ASSUME down \in Seq(Message), cl' = cl, NEW msg, Posts(msg)
  PROVE  /\ NoGamestate /\ msg.kind # "gamestate" => Gamestates'
         /\ Foreigns /\ (Foreign(msg) => (msg.again \/ msg.block > 0) /\ Fresh /\ NoOwn) => Foreigns'
         /\ NoOwn /\ ~Own(msg) => NoOwn'
         /\ /\ OwnBlocks
            /\ OwnBlock(msg) => msg.block <= Blocks[F] /\ (msg.data = BlockOf(F, msg.block) \/ msg.block < N)
            => OwnBlocks'
         /\ (OwnComes' => OwnComes \/ OwnBlock(msg))
         /\ (RedirectComes' => RedirectComes \/ msg.kind = "redirect")
<1>1. PICK d \in 0 .. 1 :
        \A i \in 1 .. Len(down') : i < Len(down') => i + d \in 1 .. Len(down) /\ down'[i] = down[i + d]
  BY PostedIs
<1>2. Len(down') \in Nat /\ Len(down') >= 1 /\ down'[Len(down')] = msg
  BY PostedIs
<1>3. \A i \in 1 .. Len(down') : i < Len(down') \/ i = Len(down')
  BY <1>2
<1>4. F' = F /\ N' = N /\ (Fresh' <=> Fresh)
  BY DEF F, N, Fresh
<1>5. \A i \in 1 .. Len(down') :
        (i + d \in 1 .. Len(down) /\ down'[i] = down[i + d]) \/ down'[i] = msg
  BY <1>1, <1>2, <1>3
<1>6. NoGamestate /\ msg.kind # "gamestate" => Gamestates'
  BY <1>5 DEF NoGamestate, Gamestates
<1>7. NoOwn /\ ~Own(msg) => NoOwn'
  BY <1>4, <1>5 DEF NoOwn, Own
<1>8. /\ OwnBlocks
      /\ OwnBlock(msg) => msg.block <= Blocks[F] /\ (msg.data = BlockOf(F, msg.block) \/ msg.block < N)
      => OwnBlocks'
  BY <1>4, <1>5 DEF OwnBlocks, OwnBlock, Own
<1>9. /\ (OwnComes' => OwnComes \/ OwnBlock(msg))
      /\ (RedirectComes' => RedirectComes \/ msg.kind = "redirect")
  BY <1>4, <1>5 DEF OwnComes, OwnBlock, Own, RedirectComes
<1>10. ASSUME Foreigns, Foreign(msg) => (msg.again \/ msg.block > 0) /\ Fresh /\ NoOwn
       PROVE  Foreigns'
  <2>1. ASSUME NEW i \in 1 .. Len(down'), Data(down'[i]), down'[i].data.file # F
        PROVE  /\ down'[i].again \/ down'[i].block > 0
               /\ Fresh
               /\ \A k \in 1 .. Len(down') : k < i => ~(Data(down'[k]) /\ down'[k].data.file = F)
    <3>1. CASE i < Len(down')
      <4>1. i + d \in 1 .. Len(down) /\ down'[i] = down[i + d]
        BY <1>1, <3>1
      <4>2. Foreign(down[i + d])
        BY <2>1, <4>1 DEF Foreign
      <4>3. /\ down[i + d].again \/ down[i + d].block > 0
            /\ Fresh /\ \A k \in 1 .. Len(down) : k < i + d => ~Own(down[k])
        BY <1>10, <4>1, <4>2 DEF Foreigns
      <4>4. \A k \in 1 .. Len(down') : k < i =>
              k + d \in 1 .. Len(down) /\ down'[k] = down[k + d] /\ k + d < i + d
        BY <1>1, <3>1
      <4>. QED
        BY <4>1, <4>3, <4>4 DEF Own
    <3>2. CASE i = Len(down')
      <4>1. Foreign(msg) /\ down'[i] = msg
        BY <1>2, <2>1, <3>2 DEF Foreign
      <4>2. \A k \in 1 .. Len(down') : k < i =>
              k + d \in 1 .. Len(down) /\ down'[k] = down[k + d]
        BY <1>1, <3>2
      <4>. QED
        BY <1>10, <4>1, <4>2 DEF NoOwn, Own
    <3>. QED
      BY <1>3, <3>1, <3>2
  <2>. QED
    BY <1>4, <2>1 DEF Foreigns, Foreign, Own
<1>. QED
  BY <1>6, <1>7, <1>8, <1>9, <1>10

(* A server at a file owes no gamestate. *)
LEMMA WritingIs ==
  ASSUME Base, Gamestates, Tidy, Writing
  PROVE  /\ NoGamestate /\ ~Zombie /\ ~Zombie' /\ Stays /\ up' = up
         /\ cl' = cl /\ F' = F /\ N' = N /\ (Fresh' <=> Fresh) /\ (OnWeb' <=> OnWeb) /\ (Aborts' <=> Aborts)
         /\ \/ \E n, j, m \in Nat, e \in Endings :
                 /\ Asking(sv.downloadName, n, j, m, e)
                 /\ (sv.download \/ n > 0 => Reached(sv.downloadName, n, m - j, j))
                 /\ IF e = "ask" THEN n = Blocks[sv.downloadName] + 1 /\ m > j ELSE n <= Blocks[sv.downloadName]
            \/ /\ F = sv.downloadName /\ F \in Files
               /\ \E j, m \in Nat : /\ Fetching(j, m) /\ OwnBelow
                                    /\ (sv.download \/ N > 0 \/ OwnComes => Reached(F, N, m - j, j))
<1>1. ~Zombie /\ ~Zombie' /\ Stays /\ up' = up /\ sv.downloadName \in Files /\ sv.downloadName # None
  BY DEF Writing, Zombie
<1>2. NoGamestate
  BY <1>1 DEF Gamestates, NoGamestate, Idle
<1>3. cl' = cl /\ F' = F /\ N' = N /\ (Fresh' <=> Fresh) /\ (OnWeb' <=> OnWeb) /\ (Aborts' <=> Aborts)
  BY <1>1 DEF Stays, F, N, Fresh, OnWeb, Aborts
<1>4. ~Waiting
  BY <1>1 DEF Waiting
<1>5. ASSUME NEW f \in Files, NEW n \in Nat, NEW j \in Nat, NEW m \in Nat, NEW e \in Endings,
             Asking(f, n, j, m, e)
      PROVE  /\ Asking(sv.downloadName, n, j, m, e)
             /\ (sv.download \/ n > 0 => Reached(sv.downloadName, n, m - j, j))
             /\ IF e = "ask" THEN n = Blocks[sv.downloadName] + 1 /\ m > j ELSE n <= Blocks[sv.downloadName]
  <2>1. /\ sv.downloadName = f /\ (sv.download \/ n > 0 => Reached(f, n, m - j, j))
        /\ IF e = "ask" THEN n = Blocks[f] + 1 /\ m > j ELSE n <= Blocks[f]
    BY <1>1, <1>5 DEF Asking, Finishing
  <2>. QED
    BY <1>5, <2>1
<1>6. ASSUME NEW j \in Nat, NEW m \in Nat, Fetching(j, m)
      PROVE  /\ F = sv.downloadName /\ F \in Files /\ OwnBelow
             /\ (sv.download \/ N > 0 \/ OwnComes => Reached(F, N, m - j, j))
  BY <1>1, <1>6 DEF Fetching, Serving
<1>7. \/ \E n, j, m \in Nat, e \in Endings :
           /\ Asking(sv.downloadName, n, j, m, e)
           /\ (sv.download \/ n > 0 => Reached(sv.downloadName, n, m - j, j))
           /\ IF e = "ask" THEN n = Blocks[sv.downloadName] + 1 /\ m > j ELSE n <= Blocks[sv.downloadName]
      \/ /\ F = sv.downloadName /\ F \in Files
         /\ \E j, m \in Nat : /\ Fetching(j, m) /\ OwnBelow
                              /\ (sv.download \/ N > 0 \/ OwnComes => Reached(F, N, m - j, j))
  <2>1. CASE \E f \in Files, n, j, m \in Nat, e \in Endings : Asking(f, n, j, m, e)
    BY <1>5, <2>1
  <2>2. CASE \E j, m \in Nat : Fetching(j, m)
    <3>1. PICK j \in Nat, m \in Nat : Fetching(j, m)
      BY <2>2
    <3>2. /\ F = sv.downloadName /\ F \in Files /\ OwnBelow
          /\ (sv.download \/ N > 0 \/ OwnComes => Reached(F, N, m - j, j))
      BY <1>6, <3>1
    <3>. QED
      BY <3>1, <3>2
  <2>. QED
    BY <1>4, <2>1, <2>2 DEF Tidy, Phases
<1>. QED
  BY <1>1, <1>2, <1>3, <1>7

(* The client goes on asking. *)
LEMMA StillAsking ==
  ASSUME cl' = cl, up' = up, NEW f, NEW n, NEW j, NEW m, NEW e, Asking(f, n, j, m, e),
         NoOwn', sv'.top[f] >= 1, sv'.downloadName = f,
         sv'.download \/ n > 0 => Reached(f, n, m - j, j)',
         IF e = "ask" THEN n = Blocks[f] + 1 /\ m > j ELSE n <= Blocks[f]
  PROVE  Asking(f, n, j, m, e)'
<1>1. F' = F /\ (Fresh' <=> Fresh)
  BY DEF F, N, Fresh
<1>2. Conv(f, n, j, m)' /\ Ending(m, e)'
  BY <1>1 DEF Asking, Conv, Ending, Says
<1>3. Finishing(f, n, j, m, e)'
  BY DEF Finishing
<1>. QED
  BY <1>1, <1>2, <1>3 DEF Asking

LEMMA StillFetching ==
  ASSUME cl' = cl, up' = up, have' = have, NEW j, NEW m, Fetching(j, m), OwnBlocks', Serving(j, m)'
  PROVE  Fetching(j, m)'
<1>1. PICK f, n : f = F /\ n = N
  OBVIOUS
<1>2. F' = f /\ N' = n /\ cl'.bWWWDl = cl.bWWWDl /\ cl'.bWWWDlAborting = cl.bWWWDlAborting
  BY <1>1 DEF F, N
<1>3. Conv(f, n, j, m)' /\ Answered(m)' /\ (FirstMissing => FirstMissing')
  BY <1>1, <1>2 DEF Fetching, Conv, Answered, Says, FirstMissing
<1>. QED
  BY <1>1, <1>2, <1>3 DEF Fetching

LEMMA CleanBad ==
  ASSUME Base, Clean, Gamestates, Tidy, WriteBad
  PROVE  mixed' # "first" /\ Gamestates' /\ Tidy'
<1>0. Types /\ Tops /\ Sendable /\ Len(down) <= MaxInFlight
  BY DEF Base, Types
<1>1. PICK f : f = sv.downloadName
  OBVIOUS
<1>2. /\ Writing /\ ~sv.download /\ Blocks[f] = 0
      /\ sv'.downloadXmitBlock = sv.downloadXmitBlock
      /\ sv'.downloadClientBlock = sv.downloadClientBlock /\ ~sv'.bFallback
      /\ sv'.downloadName = None /\ ~sv'.download
      /\ sv'.top = sv.top
      /\ \E msg \in Message :
           down' = Sent(msg) /\ msg.kind = "bad" /\ msg.serverId = serverId
  BY <1>0, <1>1, BadIsWritten
<1>3. PICK msg \in Message : down' = Sent(msg) /\ msg.kind = "bad"
  BY <1>2
<1>4. down \in Seq(Message) /\ up \in Seq(Batch) /\ N \in Nat /\ f \in Files /\ sv.top[f] \in Nat /\ Len(up) \in Nat
  BY <1>1, <1>2, BaseGives DEF Writing
<1>5. Posts(msg) /\ ~Data(msg)
  BY <1>0, <1>3, <1>4, SentIs DEF Data
<1>6. PICK d : Follows(d)
  BY <1>4, <1>5, PostsFollow
<1>7. /\ NoGamestate /\ Stays /\ up' = up /\ cl' = cl /\ ~Zombie
  BY <1>2, WritingIs
<1>8. Gamestates'
  BY <1>3, <1>4, <1>5, <1>7, MessagePosted
<1>9. /\ F' = F /\ N' = N /\ (Fresh' <=> Fresh) /\ (OnWeb' <=> OnWeb) /\ (Aborts' <=> Aborts)
      /\ (NoOwn => NoOwn') /\ (OwnBlocks => OwnBlocks') /\ (RedirectComes' => RedirectComes)
      /\ Foreigns' /\ WebClient' /\ Webbed'
  BY <1>2, <1>6, <1>7, FollowKeeps DEF Tidy
<1>10. ~(sv.top[f] >= 1)
  BY <1>0, <1>2, <1>4 DEF Tops
<1>11. PICK j \in Nat, m \in Nat : Fetching(j, m) /\ F = f
  <2>1. \A n, j, m \in Nat, e \in Endings : ~Asking(f, n, j, m, e)
    BY <1>10 DEF Asking
  <2>. QED
    BY <1>1, <1>2, <2>1, WritingIs
<1>12. NoOwn
  <2>1. ASSUME NEW i \in 1 .. Len(down), Own(down[i]) PROVE FALSE
    <3>1. down[i].block < sv.top[f] /\ down[i].block \in Nat
      BY <1>0, <1>11, <2>1, BaseGives DEF Sendable, Own
    <3>. QED
      BY <1>4, <1>10, <3>1
  <2>. QED
    BY <2>1 DEF NoOwn
<1>13. ~OnWeb
  BY <1>10, <1>11 DEF Tidy, Webbed
<1>14. ~cl.bWWWDl /\ N = 0 /\ m = Len(up) /\ j = Len(up)
  <2>1. ~cl.bWWWDl
    BY <1>11, <1>13 DEF OnWeb, Fetching
  <2>2. N = 0
    BY <1>2, <1>4, <1>11 DEF Fetching
  <2>3. m = Len(up)
    BY <1>11, <2>1 DEF Fetching, Answered
  <2>4. j <= m /\ m - j <= 0
    BY <1>11, <2>2 DEF Fetching, Conv
  <2>. QED
    BY <2>1, <2>2, <2>3, <2>4
<1>15. Serving(j, m)'
  <2>1. Fresh
    BY <1>14 DEF Fresh
  <2>. QED
    BY <1>2, <1>7, <1>9, <1>12, <1>14, <2>1 DEF Serving
<1>16. Fetching(j, m)'
  <2>1. OwnBlocks' /\ have' = have
    BY <1>7, <1>9, <1>11 DEF Fetching, Stays
  <2>. QED
    BY <1>7, <1>11, <1>15, <2>1, StillFetching
<1>17. Phases'
  BY <1>16 DEF Phases
<1>18. WebServer'
  BY <1>2, <1>7, <1>9 DEF Tidy, WebServer, Stays
<1>19. Bounds'
  BY <1>2, <1>9 DEF Tidy, Bounds
<1>. QED
  BY <1>7, <1>8, <1>9, <1>17, <1>18, <1>19 DEF Tidy, Clean, Stays

LEMMA TopStays ==
  ASSUME Base, sv' \in Server, NEW f \in Files, NEW n \in Nat, TopsUp(f, n), n \in Counter,
         \A g \in Files : sv.top[g] \in Counter
  PROVE  /\ \A g \in Files : sv'.top[g] \in Counter
         /\ sv'.top[f] >= n /\ sv'.top[f] >= sv.top[f]
<1>1. sv.top[f] \in Nat
  BY BaseGives
<1>2. sv'.top[f] \in Counter /\ sv'.top[f] >= n /\ sv'.top[f] >= sv.top[f]
  BY <1>1 DEF TopsUp, AtLeast
<1>3. \A g \in Files : g = f \/ sv'.top[g] = sv.top[g]
  BY DEF TopsUp
<1>. QED
  BY <1>2, <1>3

LEMMA CleanWriteRedirect ==
  ASSUME Base, Clean, Gamestates, Tidy, WriteRedirect
  PROVE  mixed' # "first" /\ Gamestates' /\ Tidy'
<1>0. Types /\ Len(down) <= MaxInFlight
  BY DEF Base, Types
<1>1. PICK f : f = sv.downloadName
  OBVIOUS
<1>2. /\ Writing /\ ~sv.download /\ bDlOK /\ ~sv.bFallback /\ Blocks[f] > 0
      /\ sv'.downloadCurrentBlock = sv.downloadCurrentBlock
      /\ sv'.downloadXmitBlock = sv.downloadXmitBlock
      /\ sv'.downloadBlocks = sv.downloadBlocks
      /\ sv'.downloadClientBlock = sv.downloadClientBlock /\ ~sv'.bFallback
      /\ sv'.downloadName = f /\ ~sv'.download
      /\ TopsUp(f, 1)
      /\ \E msg \in Message :
           /\ down' = Sent(msg) /\ msg.kind = "redirect" /\ msg.block = 0
           /\ msg.data.file = f /\ msg.again = (sv.top[f] > 0) /\ msg.serverId = serverId
  BY <1>0, <1>1, RedirectIsWritten
<1>3. PICK msg \in Message :
        /\ down' = Sent(msg) /\ msg.kind = "redirect" /\ msg.block = 0
        /\ msg.data.file = f /\ msg.again = (sv.top[f] > 0)
  BY <1>2
<1>30. sv.top[f] > 0 => msg.again
  BY <1>3, Zenon
<1>4. /\ down \in Seq(Message) /\ up \in Seq(Batch) /\ N \in Nat /\ f \in Files /\ sv.top[f] \in Nat
      /\ sv' \in Server
  BY <1>1, <1>2, BaseGives DEF Writing
<1>31. sv.top[f] >= 1 => msg.again
  <2>1. sv.top[f] >= 1 => sv.top[f] > 0
    BY <1>4
  <2>. QED
    BY <1>30, <2>1, Zenon
<1>5. Posts(msg) /\ Data(msg)
  BY <1>0, <1>3, <1>4, SentIs DEF Data
<1>6. /\ NoGamestate /\ ~Zombie /\ ~Zombie' /\ Stays /\ up' = up
      /\ cl' = cl /\ F' = F /\ N' = N /\ (Fresh' <=> Fresh) /\ (OnWeb' <=> OnWeb) /\ (Aborts' <=> Aborts)
      /\ \/ \E n, j, m \in Nat, e \in Endings :
              /\ Asking(f, n, j, m, e)
              /\ (sv.download \/ n > 0 => Reached(f, n, m - j, j))
              /\ IF e = "ask" THEN n = Blocks[f] + 1 /\ m > j ELSE n <= Blocks[f]
         \/ /\ F = f /\ F \in Files
            /\ \E j, m \in Nat : /\ Fetching(j, m) /\ OwnBelow
                                 /\ (sv.download \/ N > 0 \/ OwnComes => Reached(F, N, m - j, j))
  BY <1>1, <1>2, WritingIs
<1>7. /\ Gamestates'
      /\ (Foreign(msg) => (msg.again \/ msg.block > 0) /\ Fresh /\ NoOwn) => Foreigns'
      /\ NoOwn /\ ~Own(msg) => NoOwn'
      /\ OwnBlocks => OwnBlocks'
      /\ (OwnComes' => OwnComes)
  BY <1>3, <1>4, <1>5, <1>6, MessagePosted DEF Tidy, OwnBlock
<1>8. 1 \in Counter /\ \A g \in Files : sv.top[g] \in Counter
  <2>1. 1 <= Blocks[f] + 1
    BY <1>2, <1>4, FilesAre
  <2>. QED
    BY <1>4, <2>1, CounterIs DEF Tidy, Bounds
<1>9. (\A g \in Files : sv'.top[g] \in Counter) /\ sv'.top[f] >= 1
  BY <1>2, <1>4, <1>8, TopStays
<1>10. ASSUME NEW n, NEW c, NEW j, Reached(f, n, c, j) PROVE Reached(f, n, c, j)'
  BY <1>2, <1>10 DEF Reached, Exact
<1>11. Phases' /\ Foreigns'
  <2>1. CASE \E n, j, m \in Nat, e \in Endings :
               /\ Asking(f, n, j, m, e)
               /\ (sv.download \/ n > 0 => Reached(f, n, m - j, j))
               /\ IF e = "ask" THEN n = Blocks[f] + 1 /\ m > j ELSE n <= Blocks[f]
    <3>1. PICK n \in Nat, j \in Nat, m \in Nat, e \in Endings :
               /\ Asking(f, n, j, m, e)
               /\ (sv.download \/ n > 0 => Reached(f, n, m - j, j))
               /\ IF e = "ask" THEN n = Blocks[f] + 1 /\ m > j ELSE n <= Blocks[f]
      BY <2>1
    <3>2. f # F /\ Fresh /\ NoOwn /\ sv.top[f] >= 1
      BY <3>1 DEF Asking
    <3>3. ~Own(msg) /\ msg.again
      BY <1>3, <1>31, <3>2 DEF Own
    <3>4. Foreigns' /\ NoOwn'
      BY <1>7, <3>2, <3>3
    <3>5. sv'.download \/ n > 0 => Reached(f, n, m - j, j)'
      BY <1>2, <1>10, <3>1
    <3>6. Asking(f, n, j, m, e)'
      BY <1>2, <1>6, <1>9, <3>1, <3>4, <3>5, StillAsking
    <3>. QED
      BY <1>4, <3>4, <3>6 DEF Phases
  <2>2. CASE F = f /\ \E j, m \in Nat :
               /\ Fetching(j, m) /\ OwnBelow
               /\ (sv.download \/ N > 0 \/ OwnComes => Reached(F, N, m - j, j))
    <3>1. PICK n \in Nat : n = N
      BY <1>4
    <3>2. PICK j \in Nat, m \in Nat :
               /\ Fetching(j, m) /\ OwnBelow
               /\ (sv.download \/ n > 0 \/ OwnComes => Reached(f, n, m - j, j))
      BY <2>2, <3>1
    <3>3. ~Foreign(msg)
      BY <1>3, <2>2 DEF Foreign
    <3>4. Foreigns' /\ OwnBlocks'
      BY <1>7, <3>2, <3>3 DEF Fetching
    <3>5. OwnBelow'
      <4>1. PICK d \in 0 .. 1 :
              \A i \in 1 .. Len(down') : i < Len(down') => i + d \in 1 .. Len(down) /\ down'[i] = down[i + d]
        BY <1>4, <1>5, PostedIs
      <4>2. Len(down') \in Nat /\ down'[Len(down')] = msg
        BY <1>4, <1>5, PostedIs
      <4>3. \A i \in 1 .. Len(down') : i < Len(down') \/ i = Len(down')
        BY <4>2
      <4>4. \A i \in 1 .. Len(down') : down'[i].kind = "block" =>
              i + d \in 1 .. Len(down) /\ down'[i] = down[i + d]
        BY <1>3, <4>1, <4>2, <4>3
      <4>. QED
        BY <1>2, <1>6, <3>2, <4>4 DEF OwnBelow, OwnBlock, Own
    <3>6. Serving(j, m)'
      <4>1. sv'.download \/ n > 0 \/ OwnComes' => Reached(f, n, m - j, j)'
        BY <1>2, <1>7, <1>10, <3>2
      <4>2. F' = f /\ N' = n
        BY <1>6, <2>2, <3>1
      <4>. QED
        BY <1>2, <3>5, <4>1, <4>2 DEF Serving
    <3>7. Fetching(j, m)'
      BY <1>6, <3>2, <3>4, <3>6, StillFetching DEF Stays
    <3>. QED
      BY <3>4, <3>7 DEF Phases
  <2>. QED
    BY <1>6, <2>1, <2>2
<1>12. PICK d \in 0 .. 1 :
         \A i \in 1 .. Len(down') : i < Len(down') => i + d \in 1 .. Len(down) /\ down'[i] = down[i + d]
  BY <1>4, <1>5, PostedIs
<1>13. Len(down') \in Nat /\ down'[Len(down')] = msg
  BY <1>4, <1>5, PostedIs
<1>14. \A i \in 1 .. Len(down') : i < Len(down') \/ i = Len(down')
  BY <1>13
<1>15. Webbed'
  <2>1. ASSUME OnWeb
        PROVE  /\ sv'.top[F] >= 1
               /\ \A i \in 1 .. Len(down') : Own(down'[i]) => down'[i].again \/ down'[i].block > 0
    <3>1. /\ sv.top[F] >= 1 /\ F \in Files
          /\ \A i \in 1 .. Len(down) : Own(down[i]) => down[i].again \/ down[i].block > 0
      BY <2>1, BaseGives DEF Tidy, Webbed, OnWeb
    <3>2. sv'.top[F] >= 1
      BY <1>2, <1>9, <3>1 DEF TopsUp
    <3>3. Own(msg) => msg.again
      <4>1. Own(msg) => F = f
        BY <1>3 DEF Own
      <4>2. Own(msg) => sv.top[f] >= 1
        BY <3>1, <4>1
      <4>. QED
        BY <1>31, <4>2, Zenon
    <3>. QED
      BY <1>12, <1>13, <1>14, <3>1, <3>2, <3>3
  <2>. QED
    BY <1>6, <2>1 DEF Webbed, Own
<1>16. WebClient'
  <2>1. OnWeb => \A i \in 1 .. Len(down') : down'[i].kind # "block"
    BY <1>3, <1>12, <1>13, <1>14 DEF Tidy, WebClient
  <2>2. \A i, k \in 1 .. Len(down') : i < k /\ down'[i].kind = "redirect" => down'[k].kind # "block"
    <3>. SUFFICES ASSUME NEW i \in 1 .. Len(down'), NEW k \in 1 .. Len(down'), i < k,
                         down'[i].kind = "redirect"
                  PROVE  down'[k].kind # "block"
      OBVIOUS
    <3>1. CASE k < Len(down')
      <4>1. i + d \in 1 .. Len(down) /\ down'[i] = down[i + d] /\ k + d \in 1 .. Len(down)
            /\ down'[k] = down[k + d] /\ i + d < k + d
        BY <1>12, <1>13, <3>1
      <4>. QED
        BY <4>1 DEF Tidy, WebClient
    <3>2. CASE k = Len(down')
      BY <1>3, <1>13, <3>2
    <3>. QED
      BY <1>14, <3>1, <3>2
  <2>3. cl'.bWWWDl = cl.bWWWDl /\ cl'.bWWWDlAborting = cl.bWWWDlAborting
    BY <1>6
  <2>. QED
    BY <1>6, <2>1, <2>2, <2>3 DEF Tidy, WebClient
<1>17. WebServer'
  BY <1>2, <1>6 DEF WebServer, Stays
<1>18. Bounds'
  BY <1>2, <1>6, <1>9 DEF Tidy, Bounds
<1>. QED
  BY <1>6, <1>7, <1>11, <1>15, <1>16, <1>17, <1>18 DEF Tidy, Clean, Stays

(* What a block sent leaves behind. *)
LEMMA SendsReached ==
  ASSUME Base, NEW f \in Files, f = sv.downloadName, NEW c \in Nat, NEW k \in Nat, NEW x \in Nat,
         NEW b \in Nat, Sends(f, c, k, x, b), NEW n \in Nat, NEW q \in Nat, NEW j,
         q <= n, n <= Blocks[f] + 1,
         sv.download \/ n > 0 => Reached(f, n, q, j)
  PROVE  /\ Reached(f, n, q, j)'
         /\ b < sv'.downloadCurrentBlock /\ b <= Blocks[f]
         /\ b < n \/ b >= sv'.downloadCurrentBlock - W
         /\ Reached(f, n, q, j) => sv.downloadCurrentBlock <= sv'.downloadCurrentBlock
         /\ k \in Counter /\ b + 1 \in Counter
<1>1. /\ W \in Nat /\ W > 0 /\ Blocks[f] \in Nat /\ sv.downloadCurrentBlock \in Nat
      /\ sv.downloadClientBlock \in Nat /\ sv.downloadXmitBlock \in Nat
  BY BaseGives
<1>2. PICK e \in Nat : e = AtLeast(c, AtMost(k + W, Blocks[f] + 1))
  BY <1>1 DEF AtLeast, AtMost
<1>3. /\ Starts(c, k, x) /\ sv'.download /\ sv'.downloadClientBlock = k
      /\ sv'.downloadCurrentBlock = e /\ k # e
      /\ b = (IF x = e THEN k ELSE x) /\ sv'.downloadXmitBlock = b + 1
      /\ Fills(f, c, e)
  BY <1>2 DEF Sends
<1>4. /\ e = AtMost(k + W, Blocks[f] + 1) /\ c <= e /\ n <= e /\ k + q <= n /\ x <= e
      /\ (sv.download => Reached(f, n, q, j))
      /\ (Reached(f, n, q, j) => sv.downloadCurrentBlock <= e)
      /\ (j > 0 => k = 0)
  <2>1. CASE sv.download
    <3>1. c = sv.downloadCurrentBlock /\ k = sv.downloadClientBlock /\ x = sv.downloadXmitBlock
      BY <1>3, <2>1 DEF Starts
    <3>2. Reached(f, n, q, j)
      BY <2>1
    <3>3. /\ n <= c /\ c <= Blocks[f] + 1 /\ k + q <= n /\ c <= k + W /\ x <= c
          /\ (j > 0 => k = 0)
      BY <3>1, <3>2 DEF Reached
    <3>4. e = AtMost(k + W, Blocks[f] + 1) /\ c <= e
      BY <1>1, <1>2, <3>3 DEF AtLeast, AtMost
    <3>. QED
      BY <1>1, <3>1, <3>2, <3>3, <3>4
  <2>2. CASE ~sv.download
    <3>1. c = 0 /\ k = 0 /\ x = 0
      BY <1>3, <2>2 DEF Starts
    <3>2. e = AtMost(W, Blocks[f] + 1) /\ k + W = W
      BY <1>1, <1>2, <3>1 DEF AtLeast, AtMost
    <3>3. Reached(f, n, q, j) => n <= e /\ sv.downloadCurrentBlock <= e
      BY <1>1, <2>2, <3>2 DEF Reached
    <3>4. n <= e
      BY <3>3
    <3>. QED
      BY <2>2, <3>1, <3>2, <3>3, <3>4
  <2>. QED
    BY <2>1, <2>2
<1>5. e <= k + W /\ e <= Blocks[f] + 1 /\ k < e
  BY <1>1, <1>3, <1>4 DEF AtMost
<1>6. b < e /\ (b = k \/ b = x)
  BY <1>3, <1>4, <1>5
<1>7. ASSUME NEW a \in Nat, a < e, a >= e - W
      PROVE  sv'.downloadBlocks[Slot(a)] = BlockOf(f, a)
  <2>1. CASE c <= a
    BY <1>3, <1>7, <2>1 DEF Fills
  <2>2. CASE a < c
    <3>1. sv'.downloadBlocks[Slot(a)] = sv.downloadBlocks[Slot(a)]
      BY <1>3, <1>7, <2>2 DEF Fills
    <3>2. sv.download
      BY <1>3, <2>2 DEF Starts
    <3>3. c = sv.downloadCurrentBlock /\ Exact(f)
      BY <1>3, <1>4, <3>2 DEF Starts, Reached
    <3>4. a >= sv.downloadCurrentBlock - W
      BY <1>1, <1>4, <1>7, <3>3
    <3>5. sv.downloadBlocks[Slot(a)] = BlockOf(f, a)
      BY <2>2, <3>3, <3>4 DEF Exact
    <3>. QED
      BY <3>1, <3>5
  <2>. QED
    BY <2>1, <2>2
<1>8. Exact(f)'
  BY <1>3, <1>7 DEF Exact
<1>9. b + 1 <= e
  BY <1>6
<1>10. Reached(f, n, q, j)'
  BY <1>3, <1>4, <1>5, <1>8, <1>9 DEF Reached
<1>11. b < n \/ b >= e - W
  <2>1. ~(b >= e - W) => b < k
    BY <1>1, <1>5
  <2>. QED
    BY <1>4, <2>1
<1>12. b <= Blocks[f] /\ k <= Blocks[f] + 1 /\ b + 1 <= Blocks[f] + 1
  BY <1>1, <1>5, <1>6
<1>13. k \in Counter /\ b + 1 \in Counter
  BY <1>12, CounterIs
<1>. QED
  BY <1>3, <1>4, <1>6, <1>10, <1>11, <1>12, <1>13

LEMMA CleanWriteBlock ==
  ASSUME Base, Clean, Gamestates, Tidy, WriteBlock
  PROVE  mixed' # "first" /\ Gamestates' /\ Tidy'
<1>0. Types /\ Len(down) <= MaxInFlight
  BY DEF Base, Types
<1>1. PICK f : f = sv.downloadName
  OBVIOUS
<1>2. PICK c \in Nat, k \in Nat, x \in Nat, b \in Nat : Sends(f, c, k, x, b)
  BY <1>0, <1>1, BlockIsWritten
<1>3. /\ Writing /\ Blocks[f] > 0 /\ (sv.download \/ ~bDlOK \/ sv.bFallback)
      /\ sv'.download /\ sv'.downloadName = f
      /\ sv'.downloadClientBlock = k /\ sv'.downloadXmitBlock = b + 1
      /\ TopsUp(f, b + 1)
      /\ \E msg \in Message :
           /\ down' = Sent(msg) /\ msg.kind = "block" /\ msg.block = b
           /\ msg.data = sv'.downloadBlocks[Slot(b)] /\ msg.again = (b < sv.top[f])
           /\ msg.serverId = serverId
  BY <1>2 DEF Sends
<1>4. PICK msg \in Message :
        /\ down' = Sent(msg) /\ msg.kind = "block" /\ msg.block = b
        /\ msg.data = sv'.downloadBlocks[Slot(b)] /\ msg.again = (b < sv.top[f])
  BY <1>3
<1>5. b < sv.top[f] => msg.again
  BY <1>4, Zenon
<1>6. /\ down \in Seq(Message) /\ up \in Seq(Batch) /\ N \in Nat /\ f \in Files /\ sv.top[f] \in Nat
      /\ sv' \in Server /\ Blocks[f] \in Nat
  BY <1>1, <1>3, BaseGives DEF Writing
<1>7. sv.top[f] >= 1 => msg.again \/ msg.block > 0
  <2>1. sv.top[f] >= 1 => b < sv.top[f] \/ b > 0
    BY <1>6
  <2>. QED
    BY <1>4, <1>5, <2>1
<1>8. Posts(msg) /\ Data(msg)
  BY <1>0, <1>4, <1>6, SentIs DEF Data
<1>9. msg.data.file = f
  BY <1>1, <1>2, <1>4, SentFile
<1>10. /\ NoGamestate /\ ~Zombie /\ ~Zombie' /\ Stays /\ up' = up
      /\ cl' = cl /\ F' = F /\ N' = N /\ (Fresh' <=> Fresh) /\ (OnWeb' <=> OnWeb) /\ (Aborts' <=> Aborts)
      /\ \/ \E n, j, m \in Nat, e \in Endings :
              /\ Asking(f, n, j, m, e)
              /\ (sv.download \/ n > 0 => Reached(f, n, m - j, j))
              /\ IF e = "ask" THEN n = Blocks[f] + 1 /\ m > j ELSE n <= Blocks[f]
         \/ /\ F = f /\ F \in Files
            /\ \E j, m \in Nat : /\ Fetching(j, m) /\ OwnBelow
                                 /\ (sv.download \/ N > 0 \/ OwnComes => Reached(F, N, m - j, j))
  BY <1>1, <1>3, WritingIs
<1>11. /\ Gamestates'
       /\ (Foreign(msg) => (msg.again \/ msg.block > 0) /\ Fresh /\ NoOwn) => Foreigns'
       /\ NoOwn /\ ~Own(msg) => NoOwn'
       /\ /\ OwnBlocks
          /\ OwnBlock(msg) => msg.block <= Blocks[F] /\ (msg.data = BlockOf(F, msg.block) \/ msg.block < N)
          => OwnBlocks'
       /\ (RedirectComes' => RedirectComes)
  BY <1>4, <1>6, <1>8, <1>10, MessagePosted DEF Tidy
<1>12. ~OnWeb /\ ~RedirectComes
  <2>1. sv.downloadName # None
    BY <1>3 DEF Writing
  <2>. QED
    BY <1>3, <2>1 DEF Tidy, WebServer
<1>13. PICK d \in 0 .. 1 :
         \A i \in 1 .. Len(down') : i < Len(down') => i + d \in 1 .. Len(down) /\ down'[i] = down[i + d]
  BY <1>6, <1>8, PostedIs
<1>14. Len(down') \in Nat /\ down'[Len(down')] = msg
  BY <1>6, <1>8, PostedIs
<1>15. \A i \in 1 .. Len(down') : i < Len(down') \/ i = Len(down')
  BY <1>14
<1>16. Phases' /\ Foreigns' /\ k \in Counter /\ b + 1 \in Counter
  <2>1. CASE \E n, j, m \in Nat, e \in Endings :
               /\ Asking(f, n, j, m, e)
               /\ (sv.download \/ n > 0 => Reached(f, n, m - j, j))
               /\ IF e = "ask" THEN n = Blocks[f] + 1 /\ m > j ELSE n <= Blocks[f]
    <3>1. PICK n \in Nat, j \in Nat, m \in Nat, e \in Endings :
               /\ Asking(f, n, j, m, e)
               /\ (sv.download \/ n > 0 => Reached(f, n, m - j, j))
               /\ IF e = "ask" THEN n = Blocks[f] + 1 /\ m > j ELSE n <= Blocks[f]
      BY <2>1
    <3>2. f # F /\ Fresh /\ NoOwn /\ sv.top[f] >= 1 /\ Conv(f, n, j, m)
      BY <3>1 DEF Asking
    <3>3. ~Own(msg) /\ (msg.again \/ msg.block > 0)
      BY <1>7, <1>9, <3>2 DEF Own
    <3>4. Foreigns' /\ NoOwn'
      BY <1>11, <3>2, <3>3
    <3>5. m - j \in Nat /\ m - j <= n
      BY <3>2 DEF Conv
    <3>6. n <= Blocks[f] + 1
      BY <1>6, <3>1
    <3>7. /\ Reached(f, n, m - j, j)'
          /\ k \in Counter /\ b + 1 \in Counter
      BY <1>1, <1>2, <1>6, <3>1, <3>5, <3>6, SendsReached
    <3>8. sv'.top[f] >= 1
      <4>1. sv'.top[f] >= b + 1
        BY <1>3, <1>6, <3>7, TopStays DEF Tidy, Bounds
      <4>2. sv'.top[f] \in Nat
        BY <1>3, <1>6 DEF TopsUp, AtLeast
      <4>. QED
        BY <4>1, <4>2
    <3>9. Asking(f, n, j, m, e)'
      BY <1>3, <1>10, <3>1, <3>4, <3>7, <3>8, StillAsking
    <3>. QED
      BY <1>6, <3>4, <3>7, <3>9 DEF Phases
  <2>2. CASE F = f /\ \E j, m \in Nat :
               /\ Fetching(j, m) /\ OwnBelow
               /\ (sv.download \/ N > 0 \/ OwnComes => Reached(F, N, m - j, j))
    <3>1. PICK n \in Nat : n = N
      BY <1>6
    <3>2. PICK j \in Nat, m \in Nat :
               /\ Fetching(j, m) /\ OwnBelow
               /\ (sv.download \/ n > 0 \/ OwnComes => Reached(f, n, m - j, j))
      BY <2>2, <3>1
    <3>3. ~Foreign(msg)
      BY <1>9, <2>2 DEF Foreign
    <3>4. n <= Blocks[f] + 1 /\ m - j \in Nat /\ m - j <= n
      <4>1. n <= Blocks[f] /\ Conv(f, n, j, m)
        BY <2>2, <3>1, <3>2 DEF Fetching
      <4>. QED
        BY <1>6, <4>1 DEF Conv
    <3>11. sv.download \/ n > 0 => Reached(f, n, m - j, j)
      BY <3>2
    <3>5. /\ Reached(f, n, m - j, j)'
          /\ b < sv'.downloadCurrentBlock /\ b <= Blocks[f]
          /\ b < n \/ sv'.downloadBlocks[Slot(b)] = BlockOf(f, b)
          /\ Reached(f, n, m - j, j) => sv.downloadCurrentBlock <= sv'.downloadCurrentBlock
          /\ k \in Counter /\ b + 1 \in Counter
      <4>1. PICK q \in Nat : q = m - j
        BY <3>4
      <4>2. q <= n /\ (sv.download \/ n > 0 => Reached(f, n, q, j))
        BY <3>4, <3>11, <4>1
      <4>3. /\ Reached(f, n, q, j)'
            /\ b < sv'.downloadCurrentBlock /\ b <= Blocks[f]
            /\ b < n \/ sv'.downloadBlocks[Slot(b)] = BlockOf(f, b)
            /\ Reached(f, n, q, j) => sv.downloadCurrentBlock <= sv'.downloadCurrentBlock
            /\ k \in Counter /\ b + 1 \in Counter
        <5>1. Sends(f, c, k, x, b) /\ f = sv.downloadName /\ n <= Blocks[f] + 1
          BY <1>1, <1>2, <3>4
        <5>2. Reached(f, n, q, j)' /\ k \in Counter /\ b + 1 \in Counter
          BY <1>6, <4>2, <5>1, SendsReached
        <5>3. b < sv'.downloadCurrentBlock /\ b <= Blocks[f]
          BY <1>6, <4>2, <5>1, SendsReached
        <5>4. b < n \/ sv'.downloadBlocks[Slot(b)] = BlockOf(f, b)
          <6>1. b < n \/ b >= sv'.downloadCurrentBlock - W
            BY <1>6, <4>2, <5>1, SendsReached
          <6>2. Exact(f)'
            BY <5>2 DEF Reached
          <6>3. b >= sv'.downloadCurrentBlock - W => sv'.downloadBlocks[Slot(b)] = BlockOf(f, b)
            BY <5>3, <6>2 DEF Exact
          <6>. QED
            BY <6>1, <6>3
        <5>5. Reached(f, n, q, j) => sv.downloadCurrentBlock <= sv'.downloadCurrentBlock
          BY <1>6, <4>2, <5>1, SendsReached
        <5>. QED
          BY <5>2, <5>3, <5>4, <5>5
      <4>. QED
        BY <4>1, <4>3
    <3>6. msg.block <= Blocks[F] /\ (msg.data = BlockOf(F, msg.block) \/ msg.block < N)
      BY <1>4, <2>2, <3>1, <3>5
    <3>7. Foreigns' /\ OwnBlocks'
      BY <1>11, <3>2, <3>3, <3>6 DEF Fetching
    <3>8. OwnBelow'
      <4>1. \A i \in 1 .. Len(down) : OwnBlock(down[i]) => down[i].block < sv'.downloadCurrentBlock
        <5>. SUFFICES ASSUME NEW i \in 1 .. Len(down), OwnBlock(down[i])
                      PROVE  down[i].block < sv'.downloadCurrentBlock
          OBVIOUS
        <5>1. OwnComes
          BY DEF OwnComes
        <5>2. sv.downloadCurrentBlock <= sv'.downloadCurrentBlock
          BY <3>2, <3>5, <5>1
        <5>3. down[i].block < sv.downloadCurrentBlock
          BY <3>2 DEF OwnBelow
        <5>4. down[i].block \in Nat /\ sv.downloadCurrentBlock \in Nat /\ sv'.downloadCurrentBlock \in Int
          <6>1. sv'.downloadCurrentBlock \in Counter
            BY <1>6 DEF Server
          <6>2. sv'.downloadCurrentBlock \in Nat
            BY <6>1, CounterIs
          <6>3. down[i].block \in Nat /\ sv.downloadCurrentBlock \in Nat
            BY BaseGives
          <6>. QED
            BY <6>2, <6>3
        <5>. QED
          BY <5>2, <5>3, <5>4
      <4>2. \A i \in 1 .. Len(down') : down'[i] = msg \/ (i + d \in 1 .. Len(down) /\ down'[i] = down[i + d])
        BY <1>13, <1>14, <1>15
      <4>3. msg.block < sv'.downloadCurrentBlock
        BY <1>4, <3>5
      <4>. QED
        BY <1>10, <4>1, <4>2, <4>3 DEF OwnBelow, OwnBlock, Own
    <3>9. Serving(j, m)'
      <4>1. F' = f /\ N' = n
        BY <1>10, <2>2, <3>1
      <4>. QED
        BY <1>3, <3>5, <3>8, <4>1 DEF Serving
    <3>10. Fetching(j, m)'
      BY <1>10, <3>2, <3>7, <3>9, StillFetching DEF Stays
    <3>. QED
      BY <3>5, <3>7, <3>10 DEF Phases
  <2>. QED
    BY <1>10, <2>1, <2>2
<1>17. Webbed'
  BY <1>10, <1>12 DEF Webbed
<1>18. WebClient'
  <2>1. \A i \in 1 .. Len(down') : down'[i].kind # "redirect"
    BY <1>4, <1>12, <1>13, <1>14, <1>15 DEF RedirectComes
  <2>. QED
    BY <1>10, <1>12, <2>1 DEF Tidy, WebClient
<1>19. WebServer'
  BY <1>10, <1>11, <1>12 DEF WebServer
<1>20. Bounds'
  <2>1. \A g \in Files : sv'.top[g] \in Counter
    BY <1>3, <1>6, <1>16, TopStays DEF Tidy, Bounds
  <2>. QED
    BY <1>3, <1>10, <1>16, <2>1 DEF Tidy, Bounds
<1>. QED
  BY <1>10, <1>11, <1>16, <1>17, <1>18, <1>19, <1>20 DEF Tidy, Clean, Stays

(* Only a client that is connected changes. *)
LEMMA OnlyConnected ==
  ASSUME Next \/ UNCHANGED vars
  PROVE  /\ cl' = cl \/ Connected
         /\ mixed' = mixed \/ (Connected /\ \E m : mixed' = Mixes(m))
<1>1. CASE Receive
  <2>1. Connected
    BY <1>1 DEF Receive, ReceiveGamestate, ReceiveUnrequested, ReceiveBad, ReceiveRedirect,
                ReceiveOther, ReceiveUnwritable, ReceiveBlock, ReceiveEOF, Arrives
  <2>2. mixed' = mixed \/ \E m : mixed' = Mixes(m)
    BY <1>1 DEF Receive, ReceiveGamestate, ReceiveUnrequested, ReceiveBad, ReceiveRedirect,
                ReceiveOther, ReceiveUnwritable, ReceiveBlock, ReceiveEOF
  <2>. QED
    BY <2>1, <2>2
<1>2. CASE WWWDone \/ WWWFail \/ GivesUp
  BY <1>2 DEF WWWDone, WWWFail, GivesUp, Downloading
<1>3. CASE (\E level : ExecuteBatch(level) \/ IgnoreBatch(level)) \/ ResendGamestate \/ Lose
  BY <1>3 DEF ExecuteBatch, IgnoreBatch, ResendGamestate, Lose
<1>4. CASE WriteRedirect \/ WriteBad \/ WriteBlock \/ Quiet \/ NewLevel
  BY <1>4 DEF WriteRedirect, WriteBad, WriteBlock, Writes, Quiet, NewLevel
<1>5. CASE UNCHANGED vars
  BY <1>5 DEF vars
<1>. QED
  BY <1>1, <1>2, <1>3, <1>4, <1>5 DEF Next, ExecutePacket

LEMMA CleanLasts ==
  ASSUME Next \/ UNCHANGED vars, mixed # "first", ~Clean
  PROVE  mixed' # "first" /\ ~Clean'
<1>1. /\ cl' = cl \/ Connected
      /\ mixed' = mixed \/ (Connected /\ \E m : mixed' = Mixes(m))
  BY OnlyConnected
<1>2. CASE ~Connected
  BY <1>1, <1>2 DEF Clean, Connected
<1>3. CASE mixed # "no"
  <2>1. mixed' = mixed
    BY <1>1, <1>3 DEF Mixes
  <2>. QED
    BY <1>3, <2>1 DEF Clean
<1>. QED
  BY <1>2, <1>3 DEF Clean

(* Every step keeps what holds as long as no block was mixed up, and none  *)
(* is the first time it is sent.                                           *)
LEMMA CleanNext ==
  ASSUME Base, mixed # "first", Clean => Gamestates /\ Tidy, Next \/ UNCHANGED vars
  PROVE  mixed' # "first" /\ (Clean' => Gamestates' /\ Tidy')
<1>1. CASE ~Clean
  BY <1>1, CleanLasts
<1>2. CASE Clean
  <2>0. Gamestates /\ Tidy /\ mixed = "no" /\ Types
    BY <1>2 DEF Clean, Base
  <2>1. CASE Receive
    <3>1. CASE ReceiveUnrequested
      BY <2>0, <3>1, UnrequestedIsRead DEF Clean, Connected
    <3>2. CASE ReceiveBad
      BY <2>0, <3>2, BadIsRead DEF Clean, Connected
    <3>3. CASE ReceiveGamestate
      BY <1>2, <2>0, <3>3, CleanGamestate
    <3>4. ASSUME NEW begins \in BOOLEAN, ReceiveRedirect(begins)
          PROVE  mixed' # "first" /\ (Clean' => Gamestates' /\ Tidy')
      BY <1>2, <2>0, <3>4, CleanRedirect
    <3>5. CASE ReceiveOther
      BY <1>2, <2>0, <3>5, CleanOther
    <3>6. CASE ReceiveUnwritable
      BY <1>2, <2>0, <3>6, CleanUnwritable
    <3>7. CASE ReceiveBlock
      BY <1>2, <2>0, <3>7, CleanBlock
    <3>8. CASE ReceiveEOF
      BY <1>2, <2>0, <3>8, CleanEOF
    <3>. QED
      BY <2>1, <3>1, <3>2, <3>3, <3>4, <3>5, <3>6, <3>7, <3>8 DEF Receive
  <2>2. CASE Lose
    BY <1>2, <2>0, <2>2, CleanOther
  <2>3. CASE WWWDone
    BY <1>2, <2>0, <2>3, CleanWWWDone
  <2>4. CASE WWWFail
    BY <1>2, <2>0, <2>4, CleanWWWFail
  <2>5. CASE GivesUp
    BY <2>0, <2>5, GivesUpIs DEF Clean, Connected, OffLine
  <2>6. ASSUME NEW level, ExecuteBatch(level)
        PROVE  mixed' # "first" /\ (Clean' => Gamestates' /\ Tidy')
    BY <1>2, <2>0, <2>6, CleanExecute
  <2>7. ASSUME NEW level, IgnoreBatch(level)
        PROVE  mixed' # "first" /\ (Clean' => Gamestates' /\ Tidy')
    BY <1>2, <2>0, <2>7, CleanIgnore
  <2>8. CASE ResendGamestate
    BY <1>2, <2>0, <2>8, CleanResend
  <2>9. CASE WriteRedirect
    BY <1>2, <2>0, <2>9, CleanWriteRedirect
  <2>10. CASE WriteBad
    BY <1>2, <2>0, <2>10, CleanBad
  <2>11. CASE WriteBlock
    BY <1>2, <2>0, <2>11, CleanWriteBlock
  <2>12. CASE Quiet \/ NewLevel \/ UNCHANGED vars
    BY <1>2, <2>0, <2>12, CleanWaits
  <2>. QED
    BY <2>1, <2>2, <2>3, <2>4, <2>5, <2>6, <2>7, <2>8, <2>9, <2>10, <2>11, <2>12
    DEF Next, ExecutePacket
<1>. QED
  BY <1>1, <1>2

LEMMA CleanInit == Init => mixed # "first" /\ Gamestates /\ Tidy
<1>. SUFFICES ASSUME Init PROVE mixed # "first" /\ Gamestates /\ Tidy
  OBVIOUS
<1>1. sv = NewServer /\ cl = NewClient /\ mixed = "no" /\ down = <<>> /\ up = <<>>
  BY DEF Init
<1>2. /\ F = None /\ N = 0 /\ ~cl.bWWWDl /\ ~cl.bWWWDlAborting
  BY <1>1 DEF NewClient, F, N
<1>3. /\ sv.downloadName = None /\ sv.downloadClientBlock = 0 /\ sv.downloadXmitBlock = 0
      /\ \A f \in Files : sv.top[f] = 0
  BY <1>1 DEF NewServer
<1>4. Len(down) = 0 /\ Len(up) = 0 /\ (1 .. Len(down)) = {}
  BY <1>1
<1>5. 0 \in Counter
  <2>1. Longest \in Nat
    BY LongestIs
  <2>. QED
    BY <2>1 DEF Counter
<1>6. Phases
  BY <1>2, <1>3, <1>4 DEF Phases, Waiting
<1>7. Gamestates /\ Foreigns /\ Webbed
  BY <1>2, <1>4 DEF Gamestates, Foreigns, Webbed, OnWeb
<1>8. WebClient /\ WebServer
  BY <1>2, <1>4 DEF WebClient, WebServer, OnWeb, RedirectComes
<1>9. Bounds
  BY <1>2, <1>3, <1>5 DEF Bounds
<1>. QED
  BY <1>1, <1>6, <1>7, <1>8, <1>9 DEF Tidy

-----------------------------------------------------------------------------
(* On the first level, whatever was mixed up. *)

LEMMA AtFirstGives ==
  ASSUME Base, AtFirst, Alone
  PROVE  /\ cl.serverId = 0 \/ cl.serverId = 1
         /\ Len(up) > 0 \/ F # None \/ cl.bWWWDl \/ sv.downloadName # None => cl.serverId = 1
         /\ \A i \in 1 .. Len(down) : down[i].serverId = 1
<1>1. cl.serverId \in Nat /\ serverId = 1 /\ Len(up) \in Nat
  BY BaseGives DEF AtFirst
<1>2. cl.serverId = 0 \/ cl.serverId = 1
  BY <1>1 DEF Base, Stamps
<1>3. \A i \in 1 .. Len(down) : down[i].serverId \in Nat
  BY BaseGives, MessageIs
<1>4. \A i \in 1 .. Len(down) : down[i].serverId = 1
  BY <1>1, <1>3 DEF Base, Stamps
<1>. QED
  BY <1>1, <1>2, <1>4 DEF Alone, Unseen

(* No step leads back to the first level. *)
LEMMA AtFirstBefore ==
  ASSUME Base, Next \/ UNCHANGED vars, AtFirst'
  PROVE  AtFirst /\ serverId' = serverId
<1>1. cl' = cl \/ Connected
  BY OnlyConnected
<1>2. serverId' = serverId \/ serverId' = serverId + 1
  <2>1. CASE Receive
    BY <2>1 DEF Receive, ReceiveGamestate, ReceiveUnrequested, ReceiveBad, ReceiveRedirect,
                ReceiveOther, ReceiveUnwritable, ReceiveBlock, ReceiveEOF, Arrives
  <2>2. CASE WWWDone \/ WWWFail \/ GivesUp
    BY <2>2 DEF WWWDone, WWWFail, GivesUp
  <2>3. CASE (\E level : ExecuteBatch(level) \/ IgnoreBatch(level)) \/ ResendGamestate \/ Lose
    BY <2>3 DEF ExecuteBatch, IgnoreBatch, ResendGamestate, Lose
  <2>4. CASE WriteRedirect \/ WriteBad \/ WriteBlock \/ Quiet \/ NewLevel
    BY <2>4 DEF WriteRedirect, WriteBad, WriteBlock, Writes, Quiet, NewLevel
  <2>5. CASE UNCHANGED vars
    BY <2>5 DEF vars
  <2>. QED
    BY <2>1, <2>2, <2>3, <2>4, <2>5 DEF Next, ExecutePacket
<1>3. serverId \in Nat /\ serverId >= 1
  BY TypesGive DEF Base
<1>. QED
  BY <1>1, <1>2, <1>3 DEF AtFirst, Connected

(* Messages are lost, or nothing changes. *)
LEMMA AloneWaits ==
  ASSUME Base, Alone, NEW d, Loses(d), cl' = cl, up' = up, bDlOK' = bDlOK,
         sv'.downloadName = sv.downloadName, sv'.download = sv.download,
         sv'.bFallback = sv.bFallback
  PROVE  Alone'
<1>1. /\ down \in Seq(Message) /\ Len(down) \in Nat /\ d \in 0 .. Len(down)
      /\ Len(down') = Len(down) - d
  BY BaseGives DEF Loses
<1>2. \A i \in 1 .. Len(down') : i + d \in 1 .. Len(down) /\ down'[i] = down[i + d]
  BY <1>1 DEF Loses
<1>3. Follows(d)
  BY <1>1, LosesFollow
<1>4. F' = F /\ (Aborts' <=> Aborts) /\ WebClient' /\ (RedirectComes' => RedirectComes) /\ (OnWeb' <=> OnWeb)
  BY <1>3, FollowKeeps DEF Alone
<1>5. Unseen'
  BY <1>2, <1>4 DEF Alone, Unseen, Data
<1>6. Farewells'
  BY <1>4 DEF Alone, Farewells
<1>7. WebServer'
  BY <1>4 DEF Alone, WebServer
<1>8. Once'
  <2>. SUFFICES ASSUME NEW i \in 1 .. Len(down'), down'[i].kind = "gamestate"
                PROVE  /\ \A k \in 1 .. Len(down') : down'[k].kind = "gamestate" => k = i
                       /\ Len(up) = 0
                       /\ F # None => Aborts /\ i = Len(down') /\ sv.downloadName = None
    BY <1>4 DEF Once
  <2>1. PICK a : a = i + d
    OBVIOUS
  <2>2. a \in 1 .. Len(down) /\ down[a].kind = "gamestate"
    BY <1>2, <2>1
  <2>3. /\ \A k \in 1 .. Len(down) : down[k].kind = "gamestate" => k = a
        /\ Len(up) = 0
        /\ F # None => Aborts /\ a = Len(down) /\ sv.downloadName = None
    BY <2>2 DEF Alone, Once
  <2>4. a = Len(down) => i = Len(down')
    BY <1>1, <2>1
  <2>5. ASSUME NEW k \in 1 .. Len(down'), down'[k].kind = "gamestate" PROVE k = i
    <3>1. k + d \in 1 .. Len(down) /\ down[k + d].kind = "gamestate"
      BY <1>2, <2>5
    <3>2. k + d = a
      BY <2>3, <3>1
    <3>. QED
      BY <1>1, <2>1, <3>2
  <2>. QED
    BY <2>3, <2>4, <2>5
<1>. QED
  BY <1>4, <1>5, <1>6, <1>7, <1>8 DEF Alone

(* The client, which has asked for a file and has not given it up, says    *)
(* something.                                                              *)
LEMMA AloneSpeaks ==
  ASSUME Base, AtFirst, Alone, F # None, ~Aborts, NEW d, Loses(d),
         sv' = sv, bDlOK' = bDlOK, cl'.serverId = cl.serverId,
         up' \in Seq(Batch), Len(up') > 0,
         \A i \in 1 .. Len(up') :
           \/ i \in 1 .. Len(up) /\ up'[i] = up[i]
           \/ /\ up'[i].serverId = cl'.serverId
              /\ GivesUpWeb(up'[i].commands) => i = Len(up') /\ Aborts'
              /\ IsDone(up'[i].commands) => i = Len(up') /\ F' = None,
         cl'.bWWWDlAborting => cl'.bWWWDl, cl'.bWWWDl => F' # None,
         OnWeb' => OnWeb \/ RedirectComes,
         OnWeb' => \A i \in 1 .. Len(down') : down'[i].kind # "block"
  PROVE  Alone'
<1>1. /\ down \in Seq(Message) /\ Len(down) \in Nat /\ d \in 0 .. Len(down)
      /\ Len(down') = Len(down) - d
  BY BaseGives DEF Loses
<1>2. \A i \in 1 .. Len(down') : i + d \in 1 .. Len(down) /\ down'[i] = down[i + d]
  <2>1. \A i \in 1 .. Len(down') : down'[i] = down[i + d]
    BY DEF Loses
  <2>2. \A i \in 1 .. Len(down') : i + d \in 1 .. Len(down)
    BY <1>1
  <2>. QED
    BY <2>1, <2>2
<1>3. \A i, k \in 1 .. Len(down') : i < k => i + d < k + d
  BY <1>1
<1>4. cl.serverId = 1
  BY AtFirstGives
<1>5. Unseen'
  BY <1>4 DEF Unseen
<1>6. Once'
  <2>1. \A i \in 1 .. Len(down) : down[i].kind # "gamestate"
    BY DEF Alone, Once
  <2>. QED
    BY <1>2, <2>1 DEF Once
<1>7. Farewells'
  <2>1. \A i \in 1 .. Len(up) :
          up[i].serverId = 1 /\ ~GivesUpWeb(up[i].commands) /\ ~IsDone(up[i].commands)
    BY DEF Alone, Farewells
  <2>. QED
    BY <1>4, <2>1 DEF Farewells
<1>8. WebClient'
  <2>1. \A i, k \in 1 .. Len(down') : i < k /\ down'[i].kind = "redirect" => down'[k].kind # "block"
    BY <1>2, <1>3 DEF Alone, WebClient
  <2>. QED
    BY <2>1 DEF WebClient
<1>9. WebServer'
  <2>1. RedirectComes' => RedirectComes
    BY <1>2 DEF RedirectComes
  <2>. QED
    BY <2>1 DEF Alone, WebServer
<1>. QED
  BY <1>5, <1>6, <1>7, <1>8, <1>9 DEF Alone

(* The batches, by their length and the words in them. *)
LEMMA WordsAre ==
  /\ \A n : Len(NextdlOf(n)) = 1 /\ NextdlOf(n)[1].cmd = "nextdl"
  /\ \A f : /\ Len(AskFor(f)) = 1 /\ AskFor(f)[1] = Asks(f)
            /\ Len(StopAsk(f)) = 2 /\ StopAsk(f)[1].cmd = "stopdl" /\ StopAsk(f)[2] = Asks(f)
            /\ Len(DoneAsk(f)) = 2 /\ DoneAsk(f)[1].cmd = "wwwdl_done" /\ DoneAsk(f)[2] = Asks(f)
            /\ Asks(f).cmd = IF f = None THEN "donedl" ELSE "download"
  /\ Len(Ack) = 1 /\ Ack[1].cmd = "wwwdl_ack"
  /\ Len(Fail) = 1 /\ Fail[1].cmd = "wwwdl_fail"
  /\ Len(AckFail) = 2 /\ AckFail[1].cmd = "wwwdl_ack" /\ AckFail[2].cmd = "wwwdl_fail"
  /\ Len(Stop) = 1 /\ Stop[1].cmd = "stopdl"
  /\ Len(Done) = 1 /\ Done[1].cmd = "wwwdl_done"
<1>1. \A w, a : Cmd(w, a).cmd = w
  BY DEF Cmd
<1>2. \A n : Len(NextdlOf(n)) = 1 /\ NextdlOf(n)[1].cmd = "nextdl"
  BY <1>1, OneHas DEF NextdlOf
<1>3. \A f : Asks(f).cmd = IF f = None THEN "donedl" ELSE "download"
  BY <1>1 DEF Asks
<1>4. \A f : Len(AskFor(f)) = 1 /\ AskFor(f)[1] = Asks(f)
  BY OneHas DEF AskFor
<1>5. \A f : Len(StopAsk(f)) = 2 /\ StopAsk(f)[1].cmd = "stopdl" /\ StopAsk(f)[2] = Asks(f)
  BY <1>1, TwoHas DEF StopAsk
<1>6. \A f : Len(DoneAsk(f)) = 2 /\ DoneAsk(f)[1].cmd = "wwwdl_done" /\ DoneAsk(f)[2] = Asks(f)
  BY <1>1, TwoHas DEF DoneAsk
<1>7. Len(Ack) = 1 /\ Ack[1].cmd = "wwwdl_ack" /\ Len(Fail) = 1 /\ Fail[1].cmd = "wwwdl_fail"
  BY <1>1, OneHas DEF Ack, Fail
<1>8. Len(AckFail) = 2 /\ AckFail[1].cmd = "wwwdl_ack" /\ AckFail[2].cmd = "wwwdl_fail"
  BY <1>1, TwoHas DEF AckFail
<1>9. Len(Stop) = 1 /\ Stop[1].cmd = "stopdl" /\ Len(Done) = 1 /\ Done[1].cmd = "wwwdl_done"
  BY <1>1, OneHas DEF Stop, Done
<1>. QED
  BY <1>2, <1>3, <1>4, <1>5, <1>6, <1>7, <1>8, <1>9

LEMMA LastWords ==
  /\ \A n : ~GivesUpWeb(NextdlOf(n)) /\ ~IsDone(NextdlOf(n))
  /\ \A f : /\ ~GivesUpWeb(AskFor(f)) /\ ~GivesUpWeb(StopAsk(f)) /\ ~GivesUpWeb(DoneAsk(f))
            /\ IsDone(AskFor(f)) \/ IsDone(StopAsk(f)) \/ IsDone(DoneAsk(f)) => f = None
  /\ \A b : b \in {Ack, Stop, Done} => ~GivesUpWeb(b) /\ ~IsDone(b)
  /\ \A b : b \in {Fail, AckFail} => GivesUpWeb(b) /\ ~IsDone(b)
<1>1. \A n : ~GivesUpWeb(NextdlOf(n)) /\ ~IsDone(NextdlOf(n))
  BY WordsAre DEF GivesUpWeb, IsDone
<1>2. ASSUME NEW f
      PROVE  /\ ~GivesUpWeb(AskFor(f)) /\ ~GivesUpWeb(StopAsk(f)) /\ ~GivesUpWeb(DoneAsk(f))
             /\ IsDone(AskFor(f)) \/ IsDone(StopAsk(f)) \/ IsDone(DoneAsk(f)) => f = None
  <2>1. Asks(f).cmd = "donedl" => f = None
    BY WordsAre
  <2>2. Asks(f).cmd \in {"donedl", "download"} /\ Asks(None).cmd = "donedl"
    BY WordsAre
  <2>3. ~GivesUpWeb(AskFor(f)) /\ ~GivesUpWeb(StopAsk(f)) /\ ~GivesUpWeb(DoneAsk(f))
    BY <2>2, WordsAre DEF GivesUpWeb
  <2>4. IsDone(AskFor(f)) => f = None
    BY <2>1, <2>2, WordsAre DEF IsDone
  <2>5. IsDone(StopAsk(f)) => f = None
    BY <2>1, <2>2, WordsAre DEF IsDone
  <2>6. IsDone(DoneAsk(f)) => f = None
    BY <2>1, <2>2, WordsAre DEF IsDone
  <2>. QED
    BY <2>3, <2>4, <2>5, <2>6
<1>3. Asks(None).cmd = "donedl"
  BY WordsAre
<1>4. \A b : b \in {Ack, Stop, Done} => ~GivesUpWeb(b) /\ ~IsDone(b)
  BY <1>3, WordsAre DEF GivesUpWeb, IsDone
<1>5. \A b : b \in {Fail, AckFail} => GivesUpWeb(b) /\ ~IsDone(b)
  BY <1>3, WordsAre DEF GivesUpWeb, IsDone
<1>. QED
  BY <1>1, <1>2, <1>4, <1>5

(* The batches there were stay, one or two are new. *)
LEMMA AddedIs ==
  ASSUME up \in Seq(Batch)
  PROVE  /\ \A b : Adds(b) => /\ Len(up') > 0 /\ up' \in Seq(Batch)
                              /\ \A i \in 1 .. Len(up') :
                                   \/ i \in 1 .. Len(up) /\ up'[i] = up[i]
                                   \/ /\ i = Len(up') /\ up'[i].serverId = cl'.serverId
                                      /\ up'[i].commands = b
         /\ \A b, c : AddsBoth(b, c) =>
                              /\ Len(up') > 0 /\ up' \in Seq(Batch)
                              /\ \A i \in 1 .. Len(up') :
                                   \/ i \in 1 .. Len(up) /\ up'[i] = up[i]
                                   \/ /\ up'[i].serverId = cl'.serverId
                                      /\ up'[i].commands = b
                                   \/ /\ i = Len(up') /\ up'[i].serverId = cl'.serverId
                                      /\ up'[i].commands = c
<1>1. Len(up) \in Nat
  OBVIOUS
<1>2. \A i \in 1 .. (Len(up) + 1) : i \in 1 .. Len(up) \/ i = Len(up) + 1
  BY <1>1
<1>3. \A i \in 1 .. (Len(up) + 2) : i \in 1 .. Len(up) \/ i = Len(up) + 1 \/ i = Len(up) + 2
  BY <1>1
<1>4. ASSUME NEW b, Adds(b)
      PROVE  /\ Len(up') > 0 /\ up' \in Seq(Batch)
             /\ \A i \in 1 .. Len(up') :
                  \/ i \in 1 .. Len(up) /\ up'[i] = up[i]
                  \/ /\ i = Len(up') /\ up'[i].serverId = cl'.serverId
                     /\ up'[i].commands = b
  BY <1>1, <1>2, <1>4 DEF Adds
<1>5. ASSUME NEW b, NEW c, AddsBoth(b, c)
      PROVE  /\ Len(up') > 0 /\ up' \in Seq(Batch)
             /\ \A i \in 1 .. Len(up') :
                  \/ i \in 1 .. Len(up) /\ up'[i] = up[i]
                  \/ up'[i].serverId = cl'.serverId /\ up'[i].commands = b
                  \/ i = Len(up') /\ up'[i].serverId = cl'.serverId /\ up'[i].commands = c
  BY <1>1, <1>3, <1>5 DEF AddsBoth
<1>. QED
  BY <1>4, <1>5

(* It has read a block. *)
LEMMA AloneTakes ==
  ASSUME Base, AtFirst, Alone, ReceiveUnwritable \/ ReceiveBlock \/ ReceiveEOF
  PROVE  Alone'
<1>0. Types /\ Restarts /\ up \in Seq(Batch)
  BY BaseGives DEF Base
<1>1. /\ Taken /\ cl'.bWWWDl = cl.bWWWDl /\ cl'.bWWWDlAborting = cl.bWWWDlAborting
      /\ cl'.serverId = cl.serverId
      /\ \/ Adds(NextdlOf(N))
         \/ \E f \in {None} \cup Files : F' = f /\ (Adds(StopAsk(f)) \/ AddsBoth(NextdlOf(N), AskFor(f)))
  <2>1. CASE ReceiveUnwritable
    BY <1>0, <2>1, UnwritableIsRead DEF Asked
  <2>2. CASE ReceiveBlock
    BY <1>0, <2>2, BlockIsRead
  <2>3. CASE ReceiveEOF
    BY <1>0, <2>3, EOFIsRead DEF Asked
  <2>. QED
    BY <2>1, <2>2, <2>3
<1>2. /\ F # None /\ Loses(1) /\ sv' = sv /\ bDlOK' = bDlOK /\ 1 \in 1 .. Len(down)
      /\ down[1].kind = "block"
  <2>1. Taken /\ Len(down) \in Nat
    BY <1>1, BaseGives
  <2>. QED
    BY <2>1 DEF Taken, Reads
<1>3. ~cl.bWWWDl /\ ~cl.bWWWDlAborting
  BY <1>2 DEF Alone, WebClient, OnWeb
<1>4. ~Aborts /\ ~cl'.bWWWDl /\ ~cl'.bWWWDlAborting /\ ~OnWeb'
  BY <1>1, <1>3 DEF Aborts, OnWeb
<1>5. /\ up' \in Seq(Batch) /\ Len(up') > 0
      /\ \A i \in 1 .. Len(up') :
           \/ i \in 1 .. Len(up) /\ up'[i] = up[i]
           \/ /\ up'[i].serverId = cl'.serverId
              /\ GivesUpWeb(up'[i].commands) => i = Len(up') /\ Aborts'
              /\ IsDone(up'[i].commands) => i = Len(up') /\ F' = None
  <2>1. CASE Adds(NextdlOf(N))
    BY <1>0, <2>1, AddedIs, LastWords
  <2>2. ASSUME NEW f, F' = f, Adds(StopAsk(f)) \/ AddsBoth(NextdlOf(N), AskFor(f))
        PROVE  /\ up' \in Seq(Batch) /\ Len(up') > 0
               /\ \A i \in 1 .. Len(up') :
                    \/ i \in 1 .. Len(up) /\ up'[i] = up[i]
                    \/ /\ up'[i].serverId = cl'.serverId
                       /\ GivesUpWeb(up'[i].commands) => i = Len(up') /\ Aborts'
                       /\ IsDone(up'[i].commands) => i = Len(up') /\ F' = None
    <3>1. /\ ~GivesUpWeb(NextdlOf(N)) /\ ~IsDone(NextdlOf(N))
          /\ ~GivesUpWeb(AskFor(f)) /\ ~GivesUpWeb(StopAsk(f))
          /\ IsDone(AskFor(f)) \/ IsDone(StopAsk(f)) => f = None
      BY LastWords
    <3>2. CASE Adds(StopAsk(f))
      BY <1>0, <2>2, <3>1, <3>2, AddedIs
    <3>3. CASE AddsBoth(NextdlOf(N), AskFor(f))
      <4>1. /\ Len(up') > 0 /\ up' \in Seq(Batch)
            /\ \A i \in 1 .. Len(up') :
                 \/ i \in 1 .. Len(up) /\ up'[i] = up[i]
                 \/ up'[i].serverId = cl'.serverId /\ up'[i].commands = NextdlOf(N)
                 \/ i = Len(up') /\ up'[i].serverId = cl'.serverId /\ up'[i].commands = AskFor(f)
        BY <1>0, <3>3, AddedIs
      <4>. QED
        BY <2>2, <3>1, <4>1
    <3>. QED
      BY <2>2, <3>2, <3>3
  <2>. QED
    BY <1>1, <2>1, <2>2
<1>. QED
  BY <1>1, <1>2, <1>4, <1>5, AloneSpeaks

(* The web transfer ends. *)
LEMMA AloneWWW ==
  ASSUME Base, AtFirst, Alone, WWWDone \/ WWWFail
  PROVE  Alone'
<1>0. Types /\ Restarts /\ up \in Seq(Batch) /\ down \in Seq(Message) /\ cl.bWWWDl \in BOOLEAN
  BY BaseGives DEF Base
<1>1. cl.bWWWDl /\ ~cl.bWWWDlAborting /\ F # None /\ OnWeb /\ ~Aborts
  BY DEF WWWDone, WWWFail, Downloading, Alone, WebClient, OnWeb, Aborts
<1>2. CASE WWWDone
  <2>1. PICK f : /\ OffLine /\ ~cl'.bWWWDl /\ cl'.bWWWDlAborting = cl.bWWWDlAborting
                 /\ cl'.serverId = cl.serverId /\ F' = f /\ Adds(DoneAsk(f))
    BY <1>0, <1>1, <1>2, WWWDoneIs DEF Asked
  <2>2. ~GivesUpWeb(DoneAsk(f)) /\ (IsDone(DoneAsk(f)) => f = None)
    BY LastWords
  <2>3. Loses(0)
    BY <1>0, <2>1, LosesNone DEF OffLine
  <2>4. /\ up' \in Seq(Batch) /\ Len(up') > 0
        /\ \A i \in 1 .. Len(up') :
             \/ i \in 1 .. Len(up) /\ up'[i] = up[i]
             \/ /\ up'[i].serverId = cl'.serverId
                /\ GivesUpWeb(up'[i].commands) => i = Len(up') /\ Aborts'
                /\ IsDone(up'[i].commands) => i = Len(up') /\ F' = None
    BY <1>0, <2>1, <2>2, AddedIs
  <2>5. ~OnWeb' /\ ~cl'.bWWWDl /\ ~cl'.bWWWDlAborting
    BY <1>1, <2>1 DEF OnWeb
  <2>. QED
    BY <1>1, <2>1, <2>3, <2>4, <2>5, AloneSpeaks DEF OffLine
<1>3. CASE WWWFail
  <2>1. /\ OffLine /\ cl'.bWWWDl = cl.bWWWDl /\ cl'.bWWWDlAborting
        /\ cl'.serverId = cl.serverId /\ F' = F /\ Adds(Fail)
    BY <1>0, <1>3, WWWFailIs
  <2>2. ~IsDone(Fail)
    BY LastWords
  <2>3. Loses(0) /\ down' = down
    BY <1>0, <2>1, LosesNone DEF OffLine
  <2>4. cl'.bWWWDl /\ F' # None /\ Aborts' /\ OnWeb'
    BY <1>0, <1>1, <2>1 DEF Aborts, OnWeb
  <2>5. /\ up' \in Seq(Batch) /\ Len(up') > 0
        /\ \A i \in 1 .. Len(up') :
             \/ i \in 1 .. Len(up) /\ up'[i] = up[i]
             \/ /\ up'[i].serverId = cl'.serverId
                /\ GivesUpWeb(up'[i].commands) => i = Len(up') /\ Aborts'
                /\ IsDone(up'[i].commands) => i = Len(up') /\ F' = None
    BY <1>0, <2>1, <2>2, <2>4, AddedIs
  <2>6. \A i \in 1 .. Len(down') : down'[i].kind # "block"
    BY <1>1, <2>3 DEF Alone, WebClient
  <2>. QED
    BY <1>1, <2>1, <2>3, <2>4, <2>5, <2>6, AloneSpeaks DEF OffLine
<1>. QED
  BY <1>2, <1>3

(* It has read a redirect. *)
LEMMA AloneRedirect ==
  ASSUME Base, AtFirst, Alone, NEW begins \in BOOLEAN, ReceiveRedirect(begins)
  PROVE  Alone'
<1>0. Types /\ up \in Seq(Batch) /\ down \in Seq(Message) /\ Len(down) \in Nat
  BY BaseGives DEF Base
<1>1. /\ Reads("redirect") /\ F # None
      /\ \/ cl.bWWWDl /\ cl' = cl /\ up' = up
         \/ /\ ~cl.bWWWDl /\ cl'.bWWWDl /\ F' = F
            /\ cl'.bWWWDlAborting = (cl.bWWWDlAborting \/ ~begins)
            /\ cl'.serverId = cl.serverId /\ Adds(Answer(begins))
  BY <1>0, RedirectIsRead
<1>2. Loses(1) /\ sv' = sv /\ bDlOK' = bDlOK /\ 1 \in 1 .. Len(down) /\ down[1].kind = "redirect"
  BY <1>0, <1>1 DEF Reads
<1>3. CASE cl' = cl /\ up' = up
  BY <1>2, <1>3, AloneWaits
<1>4. CASE /\ ~cl.bWWWDl /\ cl'.bWWWDl /\ F' = F
           /\ cl'.bWWWDlAborting = (cl.bWWWDlAborting \/ ~begins)
           /\ cl'.serverId = cl.serverId /\ Adds(Answer(begins))
  <2>1. ~Aborts /\ RedirectComes
    BY <1>2, <1>4 DEF Aborts, OnWeb, RedirectComes
  <2>2. ~begins => Aborts'
    BY <1>1, <1>4 DEF Aborts, OnWeb
  <2>3. ~IsDone(Answer(begins)) /\ (GivesUpWeb(Answer(begins)) => Aborts')
    <3>1. CASE begins
      BY <3>1, LastWords DEF Answer
    <3>2. CASE ~begins
      BY <2>2, <3>2, LastWords DEF Answer
    <3>. QED
      BY <3>1, <3>2
  <2>4. /\ up' \in Seq(Batch) /\ Len(up') > 0
        /\ \A i \in 1 .. Len(up') :
             \/ i \in 1 .. Len(up) /\ up'[i] = up[i]
             \/ /\ up'[i].serverId = cl'.serverId
                /\ GivesUpWeb(up'[i].commands) => i = Len(up') /\ Aborts'
                /\ IsDone(up'[i].commands) => i = Len(up') /\ F' = None
    BY <1>0, <1>4, <2>3, AddedIs
  <2>5. \A i \in 1 .. Len(down') : down'[i].kind # "block"
    <3>1. \A i \in 1 .. Len(down') : i + 1 \in 1 .. Len(down) /\ 1 < i + 1 /\ down'[i] = down[i + 1]
      BY <1>0, <1>2 DEF Loses
    <3>. QED
      BY <1>2, <3>1 DEF Alone, WebClient
  <2>. QED
    BY <1>1, <1>2, <1>4, <2>1, <2>4, <2>5, AloneSpeaks
<1>. QED
  BY <1>1, <1>3, <1>4

(* It has read a gamestate. *)
LEMMA AloneGamestate ==
  ASSUME Base, AtFirst, Alone, ReceiveGamestate, AtFirst'
  PROVE  Alone'
<1>0. Types /\ up \in Seq(Batch) /\ down \in Seq(Message) /\ Len(down) \in Nat /\ Len(up) \in Nat
  BY BaseGives DEF Base
<1>1. /\ Reads("gamestate") /\ cl'.serverId = down[1].serverId
      /\ ~cl'.bWWWDl /\ ~cl'.bWWWDlAborting /\ F' \in Files /\ Adds(AskFor(F'))
  BY <1>0, GamestateIsRead DEF AtFirst, Connected
<1>2. Loses(1) /\ sv' = sv /\ bDlOK' = bDlOK /\ 1 \in 1 .. Len(down) /\ down[1].kind = "gamestate"
  BY <1>0, <1>1 DEF Reads
<1>3. /\ \A i \in 1 .. Len(down') : i + 1 \in 1 .. Len(down) /\ down'[i] = down[i + 1]
      /\ Len(down') = Len(down) - 1
  BY <1>0, <1>2 DEF Loses
<1>4. /\ \A k \in 1 .. Len(down) : down[k].kind = "gamestate" => k = 1
      /\ Len(up) = 0
      /\ F # None => Aborts /\ 1 = Len(down) /\ sv.downloadName = None
  BY <1>2 DEF Alone, Once
<1>5. cl'.serverId = 1
  BY <1>1, <1>2, AtFirstGives
<1>6. Unseen'
  BY <1>5 DEF Unseen
<1>7. Once'
  <2>1. \A i \in 1 .. Len(down') : i + 1 # 1
    OBVIOUS
  <2>2. \A i \in 1 .. Len(down') : down'[i].kind # "gamestate"
    BY <1>3, <1>4, <2>1
  <2>. QED
    BY <2>2 DEF Once
<1>8. Farewells'
  <2>1. F' # None
    BY <1>1, FilesAre
  <2>2. PICK f : f = F'
    OBVIOUS
  <2>3. ~GivesUpWeb(AskFor(f)) /\ ~IsDone(AskFor(f))
    BY <2>1, <2>2, LastWords
  <2>4. \A i \in 1 .. Len(up') : up'[i].serverId = cl'.serverId /\ up'[i].commands = AskFor(f)
    <3>1. Adds(AskFor(f))
      BY <1>1, <2>2
    <3>2. Len(up') = 1
      BY <1>4, <3>1 DEF Adds
    <3>3. \A i \in 1 .. Len(up') : i = Len(up')
      BY <3>2
    <3>. QED
      BY <3>1, <3>3 DEF Adds
  <2>. QED
    BY <1>5, <2>3, <2>4 DEF Farewells
<1>9. WebClient'
  <2>1. \A i, k \in 1 .. Len(down') : i < k => i + 1 < k + 1
    OBVIOUS
  <2>2. \A i, k \in 1 .. Len(down') : i < k /\ down'[i].kind = "redirect" => down'[k].kind # "block"
    BY <1>3, <2>1 DEF Alone, WebClient
  <2>. QED
    BY <1>1, <2>2 DEF WebClient, OnWeb
<1>10. WebServer'
  <2>1. RedirectComes' => RedirectComes
    BY <1>3 DEF RedirectComes
  <2>2. RedirectComes' => Len(down) # 1
    BY <1>3 DEF RedirectComes
  <2>3. RedirectComes' => ~sv.bFallback
    BY <1>4, <2>1, <2>2 DEF Alone, WebServer, Aborts, OnWeb
  <2>. QED
    BY <1>1, <1>2, <2>1, <2>3 DEF Alone, WebServer, OnWeb
<1>. QED
  BY <1>6, <1>7, <1>8, <1>9, <1>10 DEF Alone

(* The server executes a batch. *)
LEMMA ExecutedSays ==
  ASSUME NEW level, ExecuteBatch(level), NEW b, IsBatch(b), Executing(b)
  PROVE  /\ sv'.download => sv.download
         /\ ~GivesUpWeb(b) => sv'.bFallback = sv.bFallback
         /\ GivesUpWeb(b) => Closed(sv')
         /\ down' = down \/ (down' = Sent(Gamestate) /\ (GivesUpWeb(b) \/ IsDone(b)))
<1>1. ASSUME NEW n \in Nat, b = NextdlOf(n)
      PROVE  (sv'.download => sv.download) /\ sv'.bFallback = sv.bFallback /\ down' = down
  <2>1. Executing(NextdlOf(n))
    BY <1>1
  <2>. QED
    BY <2>1, ExecutesNextdl DEF Closed
<1>2. ASSUME NEW f \in {None} \cup Files, b = AskFor(f)
      PROVE  /\ (sv'.download => sv.download) /\ sv'.bFallback = sv.bFallback
             /\ down' = down \/ (down' = Sent(Gamestate) /\ IsDone(b))
  <2>1. Executing(AskFor(f))
    BY <1>2
  <2>2. f = None => IsDone(b)
    BY <1>2 DEF IsDone
  <2>. QED
    BY <2>1, <2>2, ExecutesAsk DEF Granted
<1>3. ASSUME NEW f \in {None} \cup Files, b = StopAsk(f)
      PROVE  /\ (sv'.download => sv.download) /\ sv'.bFallback = sv.bFallback
             /\ down' = down \/ (down' = Sent(Gamestate) /\ IsDone(b))
  <2>1. Executing(StopAsk(f))
    BY <1>3
  <2>2. f = None => IsDone(b)
    BY <1>3 DEF IsDone
  <2>. QED
    BY <2>1, <2>2, ExecutesStopAsk DEF Granted, Closed
<1>4. ASSUME NEW f \in {None} \cup Files, b = DoneAsk(f)
      PROVE  /\ (sv'.download => sv.download) /\ sv'.bFallback = sv.bFallback
             /\ down' = down \/ (down' = Sent(Gamestate) /\ IsDone(b))
  <2>1. Executing(DoneAsk(f))
    BY <1>4
  <2>2. f = None => IsDone(b)
    BY <1>4 DEF IsDone
  <2>. QED
    BY <2>1, <2>2, ExecutesDoneAsk DEF Granted, Closed
<1>5. ASSUME b \in {Ack, Stop, Done}
      PROVE  (sv'.download => sv.download) /\ sv'.bFallback = sv.bFallback /\ down' = down
  <2>1. CASE b = Ack
    BY <2>1, ExecutesAck DEF Closed
  <2>2. CASE b = Stop
    BY <2>2, ExecutesStop DEF Closed
  <2>3. CASE b = Done
    BY <2>3, ExecutesDone DEF Closed
  <2>. QED
    BY <1>5, <2>1, <2>2, <2>3
<1>6. ASSUME b \in {Fail, AckFail}
      PROVE  Closed(sv') /\ (down' = down \/ down' = Sent(Gamestate))
  <2>1. CASE b = Fail
    BY <2>1, ExecutesFail DEF GaveUp
  <2>2. CASE b = AckFail
    BY <2>2, ExecutesAckFail DEF GaveUp
  <2>. QED
    BY <1>6, <2>1, <2>2
<1>7. \A n : ~GivesUpWeb(NextdlOf(n))
  BY LastWords
<1>8. \A f : ~GivesUpWeb(AskFor(f)) /\ ~GivesUpWeb(StopAsk(f)) /\ ~GivesUpWeb(DoneAsk(f))
  BY LastWords
<1>9. /\ b \in {Ack, Stop, Done} => ~GivesUpWeb(b)
      /\ b \in {Fail, AckFail} => GivesUpWeb(b)
  BY LastWords
<1>10. CASE \E n \in Nat : b = NextdlOf(n)
  BY <1>1, <1>7, <1>10
<1>11. CASE \E f \in {None} \cup Files : b \in {AskFor(f), StopAsk(f), DoneAsk(f)}
  BY <1>2, <1>3, <1>4, <1>8, <1>11
<1>12. CASE b \in {Ack, Stop, Done}
  BY <1>5, <1>9, <1>12
<1>13. CASE b \in {Fail, AckFail}
  BY <1>6, <1>9, <1>13 DEF Closed
<1>. QED
  BY <1>10, <1>11, <1>12, <1>13 DEF IsBatch

(* A gamestate is sent, and it is the only one. *)
LEMMA AlonePosts ==
  ASSUME Base, AtFirst, cl' = cl, bDlOK' = bDlOK, NoGamestate, WebClient,
         down' = Sent(Gamestate), Len(up') = 0,
         F # None => Aborts /\ sv'.downloadName = None,
         Unseen', WebServer'
  PROVE  Alone'
<1>1. down \in Seq(Message) /\ Len(down) \in Nat
  BY BaseGives
<1>2. Posts(Gamestate) /\ \E d : Follows(d)
  BY GamestateSent
<1>3. F' = F /\ (Aborts' <=> Aborts) /\ WebClient'
  BY <1>2, FollowKeeps
<1>4. PICK d \in 0 .. 1 :
        \A i \in 1 .. Len(down') : i < Len(down') => i + d \in 1 .. Len(down) /\ down'[i] = down[i + d]
  BY <1>1, <1>2, PostedIs
<1>5. Len(down') \in Nat
  BY <1>1, <1>2, PostedIs
<1>6. \A i \in 1 .. Len(down') : i < Len(down') \/ i = Len(down')
  BY <1>5
<1>7. \A i \in 1 .. Len(down') : down'[i].kind = "gamestate" => i = Len(down')
  BY <1>4, <1>6 DEF NoGamestate
<1>8. Once'
  BY <1>3, <1>7 DEF Once
<1>9. Farewells'
  BY DEF Farewells
<1>. QED
  BY <1>3, <1>8, <1>9 DEF Alone

LEMMA AloneResend ==
  ASSUME Base, AtFirst, Alone, ResendGamestate
  PROVE  Alone'
<1>1. /\ Stays /\ up' = up /\ Untouched /\ GamestateLost /\ down' = Sent(Gamestate)
  BY ResendingIs DEF Base
<1>2. NoGamestate /\ cl.serverId < serverId
  BY <1>1, LostIs
<1>3. cl.serverId = 0
  BY <1>2, AtFirstGives DEF AtFirst
<1>4. /\ F = None /\ ~cl.bWWWDl /\ Len(up) = 0 /\ sv.downloadName = None /\ ~sv.download
      /\ ~sv.bFallback /\ \A i \in 1 .. Len(down) : ~Data(down[i])
  BY <1>3 DEF Alone, Unseen
<1>5. PICK d : Follows(d)
  BY <1>1, GamestateSent
<1>6. F' = F /\ cl' = cl /\ bDlOK' = bDlOK
  BY <1>1 DEF Stays, F
<1>7. \A i \in 1 .. Len(down') : ~Data(down'[i])
  BY <1>4, <1>5 DEF Follows
<1>8. Unseen'
  BY <1>1, <1>4, <1>6, <1>7 DEF Unseen, Untouched
<1>9. WebServer'
  BY <1>4, <1>6, <1>7 DEF WebServer, OnWeb, RedirectComes, Data
<1>. QED
  BY <1>1, <1>2, <1>4, <1>6, <1>8, <1>9, AlonePosts DEF Alone

LEMMA AloneExecutes ==
  ASSUME Base, AtFirst, Alone, NEW level, ExecuteBatch(level)
  PROVE  Alone'
<1>0. Types /\ ~sv.gamestate /\ up \in Seq(Batch) /\ Len(up) \in Nat /\ down \in Seq(Message)
  BY BaseGives DEF Base
<1>1. TakesPacket(level) /\ Executing(up[1].commands)
  BY <1>0, ExecutingIs
<1>2. /\ Takes /\ Stays /\ Len(up) > 0 /\ 1 \in 1 .. Len(up) /\ Len(up') = Len(up) - 1
      /\ \A i \in 1 .. Len(up') : i + 1 \in 1 .. Len(up) /\ up'[i] = up[i + 1]
  BY <1>0, <1>1 DEF TakesPacket, Takes
<1>3. PICK b : b = up[1].commands
  OBVIOUS
<1>4. IsBatch(b) /\ Executing(b)
  BY <1>1, <1>2, <1>3 DEF Base, Batches
<1>5. /\ sv'.download => sv.download
      /\ ~GivesUpWeb(b) => sv'.bFallback = sv.bFallback
      /\ GivesUpWeb(b) => Closed(sv')
      /\ down' = down \/ (down' = Sent(Gamestate) /\ (GivesUpWeb(b) \/ IsDone(b)))
  BY <1>4, ExecutedSays
<1>6. /\ NoGamestate /\ cl.serverId = 1
      /\ GivesUpWeb(b) => 1 = Len(up) /\ Aborts
      /\ IsDone(b) => 1 = Len(up) /\ F = None
  <2>1. NoGamestate
    BY <1>2 DEF Alone, Once, NoGamestate
  <2>2. cl.serverId = 1
    BY <1>2, AtFirstGives
  <2>. QED
    BY <1>2, <1>3, <2>1, <2>2 DEF Alone, Farewells
<1>7. cl' = cl /\ bDlOK' = bDlOK /\ F' = F /\ (OnWeb' <=> OnWeb) /\ (Aborts' <=> Aborts)
  BY <1>2 DEF Stays, F, OnWeb, Aborts
<1>8. Unseen'
  BY <1>6, <1>7 DEF Unseen
<1>9. OnWeb \/ RedirectComes => ~sv'.download /\ bDlOK /\ (GivesUpWeb(b) \/ ~sv'.bFallback)
  BY <1>2, <1>5 DEF Alone, WebServer
<1>10. RedirectComes' => RedirectComes
  <2>1. CASE down' = down
    BY <2>1 DEF RedirectComes
  <2>2. CASE down' = Sent(Gamestate)
    <3>1. PICK d : Follows(d)
      BY <2>2, GamestateSent
    <3>. QED
      BY <3>1 DEF Follows, RedirectComes, Data
  <2>. QED
    BY <1>5, <2>1, <2>2
<1>11. WebServer'
  <2>1. GivesUpWeb(b) => Aborts /\ sv'.downloadName = None /\ Len(up') = 0
    <3>1. 1 = Len(up) => Len(up') = 0
      <4>1. Len(up') = Len(up) - 1
        BY <1>2
      <4>2. 1 = Len(up) => Len(up') = 1 - 1
        BY <4>1, Zenon
      <4>. QED
        BY <4>2
    <3>. QED
      BY <1>5, <1>6, <3>1 DEF Closed
  <2>. QED
    BY <1>7, <1>9, <1>10, <2>1 DEF WebServer
<1>12. CASE down' = down
  <2>1. WebClient'
    BY <1>7, <1>12 DEF Alone, WebClient
  <2>2. Once'
    BY <1>6, <1>12 DEF Once, NoGamestate
  <2>3. Farewells'
    <3>1. \A i \in 1 .. Len(up') : i + 1 = Len(up) => i = Len(up')
      BY <1>0, <1>2
    <3>2. \A i \in 1 .. Len(up') :
            /\ up[i + 1].serverId = 1
            /\ GivesUpWeb(up[i + 1].commands) => i + 1 = Len(up) /\ Aborts
            /\ IsDone(up[i + 1].commands) => i + 1 = Len(up) /\ F = None
      BY <1>2 DEF Alone, Farewells
    <3>3. \A i \in 1 .. Len(up') : up'[i] = up[i + 1]
      BY <1>2
    <3>. QED
      BY <1>7, <3>1, <3>2, <3>3 DEF Farewells
  <2>. QED
    BY <1>8, <1>11, <2>1, <2>2, <2>3 DEF Alone
<1>13. CASE down' = Sent(Gamestate) /\ (GivesUpWeb(b) \/ IsDone(b))
  <2>1. Len(up') = 0
    BY <1>2, <1>6, <1>13
  <2>2. F # None => Aborts /\ sv'.downloadName = None
    BY <1>5, <1>6, <1>13 DEF Closed
  <2>. QED
    BY <1>6, <1>7, <1>8, <1>11, <1>13, <2>1, <2>2, AlonePosts DEF Alone
<1>. QED
  BY <1>5, <1>12, <1>13

(* No batch is ignored. *)
LEMMA AloneHears ==
  ASSUME Base, AtFirst, Alone, NEW level, IgnoreBatch(level)
  PROVE  FALSE
<1>0. Types /\ up \in Seq(Batch) /\ Len(up) \in Nat
  BY BaseGives DEF Base
<1>1. TakesPacket(level) /\ OldLevel(level)
  BY <1>0, PacketIs DEF IgnoreBatch
<1>2. 1 \in 1 .. Len(up) /\ level \in {up[1].serverId, cl.serverId}
  BY <1>0, <1>1 DEF TakesPacket, Takes
<1>3. up[1].serverId = 1 /\ cl.serverId = 1
  BY <1>0, <1>2, AtFirstGives DEF Alone, Farewells
<1>. QED
  BY <1>1, <1>2, <1>3 DEF OldLevel, AtFirst

(* The server writes a message that is no gamestate. *)
LEMMA OnceWrites ==
  ASSUME Base, Once, cl' = cl, up' = up, sv.downloadName # None,
         NEW msg, Posts(msg), msg.kind # "gamestate"
  PROVE  Once'
<1>1. down \in Seq(Message) /\ Len(down) \in Nat
  BY BaseGives
<1>2. PICK d \in 0 .. 1 :
        \A i \in 1 .. Len(down') : i < Len(down') => i + d \in 1 .. Len(down) /\ down'[i] = down[i + d]
  BY <1>1, PostedIs
<1>3. Len(down') \in Nat /\ down'[Len(down')] = msg
  BY <1>1, PostedIs
<1>4. \A i \in 1 .. Len(down') : i < Len(down') \/ i = Len(down')
  BY <1>3
<1>5. \A i \in 1 .. Len(down') : down'[i].kind = "gamestate" => i + d \in 1 .. Len(down) /\ down'[i] = down[i + d]
  BY <1>2, <1>3, <1>4
<1>6. ASSUME NEW i \in 1 .. Len(down'), down'[i].kind = "gamestate"
      PROVE  /\ \A k \in 1 .. Len(down') : down'[k].kind = "gamestate" => k = i
             /\ Len(up) = 0 /\ F = None
  <2>1. PICK a : a = i + d
    OBVIOUS
  <2>2. a \in 1 .. Len(down) /\ down[a].kind = "gamestate"
    BY <1>5, <1>6, <2>1
  <2>3. /\ \A k \in 1 .. Len(down) : down[k].kind = "gamestate" => k = a
        /\ Len(up) = 0 /\ F = None
    BY <2>2 DEF Once
  <2>4. ASSUME NEW k \in 1 .. Len(down'), down'[k].kind = "gamestate" PROVE k = i
    <3>1. k + d \in 1 .. Len(down) /\ down[k + d].kind = "gamestate"
      BY <1>5, <2>4
    <3>2. k + d = i + d
      BY <2>1, <2>3, <3>1
    <3>. QED
      BY <3>2
  <2>. QED
    BY <2>3, <2>4
<1>. QED
  BY <1>6 DEF Once, F

LEMMA AloneWrites ==
  ASSUME Base, AtFirst, Alone, WriteRedirect \/ WriteBad \/ WriteBlock
  PROVE  Alone'
<1>0. Types /\ down \in Seq(Message) /\ Len(down) \in Nat /\ Len(down) <= MaxInFlight
  BY BaseGives DEF Base, Types
<1>1. PICK f : f = sv.downloadName
  OBVIOUS
<1>2. Writing
  <2>1. CASE WriteRedirect
    BY <1>0, <1>1, <2>1, RedirectIsWritten
  <2>2. CASE WriteBad
    BY <1>0, <1>1, <2>2, BadIsWritten
  <2>3. CASE WriteBlock
    BY <1>0, <1>1, <2>3, BlockIsWritten DEF Sends
  <2>. QED
    BY <2>1, <2>2, <2>3
<1>3. /\ cl' = cl /\ up' = up /\ bDlOK' = bDlOK /\ sv.downloadName # None /\ cl.serverId = 1
      /\ F' = F /\ (OnWeb' <=> OnWeb) /\ (Aborts' <=> Aborts)
  BY <1>2, AtFirstGives DEF Writing, Stays, F, OnWeb, Aborts
<1>4. Unseen' /\ Farewells'
  BY <1>3 DEF Alone, Farewells, Unseen
<1>5. OnWeb \/ RedirectComes => ~sv.download /\ bDlOK /\ ~sv.bFallback
  BY <1>3 DEF Alone, WebServer
<1>6. CASE WriteBlock
  <2>1. PICK c \in Nat, k \in Nat, x \in Nat, b \in Nat : Sends(f, c, k, x, b)
    BY <1>0, <1>1, <1>6, BlockIsWritten
  <2>2. ~OnWeb /\ ~RedirectComes
    BY <1>5, <2>1 DEF Sends
  <2>3. PICK msg \in Message : down' = Sent(msg) /\ msg.kind = "block"
    BY <2>1 DEF Sends
  <2>4. Posts(msg)
    BY <1>0, <2>3, SentIs
  <2>5. Once'
    BY <1>3, <2>3, <2>4, OnceWrites DEF Alone
  <2>6. \A i \in 1 .. Len(down') : down'[i].kind # "redirect"
    <3>1. PICK d \in 0 .. 1 :
            \A i \in 1 .. Len(down') : i < Len(down') => i + d \in 1 .. Len(down) /\ down'[i] = down[i + d]
      BY <1>0, <2>4, PostedIs
    <3>2. Len(down') \in Nat /\ down'[Len(down')] = msg
      BY <1>0, <2>4, PostedIs
    <3>3. \A i \in 1 .. Len(down') : i < Len(down') \/ i = Len(down')
      BY <3>2
    <3>. QED
      BY <2>2, <2>3, <3>1, <3>2, <3>3 DEF RedirectComes
  <2>7. WebClient' /\ WebServer'
    BY <1>3, <2>2, <2>6 DEF Alone, WebClient, WebServer, RedirectComes
  <2>. QED
    BY <1>4, <2>5, <2>7 DEF Alone
<1>7. CASE WriteRedirect \/ WriteBad
  <2>1. /\ ~sv'.download /\ ~sv'.bFallback
        /\ \E msg \in Message :
             /\ down' = Sent(msg)
             /\ msg.kind = "bad" \/ (msg.kind = "redirect" /\ bDlOK)
    <3>1. CASE WriteRedirect
      BY <1>0, <1>1, <3>1, RedirectIsWritten
    <3>2. CASE WriteBad
      BY <1>0, <1>1, <3>2, BadIsWritten
    <3>. QED
      BY <1>7, <3>1, <3>2
  <2>2. PICK msg \in Message :
             /\ down' = Sent(msg)
             /\ msg.kind = "bad" \/ (msg.kind = "redirect" /\ bDlOK)
    BY <2>1
  <2>3. Posts(msg)
    BY <1>0, <2>2, SentIs
  <2>4. Once'
    BY <1>3, <2>2, <2>3, OnceWrites DEF Alone
  <2>5. PICK d \in 0 .. 1 :
          \A i \in 1 .. Len(down') : i < Len(down') => i + d \in 1 .. Len(down) /\ down'[i] = down[i + d]
    BY <1>0, <2>3, PostedIs
  <2>6. Len(down') \in Nat /\ down'[Len(down')] = msg
    BY <1>0, <2>3, PostedIs
  <2>7. \A i \in 1 .. Len(down') : i < Len(down') \/ i = Len(down')
    BY <2>6
  <2>8. \A i \in 1 .. Len(down') : down'[i].kind = "block" =>
          i + d \in 1 .. Len(down) /\ down'[i] = down[i + d]
    BY <2>2, <2>5, <2>6, <2>7
  <2>9. \A i, k \in 1 .. Len(down') : i < k => i < Len(down') /\ i + d < k + d
    BY <2>6
  <2>10. WebClient'
    <3>1. OnWeb => \A i \in 1 .. Len(down') : down'[i].kind # "block"
      BY <2>8 DEF Alone, WebClient
    <3>2. \A i, k \in 1 .. Len(down') : i < k /\ down'[i].kind = "redirect" => down'[k].kind # "block"
      BY <2>5, <2>8, <2>9 DEF Alone, WebClient
    <3>. QED
      BY <1>3, <3>1, <3>2 DEF Alone, WebClient
  <2>11. RedirectComes' => RedirectComes \/ bDlOK
    BY <2>2, <2>5, <2>6, <2>7 DEF RedirectComes
  <2>12. WebServer'
    BY <1>3, <1>5, <2>1, <2>11 DEF WebServer
  <2>. QED
    BY <1>4, <2>4, <2>10, <2>12 DEF Alone
<1>. QED
  BY <1>6, <1>7

LEMMA AloneNext ==
  ASSUME Base, AtFirst => Alone, Next \/ UNCHANGED vars
  PROVE  AtFirst' => Alone'
<1>. SUFFICES ASSUME AtFirst' PROVE Alone'
  OBVIOUS
<1>1. AtFirst /\ Alone /\ serverId' = serverId
  BY AtFirstBefore
<1>2. Types /\ down \in Seq(Message)
  BY BaseGives DEF Base
<1>3. Connected' /\ serverId = 1
  BY <1>1 DEF AtFirst
<1>4. CASE Receive
  <2>1. CASE ReceiveUnrequested
    BY <1>2, <1>3, <2>1, UnrequestedIsRead DEF Connected
  <2>2. CASE ReceiveBad
    BY <1>2, <1>3, <2>2, BadIsRead DEF Connected
  <2>3. CASE ReceiveOther
    <3>1. Reads("block") /\ cl' = cl /\ up' = up
      BY <1>2, <2>3, OtherIsRead
    <3>. QED
      BY <1>1, <3>1, AloneWaits DEF Reads
  <2>. QED
    BY <1>1, <1>4, <2>1, <2>2, <2>3, AloneGamestate, AloneRedirect, AloneTakes DEF Receive
<1>5. CASE Lose
  <2>1. Loses(1) /\ cl' = cl /\ up' = up /\ bDlOK' = bDlOK /\ sv' = sv
    BY <1>2, <1>5, TakenFromDown DEF Lose
  <2>. QED
    BY <1>1, <2>1, AloneWaits
<1>6. CASE WWWDone \/ WWWFail
  BY <1>1, <1>6, AloneWWW
<1>7. CASE GivesUp
  BY <1>2, <1>3, <1>7, GivesUpIs DEF Connected
<1>8. CASE \E level : ExecuteBatch(level) \/ IgnoreBatch(level)
  BY <1>1, <1>8, AloneExecutes, AloneHears
<1>9. CASE ResendGamestate
  BY <1>1, <1>9, AloneResend
<1>10. CASE WriteRedirect \/ WriteBad \/ WriteBlock
  BY <1>1, <1>10, AloneWrites
<1>11. CASE Quiet
  <2>1. Stays /\ up' = up /\ down' = down /\ Untouched
    BY <1>2, <1>11, QuietIs
  <2>2. Loses(0)
    BY <1>2, <2>1, LosesNone
  <2>. QED
    BY <1>1, <2>1, <2>2, AloneWaits DEF Stays, Untouched
<1>12. CASE NewLevel
  BY <1>1, <1>2, <1>3, <1>12, NewLevelIs
<1>13. CASE UNCHANGED vars
  <2>1. cl' = cl /\ up' = up /\ bDlOK' = bDlOK /\ sv' = sv /\ down' = down
    BY <1>13 DEF vars
  <2>2. Loses(0)
    BY <1>2, <2>1, LosesNone
  <2>. QED
    BY <1>1, <2>1, <2>2, AloneWaits
<1>. QED
  BY <1>4, <1>5, <1>6, <1>7, <1>8, <1>9, <1>10, <1>11, <1>12, <1>13 DEF Next, ExecutePacket

LEMMA AloneInit == Init => Alone
<1>. SUFFICES ASSUME Init PROVE Alone
  OBVIOUS
<1>1. sv = NewServer /\ cl = NewClient /\ down = <<>> /\ up = <<>>
  BY DEF Init
<1>2. /\ F = None /\ ~cl.bWWWDl /\ ~cl.bWWWDlAborting
  BY <1>1 DEF NewClient, F
<1>3. sv.downloadName = None /\ ~sv.download /\ ~sv.bFallback
  BY <1>1 DEF NewServer
<1>4. Len(down) = 0 /\ Len(up) = 0 /\ (1 .. Len(down)) = {} /\ (1 .. Len(up)) = {}
  BY <1>1
<1>5. Unseen /\ Once /\ Farewells
  BY <1>2, <1>3, <1>4 DEF Unseen, Once, Farewells
<1>6. WebClient /\ WebServer
  BY <1>2, <1>4 DEF WebClient, WebServer, OnWeb, RedirectComes
<1>. QED
  BY <1>5, <1>6 DEF Alone

(* What a client that is no longer connected holds. *)
LEMMA Rests ==
  ASSUME Base, Next \/ UNCHANGED vars, ~Connected
  PROVE  /\ cl' = cl /\ mixed' = mixed /\ have' = have
         /\ serverId \in Nat /\ serverId >= 1 /\ (serverId' = serverId \/ serverId' = serverId + 1)
<1>1. cl' = cl /\ mixed' = mixed
  BY OnlyConnected
<1>2. ~Receive
  BY DEF Receive, ReceiveGamestate, ReceiveUnrequested, ReceiveBad, ReceiveRedirect,
         ReceiveOther, ReceiveUnwritable, ReceiveBlock, ReceiveEOF, Arrives
<1>3. ~WWWDone /\ ~WWWFail /\ ~GivesUp
  BY DEF WWWDone, WWWFail, GivesUp, Downloading
<1>4. have' = have /\ (serverId' = serverId \/ serverId' = serverId + 1)
  <2>1. CASE (\E level : ExecuteBatch(level) \/ IgnoreBatch(level)) \/ ResendGamestate \/ Lose
    BY <2>1 DEF ExecuteBatch, IgnoreBatch, ResendGamestate, Lose
  <2>2. CASE WriteRedirect \/ WriteBad \/ WriteBlock \/ Quiet \/ NewLevel
    BY <2>2 DEF WriteRedirect, WriteBad, WriteBlock, Writes, Quiet, NewLevel
  <2>3. CASE UNCHANGED vars
    BY <2>3 DEF vars
  <2>. QED
    BY <1>2, <1>3, <2>1, <2>2, <2>3 DEF Next, ExecutePacket
<1>. QED
  BY <1>1, <1>4, TypesGive DEF Base

(* Only a gamestate has the client load the level. *)
LEMMA LoadsNext ==
  ASSUME Base, Clean => Tidy, AtFirst => Alone, LoadsWithEverything, Next \/ UNCHANGED vars
  PROVE  LoadsWithEverything'
<1>0. Types /\ Restarts
  BY DEF Base
<1>. SUFFICES ASSUME cl'.mode = "loading", mixed' = "no" \/ serverId' = 1
              PROVE  have' = Files
  BY DEF LoadsWithEverything, Files
<1>1. CASE ~Connected
  BY <1>1, Rests DEF LoadsWithEverything
<1>2. CASE Connected
  <2>1. cl' # cl /\ cl.mode = "connected"
    BY <1>2 DEF Connected
  <2>2. CASE ReceiveGamestate
    BY <1>0, <2>2, GamestateIsRead DEF Asked
  <2>3. CASE ReceiveUnrequested \/ ReceiveBad
    BY <1>0, <2>3, UnrequestedIsRead, BadIsRead
  <2>4. ASSUME NEW begins \in BOOLEAN, ReceiveRedirect(begins) PROVE FALSE
    BY <1>0, <2>1, <2>4, RedirectIsRead
  <2>5. CASE ReceiveUnwritable
    BY <1>0, <2>5, UnwritableIsRead DEF Asked
  <2>6. CASE ReceiveBlock
    BY <1>0, <2>1, <2>6, BlockIsRead
  <2>7. CASE ReceiveEOF
    BY <1>0, <2>7, EOFIsRead DEF Asked
  <2>8. CASE WWWFail \/ GivesUp
    BY <1>0, <2>1, <2>8, WWWFailIs, GivesUpIs
  <2>9. CASE WWWDone
    <3>1. OffLine
      BY <1>0, <2>9, WWWDoneAnyIs
    <3>2. CASE F # None
      BY <1>0, <2>9, <3>2, WWWDoneIs DEF Asked
    <3>3. CASE F = None
      <4>1. cl.bWWWDl
        BY <2>9 DEF WWWDone, Downloading
      <4>2. Clean \/ AtFirst
        BY <1>2, <3>1 DEF OffLine, Clean, AtFirst
      <4>3. WebClient
        BY <4>2 DEF Tidy, Alone
      <4>. QED
        BY <3>3, <4>1, <4>3 DEF WebClient
    <3>. QED
      BY <3>2, <3>3
  <2>10. ReceiveOther \/ Lose \/ ResendGamestate => cl' = cl
    BY DEF ReceiveOther, Lose, ResendGamestate
  <2>11. (\E level : ExecuteBatch(level) \/ IgnoreBatch(level)) => cl' = cl
    BY DEF ExecuteBatch, IgnoreBatch
  <2>12. WriteRedirect \/ WriteBad \/ WriteBlock \/ Quiet \/ NewLevel => cl' = cl
    BY DEF WriteRedirect, WriteBad, WriteBlock, Writes, Quiet, NewLevel
  <2>13. UNCHANGED vars => cl' = cl
    BY DEF vars
  <2>. QED
    BY <2>1, <2>2, <2>3, <2>4, <2>5, <2>6, <2>7, <2>8, <2>9, <2>10, <2>11, <2>12, <2>13
    DEF Next, Receive, ExecutePacket
<1>. QED
  BY <1>1, <1>2

-----------------------------------------------------------------------------
(* On the first level, and nothing was mixed up. *)

LEMMA KindsAre ==
  /\ ~IsNextdl(Ack) /\ ~AsksNext(Ack) /\ ~EndsWeb(Ack)
  /\ \A b : IsNextdl(b) => /\ b \notin {Ack, AckFail, Fail, Done, Stop} /\ ~AsksNext(b) /\ ~EndsWeb(b)
  /\ \A b : AsksNext(b) => b \notin {Ack, AckFail, Fail, Done, Stop} /\ ~IsNextdl(b)
  /\ \A f : AskFor(f) # Stop /\ AskFor(f) # Ack
  /\ Stop # Ack /\ Fail # Ack /\ AckFail # Ack /\ Done # Ack
  /\ ~EndsWeb(Stop) /\ ~EndsWeb(AckFail) /\ \A f : ~EndsWeb(AskFor(f)) /\ ~EndsWeb(StopAsk(f))
<1>0. \A f : Asks(f).cmd \in {"donedl", "download"}
  BY WordsAre
<1>1. \A n : NextdlOf(n) \notin {Ack, AckFail, Fail, Done, Stop}
  BY WordsAre
<1>2. \A f : /\ AskFor(f) \notin {Ack, AckFail, Fail, Done, Stop}
             /\ \A n : AskFor(f) # NextdlOf(n)
  BY <1>0, WordsAre
<1>3. \A f : /\ StopAsk(f) \notin {Ack, AckFail, Fail, Done, Stop}
             /\ \A n : StopAsk(f) # NextdlOf(n)
  BY <1>0, WordsAre
<1>4. \A f : /\ DoneAsk(f) \notin {Ack, AckFail, Fail, Done, Stop}
             /\ \A n : DoneAsk(f) # NextdlOf(n)
  BY <1>0, WordsAre
<1>5. \A f, g : AskFor(f) # DoneAsk(g) /\ StopAsk(f) # DoneAsk(g)
  BY WordsAre
<1>6. Stop # Ack /\ Fail # Ack /\ AckFail # Ack /\ Done # Ack /\ Stop \notin {Fail, Done} /\ AckFail \notin {Fail, Done}
      /\ Ack \notin {Fail, Done}
  BY WordsAre
<1>7. \A b : AsksNext(b) => b \notin {Ack, AckFail, Fail, Done, Stop} /\ ~IsNextdl(b)
  BY <1>2, <1>3, <1>4 DEF AsksNext, IsNextdl
<1>8. \A b : IsNextdl(b) => b \notin {Ack, AckFail, Fail, Done, Stop} /\ ~AsksNext(b) /\ ~EndsWeb(b)
  BY <1>1, <1>2, <1>3, <1>4 DEF AsksNext, IsNextdl, EndsWeb
<1>9. ~EndsWeb(Stop) /\ ~EndsWeb(AckFail) /\ ~EndsWeb(Ack)
  BY <1>4, <1>6 DEF EndsWeb
<1>10. \A f : ~EndsWeb(AskFor(f)) /\ ~EndsWeb(StopAsk(f))
  BY <1>2, <1>3, <1>5 DEF EndsWeb
<1>11. ~IsNextdl(Ack) /\ ~AsksNext(Ack)
  BY <1>7, <1>8
<1>. QED
  BY <1>2, <1>6, <1>7, <1>8, <1>9, <1>10, <1>11

LEMMA FitsRuns ==
  ASSUME Base, Fits, NEW level, ExecuteBatch(level), NEW b, b = up[1].commands
  PROVE  /\ ~Zombie' /\ Kept(sv, sv') /\ sv' \in Server
         /\ \/ \E n \in Nat : b = NextdlOf(n) /\ RunsNextdl(n)
            \/ b = Ack /\ RunsAck
            \/ \E f \in {None} \cup Files : b \in {AskFor(f), StopAsk(f), DoneAsk(f)} /\ RunsAsk(f)
            \/ b \in {Fail, AckFail, Stop, Done} /\ RunsOther
<1>0. Types /\ ~sv.gamestate /\ up \in Seq(Batch) /\ Len(up) \in Nat
  BY BaseGives DEF Base
<1>1. TakesPacket(level) /\ Executing(up[1].commands)
  BY <1>0, ExecutingIs
<1>2. 1 \in 1 .. Len(up)
  BY <1>0, <1>1 DEF TakesPacket, Takes
<1>3. IsBatch(b) /\ Executing(b) /\ sv.state # "zombie"
  BY <1>1, <1>2 DEF Base, Batches, Fits, Zombie
<1>4. BatchFits(1)
  BY <1>2 DEF Fits
<1>5. ASSUME NEW n \in Nat, b = NextdlOf(n)
      PROVE  ~Zombie' /\ Kept(sv, sv') /\ sv' \in Server /\ RunsNextdl(n)
  <2>1. /\ sv.downloadClientBlock \in Nat /\ sv.downloadCurrentBlock \in Nat /\ W \in Nat
    BY BaseGives
  <2>2. sv.download /\ n = sv.downloadClientBlock + 1 - 1 /\ n < sv.downloadCurrentBlock
    BY <1>4, <1>5 DEF BatchFits
  <2>3. n = sv.downloadClientBlock
    BY <2>1, <2>2
  <2>4. PICK f : f = sv.downloadName
    OBVIOUS
  <2>5. f \in Files /\ sv.downloadCurrentBlock <= Blocks[f] + 1 /\ Blocks[f] \in Nat
    BY <2>2, <2>4, FilesAre DEF Base, Window
  <2>6. sv.downloadBlocks[Slot(n)] = BlockOf(f, n)
    <3>1. n >= sv.downloadCurrentBlock - W
      BY <2>1, <2>2, <2>3 DEF Fits, WindowFits
    <3>. QED
      BY <2>2, <2>4, <3>1 DEF Fits, WindowFits, Exact
  <2>7. sv.downloadBlocks[Slot(n)].part = 0 => n = Blocks[f] /\ sv.downloadCurrentBlock = n + 1
    <3>1. BlockOf(f, n).part = 0 => n >= Blocks[f]
      BY <2>5, BlockOfIs
    <3>. QED
      BY <2>1, <2>2, <2>5, <2>6, <3>1
  <2>8. Executing(NextdlOf(n))
    BY <1>3, <1>5
  <2>9. /\ sv' \in Server /\ Kept(sv, sv') /\ down' = down
        /\ sv'.bFallback = sv.bFallback /\ sv'.bWWWing = sv.bWWWing
        /\ \/ /\ Closed(sv') /\ sv'.state = sv.state
              /\ sv'.downloadClientBlock = sv.downloadClientBlock
              /\ sv.downloadBlocks[Slot(n)].part = 0
           \/ /\ sv'.state = sv.state /\ sv'.downloadClientBlock = n + 1
              /\ sv'.downloadName = sv.downloadName /\ sv'.download = sv.download
    BY <2>3, <2>8, ExecutesNextdl
  <2>. QED
    BY <1>3, <2>2, <2>3, <2>4, <2>7, <2>9 DEF RunsNextdl, Zombie
<1>6. ASSUME NEW f \in {None} \cup Files, b \in {AskFor(f), StopAsk(f), DoneAsk(f)}
      PROVE  ~Zombie' /\ Kept(sv, sv') /\ sv' \in Server /\ RunsAsk(f)
  <2>1. CASE b = AskFor(f)
    <3>1. Executing(AskFor(f))
      BY <1>3, <2>1
    <3>. QED
      BY <3>1, ExecutesAsk DEF Frame, Granted, RunsAsk, Zombie
  <2>2. CASE b = StopAsk(f)
    <3>1. Executing(StopAsk(f))
      BY <1>3, <2>2
    <3>. QED
      BY <3>1, ExecutesStopAsk DEF Frame, Granted, RunsAsk, Zombie, Closed
  <2>3. CASE b = DoneAsk(f)
    <3>1. Executing(DoneAsk(f))
      BY <1>3, <2>3
    <3>2. EndsWeb(b)
      BY <2>3 DEF EndsWeb
    <3>3. sv.bWWWDl /\ sv.bWWWing
      BY <1>4, <3>2 DEF BatchFits, WebServed
    <3>. QED
      BY <3>1, <3>3, ExecutesDoneAsk DEF Frame, Granted, RunsAsk, Zombie, Closed
  <2>. QED
    BY <1>6, <2>1, <2>2, <2>3
<1>7. ASSUME b = Ack PROVE ~Zombie' /\ Kept(sv, sv') /\ sv' \in Server /\ RunsAck
  <2>1. WebServed
    BY <1>4, <1>7 DEF BatchFits
  <2>. QED
    BY <1>3, <1>7, <2>1, ExecutesAck DEF Frame, RunsAck, Zombie, WebServed
<1>8. ASSUME b \in {Fail, AckFail, Stop, Done}
      PROVE  ~Zombie' /\ Kept(sv, sv') /\ sv' \in Server /\ RunsOther
  <2>1. CASE b = Fail
    <3>1. sv.bWWWDl /\ sv.bWWWing
      BY <1>4, <2>1 DEF BatchFits, WebServed, EndsWeb
    <3>. QED
      BY <1>3, <2>1, <3>1, ExecutesFail DEF Frame, GaveUp, RunsOther, Zombie
  <2>2. CASE b = AckFail
    <3>1. sv.bWWWDl
      BY <1>4, <2>2 DEF BatchFits, WebServed
    <3>. QED
      BY <1>3, <2>2, <3>1, ExecutesAckFail DEF Frame, GaveUp, RunsOther, Zombie
  <2>3. CASE b = Stop
    BY <1>3, <2>3, ExecutesStop DEF Frame, RunsOther, Zombie
  <2>4. CASE b = Done
    <3>1. sv.bWWWDl /\ sv.bWWWing
      BY <1>4, <2>4 DEF BatchFits, WebServed, EndsWeb
    <3>. QED
      BY <1>3, <2>4, <3>1, ExecutesDone DEF Frame, RunsOther, Zombie
  <2>. QED
    BY <1>8, <2>1, <2>2, <2>3, <2>4
<1>9. CASE \E n \in Nat : b = NextdlOf(n)
  BY <1>5, <1>9
<1>10. CASE \E f \in {None} \cup Files : b \in {AskFor(f), StopAsk(f), DoneAsk(f)}
  BY <1>6, <1>10
<1>11. CASE b = Ack
  BY <1>7, <1>11
<1>12. CASE b \in {Fail, AckFail, Stop, Done}
  BY <1>8, <1>12
<1>. QED
  BY <1>3, <1>9, <1>10, <1>11, <1>12 DEF IsBatch

(* The server reads a batch: those that follow still fit. *)
LEMMA FitsShift ==
  ASSUME Base, Takes, Fits, NEW i \in 1 .. Len(up')
  PROVE  /\ i + 1 \in 1 .. Len(up) /\ up'[i] = up[i + 1] /\ BatchFits(i + 1) /\ i \in Nat
         /\ \A n \in Nat : up'[i].commands = NextdlOf(n) =>
              /\ sv.download /\ n = sv.downloadClientBlock + i /\ n < sv.downloadCurrentBlock
              /\ IsNextdl(up[1].commands)
              /\ \A k \in 1 .. Len(up') : k < i => IsNextdl(up'[k].commands)
         /\ up'[i].commands \notin {Ack, AckFail}
         /\ EndsWeb(up'[i].commands) => WebServed /\ i = 1 /\ up[1].commands = Ack
         /\ AsksNext(up'[i].commands) => \A k \in 1 .. Len(up') : i < k => up'[k].commands = Stop
         /\ AsksNext(up[1].commands) => up'[i].commands = Stop
<1>1. /\ Len(up) \in Nat /\ Len(up) > 0 /\ Len(up') = Len(up) - 1
      /\ \A k \in Nat : 1 <= k /\ k <= Len(up) - 1 => up'[k] = up[k + 1]
      /\ sv.downloadClientBlock \in Nat
  BY TakesGives, BaseGives
<1>2. \A k \in 1 .. Len(up') : k + 1 \in 1 .. Len(up) /\ up'[k] = up[k + 1]
  BY <1>1
<1>3. 1 \in 1 .. Len(up) /\ i + 1 \in 1 .. Len(up) /\ up'[i] = up[i + 1] /\ i \in Nat /\ i > 0
  BY <1>1, <1>2
<1>4. BatchFits(i + 1) /\ BatchFits(1)
  BY <1>3 DEF Fits
<1>5. \A k \in 1 .. Len(up') : (k < i => k + 1 < i + 1) /\ (i < k => i + 1 < k + 1)
  BY <1>1
<1>6. 1 < i + 1 /\ i + 1 # 1 /\ (i + 1 = 2 => i = 1)
  BY <1>3
<1>7. ASSUME NEW n \in Nat, up'[i].commands = NextdlOf(n)
      PROVE  /\ sv.download /\ n = sv.downloadClientBlock + i /\ n < sv.downloadCurrentBlock
             /\ IsNextdl(up[1].commands)
             /\ \A k \in 1 .. Len(up') : k < i => IsNextdl(up'[k].commands)
  <2>1. up[i + 1].commands = NextdlOf(n)
    BY <1>3, <1>7
  <2>2. /\ sv.download /\ n = sv.downloadClientBlock + (i + 1) - 1 /\ n < sv.downloadCurrentBlock
        /\ \A k \in 1 .. Len(up) : k < i + 1 => IsNextdl(up[k].commands)
    BY <1>4, <2>1 DEF BatchFits
  <2>3. n = sv.downloadClientBlock + i
    BY <1>1, <1>3, <2>2
  <2>. QED
    BY <1>2, <1>3, <1>5, <1>6, <2>2, <2>3
<1>8. up'[i].commands \notin {Ack, AckFail}
  BY <1>3, <1>4, <1>6 DEF BatchFits
<1>9. EndsWeb(up'[i].commands) => WebServed /\ i = 1 /\ up[1].commands = Ack
  BY <1>3, <1>4, <1>6 DEF BatchFits
<1>10. AsksNext(up'[i].commands) => \A k \in 1 .. Len(up') : i < k => up'[k].commands = Stop
  BY <1>2, <1>3, <1>4, <1>5 DEF BatchFits
<1>11. AsksNext(up[1].commands) => up'[i].commands = Stop
  BY <1>3, <1>4, <1>6 DEF BatchFits
<1>. QED
  BY <1>3, <1>4, <1>7, <1>8, <1>9, <1>10, <1>11

(* What the buffers hold is kept. *)
LEMMA ExactKept ==
  ASSUME NEW f, Exact(f), Kept(sv, sv') PROVE Exact(f)'
BY DEF Exact, Kept

LEMMA BoundsKept ==
  ASSUME Bounds, Kept(sv, sv'), sv'.downloadClientBlock \in Counter, cl' = cl
  PROVE  Bounds'
BY DEF Bounds, Kept, N

LEMMA FitsExecutes ==
  ASSUME Base, Fits, NEW level, ExecuteBatch(level)
  PROVE  Fits'
<1>0. Types /\ ~sv.gamestate
  BY DEF Base
<1>1. Takes /\ cl' = cl /\ bDlOK' = bDlOK
  BY <1>0, ExecutingIs DEF TakesPacket, Stays
<1>2. PICK b : b = up[1].commands
  OBVIOUS
<1>3. /\ ~Zombie' /\ Kept(sv, sv') /\ sv' \in Server
      /\ \/ \E n \in Nat : b = NextdlOf(n) /\ RunsNextdl(n)
         \/ b = Ack /\ RunsAck
         \/ \E f \in {None} \cup Files : b \in {AskFor(f), StopAsk(f), DoneAsk(f)} /\ RunsAsk(f)
         \/ b \in {Fail, AckFail, Stop, Done} /\ RunsOther
  BY <1>2, FitsRuns
<1>4. /\ sv'.downloadCurrentBlock = sv.downloadCurrentBlock /\ sv'.bWWWDl = sv.bWWWDl
      /\ sv'.downloadXmitBlock = sv.downloadXmitBlock
  BY <1>3 DEF Kept
<1>5. /\ sv.downloadClientBlock \in Nat /\ sv.downloadCurrentBlock \in Nat /\ W \in Nat
      /\ sv.downloadCurrentBlock \in Counter /\ sv.downloadClientBlock \in Counter
  <2>1. sv.downloadCurrentBlock \in Counter
    BY BaseGives DEF Server
  <2>. QED
    BY <2>1, BaseGives DEF Fits, Bounds
<1>6. CASE \E n \in Nat : b = NextdlOf(n) /\ RunsNextdl(n)
  <2>1. PICK n \in Nat : b = NextdlOf(n) /\ RunsNextdl(n)
    BY <1>6
  <2>2. /\ n = sv.downloadClientBlock /\ sv.download /\ n < sv.downloadCurrentBlock
        /\ \/ /\ Closed(sv') /\ sv'.downloadClientBlock = n
              /\ sv.downloadCurrentBlock = n + 1
           \/ /\ sv'.downloadClientBlock = n + 1 /\ sv'.downloadName = sv.downloadName /\ sv'.download
    BY <2>1 DEF RunsNextdl
  <2>3. b # Ack /\ ~WebServed
    BY <2>1, <2>2, KindsAre DEF IsNextdl, WebServed
  <2>4. ASSUME NEW i \in 1 .. Len(up') PROVE BatchFits(i)'
    <3>1. /\ i \in Nat /\ i > 0
          /\ \A k \in Nat : up'[i].commands = NextdlOf(k) =>
               /\ k = sv.downloadClientBlock + i /\ k < sv.downloadCurrentBlock
               /\ \A l \in 1 .. Len(up') : l < i => IsNextdl(up'[l].commands)
          /\ up'[i].commands \notin {Ack, AckFail} /\ ~EndsWeb(up'[i].commands)
          /\ AsksNext(up'[i].commands) => \A k \in 1 .. Len(up') : i < k => up'[k].commands = Stop
      BY <1>1, <1>2, <2>3, FitsShift
    <3>2. ASSUME NEW k \in Nat, up'[i].commands = NextdlOf(k)
          PROVE  sv'.download /\ k = sv'.downloadClientBlock + i - 1 /\ k < sv'.downloadCurrentBlock
      <4>1. k = sv.downloadClientBlock + i /\ k < sv.downloadCurrentBlock
        BY <3>1, <3>2
      <4>2. sv.downloadCurrentBlock # n + 1
        BY <1>5, <2>2, <3>1, <4>1
      <4>3. sv'.downloadClientBlock = n + 1 /\ sv'.download
        BY <2>2, <4>2
      <4>. QED
        BY <1>4, <1>5, <2>2, <3>1, <4>1, <4>3
    <3>. QED
      BY <3>1, <3>2 DEF BatchFits, IsNextdl, AsksNext, EndsWeb, NextdlOf, AskFor, StopAsk, DoneAsk, Asks, Ack, AckFail, Stop, Fail, Done, Cmd
  <2>5. WindowFits'
    <3>1. CASE Closed(sv')
      BY <3>1 DEF WindowFits, Closed
    <3>2. CASE sv'.downloadClientBlock = n + 1 /\ sv'.downloadName = sv.downloadName /\ sv'.download
      <4>1. /\ sv.downloadCurrentBlock <= sv.downloadClientBlock + W
            /\ Exact(sv.downloadName) /\ sv.downloadXmitBlock <= sv.downloadCurrentBlock
        BY <2>2 DEF Fits, WindowFits
      <4>2. n + 1 <= sv.downloadCurrentBlock /\ sv.downloadCurrentBlock <= (n + 1) + W
        BY <1>5, <2>2, <4>1
      <4>3. PICK f : f = sv.downloadName
        OBVIOUS
      <4>4. Exact(f)'
        BY <1>3, <4>1, <4>3, ExactKept
      <4>. QED
        BY <1>4, <3>2, <4>1, <4>2, <4>3, <4>4 DEF WindowFits
    <3>. QED
      BY <2>2, <3>1, <3>2
  <2>6. sv'.downloadClientBlock \in Counter
    <3>1. n + 1 <= sv.downloadCurrentBlock
      BY <1>5, <2>2
    <3>2. n + 1 \in Counter
      BY <1>5, <3>1, LongestIs DEF Counter
    <3>. QED
      BY <1>5, <2>2, <3>2
  <2>. QED
    BY <1>1, <1>3, <2>4, <2>5, <2>6, BoundsKept DEF Fits
<1>7. ASSUME sv'.downloadClientBlock = sv.downloadClientBlock,
             sv'.download => sv.download /\ sv'.downloadName = sv.downloadName,
             \A i \in 1 .. Len(up') : BatchFits(i)'
      PROVE  Fits'
  <2>1. Bounds'
    BY <1>1, <1>3, <1>5, <1>7, BoundsKept DEF Fits
  <2>2. WindowFits'
    <3>1. PICK f : f = sv.downloadName
      OBVIOUS
    <3>2. Exact(f) => Exact(f)'
      BY <1>3, ExactKept
    <3>. QED
      BY <1>4, <1>7, <3>1, <3>2 DEF Fits, WindowFits
  <2>. QED
    BY <1>3, <1>7, <2>1, <2>2 DEF Fits
<1>8. CASE b = Ack /\ RunsAck
  <2>1. WebServed' /\ sv'.bWWWing /\ ~sv'.download
    BY <1>1, <1>4, <1>8 DEF RunsAck, WebServed
  <2>2. ASSUME NEW i \in 1 .. Len(up') PROVE BatchFits(i)'
    <3>1. /\ \A k \in Nat : up'[i].commands # NextdlOf(k)
          /\ up'[i].commands \notin {Ack, AckFail} /\ (EndsWeb(up'[i].commands) => i = 1)
          /\ AsksNext(up'[i].commands) => \A k \in 1 .. Len(up') : i < k => up'[k].commands = Stop
      BY <1>1, <1>2, <1>8, FitsShift, KindsAre
    <3>. QED
      BY <2>1, <3>1 DEF BatchFits, AsksNext, EndsWeb, NextdlOf, AskFor, StopAsk, DoneAsk, Asks, Ack, AckFail, Stop, Fail, Done, Cmd
  <2>. QED
    BY <1>7, <1>8, <2>1, <2>2 DEF RunsAck
<1>9. CASE \E f \in {None} \cup Files : b \in {AskFor(f), StopAsk(f), DoneAsk(f)} /\ RunsAsk(f)
  <2>1. PICK f \in {None} \cup Files : b \in {AskFor(f), StopAsk(f), DoneAsk(f)} /\ RunsAsk(f)
    BY <1>9
  <2>2. AsksNext(b)
    BY <2>1 DEF AsksNext
  <2>3. ASSUME NEW i \in 1 .. Len(up') PROVE BatchFits(i)'
    <3>1. up'[i].commands = Stop
      BY <1>1, <1>2, <2>2, FitsShift
    <3>2. /\ \A k \in Nat : up'[i].commands # NextdlOf(k)
          /\ up'[i].commands \notin {Ack, AckFail} /\ ~EndsWeb(up'[i].commands) /\ ~AsksNext(up'[i].commands)
      <4>0. Stop # AckFail
        BY WordsAre
      <4>1. ~IsNextdl(Stop) /\ ~AsksNext(Stop) /\ Stop \notin {Ack, AckFail} /\ ~EndsWeb(Stop)
        BY <4>0, KindsAre
      <4>2. \A k \in Nat : Stop # NextdlOf(k)
        BY <4>1 DEF IsNextdl
      <4>. QED
        BY <3>1, <4>1, <4>2
    <3>. QED
      BY <3>2 DEF BatchFits, AsksNext, EndsWeb, NextdlOf, AskFor, StopAsk, DoneAsk, Asks, Ack, AckFail, Stop, Fail, Done, Cmd
  <2>. QED
    BY <1>7, <2>1, <2>3 DEF RunsAsk
<1>10. CASE b \in {Fail, AckFail, Stop, Done} /\ RunsOther
  <2>1. ~IsNextdl(b) /\ b # Ack
    BY <1>10, KindsAre
  <2>2. ASSUME NEW i \in 1 .. Len(up') PROVE BatchFits(i)'
    <3>1. /\ \A k \in Nat : up'[i].commands # NextdlOf(k)
          /\ up'[i].commands \notin {Ack, AckFail} /\ ~EndsWeb(up'[i].commands)
          /\ AsksNext(up'[i].commands) => \A k \in 1 .. Len(up') : i < k => up'[k].commands = Stop
      BY <1>1, <1>2, <2>1, FitsShift
    <3>. QED
      BY <3>1 DEF BatchFits, AsksNext, EndsWeb, NextdlOf, AskFor, StopAsk, DoneAsk, Asks, Ack, AckFail, Stop, Fail, Done, Cmd
  <2>. QED
    BY <1>7, <1>10, <2>2 DEF RunsOther, Closed
<1>. QED
  BY <1>3, <1>6, <1>8, <1>9, <1>10

(* Nothing of the download changes. *)
LEMMA FitsRests ==
  ASSUME Base, Fits, Untouched, ~Zombie', cl' = cl, bDlOK' = bDlOK,
         up' = up \/ (Takes /\ Idle)
  PROVE  Fits'
<1>1. /\ Kept(sv, sv') /\ sv'.downloadClientBlock = sv.downloadClientBlock
      /\ sv'.downloadName = sv.downloadName /\ sv'.download = sv.download
      /\ sv'.bFallback = sv.bFallback /\ sv'.bWWWing = sv.bWWWing
      /\ sv'.downloadCurrentBlock = sv.downloadCurrentBlock /\ sv'.bWWWDl = sv.bWWWDl
      /\ sv'.downloadXmitBlock = sv.downloadXmitBlock
  BY UntouchedGives DEF Untouched
<1>2. Bounds'
  <2>1. sv'.downloadClientBlock \in Counter
    BY <1>1 DEF Fits, Bounds
  <2>. QED
    BY <1>1, <2>1, BoundsKept DEF Fits
<1>3. WindowFits'
  <2>1. PICK f : f = sv.downloadName
    OBVIOUS
  <2>2. Exact(f) => Exact(f)'
    BY <1>1, ExactKept
  <2>. QED
    BY <1>1, <2>1, <2>2 DEF Fits, WindowFits
<1>4. WebServed' = WebServed
  BY <1>1 DEF WebServed
<1>5. CASE up' = up
  <2>1. ASSUME NEW i \in 1 .. Len(up') PROVE BatchFits(i)'
    <3>1. BatchFits(i)
      BY <1>5 DEF Fits
    <3>. QED
      BY <1>1, <1>4, <1>5, <3>1
      DEF BatchFits, IsNextdl, AsksNext, EndsWeb, NextdlOf, AskFor, StopAsk, DoneAsk, Asks, Ack, AckFail, Stop, Fail, Done, Cmd
  <2>. QED
    BY <1>2, <1>3, <2>1 DEF Fits
<1>6. CASE Takes /\ Idle
  <2>1. ~sv.download /\ ~WebServed
    BY <1>6, FilesAre DEF Idle, WebServed, Base, Window
  <2>2. ASSUME NEW i \in 1 .. Len(up') PROVE BatchFits(i)'
    <3>1. /\ \A k \in Nat : up'[i].commands # NextdlOf(k)
          /\ up'[i].commands \notin {Ack, AckFail} /\ ~EndsWeb(up'[i].commands)
          /\ AsksNext(up'[i].commands) => \A k \in 1 .. Len(up') : i < k => up'[k].commands = Stop
      BY <1>6, <2>1, FitsShift
    <3>. QED
      BY <3>1 DEF BatchFits, AsksNext, EndsWeb, NextdlOf, AskFor, StopAsk, DoneAsk, Asks, Ack, AckFail, Stop, Fail, Done, Cmd
  <2>. QED
    BY <1>2, <1>3, <2>2 DEF Fits
<1>. QED
  BY <1>5, <1>6

(* The server writes. *)
LEMMA FitsWrites ==
  ASSUME Base, Fits, WriteRedirect \/ WriteBad \/ WriteBlock
  PROVE  Fits'
<1>0. Types /\ Window
  BY DEF Base
<1>1. PICK f : f = sv.downloadName
  OBVIOUS
<1>2. /\ sv.downloadClientBlock \in Nat /\ sv.downloadCurrentBlock \in Nat /\ W \in Nat
      /\ sv.downloadXmitBlock \in Nat /\ Len(up) \in Nat
      /\ \A g \in Files : sv.top[g] \in Counter /\ sv.top[g] \in Nat /\ Blocks[g] \in Nat
      /\ sv.downloadClientBlock \in Counter /\ sv.downloadXmitBlock \in Counter /\ N \in Counter
  BY BaseGives DEF Fits, Bounds
<1>3. Writing => ~Zombie' /\ up' = up /\ cl' = cl /\ N' = N /\ bDlOK' = bDlOK /\ f \in Files /\ f # None /\ sv' \in Server
  BY <1>1 DEF Writing, Stays, Zombie, N
<1>4. CASE WriteRedirect
  <2>1. /\ Writing /\ ~sv.download /\ bDlOK /\ Blocks[f] > 0
        /\ sv'.downloadXmitBlock = sv.downloadXmitBlock
        /\ sv'.downloadClientBlock = sv.downloadClientBlock /\ ~sv'.bFallback
        /\ sv'.downloadName = f /\ ~sv'.download /\ sv'.bWWWDl /\ sv'.bWWWing = sv.bWWWing
        /\ TopsUp(f, 1)
    BY <1>0, <1>1, <1>4, RedirectIsWritten
  <2>2. WebServed'
    BY <1>1, <1>3, <2>1 DEF WebServed
  <2>3. ASSUME NEW i \in 1 .. Len(up') PROVE BatchFits(i)'
    <3>1. BatchFits(i)
      BY <1>3, <2>1 DEF Fits
    <3>. QED
      BY <1>3, <2>1, <2>2, <3>1
      DEF BatchFits, IsNextdl, AsksNext, EndsWeb, NextdlOf, AskFor, StopAsk, DoneAsk, Asks, Ack, AckFail, Stop, Fail, Done, Cmd
  <2>4. 1 \in Counter
    BY LongestIs DEF Counter
  <2>5. \A g \in Files : sv'.top[g] \in Counter
    BY <1>2, <1>3, <2>1, <2>4, TopStays
  <2>6. Bounds'
    BY <1>2, <1>3, <2>1, <2>5 DEF Bounds
  <2>7. WindowFits'
    BY <2>1 DEF WindowFits
  <2>. QED
    BY <1>3, <2>1, <2>3, <2>6, <2>7 DEF Fits
<1>5. CASE WriteBad
  <2>1. /\ Writing /\ ~sv.download /\ Blocks[f] = 0
        /\ sv'.downloadXmitBlock = sv.downloadXmitBlock
        /\ sv'.downloadClientBlock = sv.downloadClientBlock
        /\ ~sv'.download /\ sv'.top = sv.top
    BY <1>0, <1>1, <1>5, BadIsWritten
  <2>2. ~WebServed
    BY <1>1, <2>1 DEF WebServed
  <2>3. ASSUME NEW i \in 1 .. Len(up') PROVE BatchFits(i)'
    <3>1. BatchFits(i)
      BY <1>3, <2>1 DEF Fits
    <3>. QED
      BY <1>3, <2>1, <2>2, <3>1
      DEF BatchFits, IsNextdl, AsksNext, EndsWeb, NextdlOf, AskFor, StopAsk, DoneAsk, Asks, Ack, AckFail, Stop, Fail, Done, Cmd
  <2>6. Bounds'
    BY <1>2, <1>3, <2>1 DEF Bounds
  <2>7. WindowFits'
    BY <2>1 DEF WindowFits
  <2>. QED
    BY <1>3, <2>1, <2>3, <2>6, <2>7 DEF Fits
<1>6. CASE WriteBlock
  <2>1. PICK c \in Nat, k \in Nat, x \in Nat, b \in Nat : Sends(f, c, k, x, b)
    BY <1>0, <1>1, <1>6, BlockIsWritten
  <2>2. /\ Writing /\ Blocks[f] > 0 /\ (sv.download \/ ~bDlOK \/ sv.bFallback)
        /\ Starts(c, k, x) /\ sv'.download /\ sv'.downloadName = f
        /\ sv'.downloadClientBlock = k /\ sv'.downloadXmitBlock = b + 1 /\ TopsUp(f, b + 1)
    BY <2>1 DEF Sends
  <2>3. f \in Files /\ Blocks[f] \in Nat
    BY <1>2, <1>3, <2>2
  <2>4. PICK n \in Nat : n = IF sv.download THEN sv.downloadClientBlock ELSE 0
    BY <1>2
  <2>5. sv.download => Reached(f, n, 0, 0)
    <3>1. SUFFICES ASSUME sv.download PROVE Reached(f, n, 0, 0)
      OBVIOUS
    <3>2. n = sv.downloadClientBlock /\ sv.downloadCurrentBlock <= Blocks[f] + 1
      BY <1>0, <1>1, <2>4, <3>1 DEF Window
    <3>3. /\ n <= sv.downloadCurrentBlock /\ sv.downloadCurrentBlock <= n + W
          /\ Exact(f) /\ sv.downloadXmitBlock <= sv.downloadCurrentBlock
      BY <1>1, <3>1, <3>2 DEF Fits, WindowFits
    <3>. QED
      BY <1>2, <3>1, <3>2, <3>3 DEF Reached
  <2>6. n <= Blocks[f] + 1 /\ 0 <= n /\ (n > 0 => sv.download)
    <3>1. CASE sv.download
      BY <1>0, <1>1, <1>2, <2>3, <2>4, <2>5, <3>1 DEF Window, Reached
    <3>2. CASE ~sv.download
      BY <2>3, <2>4, <3>2
    <3>. QED
      BY <3>1, <3>2
  <2>7. sv.download \/ n > 0 => Reached(f, n, 0, 0)
    BY <2>5, <2>6
  <2>8. /\ Reached(f, n, 0, 0)' /\ k \in Counter /\ b + 1 \in Counter
        /\ Reached(f, n, 0, 0) => sv.downloadCurrentBlock <= sv'.downloadCurrentBlock
    <3>1. PICK z \in Nat : z = 0
      OBVIOUS
    <3>2. z <= n /\ (sv.download \/ n > 0 => Reached(f, n, z, z))
      BY <2>6, <2>7, <3>1
    <3>3. /\ Reached(f, n, z, z)' /\ k \in Counter /\ b + 1 \in Counter
          /\ Reached(f, n, z, z) => sv.downloadCurrentBlock <= sv'.downloadCurrentBlock
      BY <1>1, <2>1, <2>3, <2>6, <3>2, SendsReached
    <3>. QED
      BY <3>1, <3>3
  <2>9. k = n
    BY <2>2, <2>4 DEF Starts
  <2>10. WindowFits'
    BY <1>2, <2>2, <2>8, <2>9 DEF WindowFits, Reached
  <2>11. \A g \in Files : sv'.top[g] \in Counter
    BY <1>2, <1>3, <2>2, <2>3, <2>8, TopStays
  <2>12. Bounds'
    BY <1>2, <1>3, <2>2, <2>8, <2>11 DEF Bounds
  <2>13. ~WebServed
    BY <2>2 DEF WebServed
  <2>14. ASSUME NEW i \in 1 .. Len(up') PROVE BatchFits(i)'
    <3>1. BatchFits(i)
      BY <1>3, <2>2 DEF Fits
    <3>2. ASSUME NEW a \in Nat, up[i].commands = NextdlOf(a)
          PROVE  /\ sv'.download /\ a = sv'.downloadClientBlock + i - 1 /\ a < sv'.downloadCurrentBlock
                 /\ \A l \in 1 .. Len(up) : l < i => IsNextdl(up[l].commands)
      <4>1. /\ sv.download /\ a = sv.downloadClientBlock + i - 1 /\ a < sv.downloadCurrentBlock
            /\ \A l \in 1 .. Len(up) : l < i => IsNextdl(up[l].commands)
        BY <3>1, <3>2 DEF BatchFits
      <4>2. sv'.downloadClientBlock = sv.downloadClientBlock
        BY <2>2, <2>4, <2>9, <4>1
      <4>3. sv.downloadCurrentBlock <= sv'.downloadCurrentBlock
        BY <2>5, <2>8, <4>1
      <4>4. sv'.downloadCurrentBlock \in Nat
        <5>1. sv' \in Server
          BY <1>3, <2>2
        <5>. QED
          BY <5>1, CounterIs DEF Server
      <4>. QED
        BY <1>2, <2>2, <4>1, <4>2, <4>3, <4>4
    <3>3. /\ up[i].commands \notin {Ack, AckFail} /\ ~EndsWeb(up[i].commands)
          /\ AsksNext(up[i].commands) => \A l \in 1 .. Len(up) : i < l => up[l].commands = Stop
      BY <2>13, <3>1 DEF BatchFits
    <3>4. up' = up
      BY <1>3, <2>2
    <3>. QED
      BY <3>2, <3>3, <3>4
      DEF BatchFits, IsNextdl, AsksNext, EndsWeb, NextdlOf, AskFor, StopAsk, DoneAsk, Asks, Ack, AckFail, Stop, Fail, Done, Cmd
  <2>. QED
    BY <1>3, <2>2, <2>10, <2>12, <2>14 DEF Fits
<1>. QED
  BY <1>4, <1>5, <1>6

-----------------------------------------------------------------------------
(* What the client waits for, and what it has been given. *)

(* The client says something more. *)
LEMMA FitsGrows ==
  ASSUME Base, Fits, sv' = sv, bDlOK' = bDlOK, N' \in Counter, NEW k \in Nat, Extends(k),
         \A i \in 1 .. Len(up) : AsksNext(up[i].commands) =>
           \A l \in 1 .. Len(up') : Len(up) < l => up'[l].commands = Stop,
         \A i \in 1 .. Len(up') : Len(up) < i => BatchFits(i)'
  PROVE  Fits'
<1>1. /\ Len(up) \in Nat /\ Len(up') = Len(up) + k
      /\ \A i \in Nat : 1 <= i /\ i <= Len(up) => up'[i] = up[i]
  BY DEF Extends
<1>2. /\ \A l \in 1 .. Len(up') : Len(up) < l \/ (l \in 1 .. Len(up) /\ up'[l] = up[l])
      /\ \A i \in 1 .. Len(up) : \A l \in 1 .. Len(up') : l < i => l \in 1 .. Len(up) /\ up'[l] = up[l]
  BY <1>1
<1>3. WebServed' = WebServed
  BY DEF WebServed
<1>4. ASSUME NEW i \in 1 .. Len(up') PROVE BatchFits(i)'
  <2>1. CASE Len(up) < i
    BY <2>1
  <2>2. CASE i \in 1 .. Len(up) /\ up'[i] = up[i]
    <3>1. BatchFits(i)
      BY <2>2 DEF Fits
    <3>2. PICK b : b = up[i].commands
      OBVIOUS
    <3>3. \A n \in Nat : b = NextdlOf(n) =>
               /\ sv.download /\ n = sv.downloadClientBlock + i - 1 /\ n < sv.downloadCurrentBlock
               /\ \A l \in 1 .. Len(up') : l < i => IsNextdl(up'[l].commands)
      BY <1>2, <2>2, <3>1, <3>2 DEF BatchFits
    <3>4. /\ b \in {Ack, AckFail} => i = 1 /\ WebServed
          /\ EndsWeb(b) => WebServed /\ ((i = 1 /\ sv.bWWWing) \/ (i = 2 /\ up[1].commands = Ack))
      <4>1. b \in {Ack, AckFail} => i = 1 /\ WebServed
        BY <3>1, <3>2 DEF BatchFits
      <4>2. EndsWeb(b) => WebServed /\ ((i = 1 /\ sv.bWWWing) \/ (i = 2 /\ up[1].commands = Ack))
        <5>1. EndsWeb(up[i].commands) => WebServed /\ ((i = 1 /\ sv.bWWWing) \/ (i = 2 /\ up[1].commands = Ack))
          BY <3>1, Zenon DEF BatchFits
        <5>. QED
          BY <3>2, <5>1, Zenon
      <4>. QED
        BY <4>1, <4>2
    <3>5. i = 2 => up'[1] = up[1]
      BY <1>1, <2>2
    <3>6. AsksNext(b) => \A l \in 1 .. Len(up') : i < l => up'[l].commands = Stop
      <4>1. AsksNext(b) => \A l \in 1 .. Len(up) : i < l => up[l].commands = Stop
        BY <3>1, <3>2 DEF BatchFits
      <4>. QED
        BY <1>2, <2>2, <3>2, <4>1
    <3>7. up'[i].commands = b
      BY <2>2, <3>2
    <3>. QED
      BY <1>3, <3>3, <3>4, <3>5, <3>6, <3>7
      DEF BatchFits, IsNextdl, AsksNext, EndsWeb, NextdlOf, AskFor, StopAsk, DoneAsk, Asks, Ack, AckFail, Stop, Fail, Done, Cmd
  <2>. QED
    BY <1>2, <2>1, <2>2
<1>5. Bounds'
  BY DEF Fits, Bounds
<1>6. WindowFits' /\ ~Zombie'
  BY DEF Fits, WindowFits, Exact, Zombie
<1>. QED
  BY <1>4, <1>5, <1>6 DEF Fits

(* One batch more. *)
LEMMA FitsAdds ==
  ASSUME Base, Fits, sv' = sv, bDlOK' = bDlOK, N' \in Counter, NEW b, Adds(b),
         \A i \in 1 .. Len(up) : AsksNext(up[i].commands) => b = Stop,
         \A n \in Nat : b = NextdlOf(n) =>
           /\ sv.download /\ n = sv.downloadClientBlock + Len(up) /\ n < sv.downloadCurrentBlock
           /\ \A i \in 1 .. Len(up) : IsNextdl(up[i].commands),
         b \in {Ack, AckFail} => Len(up) = 0 /\ WebServed,
         EndsWeb(b) => /\ WebServed
                       /\ (Len(up) = 0 /\ sv.bWWWing) \/ (Len(up) = 1 /\ up[1].commands = Ack)
  PROVE  Fits'
<1>1. up \in Seq(Batch) /\ Len(up) \in Nat /\ sv.downloadClientBlock \in Nat
  BY BaseGives
<1>2. Extends(1) /\ up'[Len(up) + 1].commands = b
  BY <1>1, ExtendsIs
<1>3. /\ Len(up') = Len(up) + 1 /\ (\A i \in 1 .. Len(up') : Len(up) < i => i = Len(up) + 1)
      /\ \A i \in 1 .. Len(up) : up'[i] = up[i]
      /\ \A l \in 1 .. Len(up') : l < Len(up) + 1 => l \in 1 .. Len(up) /\ up'[l] = up[l]
  BY <1>1, <1>2 DEF Extends
<1>4. PICK i : i = Len(up) + 1
  OBVIOUS
<1>5. BatchFits(i)'
  <2>1. WebServed' = WebServed
    BY DEF WebServed
  <2>2. \A n \in Nat : b = NextdlOf(n) =>
               /\ sv.download /\ n = sv.downloadClientBlock + i - 1 /\ n < sv.downloadCurrentBlock
               /\ \A l \in 1 .. Len(up') : l < i => IsNextdl(up'[l].commands)
    BY <1>1, <1>3, <1>4
  <2>3. b \in {Ack, AckFail} => i = 1 /\ WebServed
    BY <1>4
  <2>4. EndsWeb(b) => WebServed /\ ((i = 1 /\ sv.bWWWing) \/ (i = 2 /\ up'[1].commands = Ack))
    <3>1. (Len(up) = 0 => i = 1) /\ (Len(up) = 1 => i = 2 /\ up'[1] = up[1])
      <4>1. (Len(up) = 0 => i = 1) /\ (Len(up) = 1 => i = 2)
        BY <1>1, <1>4
      <4>2. Len(up) = 1 => 1 \in 1 .. Len(up)
        BY <1>1
      <4>. QED
        BY <1>3, <4>1, <4>2
    <3>2. EndsWeb(b) => WebServed /\ ((Len(up) = 0 /\ sv.bWWWing) \/ (Len(up) = 1 /\ up[1].commands = Ack))
      OBVIOUS
    <3>3. Len(up) = 1 /\ up[1].commands = Ack => i = 2 /\ up'[1].commands = Ack
      BY <3>1
    <3>4. Len(up) = 0 /\ sv.bWWWing => i = 1 /\ sv.bWWWing
      BY <3>1, Zenon
    <3>. QED
      BY <3>2, <3>3, <3>4, Zenon
  <2>5. \A l \in 1 .. Len(up') : ~(i < l)
    BY <1>1, <1>3, <1>4
  <2>6. up'[i].commands = b
    BY <1>2, <1>4
  <2>. QED
    BY <2>1, <2>2, <2>3, <2>4, <2>5, <2>6
    DEF BatchFits, IsNextdl, AsksNext, EndsWeb, NextdlOf, AskFor, StopAsk, DoneAsk, Asks, Ack, AckFail, Stop, Fail, Done, Cmd
<1>6. \A l \in 1 .. Len(up') : Len(up) < l => BatchFits(l)'
  BY <1>3, <1>4, <1>5
<1>7. \A l \in 1 .. Len(up) : AsksNext(up[l].commands) =>
           \A m \in 1 .. Len(up') : Len(up) < m => up'[m].commands = Stop
  BY <1>2, <1>3
<1>. QED
  BY <1>2, <1>6, <1>7, FitsGrows

(* What the client takes is of its file. *)
LEMMA TakenIs ==
  ASSUME Base, Attends, NEW kind, Reads(kind), F # None, mixed' = Mixes(down[1]), mixed' = "no",
         \/ kind = "block" /\ down[1].block = N
         \/ kind = "redirect" /\ ~cl.bWWWDl
  PROVE  /\ Own(down[1]) /\ down[1].kind = kind /\ ~cl.bWWWDl /\ NoForeign /\ F \in Files
         /\ TakesBlocks /\ 1 \in 1 .. Len(down) /\ Loses(1) /\ sv' = sv /\ bDlOK' = bDlOK
<1>1. Gamestates /\ Tidy /\ Clean /\ Serves
  BY DEF Attends, Clean, Undisturbed
<1>2. /\ Own(down[1]) /\ ~cl.bWWWDl /\ NoForeign /\ F \in Files
  BY <1>1, HeadIsOwn
<1>3. 1 \in 1 .. Len(down)
  BY BaseGives DEF Reads
<1>4. ~WantsNext /\ ~TakesWeb
  BY <1>2, <1>3 DEF WantsNext, TakesWeb, NoOwn
<1>. QED
  BY <1>1, <1>2, <1>3, <1>4 DEF Serves, Reads

LEMMA TakenBlockIs ==
  ASSUME Base, Attends, Taken, mixed' = "no"
  PROVE  /\ F \in Files /\ Blocks[F] \in Nat /\ Blocks[F] > 0
         /\ sv.download /\ sv.downloadName = F /\ down[1].data = BlockOf(F, N)
         /\ N < sv.downloadCurrentBlock /\ N <= Blocks[F] /\ N + 1 \in Counter /\ N \in Counter
         /\ N = sv.downloadClientBlock + Len(up)
         /\ \A i \in 1 .. Len(up) : IsNextdl(up[i].commands)
<1>1. /\ Own(down[1]) /\ down[1].kind = "block" /\ ~cl.bWWWDl /\ F \in Files
      /\ TakesBlocks /\ 1 \in 1 .. Len(down) /\ down[1].block = N
  BY TakenIs DEF Taken
<1>2. OwnBlock(down[1])
  BY <1>1 DEF OwnBlock
<1>3. N \in Nat /\ Blocks[F] \in Nat /\ sv.downloadCurrentBlock \in Nat
  BY <1>1, BaseGives
<1>4. /\ sv.download /\ sv.downloadName = F /\ down[1].block < sv.downloadCurrentBlock
      /\ down[1].data = BlockOf(F, down[1].block) \/ down[1].block < N
  BY <1>1, <1>2 DEF TakesBlocks
<1>5. Blocks[F] > 0 /\ sv.downloadCurrentBlock <= Blocks[F] + 1
  BY <1>4 DEF Base, Window
<1>6. N <= Blocks[F] /\ N + 1 <= Blocks[F] + 1 /\ N < sv.downloadCurrentBlock
  BY <1>1, <1>3, <1>4, <1>5
<1>7. N \in Counter /\ N + 1 \in Counter
  BY <1>1, <1>3, <1>6, CounterIs
<1>8. down[1].data = BlockOf(F, N)
  BY <1>1, <1>3, <1>4
<1>. QED
  BY <1>1, <1>3, <1>4, <1>5, <1>6, <1>7, <1>8 DEF TakesBlocks

(* The client turns to another file: what is under way is not of it. *)
LEMMA NoneOfNext ==
  ASSUME Base, NEW d, Loses(d), NoForeign, F' # F
  PROVE  NoOwn'
<1>1. \A i \in 1 .. Len(down') : i + d \in 1 .. Len(down) /\ down'[i] = down[i + d]
  BY BaseGives DEF Loses
<1>2. \A i \in 1 .. Len(down) : Data(down[i]) => down[i].data.file = F
  BY DEF NoForeign, Foreign
<1>. QED
  BY <1>1, <1>2 DEF NoOwn, Own, Data

(* The last batch asks for the next file. *)
LEMMA WantsIs ==
  ASSUME Base, NEW d, Loses(d), NoForeign, F' # F, sv' = sv, sv.downloadName = F,
         ~cl'.bWWWDl, F' # None => N' = 0,
         Len(up') > 0, up'[Len(up')].commands \in {AskFor(F'), StopAsk(F'), DoneAsk(F')}
  PROVE  Serves'
<1>1. NoOwn'
  BY NoneOfNext
<1>. QED
  BY <1>1 DEF Serves, WantsNext, F, N, AskFor, StopAsk, DoneAsk, Asks, Cmd

(* Nothing has been written. *)
LEMMA WrittenNone ==
  ASSUME cl'.download = None, cl'.written = <<>>, F' = None \/ N' = 0
  PROVE  Written'
BY DEF Written

LEMMA ServesBlock ==
  ASSUME Base, Attends, ReceiveBlock, mixed' = "no"
  PROVE  Fits' /\ Serves' /\ Written'
<1>1. /\ Taken /\ down[1].data.part # 0
      /\ F' = F /\ N' = N + 1 /\ N \in Nat
      /\ cl'.download = Handle /\ cl'.written = Append(cl.written, down[1].data)
      /\ cl'.bWWWDl = cl.bWWWDl /\ Adds(NextdlOf(N))
  BY BlockIsRead DEF Base
<1>2. /\ Own(down[1]) /\ ~cl.bWWWDl /\ TakesBlocks /\ 1 \in 1 .. Len(down) /\ Loses(1)
      /\ sv' = sv /\ bDlOK' = bDlOK /\ F \in Files /\ F # None
  BY <1>1, TakenIs DEF Taken
<1>3. /\ sv.download /\ sv.downloadName = F /\ down[1].data = BlockOf(F, N)
      /\ N < sv.downloadCurrentBlock /\ N <= Blocks[F] /\ N + 1 \in Counter
      /\ N = sv.downloadClientBlock + Len(up) /\ Blocks[F] \in Nat
      /\ \A i \in 1 .. Len(up) : IsNextdl(up[i].commands)
  BY <1>1, TakenBlockIs
<1>4. /\ up \in Seq(Batch) /\ Len(up) \in Nat /\ sv.downloadClientBlock \in Nat
      /\ sv.downloadCurrentBlock \in Nat /\ Len(down) \in Nat /\ cl \in Client
  BY BaseGives
<1>5. Fits'
  <2>1. \A n \in Nat : NextdlOf(N) = NextdlOf(n) => n = N
    BY DEF NextdlOf, Cmd
  <2>2. \A i \in 1 .. Len(up) : ~AsksNext(up[i].commands)
    BY <1>3, KindsAre
  <2>3. NextdlOf(N) \notin {Ack, AckFail} /\ ~EndsWeb(NextdlOf(N))
    BY <1>1, KindsAre DEF IsNextdl
  <2>. QED
    BY <1>1, <1>2, <1>3, <2>1, <2>2, <2>3, FitsAdds DEF Attends
<1>6. Serves'
  <2>1. Extends(1) /\ up'[Len(up) + 1].commands = NextdlOf(N)
    BY <1>1, <1>4, ExtendsIs
  <2>2. /\ Len(up') = Len(up) + 1
        /\ \A i \in 1 .. Len(up') : \/ i \in 1 .. Len(up) /\ up'[i] = up[i]
                                    \/ i = Len(up) + 1
    BY <1>4, <2>1 DEF Extends
  <2>3. \A i \in 1 .. Len(up') : IsNextdl(up'[i].commands)
    BY <1>1, <1>3, <2>1, <2>2 DEF IsNextdl
  <2>4. N' = sv'.downloadClientBlock + Len(up')
    BY <1>1, <1>2, <1>3, <1>4, <2>2
  <2>5. \A i \in 1 .. Len(down') : i + 1 \in 1 .. Len(down) /\ down'[i] = down[i + 1]
    BY <1>2, <1>4 DEF Loses
  <2>6. \A i \in 1 .. Len(down') : Own(down[i])' => Own(down[i + 1])
    BY <1>1, <2>5 DEF Own, Data
  <2>7. ~WebServed
    BY <1>3 DEF WebServed
  <2>8. \A i \in 1 .. Len(down') : OwnBlock(down[i])' =>
          /\ down'[i].block < sv'.downloadCurrentBlock
          /\ down'[i].data = BlockOf(F', down'[i].block) \/ down'[i].block < N'
    <3>1. SUFFICES ASSUME NEW i \in 1 .. Len(down'), OwnBlock(down[i])'
                   PROVE  /\ down'[i].block < sv'.downloadCurrentBlock
                          /\ down'[i].data = BlockOf(F', down'[i].block) \/ down'[i].block < N'
      OBVIOUS
    <3>2. OwnBlock(down[i + 1]) /\ i + 1 \in 1 .. Len(down) /\ down'[i] = down[i + 1]
      BY <2>5, <2>6, <3>1 DEF OwnBlock
    <3>3. /\ down[i + 1].block < sv.downloadCurrentBlock
          /\ down[i + 1].data = BlockOf(F, down[i + 1].block) \/ down[i + 1].block < N
      BY <1>2, <3>2 DEF TakesBlocks
    <3>4. down[i + 1].block \in Nat
      BY <3>2, BaseGives
    <3>. QED
      BY <1>1, <1>2, <3>2, <3>3, <3>4
  <2>9. \A i \in 1 .. Len(down') : ~(Own(down[i])' /\ down'[i].kind = "redirect")
    <3>1. \A i \in 1 .. Len(down) : ~(Own(down[i]) /\ down[i].kind = "redirect")
      BY <1>2, <2>7 DEF TakesBlocks
    <3>. QED
      BY <2>5, <2>6, <3>1
  <2>10. TakesBlocks'
    BY <1>1, <1>2, <1>3, <2>3, <2>4, <2>8, <2>9 DEF TakesBlocks, F, N, OwnBlock, Own, Data, IsNextdl, NextdlOf, Cmd
  <2>. QED
    BY <2>10 DEF Serves
<1>7. Written'
  <2>1. N < Blocks[F]
    <3>1. BlockOf(F, N).part # 0
      BY <1>1, <1>3
    <3>. QED
      BY <1>1, <1>2, <1>3, <3>1, BlockOfIs
  <2>2. down[1].data = [file |-> F, part |-> N + 1]
    BY <1>1, <1>2, <1>3, <2>1, BlockOfIs
  <2>3. /\ Len(cl.written) = N /\ cl'.download = F
        /\ \A b \in 1 .. N : cl.written[b] = [file |-> F, part |-> b]
    <3>1. CASE N = 0
      <4>1. cl.download = None /\ cl.written = <<>>
        BY <3>1 DEF Attends, Written
      <4>. QED
        BY <1>1, <3>1, <4>1 DEF Handle, F
    <3>2. CASE N > 0
      <4>1. /\ cl.download = F /\ Len(cl.written) = N
            /\ \A b \in 1 .. N : cl.written[b] = [file |-> F, part |-> b]
        BY <1>2, <3>2 DEF Attends, Written
      <4>. QED
        BY <1>1, <1>2, <4>1 DEF Handle
    <3>. QED
      BY <1>1, <3>1, <3>2
  <2>4. cl.written \in Seq(Part) /\ down[1].data \in Part
    BY <1>2, <1>3, <1>1, <1>4, BlockOfIs DEF Client
  <2>5. /\ Len(cl'.written) = N + 1 /\ cl'.written[N + 1] = down[1].data
        /\ \A b \in 1 .. N : cl'.written[b] = cl.written[b]
    BY <1>1, <2>3, <2>4, AppendIs
  <2>6. \A b \in 1 .. (N + 1) : b \in 1 .. N \/ b = N + 1
    BY <1>1
  <2>7. \A b \in 1 .. (N + 1) : cl'.written[b] = [file |-> F, part |-> b]
    BY <2>2, <2>3, <2>5, <2>6
  <2>8. N' = N + 1 /\ N' # 0 /\ N' > 0
    BY <1>1
  <2>. QED
    BY <1>1, <1>2, <2>3, <2>5, <2>7, <2>8 DEF Written
<1>. QED
  BY <1>5, <1>6, <1>7

LEMMA AsksAre ==
  ASSUME NEW f \in {None} \cup Files
  PROVE  /\ \A b \in {AskFor(f), StopAsk(f), DoneAsk(f)} :
              AsksNext(b) /\ b \notin {Ack, AckFail} /\ \A n \in Nat : b # NextdlOf(n)
         /\ ~EndsWeb(AskFor(f)) /\ ~EndsWeb(StopAsk(f))
<1>1. \A b \in {AskFor(f), StopAsk(f), DoneAsk(f)} : AsksNext(b)
  BY DEF AsksNext
<1>2. \A b \in {AskFor(f), StopAsk(f), DoneAsk(f)} :
              b \notin {Ack, AckFail} /\ \A n \in Nat : b # NextdlOf(n)
  BY <1>1, KindsAre DEF IsNextdl
<1>. QED
  BY <1>1, <1>2, KindsAre

(* What the client renames into place is the file. *)
LEMMA WholeIs ==
  ASSUME Base, Attends, Taken, mixed' = "no", down[1].data.part = 0
  PROVE  Handle = F /\ cl.written = Contents(F)
<1>1. /\ F \in Files /\ Blocks[F] \in Nat /\ Blocks[F] > 0
      /\ down[1].data = BlockOf(F, N) /\ N <= Blocks[F] /\ N \in Nat
  BY TakenBlockIs, BaseGives
<1>2. N = Blocks[F] /\ N > 0 /\ F # None
  <2>1. N >= Blocks[F]
    BY <1>1, BlockOfIs
  <2>. QED
    BY <1>1, <2>1, FilesAre
<1>3. /\ cl.download = F /\ Len(cl.written) = N
      /\ \A b \in 1 .. N : cl.written[b] = [file |-> F, part |-> b]
  BY <1>2 DEF Attends, Written
<1>4. cl.written \in Seq(Part)
  BY BaseGives DEF Client
<1>5. cl.written = [b \in 1 .. Len(cl.written) |-> cl.written[b]]
  BY <1>4
<1>6. cl.written = Contents(F)
  BY <1>2, <1>3, <1>5 DEF Contents
<1>. QED
  BY <1>2, <1>3, <1>6 DEF Handle

LEMMA ServesEOF ==
  ASSUME Base, Attends, ReceiveEOF, mixed' = "no"
  PROVE  Fits' /\ Serves' /\ Written' /\ have' = have \cup {F}
<1>1. /\ Taken /\ down[1].data.part = 0 /\ N \in Nat
      /\ have' = IF Handle = F /\ cl.written = Contents(F) THEN have \cup {F} ELSE have
      /\ cl'.bWWWDl = cl.bWWWDl /\ cl'.download = None /\ cl'.written = <<>>
  BY EOFIsRead DEF Base
<1>2. PICK f \in {None} \cup Files :
        Asked(f) /\ f # F /\ (f = None => N' = N + 1) /\ AddsBoth(NextdlOf(N), AskFor(f))
  BY EOFIsRead DEF Base
<1>3. /\ Own(down[1]) /\ ~cl.bWWWDl /\ NoForeign /\ Loses(1) /\ sv' = sv /\ bDlOK' = bDlOK
      /\ F \in Files /\ F # None
  BY <1>1, TakenIs DEF Taken
<1>4. /\ sv.download /\ sv.downloadName = F
      /\ N < sv.downloadCurrentBlock /\ N + 1 \in Counter
      /\ N = sv.downloadClientBlock + Len(up)
      /\ \A i \in 1 .. Len(up) : IsNextdl(up[i].commands)
  BY <1>1, TakenBlockIs
<1>5. F' = f /\ (f # None => N' = 0)
  BY <1>2 DEF Asked
<1>6. /\ up \in Seq(Batch) /\ Len(up) \in Nat /\ sv.downloadClientBlock \in Nat
  BY BaseGives
<1>7. /\ Extends(2) /\ up'[Len(up) + 1].commands = NextdlOf(N)
      /\ up'[Len(up) + 2].commands = AskFor(f)
  BY <1>2, <1>6, ExtendsIs
<1>8. /\ Len(up') = Len(up) + 2
      /\ \A i \in 1 .. Len(up) : up'[i] = up[i]
      /\ \A l \in 1 .. Len(up') : l < Len(up) + 1 => l \in 1 .. Len(up) /\ up'[l] = up[l]
      /\ \A l \in 1 .. Len(up') : Len(up) < l => l = Len(up) + 1 \/ l = Len(up) + 2
  BY <1>6, <1>7 DEF Extends
<1>9. N' \in Counter
  BY <1>2, <1>4, <1>5, CounterIs
<1>10. ASSUME NEW i \in 1 .. Len(up'), i = Len(up) + 1 PROVE BatchFits(i)'
  <2>1. \A n \in Nat : up'[i].commands = NextdlOf(n) => n = N
    BY <1>7, <1>10 DEF NextdlOf, Cmd
  <2>2. N = sv'.downloadClientBlock + i - 1 /\ sv'.download /\ N < sv'.downloadCurrentBlock
    BY <1>3, <1>4, <1>6, <1>10
  <2>3. \A l \in 1 .. Len(up') : l < i => IsNextdl(up'[l].commands)
    BY <1>4, <1>8, <1>10
  <2>4. IsNextdl(up'[i].commands)
    BY <1>1, <1>7, <1>10 DEF IsNextdl
  <2>5. up'[i].commands \notin {Ack, AckFail} /\ ~EndsWeb(up'[i].commands) /\ ~AsksNext(up'[i].commands)
    BY <2>4, KindsAre
  <2>. QED
    BY <2>1, <2>2, <2>3, <2>5
    DEF BatchFits, IsNextdl, AsksNext, EndsWeb, NextdlOf, AskFor, StopAsk, DoneAsk, Asks, Ack, AckFail, Stop, Fail, Done, Cmd
<1>11. ASSUME NEW i \in 1 .. Len(up'), i = Len(up) + 2 PROVE BatchFits(i)'
  <2>1. up'[i].commands = AskFor(f)
    BY <1>7, <1>11
  <2>2. /\ \A n \in Nat : up'[i].commands # NextdlOf(n)
        /\ up'[i].commands \notin {Ack, AckFail} /\ ~EndsWeb(up'[i].commands)
    BY <2>1, AsksAre
  <2>3. \A l \in 1 .. Len(up') : ~(i < l)
    BY <1>6, <1>8, <1>11
  <2>. QED
    BY <2>2, <2>3
    DEF BatchFits, IsNextdl, AsksNext, EndsWeb, NextdlOf, AskFor, StopAsk, DoneAsk, Asks, Ack, AckFail, Stop, Fail, Done, Cmd
<1>12. Fits'
  <2>1. \A i \in 1 .. Len(up) : ~AsksNext(up[i].commands)
    BY <1>4, KindsAre
  <2>2. \A i \in 1 .. Len(up') : Len(up) < i => BatchFits(i)'
    BY <1>8, <1>10, <1>11
  <2>3. Fits
    BY DEF Attends
  <2>. QED
    BY <1>3, <1>7, <1>9, <2>1, <2>2, <2>3, FitsGrows
<1>13. Serves'
  <2>1. Len(up') > 0 /\ up'[Len(up')].commands \in {AskFor(F'), StopAsk(F'), DoneAsk(F')}
    BY <1>5, <1>6, <1>7, <1>8
  <2>2. F' # F /\ ~cl'.bWWWDl /\ (F' # None => N' = 0)
    BY <1>1, <1>2, <1>3, <1>5
  <2>. QED
    BY <1>3, <1>4, <2>1, <2>2, WantsIs
<1>14. Written'
  BY <1>1, <1>5, WrittenNone
<1>15. Handle = F /\ cl.written = Contents(F)
  BY <1>1, WholeIs
<1>. QED
  BY <1>1, <1>12, <1>13, <1>14, <1>15

LEMMA ServesUnwritable ==
  ASSUME Base, Attends, ReceiveUnwritable, mixed' = "no"
  PROVE  Fits' /\ Serves' /\ Written'
<1>1. /\ Taken /\ cl.download = None
      /\ cl'.bWWWDl = cl.bWWWDl /\ cl'.download = cl.download /\ cl'.written = cl.written
  BY UnwritableIsRead DEF Base
<1>2. PICK f \in {None} \cup Files :
        Asked(f) /\ f # F /\ (f = None => N' = N) /\ Adds(StopAsk(f))
  BY UnwritableIsRead DEF Base
<1>3. /\ ~cl.bWWWDl /\ NoForeign /\ Loses(1) /\ sv' = sv /\ bDlOK' = bDlOK
      /\ F \in Files /\ F # None
  BY <1>1, TakenIs DEF Taken
<1>4. /\ sv.downloadName = F /\ N \in Counter /\ N \in Nat
      /\ \A i \in 1 .. Len(up) : IsNextdl(up[i].commands)
  BY <1>1, TakenBlockIs, BaseGives
<1>5. F' = f /\ (f # None => N' = 0)
  BY <1>2 DEF Asked
<1>6. up \in Seq(Batch) /\ Len(up) \in Nat
  BY BaseGives
<1>7. Extends(1) /\ up'[Len(up) + 1].commands = StopAsk(f) /\ Len(up') = Len(up) + 1
  BY <1>2, <1>6, ExtendsIs DEF Extends
<1>8. Fits'
  <2>1. \A i \in 1 .. Len(up) : ~AsksNext(up[i].commands)
    BY <1>4, KindsAre
  <2>2. /\ \A n \in Nat : StopAsk(f) # NextdlOf(n)
        /\ StopAsk(f) \notin {Ack, AckFail} /\ ~EndsWeb(StopAsk(f))
    BY AsksAre
  <2>3. Fits /\ N' \in Counter
    BY <1>2, <1>4, <1>5, CounterIs DEF Attends
  <2>. QED
    BY <1>2, <1>3, <2>1, <2>2, <2>3, FitsAdds
<1>9. Serves'
  <2>1. Len(up') > 0 /\ up'[Len(up')].commands \in {AskFor(F'), StopAsk(F'), DoneAsk(F')}
    BY <1>5, <1>6, <1>7
  <2>2. F' # F /\ ~cl'.bWWWDl /\ (F' # None => N' = 0)
    BY <1>1, <1>2, <1>3, <1>5
  <2>. QED
    BY <1>3, <1>4, <2>1, <2>2, WantsIs
<1>10. Written'
  <2>1. N = 0
    BY <1>1, <1>3, <1>4 DEF Attends, Written
  <2>2. cl.written = <<>>
    BY <2>1 DEF Attends, Written
  <2>. QED
    BY <1>1, <1>5, <2>2, WrittenNone
<1>. QED
  BY <1>8, <1>9, <1>10

(* Messages are lost, or nothing changes for the client. *)
LEMMA ServesLoses ==
  ASSUME Base, Attends, NEW d, Loses(d), cl' = cl, up' = up, bDlOK' = bDlOK, Untouched, ~Zombie'
  PROVE  Fits' /\ Serves' /\ Written'
<1>1. Fits'
  BY FitsRests DEF Attends
<1>2. /\ sv'.downloadName = sv.downloadName /\ sv'.download = sv.download
      /\ sv'.downloadClientBlock = sv.downloadClientBlock
      /\ sv'.downloadCurrentBlock = sv.downloadCurrentBlock /\ sv'.bWWWing = sv.bWWWing
      /\ (WebServed' = WebServed) /\ F' = F /\ N' = N
  BY DEF Untouched, WebServed, F, N
<1>3. \A i \in 1 .. Len(down') : i + d \in 1 .. Len(down) /\ down'[i] = down[i + d]
  <2>1. Len(down) \in Nat
    BY BaseGives
  <2>2. d \in 0 .. Len(down) /\ Len(down') = Len(down) - d
    BY DEF Loses
  <2>3. \A i \in 1 .. Len(down') : i + d \in 1 .. Len(down)
    BY <2>1, <2>2
  <2>. QED
    BY <2>3 DEF Loses
<1>4. NoOwn => NoOwn'
  BY <1>2, <1>3 DEF NoOwn, Own, Data
<1>5. WantsNext => WantsNext'
  BY <1>2, <1>4 DEF WantsNext, F, N, AskFor, StopAsk, DoneAsk, Asks, Cmd
<1>6. TakesWeb => TakesWeb'
  BY <1>2 DEF TakesWeb, Ack, Cmd
<1>7. ASSUME TakesBlocks PROVE TakesBlocks'
  <2>1. \A i \in 1 .. Len(down') : OwnBlock(down[i])' => OwnBlock(down[i + d])
    BY <1>2, <1>3 DEF OwnBlock, Own, Data
  <2>2. \A i \in 1 .. Len(down') : (Own(down[i]) /\ down[i].kind = "redirect")' => Own(down[i + d]) /\ down[i + d].kind = "redirect"
    BY <1>2, <1>3 DEF Own, Data
  <2>3. \A i \in 1 .. Len(down') : OwnBlock(down[i])' =>
       /\ sv'.download /\ sv'.downloadName = F' /\ down'[i].block < sv'.downloadCurrentBlock
       /\ down'[i].data = BlockOf(F', down'[i].block) \/ down'[i].block < N'
    BY <1>2, <1>3, <1>7, <2>1 DEF TakesBlocks
  <2>4. \A i \in 1 .. Len(down') : (Own(down[i]) /\ down[i].kind = "redirect")' =>
         WebServed' /\ sv'.downloadName = F' /\ Len(up') = 0
    BY <1>2, <1>3, <1>7, <2>2 DEF TakesBlocks
  <2>. QED
    BY <1>2, <1>7, <2>3, <2>4 DEF TakesBlocks, IsNextdl, NextdlOf, Cmd
<1>8. Serves'
  BY <1>2, <1>5, <1>6, <1>7 DEF Serves, Attends
<1>9. Written'
  BY <1>2 DEF Written, Attends
<1>. QED
  BY <1>1, <1>8, <1>9

LEMMA Unmoves ==
  ASSUME Types, sv' = sv PROVE Untouched /\ (Zombie' <=> Zombie)
BY DEF Types, Untouched, Zombie

LEMMA ServesRedirect ==
  ASSUME Base, Attends, NEW begins \in BOOLEAN, ReceiveRedirect(begins), mixed' = "no"
  PROVE  Fits' /\ Serves' /\ Written'
<1>0. Types
  BY DEF Base
<1>1. /\ Reads("redirect") /\ F # None
      /\ \/ cl.bWWWDl /\ cl' = cl /\ up' = up
         \/ /\ ~cl.bWWWDl /\ cl'.bWWWDl /\ F' = F /\ N' = N
            /\ cl'.bWWWDlAborting = (cl.bWWWDlAborting \/ ~begins)
            /\ cl'.download = cl.download /\ cl'.written = cl.written
            /\ mixed' = Mixes(down[1]) /\ Adds(Answer(begins))
  BY <1>0, RedirectIsRead
<1>2. CASE cl' = cl /\ up' = up
  <2>1. Loses(1) /\ sv' = sv /\ bDlOK' = bDlOK
    BY <1>1 DEF Reads
  <2>. QED
    BY <1>0, <1>2, <2>1, Unmoves, ServesLoses DEF Attends, Fits
<1>3. CASE /\ ~cl.bWWWDl /\ cl'.bWWWDl /\ F' = F /\ N' = N
           /\ cl'.bWWWDlAborting = (cl.bWWWDlAborting \/ ~begins)
           /\ cl'.download = cl.download /\ cl'.written = cl.written
           /\ mixed' = Mixes(down[1]) /\ Adds(Answer(begins))
  <2>1. /\ Own(down[1]) /\ down[1].kind = "redirect" /\ TakesBlocks /\ 1 \in 1 .. Len(down)
        /\ sv' = sv /\ bDlOK' = bDlOK
    BY <1>1, <1>3, TakenIs
  <2>2. WebServed /\ sv.downloadName = F /\ Len(up) = 0
    BY <2>1 DEF TakesBlocks
  <2>3. N = 0
    BY <2>1, <2>2 DEF TakesBlocks, WebServed
  <2>4. up \in Seq(Batch)
    BY BaseGives
  <2>5. Extends(1) /\ up'[Len(up) + 1].commands = Answer(begins)
    BY <1>3, <2>4, ExtendsIs
  <2>6. Len(up') = 1 /\ up'[1].commands = Answer(begins)
    BY <2>2, <2>5 DEF Extends
  <2>7. Fits'
    <3>1. /\ Answer(begins) \in {Ack, AckFail} /\ ~EndsWeb(Answer(begins))
          /\ \A n \in Nat : Answer(begins) # NextdlOf(n)
      BY KindsAre DEF Answer, IsNextdl
    <3>2. \A i \in 1 .. Len(up) : FALSE
      BY <2>2
    <3>3. Fits /\ N' \in Counter
      BY <1>3, <2>3, CounterIs DEF Attends
    <3>. QED
      BY <1>3, <2>1, <2>2, <3>1, <3>2, <3>3, FitsAdds
  <2>8. WebServed'
    BY <2>1, <2>2 DEF WebServed
  <2>9. cl'.bWWWDlAborting \/ up'[1].commands = Ack
    <3>1. CASE begins
      BY <2>6, <3>1 DEF Answer
    <3>2. CASE ~begins
      BY <1>3, <3>2
    <3>. QED
      BY <3>1, <3>2
  <2>10. TakesWeb'
    BY <1>3, <2>1, <2>2, <2>3, <2>6, <2>8, <2>9 DEF TakesWeb, Ack, Cmd
  <2>11. Written'
    BY <1>1, <1>3, <2>3 DEF Attends, Written
  <2>. QED
    BY <2>7, <2>10, <2>11 DEF Serves
<1>. QED
  BY <1>1, <1>2, <1>3

(* A file is on its way from the web. *)
LEMMA OnItsWay ==
  ASSUME Base, Attends, Downloading
  PROVE  /\ F \in Files /\ F # None /\ NoForeign /\ WebServed /\ sv.downloadName = F /\ N = 0
         /\ (Len(up) = 0 /\ sv.bWWWing) \/ (Len(up) = 1 /\ up[1].commands = Ack)
         /\ \A i \in 1 .. Len(up) : ~AsksNext(up[i].commands)
<1>1. Gamestates /\ Tidy /\ Clean /\ Serves
  BY DEF Attends, Clean, Undisturbed
<1>2. F \in Files /\ F # None /\ NoForeign
  BY <1>1, WebIs
<1>3. cl.bWWWDl /\ ~cl.bWWWDlAborting
  BY DEF Downloading
<1>4. TakesWeb
  BY <1>1, <1>2, <1>3 DEF Serves, WantsNext, TakesBlocks
<1>5. /\ WebServed /\ sv.downloadName = F /\ N = 0
      /\ (Len(up) = 0 /\ sv.bWWWing) \/ (Len(up) = 1 /\ up[1].commands = Ack)
  BY <1>3, <1>4 DEF TakesWeb
<1>6. \A i \in 1 .. Len(up) : Len(up) = 1 /\ i = 1
  <2>1. Len(up) = 0 \/ Len(up) = 1
    BY <1>5, Zenon
  <2>2. PICK n : n = Len(up)
    OBVIOUS
  <2>3. \A i \in 1 .. n : n = 1 /\ i = 1
    BY <2>1, <2>2
  <2>. QED
    BY <2>2, <2>3
<1>7. \A i \in 1 .. Len(up) : ~AsksNext(up[i].commands)
  BY <1>5, <1>6, KindsAre
<1>. QED
  BY <1>2, <1>5, <1>7

LEMMA ServesWWW ==
  ASSUME Base, Attends, WWWDone \/ WWWFail
  PROVE  Fits' /\ Serves' /\ Written'
<1>0. Types /\ Restarts
  BY DEF Base
<1>1. Downloading
  BY DEF WWWDone, WWWFail
<1>2. /\ F \in Files /\ F # None /\ NoForeign /\ WebServed /\ sv.downloadName = F /\ N = 0
      /\ (Len(up) = 0 /\ sv.bWWWing) \/ (Len(up) = 1 /\ up[1].commands = Ack)
      /\ \A i \in 1 .. Len(up) : ~AsksNext(up[i].commands)
  BY <1>1, OnItsWay
<1>3. up \in Seq(Batch) /\ Len(up) \in Nat /\ down \in Seq(Message) /\ cl.bWWWDl
  BY <1>1, BaseGives DEF Downloading
<1>4. Written => cl.download = None /\ cl.written = <<>>
  BY <1>2 DEF Written
<1>5. CASE WWWDone
  <2>1. OffLine /\ ~cl'.bWWWDl /\ cl'.download = None /\ cl'.written = <<>>
    BY <1>0, <1>2, <1>5, WWWDoneIs
  <2>2. PICK f \in {None} \cup Files : Asked(f) /\ f # F /\ (f = None => N' = N) /\ Adds(DoneAsk(f))
    BY <1>0, <1>2, <1>5, WWWDoneIs
  <2>3. F' = f /\ (f # None => N' = 0) /\ N' = 0 /\ N' \in Counter
    BY <1>2, <2>2, CounterIs DEF Asked
  <2>4. Extends(1) /\ up'[Len(up) + 1].commands = DoneAsk(f) /\ Len(up') = Len(up) + 1
    BY <1>3, <2>2, ExtendsIs DEF Extends
  <2>5. sv' = sv /\ bDlOK' = bDlOK /\ Loses(0)
    BY <1>3, <2>1, LosesNone DEF OffLine
  <2>6. Fits'
    <3>1. \A n \in Nat : DoneAsk(f) # NextdlOf(n)
      BY AsksAre
    <3>2. DoneAsk(f) \notin {Ack, AckFail} /\ Fits
      BY AsksAre DEF Attends
    <3>. QED
      BY <1>2, <2>2, <2>3, <2>5, <3>1, <3>2, FitsAdds
  <2>7. Len(up') > 0 /\ up'[Len(up')].commands \in {AskFor(F'), StopAsk(F'), DoneAsk(F')}
    BY <1>3, <2>3, <2>4
  <2>8. F' # F /\ (F' # None => N' = 0)
    BY <2>2, <2>3
  <2>9. Serves'
    BY <1>2, <2>1, <2>5, <2>7, <2>8, WantsIs
  <2>10. Written'
    BY <2>1, <2>3, WrittenNone
  <2>. QED
    BY <2>6, <2>9, <2>10
<1>6. CASE WWWFail
  <2>1. /\ OffLine /\ cl'.bWWWDl = cl.bWWWDl /\ cl'.bWWWDlAborting
        /\ cl'.download = cl.download /\ cl'.written = cl.written
        /\ F' = F /\ N' = N /\ Adds(Fail)
    BY <1>0, <1>6, WWWFailIs
  <2>2. Fits'
    <3>1. \A n \in Nat : Fail # NextdlOf(n)
      BY KindsAre DEF IsNextdl
    <3>2. Fail \notin {Ack, AckFail} /\ Fits /\ N' \in Counter
      BY <1>2, <2>1, WordsAre, CounterIs DEF Attends
    <3>3. sv' = sv /\ bDlOK' = bDlOK
      BY <2>1 DEF OffLine
    <3>. QED
      BY <1>2, <2>1, <3>1, <3>2, <3>3, FitsAdds
  <2>3. TakesWeb'
    BY <1>2, <1>3, <2>1 DEF TakesWeb
  <2>4. Written'
    BY <1>2, <1>4, <2>1, WrittenNone DEF Attends
  <2>. QED
    BY <2>2, <2>3, <2>4 DEF Serves
<1>. QED
  BY <1>5, <1>6

LEMMA LoadsKeeps ==
  ASSUME Types, ReceiveGamestate, have = Files
  PROVE  N' = N
<1>1. cl \in Client /\ Files \ have = {}
  BY DEF Types
<1>2. PICK c : c = [cl EXCEPT !.serverId = Head(down).serverId]
  OBVIOUS
<1>3. PICK d : d = [c EXCEPT !.bWWWDl = FALSE, !.bWWWDlAborting = FALSE,
                             !.downloadName = None, !.downloadRestart = FALSE,
                             !.downloadList = Files \ have]
  OBVIOUS
<1>4. c.downloadBlock = cl.downloadBlock
  BY <1>1, <1>2 DEF Client
<1>5. d.downloadBlock = c.downloadBlock /\ d.downloadList = {} /\ d.downloadRestart = FALSE
  BY <1>1, <1>2, <1>3 DEF Client
<1>6. PICK n : n = NextDownload(d)
  OBVIOUS
<1>7. n.c = [d EXCEPT !.mode = "loading"]
  BY <1>5, <1>6 DEF NextDownload, DownloadsComplete
<1>8. n.c.downloadBlock = d.downloadBlock
  BY <1>1, <1>2, <1>3, <1>7 DEF Client
<1>9. cl' = n.c
  BY <1>2, <1>3, <1>6 DEF ReceiveGamestate, InitDownloads
<1>. QED
  BY <1>4, <1>5, <1>8, <1>9 DEF N

(* The client is no longer connected. *)
LEMMA ResignsKeeps ==
  ASSUME Types, ReceiveUnrequested \/ ReceiveBad
  PROVE  N' = N
<1>1. cl \in Client
  BY DEF Types
<1>. QED
  BY <1>1 DEF ReceiveUnrequested, ReceiveBad, Client, N

LEMMA FitsResigns ==
  ASSUME Base, Fits, ReceiveUnrequested \/ ReceiveBad
  PROVE  Fits'
<1>0. Types
  BY DEF Base
<1>1. N' \in Counter
  BY <1>0, ResignsKeeps DEF Fits, Bounds
<1>2. CASE ReceiveUnrequested
  <2>1. sv' = sv /\ bDlOK' = bDlOK /\ Adds(Stop)
    BY <1>0, <1>2, UnrequestedIsRead DEF Reads
  <2>2. (\A n \in Nat : Stop # NextdlOf(n)) /\ Stop \notin {Ack, AckFail} /\ ~EndsWeb(Stop)
    <3>1. Stop # AckFail
      BY WordsAre
    <3>. QED
      BY <3>1, KindsAre DEF IsNextdl
  <2>. QED
    BY <1>1, <2>1, <2>2, FitsAdds
<1>3. CASE ReceiveBad
  <2>1. sv' = sv /\ bDlOK' = bDlOK /\ up' = up
    BY <1>0, <1>3, BadIsRead DEF Reads
  <2>2. Extends(0) /\ Len(up) \in Nat
    BY <2>1, BaseGives, ExtendsIs
  <2>3. \A i \in 1 .. Len(up') : ~(Len(up) < i)
    BY <2>1, <2>2
  <2>. QED
    BY <1>1, <2>1, <2>2, <2>3, FitsGrows
<1>. QED
  BY <1>2, <1>3

LEMMA ServesGamestate ==
  ASSUME Base, Attends, ReceiveGamestate
  PROVE  Fits' /\ (Connected' => Serves' /\ Written')
<1>0. Types /\ Fits /\ Gamestates /\ Once /\ Serves /\ Written
  BY DEF Base, Attends, Alone
<1>1. /\ Reads("gamestate") /\ ~cl'.bWWWDl
      /\ cl'.download = cl.download /\ cl'.written = cl.written
      /\ \/ have = Files /\ cl'.mode = "loading" /\ up' = up
         \/ Asked(F') /\ F' \in Files \ have /\ Adds(AskFor(F'))
  BY <1>0, GamestateIsRead
<1>2. /\ sv' = sv /\ bDlOK' = bDlOK /\ Len(down) \in Nat /\ 1 \in 1 .. Len(down)
      /\ down[1].kind = "gamestate" /\ Len(down') = Len(down) - 1
  BY <1>1, BaseGives DEF Reads, Loses
<1>3. Len(down) = 1 /\ Idle /\ Len(up) = 0 /\ (F # None => Aborts)
  BY <1>0, <1>2 DEF Gamestates, Once
<1>5. CASE have = Files /\ cl'.mode = "loading" /\ up' = up
  <2>1. Extends(0) /\ N' \in Counter
    BY <1>0, <1>5, LoadsKeeps, BaseGives, ExtendsIs DEF Fits, Bounds
  <2>2. \A i \in 1 .. Len(up') : ~(Len(up) < i)
    BY <1>3, <1>5
  <2>3. Fits'
    BY <1>0, <1>2, <1>5, <2>1, <2>2, FitsGrows
  <2>. QED
    BY <1>5, <2>3 DEF Connected
<1>6. CASE Asked(F') /\ F' \in Files \ have /\ Adds(AskFor(F'))
  <2>1. F' # None /\ F' \in {None} \cup Files /\ N' = 0 /\ N' \in Counter
    BY <1>6, FilesAre, CounterIs DEF Asked
  <2>2. PICK f \in {None} \cup Files : f = F'
    BY <2>1
  <2>3. Adds(AskFor(f))
    BY <1>6, <2>2
  <2>4. (\A n \in Nat : AskFor(f) # NextdlOf(n)) /\ AskFor(f) \notin {Ack, AckFail} /\ ~EndsWeb(AskFor(f))
    BY AsksAre
  <2>5. \A i \in 1 .. Len(up) : FALSE
    BY <1>3
  <2>6. Fits'
    BY <1>0, <1>2, <2>1, <2>3, <2>4, <2>5, FitsAdds
  <2>7. up'[Len(up')].commands = AskFor(f) /\ Len(up') = 1
    BY <1>3, <2>3 DEF Adds
  <2>8. NoOwn'
    <3>1. Len(down') = 0
      BY <1>2, <1>3
    <3>2. \A i \in 1 .. Len(down') : FALSE
      BY <3>1
    <3>. QED
      BY <3>2 DEF NoOwn
  <2>9. sv'.downloadName # F'
    BY <1>2, <1>3, <2>1 DEF Idle
  <2>10. WantsNext'
    BY <1>1, <2>1, <2>2, <2>7, <2>8, <2>9 DEF WantsNext, F, N, AskFor, StopAsk, DoneAsk, Asks, Cmd
  <2>11. cl.download = None /\ cl.written = <<>>
    <3>1. F # None => N = 0
      <4>1. F # None => cl.bWWWDl
        BY <1>3 DEF Aborts, OnWeb
      <4>. QED
        BY <1>0, <4>1 DEF Serves, WantsNext, TakesBlocks, TakesWeb
    <3>. QED
      BY <1>0, <3>1 DEF Written
  <2>12. Written'
    BY <1>1, <2>1, <2>11, WrittenNone
  <2>. QED
    BY <2>6, <2>10, <2>12 DEF Serves
<1>. QED
  BY <1>1, <1>5, <1>6

(* The client that takes blocks has not yet read the empty one. *)
LEMMA WithinFile ==
  ASSUME Base, Attends, F # None, TakesBlocks
  PROVE  N <= Blocks[F]
<1>1. Phases /\ up \in Seq(Batch) /\ Len(up) \in Nat /\ F \in {None} \cup Files
  BY BaseGives DEF Attends, Tidy
<1>2. \A i \in 1 .. Len(up) : up[i].commands \notin {AskFor(F), StopAsk(F), DoneAsk(F)}
  <2>1. \A b \in {AskFor(F), StopAsk(F), DoneAsk(F)} : AsksNext(b)
    BY <1>1, AsksAre
  <2>. QED
    BY <2>1, KindsAre DEF TakesBlocks
<1>3. ASSUME NEW m \in Nat, NEW e, Ending(m, e) PROVE FALSE
  <2>1. CASE m = Len(up) - 1 /\ (Says(m + 1, AskFor(F)) \/ Says(m + 1, StopAsk(F)) \/ Says(m + 1, DoneAsk(F)))
    <3>1. m + 1 \in 1 .. Len(up)
      BY <1>1, <2>1
    <3>. QED
      BY <1>2, <2>1, <3>1 DEF Says
  <2>2. CASE m = Len(up) - 2 /\ Says(m + 2, DoneAsk(F))
    <3>1. m + 2 \in 1 .. Len(up)
      BY <1>1, <2>2
    <3>. QED
      BY <1>2, <2>2, <3>1 DEF Says
  <2>. QED
    BY <1>3, <2>1, <2>2 DEF Ending
<1>4. PICK j \in Nat, m \in Nat : Fetching(j, m)
  BY <1>1, <1>3 DEF Phases, Waiting, Asking
<1>. QED
  BY <1>4 DEF Fetching

LEMMA AsksOne ==
  ASSUME NEW f \in {None} \cup Files, NEW g \in {None} \cup Files,
         NEW b, b \in {AskFor(f), StopAsk(f), DoneAsk(f)}, b \in {AskFor(g), StopAsk(g), DoneAsk(g)}
  PROVE  f = g
<1>1. Asks(f).arg = f /\ Asks(g).arg = g
  BY DEF Asks, Cmd, None
<1>2. b[Len(b)] = Asks(f)
  BY WordsAre
<1>3. b[Len(b)] = Asks(g)
  BY WordsAre
<1>. QED
  BY <1>1, <1>2, <1>3

(* The server executes a batch. *)
LEMMA ServesExecutes ==
  ASSUME Base, Attends, NEW level, ExecuteBatch(level)
  PROVE  Fits' /\ Serves' /\ Written'
<1>0. Types /\ ~sv.gamestate /\ Fits /\ Serves /\ Written
  BY DEF Base, Attends
<1>1. Takes /\ cl' = cl /\ bDlOK' = bDlOK
  BY <1>0, ExecutingIs DEF TakesPacket, Stays
<1>2. Fits'
  BY <1>0, FitsExecutes
<1>3. F' = F /\ N' = N /\ Written'
  BY <1>0, <1>1 DEF F, N, Written
<1>4. PICK b : b = up[1].commands
  OBVIOUS
<1>5. /\ Kept(sv, sv')
      /\ \/ \E n \in Nat : b = NextdlOf(n) /\ RunsNextdl(n)
         \/ b = Ack /\ RunsAck
         \/ \E f \in {None} \cup Files : b \in {AskFor(f), StopAsk(f), DoneAsk(f)} /\ RunsAsk(f)
         \/ b \in {Fail, AckFail, Stop, Done} /\ RunsOther
  BY <1>0, <1>4, FitsRuns
<1>6. /\ up \in Seq(Batch) /\ Len(up) \in Nat /\ Len(up) > 0 /\ Len(up') = Len(up) - 1
      /\ \A k \in Nat : 1 <= k /\ k <= Len(up) - 1 => up'[k] = up[k + 1]
      /\ down \in Seq(Message) /\ F \in {None} \cup Files /\ N \in Nat
      /\ sv.downloadClientBlock \in Nat
  BY <1>1, TakesGives, BaseGives
<1>7. /\ sv'.downloadCurrentBlock = sv.downloadCurrentBlock /\ sv'.bWWWDl = sv.bWWWDl
  BY <1>5 DEF Kept
<1>8. 1 \in 1 .. Len(up)
  BY <1>6
<1>9. CASE WantsNext /\ F # None
  <2>1. /\ up[Len(up)].commands \in {AskFor(F), StopAsk(F), DoneAsk(F)}
        /\ N = 0 /\ ~cl.bWWWDl /\ NoOwn /\ sv.downloadName # F
    BY <1>9 DEF WantsNext
  <2>2. \A c \in {AskFor(F), StopAsk(F), DoneAsk(F)} :
           /\ AsksNext(c) /\ c \notin {Ack, AckFail, Fail, Done, Stop} /\ ~IsNextdl(c)
    BY <1>6, AsksAre, KindsAre
  <2>3. CASE Len(up) = 1
    <3>1. b \in {AskFor(F), StopAsk(F), DoneAsk(F)}
      BY <1>4, <2>1, <2>3
    <3>2. PICK f \in {None} \cup Files : b \in {AskFor(f), StopAsk(f), DoneAsk(f)} /\ RunsAsk(f)
      BY <1>5, <2>2, <3>1 DEF IsNextdl
    <3>3. f = F
      BY <1>6, <3>1, <3>2, AsksOne
    <3>4. down' = down /\ sv'.downloadName = F /\ ~sv'.download
      BY <1>9, <3>2, <3>3 DEF RunsAsk
    <3>5. Len(up') = 0
      BY <1>6, <2>3
    <3>6. \A i \in 1 .. Len(up') : FALSE
      BY <3>5
    <3>7. \A i \in 1 .. Len(down') : ~Own(down[i])'
      BY <1>1, <2>1, <3>4 DEF NoOwn, Own, Data, F
    <3>8. TakesBlocks'
      BY <1>1, <1>3, <2>1, <3>4, <3>6, <3>7 DEF TakesBlocks, OwnBlock
    <3>. QED
      BY <1>2, <1>3, <3>8 DEF Serves
  <2>4. CASE Len(up) # 1
    <3>1. Len(up') \in 1 .. Len(up') /\ Len(up') > 0 /\ up'[Len(up')] = up[Len(up)]
      BY <1>6, <2>4
    <3>2. ~AsksNext(b)
      <4>1. ASSUME AsksNext(b) PROVE FALSE
        <5>1. PICK i \in 1 .. Len(up') : i = Len(up')
          BY <3>1
        <5>2. up'[i].commands = Stop
          BY <1>0, <1>1, <1>4, <4>1, FitsShift
        <5>. QED
          BY <2>1, <2>2, <3>1, <5>1, <5>2
      <4>. QED
        BY <4>1
    <3>3. \A f \in {None} \cup Files : b \notin {AskFor(f), StopAsk(f), DoneAsk(f)}
      BY <3>2 DEF AsksNext
    <3>4. /\ sv'.downloadName = sv.downloadName \/ sv'.downloadName = None
          /\ down' = down \/ down' = Sent(Gamestate)
      BY <1>5, <3>3 DEF RunsNextdl, RunsAck, RunsOther, Closed
    <3>5. \E d : Follows(d)
      <4>1. CASE down' = down
        BY <1>6, <4>1, LosesNone, LosesFollow
      <4>2. CASE down' = Sent(Gamestate)
        BY <4>2, GamestateSent
      <4>. QED
        BY <3>4, <4>1, <4>2
    <3>6. NoOwn'
      BY <1>1, <2>1, <3>5, FollowKeeps
    <3>7. sv'.downloadName # F
      BY <1>9, <2>1, <3>4
    <3>8. WantsNext'
      BY <1>1, <1>3, <2>1, <3>1, <3>6, <3>7
      DEF WantsNext, AskFor, StopAsk, DoneAsk, Asks, Cmd
    <3>. QED
      BY <1>2, <1>3, <3>8 DEF Serves
  <2>. QED
    BY <2>3, <2>4
<1>10. CASE TakesBlocks /\ F # None
  <2>1. IsNextdl(b)
    BY <1>4, <1>8, <1>10 DEF TakesBlocks
  <2>2. PICK n \in Nat : b = NextdlOf(n) /\ RunsNextdl(n)
    <3>1. b \notin {Ack, AckFail, Fail, Done, Stop} /\ ~AsksNext(b)
      BY <2>1, KindsAre
    <3>2. \A f \in {None} \cup Files : b \notin {AskFor(f), StopAsk(f), DoneAsk(f)}
      BY <3>1 DEF AsksNext
    <3>. QED
      BY <1>5, <3>1, <3>2
  <2>3. /\ n = sv.downloadClientBlock /\ sv.download /\ n < sv.downloadCurrentBlock
        /\ down' = down
        /\ \/ n = Blocks[sv.downloadName]
           \/ /\ sv'.downloadClientBlock = n + 1 /\ sv'.downloadName = sv.downloadName /\ sv'.download
    BY <2>2 DEF RunsNextdl
  <2>4. /\ N = sv.downloadClientBlock + Len(up) /\ sv.downloadName = F
    <3>1. sv.downloadName # None
      BY <2>3, FilesAre DEF Base, Window
    <3>. QED
      BY <1>10, <2>3, <3>1 DEF TakesBlocks
  <2>5. N <= Blocks[F] /\ Blocks[F] \in Nat
    BY <1>6, <1>10, WithinFile, BaseGives
  <2>6. sv'.downloadClientBlock = n + 1 /\ sv'.downloadName = F /\ sv'.download
    <3>1. n # Blocks[F]
      BY <1>6, <2>3, <2>4, <2>5
    <3>. QED
      BY <2>3, <2>4, <3>1
  <2>7. N = sv'.downloadClientBlock + Len(up')
    BY <1>6, <2>3, <2>4, <2>6
  <2>8. \A i \in 1 .. Len(up') : IsNextdl(up'[i].commands)
    <3>1. \A i \in 1 .. Len(up') : i + 1 \in 1 .. Len(up) /\ up'[i] = up[i + 1]
      BY <1>6
    <3>. QED
      BY <1>10, <3>1 DEF TakesBlocks
  <2>9. \A i \in 1 .. Len(down') : (OwnBlock(down[i])' <=> OwnBlock(down[i])) /\ (Own(down[i])' <=> Own(down[i]))
    BY <1>1, <2>3 DEF OwnBlock, Own, Data, F
  <2>10. ~WebServed
    BY <2>3 DEF WebServed
  <2>11. \A i \in 1 .. Len(down') : OwnBlock(down[i])' =>
            /\ down'[i].block < sv'.downloadCurrentBlock
            /\ down'[i].data = BlockOf(F', down'[i].block) \/ down'[i].block < N'
    BY <1>3, <1>7, <1>10, <2>3, <2>9 DEF TakesBlocks
  <2>12. \A i \in 1 .. Len(down') : ~(Own(down[i]) /\ down[i].kind = "redirect")'
    BY <1>10, <2>3, <2>9, <2>10 DEF TakesBlocks
  <2>13. TakesBlocks'
    BY <1>1, <1>3, <1>10, <2>6, <2>7, <2>8, <2>11, <2>12 DEF TakesBlocks, IsNextdl, NextdlOf, Cmd
  <2>. QED
    BY <1>2, <1>3, <2>13 DEF Serves
<1>11. CASE TakesWeb /\ F # None
  <2>1. CASE cl.bWWWDlAborting
    <3>1. TakesWeb'
      BY <1>1, <1>3, <1>11, <2>1 DEF TakesWeb
    <3>. QED
      BY <1>2, <1>3, <3>1 DEF Serves
  <2>2. CASE ~cl.bWWWDlAborting
    <3>1. /\ sv.downloadName = F /\ Len(up) = 1 /\ up[1].commands = Ack
      <4>1. Len(up) # 0
        BY <1>6
      <4>. QED
        BY <1>11, <2>2, <4>1, Zenon DEF TakesWeb
    <3>2. RunsAck
      <4>1. \A f \in {None} \cup Files : Ack \notin {AskFor(f), StopAsk(f), DoneAsk(f)}
        BY AsksAre
      <4>2. \A n \in Nat : Ack # NextdlOf(n)
        BY KindsAre DEF IsNextdl
      <4>. QED
        BY <1>4, <1>5, <3>1, <4>1, <4>2, KindsAre
    <3>3. /\ WebServed /\ sv'.bWWWing /\ sv'.downloadName = sv.downloadName /\ ~sv'.download
          /\ sv'.bFallback = sv.bFallback
      BY <3>2 DEF RunsAck
    <3>4. WebServed' /\ Len(up') = 0
      BY <1>1, <1>6, <1>7, <3>1, <3>3 DEF WebServed
    <3>5. TakesWeb'
      BY <1>1, <1>3, <1>11, <3>1, <3>3, <3>4 DEF TakesWeb
    <3>. QED
      BY <1>2, <1>3, <3>5 DEF Serves
  <2>. QED
    BY <2>1, <2>2
<1>12. CASE F = None
  BY <1>2, <1>3, <1>12 DEF Serves
<1>. QED
  BY <1>0, <1>9, <1>10, <1>11, <1>12 DEF Serves

(* The server writes: the parts under way are those there were, and one. *)
LEMMA WrittenLast ==
  ASSUME Base, NEW msg \in Message, down' = Sent(msg)
  PROVE  \A i \in 1 .. Len(down') :
           \/ \E k \in 1 .. Len(down) : down'[i] = down[k]
           \/ down'[i] = msg
<1>1. down \in Seq(Message) /\ Len(down) <= MaxInFlight
  BY DEF Base, Types
<1>2. Posts(msg)
  BY <1>1, SentIs
<1>3. PICK d \in 0 .. 1 :
        \A i \in 1 .. Len(down') : i < Len(down') => i + d \in 1 .. Len(down) /\ down'[i] = down[i + d]
  BY <1>1, <1>2, PostedIs
<1>4. Len(down') \in Nat /\ down'[Len(down')] = msg
  BY <1>1, <1>2, PostedIs
<1>5. \A i \in 1 .. Len(down') : i < Len(down') \/ i = Len(down')
  BY <1>4
<1>. QED
  BY <1>3, <1>4, <1>5

LEMMA ServesWriteRedirect ==
  ASSUME Base, Attends, WriteRedirect
  PROVE  Fits' /\ Serves' /\ Written'
<1>0. Types /\ Fits /\ Serves /\ Written
  BY DEF Base, Attends
<1>1. Fits'
  BY <1>0, FitsWrites
<1>2. PICK f : f = sv.downloadName
  OBVIOUS
<1>3. /\ Writing /\ ~sv.download /\ bDlOK /\ ~sv.bFallback /\ Blocks[f] > 0 /\ ~sv'.bFallback
      /\ sv'.downloadName = f /\ ~sv'.download /\ sv'.bWWWDl /\ sv'.bWWWing = sv.bWWWing
  BY <1>0, <1>2, RedirectIsWritten
<1>4. PICK msg \in Message : down' = Sent(msg) /\ msg.kind = "redirect" /\ msg.data.file = f
  BY <1>0, <1>2, RedirectIsWritten
<1>5. cl' = cl /\ up' = up /\ bDlOK' = bDlOK /\ f \in Files /\ f # None
  BY <1>2, <1>3 DEF Writing, Stays
<1>6. F' = F /\ N' = N /\ Written'
  BY <1>0, <1>5 DEF F, N, Written
<1>7. WebServed'
  BY <1>3, <1>5 DEF WebServed
<1>8. \A i \in 1 .. Len(down') :
           \/ \E k \in 1 .. Len(down) : down'[i] = down[k]
           \/ down'[i] = msg
  BY <1>4, WrittenLast
<1>9. CASE WantsNext /\ F # None
  <2>1. NoOwn'
    BY <1>2, <1>4, <1>5, <1>8, <1>9 DEF WantsNext, NoOwn, Own, Data, F
  <2>2. WantsNext'
    BY <1>2, <1>3, <1>5, <1>6, <1>9, <2>1 DEF WantsNext, F, N, AskFor, StopAsk, DoneAsk, Asks, Cmd
  <2>. QED
    BY <1>1, <1>6, <2>2 DEF Serves
<1>10. CASE TakesBlocks /\ F # None
  <2>1. f = F /\ N = 0
    BY <1>2, <1>3, <1>5, <1>10 DEF TakesBlocks
  <2>2. \A i \in 1 .. Len(down') : ~OwnBlock(down[i])'
    <3>1. \A i \in 1 .. Len(down) : ~OwnBlock(down[i])
      BY <1>3, <1>10 DEF TakesBlocks
    <3>. QED
      BY <1>4, <1>5, <1>8, <3>1 DEF OwnBlock, Own, Data, F
  <2>3. Len(up) = 0
    <3>1. Len(up) \in Nat
      BY BaseGives
    <3>2. ASSUME 1 \in 1 .. Len(up) PROVE FALSE
      <4>1. PICK n \in Nat : up[1].commands = NextdlOf(n)
        BY <1>10, <3>2 DEF TakesBlocks, IsNextdl
      <4>. QED
        BY <1>0, <1>3, <3>2, <4>1 DEF Fits, BatchFits
    <3>. QED
      BY <3>1, <3>2
  <2>4. TakesBlocks'
    BY <1>3, <1>5, <1>6, <1>7, <1>10, <2>1, <2>2, <2>3 DEF TakesBlocks, IsNextdl, NextdlOf, Cmd
  <2>. QED
    BY <1>1, <1>6, <2>4 DEF Serves
<1>11. CASE TakesWeb /\ F # None
  <2>1. CASE cl.bWWWDlAborting
    <3>1. TakesWeb'
      BY <1>5, <1>6, <1>11, <2>1 DEF TakesWeb
    <3>. QED
      BY <1>1, <1>6, <3>1 DEF Serves
  <2>2. CASE ~cl.bWWWDlAborting
    <3>1. /\ sv.downloadName = F
          /\ (Len(up) = 0 /\ sv.bWWWing) \/ (Len(up) = 1 /\ up[1].commands = Ack)
      BY <1>11, <2>2, Zenon DEF TakesWeb
    <3>2. (Len(up') = 0 /\ sv'.bWWWing) \/ (Len(up') = 1 /\ up'[1].commands = Ack')
      BY <1>3, <1>5, <3>1, Zenon DEF Ack, Cmd
    <3>3. TakesWeb'
      BY <1>2, <1>3, <1>5, <1>6, <1>7, <1>11, <3>1, <3>2, Zenon DEF TakesWeb
    <3>. QED
      BY <1>1, <1>6, <3>3 DEF Serves
  <2>. QED
    BY <2>1, <2>2
<1>12. CASE F = None
  BY <1>1, <1>6, <1>12 DEF Serves
<1>. QED
  BY <1>0, <1>9, <1>10, <1>11, <1>12 DEF Serves

LEMMA ServesWriteBad ==
  ASSUME Base, Attends, WriteBad
  PROVE  Fits' /\ Serves' /\ Written'
<1>0. Types /\ Fits /\ Serves /\ Written
  BY DEF Base, Attends
<1>1. Fits'
  BY <1>0, FitsWrites
<1>2. PICK f : f = sv.downloadName
  OBVIOUS
<1>3. /\ Writing /\ ~sv.download /\ Blocks[f] = 0 /\ sv'.downloadName = None /\ ~sv'.download
  BY <1>0, <1>2, BadIsWritten
<1>4. PICK msg \in Message : down' = Sent(msg) /\ msg.kind = "bad"
  BY <1>0, <1>2, BadIsWritten
<1>5. cl' = cl /\ up' = up
  BY <1>3 DEF Writing, Stays
<1>6. F' = F /\ N' = N /\ Written'
  BY <1>0, <1>5 DEF F, N, Written
<1>7. ~WebServed
  BY <1>2, <1>3 DEF WebServed
<1>8. \A i \in 1 .. Len(down') :
           \/ \E k \in 1 .. Len(down) : down'[i] = down[k]
           \/ down'[i] = msg
  BY <1>4, WrittenLast
<1>9. \A i \in 1 .. Len(down') : ~Own(down[i])' \/ \E k \in 1 .. Len(down) : Own(down[k]) /\ down'[i] = down[k]
  BY <1>4, <1>6, <1>8 DEF Own, Data
<1>10. CASE WantsNext /\ F # None
  <2>1. NoOwn'
    BY <1>9, <1>10 DEF WantsNext, NoOwn
  <2>2. WantsNext'
    BY <1>3, <1>5, <1>6, <1>10, <2>1 DEF WantsNext, F, N, AskFor, StopAsk, DoneAsk, Asks, Cmd
  <2>. QED
    BY <1>1, <1>6, <2>2 DEF Serves
<1>11. CASE TakesBlocks /\ F # None
  <2>1. \A i \in 1 .. Len(down) : Own(down[i]) => FALSE
    <3>1. \A i \in 1 .. Len(down) : Own(down[i]) => OwnBlock(down[i]) \/ down[i].kind = "redirect"
      BY DEF OwnBlock, Own, Data
    <3>. QED
      BY <1>3, <1>7, <1>11, <3>1 DEF TakesBlocks
  <2>2. \A i \in 1 .. Len(down') : ~Own(down[i])'
    BY <1>9, <2>1
  <2>3. TakesBlocks'
    BY <1>3, <1>5, <1>6, <1>11, <2>2 DEF TakesBlocks, OwnBlock, IsNextdl, NextdlOf, Cmd
  <2>. QED
    BY <1>1, <1>6, <2>3 DEF Serves
<1>12. CASE TakesWeb /\ F # None
  <2>1. TakesWeb'
    BY <1>5, <1>6, <1>7, <1>12 DEF TakesWeb
  <2>. QED
    BY <1>1, <1>6, <2>1 DEF Serves
<1>13. CASE F = None
  BY <1>1, <1>6, <1>13 DEF Serves
<1>. QED
  BY <1>0, <1>10, <1>11, <1>12, <1>13 DEF Serves

LEMMA ServesWriteBlock ==
  ASSUME Base, Attends, WriteBlock
  PROVE  Fits' /\ Serves' /\ Written'
<1>0. Types /\ Fits /\ Serves /\ Written /\ Window
  BY DEF Base, Attends
<1>1. Fits'
  BY <1>0, FitsWrites
<1>2. PICK f : f = sv.downloadName
  OBVIOUS
<1>3. PICK c \in Nat, k \in Nat, x \in Nat, b \in Nat : Sends(f, c, k, x, b)
  BY <1>0, <1>2, BlockIsWritten
<1>4. /\ Writing /\ Blocks[f] > 0 /\ (sv.download \/ ~bDlOK \/ sv.bFallback)
      /\ Starts(c, k, x) /\ sv'.download /\ sv'.downloadName = f
      /\ sv'.downloadClientBlock = k
      /\ \E msg \in Message :
           /\ down' = Sent(msg) /\ msg.kind = "block" /\ msg.block = b
           /\ msg.data = sv'.downloadBlocks[Slot(b)]
  BY <1>3 DEF Sends
<1>5. PICK msg \in Message : /\ down' = Sent(msg) /\ msg.kind = "block" /\ msg.block = b
                             /\ msg.data = sv'.downloadBlocks[Slot(b)]
  BY <1>4
<1>6. cl' = cl /\ up' = up /\ f \in Files /\ f # None
  BY <1>2, <1>4 DEF Writing, Stays
<1>7. F' = F /\ N' = N /\ Written'
  BY <1>0, <1>6 DEF F, N, Written
<1>8. ~WebServed
  BY <1>4 DEF WebServed
<1>9. \A i \in 1 .. Len(down') :
           \/ \E l \in 1 .. Len(down) : down'[i] = down[l]
           \/ down'[i] = msg
  BY <1>5, WrittenLast
<1>10. msg.data.file = f
  BY <1>2, <1>3, <1>5, SentFile
<1>11. CASE WantsNext /\ F # None
  <2>1. NoOwn'
    BY <1>2, <1>7, <1>9, <1>10, <1>11 DEF WantsNext, NoOwn, Own, Data
  <2>2. WantsNext'
    BY <1>2, <1>4, <1>6, <1>7, <1>11, <2>1 DEF WantsNext, F, N, AskFor, StopAsk, DoneAsk, Asks, Cmd
  <2>. QED
    BY <1>1, <1>7, <2>2 DEF Serves
<1>12. CASE TakesBlocks /\ F # None
  <2>1. f = F /\ (IF sv.download THEN N = sv.downloadClientBlock + Len(up) ELSE N = 0)
    BY <1>2, <1>6, <1>12 DEF TakesBlocks
  <2>2. /\ sv.downloadClientBlock \in Nat /\ sv.downloadCurrentBlock \in Nat /\ W \in Nat
        /\ sv.downloadXmitBlock \in Nat /\ Len(up) \in Nat /\ Blocks[f] \in Nat /\ N \in Nat
    BY <1>6, BaseGives
  <2>3. PICK n \in Nat : n = IF sv.download THEN sv.downloadClientBlock ELSE 0
    BY <2>2
  <2>4. sv.download => Reached(f, n, 0, 0)
    <3>1. SUFFICES ASSUME sv.download PROVE Reached(f, n, 0, 0)
      OBVIOUS
    <3>2. n = sv.downloadClientBlock /\ sv.downloadCurrentBlock <= Blocks[f] + 1
      BY <1>0, <1>2, <2>3, <3>1 DEF Window
    <3>3. /\ n <= sv.downloadCurrentBlock /\ sv.downloadCurrentBlock <= n + W
          /\ Exact(f) /\ sv.downloadXmitBlock <= sv.downloadCurrentBlock
      BY <1>0, <1>2, <3>1, <3>2 DEF Fits, WindowFits
    <3>. QED
      BY <2>2, <3>1, <3>2, <3>3 DEF Reached
  <2>5. n <= Blocks[f] + 1 /\ 0 <= n /\ (n > 0 => sv.download) /\ n <= N
    <3>1. CASE sv.download
      BY <1>0, <1>2, <2>1, <2>2, <2>3, <2>4, <3>1 DEF Window, Reached
    <3>2. CASE ~sv.download
      BY <2>2, <2>3, <3>2
    <3>. QED
      BY <3>1, <3>2
  <2>6. sv.download \/ n > 0 => Reached(f, n, 0, 0)
    BY <2>4, <2>5
  <2>7. /\ Reached(f, n, 0, 0)' /\ b < sv'.downloadCurrentBlock
        /\ b < n \/ b >= sv'.downloadCurrentBlock - W
        /\ Reached(f, n, 0, 0) => sv.downloadCurrentBlock <= sv'.downloadCurrentBlock
    <3>1. PICK z \in Nat : z = 0
      OBVIOUS
    <3>2. z <= n /\ (sv.download \/ n > 0 => Reached(f, n, z, z))
      BY <2>5, <2>6, <3>1
    <3>3. /\ Reached(f, n, z, z)' /\ b < sv'.downloadCurrentBlock
          /\ b < n \/ b >= sv'.downloadCurrentBlock - W
          /\ Reached(f, n, z, z) => sv.downloadCurrentBlock <= sv'.downloadCurrentBlock
      BY <1>2, <1>3, <1>6, <2>5, <3>2, SendsReached
    <3>. QED
      BY <3>1, <3>3
  <2>8. k = n
    BY <1>4, <2>3 DEF Starts
  <2>9. N = sv'.downloadClientBlock + Len(up')
    <3>1. CASE sv.download
      BY <1>4, <1>6, <2>1, <2>3, <2>8, <3>1
    <3>2. CASE ~sv.download
      <4>1. Len(up) = 0
        <5>1. ASSUME 1 \in 1 .. Len(up) PROVE FALSE
          <6>1. PICK a \in Nat : up[1].commands = NextdlOf(a)
            BY <1>12, <5>1 DEF TakesBlocks, IsNextdl
          <6>. QED
            BY <1>0, <3>2, <5>1, <6>1 DEF Fits, BatchFits
        <5>. QED
          BY <2>2, <5>1
      <4>. QED
        BY <1>4, <1>6, <2>1, <2>3, <2>8, <3>2, <4>1
    <3>. QED
      BY <3>1, <3>2
  <2>10. msg.data = BlockOf(f, b) \/ b < N
    <3>1. b >= sv'.downloadCurrentBlock - W => sv'.downloadBlocks[Slot(b)] = BlockOf(f, b)
      <4>1. Exact(f)'
        BY <2>7 DEF Reached
      <4>. QED
        BY <2>7, <4>1 DEF Exact
    <3>2. b < n => b < N
      BY <2>2, <2>5
    <3>. QED
      BY <1>5, <2>7, <3>1, <3>2
  <2>11. sv'.downloadCurrentBlock \in Nat
    <3>1. sv' \in Server
      BY <1>4 DEF Writing
    <3>. QED
      BY <3>1, CounterIs DEF Server
  <2>12. \A i \in 1 .. Len(down) : OwnBlock(down[i]) =>
            /\ down[i].block < sv'.downloadCurrentBlock
            /\ down[i].data = BlockOf(F, down[i].block) \/ down[i].block < N
    <3>1. SUFFICES ASSUME NEW i \in 1 .. Len(down), OwnBlock(down[i])
                   PROVE  /\ down[i].block < sv'.downloadCurrentBlock
                          /\ down[i].data = BlockOf(F, down[i].block) \/ down[i].block < N
      OBVIOUS
    <3>2. /\ sv.download /\ down[i].block < sv.downloadCurrentBlock
          /\ down[i].data = BlockOf(F, down[i].block) \/ down[i].block < N
      BY <1>12, <3>1 DEF TakesBlocks
    <3>3. sv.downloadCurrentBlock <= sv'.downloadCurrentBlock
      BY <2>4, <2>7, <3>2
    <3>4. down[i].block \in Nat
      BY BaseGives
    <3>. QED
      BY <2>2, <2>11, <3>2, <3>3, <3>4
  <2>13. \A i \in 1 .. Len(down') : OwnBlock(down[i])' =>
            /\ down'[i].block < sv'.downloadCurrentBlock
            /\ down'[i].data = BlockOf(F', down'[i].block) \/ down'[i].block < N'
    <3>1. SUFFICES ASSUME NEW i \in 1 .. Len(down'), OwnBlock(down[i])'
                   PROVE  /\ down'[i].block < sv'.downloadCurrentBlock
                          /\ down'[i].data = BlockOf(F', down'[i].block) \/ down'[i].block < N'
      OBVIOUS
    <3>2. CASE down'[i] = msg
      BY <1>5, <1>7, <2>1, <2>7, <2>10, <3>2
    <3>3. CASE \E l \in 1 .. Len(down) : down'[i] = down[l]
      <4>1. PICK l \in 1 .. Len(down) : down'[i] = down[l]
        BY <3>3
      <4>2. OwnBlock(down[l])
        BY <1>7, <3>1, <4>1 DEF OwnBlock, Own, Data
      <4>. QED
        BY <1>7, <2>12, <4>1, <4>2
    <3>. QED
      BY <1>9, <3>2, <3>3
  <2>14. \A i \in 1 .. Len(down') : ~(Own(down[i]) /\ down[i].kind = "redirect")'
    <3>1. \A i \in 1 .. Len(down) : ~(Own(down[i]) /\ down[i].kind = "redirect")
      BY <1>8, <1>12 DEF TakesBlocks
    <3>. QED
      BY <1>5, <1>7, <1>9, <3>1 DEF Own, Data
  <2>15. TakesBlocks'
    BY <1>4, <1>6, <1>7, <1>12, <2>1, <2>9, <2>13, <2>14 DEF TakesBlocks, IsNextdl, NextdlOf, Cmd
  <2>. QED
    BY <1>1, <1>7, <2>15 DEF Serves
<1>13. CASE TakesWeb /\ F # None
  <2>1. TakesWeb'
    BY <1>6, <1>7, <1>8, <1>13 DEF TakesWeb
  <2>. QED
    BY <1>1, <1>7, <2>1 DEF Serves
<1>14. CASE F = None
  BY <1>1, <1>7, <1>14 DEF Serves
<1>. QED
  BY <1>0, <1>11, <1>12, <1>13, <1>14 DEF Serves

(* What was undisturbed is not restored. *)
LEMMA UndisturbedBefore ==
  ASSUME Base, Next \/ UNCHANGED vars, Undisturbed'
  PROVE  Undisturbed /\ serverId' = serverId /\ mixed' = "no"
<1>1. mixed' = mixed \/ \E m : mixed' = Mixes(m)
  BY OnlyConnected
<1>2. mixed = "no"
  BY <1>1 DEF Undisturbed, Mixes
<1>3. serverId' = serverId
  <2>1. CASE ~Connected
    BY <2>1, Rests DEF Undisturbed
  <2>2. CASE Connected /\ ~Connected'
    <3>1. cl' # cl
      BY <2>2 DEF Connected
    <3>2. CASE Receive
      BY <3>2 DEF Receive, ReceiveGamestate, ReceiveUnrequested, ReceiveBad, ReceiveRedirect,
                  ReceiveOther, ReceiveUnwritable, ReceiveBlock, ReceiveEOF, Arrives
    <3>3. CASE WWWDone \/ WWWFail \/ GivesUp
      BY <3>3 DEF WWWDone, WWWFail, GivesUp
    <3>4. ~(\E level : ExecuteBatch(level) \/ IgnoreBatch(level)) /\ ~ResendGamestate /\ ~Lose
      BY <3>1 DEF ExecuteBatch, IgnoreBatch, ResendGamestate, Lose
    <3>5. ~(WriteRedirect \/ WriteBad \/ WriteBlock \/ Quiet \/ NewLevel)
      BY <3>1 DEF WriteRedirect, WriteBad, WriteBlock, Writes, Quiet, NewLevel
    <3>6. ~UNCHANGED vars
      BY <3>1 DEF vars
    <3>. QED
      BY <3>2, <3>3, <3>4, <3>5, <3>6 DEF Next, ExecutePacket
  <2>3. CASE Connected'
    BY <2>3, AtFirstBefore DEF AtFirst, Undisturbed
  <2>. QED
    BY <2>1, <2>2, <2>3
<1>. QED
  BY <1>2, <1>3 DEF Undisturbed

(* A batch of an old level is thrown away. *)
LEMMA FitsIgnores ==
  ASSUME Base, Fits, NEW level, IgnoreBatch(level)
  PROVE  Fits'
<1>1. Types /\ Batches
  BY DEF Base
<1>2. Takes /\ Stays
  BY <1>1, PacketIs DEF TakesPacket
<1>3. IsBatch(up[1].commands)
  <2>1. 1 \in 1 .. Len(up)
    BY <1>1, <1>2 DEF Types, Takes
  <2>. QED
    BY <1>1, <2>1 DEF Batches
<1>4. OldLevel(level) /\ Untouched /\ sv'.state # "zombie"
  BY <1>1, <1>3, IgnoringIs
<1>5. Idle
  BY <1>4 DEF OldLevel, Idle
<1>. QED
  BY <1>2, <1>4, <1>5, FitsRests DEF Stays, Zombie

(* The client is no longer connected. *)
LEMMA FitsAlone ==
  ASSUME Base, Fits, ~Connected, Next \/ UNCHANGED vars, serverId' = serverId
  PROVE  Fits' /\ ~Connected'
<1>1. Types /\ Batches /\ ~Zombie /\ down \in Seq(Message)
  BY DEF Base, Types, Fits
<1>2. cl' = cl /\ ~Connected'
  BY Rests DEF Connected
<1>3. ~Receive
  BY DEF Receive, ReceiveGamestate, ReceiveUnrequested, ReceiveBad, ReceiveRedirect,
         ReceiveOther, ReceiveUnwritable, ReceiveBlock, ReceiveEOF, Arrives
<1>4. ~WWWDone /\ ~WWWFail /\ ~GivesUp /\ ~ResendGamestate
  BY DEF WWWDone, WWWFail, GivesUp, Downloading, ResendGamestate
<1>5. CASE Lose \/ UNCHANGED vars
  <2>1. sv' = sv /\ bDlOK' = bDlOK /\ up' = up
    BY <1>5 DEF Lose, vars
  <2>2. Untouched /\ ~Zombie'
    BY <1>1, <2>1, Unmoves
  <2>. QED
    BY <1>2, <2>1, <2>2, FitsRests
<1>6. ASSUME NEW level, ExecuteBatch(level) PROVE Fits'
  BY <1>6, FitsExecutes
<1>7. ASSUME NEW level, IgnoreBatch(level) PROVE Fits'
  BY <1>7, FitsIgnores
<1>8. CASE WriteRedirect \/ WriteBad \/ WriteBlock
  BY <1>2, <1>8, FitsWrites
<1>9. CASE Quiet
  <2>1. bDlOK' = bDlOK /\ up' = up /\ Untouched /\ sv'.state = sv.state
    BY <1>1, <1>9, QuietIs DEF Stays
  <2>. QED
    BY <1>1, <1>2, <2>1, FitsRests DEF Zombie
<1>10. ~NewLevel
  BY <1>1, NewLevelIs, TypesGive
<1>. QED
  BY <1>2, <1>3, <1>4, <1>5, <1>6, <1>7, <1>8, <1>9, <1>10 DEF Next, ExecutePacket

(* On the first level the server has no gamestate to send again to a       *)
(* client that waits for a file.                                           *)
LEMMA ServesResend ==
  ASSUME Base, Attends, ResendGamestate
  PROVE  Fits' /\ Serves' /\ Written'
<1>1. Types /\ AtFirst /\ Alone /\ Fits /\ Written
  BY DEF Base, Attends, AtFirst, Undisturbed
<1>2. cl' = cl /\ bDlOK' = bDlOK /\ up' = up /\ Untouched /\ sv'.state # "zombie" /\ OldLevel(cl.serverId)
  BY <1>1, ResendingIs DEF Stays
<1>3. F = None
  <2>1. cl.serverId # 1
    BY <1>1, <1>2 DEF OldLevel, AtFirst
  <2>. QED
    BY <1>1, <2>1, AtFirstGives
<1>4. Fits'
  BY <1>1, <1>2, FitsRests DEF Zombie
<1>5. Serves'
  BY <1>2, <1>3 DEF Serves, F
<1>6. Written'
  BY <1>1, <1>2 DEF Written, F, N
<1>. QED
  BY <1>4, <1>5, <1>6

(* Every step keeps what holds on the first level as long as no block was  *)
(* taken for another file's.                                               *)
LEMMA ServesNext ==
  ASSUME Base, Clean => Gamestates /\ Tidy, AtFirst => Alone, Undisturbed => Fits,
         Undisturbed /\ Connected => Serves /\ Written, Next \/ UNCHANGED vars
  PROVE  (Undisturbed' => Fits') /\ (Undisturbed' /\ Connected' => Serves' /\ Written')
<1>. SUFFICES ASSUME Undisturbed'
              PROVE  Fits' /\ (Connected' => Serves' /\ Written')
  OBVIOUS
<1>1. Undisturbed /\ serverId' = serverId /\ mixed' = "no"
  BY UndisturbedBefore
<1>2. Types /\ Fits /\ ~Zombie /\ down \in Seq(Message)
  BY <1>1 DEF Base, Types, Fits
<1>3. CASE ~Connected
  BY <1>1, <1>2, <1>3, FitsAlone
<1>4. CASE Connected
  <2>1. Attends
    <3>1. Clean /\ AtFirst
      BY <1>1, <1>4 DEF Clean, AtFirst, Undisturbed
    <3>. QED
      BY <1>1, <1>2, <1>4, <3>1 DEF Attends
  <2>2. CASE Receive
    <3>1. CASE ReceiveUnrequested \/ ReceiveBad
      <4>1. cl'.mode # "connected"
        BY <1>2, <3>1, UnrequestedIsRead, BadIsRead
      <4>. QED
        BY <1>2, <3>1, <4>1, FitsResigns DEF Connected
    <3>2. CASE ReceiveGamestate
      BY <2>1, <3>2, ServesGamestate
    <3>3. ASSUME NEW begins \in BOOLEAN, ReceiveRedirect(begins) PROVE Fits' /\ Serves' /\ Written'
      BY <1>1, <2>1, <3>3, ServesRedirect
    <3>4. CASE ReceiveOther
      <4>1. Reads("block") /\ cl' = cl /\ up' = up
        BY <1>2, <3>4, OtherIsRead
      <4>2. Loses(1) /\ sv' = sv /\ bDlOK' = bDlOK
        BY <4>1 DEF Reads
      <4>3. Untouched /\ ~Zombie'
        BY <1>2, <4>2, Unmoves
      <4>. QED
        BY <2>1, <4>1, <4>2, <4>3, ServesLoses
    <3>5. CASE ReceiveUnwritable
      BY <1>1, <2>1, <3>5, ServesUnwritable
    <3>6. CASE ReceiveBlock
      BY <1>1, <2>1, <3>6, ServesBlock
    <3>7. CASE ReceiveEOF
      BY <1>1, <2>1, <3>7, ServesEOF
    <3>. QED
      BY <2>2, <3>1, <3>2, <3>3, <3>4, <3>5, <3>6, <3>7 DEF Receive
  <2>3. CASE Lose \/ UNCHANGED vars
    <3>1. cl' = cl /\ up' = up /\ sv' = sv /\ bDlOK' = bDlOK
      BY <2>3 DEF Lose, vars
    <3>2. \E d : Loses(d)
      BY <1>2, <2>3, TakenFromDown, LosesNone DEF Lose, vars
    <3>3. Untouched /\ ~Zombie'
      BY <1>2, <3>1, Unmoves
    <3>. QED
      BY <2>1, <3>1, <3>2, <3>3, ServesLoses
  <2>4. CASE WWWDone \/ WWWFail
    BY <2>1, <2>4, ServesWWW
  <2>5. ~GivesUp
    BY <1>2 DEF GivesUp, Zombie
  <2>6. ASSUME NEW level, ExecuteBatch(level) PROVE Fits' /\ Serves' /\ Written'
    BY <2>1, <2>6, ServesExecutes
  <2>7. ASSUME NEW level, IgnoreBatch(level) PROVE FALSE
    <3>1. AtFirst /\ Alone
      BY <2>1 DEF Attends, AtFirst, Undisturbed
    <3>. QED
      BY <2>7, <3>1, AloneHears
  <2>8. CASE ResendGamestate
    BY <2>1, <2>8, ServesResend
  <2>9. CASE WriteRedirect \/ WriteBad \/ WriteBlock
    BY <2>1, <2>9, ServesWriteRedirect, ServesWriteBad, ServesWriteBlock
  <2>10. CASE Quiet
    <3>1. /\ cl' = cl /\ bDlOK' = bDlOK /\ up' = up /\ down' = down
          /\ Untouched /\ sv'.state = sv.state
      BY <1>2, <2>10, QuietIs DEF Stays
    <3>2. Loses(0) /\ ~Zombie'
      BY <1>2, <3>1, LosesNone DEF Zombie
    <3>. QED
      BY <2>1, <3>1, <3>2, ServesLoses
  <2>11. ~NewLevel
    BY <1>1, <1>2, NewLevelIs, TypesGive
  <2>. QED
    BY <2>2, <2>3, <2>4, <2>5, <2>6, <2>7, <2>8, <2>9, <2>10, <2>11 DEF Next, ExecutePacket
<1>. QED
  BY <1>3, <1>4

LEMMA ServesInit == Init => Fits /\ Serves /\ Written
<1>. SUFFICES ASSUME Init PROVE Fits /\ Serves /\ Written
  OBVIOUS
<1>1. sv = NewServer /\ cl = NewClient /\ up = <<>>
  BY DEF Init
<1>2. F = None /\ cl.download = None /\ cl.written = <<>>
  BY <1>1 DEF NewClient, F
<1>3. sv.state = "connected" /\ ~sv.download
  BY <1>1 DEF NewServer
<1>4. Len(up) = 0 /\ (1 .. Len(up)) = {}
  BY <1>1
<1>5. Bounds
  BY CleanInit DEF Tidy
<1>6. Fits
  BY <1>3, <1>4, <1>5 DEF Fits, Zombie, WindowFits
<1>. QED
  BY <1>2, <1>6 DEF Serves, Written

-----------------------------------------------------------------------------
(* The inductive invariant. *)

LEMMA InitIsSound == Init => IInv
<1>. SUFFICES ASSUME Init PROVE IInv
  OBVIOUS
<1>1. ~cl.bWWWDl /\ cl.mode # "loading"
  BY DEF Init, NewClient
<1>. QED
  BY <1>1, BaseInit, CleanInit, AloneInit, ServesInit DEF IInv, Urls, LoadsWithEverything

LEMMA NextIsSound == IInv /\ [Next]_vars => IInv'
<1>. SUFFICES ASSUME IInv, Next \/ UNCHANGED vars PROVE IInv'
  OBVIOUS
<1>0. /\ Base /\ Urls /\ mixed # "first" /\ LoadsWithEverything
      /\ Clean => Gamestates /\ Tidy
      /\ AtFirst => Alone
      /\ Undisturbed => Fits
      /\ Undisturbed /\ Connected => Serves /\ Written
  BY DEF IInv
<1>1. Base' /\ Urls'
  BY <1>0, BaseNext, UrlsNext
<1>2. mixed' # "first" /\ (Clean' => Gamestates' /\ Tidy')
  BY <1>0, CleanNext
<1>3. AtFirst' => Alone'
  BY <1>0, AloneNext
<1>4. LoadsWithEverything'
  BY <1>0, LoadsNext
<1>5. (Undisturbed' => Fits') /\ (Undisturbed' /\ Connected' => Serves' /\ Written')
  BY <1>0, ServesNext
<1>. QED
  BY <1>1, <1>2, <1>3, <1>4, <1>5 DEF IInv

LEMMA InvariantOfSpec == Spec => []IInv
  BY InitIsSound, NextIsSound, PTL DEF Spec

(* Within its bounds no counter passes the block after the empty one.      *)
LEMMA CountersAreSmall ==
  ASSUME Types, Bounds
  PROVE  /\ sv.downloadClientBlock \in Counter /\ sv.downloadXmitBlock \in Counter
         /\ sv.top \in [Files -> Counter] /\ cl.downloadBlock \in Counter
<1>1. sv.top \in [Files -> Nat]
  BY DEF Types, Server
<1>. QED
  BY <1>1 DEF Bounds, N

(* The types hold, the window of SV_WriteDownloadToClient reads at most    *)
(* the empty block and, as long as no block was taken for another file's,  *)
(* no counter of SV_NextDownload_f, SV_WriteDownloadToClient and           *)
(* CL_ParseDownload passes the block after it.                             *)
THEOREM TypesHold == Spec => []TypeOK
<1>1. IInv => TypeOK
  <2>. SUFFICES ASSUME IInv PROVE TypeOK
    OBVIOUS
  <2>1. Types
    BY DEF IInv, Base
  <2>2. Undisturbed \/ (mixed = "no" /\ Connected) => Bounds
    BY DEF IInv, Fits, Tidy, Clean
  <2>3. Undisturbed \/ (mixed = "no" /\ Connected) =>
          /\ sv.downloadClientBlock \in Counter /\ sv.downloadXmitBlock \in Counter
          /\ sv.top \in [Files -> Counter] /\ cl.downloadBlock \in Counter
    BY <2>1, <2>2, CountersAreSmall
  <2>. QED
    BY <2>1, <2>3 DEF Types, TypeOK
<1>. QED
  BY <1>1, InvariantOfSpec, PTL

(* CL_ParseDownload takes a block of the wrong file only when the window   *)
(* of SV_WriteDownloadToClient is sent again.                              *)
THEOREM RepeatsMix == Spec => []OnlyRepeatsMix
<1>1. IInv => OnlyRepeatsMix
  BY DEF IInv, OnlyRepeatsMix
<1>. QED
  BY <1>1, InvariantOfSpec, PTL

(* SV_NextDownload_f and SV_WWWDownload_f never drop this client for a     *)
(* command that does not fit, whatever is lost or sent again.              *)
THEOREM ClientIsServed == Spec => []UndisturbedIsServed
<1>1. IInv => UndisturbedIsServed
  BY DEF IInv, Fits, Zombie, UndisturbedIsServed
<1>. QED
  BY <1>1, InvariantOfSpec, PTL

(* CL_DownloadsComplete does not load the level before a gamestate has     *)
(* found every pak in place.                                               *)
THEOREM LoadsWhenComplete == Spec => []LoadsWithEverything
<1>1. IInv => LoadsWithEverything
  BY DEF IInv
<1>. QED
  BY <1>1, InvariantOfSpec, PTL

(* What CL_ParseDownload renames into place is the file, block for block.  *)
THEOREM FilesAreWhole == Spec => FetchedIsWhole
<1>1. IInv /\ [Next]_vars => [ReceiveEOF /\ Undisturbed' => have' = have \cup {cl.downloadName}]_vars
  <2>. SUFFICES ASSUME IInv, Next \/ UNCHANGED vars, ReceiveEOF, Undisturbed'
                PROVE  have' = have \cup {F}
    BY DEF F
  <2>1. Base /\ Undisturbed /\ mixed' = "no"
    BY UndisturbedBefore DEF IInv
  <2>2. Connected
    BY DEF ReceiveEOF, Arrives
  <2>3. Attends
    <3>1. Clean /\ AtFirst
      BY <2>1, <2>2 DEF Clean, AtFirst, Undisturbed
    <3>. QED
      BY <2>1, <2>2, <3>1 DEF IInv, Attends
  <2>. QED
    BY <2>1, <2>3, ServesEOF
<1>. QED
  BY <1>1, InvariantOfSpec, PTL DEF Spec, FetchedIsWhole
=============================================================================

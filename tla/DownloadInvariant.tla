--------------------------- MODULE DownloadInvariant ---------------------------
(***************************************************************************)
(* What the proofs of Download say of states and of steps: the inductive   *)
(* invariant IInv, in three layers, and the steps by what they change.     *)
(*                                                                         *)
(* Base holds of every state: the messages and the buffers are of files    *)
(* that were asked for, in the order they were sent.  As long as no block  *)
(* was taken for another file's, Tidy says what the two ends are about:    *)
(* the client waits for a gamestate, is done with one file and asks for    *)
(* another one, or fetches a file (Phases).  On the first level Alone says *)
(* that at most one gamestate is under way and the server ignores no       *)
(* batch; if besides nothing was mixed up, every batch fits the state the  *)
(* server will be in when its turn comes (Fits), and what the client waits *)
(* for is what the server sends (Serves).                                  *)
(***************************************************************************)
EXTENDS Download

-----------------------------------------------------------------------------
(* What the client says. *)

(* What the client has to say of the next file: it wants it, or it wants   *)
(* nothing more.                                                           *)
Asks(f) == IF f = None THEN Cmd("donedl", 0) ELSE Cmd("download", f)

(* The commands of one batch. *)
NextdlOf(n) == <<Cmd("nextdl", n)>>
AskFor(f)   == <<Asks(f)>>
StopAsk(f)  == <<Cmd("stopdl", 0), Asks(f)>>
DoneAsk(f)  == <<Cmd("wwwdl_done", 0), Asks(f)>>
Ack         == <<Cmd("wwwdl_ack", 0)>>
Fail        == <<Cmd("wwwdl_fail", 0)>>
AckFail     == <<Cmd("wwwdl_ack", 0), Cmd("wwwdl_fail", 0)>>
Stop        == <<Cmd("stopdl", 0)>>
Done        == <<Cmd("wwwdl_done", 0)>>

(* All that the client ever says at once. *)
IsBatch(b) ==
  \/ \E n \in Nat : b = NextdlOf(n)
  \/ \E f \in {None} \cup Files : b \in {AskFor(f), StopAsk(f), DoneAsk(f)}
  \/ b \in {Ack, Fail, AckFail, Stop, Done}

-----------------------------------------------------------------------------
(* What holds of every state. *)

Types ==
  /\ sv \in Server /\ serverId \in 1 .. MaxLevels /\ bDlOK \in BOOLEAN
  /\ cl \in Client /\ have \subseteq Files /\ mixed \in {"no", "first", "again"}
  /\ down \in Seq(Message) /\ Len(down) <= MaxInFlight
  /\ up \in Seq(Batch)

(* The file the client waits for, and the number of the block. *)
F == cl.downloadName
N == cl.downloadBlock

(* Who waits for a file has yet to restart, and will not ask for it again. *)
Restarts == Connected /\ F # None => cl.downloadRestart = TRUE /\ F \notin cl.downloadList

W == MAX_DOWNLOAD_WINDOW

(* Of a file's part, or of where it is. *)
Data(m) == m.kind \in {"block", "redirect"}

(* What is sent for the first time comes after all that was sent before. *)
Ordered ==
  \A i, j \in 1 .. Len(down) :
    i < j /\ Data(down[i]) /\ Data(down[j]) /\ down[i].data.file = down[j].data.file
      => down[j].again \/ down[j].block > down[i].block

(* What is under way has been counted, and a redirect is block 0. *)
Sendable ==
  \A i \in 1 .. Len(down) : Data(down[i]) =>
    /\ down[i].data.file \in Files
    /\ down[i].block < sv.top[down[i].data.file]
    /\ (down[i].kind = "redirect" => down[i].block = 0)

(* Nothing is sent of a file the server lacks. *)
Tops == \A f \in Files : sv.top[f] > 0 => Blocks[f] > 0

(* The levels grow along the messages, and along the commands. *)
Stamps ==
  /\ \A i \in 1 .. Len(down) : /\ down[i].serverId >= cl.serverId /\ down[i].serverId >= 1
                               /\ down[i].serverId <= serverId
  /\ \A i, j \in 1 .. Len(down) : i < j => down[i].serverId <= down[j].serverId
  /\ \A i \in 1 .. Len(up) : up[i].serverId <= cl.serverId
  /\ cl.serverId <= serverId

Batches == \A i \in 1 .. Len(up) : IsBatch(up[i].commands)

(* The buffers hold the file; all of them are filled, or all of the file   *)
(* is in them.                                                             *)
Window ==
  sv.download =>
    LET f == sv.downloadName IN
    /\ f \in Files /\ Blocks[f] > 0 /\ sv.downloadCurrentBlock <= Blocks[f] + 1
    /\ \A k \in Slots : k < sv.downloadCurrentBlock => sv.downloadBlocks[k].file = f
    /\ \/ sv.downloadCurrentBlock >= W
       \/ /\ sv.downloadCurrentBlock = Blocks[f] + 1 /\ sv.downloadClientBlock <= Blocks[f]
          /\ sv.downloadXmitBlock <= sv.downloadCurrentBlock
          /\ \A k \in Slots : k <= Blocks[f] => sv.downloadBlocks[k] = BlockOf(f, k)

Base ==
  /\ Types /\ ~sv.gamestate
  /\ Ordered /\ Sendable /\ Tops /\ Stamps /\ Restarts /\ Batches /\ Window

(* A redirect names a file. *)
Urls == cl.bWWWDl => cl.url # None

-----------------------------------------------------------------------------
(* As long as no block was taken for another file's. *)

Clean  == mixed = "no" /\ Connected
Zombie == sv.state = "zombie"

(* Parts of the file asked for and of others. *)
Own(m)      == Data(m) /\ m.data.file = F
Foreign(m)  == Data(m) /\ m.data.file # F
OwnBlock(m) == Own(m) /\ m.kind = "block"

NoOwn      == \A i \in 1 .. Len(down) : ~Own(down[i])
OwnComes   == \E i \in 1 .. Len(down) : OwnBlock(down[i])
Says(i, b) == up[i].commands = b

(* Nothing of the file asked for has come. *)
Fresh  == F = None \/ (N = 0 /\ ~cl.bWWWDl)
OnWeb  == F # None /\ cl.bWWWDl
Aborts == OnWeb /\ cl.bWWWDlAborting
Idle   == sv.downloadName = None /\ sv.lastCommand # "nextdl"

(* A gamestate comes last, and the server waits. *)
Gamestates ==
  \A i \in 1 .. Len(down) : down[i].kind = "gamestate" =>
    /\ i = Len(down) /\ ~Zombie /\ Idle
    /\ Len(up) = 0 \/ (F # None /\ cl.serverId < serverId)

(* The window holds the file's blocks. *)
Exact(f) ==
  \A b \in Nat :
    b < sv.downloadCurrentBlock /\ b >= sv.downloadCurrentBlock - W
      => sv.downloadBlocks[Slot(b)] = BlockOf(f, b)

(* The first j batches ask for the file, those up to m acknowledge its     *)
(* blocks up to n.                                                         *)
Conv(f, n, j, m) ==
  /\ j <= m /\ m <= Len(up) /\ m - j <= n
  /\ \A i \in Nat : 1 <= i /\ i <= j => Says(i, AskFor(f))
  /\ \A i \in Nat : j < i /\ i <= m => Says(i, NextdlOf(n - m + i - 1))

(* The server has sent the blocks up to n, and lacks c acknowledgements. *)
Reached(f, n, c, j) ==
  /\ n <= sv.downloadCurrentBlock /\ sv.downloadCurrentBlock <= Blocks[f] + 1
  /\ sv.downloadClientBlock + c <= n
  /\ sv.downloadCurrentBlock <= sv.downloadClientBlock + W
  /\ Exact(f) /\ sv.downloadXmitBlock <= sv.downloadCurrentBlock
  /\ ~sv.download => sv.downloadCurrentBlock = AtMost(W, Blocks[f] + 1)
  /\ j > 0 => sv.downloadClientBlock = 0

(* What the client says when it is done with a file. *)
Ending(m, e) ==
  \/ e = "ask" /\ m = Len(up) - 1 /\ Says(m + 1, AskFor(F))
  \/ e = "stop" /\ m = Len(up) - 1 /\ Says(m + 1, StopAsk(F))
  \/ e = "web" /\ m = Len(up) - 1 /\ Says(m + 1, DoneAsk(F))
  \/ e = "web" /\ m = Len(up) - 2 /\ Says(m + 1, Ack) /\ Says(m + 2, DoneAsk(F))

(* The server still is at file f, or has read that it is done, or has     *)
(* dropped the client.                                                     *)
Finishing(f, n, j, m, e) ==
  \/ Zombie
  \/ /\ sv.downloadName = f /\ (sv.download \/ n > 0 => Reached(f, n, m - j, j))
     /\ IF e = "ask" THEN n = Blocks[f] + 1 /\ m > j ELSE n <= Blocks[f]
  \/ /\ sv.downloadName = None /\ sv.lastCommand = "nextdl" /\ Len(up) = 1 /\ e = "ask"

(* The client is done with file f and asks for another one; the server is  *)
(* still at f.                                                             *)
Asking(f, n, j, m, e) ==
  /\ f # F /\ Conv(f, n, j, m) /\ Ending(m, e) /\ Fresh /\ NoOwn /\ sv.top[f] >= 1
  /\ Finishing(f, n, j, m, e)

(* A redirect is answered, or failed. *)
Answered(m) ==
  \/ m = Len(up)
  \/ cl.bWWWDl /\ m = Len(up) - 1 /\ Says(m + 1, Ack)
  \/ /\ cl.bWWWDl /\ cl.bWWWDlAborting /\ m = Len(up) - 1
     /\ Says(m + 1, Fail) \/ Says(m + 1, AckFail)
  \/ /\ cl.bWWWDl /\ cl.bWWWDlAborting /\ m = Len(up) - 2
     /\ Says(m + 1, Ack) /\ Says(m + 2, Fail)

(* The blocks under way are the file's, or lie behind. *)
OwnBlocks ==
  \A i \in 1 .. Len(down) : OwnBlock(down[i]) =>
    /\ down[i].block <= Blocks[F]
    /\ down[i].data = BlockOf(F, down[i].block) \/ down[i].block < N

(* They are of those the server has read. *)
OwnBelow ==
  \A i \in 1 .. Len(down) : OwnBlock(down[i]) => down[i].block < sv.downloadCurrentBlock

(* The file is the first of those the client lacks. *)
FirstMissing == F \notin have /\ \A g \in Files \ have : F <= g

(* The server is at the file, or has yet to read that it is wanted, or the *)
(* redirect was given up.                                                  *)
Serving(j, m) ==
  \/ Zombie
  \/ /\ sv.downloadName = F /\ OwnBelow
     /\ sv.download \/ N > 0 \/ OwnComes => Reached(F, N, m - j, j)
  \/ sv.downloadName = None /\ Fresh /\ NoOwn /\ j = Len(up)
  \/ sv.downloadName = None /\ Aborts /\ Len(up) = 0

(* The client waits for the file's block N. *)
Fetching(j, m) ==
  /\ F # None /\ N <= Blocks[F] /\ Conv(F, N, j, m) /\ Answered(m)
  /\ (j > 0 => FirstMissing) /\ OwnBlocks /\ Serving(j, m)

(* It waits for a gamestate. *)
Waiting == F = None /\ Len(up) = 0 /\ (Zombie \/ sv.downloadName = None)

Endings == {"ask", "stop", "web"}

(* What a client is about, which is one of three things. *)
Phases ==
  \/ Waiting
  \/ \E f \in Files, n, j, m \in Nat, e \in Endings : Asking(f, n, j, m, e)
  \/ \E j, m \in Nat : Fetching(j, m)

(* The parts of other files come first, and are not new. *)
Foreigns ==
  \A i \in 1 .. Len(down) : Foreign(down[i]) =>
    /\ down[i].again \/ down[i].block > 0
    /\ Fresh /\ \A k \in 1 .. Len(down) : k < i => ~Own(down[k])

(* Who fetches from the web was sent the redirect: it is not new. *)
Webbed ==
  OnWeb => /\ sv.top[F] >= 1
           /\ \A i \in 1 .. Len(down) : Own(down[i]) => down[i].again \/ down[i].block > 0

(* No block follows a redirect. *)
WebClient ==
  /\ OnWeb => \A i \in 1 .. Len(down) : down[i].kind # "block"
  /\ \A i, k \in 1 .. Len(down) : i < k /\ down[i].kind = "redirect" => down[k].kind # "block"
  /\ cl.bWWWDl => F # None
  /\ cl.bWWWDlAborting => cl.bWWWDl

RedirectComes == \E i \in 1 .. Len(down) : down[i].kind = "redirect"

(* Who has redirected the client has opened no file. *)
WebServer ==
  OnWeb \/ RedirectComes =>
    /\ ~sv.download /\ bDlOK
    /\ sv.bFallback => Aborts /\ sv.downloadName = None /\ Len(up) = 0

Bounds ==
  /\ sv.downloadClientBlock \in Counter /\ sv.downloadXmitBlock \in Counter
  /\ (\A f \in Files : sv.top[f] \in Counter) /\ N \in Counter

Tidy == Phases /\ Foreigns /\ Webbed /\ WebClient /\ WebServer /\ Bounds

NoGamestate == \A i \in 1 .. Len(down) : down[i].kind # "gamestate"
NoForeign   == \A i \in 1 .. Len(down) : ~Foreign(down[i])

-----------------------------------------------------------------------------
(* On the first level, whatever was mixed up. *)

AtFirst == serverId = 1 /\ Connected

GivesUpWeb(b) == b = Fail \/ b = AckFail
IsDone(b)  == b = AskFor(None) \/ b = StopAsk(None) \/ b = DoneAsk(None)

(* Before its first gamestate the client asks for nothing. *)
Unseen ==
  cl.serverId = 0 =>
    /\ F = None /\ ~cl.bWWWDl /\ Len(up) = 0
    /\ sv.downloadName = None /\ ~sv.download /\ ~sv.bFallback
    /\ \A i \in 1 .. Len(down) : ~Data(down[i])

(* At most one gamestate is under way: the first one, the one that follows *)
(* "donedl", or the one that follows a redirect given up.                  *)
Once ==
  \A i \in 1 .. Len(down) : down[i].kind = "gamestate" =>
    /\ \A k \in 1 .. Len(down) : down[k].kind = "gamestate" => k = i
    /\ Len(up) = 0
    /\ F # None => Aborts /\ i = Len(down) /\ sv.downloadName = None

(* What the client says last. *)
Farewells ==
  \A i \in 1 .. Len(up) :
    /\ up[i].serverId = 1
    /\ GivesUpWeb(up[i].commands) => i = Len(up) /\ Aborts
    /\ IsDone(up[i].commands) => i = Len(up) /\ F = None

Alone == Unseen /\ Once /\ Farewells /\ WebClient /\ WebServer

-----------------------------------------------------------------------------
(* On the first level, and nothing was mixed up. *)

IsNextdl(b) == \E n \in Nat : b = NextdlOf(n)
AsksNext(b) == \E f \in {None} \cup Files : b \in {AskFor(f), StopAsk(f), DoneAsk(f)}
EndsWeb(b)  == b \in {Fail, Done} \/ \E f \in {None} \cup Files : b = DoneAsk(f)

(* The server has redirected the client, or is about to again. *)
WebServed ==
  /\ sv.downloadName # None /\ sv.bWWWDl /\ ~sv.download
  /\ bDlOK /\ ~sv.bFallback /\ Blocks[sv.downloadName] > 0

(* The batch i is one the server can take when its turn comes. *)
BatchFits(i) ==
  /\ \A n \in Nat : up[i].commands = NextdlOf(n) =>
       /\ sv.download /\ n = sv.downloadClientBlock + i - 1 /\ n < sv.downloadCurrentBlock
       /\ \A k \in 1 .. Len(up) : k < i => IsNextdl(up[k].commands)
  /\ up[i].commands \in {Ack, AckFail} => i = 1 /\ WebServed
  /\ EndsWeb(up[i].commands) =>
       /\ WebServed
       /\ \/ i = 1 /\ sv.bWWWing
          \/ i = 2 /\ up[1].commands = Ack
  /\ AsksNext(up[i].commands) => \A k \in 1 .. Len(up) : i < k => up[k].commands = Stop

(* The window lies between what was acknowledged and what was read. *)
WindowFits ==
  sv.download =>
    /\ sv.downloadClientBlock <= sv.downloadCurrentBlock
    /\ sv.downloadCurrentBlock <= sv.downloadClientBlock + W
    /\ Exact(sv.downloadName) /\ sv.downloadXmitBlock <= sv.downloadCurrentBlock

Fits == ~Zombie /\ (\A i \in 1 .. Len(up) : BatchFits(i)) /\ WindowFits /\ Bounds

(* It wants the next file, and the server has yet to read that. *)
WantsNext ==
  /\ Len(up) > 0 /\ up[Len(up)].commands \in {AskFor(F), StopAsk(F), DoneAsk(F)}
  /\ N = 0 /\ ~cl.bWWWDl /\ NoOwn /\ sv.downloadName # F

(* It takes blocks, the server is at its file. *)
TakesBlocks ==
  /\ ~cl.bWWWDl /\ \A i \in 1 .. Len(up) : IsNextdl(up[i].commands)
  /\ sv.downloadName = None \/ sv.downloadName = F
  /\ IF sv.download THEN N = sv.downloadClientBlock + Len(up) ELSE N = 0
  /\ \A i \in 1 .. Len(down) : OwnBlock(down[i]) =>
       /\ sv.download /\ sv.downloadName = F /\ down[i].block < sv.downloadCurrentBlock
       /\ down[i].data = BlockOf(F, down[i].block) \/ down[i].block < N
  /\ \A i \in 1 .. Len(down) : Own(down[i]) /\ down[i].kind = "redirect" =>
       WebServed /\ sv.downloadName = F /\ Len(up) = 0

(* It fetches the file from the web, or has given that up. *)
TakesWeb ==
  /\ cl.bWWWDl /\ N = 0
  /\ \/ cl.bWWWDlAborting
     \/ /\ WebServed /\ sv.downloadName = F
        /\ \/ Len(up) = 0 /\ sv.bWWWing
           \/ Len(up) = 1 /\ up[1].commands = Ack

(* What the client waits for is one of these. *)
Serves == F # None => WantsNext \/ TakesBlocks \/ TakesWeb

(* What it has written is the file so far. *)
Written ==
  /\ F = None \/ N = 0 => cl.download = None /\ cl.written = <<>>
  /\ F # None /\ N > 0 =>
       /\ cl.download = F /\ Len(cl.written) = N
       /\ \A b \in 1 .. N : cl.written[b] = [file |-> F, part |-> b]

(* The server attends to the client. *)
Attends ==
  /\ Undisturbed /\ Connected /\ Gamestates /\ Tidy /\ Alone /\ Fits /\ Serves /\ Written

-----------------------------------------------------------------------------
(* The inductive invariant. *)

IInv ==
  /\ Base /\ Urls /\ mixed # "first" /\ LoadsWithEverything
  /\ Clean => Gamestates /\ Tidy
  /\ AtFirst => Alone
  /\ Undisturbed => Fits
  /\ Undisturbed /\ Connected => Serves /\ Written

-----------------------------------------------------------------------------
(* What steps do. *)

(* No command touches these. *)
Kept(s, t) ==
  /\ t.bWWWDl = s.bWWWDl /\ t.downloadCurrentBlock = s.downloadCurrentBlock
  /\ t.downloadXmitBlock = s.downloadXmitBlock /\ t.downloadEOF = s.downloadEOF
  /\ t.downloadBlocks = s.downloadBlocks /\ t.top = s.top

(* Nor do most touch these. *)
Unmoved(s, t) ==
  /\ t.downloadClientBlock = s.downloadClientBlock
  /\ t.bFallback = s.bFallback /\ t.gamestate = s.gamestate

Closed(t) == t.downloadName = None /\ ~t.download

(* "broken download" *)
Dropped(s, t) == Kept(s, t) /\ Unmoved(s, t) /\ Closed(t) /\ t.state = "zombie"

(* The gamestate is owed only while a batch is executed. *)
Settled(s, t) ==
  /\ t \in Server /\ ~t.gamestate
  /\ t.bWWWDl = s.bWWWDl /\ t.downloadCurrentBlock = s.downloadCurrentBlock
  /\ t.downloadXmitBlock = s.downloadXmitBlock /\ t.downloadEOF = s.downloadEOF
  /\ t.downloadBlocks = s.downloadBlocks /\ t.top = s.top
  /\ t.downloadClientBlock = s.downloadClientBlock /\ t.bFallback = s.bFallback
  /\ t.state = s.state /\ t.downloadName = s.downloadName /\ t.download = s.download
  /\ t.bWWWing = s.bWWWing /\ t.lastCommand = s.lastCommand

(* The batch before which the server is neither a zombie nor owes anything. *)
Executing(b) ==
  /\ sv \in Server /\ ~sv.gamestate /\ sv.state # "zombie"
  /\ Head(up).commands = b

(* What is asked for is granted; for nothing more, a gamestate. *)
Granted(f) ==
  /\ sv'.state # "zombie" /\ sv'.lastCommand # "nextdl"
  /\ sv'.bFallback = sv.bFallback
  /\ f # None => down' = down /\ sv'.downloadName = f /\ ~sv'.download
  /\ f = None => down' = Sent(Gamestate)

(* Nothing of the window changes. *)
Frame ==
  /\ sv' \in Server /\ Kept(sv, sv') /\ ~sv'.gamestate
  /\ sv'.downloadClientBlock = sv.downloadClientBlock

(* The redirect is given up: a gamestate; or the client is dropped. *)
GaveUp ==
  \/ /\ sv'.state = "zombie" /\ down' = down /\ sv'.bFallback = sv.bFallback
  \/ /\ sv'.state # "zombie" /\ down' = Sent(Gamestate) /\ sv'.lastCommand # "nextdl"

(* The first d messages are gone. *)
Loses(d) ==
  /\ down' \in Seq(Message) /\ d \in 0 .. Len(down) /\ Len(down') = Len(down) - d
  /\ \A i \in 1 .. Len(down') : down'[i] = down[i + d]

(* A message comes last. *)
Posts(msg) ==
  /\ down' \in Seq(Message) /\ Len(down') \in 1 .. MaxInFlight
  /\ down'[Len(down')] = msg
  /\ \E d \in 0 .. 1 : /\ Len(down') = Len(down) + 1 - d
                       /\ \A i \in 1 .. (Len(down') - 1) : down'[i] = down[i + d]

(* A batch comes last, of the client's level. *)
Adds(b) ==
  /\ up' \in Seq(Batch) /\ Len(up') = Len(up) + 1
  /\ \A i \in 1 .. Len(up) : up'[i] = up[i]
  /\ up'[Len(up')].commands = b /\ up'[Len(up')].serverId = cl'.serverId

(* The first batch is gone. *)
Takes ==
  /\ up' \in Seq(Batch) /\ Len(up) > 0 /\ Len(up') = Len(up) - 1
  /\ \A i \in 1 .. Len(up') : up'[i] = up[i + 1]

(* Two batches come last. *)
AddsBoth(b, c) ==
  /\ up' \in Seq(Batch) /\ Len(up') = Len(up) + 2
  /\ \A i \in 1 .. Len(up) : up'[i] = up[i]
  /\ up'[Len(up) + 1].commands = b /\ up'[Len(up) + 1].serverId = cl'.serverId
  /\ up'[Len(up')].commands = c /\ up'[Len(up')].serverId = cl'.serverId

(* No download changes these. *)
Elsewhere(c, d) ==
  /\ d \in Client
  /\ d.download = c.download /\ d.written = c.written /\ d.url = c.url /\ d.serverId = c.serverId

(* The next file of the list is asked for, or none. *)
NextFile(c, d) ==
  /\ Elsewhere(c, d) /\ d.mode = c.mode
  /\ d.bWWWDl = c.bWWWDl /\ d.bWWWDlAborting = c.bWWWDlAborting
  /\ \/ /\ d.downloadName = None /\ d.downloadBlock = c.downloadBlock
     \/ /\ d.downloadName \in c.downloadList /\ d.downloadBlock = 0
        /\ d.downloadRestart /\ d.downloadName \notin d.downloadList
        /\ d.downloadList \subseteq c.downloadList

(* A message is read. *)
Reads(kind) ==
  /\ Loses(1) /\ Len(down) > 0 /\ down[1] \in Message /\ down[1].kind = kind
  /\ Head(down) = down[1] /\ Len(down') <= MaxInFlight
  /\ sv' = sv /\ serverId' = serverId /\ bDlOK' = bDlOK /\ Connected

(* The client stays as it is but for the wish for a file. *)
Asked(f) ==
  /\ cl' \in Client /\ cl'.mode = "connected" /\ F' = f
  /\ \/ f = None
     \/ /\ f \in Files /\ N' = 0 /\ cl'.downloadRestart /\ f \notin cl'.downloadList

(* What a redirect is answered. *)
Answer(begins) == IF begins THEN Ack ELSE AckFail

(* A block is read. *)
Taken == Reads("block") /\ F # None /\ down[1].block = N /\ mixed' = Mixes(down[1])

(* The web transfer is over; the messages stay. *)
OffLine == sv' = sv /\ serverId' = serverId /\ bDlOK' = bDlOK /\ down' = down /\ mixed' = mixed

(* The client stays as it is. *)
Stays == serverId' = serverId /\ bDlOK' = bDlOK /\ cl' = cl /\ have' = have /\ mixed' = mixed

(* The head of the batches is taken. *)
TakesPacket(level) ==
  /\ Takes /\ Stays /\ sv.state # "zombie" /\ up[1] \in Batch /\ Head(up) = up[1]
  /\ level \in {up[1].serverId, cl.serverId}

(* Nothing of the download changes but perhaps the state. *)
Untouched ==
  /\ sv' \in Server /\ sv'.gamestate = sv.gamestate
  /\ sv'.bWWWDl = sv.bWWWDl /\ sv'.downloadCurrentBlock = sv.downloadCurrentBlock
  /\ sv'.downloadXmitBlock = sv.downloadXmitBlock /\ sv'.downloadEOF = sv.downloadEOF
  /\ sv'.downloadBlocks = sv.downloadBlocks /\ sv'.top = sv.top
  /\ sv'.downloadClientBlock = sv.downloadClientBlock /\ sv'.bFallback = sv.bFallback
  /\ sv'.downloadName = sv.downloadName /\ sv'.download = sv.download
  /\ sv'.bWWWing = sv.bWWWing

(* The server writes of a file to a client it has not dropped. *)
Writing ==
  /\ Stays /\ up' = up /\ sv.state # "zombie" /\ sv'.state = sv.state
  /\ sv'.lastCommand = sv.lastCommand /\ ~sv'.gamestate = ~sv.gamestate
  /\ sv.downloadName \in Files /\ sv.downloadName # None /\ sv' \in Server

(* The message's number is remembered as the greatest sent of the file. *)
TopsUp(f, n) ==
  /\ sv'.top[f] = AtLeast(sv.top[f], n)
  /\ \A g \in Files \ {f} : sv'.top[g] = sv.top[g]

(* Blocks c to e - 1 of f are read into the buffers. *)
ReadInto(f, c, e, old) ==
  [k \in Slots |-> LET Read == {b \in c .. (e - 1) : Slot(b) = k}
                   IN  IF Read = {} THEN old[k]
                       ELSE BlockOf(f, CHOOSE b \in Read : \A o \in Read : o <= b)]

(* The counters from which a block is sent: those of a file just opened    *)
(* are zero.                                                               *)
Starts(c, k, x) ==
  IF sv.download
  THEN c = sv.downloadCurrentBlock /\ k = sv.downloadClientBlock /\ x = sv.downloadXmitBlock
  ELSE c = 0 /\ k = 0 /\ x = 0

(* The window of f is filled from block c on, and block b is sent. *)
Fills(f, c, e) ==
  /\ \A k \in Slots : \/ sv'.downloadBlocks[k] = sv.downloadBlocks[k]
                      \/ sv'.downloadBlocks[k].file = f
  /\ \A k \in Slots : c <= k /\ k < e => sv'.downloadBlocks[k].file = f
  /\ \A b \in Nat : c <= b /\ b < e /\ b >= e - W => sv'.downloadBlocks[Slot(b)] = BlockOf(f, b)
  /\ \A b \in Nat : b < c /\ b >= e - W => sv'.downloadBlocks[Slot(b)] = sv.downloadBlocks[Slot(b)]
  /\ (e <= c => \A k \in Slots : sv'.downloadBlocks[k] = sv.downloadBlocks[k])

(* Block b of file f is sent, the window being c, k and x before. *)
Sends(f, c, k, x, b) ==
  /\ Writing /\ Blocks[f] > 0 /\ (sv.download \/ ~bDlOK \/ sv.bFallback)
  /\ Starts(c, k, x)
  /\ sv'.download /\ sv'.downloadName = f /\ sv'.bWWWing = sv.bWWWing
  /\ (sv.download => sv'.bFallback = sv.bFallback /\ sv'.bWWWDl = sv.bWWWDl)
  /\ (~sv.download => ~sv'.bFallback /\ ~sv'.bWWWDl)
  /\ sv'.downloadClientBlock = k
  /\ sv'.downloadCurrentBlock = AtLeast(c, AtMost(k + W, Blocks[f] + 1))
  /\ k # sv'.downloadCurrentBlock
  /\ b = (IF x = sv'.downloadCurrentBlock THEN k ELSE x)
  /\ sv'.downloadXmitBlock = b + 1
  /\ TopsUp(f, b + 1)
  /\ Fills(f, c, sv'.downloadCurrentBlock)
  /\ \E msg \in Message :
       /\ down' = Sent(msg) /\ msg.kind = "block" /\ msg.block = b
       /\ msg.data = sv'.downloadBlocks[Slot(b)] /\ msg.again = (b < sv.top[f])
       /\ msg.serverId = serverId

(* Whatever comes to the batches is one. *)
Grows ==
  \/ up' = up
  \/ \E b : IsBatch(b) /\ Adds(b)
  \/ \E b, c : IsBatch(b) /\ IsBatch(c) /\ AddsBoth(b, c)

(* The parts of files under way are some of those there were, in order. *)
Follows(d) ==
  /\ d \in Nat /\ Len(down') \in Nat /\ Len(down) \in Nat
  /\ \A i \in 1 .. Len(down') : Data(down'[i]) => i + d \in 1 .. Len(down) /\ down'[i] = down[i + d]

(* The batches so far stay where they are. *)
Extends(k) ==
  /\ up' \in Seq(Batch) /\ Len(up) \in Nat /\ Len(up') = Len(up) + k
  /\ \A i \in Nat : 1 <= i /\ i <= Len(up) => up'[i] = up[i]

(* A message is lost or passed over, a second or a level passes. *)
Steady ==
  /\ (\E d : Follows(d)) /\ cl' = cl /\ have' = have /\ up' = up /\ bDlOK' = bDlOK
  /\ Kept(sv, sv') /\ sv'.downloadClientBlock = sv.downloadClientBlock
  /\ sv'.downloadName = sv.downloadName /\ sv'.download = sv.download
  /\ sv'.bFallback = sv.bFallback /\ sv'.lastCommand = sv.lastCommand
  /\ (Zombie' <=> Zombie)

(* A batch is executed, and what the client is about goes on. *)
Proceeds ==
  /\ Gamestates' /\ Phases' /\ (\E d : Follows(d)) /\ sv'.top = sv.top
  /\ sv'.downloadXmitBlock = sv.downloadXmitBlock /\ sv'.downloadClientBlock \in Counter
  /\ (sv'.download => sv.download)
  /\ \/ sv'.bFallback = sv.bFallback
     \/ Aborts /\ sv'.downloadName = None /\ Len(up') = 0

(* It is the first batch's turn. *)
Turn(level) ==
  /\ ExecuteBatch(level) /\ Takes /\ Stays /\ ~Zombie /\ NoGamestate
  /\ up \in Seq(Batch) /\ Len(up) \in Nat /\ Len(up) > 0 /\ Executing(up[1].commands)
  /\ Len(up') = Len(up) - 1
  /\ \A i \in Nat : 1 <= i /\ i <= Len(up) - 1 => up'[i] = up[i + 1]

(* What a batch does whose turn it is. *)
RunsNextdl(n) ==
  /\ n = sv.downloadClientBlock /\ sv.download /\ n < sv.downloadCurrentBlock
  /\ down' = down /\ sv'.bFallback = sv.bFallback /\ sv'.bWWWing = sv.bWWWing
  /\ \/ /\ Closed(sv') /\ sv'.downloadClientBlock = n
        /\ n = Blocks[sv.downloadName] /\ sv.downloadCurrentBlock = n + 1
     \/ /\ sv'.downloadClientBlock = n + 1 /\ sv'.downloadName = sv.downloadName /\ sv'.download

RunsAck ==
  /\ WebServed /\ sv'.bWWWing /\ sv'.downloadClientBlock = sv.downloadClientBlock
  /\ sv'.downloadName = sv.downloadName /\ ~sv'.download /\ sv'.bFallback = sv.bFallback
  /\ down' = down

RunsAsk(f) ==
  /\ sv'.downloadClientBlock = sv.downloadClientBlock
  /\ IF f = None THEN /\ sv'.download => sv.download /\ sv'.downloadName = sv.downloadName
                      /\ down' = Sent(Gamestate)
                 ELSE down' = down /\ sv'.downloadName = f /\ ~sv'.download

RunsOther ==
  /\ sv'.downloadClientBlock = sv.downloadClientBlock /\ Closed(sv')
  /\ down' = down \/ down' = Sent(Gamestate)
=============================================================================

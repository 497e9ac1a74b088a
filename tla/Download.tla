------------------------------- MODULE Download ------------------------------
(***************************************************************************)
(* The files a client misses, fetched from the server before it loads the  *)
(* level.  The server sends a file in numbered blocks, at most a window of *)
(* them ahead of the client, and the window again after a quiet second; or *)
(* it redirects the client to a web server.  Messages to the client are    *)
(* lost but neither repeated nor reordered (LossyChannel), its commands    *)
(* are executed in order and once (ReliableCommands).                      *)
(*                                                                         *)
(* A block carries its number and what its buffer holds: the file it was   *)
(* read from and the part of it, 0 for the empty block at the end.  The    *)
(* client cannot see the file.  A message that holds several blocks is     *)
(* those blocks in a row.  What the data rate allows and when a second has *)
(* passed is left to chance (WriteBlock, Quiet).                           *)
(***************************************************************************)
EXTENDS Integers, Sequences, SequencesExt

CONSTANTS
  Blocks,               \* the referenced paks: the blocks of each, 0 for one the server lacks
  Held,                 \* what the client may hold of them at first: sets of paks
  MAX_DOWNLOAD_WINDOW,
  SHORT,                \* the numbers a short holds, 65536
  MaxLevels,            \* bound of this model: levels
  MaxInFlight           \* bound of this model: messages under way to the client

ASSUME DownloadAssumption ==
  /\ Blocks \in Seq(Nat) /\ Held \subseteq SUBSET DOMAIN Blocks
  /\ MAX_DOWNLOAD_WINDOW \in Nat \ {0}
  /\ SHORT \in Nat /\ SHORT % 2 = 0 /\ MAX_DOWNLOAD_WINDOW < SHORT \div 2
  /\ MaxLevels \in Nat \ {0} /\ MaxInFlight \in Nat \ {0}

VARIABLES
  sv,        \* the download in the server's client_t
  serverId,  \* sv.serverId, the level
  bDlOK,     \* the client takes redirects (cl_wwwDownload)
  cl,        \* the download in the client's clc and cls
  have,      \* the paks the client holds whole
  mixed,     \* how a wrong file's part was first taken: "no", "first" or "again"
  down, up   \* messages to the client, batches of commands to the server

vars == <<sv, serverId, bDlOK, cl, have, mixed, down, up>>

Files == DOMAIN Blocks
Slots == 0 .. (MAX_DOWNLOAD_WINDOW - 1)
Slot(b) == b % MAX_DOWNLOAD_WINDOW
None == 0

(* Numbers of blocks, the empty one and the one after it included. *)
Longest == CHOOSE l \in {0} \cup {Blocks[f] : f \in Files} : \A f \in Files : Blocks[f] <= l
Counter == 0 .. (Longest + 1)

(* Bound of this model: the numbers that are blocks when they are written  *)
(* in a short.  The next one reads as -1, a redirect; the window never     *)
(* gets there, as the client takes no block from SHORT \div 2 on.          *)
Numbers == 0 .. (SHORT - 2)

Words   == {"nextdl", "download", "stopdl", "donedl", "wwwdl_ack", "wwwdl_done", "wwwdl_fail"}
Part    == [file : {None} \cup Files, part : Nat]
Command == [cmd : Words, arg : Nat]
(* again: this was sent before. *)
Message == [kind : {"block", "bad", "redirect", "gamestate"}, block : Numbers, data : Part,
            again : BOOLEAN, serverId : Nat]
Batch   == [commands : Seq(Command), serverId : Nat]

Server == [state : {"connected", "primed", "zombie"}, downloadName : {None} \cup Files,
           download : BOOLEAN, bWWWDl : BOOLEAN, bWWWing : BOOLEAN, bFallback : BOOLEAN,
           downloadCurrentBlock : Counter, downloadClientBlock : Nat, downloadXmitBlock : Nat,
           downloadEOF : BOOLEAN, downloadBlocks : [Slots -> Part],
           quiet : BOOLEAN, top : [Files -> Nat], lastCommand : {""} \cup Words, gamestate : BOOLEAN]
Client == [mode : {"connected", "loading", "dropped", "garbled"},
           downloadName : {None} \cup Files, downloadList : SUBSET Files,
           downloadRestart : BOOLEAN, downloadBlock : Nat,
           download : {None} \cup Files, written : Seq(Part),
           bWWWDl : BOOLEAN, bWWWDlAborting : BOOLEAN, url : {None} \cup Files,
           serverId : Nat]

Connected == cl.mode = "connected"

(* No block of another file was taken for the one asked for, and the level *)
(* has not changed.                                                        *)
Undisturbed == mixed = "no" /\ serverId = 1

(* The types, and what bounds the buffers on both sides.  The window never *)
(* reads past the empty block, and as long as no block was taken for       *)
(* another file's no counter passes the block after it.                    *)
TypeOK ==
  /\ sv \in Server /\ serverId \in 1 .. MaxLevels /\ bDlOK \in BOOLEAN
  /\ cl \in Client /\ have \subseteq Files /\ mixed \in {"no", "first", "again"}
  /\ down \in Seq(Message) /\ Len(down) <= MaxInFlight
  /\ up \in Seq(Batch)
  /\ Undisturbed \/ (mixed = "no" /\ Connected) =>
       /\ sv.downloadClientBlock \in Counter /\ sv.downloadXmitBlock \in Counter
       /\ sv.top \in [Files -> Counter] /\ cl.downloadBlock \in Counter

-----------------------------------------------------------------------------
Cmd(cmd, arg) == [cmd |-> cmd, arg |-> arg]

Msg(kind, block, data, again) ==
  [kind |-> kind, block |-> block, data |-> data, again |-> again, serverId |-> serverId]

Gamestate == Msg("gamestate", 0, [file |-> None, part |-> 0], FALSE)

(* A message joins those under way; with MaxInFlight of them the oldest is *)
(* lost.                                                                   *)
Sent(msg) ==
  IF Len(down) < MaxInFlight THEN Append(down, msg) ELSE Append(Tail(down), msg)

Contents(f) == [b \in 1 .. Blocks[f] |-> [file |-> f, part |-> b]]

(* The block b of file f; the one after its last is empty and ends it. *)
BlockOf(f, b) == [file |-> f, part |-> IF b < Blocks[f] THEN b + 1 ELSE 0]

Lowest(S) == CHOOSE x \in S : \A y \in S : x <= y
AtMost(a, b) == IF a < b THEN a ELSE b
AtLeast(a, b) == IF a < b THEN b ELSE a

-----------------------------------------------------------------------------
(* The client asks. *)

(* Mutant: without a restart of the file system and a new gamestate. *)
LoadsAtOnce(c) == [c |-> [c EXCEPT !.mode = "loading"], commands |-> <<>>]

DownloadsComplete(c) ==
  IF c.downloadRestart
  THEN [c |-> [c EXCEPT !.downloadRestart = FALSE, !.downloadName = None],
        commands |-> <<Cmd("donedl", 0)>>]
  ELSE [c |-> [c EXCEPT !.mode = "loading"], commands |-> <<>>]

BeginDownload(c, f) ==
  [c |-> [c EXCEPT !.downloadName = f, !.downloadBlock = 0, !.downloadRestart = TRUE,
                   !.downloadList = @ \ {f}],
   commands |-> <<Cmd("download", f)>>]

NextDownload(c) ==
  IF c.downloadList = {} THEN DownloadsComplete(c)
  ELSE BeginDownload(c, Lowest(c.downloadList))

(* FS_ComparePaks: what is missing, wrong files included. *)
InitDownloads(c) ==
  NextDownload([c EXCEPT !.bWWWDl = FALSE, !.bWWWDlAborting = FALSE,
                         !.downloadName = None, !.downloadRestart = FALSE,
                         !.downloadList = Files \ have])

(* The commands of one batch go into the same packets. *)
Stamped(batches, level) ==
  [i \in DOMAIN batches |-> [commands |-> batches[i], serverId |-> level]]

Batched(batches) == up \o Stamped(batches, cl.serverId)

Nonempty(commands) == IF commands = <<>> THEN <<>> ELSE <<commands>>

-----------------------------------------------------------------------------
(* The client reads the next message, unless it is lost. *)

Arrives(kind) ==
  /\ Connected /\ down # <<>> /\ Head(down).kind = kind
  /\ down' = Tail(down)
  /\ UNCHANGED <<sv, serverId, bDlOK>>

(* The network loses it. *)
Lose ==
  /\ down # <<>> /\ down' = Tail(down)
  /\ UNCHANGED <<sv, serverId, bDlOK, cl, have, mixed, up>>

ReceiveGamestate ==
  /\ Arrives("gamestate")
  /\ LET next == InitDownloads([cl EXCEPT !.serverId = Head(down).serverId])
     IN  /\ cl' = next.c
         /\ up' = up \o Stamped(Nonempty(next.commands), Head(down).serverId)
  /\ UNCHANGED <<have, mixed>>

(* Nothing was asked for: "stopdl", and what follows is read as commands *)
(* of the server's.                                                      *)
ReceiveUnrequested ==
  /\ \E kind \in {"block", "bad", "redirect"} : Arrives(kind)
  /\ cl.downloadName = None
  /\ cl' = [cl EXCEPT !.mode = "garbled"]
  /\ up' = Batched(<< <<Cmd("stopdl", 0)>> >>)
  /\ UNCHANGED <<have, mixed>>

Mixes(m) == IF mixed # "no" \/ m.data.file = cl.downloadName THEN mixed
            ELSE IF m.again THEN "again" ELSE "first"

(* begins: DL_BeginDownload works, or the redirect was not refused. *)
ReceiveRedirect(begins) ==
  /\ Arrives("redirect") /\ cl.downloadName # None
  /\ \/ /\ cl.bWWWDl /\ begins
        /\ UNCHANGED <<cl, up, mixed>>
     \/ /\ ~cl.bWWWDl
        /\ cl' = [cl EXCEPT !.bWWWDl = TRUE, !.url = Head(down).data.file,
                            !.bWWWDlAborting = IF begins THEN @ ELSE TRUE]
        /\ up' = Batched(<< <<Cmd("wwwdl_ack", 0)>> \o
                            (IF begins THEN <<>> ELSE <<Cmd("wwwdl_fail", 0)>>) >>)
        /\ mixed' = Mixes(Head(down))
  /\ UNCHANGED have

(* The illegal size: ERR_DROP. *)
ReceiveBad ==
  /\ Arrives("bad") /\ cl.downloadName # None
  /\ cl' = [cl EXCEPT !.mode = "dropped"]
  /\ UNCHANGED <<have, mixed, up>>

(* MSG_ReadShort of what MSG_WriteShort wrote. *)
Signed(n) == IF n < SHORT \div 2 THEN n ELSE n - SHORT

(* Mutant: a block past a gap will do. *)
ExpectsOrLater == Signed(Head(down).block) >= cl.downloadBlock

Expects == Signed(Head(down).block) = cl.downloadBlock

(* Mutant: every block is acknowledged. *)
AcknowledgesAll ==
  /\ Arrives("block") /\ cl.downloadName # None /\ ~Expects
  /\ up' = Batched(<< <<Cmd("nextdl", Head(down).block)>> >>)
  /\ UNCHANGED <<cl, have, mixed>>

ReceiveOther ==
  /\ Arrives("block") /\ cl.downloadName # None /\ ~Expects
  /\ UNCHANGED <<cl, have, mixed, up>>

(* FS_SV_FOpenFileWrite fails. *)
ReceiveUnwritable ==
  /\ Arrives("block") /\ cl.downloadName # None /\ Expects /\ cl.download = None
  /\ LET next == NextDownload(cl)
     IN  cl' = next.c /\ up' = Batched(<< <<Cmd("stopdl", 0)>> \o next.commands >>)
  /\ mixed' = Mixes(Head(down))
  /\ UNCHANGED have

(* The file is opened under the name of the moment. *)
Handle == IF cl.download = None THEN cl.downloadName ELSE cl.download

Nextdl == <<Cmd("nextdl", cl.downloadBlock)>>

ReceiveBlock ==
  /\ Arrives("block") /\ cl.downloadName # None /\ Expects
  /\ Head(down).data.part # 0
  /\ cl' = [cl EXCEPT !.download = Handle, !.written = Append(@, Head(down).data),
                      !.downloadBlock = @ + 1]
  /\ up' = Batched(<<Nextdl>>)
  /\ mixed' = Mixes(Head(down))
  /\ UNCHANGED have

(* The file is renamed; two packets leave before the next one is asked for. *)
ReceiveEOF ==
  /\ Arrives("block") /\ cl.downloadName # None /\ Expects
  /\ Head(down).data.part = 0
  /\ have' = IF Handle = cl.downloadName /\ cl.written = Contents(cl.downloadName)
             THEN have \cup {cl.downloadName} ELSE have
  /\ LET next == NextDownload([cl EXCEPT !.download = None, !.written = <<>>,
                                         !.downloadBlock = @ + 1, !.downloadName = None])
     IN  cl' = next.c /\ up' = Batched(<<Nextdl>> \o Nonempty(next.commands))
  /\ mixed' = Mixes(Head(down))

Downloading == Connected /\ cl.bWWWDl /\ ~cl.bWWWDlAborting

(* CL_WWWDownload at the end of the transfer: what was fetched gets the    *)
(* name of the file asked for.                                             *)
WWWDone ==
  /\ Downloading
  /\ have' = IF cl.url = cl.downloadName THEN have \cup {cl.downloadName} ELSE have
  /\ LET next == NextDownload([cl EXCEPT !.download = None, !.written = <<>>,
                                         !.downloadName = None, !.bWWWDl = FALSE])
     IN  cl' = next.c /\ up' = Batched(<< <<Cmd("wwwdl_done", 0)>> \o next.commands >>)
  /\ UNCHANGED <<sv, serverId, bDlOK, mixed, down>>

WWWFail ==
  /\ Downloading
  /\ cl' = [cl EXCEPT !.bWWWDlAborting = TRUE]
  /\ up' = Batched(<< <<Cmd("wwwdl_fail", 0)>> >>)
  /\ UNCHANGED <<sv, serverId, bDlOK, have, mixed, down>>

-----------------------------------------------------------------------------
(* The server executes the commands. *)

SV_CloseDownload(s) == [s EXCEPT !.download = FALSE, !.downloadName = None]

SV_DropClient(s) == [SV_CloseDownload(s) EXCEPT !.state = "zombie"]

(* SV_SendClientGameState, sent once the packet is executed. *)
OwesGamestate(s) == [s EXCEPT !.state = "primed", !.gamestate = TRUE]

SV_BeginDownload(s, f) ==
  [SV_CloseDownload(s) EXCEPT !.downloadName = f]

SV_NextDownload(s, block) ==
  IF block # s.downloadClientBlock THEN SV_DropClient(s)
  ELSE IF s.downloadBlocks[Slot(s.downloadClientBlock)].part = 0 THEN SV_CloseDownload(s)
  ELSE [s EXCEPT !.quiet = FALSE, !.downloadClientBlock = @ + 1]

(* "done", "fail": the redirect is over. *)
Redirected(s) == [s EXCEPT !.download = FALSE, !.downloadName = None, !.bWWWing = FALSE]

SV_WWWDownload(s, cmd) ==
  CASE ~s.bWWWDl         -> SV_DropClient(s)
    [] s.bWWWDl /\ cmd = "wwwdl_ack" -> [s EXCEPT !.bWWWing = TRUE]
    [] s.bWWWDl /\ cmd # "wwwdl_ack" /\ ~s.bWWWing -> SV_DropClient(s)
    [] s.bWWWDl /\ s.bWWWing /\ cmd = "wwwdl_done" -> Redirected(s)
    [] s.bWWWDl /\ s.bWWWing /\ cmd = "wwwdl_fail" ->
         OwesGamestate([Redirected(s) EXCEPT !.bFallback = TRUE])

(* SV_DoneDownload_f; the client of this model is never CS_ACTIVE. *)
SV_DoneDownload(s) == OwesGamestate(s)

Executed(s, c) ==
  CASE c.cmd = "nextdl"   -> SV_NextDownload(s, c.arg)
    [] c.cmd = "download" -> SV_BeginDownload(s, c.arg)
    [] c.cmd = "stopdl"   -> SV_CloseDownload(s)
    [] c.cmd = "donedl"   -> SV_DoneDownload(s)
    [] OTHER              -> SV_WWWDownload(s, c.cmd)

(* SV_ClientCommand; a packet is read no further once the client is a zombie. *)
ClientCommand(s, c) ==
  IF s.state = "zombie" THEN s
  ELSE [Executed(s, c) EXCEPT !.lastCommand = c.cmd]

(* A client of an old level is let alone while it downloads, and from the  *)
(* "nextdl" that ends a file to its next command.                          *)
OldLevel(level) ==
  /\ level # serverId
  /\ sv.downloadName = None /\ sv.lastCommand # "nextdl"

(* messageAcknowledge > gamestateMessageNum: the client has not seen the   *)
(* level's gamestate and none is under way.                                *)
GamestateLost ==
  cl.serverId # serverId /\ ~ \E i \in DOMAIN down : down[i].kind = "gamestate"

(* The client's packets carry its level at the time: the commands are in   *)
(* those of the moment and in all that follow.                             *)
ExecuteBatch(level) ==
  /\ sv.state # "zombie" /\ up # <<>>
  /\ level \in {Head(up).serverId, cl.serverId}
  /\ ~OldLevel(level)
  /\ LET s == FoldLeft(ClientCommand, sv, Head(up).commands)
     IN  /\ sv' = [s EXCEPT !.gamestate = FALSE]
         /\ down' = IF s.gamestate THEN Sent(Gamestate) ELSE down
  /\ up' = Tail(up)
  /\ UNCHANGED <<serverId, bDlOK, cl, have, mixed>>

(* None of these commands is allowed after a change of level. *)
IgnoreBatch(level) ==
  /\ sv.state # "zombie" /\ up # <<>>
  /\ level \in {Head(up).serverId, cl.serverId}
  /\ OldLevel(level)
  /\ sv' = [sv EXCEPT !.lastCommand = Last(Head(up).commands).cmd,
                      !.state = IF GamestateLost THEN "primed" ELSE @]
  /\ down' = IF GamestateLost THEN Sent(Gamestate) ELSE down
  /\ up' = Tail(up)
  /\ UNCHANGED <<serverId, bDlOK, cl, have, mixed>>

(* A packet without a new command. *)
ResendGamestate ==
  /\ sv.state # "zombie" /\ Connected
  /\ OldLevel(cl.serverId) /\ GamestateLost
  /\ sv' = [sv EXCEPT !.state = "primed"]
  /\ down' = Sent(Gamestate)
  /\ UNCHANGED <<serverId, bDlOK, cl, have, mixed, up>>

-----------------------------------------------------------------------------
(* SV_WriteDownloadToClient, with the next idle message. *)

Writes ==
  /\ sv.state # "zombie" /\ sv.downloadName # None /\ ~sv.bWWWing
  /\ UNCHANGED <<serverId, bDlOK, cl, have, mixed, up>>

Redirects == bDlOK /\ ~sv.bFallback /\ Blocks[sv.downloadName] > 0

WriteRedirect ==
  /\ Writes /\ ~sv.download /\ Redirects
  /\ sv' = [sv EXCEPT !.bWWWDl = TRUE, !.top[sv.downloadName] = AtLeast(@, 1)]
  /\ down' = Sent(Msg("redirect", 0, BlockOf(sv.downloadName, 0),
                       sv.top[sv.downloadName] > 0))

(* SV_BadDownload, once: the name is forgotten. *)
WriteBad ==
  /\ Writes /\ ~sv.download /\ Blocks[sv.downloadName] = 0
  /\ sv' = [sv EXCEPT !.downloadName = None, !.bWWWDl = FALSE, !.bFallback = FALSE]
  /\ down' = Sent(Msg("bad", 0, BlockOf(sv.downloadName, 0), FALSE))

Opened(s) ==
  IF s.download THEN s
  ELSE [s EXCEPT !.download = TRUE, !.bWWWDl = FALSE, !.bFallback = FALSE,
                 !.downloadCurrentBlock = 0, !.downloadClientBlock = 0,
                 !.downloadXmitBlock = 0, !.downloadEOF = FALSE]

(* Mutant: one block more than there are buffers. *)
Overfull(s) == s.downloadClientBlock + MAX_DOWNLOAD_WINDOW + 1

WindowEnd(s) == s.downloadClientBlock + MAX_DOWNLOAD_WINDOW

(* Mutant: the empty block is added again for every block of room. *)
EndsAgain(s) ==
  LET f   == s.downloadName
      end == AtLeast(s.downloadCurrentBlock, WindowEnd(s))
      Read(k) == {b \in s.downloadCurrentBlock .. (end - 1) : Slot(b) = k}
  IN  [s EXCEPT !.downloadCurrentBlock = end,
                !.downloadEOF = WindowEnd(s) > Blocks[f],
                !.downloadBlocks = [k \in Slots |->
                   IF Read(k) = {} THEN @[k]
                   ELSE BlockOf(f, CHOOSE b \in Read(k) : \A o \in Read(k) : o <= b)]]

(* The window is filled: blocks of the file, then the empty one. *)
Filled(s) ==
  LET f   == s.downloadName
      eof == s.downloadEOF \/ WindowEnd(s) > Blocks[f]
      end == AtLeast(s.downloadCurrentBlock, AtMost(WindowEnd(s), Blocks[f] + 1))
      Read(k) == {b \in s.downloadCurrentBlock .. (end - 1) : Slot(b) = k}
  IN  [s EXCEPT !.downloadCurrentBlock = end, !.downloadEOF = eof,
                !.downloadBlocks = [k \in Slots |->
                   IF Read(k) = {} THEN @[k]
                   ELSE BlockOf(f, CHOOSE b \in Read(k) : \A o \in Read(k) : o <= b)]]

(* Mutant: only the last block is sent again. *)
LastAgain(s) ==
  IF s.downloadXmitBlock = s.downloadCurrentBlock THEN s.downloadCurrentBlock - 1
  ELSE s.downloadXmitBlock

(* Transmission goes on, or starts anew with the window's first block. *)
NextBlock(s) ==
  IF s.downloadXmitBlock = s.downloadCurrentBlock THEN s.downloadClientBlock
  ELSE s.downloadXmitBlock

WriteBlock ==
  /\ Writes /\ ~(~sv.download /\ Redirects) /\ Blocks[sv.downloadName] > 0
  /\ LET s == Filled(Opened(sv))
         b == NextBlock(s)
     IN  /\ s.downloadClientBlock # s.downloadCurrentBlock
         /\ s.downloadXmitBlock = s.downloadCurrentBlock => s.quiet
         /\ b \in Numbers
         /\ sv' = [s EXCEPT !.downloadXmitBlock = b + 1, !.quiet = FALSE,
                            !.top[s.downloadName] = AtLeast(@, b + 1)]
         /\ down' = Sent(Msg("block", b, s.downloadBlocks[Slot(b)],
                          b < s.top[s.downloadName]))

(* A second without a block or an acknowledgement. *)
Quiet ==
  /\ sv.download /\ ~sv.quiet
  /\ sv' = [sv EXCEPT !.quiet = TRUE]
  /\ UNCHANGED <<serverId, bDlOK, cl, have, mixed, down, up>>

(* SV_SpawnServer keeps the clients, and their downloads. *)
NewLevel ==
  /\ serverId < MaxLevels /\ sv.state # "zombie"
  /\ serverId' = serverId + 1
  /\ sv' = [sv EXCEPT !.state = "connected"]
  /\ UNCHANGED <<bDlOK, cl, have, mixed, down, up>>

(* A client the server has dropped hears nothing more, and gives up. *)
GivesUp ==
  /\ Connected /\ sv.state = "zombie"
  /\ cl' = [cl EXCEPT !.mode = "dropped"]
  /\ UNCHANGED <<sv, serverId, bDlOK, have, mixed, down, up>>

-----------------------------------------------------------------------------
NewServer ==
  [state |-> "connected", downloadName |-> None, download |-> FALSE, bWWWDl |-> FALSE,
   bWWWing |-> FALSE, bFallback |-> FALSE, downloadCurrentBlock |-> 0,
   downloadClientBlock |-> 0, downloadXmitBlock |-> 0, downloadEOF |-> FALSE,
   downloadBlocks |-> [k \in Slots |-> [file |-> None, part |-> 0]],
   quiet |-> FALSE, top |-> [f \in Files |-> 0], lastCommand |-> "", gamestate |-> FALSE]

NewClient ==
  [mode |-> "connected", downloadName |-> None, downloadList |-> {},
   downloadRestart |-> FALSE, downloadBlock |-> 0, download |-> None, written |-> <<>>,
   bWWWDl |-> FALSE, bWWWDlAborting |-> FALSE, url |-> None, serverId |-> 0]

(* The client has connected and holds some of the paks. *)
Init ==
  /\ sv = NewServer /\ serverId = 1 /\ bDlOK \in BOOLEAN
  /\ cl = NewClient /\ have \in Held /\ mixed = "no"
  /\ down = <<>> /\ up = <<>>

Receive ==
  \/ ReceiveGamestate \/ ReceiveUnrequested \/ ReceiveBad
  \/ \E begins \in BOOLEAN : ReceiveRedirect(begins)
  \/ ReceiveOther \/ ReceiveUnwritable \/ ReceiveBlock \/ ReceiveEOF

ExecutePacket == \E level \in 0 .. MaxLevels : ExecuteBatch(level) \/ IgnoreBatch(level)

Next ==
  \/ Receive \/ Lose
  \/ WWWDone \/ WWWFail \/ GivesUp
  \/ ExecutePacket \/ ResendGamestate
  \/ WriteRedirect \/ WriteBad \/ WriteBlock \/ Quiet
  \/ NewLevel

Spec == Init /\ [][Next]_vars

(* A gamestate, or the block asked for. *)
ReceiveExpected ==
  down # <<>> /\ (Head(down).kind = "gamestate" \/ Expects) /\ Receive

(* The network does not lose them all; the server goes on with its frames  *)
(* and the web transfer ends.                                              *)
Fairness ==
  /\ SF_vars(ReceiveExpected) /\ WF_vars(Receive \/ Lose)
  /\ WF_vars(ExecutePacket \/ ResendGamestate \/ GivesUp)
  /\ WF_vars(WriteRedirect \/ WriteBad \/ WriteBlock) /\ WF_vars(Quiet)
  /\ WF_vars(WWWDone \/ WWWFail)

FairSpec == Spec /\ Fairness

-----------------------------------------------------------------------------
(* The file CL_ParseDownload renames into place holds every block of the   *)
(* file asked for, in order: the server's window (SV_WriteDownloadToClient)*)
(* writes over no block that may have to be sent again.                    *)
FetchedIsWhole ==
  [][ReceiveEOF /\ Undisturbed'
       => have' = have \cup {cl.downloadName}]_vars

(* Blocks carry no name, so CL_ParseDownload may take one of the last file *)
(* for one of the next.  That takes a block the window sent again: what is *)
(* sent for the first time is always of the file the client waits for.     *)
OnlyRepeatsMix == mixed # "first"

(* SV_NextDownload_f and SV_WWWDownload_f drop a client whose command does *)
(* not fit the server's state ("broken download"); whatever is lost or     *)
(* sent again, the commands of this client fit.                            *)
UndisturbedIsServed == Undisturbed => sv.state # "zombie"

(* CL_DownloadsComplete loads the level only when a gamestate has found    *)
(* every referenced pak in place.  A block taken for another file's and a  *)
(* change of level can together defeat it.                                 *)
LoadsWithEverything ==
  cl.mode = "loading" /\ (mixed = "no" \/ serverId = 1) => have = Files

(* No file is asked for, or the server lacks it (SV_BadDownload is sent    *)
(* once), or the redirect was given up for a new gamestate.                *)
NothingToFetch ==
  cl.downloadName = None \/ Blocks[cl.downloadName] = 0 \/ cl.bWWWDlAborting

(* The number of its empty block reads as a negative one. *)
TooLong == cl.downloadName # None /\ Blocks[cl.downloadName] >= SHORT \div 2

(* A file asked for is fetched, if all its numbers are positive shorts:    *)
(* SV_WriteDownloadToClient sends the window again after a quiet second    *)
(* until it is acknowledged.                                               *)
DownloadsEnd == []<>(~Connected \/ NothingToFetch \/ TooLong \/ ~Undisturbed)

(* The same of every file.  It is false: a file that is too long is asked  *)
(* for and sent for ever (MSG_WriteShort, MSG_ReadShort).  TLC refutes it  *)
(* with DownloadLong.cfg.                                                  *)
LongDownloadsEnd == []<>(~Connected \/ NothingToFetch \/ ~Undisturbed)

(* SV_SendClientGameState's comment: the gamestate "will be resent if the  *)
(* client acknowledges a later message but has the wrong gamestate".  A    *)
(* client that waits for one gets it.                                      *)
GamestateFollows ==
  (Connected /\ cl.downloadName = None) ~> (~Connected \/ cl.downloadName # None)
=============================================================================

# Unvanquished in TLA+

TLA+ models of the parts of Unvanquished whose correctness depends on the order
in which things happen: the spawn queues, the votes, the buildings of the human team,
the network channel, the commands that must arrive, downloads and snapshots. TLC checks them on small instances, TLAPS proves what
matters most for every value of the constants. Paths below are relative to the
repository's `src/` directory.

## The system

Unvanquished is a game engine (a descendant of the id Tech 3 engine) and the game
that runs on it. A **server** simulates a match in frames (`SV_Frame` calls
`G_RunFrame` of the game module), takes the moves and commands of its clients and
sends each of them snapshots. A **client** sends moves and commands in every frame,
reads snapshots and draws what its game module (cgame) predicts from them. Each
program is one thread. What runs concurrently are the programs, with a network
between them that loses, repeats and reorders packets, and, within the server, the
commands of the clients, which arrive between two frames in any order.

### Components

| component | state | operations | interacts through | models |
|---|---|---|---|---|
| spawn queue (`g_main.c`, `g_team.c`, `g_cmds.c`, `g_active.c`, `g_client.c`) | a ring of client numbers per team; team, class, spectator state of each client | class, team and follow commands, attack button, death, connect, disconnect, the spawn of a frame | calls within the game module | `SpawnRing`, `SpawnQueue` |
| votes (`g_main.c`, `g_cmds.c`, `g_admin.c`, `g_client.c`) | one vote per team and a public one; bit masks of each client | call, cast, decide, execute, end by an admin, stop for the intermission | frames, client commands, console commands for the next level | `Voting` |
| network channel (`net_chan.c`, `sv_net_chan.c`, `cl_net_chan.c`) | sequence numbers, unsent fragments, reassembly buffer, the server's queue | transmit, transmit next fragment, process | packets | `Netchan`, `ServerChannel` |
| reliable commands (`sv_main.c`, `sv_client.c`, `sv_snapshot.c`, `cl_main.c`, `cl_parse.c`, `cl_input.c`, `cl_cgame.c`) | at each end numbers and a ring for each direction; client state, level | add, send, acknowledge, execute, overflow, drop, gamestate | messages of the channel; cgame and game execute the commands | `ReliableCommands` |
| connections and clients (`sv_client.c`, `sv_main.c`, `g_client.c`) | challenges, client slots of the engine, client slots of the game | challenge, connect, enter, drop, time out, reconnect, next level | packets, calls into the game | planned |
| downloads (`sv_client.c`, `cl_parse.c`, `cl_main.c`) | a window of blocks, the file | begin, write, acknowledge, send again, redirect | messages one way, reliable commands the other | `Download` |
| snapshots (`sv_snapshot.c`, `cl_parse.c`, `cl_cgame.c`, `msg.c`) | rings of frames and entities, acknowledged message | build, delta, parse, pass to cgame | messages of the channel | `Snapshots` |
| buildables (`g_buildable.c`, `g_cmds.c`, `g_main.c`) | buildings with health, marks and power; build points; the remembered reactor, the number of spawns | build and replace, mark, deconstruct, die, grow, the power state of a frame | commands and frames within the game module | `Buildables` |
| map rotation (`g_maprotation.c`) | rotations, a place in each, a stack | step, advance, start, go to | votes and the end of a match | planned |
| memory pool (`bg_alloc.c`) | blocks, free list | allocate, free, defragment | calls | planned |
| match flow (`g_main.c`) | pause, warmup, intermission, exit | frames | votes, queues | what votes need of it |
| combat, movement, entities, administration, game data | the world | frames and commands | calls | not modelled |
| cgame, user interface, client engine, renderers | what the player sees | drawing, input | calls, snapshots | not modelled |
| virtual machine, files, collision, coding, sockets, commands and variables | infrastructure | calls | calls | not modelled |

`PROJECT.json` lists them all with the reason where one is left out. In short: what
is left out for good is geometry in floating point, drawing, sound and pure input and
output, where one step decides everything and nothing depends on order, or an
instruction set (the VM), which is a project of its own.

### What is hard, and what must hold

* **Spawn queue.** The ring has no counter: its length is `back - front + 1`, which
  reads 0 when it is empty and when it is full. Removal from the middle shifts across
  the wrap. A client in follow mode carries *another client's* number in its
  `playerState`, and leaving a team removes that number. It must stay a line: nobody
  twice, nobody overtakes, nobody vanishes; and whoever is in it must be a waiting
  member of the team, since the head is turned into a player without another look.
* **Votes.** A ballot is kept twice, as a bit of the client and in the counters of the
  vote, while clients leave, come back and change teams. A vote may be decided early, is
  executed with a delay, and must survive neither an intermission (some kinds) nor a new
  vote in its place. The tally must be the ballots, an early decision must be the final
  one, what passed must be what is executed, and every vote must end.
* **Channel.** A long message is sent in fragments over several frames; other messages
  wait in a queue meanwhile and are encoded only when they leave it, with the key of the
  time at which they were made. The receiver has one buffer for fragments. It must read
  whole messages only, each once, in the order in which they were sent, and decode each with its own key.
* **Reliable commands.** Two windows over a network that loses messages, each
  acknowledged in the other direction's messages; the text of an acknowledged command is
  also the key of the encoding. Overflow drops the client, and dropping a client sends
  it commands. Every command must be executed once and in order, and no loss may ever
  look like a broken protocol.

* **Downloads.** A file travels in a window of blocks that is sent again when nothing is
  acknowledged for a second; the acknowledgements are commands, which wait for the client's next
  message. Files follow each other without a mark on the blocks, levels change meanwhile, a redirect to a
  web server may fail. The file must be whole, the commands must fit the server's state, the
  client must not load a level without its files, and no download may stand still.
* **Snapshots.** A snapshot is a difference to one the client has acknowledged, and both ends
  keep what they compare in rings that go on being written: the server's for all clients together. Neither
  end knows what the other has written over. What cgame is given must be what the server built for it.
* **Buildings.** A new building may replace marked ones that stand in its way, take its power or pay
  for it, each chosen by a loop of its own from predictions that may be old. Powering one building down
  gives others more. The accounts must balance, what is built must not leave its neighbours without
  power, and the power state must come to rest.

`PROJECT.json` lists the single hazards, each at its line, with the properties that
cover it.

## The modules

Each definition of a module carries the name of the function it stands for, and
`PROJECT.json` maps it to its lines. Operators named in comments as mutants are variants
of the code with a plausible bug; they are in no specification, and are there so that
each property can be seen to fail.

### Spawn queues: `SpawnRing`, `SpawnQueue`, `SpawnFifo`, `SpawnQueueRefinement`

`SpawnRing` has the `G_*SpawnQueue` functions as operators on a record `[clients, front,
back]`, which is `spawnQueue_t`. `SpawnQueue` has the variables `queue` (of each team) and
`client`, with what decides about queues: `pers.connected`, `pers.teamSelection`,
`sess.spectatorState`, `sess.spectatorClient`, `ps.clientNum`, the flag `PMF_QUEUED`, and
`pers.classSelection` reduced to the team whose class it is. One action is one call of a
handler. `SpectatorClientEndFrame` is an action of its own since commands arrive between
two ends of frames; that is what makes a stale `ps.clientNum` possible.

`SpawnFifo` is what a queue promises: a line of distinct clients per team, which are
served at its head, join at its end and may step out anywhere. `SpawnQueueRefinement` maps
the rings to it.

Abstracted: a class is its team; alternatives of a handler that change nothing of this
state are not steps. Left out: where one spawns, credits and evolution, and which classes
a stage unlocks.

### Votes: `Voting`

`vote[t]` is `level.team[t]`, with `NoTeam` for the public vote; times are relative (`age`
since `voteTime`, `due` until `voteExecuteTime`), in frames. `client[c]` has `present`, which is
the engine's view of the slot, and the game's `connected`, `team` and three bit masks. `Frame`
is one `G_RunFrame`: time passes, then `CheckExitRules`, then `G_CheckVote` for every team.
`CalculateRanks`, which every coming and going calls, may leave the intermission, so it is
a set of possible outcomes.

Left open: who wins, who is ready to go on, why a call is refused. Left out: what an executed
vote does except end the level; the limits of votes per player and of extensions. Percentages
are compared exactly. Compared with the code's `float` arithmetic for every tally of up to 64
clients and every threshold the cvars allow, that gives the same decisions, and
`floor(powf(n, 0.6))` is the exact root for all those n.

### Channel: `Netchan`, `ServerChannel`, `LossyChannel`

`Netchan` has `Netchan_Transmit`, `Netchan_TransmitNextFragment` and `Netchan_Process` as
operators on one end's `netchan_t`. `ServerChannel` composes the server's end, its queue
(`SV_Netchan_*`), the network and the client's end. `net` is the set of all packets ever sent,
and any of them may arrive at any time: loss, repetition, delay and reordering in one.
A message is its place in the order of calls, its length and the command it acknowledges;
bytes are not modelled, but which part of which message a packet holds is. Encoding is the
choice of the key, by sequence number and command.

`LossyChannel` is what a channel promises. Messages are sent one after the other; behind a long one the next ones wait, and follow it in the order
in which they were handed over; the receiver reads some of what is sent, whole, each once and in the order of sending. That is not the order in
which they were handed over. `SV_Netchan_Transmit` sends a fragment when it queues a message, and if that was the last one, nothing sends the
queued message before the next long message is through: all shorter ones until then overtake it, and without another long one it waits for
ever. In `LossyChannel` this is `Wait`, which may finish what is being sent, and `Send`, which goes ahead of those that wait. The comment at
`SV_Netchan_Transmit` promises the order of handing over; `SentInOrder` states it, and TLC refutes it (finding 8).

`ReliableCommands`, `Download` and `Snapshots` take messages in the order in which they are sent, and lost at will. They build a message when
it is sent, so that the waiting of a message built earlier, and being overtaken, is not in them.

Left out: the direction to the server, which sends all fragments of a message at once and has
no queue; `qport`, checksums of `netchan`, voice packets, loopback.

### Reliable commands: `ReliableCommands`

`sv` and `cl` are the sending halves of `client_t` and of `clc`: number of the last command,
of the last one acknowledged, and the ring. `got` is what the client has received and `heard` what
cgame has executed; `lastClientCommand` and `done` are the same of the server. `state` is
`client_t.state`, `mode` that of the client. `down` and `up` hold the messages under way; arrival
of one is the loss of those before it. A command's text is its number (below zero for
"disconnect"), so that whatever is executed shows whose text it was. The field `lost`, which the
code does not have, remembers numbers whose text was never stored or was written over.

Messages are encoded with the text of the last command acknowledged. A message decoded with another
text is garbage, of which the code promises nothing: the model stops with `garbled`.

Left open: whether a message from an old level shows that the client missed the gamestate
(`messageAcknowledge > gamestateMessageNum`). Left out: other clients (their commands are more calls of
`SV_AddServerCommand`; the drop they may suffer from this client's broadcast is not here), restarts that
keep the level's `restartedServerId`, downloads, pure checks, and flood protection, which delays but does
not stop the processing of commands. The three packets that `CL_Disconnect` writes are one, as the others
repeat it. Assertions are off, as in a release build.

### Downloads: `Download`, `DownloadInvariant`

`sv` is the download in the server's `client_t`, `cl` that of the client's `clc` and `cls`, with the functions' names. A block is its
number and what the buffer held when it was written: which file and which part. The client does not see the file, which is the
point. Messages to the client are lost but not repeated, and come in the order of sending, the client's commands are
executed once and in order (what `ReliableCommands` shows); they travel as the batch of the client's next message with its serverId, and
`up` keeps what is not executed. `WriteBlock` sends one block, at most the window ahead; the rate is left open. `mixed` remembers whether a
block of another file was taken, and whether it had been sent before. The command "wwwdl ack" is one word, `wwwdl_ack`, and so are its like.

`DownloadInvariant` adds no behaviour: it has the vocabulary of the proofs, the inductive invariant in its layers and the steps described by what they change.

Left out: the disconnected mode of redirects, the fallback URL, refused downloads (`sv_allowDownload`, `cl_allowDownload`, illegal names), rates,
and the transfer over HTTP.

A block's number is a short, which the client reads with its sign (`Signed`), -1 being a redirect. `SHORT` is how many numbers a short holds. The client takes no block from `SHORT \div 2` on,
so the server never gets more than a window beyond it, and the assumption that a window is less than `SHORT \div 2` keeps the numbers below `SHORT - 1`: they neither wrap nor reach -1 (`Numbers`, part of `TypeOK`, proved).

### Snapshots: `Snapshots`

The variables are the fields of `client_t`, `svs`, `clc` and `cl` of the same names. A message is under way until it is read or the next one
replaces it, which is how it is lost; a late delivery commutes with what happens meanwhile, and the client reads messages in the order of sending. The
message carries the changes `SV_EmitPacketEntities` writes, and `built`, which the code does not have: what the entities were. The client's merge
(`CL_ParsePacketEntities`, read entity by entity, with the ring being written while the base is read from it) is a recursive function
that goes as wrong as the code does when the base has been written over. The field `fits`, which the code does not have either, remembers of a snapshot whether it and those it was made from have no more
entities than the server's ring and no more than `MARGIN` new ones ahead of a kept one: the code checks neither. `SnapshotsOfOthers` is the other clients' share of the server's ring. An
entity has one field, and baselines are those of the level.

Left out: what is in view; player states and area bits; fields; fragmented messages (the server builds no snapshot while fragments are unsent, save in
`SV_FinalCommand`); a restart of the map, which for this state is a `clc_moveNoDelta` (`deltaMessage` becomes -1); demos; and the resending of
gamestates by the pure check. `cl.snap` is the number of the entry of `cl.snapshots` it equals.

### Buildings: `Buildables`

`ent` is `g_entities[]` restricted to sites on a line: a site's number is its order in the array, which decides ties. `rc` is the static variable of
`G_Reactor`, `numSpawns` and `buildPoints` those of `level.team[]`. One action is one command, one death or explosion, one step of growth, one mine's
yield or the end of a frame with what `G_RunFrame` calls there. `Build` is all of `G_BuildIfValid`: `Removals` gives the lists of buildings
`PrepareBuildableReplacement` may return. Two things make it more than one: the order of buildings marked at different times, which is left
open, and `allowed`, the answer of the replacement check that is asked about whichever entity the loop before ended at. Power is scaled so that it stays
whole; health is counted in steps, and build points in fractions of a step, so that a refund is cut exactly where the code casts to `int`. A new building takes the number of its site, where
the code takes a free slot of the array (`G_NewEntity`): so a site always has the same place among the ties, and two buildings are never at one place.

Left out: aliens and creep, the marauder's interference, DCCs and healing, whether one may build at a place (left to chance), the build log's revert, and
values of `g_markDeconstruct` other than its default and that with the option of immediate removal.

## What the runs check

| run | instance | what it shows |
|---|---|---|
| `SpawnQueueRing` | 3 clients, 1 team, ring of 4, all may follow, one sticky | `TypeOK`, `RingsOK`; the rings refine the lines (`ImplementsFifo`) |
| `SpawnQueueTeams` | 3 clients, 2 teams, nobody follows | queued clients are waiting members (`QueuedIsWaiting`), a place is never lost behind one's back (`LeavesKnowingly`), and everybody is served (`QueuedIsServed`) |
| `SpawnQueueStale` | 2 clients, 2 teams, all may follow | a leaver stays in the queue (finding 1) |
| `VotingPublic` | 4 clients, 3 kinds of public vote | `PublicTallyIsBallots`, `EarlyEndIsFinal`, `PassIsBacked` |
| `VotingTwoVotes` | 2 clients, a public and a team vote | `TypeOK`, `NeverRunningAndPending` |
| `VotingLive` | 2 clients, votes for a map and polls | `VoteEnds`, `PassedIsExecuted` |
| `ServerChannel` | 3 messages of 1, 3 or 4 packets, 1 command | `TypeOK`, whole messages (`ReadsWholeMessages`), the right key (`DecodesWithItsKey`), no fragment stays behind (`FragmentsFinish`), each message once and in the order of sending, the queue in its own (`ImplementsLossyChannel`) |
| `ReliableCommands` | rings of 2, 3 commands each way, 2 levels, 1 message under way each way | `TypeOK`, `HeardAsSent`, `DoneAsTyped`, `AcksStayInWindow`, `KeysAgreeBelowFull` |
| `ReliableCommandsLive` | 2 commands down, 1 up, 2 levels | `SentIsHeard`, `TypedIsDone` |
| `Download` | 4 paks of 2, 1, no and 3 blocks, window of 2, shorts of 6 values, 2 levels | a file put in place is whole (`FetchedIsWhole`), only repeated blocks are taken for another file's (`OnlyRepeatsMix`), no command misses the server's state (`UndisturbedIsServed`), a level is loaded with every file in place, unless a block was taken for another file's and the level changed (`LoadsWithEverything`), every download of a file with fewer blocks than half the shorts ends (`DownloadsEnd`), `TypeOK` |
| `Snapshots` | 4 frames, rings of 11 and 7 entities, views of 2 and 4, 7 messages, 2 levels | under a number cgame gets the snapshot of that number and, where it fits, what was built for it (`ReadIsBuilt`), deltas are made against what the client has (`BaseIsKept`), nobody stays with an old picture (`NeverStuck`), `TypeOK` |
| `Buildables` | 3 sites, 5 types, 4 bases, 4 acts | `ReactorOnlyForReactor`, the accounts (`PointsAreKept`), power after a placement with predictions up to date (`PlacementKeepsPower`), the power state comes to rest (`PowerSettles`), `TypeOK` |

Each of the following configurations ends with a counterexample too, and belongs to the findings below; each takes less than a minute. One more, `SpawnQueueFollow`, ends without: it checks
`LeaverIsRemovedByNumber`, which is proved, on two clients in a ring of two that may be full, with followers.

| configuration | module | what TLC refutes |
|---|---|---|
| `VotingTeam` | `MCVoting` | `TeamTallyIsBallots` (finding 2) |
| `ReliableCommandsLost` | `MCReliableCommands` | `NothingTypedIsLost` (finding 3) |
| `ReliableCommandsKeys` | `MCReliableCommands` | `KeysAgree` (finding 4) |
| `DownloadGamestate` | `MCDownload` | `GamestateFollows` (finding 5) |
| `BuildablesReactor` | `MCBuildables` | `OneReactor` (finding 6) |
| `BuildablesSpawn` | `MCBuildables` | `LastSpawnStays` (finding 7) |
| `ServerChannelOrder` | `MCServerChannel` | `SentInOrder` (finding 8) |
| `DownloadLong` | `MCDownload` | `LongDownloadsEnd` (finding 9) |
| `SnapshotsMargin` | `MCSnapshots` | `ReadIsAlwaysBuilt` (finding 10) |
| `BuildablesPower` | `MCBuildables` | `PlacementAlwaysKeepsPower` (finding 11) |

### Bounds, and why they are enough

* *Spawn queues.* Three clients are enough for a removal from the middle with one ahead and one
  behind; four slots let front and back wrap independently of each other and leave the sentinel
  between them, and also let the search find slots the length does not span. Follow mode multiplies the states, so
  the two-team instance does without; the one-team instance has it for all.
* *Votes.* `VOTE_TIME` is 2 or 3 frames and a delay 0 or 1: between two frames anything may happen, and more
  frames repeat the same. Four clients tell the thresholds 50, 51 and 74 per cent and quorums apart.
  `MaxDrift` bounds how far below zero the counters of finding 2 may go; it does not touch public votes.
* *Channel.* With fragments of 2 bytes the lengths 1, 4 and 7 are a packet, an exact multiple with its empty
  last fragment, and a last fragment that is not full. Three messages are one in fragments, one waiting behind it and
  one that finds the queue not empty.
* *Reliable commands.* The ring of 256 is one of 2, and 3 commands fill it and go one beyond, which is all that
  the two comparisons distinguish. With one message under way in each direction every acknowledgement may be late by one
  and every message lost; the proofs have no such bound. Two levels make one change of level.

* *Downloads.* One file does not fit the window and one does; a third is absent, so that the client meets `SV_BadDownload`. A window of two
  has a block to be sent again while the next is written over. One message under way is enough for every loss, as nothing overtakes; a client that holds the
  absent file at first gets through to the level, one that does not is stuck there. A short of six numbers is negative from 3 on, which is the empty block of the fourth pak: that download stands still,
and the other three stay below.
* *Snapshots.* `PACKET_BACKUP` is 4 in place of 32 and keeps 1 in place of 3 free. Seven messages are as many as it takes to see a snapshot under a number that is not its own: one of number k, the loss of k + 4, and later
  ones that cgame reads from. A base can be just old enough and just too old. The client's ring holds seven entities, one of them the margin, and goes round several times; the server's holds eleven, of which another client takes four at
  once. Of the two views one has two entities and the other four, and going from one to the other puts two new entities ahead of one that stays, which is more than the margin, or none.
* *Buildings.* Three sites next to each other let a building have a neighbour on either side and one farther off; the supplies and consumptions are the
  attributes' own, at distances where two turrets are too many. Four acts are enough to damage, mark, and replace two buildings and see what
  follows; growth, explosions, and power states are not counted.

`CHECK_DEADLOCK FALSE` is there where the model may really end: all messages made and sent
(`ServerChannel`, `Snapshots`), the slot free and the client gone or the message garbled (`ReliableCommands`), or the level loaded (`Download`).
`SYMMETRY` is used for clients of votes only, and never with a liveness property.

### Fairness

* `SpawnQueue!FairSpec`: `G_RunFrame` calls `G_SpawnClients` for each team in every frame. Weak fairness of the
  action is the assumption that a spawn point is free sooner or later; without one nobody can be served.
* `Voting!FairSpec`: frames go on (a pause ends by itself after two minutes), and a console command that starts the next
  level is executed. Only `PlainFrame` is fair: nothing assumes that anybody wins or is ready.
* `ServerChannel!FairSpec`: `SV_SendClientMessages` runs in every frame and sends the next fragment; nothing is
  assumed of the network.
* `ReliableCommands!FairSpec`: both ends send and read in every frame; the network delivers one of infinitely
  many messages (a gamestate among infinitely many, a client message that shows progress among infinitely many). No
  liveness holds without such an assumption, and the code answers a network that never delivers with a timeout.

* `Download!FairSpec`: strong fairness of a gamestate or the expected block being read, which is a network that does not lose all of them; weak fairness of the
  frames at both ends, of a second that passes in quiet, and of the end of a web transfer (it has timeouts of its own).
* `Buildables!FairSpec`: frames go on, and one in half a second computes the power state. `PowerSettles` assumes, as its premise, that players stop building and shooting.

## What is proved

TLAPS checks these theorems for every value of the constants, from the named assumptions of the modules alone (`RingAssumption`,
`SpawnQueueAssumption`, `VotingAssumption`, `FragmentAssumption`, `ServerChannelAssumption`,
`ReliableCommandsAssumption`, `DownloadAssumption`, `SnapshotsAssumption`, `BuildablesAssumption`), which say what kind of value a constant has, and of a few that they are large enough. Three theorems have a further
hypothesis, named below with the reason.

* `SpawnQueue_proof`: **`SpawnQueuesStayWellFormed`** (`RingsOK`), **`SpawnQueueTypes`** (`TypeOK`). The properties are
  inductive together; the work is in lemmas on the ring operators, with
  modular arithmetic: what a push, a pop and a removal from the middle leave in which slot, across the wrap, in a
  ring that may be full.
  **`SpawnQueuesAreFifo`** (`ImplementsFifo`): the rings refine the lines of `SpawnFifo`. Each ring operator has a lemma of the line it leaves (`PushLine`,
  `PopLine`, `RemoveLine`), and every handler is at most one of the three for at most one team, or the lines do not show it. A full ring is included: its line has
  `MAX_CLIENTS` members although its length reads 0.
  **`QueuedAreWaiting`**, **`QueuesAreLeftKnowingly`**: with the hypotheses `MaxClients < MAX_CLIENTS` and `Followers = {}`. Both are needed. A follower takes
  another client's number out of the queue (finding 1), and in a ring whose every slot is taken the search finds nobody. The invariant (`WaitingInv`) adds that everybody's
  `ps.clientNum` is its own.
  **`LeaversAreRemoved`** (`LeaverIsRemovedByNumber`) has no hypothesis and says what is kept of the property that finding 1 refutes, whoever follows whom: who leaves a team or the server takes the client whose number its `ps`
  holds, and nobody else, out of that team's queue, unless every slot is taken; and the number is its own, save while it follows somebody. So who stays in the queue is a follower with another's number, or one in a full ring. The
  invariant (`ViewInv`) is that only followers have another's number. `ViewStep` goes through every handler that moves a client's view, and shows that teams are left by `G_LeaveTeam` alone.
* `Voting_proof`: **`PublicTallyIsExact`**, **`PassedVotesAreKept`**, **`VotingTypes`**. The invariant (`Sound`)
  adds to the types, the tally and their exclusion that the engine's clients are clients of the game too: else a client could
  vote whom nobody counts. It is stated over values of the variables, as handlers pass intermediate ones on to each other
  (`CalculateRanks`, `CheckExitRules`). Lemmas count: how the number of ballots changes when one client's record does.
  **`PassedVotesAreBacked`** (`PassIsBacked`) and **`EarlyDecisionsAreFinal`** (`EarlyEndIsFinal`) are facts of arithmetic about the counters, which the tally makes facts
  about the ballots. The second has the hypothesis `QuorumNeedsMajority`: kinds with a quorum need half of the votes, as all have by default (51 or 74 per
  cent). It is needed: with a lower threshold a vote may end early, with enough yes but too few votes, and fail for the quorum, which
  more votes would have met. `FifthPower` is there for it: the quorum `n^0.6` is the largest number whose fifth power is at most `n^3`.
* `ServerChannel_proof`: **`ChannelReadsWholeMessages`**, **`ChannelKeysMatch`**, **`ChannelIsLossyChannel`**
  (the refinement), **`ChannelTypes`**. The invariant says what every packet ever sent is a piece of (one message per sequence number, encoded
  for that number; a fragment shorter than the others ends its message; nothing that ends the message still being sent is out), and
  that the reassembly buffer holds the beginning of one message, without a gap. Since
  packets are never taken from `net`, repetition and reordering by the network need no case of their own. The refinement takes the message being sent, the queue, and the
messages sent so far as `sending`, `waiting` and `wire`; the work is in showing that the loop of `SV_Netchan_TransmitNextFragment` sends the beginning of the queue, up to the next long message, and that nothing else leaves the queue, a drop apart.
* `ReliableCommands_proof`: **`AcknowledgementsStayInWindow`**, **`ReliableTypes`**. An acknowledgement is in the window
  because each message under way acknowledges no less than the ones sent before it, no more than the server's
  last number, and never less than what the server has taken as acknowledged: the invariant orders the messages of both
  directions (`UpOK`, `DownOK`) and bounds the server's window (`WindowOK`) through every path of an overflow, the recursive
  one included.
  **`CommandsAreHeardAsSent`** (`HeardAsSent`), **`CommandsAreDoneAsTyped`** (`DoneAsTyped`), **`BelowFullKeysAgree`** (`KeysAgreeBelowFull`). The invariant
  of these (`SaysInv`) follows a text with its number: in a ring, where it stays until `MAX_RELIABLE_COMMANDS` more numbers are given out, in the messages under way, in the client's ring, and in
  what is executed. What makes it inductive is that the client's ring is written from its last number onwards only, and that the messages carry every number above
  the one acknowledged.
* `Download_proof`: **`TypesHold`** (`TypeOK`), **`RepeatsMix`** (`OnlyRepeatsMix`), **`ClientIsServed`** (`UndisturbedIsServed`), **`LoadsWhenComplete`**
  (`LoadsWithEverything`), **`FilesAreWhole`** (`FetchedIsWhole`). The invariant (`IInv`, in `DownloadInvariant`) has layers, each under the condition it needs. `Base` holds always:
  what is under way and in the buffers is of files that were asked for, and what is sent of a file for the first time comes after all that was sent of it before. `Tidy` holds as long as no
  block was taken for another file's: the client waits for a gamestate, or is done with one file and asks for another one, or fetches a file, and in each case (`Phases`) the batches under way, the blocks
  under way and the server's counters fit together; the new blocks of another file are all gone before it asks. `Alone` holds on the first level, mixed up or not: at most one gamestate is under way,
  and with a command that gives up or is done, nothing follows it. With both conditions, every batch fits the state the server will be in when
  its turn comes (`Fits`), the server is at the file the client waits for (`Serves`), and what the client has written are the first blocks of that file (`Written`).
  The first lemmas restate each action without `EXCEPT`; `RunsOne` and `RunsTwo` say what the fold over a batch of one or two commands is; then each layer has one lemma per action.
* `Snapshots_proof`: **`DeltasHaveTheirBase`** (`BaseIsKept`), **`ClientsCatchUp`** (`NeverStuck`). What the client acknowledges with a move is in its ring, valid and under its
  number, until `PACKET_BACKUP` numbers have gone by (`Held`), and the server does not go as far back as that (`Answers`). The levels of what is
  under way (`DownOK`, `UpOK`) keep what was acknowledged in an old level from being taken for a snapshot of the new one, whose ring is empty.
  **`TypesHold`** (`TypeOK`) and **`ReadsWhatWasBuilt`** (`ReadIsBuilt`). The invariant of the latter (`KInv`) says of the server that its frames are the views they were built of, as far as its ring still has
  them (`Recorded`), of a message that its changes are those between two views (`Tells`), and of the client that its valid snapshots are the views built for it, as far as its ring still has them (`Intact`).
  The merge makes the one of the other: `Merged` is the invariant of the loop of `CL_ParsePacketEntities`. After each turn `i` entities of the base are done with, `j` of the new view are written, all that is left of both
  lies behind those, and the changes left are those of what is left. Every turn finishes an entity of the base or takes a change, so that the turns of the model are enough (`TurnsCount`, `ParseReads`).
  There is no hypothesis about the views. Three things are said of the snapshot cgame gets under a number. It has that number: a valid snapshot in the ring is of the last `PACKET_BACKUP` messages up to `cl.snap` (`Numbered`), since those
  skipped were made invalid, and no two of these have the same place. If it fits (`fits`), it is what was built. And a message that fits was made from a base that does. What `fits` leaves out, the code may get wrong: a view of more entities than the server's ring, which can only
  be with `com_dedicated` 0 (on a dedicated server the ring has 2048 entities per client, as many as a snapshot may have), and more than `MARGIN` new entities ahead of a kept one, which keep the client's writes from staying behind what it has still to
  read (finding 10).
* `Buildables_proof`: **`BuildableTypes`** (`TypeOK`), **`ReactorsAreSpared`** (`ReactorOnlyForReactor`), **`PointsAreNeitherMadeNorLost`** (`PointsAreKept`),
  **`PlacedBuildingsHavePower`** (`PlacementKeepsPower`). The types are the invariant; the rest is about what one step computes. `RemovalsAre` says what is chosen for removal, through all three
  loops: what stands, can be afforded together, spares reactors, and contains a part for which the power was predicted. For the points, the sum of the prices is split at what goes and what comes
  (`TotalWithout`, `TotalWith`), refunds are less than a point below what a building was worth each, and a
  balance that is held at zero has lost nothing, as what was replaced could be afforded (`PaidIsLeft`). For the power, those who only take leave more when they go (`MoreWithout`), so that the prediction for a part of what is removed holds for
  all of it, and for a neighbour the prediction is what it had, plus what the new building gives, less what the old ones gave (`PlacedHasPower`).
* `Lemmas_proof` has what several of them rest on: numbers in a ring, in the place `n % size`; folds and sums over finite sets. The library's induction theorems take the property as an
  operator, which the provers here cannot instantiate. `Least`, `Smallest` and `FirstBad` replace them: of the numbers, or the parts of a finite set, that lack a property there is a
  smallest. From these follow that a fold exists and is unique (`FoldExists`, `FoldsAgree`), in spite of the `CHOOSE` of a recursive function in the definitions of the
  community modules, and that a sum is the same in any order (`AddAnyOrder`, `SumStep`), can be split and compared.

Some definitions were put differently for the proofs, or because of them: `EarlyEndIsFinal` is about the public vote, as the tally of a team's vote is not its ballots (finding 2), and says
both that what passed would have passed and that what failed would have failed; `Interfering` in `Buildables` is the set of the buildings that may go for their power, and `Nearest` the
beginnings of its order by distance. In `Snapshots` the changes of a message are a set, of which the client takes the one with the lowest number next (`NextChange`): the message has them in that order, and no number twice. Two of `Download` changed, as both were false beyond the instance. `TypeOK` bounded
the counters by the file's blocks in every state; it does so as long as no block was taken for another file's (and, when the client has gone, on the first level), and else they are natural numbers. `LoadsWithEverything` had no condition: see "Seen while modelling".

Only model-checked:

* All liveness (`QueuedIsServed`, `VoteEnds`, `PassedIsExecuted`, `FragmentsFinish`, `SentIsHeard`, `TypedIsDone`, `DownloadsEnd`, `PowerSettles`): fairness and `ENABLED` are out of reach of the
  prover.

## Findings

1. *Who leaves a team may stay in its queue* (`SpawnQueueStale`; `gamelogic/game/g_team.c:253`). `G_LeaveTeam` removes `ps.clientNum`,
   which in follow mode is the followed player's. A queued player who follows a team mate and leaves stays queued in the old team, and a followed
   player who is queued loses the place.
2. *Leaving and rejoining a team loses the ballot for good* (`VotingTeam`; `gamelogic/game/g_main.c:2819`). The tally is decremented, the bit in
   `pers.voted` stays: no second vote is allowed, and each further departure decrements again, below zero.
3. *One command too many fits the client's window* (`ReliableCommandsLost`; `engine/client/cl_main.c:786`). The comparison comes before the new command is
   counted; an unacknowledged command is written over, and the newest is executed twice.
4. *With a full window the server decodes with the wrong key* (`ReliableCommandsKeys`; `engine/server/sv_net_chan.c:136`). The slot of the acknowledged command
   already holds the newest one.

5. *A gamestate lost after a download is never sent again* (`DownloadGamestate`; `engine/server/sv_client.c:2166`). The client answers the last file with "donedl" and
   waits for a second gamestate of the same level. The comment of `SV_SendClientGameState` says that a lost one is sent again "if the client ... has the wrong
   gamestate"; what is compared are the levels' numbers, which agree, and both ends wait.
6. *Two reactors* (`BuildablesReactor`; `gamelogic/game/g_buildable.c:325` and `:4132`). `G_Reactor` is NULL for a reactor that is dying or under construction. When such a one is
   marked and a new reactor is placed out of its way, nothing removes the old one. `FindBuildable` may then find the dead one first and hide the living.
7. *The last spawn is replaced by something else* (`BuildablesSpawn`; `g_buildable.c:4273` and `:4336`). A comment says "don't replace last spawn with a non-spawn" (`:4021`). The check is asked
   about `ent`, not `neighbor`, where a building goes for its power; it is asked of each of two marked spawns by itself where they go for their price; and it compares a
   count of the end of the last frame.

8. *A queued message is overtaken* (`ServerChannelOrder`; `engine/server/sv_net_chan.c:291`). Queueing a message sends a fragment of the one before it. When that was its last, `unsentFragments` is false with the queue not empty, and
   `SV_Netchan_Transmit` sends what comes next at once. A comment (`:246`) says that messages are buffered to "make sure they get sent in correct order". A message that does not find another long one after it is never sent.
9. *A file of 64 MB never arrives* (`DownloadLong`; `engine/server/sv_client.c:1188` and `engine/client/cl_parse.c:676`). The block's number is written and read as a short, with its sign. With more than 32767 blocks of 2048 bytes, from number 32768 on
   the client sees a negative one in place of the one it expects, ignores the block, and the server sends it again for ever.
10. *A picture is made of a base already written over* (`SnapshotsMargin`; `engine/client/cl_parse.c:377`). With more than 128 new entities (`MARGIN`) ahead of one that is kept, the client writes over its base while it reads it, when the base is
    just young enough. A comment (`client.h:104`) asks that the array hold `PACKET_BACKUP` frames of entities; it holds 2048, which is 64 in a frame.
11. *Power is taken that is already taken* (`BuildablesPower`; `gamelogic/game/g_buildable.c:4075`). The prediction for the neighbours reads `expectedSparePower`, which is half a second old and 0 for what was placed since, and which is not
    computed again when the building next to it goes. `PlacementKeepsPower` is therefore about predictions that are up to date.

Seen while modelling, in the models as the code has it, but not the subject of a run:

* The server's ring is `sv_maxclients * 4 * 64` entities with `com_dedicated` 0 (`sv_init.c:353`), while one snapshot may have 2048 (`MAX_SNAPSHOT_ENTITIES`). A snapshot of more entities than the ring has writes over
  its own beginning before it is sent.
* The comment of `CL_ParseSnapshot` ("no changes to the state will be made at all", `cl_parse.c:252`) is not true of `cl.parseEntitiesNum`, which moves on for an unusable snapshot too
  and so ages the others.
* A queued message travels under a later number than the one its frame was recorded under (`sv_snapshot.c:874`); of snapshots that happens in `SV_FinalCommand` only.
* `OutgoingInterference` gives a new repeater the supply and range of a reactor (`g_buildable.c:2097`). It has no effect, as a source of power is never checked for its neighbours.
* A client may load a level without a file it needs. It takes a block of the last file, sent again, for one of the next; the level changes while it does; and what it answers to the
  blocks of the wrong file, and to the redirect of the other, ends in a "donedl" for a file it could not write. TLC finds it in 45 steps with files of 1, 0 and 1 blocks, a window of 2, two levels and three
  messages under way, if the condition of `LoadsWithEverything` is dropped; that is too large an instance for a run.
* After a second of quiet the block to be sent next (`downloadXmitBlock`) may be behind the first one not acknowledged (`downloadClientBlock`), so that a number goes out with what a later block has put in its
  buffer (`sv_client.c:1172`). The client has had that number, and ignores it.
* A block that comes after the last file is left unread, and what follows it in the message is taken for commands (`cl_parse.c:668`; `mode = "garbled"`).
* `svs.challenges[ i ].firstPing = 0` is written with `i` the client's slot, no longer the challenge (`sv_client.c:395`).

* A ring with all `MAX_CLIENTS` slots taken reads as empty, and nobody in it is ever served (`g_main.c:1062`, the second
  disjunct of `RingOK`). It takes 64 clients of one team, all dead.
* A vote with a threshold of 100 per cent cannot pass: the share must exceed it (`g_main.c:2939`), while `g_local.h:851` says "need at least
  this percent to pass". The quorum is `n^0.6`, where a comment says half (`g_main.c:2955`).
* The intermission waits for running votes but not for results that wait to be executed, so the exit may overtake them (`g_main.c:3317`).
* A connection refused for its userinfo leaves `pers.connected` set (`g_client.c:1270`), and such a slot counts as a voter.
* When a full window disconnects the client, `CL_Disconnect` adds a command to the same window, fails again, and the second error ends the program
  (`cl_main.c:1804`; `mode = "crashed"`).
* A drop is broadcast, and the broadcast may overflow, and drop, the next client (`sv_main.c:162`).

## Plan

Done, in this order, the most central first: the modules for spawn queue, votes, channel, reliable commands, downloads, snapshots and buildings; then the proofs of
every safety property of the passing runs.

Modules that would be worth having, and are not here:

* `MemoryPool`: `BG_Alloc`, `BG_Free`, `BG_DefragmentMemory`; blocks and free nodes partition the pool.
* `ClientSlots`: challenges, `SV_DirectConnect`, drops, zombies, levels, composed with the connection half of `Voting` and `SpawnQueue`; the
  game never has a client the engine has not, save where the code lets it.
* `MapRotation`: recursive, so for TLC only; every rotation with a map ends at one, and the stack returns where it came from.
* `MatchFlow`: pause, warmup, exit rules, composed with `Voting` in place of what it leaves open.

## Not modelled

Those planned above aside, what is left out is left out for good, for the reasons `PROJECT.json` gives with each: combat, movement and movers are
floating point geometry within a frame; renderers, sound, console and menus are input and output; the virtual machine is the semantics of an instruction set; and most of the
repository's lines are vendored libraries, compilers and generated tables, which the game calls but which are no part of its logic. That is why the lines the models stand for are a small share of the
lines of the repository. They are most of those in which the order of events matters.

## Running

`tlc -workers 2 -config VotingPublic.cfg MCVoting.tla` checks a run: each configuration belongs to the `MC` module of
its component, as listed in `PROJECT.json`. `SpawnQueueRing`, `VotingTwoVotes`, `Download`, `Snapshots` and `Buildables` take one to two minutes each, the others less.
`tlapm Voting_proof.tla` checks the proofs of a module, in one to five minutes each, and a quarter of an hour for `Download_proof`.
The configurations of the findings end with a counterexample.

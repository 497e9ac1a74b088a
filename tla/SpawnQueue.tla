----------------------------- MODULE SpawnQueue ------------------------------
(***************************************************************************)
(* Who stands in which spawn queue: the ring of each team together with    *)
(* everything in the game module that pushes, pops or removes a client -   *)
(* class commands, team changes, disconnects, deaths, the spectator's      *)
(* attack button and the per-frame spawn - and the follow mode of dead     *)
(* players, which overwrites the client number those calls remove.         *)
(***************************************************************************)
EXTENDS SpawnRing, FiniteSets

CONSTANTS
  MaxClients,   \* level.maxclients (sv_maxclients), at most MAX_CLIENTS
  Teams,        \* the playing teams
  NoTeam,       \* TEAM_NONE
  Sticky,       \* the clients with pers.stickySpec
  Followers     \* the clients that ever use the follow commands

Clients == 0 .. (MaxClients - 1)

ASSUME SpawnQueueAssumption ==
  /\ MaxClients \in Nat \ {0} /\ MaxClients <= MAX_CLIENTS
  /\ NoTeam \notin Teams
  /\ Sticky \subseteq Clients /\ Followers \subseteq Clients

VARIABLES
  queue,    \* level.team[t].spawnQueue
  client    \* level.clients[c]

vars == <<queue, client>>

(* pers.connected, pers.teamSelection, sess.spectatorState,                *)
(* sess.spectatorClient, ps.clientNum, PMF_QUEUED in ps.pm_flags, and      *)
(* pers.classSelection reduced to the team whose class it is.              *)
ClientState ==
  [connected : {"DISCONNECTED", "CONNECTING", "CONNECTED"},
   team      : Teams \cup {NoTeam},
   spec      : {"NOT", "FREE", "LOCKED", "FOLLOW"},
   target    : Clients \cup {-1},
   num       : Clients,
   queued    : BOOLEAN,
   class     : Teams \cup {NoTeam}]

Connected(c)  == client[c].connected = "CONNECTED"
InQueue(t, c) == G_SearchSpawnQueue(queue[t], c)

-----------------------------------------------------------------------------
(* Follow mode.  Each operator maps client records to client records.      *)

G_StopFollowing(r, c) ==
  [r EXCEPT !.spec = IF r.team = NoTeam THEN "FREE" ELSE "LOCKED",
            !.target = -1, !.num = c]

(* G_FollowNewClient: the first eligible client after the current target,  *)
(* in direction dir, wrapping around and trying the current one last only  *)
(* when there was none.                                                    *)
Eligible(cl, i, d) ==
  /\ d # i /\ d # cl[i].target
  /\ cl[d].connected = "CONNECTED" /\ cl[d].team # NoTeam
  /\ i \in Sticky \/ cl[d].spec = "NOT"
  /\ cl[i].team = NoTeam \/ cl[d].team = cl[i].team

Distance(from, d, dir) == (dir * (d - from) - 1) % MaxClients

FollowNext(cl, i, dir) ==
  LET from == IF cl[i].target = -1 THEN 0 ELSE cl[i].target
      d    == CHOOSE x \in Clients :
                /\ Eligible(cl, i, x)
                /\ \A y \in Clients : Eligible(cl, i, y)
                     => Distance(from, x, dir) <= Distance(from, y, dir)
  IN  [cl[i] EXCEPT !.target = d, !.spec = "FOLLOW",
                    !.num = IF cl[d].spec # "NOT" THEN d ELSE @]

CanFollow(cl, i) == cl[i].spec # "NOT" /\ \E d \in Clients : Eligible(cl, i, d)

FollowOrStop(cl, i) ==
  IF CanFollow(cl, i) THEN FollowNext(cl, i, 1) ELSE G_StopFollowing(cl[i], i)

(* Everyone who follows the number in c's ps.clientNum moves on.  The loop *)
(* reads that number again in every round, and c may be in it itself.      *)
G_StopFromFollowing(cl, c) ==
  LET Moves(i, n) == cl[i].spec = "FOLLOW" /\ cl[i].target = n
      before == cl[c].num
      after  == IF Moves(c, before) THEN FollowOrStop(cl, c).num ELSE before
  IN  [i \in Clients |-> IF Moves(i, IF i <= c THEN before ELSE after)
                         THEN FollowOrStop(cl, i) ELSE cl[i]]

(* ClientSpawn, ending in the ClientThink it runs: the spectator state     *)
(* follows from the class and the team, ps is rebuilt, and a spectator     *)
(* still found in its team's queue gets the queued flag back.              *)
ClientSpawn(r, c, q) ==
  LET state == IF r.class = NoTeam
               THEN IF r.team = NoTeam THEN "FREE" ELSE "LOCKED"
               ELSE IF r.target # -1 THEN "FREE" ELSE r.spec
  IN  [r EXCEPT !.target = -1, !.spec = state, !.num = c,
                !.queued = /\ r.connected = "CONNECTED" /\ state # "NOT"
                           /\ r.team # NoTeam
                           /\ G_SearchSpawnQueue(q[r.team], c)]

(* Mutant: leaving a team does not touch its queue. *)
StayInQueue(c) == queue

(* G_LeaveTeam takes ps.clientNum out of the queue - the client's own      *)
(* number, unless the last frame copied somebody else's playerState.       *)
LeaveQueue(c) ==
  IF client[c].team = NoTeam THEN queue
  ELSE [queue EXCEPT ![client[c].team] =
          G_RemoveFromSpawnQueue(@, client[c].num)]

LeaveClients(c) ==
  LET r == client[c]
      n == r.num
      cleared == IF Finds(queue[r.team], n)
                 THEN [client EXCEPT ![n].queued = FALSE] ELSE client
  IN  IF r.team = NoTeam
      THEN [client EXCEPT ![c] = IF r.spec = "FOLLOW"
                                 THEN G_StopFollowing(r, c) ELSE r]
      ELSE G_StopFromFollowing(cleared, c)

-----------------------------------------------------------------------------
Init ==
  /\ queue  = [t \in Teams |-> G_InitSpawnQueue]
  /\ client = [c \in Clients |->
       [connected |-> "DISCONNECTED", team |-> NoTeam, spec |-> "NOT",
        target |-> -1, num |-> 0, queued |-> FALSE, class |-> NoTeam]]

ClientConnect(c) ==
  /\ client[c].connected = "DISCONNECTED"
  /\ client' = [client EXCEPT ![c] =
       [connected |-> "CONNECTING", team |-> NoTeam, spec |-> "FREE",
        target |-> -1, num |-> 0, queued |-> FALSE, class |-> NoTeam]]
  /\ UNCHANGED queue

ClientBegin(c) ==
  /\ client[c].connected = "CONNECTING"
  /\ client' = [client EXCEPT ![c] =
       ClientSpawn([@ EXCEPT !.connected = "CONNECTED"], c, queue)]
  /\ UNCHANGED queue

ClientDisconnect(c) ==
  /\ client[c].connected # "DISCONNECTED"
  /\ queue'  = LeaveQueue(c)
  /\ client' = [LeaveClients(c) EXCEPT ![c].connected = "DISCONNECTED",
                                       ![c].spec = "NOT"]

(* The team command, putteam, spec999, inactivity and the like. *)
G_ChangeTeam(c, t) ==
  /\ Connected(c)
  /\ t # client[c].team
  /\ queue'  = LeaveQueue(c)
  /\ client' = [LeaveClients(c) EXCEPT ![c] =
       ClientSpawn([@ EXCEPT !.team = t, !.class = NoTeam], c, LeaveQueue(c))]

(* A class command of a dead team member: stop following, then queue up. *)
Cmd_Class_f(c) ==
  /\ Connected(c) /\ client[c].spec # "NOT"
  /\ LET t == client[c].team
         r == IF client[c].spec = "FOLLOW" THEN G_StopFollowing(client[c], c)
              ELSE client[c]
     IN  IF t \notin Teams \/ InQueue(t, c)
         THEN /\ client' = [client EXCEPT ![c] = r]
              /\ UNCHANGED queue
         ELSE /\ queue'  = [queue EXCEPT ![t] = G_PushSpawnQueue(@, c)]
              /\ client' = [client EXCEPT ![c] =
                   [r EXCEPT !.queued = TRUE, !.class = t]]

(* "follow <name>": ps is only replaced at the end of the frame. *)
Cmd_Follow_f(c, d) ==
  /\ c \in Followers /\ Connected(c) /\ client[c].spec # "NOT"
  /\ d # c /\ Connected(d)
  /\ c \in Sticky \/ client[d].spec = "NOT"
  /\ client[c].team \in {NoTeam, client[d].team}
  /\ client' = [client EXCEPT ![c].spec = "FOLLOW", ![c].target = d]
  /\ UNCHANGED queue

(* A bare "follow" while following. *)
G_ToggleFollow(c) ==
  /\ c \in Followers /\ Connected(c) /\ client[c].spec = "FOLLOW"
  /\ client' = [client EXCEPT ![c] = G_StopFollowing(@, c)]
  /\ UNCHANGED queue

(* "follownext", "followprev", and a bare "follow" while not following. *)
Cmd_FollowCycle_f(c, dir) ==
  /\ c \in Followers /\ Connected(c) /\ CanFollow(client, c)
  /\ client' = [client EXCEPT ![c] = FollowNext(client, c, dir)]
  /\ UNCHANGED queue

(* The attack button of a spectator: out of the queue if in it, otherwise  *)
(* only out of follow mode (and a menu).                                   *)
SpectatorAttack(c) ==
  /\ Connected(c) /\ client[c].spec # "NOT"
  /\ LET t == client[c].team
         r == IF client[c].spec = "FOLLOW" THEN G_StopFollowing(client[c], c)
              ELSE client[c]
     IN  IF t \in Teams /\ InQueue(t, c)
         THEN /\ queue' = [queue EXCEPT ![t] = G_RemoveFromSpawnQueue(@, r.num)]
              /\ client' = [client EXCEPT ![c] =
                   [r EXCEPT !.class = NoTeam, !.queued = FALSE]]
         ELSE /\ client' = [client EXCEPT ![c] = r]
              /\ UNCHANGED queue

(* SpectatorThink without the button refreshes the flag, unless the view   *)
(* is a living player's.                                                   *)
SpectatorThink(c) ==
  /\ Connected(c) /\ client[c].spec # "NOT"
  /\ client[c].team \in Teams /\ InQueue(client[c].team, c)
  /\ ~(client[c].spec = "FOLLOW" /\ client[client[c].target].spec = "NOT")
  /\ client' = [client EXCEPT ![c].queued = TRUE]
  /\ UNCHANGED queue

(* At the end of a frame a follower's ps becomes a copy of its target's,   *)
(* client number included.                                                 *)
SpectatorClientEndFrame(c) ==
  /\ Connected(c) /\ client[c].spec = "FOLLOW"
  /\ LET d == client[c].target
     IN  /\ d # -1 /\ Connected(d)
         /\ client' = [client EXCEPT ![c].num = client[d].num,
                                     ![c].queued = FALSE]
  /\ UNCHANGED queue

(* A dead player's respawn(): it must choose a class again, and the        *)
(* clients that watched it either look at its grave or at somebody else.   *)
respawn(c) ==
  /\ Connected(c) /\ client[c].spec = "NOT" /\ client[c].team \in Teams
  /\ LET dead == [client EXCEPT ![c] =
                    ClientSpawn([@ EXCEPT !.class = NoTeam], c, queue)]
     IN  client' = [i \in Clients |->
           IF dead[i].spec # "FOLLOW" \/ dead[i].target # c THEN dead[i]
           ELSE IF i \in Sticky THEN [dead[i] EXCEPT !.num = c]
           ELSE FollowOrStop(dead, i)]
  /\ UNCHANGED queue

(* Mutant: the popped client is left a spectator. *)
PopWithoutSpawning(t) ==
  /\ G_GetSpawnQueueLength(queue[t]) > 0
  /\ LET c == G_PeekSpawnQueue(queue[t])
         q == [queue EXCEPT ![t] = G_PopSpawnQueue(@)]
     IN  /\ queue'  = q
         /\ client' = [client EXCEPT ![c] =
              ClientSpawn(G_StopFollowing(@, c), c, q)]

(* One call of the frame's G_SpawnClients that finds a free spawn point. *)
G_SpawnClients(t) ==
  /\ G_GetSpawnQueueLength(queue[t]) > 0
  /\ LET c == G_PeekSpawnQueue(queue[t])
         q == [queue EXCEPT ![t] = G_PopSpawnQueue(@)]
     IN  /\ queue'  = q
         /\ client' = [client EXCEPT ![c] =
              ClientSpawn([G_StopFollowing(@, c) EXCEPT !.spec = "NOT"], c, q)]

-----------------------------------------------------------------------------
Next ==
  \/ \E c \in Clients :
       \/ ClientConnect(c)
       \/ ClientBegin(c)
       \/ ClientDisconnect(c)
       \/ \E t \in Teams \cup {NoTeam} : G_ChangeTeam(c, t)
       \/ Cmd_Class_f(c)
       \/ \E d \in Clients : Cmd_Follow_f(c, d)
       \/ G_ToggleFollow(c)
       \/ \E dir \in {1, -1} : Cmd_FollowCycle_f(c, dir)
       \/ SpectatorAttack(c)
       \/ SpectatorThink(c)
       \/ SpectatorClientEndFrame(c)
       \/ respawn(c)
  \/ \E t \in Teams : G_SpawnClients(t)

Spec == Init /\ [][Next]_vars

(* G_RunFrame calls G_SpawnClients for both teams in every frame, so a     *)
(* spawn that stays possible is not put off for ever.                      *)
Fairness == \A t \in Teams : WF_vars(G_SpawnClients(t))

FairSpec == Spec /\ Fairness

-----------------------------------------------------------------------------
TypeOK == /\ queue  \in [Teams -> Ring]
          /\ client \in [Clients -> ClientState]

(* The ring holds distinct client numbers in exactly the slots its length  *)
(* spans - or in all of them, when it is full and its length reads 0.  The *)
(* sentinel is therefore never peeked at, popped or overtaken, whatever    *)
(* sequence of pushes, pops and removals from the middle came before.      *)
RingOK(q) ==
  /\ \/ \A s \in Slots : (q.clients[s] # Nobody)
                            <=> Offset(q, s) < G_GetSpawnQueueLength(q)
     \/ /\ G_GetSpawnQueueLength(q) = 0
        /\ \A s \in Slots : q.clients[s] # Nobody
  /\ \A r, s \in Slots : q.clients[r] = q.clients[s] /\ r # s
                            => q.clients[r] = Nobody

RingsOK == \A t \in Teams : RingOK(queue[t]) /\ Members(queue[t]) \subseteq Clients

(* Whoever stands in a team's queue is a connected member of that team who *)
(* has chosen one of its classes and is not playing: what G_SpawnClients   *)
(* takes for granted when it turns the head of the queue into a player.    *)
QueuedIsWaiting ==
  \A t \in Teams : \A c \in Members(queue[t]) :
    /\ Connected(c) /\ client[c].spec # "NOT"
    /\ client[c].team = t /\ client[c].class = t

(* Nobody loses the place in the queue behind its back: a step that takes  *)
(* a client out spawns it, disconnects it or undoes its class or team.     *)
LeavesKnowingly ==
  [][\A t \in Teams : \A c \in Members(queue[t]) \ Members(queue'[t]) :
       \/ client'[c].spec = "NOT"
       \/ client'[c].class # client[c].class]_vars

(* Leaving a team, by the team command or by disconnecting, removes the    *)
(* specific client that leaves from that team's queue.                     *)
LeaverIsRemoved ==
  [][\A c \in Clients :
       LET t == client[c].team
       IN  /\ t \in Teams
           /\ client[c].connected # "DISCONNECTED"
           /\ client'[c].team # t \/ client'[c].connected = "DISCONNECTED"
           => c \notin Members(queue'[t])]_vars

(* What the code keeps of it, whoever follows whom: the number G_LeaveTeam *)
(* reads in the leaver's ps names who is taken out of the leaver's queue,  *)
(* unless every slot is taken, and nobody else; and that number is the     *)
(* leaver's own, save while it follows somebody.  LeaverIsRemoved fails    *)
(* for the followers that carry another number, and for nobody else.       *)
LeaverIsRemovedByNumber ==
  [][\A c \in Clients :
       LET t == client[c].team
       IN  /\ t \in Teams
           /\ client[c].connected # "DISCONNECTED"
           /\ client'[c].team # t \/ client'[c].connected = "DISCONNECTED"
           => /\ Members(queue'[t]) =
                   IF \A s \in Slots : queue[t].clients[s] # Nobody
                   THEN Members(queue[t])
                   ELSE Members(queue[t]) \ {client[c].num}
              /\ client[c].spec # "FOLLOW" => client[c].num = c]_vars

(* While spawn points stay available, everybody in a queue leaves it. *)
QueuedIsServed ==
  \A t \in Teams : \A c \in Clients : InQueue(t, c) ~> ~InQueue(t, c)
=============================================================================

------------------------------- MODULE Voting --------------------------------
(***************************************************************************)
(* Public and team votes of the game module: calling and casting votes,    *)
(* the tally that follows players who leave, the decision G_CheckVote      *)
(* takes every frame, the delayed execution of what passed, and what the   *)
(* intermission and the change of level do to all of it.                   *)
(*                                                                         *)
(* One Frame is one call of G_RunFrame.  Times are relative: age is        *)
(* level.time - voteTime and due is voteExecuteTime - level.time, both in  *)
(* frames.                                                                 *)
(***************************************************************************)
EXTENDS Integers, FiniteSets

CONSTANTS
  Clients,          \* the client slots
  Teams,            \* the playing teams, which have team votes
  NoTeam,           \* TEAM_NONE: spectators, and the slot of public votes
  Kinds,            \* rows of voteInfo
  VoteInfo,         \* voteInfo[] with the values of its percentage cvars
  VOTE_TIME,        \* frames until a vote times out
  IntermissionMin,  \* frames of intermission before it may be left
  MaxDrift          \* bound of this model: how far below zero leaving again
                    \* and again may take a team's tally

Votes      == Teams \cup {NoTeam}
NotRunning == -1    \* voteTime = 0
Nothing    == -1    \* voteExecuteTime = 0

ASSUME VotingAssumption ==
  /\ IsFiniteSet(Clients)
  /\ NoTeam \notin Teams /\ Kinds # {}
  /\ VoteInfo \in [Kinds -> [type : {"TEAM", "PUBLIC", "ANY"}, stop : BOOLEAN,
                             quorum : BOOLEAN, auto : BOOLEAN, map : BOOLEAN,
                             percent : 1 .. 100, delay : Nat]]
  /\ VOTE_TIME \in Nat \ {0} /\ IntermissionMin \in Nat /\ MaxDrift \in Nat

VARIABLES
  vote,     \* level.team[t]: the vote of each team and the public one
  client,   \* the engine's and the game's view of each client slot
  match     \* level.intermissiontime and level.restarted

vars == <<vote, client, match>>

(* voteType stands for threshold, quorum, delay and string, which are set  *)
(* with it and read only while the vote runs or waits to be executed.      *)
VoteState == [kind : Kinds, age : NotRunning .. VOTE_TIME,
              due : {Nothing} \cup Nat, yes : Int, no : Int, voted : Int]

(* present: the engine holds a client in the slot.  voted, yes and no are  *)
(* the bit masks pers.voted, pers.voteYes and pers.voteNo.                 *)
ClientState == [present : BOOLEAN,
                connected : {"DISCONNECTED", "CONNECTING", "CONNECTED"},
                team : Votes, voted : SUBSET Votes,
                yes : SUBSET Votes, no : SUBSET Votes]

MatchState == [intermission : BOOLEAN, restarted : BOOLEAN,
               age : 0 .. IntermissionMin]

Running(t)     == vote[t].age # NotRunning
Pending(t)     == vote[t].due # Nothing
Connected(c)   == client[c].present /\ client[c].connected = "CONNECTED"
InfoOf(t)      == VoteInfo[vote[t].kind]

(* CalculateRanks: connecting clients count for public votes only. *)
Voters(cl, t) ==
  IF t = NoTeam THEN {c \in Clients : cl[c].connected # "DISCONNECTED"}
  ELSE {c \in Clients : cl[c].connected = "CONNECTED" /\ cl[c].team = t}
numVotingClients(t) == Cardinality(Voters(client, t))

-----------------------------------------------------------------------------
(* The decision.  Percentages are compared exactly.                        *)

(* floor(powf(n, 0.6)): the largest k whose fifth power n cubed has room for *)
FifthPower(k) == k * k * k * k * k
QuorumOf(n) ==
  CHOOSE k \in 0 .. n : FifthPower(k) <= n * n * n /\ FifthPower(k + 1) > n * n * n

(* voteYes / (voteYes + voteNo) > threshold in floating point: a sum of    *)
(* zero gives an infinite share.                                           *)
ShareAbove(y, n, percent) ==
  \/ y + n > 0 /\ 100 * y > percent * (y + n)
  \/ y + n < 0 /\ 100 * y < percent * (y + n)
  \/ y + n = 0 /\ y > 0

AtEnd(v, n) == v.age >= VOTE_TIME \/ v.yes + v.no = n

(* Mutant: an early majority of the votes cast is enough. *)
EarlyPassOfCast(v, n, percent) == 100 * v.yes > percent * (v.yes + v.no)

EarlyPass(v, n, percent) == 100 * v.yes > percent * n
EarlyFail(v, n, percent) == 100 * v.no > (100 - percent) * n

(* Mutant: a vote never times out. *)
DecidedByBallots(v, n) ==
  LET percent == VoteInfo[v.kind].percent
  IN  v.yes + v.no = n \/ EarlyPass(v, n, percent) \/ EarlyFail(v, n, percent)

Decided(v, n) ==
  LET percent == VoteInfo[v.kind].percent
  IN  AtEnd(v, n) \/ EarlyPass(v, n, percent) \/ EarlyFail(v, n, percent)

Passes(v, n) ==
  LET percent == VoteInfo[v.kind].percent
  IN  /\ IF AtEnd(v, n) THEN v.yes # 0 /\ ShareAbove(v.yes, v.no, percent)
                        ELSE EarlyPass(v, n, percent)
      /\ VoteInfo[v.kind].quorum => v.voted >= QuorumOf(n)

G_ResetVote(v) ==
  [kind |-> v.kind, age |-> NotRunning, due |-> v.due,
   yes |-> 0, no |-> 0, voted |-> 0]
ResetBits(cl, ts) ==
  [c \in Clients |-> [cl[c] EXCEPT !.voted = @ \ ts, !.yes = @ \ ts,
                                   !.no = @ \ ts]]

(* The part of G_CheckVote for a running vote. *)
Ends(v, n) == v.age # NotRunning /\ Decided(v, n)
G_CheckVote(v, n) ==
  IF ~Ends(v, n) THEN v
  ELSE [G_ResetVote(v) EXCEPT
          !.due = IF Passes(v, n) THEN VoteInfo[v.kind].delay ELSE @]

(* G_Vote: one ballot of a client more or less in the tally. *)
Tally(v, t, r, by) ==
  [v EXCEPT !.voted = @ + by,
            !.yes = @ + IF t \in r.yes THEN by ELSE 0,
            !.no  = @ + IF t \in r.no  THEN by ELSE 0]

(* G_Vote with voting = qfalse, for the teams ts a client leaves.  The     *)
(* bits in pers stay set.                                                  *)
Retract(c, ts) ==
  [t \in Votes |-> IF t \in ts /\ Running(t) /\ t \in client[c].voted
                   THEN Tally(vote[t], t, client[c], -1) ELSE vote[t]]

-----------------------------------------------------------------------------
(* Intermission and exit.                                                  *)

(* G_ClearVotes(qfalse) *)
G_ClearVotes(vt) ==
  [t \in Votes |-> IF vt[t].age # NotRunning /\ VoteInfo[vt[t].kind].stop
                   THEN [vt[t] EXCEPT !.age = NotRunning] ELSE vt[t]]

G_VotesRunning(vt) == \E t \in Votes : vt[t].age # NotRunning

ExitLevel(cl) ==
  [c \in Clients |-> [cl[c] EXCEPT !.connected =
                        IF @ = "CONNECTED" THEN "CONNECTING" ELSE @]]

(* CheckIntermissionExit, called from G_RunFrame and from CalculateRanks:  *)
(* the states it can leave behind.  Who is ready to go on is left open; an *)
(* intermission without clients is left at once.                           *)
CheckIntermissionExit(vt, cl, m) ==
  LET empty  == Voters(cl, NoTeam) = {}
      may    == m.intermission /\ ~G_VotesRunning(vt)
                /\ (empty \/ m.age >= IntermissionMin)
      stays  == [vote |-> vt, client |-> cl, match |-> m]
      leaves == [vote |-> vt, client |-> ExitLevel(cl),
                 match |-> [intermission |-> FALSE, restarted |-> TRUE, age |-> 0]]
  IN  IF ~may THEN {stays} ELSE IF empty THEN {leaves} ELSE {stays, leaves}

(* BeginIntermission, one second after the match was decided; by what is   *)
(* left open.                                                              *)
BeginIntermission(vt, cl) ==
  [vote |-> G_ClearVotes(vt), client |-> cl,
   match |-> [intermission |-> TRUE, restarted |-> FALSE, age |-> 0]]

CheckExitRules(vt, cl, m) ==
  CheckIntermissionExit(vt, cl, m) \cup
    IF m.intermission THEN {} ELSE {BeginIntermission(vt, cl)}

Becomes(o) == vote' = o.vote /\ client' = o.client /\ match' = o.match

(* The end of every handler that calls CalculateRanks. *)
CalculateRanks(vt, cl) ==
  \E o \in CheckIntermissionExit(vt, cl, match) : Becomes(o)

-----------------------------------------------------------------------------
NewVote == [kind |-> CHOOSE k \in Kinds : TRUE, age |-> NotRunning,
            due |-> Nothing, yes |-> 0, no |-> 0, voted |-> 0]
NewClient(present, connected) ==
  [present |-> present, connected |-> connected, team |-> NoTeam,
   voted |-> {}, yes |-> {}, no |-> {}]

Init ==
  /\ vote = [t \in Votes |-> NewVote]
  /\ client = [c \in Clients |-> NewClient(FALSE, "DISCONNECTED")]
  /\ match = [intermission |-> FALSE, restarted |-> FALSE, age |-> 0]

(* A slot that the game already holds to be connecting is let in as it is. *)
ClientConnect(c) ==
  /\ ~client[c].present
  /\ IF client[c].connected = "DISCONNECTED"
     THEN CalculateRanks(vote, [client EXCEPT ![c] = NewClient(TRUE, "CONNECTING")])
     ELSE /\ client' = [client EXCEPT ![c].present = TRUE]
          /\ UNCHANGED <<vote, match>>

(* ClientConnect refused by ClientUserinfoChanged: pers.connected is set. *)
ClientRefused(c) ==
  /\ ~client[c].present /\ client[c].connected = "DISCONNECTED"
  /\ client' = [client EXCEPT ![c] = NewClient(FALSE, "CONNECTING")]
  /\ UNCHANGED <<vote, match>>

ClientBegin(c) ==
  /\ client[c].present /\ client[c].connected = "CONNECTING"
  /\ CalculateRanks(vote, [client EXCEPT ![c].connected = "CONNECTED"])

(* Mutant: a leaving client's public vote stays in the tally. *)
DisconnectKeepingVote(c) ==
  /\ client[c].present
  /\ CalculateRanks(Retract(c, {client[c].team} \ {NoTeam}),
       [client EXCEPT ![c].present = FALSE, ![c].connected = "DISCONNECTED"])

ClientDisconnect(c) ==
  /\ client[c].present
  /\ CalculateRanks(Retract(c, {client[c].team, NoTeam}),
       [client EXCEPT ![c].present = FALSE, ![c].connected = "DISCONNECTED"])

(* G_LeaveTeam does nothing about votes for a spectator.  The third conjunct *)
(* bounds the model.                                                       *)
G_ChangeTeam(c, t) ==
  /\ Connected(c) /\ t # client[c].team
  /\ vote[client[c].team].voted >= 1 - MaxDrift
  /\ CalculateRanks(Retract(c, {client[c].team} \ {NoTeam}),
                    [client EXCEPT ![c].team = t])

Callable(t, k) == VoteInfo[k].type \in
  IF t = NoTeam THEN {"PUBLIC", "ANY"} ELSE {"TEAM", "ANY"}

(* Mutant: what the last vote decided goes on waiting. *)
CalledOverPending(t, k) ==
  [kind |-> k, age |-> 0, due |-> vote[t].due, yes |-> 0, no |-> 0, voted |-> 0]

(* The vote that runs from now on. *)
Called(t, k) ==
  [kind |-> k, age |-> 0, due |-> Nothing, yes |-> 0, no |-> 0, voted |-> 0]

(* G_ExecuteVote: a vote for another map ends this level. *)
AfterExecuting(ts) ==
  IF \E t \in ts : InfoOf(t).map THEN [match EXCEPT !.restarted = TRUE] ELSE match

(* Cmd_CallVote_f: whatever waits is executed now, the old vote is reset,  *)
(* and then the call succeeds ...                                          *)
CallVote(c, t, k) ==
  /\ Connected(c) /\ ~match.intermission
  /\ t \in {client[c].team, NoTeam} /\ ~Running(t) /\ Callable(t, k)
  /\ match' = AfterExecuting({t} \cap {u \in Votes : Pending(u)})
  /\ LET cl == ResetBits(client, {t})
         r  == [cl[c] EXCEPT !.voted = @ \cup {t}, !.yes = @ \cup {t}]
     IN  IF VoteInfo[k].auto
         THEN /\ client' = [cl EXCEPT ![c] = r]
              /\ vote' = [vote EXCEPT ![t] = Tally(Called(t, k), t, r, 1)]
         ELSE client' = cl /\ vote' = [vote EXCEPT ![t] = Called(t, k)]

(* ... or is refused for one of its many reasons. *)
CallVoteRefused(c, t) ==
  /\ Connected(c) /\ ~match.intermission
  /\ t \in {client[c].team, NoTeam} /\ ~Running(t)
  /\ match' = AfterExecuting({t} \cap {u \in Votes : Pending(u)})
  /\ vote' = [vote EXCEPT ![t] = [G_ResetVote(@) EXCEPT !.due = Nothing]]
  /\ client' = ResetBits(client, {t})

(* Cmd_Vote_f; an answer that is neither yes nor no is cast as well. *)
Cmd_Vote_f(c, t, answer) ==
  /\ Connected(c)
  /\ t \in {client[c].team, NoTeam} /\ Running(t) /\ t \notin client[c].voted
  /\ LET r == [client[c] EXCEPT
                 !.voted = @ \cup {t},
                 !.yes = IF answer = "yes" THEN @ \cup {t} ELSE @,
                 !.no  = IF answer = "no"  THEN @ \cup {t} ELSE @]
     IN  /\ client' = [client EXCEPT ![c] = r]
         /\ vote' = [vote EXCEPT ![t] = Tally(@, t, r, 1)]
  /\ UNCHANGED match

(* An admin's endvote or cancelvote; with everybody counted as having voted *)
(* the quorum, which the code turns off, is always met.                    *)
G_admin_endvote(t, cancel) ==
  /\ Running(t)
  /\ LET n == numVotingClients(t)
         v == [vote[t] EXCEPT !.no = IF cancel THEN n ELSE 0,
                              !.yes = IF cancel THEN 0 ELSE n,
                              !.voted = n]
     IN  vote' = [vote EXCEPT ![t] = G_CheckVote(v, n)]
  /\ client' = ResetBits(client, {t})
  /\ UNCHANGED match

(* Mutant: the time to execution runs on when nothing waits. *)
TickPast(v) ==
  [v EXCEPT !.age = IF @ \in 0 .. (VOTE_TIME - 1) THEN @ + 1 ELSE @,
            !.due = @ - 1]

(* Mutant: what is due now is not executed. *)
TickUntilDue(v) ==
  [v EXCEPT !.age = IF @ \in 0 .. (VOTE_TIME - 1) THEN @ + 1 ELSE @,
            !.due = IF @ \in {Nothing, 0} THEN @ ELSE @ - 1]

(* voteTime and voteExecuteTime as level.time moves on: a vote due in this *)
(* frame is executed.                                                      *)
Tick(v) ==
  [v EXCEPT !.age = IF @ \in 0 .. (VOTE_TIME - 1) THEN @ + 1 ELSE @,
            !.due = IF @ = Nothing THEN @ ELSE @ - 1]

TickMatch(m) ==
  [m EXCEPT !.age = IF m.intermission /\ @ < IntermissionMin THEN @ + 1 ELSE @]

(* G_RunFrame, as far as votes go: time passes, the exit rules are checked *)
(* and then every vote, with the number of voters last calculated.         *)
Frame ==
  /\ ~match.restarted
  /\ \E o \in CheckExitRules([t \in Votes |-> Tick(vote[t])], client, TickMatch(match)) :
       LET executed == {t \in Votes : vote[t].due = 0}
           over     == {t \in Votes : Ends(o.vote[t], numVotingClients(t))}
       IN  /\ vote' = [t \in Votes |-> G_CheckVote(o.vote[t], numVotingClients(t))]
           /\ client' = ResetBits(o.client, over)
           /\ match' = [o.match EXCEPT !.restarted =
                          @ \/ \E t \in executed : InfoOf(t).map]

(* The next level: the game module starts afresh and the engine connects   *)
(* its clients again, to their old teams after a restart that keeps them.  *)
NewLevel ==
  /\ match.restarted
  /\ vote' = [t \in Votes |-> NewVote]
  /\ match' = [intermission |-> FALSE, restarted |-> FALSE, age |-> 0]
  /\ \E keepteams \in BOOLEAN : client' = [c \in Clients |->
       IF client[c].present
       THEN [NewClient(TRUE, "CONNECTING") EXCEPT
               !.team = IF keepteams THEN client[c].team ELSE @]
       ELSE NewClient(FALSE, "DISCONNECTED")]

ClientStep(c) ==
  \/ ClientConnect(c) \/ ClientRefused(c) \/ ClientBegin(c)
  \/ ClientDisconnect(c)
  \/ \E t \in Votes : G_ChangeTeam(c, t) \/ CallVoteRefused(c, t)
  \/ \E t \in Votes, k \in Kinds : CallVote(c, t, k)
  \/ \E t \in Votes, answer \in {"yes", "no", "other"} : Cmd_Vote_f(c, t, answer)

Next ==
  \/ \E c \in Clients : ClientStep(c)
  \/ \E t \in Votes, cancel \in BOOLEAN : G_admin_endvote(t, cancel)
  \/ Frame
  \/ NewLevel

Spec == Init /\ [][Next]_vars

(* A frame that neither begins the intermission nor leaves it, unless it   *)
(* must: nobody has to win the match or to be ready.                       *)
PlainFrame ==
  /\ Frame
  /\ match'.intermission # match.intermission
       => match.intermission /\ Voters(client, NoTeam) = {}

(* The server runs a frame whatever the clients do (a pause ends by itself *)
(* after two minutes), and a queued map command is executed.               *)
FairSpec == Spec /\ WF_vars(PlainFrame) /\ WF_vars(NewLevel)
-----------------------------------------------------------------------------
(* Every component has its type; no client record has a bit for a team it  *)
(* could not vote in (level.team[t], pers).                                *)
TypeOK ==
  /\ vote \in [Votes -> VoteState] /\ client \in [Clients -> ClientState]
  /\ match \in MatchState

(* The clients whose ballot should be in the tally of t. *)
Cast(cl, t)    == {c \in Voters(cl, t) : t \in cl[c].voted}
CastYes(cl, t) == {c \in Cast(cl, t) : t \in cl[c].yes}
CastNo(cl, t)  == {c \in Cast(cl, t) : t \in cl[c].no}

TallyMatches(v, cl, t) ==
  v.age # NotRunning => /\ v.voted = Cardinality(Cast(cl, t))
                        /\ v.yes = Cardinality(CastYes(cl, t))
                        /\ v.no = Cardinality(CastNo(cl, t))

(* While a public vote runs, its three counters are exactly the ballots of *)
(* the clients on the server, whoever came, voted, left or came back since *)
(* it was called: G_Vote's increments and decrements and the bits in pers  *)
(* never drift apart.                                                      *)
PublicTallyIsBallots == TallyMatches(vote[NoTeam], client, NoTeam)

(* The same for a team: whoever is told "vote already cast" has a ballot   *)
(* in the tally of his team (Cmd_Vote_f, G_Vote).                          *)
TeamTallyIsBallots == \A t \in Teams : TallyMatches(vote[t], client, t)

(* A public vote that is decided before it times out and before everybody  *)
(* voted is decided as it would have been had all the others voted too, in *)
(* whatever way (the two early branches of G_CheckVote and the quorum).    *)
EarlyEndIsFinal ==
  [][Frame =>
       LET v    == Tick(vote[NoTeam])
           n    == numVotingClients(NoTeam)
           rest == n - v.yes - v.no
       IN  Ends(v, n) /\ v.age < VOTE_TIME /\ vote'[NoTeam].age = NotRunning
             /\ ~(VoteInfo[v.kind].stop /\ match'.intermission)
           => \A y \in 0 .. rest :
                (vote'[NoTeam].due # Nothing) <=> Passes(
                   [v EXCEPT !.yes = @ + y, !.no = @ + rest - y, !.voted = @ + rest], n)]_vars

(* What passed is kept until it is executed: no new vote, and so no new    *)
(* vote string, overlaps one that waits for its voteExecuteTime            *)
(* (Cmd_CallVote_f, G_CheckVote).                                          *)
NeverRunningAndPending == \A t \in Votes : ~(Running(t) /\ Pending(t))

(* A public vote that passes by itself has a yes from a client on the      *)
(* server, and among the ballots of those still there more than the        *)
(* threshold's share say yes.                                              *)
PassIsBacked ==
  [][Frame /\ vote[NoTeam].due = Nothing /\ vote'[NoTeam].due # Nothing =>
       LET yes == Cardinality(CastYes(client, NoTeam))
           no  == Cardinality(CastNo(client, NoTeam))
       IN  yes > 0 /\ 100 * yes > InfoOf(NoTeam).percent * (yes + no)]_vars

(* Every vote ends: nothing the clients do keeps one alive (G_CheckVote's  *)
(* timeout).                                                               *)
VoteEnds == \A t \in Votes : Running(t) ~> ~Running(t)

(* What passed is executed, or its level is over (G_CheckVote's first      *)
(* lines).                                                                 *)
PassedIsExecuted == \A t \in Votes : Pending(t) ~> ~Pending(t)
=============================================================================

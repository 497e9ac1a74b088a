---------------------------- MODULE Voting_proof -----------------------------
(***************************************************************************)
(* For every number of clients and teams, every table of votes and all     *)
(* time limits: types are kept, a running vote never overlaps one that     *)
(* waits to be executed, the public tally is the ballots of the clients on *)
(* the server, what passes has their majority, and what is decided early   *)
(* is decided as the full count would decide it.                           *)
(***************************************************************************)
EXTENDS Voting, Lemmas_proof, FiniteSetTheorems, TLAPS

(* The engine's clients are clients of the game too. *)
PresentIsConnected(cl) ==
  \A c \in Clients : cl[c].present => cl[c].connected # "DISCONNECTED"

Exclusive(v) == ~(v.age # NotRunning /\ v.due # Nothing)

(* What every handler keeps, as an operator of the two variables, because  *)
(* handlers pass intermediate values of them on.                           *)
Sound(vt, cl) ==
  /\ vt \in [Votes -> VoteState]
  /\ cl \in [Clients -> ClientState]
  /\ PresentIsConnected(cl)
  /\ \A t \in Votes : Exclusive(vt[t])
  /\ TallyMatches(vt[NoTeam], cl, NoTeam)

IInv == Sound(vote, client) /\ match \in MatchState

(* Sets of clients are finite, and counting follows one client. *)
LEMMA Counting ==
  ASSUME NEW S, S \subseteq Clients
  PROVE  /\ Cardinality(S) \in Nat
         /\ \A c : c \notin S => Cardinality(S \cup {c}) = Cardinality(S) + 1
         /\ \A c \in S : Cardinality(S \ {c}) = Cardinality(S) - 1
  <1>1. IsFiniteSet(S)
    BY VotingAssumption, FS_Subset
  <1> QED
    BY <1>1, FS_CardinalityType, FS_AddElement, FS_RemoveElement

(* A record that counts as a public ballot. *)
HasBallot(r) == r.connected # "DISCONNECTED" /\ NoTeam \in r.voted

(* The three sets of voters once client c has the record r. *)
CountsWith(cl, c, r) ==
  LET new == [cl EXCEPT ![c] = r]
  IN  /\ Cast(new, NoTeam) =
           IF HasBallot(r) THEN Cast(cl, NoTeam) \cup {c} ELSE Cast(cl, NoTeam) \ {c}
      /\ CastYes(new, NoTeam) =
           IF HasBallot(r) /\ NoTeam \in r.yes
           THEN CastYes(cl, NoTeam) \cup {c} ELSE CastYes(cl, NoTeam) \ {c}
      /\ CastNo(new, NoTeam) =
           IF HasBallot(r) /\ NoTeam \in r.no
           THEN CastNo(cl, NoTeam) \cup {c} ELSE CastNo(cl, NoTeam) \ {c}
      /\ c \in Cast(cl, NoTeam) <=> HasBallot(cl[c])
      /\ c \in CastYes(cl, NoTeam) <=> HasBallot(cl[c]) /\ NoTeam \in cl[c].yes
      /\ c \in CastNo(cl, NoTeam) <=> HasBallot(cl[c]) /\ NoTeam \in cl[c].no
      /\ Cast(cl, NoTeam) \subseteq Clients
      /\ CastYes(cl, NoTeam) \subseteq Clients
      /\ CastNo(cl, NoTeam) \subseteq Clients

(* One client's record decides how the three sets of voters change. *)
LEMMA BallotSets ==
  ASSUME NEW cl \in [Clients -> ClientState], NEW c \in Clients, NEW r \in ClientState
  PROVE  CountsWith(cl, c, r)
  BY DEF CountsWith, Cast, CastYes, CastNo, Voters, HasBallot

(* Records that agree on what counts have the same voters. *)
LEMMA SameBallots ==
  ASSUME NEW cl \in [Clients -> ClientState], NEW new \in [Clients -> ClientState],
         \A c \in Clients :
           /\ new[c].connected = "DISCONNECTED" <=> cl[c].connected = "DISCONNECTED"
           /\ NoTeam \in new[c].voted <=> NoTeam \in cl[c].voted
           /\ NoTeam \in new[c].yes <=> NoTeam \in cl[c].yes
           /\ NoTeam \in new[c].no <=> NoTeam \in cl[c].no
  PROVE  /\ Cast(new, NoTeam) = Cast(cl, NoTeam)
         /\ CastYes(new, NoTeam) = CastYes(cl, NoTeam)
         /\ CastNo(new, NoTeam) = CastNo(cl, NoTeam)
  BY DEF Cast, CastYes, CastNo, Voters

LEMMA TallyTypes ==
  ASSUME NEW v \in VoteState, NEW t, NEW r, NEW by \in {-1, 1}
  PROVE  /\ Tally(v, t, r, by) \in VoteState
         /\ Tally(v, t, r, by).age = v.age /\ Tally(v, t, r, by).due = v.due
  <1>1. \A b \in BOOLEAN : (IF b THEN by ELSE 0) \in Int
    OBVIOUS
  <1>2. /\ v.voted + by \in Int
        /\ v.yes + (IF t \in r.yes THEN by ELSE 0) \in Int
        /\ v.no + (IF t \in r.no THEN by ELSE 0) \in Int
    BY <1>1 DEF VoteState
  <1> QED
    BY <1>2 DEF Tally, VoteState

(* A public ballot comes or goes together with its place in the tally. *)
LEMMA BallotAdded ==
  ASSUME NEW cl \in [Clients -> ClientState], NEW c \in Clients, NEW r \in ClientState,
         NEW v \in VoteState, TallyMatches(v, cl, NoTeam), v.age # NotRunning,
         ~HasBallot(cl[c]), HasBallot(r)
  PROVE  TallyMatches(Tally(v, NoTeam, r, 1), [cl EXCEPT ![c] = r], NoTeam)
  <1> DEFINE new == [cl EXCEPT ![c] = r]
  <1>0. CountsWith(cl, c, r)
    BY BallotSets
  <1>1. /\ Cast(new, NoTeam) = Cast(cl, NoTeam) \cup {c} /\ c \notin Cast(cl, NoTeam)
        /\ c \notin CastYes(cl, NoTeam) /\ c \notin CastNo(cl, NoTeam)
        /\ CastYes(new, NoTeam) = IF NoTeam \in r.yes THEN CastYes(cl, NoTeam) \cup {c}
                                  ELSE CastYes(cl, NoTeam)
        /\ CastNo(new, NoTeam) = IF NoTeam \in r.no THEN CastNo(cl, NoTeam) \cup {c}
                                 ELSE CastNo(cl, NoTeam)
    BY <1>0 DEF CountsWith
  <1>2. /\ Cardinality(Cast(new, NoTeam)) = Cardinality(Cast(cl, NoTeam)) + 1
        /\ Cardinality(CastYes(new, NoTeam)) = Cardinality(CastYes(cl, NoTeam))
                                               + IF NoTeam \in r.yes THEN 1 ELSE 0
        /\ Cardinality(CastNo(new, NoTeam)) = Cardinality(CastNo(cl, NoTeam))
                                              + IF NoTeam \in r.no THEN 1 ELSE 0
    <2>1. /\ Cast(cl, NoTeam) \subseteq Clients /\ CastYes(cl, NoTeam) \subseteq Clients
          /\ CastNo(cl, NoTeam) \subseteq Clients
      BY <1>0 DEF CountsWith
    <2>2. Cardinality(Cast(new, NoTeam)) = Cardinality(Cast(cl, NoTeam)) + 1
      BY <1>1, <2>1, Counting
    <2>3. Cardinality(CastYes(new, NoTeam)) = Cardinality(CastYes(cl, NoTeam))
                                              + IF NoTeam \in r.yes THEN 1 ELSE 0
      BY <1>1, <2>1, Counting
    <2>4. Cardinality(CastNo(new, NoTeam)) = Cardinality(CastNo(cl, NoTeam))
                                             + IF NoTeam \in r.no THEN 1 ELSE 0
      BY <1>1, <2>1, Counting
    <2> QED
      BY <2>2, <2>3, <2>4
  <1> QED
    BY <1>2 DEF TallyMatches, Tally, VoteState

LEMMA BallotRemoved ==
  ASSUME NEW cl \in [Clients -> ClientState], NEW c \in Clients, NEW r \in ClientState,
         NEW v \in VoteState, TallyMatches(v, cl, NoTeam), v.age # NotRunning,
         HasBallot(cl[c]), ~HasBallot(r)
  PROVE  TallyMatches(Tally(v, NoTeam, cl[c], -1), [cl EXCEPT ![c] = r], NoTeam)
  <1> DEFINE new == [cl EXCEPT ![c] = r]
  <1>0. CountsWith(cl, c, r)
    BY BallotSets
  <1>1. /\ Cast(new, NoTeam) = Cast(cl, NoTeam) \ {c} /\ c \in Cast(cl, NoTeam)
        /\ CastYes(new, NoTeam) = CastYes(cl, NoTeam) \ {c}
        /\ c \in CastYes(cl, NoTeam) <=> NoTeam \in cl[c].yes
        /\ CastNo(new, NoTeam) = CastNo(cl, NoTeam) \ {c}
        /\ c \in CastNo(cl, NoTeam) <=> NoTeam \in cl[c].no
    BY <1>0 DEF CountsWith
  <1>2. /\ Cast(cl, NoTeam) \subseteq Clients /\ CastYes(cl, NoTeam) \subseteq Clients
        /\ CastNo(cl, NoTeam) \subseteq Clients
    BY <1>0 DEF CountsWith
  <1>3. Cardinality(Cast(new, NoTeam)) = Cardinality(Cast(cl, NoTeam)) - 1
    BY <1>1, <1>2, Counting
  <1>4. Cardinality(CastYes(new, NoTeam)) = Cardinality(CastYes(cl, NoTeam))
                                            + IF NoTeam \in cl[c].yes THEN -1 ELSE 0
    <2>1. CASE NoTeam \in cl[c].yes
      BY <2>1, <1>1, <1>2, Counting
    <2>2. CASE NoTeam \notin cl[c].yes
      <3>1. CastYes(new, NoTeam) = CastYes(cl, NoTeam)
        BY <2>2, <1>1
      <3> QED
        BY <3>1, <2>2, <1>2, Counting
    <2> QED
      BY <2>1, <2>2
  <1>5. Cardinality(CastNo(new, NoTeam)) = Cardinality(CastNo(cl, NoTeam))
                                           + IF NoTeam \in cl[c].no THEN -1 ELSE 0
    <2>1. CASE NoTeam \in cl[c].no
      BY <2>1, <1>1, <1>2, Counting
    <2>2. CASE NoTeam \notin cl[c].no
      <3>1. CastNo(new, NoTeam) = CastNo(cl, NoTeam)
        BY <2>2, <1>1
      <3> QED
        BY <3>1, <2>2, <1>2, Counting
    <2> QED
      BY <2>1, <2>2
  <1> QED
    BY <1>3, <1>4, <1>5 DEF TallyMatches, Tally, VoteState

LEMMA NoBallot ==
  ASSUME NEW cl \in [Clients -> ClientState], NEW c \in Clients, NEW r \in ClientState,
         NEW v \in VoteState, TallyMatches(v, cl, NoTeam),
         ~HasBallot(cl[c]), ~HasBallot(r)
  PROVE  TallyMatches(v, [cl EXCEPT ![c] = r], NoTeam)
  <1> DEFINE new == [cl EXCEPT ![c] = r]
  <1>0. CountsWith(cl, c, r)
    BY BallotSets
  <1>1. /\ Cast(new, NoTeam) = Cast(cl, NoTeam)
        /\ CastYes(new, NoTeam) = CastYes(cl, NoTeam)
        /\ CastNo(new, NoTeam) = CastNo(cl, NoTeam)
    BY <1>0 DEF CountsWith
  <1> QED
    BY <1>1 DEF TallyMatches

LEMMA SameTally ==
  ASSUME NEW cl \in [Clients -> ClientState], NEW new \in [Clients -> ClientState],
         NEW v \in VoteState, TallyMatches(v, cl, NoTeam),
         \A c \in Clients :
           /\ new[c].connected = "DISCONNECTED" <=> cl[c].connected = "DISCONNECTED"
           /\ NoTeam \in new[c].voted <=> NoTeam \in cl[c].voted
           /\ NoTeam \in new[c].yes <=> NoTeam \in cl[c].yes
           /\ NoTeam \in new[c].no <=> NoTeam \in cl[c].no
  PROVE  TallyMatches(v, new, NoTeam)
  BY SameBallots DEF TallyMatches

-----------------------------------------------------------------------------
(* Clearing the bits of other votes keeps the public tally; clearing its   *)
(* own leaves nobody in it.                                                *)
LEMMA BitsReset ==
  ASSUME NEW cl \in [Clients -> ClientState], NEW ts \in SUBSET Votes
  PROVE  /\ ResetBits(cl, ts) \in [Clients -> ClientState]
         /\ PresentIsConnected(cl) => PresentIsConnected(ResetBits(cl, ts))
         /\ NoTeam \in ts => \A c \in Clients : ~HasBallot(ResetBits(cl, ts)[c])
         /\ \A v \in VoteState : NoTeam \notin ts /\ TallyMatches(v, cl, NoTeam)
              => TallyMatches(v, ResetBits(cl, ts), NoTeam)
  <1> DEFINE new == ResetBits(cl, ts)
  <1>1. new \in [Clients -> ClientState]
    BY DEF ResetBits, ClientState
  <1>2. \A c \in Clients : /\ new[c].connected = cl[c].connected
                           /\ new[c].present = cl[c].present
                           /\ new[c].voted = cl[c].voted \ ts
                           /\ new[c].yes = cl[c].yes \ ts
                           /\ new[c].no = cl[c].no \ ts
    BY DEF ResetBits, ClientState
  <1>3. PresentIsConnected(cl) => PresentIsConnected(new)
    BY <1>2 DEF PresentIsConnected
  <1>4. NoTeam \in ts => \A c \in Clients : ~HasBallot(new[c])
    BY <1>2 DEF HasBallot
  <1>5. ASSUME NEW v \in VoteState, NoTeam \notin ts, TallyMatches(v, cl, NoTeam)
        PROVE  TallyMatches(v, new, NoTeam)
    <2>1. \A c \in Clients :
           /\ new[c].connected = "DISCONNECTED" <=> cl[c].connected = "DISCONNECTED"
           /\ NoTeam \in new[c].voted <=> NoTeam \in cl[c].voted
           /\ NoTeam \in new[c].yes <=> NoTeam \in cl[c].yes
           /\ NoTeam \in new[c].no <=> NoTeam \in cl[c].no
      BY <1>2, <1>5
    <2> HIDE DEF new
    <2> QED
      BY <1>1, <1>5, <2>1, SameTally
  <1> QED
    BY <1>1, <1>3, <1>4, <1>5

(* A vote that is not running has no tally to match. *)
LEMMA IdleTally ==
  ASSUME NEW v, v.age = NotRunning, NEW cl
  PROVE  TallyMatches(v, cl, NoTeam)
  BY DEF TallyMatches

(* The beginning of the intermission and the exit from the level. *)
LEMMA ExitKeeps ==
  ASSUME NEW vt, NEW cl, NEW m \in MatchState, Sound(vt, cl),
         NEW o \in CheckExitRules(vt, cl, m)
  PROVE  Sound(o.vote, o.client) /\ o.match \in MatchState
  <1>0. /\ vt \in [Votes -> VoteState] /\ cl \in [Clients -> ClientState]
        /\ NoTeam \in Votes
    BY DEF Sound, Votes
  <1>1. /\ ExitLevel(cl) \in [Clients -> ClientState]
        /\ Sound(vt, ExitLevel(cl))
    <2> DEFINE new == ExitLevel(cl)
    <2>1. new \in [Clients -> ClientState]
      BY <1>0 DEF ExitLevel, ClientState
    <2>2. \A c \in Clients :
            /\ new[c].connected = "DISCONNECTED" <=> cl[c].connected = "DISCONNECTED"
            /\ new[c].present = cl[c].present /\ new[c].voted = cl[c].voted
            /\ new[c].yes = cl[c].yes /\ new[c].no = cl[c].no
      BY <1>0 DEF ExitLevel, ClientState
    <2> HIDE DEF new
    <2>3. TallyMatches(vt[NoTeam], new, NoTeam)
      BY <1>0, <2>1, <2>2, SameTally DEF Sound
    <2>4. PresentIsConnected(new)
      BY <2>2 DEF PresentIsConnected, Sound
    <2> QED
      BY <1>0, <2>1, <2>3, <2>4 DEF Sound, new
  <1>2. Sound(G_ClearVotes(vt), cl)
    <2> DEFINE new == G_ClearVotes(vt)
    <2>1. new \in [Votes -> VoteState]
      <3>1. \A v \in VoteState : [v EXCEPT !.age = NotRunning] \in VoteState
        BY VotingAssumption DEF VoteState, NotRunning
      <3>2. \A t \in Votes : G_ClearVotes(vt)[t] \in {vt[t], [vt[t] EXCEPT !.age = NotRunning]}
        BY DEF G_ClearVotes
      <3>3. G_ClearVotes(vt) = [t \in Votes |-> G_ClearVotes(vt)[t]]
        BY DEF G_ClearVotes
      <3> QED
        BY <1>0, <3>1, <3>2, <3>3
    <2>2. \A t \in Votes :
            \/ new[t] = vt[t]
            \/ new[t].age = NotRunning /\ new[t].due = vt[t].due
      BY <1>0 DEF G_ClearVotes, VoteState
    <2> HIDE DEF new
    <2>3. \A t \in Votes : Exclusive(new[t])
      BY <2>2 DEF Exclusive, Sound
    <2>4. TallyMatches(new[NoTeam], cl, NoTeam)
      BY <1>0, <2>2, IdleTally DEF Sound
    <2> QED
      BY <1>0, <2>1, <2>3, <2>4 DEF Sound, new
  <1>3. \/ o = [vote |-> vt, client |-> cl, match |-> m]
        \/ o = [vote |-> vt, client |-> ExitLevel(cl),
                match |-> [intermission |-> FALSE, restarted |-> TRUE, age |-> 0]]
        \/ o = [vote |-> G_ClearVotes(vt), client |-> cl,
                match |-> [intermission |-> TRUE, restarted |-> FALSE, age |-> 0]]
    BY DEF CheckExitRules, CheckIntermissionExit, BeginIntermission
  <1>4. [intermission |-> FALSE, restarted |-> TRUE, age |-> 0] \in MatchState
        /\ [intermission |-> TRUE, restarted |-> FALSE, age |-> 0] \in MatchState
    BY VotingAssumption DEF MatchState
  <1>5. CASE o = [vote |-> vt, client |-> cl, match |-> m]
    BY <1>5
  <1>6. CASE o = [vote |-> vt, client |-> ExitLevel(cl),
                  match |-> [intermission |-> FALSE, restarted |-> TRUE, age |-> 0]]
    BY <1>1, <1>4, <1>6
  <1>7. CASE o = [vote |-> G_ClearVotes(vt), client |-> cl,
                  match |-> [intermission |-> TRUE, restarted |-> FALSE, age |-> 0]]
    BY <1>2, <1>4, <1>7
  <1> QED
    BY <1>3, <1>5, <1>6, <1>7

(* A handler that ends in CalculateRanks keeps what its arguments have. *)
LEMMA RanksKeep ==
  ASSUME NEW vt, NEW cl, Sound(vt, cl), match \in MatchState, CalculateRanks(vt, cl)
  PROVE  IInv'
  <1>1. PICK o \in CheckIntermissionExit(vt, cl, match) : Becomes(o)
    BY DEF CalculateRanks
  <1>2. o \in CheckExitRules(vt, cl, match)
    BY DEF CheckExitRules
  <1>3. Sound(o.vote, o.client) /\ o.match \in MatchState
    BY <1>2, ExitKeeps
  <1> QED
    BY <1>1, <1>3 DEF IInv, Becomes

(* The operators on one vote: types, and what becomes of a vote that runs. *)
LEMMA VoteOperators ==
  ASSUME NEW v \in VoteState
  PROVE  /\ G_ResetVote(v) \in VoteState /\ G_ResetVote(v).age = NotRunning
         /\ G_ResetVote(v).due = v.due
         /\ [G_ResetVote(v) EXCEPT !.due = Nothing] \in VoteState
         /\ Tick(v) \in VoteState /\ (Exclusive(v) => Exclusive(Tick(v)))
         /\ Tick(v).age = NotRunning <=> v.age = NotRunning
         /\ Tick(v).yes = v.yes /\ Tick(v).no = v.no /\ Tick(v).voted = v.voted
         /\ \A n : G_CheckVote(v, n) \in VoteState
         /\ \A n : Ends(v, n) => G_CheckVote(v, n).age = NotRunning
         /\ \A n : ~Ends(v, n) => G_CheckVote(v, n) = v
  <1>1. NotRunning \in NotRunning .. VOTE_TIME /\ 0 \in NotRunning .. VOTE_TIME
    BY VotingAssumption DEF NotRunning
  <1>2. G_ResetVote(v) \in VoteState /\ G_ResetVote(v).age = NotRunning
        /\ G_ResetVote(v).due = v.due
    <2>1. G_ResetVote(v) = [kind |-> v.kind, age |-> NotRunning, due |-> v.due,
                            yes |-> 0, no |-> 0, voted |-> 0]
      BY DEF G_ResetVote
    <2>2. v.kind \in Kinds /\ v.due \in {Nothing} \cup Nat /\ 0 \in Int
      BY DEF VoteState
    <2> QED
      BY <1>1, <2>1, <2>2 DEF VoteState
  <1>3. [G_ResetVote(v) EXCEPT !.due = Nothing] \in VoteState
    BY <1>2 DEF VoteState, Nothing
  <1>4. VoteInfo[v.kind].delay \in Nat
    BY VotingAssumption DEF VoteState
  <1>5. \A n : /\ G_CheckVote(v, n) \in VoteState
               /\ Ends(v, n) => G_CheckVote(v, n).age = NotRunning
               /\ ~Ends(v, n) => G_CheckVote(v, n) = v
    <2> TAKE n
    <2>1. CASE ~Ends(v, n)
      BY <2>1 DEF G_CheckVote
    <2>2. CASE Ends(v, n)
      <3> DEFINE due == IF Passes(v, n) THEN VoteInfo[v.kind].delay ELSE G_ResetVote(v).due
      <3>1. due \in {Nothing} \cup Nat
        BY <1>2, <1>4 DEF VoteState
      <3>2. G_CheckVote(v, n) = [G_ResetVote(v) EXCEPT !.due = due]
        BY <2>2 DEF G_CheckVote
      <3> HIDE DEF due
      <3> QED
        BY <2>2, <3>1, <3>2, <1>2 DEF VoteState
    <2> QED
      BY <2>1, <2>2
  <1>6. Tick(v) \in VoteState
        /\ (Tick(v).age = NotRunning <=> v.age = NotRunning)
        /\ (v.due = Nothing => Tick(v).due = Nothing)
        /\ Tick(v).yes = v.yes /\ Tick(v).no = v.no /\ Tick(v).voted = v.voted
    <2>1. \A a \in NotRunning .. VOTE_TIME :
            LET b == IF a \in 0 .. (VOTE_TIME - 1) THEN a + 1 ELSE a
            IN  b \in NotRunning .. VOTE_TIME /\ (b = NotRunning <=> a = NotRunning)
      BY VotingAssumption DEF NotRunning
    <2>2. \A d \in {Nothing} \cup Nat : (IF d = Nothing THEN d ELSE d - 1) \in {Nothing} \cup Nat
      BY DEF Nothing
    <2> QED
      BY <2>1, <2>2 DEF Tick, VoteState
  <1>7. Exclusive(v) => Exclusive(Tick(v))
    BY <1>6 DEF Exclusive
  <1> QED
    BY <1>2, <1>3, <1>5, <1>6, <1>7

(* Before the first vote. *)
LEMMA FreshVote == NewVote \in VoteState /\ NewVote.age = NotRunning
                   /\ Exclusive(NewVote)
  BY VotingAssumption DEF NewVote, VoteState, NotRunning, Nothing, Exclusive

LEMMA FreshClient ==
  ASSUME NEW p \in BOOLEAN, NEW s \in {"DISCONNECTED", "CONNECTING", "CONNECTED"}
  PROVE  NewClient(p, s) \in ClientState /\ ~HasBallot(NewClient(p, s))
         /\ NewClient(p, s).present = p /\ NewClient(p, s).connected = s
  BY DEF NewClient, ClientState, HasBallot, Votes

(* One vote and one client's record replaced. *)
LEMMA Replaced ==
  ASSUME NEW vt, NEW cl, Sound(vt, cl), NEW t \in Votes, NEW v \in VoteState,
         NEW c \in Clients, NEW r \in ClientState,
         Exclusive(v), r.present => r.connected # "DISCONNECTED",
         TallyMatches(IF t = NoTeam THEN v ELSE vt[NoTeam], [cl EXCEPT ![c] = r], NoTeam)
  PROVE  Sound([vt EXCEPT ![t] = v], [cl EXCEPT ![c] = r])
  <1>1. [vt EXCEPT ![t] = v] \in [Votes -> VoteState]
        /\ [cl EXCEPT ![c] = r] \in [Clients -> ClientState]
    BY DEF Sound
  <1>2. \A u \in Votes : Exclusive([vt EXCEPT ![t] = v][u])
    BY DEF Sound
  <1>3. PresentIsConnected([cl EXCEPT ![c] = r])
    BY DEF Sound, PresentIsConnected
  <1>4. [vt EXCEPT ![t] = v][NoTeam] = IF t = NoTeam THEN v ELSE vt[NoTeam]
    BY DEF Sound, Votes
  <1> QED
    BY <1>1, <1>2, <1>3, <1>4 DEF Sound

(* One client's record replaced by one that counts alike. *)
LEMMA RecordReplaced ==
  ASSUME NEW vt, NEW cl, Sound(vt, cl), NEW c \in Clients, NEW r \in ClientState,
         r.present => r.connected # "DISCONNECTED",
         r.connected = "DISCONNECTED" <=> cl[c].connected = "DISCONNECTED",
         r.voted = cl[c].voted, r.yes = cl[c].yes, r.no = cl[c].no
  PROVE  Sound(vt, [cl EXCEPT ![c] = r])
  <1> DEFINE new == [cl EXCEPT ![c] = r]
  <1>1. new \in [Clients -> ClientState] /\ cl \in [Clients -> ClientState]
        /\ vt[NoTeam] \in VoteState
    BY DEF Sound, Votes
  <1>2. \A d \in Clients :
           /\ new[d].connected = "DISCONNECTED" <=> cl[d].connected = "DISCONNECTED"
           /\ NoTeam \in new[d].voted <=> NoTeam \in cl[d].voted
           /\ NoTeam \in new[d].yes <=> NoTeam \in cl[d].yes
           /\ NoTeam \in new[d].no <=> NoTeam \in cl[d].no
    BY <1>1
  <1>3. PresentIsConnected(new)
    BY <1>1 DEF Sound, PresentIsConnected
  <1> HIDE DEF new
  <1>4. TallyMatches(vt[NoTeam], new, NoTeam)
    BY <1>1, <1>2, SameTally DEF Sound
  <1> QED
    BY <1>1, <1>3, <1>4 DEF Sound, new

LEMMA RecordKeeps ==
  ASSUME NEW vt, NEW cl, Sound(vt, cl), NEW c \in Clients, NEW r \in ClientState,
         r.present => r.connected # "DISCONNECTED",
         TallyMatches(vt[NoTeam], [cl EXCEPT ![c] = r], NoTeam)
  PROVE  Sound(vt, [cl EXCEPT ![c] = r])
  <1>1. [cl EXCEPT ![c] = r] \in [Clients -> ClientState]
    BY DEF Sound
  <1>2. PresentIsConnected([cl EXCEPT ![c] = r])
    BY DEF Sound, PresentIsConnected
  <1> QED
    BY <1>1, <1>2 DEF Sound

LEMMA Retracting ==
  ASSUME Sound(vote, client), NEW c \in Clients, NEW ts \in SUBSET Votes
  PROVE  /\ Retract(c, ts) \in [Votes -> VoteState]
         /\ \A t \in Votes : /\ Exclusive(Retract(c, ts)[t])
                             /\ Retract(c, ts)[t].age = vote[t].age
                             /\ t \notin ts => Retract(c, ts)[t] = vote[t]
                             /\ t \notin client[c].voted => Retract(c, ts)[t] = vote[t]
                             /\ t \in ts /\ t \in client[c].voted /\ Running(t) =>
                                  Retract(c, ts)[t] = Tally(vote[t], t, client[c], -1)
         /\ NoTeam \notin ts => Sound(Retract(c, ts), client)
  <1>1. /\ vote \in [Votes -> VoteState] /\ NoTeam \in Votes
        /\ \A t \in Votes : Exclusive(vote[t])
    BY DEF Sound, Votes
  <1>2. \A t \in Votes : /\ Tally(vote[t], t, client[c], -1) \in VoteState
                         /\ Tally(vote[t], t, client[c], -1).age = vote[t].age
                         /\ Tally(vote[t], t, client[c], -1).due = vote[t].due
    BY <1>1, TallyTypes
  <1>3. \A t \in Votes : /\ t \notin ts => Retract(c, ts)[t] = vote[t]
                         /\ t \notin client[c].voted => Retract(c, ts)[t] = vote[t]
                         /\ t \in ts /\ t \in client[c].voted /\ Running(t) =>
                              Retract(c, ts)[t] = Tally(vote[t], t, client[c], -1)
                         /\ Retract(c, ts)[t] \in {vote[t], Tally(vote[t], t, client[c], -1)}
    BY DEF Retract
  <1>4. Retract(c, ts) = [t \in Votes |-> Retract(c, ts)[t]]
    BY DEF Retract
  <1>5. Retract(c, ts) \in [Votes -> VoteState]
    BY <1>1, <1>2, <1>3, <1>4
  <1>6. \A t \in Votes : Exclusive(Retract(c, ts)[t]) /\ Retract(c, ts)[t].age = vote[t].age
    BY <1>1, <1>2, <1>3 DEF Exclusive
  <1>7. NoTeam \notin ts => Sound(Retract(c, ts), client)
    BY <1>1, <1>3, <1>5, <1>6 DEF Sound
  <1> QED
    BY <1>3, <1>5, <1>6, <1>7

-----------------------------------------------------------------------------
(* The handlers of a client's coming and going. *)
LEMMA ConnectKeeps ==
  ASSUME IInv, NEW c \in Clients, ClientConnect(c)
  PROVE  IInv'
  <1> DEFINE fresh == NewClient(TRUE, "CONNECTING")
             let   == [client[c] EXCEPT !.present = TRUE]
  <1>0. client \in [Clients -> ClientState] /\ vote[NoTeam] \in VoteState
    BY DEF IInv, Sound, Votes
  <1>1. CASE client[c].connected = "DISCONNECTED"
    <2>1. fresh \in ClientState /\ ~HasBallot(fresh) /\ fresh.connected = "CONNECTING"
      BY FreshClient
    <2>2. ~HasBallot(client[c])
      BY <1>1 DEF HasBallot
    <2>3. CalculateRanks(vote, [client EXCEPT ![c] = fresh])
      BY <1>1 DEF ClientConnect
    <2> HIDE DEF fresh
    <2>4. TallyMatches(vote[NoTeam], [client EXCEPT ![c] = fresh], NoTeam)
      BY <1>0, <2>1, <2>2, NoBallot DEF IInv, Sound
    <2>5. Sound(vote, [client EXCEPT ![c] = fresh])
      BY <2>1, <2>4, RecordKeeps DEF IInv
    <2> QED
      BY <2>3, <2>5, RanksKeep DEF IInv
  <1>2. CASE client[c].connected # "DISCONNECTED"
    <2>1. /\ let \in ClientState /\ let.connected = client[c].connected
          /\ let.voted = client[c].voted
          /\ let.yes = client[c].yes /\ let.no = client[c].no
      BY <1>0 DEF ClientState
    <2>2. client' = [client EXCEPT ![c] = let] /\ vote' = vote /\ match' = match
      BY <1>2 DEF ClientConnect
    <2> HIDE DEF let
    <2>3. Sound(vote, [client EXCEPT ![c] = let])
      BY <1>2, <2>1, RecordReplaced DEF IInv
    <2> QED
      BY <2>2, <2>3 DEF IInv
  <1> QED
    BY <1>1, <1>2

LEMMA RefusedKeeps ==
  ASSUME IInv, NEW c \in Clients, ClientRefused(c)
  PROVE  IInv'
  <1> DEFINE fresh == NewClient(FALSE, "CONNECTING")
  <1>1. fresh \in ClientState /\ ~HasBallot(fresh) /\ fresh.connected = "CONNECTING"
    BY FreshClient
  <1>2. ~HasBallot(client[c])
    BY DEF HasBallot, ClientRefused
  <1>3. client' = [client EXCEPT ![c] = fresh] /\ vote' = vote /\ match' = match
    BY DEF ClientRefused
  <1>4. client \in [Clients -> ClientState] /\ vote[NoTeam] \in VoteState
    BY DEF IInv, Sound, Votes
  <1> HIDE DEF fresh
  <1>5. TallyMatches(vote[NoTeam], [client EXCEPT ![c] = fresh], NoTeam)
    BY <1>1, <1>2, <1>4, NoBallot DEF IInv, Sound
  <1>6. Sound(vote, [client EXCEPT ![c] = fresh])
    BY <1>1, <1>5, RecordKeeps DEF IInv
  <1> QED
    BY <1>3, <1>6 DEF IInv

LEMMA BeginKeeps ==
  ASSUME IInv, NEW c \in Clients, ClientBegin(c)
  PROVE  IInv'
  <1> DEFINE in == [client[c] EXCEPT !.connected = "CONNECTED"]
  <1>1. client[c] \in ClientState
    BY DEF IInv, Sound
  <1>2. /\ in \in ClientState /\ in.connected = "CONNECTED" /\ in.voted = client[c].voted
        /\ in.yes = client[c].yes /\ in.no = client[c].no
    BY <1>1 DEF ClientState
  <1>3. CalculateRanks(vote, [client EXCEPT ![c] = in])
        /\ client[c].connected # "DISCONNECTED"
    BY DEF ClientBegin
  <1> HIDE DEF in
  <1>4. Sound(vote, [client EXCEPT ![c] = in])
    BY <1>2, <1>3, RecordReplaced DEF IInv
  <1> QED
    BY <1>3, <1>4, RanksKeep DEF IInv

LEMMA ChangeTeamKeeps ==
  ASSUME IInv, NEW c \in Clients, NEW t \in Votes, G_ChangeTeam(c, t)
  PROVE  IInv'
  <1> DEFINE ts    == {client[c].team} \ {NoTeam}
             moved == [client[c] EXCEPT !.team = t]
  <1>1. client[c] \in ClientState
    BY DEF IInv, Sound
  <1>2. /\ moved \in ClientState /\ moved.connected = client[c].connected
        /\ moved.voted = client[c].voted /\ moved.yes = client[c].yes
        /\ moved.no = client[c].no
    BY <1>1 DEF ClientState
  <1>3. client[c].connected # "DISCONNECTED"
        /\ CalculateRanks(Retract(c, ts), [client EXCEPT ![c] = moved])
    BY DEF G_ChangeTeam, Connected
  <1>4. ts \in SUBSET Votes /\ NoTeam \notin ts
    BY <1>1 DEF ClientState
  <1> HIDE DEF ts, moved
  <1>5. Sound(Retract(c, ts), client)
    BY <1>4, Retracting DEF IInv
  <1>6. Sound(Retract(c, ts), [client EXCEPT ![c] = moved])
    BY <1>2, <1>3, <1>5, RecordReplaced
  <1> QED
    BY <1>3, <1>6, RanksKeep DEF IInv

LEMMA DisconnectKeeps ==
  ASSUME IInv, NEW c \in Clients, ClientDisconnect(c)
  PROVE  IInv'
  <1> DEFINE ts   == {client[c].team, NoTeam}
             vt   == Retract(c, ts)
             gone == [client[c] EXCEPT !.present = FALSE, !.connected = "DISCONNECTED"]
             cl   == [client EXCEPT ![c] = gone]
  <1>1. /\ client[c] \in ClientState /\ vote[NoTeam] \in VoteState /\ NoTeam \in Votes
        /\ client \in [Clients -> ClientState]
    BY DEF IInv, Sound, Votes
  <1>2. gone \in ClientState /\ gone.connected = "DISCONNECTED" /\ gone.present = FALSE
    BY <1>1 DEF ClientState
  <1>3. CalculateRanks(vt, cl) /\ client[c].connected # "DISCONNECTED"
    <2>1. CalculateRanks(vt, cl)
      BY <1>1 DEF ClientDisconnect, ClientState
    <2>2. client[c].connected # "DISCONNECTED"
      BY DEF ClientDisconnect, IInv, Sound, PresentIsConnected
    <2> QED
      BY <2>1, <2>2
  <1>4. ts \in SUBSET Votes /\ NoTeam \in ts
    BY <1>1 DEF ClientState
  <1> HIDE DEF ts, gone
  <1>5. vt \in [Votes -> VoteState] /\ \A t \in Votes : Exclusive(vt[t])
    BY <1>4, Retracting DEF IInv
  <1>6. cl \in [Clients -> ClientState] /\ PresentIsConnected(cl)
    BY <1>1, <1>2 DEF IInv, Sound, PresentIsConnected
  <1>7. TallyMatches(vt[NoTeam], cl, NoTeam)
    <2>0. TallyMatches(vote[NoTeam], client, NoTeam) /\ ~HasBallot(gone)
      BY <1>2 DEF IInv, Sound, HasBallot
    <2>1. CASE ~Running(NoTeam)
      <3>1. vt[NoTeam].age = NotRunning
        BY <2>1, <1>1, <1>4, Retracting DEF IInv, Running
      <3> QED
        BY <3>1, IdleTally
    <2>2. CASE Running(NoTeam) /\ NoTeam \in client[c].voted
      <3>1. vt[NoTeam] = Tally(vote[NoTeam], NoTeam, client[c], -1)
        BY <2>2, <1>1, <1>4, Retracting DEF IInv
      <3>2. HasBallot(client[c]) /\ vote[NoTeam].age # NotRunning
        BY <2>2, <1>3 DEF HasBallot, Running
      <3> QED
        BY <3>1, <3>2, <2>0, <1>1, <1>2, BallotRemoved
    <2>3. CASE NoTeam \notin client[c].voted
      <3>1. vt[NoTeam] = vote[NoTeam]
        BY <2>3, <1>1, <1>4, Retracting DEF IInv
      <3>2. ~HasBallot(client[c])
        BY <2>3 DEF HasBallot
      <3> QED
        BY <3>1, <3>2, <2>0, <1>1, <1>2, NoBallot
    <2> QED
      BY <2>1, <2>2, <2>3
  <1>8. Sound(vt, cl)
    BY <1>5, <1>6, <1>7 DEF Sound
  <1> QED
    BY <1>3, <1>8, RanksKeep DEF IInv

-----------------------------------------------------------------------------
(* Calling, casting and ending a vote. *)
LEMMA ExecutingKeepsMatch ==
  ASSUME match \in MatchState, NEW ts
  PROVE  AfterExecuting(ts) \in MatchState
  BY DEF AfterExecuting, MatchState

(* A vote t whose ballots have all been cleared. *)
LEMMA ClearedKeeps ==
  ASSUME IInv, NEW t \in Votes, NEW v \in VoteState, Exclusive(v),
         t = NoTeam => TallyMatches(v, ResetBits(client, {t}), NoTeam)
  PROVE  Sound([vote EXCEPT ![t] = v], ResetBits(client, {t}))
  <1> DEFINE cl == ResetBits(client, {t})
             vt == [vote EXCEPT ![t] = v]
  <1>1. /\ client \in [Clients -> ClientState] /\ vote \in [Votes -> VoteState]
        /\ PresentIsConnected(client) /\ NoTeam \in Votes
        /\ \A u \in Votes : Exclusive(vote[u])
        /\ TallyMatches(vote[NoTeam], client, NoTeam)
    BY DEF IInv, Sound, Votes
  <1>2. cl \in [Clients -> ClientState] /\ PresentIsConnected(cl)
    BY <1>1, BitsReset
  <1>3. t # NoTeam => TallyMatches(vote[NoTeam], cl, NoTeam)
    <2>1. {t} \in SUBSET Votes /\ vote[NoTeam] \in VoteState
      BY <1>1
    <2>2. t # NoTeam => NoTeam \notin {t}
      OBVIOUS
    <2> QED
      BY <1>1, <2>1, <2>2, BitsReset
  <1>4. vt \in [Votes -> VoteState] /\ \A u \in Votes : Exclusive(vt[u])
    BY <1>1
  <1>5. TallyMatches(vt[NoTeam], cl, NoTeam)
    BY <1>1, <1>3
  <1> QED
    BY <1>2, <1>4, <1>5 DEF Sound

LEMMA RefusedCallKeeps ==
  ASSUME IInv, NEW c \in Clients, NEW t \in Votes, CallVoteRefused(c, t)
  PROVE  IInv'
  <1> DEFINE v == [G_ResetVote(vote[t]) EXCEPT !.due = Nothing]
  <1>1. vote[t] \in VoteState /\ match \in MatchState
    BY DEF IInv, Sound
  <1>2. v \in VoteState /\ v.age = NotRunning
    <2>1. v \in VoteState
      BY <1>1, VoteOperators
    <2>2. v.age = NotRunning
      BY DEF G_ResetVote
    <2> QED
      BY <2>1, <2>2
  <1>3. /\ vote' = [vote EXCEPT ![t] = v] /\ client' = ResetBits(client, {t})
        /\ match' \in MatchState
    BY <1>1, ExecutingKeepsMatch DEF CallVoteRefused
  <1> HIDE DEF v
  <1>4. Exclusive(v) /\ TallyMatches(v, ResetBits(client, {t}), NoTeam)
    BY <1>2, IdleTally DEF Exclusive
  <1>5. Sound([vote EXCEPT ![t] = v], ResetBits(client, {t}))
    BY <1>2, <1>4, ClearedKeeps
  <1> QED
    BY <1>3, <1>5 DEF IInv

LEMMA CallKeeps ==
  ASSUME IInv, NEW c \in Clients, NEW t \in Votes, NEW k \in Kinds, CallVote(c, t, k)
  PROVE  IInv'
  <1> DEFINE v  == Called(t, k)
             cl == ResetBits(client, {t})
             r  == [cl[c] EXCEPT !.voted = @ \cup {t}, !.yes = @ \cup {t}]
  <1>1. /\ vote \in [Votes -> VoteState] /\ match \in MatchState
        /\ client \in [Clients -> ClientState] /\ PresentIsConnected(client)
    BY DEF IInv, Sound
  <1>2. /\ v \in VoteState /\ v.age # NotRunning /\ Exclusive(v)
        /\ v.voted = 0 /\ v.yes = 0 /\ v.no = 0
    <2>1. 0 \in NotRunning .. VOTE_TIME /\ 0 # NotRunning
      BY VotingAssumption DEF NotRunning, Nothing
    <2>2. v = [kind |-> k, age |-> 0, due |-> Nothing, yes |-> 0, no |-> 0, voted |-> 0]
      BY DEF Called
    <2> HIDE DEF v
    <2> QED
      BY <2>1, <2>2 DEF VoteState, Exclusive
  <1>3. cl \in [Clients -> ClientState] /\ PresentIsConnected(cl)
        /\ (t = NoTeam => \A d \in Clients : ~HasBallot(cl[d]))
    BY <1>1, BitsReset
  <1>4. match' \in MatchState
    BY <1>1, ExecutingKeepsMatch DEF CallVote
  <1>5. t = NoTeam => TallyMatches(v, cl, NoTeam)
    <2> HAVE t = NoTeam
    <2>1. Cast(cl, NoTeam) = {} /\ CastYes(cl, NoTeam) = {} /\ CastNo(cl, NoTeam) = {}
      BY <1>3 DEF Cast, CastYes, CastNo, Voters, HasBallot
    <2> HIDE DEF v, cl
    <2> QED
      BY <1>2, <2>1, FS_EmptySet DEF TallyMatches
  <1> HIDE DEF v, cl
  <1>6. Sound([vote EXCEPT ![t] = v], cl)
    BY <1>2, <1>5, ClearedKeeps DEF cl
  <1>7. CASE ~VoteInfo[k].auto
    <2>1. vote' = [vote EXCEPT ![t] = v] /\ client' = cl
      BY <1>7 DEF CallVote, v, cl
    <2> QED
      BY <1>4, <1>6, <2>1 DEF IInv
  <1>8. CASE VoteInfo[k].auto
    <2> DEFINE w == Tally(v, t, r, 1)
    <2>1. vote' = [vote EXCEPT ![t] = w] /\ client' = [cl EXCEPT ![c] = r]
      BY <1>8 DEF CallVote, v, cl
    <2>2. /\ r \in ClientState /\ t \in r.voted /\ r.connected = cl[c].connected
          /\ r.present = cl[c].present
      BY <1>3 DEF ClientState
    <2>3. cl[c].connected # "DISCONNECTED"
      <3>1. cl[c].connected = client[c].connected
        BY <1>1 DEF cl, ResetBits, ClientState
      <3> QED
        BY <3>1 DEF CallVote, Connected
    <2>4. w \in VoteState /\ w.age = v.age /\ w.due = v.due
      BY <1>2, TallyTypes
    <2>5. Exclusive(w)
      BY <1>2, <2>4 DEF Exclusive
    <2>6. CASE t = NoTeam
      <3>1. HasBallot(r) /\ ~HasBallot(cl[c]) /\ TallyMatches(v, cl, NoTeam)
        BY <2>6, <2>2, <2>3, <1>3, <1>5 DEF HasBallot
      <3> HIDE DEF r
      <3>2. TallyMatches(w, [cl EXCEPT ![c] = r], NoTeam)
        BY <2>6, <3>1, <1>2, <1>3, <2>2, BallotAdded
      <3> HIDE DEF w
      <3>3. Sound([[vote EXCEPT ![t] = v] EXCEPT ![t] = w], [cl EXCEPT ![c] = r])
        BY <2>6, <3>2, <1>6, <2>2, <2>3, <2>4, <2>5, Replaced
      <3>4. [[vote EXCEPT ![t] = v] EXCEPT ![t] = w] = [vote EXCEPT ![t] = w]
        BY <1>1
      <3> QED
        BY <1>4, <2>1, <3>3, <3>4 DEF IInv
    <2>7. CASE t # NoTeam
      <3>1. \A d \in Clients :
              LET new == [cl EXCEPT ![c] = r]
              IN  /\ new[d].connected = "DISCONNECTED" <=> cl[d].connected = "DISCONNECTED"
                  /\ NoTeam \in new[d].voted <=> NoTeam \in cl[d].voted
                  /\ NoTeam \in new[d].yes <=> NoTeam \in cl[d].yes
                  /\ NoTeam \in new[d].no <=> NoTeam \in cl[d].no
        BY <2>7, <1>3 DEF ClientState
      <3> HIDE DEF r, w
      <3>2. vote[NoTeam] \in VoteState /\ TallyMatches(vote[NoTeam], cl, NoTeam)
            /\ [cl EXCEPT ![c] = r] \in [Clients -> ClientState]
        BY <1>1, <1>3, <1>6, <2>2, <2>7 DEF Sound, Votes
      <3>3. TallyMatches(vote[NoTeam], [cl EXCEPT ![c] = r], NoTeam)
        BY <3>1, <3>2, <1>3, SameTally
      <3>4. [vote EXCEPT ![t] = v][NoTeam] = vote[NoTeam]
        BY <1>1, <2>7 DEF Votes
      <3>5. Sound([[vote EXCEPT ![t] = v] EXCEPT ![t] = w], [cl EXCEPT ![c] = r])
        BY <2>7, <3>3, <3>4, <1>6, <2>2, <2>3, <2>4, <2>5, Replaced
      <3>6. [[vote EXCEPT ![t] = v] EXCEPT ![t] = w] = [vote EXCEPT ![t] = w]
        BY <1>1
      <3> QED
        BY <1>4, <2>1, <3>5, <3>6 DEF IInv
    <2> QED
      BY <2>6, <2>7
  <1> QED
    BY <1>7, <1>8

LEMMA CastKeeps ==
  ASSUME IInv, NEW c \in Clients, NEW t \in Votes, NEW answer,
         Cmd_Vote_f(c, t, answer)
  PROVE  IInv'
  <1> DEFINE r == [client[c] EXCEPT
                     !.voted = @ \cup {t},
                     !.yes = IF answer = "yes" THEN @ \cup {t} ELSE @,
                     !.no  = IF answer = "no"  THEN @ \cup {t} ELSE @]
             w == Tally(vote[t], t, r, 1)
  <1>1. /\ vote[t] \in VoteState /\ client[c] \in ClientState
        /\ vote[NoTeam] \in VoteState
        /\ client \in [Clients -> ClientState] /\ match \in MatchState
        /\ TallyMatches(vote[NoTeam], client, NoTeam) /\ Exclusive(vote[t])
    BY DEF IInv, Sound, Votes
  <1>2. /\ vote' = [vote EXCEPT ![t] = w] /\ client' = [client EXCEPT ![c] = r]
        /\ match' = match /\ vote[t].age # NotRunning /\ t \notin client[c].voted
        /\ client[c].connected # "DISCONNECTED"
    BY DEF Cmd_Vote_f, Connected, Running
  <1>3. /\ r \in ClientState /\ t \in r.voted /\ r.connected = client[c].connected
        /\ r.voted = client[c].voted \cup {t}
        /\ r.yes \in {client[c].yes, client[c].yes \cup {t}}
        /\ r.no \in {client[c].no, client[c].no \cup {t}}
    BY <1>1 DEF ClientState
  <1> HIDE DEF r
  <1>4. w \in VoteState /\ w.age = vote[t].age /\ w.due = vote[t].due
    BY <1>1, TallyTypes
  <1>5. Exclusive(w)
    BY <1>1, <1>4 DEF Exclusive
  <1>6. TallyMatches(IF t = NoTeam THEN w ELSE vote[NoTeam], [client EXCEPT ![c] = r], NoTeam)
    <2>1. CASE t = NoTeam
      <3>1. HasBallot(r) /\ ~HasBallot(client[c])
        BY <2>1, <1>2, <1>3 DEF HasBallot
      <3>2. TallyMatches(w, [client EXCEPT ![c] = r], NoTeam)
        BY <2>1, <3>1, <1>1, <1>2, <1>3, BallotAdded
      <3> QED
        BY <2>1, <3>2
    <2>2. CASE t # NoTeam
      <3> DEFINE new == [client EXCEPT ![c] = r]
      <3>1. new \in [Clients -> ClientState]
        BY <1>1, <1>3
      <3>2. \A d \in Clients :
              /\ new[d].connected = "DISCONNECTED" <=> client[d].connected = "DISCONNECTED"
              /\ NoTeam \in new[d].voted <=> NoTeam \in client[d].voted
              /\ NoTeam \in new[d].yes <=> NoTeam \in client[d].yes
              /\ NoTeam \in new[d].no <=> NoTeam \in client[d].no
        BY <2>2, <1>1, <1>3
      <3> HIDE DEF new
      <3>3. TallyMatches(vote[NoTeam], new, NoTeam)
        BY <3>1, <3>2, <1>1, SameTally
      <3> QED
        BY <2>2, <3>3 DEF new
    <2> QED
      BY <2>1, <2>2
  <1> HIDE DEF w
  <1>7. Sound([vote EXCEPT ![t] = w], [client EXCEPT ![c] = r])
    BY <1>2, <1>3, <1>4, <1>5, <1>6, Replaced DEF IInv
  <1> QED
    BY <1>1, <1>2, <1>7 DEF IInv

(* A decided vote is left without ballots and a tally. *)
LEMMA CheckedExclusive ==
  ASSUME NEW v \in VoteState, NEW n, Exclusive(v)
  PROVE  Exclusive(G_CheckVote(v, n))
  <1>1. CASE Ends(v, n)
    BY <1>1, VoteOperators DEF Exclusive
  <1>2. CASE ~Ends(v, n)
    BY <1>2, VoteOperators
  <1> QED
    BY <1>1, <1>2

(* Everybody's vote ends a vote at once. *)
LEMMA EndVoteKeeps ==
  ASSUME IInv, NEW t \in Votes, NEW cancel \in BOOLEAN, G_admin_endvote(t, cancel)
  PROVE  IInv'
  <1> DEFINE n == numVotingClients(t)
             v == [vote[t] EXCEPT !.no = IF cancel THEN n ELSE 0,
                                  !.yes = IF cancel THEN 0 ELSE n,
                                  !.voted = n]
             w == G_CheckVote(v, n)
  <1>1. /\ vote[t] \in VoteState /\ Exclusive(vote[t]) /\ match \in MatchState
        /\ vote[t].age # NotRunning
    BY DEF IInv, Sound, G_admin_endvote, Running
  <1>2. n \in Nat
    <2>1. Voters(client, t) \subseteq Clients
      BY DEF Voters
    <2> QED
      BY <2>1, Counting DEF numVotingClients
  <1>3. /\ vote' = [vote EXCEPT ![t] = w] /\ client' = ResetBits(client, {t})
        /\ match' = match
    BY DEF G_admin_endvote
  <1> HIDE DEF n
  <1>4. /\ v \in VoteState /\ v.age = vote[t].age /\ v.due = vote[t].due
        /\ v.yes + v.no = n
    <2>1. (IF cancel THEN n ELSE 0) \in Int /\ (IF cancel THEN 0 ELSE n) \in Int
          /\ (IF cancel THEN 0 ELSE n) + (IF cancel THEN n ELSE 0) = n
      BY <1>2
    <2> QED
      BY <1>1, <1>2, <2>1 DEF VoteState
  <1>5. Ends(v, n) /\ Exclusive(v)
    BY <1>1, <1>4 DEF Ends, Decided, AtEnd, Exclusive
  <1> HIDE DEF v
  <1>6. w \in VoteState /\ w.age = NotRunning
    BY <1>4, <1>5, VoteOperators
  <1> HIDE DEF w
  <1>7. Exclusive(w) /\ TallyMatches(w, ResetBits(client, {t}), NoTeam)
    BY <1>6, IdleTally DEF Exclusive
  <1>8. Sound([vote EXCEPT ![t] = w], ResetBits(client, {t}))
    BY <1>6, <1>7, ClearedKeeps
  <1> QED
    BY <1>1, <1>3, <1>8 DEF IInv

-----------------------------------------------------------------------------
(* One frame: time passes, the exit rules, then every vote is checked. *)
LEMMA FrameKeeps ==
  ASSUME IInv, Frame
  PROVE  IInv'
  <1> DEFINE ticked == [t \in Votes |-> Tick(vote[t])]
             m == TickMatch(match)
             n(t) == numVotingClients(t)
  <1>1. PICK o \in CheckExitRules(ticked, client, m) :
          /\ vote' = [t \in Votes |-> G_CheckVote(o.vote[t], n(t))]
          /\ client' = ResetBits(o.client, {t \in Votes : Ends(o.vote[t], n(t))})
          /\ match' = [o.match EXCEPT !.restarted =
                         @ \/ \E t \in {u \in Votes : vote[u].due = 0} : InfoOf(t).map]
    BY DEF Frame
  <1>2. m \in MatchState
    <2>1. match \in MatchState
      BY DEF IInv
    <2>2. (IF match.intermission /\ match.age < IntermissionMin
           THEN match.age + 1 ELSE match.age) \in 0 .. IntermissionMin
      BY <2>1, VotingAssumption DEF MatchState
    <2> QED
      BY <2>1, <2>2 DEF TickMatch, MatchState
  <1>3. Sound(ticked, client)
    <2>1. vote \in [Votes -> VoteState] /\ NoTeam \in Votes
      BY DEF IInv, Sound, Votes
    <2>2. ticked \in [Votes -> VoteState] /\ \A t \in Votes : Exclusive(ticked[t])
      BY <2>1, VoteOperators DEF IInv, Sound
    <2>3. TallyMatches(ticked[NoTeam], client, NoTeam)
      BY <2>1, VoteOperators DEF IInv, Sound, TallyMatches
    <2> QED
      BY <2>2, <2>3 DEF Sound, IInv
  <1> HIDE DEF ticked, m
  <1>4. Sound(o.vote, o.client) /\ o.match \in MatchState
    BY <1>1, <1>2, <1>3, ExitKeeps
  <1> DEFINE over == {t \in Votes : Ends(o.vote[t], n(t))}
             vt   == [t \in Votes |-> G_CheckVote(o.vote[t], n(t))]
             cl   == ResetBits(o.client, over)
  <1>5. /\ o.vote \in [Votes -> VoteState] /\ o.client \in [Clients -> ClientState]
        /\ \A t \in Votes : Exclusive(o.vote[t])
        /\ TallyMatches(o.vote[NoTeam], o.client, NoTeam) /\ NoTeam \in Votes
        /\ PresentIsConnected(o.client)
    BY <1>4 DEF Sound, Votes
  <1>6. vt \in [Votes -> VoteState] /\ \A t \in Votes : Exclusive(vt[t])
    <2>1. \A t \in Votes : /\ G_CheckVote(o.vote[t], n(t)) \in VoteState
                           /\ Exclusive(G_CheckVote(o.vote[t], n(t)))
      BY <1>5, VoteOperators, CheckedExclusive
    <2> QED
      BY <2>1
  <1>7. over \in SUBSET Votes
    OBVIOUS
  <1>8. cl \in [Clients -> ClientState] /\ PresentIsConnected(cl)
    BY <1>5, <1>7, BitsReset
  <1>9. TallyMatches(vt[NoTeam], cl, NoTeam)
    <2>1. CASE NoTeam \in over
      <3>0. o.vote[NoTeam] \in VoteState /\ Ends(o.vote[NoTeam], n(NoTeam))
        BY <2>1, <1>5
      <3>1. G_CheckVote(o.vote[NoTeam], n(NoTeam)).age = NotRunning
        BY <3>0, VoteOperators
      <3>2. vt[NoTeam].age = NotRunning
        BY <3>1, <1>5
      <3> QED
        BY <3>2, IdleTally
    <2>2. CASE NoTeam \notin over
      <3>1. vt[NoTeam] = o.vote[NoTeam] /\ o.vote[NoTeam] \in VoteState
        BY <2>2, <1>5, VoteOperators
      <3> HIDE DEF over, vt
      <3> QED
        BY <2>2, <3>1, <1>5, <1>7, BitsReset
    <2> QED
      BY <2>1, <2>2
  <1>10. Sound(vt, cl)
    BY <1>6, <1>8, <1>9 DEF Sound
  <1>11. match' \in MatchState
    BY <1>1, <1>4 DEF MatchState
  <1> QED
    BY <1>1, <1>10, <1>11 DEF IInv

LEMMA NewLevelKeeps ==
  ASSUME IInv, NewLevel
  PROVE  IInv'
  <1>1. vote' = [t \in Votes |-> NewVote] /\ NoTeam \in Votes
    BY DEF NewLevel, Votes
  <1>2. /\ vote' \in [Votes -> VoteState]
        /\ \A t \in Votes : Exclusive(vote'[t])
        /\ TallyMatches(vote'[NoTeam], client', NoTeam)
    BY <1>1, FreshVote, IdleTally
  <1>3. client' \in [Clients -> ClientState] /\ PresentIsConnected(client')
    <2>1. PICK keepteams \in BOOLEAN : client' = [c \in Clients |->
            IF client[c].present
            THEN [NewClient(TRUE, "CONNECTING") EXCEPT
                    !.team = IF keepteams THEN client[c].team ELSE @]
            ELSE NewClient(FALSE, "DISCONNECTED")]
      BY DEF NewLevel
    <2>2. \A c \in Clients : client[c].team \in Votes
      BY DEF IInv, Sound, ClientState
    <2>3. \A u \in Votes : LET r == [NewClient(TRUE, "CONNECTING") EXCEPT !.team = u]
                           IN  r \in ClientState /\ r.connected = "CONNECTING"
      BY FreshClient DEF ClientState
    <2>4. NewClient(TRUE, "CONNECTING").team \in Votes
      BY FreshClient DEF ClientState
    <2>5. \A c \in Clients : /\ client'[c] \in ClientState
                             /\ client'[c].present => client'[c].connected # "DISCONNECTED"
      <3> TAKE c \in Clients
      <3>1. CASE client[c].present
        BY <3>1, <2>1, <2>2, <2>3, <2>4
      <3>2. CASE ~client[c].present
        BY <3>2, <2>1, FreshClient
      <3> QED
        BY <3>1, <3>2
    <2>6. client' = [c \in Clients |-> client'[c]]
      BY <2>1
    <2> QED
      BY <2>5, <2>6 DEF PresentIsConnected
  <1>4. match' \in MatchState
    BY VotingAssumption DEF NewLevel, MatchState
  <1> QED
    BY <1>2, <1>3, <1>4 DEF IInv, Sound

LEMMA InitSound == Init => IInv
  <1> HAVE Init
  <1>1. NoTeam \in Votes /\ vote = [t \in Votes |-> NewVote]
    BY DEF Init, Votes
  <1>2. /\ vote \in [Votes -> VoteState]
        /\ \A t \in Votes : Exclusive(vote[t])
        /\ TallyMatches(vote[NoTeam], client, NoTeam)
    BY <1>1, FreshVote, IdleTally
  <1>3. client \in [Clients -> ClientState] /\ PresentIsConnected(client)
    BY FreshClient DEF Init, PresentIsConnected
  <1>4. match \in MatchState
    BY VotingAssumption DEF Init, MatchState
  <1> QED
    BY <1>2, <1>3, <1>4 DEF IInv, Sound

LEMMA StepKeeps == IInv /\ [Next]_vars => IInv'
  <1> SUFFICES ASSUME IInv, [Next]_vars PROVE IInv'
    OBVIOUS
  <1>1. CASE UNCHANGED vars
    BY <1>1 DEF IInv, vars
  <1>2. ASSUME NEW c \in Clients, ClientStep(c) PROVE IInv'
    BY <1>2, ConnectKeeps, RefusedKeeps, BeginKeeps, DisconnectKeeps, ChangeTeamKeeps,
       RefusedCallKeeps, CallKeeps, CastKeeps DEF ClientStep
  <1>3. ASSUME NEW t \in Votes, NEW cancel \in BOOLEAN, G_admin_endvote(t, cancel)
        PROVE  IInv'
    BY <1>3, EndVoteKeeps
  <1>4. CASE Frame
    BY <1>4, FrameKeeps
  <1>5. CASE NewLevel
    BY <1>5, NewLevelKeeps
  <1> QED
    BY <1>1, <1>2, <1>3, <1>4, <1>5 DEF Next

-----------------------------------------------------------------------------
(* The three counters of a public vote are the ballots of the clients on   *)
(* the server, through every connect, disconnect, vote, frame, change of   *)
(* level (G_Vote, Cmd_Vote_f, G_ResetVote, ClientDisconnect).              *)
THEOREM PublicTallyIsExact == Spec => []PublicTallyIsBallots
  <1>1. IInv => PublicTallyIsBallots
    BY DEF IInv, Sound, PublicTallyIsBallots
  <1> QED
    BY <1>1, InitSound, StepKeeps, PTL DEF Spec

(* No vote is called over one that waits to be executed, so what is        *)
(* executed is what passed (Cmd_CallVote_f, G_CheckVote, G_ExecuteVote).   *)
THEOREM PassedVotesAreKept == Spec => []NeverRunningAndPending
  <1>1. IInv => NeverRunningAndPending
    BY DEF IInv, Sound, NeverRunningAndPending, Exclusive, Running, Pending
  <1> QED
    BY <1>1, InitSound, StepKeeps, PTL DEF Spec

(* Every variable of the votes keeps its type. *)
THEOREM VotingTypes == Spec => []TypeOK
  <1>1. IInv => TypeOK
    BY DEF IInv, Sound, TypeOK
  <1> QED
    BY <1>1, InitSound, StepKeeps, PTL DEF Spec
-----------------------------------------------------------------------------
(* The quorum.  It is at most what more than half of the voters is, so     *)
(* that whoever has a majority of all voters has the quorum.               *)

(* Products of natural numbers grow with their factors. *)
LEMMA Products ==
  ASSUME NEW a \in Nat, NEW b \in Nat, NEW c \in Nat, NEW d \in Nat, a <= c, b <= d
  PROVE  a * b \in Nat /\ c * d \in Nat /\ a * b <= c * d
  <1>1. PICK e \in Nat : c = a + e
    <2>1. c - a \in Nat /\ c = a + (c - a)
      OBVIOUS
    <2> QED
      BY <2>1
  <1>2. PICK f \in Nat : d = b + f
    <2>1. d - b \in Nat /\ d = b + (d - b)
      OBVIOUS
    <2> QED
      BY <2>1
  <1>3. a * b \in Nat /\ a * f \in Nat /\ e * b \in Nat /\ e * f \in Nat
    OBVIOUS
  <1>4. (a + e) * (b + f) = a * b + a * f + e * b + e * f
    OBVIOUS
  <1> QED
    BY <1>1, <1>2, <1>3, <1>4

(* More than half of n, to the fifth power, is more than n cubed. *)
LEMMA MajorityIsEnough ==
  ASSUME NEW n \in Nat, NEW k \in Nat, n + 2 <= 2 * k
  PROVE  n * n * n < FifthPower(k)
  <1>1. k * k >= n + 1
    <2>1. (n + 2) * (n + 2) <= (2 * k) * (2 * k)
      BY Products
    <2>2. (n + 2) * (n + 2) = n * n + 4 * n + 4 /\ n * n >= 0
      BY Products
    <2>3. (2 * k) * (2 * k) = 4 * (k * k)
      OBVIOUS
    <2> QED
      BY <2>1, <2>2, <2>3
  <1>2. k * k * k >= n * n
    <2>1. ((n + 2) * (n + 2)) * (n + 2) <= ((2 * k) * (2 * k)) * (2 * k)
      BY Products
    <2>2. n * n \in Nat /\ n * n * n \in Nat /\ k * k * k \in Nat
      BY Products
    <2>3. 2 * n <= n * n + 12
      <3>1. n >= 2 => 2 * n <= n * n
        BY Products
      <3> QED
        BY <3>1, <2>2
    <2>4. n * (2 * n) <= n * (n * n + 12)
      BY <2>2, <2>3, Products
    <2>5. n * (2 * n) = 2 * (n * n) /\ n * (n * n + 12) = n * n * n + 12 * n
      BY <2>2
    <2>6. ((n + 2) * (n + 2)) * (n + 2) = n * n * n + 6 * (n * n) + 12 * n + 8
      OBVIOUS
    <2>7. ((2 * k) * (2 * k)) * (2 * k) = 8 * (k * k * k)
      OBVIOUS
    <2> QED
      BY <2>1, <2>2, <2>4, <2>5, <2>6, <2>7
  <1>3. (n * n) * (n + 1) <= (k * k * k) * (k * k)
    <2>1. n * n \in Nat /\ k * k * k \in Nat /\ k * k \in Nat
      BY Products
    <2> QED
      BY <1>1, <1>2, <2>1, Products
  <1>4. (k * k * k) * (k * k) = FifthPower(k)
    BY DEF FifthPower
  <1>5. (n * n) * (n + 1) = n * n * n + n * n
    OBVIOUS
  <1>6. n = 0 => n * n * n < FifthPower(k)
    <2>1. k >= 1
      OBVIOUS
    <2>2. k * k >= 1
      BY <2>1, Products
    <2>3. (k * k) * k >= 1 /\ k * k \in Nat
      BY <2>1, <2>2, Products
    <2>4. (k * k * k) * (k * k) >= 1
      BY <2>2, <2>3, Products
    <2> QED
      BY <2>4, <1>4
  <1>7. n > 0 => n * n > 0
    BY Products
  <1> QED
    BY <1>3, <1>4, <1>5, <1>6, <1>7, Products

(* A quorum exists, and is at most any majority. *)
LEMMA QuorumIsMet ==
  ASSUME NEW n \in Nat
  PROVE  QuorumOf(n) \in Nat /\ 2 * QuorumOf(n) <= n + 1
  <1> DEFINE room == n * n * n
             T    == {k \in Nat : FifthPower(k + 1) > room}
  <1>0. room \in Nat
    BY Products
  <1>1. n \in T
    <2>1. n + 1 \in Nat /\ n <= n + 1
      OBVIOUS
    <2>2. room <= (n + 1) * (n + 1) * (n + 1)
      BY <2>1, Products
    <2>3. n = 0 => FifthPower(n + 1) > room
      BY DEF FifthPower
    <2>4. n > 0 => n + 2 <= 2 * (n + 1)
      OBVIOUS
    <2>5. n * n * n < FifthPower(n + 1)
      BY <2>1, MajorityIsEnough
    <2> QED
      BY <2>5
  <1>2. PICK k \in T : \A j \in T : k <= j
    BY <1>1, Least
  <1> HIDE DEF T
  <1>3. k \in 0 .. n /\ FifthPower(k + 1) > room
    BY <1>1, <1>2 DEF T
  <1>4. FifthPower(k) <= room
    <2>1. CASE k = 0
      BY <2>1, <1>0 DEF FifthPower
    <2>2. CASE k > 0
      <3>1. k - 1 \in Nat /\ k - 1 \notin T /\ (k - 1) + 1 = k
        BY <2>2, <1>2, <1>3
      <3>2. FifthPower(k) \in Nat
        <4>1. k \in Nat
          BY <1>3
        <4>2. k * k \in Nat
          BY <4>1, Products
        <4>3. k * k * k \in Nat
          BY <4>1, <4>2, Products
        <4>4. k * k * k * k \in Nat
          BY <4>1, <4>3, Products
        <4> QED
          BY <4>1, <4>4, Products DEF FifthPower
      <3>3. ~(FifthPower((k - 1) + 1) > room)
        BY <3>1 DEF T
      <3> QED
        BY <3>1, <3>2, <3>3, <1>0
    <2> QED
      BY <2>1, <2>2, <1>3
  <1>5. QuorumOf(n) \in 0 .. n /\ FifthPower(QuorumOf(n)) <= n * n * n
    BY <1>3, <1>4 DEF QuorumOf
  <1> DEFINE q == QuorumOf(n)
  <1>6. q \in Nat /\ FifthPower(q) <= n * n * n
    BY <1>5
  <1> HIDE DEF q
  <1>7. ~(n + 2 <= 2 * q)
    <2> SUFFICES ASSUME n + 2 <= 2 * q PROVE FALSE
      OBVIOUS
    <2>1. n * n * n < FifthPower(q)
      BY <1>6, MajorityIsEnough
    <2>2. FifthPower(q) \in Int
      BY <1>6 DEF FifthPower
    <2> QED
      BY <1>0, <1>6, <2>1, <2>2
  <1> QED
    BY <1>6, <1>7 DEF q

-----------------------------------------------------------------------------
(* The decision.                                                           *)

(* A quorum is asked for only of votes that need half of the votes.        *)
QuorumNeedsMajority ==
  \A k \in Kinds : VoteInfo[k].quorum => VoteInfo[k].percent >= 50

(* Whatever the voters who are left say, a vote decided early is decided   *)
(* alike.                                                                  *)
LEMMA TheRestDecidesNothing ==
  ASSUME QuorumNeedsMajority, NEW v \in VoteState, NEW n \in Nat,
         v.yes \in Nat, v.no \in Nat, v.yes <= v.voted,
         Ends(v, n), v.age < VOTE_TIME, NEW y \in 0 .. (n - v.yes - v.no)
  PROVE  LET rest == n - v.yes - v.no
         IN  Passes(v, n) <=> Passes([v EXCEPT !.yes = @ + y, !.no = @ + rest - y,
                                               !.voted = @ + rest], n)
  <1> DEFINE rest == n - v.yes - v.no
             w    == [v EXCEPT !.yes = @ + y, !.no = @ + rest - y, !.voted = @ + rest]
             p    == VoteInfo[v.kind].percent
             pn   == p * n
  <1>1. /\ v.kind \in Kinds /\ p \in 1 .. 100 /\ v.age \in Int /\ v.voted \in Int
        /\ (VoteInfo[v.kind].quorum => p >= 50)
    BY VotingAssumption DEF VoteState, QuorumNeedsMajority, NotRunning
  <1>2. /\ w.kind = v.kind /\ w.age = v.age /\ w.yes = v.yes + y
        /\ w.no = v.no + rest - y /\ w.voted = v.voted + rest
    BY DEF VoteState
  <1>3. rest \in Nat /\ y \in Nat /\ y <= rest
    OBVIOUS
  <1>4. pn \in Int /\ (100 - p) * n = 100 * n - pn
    BY <1>1
  <1>5. CASE rest = 0
    <2>1. w.yes = v.yes /\ w.no = v.no /\ w.voted = v.voted
      BY <1>5, <1>1, <1>2, <1>3
    <2> HIDE DEF w
    <2>2. /\ AtEnd(w, n) <=> AtEnd(v, n)
          /\ EarlyPass(w, n, p) <=> EarlyPass(v, n, p)
      BY <1>2, <2>1 DEF AtEnd, EarlyPass
    <2>3. ShareAbove(w.yes, w.no, p) <=> ShareAbove(v.yes, v.no, p)
      BY <2>1
    <2>4. Passes(w, n) <=> Passes(v, n)
      BY <1>2, <2>1, <2>2, <2>3 DEF Passes, p
    <2> QED
      BY <2>4 DEF w, rest
  <1>6. CASE rest > 0
    <2>1. ~AtEnd(v, n) /\ AtEnd(w, n) /\ w.yes + w.no = n /\ n > 0
      <3> HIDE DEF w
      <3>1. v.yes + v.no # n /\ n > 0
        BY <1>6
      <3>2. (v.yes + y) + (v.no + rest - y) = n
        BY <1>3
      <3>3. w.yes + w.no = n
        BY <1>2, <3>2
      <3> QED
        BY <1>1, <3>1, <3>3, VotingAssumption DEF AtEnd
    <2>2. QuorumOf(n) \in Nat /\ 2 * QuorumOf(n) <= n + 1
      BY QuorumIsMet
    <2> HIDE DEF w
    <2>3. CASE EarlyPass(v, n, p)
      <3>1. 100 * v.yes > pn
        BY <2>3 DEF EarlyPass
      <3>2. VoteInfo[v.kind].quorum => v.voted >= QuorumOf(n)
        <4> HAVE VoteInfo[v.kind].quorum
        <4>1. p \in Nat /\ 50 * n <= pn
          BY <1>1, Products
        <4> HIDE DEF p, pn
        <4>2. 2 * v.yes >= n + 1
          BY <3>1, <4>1, <1>4
        <4> QED
          BY <4>2, <2>2, <1>1
      <3>3. Passes(v, n)
        BY <2>1, <2>3, <3>2 DEF Passes
      <3> HIDE DEF p, pn, rest
      <3>4. 100 * w.yes > pn /\ w.yes # 0 /\ w.voted >= v.voted
        BY <3>1, <1>1, <1>2, <1>3, <1>4
      <3>5. ShareAbove(w.yes, w.no, p)
        BY <2>1, <3>4 DEF ShareAbove, pn
      <3>6. VoteInfo[v.kind].quorum => w.voted >= QuorumOf(n)
        BY <3>2, <3>4, <2>2, <1>1, <1>2, <1>3
      <3>7. Passes(w, n)
        BY <2>1, <3>4, <3>5, <3>6, <1>2 DEF Passes, p
      <3> QED
        BY <3>3, <3>7 DEF w, rest
    <2>4. CASE ~EarlyPass(v, n, p)
      <3>1. ~Passes(v, n)
        BY <2>1, <2>4 DEF Passes
      <3>2. 100 * v.no > (100 - p) * n
        BY <2>1, <2>4 DEF Ends, Decided, EarlyFail, p
      <3>3. 100 * v.no > 100 * n - pn
        BY <3>2, <1>4
      <3> HIDE DEF p, pn
      <3>4. v.yes + y + v.no <= n
        BY <1>3
      <3>5. 100 * w.yes < pn
        BY <3>3, <3>4, <1>1, <1>2, <1>4
      <3>6. ~ShareAbove(w.yes, w.no, p)
        BY <2>1, <3>5, <1>1, <1>2, <1>3, <1>4 DEF ShareAbove, pn
      <3>7. ~Passes(w, n)
        BY <2>1, <3>6, <1>2 DEF Passes, p
      <3> QED
        BY <3>1, <3>7 DEF w, rest
    <2> QED
      BY <2>3, <2>4
  <1> QED
    BY <1>3, <1>5, <1>6

-----------------------------------------------------------------------------
(* Nobody says yes and no, and nobody has said either without having       *)
(* voted.                                                                  *)
OneAnswer(cl) ==
  \A c \in Clients : cl[c].yes \cup cl[c].no \subseteq cl[c].voted
                     /\ cl[c].yes \cap cl[c].no = {}

Answered == OneAnswer(client)

(* The exit rules touch no ballot. *)
LEMMA ExitKeepsAnswers ==
  ASSUME NEW vt, NEW cl \in [Clients -> ClientState], NEW m, OneAnswer(cl),
         NEW o \in CheckExitRules(vt, cl, m)
  PROVE  OneAnswer(o.client)
  <1>1. o.client \in {cl, ExitLevel(cl)}
    BY DEF CheckExitRules, CheckIntermissionExit, BeginIntermission
  <1>2. \A c \in Clients : /\ ExitLevel(cl)[c].voted = cl[c].voted
                           /\ ExitLevel(cl)[c].yes = cl[c].yes
                           /\ ExitLevel(cl)[c].no = cl[c].no
    BY DEF ExitLevel, ClientState
  <1> QED
    BY <1>1, <1>2 DEF OneAnswer

LEMMA RanksKeepAnswers ==
  ASSUME NEW vt, NEW cl \in [Clients -> ClientState], OneAnswer(cl),
         CalculateRanks(vt, cl)
  PROVE  OneAnswer(client')
  <1>1. PICK o \in CheckIntermissionExit(vt, cl, match) : Becomes(o)
    BY DEF CalculateRanks
  <1>2. o \in CheckExitRules(vt, cl, match)
    BY DEF CheckExitRules
  <1> QED
    BY <1>1, <1>2, ExitKeepsAnswers DEF Becomes

LEMMA ResetKeepsAnswers ==
  ASSUME NEW cl \in [Clients -> ClientState], OneAnswer(cl), NEW ts \in SUBSET Votes
  PROVE  OneAnswer(ResetBits(cl, ts))
  <1>1. \A c \in Clients : /\ ResetBits(cl, ts)[c].voted = cl[c].voted \ ts
                           /\ ResetBits(cl, ts)[c].yes = cl[c].yes \ ts
                           /\ ResetBits(cl, ts)[c].no = cl[c].no \ ts
    BY DEF ResetBits, ClientState
  <1> QED
    BY <1>1 DEF OneAnswer

(* One client's record replaced. *)
LEMMA AnswerReplaced ==
  ASSUME NEW cl \in [Clients -> ClientState], OneAnswer(cl), NEW c \in Clients,
         NEW r, r.yes \cup r.no \subseteq r.voted, r.yes \cap r.no = {}
  PROVE  OneAnswer([cl EXCEPT ![c] = r])
  BY DEF OneAnswer

LEMMA AnswersKept == IInv /\ Answered /\ [Next]_vars => Answered'
  <1> SUFFICES ASSUME IInv, OneAnswer(client), [Next]_vars PROVE OneAnswer(client')
    BY DEF Answered
  <1>0. client \in [Clients -> ClientState] /\ vote \in [Votes -> VoteState]
    BY DEF IInv, Sound
  <1>f. \A p \in BOOLEAN, s \in {"DISCONNECTED", "CONNECTING", "CONNECTED"} :
          /\ NewClient(p, s) \in ClientState
          /\ NewClient(p, s).yes = {} /\ NewClient(p, s).no = {}
          /\ NewClient(p, s).voted = {}
    BY FreshClient DEF NewClient
  <1>1. CASE UNCHANGED vars
    BY <1>1 DEF vars
  <1>2. ASSUME NEW c \in Clients, ClientConnect(c) PROVE OneAnswer(client')
    <2> DEFINE r == NewClient(TRUE, "CONNECTING")
               s == [client[c] EXCEPT !.present = TRUE]
    <2>1. r \in ClientState /\ OneAnswer([client EXCEPT ![c] = r])
      <3>1. r \in ClientState /\ r.yes = {} /\ r.no = {} /\ r.voted = {}
        BY <1>f
      <3> HIDE DEF r
      <3>2. r.yes \cup r.no \subseteq r.voted /\ r.yes \cap r.no = {}
        BY <3>1
      <3> QED
        BY <3>1, <3>2, <1>0, AnswerReplaced
    <2>2. OneAnswer([client EXCEPT ![c] = s])
      <3>1. s.yes = client[c].yes /\ s.no = client[c].no /\ s.voted = client[c].voted
        BY <1>0 DEF ClientState
      <3> HIDE DEF s
      <3> QED
        BY <3>1, <1>0, AnswerReplaced DEF OneAnswer
    <2>3. CASE client[c].connected = "DISCONNECTED"
      <3>1. CalculateRanks(vote, [client EXCEPT ![c] = r])
        BY <1>2, <2>3 DEF ClientConnect
      <3> HIDE DEF r
      <3>2. [client EXCEPT ![c] = r] \in [Clients -> ClientState]
        BY <1>0, <2>1
      <3> QED
        BY <3>1, <3>2, <2>1, RanksKeepAnswers
    <2>4. CASE client[c].connected # "DISCONNECTED"
      BY <1>2, <2>2, <2>4 DEF ClientConnect
    <2> QED
      BY <2>3, <2>4
  <1>3. ASSUME NEW c \in Clients, ClientRefused(c) PROVE OneAnswer(client')
    <2> DEFINE r == NewClient(FALSE, "CONNECTING")
    <2>1. r.yes = {} /\ r.no = {} /\ r.voted = {}
      BY <1>f
    <2>2. client' = [client EXCEPT ![c] = r]
      BY <1>3 DEF ClientRefused
    <2> HIDE DEF r
    <2>3. r.yes \cup r.no \subseteq r.voted /\ r.yes \cap r.no = {}
      BY <2>1
    <2> QED
      BY <2>2, <2>3, <1>0, AnswerReplaced
  <1>4. ASSUME NEW c \in Clients, NEW vt, NEW r \in ClientState,
               r.yes = client[c].yes, r.no = client[c].no, r.voted = client[c].voted,
               CalculateRanks(vt, [client EXCEPT ![c] = r])
        PROVE  OneAnswer(client')
    <2>1. OneAnswer([client EXCEPT ![c] = r])
      BY <1>0, <1>4, AnswerReplaced DEF OneAnswer
    <2>2. [client EXCEPT ![c] = r] \in [Clients -> ClientState]
      BY <1>0
    <2> QED
      BY <1>4, <2>1, <2>2, RanksKeepAnswers
  <1>5. ASSUME NEW c \in Clients, ClientBegin(c) PROVE OneAnswer(client')
    <2> DEFINE r == [client[c] EXCEPT !.connected = "CONNECTED"]
    <2>1. /\ r \in ClientState /\ r.yes = client[c].yes /\ r.no = client[c].no
          /\ r.voted = client[c].voted
      BY <1>0 DEF ClientState
    <2>2. CalculateRanks(vote, [client EXCEPT ![c] = r])
      BY <1>5 DEF ClientBegin
    <2> HIDE DEF r
    <2> QED
      BY <2>1, <2>2, <1>4
  <1>6. ASSUME NEW c \in Clients, ClientDisconnect(c) PROVE OneAnswer(client')
    <2> DEFINE r == [client[c] EXCEPT !.present = FALSE, !.connected = "DISCONNECTED"]
    <2>1. /\ r \in ClientState /\ r.yes = client[c].yes /\ r.no = client[c].no
          /\ r.voted = client[c].voted
      BY <1>0 DEF ClientState
    <2>2. CalculateRanks(Retract(c, {client[c].team, NoTeam}), [client EXCEPT ![c] = r])
      BY <1>0, <1>6 DEF ClientDisconnect, ClientState
    <2> HIDE DEF r
    <2> QED
      BY <2>1, <2>2, <1>4
  <1>7. ASSUME NEW c \in Clients, NEW t \in Votes, G_ChangeTeam(c, t)
        PROVE  OneAnswer(client')
    <2> DEFINE r == [client[c] EXCEPT !.team = t]
    <2>1. /\ r \in ClientState /\ r.yes = client[c].yes /\ r.no = client[c].no
          /\ r.voted = client[c].voted
      BY <1>0 DEF ClientState
    <2>2. CalculateRanks(Retract(c, {client[c].team} \ {NoTeam}), [client EXCEPT ![c] = r])
      BY <1>7 DEF G_ChangeTeam
    <2> HIDE DEF r
    <2> QED
      BY <2>1, <2>2, <1>4
  <1>8. \A t \in Votes : /\ OneAnswer(ResetBits(client, {t}))
                         /\ ResetBits(client, {t}) \in [Clients -> ClientState]
                         /\ \A c \in Clients : LET s == ResetBits(client, {t})[c]
                                               IN  t \notin s.voted \cup s.yes \cup s.no
    <2> TAKE t \in Votes
    <2>1. {t} \in SUBSET Votes
      OBVIOUS
    <2>2. \A c \in Clients : LET s == ResetBits(client, {t})[c]
                             IN  t \notin s.voted \cup s.yes \cup s.no
      BY <1>0 DEF ResetBits, ClientState
    <2> QED
      BY <1>0, <2>1, <2>2, ResetKeepsAnswers, BitsReset
  <1>9. ASSUME NEW c \in Clients, NEW t \in Votes, CallVoteRefused(c, t)
        PROVE  OneAnswer(client')
    BY <1>8, <1>9 DEF CallVoteRefused
  <1>10. ASSUME NEW c \in Clients, NEW t \in Votes, NEW k \in Kinds, CallVote(c, t, k)
         PROVE  OneAnswer(client')
    <2> DEFINE cl == ResetBits(client, {t})
               r  == [cl[c] EXCEPT !.voted = @ \cup {t}, !.yes = @ \cup {t}]
    <2>1. client' = cl \/ client' = [cl EXCEPT ![c] = r]
      BY <1>10 DEF CallVote
    <2>2. /\ OneAnswer(cl) /\ cl \in [Clients -> ClientState]
          /\ t \notin cl[c].voted \cup cl[c].yes \cup cl[c].no
      BY <1>8
    <2> HIDE DEF cl
    <2>3. r.voted = cl[c].voted \cup {t} /\ r.yes = cl[c].yes \cup {t} /\ r.no = cl[c].no
      BY <2>2 DEF ClientState
    <2> HIDE DEF r
    <2>4. r.yes \cup r.no \subseteq r.voted /\ r.yes \cap r.no = {}
      BY <2>2, <2>3 DEF OneAnswer
    <2> QED
      BY <2>1, <2>2, <2>4, AnswerReplaced
  <1>11. ASSUME NEW c \in Clients, NEW t \in Votes, NEW answer, Cmd_Vote_f(c, t, answer)
         PROVE  OneAnswer(client')
    <2> DEFINE r == [client[c] EXCEPT
                       !.voted = @ \cup {t},
                       !.yes = IF answer = "yes" THEN @ \cup {t} ELSE @,
                       !.no  = IF answer = "no"  THEN @ \cup {t} ELSE @]
    <2>1. client' = [client EXCEPT ![c] = r] /\ t \notin client[c].voted
      BY <1>11 DEF Cmd_Vote_f
    <2>2. /\ r.voted = client[c].voted \cup {t}
          /\ \/ r.yes = client[c].yes /\ r.no = client[c].no
             \/ r.yes = client[c].yes \cup {t} /\ r.no = client[c].no
             \/ r.yes = client[c].yes /\ r.no = client[c].no \cup {t}
      BY <1>0 DEF ClientState
    <2> HIDE DEF r
    <2>3. r.yes \cup r.no \subseteq r.voted /\ r.yes \cap r.no = {}
      BY <2>1, <2>2 DEF OneAnswer
    <2> QED
      BY <2>1, <2>3, <1>0, AnswerReplaced
  <1>12. ASSUME NEW c \in Clients, ClientStep(c) PROVE OneAnswer(client')
    BY <1>12, <1>2, <1>3, <1>5, <1>6, <1>7, <1>9, <1>10, <1>11 DEF ClientStep
  <1>13. ASSUME NEW t \in Votes, NEW cancel \in BOOLEAN, G_admin_endvote(t, cancel)
         PROVE  OneAnswer(client')
    BY <1>8, <1>13 DEF G_admin_endvote
  <1>14. CASE Frame
    <2>1. PICK o \in CheckExitRules([t \in Votes |-> Tick(vote[t])], client, TickMatch(match)) :
            client' = ResetBits(o.client, {t \in Votes : Ends(o.vote[t], numVotingClients(t))})
      BY <1>14 DEF Frame
    <2>2. OneAnswer(o.client)
      BY <1>0, <2>1, ExitKeepsAnswers
    <2>3. o.client \in [Clients -> ClientState]
      <3>1. o.client \in {client, ExitLevel(client)}
        BY <2>1 DEF CheckExitRules, CheckIntermissionExit, BeginIntermission
      <3>2. ExitLevel(client) \in [Clients -> ClientState]
        BY <1>0 DEF ExitLevel, ClientState
      <3> QED
        BY <1>0, <3>1, <3>2
    <2> QED
      BY <2>1, <2>2, <2>3, ResetKeepsAnswers
  <1>15. CASE NewLevel
    <2>1. \A c \in Clients :
            client'[c].yes = {} /\ client'[c].no = {} /\ client'[c].voted = {}
      BY <1>15 DEF NewLevel, NewClient
    <2> QED
      BY <2>1 DEF OneAnswer
  <1> QED
    BY <1>1, <1>12, <1>13, <1>14, <1>15 DEF Next

LEMMA AnswersAtFirst == Init => Answered
  BY DEF Init, Answered, OneAnswer, NewClient

-----------------------------------------------------------------------------
(* What a frame makes of the public vote: unless the intermission stops it, *)
(* the vote is checked as it is after one more frame.                      *)
LEMMA PublicVoteInFrame ==
  ASSUME IInv, Frame
  PROVE  LET v == Tick(vote[NoTeam])
             n == numVotingClients(NoTeam)
         IN  \/ vote'[NoTeam] = G_CheckVote(v, n)
             \/ /\ VoteInfo[v.kind].stop /\ match'.intermission
                /\ vote'[NoTeam].due = v.due
  <1> DEFINE v == Tick(vote[NoTeam])
             n == numVotingClients(NoTeam)
             ticked == [t \in Votes |-> Tick(vote[t])]
  <1>1. NoTeam \in Votes /\ vote[NoTeam] \in VoteState
    BY DEF IInv, Sound, Votes
  <1>2. PICK o \in CheckExitRules(ticked, client, TickMatch(match)) :
          /\ vote' = [t \in Votes |-> G_CheckVote(o.vote[t], numVotingClients(t))]
          /\ match' = [o.match EXCEPT !.restarted =
                         @ \/ \E t \in {u \in Votes : vote[u].due = 0} : InfoOf(t).map]
    BY DEF Frame
  <1>3. vote'[NoTeam] = G_CheckVote(o.vote[NoTeam], n) /\ ticked[NoTeam] = v
    BY <1>1, <1>2
  <1>4. v \in VoteState
    BY <1>1, VoteOperators
  <1> HIDE DEF v, n, ticked
  <1> DEFINE m == TickMatch(match)
  <1> HIDE DEF m
  <1>5. \/ o.vote = ticked
        \/ o.vote = G_ClearVotes(ticked)
           /\ o.match = [intermission |-> TRUE, restarted |-> FALSE, age |-> 0]
    <2>1. o \in CheckExitRules(ticked, client, m)
      BY DEF m
    <2>2. \/ o = [vote |-> ticked, client |-> client, match |-> m]
          \/ o = [vote |-> ticked, client |-> ExitLevel(client),
                  match |-> [intermission |-> FALSE, restarted |-> TRUE, age |-> 0]]
          \/ o = [vote |-> G_ClearVotes(ticked), client |-> client,
                  match |-> [intermission |-> TRUE, restarted |-> FALSE, age |-> 0]]
      BY <2>1 DEF CheckExitRules, CheckIntermissionExit, BeginIntermission
    <2>3. CASE o = [vote |-> ticked, client |-> client, match |-> m]
      BY <2>3
    <2>4. CASE o = [vote |-> ticked, client |-> ExitLevel(client),
                    match |-> [intermission |-> FALSE, restarted |-> TRUE, age |-> 0]]
      BY <2>4
    <2>5. CASE o = [vote |-> G_ClearVotes(ticked), client |-> client,
                    match |-> [intermission |-> TRUE, restarted |-> FALSE, age |-> 0]]
      BY <2>5
    <2> QED
      BY <2>2, <2>3, <2>4, <2>5
  <1>6. CASE o.vote[NoTeam] = v
    BY <1>3, <1>6 DEF v, n
  <1>7. CASE o.vote[NoTeam] # v
    <2>1. o.vote = G_ClearVotes(ticked)
          /\ o.match = [intermission |-> TRUE, restarted |-> FALSE, age |-> 0]
      BY <1>3, <1>5, <1>7
    <2>2. VoteInfo[v.kind].stop /\ o.vote[NoTeam] = [v EXCEPT !.age = NotRunning]
      BY <1>1, <1>3, <1>7, <2>1 DEF G_ClearVotes
    <2>3. match'.intermission
      BY <1>2, <2>1
    <2>4. o.vote[NoTeam].age = NotRunning /\ o.vote[NoTeam].due = v.due
      BY <1>4, <2>2 DEF VoteState
    <2>5. vote'[NoTeam] = o.vote[NoTeam]
      BY <1>3, <2>4 DEF G_CheckVote, Ends
    <2> QED
      BY <2>2, <2>3, <2>4, <2>5 DEF v, n
  <1> QED
    BY <1>6, <1>7

(* The counters of a public vote that runs. *)
LEMMA PublicCounters ==
  ASSUME IInv, Answered, Running(NoTeam)
  PROVE  LET v == vote[NoTeam]
         IN  /\ v.yes = Cardinality(CastYes(client, NoTeam))
             /\ v.no = Cardinality(CastNo(client, NoTeam))
             /\ v.yes \in Nat /\ v.no \in Nat /\ v.voted \in Nat
             /\ numVotingClients(NoTeam) \in Nat
             /\ v.yes <= v.voted /\ v.yes + v.no <= numVotingClients(NoTeam)
  <1> DEFINE all == Cast(client, NoTeam)
             yes == CastYes(client, NoTeam)
             no  == CastNo(client, NoTeam)
             ask == Voters(client, NoTeam)
  <1>1. /\ vote[NoTeam].voted = Cardinality(all)
        /\ vote[NoTeam].yes = Cardinality(yes)
        /\ vote[NoTeam].no = Cardinality(no)
    BY DEF IInv, Sound, TallyMatches, Running
  <1>2. /\ all \subseteq ask /\ yes \subseteq all /\ no \subseteq all
        /\ yes \cap no = {} /\ ask \subseteq Clients
    BY DEF Cast, CastYes, CastNo, Voters, Answered, OneAnswer
  <1> HIDE DEF all, yes, no, ask
  <1>3. /\ IsFiniteSet(ask) /\ IsFiniteSet(all) /\ IsFiniteSet(yes) /\ IsFiniteSet(no)
    BY <1>2, VotingAssumption, FS_Subset
  <1>4. /\ Cardinality(ask) \in Nat /\ Cardinality(all) \in Nat
        /\ Cardinality(yes) \in Nat /\ Cardinality(no) \in Nat
    BY <1>3, FS_CardinalityType
  <1>5. Cardinality(yes) <= Cardinality(all)
    BY <1>2, <1>3, FS_Subset
  <1>6. Cardinality(yes) + Cardinality(no) <= Cardinality(ask)
    <2>1. yes \cup no \subseteq ask
      BY <1>2
    <2>2. Cardinality(yes \cup no) <= Cardinality(ask)
      BY <2>1, <1>3, FS_Subset
    <2>3. Cardinality(yes \cup no) = Cardinality(yes) + Cardinality(no) - Cardinality(yes \cap no)
      BY <1>3, FS_Union
    <2>4. Cardinality(yes \cap no) = 0
      BY <1>2, FS_EmptySet
    <2> QED
      BY <2>2, <2>3, <2>4, <1>4
  <1> QED
    BY <1>1, <1>4, <1>5, <1>6 DEF numVotingClients, ask, yes, no

(* What a frame decides is what the vote passes by. *)
LEMMA DecisionIsKept ==
  ASSUME IInv, Running(NoTeam), NEW n, Ends(Tick(vote[NoTeam]), n),
         vote'[NoTeam] = G_CheckVote(Tick(vote[NoTeam]), n)
  PROVE  (vote'[NoTeam].due # Nothing) <=> Passes(Tick(vote[NoTeam]), n)
  <1> DEFINE v == Tick(vote[NoTeam])
  <1>1. vote[NoTeam] \in VoteState /\ Exclusive(vote[NoTeam])
    BY DEF IInv, Sound, Votes
  <1>2. v \in VoteState /\ Exclusive(v) /\ v.age # NotRunning
    BY <1>1, VoteOperators DEF Running
  <1> HIDE DEF v
  <1>3. v.due = Nothing /\ G_ResetVote(v).due = v.due /\ G_ResetVote(v) \in VoteState
    BY <1>2, VoteOperators DEF Exclusive
  <1>4. VoteInfo[v.kind].delay \in Nat
    BY <1>2, VotingAssumption DEF VoteState
  <1>5. vote'[NoTeam] = [G_ResetVote(v) EXCEPT
                           !.due = IF Passes(v, n) THEN VoteInfo[v.kind].delay ELSE @]
    BY DEF G_CheckVote, v
  <1>6. vote'[NoTeam].due = IF Passes(v, n) THEN VoteInfo[v.kind].delay ELSE Nothing
    BY <1>3, <1>5 DEF VoteState
  <1>7. VoteInfo[v.kind].delay # Nothing
    BY <1>4 DEF Nothing
  <1> QED
    BY <1>6, <1>7 DEF v

(* An early decision on a public vote is the one the full count would      *)
(* give, provided every vote with a quorum needs half of the votes         *)
(* (G_CheckVote): otherwise the quorum may close what others could yet     *)
(* carry.                                                                  *)
THEOREM EarlyDecisionsAreFinal ==
  ASSUME QuorumNeedsMajority
  PROVE  Spec => EarlyEndIsFinal
  <1>1. IInv /\ Answered /\ [Next]_vars =>
          [Frame =>
             LET v    == Tick(vote[NoTeam])
                 n    == numVotingClients(NoTeam)
                 rest == n - v.yes - v.no
             IN  Ends(v, n) /\ v.age < VOTE_TIME /\ vote'[NoTeam].age = NotRunning
                   /\ ~(VoteInfo[v.kind].stop /\ match'.intermission)
                 => \A y \in 0 .. rest :
                      (vote'[NoTeam].due # Nothing) <=> Passes(
                         [v EXCEPT !.yes = @ + y, !.no = @ + rest - y, !.voted = @ + rest], n)]_vars
    <2> DEFINE v    == Tick(vote[NoTeam])
               n    == numVotingClients(NoTeam)
               rest == n - v.yes - v.no
    <2> SUFFICES ASSUME IInv, Answered, Frame, Ends(v, n), v.age < VOTE_TIME,
                        ~(VoteInfo[v.kind].stop /\ match'.intermission),
                        NEW y \in 0 .. rest
                 PROVE  (vote'[NoTeam].due # Nothing) <=> Passes(
                          [v EXCEPT !.yes = @ + y, !.no = @ + rest - y, !.voted = @ + rest], n)
      OBVIOUS
    <2>1. vote[NoTeam] \in VoteState
      BY DEF IInv, Sound, Votes
    <2>2. /\ v \in VoteState /\ v.yes = vote[NoTeam].yes /\ v.no = vote[NoTeam].no
          /\ v.voted = vote[NoTeam].voted /\ Running(NoTeam)
      BY <2>1, VoteOperators DEF Ends, Running
    <2>3. /\ n \in Nat /\ v.yes \in Nat /\ v.no \in Nat /\ v.yes <= v.voted
      BY <2>2, PublicCounters
    <2>4. vote'[NoTeam] = G_CheckVote(v, n)
      BY PublicVoteInFrame
    <2>5. (vote'[NoTeam].due # Nothing) <=> Passes(v, n)
      BY <2>2, <2>4, DecisionIsKept
    <2>6. Passes(v, n) <=> Passes(
            [v EXCEPT !.yes = @ + y, !.no = @ + rest - y, !.voted = @ + rest], n)
      BY <2>2, <2>3, TheRestDecidesNothing
    <2> QED
      BY <2>5, <2>6
  <1> QED
    BY <1>1, InitSound, StepKeeps, AnswersAtFirst, AnswersKept, PTL DEF Spec, EarlyEndIsFinal

(* A public vote that passes by itself has a yes, and among the ballots of *)
(* the clients still on the server more than its threshold's share say yes *)
(* (G_CheckVote, G_Vote).                                                  *)
THEOREM PassedVotesAreBacked == Spec => PassIsBacked
  <1>1. IInv /\ Answered /\ [Next]_vars =>
          [Frame /\ vote[NoTeam].due = Nothing /\ vote'[NoTeam].due # Nothing =>
             LET yes == Cardinality(CastYes(client, NoTeam))
                 no  == Cardinality(CastNo(client, NoTeam))
             IN  yes > 0 /\ 100 * yes > InfoOf(NoTeam).percent * (yes + no)]_vars
    <2> DEFINE yes == Cardinality(CastYes(client, NoTeam))
               no  == Cardinality(CastNo(client, NoTeam))
               p   == InfoOf(NoTeam).percent
    <2> SUFFICES ASSUME IInv, Answered, Frame, vote[NoTeam].due = Nothing,
                        vote'[NoTeam].due # Nothing
                 PROVE  yes > 0 /\ 100 * yes > p * (yes + no)
      OBVIOUS
    <2> DEFINE v == Tick(vote[NoTeam])
               n == numVotingClients(NoTeam)
    <2>1. vote[NoTeam] \in VoteState
      BY DEF IInv, Sound, Votes
    <2>2. /\ v \in VoteState /\ v.yes = vote[NoTeam].yes /\ v.no = vote[NoTeam].no
          /\ v.age = NotRunning <=> vote[NoTeam].age = NotRunning
      BY <2>1, VoteOperators
    <2>3. v.due = Nothing /\ v.kind = vote[NoTeam].kind
      BY <2>1 DEF Tick, VoteState
    <2>4. vote'[NoTeam] = G_CheckVote(v, n)
      BY <2>3, PublicVoteInFrame
    <2>5. Ends(v, n) /\ Running(NoTeam)
      <3>1. Ends(v, n)
        <4> HIDE DEF v, n
        <4>1. ~Ends(v, n) => G_CheckVote(v, n) = v
          BY <2>2, VoteOperators
        <4> QED
          BY <4>1, <2>3, <2>4
      <3> QED
        BY <3>1, <2>2 DEF Ends, Running
    <2>6. Passes(v, n)
      BY <2>4, <2>5, DecisionIsKept
    <2>7. /\ v.yes = yes /\ v.no = no /\ yes \in Nat /\ no \in Nat /\ n \in Nat
          /\ yes + no <= n
      BY <2>2, <2>5, PublicCounters
    <2>8. p \in 1 .. 100 /\ p = VoteInfo[v.kind].percent
      BY <2>1, <2>3, VotingAssumption DEF InfoOf, VoteState
    <2>9. CASE AtEnd(v, n)
      <3>1. v.yes # 0 /\ ShareAbove(v.yes, v.no, p)
        BY <2>6, <2>8, <2>9 DEF Passes
      <3> HIDE DEF v, n, p, yes, no
      <3> QED
        BY <3>1, <2>7, <2>8 DEF ShareAbove
    <2>10. CASE ~AtEnd(v, n)
      <3>1. EarlyPass(v, n, p)
        BY <2>6, <2>8, <2>10 DEF Passes
      <3> HIDE DEF v, n, p, yes, no
      <3>2. 100 * yes > p * n
        BY <3>1, <2>7 DEF EarlyPass
      <3>3. yes + no \in Nat /\ p \in Nat /\ p <= p
        BY <2>7, <2>8
      <3>4. p * (yes + no) <= p * n /\ p * n \in Nat /\ p * (yes + no) \in Nat
        BY <3>3, <2>7, Products
      <3> QED
        BY <3>2, <3>4, <2>7
    <2> QED
      BY <2>9, <2>10
  <1> QED
    BY <1>1, InitSound, StepKeeps, AnswersAtFirst, AnswersKept, PTL DEF Spec, PassIsBacked
=============================================================================

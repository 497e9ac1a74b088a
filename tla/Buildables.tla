------------------------------ MODULE Buildables ------------------------------
(***************************************************************************)
(* The buildings of the human team: placing one, with the marked ones it   *)
(* replaces, the build points that pays for it and the power the others    *)
(* are left with; marking, deconstruction, damage and explosions; the      *)
(* count of the spawns at the end of a frame and the power state that is   *)
(* computed twice a second from what stands then.                          *)
(*                                                                         *)
(* A building stands on one of the Sites of a line; a site's number is its *)
(* place in g_entities[], 0 is no entity.  Power is counted in UNITs, so   *)
(* that what a distance leaves of it is a whole number, and build points   *)
(* in parts of MaxHealth, so that what damage leaves of a cost is one.     *)
(* g_markDeconstruct is 3, its default, or 19.  Left out: aliens, what     *)
(* marauders take away, DCCs, and whether a player may and can build at a  *)
(* site, which is left to chance.                                          *)
(***************************************************************************)
EXTENDS Integers, Sequences, FiniteSets, SequencesExt

CONSTANTS
  Position,               \* of every site on the line
  Size,                   \* buildings nearer to each other than this collide
  BuildPoints,            \* attributes: what each type costs ...
  PowerConsumption,       \* ... and takes of its neighbours' power
  Layouts,                \* what may stand at first: functions from sites to types
  InitialBuildPoints,
  BaseSupply, CompetitionRange,   \* g_powerBaseSupply, g_powerCompetitionRange
  Supply, SupplyRange,            \* g_powerReactorSupply, ..., by type
  UNIT,                   \* a common multiple of the ranges
  MaxHealth,              \* health in steps; a new building has 1
  OptionInstant,          \* g_markDeconstruct & DECON_OPTION_INSTANT
  MaxActs                 \* bound of this model: what players and mines do

Sites   == DOMAIN Position
Types   == DOMAIN BuildPoints
Sources == {"reactor", "repeater"}
None    == 0

ASSUME BuildablesAssumption ==
  /\ Position \in Seq(Nat) /\ Size \in Nat
  /\ BuildPoints \in [Types -> Nat] /\ PowerConsumption \in [Types -> Nat]
  /\ {"spawn", "reactor"} \subseteq Types /\ "none" \notin Types
  /\ Layouts \subseteq [Sites -> Types \cup {"none"}]
  /\ InitialBuildPoints \in Nat /\ MaxActs \in Nat
  /\ BaseSupply \in Nat /\ CompetitionRange \in Nat \ {0}
  /\ Supply \in [Sources -> Nat] /\ SupplyRange \in [Sources -> Nat \ {0}]
  /\ UNIT \in Nat \ {0} /\ MaxHealth \in Nat \ {0} /\ OptionInstant \in BOOLEAN

VARIABLES
  ent,          \* g_entities[]
  rc,           \* the reactor G_Reactor() remembers
  buildPoints,  \* level.team[ TEAM_HUMANS ].buildPoints
  numSpawns,    \* level.team[ TEAM_HUMANS ].numSpawns, of the last frame
  acts

vars == <<ent, rc, buildPoints, numSpawns, acts>>

Entity == [type : Types \cup {"none"}, health : -1 .. MaxHealth, spawned : BOOLEAN,
           powered : BOOLEAN, deconstruct : BOOLEAN, expectedSparePower : Int]

(* Invariant.  What the entities, the reactor G_Reactor remembers and the  *)
(* counters of level.team[] can be; the build points, which affordability  *)
(* and refunds round differently, are never negative.                      *)
TypeOK ==
  /\ ent \in [Sites -> Entity] /\ rc \in {None} \cup Sites
  /\ buildPoints \in Nat /\ numSpawns \in 0 .. Len(Position) /\ acts \in 0 .. MaxActs

-----------------------------------------------------------------------------
Nothing == [type |-> "none", health |-> 0, spawned |-> FALSE, powered |-> FALSE,
            deconstruct |-> FALSE, expectedSparePower |-> 0]

Stands(e, s) == e[s].type # "none"
Standing(e)  == {s \in Sites : Stands(e, s)}
OfType(t)    == {s \in Sites : ent[s].type = t}

Distance(s, t) ==
  IF Position[s] < Position[t] THEN Position[t] - Position[s] ELSE Position[s] - Position[t]

BuildablesIntersect(s, t) == Distance(s, t) < Size

First(S)     == CHOOSE s \in S : \A t \in S : s <= t

(* The cache is renewed only when it is no reactor any more; FindBuildable *)
(* gives the first one, whatever its state.                                *)
CachedReactor ==
  IF rc # None /\ ent[rc].type = "reactor" THEN rc
  ELSE IF OfType("reactor") = {} THEN None ELSE First(OfType("reactor"))

G_Reactor ==
  IF CachedReactor # None /\ ent[CachedReactor].spawned /\ ent[CachedReactor].health > 0
  THEN CachedReactor ELSE None

-----------------------------------------------------------------------------
(* Power. *)

Influence(power, range, d) ==
  IF d < range THEN power * (range - d) * (UNIT \div range) ELSE 0

(* What a building of type t gets from its neighbour n. *)
IncomingInterference(t, n, d, prediction) ==
  CASE t \in Sources \/ (~prediction /\ ~(n.spawned /\ n.powered)) -> 0
    [] OTHER ->
       IF n.type \in Sources
       THEN IF n.health > 0 THEN Influence(Supply[n.type], SupplyRange[n.type], d) ELSE 0
       ELSE Influence(-PowerConsumption[n.type], CompetitionRange, d)

(* What a new building of type t gives its neighbour n. *)
OutgoingInterference(t, n, d) ==
  CASE n.type \in Sources -> 0
    [] OTHER -> IF t \in Sources THEN Influence(Supply["reactor"], SupplyRange["reactor"], d)
                ELSE Influence(-PowerConsumption[t], CompetitionRange, d)

OwnSupply(t) == (BaseSupply - PowerConsumption[t]) * UNIT

SparePower(e, s, prediction) ==
  IF e[s].type \in Sources \/ ~(prediction \/ e[s].spawned) THEN 0
  ELSE OwnSupply(e[s].type) +
       SumFunction([n \in Standing(e) \ {s} |->
         IncomingInterference(e[s].type, e[n], Distance(s, n), prediction)])

Expected(e, s) == SparePower(e, s, TRUE)
Current(e, s)  == SparePower(e, s, FALSE)

PowerSourceInRange(e, s) ==
  \E n \in Standing(e) : /\ e[n].type \in Sources
                         /\ Distance(s, n) < SupplyRange[e[n].type]

(* Mutant: powered up by the prediction. *)
PoweredUpEarly(e, s) ==
  IF ~Stands(e, s) THEN e
  ELSE [e EXCEPT ![s].expectedSparePower = Expected(e, s),
                 ![s].powered = (@ \/ Expected(e, s) >= 0)]

(* First pass, for one building: powered up when there is enough for it. *)
PoweredUp(e, s) ==
  IF ~Stands(e, s) THEN e
  ELSE [e EXCEPT ![s].expectedSparePower = Expected(e, s),
                 ![s].powered = /\ @ \/ Current(e, s) >= 0
                                /\ e[s].type = "drill" => PowerSourceInRange(e, s)]

(* Second pass: the highest deficit is powered down, the telenode never. *)
Deficient(e) ==
  {s \in Standing(e) : /\ e[s].spawned /\ e[s].powered /\ e[s].type # "spawn"
                       /\ Current(e, s) < 0}

PoweredDown(e) ==
  LET worst(S) == First({s \in S : \A t \in S : Current(e, s) <= Current(e, t)})
  IN  IF Deficient(e) = {} THEN e
      ELSE [e EXCEPT ![worst(Deficient(e))].powered = FALSE]

WithoutReactor(e) ==
  [s \in Sites |-> IF e[s].type \in {"none", "spawn"} THEN e[s]
                   ELSE [e[s] EXCEPT !.powered = FALSE]]

InTurn == [s \in Sites |-> s]

(* A pass takes every state it may find to the state it leaves. *)
Pass(P(_, _), E) == FoldLeft(LAMBDA F, s : {P(e, s) : e \in F}, E, InTurn)

PowerState ==
  IF G_Reactor = None THEN {WithoutReactor(ent)}
  ELSE Pass(LAMBDA e, s : PoweredDown(e), Pass(PoweredUp, {ent}))

-----------------------------------------------------------------------------
(* Building. *)

(* Mutant: nothing is protected. *)
AnyReplacement(old, new) == TRUE

(* "don't replace the main buildable with any other buildable", "don't     *)
(* replace last spawn with a non-spawn".                                   *)
BuildableReplacementChecks(old, new) ==
  /\ old = "reactor" => new = "reactor"
  /\ old = "spawn" /\ new # "spawn" => numSpawns # 1

(* A marked reactor makes way for a new one. *)
MainRemoval(t) == IF t = "reactor" /\ G_Reactor # None THEN {G_Reactor} ELSE {}

Colliding(b) == {s \in Standing(ent) : BuildablesIntersect(b, s)}

CollisionRemoval(b, t) ==
  {s \in Colliding(b) : ~(t = "reactor" /\ ent[s].type = "reactor")}

(* Every building in the way is marked and may go. *)
HasRoom(b, t) ==
  /\ \A s \in MainRemoval(t) \cup Colliding(b) : ent[s].deconstruct
  /\ \A s \in CollisionRemoval(b, t) : BuildableReplacementChecks(ent[s].type, t)

(* Mutant: only the new building's own power counts. *)
PredictOwnPower(b, t, R) ==
  t \notin Sources =>
    OwnSupply(t) + SumFunction([n \in Standing(ent) \ R |->
      IncomingInterference(t, ent[n], Distance(b, n), TRUE)]) >= 0

(* Without the buildings in R there is power for a t at b, and none near   *)
(* it is left without; expectedSparePower is that of the last power state. *)
PredictBuildablePower(b, t, R) ==
  LET neighbors == Standing(ent) \ R
      own == OwnSupply(t) + SumFunction([n \in neighbors |->
               IncomingInterference(t, ent[n], Distance(b, n), TRUE)])
      neighbor(n) == ent[n].expectedSparePower + OutgoingInterference(t, ent[n], Distance(b, n))
      freed(n) == SumFunction([r \in R |->
                    IncomingInterference(ent[n].type, ent[r], Distance(n, r), TRUE)])
  IN  t \notin Sources =>
        /\ own >= 0
        /\ \A n \in neighbors : Distance(b, n) < CompetitionRange /\ neighbor(n) < 0
                                  => neighbor(n) - freed(n) >= 0

PowerRelevantRange == Max({CompetitionRange} \cup {SupplyRange[t] : t \in Sources})

(* The marked buildings that may go for their power, the nearest first.    *)
(* BuildableReplacementChecks is asked about whatever entity the loop      *)
(* before ended at, not about these: allowed is its answer.                *)
Interfering(b, R, allowed) ==
  {s \in Standing(ent) \ R : /\ allowed /\ ent[s].deconstruct /\ ent[s].type \notin Sources
                             /\ Distance(b, s) <= PowerRelevantRange}

Nearer(b, s, n) ==
  \/ Distance(b, s) < Distance(b, n)
  \/ Distance(b, s) = Distance(b, n) /\ s < n

Nearest(b, S) == {P \in SUBSET S : \A s \in P, n \in S \ P : Nearer(b, s, n)}

(* What stands at the front of a sequence, and the fewest that will do. *)
Fronts(q) == {{q[i] : i \in 1 .. n} : n \in 0 .. Len(q)}
Fewest(S) == CHOOSE R \in S : \A Q \in S : R \subseteq Q

PowerRemovals(b, t, R, allowed) ==
  {R \cup P : P \in {P \in Nearest(b, Interfering(b, R, allowed)) :
                       PredictBuildablePower(b, t, R \cup P)}}

(* Mutant: what is replaced is taken for whole. *)
CostOfWhole(t, R) ==
  LET cost == MaxHealth * (BuildPoints[t] - SumFunction([r \in R |-> BuildPoints[ent[r].type]]))
  IN  IF cost < 0 THEN 0 ELSE cost

(* What is left to pay. *)
Cost(t, R) ==
  LET cost == MaxHealth * BuildPoints[t]
                - SumFunction([r \in R |-> BuildPoints[ent[r].type] * ent[r].health])
  IN  IF cost < 0 THEN 0 ELSE cost

CanAfford(t, R) == Cost(t, R) <= buildPoints

(* CompareBuildablesForRemoval: which goes first.  Of two of a type it is  *)
(* the one marked earlier, which is left open.                             *)
Precedence == <<"drill", "turret", "spawn", "repeater", "reactor">>

Before(b, t, x, y) ==
  LET last(s) == t = "spawn" /\ ent[s].type = "spawn" /\ numSpawns = 1
      rank(s) == CHOOSE i \in DOMAIN Precedence : Precedence[i] = ent[s].type
      tests == << BuildablesIntersect(b, x), BuildablesIntersect(b, y),
                  last(y), last(x), ~ent[x].powered, ~ent[y].powered >>
  IN  CASE tests[1] # tests[2] -> tests[1]
        [] tests[1] = tests[2] /\ (tests[3] \/ tests[4]) -> tests[3]
        [] OTHER ->
           IF tests[5] # tests[6] THEN tests[5]
           ELSE IF tests[5] THEN Distance(b, x) <= Distance(b, y)
           ELSE IF (ent[x].type = t) # (ent[y].type = t) THEN ent[x].type = t
           ELSE rank(x) <= rank(y)

(* The other marked buildings, in an order they may be removed in. *)
Payments(b, t, R) ==
  LET S == {s \in Standing(ent) \ R : ent[s].deconstruct /\ BuildableReplacementChecks(ent[s].type, t)}
  IN  {q \in SetToSeqs(S) : \A i, j \in DOMAIN q : i < j => Before(b, t, q[i], q[j])}

(* PrepareBuildableReplacement: level.markedBuildables[], when a t can be  *)
(* built at b at all.                                                      *)
Removals(b, t, allowed) ==
  LET R1 == MainRemoval(t) \cup CollisionRemoval(b, t)
      powered == PowerRemovals(b, t, R1, allowed)
      R2 == Fewest(powered)
      paid(q) == {R2 \cup P : P \in {P \in Fronts(q) : CanAfford(t, R2 \cup P)}}
  IN  IF ~HasRoom(b, t) \/ powered = {} THEN {}
      ELSE {Fewest(paid(q)) : q \in {q \in Payments(b, t, R2) : paid(q) # {}}}

(* A refund is cut to a whole number, a negative one towards zero. *)
Refund(s) ==
  LET r == BuildPoints[ent[s].type] * ent[s].health
  IN  IF r < 0 THEN r + ((-r) % MaxHealth) ELSE r - (r % MaxHealth)

(* Mutant: the balance may be negative. *)
Overdrawn(bp, amount) == bp + amount

G_ModifyBuildPoints(bp, amount) == IF bp + amount < 0 THEN 0 ELSE bp + amount

Without(e, R) == [s \in Sites |-> IF s \in R THEN Nothing ELSE e[s]]

Built(t) == [Nothing EXCEPT !.type = t, !.health = 1, !.powered = TRUE]

(* The rest of G_CanBuild: there is a reactor, or this is the one. *)
Allowed(b, t) ==
  /\ IF t = "reactor"
     THEN OfType("reactor") # {} => ent[First(OfType("reactor"))].deconstruct
     ELSE G_Reactor # None
  /\ t = "drill" => PowerSourceInRange(ent, b)

Act == acts < MaxActs /\ acts' = acts + 1

(* G_BuildIfValid.  A building over one that stays in g_entities[] is at   *)
(* another site near it.  A site stands for a place and for the slot of    *)
(* what stands there: G_NewEntity's choice of a free slot is left out.     *)
Build(b, t) ==
  /\ Allowed(b, t)
  /\ \E allowed \in BOOLEAN : \E R \in Removals(b, t, allowed) :
       /\ Stands(ent, b) => b \in R
       /\ ent' = [Without(ent, R) EXCEPT ![b] = Built(t)]
       /\ \E q \in SetToSeqs(R) :
            LET refunded == FoldLeft(LAMBDA bp, s : G_ModifyBuildPoints(bp, Refund(s)), buildPoints, q)
            IN  buildPoints' = G_ModifyBuildPoints(refunded, -MaxHealth * BuildPoints[t])
  /\ rc' = CachedReactor
  /\ Act /\ UNCHANGED numSpawns

-----------------------------------------------------------------------------
(* Cmd_Destroy_f. *)

Alive(s) == Stands(ent, s) /\ ent[s].health > 0

(* "deconstruct" marks and unmarks. *)
ToggleMark(s) ==
  /\ Alive(s)
  /\ ent' = [ent EXCEPT ![s].deconstruct = ~@]
  /\ Act /\ UNCHANGED <<rc, buildPoints, numSpawns>>

(* "deconstruct marked"; the last spawn is unmarked instead. *)
Deconstruct(s) ==
  /\ OptionInstant /\ Alive(s) /\ ent[s].deconstruct
  /\ IF ent[s].type = "spawn" /\ numSpawns <= 1
     THEN /\ ent' = [ent EXCEPT ![s].deconstruct = FALSE]
          /\ UNCHANGED buildPoints
     ELSE /\ ent' = Without(ent, {s})
          /\ buildPoints' = G_ModifyBuildPoints(buildPoints, Refund(s))
  /\ Act /\ UNCHANGED <<rc, numSpawns>>

(* Damage, from the enemy, an explosion or "destroy"; a building that dies *)
(* stands until it explodes, with what health is left of it.               *)
Damage(s, health) ==
  /\ Alive(s) /\ health < ent[s].health
  /\ ent' = [ent EXCEPT ![s].health = health]
  /\ Act /\ UNCHANGED <<rc, buildPoints, numSpawns>>

(* HGeneric_Blast, HGeneric_Disappear, or a builder who prevents it. *)
Gone(s) ==
  /\ Stands(ent, s) /\ ent[s].health <= 0
  /\ ent' = Without(ent, {s})
  /\ UNCHANGED <<rc, buildPoints, numSpawns, acts>>

(* G_BuildableThink: a building grows until its time has come. *)
Grow(s) ==
  /\ Alive(s) /\ ~ent[s].spawned
  /\ \/ ent[s].health < MaxHealth /\ ent' = [ent EXCEPT ![s].health = @ + 1]
     \/ ent' = [ent EXCEPT ![s].spawned = TRUE]
  /\ UNCHANGED <<rc, buildPoints, numSpawns, acts>>

-----------------------------------------------------------------------------
(* A player's think, like much else, asks for the reactor. *)
LookForReactor == rc' = CachedReactor /\ UNCHANGED <<ent, buildPoints, numSpawns, acts>>

(* The end of a frame: G_CountSpawns, G_SetHumanBuildablePowerState when   *)
(* half a second has passed, G_CalculateMineRate when its time has come.   *)
EndFrame(power, mines) ==
  /\ numSpawns' = Cardinality({s \in OfType("spawn") : ent[s].health > 0})
  /\ rc' = IF power \/ mines THEN CachedReactor ELSE rc
  /\ ent' \in IF power THEN PowerState ELSE {ent}
  /\ mines => G_Reactor # None \/ OfType("drill") # {}
  /\ IF mines THEN Act /\ buildPoints' = G_ModifyBuildPoints(buildPoints, 1)
     ELSE UNCHANGED <<acts, buildPoints>>

(* The buildings of the map stand, whole, when the first frame ends. *)
Init ==
  /\ \E layout \in Layouts :
       /\ ent = [s \in Sites |->
                   IF layout[s] = "none" THEN Nothing
                   ELSE [Built(layout[s]) EXCEPT !.health = MaxHealth, !.spawned = TRUE]]
       /\ numSpawns = Cardinality({s \in Sites : layout[s] = "spawn"})
  /\ rc = None /\ buildPoints = MaxHealth * InitialBuildPoints /\ acts = 0

Frame == \E power, mines \in BOOLEAN : EndFrame(power, mines)

Next ==
  \/ Frame
  \/ LookForReactor
  \/ \E s \in Sites :
       \/ \E t \in Types : Build(s, t)
       \/ \E health \in {-1} \cup 1 .. (MaxHealth - 1) : Damage(s, health)
       \/ ToggleMark(s) \/ Deconstruct(s) \/ Gone(s) \/ Grow(s)

Spec == Init /\ [][Next]_vars

(* Frames go on, and twice a second one computes the power state. *)
FairSpec == Spec /\ WF_vars(EndFrame(TRUE, FALSE))

-----------------------------------------------------------------------------
(* P of the site, the type and what is removed, in every step that puts a  *)
(* building where there was none or a marked one, and does not unmark it.  *)
WheneverBuilt(P(_, _, _)) ==
  \A b \in Sites :
    LET t == ent'[b].type
        R == {s \in Standing(ent) : s = b \/ ent'[s].type = "none"}
    IN  /\ t # "none" /\ ent'[b] = Built(t) /\ (Stands(ent, b) => ent[b].deconstruct)
        /\ ~ToggleMark(b)
        => P(b, t, R)

(* Action property.  Nothing but a new reactor ever takes the place of a   *)
(* reactor, whichever way the replaced building was chosen: because it is  *)
(* in the way, for its power or for its price.                             *)
ReactorOnlyForReactor ==
  [][WheneverBuilt(LAMBDA b, t, R : t # "reactor" => \A s \in R : ent[s].type # "reactor")]_vars

(* What the team owns: its points and the full price of all that stands. *)
Worth ==
  buildPoints + SumFunction([s \in Standing(ent) |-> MaxHealth * BuildPoints[ent[s].type]])

(* What a team that replaces R by a t has left, to the fraction. *)
Left(t, R) ==
  buildPoints - MaxHealth * BuildPoints[t]
    + SumFunction([s \in R |-> BuildPoints[ent[s].type] * ent[s].health])

(* Action property.  Build points are neither made nor lost.  Only mining  *)
(* makes a team richer: no order of damage, marking, replacing and         *)
(* deconstructing does, although the balance is set to zero when it would  *)
(* be negative, and dying buildings have a negative refund.  And what is   *)
(* affordable by the exact cost is paid with refunds cut to whole points:  *)
(* the team could pay, and loses less than a point for every building      *)
(* replaced.  (Nothing is said of the loss when one of them was dying.)    *)
PointsAreKept ==
  [][/\ Worth' > Worth => \E power \in BOOLEAN : EndFrame(power, TRUE)
     /\ WheneverBuilt(LAMBDA b, t, R :
          (\A s \in R : ent[s].health > 0) =>
            /\ Left(t, R) >= 0
            /\ Left(t, R) - buildPoints' \in 0 .. Cardinality(R) * (MaxHealth - 1))]_vars

Fresh(e) == \A s \in Standing(e) : e[s].expectedSparePower = Expected(e, s)

(* Action property.  With expectedSparePower up to date, a new building    *)
(* that leaves the power sources alone has power, and so has every         *)
(* building it competes with, once all of them are spawned and powered,    *)
(* the replaced ones being gone.                                           *)
PlacementKeepsPower ==
  [][WheneverBuilt(LAMBDA b, t, R :
       Fresh(ent) /\ ({t} \cup {ent[s].type : s \in R}) \cap Sources = {} =>
         \A n \in Standing(ent') :
           ent'[n].type \notin Sources /\ Distance(b, n) < CompetitionRange => Expected(ent', n) >= 0)]_vars

(* The same of every placement.  The code does not keep it: a prediction   *)
(* may be half a second old, and is 0 for what was placed since then.      *)
PlacementAlwaysKeepsPower ==
  [][WheneverBuilt(LAMBDA b, t, R :
       ({t} \cup {ent[s].type : s \in R}) \cap Sources = {} =>
         \A n \in Standing(ent') :
           ent'[n].type \notin Sources /\ Distance(b, n) < CompetitionRange => Expected(ent', n) >= 0)]_vars

(* Powered is what has power, and the prediction is right. *)
Settled ==
  IF G_Reactor = None
  THEN \A s \in Standing(ent) : ent[s].powered => ent[s].type = "spawn"
  ELSE /\ Fresh(ent)
       /\ \A s \in Standing(ent) :
            ent[s].spawned /\ ent[s].type \notin Sources \cup {"spawn"} =>
              (ent[s].powered <=> /\ Current(ent, s) >= 0
                                  /\ ent[s].type = "drill" => PowerSourceInRange(ent, s))

(* Liveness, under FairSpec.  The power state, in which what one building  *)
(* takes depends on which others are powered, does not swing for ever:     *)
(* when nothing is built, damaged or removed any more, exactly those with  *)
(* enough power are powered from some time on.                             *)
PowerSettles ==
  LET building(e, s) == <<e[s].type, e[s].health, e[s].spawned>>
  IN  <>[][\A s \in Sites : building(ent, s) = building(ent', s)]_ent => <>[]Settled

(* What the comment of G_Reactor relies on: there is one at most, dead or  *)
(* under construction ones included.                                       *)
OneReactor == Cardinality(OfType("reactor")) <= 1

(* "don't replace last spawn with a non-spawn" (g_buildable.c:4021). *)
LastSpawnStays ==
  [][WheneverBuilt(LAMBDA b, t, R :
       t # "spawn" /\ OfType("spawn") # {} => ~(OfType("spawn") \subseteq R))]_vars
=============================================================================

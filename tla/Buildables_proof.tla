--------------------------- MODULE Buildables_proof ---------------------------
(***************************************************************************)
(* Proofs about Buildables, for any number of sites and types, every       *)
(* table of costs and ranges and any sequence of acts.                     *)
(*                                                                         *)
(* The invariant is that of the types.  What is hard is what a step        *)
(* computes: the passes of the power state and the refunds are folds over  *)
(* sequences, prices and powers are sums over sets, and the list of what   *)
(* is removed is the fewest of a chain of sets.  Each has its lemmas:      *)
(* a fold leaves what every step of it leaves (FirstPassIsAlike,           *)
(* RefundedInTurn), a sum is split at what goes and what comes (PaidIsLeft,*)
(* PlacedHasPower), and of a chain there is a fewest (RemovalsAre).        *)
(***************************************************************************)
EXTENDS Buildables, Lemmas_proof

USE DEF Sources, None

(* The sites are finitely many places of a line. *)
LEMMA SitesAreFinite ==
  /\ Len(Position) \in Nat /\ Sites = 1 .. Len(Position) /\ Sites \subseteq Nat \ {0}
  /\ IsFiniteSet(Sites) /\ Cardinality(Sites) = Len(Position)
  /\ \A s \in Sites : Position[s] \in Nat
<1> DEFINE n == Len(Position)
<1>1. n \in Nat /\ Sites = 1 .. n /\ \A s \in Sites : Position[s] \in Nat
  BY BuildablesAssumption DEF Sites
<1> HIDE DEF n
<1>2. IsFiniteSet(1 .. n) /\ Cardinality(1 .. n) = n
  BY <1>1, FS_Interval
<1>3. 1 .. n \subseteq Nat \ {0}
  BY <1>1
<1> QED
  BY <1>1, <1>2, <1>3 DEF n

(* What the types of buildings take and give. *)
LEMMA Amounts ==
  /\ \A t \in Types : BuildPoints[t] \in Nat /\ PowerConsumption[t] \in Nat
  /\ \A t \in Sources : Supply[t] \in Nat /\ SupplyRange[t] \in Nat \ {0}
  /\ CompetitionRange \in Nat \ {0} /\ BaseSupply \in Nat /\ UNIT \in Nat \ {0}
  /\ MaxHealth \in Nat \ {0} /\ InitialBuildPoints \in Nat /\ MaxActs \in Nat
  /\ "reactor" \in Types /\ "spawn" \in Types /\ "none" \notin Types
BY BuildablesAssumption

(* How far apart two sites are. *)
LEMMA DistanceIsNat ==
  \A s, t \in Sites : Distance(s, t) \in Nat
BY SitesAreFinite DEF Distance

(* Of a set of sites there is a first one. *)
LEMMA FirstIsOne ==
  ASSUME NEW S, S \subseteq Sites, S # {}
  PROVE  First(S) \in S
<1>1. S \subseteq Nat
  BY SitesAreFinite
<1>2. \E s \in S : \A t \in S : s <= t
  BY <1>1, Least
<1> QED
  BY <1>2 DEF First

(* Of a set of sites there is a last one. *)
LEMMA MaxIsOne ==
  ASSUME NEW n \in Nat, NEW S, S \subseteq 1 .. n, S # {}
  PROVE  Max(S) \in S
<1> DEFINE F == [s \in S |-> -s]
<1>1. \A s \in S : s \in Nat /\ F[s] \in Int /\ F[s] = -s
  OBVIOUS
<1>4. IsFiniteSet(S)
  <2>1. IsFiniteSet(1 .. n)
    BY FS_Interval
  <2> QED
    BY <2>1, FS_Subset
<1>2. PICK x \in S : \A y \in S : F[x] <= F[y]
  <2> HIDE DEF F
  <2> QED
    BY <1>1, <1>4, LeastOf
<1>3. \A y \in S : x >= y
  BY <1>1, <1>2
<1> QED
  BY <1>3 DEF Max

-----------------------------------------------------------------------------
(* What the powers of the buildings add up to. *)

(* What is left of a power at a distance is a number. *)
LEMMA InfluenceIsInt ==
  ASSUME NEW power \in Int, NEW range \in Nat \ {0}, NEW d \in Int
  PROVE  Influence(power, range, d) \in Int
<1>1. UNIT \div range \in Int
  <2>1. UNIT \in Int
    BY Amounts
  <2> QED
    BY <2>1, Rounds
<1> DEFINE u == UNIT \div range
<1>2. u \in Int
  BY <1>1
<1> HIDE DEF u
<1>3. power * (range - d) \in Int
  OBVIOUS
<1>4. power * (range - d) * u \in Int
  BY <1>2, <1>3
<1> QED
  BY <1>4 DEF Influence, u

(* So is what a building gets from another one. *)
LEMMA IncomingIsInt ==
  ASSUME NEW t \in Types, NEW n \in Entity, n.type \in Types, NEW d \in Int, NEW prediction
  PROVE  IncomingInterference(t, n, d, prediction) \in Int
<1>1. CASE t \in Sources \/ (~prediction /\ ~(n.spawned /\ n.powered))
  BY <1>1 DEF IncomingInterference
<1>2. CASE ~(t \in Sources \/ (~prediction /\ ~(n.spawned /\ n.powered)))
  <2>1. CASE n.type \in Sources
    <3>1. Influence(Supply[n.type], SupplyRange[n.type], d) \in Int
      <4>1. Supply[n.type] \in Int /\ SupplyRange[n.type] \in Nat \ {0}
        BY <2>1, Amounts
      <4> QED
        BY <4>1, InfluenceIsInt
    <3> QED
      BY <1>2, <2>1, <3>1 DEF IncomingInterference
  <2>2. CASE n.type \notin Sources
    <3>1. Influence(-PowerConsumption[n.type], CompetitionRange, d) \in Int
      <4>1. -PowerConsumption[n.type] \in Int /\ CompetitionRange \in Nat \ {0}
        BY Amounts
      <4> QED
        BY <4>1, InfluenceIsInt
    <3> QED
      BY <1>2, <2>2, <3>1 DEF IncomingInterference
  <2> QED
    BY <2>1, <2>2
<1> QED
  BY <1>1, <1>2

(* So are the sum of what some of the others give it ... *)
LEMMA SupplyIsInt ==
  ASSUME NEW e \in [Sites -> Entity], NEW N, N \subseteq Standing(e),
         NEW t \in Types, NEW s \in Sites, NEW p
  PROVE  SumFunction([n \in N |-> IncomingInterference(t, e[n], Distance(s, n), p)]) \in Int
<1> DEFINE F == [n \in N |-> IncomingInterference(t, e[n], Distance(s, n), p)]
<1>1. IsFiniteSet(N) /\ N \in SUBSET N
  <2>1. N \subseteq Sites
    BY DEF Standing
  <2> QED
    BY <2>1, SitesAreFinite, FS_Subset
<1>2. \A n \in N : F[n] \in Int
  <2> TAKE n \in N
  <2>1. n \in Sites /\ e[n] \in Entity /\ e[n].type \in Types
    BY DEF Standing, Stands, Entity
  <2>2. Distance(s, n) \in Int
    BY <2>1, DistanceIsNat
  <2>3. IncomingInterference(t, e[n], Distance(s, n), p) \in Int
    BY <2>1, <2>2, IncomingIsInt
  <2> QED
    BY <2>3
<1>3. DOMAIN F = N
  OBVIOUS
<1> HIDE DEF F
<1>4. SumFunctionOnSet(F, N) \in Int
  BY <1>1, <1>2, SumStep
<1>5. SumFunction(F) \in Int
  BY <1>3, <1>4 DEF SumFunction
<1> QED
  BY <1>5 DEF F

(* ... and what it has to spare. *)
LEMMA SpareIsInt ==
  ASSUME NEW e \in [Sites -> Entity], NEW s \in Sites, Stands(e, s), NEW p \in BOOLEAN
  PROVE  SparePower(e, s, p) \in Int
<1>1. e[s].type \in Types
  BY DEF Stands, Entity
<1> DEFINE total == SumFunction([n \in Standing(e) \ {s} |->
                      IncomingInterference(e[s].type, e[n], Distance(s, n), p)])
<1>2. total \in Int
  <2>1. Standing(e) \ {s} \subseteq Standing(e)
    OBVIOUS
  <2> QED
    BY <1>1, <2>1, SupplyIsInt
<1>3. OwnSupply(e[s].type) \in Int
  BY <1>1, Amounts DEF OwnSupply
<1>4. SparePower(e, s, p) = IF e[s].type \in Sources \/ ~(p \/ e[s].spawned) THEN 0
                            ELSE OwnSupply(e[s].type) + total
  BY DEF SparePower
<1> HIDE DEF total
<1> QED
  BY <1>2, <1>3, <1>4

-----------------------------------------------------------------------------
(* The power state.                                                        *)

(* What the entities of e can become when only their power changes. *)
Alike(e) ==
  {d \in [Sites -> Entity] : \A s \in Sites :
     /\ d[s].type = e[s].type /\ d[s].health = e[s].health
     /\ d[s].spawned = e[s].spawned /\ d[s].deconstruct = e[s].deconstruct}

(* A building is powered up, or not, ... *)
LEMMA UpIsAlike ==
  ASSUME NEW e \in [Sites -> Entity], NEW d \in Alike(e), NEW s \in Sites
  PROVE  PoweredUp(d, s) \in Alike(e)
<1>1. d \in [Sites -> Entity]
  BY DEF Alike
<1>2. CASE ~Stands(d, s)
  BY <1>2 DEF PoweredUp
<1>3. CASE Stands(d, s)
  <2>1. Expected(d, s) \in Int
    BY <1>1, <1>3, SpareIsInt DEF Expected
  <2> DEFINE x == Expected(d, s)
             p == /\ d[s].powered \/ Current(d, s) >= 0
                  /\ d[s].type = "drill" => PowerSourceInRange(d, s)
             r == [d[s] EXCEPT !.expectedSparePower = x, !.powered = p]
  <2>2. PoweredUp(d, s) = [d EXCEPT ![s] = r]
    BY <1>3, Zenon DEF PoweredUp
  <2>3. d[s] \in Entity
    BY <1>1
  <2>4. p \in BOOLEAN
    OBVIOUS
  <2> HIDE DEF x, p
  <2>5. /\ r \in Entity /\ r.type = d[s].type /\ r.health = d[s].health
        /\ r.spawned = d[s].spawned /\ r.deconstruct = d[s].deconstruct
    BY <2>1, <2>3, <2>4 DEF Entity, x
  <2> HIDE DEF r
  <2> QED
    BY <1>1, <2>2, <2>5 DEF Alike
<1> QED
  BY <1>2, <1>3

(* ... or the one with the highest deficit down. *)
LEMMA DownIsAlike ==
  ASSUME NEW e \in [Sites -> Entity], NEW d \in Alike(e)
  PROVE  PoweredDown(d) \in Alike(e)
<1>1. d \in [Sites -> Entity]
  BY DEF Alike
<1>2. CASE Deficient(d) = {}
  BY <1>2 DEF PoweredDown
<1>3. CASE Deficient(d) # {}
  <2> DEFINE S == Deficient(d)
             W == {s \in S : \A t \in S : Current(d, s) <= Current(d, t)}
             F == [s \in S |-> Current(d, s)]
             w == First(W)
  <2>1. S \subseteq Sites /\ IsFiniteSet(S)
    <3>1. S \subseteq Sites
      BY DEF Deficient, Standing
    <3> QED
      BY <3>1, SitesAreFinite, FS_Subset
  <2>2. \A s \in S : F[s] \in Int /\ F[s] = Current(d, s)
    BY <1>1, SpareIsInt DEF Deficient, Standing, Current
  <2>3. \E s \in S : \A t \in S : F[s] <= F[t]
    <3> HIDE DEF F, S
    <3> QED
      BY <1>3, <2>1, <2>2, LeastOf DEF S
  <2>4. W # {} /\ W \subseteq Sites
    BY <2>1, <2>2, <2>3
  <2>5. w \in Sites
    <3>1. w \in W
      <4> HIDE DEF W
      <4> QED
        BY <2>4, FirstIsOne
    <3> QED
      BY <2>4, <3>1
  <2>6. PoweredDown(d) = [d EXCEPT ![w].powered = FALSE]
    BY <1>3 DEF PoweredDown
  <2> HIDE DEF w
  <2> DEFINE r == [d[w] EXCEPT !.powered = FALSE]
  <2>7. /\ r \in Entity /\ r.type = d[w].type /\ r.health = d[w].health
        /\ r.spawned = d[w].spawned /\ r.deconstruct = d[w].deconstruct
    BY <1>1, <2>5 DEF Entity
  <2>8. PoweredDown(d) = [d EXCEPT ![w] = r]
    BY <2>6
  <2> HIDE DEF r
  <2> QED
    BY <1>1, <2>5, <2>7, <2>8 DEF Alike
<1> QED
  BY <1>2, <1>3

(* The fold over 1 .. n that takes the numbers in turn. *)
LastOf(n) == [s \in SUBSET (1 .. n) |-> Max(s)]

TakesTurns(g, n, V, base, G) ==
  /\ g \in [SUBSET (1 .. n) -> V] /\ g[{}] = base
  /\ \A s \in SUBSET (1 .. n) : s # {} => g[s] = G[<<Max(s), g[s \ {Max(s)}]>>]

GoesInTurn(h, n, V, base, G) ==
  /\ h[{}] = base
  /\ \A s \in SUBSET (1 .. n) : s # {} /\ h[s \ {Max(s)}] \in V
                                 => h[s] = G[<<Max(s), h[s \ {Max(s)}]>>]

(* There is one ... *)
LEMMA TurnsExist ==
  ASSUME NEW n \in Nat, NEW V, NEW base \in V, NEW G \in [(1 .. n) \X V -> V]
  PROVE  \E g : FoldsOver(g, 1 .. n, V, base, G, LastOf(n)) /\ TakesTurns(g, n, V, base, G)
<1>1. \A s \in SUBSET (1 .. n) : s # {} => LastOf(n)[s] \in s /\ LastOf(n)[s] = Max(s)
  BY MaxIsOne DEF LastOf
<1>2. IsFiniteSet(1 .. n)
  BY FS_Interval
<1>3. PICK g : FoldsOver(g, 1 .. n, V, base, G, LastOf(n))
  BY <1>1, <1>2, FoldExists
<1>4. g \in [SUBSET (1 .. n) -> V]
  BY <1>3 DEF FoldsOver
<1>5. g[{}] = base
  <2>1. {} \in SUBSET (1 .. n)
    OBVIOUS
  <2> QED
    BY <1>3, <2>1 DEF FoldsOver
<1>6. ASSUME NEW s \in SUBSET (1 .. n), s # {} PROVE g[s] = G[<<Max(s), g[s \ {Max(s)}]>>]
  BY <1>1, <1>3, <1>6 DEF FoldsOver
<1> QED
  BY <1>3, <1>4, <1>5, <1>6 DEF TakesTurns

(* ... and what goes on like it has its values. *)
LEMMA TurnsAgree ==
  ASSUME NEW n \in Nat, NEW V, NEW base, NEW G,
         NEW g, FoldsOver(g, 1 .. n, V, base, G, LastOf(n)),
         NEW h, GoesInTurn(h, n, V, base, G)
  PROVE  h[1 .. n] = g[1 .. n] /\ h[1 .. n] \in V
<1>1. \A s \in SUBSET (1 .. n) : LastOf(n)[s] = Max(s)
  BY DEF LastOf
<1>2. ASSUME NEW s \in SUBSET (1 .. n), s # {}, h[s \ {LastOf(n)[s]}] \in V
      PROVE  h[s] = G[<<LastOf(n)[s], h[s \ {LastOf(n)[s]}]>>]
  BY <1>1, <1>2 DEF GoesInTurn
<1>3. GoesOn(h, 1 .. n, V, base, G, LastOf(n))
  BY <1>2 DEF GoesOn, GoesInTurn
<1>4. IsFiniteSet(1 .. n) /\ 1 .. n \in SUBSET (1 .. n)
  BY FS_Interval
<1>5. h[1 .. n] = g[1 .. n]
  BY <1>3, <1>4, FoldsAgree
<1>6. g[1 .. n] \in V
  BY <1>4 DEF FoldsOver
<1> QED
  BY <1>5, <1>6

(* Neither pass changes more than the power of the buildings. *)
LEMMA FirstPassIsAlike ==
  ASSUME NEW e \in [Sites -> Entity]
  PROVE  Pass(PoweredUp, {e}) \subseteq Alike(e)
<1> DEFINE n == Len(Position)
           V == SUBSET Alike(e)
           Up(s, E) == {PoweredUp(d, s) : d \in E}
           G == [p \in (1 .. n) \X V |-> Up(p[1], p[2])]
           Step(f) == [s \in SUBSET DOMAIN InTurn |->
              IF s = {} THEN {e} ELSE Up(InTurn[Max(s)], f[s \ {Max(s)}])]
           h == CHOOSE f : f = Step(f)
<1>1. n \in Nat /\ Sites = 1 .. n
  BY SitesAreFinite
<1>2. {e} \in V
  BY DEF Alike
<1>3. \A s \in 1 .. n, E \in V : Up(s, E) \in V
  BY <1>1, UpIsAlike
<1>4. Pass(PoweredUp, {e}) = h[DOMAIN InTurn]
  BY DEF Pass, FoldLeft, MapThenFoldSet
<1>5. DOMAIN InTurn = 1 .. n /\ \A s \in 1 .. n : InTurn[s] = s
  BY <1>1 DEF InTurn
<1>6. \A s \in SUBSET (1 .. n) : s # {} => Max(s) \in 1 .. n
  BY <1>1, MaxIsOne
<1> HIDE DEF n, V, Up
<1>7. \A s \in 1 .. n, E \in V : G[<<s, E>>] = Up(s, E)
  OBVIOUS
<1>8. G \in [(1 .. n) \X V -> V]
  BY <1>3
<1> HIDE DEF G
<1>9. PICK g : FoldsOver(g, 1 .. n, V, {e}, G, LastOf(n)) /\ TakesTurns(g, n, V, {e}, G)
  BY <1>1, <1>2, <1>8, TurnsExist
<1>10. g = Step(g)
  <2>1. g \in [SUBSET (1 .. n) -> V] /\ g[{}] = {e}
    BY <1>9 DEF TakesTurns
  <2>2. ASSUME NEW s \in SUBSET (1 .. n), s # {}
        PROVE  g[s] = Up(InTurn[Max(s)], g[s \ {Max(s)}])
    <3>1. s \ {Max(s)} \in SUBSET (1 .. n) /\ Max(s) \in 1 .. n
      BY <1>6, <2>2
    <3>2. g[s] = G[<<Max(s), g[s \ {Max(s)}]>>] /\ g[s \ {Max(s)}] \in V
      BY <1>9, <2>1, <2>2, <3>1 DEF TakesTurns
    <3> QED
      BY <1>5, <1>7, <3>1, <3>2
  <2>3. ASSUME NEW s \in SUBSET (1 .. n)
        PROVE  g[s] = IF s = {} THEN {e} ELSE Up(InTurn[Max(s)], g[s \ {Max(s)}])
    BY <2>1, <2>2
  <2> QED
    BY <1>5, <2>1, <2>3
<1>11. h = Step(h)
  <2> HIDE DEF Step
  <2> QED
    BY <1>10
<1> HIDE DEF h
<1>12. ASSUME NEW s \in SUBSET (1 .. n)
       PROVE  h[s] = IF s = {} THEN {e} ELSE Up(InTurn[Max(s)], h[s \ {Max(s)}])
  BY <1>5, <1>11
<1>13. ASSUME NEW s \in SUBSET (1 .. n), s # {}, h[s \ {Max(s)}] \in V
       PROVE  h[s] = G[<<Max(s), h[s \ {Max(s)}]>>]
  <2>1. Max(s) \in 1 .. n /\ InTurn[Max(s)] = Max(s)
    BY <1>5, <1>6, <1>13
  <2>2. h[s] = Up(Max(s), h[s \ {Max(s)}])
    BY <1>12, <1>13, <2>1
  <2> QED
    BY <1>7, <1>13, <2>1, <2>2
<1>14. h[{}] = {e}
  <2>1. {} \in SUBSET (1 .. n)
    OBVIOUS
  <2> QED
    BY <1>12, <2>1
<1>15. h[1 .. n] \in V
  <2>1. GoesInTurn(h, n, V, {e}, G)
    BY <1>13, <1>14 DEF GoesInTurn
  <2> QED
    BY <1>1, <1>9, <2>1, TurnsAgree
<1> QED
  BY <1>4, <1>5, <1>15 DEF V

LEMMA SecondPassIsAlike ==
  ASSUME NEW e \in [Sites -> Entity], NEW E0 \in SUBSET Alike(e)
  PROVE  Pass(LAMBDA d, s : PoweredDown(d), E0) \subseteq Alike(e)
<1> DEFINE n == Len(Position)
           V == SUBSET Alike(e)
           Down(E) == {PoweredDown(d) : d \in E}
           G == [p \in (1 .. n) \X V |-> Down(p[2])]
           Step(f) == [s \in SUBSET DOMAIN InTurn |->
              IF s = {} THEN E0 ELSE Down(f[s \ {Max(s)}])]
           h == CHOOSE f : f = Step(f)
<1>1. n \in Nat /\ Sites = 1 .. n
  BY SitesAreFinite
<1>2. E0 \in V
  OBVIOUS
<1>3. \A s \in 1 .. n, E \in V : Down(E) \in V
  BY <1>1, DownIsAlike
<1>4. Pass(LAMBDA d, s : PoweredDown(d), E0) = h[DOMAIN InTurn]
  BY DEF Pass, FoldLeft, MapThenFoldSet
<1>5. DOMAIN InTurn = 1 .. n /\ \A s \in 1 .. n : InTurn[s] = s
  BY <1>1 DEF InTurn
<1>6. \A s \in SUBSET (1 .. n) : s # {} => Max(s) \in 1 .. n
  BY <1>1, MaxIsOne
<1> HIDE DEF n, V, Down
<1>7. \A s \in 1 .. n, E \in V : G[<<s, E>>] = Down(E)
  OBVIOUS
<1>8. G \in [(1 .. n) \X V -> V]
  BY <1>3
<1> HIDE DEF G
<1>9. PICK g : FoldsOver(g, 1 .. n, V, E0, G, LastOf(n)) /\ TakesTurns(g, n, V, E0, G)
  BY <1>1, <1>2, <1>8, TurnsExist
<1>10. g = Step(g)
  <2>1. g \in [SUBSET (1 .. n) -> V] /\ g[{}] = E0
    BY <1>9 DEF TakesTurns
  <2>2. ASSUME NEW s \in SUBSET (1 .. n), s # {}
        PROVE  g[s] = Down(g[s \ {Max(s)}])
    <3>1. s \ {Max(s)} \in SUBSET (1 .. n) /\ Max(s) \in 1 .. n
      BY <1>6, <2>2
    <3>2. g[s] = G[<<Max(s), g[s \ {Max(s)}]>>] /\ g[s \ {Max(s)}] \in V
      BY <1>9, <2>1, <2>2, <3>1 DEF TakesTurns
    <3> QED
      BY <1>5, <1>7, <3>1, <3>2
  <2>3. ASSUME NEW s \in SUBSET (1 .. n)
        PROVE  g[s] = IF s = {} THEN E0 ELSE Down(g[s \ {Max(s)}])
    BY <2>1, <2>2
  <2> QED
    BY <1>5, <2>1, <2>3
<1>11. h = Step(h)
  <2> HIDE DEF Step
  <2> QED
    BY <1>10
<1> HIDE DEF h
<1>12. ASSUME NEW s \in SUBSET (1 .. n)
       PROVE  h[s] = IF s = {} THEN E0 ELSE Down(h[s \ {Max(s)}])
  BY <1>5, <1>11
<1>13. ASSUME NEW s \in SUBSET (1 .. n), s # {}, h[s \ {Max(s)}] \in V
       PROVE  h[s] = G[<<Max(s), h[s \ {Max(s)}]>>]
  <2>1. Max(s) \in 1 .. n /\ InTurn[Max(s)] = Max(s)
    BY <1>5, <1>6, <1>13
  <2>2. h[s] = Down(h[s \ {Max(s)}])
    BY <1>12, <1>13, <2>1
  <2> QED
    BY <1>7, <1>13, <2>1, <2>2
<1>14. h[{}] = E0
  <2>1. {} \in SUBSET (1 .. n)
    OBVIOUS
  <2> QED
    BY <1>12, <2>1
<1>15. h[1 .. n] \in V
  <2>1. GoesInTurn(h, n, V, E0, G)
    BY <1>13, <1>14 DEF GoesInTurn
  <2> QED
    BY <1>1, <1>9, <2>1, TurnsAgree
<1> QED
  BY <1>4, <1>5, <1>15 DEF V

(* The power state is computed of what stands, and changes only its power. *)
LEMMA PowerStateIsAlike ==
  ASSUME ent \in [Sites -> Entity]
  PROVE  PowerState \subseteq Alike(ent)
<1>1. CASE G_Reactor = None
  <2>1. WithoutReactor(ent) \in Alike(ent)
    <3> DEFINE r(s) == IF ent[s].type \in {"none", "spawn"} THEN ent[s]
                       ELSE [ent[s] EXCEPT !.powered = FALSE]
    <3>1. ASSUME NEW s \in Sites
          PROVE  /\ r(s) \in Entity /\ r(s).type = ent[s].type /\ r(s).health = ent[s].health
                 /\ r(s).spawned = ent[s].spawned /\ r(s).deconstruct = ent[s].deconstruct
      <4>1. ent[s] \in Entity
        OBVIOUS
      <4> QED
        BY <4>1 DEF Entity
    <3>2. WithoutReactor(ent) = [s \in Sites |-> r(s)]
      BY DEF WithoutReactor
    <3> HIDE DEF r
    <3> QED
      BY <3>1, <3>2 DEF Alike
  <2> QED
    BY <1>1, <2>1 DEF PowerState
<1>2. CASE G_Reactor # None
  <2> DEFINE E == Pass(PoweredUp, {ent})
  <2>1. E \in SUBSET Alike(ent)
    BY FirstPassIsAlike
  <2>2. PowerState = Pass(LAMBDA d, s : PoweredDown(d), E)
    BY <1>2 DEF PowerState
  <2> HIDE DEF E
  <2> QED
    BY <2>1, <2>2, SecondPassIsAlike
<1> QED
  BY <1>1, <1>2

(* The reactor that G_Reactor remembers, and finds, is a reactor. *)
LEMMA ReactorIsReactor ==
  ASSUME rc \in {None} \cup Sites
  PROVE  /\ CachedReactor \in {None} \cup Sites
         /\ CachedReactor # None => ent[CachedReactor].type = "reactor"
         /\ G_Reactor # None => G_Reactor \in Sites /\ ent[G_Reactor].type = "reactor"
<1>1. None \notin Sites
  BY SitesAreFinite
<1>2. OfType("reactor") # {} =>
        First(OfType("reactor")) \in Sites /\ ent[First(OfType("reactor"))].type = "reactor"
  <2>1. OfType("reactor") # {} => First(OfType("reactor")) \in OfType("reactor")
    BY FirstIsOne DEF OfType
  <2> QED
    BY <2>1 DEF OfType
<1>3. /\ CachedReactor \in {None} \cup Sites
      /\ CachedReactor # None => ent[CachedReactor].type = "reactor"
  BY <1>1, <1>2 DEF CachedReactor
<1> QED
  BY <1>3 DEF G_Reactor

-----------------------------------------------------------------------------
(* What is refunded.                                                       *)

(* A number loses less than k by being cut to a multiple of k. *)
LEMMA CutLosesLittle ==
  ASSUME NEW k \in Nat \ {0}, NEW x \in Nat
  PROVE  x % k \in 0 .. (k - 1) /\ x - (x % k) \in Nat /\ x % k <= x
<1> DEFINE d == x \div k
           r == x % k
<1>1. r \in 0 .. (k - 1) /\ d \in Int /\ x = k * d + r
  BY Rounds
<1> HIDE DEF d, r
<1>2. CASE d >= 0
  <2>1. k * d \in Nat
    BY <1>1, <1>2, SMTT(20)
  <2> DEFINE m == k * d
  <2> HIDE DEF m
  <2> QED
    BY <1>1, <2>1 DEF r, m
<1>3. CASE d <= -1
  <2>1. k * d <= -k /\ k * d \in Int
    BY <1>1, <1>3, SMTT(20)
  <2> DEFINE m == k * d
  <2>2. FALSE
    <3>1. m <= -k /\ m \in Int /\ x = m + r /\ r \in 0 .. (k - 1)
      BY <1>1, <2>1
    <3> HIDE DEF m
    <3> QED
      BY <3>1
  <2> QED
    BY <2>2
<1> QED
  BY <1>1, <1>2, <1>3

(* What a building is worth, and what is given back for it. *)
Price(s) == MaxHealth * BuildPoints[ent[s].type]
Exact(s) == BuildPoints[ent[s].type] * ent[s].health

LEMMA RefundIsPart ==
  ASSUME ent \in [Sites -> Entity], NEW s \in Standing(ent)
  PROVE  /\ Price(s) \in Nat /\ Exact(s) \in Int /\ Exact(s) <= Price(s)
         /\ Refund(s) \in Int /\ Refund(s) <= Price(s)
         /\ ent[s].health > 0 => Exact(s) - Refund(s) \in 0 .. (MaxHealth - 1) /\ Refund(s) >= 0
<1> DEFINE b == BuildPoints[ent[s].type]
           h == ent[s].health
           r == b * h
<1>1. b \in Nat /\ h \in Int /\ h <= MaxHealth /\ MaxHealth \in Nat \ {0}
  BY Amounts DEF Standing, Stands, Entity
<1>2. Price(s) = MaxHealth * b /\ Exact(s) = r
  BY DEF Price, Exact
<1>3. Refund(s) = IF r < 0 THEN r + ((-r) % MaxHealth) ELSE r - (r % MaxHealth)
  BY DEF Refund
<1>7. ent[s].health > 0 <=> h > 0
  OBVIOUS
<1> HIDE DEF b, h
<1>4. MaxHealth * b \in Nat /\ r \in Int /\ r <= MaxHealth * b /\ (h > 0 => r >= 0)
  BY <1>1, SMTT(20)
<1> DEFINE p == MaxHealth * b
<1> HIDE DEF r, p
<1>5. CASE r < 0
  <2>1. (-r) % MaxHealth \in Int /\ (-r) % MaxHealth <= -r
    <3>1. -r \in Nat
      BY <1>4, <1>5
    <3> QED
      BY <1>1, <3>1, CutLosesLittle
  <2> QED
    BY <1>2, <1>3, <1>4, <1>5, <1>7, <2>1 DEF p
<1>6. CASE r >= 0
  <2>1. r % MaxHealth \in 0 .. (MaxHealth - 1) /\ r - (r % MaxHealth) \in Nat
    <3>1. r \in Nat
      BY <1>4, <1>6
    <3> QED
      BY <1>1, <3>1, CutLosesLittle
  <2> QED
    BY <1>1, <1>2, <1>3, <1>4, <1>6, <1>7, <2>1 DEF p
<1> QED
  BY <1>4, <1>5, <1>6

(* The points of a team when it has been refunded the buildings of q. *)
Refunded(q) == FoldLeft(LAMBDA bp, s : G_ModifyBuildPoints(bp, Refund(s)), buildPoints, q)

(* They are refunded in turn, and the balance is never negative. *)
LEMMA RefundedInTurn ==
  ASSUME ent \in [Sites -> Entity], buildPoints \in Nat,
         NEW n \in Nat, NEW q \in [1 .. n -> Standing(ent)]
  PROVE  \E g \in [SUBSET (1 .. n) -> Nat] :
           /\ g[{}] = buildPoints /\ g[1 .. n] = Refunded(q)
           /\ \A s \in SUBSET (1 .. n) : s # {} =>
                g[s] = G_ModifyBuildPoints(g[s \ {Max(s)}], Refund(q[Max(s)]))
<1> DEFINE r(i) == Refund(q[i])
           G == [p \in (1 .. n) \X Nat |-> G_ModifyBuildPoints(p[2], r(p[1]))]
           Step(f) == [s \in SUBSET DOMAIN q |->
              IF s = {} THEN buildPoints ELSE G_ModifyBuildPoints(f[s \ {Max(s)}], r(Max(s)))]
           h == CHOOSE f : f = Step(f)
<1>1. \A i \in 1 .. n : r(i) \in Int
  BY RefundIsPart
<1>2. Refunded(q) = h[DOMAIN q]
  BY DEF Refunded, FoldLeft, MapThenFoldSet
<1>3. \A i \in 1 .. n, bp \in Nat : G_ModifyBuildPoints(bp, r(i)) \in Nat
  <2> HIDE DEF r
  <2> QED
    BY <1>1 DEF G_ModifyBuildPoints
<1>4. DOMAIN q = 1 .. n
  OBVIOUS
<1>5. \A s \in SUBSET (1 .. n) : s # {} => Max(s) \in 1 .. n
  BY MaxIsOne
<1> HIDE DEF r
<1>6. G \in [(1 .. n) \X Nat -> Nat]
      /\ \A i \in 1 .. n, bp \in Nat : G[<<i, bp>>] = G_ModifyBuildPoints(bp, r(i))
  BY <1>3
<1> HIDE DEF G
<1>7. PICK g : FoldsOver(g, 1 .. n, Nat, buildPoints, G, LastOf(n))
               /\ TakesTurns(g, n, Nat, buildPoints, G)
  BY <1>6, TurnsExist
<1>8. g \in [SUBSET (1 .. n) -> Nat] /\ g[{}] = buildPoints
  BY <1>7 DEF TakesTurns
<1>9. ASSUME NEW s \in SUBSET (1 .. n), s # {}
      PROVE  g[s] = G_ModifyBuildPoints(g[s \ {Max(s)}], r(Max(s)))
  <2>1. s \ {Max(s)} \in SUBSET (1 .. n) /\ Max(s) \in 1 .. n
    BY <1>5, <1>9
  <2>2. g[s] = G[<<Max(s), g[s \ {Max(s)}]>>] /\ g[s \ {Max(s)}] \in Nat
    BY <1>7, <1>8, <1>9, <2>1 DEF TakesTurns
  <2> QED
    BY <1>6, <2>1, <2>2
<1>10. g = Step(g)
  <2>1. ASSUME NEW s \in SUBSET (1 .. n)
        PROVE  g[s] = IF s = {} THEN buildPoints ELSE G_ModifyBuildPoints(g[s \ {Max(s)}], r(Max(s)))
    BY <1>8, <1>9
  <2> QED
    BY <1>4, <1>8, <2>1
<1>11. h = Step(h)
  <2> HIDE DEF Step
  <2> QED
    BY <1>10
<1> HIDE DEF h
<1>12. ASSUME NEW s \in SUBSET (1 .. n)
       PROVE  h[s] = IF s = {} THEN buildPoints ELSE G_ModifyBuildPoints(h[s \ {Max(s)}], r(Max(s)))
  BY <1>4, <1>11
<1>13. GoesInTurn(h, n, Nat, buildPoints, G)
  <2>1. ASSUME NEW s \in SUBSET (1 .. n), s # {}, h[s \ {Max(s)}] \in Nat
        PROVE  h[s] = G[<<Max(s), h[s \ {Max(s)}]>>]
    <3>1. Max(s) \in 1 .. n
      BY <1>5, <2>1
    <3>2. h[s] = G_ModifyBuildPoints(h[s \ {Max(s)}], r(Max(s)))
      BY <1>12, <2>1
    <3> QED
      BY <1>6, <2>1, <3>1, <3>2
  <2>2. h[{}] = buildPoints
    <3>1. {} \in SUBSET (1 .. n)
      OBVIOUS
    <3> QED
      BY <1>12, <3>1
  <2> QED
    BY <2>1, <2>2 DEF GoesInTurn
<1>14. h[1 .. n] = g[1 .. n]
  BY <1>7, <1>13, TurnsAgree
<1>15. g[1 .. n] = Refunded(q)
  BY <1>2, <1>4, <1>14
<1> QED
  BY <1>8, <1>9, <1>15 DEF r

-----------------------------------------------------------------------------
(* What is replaced.                                                       *)

(* Of sets of sites each of which is part of another or contains it, one   *)
(* is the fewest.                                                          *)
LEMMA FewestIsOne ==
  ASSUME NEW S, S \subseteq SUBSET Sites, S # {},
         \A P, Q \in S : P \subseteq Q \/ Q \subseteq P
  PROVE  Fewest(S) \in S
<1>1. PICK R \in S : \A Q \in S : Q \subseteq R => Q = R
  <2>1. IsFiniteSet(Sites)
    BY SitesAreFinite
  <2> QED
    BY <2>1, Smallest
<1>2. \A Q \in S : R \subseteq Q
  BY <1>1
<1> QED
  BY <1>2 DEF Fewest

(* The nearest buildings ... *)
LEMMA NearestInARow ==
  ASSUME NEW b \in Sites, NEW S, S \subseteq Sites, NEW P \in Nearest(b, S), NEW Q \in Nearest(b, S)
  PROVE  P \subseteq Q \/ Q \subseteq P
<1> SUFFICES ASSUME NEW s \in P \ Q, NEW n \in Q \ P PROVE FALSE
  OBVIOUS
<1>1. s \in Sites /\ n \in Sites /\ s \in Nat /\ n \in Nat
  BY SitesAreFinite DEF Nearest
<1>2. Nearer(b, s, n) /\ Nearer(b, n, s)
  BY DEF Nearest
<1> DEFINE x == Distance(b, s)
           y == Distance(b, n)
<1>3. x \in Nat /\ y \in Nat
  BY <1>1, DistanceIsNat
<1>4. (x < y \/ (x = y /\ s < n)) /\ (y < x \/ (y = x /\ n < s))
  BY <1>2 DEF Nearer
<1> HIDE DEF x, y
<1> QED
  BY <1>1, <1>3, <1>4

(* ... and those at the front of a sequence are such sets. *)
LEMMA FrontsInARow ==
  ASSUME NEW n \in Nat, NEW S, NEW q \in [1 .. n -> S]
  PROVE  /\ \A P \in Fronts(q) : P \subseteq S
         /\ \A P, Q \in Fronts(q) : P \subseteq Q \/ Q \subseteq P
<1>1. Len(q) = n
  OBVIOUS
<1> DEFINE F(m) == {q[i] : i \in 1 .. m}
<1>2. Fronts(q) = {F(m) : m \in 0 .. n}
  BY <1>1 DEF Fronts
<1>3. \A m \in 0 .. n : F(m) \subseteq S
  <2> SUFFICES ASSUME NEW m \in 0 .. n, NEW i \in 1 .. m PROVE q[i] \in S
    OBVIOUS
  <2>1. i \in 1 .. n
    OBVIOUS
  <2> QED
    BY <2>1
<1>4. \A m, k \in 0 .. n : m <= k => F(m) \subseteq F(k)
  <2> SUFFICES ASSUME NEW m \in 0 .. n, NEW k \in 0 .. n, m <= k, NEW i \in 1 .. m
               PROVE  i \in 1 .. k
    OBVIOUS
  <2> QED
    OBVIOUS
<1> HIDE DEF F
<1>5. \A m, k \in 0 .. n : F(m) \subseteq F(k) \/ F(k) \subseteq F(m)
  <2>1. \A m, k \in 0 .. n : m <= k \/ k <= m
    OBVIOUS
  <2> QED
    BY <1>4, <2>1
<1> QED
  BY <1>2, <1>3, <1>5

(* What PrepareBuildableReplacement marks for removal: buildings that      *)
(* stand, enough of them for the power and for the price, and no reactor   *)
(* unless a reactor is built.                                              *)
LEMMA RemovalsAre ==
  ASSUME rc \in {None} \cup Sites, NEW b \in Sites, NEW t \in Types, NEW allowed \in BOOLEAN,
         NEW R \in Removals(b, t, allowed)
  PROVE  /\ R \subseteq Standing(ent) /\ CanAfford(t, R)
         /\ \E R2 \in SUBSET R : PredictBuildablePower(b, t, R2)
         /\ t # "reactor" => \A s \in R : ent[s].type # "reactor"
<1> DEFINE R1 == MainRemoval(t) \cup CollisionRemoval(b, t)
           powered == PowerRemovals(b, t, R1, allowed)
           R2 == Fewest(powered)
           paid(q) == {R2 \cup P : P \in {P \in Fronts(q) : CanAfford(t, R2 \cup P)}}
           S == {s \in Standing(ent) \ R2 : ent[s].deconstruct
                                            /\ BuildableReplacementChecks(ent[s].type, t)}
           Spared(s) == t # "reactor" => ent[s].type # "reactor"
<1>1. /\ HasRoom(b, t) /\ powered # {}
      /\ \E q \in Payments(b, t, R2) : paid(q) # {} /\ R = Fewest(paid(q))
  <2> HIDE DEF R1
  <2> QED
    BY DEF Removals, R1
<1>2. R1 \subseteq Standing(ent) /\ \A s \in R1 : Spared(s)
  <2>1. MainRemoval(t) \subseteq Standing(ent) /\ (t # "reactor" => MainRemoval(t) = {})
    BY ReactorIsReactor DEF MainRemoval, Standing, Stands
  <2>2. CollisionRemoval(b, t) \subseteq Standing(ent)
    BY DEF CollisionRemoval, Colliding
  <2>3. \A s \in CollisionRemoval(b, t) : Spared(s)
    BY <1>1 DEF HasRoom, BuildableReplacementChecks
  <2> QED
    BY <2>1, <2>2, <2>3
<1> HIDE DEF R1
<1>3. /\ powered \subseteq SUBSET Standing(ent)
      /\ \A Q \in powered : PredictBuildablePower(b, t, Q) /\ \A s \in Q : Spared(s)
      /\ \A P, Q \in powered : P \subseteq Q \/ Q \subseteq P
  <2> DEFINE I == Interfering(b, R1, allowed)
  <2>1. I \subseteq Sites /\ I \subseteq Standing(ent) /\ \A s \in I : ent[s].type # "reactor"
    BY DEF Interfering, Standing
  <2> HIDE DEF I
  <2>2. \A P \in Nearest(b, I) : P \subseteq I
    BY DEF Nearest
  <2>3. \A P, Q \in Nearest(b, I) : P \subseteq Q \/ Q \subseteq P
    BY <2>1, NearestInARow
  <2>4. \A Q \in powered : \E P \in Nearest(b, I) : Q = R1 \cup P /\ PredictBuildablePower(b, t, Q)
    BY DEF PowerRemovals, I
  <2> HIDE DEF powered
  <2>5. powered \subseteq SUBSET Standing(ent)
    BY <1>2, <2>1, <2>2, <2>4
  <2>6. ASSUME NEW Q \in powered PROVE \A s \in Q : Spared(s)
    BY <1>2, <2>1, <2>2, <2>4
  <2>7. ASSUME NEW P \in powered, NEW Q \in powered PROVE P \subseteq Q \/ Q \subseteq P
    <3>1. PICK A \in Nearest(b, I) : P = R1 \cup A
      BY <2>4
    <3>2. PICK B \in Nearest(b, I) : Q = R1 \cup B
      BY <2>4
    <3> QED
      BY <2>3, <3>1, <3>2
  <2> HIDE DEF Spared
  <2> QED
    BY <2>4, <2>5, <2>6, <2>7
<1> HIDE DEF powered
<1>4. R2 \in powered
  <2>1. Standing(ent) \subseteq Sites
    BY DEF Standing
  <2> QED
    BY <1>1, <1>3, <2>1, FewestIsOne
<1> HIDE DEF R2
<1>5. PICK q \in Payments(b, t, R2) : paid(q) # {} /\ R = Fewest(paid(q))
  BY <1>1
<1>6. /\ S \subseteq Standing(ent) /\ \A s \in S : Spared(s)
      /\ q \in [1 .. Cardinality(S) -> S] /\ Cardinality(S) \in Nat
  <2>1. S \subseteq Standing(ent) /\ \A s \in S : Spared(s)
    BY DEF BuildableReplacementChecks
  <2>2. q \in SetToSeqs(S)
    BY <1>5 DEF Payments
  <2>3. Cardinality(S) \in Nat
    <3>1. S \subseteq Sites
      BY <2>1 DEF Standing
    <3> QED
      BY <3>1, SitesAreFinite, FS_Subset, FS_CardinalityType
  <2> HIDE DEF S
  <2>4. q \in [1 .. Cardinality(S) -> S]
    BY <2>2 DEF SetToSeqs
  <2> QED
    BY <2>1, <2>3, <2>4
<1> HIDE DEF S
<1>7. /\ \A P \in Fronts(q) : P \subseteq S
      /\ \A P, Q \in Fronts(q) : P \subseteq Q \/ Q \subseteq P
  BY <1>6, FrontsInARow
<1>8. R2 \subseteq Standing(ent) /\ PredictBuildablePower(b, t, R2) /\ \A s \in R2 : Spared(s)
  BY <1>3, <1>4
<1>9. R \in paid(q)
  <2>3. \A Q \in paid(q) : \E P \in Fronts(q) : Q = R2 \cup P
    OBVIOUS
  <2> HIDE DEF paid
  <2>1. paid(q) \subseteq SUBSET Sites
    <3>1. S \subseteq Sites /\ R2 \subseteq Sites
      BY <1>6, <1>8 DEF Standing
    <3> QED
      BY <1>7, <2>3, <3>1
  <2>2. ASSUME NEW P \in paid(q), NEW Q \in paid(q) PROVE P \subseteq Q \/ Q \subseteq P
    <3>1. PICK A \in Fronts(q) : P = R2 \cup A
      BY <2>3
    <3>2. PICK B \in Fronts(q) : Q = R2 \cup B
      BY <2>3
    <3> QED
      BY <1>7, <3>1, <3>2
  <2> QED
    BY <1>5, <2>1, <2>2, FewestIsOne
<1>10. PICK P \in Fronts(q) : R = R2 \cup P /\ CanAfford(t, R)
  BY <1>9
<1>11. P \subseteq S
  BY <1>7
<1>12. \A s \in R : Spared(s)
  <2> HIDE DEF Spared
  <2> QED
    BY <1>6, <1>8, <1>10, <1>11
<1>13. R \subseteq Standing(ent)
  BY <1>6, <1>8, <1>10, <1>11
<1>14. R2 \in SUBSET R
  BY <1>10
<1> QED
  BY <1>8, <1>10, <1>12, <1>13, <1>14

-----------------------------------------------------------------------------
(* Types.                                                                  *)

(* What is built is an entity, and so is the place of what is gone. *)
LEMMA BuiltIsEntity ==
  /\ Nothing \in Entity
  /\ \A t \in Types : /\ Built(t) \in Entity /\ Built(t).type = t /\ ~Built(t).deconstruct
                      /\ Built(t).health = 1
<1>1. Nothing \in Entity
  BY Amounts DEF Nothing, Entity
<1>2. ASSUME NEW t \in Types
      PROVE  /\ Built(t) \in Entity /\ Built(t).type = t /\ ~Built(t).deconstruct
             /\ Built(t).health = 1
  <2>1. 1 \in -1 .. MaxHealth
    BY Amounts
  <2> DEFINE x == [Nothing EXCEPT !.type = t]
             y == [x EXCEPT !.health = 1]
             z == [y EXCEPT !.powered = TRUE]
  <2>2. Built(t) = z
    BY Zenon DEF Built
  <2>3. x \in Entity /\ x.type = t /\ x.deconstruct = FALSE
    BY <1>1 DEF Entity, Nothing
  <2> HIDE DEF x
  <2>4. y \in Entity /\ y.type = t /\ y.deconstruct = FALSE /\ y.health = 1
    BY <2>1, <2>3 DEF Entity
  <2> HIDE DEF y
  <2>5. z \in Entity /\ z.type = t /\ z.deconstruct = FALSE /\ z.health = 1
    BY <2>4 DEF Entity
  <2> QED
    BY <2>2, <2>5
<1> QED
  BY <1>1, <1>2

(* The balance is a number of build points after every change. *)
LEMMA ModifiedIsNat ==
  ASSUME NEW bp \in Int, NEW amount \in Int
  PROVE  G_ModifyBuildPoints(bp, amount) \in Nat
BY DEF G_ModifyBuildPoints

LEMMA SomeSites ==
  ASSUME NEW S, S \subseteq Sites
  PROVE  IsFiniteSet(S) /\ Cardinality(S) \in 0 .. Len(Position)
<1>1. IsFiniteSet(Sites) /\ Cardinality(Sites) = Len(Position)
  BY SitesAreFinite
<1>2. IsFiniteSet(S) /\ Cardinality(S) <= Cardinality(Sites)
  BY <1>1, FS_Subset
<1>3. Cardinality(S) \in Nat
  BY <1>2, FS_CardinalityType
<1> DEFINE c == Cardinality(S)
           n == Len(Position)
<1>4. c \in Nat /\ n \in Nat /\ c <= n
  BY <1>1, <1>2, <1>3, SitesAreFinite
<1> HIDE DEF c, n
<1>5. c \in 0 .. n
  BY <1>4
<1> QED
  BY <1>2, <1>5 DEF c, n

(* What is left when some buildings are gone. *)
LEMMA WithoutIsTyped ==
  ASSUME ent \in [Sites -> Entity], NEW R
  PROVE  Without(ent, R) \in [Sites -> Entity]
BY BuiltIsEntity DEF Without

(* A building of a type that is paid for. *)
LEMMA PaidIsNat ==
  ASSUME ent \in [Sites -> Entity], buildPoints \in Nat, NEW t \in Types,
         NEW R, R \subseteq Standing(ent), NEW q \in SetToSeqs(R)
  PROVE  /\ Cardinality(R) \in Nat /\ IsFiniteSet(R) /\ q \in [1 .. Cardinality(R) -> R]
         /\ q \in [1 .. Cardinality(R) -> Standing(ent)]
         /\ \A i, j \in 1 .. Cardinality(R) : i # j => q[i] # q[j]
         /\ Refunded(q) \in Nat /\ -MaxHealth * BuildPoints[t] \in Int
<1>1. Cardinality(R) \in Nat /\ IsFiniteSet(R)
  <2>1. R \subseteq Sites
    BY DEF Standing
  <2> QED
    BY <2>1, SitesAreFinite, FS_Subset, FS_CardinalityType
<1>2. /\ q \in [1 .. Cardinality(R) -> R]
      /\ \A i, j \in 1 .. Cardinality(R) : i # j => q[i] # q[j]
  BY DEF SetToSeqs
<1> DEFINE n == Cardinality(R)
<1>3. n \in Nat /\ q \in [1 .. n -> Standing(ent)]
  BY <1>1, <1>2
<1> HIDE DEF n
<1>4. Refunded(q) \in Nat
  <2>1. PICK g \in [SUBSET (1 .. n) -> Nat] : g[1 .. n] = Refunded(q)
    BY <1>3, RefundedInTurn
  <2> QED
    BY <2>1
<1>5. -MaxHealth * BuildPoints[t] \in Int
  <2>1. BuildPoints[t] \in Int /\ MaxHealth \in Int
    BY Amounts
  <2> QED
    BY <2>1
<1> QED
  BY <1>1, <1>2, <1>3, <1>4, <1>5 DEF n

(* Types: the first state, ... *)
LEMMA InitTypeOK == Init => TypeOK
<1> SUFFICES ASSUME Init PROVE TypeOK
  OBVIOUS
<1>1. PICK layout \in Layouts :
       /\ ent = [s \in Sites |->
                   IF layout[s] = "none" THEN Nothing
                   ELSE [Built(layout[s]) EXCEPT !.health = MaxHealth, !.spawned = TRUE]]
       /\ numSpawns = Cardinality({s \in Sites : layout[s] = "spawn"})
  BY DEF Init
<1>2. layout \in [Sites -> Types \cup {"none"}]
  BY BuildablesAssumption
<1>3. ASSUME NEW t \in Types
      PROVE  [Built(t) EXCEPT !.health = MaxHealth, !.spawned = TRUE] \in Entity
  <2>1. Built(t) \in Entity /\ MaxHealth \in -1 .. MaxHealth
    BY Amounts, BuiltIsEntity
  <2> QED
    BY <2>1 DEF Entity
<1>4. ent \in [Sites -> Entity]
  BY <1>1, <1>2, <1>3, BuiltIsEntity
<1>5. numSpawns \in 0 .. Len(Position)
  <2> DEFINE S == {s \in Sites : layout[s] = "spawn"}
  <2>1. S \subseteq Sites
    OBVIOUS
  <2> HIDE DEF S
  <2>2. Cardinality(S) \in 0 .. Len(Position)
    BY <2>1, SomeSites
  <2>3. numSpawns = Cardinality(S)
    BY <1>1 DEF S
  <2> QED
    BY <2>2, <2>3
<1>6. buildPoints \in Nat /\ rc = None /\ acts = 0 /\ MaxActs \in Nat
  <2>1. MaxHealth \in Nat /\ InitialBuildPoints \in Nat /\ MaxActs \in Nat
    BY Amounts
  <2>2. MaxHealth * InitialBuildPoints \in Nat
    BY <2>1, SMTT(20)
  <2>3. buildPoints = MaxHealth * InitialBuildPoints /\ rc = None /\ acts = 0
    BY Zenon DEF Init
  <2> QED
    BY <2>1, <2>2, <2>3
<1> QED
  BY <1>4, <1>5, <1>6 DEF TypeOK

(* ... a building that is placed, ... *)
Replaces(b, t, R) ==
  /\ Stands(ent, b) => b \in R
  /\ ent' = [Without(ent, R) EXCEPT ![b] = Built(t)]
  /\ \E q \in SetToSeqs(R) :
       buildPoints' = G_ModifyBuildPoints(Refunded(q), -MaxHealth * BuildPoints[t])

LEMMA BuildTypeOK ==
  ASSUME TypeOK, NEW b \in Sites, NEW t \in Types, Build(b, t)
  PROVE  TypeOK'
<1>0. PICK allowed \in BOOLEAN : \E R \in Removals(b, t, allowed) : Replaces(b, t, R)
  BY DEF Build, Replaces, Refunded
<1>1. PICK R \in Removals(b, t, allowed) : Replaces(b, t, R)
  BY <1>0
<1>2. ent \in [Sites -> Entity] /\ buildPoints \in Nat /\ rc \in {None} \cup Sites
  BY DEF TypeOK
<1>3. ent' \in [Sites -> Entity]
  BY <1>1, <1>2, WithoutIsTyped, BuiltIsEntity DEF Replaces
<1>4. buildPoints' \in Nat
  <2>1. R \subseteq Standing(ent)
    BY <1>2, RemovalsAre
  <2>2. PICK q \in SetToSeqs(R) :
          buildPoints' = G_ModifyBuildPoints(Refunded(q), -MaxHealth * BuildPoints[t])
    BY <1>1 DEF Replaces
  <2>3. Refunded(q) \in Nat /\ -MaxHealth * BuildPoints[t] \in Int
    BY <1>2, <2>1, PaidIsNat
  <2>4. Refunded(q) \in Int
    BY <2>3
  <2>5. G_ModifyBuildPoints(Refunded(q), -MaxHealth * BuildPoints[t]) \in Nat
    BY <2>3, <2>4, ModifiedIsNat
  <2> QED
    BY <2>2, <2>5
<1>5. rc' \in {None} \cup Sites /\ numSpawns' = numSpawns /\ acts' = acts + 1 /\ acts < MaxActs
  BY <1>2, ReactorIsReactor DEF Build, Act
<1> QED
  BY <1>3, <1>4, <1>5, Amounts DEF TypeOK

(* ... what the player and the enemy do to one, ... *)
LEMMA ActTypeOK ==
  ASSUME TypeOK, NEW s \in Sites,
         \/ ToggleMark(s) \/ Deconstruct(s) \/ Gone(s) \/ Grow(s)
         \/ \E health \in {-1} \cup 1 .. (MaxHealth - 1) : Damage(s, health)
  PROVE  TypeOK'
<1>1. /\ ent \in [Sites -> Entity] /\ buildPoints \in Nat /\ rc \in {None} \cup Sites
      /\ numSpawns \in 0 .. Len(Position) /\ acts \in 0 .. MaxActs
  BY DEF TypeOK
<1>2. ent[s] \in Entity
  BY <1>1
<1>3. CASE ToggleMark(s)
  <2>1. [ent[s] EXCEPT !.deconstruct = ~@] \in Entity
    BY <1>2 DEF Entity
  <2>2. ent' \in [Sites -> Entity]
    BY <1>1, <1>3, <2>1 DEF ToggleMark
  <2> QED
    BY <1>1, <1>3, <2>2, Amounts DEF ToggleMark, Act, TypeOK
<1>4. CASE Deconstruct(s)
  <2>1. [ent[s] EXCEPT !.deconstruct = FALSE] \in Entity
    BY <1>2 DEF Entity
  <2>2. ent' \in [Sites -> Entity]
    BY <1>1, <1>4, <2>1, WithoutIsTyped DEF Deconstruct
  <2>3. buildPoints' \in Nat
    <3>1. Refund(s) \in Int
      BY <1>1, <1>4, RefundIsPart DEF Deconstruct, Alive, Standing
    <3>2. G_ModifyBuildPoints(buildPoints, Refund(s)) \in Nat
      <4>1. buildPoints \in Int
        BY <1>1
      <4> QED
        BY <3>1, <4>1, ModifiedIsNat
    <3> QED
      BY <1>1, <1>4, <3>2 DEF Deconstruct
  <2> QED
    BY <1>1, <1>4, <2>2, <2>3, Amounts DEF Deconstruct, Act, TypeOK
<1>5. CASE Gone(s)
  <2>1. ent' \in [Sites -> Entity]
    BY <1>1, <1>5, WithoutIsTyped DEF Gone
  <2> QED
    BY <1>1, <1>5, <2>1 DEF Gone, TypeOK
<1>6. CASE Grow(s)
  <2>1. ent[s].health < MaxHealth => [ent[s] EXCEPT !.health = @ + 1] \in Entity
    BY <1>2, Amounts DEF Entity
  <2>2. [ent[s] EXCEPT !.spawned = TRUE] \in Entity
    BY <1>2 DEF Entity
  <2>3. ent' \in [Sites -> Entity]
    BY <1>1, <1>6, <2>1, <2>2 DEF Grow
  <2> QED
    BY <1>1, <1>6, <2>3 DEF Grow, TypeOK
<1>7. CASE \E health \in {-1} \cup 1 .. (MaxHealth - 1) : Damage(s, health)
  <2>1. PICK health \in {-1} \cup 1 .. (MaxHealth - 1) : Damage(s, health)
    BY <1>7
  <2>2. health \in -1 .. MaxHealth
    BY Amounts
  <2>3. [ent[s] EXCEPT !.health = health] \in Entity
    BY <1>2, <2>2 DEF Entity
  <2>4. ent' \in [Sites -> Entity]
    BY <1>1, <2>1, <2>3 DEF Damage
  <2> QED
    BY <1>1, <2>1, <2>4, Amounts DEF Damage, Act, TypeOK
<1> QED
  BY <1>3, <1>4, <1>5, <1>6, <1>7

(* ... and the end of a frame. *)
LEMMA FrameTypeOK ==
  ASSUME TypeOK, NEW power \in BOOLEAN, NEW mines \in BOOLEAN, EndFrame(power, mines)
  PROVE  TypeOK'
<1>1. /\ ent \in [Sites -> Entity] /\ buildPoints \in Nat /\ rc \in {None} \cup Sites
      /\ acts \in 0 .. MaxActs
  BY DEF TypeOK
<1>2. ent' \in [Sites -> Entity]
  <2>1. Alike(ent) \subseteq [Sites -> Entity]
    BY DEF Alike
  <2> QED
    BY <1>1, <2>1, PowerStateIsAlike DEF EndFrame
<1>3. rc' \in {None} \cup Sites
  BY <1>1, ReactorIsReactor DEF EndFrame
<1>4. numSpawns' \in 0 .. Len(Position)
  <2> DEFINE S == {s \in OfType("spawn") : ent[s].health > 0}
  <2>1. S \subseteq Sites
    BY DEF OfType
  <2> HIDE DEF S
  <2>2. Cardinality(S) \in 0 .. Len(Position)
    BY <2>1, SomeSites
  <2>3. numSpawns' = Cardinality(S)
    BY DEF EndFrame, S
  <2> QED
    BY <2>2, <2>3
<1>5. acts' \in 0 .. MaxActs
  BY <1>1, Amounts DEF EndFrame, Act
<1>6. buildPoints' \in Nat
  <2>1. buildPoints \in Int /\ 1 \in Int
    BY <1>1
  <2>2. G_ModifyBuildPoints(buildPoints, 1) \in Nat
    BY <2>1, ModifiedIsNat
  <2> QED
    BY <1>1, <2>2 DEF EndFrame
<1> QED
  BY <1>2, <1>3, <1>4, <1>5, <1>6 DEF TypeOK

LEMMA StepTypeOK == TypeOK /\ [Next]_vars => TypeOK'
<1> SUFFICES ASSUME TypeOK, [Next]_vars PROVE TypeOK'
  OBVIOUS
<1>1. CASE Frame
  BY <1>1, FrameTypeOK DEF Frame
<1>2. CASE LookForReactor
  BY <1>2, ReactorIsReactor DEF LookForReactor, TypeOK
<1>3. ASSUME NEW s \in Sites, NEW t \in Types, Build(s, t) PROVE TypeOK'
  BY <1>3, BuildTypeOK
<1>4. ASSUME NEW s \in Sites,
             \/ ToggleMark(s) \/ Deconstruct(s) \/ Gone(s) \/ Grow(s)
             \/ \E health \in {-1} \cup 1 .. (MaxHealth - 1) : Damage(s, health)
      PROVE  TypeOK'
  BY <1>4, ActTypeOK
<1>5. CASE UNCHANGED vars
  BY <1>5 DEF vars, TypeOK
<1> QED
  BY <1>1, <1>2, <1>3, <1>4, <1>5 DEF Next

(* The buildings and the counters of the team are what TypeOK says, the    *)
(* build points never negative: G_ModifyBuildPoints, the refunds of        *)
(* G_FreeMarkedBuildables and the power state of every frame.              *)
THEOREM BuildableTypes == Spec => []TypeOK
<1> QED
  BY InitTypeOK, StepTypeOK, PTL DEF Spec

-----------------------------------------------------------------------------
(* What is built takes the place of what PrepareBuildableReplacement chose. *)

Replaced(b) == {s \in Standing(ent) : s = b \/ ent'[s].type = "none"}

(* What WheneverBuilt is about: a building with nothing in its place       *)
(* before, or a marked one, and not one that is unmarked.                  *)
New(b) ==
  /\ ent'[b].type # "none" /\ ent'[b] = Built(ent'[b].type)
  /\ (Stands(ent, b) => ent[b].deconstruct) /\ ~ToggleMark(b)

(* A step that leaves a building or its mark as it was has not built it. *)
LEMMA KeptIsNotNew ==
  ASSUME TypeOK', NEW b \in Sites, New(b),
         ent'[b].type = ent[b].type /\ ent'[b].deconstruct = ent[b].deconstruct
  PROVE  FALSE
<1>1. ent'[b].type \in Types
  BY DEF New, TypeOK, Entity
<1>2. ~ent'[b].deconstruct
  BY <1>1, BuiltIsEntity DEF New
<1> QED
  BY <1>2 DEF New, Stands

(* So a new building has been built, ... *)
LEMMA NewIsBuilt ==
  ASSUME TypeOK, TypeOK', [Next]_vars, NEW b \in Sites, New(b)
  PROVE  ent'[b].type \in Types /\ Build(b, ent'[b].type)
<1> DEFINE t == ent'[b].type
<1>1. t \in Types
  BY DEF New, TypeOK, Entity
<1>2. ent \in [Sites -> Entity]
  BY DEF TypeOK
<1>3. CASE ent' = ent
  BY <1>3, KeptIsNotNew
<1>4. CASE Frame
  <2>1. ent' \in Alike(ent) \/ ent' = ent
    BY <1>2, <1>4, PowerStateIsAlike DEF Frame, EndFrame
  <2> QED
    BY <1>3, <2>1, KeptIsNotNew DEF Alike
<1>5. ASSUME NEW s \in Sites, NEW u \in Types, Build(s, u)
      PROVE  Build(b, t)
  <2>1. PICK R : ent' = [Without(ent, R) EXCEPT ![s] = Built(u)]
    BY <1>5 DEF Build
  <2>2. Without(ent, R) \in [Sites -> Entity]
    BY <1>2, WithoutIsTyped
  <2>3. CASE s = b
    <3>1. t = u
      BY <2>1, <2>2, <2>3, BuiltIsEntity
    <3> QED
      BY <1>5, <2>3, <3>1
  <2>4. CASE s # b
    <3>1. ent'[b] = IF b \in R THEN Nothing ELSE ent[b]
      BY <2>1, <2>2, <2>4 DEF Without
    <3>2. ent'[b] = ent[b]
      BY <3>1 DEF New, Nothing
    <3> QED
      BY <3>2, KeptIsNotNew
  <2> QED
    BY <2>3, <2>4
<1>6. ASSUME NEW s \in Sites, NEW R, ent' = Without(ent, R)
      PROVE  FALSE
  <2>1. ent'[b] = IF b \in R THEN Nothing ELSE ent[b]
    BY <1>6 DEF Without
  <2>2. ent'[b] = ent[b]
    BY <2>1 DEF New, Nothing
  <2> QED
    BY <2>2, KeptIsNotNew
<1>7. ASSUME NEW s \in Sites,
             \/ ToggleMark(s) \/ Deconstruct(s) \/ Gone(s) \/ Grow(s)
             \/ \E health \in {-1} \cup 1 .. (MaxHealth - 1) : Damage(s, health)
      PROVE  FALSE
  <2>1. CASE ToggleMark(s)
    <3>1. s # b
      BY <2>1 DEF New
    <3>2. ent'[b] = ent[b]
      BY <1>2, <2>1, <3>1 DEF ToggleMark
    <3> QED
      BY <3>2, KeptIsNotNew
  <2>2. CASE Deconstruct(s)
    <3>1. CASE ent[s].type = "spawn" /\ numSpawns <= 1
      <4>1. ent' = [ent EXCEPT ![s].deconstruct = FALSE] /\ UNCHANGED <<rc, buildPoints, numSpawns>>
            /\ Act /\ Alive(s) /\ ent[s].deconstruct
        BY <2>2, <3>1 DEF Deconstruct
      <4>2. CASE s = b
        <5>1. ent[s].deconstruct = TRUE
          BY <1>2, <4>1 DEF Entity
        <5>2. ToggleMark(s)
          BY <1>2, <4>1, <5>1 DEF ToggleMark
        <5> QED
          BY <4>2, <5>2 DEF New
      <4>3. CASE s # b
        <5>1. ent'[b] = ent[b]
          BY <1>2, <4>1, <4>3
        <5> QED
          BY <5>1, KeptIsNotNew
      <4> QED
        BY <4>2, <4>3
    <3>2. CASE ~(ent[s].type = "spawn" /\ numSpawns <= 1)
      BY <1>6, <2>2, <3>2 DEF Deconstruct
    <3> QED
      BY <3>1, <3>2
  <2>3. CASE Gone(s)
    BY <1>6, <2>3 DEF Gone
  <2>4. CASE Grow(s)
    <3>1. \/ ent' = [ent EXCEPT ![s].health = @ + 1]
          \/ ent' = [ent EXCEPT ![s].spawned = TRUE]
      BY <2>4 DEF Grow
    <3>2. ent'[b].type = ent[b].type /\ ent'[b].deconstruct = ent[b].deconstruct
      BY <1>2, <3>1 DEF Entity
    <3> QED
      BY <3>2, KeptIsNotNew
  <2>5. CASE \E health \in {-1} \cup 1 .. (MaxHealth - 1) : Damage(s, health)
    <3>1. PICK health \in {-1} \cup 1 .. (MaxHealth - 1) : ent' = [ent EXCEPT ![s].health = health]
      BY <2>5 DEF Damage
    <3>2. ent'[b].type = ent[b].type /\ ent'[b].deconstruct = ent[b].deconstruct
      BY <1>2, <3>1 DEF Entity
    <3> QED
      BY <3>2, KeptIsNotNew
  <2> QED
    BY <1>7, <2>1, <2>2, <2>3, <2>4, <2>5
<1>8. CASE LookForReactor
  BY <1>3, <1>8 DEF LookForReactor
<1>9. CASE UNCHANGED vars
  BY <1>3, <1>9 DEF vars
<1> HIDE DEF t
<1> QED
  BY <1>1, <1>4, <1>5, <1>7, <1>8, <1>9 DEF Next, t

(* ... and what is gone is what was chosen for it. *)
LEMMA NewReplacesRemovals ==
  ASSUME TypeOK, TypeOK', [Next]_vars, NEW b \in Sites, New(b)
  PROVE  /\ ent'[b].type \in Types
         /\ \E allowed \in BOOLEAN : Replaced(b) \in Removals(b, ent'[b].type, allowed)
         /\ Replaces(b, ent'[b].type, Replaced(b))
<1> DEFINE t == ent'[b].type
<1>1. t \in Types /\ Build(b, t)
  BY NewIsBuilt
<1> HIDE DEF t
<1>2. ent \in [Sites -> Entity] /\ rc \in {None} \cup Sites
  BY DEF TypeOK
<1>3. PICK allowed \in BOOLEAN : \E R \in Removals(b, t, allowed) : Replaces(b, t, R)
  BY <1>1 DEF Build, Replaces, Refunded
<1>4. PICK R \in Removals(b, t, allowed) : Replaces(b, t, R)
  BY <1>3
<1>5. R \subseteq Standing(ent)
  BY <1>1, <1>2, RemovalsAre
<1>6. \A s \in Sites : s # b => ent'[s] = IF s \in R THEN Nothing ELSE ent[s]
  BY <1>2, <1>4, WithoutIsTyped DEF Replaces, Without
<1>7. Replaced(b) = R
  BY <1>4, <1>5, <1>6 DEF Replaced, Replaces, Standing, Stands, Nothing
<1> QED
  BY <1>1, <1>4, <1>7 DEF t

(* Nothing but a new reactor takes the place of a reactor: the checks of   *)
(* BuildableReplacementChecks for what is in the way and for what pays,    *)
(* and the types that are discarded from what goes for its power.          *)
THEOREM ReactorsAreSpared == Spec => ReactorOnlyForReactor
<1>1. TypeOK /\ TypeOK' /\ [Next]_vars =>
        [WheneverBuilt(LAMBDA b, t, R : t # "reactor" => \A s \in R : ent[s].type # "reactor")]_vars
  <2> SUFFICES ASSUME TypeOK, TypeOK', [Next]_vars, NEW b \in Sites, New(b)
               PROVE  ent'[b].type # "reactor" => \A s \in Replaced(b) : ent[s].type # "reactor"
    BY DEF WheneverBuilt, New, Replaced
  <2>1. PICK allowed \in BOOLEAN : Replaced(b) \in Removals(b, ent'[b].type, allowed)
    BY NewReplacesRemovals
  <2>2. ent'[b].type \in Types
    BY NewReplacesRemovals
  <2> QED
    BY <2>1, <2>2, RemovalsAre DEF TypeOK
<1> QED
  BY <1>1, BuildableTypes, PTL DEF Spec, ReactorOnlyForReactor

-----------------------------------------------------------------------------
(* Build points.                                                           *)

(* What all that stands would cost. *)
Total(e) == SumFunction([s \in Standing(e) |-> MaxHealth * BuildPoints[e[s].type]])

PriceOf(e) == [s \in Sites |-> IF Stands(e, s) THEN MaxHealth * BuildPoints[e[s].type] ELSE 0]

LEMMA PricesAreNat ==
  ASSUME NEW e \in [Sites -> Entity]
  PROVE  \A s \in Sites : PriceOf(e)[s] \in Nat
<1> SUFFICES ASSUME NEW s \in Sites PROVE PriceOf(e)[s] \in Nat
  OBVIOUS
<1>1. CASE Stands(e, s)
  <2>1. BuildPoints[e[s].type] \in Nat /\ MaxHealth \in Nat
    BY <1>1, Amounts DEF Stands, Entity
  <2> DEFINE x == BuildPoints[e[s].type]
  <2> HIDE DEF x
  <2>2. MaxHealth * x \in Nat
    BY <2>1, SMTT(20) DEF x
  <2> QED
    BY <1>1, <2>2 DEF PriceOf, x
<1>2. CASE ~Stands(e, s)
  BY <1>2 DEF PriceOf
<1> QED
  BY <1>1, <1>2

LEMMA TotalIsSum ==
  ASSUME NEW e \in [Sites -> Entity]
  PROVE  Total(e) = SumFunctionOnSet(PriceOf(e), Standing(e)) /\ Total(e) \in Int
<1> DEFINE S == Standing(e)
           F == [s \in S |-> MaxHealth * BuildPoints[e[s].type]]
           H == PriceOf(e)
<1>1. S \subseteq Sites /\ IsFiniteSet(S) /\ S \in SUBSET S
  BY SomeSites DEF Standing
<1>2. \A s \in S : H[s] \in Int /\ F[s] = H[s]
  <2>1. \A s \in Sites : H[s] \in Int
    BY PricesAreNat
  <2>2. \A s \in S : H[s] = MaxHealth * BuildPoints[e[s].type]
    BY DEF PriceOf, Standing
  <2> QED
    BY <1>1, <2>1, <2>2
<1>3. DOMAIN F = S /\ Total(e) = SumFunction(F)
  BY DEF Total
<1> HIDE DEF F, H, S
<1>4. SumFunctionOnSet(H, S) = SumFunctionOnSet(F, S)
  BY <1>1, <1>2, SumsAgree
<1>5. SumFunctionOnSet(H, S) \in Int
  <2>1. \A s \in S : H[s] \in Int
    BY <1>2
  <2> QED
    BY <1>1, <2>1, SumStep
<1>6. Total(e) = SumFunctionOnSet(F, S)
  BY <1>3 DEF SumFunction
<1> QED
  BY <1>4, <1>5, <1>6 DEF H, S

(* It depends on the types alone, ... *)
LEMMA SameTotal ==
  ASSUME NEW e \in [Sites -> Entity], NEW d \in [Sites -> Entity],
         \A s \in Sites : d[s].type = e[s].type
  PROVE  Total(d) = Total(e)
<1>1. Standing(d) = Standing(e)
  BY DEF Standing, Stands
<1>2. PriceOf(d) = PriceOf(e)
  BY DEF PriceOf, Stands
<1> QED
  BY <1>1, <1>2, TotalIsSum

(* ... is less by what is taken away ... *)
LEMMA TotalWithout ==
  ASSUME NEW e \in [Sites -> Entity], NEW R, R \subseteq Standing(e)
  PROVE  /\ SumFunctionOnSet(PriceOf(e), R) \in Int
         /\ SumFunctionOnSet(PriceOf(e), Standing(e) \ R) \in Int
         /\ Total(e) = SumFunctionOnSet(PriceOf(e), R)
                         + SumFunctionOnSet(PriceOf(e), Standing(e) \ R)
<1> DEFINE S == Standing(e)
           H == PriceOf(e)
<1>1. IsFiniteSet(S) /\ S \subseteq Sites
  BY SomeSites DEF Standing
<1>2. \A s \in S : H[s] \in Int
  BY <1>1, PricesAreNat
<1>3. Total(e) = SumFunctionOnSet(H, S)
  BY TotalIsSum
<1>4. R \in SUBSET S /\ S \ R \in SUBSET S
  OBVIOUS
<1> HIDE DEF S, H
<1>5. SumFunctionOnSet(H, R) \in Int /\ SumFunctionOnSet(H, S \ R) \in Int
  BY <1>1, <1>2, <1>4, SumStep
<1>6. SumFunctionOnSet(H, S) = SumFunctionOnSet(H, R) + SumFunctionOnSet(H, S \ R)
  BY <1>1, <1>2, <1>4, SumSplits
<1> QED
  BY <1>3, <1>5, <1>6 DEF S, H

(* ... and more by what is built. *)
InPlace(e, R, d, b) ==
  /\ Stands(e, b) => b \in R
  /\ Stands(d, b)
  /\ \A s \in Sites : s # b => d[s].type = IF s \in R THEN "none" ELSE e[s].type

LEMMA TotalWith ==
  ASSUME NEW e \in [Sites -> Entity], NEW R, R \subseteq Standing(e), NEW d \in [Sites -> Entity],
         NEW b \in Sites, InPlace(e, R, d, b)
  PROVE  Total(d) = PriceOf(d)[b] + SumFunctionOnSet(PriceOf(e), Standing(e) \ R)
<1> DEFINE N == Standing(d)
           K == Standing(e) \ R
           F == PriceOf(e)
           H == PriceOf(d)
<1>1. IsFiniteSet(N) /\ N \subseteq Sites /\ N \in SUBSET N /\ b \in N
  BY SomeSites DEF Standing, InPlace
<1>2. \A s \in N : H[s] \in Int
  BY <1>1, PricesAreNat
<1>3. N \ {b} = K
  BY DEF Standing, Stands, InPlace
<1>4. IsFiniteSet(K) /\ K \subseteq Sites
  BY SomeSites DEF Standing
<1>5. \A s \in K : F[s] \in Int /\ H[s] = F[s]
  <2>1. \A s \in K : F[s] \in Int
    BY <1>4, PricesAreNat
  <2>2. \A s \in K : s \in Sites /\ d[s].type = e[s].type
    BY DEF Standing, Stands, InPlace
  <2>3. \A s \in K : H[s] = F[s]
    BY <2>2 DEF PriceOf, Stands
  <2> QED
    BY <2>1, <2>3
<1>6. Total(d) = SumFunctionOnSet(H, N)
  BY TotalIsSum
<1> HIDE DEF N, K, F, H
<1>7. SumFunctionOnSet(H, N) = H[b] + SumFunctionOnSet(H, N \ {b})
  BY <1>1, <1>2, SumStep
<1>8. SumFunctionOnSet(F, K) = SumFunctionOnSet(H, K)
  BY <1>4, <1>5, SumsAgree
<1> QED
  BY <1>3, <1>6, <1>7, <1>8 DEF H, F, K

(* What refunds can make of the balance: never more than the buildings     *)
(* were worth, and exactly what is refunded for them when none was dying.  *)
LEMMA RefundedAmounts ==
  ASSUME ent \in [Sites -> Entity], buildPoints \in Nat,
         NEW R, R \subseteq Standing(ent), NEW q \in SetToSeqs(R)
  PROVE  /\ Refunded(q) \in Nat
         /\ SumFunctionOnSet(PriceOf(ent), R) \in Int
         /\ SumFunctionOnSet([s \in R |-> Refund(s)], R) \in Int
         /\ Refunded(q) <= buildPoints + SumFunctionOnSet(PriceOf(ent), R)
         /\ (\A s \in R : ent[s].health > 0) =>
              Refunded(q) = buildPoints + SumFunctionOnSet([s \in R |-> Refund(s)], R)
<1> DEFINE n == Cardinality(R)
           F == PriceOf(ent)
           H == [s \in R |-> Refund(s)]
           D == 1 .. n
           Fq == [i \in D |-> F[q[i]]]
           Hq == [i \in D |-> H[q[i]]]
           f(s) == SumFunctionOnSet(Fq, s)
           h(s) == SumFunctionOnSet(Hq, s)
<1>1. /\ n \in Nat /\ IsFiniteSet(R) /\ q \in [D -> R] /\ q \in [D -> Standing(ent)]
      /\ \A i, j \in D : i # j => q[i] # q[j]
  BY PaidIsNat, Amounts
<1>2. PICK g \in [SUBSET D -> Nat] :
        /\ g[{}] = buildPoints /\ g[D] = Refunded(q)
        /\ \A s \in SUBSET D : s # {} =>
             g[s] = G_ModifyBuildPoints(g[s \ {Max(s)}], Refund(q[Max(s)]))
  BY <1>1, RefundedInTurn
<1>3. \A x \in R : /\ F[x] \in Nat /\ H[x] \in Int /\ H[x] = Refund(x) /\ H[x] <= F[x]
                   /\ ent[x].health > 0 => H[x] >= 0
  <2> SUFFICES ASSUME NEW x \in R
               PROVE  /\ F[x] \in Nat /\ H[x] \in Int /\ H[x] = Refund(x) /\ H[x] <= F[x]
                      /\ ent[x].health > 0 => H[x] >= 0
    OBVIOUS
  <2>1. x \in Standing(ent) /\ x \in Sites /\ Stands(ent, x)
    BY DEF Standing
  <2>2. F[x] \in Nat /\ F[x] = Price(x)
    BY <2>1, PricesAreNat DEF PriceOf, Price
  <2>3. Refund(x) \in Int /\ Refund(x) <= Price(x) /\ (ent[x].health > 0 => Refund(x) >= 0)
    BY <2>1, RefundIsPart
  <2> QED
    BY <2>2, <2>3
<1>4. \A i \in D : /\ Fq[i] \in Nat /\ Hq[i] \in Int /\ Hq[i] = Refund(q[i]) /\ Hq[i] <= Fq[i]
                   /\ ent[q[i]].health > 0 => Hq[i] >= 0
  <2> HIDE DEF F, H, D
  <2> QED
    BY <1>1, <1>3
<1>5. IsFiniteSet(D)
  BY <1>1, FS_Interval
<1>6. /\ SumFunctionOnSet(F, R) \in Int /\ SumFunctionOnSet(H, R) \in Int
  <2>1. \A x \in R : F[x] \in Int
    BY <1>3
  <2>2. \A x \in R : H[x] \in Int
    BY <1>3
  <2>3. R \in SUBSET R
    OBVIOUS
  <2> HIDE DEF F, H
  <2>4. SumFunctionOnSet(F, R) \in Int
    BY <1>1, <2>1, <2>3, SumStep
  <2>5. SumFunctionOnSet(H, R) \in Int
    BY <1>1, <2>2, <2>3, SumStep
  <2> QED
    BY <2>4, <2>5
<1>7. f(D) = SumFunctionOnSet(F, R) /\ h(D) = SumFunctionOnSet(H, R)
  <2>1. \A x \in R : F[x] \in Int
    BY <1>3
  <2>2. \A x \in R : H[x] \in Int
    BY <1>3
  <2> HIDE DEF F, H
  <2> DEFINE m == n
  <2>3. m \in Nat /\ Enumerates(q, m, R)
    BY <1>1 DEF Enumerates
  <2> HIDE DEF m
  <2>4. SumFunctionOnSet([i \in 1 .. m |-> F[q[i]]], 1 .. m) = SumFunctionOnSet(F, R)
    BY <1>1, <2>1, <2>3, SumMoves
  <2>5. SumFunctionOnSet([i \in 1 .. m |-> H[q[i]]], 1 .. m) = SumFunctionOnSet(H, R)
    BY <1>1, <2>2, <2>3, SumMoves
  <2> QED
    BY <2>4, <2>5 DEF m
<1>8. \A s \in SUBSET D : s # {} => Max(s) \in s
  BY <1>1, MaxIsOne
<1> HIDE DEF D, F, H, Fq, Hq
<1>9. f({}) = 0 /\ \A s \in SUBSET D : f(s) \in Int /\ \A i \in s : f(s) = Fq[i] + f(s \ {i})
  <2>1. \A i \in D : Fq[i] \in Int
    BY <1>4
  <2> QED
    BY <1>5, <2>1, SumStep
<1>10. h({}) = 0 /\ \A s \in SUBSET D : h(s) \in Int /\ \A i \in s : h(s) = Hq[i] + h(s \ {i})
  <2>1. \A i \in D : Hq[i] \in Int
    BY <1>4
  <2> QED
    BY <1>5, <2>1, SumStep
<1> HIDE DEF f, h
<1>11. {} \in SUBSET D /\ D \in SUBSET D
  OBVIOUS
<1>12. g[D] <= buildPoints + f(D)
  <2> DEFINE B == {s \in SUBSET D : ~ g[s] <= buildPoints + f(s)}
  <2> SUFFICES ASSUME B # {} PROVE FALSE
    BY <1>11
  <2>1. PICK s \in B : \A x \in s : s \ {x} \notin B
    <3>1. B \subseteq SUBSET D
      OBVIOUS
    <3> HIDE DEF B
    <3> QED
      BY <1>5, <3>1, FirstBad
  <2>2. s \in SUBSET D /\ ~ g[s] <= buildPoints + f(s)
    BY <2>1
  <2>3. s # {}
    <3> SUFFICES ASSUME s = {} PROVE FALSE
      OBVIOUS
    <3>1. ~ g[{}] <= buildPoints + f({})
      BY <2>2
    <3> HIDE DEF B
    <3> QED
      BY <1>2, <1>9, <3>1
  <2> DEFINE i == Max(s)
  <2>4. i \in s /\ i \in D /\ s \ {i} \in SUBSET D
    BY <1>8, <2>2, <2>3
  <2>5. g[s] = G_ModifyBuildPoints(g[s \ {i}], Hq[i])
    BY <1>2, <1>4, <2>2, <2>3, <2>4
  <2> HIDE DEF i
  <2>6. g[s \ {i}] <= buildPoints + f(s \ {i})
    BY <2>1, <2>4
  <2> HIDE DEF B
  <2>7. f(s) = Fq[i] + f(s \ {i}) /\ f(s \ {i}) \in Int /\ g[s \ {i}] \in Nat
    BY <1>9, <2>2, <2>4
  <2>8. Fq[i] \in Nat /\ Hq[i] \in Int /\ Hq[i] <= Fq[i]
    BY <1>4, <2>4
  <2> DEFINE x == g[s \ {i}]
             y == f(s \ {i})
             u == Fq[i]
             v == Hq[i]
  <2>9. /\ x \in Nat /\ y \in Int /\ u \in Nat /\ v \in Int /\ v <= u /\ x <= buildPoints + y
        /\ ~ (IF x + v < 0 THEN 0 ELSE x + v) <= buildPoints + (u + y)
    BY <2>2, <2>5, <2>6, <2>7, <2>8 DEF G_ModifyBuildPoints
  <2> HIDE DEF x, y, u, v
  <2> QED
    BY <2>9
<1>13. ASSUME \A s \in R : ent[s].health > 0 PROVE g[D] = buildPoints + h(D)
  <2> DEFINE B == {s \in SUBSET D : ~ (h(s) >= 0 /\ g[s] = buildPoints + h(s))}
  <2> SUFFICES ASSUME B # {} PROVE FALSE
    BY <1>11
  <2>1. PICK s \in B : \A x \in s : s \ {x} \notin B
    <3>1. B \subseteq SUBSET D
      OBVIOUS
    <3> HIDE DEF B
    <3> QED
      BY <1>5, <3>1, FirstBad
  <2>2. s \in SUBSET D /\ ~ (h(s) >= 0 /\ g[s] = buildPoints + h(s))
    BY <2>1
  <2>3. s # {}
    <3> SUFFICES ASSUME s = {} PROVE FALSE
      OBVIOUS
    <3>1. ~ (h({}) >= 0 /\ g[{}] = buildPoints + h({}))
      BY <2>2
    <3> HIDE DEF B
    <3> QED
      BY <1>2, <1>10, <3>1
  <2> DEFINE i == Max(s)
  <2>4. i \in s /\ i \in D /\ s \ {i} \in SUBSET D
    BY <1>8, <2>2, <2>3
  <2>5. g[s] = G_ModifyBuildPoints(g[s \ {i}], Hq[i])
    BY <1>2, <1>4, <2>2, <2>3, <2>4
  <2> HIDE DEF i
  <2>6. h(s \ {i}) >= 0 /\ g[s \ {i}] = buildPoints + h(s \ {i})
    BY <2>1, <2>4
  <2> HIDE DEF B
  <2>7. h(s) = Hq[i] + h(s \ {i}) /\ h(s \ {i}) \in Int
    BY <1>10, <2>2, <2>4
  <2>8. Hq[i] \in Int /\ Hq[i] >= 0
    BY <1>1, <1>4, <1>13, <2>4
  <2> DEFINE y == h(s \ {i})
             v == Hq[i]
  <2>9. /\ y \in Int /\ y >= 0 /\ v \in Int /\ v >= 0
        /\ ~ (v + y >= 0 /\ G_ModifyBuildPoints(buildPoints + y, v) = buildPoints + (v + y))
    BY <2>2, <2>5, <2>6, <2>7, <2>8
  <2> HIDE DEF y, v
  <2> QED
    BY <2>9 DEF G_ModifyBuildPoints
<1>14. Refunded(q) \in Nat
  BY <1>2, <1>11
<1> QED
  BY <1>2, <1>6, <1>7, <1>12, <1>13, <1>14 DEF F, H

LEMMA WorthIs ==
  /\ Worth = buildPoints + Total(ent)
  /\ Worth' = buildPoints' + Total(ent')
BY DEF Worth, Total, Standing, Stands

(* A team that replaces R by a t can pay, and loses less than a point for  *)
(* every building of it.                                                   *)
LEMMA PaidIsLeft ==
  ASSUME TypeOK, NEW t \in Types, NEW R, R \subseteq Standing(ent), CanAfford(t, R),
         NEW q \in SetToSeqs(R), NEW bp,
         bp = G_ModifyBuildPoints(Refunded(q), -MaxHealth * BuildPoints[t])
  PROVE  /\ bp + MaxHealth * BuildPoints[t] <= buildPoints + SumFunctionOnSet(PriceOf(ent), R)
         /\ (\A s \in R : ent[s].health > 0) =>
              /\ Left(t, R) >= 0
              /\ Left(t, R) - bp \in 0 .. Cardinality(R) * (MaxHealth - 1)
<1> DEFINE c == MaxHealth * BuildPoints[t]
           E == [s \in R |-> BuildPoints[ent[s].type] * ent[s].health]
           H == [s \in R |-> Refund(s)]
           F == PriceOf(ent)
           e == SumFunctionOnSet(E, R)
           h == SumFunctionOnSet(H, R)
           f == SumFunctionOnSet(F, R)
           k == MaxHealth - 1
           K == Cardinality(R) * k
<1>1. ent \in [Sites -> Entity] /\ buildPoints \in Nat
  BY DEF TypeOK
<1>2. /\ Refunded(q) \in Nat /\ f \in Int /\ h \in Int /\ Refunded(q) <= buildPoints + f
      /\ (\A s \in R : ent[s].health > 0) => Refunded(q) = buildPoints + h
  BY <1>1, RefundedAmounts
<1>3. c \in Nat
  <2>1. BuildPoints[t] \in Nat /\ MaxHealth \in Nat
    BY Amounts
  <2> QED
    BY <2>1, SMTT(20)
<1>4. bp = IF Refunded(q) - c < 0 THEN 0 ELSE Refunded(q) - c
  <2>1. -MaxHealth * BuildPoints[t] = -c
    <3>1. BuildPoints[t] \in Nat /\ MaxHealth \in Nat
      BY Amounts
    <3> QED
      BY <3>1, SMTT(20)
  <2> HIDE DEF c
  <2> QED
    BY <1>2, <1>3, <2>1 DEF G_ModifyBuildPoints
<1>5. R \subseteq Sites /\ IsFiniteSet(R) /\ R \in SUBSET R
  BY SomeSites DEF Standing
<1>6. \A s \in R : s \in Standing(ent) /\ s \in Sites /\ E[s] = Exact(s) /\ H[s] = Refund(s)
                   /\ F[s] = Price(s)
  BY <1>5 DEF Exact, Price, PriceOf, Standing
<1>7. \A s \in R : /\ E[s] \in Int /\ F[s] \in Int /\ H[s] \in Int /\ E[s] <= F[s]
                   /\ ent[s].health > 0 => E[s] - H[s] \in 0 .. k
  <2> SUFFICES ASSUME NEW s \in R
               PROVE  /\ E[s] \in Int /\ F[s] \in Int /\ H[s] \in Int /\ E[s] <= F[s]
                      /\ ent[s].health > 0 => E[s] - H[s] \in 0 .. k
    OBVIOUS
  <2>1. s \in Standing(ent)
    OBVIOUS
  <2>2. /\ Price(s) \in Nat /\ Exact(s) \in Int /\ Exact(s) <= Price(s) /\ Refund(s) \in Int
        /\ ent[s].health > 0 => Exact(s) - Refund(s) \in 0 .. k
    BY <1>1, <2>1, RefundIsPart
  <2> HIDE DEF E, F, H, k
  <2> QED
    BY <1>6, <2>2
<1>8. SumFunction(E) = e
  BY DEF SumFunction
<1>9. (IF c - e < 0 THEN 0 ELSE c - e) <= buildPoints /\ Left(t, R) = buildPoints - c + e
  BY <1>8 DEF CanAfford, Cost, Left
<1>10. k \in Nat
  BY Amounts
<1> HIDE DEF c, E, H, F, k
<1>11. e \in Int /\ e <= f
  <2>1. \A s \in R : E[s] \in Int
    BY <1>7
  <2>2. \A s \in R : F[s] \in Int /\ E[s] <= F[s]
    BY <1>7
  <2>3. e \in Int
    BY <1>5, <2>1, SumStep
  <2>4. e <= f
    BY <1>5, <2>1, <2>2, SumsCompare
  <2> QED
    BY <2>3, <2>4
<1>12. (\A s \in R : ent[s].health > 0) => e - h \in 0 .. K
  <2> SUFFICES ASSUME \A s \in R : ent[s].health > 0 PROVE e - h \in 0 .. K
    OBVIOUS
  <2>1. \A s \in R : E[s] \in Int /\ H[s] \in Int /\ E[s] - H[s] \in 0 .. k
    BY <1>7
  <2> QED
    BY <1>5, <1>10, <2>1, SumsApart
<1>13. K \in Int
  <2>1. Cardinality(R) \in Nat
    BY <1>5, FS_CardinalityType
  <2> QED
    BY <1>10, <2>1
<1> DEFINE r == Refunded(q)
<1>14. /\ r \in Nat /\ f \in Int /\ r <= buildPoints + f
       /\ (\A s \in R : ent[s].health > 0) => r = buildPoints + h
       /\ bp = IF r - c < 0 THEN 0 ELSE r - c
  BY <1>2, <1>4
<1> HIDE DEF e, f, h, K, r
<1>15. bp + c <= buildPoints + f
  BY <1>1, <1>3, <1>9, <1>11, <1>14
<1>16. ASSUME \A s \in R : ent[s].health > 0
       PROVE  Left(t, R) >= 0 /\ Left(t, R) - bp \in 0 .. K
  <2>1. r = buildPoints + h /\ e - h \in 0 .. K
    BY <1>12, <1>14, <1>16
  <2>2. h \in Int
    BY <1>2 DEF h
  <2> QED
    BY <1>1, <1>3, <1>9, <1>11, <1>13, <1>14, <2>1, <2>2
<1> QED
  BY <1>15, <1>16 DEF c, f, F, K, k

(* Two facts of arithmetic, without the state. *)
LEMMA AddBoth ==
  ASSUME NEW a \in Int, NEW b \in Int, NEW c \in Int, NEW f \in Int, NEW g \in Int,
         a + c <= b + f
  PROVE  a + (c + g) <= b + (f + g)
  OBVIOUS

LEMMA NotMore == ASSUME NEW a \in Int, NEW b \in Int PROVE a <= b => ~ (a > b)
  OBVIOUS

(* Without a mine nothing makes the team richer. *)
LEMMA NobodyGetsRicher ==
  ASSUME TypeOK, TypeOK', [Next]_vars, ~ \E power \in BOOLEAN : EndFrame(power, TRUE)
  PROVE  Worth' <= Worth
<1>1. ent \in [Sites -> Entity] /\ ent' \in [Sites -> Entity] /\ rc \in {None} \cup Sites
      /\ buildPoints \in Nat /\ buildPoints' \in Nat
  BY DEF TypeOK
<1>2. Total(ent) \in Int /\ Total(ent') \in Int
  BY <1>1, TotalIsSum
<1>3. ASSUME buildPoints' = buildPoints, \A s \in Sites : ent'[s].type = ent[s].type
      PROVE  Worth' <= Worth
  <2>1. Total(ent') = Total(ent)
    BY <1>1, <1>3, SameTotal
  <2> QED
    BY <1>1, <1>2, <1>3, <2>1, WorthIs
<1>4. CASE Frame
  <2>1. buildPoints' = buildPoints /\ (ent' \in PowerState \/ ent' = ent)
    BY <1>4 DEF Frame, EndFrame
  <2>2. \A s \in Sites : ent'[s].type = ent[s].type
    BY <1>1, <2>1, PowerStateIsAlike DEF Alike
  <2> QED
    BY <1>3, <2>1, <2>2
<1>5. ASSUME NEW b \in Sites, NEW t \in Types, Build(b, t) PROVE Worth' <= Worth
  <2>1. PICK allowed \in BOOLEAN : \E R \in Removals(b, t, allowed) : Replaces(b, t, R)
    BY <1>5 DEF Build, Replaces, Refunded
  <2>2. PICK R \in Removals(b, t, allowed) : Replaces(b, t, R)
    BY <2>1
  <2>3. R \subseteq Standing(ent) /\ CanAfford(t, R)
    BY <1>1, RemovalsAre
  <2>4. PICK q \in SetToSeqs(R) :
          buildPoints' = G_ModifyBuildPoints(Refunded(q), -MaxHealth * BuildPoints[t])
    BY <2>2 DEF Replaces
  <2> DEFINE c == MaxHealth * BuildPoints[t]
             f == SumFunctionOnSet(PriceOf(ent), R)
             g == SumFunctionOnSet(PriceOf(ent), Standing(ent) \ R)
  <2>5. buildPoints' + c <= buildPoints + f
    BY <2>3, <2>4, PaidIsLeft
  <2>6. f \in Int /\ g \in Int /\ Total(ent) = f + g
    BY <1>1, <2>3, TotalWithout
  <2>7. ent' = [Without(ent, R) EXCEPT ![b] = Built(t)] /\ (Stands(ent, b) => b \in R)
    BY <2>2 DEF Replaces
  <2>8. ent'[b] = Built(t) /\ Stands(ent', b) /\ ent'[b].type = t
    BY <1>1, <2>7, WithoutIsTyped, BuiltIsEntity, Amounts DEF Stands
  <2>9. \A s \in Sites : s # b => ent'[s].type = IF s \in R THEN "none" ELSE ent[s].type
    BY <1>1, <2>7, WithoutIsTyped DEF Without, Nothing
  <2>10. PriceOf(ent')[b] = c
    BY <2>8 DEF PriceOf
  <2>11. Total(ent') = c + g
    <3>1. InPlace(ent, R, ent', b)
      BY <2>7, <2>8, <2>9 DEF InPlace
    <3>2. Total(ent') = PriceOf(ent')[b] + g
      BY <1>1, <2>3, <3>1, TotalWith
    <3> QED
      BY <2>10, <3>2
  <2> DEFINE x == Total(ent)
             y == Total(ent')
  <2>12. /\ Worth = buildPoints + x /\ Worth' = buildPoints' + y /\ y = c + g /\ x = f + g
         /\ c \in Int
    <3>1. BuildPoints[t] \in Int /\ MaxHealth \in Int
      BY Amounts
    <3> QED
      BY <2>6, <2>11, <3>1, WorthIs
  <2> HIDE DEF c, f, g, x, y
  <2>13. buildPoints' + (c + g) <= buildPoints + (f + g)
    <3>1. buildPoints \in Int /\ buildPoints' \in Int
      BY <1>1
    <3>2. c \in Int
      BY <2>12
    <3> QED
      BY <2>5, <2>6, <3>1, <3>2, AddBoth
  <2> QED
    BY <2>12, <2>13
<1>6. ASSUME NEW s \in Sites, Stands(ent, s), ent' = Without(ent, {s}),
             buildPoints' <= buildPoints + Price(s)
      PROVE  Worth' <= Worth
  <2> DEFINE R == {s}
             f == SumFunctionOnSet(PriceOf(ent), R)
             g == SumFunctionOnSet(PriceOf(ent), Standing(ent) \ R)
  <2>1. R \subseteq Standing(ent)
    BY <1>6 DEF Standing
  <2>2. f \in Int /\ g \in Int /\ Total(ent) = f + g
    BY <1>1, <2>1, TotalWithout
  <2>3. f = Price(s)
    <3> DEFINE F == PriceOf(ent)
    <3>1. \A x \in R : F[x] \in Int
      BY <1>1, PricesAreNat
    <3>2. F[s] = Price(s) /\ F[s] \in Int /\ R \in SUBSET R /\ s \in R /\ R \ {s} = {}
          /\ IsFiniteSet(R)
      BY <1>6, <3>1, FS_Singleton DEF PriceOf, Price
    <3> HIDE DEF F, R
    <3>3. SumFunctionOnSet(F, R) = F[s] + SumFunctionOnSet(F, R \ {s})
      BY <3>1, <3>2, SumStep
    <3>4. SumFunctionOnSet(F, {}) = 0
      BY <3>1, <3>2, SumStep
    <3> QED
      BY <3>2, <3>3, <3>4 DEF F
  <2>4. Total(ent') = g
    <3>1. Standing(ent') = Standing(ent) \ R
      BY <1>6 DEF Without, Standing, Stands, Nothing
    <3> DEFINE S == Standing(ent) \ R
               F == PriceOf(ent)
               H == PriceOf(ent')
    <3>2. IsFiniteSet(S) /\ S \subseteq Sites
      BY SomeSites DEF Standing
    <3>3. \A x \in S : F[x] \in Int /\ H[x] = F[x]
      <4>1. \A x \in S : F[x] \in Int
        BY <1>1, <3>2, PricesAreNat
      <4>2. \A x \in S : H[x] = F[x]
        BY <1>6, <3>2 DEF PriceOf, Without, Stands
      <4> QED
        BY <4>1, <4>2
    <3>4. Total(ent') = SumFunctionOnSet(H, S)
      BY <1>1, <3>1, TotalIsSum
    <3> HIDE DEF S, F, H
    <3>5. SumFunctionOnSet(F, S) = SumFunctionOnSet(H, S)
      BY <3>2, <3>3, SumsAgree
    <3> QED
      BY <3>4, <3>5 DEF F, S
  <2> DEFINE x == Total(ent)
             y == Total(ent')
             p == Price(s)
  <2>5. /\ Worth = buildPoints + x /\ Worth' = buildPoints' + y /\ y = g /\ x = f + g
        /\ buildPoints' <= buildPoints + p /\ f = p
    BY <1>6, <2>2, <2>3, <2>4, WorthIs
  <2> HIDE DEF f, g, x, y, p
  <2>6. buildPoints' + (0 + g) <= buildPoints + (f + g)
    <3>1. buildPoints \in Int /\ buildPoints' \in Int /\ 0 \in Int
      BY <1>1
    <3>2. buildPoints' + 0 <= buildPoints + f
      BY <2>5, <3>1
    <3> QED
      BY <2>2, <3>1, <3>2, AddBoth
  <2> QED
    <3>1. 0 + g = g
      BY <2>2
    <3>2. Worth = buildPoints + (f + g) /\ Worth' = buildPoints' + (0 + g)
      BY <2>5, <3>1
    <3> QED
      BY <2>6, <3>2
<1>7. ASSUME NEW s \in Sites,
             \/ ToggleMark(s) \/ Deconstruct(s) \/ Gone(s) \/ Grow(s)
             \/ \E health \in {-1} \cup 1 .. (MaxHealth - 1) : Damage(s, health)
      PROVE  Worth' <= Worth
  <2>1. CASE ToggleMark(s)
    BY <1>1, <1>3, <2>1 DEF ToggleMark, Entity
  <2>2. CASE Deconstruct(s)
    <3>1. CASE ent[s].type = "spawn" /\ numSpawns <= 1
      BY <1>1, <1>3, <2>2, <3>1 DEF Deconstruct, Entity
    <3>2. CASE ~(ent[s].type = "spawn" /\ numSpawns <= 1)
      <4>1. Stands(ent, s) /\ ent' = Without(ent, {s})
            /\ buildPoints' = G_ModifyBuildPoints(buildPoints, Refund(s))
        BY <2>2, <3>2 DEF Deconstruct, Alive
      <4>2. Price(s) \in Nat /\ Refund(s) \in Int /\ Refund(s) <= Price(s)
        BY <1>1, <4>1, RefundIsPart DEF Standing
      <4> DEFINE p == Price(s)
                 r == Refund(s)
      <4>3. buildPoints' <= buildPoints + p
        <5>1. p \in Nat /\ r \in Int /\ r <= p /\ buildPoints' = G_ModifyBuildPoints(buildPoints, r)
          BY <4>1, <4>2
        <5> HIDE DEF p, r
        <5> QED
          BY <1>1, <5>1 DEF G_ModifyBuildPoints
      <4> QED
        BY <1>6, <4>1, <4>3
    <3> QED
      BY <3>1, <3>2
  <2>3. CASE Gone(s)
    <3>1. Stands(ent, s) /\ ent' = Without(ent, {s}) /\ buildPoints' = buildPoints
      BY <2>3 DEF Gone
    <3>2. Price(s) \in Nat
      BY <1>1, <3>1, RefundIsPart DEF Standing
    <3>3. buildPoints' <= buildPoints + Price(s)
      BY <1>1, <3>1, <3>2
    <3> QED
      BY <1>6, <3>1, <3>3
  <2>4. CASE Grow(s)
    BY <1>1, <1>3, <2>4 DEF Grow, Entity
  <2>5. CASE \E health \in {-1} \cup 1 .. (MaxHealth - 1) : Damage(s, health)
    BY <1>1, <1>3, <2>5 DEF Damage, Entity
  <2> QED
    BY <1>7, <2>1, <2>2, <2>3, <2>4, <2>5
<1>8. CASE LookForReactor
  BY <1>3, <1>8 DEF LookForReactor
<1>9. CASE UNCHANGED vars
  BY <1>3, <1>9 DEF vars
<1> QED
  BY <1>4, <1>5, <1>7, <1>8, <1>9 DEF Next

(* Build points are neither made nor lost: only mining makes a team        *)
(* richer, and what is replaced pays for what is built to less than a      *)
(* point each (G_ModifyBuildPoints, G_FreeMarkedBuildables and the cost    *)
(* that PrepareBuildableReplacement computes).                             *)
THEOREM PointsAreNeitherMadeNorLost == Spec => PointsAreKept
<1>1. TypeOK /\ TypeOK' /\ [Next]_vars =>
     [/\ Worth' > Worth => \E power \in BOOLEAN : EndFrame(power, TRUE)
      /\ WheneverBuilt(LAMBDA b, t, R :
           (\A s \in R : ent[s].health > 0) =>
             /\ Left(t, R) >= 0
             /\ Left(t, R) - buildPoints' \in 0 .. Cardinality(R) * (MaxHealth - 1))]_vars
  <2> SUFFICES ASSUME TypeOK, TypeOK', [Next]_vars
               PROVE  /\ Worth' > Worth => \E power \in BOOLEAN : EndFrame(power, TRUE)
                      /\ WheneverBuilt(LAMBDA b, t, R :
                           (\A s \in R : ent[s].health > 0) =>
                             /\ Left(t, R) >= 0
                             /\ Left(t, R) - buildPoints' \in 0 .. Cardinality(R) * (MaxHealth - 1))
    OBVIOUS
  <2>1. Worth' > Worth => \E power \in BOOLEAN : EndFrame(power, TRUE)
    <3>1. Worth \in Int /\ Worth' \in Int
      <4>1. Total(ent) \in Int /\ Total(ent') \in Int /\ buildPoints \in Int /\ buildPoints' \in Int
        BY TotalIsSum DEF TypeOK
      <4> QED
        BY <4>1, WorthIs
    <3>2. (~ \E power \in BOOLEAN : EndFrame(power, TRUE)) => Worth' <= Worth
      BY NobodyGetsRicher, Zenon
    <3>3. Worth' <= Worth => ~ (Worth' > Worth)
      BY <3>1, NotMore
    <3> QED
      BY <3>2, <3>3, Zenon
  <2>2. ASSUME NEW b \in Sites, New(b), \A s \in Replaced(b) : ent[s].health > 0
        PROVE  /\ Left(ent'[b].type, Replaced(b)) >= 0
               /\ Left(ent'[b].type, Replaced(b)) - buildPoints'
                    \in 0 .. Cardinality(Replaced(b)) * (MaxHealth - 1)
    <3> DEFINE t == ent'[b].type
               R == Replaced(b)
    <3>1. /\ t \in Types /\ Replaces(b, t, R)
          /\ \E allowed \in BOOLEAN : R \in Removals(b, t, allowed)
      BY <2>2, NewReplacesRemovals
    <3> HIDE DEF t
    <3>2. R \subseteq Standing(ent) /\ CanAfford(t, R)
      BY <3>1, RemovalsAre DEF TypeOK
    <3>3. PICK q \in SetToSeqs(R) :
            buildPoints' = G_ModifyBuildPoints(Refunded(q), -MaxHealth * BuildPoints[t])
      BY <3>1 DEF Replaces
    <3> HIDE DEF R
    <3>4. Left(t, R) >= 0 /\ Left(t, R) - buildPoints' \in 0 .. Cardinality(R) * (MaxHealth - 1)
      <4>1. \A s \in R : ent[s].health > 0
        BY <2>2 DEF R
      <4> QED
        BY <3>1, <3>2, <3>3, <4>1, PaidIsLeft
    <3> QED
      BY <3>4 DEF R, t
  <2> QED
    BY <2>1, <2>2 DEF WheneverBuilt, New, Replaced
<1> QED
  BY <1>1, BuildableTypes, PTL DEF Spec, PointsAreKept

-----------------------------------------------------------------------------
(* Power.                                                                  *)

(* It is as far from one site to another as back. *)
LEMMA AsFarBack ==
  ASSUME NEW s \in Sites, NEW n \in Sites
  PROVE  Distance(s, n) = Distance(n, s)
<1>1. Position[s] \in Nat /\ Position[n] \in Nat
  BY SitesAreFinite
<1> QED
  BY <1>1 DEF Distance

(* What a building takes of its neighbours' power is not positive. *)
LEMMA TakenIsNegative ==
  ASSUME NEW p \in Nat, NEW d \in Nat
  PROVE  Influence(-p, CompetitionRange, d) <= 0
<1> DEFINE k == CompetitionRange
           u == UNIT \div k
           r == UNIT % k
<1>1. k \in Nat \ {0} /\ UNIT \in Nat
  BY Amounts
<1>2. u \in Int /\ r \in 0 .. (k - 1) /\ UNIT = k * u + r
  <2> HIDE DEF k
  <2> QED
    BY <1>1, Rounds
<1>3. Influence(-p, k, d) = IF d < k THEN (-p) * (k - d) * u ELSE 0
  BY DEF Influence
<1> HIDE DEF k, u, r
<1>4. u >= 0
  <2> SUFFICES ASSUME u <= -1 PROVE FALSE
    BY <1>2
  <2>1. k * u <= -k /\ k * u \in Int
    BY <1>1, <1>2, SMTT(20)
  <2> DEFINE m == k * u
  <2>2. m <= -k /\ m \in Int /\ UNIT = m + r
    BY <1>2, <2>1
  <2> HIDE DEF m
  <2> QED
    BY <1>1, <1>2, <2>2
<1>5. ASSUME d < k PROVE (-p) * (k - d) * u <= 0
  <2> DEFINE c == k - d
             a == p * c
  <2>1. c \in Nat
    BY <1>1, <1>5
  <2> HIDE DEF c
  <2>2. a \in Nat
    BY <2>1, SMTT(20)
  <2>3. (-p) * c = -a
    BY <2>1, SMTT(20)
  <2> HIDE DEF a
  <2>4. (-a) * u <= 0
    BY <1>2, <1>4, <2>2, SMTT(20)
  <2>5. ((-p) * c) * u <= 0
    BY <2>3, <2>4
  <2> QED
    BY <2>5 DEF c
<1> QED
  BY <1>3, <1>5 DEF k

(* What every building there is gives one of type t at s. *)
Given(e, t, s) ==
  [n \in Standing(e) |-> IncomingInterference(t, e[n], Distance(s, n), TRUE)]

LEMMA GivenIs ==
  ASSUME NEW e \in [Sites -> Entity], NEW t \in Types, NEW s \in Sites
  PROVE  /\ \A n \in Standing(e) : Given(e, t, s)[n] \in Int
         /\ \A n \in Standing(e) : e[n].type \notin Sources => Given(e, t, s)[n] <= 0
<1> SUFFICES ASSUME NEW n \in Standing(e)
             PROVE  /\ IncomingInterference(t, e[n], Distance(s, n), TRUE) \in Int
                    /\ e[n].type \notin Sources
                         => IncomingInterference(t, e[n], Distance(s, n), TRUE) <= 0
  BY DEF Given
<1>1. n \in Sites /\ e[n] \in Entity /\ e[n].type \in Types
  BY DEF Standing, Stands, Entity
<1>2. Distance(s, n) \in Nat
  BY <1>1, DistanceIsNat
<1>3. IncomingInterference(t, e[n], Distance(s, n), TRUE) \in Int
  <2> DEFINE x == e[n]
             d == Distance(s, n)
  <2>1. x \in Entity /\ x.type \in Types /\ d \in Int
    BY <1>1, <1>2
  <2> HIDE DEF x, d
  <2>2. IncomingInterference(t, x, d, TRUE) \in Int
    BY <2>1, IncomingIsInt
  <2> QED
    BY <2>2 DEF x, d
<1>4. ASSUME e[n].type \notin Sources
      PROVE  IncomingInterference(t, e[n], Distance(s, n), TRUE) <= 0
  <2>1. Influence(-PowerConsumption[e[n].type], CompetitionRange, Distance(s, n)) <= 0
    BY <1>1, <1>2, Amounts, TakenIsNegative
  <2> QED
    BY <1>4, <2>1 DEF IncomingInterference
<1> QED
  BY <1>3, <1>4

(* The sums in the model are sums of it. *)
SumGiven(d, t, s, N) ==
  SumFunction([n \in N |-> IncomingInterference(t, d[n], Distance(s, n), TRUE)])

SameThere(d, e, N) == N \subseteq Standing(e) /\ \A n \in N : d[n] = e[n]

LEMMA GivenBy ==
  ASSUME NEW e \in [Sites -> Entity], NEW t \in Types, NEW s \in Sites,
         NEW d, NEW N, SameThere(d, e, N)
  PROVE  SumGiven(d, t, s, N) = SumFunctionOnSet(Given(e, t, s), N)
<1> DEFINE F == [n \in N |-> IncomingInterference(t, d[n], Distance(s, n), TRUE)]
           H == Given(e, t, s)
<1>0. N \subseteq Standing(e) /\ \A n \in N : d[n] = e[n]
  BY DEF SameThere
<1>1. \A n \in N : H[n] \in Int
  BY <1>0, GivenIs
<1>2. \A n \in N : F[n] = H[n]
  BY <1>0 DEF Given
<1>3. IsFiniteSet(N)
  <2>1. N \subseteq Sites
    BY <1>0 DEF Standing
  <2> QED
    BY <2>1, SomeSites
<1>4. SumFunction(F) = SumFunctionOnSet(F, N)
  BY DEF SumFunction
<1> HIDE DEF F, H
<1>5. SumFunctionOnSet(H, N) = SumFunctionOnSet(F, N)
  BY <1>1, <1>2, <1>3, SumsAgree
<1> QED
  BY <1>4, <1>5 DEF F, H, SumGiven

(* Without some of those that only take there is more. *)
OnlyTake(e, N, R) ==
  N \subseteq Standing(e) /\ R \subseteq N /\ \A n \in N \ R : e[n].type \notin Sources

SumsMore(F, N, R) ==
  /\ SumFunctionOnSet(F, N) \in Int /\ SumFunctionOnSet(F, R) \in Int
  /\ SumFunctionOnSet(F, N \ R) \in Int /\ SumFunctionOnSet(F, N \ R) <= 0
  /\ SumFunctionOnSet(F, N) = SumFunctionOnSet(F, R) + SumFunctionOnSet(F, N \ R)

LEMMA MoreWithout ==
  ASSUME NEW e \in [Sites -> Entity], NEW t \in Types, NEW s \in Sites,
         NEW N, NEW R, OnlyTake(e, N, R)
  PROVE  SumsMore(Given(e, t, s), N, R)
<1> DEFINE F == Given(e, t, s)
<1>0. N \subseteq Standing(e) /\ R \subseteq N /\ \A n \in N \ R : e[n].type \notin Sources
  BY DEF OnlyTake
<1>1. \A n \in N : F[n] \in Int
  BY <1>0, GivenIs
<1>2. \A n \in N \ R : F[n] \in Int /\ F[n] <= 0
  <2>1. \A n \in Standing(e) : e[n].type \notin Sources => F[n] <= 0
    BY GivenIs
  <2> HIDE DEF F
  <2> QED
    BY <1>0, <1>1, <2>1
<1>3. IsFiniteSet(N) /\ IsFiniteSet(N \ R)
  <2>1. N \subseteq Sites
    BY <1>0 DEF Standing
  <2> QED
    BY <2>1, SomeSites
<1> HIDE DEF F
<1>4. \A S \in SUBSET N : SumFunctionOnSet(F, S) \in Int
  BY <1>1, <1>3, SumStep
<1>5. N \in SUBSET N /\ R \in SUBSET N
  BY <1>0
<1>6. SumFunctionOnSet(F, N \ R) \in Int /\ SumFunctionOnSet(F, N \ R) <= 0
  BY <1>2, <1>3, SumNotPositive
<1>7. SumFunctionOnSet(F, N) = SumFunctionOnSet(F, R) + SumFunctionOnSet(F, N \ R)
  BY <1>0, <1>1, <1>3, SumSplits
<1> QED
  BY <1>4, <1>5, <1>6, <1>7 DEF F, SumsMore

(* What is built and what stays has the power that was predicted when only *)
(* R2 was to go: without the others, too, there is more. *)
LEMMA PlacedHasPower ==
  ASSUME ent \in [Sites -> Entity], Fresh(ent), NEW b \in Sites, NEW t \in Types, t \notin Sources,
         NEW R, R \subseteq Standing(ent), \A s \in R : ent[s].type \notin Sources,
         NEW R2, R2 \subseteq R, PredictBuildablePower(b, t, R2), Stands(ent, b) => b \in R,
         NEW d, d = [Without(ent, R) EXCEPT ![b] = Built(t)],
         NEW n \in Standing(d), d[n].type \notin Sources, Distance(b, n) < CompetitionRange
  PROVE  Expected(d, n) >= 0
<1> DEFINE N == Standing(ent) \ R
           N2 == Standing(ent) \ R2
<1>1. /\ b \notin N /\ d[b] = Built(t) /\ d[b].type = t
      /\ \A m \in N : d[m] = ent[m] /\ m \in Sites
  BY WithoutIsTyped, BuiltIsEntity DEF Standing, Without
<1>2. Standing(d) = N \cup {b}
  <2>1. \A s \in Sites : s # b => d[s] = IF s \in R THEN Nothing ELSE ent[s]
    BY WithoutIsTyped DEF Without
  <2>2. Stands(d, b)
    BY <1>1, Amounts DEF Stands
  <2>3. \A s \in Sites : s # b => (Stands(d, s) <=> Stands(ent, s) /\ s \notin R)
    BY <2>1 DEF Stands, Nothing
  <2> QED
    BY <1>1, <2>2, <2>3 DEF Standing
<1>3. OnlyTake(ent, N2, N) /\ SameThere(ent, ent, N2) /\ SameThere(d, ent, N)
  BY <1>1 DEF OnlyTake, SameThere
<1>4. Expected(d, n) = OwnSupply(d[n].type) +
        SumGiven(d, d[n].type, n, Standing(d) \ {n})
  BY DEF Expected, SparePower, SumGiven
<1>5. CASE n = b
  <2> DEFINE own == OwnSupply(t)
             F == Given(ent, t, b)
             f == SumFunctionOnSet(F, N)
             f2 == SumFunctionOnSet(F, N2)
  <2>1. own \in Int
    BY Amounts DEF OwnSupply
  <2>2. f \in Int /\ f2 \in Int /\ f2 <= f
    <3>1. f2 \in Int /\ f \in Int /\ SumFunctionOnSet(F, N2 \ N) \in Int
          /\ SumFunctionOnSet(F, N2 \ N) <= 0 /\ f2 = f + SumFunctionOnSet(F, N2 \ N)
      <4> HIDE DEF N, N2
      <4>1. SumsMore(F, N2, N)
        BY <1>3, MoreWithout
      <4> QED
        BY <4>1 DEF SumsMore
    <3> HIDE DEF f, f2
    <3> QED
      BY <3>1
  <2>3. own + f2 >= 0
    <3>1. own + SumGiven(ent, t, b, N2) >= 0
      BY DEF PredictBuildablePower, SumGiven
    <3>2. SumGiven(ent, t, b, N2) = f2
      <4> HIDE DEF N2
      <4> QED
        BY <1>3, GivenBy
    <3> QED
      BY <3>1, <3>2
  <2>4. Expected(d, n) = own + f
    <3>1. Standing(d) \ {n} = N
      BY <1>1, <1>2, <1>5
    <3> HIDE DEF N
    <3>2. SumGiven(d, t, b, N) = f
      BY <1>1, <1>3, GivenBy
    <3>3. Expected(d, n) = own + SumGiven(d, t, b, N)
      BY <1>1, <1>4, <1>5, <3>1
    <3> QED
      BY <3>2, <3>3
  <2> HIDE DEF own, f, f2
  <2> QED
    BY <2>1, <2>2, <2>3, <2>4
<1>6. CASE n # b
  <2> DEFINE u == ent[n].type
             M == N \ {n}
             F == Given(ent, u, n)
             own == OwnSupply(u)
             out == OutgoingInterference(t, ent[n], Distance(b, n))
             f == SumFunctionOnSet(F, M)
             r == SumFunctionOnSet(F, R)
             r2 == SumFunctionOnSet(F, R2)
  <2>1. n \in N /\ n \in N2 /\ n \in Sites /\ n \in Standing(ent) /\ d[n] = ent[n]
        /\ u \in Types /\ u \notin Sources
    BY <1>1, <1>2, <1>6 DEF Standing, Stands, Entity
  <2>2. own \in Int
    BY <2>1, Amounts DEF OwnSupply
  <2>3. f \in Int /\ r \in Int /\ r2 \in Int /\ r <= r2 /\ r <= 0
    <3>1. r \in Int /\ r <= 0
      <4>1. R \ {} = R /\ OnlyTake(ent, R, {})
        BY DEF OnlyTake
      <4>2. SumsMore(F, R, {})
        BY <2>1, <4>1, MoreWithout
      <4> QED
        BY <4>1, <4>2 DEF SumsMore
    <3>2. r2 \in Int /\ SumFunctionOnSet(F, R \ R2) \in Int /\ SumFunctionOnSet(F, R \ R2) <= 0
          /\ r = r2 + SumFunctionOnSet(F, R \ R2)
      <4>1. OnlyTake(ent, R, R2)
        BY DEF OnlyTake
      <4>2. SumsMore(F, R, R2)
        BY <2>1, <4>1, MoreWithout
      <4> QED
        BY <4>2 DEF SumsMore
    <3>3. f \in Int
      <4>1. OnlyTake(ent, M, M)
        BY DEF OnlyTake
      <4> HIDE DEF M
      <4>2. SumsMore(F, M, M)
        BY <2>1, <4>1, MoreWithout
      <4> QED
        BY <4>2 DEF SumsMore
    <3> HIDE DEF f, r, r2
    <3> QED
      BY <3>1, <3>2, <3>3
  <2>4. Expected(ent, n) = own + (f + r)
    <3> DEFINE O == Standing(ent) \ {n}
    <3>1. SameThere(ent, ent, O) /\ OnlyTake(ent, O, M) /\ O \ M = R
      BY <2>1 DEF SameThere, OnlyTake
    <3>2. Expected(ent, n) = own + SumGiven(ent, u, n, O)
      BY <2>1 DEF Expected, SparePower, SumGiven
    <3> HIDE DEF O, M
    <3>3. SumGiven(ent, u, n, O) = SumFunctionOnSet(F, O)
      BY <2>1, <3>1, GivenBy
    <3>4. SumFunctionOnSet(F, O) = SumFunctionOnSet(F, M) + SumFunctionOnSet(F, O \ M)
      <4>1. SumsMore(F, O, M)
        BY <2>1, <3>1, MoreWithout
      <4> QED
        BY <4>1 DEF SumsMore
    <3> QED
      BY <3>1, <3>2, <3>3, <3>4
  <2>5. out \in Int /\ Expected(d, n) = own + (out + f)
    <3> DEFINE O == Standing(d) \ {n}
               H == [m \in O |-> IncomingInterference(u, d[m], Distance(n, m), TRUE)]
    <3>1. O = M \cup {b} /\ b \notin M /\ b \in O /\ O \ {b} = M /\ IsFiniteSet(O) /\ O \subseteq Sites
      <4>1. O = M \cup {b} /\ b \notin M
        BY <1>1, <1>2, <1>6
      <4>2. O \subseteq Sites
        BY DEF Standing
      <4> HIDE DEF O, M
      <4> QED
        BY <4>1, <4>2, SomeSites
    <3>2. Expected(d, n) = own + SumFunction(H)
      <4>1. SumGiven(d, u, n, O) = SumFunction(H)
        BY DEF SumGiven
      <4>2. Expected(d, n) = own + SumGiven(d, u, n, O)
        BY <1>4, <2>1
      <4> QED
        BY <4>1, <4>2
    <3>3. SumFunction(H) = SumFunctionOnSet(H, O)
      BY DEF SumFunction
    <3>4. H[b] = out
      <4>1. H[b] = IncomingInterference(u, Built(t), Distance(n, b), TRUE)
        BY <1>1, <3>1
      <4>2. IncomingInterference(u, Built(t), Distance(n, b), TRUE)
              = Influence(-PowerConsumption[t], CompetitionRange, Distance(n, b))
        BY <2>1, BuiltIsEntity DEF IncomingInterference
      <4>3. out = Influence(-PowerConsumption[t], CompetitionRange, Distance(b, n))
        BY <2>1 DEF OutgoingInterference
      <4>4. Distance(n, b) = Distance(b, n)
        BY <2>1, AsFarBack
      <4> QED
        BY <4>1, <4>2, <4>3, <4>4
    <3>5. out \in Int
      <4>1. -PowerConsumption[t] \in Int /\ CompetitionRange \in Nat \ {0}
        BY Amounts
      <4>2. Distance(b, n) \in Int
        BY <2>1, DistanceIsNat
      <4>3. Influence(-PowerConsumption[t], CompetitionRange, Distance(b, n)) \in Int
        BY <4>1, <4>2, InfluenceIsInt
      <4> QED
        BY <2>1, <4>3 DEF OutgoingInterference
    <3>6. M \subseteq Standing(ent) /\ (\A m \in M : F[m] \in Int) /\ IsFiniteSet(M)
          /\ \A m \in M : H[m] = F[m]
      <4>1. M \subseteq Standing(ent)
        OBVIOUS
      <4>2. \A m \in Standing(ent) : F[m] \in Int
        BY <2>1, GivenIs
      <4>3. ASSUME NEW m \in M PROVE H[m] = F[m]
        <5>1. m \in O /\ m \in Standing(ent) /\ d[m] = ent[m]
          BY <1>1, <3>1, <4>1
        <5>2. F[m] = IncomingInterference(u, ent[m], Distance(n, m), TRUE)
          BY <5>1 DEF Given
        <5>3. H[m] = IncomingInterference(u, d[m], Distance(n, m), TRUE)
          BY <5>1
        <5> QED
          BY <5>1, <5>2, <5>3
      <4>4. M \subseteq Sites
        BY <4>1 DEF Standing
      <4>5. IsFiniteSet(M)
        BY <4>4, SomeSites
      <4> HIDE DEF F, H, M
      <4> QED
        BY <4>1, <4>2, <4>3, <4>5
    <3> HIDE DEF H, F, M, O, out
    <3>7. SumFunctionOnSet(F, M) = SumFunctionOnSet(H, M)
      BY <3>6, SumsAgree
    <3>8. \A m \in O : H[m] \in Int
      BY <3>1, <3>4, <3>5, <3>6
    <3>9. O \in SUBSET O
      OBVIOUS
    <3>10. SumFunctionOnSet(H, O) = H[b] + SumFunctionOnSet(H, O \ {b})
      BY <3>1, <3>8, <3>9, SumStep
    <3> QED
      BY <3>1, <3>2, <3>3, <3>4, <3>5, <3>7, <3>10 DEF M, F
  <2>6. own + (f + r) + out >= 0 \/ own + (f + r) + out - r2 >= 0
    <3> DEFINE nb == ent[n].expectedSparePower + out
               freed == SumGiven(ent, u, n, R2)
    <3>1. nb < 0 => nb - freed >= 0
      BY <2>1 DEF PredictBuildablePower, SumGiven
    <3>2. ent[n].expectedSparePower = own + (f + r)
      BY <2>1, <2>4 DEF Fresh
    <3>3. freed = r2
      <4>1. SameThere(ent, ent, R2)
        BY DEF SameThere
      <4> QED
        BY <2>1, <4>1, GivenBy
    <3> HIDE DEF own, f, r, r2, out, freed
    <3> QED
      BY <2>2, <2>3, <2>5, <3>1, <3>2, <3>3
  <2> HIDE DEF own, f, r, r2, out
  <2>7. own + (out + f) >= 0
    BY <2>2, <2>3, <2>5, <2>6
  <2> QED
    BY <2>5, <2>7
<1> QED
  BY <1>5, <1>6

(* A new building that leaves the power sources alone has power, and those *)
(* it competes with have too (PredictBuildablePower, on the last power     *)
(* state, of what PrepareBuildableReplacement removes at least).           *)
THEOREM PlacedBuildingsHavePower == Spec => PlacementKeepsPower
<1>1. TypeOK /\ TypeOK' /\ [Next]_vars =>
        [WheneverBuilt(LAMBDA b, t, R :
           Fresh(ent) /\ ({t} \cup {ent[s].type : s \in R}) \cap Sources = {} =>
             \A n \in Standing(ent') :
               ent'[n].type \notin Sources /\ Distance(b, n) < CompetitionRange => Expected(ent', n) >= 0)]_vars
  <2> SUFFICES ASSUME TypeOK, TypeOK', [Next]_vars, NEW b \in Sites, New(b), Fresh(ent),
                      ({ent'[b].type} \cup {ent[s].type : s \in Replaced(b)}) \cap Sources = {},
                      NEW n \in Standing(ent'), ent'[n].type \notin Sources,
                      Distance(b, n) < CompetitionRange
               PROVE  Expected(ent', n) >= 0
    BY DEF WheneverBuilt, New, Replaced
  <2> DEFINE t == ent'[b].type
             R == Replaced(b)
             d == ent'
  <2>1. /\ t \in Types /\ Replaces(b, t, R)
        /\ \E allowed \in BOOLEAN : R \in Removals(b, t, allowed)
    BY NewReplacesRemovals
  <2>2. t \notin Sources /\ \A s \in R : ent[s].type \notin Sources
    OBVIOUS
  <2>3. n \in Standing(d) /\ d[n].type \notin Sources
    OBVIOUS
  <2> HIDE DEF t, R
  <2>4. R \subseteq Standing(ent) /\ \E R2 \in SUBSET R : PredictBuildablePower(b, t, R2)
    BY <2>1, RemovalsAre DEF TypeOK
  <2>5. PICK R2 \in SUBSET R : PredictBuildablePower(b, t, R2)
    BY <2>4
  <2>6. d = [Without(ent, R) EXCEPT ![b] = Built(t)] /\ (Stands(ent, b) => b \in R)
    BY <2>1 DEF Replaces
  <2>7. ent \in [Sites -> Entity]
    BY DEF TypeOK
  <2> HIDE DEF d
  <2>8. Expected(d, n) >= 0
    BY <2>1, <2>2, <2>3, <2>4, <2>5, <2>6, <2>7, PlacedHasPower
  <2> QED
    BY <2>8 DEF d
<1> QED
  BY <1>1, BuildableTypes, PTL DEF Spec, PlacementKeepsPower
===============================================================================

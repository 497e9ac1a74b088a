----------------------------- MODULE Lemmas_proof -----------------------------
(***************************************************************************)
(* Facts that several proofs rest on: numbers kept in a ring, the one      *)
(* numbered n in the place n % size, as the frames and snapshots of both   *)
(* ends and the reliable commands are; least numbers and smallest sets;    *)
(* and folds and sums over finite sets.                                    *)
(*                                                                         *)
(* The induction theorems of the library take the property as an operator, *)
(* which the provers cannot instantiate.  Least, Smallest and FirstBad     *)
(* take a set instead, that of the numbers or parts that lack it.          *)
(***************************************************************************)
EXTENDS Integers, FiniteSetTheorems, WellFoundedInduction, Functions, TLAPS

(* A number is so many rounds of the ring and a place in it. *)
LEMMA Rounds ==
  ASSUME NEW size \in Nat \ {0}, NEW n \in Int
  PROVE  /\ n % size \in 0 .. (size - 1) /\ n \div size \in Int
         /\ n = size * (n \div size) + (n % size)
  BY SMTT(20)

(* One round more is size numbers more. *)
LEMMA RoundsApart ==
  ASSUME NEW size \in Nat \ {0}, NEW x \in Int, NEW y \in Int, x < y
  PROVE  size * y >= size * x + size
<1>1. y >= x + 1
  OBVIOUS
<1>2. size * y >= size * (x + 1)
  BY <1>1, SMTT(20)
<1>3. size * (x + 1) = size * x + size
  BY SMTT(20)
<1>. QED
  BY <1>2, <1>3

(* Numbers less than size apart have places of their own. *)
LEMMA PlacesDiffer ==
  ASSUME NEW size \in Nat \ {0}, NEW a \in Int, NEW b \in Int, a < b, b - a < size
  PROVE  a % size # b % size
<1>. SUFFICES ASSUME a % size = b % size PROVE FALSE
  OBVIOUS
<1>. DEFINE x == a \div size
            y == b \div size
            r == a % size
<1>1. x \in Int /\ r \in Int /\ a = size * x + r
  BY Rounds
<1>2. y \in Int /\ b = size * y + r
  BY Rounds
<1>. HIDE DEF x, y, r
<1>3. size * x < size * y /\ size * y < size * x + size
  BY <1>1, <1>2, SMTT(20)
<1>4. CASE x < y
  BY <1>1, <1>2, <1>3, <1>4, RoundsApart
<1>5. CASE y <= x
  BY <1>1, <1>2, <1>3, <1>5, RoundsApart
<1>. QED
  BY <1>1, <1>2, <1>4, <1>5

(* The place of a number is what is left of its rounds. *)
LEMMA PlaceOf ==
  ASSUME NEW size \in Nat \ {0}, NEW x \in Int, NEW s \in 0 .. (size - 1)
  PROVE  size * x \in Int /\ (size * x + s) % size = s
<1>1. size * x \in Int
  BY SMTT(20)
<1>. DEFINE n == size * x + s
            y == n \div size
            r == n % size
<1>2. n \in Int /\ s \in Int /\ 0 <= s /\ s < size
  BY <1>1
<1>3. y \in Int /\ r \in 0 .. (size - 1) /\ n = size * y + r
  <2>. HIDE DEF n
  <2>. QED
    BY <1>2, Rounds
<1>4. PICK a, b : a = size * x /\ b = size * y
  OBVIOUS
<1>5. b \in Int
  <2>. HIDE DEF y
  <2>. QED
    BY <1>3, <1>4, SMTT(20)
<1>6. a \in Int /\ a + s = b + r
  <2>. HIDE DEF y, r
  <2>. QED
    BY <1>1, <1>3, <1>4
<1>. HIDE DEF y, r
<1>7. ~(x < y) /\ ~(y < x)
  <2>1. x < y => b >= a + size
    BY <1>3, <1>4, RoundsApart
  <2>2. y < x => a >= b + size
    BY <1>3, <1>4, RoundsApart
  <2>. QED
    BY <1>2, <1>3, <1>5, <1>6, <2>1, <2>2
<1>8. x = y
  BY <1>3, <1>7
<1>9. r = s
  BY <1>2, <1>3, <1>4, <1>5, <1>6, <1>8
<1>. QED
  BY <1>1, <1>9 DEF r

(* Every other place is that of one of the size - 1 numbers before. *)
LEMMA PlaceBefore ==
  ASSUME NEW size \in Nat \ {0}, NEW q \in Int, NEW s \in 0 .. (size - 1), s # q % size
  PROVE  \E k \in (q - (size - 1)) .. (q - 1) : k % size = s
<1>1. PICK x \in Int, r \in 0 .. (size - 1) : q = size * x + r /\ r # s
  BY Rounds
<1>2. PICK a \in Int : a = size * x
  BY PlaceOf
<1>3. CASE s < r
  <2>1. (a + s) % size = s
    BY <1>2, PlaceOf
  <2>2. a + s \in (q - (size - 1)) .. (q - 1)
    BY <1>1, <1>2, <1>3
  <2>. QED
    BY <2>1, <2>2
<1>4. CASE r < s
  <2>1. x - 1 \in Int /\ size * (x - 1) = a - size
    BY <1>2, SMTT(20)
  <2>2. (size * (x - 1) + s) % size = s
    BY <2>1, PlaceOf
  <2>3. (a - size) + s \in (q - (size - 1)) .. (q - 1)
    BY <1>1, <1>2, <1>4
  <2>. QED
    BY <2>1, <2>2, <2>3
<1>. QED
  BY <1>1, <1>3, <1>4

(* In a non-empty set of natural numbers one is the least. *)
LEMMA Least ==
  ASSUME NEW T, T \subseteq Nat, T # {}
  PROVE  \E x \in T : \A y \in T : x <= y
<1>1. PICK x \in T : \A y \in T : ~ (<<y, x>> \in OpToRel(<, Nat))
  BY NatLessThanWellFounded, WFMin
<1>2. \A y \in T : ~ (y < x)
  BY <1>1 DEF OpToRel
<1> QED
  BY <1>2

-----------------------------------------------------------------------------
(* Finite sets and folds.                                                  *)

(* A set of finite sets that is not empty has one that none of the others  *)
(* is a proper part of.                                                    *)
LEMMA Smallest ==
  ASSUME NEW U, IsFiniteSet(U), NEW B, B \subseteq SUBSET U, B # {}
  PROVE  \E s \in B : \A t \in B : t \subseteq s => t = s
  <1> DEFINE T == {Cardinality(s) : s \in B}
  <1>1. \A s \in B : IsFiniteSet(s) /\ Cardinality(s) \in Nat
    BY FS_Subset, FS_CardinalityType
  <1>2. T \subseteq Nat /\ T # {}
    BY <1>1
  <1>3. PICK n \in T : \A m \in T : n <= m
    <2> HIDE DEF T
    <2> QED
      BY <1>2, Least
  <1>4. PICK s \in B : n = Cardinality(s)
    BY <1>3
  <1>5. ASSUME NEW t \in B, t \subseteq s PROVE t = s
    <2>1. Cardinality(t) <= Cardinality(s) /\ (Cardinality(s) = Cardinality(t) => s = t)
      BY <1>1, <1>5, FS_Subset
    <2>2. Cardinality(s) <= Cardinality(t)
      BY <1>3, <1>4
    <2> QED
      BY <1>1, <2>1, <2>2
  <1> QED
    BY <1>5

(* Induction over the parts of a finite set: were there a bad one, there   *)
(* would be one that is good without any of its elements.                  *)
LEMMA FirstBad ==
  ASSUME NEW U, IsFiniteSet(U), NEW B, B \subseteq SUBSET U, B # {}
  PROVE  \E s \in B : \A x \in s : s \ {x} \notin B
  <1>1. PICK s \in B : \A t \in B : t \subseteq s => t = s
    BY Smallest
  <1>2. \A x \in s : s \ {x} \subseteq s /\ s \ {x} # s
    OBVIOUS
  <1> QED
    BY <1>1, <1>2

(* g is the fold of G over the parts of U, from base, in the order of ch   *)
(* and with the values V.                                                  *)
FoldsOver(g, U, V, base, G, ch) ==
  /\ g \in [SUBSET U -> V] /\ base \in V
  /\ \A s \in SUBSET U : s # {} => ch[s] \in s
  /\ \A s \in SUBSET U : g[s] = IF s = {} THEN base ELSE G[<<ch[s], g[s \ {ch[s]}]>>]

(* Folds over finite sets exist, and keep to the values V of their steps.  *)
LEMMA FoldExists ==
  ASSUME NEW U, IsFiniteSet(U), NEW V, NEW base \in V, NEW G \in [U \X V -> V],
         NEW ch, \A s \in SUBSET U : s # {} => ch[s] \in s
  PROVE  \E g : FoldsOver(g, U, V, base, G, ch)
  <1> DEFINE upto(n) == {s \in SUBSET U : Cardinality(s) <= n}
             IsFold(g, n) == \A s \in upto(n) :
               g[s] = IF s = {} THEN base ELSE G[<<ch[s], g[s \ {ch[s]}]>>]
             T == {n \in Nat : ~ \E g \in [upto(n) -> V] : IsFold(g, n)}
  <1>1. \A s \in SUBSET U : /\ IsFiniteSet(s) /\ Cardinality(s) \in Nat
                            /\ Cardinality(s) = 0 <=> s = {}
                            /\ \A x \in s : Cardinality(s \ {x}) = Cardinality(s) - 1
    BY FS_Subset, FS_CardinalityType, FS_EmptySet, FS_RemoveElement
  <1>2. T = {}
    <2> SUFFICES ASSUME T # {} PROVE FALSE
      OBVIOUS
    <2>1. T \subseteq Nat
      OBVIOUS
    <2>2. PICK n \in T : \A m \in T : n <= m
      <3> HIDE DEF T
      <3> QED
        BY <2>1, Least
    <2>3. n \in Nat /\ ~ \E g \in [upto(n) -> V] : IsFold(g, n)
      BY <2>2
    <2>4. CASE n = 0
      <3>1. upto(0) = {{}}
        BY <1>1
      <3> DEFINE g == [s \in upto(0) |-> base]
      <3>2. g \in [upto(0) -> V] /\ IsFold(g, 0)
        BY <3>1
      <3> QED
        BY <2>3, <2>4, <3>2
    <2>5. CASE n > 0
      <3>1. n - 1 \in Nat /\ n - 1 \notin T
        <4> HIDE DEF T, upto, IsFold
        <4> QED
          BY <2>2, <2>3, <2>5
      <3>2. PICK h \in [upto(n - 1) -> V] : IsFold(h, n - 1)
        BY <3>1
      <3> DEFINE g == [s \in upto(n) |->
                         IF s = {} THEN base ELSE G[<<ch[s], h[s \ {ch[s]}]>>]]
      <3>3. \A s \in upto(n) : s # {} => s \ {ch[s]} \in upto(n - 1) /\ ch[s] \in U
        BY <1>1, <2>3, <2>5
      <3>4. \A s \in upto(n) :
              (IF s = {} THEN base ELSE G[<<ch[s], h[s \ {ch[s]}]>>]) \in V
        BY <3>2, <3>3
      <3>5. g \in [upto(n) -> V]
        BY <3>4
      <3>6. \A s \in upto(n - 1) : s \in upto(n) /\ g[s] = h[s]
        BY <1>1, <2>3, <3>2
      <3>7. IsFold(g, n)
        <4> TAKE s \in upto(n)
        <4>1. s = {} => g[s] = base
          OBVIOUS
        <4>2. s # {} => g[s] = G[<<ch[s], g[s \ {ch[s]}]>>]
          BY <3>3, <3>6
        <4> QED
          BY <4>1, <4>2
      <3> QED
        BY <2>3, <3>5, <3>7
    <2> QED
      BY <2>3, <2>4, <2>5
  <1>3. Cardinality(U) \in Nat /\ upto(Cardinality(U)) = SUBSET U
    BY FS_CardinalityType, FS_Subset
  <1>4. PICK g \in [upto(Cardinality(U)) -> V] : IsFold(g, Cardinality(U))
    BY <1>2, <1>3
  <1> QED
    BY <1>3, <1>4 DEF FoldsOver

(* h starts and goes on likewise over the parts of S, as long as it finds  *)
(* a value of V.                                                           *)
GoesOn(h, S, V, base, G, ch) ==
  /\ h[{}] = base
  /\ \A s \in SUBSET S :
       s # {} /\ h[s \ {ch[s]}] \in V => h[s] = G[<<ch[s], h[s \ {ch[s]}]>>]

(* What goes on from base as the fold g does, where the values are such as *)
(* the steps of g know, is g.                                              *)
LEMMA FoldsAgree ==
  ASSUME NEW U, IsFiniteSet(U), NEW V, NEW base, NEW G, NEW ch,
         NEW g, FoldsOver(g, U, V, base, G, ch), NEW S \in SUBSET U,
         NEW h, GoesOn(h, S, V, base, G, ch)
  PROVE  h[S] = g[S]
  <1> DEFINE B == {s \in SUBSET S : h[s] # g[s]}
  <1> SUFFICES ASSUME B # {} PROVE FALSE
    <2>1. S \in SUBSET S /\ S \notin B => h[S] = g[S]
      OBVIOUS
    <2> QED
      BY <2>1
  <1>1. IsFiniteSet(S) /\ B \subseteq SUBSET S
    BY FS_Subset
  <1>2. PICK s \in B : \A x \in s : s \ {x} \notin B
    <2> HIDE DEF B
    <2> QED
      BY <1>1, FirstBad
  <1>3. s \in SUBSET S /\ s \in SUBSET U /\ h[s] # g[s]
    BY <1>2
  <1>4. s # {}
    <2> SUFFICES ASSUME s = {} PROVE FALSE
      OBVIOUS
    <2>1. h[{}] # g[{}] /\ {} \in SUBSET U
      BY <1>3
    <2>2. g[{}] = base
      BY <2>1 DEF FoldsOver
    <2> HIDE DEF B
    <2> QED
      BY <2>1, <2>2 DEF GoesOn
  <1>5. h[s \ {ch[s]}] = g[s \ {ch[s]}] /\ g[s \ {ch[s]}] \in V
    BY <1>2, <1>3, <1>4 DEF FoldsOver
  <1>6. h[s] = G[<<ch[s], h[s \ {ch[s]}]>>]
    BY <1>3, <1>4, <1>5 DEF GoesOn
  <1>7. g[s] = G[<<ch[s], g[s \ {ch[s]}]>>]
    BY <1>3, <1>4 DEF FoldsOver
  <1> QED
    BY <1>3, <1>5, <1>6, <1>7

(* One of finitely many has the least number. *)
LEMMA LeastOf ==
  ASSUME NEW S, IsFiniteSet(S), S # {}, NEW F, \A x \in S : F[x] \in Int
  PROVE  \E x \in S : \A y \in S : F[x] <= F[y]
  <1> DEFINE B == {s \in SUBSET S : s # {} /\ \A x \in s : \E y \in s : ~ F[x] <= F[y]}
  <1> SUFFICES ASSUME B # {} PROVE FALSE
    <2>1. S \in SUBSET S /\ S \notin B
      OBVIOUS
    <2> QED
      BY <2>1
  <1>1. PICK s \in B : \A x \in s : s \ {x} \notin B
    <2>1. B \subseteq SUBSET S
      OBVIOUS
    <2> HIDE DEF B
    <2> QED
      BY <2>1, FirstBad
  <1>2. s \in SUBSET S /\ s # {} /\ \A x \in s : \E y \in s : ~ F[x] <= F[y]
    BY <1>1
  <1>3. PICK x \in s : TRUE
    BY <1>2
  <1>4. s \ {x} # {}
    BY <1>2
  <1>5. PICK z \in s \ {x} : \A y \in s \ {x} : F[z] <= F[y]
    <2>1. s \ {x} \in SUBSET S /\ s \ {x} \notin B
      BY <1>1, <1>2
    <2> QED
      BY <1>4, <2>1
  <1>6. \A y \in s : F[y] \in Int
    BY <1>2
  <1> HIDE DEF B
  <1>7. CASE F[x] <= F[z]
    BY <1>2, <1>5, <1>6, <1>7
  <1>8. CASE F[z] <= F[x]
    BY <1>2, <1>5, <1>6, <1>8
  <1> QED
    BY <1>5, <1>6, <1>7, <1>8

-----------------------------------------------------------------------------
(* Sums.                                                                   *)

Some(s) == CHOOSE x \in s : TRUE

(* g has the sums of F over the parts of U. *)
SumsUp(g, U, F) ==
  /\ \A s \in SUBSET U : g[s] = IF s = {} THEN 0 ELSE F[Some(s)] + g[s \ {Some(s)}]
  /\ \A S \in SUBSET U : SumFunctionOnSet(F, S) = g[S]

(* The sums of F over the parts of S, as a fold. *)
LEMMA SumsAreFolds ==
  ASSUME NEW U, IsFiniteSet(U), NEW F, \A x \in U : F[x] \in Int
  PROVE  \E g \in [SUBSET U -> Int] : SumsUp(g, U, F)
  <1> DEFINE G  == [p \in U \X Int |-> F[p[1]] + p[2]]
             ch == [s \in SUBSET U |-> Some(s)]
  <1>1. \A s \in SUBSET U : s # {} => Some(s) \in s /\ ch[s] = Some(s)
    BY DEF Some
  <1>2. G \in [U \X Int -> Int]
    OBVIOUS
  <1>3. PICK g : FoldsOver(g, U, Int, 0, G, ch)
    <2>1. \A s \in SUBSET U : s # {} => ch[s] \in s
      BY <1>1
    <2>2. 0 \in Int
      OBVIOUS
    <2> HIDE DEF G, ch
    <2> QED
      BY <1>2, <2>1, <2>2, FoldExists
  <1>4. \A s \in SUBSET U : g[s] = IF s = {} THEN 0 ELSE F[Some(s)] + g[s \ {Some(s)}]
    <2> TAKE s \in SUBSET U
    <2>1. CASE s = {}
      BY <2>1, <1>3 DEF FoldsOver
    <2>2. CASE s # {}
      <3>1. Some(s) \in U /\ g[s \ {Some(s)}] \in Int
        BY <2>2, <1>1, <1>3 DEF FoldsOver
      <3>2. g[s] = G[<<Some(s), g[s \ {Some(s)}]>>]
        BY <2>2, <1>1, <1>3 DEF FoldsOver
      <3> QED
        BY <2>2, <3>1, <3>2
    <2> QED
      BY <2>1, <2>2
  <1>5. ASSUME NEW S \in SUBSET U PROVE SumFunctionOnSet(F, S) = g[S]
    <2> DEFINE Step(h) == [s \in SUBSET S |-> IF s = {} THEN 0 ELSE F[Some(s)] + h[s \ {Some(s)}]]
               k == [s \in SUBSET S |-> g[s]]
               h == CHOOSE f : f = Step(f)
    <2>1. k = Step(k)
      BY <1>1, <1>4
    <2>2. h = Step(h)
      <3> HIDE DEF Step, k
      <3> QED
        BY <2>1
    <2>3. SumFunctionOnSet(F, S) = h[S]
      BY DEF SumFunctionOnSet, FoldFunctionOnSet, MapThenFoldSet, Some
    <2> HIDE DEF h
    <2>4. \A s \in SUBSET S : h[s] = IF s = {} THEN 0 ELSE F[Some(s)] + h[s \ {Some(s)}]
      BY <2>2
    <2>5. h[S] = g[S]
      <3>1. h[{}] = 0
        <4>1. {} \in SUBSET S
          OBVIOUS
        <4> HIDE DEF Step, k, ch, G
        <4> QED
          BY <2>4, <4>1, Zenon
      <3>2. \A s \in SUBSET S : s # {} /\ h[s \ {ch[s]}] \in Int =>
              h[s] = G[<<ch[s], h[s \ {ch[s]}]>>]
        BY <1>1, <2>4
      <3> HIDE DEF ch, G, Step, k
      <3>3. GoesOn(h, S, Int, 0, G, ch)
        BY <3>1, <3>2 DEF GoesOn
      <3> QED
        BY <1>3, <3>3, FoldsAgree
    <2> QED
      BY <2>3, <2>5
  <1> QED
    BY <1>3, <1>4, <1>5 DEF SumsUp, FoldsOver

(* Two numbers may be added to a third in any order. *)
LEMMA AddAnyOrder ==
  ASSUME NEW x \in Int, NEW c \in Int, NEW r \in Int
  PROVE  c + (x + r) = x + (c + r)
  OBVIOUS

(* The sum over nothing is 0, and any element may be the first. *)
LEMMA SumStep ==
  ASSUME NEW U, IsFiniteSet(U), NEW F, \A x \in U : F[x] \in Int
  PROVE  /\ SumFunctionOnSet(F, {}) = 0
         /\ \A S \in SUBSET U : SumFunctionOnSet(F, S) \in Int
         /\ \A S \in SUBSET U : \A x \in S :
              SumFunctionOnSet(F, S) = F[x] + SumFunctionOnSet(F, S \ {x})
  <1>1. PICK g \in [SUBSET U -> Int] :
           /\ \A s \in SUBSET U : g[s] = IF s = {} THEN 0 ELSE F[Some(s)] + g[s \ {Some(s)}]
           /\ \A S \in SUBSET U : SumFunctionOnSet(F, S) = g[S]
    <2>1. \E g \in [SUBSET U -> Int] : SumsUp(g, U, F)
      BY SumsAreFolds
    <2> QED
      BY <2>1 DEF SumsUp
  <1>2. \A s \in SUBSET U : s # {} => Some(s) \in s
    BY DEF Some
  <1> DEFINE B == {s \in SUBSET U : \E x \in s : g[s] # F[x] + g[s \ {x}]}
  <1>3. B = {}
    <2> SUFFICES ASSUME B # {} PROVE FALSE
      OBVIOUS
    <2>1. PICK s \in B : \A x \in s : s \ {x} \notin B
      <3>1. B \subseteq SUBSET U
        OBVIOUS
      <3> HIDE DEF B
      <3> QED
        BY <3>1, FirstBad
    <2>2. PICK x \in s : g[s] # F[x] + g[s \ {x}]
      BY <2>1
    <2> DEFINE c == Some(s)
    <2>3. c \in s /\ s \in SUBSET U /\ g[s] = F[c] + g[s \ {c}]
      BY <1>1, <1>2, <2>1
    <2> HIDE DEF c
    <2>4. x # c
      BY <2>2, <2>3
    <2>5. s \ {c} \in SUBSET U /\ s \ {x} \in SUBSET U /\ s \ {c} \notin B /\ s \ {x} \notin B
      BY <2>1, <2>3
    <2>6. g[s \ {c}] = F[x] + g[(s \ {c}) \ {x}]
      BY <2>2, <2>4, <2>5
    <2>7. g[s \ {x}] = F[c] + g[(s \ {x}) \ {c}]
      BY <2>3, <2>4, <2>5
    <2>8. (s \ {c}) \ {x} = (s \ {x}) \ {c}
      OBVIOUS
    <2> DEFINE r == g[(s \ {x}) \ {c}]
    <2>9. F[x] \in Int /\ F[c] \in Int /\ r \in Int
      <3>1. (s \ {x}) \ {c} \in SUBSET U
        BY <2>3
      <3> QED
        BY <2>2, <2>3, <1>1, <3>1
    <2>10. g[s] = F[c] + (F[x] + r)
      BY <2>3, <2>6, <2>8
    <2>11. g[s] # F[x] + (F[c] + r)
      BY <2>2, <2>7
    <2> HIDE DEF r, B
    <2> QED
      BY <2>9, <2>10, <2>11, AddAnyOrder, Zenon
  <1>4. \A S \in SUBSET U : \A x \in S : g[S] = F[x] + g[S \ {x}]
    BY <1>3
  <1>5. SumFunctionOnSet(F, {}) = 0
    <2>1. {} \in SUBSET U
      OBVIOUS
    <2> QED
      BY <1>1, <2>1
  <1>6. ASSUME NEW S \in SUBSET U, NEW x \in S
        PROVE SumFunctionOnSet(F, S) = F[x] + SumFunctionOnSet(F, S \ {x})
    <2>1. S \ {x} \in SUBSET U
      OBVIOUS
    <2>2. SumFunctionOnSet(F, S) = g[S] /\ SumFunctionOnSet(F, S \ {x}) = g[S \ {x}]
      BY <1>1, <2>1
    <2> QED
      BY <1>4, <2>2
  <1>7. \A S \in SUBSET U : SumFunctionOnSet(F, S) \in Int
    BY <1>1
  <1> QED
    BY <1>5, <1>6, <1>7

AddsUp(F, S) ==
  /\ SumFunctionOnSet(F, {}) = 0
  /\ \A s \in SUBSET S : \A x \in s :
       SumFunctionOnSet(F, s) = F[x] + SumFunctionOnSet(F, s \ {x})

LEMMA SumsAddUp ==
  ASSUME NEW S, IsFiniteSet(S), NEW F, \A x \in S : F[x] \in Int
  PROVE  AddsUp(F, S)
  BY SumStep DEF AddsUp

(* A sum is as large as the terms make it. *)
LEMMA SumsCompare ==
  ASSUME NEW S, IsFiniteSet(S), NEW F, \A x \in S : F[x] \in Int,
         NEW H, \A x \in S : H[x] \in Int /\ F[x] <= H[x]
  PROVE  SumFunctionOnSet(F, S) <= SumFunctionOnSet(H, S)
  <1> DEFINE f(s) == SumFunctionOnSet(F, s)
             h(s) == SumFunctionOnSet(H, s)
             B == {s \in SUBSET S : ~ f(s) <= h(s)}
  <1> SUFFICES ASSUME B # {} PROVE FALSE
    <2>1. S \in SUBSET S /\ S \notin B => f(S) <= h(S)
      OBVIOUS
    <2> QED
      BY <2>1
  <1>1. f({}) = 0 /\ \A s \in SUBSET S : f(s) \in Int /\ \A x \in s : f(s) = F[x] + f(s \ {x})
    BY SumStep
  <1>2. h({}) = 0 /\ \A s \in SUBSET S : h(s) \in Int /\ \A x \in s : h(s) = H[x] + h(s \ {x})
    <2>1. \A x \in S : H[x] \in Int
      OBVIOUS
    <2> QED
      BY <2>1, SumStep
  <1> HIDE DEF f, h
  <1>3. PICK s \in B : \A x \in s : s \ {x} \notin B
    <2>1. B \subseteq SUBSET S
      OBVIOUS
    <2> HIDE DEF B
    <2> QED
      BY <2>1, FirstBad
  <1>4. s \in SUBSET S /\ ~ f(s) <= h(s)
    BY <1>3
  <1>5. PICK x \in s : TRUE
    <2> SUFFICES ASSUME s = {} PROVE FALSE
      OBVIOUS
    <2>1. f({}) = 0 /\ h({}) = 0 /\ ~ f({}) <= h({})
      BY <1>1, <1>2, <1>4
    <2> HIDE DEF B
    <2> QED
      BY <2>1
  <1>6. s \ {x} \in SUBSET S /\ f(s \ {x}) <= h(s \ {x})
    BY <1>3, <1>4
  <1>7. f(s) = F[x] + f(s \ {x}) /\ h(s) = H[x] + h(s \ {x}) /\ x \in S
    BY <1>1, <1>2, <1>4
  <1>8. f(s \ {x}) \in Int /\ h(s \ {x}) \in Int
    BY <1>1, <1>2, <1>6
  <1> QED
    BY <1>4, <1>6, <1>7, <1>8

(* A sum of what is not positive is not. *)
LEMMA SumNotPositive ==
  ASSUME NEW S, IsFiniteSet(S), NEW F, \A x \in S : F[x] \in Int /\ F[x] <= 0
  PROVE  SumFunctionOnSet(F, S) \in Int /\ SumFunctionOnSet(F, S) <= 0
  <1> DEFINE f(s) == SumFunctionOnSet(F, s)
             B == {s \in SUBSET S : ~ f(s) <= 0}
  <1>1. f({}) = 0 /\ \A s \in SUBSET S : f(s) \in Int /\ \A x \in s : f(s) = F[x] + f(s \ {x})
    BY SumStep
  <1>2. S \in SUBSET S
    OBVIOUS
  <1> SUFFICES ASSUME B # {} PROVE FALSE
    BY <1>1, <1>2
  <1> HIDE DEF f
  <1>3. PICK s \in B : \A x \in s : s \ {x} \notin B
    <2>1. B \subseteq SUBSET S
      OBVIOUS
    <2> HIDE DEF B
    <2> QED
      BY <2>1, FirstBad
  <1>4. s \in SUBSET S /\ ~ f(s) <= 0
    BY <1>3
  <1>5. s # {}
    <2> SUFFICES ASSUME s = {} PROVE FALSE
      OBVIOUS
    <2>1. f({}) = 0 /\ ~ f({}) <= 0
      BY <1>1, <1>4
    <2> HIDE DEF B
    <2> QED
      BY <2>1
  <1>6. PICK x \in s : TRUE
    BY <1>5
  <1>7. s \ {x} \in SUBSET S /\ f(s \ {x}) <= 0
    BY <1>3, <1>4
  <1>8. f(s) = F[x] + f(s \ {x}) /\ x \in S
    BY <1>1, <1>4
  <1>9. f(s \ {x}) \in Int
    BY <1>1, <1>7
  <1> QED
    BY <1>4, <1>7, <1>8, <1>9

(* Functions that agree on S have the same sum there. *)
LEMMA SumsAgree ==
  ASSUME NEW S, IsFiniteSet(S), NEW F, \A x \in S : F[x] \in Int,
         NEW H, \A x \in S : H[x] = F[x]
  PROVE  SumFunctionOnSet(F, S) = SumFunctionOnSet(H, S)
  <1>1. \A x \in S : F[x] \in Int /\ H[x] \in Int /\ F[x] <= H[x] /\ H[x] <= F[x]
    OBVIOUS
  <1>2. SumFunctionOnSet(F, S) <= SumFunctionOnSet(H, S)
    BY <1>1, SumsCompare
  <1>3. SumFunctionOnSet(H, S) <= SumFunctionOnSet(F, S)
    BY <1>1, SumsCompare
  <1>4. SumFunctionOnSet(F, S) \in Int /\ SumFunctionOnSet(H, S) \in Int
    <2>1. S \in SUBSET S
      OBVIOUS
    <2>2. \A s \in SUBSET S : SumFunctionOnSet(F, s) \in Int
      BY SumStep
    <2>3. \A s \in SUBSET S : SumFunctionOnSet(H, s) \in Int
      BY <1>1, SumStep
    <2> QED
      BY <2>1, <2>2, <2>3
  <1> QED
    BY <1>2, <1>3, <1>4

(* A sum is that over a part and that over the rest. *)
LEMMA SumSplits ==
  ASSUME NEW S, IsFiniteSet(S), NEW F, \A x \in S : F[x] \in Int, NEW R, R \subseteq S
  PROVE  SumFunctionOnSet(F, S) = SumFunctionOnSet(F, R) + SumFunctionOnSet(F, S \ R)
  <1> DEFINE f(s) == SumFunctionOnSet(F, s)
             B == {s \in SUBSET R : f(S) # f(s) + f(S \ s)}
  <1>1. f({}) = 0 /\ \A s \in SUBSET S : f(s) \in Int /\ \A x \in s : f(s) = F[x] + f(s \ {x})
    BY SumStep
  <1> SUFFICES ASSUME B # {} PROVE FALSE
    <2>1. R \in SUBSET R /\ R \notin B => f(S) = f(R) + f(S \ R)
      OBVIOUS
    <2> QED
      BY <2>1
  <1> HIDE DEF f
  <1>2. IsFiniteSet(R)
    BY FS_Subset
  <1>3. PICK s \in B : \A x \in s : s \ {x} \notin B
    <2>1. B \subseteq SUBSET R
      OBVIOUS
    <2> HIDE DEF B
    <2> QED
      BY <1>2, <2>1, FirstBad
  <1>4. s \in SUBSET R /\ f(S) # f(s) + f(S \ s)
    BY <1>3
  <1>5. s # {}
    <2>1. S \ {} = S /\ S \in SUBSET S
      OBVIOUS
    <2>2. f(S) \in Int
      BY <1>1, <2>1
    <2> SUFFICES ASSUME s = {} PROVE FALSE
      OBVIOUS
    <2>3. f(S) # f({}) + f(S)
      BY <1>4, <2>1
    <2> HIDE DEF B
    <2> QED
      BY <1>1, <2>2, <2>3
  <1>6. PICK x \in s : TRUE
    BY <1>5
  <1>7. s \ {x} \in SUBSET R /\ f(S) = f(s \ {x}) + f(S \ (s \ {x}))
    BY <1>3, <1>4
  <1>8. x \in S \ (s \ {x}) /\ (S \ (s \ {x})) \ {x} = S \ s /\ S \ (s \ {x}) \in SUBSET S
    BY <1>4
  <1>9. f(S \ (s \ {x})) = F[x] + f(S \ s)
    BY <1>1, <1>8
  <1>10. f(s) = F[x] + f(s \ {x}) /\ x \in S
    BY <1>1, <1>4
  <1>11. f(s \ {x}) \in Int /\ f(S \ s) \in Int /\ F[x] \in Int
    <2>1. s \ {x} \in SUBSET S /\ S \ s \in SUBSET S
      BY <1>4
    <2> QED
      BY <1>1, <1>10, <2>1
  <1>12. f(S) = f(s \ {x}) + (F[x] + f(S \ s))
    BY <1>7, <1>9
  <1>13. f(S) # (F[x] + f(s \ {x})) + f(S \ s)
    BY <1>4, <1>10
  <1> HIDE DEF B
  <1> DEFINE a == f(s \ {x})
             d == f(S \ s)
             c == F[x]
  <1>14. a \in Int /\ d \in Int /\ c \in Int /\ f(S) = a + (c + d) /\ f(S) # (c + a) + d
    BY <1>11, <1>12, <1>13
  <1> HIDE DEF a, d, c
  <1> QED
    BY <1>14

(* Sums whose terms are up to k apart. *)
LEMMA SumsApart ==
  ASSUME NEW S, IsFiniteSet(S), NEW k \in Nat, NEW F, NEW H,
         \A x \in S : F[x] \in Int /\ H[x] \in Int /\ F[x] - H[x] \in 0 .. k
  PROVE  SumFunctionOnSet(F, S) - SumFunctionOnSet(H, S) \in 0 .. Cardinality(S) * k
  <1> DEFINE f(s) == SumFunctionOnSet(F, s)
             h(s) == SumFunctionOnSet(H, s)
             c(s) == Cardinality(s)
             B == {s \in SUBSET S : f(s) - h(s) \notin 0 .. c(s) * k}
  <1>1. f({}) = 0 /\ \A s \in SUBSET S : f(s) \in Int /\ \A x \in s : f(s) = F[x] + f(s \ {x})
    <2>1. \A x \in S : F[x] \in Int
      OBVIOUS
    <2> QED
      BY <2>1, SumStep, SMTT(30)
  <1>11. h({}) = 0 /\ \A s \in SUBSET S : h(s) \in Int /\ \A x \in s : h(s) = H[x] + h(s \ {x})
    <2>1. \A x \in S : H[x] \in Int
      OBVIOUS
    <2> QED
      BY <2>1, SumStep
  <1>2. c({}) = 0 /\ \A s \in SUBSET S : c(s) \in Nat /\ \A x \in s : c(s \ {x}) = c(s) - 1
    BY FS_Subset, FS_CardinalityType, FS_EmptySet, FS_RemoveElement
  <1> SUFFICES ASSUME B # {} PROVE FALSE
    <2>1. S \in SUBSET S /\ S \notin B => f(S) - h(S) \in 0 .. c(S) * k
      OBVIOUS
    <2> QED
      BY <2>1
  <1> HIDE DEF f, h, c
  <1>3. PICK s \in B : \A x \in s : s \ {x} \notin B
    <2>1. B \subseteq SUBSET S
      OBVIOUS
    <2> HIDE DEF B
    <2> QED
      BY <2>1, FirstBad
  <1>4. s \in SUBSET S /\ f(s) - h(s) \notin 0 .. c(s) * k
    BY <1>3
  <1>5. s # {}
    <2> SUFFICES ASSUME s = {} PROVE FALSE
      OBVIOUS
    <2>1. f({}) - h({}) \notin 0 .. c({}) * k
      BY <1>4
    <2> HIDE DEF B
    <2> QED
      BY <1>1, <1>11, <1>2, <2>1
  <1>6. PICK x \in s : TRUE
    BY <1>5
  <1>7. s \ {x} \in SUBSET S /\ f(s \ {x}) - h(s \ {x}) \in 0 .. c(s \ {x}) * k
    BY <1>3, <1>4
  <1>8. /\ f(s) = F[x] + f(s \ {x}) /\ h(s) = H[x] + h(s \ {x})
        /\ f(s \ {x}) \in Int /\ h(s \ {x}) \in Int
        /\ F[x] \in Int /\ H[x] \in Int /\ F[x] - H[x] \in 0 .. k
        /\ c(s) \in Nat /\ c(s \ {x}) = c(s) - 1
    BY <1>1, <1>11, <1>2, <1>4, <1>7
  <1> HIDE DEF B
  <1> DEFINE a == f(s \ {x})
             d == h(s \ {x})
             n == c(s)
             y == F[x]
             z == H[x]
  <1>9. /\ a \in Int /\ d \in Int /\ y \in Int /\ z \in Int /\ n \in Nat
        /\ a - d \in 0 .. (n - 1) * k /\ y - z \in 0 .. k /\ (y + a) - (z + d) \notin 0 .. n * k
    BY <1>4, <1>7, <1>8
  <1> HIDE DEF a, d, n, y, z
  <1>10. (n - 1) * k + k = n * k
    BY <1>9, SMTT(20)
  <1>12. (n - 1) * k \in Int /\ n * k \in Int
    BY <1>9
  <1> QED
    BY <1>9, <1>10, <1>12

(* A sum over numbered things is that over their numbers. *)
Enumerates(q, n, S) ==
  /\ n = Cardinality(S) /\ q \in [1 .. n -> S]
  /\ \A i, j \in 1 .. n : i # j => q[i] # q[j]

LEMMA SumMoves ==
  ASSUME NEW S, IsFiniteSet(S), NEW n \in Nat, NEW q, Enumerates(q, n, S),
         NEW F, \A x \in S : F[x] \in Int
  PROVE  SumFunctionOnSet([i \in 1 .. n |-> F[q[i]]], 1 .. n) = SumFunctionOnSet(F, S)
  <1> DEFINE H == [i \in 1 .. n |-> F[q[i]]]
             f(s) == SumFunctionOnSet(F, s)
             h(s) == SumFunctionOnSet(H, s)
             im(s) == {q[i] : i \in s}
             B == {s \in SUBSET (1 .. n) : h(s) # f(im(s))}
  <1>0. /\ n = Cardinality(S) /\ q \in [1 .. n -> S]
        /\ \A i, j \in 1 .. n : i # j => q[i] # q[j]
    BY DEF Enumerates
  <1>1. f({}) = 0 /\ \A s \in SUBSET S : \A x \in s : f(s) = F[x] + f(s \ {x})
    BY SumStep
  <1>2. IsFiniteSet(1 .. n) /\ Cardinality(1 .. n) = n
    BY FS_Interval
  <1>3. \A i \in 1 .. n : H[i] \in Int /\ H[i] = F[q[i]]
    BY <1>0
  <1>4. h({}) = 0 /\ \A s \in SUBSET (1 .. n) : \A x \in s : h(s) = H[x] + h(s \ {x})
    <2> DEFINE D == 1 .. n
    <2>1. IsFiniteSet(D) /\ \A i \in D : H[i] \in Int
      BY <1>2, <1>3
    <2> HIDE DEF H, D
    <2>2. AddsUp(H, D)
      BY <2>1, SumsAddUp
    <2> QED
      BY <2>2 DEF AddsUp, D
  <1>5. B = {}
    <2> SUFFICES ASSUME B # {} PROVE FALSE
      OBVIOUS
    <2> HIDE DEF f, h, H
    <2>1. PICK s \in B : \A x \in s : s \ {x} \notin B
      <3>1. B \subseteq SUBSET (1 .. n)
        OBVIOUS
      <3> HIDE DEF B
      <3> QED
        BY <1>2, <3>1, FirstBad
    <2>2. s \in SUBSET (1 .. n) /\ h(s) # f(im(s))
      BY <2>1
    <2>3. s # {}
      <3> SUFFICES ASSUME s = {} PROVE FALSE
        OBVIOUS
      <3>1. im({}) = {}
        OBVIOUS
      <3>2. h({}) # f(im({}))
        BY <2>2
      <3> HIDE DEF B, im
      <3> QED
        BY <1>1, <1>4, <3>1, <3>2
    <2>4. PICK x \in s : TRUE
      BY <2>3
    <2>5. s \ {x} \in SUBSET (1 .. n) /\ h(s \ {x}) = f(im(s \ {x}))
      BY <2>1, <2>2
    <2>6. im(s) \in SUBSET S /\ q[x] \in im(s) /\ im(s) \ {q[x]} = im(s \ {x})
      BY <1>0, <2>2
    <2>7. h(s) = F[q[x]] + h(s \ {x})
      BY <1>3, <1>4, <2>2
    <2> HIDE DEF B, im
    <2>8. f(im(s)) = F[q[x]] + f(im(s \ {x}))
      BY <1>1, <2>6
    <2> QED
      BY <2>2, <2>5, <2>7, <2>8
  <1>6. im(1 .. n) = S
    <2>1. q \in Injection(1 .. n, S)
      BY <1>0 DEF Injection, IsInjective
    <2>2. q \in Surjection(1 .. n, S)
      BY <1>0, <1>2, <2>1, FS_Injection
    <2> QED
      BY <2>2 DEF Surjection
  <1>7. h(1 .. n) = f(im(1 .. n))
    <2> HIDE DEF f, h, im
    <2> QED
      BY <1>5
  <1> HIDE DEF im
  <1> QED
    BY <1>6, <1>7

=============================================================================

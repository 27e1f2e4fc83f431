--------------------------------- MODULE Sums ---------------------------------
(***************************************************************************)
(* Sums over finite sets: SumFunctionOnSet(f, S) adds f[x] for every x in  *)
(* S.  The library defines it by a recursive function that takes S apart   *)
(* in an unspecified order; the lemmas show that there is such a function, *)
(* and that the order does not matter.                                     *)
(***************************************************************************)
EXTENDS Integers, Functions, FiniteSetTheorems, WellFoundedInduction, TLAPS

AnyOf(s) == CHOOSE x \in s : TRUE
Added(f, S) == SumFunctionOnSet(f, S)

-----------------------------------------------------------------------------
(* Least elements, for arguments by a smallest counterexample, and greatest*)
(* ones.                                                                   *)

LEMMA LeastNat ==
    ASSUME NEW S, S \subseteq Nat, S # {}
    PROVE  \E x \in S : \A y \in S : x <= y
<1>1. \E x \in S : \A y \in S : <<y, x>> \notin OpToRel(<, Nat)
  BY NatLessThanWellFounded, WFMin
<1>2. \A x, y \in Nat : <<y, x>> \notin OpToRel(<, Nat) => x <= y
  BY DEF OpToRel
<1> QED BY <1>1, <1>2

LEMMA GreatestNat ==
    ASSUME NEW S, S \subseteq Nat, S # {}, NEW b \in Nat, \A x \in S : x <= b
    PROVE  \E x \in S : \A y \in S : y <= x
<1> DEFINE T == {b - x : x \in S}
<1>1. T \subseteq Nat /\ T # {}
  <2>1. \A x \in S : x \in Nat /\ x <= b /\ b - x \in Nat
    OBVIOUS
  <2>2. T \subseteq Nat
    BY <2>1
  <2>3. T # {}
    <3>1. PICK x \in S : TRUE
      OBVIOUS
    <3>2. b - x \in T
      OBVIOUS
    <3> QED BY <3>2
  <2> QED BY <2>2, <2>3
<1>2. PICK m \in T : \A n \in T : m <= n
  BY <1>1, LeastNat
<1>3. PICK x \in S : m = b - x
  OBVIOUS
<1>4. ASSUME NEW y \in S PROVE y <= x
  <2>1. m <= b - y
    BY <1>2
  <2> QED BY <1>3, <2>1
<1> QED BY <1>4

LEMMA LeastSet ==
    ASSUME NEW S, IsFiniteSet(S), NEW B \in SUBSET SUBSET S, B # {}
    PROVE  \E s \in B : \A t \in B : Cardinality(s) <= Cardinality(t)
<1> DEFINE N == {Cardinality(s) : s \in B}
<1>1. N \subseteq Nat /\ N # {}
  BY FS_Subset, FS_CardinalityType
<1>2. PICK n \in N : \A m \in N : n <= m
  BY <1>1, LeastNat
<1> QED BY <1>2

LEMMA Smaller ==
    ASSUME NEW S, IsFiniteSet(S), NEW s \in SUBSET S, NEW x \in s
    PROVE  /\ IsFiniteSet(s) /\ s \ {x} \in SUBSET S
           /\ ~(Cardinality(s) <= Cardinality(s \ {x}))
<1>1. IsFiniteSet(s)
  BY FS_Subset
<1>2. Cardinality(s) \in Nat
  BY <1>1, FS_CardinalityType
<1>3. Cardinality(s \ {x}) = Cardinality(s) - 1
  BY <1>1, FS_RemoveElement
<1> QED BY <1>1, <1>2, <1>3

-----------------------------------------------------------------------------
(* The recursive function.                                                 *)

Addend(f, g, s) == IF s = {} THEN 0 ELSE f[AnyOf(s)] + g[s \ {AnyOf(s)}]
AddedUp(f, D) == CHOOSE g : g = [s \in D |-> Addend(f, g, s)]
SubsetsUpTo(S, n) == {s \in SUBSET S : Cardinality(s) <= n}

LEMMA SumIsSums == ASSUME NEW f, NEW S PROVE Added(f, S) = AddedUp(f, SUBSET S)[S]
BY DEF Added, SumFunctionOnSet, FoldFunctionOnSet, MapThenFoldSet, AddedUp, Addend, AnyOf

LEMMA Picked == ASSUME NEW s, s # {} PROVE AnyOf(s) \in s
BY DEF AnyOf

(* One set more at a time.                                                 *)
LEMMA SumsUpTo ==
    ASSUME NEW f, NEW S, IsFiniteSet(S)
    PROVE  \A n \in Nat : \E g : g = [s \in SubsetsUpTo(S, n) |-> Addend(f, g, s)]
<1> DEFINE Good(n) == \E g : g = [s \in SubsetsUpTo(S, n) |-> Addend(f, g, s)]
           Bad == {n \in Nat : ~Good(n)}
<1> SUFFICES ASSUME Bad # {} PROVE FALSE
  OBVIOUS
<1>1. PICK n \in Bad : \A m \in Bad : n <= m
  BY LeastNat
<1>2. \A s \in SUBSET S : IsFiniteSet(s) /\ Cardinality(s) \in Nat
  BY FS_Subset, FS_CardinalityType
<1>3. n # 0
  <2> SUFFICES ASSUME n = 0 PROVE Good(0)
    BY <1>1
  <2> DEFINE g == [s \in SubsetsUpTo(S, 0) |-> 0]
  <2>1. \A s \in SubsetsUpTo(S, 0) : s = {}
    BY <1>2, FS_EmptySet DEF SubsetsUpTo
  <2>2. g = [s \in SubsetsUpTo(S, 0) |-> Addend(f, g, s)]
    BY <2>1 DEF Addend
  <2> QED BY <2>2
<1>4. n - 1 \in Nat /\ Good(n - 1)
  BY <1>1, <1>3
<1>5. PICK g : g = [s \in SubsetsUpTo(S, n - 1) |-> Addend(f, g, s)]
  BY <1>4
<1> DEFINE h == [s \in SubsetsUpTo(S, n) |-> Addend(f, g, s)]
<1>6. ASSUME NEW s \in SubsetsUpTo(S, n - 1) PROVE g[s] = h[s]
  <2>1. s \in SubsetsUpTo(S, n)
    BY <1>1, <1>2, <1>6 DEF SubsetsUpTo
  <2>2. g[s] = Addend(f, g, s)
    BY <1>5, <1>6
  <2> QED BY <2>1, <2>2
<1>7. ASSUME NEW s \in SubsetsUpTo(S, n) PROVE Addend(f, g, s) = Addend(f, h, s)
  <2>1. CASE s = {}
    BY <2>1 DEF Addend
  <2>2. CASE s # {}
    <3>1. s \in SUBSET S /\ AnyOf(s) \in s /\ Cardinality(s) <= n
      BY <2>2, Picked DEF SubsetsUpTo
    <3>2. s \ {AnyOf(s)} \in SUBSET S /\ ~(Cardinality(s) <= Cardinality(s \ {AnyOf(s)}))
      BY <3>1, Smaller
    <3>3. Cardinality(s) \in Nat /\ Cardinality(s \ {AnyOf(s)}) \in Nat
      BY <1>2, <3>1, <3>2
    <3>4. s \ {AnyOf(s)} \in SubsetsUpTo(S, n - 1)
      BY <1>1, <3>1, <3>2, <3>3 DEF SubsetsUpTo
    <3>5. g[s \ {AnyOf(s)}] = h[s \ {AnyOf(s)}]
      BY <1>6, <3>4
    <3> HIDE DEF h
    <3> QED BY <2>2, <3>5 DEF Addend
  <2> QED BY <2>1, <2>2
<1>8. h = [s \in SubsetsUpTo(S, n) |-> Addend(f, h, s)]
  <2>1. h = [s \in SubsetsUpTo(S, n) |-> Addend(f, g, s)]
    OBVIOUS
  <2> HIDE DEF h
  <2> QED BY <1>7, <2>1
<1>9. Good(n)
  BY <1>8
<1> QED BY <1>1, <1>9

LEMMA SumsExist ==
    ASSUME NEW f, NEW S, IsFiniteSet(S)
    PROVE  LET g == AddedUp(f, SUBSET S) IN \A s \in SUBSET S : g[s] = Addend(f, g, s)
<1>1. Cardinality(S) \in Nat /\ SubsetsUpTo(S, Cardinality(S)) = SUBSET S
  <2>1. Cardinality(S) \in Nat
    BY FS_CardinalityType
  <2>2. \A s \in SUBSET S : Cardinality(s) <= Cardinality(S)
    BY FS_Subset
  <2> QED BY <2>1, <2>2 DEF SubsetsUpTo
<1>2. \E g : g = [s \in SubsetsUpTo(S, Cardinality(S)) |-> Addend(f, g, s)]
  <2>1. PICK n \in Nat : n = Cardinality(S)
    BY <1>1
  <2>2. \E g : g = [s \in SubsetsUpTo(S, n) |-> Addend(f, g, s)]
    BY SumsUpTo
  <2> QED BY <2>1, <2>2
<1>3. \E g : g = [s \in SUBSET S |-> Addend(f, g, s)]
  BY <1>1, <1>2
<1> DEFINE g == AddedUp(f, SUBSET S)
<1>4. g = [s \in SUBSET S |-> Addend(f, g, s)]
  BY <1>3 DEF AddedUp
<1> HIDE DEF g
<1> QED BY <1>4 DEF g

(* Whatever set it is taken from, a subset has the same sum.               *)
LEMMA SumsAgree ==
    ASSUME NEW f, NEW S, IsFiniteSet(S), NEW T \in SUBSET S
    PROVE  AddedUp(f, SUBSET S)[T] = Added(f, T)
<1> DEFINE g == AddedUp(f, SUBSET S)
           h == AddedUp(f, SUBSET T)
           Bad == {s \in SUBSET T : g[s] # h[s]}
<1>1. IsFiniteSet(T)
  BY FS_Subset
<1>2. \A s \in SUBSET T : g[s] = Addend(f, g, s) /\ h[s] = Addend(f, h, s)
  BY <1>1, SumsExist
<1> HIDE DEF g, h
<1>3. Bad = {}
  <2> SUFFICES ASSUME Bad # {} PROVE FALSE
    OBVIOUS
  <2>1. PICK s \in Bad : \A t \in Bad : Cardinality(s) <= Cardinality(t)
    <3>1. Bad \in SUBSET SUBSET T
      OBVIOUS
    <3> HIDE DEF Bad
    <3> QED BY <1>1, <3>1, LeastSet
  <2>2. s # {}
    BY <1>2, <2>1 DEF Addend
  <2>3. AnyOf(s) \in s
    BY <2>2, Picked
  <2>4. s \ {AnyOf(s)} \in SUBSET T /\ s \ {AnyOf(s)} \notin Bad
    BY <1>1, <2>1, <2>3, Smaller
  <2>5. g[s \ {AnyOf(s)}] = h[s \ {AnyOf(s)}]
    BY <2>4
  <2> QED BY <1>2, <2>1, <2>2, <2>5 DEF Addend
<1> QED BY <1>3, SumIsSums DEF g, h

-----------------------------------------------------------------------------
(* What sums do.                                                           *)

(* The sum of nothing, and that of a set by one of its elements.           *)
LEMMA SumStep ==
    ASSUME NEW f, NEW S, IsFiniteSet(S)
    PROVE  Added(f, S) = IF S = {} THEN 0 ELSE f[AnyOf(S)] + Added(f, S \ {AnyOf(S)})
<1> DEFINE g == AddedUp(f, SUBSET S)
<1>1. Added(f, S) = Addend(f, g, S)
  BY SumIsSums, SumsExist
<1>2. \A T \in SUBSET S : g[T] = Added(f, T)
  BY SumsAgree
<1> HIDE DEF g
<1> QED BY <1>1, <1>2 DEF Addend

LEMMA SumEmpty == ASSUME NEW f PROVE SumFunctionOnSet(f, {}) = 0
BY SumStep, FS_EmptySet DEF Added

(* A sum is an integer, and any element may be taken out of it.            *)
LEMMA SumInt ==
    ASSUME NEW f, NEW S, IsFiniteSet(S), \A x \in S : f[x] \in Int
    PROVE  SumFunctionOnSet(f, S) \in Int
<1> DEFINE Bad == {s \in SUBSET S : Added(f, s) \notin Int}
<1>1. Bad = {}
  <2> SUFFICES ASSUME Bad # {} PROVE FALSE
    OBVIOUS
  <2>1. PICK s \in Bad : \A t \in Bad : Cardinality(s) <= Cardinality(t)
    <3>1. Bad \in SUBSET SUBSET S
      OBVIOUS
    <3> HIDE DEF Bad
    <3> QED BY <3>1, LeastSet
  <2>2. s \in SUBSET S /\ Added(f, s) \notin Int
    BY <2>1
  <2>3. IsFiniteSet(s)
    BY <2>2, FS_Subset
  <2>4. s # {}
    BY <2>2, SumEmpty DEF Added
  <2>5. AnyOf(s) \in s /\ Added(f, s) = f[AnyOf(s)] + Added(f, s \ {AnyOf(s)})
    BY <2>3, <2>4, Picked, SumStep
  <2>6. s \ {AnyOf(s)} \in SUBSET S /\ s \ {AnyOf(s)} \notin Bad
    BY <2>1, <2>2, <2>5, Smaller
  <2> QED BY <2>2, <2>5, <2>6
<1> QED BY <1>1 DEF Added

LEMMA SumRemove ==
    ASSUME NEW f, NEW S, IsFiniteSet(S), \A x \in S : f[x] \in Int
    PROVE  \A x \in S : SumFunctionOnSet(f, S) = f[x] + SumFunctionOnSet(f, S \ {x})
<1> DEFINE Good(s) == \A x \in s : Added(f, s) = f[x] + Added(f, s \ {x})
           Bad == {s \in SUBSET S : ~Good(s)}
<1>1. \A s \in SUBSET S : Added(f, s) \in Int
  BY FS_Subset, SumInt DEF Added
<1>2. Bad = {}
  <2> SUFFICES ASSUME Bad # {} PROVE FALSE
    OBVIOUS
  <2>1. PICK s \in Bad : \A t \in Bad : Cardinality(s) <= Cardinality(t)
    <3>1. Bad \in SUBSET SUBSET S
      OBVIOUS
    <3> HIDE DEF Bad
    <3> QED BY <3>1, LeastSet
  <2>2. s \in SUBSET S /\ ~Good(s)
    BY <2>1
  <2>3. IsFiniteSet(s) /\ s # {}
    BY <2>2, FS_Subset
  <2> DEFINE y == AnyOf(s)
  <2>4. y \in s /\ Added(f, s) = f[y] + Added(f, s \ {y})
    BY <2>3, Picked, SumStep
  <2> HIDE DEF y
  <2>5. \A x \in s : Good(s \ {x})
    <3>1. \A x \in s : s \ {x} \in SUBSET S /\ s \ {x} \notin Bad
      BY <2>1, <2>2, Smaller
    <3> QED BY <3>1
  <2>6. ASSUME NEW x \in s, x # y PROVE Added(f, s) = f[x] + Added(f, s \ {x})
    <3>1. (s \ {y}) \ {x} = (s \ {x}) \ {y}
      OBVIOUS
    <3>2. Added(f, s \ {y}) = f[x] + Added(f, (s \ {y}) \ {x})
      BY <2>4, <2>5, <2>6
    <3>3. Added(f, s \ {x}) = f[y] + Added(f, (s \ {x}) \ {y})
      BY <2>4, <2>5, <2>6
    <3>4. f[x] \in Int /\ f[y] \in Int
      BY <2>2, <2>4
    <3>5. Added(f, (s \ {y}) \ {x}) \in Int
      <4>1. (s \ {y}) \ {x} \in SUBSET S
        BY <2>2
      <4> QED BY <1>1, <4>1
    <3> HIDE DEF Good, Bad
    <3>6. Added(f, s) = f[y] + (f[x] + Added(f, (s \ {y}) \ {x}))
      BY <2>4, <3>2
    <3>7. Added(f, s \ {x}) = f[y] + Added(f, (s \ {y}) \ {x})
      BY <3>1, <3>3
    <3>8. \A a, b, c \in Int : a + (b + c) = b + (a + c)
      OBVIOUS
    <3> QED BY <3>4, <3>5, <3>6, <3>7, <3>8
  <2> QED BY <2>2, <2>4, <2>6
<1> QED BY <1>2 DEF Added

LEMMA SumAdd ==
    ASSUME NEW f, NEW S, IsFiniteSet(S), NEW x, x \notin S, \A y \in S \cup {x} : f[y] \in Int
    PROVE  SumFunctionOnSet(f, S \cup {x}) = SumFunctionOnSet(f, S) + f[x]
<1>1. IsFiniteSet(S \cup {x}) /\ (S \cup {x}) \ {x} = S
  BY FS_AddElement
<1>2. SumFunctionOnSet(f, S \cup {x}) = f[x] + SumFunctionOnSet(f, S)
  BY <1>1, SumRemove
<1>3. SumFunctionOnSet(f, S) \in Int
  BY SumInt
<1> QED BY <1>2, <1>3

(* A sum of naturals is one, and no less than each of them.                *)
LEMMA SumOfNaturals ==
    ASSUME NEW f, NEW S, IsFiniteSet(S), \A x \in S : f[x] \in Nat
    PROVE  /\ SumFunctionOnSet(f, S) \in Nat
           /\ \A x \in S : f[x] <= SumFunctionOnSet(f, S)
<1> DEFINE Bad == {s \in SUBSET S : Added(f, s) \notin Nat}
<1>1. Bad = {}
  <2> SUFFICES ASSUME Bad # {} PROVE FALSE
    OBVIOUS
  <2>1. PICK s \in Bad : \A t \in Bad : Cardinality(s) <= Cardinality(t)
    <3>1. Bad \in SUBSET SUBSET S
      OBVIOUS
    <3> HIDE DEF Bad
    <3> QED BY <3>1, LeastSet
  <2>2. s \in SUBSET S /\ Added(f, s) \notin Nat
    BY <2>1
  <2>3. IsFiniteSet(s)
    BY <2>2, FS_Subset
  <2>4. s # {}
    BY <2>2, SumEmpty DEF Added
  <2>5. IsFiniteSet(s) /\ s # {}
    BY <2>3, <2>4
  <2>6. AnyOf(s) \in s /\ Added(f, s) = f[AnyOf(s)] + Added(f, s \ {AnyOf(s)})
    BY <2>5, Picked, SumStep
  <2>7. s \ {AnyOf(s)} \in SUBSET S /\ s \ {AnyOf(s)} \notin Bad
    BY <2>2, <2>1, <2>6, Smaller
  <2> QED BY <2>2, <2>6, <2>7
<1>2. ASSUME NEW x \in S PROVE f[x] <= Added(f, S)
  <2>1. Added(f, S) = f[x] + Added(f, S \ {x})
    BY SumRemove DEF Added
  <2>2. Added(f, S \ {x}) \in Nat
    BY <1>1
  <2> QED BY <2>1, <2>2
<1> QED BY <1>1, <1>2 DEF Added

(* Only the values on the set matter.                                      *)
LEMMA SumOfSame ==
    ASSUME NEW f, NEW g, NEW S, IsFiniteSet(S), \A x \in S : f[x] = g[x]
    PROVE  SumFunctionOnSet(f, S) = SumFunctionOnSet(g, S)
<1> DEFINE Bad == {s \in SUBSET S : Added(f, s) # Added(g, s)}
<1>1. Bad = {}
  <2> SUFFICES ASSUME Bad # {} PROVE FALSE
    OBVIOUS
  <2>1. PICK s \in Bad : \A t \in Bad : Cardinality(s) <= Cardinality(t)
    <3>1. Bad \in SUBSET SUBSET S
      OBVIOUS
    <3> HIDE DEF Bad
    <3> QED BY <3>1, LeastSet
  <2>2. s \in SUBSET S /\ Added(f, s) # Added(g, s)
    BY <2>1
  <2>3. IsFiniteSet(s)
    BY <2>2, FS_Subset
  <2>4. s # {}
    BY <2>2, SumEmpty DEF Added
  <2>5. IsFiniteSet(s) /\ s # {}
    BY <2>3, <2>4
  <2>6. /\ AnyOf(s) \in s
        /\ Added(f, s) = f[AnyOf(s)] + Added(f, s \ {AnyOf(s)})
        /\ Added(g, s) = g[AnyOf(s)] + Added(g, s \ {AnyOf(s)})
    BY <2>5, Picked, SumStep
  <2>7. s \ {AnyOf(s)} \in SUBSET S /\ s \ {AnyOf(s)} \notin Bad
    BY <2>2, <2>1, <2>6, Smaller
  <2> QED BY <2>2, <2>6, <2>7
<1> QED BY <1>1 DEF Added

(* A set of pairs is as large as its parts are together.                   *)
Parts(F, T, s) == {x \in s \X T : x[2] \in F[x[1]]}

LEMMA SumOfParts ==
    ASSUME NEW S, IsFiniteSet(S), NEW T, IsFiniteSet(T), NEW F, NEW f,
           \A x \in S : F[x] \subseteq T /\ f[x] = Cardinality(F[x])
    PROVE  /\ IsFiniteSet(Parts(F, T, S))
           /\ Cardinality(Parts(F, T, S)) = SumFunctionOnSet(f, S)
<1> DEFINE Bad == {s \in SUBSET S : Cardinality(Parts(F, T, s)) # Added(f, s)}
<1>1. \A s \in SUBSET S : IsFiniteSet(Parts(F, T, s))
  <2> SUFFICES ASSUME NEW s \in SUBSET S PROVE IsFiniteSet(Parts(F, T, s))
    OBVIOUS
  <2>1. IsFiniteSet(s \X T)
    BY FS_Subset, FS_Product
  <2>2. Parts(F, T, s) \in SUBSET (s \X T)
    BY DEF Parts
  <2> QED BY <2>1, <2>2, FS_Subset
<1>2. Bad = {}
  <2> SUFFICES ASSUME Bad # {} PROVE FALSE
    OBVIOUS
  <2>1. PICK s \in Bad : \A t \in Bad : Cardinality(s) <= Cardinality(t)
    <3>1. Bad \in SUBSET SUBSET S
      OBVIOUS
    <3> HIDE DEF Bad
    <3> QED BY <3>1, LeastSet
  <2>2. s \in SUBSET S /\ Cardinality(Parts(F, T, s)) # Added(f, s)
    BY <2>1
  <2>3. IsFiniteSet(s)
    BY <2>2, FS_Subset
  <2>4. s # {}
    <3>1. Parts(F, T, {}) = {}
      BY DEF Parts
    <3> QED BY <2>2, <3>1, SumEmpty, FS_EmptySet DEF Added
  <2>5. IsFiniteSet(s) /\ s # {}
    BY <2>3, <2>4
  <2>6. AnyOf(s) \in s /\ Added(f, s) = f[AnyOf(s)] + Added(f, s \ {AnyOf(s)})
    BY <2>5, Picked, SumStep
  <2>7. s \ {AnyOf(s)} \in SUBSET S /\ s \ {AnyOf(s)} \notin Bad
    BY <2>2, <2>1, <2>6, Smaller
  <2>8. PICK y : y = AnyOf(s)
    OBVIOUS
  <2> DEFINE A == Parts(F, T, s \ {y})
             B == {y} \X F[y]
  <2>9. /\ Cardinality(A) = Added(f, s \ {y}) /\ Added(f, s) = f[y] + Added(f, s \ {y})
        /\ y \in s
    BY <2>6, <2>7, <2>8
  <2>10. Parts(F, T, s) = A \cup B
    BY <2>2, <2>9 DEF Parts
  <2>11. A \cap B = {}
    BY DEF Parts
  <2>12. IsFiniteSet(A)
    BY <1>1, <2>7, <2>8
  <2>13. IsFiniteSet(B) /\ Cardinality(B) = f[y] /\ f[y] \in Nat
    <3>1. y \in S /\ F[y] \in SUBSET T /\ f[y] = Cardinality(F[y])
      BY <2>2, <2>9
    <3>2. IsFiniteSet(F[y]) /\ Cardinality(F[y]) \in Nat
      BY <3>1, FS_Subset, FS_CardinalityType
    <3>3. IsFiniteSet({y}) /\ Cardinality({y}) = 1
      BY FS_Singleton
    <3>4. IsFiniteSet(B) /\ Cardinality(B) = Cardinality({y}) * Cardinality(F[y])
      BY <3>2, <3>3, FS_Product
    <3> HIDE DEF B
    <3> QED BY <3>1, <3>2, <3>3, <3>4
  <2>14. Cardinality(A) \in Nat
    BY <2>12, FS_CardinalityType
  <2> HIDE DEF A, B
  <2>15. Cardinality(A \cup B) = Cardinality(A) + Cardinality(B) - Cardinality(A \cap B)
    BY <2>12, <2>13, FS_Union
  <2>16. Cardinality(A \cap B) = 0
    BY <2>11, FS_EmptySet
  <2> QED BY <2>2, <2>9, <2>10, <2>13, <2>14, <2>15, <2>16
<1> QED BY <1>1, <1>2 DEF Added

(* Spans that do not overlap are together no longer than the whole.        *)
Within(s, A, B, h) == \A x \in s : B[x] <= h

LEMMA SumOfSpans ==
    ASSUME NEW S, IsFiniteSet(S), NEW A, NEW B, NEW f, NEW lo \in Nat, NEW hi \in Nat, lo <= hi,
           \A x \in S : /\ A[x] \in Nat /\ B[x] \in Nat /\ f[x] \in Nat
                        /\ lo <= A[x] /\ A[x] <= B[x] /\ B[x] <= hi /\ f[x] <= B[x] - A[x],
           \A x, y \in S : x # y => B[x] <= A[y] \/ B[y] <= A[x]
    PROVE  SumFunctionOnSet(f, S) <= hi - lo
<1> DEFINE Fits(s) == \A h \in Nat : lo <= h /\ Within(s, A, B, h) => Added(f, s) <= h - lo
           Bad == {s \in SUBSET S : ~Fits(s)}
<1>1. Bad = {}
  <2> SUFFICES ASSUME Bad # {} PROVE FALSE
    OBVIOUS
  <2>1. PICK s \in Bad : \A t \in Bad : Cardinality(s) <= Cardinality(t)
    <3>1. Bad \in SUBSET SUBSET S
      OBVIOUS
    <3> HIDE DEF Bad
    <3> QED BY <3>1, LeastSet
  <2>2. s \in SUBSET S /\ ~Fits(s) /\ IsFiniteSet(s)
    BY <2>1, FS_Subset
  <2>3. PICK h \in Nat : lo <= h /\ Within(s, A, B, h) /\ ~(Added(f, s) <= h - lo)
    BY <2>2
  <2>4. s # {}
    <3>1. Added(f, {}) = 0 /\ 0 <= h - lo
      BY <2>3, SumEmpty DEF Added
    <3>2. s = {} => Added(f, s) = 0
      BY <3>1
    <3> QED BY <2>3, <3>1, <3>2
  <2>5. PICK x \in s : \A y \in s : A[y] <= A[x]
    <3> DEFINE N == {A[y] : y \in s}
    <3>1. N \subseteq Nat /\ N # {} /\ \A n \in N : n <= hi
      BY <2>2, <2>4
    <3>2. PICK n \in N : \A m \in N : m <= n
      <4> HIDE DEF N
      <4> QED BY <3>1, GreatestNat
    <3> QED BY <3>2
  <2>6. s \ {x} \in SUBSET S /\ s \ {x} \notin Bad
    BY <2>1, <2>2, Smaller
  <2>7. Fits(s \ {x})
    BY <2>6
  <2>8. /\ Added(f, s) = f[x] + Added(f, s \ {x})
        /\ Added(f, s \ {x}) \in Int
    <3>1. \A y \in s : f[y] \in Int
      BY <2>2
    <3>2. IsFiniteSet(s \ {x})
      BY <2>2, FS_RemoveElement
    <3> QED BY <2>2, <3>1, <3>2, SumRemove, SumInt DEF Added
  <2>9. /\ x \in S /\ A[x] \in Nat /\ B[x] \in Nat /\ f[x] \in Nat /\ lo <= A[x] /\ A[x] <= B[x]
        /\ f[x] <= B[x] - A[x] /\ B[x] <= h
    BY <2>2, <2>3, <2>5 DEF Within
  <2>10. CASE Within(s \ {x}, A, B, A[x])
    <3>1. Added(f, s \ {x}) <= A[x] - lo
      BY <2>7, <2>9, <2>10
    <3> QED BY <2>3, <2>8, <2>9, <3>1
  <2>11. CASE ~Within(s \ {x}, A, B, A[x])
    <3>1. PICK y \in s \ {x} : ~(B[y] <= A[x])
      BY <2>11 DEF Within
    <3>2. B[x] <= A[y] /\ A[y] <= A[x] /\ A[y] \in Nat
      BY <2>2, <2>5, <2>9, <3>1
    <3>3. f[x] = 0
      BY <2>9, <3>2
    <3>4. Within(s \ {x}, A, B, h)
      BY <2>3 DEF Within
    <3>5. Added(f, s \ {x}) <= h - lo
      BY <2>3, <2>7, <3>4
    <3> QED BY <2>3, <2>8, <3>3, <3>5
  <2> QED BY <2>10, <2>11
<1>2. Within(S, A, B, hi)
  BY DEF Within
<1>3. Fits(S)
  BY <1>1
<1> QED BY <1>2, <1>3 DEF Added

=============================================================================

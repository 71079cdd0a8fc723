-------------------------------- MODULE Sums --------------------------------
(***************************************************************************)
(* The sum of a function over a finite set, as MapThenSumSet computes it,   *)
(* is the number of its units: pairs of an element and a number up to its   *)
(* value.  What a recursive definition computes is found here without an    *)
(* induction rule, by asking for a smallest set where it does not.          *)
(***************************************************************************)
EXTENDS FiniteSetTheorems, TLAPS

Units(f, S) == {u \in S \X Nat : 1 <= u[2] /\ u[2] <= f[u[1]]}

\* How MapThenSumSet adds up, element by element as they are chosen.
Adds(g, f, S) ==
  g = [s \in SUBSET S |->
         IF s = {} THEN 0 ELSE f[CHOOSE x \in s : TRUE] + g[s \ {CHOOSE x \in s : TRUE}]]

Total(f, S) ==
  LET iter[s \in SUBSET S] ==
        IF s = {} THEN 0
                  ELSE LET x == CHOOSE y \in s : TRUE IN f[x] + iter[s \ {x}]
  IN  iter[S]

\* Some smallest member of a family of subsets of a finite set.
LEMMA SmallestSet ==
  ASSUME NEW S, IsFiniteSet(S), NEW F \in SUBSET SUBSET S, F # {}
  PROVE  \E T \in F : \A U \in F : U \subseteq T => U = T
  <1>1. IsWellFoundedOn(StrictSubsetOrdering(S), SUBSET S)
    BY FS_StrictSubsetOrderingWellFounded, FS_FiniteSubsetsOfFinite
  <1>2. PICK T \in F : \A U \in F : ~(<<U, T>> \in StrictSubsetOrdering(S))
    BY <1>1, WFMin
  <1>3. ASSUME NEW U \in F, U \subseteq T PROVE U = T
    BY <1>2, <1>3 DEF StrictSubsetOrdering
  <1> QED  BY <1>3

LEMMA RowUnits ==
  ASSUME NEW x, NEW n \in Nat
  PROVE  IsFiniteSet({x} \X (1..n)) /\ Cardinality({x} \X (1..n)) = n
  <1>1. IsFiniteSet({x}) /\ Cardinality({x}) = 1  BY FS_Singleton
  <1>2. IsFiniteSet(1..n) /\ Cardinality(1..n) = n  BY FS_Interval
  <1>3. IsFiniteSet({x} \X (1..n)) /\ Cardinality({x} \X (1..n)) = Cardinality({x}) * Cardinality(1..n)
    BY <1>1, <1>2, FS_Product
  <1> QED  BY <1>1, <1>2, <1>3

\* An element more adds its value.
LEMMA UnitsOf ==
  ASSUME NEW S, NEW f, NEW x \in S, f[x] \in Nat, IsFiniteSet(Units(f, S \ {x}))
  PROVE  /\ IsFiniteSet(Units(f, S))
         /\ Cardinality(Units(f, S)) = f[x] + Cardinality(Units(f, S \ {x}))
  <1> DEFINE A == {x} \X (1..f[x])
             B == Units(f, S \ {x})
  <1>1. Units(f, S) = A \cup B  BY DEF Units
  <1>2. A \cap B = {}  BY DEF Units
  <1>3. IsFiniteSet(A) /\ Cardinality(A) = f[x]  BY RowUnits
  <1>4. Cardinality(B) \in Nat  BY FS_CardinalityType
  <1> HIDE DEF A, B
  <1>5. Cardinality(A \cap B) = 0  BY <1>2, FS_EmptySet
  <1>6. IsFiniteSet(B)  BY DEF B
  <1>7. IsFiniteSet(A \cup B) /\ Cardinality(A \cup B) = Cardinality(A) + Cardinality(B) - Cardinality(A \cap B)
    BY <1>3, <1>6, FS_Union
  <1>8. IsFiniteSet(Units(f, S)) /\ Cardinality(Units(f, S)) = f[x] + Cardinality(B)
    BY <1>1, <1>3, <1>4, <1>5, <1>7
  <1> QED  BY <1>8 DEF B

LEMMA UnitsFinite ==
  ASSUME NEW S, IsFiniteSet(S), NEW f, \A x \in S : f[x] \in Nat
  PROVE  \A T \in SUBSET S : IsFiniteSet(Units(f, T))
  <1> DEFINE F == {T \in SUBSET S : ~IsFiniteSet(Units(f, T))}
  <1> SUFFICES ASSUME F # {} PROVE FALSE  OBVIOUS
  <1>1. PICK T \in F : \A U \in F : U \subseteq T => U = T
    <2>1. F \in SUBSET SUBSET S  OBVIOUS
    <2> HIDE DEF F
    <2> QED  BY <2>1, SmallestSet
  <1>2. Units(f, {}) = {}  BY DEF Units
  <1>3. T # {}  BY <1>2, FS_EmptySet
  <1>4. PICK x \in T : TRUE  BY <1>3
  <1>5. IsFiniteSet(Units(f, T \ {x}))  BY <1>1, <1>4
  <1> QED  BY <1>1, <1>4, <1>5, UnitsOf

\* Counting units adds up as the sum does, and only one function does.
LEMMA UnitsAdd ==
  ASSUME NEW S, IsFiniteSet(S), NEW f, \A x \in S : f[x] \in Nat
  PROVE  Adds([s \in SUBSET S |-> Cardinality(Units(f, s))], f, S)
  <1> DEFINE h == [s \in SUBSET S |-> Cardinality(Units(f, s))]
  <1>1. ASSUME NEW s \in SUBSET S
        PROVE  h[s] = IF s = {} THEN 0 ELSE f[CHOOSE x \in s : TRUE] + h[s \ {CHOOSE x \in s : TRUE}]
    <2>1. CASE s = {}
      <3>1. Units(f, {}) = {}  BY DEF Units
      <3> QED  BY <2>1, <3>1, FS_EmptySet
    <2>2. CASE s # {}
      <3>1. PICK x : x = CHOOSE y \in s : TRUE  OBVIOUS
      <3>2. x \in s  BY <2>2, <3>1
      <3>3. IsFiniteSet(Units(f, s \ {x}))  BY <3>2, UnitsFinite
      <3>4. h[s] = f[x] + h[s \ {x}]  BY <3>2, <3>3, UnitsOf
      <3> QED  BY <2>2, <3>1, <3>4
    <2> QED  BY <2>1, <2>2
  <1> QED  BY <1>1 DEF Adds

LEMMA AddsOnce ==
  ASSUME NEW S, IsFiniteSet(S), NEW f, NEW g, NEW h, Adds(g, f, S), Adds(h, f, S)
  PROVE  \A s \in SUBSET S : g[s] = h[s]
  <1> DEFINE F == {s \in SUBSET S : g[s] # h[s]}
  <1> SUFFICES ASSUME F # {} PROVE FALSE  OBVIOUS
  <1>1. PICK T \in F : \A U \in F : U \subseteq T => U = T
    <2>1. F \in SUBSET SUBSET S  OBVIOUS
    <2> HIDE DEF F
    <2> QED  BY <2>1, SmallestSet
  <1>2. ASSUME NEW k, Adds(k, f, S)
        PROVE  k[T] = IF T = {} THEN 0 ELSE f[CHOOSE x \in T : TRUE] + k[T \ {CHOOSE x \in T : TRUE}]
    BY <1>1, <1>2 DEF Adds
  <1>3. T # {}  BY <1>1, <1>2
  <1>4. PICK x : x = CHOOSE y \in T : TRUE  OBVIOUS
  <1>5. x \in T  BY <1>3, <1>4
  <1>6. g[T \ {x}] = h[T \ {x}]  BY <1>1, <1>5
  <1> QED  BY <1>1, <1>2, <1>3, <1>4, <1>6

\* The total of a function is the number of its units.
THEOREM TotalCounts ==
  ASSUME NEW S, IsFiniteSet(S), NEW f, \A x \in S : f[x] \in Nat
  PROVE  Total(f, S) = Cardinality(Units(f, S)) /\ Total(f, S) \in Nat
  <1> DEFINE iter[s \in SUBSET S] ==
               IF s = {} THEN 0
                         ELSE LET x == CHOOSE y \in s : TRUE IN f[x] + iter[s \ {x}]
  <1> DEFINE h == [s \in SUBSET S |-> Cardinality(Units(f, s))]
  <1>1. Total(f, S) = iter[S]  BY DEF Total
  <1>2. iter = CHOOSE g : Adds(g, f, S)  BY DEF Adds
  <1>3. Adds(h, f, S)  BY UnitsAdd
  <1> HIDE DEF h, iter
  <1>4. Adds(iter, f, S)  BY <1>2, <1>3
  <1>5. S \in SUBSET S  OBVIOUS
  <1>6. iter[S] = h[S]  BY <1>3, <1>4, <1>5, AddsOnce
  <1>7. IsFiniteSet(Units(f, S))  BY <1>5, UnitsFinite
  <1>8. h[S] = Cardinality(Units(f, S))  BY <1>5 DEF h
  <1> QED  BY <1>1, <1>6, <1>7, <1>8, FS_CardinalityType
\* What is positive only on T, and at most one, adds up to no more than T has elements.
THEOREM TotalBound ==
  ASSUME NEW S, IsFiniteSet(S), NEW f, \A x \in S : f[x] \in Nat /\ f[x] <= 1,
         NEW T, IsFiniteSet(T), \A x \in S : f[x] > 0 => x \in T
  PROVE  Total(f, S) <= Cardinality(T)
  <1>1. Units(f, S) \subseteq T \X {1}  BY DEF Units
  <1>2. IsFiniteSet({1}) /\ Cardinality({1}) = 1  BY FS_Singleton
  <1>3. IsFiniteSet(T \X {1}) /\ Cardinality(T \X {1}) = Cardinality(T) * Cardinality({1})
    BY <1>2, FS_Product
  <1>4. Cardinality(T) \in Nat  BY FS_CardinalityType
  <1>5. Cardinality(Units(f, S)) <= Cardinality(T \X {1})  BY <1>1, <1>3, FS_Subset
  <1> QED  BY <1>2, <1>3, <1>4, <1>5, TotalCounts

\* A total is no less over more elements, and with greater values.
THEOREM TotalGrows ==
  ASSUME NEW T, IsFiniteSet(T), NEW S \in SUBSET T, NEW f, NEW g,
         \A x \in S : f[x] \in Nat /\ f[x] <= g[x], \A x \in T : g[x] \in Nat
  PROVE  Total(f, S) <= Total(g, T)
  <1>1. Units(f, S) \subseteq Units(g, T)  BY DEF Units
  <1>2. IsFiniteSet(Units(g, T))  BY UnitsFinite
  <1>3. Cardinality(Units(f, S)) <= Cardinality(Units(g, T))  BY <1>1, <1>2, FS_Subset
  <1>4. IsFiniteSet(S)  BY FS_Subset
  <1>5. Total(f, S) = Cardinality(Units(f, S))  BY <1>4, TotalCounts
  <1>6. Total(g, T) = Cardinality(Units(g, T))  BY TotalCounts
  <1> QED  BY <1>3, <1>5, <1>6

\* One element's value may be taken out of a total.
THEOREM TotalWith ==
  ASSUME NEW S, IsFiniteSet(S), NEW f, \A x \in S : f[x] \in Nat, NEW x \in S
  PROVE  Total(f, S) = f[x] + Total(f, S \ {x})
  <1>1. IsFiniteSet(S \ {x})  BY FS_Subset
  <1>2. IsFiniteSet(Units(f, S \ {x}))  BY UnitsFinite
  <1>3. Cardinality(Units(f, S)) = f[x] + Cardinality(Units(f, S \ {x}))  BY <1>2, UnitsOf
  <1>4. Total(f, S) = Cardinality(Units(f, S))  BY TotalCounts
  <1>5. Total(f, S \ {x}) = Cardinality(Units(f, S \ {x}))  BY <1>1, TotalCounts
  <1> QED  BY <1>3, <1>4, <1>5
=============================================================================

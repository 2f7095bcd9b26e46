---------------------------- MODULE Sums_proofs ----------------------------
(***************************************************************************)
(* Sums over finite sets: what the conservation laws of stock, transfers   *)
(* and purchases rest on.                                                  *)
(*                                                                         *)
(* The provers take no induction theorem with a predicate as parameter, so *)
(* an induction is an argument about the least counterexample, which is an *)
(* element of a set (LeastNat).                                            *)
(***************************************************************************)
EXTENDS Integers, FiniteSets, FiniteSetsExt, FiniteSetTheorems,
        WellFoundedInduction, TLAPS

(* A set of naturals that is not empty has a least element.                *)
LEMMA LeastNat ==
    ASSUME NEW T, T \subseteq Nat, T # {}
    PROVE  \E x \in T : \A y \in T : x <= y
  <1> DEFINE R == OpToRel(<, Nat)
  <1>1. IsWellFoundedOn(R, Nat)
    BY NatLessThanWellFounded
  <1>2. \A x, y \in Nat : <<y, x>> \in R <=> y < x
    BY DEF OpToRel
  <1> HIDE DEF R
  <1>3. PICK x \in T : \A y \in T : <<y, x>> \notin R
    BY <1>1, WFMin
  <1>4. ASSUME NEW y \in T PROVE x <= y
    <2>1. x \in Nat /\ y \in Nat
      OBVIOUS
    <2>2. ~(y < x)
      BY <1>2, <1>3, <2>1
    <2> QED BY <2>1, <2>2
  <1> QED BY <1>4

(* Induction over the naturals, with a set in the place of the predicate.  *)
LEMMA NatSetInduction ==
    ASSUME NEW P, 0 \in P, \A n \in Nat : n \in P => n + 1 \in P
    PROVE  Nat \subseteq P
  <1> SUFFICES ASSUME Nat \ P # {} PROVE FALSE
    OBVIOUS
  <1>1. PICK x \in Nat \ P : \A y \in Nat \ P : x <= y
    BY LeastNat
  <1>2. x # 0 /\ x - 1 \in Nat /\ x - 1 \in P
    BY <1>1
  <1> QED BY <1>1, <1>2
-----------------------------------------------------------------------------
(* The recursion by which a sum is defined, for the subsets of S that D    *)
(* holds.                                                                  *)
AnyOf(s) == CHOOSE x \in s : TRUE
SumStep(f, g, s) == IF s = {} THEN 0 ELSE f[AnyOf(s)] + g[s \ {AnyOf(s)}]
Recursion(f, D, g) == g = [s \in D |-> SumStep(f, g, s)]
SumsOf(f, S, g) == Recursion(f, SUBSET S, g)
SmallSubsets(S, n) == {s \in SUBSET S : Cardinality(s) <= n}

AgreeOn(f, e, S) == \A x \in S : f[x] = e[x]
IntOn(f, S) == \A x \in S : f[x] \in Int

LEMMA AnyOfIn == \A s : s # {} => AnyOf(s) \in s
  BY DEF AnyOf

LEMMA SumIsStep ==
    ASSUME NEW f, NEW S
    PROVE  SumFunctionOnSet(f, S) = (CHOOSE g : Recursion(f, SUBSET S, g))[S]
  BY DEF SumFunctionOnSet, FoldFunctionOnSet, MapThenFoldSet, Recursion,
     SumStep, AnyOf

(* A set without its picked element is smaller.                            *)
LEMMA Smaller ==
    ASSUME NEW S, IsFiniteSet(S), NEW s \in SUBSET S
    PROVE  /\ IsFiniteSet(s) /\ Cardinality(s) \in Nat
           /\ s # {} => /\ s \ {AnyOf(s)} \in SUBSET S
                        /\ Cardinality(s \ {AnyOf(s)}) = Cardinality(s) - 1
  <1>1. IsFiniteSet(s)
    BY FS_Subset
  <1> QED BY <1>1, FS_CardinalityType, FS_RemoveElement, AnyOfIn

(* The recursion has a solution on the subsets of n elements and less.     *)
LEMMA SumsExist ==
    ASSUME NEW f, NEW S, IsFiniteSet(S), NEW n \in Nat
    PROVE  \E g : Recursion(f, SmallSubsets(S, n), g)
  <1> DEFINE P == {k \in Nat : \E g : Recursion(f, SmallSubsets(S, k), g)}
  <1>1. 0 \in P
    <2> DEFINE g == [s \in SmallSubsets(S, 0) |-> 0]
    <2>1. \A s \in SmallSubsets(S, 0) : s = {}
      <3> SUFFICES ASSUME NEW s \in SmallSubsets(S, 0) PROVE s = {}
        OBVIOUS
      <3>1. s \in SUBSET S /\ Cardinality(s) <= 0
        BY DEF SmallSubsets
      <3>2. IsFiniteSet(s) /\ Cardinality(s) = 0
        <4>1. IsFiniteSet(s) /\ Cardinality(s) \in Nat
          BY <3>1, Smaller
        <4> QED BY <3>1, <4>1
      <3> QED BY <3>2, FS_EmptySet
    <2>2. \A s \in SmallSubsets(S, 0) : SumStep(f, g, s) = 0
      BY <2>1 DEF SumStep
    <2> HIDE DEF SmallSubsets
    <2>3. g = [s \in SmallSubsets(S, 0) |-> SumStep(f, g, s)]
      BY <2>2
    <2> QED BY <2>3 DEF Recursion
  <1>2. ASSUME NEW k \in Nat, k \in P PROVE k + 1 \in P
    <2>1. PICK g : Recursion(f, SmallSubsets(S, k), g)
      BY <1>2
    <2> DEFINE h == [s \in SmallSubsets(S, k + 1) |-> SumStep(f, g, s)]
    <2>2. \A s \in SmallSubsets(S, k) : s \in SmallSubsets(S, k + 1) /\ h[s] = g[s]
      <3> SUFFICES ASSUME NEW s \in SmallSubsets(S, k)
                   PROVE  s \in SmallSubsets(S, k + 1) /\ h[s] = g[s]
        OBVIOUS
      <3>1. s \in SmallSubsets(S, k + 1)
        <4>1. s \in SUBSET S /\ Cardinality(s) <= k
          BY DEF SmallSubsets
        <4>2. Cardinality(s) \in Nat
          BY <4>1, Smaller
        <4>3. Cardinality(s) <= k + 1
          BY <4>1, <4>2
        <4> QED BY <4>1, <4>3 DEF SmallSubsets
      <3>2. g[s] = SumStep(f, g, s)
        BY <2>1 DEF Recursion
      <3> QED BY <3>1, <3>2
    <2>3. \A s \in SmallSubsets(S, k + 1) : s # {} => s \ {AnyOf(s)} \in SmallSubsets(S, k)
      BY Smaller DEF SmallSubsets
    <2>4. \A s \in SmallSubsets(S, k + 1) : SumStep(f, h, s) = SumStep(f, g, s)
      BY <2>2, <2>3 DEF SumStep
    <2>5. h = [s \in SmallSubsets(S, k + 1) |-> SumStep(f, h, s)]
      BY <2>4
    <2> HIDE DEF h
    <2>6. Recursion(f, SmallSubsets(S, k + 1), h)
      BY <2>5 DEF Recursion
    <2> QED BY <2>6
  <1> HIDE DEF P
  <1>3. Nat \subseteq P
    BY <1>1, <1>2, NatSetInduction
  <1> QED BY <1>3 DEF P

(* So the sums of the subsets of S are those of the recursion.             *)
LEMMA SumsDefined ==
    ASSUME NEW f, NEW S, IsFiniteSet(S)
    PROVE  \E g : SumsOf(f, S, g) /\ SumFunctionOnSet(f, S) = g[S]
  <1>1. Cardinality(S) \in Nat /\ SmallSubsets(S, Cardinality(S)) = SUBSET S
    BY FS_CardinalityType, FS_Subset DEF SmallSubsets
  <1>2. \E g : Recursion(f, SUBSET S, g)
    <2>1. \E g : Recursion(f, SmallSubsets(S, Cardinality(S)), g)
      BY <1>1, SumsExist
    <2> QED BY <1>1, <2>1
  <1>3. Recursion(f, SUBSET S, CHOOSE g : Recursion(f, SUBSET S, g))
    BY <1>2
  <1> QED BY <1>3, SumIsStep DEF SumsOf

(* Induction over the subsets of a finite set, by their number of elements *)
(* and with a set in the place of the predicate.                           *)
LEMMA SubsetInduction ==
    ASSUME NEW S, IsFiniteSet(S), NEW P,
           {} \in P,
           \A s \in SUBSET S :
               s # {} /\ (\A t \in SUBSET s : t # s => t \in P) => s \in P
    PROVE  SUBSET S \subseteq P
  <1> DEFINE Q == {n \in Nat : \A s \in SUBSET S :
                                  Cardinality(s) <= n => s \in P}
  <1>1. 0 \in Q
    <2>1. ASSUME NEW s \in SUBSET S, Cardinality(s) <= 0 PROVE s \in P
      <3>1. IsFiniteSet(s) /\ Cardinality(s) \in Nat
        BY Smaller
      <3>2. Cardinality(s) = 0
        BY <2>1, <3>1
      <3> QED BY <3>1, <3>2, FS_EmptySet
    <2> QED BY <2>1
  <1>2. ASSUME NEW n \in Nat, n \in Q PROVE n + 1 \in Q
    <2>1. ASSUME NEW s \in SUBSET S, Cardinality(s) <= n + 1 PROVE s \in P
      <3>1. IsFiniteSet(s) /\ Cardinality(s) \in Nat
        BY Smaller
      <3>2. ASSUME NEW t \in SUBSET s, t # s PROVE t \in P
        <4>1. /\ t \in SUBSET S /\ Cardinality(t) <= Cardinality(s)
              /\ Cardinality(t) # Cardinality(s)
          BY <3>1, <3>2, FS_Subset
        <4>2. Cardinality(t) \in Nat
          BY <4>1, Smaller
        <4>3. Cardinality(t) <= n
          BY <2>1, <3>1, <4>1, <4>2
        <4> QED BY <1>2, <4>1, <4>3
      <3> QED BY <3>2
    <2> QED BY <2>1
  <1> HIDE DEF Q
  <1>3. Nat \subseteq Q
    BY <1>1, <1>2, NatSetInduction
  <1>4. ASSUME NEW s \in SUBSET S PROVE s \in P
    <2>1. Cardinality(s) \in Nat
      BY Smaller
    <2>2. Cardinality(s) \in Q
      BY <1>3, <2>1
    <2>3. Cardinality(s) <= Cardinality(s)
      BY <2>1
    <2> QED BY <2>2, <2>3 DEF Q
  <1> QED BY <1>4

(* Functions that agree on a set have the same sum, whatever larger set    *)
(* the recursion is over.                                                  *)
LEMMA SumsAgree ==
    ASSUME NEW S, NEW T, NEW U, IsFiniteSet(U), U \subseteq S, U \subseteq T,
           NEW f, NEW e, AgreeOn(f, e, U),
           NEW g, SumsOf(f, S, g), NEW h, SumsOf(e, T, h)
    PROVE  g[U] = h[U]
  <1> DEFINE P == {s \in SUBSET U : g[s] = h[s]}
  <1>1. \A s \in SUBSET U : g[s] = SumStep(f, g, s) /\ h[s] = SumStep(e, h, s)
    BY DEF Recursion, SumsOf
  <1>2. {} \in P
    BY <1>1 DEF SumStep
  <1>3. ASSUME NEW s \in SUBSET U, s # {},
               \A t \in SUBSET s : t # s => t \in P
        PROVE  s \in P
    <2>1. AnyOf(s) \in s
      BY <1>3, AnyOfIn
    <2>2. s \ {AnyOf(s)} \in P
      BY <1>3, <2>1
    <2>3. f[AnyOf(s)] = e[AnyOf(s)]
      BY <2>1 DEF AgreeOn
    <2> QED BY <1>1, <1>3, <2>2, <2>3 DEF SumStep
  <1> HIDE DEF P
  <1>4. SUBSET U \subseteq P
    BY <1>2, <1>3, SubsetInduction
  <1> QED BY <1>4 DEF P

LEMMA SumSame ==
    ASSUME NEW S, IsFiniteSet(S), NEW f, NEW e, \A x \in S : f[x] = e[x]
    PROVE  SumFunctionOnSet(f, S) = SumFunctionOnSet(e, S)
  <1>1. PICK g : SumsOf(f, S, g) /\ SumFunctionOnSet(f, S) = g[S]
    BY SumsDefined
  <1>2. PICK h : SumsOf(e, S, h) /\ SumFunctionOnSet(e, S) = h[S]
    BY SumsDefined
  <1>3. S \subseteq S /\ AgreeOn(f, e, S)
    BY DEF AgreeOn
  <1>4. g[S] = h[S]
    BY <1>1, <1>2, <1>3, SumsAgree
  <1> QED BY <1>1, <1>2, <1>4

LEMMA SumEmpty == \A f : SumFunctionOnSet(f, {}) = 0
  <1> SUFFICES ASSUME NEW f PROVE SumFunctionOnSet(f, {}) = 0
    OBVIOUS
  <1>1. PICK g : SumsOf(f, {}, g) /\ SumFunctionOnSet(f, {}) = g[{}]
    BY FS_EmptySet, SumsDefined
  <1> QED BY <1>1 DEF Recursion, SumsOf, SumStep

(* A sum of elements of V is in V, for V closed under addition.            *)
LEMMA SumClosed ==
    ASSUME NEW V, 0 \in V, \A a, b \in V : a + b \in V,
           NEW S, IsFiniteSet(S), NEW f, \A x \in S : f[x] \in V,
           NEW g, SumsOf(f, S, g)
    PROVE  \A s \in SUBSET S : g[s] \in V
  <1> DEFINE P == {s \in SUBSET S : g[s] \in V}
  <1>1. \A s \in SUBSET S : g[s] = SumStep(f, g, s)
    BY DEF Recursion, SumsOf
  <1>2. {} \in P
    BY <1>1 DEF SumStep
  <1>3. ASSUME NEW s \in SUBSET S, s # {},
               \A t \in SUBSET s : t # s => t \in P
        PROVE  s \in P
    <2>1. AnyOf(s) \in s
      BY <1>3, AnyOfIn
    <2>2. s \ {AnyOf(s)} \in P
      BY <1>3, <2>1
    <2>3. f[AnyOf(s)] \in V /\ g[s \ {AnyOf(s)}] \in V
      BY <2>1, <2>2
    <2>4. f[AnyOf(s)] + g[s \ {AnyOf(s)}] \in V
      BY <2>3
    <2>5. g[s] = f[AnyOf(s)] + g[s \ {AnyOf(s)}]
      BY <1>1, <1>3 DEF SumStep
    <2> QED BY <2>4, <2>5
  <1> HIDE DEF P
  <1>4. SUBSET S \subseteq P
    BY <1>2, <1>3, SubsetInduction
  <1> QED BY <1>4 DEF P

LEMMA SumInt ==
    ASSUME NEW S, IsFiniteSet(S), NEW f, \A x \in S : f[x] \in Int
    PROVE  SumFunctionOnSet(f, S) \in Int
  <1>1. 0 \in Int /\ \A u, v \in Int : u + v \in Int
    OBVIOUS
  <1>2. PICK g : SumsOf(f, S, g) /\ SumFunctionOnSet(f, S) = g[S]
    BY SumsDefined
  <1>3. \A s \in SUBSET S : g[s] \in Int
    BY <1>1, <1>2, SumClosed, Zenon
  <1> QED BY <1>2, <1>3

LEMMA SumNat ==
    ASSUME NEW S, IsFiniteSet(S), NEW f, \A x \in S : f[x] \in Nat
    PROVE  SumFunctionOnSet(f, S) \in Nat
  <1>1. 0 \in Nat /\ \A a, b \in Nat : a + b \in Nat
    OBVIOUS
  <1>2. PICK g : SumsOf(f, S, g) /\ SumFunctionOnSet(f, S) = g[S]
    BY SumsDefined
  <1>3. \A s \in SUBSET S : g[s] \in Nat
    BY <1>1, <1>2, SumClosed, Zenon
  <1> QED BY <1>2, <1>3

(* Any element may be taken first, not only the picked one.                *)
LEMMA SumsRemove ==
    ASSUME NEW S, IsFiniteSet(S), NEW f, IntOn(f, S),
           NEW g, SumsOf(f, S, g), NEW a \in S
    PROVE  g[S] = f[a] + g[S \ {a}]
  <1> DEFINE P == {s \in SUBSET S : \A x \in s : g[s] = f[x] + g[s \ {x}]}
  <1>1. \A s \in SUBSET S : g[s] = SumStep(f, g, s)
    BY DEF Recursion, SumsOf
  <1>2. {} \in P
    OBVIOUS
  <1>3. ASSUME NEW s \in SUBSET S, s # {},
               \A t \in SUBSET s : t # s => t \in P
        PROVE  s \in P
    <2> DEFINE p == AnyOf(s)
    <2>1. p \in s /\ g[s] = f[p] + g[s \ {p}]
      BY <1>1, <1>3, AnyOfIn DEF SumStep
    <2> HIDE DEF p
    <2>2. ASSUME NEW x \in s, x # p PROVE g[s] = f[x] + g[s \ {x}]
      <3> DEFINE r == s \ {p, x}
      <3>1. s \ {p} \in P /\ s \ {x} \in P
        BY <1>3, <2>1
      <3>2. (s \ {p}) \ {x} = r /\ (s \ {x}) \ {p} = r
        OBVIOUS
      <3>3. x \in s \ {p} /\ p \in s \ {x} /\ r \in SUBSET S
        BY <2>1, <2>2
      <3> HIDE DEF r
      <3>4. g[s \ {p}] = f[x] + g[r]
        BY <3>1, <3>2, <3>3
      <3>5. g[s \ {x}] = f[p] + g[r]
        BY <3>1, <3>2, <3>3
      <3>6. f[x] \in Int /\ f[p] \in Int
        BY <2>1 DEF IntOn
      <3>7. g[r] \in Int
        <4>1. 0 \in Int /\ \A u, v \in Int : u + v \in Int
          OBVIOUS
        <4>2. \A y \in S : f[y] \in Int
          BY DEF IntOn
        <4> QED BY <3>3, <4>1, <4>2, SumClosed
      <3> QED BY <2>1, <3>4, <3>5, <3>6, <3>7
    <2> QED BY <2>1, <2>2
  <1> HIDE DEF P
  <1>4. SUBSET S \subseteq P
    BY <1>2, <1>3, SubsetInduction
  <1>5. S \in P
    BY <1>4
  <1> QED BY <1>5 DEF P

LEMMA SumRemove ==
    ASSUME NEW S, IsFiniteSet(S), NEW f, \A x \in S : f[x] \in Int,
           NEW a \in S
    PROVE  SumFunctionOnSet(f, S) = f[a] + SumFunctionOnSet(f, S \ {a})
  <1>1. PICK g : SumsOf(f, S, g) /\ SumFunctionOnSet(f, S) = g[S]
    BY SumsDefined
  <1>2. IsFiniteSet(S \ {a})
    BY FS_RemoveElement
  <1>3. PICK h : /\ SumsOf(f, S \ {a}, h)
                 /\ SumFunctionOnSet(f, S \ {a}) = h[S \ {a}]
    BY <1>2, SumsDefined
  <1>4. g[S \ {a}] = h[S \ {a}]
    <2>1. S \ {a} \subseteq S /\ S \ {a} \subseteq S \ {a}
      OBVIOUS
    <2>2. AgreeOn(f, f, S \ {a})
      BY DEF AgreeOn
    <2> QED BY <1>1, <1>2, <1>3, <2>1, <2>2, SumsAgree
  <1>5. g[S] = f[a] + g[S \ {a}]
    <2>1. IntOn(f, S)
      BY DEF IntOn
    <2> QED BY <1>1, <2>1, SumsRemove
  <1> QED BY <1>1, <1>3, <1>4, <1>5

(* A sum over one element more.                                            *)
LEMMA SumAdd ==
    ASSUME NEW S, IsFiniteSet(S), NEW a, a \notin S,
           NEW f, \A x \in S \cup {a} : f[x] \in Int
    PROVE  SumFunctionOnSet(f, S \cup {a}) = f[a] + SumFunctionOnSet(f, S)
  <1>1. IsFiniteSet(S \cup {a}) /\ (S \cup {a}) \ {a} = S
    BY FS_AddElement
  <1>2. SumFunctionOnSet(f, S \cup {a})
          = f[a] + SumFunctionOnSet(f, (S \cup {a}) \ {a})
    BY <1>1, SumRemove
  <1> QED BY <1>1, <1>2

(* A sum in which one element has changed.                                 *)
LEMMA SumUpdate ==
    ASSUME NEW S, IsFiniteSet(S), NEW a \in S,
           NEW f, \A x \in S : f[x] \in Int,
           NEW e, e[a] \in Int, \A x \in S : x # a => e[x] = f[x]
    PROVE  SumFunctionOnSet(e, S) = SumFunctionOnSet(f, S) + (e[a] - f[a])
  <1>1. \A x \in S : e[x] \in Int
    OBVIOUS
  <1>2. IsFiniteSet(S \ {a})
    BY FS_RemoveElement
  <1>3. SumFunctionOnSet(e, S \ {a}) = SumFunctionOnSet(f, S \ {a})
    BY <1>2, SumSame
  <1>4. SumFunctionOnSet(e, S) = e[a] + SumFunctionOnSet(e, S \ {a})
    BY <1>1, SumRemove
  <1>5. SumFunctionOnSet(f, S) = f[a] + SumFunctionOnSet(f, S \ {a})
    BY SumRemove
  <1>6. SumFunctionOnSet(f, S \ {a}) \in Int
    BY <1>2, SumInt
  <1> QED BY <1>3, <1>4, <1>5, <1>6

LEMMA SumZero ==
    ASSUME NEW S, IsFiniteSet(S), NEW f, \A x \in S : f[x] = 0
    PROVE  SumFunctionOnSet(f, S) = 0
  <1>1. 0 \in {0} /\ \A a, b \in {0} : a + b \in {0}
    OBVIOUS
  <1>2. PICK g : SumsOf(f, S, g) /\ SumFunctionOnSet(f, S) = g[S]
    BY SumsDefined
  <1>3. \A s \in SUBSET S : g[s] \in {0}
    BY <1>1, <1>2, SumClosed
  <1> QED BY <1>2, <1>3
=============================================================================

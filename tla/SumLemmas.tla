----------------------------- MODULE SumLemmas -----------------------------
(***************************************************************************)
(* What the sums over finite sets of the community modules come to.  They  *)
(* are defined by recursion over the subsets of the set, with an element   *)
(* chosen from each; nothing but the facts below is used of them: the sum  *)
(* over the empty set is 0, any element may be taken out of a sum, and     *)
(* functions that agree on the set have the same sum.                      *)
(*                                                                         *)
(* Every induction is the search for a smallest counterexample: a set of   *)
(* subsets of a finite set has a member none of whose proper subsets is    *)
(* in it.                                                                  *)
(***************************************************************************)
EXTENDS Integers, FiniteSets, FiniteSetsExt, FiniteSetTheorems, WellFoundedInduction, TLAPS

(* The recursion that defines the sum of f over the set S *)
Chosen(s) == CHOOSE x \in s : TRUE
Sums(f, S, g) ==
    g = [s \in SUBSET S |-> IF s = {} THEN 0 ELSE f[Chosen(s)] + g[s \ {Chosen(s)}]]

(* A set of subsets of a finite set has a smallest member *)
LEMMA Smallest ==
    ASSUME NEW S, IsFiniteSet(S), NEW B \in SUBSET SUBSET S, B # {}
    PROVE  \E s \in B : \A t \in SUBSET s : t # s => t \notin B
<1>1. IsWellFoundedOn(StrictSubsetOrdering(S), SUBSET S)
    BY FS_StrictSubsetOrderingWellFounded, FS_FiniteSubsetsOfFinite
<1>2. PICK s \in B : \A t \in B : ~ (<<t, s>> \in StrictSubsetOrdering(S))
    BY <1>1, WFMin
<1>3. \A t \in SUBSET s : t # s => t \notin B
    BY <1>2 DEF StrictSubsetOrdering
<1>. QED  BY <1>3

(* The choice is a member of the set it is from *)
LEMMA ChosenIn == \A s : s # {} => Chosen(s) \in s
BY DEF Chosen

(* Two sums over sets of their own agree on the subsets they share *)
LEMMA SumsAgree ==
    ASSUME NEW f, NEW S, NEW T, IsFiniteSet(S), NEW g, NEW h, Sums(f, S, g), Sums(f, T, h),
           NEW w, w \subseteq S, w \subseteq T
    PROVE  g[w] = h[w]
<1>. DEFINE B == {v \in SUBSET w : g[v] # h[v]}
<1>1. SUFFICES ASSUME B # {} PROVE FALSE
    OBVIOUS
<1>2. IsFiniteSet(w) /\ B \in SUBSET SUBSET w
    BY FS_Subset
<1>3. PICK v \in B : \A u \in SUBSET v : u # v => u \notin B
    <2>. HIDE DEF B
    <2>. QED  BY <1>1, <1>2, Smallest
<1>4. v \subseteq w /\ v \in SUBSET S /\ v \in SUBSET T
    BY <1>3
<1>5. /\ g[v] = IF v = {} THEN 0 ELSE f[Chosen(v)] + g[v \ {Chosen(v)}]
      /\ h[v] = IF v = {} THEN 0 ELSE f[Chosen(v)] + h[v \ {Chosen(v)}]
    BY <1>4 DEF Sums
<1>6. v # {}
    BY <1>5, <1>3
<1>7. v \ {Chosen(v)} # v /\ v \ {Chosen(v)} \in SUBSET v
    BY <1>6, ChosenIn
<1>8. g[v \ {Chosen(v)}] = h[v \ {Chosen(v)}]
    BY <1>7, <1>3, <1>4
<1>. QED  BY <1>3, <1>5, <1>8

(* A finite set has a sum *)
LEMMA SumsExist ==
    ASSUME NEW f, NEW S, IsFiniteSet(S)
    PROVE  \E g : Sums(f, S, g)
<1>. DEFINE B == {T \in SUBSET S : ~ \E g : Sums(f, T, g)}
<1>1. SUFFICES ASSUME B # {} PROVE FALSE
    OBVIOUS
<1>2. PICK T \in B : \A u \in SUBSET T : u # T => u \notin B
    <2>1. B \in SUBSET SUBSET S
        OBVIOUS
    <2>. HIDE DEF B
    <2>. QED  BY <1>1, <2>1, Smallest
<1>. DEFINE H(u) == CHOOSE g : Sums(f, u, g)
            G == [s \in SUBSET T |-> IF s = {} THEN 0
                                     ELSE f[Chosen(s)] + H(s \ {Chosen(s)})[s \ {Chosen(s)}]]
<1>3. ASSUME NEW u \in SUBSET T, u # T PROVE Sums(f, u, H(u)) /\ IsFiniteSet(u)
    <2>1. u \in SUBSET S /\ u \notin B
        BY <1>2, <1>3
    <2>2. \E g : Sums(f, u, g)
        BY <2>1
    <2>. HIDE DEF Sums
    <2>3. Sums(f, u, H(u))
        BY <2>2
    <2>. QED  BY <2>1, <2>3, FS_Subset
<1>4. ASSUME NEW s \in SUBSET T, s # {}
      PROVE  H(s \ {Chosen(s)})[s \ {Chosen(s)}] = G[s \ {Chosen(s)}]
    <2>. DEFINE u == s \ {Chosen(s)}
                v == u \ {Chosen(u)}
    <2>. SUFFICES H(u)[u] = G[u]
        OBVIOUS
    <2>1. u \in SUBSET T /\ u # T
        BY <1>4, ChosenIn
    <2>2. Sums(f, u, H(u)) /\ IsFiniteSet(u)
        BY <2>1, <1>3
    <2>3. H(u)[u] = IF u = {} THEN 0 ELSE f[Chosen(u)] + H(u)[v]
        BY <2>2 DEF Sums
    <2>4. G[u] = IF u = {} THEN 0 ELSE f[Chosen(u)] + H(v)[v]
        BY <2>1
    <2>5. CASE u = {}
        BY <2>3, <2>4, <2>5
    <2>6. CASE u # {}
        <3>1. v \in SUBSET T /\ v # T /\ v \subseteq u
            BY <2>1
        <3>2. Sums(f, v, H(v))
            BY <3>1, <1>3
        <3>. HIDE DEF G, H, u, v
        <3>3. H(u)[v] = H(v)[v]
            BY <2>2, <3>1, <3>2, SumsAgree
        <3>. QED  BY <2>3, <2>4, <2>6, <3>3
    <2>. QED  BY <2>5, <2>6
<1>5. Sums(f, T, G)
    <2>. DEFINE R(s) == IF s = {} THEN 0 ELSE f[Chosen(s)] + G[s \ {Chosen(s)}]
    <2>0. \A s \in SUBSET T : G[s] = IF s = {} THEN 0
                                     ELSE f[Chosen(s)] + H(s \ {Chosen(s)})[s \ {Chosen(s)}]
        OBVIOUS
    <2>1. \A s \in SUBSET T : G[s] = R(s)
        <3>. HIDE DEF G, H
        <3>. QED  BY <1>4, <2>0
    <2>2. G = [s \in SUBSET T |-> G[s]]
        OBVIOUS
    <2>. HIDE DEF G
    <2>3. G = [s \in SUBSET T |-> R(s)]
        BY <2>1, <2>2
    <2>. QED  BY <2>3 DEF Sums
<1>. QED  BY <1>5, <1>2

----------------------------------------------------------------------------
(* The sum of the library is the one the recursion defines *)
LEMMA SumIs ==
    ASSUME NEW f, NEW S, IsFiniteSet(S)
    PROVE  \E g : Sums(f, S, g) /\ SumFunctionOnSet(f, S) = g[S]
<1>1. SumFunctionOnSet(f, S) = (CHOOSE g : Sums(f, S, g))[S]
    BY DEF SumFunctionOnSet, FoldFunctionOnSet, MapThenFoldSet, Sums, Chosen
<1>2. \E g : Sums(f, S, g)
    BY SumsExist
<1>3. Sums(f, S, CHOOSE g : Sums(f, S, g))
    <2>. HIDE DEF Sums
    <2>. QED  BY <1>2
<1>. QED  BY <1>1, <1>3

(* The sum over no element *)
LEMMA SumEmpty == \A f : SumFunctionOnSet(f, {}) = 0
<1>. TAKE f
<1>1. PICK g : Sums(f, {}, g) /\ SumFunctionOnSet(f, {}) = g[{}]
    BY SumIs, FS_EmptySet
<1>. QED  BY <1>1 DEF Sums

(* The chosen element taken out of a sum *)
LEMMA SumStep ==
    ASSUME NEW f, NEW S, IsFiniteSet(S), S # {}
    PROVE  SumFunctionOnSet(f, S) = f[Chosen(S)] + SumFunctionOnSet(f, S \ {Chosen(S)})
<1>. DEFINE R == S \ {Chosen(S)}
<1>1. IsFiniteSet(R) /\ R \subseteq S
    BY FS_Subset
<1>2. PICK g : Sums(f, S, g) /\ SumFunctionOnSet(f, S) = g[S]
    BY SumIs
<1>3. PICK h : Sums(f, R, h) /\ SumFunctionOnSet(f, R) = h[R]
    BY <1>1, SumIs
<1>4. g[S] = f[Chosen(S)] + g[R]
    BY <1>2 DEF Sums
<1>5. g[R] = h[R]
    <2>. HIDE DEF R
    <2>. QED  BY <1>1, <1>2, <1>3, SumsAgree
<1>. QED  BY <1>2, <1>3, <1>4, <1>5

(* Functions that agree on a set have the same sum over it *)
LEMMA SumSame ==
    ASSUME NEW f, NEW g, NEW S, IsFiniteSet(S), \A x \in S : f[x] = g[x]
    PROVE  SumFunctionOnSet(f, S) = SumFunctionOnSet(g, S)
<1>. DEFINE B == {T \in SUBSET S : SumFunctionOnSet(f, T) # SumFunctionOnSet(g, T)}
<1>1. SUFFICES ASSUME B # {} PROVE FALSE
    OBVIOUS
<1>2. PICK T \in B : \A u \in SUBSET T : u # T => u \notin B
    <2>1. B \in SUBSET SUBSET S
        OBVIOUS
    <2>. HIDE DEF B
    <2>. QED  BY <1>1, <2>1, Smallest
<1>3. T # {}
    BY <1>2, SumEmpty
<1>4. IsFiniteSet(T) /\ Chosen(T) \in T
    BY <1>3, FS_Subset, ChosenIn
<1>5. T \ {Chosen(T)} \in SUBSET T /\ T \ {Chosen(T)} # T
    BY <1>4
<1>6. SumFunctionOnSet(f, T \ {Chosen(T)}) = SumFunctionOnSet(g, T \ {Chosen(T)})
    BY <1>2, <1>5
<1>7. f[Chosen(T)] = g[Chosen(T)]
    BY <1>4
<1>8. SumFunctionOnSet(f, T) = SumFunctionOnSet(g, T)
    BY <1>3, <1>4, <1>6, <1>7, SumStep
<1>. QED  BY <1>8, <1>2

(* A sum of integers is one, and so is a sum of natural numbers *)
LEMMA SumType ==
    ASSUME NEW f, NEW S, IsFiniteSet(S),
           NEW N, 0 \in N, \A i, j \in N : i + j \in N, \A x \in S : f[x] \in N
    PROVE  SumFunctionOnSet(f, S) \in N
<1>. DEFINE B == {T \in SUBSET S : SumFunctionOnSet(f, T) \notin N}
<1>1. SUFFICES ASSUME B # {} PROVE FALSE
    OBVIOUS
<1>2. PICK T \in B : \A u \in SUBSET T : u # T => u \notin B
    <2>1. B \in SUBSET SUBSET S
        OBVIOUS
    <2>. HIDE DEF B
    <2>. QED  BY <1>1, <2>1, Smallest
<1>3. T # {}
    BY <1>2, SumEmpty
<1>4. IsFiniteSet(T) /\ Chosen(T) \in T
    BY <1>3, FS_Subset, ChosenIn
<1>5. SumFunctionOnSet(f, T \ {Chosen(T)}) \in N
    BY <1>2, <1>4
<1>6. SumFunctionOnSet(f, T) = f[Chosen(T)] + SumFunctionOnSet(f, T \ {Chosen(T)})
    BY <1>3, <1>4, SumStep
<1>. QED  BY <1>2, <1>4, <1>5, <1>6

(* A sum of integers is an integer.                                         *)
LEMMA SumInt ==
    ASSUME NEW f, NEW S, IsFiniteSet(S), \A x \in S : f[x] \in Int
    PROVE  SumFunctionOnSet(f, S) \in Int
<1>1. 0 \in Int /\ \A i, j \in Int : i + j \in Int
    OBVIOUS
<1>. QED  BY <1>1, SumType

(* A sum of natural numbers is one.                                         *)
LEMMA SumNat ==
    ASSUME NEW f, NEW S, IsFiniteSet(S), \A x \in S : f[x] \in Nat
    PROVE  SumFunctionOnSet(f, S) \in Nat
<1>1. 0 \in Nat /\ \A i, j \in Nat : i + j \in Nat
    OBVIOUS
<1>. QED  BY <1>1, SumType

(* Any element may be taken out of a sum of integers *)
LEMMA SumTakeOut ==
    ASSUME NEW f, NEW S, IsFiniteSet(S), \A x \in S : f[x] \in Int, NEW y \in S
    PROVE  SumFunctionOnSet(f, S) = f[y] + SumFunctionOnSet(f, S \ {y})
<1>. DEFINE Sum(T) == SumFunctionOnSet(f, T)
            B == {T \in SUBSET S : \E x \in T : Sum(T) # f[x] + Sum(T \ {x})}
<1>1. SUFFICES ASSUME B # {} PROVE FALSE
    BY <1>1
<1>2. PICK T \in B : \A u \in SUBSET T : u # T => u \notin B
    <2>1. B \in SUBSET SUBSET S
        OBVIOUS
    <2>. HIDE DEF B
    <2>. QED  BY <1>1, <2>1, Smallest
<1>3. PICK x \in T : Sum(T) # f[x] + Sum(T \ {x})
    BY <1>2
<1>. DEFINE c == Chosen(T)
<1>4. c \in T /\ IsFiniteSet(T)
    BY <1>3, FS_Subset, ChosenIn
<1>5. Sum(T) = f[c] + Sum(T \ {c})
    BY <1>3, <1>4, SumStep
<1>6. c # x
    BY <1>3, <1>5
<1>7. ASSUME NEW u \in SUBSET T, u # T, NEW z \in u PROVE Sum(u) = f[z] + Sum(u \ {z})
    BY <1>2, <1>7
<1>8. Sum(T \ {c}) = f[x] + Sum((T \ {c}) \ {x})
    BY <1>4, <1>6, <1>7
<1>9. Sum(T \ {x}) = f[c] + Sum((T \ {x}) \ {c})
    BY <1>4, <1>6, <1>7
<1>10. (T \ {x}) \ {c} = (T \ {c}) \ {x}
    OBVIOUS
<1>11. Sum((T \ {c}) \ {x}) \in Int
    <2>1. \A z \in (T \ {c}) \ {x} : f[z] \in Int
        OBVIOUS
    <2>2. IsFiniteSet((T \ {c}) \ {x})
        BY <1>4, FS_Subset
    <2>. QED  BY <2>1, <2>2, SumInt
<1>12. f[x] \in Int /\ f[c] \in Int
    BY <1>4
<1>. HIDE DEF c, Sum
<1>. QED  BY <1>3, <1>5, <1>8, <1>9, <1>10, <1>11, <1>12

(* Functions that differ in one element of a set have sums that differ as   *)
(* much                                                                     *)
LEMMA SumChange ==
    ASSUME NEW f, NEW g, NEW S, IsFiniteSet(S),
           \A x \in S : f[x] \in Int /\ g[x] \in Int,
           NEW y \in S, \A x \in S \ {y} : g[x] = f[x]
    PROVE  SumFunctionOnSet(g, S) = SumFunctionOnSet(f, S) + (g[y] - f[y])
<1>1. /\ SumFunctionOnSet(f, S) = f[y] + SumFunctionOnSet(f, S \ {y})
      /\ SumFunctionOnSet(g, S) = g[y] + SumFunctionOnSet(g, S \ {y})
    BY SumTakeOut
<1>2. IsFiniteSet(S \ {y})
    BY FS_Subset
<1>3. SumFunctionOnSet(g, S \ {y}) = SumFunctionOnSet(f, S \ {y})
    BY <1>2, SumSame
<1>4. SumFunctionOnSet(f, S \ {y}) \in Int
    BY <1>2, SumInt
<1>5. f[y] \in Int /\ g[y] \in Int
    OBVIOUS
<1>. QED  BY <1>1, <1>3, <1>4, <1>5

(* The largest element of a finite set of integers, as the library has it   *)
LEMMA MaxIn ==
    ASSUME NEW S \in SUBSET Int, IsFiniteSet(S), S # {}
    PROVE  Max(S) \in S /\ \A y \in S : Max(S) >= y
<1>. DEFINE HasMax(T) == \E x \in T : \A y \in T : x >= y
            B == {T \in SUBSET S : T # {} /\ ~ HasMax(T)}
<1>1. B = {}
    <2>1. SUFFICES ASSUME B # {} PROVE FALSE
        OBVIOUS
    <2>2. PICK T \in B : \A u \in SUBSET T : u # T => u \notin B
        <3>1. B \in SUBSET SUBSET S
            OBVIOUS
        <3>. HIDE DEF B
        <3>. QED  BY <2>1, <3>1, Smallest
    <2>3. PICK c : c \in T
        BY <2>2
    <2>4. T \ {c} # {}
        BY <2>2, <2>3
    <2>5. HasMax(T \ {c})
        BY <2>2, <2>3, <2>4
    <2>6. PICK m \in T \ {c} : \A y \in T \ {c} : m >= y
        BY <2>5
    <2>7. HasMax(T)
        <3>1. \A y \in T : y \in Int
            BY <2>2
        <3>2. CASE m >= c
            BY <2>6, <3>2, <3>1
        <3>3. CASE c > m
            BY <2>3, <2>6, <3>3, <3>1
        <3>. QED  BY <2>3, <2>6, <3>1, <3>2, <3>3
    <2>. QED  BY <2>7, <2>2
<1>2. HasMax(S)
    BY <1>1
<1>. QED  BY <1>2 DEF Max

(* The smallest of a set of natural numbers *)
LEMMA MinIn ==
    ASSUME NEW S \in SUBSET Nat, S # {}
    PROVE  Min(S) \in S
<1>1. PICK x \in S : \A y \in S : ~ (<<y, x>> \in OpToRel(<, Nat))
    BY NatLessThanWellFounded, WFMin
<1>2. \A y \in S : x =< y
    <2>. TAKE y \in S
    <2>1. <<y, x>> \in Nat \X Nat /\ <<y, x>>[1] = y /\ <<y, x>>[2] = x
        OBVIOUS
    <2>2. ~ (y < x)
        BY <1>1, <2>1 DEF OpToRel
    <2>. QED  BY <2>2
<1>. QED  BY <1>2 DEF Min

(* The sum of two functions                                                 *)
LEMMA SumPlus ==
    ASSUME NEW f, NEW g, NEW h, NEW S, IsFiniteSet(S),
           \A x \in S : f[x] \in Int /\ g[x] \in Int /\ h[x] = f[x] + g[x]
    PROVE  SumFunctionOnSet(h, S) = SumFunctionOnSet(f, S) + SumFunctionOnSet(g, S)
<1>. DEFINE Bad(T) == SumFunctionOnSet(h, T) # SumFunctionOnSet(f, T) + SumFunctionOnSet(g, T)
            B == {T \in SUBSET S : Bad(T)}
<1>1. SUFFICES ASSUME B # {} PROVE FALSE
    OBVIOUS
<1>2. PICK T \in B : \A u \in SUBSET T : u # T => u \notin B
    <2>1. B \in SUBSET SUBSET S
        OBVIOUS
    <2>. HIDE DEF B
    <2>. QED  BY <1>1, <2>1, Smallest
<1>3. T # {}
    BY <1>2, SumEmpty
<1>. DEFINE c == Chosen(T)
            R == T \ {c}
<1>4. c \in T /\ R \in SUBSET S /\ R # T /\ IsFiniteSet(T) /\ IsFiniteSet(R)
    BY <1>2, <1>3, ChosenIn, FS_Subset
<1>5. ~Bad(R)
    <2>1. R \notin B
        BY <1>2, <1>4
    <2>. QED  BY <1>4, <2>1
<1>6. /\ SumFunctionOnSet(f, T) = f[c] + SumFunctionOnSet(f, R)
      /\ SumFunctionOnSet(g, T) = g[c] + SumFunctionOnSet(g, R)
      /\ SumFunctionOnSet(h, T) = h[c] + SumFunctionOnSet(h, R)
    BY <1>3, <1>4, SumStep
<1>7. SumFunctionOnSet(f, R) \in Int /\ SumFunctionOnSet(g, R) \in Int
    <2>1. \A x \in R : f[x] \in Int /\ g[x] \in Int
        BY <1>4
    <2>. HIDE DEF R
    <2>. QED  BY <1>4, <2>1, SumInt
<1>8. f[c] \in Int /\ g[c] \in Int /\ h[c] = f[c] + g[c]
    BY <1>2, <1>4
<1>9. Bad(T)
    BY <1>2
<1>. HIDE DEF c, R
<1>. QED  BY <1>5, <1>6, <1>7, <1>8, <1>9

(* The elements of D that F takes into T                                    *)
Having(F, D, T) == {k \in D : F[k] \in T}

(* The numbers of elements with each of the values add up to the number of  *)
(* those that have one of them.                                             *)
LEMMA SumOfCounts ==
    ASSUME NEW D, IsFiniteSet(D), NEW F, NEW C, IsFiniteSet(C), NEW n,
           \A c \in C : n[c] = Cardinality(Having(F, D, {c}))
    PROVE  SumFunctionOnSet(n, C) = Cardinality(Having(F, D, C))
<1>. DEFINE With(T) == Having(F, D, T)
            Bad(T) == SumFunctionOnSet(n, T) # Cardinality(With(T))
            B == {T \in SUBSET C : Bad(T)}
<1>1. SUFFICES ASSUME B # {} PROVE FALSE
    OBVIOUS
<1>2. PICK T \in B : \A u \in SUBSET T : u # T => u \notin B
    <2>1. B \in SUBSET SUBSET C
        OBVIOUS
    <2>. HIDE DEF B
    <2>. QED  BY <1>1, <2>1, Smallest
<1>3. T # {}
    <2>1. With({}) = {}
        BY DEF Having
    <2>2. ~Bad({})
        BY <2>1, SumEmpty, FS_EmptySet
    <2>3. Bad(T)
        BY <1>2
    <2>. HIDE DEF Bad
    <2>. QED  BY <2>2, <2>3
<1>. DEFINE c == Chosen(T)
            R == T \ {c}
            Own == Having(F, D, {c})
<1>4. c \in T /\ R \in SUBSET C /\ R # T /\ IsFiniteSet(T)
    BY <1>2, <1>3, ChosenIn, FS_Subset
<1>5. ~Bad(R)
    <2>1. R \notin B
        BY <1>2, <1>4
    <2>. QED  BY <1>4, <2>1
<1>6. SumFunctionOnSet(n, T) = n[c] + SumFunctionOnSet(n, R)
    BY <1>3, <1>4, SumStep
<1>7. n[c] = Cardinality(Own)
    BY <1>2, <1>4
<1>8. /\ With(R) \in SUBSET D /\ Own \in SUBSET D
      /\ With(T) = With(R) \cup Own /\ With(R) \cap Own = {}
    BY <1>4 DEF Having
<1>9. Bad(T)
    BY <1>2
<1>. HIDE DEF With, Own, c, R
<1>10. IsFiniteSet(With(R)) /\ IsFiniteSet(Own)
    BY <1>8, FS_Subset
<1>11. Cardinality(With(R) \cup Own) = Cardinality(With(R)) + Cardinality(Own) - Cardinality(With(R) \cap Own)
    BY <1>10, FS_Union
<1>12. Cardinality(With(R)) \in Nat /\ Cardinality(Own) \in Nat /\ Cardinality(With(R) \cap Own) = 0
    BY <1>8, <1>10, FS_CardinalityType, FS_EmptySet
<1>. QED  BY <1>5, <1>6, <1>7, <1>8, <1>9, <1>11, <1>12
=============================================================================

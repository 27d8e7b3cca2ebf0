------------------------------ MODULE FiniteSums ------------------------------
(***************************************************************************)
(* Facts about the sum of a function over a finite set, as the folds of    *)
(* the community modules compute it, and about ranks in a finite set.      *)
(***************************************************************************)
EXTENDS Integers, FiniteSetTheorems, WellFoundedInduction, TLAPS

(* Sums over a finite set.  What a recursive definition computes cannot be *)
(* proved by the induction theorems here; a smallest counterexample serves *)
(* instead.  A set of natural numbers that is not empty has a least one.   *)
LEMMA LeastNat ==
  ASSUME NEW T \in SUBSET Nat, T # {}
  PROVE  \E x \in T : \A y \in T : x <= y
<1>1. PICK x \in T : \A y \in T : ~ (<<y, x>> \in OpToRel(<, Nat))
  BY NatLessThanWellFounded, WFMin, Zenon
<1>2. ASSUME NEW y \in T PROVE x <= y
  <2>1. ~ (<<y, x>> \in OpToRel(<, Nat))
    BY <1>1, Zenon
  <2>2. <<y, x>> \in Nat \X Nat
    OBVIOUS
  <2>3. ~(y < x)
    BY <2>1, <2>2, Zenon DEF OpToRel
  <2> QED
    BY <2>3
<1> QED
  BY <1>2

(* Among sets of finite sets there is a smallest one.                      *)
LEMMA SmallestSet ==
  ASSUME NEW S, IsFiniteSet(S), NEW T \in SUBSET (SUBSET S), T # {}
  PROVE  \E s \in T : \A t \in T : t \subseteq s => t = s
<1>1. \A s \in T : IsFiniteSet(s) /\ Cardinality(s) \in Nat
  BY FS_Subset, FS_CardinalityType
<1>2. PICK n \in {Cardinality(s) : s \in T} : \A m \in {Cardinality(s) : s \in T} : n <= m
  <2>1. {Cardinality(s) : s \in T} \in SUBSET Nat /\ {Cardinality(s) : s \in T} # {}
    BY <1>1
  <2> QED
    BY <2>1, LeastNat
<1>3. PICK s \in T : n = Cardinality(s)
  BY <1>2
<1>4. ASSUME NEW t \in T, t \subseteq s PROVE t = s
  <2>1. Cardinality(s) <= Cardinality(t)
    BY <1>2, <1>3
  <2>2. t # s => Cardinality(t) < Cardinality(s)
    BY <1>1, <1>4, FS_Subset
  <2> QED
    BY <1>1, <2>1, <2>2
<1> QED
  BY <1>4

(* The sums of f over the sets of D, element by element.                   *)
First(s) == CHOOSE x \in s : TRUE

Sums(f, D, g) == [s \in D |-> IF s = {} THEN 0 ELSE f[First(s)] + g[s \ {First(s)}]]

AreSums(g, f, S) == g = Sums(f, SUBSET S, g)

(* Its recursion, one set at a time.                                       *)
LEMMA FirstIsIn == \A s : s # {} => First(s) \in s
  BY DEF First

LEMMA SumsAre ==
  ASSUME NEW f, NEW S, NEW g, AreSums(g, f, S)
  PROVE  \A s \in SUBSET S : /\ s = {} => g[s] = 0
                             /\ s # {} => g[s] = f[First(s)] + g[s \ {First(s)}]
<1> SUFFICES ASSUME NEW s \in SUBSET S
             PROVE  g[s] = IF s = {} THEN 0 ELSE f[First(s)] + g[s \ {First(s)}]
  OBVIOUS
<1>1. Sums(f, SUBSET S, g)[s] = IF s = {} THEN 0 ELSE f[First(s)] + g[s \ {First(s)}]
  BY DEF Sums
<1>2. g[s] = Sums(f, SUBSET S, g)[s]
  BY DEF AreSums
<1> QED
  BY <1>1, <1>2, Zenon

(* The function that the recursion defines exists: else there were a least *)
(* cardinality up to which it does not, and the sums of the smaller sets   *)
(* would give it for that one too.                                         *)
UpTo(S, n) == {s \in SUBSET S : Cardinality(s) <= n}

LEMMA SumsExistUpTo ==
  ASSUME NEW S, IsFiniteSet(S), NEW f
  PROVE  \A n \in Nat : \E g : g = Sums(f, UpTo(S, n), g)
<1> DEFINE Bad == {n \in Nat : ~ \E g : g = Sums(f, UpTo(S, n), g)}
<1>1. SUFFICES ASSUME Bad # {} PROVE FALSE
  OBVIOUS
<1>2. PICK n \in Bad : \A m \in Bad : n <= m
  BY <1>1, LeastNat
<1>3. \A s \in SUBSET S : IsFiniteSet(s) /\ Cardinality(s) \in Nat
  BY FS_Subset, FS_CardinalityType
<1>4. \A s \in SUBSET S : s # {} => Cardinality(s \ {First(s)}) = Cardinality(s) - 1
  BY <1>3, FirstIsIn, FS_RemoveElement
<1>5. CASE n = 0
  <2> DEFINE g == [s \in UpTo(S, 0) |-> 0]
  <2>1. \A s \in UpTo(S, 0) : s = {}
    BY <1>3, FS_EmptySet DEF UpTo
  <2>2. g = Sums(f, UpTo(S, 0), g)
    BY <2>1 DEF Sums
  <2> QED
    BY <1>2, <1>5, <2>2
<1>6. CASE n # 0
  <2>1. n - 1 \in Nat /\ n - 1 \notin Bad
    BY <1>2, <1>6
  <2>2. PICK h : h = Sums(f, UpTo(S, n - 1), h)
    BY <2>1
  <2> DEFINE g == Sums(f, UpTo(S, n), h)
  <2>3. \A s \in UpTo(S, n - 1) : s \in UpTo(S, n)
    BY <1>2, <1>3 DEF UpTo
  <2>4. \A s \in UpTo(S, n - 1) : g[s] = h[s]
    BY <2>2, <2>3 DEF Sums
  <2>5. \A s \in UpTo(S, n) : s # {} => s \ {First(s)} \in UpTo(S, n - 1)
    BY <1>2, <1>3, <1>4 DEF UpTo
  <2>6. \A s \in UpTo(S, n) : s # {} => g[s \ {First(s)}] = h[s \ {First(s)}]
    BY <2>4, <2>5
  <2>7. Sums(f, UpTo(S, n), g) = Sums(f, UpTo(S, n), h)
    <3> HIDE DEF g
    <3> QED
      BY <2>6 DEF Sums
  <2> QED
    BY <1>2, <2>7
<1> QED
  BY <1>5, <1>6

Sum(f, S) == (CHOOSE g : AreSums(g, f, S))[S]

LEMMA SumsExist ==
  ASSUME NEW S, IsFiniteSet(S), NEW f
  PROVE  \E g : AreSums(g, f, S)
<1>1. Cardinality(S) \in Nat /\ \A s \in SUBSET S : Cardinality(s) <= Cardinality(S)
  BY FS_Subset, FS_CardinalityType
<1>2. UpTo(S, Cardinality(S)) = SUBSET S
  BY <1>1 DEF UpTo
<1> QED
  BY <1>1, <1>2, SumsExistUpTo DEF AreSums

(* A sum of natural numbers is one, and changes by what one of them does.  *)
LEMMA SumsAreNat ==
  ASSUME NEW S, IsFiniteSet(S), NEW f \in [S -> Nat], NEW g, AreSums(g, f, S)
  PROVE  \A s \in SUBSET S : g[s] \in Nat
<1>g. \A s \in SUBSET S : /\ s = {} => g[s] = 0
                          /\ s # {} => g[s] = f[First(s)] + g[s \ {First(s)}]
  BY SumsAre
<1> DEFINE Bad == {s \in SUBSET S : g[s] \notin Nat}
<1>1. SUFFICES ASSUME Bad # {} PROVE FALSE
  OBVIOUS
<1>2. PICK s \in Bad : \A t \in Bad : t \subseteq s => t = s
  <2>1. Bad \in SUBSET (SUBSET S)
    OBVIOUS
  <2> HIDE DEF Bad
  <2> QED
    BY <1>1, <2>1, SmallestSet
<1>3. s \in SUBSET S /\ g[s] \notin Nat
  BY <1>2
<1>4. s # {}
  <2>1. s = {} => g[s] = 0
    BY <1>g, <1>3, Zenon
  <2> QED
    BY <1>3, <2>1
<1>5. PICK x \in s : g[s] = f[x] + g[s \ {x}]
  BY <1>g, <1>3, <1>4, FirstIsIn
<1>6. g[s \ {x}] \in Nat
  BY <1>2, <1>3, <1>5
<1> QED
  BY <1>3, <1>5, <1>6

(* When f changes at e alone, every sum that has e changes by as much.     *)
LEMMA SumsFollow ==
  ASSUME NEW S, IsFiniteSet(S), NEW e \in S, NEW f \in [S -> Nat], NEW f2 \in [S -> Nat],
         \A x \in S \ {e} : f2[x] = f[x],
         NEW g, AreSums(g, f, S), NEW h, AreSums(h, f2, S)
  PROVE  \A s \in SUBSET S : h[s] = IF e \in s THEN g[s] - f[e] + f2[e] ELSE g[s]
<1>g. \A s \in SUBSET S : /\ s = {} => g[s] = 0
                          /\ s # {} => g[s] = f[First(s)] + g[s \ {First(s)}]
  BY ONLY SumsAre, AreSums(g, f, S)
<1>h. \A s \in SUBSET S : /\ s = {} => h[s] = 0
                          /\ s # {} => h[s] = f2[First(s)] + h[s \ {First(s)}]
  BY ONLY SumsAre, AreSums(h, f2, S)
<1> DEFINE Bad == {s \in SUBSET S : h[s] # IF e \in s THEN g[s] - f[e] + f2[e] ELSE g[s]}
<1>1. SUFFICES ASSUME Bad # {} PROVE FALSE
  OBVIOUS
<1>2. PICK s \in Bad : \A t \in Bad : t \subseteq s => t = s
  <2>1. Bad \in SUBSET (SUBSET S)
    OBVIOUS
  <2> HIDE DEF Bad
  <2> QED
    BY <1>1, <2>1, SmallestSet
<1>3. s \in SUBSET S /\ h[s] # (IF e \in s THEN g[s] - f[e] + f2[e] ELSE g[s])
  BY <1>2
<1>4. s # {}
  <2>1. s = {} => g[s] = 0 /\ h[s] = 0
    BY <1>g, <1>h, <1>3, Zenon
  <2> QED
    BY <1>3, <2>1
<1>5. PICK x \in s : g[s] = f[x] + g[s \ {x}] /\ h[s] = f2[x] + h[s \ {x}]
  BY <1>g, <1>h, <1>3, <1>4, FirstIsIn
<1>6. /\ h[s \ {x}] = (IF e \in s \ {x} THEN g[s \ {x}] - f[e] + f2[e] ELSE g[s \ {x}])
      /\ g[s \ {x}] \in Nat /\ h[s \ {x}] \in Nat
  <2>1. s \ {x} \in SUBSET S /\ s \ {x} \notin Bad
    BY <1>2, <1>3, <1>5
  <2>2. g[s \ {x}] \in Nat /\ h[s \ {x}] \in Nat
    BY <2>1, SumsAreNat, Zenon
  <2> QED
    BY <2>1, <2>2
<1>7. x # e => f2[x] = f[x]
  BY <1>3, <1>5
<1> QED
  BY <1>3, <1>5, <1>6, <1>7

(* The same of the sum over the whole set.                                 *)
LEMMA SumChanges ==
  ASSUME NEW S, IsFiniteSet(S), NEW e \in S, NEW f \in [S -> Nat], NEW f2 \in [S -> Nat],
         \A x \in S \ {e} : f2[x] = f[x]
  PROVE  Sum(f, S) \in Nat /\ Sum(f2, S) = Sum(f, S) - f[e] + f2[e]
<1>1. PICK g : g = (CHOOSE v : AreSums(v, f, S))
  OBVIOUS
<1>2. PICK h : h = (CHOOSE v : AreSums(v, f2, S))
  OBVIOUS
<1>3. AreSums(g, f, S)
  BY <1>1, SumsExist, Zenon
<1>4. AreSums(h, f2, S)
  BY <1>2, SumsExist, Zenon
<1>5. S \in SUBSET S /\ g[S] = Sum(f, S) /\ h[S] = Sum(f2, S)
  BY <1>1, <1>2, Zenon DEF Sum
<1>6. g[S] \in Nat
  BY <1>3, <1>5, SumsAreNat
<1>7. h[S] = g[S] - f[e] + f2[e]
  BY <1>3, <1>4, <1>5, SumsFollow
<1> QED
  BY <1>5, <1>6, <1>7

LEMMA SumIsNat ==
  ASSUME NEW S, IsFiniteSet(S), NEW f \in [S -> Nat]
  PROVE  Sum(f, S) \in Nat
<1>1. PICK g : g = (CHOOSE v : AreSums(v, f, S))
  OBVIOUS
<1>2. AreSums(g, f, S)
  BY <1>1, SumsExist, Zenon
<1> QED
  BY <1>1, <1>2, SumsAreNat, Zenon DEF Sum

(* A sum as its recursion, for the proofs by a smallest set below.         *)
Unfolds(g, f, S) ==
  \A s \in SUBSET S : /\ s = {} => g[s] = 0
                      /\ s # {} => g[s] = f[First(s)] + g[s \ {First(s)}]

LEMMA SumUnfolds ==
  ASSUME NEW S, IsFiniteSet(S), NEW f
  PROVE  \E g : g[S] = Sum(f, S) /\ Unfolds(g, f, S)
<1>1. PICK g : g = (CHOOSE v : AreSums(v, f, S))
  OBVIOUS
<1>2. AreSums(g, f, S)
  BY <1>1, SumsExist, Zenon
<1>3. g[S] = Sum(f, S)
  BY <1>1, Zenon DEF Sum
<1>4. Unfolds(g, f, S)
  BY ONLY <1>2, SumsAre DEF Unfolds
<1> QED
  BY <1>3, <1>4, Zenon

LEMMA SumIsInt ==
  ASSUME NEW S, IsFiniteSet(S), NEW f \in [S -> Int]
  PROVE  Sum(f, S) \in Int
<1>1. PICK g : g[S] = Sum(f, S) /\ Unfolds(g, f, S)
  BY SumUnfolds
<1> DEFINE Bad == {s \in SUBSET S : g[s] \notin Int}
<1>2. ASSUME Bad # {} PROVE FALSE
  <2>1. PICK s \in Bad : \A t \in Bad : t \subseteq s => t = s
    <3>1. Bad \in SUBSET (SUBSET S)
      OBVIOUS
    <3> HIDE DEF Bad
    <3> QED
      BY <1>2, <3>1, SmallestSet
  <2>2. s \in SUBSET S /\ g[s] \notin Int
    BY <2>1
  <2>3. s # {}
    <3>1. s = {} => g[s] = 0
      BY <1>1, <2>2, Zenon DEF Unfolds
    <3> QED
      BY <2>2, <3>1
  <2>4. First(s) \in s /\ g[s] = f[First(s)] + g[s \ {First(s)}]
    BY <1>1, <2>2, <2>3, FirstIsIn, Zenon DEF Unfolds
  <2>5. g[s \ {First(s)}] \in Int
    BY <2>1, <2>2, <2>4
  <2> QED
    BY <2>2, <2>4, <2>5
<1> QED
  BY <1>1, <1>2

(* Sums add up.                                                            *)
Adds(h, f, g, S) ==
  f \in [S -> Int] /\ g \in [S -> Int] /\ h \in [S -> Int] /\ \A x \in S : h[x] = f[x] + g[x]

LEMMA SumAdds ==
  ASSUME NEW S, IsFiniteSet(S), NEW f, NEW g, NEW h, Adds(h, f, g, S)
  PROVE  Sum(h, S) = Sum(f, S) + Sum(g, S)
<1>1. PICK F : F[S] = Sum(f, S) /\ Unfolds(F, f, S)
  BY SumUnfolds
<1>2. PICK G : G[S] = Sum(g, S) /\ Unfolds(G, g, S)
  BY SumUnfolds
<1>3. PICK H : H[S] = Sum(h, S) /\ Unfolds(H, h, S)
  BY SumUnfolds
<1> DEFINE Bad == {s \in SUBSET S : ~ (F[s] \in Int /\ G[s] \in Int /\ H[s] = F[s] + G[s])}
<1>4. ASSUME Bad # {} PROVE FALSE
  <2>1. PICK s \in Bad : \A t \in Bad : t \subseteq s => t = s
    <3>1. Bad \in SUBSET (SUBSET S)
      OBVIOUS
    <3> HIDE DEF Bad
    <3> QED
      BY <1>4, <3>1, SmallestSet
  <2>2. s \in SUBSET S /\ ~ (F[s] \in Int /\ G[s] \in Int /\ H[s] = F[s] + G[s])
    BY <2>1
  <2>3. s # {}
    <3>1. s = {} => F[s] = 0 /\ G[s] = 0 /\ H[s] = 0
      BY <1>1, <1>2, <1>3, <2>2, Zenon DEF Unfolds
    <3> QED
      BY <2>2, <3>1
  <2>4. PICK x \in s : /\ F[s] = f[x] + F[s \ {x}]
                       /\ G[s] = g[x] + G[s \ {x}]
                       /\ H[s] = h[x] + H[s \ {x}]
    BY <1>1, <1>2, <1>3, <2>2, <2>3, FirstIsIn, Zenon DEF Unfolds
  <2>5. F[s \ {x}] \in Int /\ G[s \ {x}] \in Int /\ H[s \ {x}] = F[s \ {x}] + G[s \ {x}]
    BY <2>1, <2>2, <2>4
  <2>6. x \in S /\ f[x] \in Int /\ g[x] \in Int /\ h[x] = f[x] + g[x]
    BY <2>2, <2>4 DEF Adds
  <2> QED
    BY <2>2, <2>4, <2>5, <2>6
<1> QED
  BY <1>1, <1>2, <1>3, <1>4

(* A common factor.                                                        *)
LEMMA Factor == \A c, x, y \in Int : c * (x + y) = c * x + c * y /\ c * x \in Int /\ c * 0 = 0
  OBVIOUS

Scales(g, c, f, S) ==
  c \in Int /\ f \in [S -> Int] /\ g \in [S -> Int] /\ \A x \in S : g[x] = c * f[x]

LEMMA SumScales ==
  ASSUME NEW S, IsFiniteSet(S), NEW c, NEW f, NEW g, Scales(g, c, f, S)
  PROVE  Sum(g, S) = c * Sum(f, S)
<1>1. PICK F : F[S] = Sum(f, S) /\ Unfolds(F, f, S)
  BY SumUnfolds
<1>2. PICK G : G[S] = Sum(g, S) /\ Unfolds(G, g, S)
  BY SumUnfolds
<1> DEFINE Bad == {s \in SUBSET S : ~ (F[s] \in Int /\ G[s] = c * F[s])}
<1>4. ASSUME Bad # {} PROVE FALSE
  <2>1. PICK s \in Bad : \A t \in Bad : t \subseteq s => t = s
    <3>1. Bad \in SUBSET (SUBSET S)
      OBVIOUS
    <3> HIDE DEF Bad
    <3> QED
      BY <1>4, <3>1, SmallestSet
  <2>2. s \in SUBSET S /\ ~ (F[s] \in Int /\ G[s] = c * F[s])
    BY <2>1
  <2>3. s # {}
    <3>1. s = {} => F[s] = 0 /\ G[s] = 0
      BY <1>1, <1>2, <2>2, Zenon DEF Unfolds
    <3>2. c \in Int
      BY DEF Scales
    <3> QED
      BY <2>2, <3>1, <3>2
  <2>4. PICK x \in s : F[s] = f[x] + F[s \ {x}] /\ G[s] = g[x] + G[s \ {x}]
    BY <1>1, <1>2, <2>2, <2>3, FirstIsIn, Zenon DEF Unfolds
  <2>5. F[s \ {x}] \in Int /\ G[s \ {x}] = c * F[s \ {x}]
    BY <2>1, <2>2, <2>4
  <2>6. x \in S /\ f[x] \in Int /\ g[x] = c * f[x] /\ c \in Int
    BY <2>2, <2>4 DEF Scales
  <2>7. c * (f[x] + F[s \ {x}]) = c * f[x] + c * F[s \ {x}]
    BY <2>5, <2>6, Factor
  <2>8. G[s] = c * F[s]
    BY <2>4, <2>5, <2>6, <2>7, Zenon
  <2>9. F[s] \in Int
    BY <2>4, <2>5, <2>6
  <2> QED
    BY <2>2, <2>8, <2>9
<1>5. S \in SUBSET S /\ S \notin Bad
  BY <1>4
<1>6. G[S] = c * F[S]
  BY <1>5
<1> QED
  BY <1>1, <1>2, <1>6, Zenon

LEMMA SumLeq ==
  ASSUME NEW S, IsFiniteSet(S), NEW f \in [S -> Int], NEW g \in [S -> Int],
         \A x \in S : f[x] <= g[x]
  PROVE  Sum(f, S) <= Sum(g, S)
<1> DEFINE d == [x \in S |-> g[x] - f[x]]
<1>1. d \in [S -> Nat] /\ d \in [S -> Int] /\ \A x \in S : g[x] = f[x] + d[x]
  OBVIOUS
<1> HIDE DEF d
<1>2. Sum(d, S) \in Nat /\ Sum(f, S) \in Int
  BY <1>1, SumIsNat, SumIsInt
<1>3. Adds(g, f, d, S)
  BY <1>1 DEF Adds
<1>4. Sum(g, S) = Sum(f, S) + Sum(d, S)
  BY <1>3, SumAdds, Zenon
<1> QED
  BY <1>2, <1>4

(* Ones counted.                                                           *)
LEMMA SumCounts ==
  ASSUME NEW S, IsFiniteSet(S), NEW T \in SUBSET S, NEW f \in [S -> Int],
         \A x \in S : f[x] = IF x \in T THEN 1 ELSE 0
  PROVE  Sum(f, S) = Cardinality(T)
<1>1. PICK F : F[S] = Sum(f, S) /\ Unfolds(F, f, S)
  BY SumUnfolds
<1> DEFINE Bad == {s \in SUBSET S : F[s] # Cardinality(s \cap T)}
<1>2. ASSUME Bad # {} PROVE FALSE
  <2>1. PICK s \in Bad : \A t \in Bad : t \subseteq s => t = s
    <3>1. Bad \in SUBSET (SUBSET S)
      OBVIOUS
    <3> HIDE DEF Bad
    <3> QED
      BY <1>2, <3>1, SmallestSet
  <2>2. s \in SUBSET S /\ F[s] # Cardinality(s \cap T)
    BY <2>1
  <2>3. s # {}
    <3>1. s = {} => F[s] = 0 /\ s \cap T = {}
      BY <1>1, <2>2 DEF Unfolds
    <3> QED
      BY <2>2, <3>1, FS_EmptySet
  <2>4. PICK x \in s : F[s] = f[x] + F[s \ {x}]
    BY <1>1, <2>2, <2>3, FirstIsIn, Zenon DEF Unfolds
  <2>5. F[s \ {x}] = Cardinality((s \ {x}) \cap T)
    BY <2>1, <2>2, <2>4
  <2>6. IsFiniteSet(s \cap T) /\ Cardinality(s \cap T) \in Nat
    BY <2>2, FS_Subset, FS_CardinalityType
  <2>7. CASE x \in T
    <3>1. (s \ {x}) \cap T = (s \cap T) \ {x} /\ x \in s \cap T
      BY <2>4, <2>7
    <3>2. Cardinality((s \cap T) \ {x}) = Cardinality(s \cap T) - 1
      BY <2>6, <3>1, FS_RemoveElement
    <3> QED
      BY <2>2, <2>4, <2>5, <2>6, <2>7, <3>1, <3>2
  <2>8. CASE x \notin T
    <3>1. (s \ {x}) \cap T = s \cap T
      BY <2>8
    <3> QED
      BY <2>2, <2>4, <2>5, <2>6, <2>8, <3>1
  <2> QED
    BY <2>7, <2>8
<1>3. F[S] = Cardinality(S \cap T) /\ S \cap T = T
  BY <1>2
<1> QED
  BY <1>1, <1>3

(* The empty sum.                                                          *)
LEMMA SumEmpty == \A f : Sum(f, {}) = 0
<1> SUFFICES ASSUME NEW f PROVE Sum(f, {}) = 0
  OBVIOUS
<1>1. IsFiniteSet({})
  BY FS_EmptySet
<1>2. PICK g : g[{}] = Sum(f, {}) /\ Unfolds(g, f, {})
  BY <1>1, SumUnfolds, Zenon
<1> QED
  BY <1>2 DEF Unfolds

-----------------------------------------------------------------------------
(* Ranks.  The elements of D that come before one of them: those with more *)
(* of r, and of equals the smaller.                                        *)
Before(r, D, i) == {j \in D : r[j] > r[i] \/ (r[j] = r[i] /\ j < i)}

Rank(r, D) == [i \in D |-> Cardinality(Before(r, D, i))]

LEMMA RanksFollow ==
  ASSUME NEW D \in SUBSET Int, IsFiniteSet(D), NEW r \in [D -> Int]
  PROVE  /\ \A i \in D : Rank(r, D)[i] \in 0 .. Cardinality(D) - 1
         /\ \A i, j \in D : j \in Before(r, D, i) => Rank(r, D)[j] < Rank(r, D)[i]
<1>1. \A i \in D : Before(r, D, i) \in SUBSET D /\ i \notin Before(r, D, i)
  BY DEF Before
<1>2. \A i \in D : IsFiniteSet(Before(r, D, i)) /\ Cardinality(Before(r, D, i)) \in Nat
  BY <1>1, FS_Subset, FS_CardinalityType
<1>3. Cardinality(D) \in Nat
  BY FS_CardinalityType
<1>4. ASSUME NEW i \in D PROVE Cardinality(Before(r, D, i)) < Cardinality(D)
  <2>1. /\ Cardinality(Before(r, D, i)) <= Cardinality(D)
        /\ Cardinality(D) = Cardinality(Before(r, D, i)) => D = Before(r, D, i)
    BY <1>1, FS_Subset
  <2> QED
    BY <1>1, <1>2, <1>3, <2>1
<1>5. ASSUME NEW i \in D, NEW j \in D, j \in Before(r, D, i)
      PROVE  Cardinality(Before(r, D, j)) < Cardinality(Before(r, D, i))
  <2>1. Before(r, D, j) \in SUBSET Before(r, D, i)
    <3>1. ASSUME NEW k \in D, r[k] > r[j] \/ (r[k] = r[j] /\ k < j)
          PROVE  r[k] > r[i] \/ (r[k] = r[i] /\ k < i)
      <4>1. r[k] \in Int /\ r[j] \in Int /\ r[i] \in Int /\ k \in Int /\ j \in Int /\ i \in Int
        OBVIOUS
      <4>2. r[j] > r[i] \/ (r[j] = r[i] /\ j < i)
        BY <1>5 DEF Before
      <4> QED
        BY <3>1, <4>1, <4>2
    <3> QED
      BY <3>1 DEF Before
  <2>2. /\ Cardinality(Before(r, D, j)) <= Cardinality(Before(r, D, i))
        /\ Cardinality(Before(r, D, i)) = Cardinality(Before(r, D, j)) => Before(r, D, i) = Before(r, D, j)
    BY <1>2, <2>1, FS_Subset
  <2> QED
    BY <1>1, <1>2, <1>5, <2>2
<1> QED
  BY <1>2, <1>3, <1>4, <1>5 DEF Rank

(* Every rank is taken, by one element.                                    *)
LEMMA RanksAreTaken ==
  ASSUME NEW D \in SUBSET Int, IsFiniteSet(D), NEW r \in [D -> Int]
  PROVE  /\ \A i, j \in D : Rank(r, D)[i] = Rank(r, D)[j] => i = j
         /\ \A k \in 0 .. Cardinality(D) - 1 : \E i \in D : Rank(r, D)[i] = k
<1> DEFINE n == Cardinality(D)
           f == Rank(r, D)
<1>1. n \in Nat
  BY FS_CardinalityType
<1>2. f \in [D -> 0 .. n - 1]
  BY RanksFollow DEF Rank
<1>3. ASSUME NEW i \in D, NEW j \in D, i # j PROVE f[i] # f[j]
  <2>1. i \in Before(r, D, j) \/ j \in Before(r, D, i)
    <3>1. r[i] \in Int /\ r[j] \in Int /\ i \in Int /\ j \in Int
      OBVIOUS
    <3> QED
      BY <1>3, <3>1 DEF Before
  <2>2. f[i] < f[j] \/ f[j] < f[i]
    BY <2>1, RanksFollow
  <2>3. f[i] \in Int /\ f[j] \in Int
    BY <1>1, <1>2
  <2> QED
    BY <2>2, <2>3
<1>4. f \in Injection(D, 0 .. n - 1)
  BY <1>2, <1>3 DEF Injection, IsInjective
<1>5. IsFiniteSet(0 .. n - 1) /\ Cardinality(0 .. n - 1) = n
  <2>1. /\ IsFiniteSet(0 .. n - 1)
        /\ Cardinality(0 .. n - 1) = IF 0 > n - 1 THEN 0 ELSE n - 1 - 0 + 1
    BY <1>1, FS_Interval
  <2> QED
    BY <1>1, <2>1
<1>6. f \in Surjection(D, 0 .. n - 1)
  BY <1>4, <1>5, FS_Injection
<1> QED
  BY <1>3, <1>6 DEF Surjection

(* So the first m ranks are m elements.                                    *)
LEMMA FirstRanks ==
  ASSUME NEW D \in SUBSET Int, IsFiniteSet(D), NEW r \in [D -> Int], NEW m \in Nat, m <= Cardinality(D)
  PROVE  Cardinality({i \in D : Rank(r, D)[i] < m}) = m
<1> DEFINE W == {i \in D : Rank(r, D)[i] < m}
           f == [i \in W |-> Rank(r, D)[i]]
<1>1. Cardinality(D) \in Nat /\ IsFiniteSet(W)
  BY FS_CardinalityType, FS_Subset
<1>2. f \in [W -> 0 .. m - 1]
  <2>1. ASSUME NEW i \in W PROVE Rank(r, D)[i] \in 0 .. m - 1
    <3>1. Rank(r, D)[i] \in 0 .. Cardinality(D) - 1 /\ Rank(r, D)[i] < m
      BY RanksFollow
    <3> QED
      BY <1>1, <3>1
  <2> QED
    BY <2>1
<1>3. \A i, j \in W : f[i] = f[j] => i = j
  BY RanksAreTaken
<1>4. ASSUME NEW k \in 0 .. m - 1 PROVE \E i \in W : f[i] = k
  <2>1. k \in 0 .. Cardinality(D) - 1 /\ k < m
    BY <1>1
  <2>2. PICK i \in D : Rank(r, D)[i] = k
    BY <2>1, RanksAreTaken
  <2> QED
    BY <2>1, <2>2
<1>5. f \in Bijection(W, 0 .. m - 1)
  BY <1>2, <1>3, <1>4 DEF Bijection, Injection, IsInjective, Surjection
<1>6. Cardinality(0 .. m - 1) = Cardinality(W)
  BY <1>1, <1>5, FS_Bijection DEF ExistsBijection
<1>7. Cardinality(0 .. m - 1) = IF 0 > m - 1 THEN 0 ELSE m - 1 - 0 + 1
  BY FS_Interval
<1> QED
  BY <1>6, <1>7

(* A finite set of integers can be listed in order.                        *)
LEMMA OrderExists ==
  ASSUME NEW D \in SUBSET Int, IsFiniteSet(D)
  PROVE  \E s \in [1 .. Cardinality(D) -> D] : \A i, j \in 1 .. Cardinality(D) : i < j => s[i] < s[j]
<1> DEFINE r == [i \in D |-> 0]
           n == Cardinality(D)
           s == [k \in 1 .. n |-> CHOOSE v \in D : Rank(r, D)[v] = k - 1]
<1>1. n \in Nat /\ r \in [D -> Int]
  BY FS_CardinalityType
<1>2. ASSUME NEW k \in 1 .. n PROVE s[k] \in D /\ Rank(r, D)[s[k]] = k - 1
  <2>1. k - 1 \in 0 .. n - 1
    BY <1>1
  <2>2. \E v \in D : Rank(r, D)[v] = k - 1
    BY <1>1, <2>1, RanksAreTaken
  <2> QED
    BY <2>2
<1>3. ASSUME NEW i \in 1 .. n, NEW j \in 1 .. n, i < j PROVE s[i] < s[j]
  <2>1. s[j] = s[i] \/ s[j] < s[i] \/ s[i] < s[j]
    <3>1. s[i] \in Int /\ s[j] \in Int
      BY <1>2
    <3> HIDE DEF s
    <3> QED
      BY <3>1
  <2>2. s[j] # s[i]
    BY <1>1, <1>2, <1>3
  <2>3. s[j] < s[i] => s[j] \in Before(r, D, s[i])
    BY <1>2 DEF Before
  <2>4. s[j] < s[i] => j - 1 < i - 1
    BY <1>1, <1>2, <2>3, RanksFollow
  <2> QED
    BY <1>3, <2>1, <2>2, <2>4
<1>4. s \in [1 .. n -> D]
  BY <1>2
<1> QED
  BY <1>3, <1>4
=============================================================================

---------------------------- MODULE Shares_proofs ----------------------------
(***************************************************************************)
(* Sums over finite sets, and what the split arithmetic of Shares answers. *)
(*                                                                         *)
(* SumFunction is a fold, hence a CHOOSE over recursively described        *)
(* functions: the first part shows that the function exists, that the      *)
(* order in which the fold picks the elements does not matter, and the     *)
(* few laws of sums everything else rests on.                              *)
(***************************************************************************)
EXTENDS SplitCalls, FiniteSetTheorems, SequenceTheorems,
        WellFoundedInduction, TLAPS

-----------------------------------------------------------------------------
(* Induction, stated over sets: the least-element principles.              *)

\* The naturals in their order, as a set of pairs.
NatLess == {p \in Nat \X Nat : p[1] < p[2]}

\* Every set of naturals with an element has a least one.
LEMMA LeastNatural ==
    ASSUME NEW T \in SUBSET Nat, T # {}
    PROVE  \E n \in T : \A m \in T : n <= m
<1>1. NatLess = OpToRel(<, Nat)
  BY Zenon DEF OpToRel, NatLess
<1>2. IsWellFoundedOn(NatLess, Nat)
  BY <1>1, NatLessThanWellFounded, Zenon
<1>3. PICK n \in T : \A m \in T : ~(<<m, n>> \in NatLess)
  BY <1>2, WFMin
<1>4. ASSUME NEW m \in T PROVE n <= m
  <2>1. n \in Nat /\ m \in Nat
    OBVIOUS
  <2>2. m < n => <<m, n>> \in NatLess
    BY <2>1 DEF NatLess
  <2> QED BY <2>1, <2>2, <1>3
<1> QED BY <1>3, <1>4

\* Induction over the naturals below a bound, over a set of them.
LEMMA UpTo ==
    ASSUME NEW good, NEW N \in Nat, 0 \in good,
           \A n \in Nat : n \in good => n + 1 \in good
    PROVE  N \in good
<1> SUFFICES ASSUME N \notin good PROVE FALSE
  OBVIOUS
<1> DEFINE bad == {n \in Nat : n \notin good}
<1>1. PICK n \in bad : \A m \in bad : n <= m
  BY LeastNatural
<1>2. n # 0 /\ n \in Nat
  OBVIOUS
<1>3. n - 1 \in Nat /\ n - 1 \notin bad
  BY <1>1, <1>2
<1>4. (n - 1) + 1 \in good
  BY <1>3
<1> QED BY <1>2, <1>4

\* Induction over a finite set: what holds of no element and survives one
\* more holds of all.
LEMMA ElementByElement ==
    ASSUME NEW S, IsFiniteSet(S), NEW good, {} \in good,
           \A T \in SUBSET S : \A x \in S \ T : T \in good => T \cup {x} \in good
    PROVE  S \in good
<1> DEFINE sizes == {n \in Nat : \A T \in SUBSET S :
                        Cardinality(T) = n => T \in good}
<1>1. ASSUME NEW T \in SUBSET S
      PROVE  IsFiniteSet(T) /\ Cardinality(T) \in Nat
  BY FS_Subset, FS_CardinalityType
<1>2. 0 \in sizes
  BY <1>1, FS_EmptySet
<1>3. ASSUME NEW n \in Nat, n \in sizes
      PROVE  n + 1 \in sizes
  <2>1. ASSUME NEW T \in SUBSET S, Cardinality(T) = n + 1
        PROVE  T \in good
    <3> HIDE DEF sizes
    <3>0. Cardinality(T) \in Nat /\ Cardinality(T) # 0
      BY <1>1, <2>1, <1>3
    <3>1. T # {}
      BY <3>0, FS_EmptySet
    <3>2. PICK x \in T : TRUE
      BY <3>1
    <3>3. Cardinality(T \ {x}) = n
      <4>1. IsFiniteSet(T) /\ x \in T
        BY <1>1
      <4>2. Cardinality(T \ {x}) = Cardinality(T) - 1
        BY <4>1, FS_RemoveElement
      <4> QED BY <4>2, <2>1, <1>3
    <3>4. T \ {x} \in good
      BY <3>3, <1>3 DEF sizes
    <3>5. T = (T \ {x}) \cup {x}
      OBVIOUS
    <3>6. T \ {x} \in SUBSET S /\ x \in S \ (T \ {x})
      OBVIOUS
    <3>7. (T \ {x}) \cup {x} \in good
      BY <3>4, <3>6
    <3> QED BY <3>5, <3>7
  <2>2. n + 1 \in Nat
    OBVIOUS
  <2> QED BY <2>1, <2>2
<1>4. Cardinality(S) \in sizes
  <2>1. Cardinality(S) \in Nat
    BY <1>1
  <2> HIDE DEF sizes
  <2> QED BY <2>1, <1>2, <1>3, UpTo
<1> QED BY <1>4

-----------------------------------------------------------------------------
(* The fold behind SumFunction is well defined.                            *)

Picked(s) == CHOOSE x \in s : TRUE
SumStep(f, g, s) == IF s = {} THEN 0 ELSE f[Picked(s)] + g[s \ {Picked(s)}]
IsPartialSums(f, S, g) == g = [s \in SUBSET S |-> SumStep(f, g, s)]
PartialSums(f, S) == CHOOSE g : IsPartialSums(f, S, g)

\* SumFunction is the last of the partial sums.
LEMMA SumIsLastPartialSum ==
    ASSUME NEW f
    PROVE  SumFunction(f) = PartialSums(f, DOMAIN f)[DOMAIN f]
BY DEF SumFunction, SumFunctionOnSet, FoldFunctionOnSet, MapThenFoldSet,
       PartialSums, IsPartialSums, SumStep, Picked

\* What is taken out of a finite set that is not empty.
LEMMA PickedShrinks ==
    ASSUME NEW s, IsFiniteSet(s), s # {}
    PROVE  /\ Picked(s) \in s
           /\ Cardinality(s \ {Picked(s)}) = Cardinality(s) - 1
           /\ Cardinality(s) \in Nat
<1>1. Picked(s) \in s
  BY DEF Picked
<1> QED BY <1>1, FS_RemoveElement, FS_CardinalityType

\* The partial sums exist: built up by the number of elements summed.
LEMMA PartialSumsExist ==
    ASSUME NEW S, IsFiniteSet(S), NEW f \in [S -> Int]
    PROVE  \E g \in [SUBSET S -> Int] : IsPartialSums(f, S, g)
<1> DEFINE Upto(g, n) == \A s \in SUBSET S :
                            Cardinality(s) <= n => g[s] = SumStep(f, g, s)
           levels == {n \in Nat : \E g \in [SUBSET S -> Int] : Upto(g, n)}
<1>1. ASSUME NEW s \in SUBSET S
      PROVE  IsFiniteSet(s) /\ Cardinality(s) \in Nat
  BY FS_Subset, FS_CardinalityType
<1>2. ASSUME NEW s \in SUBSET S, NEW g \in [SUBSET S -> Int]
      PROVE  SumStep(f, g, s) \in Int
  <2>1. CASE s = {}
    BY <2>1 DEF SumStep
  <2>2. CASE s # {}
    <3>1. Picked(s) \in S /\ s \ {Picked(s)} \in SUBSET S
      BY <2>2, <1>1, PickedShrinks
    <3>2. f[Picked(s)] \in Int /\ g[s \ {Picked(s)}] \in Int
      BY <3>1
    <3> QED BY <3>2, <2>2 DEF SumStep
  <2> QED BY <2>1, <2>2
<1>3. 0 \in levels
  <2> DEFINE g == [s \in SUBSET S |-> 0]
  <2>1. ASSUME NEW s \in SUBSET S, Cardinality(s) <= 0
        PROVE  g[s] = SumStep(f, g, s)
    <3>1. s = {}
      BY <1>1, <2>1, FS_EmptySet
    <3> QED BY <3>1 DEF SumStep
  <2>2. g \in [SUBSET S -> Int]
    OBVIOUS
  <2> HIDE DEF g
  <2> QED BY <2>1, <2>2
<1>4. ASSUME NEW n \in Nat, n \in levels
      PROVE  n + 1 \in levels
  <2>1. PICK g \in [SUBSET S -> Int] : Upto(g, n)
    BY <1>4
  <2> DEFINE h == [s \in SUBSET S |->
                    IF Cardinality(s) <= n THEN g[s] ELSE SumStep(f, g, s)]
  <2>2. h \in [SUBSET S -> Int]
    BY <1>2
  <2>3. ASSUME NEW s \in SUBSET S, Cardinality(s) <= n + 1
        PROVE  h[s] = SumStep(f, h, s)
    <3>1. h[s] = SumStep(f, g, s)
      BY <2>1
    <3>2. CASE s = {}
      BY <3>1, <3>2 DEF SumStep
    <3>3. CASE s # {}
      <4>1. Cardinality(s \ {Picked(s)}) <= n
        BY <3>3, <2>3, <1>1, PickedShrinks
      <4>2. s \ {Picked(s)} \in SUBSET S
        OBVIOUS
      <4>3. h[s \ {Picked(s)}] = g[s \ {Picked(s)}]
        BY <4>1, <4>2
      <4> HIDE DEF h
      <4> QED BY <3>1, <4>3, <3>3 DEF SumStep
    <3> QED BY <3>2, <3>3
  <2> HIDE DEF h
  <2>4. Upto(h, n + 1)
    BY <2>3
  <2>5. n + 1 \in Nat
    OBVIOUS
  <2> HIDE DEF Upto
  <2> QED BY <2>2, <2>4, <2>5
<1>5. Cardinality(S) \in levels
  <2>1. Cardinality(S) \in Nat
    BY <1>1
  <2> HIDE DEF levels
  <2> QED BY <2>1, <1>3, <1>4, UpTo
<1>6. PICK g \in [SUBSET S -> Int] : Upto(g, Cardinality(S))
  BY <1>5
<1>7. ASSUME NEW s \in SUBSET S PROVE g[s] = SumStep(f, g, s)
  <2>1. Cardinality(s) <= Cardinality(S)
    BY FS_Subset
  <2> QED BY <2>1, <1>6
<1>8. IsPartialSums(f, S, g)
  BY <1>7, Zenon DEF IsPartialSums
<1> QED BY <1>8

\* What the partial sums are.
LEMMA PartialSumsDef ==
    ASSUME NEW S, IsFiniteSet(S), NEW f \in [S -> Int]
    PROVE  /\ PartialSums(f, S) \in [SUBSET S -> Int]
           /\ \A s \in SUBSET S :
                PartialSums(f, S)[s] = SumStep(f, PartialSums(f, S), s)
<1> DEFINE p == PartialSums(f, S)
           levels == {n \in Nat : \A s \in SUBSET S :
                        Cardinality(s) <= n => p[s] \in Int}
<1>1. p = [s \in SUBSET S |-> SumStep(f, p, s)]
  <2>1. \E g : IsPartialSums(f, S, g)
    BY PartialSumsExist
  <2>2. IsPartialSums(f, S, PartialSums(f, S))
    BY <2>1, Zenon DEF PartialSums
  <2> QED BY <2>2, Zenon DEF IsPartialSums
<1> HIDE DEF p
<1>2. ASSUME NEW s \in SUBSET S
      PROVE  p[s] = SumStep(f, p, s)
  BY <1>1
<1>empty. p[{}] = 0
  <2>1. SumStep(f, p, {}) = 0
    BY DEF SumStep
  <2> QED BY <2>1, <1>2
<1>3. ASSUME NEW s \in SUBSET S
      PROVE  IsFiniteSet(s) /\ Cardinality(s) \in Nat
  BY FS_Subset, FS_CardinalityType
<1>4. 0 \in levels
  <2>1. ASSUME NEW s \in SUBSET S, Cardinality(s) <= 0
        PROVE  p[s] \in Int
    <3>1. s = {}
      BY <1>3, <2>1, FS_EmptySet
    <3> QED BY <3>1, <1>empty
  <2> QED BY <2>1
<1>5. ASSUME NEW n \in Nat, n \in levels
      PROVE  n + 1 \in levels
  <2>1. ASSUME NEW s \in SUBSET S, Cardinality(s) <= n + 1
        PROVE  p[s] \in Int
    <3>1. CASE s = {}
      BY <3>1, <1>empty
    <3>2. CASE s # {}
      <4>1. Cardinality(s \ {Picked(s)}) <= n /\ Picked(s) \in S
        BY <3>2, <2>1, <1>3, PickedShrinks
      <4>2. s \ {Picked(s)} \in SUBSET S
        OBVIOUS
      <4>3. p[s \ {Picked(s)}] \in Int /\ f[Picked(s)] \in Int
        BY <4>1, <4>2, <1>5
      <4>4. p[s] = f[Picked(s)] + p[s \ {Picked(s)}]
        BY <3>2, <1>2 DEF SumStep
      <4> QED BY <4>3, <4>4
    <3> QED BY <3>1, <3>2
  <2>2. n + 1 \in Nat
    OBVIOUS
  <2> QED BY <2>1, <2>2
<1>6. Cardinality(S) \in levels
  <2>1. Cardinality(S) \in Nat
    BY <1>3
  <2> HIDE DEF levels
  <2> QED BY <2>1, <1>4, <1>5, UpTo
<1>7. ASSUME NEW s \in SUBSET S PROVE p[s] \in Int
  <2>1. Cardinality(s) <= Cardinality(S)
    BY FS_Subset
  <2> QED BY <2>1, <1>6
<1>8. p \in [SUBSET S -> Int]
  BY <1>1, <1>7
<1> QED BY <1>2, <1>8 DEF p

\* The order does not matter: any element can be the one taken out first.
LEMMA AnyFirst ==
    ASSUME NEW S, IsFiniteSet(S), NEW f \in [S -> Int],
           NEW s \in SUBSET S, NEW x \in s
    PROVE  PartialSums(f, S)[s] = f[x] + PartialSums(f, S)[s \ {x}]
<1> DEFINE p == PartialSums(f, S)
           levels == {n \in Nat : \A t \in SUBSET S : \A y \in t :
                        Cardinality(t) <= n => p[t] = f[y] + p[t \ {y}]}
<1>1. /\ p \in [SUBSET S -> Int]
      /\ \A t \in SUBSET S : p[t] = SumStep(f, p, t)
  BY PartialSumsDef
<1> HIDE DEF p
<1>2. ASSUME NEW t \in SUBSET S
      PROVE  IsFiniteSet(t) /\ Cardinality(t) \in Nat
  BY FS_Subset, FS_CardinalityType
<1>3. 0 \in levels
  <2>1. ASSUME NEW t \in SUBSET S, NEW y \in t, Cardinality(t) <= 0
        PROVE  FALSE
    BY <1>2, <2>1, FS_EmptySet
  <2> QED BY <2>1
<1>4. ASSUME NEW n \in Nat, n \in levels
      PROVE  n + 1 \in levels
  <2>1. ASSUME NEW t \in SUBSET S, NEW y \in t, Cardinality(t) <= n + 1
        PROVE  p[t] = f[y] + p[t \ {y}]
    <3> DEFINE c == Picked(t)
    <3>1. c \in t /\ Cardinality(t \ {c}) <= n
      BY <2>1, <1>2, PickedShrinks
    <3>2. p[t] = f[c] + p[t \ {c}]
      BY <1>1 DEF SumStep
    <3> HIDE DEF c
    <3>3. CASE c = y
      BY <3>2, <3>3
    <3>4. CASE c # y
      <4>1. y \in t \ {c} /\ t \ {c} \in SUBSET S
        BY <3>4
      <4>2. p[t \ {c}] = f[y] + p[(t \ {c}) \ {y}]
        BY <4>1, <3>1, <1>4
      <4>3. Cardinality(t \ {y}) <= n
        BY <2>1, <1>2, FS_RemoveElement
      <4>4. c \in t \ {y} /\ t \ {y} \in SUBSET S
        BY <3>1, <3>4
      <4>5. p[t \ {y}] = f[c] + p[(t \ {y}) \ {c}]
        BY <4>3, <4>4, <1>4
      <4>6. (t \ {c}) \ {y} = (t \ {y}) \ {c}
        OBVIOUS
      <4>7. f[c] \in Int /\ f[y] \in Int /\ p[(t \ {c}) \ {y}] \in Int
        BY <1>1, <3>1
      <4> DEFINE r == p[(t \ {c}) \ {y}]
      <4>8. p[t] = f[c] + (f[y] + r) /\ p[t \ {y}] = f[c] + r
        BY <3>2, <4>2, <4>5, <4>6
      <4>9. f[c] + (f[y] + r) = f[y] + (f[c] + r)
        BY <4>7
      <4> QED BY <4>8, <4>9
    <3> QED BY <3>3, <3>4
  <2>2. n + 1 \in Nat
    OBVIOUS
  <2> QED BY <2>1, <2>2
<1>5. Cardinality(S) \in levels
  <2>1. Cardinality(S) \in Nat
    BY <1>2
  <2> HIDE DEF levels
  <2> QED BY <2>1, <1>3, <1>4, UpTo
<1>6. Cardinality(s) <= Cardinality(S)
  BY FS_Subset
<1> QED BY <1>5, <1>6 DEF p

\* A partial sum depends on nothing but the values summed.
LEMMA PartialSumsLocal ==
    ASSUME NEW S, IsFiniteSet(S), NEW f \in [S -> Int],
           NEW T, IsFiniteSet(T), NEW g \in [T -> Int],
           NEW U, U \subseteq S, U \subseteq T, \A x \in U : f[x] = g[x]
    PROVE  PartialSums(f, S)[U] = PartialSums(g, T)[U]
<1> DEFINE p == PartialSums(f, S)
           q == PartialSums(g, T)
           good == {V \in SUBSET U : p[V] = q[V]}
<1>1. p[{}] = 0 /\ q[{}] = 0
  BY PartialSumsDef DEF SumStep
<1>2. ASSUME NEW V \in SUBSET U, NEW x \in U \ V, V \in good
      PROVE  V \cup {x} \in good
  <2>1. (V \cup {x}) \ {x} = V
    OBVIOUS
  <2>2. V \cup {x} \in SUBSET S /\ V \cup {x} \in SUBSET T /\ x \in V \cup {x}
    OBVIOUS
  <2>3. p[V \cup {x}] = f[x] + p[(V \cup {x}) \ {x}]
    BY <2>2, AnyFirst
  <2>4. q[V \cup {x}] = g[x] + q[(V \cup {x}) \ {x}]
    BY <2>2, AnyFirst
  <2> HIDE DEF p, q
  <2>5. p[V] = q[V] /\ f[x] = g[x]
    BY <1>2
  <2>6. p[V \cup {x}] = q[V \cup {x}]
    BY <2>1, <2>3, <2>4, <2>5
  <2> QED BY <2>6
<1>3. IsFiniteSet(U)
  BY FS_Subset
<1>4. {} \in good
  BY <1>1
<1>5. U \in good
  <2> HIDE DEF good
  <2> QED BY <1>2, <1>3, <1>4, ElementByElement
<1> QED BY <1>5

-----------------------------------------------------------------------------
(* Arithmetic the provers need to be told.                                 *)

\* Integer division, as the provers can use it.
LEMMA FloorDivision ==
    ASSUME NEW a \in Nat, NEW d \in Nat \ {0}
    PROVE  /\ a \div d \in Nat
           /\ (a \div d) * d <= a
           /\ a < (a \div d) * d + d
OBVIOUS

LEMMA OrderTimes ==
    ASSUME NEW a \in Int, NEW b \in Int, NEW d \in Nat \ {0}
    PROVE  /\ a * d <= b * d => a <= b
           /\ a * d < b * d => a < b
           /\ a <= b => a * d <= b * d
           /\ a * d \in Int
OBVIOUS

LEMMA Distributes ==
    ASSUME NEW a \in Int, NEW b \in Int, NEW c \in Int
    PROVE  /\ c * (a + b) = c * a + c * b
           /\ c * (a - b) = c * a - c * b
           /\ (a + b) * c = a * c + b * c
           /\ (a - b) * c = a * c - b * c
OBVIOUS

-----------------------------------------------------------------------------
(* The laws of sums.                                                       *)

\* The sum of nothing is zero.
LEMMA SumEmpty ==
    ASSUME NEW f \in [{} -> Int]
    PROVE  SumFunction(f) = 0
<1>1. DOMAIN f = {} /\ IsFiniteSet({})
  BY FS_EmptySet
<1>2. PartialSums(f, {})[{}] = SumStep(f, PartialSums(f, {}), {})
  BY <1>1, PartialSumsDef
<1> QED BY <1>1, <1>2, SumIsLastPartialSum DEF SumStep

\* A sum of integers is an integer.
LEMMA SumType ==
    ASSUME NEW S, IsFiniteSet(S), NEW f \in [S -> Int]
    PROVE  SumFunction(f) \in Int
<1>1. DOMAIN f = S
  OBVIOUS
<1>2. PartialSums(f, S)[S] \in Int
  <2>1. PartialSums(f, S) \in [SUBSET S -> Int] /\ S \in SUBSET S
    BY PartialSumsDef
  <2> QED BY <2>1
<1> QED BY <1>1, <1>2, SumIsLastPartialSum

\* An element can be summed apart.
LEMMA SumSplit ==
    ASSUME NEW S, IsFiniteSet(S), NEW f \in [S -> Int], NEW x \in S
    PROVE  SumFunction(f) = f[x] + SumFunction([y \in S \ {x} |-> f[y]])
<1> DEFINE g == [y \in S \ {x} |-> f[y]]
<1>1. DOMAIN f = S /\ DOMAIN g = S \ {x} /\ g \in [S \ {x} -> Int]
  OBVIOUS
<1>2. IsFiniteSet(S \ {x})
  BY FS_RemoveElement
<1>3. PartialSums(f, S)[S] = f[x] + PartialSums(f, S)[S \ {x}]
  BY AnyFirst
<1>4. \A y \in S \ {x} : f[y] = g[y]
  OBVIOUS
<1>5. S \ {x} \subseteq S
  OBVIOUS
<1> HIDE DEF g
<1>6. PartialSums(f, S)[S \ {x}] = PartialSums(g, S \ {x})[S \ {x}]
  BY <1>1, <1>2, <1>4, <1>5, PartialSumsLocal
<1>7. SumFunction(f) = PartialSums(f, S)[S]
  BY <1>1, SumIsLastPartialSum
<1>8. SumFunction(g) = PartialSums(g, S \ {x})[S \ {x}]
  BY <1>1, SumIsLastPartialSum
<1>9. SumFunction(f) = f[x] + SumFunction(g)
  BY <1>3, <1>6, <1>7, <1>8
<1> QED BY <1>9 DEF g

\* One element more: how a sum over a growing set changes.
LEMMA SumGrow ==
    ASSUME NEW S, IsFiniteSet(S), NEW f \in [S -> Int],
           NEW V \in SUBSET S, NEW x \in S \ V
    PROVE  SumFunction(Restrict(f, V \cup {x}))
                = f[x] + SumFunction(Restrict(f, V))
<1> DEFINE W == V \cup {x}
           g == Restrict(f, W)
<1>1. IsFiniteSet(W)
  <2>1. W \in SUBSET S
    OBVIOUS
  <2> QED BY <2>1, FS_Subset
<1>2. g \in [W -> Int] /\ x \in W /\ g[x] = f[x]
  BY DEF Restrict
<1>3. SumFunction(g) = g[x] + SumFunction([y \in W \ {x} |-> g[y]])
  <2> HIDE DEF g, W
  <2> QED BY <1>1, <1>2, SumSplit
<1>4. [y \in W \ {x} |-> g[y]] = Restrict(f, V)
  <2>1. W \ {x} = V
    OBVIOUS
  <2>2. \A y \in V : g[y] = f[y]
    BY DEF Restrict
  <2> HIDE DEF W, g
  <2> QED BY <2>1, <2>2 DEF Restrict
<1> QED BY <1>2, <1>3, <1>4

\* A function is its own restriction, and nothing is left of it on {}.
LEMMA WholeAndEmpty ==
    ASSUME NEW S, NEW f \in [S -> Int]
    PROVE  /\ Restrict(f, S) = f
           /\ SumFunction(Restrict(f, {})) = 0
           /\ IsFiniteSet(S) =>
                \A V \in SUBSET S : SumFunction(Restrict(f, V)) \in Int
<1>1. Restrict(f, S) = f
  BY DEF Restrict
<1>2. Restrict(f, {}) \in [{} -> Int]
  BY DEF Restrict
<1>3. ASSUME IsFiniteSet(S), NEW V \in SUBSET S
      PROVE  SumFunction(Restrict(f, V)) \in Int
  <2>1. Restrict(f, V) \in [V -> Int]
    BY DEF Restrict
  <2>2. IsFiniteSet(V)
    BY <1>3, FS_Subset
  <2> QED BY <2>1, <2>2, SumType
<1> QED BY <1>1, <1>2, <1>3, SumEmpty

\* The sum of the sums is the sum of the sum.
LEMMA SumAdd ==
    ASSUME NEW S, IsFiniteSet(S), NEW f \in [S -> Int], NEW g \in [S -> Int],
           NEW h \in [S -> Int], \A x \in S : h[x] = f[x] + g[x]
    PROVE  SumFunction(h) = SumFunction(f) + SumFunction(g)
<1> DEFINE F(V) == SumFunction(Restrict(f, V))
           G(V) == SumFunction(Restrict(g, V))
           H(V) == SumFunction(Restrict(h, V))
           good == {V \in SUBSET S : H(V) = F(V) + G(V)}
<1>2. F({}) = 0 /\ G({}) = 0 /\ H({}) = 0
  BY WholeAndEmpty
<1>3. ASSUME NEW V \in SUBSET S, NEW x \in S \ V, V \in good
      PROVE  V \cup {x} \in good
  <2> DEFINE W == V \cup {x}
  <2>1. F(W) = f[x] + F(V) /\ G(W) = g[x] + G(V) /\ H(W) = h[x] + H(V)
    BY SumGrow
  <2>2. F(V) \in Int /\ G(V) \in Int
    BY WholeAndEmpty
  <2>3. H(V) = F(V) + G(V) /\ h[x] = f[x] + g[x]
    BY <1>3
  <2>4. f[x] \in Int /\ g[x] \in Int
    OBVIOUS
  <2> HIDE DEF F, G, H
  <2>5. H(W) = F(W) + G(W)
    BY <2>1, <2>2, <2>3, <2>4
  <2>6. W \in SUBSET S
    OBVIOUS
  <2> QED BY <2>5, <2>6
<1>4. {} \in good
  BY <1>2
<1>5. S \in good
  <2> HIDE DEF good
  <2> QED BY <1>3, <1>4, ElementByElement
<1>6. H(S) = F(S) + G(S)
  BY <1>5
<1> QED BY <1>6, WholeAndEmpty

\* A common factor comes out of a sum.
LEMMA SumScale ==
    ASSUME NEW S, IsFiniteSet(S), NEW f \in [S -> Int], NEW c \in Int
    PROVE  SumFunction([x \in S |-> c * f[x]]) = c * SumFunction(f)
<1> DEFINE h == [x \in S |-> c * f[x]]
           F(V) == SumFunction(Restrict(f, V))
           H(V) == SumFunction(Restrict(h, V))
           good == {V \in SUBSET S : H(V) = c * F(V)}
<1>1. h \in [S -> Int] /\ \A x \in S : h[x] = c * f[x]
  OBVIOUS
<1> HIDE DEF h
<1>2. F({}) = 0 /\ H({}) = 0
  BY <1>1, WholeAndEmpty
<1>3. ASSUME NEW V \in SUBSET S, NEW x \in S \ V, V \in good
      PROVE  V \cup {x} \in good
  <2> DEFINE W == V \cup {x}
  <2>1. F(W) = f[x] + F(V) /\ H(W) = h[x] + H(V)
    BY <1>1, SumGrow
  <2>2. F(V) \in Int
    BY WholeAndEmpty
  <2>3. H(V) = c * F(V) /\ h[x] = c * f[x]
    BY <1>1, <1>3
  <2>4. f[x] \in Int
    OBVIOUS
  <2> HIDE DEF F, H
  <2>5. H(W) = c * F(W)
    <3>1. \A a, b \in Int : c * (a + b) = c * a + c * b
      OBVIOUS
    <3>2. c * (f[x] + F(V)) = c * f[x] + c * F(V)
      BY <2>2, <2>4, <3>1
    <3> QED BY <2>1, <2>3, <3>2
  <2>6. W \in SUBSET S
    OBVIOUS
  <2> QED BY <2>5, <2>6
<1>4. {} \in good
  BY <1>2
<1>5. S \in good
  <2> HIDE DEF good
  <2> QED BY <1>3, <1>4, ElementByElement
<1>6. H(S) = c * F(S)
  BY <1>5
<1> QED BY <1>1, <1>6, WholeAndEmpty DEF h

\* A sum of larger terms is larger.
LEMMA SumAtMost ==
    ASSUME NEW S, IsFiniteSet(S), NEW f \in [S -> Int], NEW g \in [S -> Int],
           \A x \in S : f[x] <= g[x]
    PROVE  SumFunction(f) <= SumFunction(g)
<1> DEFINE F(V) == SumFunction(Restrict(f, V))
           G(V) == SumFunction(Restrict(g, V))
           good == {V \in SUBSET S : F(V) <= G(V)}
<1>2. F({}) = 0 /\ G({}) = 0
  BY WholeAndEmpty
<1>3. ASSUME NEW V \in SUBSET S, NEW x \in S \ V, V \in good
      PROVE  V \cup {x} \in good
  <2> DEFINE W == V \cup {x}
  <2>1. F(W) = f[x] + F(V) /\ G(W) = g[x] + G(V)
    BY SumGrow
  <2>2. F(V) \in Int /\ G(V) \in Int
    BY WholeAndEmpty
  <2>3. F(V) <= G(V) /\ f[x] <= g[x]
    BY <1>3
  <2>4. f[x] \in Int /\ g[x] \in Int
    OBVIOUS
  <2> HIDE DEF F, G
  <2>5. F(W) <= G(W)
    BY <2>1, <2>2, <2>3, <2>4
  <2>6. W \in SUBSET S
    OBVIOUS
  <2> QED BY <2>5, <2>6
<1>4. {} \in good
  BY <1>2
<1>5. S \in good
  <2> HIDE DEF good
  <2> QED BY <1>3, <1>4, ElementByElement
<1>6. F(S) <= G(S)
  BY <1>5
<1> QED BY <1>6, WholeAndEmpty

\* A sum of zeros is zero, a sum of nonnegative terms is nonnegative and no
\* less than any of them.
LEMMA SumOfZeros ==
    ASSUME NEW S, IsFiniteSet(S)
    PROVE  SumFunction([x \in S |-> 0]) = 0
<1> DEFINE z == [x \in S |-> 0]
<1>1. z \in [S -> Int]
  OBVIOUS
<1>2. [x \in S |-> 0 * z[x]] = z
  OBVIOUS
<1>3. SumFunction(z) \in Int
  BY <1>1, SumType
<1>4. SumFunction([x \in S |-> 0 * z[x]]) = 0 * SumFunction(z)
  <2> HIDE DEF z
  <2> QED BY <1>1, SumScale
<1> HIDE DEF z
<1>5. SumFunction(z) = 0
  BY <1>2, <1>3, <1>4
<1> QED BY <1>5 DEF z

LEMMA SumNonNegative ==
    ASSUME NEW S, IsFiniteSet(S), NEW f \in [S -> Nat]
    PROVE  /\ SumFunction(f) \in Nat
           /\ \A x \in S : f[x] <= SumFunction(f)
<1> DEFINE z == [x \in S |-> 0]
<1>1. ASSUME NEW T, IsFiniteSet(T), NEW g \in [T -> Nat]
      PROVE  SumFunction(g) \in Nat
  <2> DEFINE y == [x \in T |-> 0]
  <2>1. SumFunction(y) = 0
    BY <1>1, SumOfZeros
  <2>2. y \in [T -> Int] /\ g \in [T -> Int] /\ \A x \in T : y[x] <= g[x]
    OBVIOUS
  <2> HIDE DEF y
  <2>3. SumFunction(y) <= SumFunction(g)
    BY <1>1, <2>2, SumAtMost
  <2>4. SumFunction(g) \in Int
    BY <1>1, <2>2, SumType
  <2> QED BY <2>1, <2>3, <2>4
<1>2. ASSUME NEW x \in S PROVE f[x] <= SumFunction(f)
  <2> DEFINE r == [y \in S \ {x} |-> f[y]]
  <2>1. f \in [S -> Int]
    OBVIOUS
  <2>2. SumFunction(f) = f[x] + SumFunction(r)
    BY <2>1, SumSplit
  <2>3. r \in [S \ {x} -> Nat] /\ IsFiniteSet(S \ {x})
    BY FS_RemoveElement
  <2> HIDE DEF r
  <2>4. SumFunction(r) \in Nat
    BY <2>3, <1>1
  <2> QED BY <2>2, <2>4
<1> QED BY <1>1, <1>2

\* Changing one term changes the sum by as much.
LEMMA SumChange ==
    ASSUME NEW S, IsFiniteSet(S), NEW f \in [S -> Int], NEW g \in [S -> Int],
           NEW x \in S, \A y \in S \ {x} : g[y] = f[y]
    PROVE  SumFunction(g) = SumFunction(f) - f[x] + g[x]
<1> DEFINE r == [y \in S \ {x} |-> f[y]]
<1>1. [y \in S \ {x} |-> g[y]] = r
  OBVIOUS
<1>2. SumFunction(f) = f[x] + SumFunction(r)
  BY SumSplit
<1>3. SumFunction(r) \in Int
  <2>1. r \in [S \ {x} -> Int] /\ IsFiniteSet(S \ {x})
    BY FS_RemoveElement
  <2> HIDE DEF r
  <2> QED BY <2>1, SumType
<1>4. SumFunction(g) = g[x] + SumFunction(r)
  <2>1. SumFunction(g) = g[x] + SumFunction([y \in S \ {x} |-> g[y]])
    BY SumSplit
  <2> QED BY <2>1, <1>1
<1>5. f[x] \in Int /\ g[x] \in Int
  OBVIOUS
<1> HIDE DEF r
<1> QED BY <1>2, <1>3, <1>4, <1>5

\* Terms renamed one to one: the same sum over their new names.
LEMMA SumImage ==
    ASSUME NEW T, IsFiniteSet(T), NEW g \in [T -> Int],
           NEW S, IsFiniteSet(S), NEW f \in [S -> Int],
           NEW h \in [T -> S], \A t, u \in T : h[t] = h[u] => t = u,
           \A t \in T : g[t] = f[h[t]]
    PROVE  SumFunction(g) = SumFunction(Restrict(f, {h[t] : t \in T}))
<1> DEFINE Im(V) == {h[t] : t \in V}
           G(V) == SumFunction(Restrict(g, V))
           F(V) == SumFunction(Restrict(f, Im(V)))
           good == {V \in SUBSET T : G(V) = F(V)}
<1>1. {} \in good
  <2>1. Im({}) = {}
    OBVIOUS
  <2>2. G({}) = 0 /\ F({}) = 0
    BY <2>1, WholeAndEmpty
  <2> QED BY <2>2
<1>2. ASSUME NEW V \in SUBSET T, NEW t \in T \ V, V \in good
      PROVE  V \cup {t} \in good
  <2> DEFINE W == V \cup {t}
             y == h[t]
  <2>1. G(W) = g[t] + G(V)
    BY SumGrow
  <2>2. Im(W) = Im(V) \cup {y} /\ Im(V) \in SUBSET S /\ y \in S \ Im(V)
    OBVIOUS
  <2>3. F(W) = f[y] + F(V)
    <3> DEFINE J == Im(V)
    <3>1. J \in SUBSET S /\ y \in S \ J /\ Im(W) = J \cup {y}
      BY <2>2
    <3> HIDE DEF J, y
    <3>2. SumFunction(Restrict(f, J \cup {y}))
                = f[y] + SumFunction(Restrict(f, J))
      BY <3>1, SumGrow
    <3> QED BY <3>1, <3>2 DEF J
  <2>4. G(V) = F(V) /\ g[t] = f[y]
    BY <1>2
  <2> HIDE DEF G, F
  <2>5. G(W) = F(W)
    BY <2>1, <2>3, <2>4
  <2> QED BY <2>5
<1>3. T \in good
  <2> HIDE DEF good
  <2> QED BY <1>1, <1>2, ElementByElement
<1>4. G(T) = F(T)
  BY <1>3
<1> QED BY <1>4, WholeAndEmpty

\* Terms that are zero can be left out.
LEMMA SumSupport ==
    ASSUME NEW S, IsFiniteSet(S), NEW f \in [S -> Int], NEW V \in SUBSET S,
           \A x \in S \ V : f[x] = 0
    PROVE  SumFunction(f) = SumFunction(Restrict(f, V))
<1> DEFINE D == S \ V
           F(W) == SumFunction(Restrict(f, V \cup W))
           good == {W \in SUBSET D : F(W) = F({})}
<1>1. IsFiniteSet(D)
  BY FS_Subset
<1>2. {} \in good
  OBVIOUS
<1>3. ASSUME NEW W \in SUBSET D, NEW x \in D \ W, W \in good
      PROVE  W \cup {x} \in good
  <2> DEFINE U == V \cup W
  <2>1. U \in SUBSET S /\ x \in S \ U /\ V \cup (W \cup {x}) = U \cup {x}
    OBVIOUS
  <2>2. SumFunction(Restrict(f, U \cup {x})) = f[x] + SumFunction(Restrict(f, U))
    <3> HIDE DEF U
    <3> QED BY <2>1, SumGrow
  <2>3. SumFunction(Restrict(f, U)) \in Int
    <3> HIDE DEF U
    <3> QED BY <2>1, WholeAndEmpty
  <2>4. f[x] = 0
    OBVIOUS
  <2>5. F(W \cup {x}) = F(W)
    <3>1. F(W \cup {x}) = SumFunction(Restrict(f, U \cup {x}))
      BY <2>1
    <3>2. F(W) = SumFunction(Restrict(f, U))
      OBVIOUS
    <3> HIDE DEF F, U
    <3> QED BY <3>1, <3>2, <2>2, <2>3, <2>4
  <2> HIDE DEF F
  <2> QED BY <1>3, <2>5
<1>4. D \in good
  <2> HIDE DEF good, D
  <2> QED BY <1>1, <1>2, <1>3, ElementByElement
<1>5. F(D) = F({})
  BY <1>4
<1>6. V \cup D = S /\ V \cup {} = V
  OBVIOUS
<1> HIDE DEF D
<1> QED BY <1>5, <1>6, WholeAndEmpty

\* A sum of equal terms.
LEMMA SumOfConstant ==
    ASSUME NEW S, IsFiniteSet(S), NEW c \in Int
    PROVE  SumFunction([x \in S |-> c]) = c * Cardinality(S)
<1> DEFINE k == [x \in S |-> c]
           K(V) == SumFunction(Restrict(k, V))
           good == {V \in SUBSET S : K(V) = c * Cardinality(V)}
<1>1. k \in [S -> Int] /\ \A x \in S : k[x] = c
  OBVIOUS
<1> HIDE DEF k
<1>2. K({}) = 0 /\ Cardinality({}) = 0
  BY <1>1, WholeAndEmpty, FS_EmptySet
<1>3. ASSUME NEW V \in SUBSET S, NEW x \in S \ V, V \in good
      PROVE  V \cup {x} \in good
  <2> DEFINE W == V \cup {x}
             v == Cardinality(V)
  <2>1. K(W) = k[x] + K(V)
    BY <1>1, SumGrow
  <2>2. v \in Nat /\ Cardinality(W) = v + 1
    BY FS_Subset, FS_CardinalityType, FS_AddElement
  <2>3. K(V) = c * v /\ k[x] = c
    BY <1>1, <1>3
  <2> HIDE DEF K, v
  <2>4. c * (v + 1) = c * v + c
    BY <2>2, Distributes
  <2>5. K(W) = c * Cardinality(W)
    BY <2>1, <2>2, <2>3, <2>4
  <2>6. W \in SUBSET S
    OBVIOUS
  <2> QED BY <2>5, <2>6
<1>4. {} \in good
  BY <1>2
<1>5. S \in good
  <2> HIDE DEF good
  <2> QED BY <1>3, <1>4, ElementByElement
<1>6. K(S) = c * Cardinality(S)
  BY <1>5
<1> QED BY <1>1, <1>6, WholeAndEmpty DEF k

-----------------------------------------------------------------------------
(* Dividing an amount by a member list.                                    *)

\* Member lists as the code stores them: percentages are u32.
MemberSeqs == Seq([address : Address, percentage : Nat])

\* The positions of a list are finitely many.
LEMMA FiniteFrom1 ==
    ASSUME NEW n \in Nat
    PROVE  IsFiniteSet(1 .. n)
<1>1. 1 \in Int /\ n \in Int
  OBVIOUS
<1> QED BY <1>1, FS_Interval

\* The entries of a member list.
LEMMA MemberFields ==
    ASSUME NEW members \in MemberSeqs
    PROVE  /\ Len(members) \in Nat
           /\ DOMAIN members = 1 .. Len(members)
           /\ \A i \in 1 .. Len(members) :
                /\ members[i] \in [address : Address, percentage : Nat]
                /\ members[i].address \in Address
                /\ members[i].percentage \in Nat
           /\ Percentages(members) \in [1 .. Len(members) -> Nat]
           /\ \A i \in 1 .. Len(members) :
                Percentages(members)[i] = members[i].percentage
<1> DEFINE R == [address : Address, percentage : Nat]
<1>1. Len(members) \in Nat /\ DOMAIN members = 1 .. Len(members)
  BY DEF MemberSeqs
<1>2. ASSUME NEW i \in 1 .. Len(members) PROVE members[i] \in R
  <2> HIDE DEF R
  <2>1. members \in Seq(R)
    BY DEF MemberSeqs, R
  <2> QED BY <2>1
<1>3. ASSUME NEW r \in R PROVE r.address \in Address /\ r.percentage \in Nat
  OBVIOUS
<1>4. \A i \in 1 .. Len(members) :
        members[i].address \in Address /\ members[i].percentage \in Nat
  <2> HIDE DEF R
  <2> QED BY <1>2, <1>3
<1>5. Percentages(members) = [i \in 1 .. Len(members) |-> members[i].percentage]
  BY <1>1 DEF Percentages
<1> QED BY <1>1, <1>2, <1>4, <1>5

\* What a split of an amount answers: it adds up, every share but the last
\* is the floor of the exact one, and the last is off by less than the
\* members' number.
LEMMA SplitLemma ==
    ASSUME NEW members \in MemberSeqs, TotalPercentage(members) = Total,
           NEW total \in Nat
    PROVE  /\ Len(members) \in Nat \ {0}
           /\ DistributeAmounts(total, members) \in [1 .. Len(members) -> Nat]
           /\ SumFunction(DistributeAmounts(total, members)) = total
           /\ \A i \in 1 .. Len(members) :
                LET exact == total * members[i].percentage
                    share == DistributeAmounts(total, members)[i]
                IN  IF i = Len(members)
                    THEN /\ exact <= share * Total
                         /\ share * Total < exact + Len(members) * Total
                    ELSE /\ share * Total <= exact
                         /\ exact < share * Total + Total
<1> DEFINE n == Len(members)
           d == DistributeAmounts(total, members)
           p == Percentages(members)
           below == 1 .. n - 1
           floor == [i \in below |->
                        CalculateShare(total, members[i].percentage)]
           part == [i \in below |-> p[i]]
           F == SumFunction(floor)
           P == SumFunction(part)
<1>1. n \in Nat /\ DOMAIN members = 1 .. n /\ Total \in Nat \ {0}
  BY SharesAssumption, MemberFields
<1>2. /\ p \in [1 .. n -> Nat]
      /\ \A i \in 1 .. n : p[i] = members[i].percentage
  BY MemberFields
<1>3. SumFunction(p) = Total
  BY DEF TotalPercentage
<1>4. n # 0
  <2> SUFFICES ASSUME n = 0 PROVE FALSE
    OBVIOUS
  <2>1. p \in [{} -> Int]
    BY <1>2
  <2> HIDE DEF p
  <2> QED BY <2>1, <1>3, SumEmpty, <1>1
<1>5. /\ below \subseteq 1 .. n /\ n \in 1 .. n /\ (1 .. n) \ {n} = below
      /\ IsFiniteSet(below) /\ IsFiniteSet(1 .. n)
      /\ Cardinality(below) = n - 1
  <2>1. n - 1 \in Int /\ 1 \in Int /\ n \in Int
    BY <1>1
  <2>2. Cardinality(below) = IF 1 > n - 1 THEN 0 ELSE (n - 1) - 1 + 1
    BY <2>1, FS_Interval
  <2>3. Cardinality(below) = n - 1
    <3> HIDE DEF below, n
    <3> QED BY <1>1, <1>4, <2>2
  <2>4. IsFiniteSet(below) /\ IsFiniteSet(1 .. n)
    BY <2>1, FS_Interval
  <2>5. below \subseteq 1 .. n /\ n \in 1 .. n /\ (1 .. n) \ {n} = below
    <3> HIDE DEF n
    <3> QED BY <1>1, <1>4
  <2> QED BY <2>3, <2>4, <2>5
<1>6. ASSUME NEW i \in below
      PROVE  /\ total * p[i] \in Nat
             /\ floor[i] \in Nat
             /\ floor[i] * Total <= total * p[i]
             /\ total * p[i] < floor[i] * Total + Total
  <2>1. p[i] = members[i].percentage /\ p[i] \in Nat
    BY <1>2, <1>5
  <2>2. total * p[i] \in Nat
    BY <2>1
  <2>3. floor[i] = (total * p[i]) \div Total
    BY <2>1 DEF CalculateShare
  <2> HIDE DEF p, floor
  <2> QED BY <1>1, <2>2, <2>3, FloorDivision
<1>7. /\ floor \in [below -> Int] /\ part \in [below -> Int]
      /\ \A i \in below : part[i] = p[i]
  BY <1>2, <1>5, <1>6
<1>8. Total = p[n] + P
  <2>1. SumFunction(p) = p[n] + SumFunction([i \in (1 .. n) \ {n} |-> p[i]])
    <3>1. p \in [1 .. n -> Int]
      BY <1>2
    <3> HIDE DEF p
    <3> QED BY <3>1, <1>5, SumSplit
  <2> QED BY <2>1, <1>3, <1>5
<1> HIDE DEF floor, part, p
<1>9. P \in Int /\ F \in Int
  BY <1>5, <1>7, SumType
<1> HIDE DEF below
<1>10. SumFunction([i \in below |-> total * part[i]]) = total * P
  <2>1. total \in Int
    OBVIOUS
  <2> QED BY <2>1, <1>5, <1>7, SumScale
<1>11. SumFunction([i \in below |-> Total * floor[i]]) = Total * F
  <2>1. Total \in Int
    BY <1>1
  <2> QED BY <2>1, <1>5, <1>7, SumScale
<1>12. Total * F <= total * P
  <2> DEFINE f == [i \in below |-> Total * floor[i]]
             g == [i \in below |-> total * part[i]]
  <2>1. f \in [below -> Int] /\ g \in [below -> Int]
    BY <1>1, <1>7
  <2>2. \A i \in below : f[i] <= g[i]
    BY <1>1, <1>6, <1>7
  <2> HIDE DEF f, g
  <2>3. SumFunction(f) <= SumFunction(g)
    BY <2>1, <2>2, <1>5, SumAtMost
  <2> QED BY <2>3, <1>10, <1>11 DEF f, g
<1>13. total * P <= Total * F + Total * (n - 1)
  <2> DEFINE f == [i \in below |-> total * part[i]]
             h == [i \in below |-> Total * floor[i]]
             c == [i \in below |-> Total]
             g == [i \in below |-> h[i] + c[i]]
  <2>1. h \in [below -> Int] /\ c \in [below -> Int]
    BY <1>1, <1>7
  <2>2. f \in [below -> Int] /\ g \in [below -> Int]
    BY <1>1, <1>7
  <2>3. \A i \in below : f[i] <= g[i]
    BY <1>1, <1>6, <1>7
  <2>4. SumFunction(c) = Total * (n - 1)
    <3>1. Total \in Int
      BY <1>1
    <3>2. SumFunction(c) = Total * Cardinality(below)
      BY <3>1, <1>5, SumOfConstant
    <3> QED BY <3>2, <1>5
  <2>5. SumFunction(h) = Total * F
    BY <1>11
  <2>6. SumFunction(f) = total * P
    BY <1>10
  <2>7. SumFunction(g) = SumFunction(h) + SumFunction(c)
    <3>1. \A i \in below : g[i] = h[i] + c[i]
      OBVIOUS
    <3>2. g \in [below -> Int] /\ IsFiniteSet(below)
      BY <2>2, <1>5
    <3> HIDE DEF f, g, h, c
    <3> QED BY <2>1, <3>1, <3>2, SumAdd
  <2> HIDE DEF f, g, h, c
  <2>8. SumFunction(f) <= SumFunction(g)
    BY <2>2, <2>3, <1>5, SumAtMost
  <2> QED BY <2>4, <2>5, <2>6, <2>7, <2>8
<1>14. /\ d = [i \in 1 .. n |-> IF i = n THEN total - F ELSE floor[i]]
  BY <1>1 DEF DistributeAmounts, floor, below
<1>15. total * Total = total * p[n] + total * P
  <2>1. p[n] \in Int
    BY <1>2, <1>5
  <2> QED BY <1>8, <1>9, <2>1, Distributes
<1>16. (total - F) * Total = total * Total - Total * F
  BY <1>1, <1>9, Distributes
<1>17. total * p[n] \in Nat /\ Total * (n - 1) \in Int /\ Total * F \in Int
       /\ total * P \in Int /\ total * Total \in Int
  <2>1. p[n] \in Nat
    BY <1>2, <1>5
  <2> QED BY <1>1, <1>9, <2>1
<1>18. /\ total * p[n] <= (total - F) * Total
       /\ (total - F) * Total <= total * p[n] + Total * (n - 1)
  <2> DEFINE x == total * p[n]
             y == Total * F
             z == total * P
             w == Total * (n - 1)
             u == total * Total
  <2> HIDE DEF x, y, z, w, u
  <2>1. /\ x \in Int /\ y \in Int /\ z \in Int /\ w \in Int /\ u = x + z
        /\ y <= z /\ z <= y + w
    BY <1>12, <1>13, <1>15, <1>17 DEF x, y, z, w, u
  <2>2. x <= u - y /\ u - y <= x + w
    BY <2>1
  <2> QED BY <2>2, <1>16 DEF x, y, z, w, u
<1>19. total - F \in Nat
  <2>1. 0 * Total <= (total - F) * Total
    BY <1>1, <1>9, <1>17, <1>18
  <2> QED BY <2>1, <1>1, <1>9, OrderTimes
<1>20. (total - F) * Total < total * p[n] + n * Total
  <2>1. n * Total = Total * (n - 1) + Total
    BY <1>1, Distributes
  <2>2. (total - F) * Total \in Int
    BY <1>1, <1>9
  <2> QED BY <2>1, <2>2, <1>1, <1>17, <1>18
<1>21. d \in [1 .. n -> Nat]
  BY <1>5, <1>6, <1>14, <1>19
<1>22. SumFunction(d) = total
  <2>1. [i \in (1 .. n) \ {n} |-> d[i]] = floor
    <3>1. n \notin below
      BY <1>5
    <3> QED BY <3>1, <1>5, <1>7, <1>14
  <2>2. d[n] = total - F
    BY <1>5, <1>14
  <2>3. SumFunction(d) = d[n] + SumFunction([i \in (1 .. n) \ {n} |-> d[i]])
    <3>1. d \in [1 .. n -> Int]
      BY <1>21
    <3> HIDE DEF d
    <3> QED BY <3>1, <1>5, SumSplit
  <2> QED BY <2>1, <2>2, <2>3, <1>9
<1>23. ASSUME NEW i \in 1 .. n
       PROVE  IF i = n
              THEN /\ total * p[i] <= d[i] * Total
                   /\ d[i] * Total < total * p[i] + n * Total
              ELSE /\ d[i] * Total <= total * p[i]
                   /\ total * p[i] < d[i] * Total + Total
  <2>1. CASE i = n
    <3>1. d[i] = total - F
      BY <2>1, <1>14
    <3> QED BY <2>1, <3>1, <1>18, <1>20
  <2>2. CASE i # n
    <3>1. i \in below
      BY <2>2, <1>5
    <3>2. d[i] = floor[i]
      BY <2>2, <1>14
    <3> QED BY <2>2, <3>1, <3>2, <1>6
  <2> QED BY <2>1, <2>2
<1> HIDE DEF d
<1>24. \A i \in 1 .. n : p[i] = members[i].percentage
  BY <1>2
<1> QED BY <1>1, <1>4, <1>21, <1>22, <1>23, <1>24 DEF d

-----------------------------------------------------------------------------
(* Rebalancing a member list.                                              *)

\* A list of shares with an entry has a first largest one.
LEMMA LargestExists ==
    ASSUME NEW n \in Nat \ {0}, NEW f \in [1 .. n -> Nat]
    PROVE  Largest(f) \in 1 .. n
<1> DEFINE IsTop(i, k) == i \in 1 .. k /\ \A j \in 1 .. k : f[j] <= f[i]
           good == {m \in Nat : m + 1 <= n => \E i \in 1 .. n : IsTop(i, m + 1)}
<1>1. 0 \in good
  <2>1. IsTop(1, 1)
    OBVIOUS
  <2> HIDE DEF IsTop
  <2> QED BY <2>1
<1>2. ASSUME NEW m \in Nat, m \in good
      PROVE  m + 1 \in good
  <2> SUFFICES ASSUME (m + 1) + 1 <= n
               PROVE  \E i \in 1 .. n : IsTop(i, (m + 1) + 1)
    OBVIOUS
  <2> DEFINE k == m + 1
  <2>1. k \in 1 .. n /\ k + 1 \in 1 .. n
    OBVIOUS
  <2>2. PICK i \in 1 .. n : IsTop(i, k)
    BY <2>1, <1>2
  <2> HIDE DEF k
  <2>3. CASE f[i] <= f[k + 1]
    <3>1. IsTop(k + 1, k + 1)
      BY <2>1, <2>2, <2>3
    <3> HIDE DEF IsTop
    <3> QED BY <2>1, <3>1 DEF k
  <2>4. CASE ~(f[i] <= f[k + 1])
    <3>1. IsTop(i, k + 1)
      BY <2>1, <2>2, <2>4
    <3> HIDE DEF IsTop
    <3> QED BY <2>1, <3>1 DEF k
  <2> QED BY <2>3, <2>4
<1>3. n - 1 \in good
  <2>1. n - 1 \in Nat
    OBVIOUS
  <2> HIDE DEF good
  <2> QED BY <2>1, <1>1, <1>2, UpTo
<1> DEFINE top == {i \in 1 .. n : \A j \in 1 .. n : f[j] <= f[i]}
<1>4. top # {}
  <2>1. (n - 1) + 1 = n /\ n - 1 \in Nat
    OBVIOUS
  <2>2. \E i \in 1 .. n : IsTop(i, n)
    BY <2>1, <1>3
  <2> QED BY <2>2
<1>5. PICK i \in top : \A j \in top : i <= j
  <2>1. top \in SUBSET Nat
    OBVIOUS
  <2> HIDE DEF top
  <2> QED BY <2>1, <1>4, LeastNatural
<1>6. ASSUME NEW j \in 1 .. i - 1 PROVE f[j] < f[i]
  <2>1. j \in 1 .. n /\ i \in 1 .. n /\ j \notin top
    BY <1>5
  <2>2. PICK k \in 1 .. n : ~(f[k] <= f[j])
    BY <2>1
  <2>3. f[k] <= f[i] /\ f[j] \in Nat /\ f[i] \in Nat /\ f[k] \in Nat
    BY <2>1
  <2> QED BY <2>2, <2>3
<1>7. /\ i \in DOMAIN f
      /\ \A j \in DOMAIN f : f[j] <= f[i]
      /\ \A j \in 1 .. i - 1 : f[j] < f[i]
  BY <1>6
<1>8. Largest(f) \in DOMAIN f
  <2> HIDE DEF top
  <2> QED BY <1>7 DEF Largest
<1> QED BY <1>8

\* Scaling and handing the rest to the largest reaches the target exactly,
\* and takes nothing from anyone.
LEMMA ProportionalLemma ==
    ASSUME NEW members \in MemberSeqs, NEW delta \in Int,
           TotalPercentage(members) # 0, Target(members, delta) > 0
    PROVE  /\ ProportionalShares(members, delta) \in [1 .. Len(members) -> Nat]
           /\ SumFunction(ProportionalShares(members, delta))
                    = Target(members, delta)
           /\ \A i \in 1 .. Len(members) :
                /\ Scaled(members, delta)[i] \in Nat
                /\ Scaled(members, delta)[i]
                        <= ProportionalShares(members, delta)[i]
           /\ TotalPercentage(members) \in Nat
<1> DEFINE n == Len(members)
           I == 1 .. n
           p == Percentages(members)
           T == TotalPercentage(members)
           target == Target(members, delta)
           scaled == Scaled(members, delta)
           S == SumFunction(scaled)
           top == Largest(scaled)
           rest == target - S
<1>1. /\ n \in Nat /\ DOMAIN members = I /\ p \in [I -> Nat]
      /\ \A i \in I : p[i] = members[i].percentage
  BY MemberFields
<1>2. IsFiniteSet(I)
  BY <1>1, FS_Interval
<1>3. T = SumFunction(p)
  BY DEF TotalPercentage
<1> HIDE DEF p, I
<1>4. T \in Nat \ {0}
  BY <1>1, <1>2, <1>3, SumNonNegative
<1>5. target = T + delta /\ target \in Nat
  <2>1. target = T + delta
    BY DEF Target
  <2> QED BY <2>1, <1>4
<1>6. n # 0
  <2> SUFFICES ASSUME n = 0 PROVE FALSE
    OBVIOUS
  <2>1. I = {}
    BY DEF I
  <2>2. p \in [{} -> Int]
    BY <2>1, <1>1
  <2> QED BY <2>2, <1>3, <1>4, SumEmpty
<1>7. scaled = [i \in I |-> (p[i] * target) \div T]
  BY <1>1 DEF Scaled
<1>8. ASSUME NEW i \in I
      PROVE  /\ p[i] * target \in Nat
             /\ scaled[i] \in Nat
             /\ scaled[i] * T <= p[i] * target
  <2>1. p[i] \in Nat
    BY <1>1
  <2>2. p[i] * target \in Nat
    BY <2>1, <1>5
  <2>3. scaled[i] = (p[i] * target) \div T
    BY <1>7
  <2> HIDE DEF scaled, target, T
  <2> QED BY <1>4, <2>2, <2>3, FloorDivision
<1>9. scaled \in [I -> Nat]
  BY <1>7, <1>8
<1> HIDE DEF scaled, target, T
<1>10. S \in Nat
  BY <1>2, <1>9, SumNonNegative
<1>11. T * S <= target * T
  <2> DEFINE f == [i \in I |-> T * scaled[i]]
             g == [i \in I |-> target * p[i]]
  <2>1. scaled \in [I -> Int] /\ p \in [I -> Int] /\ T \in Int /\ target \in Int
    BY <1>1, <1>4, <1>5, <1>9
  <2>2. SumFunction(f) = T * S
    BY <2>1, <1>2, SumScale
  <2>3. SumFunction(g) = target * T
    BY <2>1, <1>2, <1>3, SumScale
  <2>4. f \in [I -> Int] /\ g \in [I -> Int]
    BY <2>1
  <2>5. \A i \in I : f[i] <= g[i]
    <3> TAKE i \in I
    <3>1. scaled[i] \in Int /\ p[i] \in Int
      BY <2>1
    <3>2. T * scaled[i] = scaled[i] * T /\ target * p[i] = p[i] * target
      BY <3>1, <2>1
    <3> QED BY <3>2, <1>8
  <2> HIDE DEF f, g
  <2>6. SumFunction(f) <= SumFunction(g)
    BY <2>4, <2>5, <1>2, SumAtMost
  <2> QED BY <2>2, <2>3, <2>6
<1>12. S <= target
  <2>1. S * T <= target * T
    BY <1>4, <1>10, <1>11
  <2> QED BY <2>1, <1>4, <1>5, <1>10, OrderTimes
<1>13. top \in I
  BY <1>1, <1>6, <1>9, LargestExists DEF I
<1> DEFINE shares == ProportionalShares(members, delta)
<1>14. shares = [scaled EXCEPT ![top] = scaled[top] + target - S]
  BY DEF ProportionalShares, scaled, target
<1> HIDE DEF shares, S, top
<1>15. scaled[top] \in Nat /\ scaled[top] + target - S \in Nat
       /\ scaled[top] <= scaled[top] + target - S
  BY <1>5, <1>9, <1>10, <1>12, <1>13
<1>16. shares \in [I -> Nat] /\ \A i \in I : scaled[i] <= shares[i]
  BY <1>9, <1>13, <1>14, <1>15
<1>17. SumFunction(shares) = target
  <2>1. scaled \in [I -> Int] /\ shares \in [I -> Int]
    BY <1>9, <1>16
  <2>2. /\ \A i \in I \ {top} : shares[i] = scaled[i]
        /\ shares[top] = scaled[top] + target - S
    BY <1>9, <1>13, <1>14
  <2>3. SumFunction(shares) = S - scaled[top] + shares[top]
    BY <2>1, <2>2, <1>2, <1>13, SumChange DEF S
  <2> QED BY <2>2, <2>3, <1>5, <1>10, <1>15
<1> QED BY <1>4, <1>9, <1>16, <1>17 DEF shares, scaled, target, T, I

\* Moving a difference to one member changes the total by it.
LEMMA NamedLemma ==
    ASSUME NEW members \in MemberSeqs, IsInjective(Addresses(members)),
           NEW a \in Address, IsMember(members, a), NEW delta \in Int,
           NEW r \in [1 .. Len(members) -> Int],
           \A i \in 1 .. Len(members) :
                r[i] = members[i].percentage
                            + (IF members[i].address = a THEN delta ELSE 0)
    PROVE  SumFunction(r) = TotalPercentage(members) + delta
<1> DEFINE I == 1 .. Len(members)
           p == Percentages(members)
<1>1. /\ Len(members) \in Nat /\ DOMAIN members = I /\ p \in [I -> Nat]
      /\ \A i \in I : p[i] = members[i].percentage
  BY MemberFields
<1>2. IsFiniteSet(I)
  BY MemberFields, FiniteFrom1
<1>3. PICK k \in I : members[k].address = a
  BY <1>1 DEF IsMember
<1>4. \A i \in I : members[i].address = a => i = k
  BY <1>1, <1>3 DEF IsInjective, Addresses
<1>5. p \in [I -> Int] /\ r \in [I -> Int]
  BY <1>1
<1>6. r[k] = p[k] + delta
  BY <1>1, <1>3
<1>7. ASSUME NEW i \in I \ {k} PROVE r[i] = p[i]
  <2>1. members[i].address # a /\ p[i] = members[i].percentage /\ p[i] \in Int
    BY <1>1, <1>4
  <2>2. r[i] = p[i] + 0
    BY <2>1
  <2> QED BY <2>1, <2>2
<1> HIDE DEF p, I
<1>8. SumFunction(p) \in Int /\ p[k] \in Int
  BY <1>2, <1>5, SumType
<1>9. SumFunction(r) = SumFunction(p) - p[k] + r[k]
  BY <1>2, <1>5, <1>7, SumChange
<1> QED BY <1>6, <1>8, <1>9 DEF TotalPercentage, p

\* A rebalance that is accepted: the members and their order, delta more in
\* all, nobody with zero.
LEMMA RebalanceLemma ==
    ASSUME NEW members \in MemberSeqs, IsInjective(Addresses(members)),
           \A i \in 1 .. Len(members) : members[i].percentage > 0,
           NEW delta \in Int, NEW policy \in RebalancePolicy,
           CanRebalance(members, delta, policy)
    PROVE  LET after == ApplyRebalance(members, delta, policy)
           IN  /\ after \in MemberSeqs
               /\ Len(after) = Len(members)
               /\ Addresses(after) = Addresses(members)
               /\ TotalPercentage(after) = TotalPercentage(members) + delta
               /\ \A i \in 1 .. Len(members) : after[i].percentage > 0
<1> DEFINE n == Len(members)
           I == 1 .. n
           T == TotalPercentage(members)
           after == ApplyRebalance(members, delta, policy)
           new == [i \in I |-> NewPercentage(members, delta, policy, i)]
<1>1. /\ n \in Nat /\ DOMAIN members = I /\ Percentages(members) \in [I -> Nat]
      /\ \A i \in I : members[i].address \in Address
      /\ \A i \in I : members[i].percentage \in Nat
      /\ \A i \in I : Percentages(members)[i] = members[i].percentage
  BY MemberFields
<1>2. T \in Int
  <2>1. Percentages(members) \in [I -> Int] /\ IsFiniteSet(I)
    BY <1>1, FiniteFrom1
  <2> QED BY <2>1, SumType DEF TotalPercentage
<1>3. CASE delta = 0
  <2>1. after = members /\ T + delta = T
    BY <1>2, <1>3 DEF ApplyRebalance
  <2> QED BY <2>1
<1>4. ASSUME delta # 0, new \in [I -> Nat], \A i \in I : new[i] > 0,
             SumFunction(new) = T + delta
      PROVE  /\ after \in MemberSeqs
             /\ Len(after) = n
             /\ Addresses(after) = Addresses(members)
             /\ TotalPercentage(after) = T + delta
             /\ \A i \in I : after[i].percentage > 0
  <2>1. after = [i \in I |-> [address |-> members[i].address,
                              percentage |-> new[i]]]
    BY <1>1, <1>4 DEF ApplyRebalance
  <2> DEFINE R == [address : Address, percentage : Nat]
  <2> HIDE DEF new, after
  <2>2. \A i \in I : [address |-> members[i].address, percentage |-> new[i]] \in R
    BY <1>1, <1>4
  <2>3. after \in [I -> R]
    <3> HIDE DEF R
    <3> QED BY <2>1, <2>2
  <2>4. after \in Seq(R) /\ Len(after) = n /\ DOMAIN after = I
    <3> HIDE DEF R
    <3>1. after \in Seq(R)
      BY <1>1, <2>3, IsASeq
    <3>2. DOMAIN after = I
      BY <2>1
    <3> QED BY <1>1, <3>1, <3>2, LenProperties
  <2>5. \A i \in I : /\ after[i].address = members[i].address
                     /\ after[i].percentage = new[i]
    BY <2>1
  <2>6. Addresses(after) = Addresses(members)
    BY <1>1, <2>4, <2>5 DEF Addresses
  <2>7. Percentages(after) = new
    BY <1>4, <2>4, <2>5 DEF Percentages
  <2>8. TotalPercentage(after) = T + delta
    BY <1>4, <2>7 DEF TotalPercentage
  <2> QED BY <1>4, <2>4, <2>5, <2>6, <2>8 DEF MemberSeqs
<1>5. CASE delta # 0 /\ policy.kind = "Named"
  <2>1. /\ IsMember(members, policy.address)
        /\ \A i \in I : NewPercentage(members, delta, policy, i) > 0
    BY <1>1, <1>5 DEF CanRebalance
  <2>2. policy.address \in Address
    BY <1>5 DEF RebalancePolicy, Proportional, Named
  <2>3. new = [i \in I |-> members[i].percentage
                    + (IF members[i].address = policy.address
                       THEN delta ELSE 0)]
    BY <1>5 DEF NewPercentage
  <2>4. new \in [I -> Nat] /\ \A i \in I : new[i] > 0
    <3>1. \A i \in I : new[i] > 0
      BY <2>1
    <3>2. \A i \in I : new[i] \in Int
      BY <1>1, <2>3
    <3> QED BY <3>1, <3>2
  <2>5. \A i \in I : new[i] = members[i].percentage
                        + (IF members[i].address = policy.address
                           THEN delta ELSE 0)
    BY <2>3
  <2>6. SumFunction(new) = T + delta
    <3>1. new \in [I -> Int]
      BY <2>4
    <3> HIDE DEF new
    <3> QED BY <2>1, <2>2, <2>5, <3>1, NamedLemma
  <2> QED BY <1>4, <1>5, <2>4, <2>6
<1>6. CASE delta # 0 /\ policy.kind = "Proportional"
  <2>1. /\ T # 0 /\ Target(members, delta) > 0
        /\ \A i \in I : Scaled(members, delta)[i] # 0
    BY <1>1, <1>6 DEF CanRebalance
  <2>2. new = [i \in I |-> ProportionalShares(members, delta)[i]]
    BY <1>6 DEF NewPercentage
  <2>3. /\ ProportionalShares(members, delta) \in [I -> Nat]
        /\ SumFunction(ProportionalShares(members, delta)) = T + delta
        /\ \A i \in I : /\ Scaled(members, delta)[i] \in Nat
                        /\ Scaled(members, delta)[i]
                                <= ProportionalShares(members, delta)[i]
    BY <2>1, ProportionalLemma DEF Target
  <2>4. new = ProportionalShares(members, delta)
    BY <2>2, <2>3
  <2> HIDE DEF new
  <2>5. \A i \in I : new[i] > 0
    BY <2>1, <2>3, <2>4
  <2> QED BY <1>4, <1>6, <2>3, <2>4, <2>5
<1>7. policy.kind = "Named" \/ policy.kind = "Proportional"
  BY DEF RebalancePolicy, Proportional, Named
<1> QED BY <1>3, <1>5, <1>6, <1>7

-----------------------------------------------------------------------------
(* Taking a member out of a list and putting one in.                       *)

\* A list without its i-th member: shorter by it, and lighter by it.
LEMMA RemovedMember ==
    ASSUME NEW members \in MemberSeqs, NEW i \in 1 .. Len(members)
    PROVE  LET others == RemoveAt(members, i)
           IN  /\ others \in MemberSeqs
               /\ Len(others) = Len(members) - 1
               /\ \A j \in 1 .. Len(others) :
                    others[j] = members[IF j < i THEN j ELSE j + 1]
               /\ TotalPercentage(others)
                    = TotalPercentage(members) - members[i].percentage
               /\ TotalPercentage(others) \in Int
<1> DEFINE n == Len(members)
           R == [address : Address, percentage : Nat]
           others == RemoveAt(members, i)
           I == 1 .. n
           J == 1 .. n - 1
           h == [j \in J |-> IF j < i THEN j ELSE j + 1]
           p == Percentages(members)
           q == Percentages(others)
<1>1. /\ n \in Nat /\ DOMAIN members = I /\ p \in [I -> Nat]
      /\ \A j \in I : p[j] = members[j].percentage
  BY MemberFields
<1>2. members \in Seq(R)
  BY DEF MemberSeqs
<1> HIDE DEF R
<1>3. /\ others \in Seq(R) /\ Len(others) = n - 1
      /\ \A j \in J : others[j] = members[IF j < i THEN j ELSE j + 1]
  <2> DEFINE s == SubSeq(members, 1, i - 1)
             t == SubSeq(members, i + 1, n)
  <2>1. /\ s \in Seq(R) /\ Len(s) = i - 1
        /\ \A j \in 1 .. i - 1 : s[j] = members[j]
    BY <1>1, <1>2, SubSeqProperties
  <2>2. /\ t \in Seq(R) /\ Len(t) = n - i
        /\ \A j \in 1 .. n - i : t[j] = members[i + j]
    <3>1. i + 1 \in Int /\ n \in Int /\ n - i \in Nat
      BY <1>1
    <3>2. \A k \in i + 1 .. n : members[k] \in R
      BY <1>1, <1>2
    <3>3. /\ t \in Seq(R)
          /\ Len(t) = IF i + 1 <= n THEN n - (i + 1) + 1 ELSE 0
          /\ \A j \in 1 .. n - (i + 1) + 1 : t[j] = members[(i + 1) + j - 1]
      BY <3>1, <3>2, SubSeqProperties
    <3> HIDE DEF t, n
    <3>4. n - (i + 1) + 1 = n - i /\ \A j \in Int : (i + 1) + j - 1 = i + j
      BY <3>1
    <3>5. Len(t) = n - i
      BY <3>1, <3>3
    <3>6. ASSUME NEW j \in 1 .. n - i PROVE t[j] = members[i + j]
      <4>1. j \in 1 .. n - (i + 1) + 1 /\ j \in Int
        BY <3>4
      <4>2. t[j] = members[(i + 1) + j - 1]
        BY <3>3, <4>1
      <4> QED BY <3>4, <4>1, <4>2
    <3> QED BY <3>3, <3>5, <3>6
  <2>3. others = s \o t
    BY DEF RemoveAt
  <2> HIDE DEF s, t, others
  <2>4. /\ s \o t \in Seq(R) /\ Len(s \o t) = n - 1
        /\ \A j \in J : (s \o t)[j] = IF j < i THEN s[j] ELSE t[j - (i - 1)]
    <3>1. s \in Seq(R) /\ t \in Seq(R)
      BY <2>1, <2>2
    <3>2. /\ s \o t \in Seq(R) /\ Len(s \o t) = Len(s) + Len(t)
          /\ \A j \in 1 .. Len(s) + Len(t) :
                (s \o t)[j] = IF j <= Len(s) THEN s[j] ELSE t[j - Len(s)]
      BY <3>1, ConcatProperties
    <3> HIDE DEF n
    <3>3. Len(s) + Len(t) = n - 1
      BY <1>1, <2>1, <2>2
    <3>4. \A j \in J : j <= Len(s) <=> j < i
      BY <1>1, <2>1
    <3> QED BY <2>1, <3>2, <3>3, <3>4
  <2>5. ASSUME NEW j \in J
        PROVE  others[j] = members[IF j < i THEN j ELSE j + 1]
    <3>1. CASE j < i
      BY <1>1, <2>1, <2>3, <2>4, <3>1
    <3>2. CASE ~(j < i)
      <4>1. j - (i - 1) \in 1 .. n - i /\ i + (j - (i - 1)) = j + 1
        BY <1>1, <3>2
      <4> QED BY <2>2, <2>3, <2>4, <3>2, <4>1
    <3> QED BY <3>1, <3>2
  <2> QED BY <2>3, <2>4, <2>5
<1>4. others \in MemberSeqs
  BY <1>3 DEF MemberSeqs, R
<1>5. /\ q \in [J -> Nat]
      /\ \A j \in J : q[j] = p[h[j]]
  <2>1. /\ q \in [1 .. Len(others) -> Nat]
        /\ \A j \in 1 .. Len(others) : q[j] = others[j].percentage
    BY <1>4, MemberFields
  <2>2. \A j \in J : h[j] \in I
    BY <1>1
  <2> QED BY <1>1, <1>3, <2>1, <2>2
<1>6. IsFiniteSet(I) /\ IsFiniteSet(J)
  BY <1>1, FiniteFrom1
<1>7. /\ h \in [J -> I]
      /\ \A j, k \in J : h[j] = h[k] => j = k
      /\ {h[j] : j \in J} = I \ {i}
  <2>1. h \in [J -> I]
    BY <1>1
  <2>2. ASSUME NEW j \in J, NEW k \in J, h[j] = h[k] PROVE j = k
    BY <1>1, <2>2
  <2>3. ASSUME NEW k \in I \ {i} PROVE \E j \in J : h[j] = k
    <3>1. CASE k < i
      <4>1. k \in J /\ h[k] = k
        BY <1>1, <3>1
      <4> QED BY <4>1
    <3>2. CASE ~(k < i)
      <4>1. k - 1 \in J /\ h[k - 1] = k
        BY <1>1, <3>2
      <4> QED BY <4>1
    <3> QED BY <3>1, <3>2
  <2>4. ASSUME NEW j \in J PROVE h[j] \in I \ {i}
    BY <1>1
  <2> HIDE DEF h, I, J
  <2> QED BY <2>1, <2>2, <2>3, <2>4
<1>8. p \in [I -> Int] /\ q \in [J -> Int]
  BY <1>1, <1>5
<1> HIDE DEF h, p, q, I, J
<1>9. SumFunction(q) = SumFunction(Restrict(p, I \ {i}))
  <2>1. SumFunction(q) = SumFunction(Restrict(p, {h[j] : j \in J}))
    BY <1>5, <1>6, <1>7, <1>8, SumImage
  <2> QED BY <2>1, <1>7
<1>10. SumFunction(p) = p[i] + SumFunction(Restrict(p, I \ {i}))
  <2>1. i \in I
    BY DEF I
  <2>2. SumFunction(p) = p[i] + SumFunction([y \in I \ {i} |-> p[y]])
    BY <2>1, <1>6, <1>8, SumSplit
  <2> QED BY <2>2 DEF Restrict
<1>11. SumFunction(q) \in Int /\ p[i] \in Int /\ p[i] = members[i].percentage
  <2>1. i \in I
    BY DEF I
  <2> QED BY <2>1, <1>1, <1>6, <1>8, SumType
<1>12. SumFunction(q) = SumFunction(p) - p[i]
  BY <1>9, <1>10, <1>11
<1>13. TotalPercentage(members) = SumFunction(p)
       /\ TotalPercentage(others) = SumFunction(q)
  BY DEF TotalPercentage, p, q
<1> QED BY <1>3, <1>4, <1>11, <1>12, <1>13 DEF J

\* Distinct members stay distinct, and the one taken out is not among them.
LEMMA RemovedDistinct ==
    ASSUME NEW members \in MemberSeqs, NEW i \in 1 .. Len(members),
           IsInjective(Addresses(members))
    PROVE  /\ IsInjective(Addresses(RemoveAt(members, i)))
           /\ ~IsMember(RemoveAt(members, i), members[i].address)
<1> DEFINE n == Len(members)
           others == RemoveAt(members, i)
           at(j) == IF j < i THEN j ELSE j + 1
<1>1. n \in Nat /\ DOMAIN members = 1 .. n
  BY MemberFields
<1>2. /\ DOMAIN others = 1 .. n - 1
      /\ \A j \in 1 .. n - 1 : others[j] = members[at(j)]
  <2>1. /\ others \in MemberSeqs /\ Len(others) = n - 1
        /\ \A j \in 1 .. Len(others) : others[j] = members[at(j)]
    BY RemovedMember
  <2> QED BY <2>1, MemberFields
<1>3. \A j \in 1 .. n - 1 : at(j) \in 1 .. n /\ at(j) # i
  BY <1>1
<1>4. \A j, k \in 1 .. n - 1 : at(j) = at(k) => j = k
  BY <1>1
<1>5. \A j, k \in 1 .. n :
        members[j].address = members[k].address => j = k
  BY <1>1 DEF IsInjective, Addresses
<1> HIDE DEF others, at
<1>6. IsInjective(Addresses(others))
  BY <1>2, <1>3, <1>4, <1>5 DEF IsInjective, Addresses
<1>7. ~IsMember(others, members[i].address)
  BY <1>2, <1>3, <1>5 DEF IsMember
<1> QED BY <1>6, <1>7 DEF others

\* A list with one member more than another: heavier by it, and distinct if
\* the other is and does not have it.
LEMMA OneMember ==
    ASSUME NEW members \in MemberSeqs, NEW more \in MemberSeqs,
           Len(more) = Len(members) + 1, NEW i \in 1 .. Len(more),
           \A j \in 1 .. Len(members) :
                members[j] = more[IF j < i THEN j ELSE j + 1]
    PROVE  /\ TotalPercentage(more)
                = TotalPercentage(members) + more[i].percentage
           /\ (IsInjective(Addresses(members))
                    /\ ~IsMember(members, more[i].address))
                => IsInjective(Addresses(more))
<1> DEFINE n == Len(members)
           others == RemoveAt(more, i)
           R == [address : Address, percentage : Nat]
<1>1. /\ n \in Nat /\ DOMAIN members = 1 .. n
      /\ Len(more) = n + 1 /\ DOMAIN more = 1 .. n + 1
  BY MemberFields
<1>2. /\ others \in MemberSeqs /\ Len(others) = n
      /\ \A j \in 1 .. n : others[j] = more[IF j < i THEN j ELSE j + 1]
      /\ TotalPercentage(others) = TotalPercentage(more) - more[i].percentage
      /\ TotalPercentage(others) \in Int
  <2> HIDE DEF others
  <2> QED BY <1>1, RemovedMember DEF others
<1> HIDE DEF others, R
<1>3. others = members
  <2>1. others \in Seq(R) /\ members \in Seq(R)
    BY <1>2 DEF MemberSeqs, R
  <2>2. \A j \in 1 .. n : others[j] = members[j]
    BY <1>2
  <2> QED BY <1>1, <1>2, <2>1, <2>2, SeqEqual
<1>4. TotalPercentage(more) = TotalPercentage(members) + more[i].percentage
  <2>1. more[i].percentage \in Int
    BY MemberFields
  <2>2. TotalPercentage(more) \in Int
    <3>1. /\ Percentages(more) \in [1 .. n + 1 -> Int]
          /\ IsFiniteSet(1 .. n + 1)
      <4>1. n + 1 \in Nat
        BY <1>1
      <4> QED BY <1>1, <4>1, MemberFields, FiniteFrom1
    <3> QED BY <3>1, SumType DEF TotalPercentage
  <2> QED BY <1>2, <1>3, <2>1, <2>2
<1>5. ASSUME IsInjective(Addresses(members)),
             ~IsMember(members, more[i].address)
      PROVE  IsInjective(Addresses(more))
  <2> DEFINE back(j) == IF j < i THEN j ELSE j - 1
  <2>1. ASSUME NEW j \in 1 .. n + 1, j # i
        PROVE  back(j) \in 1 .. n /\ more[j] = members[back(j)]
    <3>1. back(j) \in 1 .. n
      BY <1>1, <2>1
    <3>2. (IF back(j) < i THEN back(j) ELSE back(j) + 1) = j
      BY <1>1, <2>1
    <3> HIDE DEF back
    <3> QED BY <3>1, <3>2
  <2>2. \A j, k \in 1 .. n + 1 :
            j # i /\ k # i /\ back(j) = back(k) => j = k
    BY <1>1
  <2>3. \A j, k \in 1 .. n :
            members[j].address = members[k].address => j = k
    BY <1>1, <1>5 DEF IsInjective, Addresses
  <2>4. \A j \in 1 .. n : members[j].address # more[i].address
    BY <1>1, <1>5 DEF IsMember
  <2> HIDE DEF back
  <2>5. ASSUME NEW j \in 1 .. n + 1, NEW k \in 1 .. n + 1,
               more[j].address = more[k].address
        PROVE  j = k
    <3>1. CASE j = i /\ k = i
      BY <3>1
    <3>2. CASE j = i /\ k # i
      BY <2>1, <2>4, <2>5, <3>2
    <3>3. CASE j # i /\ k = i
      BY <2>1, <2>4, <2>5, <3>3
    <3>4. CASE j # i /\ k # i
      BY <2>1, <2>2, <2>3, <2>5, <3>4
    <3> QED BY <3>1, <3>2, <3>3, <3>4
  <2> QED BY <1>1, <2>5 DEF IsInjective, Addresses
<1> QED BY <1>4, <1>5

LEMMA AppendedMember ==
    ASSUME NEW members \in MemberSeqs,
           NEW e \in [address : Address, percentage : Nat]
    PROVE  LET more == Append(members, e)
           IN  /\ more \in MemberSeqs
               /\ Len(more) = Len(members) + 1
               /\ \A j \in 1 .. Len(members) : more[j] = members[j]
               /\ more[Len(more)] = e
               /\ TotalPercentage(more)
                    = TotalPercentage(members) + e.percentage
               /\ (IsInjective(Addresses(members))
                        /\ ~IsMember(members, e.address))
                    => IsInjective(Addresses(more))
<1> DEFINE n == Len(members)
           R == [address : Address, percentage : Nat]
           more == Append(members, e)
<1>1. n \in Nat /\ members \in Seq(R) /\ e \in R
  BY MemberFields DEF MemberSeqs
<1> HIDE DEF R
<1>2. /\ more \in Seq(R) /\ Len(more) = n + 1
      /\ \A j \in 1 .. n : more[j] = members[j]
      /\ more[n + 1] = e
  BY <1>1, AppendProperties
<1>3. more \in MemberSeqs
  BY <1>2 DEF MemberSeqs, R
<1> HIDE DEF more
<1>4. \A j \in 1 .. n : members[j] = more[IF j < n + 1 THEN j ELSE j + 1]
  BY <1>1, <1>2
<1>5. n + 1 \in 1 .. Len(more)
  BY <1>1, <1>2
<1>6. /\ TotalPercentage(more)
            = TotalPercentage(members) + more[n + 1].percentage
      /\ (IsInjective(Addresses(members))
                /\ ~IsMember(members, more[n + 1].address))
            => IsInjective(Addresses(more))
  BY <1>2, <1>3, <1>4, <1>5, OneMember
<1> QED BY <1>2, <1>3, <1>6 DEF more

LEMMA InsertedMember ==
    ASSUME NEW members \in MemberSeqs, NEW i \in 1 .. Len(members) + 1,
           NEW e \in [address : Address, percentage : Nat]
    PROVE  LET more == InsertAt(members, i, e)
           IN  /\ more \in MemberSeqs
               /\ Len(more) = Len(members) + 1
               /\ \A j \in 1 .. Len(members) :
                    members[j] = more[IF j < i THEN j ELSE j + 1]
               /\ more[i] = e
               /\ TotalPercentage(more)
                    = TotalPercentage(members) + e.percentage
               /\ (IsInjective(Addresses(members))
                        /\ ~IsMember(members, e.address))
                    => IsInjective(Addresses(more))
<1> DEFINE n == Len(members)
           R == [address : Address, percentage : Nat]
           more == InsertAt(members, i, e)
           s == SubSeq(members, 1, i - 1)
           t == SubSeq(members, i, n)
           u == s \o <<e>>
<1>1. n \in Nat /\ members \in Seq(R) /\ e \in R
  BY MemberFields DEF MemberSeqs
<1> HIDE DEF R
<1>2. /\ s \in Seq(R) /\ Len(s) = i - 1
      /\ \A j \in 1 .. i - 1 : s[j] = members[j]
  BY <1>1, SubSeqProperties
<1>3. /\ t \in Seq(R) /\ Len(t) = n - i + 1
      /\ \A j \in 1 .. n - i + 1 : t[j] = members[i + j - 1]
  <2>1. i \in Int /\ n \in Int
    BY <1>1
  <2>2. \A k \in i .. n : members[k] \in R
    BY <1>1
  <2>3. /\ t \in Seq(R)
        /\ Len(t) = IF i <= n THEN n - i + 1 ELSE 0
        /\ \A j \in 1 .. n - i + 1 : t[j] = members[i + j - 1]
    BY <2>1, <2>2, SubSeqProperties
  <2> HIDE DEF t, n
  <2>4. Len(t) = n - i + 1
    BY <2>1, <2>3 DEF n
  <2> QED BY <2>3, <2>4
<1>4. more = u \o t
  BY DEF InsertAt
<1> HIDE DEF s, t, more
<1>5. /\ u \in Seq(R) /\ Len(u) = i
      /\ \A j \in 1 .. i : u[j] = IF j < i THEN members[j] ELSE e
  <2>1. <<e>> \in Seq(R) /\ Len(<<e>>) = 1 /\ <<e>>[1] = e
    BY <1>1
  <2> DEFINE one == <<e>>
  <2> HIDE DEF one
  <2>2. /\ s \o one \in Seq(R) /\ Len(s \o one) = Len(s) + Len(one)
        /\ \A j \in 1 .. Len(s) + Len(one) :
              (s \o one)[j] = IF j <= Len(s) THEN s[j] ELSE one[j - Len(s)]
    BY <1>2, <2>1, ConcatProperties DEF one
  <2>3. Len(s) + Len(one) = i /\ one[1] = e
    BY <1>2, <2>1 DEF one
  <2>4. ASSUME NEW j \in 1 .. i
        PROVE  (s \o one)[j] = IF j < i THEN members[j] ELSE e
    <3>1. CASE j < i
      BY <1>2, <2>2, <2>3, <3>1
    <3>2. CASE ~(j < i)
      <4>1. j = i /\ i \in Nat
        BY <1>1, <3>2
      <4>2. j - Len(s) = 1 /\ ~(j <= Len(s))
        BY <1>2, <4>1
      <4> QED BY <2>2, <2>3, <3>2, <4>2
    <3> QED BY <3>1, <3>2
  <2> QED BY <2>2, <2>3, <2>4 DEF one
<1> HIDE DEF u
<1>6. /\ u \o t \in Seq(R) /\ Len(u \o t) = n + 1
      /\ \A j \in 1 .. n + 1 :
            (u \o t)[j] = IF j <= i THEN u[j] ELSE t[j - i]
  <2>1. /\ u \o t \in Seq(R) /\ Len(u \o t) = Len(u) + Len(t)
        /\ \A j \in 1 .. Len(u) + Len(t) :
              (u \o t)[j] = IF j <= Len(u) THEN u[j] ELSE t[j - Len(u)]
    BY <1>3, <1>5, ConcatProperties
  <2>2. Len(u) + Len(t) = n + 1 /\ Len(u) = i
    BY <1>1, <1>3, <1>5
  <2> QED BY <2>1, <2>2
<1>7. more \in MemberSeqs /\ Len(more) = n + 1
  BY <1>4, <1>6 DEF MemberSeqs, R
<1>8. more[i] = e /\ i \in 1 .. n + 1
  BY <1>1, <1>4, <1>5, <1>6
<1>9. ASSUME NEW j \in 1 .. n
      PROVE  members[j] = more[IF j < i THEN j ELSE j + 1]
  <2>1. CASE j < i
    BY <1>1, <1>4, <1>5, <1>6, <2>1
  <2>2. CASE ~(j < i)
    <3>1. /\ j + 1 \in 1 .. n + 1 /\ ~(j + 1 <= i)
          /\ (j + 1) - i \in 1 .. n - i + 1
          /\ i + ((j + 1) - i) - 1 = j
      BY <1>1, <2>2
    <3>2. more[j + 1] = t[(j + 1) - i]
      BY <1>4, <1>6, <3>1
    <3> QED BY <1>3, <2>2, <3>1, <3>2
  <2> QED BY <2>1, <2>2
<1>10. /\ TotalPercentage(more)
            = TotalPercentage(members) + more[i].percentage
       /\ (IsInjective(Addresses(members))
                /\ ~IsMember(members, more[i].address))
            => IsInjective(Addresses(more))
  BY <1>7, <1>8, <1>9, OneMember
<1> QED BY <1>7, <1>8, <1>9, <1>10 DEF more

-----------------------------------------------------------------------------
(* The calls of SplitCalls.                                                *)

\* The lists the calls are about are distinct members with positive shares.
LEMMA SplitListsSound ==
    ASSUME NEW members \in SplitLists
    PROVE  /\ members \in MemberSeqs
           /\ IsInjective(Addresses(members))
           /\ \A i \in 1 .. Len(members) : members[i].percentage > 0
<1> DEFINE N == Cardinality(Address)
           R == [address : Address, percentage : Nat]
<1>1. N \in Nat /\ Roster \in [1 .. N -> Address] /\ IsInjective(Roster)
  <2>1. N \in Nat /\ ExistsBijection(1 .. N, Address)
    BY SharesAssumption, FS_CardinalityType
  <2>2. \E f \in [1 .. N -> Address] : IsInjective(f)
    BY <2>1 DEF ExistsBijection, Bijection, Injection
  <2> QED BY <2>1, <2>2 DEF Roster, SetToSeq
<1>0. PICK n \in 1 .. N : \E q \in [1 .. n -> 1 .. Total] :
        members = [i \in 1 .. n |-> [address |-> Roster[i], percentage |-> q[i]]]
  <2>1. \E n \in DOMAIN Roster :
            members \in {[i \in 1 .. n |-> [address |-> Roster[i],
                                            percentage |-> p[i]]] :
                p \in {q \in [1 .. n -> 1 .. Total] : SumFunction(q) <= Total}}
    BY Zenon DEF SplitLists
  <2>2. DOMAIN Roster = 1 .. N
    BY <1>1
  <2> QED BY <2>1, <2>2
<1>2. PICK q \in [1 .. n -> 1 .. Total] :
        members = [i \in 1 .. n |-> [address |-> Roster[i], percentage |-> q[i]]]
  BY <1>0
<1> HIDE DEF N
<1>3. n \in Nat /\ \A i \in 1 .. n : i \in 1 .. N
  BY <1>1
<1>4. ASSUME NEW i \in 1 .. n
      PROVE  /\ members[i] \in R
             /\ members[i].address = Roster[i]
             /\ members[i].percentage = q[i]
             /\ q[i] \in Nat /\ q[i] > 0
  <2>1. Roster[i] \in Address /\ q[i] \in 1 .. Total
    BY <1>1, <1>3
  <2>2. q[i] \in Nat /\ q[i] > 0
    BY <2>1, SharesAssumption
  <2>3. members[i] = [address |-> Roster[i], percentage |-> q[i]]
    BY <1>2
  <2> QED BY <2>1, <2>2, <2>3
<1> HIDE DEF R
<1>5. members \in [1 .. n -> R] /\ DOMAIN members = 1 .. n
  <2>1. \A i \in 1 .. n :
          [address |-> Roster[i], percentage |-> q[i]] \in R
    BY <1>2, <1>4
  <2> QED BY <2>1, <1>2
<1>6. members \in Seq(R) /\ Len(members) = n
  <2>1. members \in Seq(R)
    BY <1>3, <1>5, IsASeq
  <2> QED BY <2>1, <1>3, <1>5, LenProperties
<1>7. IsInjective(Addresses(members))
  BY <1>1, <1>3, <1>4, <1>5 DEF IsInjective, Addresses
<1> QED BY <1>4, <1>6, <1>7 DEF MemberSeqs, R

SplitsInv ==
    /\ splitOf \in MemberSeqs
    /\ IsInjective(Addresses(splitOf))
    /\ \A i \in 1 .. Len(splitOf) : splitOf[i].percentage > 0
    /\ SplitConserves
    /\ SplitFair
    /\ RebalanceExact

LEMMA SplitsInvariant == SplitsSpec => []SplitsInv
<1>1. InitSplits => SplitsInv
  <2> SUFFICES ASSUME InitSplits PROVE SplitsInv
    OBVIOUS
  <2>1. ~granted
    BY DEF InitSplits
  <2>2. splitOf \in SplitLists
    BY DEF InitSplits
  <2> QED BY <2>1, <2>2, SplitListsSound
        DEF SplitsInv, SplitConserves, SplitFair, RebalanceExact, Answered
<1>2. SplitsInv /\ [NextSplits]_splitVars => SplitsInv'
  <2> SUFFICES ASSUME SplitsInv, [NextSplits]_splitVars PROVE SplitsInv'
    OBVIOUS
  <2> DEFINE n == Len(splitOf)
  <2>0. n \in Nat /\ DOMAIN splitOf = 1 .. n
        /\ \A i \in 1 .. n : splitOf[i].percentage \in Nat
    BY MemberFields DEF SplitsInv
  <2>1. ASSUME NEW amount \in 0 .. MaxAmount, Split(amount)
        PROVE  SplitsInv'
    <3>1. /\ splitCall' = [op |-> "split", amount |-> amount]
          /\ granted' = CanDistribute(amount, splitOf)
          /\ splitOf' = splitOf
      BY <2>1 DEF Split
    <3>2. splitCall'.op = "split" /\ splitCall'.amount = amount
      BY <3>1
    <3>3. RebalanceExact'
      BY <3>2 DEF RebalanceExact, Answered
    <3>4. CASE ~granted'
      BY <3>1, <3>3, <3>4
         DEF SplitsInv, SplitConserves, SplitFair, Answered
    <3>5. CASE granted'
      <4>1. payout' = DistributeAmounts(amount, splitOf)
        BY <2>1, <3>5 DEF Split
      <4>2. /\ amount \in Nat
            /\ TotalPercentage(splitOf) = Total
            /\ splitOf \in MemberSeqs
        <5>1. amount \in Nat
          BY SplitCallsAssumption
        <5>2. CanDistribute(amount, splitOf)
          BY <3>1, <3>5
        <5> QED BY <5>1, <5>2 DEF CanDistribute, ValidPercentages, SplitsInv
      <4>3. /\ payout' \in [1 .. n -> Nat]
            /\ SumFunction(payout') = amount
            /\ \A i \in 1 .. n :
                 LET exact == amount * splitOf[i].percentage
                     share == payout'[i]
                 IN  IF i = n
                     THEN /\ exact <= share * Total
                          /\ share * Total < exact + n * Total
                     ELSE /\ share * Total <= exact
                          /\ exact < share * Total + Total
        BY <4>1, <4>2, SplitLemma
      <4>4. SplitConserves'
        BY <3>2, <4>3 DEF SplitConserves
      <4>5. ASSUME NEW i \in 1 .. n
            PROVE  LET exact == amount * splitOf[i].percentage
                       slack == IF i = n THEN n ELSE 1
                   IN  /\ exact - Total < payout'[i] * Total
                       /\ payout'[i] * Total < exact + slack * Total
        <5> DEFINE x == amount * splitOf[i].percentage
                   y == payout'[i] * Total
                   z == n * Total
        <5>1. /\ x \in Int /\ y \in Int /\ z \in Int
              /\ Total \in Int /\ Total > 0 /\ 1 * Total = Total
          <6>1. splitOf[i].percentage \in Nat /\ payout'[i] \in Nat
            BY <2>0, <4>3
          <6>2. Total \in Int /\ Total > 0 /\ 1 * Total = Total
            BY SharesAssumption
          <6> QED BY <2>0, <4>2, <6>1, <6>2
        <5>2. IF i = n THEN x <= y /\ y < x + z ELSE y <= x /\ x < y + Total
          BY <4>3
        <5> HIDE DEF x, y, z
        <5>3. /\ x - Total < y
              /\ i = n => y < x + z
              /\ i # n => y < x + 1 * Total
          BY <5>1, <5>2
        <5> QED BY <5>3 DEF x, y, z
      <4>6. SplitFair'
        <5>1. DOMAIN payout' = 1 .. n
          BY <4>3
        <5> QED BY <3>1, <3>2, <4>5, <5>1 DEF SplitFair
      <4> QED BY <3>1, <3>3, <4>4, <4>6 DEF SplitsInv
    <3> QED BY <3>4, <3>5
  <2>2. ASSUME NEW delta \in -MaxDelta .. MaxDelta,
               NEW policy \in RebalancePolicy, Rebalance(delta, policy)
        PROVE  SplitsInv'
    <3>1. /\ splitCall' = [op |-> "rebalance", delta |-> delta,
                           policy |-> policy]
          /\ granted' = CanRebalance(splitOf, delta, policy)
          /\ splitOf' = splitOf
      BY <2>2 DEF Rebalance
    <3>2. splitCall'.op = "rebalance" /\ splitCall'.delta = delta
      BY <3>1
    <3>3. SplitConserves' /\ SplitFair'
      BY <3>2 DEF SplitConserves, SplitFair, Answered
    <3>4. CASE ~granted'
      BY <3>1, <3>3, <3>4 DEF SplitsInv, RebalanceExact, Answered
    <3>5. CASE granted'
      <4>1. payout' = ApplyRebalance(splitOf, delta, policy)
        BY <2>2, <3>5 DEF Rebalance
      <4>2. /\ payout' \in MemberSeqs /\ Len(payout') = n
            /\ Addresses(payout') = Addresses(splitOf)
            /\ TotalPercentage(payout') = TotalPercentage(splitOf) + delta
            /\ \A i \in 1 .. n : payout'[i].percentage > 0
        <5>1. delta \in Int
          BY SplitCallsAssumption
        <5>2. /\ splitOf \in MemberSeqs /\ IsInjective(Addresses(splitOf))
              /\ \A i \in 1 .. Len(splitOf) : splitOf[i].percentage > 0
              /\ CanRebalance(splitOf, delta, policy)
          BY <3>1, <3>5 DEF SplitsInv
        <5> HIDE DEF n
        <5> QED BY <4>1, <5>1, <5>2, RebalanceLemma DEF n
      <4>3. DOMAIN payout' = 1 .. n
        BY <4>2, MemberFields
      <4>4. RebalanceExact'
        BY <3>1, <3>2, <4>2, <4>3 DEF RebalanceExact
      <4> QED BY <3>1, <3>3, <4>4 DEF SplitsInv
    <3> QED BY <3>4, <3>5
  <2>3. CASE UNCHANGED splitVars
    BY <2>3 DEF splitVars, SplitsInv, SplitConserves, SplitFair,
                RebalanceExact, Answered
  <2> QED BY <2>1, <2>2, <2>3 DEF NextSplits
<1> QED BY <1>1, <1>2, PTL DEF SplitsSpec

(* distribute_amounts pays out exactly the amount, and nobody a negative   *)
(* one, for every member list of the right total, amount and precision of  *)
(* the percentages.                                                        *)
THEOREM SplitsConserve == SplitsSpec => []SplitConserves
<1>1. SplitsInv => SplitConserves
  BY DEF SplitsInv
<1> QED BY <1>1, SplitsInvariant, PTL

(* Its rounding is fair: floors for all but the last member, who gets less *)
(* than a unit per member above the exact share.                           *)
THEOREM SplitsFair == SplitsSpec => []SplitFair
<1>1. SplitsInv => SplitFair
  BY DEF SplitsInv
<1> QED BY <1>1, SplitsInvariant, PTL

(* apply_rebalance moves exactly the difference asked for, whoever gives   *)
(* or takes it, and leaves nobody with zero.                               *)
THEOREM RebalancesExact == SplitsSpec => []RebalanceExact
<1>1. SplitsInv => RebalanceExact
  BY DEF SplitsInv
<1> QED BY <1>1, SplitsInvariant, PTL
=============================================================================

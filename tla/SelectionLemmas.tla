-------------------------- MODULE SelectionLemmas --------------------------
(***************************************************************************)
(* What Min of FiniteSetsExt, SelectInSeq of SequencesExt and the folds    *)
(* with + return, for the proofs about the modules that use them.          *)
(***************************************************************************)
EXTENDS Integers, SequencesExt, FiniteSetTheorems, TLAPS, WellFoundedInduction

\* A set of natural numbers has a least element, and Min is that element.
LEMMA LeastExists ==
    ASSUME NEW T, T \subseteq Nat, T # {}
    PROVE  \E x \in T : \A y \in T : x =< y
<1>1. IsWellFoundedOn(OpToRel(<, Nat), Nat)
  BY NatLessThanWellFounded
<1>2. PICK x \in T : \A y \in T : ~ (<<y, x>> \in OpToRel(<, Nat))
  BY <1>1, WFMin
<1>3. ASSUME NEW y \in Nat, NEW z \in Nat, z < y
      PROVE  <<z, y>> \in OpToRel(<, Nat)
  BY <1>3 DEF OpToRel
<1>4. ASSUME NEW y \in T PROVE x =< y
  <2>1. ~ (y < x)
    BY <1>2, <1>3
  <2> QED
    BY <2>1
<1> QED
  BY <1>4

LEMMA MinIsLeast ==
    ASSUME NEW T, T \subseteq Nat, T # {}
    PROVE  Min(T) \in T /\ \A y \in T : Min(T) =< y
BY LeastExists DEF Min

\* SelectInSeq finds the first "unlock" of a sequence that has one.
LEMMA FirstUnlock ==
    ASSUME NEW s, Len(s) \in Nat, \E i \in 1 .. Len(s) : s[i] = "unlock",
           NEW n, n = SelectInSeq(s, LAMBDA x : x = "unlock")
    PROVE  /\ n \in 1 .. Len(s) /\ s[n] = "unlock"
           /\ \A i \in 1 .. n - 1 : s[i] # "unlock"
<1> DEFINE I == {i \in 1 .. Len(s) : s[i] = "unlock"}
<1>1. Min(I) \in I /\ \A y \in I : Min(I) =< y
  <2>1. I \subseteq Nat /\ I # {}
    OBVIOUS
  <2> HIDE DEF I
  <2> QED
    BY <2>1, MinIsLeast
<1>2. n = Min(I)
  <2>1. I # {}
    OBVIOUS
  <2> QED
    BY <2>1 DEF SelectInSeq
<1>3. n \in I /\ \A y \in I : n =< y
  <2> HIDE DEF I
  <2> QED
    BY <1>1, <1>2
<1>4. ASSUME NEW i \in 1 .. n - 1 PROVE s[i] # "unlock"
  <2>1. i \in Int /\ 1 =< i /\ i < n /\ n \in 1 .. Len(s)
    BY <1>3
  <2>2. i \in 1 .. Len(s)
    BY <2>1
  <2> QED
    BY <1>3, <2>1, <2>2
<1> QED
  BY <1>3, <1>4

\* The element a fold over a set takes next.
Picked(s) == CHOOSE x \in s : TRUE

\* g sums w over every subset of S.
IsSum(g, S, w) ==
    /\ g \in [SUBSET S -> Int]
    /\ \A s \in SUBSET S :
          g[s] = IF s = {} THEN 0 ELSE w[Picked(s)] + g[s \ {Picked(s)}]

\* A sum over a finite set, taken out of the set one chosen element after the
\* other, exists: the recursive function behind a fold with + is well defined.
LEMMA SumExists ==
    ASSUME NEW S, IsFiniteSet(S), NEW w \in [S -> Int]
    PROVE  \E g : IsSum(g, S, w)
<1> DEFINE Lev(k) == {s \in SUBSET S : Cardinality(s) =< k}
           Body(g, s) == IF s = {} THEN 0 ELSE w[Picked(s)] + g[s \ {Picked(s)}]
           H(k, g) == \A s \in Lev(k) : g[s] \in Int /\ g[s] = Body(g, s)
           Bad == {k \in Nat : ~ \E g : H(k, g)}
<1>1. ASSUME NEW s \in SUBSET S
      PROVE  IsFiniteSet(s) /\ Cardinality(s) \in Nat /\ Cardinality(s) =< Cardinality(S)
  BY FS_Subset, FS_CardinalityType
<1>2. ASSUME NEW s \in SUBSET S, s # {}
      PROVE  /\ Picked(s) \in s /\ s \ {Picked(s)} \in SUBSET S
             /\ Cardinality(s \ {Picked(s)}) = Cardinality(s) - 1
  BY <1>1, <1>2, FS_RemoveElement DEF Picked
<1>3. ASSUME NEW k \in Nat, NEW g, H(k, g) PROVE \E h : H(k + 1, h)
  <2> DEFINE h == [s \in Lev(k + 1) |-> Body(g, s)]
  <2>1. \A s \in Lev(k) : s \in Lev(k + 1)
    BY <1>1
  <2>2. ASSUME NEW s \in Lev(k + 1), s # {}
        PROVE  Picked(s) \in S /\ s \ {Picked(s)} \in Lev(k)
    <3>1. s \in SUBSET S /\ Cardinality(s) \in Nat /\ Cardinality(s) =< k + 1
      BY <1>1
    <3>2. /\ Picked(s) \in s /\ s \ {Picked(s)} \in SUBSET S
          /\ Cardinality(s \ {Picked(s)}) = Cardinality(s) - 1
      BY <1>2, <2>2, <3>1
    <3>3. Cardinality(s \ {Picked(s)}) =< k
      BY <3>1, <3>2
    <3> QED
      BY <3>1, <3>2, <3>3
  <2>3. \A s \in Lev(k + 1) : h[s] \in Int
    <3>1. ASSUME NEW s \in Lev(k + 1), s # {} PROVE h[s] \in Int
      <4>1. w[Picked(s)] \in Int /\ g[s \ {Picked(s)}] \in Int
        BY <1>3, <2>2, <3>1
      <4>2. h[s] = w[Picked(s)] + g[s \ {Picked(s)}]
        BY <3>1
      <4> QED
        BY <4>1, <4>2
    <3>2. ASSUME NEW s \in Lev(k + 1), s = {} PROVE h[s] \in Int
      BY <3>2
    <3> QED
      BY <3>1, <3>2
  <2>4. \A s \in Lev(k) : h[s] = g[s]
    BY <1>3, <2>1
  <2>5. \A s \in Lev(k + 1) : h[s] = Body(h, s)
    BY <2>2, <2>4
  <2>6. H(k + 1, h)
    BY <2>3, <2>5
  <2> QED
    BY <2>6
<1>4. \E g : H(0, g)
  <2>1. \A s \in Lev(0) : s = {}
    BY <1>1, FS_EmptySet
  <2>2. H(0, [s \in Lev(0) |-> 0])
    BY <2>1
  <2> QED
    BY <2>2
<1>5. \A k \in Nat : \E g : H(k, g)
  <2> SUFFICES ASSUME Bad # {} PROVE FALSE
    OBVIOUS
  <2>1. PICK k \in Bad : \A j \in Bad : k =< j
    BY LeastExists
  <2>2. k # 0
    BY <1>4, <2>1
  <2>3. k - 1 \in Nat /\ k - 1 \notin Bad /\ (k - 1) + 1 = k
    <3>1. k \in Nat
      OBVIOUS
    <3> HIDE DEF Bad
    <3> QED
      BY <2>1, <2>2, <3>1
  <2>4. \E g : H(k - 1, g)
    BY <2>3
  <2>5. \E g : H(k, g)
    <3> HIDE DEF H
    <3> QED
      BY <1>3, <2>3, <2>4
  <2> QED
    BY <2>1, <2>5
<1>6. PICK g : H(Cardinality(S), g)
  BY <1>1, <1>5
<1>7. SUBSET S = Lev(Cardinality(S))
  BY <1>1
<1> DEFINE f == [s \in SUBSET S |-> g[s]]
<1>8. f \in [SUBSET S -> Int] /\ \A s \in SUBSET S : f[s] = Body(f, s)
  BY <1>2, <1>6, <1>7
<1> QED
  BY <1>8 DEF IsSum
\* A function that follows the recursion of a sum is one, whichever side of the
\* + the element is on.
LEMMA FollowsSum ==
    ASSUME NEW S, IsFiniteSet(S), NEW w \in [S -> Int],
           NEW g, g = [s \in SUBSET S |-> g[s]], g[{}] = 0,
           \A s \in SUBSET S : s # {} =>
              \/ g[s] = w[Picked(s)] + g[s \ {Picked(s)}]
              \/ g[s] = g[s \ {Picked(s)}] + w[Picked(s)]
    PROVE  IsSum(g, S, w)
<1> DEFINE Bad == {k \in Nat : \E s \in SUBSET S : Cardinality(s) = k /\ g[s] \notin Int}
<1>0. \A s : g[s] \notin Int => s # {}
  <2>1. g[{}] \in Int
    OBVIOUS
  <2> QED
    BY <2>1
<1>1. ASSUME NEW s \in SUBSET S, s # {}
      PROVE  /\ Picked(s) \in S /\ w[Picked(s)] \in Int /\ s \ {Picked(s)} \in SUBSET S
             /\ Cardinality(s) \in Nat /\ Cardinality(s \ {Picked(s)}) \in Nat
             /\ Cardinality(s \ {Picked(s)}) < Cardinality(s)
  <2>1. IsFiniteSet(s) /\ Picked(s) \in s
    BY <1>1, FS_Subset DEF Picked
  <2>2. Cardinality(s) \in Nat /\ Cardinality(s \ {Picked(s)}) = Cardinality(s) - 1
    BY <2>1, FS_CardinalityType, FS_RemoveElement
  <2>3. IsFiniteSet(s \ {Picked(s)})
    BY <2>1, FS_Subset
  <2>4. Cardinality(s \ {Picked(s)}) \in Nat
    BY <2>3, FS_CardinalityType
  <2> QED
    BY <2>1, <2>2, <2>4
<1>2. ASSUME NEW s \in SUBSET S, s # {}, g[s \ {Picked(s)}] \in Int
      PROVE  g[s] = w[Picked(s)] + g[s \ {Picked(s)}] /\ g[s] \in Int
  <2>1. \/ g[s] = w[Picked(s)] + g[s \ {Picked(s)}]
        \/ g[s] = g[s \ {Picked(s)}] + w[Picked(s)]
    BY <1>2
  <2>2. w[Picked(s)] \in Int /\ g[s \ {Picked(s)}] \in Int
    BY <1>1, <1>2
  <2> DEFINE a == w[Picked(s)]
             r == g[s \ {Picked(s)}]
  <2>3. a \in Int /\ r \in Int /\ (g[s] = a + r \/ g[s] = r + a)
    BY <2>1, <2>2
  <2>4. g[s] = a + r /\ a + r \in Int
    <3> HIDE DEF a, r
    <3> QED
      BY <2>3
  <2> QED
    BY <2>4
<1>3. \A s \in SUBSET S : g[s] \in Int
  <2> SUFFICES ASSUME NEW s \in SUBSET S, g[s] \notin Int PROVE FALSE
    OBVIOUS
  <2>1. s # {} /\ Cardinality(s) \in Bad
    <3>1. s # {}
      BY <1>0
    <3> QED
      BY <1>1, <3>1
  <2>2. PICK k \in Bad : \A j \in Bad : k =< j
    BY <2>1, LeastExists
  <2>3. PICK t \in SUBSET S : Cardinality(t) = k /\ g[t] \notin Int
    BY <2>2
  <2>4. t # {}
    BY <1>0, <2>3
  <2>5. g[t \ {Picked(t)}] \notin Int
    BY <1>2, <2>3, <2>4
  <2>6. Cardinality(t \ {Picked(t)}) \in Bad
    BY <1>1, <2>4, <2>5
  <2>7. Cardinality(t \ {Picked(t)}) < k /\ k \in Nat /\ Cardinality(t \ {Picked(t)}) \in Nat
    BY <1>1, <2>3, <2>4
  <2> HIDE DEF Bad
  <2>8. k =< Cardinality(t \ {Picked(t)})
    BY <2>2, <2>6
  <2> QED
    BY <2>7, <2>8
<1>4. g \in [SUBSET S -> Int]
  <2>1. [s \in SUBSET S |-> g[s]] \in [SUBSET S -> Int]
    BY <1>3
  <2> QED
    BY <2>1
<1>5. ASSUME NEW s \in SUBSET S
      PROVE  g[s] = IF s = {} THEN 0 ELSE w[Picked(s)] + g[s \ {Picked(s)}]
  <2>1. CASE s = {}
    BY <2>1
  <2>2. CASE s # {}
    BY <1>1, <1>2, <1>3, <2>2
  <2> QED
    BY <2>1, <2>2
<1> QED
  BY <1>4, <1>5 DEF IsSum

\* What a sum comes to: one element out, and the sums of small sets.
LEMMA SumStep ==
    ASSUME NEW S, NEW w, NEW g, IsSum(g, S, w)
    PROVE  /\ g[{}] = 0
           /\ \A s \in SUBSET S :
                 /\ g[s] \in Int
                 /\ s # {} => Picked(s) \in s /\ g[s] = w[Picked(s)] + g[s \ {Picked(s)}]
BY DEF IsSum, Picked

LEMMA SmallSums ==
    ASSUME NEW S, NEW w \in [S -> Int], NEW g, IsSum(g, S, w)
    PROVE  /\ \A x \in S : g[{x}] = w[x]
           /\ \A x, y \in S : x # y => g[{x, y}] = w[x] + w[y]
           /\ \A x, y, z \in S : x # y /\ x # z /\ y # z =>
                 g[{x, y, z}] = w[x] + w[y] + w[z]
<1>1. ASSUME NEW s \in SUBSET S, s # {}
      PROVE  \E x \in s : g[s] = w[x] + g[s \ {x}]
  <2>1. Picked(s) \in s /\ g[s] = w[Picked(s)] + g[s \ {Picked(s)}]
    BY <1>1 DEF IsSum, Picked
  <2> QED
    BY <2>1
<1>2. ASSUME NEW x \in S PROVE g[{x}] = w[x]
  <2>1. g[{x}] = w[x] + g[{x} \ {x}]
    BY <1>1
  <2>2. {x} \ {x} = {} /\ g[{}] = 0 /\ w[x] \in Int
    BY SumStep
  <2> QED
    BY <2>1, <2>2
<1>3. ASSUME NEW x \in S, NEW y \in S, x # y PROVE g[{x, y}] = w[x] + w[y]
  <2>1. PICK e \in {x, y} : g[{x, y}] = w[e] + g[{x, y} \ {e}]
    BY <1>1
  <2>2. {x, y} \ {x} = {y} /\ {x, y} \ {y} = {x}
    BY <1>3
  <2>3. g[{x}] = w[x] /\ g[{y}] = w[y] /\ w[x] \in Int /\ w[y] \in Int
    BY <1>2
  <2>4. CASE e = x
    <3>1. g[{x, y}] = w[x] + g[{y}]
      BY <2>1, <2>2, <2>4
    <3> QED
      BY <2>3, <3>1
  <2>5. CASE e = y
    <3>1. g[{x, y}] = w[y] + g[{x}]
      BY <2>1, <2>2, <2>5
    <3> QED
      BY <2>3, <3>1
  <2> QED
    BY <2>1, <2>4, <2>5
<1>4. ASSUME NEW x \in S, NEW y \in S, NEW z \in S, x # y, x # z, y # z
      PROVE  g[{x, y, z}] = w[x] + w[y] + w[z]
  <2>1. PICK e \in {x, y, z} : g[{x, y, z}] = w[e] + g[{x, y, z} \ {e}]
    BY <1>1
  <2>2. /\ {x, y, z} \ {x} = {y, z} /\ {x, y, z} \ {y} = {x, z}
        /\ {x, y, z} \ {z} = {x, y}
    BY <1>4
  <2>3. /\ g[{x, y}] = w[x] + w[y] /\ g[{x, z}] = w[x] + w[z] /\ g[{y, z}] = w[y] + w[z]
        /\ w[x] \in Int /\ w[y] \in Int /\ w[z] \in Int
    BY <1>3, <1>4
  <2>4. CASE e = x
    <3>1. g[{x, y, z}] = w[x] + g[{y, z}]
      BY <2>1, <2>2, <2>4
    <3> QED
      BY <2>3, <3>1
  <2>5. CASE e = y
    <3>1. g[{x, y, z}] = w[y] + g[{x, z}]
      BY <2>1, <2>2, <2>5
    <3> QED
      BY <2>3, <3>1
  <2>6. CASE e = z
    <3>1. g[{x, y, z}] = w[z] + g[{x, y}]
      BY <2>1, <2>2, <2>6
    <3> QED
      BY <2>3, <3>1
  <2> QED
    BY <2>1, <2>4, <2>5, <2>6
<1> QED
  BY <1>2, <1>3, <1>4
\* There is one sum.
LEMMA SumUnique ==
    ASSUME NEW S, IsFiniteSet(S), NEW w, NEW f, IsSum(f, S, w), NEW g, IsSum(g, S, w)
    PROVE  f = g
<1> DEFINE Bad == {k \in Nat : \E s \in SUBSET S : Cardinality(s) = k /\ f[s] # g[s]}
<1>1. ASSUME NEW s \in SUBSET S, s # {}
      PROVE  /\ Cardinality(s) \in Nat /\ Cardinality(s \ {Picked(s)}) \in Nat
             /\ Cardinality(s \ {Picked(s)}) < Cardinality(s)
  <2>1. IsFiniteSet(s) /\ Picked(s) \in s
    BY <1>1, FS_Subset DEF Picked
  <2>2. Cardinality(s) \in Nat /\ Cardinality(s \ {Picked(s)}) = Cardinality(s) - 1
    BY <2>1, FS_CardinalityType, FS_RemoveElement
  <2>3. IsFiniteSet(s \ {Picked(s)})
    BY <2>1, FS_Subset
  <2>4. Cardinality(s \ {Picked(s)}) \in Nat
    BY <2>3, FS_CardinalityType
  <2> QED
    BY <2>2, <2>4
<1>2. ASSUME NEW s \in SUBSET S, f[s] # g[s]
      PROVE  s # {} /\ f[s \ {Picked(s)}] # g[s \ {Picked(s)}]
  <2>1. f[{}] = 0 /\ g[{}] = 0
    BY DEF IsSum
  <2>2. s # {}
    BY <1>2, <2>1
  <2>3. f[s] = w[Picked(s)] + f[s \ {Picked(s)}] /\ g[s] = w[Picked(s)] + g[s \ {Picked(s)}]
    BY <2>2 DEF IsSum
  <2> QED
    BY <1>2, <2>2, <2>3
<1> SUFFICES ASSUME NEW s \in SUBSET S, f[s] # g[s] PROVE FALSE
  BY DEF IsSum
<1>3. Cardinality(s) \in Bad
  BY <1>1, <1>2
<1>4. PICK k \in Bad : \A j \in Bad : k =< j
  BY <1>3, LeastExists
<1>5. PICK t \in SUBSET S : Cardinality(t) = k /\ f[t] # g[t]
  BY <1>4
<1>6. Cardinality(t \ {Picked(t)}) \in Bad
  BY <1>1, <1>2, <1>5
<1>7. /\ Cardinality(t \ {Picked(t)}) < k /\ k \in Nat
      /\ Cardinality(t \ {Picked(t)}) \in Nat
  BY <1>1, <1>2, <1>5
<1>8. k =< Cardinality(t \ {Picked(t)})
  <2> HIDE DEF Bad
  <2> QED
    BY <1>4, <1>6
<1> QED
  BY <1>7, <1>8

\* The fold of a function with + over a set is its sum.
LEMMA FoldIsSum ==
    ASSUME NEW fun, NEW S, IsFiniteSet(S), \A i \in S : fun[i] \in Int
    PROVE  \E g : IsSum(g, S, [i \in S |-> fun[i]]) /\ FoldFunctionOnSet(+, 0, fun, S) = g[S]
<1> DEFINE w == [i \in S |-> fun[i]]
           F(h) == [s \in SUBSET S |-> IF s = {} THEN 0 ELSE fun[Picked(s)] + h[s \ {Picked(s)}]]
           it == CHOOSE h : h = F(h)
<1>0. IsFiniteSet(S) /\ w \in [S -> Int]
  OBVIOUS
<1>1. PICK g : IsSum(g, S, w)
  <2> HIDE DEF w
  <2> QED
    BY <1>0, SumExists
<1>2. ASSUME NEW s \in SUBSET S, s # {}
      PROVE  Picked(s) \in S /\ w[Picked(s)] = fun[Picked(s)] /\ s \ {Picked(s)} \in SUBSET S
  BY <1>2 DEF Picked
<1>3. g = F(g)
  <2>1. ASSUME NEW s \in SUBSET S PROVE g[s] = F(g)[s]
    <3>1. CASE s = {}
      BY <1>1, <3>1 DEF IsSum
    <3>2. CASE s # {}
      <4>1. g[s] = w[Picked(s)] + g[s \ {Picked(s)}]
        BY <1>1, <3>2 DEF IsSum
      <4>2. F(g)[s] = fun[Picked(s)] + g[s \ {Picked(s)}]
        BY <3>2
      <4> HIDE DEF w, F
      <4> QED
        BY <1>2, <3>2, <4>1, <4>2
    <3> QED
      BY <3>1, <3>2
  <2>2. g = [s \in SUBSET S |-> g[s]] /\ F(g) = [s \in SUBSET S |-> F(g)[s]]
    BY <1>1 DEF IsSum
  <2> HIDE DEF F
  <2>3. [s \in SUBSET S |-> g[s]] = [s \in SUBSET S |-> F(g)[s]]
    BY <2>1
  <2> QED
    BY <2>2, <2>3
<1>4. it = F(it)
  <2> HIDE DEF F
  <2> QED
    BY <1>3
<1>5. /\ it = [s \in SUBSET S |-> it[s]] /\ it[{}] = 0
      /\ \A s \in SUBSET S : s # {} => it[s] = w[Picked(s)] + it[s \ {Picked(s)}]
  <2> DEFINE G(s) == IF s = {} THEN 0 ELSE fun[Picked(s)] + it[s \ {Picked(s)}]
  <2>1. F(it) = [s \in SUBSET S |-> G(s)]
    OBVIOUS
  <2>2. it = [s \in SUBSET S |-> it[s]] /\ \A s \in SUBSET S : it[s] = G(s)
    <3> HIDE DEF it, G, F
    <3> QED
      BY <1>4, <2>1
  <2> HIDE DEF it
  <2> QED
    BY <1>2, <2>2
<1>6. IsSum(it, S, w)
  <2> HIDE DEF it, w
  <2> QED
    BY <1>0, <1>5, FollowsSum
<1>7. FoldFunctionOnSet(+, 0, fun, S) = it[S]
  BY DEF FoldFunctionOnSet, MapThenFoldSet, Picked
<1> QED
  BY <1>6, <1>7

-----------------------------------------------------------------------------
(* FoldLeft with + over a sequence takes the highest index first.          *)

LEMMA MaxIsGreatest ==
    ASSUME NEW n \in Nat, NEW T, T \subseteq 1 .. n, T # {}
    PROVE  Max(T) \in T /\ \A y \in T : y =< Max(T)
<1> DEFINE D == {n - y : y \in T}
<1>1. D \subseteq Nat /\ D # {}
  <2>1. ASSUME NEW y \in T PROVE n - y \in Nat
    OBVIOUS
  <2> QED
    BY <2>1
<1>2. PICK d \in D : \A e \in D : d =< e
  <2> HIDE DEF D
  <2> QED
    BY <1>1, LeastExists
<1>3. PICK x \in T : d = n - x
  OBVIOUS
<1>4. ASSUME NEW y \in T PROVE x >= y
  <2>1. n - y \in D
    OBVIOUS
  <2>2. n - x =< n - y
    BY <1>2, <1>3, <2>1
  <2> QED
    BY <2>2
<1>5. Max(T) \in T /\ \A y \in T : Max(T) >= y
  BY <1>4 DEF Max
<1> QED
  BY <1>5

\* g sums w over every set of indices up to n.
IsTotal(g, n, w) ==
    /\ g = [s \in SUBSET (1 .. n) |-> g[s]]
    /\ \A s \in SUBSET (1 .. n) : g[s] = IF s = {} THEN 0 ELSE g[s \ {Max(s)}] + w[Max(s)]

\* Two functions that are the same for the indices up to n.
AlikeTo(n, w, v) == \A i \in 1 .. n : w[i] = v[i]
SameTo(n, f, g) == \A s \in SUBSET (1 .. n) : f[s] = g[s]

\* The highest index can be left out, or put on top.
LEMMA BelowMax ==
    ASSUME NEW n \in Nat, NEW s \in SUBSET (1 .. n), s # {}
    PROVE  /\ Max(s) \in 1 .. n /\ s \ {Max(s)} \in SUBSET (1 .. Max(s) - 1)
           /\ n \in s => Max(s) = n
<1>1. Max(s) \in s /\ \A y \in s : y =< Max(s)
  BY MaxIsGreatest
<1> DEFINE m == Max(s)
<1>2. m \in s /\ \A y \in s : y =< m
  BY <1>1
<1> HIDE DEF m
<1>3. m \in 1 .. n /\ \A y \in s : y \in Int /\ 1 =< y /\ y =< m
  BY <1>2
<1>4. \A y \in s \ {m} : y \in 1 .. m - 1
  BY <1>3
<1>5. n \in s => m = n
  BY <1>3
<1> QED
  BY <1>3, <1>4, <1>5 DEF m

\* Two totals that agree on what is summed are the same up to there.
LEMMA TotalsAgree ==
    ASSUME NEW n \in Nat, NEW m \in Nat, NEW k \in Nat, n =< m, n =< k,
           NEW w, NEW v, AlikeTo(n, w, v),
           NEW f, IsTotal(f, m, w), NEW g, IsTotal(g, k, v)
    PROVE  SameTo(n, f, g)
<1> DEFINE Bad == {j \in 0 .. n : \E s \in SUBSET (1 .. j) : f[s] # g[s]}
<1>1. SUFFICES ASSUME Bad # {} PROVE FALSE
  BY DEF SameTo
<1>2. PICK j \in Bad : \A i \in Bad : j =< i
  <2>1. Bad \subseteq Nat
    OBVIOUS
  <2> HIDE DEF Bad
  <2> QED
    BY <1>1, <2>1, LeastExists
<1>3. PICK s \in SUBSET (1 .. j) : f[s] # g[s]
  OBVIOUS
<1>4. s \in SUBSET (1 .. m) /\ s \in SUBSET (1 .. k) /\ j \in 0 .. n /\ j \in Nat
  OBVIOUS
<1> DEFINE Step(h, u) == h[s] = IF s = {} THEN 0 ELSE h[s \ {Max(s)}] + u[Max(s)]
<1>0. Step(f, w) /\ Step(g, v)
  <2>1. Step(f, w)
    BY <1>4 DEF IsTotal
  <2>2. Step(g, v)
    BY <1>4 DEF IsTotal
  <2> QED
    BY <2>1, <2>2
<1>5. s # {}
  BY <1>0, <1>3
<1>6. /\ Max(s) \in 1 .. j /\ s \ {Max(s)} \in SUBSET (1 .. Max(s) - 1)
  BY <1>4, <1>5, BelowMax
<1>7. f[s] = f[s \ {Max(s)}] + w[Max(s)] /\ g[s] = g[s \ {Max(s)}] + v[Max(s)]
  BY <1>0, <1>5
<1>8. f[s \ {Max(s)}] # g[s \ {Max(s)}]
  <2>1. w[Max(s)] = v[Max(s)]
    BY <1>4, <1>6 DEF AlikeTo
  <2> QED
    BY <1>3, <1>7, <2>1
<1>9. Max(s) - 1 \in Bad
  <2>1. Max(s) - 1 \in 0 .. n
    BY <1>4, <1>6
  <2> QED
    BY <1>6, <1>8, <2>1
<1>10. j =< Max(s) - 1
  <2> HIDE DEF Bad
  <2> QED
    BY <1>2, <1>9
<1> QED
  BY <1>4, <1>6, <1>10

LEMMA TotalExists ==
    ASSUME NEW n \in Nat, NEW w
    PROVE  \E g : IsTotal(g, n, w)
<1> DEFINE Bad == {j \in Nat : ~ \E g : IsTotal(g, j, w)}
<1>1. \E g : IsTotal(g, 0, w)
  <2> DEFINE z == [s \in SUBSET (1 .. 0) |-> 0]
  <2>1. \A s \in SUBSET (1 .. 0) : s = {}
    OBVIOUS
  <2>2. IsTotal(z, 0, w)
    BY <2>1 DEF IsTotal
  <2> QED
    BY <2>2
<1>2. ASSUME NEW j \in Nat, NEW g, IsTotal(g, j, w) PROVE \E h : IsTotal(h, j + 1, w)
  <2> DEFINE h == [s \in SUBSET (1 .. j + 1) |->
                      IF j + 1 \in s THEN g[s \ {j + 1}] + w[j + 1] ELSE g[s]]
             Body(s) == IF s = {} THEN 0 ELSE h[s \ {Max(s)}] + w[Max(s)]
  <2>1. \A s \in SUBSET (1 .. j) : s \in SUBSET (1 .. j + 1) /\ h[s] = g[s]
    OBVIOUS
  <2>2. ASSUME NEW s \in SUBSET (1 .. j + 1) PROVE h[s] = Body(s)
    <3>1. CASE j + 1 \in s
      <4>1. Max(s) = j + 1 /\ s \ {Max(s)} \in SUBSET (1 .. j)
        <5>1. s # {}
          BY <3>1
        <5>2. Max(s) = j + 1
          BY <3>1, <5>1, BelowMax
        <5> QED
          BY <5>2
      <4>2. h[s] = g[s \ {j + 1}] + w[j + 1]
        BY <3>1
      <4>3. h[s \ {j + 1}] = g[s \ {j + 1}]
        BY <2>1, <4>1
      <4> HIDE DEF h
      <4> QED
        BY <3>1, <4>1, <4>2, <4>3
    <3>2. CASE j + 1 \notin s
      <4>1. s \in SUBSET (1 .. j) /\ h[s] = g[s]
        BY <3>2
      <4>2. g[s] = IF s = {} THEN 0 ELSE g[s \ {Max(s)}] + w[Max(s)]
        BY <1>2, <4>1 DEF IsTotal
      <4>3. h[s \ {Max(s)}] = g[s \ {Max(s)}]
        BY <2>1, <4>1
      <4> HIDE DEF h
      <4> QED
        BY <4>1, <4>2, <4>3
    <3> QED
      BY <3>1, <3>2
  <2>3. h = [s \in SUBSET (1 .. j + 1) |-> h[s]]
    OBVIOUS
  <2>4. IsTotal(h, j + 1, w)
    <3> HIDE DEF h
    <3> QED
      BY <2>2, <2>3 DEF IsTotal
  <2> QED
    BY <2>4
<1> SUFFICES ASSUME Bad # {} PROVE FALSE
  OBVIOUS
<1>3. PICK j \in Bad : \A i \in Bad : j =< i
  BY LeastExists
<1>4. j # 0
  BY <1>1
<1>5. j - 1 \in Nat /\ (j - 1) + 1 = j /\ j - 1 \notin Bad
  <2>1. j \in Nat
    OBVIOUS
  <2> HIDE DEF Bad
  <2> QED
    BY <1>3, <1>4, <2>1
<1> QED
  BY <1>2, <1>5

\* What the entries of s pick out of amounts comes to.
TotalOf(amounts, s) == FoldLeft(LAMBDA sum, i : sum + amounts[i], 0, s)

IsTotalOf(g, amounts, s) ==
    /\ IsTotal(g, Len(s), [i \in 1 .. Len(s) |-> amounts[s[i]]])
    /\ TotalOf(amounts, s) = g[1 .. Len(s)]

LEMMA FoldIsTotal ==
    ASSUME NEW amounts, NEW s, DOMAIN s = 1 .. Len(s), Len(s) \in Nat
    PROVE  \E g : IsTotalOf(g, amounts, s)
<1> DEFINE n == Len(s)
           w == [i \in 1 .. n |-> amounts[s[i]]]
           F(h) == [t \in SUBSET (1 .. n) |->
                       IF t = {} THEN 0 ELSE h[t \ {Max(t)}] + amounts[s[Max(t)]]]
           it == CHOOSE h : h = F(h)
           A(h, t) == IF t = {} THEN 0 ELSE h[t \ {Max(t)}] + amounts[s[Max(t)]]
           B(h, t) == IF t = {} THEN 0 ELSE h[t \ {Max(t)}] + w[Max(t)]
<1>0. ASSUME NEW h PROVE \A t \in SUBSET (1 .. n) : A(h, t) = B(h, t)
  <2>1. ASSUME NEW t \in SUBSET (1 .. n), t # {} PROVE w[Max(t)] = amounts[s[Max(t)]]
    <3>1. Max(t) \in 1 .. n
      BY <2>1, BelowMax
    <3> QED
      BY <3>1
  <2> HIDE DEF w
  <2> QED
    BY <2>1
<1>1. ASSUME NEW h PROVE F(h) = [t \in SUBSET (1 .. n) |-> A(h, t)]
  OBVIOUS
<1>2. PICK g : IsTotal(g, n, w)
  <2> HIDE DEF w
  <2> QED
    BY TotalExists
<1>3. g = F(g)
  <2>1. g = [t \in SUBSET (1 .. n) |-> g[t]] /\ \A t \in SUBSET (1 .. n) : g[t] = B(g, t)
    <3> HIDE DEF w
    <3> QED
      BY <1>2 DEF IsTotal
  <2> HIDE DEF F, A, B, w
  <2>2. \A t \in SUBSET (1 .. n) : g[t] = A(g, t)
    BY <1>0, <2>1
  <2>3. [t \in SUBSET (1 .. n) |-> g[t]] = [t \in SUBSET (1 .. n) |-> A(g, t)]
    BY <2>2
  <2> QED
    BY <1>1, <2>1, <2>3
<1>4. IsTotal(it, n, w)
  <2>1. it = F(it)
    <3> HIDE DEF F, w
    <3> QED
      BY <1>3
  <2> HIDE DEF it
  <2>2. it = [t \in SUBSET (1 .. n) |-> A(it, t)]
    <3> HIDE DEF F, A
    <3> QED
      BY <1>1, <2>1
  <2>3. it = [t \in SUBSET (1 .. n) |-> it[t]] /\ \A t \in SUBSET (1 .. n) : it[t] = A(it, t)
    <3> HIDE DEF A
    <3> QED
      BY <2>2
  <2>4. \A t \in SUBSET (1 .. n) : it[t] = B(it, t)
    <3> HIDE DEF A, B, w
    <3> QED
      BY <1>0, <2>3
  <2> HIDE DEF w
  <2> QED
    BY <2>3, <2>4 DEF IsTotal
<1>5. TotalOf(amounts, s) = it[1 .. n]
  BY DEF TotalOf, FoldLeft, MapThenFoldSet
<1> QED
  BY <1>4, <1>5 DEF IsTotalOf

\* The total of nothing, of one entry more, and of other amounts.
LEMMA TotalEmpty == ASSUME NEW amounts PROVE TotalOf(amounts, <<>>) = 0
<1> DEFINE e == <<>>
<1>1. DOMAIN e = 1 .. Len(e) /\ Len(e) = 0
  OBVIOUS
<1> HIDE DEF e
<1>2. PICK g : IsTotalOf(g, amounts, e)
  BY <1>1, FoldIsTotal
<1> DEFINE w == [i \in 1 .. Len(e) |-> amounts[e[i]]]
<1>3. IsTotal(g, Len(e), w) /\ TotalOf(amounts, e) = g[1 .. Len(e)]
  BY <1>2 DEF IsTotalOf
<1> HIDE DEF w
<1>4. 1 .. Len(e) = {}
  BY <1>1
<1>5. g[1 .. Len(e)] = 0
  BY <1>3, <1>4 DEF IsTotal
<1> QED
  BY <1>3, <1>4, <1>5 DEF e

SameAt(s, amounts, more) == \A i \in 1 .. Len(s) : more[s[i]] = amounts[s[i]]

LEMMA TotalAppend ==
    ASSUME NEW amounts, NEW more, NEW D, NEW s \in Seq(D), NEW x,
           SameAt(s, amounts, more)
    PROVE  TotalOf(more, Append(s, x)) = TotalOf(amounts, s) + more[x]
<1> DEFINE n == Len(s)
           t == Append(s, x)
           w == [i \in 1 .. n |-> amounts[s[i]]]
           v == [i \in 1 .. Len(t) |-> more[t[i]]]
<1>1. /\ n \in Nat /\ DOMAIN s = 1 .. n
      /\ Len(t) = n + 1 /\ DOMAIN t = 1 .. Len(t)
      /\ t[n + 1] = x /\ \A i \in 1 .. n : t[i] = s[i]
  OBVIOUS
<1>2. AlikeTo(n, w, v) /\ v[n + 1] = more[x]
  BY <1>1 DEF AlikeTo, SameAt
<1>3. PICK f : IsTotal(f, n, w) /\ TotalOf(amounts, s) = f[1 .. n]
  <2>1. \E f : IsTotalOf(f, amounts, s)
    BY <1>1, FoldIsTotal
  <2> QED
    BY <2>1 DEF IsTotalOf
<1>4. PICK g : IsTotal(g, Len(t), v) /\ TotalOf(more, t) = g[1 .. Len(t)]
  <2>0. DOMAIN t = 1 .. Len(t) /\ Len(t) \in Nat
    BY <1>1
  <2> HIDE DEF t
  <2>1. \E g : IsTotalOf(g, more, t)
    BY <2>0, FoldIsTotal
  <2> QED
    BY <2>1 DEF IsTotalOf
<1> HIDE DEF w, v, t, n
<1>5. f[1 .. n] = g[1 .. n]
  <2>0. n + 1 \in Nat /\ n =< n /\ n =< n + 1 /\ n \in Nat
    BY <1>1
  <2>1. IsTotal(g, n + 1, v)
    BY <1>1, <1>4
  <2>2. SameTo(n, f, g)
    BY <1>2, <1>3, <2>0, <2>1, TotalsAgree
  <2> QED
    BY <2>2 DEF SameTo
<1>6. g[1 .. n + 1] = g[1 .. n] + v[n + 1]
  <2>1. g[1 .. n + 1] = g[(1 .. n + 1) \ {Max(1 .. n + 1)}] + v[Max(1 .. n + 1)]
    <3>1. IsTotal(g, n + 1, v)
      BY <1>1, <1>4
    <3>2. 1 .. n + 1 # {}
      BY <1>1
    <3> QED
      BY <3>1, <3>2 DEF IsTotal
  <2>2. Max(1 .. n + 1) = n + 1
    <3> DEFINE all == 1 .. n + 1
               top == n + 1
    <3>1. all \in SUBSET (1 .. top) /\ top \in all
      BY <1>1
    <3>0. top \in Nat
      BY <1>1
    <3> HIDE DEF all, top
    <3>3. all # {}
      BY <3>1
    <3>2. Max(all) = top
      BY <3>0, <3>1, <3>3, BelowMax
    <3> QED
      BY <3>2 DEF all, top
  <2>3. (1 .. n + 1) \ {n + 1} = 1 .. n
    BY <1>1
  <2> QED
    BY <2>1, <2>2, <2>3
<1> QED
  BY <1>1, <1>2, <1>3, <1>4, <1>5, <1>6 DEF t

LEMMA TotalOther ==
    ASSUME NEW amounts, NEW more, NEW D, NEW s \in Seq(D),
           SameAt(s, amounts, more)
    PROVE  TotalOf(more, s) = TotalOf(amounts, s)
<1> DEFINE n == Len(s)
           w == [i \in 1 .. n |-> amounts[s[i]]]
           v == [i \in 1 .. n |-> more[s[i]]]
<1>1. n \in Nat /\ DOMAIN s = 1 .. n /\ AlikeTo(n, w, v)
  BY DEF AlikeTo, SameAt
<1>2. PICK f : IsTotal(f, n, w) /\ TotalOf(amounts, s) = f[1 .. n]
  <2>1. \E f : IsTotalOf(f, amounts, s)
    BY <1>1, FoldIsTotal
  <2> QED
    BY <2>1 DEF IsTotalOf
<1>3. PICK g : IsTotal(g, n, v) /\ TotalOf(more, s) = g[1 .. n]
  <2>1. \E g : IsTotalOf(g, more, s)
    BY <1>1, FoldIsTotal
  <2> QED
    BY <2>1 DEF IsTotalOf
<1> HIDE DEF w, v, n
<1>4. SameTo(n, f, g)
  <2>1. n \in Nat /\ n =< n
    BY <1>1
  <2> QED
    BY <1>1, <1>2, <1>3, <2>1, TotalsAgree
<1> QED
  BY <1>2, <1>3, <1>4 DEF SameTo
=============================================================================

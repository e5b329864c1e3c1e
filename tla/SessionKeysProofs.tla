------------------------- MODULE SessionKeysProofs -------------------------
(***************************************************************************)
(* Theorems about SessionKeys: for all objects, templates, sessions and    *)
(* sizes the library and the TPM arrive at the same keys, and every        *)
(* template the wrapper is asked for as documented is one a TPM creates.   *)
(***************************************************************************)
EXTENDS SessionKeys, SelectionLemmas, FiniteSetTheorems, TLAPS

-----------------------------------------------------------------------------
(* The size of a buffer is the sum of the sizes of its pieces.             *)

LEMMA SizeIsSum ==
    ASSUME NEW b, IsFiniteSet(DOMAIN b), \A i \in DOMAIN b : b[i].n \in Int
    PROVE  \E g : IsSum(g, DOMAIN b, [i \in DOMAIN b |-> b[i].n]) /\ Size(b) = g[DOMAIN b]
<1> DEFINE S == DOMAIN b
           w == [i \in S |-> b[i].n]
           F(h) == [s \in SUBSET S |-> IF s = {} THEN 0 ELSE h[s \ {Picked(s)}] + b[Picked(s)].n]
           it == CHOOSE h : h = F(h)
<1>1. PICK g : IsSum(g, S, w)
  <2>1. IsFiniteSet(S) /\ w \in [S -> Int]
    OBVIOUS
  <2> HIDE DEF w, S
  <2> QED
    BY <2>1, SumExists
<1>2. ASSUME NEW s \in SUBSET S, s # {}
      PROVE  Picked(s) \in S /\ w[Picked(s)] = b[Picked(s)].n /\ s \ {Picked(s)} \in SUBSET S
  BY <1>2 DEF Picked
<1>3. g = F(g)
  <2>1. ASSUME NEW s \in SUBSET S PROVE g[s] = F(g)[s]
    <3>1. CASE s = {}
      BY <1>1, <3>1 DEF IsSum
    <3>2. CASE s # {}
      <4>1. g[s] = w[Picked(s)] + g[s \ {Picked(s)}]
        BY <1>1, <3>2 DEF IsSum
      <4>2. F(g)[s] = g[s \ {Picked(s)}] + b[Picked(s)].n
        BY <3>2
      <4>3. b[Picked(s)].n \in Int /\ g[s \ {Picked(s)}] \in Int /\ w[Picked(s)] = b[Picked(s)].n
        BY <1>1, <1>2, <3>2 DEF IsSum
      <4> HIDE DEF w, F
      <4> QED
        BY <4>1, <4>2, <4>3
    <3> QED
      BY <3>1, <3>2
  <2>2. g = [s \in SUBSET S |-> g[s]] /\ F(g) = [s \in SUBSET S |-> F(g)[s]]
    BY <1>1 DEF IsSum
  <2> HIDE DEF F
  <2>3. [s \in SUBSET S |-> g[s]] = [s \in SUBSET S |-> F(g)[s]]
    BY <2>1
  <2> QED
    BY <2>2, <2>3
<1>4. it = F(it)
  <2> HIDE DEF F
  <2> QED
    BY <1>3
<1>5. /\ it = [s \in SUBSET S |-> it[s]] /\ it[{}] = 0
      /\ \A s \in SUBSET S : s # {} => it[s] = it[s \ {Picked(s)}] + w[Picked(s)]
  <2> DEFINE G(s) == IF s = {} THEN 0 ELSE it[s \ {Picked(s)}] + b[Picked(s)].n
  <2>1. F(it) = [s \in SUBSET S |-> G(s)]
    OBVIOUS
  <2>2. it = [s \in SUBSET S |-> it[s]] /\ \A s \in SUBSET S : it[s] = G(s)
    <3> HIDE DEF it, G, F
    <3> QED
      BY <1>4, <2>1
  <2> HIDE DEF it
  <2> QED
    BY <1>2, <2>2
<1>6. IsSum(it, S, w)
  <2>1. IsFiniteSet(S) /\ w \in [S -> Int]
    OBVIOUS
  <2> HIDE DEF it, w, S
  <2> QED
    BY <1>5, <2>1, FollowsSum
<1>7. Size(b) = it[S]
  BY DEF Size, FoldSeq, FoldFunction, FoldFunctionOnSet, MapThenFoldSet, Picked
<1> QED
  BY <1>6, <1>7

\* Sizes of the buffers that occur: up to three pieces.
LEMMA SmallSizes ==
    /\ Size(<<>>) = 0
    /\ \A p : p.n \in Int => Size(<<p>>) = p.n
    /\ \A p, q : p.n \in Int /\ q.n \in Int => Size(<<p, q>>) = p.n + q.n
    /\ \A p, q, r : p.n \in Int /\ q.n \in Int /\ r.n \in Int =>
          Size(<<p, q, r>>) = p.n + q.n + r.n
<1>1. Size(<<>>) = 0
  <2>1. DOMAIN <<>> = {} /\ IsFiniteSet(DOMAIN <<>>) /\ \A i \in DOMAIN <<>> : <<>>[i].n \in Int
    BY FS_EmptySet
  <2>2. PICK g : IsSum(g, DOMAIN <<>>, [i \in DOMAIN <<>> |-> <<>>[i].n]) /\ Size(<<>>) = g[DOMAIN <<>>]
    BY <2>1, SizeIsSum
  <2> QED
    BY <2>1, <2>2, SumStep
<1>2. ASSUME NEW b, NEW S, DOMAIN b = S, IsFiniteSet(S), \A i \in S : b[i].n \in Int
      PROVE  LET w == [i \in S |-> b[i].n]
             IN  w \in [S -> Int] /\ \E g : IsSum(g, S, w) /\ Size(b) = g[S]
  BY <1>2, SizeIsSum
<1>3. ASSUME NEW p, p.n \in Int PROVE Size(<<p>>) = p.n
  <2> DEFINE b == <<p>>
             w == [i \in {1} |-> b[i].n]
  <2>1. DOMAIN b = {1} /\ IsFiniteSet({1}) /\ \A i \in {1} : b[i].n \in Int
    BY <1>3, FS_Singleton
  <2>2. w[1] = p.n
    OBVIOUS
  <2> HIDE DEF b
  <2>3. PICK g : IsSum(g, {1}, w) /\ Size(b) = g[{1}]
    BY <1>2, <2>1
  <2>4. w \in [{1} -> Int]
    BY <2>1
  <2> HIDE DEF w
  <2>5. g[{1}] = w[1]
    BY <2>3, <2>4, SmallSums
  <2> QED
    BY <2>2, <2>3, <2>5 DEF b
<1>4. ASSUME NEW p, NEW q, p.n \in Int, q.n \in Int PROVE Size(<<p, q>>) = p.n + q.n
  <2> DEFINE b == <<p, q>>
             w == [i \in {1, 2} |-> b[i].n]
  <2>1. DOMAIN b = {1, 2} /\ IsFiniteSet({1, 2}) /\ \A i \in {1, 2} : b[i].n \in Int
    <3>1. DOMAIN b = 1 .. 2 /\ 1 .. 2 = {1, 2}
      OBVIOUS
    <3>2. IsFiniteSet(1 .. 2)
      <4> DEFINE k == 2
      <4>1. k \in Int
        OBVIOUS
      <4> HIDE DEF k
      <4>2. IsFiniteSet(1 .. k)
        BY <4>1, FS_Interval
      <4> QED
        BY <4>2 DEF k
    <3>3. \A i \in {1, 2} : b[i].n \in Int
      BY <1>4
    <3> QED
      BY <3>1, <3>2, <3>3
  <2>2. w[1] = p.n /\ w[2] = q.n
    OBVIOUS
  <2> HIDE DEF b
  <2>3. PICK g : IsSum(g, {1, 2}, w) /\ Size(b) = g[{1, 2}]
    BY <1>2, <2>1
  <2>4. w \in [{1, 2} -> Int]
    BY <2>1
  <2> HIDE DEF w
  <2>5. g[{1, 2}] = w[1] + w[2]
    <3> DEFINE S == {1, 2}
    <3>1. IsSum(g, S, w) /\ w \in [S -> Int] /\ 1 \in S /\ 2 \in S
      BY <2>3, <2>4
    <3> HIDE DEF S
    <3> QED
      BY <3>1, SmallSums
  <2> QED
    BY <2>2, <2>3, <2>5 DEF b
<1>5. ASSUME NEW p, NEW q, NEW r, p.n \in Int, q.n \in Int, r.n \in Int
      PROVE  Size(<<p, q, r>>) = p.n + q.n + r.n
  <2> DEFINE b == <<p, q, r>>
             w == [i \in {1, 2, 3} |-> b[i].n]
  <2>1. DOMAIN b = {1, 2, 3} /\ IsFiniteSet({1, 2, 3}) /\ \A i \in {1, 2, 3} : b[i].n \in Int
    <3>1. DOMAIN b = 1 .. 3 /\ 1 .. 3 = {1, 2, 3}
      OBVIOUS
    <3>2. IsFiniteSet(1 .. 3)
      <4> DEFINE k == 3
      <4>1. k \in Int
        OBVIOUS
      <4> HIDE DEF k
      <4>2. IsFiniteSet(1 .. k)
        BY <4>1, FS_Interval
      <4> QED
        BY <4>2 DEF k
    <3>3. \A i \in {1, 2, 3} : b[i].n \in Int
      BY <1>5
    <3> QED
      BY <3>1, <3>2, <3>3
  <2>2. w[1] = p.n /\ w[2] = q.n /\ w[3] = r.n
    OBVIOUS
  <2> HIDE DEF b
  <2>3. PICK g : IsSum(g, {1, 2, 3}, w) /\ Size(b) = g[{1, 2, 3}]
    BY <1>2, <2>1
  <2>4. w \in [{1, 2, 3} -> Int]
    BY <2>1
  <2> HIDE DEF w
  <2>5. g[{1, 2, 3}] = w[1] + w[2] + w[3]
    <3> DEFINE S == {1, 2, 3}
    <3>1. IsSum(g, S, w) /\ w \in [S -> Int] /\ 1 \in S /\ 2 \in S /\ 3 \in S
      BY <2>3, <2>4
    <3> HIDE DEF S
    <3> QED
      BY <3>1, SmallSums
  <2> QED
    BY <2>2, <2>3, <2>5 DEF b
<1> QED
  BY <1>1, <1>3, <1>4, <1>5

-----------------------------------------------------------------------------
(* Counter-mode derivations.                                               *)

\* A quotient, by the multiples around it.
LEMMA Quotient ==
    ASSUME NEW i \in Int, NEW h \in Nat \ {0}
    PROVE  /\ i \div h \in Int
           /\ (i \div h) * h =< i /\ i < (i \div h) * h + h
           /\ \A q \in Int : q * h =< i /\ i < q * h + h => i \div h = q
OBVIOUS

\* The bytes of the stream that fall into block k.
LEMMA BytesOfBlock ==
    ASSUME NEW h \in Nat \ {0}, NEW n \in Nat \ {0}, NEW k \in Nat \ {0}
    PROVE  /\ {i \in 0 .. n - 1 : i \div h = k - 1} =
                 (k - 1) * h .. Smaller(n, (k - 1) * h + h) - 1
           /\ (k - 1) * h \in Nat /\ Smaller(n, (k - 1) * h + h) \in Nat
<1> DEFINE m == (k - 1) * h
<1>1. m \in Nat /\ Smaller(n, m + h) \in Nat
  BY DEF Smaller
<1>2. ASSUME NEW i \in 0 .. n - 1 PROVE i \div h = k - 1 <=> m =< i /\ i < m + h
  BY Quotient
<1>3. ASSUME NEW i \in 0 .. n - 1, i \div h = k - 1
      PROVE  i \in m .. Smaller(n, m + h) - 1
  <2>1. i \in Int /\ i < n /\ m =< i /\ i < m + h
    BY <1>2, <1>3
  <2> HIDE DEF m
  <2> QED
    BY <1>1, <2>1 DEF Smaller
<1>4. ASSUME NEW i \in m .. Smaller(n, m + h) - 1
      PROVE  i \in 0 .. n - 1 /\ i \div h = k - 1
  <2>1. i \in Int /\ 0 =< i /\ i < n /\ m =< i /\ i < m + h
    <3> HIDE DEF m
    <3> QED
      BY <1>1, <1>4 DEF Smaller
  <2> QED
    BY <1>2, <2>1
<1> QED
  BY <1>1, <1>3, <1>4

\* The library's counter-mode loop copies, block by block, the bytes the
\* stream has there.
LEMMA BlocksAreStream ==
    ASSUME NEW h \in Nat \ {0}, NEW n \in Nat \ {0}
    PROVE  Blocks(h, n) = Stream(h, n)
<1> DEFINE c == 1 + ((n - 1) \div h)
<1>1. (n + h - 1) \div h = c /\ c \in Nat \ {0} /\ (c - 1) * h < n
  <2>1. /\ (n - 1) \div h \in Int /\ ((n - 1) \div h) * h =< n - 1
        /\ n - 1 < ((n - 1) \div h) * h + h
    BY Quotient
  <2>2. c \in Int /\ c * h = ((n - 1) \div h) * h + h
    BY <2>1
  <2>3. c * h =< n + h - 1 /\ n + h - 1 < c * h + h
    BY <2>1, <2>2
  <2>4. c > 0
    BY <2>1, <2>2
  <2>5. (c - 1) * h < n
    BY <2>1
  <2>6. (n + h - 1) \div h = c
    <3> HIDE DEF c
    <3> QED
      BY <2>2, <2>3, Quotient
  <2> QED
    BY <2>2, <2>4, <2>5, <2>6
<1>2. ASSUME NEW k \in 1 .. c
      PROVE  Cardinality({i \in 0 .. n - 1 : i \div h = k - 1}) =
                IF h > n - (k - 1) * h THEN n - (k - 1) * h ELSE h
  <2> DEFINE m == (k - 1) * h
  <2>1. m =< (c - 1) * h
    BY <1>1
  <2>2. k \in Nat \ {0} /\ m \in Nat /\ m < n
    BY <1>1, <2>1
  <2>3. {i \in 0 .. n - 1 : i \div h = k - 1} = m .. Smaller(n, m + h) - 1
    BY <2>2, BytesOfBlock
  <2> HIDE DEF m
  <2>4. m \in Int /\ Smaller(n, m + h) - 1 \in Int
    BY <2>2 DEF Smaller
  <2>5. Cardinality(m .. Smaller(n, m + h) - 1) =
           IF m > Smaller(n, m + h) - 1 THEN 0 ELSE Smaller(n, m + h) - 1 - m + 1
    BY <2>4, FS_Interval
  <2>6. Cardinality(m .. Smaller(n, m + h) - 1) = IF h > n - m THEN n - m ELSE h
    BY <2>2, <2>5 DEF Smaller
  <2> QED
    BY <2>3, <2>6 DEF m
<1> QED
  <2> DEFINE B(k) == IF h > n - (k - 1) * h THEN n - (k - 1) * h ELSE h
             C(k) == Cardinality({i \in 0 .. n - 1 : i \div h = k - 1})
  <2>1. Blocks(h, n) = [k \in 1 .. c |-> B(k)]
    <3>1. Blocks(h, n) = [k \in 1 .. (n + h - 1) \div h |-> B(k)]
      BY DEF Blocks
    <3> HIDE DEF B, c
    <3> QED
      BY <1>1, <3>1
  <2>2. Stream(h, n) = [k \in 1 .. c |-> C(k)]
    BY DEF Stream
  <2>3. \A k \in 1 .. c : B(k) = C(k)
    BY <1>2
  <2> HIDE DEF B, C, c
  <2> QED
    BY <2>1, <2>2, <2>3

\* All bytes of the stream are copied: the blocks add up to n.
LEMMA BlocksAddUp ==
    ASSUME NEW h \in Nat \ {0}, NEW n \in Nat \ {0}
    PROVE  FoldSeq(+, 0, Blocks(h, n)) = n
<1> DEFINE K == 1 .. 1 + ((n - 1) \div h)
           Part(k) == {i \in 0 .. n - 1 : i \div h = k - 1}
           Of(s) == {i \in 0 .. n - 1 : (i \div h) + 1 \in s}
           w == [k \in K |-> Cardinality(Part(k))]
           f == [s \in SUBSET K |-> Cardinality(Of(s))]
<1>1. IsFiniteSet(K) /\ IsFiniteSet(0 .. n - 1)
  <2> DEFINE c == 1 + ((n - 1) \div h)
             m == n - 1
  <2>1. c \in Int /\ m \in Int
    BY Quotient
  <2> HIDE DEF c, m
  <2>2. IsFiniteSet(1 .. c) /\ IsFiniteSet(0 .. m)
    BY <2>1, FS_Interval
  <2> QED
    BY <2>2 DEF c, m
<1>2. \A k : Part(k) \subseteq 0 .. n - 1 /\ Cardinality(Part(k)) \in Nat /\ IsFiniteSet(Part(k))
  BY <1>1, FS_Subset, FS_CardinalityType
<1>3. \A s : Of(s) \subseteq 0 .. n - 1 /\ Cardinality(Of(s)) \in Nat /\ IsFiniteSet(Of(s))
  BY <1>1, FS_Subset, FS_CardinalityType
<1>4. Of({}) = {} /\ Cardinality({}) = 0
  BY FS_EmptySet
<1>5. ASSUME NEW s \in SUBSET K, s # {}
      PROVE  Cardinality(Of(s)) = Cardinality(Part(Picked(s))) + Cardinality(Of(s \ {Picked(s)}))
  <2> DEFINE k == Picked(s)
  <2>1. k \in s /\ k \in Int
    <3>1. k \in s
      BY <1>5 DEF Picked
    <3>2. \A j \in K : j \in Int
      OBVIOUS
    <3> HIDE DEF k, K
    <3> QED
      BY <3>1, <3>2
  <2> HIDE DEF k
  <2>2. \A i \in 0 .. n - 1 : i \div h \in Int
    BY Quotient
  <2>3. Of(s) = Part(k) \cup Of(s \ {k}) /\ Part(k) \cap Of(s \ {k}) = {}
    BY <2>1, <2>2
  <2>4. Cardinality(Part(k) \cup Of(s \ {k})) =
           Cardinality(Part(k)) + Cardinality(Of(s \ {k})) - Cardinality(Part(k) \cap Of(s \ {k}))
    <3> HIDE DEF Part, Of
    <3> QED
      BY <1>2, <1>3, FS_Union
  <2> HIDE DEF Part, Of
  <2>5. Cardinality(Of(s)) = Cardinality(Part(k)) + Cardinality(Of(s \ {k}))
    <3>1. /\ Cardinality(Part(k)) \in Nat /\ Cardinality(Of(s \ {k})) \in Nat
          /\ Cardinality(Part(k) \cap Of(s \ {k})) = 0
      BY <1>2, <1>3, <1>4, <2>3
    <3> QED
      BY <2>3, <2>4, <3>1
  <2> QED
    BY <2>5 DEF k
<1>6. IsSum(f, K, w)
  <2>1. f \in [SUBSET K -> Int]
    BY <1>3
  <2>2. ASSUME NEW s \in SUBSET K
        PROVE  f[s] = IF s = {} THEN 0 ELSE w[Picked(s)] + f[s \ {Picked(s)}]
    <3>1. CASE s = {}
      BY <1>4, <3>1
    <3>2. CASE s # {}
      <4>1. Picked(s) \in K /\ s \ {Picked(s)} \in SUBSET K
        BY <3>2 DEF Picked
      <4> HIDE DEF Part, Of, K
      <4> QED
        BY <1>5, <3>2, <4>1
    <3> QED
      BY <3>1, <3>2
  <2> QED
    BY <2>1, <2>2 DEF IsSum
<1>7. Blocks(h, n) = w
  BY BlocksAreStream DEF Stream
<1>8. PICK g : IsSum(g, K, w) /\ FoldFunctionOnSet(+, 0, w, K) = g[K]
  <2>1. w = [k \in K |-> w[k]] /\ \A k \in K : w[k] \in Int
    <3> HIDE DEF Part, K
    <3> QED
      BY <1>2
  <2> HIDE DEF w, K
  <2>2. PICK g : IsSum(g, K, [i \in K |-> w[i]]) /\ FoldFunctionOnSet(+, 0, w, K) = g[K]
    BY <1>1, <2>1, FoldIsSum
  <2> QED
    BY <2>1, <2>2
<1>9. g[K] = f[K]
  <2> HIDE DEF w, K, f
  <2>1. g = f
    BY <1>1, <1>6, <1>8, SumUnique
  <2> QED
    BY <2>1
<1>10. Of(K) = 0 .. n - 1
  <2>1. ASSUME NEW i \in 0 .. n - 1 PROVE (i \div h) + 1 \in K
    <3>1. i \in Int /\ 0 =< i /\ i =< n - 1
      OBVIOUS
    <3>2. i \div h \in Int /\ (i \div h) * h =< i /\ i < (i \div h) * h + h
      BY <3>1, Quotient
    <3>3. /\ (n - 1) \div h \in Int /\ n - 1 < ((n - 1) \div h) * h + h
      BY Quotient
    <3>4. 0 =< i \div h /\ i \div h =< (n - 1) \div h
      BY <3>1, <3>2, <3>3
    <3> QED
      BY <3>2, <3>3, <3>4
  <2> QED
    BY <2>1
<1>11. Cardinality(0 .. n - 1) = n
  BY FS_Interval
<1>12. FoldSeq(+, 0, w) = FoldFunctionOnSet(+, 0, w, K)
  BY DEF FoldSeq, FoldFunction
<1> QED
  <2>1. f[K] = Cardinality(Of(K))
    OBVIOUS
  <2> HIDE DEF w, f, K, Of
  <2> QED
    BY <1>7, <1>8, <1>9, <1>10, <1>11, <1>12, <2>1

-----------------------------------------------------------------------------
(* Buffers of few pieces.                                                  *)

LEMMA Pieces ==
    /\ \A v, n : n # 0 => Piece(v, n) = <<[v |-> v, n |-> n]>>
    /\ \A v : Piece(v, 0) = <<>>
    /\ Zeros = <<[v |-> <<"zeros">>, n |-> 32]>>
    /\ \A p, q : <<p>> \o <<q>> = <<p, q>>
    /\ \A p : <<p>> \o <<>> = <<p>> /\ <<>> \o <<p>> = <<p>>
    /\ <<>> \o <<>> = <<>>
    /\ \A p : <<p>> # <<>>
    /\ First(<<>>) = <<>> /\ \A p : First(<<p>>) = <<p>>
    /\ \A p, q : First(<<p, q>>) = <<p>>
<1>1. \A v, n : n # 0 => Piece(v, n) = <<[v |-> v, n |-> n]>>
  BY DEF Piece
<1>2. \A v : Piece(v, 0) = <<>>
  BY DEF Piece
<1>3. Zeros = <<[v |-> <<"zeros">>, n |-> 32]>>
  BY DEF Piece, Zeros
<1>4. ASSUME NEW p, NEW q PROVE <<p>> \o <<q>> = <<p, q>>
  <2>1. <<p>> \o <<q>> = [i \in 1 .. 2 |-> IF i =< 1 THEN <<p>>[i] ELSE <<q>>[i - 1]]
    OBVIOUS
  <2>2. <<p, q>> = [i \in 1 .. 2 |-> IF i =< 1 THEN <<p>>[i] ELSE <<q>>[i - 1]]
    OBVIOUS
  <2> QED
    BY <2>1, <2>2
<1>5. \A p : <<p>> \o <<>> = <<p>> /\ <<>> \o <<p>> = <<p>>
  OBVIOUS
<1>6. <<>> \o <<>> = <<>>
  OBVIOUS
<1>7. First(<<>>) = <<>> /\ \A p : First(<<p>>) = <<p>>
  BY DEF First
<1>8. \A p, q : First(<<p, q>>) = <<p>>
  BY DEF First
<1> QED
  <2>1. \A p : <<p>> # <<>>
    OBVIOUS
  <2> QED
    BY <1>1, <1>2, <1>3, <1>4, <1>5, <1>6, <1>7, <1>8, <2>1

\* A piece at the end that is not zeros stays in the key of an HMAC.
LEMMA Keys ==
    /\ HmacKey(<<>>) = <<>> /\ HmacKey(Zeros) = <<>>
    /\ \A p : p.v # <<"zeros">> => HmacKey(<<p>>) = <<p>>
    /\ \A p, q : q.v # <<"zeros">> => HmacKey(<<p, q>>) = <<p, q>>
<1>1. HmacKey(<<>>) = <<>>
  BY DEF HmacKey
<1>2. HmacKey(Zeros) = <<>>
  BY Pieces DEF HmacKey, Last, Front
<1> QED
  BY <1>1, <1>2 DEF HmacKey, Last, Front

\* The value of an entity.
LEMMA Auths ==
    ASSUME NEW o \in Objects \cup {NoBind}
    PROVE  /\ o.size \in 0 .. AuthMax
           /\ o.size = 0 => AuthOf(o) = <<>>
           /\ o.size > 0 => AuthOf(o) = <<[v |-> <<"auth", o.auth>>, n |-> o.size]>>
           /\ Size(AuthOf(o)) = o.size
           /\ HmacKey(AuthOf(o)) = AuthOf(o)
<1>1. o.size \in 0 .. AuthMax
  <2>1. CASE o \in Objects
    BY <2>1, ObjectAssumption
  <2>2. CASE o = NoBind
    <3>1. NoBind.size = 0
      BY DEF NoBind
    <3> QED
      BY <2>2, <3>1 DEF AuthMax
  <2> QED
    BY <2>1, <2>2
<1>2. /\ o.size = 0 => AuthOf(o) = <<>>
      /\ o.size > 0 => AuthOf(o) = <<[v |-> <<"auth", o.auth>>, n |-> o.size]>>
  BY <1>1, Pieces DEF AuthOf, AuthMax
<1>3. <<"auth", o.auth>> # <<"zeros">>
  OBVIOUS
<1>4. CASE o.size = 0
  BY <1>1, <1>2, <1>4, SmallSizes, Keys
<1>5. CASE o.size > 0
  <2> DEFINE p == [v |-> <<"auth", o.auth>>, n |-> o.size]
  <2>1. p.n \in Int /\ p.n = o.size /\ p.v # <<"zeros">> /\ AuthOf(o) = <<p>>
    BY <1>1, <1>2, <1>3, <1>5
  <2> HIDE DEF p
  <2> QED
    BY <1>1, <1>2, <1>5, <2>1, SmallSizes, Keys DEF p
<1> QED
  <2>1. o.size = 0 \/ o.size > 0
    BY <1>1 DEF AuthMax
  <2> QED
    BY <1>1, <1>4, <1>5, <2>1

\* A buffer of one piece, and of one derived piece.
IsOne(b) == \E p : b = <<p>>
IsDerived(b, name, n) == \E r : b = <<[v |-> <<name, r>>, n |-> n]>>

\* With a digest of any size the library derives what the TPM derives, and
\* gets as many bytes as it asked for.
LEMMA KdfAgrees ==
    ASSUME NEW h, TPM2_GetHashDigestSize(h) # 0, NEW n \in Nat \ {0},
           NEW in, NEW label, NEW u, NEW v
    PROVE  /\ TPM2_KDFa(h, in, label, u, v, n) = TpmKDFa(h, in, label, u, v, n)
           /\ TPM2_KDFe(h, in, label, u, v, n) = TpmKDFe(h, in, label, u, v, n)
           /\ IsDerived(TpmKDFa(h, in, label, u, v, n), "kdfa", n)
           /\ IsDerived(TpmKDFe(h, in, label, u, v, n), "kdfe", n)
<1> DEFINE d == TPM2_GetHashDigestSize(h)
<1>1. d \in Nat \ {0}
  BY DEF TPM2_GetHashDigestSize
<1> HIDE DEF d
<1>2. Blocks(d, n) = Stream(d, n) /\ FoldSeq(+, 0, Stream(d, n)) = n
  BY <1>1, BlocksAreStream, BlocksAddUp
<1>3. TPM2_KDFa(h, in, label, u, v, n) = TpmKDFa(h, in, label, u, v, n)
  BY <1>2 DEF TPM2_KDFa, TpmKDFa, d
<1>4. TPM2_KDFe(h, in, label, u, v, n) = TpmKDFe(h, in, label, u, v, n)
  BY <1>2 DEF TPM2_KDFe, TpmKDFe, d
<1>5. IsDerived(TpmKDFa(h, in, label, u, v, n), "kdfa", n)
  BY <1>2 DEF TpmKDFa, Derived, Piece, IsDerived, d
<1>6. IsDerived(TpmKDFe(h, in, label, u, v, n), "kdfe", n)
  BY <1>2 DEF TpmKDFe, Derived, Piece, IsDerived, d
<1> QED
  BY <1>3, <1>4, <1>5, <1>6

-----------------------------------------------------------------------------
(* Secrets shared with a key.                                              *)

LEMMA SecretAgrees ==
    ASSUME NEW k \in TemplateRecords, TPM2_GetHashDigestSize(k.nameAlg) > 0,
           NEW n \in Nat, NEW z \in Nat, NEW label,
           wolfTPM2_EncryptSecret(k, n, z, label).ok
    PROVE  LET ours   == wolfTPM2_EncryptSecret(k, n, z, label)
               theirs == TpmSecret(k, ours.secret, label)
           IN  /\ k.type \in {"ECC", "RSA"}
               /\ theirs.data = ours.data
               /\ \E p : ours.data = <<p>> /\ p.n \in Nat \ {0}
               /\ n = 0 /\ "decrypt" \in k.attrs => theirs.ok
<1> DEFINE d == TPM2_GetHashDigestSize(k.nameAlg)
           c == TPM2_GetCurveSize(k.curve)
           ours == wolfTPM2_EncryptSecret(k, n, z, label)
           theirs == TpmSecret(k, ours.secret, label)
<1>1. d \in Nat \ {0} /\ c \in Nat
  BY DEF TPM2_GetHashDigestSize, TPM2_GetCurveSize
<1>2. k.type \in {"ECC", "RSA"}
  <2>1. k.type \in {"RSA", "ECC", "SYMCIPHER", "KEYEDHASH"}
    BY DEF TemplateRecords
  <2>2. ~Fail.ok
    BY DEF Fail
  <2> QED
    BY <2>1, <2>2 DEF wolfTPM2_EncryptSecret
<1>3. CASE k.type = "ECC"
  <2> DEFINE x == SharedX(c, z)
             data == TPM2_KDFe(k.nameAlg, x, label, "ephemeral", "key", d)
  <2>1. x = [pad |-> z, rest |-> c - z]
    BY <1>1 DEF SharedX
  <2>2. /\ data = TpmKDFe(k.nameAlg, x, label, "ephemeral", "key", d)
        /\ IsDerived(data, "kdfe", d)
    <3>1. TPM2_GetHashDigestSize(k.nameAlg) # 0 /\ d \in Nat \ {0}
      BY <1>1
    <3> HIDE DEF x, d
    <3> QED
      BY <3>1, KdfAgrees
  <2>3. ours = [ok |-> TRUE, data |-> data, secret |-> <<"point", z>>]
    BY <1>3 DEF wolfTPM2_EncryptSecret, wolfTPM2_EncryptSecret_ECC, Fail
  <2> HIDE DEF data, ours, x, d, c
  <2>4. ours.data = data /\ ours.secret[2] = z
    BY <2>3
  <2>5. theirs.ok = ("decrypt" \in k.attrs)
        /\ theirs.data = TpmKDFe(k.nameAlg, [pad |-> ours.secret[2], rest |-> c - ours.secret[2]],
                                 label, "ephemeral", "key", d)
    BY <1>3 DEF TpmSecret, d, c
  <2>6. theirs.data = ours.data
    BY <2>1, <2>2, <2>4, <2>5
  <2>7. \E p : ours.data = <<p>> /\ p.n \in Nat \ {0}
    BY <1>1, <2>2, <2>4 DEF IsDerived
  <2> HIDE DEF theirs
  <2> QED
    BY <1>2, <2>5, <2>6, <2>7 DEF ours, theirs
<1>4. CASE k.type = "RSA"
  <2> DEFINE m == IF n = 0 THEN d ELSE n
             data == Piece(<<"random", label>>, m)
  <2>1. m \in Nat \ {0} /\ data = <<[v |-> <<"random", label>>, n |-> m]>>
    BY <1>1, Pieces
  <2>2. Size(data) = m
    <3> HIDE DEF data, m
    <3> QED
      BY <2>1, SmallSizes
  <2>3. ours = [ok |-> TRUE, data |-> data, secret |-> <<"oaep", k.nameAlg, label, data>>]
    BY <1>4 DEF wolfTPM2_EncryptSecret, wolfTPM2_EncryptSecret_RSA, Fail
  <2> HIDE DEF data, ours
  <2>4. ours.data = data /\ ours.secret = <<"oaep", k.nameAlg, label, data>>
    BY <2>3
  <2>5. theirs = [ok |-> /\ "decrypt" \in k.attrs
                         /\ ours.secret[2] = k.nameAlg /\ ours.secret[3] = label
                         /\ Size(ours.secret[4]) <= TPM2_GetHashDigestSize(k.nameAlg),
                  data |-> ours.secret[4]]
    BY <1>4 DEF TpmSecret
  <2>6. theirs.data = ours.data
    BY <2>4, <2>5
  <2>7. n = 0 /\ "decrypt" \in k.attrs => theirs.ok
    BY <1>1, <2>2, <2>4, <2>5
  <2> HIDE DEF theirs
  <2> QED
    BY <1>2, <2>1, <2>4, <2>6, <2>7 DEF ours, theirs
<1> QED
  BY <1>2, <1>3, <1>4

-----------------------------------------------------------------------------
(* The inductive invariant.                                                *)

\* A session key: one piece of 32 bytes, not the zeros that stand for none.
IsKey(b) == b = <<b[1]>> /\ b[1].n = 32 /\ b[1].v # <<"zeros">>

\* What stands before an authorisation value: the key, or the room for one.
BaseOf(a) == IF a = <<>> THEN Zeros ELSE <<a[1]>>

IsSess(r) == r = [open |-> r.open, auth |-> r.auth, sym |-> r.sym, bind |-> r.bind,
                  policyAuth |-> r.policyAuth, policyPass |-> r.policyPass]
IsTpm(r) == r = [open |-> r.open, key |-> r.key, asserts |-> r.asserts, plain |-> r.plain]
IsSlot(r) == r = [kind |-> r.kind, auth |-> r.auth, name |-> r.name, attrs |-> r.attrs,
                  hash |-> r.hash, sym |-> r.sym, bind |-> r.bind,
                  policyAuth |-> r.policyAuth, policyPass |-> r.policyPass,
                  user |-> r.user, stale |-> r.stale]

Shape ==
    /\ sess = [s \in Kinds |-> sess[s]] /\ tpm = [s \in Kinds |-> tpm[s]]
    /\ slots = <<slots[1], slots[2]>>
    /\ \A s \in Kinds : /\ IsSess(sess[s]) /\ IsTpm(tpm[s])
                         /\ sess[s].policyAuth \in BOOLEAN /\ sess[s].policyPass \in BOOLEAN
                         /\ sess[s].sym \in {"NULL", "XOR", "CFB"}
                         /\ sess[s].bind \in Objects \cup {NoBind}
    /\ \A i \in 1 .. 2 : IsSlot(slots[i])

\* A kept key is one a TPM created.
KeyKept ==
    key # NoTemplate =>
        /\ key \in TemplateRecords /\ TPM2_GetHashDigestSize(key.nameAlg) > 0
        /\ key.type \in {"RSA", "ECC"} => (key.sym > 0 <=> IsParent(key.attrs))

\* A session of the application, and the TPM's behind it.
SessionSound(s) ==
    /\ sess[s].open => tpm[s].open
    /\ tpm[s].key = <<>> \/ IsKey(tpm[s].key)
    /\ s = "enc" => ~sess[s].policyPass /\ ~sess[s].policyAuth
    /\ sess[s].policyAuth => "authvalue" \in tpm[s].asserts
    /\ ~sess[s].policyPass =>
          /\ sess[s].auth = <<>> \/ sess[s].auth[1].n = 32
          /\ ~sess[s].policyAuth => sess[s].auth = <<>> \/ IsKey(sess[s].auth)
          /\ sess[s].open
                /\ (sess[s].bind = NoBind \/ sess[s].bind.size > 0
                      \/ HmacKey(BaseOf(sess[s].auth)) # <<>>)
             => HmacKey(BaseOf(sess[s].auth)) = tpm[s].key

\* A slot that was filled from session s and is not stale has what s has.
Filled(slot, s) ==
    /\ sess[s].open /\ slot.hash = WrapDigest
    /\ slot.sym = sess[s].sym /\ slot.bind = sess[s].bind
    /\ slot.policyPass = sess[s].policyPass

\* The second slot is for the session that encrypts parameters.
SecondSlot(slot) ==
    /\ slot.kind \in {"none", "enc"}
    /\ slot.kind = "enc" =>
          /\ slot.attrs = Both /\ slot.hash = WrapDigest /\ ~slot.policyAuth
          /\ ~slot.stale => Filled(slot, "enc") /\ slot.auth = sess["enc"].auth

\* The first slot: a password is that of the handle put there; behind the key
\* of a policy session stands the value of the handle put there, or the one
\* the session had.
PasswordSlot(slot) ==
    /\ slot.user = "none" => slot.auth = <<>>
    /\ slot.user # "none" => \E o \in Objects : slot.user = o.id /\ slot.name = o.id
                                                 /\ slot.auth = AuthOf(o)
PolicyUse(slot, o) ==
    /\ slot.user = o.id /\ slot.name = o.id
    /\ slot.policyAuth /\ o.policyAuth /\ (o.size > 0 \/ ~sess["pol"].policyAuth) =>
          slot.auth = BaseOf(sess["pol"].auth) \o AuthOf(o)
PolicySlot(slot) ==
    /\ slot.auth = <<>> \/ slot.auth[1].n = 32
    /\ BaseOf(slot.auth) = BaseOf(sess["pol"].auth)
    /\ ~slot.policyAuth => slot.auth = sess["pol"].auth /\ ~sess["pol"].policyAuth
    /\ slot.user = "none" => slot.policyAuth = sess["pol"].policyAuth
                              /\ slot.auth = sess["pol"].auth
    /\ slot.user # "none" => \E o \in Objects : PolicyUse(slot, o)
FirstSlot(slot) ==
    /\ slot.kind \in {"none", "pw", "obj", "pol"}
    /\ slot.kind # "pol" => slot.hash = "none"
    /\ slot.kind = "pol" => slot.attrs \in {{}, Both} /\ slot.hash = WrapDigest
    /\ ~slot.stale =>
          /\ slot.kind = "pw" => PasswordSlot(slot)
          /\ slot.kind = "pol" =>
                Filled(slot, "pol") /\ (~slot.policyPass => PolicySlot(slot))

\* The conjunction is inductive: a slot is judged by the session it was filled
\* from, a session by the session of the TPM, a salt by the key that was kept.
Sound ==
    /\ TypeOK /\ Shape /\ KeyKept
    /\ \A s \in Kinds : SessionSound(s)
    /\ FirstSlot(slots[1]) /\ SecondSlot(slots[2])

-----------------------------------------------------------------------------
(* The invariant holds.                                                    *)

\* What stands behind the first 32 bytes of a buffer is replaced.
LEMMA Behind ==
    ASSUME NEW a, NEW o \in Objects
    PROVE  /\ \E p : p.n = 32 /\ BehindKey(a, o) = <<p>> \o AuthOf(o) /\ BehindKey(a, o)[1] = p
           /\ BehindKey(a, o) # <<>> /\ BehindKey(a, o)[1].n = 32
           /\ FitsBehind(o) => Size(BehindKey(a, o)) =< AuthMax
           /\ a = <<>> \/ a[1].n = 32 =>
                 /\ BehindKey(a, o) = BaseOf(a) \o AuthOf(o)
                 /\ BaseOf(BehindKey(a, o)) = BaseOf(a)
<1> DEFINE base == CASE a = <<>> -> Zeros [] a # <<>> /\ a[1].n = 32 -> First(a)
                     [] OTHER -> Piece(<<"mixed">>, 32)
           b == BehindKey(a, o)
<1>1. PICK p : p.n = 32 /\ base = <<p>>
  BY Pieces DEF First
<1>2. a = <<>> \/ a[1].n = 32 => base = BaseOf(a)
  BY Pieces DEF BaseOf, First
<1>3. b = base \o AuthOf(o)
  BY DEF BehindKey
<1> HIDE DEF base, b
<1>4. b = <<p>> \o AuthOf(o) /\ (a = <<>> \/ a[1].n = 32 => b = BaseOf(a) \o AuthOf(o))
  BY <1>1, <1>2, <1>3
<1>5. b # <<>> /\ b[1] = p /\ Size(b) = 32 + o.size
  <2>1. CASE o.size = 0
    <3>1. b = <<p>>
      BY <1>4, <2>1, Auths, Pieces
    <3> QED
      BY <1>1, <2>1, <3>1, SmallSizes
  <2>2. CASE o.size > 0
    <3> DEFINE q == [v |-> <<"auth", o.auth>>, n |-> o.size]
    <3>1. b = <<p, q>> /\ q.n = o.size /\ q.n \in Int
      <4>1. AuthOf(o) = <<q>> /\ o.size \in Int
        BY <2>2, Auths
      <4>2. q.n = o.size
        OBVIOUS
      <4>3. \A r : <<p>> \o <<r>> = <<p, r>>
        BY Pieces, Zenon
      <4> HIDE DEF q
      <4> QED
        BY <1>4, <4>1, <4>2, <4>3
    <3> HIDE DEF q
    <3> QED
      BY <1>1, <3>1, SmallSizes
  <2> QED
    BY <2>1, <2>2, Auths
<1>6. FitsBehind(o) => Size(b) =< AuthMax
  BY <1>5 DEF FitsBehind
<1>7. a = <<>> \/ a[1].n = 32 => BaseOf(b) = BaseOf(a)
  BY <1>1, <1>2, <1>5 DEF BaseOf
<1> QED
  BY <1>1, <1>4, <1>5, <1>6, <1>7 DEF b

\* Sizes of what a session or a slot can start with.
LEMMA EmptySizes ==
    /\ Size(<<>>) =< AuthMax /\ Size(<<>>) \in {0, 32}
    /\ \A b : IsKey(b) => Size(b) = 32 /\ Size(b) =< AuthMax
    /\ \A o \in Objects \cup {NoBind} : Size(AuthOf(o)) =< AuthMax
<1>1. \A b : IsKey(b) => Size(b) = 32
  BY SmallSizes DEF IsKey
<1>2. \A o \in Objects \cup {NoBind} : Size(AuthOf(o)) =< AuthMax
  BY Auths
<1>3. Size(<<>>) = 0 /\ AuthMax = 64
  BY SmallSizes DEF AuthMax
<1> QED
  BY <1>1, <1>2, <1>3

\* The first state, and one lemma for each action.
LEMMA InitSound ==
    Init => Sound
<1> SUFFICES ASSUME Init PROVE Sound
  OBVIOUS
<1> USE DEF Init
<1>0. /\ \A s \in Kinds : sess[s] = NoSess /\ tpm[s] = NoTpm
      /\ \A i \in 1 .. 2 : slots[i] = EmptySlot
      /\ NoSess.auth = <<>> /\ NoTpm.key = <<>>
      /\ EmptySlot.auth = <<>> /\ EmptySlot.kind = "none"
  <2>1. \A s \in Kinds : sess[s] = NoSess /\ tpm[s] = NoTpm
    OBVIOUS
  <2>2. \A i \in 1 .. 2 : slots[i] = EmptySlot
    OBVIOUS
  <2>3. NoSess.auth = <<>> /\ NoTpm.key = <<>>
    BY DEF NoSess, NoTpm
  <2>4. EmptySlot.auth = <<>> /\ EmptySlot.kind = "none"
    BY DEF EmptySlot, KeySlot
  <2> QED
    BY <2>1, <2>2, <2>3, <2>4
<1>1. TypeOK
  BY <1>0, EmptySizes DEF TypeOK
<1>2. Shape
  <2>1. IsSess(NoSess) /\ IsTpm(NoTpm) /\ IsSlot(EmptySlot)
    BY DEF IsSess, IsTpm, IsSlot, NoSess, NoTpm, EmptySlot, KeySlot
  <2>2. /\ NoSess.policyAuth = FALSE /\ NoSess.policyPass = FALSE
        /\ NoSess.sym = "NULL" /\ NoSess.bind = NoBind
    BY DEF NoSess
  <2>3. /\ sess = [s \in Kinds |-> sess[s]] /\ tpm = [s \in Kinds |-> tpm[s]]
        /\ slots = <<slots[1], slots[2]>>
    OBVIOUS
  <2> QED
    BY <1>0, <2>1, <2>2, <2>3 DEF Shape
<1>3. KeyKept
  BY DEF KeyKept
<1>4. ASSUME NEW s \in Kinds PROVE SessionSound(s)
  BY DEF SessionSound, NoSess, NoTpm
<1>5. FirstSlot(slots[1]) /\ SecondSlot(slots[2])
  BY DEF FirstSlot, SecondSlot, EmptySlot, KeySlot
<1> QED
  BY <1>1, <1>2, <1>3, <1>4, <1>5 DEF Sound

\* Only the first slot changes.
LEMMA FirstSet ==
    ASSUME Sound, NEW slot, IsSlot(slot), slots' = [slots EXCEPT ![1] = slot],
           UNCHANGED <<key, sess, tpm>>, Size(slot.auth) =< AuthMax, FirstSlot(slot)
    PROVE  Sound'
<1>1. slots'[1] = slot /\ slots'[2] = slots[2] /\ slots' = <<slot, slots[2]>>
  BY DEF Sound, Shape
<1>2. TypeOK'
  BY <1>1 DEF Sound, TypeOK, FirstSlot
<1>3. Shape'
  BY <1>1 DEF Sound, Shape
<1>4. KeyKept'
  BY DEF Sound, KeyKept
<1>5. ASSUME NEW s \in Kinds PROVE SessionSound(s)'
  BY DEF Sound, SessionSound
<1>6. (FirstSlot(slots[1]))'
  BY <1>1 DEF FirstSlot, PasswordSlot, PolicySlot, PolicyUse, Filled
<1>7. (SecondSlot(slots[2]))'
  BY <1>1 DEF Sound, SecondSlot, Filled
<1> QED
  BY <1>2, <1>3, <1>4, <1>5, <1>6, <1>7 DEF Sound

\* Only the second slot changes.
LEMMA SecondSet ==
    ASSUME Sound, NEW slot, IsSlot(slot), slots' = [slots EXCEPT ![2] = slot],
           UNCHANGED <<key, sess, tpm>>, Size(slot.auth) =< AuthMax, SecondSlot(slot)
    PROVE  Sound'
<1>1. slots'[2] = slot /\ slots'[1] = slots[1] /\ slots' = <<slots[1], slot>>
  BY DEF Sound, Shape
<1>2. TypeOK'
  BY <1>1 DEF Sound, TypeOK, SecondSlot
<1>3. Shape'
  BY <1>1 DEF Sound, Shape
<1>4. KeyKept'
  BY DEF Sound, KeyKept
<1>5. ASSUME NEW s \in Kinds PROVE SessionSound(s)'
  BY DEF Sound, SessionSound
<1>6. (FirstSlot(slots[1]))'
  BY <1>1 DEF Sound, FirstSlot, PasswordSlot, PolicySlot, PolicyUse, Filled
<1>7. (SecondSlot(slots[2]))'
  BY <1>1 DEF SecondSlot, Filled
<1> QED
  BY <1>2, <1>3, <1>4, <1>5, <1>6, <1>7 DEF Sound

LEMMA UnsetSound ==
    ASSUME Sound, NEW i \in 1 .. 2, wolfTPM2_UnsetAuth(i) PROVE Sound'
<1>1. /\ IsSlot(EmptySlot) /\ EmptySlot.kind = "none" /\ EmptySlot.auth = <<>>
      /\ EmptySlot.hash = "none"
  BY DEF EmptySlot, KeySlot, IsSlot
<1>2. Size(EmptySlot.auth) =< AuthMax
  BY <1>1, EmptySizes
<1>3. FirstSlot(EmptySlot) /\ SecondSlot(EmptySlot)
  BY <1>1 DEF FirstSlot, SecondSlot
<1>4. CASE i = 1
  BY <1>1, <1>2, <1>3, <1>4, FirstSet DEF wolfTPM2_UnsetAuth
<1>5. CASE i = 2
  BY <1>1, <1>2, <1>3, <1>5, SecondSet DEF wolfTPM2_UnsetAuth
<1> QED
  BY <1>4, <1>5

LEMMA PasswordSound ==
    ASSUME Sound, NEW name, NEW slot, slot = KeySlot("pw", <<>>, name),
           slots' = [slots EXCEPT ![1] = slot], UNCHANGED <<key, sess, tpm>>
    PROVE  Sound'
<1>1. /\ IsSlot(slot) /\ slot.kind = "pw" /\ slot.auth = <<>> /\ slot.hash = "none"
      /\ slot.user = "none"
  BY DEF KeySlot, IsSlot
<1>2. Size(slot.auth) =< AuthMax
  BY <1>1, EmptySizes
<1>3. FirstSlot(slot)
  BY <1>1 DEF FirstSlot, PasswordSlot
<1> QED
  BY <1>1, <1>2, <1>3, FirstSet

LEMMA SetSessionSound ==
    ASSUME Sound, NEW attrs,
           \/ attrs \in {{}, Both} /\ wolfTPM2_SetAuthSession(1, "pol", attrs)
           \/ attrs = Both /\ wolfTPM2_SetAuthSession(2, "enc", attrs)
    PROVE  Sound'
<1> DEFINE S(s) == [KeySlot(s, sess[s].auth, "") EXCEPT
                !.attrs = attrs, !.hash = WrapDigest, !.sym = sess[s].sym, !.bind = sess[s].bind,
                !.policyAuth = sess[s].policyAuth, !.policyPass = sess[s].policyPass]
<1>1. ASSUME NEW s \in Kinds
      PROVE  /\ IsSlot(S(s)) /\ S(s).kind = s /\ S(s).auth = sess[s].auth /\ S(s).attrs = attrs
             /\ S(s).hash = WrapDigest /\ S(s).sym = sess[s].sym /\ S(s).bind = sess[s].bind
             /\ S(s).policyAuth = sess[s].policyAuth /\ S(s).policyPass = sess[s].policyPass
             /\ S(s).user = "none"
  <2> DEFINE k == KeySlot(s, sess[s].auth, "")
  <2>1. IsSlot(k) /\ k.kind = s /\ k.auth = sess[s].auth /\ k.user = "none"
    BY DEF KeySlot, IsSlot
  <2> HIDE DEF k
  <2>2. /\ S(s).kind = s /\ S(s).auth = sess[s].auth /\ S(s).attrs = attrs
        /\ S(s).hash = WrapDigest /\ S(s).sym = sess[s].sym /\ S(s).bind = sess[s].bind
        /\ S(s).policyAuth = sess[s].policyAuth /\ S(s).policyPass = sess[s].policyPass
        /\ S(s).user = "none"
    BY <2>1 DEF IsSlot, k
  <2>3. IsSlot(S(s))
    <3>1. S(s) = [k EXCEPT
                    !.attrs = attrs, !.hash = WrapDigest, !.sym = sess[s].sym, !.bind = sess[s].bind,
                    !.policyAuth = sess[s].policyAuth, !.policyPass = sess[s].policyPass]
      BY DEF k
    <3> HIDE DEF S
    <3> QED
      BY <2>1, <3>1 DEF IsSlot
  <2> QED
    BY <2>2, <2>3
<1> HIDE DEF S
<1>2. "pol" \in Kinds /\ "enc" \in Kinds /\ \A s \in Kinds : Size(S(s).auth) =< AuthMax
  BY <1>1 DEF Sound, TypeOK, Kinds
<1>3. CASE attrs \in {{}, Both} /\ wolfTPM2_SetAuthSession(1, "pol", attrs)
  <2>1. /\ sess["pol"].open /\ slots' = [slots EXCEPT ![1] = S("pol")]
        /\ UNCHANGED <<key, sess, tpm>>
    BY <1>3 DEF wolfTPM2_SetAuthSession, S
  <2>2. SessionSound("pol")
    BY <1>2 DEF Sound
  <2>3. FirstSlot(S("pol"))
    <3>1. Filled(S("pol"), "pol")
      BY <1>1, <1>2, <2>1 DEF Filled
    <3>2. ASSUME ~sess["pol"].policyPass PROVE PolicySlot(S("pol"))
      BY <1>1, <1>2, <2>2, <3>2 DEF PolicySlot, SessionSound
    <3> QED
      BY <1>1, <1>2, <1>3, <3>1, <3>2 DEF FirstSlot
  <2> QED
    BY <1>1, <1>2, <2>1, <2>3, FirstSet
<1>4. CASE attrs = Both /\ wolfTPM2_SetAuthSession(2, "enc", attrs)
  <2>1. /\ sess["enc"].open /\ slots' = [slots EXCEPT ![2] = S("enc")]
        /\ UNCHANGED <<key, sess, tpm>>
    BY <1>4 DEF wolfTPM2_SetAuthSession, S
  <2>2. SessionSound("enc")
    BY <1>2 DEF Sound
  <2>3. SecondSlot(S("enc"))
    BY <1>1, <1>2, <1>4, <2>1, <2>2 DEF SecondSlot, Filled, SessionSound
  <2> QED
    BY <1>1, <1>2, <2>1, <2>3, SecondSet
<1> QED
  BY <1>3, <1>4

\* The value of handle o goes behind the key of a policy session.
LEMMA BehindSound ==
    ASSUME Sound, NEW o \in Objects, FitsBehind(o), slots[1].hash # "none",
           NEW slot, IsSlot(slot), slot.kind = slots[1].kind, slot.hash = slots[1].hash,
           slot.attrs = slots[1].attrs, slot.sym = slots[1].sym, slot.bind = slots[1].bind,
           slot.policyPass = slots[1].policyPass, slot.stale = slots[1].stale,
           slot.policyAuth = TRUE, slot.auth = BehindKey(slots[1].auth, o),
           slot.name = o.id, slot.user = o.id
    PROVE  FirstSlot(slot) /\ Size(slot.auth) =< AuthMax
<1>1. slots[1].kind = "pol" /\ o.id # "none" /\ FirstSlot(slots[1])
  BY ObjectAssumption DEF Sound, FirstSlot
<1>2. Size(slot.auth) =< AuthMax
  BY Behind
<1>3. ASSUME ~slot.stale PROVE Filled(slot, "pol") /\ Filled(slots[1], "pol")
  BY <1>1, <1>3 DEF FirstSlot, Filled
<1>4. ASSUME ~slot.stale, ~slot.policyPass PROVE PolicySlot(slot)
  <2>1. PolicySlot(slots[1])
    BY <1>1, <1>4 DEF FirstSlot
  <2>2. /\ slot.auth[1].n = 32 /\ BaseOf(slot.auth) = BaseOf(sess["pol"].auth)
        /\ slot.auth = BaseOf(sess["pol"].auth) \o AuthOf(o)
    BY <2>1, Behind DEF PolicySlot
  <2>3. PolicyUse(slot, o)
    BY <2>2 DEF PolicyUse
  <2> QED
    BY <1>1, <2>2, <2>3 DEF PolicySlot
<1> QED
  BY <1>1, <1>2, <1>3, <1>4 DEF FirstSlot

LEMMA SetHandleSound ==
    ASSUME Sound, NEW o \in Objects, wolfTPM2_SetAuthHandle(1, o) PROVE Sound'
<1> DEFINE old == slots[1]
           slot == HandleSlot(old, o)
<1>1. slots' = [slots EXCEPT ![1] = slot] /\ UNCHANGED <<key, sess, tpm>>
  BY DEF wolfTPM2_SetAuthHandle, Sound, Shape
<1>2. IsSlot(old) /\ FirstSlot(old) /\ Size(old.auth) =< AuthMax /\ o.id # "none"
  BY ObjectAssumption DEF Sound, Shape, TypeOK
<1> HIDE DEF old
<1>3. IsSlot(slot) /\ FirstSlot(slot) /\ Size(slot.auth) =< AuthMax
  <2>1. CASE ~o.policyAuth
    <3>1. /\ IsSlot(slot) /\ slot.kind = "pw" /\ slot.auth = AuthOf(o) /\ slot.name = o.id
          /\ slot.hash = "none" /\ slot.user = o.id
      BY <2>1 DEF HandleSlot, KeySlot, IsSlot
    <3> HIDE DEF slot
    <3>2. FirstSlot(slot)
      BY <1>2, <3>1 DEF FirstSlot, PasswordSlot
    <3> QED
      BY <3>1, <3>2, EmptySizes
  <2>2. CASE o.policyAuth /\ (old.hash = "none" \/ ~FitsBehind(o))
    <3>1. /\ IsSlot(slot) /\ slot.kind = old.kind /\ slot.auth = old.auth
          /\ slot.attrs = old.attrs /\ slot.hash = old.hash /\ slot.stale = TRUE
      BY <1>2, <2>2 DEF HandleSlot, IsSlot
    <3> HIDE DEF slot
    <3> QED
      BY <1>2, <3>1 DEF FirstSlot
  <2>3. CASE o.policyAuth /\ old.hash # "none" /\ FitsBehind(o)
    <3>1. /\ IsSlot(slot) /\ slot.kind = old.kind /\ slot.auth = BehindKey(old.auth, o)
          /\ slot.attrs = old.attrs /\ slot.hash = old.hash /\ slot.stale = old.stale
          /\ slot.sym = old.sym /\ slot.bind = old.bind /\ slot.policyPass = old.policyPass
          /\ slot.policyAuth = TRUE /\ slot.name = o.id /\ slot.user = o.id
      BY <1>2, <2>3 DEF HandleSlot, IsSlot
    <3> HIDE DEF slot
    <3> QED
      BY <2>3, <3>1, BehindSound DEF old
  <2> QED
    BY <2>1, <2>2, <2>3, ObjectAssumption
<1> HIDE DEF slot
<1> QED
  BY <1>1, <1>3, FirstSet

LEMMA SetNameSound ==
    ASSUME Sound, NEW o \in Objects, wolfTPM2_SetAuthHandleName(1, o) PROVE Sound'
<1> DEFINE old == slots[1]
           slot == NameSlot(old, o)
<1>1. slots' = [slots EXCEPT ![1] = slot] /\ UNCHANGED <<key, sess, tpm>>
  BY DEF wolfTPM2_SetAuthHandleName, Sound, Shape
<1>2. /\ IsSlot(old) /\ FirstSlot(old) /\ Size(old.auth) =< AuthMax /\ o.id # "none"
      /\ old.kind \in {"pw", "pol"} /\ o.size \in 0 .. AuthMax
      /\ sess["pol"].policyAuth \in BOOLEAN
  BY ObjectAssumption DEF Sound, Shape, TypeOK, wolfTPM2_SetAuthHandleName, Kinds
<1> HIDE DEF old
<1>3. IsSlot(slot) /\ FirstSlot(slot) /\ Size(slot.auth) =< AuthMax
  <2>1. CASE o.size = 0
    <3>1. /\ IsSlot(slot) /\ slot.kind = old.kind /\ slot.auth = old.auth
          /\ slot.attrs = old.attrs /\ slot.hash = old.hash
          /\ slot.sym = old.sym /\ slot.bind = old.bind /\ slot.policyPass = old.policyPass
          /\ slot.policyAuth = old.policyAuth /\ slot.name = o.id /\ slot.user = o.id
          /\ ~slot.stale => ~old.stale /\ old.user \in {"none", o.id}
      BY <1>2, <2>1 DEF NameSlot, IsSlot
    <3> HIDE DEF slot
    <3>2. AuthOf(o) = <<>> /\ \A p \in Objects : p.id = o.id => p = o
      BY <2>1, Auths, ObjectAssumption
    <3>3. ASSUME ~slot.stale, slot.kind = "pw" PROVE PasswordSlot(slot)
      BY <1>2, <3>1, <3>2, <3>3 DEF FirstSlot, PasswordSlot
    <3>4. ASSUME ~slot.stale, slot.kind = "pol", ~slot.policyPass PROVE PolicySlot(slot)
      <4>1. PolicySlot(old) /\ ~old.stale
        BY <1>2, <3>1, <3>4 DEF FirstSlot
      <4>2. PolicyUse(slot, o)
        <5>1. CASE old.user = "none"
          BY <2>1, <3>1, <4>1, <5>1 DEF PolicySlot, PolicyUse
        <5>2. CASE old.user = o.id
          <6>1. PICK p \in Objects : PolicyUse(old, p)
            BY <1>2, <4>1, <5>2 DEF PolicySlot
          <6>2. p = o
            BY <3>2, <5>2, <6>1 DEF PolicyUse
          <6> QED
            BY <3>1, <6>1, <6>2 DEF PolicyUse
        <5> QED
          BY <3>1, <3>4, <5>1, <5>2
      <4> QED
        BY <1>2, <3>1, <4>1, <4>2 DEF PolicySlot
    <3>5. ASSUME ~slot.stale, slot.kind = "pol" PROVE Filled(slot, "pol")
      BY <1>2, <3>1, <3>5 DEF FirstSlot, Filled
    <3> QED
      BY <1>2, <3>1, <3>3, <3>4, <3>5 DEF FirstSlot
  <2>2. CASE o.size # 0 /\ old.kind = "pw"
    <3>1. /\ IsSlot(slot) /\ slot.kind = "pw" /\ slot.auth = AuthOf(o) /\ slot.name = o.id
          /\ slot.hash = old.hash /\ slot.user = o.id
      BY <1>2, <2>2 DEF NameSlot, IsSlot
    <3> HIDE DEF slot
    <3>2. FirstSlot(slot)
      BY <1>2, <2>2, <3>1 DEF FirstSlot, PasswordSlot
    <3> QED
      BY <3>1, <3>2, EmptySizes
  <2>3. CASE o.size # 0 /\ old.kind = "pol" /\ ~o.policyAuth
    <3>1. /\ IsSlot(slot) /\ slot.kind = "pol" /\ slot.auth = old.auth
          /\ slot.attrs = old.attrs /\ slot.hash = old.hash /\ slot.stale = old.stale
          /\ slot.sym = old.sym /\ slot.bind = old.bind /\ slot.policyPass = old.policyPass
          /\ slot.policyAuth = old.policyAuth /\ slot.name = o.id /\ slot.user = o.id
      BY <1>2, <2>3 DEF NameSlot, IsSlot
    <3> HIDE DEF slot
    <3>2. PolicyUse(slot, o)
      BY <2>3, <3>1 DEF PolicyUse
    <3>3. ASSUME ~slot.stale, ~slot.policyPass PROVE PolicySlot(slot)
      <4>1. PolicySlot(old)
        BY <1>2, <2>3, <3>1, <3>3 DEF FirstSlot
      <4> QED
        BY <1>2, <3>1, <3>2, <4>1 DEF PolicySlot
    <3>4. ASSUME ~slot.stale PROVE Filled(slot, "pol")
      BY <1>2, <2>3, <3>1, <3>4 DEF FirstSlot, Filled
    <3> QED
      BY <1>2, <2>3, <3>1, <3>3, <3>4 DEF FirstSlot
  <2>4. CASE /\ o.size # 0 /\ old.kind = "pol" /\ o.policyAuth
             /\ old.hash = "none" \/ ~FitsBehind(o)
    <3>1. /\ IsSlot(slot) /\ slot.kind = old.kind /\ slot.auth = old.auth
          /\ slot.attrs = old.attrs /\ slot.hash = old.hash /\ slot.stale = TRUE
      BY <1>2, <2>4 DEF NameSlot, IsSlot
    <3> HIDE DEF slot
    <3> QED
      BY <1>2, <3>1 DEF FirstSlot
  <2>5. CASE /\ o.size # 0 /\ old.kind = "pol" /\ o.policyAuth
             /\ old.hash # "none" /\ FitsBehind(o)
    <3>1. /\ IsSlot(slot) /\ slot.kind = old.kind /\ slot.auth = BehindKey(old.auth, o)
          /\ slot.attrs = old.attrs /\ slot.hash = old.hash /\ slot.stale = old.stale
          /\ slot.sym = old.sym /\ slot.bind = old.bind /\ slot.policyPass = old.policyPass
          /\ slot.policyAuth = TRUE /\ slot.name = o.id /\ slot.user = o.id
      BY <1>2, <2>5 DEF NameSlot, IsSlot
    <3> HIDE DEF slot
    <3> QED
      BY <2>5, <3>1, BehindSound DEF old
  <2> QED
    BY <1>2, <2>1, <2>2, <2>3, <2>4, <2>5
<1> HIDE DEF slot
<1> QED
  BY <1>1, <1>3, FirstSet

LEMMA CreateSound ==
    ASSUME Sound, NEW t \in Templates, CreatePrimary(t) PROVE Sound'
<1> DEFINE slot == KeySlot("pw", <<>>, "")
           new  == CopyPubT([t.made EXCEPT !.unique = GetKeyTemplateSize(t.made)])
<1>1. /\ IsSlot(slot) /\ slot.kind = "pw" /\ slot.auth = <<>> /\ slot.hash = "none"
      /\ slot.user = "none"
  BY DEF KeySlot, IsSlot
<1>2. slots' = [slots EXCEPT ![1] = slot] /\ UNCHANGED <<sess, tpm>>
  BY DEF CreatePrimary
<1>3. key' = key \/ (t.made # NoTemplate /\ TpmCreates(t.made) /\ key' = new)
  BY DEF CreatePrimary
<1> HIDE DEF slot
<1>4. slots'[1] = slot /\ slots'[2] = slots[2] /\ slots' = <<slot, slots[2]>>
  BY <1>2 DEF Sound, Shape
<1>5. ASSUME key' = new, t.made # NoTemplate, TpmCreates(t.made)
      PROVE  TypeOK' /\ KeyKept'
  <2>1. t.made \in TemplateRecords
    BY <1>5, TemplateAssumption
  <2> PICK m \in TemplateRecords : m = t.made
    BY <2>1
  <2>2. TPM2_GetHashDigestSize(m.nameAlg) > 0
        /\ (m.type \in {"RSA", "ECC"} => (m.sym > 0 <=> IsParent(m.attrs)))
    BY <1>5 DEF TpmCreates
  <2>3. GetKeyTemplateSize(m) \in Nat
    BY RsaAssumption DEF GetKeyTemplateSize, TPM2_GetCurveSize, TemplateRecords
  <2>4. PICK p \in Nat, u \in Nat : new = [m EXCEPT !.unique = u, !.policy = p]
    <3> DEFINE g == GetKeyTemplateSize(m)
               max == IF m.type = "RSA" THEN MaxRsaBytes ELSE IF m.type = "ECC" THEN MaxEccBytes
                      ELSE MaxDigest
               n == [m EXCEPT !.unique = g]
    <3>1. /\ n.policy = m.policy /\ n.policy \in Nat /\ n.unique = g /\ n.type = m.type
          /\ max \in Nat
      BY RsaAssumption DEF TemplateRecords, MaxEccBytes, MaxDigest
    <3>2. Smaller(n.policy, MaxDigest) \in Nat /\ Smaller(n.unique, max) \in Nat
      BY <2>3, <3>1 DEF Smaller, MaxDigest
    <3>3. new = [n EXCEPT !.policy = Smaller(n.policy, MaxDigest),
                          !.unique = Smaller(n.unique, max)]
      BY <3>1 DEF CopyPubT
    <3>4. new = [m EXCEPT !.unique = Smaller(n.unique, max), !.policy = Smaller(n.policy, MaxDigest)]
      <4>1. \A u, p, q : [[m EXCEPT !.unique = q] EXCEPT !.policy = p, !.unique = u] =
                      [m EXCEPT !.unique = u, !.policy = p]
        BY DEF TemplateRecords
      <4> HIDE DEF new, max, g
      <4> QED
        BY <3>3, <4>1
    <3> HIDE DEF new, n, max
    <3> QED
      BY <3>2, <3>4
  <2> HIDE DEF new
  <2>5. /\ new \in TemplateRecords /\ new.nameAlg = m.nameAlg /\ new.type = m.type
        /\ new.sym = m.sym /\ new.attrs = m.attrs
    <3>1. new.nameAlg = m.nameAlg /\ new.type = m.type /\ new.sym = m.sym /\ new.attrs = m.attrs
      BY <2>4 DEF TemplateRecords
    <3>2. [m EXCEPT !.unique = u] \in TemplateRecords
      BY DEF TemplateRecords
    <3>3. new = [[m EXCEPT !.unique = u] EXCEPT !.policy = p]
      BY <2>4
    <3>4. new \in TemplateRecords
      <4> DEFINE l == [m EXCEPT !.unique = u]
      <4>1. l \in TemplateRecords /\ new = [l EXCEPT !.policy = p]
        BY <3>2, <3>3
      <4> HIDE DEF l
      <4> QED
        BY <4>1 DEF TemplateRecords
    <3> QED
      BY <3>1, <3>4
  <2>6. key'.type \in {"RSA", "ECC", "SYMCIPHER", "KEYEDHASH"}
    BY <1>5, <2>5 DEF TemplateRecords
  <2>7. TypeOK'
    BY <1>1, <1>2, <1>4, <2>6, EmptySizes DEF Sound, TypeOK
  <2>8. KeyKept'
    BY <1>5, <2>2, <2>5 DEF KeyKept
  <2> QED
    BY <2>7, <2>8
<1>6. ASSUME key' = key PROVE TypeOK' /\ KeyKept'
  <2>1. TypeOK'
    BY <1>1, <1>2, <1>4, <1>6, EmptySizes DEF Sound, TypeOK
  <2>2. KeyKept'
    BY <1>6 DEF Sound, KeyKept
  <2> QED
    BY <2>1, <2>2
<1>7. TypeOK' /\ KeyKept'
  BY <1>3, <1>5, <1>6
<1>8. Shape'
  BY <1>1, <1>2, <1>4 DEF Sound, Shape
<1>9. ASSUME NEW s \in Kinds PROVE SessionSound(s)'
  BY <1>2 DEF Sound, SessionSound
<1>10. (FirstSlot(slots[1]))'
  BY <1>1, <1>4 DEF FirstSlot, PasswordSlot
<1>11. (SecondSlot(slots[2]))'
  BY <1>2, <1>4 DEF Sound, SecondSlot, Filled
<1> QED
  BY <1>7, <1>8, <1>9, <1>10, <1>11 DEF Sound

\* The policy session of the application and of the TPM change, and a first
\* slot that was filled from it is stale.
LEMMA PolicySet ==
    ASSUME Sound, NEW r, NEW m, IsSess(r), IsTpm(m),
           r.policyAuth \in BOOLEAN, r.policyPass \in BOOLEAN,
           r.sym = sess["pol"].sym, r.bind = sess["pol"].bind,
           Size(r.auth) =< AuthMax, m.key = tpm["pol"].key,
           sess' = [sess EXCEPT !["pol"] = r], tpm' = [tpm EXCEPT !["pol"] = m],
           slots' = Outdated(slots, "pol"), key' = key,
           (SessionSound("pol"))'
    PROVE  Sound'
<1>1. /\ sess'["pol"] = r /\ sess'["enc"] = sess["enc"]
      /\ tpm'["pol"] = m /\ tpm'["enc"] = tpm["enc"]
      /\ sess' = [s \in Kinds |-> sess'[s]] /\ tpm' = [s \in Kinds |-> tpm'[s]]
  BY DEF Sound, Shape, Kinds
<1>2. /\ slots' = <<slots'[1], slots'[2]>>
      /\ \A i \in 1 .. 2 : slots'[i] = IF slots[i].kind = "pol"
                                      THEN [slots[i] EXCEPT !.stale = TRUE] ELSE slots[i]
  <2> DEFINE f(i) == IF slots[i].kind = "pol" THEN [slots[i] EXCEPT !.stale = TRUE] ELSE slots[i]
  <2>1. slots' = [i \in 1 .. 2 |-> f(i)]
    BY DEF Outdated
  <2> HIDE DEF f
  <2>2. slots' = <<slots'[1], slots'[2]>> /\ \A i \in 1 .. 2 : slots'[i] = f(i)
    BY <2>1
  <2> QED
    BY <2>2 DEF f
<1>3. ASSUME NEW i \in 1 .. 2
      PROVE  /\ IsSlot(slots'[i]) /\ slots'[i].kind = slots[i].kind
             /\ slots'[i].auth = slots[i].auth /\ slots'[i].hash = slots[i].hash
             /\ slots'[i].attrs = slots[i].attrs
             /\ slots[i].kind = "pol" => slots'[i].stale
             /\ slots[i].kind # "pol" => slots'[i] = slots[i]
  <2>1. IsSlot(slots[i])
    BY DEF Sound, Shape
  <2>2. CASE slots[i].kind = "pol"
    <3>1. slots'[i] = [slots[i] EXCEPT !.stale = TRUE]
      BY <1>2, <2>2
    <3> QED
      BY <2>1, <2>2, <3>1 DEF IsSlot
  <2>3. CASE slots[i].kind # "pol"
    BY <1>2, <2>1, <2>3
  <2> QED
    BY <2>2, <2>3
<1>4. TypeOK'
  BY <1>1, <1>3 DEF Sound, TypeOK, Kinds
<1>5. Shape'
  BY <1>1, <1>2, <1>3 DEF Sound, Shape, Kinds
<1>6. KeyKept'
  BY DEF Sound, KeyKept
<1>7. ASSUME NEW s \in Kinds PROVE SessionSound(s)'
  <2>1. CASE s = "enc"
    <3>1. SessionSound("enc") /\ sess'["enc"] = sess["enc"] /\ tpm'["enc"] = tpm["enc"]
      BY <1>1 DEF Sound, Kinds
    <3> QED
      BY <2>1, <3>1 DEF SessionSound
  <2> QED
    BY <2>1 DEF Kinds
<1>8. (FirstSlot(slots[1]))'
  <2>1. FirstSlot(slots[1])
    BY DEF Sound
  <2>2. CASE slots[1].kind = "pol"
    <3>1. /\ slots'[1].kind = slots[1].kind /\ slots'[1].hash = slots[1].hash
          /\ slots'[1].attrs = slots[1].attrs /\ slots'[1].stale
      BY <1>3, <2>2
    <3> QED
      BY <2>1, <2>2, <3>1 DEF FirstSlot
  <2>3. CASE slots[1].kind # "pol"
    <3>1. slots'[1] = slots[1]
      BY <1>3, <2>3
    <3> QED
      BY <2>1, <2>3, <3>1 DEF FirstSlot, PasswordSlot
  <2> QED
    BY <2>2, <2>3
<1>9. (SecondSlot(slots[2]))'
  BY <1>1, <1>3 DEF Sound, SecondSlot, Filled
<1> QED
  BY <1>4, <1>5, <1>6, <1>7, <1>8, <1>9 DEF Sound

LEMMA PolicyAuthValueSound ==
    ASSUME Sound, NEW o \in Objects, wolfTPM2_PolicyAuthValue(o), FitsBehind(o) PROVE Sound'
<1> DEFINE r == [sess["pol"] EXCEPT !.auth = BehindKey(sess["pol"].auth, o), !.policyAuth = TRUE]
           m == [tpm["pol"] EXCEPT !.asserts = tpm["pol"].asserts \cup {"authvalue"}, !.plain = FALSE]
<1>0. "pol" \in Kinds
  BY DEF Kinds
<1>1. /\ IsSess(sess["pol"]) /\ IsTpm(tpm["pol"]) /\ SessionSound("pol")
      /\ sess["pol"].policyPass \in BOOLEAN /\ sess["pol"].open
      /\ "pol" \in DOMAIN sess /\ "pol" \in DOMAIN tpm
  BY <1>0 DEF Sound, Shape, wolfTPM2_PolicyAuthValue, Undecided
<1>2. /\ IsSess(r) /\ r.auth = BehindKey(sess["pol"].auth, o) /\ r.policyAuth = TRUE
      /\ r.policyPass = sess["pol"].policyPass
      /\ r.sym = sess["pol"].sym /\ r.bind = sess["pol"].bind /\ r.open = sess["pol"].open
  <2> DEFINE c == sess["pol"]
  <2>1. IsSess(c)
    BY <1>1
  <2> HIDE DEF c
  <2>2. IsSess(r)
    <3>1. r = [c EXCEPT !.auth = BehindKey(c.auth, o), !.policyAuth = TRUE]
      BY DEF c
    <3> HIDE DEF r
    <3> QED
      BY <2>1, <3>1 DEF IsSess
  <2> QED
    BY <2>1, <2>2 DEF IsSess, c
<1>3. /\ IsTpm(m) /\ m.key = tpm["pol"].key /\ m.open = tpm["pol"].open
      /\ "authvalue" \in m.asserts
  <2> DEFINE c == tpm["pol"]
  <2>1. IsTpm(c)
    BY <1>1
  <2> HIDE DEF c
  <2>2. IsTpm(m)
    <3>1. m = [c EXCEPT !.asserts = c.asserts \cup {"authvalue"}, !.plain = FALSE]
      BY DEF c
    <3> HIDE DEF m
    <3> QED
      BY <2>1, <3>1 DEF IsTpm
  <2> QED
    BY <2>1, <2>2 DEF IsTpm, c
<1>4. /\ sess' = [sess EXCEPT !["pol"] = r] /\ tpm' = [tpm EXCEPT !["pol"] = m]
      /\ slots' = Outdated(slots, "pol") /\ key' = key
  BY <1>1 DEF wolfTPM2_PolicyAuthValue
<1> HIDE DEF r, m
<1>5. sess'["pol"] = r /\ tpm'["pol"] = m
  BY <1>1, <1>4
<1>6. Size(r.auth) =< AuthMax /\ r.auth # <<>> /\ r.auth[1].n = 32
      /\ (sess["pol"].auth = <<>> \/ sess["pol"].auth[1].n = 32 =>
             BaseOf(r.auth) = BaseOf(sess["pol"].auth))
  BY <1>2, Behind
<1>7. (SessionSound("pol"))'
  BY <1>1, <1>2, <1>3, <1>5, <1>6 DEF SessionSound
<1> QED
  BY <1>1, <1>2, <1>3, <1>4, <1>6, <1>7, PolicySet

LEMMA PolicyPasswordSound ==
    ASSUME Sound, NEW o \in Objects, wolfTPM2_PolicyPassword(o) PROVE Sound'
<1> DEFINE r == [sess["pol"] EXCEPT !.auth = AuthOf(o), !.policyPass = TRUE]
           m == [tpm["pol"] EXCEPT !.asserts = tpm["pol"].asserts \cup {"authvalue"}, !.plain = TRUE]
<1>0. "pol" \in Kinds
  BY DEF Kinds
<1>1. /\ IsSess(sess["pol"]) /\ IsTpm(tpm["pol"]) /\ SessionSound("pol")
      /\ sess["pol"].policyAuth \in BOOLEAN /\ sess["pol"].open
      /\ "pol" \in DOMAIN sess /\ "pol" \in DOMAIN tpm
  BY <1>0 DEF Sound, Shape, wolfTPM2_PolicyPassword, Undecided
<1>2. /\ IsSess(r) /\ r.auth = AuthOf(o) /\ r.policyAuth = sess["pol"].policyAuth
      /\ r.policyPass = TRUE
      /\ r.sym = sess["pol"].sym /\ r.bind = sess["pol"].bind /\ r.open = sess["pol"].open
  <2> DEFINE c == sess["pol"]
  <2>1. IsSess(c)
    BY <1>1
  <2> HIDE DEF c
  <2>2. IsSess(r)
    <3>1. r = [c EXCEPT !.auth = AuthOf(o), !.policyPass = TRUE]
      BY DEF c
    <3> HIDE DEF r
    <3> QED
      BY <2>1, <3>1 DEF IsSess
  <2> QED
    BY <2>1, <2>2 DEF IsSess, c
<1>3. /\ IsTpm(m) /\ m.key = tpm["pol"].key /\ m.open = tpm["pol"].open
      /\ "authvalue" \in m.asserts
  <2> DEFINE c == tpm["pol"]
  <2>1. IsTpm(c)
    BY <1>1
  <2> HIDE DEF c
  <2>2. IsTpm(m)
    <3>1. m = [c EXCEPT !.asserts = c.asserts \cup {"authvalue"}, !.plain = TRUE]
      BY DEF c
    <3> HIDE DEF m
    <3> QED
      BY <2>1, <3>1 DEF IsTpm
  <2> QED
    BY <2>1, <2>2 DEF IsTpm, c
<1>4. /\ sess' = [sess EXCEPT !["pol"] = r] /\ tpm' = [tpm EXCEPT !["pol"] = m]
      /\ slots' = Outdated(slots, "pol") /\ key' = key
  BY <1>1 DEF wolfTPM2_PolicyPassword
<1> HIDE DEF r, m
<1>5. sess'["pol"] = r /\ tpm'["pol"] = m
  BY <1>1, <1>4
<1>6. Size(r.auth) =< AuthMax
  BY <1>2, EmptySizes
<1>7. (SessionSound("pol"))'
  BY <1>1, <1>2, <1>3, <1>5 DEF SessionSound
<1> QED
  BY <1>1, <1>2, <1>3, <1>4, <1>6, <1>7, PolicySet

LEMMA PolicyOtherSound ==
    ASSUME Sound, PolicyOther PROVE Sound'
<1> DEFINE m == [tpm["pol"] EXCEPT !.asserts = tpm["pol"].asserts \cup {"other"}]
<1>1. "pol" \in Kinds /\ "pol" \in DOMAIN tpm /\ IsTpm(tpm["pol"])
  BY DEF Sound, Shape, Kinds
<1>2. IsTpm(m) /\ m.key = tpm["pol"].key /\ m.open = tpm["pol"].open
      /\ tpm["pol"].asserts \subseteq m.asserts
  <2> DEFINE c == tpm["pol"]
  <2>1. IsTpm(c)
    BY <1>1
  <2> HIDE DEF c
  <2>2. IsTpm(m)
    BY <2>1 DEF IsTpm, c
  <2> QED
    BY <2>1, <2>2 DEF IsTpm, c
<1>3. tpm' = [tpm EXCEPT !["pol"] = m] /\ UNCHANGED <<key, sess, slots>>
  BY <1>1 DEF PolicyOther
<1> HIDE DEF m
<1>4. /\ tpm' = [s \in Kinds |-> tpm'[s]] /\ tpm'["pol"] = m
      /\ \A s \in Kinds : s # "pol" => tpm'[s] = tpm[s]
  BY <1>1, <1>3 DEF Sound, Shape
<1>5. \A s \in Kinds : tpm'[s].key = tpm[s].key /\ tpm'[s].open = tpm[s].open
                       /\ IsTpm(tpm'[s]) /\ tpm[s].asserts \subseteq tpm'[s].asserts
  BY <1>1, <1>2, <1>4 DEF Sound, Shape
<1>6. TypeOK'
  BY <1>3, <1>5 DEF Sound, TypeOK
<1>7. Shape'
  BY <1>3, <1>4, <1>5 DEF Sound, Shape
<1>8. KeyKept'
  BY <1>3 DEF Sound, KeyKept
<1>9. ASSUME NEW s \in Kinds PROVE SessionSound(s)'
  BY <1>3, <1>5 DEF Sound, SessionSound
<1>10. (FirstSlot(slots[1]))' /\ (SecondSlot(slots[2]))'
  BY <1>3 DEF Sound, FirstSlot, SecondSlot, PasswordSlot, PolicySlot, PolicyUse, Filled
<1> QED
  BY <1>6, <1>7, <1>8, <1>9, <1>10 DEF Sound

LEMMA StartSound ==
    ASSUME Sound, NEW a \in Starts, NEW z \in 0 .. 1,
           StartSession(a.kind, a.salted, a.bind, a.sym, z)
    PROVE  Sound'
<1>1. PICK s \in Kinds, salted \in BOOLEAN, bind \in Objects \cup {NoBind},
           sym \in {"NULL", "XOR", "CFB"} : StartSession(s, salted, bind, sym, z)
  BY StartAssumption
<1> DEFINE k      == IF salted THEN key ELSE NoTemplate
           salt   == wolfTPM2_EncryptSecret(k, 32, z, "SECRET")
           theirs == TpmSecret(k, salt.secret, "SECRET")
           in     == KeyIn(AuthOf(bind), salt.data)
           u      == <<"tpm", s>>
           v      == <<"caller", s>>
           ours   == IF in = <<>> THEN <<>> ELSE TPM2_KDFa(WrapDigest, in, "ATH", u, v, 32)
           tkey   == IF ~salted /\ bind = NoBind THEN <<>>
                     ELSE TpmKDFa(WrapDigest, AuthOf(bind) \o theirs.data, "ATH", u, v, 32)
           before == KeySlot(IF salted THEN "obj" ELSE "pw", <<>>, "")
           rs == IF Size(in) > DataMax THEN NoSess
                 ELSE [NoSess EXCEPT !.open = TRUE, !.auth = ours, !.sym = sym, !.bind = bind]
           rt == [NoTpm EXCEPT !.open = TRUE, !.key = tkey]
<1>2. /\ ~tpm[s].open /\ (salted => key # NoTemplate) /\ key' = key
      /\ slots' = Outdated([slots EXCEPT ![1] = before], s)
      /\ \/ /\ salt.ok /\ theirs.ok
            /\ tpm' = [tpm EXCEPT ![s] = rt] /\ sess' = [sess EXCEPT ![s] = rs]
         \/ tpm' = tpm /\ sess' = [sess EXCEPT ![s] = NoSess]
  BY <1>1 DEF StartSession, AthNonces
<1>3. ASSUME salt.ok
      PROVE  /\ ours = <<>> \/ IsKey(ours)
             /\ tkey = <<>> \/ IsKey(tkey)
             /\ bind = NoBind \/ bind.size > 0 \/ ours # <<>> => ours = tkey
  <2> DEFINE data == theirs.data
  <2>0. /\ z \in Nat /\ salt = wolfTPM2_EncryptSecret(k, 32, z, "SECRET")
        /\ data = TpmSecret(k, salt.secret, "SECRET").data
        /\ in = KeyIn(AuthOf(bind), salt.data) /\ (k = NoTemplate \/ k = key)
        /\ ours = (IF in = <<>> THEN <<>> ELSE TPM2_KDFa(WrapDigest, in, "ATH", u, v, 32))
    OBVIOUS
  <2>10. tkey = IF k = NoTemplate /\ bind = NoBind THEN <<>>
               ELSE TpmKDFa(WrapDigest, AuthOf(bind) \o data, "ATH", u, v, 32)
    <3>1. k = NoTemplate <=> ~salted
      BY <1>2
    <3> HIDE DEF k, u, v, salt, theirs, in
    <3> QED
      BY <3>1
  <2> HIDE DEF k, salt, theirs, data, in, u, v, ours, tkey
  <2>1. TPM2_GetHashDigestSize(WrapDigest) # 0
    BY DEF TPM2_GetHashDigestSize, WrapDigest
  <2>2. ASSUME NEW b
        PROVE  /\ TPM2_KDFa(WrapDigest, b, "ATH", u, v, 32) = TpmKDFa(WrapDigest, b, "ATH", u, v, 32)
               /\ IsKey(TpmKDFa(WrapDigest, b, "ATH", u, v, 32))
    <3>1. /\ TPM2_KDFa(WrapDigest, b, "ATH", u, v, 32) = TpmKDFa(WrapDigest, b, "ATH", u, v, 32)
          /\ IsDerived(TpmKDFa(WrapDigest, b, "ATH", u, v, 32), "kdfa", 32)
      BY <2>1, KdfAgrees
    <3>2. \A r : IsDerived(r, "kdfa", 32) => IsKey(r)
      BY DEF IsDerived, IsKey
    <3> QED
      BY <3>1, <3>2
  <2>3. salt.data = data /\ (k # NoTemplate => IsOne(data)) /\ (k = NoTemplate => data = <<>>)
    <3>1. CASE k # NoTemplate
      <4>1. k \in TemplateRecords /\ TPM2_GetHashDigestSize(k.nameAlg) > 0
        BY <2>0, <3>1 DEF Sound, KeyKept
      <4> QED
        BY <1>3, <2>0, <3>1, <4>1, SecretAgrees DEF IsOne
    <3>2. CASE k = NoTemplate
      <4>1. k.type = "none"
        BY <3>2 DEF NoTemplate
      <4> QED
        BY <2>0, <3>2, <4>1 DEF wolfTPM2_EncryptSecret, TpmSecret
    <3> QED
      BY <3>1, <3>2
  <2>4. in = AuthOf(bind) \o data
    BY <2>0, <2>3 DEF KeyIn
  <2>5. /\ bind = NoBind => AuthOf(bind) = <<>>
        /\ AuthOf(bind) = <<>> \/ \E p : AuthOf(bind) = <<p>>
        /\ bind.size > 0 => AuthOf(bind) # <<>>
    <3>1. NoBind.size = 0
      BY DEF NoBind
    <3>2. bind.size = 0 \/ bind.size > 0
      BY Auths
    <3> QED
      BY <3>1, <3>2, Auths
  <2>6. in = <<>> <=> k = NoTemplate /\ AuthOf(bind) = <<>>
    <3>1. CASE k # NoTemplate
      <4>1. PICK p : data = <<p>>
        BY <2>3, <3>1 DEF IsOne
      <4>2. CASE AuthOf(bind) = <<>>
        <5>1. in = <<p>>
          BY <2>4, <4>1, <4>2, Pieces
        <5>2. in # <<>>
          BY <5>1, Pieces
        <5> QED
          BY <3>1, <5>2
      <4>3. CASE \E q : AuthOf(bind) = <<q>>
        BY <2>4, <3>1, <4>1, <4>3, Pieces
      <4> QED
        BY <2>5, <4>2, <4>3
    <3>2. CASE k = NoTemplate
      <4>1. data = <<>>
        BY <2>3, <3>2
      <4> QED
        BY <2>4, <2>5, <3>2, <4>1, Pieces
    <3> QED
      BY <3>1, <3>2
  <2>7. ours = <<>> \/ IsKey(ours)
    BY <2>0, <2>2
  <2>8. tkey = <<>> \/ IsKey(tkey)
    BY <2>2, <2>10
  <2>9. ASSUME bind = NoBind \/ bind.size > 0 \/ ours # <<>> PROVE ours = tkey
    BY <2>0, <2>2, <2>4, <2>5, <2>6, <2>9, <2>10
  <2> QED
    BY <2>7, <2>8, <2>9
<1> HIDE DEF k, salt, theirs, in, u, v, ours, tkey
<1>4. /\ IsSess(NoSess) /\ NoSess.open = FALSE /\ NoSess.auth = <<>> /\ NoSess.sym = "NULL"
      /\ NoSess.bind = NoBind /\ NoSess.policyAuth = FALSE /\ NoSess.policyPass = FALSE
  BY DEF IsSess, NoSess
<1>5. rs = NoSess \/ (/\ IsSess(rs) /\ rs.open = TRUE /\ rs.auth = ours /\ rs.sym = sym
                      /\ rs.bind = bind /\ rs.policyAuth = FALSE /\ rs.policyPass = FALSE)
  <2> DEFINE c == NoSess
             w == [c EXCEPT !.open = TRUE, !.auth = ours, !.sym = sym, !.bind = bind]
  <2>1. rs = NoSess \/ rs = w
    OBVIOUS
  <2>2. IsSess(c) /\ c.policyAuth = FALSE /\ c.policyPass = FALSE
    BY <1>4
  <2> HIDE DEF c
  <2>3. /\ IsSess(w) /\ w.open = TRUE /\ w.auth = ours /\ w.sym = sym
        /\ w.bind = bind /\ w.policyAuth = FALSE /\ w.policyPass = FALSE
    <3>1. IsSess(w)
      <4>1. w = [c EXCEPT !.open = TRUE, !.auth = ours, !.sym = sym, !.bind = bind]
        OBVIOUS
      <4> HIDE DEF w
      <4> QED
        BY <2>2, <4>1 DEF IsSess
    <3> QED
      BY <2>2, <3>1 DEF IsSess
  <2> HIDE DEF w, rs
  <2> QED
    BY <2>1, <2>3
<1>6. IsTpm(rt) /\ rt.open = TRUE /\ rt.key = tkey /\ rt.asserts = {}
  <2> DEFINE c == NoTpm
             w == [c EXCEPT !.open = TRUE, !.key = tkey]
  <2>1. IsTpm(c) /\ c.asserts = {}
    BY DEF IsTpm, NoTpm
  <2>2. rt = w
    OBVIOUS
  <2> HIDE DEF c
  <2>3. IsTpm(w) /\ w.open = TRUE /\ w.key = tkey /\ w.asserts = {}
    <3>1. IsTpm(w)
      <4>1. w = [c EXCEPT !.open = TRUE, !.key = tkey]
        OBVIOUS
      <4> HIDE DEF w
      <4> QED
        BY <2>1, <4>1 DEF IsTpm
    <3> QED
      BY <2>1, <3>1 DEF IsTpm
  <2> HIDE DEF w, rt
  <2> QED
    BY <2>2, <2>3
<1>7. /\ IsSlot(before) /\ before.kind \in {"obj", "pw"} /\ before.auth = <<>>
      /\ before.hash = "none" /\ before.user = "none"
  BY DEF KeySlot, IsSlot
<1> HIDE DEF before, rs, rt
<1>8. /\ \A x \in Kinds : x # s => sess'[x] = sess[x] /\ tpm'[x] = tpm[x]
      /\ sess' = [x \in Kinds |-> sess'[x]] /\ tpm' = [x \in Kinds |-> tpm'[x]]
      /\ \/ salt.ok /\ tpm'[s] = rt /\ sess'[s] = rs
         \/ tpm'[s] = tpm[s] /\ sess'[s] = NoSess
  BY <1>2 DEF Sound, Shape
<1>9. /\ IsSess(sess'[s]) /\ IsTpm(tpm'[s])
      /\ sess'[s].policyAuth = FALSE /\ sess'[s].policyPass = FALSE
      /\ sess'[s].sym \in {"NULL", "XOR", "CFB"} /\ sess'[s].bind \in Objects \cup {NoBind}
      /\ sess'[s].auth = <<>> \/ IsKey(sess'[s].auth)
      /\ tpm'[s].key = <<>> \/ IsKey(tpm'[s].key)
      /\ sess'[s].open => tpm'[s].open
      /\ sess'[s].open /\ (sess'[s].bind = NoBind \/ sess'[s].bind.size > 0 \/ sess'[s].auth # <<>>)
            => sess'[s].auth = tpm'[s].key
  <2>1. IsTpm(tpm[s]) /\ (tpm[s].key = <<>> \/ IsKey(tpm[s].key))
    BY DEF Sound, Shape, SessionSound
  <2>2. CASE salt.ok /\ tpm'[s] = rt /\ sess'[s] = rs
    BY <1>1, <1>3, <1>4, <1>5, <1>6, <2>2
  <2>3. CASE tpm'[s] = tpm[s] /\ sess'[s] = NoSess
    BY <1>4, <2>1, <2>3
  <2> QED
    BY <1>8, <2>2, <2>3
<1>10. SessionSound(s)'
  <2>1. ASSUME NEW b, b = <<>> \/ IsKey(b) PROVE HmacKey(BaseOf(b)) = b
    <3>1. CASE b = <<>>
      BY <3>1, Keys DEF BaseOf
    <3>2. CASE IsKey(b)
      <4>0. \A p : <<p>> # <<>>
        OBVIOUS
      <4>1. b # <<>> /\ b = <<b[1]>> /\ b[1].v # <<"zeros">>
        <5>1. b = <<b[1]>> /\ b[1].v # <<"zeros">>
          BY <3>2 DEF IsKey
        <5> DEFINE p == b[1]
        <5>2. b = <<p>>
          BY <5>1
        <5> HIDE DEF p
        <5> QED
          BY <4>0, <5>1, <5>2
      <4> QED
        BY <4>1, Keys DEF BaseOf
    <3> QED
      BY <2>1, <3>1, <3>2
  <2>2. sess'[s].auth = <<>> \/ sess'[s].auth[1].n = 32
    BY <1>9 DEF IsKey
  <2> QED
    BY <1>9, <2>1, <2>2 DEF SessionSound
<1>11. ASSUME NEW x \in Kinds PROVE SessionSound(x)'
  <2>1. CASE x # s
    <3>1. SessionSound(x) /\ sess'[x] = sess[x] /\ tpm'[x] = tpm[x]
      BY <1>8, <2>1 DEF Sound
    <3> QED
      BY <3>1 DEF SessionSound
  <2> QED
    BY <1>10, <2>1
<1>12. /\ IsSlot(slots'[1]) /\ slots'[1].kind \in {"obj", "pw"} /\ slots'[1].auth = <<>>
       /\ slots'[1].hash = "none" /\ slots'[1].user = "none"
       /\ IsSlot(slots'[2]) /\ slots'[2].kind = slots[2].kind /\ slots'[2].auth = slots[2].auth
       /\ slots'[2] = slots[2] \/ (slots[2].kind = s /\ slots'[2].stale)
       /\ slots'[2].kind = "enc" => /\ slots'[2].attrs = Both /\ slots'[2].hash = WrapDigest
                                     /\ ~slots'[2].policyAuth
       /\ slots' = <<slots'[1], slots'[2]>>
  <2> DEFINE g == [slots EXCEPT ![1] = before]
             f(i) == IF g[i].kind = s THEN [g[i] EXCEPT !.stale = TRUE] ELSE g[i]
  <2>1. g[1] = before /\ g[2] = slots[2]
    BY DEF Sound, Shape
  <2>2. slots' = [i \in 1 .. 2 |-> f(i)]
    BY <1>2 DEF Outdated
  <2>3. s # before.kind
    BY <1>7 DEF Kinds
  <2>4. f(1) = before /\ f(2) = IF slots[2].kind = s THEN [slots[2] EXCEPT !.stale = TRUE]
                                ELSE slots[2]
    BY <2>1, <2>3
  <2> HIDE DEF f, g
  <2>5. slots' = <<slots'[1], slots'[2]>> /\ slots'[1] = f(1) /\ slots'[2] = f(2)
    BY <2>2
  <2>6. IsSlot(slots[2]) /\ SecondSlot(slots[2])
    BY DEF Sound, Shape
  <2>7. CASE slots[2].kind = s
    <3>1. slots'[2] = [slots[2] EXCEPT !.stale = TRUE]
      BY <2>4, <2>5, <2>7
    <3>2. /\ IsSlot(slots'[2]) /\ slots'[2].kind = slots[2].kind
          /\ slots'[2].auth = slots[2].auth /\ slots'[2].stale
          /\ slots'[2].attrs = slots[2].attrs /\ slots'[2].hash = slots[2].hash
          /\ slots'[2].policyAuth = slots[2].policyAuth
      BY <2>6, <3>1 DEF IsSlot
    <3> QED
      BY <1>7, <2>4, <2>5, <2>6, <2>7, <3>2 DEF SecondSlot
  <2>8. CASE slots[2].kind # s
    <3>1. slots'[2] = slots[2]
      BY <2>4, <2>5, <2>8
    <3> QED
      BY <1>7, <2>4, <2>5, <2>6, <3>1 DEF SecondSlot
  <2> QED
    BY <2>7, <2>8
<1>13. TypeOK'
  <2>1. key = NoTemplate \/ key.type \in {"RSA", "ECC", "SYMCIPHER", "KEYEDHASH"}
    BY DEF Sound, TypeOK
  <2>2. ASSUME NEW x \in Kinds
        PROVE  Size(sess'[x].auth) =< AuthMax /\ Size(tpm'[x].key) \in {0, 32}
    <3>1. CASE x = s
      BY <1>9, <3>1, EmptySizes
    <3>2. CASE x # s
      BY <1>8, <3>2 DEF Sound, TypeOK
    <3> QED
      BY <3>1, <3>2
  <2>3. slots[2].kind \in {"none", "enc"} /\ Size(slots[2].auth) =< AuthMax
    BY DEF Sound, TypeOK, SecondSlot
  <2>4. ASSUME NEW i \in 1 .. 2
        PROVE  /\ slots'[i].kind \in {"none", "pw", "pol", "enc", "obj"}
               /\ Size(slots'[i].auth) =< AuthMax
    <3>1. CASE i = 1
      BY <1>12, <3>1, EmptySizes
    <3>2. CASE i = 2
      BY <1>12, <2>3, <3>2
    <3> QED
      BY <3>1, <3>2
  <2> QED
    BY <1>2, <2>1, <2>2, <2>4 DEF TypeOK
<1>14. Shape'
  <2>1. ASSUME NEW x \in Kinds
        PROVE  /\ IsSess(sess'[x]) /\ IsTpm(tpm'[x])
               /\ sess'[x].policyAuth \in BOOLEAN /\ sess'[x].policyPass \in BOOLEAN
               /\ sess'[x].sym \in {"NULL", "XOR", "CFB"}
               /\ sess'[x].bind \in Objects \cup {NoBind}
    <3>1. CASE x = s
      BY <1>9, <3>1
    <3>2. CASE x # s
      BY <1>8, <3>2 DEF Sound, Shape
    <3> QED
      BY <3>1, <3>2
  <2>2. \A i \in 1 .. 2 : IsSlot(slots'[i])
    BY <1>12
  <2> QED
    BY <1>8, <1>12, <2>1, <2>2 DEF Shape
<1>15. KeyKept'
  BY <1>2 DEF Sound, KeyKept
<1>16. (FirstSlot(slots[1]))'
  BY <1>12 DEF FirstSlot, PasswordSlot
<1>17. (SecondSlot(slots[2]))'
  <2>1. SecondSlot(slots[2])
    BY DEF Sound
  <2>2. CASE slots'[2].stale
    BY <1>12, <2>1, <2>2 DEF SecondSlot
  <2>3. CASE ~slots'[2].stale /\ slots[2].kind = "enc" /\ s = "pol"
    <3>1. slots'[2] = slots[2] /\ sess'["enc"] = sess["enc"]
      BY <1>8, <1>12, <2>3 DEF Kinds
    <3> QED
      BY <2>1, <3>1 DEF SecondSlot, Filled
  <2>4. CASE ~slots'[2].stale /\ slots[2].kind = "enc" /\ s = "enc"
    <3>1. slots'[2] = slots[2] /\ ~slots[2].stale /\ sess["enc"].open
      BY <1>12, <2>1, <2>4 DEF SecondSlot, Filled
    <3>2. SessionSound("enc")
      BY <2>4 DEF Sound
    <3> QED
      BY <1>2, <2>4, <3>1, <3>2 DEF SessionSound
  <2>5. CASE slots[2].kind = "none"
    BY <1>12, <2>5 DEF SecondSlot
  <2> QED
    BY <1>1, <2>1, <2>2, <2>3, <2>4, <2>5 DEF SecondSlot, Kinds
<1> QED
  BY <1>11, <1>13, <1>14, <1>15, <1>16, <1>17 DEF Sound

LEMMA Unchanged ==
    ASSUME Sound, UNCHANGED <<key, sess, tpm, slots>> PROVE Sound'
<1>1. TypeOK' /\ Shape' /\ KeyKept'
  BY DEF Sound, TypeOK, Shape, KeyKept
<1>2. ASSUME NEW s \in Kinds PROVE SessionSound(s)'
  BY DEF Sound, SessionSound
<1>3. (FirstSlot(slots[1]))'
  BY DEF Sound, FirstSlot, PasswordSlot, PolicySlot, PolicyUse, Filled
<1>4. (SecondSlot(slots[2]))'
  BY DEF Sound, SecondSlot, Filled
<1> QED
  BY <1>1, <1>2, <1>3, <1>4 DEF Sound

LEMMA StepSound ==
    ASSUME Sound, [Next]_vars PROVE Sound'
<1>1. ASSUME NEW t \in Templates, CreatePrimary(t) PROVE Sound'
  BY <1>1, CreateSound
<1>2. ASSUME NEW a \in Starts, NEW z \in 0 .. 1,
             StartSession(a.kind, a.salted, a.bind, a.sym, z)
      PROVE  Sound'
  BY <1>2, StartSound
<1>3. ASSUME NEW o \in Objects, wolfTPM2_PolicyAuthValue(o) PROVE Sound'
  <2>1. CASE FitsBehind(o)
    BY <1>3, <2>1, PolicyAuthValueSound
  <2>2. CASE ~FitsBehind(o)
    BY <1>3, <2>2, Unchanged DEF wolfTPM2_PolicyAuthValue
  <2> QED
    BY <2>1, <2>2
<1>4. ASSUME NEW o \in Objects, wolfTPM2_PolicyPassword(o) PROVE Sound'
  BY <1>4, PolicyPasswordSound
<1>5. ASSUME PolicyOther PROVE Sound'
  BY <1>5, PolicyOtherSound
<1>6. ASSUME NEW attrs \in {{}, Both}, wolfTPM2_SetAuthSession(1, "pol", attrs) PROVE Sound'
  BY <1>6, SetSessionSound
<1>7. ASSUME wolfTPM2_SetAuthSession(2, "enc", Both) PROVE Sound'
  BY <1>7, SetSessionSound
<1>8. ASSUME NEW o \in Objects, wolfTPM2_SetAuthHandle(1, o) PROVE Sound'
  BY <1>8, SetHandleSound
<1>9. ASSUME NEW o \in Objects, wolfTPM2_SetAuthHandleName(1, o) PROVE Sound'
  BY <1>9, SetNameSound
<1>10. ASSUME NEW i \in 1 .. 2, wolfTPM2_UnsetAuth(i) PROVE Sound'
  BY <1>10, UnsetSound
<1>11. ASSUME NEW o \in Objects, NEW f, Command(o, f) PROVE Sound'
  <2>1. UNCHANGED <<key, sess, tpm, slots>>
    BY <1>11 DEF Command
  <2> QED
    BY <2>1, Unchanged
<1>12. ASSUME NEW nameAlg, NEW z, ImportPrivateKey(nameAlg, z) PROVE Sound'
  <2> DEFINE slot == KeySlot("pw", <<>>, "key")
  <2>1. slots' = [slots EXCEPT ![1] = slot] /\ UNCHANGED <<key, sess, tpm>>
    BY <1>12 DEF ImportPrivateKey
  <2> QED
    BY <2>1, PasswordSound
<1>13. CASE UNCHANGED vars
  BY <1>13, Unchanged DEF vars
<1> QED
  BY <1>1, <1>2, <1>3, <1>4, <1>5, <1>6, <1>7, <1>8, <1>9, <1>10, <1>11, <1>12, <1>13 DEF Next

\* A key for a private key to be imported under: the import is accepted.
LEMMA ImportStep ==
    ASSUME Sound, NEW nameAlg, NEW z \in 0 .. 1, ImportPrivateKey(nameAlg, z), last'.meant
    PROVE  last'.ok
<1> DEFINE seed   == wolfTPM2_EncryptSecret(key, 0, z, "DUPLICATE")
           theirs == TpmSecret(key, seed.secret, "DUPLICATE")
           both   == SensitiveToPrivate(key, nameAlg, seed.data)
                     = TpmDuplicate(key, nameAlg, theirs.data)
<1>1. /\ key # NoTemplate /\ seed.ok /\ IsParent(key.attrs)
      /\ last'.ok = (seed.ok /\ theirs.ok /\ IsParent(key.attrs) /\ both)
  BY DEF ImportPrivateKey, Returns
<1>2. /\ key \in TemplateRecords /\ TPM2_GetHashDigestSize(key.nameAlg) > 0
      /\ key.type \in {"RSA", "ECC"} => key.sym > 0
      /\ "decrypt" \in key.attrs
  BY <1>1 DEF Sound, KeyKept, IsParent
<1>3. key.type \in {"ECC", "RSA"} /\ theirs.data = seed.data /\ theirs.ok
  <2>1. z \in Nat /\ 0 \in Nat
    OBVIOUS
  <2> QED
    BY <1>1, <1>2, <2>1, SecretAgrees
<1>4. PICK n \in {128, 192, 256} : n = key.sym
  BY <1>2, <1>3 DEF TemplateRecords
<1>5. (n + 7) \div 8 = n \div 8 /\ n \div 8 \in Nat \ {0}
  BY <1>4
<1>6. both
  <2> DEFINE h == key.nameAlg
             d == TPM2_GetHashDigestSize(h)
             s == seed.data
             m == n \div 8
  <2>1. d # 0 /\ d \in Nat \ {0} /\ m \in Nat \ {0}
    BY <1>2, <1>5 DEF TPM2_GetHashDigestSize
  <2>2. ASSUME NEW x \in Nat \ {0}, NEW label, NEW u
        PROVE  TPM2_KDFa(h, s, label, u, <<>>, x) = TpmKDFa(h, s, label, u, <<>>, x)
    BY <2>1, KdfAgrees
  <2>3. SensitiveToPrivate(key, nameAlg, s) =
          [crypt |-> TPM2_KDFa(h, s, "STORAGE", NameOf(nameAlg), <<>>, m), size |-> d,
           hmac |-> <<h, TPM2_KDFa(h, s, "INTEGRITY", <<>>, <<>>, d),
                      TPM2_KDFa(h, s, "STORAGE", NameOf(nameAlg), <<>>, m), NameOf(nameAlg)>>]
    <3>1. (key.sym + 7) \div 8 = m
      BY <1>4, <1>5
    <3> HIDE DEF m, s
    <3> QED
      BY <3>1 DEF SensitiveToPrivate, WrapHash
  <2>4. TpmDuplicate(key, nameAlg, s) =
          [crypt |-> TpmKDFa(h, s, "STORAGE", NameOf(nameAlg), <<>>, m), size |-> d,
           hmac |-> <<h, TpmKDFa(h, s, "INTEGRITY", <<>>, <<>>, d),
                      TpmKDFa(h, s, "STORAGE", NameOf(nameAlg), <<>>, m), NameOf(nameAlg)>>]
    <3>1. key.sym \div 8 = m
      BY <1>4
    <3> HIDE DEF m, s
    <3> QED
      BY <3>1 DEF TpmDuplicate
  <2> HIDE DEF d, s, m
  <2>5. /\ TPM2_KDFa(h, s, "STORAGE", NameOf(nameAlg), <<>>, m) =
              TpmKDFa(h, s, "STORAGE", NameOf(nameAlg), <<>>, m)
        /\ TPM2_KDFa(h, s, "INTEGRITY", <<>>, <<>>, d) = TpmKDFa(h, s, "INTEGRITY", <<>>, <<>>, d)
    BY <2>1, <2>2
  <2>6. SensitiveToPrivate(key, nameAlg, s) = TpmDuplicate(key, nameAlg, s)
    BY <2>3, <2>4, <2>5
  <2> HIDE DEF seed, theirs
  <2> QED
    BY <1>3, <2>6 DEF s
<1> QED
  BY <1>1, <1>3, <1>6

-----------------------------------------------------------------------------
(* A command used as it is meant.                                          *)

\* TPM2_GetCmdAuthCount of a command that authorises its first handle: the
\* slot of the handle and, when a parameter can be encrypted, the session
\* behind it.
LEMMA CountOfTwo ==
    ASSUME NEW flags, "USER1" \in flags, "USER2" \notin flags,
           NEW s, Len(s) = 2, s[1] \in {"pw", "pol"}, s[2] \in {"none", "enc"}
    PROVE  AuthCount(flags, s) =
              IF s[2] = "enc" /\ flags \cap {"ENC2", "DEC2"} # {} THEN 2 ELSE 1
<1> DEFINE Req(i) == \/ i = 1 /\ flags \cap {"USER1", "ADMIN", "DUP"} # {}
                     \/ i = 2 /\ "USER2" \in flags
           Next1(before, i) ==
              LET more == [before EXCEPT !.count = @ + 1]
              IN  CASE before.stop -> before
                    [] ~before.stop /\ s[i] = "pw" /\ Req(i) -> more
                    [] ~before.stop /\ s[i] = "enc" /\ before.count > 0 ->
                          IF flags \cap {"ENC2", "DEC2"} # {} THEN more ELSE before
                    [] ~before.stop /\ s[i] = "pol" /\ Req(i) -> more
                    [] OTHER -> [before EXCEPT !.stop = ~Req(i)]
           F(h) == [i \in 0 .. Len(s) |-> IF i = 0 THEN [count |-> 0, stop |-> FALSE]
                                         ELSE Next1(h[i - 1], i)]
           it == CHOOSE h : h = F(h)
           r0 == [count |-> 0, stop |-> FALSE]
           r1 == Next1(r0, 1)
           r2 == Next1(r1, 2)
           g == [i \in 0 .. Len(s) |-> IF i = 0 THEN r0 ELSE IF i = 1 THEN r1 ELSE r2]
<1>1. AuthCount(flags, s) = it[Len(s)].count
  BY DEF AuthCount
<1>2. g = F(g)
  <2> HIDE DEF Next1
  <2>1. g[0] = r0 /\ g[1] = r1 /\ g[2] = r2
    OBVIOUS
  <2>2. ASSUME NEW i \in 0 .. Len(s) PROVE F(g)[i] = g[i]
    <3>1. i = 0 \/ i = 1 \/ i = 2
      OBVIOUS
    <3> QED
      BY <2>1, <3>1
  <2>3. g = [i \in 0 .. Len(s) |-> g[i]] /\ F(g) = [i \in 0 .. Len(s) |-> F(g)[i]]
    OBVIOUS
  <2> HIDE DEF g, F
  <2> QED
    BY <2>2, <2>3
<1>3. it = F(it)
  <2> HIDE DEF F
  <2> QED
    BY <1>2
<1>4. it[2] = r2
  <2> HIDE DEF it, Next1
  <2>1. it[0] = r0
    BY <1>3
  <2>2. it[1] = r1
    <3>1. \A i \in 0 .. Len(s) : i # 0 => it[i] = Next1(it[i - 1], i)
      BY <1>3
    <3>2. 1 \in 0 .. Len(s) /\ 1 # 0 /\ 1 - 1 = 0
      OBVIOUS
    <3>3. it[1] = Next1(it[1 - 1], 1)
      BY <3>1, <3>2
    <3> QED
      BY <2>1, <3>2, <3>3
  <2>3. it[2] = Next1(it[1], 2)
    BY <1>3
  <2> QED
    BY <2>2, <2>3
<1>5. r1 = [r0 EXCEPT !.count = @ + 1]
  <2>1. Req(1) /\ ~r0.stop
    OBVIOUS
  <2> HIDE DEF r0, Req
  <2>2. CASE s[1] = "pw"
    BY <2>1, <2>2
  <2>3. CASE s[1] = "pol"
    BY <2>1, <2>3
  <2> QED
    BY <2>2, <2>3
<1>6. r2.count = IF s[2] = "enc" /\ flags \cap {"ENC2", "DEC2"} # {} THEN 2 ELSE 1
  <2> DEFINE c == [r0 EXCEPT !.count = @ + 1]
  <2>1. r2 = Next1(c, 2)
    <3> HIDE DEF r1, Next1, c
    <3> QED
      BY <1>5 DEF c
  <2>2. c.count = 1 /\ ~c.stop /\ [c EXCEPT !.count = @ + 1].count = 2
        /\ \A x : [c EXCEPT !.stop = x].count = 1
    OBVIOUS
  <2> HIDE DEF c, r2
  <2> QED
    BY <2>1, <2>2
<1> HIDE DEF it, r2
<1> QED
  BY <1>1, <1>4, <1>6

\* What a command needs of the session in slot i: it is open, its key is the
\* TPM's for the HMAC and, if it encrypts, for parameters, and the
\* authorisation area has room for its answer.
Matched(i, o) ==
    LET slot == slots[i]
        t    == tpm[slot.kind]
    IN  /\ t.open /\ slot.hash = WrapDigest /\ slot.bind = NoBind
        /\ Size(slot.auth) \in 0 .. AuthMax
        /\ Size(CryptIn(slot)) \in 0 .. DataMax
        /\ HmacKey(slot.auth) =
              HmacKey(t.key \o (IF i = 1 /\ "authvalue" \in t.asserts THEN AuthOf(o) ELSE <<>>))
        /\ slot.attrs # {} =>
              slot.sym \in {"XOR", "CFB"} /\ HmacKey(CryptIn(slot)) = HmacKey(TpmIn(i, slot, o))
        /\ Foreseen(slot) = Written(slot) /\ Written(slot) \in Nat

\* A matched session has the parameter keys of the TPM.
LEMMA CryptsMatch ==
    ASSUME NEW i, NEW o, Matched(i, o), slots[i].attrs # {}
    PROVE  /\ TPM2_ParamEnc_CmdRequest(slots[i]) # <<>>
           /\ TPM2_ParamEnc_CmdRequest(slots[i])
                 = TpmCrypt(slots[i], TpmIn(i, slots[i], o), Caller(slots[i]), Tpm(slots[i]))
           /\ TPM2_ParamDec_CmdResponse(slots[i]) # <<>>
           /\ TPM2_ParamDec_CmdResponse(slots[i])
                 = TpmCrypt(slots[i], TpmIn(i, slots[i], o), Tpm(slots[i]), Caller(slots[i]))
<1> DEFINE slot == slots[i]
           in == TpmIn(i, slot, o)
<1>1. /\ slot.hash = WrapDigest /\ slot.sym \in {"XOR", "CFB"}
      /\ ~(Size(CryptIn(slot)) > DataMax) /\ HmacKey(CryptIn(slot)) = HmacKey(in)
  <2>1. /\ slot.hash = WrapDigest /\ slot.sym \in {"XOR", "CFB"}
        /\ Size(CryptIn(slot)) \in 0 .. DataMax /\ HmacKey(CryptIn(slot)) = HmacKey(in)
    BY DEF Matched
  <2> HIDE DEF slot, in
  <2>2. \A n \in 0 .. DataMax : ~(n > DataMax)
    BY DEF DataMax
  <2> QED
    BY <2>1, <2>2
<1>2. TPM2_GetHashDigestSize(WrapDigest) # 0 /\ ParamSize \in Nat \ {0} /\ 16 + 16 \in Nat \ {0}
  BY ParamAssumption DEF TPM2_GetHashDigestSize, WrapDigest
<1> HIDE DEF slot, in
<1>3. ASSUME NEW label, NEW u, NEW v, NEW n \in Nat \ {0}
      PROVE  /\ Crypt(slot, label, u, v, n) = TpmKDFa(WrapDigest, in, label, u, v, n)
             /\ TpmKDFa(WrapDigest, in, label, u, v, n) # <<>>
  <2>1. Crypt(slot, label, u, v, n) = TPM2_KDFa(WrapDigest, CryptIn(slot), label, u, v, n)
    BY <1>1 DEF Crypt
  <2>2. TPM2_KDFa(WrapDigest, CryptIn(slot), label, u, v, n) = TPM2_KDFa(WrapDigest, in, label, u, v, n)
    BY <1>1 DEF TPM2_KDFa
  <2>3. /\ TPM2_KDFa(WrapDigest, in, label, u, v, n) = TpmKDFa(WrapDigest, in, label, u, v, n)
        /\ IsDerived(TpmKDFa(WrapDigest, in, label, u, v, n), "kdfa", n)
    BY <1>2, KdfAgrees
  <2>4. TpmKDFa(WrapDigest, in, label, u, v, n) # <<>>
    BY <2>3, Pieces DEF IsDerived
  <2> QED
    BY <2>1, <2>2, <2>3, <2>4
<1>4. CASE slot.sym = "XOR"
  BY <1>2, <1>3, <1>4 DEF TPM2_ParamEnc_CmdRequest, TPM2_ParamDec_CmdResponse, TpmCrypt,
                          TPM2_ParamEnc_XOR, TPM2_ParamDec_XOR, slot, in
<1>5. CASE slot.sym = "CFB"
  BY <1>2, <1>3, <1>5 DEF TPM2_ParamEnc_CmdRequest, TPM2_ParamDec_CmdResponse, TpmCrypt,
                          TPM2_ParamEnc_AESCFB, TPM2_ParamDec_AESCFB, slot, in
<1> QED
  BY <1>1, <1>4, <1>5

\* A session key stays itself in an HMAC and before nothing.
LEMMA KeyAlone ==
    ASSUME NEW b, b = <<>> \/ IsKey(b)
    PROVE  /\ HmacKey(BaseOf(b)) = b /\ HmacKey(b) = b /\ b \o <<>> = b
           /\ Size(b) = 0 \/ Size(b) = 32
           /\ Size(BaseOf(b)) = 32
<1>1. CASE b = <<>>
  BY <1>1, Keys, Pieces, SmallSizes DEF BaseOf
<1>2. CASE IsKey(b)
  <2> DEFINE p == b[1]
  <2>1. b = <<p>> /\ p.v # <<"zeros">> /\ p.n = 32
    BY <1>2 DEF IsKey
  <2>2. BaseOf(b) = <<p>>
    BY <2>1, Pieces DEF BaseOf
  <2> HIDE DEF p
  <2>3. HmacKey(<<p>>) = <<p>> /\ <<p>> \o <<>> = <<p>> /\ Size(<<p>>) = 32
    BY <2>1, Keys, Pieces, SmallSizes
  <2> QED
    BY <2>1, <2>2, <2>3
<1> QED
  BY <1>1, <1>2

LEMMA EndsEmpty ==
    \A p, q : <<p, q>> \o <<>> = <<p, q>>
OBVIOUS

\* A session that was put on a slot without a value behind its key.
LEMMA RoomFor ==
    ASSUME NEW slot, slot.hash = WrapDigest, slot.kind # "pw",
           slot.policyAuth \/ Size(slot.auth) = 0 \/ Size(slot.auth) = 32
    PROVE  Foreseen(slot) = Written(slot) /\ Written(slot) = 32
BY DEF Foreseen, Written, TPM2_GetHashDigestSize, WrapDigest

LEMMA SecondMatched ==
    ASSUME Sound, NEW o \in Objects, NEW f, Meant(o, f), slots[2].kind = "enc"
    PROVE  Matched(2, o) /\ slots[2].attrs = Both
<1> DEFINE two == slots[2]
           a == sess["enc"].auth
           t == tpm["enc"]
<1>1. /\ ~two.stale /\ two.bind = NoBind /\ two.sym # "NULL" /\ two.kind = "enc"
  BY DEF Meant
<1>2. /\ two.attrs = Both /\ two.hash = WrapDigest /\ ~two.policyAuth /\ two.auth = a
      /\ sess["enc"].open /\ two.sym = sess["enc"].sym /\ sess["enc"].bind = NoBind
  BY <1>1 DEF Sound, SecondSlot, Filled
<1>3. SessionSound("enc") /\ sess["enc"].sym \in {"NULL", "XOR", "CFB"}
  BY DEF Sound, Shape, Kinds
<1>4. /\ t.open /\ (a = <<>> \/ IsKey(a)) /\ HmacKey(BaseOf(a)) = t.key
  BY <1>2, <1>3 DEF SessionSound
<1>5. /\ a = t.key /\ HmacKey(a) = a /\ a \o <<>> = a /\ (Size(a) = 0 \/ Size(a) = 32)
  BY <1>4, KeyAlone
<1>6. AuthOf(NoBind) = <<>>
  <2>1. NoBind.size = 0
    BY DEF NoBind
  <2> QED
    BY <2>1, Auths
<1>7. CryptIn(two) = a
  BY <1>1, <1>2, <1>5, <1>6 DEF CryptIn
<1>8. TpmIn(2, two, o) = a
  BY <1>1, <1>5 DEF TpmIn
<1>9. Foreseen(two) = Written(two) /\ Written(two) \in Nat
  BY <1>1, <1>2, <1>5, RoomFor
<1>10. Size(a) \in 0 .. AuthMax /\ Size(a) \in 0 .. DataMax
  BY <1>5 DEF AuthMax, DataMax
<1> HIDE DEF two, a, t
<1>11. Matched(2, o)
  <2>1. HmacKey(slots[2].auth) = HmacKey(tpm[slots[2].kind].key \o <<>>)
    BY <1>1, <1>2, <1>5 DEF two, t
  <2>2. slots[2].sym \in {"XOR", "CFB"}
    BY <1>1, <1>2, <1>3 DEF two
  <2>3. /\ tpm[slots[2].kind].open /\ slots[2].hash = WrapDigest /\ slots[2].bind = NoBind
        /\ Size(slots[2].auth) \in 0 .. AuthMax /\ Size(CryptIn(slots[2])) \in 0 .. DataMax
        /\ HmacKey(CryptIn(slots[2])) = HmacKey(TpmIn(2, slots[2], o))
        /\ Foreseen(slots[2]) = Written(slots[2]) /\ Written(slots[2]) \in Nat
    BY <1>1, <1>2, <1>4, <1>7, <1>8, <1>9, <1>10 DEF two, t
  <2> QED
    BY <2>1, <2>2, <2>3 DEF Matched
<1> QED
  BY <1>2, <1>11 DEF two

LEMMA FirstPassword ==
    ASSUME Sound, NEW o \in Objects, NEW f, Meant(o, f), slots[1].kind = "pw"
    PROVE  slots[1].auth = AuthOf(o) /\ slots[1].name = o.id
<1>1. slots[1].user = o.id /\ o.id # "none" /\ ~slots[1].stale
  BY ObjectAssumption DEF Meant
<1>2. PasswordSlot(slots[1])
  BY <1>1 DEF Sound, FirstSlot
<1>3. PICK p \in Objects : /\ slots[1].user = p.id /\ slots[1].name = p.id
                           /\ slots[1].auth = AuthOf(p)
  BY <1>1, <1>2 DEF PasswordSlot
<1>4. p = o
  BY <1>1, <1>3, ObjectAssumption
<1> QED
  BY <1>3, <1>4

LEMMA FirstMatched ==
    ASSUME Sound, NEW o \in Objects, NEW f, Meant(o, f), slots[1].kind = "pol"
    PROVE  Matched(1, o) /\ slots[1].name = o.id /\ slots[1].attrs \in {{}, Both} /\ Allows(o)
<1> DEFINE one == slots[1]
           a == sess["pol"].auth
           t == tpm["pol"]
           base == BaseOf(a)
<1>1. /\ one.kind = "pol" /\ one.user = o.id /\ ~one.stale /\ one.bind = NoBind
      /\ Allows(o) /\ (o.policy = "authvalue" <=> o.policyAuth /\ o.size > 0)
      /\ o.policy = "authvalue" => one.policyAuth /\ t.key # <<>>
      /\ ~one.policyPass /\ (one.policyAuth => o.policyAuth)
      /\ one.attrs # {} => one.sym # "NULL"
      /\ one.attrs # {} /\ o.size > 0 => o.policyAuth
  BY DEF Meant
<1>2. /\ one.attrs \in {{}, Both} /\ one.hash = WrapDigest
      /\ Filled(one, "pol") /\ PolicySlot(one)
  BY <1>1 DEF Sound, FirstSlot
<1>3. /\ sess["pol"].open /\ one.sym = sess["pol"].sym /\ sess["pol"].bind = NoBind
      /\ ~sess["pol"].policyPass
  BY <1>1, <1>2 DEF Filled
<1>4. SessionSound("pol") /\ sess["pol"].sym \in {"NULL", "XOR", "CFB"}
  BY DEF Sound, Shape, Kinds
<1>5. /\ t.open /\ HmacKey(base) = t.key /\ (t.key = <<>> \/ IsKey(t.key))
      /\ a = <<>> \/ a[1].n = 32
      /\ sess["pol"].policyAuth => "authvalue" \in t.asserts
      /\ ~sess["pol"].policyAuth => a = <<>> \/ IsKey(a)
  BY <1>3, <1>4 DEF SessionSound
<1>6. PolicyUse(one, o)
  <2>1. o.id # "none"
    BY ObjectAssumption
  <2>2. PICK p \in Objects : PolicyUse(one, p)
    BY <1>1, <1>2, <2>1 DEF PolicySlot
  <2>3. p = o
    BY <1>1, <2>2, ObjectAssumption DEF PolicyUse
  <2> QED
    BY <2>2, <2>3
<1>7. /\ one.name = o.id
      /\ one.policyAuth /\ o.policyAuth /\ (o.size > 0 \/ ~sess["pol"].policyAuth) =>
            one.auth = base \o AuthOf(o)
      /\ ~one.policyAuth => one.auth = a /\ ~sess["pol"].policyAuth
  BY <1>2, <1>6 DEF PolicySlot, PolicyUse
<1>8. /\ t.asserts = {o.policy} /\ o.policy \in {"authvalue", "other"}
  BY <1>1 DEF Allows
<1>9. AuthOf(NoBind) = <<>> /\ CryptIn(one) = one.auth \o <<>>
  <2>1. NoBind.size = 0
    BY DEF NoBind
  <2>2. AuthOf(NoBind) = <<>>
    BY <2>1, Auths
  <2> QED
    BY <1>1, <2>2 DEF CryptIn
<1>10. TpmIn(1, one, o) = t.key \o AuthOf(o)
  BY <1>1 DEF TpmIn
<1> HIDE DEF one, a, t, base
<1>11. /\ Size(one.auth) \in 0 .. AuthMax
       /\ one.auth \o <<>> = one.auth
       /\ HmacKey(one.auth) =
             HmacKey(t.key \o (IF "authvalue" \in t.asserts THEN AuthOf(o) ELSE <<>>))
       /\ one.attrs # {} => HmacKey(one.auth) = HmacKey(t.key \o AuthOf(o))
       /\ one.policyAuth \/ Size(one.auth) = 0 \/ Size(one.auth) = 32
  <2>1. CASE o.policy = "authvalue"
    <3> DEFINE q == [v |-> <<"auth", o.auth>>, n |-> o.size]
    <3>1. one.auth = base \o AuthOf(o) /\ AuthOf(o) = <<q>> /\ q.n = o.size
      BY <1>1, <1>7, <2>1, Auths
    <3>2. PICK p : base = <<p>> /\ p.n = 32
      BY <1>5, Pieces DEF BaseOf, base
    <3>3. base = t.key
      <4>1. CASE p.v = <<"zeros">>
        <5>1. HmacKey(<<p>>) = <<>>
          BY <4>1 DEF HmacKey, Last, Front
        <5> QED
          BY <1>1, <1>5, <2>1, <3>2, <5>1
      <4>2. CASE p.v # <<"zeros">>
        BY <1>5, <3>2, <4>2, Keys
      <4> QED
        BY <4>1, <4>2
    <3> HIDE DEF q
    <3>4. one.auth = <<p, q>> /\ Size(one.auth) = 32 + o.size
      <4>1. one.auth = <<p, q>>
        BY <3>1, <3>2, Pieces
      <4>2. p.n \in Int /\ q.n \in Int /\ p.n + q.n = 32 + o.size
        BY <3>1, <3>2, Auths
      <4>3. Size(<<p, q>>) = p.n + q.n
        BY <4>2, SmallSizes
      <4> QED
        BY <4>1, <4>2, <4>3
    <3>5. Size(one.auth) \in 0 .. AuthMax
      <4>1. Size(one.auth) =< AuthMax
        BY DEF Sound, TypeOK, one
      <4>2. o.size \in Nat
        BY Auths
      <4> QED
        BY <3>4, <4>1, <4>2 DEF AuthMax
    <3>6. one.auth \o <<>> = one.auth
      BY <3>4, EndsEmpty
    <3>7. one.auth = t.key \o AuthOf(o) /\ "authvalue" \in t.asserts /\ one.policyAuth
      BY <1>1, <1>8, <2>1, <3>1, <3>3
    <3> QED
      BY <3>5, <3>6, <3>7
  <2>2. CASE o.policy = "other"
    <3>1. /\ "authvalue" \notin t.asserts /\ ~sess["pol"].policyAuth /\ ~(o.policyAuth /\ o.size > 0)
      BY <1>1, <1>5, <1>8, <2>2
    <3>2. /\ a = <<>> \/ IsKey(a)
      BY <1>5, <3>1
    <3>3. /\ t.key = a /\ HmacKey(a) = a /\ a \o <<>> = a /\ HmacKey(base) = a
          /\ Size(a) = 0 \/ Size(a) = 32
          /\ Size(base) = 32
      BY <1>5, <3>2, KeyAlone DEF base
    <3>4. o.size = 0 \/ o.size > 0
      BY Auths
    <3>5. PICK p : base = <<p>>
      BY <3>2, Pieces DEF BaseOf, base
    <3>6. base \o <<>> = base
      BY <3>5, Pieces
    <3>7. CASE one.policyAuth
      <4>1. o.size = 0 /\ AuthOf(o) = <<>>
        BY <1>1, <3>1, <3>4, <3>7, Auths
      <4>2. one.auth = base
        BY <1>1, <1>7, <3>1, <3>6, <3>7, <4>1
      <4> QED
        BY <3>1, <3>3, <3>6, <3>7, <4>1, <4>2 DEF AuthMax
    <3>8. CASE ~one.policyAuth
      <4>1. one.auth = a
        BY <1>7, <3>8
      <4>2. one.attrs # {} => AuthOf(o) = <<>>
        BY <1>1, <3>1, <3>4, Auths
      <4>3. one.auth \o <<>> = one.auth /\ HmacKey(one.auth) = a /\ t.key \o <<>> = a
        BY <3>3, <4>1
      <4>4. ASSUME one.attrs # {} PROVE HmacKey(one.auth) = HmacKey(t.key \o AuthOf(o))
        BY <3>3, <4>2, <4>3, <4>4
      <4>5. Size(one.auth) \in 0 .. AuthMax /\ (Size(one.auth) = 0 \/ Size(one.auth) = 32)
        BY <3>3, <4>1 DEF AuthMax
      <4> QED
        BY <3>1, <3>3, <4>3, <4>4, <4>5
    <3> QED
      BY <3>7, <3>8
  <2> QED
    BY <1>8, <2>1, <2>2
<1>12. Foreseen(one) = Written(one) /\ Written(one) \in Nat
  BY <1>1, <1>2, <1>11, RoomFor
<1>13. Size(CryptIn(one)) \in 0 .. DataMax /\ CryptIn(one) = one.auth
  BY <1>9, <1>11 DEF AuthMax, DataMax
<1>14. Matched(1, o)
  <2>1. slots[1].attrs # {} =>
           slots[1].sym \in {"XOR", "CFB"} /\ HmacKey(CryptIn(slots[1])) = HmacKey(TpmIn(1, slots[1], o))
    BY <1>1, <1>3, <1>4, <1>10, <1>11, <1>13 DEF one
  <2>2. HmacKey(slots[1].auth) =
           HmacKey(tpm[slots[1].kind].key \o
                   (IF 1 = 1 /\ "authvalue" \in tpm[slots[1].kind].asserts THEN AuthOf(o) ELSE <<>>))
    BY <1>1, <1>11 DEF one, t
  <2>3. /\ tpm[slots[1].kind].open /\ slots[1].hash = WrapDigest /\ slots[1].bind = NoBind
        /\ Size(slots[1].auth) \in 0 .. AuthMax /\ Size(CryptIn(slots[1])) \in 0 .. DataMax
        /\ Foreseen(slots[1]) = Written(slots[1]) /\ Written(slots[1]) \in Nat
    BY <1>1, <1>2, <1>5, <1>11, <1>12, <1>13 DEF one, t
  <2> QED
    BY <2>1, <2>2, <2>3 DEF Matched
<1> QED
  BY <1>1, <1>2, <1>7, <1>14 DEF one

\* The flags of the commands that are sent.
Flags == {{}, {"DEC2"}, {"ENC2", "DEC2"}}

\* The attributes a slot keeps for a command.
LEMMA Attributes ==
    ASSUME NEW slot, NEW f
    PROVE  /\ "decrypt" \in SentAttrs(slot, f) <=> "decrypt" \in slot.attrs /\ "ENC2" \in f
           /\ "encrypt" \in SentAttrs(slot, f) <=> "encrypt" \in slot.attrs /\ "DEC2" \in f
BY DEF SentAttrs

\* The areas of one or of two sessions.
LEMMA AreasAdd ==
    ASSUME NEW a \in Int, NEW b
    PROVE  /\ FoldFunctionOnSet(+, 0, [i \in 1 .. 2 |-> IF i = 1 THEN a ELSE b], {1}) = a
           /\ b \in Int => FoldFunctionOnSet(+, 0, [i \in 1 .. 2 |-> IF i = 1 THEN a ELSE b], {1, 2}) = a + b
<1> DEFINE fun == [i \in 1 .. 2 |-> IF i = 1 THEN a ELSE b]
<1>1. fun[1] = a /\ fun[2] = b
  OBVIOUS
<1> HIDE DEF fun
<1>2. FoldFunctionOnSet(+, 0, fun, {1}) = a
  <2> DEFINE S == {1}
             w == [i \in S |-> fun[i]]
  <2>1. IsFiniteSet(S) /\ (\A i \in S : fun[i] \in Int) /\ 1 \in S /\ w[1] = a /\ w \in [S -> Int]
    BY <1>1, FS_Singleton
  <2>2. PICK g : IsSum(g, S, [i \in S |-> fun[i]]) /\ FoldFunctionOnSet(+, 0, fun, S) = g[S]
    <3> HIDE DEF S
    <3> QED
      BY <2>1, FoldIsSum
  <2>3. IsSum(g, S, w)
    BY <2>2
  <2> HIDE DEF S, w
  <2>4. g[{1}] = w[1]
    BY <2>1, <2>3, SmallSums
  <2> QED
    BY <2>1, <2>2, <2>4 DEF S
<1>3. ASSUME b \in Int PROVE FoldFunctionOnSet(+, 0, fun, {1, 2}) = a + b
  <2> DEFINE S == {1, 2}
             w == [i \in S |-> fun[i]]
  <2>1. IsFiniteSet(S) /\ (\A i \in S : fun[i] \in Int) /\ 1 \in S /\ 2 \in S
        /\ w[1] = a /\ w[2] = b /\ w \in [S -> Int]
    <3>1. IsFiniteSet(S)
      <4>1. IsFiniteSet({1}) /\ S = {1} \cup {2}
        BY FS_Singleton
      <4> HIDE DEF S
      <4> QED
        BY <4>1, FS_AddElement
    <3> QED
      BY <1>1, <1>3, <3>1
  <2>2. PICK g : IsSum(g, S, [i \in S |-> fun[i]]) /\ FoldFunctionOnSet(+, 0, fun, S) = g[S]
    <3> HIDE DEF S
    <3> QED
      BY <2>1, FoldIsSum
  <2>3. IsSum(g, S, w)
    BY <2>2
  <2> HIDE DEF S, w
  <2>4. g[{1, 2}] = w[1] + w[2]
    BY <2>1, <2>3, SmallSums
  <2> QED
    BY <2>1, <2>2, <2>4 DEF S
<1> QED
  BY <1>2, <1>3 DEF fun

LEMMA CommandWorks ==
    ASSUME Sound, NEW o \in Objects, NEW f \in Flags, Command(o, f), Meant(o, f)
    PROVE  last'.ok
<1> DEFINE kinds == [i \in 1 .. 2 |-> slots[i].kind]
           n == AuthCount({"USER1"} \cup f, kinds)
           sent   == 1 .. n
           timed  == {i \in sent : slots[i].kind # "pw"}
           Attrs(i) == SentAttrs(slots[i], f)
           crypts == {i \in timed : "decrypt" \in Attrs(i)}
           opens  == {i \in timed : "encrypt" \in Attrs(i)}
           After(i) == {<<j, TPM2_ParamEnc_CmdRequest(slots[j])>> : j \in {c \in crypts : c <= i}}
           local  == /\ \A i \in crypts : TPM2_ParamEnc_CmdRequest(slots[i]) # <<>>
                     /\ Areas(Foreseen, sent) = Areas(Written, sent)
           taken  == /\ n > 0
                     /\ Cardinality(crypts) <= 1 /\ Cardinality(opens) <= 1
                     /\ \A i \in timed : tpm[slots[i].kind].open
                     /\ slots[1].kind = "pw" => HmacKey(slots[1].auth) = AuthOf(o)
                     /\ slots[1].kind = "pol" => Allows(o)
                     /\ \A i \in timed :
                           CalcHmac(slots[i], slots[1].name, After(i), Attrs(i))
                           = TpmHmac(i, slots[i], o, After(n), Attrs(i))
                     /\ \A i \in crypts :
                           TPM2_ParamEnc_CmdRequest(slots[i])
                           = TpmCrypt(slots[i], TpmIn(i, slots[i], o), Caller(slots[i]), Tpm(slots[i]))
           heard  == \A i \in opens :
                           /\ \A j \in timed : j <= i
                           /\ TPM2_ParamDec_CmdResponse(slots[i]) # <<>>
                           /\ TPM2_ParamDec_CmdResponse(slots[i])
                              = TpmCrypt(slots[i], TpmIn(i, slots[i], o), Tpm(slots[i]), Caller(slots[i]))
<1>1. last'.ok = (local /\ taken /\ heard)
  <2>1. Returns("command", Meant(o, f), local /\ taken /\ heard)
    BY DEF Command
  <2> HIDE DEF local, taken, heard
  <2> QED
    BY <2>1 DEF Returns
<1>2. /\ slots[1].kind \in {"pw", "pol"} /\ slots[2].kind \in {"none", "enc"}
      /\ slots[1].kind = "pol" /\ slots[2].kind = "enc" => "ENC2" \notin f
      /\ slots[1].kind = "pol" /\ slots[1].attrs # {} => slots[2].kind = "none"
  BY DEF Meant
<1>3. /\ slots[1].kind = "pol" => /\ Matched(1, o) /\ Allows(o)
                                   /\ slots[1].attrs \in {{}, Both}
      /\ slots[1].kind = "pw" => slots[1].auth = AuthOf(o)
      /\ slots[2].kind = "enc" => Matched(2, o) /\ slots[2].attrs = Both
      /\ slots[1].name = o.id
  BY <1>2, FirstMatched, FirstPassword, SecondMatched
<1>4. n = IF slots[2].kind = "enc" /\ f # {} THEN 2 ELSE 1
  <2>1. /\ Len(kinds) = 2 /\ kinds[1] \in {"pw", "pol"} /\ kinds[2] \in {"none", "enc"}
        /\ kinds[2] = slots[2].kind
    BY <1>2
  <2>2. /\ "USER1" \in {"USER1"} \cup f /\ "USER2" \notin {"USER1"} \cup f
        /\ ({"USER1"} \cup f) \cap {"ENC2", "DEC2"} # {} <=> f # {}
    BY DEF Flags
  <2> HIDE DEF kinds
  <2>3. n = IF kinds[2] = "enc" /\ ({"USER1"} \cup f) \cap {"ENC2", "DEC2"} # {} THEN 2 ELSE 1
    BY <2>1, <2>2, CountOfTwo
  <2> QED
    BY <2>1, <2>2, <2>3
<1> HIDE DEF n
<1>5. /\ sent = {1} \/ (sent = {1, 2} /\ slots[2].kind = "enc")
      /\ sent = {1} => n = 1
      /\ sent = {1, 2} => n = 2
  BY <1>4
<1>6. ASSUME NEW i \in timed
      PROVE  /\ i \in {1, 2} /\ Matched(i, o)
             /\ i = 1 => slots[1].kind = "pol"
  BY <1>2, <1>3, <1>5
<1>7. \E k \in 1 .. 2 : /\ crypts \subseteq {k} /\ opens \subseteq {k}
                        /\ crypts # {} => timed = {k}
                        /\ \A j \in timed : j =< k
  <2>1. CASE slots[1].kind = "pw"
    <3>1. timed \subseteq {2}
      BY <1>5, <2>1
    <3> QED
      BY <3>1
  <2>2. CASE slots[1].kind = "pol" /\ sent = {1}
    <3>1. timed \subseteq {1}
      BY <1>5, <2>2
    <3> QED
      BY <3>1
  <2>3. CASE slots[1].kind = "pol" /\ sent # {1}
    <3>1. slots[1].attrs = {} /\ "ENC2" \notin f /\ timed \subseteq {1, 2}
      BY <1>2, <1>5, <2>3
    <3>2. ~("encrypt" \in Attrs(1)) /\ \A i \in timed : ~("decrypt" \in Attrs(i))
      BY <3>1, Attributes
    <3> HIDE DEF timed, Attrs
    <3>3. crypts = {}
      BY <3>2
    <3>4. opens \subseteq {2}
      BY <3>1, <3>2
    <3>5. \A j \in timed : j =< 2
      BY <3>1
    <3> QED
      BY <3>3, <3>4, <3>5
  <2> QED
    BY <1>2, <2>1, <2>2, <2>3
<1>8. ASSUME NEW i \in crypts \cup opens PROVE i \in timed /\ slots[i].attrs # {}
  BY <1>8, Attributes
<1>9. local
  <2>1. ASSUME NEW i \in crypts PROVE TPM2_ParamEnc_CmdRequest(slots[i]) # <<>>
    BY <1>6, <1>8, CryptsMatch
  <2>2. Areas(Foreseen, sent) = Areas(Written, sent)
    <3>1. Foreseen(slots[1]) = Written(slots[1]) /\ Written(slots[1]) \in Int
      <4>1. CASE slots[1].kind = "pw"
        BY <1>3, <4>1, Auths DEF Foreseen, Written
      <4>2. CASE slots[1].kind = "pol"
        BY <1>3, <4>2 DEF Matched
      <4> QED
        BY <1>2, <4>1, <4>2
    <3>2. slots[2].kind = "enc" => Foreseen(slots[2]) = Written(slots[2]) /\ Written(slots[2]) \in Int
      BY <1>3 DEF Matched
    <3> DEFINE a == Written(slots[1])
               b == Written(slots[2])
               c == Foreseen(slots[2])
    <3>3. /\ Areas(Foreseen, sent) =
                FoldFunctionOnSet(+, 0, [i \in 1 .. 2 |-> IF i = 1 THEN a ELSE c], sent)
          /\ Areas(Written, sent) =
                FoldFunctionOnSet(+, 0, [i \in 1 .. 2 |-> IF i = 1 THEN a ELSE b], sent)
      <4>1. [i \in 1 .. 2 |-> Foreseen(slots[i])] = [i \in 1 .. 2 |-> IF i = 1 THEN a ELSE c]
        BY <3>1
      <4>2. [i \in 1 .. 2 |-> Written(slots[i])] = [i \in 1 .. 2 |-> IF i = 1 THEN a ELSE b]
        OBVIOUS
      <4> HIDE DEF a, b, c, sent
      <4> QED
        BY <4>1, <4>2 DEF Areas
    <3>4. a \in Int
      BY <3>1
    <3> HIDE DEF a, b, c, sent
    <3>5. CASE sent = {1}
      BY <3>3, <3>4, <3>5, AreasAdd
    <3>6. CASE sent = {1, 2} /\ slots[2].kind = "enc"
      <4>1. b = c
        BY <3>2, <3>6 DEF b, c
      <4> QED
        BY <3>3, <4>1
    <3> QED
      BY <1>5, <3>5, <3>6
  <2> QED
    BY <2>1, <2>2
<1>10. taken
  <2>1. n > 0
    BY <1>4
  <2>2. Cardinality(crypts) <= 1 /\ Cardinality(opens) <= 1
    <3>1. PICK k \in 1 .. 2 : crypts \subseteq {k} /\ opens \subseteq {k}
      BY <1>7
    <3>2. IsFiniteSet({k}) /\ Cardinality({k}) = 1
      BY FS_Singleton
    <3> HIDE DEF crypts, opens
    <3>3. /\ Cardinality(crypts) =< Cardinality({k}) /\ Cardinality(opens) =< Cardinality({k})
      BY <3>1, <3>2, FS_Subset
    <3> QED
      BY <3>2, <3>3
  <2>3. \A i \in timed : tpm[slots[i].kind].open
    BY <1>6 DEF Matched
  <2>4. slots[1].kind = "pw" => HmacKey(slots[1].auth) = AuthOf(o)
    BY <1>3, Auths
  <2>5. slots[1].kind = "pol" => Allows(o)
    BY <1>3
  <2>6. ASSUME NEW i \in timed
        PROVE  CalcHmac(slots[i], slots[1].name, After(i), Attrs(i))
               = TpmHmac(i, slots[i], o, After(n), Attrs(i))
    <3>1. After(i) = After(n)
      <4>1. CASE crypts = {}
        <5> HIDE DEF crypts
        <5>1. {c \in crypts : c =< i} = {c \in crypts : c =< n}
          BY <4>1
        <5> QED
          BY <5>1
      <4>2. CASE crypts # {}
        <5>1. PICK k \in 1 .. 2 : crypts \subseteq {k} /\ timed = {k}
          BY <1>7, <4>2
        <5>2. i = k /\ k =< n /\ n \in Int
          <6>1. k \in sent
            BY <5>1
          <6> HIDE DEF timed
          <6> QED
            BY <1>4, <5>1, <6>1
        <5> HIDE DEF crypts, timed
        <5>3. \A c \in crypts : c =< i /\ c =< n
          <6>1. k \in Int
            OBVIOUS
          <6>2. \A c \in crypts : c = k
            BY <5>1
          <6> QED
            BY <5>2, <6>1, <6>2
        <5>4. {c \in crypts : c =< i} = {c \in crypts : c =< n}
          BY <5>3
        <5> QED
          BY <5>4
      <4> QED
        BY <4>1, <4>2
    <3>2. HmacKey(slots[i].auth) =
             HmacKey(tpm[slots[i].kind].key \o
                (IF i = 1 /\ "authvalue" \in tpm[slots[i].kind].asserts THEN AuthOf(o) ELSE <<>>))
      BY <1>6 DEF Matched
    <3> HIDE DEF After, Attrs, timed
    <3> QED
      BY <1>3, <3>1, <3>2 DEF CalcHmac, TpmHmac
  <2>7. ASSUME NEW i \in crypts
        PROVE  TPM2_ParamEnc_CmdRequest(slots[i])
               = TpmCrypt(slots[i], TpmIn(i, slots[i], o), Caller(slots[i]), Tpm(slots[i]))
    BY <1>6, <1>8, CryptsMatch
  <2> HIDE DEF crypts, opens, timed, After, Attrs
  <2> QED
    BY <2>1, <2>2, <2>3, <2>4, <2>5, <2>6, <2>7
<1>11. heard
  <2>1. ASSUME NEW i \in opens, NEW j \in timed PROVE j =< i
    <3>1. PICK k \in 1 .. 2 : opens \subseteq {k} /\ \A x \in timed : x =< k
      BY <1>7
    <3> HIDE DEF opens, timed
    <3> QED
      BY <2>1, <3>1
  <2>2. ASSUME NEW i \in opens
        PROVE  /\ TPM2_ParamDec_CmdResponse(slots[i]) # <<>>
               /\ TPM2_ParamDec_CmdResponse(slots[i])
                  = TpmCrypt(slots[i], TpmIn(i, slots[i], o), Tpm(slots[i]), Caller(slots[i]))
    BY <1>6, <1>8, CryptsMatch
  <2> HIDE DEF opens, timed
  <2> QED
    BY <2>1, <2>2
<1> HIDE DEF local, taken, heard
<1> QED
  BY <1>1, <1>9, <1>10, <1>11

-----------------------------------------------------------------------------
(* The theorems.                                                           *)

\* Sessions, keys and slots stay as the invariant says.
THEOREM SoundHolds ==
    Spec => []Sound
<1>1. Init => Sound
  BY InitSound
<1>2. Sound /\ [Next]_vars => Sound'
  BY StepSound
<1> QED
  BY <1>1, <1>2, PTL DEF Spec

\* Keys and values fit the buffers of the library, whatever the order of the
\* setters (wolfTPM2_SetAuthHandle, wolfTPM2_PolicyAuthValue and the others).
THEOREM TypeCorrect ==
    Spec => []TypeOK
<1>1. Sound => TypeOK
  BY DEF Sound
<1> QED
  BY <1>1, SoundHolds, PTL

\* Both sides of a session have one key (wolfTPM2_StartSession_ex,
\* wolfTPM2_EncryptSecret, TPM2_KDFa_ex).
THEOREM SessionsAgree ==
    Spec => []SessionKeysAgree
<1>1. ASSUME Sound PROVE SessionKeysAgree
  <2> SUFFICES ASSUME NEW s \in Kinds, sess[s].open, tpm[s].open, ~sess[s].policyPass,
                      sess[s].bind # NoBind /\ sess[s].bind.size = 0
                         => HmacKey(First(sess[s].auth)) # <<>>
               PROVE  HmacKey(First(sess[s].auth)) = tpm[s].key
    BY DEF SessionKeysAgree
  <2> DEFINE a == sess[s].auth
  <2>1. HmacKey(First(a)) = HmacKey(BaseOf(a))
    BY Keys DEF First, BaseOf
  <2>2. sess[s].bind \in Objects \cup {NoBind} /\ SessionSound(s)
    BY <1>1 DEF Sound, Shape
  <2>3. sess[s].bind = NoBind \/ sess[s].bind.size = 0 \/ sess[s].bind.size > 0
    <3>1. \A b \in Objects \cup {NoBind} : b.size = 0 \/ b.size > 0
      BY Auths
    <3> QED
      BY <2>2, <3>1
  <2> QED
    BY <2>1, <2>2, <2>3 DEF SessionSound
<1> QED
  BY <1>1, SoundHolds, PTL

\* A private key wrapped for a storage key unwraps in the TPM
\* (wolfTPM2_ImportPrivateKey, SensitiveToPrivate).
THEOREM ImportsUnwrap ==
    Spec => []ImportUnwraps
<1>1. Init => ImportUnwraps
  BY DEF Init, ImportUnwraps
<1>2. Sound /\ ImportUnwraps /\ [Next]_vars => ImportUnwraps'
  <2> SUFFICES ASSUME Sound, ImportUnwraps, [Next]_vars PROVE ImportUnwraps'
    OBVIOUS
  <2>1. ASSUME NEW nameAlg, NEW z \in 0 .. 1, ImportPrivateKey(nameAlg, z) PROVE ImportUnwraps'
    BY <2>1, ImportStep DEF ImportUnwraps
  <2>2. CASE UNCHANGED vars
    BY <2>2 DEF vars, ImportUnwraps
  <2>3. CASE last'.op # "import"
    BY <2>3 DEF ImportUnwraps
  <2>4. \A op, meant, ok : Returns(op, meant, ok) => last'.op = op
    BY DEF Returns
  <2>5. ASSUME NEW t \in Templates, CreatePrimary(t) PROVE last'.op # "import"
    BY <2>4, <2>5 DEF CreatePrimary
  <2>6. ASSUME NEW a \in Starts, NEW z \in 0 .. 1,
               StartSession(a.kind, a.salted, a.bind, a.sym, z)
        PROVE  last'.op # "import"
    BY <2>4, <2>6 DEF StartSession, Quiet
  <2>7. ASSUME NEW o \in Objects,
               wolfTPM2_PolicyAuthValue(o) \/ wolfTPM2_PolicyPassword(o) \/ PolicyOther
        PROVE  last'.op # "import"
    BY <2>4, <2>7 DEF wolfTPM2_PolicyAuthValue, wolfTPM2_PolicyPassword, PolicyOther, Quiet
  <2>8. ASSUME NEW i, NEW s, NEW attrs, NEW o,
               \/ wolfTPM2_SetAuthSession(i, s, attrs) \/ wolfTPM2_SetAuthHandle(i, o)
               \/ wolfTPM2_SetAuthHandleName(i, o) \/ wolfTPM2_UnsetAuth(i)
        PROVE  last'.op # "import"
    BY <2>4, <2>8 DEF wolfTPM2_SetAuthSession, wolfTPM2_SetAuthHandle,
                      wolfTPM2_SetAuthHandleName, wolfTPM2_UnsetAuth, Quiet
  <2>9. ASSUME NEW o \in Objects, NEW f, Command(o, f) PROVE last'.op # "import"
    <3>1. \E meant, ok : Returns("command", meant, ok)
      BY <2>9 DEF Command
    <3> QED
      BY <2>4, <3>1
  <2>10. ASSUME PolicyOther PROVE last'.op # "import"
    BY <2>4, <2>10 DEF PolicyOther, Quiet
  <2> QED
    BY <2>1, <2>2, <2>3, <2>5, <2>6, <2>7, <2>8, <2>9, <2>10 DEF Next
<1> QED
  BY <1>1, <1>2, SoundHolds, PTL DEF Spec

\* A command used as the interface is meant is authorised by the TPM, and its
\* parameters are understood on both sides (TPM2_CommandProcess,
\* TPM2_ResponseProcess).
THEOREM MeantUseIsUnderstood ==
    Spec => []MeantUseWorks
<1>1. Init => MeantUseWorks
  BY DEF Init, MeantUseWorks
<1>2. Sound /\ MeantUseWorks /\ [Next]_vars => MeantUseWorks'
  <2> SUFFICES ASSUME Sound, MeantUseWorks, [Next]_vars PROVE MeantUseWorks'
    OBVIOUS
  <2>1. ASSUME NEW o \in Objects, NEW f \in Flags, Command(o, f) PROVE MeantUseWorks'
    <3>1. \E ok : Returns("command", Meant(o, f), ok)
      BY <2>1 DEF Command
    <3>2. last'.meant = Meant(o, f)
      BY <3>1 DEF Returns
    <3> QED
      BY <2>1, <3>2, CommandWorks DEF MeantUseWorks
  <2>2. CASE UNCHANGED vars
    BY <2>2 DEF vars, MeantUseWorks
  <2>3. CASE last'.op # "command"
    BY <2>3 DEF MeantUseWorks
  <2>4. \A op, meant, ok : Returns(op, meant, ok) => last'.op = op
    BY DEF Returns
  <2>5. ASSUME NEW t \in Templates, CreatePrimary(t) PROVE last'.op # "command"
    BY <2>4, <2>5 DEF CreatePrimary
  <2>6. ASSUME NEW a \in Starts, NEW z \in 0 .. 1,
               StartSession(a.kind, a.salted, a.bind, a.sym, z)
        PROVE  last'.op # "command"
    BY <2>4, <2>6 DEF StartSession, Quiet
  <2>7. ASSUME NEW o \in Objects, wolfTPM2_PolicyAuthValue(o) \/ wolfTPM2_PolicyPassword(o)
        PROVE  last'.op # "command"
    BY <2>4, <2>7 DEF wolfTPM2_PolicyAuthValue, wolfTPM2_PolicyPassword, Quiet
  <2>8. ASSUME NEW i, NEW s, NEW attrs, NEW o,
               \/ wolfTPM2_SetAuthSession(i, s, attrs) \/ wolfTPM2_SetAuthHandle(i, o)
               \/ wolfTPM2_SetAuthHandleName(i, o) \/ wolfTPM2_UnsetAuth(i)
        PROVE  last'.op # "command"
    BY <2>4, <2>8 DEF wolfTPM2_SetAuthSession, wolfTPM2_SetAuthHandle,
                      wolfTPM2_SetAuthHandleName, wolfTPM2_UnsetAuth, Quiet
  <2>9. ASSUME NEW nameAlg, NEW z, ImportPrivateKey(nameAlg, z) PROVE last'.op # "command"
    <3>1. \E meant, ok : Returns("import", meant, ok)
      BY <2>9 DEF ImportPrivateKey
    <3> QED
      BY <2>4, <3>1
  <2>10. ASSUME PolicyOther PROVE last'.op # "command"
    BY <2>4, <2>10 DEF PolicyOther, Quiet
  <2> QED
    BY <2>1, <2>2, <2>3, <2>5, <2>6, <2>7, <2>8, <2>9, <2>10 DEF Next, Flags
<1> QED
  BY <1>1, <1>2, SoundHolds, PTL DEF Spec

-----------------------------------------------------------------------------
(* The templates.                                                          *)

\* What a TPM asks of a template, without counting its uses.
Fine(t) ==
    LET uses == t.attrs \cap {"sign", "decrypt"}
        single == uses \in {{"sign"}, {"decrypt"}}
        restricted == "restricted" \in t.attrs
    IN  /\ TPM2_GetHashDigestSize(t.nameAlg) > 0
        /\ "fixedTPM" \in t.attrs => "fixedParent" \in t.attrs
        /\ restricted => single
        /\ uses = {} => t.type = "KEYEDHASH"
        /\ t.policy \in {0, TPM2_GetHashDigestSize(t.nameAlg)}
        /\ "adminWithPolicy" \in t.attrs => t.policy > 0
        /\ t.type \in {"RSA", "ECC"} => (t.sym > 0 <=> IsParent(t.attrs))
        /\ t.scheme # "none" => single /\ t.scheme \in Schemes(t)
        /\ restricted /\ "sign" \in uses => t.scheme # "none"
        /\ IsParent(t.attrs) => t.scheme = "none"
        /\ t.type \in {"RSA", "ECC", "SYMCIPHER"} =>
              t.unique =< GetKeyTemplateSize(t)

IsRecord(t) ==
    t = [type |-> t.type, nameAlg |-> t.nameAlg, attrs |-> t.attrs, bits |-> t.bits,
         curve |-> t.curve, scheme |-> t.scheme, sym |-> t.sym, unique |-> t.unique,
         policy |-> t.policy]
Sane(t) == IsRecord(t) /\ Fine(t) /\ GetKeyTemplateSize(t) \in Nat

LEMMA FineIsCreated == ASSUME NEW t, Fine(t) PROVE TpmCreates(t)
<1>1. \A s : s \in {{"sign"}, {"decrypt"}} => Cardinality(s) = 1
  BY FS_Singleton
<1> QED
  BY <1>1 DEF Fine, TpmCreates

\* The two constructors: attributes, scheme and hash that go together make a
\* template a TPM creates, whatever the size or the curve.
GoodAttrs(attrs, scheme, type) ==
    LET uses == attrs \cap {"sign", "decrypt"}
        single == uses \in {{"sign"}, {"decrypt"}}
    IN  /\ "fixedTPM" \in attrs => "fixedParent" \in attrs
        /\ "restricted" \in attrs => single
        /\ uses # {}
        /\ scheme # "none" => /\ single
                              /\ type = "RSA" => scheme = "RSASSA" /\ "sign" \in attrs
                              /\ type = "ECC" => \/ scheme = "ECDSA" /\ "sign" \in attrs
                                                 \/ scheme = "ECDH" /\ "sign" \notin attrs
        /\ {"restricted", "sign"} \subseteq attrs => scheme # "none"
        /\ IsParent(attrs) => scheme = "none"

LEMMA Digests == \A h \in Hashes : TPM2_GetHashDigestSize(h) \in Nat \ {0}
BY DEF Hashes, TPM2_GetHashDigestSize

LEMMA CurveSizes == \A c \in Curves : TPM2_GetCurveSize(c) \in Nat \ {0}
BY DEF Curves, TPM2_GetCurveSize

\* What is left to say of such a template: its policy and its unique field.
IsTemplate(t, type, h, attrs, scheme) ==
    /\ t.type = type /\ t.nameAlg = h /\ t.attrs = attrs /\ t.scheme = scheme
    /\ IsRecord(t)
    /\ t.sym > 0 <=> IsParent(attrs)
    /\ t.policy \in {0, TPM2_GetHashDigestSize(h)}
    /\ t.unique \in Nat /\ t.unique =< GetKeyTemplateSize(t) /\ GetKeyTemplateSize(t) \in Nat

LEMMA KeyIsSane ==
    ASSUME NEW t, NEW type \in {"RSA", "ECC"}, NEW h \in Hashes, NEW attrs, NEW scheme,
           IsTemplate(t, type, h, attrs, scheme), GoodAttrs(attrs, scheme, type),
           "adminWithPolicy" \in attrs => t.policy > 0
    PROVE  Sane(t)
<1>1. TPM2_GetHashDigestSize(h) > 0
  BY Digests
<1>2. scheme # "none" => scheme \in Schemes(t)
  <2>1. t.type = type /\ t.attrs = attrs
    BY DEF IsTemplate
  <2>2. ASSUME type = "RSA", scheme # "none" PROVE scheme \in Schemes(t)
    <3>1. scheme = "RSASSA" /\ "sign" \in attrs
      BY <2>2 DEF GoodAttrs
    <3> QED
      BY <2>1, <2>2, <3>1 DEF Schemes
  <2>3. ASSUME type = "ECC", scheme # "none" PROVE scheme \in Schemes(t)
    <3>1. scheme = IF "sign" \in attrs THEN "ECDSA" ELSE "ECDH"
      BY <2>3 DEF GoodAttrs
    <3> QED
      BY <2>1, <2>3, <3>1 DEF Schemes
  <2> QED
    BY <2>2, <2>3
<1>3. Fine(t)
  BY <1>1, <1>2 DEF Fine, IsTemplate, GoodAttrs
<1> QED
  BY <1>3 DEF Sane, IsTemplate

LEMMA RsaIsKey ==
    ASSUME NEW h \in Hashes, NEW attrs, NEW bits \in Nat, NEW scheme
    PROVE  IsTemplate(GetKeyTemplateRSA(h, attrs, bits, scheme), "RSA", h, attrs, scheme)
<1> DEFINE t == GetKeyTemplateRSA(h, attrs, bits, scheme)
<1>1. /\ t.type = "RSA" /\ t.nameAlg = h /\ t.attrs = attrs /\ t.scheme = scheme
      /\ t.policy = 0 /\ t.unique = bits \div 8 /\ t.bits = bits
      /\ t.sym = ParentSym(attrs, bits > 2048)
  BY DEF GetKeyTemplateRSA, Template
<1>2. t.sym > 0 <=> IsParent(attrs)
  BY <1>1 DEF ParentSym
<1>5. IsRecord(t)
  BY DEF GetKeyTemplateRSA, Template, IsRecord
<1> HIDE DEF t
<1>3. t.unique \in Nat /\ t.unique =< GetKeyTemplateSize(t) /\ GetKeyTemplateSize(t) \in Nat
  BY <1>1 DEF GetKeyTemplateSize
<1>4. IsTemplate(t, "RSA", h, attrs, scheme)
  BY <1>1, <1>2, <1>3, <1>5 DEF IsTemplate
<1> QED
  BY <1>4 DEF t

LEMMA EccIsKey ==
    ASSUME NEW h \in Hashes, NEW attrs, NEW c \in Curves, NEW scheme
    PROVE  IsTemplate(GetKeyTemplateECC(h, attrs, c, scheme), "ECC", h, attrs, scheme)
<1> DEFINE t == GetKeyTemplateECC(h, attrs, c, scheme)
           size == TPM2_GetCurveSize(c)
           sym == ParentSym(attrs, size >= 48)
<1>0. size \in Nat \ {0}
  BY CurveSizes
<1>5. t = Template("ECC", h, attrs, 0, c, scheme, sym, size)
  BY <1>0 DEF GetKeyTemplateECC
<1> HIDE DEF t, sym
<1>6. IsRecord(t)
  <2> HIDE DEF size
  <2> QED
    BY <1>5 DEF Template, IsRecord
<1>1. /\ t.type = "ECC" /\ t.nameAlg = h /\ t.attrs = attrs /\ t.scheme = scheme
      /\ t.policy = 0 /\ t.unique = size /\ t.curve = c
      /\ t.sym = sym
  <2> HIDE DEF size
  <2> QED
    BY <1>5 DEF Template
<1>2. t.sym > 0 <=> IsParent(attrs)
  BY <1>1 DEF ParentSym, sym
<1>3. t.unique \in Nat /\ t.unique =< GetKeyTemplateSize(t) /\ GetKeyTemplateSize(t) \in Nat
  <2>1. GetKeyTemplateSize(t) = size
    BY <1>1 DEF GetKeyTemplateSize
  <2> HIDE DEF size
  <2> QED
    BY <1>0, <1>1, <2>1
<1>4. IsTemplate(t, "ECC", h, attrs, scheme)
  BY <1>1, <1>2, <1>3, <1>6 DEF IsTemplate
<1> QED
  BY <1>4 DEF t

\* The fields the getters set afterwards: policy, unique field, no symmetric
\* algorithm.
Given(t, p, u) == [t EXCEPT !.policy = p, !.unique = u]

LEMMA Changed ==
    ASSUME NEW t, NEW type \in {"RSA", "ECC"}, NEW h \in Hashes, NEW attrs, NEW scheme,
           IsTemplate(t, type, h, attrs, scheme),
           NEW p \in {0, TPM2_GetHashDigestSize(h)}, NEW u \in Nat, u =< GetKeyTemplateSize(t)
    PROVE  IsTemplate(Given(t, p, u), type, h, attrs, scheme) /\ Given(t, p, u).policy = p
<1> DEFINE w == [t EXCEPT !.policy = p, !.unique = u]
<1>0. IsRecord(t)
  BY DEF IsTemplate
<1>1. /\ w.type = t.type /\ w.nameAlg = t.nameAlg /\ w.attrs = t.attrs /\ w.scheme = t.scheme
      /\ w.sym = t.sym /\ w.policy = p /\ w.unique = u /\ w.bits = t.bits /\ w.curve = t.curve
  BY <1>0 DEF IsRecord
<1>2. IsRecord(w)
  <2> DEFINE v == [t EXCEPT !.policy = p]
  <2>1. IsRecord(v)
    BY <1>0 DEF IsRecord
  <2>2. w = [v EXCEPT !.unique = u]
    BY <1>0 DEF IsRecord
  <2> HIDE DEF v, w
  <2>3. IsRecord([v EXCEPT !.unique = u])
    BY <2>1 DEF IsRecord
  <2> QED
    BY <2>2, <2>3
<1> HIDE DEF w
<1>3. GetKeyTemplateSize(w) = GetKeyTemplateSize(t)
  BY <1>1 DEF GetKeyTemplateSize
<1>4. IsTemplate(w, type, h, attrs, scheme) /\ w.policy = p
  BY <1>1, <1>2, <1>3 DEF IsTemplate
<1> QED
  BY <1>4 DEF w, Given

LEMMA SymCleared ==
    ASSUME NEW t, NEW type, NEW h, NEW attrs, NEW scheme,
           IsTemplate(t, type, h, attrs, scheme), ~IsParent(attrs)
    PROVE  /\ IsTemplate([t EXCEPT !.sym = 0], type, h, attrs, scheme)
           /\ [t EXCEPT !.sym = 0].policy = t.policy
<1> DEFINE w == [t EXCEPT !.sym = 0]
<1>1. /\ w.type = t.type /\ w.nameAlg = t.nameAlg /\ w.attrs = t.attrs /\ w.scheme = t.scheme
      /\ w.sym = 0 /\ w.policy = t.policy /\ w.unique = t.unique /\ w.bits = t.bits
      /\ w.curve = t.curve /\ IsRecord(w)
  BY DEF IsTemplate, IsRecord
<1> HIDE DEF w
<1>3. GetKeyTemplateSize(w) = GetKeyTemplateSize(t)
  BY <1>1 DEF GetKeyTemplateSize
<1>4. IsTemplate(w, type, h, attrs, scheme) /\ w.policy = t.policy
  BY <1>1, <1>3 DEF IsTemplate
<1> QED
  BY <1>4 DEF w

\* A caller's unique field never gets longer than the key
\* (wolfTPM2_SetKeyTemplate_Unique).
LEMMA UniqueIsShort ==
    ASSUME NEW t, t.type \in {"RSA", "ECC", "SYMCIPHER", "KEYEDHASH"},
           GetKeyTemplateSize(t) \in Nat \ {0}, NEW n \in Nat
    PROVE  \E u \in Nat : /\ u =< GetKeyTemplateSize(t)
                          /\ wolfTPM2_SetKeyTemplate_Unique(t, n) = [t EXCEPT !.unique = u]
<1> DEFINE size == GetKeyTemplateSize(t)
           whole == IF t.type = "ECC" THEN size * 2 ELSE size
           used  == IF n = 0 THEN whole ELSE Smaller(n, whole)
<1>1. size \in Nat \ {0}
  OBVIOUS
<1> HIDE DEF size
<1>2. used \in Nat /\ used =< whole /\ whole \in Nat
  BY <1>1 DEF Smaller
<1>3. ASSUME t.type # "ECC", NEW max \in Nat,
             wolfTPM2_SetKeyTemplate_Unique(t, n) = [t EXCEPT !.unique = Smaller(used, max)]
      PROVE  \E u \in Nat : /\ u =< size
                            /\ wolfTPM2_SetKeyTemplate_Unique(t, n) = [t EXCEPT !.unique = u]
  <2>1. whole = size
    BY <1>3
  <2> HIDE DEF used, whole
  <2>2. Smaller(used, max) \in Nat /\ Smaller(used, max) =< size
    BY <1>1, <1>2, <2>1 DEF Smaller
  <2> QED
    BY <1>3, <2>2
<1>4. CASE t.type = "RSA"
  <2>1. wolfTPM2_SetKeyTemplate_Unique(t, n) = [t EXCEPT !.unique = Smaller(used, MaxRsaBytes)]
    BY <1>1, <1>4 DEF wolfTPM2_SetKeyTemplate_Unique, size
  <2> HIDE DEF used
  <2> QED
    BY <1>3, <1>4, <2>1, RsaAssumption DEF size
<1>5. CASE t.type \in {"SYMCIPHER", "KEYEDHASH"}
  <2>1. wolfTPM2_SetKeyTemplate_Unique(t, n) = [t EXCEPT !.unique = Smaller(used, MaxDigest)]
    BY <1>1, <1>5 DEF wolfTPM2_SetKeyTemplate_Unique, size
  <2>2. MaxDigest \in Nat
    BY DEF MaxDigest
  <2> HIDE DEF used
  <2> QED
    BY <1>3, <1>5, <2>1, <2>2 DEF size
<1>6. CASE t.type = "ECC"
  <2>1. wolfTPM2_SetKeyTemplate_Unique(t, n) = [t EXCEPT !.unique = Smaller(used \div 2, MaxEccBytes)]
    BY <1>1, <1>6 DEF wolfTPM2_SetKeyTemplate_Unique, size
  <2>2. Smaller(used \div 2, MaxEccBytes) \in Nat /\ Smaller(used \div 2, MaxEccBytes) =< size
    <3>1. whole = size * 2
      BY <1>6
    <3> HIDE DEF used, whole
    <3>2. used \div 2 \in Nat /\ used \div 2 =< size
      BY <1>1, <1>2, <3>1
    <3> QED
      BY <1>1, <3>2 DEF Smaller, MaxEccBytes
  <2> QED
    BY <2>1, <2>2 DEF size
<1> QED
  BY <1>4, <1>5, <1>6

LEMMA UniqueIsSane ==
    ASSUME NEW t, Sane(t), t.type \in {"RSA", "ECC", "SYMCIPHER", "KEYEDHASH"}, NEW n \in Nat,
           wolfTPM2_SetKeyTemplate_Unique(t, n) # NoTemplate
    PROVE  Sane(wolfTPM2_SetKeyTemplate_Unique(t, n))
<1>1. GetKeyTemplateSize(t) \in Nat /\ GetKeyTemplateSize(t) # 0
  BY DEF wolfTPM2_SetKeyTemplate_Unique, Sane
<1>2. PICK u \in Nat : /\ u =< GetKeyTemplateSize(t)
                      /\ wolfTPM2_SetKeyTemplate_Unique(t, n) = [t EXCEPT !.unique = u]
  BY <1>1, UniqueIsShort
<1> DEFINE w == [t EXCEPT !.unique = u]
<1>3. /\ w.type = t.type /\ w.nameAlg = t.nameAlg /\ w.attrs = t.attrs /\ w.scheme = t.scheme
      /\ w.sym = t.sym /\ w.policy = t.policy /\ w.unique = u /\ w.bits = t.bits
      /\ w.curve = t.curve /\ IsRecord(w)
  BY DEF Sane, IsRecord
<1> HIDE DEF w
<1>4. GetKeyTemplateSize(w) = GetKeyTemplateSize(t)
  BY <1>3 DEF GetKeyTemplateSize
<1>5. Schemes(w) = Schemes(t)
  BY <1>3 DEF Schemes
<1>6. Fine(w)
  BY <1>2, <1>3, <1>4, <1>5 DEF Fine, Sane
<1>7. Sane(w)
  BY <1>1, <1>3, <1>4, <1>6 DEF Sane
<1> QED
  BY <1>2, <1>7 DEF w

\* The getters of storage, attestation and endorsement keys.
EKAttrs(high) == Fixed \cup {"adminWithPolicy", "restricted", "decrypt"}
                       \cup (IF high THEN {"userWithAuth"} ELSE {})
SRKAttrs == Fixed \cup {"userWithAuth", "restricted", "decrypt", "noDA"}
AIKAttrs == Fixed \cup {"userWithAuth", "restricted", "sign", "noDA"}
Signing(alg) == IF alg = "RSA" THEN "RSASSA" ELSE "ECDSA"

LEMMA StorageAttrs ==
    ASSUME NEW type
    PROVE  GoodAttrs(Storage, "none", type) /\ GoodAttrs(SRKAttrs, "none", type)
BY DEF GoodAttrs, Storage, Leaf, SRKAttrs, Fixed

LEMMA LeafAttrs ==
    /\ \A u \in {{"sign"}, {"decrypt"}, {"sign", "decrypt"}} : GoodAttrs(Leaf \cup u, "none", "RSA")
    /\ GoodAttrs(Leaf \cup {"sign"}, "ECDSA", "ECC") /\ GoodAttrs(Leaf \cup {"decrypt"}, "ECDH", "ECC")
<1>1. GoodAttrs(Leaf \cup {"sign"}, "none", "RSA") /\ GoodAttrs(Leaf \cup {"decrypt"}, "none", "RSA")
  BY DEF GoodAttrs, Leaf, IsParent
<1>2. GoodAttrs(Leaf \cup {"sign", "decrypt"}, "none", "RSA")
  BY DEF GoodAttrs, Leaf, IsParent
<1>3. GoodAttrs(Leaf \cup {"sign"}, "ECDSA", "ECC")
  BY DEF GoodAttrs, Leaf, IsParent
<1>4. GoodAttrs(Leaf \cup {"decrypt"}, "ECDH", "ECC")
  BY DEF GoodAttrs, Leaf, IsParent
<1> QED
  BY <1>1, <1>2, <1>3, <1>4

LEMMA SigningAttrs ==
    ASSUME NEW type \in {"RSA", "ECC"}
    PROVE  /\ GoodAttrs(AIKAttrs, Signing(type), type)
           /\ GoodAttrs(IdentityAttrs \cup {"restricted"}, Signing(type), type)
<1>1. GoodAttrs(AIKAttrs, Signing(type), type)
  BY DEF GoodAttrs, AIKAttrs, Fixed, Signing, IsParent
<1>2. GoodAttrs(IdentityAttrs \cup {"restricted"}, Signing(type), type)
  BY DEF GoodAttrs, IdentityAttrs, Fixed, Signing, IsParent
<1> QED
  BY <1>1, <1>2

LEMMA IdentityIsGood == GoodAttrs(IdentityAttrs, "none", "RSA") /\ GoodAttrs(IdentityAttrs, "ECDSA", "ECC")
<1>1. GoodAttrs(IdentityAttrs, "none", "RSA")
  BY DEF GoodAttrs, IdentityAttrs, Fixed
<1>2. GoodAttrs(IdentityAttrs, "ECDSA", "ECC")
  BY DEF GoodAttrs, IdentityAttrs, Fixed, IsParent
<1> QED
  BY <1>1, <1>2

LEMMA EndorsementAttrs ==
    ASSUME NEW type
    PROVE  GoodAttrs(EKAttrs(TRUE), "none", type) /\ GoodAttrs(EKAttrs(FALSE), "none", type)
<1>1. GoodAttrs(EKAttrs(TRUE), "none", type)
  BY DEF GoodAttrs, EKAttrs, Fixed
<1>2. GoodAttrs(EKAttrs(FALSE), "none", type)
  BY DEF GoodAttrs, EKAttrs, Fixed
<1> QED
  BY <1>1, <1>2

\* The getters, one after the other.
LEMMA SrkIsSane ==
    ASSUME NEW a \in {"RSA", "ECC"}
    PROVE  Sane(wolfTPM2_GetKeyTemplate_SRK(a))
<1>1. CASE a = "RSA"
  <2>1. wolfTPM2_GetKeyTemplate_SRK(a) = GetKeyTemplateRSA("SHA256", SRKAttrs, 2048, "none")
    BY <1>1 DEF wolfTPM2_GetKeyTemplate_SRK, SRKAttrs
  <2>2. "SHA256" \in Hashes /\ "adminWithPolicy" \notin SRKAttrs
    BY DEF Hashes, SRKAttrs, Fixed
  <2> QED
    BY <2>1, <2>2, RsaIsKey, KeyIsSane, StorageAttrs
<1>2. CASE a = "ECC"
  <2>1. wolfTPM2_GetKeyTemplate_SRK(a) = GetKeyTemplateECC("SHA256", SRKAttrs, "P256", "none")
    BY <1>2 DEF wolfTPM2_GetKeyTemplate_SRK, SRKAttrs
  <2>2. "SHA256" \in Hashes /\ "adminWithPolicy" \notin SRKAttrs /\ "P256" \in Curves
    BY DEF Hashes, SRKAttrs, Fixed, Curves
  <2> QED
    BY <2>1, <2>2, EccIsKey, KeyIsSane, StorageAttrs
<1> QED
  BY <1>1, <1>2

LEMMA AikIsSane ==
    ASSUME NEW a \in {"RSA", "ECC"}
    PROVE  Sane(wolfTPM2_GetKeyTemplate_AIK(a))
<1> DEFINE t == IF a = "RSA" THEN GetKeyTemplateRSA("SHA256", AIKAttrs, 2048, "RSASSA")
                ELSE GetKeyTemplateECC("SHA256", AIKAttrs, "P256", "ECDSA")
           w == [t EXCEPT !.sym = 0]
<1>1. wolfTPM2_GetKeyTemplate_AIK(a) = w
  BY DEF wolfTPM2_GetKeyTemplate_AIK, AIKAttrs
<1>2. "SHA256" \in Hashes /\ "adminWithPolicy" \notin AIKAttrs /\ "P256" \in Curves /\ ~IsParent(AIKAttrs)
  BY DEF Hashes, AIKAttrs, Fixed, Curves, IsParent
<1>3. IsTemplate(t, a, "SHA256", AIKAttrs, Signing(a))
  <2>1. CASE a = "RSA"
    BY <1>2, <2>1, RsaIsKey DEF Signing
  <2>2. CASE a = "ECC"
    BY <1>2, <2>2, EccIsKey DEF Signing
  <2> QED
    BY <2>1, <2>2
<1> HIDE DEF t
<1>4. IsTemplate(w, a, "SHA256", AIKAttrs, Signing(a))
  BY <1>2, <1>3, SymCleared
<1> HIDE DEF w
<1> QED
  BY <1>1, <1>2, <1>4, KeyIsSane, SigningAttrs

LEMMA ProvisionedIsSane ==
    ASSUME NEW t, NEW type \in {"RSA", "ECC"}, NEW h \in Hashes \ {"SHA1"}, NEW attrs, NEW scheme,
           IsTemplate(t, type, h, attrs, scheme), GoodAttrs(attrs, scheme, type), ~IsParent(attrs),
           NEW n \in Nat,
           Provisioned(t, h, n) # NoTemplate
    PROVE  Sane(Provisioned(t, h, n))
<1> DEFINE p == TPM2_GetHashDigestSize(h)
           v == [t EXCEPT !.sym = 0]
           w == [t EXCEPT !.sym = 0, !.policy = p]
           u == wolfTPM2_SetKeyTemplate_Unique(w, n)
<1>1. h \in Hashes /\ h \in {"SHA256", "SHA384", "SHA512"} /\ p \in Nat \ {0}
  BY Digests DEF Hashes
<1>2. Provisioned(t, h, n) = u
  BY <1>1 DEF Provisioned, PolicyOf
<1>3. IsTemplate(v, type, h, attrs, scheme) /\ IsRecord(v) /\ v.unique = t.unique
      /\ v.type = t.type /\ v.bits = t.bits /\ v.curve = t.curve
  <2>1. IsTemplate(v, type, h, attrs, scheme)
    BY SymCleared
  <2> QED
    BY <2>1 DEF IsTemplate, IsRecord
<1>4. GetKeyTemplateSize(v) = GetKeyTemplateSize(t)
  BY <1>3 DEF GetKeyTemplateSize
<1>5. w = Given(v, p, v.unique)
  <2>1. w = [v EXCEPT !.policy = p]
    BY DEF IsTemplate, IsRecord
  <2> HIDE DEF v, w
  <2> QED
    BY <1>3, <2>1 DEF Given, IsRecord
<1> HIDE DEF v, w, p
<1>6. IsTemplate(w, type, h, attrs, scheme) /\ w.policy = p
  <2>1. v.unique \in Nat /\ v.unique =< GetKeyTemplateSize(v)
    BY <1>3 DEF IsTemplate
  <2> QED
    BY <1>1, <1>3, <1>5, <2>1, Changed DEF p
<1>7. w.policy > 0 /\ Sane(w) /\ w.type \in {"RSA", "ECC"}
  <2>1. w.policy > 0
    BY <1>1, <1>6
  <2> QED
    BY <1>1, <1>6, <2>1, KeyIsSane DEF IsTemplate
<1> QED
  BY <1>2, <1>7, UniqueIsSane

LEMMA IdentityIsSane ==
    ASSUME NEW a \in {"RSA", "ECC"}, NEW bits \in Nat, NEW c \in Curves,
           NEW h \in Hashes \ {"SHA1"}
    PROVE  /\ wolfTPM2_GetKeyTemplate_IAK(a, bits, c, h) # NoTemplate
              => Sane(wolfTPM2_GetKeyTemplate_IAK(a, bits, c, h))
           /\ wolfTPM2_GetKeyTemplate_IDevID(a, bits, c, h) # NoTemplate
              => Sane(wolfTPM2_GetKeyTemplate_IDevID(a, bits, c, h))
<1> DEFINE iak == IdentityAttrs \cup {"restricted"}
           t == IF a = "RSA" THEN GetKeyTemplateRSA(h, iak, bits, "RSASSA")
                ELSE GetKeyTemplateECC(h, iak, c, "ECDSA")
           d == IF a = "RSA" THEN GetKeyTemplateRSA(h, IdentityAttrs, bits, "none")
                ELSE GetKeyTemplateECC(h, IdentityAttrs, c, "ECDSA")
           plain == IF a = "RSA" THEN "none" ELSE "ECDSA"
<1>1. ~IsParent(iak) /\ ~IsParent(IdentityAttrs) /\ h \in Hashes
  BY DEF IdentityAttrs, Fixed, IsParent
<1>2. /\ wolfTPM2_GetKeyTemplate_IAK(a, bits, c, h) = Provisioned(t, h, 3)
      /\ wolfTPM2_GetKeyTemplate_IDevID(a, bits, c, h) = Provisioned(d, h, 6)
  BY DEF wolfTPM2_GetKeyTemplate_IAK, wolfTPM2_GetKeyTemplate_IDevID
<1>3. GoodAttrs(iak, Signing(a), a) /\ GoodAttrs(IdentityAttrs, plain, a)
  BY SigningAttrs, IdentityIsGood
<1> HIDE DEF iak
<1>4. IsTemplate(t, a, h, iak, Signing(a)) /\ IsTemplate(d, a, h, IdentityAttrs, plain)
  <2>1. CASE a = "RSA"
    BY <1>1, <2>1, RsaIsKey DEF Signing
  <2>2. CASE a = "ECC"
    BY <1>1, <2>2, EccIsKey DEF Signing
  <2> QED
    BY <2>1, <2>2
<1> HIDE DEF t, d, plain
<1>5. Provisioned(t, h, 3) # NoTemplate => Sane(Provisioned(t, h, 3))
  BY <1>1, <1>3, <1>4, ProvisionedIsSane
<1>6. Provisioned(d, h, 6) # NoTemplate => Sane(Provisioned(d, h, 6))
  BY <1>1, <1>3, <1>4, ProvisionedIsSane
<1> QED
  BY <1>2, <1>5, <1>6

\* The endorsement keys: a policy of the size of the name hash, in the high
\* range an empty unique field.
LEMMA EndorsementIsSane ==
    ASSUME NEW t, NEW a \in {"RSA", "ECC"}, NEW h \in Hashes \ {"SHA1"}, NEW attrs,
           IsTemplate(t, a, h, attrs, "none"), GoodAttrs(attrs, "none", a),
           NEW u \in {0, t.unique}
    PROVE  Sane(Given(t, TPM2_GetHashDigestSize(h), u))
<1> DEFINE p == TPM2_GetHashDigestSize(h)
<1>1. p \in Nat \ {0} /\ h \in Hashes
  BY Digests
<1>2. u \in Nat /\ u =< GetKeyTemplateSize(t)
  BY DEF IsTemplate
<1> HIDE DEF p
<1>3. IsTemplate(Given(t, p, u), a, h, attrs, "none") /\ Given(t, p, u).policy = p
  BY <1>1, <1>2, Changed DEF p
<1>4. Sane(Given(t, p, u))
  BY <1>1, <1>3, KeyIsSane
<1> QED
  BY <1>4 DEF p

LEMMA RsaEkIsSane ==
    ASSUME NEW bits \in Nat, NEW h \in Hashes \ {"SHA1"}
    PROVE  /\ Sane(wolfTPM2_GetKeyTemplate_EK("RSA", bits, "none", h, TRUE))
           /\ Sane(wolfTPM2_GetKeyTemplate_EK("RSA", bits, "none", h, FALSE))
<1> DEFINE t(attrs) == GetKeyTemplateRSA(h, attrs, bits, "none")
           p == TPM2_GetHashDigestSize(h)
<1>1. h \in {"SHA256", "SHA384", "SHA512"} /\ h \in Hashes
  BY DEF Hashes
<1>2. \A attrs : t(attrs) # NoTemplate /\ IsTemplate(t(attrs), "RSA", h, attrs, "none")
  <2>1. \A attrs : t(attrs).type = "RSA"
    BY DEF GetKeyTemplateRSA, Template
  <2>2. NoTemplate.type = "none"
    BY DEF NoTemplate
  <2>3. \A attrs : IsTemplate(t(attrs), "RSA", h, attrs, "none")
    BY <1>1, RsaIsKey
  <2> HIDE DEF t
  <2>4. \A attrs : t(attrs) # NoTemplate
    BY <2>1, <2>2
  <2> QED
    BY <2>3, <2>4
<1>3. wolfTPM2_GetKeyTemplate_EK("RSA", bits, "none", h, TRUE) = Given(t(EKAttrs(TRUE)), p, 0)
  <2>1. \A x : x = t(EKAttrs(TRUE)) => x # NoTemplate
    BY <1>2
  <2> QED
    BY <1>1, <2>1 DEF wolfTPM2_GetKeyTemplate_EK, EKAttrs, Given, PolicyOf
<1>4. wolfTPM2_GetKeyTemplate_EK("RSA", bits, "none", h, FALSE)
         = Given(t(EKAttrs(FALSE)), p, t(EKAttrs(FALSE)).unique)
  <2>1. \A x : x = t(EKAttrs(FALSE)) => x # NoTemplate
    BY <1>2
  <2> QED
    BY <1>1, <2>1 DEF wolfTPM2_GetKeyTemplate_EK, EKAttrs, Given, PolicyOf
<1> HIDE DEF t
<1>5. Sane(Given(t(EKAttrs(TRUE)), p, 0))
  BY <1>2, EndorsementIsSane, EndorsementAttrs
<1>6. Sane(Given(t(EKAttrs(FALSE)), p, t(EKAttrs(FALSE)).unique))
  BY <1>2, EndorsementIsSane, EndorsementAttrs
<1> QED
  BY <1>3, <1>4, <1>5, <1>6

LEMMA EccEkIsSane ==
    ASSUME NEW c \in Curves, NEW h \in Hashes \ {"SHA1"}
    PROVE  /\ Sane(wolfTPM2_GetKeyTemplate_EK("ECC", 0, c, h, TRUE))
           /\ Sane(wolfTPM2_GetKeyTemplate_EK("ECC", 0, c, h, FALSE))
<1> DEFINE t(attrs) == GetKeyTemplateECC(h, attrs, c, "none")
           p == TPM2_GetHashDigestSize(h)
<1>1. h \in {"SHA256", "SHA384", "SHA512"} /\ h \in Hashes
  BY DEF Hashes
<1>2. \A attrs : t(attrs) # NoTemplate /\ IsTemplate(t(attrs), "ECC", h, attrs, "none")
  <2>1. \A attrs : IsTemplate(t(attrs), "ECC", h, attrs, "none")
    BY <1>1, EccIsKey
  <2> HIDE DEF t
  <2>2. NoTemplate.type = "none"
    BY DEF NoTemplate
  <2>3. \A attrs : t(attrs).type = "ECC"
    BY <2>1 DEF IsTemplate
  <2>4. \A attrs : t(attrs) # NoTemplate
    BY <2>2, <2>3
  <2> QED
    BY <2>1, <2>4
<1>3. wolfTPM2_GetKeyTemplate_EK("ECC", 0, c, h, TRUE) = Given(t(EKAttrs(TRUE)), p, 0)
  <2>1. \A x : x = t(EKAttrs(TRUE)) => x # NoTemplate
    BY <1>2
  <2> QED
    BY <1>1, <2>1 DEF wolfTPM2_GetKeyTemplate_EK, EKAttrs, Given, PolicyOf
<1>4. wolfTPM2_GetKeyTemplate_EK("ECC", 0, c, h, FALSE)
         = Given(t(EKAttrs(FALSE)), p, t(EKAttrs(FALSE)).unique)
  <2>1. \A x : x = t(EKAttrs(FALSE)) => x # NoTemplate
    BY <1>2
  <2> QED
    BY <1>1, <2>1 DEF wolfTPM2_GetKeyTemplate_EK, EKAttrs, Given, PolicyOf
<1> HIDE DEF t
<1>5. Sane(Given(t(EKAttrs(TRUE)), p, 0))
  BY <1>2, EndorsementIsSane, EndorsementAttrs
<1>6. Sane(Given(t(EKAttrs(FALSE)), p, t(EKAttrs(FALSE)).unique))
  BY <1>2, EndorsementIsSane, EndorsementAttrs
<1> QED
  BY <1>3, <1>4, <1>5, <1>6

LEMMA EkIndexIsSane ==
    ASSUME NEW i \in {2, 10, 18, 20, 22, 24, 28, 30}
    PROVE  Sane(wolfTPM2_GetKeyTemplate_EKIndex(i))
<1> DEFINE EK(alg, bits, curve, nameAlg) ==
               wolfTPM2_GetKeyTemplate_EK(alg, bits, curve, nameAlg, i >= 18)
           r == wolfTPM2_GetKeyTemplate_EKIndex(i)
<1>1. /\ i \in {2, 18} => r = EK("RSA", 2048, "none", "SHA256")
      /\ i = 28 => r = EK("RSA", 3072, "none", "SHA384")
      /\ i = 30 => r = EK("RSA", 4096, "none", "SHA512")
      /\ i \in {10, 20} => r = EK("ECC", 0, "P256", "SHA256")
      /\ i = 22 => r = EK("ECC", 0, "P384", "SHA384")
      /\ i = 24 => r = EK("ECC", 0, "P521", "SHA512")
  BY DEF wolfTPM2_GetKeyTemplate_EKIndex
<1>2. {"SHA256", "SHA384", "SHA512"} \subseteq Hashes \ {"SHA1"} /\ {"P256", "P384", "P521"} \subseteq Curves
  BY DEF Hashes, Curves
<1>3. \A bits \in Nat, h \in {"SHA256", "SHA384", "SHA512"} : Sane(EK("RSA", bits, "none", h))
  <2> DEFINE high == i >= 18
  <2>1. high \in BOOLEAN
    OBVIOUS
  <2>2. CASE i >= 18
    <3>1. high = TRUE
      BY <2>2
    <3> QED
      BY <1>2, <3>1, RsaEkIsSane
  <2>3. CASE ~(i >= 18)
    <3>1. high = FALSE
      BY <2>3
    <3> QED
      BY <1>2, <3>1, RsaEkIsSane
  <2> QED
    BY <2>2, <2>3
<1>4. \A c \in {"P256", "P384", "P521"}, h \in {"SHA256", "SHA384", "SHA512"} : Sane(EK("ECC", 0, c, h))
  <2> DEFINE high == i >= 18
  <2>2. CASE i >= 18
    <3>1. high = TRUE
      BY <2>2
    <3> QED
      BY <1>2, <3>1, EccEkIsSane
  <2>3. CASE ~(i >= 18)
    <3>1. high = FALSE
      BY <2>3
    <3> QED
      BY <1>2, <3>1, EccEkIsSane
  <2> QED
    BY <2>2, <2>3
<1> HIDE DEF r, EK
<1>5. Sane(r)
  BY <1>1, <1>3, <1>4
<1> QED
  BY <1>5 DEF r

\* Keys that are no asymmetric ones.
LEMMA OthersAreSane ==
    /\ Sane(wolfTPM2_GetKeyTemplate_KeyedHash({"sign"}))
    /\ \A h \in Hashes : Sane(wolfTPM2_GetKeyTemplate_KeySeal(h))
    /\ \A bits \in Nat, u \in {{"sign"}, {"decrypt"}, {"sign", "decrypt"}} :
          Sane(wolfTPM2_GetKeyTemplate_Symmetric(bits, u))
<1>1. Sane(wolfTPM2_GetKeyTemplate_KeyedHash({"sign"}))
  <2> DEFINE t == wolfTPM2_GetKeyTemplate_KeyedHash({"sign"})
             attrs == {"userWithAuth", "noDA"} \cup {"sign"}
  <2>1. t = Template("KEYEDHASH", "SHA256", attrs, 0, "none", "HMAC", 0, 0)
    BY DEF wolfTPM2_GetKeyTemplate_KeyedHash, WrapDigest
  <2>2. /\ attrs \cap {"sign", "decrypt"} = {"sign"} /\ "restricted" \notin attrs
        /\ "fixedTPM" \notin attrs /\ "adminWithPolicy" \notin attrs /\ "sign" \in attrs
        /\ ~IsParent(attrs)
    BY DEF IsParent
  <2> HIDE DEF t, attrs
  <2>3. /\ t.type = "KEYEDHASH" /\ t.nameAlg = "SHA256" /\ t.attrs = attrs /\ t.scheme = "HMAC"
        /\ t.policy = 0 /\ IsRecord(t)
    BY <2>1 DEF Template, IsRecord
  <2>4. Schemes(t) = {"HMAC"} /\ GetKeyTemplateSize(t) = 0 /\ TPM2_GetHashDigestSize("SHA256") = 32
    BY <2>2, <2>3 DEF Schemes, GetKeyTemplateSize, TPM2_GetHashDigestSize
  <2>5. Sane(t)
    BY <2>2, <2>3, <2>4 DEF Sane, Fine
  <2> QED
    BY <2>5 DEF t
<1>2. ASSUME NEW h \in Hashes PROVE Sane(wolfTPM2_GetKeyTemplate_KeySeal(h))
  <2> DEFINE t == wolfTPM2_GetKeyTemplate_KeySeal(h)
             attrs == {"fixedTPM", "fixedParent", "noDA"}
  <2>1. t = Template("KEYEDHASH", h, attrs, 0, "none", "none", 0, 0)
    BY DEF wolfTPM2_GetKeyTemplate_KeySeal
  <2>2. /\ attrs \cap {"sign", "decrypt"} = {} /\ "restricted" \notin attrs
        /\ "fixedParent" \in attrs /\ "adminWithPolicy" \notin attrs /\ ~IsParent(attrs)
    BY DEF IsParent
  <2> HIDE DEF t, attrs
  <2>3. /\ t.type = "KEYEDHASH" /\ t.nameAlg = h /\ t.attrs = attrs /\ t.scheme = "none"
        /\ t.policy = 0 /\ IsRecord(t)
    BY <2>1 DEF Template, IsRecord
  <2>4. GetKeyTemplateSize(t) = 0 /\ TPM2_GetHashDigestSize(h) > 0
    BY <2>3, Digests DEF GetKeyTemplateSize
  <2>5. Sane(t)
    BY <2>2, <2>3, <2>4 DEF Sane, Fine
  <2> QED
    BY <2>5 DEF t
<1>3. ASSUME NEW bits \in Nat, NEW u \in {{"sign"}, {"decrypt"}, {"sign", "decrypt"}}
      PROVE  Sane(wolfTPM2_GetKeyTemplate_Symmetric(bits, u))
  <2> DEFINE t == wolfTPM2_GetKeyTemplate_Symmetric(bits, u)
             attrs == {"origin", "userWithAuth", "noDA"} \cup u
  <2>1. t = Template("SYMCIPHER", "SHA256", attrs, bits, "none", "none", bits, bits \div 8)
    BY DEF wolfTPM2_GetKeyTemplate_Symmetric, WrapDigest
  <2>2. /\ attrs \cap {"sign", "decrypt"} # {} /\ "restricted" \notin attrs
        /\ "fixedTPM" \notin attrs /\ "adminWithPolicy" \notin attrs
    OBVIOUS
  <2> HIDE DEF t, attrs
  <2>3. /\ t.type = "SYMCIPHER" /\ t.nameAlg = "SHA256" /\ t.attrs = attrs /\ t.scheme = "none"
        /\ t.policy = 0 /\ t.bits = bits /\ t.unique = bits \div 8 /\ IsRecord(t)
    BY <2>1 DEF Template, IsRecord
  <2>4. GetKeyTemplateSize(t) = bits \div 8 /\ TPM2_GetHashDigestSize("SHA256") = 32 /\ bits \div 8 \in Nat
    BY <2>3 DEF GetKeyTemplateSize, TPM2_GetHashDigestSize
  <2>5. Sane(t)
    BY <2>2, <2>3, <2>4 DEF Sane, Fine
  <2> QED
    BY <2>5 DEF t
<1> QED
  BY <1>1, <1>2, <1>3

\* The templates of the parameterised getters.
LEMMA RsaIsSane ==
    ASSUME NEW h \in Hashes, NEW attrs, NEW bits \in Nat,
           GoodAttrs(attrs, "none", "RSA"), "adminWithPolicy" \notin attrs
    PROVE  Sane(GetKeyTemplateRSA(h, attrs, bits, "none"))
BY RsaIsKey, KeyIsSane

LEMMA EccIsSane ==
    ASSUME NEW h \in Hashes, NEW attrs, NEW c \in Curves, NEW scheme,
           GoodAttrs(attrs, scheme, "ECC"), "adminWithPolicy" \notin attrs
    PROVE  Sane(GetKeyTemplateECC(h, attrs, c, scheme))
BY EccIsKey, KeyIsSane

LEMMA GottenIsSane ==
    ASSUME NEW t, t.bits \in Nat, t # NoTemplate, Gotten(t)
    PROVE  Sane(t)
<1>1. "adminWithPolicy" \notin Storage /\ \A u \in {{"sign"}, {"decrypt"}, {"sign", "decrypt"}} :
                                              "adminWithPolicy" \notin Leaf \cup u
  BY DEF Storage, Leaf
<1>2. WrapDigest \in Hashes
  BY DEF WrapDigest, Hashes
<1>3. ASSUME NEW i \in {2, 10, 18, 20, 22, 24, 28, 30}, t = wolfTPM2_GetKeyTemplate_EKIndex(i)
      PROVE  Sane(t)
  BY <1>3, EkIndexIsSane
<1>4. ASSUME NEW a \in {"RSA", "ECC"},
             \/ t = wolfTPM2_GetKeyTemplate_SRK(a)
             \/ t = wolfTPM2_GetKeyTemplate_AIK(a)
             \/ \E c \in Curves, h \in Hashes \ {"SHA1"} :
                   \/ t = wolfTPM2_GetKeyTemplate_IAK(a, t.bits, c, h)
                   \/ t = wolfTPM2_GetKeyTemplate_IDevID(a, t.bits, c, h)
      PROVE  Sane(t)
  <2> DEFINE bits == t.bits
  <2>1. bits \in Nat
    OBVIOUS
  <2> HIDE DEF bits
  <2>2. ASSUME NEW c \in Curves, NEW h \in Hashes \ {"SHA1"},
               \/ t = wolfTPM2_GetKeyTemplate_IAK(a, bits, c, h)
               \/ t = wolfTPM2_GetKeyTemplate_IDevID(a, bits, c, h)
        PROVE  Sane(t)
    BY <2>1, <2>2, IdentityIsSane
  <2>3. t = wolfTPM2_GetKeyTemplate_SRK(a) \/ t = wolfTPM2_GetKeyTemplate_AIK(a) => Sane(t)
    BY SrkIsSane, AikIsSane
  <2> QED
    BY <1>4, <2>2, <2>3 DEF bits
<1>5. ASSUME NEW h \in Hashes,
             \/ t = GetKeyTemplateRSA(h, Storage, t.bits, "none")
             \/ \E c \in Curves : t = GetKeyTemplateECC(h, Storage, c, "none")
             \/ t = wolfTPM2_GetKeyTemplate_KeySeal(h)
      PROVE  Sane(t)
  <2> DEFINE bits == t.bits
  <2>1. bits \in Nat
    OBVIOUS
  <2> HIDE DEF bits
  <2>2. Sane(GetKeyTemplateRSA(h, Storage, bits, "none"))
    BY <1>1, <2>1, RsaIsSane, StorageAttrs
  <2>3. \A c \in Curves : Sane(GetKeyTemplateECC(h, Storage, c, "none"))
    BY <1>1, EccIsSane, StorageAttrs
  <2> QED
    BY <1>5, <2>2, <2>3, OthersAreSane DEF bits
<1>6. ASSUME NEW u \in {{"sign"}, {"decrypt"}, {"sign", "decrypt"}},
             \/ t = wolfTPM2_GetKeyTemplate_RSA(Leaf \cup u)
             \/ t = wolfTPM2_GetKeyTemplate_Symmetric(t.bits, u)
      PROVE  Sane(t)
  <2>1. MaxRsaBytes * 8 \in Nat
    BY RsaAssumption
  <2>2. Sane(wolfTPM2_GetKeyTemplate_RSA(Leaf \cup u))
    <3> DEFINE attrs == Leaf \cup u
               bits == MaxRsaBytes * 8
    <3>1. GoodAttrs(attrs, "none", "RSA") /\ "adminWithPolicy" \notin attrs
      BY <1>1, LeafAttrs
    <3> HIDE DEF attrs, bits
    <3>2. Sane(GetKeyTemplateRSA(WrapDigest, attrs, bits, "none"))
      BY <1>2, <2>1, <3>1, RsaIsSane DEF bits
    <3> QED
      BY <3>2 DEF wolfTPM2_GetKeyTemplate_RSA, attrs, bits
  <2> QED
    BY <1>6, <2>2, OthersAreSane
<1>7. ASSUME NEW c \in Curves,
             \/ t = wolfTPM2_GetKeyTemplate_ECC(Leaf \cup {"sign"}, c, "ECDSA")
             \/ t = wolfTPM2_GetKeyTemplate_ECC(Leaf \cup {"decrypt"}, c, "ECDH")
      PROVE  Sane(t)
  <2>1. "adminWithPolicy" \notin Leaf \cup {"sign"} /\ "adminWithPolicy" \notin Leaf \cup {"decrypt"}
    BY <1>1
  <2>2. Sane(GetKeyTemplateECC(WrapDigest, Leaf \cup {"sign"}, c, "ECDSA"))
    BY <1>2, <2>1, EccIsSane, LeafAttrs
  <2>3. Sane(GetKeyTemplateECC(WrapDigest, Leaf \cup {"decrypt"}, c, "ECDH"))
    BY <1>2, <2>1, EccIsSane, LeafAttrs
  <2> QED
    BY <1>7, <2>2, <2>3 DEF wolfTPM2_GetKeyTemplate_ECC
<1> QED
  BY <1>3, <1>4, <1>5, <1>6, <1>7, OthersAreSane DEF Gotten

\* Every template the getters return for documented arguments, with any unique
\* field of the caller's, is one a TPM creates (wolfTPM2_GetKeyTemplate_*,
\* wolfTPM2_SetKeyTemplate_Unique).
THEOREM TemplatesAreAccepted == Spec => []TemplateAccepted
<1>1. ASSUME NEW r \in Templates, r.meant PROVE r.made # NoTemplate /\ TpmCreates(r.made)
  <2> DEFINE t == r.made
  <2>1. t # NoTemplate /\ (Gotten(t) \/ WithUnique(t))
    BY <1>1, MeantAssumption
  <2>2. t \in TemplateRecords
    BY <2>1, TemplateAssumption
  <2> HIDE DEF t
  <2>3. t.bits \in Nat
    BY <2>2 DEF TemplateRecords
  <2>4. CASE Gotten(t)
    BY <2>1, <2>3, <2>4, GottenIsSane, FineIsCreated DEF Sane, t
  <2>5. CASE WithUnique(t)
    <3> DEFINE got == [t EXCEPT !.unique = GetKeyTemplateSize(t)]
    <3>1. PICK n \in 0 .. 2 * MaxRsaBytes : Gotten(got) /\ t = wolfTPM2_SetKeyTemplate_Unique(got, n)
      BY <2>5 DEF WithUnique
    <3>2. got.bits \in Nat /\ got.type \in {"RSA", "ECC", "SYMCIPHER", "KEYEDHASH"} /\ n \in Nat
      BY <2>2, RsaAssumption DEF TemplateRecords
    <3> HIDE DEF got
    <3>3. got # NoTemplate
      BY <3>2 DEF NoTemplate
    <3>4. Sane(t)
      BY <2>1, <3>1, <3>2, <3>3, GottenIsSane, UniqueIsSane
    <3> QED
      BY <2>1, <3>4, FineIsCreated DEF Sane, t
  <2> QED
    BY <2>1, <2>4, <2>5
<1>2. Init => TemplateAccepted
  BY DEF Init, TemplateAccepted
<1>3. TemplateAccepted /\ [Next]_vars => TemplateAccepted'
  <2> SUFFICES ASSUME TemplateAccepted, [Next]_vars PROVE TemplateAccepted'
    OBVIOUS
  <2>1. ASSUME NEW r \in Templates, CreatePrimary(r) PROVE TemplateAccepted'
    <3>1. Returns("create", r.meant, r.made # NoTemplate /\ TpmCreates(r.made))
      BY <2>1 DEF CreatePrimary
    <3>2. last'.meant = r.meant /\ last'.ok = (r.made # NoTemplate /\ TpmCreates(r.made))
      BY <3>1 DEF Returns
    <3> QED
      BY <1>1, <3>2 DEF TemplateAccepted
  <2>2. CASE UNCHANGED vars
    BY <2>2 DEF vars, TemplateAccepted
  <2>3. CASE last'.op # "create"
    BY <2>3 DEF TemplateAccepted
  <2>4. \A op, meant, ok : Returns(op, meant, ok) => last'.op = op
    BY DEF Returns
  <2>5. ASSUME NEW a \in Starts, NEW z \in 0 .. 1,
               StartSession(a.kind, a.salted, a.bind, a.sym, z)
        PROVE  last'.op # "create"
    BY <2>4, <2>5 DEF StartSession, Quiet
  <2>6. ASSUME NEW o \in Objects,
               wolfTPM2_PolicyAuthValue(o) \/ wolfTPM2_PolicyPassword(o)
        PROVE  last'.op # "create"
    BY <2>4, <2>6 DEF wolfTPM2_PolicyAuthValue, wolfTPM2_PolicyPassword, Quiet
  <2>7. ASSUME PolicyOther PROVE last'.op # "create"
    BY <2>4, <2>7 DEF PolicyOther, Quiet
  <2>8. ASSUME NEW i, NEW s, NEW attrs, NEW o,
               \/ wolfTPM2_SetAuthSession(i, s, attrs) \/ wolfTPM2_SetAuthHandle(i, o)
               \/ wolfTPM2_SetAuthHandleName(i, o) \/ wolfTPM2_UnsetAuth(i)
        PROVE  last'.op # "create"
    BY <2>4, <2>8 DEF wolfTPM2_SetAuthSession, wolfTPM2_SetAuthHandle,
                      wolfTPM2_SetAuthHandleName, wolfTPM2_UnsetAuth, Quiet
  <2>9. ASSUME NEW o \in Objects, NEW f, Command(o, f) PROVE last'.op # "create"
    <3>1. \E meant, ok : Returns("command", meant, ok)
      BY <2>9 DEF Command
    <3> QED
      BY <2>4, <3>1
  <2>10. ASSUME NEW nameAlg, NEW z, ImportPrivateKey(nameAlg, z) PROVE last'.op # "create"
    <3>1. \E meant, ok : Returns("import", meant, ok)
      BY <2>10 DEF ImportPrivateKey
    <3> QED
      BY <2>4, <3>1
  <2> QED
    BY <2>1, <2>2, <2>3, <2>5, <2>6, <2>7, <2>8, <2>9, <2>10 DEF Next
<1> QED
  BY <1>2, <1>3, PTL DEF Spec
=============================================================================

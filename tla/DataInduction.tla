---------------------------- MODULE DataInduction ----------------------------
(***************************************************************************)
(* Induction over data.  The proofs about sums, folds and recursive        *)
(* functions of this project rest on one fact, that a nonempty set of      *)
(* naturals has a least element: a property holds of all data when no      *)
(* smallest piece of data violates it.                                     *)
(*                                                                         *)
(* A recursive function is first shown to exist.  It is described by what  *)
(* it is made of: a domain D, the rank of each element, the smaller        *)
(* element c[d] it recurs to, the value B[d] where it does not recur, and  *)
(* the value F[<<d, v>>] made of the value v at c[d].                      *)
(***************************************************************************)
EXTENDS Integers, FiniteSets, FiniteSetsExt, FiniteSetTheorems, WellFoundedInduction, TLAPS

\* Every nonempty set of naturals has a least element.
LEMMA LeastNatural ==
    ASSUME NEW T \in SUBSET Nat, T # {}
    PROVE  \E n \in T : \A m \in T : n <= m
<1>1. PICK n \in T : \A m \in T : ~ (<<m, n>> \in OpToRel(<, Nat))
  BY NatLessThanWellFounded, WFMin
<1>2. ASSUME NEW m \in T
      PROVE  ~(m < n)
  <2>1. <<m, n>> \in Nat \X Nat
    BY SMT
  <2>2. <<m, n>>[1] = m /\ <<m, n>>[2] = n
    BY SMT
  <2> QED BY <1>1, <2>1, <2>2, Zenon DEF OpToRel
<1>3. \A m \in T : n <= m
  BY <1>2, SMT
<1> QED BY <1>3

\* Every nonempty set of naturals up to a bound has a greatest element.
LEMMA GreatestNatural ==
    ASSUME NEW n \in Nat, NEW T \in SUBSET (0..n), T # {}
    PROVE  \E x \in T : \A y \in T : y <= x
<1> DEFINE Gaps == {n - x : x \in T}
<1>1. \A x \in T : x \in 0..n
  OBVIOUS
<1>2. Gaps \in SUBSET Nat /\ Gaps # {}
  <2>1. \A x \in 0..n : n - x \in Nat
    OBVIOUS
  <2> QED BY <1>1, <2>1
<1>3. PICK g \in Gaps : \A h \in Gaps : g <= h
  <2> HIDE DEF Gaps
  <2> QED BY <1>2, LeastNatural
<1>4. PICK x \in T : g = n - x
  BY <1>3
<1>5. ASSUME NEW y \in T
      PROVE  y <= x
  <2>1. n - x <= n - y /\ x \in 0..n /\ y \in 0..n
    BY <1>1, <1>3, <1>4
  <2> QED BY <2>1
<1> QED BY <1>5

\* What holds of zero and carries over from each number to the next holds up to
\* a bound.
LEMMA CountingUp ==
    ASSUME NEW m \in Nat, NEW T, 0 \in T, \A n \in 1..m : n - 1 \in T => n \in T
    PROVE  m \in T
<1> DEFINE Bad == (0..m) \ T
<1>1. CASE Bad = {}
  BY <1>1
<1>2. CASE Bad # {}
  <2>1. PICK n \in Bad : \A k \in Bad : n <= k
    <3>1. Bad \in SUBSET Nat
      OBVIOUS
    <3> HIDE DEF Bad
    <3> QED BY <1>2, <3>1, LeastNatural
  <2>2. n \in 0..m /\ n \notin T /\ n # 0
    BY <2>1
  <2>3. n \in 1..m /\ n - 1 \in 0..m /\ ~(n <= n - 1)
    BY <2>2
  <2>4. n - 1 \in T
    BY <2>1, <2>3
  <2> QED BY <2>2, <2>3, <2>4
<1> QED BY <1>1, <1>2

\* Of the subsets of a finite set that violate something, one is smallest.
LEMMA SmallestSet ==
    ASSUME NEW S, IsFiniteSet(S), NEW T \in SUBSET SUBSET S, T # {}
    PROVE  \E U \in T : \A V \in SUBSET U : V # U => V \notin T
<1>1. PICK U \in T : \A V \in T : Cardinality(U) <= Cardinality(V)
  <2>1. \A V \in T : Cardinality(V) \in Nat
    BY FS_Subset, FS_CardinalityType
  <2> DEFINE Sizes == {Cardinality(V) : V \in T}
  <2>2. Sizes \in SUBSET Nat /\ Sizes # {}
    BY <2>1
  <2>3. PICK n \in Sizes : \A m \in Sizes : n <= m
    <3> HIDE DEF Sizes
    <3> QED BY <2>2, LeastNatural
  <2> QED BY <2>3
<1>2. ASSUME NEW V \in SUBSET U, V # U, V \in T PROVE FALSE
  <2>1. IsFiniteSet(U)
    BY FS_Subset
  <2>2. IsFiniteSet(V) /\ Cardinality(V) <= Cardinality(U) /\ (Cardinality(U) = Cardinality(V) => U = V)
    BY <2>1, FS_Subset
  <2>3. Cardinality(U) \in Nat /\ Cardinality(V) \in Nat
    BY <2>1, <2>2, FS_CardinalityType
  <2> QED BY <2>2, <2>3, <1>1, <1>2
<1> QED BY <1>2

-----------------------------------------------------------------------------
\* The elements of D up to a rank.
Below(D, rank, n) == {d \in D : rank[d] <= n}
\* The function it obeys the equation on E.
Unfolds(it, E, c, B, F) ==
    \A d \in E : it[d] = IF d \in DOMAIN B THEN B[d] ELSE F[<<d, it[c[d]]>>]

\* Two functions that unfold alike are alike ...
LEMMA RecursionUnique ==
    ASSUME NEW D, NEW rank \in [D -> Nat], NEW c, NEW B, NEW F,
           \A d \in D : d \notin DOMAIN B => c[d] \in D /\ rank[c[d]] < rank[d],
           NEW n \in Nat, NEW m \in Nat, n <= m,
           NEW f, NEW g, Unfolds(f, Below(D, rank, n), c, B, F), Unfolds(g, Below(D, rank, m), c, B, F)
    PROVE  \A d \in Below(D, rank, n) : f[d] = g[d]
<1> DEFINE Bad == {rank[d] : d \in {e \in Below(D, rank, n) : f[e] # g[e]}}
<1>1. Bad \in SUBSET Nat
  BY DEF Below
<1>2. CASE Bad = {}
  BY <1>2
<1>3. CASE Bad # {}
  <2>1. PICK k \in Bad : \A j \in Bad : k <= j
    <3> HIDE DEF Bad
    <3> QED BY <1>1, <1>3, LeastNatural
  <2>2. PICK d \in Below(D, rank, n) : f[d] # g[d] /\ rank[d] = k
    BY <2>1
  <2>3. d \in D /\ d \in Below(D, rank, m) /\ rank[d] \in Nat /\ rank[d] <= n
    BY <2>2 DEF Below
  <2>4. d \notin DOMAIN B
    BY <2>2, <2>3 DEF Unfolds
  <2>5. c[d] \in D /\ rank[c[d]] < rank[d] /\ rank[c[d]] \in Nat
    BY <2>3, <2>4
  <2>6. c[d] \in Below(D, rank, n)
    BY <2>3, <2>5 DEF Below
  <2>7. f[c[d]] = g[c[d]]
    <3> SUFFICES ASSUME f[c[d]] # g[c[d]]
                 PROVE  FALSE
      OBVIOUS
    <3>1. rank[c[d]] \in Bad
      BY <2>6
    <3>2. k <= rank[c[d]] /\ k \in Nat
      BY <3>1, <2>1, <1>1
    <3> QED BY <3>2, <2>2, <2>5
  <2> QED BY <2>2, <2>3, <2>4, <2>7 DEF Unfolds
<1> QED BY <1>2, <1>3

\* ... there is one up to any rank ...
LEMMA RecursionUpTo ==
    ASSUME NEW D, NEW rank \in [D -> Nat], NEW c, NEW B, NEW F, NEW Typ,
           \A d \in D : d \notin DOMAIN B => c[d] \in D /\ rank[c[d]] < rank[d],
           \A d \in D \cap DOMAIN B : B[d] \in Typ,
           \A d \in D, v \in Typ : d \notin DOMAIN B => F[<<d, v>>] \in Typ,
           NEW n \in Nat
    PROVE  \E it \in [Below(D, rank, n) -> Typ] : Unfolds(it, Below(D, rank, n), c, B, F)
<1> DEFINE Has(k) == \E it \in [Below(D, rank, k) -> Typ] : Unfolds(it, Below(D, rank, k), c, B, F)
           Bad == {k \in Nat : ~Has(k)}
<1>1. CASE Bad = {}
  BY <1>1
<1>2. CASE Bad # {}
  <2>1. PICK k \in Bad : \A j \in Bad : k <= j
    <3>1. Bad \in SUBSET Nat
      OBVIOUS
    <3> HIDE DEF Bad
    <3> QED BY <3>1, <1>2, LeastNatural
  <2>2. PICK f : /\ k # 0 => f \in [Below(D, rank, k - 1) -> Typ] /\ Unfolds(f, Below(D, rank, k - 1), c, B, F)
    <3>1. k # 0 => k - 1 \in Nat /\ ~(k <= k - 1)
      OBVIOUS
    <3>2. k # 0 => Has(k - 1)
      BY <2>1, <3>1
    <3> QED BY <3>2
  <2> DEFINE g == [d \in Below(D, rank, k) |-> IF d \in DOMAIN B THEN B[d] ELSE F[<<d, f[c[d]]>>]]
  <2>3. ASSUME NEW d \in Below(D, rank, k), d \notin DOMAIN B
        PROVE  k # 0 /\ c[d] \in Below(D, rank, k - 1) /\ f[c[d]] \in Typ /\ c[d] \in Below(D, rank, k)
               /\ g[c[d]] = f[c[d]]
    <3>1. d \in D /\ rank[d] \in Nat /\ rank[d] <= k
      BY DEF Below
    <3>2. c[d] \in D /\ rank[c[d]] \in Nat /\ rank[c[d]] < rank[d]
      BY <2>3, <3>1
    <3>3. k # 0 /\ rank[c[d]] <= k - 1
      BY <3>1, <3>2
    <3>4. c[d] \in Below(D, rank, k - 1) /\ c[d] \in Below(D, rank, k)
      BY <3>2, <3>3 DEF Below
    <3>5. g[c[d]] = f[c[d]]
      BY <3>4, <3>3, <2>2 DEF Unfolds
    <3> QED BY <3>3, <3>4, <3>5, <2>2
  <2>4. g \in [Below(D, rank, k) -> Typ]
    <3> SUFFICES ASSUME NEW d \in Below(D, rank, k)
                 PROVE  g[d] \in Typ
      OBVIOUS
    <3>1. d \in D
      BY DEF Below
    <3> QED BY <3>1, <2>3
  <2>5. Unfolds(g, Below(D, rank, k), c, B, F)
    BY <2>3 DEF Unfolds
  <2> QED BY <2>1, <2>4, <2>5
<1> QED BY <1>1, <1>2

\* ... and hence one on the whole domain.
LEMMA RecursionExists ==
    ASSUME NEW D, NEW rank \in [D -> Nat], NEW c, NEW B, NEW F, NEW Typ,
           \A d \in D : d \notin DOMAIN B => c[d] \in D /\ rank[c[d]] < rank[d],
           \A d \in D \cap DOMAIN B : B[d] \in Typ,
           \A d \in D, v \in Typ : d \notin DOMAIN B => F[<<d, v>>] \in Typ
    PROVE  \E it \in [D -> Typ] : Unfolds(it, D, c, B, F)
<1> DEFINE Up(n) == CHOOSE it \in [Below(D, rank, n) -> Typ] : Unfolds(it, Below(D, rank, n), c, B, F)
           g == [d \in D |-> Up(rank[d])[d]]
<1>1. ASSUME NEW n \in Nat
      PROVE  Up(n) \in [Below(D, rank, n) -> Typ] /\ Unfolds(Up(n), Below(D, rank, n), c, B, F)
  BY RecursionUpTo
<1>2. ASSUME NEW d \in D
      PROVE  rank[d] \in Nat /\ d \in Below(D, rank, rank[d]) /\ g[d] = Up(rank[d])[d] /\ g[d] \in Typ
  <2>1. rank[d] \in Nat
    OBVIOUS
  <2>2. d \in Below(D, rank, rank[d])
    BY <2>1 DEF Below
  <2> HIDE DEF Up
  <2> QED BY <1>1, <2>1, <2>2
<1>3. g \in [D -> Typ]
  BY <1>2
<1>4. ASSUME NEW d \in D
      PROVE  g[d] = IF d \in DOMAIN B THEN B[d] ELSE F[<<d, g[c[d]]>>]
  <2>1. g[d] = IF d \in DOMAIN B THEN B[d] ELSE F[<<d, Up(rank[d])[c[d]]>>]
    <3> HIDE DEF Up, g
    <3> QED BY <1>1, <1>2 DEF Unfolds
  <2>2. CASE d \notin DOMAIN B
    <3> DEFINE e == c[d]
    <3>1. e \in D /\ rank[e] < rank[d]
      BY <2>2
    <3>2. rank[e] \in Nat /\ rank[d] \in Nat /\ rank[e] <= rank[d] /\ e \in Below(D, rank, rank[e])
      BY <3>1, <1>2
    <3>3. Up(rank[e])[e] = Up(rank[d])[e]
      <4> HIDE DEF Up
      <4>1. \A x \in Below(D, rank, rank[e]) : Up(rank[e])[x] = Up(rank[d])[x]
        BY <1>1, <3>2, RecursionUnique
      <4> QED BY <3>2, <4>1
    <3>4. g[e] = Up(rank[d])[e]
      <4>1. g[e] = Up(rank[e])[e]
        BY <3>1, <1>2
      <4> HIDE DEF Up, g
      <4> QED BY <4>1, <3>3
    <3>5. g[c[d]] = Up(rank[d])[c[d]]
      BY <3>4
    <3> HIDE DEF Up, g, e
    <3> QED BY <2>1, <2>2, <3>5
  <2> QED BY <2>1, <2>2
<1>5. Unfolds(g, D, c, B, F)
  BY <1>4 DEF Unfolds
<1> QED BY <1>3, <1>5

-----------------------------------------------------------------------------
\* The sum of w[s] over the elements s of S.
Total(w, S) == MapThenSumSet(LAMBDA s : w[s], S)
One(S) == CHOOSE x \in S : TRUE
\* What the fold defines by recursion on the subsets of S.
IsSum(it, w, S) == it = [s \in SUBSET S |-> IF s = {} THEN 0 ELSE w[One(s)] + it[s \ {One(s)}]]

LEMMA SumExists ==
    ASSUME NEW S, IsFiniteSet(S), NEW w, \A x \in S : w[x] \in Nat
    PROVE  \E it \in [SUBSET S -> Nat] : IsSum(it, w, S)
<1> DEFINE D == SUBSET S
           rank == [s \in D |-> Cardinality(s)]
           c == [s \in D |-> s \ {One(s)}]
           B == [s \in {{}} |-> 0]
           F == [p \in D \X Nat |-> w[One(p[1])] + p[2]]
<1>1. rank \in [D -> Nat]
  BY FS_Subset, FS_CardinalityType
<1>2. ASSUME NEW s \in D, s # {}
      PROVE  One(s) \in s /\ c[s] \in D /\ rank[c[s]] < rank[s]
  <2>1. One(s) \in s
    BY <1>2 DEF One
  <2>2. IsFiniteSet(s) /\ c[s] \in D /\ c[s] = s \ {One(s)}
    BY FS_Subset
  <2>3. Cardinality(c[s]) = Cardinality(s) - 1 /\ Cardinality(s) \in Nat
    BY <2>1, <2>2, FS_RemoveElement, FS_CardinalityType
  <2> QED BY <2>1, <2>2, <2>3
<1>3. \A s \in D : s \notin DOMAIN B => c[s] \in D /\ rank[c[s]] < rank[s]
  BY <1>2
<1>4. ASSUME NEW s \in D, NEW v \in Nat, s # {}
      PROVE  F[<<s, v>>] = w[One(s)] + v /\ F[<<s, v>>] \in Nat
  <2>1. One(s) \in s /\ s \subseteq S
    BY <1>2, <1>4
  <2>2. w[One(s)] \in Nat
    BY <2>1
  <2>3. F[<<s, v>>] = w[One(s)] + v
    OBVIOUS
  <2> QED BY <2>2, <2>3
<1>5. DOMAIN B = {{}} /\ B[{}] = 0
  OBVIOUS
<1>6. PICK it \in [D -> Nat] : Unfolds(it, D, c, B, F)
  <2>1. \A s \in D : s \notin DOMAIN B => c[s] \in D /\ rank[c[s]] < rank[s]
    BY <1>3
  <2>2. \A s \in D, v \in Nat : s \notin DOMAIN B => F[<<s, v>>] \in Nat
    BY <1>4, <1>5
  <2>3. \A s \in D \cap DOMAIN B : B[s] \in Nat
    BY <1>5
  <2> HIDE DEF rank, c, B, F, D
  <2> QED BY <1>1, <2>1, <2>2, <2>3, RecursionExists
<1>7. ASSUME NEW s \in D
      PROVE  it[s] = IF s = {} THEN 0 ELSE w[One(s)] + it[s \ {One(s)}]
  <2>1. CASE s = {}
    BY <1>5, <1>6, <2>1 DEF Unfolds
  <2>2. CASE s # {}
    <3>1. it[s] = F[<<s, it[c[s]]>>]
      BY <1>5, <1>6, <2>2 DEF Unfolds
    <3>2. c[s] = s \ {One(s)} /\ it[c[s]] \in Nat
      BY <1>2, <1>6, <2>2
    <3> QED BY <1>4, <2>2, <3>1, <3>2
  <2> QED BY <2>1, <2>2
<1> QED BY <1>6, <1>7 DEF IsSum

\* It does not matter within which set a sum is taken.
LEMMA SumOfSubset ==
    ASSUME NEW S, IsFiniteSet(S), NEW w, NEW f, NEW g,
           NEW T, T \subseteq S, IsSum(f, w, S), IsSum(g, w, T)
    PROVE  f[T] = g[T]
<1> DEFINE Bad == {U \in SUBSET T : f[U] # g[U]}
<1>1. CASE Bad = {}
  BY <1>1
<1>2. CASE Bad # {}
  <2>1. Bad \in SUBSET SUBSET T /\ IsFiniteSet(T)
    BY FS_Subset
  <2>2. PICK U \in Bad : \A V \in SUBSET U : V # U => V \notin Bad
    <3> HIDE DEF Bad
    <3> QED BY <1>2, <2>1, SmallestSet
  <2>3. U \in SUBSET T /\ U \in SUBSET S /\ f[U] # g[U]
    BY <2>2
  <2>4. U # {}
    BY <2>3 DEF IsSum
  <2>5. One(U) \in U
    BY <2>4 DEF One
  <2>6. f[U \ {One(U)}] = g[U \ {One(U)}]
    BY <2>2, <2>3, <2>5
  <2> QED BY <2>3, <2>4, <2>6 DEF IsSum
<1> QED BY <1>1, <1>2

\* A sum unfolds at the element it chooses.
LEMMA TotalUnfolds ==
    ASSUME NEW S, IsFiniteSet(S), NEW w, \A x \in S : w[x] \in Nat
    PROVE  /\ Total(w, S) \in Nat
           /\ Total(w, {}) = 0
           /\ S # {} => One(S) \in S /\ Total(w, S) = w[One(S)] + Total(w, S \ {One(S)})
<1> DEFINE It(T) == CHOOSE it : IsSum(it, w, T)
<1>1. ASSUME NEW T \in SUBSET S
      PROVE  IsSum(It(T), w, T) /\ Total(w, T) = It(T)[T] /\ Total(w, T) \in Nat
  <2>1. IsFiniteSet(T) /\ \A x \in T : w[x] \in Nat
    BY FS_Subset
  <2>2. PICK it \in [SUBSET T -> Nat] : IsSum(it, w, T)
    BY <2>1, SumExists
  <2>3. IsSum(It(T), w, T)
    BY <2>2
  <2>4. Total(w, T) = It(T)[T]
    BY DEF Total, MapThenSumSet, MapThenFoldSet, IsSum, One
  <2>5. It(T)[T] = it[T]
    <3> HIDE DEF It
    <3>1. ASSUME NEW f, IsSum(f, w, T)
          PROVE  f[T] = it[T]
      <4>1. T \subseteq T /\ IsFiniteSet(T) /\ \A x \in T : w[x] \in Nat
        BY <2>1
      <4>2. IsSum(it, w, T)
        BY <2>2
      <4> QED BY <3>1, <4>1, <4>2, SumOfSubset
    <3> QED BY <2>3, <3>1
  <2>6. it[T] \in Nat
    BY <2>2
  <2> QED BY <2>3, <2>4, <2>5, <2>6
<1>2. Total(w, {}) = 0
  <2> HIDE DEF It
  <2> QED BY <1>1 DEF IsSum
<1>3. CASE S # {}
  <2> HIDE DEF It
  <2>1. One(S) \in S
    BY <1>3 DEF One
  <2>2. It(S)[S] = w[One(S)] + It(S)[S \ {One(S)}]
    BY <1>1, <1>3 DEF IsSum
  <2>3. It(S)[S \ {One(S)}] = It(S \ {One(S)})[S \ {One(S)}]
    BY <1>1, SumOfSubset
  <2> QED BY <1>1, <1>2, <2>1, <2>2, <2>3
<1> QED BY <1>1, <1>2, <1>3

\* Only the weights within the set matter.
LEMMA TotalAgrees ==
    ASSUME NEW S, IsFiniteSet(S), NEW w, NEW v, \A x \in S : w[x] \in Nat /\ v[x] = w[x]
    PROVE  Total(v, S) = Total(w, S)
<1> DEFINE Bad == {T \in SUBSET S : Total(v, T) # Total(w, T)}
<1>1. CASE Bad = {}
  BY <1>1
<1>2. CASE Bad # {}
  <2>1. PICK T \in Bad : \A V \in SUBSET T : V # T => V \notin Bad
    <3>1. Bad \in SUBSET SUBSET S
      OBVIOUS
    <3> HIDE DEF Bad
    <3> QED BY <1>2, <3>1, SmallestSet
  <2>2. IsFiniteSet(T) /\ T \in SUBSET S /\ Total(v, T) # Total(w, T)
    BY <2>1, FS_Subset
  <2>3. /\ Total(w, {}) = 0
        /\ T # {} => One(T) \in T /\ Total(w, T) = w[One(T)] + Total(w, T \ {One(T)})
    BY <2>2, TotalUnfolds
  <2>4. /\ Total(v, {}) = 0
        /\ T # {} => Total(v, T) = v[One(T)] + Total(v, T \ {One(T)})
    BY <2>2, TotalUnfolds
  <2>5. T # {}
    BY <2>2, <2>3, <2>4
  <2>6. Total(v, T \ {One(T)}) = Total(w, T \ {One(T)})
    BY <2>1, <2>2, <2>3, <2>5
  <2> QED BY <2>2, <2>3, <2>4, <2>5, <2>6
<1> QED BY <1>1, <1>2

\* Any element may be taken out of a sum.
LEMMA TotalWithout ==
    ASSUME NEW S, IsFiniteSet(S), NEW w, \A x \in S : w[x] \in Nat, NEW e \in S
    PROVE  Total(w, S) = w[e] + Total(w, S \ {e})
<1> DEFINE Bad == {T \in SUBSET S : \E x \in T : Total(w, T) # w[x] + Total(w, T \ {x})}
<1>1. CASE Bad = {}
  BY <1>1
<1>2. CASE Bad # {}
  <2>1. PICK T \in Bad : \A V \in SUBSET T : V # T => V \notin Bad
    <3>1. Bad \in SUBSET SUBSET S
      OBVIOUS
    <3> HIDE DEF Bad
    <3> QED BY <1>2, <3>1, SmallestSet
  <2>2. PICK x \in T : Total(w, T) # w[x] + Total(w, T \ {x})
    BY <2>1
  <2>3. \A U \in SUBSET T : IsFiniteSet(U) /\ \A z \in U : w[z] \in Nat
    BY <2>1, FS_Subset
  <2>4. PICK y \in T : Total(w, T) = w[y] + Total(w, T \ {y})
    BY <2>2, <2>3, TotalUnfolds
  <2>5. y # x
    BY <2>2, <2>4
  <2>6. (T \ {y}) \ {x} = (T \ {x}) \ {y} /\ x \in T \ {y} /\ y \in T \ {x}
    BY <2>2, <2>4, <2>5
  <2>7. Total(w, T \ {y}) = w[x] + Total(w, (T \ {y}) \ {x})
    BY <2>1, <2>4, <2>6
  <2>8. Total(w, T \ {x}) = w[y] + Total(w, (T \ {x}) \ {y})
    BY <2>1, <2>2, <2>6
  <2>9. w[x] \in Nat /\ w[y] \in Nat /\ Total(w, (T \ {y}) \ {x}) \in Nat
    BY <2>2, <2>3, <2>4, TotalUnfolds
  <2>10. Total(w, (T \ {x}) \ {y}) = Total(w, (T \ {y}) \ {x})
    BY <2>6
  <2> QED BY <2>2, <2>4, <2>7, <2>8, <2>9, <2>10
<1> QED BY <1>1, <1>2

\* Sums of sets that have nothing in common add up.
LEMMA TotalUnion ==
    ASSUME NEW S, NEW T, IsFiniteSet(S), IsFiniteSet(T), S \cap T = {},
           NEW w, \A x \in S \cup T : w[x] \in Nat
    PROVE  Total(w, S \cup T) = Total(w, S) + Total(w, T)
<1> DEFINE Bad == {U \in SUBSET T : Total(w, S \cup U) # Total(w, S) + Total(w, U)}
<1>1. CASE Bad = {}
  BY <1>1
<1>2. CASE Bad # {}
  <2>1. PICK U \in Bad : \A V \in SUBSET U : V # U => V \notin Bad
    <3>1. Bad \in SUBSET SUBSET T
      OBVIOUS
    <3> HIDE DEF Bad
    <3> QED BY <1>2, <3>1, SmallestSet
  <2>2. U \in SUBSET T /\ Total(w, S \cup U) # Total(w, S) + Total(w, U) /\ IsFiniteSet(U)
    BY <2>1, FS_Subset
  <2>3. Total(w, S) \in Nat /\ Total(w, {}) = 0
    BY TotalUnfolds
  <2>4. U # {}
    <3>1. U = {} => S \cup U = S
      OBVIOUS
    <3> QED BY <2>2, <2>3, <3>1
  <2>5. PICK e : e \in U
    BY <2>4
  <2>6. Total(w, U) = w[e] + Total(w, U \ {e})
    BY <2>2, <2>5, TotalWithout
  <2>7. IsFiniteSet(S \cup U) /\ e \in S \cup U /\ \A x \in S \cup U : w[x] \in Nat
    BY <2>2, <2>5, FS_Union
  <2>8. Total(w, S \cup U) = w[e] + Total(w, (S \cup U) \ {e})
    BY <2>7, TotalWithout
  <2>9. (S \cup U) \ {e} = S \cup (U \ {e})
    BY <2>2, <2>5
  <2>10. Total(w, S \cup (U \ {e})) = Total(w, S) + Total(w, U \ {e})
    BY <2>1, <2>2, <2>5
  <2>11. w[e] \in Nat /\ Total(w, U \ {e}) \in Nat
    <3>1. IsFiniteSet(U \ {e}) /\ \A x \in U \ {e} : w[x] \in Nat
      BY <2>2, FS_Subset
    <3>2. Total(w, U \ {e}) \in Nat
      BY <3>1, TotalUnfolds
    <3>3. w[e] \in Nat
      BY <2>7
    <3> QED BY <3>2, <3>3
  <2>12. \A k, l, n \in Nat : n + (k + l) = k + (n + l)
    OBVIOUS
  <2>13. w[e] + (Total(w, S) + Total(w, U \ {e})) = Total(w, S) + (w[e] + Total(w, U \ {e}))
    BY <2>3, <2>11, <2>12, Zenon
  <2>14. Total(w, S \cup U) = Total(w, S) + Total(w, U)
    BY <2>6, <2>8, <2>9, <2>10, <2>13, Zenon
  <2> QED BY <2>2, <2>14
<1> QED BY <1>1, <1>2

\* The sum of sums is the sum of the sums.
LEMMA TotalOfSums ==
    ASSUME NEW S, IsFiniteSet(S), NEW w, NEW v, NEW u,
           \A x \in S : w[x] \in Nat /\ v[x] \in Nat /\ u[x] = w[x] + v[x]
    PROVE  Total(u, S) = Total(w, S) + Total(v, S)
<1> DEFINE Bad == {T \in SUBSET S : Total(u, T) # Total(w, T) + Total(v, T)}
<1>1. ASSUME NEW T \in SUBSET S
      PROVE  /\ IsFiniteSet(T)
             /\ \A x \in T : w[x] \in Nat
             /\ \A x \in T : v[x] \in Nat
             /\ \A x \in T : u[x] \in Nat
  BY FS_Subset
<1>2. CASE Bad = {}
  BY <1>2
<1>3. CASE Bad # {}
  <2>1. PICK T \in Bad : \A V \in SUBSET T : V # T => V \notin Bad
    <3>1. Bad \in SUBSET SUBSET S
      OBVIOUS
    <3> HIDE DEF Bad
    <3> QED BY <1>3, <3>1, SmallestSet
  <2>2. T \in SUBSET S /\ Total(u, T) # Total(w, T) + Total(v, T)
    BY <2>1
  <2>3. T # {}
    <3> SUFFICES ASSUME T = {} PROVE FALSE
      OBVIOUS
    <3>1. Total(u, {}) = 0 /\ Total(w, {}) = 0 /\ Total(v, {}) = 0
      BY <1>1, TotalUnfolds
    <3>2. Total(u, T) = 0 /\ Total(w, T) = 0 /\ Total(v, T) = 0
      BY <3>1
    <3> QED BY <2>2, <3>2
  <2>4. PICK e : e \in T
    BY <2>3
  <2> DEFINE V == T \ {e}
  <2>5. /\ Total(u, T) = u[e] + Total(u, V)
        /\ Total(w, T) = w[e] + Total(w, V)
        /\ Total(v, T) = v[e] + Total(v, V)
    BY <1>1, <2>2, <2>4, TotalWithout
  <2>6. V \in SUBSET S /\ Total(u, V) = Total(w, V) + Total(v, V)
    BY <2>1, <2>2, <2>4
  <2> HIDE DEF V
  <2>7. Total(w, V) \in Nat /\ Total(v, V) \in Nat
    BY <1>1, <2>6, TotalUnfolds
  <2>8. w[e] \in Nat /\ v[e] \in Nat /\ u[e] = w[e] + v[e]
    BY <2>2, <2>4
  <2> DEFINE i == w[e]
             j == v[e]
             k == Total(w, V)
             l == Total(v, V)
  <2>9. i \in Nat /\ j \in Nat /\ k \in Nat /\ l \in Nat /\ u[e] = i + j
    BY <2>7, <2>8
  <2>10. Total(u, T) = (i + j) + (k + l) /\ Total(w, T) = i + k /\ Total(v, T) = j + l
    BY <2>5, <2>6, <2>8
  <2> HIDE DEF i, j, k, l
  <2>11. (i + j) + (k + l) = (i + k) + (j + l)
    BY <2>9
  <2> QED BY <2>2, <2>10, <2>11
<1> QED BY <1>2, <1>3

\* What weighs nothing may be left out.
LEMMA TotalOfSupport ==
    ASSUME NEW S, IsFiniteSet(S), NEW T \in SUBSET S,
           NEW w, \A x \in S : w[x] \in Nat, \A x \in S \ T : w[x] = 0
    PROVE  Total(w, S) = Total(w, T)
<1> DEFINE U == S \ T
<1>1. IsFiniteSet(T) /\ IsFiniteSet(U)
  BY FS_Subset
<1>2. T \cup U = S /\ T \cap U = {} /\ \A x \in T \cup U : w[x] \in Nat
  OBVIOUS
<1>3. \A x \in U : w[x] = 0
  OBVIOUS
<1> HIDE DEF U
<1>4. Total(w, T) \in Nat /\ Total(w, U) \in Nat
  BY <1>1, <1>2, TotalUnfolds
<1>5. Total(w, U) = Total(w, U) + Total(w, U)
  <2>1. \A x \in U : w[x] \in Nat /\ w[x] = w[x] + w[x]
    BY <1>3
  <2> QED BY <1>1, <2>1, TotalOfSums
<1>6. Total(w, T \cup U) = Total(w, T) + Total(w, U)
  BY <1>1, <1>2, TotalUnion
<1>7. Total(w, S) = Total(w, T) + Total(w, U)
  BY <1>2, <1>6
<1>8. Total(w, U) = 0
  <2>1. \A n \in Nat : n = n + n => n = 0
    OBVIOUS
  <2> QED BY <1>4, <1>5, <2>1, Zenon
<1> QED BY <1>4, <1>7, <1>8

Group(g, S, i) == {x \in S : g[x] = i}

\* A sum may be taken group by group.
LEMMA TotalByGroups ==
    ASSUME NEW S, IsFiniteSet(S), NEW w, \A x \in S : w[x] \in Nat,
           NEW I, IsFiniteSet(I), NEW g, \A x \in S : g[x] \in I,
           NEW h, \A i \in I : h[i] = Total(w, Group(g, S, i))
    PROVE  Total(h, I) = Total(w, S)
<1> DEFINE Of(J) == {x \in S : g[x] \in J}
           At(i) == Group(g, S, i)
           Bad == {J \in SUBSET I : Total(h, J) # Total(w, Of(J))}
<1>1. ASSUME NEW T \in SUBSET S
      PROVE  IsFiniteSet(T) /\ (\A x \in T : w[x] \in Nat) /\ Total(w, T) \in Nat
  <2>1. IsFiniteSet(T) /\ \A x \in T : w[x] \in Nat
    BY FS_Subset
  <2> QED BY <2>1, TotalUnfolds
<1>2. \A i \in I : h[i] = Total(w, At(i)) /\ h[i] \in Nat
  BY <1>1 DEF Group
<1>3. CASE Bad = {}
  <2>1. Of(I) = S
    OBVIOUS
  <2> QED BY <1>3, <2>1
<1>4. CASE Bad # {}
  <2>1. PICK J \in Bad : \A V \in SUBSET J : V # J => V \notin Bad
    <3>1. Bad \in SUBSET SUBSET I
      OBVIOUS
    <3> HIDE DEF Bad
    <3> QED BY <1>4, <3>1, SmallestSet
  <2>2. J \in SUBSET I /\ IsFiniteSet(J) /\ Total(h, J) # Total(w, Of(J))
    BY <2>1, FS_Subset
  <2>3. \A i \in J : h[i] \in Nat
    BY <1>2, <2>2
  <2>4. J # {}
    <3>1. Total(h, {}) = 0 /\ Total(w, {}) = 0
      BY <2>2, <2>3, TotalUnfolds
    <3>2. Of({}) = {}
      OBVIOUS
    <3> QED BY <2>2, <3>1, <3>2
  <2>5. PICK e : e \in J
    BY <2>4
  <2> DEFINE V == J \ {e}
  <2>6. Total(h, J) = h[e] + Total(h, V)
    BY <2>2, <2>3, <2>5, TotalWithout
  <2>7. Total(h, V) = Total(w, Of(V))
    BY <2>1, <2>2, <2>5
  <2>8. Of(J) = At(e) \cup Of(V) /\ At(e) \cap Of(V) = {} /\ At(e) \in SUBSET S /\ Of(V) \in SUBSET S
    BY <2>5 DEF Group
  <2> HIDE DEF At, Of, V
  <2>9. Total(w, At(e) \cup Of(V)) = Total(w, At(e)) + Total(w, Of(V))
    <3>1. IsFiniteSet(At(e)) /\ IsFiniteSet(Of(V)) /\ \A x \in At(e) \cup Of(V) : w[x] \in Nat
      BY <1>1, <2>8
    <3> QED BY <2>8, <3>1, TotalUnion
  <2>10. Total(w, Of(J)) = Total(w, At(e) \cup Of(V))
    BY <2>8
  <2>11. h[e] = Total(w, At(e))
    BY <1>2, <2>2, <2>5
  <2> QED BY <2>2, <2>6, <2>7, <2>9, <2>10, <2>11
<1> QED BY <1>3, <1>4

\* A part weighs no more than the whole.
LEMMA TotalMonotone ==
    ASSUME NEW S, IsFiniteSet(S), NEW T \in SUBSET S, NEW w, \A x \in S : w[x] \in Nat
    PROVE  Total(w, T) <= Total(w, S)
<1>1. IsFiniteSet(T) /\ IsFiniteSet(S \ T)
  BY FS_Subset
<1>2. S = T \cup (S \ T) /\ T \cap (S \ T) = {}
  OBVIOUS
<1>3. Total(w, T) \in Nat /\ Total(w, S \ T) \in Nat
  BY <1>1, TotalUnfolds
<1>4. Total(w, T \cup (S \ T)) = Total(w, T) + Total(w, S \ T)
  BY <1>1, <1>2, TotalUnion
<1>5. Total(w, S) = Total(w, T \cup (S \ T))
  BY <1>2
<1> QED BY <1>3, <1>4, <1>5

-----------------------------------------------------------------------------
\* Of finitely many elements one weighs most.
LEMMA GreatestWeight ==
    ASSUME NEW S, IsFiniteSet(S), S # {}, NEW w, \A x \in S : w[x] \in Nat
    PROVE  \E x \in S : \A y \in S : w[y] <= w[x]
<1> DEFINE top == Total(w, S)
           Gaps == {top - w[x] : x \in S}
<1>1. ASSUME NEW x \in S
      PROVE  w[x] \in Nat /\ top \in Nat /\ w[x] <= top
  <2>1. Total(w, S) = w[x] + Total(w, S \ {x})
    BY TotalWithout
  <2>2. IsFiniteSet(S \ {x}) /\ \A y \in S \ {x} : w[y] \in Nat
    BY FS_Subset
  <2>3. Total(w, S) \in Nat /\ Total(w, S \ {x}) \in Nat
    BY <2>2, TotalUnfolds
  <2> QED BY <2>1, <2>3
<1>2. Gaps \in SUBSET Nat /\ Gaps # {}
  <2> HIDE DEF top
  <2> QED BY <1>1
<1>3. PICK g \in Gaps : \A h \in Gaps : g <= h
  <2> HIDE DEF Gaps
  <2> QED BY <1>2, LeastNatural
<1>4. PICK x \in S : g = top - w[x]
  BY <1>3
<1>5. ASSUME NEW y \in S
      PROVE  w[y] <= w[x]
  <2>1. top - w[x] <= top - w[y]
    BY <1>3, <1>4
  <2> HIDE DEF top
  <2> QED BY <1>1, <2>1
<1> QED BY <1>5
=============================================================================

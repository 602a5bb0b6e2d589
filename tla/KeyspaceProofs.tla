---------------------------- MODULE KeyspaceProofs ----------------------------
(***************************************************************************)
(* Proofs about Keyspace.  KeyspaceInv, the invariant, is Good(ks): the    *)
(* shape of the state, every registered key in the LRU list, the owners of *)
(* the values and the account of their bytes.  It holds after every method *)
(* inside a command.                                                       *)
(*                                                                         *)
(* What a command does on its way is Reaches(W, s, r): r is good, and no   *)
(* key outside W, those the command writes, has changed but by eviction,   *)
(* in the order of the LRU list.  Each method keeps it, and Steps says     *)
(* that every step is one that adds nothing (Calm) or reaches its end so.  *)
(*                                                                         *)
(* First come the sums over the stores (SumFunction, a fold over a set     *)
(* chosen element by element) and the LRU list (Only, Touch, Forget).      *)
(***************************************************************************)
EXTENDS Keyspace, FiniteSetTheorems, SequenceTheorems, WellFoundedInduction, TLAPS
-----------------------------------------------------------------------------
(***************************************************************************)
(* Folds over a finite set: it[S] is what going through S makes of base,   *)
(* for every S \subseteq D.  G is the step.  Inductions over the size of S *)
(* are arguments about a smallest set for which a claim fails.             *)
(***************************************************************************)
First(S) == CHOOSE x \in S : TRUE

FoldOf(it, D, base, G) ==
    it = [S \in SUBSET D |-> IF S = {} THEN base ELSE G[<<First(S), it[S \ {First(S)}]>>]]

LEMMA FirstIn == ASSUME NEW S, S # {} PROVE First(S) \in S
BY DEF First

LEMMA SmallestNumber ==
    ASSUME NEW T, T \subseteq Nat, T # {}
    PROVE  \E x \in T : \A y \in T : x <= y
<1>1. PICK x \in T : \A y \in T : ~(<<y, x>> \in OpToRel(<, Nat))
  BY NatLessThanWellFounded, WFMin
<1>2. ASSUME NEW y \in T, y < x PROVE FALSE
  <2>1. <<y, x>> \in OpToRel(<, Nat)
    BY <1>2, Zenon DEF OpToRel
  <2> QED BY <2>1, <1>1
<1> QED BY <1>2

\* A set of numbers with 0 that is closed under the step up to n has n.
LEMMA UpTo ==
    ASSUME NEW n \in Nat, NEW S, 0 \in S, \A i \in 0..n : i # 0 /\ (i - 1) \in S => i \in S
    PROVE  n \in S
<1> DEFINE T == {i \in 0..n : i \notin S}
<1> SUFFICES ASSUME T # {} PROVE FALSE
  OBVIOUS
<1>1. PICK x \in T : \A y \in T : x <= y
  <2>1. T \subseteq Nat
    OBVIOUS
  <2> HIDE DEF T
  <2> QED BY <2>1, SmallestNumber
<1>2. x # 0 /\ x \in 0..n /\ (x - 1) \notin T /\ (x - 1) \in 0..n
  BY <1>1
<1> QED BY <1>1, <1>2

\* A non-empty family of subsets of D has one without smaller ones.
LEMMA SmallestSet ==
    ASSUME NEW D, IsFiniteSet(D), NEW F, F \subseteq SUBSET D, F # {}
    PROVE  \E S \in F : \A a \in S : S \ {a} \notin F
<1>1. \A S \in F : IsFiniteSet(S) /\ Cardinality(S) \in Nat
  BY FS_Subset, FS_CardinalityType
<1> DEFINE T == {Cardinality(S) : S \in F}
<1>2. T \subseteq Nat /\ T # {}
  BY <1>1
<1>3. PICK n \in T : \A m \in T : n <= m
  <2> HIDE DEF T
  <2> QED BY <1>2, SmallestNumber
<1>4. PICK S \in F : Cardinality(S) = n
  BY <1>3
<1>5. ASSUME NEW a \in S, S \ {a} \in F PROVE FALSE
  <2>1. Cardinality(S \ {a}) = Cardinality(S) - 1
    BY <1>1, FS_RemoveElement
  <2>2. Cardinality(S \ {a}) \in T
    BY <1>5
  <2>3. n <= Cardinality(S \ {a})
    <3> HIDE DEF T
    <3> QED BY <1>3, <2>2
  <2> QED BY <1>1, <1>4, <2>1, <2>3
<1> QED BY <1>4, <1>5

LEMMA FoldExists ==
    ASSUME NEW D, IsFiniteSet(D), NEW base, NEW G
    PROVE  \E it : FoldOf(it, D, base, G)
<1> DEFINE Small(n) == {S \in SUBSET D : Cardinality(S) <= n}
           Upto(it, n) == it = [S \in Small(n) |-> IF S = {} THEN base
                                                   ELSE G[<<First(S), it[S \ {First(S)}]>>]]
           T == {n \in Nat : \E it : Upto(it, n)}
<1>1. \A S \in SUBSET D : /\ IsFiniteSet(S) /\ Cardinality(S) \in Nat
                          /\ Cardinality(S) <= Cardinality(D)
                          /\ Cardinality(S) = 0 => S = {}
  BY FS_Subset, FS_CardinalityType, FS_EmptySet
<1>2. \A S \in SUBSET D : S # {} => /\ First(S) \in S
                                    /\ S \ {First(S)} \in SUBSET D
                                    /\ Cardinality(S \ {First(S)}) = Cardinality(S) - 1
  BY <1>1, FirstIn, FS_RemoveElement
<1>3. 0 \in T
  <2> DEFINE it == [S \in Small(0) |-> base]
  <2>1. \A S \in Small(0) : S = {}
    BY <1>1
  <2>2. Upto(it, 0)
    BY <2>1
  <2> QED BY <2>2
<1>4. Cardinality(D) \in Nat
  BY <1>1
<1>5. ASSUME NEW n \in 0..Cardinality(D), n # 0, (n - 1) \in T PROVE n \in T
  <2>1. PICK f : Upto(f, n - 1)
    BY <1>5
  <2>2. n \in Nat
    BY <1>4
  <2> DEFINE Value(S) == IF S = {} THEN base ELSE G[<<First(S), f[S \ {First(S)}]>>]
             g == [S \in Small(n) |-> Value(S)]
  <2>3. \A S \in Small(n - 1) : f[S] = Value(S)
    BY <2>1
  <2>4. \A S \in Small(n) : S # {} => S \ {First(S)} \in Small(n - 1)
                                       /\ S \ {First(S)} \in Small(n)
    BY <1>1, <1>2, <2>2
  <2>5. \A S \in Small(n - 1) : S \in Small(n)
    BY <1>1, <2>2
  <2> HIDE DEF Small
  <2>6. \A S \in Small(n) : g[S] = Value(S)
    OBVIOUS
  <2> HIDE DEF g
  <2>7. \A S \in Small(n) : S # {} => g[S \ {First(S)}] = f[S \ {First(S)}]
    <3> HIDE DEF Value
    <3> QED BY <2>3, <2>4, <2>6
  <2>8. \A S \in Small(n) : g[S] = IF S = {} THEN base ELSE G[<<First(S), g[S \ {First(S)}]>>]
    BY <2>6, <2>7
  <2>9. g = [S \in Small(n) |-> g[S]]
    BY DEF g
  <2>10. Upto(g, n)
    BY <2>8, <2>9
  <2> QED BY <2>2, <2>10
<1>6. Cardinality(D) \in T
  <2> HIDE DEF T
  <2> QED BY <1>3, <1>4, <1>5, UpTo
<1>7. PICK it : Upto(it, Cardinality(D))
  BY <1>6
<1>8. Small(Cardinality(D)) = SUBSET D
  BY <1>1
<1> QED BY <1>7, <1>8 DEF FoldOf

LEMMA FoldSteps ==
    ASSUME NEW D, NEW base, NEW G, NEW it, FoldOf(it, D, base, G)
    PROVE  /\ it[{}] = base
           /\ \A S \in SUBSET D : S # {} =>
                /\ First(S) \in S /\ First(S) \in D /\ S \ {First(S)} \in SUBSET D
                /\ it[S] = G[<<First(S), it[S \ {First(S)}]>>]
<1>1. \A S \in SUBSET D : it[S] = IF S = {} THEN base ELSE G[<<First(S), it[S \ {First(S)}]>>]
  BY DEF FoldOf
<1>2. \A S \in SUBSET D : S # {} => First(S) \in S /\ S \ {First(S)} \in SUBSET D
  BY FirstIn
<1> QED BY <1>1, <1>2

\* A fold whose steps stay in X does.
LEMMA FoldIn ==
    ASSUME NEW D, IsFiniteSet(D), NEW X, NEW base \in X, NEW G \in [D \X X -> X],
           NEW it, FoldOf(it, D, base, G)
    PROVE  \A S \in SUBSET D : it[S] \in X
<1> DEFINE F == {S \in SUBSET D : it[S] \notin X}
<1> SUFFICES ASSUME F # {} PROVE FALSE
  OBVIOUS
<1>1. PICK S \in F : \A a \in S : S \ {a} \notin F
  <2>1. F \subseteq SUBSET D
    OBVIOUS
  <2> HIDE DEF F
  <2> QED BY <2>1, SmallestSet
<1>2. S # {}
  <2>1. it[{}] = base
    BY FoldSteps
  <2>2. {} \notin F
    BY <2>1
  <2> HIDE DEF F
  <2> QED BY <1>1, <2>2
<1>3. /\ First(S) \in S /\ First(S) \in D /\ S \ {First(S)} \in SUBSET D
      /\ it[S] = G[<<First(S), it[S \ {First(S)}]>>]
  BY <1>1, <1>2, FoldSteps
<1>4. it[S \ {First(S)}] \in X
  BY <1>1, <1>3
<1> QED BY <1>1, <1>3, <1>4

-----------------------------------------------------------------------------
(***************************************************************************)
(* Sums, as SumFunction takes them.                                        *)
(***************************************************************************)
Totals(it, D, h) ==
    it = [S \in SUBSET D |-> IF S = {} THEN 0 ELSE h[First(S)] + it[S \ {First(S)}]]

LEMMA TotalsExist ==
    ASSUME NEW D, IsFiniteSet(D), NEW h \in [D -> Nat]
    PROVE  \E it : Totals(it, D, h)
<1> DEFINE G == [p \in D \X Nat |-> h[p[1]] + p[2]]
<1>1. G \in [D \X Nat -> Nat] /\ \A x \in D, n \in Nat : G[<<x, n>>] = h[x] + n
  OBVIOUS
<1> HIDE DEF G
<1>2. PICK it : FoldOf(it, D, 0, G)
  BY FoldExists
<1>3. \A S \in SUBSET D : it[S] \in Nat
  BY <1>1, <1>2, FoldIn
<1>4. \A S \in SUBSET D : it[S] = IF S = {} THEN 0 ELSE h[First(S)] + it[S \ {First(S)}]
  <2> SUFFICES ASSUME NEW S \in SUBSET D
               PROVE  it[S] = IF S = {} THEN 0 ELSE h[First(S)] + it[S \ {First(S)}]
    OBVIOUS
  <2>1. CASE S = {}
    BY <1>2, <2>1, FoldSteps
  <2>2. CASE S # {}
    <3>1. /\ First(S) \in D /\ S \ {First(S)} \in SUBSET D
          /\ it[S] = G[<<First(S), it[S \ {First(S)}]>>]
      BY <1>2, <2>2, FoldSteps
    <3> QED BY <1>1, <1>3, <2>2, <3>1
  <2> QED BY <2>1, <2>2
<1>5. it = [S \in SUBSET D |-> it[S]]
  BY <1>2 DEF FoldOf
<1> QED BY <1>4, <1>5 DEF Totals

LEMMA TotalsStep ==
    ASSUME NEW D, NEW h, NEW it, Totals(it, D, h)
    PROVE  /\ it[{}] = 0
           /\ \A S \in SUBSET D : S # {} =>
                /\ First(S) \in D /\ First(S) \in S /\ S \ {First(S)} \in SUBSET D
                /\ it[S] = h[First(S)] + it[S \ {First(S)}]
<1>1. \A S \in SUBSET D : it[S] = IF S = {} THEN 0 ELSE h[First(S)] + it[S \ {First(S)}]
  BY DEF Totals
<1>2. \A S \in SUBSET D : S # {} => First(S) \in S /\ S \ {First(S)} \in SUBSET D
  BY FirstIn
<1> QED BY <1>1, <1>2

LEMMA TotalsNat ==
    ASSUME NEW D, IsFiniteSet(D), NEW h \in [D -> Nat], NEW it, Totals(it, D, h)
    PROVE  \A S \in SUBSET D : it[S] \in Nat
<1> DEFINE F == {S \in SUBSET D : it[S] \notin Nat}
<1> SUFFICES ASSUME F # {} PROVE FALSE
  OBVIOUS
<1>1. PICK S \in F : \A a \in S : S \ {a} \notin F
  <2>1. F \subseteq SUBSET D
    OBVIOUS
  <2> HIDE DEF F
  <2> QED BY <2>1, SmallestSet
<1>2. S # {}
  <2>1. it[{}] = 0
    BY TotalsStep
  <2>2. {} \notin F
    BY <2>1
  <2> HIDE DEF F
  <2> QED BY <1>1, <2>2
<1>3. First(S) \in D /\ S \ {First(S)} \in SUBSET D /\ it[S] = h[First(S)] + it[S \ {First(S)}]
  BY <1>1, <1>2, TotalsStep
<1>4. it[S \ {First(S)}] \in Nat
  BY <1>1, <1>2, <1>3, FirstIn
<1> QED BY <1>1, <1>3, <1>4

LEMMA TotalsZero ==
    ASSUME NEW D, IsFiniteSet(D), NEW h, \A x \in D : h[x] = 0, NEW it, Totals(it, D, h)
    PROVE  it[D] = 0
<1> DEFINE F == {S \in SUBSET D : it[S] # 0}
<1> SUFFICES ASSUME F # {} PROVE FALSE
  OBVIOUS
<1>1. PICK S \in F : \A a \in S : S \ {a} \notin F
  <2>1. F \subseteq SUBSET D
    OBVIOUS
  <2> HIDE DEF F
  <2> QED BY <2>1, SmallestSet
<1>2. S # {}
  <2>1. it[{}] = 0
    BY TotalsStep
  <2>2. {} \notin F
    BY <2>1
  <2> HIDE DEF F
  <2> QED BY <1>1, <2>2
<1>3. First(S) \in D /\ S \ {First(S)} \in SUBSET D /\ it[S] = h[First(S)] + it[S \ {First(S)}]
  BY <1>1, <1>2, TotalsStep
<1>4. it[S \ {First(S)}] = 0
  BY <1>1, <1>2, <1>3, FirstIn
<1> QED BY <1>1, <1>3, <1>4

\* One term changes: the sum changes by as much.
LEMMA TotalsChange ==
    ASSUME NEW D, IsFiniteSet(D), NEW h \in [D -> Nat], NEW g \in [D -> Nat], NEW a \in D,
           \A x \in D : x # a => h[x] = g[x],
           NEW it, Totals(it, D, h), NEW jt, Totals(jt, D, g)
    PROVE  it[D] + g[a] = jt[D] + h[a]
<1> DEFINE Moves(S) == IF a \in S THEN it[S] + g[a] = jt[S] + h[a] ELSE it[S] = jt[S]
           F == {S \in SUBSET D : ~Moves(S)}
<1>1. ASSUME F # {} PROVE FALSE
  <2>1. PICK S \in F : \A x \in S : S \ {x} \notin F
    <3>1. F \subseteq SUBSET D
      OBVIOUS
    <3> HIDE DEF F
    <3> QED BY <1>1, <3>1, SmallestSet
  <2>2. S # {}
    <3>1. it[{}] = 0 /\ jt[{}] = 0
      BY TotalsStep
    <3>2. Moves({})
      BY <3>1
    <3> HIDE DEF Moves
    <3> QED BY <2>1, <3>2
  <2> DEFINE x == First(S)
             r == S \ {x}
  <2>3. /\ x \in D /\ x \in S /\ r \in SUBSET D
        /\ it[S] = h[x] + it[r] /\ jt[S] = g[x] + jt[r]
    <3>1. S \in SUBSET D
      BY <2>1
    <3>2. it[S] = IF S = {} THEN 0 ELSE h[First(S)] + it[S \ {First(S)}]
      BY <3>1 DEF Totals
    <3>3. jt[S] = IF S = {} THEN 0 ELSE g[First(S)] + jt[S \ {First(S)}]
      BY <3>1 DEF Totals
    <3>4. First(S) \in S
      BY <2>2, FirstIn
    <3> QED BY <2>2, <3>1, <3>2, <3>3, <3>4
  <2>4. Moves(r)
    BY <2>1, <2>2, <2>3
  <2>5. {it[r], jt[r], h[x], g[x], h[a], g[a]} \subseteq Nat
    BY <2>3, TotalsNat
  <2>6. a \in S <=> a = x \/ a \in r
    BY <2>3
  <2>7. a = x => a \notin r
    OBVIOUS
  <2>8. a # x => h[x] = g[x]
    BY <2>3
  <2> HIDE DEF x, r
  <2>9. Moves(S)
    BY <2>3, <2>4, <2>5, <2>6, <2>7, <2>8
  <2> QED BY <2>1, <2>9
<1>2. Moves(D)
  BY <1>1
<1> QED BY <1>2

LEMMA SumIs ==
    ASSUME NEW D, IsFiniteSet(D), NEW h \in [D -> Nat]
    PROVE  \E it : Totals(it, D, h) /\ SumFunction(h) = it[D]
<1> DEFINE Sums(it) ==
             it = [S \in SUBSET D |->
                     IF S = {} THEN 0
                     ELSE h[CHOOSE x \in S : TRUE] + it[S \ {CHOOSE x \in S : TRUE}]]
           sum == CHOOSE it : Sums(it)
<1>1. \A it : Totals(it, D, h) <=> Sums(it)
  BY DEF Totals, First
<1>2. SumFunction(h) = sum[D]
  <2>1. DOMAIN h = D
    OBVIOUS
  <2> QED BY <2>1 DEF SumFunction, SumFunctionOnSet, FoldFunctionOnSet, MapThenFoldSet
<1> HIDE DEF Sums
<1>3. \E it : Sums(it)
  BY <1>1, TotalsExist
<1>4. Sums(sum)
  BY <1>3
<1> HIDE DEF sum
<1> QED BY <1>1, <1>2, <1>4

LEMMA SumNat ==
    ASSUME NEW D, IsFiniteSet(D), NEW h \in [D -> Nat]
    PROVE  SumFunction(h) \in Nat
BY SumIs, TotalsNat

LEMMA SumZero ==
    ASSUME NEW D, IsFiniteSet(D), NEW h \in [D -> Nat], \A x \in D : h[x] = 0
    PROVE  SumFunction(h) = 0
BY SumIs, TotalsZero

LEMMA SumChange ==
    ASSUME NEW D, IsFiniteSet(D), NEW h \in [D -> Nat], NEW g \in [D -> Nat], NEW a \in D,
           \A x \in D : x # a => h[x] = g[x]
    PROVE  SumFunction(h) + g[a] = SumFunction(g) + h[a]
<1>1. PICK it : Totals(it, D, h) /\ SumFunction(h) = it[D]
  BY SumIs
<1>2. PICK jt : Totals(jt, D, g) /\ SumFunction(g) = jt[D]
  BY SumIs
<1> QED BY <1>1, <1>2, TotalsChange

-----------------------------------------------------------------------------
(***************************************************************************)
(* Lists of keys.                                                          *)
(***************************************************************************)
Among(q, m, x) == \E i \in 1..m : q[i] = x

Ordered(q, m, x, y) == \E j \in 1..m : \E i \in 1..(j - 1) : q[i] = x /\ q[j] = y

\* x stands before y in q.
Before(q, x, y) == Ordered(q, Len(q), x, y)

LEMMA NothingIn ==
    /\ <<>> \in Seq(Keys) /\ IsInjective(<<>>)
    /\ \A x : ~Contains(<<>>, x)
    /\ \A x, y : ~Before(<<>>, x, y)
BY DEF IsInjective, Contains, Before, Ordered

LEMMA AppendedKey ==
    ASSUME NEW q \in Seq(Keys), NEW k \in Keys
    PROVE  /\ Append(q, k) \in Seq(Keys)
           /\ \A x : Contains(Append(q, k), x) <=> x = k \/ Contains(q, x)
           /\ IsInjective(q) /\ ~Contains(q, k) => IsInjective(Append(q, k))
           /\ \A x, y : Before(Append(q, k), x, y) <=> Before(q, x, y) \/ (y = k /\ Contains(q, x))
<1> DEFINE r == Append(q, k)
           n == Len(q)
<1>1. /\ n \in Nat /\ DOMAIN q = 1..n /\ r \in Seq(Keys)
      /\ Len(r) = n + 1 /\ DOMAIN r = 1..(n + 1) /\ r[n + 1] = k
      /\ \A i \in 1..n : r[i] = q[i]
  BY AppendProperties, LenProperties
<1>2. \A i : i \in 1..(n + 1) <=> i = n + 1 \/ i \in 1..n
  BY <1>1
<1> HIDE DEF r
<1>3. \A x : Contains(r, x) <=> x = k \/ Contains(q, x)
  BY <1>1, <1>2 DEF Contains
<1>4. ASSUME IsInjective(q), ~Contains(q, k) PROVE IsInjective(r)
  BY <1>1, <1>2, <1>4 DEF IsInjective, Contains
<1>5. ASSUME NEW x, NEW y
      PROVE  Before(r, x, y) <=> Before(q, x, y) \/ (y = k /\ Contains(q, x))
  <2>1. Before(r, x, y) <=>
          \/ \E j \in 1..n : \E i \in 1..(j - 1) : r[i] = x /\ r[j] = y
          \/ \E i \in 1..n : r[i] = x /\ k = y
    <3>1. (n + 1) - 1 = n
      BY <1>1
    <3> QED BY <1>1, <1>2, <3>1 DEF Before, Ordered
  <2>2. \A j \in 1..n : \A i \in 1..(j - 1) : i \in 1..n
    BY <1>1
  <2>3. (\E j \in 1..n : \E i \in 1..(j - 1) : r[i] = x /\ r[j] = y) <=> Before(q, x, y)
    BY <1>1, <2>2 DEF Before, Ordered
  <2> HIDE DEF n
  <2> QED BY <1>1, <2>1, <2>3 DEF Contains, n
<1> QED BY <1>1, <1>3, <1>4, <1>5 DEF r

\* What Only makes of the first m of seq, for every m.
KeptOf(f, seq, P, n) ==
    f = [m \in 0..n |-> IF m = 0 THEN <<>>
                        ELSE IF seq[m] \in P THEN Append(f[m - 1], seq[m]) ELSE f[m - 1]]

LEMMA KeptExists ==
    ASSUME NEW seq, NEW P, NEW n \in Nat
    PROVE  \E f : KeptOf(f, seq, P, n)
<1> DEFINE T == {k \in Nat : \E f : KeptOf(f, seq, P, k)}
<1>1. 0 \in T
  <2> DEFINE f == [m \in 0..0 |-> <<>>]
  <2>1. f = [m \in 0..0 |-> IF m = 0 THEN <<>>
                            ELSE IF seq[m] \in P THEN Append(f[m - 1], seq[m]) ELSE f[m - 1]]
    OBVIOUS
  <2> QED BY <2>1 DEF KeptOf
<1>2. ASSUME NEW k \in 0..n, k # 0, (k - 1) \in T PROVE k \in T
  <2>1. PICK f : KeptOf(f, seq, P, k - 1)
    BY <1>2
  <2> DEFINE g == [m \in 0..k |-> IF m < k THEN f[m]
                                  ELSE IF seq[k] \in P THEN Append(f[k - 1], seq[k])
                                  ELSE f[k - 1]]
  <2>2. \A m \in 0..(k - 1) : f[m] = IF m = 0 THEN <<>>
                              ELSE IF seq[m] \in P THEN Append(f[m - 1], seq[m]) ELSE f[m - 1]
    BY <2>1 DEF KeptOf
  <2>3. k \in Nat /\ k # 0
    BY <1>2
  <2>4. ASSUME NEW m \in 0..k, m # k
        PROVE  m \in 0..(k - 1) /\ m < k /\ (m # 0 => m - 1 < k /\ m - 1 \in 0..k)
    BY ONLY <2>3, <2>4
  <2>5. k \in 0..k /\ k - 1 \in 0..k /\ k - 1 < k /\ ~(k < k)
    BY <2>3
  <2>6. \A m \in 0..k : g[m] = IF m = 0 THEN <<>>
                               ELSE IF seq[m] \in P THEN Append(g[m - 1], seq[m]) ELSE g[m - 1]
    BY <1>2, <2>2, <2>4, <2>5
  <2>7. KeptOf(g, seq, P, k)
    BY <2>6 DEF KeptOf
  <2> QED BY <2>3, <2>7
<1>3. n \in T
  <2> HIDE DEF T
  <2> QED BY <1>1, <1>2, UpTo
<1> QED BY <1>3

(* Only keeps a list of different keys one, in its order, and leaves out   *)
(* what is not in P.                                                       *)
LEMMA OnlyIs ==
    ASSUME NEW seq \in Seq(Keys), IsInjective(seq), NEW P
    PROVE  /\ Only(seq, P) \in Seq(Keys) /\ IsInjective(Only(seq, P))
           /\ \A x : Contains(Only(seq, P), x) <=> x \in P /\ Contains(seq, x)
           /\ \A x, y : Before(Only(seq, P), x, y) <=> x \in P /\ y \in P /\ Before(seq, x, y)
<1> DEFINE n == Len(seq)
           f == CHOOSE f : KeptOf(f, seq, P, n)
<1>1. n \in Nat /\ DOMAIN seq = 1..n /\ \A i \in 1..n : seq[i] \in Keys
  BY LenProperties
<1>2. KeptOf(f, seq, P, n)
  BY <1>1, KeptExists
<1>3. Only(seq, P) = f[n]
  BY DEF Only, KeptOf
<1> HIDE DEF f
<1>4. f[0] = <<>> /\ \A m \in 1..n : f[m] = IF seq[m] \in P THEN Append(f[m - 1], seq[m])
                                            ELSE f[m - 1]
  <2>1. \A m \in 0..n : f[m] = IF m = 0 THEN <<>>
                               ELSE IF seq[m] \in P THEN Append(f[m - 1], seq[m]) ELSE f[m - 1]
    BY <1>2 DEF KeptOf
  <2>2. 0 \in 0..n /\ \A m \in 1..n : m \in 0..n /\ m # 0
    BY <1>1
  <2> QED BY <2>1, <2>2
<1> DEFINE KeptWell(m) ==
             /\ f[m] \in Seq(Keys) /\ IsInjective(f[m])
             /\ \A x : Contains(f[m], x) <=> x \in P /\ Among(seq, m, x)
             /\ \A x, y : Before(f[m], x, y) <=> x \in P /\ y \in P /\ Ordered(seq, m, x, y)
           T == {m \in 0..n : KeptWell(m)}
<1>5. 0 \in T
  <2>1. \A x, y : ~Among(seq, 0, x) /\ ~Ordered(seq, 0, x, y)
    BY DEF Among, Ordered
  <2>2. f[0] = <<>>
    BY <1>4
  <2> HIDE DEF KeptWell
  <2>3. KeptWell(0)
    BY <2>1, <2>2, NothingIn DEF KeptWell
  <2> QED BY <1>1, <2>3
<1>6. ASSUME NEW m \in 0..n, m # 0, (m - 1) \in T PROVE m \in T
  <2> DEFINE k == seq[m]
             q == f[m - 1]
  <2>1. m \in 1..n /\ m - 1 \in 0..n /\ k \in Keys /\ KeptWell(m - 1)
    BY <1>1, <1>6
  <2>2. \A i : i \in 1..m <=> i = m \/ i \in 1..(m - 1)
    BY <1>1, <1>6
  <2>3. ~Among(seq, m - 1, k)
    <3>1. \A i \in 1..(m - 1) : i \in 1..n /\ i # m
      BY <1>1, <1>6
    <3> QED BY <1>1, <2>1, <3>1 DEF Among, IsInjective
  <2>4. \A x : Among(seq, m, x) <=> x = k \/ Among(seq, m - 1, x)
    BY <2>2 DEF Among
  <2>5. \A x, y : Ordered(seq, m, x, y) <=>
                     Ordered(seq, m - 1, x, y) \/ (y = k /\ Among(seq, m - 1, x))
    BY <2>2 DEF Ordered, Among
  <2>6. \A x, y : Ordered(seq, m - 1, x, y) => Among(seq, m - 1, x) /\ Among(seq, m - 1, y)
    <3>1. \A j \in 1..(m - 1) : \A i \in 1..(j - 1) : i \in 1..(m - 1)
      BY <1>1, <1>6
    <3> QED BY <3>1 DEF Ordered, Among
  <2>7. f[m] = IF k \in P THEN Append(q, k) ELSE q
    BY <1>4, <2>1
  <2> HIDE DEF k, q
  <2>8. /\ q \in Seq(Keys) /\ IsInjective(q)
        /\ \A x : Contains(q, x) <=> x \in P /\ Among(seq, m - 1, x)
        /\ \A x, y : Before(q, x, y) <=> x \in P /\ y \in P /\ Ordered(seq, m - 1, x, y)
    BY <2>1 DEF q
  <2>9. CASE k \notin P
    <3>1. f[m] = q
      BY <2>7, <2>9
    <3> QED BY <1>6, <2>4, <2>5, <2>6, <2>8, <2>9, <3>1
  <2>10. CASE k \in P
    <3>1. f[m] = Append(q, k)
      BY <2>7, <2>10
    <3>2. /\ Append(q, k) \in Seq(Keys)
          /\ \A x : Contains(Append(q, k), x) <=> x = k \/ Contains(q, x)
          /\ IsInjective(q) /\ ~Contains(q, k) => IsInjective(Append(q, k))
          /\ \A x, y : Before(Append(q, k), x, y) <=>
                         Before(q, x, y) \/ (y = k /\ Contains(q, x))
      BY <2>1, <2>8, AppendedKey
    <3>3. ~Contains(q, k)
      BY <2>3, <2>8
    <3> HIDE DEF KeptWell
    <3>4. \A x : Contains(f[m], x) <=> x \in P /\ Among(seq, m, x)
      BY <2>4, <2>8, <2>10, <3>1, <3>2
    <3>5. \A x, y : Before(f[m], x, y) <=> x \in P /\ y \in P /\ Ordered(seq, m, x, y)
      BY <2>5, <2>8, <2>10, <3>1, <3>2
    <3>6. KeptWell(m)
      BY <2>8, <3>1, <3>2, <3>3, <3>4, <3>5 DEF KeptWell
    <3> QED BY <1>6, <3>6
  <2> QED BY <2>9, <2>10
<1>7. n \in T
  <2> HIDE DEF T
  <2> QED BY <1>1, <1>5, <1>6, UpTo
<1>8. \A x : Among(seq, n, x) <=> Contains(seq, x)
  BY DEF Among, Contains
<1>9. \A x, y : Ordered(seq, n, x, y) <=> Before(seq, x, y)
  BY DEF Before
<1> QED BY <1>3, <1>7, <1>8, <1>9

-----------------------------------------------------------------------------
(***************************************************************************)
(* States of the key space, and what they hold.                            *)
(***************************************************************************)
\* What a store of type t can have for a key.
Values(t) == IF t = "string" THEN {NoObject} \cup TextCosts ELSE {NoObject} \cup SUBSET Fields

Expiries == {"none", "ahead", "passed"}
Reasons == {"own", "header"}

State == [types : [Keys -> Types \cup {None}],
          data : [Types -> [Keys -> {NoObject} \cup TextCosts \cup SUBSET Fields]],
          ttl : [Keys -> Expiries],
          lru : Seq(Keys),
          used : Nat,
          slips : SUBSET Reasons]

Shaped(s) ==
    /\ s \in State
    /\ \A t \in Types, k \in Keys : s.data[t][k] \in Values(t)
    /\ IsInjective(s.lru)

Listed(s) == \A k \in Keys : s.types[k] # None => Contains(s.lru, k)

OwnedIn(s) == \A k \in Keys :
    /\ s.data["string"][k] # NoObject => s.types[k] = "string"
    /\ \A t \in Collections : s.data[t][k] \notin {{}, NoObject} => s.types[k] = t

(* usedBytes is exact as long as nothing has slipped, and never too low    *)
(* but by a charge for a key that the charge itself evicted ("own").       *)
Accounted(s) ==
    /\ s.slips = {} => s.used = Held(s)
    /\ "own" \notin s.slips => s.used >= Held(s)

(* The inductive invariant: it holds at the end of every method, also when *)
(* the method throws, and so in the middle of a command.                   *)
Good(s) ==
    /\ Shaped(s)
    /\ Listed(s)
    /\ "own" \notin s.slips => OwnedIn(s)
    /\ Accounted(s)

LEMMA Constants ==
    /\ Types = {"string"} \cup Collections /\ "string" \notin Collections /\ None \notin Types
    /\ Header \in Nat /\ Header > 0 /\ EntryCost \in Nat /\ EntryCost > 0 /\ MaxText \in Nat
    /\ IsFiniteSet(Keys) /\ IsFiniteSet(Fields) /\ IsFiniteSet(Types \X Keys)
    /\ NoObject \notin TextCosts /\ NoObject \notin SUBSET Fields
    /\ Policies \subseteq {"noeviction", "allkeys-lru", "volatile-lru"}
    /\ Caps \subseteq Nat
<1>1. IsFiniteSet({"hash", "list", "set", "zset"})
  <2>1. IsFiniteSet({"hash"}) /\ IsFiniteSet({"list"}) /\ IsFiniteSet({"set"}) /\ IsFiniteSet({"zset"})
    BY FS_Singleton
  <2>2. IsFiniteSet({"hash"} \cup {"list"}) /\ IsFiniteSet({"set"} \cup {"zset"})
    BY <2>1, FS_Union
  <2>3. {"hash", "list", "set", "zset"} = ({"hash"} \cup {"list"}) \cup ({"set"} \cup {"zset"})
    OBVIOUS
  <2>4. IsFiniteSet(({"hash"} \cup {"list"}) \cup ({"set"} \cup {"zset"}))
    BY <2>2, FS_Union
  <2> QED BY <2>3, <2>4, Zenon
<1>2. IsFiniteSet(Types)
  <2>1. IsFiniteSet(Collections)
    BY <1>1, FS_Subset, KeyspaceAssumption
  <2> QED BY <2>1, FS_Singleton, FS_Union DEF Types
<1>3. IsFiniteSet(Types \X Keys)
  BY <1>2, FS_Product, KeyspaceAssumption
<1>4. "string" \notin Collections
  BY KeyspaceAssumption
<1>5. NoObject \notin TextCosts /\ NoObject \notin SUBSET Fields
  <2>1. \A object \in (Header..MaxText) \cup SUBSET Fields : object # NoObject
    BY KeyspaceAssumption
  <2> QED BY <2>1 DEF TextCosts
<1>6. Types = {"string"} \cup Collections /\ None \notin Types
  BY KeyspaceAssumption DEF Types
<1>7. Header \in Nat /\ Header > 0 /\ EntryCost \in Nat /\ EntryCost > 0 /\ MaxText \in Nat
  BY KeyspaceAssumption
<1>8. IsFiniteSet(Keys) /\ IsFiniteSet(Fields) /\ Caps \subseteq Nat
  BY KeyspaceAssumption
<1>9. Policies \subseteq {"noeviction", "allkeys-lru", "volatile-lru"}
  BY KeyspaceAssumption
<1> QED BY ONLY <1>3, <1>4, <1>5, <1>6, <1>7, <1>8, <1>9

LEMMA Times ==
    ASSUME NEW m \in Nat, NEW n \in Nat
    PROVE  /\ EntryCost * n \in Nat /\ EntryCost * 0 = 0
           /\ EntryCost * (n + 1) = EntryCost * n + EntryCost
           /\ m <= n => /\ EntryCost * m <= EntryCost * n
                        /\ EntryCost * (n - m) = EntryCost * n - EntryCost * m
<1>1. EntryCost \in Nat
  BY Constants
<1>2. m <= n => EntryCost * (n - m) = EntryCost * n - EntryCost * m
  BY <1>1
<1>3. m <= n => n - m \in Nat
  OBVIOUS
<1>4. m <= n => EntryCost * (n - m) \in Nat
  BY <1>1, <1>3
<1> QED BY <1>1, <1>2, <1>4

\* The bytes of a value, and of a collection that gains or loses entries.
LEMMA BytesAre ==
    ASSUME NEW t \in Types
    PROVE  /\ \A v \in Values(t) : Bytes(t, v) \in Nat
           /\ Bytes(t, NoObject) = 0
           /\ t = "string" => \A c \in TextCosts : Bytes(t, c) = c /\ c > 0 /\ c \in Nat /\ c >= Header
           /\ t # "string" =>
                /\ Bytes(t, {}) = 0
                /\ \A S \in SUBSET Fields :
                     /\ Cardinality(S) \in Nat
                     /\ Bytes(t, S) = EntryCost * Cardinality(S)
                     /\ \A e \in Fields \ S : Bytes(t, S \cup {e}) = Bytes(t, S) + EntryCost
                     /\ \A E \in SUBSET S :
                          /\ Cardinality(E) \in Nat
                          /\ Bytes(t, S \ E) = Bytes(t, S) - EntryCost * Cardinality(E)
                          /\ Bytes(t, S \ E) <= Bytes(t, S)
<1>1. \A c \in TextCosts : c \in Nat /\ c > 0 /\ c # NoObject /\ c >= Header
  BY Constants DEF TextCosts
<1>2. \A S \in SUBSET Fields : /\ S # NoObject /\ IsFiniteSet(S) /\ Cardinality(S) \in Nat
                               /\ EntryCost * Cardinality(S) \in Nat
  BY Constants, FS_Subset, FS_CardinalityType, Times
<1>3. Bytes(t, NoObject) = 0
  BY DEF Bytes
<1>4. t = "string" => \A c \in TextCosts : Bytes(t, c) = c
  BY <1>1 DEF Bytes
<1>5. t # "string" => \A S \in SUBSET Fields : Bytes(t, S) = EntryCost * Cardinality(S)
  BY <1>2 DEF Bytes
<1>6. \A v \in Values(t) : Bytes(t, v) \in Nat
  BY <1>1, <1>2, <1>3, <1>4, <1>5 DEF Values
<1>7. ASSUME t # "string" PROVE Bytes(t, {}) = 0
  BY <1>5, <1>7, FS_EmptySet, Times
<1>8. ASSUME t # "string", NEW S \in SUBSET Fields, NEW e \in Fields \ S
      PROVE  Bytes(t, S \cup {e}) = Bytes(t, S) + EntryCost
  <2>1. Cardinality(S \cup {e}) = Cardinality(S) + 1
    BY <1>2, <1>8, FS_AddElement
  <2>2. S \cup {e} \in SUBSET Fields
    BY <1>8
  <2> QED BY <1>2, <1>5, <1>8, <2>1, <2>2, Times
<1>9. ASSUME t # "string", NEW S \in SUBSET Fields, NEW E \in SUBSET S
      PROVE  /\ Cardinality(E) \in Nat
             /\ Bytes(t, S \ E) = Bytes(t, S) - EntryCost * Cardinality(E)
             /\ Bytes(t, S \ E) <= Bytes(t, S)
  <2>1. S \ E \in SUBSET Fields /\ E \in SUBSET Fields
    BY <1>9
  <2>2. /\ IsFiniteSet(S) /\ IsFiniteSet(E) /\ IsFiniteSet(S \ E)
        /\ Cardinality(S) \in Nat /\ Cardinality(E) \in Nat /\ Cardinality(S \ E) \in Nat
        /\ EntryCost * Cardinality(E) \in Nat /\ EntryCost * Cardinality(S) \in Nat
    BY <1>2, <2>1
  <2>3. Cardinality(S \ E) = Cardinality(S) - Cardinality(E)
    <3>1. Cardinality(S \ E) = Cardinality(S) - Cardinality(S \cap E)
      BY <2>2, FS_Difference
    <3>2. S \cap E = E
      BY <1>9
    <3> QED BY <3>1, <3>2
  <2>4. EntryCost * Cardinality(S \ E) = EntryCost * Cardinality(S) - EntryCost * Cardinality(E)
    <3>1. Cardinality(E) <= Cardinality(S)
      BY <2>2, <2>3
    <3> QED BY <2>2, <2>3, <3>1, Times
  <2> QED BY <1>5, <1>9, <2>1, <2>2, <2>4
<1> QED BY <1>1, <1>2, <1>3, <1>4, <1>5, <1>6, <1>7, <1>8, <1>9

-----------------------------------------------------------------------------
LEMMA HeldNat == ASSUME NEW s, Shaped(s) PROVE Held(s) \in Nat
<1> DEFINE h == [p \in Types \X Keys |-> Bytes(p[1], s.data[p[1]][p[2]])]
<1>1. \A p \in Types \X Keys : Bytes(p[1], s.data[p[1]][p[2]]) \in Nat
  BY BytesAre DEF Shaped
<1>2. h \in [Types \X Keys -> Nat]
  BY <1>1
<1> HIDE DEF h
<1>3. SumFunction(h) \in Nat
  BY <1>2, SumNat, Constants
<1> QED BY <1>3 DEF Held, h

\* One cell of one store changes.
LEMMA HeldChange ==
    ASSUME NEW s, Shaped(s), NEW r, Shaped(r), NEW t \in Types, NEW k \in Keys,
           \A u \in Types, j \in Keys : u # t \/ j # k => r.data[u][j] = s.data[u][j]
    PROVE  Held(s) + Bytes(t, r.data[t][k]) = Held(r) + Bytes(t, s.data[t][k])
<1> DEFINE h == [p \in Types \X Keys |-> Bytes(p[1], s.data[p[1]][p[2]])]
           g == [p \in Types \X Keys |-> Bytes(p[1], r.data[p[1]][p[2]])]
           a == <<t, k>>
<1>1. \A p \in Types \X Keys : /\ Bytes(p[1], s.data[p[1]][p[2]]) \in Nat
                               /\ Bytes(p[1], r.data[p[1]][p[2]]) \in Nat
  BY BytesAre DEF Shaped
<1>2. h \in [Types \X Keys -> Nat] /\ g \in [Types \X Keys -> Nat] /\ a \in Types \X Keys
  BY <1>1
<1>3. h[a] = Bytes(t, s.data[t][k]) /\ g[a] = Bytes(t, r.data[t][k])
  OBVIOUS
<1>4. \A p \in Types \X Keys : p # a => h[p] = g[p]
  OBVIOUS
<1>5. Held(s) = SumFunction(h) /\ Held(r) = SumFunction(g)
  BY DEF Held
<1> HIDE DEF h, g, a
<1>6. SumFunction(h) + g[a] = SumFunction(g) + h[a]
  BY <1>2, <1>4, SumChange, Constants
<1> QED BY <1>3, <1>5, <1>6

\* The rest is at least nothing.
LEMMA HeldCell ==
    ASSUME NEW s, Shaped(s), NEW t \in Types, NEW k \in Keys
    PROVE  Bytes(t, s.data[t][k]) \in Nat /\ Bytes(t, s.data[t][k]) <= Held(s)
<1> DEFINE r == [s EXCEPT !.data[t][k] = NoObject]
<1>1. Shaped(r) /\ \A u \in Types, j \in Keys : u # t \/ j # k => r.data[u][j] = s.data[u][j]
  BY DEF Shaped, State, Values
<1>2. r.data[t][k] = NoObject
  BY DEF Shaped, State
<1> HIDE DEF r
<1>3. Held(s) + Bytes(t, r.data[t][k]) = Held(r) + Bytes(t, s.data[t][k])
  BY <1>1, HeldChange
<1>4. Bytes(t, NoObject) = 0 /\ Bytes(t, s.data[t][k]) \in Nat
  BY BytesAre DEF Shaped
<1> QED BY <1>1, <1>2, <1>3, <1>4, HeldNat

LEMMA HeldNothing ==
    ASSUME NEW s, \A t \in Types, k \in Keys : s.data[t][k] = NoObject
    PROVE  Held(s) = 0
<1> DEFINE h == [p \in Types \X Keys |-> Bytes(p[1], s.data[p[1]][p[2]])]
<1>1. h \in [Types \X Keys -> Nat] /\ \A p \in Types \X Keys : h[p] = 0
  BY BytesAre
<1> HIDE DEF h
<1>2. SumFunction(h) = 0
  BY <1>1, SumZero, Constants
<1> QED BY <1>2 DEF Held, h

LEMMA HeldSame == ASSUME NEW s, NEW r, r.data = s.data PROVE Held(r) = Held(s)
BY DEF Held

-----------------------------------------------------------------------------
(***************************************************************************)
(* The methods that write nothing: touch(), deleteKey(), lazy expiry.      *)
(***************************************************************************)
\* The key x is as it was; or it is unknown to the registries.
Same(s, r, x) ==
    /\ r.types[x] = s.types[x] /\ r.ttl[x] = s.ttl[x]
    /\ \A t \in Types : r.data[t][x] = s.data[t][x]
    /\ Contains(r.lru, x) <=> Contains(s.lru, x)

Out(r, x) == r.types[x] = None /\ r.ttl[x] = "none" /\ ~Contains(r.lru, x)

\* The order of the keys outside W in the LRU list is the old one.
OrderKept(W, s, r) ==
    \A x, y \in Keys \ W : Contains(r.lru, x) /\ Contains(r.lru, y) =>
      (Before(r.lru, x, y) <=> Before(s.lru, x, y))

NoGrowth(s, r) == \A t \in Types, x \in Keys : Bytes(t, r.data[t][x]) <= Bytes(t, s.data[t][x])

\* r holds and counts no more than s.
Shrinks(s, r) == r.used <= s.used /\ NoGrowth(s, r) /\ ("own" \in s.slips => "own" \in r.slips)

LEMMA CreditIs ==
    ASSUME NEW used \in Nat, NEW n \in Nat
    PROVE  /\ Credit(used, n) \in Nat /\ Credit(used, n) <= used
           /\ n <= used => Credit(used, n) = used - n
BY DEF Credit

LEMMA SameBytes ==
    ASSUME NEW s, Shaped(s), NEW r, Shaped(r),
           \A t \in Types, x \in Keys : r.data[t][x] = s.data[t][x] \/ r.data[t][x] = NoObject
    PROVE  NoGrowth(s, r)
<1>1. \A t \in Types, x \in Keys : Bytes(t, s.data[t][x]) \in Nat /\ Bytes(t, r.data[t][x]) \in Nat
  BY BytesAre DEF Shaped
<1>2. \A t \in Types : Bytes(t, NoObject) = 0
  BY BytesAre
<1> QED BY <1>1, <1>2 DEF NoGrowth

LEMMA Touched ==
    ASSUME NEW s, Shaped(s), NEW k \in Keys
    PROVE  LET r == Touch(s, k) IN
           /\ Shaped(r)
           /\ r.types = s.types /\ r.data = s.data /\ r.ttl = s.ttl
           /\ r.used = s.used /\ r.slips = s.slips
           /\ \A x \in Keys : Contains(r.lru, x) <=> x = k \/ Contains(s.lru, x)
           /\ \A x, y \in Keys \ {k} : Before(r.lru, x, y) <=> Before(s.lru, x, y)
           /\ \A x \in Keys \ {k} : Contains(s.lru, x) => Before(r.lru, x, k)
<1> DEFINE q == Only(s.lru, Keys \ {k})
           p == Append(q, k)
           r == Touch(s, k)
<1>1. s \in State /\ s.lru \in Seq(Keys) /\ IsInjective(s.lru)
  BY DEF Shaped, State
<1>2. /\ q \in Seq(Keys) /\ IsInjective(q)
      /\ \A x : Contains(q, x) <=> x \in Keys \ {k} /\ Contains(s.lru, x)
      /\ \A x, y : Before(q, x, y) <=> x \in Keys \ {k} /\ y \in Keys \ {k} /\ Before(s.lru, x, y)
  BY <1>1, OnlyIs
<1>3. r = [s EXCEPT !.lru = p]
  BY <1>1 DEF Touch, Forget, State
<1> HIDE DEF q
<1>4. /\ p \in Seq(Keys) /\ IsInjective(p)
      /\ \A x : Contains(p, x) <=> x = k \/ Contains(q, x)
      /\ \A x, y : Before(p, x, y) <=> Before(q, x, y) \/ (y = k /\ Contains(q, x))
  BY <1>2, AppendedKey
<1> HIDE DEF p, r
<1>5. /\ r \in State /\ r.lru = p /\ r.types = s.types /\ r.data = s.data /\ r.ttl = s.ttl
      /\ r.used = s.used /\ r.slips = s.slips
  BY <1>1, <1>3, <1>4 DEF State
<1>6. Shaped(r)
  BY <1>4, <1>5 DEF Shaped
<1> QED BY <1>2, <1>4, <1>5, <1>6 DEF r

LEMMA DeletedKey ==
    ASSUME NEW s, Shaped(s), NEW k \in Keys
    PROVE  LET r == Deleted(s, k) IN
           /\ Shaped(r) /\ Out(r, k) /\ r.slips = s.slips
           /\ \A x \in Keys \ {k} : Same(s, r, x)
           /\ OrderKept({k}, s, r)
           /\ s.types[k] = None => r.data = s.data /\ r.used = s.used
           /\ s.types[k] # None =>
                /\ r.data[s.types[k]][k] = NoObject
                /\ \A u \in Types, j \in Keys :
                     u # s.types[k] \/ j # k => r.data[u][j] = s.data[u][j]
                /\ r.used = Credit(s.used, Bytes(s.types[k], s.data[s.types[k]][k]))
<1> DEFINE q == Only(s.lru, Keys \ {k})
           t == s.types[k]
           n == Bytes(t, s.data[t][k])
           r == Deleted(s, k)
<1>1. s \in State /\ s.lru \in Seq(Keys) /\ IsInjective(s.lru)
  BY DEF Shaped, State
<1>2. /\ q \in Seq(Keys) /\ IsInjective(q)
      /\ \A x : Contains(q, x) <=> x \in Keys \ {k} /\ Contains(s.lru, x)
      /\ \A x, y : Before(q, x, y) <=> x \in Keys \ {k} /\ y \in Keys \ {k} /\ Before(s.lru, x, y)
  BY <1>1, OnlyIs
<1>3. r = IF t = None THEN [s EXCEPT !.lru = q, !.ttl[k] = "none"]
          ELSE [s EXCEPT !.lru = q, !.ttl[k] = "none", !.types[k] = None,
                         !.data[t][k] = NoObject, !.used = Credit(@, n)]
  BY <1>1 DEF Deleted, Forget, State
<1>4. t \in Types \cup {None} /\ (t # None => n \in Nat /\ Credit(s.used, n) \in Nat)
  <2>1. t \in Types \cup {None} /\ s.used \in Nat
    BY <1>1 DEF State
  <2>2. t # None => n \in Nat
    BY <2>1, BytesAre DEF Shaped
  <2> QED BY <2>1, <2>2, CreditIs
<1> HIDE DEF q, n, r
<1>5. CASE t = None
  <2>1. r = [s EXCEPT !.lru = q, !.ttl[k] = "none"]
    BY <1>3, <1>5
  <2>2. /\ r \in State /\ r.lru = q /\ r.types = s.types /\ r.data = s.data
        /\ r.ttl[k] = "none" /\ (\A x \in Keys : x # k => r.ttl[x] = s.ttl[x])
        /\ r.used = s.used /\ r.slips = s.slips
    BY <1>1, <1>2, <2>1 DEF State, Expiries
  <2>3. Shaped(r)
    BY <1>2, <2>2 DEF Shaped
  <2> QED BY <1>2, <1>5, <2>2, <2>3 DEF Same, Out, OrderKept, r
<1>6. CASE t # None
  <2>1. r = [s EXCEPT !.lru = q, !.ttl[k] = "none", !.types[k] = None,
                      !.data[t][k] = NoObject, !.used = Credit(@, n)]
    BY <1>3, <1>6
  <2> HIDE DEF t
  <2>2. /\ r \in State /\ r.lru = q
        /\ r.types[k] = None /\ (\A x \in Keys : x # k => r.types[x] = s.types[x])
        /\ r.ttl[k] = "none" /\ (\A x \in Keys : x # k => r.ttl[x] = s.ttl[x])
        /\ r.used = Credit(s.used, n) /\ r.slips = s.slips
        /\ r.data[t][k] = NoObject
        /\ \A u \in Types, j \in Keys : u # t \/ j # k => r.data[u][j] = s.data[u][j]
    BY <1>1, <1>2, <1>4, <1>6, <2>1 DEF State, Expiries
  <2>3. \A u \in Types, j \in Keys : r.data[u][j] \in Values(u)
    BY <1>4, <1>6, <2>2 DEF Shaped, Values
  <2>4. Shaped(r)
    BY <1>2, <2>2, <2>3 DEF Shaped
  <2> QED BY <1>2, <1>6, <2>2, <2>4 DEF Same, Out, OrderKept, r, t, n
<1> QED BY <1>5, <1>6

\* A value and its bytes go together.
LEMMA DeletedGood ==
    ASSUME NEW s, Good(s), NEW k \in Keys
    PROVE  /\ Good(Deleted(s, k)) /\ Shrinks(s, Deleted(s, k))
           /\ \A t \in Types, x \in Keys : \/ Deleted(s, k).data[t][x] = s.data[t][x]
                                          \/ Deleted(s, k).data[t][x] = NoObject
<1> DEFINE r == Deleted(s, k)
           t == s.types[k]
<1>1. /\ Shaped(s) /\ s \in State /\ s.used \in Nat /\ t \in Types \cup {None}
      /\ s.slips \subseteq Reasons
  BY DEF Good, Shaped, State
<1>2. /\ Shaped(r) /\ Out(r, k) /\ r.slips = s.slips
      /\ \A x \in Keys \ {k} : Same(s, r, x)
      /\ t = None => r.data = s.data /\ r.used = s.used
      /\ t # None =>
           /\ r.data[t][k] = NoObject
           /\ \A u \in Types, j \in Keys : u # t \/ j # k => r.data[u][j] = s.data[u][j]
           /\ r.used = Credit(s.used, Bytes(t, s.data[t][k]))
  BY <1>1, DeletedKey
<1> HIDE DEF r, t
<1>3. \A u \in Types, x \in Keys : r.data[u][x] = s.data[u][x] \/ r.data[u][x] = NoObject
  BY <1>2
<1>4. NoGrowth(s, r)
  BY <1>1, <1>2, <1>3, SameBytes
<1>5. Listed(r)
  BY <1>2 DEF Listed, Same, Out, Good
<1>6. ASSUME "own" \notin r.slips PROVE OwnedIn(r)
  <2>1. OwnedIn(s)
    BY <1>2, <1>6 DEF Good
  <2>2. \A u \in Collections : u \in Types
    BY Constants
  <2>3. "string" \in Types
    BY Constants
  <2>4. ASSUME NEW x \in Keys \ {k}
        PROVE  /\ r.data["string"][x] # NoObject => r.types[x] = "string"
               /\ \A u \in Collections : r.data[u][x] \notin {{}, NoObject} => r.types[x] = u
    BY <1>2, <2>1, <2>2, <2>3 DEF OwnedIn, Same
  <2>5. /\ r.data["string"][k] = NoObject
        /\ \A u \in Collections : r.data[u][k] \in {{}, NoObject}
    <3>1. CASE t = None
      <4>1. s.types[k] \notin Types
        BY <3>1, Constants DEF t
      <4>2. /\ s.data["string"][k] = NoObject
            /\ \A u \in Collections : s.data[u][k] \in {{}, NoObject}
        BY <2>1, <2>2, <2>3, <4>1 DEF OwnedIn
      <4> QED BY <1>2, <3>1, <4>2
    <3>2. CASE t # None
      BY <1>1, <1>2, <2>1, <2>2, <2>3, <3>2 DEF OwnedIn, t
    <3> QED BY <3>1, <3>2
  <2> QED BY <2>4, <2>5 DEF OwnedIn
<1>7. r.used <= s.used /\ Accounted(r)
  <2>1. CASE t = None
    BY <1>1, <1>2, <2>1, HeldSame DEF Good, Accounted
  <2>2. CASE t # None
    <3> DEFINE n == Bytes(t, s.data[t][k])
    <3>1. n \in Nat /\ n <= Held(s) /\ Held(s) \in Nat
      BY <1>1, <2>2, HeldCell, HeldNat
    <3>2. Held(s) + Bytes(t, r.data[t][k]) = Held(r) + n
      BY <1>1, <1>2, <2>2, HeldChange
    <3>3. Bytes(t, r.data[t][k]) = 0
      BY <1>1, <1>2, <2>2, BytesAre
    <3>4. Held(r) \in Nat
      BY <1>2, HeldNat
    <3>5. Credit(s.used, n) <= s.used /\ (n <= s.used => Credit(s.used, n) = s.used - n)
      BY <1>1, <3>1, CreditIs
    <3>6. r.used = Credit(s.used, n)
      BY <1>2, <2>2
    <3> HIDE DEF n
    <3>7. /\ s.slips = {} => s.used = Held(s)
          /\ "own" \notin s.slips => s.used >= Held(s)
      BY DEF Good, Accounted
    <3>8. Held(r) = Held(s) - n
      BY <3>1, <3>2, <3>3, <3>4
    <3>9. ASSUME s.slips = {} PROVE r.used = Held(r)
      BY <1>1, <3>1, <3>5, <3>6, <3>7, <3>8, <3>9
    <3>10. ASSUME "own" \notin s.slips PROVE r.used >= Held(r)
      BY <1>1, <3>1, <3>5, <3>6, <3>7, <3>8, <3>10
    <3> QED BY <1>2, <3>5, <3>6, <3>9, <3>10 DEF Accounted
  <2> QED BY <2>1, <2>2
<1>8. Good(r) /\ Shrinks(s, r)
  BY <1>2, <1>4, <1>5, <1>6, <1>7 DEF Good, Shrinks
<1> QED BY <1>3, <1>8 DEF r

\* A TTL says nothing of what is stored.
LEMMA TtlGood ==
    ASSUME NEW s, Good(s), NEW k \in Keys, NEW v \in Expiries,
           NEW r, r = WithTTL(s, k, v)
    PROVE  /\ Good(r) /\ r.types = s.types /\ r.data = s.data /\ r.lru = s.lru
           /\ r.used = s.used /\ r.slips = s.slips
           /\ r.ttl[k] = v /\ \A x \in Keys \ {k} : r.ttl[x] = s.ttl[x]
<1>1. s \in State /\ r = [s EXCEPT !.ttl[k] = v]
  BY DEF Good, Shaped, WithTTL, Expiries
<1>2. /\ r \in State /\ r.types = s.types /\ r.data = s.data /\ r.lru = s.lru
      /\ r.used = s.used /\ r.slips = s.slips
      /\ r.ttl[k] = v /\ \A x \in Keys \ {k} : r.ttl[x] = s.ttl[x]
  <2>1. s.ttl \in [Keys -> Expiries]
    BY <1>1 DEF State
  <2>2. PICK ttl : ttl = [s.ttl EXCEPT ![k] = v]
    OBVIOUS
  <2>3. ttl \in [Keys -> Expiries] /\ ttl[k] = v /\ \A x \in Keys \ {k} : ttl[x] = s.ttl[x]
    <3> HIDE DEF Expiries
    <3> QED BY <2>1, <2>2
  <2>4. r = [s EXCEPT !.ttl = ttl]
    BY <1>1, <2>2
  <2> HIDE DEF Expiries
  <2>5. r \in State /\ r.ttl = ttl
    BY <1>1, <2>3, <2>4 DEF State
  <2>6. /\ r.types = s.types /\ r.data = s.data /\ r.lru = s.lru
        /\ r.used = s.used /\ r.slips = s.slips
    BY <1>1, <2>4 DEF State
  <2> QED BY <2>3, <2>5, <2>6
<1>3. Shaped(r)
  BY <1>2 DEF Good, Shaped
<1>4. Listed(r) /\ ("own" \notin r.slips => OwnedIn(r))
  BY <1>2 DEF Good, Listed, OwnedIn
<1>5. Accounted(r)
  BY <1>2, HeldSame DEF Good, Accounted
<1> QED BY <1>2, <1>3, <1>4, <1>5 DEF Good

-----------------------------------------------------------------------------
(***************************************************************************)
(* What a command that writes the keys of W may make of a state, whatever  *)
(* it evicts and wherever it throws.                                       *)
(***************************************************************************)
\* Eviction may take x.
MayGo(s, x) == policy = "allkeys-lru" \/ (policy = "volatile-lru" /\ s.ttl[x] = "ahead")

\* What grows has come under the cap.
Bound(s, r) == (r.used <= s.used /\ NoGrowth(s, r)) \/ r.used <= cap

\* No key outside W has grown.
NoMore(W, s, r) ==
    \A t \in Types, x \in Keys \ W : Bytes(t, r.data[t][x]) <= Bytes(t, s.data[t][x])

Reaches(W, s, r) ==
    /\ Good(r)
    /\ Bound(s, r)
    /\ "own" \in s.slips => "own" \in r.slips
    /\ \A x \in Keys \ W : Same(s, r, x) \/ Out(r, x)
    /\ NoMore(W, s, r)
    /\ OrderKept(W, s, r)
    /\ \A y \in Keys \ W : Contains(s.lru, y) /\ ~Contains(r.lru, y) =>
         /\ MayGo(s, y)
         /\ \A x \in Keys \ W : Contains(r.lru, x) /\ MayGo(s, x) => ~Before(s.lru, x, y)

LEMMA BoundAgain ==
    ASSUME NEW s, Shaped(s), NEW r, Shaped(r), NEW q, Shaped(q), cap \in Nat, Bound(s, r), Bound(r, q)
    PROVE  Bound(s, q)
<1>1. s.used \in Nat /\ r.used \in Nat /\ q.used \in Nat
  BY DEF Shaped, State
<1>2. \A t \in Types, x \in Keys :
        Bytes(t, s.data[t][x]) \in Nat /\ Bytes(t, r.data[t][x]) \in Nat /\ Bytes(t, q.data[t][x]) \in Nat
  BY BytesAre DEF Shaped
<1>3. NoGrowth(s, r) /\ NoGrowth(r, q) => NoGrowth(s, q)
  BY <1>2 DEF NoGrowth
<1> QED BY <1>1, <1>3 DEF Bound

LEMMA ReachesItself ==
    ASSUME NEW W, NEW s, Good(s)
    PROVE  Reaches(W, s, s)
<1>1. s.used \in Nat /\ \A t \in Types, x \in Keys : Bytes(t, s.data[t][x]) \in Nat
  BY BytesAre DEF Good, Shaped, State
<1>2. Bound(s, s)
  BY <1>1 DEF Bound, NoGrowth
<1> QED BY <1>1, <1>2 DEF Reaches, Same, OrderKept, NoMore

LEMMA ReachesAgain ==
    ASSUME NEW W, NEW s, Good(s), NEW r, NEW q, cap \in Nat, Reaches(W, s, r), Reaches(W, r, q)
    PROVE  Reaches(W, s, q)
<1>1. Bound(s, q)
  BY BoundAgain DEF Reaches, Good
<1>2. ASSUME NEW x \in Keys \ W
      PROVE  /\ Same(s, q, x) \/ Out(q, x)
             /\ Contains(q.lru, x) => /\ Contains(r.lru, x) /\ Contains(s.lru, x)
                                      /\ r.ttl[x] = s.ttl[x]
  BY DEF Reaches, Same, Out
<1>3. OrderKept(W, s, q)
  BY <1>2 DEF OrderKept, Reaches
<1>4. NoMore(W, s, q)
  <2>1. \A t \in Types, x \in Keys :
          /\ Bytes(t, s.data[t][x]) \in Nat /\ Bytes(t, r.data[t][x]) \in Nat
          /\ Bytes(t, q.data[t][x]) \in Nat
    BY BytesAre DEF Reaches, Good, Shaped
  <2> QED BY <2>1 DEF Reaches, NoMore
<1>5. ASSUME NEW y \in Keys \ W, Contains(s.lru, y), ~Contains(q.lru, y)
      PROVE  /\ MayGo(s, y)
             /\ \A x \in Keys \ W : Contains(q.lru, x) /\ MayGo(s, x) => ~Before(s.lru, x, y)
  <2>1. \A x \in Keys \ W : Contains(q.lru, x) /\ MayGo(s, x) => Contains(r.lru, x) /\ MayGo(r, x)
    BY <1>2 DEF MayGo
  <2>2. CASE ~Contains(r.lru, y)
    BY <1>5, <2>1, <2>2 DEF Reaches
  <2>3. CASE Contains(r.lru, y)
    <3>1. /\ MayGo(r, y)
          /\ \A x \in Keys \ W : Contains(q.lru, x) /\ MayGo(r, x) => ~Before(r.lru, x, y)
      BY <1>5, <2>3 DEF Reaches
    <3>2. r.ttl[y] = s.ttl[y]
      BY <2>3 DEF Reaches, Same, Out
    <3>3. \A x \in Keys \ W : Contains(r.lru, x) => (Before(r.lru, x, y) <=> Before(s.lru, x, y))
      BY <2>3 DEF Reaches, OrderKept
    <3> QED BY <2>1, <3>1, <3>2, <3>3 DEF MayGo
  <2> QED BY <2>2, <2>3
<1> QED BY <1>1, <1>2, <1>3, <1>4, <1>5 DEF Reaches

\* Writing more keys may do more.
LEMMA ReachesMore ==
    ASSUME NEW W, NEW V, W \subseteq V, NEW s, NEW r, Reaches(W, s, r)
    PROVE  Reaches(V, s, r)
BY DEF Reaches, OrderKept, NoMore

\* A step that shrinks the state, and leaves the keys but k alone.
LEMMA ReachesDown ==
    ASSUME NEW s, NEW r, Good(r), Shrinks(s, r), NEW k,
           \A x \in Keys \ {k} : Same(s, r, x), OrderKept({k}, s, r)
    PROVE  Reaches({k}, s, r)
BY DEF Reaches, Shrinks, Bound, Same, NoGrowth, NoMore

LEMMA DeletedReaches ==
    ASSUME NEW s, Good(s), NEW k \in Keys
    PROVE  Reaches({k}, s, Deleted(s, k))
<1>1. Shaped(s)
  BY DEF Good
<1>2. (\A x \in Keys \ {k} : Same(s, Deleted(s, k), x)) /\ OrderKept({k}, s, Deleted(s, k))
  BY <1>1, DeletedKey
<1> QED BY <1>2, DeletedGood, ReachesDown

LEMMA TtlReaches ==
    ASSUME NEW s, Good(s), NEW k \in Keys, NEW v \in Expiries
    PROVE  Reaches({k}, s, WithTTL(s, k, v)) /\ Shrinks(s, WithTTL(s, k, v))
<1> DEFINE r == WithTTL(s, k, v)
<1>1. /\ Good(r) /\ r.types = s.types /\ r.data = s.data /\ r.lru = s.lru
      /\ r.used = s.used /\ r.slips = s.slips
      /\ r.ttl[k] = v /\ \A x \in Keys \ {k} : r.ttl[x] = s.ttl[x]
  BY TtlGood
<1> HIDE DEF r
<1>2. s.used \in Nat /\ \A t \in Types, x \in Keys : Bytes(t, s.data[t][x]) \in Nat
  BY BytesAre DEF Good, Shaped, State
<1>3. Shrinks(s, r)
  BY <1>1, <1>2 DEF Shrinks, NoGrowth
<1>4. (\A x \in Keys \ {k} : Same(s, r, x)) /\ OrderKept({k}, s, r)
  BY <1>1 DEF Same, OrderKept
<1>5. Reaches({k}, s, r)
  BY <1>1, <1>3, <1>4, ReachesDown
<1> QED BY <1>3, <1>5 DEF r

LEMMA ExpiredReaches ==
    ASSUME NEW s, Good(s), NEW k \in Keys
    PROVE  /\ Good(Expired(s, k)) /\ Reaches({k}, s, Expired(s, k)) /\ Shrinks(s, Expired(s, k))
           /\ Expired(s, k).ttl[k] = "none" /\ Expired(s, k).types[k] = None
<1>1. CASE s.types[k] = None
  <2>1. Expired(s, k) = WithTTL(s, k, "none")
    BY <1>1 DEF Expired, WithTTL
  <2>2. "none" \in Expiries
    BY DEF Expiries
  <2> QED BY <1>1, <2>1, <2>2, TtlReaches, TtlGood
<1>2. CASE s.types[k] # None
  <2>1. Expired(s, k) = Deleted(s, k)
    BY <1>2 DEF Expired
  <2>2. Out(Deleted(s, k), k)
    BY DeletedKey DEF Good
  <2> QED BY <2>1, <2>2, DeletedReaches, DeletedGood DEF Out
<1> QED BY <1>1, <1>2

LEMMA CurrentReaches ==
    ASSUME NEW s, Good(s), NEW k \in Keys
    PROVE  /\ Good(Current(s, k)) /\ Reaches({k}, s, Current(s, k)) /\ Shrinks(s, Current(s, k))
           /\ Current(s, k).ttl[k] \in {s.ttl[k], "none"}
<1>1. CASE s.ttl[k] = "passed"
  BY <1>1, ExpiredReaches DEF Current
<1>2. CASE s.ttl[k] # "passed"
  <2>1. Current(s, k) = s
    BY <1>2 DEF Current
  <2>2. s.used \in Nat /\ \A t \in Types, x \in Keys : Bytes(t, s.data[t][x]) \in Nat
    BY BytesAre DEF Good, Shaped, State
  <2> QED BY <2>1, <2>2, ReachesItself DEF Shrinks, NoGrowth
<1> QED BY <1>1, <1>2

LEMMA TouchedReaches ==
    ASSUME NEW s, Good(s), NEW k \in Keys
    PROVE  Reaches({k}, s, Touch(s, k)) /\ Shrinks(s, Touch(s, k))
<1> DEFINE r == Touch(s, k)
<1>1. Shaped(s)
  BY DEF Good
<1>2. /\ Shaped(r)
      /\ r.types = s.types /\ r.data = s.data /\ r.ttl = s.ttl
      /\ r.used = s.used /\ r.slips = s.slips
      /\ \A x \in Keys : Contains(r.lru, x) <=> x = k \/ Contains(s.lru, x)
      /\ \A x, y \in Keys \ {k} : Before(r.lru, x, y) <=> Before(s.lru, x, y)
  BY <1>1, Touched
<1> HIDE DEF r
<1>3. Good(r)
  <2>1. Listed(r) /\ ("own" \notin r.slips => OwnedIn(r))
    BY <1>2 DEF Good, Listed, OwnedIn
  <2>2. Accounted(r)
    BY <1>2, HeldSame DEF Good, Accounted
  <2> QED BY <1>2, <2>1, <2>2 DEF Good
<1>4. s.used \in Nat /\ \A t \in Types, x \in Keys : Bytes(t, s.data[t][x]) \in Nat
  BY <1>1, BytesAre DEF Shaped, State
<1>5. Shrinks(s, r)
  BY <1>2, <1>4 DEF Shrinks, NoGrowth
<1>6. (\A x \in Keys \ {k} : Same(s, r, x)) /\ OrderKept({k}, s, r)
  BY <1>2 DEF Same, OrderKept
<1> QED BY <1>3, <1>5, <1>6, ReachesDown DEF r

-----------------------------------------------------------------------------
(***************************************************************************)
(* Eviction, and the charge that calls it.                                 *)
(***************************************************************************)
LEMMA ShrinksAgain ==
    ASSUME NEW s, Shaped(s), NEW r, Shaped(r), NEW q, Shaped(q), Shrinks(s, r), Shrinks(r, q)
    PROVE  Shrinks(s, q)
<1>1. s.used \in Nat /\ r.used \in Nat /\ q.used \in Nat
  BY DEF Shaped, State
<1>2. \A t \in Types, x \in Keys :
        Bytes(t, s.data[t][x]) \in Nat /\ Bytes(t, r.data[t][x]) \in Nat /\ Bytes(t, q.data[t][x]) \in Nat
  BY BytesAre DEF Shaped
<1> QED BY <1>1, <1>2 DEF Shrinks, NoGrowth

LEMMA ShrinksItself == ASSUME NEW s, Shaped(s) PROVE Shrinks(s, s)
<1>1. s.used \in Nat /\ \A t \in Types, x \in Keys : Bytes(t, s.data[t][x]) \in Nat
  BY BytesAre DEF Shaped, State
<1> QED BY <1>1 DEF Shrinks, NoGrowth

LEMMA CandidatesAre ==
    ASSUME NEW s, Shaped(s), policy \in Policies
    PROVE  /\ Candidates(s) \in Seq(Keys) /\ IsInjective(Candidates(s))
           /\ \A x \in Keys : Contains(Candidates(s), x) <=> Contains(s.lru, x) /\ MayGo(s, x)
           /\ \A x, y \in Keys : MayGo(s, x) /\ MayGo(s, y) =>
                (Before(Candidates(s), x, y) <=> Before(s.lru, x, y))
<1> DEFINE P == {k \in Keys : s.ttl[k] = "ahead"}
<1>1. s.lru \in Seq(Keys) /\ IsInjective(s.lru)
  BY DEF Shaped, State
<1>2. policy \in {"noeviction", "allkeys-lru", "volatile-lru"}
  BY Constants
<1>3. CASE policy = "noeviction"
  <2>1. Candidates(s) = <<>> /\ \A x : ~MayGo(s, x)
    BY <1>3 DEF Candidates, MayGo
  <2> QED BY <2>1, NothingIn
<1>4. CASE policy = "allkeys-lru"
  <2>1. Candidates(s) = s.lru /\ \A x : MayGo(s, x)
    BY <1>4 DEF Candidates, MayGo
  <2> QED BY <1>1, <2>1
<1>5. CASE policy = "volatile-lru"
  <2>1. Candidates(s) = Only(s.lru, P) /\ \A x \in Keys : MayGo(s, x) <=> x \in P
    BY <1>5 DEF Candidates, MayGo
  <2> HIDE DEF P
  <2> QED BY <1>1, <2>1, OnlyIs
<1> QED BY <1>2, <1>3, <1>4, <1>5

\* What Evicted makes of s with the first i of seq, for every i.
EvictingOf(f, s, seq, n, m) ==
    f = [i \in 0..m |-> IF i = 0 THEN s
                        ELSE IF Fits(f[i - 1], n) THEN f[i - 1] ELSE Deleted(f[i - 1], seq[i])]

LEMMA EvictingExists ==
    ASSUME NEW s, NEW seq, NEW n, NEW m \in Nat
    PROVE  \E f : EvictingOf(f, s, seq, n, m)
<1> DEFINE T == {k \in Nat : \E f : EvictingOf(f, s, seq, n, k)}
<1>1. 0 \in T
  <2> DEFINE f == [i \in 0..0 |-> s]
  <2>1. f = [i \in 0..0 |-> IF i = 0 THEN s
                            ELSE IF Fits(f[i - 1], n) THEN f[i - 1] ELSE Deleted(f[i - 1], seq[i])]
    OBVIOUS
  <2> QED BY <2>1 DEF EvictingOf
<1>2. ASSUME NEW k \in 0..m, k # 0, (k - 1) \in T PROVE k \in T
  <2>1. PICK f : EvictingOf(f, s, seq, n, k - 1)
    BY <1>2
  <2> DEFINE g == [i \in 0..k |-> IF i < k THEN f[i]
                                  ELSE IF Fits(f[k - 1], n) THEN f[k - 1]
                                  ELSE Deleted(f[k - 1], seq[k])]
  <2>2. \A i \in 0..(k - 1) : f[i] = IF i = 0 THEN s
                              ELSE IF Fits(f[i - 1], n) THEN f[i - 1] ELSE Deleted(f[i - 1], seq[i])
    BY <2>1 DEF EvictingOf
  <2>3. k \in Nat /\ k # 0
    BY <1>2
  <2>4. ASSUME NEW i \in 0..k, i # k
        PROVE  i \in 0..(k - 1) /\ i < k /\ (i # 0 => i - 1 < k /\ i - 1 \in 0..k)
    BY ONLY <2>3, <2>4
  <2>5. k \in 0..k /\ k - 1 \in 0..k /\ k - 1 < k /\ ~(k < k)
    BY <2>3
  <2>6. \A i \in 0..k : g[i] = IF i = 0 THEN s
                               ELSE IF Fits(g[i - 1], n) THEN g[i - 1] ELSE Deleted(g[i - 1], seq[i])
    BY <1>2, <2>2, <2>4, <2>5
  <2>7. EvictingOf(g, s, seq, n, k)
    BY <2>6 DEF EvictingOf
  <2> QED BY <2>3, <2>7
<1>3. m \in T
  <2> HIDE DEF T
  <2> QED BY <1>1, <1>2, UpTo
<1> QED BY <1>3

LEMMA EvictedIs ==
    ASSUME NEW s, NEW seq, NEW n, Len(seq) \in Nat
    PROVE  \E f : /\ Evicted(s, seq, n) = f[Len(seq)] /\ f[0] = s
                  /\ \A i \in 1..Len(seq) :
                       f[i] = IF Fits(f[i - 1], n) THEN f[i - 1] ELSE Deleted(f[i - 1], seq[i])
<1> DEFINE m == Len(seq)
           f == CHOOSE f : EvictingOf(f, s, seq, n, m)
<1>1. EvictingOf(f, s, seq, n, m)
  BY EvictingExists
<1>2. Evicted(s, seq, n) = f[m]
  BY DEF Evicted, EvictingOf
<1> HIDE DEF f
<1>3. \A i \in 0..m : f[i] = IF i = 0 THEN s
                             ELSE IF Fits(f[i - 1], n) THEN f[i - 1] ELSE Deleted(f[i - 1], seq[i])
  BY <1>1 DEF EvictingOf
<1>4. 0 \in 0..m /\ \A i \in 1..m : i \in 0..m /\ i # 0
  OBVIOUS
<1> QED BY <1>2, <1>3, <1>4

\* What is there after an eviction: the keys that did not have to go, untouched.
Evicts(s, r) == Reaches({}, s, r) /\ Shrinks(s, r) /\ r.slips = s.slips

LEMMA EvictedReaches ==
    ASSUME NEW s, Good(s), NEW n, policy \in Policies
    PROVE  Evicts(s, Evicted(s, Candidates(s), n))
<1> DEFINE q == Candidates(s)
           m == Len(q)
<1>1. Shaped(s)
  BY DEF Good
<1>2. /\ q \in Seq(Keys) /\ IsInjective(q)
      /\ \A x \in Keys : Contains(q, x) <=> Contains(s.lru, x) /\ MayGo(s, x)
      /\ \A x, y \in Keys : MayGo(s, x) /\ MayGo(s, y) => (Before(q, x, y) <=> Before(s.lru, x, y))
  BY <1>1, CandidatesAre
<1> HIDE DEF q
<1>3. m \in Nat /\ DOMAIN q = 1..m /\ \A i \in 1..m : q[i] \in Keys
  BY <1>2, LenProperties
<1>4. PICK f : /\ Evicted(s, q, n) = f[m] /\ f[0] = s
               /\ \A i \in 1..m :
                    f[i] = IF Fits(f[i - 1], n) THEN f[i - 1] ELSE Deleted(f[i - 1], q[i])
  BY <1>3, EvictedIs
<1> DEFINE Well(i, st) ==
             /\ Good(st) /\ Shrinks(s, st) /\ st.slips = s.slips
             /\ \A x \in Keys : Same(s, st, x) \/ (Out(st, x) /\ Contains(q, x))
             /\ OrderKept({}, s, st)
             /\ \A b \in (i + 1)..m : Contains(st.lru, q[b])
             /\ Fits(st, n) \/ \A a \in 1..i : ~Contains(st.lru, q[a])
             /\ \A a, b \in 1..m : a < b /\ Contains(st.lru, q[a]) => Contains(st.lru, q[b])
           T == {i \in 0..m : Well(i, f[i])}
<1>5. 0 \in T
  <2>1. \A a \in 1..m : Contains(s.lru, q[a])
    <3>1. \A a \in 1..m : Contains(q, q[a])
      BY <1>3 DEF Contains
    <3> QED BY <1>2, <1>3, <3>1
  <2>2. Shrinks(s, s) /\ OrderKept({}, s, s) /\ \A x \in Keys : Same(s, s, x)
    BY <1>1, ShrinksItself DEF OrderKept, Same
  <2>3. 1..0 = {} /\ \A b \in (0 + 1)..m : b \in 1..m
    OBVIOUS
  <2>4. Well(0, s)
    BY <2>1, <2>2, <2>3
  <2> HIDE DEF Well
  <2> QED BY <1>3, <1>4, <2>4
<1>6. ASSUME NEW i \in 0..m, i # 0, (i - 1) \in T PROVE i \in T
  <2> DEFINE st == f[i - 1]
             k == q[i]
             r == Deleted(st, k)
  <2>0. i \in Nat /\ i \in 1..m /\ k \in Keys /\ Well(i - 1, st)
    BY <1>3, <1>6
  <2>1. f[i] = IF Fits(st, n) THEN st ELSE r
    BY <1>4, <2>0
  <2> HIDE DEF st
  <2>2. CASE Fits(st, n)
    <3>1. \A b \in (i + 1)..m : b \in ((i - 1) + 1)..m
      BY <1>3, <2>0
    <3>2. Well(i, st)
      BY <2>0, <2>2, <3>1
    <3> HIDE DEF Well
    <3> QED BY <1>6, <2>1, <2>2, <3>2
  <2>3. CASE ~Fits(st, n)
    <3>1. /\ Good(st) /\ Shrinks(s, st) /\ st.slips = s.slips
          /\ \A x \in Keys : Same(s, st, x) \/ (Out(st, x) /\ Contains(q, x))
          /\ OrderKept({}, s, st)
          /\ \A b \in i..m : Contains(st.lru, q[b])
          /\ \A a \in 1..(i - 1) : ~Contains(st.lru, q[a])
      BY <2>0, <2>3
    <3>2. Shaped(st)
      BY <3>1 DEF Good
    <3>3. /\ Shaped(r) /\ Out(r, k) /\ r.slips = st.slips
          /\ \A x \in Keys \ {k} : Same(st, r, x)
          /\ OrderKept({k}, st, r)
      BY <2>0, <3>2, DeletedKey
    <3>4. Good(r) /\ Shrinks(st, r)
      BY <2>0, <3>1, DeletedGood
    <3> HIDE DEF r
    <3>5. Shrinks(s, r)
      BY <1>1, <3>1, <3>2, <3>3, <3>4, ShrinksAgain
    <3>6. Contains(q, k)
      BY <1>3, <2>0 DEF Contains
    <3> HIDE DEF k
    <3>7. \A x \in Keys : Same(s, r, x) \/ (Out(r, x) /\ Contains(q, x))
      <4>1. ASSUME NEW x \in Keys, x # k
            PROVE  Same(s, r, x) \/ (Out(r, x) /\ Contains(q, x))
        BY <3>1, <3>3, <4>1 DEF Same, Out
      <4> QED BY <3>3, <3>6, <4>1
    <3>8. OrderKept({}, s, r)
      BY <2>0, <3>1, <3>3 DEF OrderKept, Out, Same
    <3>9. \A a \in 1..m : a # i => q[a] # k /\ q[a] \in Keys
      BY <1>2, <1>3, <2>0 DEF IsInjective, k
    <3>10. \A a \in 1..m : Contains(r.lru, q[a]) <=> a # i /\ Contains(st.lru, q[a])
      BY <2>0, <3>3, <3>9 DEF Same, Out, k
    <3>11. \A a \in 1..m : Contains(r.lru, q[a]) <=> a > i
      <4>1. \A a \in 1..m : a \in 1..(i - 1) \/ a \in i..m
        BY <1>3, <2>0
      <4>2. \A a \in 1..m : Contains(st.lru, q[a]) <=> a \in i..m
        BY <3>1, <4>1, <1>3, <2>0
      <4> QED BY <1>3, <2>0, <3>10, <4>2
    <3>12. /\ \A b \in (i + 1)..m : Contains(r.lru, q[b])
           /\ \A a \in 1..i : ~Contains(r.lru, q[a])
           /\ \A a, b \in 1..m : a < b /\ Contains(r.lru, q[a]) => Contains(r.lru, q[b])
      BY <1>3, <2>0, <3>11
    <3>13. Well(i, r)
      BY <3>1, <3>3, <3>4, <3>5, <3>7, <3>8, <3>12
    <3> HIDE DEF Well
    <3> QED BY <1>6, <2>1, <2>3, <3>13
  <2> QED BY <2>2, <2>3
<1>7. m \in T
  <2> HIDE DEF T
  <2> QED BY <1>3, <1>5, <1>6, UpTo
<1> DEFINE r == f[m]
<1>8. /\ Good(r) /\ Shrinks(s, r) /\ r.slips = s.slips
      /\ \A x \in Keys : Same(s, r, x) \/ (Out(r, x) /\ Contains(q, x))
      /\ OrderKept({}, s, r)
      /\ \A a, b \in 1..m : a < b /\ Contains(r.lru, q[a]) => Contains(r.lru, q[b])
  BY <1>7
<1> HIDE DEF r
<1>9. ASSUME NEW y \in Keys, Contains(s.lru, y), ~Contains(r.lru, y)
      PROVE  /\ MayGo(s, y)
             /\ \A x \in Keys : Contains(r.lru, x) /\ MayGo(s, x) => ~Before(s.lru, x, y)
  <2>1. Contains(q, y) /\ MayGo(s, y)
    BY <1>2, <1>8, <1>9 DEF Same
  <2>2. ASSUME NEW x \in Keys, Contains(r.lru, x), MayGo(s, x), Before(s.lru, x, y) PROVE FALSE
    <3>1. Before(q, x, y)
      BY <1>2, <1>9, <2>1, <2>2
    <3>2. PICK j \in 1..m : \E i \in 1..(j - 1) : q[i] = x /\ q[j] = y
      BY <3>1 DEF Before, Ordered
    <3>3. PICK i \in 1..(j - 1) : q[i] = x /\ q[j] = y
      BY <3>2
    <3>4. i \in 1..m /\ i < j
      BY <1>3, <3>2, <3>3
    <3> QED BY <1>8, <1>9, <2>2, <3>2, <3>3, <3>4
  <2> QED BY <2>1, <2>2
<1>10. Reaches({}, s, r)
  BY <1>8, <1>9 DEF Reaches, Bound, Shrinks, NoGrowth, NoMore
<1> QED BY <1>4, <1>8, <1>10 DEF Evicts, r, q

\* The pieces of a method: its charge, and its write.
Credited(s, n) == [s EXCEPT !.used = Credit(@, n)]
Counted(s, k, n) ==
    [s EXCEPT !.used = @ + n, !.slips = @ \cup IF Contains(s.lru, k) THEN {} ELSE {"own"}]
Put(s, t, k, v) == [s EXCEPT !.data[t][k] = v]
Slipped(s, w) == [s EXCEPT !.slips = @ \cup w]

(* A charge for more bytes evicts, and throws or counts them under the     *)
(* cap; one for fewer only counts.                                         *)
LEMMA Charged ==
    ASSUME NEW s, Good(s), NEW k \in Keys, NEW n \in Int, policy \in Policies
    PROVE  /\ n <= 0 => Charge(s, k, n) = Done(Credited(s, -n))
           /\ n > 0 => \E r :
                /\ Evicts(s, r)
                /\ \/ Charge(s, k, n) = Thrown(r)
                   \/ /\ Fits(r, n)
                      /\ Charge(s, k, n) = Done(Counted(r, k, n))
<1> DEFINE r == Evicted(s, Candidates(s), n)
<1>1. Evicts(s, r)
  BY EvictedReaches
<1>2. ~(n <= 0) <=> n > 0
  OBVIOUS
<1>3. ASSUME n > 0
      PROVE  \/ Charge(s, k, n) = Thrown(r)
             \/ /\ Fits(r, n)
                /\ Charge(s, k, n) = Done(Counted(r, k, n))
  BY <1>2, <1>3 DEF Charge, Counted
<1>4. ASSUME n <= 0 PROVE Charge(s, k, n) = Done(Credited(s, -n))
  BY <1>4 DEF Charge, Credited
<1> HIDE DEF r
<1> QED BY <1>1, <1>3, <1>4

-----------------------------------------------------------------------------
(***************************************************************************)
(* The methods that write: a key is registered and touched, its charge     *)
(* evicts, and the value is stored, even if the key is gone by then.       *)
(***************************************************************************)
\* types.register().
Registering(s, k, t) == [s EXCEPT !.types[k] = t]

LEMMA RegisteringIs ==
    ASSUME NEW s, Good(s), NEW k \in Keys, NEW t \in Types, NEW q, q = Registering(s, k, t)
    PROVE  /\ Shaped(q) /\ q.types[k] = t /\ (\A x \in Keys \ {k} : q.types[x] = s.types[x])
           /\ q.data = s.data /\ q.ttl = s.ttl /\ q.lru = s.lru /\ q.used = s.used /\ q.slips = s.slips
           /\ s.types[k] = t => q = s
<1>1. Shaped(s) /\ s \in State
  BY DEF Good, Shaped
<1>2. /\ q \in State /\ q.types[k] = t /\ (\A x \in Keys \ {k} : q.types[x] = s.types[x])
      /\ q.data = s.data /\ q.ttl = s.ttl /\ q.lru = s.lru /\ q.used = s.used /\ q.slips = s.slips
  BY <1>1 DEF State, Registering
<1>3. ASSUME s.types[k] = t PROVE q = s
  <2>1. [s.types EXCEPT ![k] = t] = s.types
    BY <1>1, <1>3 DEF State
  <2> QED BY <1>1, <2>1 DEF State, Registering
<1>4. Shaped(q)
  BY <1>1, <1>2 DEF Shaped
<1> QED BY <1>2, <1>3, <1>4

\* types.register() of a key without a value of another type, and touch().
LEMMA Registered ==
    ASSUME NEW s, Good(s), NEW k \in Keys, NEW t \in Types, s.types[k] \in {None, t},
           NEW r, r = Touch(Registering(s, k, t), k)
    PROVE  /\ Good(r) /\ Reaches({k}, s, r) /\ NoGrowth(s, r)
           /\ r.types[k] = t /\ r.data = s.data /\ r.slips = s.slips
<1> DEFINE q == Registering(s, k, t)
<1>1. Shaped(s) /\ s \in State
  BY DEF Good, Shaped
<1>2. /\ Shaped(q) /\ q.types[k] = t /\ (\A x \in Keys \ {k} : q.types[x] = s.types[x])
      /\ q.data = s.data /\ q.ttl = s.ttl /\ q.lru = s.lru /\ q.used = s.used /\ q.slips = s.slips
  BY RegisteringIs
<1> HIDE DEF q
<1>4. r = Touch(q, k)
  BY DEF q
<1>a. /\ Shaped(Touch(q, k))
      /\ Touch(q, k).types = q.types /\ Touch(q, k).data = q.data /\ Touch(q, k).ttl = q.ttl
      /\ Touch(q, k).used = q.used /\ Touch(q, k).slips = q.slips
      /\ \A x \in Keys : Contains(Touch(q, k).lru, x) <=> x = k \/ Contains(q.lru, x)
      /\ \A x, y \in Keys \ {k} : Before(Touch(q, k).lru, x, y) <=> Before(q.lru, x, y)
  BY <1>2, Touched
<1>5. /\ Shaped(r)
      /\ r.types = q.types /\ r.data = q.data /\ r.ttl = q.ttl
      /\ r.used = q.used /\ r.slips = q.slips
      /\ \A x \in Keys : Contains(r.lru, x) <=> x = k \/ Contains(q.lru, x)
      /\ \A x, y \in Keys \ {k} : Before(r.lru, x, y) <=> Before(q.lru, x, y)
  BY <1>4, <1>a
<1>6. Listed(r)
  BY <1>2, <1>5 DEF Listed, Good
<1>7. ASSUME "own" \notin r.slips PROVE OwnedIn(r)
  <2>1. OwnedIn(s)
    BY <1>2, <1>5, <1>7 DEF Good
  <2>2. "string" # None /\ \A u \in Collections : u # None
    BY Constants
  <2> QED BY <1>2, <1>5, <2>1, <2>2 DEF OwnedIn
<1>8. Accounted(r)
  <2>1. Held(r) = Held(s)
    BY <1>2, <1>5, HeldSame
  <2> QED BY <1>2, <1>5, <2>1 DEF Accounted, Good
<1>9. Good(r)
  BY <1>5, <1>6, <1>7, <1>8 DEF Good
<1>10. Shrinks(s, r)
  <2>1. Shrinks(s, s)
    BY <1>1, ShrinksItself
  <2> QED BY <1>2, <1>5, <2>1 DEF Shrinks, NoGrowth
<1>11. (\A x \in Keys \ {k} : Same(s, r, x)) /\ OrderKept({k}, s, r)
  BY <1>2, <1>5 DEF Same, OrderKept
<1> QED BY <1>2, <1>5, <1>9, <1>10, <1>11, ReachesDown DEF Shrinks

\* What a charge of n bytes, with room for them in ev, and the write make.
Stored(ev, k, t, v, n, w) ==
    [ev EXCEPT !.data[t][k] = v,
               !.used = @ + n,
               !.slips = (@ \cup IF Contains(ev.lru, k) THEN {} ELSE {"own"}) \cup w]

LEMMA StoredFields ==
    ASSUME NEW s, Shaped(s), NEW k \in Keys, NEW t \in Types, NEW v \in Values(t), NEW n \in Nat,
           NEW w, w = {} \/ w = {"header"}, NEW r, r = Stored(s, k, t, v, n, w)
    PROVE  /\ Shaped(r) /\ r.types = s.types /\ r.ttl = s.ttl /\ r.lru = s.lru
           /\ r.used = s.used + n
           /\ r.slips = (s.slips \cup IF Contains(s.lru, k) THEN {} ELSE {"own"}) \cup w
           /\ r.data[t][k] = v
           /\ \A u \in Types, j \in Keys : u # t \/ j # k => r.data[u][j] = s.data[u][j]
<1> DEFINE z == (s.slips \cup IF Contains(s.lru, k) THEN {} ELSE {"own"}) \cup w
<1>1. s \in State /\ s.used \in Nat /\ s.slips \subseteq Reasons
  BY DEF Shaped, State
<1>2. z \in SUBSET Reasons
  <2>1. {"own"} \subseteq Reasons /\ {"header"} \subseteq Reasons
    BY DEF Reasons
  <2> QED BY <1>1, <2>1
<1>3. s.used + n \in Nat /\ v \in {NoObject} \cup TextCosts \cup SUBSET Fields
  BY <1>1 DEF Values
<1>4. r = [s EXCEPT !.data[t][k] = v, !.used = s.used + n, !.slips = z]
  BY <1>1 DEF Stored, State
<1> HIDE DEF z
<1>5. /\ r \in State /\ r.types = s.types /\ r.ttl = s.ttl /\ r.lru = s.lru
      /\ r.used = s.used + n /\ r.slips = z
      /\ r.data[t][k] = v
      /\ \A u \in Types, j \in Keys : u # t \/ j # k => r.data[u][j] = s.data[u][j]
  <2> DEFINE m == s.used + n
             q == [s EXCEPT !.data[t][k] = v, !.used = m, !.slips = z]
  <2>1. m \in Nat
    BY <1>3
  <2> HIDE DEF m
  <2>2. q.types = s.types /\ q.ttl = s.ttl /\ q.lru = s.lru /\ q.used = m /\ q.slips = z
    BY <1>1 DEF State
  <2>3. /\ q.data = [s.data EXCEPT ![t] = [@ EXCEPT ![k] = v]]
        /\ s.data \in [Types -> [Keys -> {NoObject} \cup TextCosts \cup SUBSET Fields]]
    BY <1>1 DEF State
  <2>4. /\ q.data[t][k] = v
        /\ \A u \in Types, j \in Keys : u # t \/ j # k => q.data[u][j] = s.data[u][j]
        /\ q.data \in [Types -> [Keys -> {NoObject} \cup TextCosts \cup SUBSET Fields]]
    BY <1>3, <2>3
  <2>5. q \in [types : {s.types}, data : {q.data}, ttl : {s.ttl}, lru : {s.lru}, used : {m},
               slips : {z}]
    BY <1>1 DEF State
  <2> HIDE DEF q
  <2>6. q \in State
    BY <1>1, <1>2, <2>1, <2>2, <2>4, <2>5 DEF State
  <2> QED BY <1>4, <2>2, <2>4, <2>6 DEF m, q
<1>6. Shaped(r)
  BY <1>5 DEF Shaped
<1> QED BY <1>5, <1>6 DEF z

\* The value may be longer by what was charged; with a slip of the header, less.
LEMMA StoredReaches ==
    ASSUME NEW s, Good(s), NEW k \in Keys, NEW t \in Types, NEW v \in Values(t), NEW n \in Nat,
           NEW w, w = {} \/ w = {"header"}, cap \in Nat,
           NEW ev, Evicts(s, ev), Fits(ev, n),
           "own" \notin s.slips /\ Contains(ev.lru, k) =>
              /\ s.types[k] = t
              /\ Bytes(t, v) <= Bytes(t, s.data[t][k]) + n
              /\ w = {} => Bytes(t, v) = Bytes(t, s.data[t][k]) + n
    PROVE  /\ Reaches({k}, s, Stored(ev, k, t, v, n, w))
           /\ "own" \notin Stored(ev, k, t, v, n, w).slips =>
                /\ "own" \notin s.slips
                /\ Stored(ev, k, t, v, n, w).types[k] = s.types[k]
                /\ Contains(Stored(ev, k, t, v, n, w).lru, k)
<1> DEFINE r == Stored(ev, k, t, v, n, w)
<1>1. /\ Shaped(s) /\ Good(ev) /\ Shaped(ev) /\ ev.used \in Nat /\ ev.slips = s.slips
  BY DEF Evicts, Reaches, Good, Shaped, State
<1>2. /\ Shaped(r) /\ r.types = ev.types /\ r.ttl = ev.ttl /\ r.lru = ev.lru
      /\ r.used = ev.used + n
      /\ r.slips = (ev.slips \cup IF Contains(ev.lru, k) THEN {} ELSE {"own"}) \cup w
      /\ r.data[t][k] = v
      /\ \A u \in Types, j \in Keys : u # t \/ j # k => r.data[u][j] = ev.data[u][j]
  BY <1>1, StoredFields
<1> HIDE DEF r
<1>3. ASSUME "own" \notin r.slips
      PROVE  /\ "own" \notin s.slips /\ Contains(ev.lru, k) /\ Same(s, ev, k)
             /\ s.types[k] = t /\ ev.data[t][k] = s.data[t][k]
             /\ Bytes(t, v) <= Bytes(t, ev.data[t][k]) + n
             /\ w = {} => Bytes(t, v) = Bytes(t, ev.data[t][k]) + n
  <2>1. "own" \notin s.slips /\ Contains(ev.lru, k)
    BY <1>1, <1>2, <1>3
  <2>2. Same(s, ev, k)
    BY <2>1 DEF Evicts, Reaches, Out
  <2> QED BY <2>1, <2>2 DEF Same
<1>4. Listed(r)
  BY <1>1, <1>2 DEF Good, Listed
<1>5. ASSUME "own" \notin r.slips PROVE OwnedIn(r)
  <2>1. OwnedIn(ev) /\ r.types[k] = t
    BY <1>1, <1>2, <1>3, <1>5 DEF Good, Same
  <2>2. "string" \in Types /\ \A u \in Collections : u \in Types
    BY Constants
  <2> QED BY <1>2, <2>1, <2>2 DEF OwnedIn
<1>6. Accounted(r)
  <2>1. Held(ev) + Bytes(t, v) = Held(r) + Bytes(t, ev.data[t][k])
    BY <1>1, <1>2, HeldChange
  <2>2. /\ Held(ev) \in Nat /\ Held(r) \in Nat
        /\ Bytes(t, v) \in Nat /\ Bytes(t, ev.data[t][k]) \in Nat
    BY <1>1, <1>2, HeldNat, BytesAre DEF Shaped
  <2>3. ASSUME "own" \notin r.slips PROVE r.used >= Held(r)
    <3>1. ev.used >= Held(ev)
      BY <1>1, <1>3, <2>3 DEF Good, Accounted
    <3> QED BY <1>1, <1>2, <1>3, <2>1, <2>2, <2>3, <3>1
  <2>4. ASSUME r.slips = {} PROVE r.used = Held(r)
    <3>1. w = {} /\ ev.slips = {} /\ "own" \notin r.slips
      BY <1>2, <2>4
    <3>2. ev.used = Held(ev)
      BY <1>1, <3>1 DEF Good, Accounted
    <3> QED BY <1>1, <1>2, <1>3, <2>1, <2>2, <3>1, <3>2
  <2> QED BY <2>3, <2>4 DEF Accounted
<1>7. Good(r)
  BY <1>2, <1>4, <1>5, <1>6 DEF Good
<1>8. Bound(s, r)
  BY <1>2 DEF Bound, Fits
<1>9. ASSUME NEW x \in Keys \ {k} PROVE Same(s, r, x) \/ Out(r, x)
  BY <1>2 DEF Evicts, Reaches, Same, Out
<1>10. Reaches({k}, s, r)
  <2>1. NoMore({k}, s, r)
    BY <1>2 DEF Evicts, Reaches, NoMore
  <2> QED BY <1>1, <1>2, <1>7, <1>8, <1>9, <2>1 DEF Evicts, Reaches, OrderKept, MayGo
<1> QED BY <1>2, <1>3, <1>10 DEF r, Same

\* A value gets shorter by the m bytes that are credited, or by none.
LEMMA Shortened ==
    ASSUME NEW s, Good(s), NEW k \in Keys, NEW t \in Types, NEW v \in Values(t), NEW m \in Nat,
           Bytes(t, v) + m = Bytes(t, s.data[t][k]),
           "own" \notin s.slips => s.types[k] = t,
           NEW r, r = Put(Credited(s, m), t, k, v)
    PROVE  Reaches({k}, s, r) /\ r.lru = s.lru /\ r.types = s.types
<1>1. Shaped(s) /\ s \in State /\ s.used \in Nat /\ v \in {NoObject} \cup TextCosts \cup SUBSET Fields
  BY DEF Good, Shaped, State, Values
<1>2. Credit(s.used, m) \in Nat /\ Credit(s.used, m) <= s.used
      /\ (m <= s.used => Credit(s.used, m) = s.used - m)
  BY <1>1, CreditIs
<1>3. /\ r \in State /\ r.types = s.types /\ r.ttl = s.ttl /\ r.lru = s.lru
      /\ r.used = Credit(s.used, m) /\ r.slips = s.slips
      /\ r.data[t][k] = v
      /\ \A u \in Types, j \in Keys : u # t \/ j # k => r.data[u][j] = s.data[u][j]
  BY <1>1, <1>2 DEF State, Put, Credited
<1>4. Shaped(r)
  BY <1>1, <1>3 DEF Shaped
<1>5. Listed(r)
  BY <1>3 DEF Good, Listed
<1>6. ASSUME "own" \notin r.slips PROVE OwnedIn(r)
  <2>1. OwnedIn(s) /\ r.types[k] = t
    BY <1>3, <1>6 DEF Good
  <2>2. "string" \in Types /\ \A u \in Collections : u \in Types
    BY Constants
  <2> QED BY <1>3, <2>1, <2>2 DEF OwnedIn
<1>7. Held(s) + Bytes(t, v) = Held(r) + Bytes(t, s.data[t][k])
  <2>1. Held(s) + Bytes(t, r.data[t][k]) = Held(r) + Bytes(t, s.data[t][k])
    BY ONLY <1>1, <1>3, <1>4, t \in Types, k \in Keys, HeldChange
  <2> QED BY <1>3, <2>1
<1>8. /\ Held(s) \in Nat /\ Held(r) \in Nat
      /\ Bytes(t, v) \in Nat /\ Bytes(t, s.data[t][k]) \in Nat
      /\ Bytes(t, s.data[t][k]) <= Held(s)
  BY <1>1, <1>4, HeldNat, HeldCell, BytesAre
<1>9. Accounted(r)
  <2>1. m <= Held(s) /\ Held(r) = Held(s) - m
    BY <1>7, <1>8
  <2>2. ASSUME s.slips = {} PROVE r.used = Held(r)
    <3>1. s.used = Held(s)
      BY <2>2 DEF Good, Accounted
    <3> QED BY <1>1, <1>2, <1>3, <1>8, <2>1, <3>1
  <2>3. ASSUME "own" \notin s.slips PROVE r.used >= Held(r)
    <3>1. s.used >= Held(s)
      BY <2>3 DEF Good, Accounted
    <3> QED BY <1>1, <1>2, <1>3, <1>8, <2>1, <3>1
  <2> QED BY <1>3, <2>2, <2>3 DEF Accounted
<1>10. Shrinks(s, r)
  <2>1. \A u \in Types, j \in Keys : Bytes(u, s.data[u][j]) \in Nat
    BY <1>1, BytesAre DEF Shaped
  <2>2. Bytes(t, v) <= Bytes(t, s.data[t][k])
    BY <1>8
  <2> QED BY <1>2, <1>3, <2>1, <2>2 DEF Shrinks, NoGrowth
<1>11. (\A x \in Keys \ {k} : Same(s, r, x)) /\ OrderKept({k}, s, r)
  BY <1>3 DEF Same, OrderKept
<1>12. Good(r)
  BY <1>3, <1>4, <1>5, <1>6, <1>9 DEF Good
<1> QED BY <1>3, <1>10, <1>11, <1>12, ReachesDown

\* The place of k in the LRU list after the method that wrote it.
Behind(s, k, r) ==
    /\ ~Contains(r.lru, k) => /\ MayGo(s, k)
                              /\ \A x \in Keys \ {k} : Contains(r.lru, x) => ~MayGo(s, x)
    /\ \A x \in Keys \ {k} : Contains(r.lru, x) /\ Contains(r.lru, k) => Before(r.lru, x, k)
    /\ r.types[k] = s.types[k] \/ ~Contains(r.lru, k)

\* A key that has been touched is evicted last.
LEMMA EvictedLast ==
    ASSUME NEW s, Shaped(s), NEW k \in Keys, NEW r, Evicts(Touch(s, k), r)
    PROVE  Behind(s, k, r)
<1> DEFINE p == Touch(s, k)
<1>1. /\ p.types = s.types /\ p.ttl = s.ttl
      /\ \A x \in Keys : Contains(p.lru, x) <=> x = k \/ Contains(s.lru, x)
      /\ \A x \in Keys \ {k} : Contains(s.lru, x) => Before(p.lru, x, k)
  BY Touched
<1>2. Reaches({}, p, r)
  BY DEF Evicts
<1> HIDE DEF p
<1>3. \A x \in Keys : Contains(r.lru, x) => Contains(p.lru, x)
  BY <1>2 DEF Reaches, Same, Out
<1>4. \A x \in Keys \ {k} : Contains(r.lru, x) => Before(p.lru, x, k)
  BY <1>1, <1>3
<1>5. r.types[k] = s.types[k] \/ ~Contains(r.lru, k)
  BY <1>1, <1>2 DEF Reaches, Same, Out
<1>6. \A x \in Keys \ {k} : Contains(r.lru, x) /\ Contains(r.lru, k) => Before(r.lru, x, k)
  BY <1>2, <1>4 DEF Reaches, OrderKept
<1>7. ASSUME ~Contains(r.lru, k)
      PROVE  MayGo(s, k) /\ \A x \in Keys \ {k} : Contains(r.lru, x) => ~MayGo(s, x)
  <2>1. \A x \in Keys : MayGo(p, x) <=> MayGo(s, x)
    BY <1>1 DEF MayGo
  <2>2. Contains(p.lru, k)
    BY <1>1
  <2> QED BY <1>2, <1>4, <1>7, <2>1, <2>2 DEF Reaches
<1> QED BY <1>5, <1>6, <1>7 DEF Behind

LEMMA EvictsItself ==
    ASSUME NEW s, Good(s)
    PROVE  Evicts(s, s)
BY ReachesItself, ShrinksItself DEF Evicts, Good

\* What a charge and the write after it make together.
LEMMA WrittenIs ==
    ASSUME NEW s, Good(s), NEW k \in Keys, NEW t \in Types, NEW v, NEW n \in Nat, NEW w
    PROVE  /\ Put(Slipped(Counted(s, k, n), w), t, k, v) = Stored(s, k, t, v, n, w)
           /\ Put(Counted(s, k, n), t, k, v) = Stored(s, k, t, v, n, {})
           /\ Counted(s, k, n).data = s.data
           /\ s.data[t][k] = v => Counted(s, k, n) = Stored(s, k, t, v, n, {})
<1>1. s \in State
  BY DEF Good, Shaped
<1>2. Counted(s, k, n).data = s.data
  BY <1>1 DEF State, Counted
<1>3. Put(Slipped(Counted(s, k, n), w), t, k, v) = Stored(s, k, t, v, n, w)
  BY <1>1 DEF State, Stored, Put, Slipped, Counted
<1>4. Put(Counted(s, k, n), t, k, v) = Stored(s, k, t, v, n, {})
  BY <1>1 DEF State, Stored, Put, Counted
<1>5. ASSUME s.data[t][k] = v PROVE Counted(s, k, n) = Stored(s, k, t, v, n, {})
  <2>1. [s.data EXCEPT ![t][k] = v] = s.data
    BY <1>1, <1>5 DEF State
  <2> QED BY <1>1, <2>1 DEF State, Stored, Counted
<1> QED BY <1>2, <1>3, <1>4, <1>5

-----------------------------------------------------------------------------
LEMMA TouchedIs ==
    ASSUME NEW s, Good(s), NEW k \in Keys, NEW p, p = Touch(s, k)
    PROVE  /\ Good(p) /\ Reaches({k}, s, p)
           /\ p.types = s.types /\ p.data = s.data /\ p.ttl = s.ttl /\ p.slips = s.slips
           /\ Contains(p.lru, k) /\ NoGrowth(s, p)
<1>1. Shaped(s)
  BY DEF Good
<1> QED BY <1>1, Touched, TouchedReaches DEF Reaches, Shrinks

\* What is left when the charge throws.
LEMMA ThrownReaches ==
    ASSUME NEW s, Good(s), NEW k, NEW r, Evicts(s, r)
    PROVE  Reaches({k}, s, r) /\ NoGrowth(s, r)
<1>1. {} \subseteq {k} /\ Reaches({}, s, r)
  BY DEF Evicts
<1> QED BY <1>1, ReachesMore DEF Evicts, Shrinks

\* What writing a string makes of s; q is s with the key registered.
Wrote(s, q, k, w) ==
    /\ Reaches({k}, s, w.at)
    /\ Behind(q, k, w.at)
    /\ ~w.ok => NoGrowth(s, w.at)

LEMMA StringSetDoes ==
    ASSUME NEW s, Good(s), NEW k \in Keys, s.types[k] \in {None, "string"}, NEW c \in TextCosts,
           cap \in Nat, policy \in Policies,
           NEW q, q = Registering(s, k, "string"), NEW w, w = StringSet(q, k, c)
    PROVE  Wrote(s, q, k, w)
<1> DEFINE t == "string"
           p == Touch(q, k)
           old == Bytes(t, p.data[t][k])
           n == c - old
           ch == Charge(p, k, n)
<1>1. t \in Types /\ c \in Values(t)
  BY Constants DEF Values
<1>2. /\ Good(p) /\ Reaches({k}, s, p) /\ NoGrowth(s, p)
      /\ p.types[k] = t /\ p.data = s.data /\ p.slips = s.slips
  BY <1>1, Registered
<1>2a. Shaped(q)
  BY <1>1, RegisteringIs
<1>3. old \in Nat /\ c \in Nat /\ Bytes(t, c) = c
  <2>1. p.data[t][k] \in Values(t)
    BY <1>1, <1>2 DEF Good, Shaped
  <2> QED BY <1>1, <2>1, BytesAre
<1>4. w = IF ch.ok THEN Done(Put(ch.at, t, k, c)) ELSE ch
  BY DEF StringSet, Put
<1>5. Evicts(p, p) /\ Behind(q, k, p)
  BY <1>2, <1>2a, EvictsItself, EvictedLast
<1>6. \A r : Evicts(p, r) => Behind(q, k, r)
  BY <1>2a, EvictedLast
<1> HIDE DEF t, p, old
<1>7. CASE n <= 0
  <2> DEFINE m == old - c
             r == Put(Credited(p, m), t, k, c)
  <2>1. m \in Nat /\ m = -n /\ Bytes(t, c) + m = Bytes(t, p.data[t][k])
    BY <1>3, <1>7 DEF old
  <2>2. ch = Done(Credited(p, m))
    <3>1. n \in Int
      BY <1>3
    <3> HIDE DEF n
    <3> QED BY <1>2, <1>7, <2>1, <3>1, Charged
  <2> HIDE DEF m, n, ch
  <2>3. w = Done(r)
    BY <1>4, <2>2 DEF Done
  <2>4. Reaches({k}, p, r) /\ r.lru = p.lru /\ r.types = p.types
    <3>1. p.types[k] = t
      BY <1>2 DEF t
    <3> QED BY <1>1, <1>2, <2>1, <3>1, Shortened
  <2> HIDE DEF r
  <2>5. Reaches({k}, s, r)
    BY <1>2, <2>4, ReachesAgain
  <2>6. Behind(q, k, r)
    BY <1>5, <2>4 DEF Behind
  <2> QED BY <2>3, <2>5, <2>6 DEF Done, Wrote
<1>8. CASE n > 0
  <2>1. PICK ev : /\ Evicts(p, ev)
                  /\ ch = Thrown(ev) \/ (Fits(ev, n) /\ ch = Done(Counted(ev, k, n)))
    <3>1. n \in Int
      BY <1>3
    <3> HIDE DEF n
    <3> QED BY <1>2, <1>8, <3>1, Charged
  <2>2. Behind(q, k, ev) /\ Good(ev)
    BY <1>6, <2>1 DEF Evicts, Reaches
  <2> HIDE DEF ch
  <2>3. CASE ch = Thrown(ev)
    <3>1. w = Thrown(ev)
      BY <1>4, <2>3 DEF Thrown
    <3>2. Reaches({k}, p, ev) /\ NoGrowth(p, ev)
      BY <1>2, <2>1, ThrownReaches
    <3>3. Reaches({k}, s, ev)
      BY <1>2, <3>2, ReachesAgain
    <3>4. NoGrowth(s, ev)
      BY <1>2, <3>2 DEF NoGrowth
    <3> QED BY <2>2, <3>1, <3>3, <3>4 DEF Thrown, Wrote
  <2>4. CASE ch # Thrown(ev)
    <3> DEFINE r == Stored(ev, k, t, c, n, {})
    <3>1. Fits(ev, n) /\ ch = Done(Counted(ev, k, n))
      BY <2>1, <2>4
    <3>2. n \in Nat /\ Bytes(t, c) = Bytes(t, p.data[t][k]) + n
      BY <1>3, <1>8 DEF old
    <3> HIDE DEF n
    <3>3. Put(Counted(ev, k, n), t, k, c) = r
      BY <1>1, <2>2, <3>2, WrittenIs
    <3>4. w = Done(r)
      BY <1>4, <3>1, <3>3 DEF Done
    <3>5. Bytes(t, c) <= Bytes(t, p.data[t][k]) + n
      BY <1>3, <3>2
    <3>6. Reaches({k}, p, r)
      BY <1>1, <1>2, <2>1, <3>1, <3>2, <3>5, StoredReaches DEF t
    <3>7. r.lru = ev.lru /\ r.types = ev.types
      BY <1>1, <2>2, <3>2, StoredFields DEF Good
    <3> HIDE DEF r
    <3>8. Reaches({k}, s, r)
      BY <1>2, <3>6, ReachesAgain
    <3>9. Behind(q, k, r)
      BY <2>2, <3>7 DEF Behind
    <3> QED BY <3>4, <3>8, <3>9 DEF Done, Wrote
  <2> QED BY <2>3, <2>4
<1> QED BY <1>3, <1>7, <1>8

LEMMA StringAppendDoes ==
    ASSUME NEW s, Good(s), NEW k \in Keys, s.types[k] = "string", NEW a \in Nat,
           (IF Bytes("string", s.data["string"][k]) = 0 THEN Header
            ELSE Bytes("string", s.data["string"][k])) + a <= MaxText,
           cap \in Nat, policy \in Policies
    PROVE  Reaches({k}, s, StringAppend(s, k, a).at)
<1> DEFINE t == "string"
           p == Touch(s, k)
           old == Bytes(t, p.data[t][k])
           new == IF old = 0 THEN Header + a ELSE old + a
           n == new - IF old > Header THEN old ELSE 0
           ch == Charge(p, k, n)
           slip == IF old = Header THEN {"header"} ELSE {}
           w == StringAppend(s, k, a)
<1>1. t \in Types
  BY Constants
<1>2. /\ Good(p) /\ Reaches({k}, s, p)
      /\ p.types = s.types /\ p.data = s.data /\ p.ttl = s.ttl /\ p.slips = s.slips
  BY TouchedIs
<1>3. old \in Nat /\ (old = 0 \/ old >= Header)
  <2>1. p.data[t][k] \in Values(t)
    BY <1>1, <1>2 DEF Good, Shaped
  <2>2. p.data[t][k] = NoObject \/ p.data[t][k] \in TextCosts
    BY <2>1 DEF Values
  <2> QED BY <1>1, <2>1, <2>2, BytesAre
<1>4. Header \in Nat /\ Header > 0 /\ MaxText \in Nat
  BY Constants
<1>5. new \in Nat /\ new >= Header /\ new <= MaxText /\ n \in Int
  <2>1. old = Bytes("string", s.data["string"][k])
    BY <1>2
  <2> HIDE DEF old
  <2> QED BY <1>3, <1>4, <2>1
<1>6. new \in TextCosts /\ new \in Values(t) /\ Bytes(t, new) = new
  <2>1. new \in TextCosts
    BY <1>4, <1>5 DEF TextCosts
  <2> HIDE DEF new
  <2> QED BY <1>1, <2>1, BytesAre DEF Values
<1>7. slip = {} \/ slip = {"header"}
  OBVIOUS
<1>8. /\ n <= 0 => n = 0 /\ new = old /\ slip = {}
      /\ new <= old + n
      /\ slip = {} => new = old + n
  <2> HIDE DEF old
  <2> QED BY <1>3, <1>4
<1>9. w = IF ch.ok THEN Done([ch.at EXCEPT !.data[t][k] = new, !.slips = @ \cup slip]) ELSE ch
  BY DEF StringAppend
<1>10. p.types[k] = t
  BY <1>2
<1>11. Bytes(t, p.data[t][k]) = old
  OBVIOUS
<1> HIDE DEF t, p, old, new, slip, w
<1>12. CASE n <= 0
  <2> DEFINE r == Put(Credited(p, 0), t, k, new)
  <2>1. n = 0 /\ 0 \in Nat /\ Bytes(t, new) + 0 = Bytes(t, p.data[t][k])
    BY <1>5, <1>6, <1>8, <1>11, <1>12
  <2>2. ch = Done(Credited(p, 0))
    <3>1. -n = 0
      BY <2>1
    <3> HIDE DEF n
    <3> QED BY <1>2, <1>5, <1>12, <3>1, Charged
  <2> HIDE DEF ch, n
  <2>3. [Credited(p, 0) EXCEPT !.data[t][k] = new, !.slips = @ \cup {}] = r
    BY <1>2 DEF Credited, Put, Good, Shaped, State
  <2>4. w = Done(r)
    BY <1>8, <1>9, <1>12, <2>2, <2>3 DEF Done
  <2>5. Reaches({k}, p, r)
    BY <1>1, <1>2, <1>6, <1>10, <2>1, Shortened
  <2> HIDE DEF r
  <2> QED BY <1>2, <2>4, <2>5, ReachesAgain DEF Done, w
<1>13. CASE n > 0
  <2>1. PICK ev : /\ Evicts(p, ev)
                  /\ ch = Thrown(ev) \/ (Fits(ev, n) /\ ch = Done(Counted(ev, k, n)))
    <3> HIDE DEF n
    <3> QED BY <1>2, <1>5, <1>13, Charged
  <2>2. Good(ev)
    BY <2>1 DEF Evicts, Reaches
  <2>3. n \in Nat
    BY <1>5, <1>13
  <2> HIDE DEF ch, n
  <2>4. CASE ch = Thrown(ev)
    <3>1. w = Thrown(ev)
      BY <1>9, <2>4 DEF Thrown
    <3>2. Reaches({k}, p, ev)
      BY <1>2, <2>1, ThrownReaches
    <3> QED BY <1>2, <3>1, <3>2, ReachesAgain DEF Thrown, w
  <2>5. CASE ch # Thrown(ev)
    <3> DEFINE r == Stored(ev, k, t, new, n, slip)
    <3>1. Fits(ev, n) /\ ch = Done(Counted(ev, k, n))
      BY <2>1, <2>5
    <3>2. [Counted(ev, k, n) EXCEPT !.data[t][k] = new, !.slips = @ \cup slip] = r
      BY <2>2 DEF Counted, Stored, Good, Shaped, State
    <3>3. w = Done(r)
      BY <1>9, <3>1, <3>2 DEF Done
    <3>4. Reaches({k}, p, r)
      BY <1>1, <1>2, <1>6, <1>7, <1>8, <1>10, <1>11, <2>1, <2>3, <3>1, StoredReaches
    <3> HIDE DEF r
    <3> QED BY <1>2, <3>3, <3>4, ReachesAgain DEF Done, w
  <2> QED BY <2>4, <2>5
<1> QED BY <1>5, <1>12, <1>13 DEF w

\* What adding to a key of type t makes of s.
Adds(s, k, t, w) ==
    /\ Reaches({k}, s, w.at)
    /\ w.ok /\ "own" \notin w.at.slips => w.at.types[k] = t

\* The entry goes into the object that was there when the method began.
LEMMA MapAddDoes ==
    ASSUME NEW s, Good(s), NEW k \in Keys, NEW t \in Collections, NEW e \in Fields,
           "own" \notin s.slips => s.types[k] = t,
           cap \in Nat, policy \in Policies,
           NEW w, w = MapAdd(s, t, k, e)
    PROVE  Adds(s, k, t, w)
<1> DEFINE p == Touch(s, k)
           object == IF p.data[t][k] = NoObject THEN {} ELSE p.data[t][k]
           made == [p EXCEPT !.data[t][k] = object]
           ch == Charge(made, k, EntryCost)
<1>1. t \in Types /\ t # "string" /\ EntryCost \in Nat /\ EntryCost > 0
  BY Constants
<1>2. /\ Good(p) /\ Reaches({k}, s, p)
      /\ p.types = s.types /\ p.data = s.data /\ p.ttl = s.ttl /\ p.slips = s.slips
  BY TouchedIs
<1>3. /\ object \in SUBSET Fields /\ object \in Values(t) /\ object # NoObject
      /\ Bytes(t, object) = Bytes(t, p.data[t][k]) /\ Bytes(t, object) \in Nat
  <2>1. p.data[t][k] \in {NoObject} \cup SUBSET Fields
    BY <1>1, <1>2 DEF Good, Shaped, Values
  <2>2. object \in SUBSET Fields
    BY <2>1
  <2>3. object \in Values(t)
    BY <1>1, <2>2 DEF Values
  <2>4. Bytes(t, {}) = 0 /\ Bytes(t, NoObject) = 0
    BY <1>1, BytesAre
  <2>5. Bytes(t, object) = Bytes(t, p.data[t][k])
    BY <2>4
  <2> HIDE DEF object
  <2> QED BY <1>1, <2>2, <2>3, <2>5, BytesAre, Constants
<1>4. w = IF e \in object THEN Done(made)
          ELSE IF ch.ok /\ ch.at.data[t][k] # NoObject
          THEN Done(Put(ch.at, t, k, object \cup {e}))
          ELSE ch
  BY DEF MapAdd, Put
<1> HIDE DEF p, object
<1>5. made = Put(Credited(p, 0), t, k, object)
  <2>1. p \in State /\ Credit(p.used, 0) = p.used
    BY <1>2 DEF Good, Shaped, State, Credit
  <2>2. Credited(p, 0) = p
    BY <2>1 DEF Credited, State
  <2> QED BY <2>2 DEF Put
<1>6. Reaches({k}, p, made) /\ made.types = s.types
  <2>1. 0 \in Nat /\ Bytes(t, object) + 0 = Bytes(t, p.data[t][k])
    BY <1>3
  <2>2. "own" \notin p.slips => p.types[k] = t
    BY <1>2
  <2>3. Reaches({k}, p, made) /\ made.types = p.types
    BY <1>1, <1>2, <1>3, <1>5, <2>1, <2>2, Shortened
  <2> QED BY <1>2, <2>3
<1>7. made.data[t][k] = object /\ made.slips = s.slips
  BY <1>1, <1>2 DEF Good, Shaped, State
<1> HIDE DEF made
<1>8. Reaches({k}, s, made) /\ Good(made)
  BY <1>2, <1>6, ReachesAgain DEF Reaches
<1>9. CASE e \in object
  BY <1>4, <1>6, <1>7, <1>8, <1>9 DEF Done, Adds
<1>10. CASE e \notin object
  <2> DEFINE n == EntryCost
  <2>1. PICK ev : /\ Evicts(made, ev)
                  /\ ch = Thrown(ev) \/ (Fits(ev, n) /\ ch = Done(Counted(ev, k, n)))
    BY <1>1, <1>8, Charged
  <2>2. Good(ev)
    BY <2>1 DEF Evicts, Reaches
  <2> HIDE DEF ch
  <2>3. CASE ch = Thrown(ev)
    <3>1. w = Thrown(ev)
      BY <1>4, <1>10, <2>3 DEF Thrown
    <3>2. Reaches({k}, made, ev)
      BY <1>8, <2>1, ThrownReaches
    <3> QED BY <1>8, <3>1, <3>2, ReachesAgain DEF Thrown, Adds
  <2>4. CASE ch # Thrown(ev)
    <3> DEFINE v == IF ev.data[t][k] = NoObject THEN NoObject ELSE object \cup {e}
               r == Stored(ev, k, t, v, n, {})
    <3>1. Fits(ev, n) /\ ch = Done(Counted(ev, k, n)) /\ Counted(ev, k, n).data = ev.data
      BY <1>1, <2>1, <2>2, <2>4, WrittenIs
    <3>2. v \in Values(t)
      BY <1>1, <1>3 DEF Values
    <3>3. w = Done(r)
      <4>1. CASE ev.data[t][k] = NoObject
        <5>1. w = ch
          BY <1>4, <1>10, <3>1, <4>1 DEF Done
        <5>2. Counted(ev, k, n) = r
          BY <1>1, <2>2, <4>1, WrittenIs
        <5> QED BY <3>1, <5>1, <5>2
      <4>2. CASE ev.data[t][k] # NoObject
        <5>1. w = Done(Put(Counted(ev, k, n), t, k, v))
          BY <1>4, <1>10, <3>1, <4>2 DEF Done
        <5> HIDE DEF v
        <5>2. Put(Counted(ev, k, n), t, k, v) = r
          BY <1>1, <2>2, WrittenIs
        <5> QED BY <5>1, <5>2
      <4> QED BY <4>1, <4>2
    <3>4. ASSUME "own" \notin made.slips, Contains(ev.lru, k)
          PROVE  made.types[k] = t /\ Bytes(t, v) = Bytes(t, made.data[t][k]) + n
      <4>1. Same(made, ev, k)
        BY <2>1, <3>4 DEF Evicts, Reaches, Out
      <4>2. v = object \cup {e}
        BY <1>1, <1>3, <1>7, <4>1 DEF Same
      <4>3. Bytes(t, object \cup {e}) = Bytes(t, object) + n
        BY <1>1, <1>3, <1>10, BytesAre
      <4> QED BY <1>6, <1>7, <3>4, <4>2, <4>3
    <3>5. Bytes(t, made.data[t][k]) + n \in Nat
      BY <1>1, <1>3, <1>7
    <3> HIDE DEF v
    <3>6. /\ Reaches({k}, made, r)
          /\ "own" \notin r.slips => "own" \notin made.slips /\ r.types[k] = made.types[k]
      BY <1>1, <1>8, <2>1, <3>1, <3>2, <3>4, <3>5, StoredReaches
    <3> HIDE DEF r
    <3>7. Reaches({k}, s, r)
      BY <1>8, <3>6, ReachesAgain
    <3> QED BY <1>6, <1>7, <3>3, <3>6, <3>7 DEF Done, Adds
  <2> QED BY <2>3, <2>4
<1> QED BY <1>9, <1>10

Old(object) == IF object = NoObject THEN {} ELSE object

Extends(s, k, e, w) ==
    w.ok /\ "own" \notin w.at.slips => w.at.data["list"][k] = Old(s.data["list"][k]) \cup {e}

\* The list is looked up after the charge: it may be a new one.
LEMMA ListAddDoes ==
    ASSUME NEW s, Good(s), NEW k \in Keys, "list" \in Collections, NEW e \in Fields,
           "own" \notin s.slips => s.types[k] = "list" /\ e \notin Old(s.data["list"][k]),
           cap \in Nat, policy \in Policies,
           NEW w, w = ListAdd(s, k, e)
    PROVE  Adds(s, k, "list", w) /\ Extends(s, k, e, w)
<1> DEFINE t == "list"
           p == Touch(s, k)
           n == EntryCost
           ch == Charge(p, k, n)
<1>1. t \in Types /\ t # "string" /\ n \in Nat /\ n > 0
  BY Constants
<1>2. /\ Good(p) /\ Reaches({k}, s, p)
      /\ p.types = s.types /\ p.data = s.data /\ p.ttl = s.ttl /\ p.slips = s.slips
  BY TouchedIs
<1>3. w = IF ch.ok THEN Done(Put(ch.at, t, k, Old(ch.at.data[t][k]) \cup {e})) ELSE ch
  BY DEF ListAdd, Put, Old
<1> HIDE DEF t, p
<1>4. PICK ev : /\ Evicts(p, ev)
                /\ ch = Thrown(ev) \/ (Fits(ev, n) /\ ch = Done(Counted(ev, k, n)))
  BY <1>1, <1>2, Charged
<1>5. Good(ev)
  BY <1>4 DEF Evicts, Reaches
<1> HIDE DEF ch, n
<1>6. CASE ch = Thrown(ev)
  <2>1. w = Thrown(ev)
    BY <1>3, <1>6 DEF Thrown
  <2>2. Reaches({k}, p, ev)
    BY <1>2, <1>4, ThrownReaches
  <2> QED BY <1>2, <2>1, <2>2, ReachesAgain DEF Thrown, Adds, Extends
<1>7. CASE ch # Thrown(ev)
  <2> DEFINE v == Old(ev.data[t][k]) \cup {e}
             r == Stored(ev, k, t, v, n, {})
  <2>1. Fits(ev, n) /\ ch = Done(Counted(ev, k, n)) /\ Counted(ev, k, n).data = ev.data
    BY <1>1, <1>4, <1>5, <1>7, WrittenIs
  <2>2. ev.data[t][k] \in {NoObject} \cup SUBSET Fields
    BY <1>1, <1>5 DEF Good, Shaped, Values
  <2>3. v \in Values(t)
    BY <1>1, <2>2 DEF Values, Old
  <2>4. w = Done(r)
    <3>1. w = Done(Put(Counted(ev, k, n), t, k, v))
      BY <1>3, <2>1 DEF Done
    <3> HIDE DEF v
    <3>2. Put(Counted(ev, k, n), t, k, v) = r
      BY <1>1, <1>5, WrittenIs
    <3> QED BY <3>1, <3>2
  <2>5. ASSUME "own" \notin p.slips, Contains(ev.lru, k)
        PROVE  /\ p.types[k] = t /\ v = Old(p.data[t][k]) \cup {e}
               /\ Bytes(t, v) = Bytes(t, p.data[t][k]) + n
    <3>1. Same(p, ev, k)
      BY <1>4, <2>5 DEF Evicts, Reaches, Out
    <3>2. ev.data[t][k] = p.data[t][k]
      BY <1>1, <3>1 DEF Same
    <3>3. s.types[k] = t /\ e \notin Old(ev.data[t][k])
      BY <1>2, <2>5, <3>2 DEF t
    <3>4. Bytes(t, {}) = 0 /\ Bytes(t, NoObject) = 0
      BY <1>1, BytesAre
    <3>5. Old(ev.data[t][k]) \in SUBSET Fields /\ Bytes(t, Old(ev.data[t][k])) = Bytes(t, ev.data[t][k])
      BY <2>2, <3>4 DEF Old
    <3>6. Bytes(t, v) = Bytes(t, Old(ev.data[t][k])) + n
      BY <1>1, <3>3, <3>5, BytesAre DEF n
    <3> QED BY <1>2, <3>2, <3>3, <3>5, <3>6
  <2>6. Bytes(t, p.data[t][k]) + n \in Nat
    <3>1. p.data[t][k] \in Values(t)
      BY <1>1, <1>2 DEF Good, Shaped
    <3> QED BY <1>1, <3>1, BytesAre
  <2> HIDE DEF v
  <2>a. ASSUME "own" \notin p.slips, Contains(ev.lru, k)
        PROVE  p.types[k] = t /\ Bytes(t, v) = Bytes(t, p.data[t][k]) + n
    BY <2>5, <2>a
  <2>7. /\ Reaches({k}, p, r)
        /\ "own" \notin r.slips => "own" \notin p.slips /\ r.types[k] = p.types[k]
    BY <1>1, <1>2, <1>4, <2>1, <2>3, <2>6, <2>a, StoredReaches
  <2>8. r.data[t][k] = v /\ ("own" \notin r.slips => Contains(ev.lru, k))
    BY <1>1, <1>5, <2>3, StoredFields DEF Good
  <2> HIDE DEF r
  <2>9. Reaches({k}, s, r)
    BY <1>2, <2>7, ReachesAgain
  <2> QED BY <1>2, <2>4, <2>5, <2>7, <2>8, <2>9 DEF Done, t, Adds, Extends
<1> QED BY <1>6, <1>7

-----------------------------------------------------------------------------
\* The state after the first i entries of seq, for every i.
AddingOf(f, s, t, k, seq, m) ==
    f = [i \in 0..m |-> IF i = 0 THEN Done(s)
                        ELSE IF ~f[i - 1].ok THEN f[i - 1]
                        ELSE IF t = "list" THEN ListAdd(f[i - 1].at, k, seq[i])
                        ELSE MapAdd(f[i - 1].at, t, k, seq[i])]

LEMMA AddingExists ==
    ASSUME NEW s, NEW t, NEW k, NEW seq, NEW m \in Nat
    PROVE  \E f : AddingOf(f, s, t, k, seq, m)
<1> DEFINE Next1(r, e) == IF ~r.ok THEN r
                          ELSE IF t = "list" THEN ListAdd(r.at, k, e)
                          ELSE MapAdd(r.at, t, k, e)
           T == {j \in 0..m : \E f : AddingOf(f, s, t, k, seq, j)}
<1>1. \A f, j : AddingOf(f, s, t, k, seq, j) <=>
                  f = [i \in 0..j |-> IF i = 0 THEN Done(s) ELSE Next1(f[i - 1], seq[i])]
  BY DEF AddingOf
<1> HIDE DEF Next1
<1>2. 0 \in T
  <2> DEFINE g == [i \in 0..0 |-> Done(s)]
  <2>1. g = [i \in 0..0 |-> IF i = 0 THEN Done(s) ELSE Next1(g[i - 1], seq[i])]
    OBVIOUS
  <2> HIDE DEF g
  <2>2. AddingOf(g, s, t, k, seq, 0) /\ 0 \in 0..m
    BY <2>1 DEF AddingOf, Next1
  <2> QED BY <2>2
<1>3. ASSUME NEW j \in 0..m, j # 0, (j - 1) \in T PROVE j \in T
  <2>0. j \in Nat /\ (j - 1) \in 0..m
    BY <1>3
  <2>1. PICK f : f = [i \in 0..(j - 1) |-> IF i = 0 THEN Done(s) ELSE Next1(f[i - 1], seq[i])]
    BY <1>1, <1>3
  <2> DEFINE g == [i \in 0..j |-> IF i = j THEN Next1(f[j - 1], seq[j]) ELSE f[i]]
  <2>2. \A i \in 0..j : i # j => i \in 0..(j - 1) /\ g[i] = f[i]
    BY <2>0
  <2>3. \A i \in 0..j : i # 0 => i - 1 \in 0..j /\ i - 1 # j
    BY <2>0
  <2>4. g[j] = Next1(f[j - 1], seq[j]) /\ (\A i \in 0..(j - 1) :
            f[i] = IF i = 0 THEN Done(s) ELSE Next1(f[i - 1], seq[i]))
    BY <2>0, <2>1
  <2>5. \A i \in 0..j : i # 0 => g[i - 1] = f[i - 1]
    BY <2>2, <2>3
  <2>6. \A i \in 0..j : g[i] = IF i = 0 THEN Done(s) ELSE Next1(g[i - 1], seq[i])
    BY <1>3, <2>2, <2>4, <2>5
  <2>7. g = [i \in 0..j |-> IF i = 0 THEN Done(s) ELSE Next1(g[i - 1], seq[i])]
    <3>1. DOMAIN g = 0..j /\ g = [i \in 0..j |-> g[i]]
      OBVIOUS
    <3> HIDE DEF g
    <3> QED BY <2>6, <3>1
  <2> QED BY <1>1, <2>7
<1>4. m \in T
  <2> HIDE DEF T
  <2> QED BY <1>2, <1>3, UpTo
<1> QED BY <1>4

LEMMA AddAllIs ==
    ASSUME NEW s, NEW t, NEW k, NEW seq, Len(seq) \in Nat
    PROVE  \E f : AddAll(s, t, k, seq) = f[Len(seq)] /\ AddingOf(f, s, t, k, seq, Len(seq))
<1> DEFINE m == Len(seq)
           f == CHOOSE f : AddingOf(f, s, t, k, seq, m)
<1>1. AddingOf(f, s, t, k, seq, m)
  BY AddingExists
<1>2. AddAll(s, t, k, seq) = f[m]
  BY DEF AddAll, AddingOf
<1> HIDE DEF f
<1> QED BY <1>1, <1>2

LEMMA AddAllReaches ==
    ASSUME NEW s, Good(s), NEW k \in Keys, NEW t \in Collections, NEW seq \in Seq(Fields),
           "own" \notin s.slips => s.types[k] = t,
           t = "list" => IsInjective(seq) /\ ToSet(seq) \cap Old(s.data[t][k]) = {},
           cap \in Nat, policy \in Policies
    PROVE  Reaches({k}, s, AddAll(s, t, k, seq).at)
<1> DEFINE m == Len(seq)
<1>1. m \in Nat /\ DOMAIN seq = 1..m /\ \A i \in 1..m : seq[i] \in Fields /\ seq[i] \in ToSet(seq)
  BY LenProperties DEF ToSet
<1>2. PICK f : AddAll(s, t, k, seq) = f[m] /\ AddingOf(f, s, t, k, seq, m)
  BY <1>1, AddAllIs
<1>4. \A i \in 0..m : f[i] = IF i = 0 THEN Done(s)
                             ELSE IF ~f[i - 1].ok THEN f[i - 1]
                             ELSE IF t = "list" THEN ListAdd(f[i - 1].at, k, seq[i])
                             ELSE MapAdd(f[i - 1].at, t, k, seq[i])
  BY <1>2 DEF AddingOf
<1> DEFINE base == Old(s.data[t][k])
           Well(i, r) ==
             /\ Reaches({k}, s, r.at)
             /\ r.ok /\ "own" \notin r.at.slips =>
                  /\ r.at.types[k] = t
                  /\ t = "list" => Old(r.at.data[t][k]) \subseteq base \cup {seq[a] : a \in 1..i}
           T == {i \in 0..m : Well(i, f[i])}
<1>5. 0 \in T
  <2>1. Done(s).at = s
    BY DEF Done
  <2>2. Well(0, Done(s))
    BY <2>1, ReachesItself
  <2> HIDE DEF Well
  <2> QED BY <1>1, <1>4, <2>2
<1>6. ASSUME NEW i \in 0..m, i # 0, (i - 1) \in T PROVE i \in T
  <2> DEFINE r == f[i - 1]
             e == seq[i]
  <2>1. i \in Nat /\ i \in 1..m /\ e \in Fields /\ Well(i - 1, r)
    BY <1>1, <1>6
  <2>2. f[i] = IF ~r.ok THEN r
               ELSE IF t = "list" THEN ListAdd(r.at, k, e) ELSE MapAdd(r.at, t, k, e)
    BY <1>4, <1>6
  <2> HIDE DEF r
  <2>3. Good(r.at)
    BY <2>1 DEF Reaches
  <2>4. CASE ~r.ok
    <3>1. Well(i, r)
      BY <2>1, <2>4
    <3> HIDE DEF Well
    <3> QED BY <1>6, <2>2, <2>4, <3>1
  <2>5. CASE r.ok /\ t = "list"
    <3>a. PICK w : w = ListAdd(r.at, k, e)
      OBVIOUS
    <3>1. ASSUME "own" \notin r.at.slips
          PROVE  r.at.types[k] = "list" /\ e \notin Old(r.at.data["list"][k])
      <4>1. r.at.types[k] = t /\ Old(r.at.data[t][k]) \subseteq base \cup {seq[a] : a \in 1..(i - 1)}
        BY <2>1, <2>5, <3>1
      <4>2. e \notin base
        BY <1>1, <2>1, <2>5
      <4>3. \A a \in 1..(i - 1) : seq[a] # e
        <5>1. \A a \in 1..(i - 1) : a \in 1..m /\ a # i
          BY <1>1, <2>1
        <5> QED BY <1>1, <2>1, <2>5, <5>1 DEF IsInjective
      <4> HIDE DEF e, base
      <4> QED BY <2>5, <4>1, <4>2, <4>3
    <3>2. /\ Reaches({k}, r.at, w.at)
          /\ w.ok /\ "own" \notin w.at.slips =>
               /\ w.at.types[k] = "list"
               /\ w.at.data["list"][k] = Old(r.at.data["list"][k]) \cup {e}
      <4>1. "list" \in Collections
        BY <2>5
      <4>2. Adds(r.at, k, "list", w) /\ Extends(r.at, k, e, w)
        BY <2>1, <2>3, <3>1, <3>a, <4>1, ListAddDoes
      <4> QED BY <4>2 DEF Adds, Extends
    <3>3. Reaches({k}, s, w.at)
      BY <2>1, <3>2, ReachesAgain
    <3>4. ASSUME w.ok, "own" \notin w.at.slips
          PROVE  w.at.types[k] = t /\ Old(w.at.data[t][k]) \subseteq base \cup {seq[a] : a \in 1..i}
      <4>1. "own" \notin r.at.slips
        BY <3>2, <3>4 DEF Reaches
      <4>2. Old(r.at.data[t][k]) \subseteq base \cup {seq[a] : a \in 1..(i - 1)}
        BY <2>1, <2>5, <4>1
      <4>3. \A a \in 1..(i - 1) : a \in 1..i
        BY <2>1
      <4>4. e \in {seq[a] : a \in 1..i}
        BY <2>1
      <4> HIDE DEF e, base
      <4>5. Old(w.at.data[t][k]) \subseteq Old(r.at.data[t][k]) \cup {e}
        BY <2>5, <3>2, <3>4 DEF Old
      <4> QED BY <2>5, <3>2, <3>4, <4>2, <4>3, <4>4, <4>5
    <3>5. Well(i, w)
      BY <3>3, <3>4
    <3> HIDE DEF Well
    <3> QED BY <1>6, <2>2, <2>5, <3>5, <3>a
  <2>6. CASE r.ok /\ t # "list"
    <3>a. PICK w : w = MapAdd(r.at, t, k, e)
      OBVIOUS
    <3>1. "own" \notin r.at.slips => r.at.types[k] = t
      BY <2>1, <2>6
    <3>2. /\ Reaches({k}, r.at, w.at)
          /\ w.ok /\ "own" \notin w.at.slips => w.at.types[k] = t
      <4>1. Adds(r.at, k, t, w)
        BY <2>1, <2>3, <3>1, <3>a, MapAddDoes
      <4> QED BY <4>1 DEF Adds
    <3>3. Reaches({k}, s, w.at)
      BY <2>1, <3>2, ReachesAgain
    <3>4. Well(i, w)
      BY <2>6, <3>2, <3>3
    <3> HIDE DEF Well
    <3> QED BY <1>6, <2>2, <2>6, <3>4, <3>a
  <2> QED BY <2>4, <2>5, <2>6
<1>7. m \in T
  <2> HIDE DEF T
  <2> QED BY <1>1, <1>5, <1>6, UpTo
<1> QED BY <1>2, <1>7

Reserves(s, k, t, w) == Good(w.at) /\ Reaches({k}, s, w.at) /\ (w.ok => w.at.types[k] = t)

\* reserveKey(), whether it throws or not.
LEMMA ReserveDoes ==
    ASSUME NEW s, Good(s), NEW k \in Keys, NEW t \in Types, cap \in Nat,
           NEW w, w = Reserve(s, k, t)
    PROVE  Reserves(s, k, t, w)
<1> DEFINE now == Current(s, k)
           r == Touch(Registering(now, k, t), k)
<1>1. Good(now) /\ Reaches({k}, s, now)
  BY CurrentReaches
<1>2. w = IF now.types[k] \in {None, t} THEN Done(r) ELSE Thrown(now)
  BY DEF Reserve, Registering
<1> HIDE DEF now
<1>3. CASE now.types[k] \in {None, t}
  <2>1. Good(r) /\ Reaches({k}, now, r) /\ r.types[k] = t
    BY <1>1, <1>3, Registered
  <2> HIDE DEF r
  <2>2. Reaches({k}, s, r)
    BY <1>1, <2>1, ReachesAgain
  <2> QED BY <1>2, <1>3, <2>1, <2>2 DEF Done, Reserves
<1>4. CASE now.types[k] \notin {None, t}
  BY <1>1, <1>2, <1>4 DEF Thrown, Reserves
<1> QED BY <1>3, <1>4

-----------------------------------------------------------------------------
(***************************************************************************)
(* The commands that write: they reach what eviction allows.               *)
(***************************************************************************)
LEMMA SetReaches ==
    ASSUME Good(ks), policy \in Policies, cap \in Nat,
           NEW k \in Keys, NEW c \in TextCosts, NEW ttl, ttl \in {"ahead", "none", "keep"},
           Set(k, c, ttl), NEW s, s = ks, NEW r, r = ks'
    PROVE  Reaches({k}, s, r)
<1>1. "string" \in Types
  BY Constants
<1>2. PICK w : w = Reserve(s, k, "string")
  OBVIOUS
<1>3. Reserves(s, k, "string", w)
  BY <1>1, <1>2, ReserveDoes
<1> DEFINE at == w.at
<1>4. Good(at) /\ Reaches({k}, s, at) /\ (w.ok => at.types[k] = "string")
  BY <1>3 DEF Reserves
<1>5. PICK v : v = StringSet(at, k, c)
  OBVIOUS
<1>6. r = IF ~w.ok THEN at ELSE IF ~v.ok THEN v.at ELSE WithTTL(v.at, k, ttl)
  BY <1>2, <1>5 DEF Set
<1>7. CASE ~w.ok
  BY <1>4, <1>6, <1>7
<1>8. CASE w.ok
  <2>1. at = Registering(at, k, "string")
    BY <1>1, <1>4, <1>8, RegisteringIs
  <2>2. at.types[k] \in {None, "string"}
    BY <1>4, <1>8
  <2>3. Wrote(at, at, k, v)
    <3> HIDE DEF at
    <3> QED BY <1>4, <1>5, <2>1, <2>2, StringSetDoes
  <2>a. Reaches({k}, at, v.at)
    BY <2>3 DEF Wrote
  <2> HIDE DEF at
  <2>4. Reaches({k}, s, v.at) /\ Good(v.at)
    <3>1. Reaches({k}, s, v.at)
      BY <1>4, <2>a, ReachesAgain
    <3> QED BY <3>1 DEF Reaches
  <2>5. Reaches({k}, v.at, WithTTL(v.at, k, ttl))
    <3>1. CASE ttl = "keep"
      BY <2>4, <3>1, ReachesItself DEF WithTTL
    <3>2. CASE ttl # "keep"
      <4>1. ttl \in Expiries
        BY <3>2 DEF Expiries
      <4> QED BY <2>4, <4>1, TtlReaches
    <3> QED BY <3>1, <3>2
  <2>6. Reaches({k}, s, WithTTL(v.at, k, ttl))
    BY <2>4, <2>5, ReachesAgain
  <2> QED BY <1>6, <1>8, <2>4, <2>6
<1> QED BY <1>7, <1>8

LEMMA SetNXReaches ==
    ASSUME Good(ks), policy \in Policies, cap \in Nat,
           NEW k \in Keys, NEW c \in TextCosts,
           SetNX(k, c), NEW s, s = ks, NEW r, r = ks'
    PROVE  Reaches({k}, s, r)
<1> DEFINE now == Current(s, k)
           q == Registering(now, k, "string")
<1>1. Good(now) /\ Reaches({k}, s, now)
  BY CurrentReaches
<1>2. r = IF now.types[k] # None THEN now ELSE StringSet(q, k, c).at
  BY DEF SetNX, Registering
<1> HIDE DEF now
<1>3. CASE now.types[k] = None
  <2>1. PICK v : v = StringSet(q, k, c)
    OBVIOUS
  <2>2. Wrote(now, q, k, v)
    BY <1>1, <1>3, <2>1, StringSetDoes
  <2>3. Reaches({k}, s, v.at)
    BY <1>1, <2>2, ReachesAgain DEF Wrote
  <2> QED BY <1>2, <1>3, <2>1, <2>3
<1> QED BY <1>1, <1>2, <1>3

LEMMA AppendReaches ==
    ASSUME Good(ks), policy \in Policies, cap \in Nat,
           NEW k \in Keys, NEW n \in Nat,
           AppendText(k, n), NEW s, s = ks, NEW r, r = ks'
    PROVE  Reaches({k}, s, r)
<1>1. "string" \in Types
  BY Constants
<1>2. PICK w : w = Reserve(s, k, "string")
  OBVIOUS
<1>3. Reserves(s, k, "string", w)
  BY <1>1, <1>2, ReserveDoes
<1> DEFINE at == w.at
<1>4. Good(at) /\ Reaches({k}, s, at) /\ (w.ok => at.types[k] = "string")
  BY <1>3 DEF Reserves
<1>5. /\ r = IF w.ok THEN StringAppend(at, k, n).at ELSE at
      /\ (IF Bytes("string", at.data["string"][k]) = 0 THEN Header
          ELSE Bytes("string", at.data["string"][k])) + n <= MaxText
  BY <1>2 DEF AppendText
<1> HIDE DEF at
<1>6. CASE w.ok
  <2>1. Reaches({k}, at, StringAppend(at, k, n).at)
    BY <1>4, <1>5, <1>6, StringAppendDoes
  <2> QED BY <1>4, <1>5, <1>6, <2>1, ReachesAgain
<1> QED BY <1>4, <1>5, <1>6

LEMMA AddReaches ==
    ASSUME Good(ks), policy \in Policies, cap \in Nat,
           NEW k \in Keys, NEW t \in Collections, NEW seq \in Additions,
           Add(t, k, seq), NEW s, s = ks, NEW r, r = ks'
    PROVE  Reaches({k}, s, r)
<1>1. t \in Types /\ seq \in Seq(Fields)
  BY Constants, KeyspaceAssumption
<1>2. PICK w : w = Reserve(s, k, t)
  OBVIOUS
<1>3. Reserves(s, k, t, w)
  BY <1>1, <1>2, ReserveDoes
<1> DEFINE at == w.at
<1>4. Good(at) /\ Reaches({k}, s, at) /\ (w.ok => at.types[k] = t)
  BY <1>3 DEF Reserves
<1>5. r = IF w.ok THEN AddAll(at, t, k, seq).at ELSE at
  BY <1>2 DEF Add
<1>6. t = "list" => IsInjective(seq) /\ ToSet(seq) \cap Old(at.data[t][k]) = {}
  BY <1>2 DEF Add, Old
<1> HIDE DEF at
<1>7. CASE w.ok
  <2>1. Reaches({k}, at, AddAll(at, t, k, seq).at)
    BY <1>1, <1>4, <1>6, <1>7, AddAllReaches
  <2> QED BY <1>4, <1>5, <1>7, <2>1, ReachesAgain
<1> QED BY <1>4, <1>5, <1>7

Calm(s, r) == Good(r) /\ NoGrowth(s, r)

LEMMA CalmAgain ==
    ASSUME NEW s, Good(s), NEW r, NEW q, Calm(s, r), Calm(r, q)
    PROVE  Calm(s, q)
<1>1. \A t \in Types, x \in Keys :
        /\ Bytes(t, s.data[t][x]) \in Nat /\ Bytes(t, r.data[t][x]) \in Nat
        /\ Bytes(t, q.data[t][x]) \in Nat
  BY BytesAre DEF Calm, Good, Shaped
<1> QED BY <1>1 DEF Calm, NoGrowth

LEMMA CalmItself == ASSUME NEW s, Good(s) PROVE Calm(s, s)
BY ShrinksItself DEF Calm, Shrinks, Good

LEMMA CurrentCalm == ASSUME NEW s, Good(s), NEW k \in Keys PROVE Calm(s, Current(s, k))
BY CurrentReaches DEF Calm, Shrinks

(* If MSET drops a key of its own, it has evicted it, and there is no      *)
(* candidate left but the other.                                           *)
Drops(W, s, r) ==
    NoGrowth(s, r) \/ \A y \in W : r.types[y] = None =>
      /\ MayGo(s, y)
      /\ \A x \in Keys \ W : Contains(r.lru, x) => ~MayGo(s, x)

\* No TTL begins.
Fades(s, r) == \A x \in Keys : r.ttl[x] = s.ttl[x] \/ r.ttl[x] = "none"

LEMMA CurrentFades ==
    ASSUME NEW s, Good(s), NEW k \in Keys
    PROVE  Fades(s, Current(s, k))
<1>1. PICK r : r = Current(s, k)
  OBVIOUS
<1>2. Reaches({k}, s, r) /\ r.ttl[k] \in {s.ttl[k], "none"}
  BY <1>1, CurrentReaches
<1>3. \A x \in Keys \ {k} : r.ttl[x] = s.ttl[x] \/ r.ttl[x] = "none"
  BY <1>2 DEF Reaches, Same, Out
<1> QED BY <1>1, <1>2, <1>3 DEF Fades

LEMMA MSetReaches ==
    ASSUME Good(ks), policy \in Policies, cap \in Nat,
           NEW j \in Keys, NEW k \in Keys, NEW c \in TextCosts, NEW d \in TextCosts,
           MSet(j, k, c, d), NEW s, s = ks, NEW r, r = ks'
    PROVE  Reaches({j, k}, s, r) /\ Drops({j, k}, s, r)
<1> DEFINE W == {j, k}
           text == {None, "string"}
           now == IF Current(s, j).types[j] \in text THEN Current(Current(s, j), k) ELSE Current(s, j)
<1>1. "string" \in Types /\ "none" \in Expiries
  BY Constants DEF Expiries
<1>2. Good(now) /\ Reaches(W, s, now)
  <2>1. Good(Current(s, j)) /\ Reaches({j}, s, Current(s, j))
    BY CurrentReaches
  <2>2. Good(Current(Current(s, j), k)) /\ Reaches({k}, Current(s, j), Current(Current(s, j), k))
    BY <2>1, CurrentReaches
  <2>3. {j} \subseteq W /\ {k} \subseteq W
    OBVIOUS
  <2> HIDE DEF W
  <2>4. Reaches(W, s, Current(s, j)) /\ Reaches(W, Current(s, j), Current(Current(s, j), k))
    BY <2>1, <2>2, <2>3, ReachesMore
  <2>5. Reaches(W, s, Current(Current(s, j), k))
    BY <2>4, ReachesAgain
  <2> QED BY <2>1, <2>2, <2>4, <2>5
<1>2a. Calm(s, now) /\ Fades(s, now)
  <2>1. Good(Current(s, j)) /\ Calm(s, Current(s, j)) /\ Fades(s, Current(s, j))
    BY CurrentCalm, CurrentFades DEF Calm
  <2>2. /\ Calm(Current(s, j), Current(Current(s, j), k))
        /\ Fades(Current(s, j), Current(Current(s, j), k))
    BY <2>1, CurrentCalm, CurrentFades
  <2>3. Calm(s, Current(Current(s, j), k))
    BY <2>1, <2>2, CalmAgain
  <2>4. Fades(s, Current(Current(s, j), k))
    BY <2>1, <2>2 DEF Fades
  <2> QED BY <2>1, <2>3, <2>4
<1> DEFINE q == Registering(now, j, "string")
<1>3. PICK v : v = StringSet(q, j, c)
  OBVIOUS
<1> DEFINE mid == WithTTL(v.at, j, "none")
           p == Registering(mid, k, "string")
<1>4. PICK u : u = StringSet(p, k, d)
  OBVIOUS
<1>5. r = IF now.types[j] \notin text \/ now.types[k] \notin text THEN now
          ELSE IF ~v.ok THEN v.at
          ELSE IF ~u.ok THEN u.at
          ELSE WithTTL(u.at, k, "none")
  BY <1>3, <1>4 DEF MSet, Registering
<1>6. j # k
  BY DEF MSet
<1> HIDE DEF now
<1>7. CASE now.types[j] \notin text \/ now.types[k] \notin text
  BY <1>2, <1>2a, <1>5, <1>7 DEF Calm, Drops
<1>8. CASE now.types[j] \in text /\ now.types[k] \in text
  <2>1. Wrote(now, q, j, v)
    BY <1>2, <1>3, <1>8, StringSetDoes
  <2>2. Reaches({j}, now, v.at) /\ Good(v.at)
    BY <2>1 DEF Wrote, Reaches
  <2>3. {j} \subseteq W /\ {k} \subseteq W
    OBVIOUS
  <2> HIDE DEF W
  <2>4. Reaches(W, s, v.at)
    <3>1. Reaches(W, now, v.at)
      BY <2>2, <2>3, ReachesMore
    <3> QED BY <1>2, <3>1, ReachesAgain
  <2>5. Good(mid) /\ Reaches({j}, v.at, mid) /\ mid.types = v.at.types
    BY <1>1, <2>2, TtlReaches, TtlGood
  <2> HIDE DEF mid
  <2>6. Reaches(W, s, mid)
    <3>1. Reaches(W, v.at, mid)
      BY <2>3, <2>5, ReachesMore
    <3> QED BY <2>4, <3>1, ReachesAgain
  <2>7. mid.types[k] \in text
    <3>1. v.at.types[k] = now.types[k] \/ v.at.types[k] = None
      BY <1>6, <2>2 DEF Reaches, Same, Out
    <3> QED BY <1>8, <2>5, <3>1
  <2>8. Wrote(mid, p, k, u)
    BY <1>4, <2>5, <2>7, StringSetDoes
  <2>9. Reaches({k}, mid, u.at) /\ Good(u.at)
    BY <2>8 DEF Wrote, Reaches
  <2>10. Reaches(W, s, u.at)
    <3>1. Reaches(W, mid, u.at)
      BY <2>3, <2>9, ReachesMore
    <3> QED BY <2>5, <2>6, <3>1, ReachesAgain
  <2>11. Reaches(W, s, WithTTL(u.at, k, "none"))
    <3>1. Reaches({k}, u.at, WithTTL(u.at, k, "none"))
      BY <1>1, <2>9, TtlReaches
    <3>2. Reaches(W, u.at, WithTTL(u.at, k, "none"))
      BY <2>3, <3>1, ReachesMore
    <3> QED BY <2>9, <2>10, <3>2, ReachesAgain
  <2>12. CASE ~v.ok
    <3>1. r = v.at /\ NoGrowth(now, v.at)
      BY <1>5, <1>8, <2>1, <2>12 DEF Wrote
    <3>2. Calm(s, r)
      <4>1. Calm(now, v.at)
        BY <2>2, <3>1 DEF Calm
      <4> QED BY <1>2a, <3>1, <4>1, CalmAgain
    <3> QED BY <2>4, <3>1, <3>2 DEF W, Calm, Drops
  <2>13. CASE v.ok
    <3>1. Reaches(W, s, r)
      BY <1>5, <1>8, <2>10, <2>11, <2>13
    <3>2. r.lru = u.at.lru /\ r.types = u.at.types
      BY <1>1, <1>5, <1>8, <2>9, <2>13, TtlGood
    <3>3. /\ \A x \in Keys : MayGo(q, x) <=> MayGo(now, x)
          /\ \A x \in Keys : MayGo(p, x) <=> MayGo(mid, x)
          /\ q.types[j] = "string" /\ p.types[k] = "string"
      BY <1>1, <1>2, <2>5, RegisteringIs DEF MayGo
    <3>4. mid.lru = v.at.lru /\ mid.ttl[j] = "none" /\ \A x \in Keys \ {j} : mid.ttl[x] = v.at.ttl[x]
      BY <1>1, <2>2, TtlGood DEF mid
    <3>5. \A x \in Keys : MayGo(now, x) => MayGo(s, x)
      BY <1>2a DEF MayGo, Fades
    <3>6. \A x \in Keys \ W : Contains(r.lru, x) =>
            /\ Contains(mid.lru, x)
            /\ MayGo(mid, x) <=> MayGo(s, x)
            /\ MayGo(now, x) <=> MayGo(s, x)
      <4>1. ASSUME NEW x \in Keys \ W, Contains(r.lru, x)
            PROVE  /\ Contains(mid.lru, x)
                   /\ mid.ttl[x] = s.ttl[x] /\ now.ttl[x] = s.ttl[x]
        <5>0. x \in Keys \ {j} /\ x \in Keys \ {k}
          BY DEF W
        <5>1. Contains(mid.lru, x)
          BY <2>9, <3>2, <4>1, <5>0 DEF Reaches, Same, Out
        <5>2. Contains(now.lru, x) /\ v.at.ttl[x] = now.ttl[x]
          BY <2>2, <3>4, <5>0, <5>1 DEF Reaches, Same, Out
        <5>3. now.ttl[x] = s.ttl[x]
          BY <1>2, <5>2 DEF Reaches, Same, Out
        <5> QED BY <3>4, <5>0, <5>1, <5>2, <5>3
      <4> QED BY <4>1 DEF MayGo
    <3>7. Behind(q, j, v.at) /\ Behind(p, k, u.at)
      BY <2>1, <2>8 DEF Wrote
    <3>8. \A x \in Keys \ W : x \in Keys \ {j} /\ x \in Keys \ {k}
      BY DEF W
    <3> HIDE DEF q, p
    <3>9. ASSUME r.types[k] = None
          PROVE  MayGo(s, k) /\ \A x \in Keys \ W : Contains(r.lru, x) => ~MayGo(s, x)
      <4>1. MayGo(p, k) /\ \A x \in Keys \ {k} : Contains(r.lru, x) => ~MayGo(p, x)
        BY <3>2, <3>3, <3>7, <3>9, Constants DEF Behind
      <4>2. v.at.ttl[k] = now.ttl[k] \/ v.at.ttl[k] = "none"
        BY <1>6, <2>2 DEF Reaches, Same, Out
      <4>3. MayGo(s, k)
        BY <1>6, <3>3, <3>4, <3>5, <4>1, <4>2 DEF MayGo
      <4> QED BY <3>3, <3>6, <3>8, <4>1, <4>3
    <3>10. ASSUME r.types[j] = None
           PROVE  MayGo(s, j) /\ \A x \in Keys \ W : Contains(r.lru, x) => ~MayGo(s, x)
      <4>1. CASE ~Contains(v.at.lru, j)
        <5>1. MayGo(q, j) /\ \A x \in Keys \ {j} : Contains(v.at.lru, x) => ~MayGo(q, x)
          BY <3>7, <4>1 DEF Behind
        <5> QED BY <3>3, <3>4, <3>5, <3>6, <3>8, <5>1
      <4>2. CASE Contains(v.at.lru, j)
        <5>1. mid.types[j] = "string" /\ Contains(mid.lru, j)
          BY <2>5, <3>3, <3>4, <3>7, <4>2 DEF Behind
        <5>2. ~Contains(u.at.lru, j)
          BY <1>6, <2>9, <3>2, <3>10, <5>1, Constants DEF Reaches, Same, Out
        <5>3. /\ MayGo(mid, j)
              /\ \A x \in Keys \ {k} : Contains(u.at.lru, x) /\ MayGo(mid, x) => ~Before(mid.lru, x, j)
          BY <1>6, <2>9, <5>1, <5>2 DEF Reaches
        <5>4. policy = "allkeys-lru"
          BY <3>4, <5>3 DEF MayGo
        <5>5. ASSUME NEW x \in Keys \ W, Contains(r.lru, x) PROVE FALSE
          <6>1. Before(mid.lru, x, j)
            BY <3>4, <3>6, <3>7, <3>8, <4>2, <5>5 DEF Behind
          <6> QED BY <3>2, <3>8, <5>3, <5>4, <5>5, <6>1 DEF MayGo
        <5> QED BY <5>4, <5>5 DEF MayGo
      <4> QED BY <4>1, <4>2
    <3> QED BY <3>1, <3>9, <3>10 DEF W, Drops
  <2> QED BY <2>12, <2>13
<1> QED BY <1>7, <1>8

-----------------------------------------------------------------------------
(***************************************************************************)
(* The commands that do not write.                                         *)
(***************************************************************************)
LEMMA TtlCalm ==
    ASSUME NEW s, Good(s), NEW k \in Keys, NEW v \in Expiries
    PROVE  Calm(s, [s EXCEPT !.ttl[k] = v])
<1>1. v # "keep"
  BY DEF Expiries
<1>2. WithTTL(s, k, v) = [s EXCEPT !.ttl[k] = v]
  BY <1>1 DEF WithTTL
<1>3. Calm(s, WithTTL(s, k, v))
  BY TtlReaches DEF Calm, Shrinks, Reaches
<1> QED BY <1>2, <1>3

LEMMA ExpireCalm ==
    ASSUME Good(ks), NEW k \in Keys, Expire(k) \/ Persist(k), NEW s, s = ks, NEW r, r = ks'
    PROVE  Calm(s, r)
<1> DEFINE now == Current(s, k)
<1>1. Good(now) /\ Calm(s, now)
  BY CurrentCalm DEF Calm
<1>2. \/ r = now \/ r = [now EXCEPT !.ttl[k] = "ahead"] \/ r = [now EXCEPT !.ttl[k] = "none"]
  BY DEF Expire, Persist
<1> HIDE DEF now
<1>3. Calm(now, [now EXCEPT !.ttl[k] = "ahead"]) /\ Calm(now, [now EXCEPT !.ttl[k] = "none"])
  <2>1. "ahead" \in Expiries /\ "none" \in Expiries
    BY DEF Expiries
  <2> QED BY <1>1, <2>1, TtlCalm
<1> QED BY <1>1, <1>2, <1>3, CalmAgain

LEMMA TimeCalm ==
    ASSUME Good(ks), NEW k \in Keys, TimePasses(k), NEW s, s = ks, NEW r, r = ks'
    PROVE  Calm(s, r)
<1>1. r = [s EXCEPT !.ttl[k] = "passed"] /\ "passed" \in Expiries
  BY DEF TimePasses, Expiries
<1> QED BY <1>1, TtlCalm

LEMMA ReadCalm ==
    ASSUME Good(ks), NEW k \in Keys, NEW t, Read(t, k), NEW s, s = ks, NEW r, r = ks'
    PROVE  Calm(s, r)
<1> DEFINE now == Current(s, k)
<1>1. Good(now) /\ Calm(s, now)
  BY CurrentCalm DEF Calm
<1>2. r = now \/ r = Touch(now, k)
  BY DEF Read
<1> HIDE DEF now
<1>3. Calm(now, Touch(now, k))
  BY <1>1, TouchedReaches DEF Calm, Shrinks, Reaches
<1> QED BY <1>1, <1>2, <1>3, CalmAgain

LEMMA DeletedCalm ==
    ASSUME NEW s, Good(s), NEW k \in Keys
    PROVE  Calm(s, Deleted(s, k)) /\ Calm(s, Expired(s, k))
BY DeletedGood, ExpiredReaches DEF Calm, Shrinks

-----------------------------------------------------------------------------
\* FLUSHDB and the sweep remove one key after the other.
Removed(q, k, flush) == IF flush THEN Deleted(q, k) ELSE Expired(q, k)

Removing(it, s, D, flush) ==
    it = [S \in SUBSET D |-> IF S = {} THEN s ELSE Removed(it[S \ {First(S)}], First(S), flush)]

LEMMA RemovedCalm ==
    ASSUME NEW s, Good(s), NEW k \in Keys, NEW flush \in BOOLEAN
    PROVE  Calm(s, Removed(s, k, flush))
BY DeletedCalm DEF Removed

LEMMA RemovingExists ==
    ASSUME NEW s, Good(s), NEW D \in SUBSET Keys, NEW flush \in BOOLEAN
    PROVE  \E it : Removing(it, s, D, flush)
<1> DEFINE X == {q \in State : Calm(s, q)}
           G == [p \in D \X X |-> Removed(p[2], p[1], flush)]
<1>1. IsFiniteSet(D)
  BY Constants, FS_Subset
<1>2. s \in X
  BY CalmItself DEF Good, Shaped
<1>3. ASSUME NEW x \in D, NEW q \in X PROVE Removed(q, x, flush) \in X
  <2>1. Good(q) /\ Calm(s, q)
    BY DEF Calm
  <2>2. Calm(q, Removed(q, x, flush))
    BY <2>1, RemovedCalm
  <2>3. Calm(s, Removed(q, x, flush))
    BY <2>1, <2>2, CalmAgain
  <2> QED BY <2>3 DEF Calm, Good, Shaped
<1> HIDE DEF X
<1>4. G \in [D \X X -> X]
  BY <1>3
<1>5. \A x \in D, q \in X : G[<<x, q>>] = Removed(q, x, flush)
  OBVIOUS
<1> HIDE DEF G
<1>6. PICK it : FoldOf(it, D, s, G)
  BY <1>1, FoldExists
<1>7. \A S \in SUBSET D : it[S] \in X
  BY <1>1, <1>2, <1>4, <1>6, FoldIn
<1>8. ASSUME NEW S \in SUBSET D
      PROVE  it[S] = IF S = {} THEN s ELSE Removed(it[S \ {First(S)}], First(S), flush)
  <2>1. CASE S = {}
    BY <1>6, <2>1, FoldSteps
  <2>2. CASE S # {}
    <3>1. /\ First(S) \in D /\ S \ {First(S)} \in SUBSET D
          /\ it[S] = G[<<First(S), it[S \ {First(S)}]>>]
      BY <1>6, <2>2, FoldSteps
    <3> QED BY <1>5, <1>7, <2>2, <3>1
  <2> QED BY <2>1, <2>2
<1>9. it = [S \in SUBSET D |-> it[S]]
  BY <1>6 DEF FoldOf
<1> QED BY <1>8, <1>9 DEF Removing

LEMMA RemovingCalm ==
    ASSUME NEW s, Good(s), NEW D \in SUBSET Keys, NEW flush \in BOOLEAN,
           NEW it, Removing(it, s, D, flush)
    PROVE  Calm(s, it[D])
<1> DEFINE F == {S \in SUBSET D : ~Calm(s, it[S])}
<1> SUFFICES ASSUME F # {} PROVE FALSE
  OBVIOUS
<1>0. IsFiniteSet(D)
  BY Constants, FS_Subset
<1>1. PICK S \in F : \A a \in S : S \ {a} \notin F
  <2>1. F \subseteq SUBSET D
    OBVIOUS
  <2> HIDE DEF F
  <2> QED BY <1>0, <2>1, SmallestSet
<1>2. \A U \in SUBSET D :
        it[U] = IF U = {} THEN s ELSE Removed(it[U \ {First(U)}], First(U), flush)
  BY DEF Removing
<1>3. S # {}
  <2>1. it[{}] = s
    BY <1>2
  <2>2. {} \notin F
    BY <2>1, CalmItself
  <2> HIDE DEF F
  <2> QED BY <1>1, <2>2
<1> DEFINE q == it[S \ {First(S)}]
<1>4. First(S) \in S /\ First(S) \in Keys /\ S \in SUBSET D
  BY <1>1, <1>3, FirstIn
<1>5. it[S] = Removed(q, First(S), flush)
  BY <1>2, <1>3, <1>4
<1>6. Calm(s, q)
  BY <1>1, <1>4
<1> HIDE DEF q
<1>7. Calm(q, it[S])
  BY <1>4, <1>5, <1>6, RemovedCalm DEF Calm
<1>8. Calm(s, it[S])
  BY <1>6, <1>7, CalmAgain
<1> QED BY <1>1, <1>8

LEMMA FlushCalm ==
    ASSUME Good(ks), FlushDb, NEW s, s = ks, NEW r, r = ks'
    PROVE  Calm(s, r)
<1> DEFINE D == {k \in Keys : s.types[k] # None}
           Sums(it) ==
             it = [S \in SUBSET D |->
                     IF S = {} THEN s
                     ELSE Deleted(it[S \ {CHOOSE x \in S : TRUE}], CHOOSE x \in S : TRUE)]
           sum == CHOOSE it : Sums(it)
<1>1. \A it : Removing(it, s, D, TRUE) <=> Sums(it)
  BY DEF Removing, Removed, First
<1>2. r = sum[D]
  BY DEF FlushDb, FoldSet, MapThenFoldSet
<1>3. D \in SUBSET Keys
  OBVIOUS
<1> HIDE DEF Sums, D
<1>4. \E it : Sums(it)
  BY <1>1, <1>3, RemovingExists
<1>5. Sums(sum)
  BY <1>4
<1> HIDE DEF sum
<1>6. PICK it : it = sum
  OBVIOUS
<1>7. Calm(s, it[D])
  BY <1>1, <1>3, <1>5, <1>6, RemovingCalm
<1> QED BY <1>2, <1>6, <1>7

LEMMA SweepCalm ==
    ASSUME Good(ks), Sweep, NEW s, s = ks, NEW r, r = ks'
    PROVE  Calm(s, r)
<1> DEFINE D == {k \in Keys : s.ttl[k] = "passed"}
           Sums(it) ==
             it = [S \in SUBSET D |->
                     IF S = {} THEN s
                     ELSE Expired(it[S \ {CHOOSE x \in S : TRUE}], CHOOSE x \in S : TRUE)]
           sum == CHOOSE it : Sums(it)
<1>1. \A it : Removing(it, s, D, FALSE) <=> Sums(it)
  BY DEF Removing, Removed, First
<1>2. r = sum[D]
  BY DEF Sweep, FoldSet, MapThenFoldSet
<1>3. D \in SUBSET Keys
  OBVIOUS
<1> HIDE DEF Sums, D
<1>4. \E it : Sums(it)
  BY <1>1, <1>3, RemovingExists
<1>5. Sums(sum)
  BY <1>4
<1> HIDE DEF sum
<1>6. PICK it : it = sum
  OBVIOUS
<1>7. Calm(s, it[D])
  BY <1>1, <1>3, <1>5, <1>6, RemovingCalm
<1> QED BY <1>2, <1>6, <1>7

-----------------------------------------------------------------------------
\* A key whose stores are empty may lose its type.
LEMMA UnregisteredGood ==
    ASSUME NEW s, Good(s), NEW k \in Keys, NEW r, r = [s EXCEPT !.types[k] = None],
           "own" \notin s.slips => /\ s.data["string"][k] = NoObject
                                   /\ \A u \in Collections : s.data[u][k] \in {{}, NoObject}
    PROVE  Calm(s, r)
<1>1. /\ Shaped(s) /\ s \in State /\ Listed(s) /\ Accounted(s)
      /\ "own" \notin s.slips => OwnedIn(s)
  BY DEF Good, Shaped
<1>2. /\ r \in State /\ r.types[k] = None /\ (\A x \in Keys \ {k} : r.types[x] = s.types[x])
      /\ r.data = s.data /\ r.ttl = s.ttl /\ r.lru = s.lru /\ r.used = s.used /\ r.slips = s.slips
  BY <1>1 DEF State
<1>3. Shaped(r) /\ Listed(r)
  BY <1>1, <1>2 DEF Shaped, Listed
<1>4. "own" \notin r.slips => OwnedIn(r)
  BY <1>1, <1>2 DEF OwnedIn
<1>5. Accounted(r)
  BY <1>1, <1>2, HeldSame DEF Accounted
<1>6. NoGrowth(s, r)
  BY <1>1, <1>2, BytesAre DEF NoGrowth, Shaped
<1> QED BY <1>3, <1>4, <1>5, <1>6 DEF Calm, Good

\* The bytes of the entries that go.
LEMMA TakenBytes ==
    ASSUME NEW t \in Collections, NEW object \in {NoObject} \cup SUBSET Fields,
           NEW E \in SUBSET Old(object), NEW rest,
           rest = IF (E = Old(object) /\ E # {}) \/ object = NoObject THEN NoObject ELSE object \ E
    PROVE  /\ rest \in Values(t)
           /\ EntryCost * Cardinality(E) \in Nat
           /\ Bytes(t, rest) + EntryCost * Cardinality(E) = Bytes(t, object)
<1>1. t \in Types /\ t # "string"
  BY Constants
<1>2. Bytes(t, NoObject) = 0
  BY <1>1, BytesAre
<1>3. CASE object = NoObject
  <2>1. E = {} /\ rest = NoObject
    BY <1>3 DEF Old
  <2>2. EntryCost * Cardinality(E) = 0
    BY <2>1, FS_EmptySet, Times
  <2> QED BY <1>2, <1>3, <2>1, <2>2 DEF Values
<1>4. CASE object # NoObject
  <2>1. object \in SUBSET Fields /\ E \in SUBSET object /\ Old(object) = object
    BY <1>4 DEF Old
  <2>2. /\ Cardinality(object) \in Nat /\ Cardinality(E) \in Nat
        /\ Bytes(t, object) = EntryCost * Cardinality(object)
        /\ Bytes(t, object \ E) = Bytes(t, object) - EntryCost * Cardinality(E)
    BY <1>1, <2>1, BytesAre
  <2>3. EntryCost * Cardinality(E) \in Nat /\ EntryCost * Cardinality(object) \in Nat
    BY <2>2, Times
  <2>4. Bytes(t, rest) = Bytes(t, object) - EntryCost * Cardinality(E)
    <3>1. CASE E = object /\ E # {}
      <4>1. rest = NoObject
        BY <2>1, <3>1
      <4> QED BY <1>2, <2>2, <2>3, <3>1, <4>1
    <3>2. CASE ~(E = object /\ E # {})
      <4>1. rest = object \ E
        BY <1>4, <2>1, <3>2
      <4> QED BY <2>2, <4>1
    <3> QED BY <3>1, <3>2
  <2>5. rest \in Values(t)
    BY <1>1, <1>4, <2>1 DEF Values
  <2> QED BY <2>2, <2>3, <2>4, <2>5
<1> QED BY <1>3, <1>4

LEMMA TakeCalm ==
    ASSUME Good(ks), NEW k \in Keys, NEW t \in Collections, NEW E \in SUBSET Fields,
           Take(t, k, E), NEW s, s = ks, NEW r, r = ks'
    PROVE  Calm(s, r)
<1> DEFINE object == s.data[t][k]
           rest == IF (E = Old(object) /\ E # {}) \/ object = NoObject THEN NoObject ELSE object \ E
           p == IF Touches(t, object, rest) THEN Touch(s, k) ELSE s
           m == EntryCost * Cardinality(E)
           q == Put(Credited(p, m), t, k, rest)
<1>1. t \in Types /\ t # "string" /\ None \notin Types
  BY Constants
<1>2. /\ E \subseteq Old(object)
      /\ s.types[k] = t \/ (s.types[k] = None /\ Cardinality(E) = 1)
      /\ r = [p EXCEPT !.data[t][k] = rest, !.types[k] = IF Remains(t, rest) THEN @ ELSE None,
                       !.used = Credit(@, m)]
  BY DEF Take, Old
<1>3. object \in {NoObject} \cup SUBSET Fields
  BY <1>1 DEF Good, Shaped, Values
<1>4. Good(p) /\ Calm(s, p) /\ p.types = s.types /\ p.data = s.data /\ p.slips = s.slips
  BY TouchedIs, CalmItself DEF Calm
<1>5. rest \in Values(t) /\ m \in Nat /\ Bytes(t, rest) + m = Bytes(t, object)
  <2>1. rest = IF (E = Old(object) /\ E # {}) \/ object = NoObject THEN NoObject ELSE object \ E
    OBVIOUS
  <2>2. E \in SUBSET Old(object)
    BY <1>2
  <2> HIDE DEF object, rest
  <2> QED BY <1>3, <2>1, <2>2, TakenBytes DEF m
<1> HIDE DEF rest, p, m
<1>6. ASSUME "own" \notin p.slips PROVE p.types[k] = t
  <2>1. CASE s.types[k] = None
    <3>1. OwnedIn(s)
      BY <1>4, <1>6 DEF Good
    <3>2. object \in {{}, NoObject}
      BY <1>1, <2>1, <3>1 DEF OwnedIn
    <3>3. E = {}
      BY <1>2, <3>2 DEF Old
    <3> QED BY <1>1, <1>2, <2>1, <3>3, FS_EmptySet
  <2> QED BY <1>2, <1>4, <2>1
<1>7. Reaches({k}, p, q) /\ q.types = p.types /\ q.lru = p.lru
  <2>1. Bytes(t, rest) + m = Bytes(t, p.data[t][k])
    BY <1>4, <1>5
  <2> QED BY <1>1, <1>4, <1>5, <1>6, <2>1, Shortened
<1>8. /\ q.data[t][k] = rest /\ q.slips = p.slips
      /\ \A u \in Types : u # t => q.data[u][k] = p.data[u][k]
  BY <1>1, <1>4, <1>5 DEF Put, Credited, Good, Shaped, State
<1>9. r = [q EXCEPT !.types[k] = IF Remains(t, rest) THEN @ ELSE None]
  BY <1>2, <1>4 DEF Put, Credited, Good, Shaped, State
<1>10. Calm(p, q)
  <2>1. Shaped(p) /\ Shaped(q) /\ Good(q)
    BY <1>4, <1>7 DEF Good, Reaches
  <2>2. \A x \in Keys \ {k}, u \in Types : Bytes(u, q.data[u][x]) <= Bytes(u, p.data[u][x])
    BY <1>7 DEF Reaches, NoMore
  <2>3. \A u \in Types : Bytes(u, q.data[u][k]) \in Nat /\ Bytes(u, p.data[u][k]) \in Nat
    BY <2>1, BytesAre DEF Shaped
  <2>4. Bytes(t, q.data[t][k]) <= Bytes(t, p.data[t][k])
    BY <1>1, <1>4, <1>5, <1>8, <2>3
  <2>5. \A u \in Types : Bytes(u, q.data[u][k]) <= Bytes(u, p.data[u][k])
    BY <1>8, <2>3, <2>4
  <2> QED BY <2>1, <2>2, <2>5 DEF Calm, NoGrowth
<1> HIDE DEF q
<1>11. Calm(q, r)
  <2>1. Good(q)
    BY <1>10 DEF Calm
  <2>2. CASE Remains(t, rest)
    <3>1. r = q
      BY <1>9, <2>1, <2>2 DEF Good, Shaped, State
    <3> QED BY <2>1, <3>1, CalmItself
  <2>3. CASE ~Remains(t, rest)
    <3>1. r = [q EXCEPT !.types[k] = None]
      BY <1>9, <2>3
    <3>2. t \in {"hash", "list", "set", "zset"}
      BY KeyspaceAssumption
    <3>3. rest \in {{}, NoObject}
      BY <2>3, <3>2 DEF Remains
    <3>4. ASSUME "own" \notin q.slips
          PROVE  /\ q.data["string"][k] = NoObject
                 /\ \A u \in Collections : q.data[u][k] \in {{}, NoObject}
      <4>1. OwnedIn(p) /\ p.types[k] = t
        BY <1>4, <1>6, <1>8, <3>4 DEF Good
      <4>2. "string" \in Types /\ (\A u \in Collections : u \in Types)
        BY Constants
      <4>3. p.data["string"][k] = NoObject
        BY <1>1, <4>1 DEF OwnedIn
      <4>4. \A u \in Collections : u # t => p.data[u][k] \in {{}, NoObject}
        BY <4>1 DEF OwnedIn
      <4> QED BY <1>1, <1>8, <3>3, <4>2, <4>3, <4>4
    <3> QED BY <2>1, <3>1, <3>4, UnregisteredGood
  <2> QED BY <2>2, <2>3
<1> QED BY <1>4, <1>10, <1>11, CalmAgain

\* The list that the restart makes has every registered key.
LEMMA OrderIs ==
    ASSUME NEW S \in SUBSET Keys, NEW order \in SetToSeqs(S)
    PROVE  /\ order \in Seq(Keys) /\ IsInjective(order)
           /\ \A x \in S : Contains(order, x)
<1> DEFINE n == Cardinality(S)
<1>1. IsFiniteSet(S) /\ n \in Nat
  BY Constants, FS_Subset, FS_CardinalityType
<1>2. order \in [1..n -> S] /\ \A i, j \in 1..n : i # j => order[i] # order[j]
  BY DEF SetToSeqs
<1>3. order \in Injection(1..n, S)
  BY <1>2 DEF Injection, IsInjective
<1>4. IsFiniteSet(1..n) /\ Cardinality(1..n) = n
  BY <1>1, FS_Interval
<1>5. order \in Surjection(1..n, S)
  BY <1>1, <1>3, <1>4, FS_Injection
<1>6. order \in Seq(Keys) /\ Len(order) = n
  BY <1>1, <1>2, SeqDef, LenProperties
<1>7. \A x \in S : \E i \in 1..n : order[i] = x
  BY <1>5 DEF Surjection
<1> HIDE DEF n
<1>8. \A x \in S : Contains(order, x)
  BY <1>6, <1>7 DEF Contains
<1> QED BY <1>2, <1>6, <1>8 DEF IsInjective

LEMMA RestartCalm ==
    ASSUME Good(ks), Restart, NEW s, s = ks, NEW r, r = ks'
    PROVE  Calm(s, r)
<1>1. PICK order \in SetToSeqs({k \in Keys : s.types[k] # None}) :
        r = [s EXCEPT !.lru = order, !.used = Held(s), !.slips = @ \ {"header"}]
  BY DEF Restart
<1>2. /\ order \in Seq(Keys) /\ IsInjective(order)
      /\ \A x \in Keys : s.types[x] # None => Contains(order, x)
  BY OrderIs
<1>3. Shaped(s) /\ s \in State /\ Held(s) \in Nat
  BY HeldNat DEF Good, Shaped
<1>4. /\ r \in State /\ r.types = s.types /\ r.data = s.data /\ r.ttl = s.ttl /\ r.lru = order
      /\ r.used = Held(s) /\ r.slips = s.slips \ {"header"}
  BY <1>1, <1>2, <1>3 DEF State
<1>5. Shaped(r) /\ Listed(r)
  BY <1>2, <1>3, <1>4 DEF Shaped, Listed
<1>6. "own" \notin r.slips => OwnedIn(r)
  BY <1>4 DEF OwnedIn, Good
<1>7. Held(r) = Held(s)
  BY <1>4, HeldSame
<1>8. Accounted(r)
  BY <1>3, <1>4, <1>7 DEF Accounted
<1>9. NoGrowth(s, r)
  BY <1>3, <1>4, BytesAre DEF NoGrowth, Shaped
<1> QED BY <1>5, <1>6, <1>8, <1>9 DEF Calm, Good

-----------------------------------------------------------------------------
(***************************************************************************)
(* The specification.                                                      *)
(***************************************************************************)
KeyspaceInv == Good(ks) /\ policy \in Policies /\ cap \in Caps

\* A command writes one key, or two with MSET, or lets nothing grow.
LEMMA Steps ==
    ASSUME KeyspaceInv, Next
    PROVE  /\ policy' \in Policies /\ cap' \in Caps
           /\ \/ Calm(ks, ks')
              \/ \E w \in Keys : Reaches({w}, ks, ks') /\ Writes(w)
              \/ \E j, k \in Keys : /\ Reaches({j, k}, ks, ks') /\ Drops({j, k}, ks, ks')
                                    /\ Writes(j) /\ Writes(k)
<1>1. Good(ks) /\ policy \in Policies /\ cap \in Caps /\ cap \in Nat
  BY KeyspaceAssumption DEF KeyspaceInv
<1>2. PICK s : s = ks
  OBVIOUS
<1>3. PICK r : r = ks'
  OBVIOUS
<1>4. Calm(s, s)
  BY <1>1, <1>2, CalmItself
<1>5. ASSUME NEW k \in Keys, NEW c \in TextCosts, NEW ttl \in {"ahead", "none", "keep"}, Set(k, c, ttl)
      PROVE  Reaches({k}, s, r) /\ Writes(k) /\ UNCHANGED <<policy, cap>>
  <2>1. Reaches({k}, s, r)
    BY <1>1, <1>2, <1>3, <1>5, SetReaches
  <2> QED BY <1>5, <2>1 DEF Writes, Set
<1>6. ASSUME NEW k \in Keys, NEW c \in TextCosts, SetNX(k, c)
      PROVE  Reaches({k}, s, r) /\ Writes(k) /\ UNCHANGED <<policy, cap>>
  <2>1. Reaches({k}, s, r)
    BY <1>1, <1>2, <1>3, <1>6, SetNXReaches
  <2> QED BY <1>6, <2>1 DEF Writes, SetNX
<1>7. ASSUME NEW k \in Keys, NEW j \in Keys, NEW c \in TextCosts, NEW d \in TextCosts, MSet(k, j, c, d)
      PROVE  /\ Reaches({k, j}, s, r) /\ Drops({k, j}, s, r)
             /\ Writes(k) /\ Writes(j) /\ UNCHANGED <<policy, cap>>
  <2>1. Reaches({k, j}, s, r) /\ Drops({k, j}, s, r)
    BY <1>1, <1>2, <1>3, <1>7, MSetReaches
  <2>2. Writes(k) /\ Writes(j)
    BY <1>7 DEF Writes
  <2> QED BY <1>7, <2>1, <2>2 DEF MSet
<1>8. ASSUME NEW k \in Keys, NEW n \in 0..MaxText, AppendText(k, n)
      PROVE  Reaches({k}, s, r) /\ Writes(k) /\ UNCHANGED <<policy, cap>>
  <2>1. Reaches({k}, s, r)
    BY <1>1, <1>2, <1>3, <1>8, AppendReaches
  <2> QED BY <1>8, <2>1 DEF Writes, AppendText
<1>9. ASSUME NEW k \in Keys, NEW t \in Collections, NEW seq \in Additions, Add(t, k, seq)
      PROVE  Reaches({k}, s, r) /\ Writes(k) /\ UNCHANGED <<policy, cap>>
  <2>1. Reaches({k}, s, r)
    BY <1>1, <1>2, <1>3, <1>9, AddReaches
  <2> QED BY <1>9, <2>1 DEF Writes, Add
<1>10. ASSUME NEW k \in Keys, NEW t \in Collections, NEW E \in SUBSET Fields, Take(t, k, E)
       PROVE  Calm(s, r) /\ UNCHANGED <<policy, cap>>
  <2>1. Calm(s, r)
    BY <1>1, <1>2, <1>3, <1>10, TakeCalm
  <2> QED BY <1>10, <2>1 DEF Take
<1>11. ASSUME NEW k \in Keys, NEW t \in Types, Read(t, k)
       PROVE  Calm(s, r) /\ UNCHANGED <<policy, cap>>
  <2>1. Calm(s, r)
    BY <1>1, <1>2, <1>3, <1>11, ReadCalm
  <2> QED BY <1>11, <2>1 DEF Read
<1>12. ASSUME NEW k \in Keys, Del(k) PROVE Calm(s, r) /\ UNCHANGED <<policy, cap>>
  BY <1>1, <1>2, <1>3, <1>12, DeletedCalm DEF Del
<1>13. ASSUME NEW k \in Keys, Expire(k) \/ Persist(k) PROVE Calm(s, r) /\ UNCHANGED <<policy, cap>>
  <2>1. Calm(s, r)
    BY <1>1, <1>2, <1>3, <1>13, ExpireCalm
  <2> QED BY <1>13, <2>1 DEF Expire, Persist
<1>14. ASSUME NEW k \in Keys, TimePasses(k) PROVE Calm(s, r) /\ UNCHANGED <<policy, cap>>
  <2>1. Calm(s, r)
    BY <1>1, <1>2, <1>3, <1>14, TimeCalm
  <2> QED BY <1>14, <2>1 DEF TimePasses
<1>15. ASSUME FlushDb PROVE Calm(s, r) /\ UNCHANGED <<policy, cap>>
  <2>1. Calm(s, r)
    BY <1>1, <1>2, <1>3, <1>15, FlushCalm
  <2> QED BY <1>15, <2>1 DEF FlushDb
<1>16. ASSUME Sweep PROVE Calm(s, r) /\ UNCHANGED <<policy, cap>>
  <2>1. Calm(s, r)
    BY <1>1, <1>2, <1>3, <1>16, SweepCalm
  <2> QED BY <1>16, <2>1 DEF Sweep
<1>17. ASSUME Restart PROVE Calm(s, r) /\ UNCHANGED <<policy, cap>>
  <2>1. Calm(s, r)
    BY <1>1, <1>2, <1>3, <1>17, RestartCalm
  <2> QED BY <1>17, <2>1 DEF Restart
<1>18. ASSUME SetPolicy \/ SetCap PROVE Calm(s, r) /\ policy' \in Policies /\ cap' \in Caps
  BY <1>1, <1>2, <1>3, <1>4, <1>18 DEF SetPolicy, SetCap
<1> DEFINE Step == /\ policy' \in Policies /\ cap' \in Caps
                   /\ \/ Calm(s, r)
                      \/ \E w \in Keys : Reaches({w}, s, r) /\ Writes(w)
                      \/ \E j, k \in Keys : /\ Reaches({j, k}, s, r) /\ Drops({j, k}, s, r)
                                            /\ Writes(j) /\ Writes(k)
<1>19. UNCHANGED <<policy, cap>> => policy' \in Policies /\ cap' \in Caps
  BY <1>1
<1>20. Calm(s, r) /\ UNCHANGED <<policy, cap>> => Step
  BY <1>19
<1>21. \A w \in Keys : Reaches({w}, s, r) /\ Writes(w) /\ UNCHANGED <<policy, cap>> => Step
  BY <1>19
<1>22. \A j, k \in Keys : /\ Reaches({j, k}, s, r) /\ Drops({j, k}, s, r)
                         /\ Writes(j) /\ Writes(k) /\ UNCHANGED <<policy, cap>> => Step
  BY <1>19
<1>23. Calm(s, r) /\ policy' \in Policies /\ cap' \in Caps => Step
  OBVIOUS
<1> HIDE DEF Step
<1>24. ASSUME NEW k \in Keys, NEW c \in TextCosts,
              \/ \E ttl \in {"ahead", "none", "keep"} : Set(k, c, ttl)
              \/ SetNX(k, c)
              \/ \E j \in Keys, d \in TextCosts : MSet(k, j, c, d)
       PROVE  Step
  <2>1. CASE \E ttl \in {"ahead", "none", "keep"} : Set(k, c, ttl)
    <3>1. PICK ttl \in {"ahead", "none", "keep"} : Set(k, c, ttl)
      BY <2>1
    <3>2. Reaches({k}, s, r) /\ Writes(k) /\ UNCHANGED <<policy, cap>>
      BY <3>1, <1>5
    <3> QED BY <3>2, <1>21
  <2>2. CASE SetNX(k, c)
    BY <2>2, <1>6, <1>21
  <2>3. CASE \E j \in Keys, d \in TextCosts : MSet(k, j, c, d)
    <3>1. PICK j \in Keys, d \in TextCosts : MSet(k, j, c, d)
      BY <2>3
    <3>2. /\ Reaches({k, j}, s, r) /\ Drops({k, j}, s, r)
          /\ Writes(k) /\ Writes(j) /\ UNCHANGED <<policy, cap>>
      BY <3>1, <1>7
    <3> QED BY <3>2, <1>22
  <2> QED BY <1>24, <2>1, <2>2, <2>3
<1>25. ASSUME NEW k \in Keys, NEW t \in Collections,
              \/ \E seq \in Additions : Add(t, k, seq)
              \/ \E E \in SUBSET Fields : Take(t, k, E)
       PROVE  Step
  <2>1. CASE \E seq \in Additions : Add(t, k, seq)
    BY <2>1, <1>9, <1>21
  <2>2. CASE \E E \in SUBSET Fields : Take(t, k, E)
    BY <2>2, <1>10, <1>20
  <2> QED BY <1>25, <2>1, <2>2
<1>26. ASSUME NEW k \in Keys, \E n \in 0..MaxText : AppendText(k, n) PROVE Step
  BY <1>26, <1>8, <1>21
<1>27. ASSUME NEW k \in Keys, \E t \in Types : Read(t, k) PROVE Step
  BY <1>27, <1>11, <1>20
<1>28. ASSUME NEW k \in Keys, Del(k) \/ Expire(k) \/ Persist(k) \/ TimePasses(k) PROVE Step
  BY <1>28, <1>12, <1>13, <1>14, <1>20
<1>29. ASSUME FlushDb \/ Sweep \/ SetPolicy \/ SetCap \/ Restart PROVE Step
  BY <1>15, <1>16, <1>17, <1>18, <1>20, <1>23, <1>29
<1>30. Step
  BY <1>24, <1>25, <1>26, <1>27, <1>28, <1>29 DEF Next
<1> QED BY <1>2, <1>3, <1>30 DEF Step

(* At the end of every step, and of every method inside a command, keys,   *)
(* values, LRU list and usedBytes agree as Good says.                      *)
THEOREM KeyspaceInvHolds == Spec => []KeyspaceInv
<1>1. ASSUME Init PROVE KeyspaceInv
  <2>1. /\ ks \in State /\ (\A k \in Keys : ks.types[k] = None)
        /\ (\A t \in Types, k \in Keys : ks.data[t][k] = NoObject)
        /\ ks.lru = <<>> /\ ks.used = 0 /\ ks.slips = {}
    BY <1>1, NothingIn DEF Init, State, Expiries
  <2>2. Shaped(ks)
    BY <2>1, NothingIn DEF Shaped, Values
  <2>3. Listed(ks) /\ OwnedIn(ks)
    BY <2>1, Constants DEF Listed, OwnedIn
  <2>4. Accounted(ks)
    BY <2>1, HeldNothing DEF Accounted
  <2> QED BY <1>1, <2>2, <2>3, <2>4 DEF Init, KeyspaceInv, Good
<1>2. ASSUME KeyspaceInv, [Next]_vars PROVE KeyspaceInv'
  <2>1. CASE Next
    <3>1. Good(ks')
      BY <1>2, <2>1, Steps DEF Calm, Reaches
    <3> QED BY <1>2, <2>1, <3>1, Steps DEF KeyspaceInv
  <2>2. CASE UNCHANGED vars
    BY <1>2, <2>2 DEF KeyspaceInv, vars
  <2> QED BY <1>2, <2>1, <2>2
<1> QED BY <1>1, <1>2, PTL DEF Spec

(* Every registry, store and list has the shape the code gives it, and the *)
(* LRU list has no key twice.                                              *)
THEOREM KeyspaceTypeCorrect == Spec => []TypeOK
<1>1. ASSUME KeyspaceInv PROVE TypeOK
  <2>1. /\ ks \in State /\ IsInjective(ks.lru)
        /\ \A t \in Types, k \in Keys : ks.data[t][k] \in Values(t)
    BY <1>1 DEF KeyspaceInv, Good, Shaped
  <2>2. /\ ks.types \in [Keys -> Types \cup {None}] /\ ks.ttl \in [Keys -> Expiries]
        /\ ks.lru \in Seq(Keys) /\ ks.used \in Nat /\ ks.slips \subseteq Reasons
    BY <2>1 DEF State
  <2>3. \A t \in Types : ks.data[t] \in [Keys -> Values(t)]
    <3>1. \A t \in Types : ks.data[t] = [k \in Keys |-> ks.data[t][k]]
      BY <2>1 DEF State
    <3> QED BY <2>1, <3>1
  <2>4. ks.data["string"] \in [Keys -> {NoObject} \cup TextCosts]
    <3>1. "string" \in Types /\ Values("string") = {NoObject} \cup TextCosts
      BY Constants DEF Values
    <3> QED BY <2>3, <3>1
  <2>5. \A t \in Collections : ks.data[t] \in [Keys -> {NoObject} \cup SUBSET Fields]
    <3>1. \A t \in Collections : t \in Types /\ Values(t) = {NoObject} \cup SUBSET Fields
      BY Constants DEF Values
    <3> QED BY <2>3, <3>1
  <2> QED BY <1>1, <2>1, <2>2, <2>4, <2>5 DEF TypeOK, KeyspaceInv, Expiries, Reasons
<1> QED BY <1>1, KeyspaceInvHolds, PTL

(* Whatever sequence of evictions, failed writes, drained collections and  *)
(* restarts has passed, eviction finds every registered key.               *)
THEOREM EvictableHolds == Spec => []Evictable
<1>1. ASSUME KeyspaceInv PROVE Evictable
  BY <1>1 DEF KeyspaceInv, Good, Listed, Evictable
<1> QED BY <1>1, KeyspaceInvHolds, PTL

(* Unless a write was stored for a key its own charge had evicted, every   *)
(* value has its registered type and no key has values of two types.       *)
THEOREM OneOwnerHolds == Spec => []OneOwner
<1>1. ASSUME KeyspaceInv PROVE OneOwner
  BY <1>1 DEF KeyspaceInv, Good, OwnedIn, OneOwner, Owned
<1> QED BY <1>1, KeyspaceInvHolds, PTL

(* usedBytes is what the stores hold, until one of the two known slips: a  *)
(* key evicted by its own write, or an empty string appended to.           *)
THEOREM BytesExactHolds == Spec => []BytesExact
<1>1. ASSUME KeyspaceInv PROVE BytesExact
  BY <1>1 DEF KeyspaceInv, Good, Accounted, BytesExact
<1> QED BY <1>1, KeyspaceInvHolds, PTL

(* After a command that makes a value longer, what is held is under        *)
(* maxmemory, although the cap may have been lowered before.               *)
THEOREM CapKeptHolds == Spec => CapKept
<1> DEFINE Kept == (\E k \in Keys : Grows(k)) /\ "own" \notin ks'.slips => Held(ks') <= cap
<1>1. ASSUME KeyspaceInv, KeyspaceInv', [Next]_vars PROVE [Kept]_vars
  <2> SUFFICES ASSUME Next, \E k \in Keys : Grows(k), "own" \notin ks'.slips
               PROVE  Held(ks') <= cap
    BY <1>1
  <2>1. Good(ks) /\ Good(ks') /\ cap \in Nat
    BY <1>1, KeyspaceAssumption DEF KeyspaceInv
  <2>2. ~NoGrowth(ks, ks')
    <3>1. PICK k \in Keys, t \in Types : Bytes(t, ks'.data[t][k]) > Bytes(t, ks.data[t][k])
      BY DEF Grows
    <3>2. Bytes(t, ks'.data[t][k]) \in Nat /\ Bytes(t, ks.data[t][k]) \in Nat
      BY <2>1, BytesAre DEF Good, Shaped
    <3> QED BY <3>1, <3>2 DEF NoGrowth
  <2>3. ks'.used <= cap
    BY <1>1, <2>2, Steps DEF Calm, Reaches, Bound
  <2>4. ks'.used >= Held(ks') /\ Held(ks') \in Nat /\ ks'.used \in Nat
    BY <2>1, HeldNat DEF Good, Accounted, Shaped, State
  <2> QED BY <2>1, <2>3, <2>4
<1> QED BY <1>1, KeyspaceInvHolds, PTL DEF Spec, CapKept

\* A step that adds to k: no other key may have grown, and s and r differ.
LEMMA Growing ==
    ASSUME NEW s, NEW r, Good(s), Good(r), NEW k \in Keys, NEW t \in Types,
           Bytes(t, r.data[t][k]) > Bytes(t, s.data[t][k])
    PROVE  ~NoGrowth(s, r) /\ \A W : NoMore(W, s, r) => k \in W
<1>1. Bytes(t, r.data[t][k]) \in Nat /\ Bytes(t, s.data[t][k]) \in Nat
  BY BytesAre DEF Good, Shaped
<1>2. ~(Bytes(t, r.data[t][k]) <= Bytes(t, s.data[t][k]))
  BY <1>1
<1> QED BY <1>2 DEF NoGrowth, NoMore

\* A key outside W that the step drops, while others grow, was evicted in order.
LEMMA DroppedOutside ==
    ASSUME NEW s, NEW r, Good(s), NEW W, Reaches(W, s, r),
           NEW j \in Keys, j \notin W, s.types[j] # None, r.types[j] = None
    PROVE  /\ MayGo(s, j)
           /\ \A x \in Keys : Contains(r.lru, x) /\ MayGo(s, x) /\ Before(s.lru, x, j) => x \in W
<1>1. Contains(s.lru, j)
  BY DEF Good, Listed
<1>2. ~Contains(r.lru, j)
  BY DEF Reaches, Same, Out
<1> QED BY <1>1, <1>2 DEF Reaches

(* Whatever a write evicts, the policy lets go, and it goes before every   *)
(* candidate used later but those the write itself uses.                   *)
THEOREM EvictionOrderHolds == Spec => EvictionOrder
<1> DEFINE Ordering(i) ==
      LET j == ks.lru[i]
      IN  (ks.types[j] # None /\ ks'.types[j] = None /\ \E k \in Keys \ {j} : Grows(k)) =>
            /\ MayEvict(j)
            /\ \A h \in 1..(i - 1) :
                 (MayEvict(ks.lru[h]) /\ Contains(ks'.lru, ks.lru[h])) => Writes(ks.lru[h])
<1>1. ASSUME KeyspaceInv, KeyspaceInv', Next, NEW i \in DOMAIN ks.lru PROVE Ordering(i)
  <2>1. PICK s : s = ks
    OBVIOUS
  <2>2. PICK r : r = ks'
    OBVIOUS
  <2>3. Good(s) /\ Good(r) /\ s.lru \in Seq(Keys) /\ i \in 1..Len(s.lru)
    BY <1>1, <2>1, <2>2 DEF KeyspaceInv, Good, Shaped, State
  <2>4. PICK j \in Keys : j = s.lru[i]
    BY <2>3
  <2> SUFFICES ASSUME s.types[j] # None, r.types[j] = None, NEW k \in Keys \ {j}, Grows(k)
               PROVE  /\ MayGo(s, j)
                      /\ \A h \in 1..(i - 1) :
                           MayGo(s, s.lru[h]) /\ Contains(r.lru, s.lru[h]) => Writes(s.lru[h])
    BY <2>1, <2>2, <2>4 DEF MayGo, MayEvict
  <2>5. ~NoGrowth(s, r) /\ \A W : NoMore(W, s, r) => k \in W
    <3>1. PICK t \in Types : Bytes(t, r.data[t][k]) > Bytes(t, s.data[t][k])
      BY <2>1, <2>2 DEF Grows
    <3> QED BY <2>3, <3>1, Growing
  <2>6. ~Calm(s, r)
    BY <2>5 DEF Calm
  <2>7. ASSUME NEW h \in 1..(i - 1) PROVE s.lru[h] \in Keys /\ Before(s.lru, s.lru[h], j)
    <3>1. h \in 1..Len(s.lru)
      BY <2>3
    <3>2. s.lru[h] \in Keys
      BY <2>3, <3>1
    <3> QED BY <2>3, <2>4, <2>7, <3>2 DEF Before, Ordered
  <2>8. ASSUME NEW W, Reaches(W, s, r), j \notin W, \A w \in W : Writes(w)
        PROVE  /\ MayGo(s, j)
               /\ \A h \in 1..(i - 1) :
                    MayGo(s, s.lru[h]) /\ Contains(r.lru, s.lru[h]) => Writes(s.lru[h])
    BY <2>3, <2>7, <2>8, DroppedOutside
  <2>9. ASSUME NEW w \in Keys, Reaches({w}, s, r), Writes(w)
        PROVE  /\ MayGo(s, j)
               /\ \A h \in 1..(i - 1) :
                    MayGo(s, s.lru[h]) /\ Contains(r.lru, s.lru[h]) => Writes(s.lru[h])
    <3>1. k \in {w}
      BY <2>5, <2>9 DEF Reaches
    <3> QED BY <2>8, <2>9, <3>1
  <2>10. ASSUME NEW u \in Keys, NEW w \in Keys, Reaches({u, w}, s, r), Drops({u, w}, s, r),
                Writes(u), Writes(w)
         PROVE  /\ MayGo(s, j)
                /\ \A h \in 1..(i - 1) :
                     MayGo(s, s.lru[h]) /\ Contains(r.lru, s.lru[h]) => Writes(s.lru[h])
    <3>1. CASE j \notin {u, w}
      BY <2>8, <2>10, <3>1
    <3>2. CASE j \in {u, w}
      <4>1. MayGo(s, j) /\ \A x \in Keys \ {u, w} : Contains(r.lru, x) => ~MayGo(s, x)
        BY <2>5, <2>10, <3>2 DEF Drops
      <4> QED BY <2>7, <2>10, <4>1
    <3> QED BY <3>1, <3>2
  <2> QED BY <1>1, <2>1, <2>2, <2>6, <2>9, <2>10, Steps
<1>2. ASSUME KeyspaceInv, KeyspaceInv', [Next]_vars PROVE [\A i \in DOMAIN ks.lru : Ordering(i)]_vars
  BY <1>1, <1>2
<1> QED BY <1>2, KeyspaceInvHolds, PTL DEF Spec, EvictionOrder
=============================================================================

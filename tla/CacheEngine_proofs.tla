------------------------- MODULE CacheEngine_proofs -------------------------
(***************************************************************************)
(* Proofs about the event-driven engine, for every set of groups, every    *)
(* scenario and every capacity: its inductive invariant CInv, the          *)
(* properties of the runs that follow from it, the refinement of the life  *)
(* cycle, what the lookup loop returns, and the reserve of the admission   *)
(* gate.                                                                   *)
(***************************************************************************)
EXTENDS CacheEngine, PagePool_proofs, WellFoundedInduction

-----------------------------------------------------------------------------
(* The order of the blocks, and the loops that run along it. *)

(* A set of naturals has a least element: induction by the least exception. *)
LEMMA LeastNat ==
  ASSUME NEW S, S \subseteq Nat, S # {}
  PROVE  \E x \in S : \A y \in S : x <= y
<1> DEFINE less == {p \in Nat \X Nat : p[1] < p[2]}
<1>1. IsWellFoundedOn(less, Nat)
  BY NatLessThanWellFounded DEF OpToRel
<1>2. \A x, y \in Nat : <<y, x>> \in less <=> y < x
  OBVIOUS
<1> HIDE DEF less
<1>3. PICK x \in S : \A y \in S : ~ (<<y, x>> \in less)
  BY <1>1, WFMin
<1>4. ASSUME NEW y \in S PROVE x <= y
  <2>1. x \in Nat /\ y \in Nat
    OBVIOUS
  <2>2. ~ (y < x)
    BY <1>2, <1>3, <2>1
  <2> QED
    BY <2>1, <2>2
<1> QED
  BY <1>4

(* The blocks of S before m. *)
Below(S, m) == {q \in S : Before(q, m)}

(* The order of the blocks is total, so places identify them. *)
LEMMA BelowGrows ==
  ASSUME NEW S, IsFiniteSet(S), S \subseteq Int \X Int, NEW a \in S, NEW b \in S, a # b
  PROVE  /\ Cardinality(Below(S, a)) \in Nat
         /\ Cardinality(Below(S, a)) < Cardinality(S)
         /\ Cardinality(Below(S, a)) # Cardinality(Below(S, b))
<1>1. ASSUME NEW x \in S, NEW y \in S, Before(x, y)
      PROVE  Cardinality(Below(S, x)) < Cardinality(Below(S, y))
  <2>1. x \in Below(S, y) /\ x \notin Below(S, x)
    <3>1. x[1] \in Int /\ x[2] \in Int
      OBVIOUS
    <3> QED
      BY <1>1, <3>1 DEF Below, Before
  <2>2. Below(S, x) \subseteq Below(S, y)
    <3>1. ASSUME NEW q \in S, Before(q, x) PROVE Before(q, y)
      <4>1. q[1] \in Int /\ q[2] \in Int /\ x[1] \in Int /\ x[2] \in Int /\ y[1] \in Int /\ y[2] \in Int
        OBVIOUS
      <4> QED
        BY <1>1, <3>1, <4>1 DEF Before
    <3> QED
      BY <3>1 DEF Below
  <2>3. IsFiniteSet(Below(S, y))
    BY FS_Subset DEF Below
  <2>4. /\ Cardinality(Below(S, x)) <= Cardinality(Below(S, y))
        /\ Cardinality(Below(S, y)) = Cardinality(Below(S, x)) => Below(S, x) = Below(S, y)
        /\ IsFiniteSet(Below(S, x))
    BY <2>2, <2>3, FS_Subset
  <2>5. Cardinality(Below(S, x)) \in Nat /\ Cardinality(Below(S, y)) \in Nat
    BY <2>3, <2>4, FS_CardinalityType
  <2> QED
    BY <2>1, <2>4, <2>5
<1>2. Below(S, a) \subseteq S /\ a \notin Below(S, a)
  <2>1. a[1] \in Int /\ a[2] \in Int
    OBVIOUS
  <2> QED
    BY <2>1 DEF Below, Before
<1>3. /\ IsFiniteSet(Below(S, a)) /\ Cardinality(Below(S, a)) <= Cardinality(S)
      /\ (Cardinality(S) = Cardinality(Below(S, a)) => S = Below(S, a))
  BY <1>2, FS_Subset
<1>4. /\ Cardinality(Below(S, a)) \in Nat /\ Cardinality(S) \in Nat
  BY <1>3, FS_CardinalityType
<1>5. IsFiniteSet(Below(S, b)) /\ Cardinality(Below(S, b)) \in Nat
  <2>1. Below(S, b) \in SUBSET S
    BY DEF Below
  <2> QED
    BY <2>1, FS_Subset, FS_CardinalityType
<1>6. Before(a, b) \/ Before(b, a)
  <2>1. a = <<a[1], a[2]>> /\ b = <<b[1], b[2]>>
    OBVIOUS
  <2>2. a[1] \in Int /\ a[2] \in Int /\ b[1] \in Int /\ b[2] \in Int
    OBVIOUS
  <2>3. a[1] # b[1] \/ a[2] # b[2]
    BY <2>1
  <2> QED
    BY <2>2, <2>3 DEF Before
<1> QED
  BY <1>1, <1>2, <1>3, <1>4, <1>5, <1>6

(* InOrder lists every block of a finite set once. *)
LEMMA InOrderFacts ==
  ASSUME NEW S, IsFiniteSet(S), S \subseteq Int \X Int
  PROVE  /\ Cardinality(S) \in Nat
         /\ Len(InOrder(S)) = Cardinality(S)
         /\ InOrder(S) \in [1 .. Cardinality(S) -> S]
         /\ IsInjective(InOrder(S))
         /\ \A m \in S : \E k \in 1 .. Cardinality(S) : InOrder(S)[k] = m
<1> DEFINE n == Cardinality(S)
           T == 0 .. n - 1
           rank == [m \in S |-> Cardinality(Below(S, m))]
           o == InOrder(S)
<1>1. n \in Nat
  BY FS_CardinalityType
<1>2. ASSUME NEW m \in S PROVE rank[m] \in T
  <2>1. CASE \E b \in S : b # m
    <3>1. Cardinality(Below(S, m)) \in Nat /\ Cardinality(Below(S, m)) < n
      BY <2>1, BelowGrows
    <3> QED
      BY <1>1, <3>1
  <2>2. CASE ~ \E b \in S : b # m
    <3>1. S = {m}
      BY <2>2
    <3>2. n = 1
      BY <3>1, FS_Singleton
    <3>3. m[1] \in Int /\ m[2] \in Int
      OBVIOUS
    <3>4. Below(S, m) = {}
      BY <3>1, <3>3 DEF Below, Before
    <3> QED
      BY <3>2, <3>4, FS_EmptySet
  <2> QED
    BY <2>1, <2>2
<1>3. rank \in [S -> T] /\ \A a, b \in S : a # b => rank[a] # rank[b]
  BY <1>2, BelowGrows
<1>4. IsFiniteSet(T) /\ Cardinality(T) = n
  <2>1. 0 \in Int /\ n - 1 \in Int
    BY <1>1
  <2> QED
    BY <1>1, <2>1, FS_Interval
<1>5. rank \in Surjection(S, T)
  <2>1. rank \in Injection(S, T)
    BY <1>3 DEF Injection, IsInjective
  <2> QED
    BY <2>1, <1>4, FS_Injection
<1>6. \A k \in T : \E m \in S : rank[m] = k
  BY <1>5 DEF Surjection
<1>7. o = [k \in 1 .. n |-> CHOOSE m \in S : rank[m] = k - 1]
  <2>1. \A m \in S : rank[m] = Cardinality({q \in S : Before(q, m)})
    BY DEF Below
  <2> QED
    BY <2>1 DEF InOrder
<1> HIDE DEF rank
<1>8. ASSUME NEW k \in 1 .. n PROVE o[k] \in S /\ rank[o[k]] = k - 1
  <2>1. k - 1 \in T
    BY <1>1
  <2>2. o[k] = CHOOSE m \in S : rank[m] = k - 1
    BY <1>7
  <2> QED
    BY <1>6, <2>1, <2>2
<1>9. ASSUME NEW m \in S PROVE \E k \in 1 .. n : o[k] = m
  <2>1. rank[m] \in T
    BY <1>2
  <2>2. rank[m] + 1 \in 1 .. n /\ (rank[m] + 1) - 1 = rank[m]
    BY <1>1, <2>1
  <2>3. o[rank[m] + 1] \in S /\ rank[o[rank[m] + 1]] = rank[m]
    BY <1>8, <2>2
  <2>4. o[rank[m] + 1] = m
    BY <1>3, <2>3
  <2> QED
    BY <2>2, <2>4
<1>10. o \in [1 .. n -> S]
  BY <1>7, <1>8
<1>11. IsInjective(o)
  <2>1. DOMAIN o = 1 .. n
    BY <1>10
  <2>2. ASSUME NEW j \in 1 .. n, NEW k \in 1 .. n, o[j] = o[k] PROVE j = k
    <3>1. j - 1 = k - 1
      BY <1>8, <2>2
    <3> QED
      BY <1>1, <3>1
  <2> QED
    BY <2>1, <2>2 DEF IsInjective
<1>12. Len(o) = n
  BY <1>1, <1>10, LenProperties
<1> QED
  BY <1>1, <1>9, <1>10, <1>11, <1>12

-----------------------------------------------------------------------------
(* Allocation of the missing blocks. *)

(* What one Allocate does to the references, the keys and the room. *)
LEMMA AllocateEffect ==
  ASSUME NEW pool, SoundPool(pool), Available(pool) > 0
  PROVE  LET p == NextPage(pool)
             q == Allocate(pool)
         IN  /\ p \in Pages /\ pool.refs[p] = 0
             /\ SoundPool(q)
             /\ q.refs = [pool.refs EXCEPT ![p] = 1]
             /\ q.key = [pool.key EXCEPT ![p] = NoKey]
             /\ Available(q) = Available(pool) - 1
             /\ q.removed = {} => pool.removed = {} /\ pool.key[p] = NoKey
<1> DEFINE p == NextPage(pool)
           q == Allocate(pool)
           H(x) == {y \in Pages : x.refs[y] > 0}
<1>1. p \in Pages /\ pool.refs[p] = 0
  BY NextPageFacts
<1>2. SoundPool(q)
  BY AllocateSound
<1>3. /\ q.refs = [pool.refs EXCEPT ![p] = 1]
      /\ q.key = [pool.key EXCEPT ![p] = NoKey]
      /\ q.removed = IF pool.key[p] = NoKey THEN pool.removed ELSE pool.removed \cup {pool.key[p]}
  <2>1. pool \in PoolState
    BY DEF SoundPool
  <2> QED
    BY <2>1 DEF PoolState, Allocate
<1>4. Available(q) = Available(pool) - 1
  <2>1. /\ Available(pool) = Total - 1 - Cardinality(H(pool))
        /\ Available(q) = Total - 1 - Cardinality(H(q))
    BY <1>2, SoundAccounted DEF Accounted
  <2>2. H(q) = H(pool) \cup {p} /\ p \notin H(pool)
    <3>1. pool.refs \in [Pages -> Nat]
      BY DEF SoundPool, PoolState
    <3> QED
      BY <1>1, <1>3, <3>1
  <2>3. IsFiniteSet(Pages)
    <3>1. 1 \in Int /\ Total - 1 \in Int
      BY TotalAssumption
    <3> QED
      BY <3>1, FS_Interval DEF Pages
  <2>4. IsFiniteSet(H(pool))
    <3>1. H(pool) \in SUBSET Pages
      OBVIOUS
    <3> QED
      BY <2>3, <3>1, FS_Subset
  <2>5. Cardinality(H(q)) = Cardinality(H(pool)) + 1
    BY <2>2, <2>4, FS_AddElement
  <2>6. Cardinality(H(pool)) \in Nat
    BY <2>4, FS_CardinalityType
  <2> QED
    BY <2>1, <2>5, <2>6, TotalAssumption
<1> HIDE DEF p, q
<1> QED
  BY <1>1, <1>2, <1>3, <1>4 DEF p, q

(***************************************************************************)
(* The allocation loop, block by block: the pools and the pages it goes    *)
(* through.                                                                *)
(***************************************************************************)
LEMMA AllocateRun ==
  ASSUME NEW pool, NEW held, NEW missing, Len(InOrder(missing)) \in Nat
  PROVE  LET order == InOrder(missing)
             n == Len(order)
         IN  \E f : /\ f[0] = [pool |-> pool, held |-> held, ok |-> TRUE]
                    /\ \A k \in 1 .. n : f[k] = AllocateBlock(f[k - 1], order[k])
                    /\ AllocateAll(pool, held, missing) = f[n]
<1> DEFINE order == InOrder(missing)
           n == Len(order)
           base == [pool |-> pool, held |-> held, ok |-> TRUE]
           Run(f, N) == f = [k \in 0 .. N |-> IF k = 0 THEN base ELSE AllocateBlock(f[k - 1], order[k])]
           bad == {N \in Nat : ~ \E f : Run(f, N)}
<1>1. AllocateAll(pool, held, missing) = (CHOOSE f : Run(f, n))[n]
  BY DEF AllocateAll
<1> HIDE DEF order, base
<1>2. bad = {}
  <2> SUFFICES ASSUME bad # {} PROVE FALSE
    OBVIOUS
  <2>1. PICK N \in bad : \A y \in bad : N <= y
    BY LeastNat
  <2>2. CASE N = 0
    <3> DEFINE f == [k \in {0} |-> base]
    <3>1. Run(f, 0)
      OBVIOUS
    <3> QED
      BY <3>1, <2>1, <2>2
  <2>3. CASE N # 0
    <3>1. N - 1 \in Nat /\ N \in Nat /\ ~ (N <= N - 1)
      BY <2>1, <2>3
    <3>2. PICK f : Run(f, N - 1)
      BY <3>1, <2>1
    <3> DEFINE g == [k \in 0 .. N |-> IF k = N THEN AllocateBlock(f[N - 1], order[N]) ELSE f[k]]
    <3>3. ASSUME NEW k \in 0 .. N
          PROVE g[k] = IF k = 0 THEN base ELSE AllocateBlock(g[k - 1], order[k])
      <4>1. CASE k = N
        <5>1. k - 1 \in 0 .. N /\ k - 1 # N /\ k # 0
          BY <3>1, <2>3, <4>1
        <5>2. g[k - 1] = f[N - 1]
          BY <5>1, <4>1
        <5> QED
          BY <5>1, <5>2, <4>1
      <4>2. CASE k # N
        <5>1. k \in 0 .. N - 1 /\ k # 0 => k - 1 \in 0 .. N /\ k - 1 # N
          BY <3>1, <4>2
        <5>2. k \in 0 .. N - 1
          BY <3>1, <4>2
        <5>3. f[k] = IF k = 0 THEN base ELSE AllocateBlock(f[k - 1], order[k])
          BY <3>2, <5>2
        <5>4. g[k] = f[k] /\ (k # 0 => g[k - 1] = f[k - 1])
          BY <5>1, <5>2, <4>2
        <5> QED
          BY <5>3, <5>4
      <4> QED
        BY <4>1, <4>2
    <3>4. Run(g, N)
      <4> DEFINE h == [k \in 0 .. N |-> IF k = 0 THEN base ELSE AllocateBlock(g[k - 1], order[k])]
      <4>1. \A k \in 0 .. N : g[k] = h[k]
        BY <3>3
      <4>2. g = h
        BY <4>1
      <4> QED
        BY <4>2
    <3> QED
      BY <3>4, <2>1
  <2> QED
    BY <2>2, <2>3
<1>3. PICK f : f = CHOOSE h : Run(h, n)
  OBVIOUS
<1>4. \E h : Run(h, n)
  BY <1>2
<1>5. Run(f, n)
  BY <1>3, <1>4
<1>6. f[0] = base /\ \A k \in 1 .. n : f[k] = AllocateBlock(f[k - 1], order[k])
  <2>1. n \in Nat
    BY DEF order
  <2>2. \A k \in 0 .. n : f[k] = IF k = 0 THEN base ELSE AllocateBlock(f[k - 1], order[k])
    BY <1>5
  <2>3. 0 \in 0 .. n /\ \A k \in 1 .. n : k \in 0 .. n /\ k # 0
    BY <2>1
  <2> HIDE DEF n
  <2> QED
    BY <2>2, <2>3
<1> QED
  BY <1>1, <1>3, <1>6 DEF order, base

(* The room of a sound pool is a number, and at least 0. *)
LEMMA SoundRoom ==
  ASSUME NEW pool, SoundPool(pool)
  PROVE  Available(pool) \in Nat
<1>1. pool \in PoolState
  BY DEF SoundPool
<1>2. /\ pool.nextId \in 1 .. Total
      /\ Len(pool.free) \in Nat /\ Len(pool.emptyFree) \in Nat
  BY <1>1, LenProperties DEF PoolState
<1> QED
  BY <1>2, TotalAssumption DEF Available

(* The state of the allocation loop after the blocks taken so far. *)
Taken(pool, held, a, S) ==
  /\ a = [pool |-> a.pool, ok |-> TRUE, held |-> a.held]
  /\ SoundPool(a.pool)
  /\ a.held = [m \in DOMAIN held \cup S |-> a.held[m]]
  /\ \A m \in DOMAIN held \ S : a.held[m] = held[m]
  /\ \A m \in S : /\ a.held[m] \in Pages /\ pool.refs[a.held[m]] = 0
                  /\ a.pool.refs[a.held[m]] = 1 /\ a.pool.key[a.held[m]] = NoKey
  /\ \A m, q \in S : a.held[m] = a.held[q] => m = q
  /\ \A p \in Pages : (\A m \in S : a.held[m] # p) =>
       a.pool.refs[p] = pool.refs[p] /\ a.pool.key[p] = pool.key[p]
  /\ a.pool.removed = {} =>
       pool.removed = {} /\ \A m \in S : pool.key[a.held[m]] = NoKey

(***************************************************************************)
(* One more block: the loop takes a page that nobody holds, and the room   *)
(* shrinks by one.                                                         *)
(***************************************************************************)
LEMMA TakenStep ==
  ASSUME NEW pool, SoundPool(pool), NEW held, NEW a, NEW S, Taken(pool, held, a, S),
         NEW m, m \notin S, Available(a.pool) > 0
  PROVE  /\ Taken(pool, held, AllocateBlock(a, m), S \cup {m})
         /\ Available(AllocateBlock(a, m).pool) = Available(a.pool) - 1
<1> DEFINE p == NextPage(a.pool)
           q == Allocate(a.pool)
           h == [x \in DOMAIN a.held \cup {m} |-> IF x = m THEN p ELSE a.held[x]]
           b == [pool |-> q, ok |-> TRUE, held |-> h]
<1>1. /\ p \in Pages /\ a.pool.refs[p] = 0
      /\ SoundPool(q)
      /\ q.refs = [a.pool.refs EXCEPT ![p] = 1]
      /\ q.key = [a.pool.key EXCEPT ![p] = NoKey]
      /\ Available(q) = Available(a.pool) - 1
      /\ q.removed = {} => a.pool.removed = {} /\ a.pool.key[p] = NoKey
  <2>1. SoundPool(a.pool)
    BY DEF Taken
  <2> QED
    BY <2>1, AllocateEffect
<1>2. a.pool.refs \in [Pages -> Nat] /\ a.pool.key \in [Pages -> Keys \cup {NoKey}]
  BY DEF Taken, SoundPool, PoolState
<1>3. AllocateBlock(a, m) = b
  <2>1. a.ok /\ Available(a.pool) # 0
    <3>1. a.ok = TRUE
      BY DEF Taken
    <3> QED
      BY <3>1
  <2> QED
    BY <2>1 DEF AllocateBlock
<1> HIDE DEF p, q
<1>4. DOMAIN a.held = DOMAIN held \cup S
  BY DEF Taken
<1>5. /\ h = [x \in DOMAIN held \cup (S \cup {m}) |-> h[x]]
      /\ h[m] = p
      /\ \A x \in (DOMAIN held \cup S) \ {m} : h[x] = a.held[x]
  BY <1>4
<1> HIDE DEF h
<1>6. \A x \in S : h[x] = a.held[x] /\ h[x] # p
  <2>1. \A x \in S : a.held[x] \in Pages /\ a.pool.refs[a.held[x]] = 1
    BY DEF Taken
  <2> QED
    BY <1>1, <1>5, <2>1
<1>7. pool.refs[p] = 0 /\ pool.key[p] = a.pool.key[p]
  <2>1. \A x \in S : a.held[x] # p
    BY <1>6
  <2> QED
    BY <1>1, <2>1 DEF Taken
<1>8. b.pool = q /\ b.ok = TRUE /\ b.held = h /\ b = [pool |-> b.pool, ok |-> TRUE, held |-> b.held]
  OBVIOUS
<1>9. \A x \in DOMAIN held \ (S \cup {m}) : h[x] = held[x]
  BY <1>5 DEF Taken
<1>10. ASSUME NEW x \in S \cup {m}
       PROVE  h[x] \in Pages /\ pool.refs[h[x]] = 0 /\ q.refs[h[x]] = 1 /\ q.key[h[x]] = NoKey
  <2>1. CASE x = m
    BY <1>1, <1>2, <1>5, <1>7, <2>1
  <2>2. CASE x \in S
    <3>1. /\ a.held[x] \in Pages /\ pool.refs[a.held[x]] = 0
          /\ a.pool.refs[a.held[x]] = 1 /\ a.pool.key[a.held[x]] = NoKey
      BY <2>2 DEF Taken
    <3> QED
      BY <1>1, <1>2, <1>6, <2>2, <3>1
  <2> QED
    BY <2>1, <2>2
<1>11. \A x, y \in S \cup {m} : h[x] = h[y] => x = y
  <2>1. \A x, y \in S : a.held[x] = a.held[y] => x = y
    BY DEF Taken
  <2> QED
    BY <1>5, <1>6, <2>1
<1>12. ASSUME NEW x \in Pages, \A y \in S \cup {m} : h[y] # x
       PROVE  q.refs[x] = pool.refs[x] /\ q.key[x] = pool.key[x]
  <2>1. x # p /\ \A y \in S : a.held[y] # x
    BY <1>5, <1>6, <1>12
  <2>2. a.pool.refs[x] = pool.refs[x] /\ a.pool.key[x] = pool.key[x]
    BY <2>1 DEF Taken
  <2> QED
    BY <1>1, <1>2, <2>1, <2>2
<1>13. q.removed = {} => pool.removed = {} /\ \A x \in S \cup {m} : pool.key[h[x]] = NoKey
  <2> SUFFICES ASSUME q.removed = {} PROVE pool.removed = {} /\ \A x \in S \cup {m} : pool.key[h[x]] = NoKey
    OBVIOUS
  <2>1. a.pool.removed = {} /\ a.pool.key[p] = NoKey
    BY <1>1
  <2>2. pool.removed = {} /\ \A x \in S : pool.key[a.held[x]] = NoKey
    BY <2>1 DEF Taken
  <2> QED
    BY <1>5, <1>6, <1>7, <2>1, <2>2
<1> HIDE DEF b
<1>14. Taken(pool, held, b, S \cup {m})
  <2>1. b = [pool |-> b.pool, ok |-> TRUE, held |-> b.held] /\ SoundPool(b.pool)
    BY <1>1, <1>8
  <2>2. /\ b.held = [x \in DOMAIN held \cup (S \cup {m}) |-> b.held[x]]
        /\ \A x \in DOMAIN held \ (S \cup {m}) : b.held[x] = held[x]
    BY <1>5, <1>8, <1>9
  <2>3. /\ \A x \in S \cup {m} : /\ b.held[x] \in Pages /\ pool.refs[b.held[x]] = 0
                             /\ b.pool.refs[b.held[x]] = 1 /\ b.pool.key[b.held[x]] = NoKey
        /\ \A x, y \in S \cup {m} : b.held[x] = b.held[y] => x = y
    BY <1>8, <1>10, <1>11
  <2>4. /\ \A y \in Pages : (\A x \in S \cup {m} : b.held[x] # y) =>
             b.pool.refs[y] = pool.refs[y] /\ b.pool.key[y] = pool.key[y]
        /\ b.pool.removed = {} =>
             pool.removed = {} /\ \A x \in S \cup {m} : pool.key[b.held[x]] = NoKey
    BY <1>8, <1>12, <1>13
  <2> QED
    BY <2>1, <2>2, <2>3, <2>4 DEF Taken
<1> QED
  BY <1>1, <1>3, <1>8, <1>14

(***************************************************************************)
(* A pool with room for every missing block gives each one a page of its   *)
(* own that nobody references, and leaves the other pages as they were.    *)
(***************************************************************************)
LEMMA AllocateAllFacts ==
  ASSUME NEW pool, SoundPool(pool), NEW held, held = [m \in DOMAIN held |-> held[m]],
         NEW S, IsFiniteSet(S), S \subseteq Int \X Int,
         Cardinality(S) <= Available(pool)
  PROVE  Taken(pool, held, AllocateAll(pool, held, S), S)
<1> DEFINE o == InOrder(S)
           n == Cardinality(S)
           D(k) == {o[i] : i \in 1 .. k}
<1>1. /\ n \in Nat /\ Len(o) = n /\ o \in [1 .. n -> S] /\ IsInjective(o)
      /\ \A m \in S : \E k \in 1 .. n : o[k] = m
  BY InOrderFacts
<1>2. Len(o) \in Nat
  BY <1>1
<1>3. PICK f : /\ f[0] = [pool |-> pool, held |-> held, ok |-> TRUE]
               /\ \A k \in 1 .. Len(o) : f[k] = AllocateBlock(f[k - 1], o[k])
               /\ AllocateAll(pool, held, S) = f[Len(o)]
  BY <1>2, AllocateRun
<1> HIDE DEF o
<1> DEFINE Good(k) == /\ Taken(pool, held, f[k], D(k))
                      /\ Available(f[k].pool) = Available(pool) - k
           bad == {k \in 0 .. n : ~ Good(k)}
<1>4. Good(0)
  <2>1. D(0) = {}
    OBVIOUS
  <2> DEFINE a == [pool |-> pool, held |-> held, ok |-> TRUE]
  <2>2. a.pool = pool /\ a.held = held /\ a = [pool |-> a.pool, ok |-> TRUE, held |-> a.held]
    OBVIOUS
  <2>3. f[0] = a
    BY <1>3
  <2> HIDE DEF a
  <2>4. Taken(pool, held, a, {})
    BY <2>2 DEF Taken
  <2>5. Available(pool) \in Int
    BY SoundRoom
  <2> QED
    BY <2>1, <2>2, <2>3, <2>4, <2>5
<1>5. ASSUME NEW k \in 1 .. n, Good(k - 1) PROVE Good(k)
  <2>1. o[k] \in S /\ D(k) = D(k - 1) \cup {o[k]}
    <3>1. 1 .. k = (1 .. k - 1) \cup {k}
      BY <1>1
    <3> QED
      BY <1>1, <3>1
  <2>2. o[k] \notin D(k - 1)
    <3>1. \A i \in 1 .. k - 1 : i \in 1 .. n /\ i # k
      BY <1>1
    <3>2. DOMAIN o = 1 .. n
      BY <1>1
    <3> QED
      BY <1>1, <3>1, <3>2 DEF IsInjective
  <2>3. f[k] = AllocateBlock(f[k - 1], o[k])
    BY <1>1, <1>3
  <2>4. Available(f[k - 1].pool) = Available(pool) - (k - 1)
    BY <1>5
  <2>5. Available(pool) \in Int
    BY SoundRoom
  <2>6. Available(f[k - 1].pool) > 0
    BY <1>1, <2>4, <2>5
  <2>7. Taken(pool, held, f[k - 1], D(k - 1))
    BY <1>5
  <2> HIDE DEF D, Good, n
  <2>11. /\ Taken(pool, held, AllocateBlock(f[k - 1], o[k]), D(k - 1) \cup {o[k]})
         /\ Available(AllocateBlock(f[k - 1], o[k]).pool) = Available(f[k - 1].pool) - 1
    BY <2>2, <2>6, <2>7, TakenStep
  <2>8. /\ Taken(pool, held, f[k], D(k))
        /\ Available(f[k].pool) = Available(f[k - 1].pool) - 1
    BY <2>1, <2>3, <2>11
  <2>9. k \in Int
    BY <1>1 DEF n
  <2>10. Available(f[k].pool) = Available(pool) - k
    BY <2>4, <2>5, <2>8, <2>9
  <2> QED
    BY <2>8, <2>10 DEF Good
<1>6. bad = {}
  <2> HIDE DEF Good, n, D
  <2> SUFFICES ASSUME bad # {} PROVE FALSE
    OBVIOUS
  <2>1. bad \subseteq Nat
    BY <1>1 DEF n
  <2>2. PICK k \in bad : \A y \in bad : k <= y
    BY <2>1, LeastNat
  <2>3. k \in 0 .. n /\ n \in Nat /\ k # 0 /\ ~ Good(k)
    BY <1>1, <1>4, <2>2 DEF n
  <2>4. k \in 1 .. n /\ k - 1 \in 0 .. n /\ ~ (k <= k - 1)
    BY <2>3
  <2>5. Good(k - 1)
    BY <2>2, <2>4
  <2> QED
    BY <1>5, <2>3, <2>4, <2>5
<1>7. Good(n)
  <2>1. n \in 0 .. n
    BY <1>1
  <2> HIDE DEF Good, n
  <2> QED
    BY <1>6, <2>1
<1>8. D(n) = S
  BY <1>1
<1> QED
  BY <1>1, <1>3, <1>7, <1>8

-----------------------------------------------------------------------------
(* Lookup hits, releases and publications. *)

(* Pages that carry a key have been handed out; a lookup finds exactly them. *)
LEMMA LookupFacts ==
  ASSUME NEW pool, SoundPool(pool), NEW k \in Keys
  PROVE  /\ Lookup(pool, k) # NoPage =>
              Lookup(pool, k) \in Pages /\ pool.key[Lookup(pool, k)] = k
         /\ \A p \in Pages : pool.key[p] = k => Lookup(pool, k) # NoPage
         /\ NoPage \notin Pages
<1>1. pool.index[k] \in Seq(Pages) /\ Range(pool.index[k]) = {p \in Pages : pool.key[p] = k}
      /\ IsInjective(pool.index[k])
  BY DEF SoundPool, PoolState, IndexedExact
<1>2. NoPage \notin Pages
  BY TotalAssumption DEF NoPage, Pages
<1>3. CASE pool.index[k] = <<>>
  <2>1. Range(pool.index[k]) = {}
    BY <1>3 DEF Range
  <2> QED
    BY <1>1, <1>2, <1>3, <2>1 DEF Lookup
<1>4. CASE pool.index[k] # <<>>
  <2>1. Head(pool.index[k]) \in Range(pool.index[k])
    BY <1>1, <1>4, TailDict
  <2>2. Lookup(pool, k) = Head(pool.index[k])
    BY <1>4 DEF Lookup
  <2> QED
    BY <1>1, <1>2, <2>1, <2>2
<1> QED
  BY <1>3, <1>4

(***************************************************************************)
(* Touching pages that were handed out keeps a pool sound and takes the    *)
(* room of those nobody referenced.                                        *)
(***************************************************************************)
LEMMA TouchAllFacts ==
  ASSUME NEW pool, SoundPool(pool), NEW ps \in SUBSET Pages, \A p \in ps : pool.key[p] # NoKey
  PROVE  LET q == TouchAll(pool, ps)
         IN  /\ SoundPool(q)
             /\ q.key = pool.key /\ q.removed = pool.removed
             /\ \A p \in Pages : q.refs[p] = IF p \in ps THEN pool.refs[p] + 1 ELSE pool.refs[p]
             /\ Available(q) = Available(pool) - Cardinality({p \in ps : pool.refs[p] = 0})
<1> DEFINE q == TouchAll(pool, ps)
           idle == {p \in ps : pool.refs[p] = 0}
           refs1 == [p \in Pages |-> IF p \in ps THEN pool.refs[p] + 1 ELSE pool.refs[p]]
           free1 == Kept(pool.free, Pages \ idle)
           empty1 == Kept(pool.emptyFree, Pages \ idle)
<1>1. pool \in PoolState /\ FreeExact(pool) /\ IndexedExact(pool) /\ UnusedClean(pool)
  BY DEF SoundPool
<1>2. /\ free1 \in Seq(Pages) /\ Range(free1) = Range(pool.free) \cap (Pages \ idle)
      /\ IsInjective(free1)
  BY <1>1, KeptFacts DEF PoolState, FreeExact
<1>3. /\ empty1 \in Seq(Pages) /\ Range(empty1) = Range(pool.emptyFree) \cap (Pages \ idle)
      /\ IsInjective(empty1)
  BY <1>1, KeptFacts DEF PoolState, FreeExact
<1>4. refs1 \in [Pages -> Nat]
  BY <1>1 DEF PoolState
<1>5. q = [pool EXCEPT !.emptyFree = empty1, !.free = free1, !.refs = refs1]
  BY DEF TouchAll
<1>6. \A x \in Pages : /\ refs1[x] = IF x \in ps THEN pool.refs[x] + 1 ELSE pool.refs[x]
                       /\ refs1[x] = 0 <=> pool.refs[x] = 0 /\ x \notin idle
  BY <1>1 DEF PoolState
<1>7. \A x \in ps : x \in Pages /\ x < pool.nextId
  <2>1. ASSUME NEW x \in ps PROVE x < pool.nextId
    <3>1. x \in Int /\ pool.nextId \in Int
      BY <1>1 DEF PoolState, Pages
    <3> QED
      BY <1>1, <3>1 DEF UnusedClean
  <2> QED
    BY <2>1
<1> HIDE DEF refs1, free1, empty1, q
<1>8. /\ q \in PoolState
      /\ q.nextId = pool.nextId /\ q.key = pool.key /\ q.index = pool.index
      /\ q.refs = refs1 /\ q.free = free1 /\ q.emptyFree = empty1 /\ q.removed = pool.removed
  BY <1>1, <1>2, <1>3, <1>4, <1>5 DEF PoolState
<1>9. Idle(q) = Idle(pool) \ idle
  BY <1>6, <1>8 DEF Idle
<1>10. FreeExact(q)
  <2>1. Idle(pool) \subseteq Pages
    BY DEF Idle
  <2> HIDE DEF idle
  <2> QED
    BY <1>1, <1>2, <1>3, <1>8, <1>9, <2>1 DEF FreeExact
<1>11. IndexedExact(q)
  BY <1>1, <1>8 DEF IndexedExact
<1>12. UnusedClean(q)
  <2>1. ASSUME NEW x \in Pages, x >= q.nextId PROVE q.refs[x] = 0 /\ q.key[x] = NoKey
    <3>1. x >= pool.nextId /\ pool.refs[x] = 0 /\ pool.key[x] = NoKey
      BY <1>1, <1>8, <2>1 DEF UnusedClean
    <3>2. x \notin ps
      BY <3>1
    <3> QED
      BY <1>6, <1>8, <3>1, <3>2
  <2> QED
    BY <2>1 DEF UnusedClean
<1>13. SoundPool(q)
  BY <1>8, <1>10, <1>11, <1>12 DEF SoundPool
<1>14. Available(q) = Available(pool) - Cardinality(idle)
  <2> DEFINE H == {p \in Pages : pool.refs[p] > 0}
             J == {p \in Pages : q.refs[p] > 0}
  <2>1. /\ Available(pool) = Total - 1 - Cardinality(H)
        /\ Available(q) = Total - 1 - Cardinality(J)
    BY <1>13, SoundAccounted DEF Accounted
  <2>2. J = H \cup idle /\ H \cap idle = {}
    <3>1. ASSUME NEW x \in Pages
          PROVE /\ q.refs[x] > 0 <=> pool.refs[x] > 0 \/ x \in idle
                /\ ~ (pool.refs[x] > 0 /\ pool.refs[x] = 0)
      <4>1. pool.refs[x] \in Nat /\ q.refs[x] \in Nat
        BY <1>1, <1>8 DEF PoolState
      <4> QED
        BY <1>6, <1>8, <4>1
    <3> QED
      BY <3>1
  <2>3. IsFiniteSet(Pages)
    <3>1. 1 \in Int /\ Total - 1 \in Int
      BY TotalAssumption
    <3> QED
      BY <3>1, FS_Interval DEF Pages
  <2>4. IsFiniteSet(H) /\ IsFiniteSet(idle)
    <3>1. H \in SUBSET Pages /\ idle \in SUBSET Pages
      OBVIOUS
    <3> QED
      BY <2>3, <3>1, FS_Subset
  <2> HIDE DEF H, J, idle
  <2>5. Cardinality(J) = Cardinality(H) + Cardinality(idle) - Cardinality({})
    BY <2>2, <2>4, FS_Union
  <2>6. Cardinality(H) \in Nat /\ Cardinality(idle) \in Nat /\ Cardinality({}) = 0
    BY <2>4, FS_CardinalityType, FS_EmptySet
  <2> QED
    BY <2>1, <2>5, <2>6, TotalAssumption
<1> QED
  BY <1>6, <1>8, <1>13, <1>14 DEF q

(* What the release of a batch does to the references and the keys. *)
LEMMA ReleaseBlocksFacts ==
  ASSUME NEW pool, SoundPool(pool), NEW held, NEW S, IsFiniteSet(S), S \subseteq Int \X Int,
         \A m \in S : held[m] \in Pages /\ pool.refs[held[m]] > 0,
         \A m, q \in S : held[m] = held[q] => m = q
  PROVE  LET q == ReleaseBlocks(pool, held, S)
         IN  /\ SoundPool(q)
             /\ q.key = pool.key /\ q.removed = pool.removed
             /\ \A p \in Pages : q.refs[p] = IF \E m \in S : held[m] = p
                                             THEN pool.refs[p] - 1 ELSE pool.refs[p]
<1> DEFINE o == InOrder(S)
           n == Cardinality(S)
           b == [k \in 1 .. n |-> held[o[n + 1 - k]]]
<1>1. /\ n \in Nat /\ Len(o) = n /\ o \in [1 .. n -> S] /\ IsInjective(o)
      /\ \A m \in S : \E k \in 1 .. n : o[k] = m
  BY InOrderFacts
<1>2. ReleaseBlocks(pool, held, S) = ReleaseMany(pool, b)
  BY <1>1 DEF ReleaseBlocks
<1> HIDE DEF o, n
<1>3. \A k \in 1 .. n : n + 1 - k \in 1 .. n /\ n + 1 - (n + 1 - k) = k
  BY <1>1
<1>4. \A k \in 1 .. n : b[k] \in Pages /\ o[n + 1 - k] \in S
  BY <1>1, <1>3
<1>5. b \in Seq(Pages)
  <2>1. b \in [1 .. n -> Pages]
    BY <1>4
  <2> QED
    BY <1>1, <2>1
<1>6. IsInjective(b)
  <2>1. ASSUME NEW j \in 1 .. n, NEW k \in 1 .. n, b[j] = b[k] PROVE j = k
    <3>1. o[n + 1 - j] = o[n + 1 - k]
      BY <1>4, <2>1
    <3>2. DOMAIN o = 1 .. n
      BY <1>1
    <3>3. n + 1 - j = n + 1 - k
      BY <1>1, <1>3, <3>1, <3>2 DEF IsInjective
    <3>4. n \in Int
      BY <1>1
    <3> QED
      BY <3>3, <3>4
  <2> QED
    BY <2>1 DEF IsInjective
<1>7. Range(b) = {held[m] : m \in S}
  <2>1. Range(b) = {b[k] : k \in 1 .. n}
    BY DEF Range
  <2>2. \A m \in S : \E k \in 1 .. n : b[k] = held[m]
    <3>1. ASSUME NEW m \in S PROVE \E k \in 1 .. n : b[k] = held[m]
      <4>1. PICK k \in 1 .. n : o[k] = m
        BY <1>1
      <4>2. n + 1 - k \in 1 .. n /\ b[n + 1 - k] = held[o[n + 1 - (n + 1 - k)]]
        BY <1>3
      <4> QED
        BY <1>3, <4>1, <4>2
    <3> QED
      BY <3>1
  <2>3. \A k \in 1 .. n : \E m \in S : b[k] = held[m]
    BY <1>4
  <2> HIDE DEF b
  <2> QED
    BY <2>1, <2>2, <2>3
<1> HIDE DEF b
<1>8. \A p \in Range(b) : pool.refs[p] > 0
  BY <1>7
<1>9. SoundPool(ReleaseMany(pool, b))
  BY <1>5, <1>6, <1>8, ReleaseSound
<1>10. pool \in PoolState
  BY DEF SoundPool
<1>11. /\ ReleaseMany(pool, b).key = pool.key /\ ReleaseMany(pool, b).removed = pool.removed
       /\ ReleaseMany(pool, b).refs =
            [p \in Pages |-> IF p \in Range(b) THEN pool.refs[p] - 1 ELSE pool.refs[p]]
  BY <1>10 DEF ReleaseMany, PoolState
<1>12. \A p \in Pages : p \in Range(b) <=> \E m \in S : held[m] = p
  BY <1>7
<1> QED
  BY <1>2, <1>9, <1>11, <1>12

(* The blocks of one group, and the committed blocks that get a key. *)
OfGroup(S, g) == {m \in S : m[1] = g}

(* The committed blocks of r that PublishAll goes through. *)
Publishable(r, target) ==
  {m \in DOMAIN pages[r] : Committed(m, target) /\ Retained(m[1], m[2])}

(* A sequence of groups: its indices are the group ids. *)
LEMMA GroupFacts ==
  /\ Len(Groups) \in Nat /\ GroupIds = 1 .. Len(Groups) /\ IsFiniteSet(GroupIds)
<1>1. Len(Groups) \in Nat /\ DOMAIN Groups = 1 .. Len(Groups)
  BY GroupsAssumption, LenProperties
<1>2. IsFiniteSet(1 .. Len(Groups))
  <2>1. 1 \in Int /\ Len(Groups) \in Int
    BY <1>1
  <2> QED
    BY <2>1, FS_Interval
<1> QED
  BY <1>1, <1>2 DEF GroupIds

(***************************************************************************)
(* release_all and the release of stale blocks: each page of the blocks S  *)
(* loses one reference and nothing else changes in what the pool knows.    *)
(***************************************************************************)
LEMMA ReleaseAllFacts ==
  ASSUME NEW pool, SoundPool(pool), NEW held, NEW S, IsFiniteSet(S), S \subseteq GroupIds \X Int,
         \A m \in S : held[m] \in Pages /\ pool.refs[held[m]] > 0,
         \A m, q \in S : held[m] = held[q] => m = q
  PROVE  LET q == ReleaseAll(pool, held, S)
         IN  /\ SoundPool(q)
             /\ q.key = pool.key /\ q.removed = pool.removed
             /\ \A p \in Pages : q.refs[p] = IF \E m \in S : held[m] = p
                                             THEN pool.refs[p] - 1 ELSE pool.refs[p]
<1> DEFINE n == Len(Groups)
           P(g) == {m \in S : m[1] = g}
           U(g) == {m \in S : m[1] <= g}
<1>1. n \in Nat /\ GroupIds = 1 .. n
  BY GroupFacts
<1>11. PICK out : out = ReleaseAll(pool, held, S)
  OBVIOUS
<1>2. PICK f : /\ f[0] = pool
               /\ \A g \in 1 .. Len(Groups) :
                    f[g] = ReleaseBlocks(f[g - 1], held, OfGroup(S, g))
               /\ out = f[Len(Groups)]
  <2> DEFINE last == Len(Groups)
             base == pool
             Step(a, g) == ReleaseBlocks(a, held, OfGroup(S, g))
             Run(f, N) == f = [k \in 0 .. N |-> IF k = 0 THEN base ELSE Step(f[k - 1], k)]
             bad == {N \in Nat : ~ \E f : Run(f, N)}
  <2>1. out = (CHOOSE f : Run(f, last))[last]
    BY <1>11 DEF ReleaseAll, OfGroup
  <2> HIDE DEF Step, base
  <2>2. bad = {}
    <3> SUFFICES ASSUME bad # {} PROVE FALSE
      OBVIOUS
    <3>1. PICK N \in bad : \A y \in bad : N <= y
      BY LeastNat
    <3>2. CASE N = 0
      <4> DEFINE f == [k \in {0} |-> base]
      <4>1. Run(f, 0)
        OBVIOUS
      <4> QED
        BY <4>1, <3>1, <3>2
    <3>3. CASE N # 0
      <4>1. N - 1 \in Nat /\ N \in Nat /\ ~ (N <= N - 1)
        BY <3>1, <3>3
      <4>2. PICK f : Run(f, N - 1)
        BY <4>1, <3>1
      <4> DEFINE g == [k \in 0 .. N |-> IF k = N THEN Step(f[N - 1], N) ELSE f[k]]
      <4>3. ASSUME NEW k \in 0 .. N
            PROVE g[k] = IF k = 0 THEN base ELSE Step(g[k - 1], k)
        <5>1. CASE k = N
          <6>1. k - 1 \in 0 .. N /\ k - 1 # N /\ k # 0
            BY <4>1, <3>3, <5>1
          <6>2. g[k - 1] = f[N - 1]
            BY <6>1, <5>1
          <6> QED
            BY <6>1, <6>2, <5>1
        <5>2. CASE k # N
          <6>1. k \in 0 .. N - 1 /\ k # 0 => k - 1 \in 0 .. N /\ k - 1 # N
            BY <4>1, <5>2
          <6>2. k \in 0 .. N - 1
            BY <4>1, <5>2
          <6>3. f[k] = IF k = 0 THEN base ELSE Step(f[k - 1], k)
            BY <4>2, <6>2
          <6>4. g[k] = f[k] /\ (k # 0 => g[k - 1] = f[k - 1])
            BY <6>1, <6>2, <5>2
          <6> QED
            BY <6>3, <6>4
        <5> QED
          BY <5>1, <5>2
      <4>4. Run(g, N)
        <5> DEFINE h == [k \in 0 .. N |-> IF k = 0 THEN base ELSE Step(g[k - 1], k)]
        <5>1. \A k \in 0 .. N : g[k] = h[k]
          BY <4>3
        <5>2. g = h
          BY <5>1
        <5> QED
          BY <5>2
      <4> QED
        BY <4>4, <3>1
    <3> QED
      BY <3>2, <3>3
  <2>3. PICK f : f = CHOOSE h : Run(h, last)
    OBVIOUS
  <2>4. \E h : Run(h, last)
    <3>1. last \in Nat
      BY GroupFacts
    <3> QED
      BY <2>2, <3>1
  <2>5. Run(f, last)
    BY <2>3, <2>4
  <2>6. f[0] = base /\ \A k \in 1 .. last : f[k] = Step(f[k - 1], k)
    <3>1. last \in Nat
      BY GroupsAssumption, LenProperties
    <3>2. \A k \in 0 .. last : f[k] = IF k = 0 THEN base ELSE Step(f[k - 1], k)
      BY <2>5
    <3>3. 0 \in 0 .. last /\ \A k \in 1 .. last : k \in 0 .. last /\ k # 0
      BY <3>1
    <3> HIDE DEF last
    <3> QED
      BY <3>2, <3>3
  <2> QED
    BY <2>1, <2>3, <2>6 DEF Step, base
<1> DEFINE Good(g) == /\ SoundPool(f[g])
                      /\ f[g].key = pool.key /\ f[g].removed = pool.removed
                      /\ \A p \in Pages : f[g].refs[p] = IF \E m \in U(g) : held[m] = p
                                                        THEN pool.refs[p] - 1 ELSE pool.refs[p]
           bad == {g \in 0 .. n : ~ Good(g)}
<1>3. \A m \in S : m[1] \in 1 .. n
  BY <1>1
<1>4. Good(0)
  <2>1. U(0) = {}
    BY <1>1, <1>3
  <2> QED
    BY <1>2, <2>1
<1>5. ASSUME NEW g \in 1 .. n, Good(g - 1) PROVE Good(g)
  <2>1. U(g) = U(g - 1) \cup P(g) /\ U(g - 1) \cap P(g) = {}
    <3>1. ASSUME NEW m \in S
          PROVE (m[1] <= g <=> m[1] <= g - 1 \/ m[1] = g) /\ ~ (m[1] <= g - 1 /\ m[1] = g)
      BY <1>1, <1>3
    <3> QED
      BY <3>1
  <2>2. IsFiniteSet(P(g)) /\ P(g) \subseteq Int \X Int /\ P(g) \subseteq S /\ U(g - 1) \subseteq S
    <3>1. P(g) \in SUBSET S
      OBVIOUS
    <3>2. S \subseteq Int \X Int
      BY <1>1
    <3> QED
      BY <3>1, <3>2, FS_Subset
  <2> HIDE DEF P, U, n
  <2>3. \A m \in P(g) : \A q \in U(g - 1) : held[q] # held[m]
    BY <2>1, <2>2
  <2>4. ASSUME NEW m \in P(g) PROVE held[m] \in Pages /\ f[g - 1].refs[held[m]] > 0
    <3>1. ~ \E q \in U(g - 1) : held[q] = held[m]
      BY <2>3
    <3> QED
      BY <1>5, <2>2, <3>1
  <2>5. LET q == ReleaseBlocks(f[g - 1], held, P(g))
        IN  /\ SoundPool(q)
            /\ q.key = f[g - 1].key /\ q.removed = f[g - 1].removed
            /\ \A p \in Pages : q.refs[p] = IF \E m \in P(g) : held[m] = p
                                            THEN f[g - 1].refs[p] - 1 ELSE f[g - 1].refs[p]
    <3>1. \A m, q \in P(g) : held[m] = held[q] => m = q
      BY <2>2
    <3> QED
      BY <1>5, <2>2, <2>4, <3>1, ReleaseBlocksFacts
  <2>6. f[g] = ReleaseBlocks(f[g - 1], held, P(g))
    BY <1>2 DEF P, n, OfGroup
  <2>7. ASSUME NEW p \in Pages
        PROVE f[g].refs[p] = IF \E m \in U(g) : held[m] = p THEN pool.refs[p] - 1 ELSE pool.refs[p]
    <3>1. f[g].refs[p] = IF \E m \in P(g) : held[m] = p THEN f[g - 1].refs[p] - 1 ELSE f[g - 1].refs[p]
      BY <2>5, <2>6
    <3>2. f[g - 1].refs[p] = IF \E m \in U(g - 1) : held[m] = p THEN pool.refs[p] - 1 ELSE pool.refs[p]
      BY <1>5
    <3> QED
      BY <2>1, <2>3, <3>1, <3>2
  <2>8. SoundPool(f[g]) /\ f[g].key = pool.key /\ f[g].removed = pool.removed
    BY <1>5, <2>5, <2>6
  <2> QED
    BY <2>7, <2>8
<1>6. bad = {}
  <2> HIDE DEF Good
  <2> SUFFICES ASSUME bad # {} PROVE FALSE
    OBVIOUS
  <2>1. bad \subseteq Nat
    BY <1>1
  <2>2. PICK g \in bad : \A y \in bad : g <= y
    BY <2>1, LeastNat
  <2>3. g \in 0 .. n /\ g # 0 /\ ~ Good(g)
    BY <1>4, <2>2
  <2>4. g \in 1 .. n /\ g - 1 \in 0 .. n /\ ~ (g <= g - 1)
    BY <1>1, <2>3
  <2>5. Good(g - 1)
    BY <2>2, <2>4
  <2> QED
    BY <1>5, <2>3, <2>4, <2>5
<1>7. Good(n)
  <2>1. n \in 0 .. n
    BY <1>1
  <2> HIDE DEF Good, n
  <2> QED
    BY <1>6, <2>1
<1>8. U(n) = S
  BY <1>1, <1>3
<1> HIDE DEF U
<1> QED
  BY <1>2, <1>7, <1>8, <1>11

(* What publishing one held page does. *)
LEMMA PublishEffect ==
  ASSUME NEW pool, SoundPool(pool), NEW p \in Pages, NEW k \in Keys, pool.refs[p] > 0
  PROVE  LET q == Publish(pool, p, k)
         IN  /\ SoundPool(q)
             /\ q.refs = pool.refs /\ q.removed = pool.removed
             /\ \A x \in Pages :
                  q.key[x] = IF x = p /\ pool.key[p] = NoKey THEN k ELSE pool.key[x]
<1>1. SoundPool(Publish(pool, p, k))
  BY PublishSound
<1>2. pool \in PoolState
  BY DEF SoundPool
<1> QED
  BY <1>1, <1>2 DEF Publish, PoolState

(***************************************************************************)
(* Publication of the committed blocks S of request r: their pages without *)
(* a key get the key of their block, and nothing else changes.             *)
(***************************************************************************)
LEMMA PublishAllFacts ==
  ASSUME NEW pool, SoundPool(pool), NEW r, NEW target, NEW S, S = Publishable(r, target),
         IsFiniteSet(S), S \subseteq Int \X Int,
         \A m \in S : /\ pages[r][m] \in Pages /\ pool.refs[pages[r][m]] > 0
                     /\ Key(r, m) \in Keys,
         \A m, q \in S : pages[r][m] = pages[r][q] => m = q
  PROVE  LET q == PublishAll(pool, r, target)
         IN  /\ SoundPool(q)
             /\ q.refs = pool.refs /\ q.removed = pool.removed
             /\ \A m \in S : pool.key[pages[r][m]] = NoKey => q.key[pages[r][m]] = Key(r, m)
             /\ \A p \in Pages : pool.key[p] # NoKey \/ (\A m \in S : pages[r][m] # p) =>
                  q.key[p] = pool.key[p]
<1> DEFINE o == InOrder(S)
           n == Cardinality(S)
           D(k) == {o[i] : i \in 1 .. k}
           h == pages[r]
<1>1. /\ n \in Nat /\ Len(o) = n /\ o \in [1 .. n -> S] /\ IsInjective(o)
      /\ \A m \in S : \E k \in 1 .. n : o[k] = m
  BY InOrderFacts
<1>11. PICK out : out = PublishAll(pool, r, target)
  OBVIOUS
<1>2. PICK f : /\ f[0] = pool
               /\ \A k \in 1 .. Len(InOrder(S)) :
                    f[k] = Publish(f[k - 1], pages[r][InOrder(S)[k]], Key(r, InOrder(S)[k]))
               /\ out = f[Len(InOrder(S))]
  <2> DEFINE last == Len(InOrder(S))
             base == pool
             Step(a, k) == Publish(a, pages[r][InOrder(S)[k]], Key(r, InOrder(S)[k]))
             Run(f, N) == f = [k \in 0 .. N |-> IF k = 0 THEN base ELSE Step(f[k - 1], k)]
             bad == {N \in Nat : ~ \E f : Run(f, N)}
  <2>1. out = (CHOOSE f : Run(f, last))[last]
    BY <1>11 DEF PublishAll, Publishable
  <2> HIDE DEF Step, base
  <2>2. bad = {}
    <3> SUFFICES ASSUME bad # {} PROVE FALSE
      OBVIOUS
    <3>1. PICK N \in bad : \A y \in bad : N <= y
      BY LeastNat
    <3>2. CASE N = 0
      <4> DEFINE f == [k \in {0} |-> base]
      <4>1. Run(f, 0)
        OBVIOUS
      <4> QED
        BY <4>1, <3>1, <3>2
    <3>3. CASE N # 0
      <4>1. N - 1 \in Nat /\ N \in Nat /\ ~ (N <= N - 1)
        BY <3>1, <3>3
      <4>2. PICK f : Run(f, N - 1)
        BY <4>1, <3>1
      <4> DEFINE g == [k \in 0 .. N |-> IF k = N THEN Step(f[N - 1], N) ELSE f[k]]
      <4>3. ASSUME NEW k \in 0 .. N
            PROVE g[k] = IF k = 0 THEN base ELSE Step(g[k - 1], k)
        <5>1. CASE k = N
          <6>1. k - 1 \in 0 .. N /\ k - 1 # N /\ k # 0
            BY <4>1, <3>3, <5>1
          <6>2. g[k - 1] = f[N - 1]
            BY <6>1, <5>1
          <6> QED
            BY <6>1, <6>2, <5>1
        <5>2. CASE k # N
          <6>1. k \in 0 .. N - 1 /\ k # 0 => k - 1 \in 0 .. N /\ k - 1 # N
            BY <4>1, <5>2
          <6>2. k \in 0 .. N - 1
            BY <4>1, <5>2
          <6>3. f[k] = IF k = 0 THEN base ELSE Step(f[k - 1], k)
            BY <4>2, <6>2
          <6>4. g[k] = f[k] /\ (k # 0 => g[k - 1] = f[k - 1])
            BY <6>1, <6>2, <5>2
          <6> QED
            BY <6>3, <6>4
        <5> QED
          BY <5>1, <5>2
      <4>4. Run(g, N)
        <5> DEFINE w == [k \in 0 .. N |-> IF k = 0 THEN base ELSE Step(g[k - 1], k)]
        <5>1. \A k \in 0 .. N : g[k] = w[k]
          BY <4>3
        <5>2. g = w
          BY <5>1
        <5> QED
          BY <5>2
      <4> QED
        BY <4>4, <3>1
    <3> QED
      BY <3>2, <3>3
  <2>3. PICK f : f = CHOOSE w : Run(w, last)
    OBVIOUS
  <2>4. \E w : Run(w, last)
    <3>1. last \in Nat
      BY <1>1 DEF o
    <3> QED
      BY <2>2, <3>1
  <2>5. Run(f, last)
    BY <2>3, <2>4
  <2>6. f[0] = base /\ \A k \in 1 .. last : f[k] = Step(f[k - 1], k)
    <3>1. last \in Nat
      OBVIOUS
    <3>2. \A k \in 0 .. last : f[k] = IF k = 0 THEN base ELSE Step(f[k - 1], k)
      BY <2>5
    <3>3. 0 \in 0 .. last /\ \A k \in 1 .. last : k \in 0 .. last /\ k # 0
      BY <3>1
    <3> HIDE DEF last
    <3> QED
      BY <3>2, <3>3
  <2> QED
    BY <2>1, <2>3, <2>6 DEF Step, base
<1> HIDE DEF o, n, h
<1> DEFINE Good(k) == /\ SoundPool(f[k])
                      /\ f[k].refs = pool.refs /\ f[k].removed = pool.removed
                      /\ \A m \in D(k) : pool.key[h[m]] = NoKey => f[k].key[h[m]] = Key(r, m)
                      /\ \A p \in Pages : pool.key[p] # NoKey \/ (\A m \in D(k) : h[m] # p) =>
                           f[k].key[p] = pool.key[p]
           bad == {k \in 0 .. n : ~ Good(k)}
<1>3. Good(0)
  <2>1. D(0) = {}
    OBVIOUS
  <2> HIDE DEF D
  <2> QED
    BY <1>2, <2>1
<1>4. \A m \in S : h[m] \in Pages /\ pool.refs[h[m]] > 0 /\ Key(r, m) \in Keys
  BY DEF h
<1>5. \A m, q \in S : h[m] = h[q] => m = q
  BY DEF h
<1>6. ASSUME NEW k \in 1 .. n, Good(k - 1) PROVE Good(k)
  <2>1. o[k] \in S /\ D(k) = D(k - 1) \cup {o[k]} /\ D(k - 1) \subseteq S
    <3>1. 1 .. k = (1 .. k - 1) \cup {k} /\ 1 .. k - 1 \subseteq 1 .. n
      BY <1>1
    <3>2. \A i \in 1 .. n : o[i] \in S
      BY <1>1
    <3>3. D(k - 1) \subseteq S /\ o[k] \in S
      BY <3>1, <3>2
    <3>4. D(k) = D(k - 1) \cup {o[k]}
      BY <3>1
    <3> QED
      BY <3>3, <3>4
  <2>2. o[k] \notin D(k - 1)
    <3>1. \A i \in 1 .. k - 1 : i \in 1 .. n /\ i # k
      BY <1>1
    <3>2. DOMAIN o = 1 .. n
      BY <1>1
    <3> QED
      BY <1>1, <3>1, <3>2 DEF IsInjective
  <2> DEFINE b == f[k - 1]
             p == h[o[k]]
             c == Key(r, o[k])
  <2>3. f[k] = Publish(b, p, c)
    BY <1>1, <1>2 DEF o, h
  <2> HIDE DEF D
  <2>4. /\ SoundPool(b)
        /\ b.refs = pool.refs /\ b.removed = pool.removed
        /\ \A m \in D(k - 1) : pool.key[h[m]] = NoKey => b.key[h[m]] = Key(r, m)
        /\ \A x \in Pages : pool.key[x] # NoKey \/ (\A m \in D(k - 1) : h[m] # x) =>
             b.key[x] = pool.key[x]
    BY <1>6
  <2>5. p \in Pages /\ c \in Keys /\ b.refs[p] > 0
    BY <1>4, <2>1, <2>4
  <2> HIDE DEF b, p, c
  <2>6. LET q == Publish(b, p, c)
        IN  /\ SoundPool(q)
            /\ q.refs = b.refs /\ q.removed = b.removed
            /\ \A x \in Pages : q.key[x] = IF x = p /\ b.key[p] = NoKey THEN c ELSE b.key[x]
    BY <2>4, <2>5, PublishEffect
  <2>7. SoundPool(f[k]) /\ f[k].refs = pool.refs /\ f[k].removed = pool.removed
    BY <2>3, <2>4, <2>6
  <2>8. \A m \in D(k - 1) : h[m] # p
    BY <1>5, <2>1, <2>2 DEF p
  <2>9. b.key[p] = pool.key[p]
    BY <2>4, <2>5, <2>8
  <2>10. \A x \in Pages : f[k].key[x] = IF x = p /\ pool.key[p] = NoKey THEN c ELSE b.key[x]
    BY <2>3, <2>6, <2>9
  <2>11. ASSUME NEW m \in D(k), pool.key[h[m]] = NoKey PROVE f[k].key[h[m]] = Key(r, m)
    <3>1. h[m] \in Pages
      BY <1>4, <2>1
    <3>2. CASE m = o[k]
      BY <2>5, <2>10, <2>11, <3>2 DEF p, c
    <3>3. CASE m \in D(k - 1)
      BY <2>4, <2>8, <2>10, <2>11, <3>1, <3>3
    <3> QED
      BY <2>1, <3>2, <3>3
  <2>12. ASSUME NEW x \in Pages, pool.key[x] # NoKey \/ (\A m \in D(k) : h[m] # x)
         PROVE  f[k].key[x] = pool.key[x]
    <3>1. ~ (x = p /\ pool.key[p] = NoKey)
      BY <2>1, <2>12 DEF p
    <3>2. b.key[x] = pool.key[x]
      BY <2>1, <2>4, <2>12
    <3> QED
      BY <2>10, <3>1, <3>2
  <2> QED
    BY <2>7, <2>11, <2>12
<1>7. bad = {}
  <2> HIDE DEF Good
  <2> SUFFICES ASSUME bad # {} PROVE FALSE
    OBVIOUS
  <2>1. bad \subseteq Nat
    BY <1>1
  <2>2. PICK g \in bad : \A y \in bad : g <= y
    BY <2>1, LeastNat
  <2>3. g \in 0 .. n /\ g # 0 /\ ~ Good(g)
    BY <1>3, <2>2
  <2>4. g \in 1 .. n /\ g - 1 \in 0 .. n /\ ~ (g <= g - 1)
    BY <1>1, <2>3
  <2>5. Good(g - 1)
    BY <2>2, <2>4
  <2> QED
    BY <1>6, <2>3, <2>4, <2>5
<1>8. Good(n)
  <2>1. n \in 0 .. n
    BY <1>1
  <2> HIDE DEF Good
  <2> QED
    BY <1>7, <2>1
<1>9. D(n) = S
  BY <1>1
<1> HIDE DEF D
<1> QED
  BY <1>1, <1>2, <1>8, <1>9, <1>11 DEF h, o

-----------------------------------------------------------------------------
(* The lookup. *)

(* A bounded set of naturals has a greatest element, and Max is it. *)
LEMMA GreatestNat ==
  ASSUME NEW c \in Nat, NEW S, S \subseteq 0 .. c, S # {}
  PROVE  Max(S) \in S /\ \A y \in S : y <= Max(S)
<1> DEFINE T == {c - x : x \in S}
<1>1. T \subseteq Nat /\ T # {}
  <2>1. \A x \in S : c - x \in Nat
    OBVIOUS
  <2> QED
    BY <2>1
<1>2. PICK t \in T : \A y \in T : t <= y
  BY <1>1, LeastNat
<1>3. PICK x \in S : t = c - x
  BY <1>2
<1>4. ASSUME NEW y \in S PROVE x >= y
  <2>1. t <= c - y
    BY <1>2
  <2>2. x \in Nat /\ y \in Nat
    BY <1>3
  <2> QED
    BY <1>3, <2>1, <2>2
<1>5. \E z \in S : \A y \in S : z >= y
  BY <1>4
<1>6. Max(S) = CHOOSE z \in S : \A y \in S : z >= y
  BY DEF Max
<1>7. Max(S) \in S /\ \A y \in S : Max(S) >= y
  BY <1>5, <1>6
<1>8. \A y \in S : y \in Nat
  OBVIOUS
<1> QED
  BY <1>7, <1>8

(* Min is the least element of a set of naturals. *)
LEMMA SmallestNat ==
  ASSUME NEW S, S \subseteq Nat, S # {}
  PROVE  Min(S) \in S /\ \A y \in S : Min(S) <= y
<1>1. \E x \in S : \A y \in S : x <= y
  BY LeastNat
<1>2. Min(S) = CHOOSE x \in S : \A y \in S : x <= y
  BY DEF Min
<1> QED
  BY <1>1, <1>2

(* Integer division, as the lookup needs it. *)
LEMMA DivFacts ==
  /\ \A a \in Nat, b \in Nat \ {0} : a \div b \in Nat /\ (a \div b) * b <= a
  /\ \A a \in Nat, b \in Nat \ {0} : a < (a \div b) * b + b
  /\ \A a, q \in Nat, b \in Nat \ {0} : q * b <= a => q <= a \div b
  /\ \A a, q \in Nat, b \in Nat \ {0} : a < q * b => a \div b < q
<1>1. \A a \in Nat, b \in Nat \ {0} : a \div b \in Nat /\ (a \div b) * b <= a
  OBVIOUS
<1>2. \A a \in Nat, b \in Nat \ {0} : a < (a \div b) * b + b
  OBVIOUS
<1>3. \A a, q \in Nat, b \in Nat \ {0} : q * b <= a => q <= a \div b
  OBVIOUS
<1>4. \A a, q \in Nat, b \in Nat \ {0} : a < q * b => a \div b < q
  OBVIOUS
<1> QED
  BY <1>1, <1>2, <1>3, <1>4

(* What GroupsAssumption says of one group. *)
LEMMA ParamFacts ==
  ASSUME NEW g \in GroupIds
  PROVE  /\ Groups[g].block \in Nat \ {0} /\ Alignment \in Nat \ {0}
         /\ Alignment % Groups[g].block = 0
         /\ Groups[g].kind \in {"dense", "window"}
         /\ Groups[g].kind = "dense" =>
              Groups[g].ratio \in Nat \ {0} /\ Groups[g].block % Groups[g].ratio = 0
         /\ Groups[g].kind = "window" => Groups[g].window \in Nat \ {0} /\ Need(g) \in Nat
<1>1. Groups[g].kind = "window" => Need(g) \in Nat
  <2> SUFFICES ASSUME Groups[g].kind = "window" PROVE Need(g) \in Nat
    OBVIOUS
  <2>1. Groups[g].block \in Nat \ {0} /\ Groups[g].window \in Nat \ {0}
    BY GroupsAssumption
  <2> DEFINE b == Groups[g].block
             w == Groups[g].window
  <2>2. Need(g) = ((w - 1) + b - 1) \div b
    BY DEF Need, Ceil
  <2> HIDE DEF b, w
  <2>3. b \in Nat \ {0} /\ w \in Nat \ {0}
    BY <2>1 DEF b, w
  <2>4. (w - 1) + b - 1 \in Nat
    BY <2>3
  <2> QED
    BY <2>2, <2>3, <2>4, DivFacts
<1> QED
  BY <1>1, GroupsAssumption

(* An exact division loses nothing. *)
LEMMA DivExact ==
  \A v \in Nat, d \in Nat \ {0} : v % d = 0 => (v \div d) * d = v
  OBVIOUS

(* A multiple of a multiple is a multiple. *)
LEMMA Multiples ==
  \A d \in Nat \ {0}, a \in Nat \ {0}, v \in Nat : a % d = 0 /\ v % a = 0 => v % d = 0
<1> SUFFICES ASSUME NEW d \in Nat \ {0}, NEW a \in Nat \ {0}, NEW v \in Nat,
                    a % d = 0, v % a = 0
             PROVE  v % d = 0
  OBVIOUS
<1>1. (a \div d) * d = a /\ (v \div a) * a = v /\ a \div d \in Nat /\ v \div a \in Nat
  BY DivExact, DivFacts
<1> DEFINE p == a \div d
           q == v \div a
<1>2. p \in Nat /\ q \in Nat /\ v = q * (p * d)
  BY <1>1
<1> HIDE DEF p, q
<1>3. v = (q * p) * d /\ q * p \in Nat
  BY <1>2
<1>4. \A k \in Nat : (k * d) % d = 0
  OBVIOUS
<1> QED
  BY <1>3, <1>4

(* One group lowers an aligned candidate to an aligned one it can recover. *)
LEMMA LowerFacts ==
  ASSUME NEW cached, NEW g \in GroupIds, NEW c \in Nat, c % Alignment = 0
  PROVE  LET x == Lower(cached, g, c)
         IN  /\ x \in Nat /\ x % Alignment = 0 /\ x <= c
             /\ x = c => Recoverable(cached, g, c)
             /\ \A y \in Boundaries(c) : Recoverable(cached, g, y) => y <= x
<1> DEFINE b == Groups[g].block
           x == Lower(cached, g, c)
<1>1. /\ b \in Nat \ {0} /\ Alignment \in Nat \ {0}
      /\ Groups[g].kind \in {"dense", "window"} /\ Alignment % b = 0
  BY ParamFacts
<1>2. CASE Groups[g].kind = "dense"
  <2> DEFINE T == {c \div b} \cup {i \in 0 .. (c \div b) - 1 : <<g, i>> \notin cached}
             found == Min(T)
  <2>1. x = ((found * b) \div Alignment) * Alignment
    <3>1. x = IF Groups[g].kind = "dense" THEN Aligned(found * b)
              ELSE Max({y \in Boundaries(c) : y = 0 \/ Recoverable(cached, g, y)})
      BY DEF Lower
    <3> HIDE DEF x, found, b
    <3> QED
      BY <1>2, <3>1 DEF Aligned
  <2>2. c \div b \in Nat /\ (c \div b) * b <= c
    BY <1>1, DivFacts
  <2>3. T \subseteq 0 .. c \div b /\ T # {} /\ T \subseteq Nat
    BY <2>2
  <2>4. found \in T /\ \A y \in T : found <= y
    BY <2>3, SmallestNat
  <2>5. found \in Nat /\ found <= c \div b
    BY <2>2, <2>3, <2>4
  <2>6. Recovery(g, c) = 0 .. (c \div b) - 1
    BY <1>2 DEF Recovery
  <2>7. found = c \div b => Recoverable(cached, g, c)
    <3> SUFFICES ASSUME found = c \div b, NEW i \in 0 .. (c \div b) - 1 PROVE <<g, i>> \in cached
      BY <2>6 DEF Recoverable
    <3>1. ~ (found <= i)
      BY <2>2
    <3>2. i \notin T
      BY <2>4, <3>1
    <3> QED
      BY <3>2
  <2>12. \A y \in Nat : y <= c /\ Recoverable(cached, g, y) => y \div b <= found
    <3> SUFFICES ASSUME NEW y \in Nat, y <= c, Recoverable(cached, g, y) PROVE y \div b <= found
      OBVIOUS
    <3>1. Recovery(g, y) = 0 .. (y \div b) - 1
      BY <1>2 DEF Recovery
    <3>2. \A i \in 0 .. (y \div b) - 1 : <<g, i>> \in cached
      BY <3>1 DEF Recoverable
    <3>3. y \div b \in Nat /\ y \div b <= c \div b
      <4>1. \A u, v \in Nat, d \in Nat \ {0} : u <= v => u \div d \in Nat /\ u \div d <= v \div d
        OBVIOUS
      <4> QED
        BY <1>1, <4>1
    <3>4. CASE found = c \div b
      BY <3>3, <3>4
    <3>5. CASE found # c \div b
      <4>1. found \in 0 .. (c \div b) - 1 /\ <<g, found>> \notin cached
        BY <2>4, <3>5
      <4>2. found \notin 0 .. (y \div b) - 1
        BY <3>2, <4>1
      <4>3. found \in Nat
        BY <2>5
      <4> HIDE DEF found, b
      <4> QED
        BY <3>3, <4>2, <4>3
    <3> QED
      BY <3>4, <3>5
  <2> HIDE DEF found, T, b, x
  <2>8. found * b \in Nat /\ found * b <= c
    <3>1. \A i, j, d \in Nat : i <= j => i * d <= j * d
      OBVIOUS
    <3>2. found * b <= (c \div b) * b
      BY <1>1, <2>2, <2>5, <3>1
    <3>3. found * b \in Nat /\ (c \div b) * b \in Nat
      BY <1>1, <2>2, <2>5
    <3> QED
      BY <2>2, <3>2, <3>3
  <2>9. x \in Nat /\ x % Alignment = 0 /\ x <= found * b
    <3>1. \A q \in Nat, a \in Nat \ {0} : (q * a) % a = 0 /\ q * a \in Nat
      OBVIOUS
    <3>2. \A v \in Nat, a \in Nat \ {0} : v \div a \in Nat /\ (v \div a) * a <= v
      BY DivFacts
    <3>3. (found * b) \div Alignment \in Nat /\ ((found * b) \div Alignment) * Alignment <= found * b
      BY <1>1, <2>8, <3>2
    <3> QED
      BY <1>1, <2>1, <3>1, <3>3
  <2>10. x = c => found = c \div b
    <3> SUFFICES ASSUME x = c PROVE found = c \div b
      OBVIOUS
    <3>1. found * b = c
      BY <2>8, <2>9
    <3>2. \A q \in Nat, a \in Nat \ {0} : (q * a) \div a = q
      OBVIOUS
    <3> QED
      BY <1>1, <2>5, <3>1, <3>2
  <2>11. x <= c
    BY <2>8, <2>9
  <2>13. ASSUME NEW y \in Boundaries(c), Recoverable(cached, g, y) PROVE y <= x
    <3>1. y \in Nat /\ y <= c /\ y % Alignment = 0
      BY <2>13 DEF Boundaries
    <3>2. y % b = 0
      <4>1. \A d \in Nat \ {0}, a \in Nat \ {0}, v \in Nat : a % d = 0 /\ v % a = 0 => v % d = 0
        BY Multiples
      <4> QED
        BY <1>1, <3>1, <4>1
    <3>3. (y \div b) * b = y /\ y \div b \in Nat
      BY <1>1, <3>1, <3>2, DivFacts, DivExact
    <3>4. y <= found * b
      <4>1. \A i, j, d \in Nat : i <= j => i * d <= j * d
        OBVIOUS
      <4>2. y \div b <= found
        BY <2>12, <2>13, <3>1
      <4>3. (y \div b) * b <= found * b
        BY <1>1, <2>5, <3>3, <4>1, <4>2
      <4> QED
        BY <3>3, <4>3
    <3>5. (y \div Alignment) * Alignment = y /\ y \div Alignment \in Nat
      BY <1>1, <3>1, DivFacts, DivExact
    <3>6. y \div Alignment <= (found * b) \div Alignment
      <4>1. \A u, v \in Nat, d \in Nat \ {0} : u <= v => u \div d <= v \div d
        OBVIOUS
      <4> QED
        BY <1>1, <2>8, <3>1, <3>4, <4>1
    <3>7. (y \div Alignment) * Alignment <= ((found * b) \div Alignment) * Alignment
      <4>1. \A i, j, d \in Nat : i <= j => i * d <= j * d
        OBVIOUS
      <4>2. (found * b) \div Alignment \in Nat
        BY <1>1, <2>8, DivFacts
      <4> QED
        BY <1>1, <3>5, <3>6, <4>1, <4>2
    <3> QED
      BY <2>1, <3>5, <3>7
  <2> QED
    BY <2>7, <2>9, <2>10, <2>11, <2>13 DEF x
<1>3. CASE Groups[g].kind = "window"
  <2> DEFINE T == {y \in Boundaries(c) : y = 0 \/ Recoverable(cached, g, y)}
  <2>1. x = Max(T)
    BY <1>3 DEF Lower
  <2>2. 0 % Alignment = 0
    BY <1>1
  <2>3. /\ T \subseteq 0 .. c /\ 0 \in T
        /\ \A y \in T : y % Alignment = 0 /\ (y = 0 \/ Recoverable(cached, g, y))
    BY <2>2 DEF Boundaries
  <2> HIDE DEF T, x
  <2>4. x \in T
    BY <2>1, <2>3, GreatestNat
  <2>5. x \in Nat /\ x <= c /\ x % Alignment = 0 /\ (x = 0 \/ Recoverable(cached, g, x))
    BY <2>3, <2>4
  <2>6. Recoverable(cached, g, 0)
    <3>1. 0 \div b = 0
      BY <1>1
    <3>2. Need(g) \in Nat
      BY <1>3, ParamFacts
    <3>3. Recovery(g, 0) = AtLeast0(0 - Need(g)) .. 0 - 1
      BY <1>3, <3>1 DEF Recovery
    <3>4. AtLeast0(0 - Need(g)) = 0
      BY <3>2 DEF AtLeast0
    <3>5. Recovery(g, 0) = {}
      BY <3>3, <3>4
    <3> QED
      BY <3>5 DEF Recoverable
  <2>7. ASSUME NEW y \in Boundaries(c), Recoverable(cached, g, y) PROVE y <= x
    <3>1. y \in T
      BY <2>7 DEF T
    <3> QED
      BY <2>1, <2>3, <3>1, GreatestNat
  <2> QED
    BY <2>5, <2>6, <2>7 DEF x
<1> QED
  BY <1>1, <1>2, <1>3

(* Where every group can recover its state. *)
Start(cached, c) == \A g \in GroupIds : Recoverable(cached, g, c)

(***************************************************************************)
(* One round lowers an aligned candidate to an aligned one; it stays where *)
(* it is only where every group can recover its state, and it never passes *)
(* a boundary below it where every group can.                              *)
(***************************************************************************)
LEMMA RoundFacts ==
  ASSUME NEW cached, NEW c \in Nat, c % Alignment = 0
  PROVE  LET x == Round(cached, c)
         IN  /\ x \in Nat /\ x % Alignment = 0 /\ x <= c
             /\ x = c => Start(cached, c)
             /\ \A y \in Boundaries(c) : Start(cached, y) => y <= x
<1> DEFINE n == Len(Groups)
<1>1. n \in Nat /\ GroupIds = 1 .. n
  BY GroupFacts
<1>11. PICK out : out = Round(cached, c)
  OBVIOUS
<1>2. PICK f : /\ f[0] = c
               /\ \A g \in 1 .. Len(Groups) : f[g] = Lower(cached, g, f[g - 1])
               /\ out = f[Len(Groups)]
  <2> DEFINE last == Len(Groups)
             base == c
             Step(a, g) == Lower(cached, g, a)
             Run(f, N) == f = [k \in 0 .. N |-> IF k = 0 THEN base ELSE Step(f[k - 1], k)]
             bad == {N \in Nat : ~ \E f : Run(f, N)}
  <2>1. out = (CHOOSE f : Run(f, last))[last]
    BY <1>11 DEF Round
  <2> HIDE DEF Step, base
  <2>2. bad = {}
    <3> SUFFICES ASSUME bad # {} PROVE FALSE
      OBVIOUS
    <3>1. PICK N \in bad : \A y \in bad : N <= y
      BY LeastNat
    <3>2. CASE N = 0
      <4> DEFINE f == [k \in {0} |-> base]
      <4>1. Run(f, 0)
        OBVIOUS
      <4> QED
        BY <4>1, <3>1, <3>2
    <3>3. CASE N # 0
      <4>1. N - 1 \in Nat /\ N \in Nat /\ ~ (N <= N - 1)
        BY <3>1, <3>3
      <4>2. PICK f : Run(f, N - 1)
        BY <4>1, <3>1, ZenonT(60)
      <4> DEFINE g == [k \in 0 .. N |-> IF k = N THEN Step(f[N - 1], N) ELSE f[k]]
      <4>3. ASSUME NEW k \in 0 .. N
            PROVE g[k] = IF k = 0 THEN base ELSE Step(g[k - 1], k)
        <5>1. CASE k = N
          <6>1. k - 1 \in 0 .. N /\ k - 1 # N /\ k # 0
            BY <4>1, <3>3, <5>1
          <6>2. g[k - 1] = f[N - 1]
            BY <6>1, <5>1
          <6> QED
            BY <6>1, <6>2, <5>1
        <5>2. CASE k # N
          <6>1. k \in 0 .. N - 1 /\ k # 0 => k - 1 \in 0 .. N /\ k - 1 # N
            BY <4>1, <5>2
          <6>2. k \in 0 .. N - 1
            BY <4>1, <5>2
          <6>3. f[k] = IF k = 0 THEN base ELSE Step(f[k - 1], k)
            BY <4>2, <6>2
          <6>4. g[k] = f[k] /\ (k # 0 => g[k - 1] = f[k - 1])
            BY <6>1, <6>2, <5>2
          <6> QED
            BY <6>3, <6>4
        <5> QED
          BY <5>1, <5>2
      <4>4. Run(g, N)
        <5> DEFINE h == [k \in 0 .. N |-> IF k = 0 THEN base ELSE Step(g[k - 1], k)]
        <5>1. \A k \in 0 .. N : g[k] = h[k]
          BY <4>3
        <5>2. g = h
          BY <5>1
        <5> QED
          BY <5>2
      <4> QED
        BY <4>4, <3>1
    <3> QED
      BY <3>2, <3>3
  <2>3. PICK f : f = CHOOSE h : Run(h, last)
    OBVIOUS
  <2>4. \E h : Run(h, last)
    <3>1. last \in Nat
      BY GroupFacts
    <3> QED
      BY <2>2, <3>1
  <2>5. Run(f, last)
    BY <2>3, <2>4
  <2>6. f[0] = base /\ \A k \in 1 .. last : f[k] = Step(f[k - 1], k)
    <3>1. last \in Nat
      BY GroupsAssumption, LenProperties
    <3>2. \A k \in 0 .. last : f[k] = IF k = 0 THEN base ELSE Step(f[k - 1], k)
      BY <2>5
    <3>3. 0 \in 0 .. last /\ \A k \in 1 .. last : k \in 0 .. last /\ k # 0
      BY <3>1
    <3> HIDE DEF last
    <3> QED
      BY <3>2, <3>3
  <2> QED
    BY <2>1, <2>3, <2>6 DEF Step, base
<1> DEFINE Good(k) == /\ f[k] \in Nat /\ f[k] % Alignment = 0 /\ f[k] <= c
                      /\ f[k] = c => \A g \in 1 .. k : Recoverable(cached, g, c)
                      /\ \A y \in Boundaries(c) : Start(cached, y) => y <= f[k]
           bad == {k \in 0 .. n : ~ Good(k)}
<1>3. Good(0)
  <2>1. \A y \in Boundaries(c) : y <= c
    BY DEF Boundaries
  <2> QED
    BY <1>2, <2>1
<1>4. ASSUME NEW k \in 1 .. n, Good(k - 1) PROVE Good(k)
  <2> DEFINE a == f[k - 1]
             b == f[k]
  <2>1. /\ a \in Nat /\ a % Alignment = 0 /\ a <= c
        /\ a = c => \A g \in 1 .. k - 1 : Recoverable(cached, g, c)
        /\ \A y \in Boundaries(c) : Start(cached, y) => y <= a
    BY <1>4
  <2>2. b = Lower(cached, k, a) /\ k \in GroupIds
    BY <1>1, <1>2
  <2> HIDE DEF a, b
  <2>3. /\ b \in Nat /\ b % Alignment = 0 /\ b <= a
        /\ b = a => Recoverable(cached, k, a)
        /\ \A y \in Boundaries(a) : Recoverable(cached, k, y) => y <= b
    BY <2>1, <2>2, LowerFacts
  <2>4. b <= c
    BY <2>1, <2>3
  <2>5. b = c => \A g \in 1 .. k : Recoverable(cached, g, c)
    <3> SUFFICES ASSUME b = c PROVE \A g \in 1 .. k : Recoverable(cached, g, c)
      OBVIOUS
    <3>1. a = c
      BY <2>1, <2>3
    <3>2. \A g \in 1 .. k : g = k \/ g \in 1 .. k - 1
      BY <1>1
    <3> QED
      BY <2>1, <2>3, <3>1, <3>2
  <2>6. ASSUME NEW y \in Boundaries(c), Start(cached, y) PROVE y <= b
    <3>1. y <= a
      BY <2>1, <2>6
    <3>2. y \in Boundaries(a)
      BY <2>1, <3>1 DEF Boundaries
    <3>3. Recoverable(cached, k, y)
      BY <2>2, <2>6 DEF Start
    <3> QED
      BY <2>3, <3>2, <3>3
  <2> QED
    BY <2>3, <2>4, <2>5, <2>6 DEF b
<1>5. bad = {}
  <2> HIDE DEF Good
  <2> SUFFICES ASSUME bad # {} PROVE FALSE
    OBVIOUS
  <2>1. bad \subseteq Nat
    BY <1>1
  <2>2. PICK g \in bad : \A y \in bad : g <= y
    BY <2>1, LeastNat
  <2>3. g \in 0 .. n /\ g # 0 /\ ~ Good(g)
    BY <1>3, <2>2
  <2>4. g \in 1 .. n /\ g - 1 \in 0 .. n /\ ~ (g <= g - 1)
    BY <1>1, <2>3
  <2>5. Good(g - 1)
    BY <2>2, <2>4
  <2> QED
    BY <1>4, <2>3, <2>4, <2>5
<1>6. Good(n)
  <2>1. n \in 0 .. n
    BY <1>1
  <2> HIDE DEF Good, n
  <2> QED
    BY <1>5, <2>1
<1>7. f[n] = Round(cached, c)
  BY <1>2, <1>11
<1> HIDE DEF n
<1> QED
  BY <1>1, <1>6, <1>7 DEF Start

(* The last aligned boundary is one, and no boundary comes after it. *)
LEMMA AlignedFacts ==
  ASSUME NEW last \in Nat
  PROVE  /\ Aligned(last) \in Boundaries(last)
         /\ \A y \in Boundaries(last) : y \in Boundaries(Aligned(last))
<1>1. Alignment \in Nat \ {0}
  BY GroupsAssumption
<1> DEFINE q == last \div Alignment
<1>2. q \in Nat /\ q * Alignment <= last
  BY <1>1, DivFacts
<1>3. Aligned(last) = q * Alignment
  BY DEF Aligned
<1>4. \A i \in Nat, d \in Nat \ {0} : (i * d) % d = 0 /\ i * d \in Nat
  OBVIOUS
<1>5. ASSUME NEW y \in Boundaries(last) PROVE y \in Boundaries(Aligned(last))
  <2>1. y \in Nat /\ y <= last /\ y % Alignment = 0
    BY <1>5 DEF Boundaries
  <2>2. (y \div Alignment) * Alignment = y /\ y \div Alignment \in Nat
    BY <1>1, <2>1, DivFacts, DivExact
  <2>3. y \div Alignment <= q
    <3>1. \A u, v \in Nat, d \in Nat \ {0} : u <= v => u \div d <= v \div d
      OBVIOUS
    <3> QED
      BY <1>1, <2>1, <3>1
  <2>4. (y \div Alignment) * Alignment <= q * Alignment
    <3>1. \A i, j, d \in Nat : i <= j => i * d <= j * d
      OBVIOUS
    <3> HIDE DEF q
    <3> QED
      BY <1>1, <1>2, <2>2, <2>3, <3>1
  <2> HIDE DEF q
  <2>5. y <= Aligned(last) /\ Aligned(last) \in Nat
    BY <1>1, <1>2, <1>3, <1>4, <2>2, <2>4
  <2> QED
    BY <2>1, <2>5 DEF Boundaries
<1> HIDE DEF q
<1>6. Aligned(last) \in Boundaries(last)
  <2>1. (q * Alignment) % Alignment = 0 /\ q * Alignment \in Nat
    BY <1>1, <1>2, <1>4
  <2>2. Aligned(last) \in 0 .. last /\ Aligned(last) % Alignment = 0
    BY <1>2, <1>3, <2>1
  <2> QED
    BY <2>2 DEF Boundaries
<1> QED
  BY <1>5, <1>6

(***************************************************************************)
(* The lookup settles: it returns the greatest aligned boundary before the *)
(* last token where every group can recover its state.                     *)
(***************************************************************************)
LEMMA HitFacts ==
  ASSUME NEW cached, NEW n \in Nat \ {0}
  PROVE  /\ Hit(cached, n) \in Boundaries(n - 1)
         /\ Start(cached, Hit(cached, n))
         /\ \A y \in Boundaries(n - 1) : Start(cached, y) => y <= Hit(cached, n)
<1> DEFINE B(N) == Boundaries(N)
           Step(f, c) == IF Round(cached, c) = c THEN c ELSE f[Round(cached, c)]
           Run(f, N) == f = [c \in B(N) |-> Step(f, c)]
           bad == {N \in Nat : ~ \E f : Run(f, N)}
           last == n - 1
<1>1. Hit(cached, n) = (CHOOSE f : Run(f, last))[Aligned(last)]
  BY DEF Hit
<1>2. last \in Nat
  OBVIOUS
<1> HIDE DEF last
<1>3. \A N \in Nat : \A c \in B(N) :
        /\ c \in Nat /\ c <= N /\ Round(cached, c) \in Nat /\ Round(cached, c) <= c
        /\ \A M \in Nat : Round(cached, c) <= M => Round(cached, c) \in B(M)
        /\ Round(cached, c) = c => Start(cached, c)
        /\ \A y \in B(c) : Start(cached, y) => y <= Round(cached, c)
  <2>1. ASSUME NEW N \in Nat, NEW c \in B(N)
        PROVE c \in Nat /\ c <= N /\ c % Alignment = 0
    BY <2>1 DEF Boundaries
  <2>2. ASSUME NEW N \in Nat, NEW c \in B(N)
        PROVE /\ Round(cached, c) \in Nat /\ Round(cached, c) <= c /\ Round(cached, c) % Alignment = 0
              /\ Round(cached, c) = c => Start(cached, c)
              /\ \A y \in B(c) : Start(cached, y) => y <= Round(cached, c)
    BY <2>1, RoundFacts
  <2>3. \A x, M \in Nat : x % Alignment = 0 /\ x <= M => x \in B(M)
    BY DEF Boundaries
  <2> HIDE DEF B
  <2> QED
    BY <2>1, <2>2, <2>3
<1> HIDE DEF B
<1>4. bad = {}
  <2> SUFFICES ASSUME bad # {} PROVE FALSE
    OBVIOUS
  <2>1. PICK N \in bad : \A y \in bad : N <= y
    BY LeastNat
  <2> DEFINE M == N - 1
             prior(f) == N # 0 => Run(f, M)
  <2>2. N \in Nat
    BY <2>1
  <2>3. PICK f : prior(f)
    <3>1. N # 0 => M \in Nat /\ ~ (N <= M)
      BY <2>2
    <3> QED
      BY <2>1, <3>1
  <2> DEFINE g == [c \in B(N) |-> IF c = N THEN Step(f, N) ELSE f[c]]
  <2>4. ASSUME NEW c \in B(N) PROVE g[c] = Step(g, c)
    <3> DEFINE x == Round(cached, c)
    <3>1. c \in Nat /\ c <= N /\ x \in Nat /\ x <= c /\ x \in B(N)
      BY <1>3, <2>2
    <3>2. CASE x = c
      <4>1. CASE c = N
        BY <3>2, <4>1
      <4>2. CASE c # N
        <5>1. N # 0 /\ c \in B(M)
          BY <1>3, <2>2, <3>1, <3>2, <4>2
        <5>2. f[c] = Step(f, c)
          BY <2>3, <5>1
        <5> QED
          BY <3>2, <4>2, <5>2
      <4> QED
        BY <4>1, <4>2
    <3>3. CASE x # c
      <4>1. x # N /\ N # 0 /\ x <= M /\ M \in Nat
        BY <2>2, <3>1, <3>3
      <4>2. g[x] = f[x]
        BY <3>1, <4>1
      <4>3. CASE c = N
        BY <3>3, <4>2, <4>3
      <4>4. CASE c # N
        <5>1. c \in B(M)
          BY <2>2, <2>4, <3>1, <4>1, <4>4 DEF B, Boundaries
        <5>2. f[c] = Step(f, c)
          BY <2>3, <4>1, <5>1
        <5> QED
          BY <3>3, <4>2, <4>4, <5>2
      <4> QED
        BY <4>3, <4>4
    <3> QED
      BY <3>2, <3>3
  <2>5. Run(g, N)
    <3> DEFINE h == [c \in B(N) |-> Step(g, c)]
    <3>1. \A c \in B(N) : g[c] = h[c]
      BY <2>4
    <3>2. g = h
      BY <3>1
    <3> QED
      BY <3>2
  <2> QED
    BY <2>1, <2>5
<1>5. PICK f : f = CHOOSE h : Run(h, last)
  OBVIOUS
<1>6. Run(f, last)
  <2>1. \E h : Run(h, last)
    BY <1>2, <1>4
  <2> QED
    BY <1>5, <2>1
<1> DEFINE Good(c) == /\ f[c] \in B(last) /\ Start(cached, f[c])
                      /\ \A y \in B(c) : Start(cached, y) => y <= f[c]
           wrong == {c \in B(last) : ~ Good(c)}
<1>7. wrong = {}
  <2> HIDE DEF Good
  <2> SUFFICES ASSUME wrong # {} PROVE FALSE
    OBVIOUS
  <2>1. wrong \subseteq Nat
    BY <1>2, <1>3
  <2>2. PICK c \in wrong : \A y \in wrong : c <= y
    BY <2>1, LeastNat
  <2> DEFINE x == Round(cached, c)
  <2>3. /\ c \in B(last) /\ c \in Nat /\ c <= last /\ x \in Nat /\ x <= c /\ x \in B(last)
        /\ x = c => Start(cached, c)
        /\ \A y \in B(c) : Start(cached, y) => y <= x
    <3>1. c \in B(last)
      BY <2>2
    <3> QED
      BY <1>2, <1>3, <3>1
  <2>4. f[c] = Step(f, c)
    BY <1>6, <2>3
  <2>5. CASE x = c
    <3>1. f[c] = c
      BY <2>4, <2>5
    <3>2. \A y \in B(c) : y <= c
      BY <1>3, <2>3
    <3>3. Good(c)
      BY <2>3, <2>5, <3>1, <3>2 DEF Good
    <3> QED
      BY <2>2, <3>3
  <2>6. CASE x # c
    <3>1. f[c] = f[x]
      BY <2>4, <2>6
    <3>2. ~ (c <= x)
      BY <2>3, <2>6
    <3>3. Good(x)
      BY <2>2, <2>3, <3>2
    <3>4. \A y \in B(c) : Start(cached, y) => y \in B(x)
      BY <2>3 DEF B, Boundaries
    <3>5. Good(c)
      BY <3>1, <3>3, <3>4 DEF Good
    <3> QED
      BY <2>2, <3>5
  <2> QED
    BY <2>5, <2>6
<1>8. Aligned(last) \in B(last) /\ \A y \in B(last) : y \in B(Aligned(last))
  BY <1>2, AlignedFacts DEF B
<1>9. Hit(cached, n) = f[Aligned(last)]
  BY <1>1, <1>5
<1>10. Good(Aligned(last))
  <2> HIDE DEF Good
  <2> QED
    BY <1>7, <1>8
<1> QED
  BY <1>8, <1>9, <1>10 DEF B, last

-----------------------------------------------------------------------------
(* What a step needs and what a boundary needs. *)

(***************************************************************************)
(* Ceil is the rounded-up quotient: an index is under it when it starts    *)
(* before the end.                                                         *)
(***************************************************************************)
LEMMA CeilFacts ==
  \A a \in Nat, b \in Nat \ {0} :
    Ceil(a, b) \in Nat /\ a <= Ceil(a, b) * b /\ \A i \in Nat : i < Ceil(a, b) <=> i * b < a
<1> SUFFICES ASSUME NEW a \in Nat, NEW b \in Nat \ {0}
             PROVE  /\ Ceil(a, b) \in Nat /\ a <= Ceil(a, b) * b
                    /\ \A i \in Nat : i < Ceil(a, b) <=> i * b < a
  OBVIOUS
<1> DEFINE s == a + b - 1
           c == s \div b
<1>1. s \in Nat /\ Ceil(a, b) = c
  BY DEF Ceil
<1> HIDE DEF s
<1>2. c \in Nat /\ c * b <= s /\ s < c * b + b
  BY <1>1, DivFacts
<1>3. a <= c * b
  <2>1. c * b \in Nat
    BY <1>2
  <2> HIDE DEF c
  <2> QED
    BY <1>2, <2>1 DEF s
<1>4. ASSUME NEW i \in Nat PROVE i < c <=> i * b < a
  <2>1. (i + 1) * b = i * b + b /\ i * b \in Nat /\ i + 1 \in Nat
    OBVIOUS
  <2>2. (i + 1) * b <= s => i + 1 <= c
    BY <1>1, <2>1, DivFacts
  <2>3. s < (i + 1) * b => c < i + 1
    BY <1>1, <2>1, DivFacts
  <2> HIDE DEF c
  <2>4. i * b < a <=> (i + 1) * b <= s
    BY <2>1 DEF s
  <2>5. (i + 1) * b <= s \/ s < (i + 1) * b
    BY <1>1, <2>1
  <2> QED
    BY <1>2, <2>2, <2>3, <2>4, <2>5
<1> QED
  BY <1>1, <1>2, <1>3, <1>4

(* A ratio that divides a block scales its boundaries exactly. *)
LEMMA RatioFacts ==
  ASSUME NEW b \in Nat \ {0}, NEW r \in Nat \ {0}, b % r = 0, NEW a \in Nat, NEW i \in Nat
  PROVE  /\ b \div r \in Nat \ {0} /\ r <= b /\ a \div r \in Nat
         /\ i * (b \div r) < a \div r <=> i * b + r <= a
<1> DEFINE d == b \div r
           q == a \div r
<1>1. d \in Nat /\ d * r = b
  BY DivFacts, DivExact
<1>2. q \in Nat /\ q * r <= a /\ a < q * r + r
  BY DivFacts
<1>3. d # 0
  <2>1. 0 * r = 0
    OBVIOUS
  <2> QED
    BY <1>1, <2>1
<1> HIDE DEF d
<1>4. r <= b
  <2>1. \A x, y \in Nat \ {0} : y <= x * y
    OBVIOUS
  <2> QED
    BY <1>1, <1>3, <2>1
<1>5. i * d \in Nat /\ (i * d) * r = i * b /\ (i * d + 1) * r = i * b + r
  BY <1>1
<1>10. i * d + 1 \in Nat
  BY <1>1
<1>6. (i * d + 1) * r <= a => i * d + 1 <= q
  BY <1>10, DivFacts
<1>7. a < (i * d + 1) * r => q < i * d + 1
  BY <1>10, DivFacts
<1> HIDE DEF q
<1>8. i * b \in Nat
  OBVIOUS
<1>9. i * d < q <=> i * b + r <= a
  BY <1>2, <1>5, <1>6, <1>7, <1>8
<1> QED
  BY <1>1, <1>2, <1>3, <1>4, <1>9 DEF d, q

(* Which blocks a step to target, started at start, needs. *)
LEMMA RequiredMember ==
  ASSUME NEW g \in GroupIds, NEW target \in Nat, NEW start \in Nat
  PROVE  LET b == Groups[g].block
         IN  /\ Required(g, target, start) \subseteq Nat
             /\ IsFiniteSet(Required(g, target, start))
             /\ \A i \in Nat : i \in Required(g, target, start) <=>
                  IF Groups[g].kind = "dense" THEN i * b + Groups[g].ratio <= target
                  ELSE i * b < target /\ AtLeast0(start - Groups[g].window + 1) < i * b + b
<1> DEFINE b == Groups[g].block
           R == Required(g, target, start)
<1>1. /\ b \in Nat \ {0} /\ Groups[g].kind \in {"dense", "window"}
      /\ Groups[g].kind = "dense" => Groups[g].ratio \in Nat \ {0} /\ b % Groups[g].ratio = 0
      /\ Groups[g].kind = "window" => Groups[g].window \in Nat \ {0}
  BY ParamFacts
<1> HIDE DEF b
<1>2. CASE Groups[g].kind = "dense"
  <2> DEFINE r == Groups[g].ratio
             c == Ceil(target \div r, b \div r)
  <2>1. R = 0 .. c - 1
    BY <1>2 DEF Required, b
  <2>2. r \in Nat \ {0} /\ b % r = 0
    BY <1>1, <1>2
  <2> HIDE DEF r
  <2>3. b \div r \in Nat \ {0} /\ target \div r \in Nat
    BY <1>1, <2>2, RatioFacts
  <2>4. c \in Nat /\ \A i \in Nat : i < c <=> i * (b \div r) < target \div r
    BY <2>3, CeilFacts
  <2>5. \A i \in Nat : i * (b \div r) < target \div r <=> i * b + r <= target
    BY <1>1, <2>2, RatioFacts
  <2> HIDE DEF c
  <2>6. \A i \in Nat : i \in R <=> i * b + r <= target
    <3>1. \A i \in Nat : i \in R <=> i < c
      BY <2>1, <2>4
    <3> QED
      BY <2>4, <2>5, <3>1
  <2>7. R \subseteq Nat /\ IsFiniteSet(R)
    <3>1. 0 \in Int /\ c - 1 \in Int
      BY <2>4
    <3> QED
      BY <2>1, <3>1, FS_Interval
  <2> QED
    BY <1>2, <2>6, <2>7 DEF b, r
<1>3. CASE Groups[g].kind = "window"
  <2> DEFINE w == Groups[g].window
             a == AtLeast0(start - w + 1)
             k == a \div b
             c == Ceil(target, b)
  <2>1. R = k .. c - 1
    BY <1>3 DEF Required, FirstKept, b
  <2>2. a \in Nat
    BY <1>1, <1>3 DEF AtLeast0
  <2> HIDE DEF a
  <2>3. k \in Nat /\ c \in Nat /\ \A i \in Nat : i < c <=> i * b < target
    BY <1>1, <2>2, DivFacts, CeilFacts
  <2>4. ASSUME NEW i \in Nat PROVE k <= i <=> a < i * b + b
    <3>1. (i + 1) * b = i * b + b /\ i + 1 \in Nat /\ i * b + b \in Nat
      BY <1>1
    <3>2. a < (i + 1) * b => k < i + 1
      BY <1>1, <2>2, <3>1, DivFacts
    <3>3. (i + 1) * b <= a => i + 1 <= k
      BY <1>1, <2>2, <3>1, DivFacts
    <3> HIDE DEF k
    <3> QED
      BY <2>2, <2>3, <3>1, <3>2, <3>3
  <2> HIDE DEF k, c
  <2>5. \A i \in Nat : i \in R <=> i * b < target /\ a < i * b + b
    <3>1. \A i \in Nat : i \in R <=> k <= i /\ i < c
      BY <2>1, <2>3
    <3> QED
      BY <2>3, <2>4, <3>1
  <2>6. R \subseteq Nat /\ IsFiniteSet(R)
    <3>1. k \in Int /\ c - 1 \in Int
      BY <2>3
    <3> QED
      BY <2>1, <2>3, <3>1, FS_Interval
  <2> QED
    BY <1>3, <2>5, <2>6 DEF b, a
<1> QED
  BY <1>1, <1>2, <1>3 DEF b

(* The blocks a request needs to start at c end at or before c. *)
LEMMA RecoveryFacts ==
  ASSUME NEW g \in GroupIds, NEW c \in Nat
  PROVE  /\ Recovery(g, c) \subseteq Nat /\ IsFiniteSet(Recovery(g, c))
         /\ \A i \in Recovery(g, c) : End(<<g, i>>) \in Nat /\ End(<<g, i>>) <= c
<1> DEFINE b == Groups[g].block
           e == c \div b
           lo == IF Groups[g].kind = "dense" THEN 0 ELSE AtLeast0(e - Need(g))
<1>1. b \in Nat \ {0} /\ (Groups[g].kind = "dense" \/ Need(g) \in Nat)
  BY ParamFacts
<1>2. e \in Nat /\ e * b <= c
  BY <1>1, DivFacts
<1>3. Recovery(g, c) = lo .. e - 1
  BY DEF Recovery
<1>4. lo \in Nat
  <2> HIDE DEF e
  <2> QED
    BY <1>1, <1>2 DEF AtLeast0
<1> HIDE DEF lo, e, b
<1>5. Recovery(g, c) \subseteq Nat /\ IsFiniteSet(Recovery(g, c))
  <2>1. lo \in Int /\ e - 1 \in Int
    BY <1>2, <1>4
  <2> QED
    BY <1>3, <1>4, <2>1, FS_Interval
<1>6. ASSUME NEW i \in Recovery(g, c) PROVE End(<<g, i>>) \in Nat /\ End(<<g, i>>) <= c
  <2>1. i \in Nat /\ i + 1 \in Nat /\ i + 1 <= e
    BY <1>2, <1>3, <1>4, <1>5
  <2>2. \A x, y, d \in Nat : x <= y => x * d <= y * d
    OBVIOUS
  <2>3. (i + 1) * b <= e * b /\ (i + 1) * b \in Nat /\ e * b \in Nat
    BY <1>1, <1>2, <2>1, <2>2
  <2>4. End(<<g, i>>) = (i + 1) * b
    BY DEF End, b
  <2> QED
    BY <1>2, <2>3, <2>4
<1> QED
  BY <1>5, <1>6

(* A step to target needs only blocks of the input. *)
LEMMA RequiredWithin ==
  ASSUME NEW g \in GroupIds, NEW target \in Nat, NEW start \in Nat, NEW n \in Nat, target <= n
  PROVE  Required(g, target, start) \subseteq 0 .. Ceil(n, Groups[g].block) - 1
<1> DEFINE b == Groups[g].block
<1>1. /\ b \in Nat \ {0} /\ Groups[g].kind \in {"dense", "window"}
      /\ Groups[g].kind = "dense" => Groups[g].ratio \in Nat \ {0}
  BY ParamFacts
<1>2. Ceil(n, b) \in Nat /\ \A i \in Nat : i < Ceil(n, b) <=> i * b < n
  BY <1>1, CeilFacts
<1> SUFFICES ASSUME NEW i \in Required(g, target, start) PROVE i \in 0 .. Ceil(n, b) - 1
  OBVIOUS
<1>3. /\ i \in Nat
      /\ IF Groups[g].kind = "dense" THEN i * b + Groups[g].ratio <= target ELSE i * b < target
  BY RequiredMember
<1>4. i * b < n
  <2>1. i * b \in Nat
    BY <1>1, <1>3
  <2> HIDE DEF b
  <2> QED
    BY <1>1, <1>3, <2>1
<1> HIDE DEF b
<1> QED
  BY <1>2, <1>3, <1>4

(***************************************************************************)
(* What a step needs beyond what its start had, reaches beyond the start;  *)
(* a step further on needs no more of the old blocks; and a block between  *)
(* the start and the target is one of those the step needs.                *)
(***************************************************************************)
LEMMA RequiredGrows ==
  ASSUME NEW g \in GroupIds, NEW target \in Nat, NEW p \in Nat, p <= target
  PROVE  /\ \A i \in Required(g, target, p) \ Required(g, p, p) : End(<<g, i>>) > p
         /\ \A q \in Nat : q <= p => Required(g, p, p) \subseteq Required(g, target, q)
         /\ \A i \in Nat : p < End(<<g, i>>) /\ End(<<g, i>>) <= target => i \in Required(g, target, p)
<1> DEFINE b == Groups[g].block
           r == Groups[g].ratio
           w == Groups[g].window
<1>1. /\ b \in Nat \ {0} /\ Groups[g].kind \in {"dense", "window"}
      /\ Groups[g].kind = "dense" => r \in Nat \ {0} /\ r <= b
      /\ Groups[g].kind = "window" => w \in Nat \ {0}
  <2>1. Groups[g].kind = "dense" => r \in Nat \ {0} /\ b % r = 0
    BY ParamFacts
  <2>2. b \in Nat \ {0}
    BY ParamFacts
  <2>3. Groups[g].kind = "dense" => r <= b
    <3> HIDE DEF b, r
    <3>1. 0 \in Nat
      OBVIOUS
    <3> QED
      BY <2>1, <2>2, <3>1, RatioFacts
  <2> QED
    BY <2>1, <2>3, ParamFacts
<1>2. ASSUME NEW t \in Nat, NEW s \in Nat
      PROVE  /\ Required(g, t, s) \subseteq Nat
             /\ \A i \in Nat : i \in Required(g, t, s) <=>
                  IF Groups[g].kind = "dense" THEN i * b + r <= t
                  ELSE i * b < t /\ AtLeast0(s - w + 1) < i * b + b
  BY RequiredMember
<1>3. \A i \in Nat : End(<<g, i>>) = i * b + b /\ i * b \in Nat
  <2>1. ASSUME NEW i \in Nat PROVE End(<<g, i>>) = i * b + b /\ i * b \in Nat
    <3>1. End(<<g, i>>) = (i + 1) * b
      BY DEF End
    <3> HIDE DEF b
    <3>2. (i + 1) * b = i * b + b
      BY <1>1
    <3> QED
      BY <1>1, <3>1, <3>2
  <2> QED
    BY <2>1
<1> HIDE DEF b, r, w
<1>4. \A s, t \in Nat : s <= t /\ Groups[g].kind = "window" =>
        AtLeast0(s - w + 1) \in Nat /\ AtLeast0(s - w + 1) <= AtLeast0(t - w + 1) /\ AtLeast0(s - w + 1) <= s
  BY <1>1 DEF AtLeast0
<1>5. ASSUME NEW i \in Required(g, target, p) \ Required(g, p, p) PROVE End(<<g, i>>) > p
  <2>1. i \in Nat /\ i * b \in Nat /\ End(<<g, i>>) = i * b + b
    BY <1>2, <1>3
  <2>2. CASE Groups[g].kind = "dense"
    <3>1. ~ (i * b + r <= p)
      BY <1>2, <2>1, <2>2, <1>5
    <3> QED
      BY <1>1, <2>1, <2>2, <3>1
  <2>3. CASE Groups[g].kind = "window"
    <3>1. AtLeast0(p - w + 1) < i * b + b
      BY <1>2, <2>1, <2>3, <1>5
    <3>2. ~ (i * b < p)
      BY <1>2, <2>1, <2>3, <1>5, <3>1
    <3> QED
      BY <1>1, <2>1, <3>2
  <2> QED
    BY <1>1, <2>2, <2>3
<1>6. ASSUME NEW q \in Nat, q <= p, NEW i \in Required(g, p, p) PROVE i \in Required(g, target, q)
  <2>1. i \in Nat /\ i * b \in Nat
    BY <1>2, <1>3, <1>6
  <2>2. CASE Groups[g].kind = "dense"
    <3>1. i * b + r <= p
      BY <1>2, <1>6, <2>1, <2>2
    <3>2. i * b + r <= target
      BY <1>1, <2>1, <2>2, <3>1
    <3> QED
      BY <1>2, <1>6, <2>1, <2>2, <3>2
  <2>3. CASE Groups[g].kind = "window"
    <3>1. i * b < p /\ AtLeast0(p - w + 1) < i * b + b
      BY <1>2, <1>6, <2>1, <2>3
    <3>2. i * b < target /\ AtLeast0(q - w + 1) < i * b + b
      <4>1. /\ AtLeast0(q - w + 1) \in Nat /\ AtLeast0(p - w + 1) \in Nat
            /\ AtLeast0(q - w + 1) <= AtLeast0(p - w + 1)
        BY <1>4, <1>6, <2>3
      <4> QED
        BY <1>1, <2>1, <3>1, <4>1
    <3> QED
      BY <1>2, <1>6, <2>1, <2>3, <3>2
  <2> QED
    BY <1>1, <2>2, <2>3
<1>7. ASSUME NEW i \in Nat, p < End(<<g, i>>), End(<<g, i>>) <= target PROVE i \in Required(g, target, p)
  <2>1. i * b \in Nat /\ p < i * b + b /\ i * b + b <= target
    BY <1>3, <1>7
  <2>2. CASE Groups[g].kind = "dense"
    <3>1. i * b + r <= target
      BY <1>1, <2>1, <2>2
    <3> QED
      BY <1>2, <2>2, <3>1
  <2>3. CASE Groups[g].kind = "window"
    <3>1. i * b < target /\ AtLeast0(p - w + 1) < i * b + b
      <4>1. AtLeast0(p - w + 1) \in Nat /\ AtLeast0(p - w + 1) <= p
        BY <1>4, <2>3
      <4> QED
        BY <1>1, <2>1, <4>1
    <3> QED
      BY <1>2, <2>3, <3>1
  <2> QED
    BY <1>1, <2>2, <2>3
<1> QED
  BY <1>5, <1>6, <1>7

(***************************************************************************)
(* What a lookup at c gives, together with the blocks beyond c, is all     *)
(* that a step from c needs: a window reaches back no further than the     *)
(* blocks a boundary keeps.                                                *)
(***************************************************************************)
LEMMA RecoverySuffices ==
  ASSUME NEW g \in GroupIds, NEW target \in Nat, NEW c \in Nat, c % Alignment = 0,
         NEW i \in Required(g, target, c) \ Recovery(g, c)
  PROVE  End(<<g, i>>) > c
<1> DEFINE b == Groups[g].block
           w == Groups[g].window
           e == c \div b
<1>1. /\ b \in Nat \ {0} /\ Groups[g].kind \in {"dense", "window"}
      /\ Groups[g].kind = "window" => w \in Nat \ {0} /\ Need(g) \in Nat
  BY ParamFacts
<1>2. e \in Nat /\ e * b = c
  <2>1. c % b = 0
    BY ParamFacts, Multiples
  <2> QED
    BY <1>1, <2>1, DivFacts, DivExact
<1>3. i \in Nat /\ (Groups[g].kind = "window" => AtLeast0(c - w + 1) < i * b + b)
  BY <1>1, RequiredMember
<1>4. End(<<g, i>>) = (i + 1) * b /\ (i + 1) * b = i * b + b /\ i * b \in Nat
  <2>1. End(<<g, i>>) = (i + 1) * b
    BY DEF End
  <2> HIDE DEF b
  <2> QED
    BY <1>1, <1>3, <2>1
<1> SUFFICES ASSUME ~ (End(<<g, i>>) > c) PROVE FALSE
  OBVIOUS
<1>5. Recovery(g, c) = (IF Groups[g].kind = "dense" THEN 0 ELSE AtLeast0(e - Need(g))) .. e - 1
  BY DEF Recovery
<1> HIDE DEF b, w, e
<1>6. (i + 1) * b <= e * b
  BY <1>1, <1>2, <1>4
<1>7. i + 1 <= e
  <2>1. (e * b) \div b = e
    <3>1. \A x \in Nat, d \in Nat \ {0} : (x * d) \div d = x
      OBVIOUS
    <3> QED
      BY <1>1, <1>2, <3>1
  <2>2. i + 1 \in Nat /\ e * b \in Nat
    BY <1>1, <1>2, <1>3
  <2> QED
    BY <1>1, <1>6, <2>1, <2>2, DivFacts
<1>8. CASE Groups[g].kind = "dense"
  BY <1>2, <1>3, <1>5, <1>7, <1>8
<1>9. CASE Groups[g].kind = "window"
  <2> DEFINE d == Need(g)
  <2>1. d \in Nat /\ w \in Nat \ {0}
    BY <1>1, <1>9
  <2>2. w - 1 <= d * b /\ d * b \in Nat
    <3>1. d = Ceil(w - 1, b)
      BY DEF Need, b, w
    <3>2. w - 1 \in Nat
      BY <2>1
    <3> HIDE DEF d
    <3>3. w - 1 <= Ceil(w - 1, b) * b
      BY <1>1, <3>2, CeilFacts
    <3>4. d * b \in Nat
      BY <1>1, <2>1
    <3> QED
      BY <3>1, <3>3, <3>4
  <2>3. Recovery(g, c) = AtLeast0(e - d) .. e - 1
    BY <1>5, <1>9
  <2> HIDE DEF d
  <2>4. i + 1 + d <= e
    <3>1. ~ (AtLeast0(e - d) <= i)
      BY <1>2, <1>3, <1>7, <2>1, <2>3 DEF AtLeast0
    <3> QED
      BY <1>2, <1>3, <2>1, <3>1 DEF AtLeast0
  <2>5. (i + 1) * b + d * b <= e * b
    <3>1. \A x, y, z \in Nat : x <= y => x * z <= y * z
      OBVIOUS
    <3>2. i + 1 + d \in Nat /\ (i + 1 + d) * b = (i + 1) * b + d * b
      BY <1>1, <1>3, <2>1
    <3> QED
      BY <1>1, <1>2, <2>4, <3>1, <3>2
  <2>6. c - w + 1 >= i * b + b
    BY <1>1, <1>2, <1>4, <2>1, <2>2, <2>5
  <2>7. AtLeast0(c - w + 1) >= i * b + b
    BY <1>1, <1>4, <2>1, <2>6 DEF AtLeast0
  <2>8. AtLeast0(c - w + 1) \in Int /\ i * b + b \in Int
    BY <1>1, <1>4, <2>1 DEF AtLeast0
  <2> QED
    BY <1>3, <1>9, <2>7, <2>8
<1> QED
  BY <1>1, <1>8, <1>9

-----------------------------------------------------------------------------
(* The inductive invariant. *)

(***************************************************************************)
(* The inductive invariant of the engine.  Its parts take the values they  *)
(* constrain as parameters, so that a step is a change of the arguments.   *)
(***************************************************************************)
InputBlocks(r) ==
  UNION {{g} \X (0 .. Ceil(Length(r), Groups[g].block) - 1) : g \in GroupIds}

(* A request holds a page of its own for each of some blocks of its input. *)
Shape(pg) ==
  /\ pg = [r \in Requests |-> pg[r]]
  /\ \A r \in Requests : /\ DOMAIN pg[r] \subseteq InputBlocks(r)
                         /\ pg[r] \in [DOMAIN pg[r] -> Pages]
                         /\ \A m, q \in DOMAIN pg[r] : pg[r][m] = pg[r][q] => m = q

(* The phases and the token counts of the requests. *)
Progress ==
  /\ phase \in [Requests -> Phases]
  /\ position \in [Requests -> Nat] /\ pending \in [Requests -> Nat]
  /\ adopted \in [Requests -> Nat] /\ compute \in [Requests -> Nat]
  /\ \A r \in Requests :
       /\ position[r] <= Length(r) /\ pending[r] <= Length(r)
       /\ pending[r] # NoStep => phase[r] = "running" /\ position[r] <= pending[r]
       /\ adopted[r] + compute[r] = position[r]
       /\ phase[r] \in {"waiting", "arrived"} =>
            position[r] = 0 /\ DOMAIN pages[r] = {}
       /\ phase[r] \in {"transfer", "decode", "complete"} => position[r] = Length(r)

(* A page with a key that r holds has the key of the block and is committed; *)
(* one without a key is only r's.                                          *)
Held(pg, ps, pos) ==
  \A r \in Requests : \A m \in DOMAIN pg[r] :
    LET pool == ps[DomainOf(r)]
        p == pg[r][m]
    IN  \/ pool.key[p] = NoKey /\ pool.refs[p] = 1
        \/ pool.key[p] = Key(r, m) /\ End(m) <= pos[r]

(* What the next step of a request reads and writes is in its hands. *)
Context ==
  \A r \in Requests, g \in GroupIds :
    /\ phase[r] \in {"running", "transfer"} =>
         {g} \X Required(g, position[r], position[r]) \subseteq DOMAIN pages[r]
    /\ pending[r] # NoStep =>
         {g} \X Required(g, pending[r], position[r]) \subseteq DOMAIN pages[r]

(* Where the requests of domain d hold page p. *)
Holding(pg, d, p) ==
  UNION {{r} \X {m \in DOMAIN pg[r] : pg[r][m] = p} : r \in {q \in Requests : DomainOf(q) = d}}

(* A reference count is the number of holders. *)
Counted(pg, ps) ==
  \A d \in Domains : \A p \in Pages : ps[d].refs[p] = Cardinality(Holding(pg, d, p))

(***************************************************************************)
(* Every key in a pool is that of a block some request of the domain       *)
(* committed, and while no key was replaced every block that a request     *)
(* committed and that a boundary needs has a page.                         *)
(***************************************************************************)
Published(ps, pos) ==
  \A d \in Domains : \A p \in Pages : ps[d].key[p] # NoKey =>
    \E r \in Requests : \E m \in AllBlocks(Length(r)) :
      DomainOf(r) = d /\ ps[d].key[p] = Key(r, m) /\ End(m) <= pos[r]

(***************************************************************************)
(* See Published: no key of a retained, committed block is lost without a  *)
(* replacement.                                                            *)
(***************************************************************************)
Remembered(ps, pos) ==
  \A r \in Requests : ps[DomainOf(r)].removed = {} =>
    \A m \in AllBlocks(Length(r)) : Retained(m[1], m[2]) /\ End(m) <= pos[r] =>
      \E p \in Pages : ps[DomainOf(r)].key[p] = Key(r, m)

(* A step never fails for a state that went missing or for an allocation. *)
Failed ==
  failure # <<>> => failure \in (Reasons \ {"lost_state", "allocate"}) \X Requests

(* The inductive invariant. *)
CInv ==
  /\ scenario \in Scenarios
  /\ pools = [d \in Domains |-> pools[d]] /\ (\A d \in Domains : SoundPool(pools[d]))
  /\ used \in [Domains -> Nat]
  /\ Failed
  /\ Shape(pages) /\ Progress /\ Context
  /\ Held(pages, pools, position) /\ Counted(pages, pools)
  /\ Published(pools, position) /\ Remembered(pools, position)

(* What validate and the bounds of the model say of the rows. *)
LEMMA RowFacts ==
  ASSUME scenario \in Scenarios
  PROVE  /\ IsFiniteSet(Requests)
         /\ {Concurrency, PSlots, StepBudget} \subseteq Nat
         /\ \A r \in Requests :
              /\ DomainOf(r) \in Domains /\ Length(r) \in Nat \ {0}
              /\ scenario.rows[r].input \in Seq(Range(scenario.rows[r].input))
              /\ \A m \in AllBlocks(Length(r)) : Key(r, m) \in Keys
<1>1. IsFiniteSet(Requests) /\ {Concurrency, PSlots, StepBudget} \subseteq Nat
  BY ScenariosAssumption DEF Requests, Concurrency, PSlots, StepBudget
<1>2. ASSUME NEW r \in Requests
      PROVE  /\ Length(r) \in Nat \ {0}
             /\ scenario.rows[r].input \in Seq(Range(scenario.rows[r].input))
  <2> DEFINE input == scenario.rows[r].input
  <2>1. input \in Seq(Range(input)) /\ input # <<>>
    BY ScenariosAssumption DEF Requests
  <2> HIDE DEF input
  <2>2. Len(input) \in Nat /\ Len(input) # 0
    BY <2>1, LenProperties, EmptySeq
  <2> QED
    BY <2>1, <2>2 DEF Length, input
<1>3. ASSUME NEW r \in Requests, NEW m \in AllBlocks(Length(r)) PROVE Key(r, m) \in Keys
  BY KeysAssumption DEF Requests, Length, Key
<1>4. \A r \in Requests : DomainOf(r) \in Domains
  BY DEF Domains
<1> QED
  BY <1>1, <1>2, <1>3, <1>4

(* The blocks of an input. *)
LEMMA BlockFacts ==
  ASSUME scenario \in Scenarios, NEW r \in Requests
  PROVE  /\ IsFiniteSet(InputBlocks(r)) /\ InputBlocks(r) \subseteq GroupIds \X Nat
         /\ AllBlocks(Length(r)) \subseteq GroupIds \X Nat
         /\ \A m \in GroupIds \X Nat :
              /\ End(m) \in Nat \ {0}
              /\ m \in AllBlocks(Length(r)) <=> End(m) <= Length(r)
<1> DEFINE n == Length(r)
           F(g) == {g} \X (0 .. Ceil(n, Groups[g].block) - 1)
           f == [g \in GroupIds |-> F(g)]
           T == {F(g) : g \in GroupIds}
<1>1. n \in Nat
  BY RowFacts
<1> HIDE DEF n
<1>2. \A g \in GroupIds : Groups[g].block \in Nat \ {0} /\ Ceil(n, Groups[g].block) \in Nat
  BY <1>1, ParamFacts, CeilFacts
<1>3. IsFiniteSet(T)
  <2>1. f \in Surjection(GroupIds, T)
    BY DEF Surjection
  <2>2. IsFiniteSet(GroupIds)
    BY GroupFacts
  <2> HIDE DEF f, T
  <2> QED
    BY <2>1, <2>2, FS_Surjection
<1>4. \A x \in T : IsFiniteSet(x)
  <2>1. ASSUME NEW g \in GroupIds PROVE IsFiniteSet(F(g))
    <3>1. IsFiniteSet({g})
      BY FS_Singleton
    <3>2. 0 \in Int /\ Ceil(n, Groups[g].block) - 1 \in Int
      BY <1>2
    <3>3. IsFiniteSet(0 .. Ceil(n, Groups[g].block) - 1)
      BY <3>2, FS_Interval
    <3> QED
      BY <3>1, <3>3, FS_Product
  <2> QED
    BY <2>1
<1>5. InputBlocks(r) = UNION T
  BY DEF InputBlocks, n
<1>6. IsFiniteSet(UNION T)
  <2> HIDE DEF T
  <2> QED
    BY <1>3, <1>4, FS_UNION
<1>7. InputBlocks(r) \subseteq GroupIds \X Nat
  BY DEF InputBlocks
<1>8. AllBlocks(n) \subseteq GroupIds \X Nat
  BY DEF AllBlocks
<1>9. ASSUME NEW m \in GroupIds \X Nat
      PROVE  End(m) \in Nat \ {0} /\ (m \in AllBlocks(n) <=> End(m) <= n)
  <2> DEFINE g == m[1]
             i == m[2]
             b == Groups[m[1]].block
  <2>1. g \in GroupIds /\ i \in Nat /\ m = <<g, i>> /\ b \in Nat \ {0}
    BY <1>2
  <2>2. End(m) = (i + 1) * b
    BY DEF End
  <2>3. m \in AllBlocks(n) <=> i \in 0 .. (n \div b) - 1
    BY <2>1 DEF AllBlocks
  <2> HIDE DEF g, i, b
  <2>4. (i + 1) * b \in Nat \ {0}
    <3>1. \A x, y \in Nat \ {0} : x * y \in Nat \ {0}
      OBVIOUS
    <3>2. i + 1 \in Nat \ {0}
      BY <2>1
    <3> QED
      BY <2>1, <3>1, <3>2
  <2>5. i + 1 \in Nat /\ n \div b \in Nat
    BY <1>1, <2>1, DivFacts
  <2>6. (i + 1) * b <= n => i + 1 <= n \div b
    BY <1>1, <2>1, <2>5, DivFacts
  <2>7. n < (i + 1) * b => n \div b < i + 1
    BY <1>1, <2>1, <2>5, DivFacts
  <2>8. (i + 1) * b <= n <=> i \in 0 .. (n \div b) - 1
    BY <1>1, <2>1, <2>4, <2>5, <2>6, <2>7
  <2> QED
    BY <2>2, <2>3, <2>4, <2>8
<1> QED
  BY <1>5, <1>6, <1>7, <1>8, <1>9 DEF n

(* Blocks with the same key are of one group and one size, and what comes  *)
(* before them is the same.                                                *)
LEMMA SameKey ==
  ASSUME scenario \in Scenarios, NEW r \in Requests, NEW s \in Requests,
         NEW m \in AllBlocks(Length(r)), NEW q \in AllBlocks(Length(s)), Key(r, m) = Key(s, q)
  PROVE  /\ m = q
         /\ \A x \in GroupIds \X Nat : End(x) <= End(m) => Key(r, x) = Key(s, x)
<1> DEFINE u == scenario.rows[r].input
           v == scenario.rows[s].input
           e == End(m)
<1>1. /\ u \in Seq(Range(u)) /\ v \in Seq(Range(v))
      /\ Len(u) = Length(r) /\ Len(v) = Length(s) /\ Len(u) \in Nat /\ Len(v) \in Nat
  BY RowFacts DEF Length
<1>2. /\ m \in GroupIds \X Nat /\ q \in GroupIds \X Nat
      /\ e \in Nat \ {0} /\ e <= Len(u) /\ End(q) \in Nat \ {0} /\ End(q) <= Len(v)
  BY <1>1, BlockFacts
<1>3. /\ m[1] = q[1] /\ scenario.rows[r].identity = scenario.rows[s].identity
      /\ SubSeq(u, 1, e) = SubSeq(v, 1, End(q))
  BY DEF Key, PrefixKey
<1> HIDE DEF u, v
<1>4. /\ Len(SubSeq(u, 1, e)) = e /\ Len(SubSeq(v, 1, End(q))) = End(q)
      /\ \A i \in 1 .. e : SubSeq(u, 1, e)[i] = u[i]
      /\ \A i \in 1 .. End(q) : SubSeq(v, 1, End(q))[i] = v[i]
  <2>1. ASSUME NEW T, NEW w \in Seq(T), NEW k \in Nat \ {0}, k <= Len(w)
        PROVE  Len(SubSeq(w, 1, k)) = k /\ \A i \in 1 .. k : SubSeq(w, 1, k)[i] = w[i]
    <3>1. 1 \in 1 .. Len(w) + 1 /\ k \in 1 - 1 .. Len(w)
      BY <2>1, LenProperties
    <3> QED
      BY <2>1, <3>1, SubSeqProperties
  <2> HIDE DEF e
  <2> QED
    BY <1>1, <1>2, <2>1
<1>5. e = End(q) /\ \A i \in 1 .. e : u[i] = v[i]
  BY <1>3, <1>4
<1>6. m = q
  <2> DEFINE b == Groups[m[1]].block
  <2>1. b \in Nat \ {0} /\ m[2] \in Nat /\ q[2] \in Nat
    BY <1>2, ParamFacts
  <2>2. (m[2] + 1) * b = (q[2] + 1) * b
    BY <1>3, <1>5 DEF End
  <2> HIDE DEF b
  <2>3. m[2] + 1 = q[2] + 1
    <3>1. \A x, y \in Nat, d \in Nat \ {0} : x * d = y * d => x = y
      OBVIOUS
    <3>2. m[2] + 1 \in Nat /\ q[2] + 1 \in Nat
      BY <2>1
    <3> QED
      BY <2>1, <2>2, <3>1, <3>2
  <2>4. m = <<m[1], m[2]>> /\ q = <<q[1], q[2]>>
    BY <1>2
  <2> QED
    BY <1>3, <2>1, <2>3, <2>4
<1>7. ASSUME NEW x \in GroupIds \X Nat, End(x) <= e PROVE Key(r, x) = Key(s, x)
  <2>1. End(x) \in Nat \ {0}
    BY BlockFacts
  <2>2. SubSeq(u, 1, End(x)) = SubSeq(v, 1, End(x))
    <3> DEFINE k == End(x)
    <3>1. SubSeq(u, 1, k) = [i \in 1 .. k |-> u[i]] /\ SubSeq(v, 1, k) = [i \in 1 .. k |-> v[i]]
      <4>1. ASSUME NEW w PROVE SubSeq(w, 1, k) = [i \in 1 .. k |-> w[i]]
        <5>1. k \in Nat
          BY <2>1
        <5> HIDE DEF k
        <5> QED
          BY <5>1
      <4> QED
        BY <4>1
    <3>2. \A i \in 1 .. k : u[i] = v[i]
      <4>1. \A i \in 1 .. k : i \in 1 .. e
        BY <1>2, <1>7, <2>1
      <4> QED
        BY <1>5, <4>1
    <3>3. [i \in 1 .. k |-> u[i]] = [i \in 1 .. k |-> v[i]]
      BY <3>2
    <3> QED
      BY <3>1, <3>3
  <2> QED
    BY <1>3, <2>2 DEF Key, PrefixKey, u, v
<1> QED
  BY <1>6, <1>7

(* How often h holds page p: a request never holds a page twice. *)
Count(h, p) == IF \E m \in DOMAIN h : h[m] = p THEN 1 ELSE 0

(* Where requests of the domain of r other than r hold page p. *)
Others(pg, r, p) ==
  UNION {{q} \X {m \in DOMAIN pg[q] : pg[q][m] = p} :
           q \in {x \in Requests : DomainOf(x) = DomainOf(r) /\ x # r}}

(* The holders of a page are those of one request and the others. *)
LEMMA HoldersSplit ==
  ASSUME scenario \in Scenarios, NEW pg, Shape(pg), NEW r \in Requests, NEW p
  PROVE  /\ IsFiniteSet(Others(pg, r, p)) /\ Cardinality(Others(pg, r, p)) \in Nat
         /\ Cardinality(Holding(pg, DomainOf(r), p)) = Cardinality(Others(pg, r, p)) + Count(pg[r], p)
         /\ \A q \in Requests : \A m \in DOMAIN pg[q] :
              q # r /\ DomainOf(q) = DomainOf(r) /\ pg[q][m] = p => Cardinality(Others(pg, r, p)) > 0
<1> DEFINE S == {x \in Requests : DomainOf(x) = DomainOf(r) /\ x # r}
           A(q) == {m \in DOMAIN pg[q] : pg[q][m] = p}
           F(q) == {q} \X A(q)
           T == {F(q) : q \in S}
           f == [q \in S |-> F(q)]
           O == Others(pg, r, p)
<1>1. O = UNION T
  BY DEF Others
<1>2. \A q \in Requests : IsFiniteSet(F(q)) /\ IsFiniteSet(A(q))
  <2>1. ASSUME NEW q \in Requests PROVE IsFiniteSet(F(q)) /\ IsFiniteSet(A(q))
    <3>1. IsFiniteSet({q})
      BY FS_Singleton
    <3>2. A(q) \in SUBSET InputBlocks(q)
      BY DEF Shape
    <3>3. IsFiniteSet(InputBlocks(q))
      BY BlockFacts
    <3>4. IsFiniteSet(A(q))
      BY <3>2, <3>3, FS_Subset
    <3> QED
      BY <3>1, <3>4, FS_Product
  <2> QED
    BY <2>1
<1>3. IsFiniteSet(S)
  <2>1. IsFiniteSet(Requests) /\ S \in SUBSET Requests
    BY RowFacts
  <2> HIDE DEF S
  <2> QED
    BY <2>1, FS_Subset
<1>4. IsFiniteSet(T)
  <2>1. f \in Surjection(S, T)
    BY DEF Surjection
  <2> HIDE DEF f, T, S
  <2> QED
    BY <1>3, <2>1, FS_Surjection
<1>5. \A x \in T : IsFiniteSet(x)
  BY <1>2
<1>6. IsFiniteSet(O)
  <2> HIDE DEF T, O
  <2> QED
    BY <1>1, <1>4, <1>5, FS_UNION
<1>7. Cardinality(O) \in Nat
  BY <1>6, FS_CardinalityType
<1>8. Holding(pg, DomainOf(r), p) = O \cup F(r) /\ O \cap F(r) = {}
  <2>1. {x \in Requests : DomainOf(x) = DomainOf(r)} = S \cup {r}
    OBVIOUS
  <2>2. Holding(pg, DomainOf(r), p) = O \cup F(r)
    BY <1>1, <2>1 DEF Holding
  <2>3. \A x \in O : x[1] # r
    BY <1>1
  <2>4. \A x \in F(r) : x[1] = r
    OBVIOUS
  <2> QED
    BY <2>2, <2>3, <2>4
<1>9. Cardinality(F(r)) = Count(pg[r], p)
  <2>1. CASE \E m \in DOMAIN pg[r] : pg[r][m] = p
    <3>1. PICK m \in DOMAIN pg[r] : pg[r][m] = p
      BY <2>1
    <3>2. A(r) = {m}
      BY <3>1 DEF Shape
    <3>3. F(r) = {<<r, m>>}
      BY <3>2
    <3> QED
      BY <2>1, <3>3, FS_Singleton DEF Count
  <2>2. CASE ~ \E m \in DOMAIN pg[r] : pg[r][m] = p
    <3>1. F(r) = {}
      BY <2>2
    <3> QED
      BY <2>2, <3>1, FS_EmptySet DEF Count
  <2> QED
    BY <2>1, <2>2
<1>10. Cardinality(O \cup F(r)) = Cardinality(O) + Cardinality(F(r)) - Cardinality({})
  <2>1. IsFiniteSet(F(r))
    BY <1>2
  <2> HIDE DEF O, F
  <2> QED
    BY <1>6, <1>8, <2>1, FS_Union
<1>11. ASSUME NEW q \in Requests, NEW m \in DOMAIN pg[q], q # r, DomainOf(q) = DomainOf(r), pg[q][m] = p
       PROVE  Cardinality(O) > 0
  <2>1. <<q, m>> \in O
    BY <1>1, <1>11
  <2>2. Cardinality(O) # 0
    BY <1>6, <2>1, FS_EmptySet
  <2> HIDE DEF O
  <2> QED
    BY <1>7, <2>2
<1>12. Cardinality({}) = 0 /\ Count(pg[r], p) \in Nat
  BY FS_EmptySet DEF Count
<1> HIDE DEF O, F
<1>13. Cardinality(Holding(pg, DomainOf(r), p)) = Cardinality(O) + Count(pg[r], p)
  BY <1>7, <1>8, <1>9, <1>10, <1>12
<1> QED
  BY <1>6, <1>7, <1>11, <1>13 DEF O

-----------------------------------------------------------------------------
(* A step as a change of one request's pages and of its pool. *)

(***************************************************************************)
(* What every event of request r does to the pool of its domain and to the *)
(* blocks it holds: the references follow what r holds, a page that others *)
(* hold keeps its key, and r comes to hold only pages with a key or free   *)
(* ones.                                                                   *)
(***************************************************************************)
Move(r, pool, h, pos) ==
  LET old == pools[DomainOf(r)]
  IN  /\ SoundPool(pool)
      /\ DOMAIN h \subseteq InputBlocks(r) /\ h \in [DOMAIN h -> Pages]
      /\ \A m, q \in DOMAIN h : h[m] = h[q] => m = q
      /\ \A p \in Pages : pool.refs[p] + Count(pages[r], p) = old.refs[p] + Count(h, p)
      /\ \A p \in Pages : pool.key[p] # old.key[p] => old.refs[p] = Count(pages[r], p)
      /\ \A m \in DOMAIN h :
           Count(pages[r], h[m]) = 1 \/ old.key[h[m]] # NoKey \/ old.refs[h[m]] = 0
      /\ \A m \in DOMAIN h :
           \/ pool.key[h[m]] = NoKey /\ pool.refs[h[m]] = 1
           \/ pool.key[h[m]] = Key(r, m) /\ End(m) <= pos

(* What it does to the keys, as Published and Remembered need it. *)
Keying(r, pool, pos) ==
  LET old == pools[DomainOf(r)]
  IN  /\ \A p \in Pages : pool.key[p] \in {NoKey, old.key[p]} \/
           \E m \in AllBlocks(Length(r)) : pool.key[p] = Key(r, m) /\ End(m) <= pos
      /\ pool.removed = {} =>
           /\ old.removed = {}
           /\ \A p \in Pages : old.key[p] # NoKey => pool.key[p] = old.key[p]
           /\ \A m \in AllBlocks(Length(r)) : Retained(m[1], m[2]) /\ End(m) <= pos =>
                \E p \in Pages : pool.key[p] = Key(r, m)

(***************************************************************************)
(* A move of r keeps the parts of the invariant about pages, references    *)
(* and holders.                                                            *)
(***************************************************************************)
LEMMA MoveKeeps ==
  ASSUME CInv, NEW r \in Requests, NEW pool, NEW h, NEW pos \in Nat, position[r] <= pos,
         Move(r, pool, h, pos), NEW pg, NEW ps, NEW pn,
         pg = [pages EXCEPT ![r] = h], ps = [pools EXCEPT ![DomainOf(r)] = pool],
         pn = [position EXCEPT ![r] = pos]
  PROVE  /\ ps = [d \in Domains |-> ps[d]] /\ \A d \in Domains : SoundPool(ps[d])
         /\ Shape(pg) /\ Held(pg, ps, pn) /\ Counted(pg, ps)
         /\ \A q \in Requests \ {r} : \A m \in DOMAIN pages[q] :
              ps[DomainOf(q)].key[pages[q][m]] = pools[DomainOf(q)].key[pages[q][m]]
<1> DEFINE d == DomainOf(r)
           old == pools[d]
<1>1. scenario \in Scenarios /\ Shape(pages) /\ Counted(pages, pools) /\ Held(pages, pools, position)
  BY DEF CInv
<1>2. d \in Domains /\ \A q \in Requests : DomainOf(q) \in Domains
  BY <1>1, RowFacts
<1>3. /\ SoundPool(pool)
      /\ DOMAIN h \subseteq InputBlocks(r) /\ h \in [DOMAIN h -> Pages]
      /\ \A m, q \in DOMAIN h : h[m] = h[q] => m = q
      /\ \A p \in Pages : pool.refs[p] + Count(pages[r], p) = old.refs[p] + Count(h, p)
      /\ \A p \in Pages : pool.key[p] # old.key[p] => old.refs[p] = Count(pages[r], p)
      /\ \A m \in DOMAIN h :
           Count(pages[r], h[m]) = 1 \/ old.key[h[m]] # NoKey \/ old.refs[h[m]] = 0
      /\ \A m \in DOMAIN h :
           \/ pool.key[h[m]] = NoKey /\ pool.refs[h[m]] = 1
           \/ pool.key[h[m]] = Key(r, m) /\ End(m) <= pos
  BY DEF Move
<1>4. ps = [x \in Domains |-> ps[x]] /\ ps[d] = pool /\ (\A x \in Domains \ {d} : ps[x] = pools[x])
  BY <1>2 DEF CInv
<1>5. \A x \in Domains : SoundPool(ps[x])
  BY <1>3, <1>4 DEF CInv
<1>6. DOMAIN pg = Requests /\ pg[r] = h /\ \A q \in Requests \ {r} : pg[q] = pages[q]
  BY <1>1 DEF Shape
<1>7. Shape(pg)
  <2>1. ASSUME NEW q \in Requests
        PROVE  /\ DOMAIN pg[q] \subseteq InputBlocks(q)
               /\ pg[q] \in [DOMAIN pg[q] -> Pages]
               /\ \A m, x \in DOMAIN pg[q] : pg[q][m] = pg[q][x] => m = x
    <3>1. CASE q = r
      BY <1>3, <1>6, <3>1
    <3>2. CASE q # r
      BY <1>1, <1>6, <3>2 DEF Shape
    <3> QED
      BY <3>1, <3>2
  <2> QED
    BY <1>6, <2>1 DEF Shape
<1>8. pn[r] = pos /\ \A q \in Requests \ {r} : pn[q] = position[q]
  BY DEF CInv, Progress
<1>9. \A p \in Pages : Others(pg, r, p) = Others(pages, r, p)
  BY <1>6 DEF Others
<1>10. \A p \in Pages : \A x \in Domains \ {d} : Holding(pg, x, p) = Holding(pages, x, p)
  <2>1. ASSUME NEW p \in Pages, NEW x \in Domains \ {d}, NEW q \in {y \in Requests : DomainOf(y) = x}
        PROVE  pg[q] = pages[q]
    BY <1>6, <2>1
  <2> QED
    BY <2>1 DEF Holding
<1>11. ASSUME NEW p \in Pages
       PROVE  /\ old.refs[p] = Cardinality(Others(pages, r, p)) + Count(pages[r], p)
              /\ Cardinality(Others(pages, r, p)) \in Nat
              /\ Cardinality(Holding(pg, d, p)) = Cardinality(Others(pages, r, p)) + Count(h, p)
              /\ \A q \in Requests : \A m \in DOMAIN pages[q] :
                   q # r /\ DomainOf(q) = d /\ pages[q][m] = p => Cardinality(Others(pages, r, p)) > 0
  <2>1. old.refs[p] = Cardinality(Holding(pages, d, p))
    BY <1>1, <1>2 DEF Counted
  <2>2. /\ Cardinality(Others(pages, r, p)) \in Nat
        /\ Cardinality(Holding(pages, d, p)) = Cardinality(Others(pages, r, p)) + Count(pages[r], p)
        /\ \A q \in Requests : \A m \in DOMAIN pages[q] :
             q # r /\ DomainOf(q) = DomainOf(r) /\ pages[q][m] = p => Cardinality(Others(pages, r, p)) > 0
    BY <1>1, HoldersSplit
  <2>3. Cardinality(Holding(pg, d, p)) = Cardinality(Others(pg, r, p)) + Count(pg[r], p)
    BY <1>1, <1>7, HoldersSplit
  <2> QED
    BY <1>6, <1>9, <2>1, <2>2, <2>3
<1>12. \A x, p : Count(x, p) \in {0, 1}
  BY DEF Count
<1>13. Counted(pg, ps)
  <2>1. ASSUME NEW p \in Pages PROVE pool.refs[p] = Cardinality(Holding(pg, d, p))
    <3>1. pool.refs[p] + Count(pages[r], p) = old.refs[p] + Count(h, p)
      BY <1>3
    <3>2. pool.refs[p] \in Nat
      BY <1>3 DEF SoundPool, PoolState
    <3>3. Count(pages[r], p) \in Nat /\ Count(h, p) \in Nat
      <4>1. Count(pages[r], p) \in {0, 1} /\ Count(h, p) \in {0, 1}
        BY <1>12
      <4> QED
        BY <4>1
    <3>4. /\ old.refs[p] = Cardinality(Others(pages, r, p)) + Count(pages[r], p)
          /\ Cardinality(Others(pages, r, p)) \in Nat
          /\ Cardinality(Holding(pg, d, p)) = Cardinality(Others(pages, r, p)) + Count(h, p)
      BY <1>11
    <3>5. \A a, b, c, o, v, w \in Nat : a + b = v + c /\ v = o + b /\ w = o + c => a = w
      OBVIOUS
    <3>6. old.refs[p] \in Nat /\ Cardinality(Holding(pg, d, p)) \in Nat
      BY <3>3, <3>4
    <3> HIDE DEF old
    <3> QED
      BY <3>1, <3>2, <3>3, <3>4, <3>5, <3>6
  <2>2. ASSUME NEW x \in Domains \ {d}, NEW p \in Pages
        PROVE  ps[x].refs[p] = Cardinality(Holding(pg, x, p))
    <3>1. ps[x] = pools[x] /\ Holding(pg, x, p) = Holding(pages, x, p)
      BY <1>4, <1>10
    <3>2. pools[x].refs[p] = Cardinality(Holding(pages, x, p))
      BY <1>1 DEF Counted
    <3> QED
      BY <3>1, <3>2
  <2> QED
    BY <1>4, <2>1, <2>2 DEF Counted
<1>14. ASSUME NEW q \in Requests, q # r, DomainOf(q) = d, NEW m \in DOMAIN pages[q]
       PROVE  /\ pages[q][m] \in Pages
              /\ old.refs[pages[q][m]] # Count(pages[r], pages[q][m])
              /\ old.refs[pages[q][m]] # 0
  <2> DEFINE p == pages[q][m]
  <2>1. p \in Pages
    BY <1>1 DEF Shape
  <2>2. Cardinality(Others(pages, r, p)) > 0 /\ Cardinality(Others(pages, r, p)) \in Nat
    BY <1>11, <1>14, <2>1
  <2>3. Count(pages[r], p) \in {0, 1}
    BY <1>12
  <2> QED
    BY <1>11, <2>1, <2>2, <2>3
<1>15. ASSUME NEW q \in Requests, q # r, NEW m \in DOMAIN pages[q]
       PROVE  LET p == pages[q][m]
                  D == DomainOf(q)
              IN  /\ ps[D].key[p] = pools[D].key[p]
                  /\ \/ ps[D].key[p] = NoKey /\ ps[D].refs[p] = 1
                     \/ ps[D].key[p] = Key(q, m) /\ End(m) <= pn[q]
  <2> DEFINE p == pages[q][m]
             D == DomainOf(q)
  <2>1. \/ pools[D].key[p] = NoKey /\ pools[D].refs[p] = 1
        \/ pools[D].key[p] = Key(q, m) /\ End(m) <= position[q]
    BY <1>1 DEF Held
  <2>2. pn[q] = position[q]
    BY <1>8, <1>15
  <2>3. CASE D # d
    <3>1. ps[D] = pools[D]
      BY <1>2, <1>4, <2>3
    <3> QED
      BY <2>1, <2>2, <3>1
  <2>4. CASE D = d
    <3>1. p \in Pages /\ old.refs[p] # Count(pages[r], p) /\ old.refs[p] # 0
      BY <1>14, <1>15, <2>4
    <3>2. pool.key[p] = old.key[p]
      BY <1>3, <3>1
    <3>3. ASSUME old.key[p] = NoKey, old.refs[p] = 1 PROVE pool.refs[p] = 1
      <4>1. Count(pages[r], p) = 0
        BY <1>12, <3>1, <3>3
      <4>2. Count(h, p) = 0
        <5>1. ASSUME NEW x \in DOMAIN h, h[x] = p PROVE FALSE
          BY <1>3, <3>1, <3>3, <4>1, <5>1
        <5> QED
          BY <5>1 DEF Count
      <4>3. pool.refs[p] + 0 = 1 + 0 /\ pool.refs[p] \in Nat
        BY <1>3, <3>1, <3>3, <4>1, <4>2 DEF SoundPool, PoolState
      <4> QED
        BY <4>3
    <3>4. ps[D] = pool /\ pools[D] = old
      BY <1>4, <2>4
    <3> QED
      BY <2>1, <2>2, <3>2, <3>3, <3>4
  <2> QED
    BY <2>3, <2>4
<1>16. Held(pg, ps, pn)
  <2>1. ASSUME NEW q \in Requests, NEW m \in DOMAIN pg[q]
        PROVE  \/ ps[DomainOf(q)].key[pg[q][m]] = NoKey /\ ps[DomainOf(q)].refs[pg[q][m]] = 1
               \/ ps[DomainOf(q)].key[pg[q][m]] = Key(q, m) /\ End(m) <= pn[q]
    <3>1. CASE q = r
      BY <1>3, <1>4, <1>6, <1>8, <3>1
    <3>2. CASE q # r
      BY <1>6, <1>15, <3>2
    <3> QED
      BY <3>1, <3>2
  <2> QED
    BY <2>1 DEF Held
<1> QED
  BY <1>4, <1>5, <1>7, <1>13, <1>15, <1>16

(* A change of keys by r keeps what the pools publish and remember. *)
LEMMA KeyingKeeps ==
  ASSUME CInv, NEW r \in Requests, NEW pool, NEW pos \in Nat, position[r] <= pos,
         Keying(r, pool, pos), NEW ps, NEW pn,
         ps = [pools EXCEPT ![DomainOf(r)] = pool], pn = [position EXCEPT ![r] = pos]
  PROVE  Published(ps, pn) /\ Remembered(ps, pn)
<1> DEFINE d == DomainOf(r)
           old == pools[d]
<1>1. scenario \in Scenarios /\ Published(pools, position) /\ Remembered(pools, position)
  BY DEF CInv
<1>2. \A q \in Requests : DomainOf(q) \in Domains
  BY <1>1, RowFacts
<1>3. ps[d] = pool /\ (\A x \in Domains \ {d} : ps[x] = pools[x])
  BY <1>2 DEF CInv
<1>4. pn[r] = pos /\ \A q \in Requests \ {r} : pn[q] = position[q]
  BY DEF CInv, Progress
<1>5. ASSUME NEW q \in Requests, NEW m \in AllBlocks(Length(q)), End(m) <= position[q]
      PROVE  End(m) <= pn[q]
  <2>1. End(m) \in Nat /\ position[q] \in Nat
    <3>1. m \in GroupIds \X Nat
      BY <1>1, BlockFacts
    <3> QED
      BY <1>1, <3>1, BlockFacts DEF CInv, Progress
  <2>2. position[r] \in Nat
    BY DEF CInv, Progress
  <2> QED
    BY <1>4, <1>5, <2>1, <2>2
<1>6. Published(ps, pn)
  <2>1. ASSUME NEW x \in Domains, NEW p \in Pages, ps[x].key[p] # NoKey
        PROVE  \E q \in Requests : \E m \in AllBlocks(Length(q)) :
                 DomainOf(q) = x /\ ps[x].key[p] = Key(q, m) /\ End(m) <= pn[q]
    <3>1. CASE ps[x].key[p] = pools[x].key[p]
      <4>1. PICK q \in Requests : \E m \in AllBlocks(Length(q)) :
              DomainOf(q) = x /\ pools[x].key[p] = Key(q, m) /\ End(m) <= position[q]
        BY <1>1, <2>1, <3>1 DEF Published
      <4> QED
        BY <1>5, <3>1, <4>1
    <3>2. CASE ps[x].key[p] # pools[x].key[p]
      <4>1. x = d
        BY <1>3, <3>2
      <4>2. pool.key[p] \notin {NoKey, old.key[p]}
        BY <1>3, <2>1, <3>2, <4>1
      <4>3. PICK m \in AllBlocks(Length(r)) : pool.key[p] = Key(r, m) /\ End(m) <= pos
        BY <4>2 DEF Keying
      <4> QED
        BY <1>3, <1>4, <4>1, <4>3
    <3> QED
      BY <3>1, <3>2
  <2> QED
    BY <2>1 DEF Published
<1>7. Remembered(ps, pn)
  <2>1. ASSUME NEW q \in Requests, ps[DomainOf(q)].removed = {}, NEW m \in AllBlocks(Length(q)),
               Retained(m[1], m[2]), End(m) <= pn[q]
        PROVE  \E p \in Pages : ps[DomainOf(q)].key[p] = Key(q, m)
    <3>1. CASE DomainOf(q) # d
      <4>1. ps[DomainOf(q)] = pools[DomainOf(q)] /\ pn[q] = position[q]
        BY <1>2, <1>3, <1>4, <3>1
      <4> QED
        BY <1>1, <2>1, <4>1 DEF Remembered
    <3>2. CASE DomainOf(q) = d
      <4>1. pool.removed = {} /\ ps[DomainOf(q)] = pool
        BY <1>3, <2>1, <3>2
      <4>2. /\ old.removed = {}
            /\ \A p \in Pages : old.key[p] # NoKey => pool.key[p] = old.key[p]
            /\ \A x \in AllBlocks(Length(r)) : Retained(x[1], x[2]) /\ End(x) <= pos =>
                 \E p \in Pages : pool.key[p] = Key(r, x)
        BY <4>1 DEF Keying
      <4>3. CASE q = r
        BY <1>4, <2>1, <4>1, <4>2, <4>3
      <4>4. CASE q # r
        <5>1. PICK p \in Pages : old.key[p] = Key(q, m)
          BY <1>1, <1>4, <2>1, <3>2, <4>2, <4>4 DEF Remembered
        <5>2. Key(q, m) # NoKey
          BY <1>1, RowFacts, NoKeyAssumption
        <5> QED
          BY <4>1, <4>2, <5>1, <5>2
      <4> QED
        BY <4>3, <4>4
    <3> QED
      BY <3>1, <3>2
  <2> QED
    BY <2>1 DEF Remembered
<1> QED
  BY <1>6, <1>7

(* A request's own references are among those of its pages. *)
LEMMA OwnReferences ==
  ASSUME CInv, NEW r \in Requests, NEW p \in Pages
  PROVE  /\ pools[DomainOf(r)].refs[p] \in Nat
         /\ Count(pages[r], p) <= pools[DomainOf(r)].refs[p]
<1>1. scenario \in Scenarios /\ Shape(pages) /\ Counted(pages, pools)
  BY DEF CInv
<1>2. DomainOf(r) \in Domains
  BY <1>1, RowFacts
<1>3. pools[DomainOf(r)].refs[p] = Cardinality(Holding(pages, DomainOf(r), p))
  BY <1>1, <1>2 DEF Counted
<1>4. /\ Cardinality(Others(pages, r, p)) \in Nat
      /\ Cardinality(Holding(pages, DomainOf(r), p)) = Cardinality(Others(pages, r, p)) + Count(pages[r], p)
  BY <1>1, HoldersSplit
<1>5. Count(pages[r], p) \in {0, 1}
  BY DEF Count
<1> QED
  BY <1>3, <1>4, <1>5

(* What a request holds, as functions and finite sets. *)
LEMMA HeldFacts ==
  ASSUME CInv, NEW r \in Requests
  PROVE  /\ DOMAIN pages[r] \subseteq InputBlocks(r) /\ pages[r] \in [DOMAIN pages[r] -> Pages]
         /\ \A m, q \in DOMAIN pages[r] : pages[r][m] = pages[r][q] => m = q
         /\ IsFiniteSet(DOMAIN pages[r]) /\ DOMAIN pages[r] \subseteq GroupIds \X Nat
         /\ DomainOf(r) \in Domains /\ SoundPool(pools[DomainOf(r)])
         /\ \A m \in DOMAIN pages[r] : pools[DomainOf(r)].refs[pages[r][m]] > 0
<1>1. scenario \in Scenarios /\ Shape(pages)
  BY DEF CInv
<1>2. /\ DOMAIN pages[r] \subseteq InputBlocks(r) /\ pages[r] \in [DOMAIN pages[r] -> Pages]
      /\ \A m, q \in DOMAIN pages[r] : pages[r][m] = pages[r][q] => m = q
  BY <1>1 DEF Shape
<1>3. IsFiniteSet(InputBlocks(r)) /\ InputBlocks(r) \subseteq GroupIds \X Nat
  BY <1>1, BlockFacts
<1>4. IsFiniteSet(DOMAIN pages[r])
  BY <1>2, <1>3, FS_Subset
<1>5. DomainOf(r) \in Domains
  BY <1>1, RowFacts
<1>6. SoundPool(pools[DomainOf(r)])
  BY <1>5 DEF CInv
<1>7. ASSUME NEW m \in DOMAIN pages[r] PROVE pools[DomainOf(r)].refs[pages[r][m]] > 0
  <2>1. pages[r][m] \in Pages
    BY <1>2
  <2>2. Count(pages[r], pages[r][m]) = 1
    BY DEF Count
  <2> QED
    BY <2>1, <2>2, OwnReferences
<1> QED
  BY <1>2, <1>3, <1>4, <1>5, <1>6, <1>7

(* Giving blocks back is such a move. *)
LEMMA ReleaseMoves ==
  ASSUME CInv, NEW r \in Requests, NEW S, S \subseteq DOMAIN pages[r],
         NEW h, h = [m \in DOMAIN pages[r] \ S |-> pages[r][m]]
  PROVE  LET q == ReleaseAll(pools[DomainOf(r)], pages[r], S)
         IN  /\ Move(r, q, h, position[r]) /\ Keying(r, q, position[r])
             /\ q.key = pools[DomainOf(r)].key
<1> DEFINE old == pools[DomainOf(r)]
           q == ReleaseAll(old, pages[r], S)
<1>1. /\ DOMAIN pages[r] \subseteq InputBlocks(r) /\ pages[r] \in [DOMAIN pages[r] -> Pages]
      /\ \A m, x \in DOMAIN pages[r] : pages[r][m] = pages[r][x] => m = x
      /\ IsFiniteSet(DOMAIN pages[r]) /\ DOMAIN pages[r] \subseteq GroupIds \X Nat
      /\ SoundPool(old)
      /\ \A m \in DOMAIN pages[r] : old.refs[pages[r][m]] > 0
  BY HeldFacts
<1>2. IsFiniteSet(S) /\ S \subseteq GroupIds \X Int
  <2>1. S \in SUBSET DOMAIN pages[r]
    OBVIOUS
  <2>2. Nat \subseteq Int
    OBVIOUS
  <2> QED
    BY <1>1, <2>1, <2>2, FS_Subset
<1>3. /\ SoundPool(q)
      /\ q.key = old.key /\ q.removed = old.removed
      /\ \A p \in Pages : q.refs[p] = IF \E m \in S : pages[r][m] = p
                                      THEN old.refs[p] - 1 ELSE old.refs[p]
  <2>1. \A m \in S : pages[r][m] \in Pages /\ old.refs[pages[r][m]] > 0
    BY <1>1
  <2>2. \A m, x \in S : pages[r][m] = pages[r][x] => m = x
    BY <1>1
  <2> HIDE DEF old
  <2> QED
    BY <1>1, <1>2, <2>1, <2>2, ReleaseAllFacts
<1> HIDE DEF q
<1>4. ASSUME NEW p \in Pages PROVE q.refs[p] + Count(pages[r], p) = old.refs[p] + Count(h, p)
  <2>1. old.refs[p] \in Nat
    BY OwnReferences
  <2>2. CASE \E m \in S : pages[r][m] = p
    <3>1. Count(pages[r], p) = 1
      BY <2>2 DEF Count
    <3>2. Count(h, p) = 0
      BY <1>1, <2>2 DEF Count
    <3> QED
      BY <1>3, <2>1, <2>2, <3>1, <3>2
  <2>3. CASE ~ \E m \in S : pages[r][m] = p
    <3>1. (\E m \in DOMAIN h : h[m] = p) <=> (\E m \in DOMAIN pages[r] : pages[r][m] = p)
      BY <2>3
    <3>2. Count(h, p) = Count(pages[r], p)
      BY <3>1 DEF Count
    <3> QED
      BY <1>3, <2>3, <3>2
  <2> QED
    BY <2>2, <2>3
<1>5. ASSUME NEW m \in DOMAIN h
      PROVE  /\ Count(pages[r], h[m]) = 1
             /\ \/ q.key[h[m]] = NoKey /\ q.refs[h[m]] = 1
                \/ q.key[h[m]] = Key(r, m) /\ End(m) <= position[r]
  <2>1. m \in DOMAIN pages[r] \ S /\ h[m] = pages[r][m] /\ h[m] \in Pages
    BY <1>1
  <2>2. Count(pages[r], h[m]) = 1
    BY <2>1 DEF Count
  <2>3. ~ \E x \in S : pages[r][x] = h[m]
    BY <1>1, <2>1
  <2>4. q.refs[h[m]] = old.refs[h[m]] /\ q.key = old.key
    BY <1>3, <2>1, <2>3
  <2> QED
    BY <2>1, <2>2, <2>4 DEF CInv, Held
<1>6. Move(r, q, h, position[r])
  <2>1. DOMAIN h \subseteq InputBlocks(r) /\ h \in [DOMAIN h -> Pages]
    BY <1>1
  <2>2. \A m, x \in DOMAIN h : h[m] = h[x] => m = x
    BY <1>1
  <2> QED
    BY <1>3, <1>4, <1>5, <2>1, <2>2 DEF Move
<1>7. Keying(r, q, position[r])
  BY <1>3 DEF Keying, CInv, Remembered
<1> QED
  BY <1>3, <1>6, <1>7 DEF q

(* Every block of S has a page of its own, and the rest is as before.      *)
Filled(r, pool, h, S, pos, got) ==
  /\ got.ok = TRUE
  /\ Move(r, got.pool, got.held, pos) /\ Keying(r, got.pool, pos)
  /\ DOMAIN got.held = DOMAIN h \cup S
  /\ \A m \in DOMAIN h : got.held[m] = h[m] /\ got.pool.key[h[m]] = pool.key[h[m]]

(* After such a move, allocating the missing blocks is one. *)
LEMMA AllocateMoves ==
  ASSUME CInv, NEW r \in Requests, NEW pool, NEW h, NEW pos,
         Move(r, pool, h, pos), Keying(r, pool, pos),
         NEW S, IsFiniteSet(S), S \subseteq InputBlocks(r), S \cap DOMAIN h = {},
         Cardinality(S) <= Available(pool)
  PROVE  Filled(r, pool, h, S, pos, AllocateAll(pool, h, S))
<1> DEFINE old == pools[DomainOf(r)]
           got == AllocateAll(pool, h, S)
           q == got.pool
           k == got.held
<1>1. /\ SoundPool(pool)
      /\ DOMAIN h \subseteq InputBlocks(r) /\ h \in [DOMAIN h -> Pages]
      /\ \A m, x \in DOMAIN h : h[m] = h[x] => m = x
      /\ \A p \in Pages : pool.refs[p] + Count(pages[r], p) = old.refs[p] + Count(h, p)
      /\ \A p \in Pages : pool.key[p] # old.key[p] => old.refs[p] = Count(pages[r], p)
      /\ \A m \in DOMAIN h :
           Count(pages[r], h[m]) = 1 \/ old.key[h[m]] # NoKey \/ old.refs[h[m]] = 0
      /\ \A m \in DOMAIN h :
           \/ pool.key[h[m]] = NoKey /\ pool.refs[h[m]] = 1
           \/ pool.key[h[m]] = Key(r, m) /\ End(m) <= pos
  BY DEF Move
<1>2. Taken(pool, h, got, S)
  <2>1. S \subseteq Int \X Int
    <3>1. InputBlocks(r) \subseteq GroupIds \X Nat /\ GroupIds = 1 .. Len(Groups) /\ Len(Groups) \in Nat
      BY BlockFacts, GroupFacts DEF CInv
    <3> QED
      BY <3>1
  <2>2. h = [m \in DOMAIN h |-> h[m]]
    BY <1>1
  <2> QED
    BY <1>1, <2>1, <2>2, AllocateAllFacts
<1> HIDE DEF got, old
<1>3. /\ got.ok = TRUE /\ SoundPool(q)
      /\ DOMAIN k = DOMAIN h \cup S /\ k = [m \in DOMAIN h \cup S |-> k[m]]
      /\ \A m \in DOMAIN h : k[m] = h[m]
      /\ \A m \in S : /\ k[m] \in Pages /\ pool.refs[k[m]] = 0
                      /\ q.refs[k[m]] = 1 /\ q.key[k[m]] = NoKey
      /\ \A m, x \in S : k[m] = k[x] => m = x
  BY <1>2 DEF Taken
<1>4. /\ \A p \in Pages : (\A m \in S : k[m] # p) =>
           q.refs[p] = pool.refs[p] /\ q.key[p] = pool.key[p]
      /\ q.removed = {} => pool.removed = {} /\ \A m \in S : pool.key[k[m]] = NoKey
  BY <1>2 DEF Taken
<1> HIDE DEF q, k
<1>5. \A p \in Pages : /\ old.refs[p] \in Nat /\ pool.refs[p] \in Nat
                       /\ Count(pages[r], p) \in {0, 1} /\ Count(h, p) \in {0, 1}
                       /\ Count(pages[r], p) <= old.refs[p]
  <2>1. pool.refs \in [Pages -> Nat]
    BY <1>1 DEF SoundPool, PoolState
  <2>2. \A p \in Pages : old.refs[p] \in Nat /\ Count(pages[r], p) <= old.refs[p]
    BY OwnReferences DEF old
  <2>3. \A f, p : Count(f, p) \in {0, 1}
    BY DEF Count
  <2> QED
    BY <2>1, <2>2, <2>3
<1>6. ASSUME NEW p \in Pages, pool.refs[p] = 0
      PROVE  old.refs[p] = Count(pages[r], p) /\ Count(h, p) = 0
  <2>1. /\ old.refs[p] \in Nat /\ Count(pages[r], p) \in {0, 1} /\ Count(h, p) \in {0, 1}
        /\ Count(pages[r], p) <= old.refs[p]
    BY <1>5
  <2>2. 0 + Count(pages[r], p) = old.refs[p] + Count(h, p)
    BY <1>1, <1>6
  <2> QED
    BY <2>1, <2>2
<1>7. \A m \in DOMAIN h : Count(h, h[m]) = 1 /\ h[m] \in Pages
  BY <1>1 DEF Count
<1>8. \A m \in DOMAIN h : \A x \in S : k[x] # h[m]
  <2>1. ASSUME NEW m \in DOMAIN h, NEW x \in S, k[x] = h[m] PROVE FALSE
    BY <1>3, <1>6, <1>7, <2>1
  <2> QED
    BY <2>1
<1>9. \A m \in DOMAIN h : q.refs[h[m]] = pool.refs[h[m]] /\ q.key[h[m]] = pool.key[h[m]]
  BY <1>4, <1>7, <1>8
<1>10. DOMAIN k \subseteq InputBlocks(r) /\ k \in [DOMAIN k -> Pages]
  <2>1. \A m \in DOMAIN h \cup S : k[m] \in Pages
    BY <1>3, <1>7
  <2> QED
    BY <1>1, <1>3, <2>1
<1>11. \A m, x \in DOMAIN k : k[m] = k[x] => m = x
  BY <1>1, <1>3, <1>8
<1>12. ASSUME NEW p \in Pages PROVE q.refs[p] + Count(pages[r], p) = old.refs[p] + Count(k, p)
  <2>1. CASE \E m \in S : k[m] = p
    <3>1. PICK m \in S : k[m] = p
      BY <2>1
    <3>2. pool.refs[p] = 0 /\ q.refs[p] = 1
      BY <1>3, <3>1
    <3>3. Count(k, p) = 1
      BY <1>3, <3>1 DEF Count
    <3>4. old.refs[p] = Count(pages[r], p) /\ Count(pages[r], p) \in {0, 1}
      BY <1>5, <1>6, <3>2
    <3> QED
      BY <3>2, <3>3, <3>4
  <2>2. CASE ~ \E m \in S : k[m] = p
    <3>1. (\E m \in DOMAIN k : k[m] = p) <=> (\E m \in DOMAIN h : h[m] = p)
      BY <1>3, <2>2
    <3>2. Count(k, p) = Count(h, p)
      BY <3>1 DEF Count
    <3>3. q.refs[p] = pool.refs[p]
      BY <1>4, <2>2
    <3> QED
      BY <1>1, <3>2, <3>3
  <2> QED
    BY <2>1, <2>2
<1>13. ASSUME NEW p \in Pages, q.key[p] # old.key[p] PROVE old.refs[p] = Count(pages[r], p)
  <2>1. CASE \E m \in S : k[m] = p
    BY <1>3, <1>6, <2>1
  <2>2. CASE ~ \E m \in S : k[m] = p
    BY <1>1, <1>4, <1>13, <2>2
  <2> QED
    BY <2>1, <2>2
<1>14. ASSUME NEW m \in DOMAIN k
       PROVE  /\ Count(pages[r], k[m]) = 1 \/ old.key[k[m]] # NoKey \/ old.refs[k[m]] = 0
              /\ \/ q.key[k[m]] = NoKey /\ q.refs[k[m]] = 1
                 \/ q.key[k[m]] = Key(r, m) /\ End(m) <= pos
  <2>1. CASE m \in S
    <3>1. k[m] \in Pages /\ pool.refs[k[m]] = 0 /\ q.refs[k[m]] = 1 /\ q.key[k[m]] = NoKey
      BY <1>3, <2>1
    <3>2. old.refs[k[m]] = Count(pages[r], k[m]) /\ Count(pages[r], k[m]) \in {0, 1}
      BY <1>5, <1>6, <3>1
    <3> QED
      BY <3>1, <3>2
  <2>2. CASE m \in DOMAIN h
    BY <1>1, <1>3, <1>9, <2>2
  <2> QED
    BY <1>3, <2>1, <2>2
<1>15. Move(r, q, k, pos)
  BY <1>3, <1>10, <1>11, <1>12, <1>13, <1>14 DEF Move, old
<1>16. Keying(r, q, pos)
  <2>1. /\ \A p \in Pages : pool.key[p] \in {NoKey, old.key[p]} \/
             \E m \in AllBlocks(Length(r)) : pool.key[p] = Key(r, m) /\ End(m) <= pos
        /\ pool.removed = {} =>
             /\ old.removed = {}
             /\ \A p \in Pages : old.key[p] # NoKey => pool.key[p] = old.key[p]
             /\ \A m \in AllBlocks(Length(r)) : Retained(m[1], m[2]) /\ End(m) <= pos =>
                  \E p \in Pages : pool.key[p] = Key(r, m)
    BY DEF Keying, old
  <2>2. \A p \in Pages : q.key[p] = NoKey \/ q.key[p] = pool.key[p]
    BY <1>3, <1>4
  <2>3. q.removed = {} => \A p \in Pages : q.key[p] = pool.key[p]
    BY <1>3, <1>4
  <2>4. \A p \in Pages : q.key[p] \in {NoKey, old.key[p]} \/
             \E m \in AllBlocks(Length(r)) : q.key[p] = Key(r, m) /\ End(m) <= pos
    BY <2>1, <2>2
  <2>5. q.removed = {} =>
             /\ old.removed = {}
             /\ \A p \in Pages : old.key[p] # NoKey => q.key[p] = old.key[p]
             /\ \A m \in AllBlocks(Length(r)) : Retained(m[1], m[2]) /\ End(m) <= pos =>
                  \E p \in Pages : q.key[p] = Key(r, m)
    BY <1>4, <2>1, <2>3
  <2> QED
    BY <2>4, <2>5 DEF Keying, old
<1> QED
  BY <1>3, <1>9, <1>15, <1>16 DEF Filled, q, k, got

-----------------------------------------------------------------------------
(* Retained blocks and boundaries. *)

(* What is left over after whole multiples. *)
LEMMA Remainder ==
  \A q \in Nat, d \in Nat \ {0}, j \in Nat : j < d => (q * d + j) % d = j
<1> SUFFICES ASSUME NEW q \in Nat, NEW d \in Nat \ {0}, NEW j \in Nat, j < d
             PROVE  (q * d + j) % d = j
  OBVIOUS
<1>1. q * d \in Nat /\ (q * d + j) \in Nat
  OBVIOUS
<1>2. (q * d + j) \div d = q
  <2>1. /\ (q * d + j) \div d \in Nat
        /\ q * d <= q * d + j => q <= (q * d + j) \div d
        /\ q * d + j < (q + 1) * d => (q * d + j) \div d < q + 1
    <3>1. q + 1 \in Nat
      OBVIOUS
    <3> QED
      BY <1>1, <3>1, DivFacts
  <2>2. (q + 1) * d = q * d + d
    OBVIOUS
  <2> QED
    BY <1>1, <2>1, <2>2
<1>3. \A a \in Nat, b \in Nat \ {0} : a % b = a - b * (a \div b)
  OBVIOUS
<1>4. (q * d + j) % d = (q * d + j) - d * q
  BY <1>1, <1>2, <1>3
<1> QED
  BY <1>1, <1>4

(* Boundaries and blocks: c ends a block, in a multiple of the blocks of an *)
(* alignment unit.                                                          *)
LEMMA BoundaryFacts ==
  ASSUME NEW g \in GroupIds, NEW c \in Nat, c % Alignment = 0
  PROVE  LET b == Groups[g].block
             per == Alignment \div b
         IN  /\ per \in Nat \ {0} /\ c \div b \in Nat /\ (c \div b) * b = c
             /\ \E q \in Nat : c \div b = q * per
<1> DEFINE b == Groups[g].block
           per == Alignment \div b
           q == c \div Alignment
<1>1. b \in Nat \ {0} /\ Alignment \in Nat \ {0} /\ Alignment % b = 0
  BY ParamFacts
<1> HIDE DEF b
<1>2. per \in Nat /\ per * b = Alignment
  BY <1>1, DivFacts, DivExact
<1>3. q \in Nat /\ q * Alignment = c
  BY <1>1, DivFacts, DivExact
<1>4. per # 0
  BY <1>1, <1>2
<1>5. c % b = 0
  BY <1>1, Multiples
<1>6. c \div b \in Nat /\ (c \div b) * b = c
  BY <1>1, <1>5, DivFacts, DivExact
<1> HIDE DEF per, q
<1>7. c \div b = q * per
  <2>1. (q * per) * b = q * Alignment
    <3>1. \A x, y, z \in Nat : (x * y) * z = x * (y * z)
      OBVIOUS
    <3> QED
      BY <1>1, <1>2, <1>3, <3>1
  <2>2. \A x, y \in Nat, d \in Nat \ {0} : x * d = y * d => x = y
    OBVIOUS
  <2>3. q * per \in Nat
    BY <1>2, <1>3
  <2> QED
    BY <1>1, <1>3, <1>6, <2>1, <2>2, <2>3
<1> QED
  BY <1>2, <1>3, <1>4, <1>6, <1>7 DEF b, per

(* The blocks a boundary needs are among those the group publishes. *)
LEMMA RecoveryRetained ==
  ASSUME NEW g \in GroupIds, NEW c \in Nat, c % Alignment = 0, NEW i \in Recovery(g, c)
  PROVE  Retained(g, i)
<1> DEFINE b == Groups[g].block
           per == Alignment \div b
           e == c \div b
<1>1. /\ Groups[g].kind \in {"dense", "window"}
      /\ Groups[g].kind = "window" => Need(g) \in Nat
  BY ParamFacts
<1>2. per \in Nat \ {0} /\ e \in Nat /\ \E q \in Nat : e = q * per
  BY BoundaryFacts
<1>3. CASE Groups[g].kind = "dense"
  BY <1>3 DEF Retained
<1>4. CASE Groups[g].kind = "window"
  <2>1. i \in AtLeast0(e - Need(g)) .. e - 1
    BY <1>4 DEF Recovery
  <2>2. i \in Nat /\ e - Need(g) <= i /\ i < e
    BY <1>1, <1>2, <1>4, <2>1 DEF AtLeast0
  <2>3. i % per >= per - Need(g)
    <3> HIDE DEF per, e
    <3>1. PICK q \in Nat : e = q * per
      BY <1>2
    <3>2. i % per \in Nat
      BY <1>2, <2>2
    <3>3. CASE Need(g) >= per
      BY <1>1, <1>2, <1>4, <3>2, <3>3
    <3>4. CASE Need(g) < per
      <4>1. q # 0
        BY <1>2, <2>2, <3>1
      <4>2. q - 1 \in Nat /\ q * per = (q - 1) * per + per /\ (q - 1) * per \in Nat
        BY <1>2, <4>1
      <4> DEFINE j == i - (q - 1) * per
      <4>3. j \in Nat /\ j < per /\ i = (q - 1) * per + j /\ j >= per - Need(g)
        BY <1>1, <1>2, <1>4, <2>2, <3>1, <3>4, <4>2
      <4>4. ((q - 1) * per + j) % per = j
        <5> HIDE DEF j
        <5> QED
          BY <1>2, <4>2, <4>3, Remainder
      <4> HIDE DEF j
      <4> QED
        BY <4>3, <4>4
    <3> QED
      BY <1>1, <1>2, <1>4, <3>3, <3>4
  <2> QED
    BY <2>3 DEF Retained
<1> QED
  BY <1>1, <1>3, <1>4

(***************************************************************************)
(* A group that publishes anything needs the block that ends at a boundary *)
(* to start there.                                                         *)
(***************************************************************************)
LEMMA RetainedLast ==
  ASSUME NEW g \in GroupIds, NEW i \in Nat, Retained(g, i),
         NEW c \in Nat \ {0}, c % Alignment = 0
  PROVE  LET last == (c \div Groups[g].block) - 1
         IN  last \in Recovery(g, c) /\ last \in Nat /\ End(<<g, last>>) = c
<1> DEFINE b == Groups[g].block
           per == Alignment \div b
           e == c \div b
<1>1. /\ Groups[g].kind \in {"dense", "window"} /\ b \in Nat \ {0}
      /\ Groups[g].kind = "window" => Need(g) \in Nat
  BY ParamFacts
<1>2. per \in Nat \ {0} /\ e \in Nat /\ e * b = c
  BY BoundaryFacts
<1>3. End(<<g, e - 1>>) = c
  <2>1. End(<<g, e - 1>>) = (e - 1 + 1) * b
    BY DEF End
  <2>2. e - 1 + 1 = e
    BY <1>2
  <2> QED
    BY <1>2, <2>1, <2>2
<1>4. Groups[g].kind = "window" => Need(g) >= 1
  <2>1. ASSUME Groups[g].kind = "window", Need(g) = 0 PROVE FALSE
    <3>1. i % per >= per - 0
      BY <2>1 DEF Retained
    <3>2. i % per < per /\ i % per \in Nat
      <4> HIDE DEF per
      <4> QED
        BY <1>2
    <3> QED
      BY <1>2, <3>1, <3>2
  <2> QED
    BY <1>1, <2>1
<1>5. Recovery(g, c) = (IF Groups[g].kind = "dense" THEN 0 ELSE AtLeast0(e - Need(g))) .. e - 1
  BY DEF Recovery
<1> HIDE DEF e
<1>6. e # 0 /\ e - 1 \in Nat
  BY <1>1, <1>2
<1>7. e - 1 \in Recovery(g, c)
  BY <1>1, <1>2, <1>4, <1>5, <1>6 DEF AtLeast0
<1> QED
  BY <1>3, <1>6, <1>7 DEF e

-----------------------------------------------------------------------------
(* The first step of a request: what it finds and touches. *)

(* The full blocks of an input are among its blocks. *)
LEMMA FullBlocks ==
  ASSUME scenario \in Scenarios, NEW r \in Requests
  PROVE  AllBlocks(Length(r)) \subseteq InputBlocks(r)
<1> SUFFICES ASSUME NEW m \in AllBlocks(Length(r)) PROVE m \in InputBlocks(r)
  OBVIOUS
<1> DEFINE n == Length(r)
           b == Groups[m[1]].block
<1>1. n \in Nat
  BY RowFacts
<1>2. m[1] \in GroupIds /\ m[2] \in 0 .. (n \div b) - 1 /\ m = <<m[1], m[2]>>
  BY DEF AllBlocks
<1>3. b \in Nat \ {0}
  BY <1>2, ParamFacts
<1> HIDE DEF n, b
<1>4. n \div b \in Nat /\ (n \div b) * b <= n
  BY <1>1, <1>3, DivFacts
<1>5. m[2] \in Nat /\ m[2] < n \div b
  BY <1>2, <1>4
<1>6. m[2] * b < n
  <2>1. \A x, y \in Nat, d \in Nat \ {0} : x < y => x * d < y * d
    OBVIOUS
  <2>2. m[2] * b < (n \div b) * b /\ m[2] * b \in Nat /\ (n \div b) * b \in Nat
    BY <1>3, <1>4, <1>5, <2>1
  <2> QED
    BY <1>1, <1>4, <2>2
<1>7. Ceil(n, b) \in Nat /\ m[2] < Ceil(n, b)
  BY <1>1, <1>3, <1>5, <1>6, CeilFacts
<1>8. m[2] \in 0 .. Ceil(n, b) - 1
  BY <1>5, <1>7
<1> QED
  BY <1>2, <1>8 DEF InputBlocks, n, b

(***************************************************************************)
(* A block of r that a page answers for was committed by a request whose   *)
(* prefix is the same, so what r comes to know through it is remembered.   *)
(***************************************************************************)
LEMMA AnsweredKnown ==
  ASSUME CInv, NEW r \in Requests, NEW m \in Cached(r),
         NEW x \in AllBlocks(Length(r)), End(x) <= End(m), Retained(x[1], x[2]),
         pools[DomainOf(r)].removed = {}
  PROVE  \E p \in Pages : pools[DomainOf(r)].key[p] = Key(r, x)
<1> DEFINE old == pools[DomainOf(r)]
<1>1. /\ scenario \in Scenarios /\ Published(pools, position) /\ Remembered(pools, position)
      /\ position \in [Requests -> Nat] /\ \A s \in Requests : position[s] <= Length(s)
  BY DEF CInv, Progress
<1>2. DomainOf(r) \in Domains /\ SoundPool(old)
  BY HeldFacts
<1>3. m \in AllBlocks(Length(r)) /\ Lookup(old, Key(r, m)) # NoPage
  BY DEF Cached
<1>4. Key(r, m) \in Keys
  BY <1>1, <1>3, RowFacts
<1>5. PICK p \in Pages : old.key[p] = Key(r, m)
  <2> HIDE DEF old
  <2> QED
    BY <1>2, <1>3, <1>4, LookupFacts
<1>6. old.key[p] # NoKey
  BY <1>4, <1>5, NoKeyAssumption
<1>7. PICK s \in Requests : \E q \in AllBlocks(Length(s)) :
        DomainOf(s) = DomainOf(r) /\ old.key[p] = Key(s, q) /\ End(q) <= position[s]
  BY <1>1, <1>2, <1>6 DEF Published
<1>8. PICK q \in AllBlocks(Length(s)) :
        DomainOf(s) = DomainOf(r) /\ old.key[p] = Key(s, q) /\ End(q) <= position[s]
  BY <1>7
<1>9. m \in GroupIds \X Nat /\ x \in GroupIds \X Nat
  BY <1>1, <1>3, BlockFacts
<1>10. m = q /\ Key(r, x) = Key(s, x)
  <2>1. Key(r, m) = Key(s, q)
    BY <1>5, <1>8
  <2>2. m = q /\ \A y \in GroupIds \X Nat : End(y) <= End(m) => Key(r, y) = Key(s, y)
    BY <1>1, <1>3, <2>1, SameKey
  <2> QED
    BY <1>9, <2>2
<1>11. x \in AllBlocks(Length(s)) /\ End(x) <= position[s]
  <2>1. End(x) \in Nat /\ End(m) \in Nat
    BY <1>1, <1>9, BlockFacts
  <2>2. position[s] \in Nat /\ position[s] <= Length(s) /\ Length(s) \in Nat
    BY <1>1, RowFacts
  <2>3. End(x) <= position[s] /\ End(x) <= Length(s)
    BY <1>8, <1>10, <2>1, <2>2
  <2> QED
    BY <1>1, <1>9, <2>3, BlockFacts
<1>12. \E y \in Pages : pools[DomainOf(s)].key[y] = Key(s, x)
  BY <1>1, <1>8, <1>11 DEF Remembered
<1> QED
  BY <1>8, <1>10, <1>12

(* Where a lookup lets a request start. *)
LEMMA LookupHitFacts ==
  ASSUME CInv, NEW r \in Requests
  PROVE  /\ LookupHit(r) \in Nat /\ LookupHit(r) < Length(r) /\ LookupHit(r) % Alignment = 0
         /\ \A g \in GroupIds : \A i \in Recovery(g, LookupHit(r)) : <<g, i>> \in Cached(r)
<1>1. Length(r) \in Nat \ {0}
  BY RowFacts DEF CInv
<1>2. LookupHit(r) \in Boundaries(Length(r) - 1) /\ Start(Cached(r), LookupHit(r))
  BY <1>1, HitFacts DEF LookupHit
<1> QED
  BY <1>1, <1>2 DEF Boundaries, Start, Recoverable

(***************************************************************************)
(* Adopting the pages of a lookup is a move of a request that holds none:  *)
(* they are all there, and each answers for exactly its block.             *)
(***************************************************************************)
LEMMA TouchMoves ==
  ASSUME CInv, NEW r \in Requests, DOMAIN pages[r] = {}
  PROVE  LET old == pools[DomainOf(r)]
             hits == Hits(r, LookupHit(r))
             pool == TouchAll(old, Range(hits))
         IN  /\ NoPage \notin Range(hits)
             /\ DOMAIN hits = UNION {{g} \X Recovery(g, LookupHit(r)) : g \in GroupIds}
             /\ \A m \in DOMAIN hits : m \in Cached(r) /\ old.key[hits[m]] = Key(r, m)
             /\ Move(r, pool, hits, LookupHit(r)) /\ Keying(r, pool, LookupHit(r))
             /\ pool.key = old.key
             /\ Cardinality(Pinned(old, hits)) \in Nat
             /\ Available(pool) = Available(old) - Cardinality(Pinned(old, hits))
<1> DEFINE d == DomainOf(r)
           old == pools[d]
           hit == LookupHit(r)
           hits == Hits(r, hit)
           pool == TouchAll(old, Range(hits))
<1>1. scenario \in Scenarios /\ d \in Domains /\ SoundPool(old)
  BY HeldFacts DEF CInv
<1>2. /\ hit \in Nat /\ hit < Length(r) /\ hit % Alignment = 0
      /\ \A g \in GroupIds : \A i \in Recovery(g, hit) : <<g, i>> \in Cached(r)
  BY LookupHitFacts
<1>3. /\ hits = [m \in DOMAIN hits |-> Lookup(old, Key(r, m))]
      /\ DOMAIN hits = UNION {{g} \X Recovery(g, hit) : g \in GroupIds}
  BY DEF Hits
<1> HIDE DEF hits, old, hit
<1>4. ASSUME NEW m \in DOMAIN hits
      PROVE  /\ m \in Cached(r) /\ m \in AllBlocks(Length(r)) /\ Key(r, m) \in Keys
             /\ hits[m] \in Pages /\ old.key[hits[m]] = Key(r, m) /\ End(m) <= hit
             /\ hits[m] # NoPage
  <2>1. PICK g \in GroupIds : \E i \in Recovery(g, hit) : m = <<g, i>>
    BY <1>3
  <2>2. PICK i \in Recovery(g, hit) : m = <<g, i>>
    BY <2>1
  <2>3. m \in Cached(r)
    BY <1>2, <2>2
  <2>4. m \in AllBlocks(Length(r)) /\ Lookup(old, Key(r, m)) # NoPage
    BY <2>3 DEF Cached, old, d
  <2>5. Key(r, m) \in Keys
    BY <1>1, <2>4, RowFacts
  <2>6. hits[m] = Lookup(old, Key(r, m))
    BY <1>3
  <2>7. hits[m] \in Pages /\ old.key[hits[m]] = Key(r, m) /\ hits[m] # NoPage
    BY <1>1, <2>4, <2>5, <2>6, LookupFacts
  <2>8. End(m) <= hit
    BY <1>2, <2>2, RecoveryFacts
  <2> QED
    BY <2>3, <2>4, <2>5, <2>7, <2>8
<1>5. Range(hits) = {hits[m] : m \in DOMAIN hits}
  BY DEF Range
<1>6. NoPage \notin Range(hits) /\ Range(hits) \in SUBSET Pages
  BY <1>4, <1>5
<1>7. \A p \in Range(hits) : old.key[p] # NoKey
  BY <1>4, <1>5, NoKeyAssumption
<1>8. /\ SoundPool(pool)
      /\ pool.key = old.key /\ pool.removed = old.removed
      /\ \A p \in Pages : pool.refs[p] = IF p \in Range(hits) THEN old.refs[p] + 1 ELSE old.refs[p]
      /\ Available(pool) = Available(old) - Cardinality({p \in Range(hits) : old.refs[p] = 0})
  BY <1>1, <1>6, <1>7, TouchAllFacts
<1>9. Pinned(old, hits) = {p \in Range(hits) : old.refs[p] = 0}
  BY <1>6 DEF Pinned
<1>10. Cardinality(Pinned(old, hits)) \in Nat
  <2>1. IsFiniteSet(Pages)
    BY FS_Interval, TotalAssumption DEF Pages
  <2>2. Pinned(old, hits) \in SUBSET Pages
    BY <1>6, <1>9
  <2> QED
    BY <2>1, <2>2, FS_Subset, FS_CardinalityType
<1> HIDE DEF pool
<1>11. \A p : Count(pages[r], p) = 0
  BY DEF Count
<1>12. ASSUME NEW p \in Pages PROVE pool.refs[p] + Count(pages[r], p) = old.refs[p] + Count(hits, p)
  <2>1. pool.refs[p] \in Nat /\ old.refs[p] \in Nat
    BY <1>1, <1>8 DEF SoundPool, PoolState
  <2>2. p \in Range(hits) <=> \E m \in DOMAIN hits : hits[m] = p
    BY <1>5
  <2>3. CASE p \in Range(hits)
    <3>1. Count(hits, p) = 1
      BY <2>2, <2>3 DEF Count
    <3> QED
      BY <1>8, <1>11, <2>1, <2>3, <3>1
  <2>4. CASE p \notin Range(hits)
    <3>1. Count(hits, p) = 0
      BY <2>2, <2>4 DEF Count
    <3> QED
      BY <1>8, <1>11, <2>1, <2>4, <3>1
  <2> QED
    BY <2>3, <2>4
<1>13. Move(r, pool, hits, hit)
  <2>1. DOMAIN hits \subseteq InputBlocks(r)
    BY <1>1, <1>4, FullBlocks
  <2>2. hits \in [DOMAIN hits -> Pages]
    BY <1>3, <1>4
  <2>3. \A m, q \in DOMAIN hits : hits[m] = hits[q] => m = q
    <3>1. ASSUME NEW m \in DOMAIN hits, NEW q \in DOMAIN hits, hits[m] = hits[q] PROVE m = q
      <4>1. Key(r, m) = Key(r, q)
        BY <1>4, <3>1
      <4> QED
        BY <1>1, <1>4, <4>1, SameKey
    <3> QED
      BY <3>1
  <2>4. \A m \in DOMAIN hits : old.key[hits[m]] # NoKey
    BY <1>4, NoKeyAssumption
  <2>5. \A m \in DOMAIN hits : pool.key[hits[m]] = Key(r, m) /\ End(m) <= hit
    BY <1>4, <1>8
  <2> QED
    BY <1>8, <1>12, <2>1, <2>2, <2>3, <2>4, <2>5 DEF Move, old, d
<1>14. Keying(r, pool, hit)
  <2>1. ASSUME pool.removed = {}, NEW m \in AllBlocks(Length(r)),
               Retained(m[1], m[2]), End(m) <= hit
        PROVE  \E p \in Pages : pool.key[p] = Key(r, m)
    <3> DEFINE g == m[1]
               last == (hit \div Groups[g].block) - 1
               q == <<g, last>>
    <3>1. m \in GroupIds \X Nat /\ End(m) \in Nat \ {0}
      <4>1. m \in GroupIds \X Nat
        BY <1>1, BlockFacts
      <4> QED
        BY <1>1, <4>1, BlockFacts
    <3>2. hit \in Nat \ {0}
      BY <1>2, <2>1, <3>1
    <3>3. g \in GroupIds /\ m[2] \in Nat
      BY <3>1
    <3>4. last \in Recovery(g, hit) /\ End(q) = hit
      BY <1>2, <2>1, <3>2, <3>3, RetainedLast
    <3>5. q \in Cached(r) /\ End(m) <= End(q)
      BY <1>2, <2>1, <3>3, <3>4
    <3>6. pools[DomainOf(r)].removed = {}
      BY <1>8, <2>1 DEF old, d
    <3>7. \E p \in Pages : old.key[p] = Key(r, m)
      <4> HIDE DEF q
      <4> QED
        BY <2>1, <3>5, <3>6, AnsweredKnown DEF old, d
    <3> QED
      BY <1>8, <3>7
  <2> QED
    BY <1>8, <2>1 DEF Keying, old, d
<1> QED
  BY <1>3, <1>4, <1>6, <1>8, <1>9, <1>10, <1>13, <1>14 DEF old, hits, hit, pool, d

-----------------------------------------------------------------------------
(* Publication. *)

(* The blocks a step lacks are finitely many blocks of the input. *)
LEMMA MissingFacts ==
  ASSUME scenario \in Scenarios, NEW r \in Requests, NEW held,
         NEW target \in Nat, target <= Length(r), NEW start \in Nat
  PROVE  /\ IsFiniteSet(Missing(held, target, start))
         /\ Cardinality(Missing(held, target, start)) \in Nat
         /\ Missing(held, target, start) \subseteq InputBlocks(r)
         /\ Missing(held, target, start) \cap DOMAIN held = {}
         /\ \A g \in GroupIds : {g} \X Required(g, target, start) \subseteq
              DOMAIN held \cup Missing(held, target, start)
<1> DEFINE S == Missing(held, target, start)
           U == UNION {{g} \X Required(g, target, start) : g \in GroupIds}
<1>0. S = U \ DOMAIN held
  BY DEF Missing
<1>1. IsFiniteSet(InputBlocks(r))
  BY BlockFacts
<1>2. S \subseteq InputBlocks(r)
  <2>1. ASSUME NEW m \in S PROVE m \in InputBlocks(r)
    <3>1. PICK g \in GroupIds : m \in {g} \X Required(g, target, start)
      BY DEF Missing
    <3>2. Length(r) \in Nat
      BY RowFacts
    <3>3. Required(g, target, start) \subseteq 0 .. Ceil(Length(r), Groups[g].block) - 1
      BY <3>2, RequiredWithin
    <3>4. m \in {g} \X (0 .. Ceil(Length(r), Groups[g].block) - 1)
      BY <3>1, <3>3
    <3> QED
      BY <3>4 DEF InputBlocks
  <2> QED
    BY <2>1
<1>3. IsFiniteSet(S) /\ Cardinality(S) \in Nat
  <2>1. S \in SUBSET InputBlocks(r)
    BY <1>2
  <2> HIDE DEF S
  <2> QED
    BY <1>1, <2>1, FS_Subset, FS_CardinalityType
<1>5. \A g \in GroupIds : {g} \X Required(g, target, start) \subseteq U
  OBVIOUS
<1> HIDE DEF S, U
<1>4. S \cap DOMAIN held = {} /\ U \subseteq DOMAIN held \cup S
  BY <1>0
<1> QED
  BY <1>2, <1>3, <1>4, <1>5 DEF S

(***************************************************************************)
(* Completing a step is a move: the pages it gives a key are only r's, and *)
(* every block it commits that a boundary needs has one afterwards.        *)
(***************************************************************************)
LEMMA PublishMoves ==
  ASSUME CInv, NEW r \in Requests, pending[r] # NoStep
  PROVE  LET q == PublishAll(pools[DomainOf(r)], r, pending[r])
         IN  /\ Move(r, q, pages[r], pending[r]) /\ Keying(r, q, pending[r])
             /\ \A p \in Pages : q.key[p] # pools[DomainOf(r)].key[p] =>
                  pools[DomainOf(r)].key[p] = NoKey
<1> DEFINE d == DomainOf(r)
           old == pools[d]
           t == pending[r]
           S == Publishable(r, t)
           q == PublishAll(old, r, t)
<1>1. /\ scenario \in Scenarios /\ Held(pages, pools, position) /\ Remembered(pools, position)
      /\ position[r] \in Nat /\ t \in Nat /\ t <= Length(r) /\ position[r] <= t
      /\ Length(r) \in Nat
      /\ \A g \in GroupIds : {g} \X Required(g, t, position[r]) \subseteq DOMAIN pages[r]
  BY RowFacts DEF CInv, Progress, Context
<1>2. /\ DOMAIN pages[r] \subseteq InputBlocks(r) /\ pages[r] \in [DOMAIN pages[r] -> Pages]
      /\ \A m, x \in DOMAIN pages[r] : pages[r][m] = pages[r][x] => m = x
      /\ IsFiniteSet(DOMAIN pages[r]) /\ DOMAIN pages[r] \subseteq GroupIds \X Nat
      /\ d \in Domains /\ SoundPool(old)
      /\ \A m \in DOMAIN pages[r] : old.refs[pages[r][m]] > 0
  BY HeldFacts
<1>3. /\ S \subseteq DOMAIN pages[r]
      /\ \A m \in S : End(m) <= t /\ Retained(m[1], m[2])
      /\ \A m \in DOMAIN pages[r] : End(m) <= t /\ Retained(m[1], m[2]) => m \in S
  BY DEF Publishable, Committed
<1>4. \A m \in GroupIds \X Nat : End(m) \in Nat /\ (m \in AllBlocks(Length(r)) <=> End(m) <= Length(r))
  BY <1>1, BlockFacts
<1>5. \A m \in AllBlocks(Length(r)) : Key(r, m) \in Keys /\ Key(r, m) # NoKey
  BY <1>1, RowFacts, NoKeyAssumption
<1> HIDE DEF S
<1>6. \A m \in S : m \in AllBlocks(Length(r))
  <2> HIDE DEF t
  <2> QED
    BY <1>1, <1>2, <1>3, <1>4
<1>7. IsFiniteSet(S) /\ S \subseteq Int \X Int
  <2>1. S \in SUBSET DOMAIN pages[r]
    BY <1>3
  <2>2. GroupIds \subseteq Int /\ Nat \subseteq Int
    BY GroupFacts
  <2> QED
    BY <1>2, <2>1, <2>2, FS_Subset
<1>8. /\ SoundPool(q)
      /\ q.refs = old.refs /\ q.removed = old.removed
      /\ \A m \in S : old.key[pages[r][m]] = NoKey => q.key[pages[r][m]] = Key(r, m)
      /\ \A p \in Pages : old.key[p] # NoKey \/ (\A m \in S : pages[r][m] # p) =>
           q.key[p] = old.key[p]
  <2>1. \A m \in S : /\ pages[r][m] \in Pages /\ old.refs[pages[r][m]] > 0
                     /\ Key(r, m) \in Keys
    BY <1>2, <1>3, <1>5, <1>6
  <2>2. \A m, x \in S : pages[r][m] = pages[r][x] => m = x
    BY <1>2, <1>3
  <2>3. S = Publishable(r, t)
    BY DEF S
  <2> HIDE DEF old, t
  <2> QED
    BY <1>2, <1>7, <2>1, <2>2, <2>3, PublishAllFacts
<1> HIDE DEF q
<1>9. \A m \in DOMAIN pages[r] :
        \/ old.key[pages[r][m]] = NoKey /\ old.refs[pages[r][m]] = 1
        \/ old.key[pages[r][m]] = Key(r, m) /\ End(m) <= position[r]
  BY <1>1 DEF Held
<1>10. \A m \in DOMAIN pages[r] : Count(pages[r], pages[r][m]) = 1
  BY DEF Count
<1> HIDE DEF old, t
<1>11. ASSUME NEW p \in Pages, q.key[p] # old.key[p]
       PROVE  /\ old.refs[p] = Count(pages[r], p) /\ old.key[p] = NoKey
              /\ \E m \in AllBlocks(Length(r)) : q.key[p] = Key(r, m) /\ End(m) <= t
  <2>1. old.key[p] = NoKey /\ \E m \in S : pages[r][m] = p
    BY <1>8, <1>11
  <2>2. PICK m \in S : pages[r][m] = p
    BY <2>1
  <2>3. m \in AllBlocks(Length(r)) /\ q.key[p] = Key(r, m) /\ End(m) <= t
    BY <1>3, <1>6, <1>8, <2>1, <2>2
  <2>4. old.refs[p] = 1
    BY <1>3, <1>5, <1>9, <2>1, <2>2, <2>3
  <2>5. Count(pages[r], p) = 1
    BY <1>3, <1>10, <2>2
  <2> QED
    BY <2>1, <2>3, <2>4, <2>5
<1>12. ASSUME NEW m \in DOMAIN pages[r]
       PROVE  \/ q.key[pages[r][m]] = NoKey /\ q.refs[pages[r][m]] = 1
              \/ q.key[pages[r][m]] = Key(r, m) /\ End(m) <= t
  <2> DEFINE p == pages[r][m]
  <2>1. p \in Pages /\ End(m) \in Nat
    BY <1>2, <1>4
  <2>2. CASE q.key[p] = old.key[p]
    BY <1>1, <1>8, <1>9, <2>1, <2>2
  <2>3. CASE q.key[p] # old.key[p]
    <3>1. old.key[p] = NoKey /\ \E x \in S : pages[r][x] = p
      BY <1>8, <2>1, <2>3
    <3>2. m \in S
      BY <1>2, <1>3, <3>1
    <3> QED
      BY <1>3, <1>8, <3>1, <3>2
  <2> QED
    BY <2>2, <2>3
<1>13. Move(r, q, pages[r], t)
  BY <1>2, <1>8, <1>10, <1>11, <1>12 DEF Move, old, d
<1>14. ASSUME q.removed = {}, NEW m \in AllBlocks(Length(r)), Retained(m[1], m[2]), End(m) <= t
       PROVE  \E p \in Pages : q.key[p] = Key(r, m)
  <2>1. m \in GroupIds \X Nat
    BY <1>1, BlockFacts
  <2>2. CASE End(m) <= position[r]
    <3>1. PICK p \in Pages : old.key[p] = Key(r, m)
      BY <1>1, <1>8, <1>14, <2>2 DEF Remembered, old, d
    <3> QED
      BY <1>5, <1>8, <3>1
  <2>3. CASE ~ (End(m) <= position[r])
    <3>1. position[r] < End(m)
      BY <1>1, <1>4, <2>1, <2>3
    <3>2. m = <<m[1], m[2]>> /\ m[1] \in GroupIds /\ m[2] \in Nat
      BY <2>1
    <3>3. m[2] \in Required(m[1], t, position[r])
      <4>1. \A i \in Nat : position[r] < End(<<m[1], i>>) /\ End(<<m[1], i>>) <= t =>
              i \in Required(m[1], t, position[r])
        BY <1>1, <3>2, RequiredGrows
      <4> QED
        BY <1>14, <3>1, <3>2, <4>1
    <3>4. m \in {m[1]} \X Required(m[1], t, position[r])
      BY <3>2, <3>3
    <3>5. m \in DOMAIN pages[r]
      BY <1>1, <3>2, <3>4
    <3>6. m \in S /\ pages[r][m] \in Pages
      BY <1>2, <1>3, <1>14, <3>5
    <3>7. q.key[pages[r][m]] = Key(r, m)
      BY <1>5, <1>8, <1>9, <3>5, <3>6
    <3> QED
      BY <3>6, <3>7
  <2> QED
    BY <2>2, <2>3
<1>15. Keying(r, q, t)
  <2>1. \A p \in Pages : q.key[p] \in {NoKey, old.key[p]} \/
          \E m \in AllBlocks(Length(r)) : q.key[p] = Key(r, m) /\ End(m) <= t
    BY <1>11
  <2>2. \A p \in Pages : old.key[p] # NoKey => q.key[p] = old.key[p]
    BY <1>8
  <2> QED
    BY <1>8, <1>14, <2>1, <2>2 DEF Keying, old, d
<1> QED
  BY <1>11, <1>13, <1>15 DEF q, old, t, d

-----------------------------------------------------------------------------
(* The rows of the requests. *)

(* The row of a request after a step: its phase ph, its tokens, the blocks *)
(* H that it holds, and its step in flight t.                              *)
RowSound(r, ph, pos, H, t, a, k) ==
  /\ ph \in Phases /\ pos \in Nat /\ t \in Nat /\ a \in Nat /\ k \in Nat
  /\ pos <= Length(r) /\ t <= Length(r)
  /\ t # NoStep => ph = "running" /\ pos <= t
  /\ a + k = pos
  /\ ph \in {"waiting", "arrived"} => pos = 0 /\ H = {}
  /\ ph \in {"transfer", "decode", "complete"} => pos = Length(r)
  /\ \A g \in GroupIds :
       /\ ph \in {"running", "transfer"} => {g} \X Required(g, pos, pos) \subseteq H
       /\ t # NoStep => {g} \X Required(g, t, pos) \subseteq H

(* The scenario never changes, so what is defined from it alone does not.  *)
LEMMA SameScenario ==
  ASSUME scenario' = scenario
  PROVE  /\ Requests' = Requests /\ Domains' = Domains
         /\ \A r \in Requests : Length(r)' = Length(r) /\ DomainOf(r)' = DomainOf(r)
         /\ Shape(pages)' = Shape(pages') /\ Held(pages, pools, position)' = Held(pages', pools', position')
         /\ Counted(pages, pools)' = Counted(pages', pools')
         /\ Published(pools, position)' = Published(pools', position')
         /\ Remembered(pools, position)' = Remembered(pools', position')
<1>1. Requests' = Requests
  BY DEF Requests
<1>2. \A r \in Requests : Length(r)' = Length(r) /\ DomainOf(r)' = DomainOf(r)
  BY DEF Length, DomainOf
<1>3. Domains' = Domains
  BY DEF Domains, DomainOf, Requests
<1>4. Shape(pages)' = Shape(pages')
  BY DEF Shape, InputBlocks, Requests, Length
<1>5. Held(pages, pools, position)' = Held(pages', pools', position')
  BY DEF Held, Requests, DomainOf, Key
<1>6. Counted(pages, pools)' = Counted(pages', pools')
  BY DEF Counted, Holding, Requests, Domains, DomainOf
<1>7. Published(pools, position)' = Published(pools', position')
  BY DEF Published, Requests, Domains, DomainOf, Key, Length
<1>8. Remembered(pools, position)' = Remembered(pools', position')
  BY DEF Remembered, Requests, DomainOf, Key, Length
<1> QED
  BY <1>1, <1>2, <1>3, <1>4, <1>5, <1>6, <1>7, <1>8

(* The invariant gives every request such a row.                           *)
LEMMA Rows ==
  ASSUME CInv, NEW r \in Requests
  PROVE  RowSound(r, phase[r], position[r], DOMAIN pages[r], pending[r], adopted[r], compute[r])
BY DEF CInv, Progress, Context, RowSound

(***************************************************************************)
(* What a step may do to the blocks of request r: a committed block it     *)
(* adopts was published with exactly this content, and a block it keeps    *)
(* stays on its page, whose key only r's own step complete may set.        *)
(***************************************************************************)
Effect(r) ==
  /\ \A m \in DOMAIN pages'[r] \ DOMAIN pages[r] :
       End(m) <= position'[r] => pools[DomainOf(r)].key[pages'[r][m]] = Key(r, m)
  /\ \A m \in DOMAIN pages[r] :
       LET d == DomainOf(r)
           p == pages[r][m]
       IN  m \in DOMAIN pages'[r] =>
             /\ pages'[r][m] = p
             /\ pools'[d].key[p] # pools[d].key[p] =>
                  pools[d].key[p] = NoKey /\ pending[r] # NoStep /\ pending'[r] = NoStep

(* An event of request r: its row, its pool and the blocks it holds change. *)
LEMMA EventKeeps ==
  ASSUME CInv, scenario' = scenario, NEW r \in Requests, NEW pool, NEW h, NEW pos,
         NEW ph, NEW t, NEW a, NEW k, RowSound(r, ph, pos, DOMAIN h, t, a, k),
         position[r] <= pos, Move(r, pool, h, pos), Keying(r, pool, pos),
         used' \in [Domains -> Nat], Failed',
         pages' = [pages EXCEPT ![r] = h], pools' = [pools EXCEPT ![DomainOf(r)] = pool],
         phase' = [phase EXCEPT ![r] = ph], position' = [position EXCEPT ![r] = pos],
         pending' = [pending EXCEPT ![r] = t], adopted' = [adopted EXCEPT ![r] = a],
         compute' = [compute EXCEPT ![r] = k]
  PROVE  CInv' /\ \A q \in Requests \ {r} : Effect(q)
<1>1. pos \in Nat
  BY DEF RowSound
<1>2. /\ pools' = [d \in Domains |-> pools'[d]] /\ \A d \in Domains : SoundPool(pools'[d])
      /\ Shape(pages') /\ Held(pages', pools', position') /\ Counted(pages', pools')
      /\ \A q \in Requests \ {r} : \A m \in DOMAIN pages[q] :
           pools'[DomainOf(q)].key[pages[q][m]] = pools[DomainOf(q)].key[pages[q][m]]
  <2>1. pools' = [d \in Domains |-> pools'[d]]
    <3>1. DOMAIN pools = Domains
      BY DEF CInv
    <3> QED
      BY <3>1
  <2>2. \A d \in Domains : SoundPool(pools'[d])
    BY <1>1, MoveKeeps
  <2>3. Shape(pages')
    BY <1>1, MoveKeeps
  <2>4. Held(pages', pools', position')
    BY <1>1, MoveKeeps
  <2>5. Counted(pages', pools')
    BY <1>1, MoveKeeps
  <2>6. \A q \in Requests \ {r} : \A m \in DOMAIN pages[q] :
           pools'[DomainOf(q)].key[pages[q][m]] = pools[DomainOf(q)].key[pages[q][m]]
    <3>1. ASSUME NEW q \in Requests \ {r}, NEW m \in DOMAIN pages[q]
          PROVE  pools'[DomainOf(q)].key[pages[q][m]] = pools[DomainOf(q)].key[pages[q][m]]
      BY <1>1, <2>4, MoveKeeps, SMTT(60)
    <3> QED
      BY <3>1
  <2> QED
    BY <2>1, <2>2, <2>3, <2>4, <2>5, <2>6
<1>3. Published(pools', position') /\ Remembered(pools', position')
  BY <1>1, KeyingKeeps
<1>4. /\ Requests' = Requests /\ Domains' = Domains
      /\ \A q \in Requests : Length(q)' = Length(q)
  BY SameScenario
<1>5. /\ Shape(pages)' /\ Held(pages, pools, position)' /\ Counted(pages, pools)'
      /\ Published(pools, position)' /\ Remembered(pools, position)'
  BY <1>2, <1>3, SameScenario
<1>6. Progress' /\ Context'
  <2>1. Progress /\ Shape(pages)
    BY DEF CInv
  <2>2. /\ phase'[r] = ph /\ position'[r] = pos /\ pages'[r] = h /\ pending'[r] = t
        /\ adopted'[r] = a /\ compute'[r] = k
    BY <2>1 DEF Progress, Shape
  <2>3. ASSUME NEW q \in Requests \ {r}
        PROVE  /\ phase'[q] = phase[q] /\ position'[q] = position[q] /\ pages'[q] = pages[q]
               /\ pending'[q] = pending[q] /\ adopted'[q] = adopted[q] /\ compute'[q] = compute[q]
    BY <2>1 DEF Progress, Shape
  <2>4. \A q \in Requests :
          RowSound(q, phase'[q], position'[q], DOMAIN pages'[q], pending'[q], adopted'[q], compute'[q])
    BY <2>2, <2>3, Rows
  <2>5. /\ phase' \in [Requests -> Phases]
        /\ position' \in [Requests -> Nat] /\ pending' \in [Requests -> Nat]
        /\ adopted' \in [Requests -> Nat] /\ compute' \in [Requests -> Nat]
    BY <2>1 DEF Progress, RowSound
  <2>6. Progress'
    BY <1>4, <2>4, <2>5 DEF Progress, RowSound
  <2>7. Context'
    BY <1>4, <2>4 DEF Context, RowSound
  <2> QED
    BY <2>6, <2>7
<1>7. scenario' \in Scenarios
  BY DEF CInv
<1>8. ASSUME NEW q \in Requests \ {r} PROVE Effect(q)
  <2>1. pages'[q] = pages[q]
    BY DEF CInv, Shape
  <2> QED
    BY <1>2, <2>1 DEF Effect
<1> QED
  BY <1>2, <1>4, <1>5, <1>6, <1>7, <1>8 DEF CInv

(* A step that leaves the pages and the pools alone. *)
LEMMA QuietKeeps ==
  ASSUME CInv, scenario' = scenario, UNCHANGED <<position, pages, pending, adopted, compute, pools>>,
         used' \in [Domains -> Nat], Failed',
         \/ phase' = phase
         \/ \E r \in Requests, ph \in {"arrived", "complete"} :
              /\ phase' = [phase EXCEPT ![r] = ph]
              /\ IF ph = "arrived" THEN phase[r] = "waiting" ELSE phase[r] = "decode"
  PROVE  CInv' /\ \A q \in Requests : Effect(q)
<1>1. /\ Requests' = Requests /\ Domains' = Domains
      /\ \A q \in Requests : Length(q)' = Length(q)
  BY SameScenario
<1>2. /\ Shape(pages)' /\ Held(pages, pools, position)' /\ Counted(pages, pools)'
      /\ Published(pools, position)' /\ Remembered(pools, position)'
  BY SameScenario DEF CInv
<1>3. Progress' /\ Context'
  <2>1. Progress /\ Context
    BY DEF CInv
  <2>2. phase' \in [Requests -> Phases]
    BY <2>1 DEF Progress, Phases
  <2>3. \A q \in Requests :
          /\ phase'[q] \in {"running", "transfer"} <=> phase[q] \in {"running", "transfer"}
          /\ phase'[q] = "running" <=> phase[q] = "running"
          /\ phase'[q] \in {"waiting", "arrived"} => phase[q] \in {"waiting", "arrived"}
          /\ phase'[q] \in {"transfer", "decode", "complete"} =>
               phase[q] \in {"transfer", "decode", "complete"}
    BY <2>1 DEF Progress
  <2>4. Progress'
    BY <1>1, <2>1, <2>2, <2>3 DEF Progress
  <2>5. Context'
    BY <1>1, <2>1, <2>3 DEF Context
  <2> QED
    BY <2>4, <2>5
<1>4. \A q \in Requests : Effect(q)
  BY DEF Effect
<1> QED
  BY <1>1, <1>2, <1>3, <1>4 DEF CInv

-----------------------------------------------------------------------------
(* Each event keeps the invariant. *)

(* Before the first event nothing is held, and the pools are sound. *)
LEMMA InitInvariant == Init => CInv
<1> SUFFICES ASSUME Init PROVE CInv
  OBVIOUS
<1>1. scenario \in Scenarios
  BY DEF Init
<1>2. pools = [d \in Domains |-> pools[d]] /\ \A d \in Domains : pools[d] = EmptyPool /\ SoundPool(pools[d])
  BY EmptyPoolSound DEF Init
<1>3. used \in [Domains -> Nat] /\ Failed
  BY DEF Init, Failed
<1>4. pages = [r \in Requests |-> <<>>] /\ \A r \in Requests : pages[r] = <<>> /\ DOMAIN pages[r] = {}
  BY DEF Init
<1>5. Shape(pages)
  BY <1>4 DEF Shape
<1>6. Progress
  <2>1. \A r \in Requests : Length(r) \in Nat
    BY <1>1, RowFacts
  <2> QED
    BY <1>4, <2>1 DEF Init, Progress, Phases, NoStep
<1>7. Context
  BY DEF Init, Context
<1>8. Held(pages, pools, position)
  BY <1>4 DEF Held
<1>9. Counted(pages, pools)
  <2>1. ASSUME NEW d \in Domains, NEW p \in Pages
        PROVE  pools[d].refs[p] = Cardinality(Holding(pages, d, p))
    <3>1. Holding(pages, d, p) = {}
      BY <1>4 DEF Holding
    <3>2. pools[d].refs[p] = 0
      BY <1>2 DEF EmptyPool
    <3> QED
      BY <3>1, <3>2, FS_EmptySet
  <2> QED
    BY <2>1 DEF Counted
<1>10. Published(pools, position)
  <2>1. \A d \in Domains : \A p \in Pages : pools[d].key[p] = NoKey
    BY <1>2 DEF EmptyPool
  <2> QED
    BY <2>1 DEF Published
<1>11. Remembered(pools, position)
  <2>1. ASSUME NEW r \in Requests, NEW m \in AllBlocks(Length(r)), End(m) <= position[r]
        PROVE  FALSE
    <3>1. m \in GroupIds \X Nat
      BY <1>1, BlockFacts
    <3>2. End(m) \in Nat \ {0}
      BY <1>1, <3>1, BlockFacts
    <3>3. position[r] = 0
      BY DEF Init
    <3> QED
      BY <2>1, <3>2, <3>3
  <2> QED
    BY <2>1 DEF Remembered
<1> QED
  BY <1>1, <1>2, <1>3, <1>5, <1>6, <1>7, <1>8, <1>9, <1>10, <1>11 DEF CInv

(* Whoever leaves the P domain gives every page back. *)
LEMMA LeaveMoves ==
  ASSUME CInv, scenario' = scenario, failure = <<>>, NEW r \in Requests, NEW next \in {"decode", "cancelled"},
         pending[r] = NoStep, next = "decode" => phase[r] = "transfer", LeaveP(r, next)
  PROVE  CInv' /\ \A q \in Requests : Effect(q)
<1> DEFINE S == DOMAIN pages[r]
           q == ReleaseAll(pools[DomainOf(r)], pages[r], S)
           h == [m \in DOMAIN pages[r] \ S |-> pages[r][m]]
<1>1. Move(r, q, h, position[r]) /\ Keying(r, q, position[r])
  BY ReleaseMoves
<1>2. h = <<>> /\ DOMAIN h = {}
  OBVIOUS
<1>3. RowSound(r, phase[r], position[r], DOMAIN pages[r], pending[r], adopted[r], compute[r])
  BY Rows
<1> HIDE DEF h, q
<1>4. RowSound(r, next, position[r], DOMAIN h, NoStep, adopted[r], compute[r])
  BY <1>2, <1>3 DEF RowSound, Phases, NoStep
<1>5. /\ pages' = [pages EXCEPT ![r] = h] /\ pools' = [pools EXCEPT ![DomainOf(r)] = q]
      /\ phase' = [phase EXCEPT ![r] = next]
  BY <1>2 DEF LeaveP, q
<1>6. /\ position' = [position EXCEPT ![r] = position[r]]
      /\ pending' = [pending EXCEPT ![r] = NoStep]
      /\ adopted' = [adopted EXCEPT ![r] = adopted[r]]
      /\ compute' = [compute EXCEPT ![r] = compute[r]]
  BY DEF LeaveP, CInv, Progress
<1>7. used' \in [Domains -> Nat] /\ Failed'
  BY DEF LeaveP, CInv, Failed
<1>8. position[r] <= position[r]
  BY <1>3 DEF RowSound
<1>9. CInv' /\ \A x \in Requests \ {r} : Effect(x)
  BY <1>1, <1>4, <1>5, <1>6, <1>7, <1>8, EventKeeps
<1>10. Effect(r)
  <2>1. DOMAIN pages'[r] = {}
    BY <1>2, <1>5 DEF CInv, Shape
  <2> QED
    BY <2>1 DEF Effect
<1> QED
  BY <1>9, <1>10

(***************************************************************************)
(* STEP_COMPLETE publishes committed blocks, drops what falls out of the   *)
(* windows, and keeps the invariant.                                       *)
(***************************************************************************)
LEMMA StepCompleteKeeps ==
  ASSUME CInv, scenario' = scenario, failure = <<>>, NEW r \in Requests, StepComplete(r)
  PROVE  CInv' /\ \A q \in Requests : Effect(q)
<1> DEFINE q == PublishAll(pools[DomainOf(r)], r, pending[r])
           ph == IF pending[r] = Length(r) THEN "transfer" ELSE phase[r]
           k == compute[r] + Computed(r)
<1>1. pending[r] # NoStep
  BY DEF StepComplete
<1>2. /\ Move(r, q, pages[r], pending[r]) /\ Keying(r, q, pending[r])
      /\ \A p \in Pages : q.key[p] # pools[DomainOf(r)].key[p] => pools[DomainOf(r)].key[p] = NoKey
  BY <1>1, PublishMoves
<1>3. RowSound(r, phase[r], position[r], DOMAIN pages[r], pending[r], adopted[r], compute[r])
  BY Rows
<1> HIDE DEF q
<1>4. RowSound(r, ph, pending[r], DOMAIN pages[r], NoStep, adopted[r], k)
  <2>1. /\ position[r] \in Nat /\ pending[r] \in Nat /\ adopted[r] \in Nat /\ compute[r] \in Nat
        /\ position[r] <= pending[r] /\ pending[r] <= Length(r) /\ phase[r] = "running"
        /\ adopted[r] + compute[r] = position[r]
        /\ \A g \in GroupIds : {g} \X Required(g, pending[r], position[r]) \subseteq DOMAIN pages[r]
    BY <1>1, <1>3 DEF RowSound
  <2>2. k \in Nat /\ adopted[r] + k = pending[r]
    BY <2>1, SMTT(60) DEF Computed
  <2>3. \A g \in GroupIds : {g} \X Required(g, pending[r], pending[r]) \subseteq DOMAIN pages[r]
    <3>1. ASSUME NEW g \in GroupIds PROVE {g} \X Required(g, pending[r], pending[r]) \subseteq DOMAIN pages[r]
      <4>1. Required(g, pending[r], pending[r]) \subseteq Required(g, pending[r], position[r])
        BY <2>1, RequiredGrows
      <4> QED
        BY <2>1, <4>1
    <3> QED
      BY <3>1
  <2>4. 0 <= Length(r) /\ NoStep = 0
    BY <2>1, RowFacts DEF CInv, NoStep
  <2> HIDE DEF k
  <2> QED
    BY <2>1, <2>2, <2>3, <2>4 DEF RowSound, Phases
<1>5. /\ pools' = [pools EXCEPT ![DomainOf(r)] = q]
      /\ phase' = [phase EXCEPT ![r] = ph]
      /\ position' = [position EXCEPT ![r] = pending[r]]
      /\ pending' = [pending EXCEPT ![r] = NoStep]
      /\ compute' = [compute EXCEPT ![r] = k]
  BY DEF StepComplete, q
<1>6. /\ pages' = [pages EXCEPT ![r] = pages[r]]
      /\ adopted' = [adopted EXCEPT ![r] = adopted[r]]
  BY DEF StepComplete, CInv, Progress, Shape
<1>7. used' \in [Domains -> Nat] /\ Failed'
  BY DEF StepComplete, CInv, Failed
<1>8. position[r] <= pending[r]
  BY <1>1, <1>3 DEF RowSound
<1> HIDE DEF k, ph
<1>9. CInv' /\ \A x \in Requests \ {r} : Effect(x)
  BY <1>2, <1>4, <1>5, <1>6, <1>7, <1>8, EventKeeps
<1>10. Effect(r)
  <2>1. pages' = pages /\ pending'[r] = NoStep
    BY DEF StepComplete, CInv, Progress
  <2>2. DomainOf(r) \in Domains /\ \A m \in DOMAIN pages[r] : pages[r][m] \in Pages
    BY HeldFacts
  <2>3. pools'[DomainOf(r)] = q
    BY <1>5, <2>2 DEF CInv
  <2> QED
    BY <1>1, <1>2, <2>1, <2>2, <2>3 DEF Effect
<1> QED
  BY <1>9, <1>10

(* After the start of a step the request holds h and the blocks it lacked. *)
Started(r, pool, h, target, pos) ==
  /\ DOMAIN pages'[r] = DOMAIN h \cup Missing(h, target, pos)
  /\ \A m \in DOMAIN h : /\ pages'[r][m] = h[m]
                         /\ pools'[DomainOf(r)].key[h[m]] = pool.key[h[m]]

(***************************************************************************)
(* A step that fits starts: the blocks it lacks are all allocated, and the *)
(* request holds what it needs then and once the step is committed.        *)
(***************************************************************************)
LEMMA StartStepKeeps ==
  ASSUME CInv, scenario' = scenario, NEW r \in Requests, NEW pool, NEW h, NEW pos \in Nat, NEW target \in Nat,
         Move(r, pool, h, pos), Keying(r, pool, pos), position[r] <= pos,
         NEW a \in Nat, a + compute[r] = pos, target # NoStep, pos <= target, target <= Length(r),
         Cardinality(Missing(h, target, pos)) <= Available(pool), failure = <<>>,
         StartStep(r, pool, h, target, pos),
         phase' = [phase EXCEPT ![r] = "running"], position' = [position EXCEPT ![r] = pos],
         adopted' = [adopted EXCEPT ![r] = a], UNCHANGED compute
  PROVE  /\ CInv' /\ Started(r, pool, h, target, pos)
         /\ \A q \in Requests \ {r} : Effect(q)
<1> DEFINE S == Missing(h, target, pos)
           got == AllocateAll(pool, h, S)
<1>1. scenario \in Scenarios /\ DomainOf(r) \in Domains
  BY HeldFacts DEF CInv
<1>2. /\ IsFiniteSet(S) /\ S \subseteq InputBlocks(r) /\ S \cap DOMAIN h = {}
      /\ \A g \in GroupIds : {g} \X Required(g, target, pos) \subseteq DOMAIN h \cup S
  BY <1>1, MissingFacts
<1>3. /\ got.ok = TRUE
      /\ Move(r, got.pool, got.held, pos) /\ Keying(r, got.pool, pos)
      /\ DOMAIN got.held = DOMAIN h \cup S
      /\ \A m \in DOMAIN h : got.held[m] = h[m] /\ got.pool.key[h[m]] = pool.key[h[m]]
  <2>1. Cardinality(S) <= Available(pool)
    OBVIOUS
  <2>2. Move(r, pool, h, pos) /\ Keying(r, pool, pos)
    OBVIOUS
  <2> HIDE DEF S
  <2>3. Filled(r, pool, h, S, pos, got)
    BY <1>2, <2>1, <2>2, AllocateMoves
  <2> QED
    BY <2>3 DEF Filled
<1>4. /\ pools' = [pools EXCEPT ![DomainOf(r)] = got.pool]
      /\ pages' = [pages EXCEPT ![r] = got.held]
      /\ pending' = [pending EXCEPT ![r] = target]
      /\ used' = [used EXCEPT ![DomainOf(r)] = @ + target - pos]
      /\ failure' = failure
  BY <1>3 DEF StartStep
<1> HIDE DEF got, S
<1>5. compute[r] \in Nat /\ compute' = [compute EXCEPT ![r] = compute[r]]
  BY DEF CInv, Progress
<1>6. RowSound(r, "running", pos, DOMAIN got.held, target, a, compute[r])
  <2>1. ASSUME NEW g \in GroupIds
        PROVE  /\ {g} \X Required(g, pos, pos) \subseteq DOMAIN got.held
               /\ {g} \X Required(g, target, pos) \subseteq DOMAIN got.held
    <3>1. Required(g, pos, pos) \subseteq Required(g, target, pos)
      BY RequiredGrows
    <3> QED
      BY <1>2, <1>3, <3>1
  <2>2. pos <= Length(r) /\ Length(r) \in Nat
    BY <1>1, RowFacts
  <2> QED
    BY <1>5, <2>1, <2>2 DEF RowSound, Phases
<1>7. used' \in [Domains -> Nat]
  <2>1. used \in [Domains -> Nat]
    BY DEF CInv
  <2>2. used[DomainOf(r)] + target - pos \in Nat
    BY <1>1, <2>1
  <2> QED
    BY <1>4, <2>1, <2>2
<1>8. Failed'
  BY <1>4 DEF Failed
<1>9. CInv' /\ \A q \in Requests \ {r} : Effect(q)
  BY <1>3, <1>4, <1>5, <1>6, <1>7, <1>8, EventKeeps
<1>10. pages'[r] = got.held /\ pools'[DomainOf(r)] = got.pool
  BY <1>1, <1>4 DEF CInv, Shape
<1> QED
  BY <1>3, <1>9, <1>10 DEF S, Started

(* The target of a step lies between what is done and the end of the input. *)
LEMMA TargetFacts ==
  ASSUME NEW n \in Nat, NEW t \in 1 .. n, NEW p \in Nat, p <= n
  PROVE  LET x == Max({t, p}) IN x \in Nat /\ x # NoStep /\ p <= x /\ x <= n
<1>1. {t, p} \subseteq 0 .. n /\ {t, p} # {}
  OBVIOUS
<1>2. Max({t, p}) \in {t, p} /\ \A y \in {t, p} : y <= Max({t, p})
  BY <1>1, GreatestNat
<1> HIDE DEF Max
<1> QED
  BY <1>2 DEF NoStep

(***************************************************************************)
(* An arrived request: when nothing refuses it, the pages the lookup chose *)
(* are there and the room it was promised is enough.                       *)
(***************************************************************************)
LEMMA ScheduleNewKeeps ==
  ASSUME CInv, scenario' = scenario, failure = <<>>, NEW r \in Requests,
         NEW t \in 1 .. Length(r), NEW budget, ScheduleNew(r, t, budget)
  PROVE  CInv' /\ \A q \in Requests : Effect(q)
<1> DEFINE hit == LookupHit(r)
           target == Max({t, hit})
           hits == Hits(r, hit)
           old == pools[DomainOf(r)]
           pool == TouchAll(old, Range(hits))
           why == Refusal(r, hit, target, budget)
<1>1. phase[r] = "arrived" /\ pending[r] = NoStep
  BY DEF ScheduleNew
<1>2. RowSound(r, phase[r], position[r], DOMAIN pages[r], pending[r], adopted[r], compute[r])
  BY Rows
<1>3. /\ DOMAIN pages[r] = {} /\ position[r] = 0 /\ compute[r] = 0
  BY <1>1, <1>2 DEF RowSound
<1>4. hit \in Nat /\ hit < Length(r) /\ hit % Alignment = 0
  BY LookupHitFacts
<1>5. Length(r) \in Nat
  BY RowFacts DEF CInv
<1>6. target \in Nat /\ target # NoStep /\ hit <= target /\ target <= Length(r)
  BY <1>4, <1>5, TargetFacts
<1>7. /\ NoPage \notin Range(hits)
      /\ DOMAIN hits = UNION {{g} \X Recovery(g, hit) : g \in GroupIds}
      /\ \A m \in DOMAIN hits : old.key[hits[m]] = Key(r, m)
      /\ Move(r, pool, hits, hit) /\ Keying(r, pool, hit)
      /\ Cardinality(Pinned(old, hits)) \in Nat
      /\ Available(pool) = Available(old) - Cardinality(Pinned(old, hits))
  BY <1>3, TouchMoves
<1>8. scenario \in Scenarios
  BY DEF CInv
<1> HIDE DEF hit, target, hits, old, pool
<1>9. CASE why = "none"
  <2>1. /\ phase' = [phase EXCEPT ![r] = "running"]
        /\ position' = [position EXCEPT ![r] = hit]
        /\ adopted' = [adopted EXCEPT ![r] = hit]
        /\ StartStep(r, pool, hits, target, hit)
        /\ UNCHANGED compute
    BY <1>9 DEF ScheduleNew, hit, target, hits, old, pool
  <2>2. Cardinality(Missing(hits, target, hit)) <= Available(pool)
    <3>1. ~ (Cardinality(Missing(hits, target, hit)) + Cardinality(Pinned(old, hits)) > Available(old))
      BY <1>9 DEF Refusal, hits, old
    <3>2. Cardinality(Missing(hits, target, hit)) \in Nat
      BY <1>4, <1>6, <1>8, MissingFacts
    <3>3. Available(old) \in Nat
      BY HeldFacts, SoundRoom DEF old
    <3> QED
      BY <1>7, <3>1, <3>2, <3>3
  <2>3. position[r] <= hit /\ hit + compute[r] = hit
    BY <1>3, <1>4
  <2>4. /\ CInv' /\ \A q \in Requests \ {r} : Effect(q)
        /\ DOMAIN pages'[r] = DOMAIN hits \cup Missing(hits, target, hit)
        /\ \A m \in DOMAIN hits : pages'[r][m] = hits[m]
    <3>1. Move(r, pool, hits, hit) /\ Keying(r, pool, hit)
      BY <1>7
    <3>2. /\ CInv' /\ \A q \in Requests \ {r} : Effect(q)
          /\ Started(r, pool, hits, target, hit)
      BY <1>4, <1>6, <2>1, <2>2, <2>3, <3>1, StartStepKeeps
    <3> QED
      BY <3>2 DEF Started
  <2>5. ASSUME NEW m \in DOMAIN pages'[r], End(m) <= position'[r]
        PROVE  old.key[pages'[r][m]] = Key(r, m)
    <3>1. position'[r] = hit
      BY <2>1 DEF CInv, Progress
    <3>2. CASE m \in DOMAIN hits
      BY <1>7, <2>4, <3>2
    <3>3. CASE m \notin DOMAIN hits
      <4>1. m \in Missing(hits, target, hit)
        BY <2>4, <3>3
      <4>2. PICK g \in GroupIds : m \in {g} \X Required(g, target, hit)
        BY <4>1 DEF Missing
      <4>3. m = <<g, m[2]>> /\ m[2] \in Required(g, target, hit)
        BY <4>2
      <4>4. m[2] \notin Recovery(g, hit)
        BY <1>7, <3>3, <4>3
      <4>5. End(<<g, m[2]>>) > hit
        BY <1>4, <1>6, <4>3, <4>4, RecoverySuffices
      <4>6. m \in GroupIds \X Nat
        <5>1. Required(g, target, hit) \subseteq Nat
          BY <1>4, <1>6, RequiredMember
        <5> QED
          BY <4>2, <5>1
      <4>7. End(m) \in Nat
        BY <1>8, <4>6, BlockFacts
      <4> QED
        BY <1>4, <2>5, <3>1, <4>3, <4>5, <4>7
    <3> QED
      BY <3>2, <3>3
  <2>6. Effect(r)
    BY <1>3, <2>5 DEF Effect, old
  <2> QED
    BY <2>4, <2>6
<1>10. CASE why # "none"
  <2>1. failure' = <<why, r>> /\ UNCHANGED <<phase, position, pages, pending, adopted, compute, pools, used>>
    BY <1>10 DEF ScheduleNew, Fail, hit, target, hits, old, pool
  <2>2. why \in Reasons \ {"lost_state", "allocate"}
    BY <1>7, <1>10 DEF Refusal, Reasons, hits
  <2>3. Failed'
    <3>1. Requests' = Requests
      BY SameScenario
    <3> HIDE DEF why
    <3> QED
      BY <2>1, <2>2, <3>1 DEF Failed
  <2>4. used' \in [Domains -> Nat]
    BY <2>1 DEF CInv
  <2> QED
    BY <2>1, <2>3, <2>4, QuietKeeps
<1> QED
  BY <1>9, <1>10

(***************************************************************************)
(* A running request: what goes back is not among what it still needs, and *)
(* what it takes is either there or fits.                                  *)
(***************************************************************************)
LEMMA ScheduleNextKeeps ==
  ASSUME CInv, scenario' = scenario, failure = <<>>, NEW r \in Requests,
         NEW t \in 1 .. Length(r), NEW budget, ScheduleNext(r, t, budget)
  PROVE  CInv' /\ \A q \in Requests : Effect(q)
<1> DEFINE d == DomainOf(r)
           p == position[r]
           target == Max({t, p})
           pool == ReleaseAll(pools[d], pages[r], Stale(r))
           held == Restrict(pages[r], DOMAIN pages[r] \ Stale(r))
           lacks == Missing(held, target, p)
<1>1. phase[r] = "running" /\ pending[r] = NoStep
  BY DEF ScheduleNext
<1>2. RowSound(r, phase[r], p, DOMAIN pages[r], pending[r], adopted[r], compute[r])
  BY Rows
<1>3. /\ p \in Nat /\ adopted[r] \in Nat /\ compute[r] \in Nat /\ adopted[r] + compute[r] = p
      /\ p <= Length(r) /\ \A g \in GroupIds : {g} \X Required(g, p, p) \subseteq DOMAIN pages[r]
  BY <1>1, <1>2 DEF RowSound
<1>4. Length(r) \in Nat /\ scenario \in Scenarios
  BY RowFacts DEF CInv
<1>5. target \in Nat /\ target # NoStep /\ p <= target /\ target <= Length(r)
  BY <1>3, <1>4, TargetFacts
<1>6. Stale(r) \subseteq DOMAIN pages[r]
  BY DEF Stale
<1>7. held = [m \in DOMAIN pages[r] \ Stale(r) |-> pages[r][m]]
  BY DEF Restrict
<1>8. Move(r, pool, held, p) /\ Keying(r, pool, p) /\ pool.key = pools[d].key
  <2> HIDE DEF held
  <2> QED
    BY <1>6, <1>7, ReleaseMoves
<1>9. /\ DOMAIN held = DOMAIN pages[r] \ Stale(r) /\ \A m \in DOMAIN held : held[m] = pages[r][m]
  BY <1>7
<1>10. d \in Domains /\ \A m \in DOMAIN pages[r] : m \in GroupIds \X Nat
  BY HeldFacts
<1>11. ASSUME NEW g \in GroupIds, NEW x \in Nat, NEW i \in Required(g, x, p) PROVE <<g, i>> \notin Stale(r)
  <2>1. CASE Groups[g].kind = "dense"
    BY <2>1 DEF Stale
  <2>2. CASE Groups[g].kind # "dense"
    <3>1. i \in FirstKept(g, p) .. Ceil(x, Groups[g].block) - 1
      BY <1>11, <2>2 DEF Required
    <3>2. FirstKept(g, p) \in Int
      <4>1. Groups[g].block \in Nat \ {0} /\ Groups[g].window \in Nat
        BY <2>2, ParamFacts
      <4>2. AtLeast0(p - Groups[g].window + 1) \in Nat
        BY <1>3, <4>1 DEF AtLeast0
      <4> QED
        BY <4>1, <4>2, DivFacts DEF FirstKept
    <3>3. ~ (i < FirstKept(g, p))
      BY <3>1, <3>2
    <3> QED
      BY <3>3 DEF Stale
  <2> QED
    BY <2>1, <2>2
<1> HIDE DEF held, target, pool, lacks
<1>12. CASE OverBudget(r, target - p, budget)
  <2>1. /\ failure' = <<"scheduling_budget", r>>
        /\ UNCHANGED <<phase, position, pages, pending, adopted, compute, pools, used>>
    BY <1>12 DEF ScheduleNext, Fail, target
  <2>2. Failed'
    <3>1. Requests' = Requests
      BY SameScenario
    <3> QED
      BY <2>1, <3>1 DEF Failed, Reasons
  <2>3. used' \in [Domains -> Nat]
    BY <2>1 DEF CInv
  <2> QED
    BY <2>1, <2>2, <2>3, QuietKeeps
<1>13. CASE ~ OverBudget(r, target - p, budget) /\ Cardinality(lacks) > Available(pool)
  <2>1. /\ failure' = <<"active_capacity", r>>
        /\ pools' = [pools EXCEPT ![d] = pool] /\ pages' = [pages EXCEPT ![r] = held]
        /\ UNCHANGED <<phase, position, pending, adopted, compute, used>>
    BY <1>13 DEF ScheduleNext, Fail, target, pool, held, lacks
  <2>2. Failed'
    <3>1. Requests' = Requests
      BY SameScenario
    <3> QED
      BY <2>1, <3>1 DEF Failed, Reasons
  <2>3. used' \in [Domains -> Nat]
    BY <2>1 DEF CInv
  <2>4. RowSound(r, phase[r], p, DOMAIN held, pending[r], adopted[r], compute[r])
    <3>1. \A g \in GroupIds : {g} \X Required(g, p, p) \subseteq DOMAIN held
      BY <1>3, <1>9, <1>11
    <3> QED
      BY <1>1, <1>2, <3>1 DEF RowSound
  <2>5. /\ phase' = [phase EXCEPT ![r] = phase[r]] /\ position' = [position EXCEPT ![r] = p]
        /\ pending' = [pending EXCEPT ![r] = pending[r]] /\ adopted' = [adopted EXCEPT ![r] = adopted[r]]
        /\ compute' = [compute EXCEPT ![r] = compute[r]]
    BY <2>1 DEF CInv, Progress
  <2>6. p <= p
    BY <1>3
  <2>7. CInv' /\ \A q \in Requests \ {r} : Effect(q)
    <3>1. Move(r, pool, held, p) /\ Keying(r, pool, p)
      BY <1>8
    <3>2. pools' = [pools EXCEPT ![DomainOf(r)] = pool] /\ pages' = [pages EXCEPT ![r] = held]
      BY <2>1
    <3> QED
      BY ONLY CInv, scenario' = scenario, r \in Requests,
              <2>2, <2>3, <2>4, <2>5, <2>6, <3>1, <3>2, EventKeeps
  <2>8. Effect(r)
    <3>1. pages'[r] = held /\ pools'[d] = pool
      BY <1>10, <2>1 DEF CInv, Shape
    <3> QED
      BY <1>8, <1>9, <3>1 DEF Effect
  <2> QED
    BY <2>7, <2>8
<1>14. CASE ~ OverBudget(r, target - p, budget) /\ ~ (Cardinality(lacks) > Available(pool))
  <2>1. StartStep(r, pool, held, target, p) /\ UNCHANGED <<phase, position, adopted, compute>>
    BY <1>14 DEF ScheduleNext, target, pool, held, lacks
  <2>2. Cardinality(Missing(held, target, p)) <= Available(pool)
    <3>1. Cardinality(lacks) \in Nat
      BY <1>3, <1>4, <1>5, MissingFacts DEF lacks
    <3>2. Available(pool) \in Nat
      BY <1>8, SoundRoom DEF Move
    <3> QED
      BY <1>14, <3>1, <3>2 DEF lacks
  <2>3. /\ phase' = [phase EXCEPT ![r] = "running"] /\ position' = [position EXCEPT ![r] = p]
        /\ adopted' = [adopted EXCEPT ![r] = adopted[r]] /\ UNCHANGED compute
    BY <1>1, <2>1 DEF CInv, Progress
  <2>4. p <= p
    BY <1>3
  <2>5. /\ CInv' /\ \A q \in Requests \ {r} : Effect(q)
        /\ DOMAIN pages'[r] = DOMAIN held \cup Missing(held, target, p)
        /\ \A m \in DOMAIN held : /\ pages'[r][m] = held[m]
                                  /\ pools'[d].key[held[m]] = pool.key[held[m]]
    <3>1. Move(r, pool, held, p) /\ Keying(r, pool, p)
      BY <1>8
    <3>2. StartStep(r, pool, held, target, p)
      BY <2>1
    <3>3. adopted[r] \in Nat /\ adopted[r] + compute[r] = p /\ p \in Nat
      BY <1>3
    <3>4. /\ CInv' /\ \A q \in Requests \ {r} : Effect(q)
          /\ Started(r, pool, held, target, p)
      BY ONLY CInv, scenario' = scenario, failure = <<>>, r \in Requests,
              <1>5, <2>2, <2>3, <2>4, <3>1, <3>2, <3>3, StartStepKeeps
    <3> QED
      BY <3>4 DEF Started
  <2>6. ASSUME NEW m \in Missing(held, target, p)
        PROVE  /\ m \notin Stale(r)
               /\ m \notin DOMAIN pages[r] => ~ (End(m) <= p)
    <3>1. PICK g \in GroupIds : m \in {g} \X Required(g, target, p)
      BY <2>6 DEF Missing
    <3>2. m = <<g, m[2]>> /\ m[2] \in Required(g, target, p)
      BY <3>1
    <3>3. m \notin Stale(r)
      BY <1>5, <1>11, <3>2
    <3>4. ASSUME m \notin DOMAIN pages[r] PROVE ~ (End(m) <= p)
      <4>1. m[2] \notin Required(g, p, p)
        BY <1>3, <3>2, <3>4
      <4>2. End(<<g, m[2]>>) > p
        BY <1>3, <1>5, <3>2, <4>1, RequiredGrows
      <4>3. m \in GroupIds \X Nat
        <5>1. Required(g, target, p) \subseteq Nat
          BY <1>3, <1>5, RequiredMember
        <5> QED
          BY <3>1, <5>1
      <4>4. End(m) \in Nat
        BY <1>4, <4>3, BlockFacts
      <4> QED
        BY <1>3, <3>2, <4>2, <4>4
    <3> QED
      BY <3>3, <3>4
  <2>7. Effect(r)
    <3>1. position'[r] = p
      BY <2>1
    <3>2. ASSUME NEW m \in DOMAIN pages'[r] \ DOMAIN pages[r], End(m) <= position'[r] PROVE FALSE
      BY <1>9, <2>5, <2>6, <3>1, <3>2
    <3>3. ASSUME NEW m \in DOMAIN pages[r], m \in DOMAIN pages'[r]
          PROVE  pages'[r][m] = pages[r][m] /\ pools'[d].key[pages[r][m]] = pools[d].key[pages[r][m]]
      <4>1. m \in DOMAIN held
        BY <1>9, <2>5, <2>6, <3>3
      <4> QED
        BY <1>8, <1>9, <2>5, <4>1
    <3> QED
      BY <3>2, <3>3 DEF Effect
  <2> QED
    BY <2>5, <2>7
<1> QED
  BY <1>12, <1>13, <1>14

-----------------------------------------------------------------------------
(* The theorems about the engine. *)

(***************************************************************************)
(* Every step keeps the invariant and has the effect it should have on     *)
(* each request.                                                           *)
(***************************************************************************)
LEMMA NextInvariant == CInv /\ [Next]_vars => CInv' /\ \A q \in Requests : Effect(q)
<1> SUFFICES ASSUME CInv, [Next]_vars PROVE CInv' /\ \A q \in Requests : Effect(q)
  OBVIOUS
<1>1. CASE UNCHANGED vars
  <2>1. /\ scenario' = scenario /\ UNCHANGED <<position, pages, pending, adopted, compute, pools>>
        /\ phase' = phase /\ used' = used /\ failure' = failure
    BY <1>1 DEF vars
  <2>2. used' \in [Domains -> Nat]
    BY <2>1 DEF CInv
  <2>3. Failed'
    <3>1. Requests' = Requests
      BY <2>1, SameScenario
    <3> QED
      BY <2>1, <3>1 DEF Failed, CInv
  <2> QED
    BY <2>1, <2>2, <2>3, QuietKeeps
<1>2. CASE Next
  <2>1. scenario' = scenario /\ failure = <<>>
    BY <1>2 DEF Next
  <2>2. used \in [Domains -> Nat] /\ Requests' = Requests
    BY <2>1, SameScenario DEF CInv
  <2>3. CASE Tick
    <3>1. /\ used' = [d \in Domains |-> 0] /\ failure' = failure /\ phase' = phase
          /\ UNCHANGED <<position, pages, pending, adopted, compute, pools>>
      BY <2>3 DEF Tick, request
    <3>2. used' \in [Domains -> Nat] /\ Failed'
      BY <2>1, <3>1 DEF Failed
    <3> QED
      BY <2>1, <3>1, <3>2, QuietKeeps
  <2>4. CASE \E r \in Requests : Event(r)
    <3>1. PICK r \in Requests : Event(r)
      BY <2>4
    <3>2. CASE Arrive(r)
      <4>1. UNCHANGED <<position, pages, pending, adopted, compute, pools>> /\ used' = used
        BY <3>2 DEF Arrive
      <4>2. Failed'
        BY <2>1, <2>2, <3>2 DEF Arrive, Fail, Failed, Reasons
      <4>3. phase' = phase \/ (phase[r] = "waiting" /\ phase' = [phase EXCEPT ![r] = "arrived"])
        BY <3>2 DEF Arrive
      <4> QED
        BY <2>1, <2>2, <4>1, <4>2, <4>3, QuietKeeps
    <3>3. CASE \E t \in 1 .. Length(r), b \in Budgets : ScheduleNew(r, t, b)
      BY <2>1, <3>3, ScheduleNewKeeps
    <3>4. CASE \E t \in 1 .. Length(r), b \in Budgets : ScheduleNext(r, t, b)
      BY <2>1, <3>4, ScheduleNextKeeps
    <3>5. CASE StepComplete(r)
      BY <2>1, <3>5, StepCompleteKeeps
    <3>6. CASE PRelease(r)
      BY <2>1, <3>6, LeaveMoves DEF PRelease
    <3>7. CASE RequestComplete(r)
      <4>1. /\ UNCHANGED <<position, pages, pending, adopted, compute, pools>> /\ used' = used
            /\ failure' = failure /\ phase[r] = "decode" /\ phase' = [phase EXCEPT ![r] = "complete"]
        BY <3>7 DEF RequestComplete
      <4>2. Failed'
        BY <2>1, <4>1 DEF Failed
      <4> QED
        BY <2>1, <2>2, <4>1, <4>2, QuietKeeps
    <3>8. CASE Cancel(r)
      BY <2>1, <3>8, LeaveMoves DEF Cancel
    <3> QED
      BY <3>1, <3>2, <3>3, <3>4, <3>5, <3>6, <3>7, <3>8 DEF Event
  <2> QED
    BY <1>2, <2>3, <2>4 DEF Next
<1> QED
  BY <1>1, <1>2

(* The engine never leaves its inductive invariant. *)
THEOREM EngineInvariant == Spec => []CInv
<1>1. Init => CInv
  BY InitInvariant
<1>2. CInv /\ [Next]_vars => CInv'
  BY NextInvariant
<1> QED
  BY <1>1, <1>2, PTL DEF Spec

(***************************************************************************)
(* The references of a page are exactly the places where requests of its   *)
(* domain hold it, for every scenario, pool size and set of groups.        *)
(***************************************************************************)
THEOREM ReferencesCorrect == Spec => []RefsAreHolders
<1>1. CInv => RefsAreHolders
  <2>1. \A d, p : Holders(d, p) = Holding(pages, d, p)
    BY DEF Holders, Holding
  <2> QED
    BY <2>1 DEF CInv, Counted, RefsAreHolders
<1> QED
  BY <1>1, EngineInvariant, PTL

(***************************************************************************)
(* The capacity test of SCHEDULE is enough: an allocation never fails half *)
(* way, and the pages of a lookup are there when they are taken.           *)
(***************************************************************************)
THEOREM ScheduleWhole == Spec => []NoHalfSchedule
<1>1. CInv => NoHalfSchedule
  BY DEF CInv, Failed, NoHalfSchedule
<1> QED
  BY <1>1, EngineInvariant, PTL

(***************************************************************************)
(* Adopted and computed tokens are the committed ones at every moment, and *)
(* all of the input from the P release on.                                 *)
(***************************************************************************)
THEOREM InputCorrect == Spec => []InputAccounted
<1>1. CInv => InputAccounted
  BY DEF CInv, Progress, InputAccounted
<1> QED
  BY <1>1, EngineInvariant, PTL

(***************************************************************************)
(* Only replacement loses state: what the lookup of any request needs for  *)
(* a boundary it committed is in the cache while no key was replaced.      *)
(***************************************************************************)
LEMMA NothingLost == CInv => NoLossWithoutReplacement
<1> SUFFICES ASSUME CInv, NEW r \in Requests, pools[DomainOf(r)].removed = {},
                    NEW c \in Boundaries(position[r]), NEW g \in GroupIds,
                    NEW i \in Recovery(g, c)
             PROVE  <<g, i>> \in Cached(r)
  BY DEF NoLossWithoutReplacement, Recoverable
<1> DEFINE m == <<g, i>>
           old == pools[DomainOf(r)]
<1>1. /\ scenario \in Scenarios /\ Remembered(pools, position)
      /\ position[r] \in Nat /\ position[r] <= Length(r) /\ Length(r) \in Nat
  BY RowFacts DEF CInv, Progress
<1>2. c \in Nat /\ c % Alignment = 0 /\ c <= position[r]
  BY <1>1 DEF Boundaries
<1>3. Retained(g, i) /\ i \in Nat /\ End(m) \in Nat /\ End(m) <= c
  BY <1>2, RecoveryFacts, RecoveryRetained
<1>4. m \in GroupIds \X Nat
  BY <1>3
<1>5. End(m) <= position[r] /\ End(m) <= Length(r)
  <2> HIDE DEF m
  <2> QED
    BY <1>1, <1>2, <1>3
<1>6. m \in AllBlocks(Length(r)) /\ Retained(m[1], m[2])
  BY <1>1, <1>3, <1>4, <1>5, BlockFacts
<1> HIDE DEF m
<1>7. \E p \in Pages : old.key[p] = Key(r, m)
  BY <1>1, <1>5, <1>6 DEF Remembered
<1>8. SoundPool(old) /\ Key(r, m) \in Keys
  BY <1>1, <1>6, HeldFacts, RowFacts
<1>9. Lookup(old, Key(r, m)) # NoPage
  <2> HIDE DEF old
  <2> QED
    BY <1>7, <1>8, LookupFacts
<1> QED
  BY <1>6, <1>9 DEF Cached, m, old

(* The invariant bounds every variable. *)
LEMMA Typed == CInv => TypeOK
<1> SUFFICES ASSUME CInv PROVE TypeOK
  OBVIOUS
<1>1. scenario \in Scenarios /\ Progress /\ Shape(pages)
  BY DEF CInv
<1>2. ASSUME NEW r \in Requests
      PROVE  {position[r], pending[r], adopted[r], compute[r]} \subseteq 0 .. Length(r)
  <2>1. /\ position[r] \in Nat /\ pending[r] \in Nat /\ adopted[r] \in Nat /\ compute[r] \in Nat
        /\ position[r] <= Length(r) /\ pending[r] <= Length(r) /\ adopted[r] + compute[r] = position[r]
        /\ Length(r) \in Nat
    BY <1>1, RowFacts DEF Progress
  <2>2. adopted[r] <= Length(r) /\ compute[r] <= Length(r)
    BY <2>1
  <2> QED
    BY <2>1, <2>2
<1>3. ASSUME NEW r \in Requests, NEW m \in DOMAIN pages[r]
      PROVE  /\ m[1] \in GroupIds /\ m[2] \in 0 .. Ceil(Length(r), Groups[m[1]].block) - 1
             /\ pages[r][m] \in Pages
  <2>1. m \in InputBlocks(r) /\ pages[r][m] \in Pages
    BY HeldFacts
  <2> QED
    BY <2>1 DEF InputBlocks
<1>4. pools \in [Domains -> PoolState]
  <2>1. \A d \in Domains : pools[d] \in PoolState
    BY DEF CInv, SoundPool
  <2> QED
    BY <2>1 DEF CInv
<1>5. failure # <<>> => failure \in Reasons \X Requests
  BY DEF CInv, Failed
<1> QED
  BY <1>1, <1>2, <1>3, <1>4, <1>5 DEF TypeOK, CInv, Progress

(***************************************************************************)
(* What is in the cache is what the requests count on: pools and pages     *)
(* stay sound, no request sees another's content or an unfinished step,    *)
(* the context of the next token is resident, only replacement loses any.  *)
(***************************************************************************)
THEOREM StateCorrect == Spec => []StateSound
<1>1. CInv => PoolsSound
  BY DEF CInv, PoolsSound
<1>2. CInv => ContentSound
  BY DEF CInv, Held, ContentSound
<1>3. CInv => PendingPrivate
  <2> SUFFICES ASSUME CInv, NEW r \in Requests, NEW m \in DOMAIN pages[r], End(m) > position[r]
               PROVE  /\ pools[DomainOf(r)].refs[pages[r][m]] = 1
                      /\ pools[DomainOf(r)].key[pages[r][m]] = NoKey
    BY DEF PendingPrivate
  <2>1. m \in GroupIds \X Nat /\ scenario \in Scenarios
    BY HeldFacts DEF CInv
  <2>2. End(m) \in Nat /\ position[r] \in Nat
    BY <2>1, BlockFacts DEF CInv, Progress
  <2>3. ~ (End(m) <= position[r])
    BY <2>2
  <2> QED
    BY <2>3 DEF CInv, Held
<1>4. CInv => ContextResident
  BY DEF CInv, Context, ContextResident
<1>5. CInv => StateSound
  BY <1>1, <1>2, <1>3, <1>4, NothingLost, Typed DEF StateSound
<1> QED
  BY <1>5, EngineInvariant, PTL

(***************************************************************************)
(* Sharing is invisible: a request adopts only pages published with exactly*)
(* its tokens, and no event of another request changes what it holds.      *)
(***************************************************************************)
THEOREM SharingCorrect == Spec => SharingSound
<1>1. CInv /\ [Next]_vars =>
        /\ [\A r \in Requests : \A m \in DOMAIN pages'[r] \ DOMAIN pages[r] :
              End(m) <= position'[r] => pools[DomainOf(r)].key[pages'[r][m]] = Key(r, m)]_vars
        /\ [\A r \in Requests : \A m \in DOMAIN pages[r] :
              LET d == DomainOf(r)
                  p == pages[r][m]
              IN  m \in DOMAIN pages'[r] =>
                    /\ pages'[r][m] = p
                    /\ pools'[d].key[p] # pools[d].key[p] =>
                         pools[d].key[p] = NoKey /\ pending[r] # NoStep /\ pending'[r] = NoStep]_vars
  BY NextInvariant DEF Effect
<1> QED
  BY <1>1, EngineInvariant, PTL DEF Spec, SharingSound, AdoptedContent, OthersUndisturbed

-----------------------------------------------------------------------------
(* The engine implements the life cycle. *)

(* The life cycle reads the same rows, limits and sets as the engine. *)
LEMMA SameView ==
  /\ Lifecycle!Ids = Requests /\ Lifecycle!Domains = Domains /\ Lifecycle!NoStep = NoStep
  /\ Lifecycle!Active = Active /\ \A d : Lifecycle!Running(d) = Running(d)
  /\ \A S : Lifecycle!Cardinality(S) = Cardinality(S)
  /\ Public(scenario).concurrency = Concurrency /\ Public(scenario).pSlots = PSlots
  /\ Public(scenario).stepBudget = StepBudget
  /\ \A r \in Requests : /\ Lifecycle!Row(r).domain = DomainOf(r)
                         /\ Lifecycle!Row(r).length = Length(r)
                         /\ Lifecycle!Row(r).after = After(r)
  /\ \A t, p : Lifecycle!Target(t, p) = Max({t, p})
<1>1. /\ Public(scenario).concurrency = Concurrency /\ Public(scenario).pSlots = PSlots
      /\ Public(scenario).stepBudget = StepBudget
  BY DEF Public, Concurrency, PSlots, StepBudget
<1>2. Lifecycle!Ids = Requests
  BY DEF Lifecycle!Ids, Public, Requests
<1>3. \A r \in Requests : /\ Lifecycle!Row(r).domain = DomainOf(r)
                          /\ Lifecycle!Row(r).length = Length(r)
                          /\ Lifecycle!Row(r).after = After(r)
  BY DEF Lifecycle!Row, Public, Requests, DomainOf, Length, After
<1>4. \A S : Lifecycle!Cardinality(S) = Cardinality(S)
  BY Zenon DEF Lifecycle!Cardinality, Cardinality
<1>5. Lifecycle!Domains = Domains
  BY <1>2, <1>3 DEF Lifecycle!Domains, Domains
<1>6. Lifecycle!Active = Active
  BY <1>2 DEF Lifecycle!Active, Active
<1>7. \A d : Lifecycle!Running(d) = Running(d)
  BY <1>2, <1>3 DEF Lifecycle!Running, Running
<1>8. \A t, p : Lifecycle!Target(t, p) = Max({t, p})
  BY DEF Lifecycle!Target, Max, Lifecycle!Max
<1>9. Lifecycle!NoStep = NoStep
  BY DEF Lifecycle!NoStep, NoStep
<1> QED
  BY <1>1, <1>2, <1>3, <1>4, <1>5, <1>6, <1>7, <1>8, <1>9

(* What the source of events sees of a failure. *)
LEMMA SeenFailure ==
  ASSUME failure = <<>>
  PROVE  /\ PublicFailure = <<>>
         /\ failure' = failure => PublicFailure' = PublicFailure
         /\ \A why, r : failure' = <<why, r>> =>
              PublicFailure' = IF why \in {"admission_capacity", "active_capacity"}
                               THEN <<"capacity", r>> ELSE <<why, r>>
<1>1. PublicFailure = <<>>
  BY DEF PublicFailure
<1>2. ASSUME failure' = failure PROVE PublicFailure' = PublicFailure
  BY <1>2 DEF PublicFailure
<1>3. ASSUME NEW why, NEW r, failure' = <<why, r>>
      PROVE  PublicFailure' = IF why \in {"admission_capacity", "active_capacity"}
                              THEN <<"capacity", r>> ELSE <<why, r>>
  <2>1. failure' # <<>> /\ failure'[1] = why /\ failure'[2] = r
    BY <1>3
  <2> QED
    BY <1>3, <2>1 DEF PublicFailure
<1> QED
  BY <1>1, <1>2, <1>3

(* A start is seen as a start, and a refusal as the refusal of its reason. *)
LEMMA StartSeen ==
  ASSUME CInv, CInv', failure = <<>>, scenario' = scenario, NEW r \in Requests,
         NEW pool, NEW h, NEW target, NEW pos, StartStep(r, pool, h, target, pos),
         phase' = [phase EXCEPT ![r] = "running"], position' = [position EXCEPT ![r] = pos]
  PROVE  Lifecycle!Start(r, pos, target)
<1> DEFINE got == AllocateAll(pool, h, Missing(h, target, pos))
<1>1. failure' # <<"allocate", r>>
  <2>1. ASSUME failure' = <<"allocate", r>> PROVE FALSE
    <3>1. failure' # <<>> /\ failure'[1] = "allocate"
      BY <2>1
    <3> QED
      BY <3>1 DEF CInv, Failed
  <2> QED
    BY <2>1
<1>2. /\ pending' = [pending EXCEPT ![r] = target]
      /\ used' = [used EXCEPT ![DomainOf(r)] = @ + target - pos]
      /\ failure' = failure
  <2> HIDE DEF got
  <2> QED
    BY <1>1 DEF StartStep, Fail, got
<1>3. PublicFailure' = PublicFailure /\ Public(scenario)' = Public(scenario)
  BY <1>2, SeenFailure DEF Public
<1>4. Lifecycle!Row(r).domain = DomainOf(r)
  BY SameView
<1> QED
  BY <1>2, <1>3, <1>4 DEF Lifecycle!Start

(***************************************************************************)
(* A refusal of the engine is a refusal of the life cycle, under its       *)
(* public name.                                                            *)
(***************************************************************************)
LEMMA RefuseSeen ==
  ASSUME failure = <<>>, scenario' = scenario, NEW r \in Requests, NEW why, failure' = <<why, r>>,
         UNCHANGED <<phase, position, pending, used>>
  PROVE  Lifecycle!Refuse(r, IF why \in {"admission_capacity", "active_capacity"} THEN "capacity" ELSE why)
<1>1. Public(scenario)' = Public(scenario)
  BY DEF Public
<1>2. PublicFailure' = IF why \in {"admission_capacity", "active_capacity"}
                       THEN <<"capacity", r>> ELSE <<why, r>>
  BY SeenFailure
<1> QED
  BY <1>1, <1>2 DEF Lifecycle!Refuse, Lifecycle!Fail

(* The first SCHEDULE of a request is one of the life cycle. *)
LEMMA NewSeen ==
  ASSUME CInv, CInv', failure = <<>>, scenario' = scenario, NEW r \in Requests,
         NEW t \in 1 .. Length(r), NEW budget, ScheduleNew(r, t, budget)
  PROVE  Lifecycle!Schedule(r, t, budget)
<1> DEFINE hit == LookupHit(r)
           target == Max({t, hit})
           why == Refusal(r, hit, target, budget)
<1>1. phase[r] = "arrived" /\ pending[r] = NoStep
  BY DEF ScheduleNew
<1>2. Lifecycle!MaySchedule(r, t)
  BY <1>1, SameView DEF Lifecycle!MaySchedule
<1>3. hit \in Lifecycle!Starts(r)
  <2>1. hit \in Nat /\ hit < Length(r) /\ Length(r) \in Nat
    BY LookupHitFacts, RowFacts DEF CInv
  <2>2. hit \in 0 .. Length(r) - 1
    BY <2>1
  <2> QED
    BY <1>1, <2>2, SameView DEF Lifecycle!Starts
<1>4. target = Lifecycle!Target(t, hit)
  BY SameView
<1>5. Lifecycle!SlotsFull(r) <=> Cardinality(Running(DomainOf(r))) >= PSlots
  BY <1>1, SameView DEF Lifecycle!SlotsFull
<1>6. Lifecycle!OverBudget(r, target - hit, budget) <=> OverBudget(r, target - hit, budget)
  BY SameView DEF Lifecycle!OverBudget, OverBudget
<1>7. /\ why = "none" \/ (failure' = <<why, r>> /\ UNCHANGED <<phase, position, pending, used>>)
      /\ why = "none" => Lifecycle!Start(r, hit, target)
  <2>1. CASE why = "none"
    <3>1. /\ phase' = [phase EXCEPT ![r] = "running"] /\ position' = [position EXCEPT ![r] = hit]
          /\ StartStep(r, TouchAll(pools[DomainOf(r)], Range(Hits(r, hit))), Hits(r, hit), target, hit)
      BY <2>1 DEF ScheduleNew
    <3> HIDE DEF hit, target, why
    <3> QED
      BY <2>1, <3>1, StartSeen
  <2>2. CASE why # "none"
    BY <2>2 DEF ScheduleNew, Fail
  <2> QED
    BY <2>1, <2>2
<1>8. why # "lost_state"
  <2>1. ASSUME why = "lost_state" PROVE FALSE
    <3>1. failure' = <<why, r>>
      BY <1>7, <2>1
    <3>2. failure' # <<>> /\ failure'[1] = "lost_state"
      BY <2>1, <3>1
    <3> QED
      BY <3>2 DEF CInv, Failed
  <2> QED
    BY <2>1
<1>9. /\ Lifecycle!SlotsFull(r) => why = "p_slots"
      /\ ~ Lifecycle!SlotsFull(r) /\ OverBudget(r, target - hit, budget) => why = "scheduling_budget"
      /\ ~ Lifecycle!SlotsFull(r) /\ ~ OverBudget(r, target - hit, budget) =>
           why \in {"none", "admission_capacity", "active_capacity"}
  BY <1>5, <1>8 DEF Refusal
<1> HIDE DEF hit, target, why
<1>10. why # "none" =>
         Lifecycle!Refuse(r, IF why \in {"admission_capacity", "active_capacity"} THEN "capacity" ELSE why)
  BY <1>7, RefuseSeen
<1>11. CASE Lifecycle!SlotsFull(r)
  BY <1>2, <1>9, <1>10, <1>11 DEF Lifecycle!Schedule
<1>12. CASE ~ Lifecycle!SlotsFull(r)
  <2>1. CASE OverBudget(r, target - hit, budget)
    <3>1. Lifecycle!Refuse(r, "scheduling_budget")
      BY <1>9, <1>10, <1>12, <2>1
    <3> QED
      BY <1>2, <1>3, <1>4, <1>6, <1>12, <2>1, <3>1 DEF Lifecycle!Schedule
  <2>2. CASE ~ OverBudget(r, target - hit, budget)
    <3>1. Lifecycle!Start(r, hit, target) \/ Lifecycle!Refuse(r, "capacity")
      BY <1>7, <1>9, <1>10, <1>12, <2>2
    <3> QED
      BY <1>2, <1>3, <1>4, <1>6, <1>12, <2>2, <3>1 DEF Lifecycle!Schedule
  <2> QED
    BY <2>1, <2>2
<1> QED
  BY <1>11, <1>12

(* A later SCHEDULE of a request is one of the life cycle. *)
LEMMA NextSeen ==
  ASSUME CInv, CInv', failure = <<>>, scenario' = scenario, NEW r \in Requests,
         NEW t \in 1 .. Length(r), NEW budget, ScheduleNext(r, t, budget)
  PROVE  Lifecycle!Schedule(r, t, budget)
<1> DEFINE p == position[r]
           target == Max({t, p})
           pool == ReleaseAll(pools[DomainOf(r)], pages[r], Stale(r))
           held == Restrict(pages[r], DOMAIN pages[r] \ Stale(r))
<1>1. phase[r] = "running" /\ pending[r] = NoStep /\ UNCHANGED <<phase, position>>
  BY DEF ScheduleNext
<1>2. Lifecycle!MaySchedule(r, t) /\ p \in Lifecycle!Starts(r) /\ ~ Lifecycle!SlotsFull(r)
  BY <1>1, SameView DEF Lifecycle!MaySchedule, Lifecycle!Starts, Lifecycle!SlotsFull
<1>3. target = Lifecycle!Target(t, p)
  BY SameView
<1>4. Lifecycle!OverBudget(r, target - p, budget) <=> OverBudget(r, target - p, budget)
  BY SameView DEF Lifecycle!OverBudget, OverBudget
<1> HIDE DEF target, pool, held
<1>5. CASE OverBudget(r, target - p, budget)
  <2>1. failure' = <<"scheduling_budget", r>> /\ UNCHANGED <<phase, position, pending, used>>
    BY <1>5 DEF ScheduleNext, Fail, target
  <2>2. Lifecycle!Refuse(r, "scheduling_budget")
    BY <2>1, RefuseSeen
  <2> QED
    BY <1>2, <1>3, <1>4, <1>5, <2>2 DEF Lifecycle!Schedule
<1>6. CASE ~ OverBudget(r, target - p, budget)
  <2>1. Lifecycle!Start(r, p, target) \/ Lifecycle!Refuse(r, "capacity")
    <3>1. CASE Cardinality(Missing(held, target, p)) > Available(pool)
      <4>1. failure' = <<"active_capacity", r>> /\ UNCHANGED <<phase, position, pending, used>>
        BY <1>6, <3>1 DEF ScheduleNext, Fail, target, pool, held
      <4> QED
        BY <4>1, RefuseSeen
    <3>2. CASE ~ (Cardinality(Missing(held, target, p)) > Available(pool))
      <4>1. StartStep(r, pool, held, target, p)
        BY <1>6, <3>2 DEF ScheduleNext, target, pool, held
      <4>2. phase' = [phase EXCEPT ![r] = "running"] /\ position' = [position EXCEPT ![r] = p]
        BY <1>1 DEF CInv, Progress
      <4> QED
        BY <4>1, <4>2, StartSeen
    <3> QED
      BY <3>1, <3>2
  <2> QED
    BY <1>2, <1>3, <1>4, <1>6, <2>1 DEF Lifecycle!Schedule
<1> QED
  BY <1>5, <1>6

(* Every step of the engine is a step of the life cycle. *)
LEMMA StepSeen ==
  ASSUME CInv, CInv', Next
  PROVE  Lifecycle!Next
<1>1. failure = <<>> /\ scenario' = scenario /\ PublicFailure = <<>> /\ Public(scenario)' = Public(scenario)
  BY SeenFailure DEF Next, Public
<1>2. CASE Tick
  <2>1. Lifecycle!NewTick
    BY <1>1, <1>2, SeenFailure, SameView DEF Tick, request, Lifecycle!NewTick
  <2> QED
    BY <1>1, <2>1 DEF Lifecycle!Next
<1>3. CASE \E r \in Requests : Event(r)
  <2>1. PICK r \in Requests : Event(r)
    BY <1>3
  <2>2. Lifecycle!Row(r).length = Length(r) /\ Lifecycle!Row(r).after = After(r)
    BY SameView
  <2>3. Lifecycle!Event(r)
    <3>1. CASE Arrive(r)
      <4>1. Lifecycle!MayArrive(r)
        BY <2>2, <3>1 DEF Arrive, Lifecycle!MayArrive
      <4>2. CASE Cardinality(Active) >= Concurrency
        <5>1. failure' = <<"request_concurrency", r>> /\ UNCHANGED <<phase, position, pending, used>>
          BY <3>1, <4>2 DEF Arrive, Fail
        <5>2. PublicFailure' = <<"request_concurrency", r>>
          BY <1>1, <5>1, SeenFailure
        <5> QED
          BY <1>1, <4>1, <4>2, <5>1, <5>2, SameView DEF Lifecycle!Arrive, Lifecycle!Event, Lifecycle!Fail
      <4>3. CASE ~ (Cardinality(Active) >= Concurrency)
        <5>1. /\ failure' = failure /\ phase' = [phase EXCEPT ![r] = "arrived"]
              /\ UNCHANGED <<position, pending, used>>
          BY <3>1, <4>3 DEF Arrive
        <5>2. PublicFailure' = PublicFailure
          BY <1>1, <5>1, SeenFailure
        <5> QED
          BY <1>1, <4>1, <4>3, <5>1, <5>2, SameView DEF Lifecycle!Arrive, Lifecycle!Event
      <4> QED
        BY <4>2, <4>3
    <3>2. CASE \E t \in 1 .. Length(r), b \in Budgets : ScheduleNew(r, t, b)
      BY <1>1, <2>2, <3>2, NewSeen DEF Lifecycle!Event
    <3>3. CASE \E t \in 1 .. Length(r), b \in Budgets : ScheduleNext(r, t, b)
      BY <1>1, <2>2, <3>3, NextSeen DEF Lifecycle!Event
    <3>4. CASE StepComplete(r)
      <4>1. PublicFailure' = PublicFailure
        BY <1>1, <3>4, SeenFailure DEF StepComplete
      <4>2. Lifecycle!StepComplete(r)
        BY <1>1, <2>2, <3>4, <4>1, SameView DEF StepComplete, Lifecycle!StepComplete
      <4> QED
        BY <4>2 DEF Lifecycle!Event
    <3>5. ASSUME NEW next, LeaveP(r, next) PROVE Lifecycle!Enter(r, next)
      <4>1. PublicFailure' = PublicFailure
        BY <1>1, <3>5, SeenFailure DEF LeaveP
      <4> QED
        BY <1>1, <3>5, <4>1 DEF LeaveP, Lifecycle!Enter
    <3>6. CASE PRelease(r)
      BY <3>5, <3>6, SameView DEF PRelease, Lifecycle!PRelease, Lifecycle!MayRelease, Lifecycle!Event
    <3>7. CASE RequestComplete(r)
      <4>1. PublicFailure' = PublicFailure
        BY <1>1, <3>7, SeenFailure DEF RequestComplete
      <4>2. Lifecycle!RequestComplete(r)
        BY <1>1, <3>7, <4>1
        DEF RequestComplete, Lifecycle!RequestComplete, Lifecycle!MayComplete, Lifecycle!Enter
      <4> QED
        BY <4>2 DEF Lifecycle!Event
    <3>8. CASE Cancel(r)
      BY <3>5, <3>8, SameView DEF Cancel, Lifecycle!Cancel, Lifecycle!Event
    <3> QED
      BY <2>1, <3>1, <3>2, <3>3, <3>4, <3>6, <3>7, <3>8 DEF Event
  <2> QED
    BY <1>1, <2>3, SameView DEF Lifecycle!Next
<1> QED
  BY <1>2, <1>3 DEF Next

(***************************************************************************)
(* The engine implements the life cycle that the sources of events rely    *)
(* on: whatever the pools hold, an event has one of the effects promised.  *)
(***************************************************************************)
THEOREM EngineRefines == Spec => ImplementsLifecycle
<1>1. Init => Lifecycle!Init
  <2> SUFFICES ASSUME Init PROVE Lifecycle!Init
    OBVIOUS
  <2>1. Public(scenario) \in {Public(s) : s \in Scenarios}
    BY DEF Init
  <2>2. PublicFailure = <<>>
    BY DEF Init, PublicFailure
  <2> QED
    BY <2>1, <2>2, SameView DEF Init, Lifecycle!Init, Lifecycle!Begin
<1>2. CInv /\ CInv' /\ [Next]_vars => [Lifecycle!Next]_(Lifecycle!engineVars)
  <2> SUFFICES ASSUME CInv, CInv', [Next]_vars
               PROVE  Lifecycle!Next \/ UNCHANGED Lifecycle!engineVars
    OBVIOUS
  <2>1. CASE Next
    BY <2>1, StepSeen
  <2>2. CASE UNCHANGED vars
    <3>1. /\ scenario' = scenario /\ failure' = failure
          /\ UNCHANGED <<phase, position, pending, used>>
      BY <2>2 DEF vars
    <3>2. Public(scenario)' = Public(scenario) /\ PublicFailure' = PublicFailure
      BY <3>1 DEF Public, PublicFailure
    <3> QED
      BY <3>1, <3>2 DEF Lifecycle!engineVars
  <2> QED
    BY <2>1, <2>2
<1> QED
  BY <1>1, <1>2, EngineInvariant, PTL DEF Spec, ImplementsLifecycle, Lifecycle!Spec

-----------------------------------------------------------------------------
(* The lookup returns the best start. *)

(* The lookup over the blocks of one input of length N, whatever is cached. *)
Lookups(N, cached) == INSTANCE LookupCases

(* The greatest member of a set of numbers, by name. *)
LEMMA GreatestIs ==
  ASSUME NEW c \in Nat, NEW S, S \subseteq 0 .. c, NEW x \in S, \A y \in S : y <= x
  PROVE  Max(S) = x
<1>1. Max(S) \in S /\ \A y \in S : y <= Max(S)
  BY GreatestNat
<1>2. PICK z : z = Max(S)
  OBVIOUS
<1>3. z \in S /\ x <= z /\ z <= x
  BY <1>1, <1>2
<1>4. z \in Int /\ x \in Int
  BY <1>3
<1> QED
  BY <1>2, <1>3, <1>4

(***************************************************************************)
(* The lookup loop returns the greatest boundary before the last token at  *)
(* which every group can recover its state, for every set of groups, every *)
(* length of the input and every content of the cache.                     *)
(***************************************************************************)
THEOREM LookupGreatest ==
  ASSUME NEW N \in Nat \ {0}, NEW cached
  PROVE  Lookups(N, cached)!HitGreatest
<1> DEFINE S == {c \in Boundaries(N - 1) : \A g \in GroupIds : Recoverable(cached, g, c)}
<1>1. Hit(cached, N) \in S /\ \A y \in S : y <= Hit(cached, N)
  BY HitFacts DEF Start
<1>2. N - 1 \in Nat /\ S \subseteq 0 .. N - 1
  BY DEF Boundaries
<1>3. Hit(cached, N) = Max(S)
  <2> HIDE DEF S
  <2> QED
    BY <1>1, <1>2, GreatestIs
<1> QED
  BY <1>3 DEF Lookups!HitGreatest,
    Hit, Boundaries, Max, Recoverable, GroupIds, Round, Lower, Aligned, Min, Recovery, Need,
    AtLeast0, Ceil, Lookups!Hit, Lookups!Boundaries, Lookups!Max, Lookups!Recoverable,
    Lookups!GroupIds, Lookups!Round, Lookups!Lower, Lookups!Aligned, Lookups!Min,
    Lookups!Recovery, Lookups!Need, Lookups!AtLeast0, Lookups!Ceil

(***************************************************************************)
(* What STEP_COMPLETE publishes is enough for a lookup to start at the     *)
(* last aligned boundary, and a block missing before it makes it start     *)
(* earlier, for every set of groups, length and content of the cache.      *)
(***************************************************************************)
THEOREM RetainedEnough ==
  ASSUME NEW N \in Nat \ {0}, NEW cached
  PROVE  Lookups(N, cached)!RetainedSuffices
<1> DEFINE kept == {m \in AllBlocks(N) : Retained(m[1], m[2])}
           last == Aligned(N - 1)
<1>1. last \in Boundaries(N - 1) /\ \A y \in Boundaries(N - 1) : y <= last
  <2>1. N - 1 \in Nat
    OBVIOUS
  <2> QED
    BY <2>1, AlignedFacts DEF Boundaries
<1>2. /\ Hit(cached, N) \in Boundaries(N - 1)
      /\ \A g \in GroupIds : Recoverable(cached, g, Hit(cached, N))
      /\ \A y \in Boundaries(N - 1) :
           (\A g \in GroupIds : Recoverable(cached, g, y)) => y <= Hit(cached, N)
  BY HitFacts DEF Start
<1>3. ASSUME kept \subseteq cached
      PROVE  Hit(cached, N) = last
  <2>1. last \in Nat /\ last <= N /\ last % Alignment = 0
    BY <1>1 DEF Boundaries
  <2>2. ASSUME NEW g \in GroupIds, NEW i \in Recovery(g, last) PROVE <<g, i>> \in kept
    <3>1. Retained(g, i) /\ i \in Nat /\ End(<<g, i>>) <= last
      BY <2>1, RecoveryRetained, RecoveryFacts
    <3> DEFINE b == Groups[g].block
    <3>2. b \in Nat \ {0}
      BY ParamFacts
    <3>3. (i + 1) * b <= last
      BY <3>1 DEF End
    <3>4. i + 1 <= N \div b /\ N \div b \in Nat
      <4> HIDE DEF b
      <4>1. (i + 1) * b \in Int /\ (i + 1) * b <= N /\ i + 1 \in Nat
        BY <2>1, <3>1, <3>2, <3>3
      <4> QED
        BY <3>2, <4>1, DivFacts
    <3>5. <<g, i>> \in AllBlocks(N)
      BY <3>1, <3>4 DEF AllBlocks
    <3> QED
      BY <3>1, <3>5
  <2>3. \A g \in GroupIds : Recoverable(cached, g, last)
    BY <1>3, <2>2 DEF Recoverable
  <2>4. last <= Hit(cached, N) /\ Hit(cached, N) <= last /\ Hit(cached, N) \in Nat
    BY <1>1, <1>2, <2>3 DEF Boundaries
  <2> QED
    BY <2>1, <2>4
<1>4. ASSUME NEW g \in GroupIds, NEW i \in Recovery(g, last), <<g, i>> \notin cached
      PROVE  Hit(cached, N) < last
  <2>1. Hit(cached, N) # last
    BY <1>2, <1>4 DEF Recoverable
  <2>2. Hit(cached, N) <= last /\ Hit(cached, N) \in Nat /\ last \in Nat
    BY <1>1, <1>2 DEF Boundaries
  <2> QED
    BY <2>1, <2>2
<1>5. /\ kept \subseteq cached => Hit(cached, N) = last
      /\ (\E g \in GroupIds : \E i \in Recovery(g, last) : <<g, i>> \notin cached) =>
           Hit(cached, N) < last
  BY <1>3, <1>4
<1> QED
  BY <1>5 DEF Lookups!RetainedSuffices, AllBlocks, Lookups!AllBlocks, Retained, Lookups!Retained,
    Hit, Boundaries, Max, Recoverable, GroupIds, Round, Lower, Aligned, Min, Recovery, Need,
    AtLeast0, Ceil, Lookups!Hit, Lookups!Boundaries, Lookups!Max, Lookups!Recoverable,
    Lookups!GroupIds, Lookups!Round, Lookups!Lower, Lookups!Aligned, Lookups!Min,
    Lookups!Recovery, Lookups!Need, Lookups!AtLeast0, Lookups!Ceil

-----------------------------------------------------------------------------
(* What the admission gate sets aside. *)

(* The first block of group g that a request with start tokens done needs. *)
First(g, start) == IF Groups[g].kind = "dense" THEN 0 ELSE FirstKept(g, start)

(* All the blocks a step from start to target needs. *)
Needs(target, start) == UNION {{g} \X Required(g, target, start) : g \in GroupIds}

(* The pages that the whole input of r needs at one time, in every group. *)
Plan(r) == UNION {{g} \X (1 .. Whole(r, g)) : g \in GroupIds}

(* Blocks of a window: what lies between its start and the end of a step. *)
LEMMA WindowSpan ==
  ASSUME NEW b \in Nat \ {0}, NEW a \in Nat, NEW l \in Nat, NEW i \in Nat, i * b < a + l
  PROVE  i < (a \div b) + Ceil(l, b) + 1
<1>1. a \div b \in Nat /\ a < (a \div b) * b + b
  BY DivFacts
<1>2. Ceil(l, b) \in Nat /\ l <= Ceil(l, b) * b
  BY CeilFacts
<1>3. \A q, c \in Nat : a < q * b + b /\ l <= c * b => i < q + c + 1
  <2> SUFFICES ASSUME NEW q \in Nat, NEW c \in Nat, a < q * b + b, l <= c * b PROVE i < q + c + 1
    OBVIOUS
  <2>1. q * b + b + c * b = (q + c + 1) * b
    OBVIOUS
  <2>2. q * b \in Nat /\ c * b \in Nat /\ i * b \in Nat
    OBVIOUS
  <2>3. i * b < q * b + b + c * b
    BY <2>2
  <2>4. i * b < (q + c + 1) * b
    BY <2>1, <2>3
  <2>5. \A x, y \in Nat, d \in Nat \ {0} : x * d < y * d => x < y
    OBVIOUS
  <2>6. q + c + 1 \in Nat
    OBVIOUS
  <2> QED
    BY <2>4, <2>5, <2>6
<1> QED
  BY <1>1, <1>2, <1>3

(***************************************************************************)
(* A step within the budget needs in no group more blocks than the whole   *)
(* input is said to need at one time.                                      *)
(***************************************************************************)
LEMMA StepWithin ==
  ASSUME scenario \in Scenarios, NEW r \in Requests, NEW g \in GroupIds,
         NEW target \in Nat, target <= Length(r), NEW start \in Nat, target - start <= StepBudget
  PROVE  /\ First(g, start) \in Nat /\ Whole(r, g) \in Nat
         /\ \A i \in Required(g, target, start) : i \in Nat /\ i - First(g, start) + 1 \in 1 .. Whole(r, g)
<1> DEFINE b == Groups[g].block
           n == Length(r)
           limit == IF scenario.maxInput = 0 THEN n ELSE scenario.maxInput
<1>1. n \in Nat /\ StepBudget \in Nat
  BY RowFacts
<1>2. limit \in Nat /\ n <= limit
  <2>1. /\ scenario.maxInput \in Nat
        /\ scenario.maxInput # 0 => Length(r) <= scenario.maxInput
    BY ScenariosAssumption DEF Requests, Length
  <2> QED
    BY <1>1, <2>1
<1>3. b \in Nat \ {0}
  BY ParamFacts
<1>4. /\ Required(g, target, start) \subseteq Nat
      /\ \A i \in Nat : i \in Required(g, target, start) <=>
           IF Groups[g].kind = "dense" THEN i * b + Groups[g].ratio <= target
           ELSE i * b < target /\ AtLeast0(start - Groups[g].window + 1) < i * b + b
  BY RequiredMember
<1> HIDE DEF n, limit
<1>5. CASE Groups[g].kind = "dense"
  <2>1. Groups[g].ratio \in Nat \ {0}
    BY <1>5, ParamFacts
  <2>2. Required(g, n, start) = 0 .. Whole(r, g) - 1
    BY <1>5 DEF Required, Whole, n
  <2>3. Whole(r, g) \in Nat
    <3>1. /\ Groups[g].block \div Groups[g].ratio \in Nat \ {0}
          /\ n \div Groups[g].ratio \in Nat
      BY <1>1, <1>3, <1>5, <2>1, ParamFacts, RatioFacts
    <3> QED
      BY <1>5, <3>1, CeilFacts DEF Whole, n
  <2>4. First(g, start) = 0
    BY <1>5 DEF First
  <2>5. ASSUME NEW i \in Required(g, target, start) PROVE i \in Nat /\ i + 1 \in 1 .. Whole(r, g)
    <3>1. i \in Nat /\ i * b + Groups[g].ratio <= target
      BY <1>4, <1>5
    <3>2. i * b \in Nat
      BY <1>3, <3>1
    <3>3. i * b + Groups[g].ratio <= n
      <4>1. target <= n
        BY DEF n
      <4> QED
        BY <1>1, <2>1, <3>1, <3>2, <4>1
    <3>4. i \in Required(g, n, start)
      BY <1>1, <1>5, <3>1, <3>3, RequiredMember
    <3> QED
      BY <2>2, <2>3, <3>1, <3>4
  <2> QED
    BY <2>3, <2>4, <2>5
<1>6. CASE Groups[g].kind # "dense"
  <2> DEFINE w == Groups[g].window
             a == AtLeast0(start - w + 1)
             l == w - 1 + StepBudget
  <2>1. w \in Nat \ {0}
    BY <1>6, ParamFacts
  <2>2. l \in Nat /\ a \in Nat /\ start - w + 1 <= a
    BY <1>1, <2>1 DEF AtLeast0
  <2>3. First(g, start) = a \div b
    BY <1>6 DEF First, FirstKept
  <2>4. a \div b \in Nat /\ (a \div b) * b <= a
    BY <1>3, <2>2, DivFacts
  <2>5. Cap(g, limit) = Ceil(Min({l, limit}), b) + 1
    BY DEF Cap
  <2>6. Whole(r, g) = Min({Ceil(n, b), Cap(g, limit)})
    BY <1>6 DEF Whole, n, limit
  <2> HIDE DEF a, l, w
  <2>7. /\ Min({l, limit}) \in {l, limit} /\ Ceil(n, b) \in Nat
        /\ Ceil(l, b) \in Nat /\ Ceil(limit, b) \in Nat
    <3>1. {l, limit} \subseteq Nat /\ {l, limit} # {}
      BY <1>2, <2>2
    <3> QED
      BY <1>1, <1>2, <1>3, <2>2, <3>1, SmallestNat, CeilFacts
  <2>8. Cap(g, limit) \in Nat /\ Cap(g, limit) \in {Ceil(l, b) + 1, Ceil(limit, b) + 1}
    BY <2>5, <2>7
  <2>9. Whole(r, g) \in {Ceil(n, b), Cap(g, limit)}
    <3>1. {Ceil(n, b), Cap(g, limit)} \subseteq Nat /\ {Ceil(n, b), Cap(g, limit)} # {}
      BY <2>7, <2>8
    <3> QED
      BY <2>6, <3>1, SmallestNat
  <2>10. ASSUME NEW i \in Required(g, target, start)
         PROVE  i \in Nat /\ i - (a \div b) + 1 \in 1 .. Whole(r, g)
    <3>1. i \in Nat /\ i * b < target /\ a < i * b + b
      BY <1>4, <1>6, <2>10 DEF a, w
    <3>2. i * b \in Nat /\ target <= n
      BY <1>3, <3>1 DEF n
    <3>3. i < Ceil(n, b)
      <4>1. i * b < n
        BY <1>1, <3>1, <3>2
      <4> QED
        BY <1>1, <1>3, <3>1, <4>1, CeilFacts
    <3>4. i < Ceil(limit, b)
      <4>1. i * b < limit
        BY <1>1, <1>2, <3>1, <3>2
      <4> QED
        BY <1>2, <1>3, <3>1, <4>1, CeilFacts
    <3>5. i < (a \div b) + Ceil(l, b) + 1
      <4>1. i * b < a + l
        BY <1>1, <2>1, <2>2, <3>1, <3>2 DEF l
      <4> QED
        BY <1>3, <2>2, <3>1, <4>1, WindowSpan
    <3>6. a \div b <= i
      <4>1. a < (i + 1) * b
        <5>1. (i + 1) * b = i * b + b
          BY <1>3, <3>1
        <5> QED
          BY <3>1, <5>1
      <4>2. i + 1 \in Nat
        BY <3>1
      <4>3. a \div b < i + 1
        BY <1>3, <2>2, <4>1, <4>2, DivFacts
      <4> QED
        BY <2>4, <3>1, <4>3
    <3>7. \A k, x, y, z \in Nat : k <= i /\ i < x /\ i < y /\ i < k + z + 1 =>
            /\ i - k + 1 \in 1 .. x /\ i - k + 1 \in 1 .. (y + 1) /\ i - k + 1 \in 1 .. (z + 1)
      BY <3>1
    <3>8. /\ i - (a \div b) + 1 \in 1 .. Ceil(n, b)
          /\ i - (a \div b) + 1 \in 1 .. (Ceil(limit, b) + 1)
          /\ i - (a \div b) + 1 \in 1 .. (Ceil(l, b) + 1)
      BY <2>4, <2>7, <3>3, <3>4, <3>5, <3>6, <3>7
    <3> QED
      BY <2>8, <2>9, <3>1, <3>8
  <2> QED
    BY <2>3, <2>4, <2>7, <2>8, <2>9, <2>10
<1> QED
  BY <1>5, <1>6

(* The plan is a finite set of pages. *)
LEMMA PlanFinite ==
  ASSUME scenario \in Scenarios, NEW r \in Requests
  PROVE  IsFiniteSet(Plan(r)) /\ Cardinality(Plan(r)) \in Nat
<1> DEFINE F(g) == {g} \X (1 .. Whole(r, g))
           T == {F(g) : g \in GroupIds}
           f == [g \in GroupIds |-> F(g)]
<1>1. IsFiniteSet(T)
  <2>1. f \in Surjection(GroupIds, T)
    BY DEF Surjection
  <2>2. IsFiniteSet(GroupIds)
    BY GroupFacts
  <2> HIDE DEF f, T
  <2> QED
    BY <2>1, <2>2, FS_Surjection
<1>2. \A x \in T : IsFiniteSet(x)
  <2>1. ASSUME NEW g \in GroupIds PROVE IsFiniteSet(F(g))
    <3>1. IsFiniteSet({g})
      BY FS_Singleton
    <3>2. 1 \in Int /\ Whole(r, g) \in Int
      <4>1. 0 \in Nat /\ 0 <= Length(r) /\ 0 - 0 <= StepBudget
        BY RowFacts
      <4>2. Whole(r, g) \in Nat
        BY <4>1, StepWithin
      <4> QED
        BY <4>2
    <3>3. IsFiniteSet(1 .. Whole(r, g))
      BY <3>2, FS_Interval
    <3> QED
      BY <3>1, <3>3, FS_Product
  <2> QED
    BY <2>1
<1>3. Plan(r) = UNION T
  BY DEF Plan
<1>4. IsFiniteSet(UNION T)
  <2> HIDE DEF T
  <2> QED
    BY <1>1, <1>2, FS_UNION
<1> QED
  BY <1>3, <1>4, FS_CardinalityType

(* So a step within the budget fits into the plan of the whole input. *)
LEMMA NeedsFit ==
  ASSUME scenario \in Scenarios, NEW r \in Requests,
         NEW target \in Nat, target <= Length(r), NEW start \in Nat, target - start <= StepBudget
  PROVE  /\ IsFiniteSet(Needs(target, start)) /\ Cardinality(Needs(target, start)) \in Nat
         /\ Cardinality(Plan(r)) \in Nat
         /\ Cardinality(Needs(target, start)) <= Cardinality(Plan(r))
<1> DEFINE N == Needs(target, start)
           P == Plan(r)
           f == [m \in N |-> <<m[1], m[2] - First(m[1], start) + 1>>]
<1>1. ASSUME NEW m \in N
      PROVE  /\ m[1] \in GroupIds /\ m[2] \in Nat /\ m = <<m[1], m[2]>>
             /\ First(m[1], start) \in Nat /\ m[2] - First(m[1], start) + 1 \in 1 .. Whole(r, m[1])
  <2>1. PICK g \in GroupIds : m \in {g} \X Required(g, target, start)
    BY DEF Needs
  <2>2. m = <<g, m[2]>> /\ m[1] = g /\ m[2] \in Required(g, target, start)
    BY <2>1
  <2> QED
    BY <2>1, <2>2, StepWithin
<1> HIDE DEF N
<1>2. \A m \in N : f[m] \in P
  BY <1>1 DEF Plan
<1>3. ASSUME NEW m \in N, NEW q \in N, f[m] = f[q] PROVE m = q
  <2>1. m[1] = q[1] /\ m[2] - First(m[1], start) + 1 = q[2] - First(q[1], start) + 1
    BY <1>3
  <2>2. m[2] = q[2]
    BY <1>1, <2>1
  <2> QED
    BY <1>1, <2>1, <2>2
<1>4. f \in Injection(N, P)
  BY <1>2, <1>3 DEF Injection, IsInjective
<1>5. IsFiniteSet(P) /\ Cardinality(P) \in Nat
  BY PlanFinite
<1>6. IsFiniteSet(N) /\ Cardinality(N) <= Cardinality(P)
  <2> HIDE DEF f, P
  <2> QED
    BY <1>4, <1>5, FS_Injection
<1> QED
  BY <1>5, <1>6, FS_CardinalityType DEF N

(* The pages that requests of the domain of r other than r hold. *)
Foreign(pg, r) ==
  {p \in Pages : \E q \in Requests \ {r} :
     DomainOf(q) = DomainOf(r) /\ \E m \in DOMAIN pg[q] : pg[q][m] = p}

(* There are finitely many pages, so finitely many in other hands. *)
LEMMA ForeignFinite ==
  ASSUME NEW pg, NEW r
  PROVE  IsFiniteSet(Foreign(pg, r)) /\ Cardinality(Foreign(pg, r)) \in Nat
<1>1. IsFiniteSet(Pages)
  <2>1. 1 \in Int /\ Total - 1 \in Int
    BY TotalAssumption
  <2> QED
    BY <2>1, FS_Interval DEF Pages
<1>2. Foreign(pg, r) \in SUBSET Pages
  BY DEF Foreign
<1> QED
  BY <1>1, <1>2, FS_Subset, FS_CardinalityType

(***************************************************************************)
(* What is free for a request: all but what the others hold and what it    *)
(* holds itself.                                                           *)
(***************************************************************************)
LEMMA RoomLeft ==
  ASSUME scenario \in Scenarios, NEW pg, Shape(pg), NEW r \in Requests, NEW pool, SoundPool(pool),
         \A p \in Pages : pool.refs[p] = Cardinality(Holding(pg, DomainOf(r), p))
  PROVE  /\ Available(pool) \in Nat
         /\ Available(pool) + Cardinality(Foreign(pg, r)) <= Total - 1
         /\ IsFiniteSet(DOMAIN pg[r]) /\ Cardinality(DOMAIN pg[r]) \in Nat
         /\ Available(pool) + Cardinality(Foreign(pg, r)) + Cardinality(DOMAIN pg[r]) >= Total - 1
<1> DEFINE R == {p \in Pages : pool.refs[p] > 0}
           F == Foreign(pg, r)
           h == pg[r]
           D == DOMAIN h
           O == {h[m] : m \in D}
           f == [m \in D |-> h[m]]
<1>1. Available(pool) = Total - 1 - Cardinality(R) /\ Available(pool) \in Nat
  BY SoundAccounted, SoundRoom DEF Accounted
<1>2. IsFiniteSet(Pages)
  <2>1. 1 \in Int /\ Total - 1 \in Int
    BY TotalAssumption
  <2> QED
    BY <2>1, FS_Interval DEF Pages
<1>3. IsFiniteSet(R) /\ Cardinality(R) \in Nat
  <2>1. R \in SUBSET Pages
    OBVIOUS
  <2> HIDE DEF R
  <2> QED
    BY <1>2, <2>1, FS_Subset, FS_CardinalityType
<1>4. IsFiniteSet(F) /\ Cardinality(F) \in Nat
  BY ForeignFinite
<1>5. IsFiniteSet(D) /\ Cardinality(D) \in Nat
  <2>1. D \in SUBSET InputBlocks(r) /\ IsFiniteSet(InputBlocks(r))
    BY BlockFacts DEF Shape
  <2> HIDE DEF D
  <2> QED
    BY <2>1, FS_Subset, FS_CardinalityType
<1>6. IsFiniteSet(O) /\ Cardinality(O) \in Nat /\ Cardinality(O) <= Cardinality(D)
  <2>1. f \in Surjection(D, O)
    BY DEF Surjection
  <2> HIDE DEF f, O, D
  <2> QED
    BY <1>5, <2>1, FS_Surjection, FS_CardinalityType
<1>7. F \subseteq R /\ R \subseteq F \cup O
  <2>1. ASSUME NEW p \in Pages
        PROVE  /\ p \in F => pool.refs[p] > 0
               /\ pool.refs[p] > 0 => p \in F \/ p \in O
    <3>1. /\ Cardinality(Others(pg, r, p)) \in Nat /\ IsFiniteSet(Others(pg, r, p))
          /\ pool.refs[p] = Cardinality(Others(pg, r, p)) + Count(h, p)
          /\ \A q \in Requests : \A m \in DOMAIN pg[q] :
               q # r /\ DomainOf(q) = DomainOf(r) /\ pg[q][m] = p => Cardinality(Others(pg, r, p)) > 0
      BY HoldersSplit
    <3>2. Count(h, p) \in {0, 1} /\ (Count(h, p) = 1 <=> p \in O)
      BY DEF Count
    <3>3. p \in F => Cardinality(Others(pg, r, p)) > 0
      BY <3>1 DEF Foreign
    <3>4. Others(pg, r, p) # {} => p \in F
      BY DEF Others, Foreign
    <3>5. Cardinality(Others(pg, r, p)) > 0 => Others(pg, r, p) # {}
      BY <3>1, FS_EmptySet
    <3> HIDE DEF O, F, h
    <3> QED
      BY <3>1, <3>2, <3>3, <3>4, <3>5
  <2> HIDE DEF O
  <2> QED
    BY <2>1 DEF Foreign
<1> HIDE DEF R, F, O, D
<1>8. Cardinality(F) <= Cardinality(R)
  BY <1>3, <1>7, FS_Subset
<1>9. Cardinality(R) <= Cardinality(F) + Cardinality(O)
  <2>1. /\ IsFiniteSet(F \cup O)
        /\ Cardinality(F \cup O) = Cardinality(F) + Cardinality(O) - Cardinality(F \cap O)
    BY <1>4, <1>6, FS_Union
  <2>2. Cardinality(R) <= Cardinality(F \cup O)
    BY <1>7, <2>1, FS_Subset
  <2>3. IsFiniteSet(F \cap O)
    <3>1. F \cap O \in SUBSET F
      OBVIOUS
    <3> QED
      BY <1>4, <3>1, FS_Subset
  <2>4. Cardinality(F \cap O) \in Nat /\ Cardinality(F \cup O) \in Nat
    BY <2>1, <2>3, FS_CardinalityType
  <2> QED
    BY <1>3, <1>4, <1>6, <2>1, <2>2, <2>4
<1>10. Total \in Nat
  BY TotalAssumption
<1> QED
  BY <1>1, <1>3, <1>4, <1>5, <1>6, <1>8, <1>9, <1>10 DEF F, D

(* Other requests of the domain give pages back: what they hold shrinks. *)
LEMMA ForeignShrinks ==
  ASSUME NEW pg, NEW s, NEW h, NEW r \in Requests,
         s = r \/ DomainOf(s) # DomainOf(r) \/ h = <<>>,
         DOMAIN pg = Requests
  PROVE  Cardinality(Foreign([pg EXCEPT ![s] = h], r)) <= Cardinality(Foreign(pg, r))
<1>1. Foreign([pg EXCEPT ![s] = h], r) \in SUBSET Foreign(pg, r)
  <2>1. ASSUME NEW q \in Requests \ {r}, DomainOf(q) = DomainOf(r),
               NEW m \in DOMAIN [pg EXCEPT ![s] = h][q]
        PROVE  m \in DOMAIN pg[q] /\ [pg EXCEPT ![s] = h][q][m] = pg[q][m]
    <3>1. CASE q = s
      <4>1. [pg EXCEPT ![s] = h][q] = <<>>
        BY <2>1, <3>1
      <4>2. DOMAIN <<>> = {}
        OBVIOUS
      <4> QED
        BY <2>1, <4>1, <4>2
    <3>2. CASE q # s
      BY <2>1, <3>2
    <3> QED
      BY <3>1, <3>2
  <2> QED
    BY <2>1 DEF Foreign
<1> QED
  BY <1>1, ForeignFinite, FS_Subset

(***************************************************************************)
(* The part of the plan that is not in the hands of r yet is free: whatever*)
(* r lacks for a step within the budget is there.                          *)
(***************************************************************************)
LEMMA PlanLeft ==
  ASSUME scenario \in Scenarios, NEW pg, Shape(pg), NEW r \in Requests, NEW pool, SoundPool(pool),
         \A p \in Pages : pool.refs[p] = Cardinality(Holding(pg, DomainOf(r), p)),
         Cardinality(Foreign(pg, r)) + Cardinality(Plan(r)) <= Total - 1,
         NEW target \in Nat, target <= Length(r), NEW start \in Nat, target - start <= StepBudget,
         DOMAIN pg[r] \subseteq Needs(target, start)
  PROVE  Cardinality(Missing(pg[r], target, start)) <= Available(pool)
<1> DEFINE N == Needs(target, start)
           D == DOMAIN pg[r]
<1>1. /\ IsFiniteSet(N) /\ Cardinality(N) \in Nat /\ Cardinality(Plan(r)) \in Nat
      /\ Cardinality(N) <= Cardinality(Plan(r))
  BY NeedsFit
<1>2. /\ Available(pool) \in Nat /\ IsFiniteSet(D) /\ Cardinality(D) \in Nat
      /\ Available(pool) + Cardinality(Foreign(pg, r)) + Cardinality(D) >= Total - 1
  BY RoomLeft
<1>3. Missing(pg[r], target, start) = N \ D
  BY DEF Missing, Needs
<1> HIDE DEF N, D
<1>4. IsFiniteSet(N \ D) /\ Cardinality(N \ D) = Cardinality(N) - Cardinality(N \cap D)
  BY <1>1, FS_Difference
<1>5. N \cap D = D
  BY DEF N, D
<1>6. Cardinality(N \ D) = Cardinality(N) - Cardinality(D)
  BY <1>4, <1>5
<1>7. Cardinality(Foreign(pg, r)) \in Nat /\ Total \in Nat
  BY ForeignFinite, TotalAssumption
<1>8. Cardinality(N \ D) <= Available(pool)
  BY <1>1, <1>2, <1>6, <1>7
<1> QED
  BY <1>3, <1>8

(* What a block takes of the input before a step needs it. *)
Unit(g) == IF Groups[g].kind = "dense" THEN Groups[g].ratio ELSE 1

(* The input up to x has reached block m. *)
Begun(m, x) == m[2] * Groups[m[1]].block + Unit(m[1]) <= x

(***************************************************************************)
(* A block is needed for a step exactly when it lies in what is read and   *)
(* begun.                                                                  *)
(***************************************************************************)
LEMMA NeedsFacts ==
  ASSUME NEW target \in Nat, NEW start \in Nat
  PROVE  /\ \A m \in Needs(target, start) : Begun(m, target)
         /\ \A m \in GroupIds \X Nat : \A x \in Nat :
              /\ x <= target /\ Begun(m, x)
              /\ Groups[m[1]].kind = "window" => ~ (m[2] < FirstKept(m[1], start))
              => m \in Needs(target, start)
<1>1. ASSUME NEW m \in Needs(target, start) PROVE Begun(m, target)
  <2>1. PICK g \in GroupIds : m \in {g} \X Required(g, target, start)
    BY DEF Needs
  <2>2. m = <<g, m[2]>> /\ m[1] = g /\ m[2] \in Required(g, target, start)
    BY <2>1
  <2>3. /\ m[2] \in Nat
        /\ IF Groups[g].kind = "dense" THEN m[2] * Groups[g].block + Groups[g].ratio <= target
           ELSE m[2] * Groups[g].block < target
    BY <2>2, RequiredMember
  <2>4. m[2] * Groups[g].block \in Nat
    BY <2>3, ParamFacts
  <2> QED
    BY <2>2, <2>3, <2>4 DEF Begun, Unit
<1>2. ASSUME NEW m \in GroupIds \X Nat, NEW x \in Nat, x <= target, Begun(m, x),
             Groups[m[1]].kind = "window" => ~ (m[2] < FirstKept(m[1], start))
      PROVE  m \in Needs(target, start)
  <2> DEFINE g == m[1]
             i == m[2]
             b == Groups[m[1]].block
  <2>1. g \in GroupIds /\ i \in Nat /\ m = <<g, i>> /\ b \in Nat \ {0}
    BY ParamFacts
  <2>2. i * b \in Nat /\ i * b + b = (i + 1) * b
    BY <2>1
  <2>3. i * b + Unit(g) <= x
    BY <1>2 DEF Begun
  <2>4. CASE Groups[g].kind = "dense"
    <3>1. Groups[g].ratio \in Nat
      BY <2>1, <2>4, ParamFacts
    <3>2. i * b + Groups[g].ratio <= target
      BY <1>2, <2>2, <2>3, <2>4, <3>1 DEF Unit
    <3>3. i \in Required(g, target, start)
      BY <2>1, <2>4, <3>2, RequiredMember
    <3> QED
      BY <2>1, <3>3 DEF Needs
  <2>5. CASE Groups[g].kind # "dense"
    <3> DEFINE a == AtLeast0(start - Groups[g].window + 1)
    <3>1. Groups[g].kind = "window" /\ Groups[g].window \in Nat
      BY <2>1, <2>5, ParamFacts
    <3>2. a \in Nat
      BY <3>1 DEF AtLeast0
    <3>3. ~ (i < a \div b)
      BY <1>2, <3>1 DEF FirstKept
    <3> HIDE DEF a
    <3>4. a < i * b + b
      <4>1. a \div b \in Nat
        BY <2>1, <3>2, DivFacts
      <4>2. a \div b < i + 1
        BY <2>1, <3>3, <4>1
      <4>3. ~ ((i + 1) * b <= a)
        <5>1. i + 1 \in Nat
          BY <2>1
        <5>2. (i + 1) * b <= a => i + 1 <= a \div b
          BY <2>1, <3>2, <5>1, DivFacts
        <5> HIDE DEF i, b
        <5> QED
          BY <4>1, <4>2, <5>1, <5>2
      <4> QED
        BY <2>1, <2>2, <3>2, <4>3
    <3>5. i * b < target
      BY <1>2, <2>2, <2>3, <2>5 DEF Unit
    <3>6. i \in Required(g, target, start)
      BY <2>1, <2>5, <3>4, <3>5, RequiredMember DEF a
    <3> QED
      BY <2>1, <3>6 DEF Needs
  <2> QED
    BY <2>4, <2>5
<1> QED
  BY <1>1, <1>2

(* The tokens that are done once the step in flight is. *)
Reach(pe, po) == IF pe = NoStep THEN po ELSE pe

(***************************************************************************)
(* The plan of r fits beside what the others hold, and r holds only blocks *)
(* it has reached.                                                         *)
(***************************************************************************)
Secured(r, pg, ad, x) ==
  ad = 0 => /\ Cardinality(Foreign(pg, r)) + Cardinality(Plan(r)) <= Total - 1
            /\ \A m \in DOMAIN pg[r] : Begun(m, x)

(* Nobody else runs in the domain of r. *)
Alone(r, ph) ==
  \A q \in Requests : ph[q] = "running" /\ DomainOf(q) = DomainOf(r) => q = r

(* What holds for each running request. *)
Reserves(ph, pg, ad, pe, po) ==
  \A r \in Requests : ph[r] = "running" =>
    Alone(r, ph) /\ Secured(r, pg, ad[r], Reach(pe[r], po[r]))
(***************************************************************************)
(* With one P slot: while a request runs, nobody else in its domain does,  *)
(* and for one that adopted nothing the plan of its whole input fits       *)
(* beside what the others hold, and it holds only blocks it has reached.   *)
(***************************************************************************)
Reserved ==
  failure = <<>> /\ PSlots = 1 => Reserves(phase, pages, adopted, pending, position)

(* The scenario and what is derived from it do not change. *)
LEMMA SameReserve ==
  ASSUME scenario' = scenario
  PROVE  /\ PSlots' = PSlots
         /\ Reserves(phase, pages, adopted, pending, position)' =
              Reserves(phase', pages', adopted', pending', position')
         /\ \A r \in Requests : pools' = pools => LookupHit(r)' = LookupHit(r)
<1>1. PSlots' = PSlots
  BY DEF PSlots
<1>2. Reserves(phase, pages, adopted, pending, position)' =
        Reserves(phase', pages', adopted', pending', position')
  BY DEF Reserves, Alone, Secured, Reach, Foreign, Plan, Whole, Cap, Length, StepBudget, Requests, DomainOf
<1>3. ASSUME NEW r \in Requests, pools' = pools PROVE LookupHit(r)' = LookupHit(r)
  BY <1>3 DEF LookupHit, Cached, Length, DomainOf, Key
<1> QED
  BY <1>1, <1>2, <1>3

(* An event of request s keeps the reservations of the others. *)
LEMMA Reserving ==
  ASSUME CInv, scenario' = scenario, Reserves(phase, pages, adopted, pending, position),
         NEW s \in Requests, NEW ph, NEW h, phase' = [phase EXCEPT ![s] = ph],
         pages' = [pages EXCEPT ![s] = h],
         \A q \in Requests \ {s} :
           adopted'[q] = adopted[q] /\ pending'[q] = pending[q] /\ position'[q] = position[q],
         ph = "running" => /\ phase[s] = "running" \/ Running(DomainOf(s)) = {}
                           /\ Secured(s, pages', adopted'[s], Reach(pending'[s], position'[s])),
         h \in {<<>>, pages[s]} \/ Running(DomainOf(s)) \subseteq {s}
  PROVE  Reserves(phase', pages', adopted', pending', position')
<1>1. /\ DOMAIN pages = Requests /\ phase'[s] = ph
      /\ \A q \in Requests \ {s} : phase'[q] = phase[q]
  BY DEF CInv, Shape, Progress
<1>2. ASSUME NEW q \in Requests, phase'[q] = "running"
      PROVE  Alone(q, phase')
  <2>1. ASSUME NEW x \in Requests, phase'[x] = "running", DomainOf(x) = DomainOf(q), x # q PROVE FALSE
    <3>1. ASSUME NEW u \in Requests \ {s}, NEW v \in Requests, u # v, phase[u] = "running",
                 phase'[v] = "running", DomainOf(u) = DomainOf(v)
          PROVE  FALSE
      <4>1. Alone(u, phase) /\ u \in Running(DomainOf(v))
        BY <3>1 DEF Reserves, Running
      <4>2. phase[v] # "running"
        BY <3>1, <4>1 DEF Alone
      <4>3. v = s /\ ph = "running"
        BY <1>1, <3>1, <4>2
      <4> QED
        BY <4>1, <4>2, <4>3
    <3>2. CASE x = s
      BY <1>1, <1>2, <2>1, <3>1, <3>2
    <3>3. CASE x # s
      BY <1>1, <1>2, <2>1, <3>1, <3>3
    <3> QED
      BY <3>2, <3>3
  <2> QED
    BY <2>1 DEF Alone
<1>3. ASSUME NEW q \in Requests, phase'[q] = "running"
      PROVE  Secured(q, pages', adopted'[q], Reach(pending'[q], position'[q]))
  <2>1. CASE q = s
    BY <1>1, <1>3, <2>1
  <2>2. CASE q # s
    <3>1. phase[q] = "running" /\ q \in Running(DomainOf(q))
      BY <1>1, <1>3, <2>2 DEF Running
    <3>2. Secured(q, pages, adopted'[q], Reach(pending'[q], position'[q]))
      BY <2>2, <3>1 DEF Reserves
    <3>3. pages'[q] = pages[q]
      BY <1>1, <2>2
    <3>4. Cardinality(Foreign(pages', q)) <= Cardinality(Foreign(pages, q))
      <4>1. CASE h = pages[s]
        <5>1. pages' = pages
          BY <1>1, <4>1 DEF CInv, Shape
        <5>2. Cardinality(Foreign(pages, q)) \in Nat
          BY ForeignFinite
        <5>3. Cardinality(Foreign(pages', q)) = Cardinality(Foreign(pages, q))
          BY <5>1
        <5> QED
          BY <5>2, <5>3
      <4>2. CASE h # pages[s]
        <5>1. DomainOf(s) # DomainOf(q) \/ h = <<>>
          BY <2>2, <3>1, <4>2
        <5> QED
          BY <1>1, <5>1, ForeignShrinks
      <4> QED
        BY <4>1, <4>2
    <3>5. /\ Cardinality(Foreign(pages', q)) \in Nat /\ Cardinality(Foreign(pages, q)) \in Nat
          /\ Cardinality(Plan(q)) \in Nat /\ Total \in Nat
      BY ForeignFinite, PlanFinite, TotalAssumption DEF CInv
    <3> QED
      BY <3>2, <3>3, <3>4, <3>5 DEF Secured
  <2> QED
    BY <2>1, <2>2
<1> QED
  BY <1>2, <1>3 DEF Reserves

(* A start from nothing takes nothing from the cache, and is charged the plan. *)
LEMMA ColdLookup ==
  ASSUME CInv, NEW r \in Requests
  PROVE  LET hits == Hits(r, 0)
         IN  /\ DOMAIN hits = {} /\ Range(hits) = {} /\ Pinned(pools[DomainOf(r)], hits) = {}
             /\ \A t : Missing(hits, t, 0) = Needs(t, 0)
             /\ Admission(r, 0, {}) = Cardinality(Plan(r))
<1> DEFINE hits == Hits(r, 0)
<1>1. DOMAIN hits = UNION {{g} \X Recovery(g, 0) : g \in GroupIds}
  BY DEF Hits
<1>2. ASSUME NEW g \in GroupIds PROVE Recovery(g, 0) = {}
  <2>1. ASSUME NEW i \in Recovery(g, 0) PROVE FALSE
    <3>1. i \in Nat /\ End(<<g, i>>) <= 0
      BY RecoveryFacts
    <3>2. <<g, i>> \in GroupIds \X Nat /\ scenario \in Scenarios
      BY <3>1 DEF CInv
    <3>3. End(<<g, i>>) \in Nat \ {0}
      BY <3>2, BlockFacts
    <3> QED
      BY <3>1, <3>3
  <2> QED
    BY <2>1
<1>3. DOMAIN hits = {}
  BY <1>1, <1>2
<1> HIDE DEF hits
<1>4. Range(hits) = {} /\ Pinned(pools[DomainOf(r)], hits) = {}
  BY <1>3 DEF Range, Pinned
<1>5. \A h, t : DOMAIN h = {} => Missing(h, t, 0) = Needs(t, 0)
  BY DEF Missing, Needs
<1>6. Admission(r, 0, {}) = Cardinality(Plan(r))
  <2> DEFINE skipped(g) == IF Groups[g].kind = "dense" THEN 0 ELSE FirstKept(g, 0)
             future(g) == AtLeast0(Whole(r, g) - Max({skipped(g), 0 \div Groups[g].block}))
  <2>1. ASSUME NEW g \in GroupIds PROVE future(g) = Whole(r, g)
    <3>1. Groups[g].block \in Nat \ {0}
      BY ParamFacts
    <3>2. 0 \div Groups[g].block = 0
      BY <3>1
    <3>3. skipped(g) = 0
      <4>1. CASE Groups[g].kind # "dense"
        <5>1. Groups[g].window \in Nat \ {0}
          BY <4>1, ParamFacts
        <5>2. AtLeast0(0 - Groups[g].window + 1) = 0
          BY <5>1 DEF AtLeast0
        <5> QED
          BY <3>2, <4>1, <5>2 DEF FirstKept
      <4> QED
        BY <4>1
    <3>4. Max({0, 0}) = 0
      <4>1. {0, 0} \subseteq 0 .. 0 /\ 0 \in {0, 0} /\ \A y \in {0, 0} : y <= 0
        OBVIOUS
      <4>2. Max({0, 0}) \in {0, 0}
        BY <4>1, GreatestNat
      <4> QED
        BY <4>2
    <3>5. Whole(r, g) \in Nat
      <4>1. scenario \in Scenarios
        BY DEF CInv
      <4>2. 0 <= Length(r) /\ 0 - 0 <= StepBudget
        BY <4>1, RowFacts
      <4> QED
        BY <4>1, <4>2, StepWithin
    <3>6. Max({skipped(g), 0 \div Groups[g].block}) = 0
      BY <3>2, <3>3, <3>4
    <3> HIDE DEF skipped
    <3> QED
      BY <3>5, <3>6 DEF AtLeast0
  <2>2. Admission(r, 0, {}) = Cardinality({}) + Cardinality(UNION {{g} \X (1 .. future(g)) : g \in GroupIds})
    BY DEF Admission
  <2> HIDE DEF future
  <2>3. UNION {{g} \X (1 .. future(g)) : g \in GroupIds} = Plan(r)
    BY <2>1 DEF Plan
  <2>4. Admission(r, 0, {}) = Cardinality({}) + Cardinality(Plan(r))
    BY ONLY <2>2, <2>3
  <2>5. Cardinality({}) = 0 /\ Cardinality(Plan(r)) \in Nat
    BY FS_EmptySet, PlanFinite DEF CInv
  <2> QED
    BY <2>4, <2>5
<1> QED
  BY <1>3, <1>4, <1>5, <1>6 DEF hits

(* What the references of CInv say of one pool. *)
LEMMA PoolOf ==
  ASSUME CInv, NEW r \in Requests
  PROVE  /\ scenario \in Scenarios /\ Shape(pages) /\ SoundPool(pools[DomainOf(r)])
         /\ \A p \in Pages : pools[DomainOf(r)].refs[p] = Cardinality(Holding(pages, DomainOf(r), p))
<1>1. DomainOf(r) \in Domains
  BY RowFacts DEF CInv
<1> QED
  BY <1>1 DEF CInv, Counted

(* A request that is let in cold: its plan fits, and so does its first step. *)
LEMMA ColdStart ==
  ASSUME CInv, NEW r \in Requests, DOMAIN pages[r] = {}, LookupHit(r) = 0,
         NEW target \in Nat, target <= Length(r), target <= StepBudget,
         Cardinality(Plan(r)) <= Available(pools[DomainOf(r)])
  PROVE  /\ Cardinality(Foreign(pages, r)) + Cardinality(Plan(r)) <= Total - 1
         /\ Cardinality(Missing(Hits(r, 0), target, 0)) <= Available(pools[DomainOf(r)])
<1> DEFINE pool == pools[DomainOf(r)]
<1>1. /\ Available(pool) \in Nat
      /\ Available(pool) + Cardinality(Foreign(pages, r)) <= Total - 1
  BY PoolOf, RoomLeft
<1>2. /\ Cardinality(Needs(target, 0)) \in Nat /\ Cardinality(Plan(r)) \in Nat
      /\ Cardinality(Needs(target, 0)) <= Cardinality(Plan(r))
  <2>1. target - 0 <= StepBudget
    OBVIOUS
  <2> QED
    BY <2>1, PoolOf, NeedsFit
<1>3. Missing(Hits(r, 0), target, 0) = Needs(target, 0)
  BY ColdLookup
<1>4. Cardinality(Foreign(pages, r)) \in Nat /\ Total \in Nat
  BY ForeignFinite, TotalAssumption
<1> HIDE DEF pool
<1> QED
  BY <1>1, <1>2, <1>3, <1>4 DEF pool

(* The step budget bounds the tokens of a step. *)
LEMMA Afforded ==
  ASSUME CInv, NEW r \in Requests, NEW cost \in Int, NEW budget, ~ OverBudget(r, cost, budget)
  PROVE  cost <= StepBudget
<1>1. used[DomainOf(r)] \in Nat /\ StepBudget \in Nat
  BY RowFacts DEF CInv
<1>2. ~ (cost + used[DomainOf(r)] > StepBudget)
  BY DEF OverBudget
<1> QED
  BY <1>1, <1>2

(* One slot: nobody runs in a domain that has a slot left. *)
LEMMA SlotFree ==
  ASSUME CInv, NEW d, PSlots = 1, ~ (Cardinality(Running(d)) >= PSlots)
  PROVE  Running(d) = {}
<1>1. IsFiniteSet(Requests) /\ Running(d) \in SUBSET Requests
  BY RowFacts DEF CInv, Running
<1>2. IsFiniteSet(Running(d)) /\ Cardinality(Running(d)) \in Nat
  BY <1>1, FS_Subset, FS_CardinalityType
<1>3. Cardinality(Running(d)) = 0
  BY <1>2
<1> QED
  BY <1>2, <1>3, FS_EmptySet

(***************************************************************************)
(* The first step: the admission gate sets the plan aside, and refuses     *)
(* nothing cold for lack of active pages.                                  *)
(***************************************************************************)
LEMMA NewReserves ==
  ASSUME CInv, CInv', Reserved, PSlots = 1, scenario' = scenario, failure = <<>>, NEW r \in Requests,
         NEW t \in 1 .. Length(r), NEW budget, ScheduleNew(r, t, budget)
  PROVE  /\ failure' = <<>> => Reserves(phase', pages', adopted', pending', position')
         /\ failure' # <<>> => /\ failure'[2] = r /\ phase'[r] = "arrived" /\ pools' = pools
                               /\ failure'[1] = "active_capacity" => LookupHit(r) > 0
<1> DEFINE hit == LookupHit(r)
           target == Max({t, hit})
           hits == Hits(r, hit)
           old == pools[DomainOf(r)]
           pool == TouchAll(old, Range(hits))
           why == Refusal(r, hit, target, budget)
<1>1. phase[r] = "arrived" /\ pending[r] = NoStep
  BY DEF ScheduleNew
<1>2. DOMAIN pages[r] = {}
  BY <1>1 DEF CInv, Progress
<1>3. hit \in Nat /\ hit < Length(r) /\ Length(r) \in Nat
  BY LookupHitFacts, RowFacts DEF CInv
<1>4. target \in Nat /\ target # NoStep /\ hit <= target /\ target <= Length(r)
  BY <1>3, TargetFacts
<1>5. ASSUME hit = 0, ~ OverBudget(r, target - hit, budget)
      PROVE  target <= StepBudget
  <2>1. target - hit \in Int /\ target - hit = target
    BY <1>3, <1>4, <1>5
  <2> HIDE DEF hit, target
  <2> QED
    BY <1>5, <2>1, Afforded
<1>6. hit = 0 => /\ Pinned(old, hits) = {} /\ Cardinality(Pinned(old, hits)) = 0
                 /\ Admission(r, hit, Pinned(old, hits)) = Cardinality(Plan(r))
                 /\ hits = Hits(r, 0)
  <2> SUFFICES ASSUME hit = 0 PROVE /\ Pinned(old, hits) = {} /\ Cardinality(Pinned(old, hits)) = 0
                 /\ Admission(r, hit, Pinned(old, hits)) = Cardinality(Plan(r))
                 /\ hits = Hits(r, 0)
    OBVIOUS
  <2>1. hits = Hits(r, 0)
    OBVIOUS
  <2>2. Pinned(old, hits) = {} /\ Admission(r, 0, {}) = Cardinality(Plan(r))
    BY <1>2, <2>1, ColdLookup
  <2> QED
    BY <2>1, <2>2, FS_EmptySet
<1>7. Cardinality(Missing(hits, target, hit)) \in Nat /\ Available(old) \in Nat /\ Cardinality(Plan(r)) \in Nat
  <2> HIDE DEF target, hits
  <2> QED
    BY <1>3, <1>4, MissingFacts, PoolOf, RoomLeft, PlanFinite
<1> HIDE DEF hit, target, hits, old, pool
<1>8. CASE why = "none"
  <2>1. /\ phase' = [phase EXCEPT ![r] = "running"]
        /\ position' = [position EXCEPT ![r] = hit]
        /\ adopted' = [adopted EXCEPT ![r] = hit]
        /\ StartStep(r, pool, hits, target, hit)
    BY <1>8 DEF ScheduleNew, hit, target, hits, old, pool
  <2>2. /\ ~ (Cardinality(Running(DomainOf(r))) >= PSlots)
        /\ ~ OverBudget(r, target - hit, budget)
        /\ ~ (Admission(r, hit, Pinned(old, hits)) > Available(old))
    BY <1>8 DEF Refusal, hits, old
  <2>3. Running(DomainOf(r)) = {}
    BY <2>2, SlotFree
  <2>4. ASSUME failure' = <<>>
        PROVE  Reserves(phase', pages', adopted', pending', position')
    <3> DEFINE got == AllocateAll(pool, hits, Missing(hits, target, hit))
    <3>1. /\ pages' = [pages EXCEPT ![r] = got.held]
          /\ pending' = [pending EXCEPT ![r] = target]
      <4>1. got.ok
        <5>1. ~ got.ok => failure' = <<"allocate", r>>
          BY <2>1 DEF StartStep, Fail
        <5> QED
          BY <2>4, <5>1
      <4> QED
        BY <2>1, <4>1 DEF StartStep
    <3>2. ASSUME hit = 0 PROVE DOMAIN got.held = Needs(target, 0)
      <4>1. SoundPool(pool) /\ Available(pool) = Available(old) - Cardinality(Pinned(old, hits))
        BY <1>2, TouchMoves DEF Move, hit, hits, old, pool
      <4>2. Available(pool) = Available(old)
        BY <1>6, <1>7, <3>2, <4>1
      <4>3. Cardinality(Missing(hits, target, hit)) <= Available(pool)
        <5>1. ~ (Cardinality(Missing(hits, target, hit)) + Cardinality(Pinned(old, hits)) > Available(old))
          BY <1>8 DEF Refusal, hits, old
        <5> QED
          BY <1>6, <1>7, <3>2, <4>2, <5>1
      <4>4. /\ IsFiniteSet(Missing(hits, target, hit))
            /\ Missing(hits, target, hit) \subseteq Int \X Int
        <5>1. /\ IsFiniteSet(Missing(hits, target, hit))
              /\ Missing(hits, target, hit) \subseteq InputBlocks(r)
          BY <1>3, <1>4, MissingFacts, PoolOf
        <5>2. InputBlocks(r) \subseteq GroupIds \X Nat /\ GroupIds = 1 .. Len(Groups) /\ Len(Groups) \in Nat
          BY BlockFacts, GroupFacts, PoolOf
        <5> QED
          BY <5>1, <5>2
      <4>5. hits = [m \in DOMAIN hits |-> hits[m]]
        BY DEF hits, Hits
      <4>6. Taken(pool, hits, got, Missing(hits, target, hit))
        BY <4>1, <4>3, <4>4, <4>5, AllocateAllFacts
      <4>7. DOMAIN got.held = DOMAIN hits \cup Missing(hits, target, hit)
        <5> HIDE DEF got
        <5> QED
          BY <4>6 DEF Taken
      <4>8. DOMAIN hits = {} /\ Missing(hits, target, 0) = Needs(target, 0)
        BY <1>2, <1>6, <3>2, ColdLookup DEF hit
      <4> QED
        BY <3>2, <4>7, <4>8
    <3> HIDE DEF got
    <3>3. /\ adopted'[r] = hit /\ pending'[r] = target /\ pages'[r] = got.held
          /\ \A q \in Requests \ {r} :
               adopted'[q] = adopted[q] /\ pending'[q] = pending[q] /\ position'[q] = position[q]
      BY <2>1, <3>1 DEF CInv, Progress, Shape
    <3>4. Reach(pending'[r], position'[r]) = target
      BY <1>4, <3>3 DEF Reach
    <3>5. ASSUME hit = 0
          PROVE  /\ Cardinality(Foreign(pages', r)) + Cardinality(Plan(r)) <= Total - 1
                 /\ \A m \in DOMAIN pages'[r] : Begun(m, target)
      <4>1. target <= StepBudget
        BY <1>5, <2>2, <3>5 DEF hit, target
      <4>2. Cardinality(Plan(r)) <= Available(old)
        BY <1>6, <1>7, <2>2, <3>5
      <4>3. Cardinality(Foreign(pages, r)) + Cardinality(Plan(r)) <= Total - 1
        BY <1>2, <1>4, <3>5, <4>1, <4>2, ColdStart DEF hit, old
      <4>4. Cardinality(Foreign(pages', r)) <= Cardinality(Foreign(pages, r))
        <5>1. DOMAIN pages = Requests
          BY DEF CInv, Shape
        <5> QED
          BY <3>1, <5>1, ForeignShrinks
      <4>5. /\ Cardinality(Foreign(pages', r)) \in Nat /\ Cardinality(Foreign(pages, r)) \in Nat /\ Total \in Nat
        BY ForeignFinite, TotalAssumption
      <4>6. \A m \in Needs(target, 0) : Begun(m, target)
        BY <1>4, NeedsFacts
      <4> QED
        BY <1>7, <3>2, <3>3, <3>5, <4>3, <4>4, <4>5, <4>6
    <3>6. Secured(r, pages', adopted'[r], Reach(pending'[r], position'[r]))
      BY <3>3, <3>4, <3>5 DEF Secured
    <3>7. Reserves(phase, pages, adopted, pending, position)
      BY DEF Reserved
    <3> QED
      BY <2>1, <2>3, <3>1, <3>3, <3>6, <3>7, Reserving
  <2>5. failure' = <<>>
    <3>1. failure' \in {<<>>, <<"allocate", r>>}
      <4>1. failure' = failure \/ failure' = <<"allocate", r>>
        BY <2>1 DEF StartStep, Fail
      <4> QED
        BY <4>1
    <3>2. failure' # <<"allocate", r>>
      <4>1. ASSUME failure' = <<"allocate", r>> PROVE FALSE
        <5>1. failure' # <<>> /\ failure'[1] = "allocate"
          BY <4>1
        <5> QED
          BY <5>1 DEF CInv, Failed
      <4> QED
        BY <4>1
    <3> QED
      BY <3>1, <3>2
  <2> QED
    BY <2>4, <2>5
<1>9. CASE why # "none"
  <2>1. failure' = <<why, r>> /\ phase' = phase /\ pools' = pools
    BY <1>9 DEF ScheduleNew, Fail, hit, target, hits, old, pool
  <2>2. ASSUME why = "active_capacity" PROVE LookupHit(r) > 0
    <3>1. /\ ~ OverBudget(r, target - hit, budget)
          /\ ~ (Admission(r, hit, Pinned(old, hits)) > Available(old))
          /\ Cardinality(Missing(hits, target, hit)) + Cardinality(Pinned(old, hits)) > Available(old)
      BY <2>2 DEF Refusal, hits, old
    <3>2. ASSUME hit = 0 PROVE FALSE
      <4>1. target <= StepBudget
        BY <1>5, <3>1, <3>2 DEF hit, target
      <4>2. Cardinality(Plan(r)) <= Available(old)
        BY <1>6, <1>7, <3>1, <3>2
      <4>3. Cardinality(Missing(Hits(r, 0), target, 0)) <= Available(old)
        BY <1>2, <1>4, <3>2, <4>1, <4>2, ColdStart DEF hit, old
      <4> QED
        BY <1>6, <1>7, <3>1, <3>2, <4>3
    <3> QED
      BY <1>3, <3>2 DEF hit
  <2> HIDE DEF why
  <2>3. failure' # <<>> /\ failure'[1] = why /\ failure'[2] = r
    BY <2>1
  <2> QED
    BY <1>1, <2>1, <2>2, <2>3
<1> QED
  BY <1>8, <1>9

(***************************************************************************)
(* The next step of a running request that adopted nothing: what the plan  *)
(* set aside covers what it still lacks, once the stale blocks are back.   *)
(***************************************************************************)
LEMMA NextReserves ==
  ASSUME CInv, CInv', Reserved, PSlots = 1, scenario' = scenario, failure = <<>>, NEW r \in Requests,
         NEW t \in 1 .. Length(r), NEW budget, ScheduleNext(r, t, budget)
  PROVE  /\ failure' = <<>> => Reserves(phase', pages', adopted', pending', position')
         /\ failure' # <<>> => /\ failure'[2] = r /\ phase'[r] = "running"
                               /\ failure'[1] = "active_capacity" => adopted'[r] > 0
<1> DEFINE d == DomainOf(r)
           p == position[r]
           target == Max({t, p})
           pool == ReleaseAll(pools[d], pages[r], Stale(r))
           held == Restrict(pages[r], DOMAIN pages[r] \ Stale(r))
           lacks == Missing(held, target, p)
<1>1. /\ phase[r] = "running" /\ pending[r] = NoStep
      /\ UNCHANGED <<phase, position, adopted, compute>>
  BY DEF ScheduleNext
<1>2. p \in Nat /\ p <= Length(r) /\ adopted[r] \in Nat /\ Length(r) \in Nat
  BY RowFacts DEF CInv, Progress
<1>3. target \in Nat /\ target # NoStep /\ p <= target /\ target <= Length(r)
  BY <1>2, TargetFacts
<1>4. held = [m \in DOMAIN pages[r] \ Stale(r) |-> pages[r][m]] /\ Stale(r) \subseteq DOMAIN pages[r]
  BY DEF Restrict, Stale
<1>5. DOMAIN held = DOMAIN pages[r] \ Stale(r) /\ DOMAIN pages[r] \subseteq GroupIds \X Nat
  BY <1>4, HeldFacts
<1>6. Move(r, pool, held, p)
  <2> HIDE DEF held
  <2> QED
    BY <1>4, ReleaseMoves
<1>7. Alone(r, phase) /\ Secured(r, pages, adopted[r], p)
  BY <1>1 DEF Reserved, Reserves, Reach
<1>8. \A m \in DOMAIN held : Groups[m[1]].kind = "window" => ~ (m[2] < FirstKept(m[1], p))
  BY <1>5 DEF Stale
<1> HIDE DEF target, pool, held
<1>9. adopted[r] = 0 => DOMAIN held \subseteq Needs(target, p)
  <2> SUFFICES ASSUME adopted[r] = 0, NEW m \in DOMAIN held PROVE m \in Needs(target, p)
    OBVIOUS
  <2>1. m \in GroupIds \X Nat /\ Begun(m, p)
    BY <1>5, <1>7 DEF Secured
  <2> QED
    BY <1>2, <1>3, <1>8, <2>1, NeedsFacts
<1>10. \A S, h : Needs(S, h) = UNION {{g} \X Required(g, S, h) : g \in GroupIds}
  BY DEF Needs
<1>11. DOMAIN pages = Requests
  BY DEF CInv, Shape
<1>12. ASSUME adopted[r] = 0, ~ OverBudget(r, target - p, budget)
       PROVE  Cardinality(lacks) <= Available(pool)
  <2> DEFINE pg == [pages EXCEPT ![r] = held]
             ps == [pools EXCEPT ![d] = pool]
             pn == [position EXCEPT ![r] = p]
  <2>1. p <= p
    BY <1>2
  <2>2. Shape(pg) /\ Counted(pg, ps)
    <3>1. \A x, y, z : x = pg /\ y = ps /\ z = pn => Shape(x) /\ Counted(x, y)
      <4> SUFFICES ASSUME NEW x, NEW y, NEW z, x = pg, y = ps, z = pn PROVE Shape(x) /\ Counted(x, y)
        OBVIOUS
      <4> QED
        BY <1>2, <1>6, <2>1, MoveKeeps
    <3> HIDE DEF pg, ps, pn
    <3> QED
      BY <3>1
  <2>3. pg[r] = held /\ SoundPool(pool) /\ scenario \in Scenarios
    BY <1>6, <1>11 DEF Move, CInv
  <2>4. \A x \in Pages : pool.refs[x] = Cardinality(Holding(pg, d, x))
    <3>1. d \in Domains /\ ps[d] = pool
      BY PoolOf, RowFacts DEF CInv
    <3> HIDE DEF pg, ps
    <3> QED
      BY <2>2, <3>1 DEF Counted
  <2>5. Cardinality(Foreign(pg, r)) + Cardinality(Plan(r)) <= Total - 1
    <3>1. Cardinality(Foreign(pg, r)) <= Cardinality(Foreign(pages, r))
      BY <1>11, ForeignShrinks
    <3>2. Cardinality(Foreign(pages, r)) + Cardinality(Plan(r)) <= Total - 1
      BY <1>7, <1>12 DEF Secured
    <3>3. /\ Cardinality(Foreign(pg, r)) \in Nat /\ Cardinality(Foreign(pages, r)) \in Nat
          /\ Cardinality(Plan(r)) \in Nat /\ Total \in Nat
      BY <2>3, ForeignFinite, PlanFinite, TotalAssumption
    <3> HIDE DEF pg
    <3> QED
      BY <3>1, <3>2, <3>3
  <2>6. target - p <= StepBudget
    <3>1. target - p \in Int
      BY <1>2, <1>3
    <3> QED
      BY <1>12, <3>1, Afforded
  <2>7. DOMAIN pg[r] \subseteq Needs(target, p)
    BY <1>9, <1>12, <2>3
  <2>8. Cardinality(Missing(pg[r], target, p)) <= Available(pool)
    <3> HIDE DEF pg, p
    <3> QED
      BY <1>2, <1>3, <2>2, <2>3, <2>4, <2>5, <2>6, <2>7, PlanLeft
  <2> QED
    BY <2>3, <2>8
<1>13. \A why : failure' = <<why, r>> => failure' # <<>> /\ failure'[1] = why /\ failure'[2] = r
  OBVIOUS
<1> HIDE DEF lacks
<1>14. CASE OverBudget(r, target - p, budget)
  <2>1. failure' = <<"scheduling_budget", r>>
    BY <1>14 DEF ScheduleNext, Fail, target
  <2> QED
    BY <1>1, <1>13, <2>1
<1>15. CASE ~ OverBudget(r, target - p, budget) /\ Cardinality(lacks) > Available(pool)
  <2>1. failure' = <<"active_capacity", r>>
    BY <1>15 DEF ScheduleNext, Fail, target, pool, held, lacks
  <2>2. adopted[r] # 0
    <3>1. Cardinality(lacks) \in Nat /\ Available(pool) \in Nat
      BY <1>2, <1>3, <1>6, MissingFacts, SoundRoom, PoolOf DEF lacks, Move
    <3> QED
      BY <1>12, <1>15, <3>1
  <2>3. adopted'[r] > 0
    BY <1>1, <1>2, <2>2
  <2> QED
    BY <1>1, <1>13, <2>1, <2>3
<1>16. CASE ~ OverBudget(r, target - p, budget) /\ ~ (Cardinality(lacks) > Available(pool))
  <2> DEFINE got == AllocateAll(pool, held, lacks)
  <2>1. StartStep(r, pool, held, target, p)
    BY <1>16 DEF ScheduleNext, target, pool, held, lacks
  <2>2. /\ IsFiniteSet(lacks) /\ Cardinality(lacks) \in Nat /\ lacks \subseteq InputBlocks(r)
        /\ lacks \cap DOMAIN held = {}
    BY <1>2, <1>3, MissingFacts, PoolOf DEF lacks
  <2>3. lacks \subseteq Int \X Int
    <3>1. InputBlocks(r) \subseteq GroupIds \X Nat /\ GroupIds = 1 .. Len(Groups) /\ Len(Groups) \in Nat
      BY BlockFacts, GroupFacts, PoolOf
    <3> QED
      BY <2>2, <3>1
  <2>4. SoundPool(pool) /\ Available(pool) \in Nat /\ Cardinality(lacks) <= Available(pool)
    BY <1>6, <1>16, <2>2, SoundRoom DEF Move
  <2>5. held = [m \in DOMAIN held |-> held[m]]
    BY <1>6 DEF Move
  <2>6. Taken(pool, held, got, lacks)
    BY <2>2, <2>3, <2>4, <2>5, AllocateAllFacts
  <2>7. got.ok /\ DOMAIN got.held = DOMAIN held \cup lacks
    <3> HIDE DEF got
    <3>1. got = [pool |-> got.pool, ok |-> TRUE, held |-> got.held]
      BY <2>6 DEF Taken
    <3>2. got.ok = TRUE
      BY ONLY <3>1
    <3> QED
      BY <2>6, <3>2 DEF Taken
  <2>8. /\ pages' = [pages EXCEPT ![r] = got.held] /\ pending' = [pending EXCEPT ![r] = target]
        /\ failure' = failure
    BY <2>1, <2>7 DEF StartStep, lacks
  <2> HIDE DEF got
  <2>9. /\ pages'[r] = got.held /\ pending'[r] = target /\ adopted' = adopted
        /\ \A q \in Requests \ {r} :
             adopted'[q] = adopted[q] /\ pending'[q] = pending[q] /\ position'[q] = position[q]
    BY <1>1, <1>11, <2>8 DEF CInv, Progress
  <2>10. Reach(pending'[r], position'[r]) = target
    BY <1>3, <2>9 DEF Reach
  <2>11. ASSUME adopted[r] = 0
         PROVE  /\ Cardinality(Foreign(pages', r)) + Cardinality(Plan(r)) <= Total - 1
                /\ \A m \in DOMAIN pages'[r] : Begun(m, target)
    <3>1. Cardinality(Foreign(pages', r)) <= Cardinality(Foreign(pages, r))
      BY <1>11, <2>8, ForeignShrinks
    <3>2. Cardinality(Foreign(pages, r)) + Cardinality(Plan(r)) <= Total - 1
      BY <1>7, <2>11 DEF Secured
    <3>3. /\ Cardinality(Foreign(pages', r)) \in Nat /\ Cardinality(Foreign(pages, r)) \in Nat
          /\ Cardinality(Plan(r)) \in Nat /\ Total \in Nat
      BY ForeignFinite, PlanFinite, PoolOf, TotalAssumption
    <3>4. DOMAIN pages'[r] \subseteq Needs(target, p)
      BY <1>9, <2>7, <2>9, <2>11 DEF lacks, Missing, Needs
    <3>5. \A m \in Needs(target, p) : Begun(m, target)
      BY <1>2, <1>3, NeedsFacts
    <3> QED
      BY <3>1, <3>2, <3>3, <3>4, <3>5
  <2>12. Secured(r, pages', adopted'[r], Reach(pending'[r], position'[r]))
    BY <2>9, <2>10, <2>11 DEF Secured
  <2>13. phase' = [phase EXCEPT ![r] = "running"]
    BY <1>1 DEF CInv, Progress
  <2>14. Running(DomainOf(r)) \subseteq {r}
    BY <1>7 DEF Alone, Running
  <2>15. Reserves(phase, pages, adopted, pending, position)
    BY DEF Reserved
  <2>16. Reserves(phase', pages', adopted', pending', position')
    BY <1>1, <2>8, <2>9, <2>12, <2>13, <2>14, <2>15, Reserving
  <2> QED
    BY <2>8, <2>16
<1> QED
  BY <1>14, <1>15, <1>16

(***************************************************************************)
(* No step takes what was set aside, and a refusal for lack of active      *)
(* pages meets only a request that uses the cache.                         *)
(***************************************************************************)
LEMMA StepReserves ==
  ASSUME CInv, CInv', Reserved, ColdFits, [Next]_vars
  PROVE  Reserved' /\ ColdFits'
<1>1. CASE UNCHANGED vars
  <2>1. /\ scenario' = scenario /\ failure' = failure /\ pools' = pools /\ phase' = phase
        /\ pages' = pages /\ adopted' = adopted /\ pending' = pending /\ position' = position
    BY <1>1 DEF vars
  <2>2. Reserved'
    BY <2>1, SameReserve DEF Reserved
  <2>3. ColdFits'
    <3>1. ASSUME failure # <<>> PROVE failure[2] \in Requests
      BY <3>1 DEF CInv, Failed
    <3>2. failure # <<>> => LookupHit(failure[2])' = LookupHit(failure[2])
      BY <2>1 DEF LookupHit, Cached, Length, DomainOf, Key
    <3>3. PSlots' = PSlots
      BY <2>1, SameReserve
    <3> QED
      BY <2>1, <3>2, <3>3 DEF ColdFits
  <2> QED
    BY <2>2, <2>3
<1>2. CASE Next
  <2>1. scenario' = scenario /\ failure = <<>>
    BY <1>2 DEF Next
  <2>2. PSlots' = PSlots
    BY <2>1, SameReserve
  <2>3. CASE PSlots # 1
    BY <2>2, <2>3 DEF Reserved, ColdFits
  <2>4. CASE PSlots = 1
    <3>1. Reserves(phase, pages, adopted, pending, position)
      BY <2>1, <2>4 DEF Reserved
    <3>2. \/ failure' = <<>> /\ Reserves(phase', pages', adopted', pending', position')
          \/ failure' # <<>> /\ failure'[1] # "active_capacity"
          \/ /\ failure' # <<>> /\ failure'[2] \in Requests
             /\ IF phase'[failure'[2]] = "arrived"
                THEN pools' = pools /\ LookupHit(failure'[2]) > 0 ELSE adopted'[failure'[2]] > 0
      <4>1. CASE Tick
        BY <2>1, <3>1, <4>1 DEF Tick, request
      <4>2. CASE \E r \in Requests : Event(r)
        <5>1. PICK r \in Requests : Event(r)
          BY <4>2
        <5>2. DOMAIN pages = Requests /\ pages = [pages EXCEPT ![r] = pages[r]]
          BY DEF CInv, Shape
        <5>3. CASE Arrive(r)
          <6>1. CASE Cardinality(Active) >= Concurrency
            BY <5>3, <6>1 DEF Arrive, Fail
          <6>2. CASE ~ (Cardinality(Active) >= Concurrency)
            <7>1. /\ phase' = [phase EXCEPT ![r] = "arrived"] /\ failure' = <<>>
                  /\ pages' = [pages EXCEPT ![r] = pages[r]]
                  /\ UNCHANGED <<position, pending, adopted>>
              BY <2>1, <5>2, <5>3, <6>2 DEF Arrive
            <7> QED
              BY <2>1, <3>1, <7>1, Reserving
          <6> QED
            BY <6>1, <6>2
        <5>4. CASE \E t \in 1 .. Length(r), b \in Budgets : ScheduleNew(r, t, b)
          BY <2>1, <2>4, <5>4, NewReserves
        <5>5. CASE \E t \in 1 .. Length(r), b \in Budgets : ScheduleNext(r, t, b)
          BY <2>1, <2>4, <5>5, NextReserves
        <5>6. CASE StepComplete(r)
          <6> DEFINE ph == IF pending[r] = Length(r) THEN "transfer" ELSE phase[r]
          <6>1. /\ phase' = [phase EXCEPT ![r] = ph] /\ pending[r] # NoStep
                /\ pages' = [pages EXCEPT ![r] = pages[r]] /\ failure' = <<>> /\ adopted' = adopted
                /\ position' = [position EXCEPT ![r] = pending[r]]
                /\ pending' = [pending EXCEPT ![r] = NoStep]
            BY <2>1, <5>2, <5>6 DEF StepComplete
          <6>2. /\ position'[r] = pending[r] /\ pending'[r] = NoStep /\ pages' = pages
                /\ \A q \in Requests \ {r} : /\ adopted'[q] = adopted[q] /\ pending'[q] = pending[q]
                                             /\ position'[q] = position[q]
            BY <5>2, <6>1 DEF CInv, Progress
          <6>3. Reach(pending'[r], position'[r]) = Reach(pending[r], position[r])
            BY <6>1, <6>2 DEF Reach
          <6>4. ASSUME ph = "running"
                PROVE  phase[r] = "running" /\ Secured(r, pages', adopted'[r], Reach(pending'[r], position'[r]))
            <7>1. phase[r] = "running"
              BY <6>1 DEF CInv, Progress
            <7> QED
              BY <3>1, <6>1, <6>2, <6>3, <7>1 DEF Reserves
          <6> HIDE DEF ph
          <6> QED
            BY <2>1, <3>1, <6>1, <6>2, <6>4, Reserving
        <5>7. ASSUME NEW next \in {"decode", "cancelled"}, LeaveP(r, next)
              PROVE  failure' = <<>> /\ Reserves(phase', pages', adopted', pending', position')
          <6>1. /\ phase' = [phase EXCEPT ![r] = next] /\ failure' = <<>>
                /\ pages' = [pages EXCEPT ![r] = <<>>] /\ UNCHANGED <<position, pending, adopted>>
            BY <2>1, <5>7 DEF LeaveP
          <6> QED
            BY <2>1, <3>1, <6>1, Reserving
        <5>8. CASE PRelease(r) \/ Cancel(r)
          BY <5>7, <5>8 DEF PRelease, Cancel
        <5>9. CASE RequestComplete(r)
          <6>1. /\ phase' = [phase EXCEPT ![r] = "complete"] /\ failure' = <<>>
                /\ pages' = [pages EXCEPT ![r] = pages[r]]
                /\ UNCHANGED <<position, pending, adopted>>
            BY <2>1, <5>2, <5>9 DEF RequestComplete
          <6> QED
            BY <2>1, <3>1, <6>1, Reserving
        <5> QED
          BY <5>1, <5>3, <5>4, <5>5, <5>6, <5>8, <5>9 DEF Event
      <4> QED
        BY <1>2, <4>1, <4>2 DEF Next
    <3>3. Reserved'
      BY <2>1, <2>2, <3>2, SameReserve DEF Reserved
    <3>4. ColdFits'
      <4>1. ASSUME NEW r \in Requests, pools' = pools PROVE LookupHit(r)' = LookupHit(r)
        BY <2>1, <4>1, SameReserve
      <4>2. \A r \in Requests : pools' = pools /\ LookupHit(r) > 0 => LookupHit(r)' > 0
        BY <4>1
      <4> QED
        BY <2>2, <3>2, <4>2 DEF ColdFits
    <3> QED
      BY <3>3, <3>4
  <2> QED
    BY <2>3, <2>4
<1> QED
  BY <1>1, <1>2

(***************************************************************************)
(* The admission gate is enough, for every set of groups, scenario and     *)
(* capacity: with one P slot, a request that adopted nothing and was let   *)
(* in never runs out of pages, whatever its chunks are.                    *)
(***************************************************************************)
THEOREM ColdCorrect == Spec => []ColdFits
<1>1. Init => Reserved /\ ColdFits
  <2> SUFFICES ASSUME Init PROVE Reserved /\ ColdFits
    OBVIOUS
  <2>1. failure = <<>> /\ \A r \in Requests : phase[r] = "waiting"
    BY DEF Init
  <2> QED
    BY <2>1 DEF Reserved, Reserves, ColdFits
<1>2. CInv /\ CInv' /\ Reserved /\ ColdFits /\ [Next]_vars => Reserved' /\ ColdFits'
  BY StepReserves
<1> QED
  BY <1>1, <1>2, EngineInvariant, PTL DEF Spec
=============================================================================

--------------------------- MODULE PagePool_proofs --------------------------
(***************************************************************************)
(* Each operation of the pool keeps SoundPool, whatever the pool's size    *)
(* and keys; a sound pool accounts for its capacity. The pool keeps its    *)
(* books under every legal sequence of calls, and implements the queue of  *)
(* blocks. The proofs about the engine rest on the lemmas of the first     *)
(* part.                                                                   *)
(***************************************************************************)
EXTENDS PagePool, OrderedDicts_proofs

(* A new pool is sound. *)
LEMMA EmptyPoolSound == SoundPool(EmptyPool)
<1>1. Total \in Nat \ {0} /\ NoKey \notin Keys
  BY TotalAssumption, NoKeyAssumption
<1>2. <<>> \in Seq(Pages) /\ Range(<<>>) = {} /\ IsInjective(<<>>)
  BY DEF Range, IsInjective
<1>3. EmptyPool \in PoolState
  BY <1>1, <1>2 DEF EmptyPool, PoolState
<1>4. FreeExact(EmptyPool)
  BY <1>1, <1>2 DEF FreeExact, EmptyPool, Idle, Pages
<1>5. IndexedExact(EmptyPool)
  BY <1>1, <1>2 DEF IndexedExact, EmptyPool
<1>6. UnusedClean(EmptyPool)
  BY DEF UnusedClean, EmptyPool
<1> QED
  BY <1>3, <1>4, <1>5, <1>6 DEF SoundPool

(* touch of a page handed out before keeps a pool sound. *)
LEMMA TouchSound ==
  ASSUME NEW pool, SoundPool(pool), NEW p \in Pages, p < pool.nextId
  PROVE  SoundPool(Touch(pool, p))
<1> DEFINE q == Touch(pool, p)
           refs1 == [pool.refs EXCEPT ![p] = @ + 1]
           free1 == IF pool.refs[p] = 0 THEN Without(pool.free, p) ELSE pool.free
           empty1 == IF pool.refs[p] = 0 THEN Without(pool.emptyFree, p) ELSE pool.emptyFree
<1>1. pool \in PoolState /\ FreeExact(pool) /\ IndexedExact(pool) /\ UnusedClean(pool)
  BY DEF SoundPool
<1>2. /\ Without(pool.free, p) \in Seq(Pages)
      /\ Range(Without(pool.free, p)) = Range(pool.free) \ {p}
      /\ IsInjective(pool.free) => IsInjective(Without(pool.free, p))
  BY <1>1, WithoutFacts DEF PoolState
<1>3. /\ Without(pool.emptyFree, p) \in Seq(Pages)
      /\ Range(Without(pool.emptyFree, p)) = Range(pool.emptyFree) \ {p}
      /\ IsInjective(pool.emptyFree) => IsInjective(Without(pool.emptyFree, p))
  BY <1>1, WithoutFacts DEF PoolState
<1>4. refs1 \in [Pages -> Nat] /\ free1 \in Seq(Pages) /\ empty1 \in Seq(Pages)
  BY <1>1, <1>2, <1>3 DEF PoolState
<1>5. q = [pool EXCEPT !.emptyFree = empty1, !.free = free1, !.refs = refs1]
  BY DEF Touch
<1>6. \A x \in Pages : refs1[x] = IF x = p THEN pool.refs[p] + 1 ELSE pool.refs[x]
  BY <1>1 DEF PoolState
<1> HIDE DEF refs1, free1, empty1, q
<1>7. /\ q \in PoolState
      /\ q.nextId = pool.nextId /\ q.key = pool.key /\ q.index = pool.index
      /\ q.refs = refs1 /\ q.free = free1 /\ q.emptyFree = empty1
  BY <1>1, <1>4, <1>5 DEF PoolState
<1>8. Idle(q) = Idle(pool) \ {p}
  BY <1>1, <1>6, <1>7 DEF Idle, PoolState
<1>9. FreeExact(q)
  <2>1. CASE pool.refs[p] = 0
    BY <2>1, <1>1, <1>2, <1>3, <1>7, <1>8 DEF FreeExact, free1, empty1
  <2>2. CASE pool.refs[p] # 0
    <3>1. p \notin Idle(pool)
      BY <2>2 DEF Idle
    <3> QED
      BY <3>1, <2>2, <1>1, <1>7, <1>8 DEF FreeExact, free1, empty1
  <2> QED
    BY <2>1, <2>2
<1>10. IndexedExact(q)
  BY <1>1, <1>7 DEF IndexedExact
<1>11. UnusedClean(q)
  <2>1. p \in Int /\ pool.nextId \in Int
    BY <1>1 DEF PoolState, Pages
  <2>2. \A x \in Pages : x >= pool.nextId => x # p
    BY <2>1
  <2> QED
    BY <2>2, <1>1, <1>6, <1>7 DEF UnusedClean
<1> QED
  BY <1>7, <1>9, <1>10, <1>11 DEF SoundPool, q

(* publish of a held page keeps a pool sound. *)
LEMMA PublishSound ==
  ASSUME NEW pool, SoundPool(pool), NEW p \in Pages, NEW k \in Keys, pool.refs[p] > 0
  PROVE  SoundPool(Publish(pool, p, k))
<1> DEFINE q == Publish(pool, p, k)
           key1 == [pool.key EXCEPT ![p] = k]
           index1 == [pool.index EXCEPT ![k] = Append(@, p)]
<1>1. pool \in PoolState /\ FreeExact(pool) /\ IndexedExact(pool) /\ UnusedClean(pool)
  BY DEF SoundPool
<1> SUFFICES ASSUME pool.key[p] = NoKey PROVE SoundPool(q)
  BY DEF Publish
<1>2. NoKey \notin Keys
  BY NoKeyAssumption
<1>3. /\ Append(pool.index[k], p) \in Seq(Pages)
      /\ Range(Append(pool.index[k], p)) = Range(pool.index[k]) \cup {p}
      /\ p \notin Range(pool.index[k]) => IsInjective(Append(pool.index[k], p))
  <2>1. pool.index[k] \in Seq(Pages) /\ IsInjective(pool.index[k])
    BY <1>1 DEF PoolState, IndexedExact
  <2> QED
    BY <2>1, AppendDict
<1>4. key1 \in [Pages -> Keys \cup {NoKey}] /\ index1 \in [Keys -> Seq(Pages)]
  BY <1>1, <1>3 DEF PoolState
<1>5. q = [pool EXCEPT !.key = key1, !.index = index1]
  BY DEF Publish
<1>6. /\ \A x \in Pages : key1[x] = IF x = p THEN k ELSE pool.key[x]
      /\ \A h \in Keys : index1[h] = IF h = k THEN Append(pool.index[k], p) ELSE pool.index[h]
  BY <1>1 DEF PoolState
<1> HIDE DEF key1, index1, q
<1>7. /\ q \in PoolState
      /\ q.nextId = pool.nextId /\ q.key = key1 /\ q.index = index1
      /\ q.refs = pool.refs /\ q.free = pool.free /\ q.emptyFree = pool.emptyFree
  BY <1>1, <1>4, <1>5 DEF PoolState
<1>8. p \notin Idle(pool) /\ Idle(q) = Idle(pool)
  BY <1>7 DEF Idle
<1>9. FreeExact(q)
  BY <1>1, <1>6, <1>7, <1>8 DEF FreeExact, Idle
<1>10. IndexedExact(q)
  BY <1>1, <1>2, <1>3, <1>6, <1>7 DEF IndexedExact
<1>11. UnusedClean(q)
  <2>1. \A x \in Pages : x >= pool.nextId => x # p
    BY <1>1 DEF UnusedClean
  <2> QED
    BY <2>1, <1>1, <1>6, <1>7 DEF UnusedClean
<1> QED
  BY <1>7, <1>9, <1>10, <1>11 DEF SoundPool
(* The page to hand out is idle or unused; a keyed one is the head of free. *)
LEMMA NextPageFacts ==
  ASSUME NEW pool, SoundPool(pool), Available(pool) > 0
  PROVE  LET p == NextPage(pool)
         IN  /\ p \in Pages /\ pool.refs[p] = 0
             /\ \/ /\ pool.emptyFree # <<>> /\ p = Head(pool.emptyFree)
                   /\ p \in Idle(pool) /\ pool.key[p] = NoKey
                \/ /\ pool.emptyFree = <<>> /\ pool.nextId < Total
                   /\ p = pool.nextId /\ pool.key[p] = NoKey
                \/ /\ pool.emptyFree = <<>> /\ pool.nextId = Total
                   /\ pool.free # <<>> /\ p = Head(pool.free)
                   /\ p \in Idle(pool) /\ pool.key[p] \in Keys
<1>1. pool \in PoolState /\ FreeExact(pool) /\ UnusedClean(pool)
  BY DEF SoundPool
<1>2. Total \in Nat \ {0} /\ NoKey \notin Keys
  BY TotalAssumption, NoKeyAssumption
<1>3. CASE pool.emptyFree # <<>>
  <2>1. Head(pool.emptyFree) \in Range(pool.emptyFree)
    BY <1>1, <1>3, TailDict DEF PoolState, FreeExact
  <2> QED
    BY <2>1, <1>1, <1>3 DEF FreeExact, Idle, NextPage
<1>4. CASE pool.emptyFree = <<>> /\ pool.nextId < Total
  <2>1. pool.nextId \in Pages
    BY <1>1, <1>2, <1>4 DEF PoolState, Pages
  <2> QED
    BY <2>1, <1>1, <1>4 DEF UnusedClean, NextPage, Pages
<1>5. CASE pool.emptyFree = <<>> /\ ~(pool.nextId < Total)
  <2>1. pool.nextId = Total
    BY <1>1, <1>2, <1>5 DEF PoolState
  <2>2. pool.free # <<>>
    BY <1>2, <1>5, <2>1 DEF Available
  <2>3. Head(pool.free) \in Range(pool.free)
    BY <1>1, <2>2, TailDict DEF PoolState, FreeExact
  <2> QED
    BY <2>1, <2>2, <2>3, <1>1, <1>5 DEF FreeExact, Idle, NextPage, PoolState
<1> QED
  BY <1>3, <1>4, <1>5

(* allocate keeps a pool sound while a page is available. *)
LEMMA AllocateSound ==
  ASSUME NEW pool, SoundPool(pool), Available(pool) > 0
  PROVE  SoundPool(Allocate(pool))
<1> DEFINE p == NextPage(pool)
           k == pool.key[p]
           reuse == pool.emptyFree # <<>>
           fresh == ~reuse /\ pool.nextId < Total
           q == Allocate(pool)
           empty1 == IF reuse THEN Tail(pool.emptyFree) ELSE pool.emptyFree
           next1 == IF fresh THEN pool.nextId + 1 ELSE pool.nextId
           free1 == IF reuse \/ fresh THEN pool.free ELSE Tail(pool.free)
           refs1 == [pool.refs EXCEPT ![p] = 1]
           key1 == [pool.key EXCEPT ![p] = NoKey]
           index1 == IF k = NoKey THEN pool.index
                     ELSE [pool.index EXCEPT ![k] = Without(pool.index[k], p)]
           removed1 == IF k = NoKey THEN pool.removed ELSE pool.removed \cup {k}
<1>1. pool \in PoolState /\ FreeExact(pool) /\ IndexedExact(pool) /\ UnusedClean(pool)
  BY DEF SoundPool
<1>2. Total \in Nat \ {0} /\ NoKey \notin Keys
  BY TotalAssumption, NoKeyAssumption
<1>3. /\ p \in Pages /\ pool.refs[p] = 0
      /\ \/ reuse /\ p = Head(pool.emptyFree) /\ p \in Idle(pool) /\ k = NoKey
         \/ fresh /\ p = pool.nextId /\ k = NoKey
         \/ /\ ~reuse /\ ~fresh /\ pool.nextId = Total /\ pool.free # <<>>
            /\ p = Head(pool.free) /\ p \in Idle(pool) /\ k \in Keys
  BY <1>1, <1>2, NextPageFacts DEF PoolState
<1>4. reuse => /\ Tail(pool.emptyFree) \in Seq(Pages)
               /\ Range(Tail(pool.emptyFree)) = Range(pool.emptyFree) \ {Head(pool.emptyFree)}
               /\ IsInjective(Tail(pool.emptyFree))
  BY <1>1, TailDict DEF PoolState, FreeExact
<1>5. pool.free # <<>> => /\ Tail(pool.free) \in Seq(Pages)
                          /\ Range(Tail(pool.free)) = Range(pool.free) \ {Head(pool.free)}
                          /\ IsInjective(Tail(pool.free))
  BY <1>1, TailDict DEF PoolState, FreeExact
<1>6. k \in Keys => /\ Without(pool.index[k], p) \in Seq(Pages)
                    /\ Range(Without(pool.index[k], p)) = Range(pool.index[k]) \ {p}
                    /\ IsInjective(Without(pool.index[k], p))
  BY <1>1, WithoutFacts DEF PoolState, IndexedExact
<1>7. q = [pool EXCEPT !.emptyFree = empty1, !.nextId = next1, !.free = free1,
             !.refs = refs1, !.key = key1, !.index = index1, !.removed = removed1]
  BY DEF Allocate
<1>8. /\ empty1 \in Seq(Pages) /\ free1 \in Seq(Pages)
      /\ next1 \in 1 .. Total
      /\ refs1 \in [Pages -> Nat]
      /\ key1 \in [Pages -> Keys \cup {NoKey}]
      /\ index1 \in [Keys -> Seq(Pages)]
      /\ removed1 \in SUBSET Keys
  <2>1. empty1 \in Seq(Pages) /\ free1 \in Seq(Pages)
    BY <1>1, <1>3, <1>4, <1>5 DEF PoolState
  <2>2. next1 \in 1 .. Total
    BY <1>1, <1>2 DEF PoolState
  <2>3. refs1 \in [Pages -> Nat] /\ key1 \in [Pages -> Keys \cup {NoKey}]
    BY <1>1 DEF PoolState
  <2>4. k \in Keys \/ k = NoKey
    BY <1>1, <1>3 DEF PoolState
  <2>5. index1 \in [Keys -> Seq(Pages)]
    BY <1>1, <1>6, <2>4 DEF PoolState
  <2>6. removed1 \in SUBSET Keys
    BY <1>1, <2>4 DEF PoolState
  <2> QED
    BY <2>1, <2>2, <2>3, <2>5, <2>6
<1>9. /\ \A x \in Pages : refs1[x] = IF x = p THEN 1 ELSE pool.refs[x]
      /\ \A x \in Pages : key1[x] = IF x = p THEN NoKey ELSE pool.key[x]
  BY <1>1 DEF PoolState
<1>10. \A h \in Keys : index1[h] = IF h = k THEN Without(pool.index[h], p) ELSE pool.index[h]
  BY <1>1, <1>2 DEF PoolState
<1> HIDE DEF empty1, next1, free1, refs1, key1, index1, removed1, q
<1>11. /\ q \in PoolState
       /\ q.nextId = next1 /\ q.emptyFree = empty1 /\ q.free = free1
       /\ q.refs = refs1 /\ q.key = key1 /\ q.index = index1
  BY <1>1, <1>7, <1>8 DEF PoolState
<1> HIDE DEF p, k
<1>12. p \in Int /\ pool.nextId \in Int /\ \A x \in Pages : x \in Int
  BY <1>1, <1>2, <1>3 DEF PoolState, Pages
<1>13. Idle(q) = Idle(pool) \ {p}
  <2>1. CASE fresh
    <3>1. p = pool.nextId /\ next1 = pool.nextId + 1
      BY <1>3, <2>1 DEF next1
    <3>2. \A x \in Pages : x < next1 <=> x < pool.nextId \/ x = p
      BY <3>1, <1>12
    <3> QED
      BY <3>2, <1>9, <1>11 DEF Idle
  <2>2. CASE ~fresh
    BY <2>2, <1>9, <1>11 DEF Idle, next1
  <2> QED
    BY <2>1, <2>2
<1>14. FreeExact(q)
  <2>1. /\ {x \in Idle(q) : q.key[x] = NoKey} = {x \in Idle(pool) : pool.key[x] = NoKey} \ {p}
        /\ {x \in Idle(q) : q.key[x] # NoKey} = {x \in Idle(pool) : pool.key[x] # NoKey} \ {p}
    BY <1>9, <1>11, <1>13 DEF Idle
  <2>2. /\ IsInjective(pool.free) /\ IsInjective(pool.emptyFree)
        /\ Range(pool.emptyFree) = {x \in Idle(pool) : pool.key[x] = NoKey}
        /\ Range(pool.free) = {x \in Idle(pool) : pool.key[x] # NoKey}
    BY <1>1 DEF FreeExact
  <2> SUFFICES /\ IsInjective(free1) /\ IsInjective(empty1)
               /\ Range(empty1) = Range(pool.emptyFree) \ {p}
               /\ Range(free1) = Range(pool.free) \ {p}
    BY <2>1, <2>2, <1>11 DEF FreeExact
  <2>3. CASE reuse
    <3>1. p \notin Range(pool.free)
      BY <2>2, <2>3, <1>2, <1>3 DEF k
    <3>2. empty1 = Tail(pool.emptyFree) /\ free1 = pool.free
      BY <2>3 DEF empty1, free1
    <3> QED
      BY <3>1, <3>2, <2>2, <2>3, <1>3, <1>4
  <2>4. CASE fresh
    <3>1. p \notin Idle(pool)
      BY <1>3, <1>12, <2>4 DEF Idle
    <3>2. empty1 = pool.emptyFree /\ free1 = pool.free
      BY <2>4 DEF empty1, free1
    <3> QED
      BY <3>1, <3>2, <2>2
  <2>5. CASE ~reuse /\ ~fresh
    <3>1. p \notin Range(pool.emptyFree)
      BY <2>2, <2>5, <1>2, <1>3 DEF k
    <3>2. empty1 = pool.emptyFree /\ free1 = Tail(pool.free)
      BY <2>5 DEF empty1, free1
    <3> QED
      BY <3>1, <3>2, <2>2, <2>5, <1>3, <1>5
  <2> QED
    BY <2>3, <2>4, <2>5
<1>15. IndexedExact(q)
  <2> SUFFICES ASSUME NEW h \in Keys
               PROVE  /\ IsInjective(index1[h])
                      /\ Range(index1[h]) = {x \in Pages : key1[x] = h}
    BY <1>11 DEF IndexedExact
  <2>1. CASE h = k
    BY <2>1, <1>1, <1>2, <1>6, <1>9, <1>10 DEF IndexedExact
  <2>2. CASE h # k
    BY <2>2, <1>1, <1>2, <1>3, <1>9, <1>10 DEF IndexedExact, k
  <2> QED
    BY <2>1, <2>2
<1>16. UnusedClean(q)
  <2>1. \A x \in Pages : x >= next1 => x >= pool.nextId
    BY <1>12 DEF next1
  <2>2. \A x \in Pages : x >= next1 => x # p
    BY <1>3, <1>12 DEF next1, Idle
  <2> QED
    BY <2>1, <2>2, <1>1, <1>9, <1>11 DEF UnusedClean
<1> QED
  BY <1>11, <1>14, <1>15, <1>16 DEF SoundPool, q

(* release_many of distinct held pages keeps a pool sound. *)
LEMMA ReleaseSound ==
  ASSUME NEW pool, SoundPool(pool), NEW batch \in Seq(Pages), IsInjective(batch),
         \A p \in Range(batch) : pool.refs[p] > 0
  PROVE  SoundPool(ReleaseMany(pool, batch))
<1> DEFINE q == ReleaseMany(pool, batch)
           idle == {p \in Range(batch) : pool.refs[p] = 1}
           keyed == {p \in idle : pool.key[p] # NoKey}
           refs1 == [p \in Pages |-> IF p \in Range(batch) THEN pool.refs[p] - 1
                                     ELSE pool.refs[p]]
           free1 == pool.free \o Kept(batch, keyed)
           empty1 == Kept(batch, idle \ keyed) \o pool.emptyFree
<1>1. pool \in PoolState /\ FreeExact(pool) /\ IndexedExact(pool) /\ UnusedClean(pool)
  BY DEF SoundPool
<1>2. \A p \in Range(batch) : p \in Pages /\ pool.refs[p] \in Nat \ {0} /\ p < pool.nextId
  <2>1. Range(batch) \in SUBSET Pages
    BY RangeOfSeq
  <2>2. \A p \in Pages : p \in Int /\ pool.refs[p] \in Nat /\ pool.nextId \in Int
    BY <1>1, TotalAssumption DEF PoolState, Pages
  <2> QED
    BY <2>1, <2>2, <1>1 DEF UnusedClean
<1>3. /\ Kept(batch, keyed) \in Seq(Pages) /\ IsInjective(Kept(batch, keyed))
      /\ Range(Kept(batch, keyed)) = keyed
      /\ Kept(batch, idle \ keyed) \in Seq(Pages) /\ IsInjective(Kept(batch, idle \ keyed))
      /\ Range(Kept(batch, idle \ keyed)) = idle \ keyed
  <2>1. Range(batch) \cap keyed = keyed /\ Range(batch) \cap (idle \ keyed) = idle \ keyed
    OBVIOUS
  <2> HIDE DEF idle, keyed
  <2> QED
    BY <2>1, KeptFacts
<1>4. keyed \cap Idle(pool) = {} /\ idle \cap Idle(pool) = {}
  BY <1>2 DEF Idle
<1>5. free1 \in Seq(Pages) /\ Range(free1) = Range(pool.free) \cup keyed /\ IsInjective(free1)
  <2>1. pool.free \in Seq(Pages) /\ IsInjective(pool.free) /\ Range(pool.free) \cap keyed = {}
    BY <1>1, <1>4 DEF PoolState, FreeExact
  <2> HIDE DEF keyed
  <2> QED
    BY <2>1, <1>3, ConcatDict
<1>6. /\ empty1 \in Seq(Pages) /\ Range(empty1) = (idle \ keyed) \cup Range(pool.emptyFree)
      /\ IsInjective(empty1)
  <2>1. /\ pool.emptyFree \in Seq(Pages) /\ IsInjective(pool.emptyFree)
        /\ (idle \ keyed) \cap Range(pool.emptyFree) = {}
    BY <1>1, <1>4 DEF PoolState, FreeExact
  <2>2. ASSUME NEW K \in Seq(Pages), IsInjective(K), Range(K) \cap Range(pool.emptyFree) = {}
        PROVE  /\ K \o pool.emptyFree \in Seq(Pages) /\ IsInjective(K \o pool.emptyFree)
               /\ Range(K \o pool.emptyFree) = Range(K) \cup Range(pool.emptyFree)
    BY <2>1, <2>2, ConcatDict
  <2> HIDE DEF idle, keyed
  <2> QED
    BY <2>1, <2>2, <1>3
<1>7. refs1 \in [Pages -> Nat]
  BY <1>1, <1>2 DEF PoolState
<1>8. q = [pool EXCEPT !.refs = refs1, !.free = free1, !.emptyFree = empty1]
  BY DEF ReleaseMany
<1>9. \A x \in Pages : refs1[x] = 0 <=> pool.refs[x] = 0 \/ x \in idle
  BY <1>1, <1>2 DEF PoolState
<1>10. \A x \in keyed : x \in idle /\ pool.key[x] # NoKey
  OBVIOUS
<1>11. \A x \in idle : x \in Pages /\ x < pool.nextId /\ (x \notin keyed => pool.key[x] = NoKey)
  BY <1>2
<1> HIDE DEF refs1, free1, empty1, q, idle, keyed
<1>12. /\ q \in PoolState
       /\ q.nextId = pool.nextId /\ q.emptyFree = empty1 /\ q.free = free1
       /\ q.refs = refs1 /\ q.key = pool.key /\ q.index = pool.index
  BY <1>1, <1>5, <1>6, <1>7, <1>8 DEF PoolState
<1>13. Idle(q) = Idle(pool) \cup idle
  BY <1>9, <1>11, <1>12 DEF Idle
<1>14. FreeExact(q)
  BY <1>1, <1>5, <1>6, <1>10, <1>11, <1>12, <1>13 DEF FreeExact
<1>15. IndexedExact(q)
  BY <1>1, <1>12 DEF IndexedExact
<1>16. UnusedClean(q)
  <2>1. \A x \in Pages : x >= pool.nextId => x \notin idle
    BY <1>1, <1>11 DEF PoolState, Pages
  <2> QED
    BY <2>1, <1>1, <1>9, <1>12 DEF UnusedClean
<1> QED
  BY <1>12, <1>14, <1>15, <1>16 DEF SoundPool, q

(* A sound pool has as many pages to hand out as references leave. *)
LEMMA SoundAccounted ==
  ASSUME NEW pool, SoundPool(pool)
  PROVE  Accounted(pool)
<1> DEFINE held == {p \in Pages : pool.refs[p] > 0}
           E == Range(pool.emptyFree)
           F == Range(pool.free)
           U == pool.nextId .. Total - 1
<1>1. pool \in PoolState /\ FreeExact(pool) /\ UnusedClean(pool)
  BY DEF SoundPool
<1>2. Total \in Nat \ {0} /\ pool.nextId \in 1 .. Total
  BY <1>1, TotalAssumption DEF PoolState
<1>3. /\ IsFiniteSet(E) /\ Len(pool.emptyFree) = Cardinality(E)
      /\ IsFiniteSet(F) /\ Len(pool.free) = Cardinality(F)
  BY <1>1, DictLength DEF PoolState, FreeExact
<1>4. IsFiniteSet(U) /\ Cardinality(U) = Total - pool.nextId
  <2>1. pool.nextId \in Int /\ Total - 1 \in Int
    BY <1>2
  <2>2. /\ IsFiniteSet(U)
        /\ Cardinality(U) = IF pool.nextId > Total - 1 THEN 0 ELSE Total - 1 - pool.nextId + 1
    BY <2>1, FS_Interval
  <2> HIDE DEF U
  <2> QED
    BY <2>2, <1>2
<1>5. IsFiniteSet(Pages) /\ Cardinality(Pages) = Total - 1
  BY <1>2, FS_Interval DEF Pages
<1>6. \A p \in Pages : p \in Int /\ pool.refs[p] \in Nat /\ pool.nextId \in Int
  BY <1>1, <1>2 DEF PoolState, Pages
<1>7. \A p \in Pages : p \in U <=> p >= pool.nextId
  BY <1>2 DEF Pages
<1>8. Pages \ held = (E \cup F) \cup U
  <2>1. \A p \in Pages : p \in E \cup F <=> p < pool.nextId /\ pool.refs[p] = 0
    BY <1>1 DEF FreeExact, Idle
  <2>2. E \cup F \in SUBSET Pages /\ U \in SUBSET Pages
    BY <1>1, <1>2 DEF FreeExact, Idle, Pages
  <2>3. \A p \in Pages : p \in held <=> pool.refs[p] # 0
    BY <1>6
  <2>4. \A p \in U : pool.refs[p] = 0
    BY <2>2, <1>1, <1>7 DEF UnusedClean
  <2> HIDE DEF held, E, F, U
  <2> QED
    BY <2>1, <2>2, <2>3, <2>4, <1>6, <1>7
<1>9. E \cap F = {} /\ (E \cup F) \cap U = {}
  <2>1. E \cap F = {}
    BY <1>1 DEF FreeExact
  <2>2. \A p \in E \cup F : p \in Pages /\ p < pool.nextId
    BY <1>1 DEF FreeExact, Idle
  <2> HIDE DEF E, F, U
  <2> QED
    BY <2>1, <2>2, <1>6, <1>7
<1> HIDE DEF held, E, F, U
<1>10. IsFiniteSet(E \cup F) /\ Cardinality(E \cup F) = Cardinality(E) + Cardinality(F)
  <2>1. Cardinality({}) = 0 /\ Cardinality(E) \in Nat /\ Cardinality(F) \in Nat
    BY <1>3, FS_EmptySet, FS_CardinalityType
  <2>2. /\ IsFiniteSet(E \cup F)
        /\ Cardinality(E \cup F) = Cardinality(E) + Cardinality(F) - Cardinality(E \cap F)
    BY <1>3, FS_Union
  <2>3. Cardinality(E \cap F) = 0
    BY <2>1, <1>9
  <2> QED
    BY <2>1, <2>2, <2>3
<1>11. Cardinality((E \cup F) \cup U) = Cardinality(E \cup F) + Cardinality(U)
  <2>1. Cardinality({}) = 0 /\ Cardinality(E \cup F) \in Nat /\ Cardinality(U) \in Nat
    BY <1>4, <1>10, FS_EmptySet, FS_CardinalityType
  <2>2. Cardinality((E \cup F) \cup U)
          = Cardinality(E \cup F) + Cardinality(U) - Cardinality((E \cup F) \cap U)
    BY <1>4, <1>10, FS_Union
  <2>3. Cardinality((E \cup F) \cap U) = 0
    BY <2>1, <1>9
  <2> QED
    BY <2>1, <2>2, <2>3
<1>12. Cardinality(Pages \ held) = Cardinality(Pages) - Cardinality(held)
  <2>1. Pages \cap held = held
    BY DEF held
  <2>2. Cardinality(Pages \ held) = Cardinality(Pages) - Cardinality(Pages \cap held)
    BY <1>5, FS_Difference
  <2> QED
    BY <2>1, <2>2
<1>13. /\ Cardinality(held) \in Nat /\ Cardinality(E) \in Nat /\ Cardinality(F) \in Nat
  <2>1. IsFiniteSet(held)
    BY <1>5, FS_Subset DEF held
  <2> QED
    BY <2>1, <1>3, FS_CardinalityType
<1>14. Available(pool) = (Total - pool.nextId) + Cardinality(F) + Cardinality(E)
  BY <1>3 DEF Available
<1>15. Available(pool) = Total - 1 - Cardinality(held)
  <2>1. Cardinality(Pages \ held) = Cardinality((E \cup F) \cup U)
    BY <1>8
  <2>2. Total \in Int /\ pool.nextId \in Int
    BY <1>2
  <2> QED
    BY <2>1, <2>2, <1>4, <1>5, <1>10, <1>11, <1>12, <1>13, <1>14
<1> QED
  BY <1>15 DEF Accounted, held
-----------------------------------------------------------------------------
(* A batch is a sequence of distinct pages. *)
LEMMA BatchIsDict ==
  ASSUME NEW batch \in Batches
  PROVE  batch \in Seq(Pages) /\ IsInjective(batch)
<1>1. PICK n \in Pages : batch \in Injection(1 .. n, Pages)
  BY DEF Batches
<1>2. n \in Nat
  BY TotalAssumption DEF Pages
<1> QED
  BY <1>1, <1>2 DEF Injection, Seq

(* The inductive step: one case per action. *)
LEMMA StepSound == SoundPool(thePool) /\ [PoolNext]_thePool => SoundPool(thePool')
<1> SUFFICES ASSUME SoundPool(thePool), [PoolNext]_thePool
             PROVE  SoundPool(thePool')
  OBVIOUS
<1>1. CASE AllocatePage
  BY <1>1, AllocateSound DEF AllocatePage
<1>2. ASSUME NEW p \in Pages, TouchPage(p) PROVE SoundPool(thePool')
  BY <1>2, TouchSound DEF TouchPage
<1>3. ASSUME NEW p \in Pages, NEW k \in Keys, PublishPage(p, k) PROVE SoundPool(thePool')
  BY <1>3, PublishSound DEF PublishPage
<1>4. ASSUME NEW batch \in Batches, ReleaseBatch(batch) PROVE SoundPool(thePool')
  <2>1. batch \in Seq(Pages) /\ IsInjective(batch)
    BY BatchIsDict
  <2> QED
    BY <2>1, <1>4, ReleaseSound DEF ReleaseBatch
<1>5. CASE thePool' = thePool
  BY <1>5
<1> QED
  BY <1>1, <1>2, <1>3, <1>4, <1>5 DEF PoolNext

(* SoundPool is an invariant of the pool. *)
THEOREM PoolSound == PoolSpec => []IInv
<1>1. PoolInit => IInv
  BY EmptyPoolSound DEF PoolInit, IInv
<1>2. IInv /\ [PoolNext]_thePool => IInv'
  BY StepSound DEF IInv
<1> QED
  BY <1>1, <1>2, PTL DEF PoolSpec

(* Type correctness. *)
THEOREM TypeCorrect == PoolSpec => []PoolTyped
<1>1. IInv => PoolTyped
  BY DEF IInv, SoundPool, PoolTyped
<1> QED
  BY <1>1, PoolSound, PTL

(* No page is lost and none is free twice. *)
THEOREM FreeListsCorrect == PoolSpec => []FreeListsExact
<1>1. IInv => FreeListsExact
  BY DEF IInv, SoundPool, FreeListsExact
<1> QED
  BY <1>1, PoolSound, PTL

(* The index lists exactly the pages that hold a key. *)
THEOREM IndexCorrect == PoolSpec => []IndexExact
<1>1. IInv => IndexExact
  BY DEF IInv, SoundPool, IndexExact
<1> QED
  BY <1>1, PoolSound, PTL

(* available() is what the references leave. *)
THEOREM CapacityCorrect == PoolSpec => []CapacityAccounted
<1>1. IInv => CapacityAccounted
  BY SoundAccounted DEF IInv, CapacityAccounted
<1> QED
  BY <1>1, PoolSound, PTL

(* What an action does to the keys, the index and the record of losses. *)
LEMMA StepEffect ==
  ASSUME SoundPool(thePool), PoolNext
  PROVE  \/ /\ thePool'.key = thePool.key /\ thePool'.index = thePool.index
            /\ thePool'.removed = thePool.removed
         \/ \E p \in Pages, k \in Keys :
              /\ thePool.key[p] = NoKey /\ thePool.refs[p] > 0
              /\ thePool'.key = [thePool.key EXCEPT ![p] = k]
              /\ thePool'.index = [thePool.index EXCEPT ![k] = Append(thePool.index[k], p)]
              /\ thePool'.removed = thePool.removed
         \/ \E p \in Pages :
              /\ thePool.refs[p] = 0 /\ thePool.key[p] \in Keys
              /\ thePool'.key = [thePool.key EXCEPT ![p] = NoKey]
              /\ thePool'.index = [thePool.index EXCEPT
                                  ![thePool.key[p]] = Without(thePool.index[thePool.key[p]], p)]
              /\ thePool'.removed = thePool.removed \cup {thePool.key[p]}
<1>1. thePool \in PoolState
  BY DEF SoundPool
<1>2. CASE AllocatePage
  <2> DEFINE p == NextPage(thePool)
  <2>1. p \in Pages /\ thePool.refs[p] = 0 /\ (thePool.key[p] = NoKey \/ thePool.key[p] \in Keys)
    BY <1>1, <1>2, NextPageFacts DEF AllocatePage, PoolState
  <2>2. /\ thePool'.key = [thePool.key EXCEPT ![p] = NoKey]
        /\ thePool'.index = IF thePool.key[p] = NoKey THEN thePool.index
                         ELSE [thePool.index EXCEPT
                                 ![thePool.key[p]] = Without(thePool.index[thePool.key[p]], p)]
        /\ thePool'.removed = IF thePool.key[p] = NoKey THEN thePool.removed
                           ELSE thePool.removed \cup {thePool.key[p]}
    BY <1>1, <1>2 DEF AllocatePage, Allocate, PoolState
  <2> HIDE DEF p
  <2>3. CASE thePool.key[p] = NoKey
    <3>1. thePool'.key = thePool.key
      BY <2>1, <2>2, <2>3, <1>1 DEF PoolState
    <3> QED
      BY <3>1, <2>2, <2>3
  <2>4. CASE thePool.key[p] # NoKey
    BY <2>1, <2>2, <2>4
  <2> QED
    BY <2>3, <2>4
<1>3. ASSUME NEW p \in Pages, TouchPage(p)
      PROVE  thePool'.key = thePool.key /\ thePool'.index = thePool.index /\ thePool'.removed = thePool.removed
  BY <1>1, <1>3 DEF TouchPage, Touch, PoolState
<1>4. ASSUME NEW p \in Pages, NEW k \in Keys, PublishPage(p, k)
      PROVE  \/ thePool' = thePool
             \/ /\ thePool.key[p] = NoKey /\ thePool.refs[p] > 0
                /\ thePool'.key = [thePool.key EXCEPT ![p] = k]
                /\ thePool'.index = [thePool.index EXCEPT ![k] = Append(thePool.index[k], p)]
                /\ thePool'.removed = thePool.removed
  BY <1>1, <1>4 DEF PublishPage, Publish, PoolState
<1>5. ASSUME NEW batch \in Batches, ReleaseBatch(batch)
      PROVE  thePool'.key = thePool.key /\ thePool'.index = thePool.index /\ thePool'.removed = thePool.removed
  BY <1>1, <1>5 DEF ReleaseBatch, ReleaseMany, PoolState
<1> QED
  BY <1>2, <1>3, <1>4, <1>5 DEF PoolNext

(* A referenced page keeps what it holds. *)
THEOREM HeldStateSafe == PoolSpec => HeldStateKept
<1>1. ASSUME IInv, [PoolNext]_thePool
      PROVE  [\A p \in Pages :
                thePool.refs[p] > 0 /\ thePool.key[p] # NoKey => thePool'.key[p] = thePool.key[p]]_thePool
  <2>1. thePool \in PoolState
    BY <1>1 DEF IInv, SoundPool
  <2> SUFFICES ASSUME PoolNext, NEW x \in Pages, thePool.refs[x] > 0, thePool.key[x] # NoKey
               PROVE  thePool'.key[x] = thePool.key[x]
    BY <1>1
  <2>2. /\ \A p \in Pages : thePool.key[p] = NoKey \/ thePool.refs[p] = 0 => p # x
        /\ \A p \in Pages : \A k : p # x => [thePool.key EXCEPT ![p] = k][x] = thePool.key[x]
    BY <2>1 DEF PoolState
  <2>3. \/ thePool'.key = thePool.key
        \/ \E p \in Pages, k \in Keys : /\ thePool.key[p] = NoKey
                                      /\ thePool'.key = [thePool.key EXCEPT ![p] = k]
        \/ \E p \in Pages : /\ thePool.refs[p] = 0
                            /\ thePool'.key = [thePool.key EXCEPT ![p] = NoKey]
    BY <1>1, StepEffect DEF IInv
  <2> QED
    BY <2>2, <2>3, ZenonT(60)
<1> QED
  BY <1>1, PoolSound, PTL DEF PoolSpec, HeldStateKept

(* The page that answers for a key answers until it is replaced. *)
THEOREM AnswerSafe == PoolSpec => AnswerStable
<1>1. ASSUME IInv, [PoolNext]_thePool
      PROVE  [\A k \in Keys :
                LET p == Lookup(thePool, k)
                IN  p # NoPage /\ thePool'.key[p] = k => Lookup(thePool', k) = p]_thePool
  <2>1. thePool \in PoolState /\ IndexedExact(thePool) /\ NoKey \notin Keys
    BY <1>1, NoKeyAssumption DEF IInv, SoundPool
  <2> SUFFICES ASSUME PoolNext, NEW k \in Keys, Lookup(thePool, k) # NoPage,
                      thePool'.key[Lookup(thePool, k)] = k
               PROVE  Lookup(thePool', k) = Lookup(thePool, k)
    BY <1>1
  <2> DEFINE s == thePool.index[k]
  <2>2. s \in Seq(Pages) /\ s # <<>> /\ Lookup(thePool, k) = Head(s) /\ Head(s) \in Range(s)
    <3>1. s \in Seq(Pages) /\ s # <<>> /\ Lookup(thePool, k) = Head(s) /\ IsInjective(s)
      BY <2>1 DEF PoolState, Lookup, IndexedExact
    <3> QED
      BY <3>1, TailDict
  <2>3. CASE thePool'.index[k] = s
    BY <2>3, <2>2 DEF Lookup
  <2>4. ASSUME NEW p \in Pages, thePool'.index[k] = Append(s, p)
        PROVE  Lookup(thePool', k) = Head(s)
    BY <2>2, <2>4, AppendProperties, HeadTailAppend DEF Lookup
  <2>5. ASSUME NEW p \in Pages, thePool'.index[k] = Without(s, p), p # Head(s)
        PROVE  Lookup(thePool', k) = Head(s)
    <3>1. Head(s) \in Range(s) \ {p}
      BY <2>2, <2>5
    <3> QED
      BY <3>1, <2>2, <2>5, KeptHead DEF Lookup, Without
  <2>6. \/ thePool'.index[k] = s
        \/ \E p \in Pages : thePool'.index[k] = Append(s, p)
        \/ \E p \in Pages : /\ thePool'.index[k] = Without(s, p)
                            /\ thePool'.key = [thePool.key EXCEPT ![p] = NoKey]
    <3>1. \/ thePool'.index = thePool.index
          \/ \E p \in Pages, h \in Keys :
               thePool'.index = [thePool.index EXCEPT ![h] = Append(thePool.index[h], p)]
          \/ \E p \in Pages :
               /\ thePool.key[p] \in Keys
               /\ thePool'.key = [thePool.key EXCEPT ![p] = NoKey]
               /\ thePool'.index = [thePool.index EXCEPT
                                   ![thePool.key[p]] = Without(thePool.index[thePool.key[p]], p)]
      BY <1>1, StepEffect DEF IInv
    <3>2. \A h \in Keys : \A t : [thePool.index EXCEPT ![h] = t][k] = IF h = k THEN t ELSE s
      BY <2>1 DEF PoolState
    <3>3. ASSUME NEW p \in Pages, NEW h \in Keys,
                 thePool'.index = [thePool.index EXCEPT ![h] = Append(thePool.index[h], p)]
          PROVE  thePool'.index[k] = s \/ thePool'.index[k] = Append(s, p)
      BY <3>2, <3>3
    <3>4. ASSUME NEW p \in Pages, thePool.key[p] \in Keys,
                 thePool'.index = [thePool.index EXCEPT
                                  ![thePool.key[p]] = Without(thePool.index[thePool.key[p]], p)]
          PROVE  thePool'.index[k] = s \/ thePool'.index[k] = Without(s, p)
      <4>1. CASE thePool.key[p] = k
        BY <3>2, <3>4, <4>1
      <4>2. CASE thePool.key[p] # k
        BY <3>2, <3>4, <4>2
      <4> QED
        BY <4>1, <4>2
    <3> QED
      BY <3>1, <3>3, <3>4
  <2>7. \A p \in Pages : thePool'.key = [thePool.key EXCEPT ![p] = NoKey] => p # Head(s)
    BY <2>1, <2>2 DEF PoolState
  <2> QED
    BY <2>2, <2>3, <2>4, <2>5, <2>6, <2>7
<1> QED
  BY <1>1, PoolSound, PTL DEF PoolSpec, AnswerStable

(* A formed state is found or recorded as replaced. *)
THEOREM LossSafe == PoolSpec => LossRecorded
<1>1. ASSUME IInv, [PoolNext]_thePool
      PROVE  [\A k \in Keys :
                Lookup(thePool, k) # NoPage
                  => Lookup(thePool', k) # NoPage \/ k \in thePool'.removed]_thePool
  <2>1. thePool \in PoolState /\ IndexedExact(thePool)
    BY <1>1 DEF IInv, SoundPool
  <2> SUFFICES ASSUME PoolNext, NEW k \in Keys, Lookup(thePool, k) # NoPage
               PROVE  Lookup(thePool', k) # NoPage \/ k \in thePool'.removed
    BY <1>1
  <2>2. \/ thePool'.index[k] = thePool.index[k]
        \/ \E p \in Pages : thePool'.index[k] = Append(thePool.index[k], p)
        \/ k \in thePool'.removed
    BY <1>1, <2>1, StepEffect DEF IInv, PoolState
  <2>3. thePool.index[k] \in Seq(Pages) /\ thePool.index[k] # <<>>
    BY <2>1 DEF PoolState, Lookup
  <2>4. ASSUME NEW t \in Seq(Pages), t # <<>>, thePool'.index[k] = t
        PROVE  Lookup(thePool', k) # NoPage
    <3>1. Head(t) \in Pages
      BY <2>4, HeadTailProperties
    <3> QED
      BY <3>1, <2>4 DEF Lookup, NoPage, Pages
  <2> QED
    BY <2>2, <2>3, <2>4, AppendProperties, SMTT(40)
<1> QED
  BY <1>1, PoolSound, PTL DEF PoolSpec, LossRecorded

(* The bookkeeping of the pool is exact, for every size, key set and bound. *)
THEOREM PoolCorrect == PoolSpec => []PoolExact
  BY TypeCorrect, FreeListsCorrect, IndexCorrect, CapacityCorrect, PTL DEF PoolExact

(* What the pool stores is safe from every call. *)
THEOREM PoolStateCorrect == PoolSpec => StateSafe
  BY HeldStateSafe, AnswerSafe, LossSafe DEF StateSafe

-----------------------------------------------------------------------------
(* The operators of the abstract specification are those of the pool. *)
LEMMA QueueOperators ==
  /\ \A s, b : Queue!Remove(s, b) = Without(s, b)
  /\ \A s, S : Queue!Kept(s, S) = Kept(s, S)
  /\ \A s : Queue!Range(s) = Range(s)
  /\ Queue!Batches = Batches
<1>1. \A s, b : Queue!Remove(s, b) = Without(s, b)
  BY DEF Queue!Remove, Queue!Without, Queue!Kept, Queue!Cardinality, Queue!Range,
         Without, Kept, Cardinality, Range
<1>2. \A s, S : Queue!Kept(s, S) = Kept(s, S)
  BY DEF Queue!Kept, Queue!Cardinality, Kept, Cardinality
<1>3. \A s : Queue!Range(s) = Range(s)
  BY DEF Queue!Range, Range
<1>4. Queue!Batches = Batches
  BY DEF Queue!Batches, Queue!Injection, Queue!IsInjective, Batches, Injection, IsInjective
<1> QED
  BY <1>1, <1>2, <1>3, <1>4

(* The unused pages, as a sequence. *)
LEMMA UnusedFacts ==
  ASSUME thePool.nextId \in 1 .. Total
  PROVE  /\ Unused \in Seq(Pages) /\ Len(Unused) = Total - thePool.nextId
         /\ \A i \in 1 .. Total - thePool.nextId : Unused[i] = thePool.nextId + i - 1
         /\ Range(Unused) = {p \in Pages : p >= thePool.nextId}
<1> DEFINE n == Total - thePool.nextId
<1>1. Total \in Nat \ {0} /\ n \in Nat /\ thePool.nextId \in 1 .. Total
  BY TotalAssumption
<1>2. DOMAIN Unused = 1 .. n /\ \A i \in 1 .. n : Unused[i] = thePool.nextId + i - 1
  BY DEF Unused
<1>3. \A i \in 1 .. n : thePool.nextId + i - 1 \in Pages
  BY <1>1 DEF Pages
<1>4. Unused \in [1 .. n -> Pages]
  BY <1>2, <1>3 DEF Unused
<1>5. Unused \in Seq(Pages)
  BY <1>1, <1>4 DEF Seq
<1>6. Len(Unused) = n
  <2>1. Len(Unused) \in Nat /\ 1 .. Len(Unused) = 1 .. n
    BY <1>2, <1>5, LenProperties
  <2> QED
    BY <2>1, <1>1
<1>7. Range(Unused) = {p \in Pages : p >= thePool.nextId}
  <2>1. ASSUME NEW p \in Pages, p >= thePool.nextId PROVE p \in Range(Unused)
    <3>1. p - thePool.nextId + 1 \in 1 .. n /\ thePool.nextId + (p - thePool.nextId + 1) - 1 = p
      BY <1>1, <2>1 DEF Pages
    <3> QED
      BY <3>1, <1>2 DEF Range
  <2>2. ASSUME NEW p \in Range(Unused) PROVE p \in Pages /\ p >= thePool.nextId
    <3>1. PICK i \in 1 .. n : p = thePool.nextId + i - 1
      BY <1>2 DEF Range
    <3> QED
      BY <3>1, <1>1, <1>3
  <2> QED
    BY <2>1, <2>2
<1> QED
  BY <1>2, <1>5, <1>6, <1>7

(* With no unused page left their sequence is empty. *)
LEMMA UnusedEmpty ==
  ASSUME thePool.nextId = Total
  PROVE  Unused = <<>>
<1>1. thePool.nextId \in 1 .. Total /\ Total - thePool.nextId = 0
  BY TotalAssumption
<1>2. Unused \in Seq(Pages) /\ Len(Unused) = 0
  BY <1>1, UnusedFacts
<1> QED
  BY <1>2, EmptySeq

(* Handing out an unused page takes the head of that sequence. *)
LEMMA UnusedTail ==
  ASSUME thePool.nextId \in 1 .. Total, thePool.nextId < Total, thePool'.nextId = thePool.nextId + 1
  PROVE  Unused # <<>> /\ Head(Unused) = thePool.nextId /\ Unused' = Tail(Unused)
<1> DEFINE n == Total - thePool.nextId
<1>1. Total \in Nat /\ n \in Nat \ {0} /\ thePool'.nextId \in 1 .. Total
        /\ Total - thePool'.nextId = n - 1
  BY TotalAssumption
<1>2. /\ Unused \in Seq(Pages) /\ Len(Unused) = n
      /\ \A i \in 1 .. n : Unused[i] = thePool.nextId + i - 1
  BY UnusedFacts
<1>3. Unused # <<>>
  BY <1>1, <1>2, EmptySeq
<1>4. Head(Unused) = thePool.nextId
  BY <1>1, <1>2, SMTT(40)
<1>5. Unused' = [i \in 1 .. n - 1 |-> thePool'.nextId + i - 1]
  BY <1>1 DEF Unused
<1>6. /\ Tail(Unused) \in Seq(Pages) /\ Len(Tail(Unused)) = n - 1
      /\ \A i \in 1 .. n - 1 : Tail(Unused)[i] = Unused[i + 1]
  BY <1>2, <1>3, HeadTailProperties
<1>7. DOMAIN Tail(Unused) = 1 .. n - 1
  BY <1>6, LenProperties
<1>8. Tail(Unused) \in [1 .. n - 1 -> Pages]
  BY <1>6, LenProperties
<1>9. \A i \in 1 .. n - 1 : Tail(Unused)[i] = thePool'.nextId + i - 1
  BY <1>1, <1>2, <1>6, SMTT(40)
<1> HIDE DEF n
<1>10. Tail(Unused) = [i \in 1 .. n - 1 |-> thePool'.nextId + i - 1]
  BY <1>8, <1>9
<1> QED
  BY <1>3, <1>4, <1>5, <1>10

(* The types of the three segments. *)
LEMMA SegmentTypes ==
  ASSUME SoundPool(thePool)
  PROVE  /\ thePool \in PoolState /\ thePool.nextId \in 1 .. Total
         /\ thePool.emptyFree \in Seq(Pages) /\ Unused \in Seq(Pages) /\ thePool.free \in Seq(Pages)
         /\ thePool.emptyFree \o Unused \in Seq(Pages) /\ OneQueue \in Seq(Pages)
<1>1. thePool \in PoolState
  BY DEF SoundPool
<1>2. /\ thePool.nextId \in 1 .. Total
      /\ thePool.emptyFree \in Seq(Pages) /\ thePool.free \in Seq(Pages)
  BY <1>1 DEF PoolState
<1>3. Unused \in Seq(Pages)
  BY <1>2, UnusedFacts
<1>4. thePool.emptyFree \o Unused \in Seq(Pages)
  BY <1>2, <1>3, ConcatProperties
<1> QED
  BY <1>1, <1>2, <1>3, <1>4, ConcatProperties DEF OneQueue

(* Concatenation and popping, for sequences of pages. *)
LEMMA PageSequences ==
  /\ \A s, t, u \in Seq(Pages) : (s \o t) \o u = s \o (t \o u)
  /\ \A s, t \in Seq(Pages) : \A p : Without(s \o t, p) = Without(s, p) \o Without(t, p)
<1>1. \A s, t, u \in Seq(Pages) : (s \o t) \o u = s \o (t \o u)
  BY ConcatAssociative
<1>2. \A s, t \in Seq(Pages) : \A p : Without(s \o t, p) = Without(s, p) \o Without(t, p)
  BY WithoutConcat
<1> QED
  BY <1>1, <1>2

(* allocate() pops the head of the queue and evicts what it caches. *)
LEMMA AllocateRefines ==
  ASSUME SoundPool(thePool), AllocatePage
  PROVE  Queue!GetNewBlock
<1> DEFINE E == thePool.emptyFree
           U == Unused
           F == thePool.free
           p == NextPage(thePool)
<1>1. /\ thePool \in PoolState /\ thePool.nextId \in 1 .. Total
      /\ E \in Seq(Pages) /\ U \in Seq(Pages) /\ F \in Seq(Pages) /\ E \o U \in Seq(Pages)
  BY SegmentTypes
<1>2. /\ p \in Pages /\ thePool.refs[p] = 0
      /\ \/ E # <<>> /\ p = Head(E)
         \/ E = <<>> /\ thePool.nextId < Total /\ p = thePool.nextId
         \/ E = <<>> /\ thePool.nextId = Total /\ F # <<>> /\ p = Head(F)
  BY NextPageFacts DEF AllocatePage
<1>3. /\ thePool'.emptyFree = IF E # <<>> THEN Tail(E) ELSE E
      /\ thePool'.nextId = IF E = <<>> /\ thePool.nextId < Total THEN thePool.nextId + 1 ELSE thePool.nextId
      /\ thePool'.free = IF E # <<>> \/ thePool.nextId < Total THEN F ELSE Tail(F)
      /\ thePool'.refs = [thePool.refs EXCEPT ![p] = 1]
      /\ thePool'.key = [thePool.key EXCEPT ![p] = NoKey]
      /\ thePool'.index = IF thePool.key[p] = NoKey THEN thePool.index
                       ELSE [thePool.index EXCEPT ![thePool.key[p]] = Without(thePool.index[thePool.key[p]], p)]
  BY <1>1 DEF AllocatePage, Allocate, PoolState
<1>4. OneQueue = (E \o U) \o F /\ OneQueue' = (thePool'.emptyFree \o Unused') \o thePool'.free
  BY DEF OneQueue
<1>5. OneQueue # <<>> /\ Head(OneQueue) = p /\ OneQueue' = Tail(OneQueue)
  <2> HIDE DEF p
  <2>1. CASE E # <<>>
    <3>1. Unused' = U /\ thePool'.emptyFree = Tail(E) /\ thePool'.free = F /\ p = Head(E)
      BY <1>2, <1>3, <2>1 DEF Unused
    <3>2. E \o U # <<>> /\ Head(E \o U) = Head(E) /\ Tail(E \o U) = Tail(E) \o U
      BY <1>1, <2>1, HeadTailConcat
    <3>3. /\ (E \o U) \o F # <<>> /\ Head((E \o U) \o F) = Head(E)
          /\ Tail((E \o U) \o F) = (Tail(E) \o U) \o F
      <4> HIDE DEF E, U, F
      <4> QED
        BY <3>2, <1>1, HeadTailConcat, SMTT(40)
    <3> QED
      BY <3>1, <3>3, <1>4
  <2>2. CASE E = <<>> /\ thePool.nextId < Total
    <3>1. /\ thePool'.nextId = thePool.nextId + 1 /\ thePool'.emptyFree = E /\ thePool'.free = F
          /\ p = thePool.nextId
      BY <1>1, <1>2, <1>3, <2>2, TotalAssumption
    <3>2. U # <<>> /\ Head(U) = p /\ Unused' = Tail(U)
      BY <3>1, <1>1, <2>2, UnusedTail
    <3>3. E \o U = U /\ E \o Tail(U) = Tail(U)
      BY <3>2, <2>2, <1>1, ConcatEmptySeq, HeadTailProperties
    <3>4. U \o F # <<>> /\ Head(U \o F) = p /\ Tail(U \o F) = Tail(U) \o F
      BY <3>2, <1>1, HeadTailConcat
    <3> QED
      BY <3>1, <3>2, <3>3, <3>4, <1>4
  <2>3. CASE E = <<>> /\ ~(thePool.nextId < Total)
    <3>1. thePool.nextId = Total /\ F # <<>> /\ p = Head(F)
      BY <1>1, <1>2, <2>3
    <3>2. thePool'.emptyFree = E /\ thePool'.nextId = thePool.nextId /\ thePool'.free = Tail(F)
      BY <1>3, <2>3
    <3>3. U = <<>> /\ Unused' = U
      BY <3>1, <3>2, UnusedEmpty DEF Unused
    <3>4. Tail(F) \in Seq(Pages)
      BY <3>1, <1>1, HeadTailProperties
    <3>5. E \o U = <<>> /\ <<>> \o F = F /\ <<>> \o Tail(F) = Tail(F)
      BY <3>3, <3>4, <1>1, <2>3, ConcatEmptySeq
    <3> QED
      BY <3>1, <3>2, <3>3, <3>5, <1>4, <2>3
  <2> QED
    BY <2>1, <2>2, <2>3
<1> HIDE DEF p
<1> QED
  BY <1>2, <1>3, <1>5, QueueOperators DEF Queue!GetNewBlock

(* touch(): an idle page leaves the queue, wherever it is. *)
LEMMA TouchRefines ==
  ASSUME SoundPool(thePool), NEW p \in Pages, TouchPage(p)
  PROVE  Queue!TouchBlock(p)
<1> DEFINE E == thePool.emptyFree
           U == Unused
           F == thePool.free
<1>1. /\ thePool \in PoolState /\ thePool.nextId \in 1 .. Total
      /\ E \in Seq(Pages) /\ U \in Seq(Pages) /\ F \in Seq(Pages) /\ E \o U \in Seq(Pages)
  BY SegmentTypes
<1>2. /\ p < thePool.nextId /\ thePool.refs[p] < MaxRefs
      /\ thePool'.nextId = thePool.nextId
      /\ thePool'.emptyFree = IF thePool.refs[p] = 0 THEN Without(E, p) ELSE E
      /\ thePool'.free = IF thePool.refs[p] = 0 THEN Without(F, p) ELSE F
      /\ thePool'.refs = [thePool.refs EXCEPT ![p] = @ + 1]
      /\ thePool'.key = thePool.key /\ thePool'.index = thePool.index
  BY <1>1 DEF TouchPage, Touch, PoolState
<1>3. Unused' = U
  BY <1>2 DEF Unused
<1>4. Without(U, p) = U
  <2>1. p \notin Range(U)
    <3>1. Range(U) = {q \in Pages : q >= thePool.nextId} /\ thePool.nextId \in Int /\ p \in Int
      BY <1>1, UnusedFacts DEF Pages
    <3> QED
      BY <3>1, <1>2
  <2> QED
    BY <2>1, <1>1, WithoutAbsent
<1>5. Without(OneQueue, p) = (Without(E, p) \o U) \o Without(F, p)
  <2>1. Without(E \o U, p) = Without(E, p) \o U
    <3> HIDE DEF E, U, F
    <3>1. \A x, y \in Seq(Pages) : Without(x \o y, p) = Without(x, p) \o Without(y, p)
      BY PageSequences
    <3>2. Without(E \o U, p) = Without(E, p) \o Without(U, p)
      BY <3>1, <1>1
    <3> QED
      BY <3>2, <1>4
  <2>2. Without((E \o U) \o F, p) = Without(E \o U, p) \o Without(F, p)
    <3> HIDE DEF E, U, F
    <3>1. \A x, y \in Seq(Pages) : Without(x \o y, p) = Without(x, p) \o Without(y, p)
      BY PageSequences
    <3>2. E \o U \in Seq(Pages) /\ F \in Seq(Pages)
      BY <1>1
    <3> QED
      BY <3>1, <3>2
  <2> QED
    BY <2>1, <2>2 DEF OneQueue
<1>6. OneQueue' = IF thePool.refs[p] = 0 THEN Without(OneQueue, p) ELSE OneQueue
  <2>1. OneQueue = (E \o U) \o F /\ OneQueue' = (thePool'.emptyFree \o U) \o thePool'.free
    BY <1>3 DEF OneQueue
  <2> QED
    BY <2>1, <1>2, <1>5
<1> QED
  BY <1>2, <1>6, QueueOperators DEF Queue!TouchBlock

(* publish(): a page without a key gets one, or nothing happens. *)
LEMMA PublishRefines ==
  ASSUME SoundPool(thePool), NEW p \in Pages, NEW k \in Keys, PublishPage(p, k)
  PROVE  Queue!CacheFullBlock(p, k) \/ thePool' = thePool
<1>1. thePool \in PoolState
  BY DEF SoundPool
<1> SUFFICES ASSUME thePool.key[p] = NoKey
             PROVE  Queue!CacheFullBlock(p, k)
  BY DEF PublishPage, Publish
<1>2. /\ thePool'.key = [thePool.key EXCEPT ![p] = k]
      /\ thePool'.index = [thePool.index EXCEPT ![k] = Append(@, p)]
      /\ thePool'.refs = thePool.refs /\ thePool'.emptyFree = thePool.emptyFree
      /\ thePool'.free = thePool.free /\ thePool'.nextId = thePool.nextId
      /\ thePool.refs[p] > 0
  BY <1>1 DEF PublishPage, Publish, PoolState
<1>3. OneQueue' = OneQueue
  BY <1>2 DEF OneQueue, Unused
<1> QED
  BY <1>2, <1>3 DEF Queue!CacheFullBlock

(* release_many(): pages without a key go to the front, the others to the back. *)
LEMMA ReleaseRefines ==
  ASSUME SoundPool(thePool), NEW batch \in Batches, ReleaseBatch(batch)
  PROVE  Queue!FreeBlocks(batch)
<1> DEFINE E == thePool.emptyFree
           U == Unused
           F == thePool.free
           idle == {b \in Range(batch) : thePool.refs[b] = 1}
           keyed == {b \in idle : thePool.key[b] # NoKey}
           front == Kept(batch, idle \ keyed)
           back == Kept(batch, keyed)
<1>1. /\ thePool \in PoolState /\ thePool.nextId \in 1 .. Total
      /\ E \in Seq(Pages) /\ U \in Seq(Pages) /\ F \in Seq(Pages) /\ E \o U \in Seq(Pages)
      /\ OneQueue \in Seq(Pages)
  BY SegmentTypes
<1>2. batch \in Seq(Pages)
  BY BatchIsDict
<1>3. front \in Seq(Pages) /\ back \in Seq(Pages)
  BY <1>2, KeptFacts
<1>4. /\ \A b \in Range(batch) : thePool.refs[b] > 0
      /\ thePool'.emptyFree = front \o E /\ thePool'.free = F \o back
      /\ thePool'.nextId = thePool.nextId /\ thePool'.key = thePool.key /\ thePool'.index = thePool.index
      /\ thePool'.refs = [b \in Pages |-> IF b \in Range(batch) THEN thePool.refs[b] - 1
                                       ELSE thePool.refs[b]]
  BY <1>1 DEF ReleaseBatch, ReleaseMany, PoolState
<1> HIDE DEF front, back
<1>5. OneQueue' = front \o OneQueue \o back
  <2>1. OneQueue = (E \o U) \o F /\ OneQueue' = ((front \o E) \o U) \o (F \o back)
    BY <1>4 DEF OneQueue, Unused
  <2>2. (front \o E) \o U = front \o (E \o U)
    <3> HIDE DEF E, U, F
    <3> QED
      BY <1>1, <1>3, PageSequences, SMTT(40)
  <2>3. (front \o (E \o U)) \o (F \o back) = ((front \o (E \o U)) \o F) \o back
    <3>1. front \o (E \o U) \in Seq(Pages)
      BY <1>1, <1>3, ConcatProperties
    <3> HIDE DEF E, U, F
    <3>2. \A x \in Seq(Pages) : x \o (F \o back) = (x \o F) \o back
      <4>1. F \in Seq(Pages) /\ back \in Seq(Pages)
        BY <1>1, <1>3
      <4>2. \A x, y, z \in Seq(Pages) : x \o (y \o z) = (x \o y) \o z
        BY PageSequences, Zenon
      <4> QED
        BY <4>1, <4>2, Zenon
    <3> QED
      BY <3>1, <3>2
  <2>4. (front \o (E \o U)) \o F = front \o ((E \o U) \o F)
    <3> HIDE DEF E, U, F
    <3> QED
      BY <1>1, <1>3, PageSequences, SMTT(40)
  <2> QED
    BY <2>1, <2>2, <2>3, <2>4
<1> QED
  BY <1>4, <1>5, QueueOperators DEF Queue!FreeBlocks, front, back

(* The engine's pool implements the one queue of the frozen vLLM block pool. *)
THEOREM PoolRefines == PoolSpec => ImplementsBlockQueue
<1>1. PoolInit => Queue!Init
  <2> SUFFICES ASSUME PoolInit PROVE Queue!Init
    OBVIOUS
  <2>1. /\ thePool.nextId = 1 /\ thePool.emptyFree = <<>> /\ thePool.free = <<>>
        /\ thePool.refs = [p \in Pages |-> 0] /\ thePool.key = [p \in Pages |-> NoKey]
        /\ thePool.index = [k \in Keys |-> <<>>]
    BY DEF PoolInit, EmptyPool
  <2>2. thePool.nextId \in 1 .. Total
    BY <2>1, TotalAssumption
  <2>3. Unused \in Seq(Pages)
    BY <2>2, UnusedFacts
  <2>4. OneQueue = Unused
    BY <2>1, <2>3, ConcatEmptySeq DEF OneQueue
  <2>5. Unused = [i \in Pages |-> i]
    <3>1. 1 .. Total - thePool.nextId = Pages
      BY <2>1 DEF Pages
    <3>2. \A i \in Pages : thePool.nextId + i - 1 = i
      BY <2>1, TotalAssumption DEF Pages
    <3> QED
      BY <3>1, <3>2 DEF Unused
  <2> QED
    BY <2>1, <2>4, <2>5 DEF Queue!Init
<1>2. IInv /\ [PoolNext]_thePool => [Queue!Next]_Queue!vars
  <2> SUFFICES ASSUME SoundPool(thePool), [PoolNext]_thePool
               PROVE  [Queue!Next]_Queue!vars
    BY DEF IInv
  <2>1. CASE AllocatePage
    BY <2>1, AllocateRefines DEF Queue!Next
  <2>2. ASSUME NEW p \in Pages, TouchPage(p) PROVE Queue!Next
    BY <2>2, TouchRefines DEF Queue!Next
  <2>3. CASE thePool' = thePool
    BY <2>3 DEF Queue!vars, OneQueue, Unused
  <2>4. ASSUME NEW p \in Pages, NEW k \in Keys, PublishPage(p, k)
        PROVE  Queue!Next \/ thePool' = thePool
    BY <2>4, PublishRefines DEF Queue!Next
  <2>5. ASSUME NEW batch \in Batches, ReleaseBatch(batch) PROVE Queue!Next
    BY <2>5, ReleaseRefines, QueueOperators DEF Queue!Next
  <2> QED
    BY <2>1, <2>2, <2>3, <2>4, <2>5 DEF PoolNext
<1> QED
  BY <1>1, <1>2, PoolSound, PTL DEF PoolSpec, ImplementsBlockQueue, Queue!Spec

=============================================================================

------------------------------ MODULE PagePool ------------------------------
(***************************************************************************)
(* The page pool under any legal sequence of calls: allocate while a page  *)
(* is available, touch any page handed out before, publish a page that is  *)
(* held, release any batch of held pages in any order.                     *)
(***************************************************************************)
EXTENDS PoolOps

CONSTANT MaxRefs   \* bound: references of one page

ASSUME MaxRefsAssumption == MaxRefs \in Nat \ {0}

VARIABLE thePool

PoolInit == thePool = EmptyPool

AllocatePage ==
  /\ Available(thePool) > 0
  /\ thePool' = Allocate(thePool)

TouchPage(p) ==
  /\ p < thePool.nextId
  /\ thePool.refs[p] < MaxRefs
  /\ thePool' = Touch(thePool, p)

PublishPage(p, k) ==
  /\ thePool.refs[p] > 0
  /\ thePool' = Publish(thePool, p, k)

ReleaseBatch(batch) ==
  /\ \A p \in Range(batch) : thePool.refs[p] > 0
  /\ thePool' = ReleaseMany(thePool, batch)

Batches == UNION {Injection(1 .. n, Pages) : n \in Pages}

PoolNext ==
  \/ AllocatePage
  \/ \E p \in Pages : TouchPage(p)
  \/ \E p \in Pages, k \in Keys : PublishPage(p, k)
  \/ \E batch \in Batches : ReleaseBatch(batch)

PoolSpec == PoolInit /\ [][PoolNext]_thePool
-----------------------------------------------------------------------------
(* The inductive invariant. *)
IInv == SoundPool(thePool)

(* Every field of the pool has its type. *)
PoolTyped == thePool \in PoolState

(***************************************************************************)
(* No page is lost and none is free twice: a page handed out once and not  *)
(* referenced is in exactly one place of exactly one free list, the one    *)
(* its key calls for; no other page is in a list.                          *)
(***************************************************************************)
FreeListsExact == FreeExact(thePool)

(***************************************************************************)
(* The index and the pages agree: a key lists each page that holds it once *)
(* and nothing else, so a lookup never answers with a page whose content   *)
(* was replaced and never misses one that still holds the key.             *)
(***************************************************************************)
IndexExact == IndexedExact(thePool)

(***************************************************************************)
(* snapshot's accounting: what the pool says is available is exactly what  *)
(* the references leave, so the feasibility tests of the engine decide on  *)
(* the true number of pages.                                               *)
(***************************************************************************)
CapacityAccounted == Accounted(thePool)

(***************************************************************************)
(* The bookkeeping of the pool is exact after any sequence of calls: every *)
(* idle page is free exactly once, the index is what the pages hold, and   *)
(* the number of available pages is what the references leave.             *)
(***************************************************************************)
PoolExact == PoolTyped /\ FreeListsExact /\ IndexExact /\ CapacityAccounted

(***************************************************************************)
(* A referenced page keeps what it holds: while somebody references it, no *)
(* call of anybody else replaces its content.                              *)
(***************************************************************************)
HeldStateKept ==
  [][\A p \in Pages :
       thePool.refs[p] > 0 /\ thePool.key[p] # NoKey => thePool'.key[p] = thePool.key[p]]_thePool

(***************************************************************************)
(* The page that answers for a key answers until it is replaced: a later   *)
(* duplicate never takes over an older page that still holds the key.      *)
(***************************************************************************)
AnswerStable ==
  [][\A k \in Keys :
       LET p == Lookup(thePool, k)
       IN  p # NoPage /\ thePool'.key[p] = k => Lookup(thePool', k) = p]_thePool

(***************************************************************************)
(* A state that was formed is either still found or on record as replaced; *)
(* the explanation of a lookup ("last_physical_replacement") rests on it.  *)
(***************************************************************************)
LossRecorded ==
  [][\A k \in Keys :
       Lookup(thePool, k) # NoPage => Lookup(thePool', k) # NoPage \/ k \in thePool'.removed]_thePool

(***************************************************************************)
(* What the pool stores is safe from every call: held pages keep their     *)
(* content, the page that answers goes on answering, and a state that is   *)
(* no longer found is on record as replaced.                               *)
(***************************************************************************)
StateSafe == HeldStateKept /\ AnswerStable /\ LossRecorded
-----------------------------------------------------------------------------
(* The three segments of the pool, read as the one queue of the source. *)
Unused == [i \in 1 .. Total - thePool.nextId |-> thePool.nextId + i - 1]
OneQueue == thePool.emptyFree \o Unused \o thePool.free

Queue == INSTANCE BlockQueue WITH
  Blocks <- Pages, Hashes <- Keys, NoHash <- NoKey, MaxRefs <- MaxRefs,
  queue <- OneQueue,
  ref_cnt <- thePool.refs, block_hash <- thePool.key, cached <- thePool.index

(***************************************************************************)
(* The engine's pool is a faithful reduction of vLLM's block pool: with    *)
(* its lazy interval of unused pages between the two free lists, it hands  *)
(* out, evicts and finds the same blocks in the same order.                *)
(***************************************************************************)
ImplementsBlockQueue == Queue!Spec
=============================================================================

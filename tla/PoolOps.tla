------------------------------ MODULE PoolOps -------------------------------
(***************************************************************************)
(* The physical page pool of one P domain (class Pool of the engine and of *)
(* the browser core), as functions from a pool to a pool.  A pool is a     *)
(* record:                                                                 *)
(*   nextId     the first page number never handed out (0 is the runtime's *)
(*              null block, so the pages are 1 .. Total - 1)               *)
(*   emptyFree  the released pages without a key, in reuse order           *)
(*   free       the released pages with a key, least recently used first   *)
(*   refs, key  what Page.refs and Page.key hold for each page             *)
(*   index      for each key, the pages that hold it, in publication order *)
(*   removed    the keys whose state was replaced at some time             *)
(* The counters and timestamps a pool reports (empty_reuses, replacements, *)
(* formed, released) decide nothing and are left out.                      *)
(***************************************************************************)
EXTENDS OrderedDicts

CONSTANTS
  Total,   \* number of blocks of the pool, the null block included
  Keys,    \* the (group, content prefix) pairs a page can be published under
  NoKey    \* Page.key is None

ASSUME TotalAssumption == Total \in Nat \ {0}
ASSUME NoKeyAssumption == NoKey \notin Keys

Pages == 1 .. Total - 1
NoPage == 0

PoolState ==
  [nextId : 1 .. Total, emptyFree : Seq(Pages), free : Seq(Pages),
   refs : [Pages -> Nat], key : [Pages -> Keys \cup {NoKey}],
   index : [Keys -> Seq(Pages)], removed : SUBSET Keys]

EmptyPool ==
  [nextId |-> 1, emptyFree |-> <<>>, free |-> <<>>,
   refs |-> [p \in Pages |-> 0], key |-> [p \in Pages |-> NoKey],
   index |-> [k \in Keys |-> <<>>], removed |-> {}]

Available(pool) ==
  (Total - pool.nextId) + Len(pool.free) + Len(pool.emptyFree)

(* The page that answers for key k: the first one published under it. *)
Lookup(pool, k) == IF pool.index[k] = <<>> THEN NoPage ELSE Head(pool.index[k])

(* Mutant of Touch: the page stays in its free list. *)
TouchKeepsFree(pool, p) == [pool EXCEPT !.refs = [pool.refs EXCEPT ![p] = @ + 1]]

Touch(pool, p) ==
  [pool EXCEPT
     !.emptyFree = IF pool.refs[p] = 0 THEN Without(@, p) ELSE @,
     !.free = IF pool.refs[p] = 0 THEN Without(@, p) ELSE @,
     !.refs = [pool.refs EXCEPT ![p] = @ + 1]]

(* Released pages without a key first, then unused ones, then cached ones. *)
NextPage(pool) ==
  IF pool.emptyFree # <<>> THEN Head(pool.emptyFree)
  ELSE IF pool.nextId < Total THEN pool.nextId
  ELSE Head(pool.free)

(* Mutant of Allocate: the loss of the replaced key is not recorded. *)
AllocateForgets(pool) ==
  LET p == NextPage(pool)
      k == pool.key[p]
      reuse == pool.emptyFree # <<>>
      fresh == ~reuse /\ pool.nextId < Total
  IN  [pool EXCEPT
         !.emptyFree = IF reuse THEN Tail(pool.emptyFree) ELSE @,
         !.nextId = IF fresh THEN pool.nextId + 1 ELSE @,
         !.free = IF reuse \/ fresh THEN @ ELSE Tail(pool.free),
         !.refs = [pool.refs EXCEPT ![p] = 1],
         !.key = [pool.key EXCEPT ![p] = NoKey],
         !.index = IF k = NoKey THEN @
                   ELSE [pool.index EXCEPT ![k] = Without(pool.index[k], p)]]

(***************************************************************************)
(* Take NextPage (meaningful when Available(pool) > 0, else Infeasible).   *)
(* If it holds a key, the key loses the page and the loss is recorded.     *)
(***************************************************************************)
Allocate(pool) ==
  LET p == NextPage(pool)
      k == pool.key[p]
      reuse == pool.emptyFree # <<>>
      fresh == ~reuse /\ pool.nextId < Total
  IN  [pool EXCEPT
         !.emptyFree = IF reuse THEN Tail(pool.emptyFree) ELSE @,
         !.nextId = IF fresh THEN pool.nextId + 1 ELSE @,
         !.free = IF reuse \/ fresh THEN @ ELSE Tail(pool.free),
         !.refs = [pool.refs EXCEPT ![p] = 1],
         !.key = [pool.key EXCEPT ![p] = NoKey],
         !.index = IF k = NoKey THEN @
                   ELSE [pool.index EXCEPT ![k] = Without(pool.index[k], p)],
         !.removed = IF k = NoKey THEN @ ELSE @ \cup {k}]

(* Only a page without a key is published; a key may have several pages. *)
Publish(pool, p, k) ==
  IF pool.key[p] # NoKey THEN pool
  ELSE [pool EXCEPT !.key = [pool.key EXCEPT ![p] = k],
                    !.index = [pool.index EXCEPT ![k] = Append(@, p)]]

(* Mutant of ReleaseMany: idle pages without a key go behind the older ones. *)
ReleaseBehind(pool, batch) ==
  LET idle == {p \in Range(batch) : pool.refs[p] = 1}
      keyed == {p \in idle : pool.key[p] # NoKey}
  IN  [pool EXCEPT
         !.refs = [p \in Pages |-> IF p \in Range(batch) THEN pool.refs[p] - 1
                                 ELSE pool.refs[p]],
         !.free = @ \o Kept(batch, keyed),
         !.emptyFree = @ \o Kept(batch, idle \ keyed)]

(***************************************************************************)
(* Drop one reference of each page of batch, a sequence of distinct pages  *)
(* with refs > 0 (anything else is a ValueError).  The pages without a key *)
(* that become idle go as a batch to the front of emptyFree.               *)
(***************************************************************************)
ReleaseMany(pool, batch) ==
  LET idle == {p \in Range(batch) : pool.refs[p] = 1}
      keyed == {p \in idle : pool.key[p] # NoKey}
  IN  [pool EXCEPT
         !.refs = [p \in Pages |-> IF p \in Range(batch) THEN pool.refs[p] - 1
                                 ELSE pool.refs[p]],
         !.free = @ \o Kept(batch, keyed),
         !.emptyFree = Kept(batch, idle \ keyed) \o @]
-----------------------------------------------------------------------------
(* The pages that nobody references and that were handed out before. *)
Idle(pool) == {p \in Pages : p < pool.nextId /\ pool.refs[p] = 0}

(* Each idle page is in one place of one free list, the one its key calls for. *)
FreeExact(pool) ==
  /\ IsInjective(pool.free) /\ IsInjective(pool.emptyFree)
  /\ Range(pool.emptyFree) = {p \in Idle(pool) : pool.key[p] = NoKey}
  /\ Range(pool.free) = {p \in Idle(pool) : pool.key[p] # NoKey}

(* A key lists once each page that holds it, and no other page. *)
IndexedExact(pool) ==
  \A k \in Keys : /\ IsInjective(pool.index[k])
                  /\ Range(pool.index[k]) = {p \in Pages : pool.key[p] = k}

(* Pages beyond nextId were never used. *)
UnusedClean(pool) ==
  \A p \in Pages : p >= pool.nextId => pool.refs[p] = 0 /\ pool.key[p] = NoKey

Accounted(pool) ==
  Available(pool) = Total - 1 - Cardinality({p \in Pages : pool.refs[p] > 0})

(* The inductive invariant of the pool. *)
SoundPool(pool) ==
  /\ pool \in PoolState
  /\ FreeExact(pool)
  /\ IndexedExact(pool)
  /\ UnusedClean(pool)
=============================================================================

---------------------------- MODULE CacheEngine -----------------------------
(***************************************************************************)
(* The event-driven engine (simulate): requests move through their phases, *)
(* one event at a time, over the page pools of their P domains.  The       *)
(* events are any the engine accepts; an event it rejects with ValueError  *)
(* or NotImplementedError ends the program without a result and is not a   *)
(* step here.  An Infeasible event ends the run with a partial result: the *)
(* reason stays in failure and nothing happens any more.                   *)
(***************************************************************************)
EXTENDS PoolOps, PrefixLookup

CONSTANTS
  Scenarios,   \* records [rows, concurrency, pSlots, stepBudget, maxInput]:
               \* rows maps each request to a record [domain, identity, input,
               \* after] (identity is its cache_identity, input its content token
               \* by token, after its send_after and context_after); maxInput is
               \* max_input_tokens, or 0 when it is not set
  Budgets      \* bound: the event budgets tried

VARIABLES
  scenario,  \* the scenario of this run
  phase,     \* phase of each request
  position,  \* tokens whose state is committed
  pages,     \* per request: the page of each block it holds
  pending,   \* target of the step in flight, or NoStep
  adopted,   \* tokens taken from the cache
  compute,   \* tokens computed
  pools,     \* the pool of each domain
  used,      \* per_tick_budget
  failure    \* <<>>, or <<reason, request>> when the run stopped

vars == <<scenario, phase, position, pages, pending, adopted, compute, pools, used, failure>>
request == <<phase, position, pages, pending, adopted, compute>>

Requests == DOMAIN scenario.rows
DomainOf(r) == scenario.rows[r].domain
After(r) == scenario.rows[r].after
Concurrency == scenario.concurrency
PSlots == scenario.pSlots
StepBudget == scenario.stepBudget

Domains == {DomainOf(r) : r \in Requests}
NoStep == 0
Phases == {"waiting", "arrived", "running", "transfer", "decode", "complete", "cancelled"}
Length(r) == Len(scenario.rows[r].input)

(* prefix_key: the hash stands for the identity and the content before end. *)
End(m) == (m[2] + 1) * Groups[m[1]].block
PrefixKey(row, m) == <<m[1], row.identity, SubSeq(row.input, 1, End(m))>>
Key(r, m) == PrefixKey(scenario.rows[r], m)

(* validate: finitely many requests, each with some input of at most the   *)
(* length that is allowed, and limits.                                     *)
ASSUME ScenariosAssumption ==
  \A s \in Scenarios :
    /\ IsFiniteSet(DOMAIN s.rows)
    /\ \A r \in DOMAIN s.rows :
         LET input == s.rows[r].input
         IN  /\ input \in Seq(Range(input)) \ {<<>>}
             /\ s.maxInput # 0 => Len(input) <= s.maxInput
    /\ {s.concurrency, s.pSlots, s.stepBudget, s.maxInput} \subseteq Nat
ASSUME KeysAssumption ==
  \A s \in Scenarios : \A r \in DOMAIN s.rows :
    \A m \in AllBlocks(Len(s.rows[r].input)) : PrefixKey(s.rows[r], m) \in Keys
-----------------------------------------------------------------------------
(* The blocks of request r that a page in its domain answers for. *)
Cached(r) ==
  {m \in AllBlocks(Length(r)) : Lookup(pools[DomainOf(r)], Key(r, m)) # NoPage}
LookupHit(r) == Hit(Cached(r), Length(r))
Hits(r, hit) ==
  [m \in UNION {{g} \X Recovery(g, hit) : g \in GroupIds} |->
     Lookup(pools[DomainOf(r)], Key(r, m))]

(* Blocks in the order of the loops: by group, then by index. *)
Before(a, b) == a[1] < b[1] \/ (a[1] = b[1] /\ a[2] < b[2])
InOrder(S) ==
  [k \in 1 .. Cardinality(S) |->
     CHOOSE m \in S : Cardinality({q \in S : Before(q, m)}) = k - 1]

(* The blocks to allocate. *)
Missing(held, target, start) ==
  (UNION {{g} \X Required(g, target, start) : g \in GroupIds}) \ DOMAIN held

(* Mutant of TouchAll: pages in use elsewhere are not counted again. *)
TouchIdle(pool, ps) ==
  LET idle == {p \in ps : pool.refs[p] = 0}
  IN  [pool EXCEPT
         !.emptyFree = Kept(@, Pages \ idle), !.free = Kept(@, Pages \ idle),
         !.refs = [p \in Pages |-> IF p \in idle THEN 1 ELSE pool.refs[p]]]

(* Touch of every page of ps: the order makes no difference. *)
TouchAll(pool, ps) ==
  LET idle == {p \in ps : pool.refs[p] = 0}
  IN  [pool EXCEPT
         !.emptyFree = Kept(@, Pages \ idle), !.free = Kept(@, Pages \ idle),
         !.refs = [p \in Pages |-> IF p \in ps THEN pool.refs[p] + 1 ELSE pool.refs[p]]]

(* Allocate a page for block m; ok is FALSE when the pool has run out. *)
AllocateBlock(a, m) ==
  IF ~a.ok \/ Available(a.pool) = 0 THEN [a EXCEPT !.ok = FALSE]
  ELSE [pool |-> Allocate(a.pool), ok |-> TRUE,
        held |-> [x \in DOMAIN a.held \cup {m} |->
                    IF x = m THEN NextPage(a.pool) ELSE a.held[x]]]

AllocateAll(pool, held, missing) ==
  LET order == InOrder(missing)
      after[n \in 0 .. Len(order)] ==
        IF n = 0 THEN [pool |-> pool, held |-> held, ok |-> TRUE]
        ELSE AllocateBlock(after[n - 1], order[n])
  IN  after[Len(order)]

(* Release the pages of the blocks S of one group, last index first. *)
ReleaseBlocks(pool, held, S) ==
  LET order == InOrder(S)
      n == Len(order)
  IN  ReleaseMany(pool, [k \in 1 .. n |-> held[order[n + 1 - k]]])

(* Release the pages of the blocks S, group by group. *)
ReleaseAll(pool, held, S) ==
  LET after[g \in 0 .. Len(Groups)] ==
        IF g = 0 THEN pool ELSE ReleaseBlocks(after[g - 1], held, {m \in S : m[1] = g})
  IN  after[Len(Groups)]

(* Mutant of Cap: no room for a block that the window enters half way. *)
CapTight(g, limit) == Ceil(Min({Groups[g].window - 1 + StepBudget, limit}), Groups[g].block)

(* Blocks of a window group alive at once: window, one step, and a partial. *)
Cap(g, limit) ==
  Ceil(Min({Groups[g].window - 1 + StepBudget, limit}), Groups[g].block) + 1

(* The pages of group g that the whole input of r needs at one time. *)
Whole(r, g) ==
  LET G == Groups[g]
      n == Length(r)
      limit == IF scenario.maxInput = 0 THEN n ELSE scenario.maxInput
  IN  IF G.kind = "dense" THEN Ceil(n \div G.ratio, G.block \div G.ratio)
      ELSE Min({Ceil(n, G.block), Cap(g, limit)})

(* Full-input admission gate: the pages to be taken from the cache, and in *)
(* each group those the whole input needs beyond what the hit covers.      *)
Admission(r, hit, pinned) ==
  LET skipped(g) == IF Groups[g].kind = "dense" THEN 0 ELSE FirstKept(g, hit)
      future(g) == AtLeast0(Whole(r, g) - Max({skipped(g), hit \div Groups[g].block}))
  IN  Cardinality(pinned) + Cardinality(UNION {{g} \X (1 .. future(g)) : g \in GroupIds})
-----------------------------------------------------------------------------
Running(d) == {r \in Requests : phase[r] = "running" /\ DomainOf(r) = d}
Active == {r \in Requests : phase[r] \notin {"waiting", "complete", "cancelled"}}
Fail(r, reason) == failure' = <<reason, r>>

Init ==
  /\ scenario \in Scenarios
  /\ phase = [r \in Requests |-> "waiting"]
  /\ position = [r \in Requests |-> 0]
  /\ pages = [r \in Requests |-> <<>>]
  /\ pending = [r \in Requests |-> NoStep]
  /\ adopted = [r \in Requests |-> 0]
  /\ compute = [r \in Requests |-> 0]
  /\ pools = [d \in Domains |-> EmptyPool]
  /\ used = [d \in Domains |-> 0]
  /\ failure = <<>>

(* The next event has a later tick: every domain's budget starts again. *)
Tick ==
  /\ used' = [d \in Domains |-> 0]
  /\ UNCHANGED <<request, pools, failure>>

Arrive(r) ==
  /\ phase[r] = "waiting"
  /\ \A q \in After(r) : phase[q] = "complete"
  /\ IF Cardinality(Active) >= Concurrency
     THEN Fail(r, "request_concurrency") /\ UNCHANGED phase
     ELSE phase' = [phase EXCEPT ![r] = "arrived"] /\ UNCHANGED failure
  /\ UNCHANGED <<position, pages, pending, adopted, compute, pools, used>>

(* Mutant of Pinned: cached pages are taken to be free of charge. *)
NothingPinned(pool, held) == {}

(* The pages taken from the cache that nobody holds yet. *)
Pinned(pool, held) == {p \in Range(held) \ {NoPage} : pool.refs[p] = 0}

(* Mutant of OverBudget: what others used in this tick is forgotten. *)
OverBudgetAlone(r, cost, budget) == cost > budget \/ cost > StepBudget

OverBudget(r, cost, budget) ==
  cost > budget \/ cost + used[DomainOf(r)] > StepBudget

(* Why the engine refuses to start request r, in the order it looks. *)
Refusal(r, hit, target, budget) ==
  LET pool == pools[DomainOf(r)]
      hits == Hits(r, hit)
      pinned == Pinned(pool, hits)
      needed == Cardinality(Missing(hits, target, hit)) + Cardinality(pinned)
  IN  IF Cardinality(Running(DomainOf(r))) >= PSlots THEN "p_slots"
      ELSE IF OverBudget(r, target - hit, budget) THEN "scheduling_budget"
      ELSE IF Admission(r, hit, pinned) > Available(pool) THEN "admission_capacity"
      ELSE IF needed > Available(pool) THEN "active_capacity"
      ELSE IF NoPage \in Range(hits) THEN "lost_state"
      ELSE "none"

(* Hold what a step to target needs; position is what is committed so far. *)
StartStep(r, pool, held, target, start) ==
  LET got == AllocateAll(pool, held, Missing(held, target, start))
  IN  /\ pools' = [pools EXCEPT ![DomainOf(r)] = got.pool]
      /\ pages' = [pages EXCEPT ![r] = got.held]
      /\ IF got.ok
         THEN /\ pending' = [pending EXCEPT ![r] = target]
              /\ used' = [used EXCEPT ![DomainOf(r)] = @ + target - start]
              /\ UNCHANGED failure
         ELSE Fail(r, "allocate") /\ UNCHANGED <<pending, used>>

(* SCHEDULE of an arrived request: adopt what the cache holds, then allocate. *)
ScheduleNew(r, t, budget) ==
  LET hit == LookupHit(r)
      target == Max({t, hit})
      hits == Hits(r, hit)
      why == Refusal(r, hit, target, budget)
  IN  /\ phase[r] = "arrived" /\ pending[r] = NoStep
      /\ IF why = "none"
         THEN /\ phase' = [phase EXCEPT ![r] = "running"]
              /\ position' = [position EXCEPT ![r] = hit]
              /\ adopted' = [adopted EXCEPT ![r] = hit]
              /\ StartStep(r, TouchAll(pools[DomainOf(r)], Range(hits)), hits, target, hit)
         ELSE /\ Fail(r, why)
              /\ UNCHANGED <<phase, position, pages, pending, adopted, pools, used>>
      /\ UNCHANGED compute

(* Mutant of Stale: the block that holds the window's first token goes too. *)
StaleOneMore(r) ==
  {m \in DOMAIN pages[r] :
     Groups[m[1]].kind = "window" /\ m[2] <= FirstKept(m[1], position[r])}

Stale(r) ==
  {m \in DOMAIN pages[r] :
     Groups[m[1]].kind = "window" /\ m[2] < FirstKept(m[1], position[r])}

(***************************************************************************)
(* SCHEDULE of a running request: the window blocks that the committed     *)
(* progress has passed go back first, and stay back when the step does not *)
(* fit after all.                                                          *)
(***************************************************************************)
ScheduleNext(r, t, budget) ==
  LET d == DomainOf(r)
      target == Max({t, position[r]})
      pool == ReleaseAll(pools[d], pages[r], Stale(r))
      held == Restrict(pages[r], DOMAIN pages[r] \ Stale(r))
  IN  /\ phase[r] = "running" /\ pending[r] = NoStep
      /\ IF OverBudget(r, target - position[r], budget)
         THEN Fail(r, "scheduling_budget") /\ UNCHANGED <<pages, pending, pools, used>>
         ELSE IF Cardinality(Missing(held, target, position[r])) > Available(pool)
         THEN /\ Fail(r, "active_capacity")
              /\ pools' = [pools EXCEPT ![d] = pool]
              /\ pages' = [pages EXCEPT ![r] = held]
              /\ UNCHANGED <<pending, used>>
         ELSE StartStep(r, pool, held, target, position[r])
      /\ UNCHANGED <<phase, position, adopted, compute>>

Committed(m, target) == End(m) <= target

(* The committed blocks that can serve a later lookup get their key. *)
PublishAll(pool, r, target) ==
  LET todo == InOrder({m \in DOMAIN pages[r] : Committed(m, target) /\ Retained(m[1], m[2])})
      after[n \in 0 .. Len(todo)] ==
        IF n = 0 THEN pool ELSE Publish(after[n - 1], pages[r][todo[n]], Key(r, todo[n]))
  IN  after[Len(todo)]

(* Mutant of Computed: counted from the adopted prefix, not the last step. *)
ComputedSinceHit(r) == pending[r] - adopted[r]
Computed(r) == pending[r] - position[r]

StepComplete(r) ==
  /\ pending[r] # NoStep
  /\ pools' = [pools EXCEPT ![DomainOf(r)] = PublishAll(@, r, pending[r])]
  /\ compute' = [compute EXCEPT ![r] = @ + Computed(r)]
  /\ position' = [position EXCEPT ![r] = pending[r]]
  /\ pending' = [pending EXCEPT ![r] = NoStep]
  /\ phase' = [phase EXCEPT ![r] = IF pending[r] = Length(r) THEN "transfer" ELSE @]
  /\ UNCHANGED <<pages, adopted, used, failure>>

(* release_all, then the request is in phase next. *)
LeaveP(r, next) ==
  /\ pools' = [pools EXCEPT ![DomainOf(r)] =
                 ReleaseAll(@, pages[r], DOMAIN pages[r])]
  /\ pages' = [pages EXCEPT ![r] = <<>>]
  /\ phase' = [phase EXCEPT ![r] = next]
  /\ UNCHANGED <<position, pending, adopted, compute, used, failure>>

PRelease(r) == phase[r] = "transfer" /\ pending[r] = NoStep /\ LeaveP(r, "decode")

RequestComplete(r) ==
  /\ phase[r] = "decode"
  /\ phase' = [phase EXCEPT ![r] = "complete"]
  /\ UNCHANGED <<position, pages, pending, adopted, compute, pools, used, failure>>

Cancel(r) ==
  pending[r] = NoStep /\ phase[r] # "transfer" /\ LeaveP(r, "cancelled")

Event(r) ==
  \/ Arrive(r)
  \/ \E t \in 1 .. Length(r), b \in Budgets : ScheduleNew(r, t, b)
  \/ \E t \in 1 .. Length(r), b \in Budgets : ScheduleNext(r, t, b)
  \/ StepComplete(r)
  \/ PRelease(r)
  \/ RequestComplete(r)
  \/ Cancel(r)

Next ==
  /\ failure = <<>> /\ (Tick \/ \E r \in Requests : Event(r))
  /\ UNCHANGED scenario

Spec == Init /\ [][Next]_vars
-----------------------------------------------------------------------------
Reasons == {"request_concurrency", "p_slots", "scheduling_budget",
            "admission_capacity", "active_capacity", "lost_state", "allocate"}

(* Every variable holds a value of its kind. *)
TypeOK ==
  /\ phase \in [Requests -> Phases]
  /\ \A r \in Requests :
       /\ {position[r], pending[r], adopted[r], compute[r]} \subseteq 0 .. Length(r)
       /\ \A m \in DOMAIN pages[r] :
            /\ m[1] \in GroupIds /\ m[2] \in 0 .. Ceil(Length(r), Groups[m[1]].block) - 1
            /\ pages[r][m] \in Pages
  /\ pools \in [Domains -> PoolState]
  /\ used \in [Domains -> Nat]
  /\ failure # <<>> => failure \in Reasons \X Requests

(* The engine never drives a pool out of the states the pool's own laws give. *)
PoolsSound == \A d \in Domains : SoundPool(pools[d])

Holders(d, p) ==
  UNION {{r} \X {m \in DOMAIN pages[r] : pages[r][m] = p} : r \in {q \in Requests : DomainOf(q) = d}}

(***************************************************************************)
(* The references of a page are the places where requests of its domain    *)
(* hold it: no event leaks a reference, and none drops one that a sharing  *)
(* request still counts on.                                                *)
(***************************************************************************)
RefsAreHolders ==
  \A d \in Domains : \A p \in Pages :
    pools[d].refs[p] = Cardinality(Holders(d, p))

(***************************************************************************)
(* The capacity test is made before the first page moves: a step that      *)
(* passes it never runs out of pages half way, and the pages a lookup      *)
(* selected are all still there when they are taken.                       *)
(***************************************************************************)
NoHalfSchedule == failure # <<>> => failure[1] \notin {"lost_state", "allocate"}

(* A page that a request holds never carries another request's content. *)
ContentSound ==
  \A r \in Requests : \A m \in DOMAIN pages[r] :
    LET k == pools[DomainOf(r)].key[pages[r][m]]
    IN  k # NoKey => k = Key(r, m)

(***************************************************************************)
(* State that is scheduled but not committed is nobody else's: a block     *)
(* that reaches beyond the committed position has one holder and no key.   *)
(***************************************************************************)
PendingPrivate ==
  \A r \in Requests : \A m \in DOMAIN pages[r] :
    End(m) > position[r] =>
      LET p == pages[r][m]
      IN  pools[DomainOf(r)].refs[p] = 1 /\ pools[DomainOf(r)].key[p] = NoKey

(***************************************************************************)
(* A request that may still compute holds all the state its next token     *)
(* reads, although stale window blocks went back and its prefix may have   *)
(* come from other requests.                                               *)
(***************************************************************************)
ContextResident ==
  \A r \in Requests, g \in GroupIds :
    phase[r] \in {"running", "transfer"} =>
      {g} \X Required(g, position[r], position[r]) \subseteq DOMAIN pages[r]

(***************************************************************************)
(* The engine's own accounting: what was adopted and what was computed are *)
(* the tokens committed, and all of them when the request completes (the   *)
(* assertion at REQUEST_COMPLETE).                                         *)
(***************************************************************************)
InputAccounted ==
  \A r \in Requests :
    /\ adopted[r] + compute[r] = position[r]
    /\ phase[r] \in {"transfer", "decode", "complete"} => position[r] = Length(r)

(***************************************************************************)
(* Only replacement loses state: while no key was ever replaced, the       *)
(* blocks published so far let every committed boundary of every request   *)
(* be recovered, although most window blocks were never published.         *)
(***************************************************************************)
NoLossWithoutReplacement ==
  \A r \in Requests :
    pools[DomainOf(r)].removed = {} =>
      \A c \in Boundaries(position[r]) : \A g \in GroupIds : Recoverable(Cached(r), g, c)

(***************************************************************************)
(* The state in the cache is what the requests count on: pools and pages   *)
(* stay sound, nobody sees another's content or an unfinished step, the    *)
(* context of the next token is resident, and only replacement loses any.  *)
(***************************************************************************)
StateSound ==
  /\ TypeOK /\ PoolsSound
  /\ ContentSound /\ PendingPrivate /\ ContextResident
  /\ NoLossWithoutReplacement

(***************************************************************************)
(* The admission gate is enough for a cold request that has its domain to  *)
(* itself: with one P slot, a request that adopted nothing and was let in  *)
(* never runs out of pages, whatever its chunks are.                       *)
(***************************************************************************)
ColdFits ==
  failure # <<>> /\ failure[1] = "active_capacity" /\ PSlots = 1 =>
    LET r == failure[2]
    IN  IF phase[r] = "arrived" THEN LookupHit(r) > 0 ELSE adopted[r] > 0

(***************************************************************************)
(* A block behind the committed position that a request comes to hold is   *)
(* one that was published with exactly this content: a fresh page never    *)
(* stands in for state that was not computed into it.                      *)
(***************************************************************************)
AdoptedContent ==
  [][\A r \in Requests : \A m \in DOMAIN pages'[r] \ DOMAIN pages[r] :
       End(m) <= position'[r] => pools[DomainOf(r)].key[pages'[r][m]] = Key(r, m)]_vars

(***************************************************************************)
(* Whatever a request holds and still needs stays put: an event of another *)
(* request changes neither its pages nor what they carry.                  *)
(***************************************************************************)
OthersUndisturbed ==
  [][\A r \in Requests : \A m \in DOMAIN pages[r] :
       LET d == DomainOf(r)
           p == pages[r][m]
       IN  m \in DOMAIN pages'[r] =>
             /\ pages'[r][m] = p
             /\ pools'[d].key[p] # pools[d].key[p] =>
                  pools[d].key[p] = NoKey /\ pending[r] # NoStep /\ pending'[r] = NoStep]_vars

(***************************************************************************)
(* Sharing is invisible: a request gets what was computed for exactly its  *)
(* tokens, and keeps it whatever the others do.                            *)
(***************************************************************************)
SharingSound == AdoptedContent /\ OthersUndisturbed
-----------------------------------------------------------------------------
(* The engine as its event source sees it. *)
Public(s) ==
  [rows |-> [r \in DOMAIN s.rows |->
     [domain |-> s.rows[r].domain, length |-> Len(s.rows[r].input), after |-> s.rows[r].after]],
   concurrency |-> s.concurrency, pSlots |-> s.pSlots, stepBudget |-> s.stepBudget]
PublicFailure ==
  IF failure # <<>> /\ failure[1] \in {"admission_capacity", "active_capacity"}
  THEN <<"capacity", failure[2]>> ELSE failure

Lifecycle == INSTANCE RequestLifecycle WITH
  Scenarios <- {Public(s) : s \in Scenarios}, scenario <- Public(scenario), failure <- PublicFailure

(***************************************************************************)
(* The engine keeps what the sources of events rely on: whatever the pool  *)
(* holds, a legal event has one of the effects of the abstract life cycle, *)
(* and the only refusal that depends on the pool is the one for capacity.  *)
(***************************************************************************)
ImplementsLifecycle == Lifecycle!Spec
=============================================================================

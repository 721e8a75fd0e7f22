# KVLab: specifications, checks and proofs

KVLab replays the inputs of an LLM service against a model of the prefix (KV) cache of its
prefill (P) workers, and reports how many input tokens the cache saves at a given memory size.
Everything it reports rests on a small core that has to decide like the runtime does: which
physical page is reused next, which blocks a lookup may adopt, what a step must hold, when a
request is refused, and in which order a workload turns into events. Around it the repository
keeps the runtime it is compared with (the vLLM scheduler and the Mooncake connector that the
experiments deployed) and the client that replays recorded traces against it. This directory
holds TLA+ modules of all of these, TLC runs over small instances, and TLAPS proofs.

All paths are relative to the repository, below `src/`.

## 1. Inventory

### Components

| component | source | state it keeps | operations | talks to |
|---|---|---|---|---|
| page pool | `kvsim/engine.py` `Pool`, `kvsim/browser/core.js` `Pool` | pages (references, key), two ordered free lists, next unused page, index from key to pages, record of replaced keys | available, lookup, touch, allocate, publish, release_many, snapshot | called by the engine, one pool per P domain |
| block pool of vLLM (frozen copy, external) | `kvsim/source/vllm/vllm/v1/core/block_pool.py`, `kv_cache_utils.py` | one free queue, hash table | get_new_blocks, touch, cache_full_blocks, free_blocks | what the page pool reduces |
| lookup and retention | `engine.py` `lookup`, `required_indices`, STEP_COMPLETE; groups of `profile.py` | none (pure over pool and input) | which start a request may adopt, which blocks a step needs, which blocks are kept | the engine |
| event-driven engine | `engine.py` `simulate`; its twin in `core.js` | phase, position, pages, step in flight, adopted and computed tokens of each request; budget of each domain; failure | ARRIVE, SCHEDULE, STEP_COMPLETE, P_RELEASE, REQUEST_COMPLETE, CANCEL, the capacity refusals | pools; fed by an event list or by the workload driver |
| event generator | `inputs.py` `generate_events`, `core.js` `generateEvents` | waiting, active, releasing, decoding, done, tick | a fixed trace for the engine, made before any hit is known | engine |
| workload driver | `core.js` `driveWorkload` | clock, due events, launched and finished sessions, budgets of the tick | releases, completions, timers, session launches, row starts, steps, clock jumps | a generator that yields events to the engine and reads its states between two yields |
| native capacity driver | `kvsim/native/run.py`, `probe_native.py`, `accounting.py` | submitted, active and completed requests, due releases and completions, connector pending | one logical step of three phases over the vLLM schedulers | vLLM schedulers through a fake connector |
| ascend replay | `kvsim/native/run_ascend_v31.py` | batch queue of two entries, intervals of the input | schedule ahead, apply in order, release the transfer, check the accounting | vLLM scheduler of a producer |
| vLLM scheduler of the deployments | `stage-v6/same-capacity-12g/source/v1/core/sched/scheduler.py`, `kv_cache_manager.py`, `single_type_kv_cache_manager.py` | running, waiting and skipped queues, token counters, placeholders, deferred frees, loads received | schedule, update_from_output, finish_requests, add_request | connector; the engine loop with a queue of batches |
| Mooncake connector, proxy | `stage-v3/mooncake_connector.py`, `mooncake_connector_proxy.py` | on P the transfers to send with their blocks and timeouts, on D the pulls under way; sets of what was sent and received | scheduler side (metadata of a step, request_finished), worker side (record, pull, wait, send, expire, fetch), refusals, aborts | both schedulers; the ranks of P and D by messages |
| replay analyzer and planner | `stage-v4/source/client/agentbench/replay/analyzer.py`, `schema.py`, `planner.py`, `timing.py` | none (rows to plan) | retries, predecessors, contexts, delays and gaps, pruning, validation | executor |
| replay executor | `.../replay/executor.py` | futures of prompts and completions, results | one coroutine per node: wait, build, release, send, resolve; task timeout | request admission, transport |
| validation and comparison | `kvsim/native/result_validation.py`, `compare.py`, `capacity.py`, `routing.py`, `conditions.py`, ... | none | checks of finished results and of their bindings | files |
| local web service | `kvsim/web.py` | one worker process, shutdown timer | POST starts a worker and waits up to 90 s | engine in a child process |
| request admission (stage v4) | `stage-v4/request_admission.py` | semaphore, active count | queue, send, finish or cancel a request | the executor it patches |
| presentation, conversion, scripts | `__main__.py`, `result.py`, `native_results.js`, `replay_export.py`, `native/bundle.py`, `scripts/*` | none that evolves | formatting, packaging, cluster glue | files |

`stage-v2` to `stage-v6` are historical experiments, `kvsim/source` and `stage-*/source` are
vendored copies of vLLM, vLLM-Ascend and AgentInfer. `stage-v4` and `stage-v5` hold the same
scheduler file as `stage-v6`, several times; it is modelled once, from the last stage.

### What is hard here, and what makes each component correct

* *Page pool.* Two free lists, an interval of unused pages, an index with duplicate keys, and
  references from several requests describe the same pages. Correct: a page is idle in exactly
  one place, the index tells the truth, availability is what the references leave, a
  referenced page keeps its content, and the order of reuse is vLLM's.
* *Lookup and retention.* Groups with different block sizes lower one candidate greedily, one
  after another; window groups publish only some blocks. Correct: the result is the greatest
  boundary from which all groups can recover, and what is published is enough for it.
* *Engine.* Requests interleave at event granularity and share pages; a step holds blocks
  before their content exists; capacity is tested before pages move; refused steps keep the
  partial effects that came first. Correct: references are holders, adopted content was
  computed, the context of the next token is resident, nobody disturbs anybody, capacity
  tests are sufficient, limits hold, tokens are accounted for.
* *Workload driver.* One loop reads and changes the books in a fixed order and then jumps its
  clock. Correct: it never gives up while something can happen, ends, skips nothing, and sends
  no event that the limits refuse.
* *Event generator.* The trace is fixed before any hit is known and replayed on an engine whose
  requests run ahead of the plan. Correct: every event stays legal, only capacity can refuse
  it, everything completes, and the generator ends.
* *Native driver.* One round releases, completes, submits and schedules all domains in this
  order, over schedulers that preempt and may raise. Correct: its books match the connector,
  the declared release protocol holds, each input position is counted as it should be, no
  stall is reported while work is under way, and an aborted run leaves a valid result.
* *Ascend replay.* The input is counted when a batch is scheduled, two batches ahead of the
  results. Correct: each token is counted once, no input is given up that fits, and the next
  request finds the scheduler clean.
* *vLLM scheduler.* A batch is planned before the result of the last one is known; aborts,
  early stops, preemptions and loads free blocks a batch in flight still writes. Correct: such
  blocks wait behind a fence, each block is in one place, counters stay true, nobody overtakes
  or starves.
* *Mooncake connector.* Two engines step on their own while sender and receiver loops run
  beside them; entries expire, pulls are refused, late or lost, clients leave. Correct: no
  transfer reads blocks P freed or writes blocks D freed, a partial load is never computed on,
  a transfer is reported once, and P gets its blocks back.
* *Analyzer and planner.* Delay, gap and context of a row come from three different earlier
  rows. Correct: the plan passes the planner's own validation and reproduces the trace.
* *Executor and admission.* Coroutines wait for each other, fail, time out and are cancelled
  while they hold or wait for a slot. Correct: a fault stays in its chain of contexts, every
  slot comes back once, every task ends.

`PROJECT.json` lists the hazards line by line.

## 2. Plan

| order | modules | what | state |
|---|---|---|---|
| 1 | `BlockQueue` | abstract specification: the free queue and hash table of vLLM | done |
| 2 | `OrderedDicts`, `PoolOps`, `PagePool`, `*_proofs` | the page pool; implements `BlockQueue`; invariants proved | done; invariants and refinement proved |
| 3 | `PrefixLookup`, `LookupCases` | lookup and retention against their definitions | done; both properties proved for all groups and lengths |
| 4 | `CacheEngine`, `CacheEngine_proofs` | pools, lookup and all events composed | done; all its properties proved |
| 5 | `WorkloadDriver`, `WorkloadDriver_proofs` | the driver over an abstract engine | done; books, limits and the clock proved |
| 6 | `RequestLifecycle` | abstract life of a request, implemented by `CacheEngine` | done; `WorkloadDriver` still has its own abstract engine |
| 7 | `EventGenerator`, `GeneratedRun` | the fixed trace, fed to any engine that keeps `RequestLifecycle` | done; `TraceSound` to be proved |
| 8 | `InputAccounting`, `NativeDriver`, `NativeDriver_proofs` | `run_capacity` over schedulers that may do anything their interface allows | done; transfers, progress and result proved |
| 9 | `EngineScheduler`, `EngineScheduler_proofs` | the vLLM scheduler under a queue of batches; `DriverContract` is what `NativeDriver` assumes of it | done; all its invariants proved |
| 10 | `AscendReplay` | the ascend replay composed with `EngineScheduler` | done |
| 11 | `KVTransfer`, `KVTransfer_proofs` | the Mooncake connector on both sides | done; all its invariants proved, `SourceHeld` where each rank of P serves one of D |
| 12 | `TraceAnalyzer`, `AnalyzedTraces` | rows to plan, over every short trace | done |
| 13 | `ReplayExecutor`, `ReplayExecutor_proofs` | executor and admission on plans of `TraceAnalyzer` | done; slots and faults proved |
| 14 | `DrivenEngine` | the workload driver composed with the engine and its pools | open |
| 15 | `commonProcessedPrefix`, `WebService` | the smaller components | open |

Theorems, in this order: pool invariants, the slots of the admission, the pool implements the
queue, `FaultsIsolated`, `DestinationHeld` and `LoadComplete`, the driver's books, limits and
clock, the native driver's transfers, progress and result, the engine's references, state,
sharing, life cycle and admission gate, the lookup, the fences, blocks, counters and order of
`EngineScheduler`, the side of P (all done); `DriverContract`; the generator's limits.

## 3. Modules

`OrderedDicts` models Python's `OrderedDict` and JavaScript's `Map` of page numbers as
sequences without repetition. `Kept(s, S)`, the part of `s` in `S`, is `SelectSeq` written by
rank instead of by recursion, so that its properties are provable; the other modules use it
for the order of pending sessions and for the rows of a round.

`PoolOps` gives every method of `Pool` as a function from pool records to pool records. It has
no variables, so that `PagePool` (one pool, any calls) and `CacheEngine` (one pool per domain,
called by events) use the same definitions. Counters and time stamps that nothing decides on
(`empty_reuses`, `replacements`, `formed`, `released`, `seq`) are left out; `removed` keeps
the keys only.

`PagePool` calls these functions in any legal order. Touching any page that was handed out is
allowed, referenced or not, because a lookup can answer with either. `map` binds it to the
JavaScript twin of the pool and `PoolOps` to the Python one; the two were read side by side
and agree operation by operation.

`BlockQueue` is what the pool promises: vLLM's `FreeKVCacheBlockQueue` holds all blocks from
the start, takes at the head, puts released blocks without a hash at the head and the others
at the tail. The refinement in `PagePool` reads `emptyFree \o unused \o free` (`OneQueue`) as
that queue.

`PrefixLookup` has the arithmetic: `Required` (blocks a step holds), `Recovery` (blocks a
start needs), `Retained` (blocks that are published), `Lower` and `Hit` (the lookup loop). The
two loops over a block list (`found += b`, `candidate -= alignment`) are written as the
minimum and maximum they compute. `LookupCases` runs it over a cache that changes at will.
`MCCases` checks it and `AnalyzedTraces` side by side.

`CacheEngine` is `simulate`, on one of the `Scenarios`. One action per event kind, SCHEDULE
split at the test of `state.phase` into `ScheduleNew` and `ScheduleNext`; `Tick` is an event
with a later tick, which resets the budgets. `Refusal` keeps the order of the tests; a refused
`ScheduleNext` has already released its stale window blocks. An `Infeasible` event sets
`failure` and ends the run, as `break` does, so these runs check no deadlock. Events the engine
rejects with `ValueError` leave the program without a result and are no steps. The prefix hash
stands for identity, group and content; hash collisions are not modelled. The engine's
assertion at "Selected recovery state disappeared" and an allocation that finds no page are the
failures `lost_state` and `allocate`, which `NoHalfSchedule` shows unreachable.

`WorkloadDriver` is `driveWorkload`, one action per statement of its loop and one step per row
in its two loops over the rows. The engine is what the driver reads of it: the first SCHEDULE
may start at any prefix (which covers every cache content) and any SCHEDULE may be refused for
capacity. Seconds are already ticks; a row has its decode time as one number.

`RequestLifecycle` is the engine as the sources of events see it: phases, limits, and steps
that either start at some adopted prefix or are refused. No page occurs in it. `CacheEngine`
implements it (`ImplementsLifecycle`), with its two capacity refusals mapped to one.

`EventGenerator` is `generate_events`, one action per emitted event. A loop of the code that
skips an entry is the selection of the first entry that is not skipped: within one tick slots
and budgets only shrink, so what was skipped stays skipped. The dictionaries are sequences of
pairs in insertion order. `GeneratedRun` lets an engine of `RequestLifecycle` take each event
as it is emitted; the code generates the whole list first, which makes no difference because
the generator reads nothing of the engine. A row depends on a set of rows (`send_after` and
`context_after`).

`InputAccounting` has the pure functions of the native results; `RoundObservation` reads the
domains of each round (`Seen`) off the rows and compares them with a whole round (`Domains`).
`NativeDriver` is the loop of `run_capacity`: one action per domain in the release and in the
scheduling phase, one per submitted row. The schedulers of vLLM are external. `Decisions` is
what the driver relies on: the batch keeps the token budget and the number of sequences, a
request does not run past its input, nothing waiting is admitted in a step that preempts, and a
scheduler with work and no pending transfer idles only after a preemption, not twice in a row.
Hits, chunks and victims are free. `OfflineTransfer` is the set of requests in place "pending";
the scheduler hands a request over when its single output token is produced. `SchedulerRaises`
stands for any exception of a call; the rows already written stay. Cache statistics, native
events and block counts are not modelled, and neither are the requests that finish without a
transfer: each request asks for one token, so it finishes with its prefill.

`EngineScheduler` is the scheduler on one of the `Deployments`: a record `e` of its state, one
action for each call of the engine loop and its clients. `Scheduled` is the loop over running
requests (`Continue`, which preempts from the back until the request fits, `MakeRoom`) and the
loop over waiting ones (`Promote`, `Admit`). `Loop` is a recursive function that does as many
rounds as the loop of the code can have; a round after its end changes nothing. Blocks are
counted, not named, and prompts are distinct, so prefix hits are left to the other modules.
`e.ahead`, `e.last` and the fences are kept relative to the last processed step, which changes
no comparison and keeps the state finite. Preemption cascades within one step: a request that
lacks a block preempts from the back until it fits or was preempted itself; the head of the
queue always progresses.

`AscendReplay` extends `EngineScheduler`: it submits one request at a time, fills the queue of
two batches, applies results, and accounts for the input with the functions of
`InputAccounting`. `raised` is every way the code gives up.

`KVTransfer` has both engines on one of the `Nets`. A step of P is `PSchedule`, then
`RecordSendReqs` and `FetchSent` on every rank, then `PUpdate`; D likewise. A pull is a record
in `jobs`: `TakePull` (a sender task takes it), `StartSend` or `WaitTimesOut`, `EndSend`,
`Receive` or `GiveUp` on D. `SendRaises` is an exception after the entries were marked as being
sent (1310): the worker answers with an error (1178) and the marks stay. `Expire` lets the clock
of a ready entry run out. Memory addresses, pipeline parallelism and the bootstrap server are
left out. A received load the scheduler does not know fails an assertion and stops D: `unknown`
records it, and P goes on alone. The nets let clients abort at most one request each.

`TraceAnalyzer` has the functions from recorded rows to a plan. Earlier rows are sets selected
by time and actor, with ties broken as the code sorts them. Rows name their prompt kind; the
inference of a kind that is missing, from the order of the rows and their token sizes, is left
out. `AnalyzedTraces` grows a trace row by row in the order in which rows end. A file may hold
them in any order, but the code compares places in the file only between rows that end
together, and those come in every order.

`ReplayExecutor` is the executor with the admission patched in: an action is the code of one
coroutine between two awaits. `Start` builds the root prompts, `Timeout` is `wait_for` of the
task, `Cancel` is what a cancelled coroutine still does. Clocks are left out: a released node
may go on at any later time. The semaphore is `asyncio.Semaphore` as of CPython 3.12: a
newcomer queues while nothing is free or a woken waiter has not run (`Locked`), and slots are
handed over to those that wait longest (`HandOn`). How many waiters one that runs, or is
cancelled, wakes for slots that came free since differs between releases of CPython; the model
allows each number.

The loops over the blocks of a request follow `InOrder`, by group and then by index. Each is a
recursive function over the places of that order (`AllocateAll`, `PublishAll`) or over the
groups (`ReleaseAll`, `Round`), so that it can be unfolded in a proof; `TouchAll`, whose order
makes no difference, is one step.

The theorems are in eight modules named after what they are about: `OrderedDicts_proofs`,
`PagePool_proofs` (its first part, about the operations of `PoolOps`, serves the engine too),
`CacheEngine_proofs`, `ReplayExecutor_proofs`, `KVTransfer_proofs`, `WorkloadDriver_proofs`,
`NativeDriver_proofs` and `EngineScheduler_proofs`.
Definitions called "Mutant of ..." are wrong versions of the definition that follows them:
each property is violated when one of them takes its place, which shows that the property can
fail. They are not used otherwise.

## 4. Runs

| run | instance | shows |
|---|---|---|
| `page_pool` | 3 pages, 2 keys, 2 references per page | `PoolExact`: free lists, index and capacity exact; `StateSafe`: held content and answers stable, losses recorded; implements the vLLM queue |
| `cases` | lookup: 7 tokens, a compressed dense group between two window groups, alignment 2, all 2^13 caches; traces: 3 rows, times 0..2, two actors (up to symmetry), three prompt kinds, any status, with or without token counts | the hit is the greatest recoverable boundary, the retained blocks are enough; every plan is valid, the replay keeps the times of the trace |
| `cache_engine` | three scenarios on 5 pages per domain and the null page: `Sharing` (4, 3 and 1 tokens, 2 shared), `Serial` (4, 7 and 2 tokens, one P slot), `TwoDomains` (4 requests) | references are holders; a step is never half made; `StateSound`: pools, content and resident context; `SharingSound`: nobody disturbs another, adopted content was computed; tokens accounted; the admission gate suffices for cold requests; implements `RequestLifecycle`, which keeps all limits |
| `driver` | every acyclic graph of 3 rows, requests and timers, 1 or 2 sessions, 1 or 2 requests in flight, fair | `BooksSound`: books and limits agree with the engine; no skipped event; never gives up, always ends |
| `driver_zero_timer` | the same with timers of zero duration | violated: see Findings |
| `generated_run` | 3 requests, all 64 dependency relations (cycles too), 1 or 2 domains, slots 1 or 2, concurrency 2 or 3, step budget 1 or 3, instant or slow transfer and decode: 4,096 scenarios, every adopted prefix | `TraceSound`: a fixed trace is legal, in step with the plan, fails only for capacity, completes; the generator ends; the cycle error is a cycle |
| `native_driver` | 3 requests on 2 domains (2 or 3 tokens on the first), dependent or not, transfers of 1 or 3 rounds, 2 tokens and 2 sequences per step, 7 rounds | `TransfersSound`: books match the connector and keep the protocol; accounting exact; result valid; no false stall |
| `kv_transfer` | four nets: one P rank for two D ranks, and one for one, with a client that leaves; two P ranks for one D rank; two requests in one message; two sender tasks on each P rank; fairness of P | destination blocks held during a write, source blocks too on the three nets where a P rank serves one D rank, reports once, loads complete, P strands nothing except after a send that raised |
| `kv_abort` | one rank on either side, one request that may be aborted | violated: see Findings |
| `engine_scheduler` | 4 requests on a consumer with loads and two batches in flight, on a local engine with two batches, on a producer with one; 4 blocks of 2 tokens; fair | writes fenced, blocks kept, counters true, order kept, every request completes, `DriverContract` |
| `replay` | inputs of 1 to 15 tokens on 8 blocks of 2, 3 tokens per step, 2 batches | each input accepted and accounted for, nothing left behind |
| `executor` | two sessions of 4 nodes planned by `TraceAnalyzer` (branching; a failed turn and its retry), two slots, two faults, one session that may time out; fair | `FaultsIsolated`, `SlotsExact`, `TasksEnd` |

**Why these bounds suffice.** Three pages are the smallest pool in which a batch release
orders two pages against a third; two keys give duplicates and replacement. In the engine
scenarios requests share a prefix that is longer than a boundary and then differ, and the pool
is smaller than the sum of what they hold, so sharing (two references), replacement, every
refusal reason (`request_concurrency`, `p_slots`, `scheduling_budget`, `admission_capacity`,
`active_capacity`), partial stale releases, cancellation and completion are reached.
`MCWorkloadDriver` has every dependency shape on three rows that `validateWorkload` accepts.
Two sessions and two slots are the least in which a queue of nodes crosses sessions while a
second slot comes free before the waiter woken for the first has run; two faults the least that
can meet in one chain and beside it. Four blocks are the least with which a
load, a batch and a deferred free compete, and the prompts are longer than a step.

Bounds that the code does not have: `MaxRefs` (references to one page), `Budgets` (event budgets
tried), `MaxRows`, `MaxTime` and `Kinds` (traces; the code has five prompt kinds, of which two
are free of context), `MaxFaults` and `MayTimeOut` (faults, and the sessions that may time out),
`aborts` and `stops` of a deployment and `aborts` of a net (who may be aborted or stop early).
`MaxSteps` of `NativeDriver` is the `max_steps` of the code, `StepLimit` its 100 logical steps,
here 20. With 7 rounds every chain of three requests completes without a preemption, and runs
also end by the limit, by an exception and after preemptions of a partly computed input that is
computed again in overlapping chunks. `MaxConcurrency` is 2; the theorems cover every value. The
nets have two sender tasks on each P rank, the least number the code starts (`num_workers * 2`,
line 927).

**Fairness.** `driver` and `generated_run`: weak fairness of the whole next-state relation.
`driveWorkload` is a synchronous generator that its caller drains, `generate_events` and
`simulate` are sequential loops. `engine_scheduler`: the engine loop steps while it has
requests or batches (weak fairness with what enables a step written out), and every transfer of
the worker ends. `kv_transfer`: P alone is fair. It steps while it has requests, the clock of
an entry runs out, a started transfer returns; nothing is assumed of D, of the clients or of
the network. `executor`: the event loop resumes every coroutine that can go on and
`request_timeout_seconds` ends every request; no task timeout has to expire, so `TasksEnd` does
not lean on it.

**Findings.**
1. A timer of zero duration (valid in `core.js:152`, produced by `replay_export.py:141`)
completes inside the loop over ready rows (`core.js:315`), after finished sessions were
collected (line 304) and after earlier rows were visited. If it was the last row of its
session, or an earlier row waits for it, no later tick is known, and the driver fails with
"Workload cannot progress: unresolved dependencies or execution slots" although the dependency
is complete and the slot free. `WORKLOAD.md:36` promises the order in which one tick completes
timers, frees session slots, starts sessions and readies rows.
2. A D request that is aborted before it was scheduled is pulled with empty blocks
(`mooncake_connector.py:867`) and deleted by the scheduler at once; the answer to the pull is
reported as received and fails `assert req_id in self.requests` (`scheduler.py:2639`).

**Observed, not claimed.** For a request that adopted a prefix, the admission gate is not
sufficient: its later steps may be refused with `active_capacity` even when it runs alone.
No document says otherwise, so `ColdFits` speaks of cold requests. In the other code, met
while modelling and not the subject of a run:
* `mooncake_connector.py:1307-1309`: a pull waits on the entry it found but asks by id "Do we
  still in reqs_need_send (not expired)?". Where one P rank serves two D ranks, the ready entry of
  the first pull can expire and be freed before its task resumes, the pull of the second rank
  makes an entry under the same id (1253-1260), and the first sends from freed blocks. The stage
  v3 deployment pairs its ranks one to one (`REPORT.md:88`), where this cannot happen, and
  `SourceHeld` speaks of such pairings (`Paired`). Without that condition TLC shows the run above
  on `OneToTwo` of `MCKVTransfer`.
* `mooncake_connector.py:1310-1364`: an exception between `sending += 1` and `sending -= 1` is
  caught at line 1178 and leaves the mark: the entry does not expire any more. `SourceReleased`
  allows exactly that (`LeftMarked`). Only an assertion of the code or the transfer engine can
  raise there.
* `mooncake_connector.py:2024` pops a dropped transfer without a default; two aborted requests
  of one step, one of them unknown to the rank, raise a `KeyError` whose future nobody reads,
  and the rest of the set stays tracked.
* A pull that is refused, times out or fails is reported to nobody
  (`mooncake_connector.py:1863-1903`): its request waits for the load until its client leaves.
  Therefore no liveness of D is claimed.
* `core.js:304`: a session without rows keeps its slot until the launch of the next iteration,
  and no later tick is known for it. Like a timer of zero duration it can make the driver pass
  the arrival of another session or give up; `validateWorkload` asks for no row in a session.
  `NothingSkipped` is therefore proved for workloads without either (`Timed`).
* `request_admission.py:41`: a sample file that cannot be written leaves the active count one
  too high (the count is only logged; `SlotsExact` is about the slots).
* `runner.py:122-124` counts a request that was sent and whose log could not be written as not
  sent.

## 5. Proofs

All theorems hold for every value of the constants under the assumptions the modules declare.
TLC evaluates these assumptions for the instances of section 4, and it checked each inductive
invariant below on them before it was proved.

| assumption | says | why the code justifies it |
|---|---|---|
| `TotalAssumption`, `NoKeyAssumption`, `MaxRefsAssumption` (`PagePool`) | at least the null block; no key equals "no key"; the bound is a number | `Pool.constructor`; a key is a string, no key is `null` |
| `GroupsAssumption` (`PrefixLookup`) | every block divides the alignment, every ratio its block; both and the windows are positive | `resolve` builds the six groups so (`profile.py:50-55`, alignment at line 64) for the block sizes it accepts (line 32) |
| `ScenariosAssumption` (`CacheEngine`) | finitely many requests, each with an input of at least one token and at most `max_input_tokens`, when that is set; limits are numbers | `validate`: 1 to 2000 requests (`inputs.py:190`), "Input length must be positive" (line 200), "Input exceeds configured deployment max_input_tokens" (201-202), the execution settings after line 210 |
| `KeysAssumption` (`CacheEngine`) | the keys of the pools include those of every full block of every input | `Keys` is a parameter of the pool; in the code every digest is a key |
| `ConcurrencyAssumption` (`ReplayExecutor`) | at least one slot | `max_concurrency` is positive |
| `PlansAssumption` (`ReplayExecutor`) | a planned context is a request of the same plan | the planner's validation, which the run `cases` checks of `TraceAnalyzer` (`PlansValid`); the analyzer takes only answers with token counts as contexts, and those are replayed |
| `NetsAssumption` (`KVTransfer`) | finitely many pairs of ranks, at least one; whoever leaves has a request | `handshake_target_ranks` of two fixed tensor-parallel sizes |
| `WorkloadsAssumption`, `LimitsAssumption` (`WorkloadDriver`) | numbers are not negative, rows and sessions are lists | `validateWorkload`, `validate` |
| `WorkloadsAssumption` (`NativeDriver`) | limits, lengths and delays are positive, predecessors are earlier rows | `native/inputs.py:117-128`, `native/conditions.py:40-55` |
| `RequestsAssumption` (`EngineScheduler`) | requests are numbered 1 to n | the order of the calls of `add_request` |
| `DeploymentsAssumption` (`EngineScheduler`) | one or two batches in flight; a block has a token, a prompt and `max_tokens` at least one | `max_concurrent_batches` without and with asynchronous scheduling (`scheduler.py:152`), pipeline parallelism being left out; `SamplingParams` and the input processor refuse zero |
| `Timed` (hypothesis of `ClockCorrect` only) | timers take time, every session has a row | nothing: the two findings and observations of section 4 are about workloads without it |

**`PagePool`.** The invariants are not inductive one by one: the free lists need the references
and keys, the index needs that unused pages are clean, capacity needs the lists. `SoundPool`
(type, free lists exact, index exact, unused pages clean) is; the first part of
`PagePool_proofs` proves that each pool operation preserves it under the condition its callers
establish, which is what the proofs about the engine cite. The second lifts this to
`PoolSpec => []IInv` (`PoolSound`) and derives `PoolCorrect` (`PoolExact`; the capacity by counting: idle,
unused and referenced pages partition the pool) and the action property `PoolStateCorrect`
(`StateSafe`: held content, stable answers, recorded losses). `OrderedDicts_proofs` has the
lemmas about `Kept` they rest on: its range, its order without repetition, its first element,
its length, how it splits over a concatenation.

`PoolRefines` proves `PoolSpec => ImplementsBlockQueue` step by step under the mapping `OneQueue`.
The head of the mapped queue is the page the pool takes (three cases, by which of the three
parts is the first that is not empty); touching and releasing take pages out of one part and
add them at its end or front, and `Kept` of a concatenation is the concatenation of what is
kept of its parts. References, keys and index are the same on both sides.

**`CacheEngine`.** Every property below is a consequence of one inductive invariant, `CInv`
(`EngineInvariant`). Each part is there because another one needs it:
* every pool is sound, and a reference count is the number of holders (`Counted`), where a
  request holds each of its pages once (`Shape`). Without it a release of one request could
  free a page another one reads;
* a held page without a key has one holder, and one with a key has the key of the block it is
  held for, which is committed (`Held`). This says at once that nobody sees the content of
  another and that an unfinished step is nobody else's;
* what the next step reads and what the step in flight writes is in hand (`Context`), which
  needs that required blocks only move forward (`RequiredGrows`) and that the recovery blocks
  of a start include what it requires (`RecoverySuffices`);
* every key stands for a committed block of the same domain (`Published`), so a hit never lies
  beyond what a request computed; and while nothing was replaced, every retained committed
  block still has a page (`Remembered`), which with `RecoveryRetained` makes every committed
  boundary recoverable;
* phases and token counts go together (`Progress`), and a step never fails for lost state or
  for an allocation (`Failed`): the lookup answers only with blocks in the cache, and
  `AllocateAllFacts` shows by induction along the loop that a pool with room for the missing
  blocks serves all of them.

The parts about pages take the pages, pools and positions as parameters. An event changes those
of one request and the pool of its domain; `Move` and `Keying` say what such a change may be, and
`MoveKeeps` and `KeyingKeeps` that it preserves the parts. Touching, allocating, publishing and
releasing are each shown to be such a change (`TouchMoves`, `AllocateMoves`, `PublishMoves`,
`ReleaseMoves`), from the lemmas of `PagePool_proofs` about a single call: induction along a loop
takes the least place at which a statement fails (`LeastNat`). Two requests with the same key have
the same content up to the end of the block, and hence each other's key before it (`SameKey`).

`ReferencesCorrect`, `ScheduleWhole`, `InputCorrect` and `StateCorrect` follow from `CInv`,
`SharingCorrect` from what each event does to the pages of each request (`Effect`).
`EngineRefines` maps every step to a step of `RequestLifecycle` and uses `CInv` before and after
it: the life cycle has no pages, so that a step does not end in `allocate`, that the adopted
prefix is shorter than the input and that a chunk ends behind the start are facts about pools.

`ColdCorrect` proves `Spec => []ColdFits`. `ColdFits` speaks of a refusal, and what forbids the
refusal was decided events earlier, when the request was let in; the strengthening is `Reserved`.
With one P slot, while a request runs that adopted nothing, its `Plan`, the pages that its whole
input needs at one time in every group, fits beside the pages in other hands (`Foreign`), and
it holds only blocks it has begun. The gate establishes this: for a cold request what it compares
with the free pages is the plan (`ColdLookup`). Other requests of the domain can only give
pages back while the slot is taken (`ForeignShrinks`). And it is enough: once the stale blocks
are back, what the request holds is part of what the step needs (`NeedsFacts`), a step within
the budget needs no more than the plan (`StepWithin`: the window, the step, and one block the
window enters half way, which is the `+ 1` of the code), so what is missing is there (`PlanLeft`).

**`PrefixLookup`.** `LookupGreatest` and `RetainedEnough` prove `HitGreatest` and
`RetainedSuffices` for all groups, lengths and caches; `Lookups` is the instance of
`LookupCases` at any length and cache. A group lowers a candidate to an aligned one and never
below a boundary at which all groups recover (`LowerFacts`), so a round does neither
(`RoundFacts`) and the loop, whose candidate shrinks until a round leaves it alone, ends at the
greatest (`HitFacts`).

**`ReplayExecutor`.** `SlotsCorrect` proves `Spec => []SlotsExact`. Its inductive invariant adds
to the books of the slots (`SlotBooks`) that the line is a sequence of distinct nodes (`Shape`:
otherwise a slot could be handed to a node twice) and that no node of a session that is not
under way holds or waits for one (`Quiet`). One lemma stands for each way a step touches the
slots: a node moves on without one (`MoveSound`), joins the line (`QueueSound`), or only its
session changes (`SessionSound`); in every other case slots change hands in `HandOn`, which
moves as many nodes from the head of the line to "woken" as it takes slots (`HandOnSound`, from
which `LeaveSound` and `SendSound` follow). `SlotsExact` also says that while a slot is free and
a node waits, some node is woken: whoever is woken wakes others when it runs, so nobody waits
for ever beside a free slot.

`FaultsCorrect` proves `Spec => []FaultsIsolated`. A verdict speaks of the whole lineage of a
node, a coroutine looks one node back. The invariant `FInv` closes the gap: a node has a prompt
or an outcome of its own only if the node it goes on from succeeded (`ContextHolds`), it is
skipped only for a fault in its lineage (`Explained`), and each node has at most one result
(`Reported`). A lineage is the least set that goes back from a node, so one with a success at
its end is free of faults (`SuccessClean`), and faults strike only before a node succeeds.

**`KVTransfer`.** `DestinationSafe` and `LoadsComplete` share the invariant `DInv`. A rank of D
counts answers (`pulls`) and does not look at whom they are from, so what must be shown is that
the count cannot run out early: `Owing(d, r)`, the ranks of P whose part of `r` the rank `d` has
not taken, is never larger than its count (`Counted`). That needs that an answer "ok" is given
only for what was written, that a request is in one place of one job (`JobsSound`), and that
requests not yet pulled have left no trace (`Unpulled`). Requests leave their blocks only when
nobody owes them anything; then no job has a part of them left (`Settled`), except those
aborted before they were scheduled, which own no blocks.

`SentOnceEach` proves `Spec => []SentOnce` from a second invariant, `SInv`. From its first step on
a request is tracked by each rank until the rank has reported it (`Entered`), blocks are recorded
once (`ReadySound`), and what is reported, or gone, has no ready entry left (`ReportsSound`). The
hard part is that a rank does not report a request twice. A pull that comes after the entry was
sent or expired makes a new entry under the same id, and tasks that wait on the old one go on
counting there; the code compares the count of whichever entry it holds and then removes the id.
`Counts` is why that never hits: for each entry, the parts sent and the D ranks that may still be
sent from it (`InHand`: not pulled yet, in the queue, or waiting on this entry) are together at
most `NeedSend`, and fewer for an entry that has been replaced, because the D rank whose pull
replaced it does not come back. So a replaced entry never reaches the number at which a
request is reported. One lemma (`SendStep`) covers both steps of a task that sends.

`SourceSafe` proves `Spec => []SourceHeld`. `SourceHeld` is about nets where no P rank is paired
with two D ranks (`Paired`), as the deployment pairs them; elsewhere it is false, because the late
pull of a second D rank puts an entry behind a task's back (section 4). The last invariant,
`HInv`, says of such nets that what a task waits for or sends from is the current entry
(`RefsCurrent`), tracked and marked as being sent (`InFlight`); then it does not expire, and by
`ReportsSound` the request is held. The pairing is needed in `Sole`, no two tasks have the same
request before them, and in `TakePullHeld`. TLC checked `HInv` on the nets of the run.

**`WorkloadDriver`.** `BooksCorrect` proves `Spec => []BooksSound`. `DriverInv` adds types and
counts sessions by launched and not collected ones (`SessionBooks`), as the code does; those
under way are among them, and only sessions whose rows are all complete are collected.
`SetPhase` covers every event of the loop in one lemma. `ClockCorrect` proves `Spec =>
NothingSkipped` if `Timed` holds: its additional invariant `SlotsUsed` says that, from the
visits of the rows on, each launched session that has not been collected is under way, so that
a slot free for `NothingSkipped` is one the driver also counts as free. Both need the minimum
of a set of numbers, which exists by well-foundedness.

**`NativeDriver`.** `TransfersCorrect` proves `Spec => []TransfersSound`. `TransfersInv` has
one story per request (`Story`): not yet prefilled, expected in a step that has not passed (and
if it is this one, in the domains still to be released), or released with the completion due in
the next step; and that no interval is older than the completion of a predecessor (`Ordered`).

`ProgressCorrect` proves `Spec => []NeverStalled`. A domain may idle after a preemption, so one
round without progress proves nothing; two do. After the first, no transfer is under way and
each domain has nothing running or has used up its preemption (`SecondRound`); in the second,
each domain visited has nothing left. At its end, everything submitted is complete, not all is
(`WorkLeft`), and the least row not submitted has only earlier predecessors, which are
complete: it was submittable and a client was free, so it would have been submitted. Progress
of a scheduler is taken from the contract in `Decisions`, which the run `engine_scheduler`
checks of the deployed one.

`ResultCorrect` proves `Spec => []ResultValid`. `RowsWritten` describes the rows of every round
by what `RoundObservation` sees of it: whole rounds before this one, a prefix of the domains in this
one, in increasing order. It has to hold between any two calls, because an exception may come there.

**`EngineScheduler`.** `FencesCorrect`, `BlocksCorrect`, `CountersCorrect` and `OrderCorrect`
prove the four invariants of the run from one inductive invariant, `SInv`
(`SchedulerInvariant`), for any number of requests, blocks and tokens. TLC checked it before on
384 deployments of three requests (1.6 million states). Its parts need each other:
* `Lines`: who runs is in `running`, once; who waits or loads is in one of the other two lines;
  only loads are skipped. A preemption takes the last of a line and `Leave` removes a request
  from all, so nothing else holds if a request stands twice;
* `Ordered`: of the requests without a load, those running came before those waiting, in each
  line in the order of arrival, and who has not come yet comes later. A preempted request may
  go to the front of the line only because it is the last of those running;
* `Books`: the blocks free, held and deferred are all there are, who runs or transfers has some.
  Every change is a move between two of the three, and no step takes more than are free;
* `Progress` and `Flight`: the placeholders of a request are the batches in flight that sample
  it; a running request with a placeholder has computed everything but the last token, which
  is why `SureToEnd` stops it in time. A request in a batch in flight runs or has left, except
  that the planning of a second batch may preempt one of the first (`Late`). It waits then
  until the result of the first is in, for nothing is planned with two batches in flight;
* `Fences`: for a consumer with two batches, the last step of a request in a batch is not
  before that batch, no fence lies beyond the last step, and the blocks a batch writes are held
  or behind a fence, never both. That the fence of a free is the *last* step scheduled and not
  the one the request was in is what makes this inductive when two batches share a request.

Lines, blocks and batches change in loops. `LoopInduct` is the induction along them: what a
round keeps and holds at the start holds at the end, by the least round at which it fails.
`Blocks` counts pairs instead of adding up lengths, so that a move of blocks is a fact about
the cardinality of finite sets. Within `schedule()` the invariant is that of a batch being built
(the tokens given so far are not yet computed), and each round keeps it: a request grows
(`Give`), is preempted, is passed over, loads, starts or resumes.

**Only model-checked.**
* `InputExact`: the totals are folds over the intervals, and facts about a fold need induction
  with an operator as a parameter.
* The plans of `TraceAnalyzer` (`PlansValid`, `SpacingKept`): recursive operators, in whose
  module the prover has no SMT backend.
* `DriverContract`; `Accepted` and `NothingLeft` of `AscendReplay`, which need that a step with
  work in it makes progress.
* `TraceSound`, `CycleIsReal`.
* Liveness (`Terminates`, `Ends`, `TasksEnd`, `Completes`, `SourceReleased`), which the prover
  cannot treat.

## 6. Not modelled

Parsing, segment and token hashing, byte sizes of pages, result files, reports and pages are
data formats without evolving state. The native schedulers are external programs, modelled by
what `run_capacity` relies on; `EngineScheduler` shows that the deployed one keeps it. Process
limits (512 MiB, 100,000 events, 100 million tokens) stop a run with an error and are left out.
`CANCEL` of a request whose step or transfer is in flight is rejected by the engine and
therefore no step here.

Of the vLLM scheduler: prefix hits (see `PrefixLookup`, `BlockQueue`), several cache groups,
speculative decoding, encoders, LoRA, structured output, streaming, priorities, pauses and
invalid blocks, which the experiments do not use. Of the connector: where bytes go, pipeline
parallelism, the bootstrap server. Of the replay client: prompt synthesis, HTTP, sampling of
sessions, files. The web service serves one request at a time and keeps no state between
them.

Most lines of the repository are none of the above: copies of the vLLM files in every stage
(`scheduler.py` alone several times, `arg_utils.py`, `envs.py`), which the map counts once,
argument parsing, and generated reports. The share of lines the map covers stays small for
that reason.

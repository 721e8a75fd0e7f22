--------------------------- MODULE EngineScheduler ---------------------------
(***************************************************************************)
(* The vLLM scheduler the deployments run (schedule(), update_from_output, *)
(* finish_requests) under the engine loop that keeps up to Depth batches   *)
(* in flight: a batch is scheduled before the result of the one before it  *)
(* is known.  Requests have distinct prompts (no prefix hits) and one      *)
(* full-attention cache group; blocks are counted, not named.  A remote    *)
(* request loads its prompt through the connector of a consumer; a         *)
(* producer keeps the blocks of a finished request until they were sent.   *)
(***************************************************************************)
EXTENDS OrderedDicts, SequencesExt, FiniteSetsExt

CONSTANTS
  Requests,     \* numbered in the order they come in
  Deployments   \* the engines tried, each with what comes in: records of
                \*   prompt, max    request -> its prompt tokens, its max_tokens
                \*   remote         the requests with do_remote_prefill
                \*   producer       the freeing of finished requests is delayed
                \*   depth          max_concurrent_batches
                \*   blocks, size, batched, seqs, mark
                \*   aborts, stops  bounds: who may be aborted, who may stop early

ASSUME RequestsAssumption == IsFiniteSet(Requests) /\ Requests = 1 .. Cardinality(Requests)

(* With asynchronous scheduling two batches are in flight, otherwise one.  *)
ASSUME DeploymentsAssumption ==
  \A d \in Deployments :
    /\ d.prompt \in [Requests -> Nat \ {0}] /\ d.max \in [Requests -> Nat \ {0}]
    /\ d.remote \subseteq Requests /\ d.aborts \subseteq Requests
    /\ d.depth \in {1, 2} /\ d.blocks \in Nat /\ d.size \in Nat \ {0}
    /\ d.batched \in Nat /\ d.seqs \in Nat /\ d.mark \in Nat

VARIABLES
  on,       \* the deployment of this run
  e,        \* the scheduler, see Init
  queue,    \* the batches in flight, oldest first: request -> is a token sampled
  done      \* loads and sends the worker finished and has not reported

vars == <<on, e, queue, done>>

Prompt == on.prompt
MaxTokens == on.max
Remote == on.remote
Producer == on.producer
Depth == on.depth
NumBlocks == on.blocks
BlockSize == on.size
MaxBatched == on.batched      \* max_num_scheduled_tokens
MaxSeqs == on.seqs            \* max_num_running_reqs
Watermark == on.mark          \* watermark_blocks

Init ==
  /\ on \in Deployments
  /\ e = [ status   |-> [r \in Requests |-> "out"],
           running  |-> <<>>, waiting |-> <<>>, skipped |-> <<>>,
           computed |-> [r \in Requests |-> 0],   \* num_computed_tokens
           tokens   |-> Prompt,                   \* num_tokens
           coming   |-> [r \in Requests |-> 0],   \* num_output_placeholders
           held     |-> [r \in Requests |-> 0],   \* len(req_to_blocks[r])
           free     |-> NumBlocks,
           deferred |-> <<>>,        \* deferred_frees: [fence, n, of]
           ahead    |-> 0,           \* sched_step_seq - processed_step_seq
           last     |-> [r \in Requests |-> 0],   \* last_sched_seq, likewise
           prefills |-> {},          \* _inflight_prefills
           pulled   |-> {},          \* whose do_remote_prefill is used up
           moving   |-> {},          \* loads and sends under way
           recved   |-> {} ]         \* finished_recving_kv_req_ids
  /\ queue = <<>> /\ done = {}

Async == Depth > 1
Consumer == Remote # {}
Defer == Async /\ Consumer   \* defer_block_free
-----------------------------------------------------------------------------
(* What n calls of Step make of s; a loop that may end earlier changes      *)
(* nothing in the rounds that are left.                                    *)
Loop(Step(_, _), s, n) ==
  LET after[i \in 0 .. n] == IF i = 0 THEN s ELSE Step(after[i - 1], i)
  IN  after[n]

(* The number of blocks in all lists, f having the length of each list. *)
Blocks(f) == Cardinality(UNION {{x} \X (1 .. f[x]) : x \in DOMAIN f})

(* Blocks that r still lacks for its first n tokens. *)
Need(s, r, n) == Max({(n + BlockSize - 1) \div BlockSize - s.held[r], 0})

(* Mutant of Fence: the step being scheduled or executed last is not awaited. *)
FenceEarly(s) == s.ahead - 1
Fence(s) == s.ahead

(* _free_request_blocks: later, if a batch in flight may still write them. *)
FreeRequestBlocks(s, r) ==
  LET n == s.held[r]
      out == [s EXCEPT !.held[r] = 0]
  IN  IF ~Defer \/ s.last[r] = 0 THEN [out EXCEPT !.free = @ + n]
      ELSE IF n = 0 THEN s
      ELSE [out EXCEPT !.deferred = Append(@, [fence |-> Fence(s), n |-> n, of |-> r])]

(* Mutant of Passed: one more step is awaited. *)
PassedLate(d) == d.fence < 0
Passed(d) == d.fence <= 0

DrainOne(s, i) ==
  IF s.deferred = <<>> \/ ~Passed(Head(s.deferred)) THEN s
  ELSE [s EXCEPT !.free = @ + Head(s.deferred).n, !.deferred = Tail(@)]
Drain(s) == Loop(DrainOne, s, Len(s.deferred))   \* _drain_deferred_frees

(***************************************************************************)
(* What schedule() works on: the scheduler, the tokens it may still give,  *)
(* the batch being built, whom it preempted, and the waiting requests it   *)
(* passed over (skipped again when it is done).                            *)
(***************************************************************************)
Begun == [s |-> e, budget |-> MaxBatched, batch |-> <<>>, preempted |-> {}, blocked |-> <<>>]

(* Mutant of Back: a preempted request queues up again. *)
BackLast(s, r) == Append(s.waiting, r)
Back(s, r) == <<r>> \o s.waiting

(* The last running request loses its blocks and waits first in line. *)
Preempted(s) ==
  LET r == Last(s.running)
  IN  FreeRequestBlocks(
        [s EXCEPT !.running = Front(@), !.waiting = Back(s, r), !.status[r] = "waiting",
                  !.computed[r] = 0, !.prefills = @ \ {r}], r)

(* Preempt until r can grow to n tokens, or is preempted itself. *)
PreemptOne(w, r, n) ==
  IF Need(w.s, r, n) <= w.s.free \/ r \in w.preempted THEN w
  ELSE [w EXCEPT !.s = Preempted(w.s), !.preempted = @ \cup {Last(w.s.running)}]
MakeRoom(w, r, n) == Loop(LAMBDA u, j : PreemptOne(u, r, n), w, Len(w.s.running))

Grow(s, r, n) == [s EXCEPT !.free = @ - Need(s, r, n), !.held[r] = @ + Need(s, r, n)]

(* k more tokens of r go into the batch being built. *)
Give(w, s, r, k) ==
  [w EXCEPT !.s = Grow(s, r, s.computed[r] + k), !.budget = @ - k,
            !.batch = [q \in DOMAIN @ \cup {r} |-> IF q = r THEN k ELSE @[q]]]
-----------------------------------------------------------------------------
(* Mutant of SureToEnd: the placeholder of the batch in flight is forgotten. *)
SureToEndNever(s, r) == FALSE
(* The batch in flight is the one in which r reaches max_tokens. *)
SureToEnd(s, r) ==
  s.coming[r] > 0 /\ s.computed[r] + 2 - s.coming[r] >= Prompt[r] + MaxTokens[r]

(* schedule(), first part: the running requests in turn. *)
ContinueOne(w, i) ==
  LET s == w.s
      r == s.running[i]
      k == Min({s.tokens[r] + s.coming[r] - s.computed[r], w.budget})
      room == MakeRoom(w, r, s.computed[r] + k)
  IN  IF i > Len(s.running) \/ w.budget = 0 THEN w
      ELSE IF SureToEnd(s, r) \/ k = 0 THEN w
      ELSE IF r \in room.preempted THEN room ELSE Give(room, room.s, r, k)
Continue(w) == Loop(ContinueOne, w, Len(w.s.running))

(* What the prefills and loads in flight still need. *)
Reserved(s) == Blocks([r \in s.prefills |-> Need(s, r, s.tokens[r])])

(* Mutant of Mark: the watermark also keeps the only request out. *)
MarkAlways(s) == Watermark
Mark(s) == IF s.running # <<>> THEN Watermark ELSE 0

(* allocate_slots for a waiting request: all of it must fit, then n tokens. *)
Fits(s, r, n, reserved) ==
  /\ Need(s, r, s.tokens[r]) + Mark(s) <= s.free
  /\ Need(s, r, n) + Mark(s) <= s.free - reserved

(* A load that arrived; the last token of a full prompt is computed again. *)
Promote(s, r) ==
  IF r \notin s.recved THEN s
  ELSE [s EXCEPT !.status[r] = "waiting", !.recved = @ \ {r},
                 !.computed[r] = Min({@, s.tokens[r] - 1})]

(* The first request in line leaves the line. *)
Popped(s) ==
  IF s.skipped # <<>> THEN [s EXCEPT !.skipped = Tail(@)] ELSE [s EXCEPT !.waiting = Tail(@)]

(* schedule(), second part: skipped and waiting requests, while they fit. *)
AdmitOne(w, i) ==
  LET line == w.s.skipped \o w.s.waiting
      r == Head(line)
      s == Promote(w.s, r)
      rest == Popped(s)
      load == r \in Remote \ s.pulled
      k == Min({s.tokens[r] - s.computed[r], w.budget})
  IN  IF line = <<>> \/ w.budget = 0 \/ Len(w.s.running) >= MaxSeqs THEN w
      ELSE CASE s.status[r] = "remote" ->
                  [w EXCEPT !.s = rest, !.blocked = Append(@, r)]
             [] s.status[r] # "remote" /\ load /\ Fits(s, r, s.tokens[r], Reserved(s)) ->
                  [w EXCEPT !.s = [Grow(rest, r, s.tokens[r]) EXCEPT
                                     !.status[r] = "remote", !.computed[r] = s.tokens[r],
                                     !.prefills = @ \cup {r}, !.pulled = @ \cup {r},
                                     !.moving = @ \cup {r}],
                            !.blocked = Append(@, r)]
             [] s.status[r] # "remote" /\ ~load /\ Fits(s, r, s.computed[r] + k, 0) ->
                  Give(w, [rest EXCEPT !.running = Append(@, r), !.status[r] = "running",
                                       !.prefills = IF s.computed[r] + k < s.tokens[r]
                                                    THEN @ \cup {r} ELSE @], r, k)
             [] OTHER -> [w EXCEPT !.s = s]
Admit(w) ==
  LET u == Loop(AdmitOne, w, Len(w.s.skipped) + Len(w.s.waiting))
  IN  [u EXCEPT !.s.skipped = u.blocked \o @]

(* Mutant of Cursor: it moves when the result is in. *)
CursorLate(w, r) ==
  IF queue = <<>> THEN w.s.computed[r] + w.batch[r] ELSE w.s.computed[r]
Cursor(w, r) == w.s.computed[r] + w.batch[r]

(* Who gets a token in the batch: its whole context is computed. *)
Sampled(w) == {r \in DOMAIN w.batch : Cursor(w, r) >= w.s.tokens[r] + w.s.coming[r]}

(* _update_after_schedule, with the placeholders of AsyncScheduler. *)
AfterSchedule(w) ==
  LET s == w.s
      ids == DOMAIN w.batch
      ahead == IF Defer /\ ids # {} THEN s.ahead + 1 ELSE s.ahead
      coming(r) == IF Async /\ r \in Sampled(w) THEN s.coming[r] + 1 ELSE s.coming[r]
  IN  [s EXCEPT !.ahead = ahead, !.prefills = @ \ Sampled(w),
                !.computed = [r \in Requests |-> IF r \in ids THEN Cursor(w, r) ELSE @[r]],
                !.last = [r \in Requests |-> IF Defer /\ r \in ids THEN ahead ELSE @[r]],
                !.coming = [r \in Requests |-> coming(r)]]

Scheduled == LET w == Continue(Begun) IN IF w.preempted = {} THEN Admit(w) ELSE w

Live == {r \in Requests : e.status[r] \notin {"out", "gone"}}   \* self.requests

TakeBatch ==
  LET w == Scheduled
  IN  /\ e' = AfterSchedule(w)
      /\ queue' = Append(queue, [r \in DOMAIN w.batch |-> r \in Sampled(w)])

(* The loop schedules while there is room in its queue, unless an empty    *)
(* batch waits in it.                                                      *)
Schedule ==
  /\ Live # {} /\ Len(queue) < Depth
  /\ queue # <<>> => DOMAIN Last(queue) # {}
  /\ TakeBatch /\ UNCHANGED <<on, done>>
-----------------------------------------------------------------------------
Leave(s, r) ==   \* r is in no queue any more
  [s EXCEPT !.running = Without(@, r), !.waiting = Without(@, r), !.skipped = Without(@, r),
            !.prefills = @ \ {r}]
FreeBlocks(s, r) == FreeRequestBlocks([s EXCEPT !.status[r] = "gone"], r)

(* A sampled token is appended; the request stops at max_tokens or earlier. *)
Output(s, r, stops) ==
  LET more == [s EXCEPT !.tokens[r] = @ + 1, !.coming[r] = Max({@ - 1, 0})]
      full == more.tokens[r] - Prompt[r] >= MaxTokens[r]
  IN  IF s.status[r] \in {"held", "gone"} THEN s
      ELSE IF full /\ Producer /\ s.held[r] > 0
           THEN [Leave(more, r) EXCEPT !.status[r] = "held", !.moving = @ \cup {r}]
      ELSE IF full \/ stops THEN FreeBlocks(Leave(more, r), r)
      ELSE more

(* A load or a send is over: promote it later, or free what waited for it. *)
Transferred(s, r) ==
  IF s.status[r] = "remote" THEN [s EXCEPT !.recved = @ \cup {r}] ELSE FreeBlocks(s, r)

(* For all requests, one after the other. *)
Outputs(s, sampled, stops) ==
  Loop(LAMBDA u, r : IF r \in sampled THEN Output(u, r, r \in stops) ELSE u,
       s, Cardinality(Requests))
Transfers(s, over) ==
  Loop(LAMBDA u, r : IF r \in over THEN Transferred(u, r) ELSE u, s, Cardinality(Requests))

(* One more non-empty step is processed; its blocks may be freed. *)
Nearer(d) == [d EXCEPT !.fence = @ - 1]
Processed(s, batch) ==
  IF ~Defer \/ DOMAIN batch = {} THEN s
  ELSE Drain([s EXCEPT !.ahead = @ - 1,
                       !.last = [r \in Requests |-> Max({@[r] - 1, 0})],
                       !.deferred = [i \in DOMAIN @ |-> Nearer(@[i])]])

(* update_from_output for the oldest batch. *)
UpdateFromOutput ==
  /\ queue # <<>>
  /\ LET batch == Head(queue)
         sampled == {r \in DOMAIN batch : batch[r]}
     IN  \E stops \in SUBSET (sampled \cap on.stops) :
           e' = Transfers(Outputs(Processed(e, batch), sampled, stops), done)
  /\ queue' = Tail(queue) /\ done' = {} /\ UNCHANGED on

(* Mutant of KeepsLoading: a load that is aborted gives its blocks back. *)
KeepsLoadingNot(r) == FALSE
KeepsLoading(r) == e.status[r] = "remote" /\ r \notin e.recved

(* finish_requests: the blocks a load writes into are freed when it is over. *)
Abort(r) ==
  LET s == [Leave(e, r) EXCEPT !.recved = @ \ {r}]
  IN  /\ e.status[r] \in {"waiting", "remote", "running"}
      /\ e' = IF KeepsLoading(r) THEN [s EXCEPT !.status[r] = "held"] ELSE FreeBlocks(s, r)
      /\ UNCHANGED <<on, queue, done>>

AddRequest(r) ==
  /\ e.status[r] = "out" /\ \A q \in Requests : q < r => e.status[q] # "out"
  /\ e' = [e EXCEPT !.status[r] = "waiting", !.waiting = Append(@, r)]
  /\ UNCHANGED <<on, queue, done>>

(* External: the worker sees the end of a transfer. *)
Transfer(r) ==
  /\ r \in e.moving
  /\ e' = [e EXCEPT !.moving = @ \ {r}] /\ done' = done \cup {r}
  /\ UNCHANGED <<on, queue>>

Next ==
  \/ Schedule \/ UpdateFromOutput
  \/ \E r \in Requests : AddRequest(r) \/ Transfer(r)
  \/ \E r \in on.aborts : Abort(r)

Spec == Init /\ [][Next]_vars

(* The engine loop goes on while it has requests or batches (this is weak  *)
(* fairness, with what enables a step written out), and transfers end.     *)
Stepping == Live # {} \/ queue # <<>>
Fairness ==
  /\ []<>~Stepping \/ []<><<Schedule \/ UpdateFromOutput>>_vars
  /\ \A r \in Requests : WF_vars(Transfer(r))
FairSpec == Spec /\ Fairness
-----------------------------------------------------------------------------
(***************************************************************************)
(* Blocks that a batch in flight writes are not free and nobody else's:    *)
(* the request still has them, or they wait behind a fence that the batch  *)
(* passes first.  No load can be given them (scheduler.py, defer_block_    *)
(* free): aborts, early stops and preemptions come while batches run.      *)
(***************************************************************************)
WritesFenced ==
  Defer => \A i \in DOMAIN queue : \A r \in DOMAIN queue[i] :
    LET steps == Cardinality({j \in 1..i : DOMAIN queue[j] # {}})
        fenced == \E d \in Range(e.deferred) : d.of = r /\ d.fence >= steps
    IN  (e.held[r] > 0) # fenced

(***************************************************************************)
(* Every block is free, held or deferred, once: no order of abort, arrival *)
(* of a load, preemption and result frees any twice or forgets one, and a  *)
(* transfer under way has its blocks.                                      *)
(***************************************************************************)
BlocksKept ==
  /\ e.free >= 0
  /\ e.free + Blocks(e.held) + Blocks([i \in DOMAIN e.deferred |-> e.deferred[i].n]) = NumBlocks
  /\ \A r \in Requests : e.status[r] \in {"out", "gone"} => e.held[r] = 0
  /\ \A r \in e.moving : e.held[r] > 0

(***************************************************************************)
(* The placeholders of a request are its tokens in flight, so a second     *)
(* batch in flight never computes beyond max_tokens.                       *)
(***************************************************************************)
TokensInFlight ==
  \A r \in Live : e.status[r] \in {"waiting", "running"} =>
    /\ Async => e.coming[r] = Cardinality({i \in DOMAIN queue :
                                             r \in DOMAIN queue[i] /\ queue[i][r]})
    /\ e.tokens[r] + e.coming[r] <= Prompt[r] + MaxTokens[r]

(***************************************************************************)
(* Requests without a load are served in the order they came in, however   *)
(* they are preempted and resumed: nobody overtakes.                       *)
(***************************************************************************)
InOrder ==
  LET line == e.running \o e.skipped \o e.waiting
  IN  \A i, j \in DOMAIN line :
        i < j /\ line[i] \notin Remote /\ line[j] \notin Remote => line[i] < line[j]

(***************************************************************************)
(* Every request that came in gets out, whatever shortage of blocks,       *)
(* preemptions, deferred frees and loads come together.                    *)
(***************************************************************************)
Completes == \A r \in Requests : e.status[r] # "out" ~> e.status[r] = "gone"

(***************************************************************************)
(* What the capacity driver takes schedule() for (NativeDriver.Decisions): *)
(* nothing is admitted in a step that preempts; with work and neither a    *)
(* batch nor a transfer to wait for a step schedules something or preempts *)
(* all there is, and so not twice in a row.                                *)
(***************************************************************************)
In(s, where) == {r \in Requests : s.status[r] = where}
DriverContract ==
  [][Schedule =>
       LET ids == DOMAIN Last(queue')
           preempted == In(e, "running") \ In(e', "running")
       IN  /\ preempted # {} => ids \subseteq In(e, "running")
           /\ Cardinality(In(e', "running")) <= MaxSeqs
           /\ MapThenSumSet(LAMBDA r : e'.computed[r] - e.computed[r], ids) <= MaxBatched
           /\ ids = {} /\ queue = <<>> /\ In(e, "waiting") \cup In(e, "running") # {} =>
                \/ In(e', "held") \cup In(e', "remote") # {}
                \/ preempted # {} /\ In(e', "running") = {}]_vars

(***************************************************************************)
(* A request never counts tokens as computed whose blocks it lost.         *)
(***************************************************************************)
ComputedHeld ==
  \A r \in Live : e.status[r] # "held" => e.computed[r] <= BlockSize * e.held[r]

(***************************************************************************)
(* The two counters a step is planned from stay true under preemption and  *)
(* batches in flight: tokens to come, and tokens computed.                 *)
(***************************************************************************)
CountersTrue == TokensInFlight /\ ComputedHeld
=============================================================================

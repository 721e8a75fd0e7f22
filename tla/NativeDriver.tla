---------------------------- MODULE NativeDriver ----------------------------
(***************************************************************************)
(* The capacity driver over native schedulers (run_capacity): logical      *)
(* rounds of three phases.  The vLLM schedulers are external: schedule()   *)
(* may preempt running requests, resume or admit waiting ones at any       *)
(* cached prefix, and give each any share of the token budget; any of      *)
(* their calls may raise.  OfflineTransfer keeps the references of a       *)
(* finished request until the driver reports the transfer.                 *)
(***************************************************************************)
EXTENDS InputAccounting

CONSTANTS
  Workloads,   \* sequences of rows [domain, length, after, delay]; the domains
               \* are 1 .. NDomains
  NDomains,
  MaxInFlight, \* client_max_in_flight
  MaxTokens,   \* p_max_num_batched_tokens
  MaxSeqs,     \* p_max_num_seqs
  MaxSteps

(* load_replay_workload and conditions check: positive limits and delays,  *)
(* some input in every row, and only earlier rows named as predecessors.   *)
ASSUME WorkloadsAssumption ==
  /\ {NDomains, MaxInFlight, MaxTokens, MaxSeqs, MaxSteps} \subseteq Nat \ {0}
  /\ \A w \in Workloads :
       /\ w \in Seq(Range(w))
       /\ \A r \in DOMAIN w : /\ w[r].domain \in 1 .. NDomains
                             /\ {w[r].length, w[r].delay} \subseteq Nat \ {0}
                             /\ w[r].after \subseteq 1 .. r - 1

VARIABLES
  rows,        \* the requests of the workload
  step, stage, domain,
  place,       \* where the scheduler of its domain has each request: "out",
               \* "waiting", "running", "pending" (in the connector) or "freed"
  cursor,      \* num_computed_tokens
  submitted, clientActive, clientCompleted,
  transferAt, clientAt,   \* transfer_completion_at, client_completion_at
  intervals,   \* completed_input_intervals of each record
  adopted,     \* initial_adopted_tokens, or Never
  prefillStep, releaseStep, completeStep,   \* steps in the records, or Never
  preempted,   \* requests that were preempted
  log,         \* steps.jsonl: <<step, domain>>
  scheduledAny, emptySteps,
  idle,        \* domains whose last schedule() only preempted
  outcome      \* "running", "complete", "stalled", "max_steps" or "raised"

sched == <<place, cursor, preempted, idle>>
client == <<submitted, clientActive, clientCompleted>>
times == <<transferAt, clientAt>>
records == <<intervals, adopted, prefillStep, releaseStep, completeStep>>
rounds == <<log, scheduledAny, emptySteps>>
vars == <<rows, step, stage, domain, sched, client, times, records, rounds, outcome>>

Never == -1
Ids == DOMAIN rows
In(d, where) == {r \in Ids : rows[r].domain = d /\ place[r] = where}
Pending == {r \in Ids : place[r] = "pending"}

Init ==
  /\ rows \in Workloads
  /\ step = 1 /\ stage = "release" /\ domain = 1
  /\ place = [r \in Ids |-> "out"] /\ cursor = [r \in Ids |-> 0]
  /\ submitted = {} /\ clientActive = {} /\ clientCompleted = {}
  /\ transferAt = <<>> /\ clientAt = <<>>
  /\ intervals = [r \in Ids |-> <<>>]
  /\ adopted = [r \in Ids |-> Never] /\ prefillStep = adopted
  /\ releaseStep = adopted /\ completeStep = adopted
  /\ preempted = {} /\ idle = {}
  /\ log = <<>> /\ scheduledAny = FALSE /\ emptySteps = 0
  /\ outcome = "running"

NextDomain(after) ==
  IF domain < NDomains THEN domain' = domain + 1 /\ UNCHANGED stage
  ELSE domain' = 1 /\ stage' = after
-----------------------------------------------------------------------------
(* Phase 1: the due transfers of a domain release their references. *)
DueTransfers(d) == {r \in In(d, "pending") : transferAt[r] <= step}
ReleaseTransfers ==
  LET due == DueTransfers(domain)
  IN  /\ stage = "release"
      /\ place' = [r \in Ids |-> IF r \in due THEN "freed" ELSE place[r]]
      /\ releaseStep' = [r \in Ids |-> IF r \in due THEN step ELSE releaseStep[r]]
      /\ clientAt' = [r \in DOMAIN clientAt \cup due |->
                         IF r \in due THEN step + 1 ELSE clientAt[r]]
      /\ transferAt' = Restrict(transferAt, DOMAIN transferAt \ due)
      /\ NextDomain("clients")
      /\ UNCHANGED <<rows, step, cursor, preempted, idle, client, intervals, adopted,
                     prefillStep, completeStep, rounds, outcome>>

CompleteClients ==
  LET due == {r \in DOMAIN clientAt : clientAt[r] <= step}
  IN  /\ stage = "clients" /\ stage' = "submit"
      /\ clientActive' = clientActive \ due
      /\ clientCompleted' = clientCompleted \cup due
      /\ completeStep' = [r \in Ids |-> IF r \in due THEN step ELSE completeStep[r]]
      /\ clientAt' = Restrict(clientAt, DOMAIN clientAt \ due)
      /\ UNCHANGED <<rows, step, domain, sched, submitted, transferAt, intervals, adopted,
                     prefillStep, releaseStep, rounds, outcome>>

(* Mutant of Submittable: a dependency is met when its P work is released. *)
SubmittableEarly ==
  {r \in Ids \ submitted :
     \A q \in rows[r].after : q \in clientCompleted \cup DOMAIN clientAt}

(* Phase 2: the ready rows in their order while a client slot is free. *)
Submittable == {r \in Ids \ submitted : rows[r].after \subseteq clientCompleted}
SubmitNext ==
  LET r == Min(Submittable)
  IN  /\ stage = "submit"
      /\ Submittable # {} /\ Cardinality(clientActive) < MaxInFlight
      /\ place' = [place EXCEPT ![r] = "waiting"]
      /\ submitted' = submitted \cup {r}
      /\ clientActive' = clientActive \cup {r}
      /\ UNCHANGED <<rows, step, stage, domain, cursor, preempted, idle, clientCompleted,
                     times, records, rounds, outcome>>
EndSubmit ==
  /\ stage = "submit"
  /\ Submittable = {} \/ Cardinality(clientActive) >= MaxInFlight
  /\ IF clientCompleted = Ids THEN outcome' = "complete" /\ UNCHANGED stage
     ELSE stage' = "schedule" /\ UNCHANGED outcome
  /\ UNCHANGED <<rows, step, domain, sched, client, times, records, rounds>>
-----------------------------------------------------------------------------
(***************************************************************************)
(* External: what schedule() of domain d may decide.  Nothing is admitted  *)
(* in a step that preempts; a scheduler with requests and no transfer      *)
(* pending idles only after a preemption, and not twice in a row.          *)
(***************************************************************************)
Start(b, r) == IF place[r] = "running" THEN cursor[r] ELSE b.hit[r]
Decisions(d) ==
  LET running == In(d, "running")
      waiting == In(d, "waiting")
      hits == 0 .. Max({rows[r].length : r \in Ids}) - 1
      shares == UNION {[ids -> 1 .. MaxTokens] : ids \in SUBSET (running \cup waiting)}
  IN  {b \in [preempt : SUBSET running, hit : [waiting -> hits], tokens : shares] :
         LET ids == DOMAIN b.tokens
         IN  /\ b.preempt \cap ids = {}
             /\ b.preempt # {} => ids \subseteq running
             /\ Cardinality(ids \cup (running \ b.preempt)) <= MaxSeqs
             /\ SumFunction(b.tokens) <= MaxTokens
             /\ \A r \in ids : Start(b, r) + b.tokens[r] <= rows[r].length
             /\ ids = {} /\ running \cup waiting # {} =>
                  In(d, "pending") # {} \/ (b.preempt # {} /\ d \notin idle)}

(* Mutant of LogRow: only the domains that scheduled something. *)
LogBusy(b) == IF DOMAIN b.tokens = {} THEN log ELSE Append(log, <<step, domain>>)
LogRow(b) == Append(log, <<step, domain>>)

(* Phase 3: one schedule() and update_from_output() of a domain. *)
AdvanceDomain ==
  \E b \in Decisions(domain) :
    LET ids == DOMAIN b.tokens
        after == [r \in ids |-> Start(b, r) + b.tokens[r]]
        finished == {r \in ids : after[r] >= rows[r].length}
        interval(r) == ScheduledInterval(after[r], b.tokens[r], rows[r].length, step)
    IN  /\ stage = "schedule"
        /\ place' = [r \in Ids |-> IF r \in finished THEN "pending"
                                   ELSE IF r \in ids THEN "running"
                                   ELSE IF r \in b.preempt THEN "waiting" ELSE place[r]]
        /\ cursor' = [r \in Ids |-> IF r \in ids THEN after[r]
                                    ELSE IF r \in b.preempt THEN 0 ELSE cursor[r]]
        /\ preempted' = preempted \cup b.preempt
        /\ idle' = IF ids = {} /\ b.preempt # {} THEN idle \cup {domain} ELSE idle \ {domain}
        /\ adopted' = [r \in Ids |-> IF r \in ids /\ adopted[r] = Never
                                     THEN interval(r).start ELSE adopted[r]]
        /\ intervals' = [r \in Ids |->
             IF r \in ids /\ interval(r).end > interval(r).start
             THEN Append(intervals[r], interval(r)) ELSE intervals[r]]
        /\ log' = LogRow(b)
        /\ prefillStep' = [r \in Ids |-> IF r \in finished THEN step ELSE prefillStep[r]]
        /\ transferAt' = [r \in DOMAIN transferAt \cup finished |->
             IF r \in finished THEN step + rows[r].delay ELSE transferAt[r]]
        /\ scheduledAny' = (scheduledAny \/ ids # {})
        /\ NextDomain("end")
        /\ UNCHANGED <<rows, step, client, clientAt, releaseStep, completeStep,
                       emptySteps, outcome>>

(* Mutant of Moving: transfers on their way are forgotten. *)
MovingScheduled == scheduledAny \/ DOMAIN clientAt # {}
Moving == scheduledAny \/ Pending # {} \/ DOMAIN clientAt # {}

(* The round is over: two rounds without progress, or the last one, end it. *)
EndRound ==
  /\ stage = "end" /\ stage' = "release"
  /\ emptySteps' = IF Moving THEN 0 ELSE emptySteps + 1
  /\ outcome' = IF emptySteps' >= 2 THEN "stalled"
                ELSE IF step = MaxSteps THEN "max_steps" ELSE "running"
  /\ step' = IF outcome' = "running" THEN step + 1 ELSE step
  /\ scheduledAny' = FALSE
  /\ UNCHANGED <<rows, domain, sched, client, times, records, log>>

(* A call of a scheduler raises; the records stay as they are. *)
SchedulerRaises ==
  /\ \/ stage = "release" /\ DueTransfers(domain) # {}
     \/ stage = "submit" /\ Submittable # {} /\ Cardinality(clientActive) < MaxInFlight
     \/ stage = "schedule"
  /\ outcome' = "raised"
  /\ UNCHANGED <<rows, step, stage, domain, sched, client, times, records, rounds>>

Next ==
  /\ outcome = "running"
  /\ ReleaseTransfers \/ CompleteClients \/ SubmitNext \/ EndSubmit
     \/ AdvanceDomain \/ EndRound \/ SchedulerRaises

Spec == Init /\ [][Next]_vars
-----------------------------------------------------------------------------
(***************************************************************************)
(* The connector and the driver agree on the transfers under way: exactly  *)
(* the pending requests have a due step (transfer_completion_at[...] never *)
(* fails), and exactly the released ones a completion coming.              *)
(***************************************************************************)
TransfersTracked ==
  /\ DOMAIN transferAt = Pending
  /\ DOMAIN clientAt \cup clientCompleted = {r \in Ids : place[r] = "freed"}
  /\ clientActive = {r \in submitted : r \notin clientCompleted}

(***************************************************************************)
(* The declared protocol: a reference is released its delay after the      *)
(* prefill, the client completes one step later, and only then may a row   *)
(* that waits for it be submitted and run.                                 *)
(***************************************************************************)
ProtocolKept ==
  \A r \in Ids :
    /\ releaseStep[r] # Never => releaseStep[r] = prefillStep[r] + rows[r].delay
    /\ completeStep[r] # Never => completeStep[r] = releaseStep[r] + 1
    /\ \A i \in DOMAIN intervals[r], q \in rows[r].after :
         completeStep[q] # Never /\ completeStep[q] <= intervals[r][i].step

(***************************************************************************)
(* Driver, connector and clients tell one story of every transfer.         *)
(***************************************************************************)
TransfersSound == TransfersTracked /\ ProtocolKept

(***************************************************************************)
(* The accounting of a finished input: without a preemption the intervals  *)
(* complete exactly what was not adopted at first; input is processed      *)
(* twice only after a preemption; the unique total is the number of        *)
(* positions that some interval completed.                                 *)
(***************************************************************************)
InputExact ==
  \A r \in Ids :
    LET positions == UNION {i.start .. i.end - 1 : i \in Range(intervals[r])}
    IN  /\ Unique(intervals[r]) = Cardinality(positions)
        /\ Repeated(intervals[r]) > 0 => r \in preempted
        /\ prefillStep[r] # Never /\ r \notin preempted =>
             adopted[r] + Total(intervals[r]) = rows[r].length

(***************************************************************************)
(* However a run ends, the result it leaves passes validate_capacity: its  *)
(* rounds can be observed, its counts and intervals are in range, and only *)
(* a run that completed everything is complete.                            *)
(***************************************************************************)
ResultValid ==
  outcome # "running" =>
    /\ RoundObservation(log, NDomains, outcome = "complete") # Invalid
    /\ outcome = "complete" => \A r \in Ids : completeStep[r] # Never
    /\ Cardinality(clientCompleted) = Cardinality({r \in Ids : completeStep[r] # Never})
    /\ \A r \in Ids : \A i \in Range(intervals[r]) :
         0 <= i.start /\ i.start < i.end /\ i.end <= rows[r].length /\ i.step \in 1 .. step

(***************************************************************************)
(* "no progress" is not reported while something is under way: with        *)
(* schedulers that keep going it is never reported at all.                 *)
(***************************************************************************)
NeverStalled == outcome # "stalled"
=============================================================================

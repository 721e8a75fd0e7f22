---------------------------- MODULE AscendReplay -----------------------------
(***************************************************************************)
(* The replay of captured inputs on a native producer (run_ascend_v31):    *)
(* one request after the other, with a queue of two batches that is filled *)
(* before the oldest result is applied.  The input accounting is taken     *)
(* when a batch is scheduled, so it runs ahead of the results.             *)
(***************************************************************************)
EXTENDS EngineScheduler, InputAccounting

CONSTANT StepLimit   \* 100 logical steps

VARIABLES
  row,        \* the request that is replayed
  stage,      \* "submit", "fill", "apply", "release", "complete" or "raised"
  steps,
  adopted,    \* initial_adopted_cache_tokens, or Unseen
  intervals,
  preempted   \* native.num_preemptions > 0

replay == <<row, steps, adopted, intervals, preempted>>
allVars == <<vars, stage, replay>>

Unseen == -1

ReplayInit ==
  /\ Init /\ row = Min(Requests) /\ stage = "submit" /\ steps = 0
  /\ adopted = Unseen /\ intervals = <<>> /\ preempted = FALSE

SubmitRow ==
  /\ stage = "submit" /\ stage' = "fill"
  /\ AddRequest(row)
  /\ steps' = 0 /\ adopted' = Unseen /\ intervals' = <<>> /\ preempted' = FALSE
  /\ UNCHANGED row

Pending == e.status[row] = "held"
MayFill == Len(queue) < Depth /\ Live # {} /\ ~Pending

(* Schedule and take the interval; an empty batch ends the filling. *)
Fill ==
  LET w == Scheduled
      i == ScheduledInterval(e'.computed[row], w.batch[row], Prompt[row], steps')
  IN  /\ stage = "fill" /\ MayFill
      /\ TakeBatch
      /\ steps' = steps + 1
      /\ stage' = IF DOMAIN w.batch = {} THEN "apply" ELSE "fill"
      /\ preempted' = (preempted \/ row \in w.preempted)
      /\ IF row \in DOMAIN w.batch
         THEN /\ adopted' = IF adopted = Unseen THEN i.start ELSE adopted
              /\ intervals' = IF i.end > i.start THEN Append(intervals, i) ELSE intervals
         ELSE UNCHANGED <<adopted, intervals>>
      /\ UNCHANGED <<on, done, row>>

(* Mutant of Drained: the transfer is over as soon as the prefill is. *)
DrainedAtOnce(left) == TRUE
Drained(left) == left = <<>>

(* Apply the oldest result; a request that makes no progress is given up. *)
Apply ==
  /\ stage = "apply" \/ (stage = "fill" /\ ~MayFill)
  /\ IF queue = <<>> THEN stage' = "raised" /\ UNCHANGED vars
     ELSE /\ UpdateFromOutput
          /\ stage' = CASE e'.status[row] = "held" /\ Drained(queue') -> "release"
                        [] e'.status[row] = "gone" /\ queue' = <<>> -> "raised"
                        [] OTHER -> IF steps >= StepLimit THEN "raised" ELSE "fill"
  /\ UNCHANGED replay

(* Report the transfer, check the accounting, go on with the next row. *)
Accounted == adopted # Unseen /\ adopted + Total(intervals) = Prompt[row]
ReleaseRow ==
  LET rest == {r \in Requests : r > row}
  IN  /\ stage = "release"
      /\ e' = Transferred([e EXCEPT !.moving = @ \ {row}], row)
      /\ IF preempted \/ ~Accounted THEN stage' = "raised" /\ UNCHANGED row
         ELSE IF rest = {} THEN stage' = "complete" /\ UNCHANGED row
         ELSE stage' = "submit" /\ row' = Min(rest)
      /\ queue' = <<>> /\ UNCHANGED <<on, done, steps, adopted, intervals, preempted>>

ReplayNext == SubmitRow \/ Fill \/ Apply \/ ReleaseRow
ReplaySpec == ReplayInit /\ [][ReplayNext]_allVars
-----------------------------------------------------------------------------
(***************************************************************************)
(* An input that fits into the pool is accepted: two batches in flight     *)
(* count each of its tokens once, and nothing is preempted or given up.    *)
(***************************************************************************)
Accepted == stage # "raised"

(***************************************************************************)
(* The next request finds the scheduler as the first one did: every result *)
(* was applied before the release, and it left nothing behind.             *)
(***************************************************************************)
NothingLeft ==
  /\ stage = "release" => queue = <<>>
  /\ stage \in {"submit", "complete"} =>
       e.free = NumBlocks /\ Live = {} /\ e.prefills = {} /\ e.running \o e.waiting = <<>>
=============================================================================

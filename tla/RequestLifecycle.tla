-------------------------- MODULE RequestLifecycle ---------------------------
(***************************************************************************)
(* What the engine promises to the source of its events: the life of a     *)
(* request, the execution limits, and that a step either starts at some    *)
(* adopted prefix or is refused.  Pages are not visible: a first step may  *)
(* adopt any proper prefix, and any step may be refused for capacity.      *)
(* Events that the engine rejects as illegal are no steps.                 *)
(***************************************************************************)
EXTENDS Integers, FiniteSetsExt

CONSTANTS
  Scenarios,  \* records [rows, concurrency, pSlots, stepBudget]; rows maps each
              \* request to a record [domain, length, after]
  Budgets     \* the event budgets tried

VARIABLES
  scenario,  \* the scenario of this run
  phase, position, pending, used, failure

engineVars == <<scenario, phase, position, pending, used, failure>>

NoStep == 0
Ids == DOMAIN scenario.rows
Row(r) == scenario.rows[r]
Domains == {Row(r).domain : r \in Ids}

Active == {r \in Ids : phase[r] \notin {"waiting", "complete", "cancelled"}}
Running(d) == {r \in Ids : phase[r] = "running" /\ Row(r).domain = d}
Fail(r, reason) == failure' = <<reason, r>>

Begin ==
  /\ phase = [r \in Ids |-> "waiting"]
  /\ position = [r \in Ids |-> 0]
  /\ pending = [r \in Ids |-> NoStep]
  /\ used = [d \in Domains |-> 0]
  /\ failure = <<>>
Init == scenario \in Scenarios /\ Begin

(* The next event has a later tick. *)
NewTick ==
  /\ used' = [d \in Domains |-> 0]
  /\ UNCHANGED <<scenario, phase, position, pending, failure>>

MayArrive(r) == phase[r] = "waiting" /\ \A q \in Row(r).after : phase[q] = "complete"
Arrive(r) ==
  /\ MayArrive(r)
  /\ IF Cardinality(Active) >= scenario.concurrency
     THEN Fail(r, "request_concurrency") /\ UNCHANGED phase
     ELSE phase' = [phase EXCEPT ![r] = "arrived"] /\ UNCHANGED failure
  /\ UNCHANGED <<scenario, position, pending, used>>

(* The event's target comes from a plan without hits. *)
Target(t, start) == Max({t, start})

Starts(r) == IF phase[r] = "arrived" THEN 0 .. Row(r).length - 1 ELSE {position[r]}
OverBudget(r, cost, budget) ==
  cost > budget \/ cost + used[Row(r).domain] > scenario.stepBudget

Start(r, start, target) ==
  /\ phase' = [phase EXCEPT ![r] = "running"]
  /\ position' = [position EXCEPT ![r] = start]
  /\ pending' = [pending EXCEPT ![r] = target]
  /\ used' = [used EXCEPT ![Row(r).domain] = @ + target - start]
  /\ UNCHANGED <<scenario, failure>>

Refuse(r, reason) ==
  Fail(r, reason) /\ UNCHANGED <<scenario, phase, position, pending, used>>

SlotsFull(r) ==
  phase[r] = "arrived" /\ Cardinality(Running(Row(r).domain)) >= scenario.pSlots

MaySchedule(r, t) ==
  phase[r] \in {"arrived", "running"} /\ pending[r] = NoStep /\ t \in 1 .. Row(r).length
Schedule(r, t, budget) ==
  /\ MaySchedule(r, t)
  /\ \/ SlotsFull(r) /\ Refuse(r, "p_slots")
     \/ \E start \in Starts(r) :
          /\ ~SlotsFull(r)
          /\ LET target == Target(t, start)
             IN  IF OverBudget(r, target - start, budget) THEN Refuse(r, "scheduling_budget")
                 ELSE Start(r, start, target) \/ Refuse(r, "capacity")

StepComplete(r) ==
  /\ pending[r] # NoStep
  /\ position' = [position EXCEPT ![r] = pending[r]]
  /\ pending' = [pending EXCEPT ![r] = NoStep]
  /\ phase' = [phase EXCEPT ![r] = IF pending[r] = Row(r).length THEN "transfer" ELSE @]
  /\ UNCHANGED <<scenario, used, failure>>

Enter(r, next) ==
  /\ phase' = [phase EXCEPT ![r] = next]
  /\ UNCHANGED <<scenario, position, pending, used, failure>>

MayRelease(r) == phase[r] = "transfer" /\ pending[r] = NoStep
PRelease(r) == MayRelease(r) /\ Enter(r, "decode")
MayComplete(r) == phase[r] = "decode"
RequestComplete(r) == MayComplete(r) /\ Enter(r, "complete")
Cancel(r) == pending[r] = NoStep /\ phase[r] # "transfer" /\ Enter(r, "cancelled")

Event(r) ==
  \/ Arrive(r)
  \/ \E t \in 1 .. Row(r).length, b \in Budgets : Schedule(r, t, b)
  \/ StepComplete(r) \/ PRelease(r) \/ RequestComplete(r) \/ Cancel(r)

Next == failure = <<>> /\ (NewTick \/ \E r \in Ids : Event(r))

Spec == Init /\ [][Next]_engineVars
=============================================================================

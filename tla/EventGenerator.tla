--------------------------- MODULE EventGenerator ---------------------------
(***************************************************************************)
(* The generator of a fixed trace (generate_events): cold progress, round  *)
(* robin.  It runs before the engine and never sees a hit.  One action per *)
(* event it emits; the loops of one tick follow each other in stage.  What *)
(* a loop skips in a tick it need not look at again in that tick, because  *)
(* slots and budgets only shrink until the next one.                       *)
(***************************************************************************)
EXTENDS Integers, FiniteSetsExt, SequencesExt

CONSTANT
  Scenarios   \* as in RequestLifecycle, with chunk, transfer and decode; rows
              \* is a sequence

VARIABLES
  scenario,
  tick, stage,
  waiting,              \* requests not arrived, in row order
  active,               \* requests on P, in order of arrival
  progress,             \* tokens of each request planned so far
  releasing, decoding,  \* sequences of <<request, tick>>
  done,
  budgets,              \* what is left of the step budget, per domain
  stepped,              \* requests that had their step in this tick
  event,                \* the event just emitted, or NoEvent
  outcome               \* "running", "finished", or "cycle"

planVars == <<scenario, tick, stage, waiting, active, progress, releasing, decoding,
              done, budgets, stepped, event, outcome>>

NoEvent == [kind |-> "none"]
Plan(r) == scenario.rows[r]
AllDomains == {Plan(r).domain : r \in DOMAIN scenario.rows}
FullBudgets == [d \in AllDomains |-> scenario.stepBudget]

Init ==
  /\ scenario \in Scenarios
  /\ tick = 0 /\ stage = "release"
  /\ waiting = [i \in DOMAIN scenario.rows |-> i]
  /\ active = <<>>
  /\ progress = [r \in DOMAIN scenario.rows |-> 0]
  /\ releasing = <<>> /\ decoding = <<>> /\ done = {}
  /\ budgets = FullBudgets /\ stepped = {}
  /\ event = NoEvent /\ outcome = "running"

Emit(kind, r) == event' = [kind |-> kind, request |-> r, tick |-> tick]
EmitStep(kind, r, target, budget) ==
  event' = [kind |-> kind, request |-> r, tick |-> tick, target |-> target, budget |-> budget]
Quiet == event' = NoEvent

(* The pairs of a dictionary that are due, in its order. *)
Due(pairs) == SelectSeq(pairs, LAMBDA x : x[2] <= tick)

(* Mutant of Drop: the entry stays after its event. *)
DropNothing(pairs, r) == pairs
Drop(pairs, r) == SelectSeq(pairs, LAMBDA x : x[1] # r)

EmitRelease ==
  LET r == Head(Due(releasing))[1]
  IN  /\ stage = "release" /\ Due(releasing) # <<>>
      /\ Emit("P_RELEASE", r)
      /\ releasing' = Drop(releasing, r)
      /\ decoding' = Append(decoding, <<r, tick + scenario.decode>>)
      /\ UNCHANGED <<scenario, tick, stage, waiting, active, progress, done,
                     budgets, stepped, outcome>>

EmitComplete ==
  LET r == Head(Due(decoding))[1]
  IN  /\ stage = "decode" /\ Due(decoding) # <<>>
      /\ Emit("REQUEST_COMPLETE", r)
      /\ decoding' = Drop(decoding, r)
      /\ done' = done \cup {r}
      /\ UNCHANGED <<scenario, tick, stage, waiting, active, progress, releasing,
                     budgets, stepped, outcome>>

(* Mutant of Allowed: a dependency is met when its input is computed. *)
AllowedEarly(r) == Plan(r).after \subseteq done \cup {x[1] : x \in Range(decoding)}

Occupied == Len(active) + Len(releasing) + Len(decoding)
OnDomain(d) == {r \in Range(active) : Plan(r).domain = d}
Allowed(r) == Plan(r).after \subseteq done
Admissible(r) ==
  /\ Occupied < scenario.concurrency
  /\ Cardinality(OnDomain(Plan(r).domain)) < scenario.pSlots
  /\ Allowed(r)
Arrivals == SelectSeq(waiting, Admissible)

EmitArrive ==
  LET r == Head(Arrivals)
  IN  /\ stage = "arrive" /\ Arrivals # <<>>
      /\ Emit("ARRIVE", r)
      /\ active' = Append(active, r)
      /\ waiting' = Remove(waiting, r)
      /\ UNCHANGED <<scenario, tick, stage, progress, releasing, decoding, done,
                     budgets, stepped, outcome>>

Delta(r) ==
  Min({scenario.chunk, budgets[Plan(r).domain], Plan(r).length - progress[r]})
Turns == SelectSeq(active, LAMBDA r : r \notin stepped /\ budgets[Plan(r).domain] > 0)

EmitSchedule ==
  LET r == Head(Turns)
  IN  /\ stage = "step" /\ Turns # <<>>
      /\ EmitStep("SCHEDULE", r, progress[r] + Delta(r), Delta(r))
      /\ stage' = "commit"
      /\ UNCHANGED <<scenario, tick, waiting, active, progress, releasing, decoding,
                     done, budgets, stepped, outcome>>

EmitStepComplete ==
  LET r == Head(Turns)
      target == progress[r] + Delta(r)
      last == target = Plan(r).length
  IN  /\ stage = "commit" /\ stage' = "step"
      /\ EmitStep("STEP_COMPLETE", r, target, 0)
      /\ budgets' = [budgets EXCEPT ![Plan(r).domain] = @ - Delta(r)]
      /\ progress' = [progress EXCEPT ![r] = target]
      /\ stepped' = stepped \cup {r}
      /\ active' = IF last THEN Remove(active, r) ELSE active
      /\ releasing' = IF last THEN Append(releasing, <<r, tick + scenario.transfer>>)
                      ELSE releasing
      /\ UNCHANGED <<scenario, tick, waiting, decoding, done, outcome>>

(* Mutant of Busy: requests that left P are forgotten. *)
BusyOnP == active # <<>>
Busy == active # <<>> \/ releasing # <<>> \/ decoding # <<>>

(* A loop over, the next one begins; a tick over, the next one begins. *)
NextStage ==
  \/ stage = "release" /\ Due(releasing) = <<>> /\ stage' = "decode"
  \/ stage = "decode" /\ Due(decoding) = <<>> /\ stage' = "arrive"
  \/ stage = "arrive" /\ Arrivals = <<>> /\ stage' = "step"
EndStage ==
  /\ NextStage /\ Quiet
  /\ UNCHANGED <<scenario, tick, waiting, active, progress, releasing, decoding, done,
                 budgets, stepped, outcome>>

EndTick ==
  /\ stage = "step" /\ Turns = <<>>
  /\ outcome' = IF waiting # <<>> /\ ~Busy THEN "cycle"
                ELSE IF waiting = <<>> /\ ~Busy THEN "finished" ELSE "running"
  /\ tick' = tick + 1 /\ stage' = "release"
  /\ budgets' = FullBudgets /\ stepped' = {}
  /\ Quiet
  /\ UNCHANGED <<scenario, waiting, active, progress, releasing, decoding, done>>

Generate ==
  /\ outcome = "running"
  /\ EmitRelease \/ EmitComplete \/ EmitArrive \/ EmitSchedule \/ EmitStepComplete
     \/ EndStage \/ EndTick
=============================================================================

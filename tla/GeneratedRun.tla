---------------------------- MODULE GeneratedRun ----------------------------
(***************************************************************************)
(* A generated trace fed to the engine.  The generator does not look at    *)
(* the engine, so the trace may as well be consumed event by event.  The   *)
(* engine is RequestLifecycle: any hits, any refusal for capacity.         *)
(***************************************************************************)
EXTENDS EventGenerator

VARIABLES
  phase, position, pending, used, failure,  \* the engine's
  lastTick                                  \* tick of the last event it took

engine == <<phase, position, pending, used, failure, lastTick>>
vars == <<planVars, engine>>

Engine == INSTANCE RequestLifecycle WITH Budgets <- {}

RunInit == Init /\ Engine!Begin /\ lastTick = -1

GenerateNext == event = NoEvent /\ Generate /\ UNCHANGED engine

(* The budgets of the engine start again when the tick of the event is new. *)
TakeTick ==
  /\ event # NoEvent /\ event.tick # lastTick
  /\ Engine!NewTick
  /\ lastTick' = event.tick
  /\ UNCHANGED planVars

Handle ==
  LET r == event.request
  IN  \/ event.kind = "ARRIVE" /\ Engine!Arrive(r)
      \/ event.kind = "SCHEDULE" /\ Engine!Schedule(r, event.target, event.budget)
      \/ event.kind = "STEP_COMPLETE" /\ Engine!StepComplete(r)
      \/ event.kind = "P_RELEASE" /\ Engine!PRelease(r)
      \/ event.kind = "REQUEST_COMPLETE" /\ Engine!RequestComplete(r)

TakeEvent ==
  /\ event # NoEvent /\ event.tick = lastTick
  /\ Handle
  /\ event' = NoEvent
  /\ UNCHANGED <<lastTick, tick, stage, waiting, active, progress, releasing, decoding,
                 done, budgets, stepped, outcome>>

Next == failure = <<>> /\ (GenerateNext \/ TakeTick \/ TakeEvent)

Spec == RunInit /\ [][Next]_vars
FairSpec == Spec /\ WF_vars(Next)
-----------------------------------------------------------------------------
(***************************************************************************)
(* A trace planned without hits is legal for every outcome of the lookups: *)
(* the engine never meets an event that it rejects as out of order (a      *)
(* ValueError), although adopted prefixes move its requests ahead of plan. *)
(***************************************************************************)
Legal ==
  event # NoEvent =>
    LET r == event.request
    IN  CASE event.kind = "ARRIVE" -> Engine!MayArrive(r)
          [] event.kind = "SCHEDULE" -> Engine!MaySchedule(r, event.target)
          [] event.kind = "STEP_COMPLETE" -> pending[r] # 0
          [] event.kind = "P_RELEASE" -> Engine!MayRelease(r)
          [] event.kind = "REQUEST_COMPLETE" -> Engine!MayComplete(r)

(***************************************************************************)
(* A generated trace can only fail for capacity: slots, concurrency and    *)
(* budgets, which the generator counted in its own books, never run out in *)
(* the engine.                                                             *)
(***************************************************************************)
CapacityOnly == failure # <<>> => failure[1] = "capacity"

(***************************************************************************)
(* The engine is never behind the plan and reaches the end of an input     *)
(* exactly when the plan does; between two events their phases agree.      *)
(***************************************************************************)
InStep ==
  event = NoEvent /\ failure = <<>> /\ stage # "commit" =>
    \A r \in DOMAIN scenario.rows :
      LET n == Plan(r).length
      IN  /\ position[r] >= progress[r]
          /\ position[r] = n <=> progress[r] = n
          /\ phase[r] \in {"arrived", "running"} <=> r \in Range(active)
          /\ phase[r] = "complete" <=> r \in done

(* A finished trace completes every request ("Trace ended without ..."). *)
TraceComplete ==
  outcome = "finished" /\ event = NoEvent /\ failure = <<>> =>
    \A r \in DOMAIN scenario.rows : phase[r] = "complete"

(***************************************************************************)
(* The trace fits every run it can meet: legal at each event, in step with *)
(* the engine, refused for capacity only, and complete at its end.         *)
(***************************************************************************)
TraceSound == Legal /\ CapacityOnly /\ InStep /\ TraceComplete

(***************************************************************************)
(* "Dependency cycle or unsatisfied dependency" is raised only when the    *)
(* requests left wait for each other, never because slots are taken.       *)
(***************************************************************************)
CycleIsReal ==
  outcome = "cycle" =>
    /\ waiting # <<>>
    /\ \A r \in Range(waiting) : Plan(r).after \cap Range(waiting) # {}

(* The generator ends for every scenario, with a trace or with the error. *)
Ends == <>(outcome # "running" \/ failure # <<>>)
=============================================================================

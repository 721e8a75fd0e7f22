--------------------------- MODULE WorkloadDriver ---------------------------
(***************************************************************************)
(* The workload driver of the browser core (driveWorkload): one loop that  *)
(* turns a replay workload into engine events on a virtual clock.  It runs *)
(* the due events, launches sessions, starts ready rows in row order, gives*)
(* every request on P one step, and then moves the clock.  The engine is   *)
(* seen through what the driver reads of it: a first step may start at any *)
(* adopted prefix, and any step may be refused for capacity, which ends    *)
(* the run.                                                                *)
(***************************************************************************)
EXTENDS FiniteSetsExt, OrderedDicts

CONSTANTS
  Workloads,     \* the workloads tried: records [rows, sessions, concurrency]; rows is a
                 \* sequence of records [session, send, context, wait, timing,
                 \* duration, tokens, domain, decode], send and context are row
                 \* numbers or NoRow, times are in ticks; sessions is a sequence
                 \* of records [id, arrival] in launch order
  SessionConcurrency, PSlots, ChunkTokens, StepBudget, TransferTicks

NoRow == 0

(***************************************************************************)
(* validateWorkload and validate: lengths, times and limits are integers   *)
(* that are not negative, at least one of the limits that follow.          *)
(***************************************************************************)
ASSUME WorkloadsAssumption ==
  \A w \in Workloads :
    /\ w.rows \in Seq(Range(w.rows)) /\ w.sessions \in Seq(Range(w.sessions))
    /\ w.concurrency \in Nat
    /\ \A row \in Range(w.rows) :
         {row.tokens, row.wait, row.duration, row.decode} \subseteq Nat
    /\ \A s \in Range(w.sessions) : s.arrival \in Nat
ASSUME LimitsAssumption ==
  {SessionConcurrency, PSlots, ChunkTokens, StepBudget, TransferTicks} \subseteq Nat

VARIABLES
  work,      \* the workload of this run
  tick, stage, row,
  phase,     \* phase of each row; "timing" while a timer runs
  position,  \* tokens committed
  due,       \* releaseAt, decodeAt and timerAt: the tick of each row's next event
  completed, \* the tick at which each row completed
  launched,  \* the tick at which each session was launched
  pendingSessions, finishedSessions,
  spent,     \* tokens computed in this iteration, per domain
  computed,  \* some step ran in this iteration
  outcome    \* "running", "complete", "infeasible", or "stuck"

vars == <<work, tick, stage, row, phase, position, due, completed, launched,
          pendingSessions, finishedSessions, spent, computed, outcome>>

Rows == DOMAIN work.rows
Concurrency == work.concurrency
RowOf(r) == work.rows[r]
Domains == {RowOf(r).domain : r \in Rows}
Deps(r) == {RowOf(r).send, RowOf(r).context} \ {NoRow}
RowsOf(s) == {r \in Rows : RowOf(r).session = s}
AllComplete == \A r \in Rows : phase[r] = "complete"
(* Map.set for each key of new. *)
Set(new, old) ==
  [x \in DOMAIN new \cup DOMAIN old |-> IF x \in DOMAIN new THEN new[x] ELSE old[x]]
InPhase(P) == {r \in Rows : phase[r] \in P}

Init ==
  /\ work \in Workloads
  /\ tick = 0 /\ stage = "release" /\ row = 1
  /\ phase = [r \in Rows |-> "waiting"]
  /\ position = [r \in Rows |-> 0]
  /\ due = <<>> /\ completed = <<>> /\ launched = <<>>
  /\ pendingSessions = work.sessions /\ finishedSessions = {}
  /\ spent = [d \in Domains |-> 0] /\ computed = FALSE
  /\ outcome = "running"
-----------------------------------------------------------------------------
DueNow(p) == {r \in InPhase({p}) : due[r] <= tick}
SetPhase(R, p) == phase' = [r \in Rows |-> IF r \in R THEN p ELSE phase[r]]
Complete(R) ==
  /\ SetPhase(R, "complete")
  /\ completed' = Set([r \in R |-> tick], completed)
  /\ due' = Restrict(due, DOMAIN due \ R)

ReleaseDue ==
  /\ stage = "release" /\ stage' = "decode"
  /\ SetPhase(DueNow("transfer"), "decode")
  /\ due' = Set([r \in DueNow("transfer") |-> tick + RowOf(r).decode], due)
  /\ UNCHANGED <<work, tick, row, position, completed, launched, pendingSessions,
                 finishedSessions, spent, computed, outcome>>

CompleteDue ==
  /\ stage = "decode" /\ stage' = "timers"
  /\ Complete(DueNow("decode"))
  /\ UNCHANGED <<work, tick, row, position, launched, pendingSessions,
                 finishedSessions, spent, computed, outcome>>

TimersDue ==
  /\ stage = "timers" /\ stage' = "sessions"
  /\ Complete(DueNow("timing"))
  /\ UNCHANGED <<work, tick, row, position, launched, pendingSessions,
                 finishedSessions, spent, computed, outcome>>

(* Mutant of FreeSlots: the limit is taken for each launch round. *)
FreeSlotsPerRound(finished) == SessionConcurrency
FreeSlots(finished) ==
  SessionConcurrency - (Cardinality(DOMAIN launched) - Cardinality(finished))

(* Finished sessions give their slots back; arrived ones take them in order. *)
LaunchSessions ==
  LET finished == finishedSessions \cup
                    {s \in DOMAIN launched : \A r \in RowsOf(s) : phase[r] = "complete"}
      arrived == Kept(pendingSessions, {s \in Range(pendingSessions) : s.arrival <= tick})
      chosen == Range(SubSeq(arrived, 1, Min({FreeSlots(finished), Len(arrived)})))
  IN  /\ stage = "sessions" /\ stage' = "rows" /\ row' = 1
      /\ finishedSessions' = finished
      /\ launched' = Set([s \in {c.id : c \in chosen} |-> tick], launched)
      /\ pendingSessions' = Kept(pendingSessions, Range(pendingSessions) \ chosen)
      /\ UNCHANGED <<work, tick, phase, position, due, completed, spent, computed, outcome>>

ReadyAt(r) ==
  RowOf(r).wait + IF RowOf(r).send # NoRow THEN completed[RowOf(r).send]
                  ELSE launched[RowOf(r).session]
Startable(r) ==
  /\ phase[r] = "waiting" /\ RowOf(r).session \in DOMAIN launched
  /\ Deps(r) \subseteq DOMAIN completed
Ready(r) == Startable(r) /\ ReadyAt(r) <= tick

Occupied == InPhase({"arrived", "running", "transfer", "decode"})
OnP(d) == {r \in InPhase({"arrived", "running"}) : RowOf(r).domain = d}

StartTimer(r) ==
  /\ Ready(r) /\ RowOf(r).timing
  /\ IF RowOf(r).duration = 0 THEN Complete({r})
     ELSE /\ SetPhase({r}, "timing")
          /\ due' = Set([q \in {r} |-> tick + RowOf(r).duration], due)
          /\ UNCHANGED completed

HasRoom(r) == Cardinality(Occupied) < Concurrency /\ Cardinality(OnP(RowOf(r).domain)) < PSlots
Arrive(r) ==
  /\ Ready(r) /\ ~RowOf(r).timing /\ HasRoom(r)
  /\ SetPhase({r}, "arrived")
  /\ UNCHANGED <<due, completed>>
PassRow(r) ==
  /\ ~Ready(r) \/ (~RowOf(r).timing /\ ~HasRoom(r))
  /\ UNCHANGED <<phase, due, completed>>

VisitRow ==
  /\ stage = "rows"
  /\ IF row \in Rows
     THEN /\ StartTimer(row) \/ Arrive(row) \/ PassRow(row)
          /\ row' = row + 1
          /\ UNCHANGED stage
     ELSE /\ row' = 1 /\ stage' = "steps"
          /\ UNCHANGED <<phase, due, completed>>
  /\ UNCHANGED <<work, tick, position, launched, pendingSessions, finishedSessions,
                 spent, computed, outcome>>

Opportunity(r) == Min({ChunkTokens, StepBudget - spent[RowOf(r).domain]})
OnTurn(r) == phase[r] \in {"arrived", "running"} /\ Opportunity(r) > 0

(* SCHEDULE and STEP_COMPLETE of one request, from the prefix it adopts. *)
Step(r) ==
  \E hit \in IF phase[r] = "arrived" THEN 0 .. RowOf(r).tokens - 1 ELSE {position[r]} :
    LET target == Min({RowOf(r).tokens, hit + Opportunity(r)})
        last == target = RowOf(r).tokens
    IN  /\ OnTurn(r)
        /\ position' = [position EXCEPT ![r] = target]
        /\ SetPhase({r}, IF last THEN "transfer" ELSE "running")
        /\ spent' = [spent EXCEPT ![RowOf(r).domain] = @ + target - hit]
        /\ due' = IF last THEN Set([q \in {r} |-> tick + Max({1, TransferTicks})], due) ELSE due
        /\ computed' = TRUE
        /\ UNCHANGED outcome

Refused(r) ==
  /\ OnTurn(r)
  /\ outcome' = "infeasible"
  /\ UNCHANGED <<phase, position, due, spent, computed>>
PassStep(r) == ~OnTurn(r) /\ UNCHANGED <<phase, position, due, spent, computed, outcome>>

VisitStep ==
  /\ stage = "steps"
  /\ IF row \in Rows
     THEN /\ Step(row) \/ Refused(row) \/ PassStep(row)
          /\ row' = row + 1
          /\ UNCHANGED stage
     ELSE /\ row' = 1 /\ stage' = "clock"
          /\ UNCHANGED <<phase, position, due, spent, computed, outcome>>
  /\ UNCHANGED <<work, tick, completed, launched, pendingSessions, finishedSessions>>

(* Mutant of Future: only events that are due. *)
FutureDue == Range(due)

(* The ticks at which something may happen while nothing runs on P. *)
Future ==
  Range(due) \cup {ReadyAt(r) : r \in {q \in Rows : Startable(q)}}
    \cup IF FreeSlots(finishedSessions) > 0
         THEN {s.arrival : s \in Range(pendingSessions)} ELSE {}

(* Mutant of Later: the present counts as the future. *)
LaterOrNow == {t \in Future : t >= tick}
Later == {t \in Future : t > tick}

MoveClock ==
  /\ stage = "clock"
  /\ IF AllComplete THEN outcome' = "complete" /\ UNCHANGED <<tick, stage>>
     ELSE IF computed THEN tick' = tick + 1 /\ stage' = "release" /\ UNCHANGED outcome
     ELSE IF Later # {} THEN tick' = Min(Later) /\ stage' = "release" /\ UNCHANGED outcome
     ELSE outcome' = "stuck" /\ UNCHANGED <<tick, stage>>
  /\ spent' = [d \in Domains |-> 0] /\ computed' = FALSE
  /\ UNCHANGED <<work, row, phase, position, due, completed, launched,
                 pendingSessions, finishedSessions>>

Next ==
  /\ outcome = "running"
  /\ ReleaseDue \/ CompleteDue \/ TimersDue \/ LaunchSessions
     \/ VisitRow \/ VisitStep \/ MoveClock

Spec == Init /\ [][Next]_vars
FairSpec == Spec /\ WF_vars(Next)
-----------------------------------------------------------------------------
(***************************************************************************)
(* The driver gives up only when nothing can ever go on: "Workload cannot  *)
(* progress: unresolved dependencies or execution slots".  The imported    *)
(* workloads have no dependency cycle and slots are given back, so it      *)
(* should never do so.  It never does when timers take time; a timer of    *)
(* zero duration completes where the loop no longer looks, and it may.     *)
(***************************************************************************)
NeverStuck == outcome # "stuck"

(***************************************************************************)
(* The book-keeping of the driver agrees with the phases of the engine:    *)
(* exactly the rows between two events have one coming, and exactly the    *)
(* complete ones have a completion tick, never in the future.              *)
(***************************************************************************)
BooksAgree ==
  /\ DOMAIN due = InPhase({"transfer", "decode", "timing"})
  /\ DOMAIN completed = InPhase({"complete"})
  /\ \A r \in DOMAIN completed : completed[r] <= tick

UnderWay == {s \in DOMAIN launched : \E r \in RowsOf(s) : phase[r] # "complete"}

(***************************************************************************)
(* The driver never sends an event the engine's execution limits refuse:   *)
(* requests in flight, sequences of a domain, tokens of a domain in a tick;*)
(* and no more sessions are under way than the workload allows.            *)
(***************************************************************************)
LimitsRespected ==
  /\ Cardinality(UnderWay) <= SessionConcurrency
  /\ Cardinality(Occupied) <= Concurrency
  /\ \A d \in Domains : Cardinality(OnP(d)) <= PSlots /\ spent[d] <= StepBudget

(***************************************************************************)
(* The driver's three books of its own stay in step with the engine, so    *)
(* that what it decides from them is never refused.                        *)
(***************************************************************************)
BooksSound == BooksAgree /\ LimitsRespected

(***************************************************************************)
(* The clock jumps over nothing: no due event, no ready row and no session *)
(* that could be launched lies strictly between two ticks of the loop.     *)
(***************************************************************************)
NothingSkipped ==
  [][LET between == tick + 1 .. tick' - 1
     IN  /\ \A r \in DOMAIN due : due[r] \notin between
         /\ \A r \in Rows : Startable(r) => ReadyAt(r) \notin between
         /\ Cardinality(UnderWay) < SessionConcurrency =>
              \A s \in Range(pendingSessions) : s.arrival \notin between]_vars

(***************************************************************************)
(* Every run ends, and not by giving up: whatever rows, sessions and slots *)
(* wait for each other, the work is completed or found to have no room.    *)
(***************************************************************************)
Terminates == <>(outcome \notin {"running", "stuck"})
=============================================================================

--------------------------- MODULE AnalyzedTraces ---------------------------
(***************************************************************************)
(* Traces grow by one row per answer, as the request trace is written; the *)
(* analyzer and the planner read every trace of a few rows.  A file may    *)
(* hold its rows in another order; but keys are compared only between rows *)
(* that end together, so that changes the names of the rows and no more.   *)
(***************************************************************************)
EXTENDS TraceAnalyzer

CONSTANTS
  Kinds,     \* the prompt kinds tried
  MaxRows,   \* bound: rows of a session
  MaxTime    \* bound: the last time a row ends

VARIABLE rows

Rows(key) ==
  [key : {key}, start : 0 .. MaxTime, finish : 0 .. MaxTime, actor : Actors,
   ok : BOOLEAN, tokens : BOOLEAN, kind : Kinds]

Init == rows = <<>>
RowWritten ==
  /\ Len(rows) < MaxRows
  /\ \E r \in Rows(Len(rows) + 1) :
       /\ r.start <= r.finish
       /\ rows # <<>> => Last(rows).finish <= r.finish
       /\ rows' = Append(rows, r)
Next == RowWritten
Spec == Init /\ [][Next]_rows

(***************************************************************************)
(* _validate_task accepts every plan the analyzer leads to, whichever      *)
(* contexts the planner resets: no reference leads to a pruned node, every *)
(* context is an answer of the same actor, and a retried failure finds its *)
(* recipe.                                                                 *)
(***************************************************************************)
PlansValid ==
  LET session == Session(rows)
  IN  rows # <<>> /\ Replayable(session) =>
        \A resets \in {{}, {q.key : q \in session}} : Valid(Plan(session, resets))

(***************************************************************************)
(* With the intervals unscaled, the replay of a trace whose requests take  *)
(* as long as before sends every request when the trace has it: the delay  *)
(* or gap of a row, its predecessor and its context are consistent.        *)
(***************************************************************************)
SpacingKept ==
  LET session == Session(rows)
      plan == Plan(session, {})
      times == Times(plan)
      origin == Min({r.start : r \in ToSet(rows)})
  IN  rows # <<>> =>
        \A n \in plan : times[n.key] = Named(session, n.key).start - origin
=============================================================================

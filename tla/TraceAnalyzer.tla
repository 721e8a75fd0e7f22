--------------------------- MODULE TraceAnalyzer ----------------------------
(***************************************************************************)
(* The replay analyzer and planner: from the rows of a recorded session it *)
(* infers after which row every request was sent, which answer its context *)
(* continues and how long it waited, and plans the requests to replay.     *)
(*                                                                         *)
(* A row is a record [key, start, finish, actor, ok, tokens, kind]: key is *)
(* its position in the file, ok its status "success", tokens says that     *)
(* both token counts are usable, kind its prompt kind, one of lead_title,  *)
(* lead_name, lead_main, subagent_first and continuation.  Rows name their *)
(* kind themselves: the inference of a missing one from the order of the   *)
(* rows and from token sizes is left out.  Times are whole numbers.        *)
(***************************************************************************)
EXTENDS Integers, FiniteSetsExt, SequencesExt

CONSTANTS
  Actors,   \* actor ids of a session
  None,     \* no row, no key
  Scale,    \* trace_same_agent_gap_scale
  Offset    \* trace_same_agent_gap_offset_seconds

(* _CONTEXT_FREE_PROMPT_KINDS: titles and names carry no context. *)
ContextFree(row) == row.kind \in {"lead_title", "lead_name"}

AtLeast0(x) == IF x < 0 THEN 0 ELSE x
KeyOf(row) == IF row = None THEN None ELSE row.key

(* The order of the rows, and the order in which they finish. *)
Earlier(a, b) ==
  \/ a.start < b.start
  \/ a.start = b.start /\ a.finish < b.finish
  \/ a.start = b.start /\ a.finish = b.finish /\ a.key < b.key
EndsBefore(a, b) == a.finish < b.finish \/ (a.finish = b.finish /\ a.key < b.key)
Ordered(rows) == SetToSortSeq(ToSet(rows), Earlier)

(* A usable success answers the failures of its actor and kind before it. *)
Retried(m, row) ==
  LET answered == {f \in m.open : f.actor = row.actor /\ f.kind = row.kind}
  IN  IF ~row.ok THEN [m EXCEPT !.open = @ \cup {row}]
      ELSE IF ~row.tokens THEN m
      ELSE [open |-> m.open \ answered, pairs |-> m.pairs \cup (answered \X {row})]
RetryMatches(rows) == FoldLeft(Retried, [open |-> {}, pairs |-> {}], Ordered(rows)).pairs
Resolved(rows, matches) ==
  {r.key : r \in {q \in ToSet(rows) : q.tokens}} \cup {p[1].key : p \in matches}
Recipe(matches, row) ==
  IF \E p \in matches : p[1] = row THEN (CHOOSE p \in matches : p[1] = row)[2].key ELSE row.key

(***************************************************************************)
(* The sweep of _build_session.  Rows that finished before the current one *)
(* starts leave the heap in the order of their ends, and each of them may  *)
(* become the latest row, the latest attempt of its actor, and the latest  *)
(* answer its actor can continue.                                          *)
(***************************************************************************)
Latest(old, row) == IF old = None \/ EndsBefore(old, row) THEN row ELSE old
Complete(resolved, s, row) ==
  LET answer == row.ok /\ row.key \in resolved /\ ~ContextFree(row)
  IN  [s EXCEPT !.last = Latest(@, row),
                !.attempt[row.actor] = Latest(@, row),
                !.answer[row.actor] = IF answer THEN Latest(@, row) ELSE @]

(* The answer a row continues. *)
Context(s, row) == IF ContextFree(row) THEN None ELSE KeyOf(s.answer[row.actor])

(* Mutant of Gap: since the last answer of the actor, not its last attempt. *)
GapOfAnswer(s, row) ==
  IF s.answer[row.actor] = None THEN None ELSE AtLeast0(row.start - s.answer[row.actor].finish)

(* same_agent_gap_seconds: since the last attempt of the actor. *)
Gap(s, row) ==
  IF s.attempt[row.actor] = None THEN None ELSE AtLeast0(row.start - s.attempt[row.actor].finish)

(* t holds what the whole trace says: its matches, resolved keys and origin. *)
Request(t, s, row) ==
  [key |-> row.key, actor |-> row.actor, ok |-> row.ok,
   request |-> row.key \in t.resolved,
   recipe |-> Recipe(t.matches, row),
   send_after |-> KeyOf(s.last),
   context_after |-> Context(s, row),
   delay |-> AtLeast0(row.start - (IF s.last = None THEN t.origin ELSE s.last.finish)),
   same_agent |-> s.last # None /\ s.last.actor = row.actor,
   gap |-> Gap(s, row),
   start |-> row.start, finish |-> row.finish]
Visit(t, s, row) ==
  LET finished == {p \in s.pending : p.finish <= row.start}
      swept == FoldLeft(LAMBDA x, r : Complete(t.resolved, x, r), s,
                        SetToSortSeq(finished, EndsBefore))
  IN  [swept EXCEPT !.pending = (@ \ finished) \cup {row},
                    !.requests = @ \cup {Request(t, swept, row)}]
Session(rows) ==
  LET sorted == Ordered(rows)
      matches == RetryMatches(rows)
      t == [matches |-> matches, resolved |-> Resolved(rows, matches), origin |-> sorted[1].start]
      start == [last |-> None, attempt |-> [a \in Actors |-> None],
                answer |-> [a \in Actors |-> None], pending |-> {}, requests |-> {}]
  IN  FoldLeft(LAMBDA s, r : Visit(t, s, r), start, sorted).requests

Replayable(session) == \E q \in session : q.request
Named(session, k) == CHOOSE q \in session : q.key = k

(* Mutant of Required: only the direct predecessors are kept. *)
RequiredDirect(session) ==
  LET asked == {q \in session : q.request}
  IN  {q.key : q \in asked} \cup ({q.send_after : q \in asked} \ {None})

(* required_request_keys: the requests and all they are sent after. *)
Required(session) ==
  LET RECURSIVE Reach(_, _)
      Reach(found, frontier) ==
        LET next == {Named(session, k).send_after : k \in frontier} \ (found \cup {None})
        IN  IF next = {} THEN found ELSE Reach(found \cup next, next)
      asked == {q.key : q \in {p \in session : p.request}}
  IN  Reach(asked, asked)

(* effective_interval_seconds in the interval mode "trace". *)
Interval(q) ==
  IF q.send_after = None /\ q.delay = 0 THEN 0
  ELSE IF ~q.same_agent \/ q.gap = None THEN q.delay
  ELSE AtLeast0(q.gap * Scale + Offset)

(***************************************************************************)
(* The planned nodes of a session.  resets are the requests whose context  *)
(* was too long to trim to their target: they start a context of their     *)
(* own (_context_plan in the mode "adaptive").                             *)
(***************************************************************************)
Plan(session, resets) ==
  {[key |-> q.key, actor |-> q.actor, ok |-> q.ok, request |-> q.request, recipe |-> q.recipe,
    send_after |-> q.send_after, interval |-> Interval(q),
    context_after |-> IF q.request /\ q.key \in resets THEN None ELSE q.context_after,
    duration |-> q.finish - q.start] :
   q \in {p \in session : p.key \in Required(session)}}

(* _validate_task: the plan is refused with a ValueError otherwise. *)
Valid(plan) ==
  LET keys == {n.key : n \in plan}
      RECURSIVE Ends(_, _)
      Ends(k, visiting) ==
        \/ k = None
        \/ k \notin visiting /\ Ends(Named(plan, k).send_after, visiting \cup {k})
  IN  /\ \A n \in plan :
           /\ n.send_after \in keys \cup {None}
           /\ n.context_after \in keys \cup {None}
           /\ n.recipe \in keys
           /\ n.interval >= 0
           /\ n.context_after # None => Named(plan, n.context_after).actor = n.actor
                                        /\ Named(plan, n.context_after).ok
      /\ \A k \in keys : Ends(k, {})

(***************************************************************************)
(* When the executor sends the nodes, counted from the start of the task,  *)
(* if every node takes as long as it took in the trace: an interval after  *)
(* the end of the predecessor, and not before the context is there.        *)
(***************************************************************************)
Times(plan) ==
  LET sent[k \in {n.key : n \in plan}] ==
        LET n == Named(plan, k)
            end(j) == IF j = None THEN 0 ELSE sent[j] + Named(plan, j).duration
            release == end(n.send_after) + n.interval
        IN  IF n.request THEN Max({release, end(n.context_after)}) ELSE release
  IN  sent
=============================================================================

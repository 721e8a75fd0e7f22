-------------------------- MODULE InputAccounting ---------------------------
(***************************************************************************)
(* Pure functions of the native results: the input positions a scheduled   *)
(* batch completes, their totals, and what the rows of the logical rounds  *)
(* say of a run.  An interval is a record [step, start, end]; a row of a   *)
(* round is <<step, domain>> with the domains numbered in their order.     *)
(***************************************************************************)
EXTENDS Integers, FiniteSetsExt, SequencesExt, OrderedDicts

(* The cursor has already advanced when the interval is computed. *)
ScheduledInterval(cursor, tokens, length, step) ==
  [step |-> step, start |-> Min({cursor - tokens, length}), end |-> Min({cursor, length})]

(* Mutant of Unique: overlapping intervals are added up. *)
UniqueAll(intervals) == FoldLeft(LAMBDA n, i : n + i.end - i.start, 0, intervals)

(* Sorted by start, each interval counts beyond the end of those before. *)
Unique(intervals) ==
  LET sorted == SortSeq(intervals, LAMBDA a, b :
                          a.start < b.start \/ (a.start = b.start /\ a.end < b.end))
  IN  FoldLeft(LAMBDA u, i :
                 [sum |-> u.sum + Max({0, i.end - Max({u.boundary, i.start})}),
                  boundary |-> Max({u.boundary, i.end})],
               [sum |-> 0, boundary |-> 0], sorted).sum
Total(intervals) == FoldLeft(LAMBDA n, i : n + i.end - i.start, 0, intervals)
Repeated(intervals) == Total(intervals) - Unique(intervals)

(***************************************************************************)
(* round_observation: every round has one row for each of the n domains in *)
(* order, but for the last round of an incomplete run, which may be a      *)
(* prefix.  Invalid stands for its ValueError.                             *)
(***************************************************************************)
Invalid == [lastFull |-> -1, partial |-> FALSE]
Domains(n) == [i \in 1 .. n |-> i]
Seen(rows, n, s) == LET own == Kept(rows, {s} \X (1 .. n))
                    IN  [i \in DOMAIN own |-> own[i][2]]
RoundObservation(rows, n, complete) ==
  LET last == IF rows = <<>> THEN 0 ELSE rows[Len(rows)][1]
      seen(s) == Seen(rows, n, s)
      tail == {s \in 1 .. last : seen(s) # Domains(n)}
      known == \A i \in DOMAIN rows : rows[i][1] >= 1 /\ rows[i][2] \in 1 .. n
      ordered == \A i \in 1 .. Len(rows) - 1 :
                   \/ rows[i][1] < rows[i + 1][1]
                   \/ rows[i][1] = rows[i + 1][1] /\ rows[i][2] < rows[i + 1][2]
  IN  IF ~known \/ ~ordered \/ (\E s \in 1 .. last : seen(s) = <<>>) THEN Invalid
      ELSE IF \E s \in tail : complete \/ s # last \/ seen(s) # Domains(Len(seen(s)))
      THEN Invalid
      ELSE [lastFull |-> last - Cardinality(tail), partial |-> tail # {}]
=============================================================================

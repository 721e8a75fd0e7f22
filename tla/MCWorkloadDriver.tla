-------------------------- MODULE MCWorkloadDriver --------------------------
(* Workloads of three rows in two sessions: every shape of dependencies    *)
(* within a session, requests and timers, waits, and session arrivals.     *)
EXTENDS WorkloadDriver

Row(session, send, context, wait, timing, duration) ==
  [session |-> session, send |-> send, context |-> context, wait |-> wait,
   timing |-> timing, duration |-> duration, tokens |-> IF timing THEN 0 ELSE 3,
   domain |-> 0, decode |-> 2]

Shapes(durations) ==
  {<<Row(1, a, 0, w, k1, d), Row(1, b, c, 0, k2, d), Row(s, e, 0, w, k3, d)>> :
     a \in {0, 2}, b \in {0, 1, 3}, c \in {0, 1}, e \in {0, 2}, w \in {0, 2},
     s \in {1, 2}, k1 \in BOOLEAN, k2 \in BOOLEAN, k3 \in BOOLEAN, d \in durations}

Parents(rows, r) == {rows[r].send, rows[r].context} \ {0}
(* validateWorkload: dependencies stay in a session, have no cycle, and a  *)
(* context is a request.                                                   *)
Valid(rows) ==
  /\ \A r \in DOMAIN rows :
       /\ \A q \in Parents(rows, r) : rows[q].session = rows[r].session
       /\ rows[r].context # 0 => ~rows[rows[r].context].timing /\ ~rows[r].timing
  /\ \E rank \in [DOMAIN rows -> 1 .. Len(rows)] :
       \A r \in DOMAIN rows : \A q \in Parents(rows, r) : rank[q] < rank[r]
Sessions(rows, later) ==
  IF \A r \in DOMAIN rows : rows[r].session = 1 THEN <<[id |-> 1, arrival |-> later]>>
  ELSE <<[id |-> 1, arrival |-> 0], [id |-> 2, arrival |-> later]>>
All(durations, limits) ==
  {[rows |-> rows, sessions |-> Sessions(rows, later), concurrency |-> n] :
     rows \in {x \in Shapes(durations) : Valid(x)}, later \in {0, 4}, n \in limits}

Positive == All({1}, {1, 2})
WithZero == All({0}, {1})
=============================================================================

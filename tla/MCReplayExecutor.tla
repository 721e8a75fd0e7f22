-------------------------- MODULE MCReplayExecutor --------------------------
(* Two sessions, planned from recorded traces of a lead and a subagent. *)
EXTENDS ReplayExecutor, TraceAnalyzer

CONSTANTS lead, sub, s1, s2

Row(key, start, finish, actor, ok, tokens) ==
  [key |-> key, start |-> start, finish |-> finish, actor |-> actor,
   ok |-> ok, tokens |-> tokens, kind |-> "continuation"]

(* An answer without token counts, which only takes time, and two requests *)
(* after it at once, one of them in the context of the first.              *)
Branching ==
  << Row(1, 0, 1, lead, TRUE, TRUE), Row(2, 1, 2, sub, TRUE, FALSE),
     Row(3, 2, 3, lead, TRUE, TRUE), Row(4, 2, 4, sub, TRUE, TRUE) >>

(* A turn that fails and is tried again, both in the context of the first, *)
(* and a turn in the context of the retry.                                 *)
Retrying ==
  << Row(1, 0, 1, lead, TRUE, TRUE), Row(2, 1, 2, lead, FALSE, FALSE),
     Row(3, 2, 3, lead, TRUE, TRUE), Row(4, 3, 4, lead, TRUE, TRUE) >>

ByKey(nodes) == [k \in {n.key : n \in nodes} |-> Named(nodes, k)]
TwoPlans ==
  (s1 :> ByKey(Plan(Session(Branching), {}))) @@ (s2 :> ByKey(Plan(Session(Retrying), {})))
=============================================================================

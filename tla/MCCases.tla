------------------------------- MODULE MCCases -------------------------------
(***************************************************************************)
(* The two pure algorithms over bounded inputs, one after the other: the   *)
(* lookup over every cache content, then the analyzer and the planner over *)
(* every short trace of a lead and a subagent.                             *)
(***************************************************************************)
EXTENDS Integers, Sequences, TLC

CONSTANTS lead, sub, none

VARIABLES cached, rows

(* The analyzer tells actors apart, and no more. *)
ActorSymmetry == Permutations({lead, sub})

(* One dense group between two window groups of different block sizes. *)
ThreeGroups ==
  << [kind |-> "window", block |-> 1, window |-> 2, ratio |-> 1],
     [kind |-> "dense", block |-> 2, window |-> 0, ratio |-> 2],
     [kind |-> "window", block |-> 2, window |-> 4, ratio |-> 1] >>

Lookups == INSTANCE LookupCases WITH Groups <- ThreeGroups, Alignment <- 2, N <- 7
Traces == INSTANCE AnalyzedTraces WITH
  Actors <- {lead, sub}, None <- none, Scale <- 1, Offset <- 0,
  Kinds <- {"lead_title", "lead_main", "continuation"}, MaxRows <- 3, MaxTime <- 2

Init == Lookups!Init /\ Traces!Init
Next ==
  \/ Lookups!Next /\ rows = <<>> /\ UNCHANGED rows
  \/ Traces!Next /\ cached = {} /\ UNCHANGED cached
Spec == Init /\ [][Next]_<<cached, rows>>

(* LookupCases: the lookup starts where the most is recovered. *)
HitGreatest == Lookups!HitGreatest
(* LookupCases: what STEP_COMPLETE keeps is enough, and all of it is needed. *)
RetainedSuffices == Lookups!RetainedSuffices
(* AnalyzedTraces: every plan from a trace is accepted. *)
PlansValid == Traces!PlansValid
(* AnalyzedTraces: the replay of a trace keeps its times. *)
SpacingKept == Traces!SpacingKept
=============================================================================

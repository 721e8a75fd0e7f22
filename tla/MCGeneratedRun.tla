--------------------------- MODULE MCGeneratedRun ---------------------------
(* Three requests with every dependency relation, cycles included, and all *)
(* small limits; transfer and decode may take no time.                     *)
EXTENDS GeneratedRun

Afters == {f \in [1 .. 3 -> SUBSET (1 .. 3)] : \A r \in 1 .. 3 : r \notin f[r]}
AllScenarios ==
  {[rows |-> [r \in 1 .. 3 |->
      [domain |-> IF r = 3 THEN d ELSE 0, length |-> IF r = 2 THEN 2 ELSE 3,
       after |-> f[r]]],
    concurrency |-> c, pSlots |-> p, chunk |-> 2, stepBudget |-> b,
    transfer |-> t, decode |-> e] :
     f \in Afters, d \in {0, 1}, c \in {2, 3}, p \in {1, 2}, b \in {1, 3},
     t \in {0, 2}, e \in {0, 1}}
=============================================================================

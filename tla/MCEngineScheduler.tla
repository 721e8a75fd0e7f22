-------------------------- MODULE MCEngineScheduler --------------------------
EXTENDS EngineScheduler

(* Two loads around a request that is computed here, two batches in flight. *)
ConsumerEngine ==
  [prompt |-> <<3, 4, 2, 1>>, max |-> <<4, 2, 3, 1>>, remote |-> {1, 3}, producer |-> FALSE,
   depth |-> 2, blocks |-> 4, size |-> 2, batched |-> 3, seqs |-> 3, mark |-> 0,
   aborts |-> {1, 2, 3}, stops |-> {1, 2, 3}]

(* No connector: outputs grow until somebody is preempted. *)
LocalEngine ==
  [prompt |-> <<3, 2, 5, 4>>, max |-> <<4, 3, 1, 3>>, remote |-> {}, producer |-> FALSE,
   depth |-> 2, blocks |-> 4, size |-> 2, batched |-> 3, seqs |-> 2, mark |-> 0,
   aborts |-> {1, 3}, stops |-> {2, 4}]

(* One token each, prompts longer than a step, one batch at a time. *)
ProducerEngine ==
  [prompt |-> <<5, 3, 7, 2>>, max |-> <<1, 1, 1, 1>>, remote |-> {}, producer |-> TRUE,
   depth |-> 1, blocks |-> 4, size |-> 2, batched |-> 3, seqs |-> 2, mark |-> 1,
   aborts |-> {1, 2, 3, 4}, stops |-> {3}]

AllEngines == {ConsumerEngine, LocalEngine, ProducerEngine}
=============================================================================

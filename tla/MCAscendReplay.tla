--------------------------- MODULE MCAscendReplay ----------------------------
EXTENDS AscendReplay

(* Inputs of every length up to the pool, and of three times a step and more. *)
EveryLength ==
  [prompt |-> [r \in Requests |-> r], max |-> [r \in Requests |-> 1], remote |-> {},
   producer |-> TRUE, depth |-> 2, blocks |-> 8, size |-> 2, batched |-> 3, seqs |-> 2,
   mark |-> 0, aborts |-> {}, stops |-> {}]
OneEngine == {EveryLength}
=============================================================================

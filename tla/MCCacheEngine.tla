---------------------------- MODULE MCCacheEngine ---------------------------
(* Small scenarios of the engine, over a compressed dense group before a   *)
(* window group: inputs that share a prefix, and some beside them.          *)
EXTENDS CacheEngine, TLC

CONSTANTS r1, r2, r3, r4

Row(domain, input, after) ==
  [domain |-> domain, identity |-> "model", input |-> input, after |-> after]
Scenario(rows, pSlots, stepBudget) ==
  [rows |-> rows, concurrency |-> 2, pSlots |-> pSlots, stepBudget |-> stepBudget, maxInput |-> 0]

(* r3 is short and shares nothing: it only takes pages away. *)
Sharing ==
  Scenario(r1 :> Row(0, <<"a", "b", "c", "d">>, {}) @@ r2 :> Row(0, <<"a", "b", "x">>, {})
             @@ r3 :> Row(0, <<"y">>, {r1}), 2, 3)

(* One P slot, and an input that fills the pool alone. *)
Serial ==
  Scenario(r1 :> Row(0, <<"a", "b", "c", "d">>, {})
             @@ r2 :> Row(0, <<"a", "b", "c", "d", "e", "f", "g">>, {})
             @@ r3 :> Row(0, <<"x", "y">>, {}), 1, 3)

TwoDomains ==
  Scenario(r1 :> Row(0, <<"a", "b", "c">>, {}) @@ r2 :> Row(0, <<"a", "b", "c">>, {})
             @@ r3 :> Row(1, <<"a">>, {r1}) @@ r4 :> Row(1, <<"a">>, {}), 1, 3)

AllScenarios == {Sharing, Serial, TwoDomains}
TwoGroups ==
  << [kind |-> "dense", block |-> 2, window |-> 0, ratio |-> 2],
     [kind |-> "window", block |-> 2, window |-> 2, ratio |-> 1] >>
AllKeys ==
  UNION {UNION {{PrefixKey(s.rows[r], m) : m \in AllBlocks(Len(s.rows[r].input))} :
                  r \in DOMAIN s.rows} : s \in AllScenarios}
=============================================================================

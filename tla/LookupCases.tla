---------------------------- MODULE LookupCases -----------------------------
(***************************************************************************)
(* The lookup loop over a cache that changes between two lookups: other    *)
(* requests publish blocks and allocations replace them, in any order.     *)
(* The cache contents are every set of full blocks of one input.           *)
(***************************************************************************)
EXTENDS PrefixLookup

CONSTANT N   \* length of the input

VARIABLE cached

Init == cached = {}
BlockPublished == \E m \in AllBlocks(N) \ cached : cached' = cached \cup {m}
BlockReplaced == \E m \in cached : cached' = cached \ {m}
Next == BlockPublished \/ BlockReplaced
Spec == Init /\ [][Next]_cached

(***************************************************************************)
(* The lookup loop returns the best start there is: the greatest aligned   *)
(* boundary before the last token at which every group can recover its     *)
(* state at once, although each group alone lowers the candidate greedily. *)
(***************************************************************************)
HitGreatest ==
  Hit(cached, N) = Max({c \in Boundaries(N - 1) :
                          \A g \in GroupIds : Recoverable(cached, g, c)})

(***************************************************************************)
(* What STEP_COMPLETE keeps is enough: with every retained block of the    *)
(* input in the cache, a lookup starts at the last aligned boundary, and   *)
(* one retained block less in the window before it makes it start earlier. *)
(***************************************************************************)
RetainedSuffices ==
  LET kept == {m \in AllBlocks(N) : Retained(m[1], m[2])}
      last == Aligned(N - 1)
  IN  /\ kept \subseteq cached => Hit(cached, N) = last
      /\ (\E g \in GroupIds : \E i \in Recovery(g, last) : <<g, i>> \notin cached) =>
           Hit(cached, N) < last
=============================================================================

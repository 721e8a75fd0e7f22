---------------------------- MODULE OrderedDicts ----------------------------
(***************************************************************************)
(* Python's OrderedDict and JavaScript's Map, used by the pools as ordered *)
(* sets of page numbers, and the waiters of an asyncio.Semaphore: each is  *)
(* the sequence of its keys in insertion order, without repetition.        *)
(***************************************************************************)
EXTENDS Integers, Sequences, FiniteSets, Functions

(* All dictionaries with keys in S. *)
OrderedDict(S) == {s \in Seq(S) : IsInjective(s)}

(***************************************************************************)
(* The elements of s that are in S, in the order of s.  It is SelectSeq    *)
(* with the test "in S", written with the rank of a position among the     *)
(* kept ones, so that its properties follow without induction.  Deleting   *)
(* the key p from dictionary s is Kept(s, Range(s) \ {p}).                 *)
(***************************************************************************)
Kept(s, S) ==
  LET D == {i \in 1 .. Len(s) : s[i] \in S}
  IN  [k \in 1 .. Cardinality(D) |->
         s[CHOOSE i \in D : Cardinality({j \in D : j <= i}) = k]]

(* dict.pop(p, None) and Map.delete(p). *)
Without(s, p) == Kept(s, Range(s) \ {p})
=============================================================================

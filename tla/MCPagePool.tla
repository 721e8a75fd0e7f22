----------------------------- MODULE MCPagePool -----------------------------
(* Three pages and two keys: duplicates, reuse and replacement all happen. *)
EXTENDS PagePool

CONSTANTS k1, k2

TwoKeys == {k1, k2}
=============================================================================

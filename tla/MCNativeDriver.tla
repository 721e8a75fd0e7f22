--------------------------- MODULE MCNativeDriver ---------------------------
(* Three requests on two domains, dependent or not, with short and long    *)
(* transfers; the two on the first domain of equal length, or one long     *)
(* enough to be preempted with part of it done.                            *)
EXTENDS NativeDriver

Request(d, n, after, delay) == [domain |-> d, length |-> n, after |-> after, delay |-> delay]
Small ==
  {<<Request(1, n[1], {}, e), Request(1, n[2], a, 1), Request(2, 1, b, 1)>> :
     n \in {<<2, 2>>, <<3, 1>>}, e \in {1, 3}, a \in {{}, {1}}, b \in {{}, {1}, {2}}}
=============================================================================

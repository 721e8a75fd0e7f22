---------------------------- MODULE MCKVTransfer -----------------------------
EXTENDS KVTransfer

CONSTANTS p1, p2, d1, d2, r1, r2

Net(pairs, requests, aborts, senders) ==
  [pairs |-> pairs, requests |-> requests, aborts |-> aborts, senders |-> senders,
   pSlots |-> 1, dSlots |-> Cardinality(requests)]

(* A P rank that serves two D ranks, and a client that may go away. *)
OneToTwo == Net({<<p1, d1>>, <<p1, d2>>}, {r1}, {r1}, 2)
(* A D rank that pulls from two P ranks. *)
TwoToOne == Net({<<p1, d1>>, <<p2, d1>>}, {r1}, {}, 2)
(* Two requests, which D may pull with one message. *)
Batches == Net({<<p1, d1>>}, {r1, r2}, {}, 2)

(* One rank on either side, and one request that may be aborted. *)
OneToOne == Net({<<p1, d1>>}, {r1}, {r1}, 2)

AllNets == {OneToTwo, TwoToOne, Batches, OneToOne}
OneAborted == {OneToOne}
=============================================================================

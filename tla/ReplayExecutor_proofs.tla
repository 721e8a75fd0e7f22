------------------------ MODULE ReplayExecutor_proofs -----------------------
(***************************************************************************)
(* The request slots of the replay client are given back exactly once, and *)
(* a fault reaches only the requests that go on from its answer: for every *)
(* set of sessions, every plan, every number of slots and of faults.       *)
(***************************************************************************)
EXTENDS ReplayExecutor, OrderedDicts_proofs

Stages == {"waiting", "released", "queued", "woken", "sending", "over"}
SessionStates == {"building", "running", "cancelling", "done"}

(* The parts of the inductive invariant. *)
Shape ==
  /\ session \in [Sessions -> SessionStates]
  /\ stage \in [Nodes -> Stages]
  /\ line \in Seq(Nodes) /\ IsInjective(line)
SlotBooks ==
  /\ IsFiniteSet(Holding)
  /\ slots \in Nat
  /\ slots + Cardinality(Holding) = MaxConcurrency
  /\ line # <<>> /\ slots > 0 => \E id \in Nodes : stage[id] = "woken"
  /\ Range(line) = {id \in Nodes : stage[id] = "queued"}

(* The nodes of a session that has not started, or is done, hold nothing. *)
Quiet ==
  \A id \in Nodes : session[id[1]] \in {"building", "done"} => stage[id] \in {"waiting", "over"}

IInv == Shape /\ SlotBooks /\ Quiet

(* A node belongs to a session of the run. *)
LEMMA NodeSession == ASSUME NEW id \in Nodes PROVE id[1] \in Sessions
  BY DEF Nodes, Of

LEMMA InitSound == Init => IInv
<1> SUFFICES ASSUME Init PROVE IInv
  OBVIOUS
<1>1. Holding = {}
  BY DEF Init, Holding
<1>2. Shape
  <2>1. line \in Seq(Nodes) /\ IsInjective(line)
    BY DEF Init, IsInjective
  <2> QED
    BY <2>1 DEF Init, Shape, Stages, SessionStates
<1>3. SlotBooks
  <2>1. IsFiniteSet(Holding) /\ Cardinality(Holding) = 0
    BY <1>1, FS_EmptySet
  <2>2. Range(line) = {} /\ {id \in Nodes : stage[id] = "queued"} = {}
    BY DEF Init, Range
  <2> QED
    BY <2>1, <2>2, ConcurrencyAssumption DEF Init, SlotBooks
<1>4. Quiet
  BY DEF Init, Quiet
<1> QED
  BY <1>2, <1>3, <1>4 DEF IInv

(* A node without a slot, and not in line, moves on without taking one. *)
LEMMA MoveSound ==
  ASSUME IInv, NEW id \in Nodes, NEW to \in {"released", "over"},
         stage[id] \in {"waiting", "released"},
         to = "released" => session[id[1]] \notin {"building", "done"},
         stage' = [stage EXCEPT ![id] = to],
         UNCHANGED <<plan, session, slots, line>>
  PROVE  IInv'
<1>1. Nodes' = Nodes
  BY DEF Nodes, Of
<1>2. \A n \in Nodes : stage'[n] = IF n = id THEN to ELSE stage[n]
  BY DEF IInv, Shape
<1>3. Holding' = Holding
  BY <1>1, <1>2 DEF Holding
<1>4. {n \in Nodes : stage[n] = "queued"}' = {n \in Nodes : stage[n] = "queued"}
  BY <1>1, <1>2
<1>5. Shape'
  BY <1>1 DEF IInv, Shape, Stages
<1>6. SlotBooks'
  <2>1. \A n \in Nodes : stage[n] = "woken" => stage'[n] = "woken"
    BY <1>2
  <2> QED
    BY <1>1, <1>3, <1>4, <2>1 DEF IInv, SlotBooks
<1>7. Quiet'
  BY <1>1, <1>2 DEF IInv, Quiet
<1> QED
  BY <1>5, <1>6, <1>7 DEF IInv

(* The first n of a line are a set first, the line that is left is rest. *)
Split(s, n, first, rest) ==
  /\ \A i \in 1 .. n : s[i] \in first
  /\ \A x \in first : \E i \in 1 .. n : x = s[i]
  /\ Len(rest) = Len(s) - n
  /\ \A i \in 1 .. Len(s) - n : rest[i] = s[n + i]

LEMMA SplitDict ==
  ASSUME NEW T, NEW s \in Seq(T), IsInjective(s), NEW n \in 0 .. Len(s),
         NEW first, NEW rest \in Seq(T), Split(s, n, first, rest)
  PROVE  /\ IsInjective(rest)
         /\ first \subseteq Range(s) /\ Range(rest) = Range(s) \ first
         /\ IsFiniteSet(first) /\ Cardinality(first) = n
<1> DEFINE head == SubSeq(s, 1, n)
<1>1. /\ Len(s) \in Nat /\ n \in Nat /\ n <= Len(s)
      /\ DOMAIN s = 1 .. Len(s) /\ \A i \in 1 .. Len(s) : s[i] \in T
  BY LenProperties
<1>2. /\ head \in Seq(T) /\ Len(head) = n /\ \A i \in 1 .. n : head[i] = s[i]
  BY <1>1, SubSeqProperties
<1>3. /\ Len(rest) = Len(s) - n /\ \A i \in 1 .. Len(s) - n : rest[i] = s[n + i]
      /\ \A i \in 1 .. n : s[i] \in first
      /\ \A x \in first : \E i \in 1 .. n : x = s[i]
  BY DEF Split
<1>4. DOMAIN head = 1 .. n /\ DOMAIN rest = 1 .. (Len(s) - n)
  BY <1>2, <1>3, LenProperties
<1> HIDE DEF head
<1>5. \A i, j \in 1 .. Len(s) : s[i] = s[j] => i = j
  BY <1>1 DEF IsInjective
<1>6. /\ \A x : x \in Range(s) <=> \E i \in 1 .. Len(s) : x = s[i]
      /\ \A x : x \in Range(head) <=> \E i \in 1 .. n : x = head[i]
      /\ \A x : x \in Range(rest) <=> \E i \in 1 .. Len(s) - n : x = rest[i]
  BY <1>1, <1>4 DEF Range
<1>7. IsInjective(rest)
  <2> SUFFICES ASSUME NEW i \in 1 .. Len(s) - n, NEW j \in 1 .. Len(s) - n, rest[i] = rest[j]
               PROVE  i = j
    BY <1>4 DEF IsInjective
  <2>1. n + i \in 1 .. Len(s) /\ n + j \in 1 .. Len(s)
    BY <1>1
  <2>2. n + i = n + j
    BY <1>3, <1>5, <2>1
  <2> QED
    BY <1>1, <2>2
<1>8. \A i \in 1 .. n : i \in 1 .. Len(s)
  BY <1>1
<1>9. first \subseteq Range(s)
  BY <1>3, <1>6, <1>8
<1>10. Range(rest) = Range(s) \ first
  <2>1. ASSUME NEW x \in Range(rest) PROVE x \in Range(s) /\ x \notin first
    <3>1. PICK i \in 1 .. Len(s) - n : x = rest[i]
      BY <1>6, <2>1
    <3>2. n + i \in 1 .. Len(s) /\ n + i \notin 1 .. n
      BY <1>1
    <3>3. x = s[n + i]
      BY <1>3, <3>1
    <3>4. x \in Range(s)
      BY <1>6, <3>2, <3>3
    <3>5. ASSUME NEW j \in 1 .. n PROVE x # s[j]
      <4>1. j \in 1 .. Len(s) /\ j # n + i
        BY <1>8, <3>2
      <4> QED
        BY <1>5, <3>2, <3>3, <4>1
    <3> QED
      BY <1>3, <3>4, <3>5
  <2>2. ASSUME NEW x \in Range(s), x \notin first PROVE x \in Range(rest)
    <3>1. PICK i \in 1 .. Len(s) : x = s[i]
      BY <1>6, <2>2
    <3>2. i \notin 1 .. n
      BY <1>3, <2>2, <3>1
    <3>3. PICK j \in 1 .. Len(s) - n : i = n + j
      <4>1. i - n \in 1 .. Len(s) - n /\ i = n + (i - n)
        BY <1>1, <3>2
      <4> QED
        BY <4>1
    <3>4. x = rest[j]
      BY <1>3, <3>1, <3>3
    <3> QED
      BY <1>6, <3>4
  <2> QED
    BY <2>1, <2>2
<1>11. IsInjective(head)
  <2> SUFFICES ASSUME NEW i \in 1 .. n, NEW j \in 1 .. n, head[i] = head[j]
               PROVE  i = j
    BY <1>4 DEF IsInjective
  <2> QED
    BY <1>2, <1>5, <1>8
<1>12. Range(head) = first
  <2>1. ASSUME NEW x \in Range(head) PROVE x \in first
    BY <1>2, <1>3, <1>6, <2>1
  <2>2. ASSUME NEW x \in first PROVE x \in Range(head)
    BY <1>2, <1>3, <1>6, <2>2
  <2> QED
    BY <2>1, <2>2
<1>13. IsFiniteSet(first) /\ Cardinality(first) = n
  BY <1>2, <1>11, <1>12, DictLength
<1> QED
  BY <1>7, <1>9, <1>10, <1>13

(* A node that takes a slot, goes on with its slot or leaves it, or leaves *)
(* the line: what is free is counted or handed to the waiters that are     *)
(* woken, and as long as there are waiters for a free slot one that was    *)
(* woken will wake them.                                                   *)
LEMMA HandOnSound ==
  ASSUME IInv, NEW id \in Nodes, NEW to \in {"sending", "over"}, NEW back \in Int, NEW most \in Nat,
         \/ id \in Holding /\ to = "sending" /\ back = 0
         \/ id \in Holding /\ to = "over" /\ back = 1
         \/ stage[id] = "queued" /\ to = "over" /\ back = 0
         \/ stage[id] = "released" /\ to = "sending" /\ back = -1 /\ slots > 0,
         line = <<>> \/ most <= slots + back,
         line = <<>> \/ most > 0 \/ slots + back = 0 \/ stage[id] = "queued",
         to = "sending" => session[id[1]] \notin {"building", "done"},
         HandOn(id, to, back, most), UNCHANGED <<plan, session>>
  PROVE  IInv'
<1> DEFINE others == Without(line, id)
           n == IF most < Len(others) THEN most ELSE Len(others)
           next == {others[i] : i \in 1 .. n}
           rest == SubSeq(others, n + 1, Len(others))
           kept == IF to = "sending" THEN Holding \cup {id} ELSE Holding \ {id}
<1>1. /\ Nodes' = Nodes /\ slots \in Nat
      /\ stage[id] \in {"released", "woken", "sending", "queued"}
  BY DEF Nodes, Of, Holding, IInv, SlotBooks
<1>2. /\ others \in Seq(Nodes) /\ IsInjective(others) /\ Range(others) = Range(line) \ {id}
      /\ Len(others) \in Nat
  <2>1. /\ others \in Seq(Nodes) /\ IsInjective(others) /\ Range(others) = Range(line) \ {id}
    BY WithoutFacts DEF IInv, Shape
  <2> HIDE DEF others
  <2> QED
    BY <2>1, LenProperties
<1>3. n \in 0 .. Len(others) /\ n <= most /\ (n < Len(others) => n = most)
  BY <1>2
<1>4. slots' = slots + back - n /\ line' = rest
  BY DEF HandOn
<1>5. stage' = [x \in DOMAIN stage |->
                  IF x = id THEN to ELSE IF x \in next THEN "woken" ELSE stage[x]]
  BY DEF HandOn
<1> HIDE DEF n, others
<1>6. /\ rest \in Seq(Nodes) /\ IsInjective(rest) /\ Len(rest) = Len(others) - n
      /\ next \subseteq Range(others) /\ Range(rest) = Range(others) \ next
      /\ IsFiniteSet(next) /\ Cardinality(next) = n
  <2>1. n \in 0 .. Len(others)
    BY <1>3
  <2>2. rest \in Seq(Nodes) /\ Split(others, n, next, rest)
    <3>1. \A i \in 1 .. Len(others) : others[i] \in Nodes
      BY <1>2
    <3>2. /\ rest \in Seq(Nodes) /\ Len(rest) = Len(others) - n
          /\ \A i \in 1 .. Len(others) - n : rest[i] = others[n + i]
      BY <1>2, <2>1, <3>1, SubSeqProperties
    <3>3. /\ \A i \in 1 .. n : others[i] \in next
          /\ \A x \in next : \E i \in 1 .. n : x = others[i]
      OBVIOUS
    <3> HIDE DEF next, rest
    <3> QED
      BY <3>2, <3>3 DEF Split
  <2>3. others \in Seq(Nodes) /\ IsInjective(others)
    BY <1>2
  <2> HIDE DEF next, rest
  <2>4. /\ IsInjective(rest) /\ next \subseteq Range(others)
        /\ Range(rest) = Range(others) \ next
        /\ IsFiniteSet(next) /\ Cardinality(next) = n
    BY <2>1, <2>2, <2>3, SplitDict
  <2>5. Len(rest) = Len(others) - n
    BY <2>2 DEF Split
  <2> QED
    BY <2>2, <2>4, <2>5
<1> HIDE DEF next, rest
<1>7. \A x \in next : x \in Nodes /\ stage[x] = "queued" /\ x # id
  BY <1>2, <1>6 DEF IInv, SlotBooks
<1>8. \A x \in Nodes : stage'[x] = IF x = id THEN to ELSE IF x \in next THEN "woken" ELSE stage[x]
  BY <1>5 DEF IInv, Shape
<1>9. Holding' = kept \cup next
  BY <1>1, <1>7, <1>8 DEF Holding
<1>10. IsFiniteSet(Holding) /\ Cardinality(Holding) \in Nat
  BY FS_CardinalityType DEF IInv, SlotBooks
<1>11. IsFiniteSet(kept) /\ Cardinality(kept) = Cardinality(Holding) - back
  <2>1. CASE id \in Holding /\ to = "sending" /\ back = 0
    <3>1. kept = Holding
      BY <2>1
    <3>2. Cardinality(Holding) = Cardinality(Holding) - back
      BY <1>10, <2>1
    <3> HIDE DEF kept
    <3> QED
      BY <1>10, <3>1, <3>2
  <2>2. CASE id \in Holding /\ to = "over" /\ back = 1
    <3>1. IsFiniteSet(Holding \ {id}) /\ Cardinality(Holding \ {id}) = Cardinality(Holding) - 1
      BY <1>10, <2>2, FS_RemoveElement
    <3> QED
      BY <2>2, <3>1
  <2>4. CASE stage[id] = "queued" /\ to = "over" /\ back = 0
    <3>1. id \notin Holding
      BY <2>4 DEF Holding
    <3>2. kept = Holding /\ Cardinality(Holding) = Cardinality(Holding) - back
      BY <1>10, <2>4, <3>1
    <3> HIDE DEF kept
    <3> QED
      BY <1>10, <3>2
  <2>3. CASE stage[id] = "released" /\ to = "sending" /\ back = -1
    <3>1. id \notin Holding
      BY <2>3 DEF Holding
    <3>2. /\ IsFiniteSet(Holding \cup {id})
          /\ Cardinality(Holding \cup {id}) = Cardinality(Holding) + 1
      BY <1>10, <3>1, FS_AddElement
    <3> QED
      BY <1>10, <2>3, <3>2
  <2> QED
    BY <2>1, <2>2, <2>4, <2>3
<1>12. kept \cap next = {}
  BY <1>7 DEF Holding
<1>13. IsFiniteSet(Holding') /\ Cardinality(Holding') = Cardinality(Holding) - back + n
  <2>1. IsFiniteSet(kept \cup next)
    BY <1>6, <1>11, FS_Union
  <2>2. Cardinality(kept \cup next) = Cardinality(kept) + Cardinality(next) - Cardinality(kept \cap next)
    BY <1>6, <1>11, FS_Union
  <2>3. Cardinality(kept \cap next) = 0
    BY <1>12, FS_EmptySet
  <2> HIDE DEF kept
  <2> QED
    BY <1>3, <1>6, <1>9, <1>10, <1>11, <2>1, <2>2, <2>3
<1>14. slots + back >= 0 /\ n <= slots + back
  <2>1. line = <<>> => n = 0
    <3>1. line = <<>> => Range(others) = {}
      BY <1>2 DEF Range
    <3>2. Len(others) # 0 => others[1] \in Range(others)
      BY <1>2, LenProperties DEF Range
    <3> QED
      BY <1>2, <1>3, <3>1, <3>2
  <2>2. back = 0 \/ back = 1 \/ (back = -1 /\ slots > 0)
    OBVIOUS
  <2> QED
    BY <1>1, <1>3, <2>1, <2>2
<1>15. Shape'
  <2>1. stage' \in [Nodes -> Stages]
    BY <1>5 DEF IInv, Shape, Stages
  <2> QED
    BY <1>1, <1>4, <1>6, <2>1 DEF IInv, Shape
<1>16. SlotBooks'
  <2>1. slots' \in Nat /\ slots' + Cardinality(Holding') = MaxConcurrency
    <3>1. n \in Int /\ back \in Int /\ slots \in Int /\ Cardinality(Holding) \in Int
      BY <1>1, <1>2, <1>3, <1>10
    <3>2. slots' \in Nat
      BY <1>4, <1>14, <3>1
    <3>3. slots + Cardinality(Holding) = MaxConcurrency
      BY DEF IInv, SlotBooks
    <3> QED
      BY <1>4, <1>13, <3>1, <3>2, <3>3
  <2>2. ASSUME line' # <<>>, slots' > 0 PROVE \E x \in Nodes' : stage'[x] = "woken"
    <3>1. n < Len(others)
      <4>1. Len(rest) # 0
        BY <1>4, <1>6, <2>2, EmptySeq
      <4> QED
        BY <1>2, <1>3, <1>6, <4>1
    <3>2. n = most /\ line # <<>>
      <4>1. others[1] \in Range(others)
        BY <1>2, <1>3, <3>1, LenProperties DEF Range
      <4> QED
        BY <1>2, <1>3, <3>1, <4>1 DEF Range
    <3>3. CASE most > 0
      <4>1. others[1] \in next
        BY <1>3, <3>2, <3>3 DEF next
      <4> QED
        BY <1>1, <1>7, <1>8, <4>1
    <3>4. CASE most = 0
      <4>1. stage[id] = "queued" /\ slots > 0
        <5>1. slots' = slots + back
          BY <1>1, <1>4, <3>2, <3>4
        <5>2. slots + back # 0
          BY <2>2, <5>1
        <5>3. stage[id] = "queued"
          BY <3>2, <3>4, <5>2
        <5>4. back = 0
          BY <5>3 DEF Holding
        <5> QED
          BY <1>1, <2>2, <5>1, <5>3, <5>4
      <4>2. PICK w \in Nodes : stage[w] = "woken"
        BY <3>2, <4>1 DEF IInv, SlotBooks
      <4>3. stage'[w] = "woken"
        BY <1>8, <4>1, <4>2
      <4> QED
        BY <1>1, <4>3
    <3> QED
      BY <3>3, <3>4
  <2>3. Range(line') = {x \in Nodes : stage[x] = "queued"}'
    <3>1. {x \in Nodes : stage[x] = "queued"}' = ({x \in Nodes : stage[x] = "queued"} \ {id}) \ next
      BY <1>1, <1>7, <1>8
    <3> QED
      BY <1>2, <1>4, <1>6, <3>1 DEF IInv, SlotBooks
  <2> QED
    BY <1>13, <2>1, <2>2, <2>3 DEF SlotBooks
<1>17. Quiet'
  <2> SUFFICES ASSUME NEW x \in Nodes, session[x[1]] \in {"building", "done"}
               PROVE  stage'[x] \in {"waiting", "over"}
    BY <1>1 DEF Quiet
  <2>1. stage[x] \in {"waiting", "over"} /\ x \notin next
    BY <1>7 DEF IInv, Quiet
  <2> QED
    BY <1>8, <2>1
<1> QED
  BY <1>15, <1>16, <1>17 DEF IInv

(* The ways of a node that has a slot, or waits for one. *)
LEMMA LeaveSound ==
  ASSUME IInv, NEW id \in Nodes, UNCHANGED <<plan, session>>,
         \/ stage[id] = "sending" /\ Leave(id)
         \/ stage[id] = "woken" /\ Untaken(id)
         \/ stage[id] = "queued" /\ Unlined(id)
         \/ stage[id] = "woken" /\ Taken(id) /\ session[id[1]] = "running"
  PROVE  IInv'
<1>1. slots \in Nat
  BY DEF IInv, SlotBooks
<1>2. stage[id] \in {"woken", "sending"} => id \in Holding
  BY DEF Holding
<1>3. CASE stage[id] = "sending" /\ Leave(id)
  BY <1>1, <1>2, <1>3, HandOnSound DEF Leave
<1>4. CASE stage[id] = "woken" /\ Untaken(id)
  <2>1. PICK most \in 1 .. slots + 1 : HandOn(id, "over", 1, most)
    BY <1>4 DEF Untaken
  <2> QED
    BY <1>1, <1>2, <1>4, <2>1, HandOnSound
<1>5. CASE stage[id] = "queued" /\ Unlined(id)
  <2>1. PICK most \in 0 .. slots : HandOn(id, "over", 0, most)
    BY <1>5 DEF Unlined
  <2> QED
    BY <1>1, <1>5, <2>1, HandOnSound
<1>6. CASE stage[id] = "woken" /\ Taken(id) /\ session[id[1]] = "running"
  <2>1. PICK most \in 0 .. slots : (slots > 0 => most > 0) /\ HandOn(id, "sending", 0, most)
    BY <1>6 DEF Taken
  <2>2. most \in Nat /\ most <= slots + 0 /\ (most > 0 \/ slots + 0 = 0)
    BY <1>1, <2>1
  <2> QED
    BY <1>2, <1>6, <2>1, <2>2, HandOnSound
<1> QED
  BY <1>3, <1>4, <1>5, <1>6

(* A node that queues goes to the end of the line. *)
LEMMA QueueSound ==
  ASSUME IInv, NEW id \in Nodes, Queue(id)
  PROVE  IInv'
<1>1. Nodes' = Nodes /\ stage[id] = "released" /\ id \notin Range(line)
  BY DEF Nodes, Of, Queue, Going, IInv, SlotBooks
<1>2. \A n \in Nodes : stage'[n] = IF n = id THEN "queued" ELSE stage[n]
  BY DEF Queue, IInv, Shape
<1>3. /\ line' \in Seq(Nodes) /\ IsInjective(line')
      /\ Range(line') = Range(line) \cup {id}
  BY <1>1, AppendDict DEF Queue, IInv, Shape
<1>4. Holding' = Holding
  BY <1>1, <1>2 DEF Holding
<1>5. {n \in Nodes : stage[n] = "queued"}' = {n \in Nodes : stage[n] = "queued"} \cup {id}
  BY <1>1, <1>2
<1>6. Shape'
  BY <1>1, <1>3 DEF Queue, IInv, Shape, Stages
<1>7. SlotBooks'
  <2>1. slots' = slots /\ slots \in Nat
    BY DEF Queue, IInv, SlotBooks
  <2>2. slots = 0 \/ \E n \in Nodes : stage[n] = "woken"
    BY <2>1 DEF Queue, Locked, IInv, SlotBooks
  <2>3. \A n \in Nodes : stage[n] = "woken" => stage'[n] = "woken"
    BY <1>1, <1>2
  <2> QED
    BY <1>1, <1>3, <1>4, <1>5, <2>1, <2>2, <2>3 DEF IInv, SlotBooks
<1>8. Quiet'
  BY <1>1, <1>2 DEF Queue, Going, IInv, Quiet
<1> QED
  BY <1>6, <1>7, <1>8 DEF IInv

(* A request goes out on a free slot, or on the one handed to its node. *)
LEMMA SendSound ==
  ASSUME IInv, NEW id \in Nodes, Send(id)
  PROVE  IInv'
<1>1. session[id[1]] = "running" /\ UNCHANGED <<plan, session>>
  BY DEF Send, Going
<1>2. CASE stage[id] = "released" /\ ~Locked /\ HandOn(id, "sending", -1, 0)
  <2>1. line = <<>> /\ slots > 0
    BY <1>2 DEF Locked, IInv, SlotBooks
  <2> QED
    BY <1>1, <1>2, <2>1, HandOnSound
<1>3. CASE stage[id] = "woken" /\ Taken(id)
  BY <1>1, <1>3, LeaveSound
<1> QED
  BY <1>2, <1>3 DEF Send, Going

(* A session starts with nothing held, and ends with every node over. *)
LEMMA SessionSound ==
  ASSUME IInv, NEW s \in Sessions, Start(s) \/ Timeout(s) \/ Finish(s)
  PROVE  IInv'
<1>1. Nodes' = Nodes /\ UNCHANGED <<stage, slots, line>>
  BY DEF Nodes, Of, Start, Timeout, Finish, admission
<1>2. Shape'
  BY <1>1 DEF Start, Timeout, Finish, IInv, Shape, SessionStates
<1>3. SlotBooks'
  BY <1>1 DEF IInv, SlotBooks, Holding
<1>4. Quiet'
  <2> SUFFICES ASSUME NEW id \in Nodes, session'[id[1]] \in {"building", "done"}
               PROVE  stage[id] \in {"waiting", "over"}
    BY <1>1 DEF Quiet
  <2>1. CASE session[id[1]] \in {"building", "done"}
    BY <2>1 DEF IInv, Quiet
  <2>2. CASE session[id[1]] \in {"running", "cancelling"}
    <3>1. id[1] = s /\ Finish(s)
      BY <2>2, NodeSession DEF Start, Timeout, Finish, IInv, Shape
    <3>2. id \in Of(s)
      BY <3>1 DEF Nodes, Of
    <3> QED
      BY <3>1, <3>2 DEF Finish
  <2> QED
    BY <2>1, <2>2, NodeSession DEF IInv, Shape, SessionStates
<1> QED
  BY <1>2, <1>3, <1>4 DEF IInv

(* Every step keeps the books of the slots. *)
LEMMA StepSound == IInv /\ [Next]_vars => IInv'
<1> SUFFICES ASSUME IInv, [Next]_vars PROVE IInv'
  OBVIOUS
<1>1. CASE UNCHANGED vars
  BY <1>1 DEF vars, IInv, Shape, SlotBooks, Quiet, Holding, Nodes, Of
<1>2. CASE \E s \in Sessions : Start(s) \/ Timeout(s) \/ Finish(s)
  BY <1>2, SessionSound
<1>3. ASSUME NEW id \in Nodes, NodeStep(id) PROVE IInv'
  <2>1. CASE BuildPrompt(id)
    BY <2>1 DEF BuildPrompt, admission, IInv, Shape, SlotBooks, Quiet, Holding, Nodes, Of
  <2>2. CASE PromptMissing(id) \/ Skip(id) \/ Elapse(id)
    BY <2>2, MoveSound DEF PromptMissing, Skip, Elapse, Going, Over, admission
  <2>3. CASE Release(id)
    BY <2>3, MoveSound DEF Release, Going, admission
  <2>4. CASE Queue(id)
    BY <2>4, QueueSound
  <2>5. CASE Send(id)
    BY <2>5, SendSound
  <2>6. CASE SampleFails(id)
    <3>1. CASE Going(id, "released") /\ Over(id) /\ UNCHANGED <<slots, line>>
      BY <2>6, <3>1, MoveSound DEF SampleFails, Going, Over
    <3>2. CASE Going(id, "woken") /\ Untaken(id)
      BY <2>6, <3>2, LeaveSound DEF SampleFails, Going
    <3> QED
      BY <2>6, <3>1, <3>2 DEF SampleFails
  <2>7. CASE Answer(id) \/ SendRaises(id)
    BY <2>7, LeaveSound DEF Answer, SendRaises, Going
  <2>8. CASE Cancel(id)
    <3>1. UNCHANGED <<plan, session>>
      BY <2>8 DEF Cancel
    <3>2. CASE stage[id] \in {"sending", "woken", "queued"}
      <4>1. \/ stage[id] = "sending" /\ Leave(id)
            \/ stage[id] = "woken" /\ Untaken(id)
            \/ stage[id] = "queued" /\ Unlined(id)
        BY <2>8, <3>2 DEF Cancel
      <4> QED
        BY <3>1, <4>1, LeaveSound
    <3>4. CASE stage[id] \in {"waiting", "released"}
      <4>1. Over(id) /\ UNCHANGED <<slots, line>>
        BY <2>8, <3>4 DEF Cancel, admission
      <4> QED
        BY <3>1, <3>4, <4>1, MoveSound DEF Over
    <3> QED
      BY <2>8, <3>2, <3>4 DEF Cancel, IInv, Shape, Stages
  <2> QED
    BY <1>3, <2>1, <2>2, <2>3, <2>4, <2>5, <2>6, <2>7, <2>8 DEF NodeStep
<1> QED
  BY <1>1, <1>2, <1>3 DEF Next

(* The slots are exact: as many as free ones and requests out, no waiter   *)
(* left behind, none kept by a task that is done.  A node in line can be   *)
(* woken, sent, failed or cancelled in any order; the argument is that     *)
(* slots change hands in HandOn only, that whoever is woken wakes others   *)
(* as far as slots are free, and that only a node that is over lets its    *)
(* session end (Quiet).                                                    *)
THEOREM SlotsCorrect == Spec => []SlotsExact
<1>1. IInv => SlotsExact
  <2> SUFFICES ASSUME IInv, NEW id \in Holding \cup Range(line), session[id[1]] = "done"
               PROVE  FALSE
    BY DEF SlotsExact, IInv, SlotBooks
  <2>1. id \in Nodes /\ stage[id] \in {"woken", "sending", "queued"}
    BY DEF Holding, IInv, SlotBooks
  <2> QED
    BY <2>1 DEF IInv, Quiet
<1> QED
  BY <1>1, InitSound, StepSound, PTL DEF Spec

-----------------------------------------------------------------------------
(***************************************************************************)
(* The faults.  What a node has done so far agrees with the outcomes of    *)
(* the node whose answer it goes on from.                                  *)
(***************************************************************************)
Outcomes == {"success", "failed", "skipped"}
Succeeded == {id \in Nodes : completion[id] = "success"}
ContextHolds(id) == Continues(id) => ContextOf(id) \in Succeeded

Records ==
  /\ plan = Plans
  /\ prompt \in [Nodes -> {"none", "ready", "failed"}]
  /\ completion \in [Nodes -> {"none"} \cup Outcomes]
  /\ struck \subseteq Nodes
  /\ results \subseteq [node : Nodes, status : Outcomes, attempted : BOOLEAN]

(* A request is sent with its prompt, and a prompt is built on an answer.  *)
Underway(id) ==
  /\ stage[id] # "over" => completion[id] = "none"
  /\ stage[id] \in {"queued", "woken", "sending"} => Node(id).request
  /\ stage[id] \in {"released", "queued", "woken", "sending"} /\ Node(id).request => prompt[id] = "ready"
  /\ prompt[id] # "none" => Node(id).request /\ ContextHolds(id)
  /\ prompt[id] = "failed" => id \in struck
  /\ id \in struck /\ stage[id] # "over" => stage[id] = "waiting" /\ prompt[id] = "failed"
  /\ session[id[1]] = "building" => stage[id] = "waiting" /\ prompt[id] = "none"

Explained(id) ==
  /\ completion[id] = "success" => id \notin struck /\ ContextHolds(id)
  /\ completion[id] = "failed" => id \in struck /\ ContextHolds(id)
  /\ completion[id] = "skipped" => Continues(id) /\ Lineage(ContextOf(id)) \cap struck # {}

Agrees(r) ==
  /\ stage[r.node] = "over"
  /\ r.status = "success" => completion[r.node] = "success"
  /\ r.status = "failed" => r.node \in struck /\ ContextHolds(r.node)
  /\ r.status = "skipped" => completion[r.node] = "skipped"

Reported ==
  /\ \A r, q \in results : r.node = q.node => r = q
  /\ \A id \in Nodes : completion[id] # "none" => \E r \in results : r.node = id

(* Only a cancelled node ends without an outcome. *)
Ending ==
  /\ \A id \in Nodes : stage[id] = "over" /\ id[1] \notin timedOut => completion[id] # "none"
  /\ \A s \in Sessions : session[s] = "cancelling" => s \in timedOut
  /\ \A id \in Nodes : session[id[1]] = "done" /\ id[1] \notin timedOut => stage[id] = "over"

FInv ==
  /\ Records
  /\ \A id \in Nodes : Underway(id) /\ Explained(id)
  /\ \A r \in results : Agrees(r)
  /\ Reported /\ Ending

(* What a step of a node does to the stages: the node moves to to, and the *)
(* nodes that slots are handed to are woken.                               *)
StageMoves(id, to) ==
  /\ stage' \in [Nodes -> Stages] /\ stage'[id] = to
  /\ \A n \in Nodes \ {id} : stage'[n] = stage[n] \/ (stage[n] = "queued" /\ stage'[n] = "woken")

(* The context of a node is a node of its session. *)
LEMMA ContextNode ==
  ASSUME Records, NEW id \in Nodes, Continues(id)
  PROVE  ContextOf(id) \in Nodes /\ ContextOf(id)[1] = id[1]
<1>1. PICK s \in Sessions : \E k \in DOMAIN plan[s] : id = <<s, k>>
  BY DEF Nodes, Of
<1> PICK k \in DOMAIN plan[s] : id = <<s, k>>
  BY <1>1
<1>2. plan[s][k].context_after \in DOMAIN plan[s]
  BY <1>1, PlansAssumption DEF Records, Continues, Node
<1> QED
  BY <1>1, <1>2 DEF ContextOf, Peer, Node, Nodes, Of

(* A lineage starts with the node and goes on with that of its context. *)
LEMMA LineageFacts ==
  ASSUME Records, NEW id \in Nodes
  PROVE  /\ id \in Lineage(id) /\ Lineage(id) \subseteq Nodes
         /\ Continues(id) => Lineage(ContextOf(id)) \subseteq Lineage(id)
<1>1. id \in Of(id[1]) /\ Of(id[1]) \subseteq Nodes
  BY DEF Nodes, Of
<1>2. id \in Lineage(id) /\ Lineage(id) \subseteq Nodes
  BY <1>1 DEF Lineage
<1>3. ASSUME Continues(id), NEW n \in Lineage(ContextOf(id))
      PROVE  n \in Lineage(id)
  <2>1. n \in Of(id[1])
    BY <1>3, ContextNode DEF Lineage
  <2>2. ASSUME NEW S \in SUBSET Of(id[1]), id \in S, WithContexts(S)
        PROVE  n \in S
    <3>1. ContextOf(id) \in S
      BY <1>3, <2>2 DEF WithContexts
    <3> QED
      BY <1>3, <2>2, <3>1, ContextNode DEF Lineage
  <2> QED
    BY <2>1, <2>2 DEF Lineage
<1> QED
  BY <1>2, <1>3

(* No fault lies behind an answer: the nodes that succeeded contain the    *)
(* contexts they went on from.                                             *)
LEMMA SuccessClean ==
  ASSUME FInv, NEW id \in Succeeded
  PROVE  Lineage(id) \cap struck = {}
<1> DEFINE S == Succeeded \cap Of(id[1])
<1>1. id \in Nodes /\ id \in S /\ Records
  BY DEF FInv, Succeeded, Nodes, Of
<1>2. WithContexts(S)
  <2> SUFFICES ASSUME NEW n \in S, Continues(n) PROVE ContextOf(n) \in S
    BY DEF WithContexts
  <2>1. n \in Nodes /\ ContextOf(n) \in Succeeded
    BY DEF FInv, Explained, ContextHolds, Succeeded
  <2>2. ContextOf(n) \in Nodes /\ ContextOf(n)[1] = id[1]
    BY <1>1, <2>1, ContextNode DEF Of
  <2> QED
    BY <2>1, <2>2 DEF Nodes, Of
<1>3. Lineage(id) \subseteq S
  BY <1>1, <1>2 DEF Lineage
<1>4. \A n \in S : n \notin struck
  BY DEF FInv, Explained, Succeeded
<1> QED
  BY <1>3, <1>4

(* What stays true of a node while others succeed and faults are added. *)
LEMMA Keeps ==
  ASSUME UNCHANGED plan, Succeeded \subseteq Succeeded', struck \subseteq struck', NEW n
  PROVE  /\ Nodes' = Nodes /\ Node(n)' = Node(n) /\ Continues(n)' = Continues(n)
         /\ ContextOf(n)' = ContextOf(n)
         /\ Lineage(ContextOf(n))' = Lineage(ContextOf(n))
         /\ ContextHolds(n) => ContextHolds(n)'
         /\ Lineage(ContextOf(n)) \cap struck # {} => Lineage(ContextOf(n))' \cap struck' # {}
<1>1. /\ Nodes' = Nodes /\ Node(n)' = Node(n) /\ Continues(n)' = Continues(n)
      /\ ContextOf(n)' = ContextOf(n)
  BY DEF Nodes, Of, Node, Continues, ContextOf, Peer
<1>2. Lineage(ContextOf(n))' = Lineage(ContextOf(n))
  BY DEF Lineage, WithContexts, Of, Node, Continues, ContextOf, Peer
<1> QED
  BY <1>1, <1>2 DEF ContextHolds

(* A node that moves on without an outcome.  Only a cancelled one ends so. *)
LEMMA QuietFaults ==
  ASSUME FInv, NEW id \in Nodes, NEW to \in Stages \ {"waiting"},
         stage[id] # "over", session[id[1]] # "building", StageMoves(id, to),
         UNCHANGED <<plan, session, timedOut, prompt, completion, results, struck>>,
         to = "over" => session[id[1]] = "cancelling",
         to \in {"queued", "woken", "sending"} => Node(id).request,
         to # "over" => id \notin struck /\ (Node(id).request => prompt[id] = "ready")
  PROVE  FInv'
<1>1. /\ Nodes' = Nodes /\ Succeeded' = Succeeded /\ id[1] \in Sessions
      /\ \A n : Node(n)' = Node(n) /\ Continues(n)' = Continues(n)
                /\ (ContextHolds(n) => ContextHolds(n)')
                /\ ContextOf(n)' = ContextOf(n) /\ Lineage(ContextOf(n))' = Lineage(ContextOf(n))
  <2>1. Succeeded' = Succeeded
    BY DEF Succeeded, Nodes, Of
  <2> QED
    BY <2>1, Keeps, NodeSession
<1>2. Records'
  BY <1>1 DEF FInv, Records
<1>3. ASSUME NEW n \in Nodes PROVE Underway(n)' /\ Explained(n)'
  <2>1. Underway(n) /\ Explained(n)
    BY <1>3 DEF FInv
  <2>2. Explained(n)'
    BY <1>1, <2>1 DEF Explained
  <2>3. Underway(n)'
    <3>1. CASE n = id
      BY <1>1, <2>1, <3>1 DEF Underway, StageMoves, Stages
    <3>2. CASE n # id
      <4>1. stage'[n] = stage[n] \/ (stage[n] = "queued" /\ stage'[n] = "woken")
        BY <3>2 DEF StageMoves
      <4> QED
        BY <1>1, <2>1, <4>1 DEF Underway
    <3> QED
      BY <3>1, <3>2
  <2> QED
    BY <2>2, <2>3
<1>4. ASSUME NEW r \in results' PROVE Agrees(r)'
  <2>1. r \in results /\ Agrees(r) /\ r.node \in Nodes
    BY DEF FInv, Records
  <2>2. stage'[r.node] = "over"
    BY <2>1 DEF Agrees, StageMoves
  <2> QED
    BY <1>1, <2>1, <2>2 DEF Agrees
<1>5. Reported'
  BY <1>1 DEF FInv, Reported
<1>6. Ending'
  <2>1. ASSUME NEW n \in Nodes, stage'[n] = "over", n[1] \notin timedOut
        PROVE  completion[n] # "none"
    BY <1>1, <2>1 DEF FInv, Ending, StageMoves
  <2>2. ASSUME NEW n \in Nodes, session[n[1]] = "done", n[1] \notin timedOut
        PROVE  stage'[n] = "over"
    BY <1>1, <2>2 DEF FInv, Ending, StageMoves
  <2> QED
    BY <1>1, <2>1, <2>2 DEF FInv, Ending
<1> QED
  BY <1>1, <1>2, <1>3, <1>4, <1>5, <1>6 DEF FInv

(* A node that ends with an entry, and with its outcome unless it was      *)
(* cancelled.                                                              *)
LEMMA EndFaults ==
  ASSUME FInv, NEW id \in Nodes, NEW status \in Outcomes, NEW attempted \in BOOLEAN,
         stage[id] # "over", session[id[1]] # "building", StageMoves(id, "over"),
         results' = results \cup {[node |-> id, status |-> status, attempted |-> attempted]},
         \/ completion' = [completion EXCEPT ![id] = status]
         \/ completion' = completion /\ status = "failed" /\ session[id[1]] = "cancelling",
         struck' = struck \cup (IF status = "failed" THEN {id} ELSE {}),
         UNCHANGED <<plan, session, timedOut, prompt>>,
         status = "success" => id \notin struck,
         status # "skipped" => ContextHolds(id),
         status = "skipped" => Continues(id) /\ Lineage(ContextOf(id)) \cap struck # {}
  PROVE  FInv'
<1>1. completion[id] = "none" /\ id[1] \in Sessions
  BY NodeSession DEF FInv, Underway
<1>2. /\ completion' \in [Nodes -> {"none"} \cup Outcomes]
      /\ \A n \in Nodes \ {id} : completion'[n] = completion[n]
      /\ \/ completion'[id] = status
         \/ completion'[id] = "none" /\ status = "failed" /\ session[id[1]] = "cancelling"
  <2>1. completion \in [Nodes -> {"none"} \cup Outcomes]
    BY DEF FInv, Records
  <2>2. CASE completion' = [completion EXCEPT ![id] = status]
    BY <2>1, <2>2
  <2>3. CASE completion' = completion /\ status = "failed" /\ session[id[1]] = "cancelling"
    BY <1>1, <2>1, <2>3
  <2> QED
    BY <2>2, <2>3
<1>3. Succeeded \subseteq Succeeded' /\ struck \subseteq struck'
  <2>1. Nodes' = Nodes
    BY DEF Nodes, Of
  <2>2. \A n \in Nodes : completion[n] = "success" => completion'[n] = "success"
    BY <1>1, <1>2
  <2> QED
    BY <2>1, <2>2 DEF Succeeded
<1>4. /\ Nodes' = Nodes
      /\ \A n : Node(n)' = Node(n) /\ Continues(n)' = Continues(n)
                /\ (ContextHolds(n) => ContextHolds(n)')
                /\ ContextOf(n)' = ContextOf(n) /\ Lineage(ContextOf(n))' = Lineage(ContextOf(n))
                /\ (Lineage(ContextOf(n)) \cap struck # {} => Lineage(ContextOf(n))' \cap struck' # {})
  BY <1>3, Keeps
<1>5. Records'
  BY <1>2, <1>4 DEF FInv, Records
<1>6. ASSUME NEW n \in Nodes PROVE Underway(n)' /\ Explained(n)'
  <2>1. Underway(n) /\ Explained(n)
    BY <1>6 DEF FInv
  <2>2. CASE n = id
    <3>1. stage'[id] = "over"
      BY DEF StageMoves
    <3>2. Underway(id)'
      BY <1>4, <2>1, <2>2, <3>1 DEF Underway
    <3>3. Explained(id)'
      BY <1>2, <1>4 DEF Explained, Outcomes
    <3> QED
      BY <2>2, <3>2, <3>3
  <2>3. CASE n # id
    <3>1. stage'[n] = stage[n] \/ (stage[n] = "queued" /\ stage'[n] = "woken")
      BY <2>3 DEF StageMoves
    <3>2. completion'[n] = completion[n] /\ (n \in struck' <=> n \in struck)
      BY <1>2, <2>3
    <3>3. Underway(n)'
      BY <1>4, <2>1, <3>1, <3>2 DEF Underway
    <3>4. Explained(n)'
      BY <1>4, <2>1, <3>2 DEF Explained
    <3> QED
      BY <3>3, <3>4
  <2> QED
    BY <2>2, <2>3
<1>7. \A r \in results : r.node \in Nodes \ {id} /\ r.node \in Nodes
  BY DEF FInv, Records, Agrees
<1>8. ASSUME NEW r \in results' PROVE Agrees(r)'
  <2>1. CASE r \in results
    <3>1. Agrees(r) /\ r.node \in Nodes \ {id}
      BY <1>7, <2>1 DEF FInv
    <3>2. stage'[r.node] = "over" /\ completion'[r.node] = completion[r.node]
      BY <1>2, <3>1 DEF Agrees, StageMoves
    <3> QED
      BY <1>3, <1>4, <3>1, <3>2 DEF Agrees
  <2>2. CASE r = [node |-> id, status |-> status, attempted |-> attempted]
    <3>1. stage'[r.node] = "over" /\ r.node = id /\ r.status = status
      BY <2>2 DEF StageMoves
    <3> QED
      BY <1>2, <1>4, <3>1 DEF Agrees
  <2> QED
    BY <2>1, <2>2
<1>9. Reported'
  <2>1. ASSUME NEW r \in results', NEW q \in results', r.node = q.node PROVE r = q
    BY <1>7, <2>1 DEF FInv, Reported
  <2>2. ASSUME NEW n \in Nodes, completion'[n] # "none" PROVE \E r \in results' : r.node = n
    <3>1. CASE n = id
      <4> DEFINE entry == [node |-> id, status |-> status, attempted |-> attempted]
      <4>1. entry \in results' /\ entry.node = id
        OBVIOUS
      <4> QED
        BY <3>1, <4>1
    <3>2. CASE n # id
      BY <1>2, <2>2, <3>2 DEF FInv, Reported
    <3> QED
      BY <3>1, <3>2
  <2> QED
    BY <1>4, <2>1, <2>2 DEF Reported
<1>10. Ending'
  <2>1. ASSUME NEW n \in Nodes, stage'[n] = "over", n[1] \notin timedOut
        PROVE  completion'[n] # "none"
    BY <1>1, <1>2, <2>1 DEF FInv, Ending, StageMoves, Outcomes
  <2>2. ASSUME NEW n \in Nodes, session[n[1]] = "done", n[1] \notin timedOut
        PROVE  stage'[n] = "over"
    BY <2>2 DEF FInv, Ending, StageMoves
  <2> QED
    BY <1>4, <2>1, <2>2 DEF FInv, Ending
<1> QED
  BY <1>4, <1>5, <1>6, <1>8, <1>9, <1>10 DEF FInv

(* A prompt is built, or cannot be. *)
LEMMA BuildFaults ==
  ASSUME FInv, NEW id \in Nodes, BuildPrompt(id)
  PROVE  FInv'
<1>1. /\ session[id[1]] = "running" /\ stage[id] = "waiting" /\ Continues(id)
      /\ UNCHANGED <<plan, session, timedOut, stage, completion, results>>
      /\ prompt' \in [Nodes -> {"none", "ready", "failed"}]
      /\ \A n \in Nodes \ {id} : prompt'[n] = prompt[n]
      /\ \/ prompt'[id] = "ready" /\ struck' = struck
         \/ prompt'[id] = "failed" /\ struck' = struck \cup {id}
  BY DEF BuildPrompt, Going, FInv, Records
<1>2. Node(id).request /\ ContextHolds(id) /\ completion[id] = "none"
  BY <1>1, ContextNode DEF BuildPrompt, Continues, ContextIs, ContextHolds, ContextOf, Succeeded, FInv, Underway
<1>3. id \notin struck
  <2>1. prompt[id] = "none"
    BY DEF BuildPrompt
  <2> QED
    BY <1>1, <2>1 DEF FInv, Underway
<1>4. Succeeded' = Succeeded /\ struck \subseteq struck'
  BY <1>1 DEF Succeeded, Nodes, Of
<1>5. /\ Nodes' = Nodes
      /\ \A n : Node(n)' = Node(n) /\ Continues(n)' = Continues(n)
                /\ (ContextHolds(n) => ContextHolds(n)')
                /\ (Lineage(ContextOf(n)) \cap struck # {} => Lineage(ContextOf(n))' \cap struck' # {})
  BY <1>1, <1>4, Keeps
<1>6. Records'
  BY <1>1, <1>5 DEF FInv, Records
<1>7. ASSUME NEW n \in Nodes PROVE Underway(n)' /\ Explained(n)'
  <2>1. Underway(n) /\ Explained(n)
    BY <1>7 DEF FInv
  <2>2. Underway(n)'
    BY <1>1, <1>2, <1>3, <1>5, <2>1 DEF Underway
  <2>3. Explained(n)'
    BY <1>1, <1>2, <1>5, <2>1 DEF Explained
  <2> QED
    BY <2>2, <2>3
<1>8. \A r \in results' : Agrees(r)'
  BY <1>1, <1>4, <1>5 DEF FInv, Agrees
<1>9. Reported' /\ Ending'
  BY <1>1, <1>5 DEF FInv, Reported, Ending
<1> QED
  BY <1>5, <1>6, <1>7, <1>8, <1>9 DEF FInv

(* A session starts, is given up or ends.  The prompts of the roots are    *)
(* built before any node of the session runs.                              *)
LEMMA SessionFaults ==
  ASSUME FInv, IInv, NEW s \in Sessions, Start(s) \/ Timeout(s) \/ Finish(s)
  PROVE  FInv'
<1>1. /\ UNCHANGED <<plan, stage, completion, results>>
      /\ Succeeded' = Succeeded /\ struck \subseteq struck'
  BY ZenonT(60) DEF Start, Timeout, Finish, Succeeded, Nodes, Of
<1>2. /\ Nodes' = Nodes
      /\ \A n : Node(n)' = Node(n) /\ Continues(n)' = Continues(n)
                /\ (ContextHolds(n) => ContextHolds(n)')
                /\ (Lineage(ContextOf(n)) \cap struck # {} => Lineage(ContextOf(n))' \cap struck' # {})
  BY <1>1, Keeps
<1>3. \A x \in Sessions \ {s} : session'[x] = session[x]
  BY DEF Start, Timeout, Finish, IInv, Shape
<1>4. \A r \in results' : Agrees(r)'
  BY <1>1, <1>2 DEF FInv, Agrees
<1>5. Reported'
  BY <1>1, <1>2 DEF FInv, Reported
<1>6. CASE Start(s)
  <2>1. PICK bad \in SUBSET Roots(s) :
          /\ struck' = struck \cup bad
          /\ prompt' = [id \in DOMAIN prompt |->
                          IF id \in bad THEN "failed" ELSE IF id \in Roots(s) THEN "ready" ELSE prompt[id]]
    BY <1>6 DEF Start
  <2>2. /\ session[s] = "building" /\ session'[s] = "running" /\ UNCHANGED timedOut
    BY <1>6 DEF Start, IInv, Shape
  <2>3. Roots(s) \subseteq Nodes /\ \A n \in Roots(s) : n[1] = s /\ ~Continues(n) /\ Node(n).request
    BY DEF Roots, Nodes, Of, Continues
  <2>4. \A n \in Nodes : prompt'[n] = IF n \in bad THEN "failed" ELSE IF n \in Roots(s) THEN "ready" ELSE prompt[n]
    BY <2>1 DEF FInv, Records
  <2>5. prompt' \in [Nodes -> {"none", "ready", "failed"}]
    BY <2>1 DEF FInv, Records
  <2>6. Records'
    BY <1>1, <1>2, <2>1, <2>3, <2>5 DEF FInv, Records
  <2>7. ASSUME NEW n \in Nodes PROVE Underway(n)' /\ Explained(n)'
    <3>1. Underway(n) /\ Explained(n)
      BY <2>7 DEF FInv
    <3>2. CASE n \in Roots(s)
      <4>1. stage[n] = "waiting" /\ completion[n] = "none" /\ n \notin struck
        BY <2>2, <2>3, <3>1, <3>2 DEF Underway
      <4> QED
        BY <1>1, <1>2, <2>1, <2>2, <2>3, <2>4, <3>2, <4>1 DEF Underway, Explained, ContextHolds
    <3>3. CASE n \notin Roots(s)
      <4>1. prompt'[n] = prompt[n] /\ (n \in struck' <=> n \in struck)
        BY <2>1, <2>4, <3>3
      <4>2. session'[n[1]] = "building" => session[n[1]] = "building"
        BY <1>3, <2>2, NodeSession
      <4> QED
        BY <1>1, <1>2, <3>1, <4>1, <4>2 DEF Underway, Explained
    <3> QED
      BY <3>2, <3>3
  <2>8. Ending'
    BY <1>1, <1>2, <1>3, <2>2, NodeSession DEF FInv, Ending
  <2> QED
    BY <1>2, <1>4, <1>5, <2>6, <2>7, <2>8 DEF FInv
<1>7. CASE Timeout(s) \/ Finish(s)
  <2>1. /\ UNCHANGED <<prompt, struck>> /\ timedOut \subseteq timedOut'
        /\ session'[s] \in {"cancelling", "done"}
        /\ session'[s] = "cancelling" => s \in timedOut'
        /\ session'[s] = "done" => s \in timedOut' \/ \A id \in Of(s) : stage[id] = "over"
    BY <1>7 DEF Timeout, Finish, IInv, Shape
  <2>2. Records'
    BY <1>1, <1>2, <2>1 DEF FInv, Records
  <2>3. ASSUME NEW n \in Nodes PROVE Underway(n)' /\ Explained(n)'
    <3>1. Underway(n) /\ Explained(n)
      BY <2>3 DEF FInv
    <3>2. session'[n[1]] = "building" => session[n[1]] = "building"
      BY <1>3, <2>1, NodeSession
    <3> QED
      BY <1>1, <1>2, <2>1, <3>1, <3>2 DEF Underway, Explained
  <2>4. Ending'
    <3>1. \A n \in Nodes : n[1] = s => n \in Of(s)
      BY DEF Nodes, Of
    <3>2. ASSUME NEW n \in Nodes, session'[n[1]] = "done", n[1] \notin timedOut'
          PROVE  stage[n] = "over"
      BY <1>3, <2>1, <3>1, <3>2, NodeSession DEF FInv, Ending
    <3>3. ASSUME NEW x \in Sessions, session'[x] = "cancelling"
          PROVE  x \in timedOut'
      BY <1>3, <2>1, <3>3 DEF FInv, Ending
    <3> QED
      BY <1>1, <1>2, <2>1, <3>2, <3>3 DEF FInv, Ending
  <2> QED
    BY <1>2, <1>4, <1>5, <2>2, <2>3, <2>4 DEF FInv
<1> QED
  BY <1>6, <1>7

LEMMA InitFaults == Init => FInv
<1> SUFFICES ASSUME Init PROVE FInv
  OBVIOUS
<1>1. Records
  BY DEF Init, Records, Outcomes
<1>2. ASSUME NEW id \in Nodes PROVE Underway(id) /\ Explained(id)
  BY <1>2, NodeSession DEF Init, Underway, Explained
<1>3. results = {} /\ Reported /\ Ending
  BY NodeSession DEF Init, Reported, Ending
<1> QED
  BY <1>1, <1>2, <1>3 DEF FInv

(* Handing slots on moves the node and wakes others. *)
LEMMA HandOnMoves ==
  ASSUME IInv, NEW id \in Nodes, NEW to \in Stages, NEW back, NEW most \in Nat,
         HandOn(id, to, back, most)
  PROVE  StageMoves(id, to)
<1> DEFINE others == Without(line, id)
           n == IF most < Len(others) THEN most ELSE Len(others)
           next == {others[i] : i \in 1 .. n}
<1>1. stage' = [x \in DOMAIN stage |->
                  IF x = id THEN to ELSE IF x \in next THEN "woken" ELSE stage[x]]
  BY DEF HandOn
<1>2. others \in Seq(Nodes) /\ Range(others) = Range(line) \ {id}
  BY WithoutFacts DEF IInv, Shape
<1> HIDE DEF others
<1>3. Len(others) \in Nat /\ DOMAIN others = 1 .. Len(others)
  BY <1>2, LenProperties
<1>4. 1 .. n \subseteq DOMAIN others
  BY <1>3
<1>5. \A x \in next : stage[x] = "queued"
  BY <1>2, <1>4 DEF Range, IInv, SlotBooks
<1> HIDE DEF n, next
<1> QED
  BY <1>1, <1>5 DEF StageMoves, IInv, Shape, Stages

LEMMA LeaveMoves ==
  ASSUME IInv, NEW id \in Nodes, Leave(id) \/ Untaken(id) \/ Unlined(id)
  PROVE  StageMoves(id, "over")
<1>1. "over" \in Stages /\ slots \in Nat
  BY DEF IInv, SlotBooks, Stages
<1>2. PICK back \in Int, most \in Nat : HandOn(id, "over", back, most)
  <2>1. CASE Leave(id)
    BY <2>1 DEF Leave
  <2>2. CASE Untaken(id)
    <3>1. PICK most \in 1 .. slots + 1 : HandOn(id, "over", 1, most)
      BY <2>2 DEF Untaken
    <3> QED
      BY <1>1, <3>1
  <2>3. CASE Unlined(id)
    <3>1. PICK most \in 0 .. slots : HandOn(id, "over", 0, most)
      BY <2>3 DEF Unlined
    <3> QED
      BY <1>1, <3>1
  <2> QED
    BY <2>1, <2>2, <2>3
<1> QED
  BY <1>1, <1>2, HandOnMoves

LEMMA SimpleMoves ==
  ASSUME IInv, NEW id \in Nodes, NEW to \in Stages, stage' = [stage EXCEPT ![id] = to]
  PROVE  StageMoves(id, to)
BY DEF StageMoves, IInv, Shape

(* What a node of a running session finds: nothing has gone wrong in it,   *)
(* and a request has its prompt.                                           *)
LEMMA Running ==
  ASSUME FInv, NEW id \in Nodes, stage[id] \in {"released", "queued", "woken", "sending"}
  PROVE  /\ id \notin struck /\ completion[id] = "none" /\ ContextHolds(id)
         /\ Node(id).request => prompt[id] = "ready"
<1>1. Underway(id)
  BY DEF FInv
<1>2. ~Node(id).request => ContextHolds(id)
  BY DEF ContextHolds, Continues
<1> QED
  BY <1>1, <1>2 DEF Underway

(* A released or sending request that is answered, or fails. *)
LEMMA AnswerFaults ==
  ASSUME FInv, NEW id \in Nodes, stage[id] \in {"released", "woken", "sending"},
         session[id[1]] = "running", StageMoves(id, "over"), NEW attempted \in BOOLEAN,
         \/ Resolve(id, "success", attempted) /\ UNCHANGED struck
         \/ Resolve(id, "failed", attempted) /\ struck' = struck \cup {id},
         UNCHANGED <<plan, session, timedOut, prompt>>
  PROVE  FInv'
<1>1. id \notin struck /\ ContextHolds(id)
  BY Running
<1>2. CASE Resolve(id, "success", attempted) /\ UNCHANGED struck
  BY <1>1, <1>2, EndFaults DEF Resolve, Outcomes
<1>3. CASE Resolve(id, "failed", attempted) /\ struck' = struck \cup {id}
  BY <1>1, <1>3, EndFaults DEF Resolve, Outcomes
<1> QED
  BY <1>2, <1>3

(* A cancelled node ends without an outcome, perhaps with an entry. *)
LEMMA CancelFaults ==
  ASSUME FInv, IInv, NEW id \in Nodes, Cancel(id)
  PROVE  FInv'
<1>1. /\ session[id[1]] = "cancelling" /\ stage[id] # "over"
      /\ UNCHANGED <<plan, session, timedOut, prompt, completion>>
  BY DEF Cancel
<1>2. StageMoves(id, "over")
  <2>1. CASE stage[id] \in {"sending", "woken", "queued"}
    <3>1. Leave(id) \/ Untaken(id) \/ Unlined(id)
      BY <2>1 DEF Cancel
    <3> QED
      BY <3>1, LeaveMoves
  <2>2. CASE stage[id] \in {"waiting", "released"}
    <3>1. stage' = [stage EXCEPT ![id] = "over"]
      BY <2>2 DEF Cancel, Over
    <3> QED
      BY <3>1, SimpleMoves DEF Stages
  <2> QED
    BY <1>1, <2>1, <2>2 DEF IInv, Shape, Stages
<1>3. CASE UNCHANGED <<results, struck>>
  BY <1>1, <1>2, <1>3, QuietFaults DEF Stages
<1>4. CASE /\ stage[id] = "sending"
           /\ results' = results \cup {[node |-> id, status |-> "failed", attempted |-> FALSE]}
           /\ struck' = struck \cup {id}
  <2>1. ContextHolds(id)
    BY <1>4, Running
  <2> QED
    BY <1>1, <1>2, <1>4, <2>1, EndFaults DEF Outcomes
<1> QED
  BY <1>3, <1>4 DEF Cancel

(* Every step leaves every outcome explained by the faults. *)
LEMMA StepFaults == FInv /\ IInv /\ [Next]_vars => FInv'
<1> SUFFICES ASSUME FInv, IInv, [Next]_vars PROVE FInv'
  OBVIOUS
<1>1. CASE UNCHANGED vars
  <2>1. /\ UNCHANGED <<plan, session, timedOut, stage, prompt, completion, results, struck>>
        /\ Succeeded' = Succeeded /\ Nodes' = Nodes
    BY <1>1 DEF vars, Succeeded, Nodes, Of
  <2>2. \A n : /\ Node(n)' = Node(n) /\ Continues(n)' = Continues(n)
               /\ ContextHolds(n) => ContextHolds(n)'
               /\ Lineage(ContextOf(n)) \cap struck # {} => Lineage(ContextOf(n))' \cap struck' # {}
    BY <2>1, Keeps
  <2>3. \A n \in Nodes' : Underway(n)' /\ Explained(n)'
    BY <2>1, <2>2 DEF FInv, Underway, Explained
  <2> QED
    BY <2>1, <2>2, <2>3 DEF FInv, Records, Agrees, Reported, Ending
<1>2. CASE \E s \in Sessions : Start(s) \/ Timeout(s) \/ Finish(s)
  BY <1>2, SessionFaults
<1>3. ASSUME NEW id \in Nodes, NodeStep(id) PROVE FInv'
  <2>1. CASE BuildPrompt(id)
    BY <2>1, BuildFaults
  <2>2. CASE PromptMissing(id)
    <3>1. stage[id] # "over" /\ id \in struck /\ ContextHolds(id)
      BY <2>2 DEF PromptMissing, Going, FInv, Underway
    <3>2. StageMoves(id, "over")
      BY <2>2, SimpleMoves DEF PromptMissing, Over, Stages
    <3>3. struck' = struck \cup {id}
      BY <2>2, <3>1 DEF PromptMissing
    <3> QED
      BY <2>2, <3>1, <3>2, <3>3, EndFaults DEF PromptMissing, Going, Resolve, Outcomes
  <2>3. CASE Skip(id)
    <3>1. Continues(id) /\ completion[ContextOf(id)] \in {"failed", "skipped"}
      BY <2>3 DEF Skip, Skippable, ContextIs, ContextOf
    <3>2. ContextOf(id) \in Nodes /\ Records
      BY <3>1, ContextNode DEF FInv
    <3>3. Lineage(ContextOf(id)) \cap struck # {}
      <4>1. Explained(ContextOf(id)) /\ ContextOf(id) \in Lineage(ContextOf(id))
        BY <3>2, LineageFacts DEF FInv
      <4>2. CASE completion[ContextOf(id)] = "failed"
        BY <4>1, <4>2 DEF Explained
      <4>3. CASE completion[ContextOf(id)] = "skipped"
        BY <3>2, <4>1, <4>3, LineageFacts DEF Explained
      <4> QED
        BY <3>1, <4>2, <4>3
    <3>4. StageMoves(id, "over")
      BY <2>3, SimpleMoves DEF Skip, Over, Stages
    <3>5. struck' = struck \cup {}
      BY <2>3 DEF Skip
    <3> QED
      BY <2>3, <3>1, <3>3, <3>4, <3>5, EndFaults DEF Skip, Going, Resolve, Outcomes
  <2>4. CASE Release(id)
    <3>1. StageMoves(id, "released")
      BY <2>4, SimpleMoves DEF Release, Stages
    <3>2. id \notin struck
      BY <2>4 DEF Release, Going, FInv, Underway
    <3> QED
      BY <2>4, <3>1, <3>2, QuietFaults DEF Release, Going, Stages
  <2>5. CASE Elapse(id)
    <3>1. StageMoves(id, "over")
      BY <2>5, SimpleMoves DEF Elapse, Over, Stages
    <3> QED
      BY <2>5, <3>1, AnswerFaults DEF Elapse, Going
  <2>6. CASE Queue(id)
    <3>1. StageMoves(id, "queued")
      BY <2>6, SimpleMoves DEF Queue, Stages
    <3> QED
      BY <2>6, <3>1, Running, QuietFaults DEF Queue, Going, Stages
  <2>7. CASE Send(id)
    <3>1. StageMoves(id, "sending")
      <4>1. slots \in Nat /\ "sending" \in Stages
        BY DEF IInv, SlotBooks, Stages
      <4>2. CASE Taken(id)
        <5>1. PICK most \in 0 .. slots : HandOn(id, "sending", 0, most)
          BY <4>2 DEF Taken
        <5> QED
          BY <4>1, <5>1, HandOnMoves
      <4>3. CASE HandOn(id, "sending", -1, 0)
        BY <4>1, <4>3, HandOnMoves
      <4> QED
        BY <2>7, <4>2, <4>3 DEF Send
    <3>2. Node(id).request /\ id \notin struck
      BY <2>7, Running DEF Send, Going, FInv, Underway
    <3>3. session[id[1]] = "running" /\ UNCHANGED <<plan, session, timedOut, prompt, completion, results, struck>>
      BY <2>7 DEF Send, Going
    <3>4. stage[id] \in {"released", "woken"}
      BY <2>7 DEF Send, Going
    <3> QED
      BY <3>1, <3>2, <3>3, <3>4, Running, QuietFaults DEF Stages
  <2>8. CASE SampleFails(id)
    <3>1. StageMoves(id, "over")
      BY <2>8, SimpleMoves, LeaveMoves DEF SampleFails, Going, Over, Stages
    <3> QED
      BY <2>8, <3>1, AnswerFaults DEF SampleFails, Going
  <2>9. CASE Answer(id) \/ SendRaises(id)
    <3>1. StageMoves(id, "over")
      BY <2>9, LeaveMoves DEF Answer, SendRaises, Going
    <3> QED
      BY <2>9, <3>1, AnswerFaults DEF Answer, SendRaises, Going
  <2>10. CASE Cancel(id)
    BY <2>10, CancelFaults
  <2> QED
    BY <1>3, <2>1, <2>2, <2>3, <2>4, <2>5, <2>6, <2>7, <2>8, <2>9, <2>10 DEF NodeStep
<1> QED
  BY <1>1, <1>2, <1>3 DEF Next

(* Every entry has the status that the faults of the node and of the nodes *)
(* it goes on from explain, whatever the order of the coroutines, and a    *)
(* task that ran to its end reports each of its nodes once.  The argument: *)
(* a node succeeds only after its context, so a lineage with a success at  *)
(* its end is free of faults (SuccessClean); a skipped node is behind a    *)
(* node that failed; and completed nodes are never struck.                 *)
THEOREM FaultsCorrect == Spec => []FaultsIsolated
<1>1. FInv => FaultsIsolated
  <2> SUFFICES ASSUME FInv PROVE FaultsIsolated
    OBVIOUS
  <2>1. ASSUME NEW r \in results PROVE r.status = Verdict(r.node)
    <3> DEFINE id == r.node
    <3>1. id \in Nodes /\ r.status \in Outcomes /\ Agrees(r) /\ Explained(id) /\ Records
      BY DEF FInv, Records
    <3>2. ContextHolds(id) => ~(Continues(id) /\ Lineage(ContextOf(id)) \cap struck # {})
      BY SuccessClean DEF ContextHolds
    <3>3. r.status = "success" => id \notin struck /\ ContextHolds(id)
      BY <3>1 DEF Agrees, Explained
    <3>4. r.status = "failed" => id \in struck /\ ContextHolds(id)
      BY <3>1 DEF Agrees
    <3>5. r.status = "skipped" => Continues(id) /\ Lineage(ContextOf(id)) \cap struck # {}
      BY <3>1 DEF Agrees, Explained
    <3> QED
      BY <3>1, <3>2, <3>3, <3>4, <3>5 DEF Verdict, Outcomes
  <2>2. ASSUME NEW s \in Sessions, session[s] = "done", s \notin timedOut, NEW id \in Of(s)
        PROVE  Cardinality({r \in results : r.node = id}) = 1
    <3>1. id \in Nodes /\ id[1] = s
      BY DEF Nodes, Of
    <3>2. completion[id] # "none"
      BY <2>2, <3>1 DEF FInv, Ending
    <3>3. PICK r \in results : r.node = id
      BY <3>1, <3>2 DEF FInv, Reported
    <3>4. {q \in results : q.node = id} = {r}
      BY <3>3 DEF FInv, Reported
    <3> QED
      BY <3>4, FS_Singleton
  <2> QED
    BY <2>1, <2>2 DEF FaultsIsolated
<1> QED
  BY <1>1, InitSound, StepSound, InitFaults, StepFaults, PTL DEF Spec
=============================================================================

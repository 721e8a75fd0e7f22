----------------------- MODULE EngineScheduler_proofs -----------------------
(***************************************************************************)
(* The scheduler of a deployment, with any number of requests, blocks and  *)
(* tokens: the requests stand in lines (Lines, Ordered), their blocks are  *)
(* counted (Books), their tokens and placeholders agree with the batches   *)
(* in flight (Moves, Progress, Flight), and fences keep the blocks that a  *)
(* batch still writes (Fences). Every action keeps all of it, and the      *)
(* properties follow.                                                      *)
(***************************************************************************)
EXTENDS EngineScheduler, OrderedDicts_proofs, WellFoundedInduction

-----------------------------------------------------------------------------
(* Loops, and numbers. *)

(* A set of naturals has a least element: induction by the least exception. *)
LEMMA LeastNat ==
  ASSUME NEW S, S \subseteq Nat, S # {}
  PROVE  \E x \in S : \A y \in S : x <= y
<1> DEFINE less == {p \in Nat \X Nat : p[1] < p[2]}
<1>1. IsWellFoundedOn(less, Nat)
  BY NatLessThanWellFounded DEF OpToRel
<1>2. \A x, y \in Nat : <<y, x>> \in less <=> y < x
  OBVIOUS
<1> HIDE DEF less
<1>3. PICK x \in S : \A y \in S : ~ (<<y, x>> \in less)
  BY <1>1, WFMin
<1>4. ASSUME NEW y \in S PROVE x <= y
  <2>1. x \in Nat /\ y \in Nat
    OBVIOUS
  <2>2. ~ (y < x)
    BY <1>2, <1>3, <2>1
  <2> QED
    BY <2>1, <2>2
<1> QED
  BY <1>4

(* What holds at the start of a loop and after every round holds at its end. *)
LEMMA LoopInduct ==
  ASSUME NEW n \in Nat, NEW h, NEW R, <<0, h[0]>> \in R,
         \A i \in 1 .. n : <<i - 1, h[i - 1]>> \in R => <<i, h[i]>> \in R
  PROVE  \A i \in 0 .. n : <<i, h[i]>> \in R
<1> DEFINE bad == {i \in 0 .. n : <<i, h[i]>> \notin R}
<1> SUFFICES ASSUME bad # {} PROVE FALSE
  OBVIOUS
<1>0. bad \subseteq Nat
  OBVIOUS
<1>1. PICK i \in bad : \A j \in bad : i <= j
  <2> HIDE DEF bad
  <2> QED
    BY <1>0, LeastNat
<1>2. i \in 1 .. n /\ i - 1 \in 0 .. n /\ ~ (i <= i - 1)
  BY <1>1
<1>3. <<i - 1, h[i - 1]>> \in R
  BY <1>1, <1>2
<1> QED
  BY <1>1, <1>2, <1>3

(* f has what the loop has after each round, G giving what a round makes. *)
Rounds(f, V, G, s, n) ==
  f \in [0 .. n -> V] /\ f[0] = s /\ \A i \in 1 .. n : f[i] = G[<<i - 1, f[i - 1]>>]

(* The rounds of a loop exist. *)
LEMMA LoopRun ==
  ASSUME NEW n \in Nat, NEW G, NEW s
  PROVE  \E V, f : Rounds(f, V, G, s, n)
<1> DEFINE bad == {N \in Nat : ~ \E V, f : Rounds(f, V, G, s, N)}
<1> SUFFICES ASSUME bad # {} PROVE FALSE
  OBVIOUS
<1>1. PICK N \in bad : \A y \in bad : N <= y
  BY LeastNat
<1>2. CASE N = 0
  <2> DEFINE f == [i \in 0 .. 0 |-> s]
  <2>1. Rounds(f, {s}, G, s, 0)
    BY DEF Rounds
  <2> QED
    BY <2>1, <1>1, <1>2
<1>3. CASE N # 0
  <2>1. N - 1 \in Nat /\ N \in Nat /\ ~ (N <= N - 1)
    BY <1>1, <1>3
  <2>2. PICK V, f : Rounds(f, V, G, s, N - 1)
    BY <2>1, <1>1
  <2> DEFINE last == G[<<N - 1, f[N - 1]>>]
             g == [i \in 0 .. N |-> IF i = N THEN last ELSE f[i]]
  <2>3. g \in [0 .. N -> V \cup {last}] /\ g[0] = s
    BY <2>1, <2>2, <1>3 DEF Rounds
  <2>4. ASSUME NEW i \in 1 .. N PROVE g[i] = G[<<i - 1, g[i - 1]>>]
    <3>1. i - 1 \in 0 .. N /\ i - 1 # N /\ g[i - 1] = f[i - 1]
      BY <2>1
    <3>2. CASE i = N
      BY <3>1, <3>2
    <3>3. CASE i # N
      <4>1. i \in 1 .. N - 1 /\ i \in 0 .. N
        BY <2>1, <3>3
      <4>2. f[i] = G[<<i - 1, f[i - 1]>>]
        BY <2>2, <4>1 DEF Rounds
      <4> QED
        BY <3>1, <4>1, <4>2, <3>3
    <3> QED
      BY <3>2, <3>3
  <2> HIDE DEF g, last
  <2>5. Rounds(g, V \cup {last}, G, s, N)
    BY <2>3, <2>4 DEF Rounds
  <2> QED
    BY <2>5, <1>1
<1> QED
  BY <1>2, <1>3

(* What holds at the start and is kept by every round holds after each. *)
LEMMA LoopGood ==
  ASSUME NEW n \in Nat, NEW s, NEW Good, NEW G, <<0, s>> \in Good,
         \A i \in 1 .. n : \A w : <<i - 1, w>> \in Good => <<i, G[<<i - 1, w>>]>> \in Good
  PROVE  \E V, f : Rounds(f, V, G, s, n) /\ \A i \in 0 .. n : <<i, f[i]>> \in Good
<1>1. PICK V, f : Rounds(f, V, G, s, n)
  BY LoopRun
<1>2. \A i \in 0 .. n : <<i, f[i]>> \in Good
  <2>1. ASSUME NEW i \in 1 .. n, <<i - 1, f[i - 1]>> \in Good PROVE <<i, f[i]>> \in Good
    BY <1>1, <2>1 DEF Rounds
  <2>2. <<0, f[0]>> \in Good
    BY <1>1 DEF Rounds
  <2> QED
    BY <2>1, <2>2, LoopInduct
<1> QED
  BY <1>1, <1>2

(* The larger and the smaller of two numbers. *)
LEMMA MaxTwo ==
  ASSUME NEW a \in Int, NEW b \in Int
  PROVE  Max({a, b}) = IF a >= b THEN a ELSE b
<1> DEFINE m == IF a >= b THEN a ELSE b
<1>1. m \in {a, b} /\ \A y \in {a, b} : m >= y
  OBVIOUS
<1>2. \A x \in {a, b} : (\A y \in {a, b} : x >= y) => x = m
  OBVIOUS
<1> HIDE DEF m
<1>3. Max({a, b}) = m
  BY <1>1, <1>2 DEF Max
<1> QED
  BY <1>3 DEF m

LEMMA MinTwo ==
  ASSUME NEW a \in Int, NEW b \in Int
  PROVE  Min({a, b}) = IF a <= b THEN a ELSE b
<1> DEFINE m == IF a <= b THEN a ELSE b
<1>1. m \in {a, b} /\ \A y \in {a, b} : m <= y
  OBVIOUS
<1>2. \A x \in {a, b} : (\A y \in {a, b} : x <= y) => x = m
  OBVIOUS
<1> HIDE DEF m
<1>3. Min({a, b}) = m
  BY <1>1, <1>2 DEF Min
<1> QED
  BY <1>3 DEF m

(* Multiplication keeps the order. *)
LEMMA TimesGrows ==
  ASSUME NEW b \in Nat, NEW x \in Nat, NEW y \in Nat, x <= y
  PROVE  b * x \in Nat /\ b * x <= b * y
<1>1. PICK d \in Nat : y = x + d
  <2>1. y - x \in Nat /\ y = x + (y - x)
    OBVIOUS
  <2> QED
    BY <2>1
<1>2. b * (x + d) = b * x + b * d /\ b * x \in Nat /\ b * d \in Nat
  OBVIOUS
<1> QED
  BY <1>1, <1>2

(* Enough blocks of size b for n tokens. *)
LEMMA EnoughBlocks ==
  ASSUME NEW n \in Nat, NEW b \in Nat \ {0}
  PROVE  LET c == (n + b - 1) \div b
         IN  c \in Nat /\ n <= b * c
<1> DEFINE s == n + b - 1
           c == s \div b
<1>1. s \in Nat
  OBVIOUS
<1>2. \A a \in Nat : a \div b \in Nat /\ a < (a \div b) * b + b
  OBVIOUS
<1> HIDE DEF s
<1>3. c \in Nat /\ s < c * b + b
  BY <1>1, <1>2
<1>4. n <= b * c
  <2>1. c * b \in Nat /\ c * b = b * c
    BY <1>3
  <2> HIDE DEF c
  <2> QED
    BY <1>3, <2>1 DEF s
<1> QED
  BY <1>3, <1>4 DEF s

-----------------------------------------------------------------------------
(* The loops of the scheduler: what every round keeps holds at the end. *)

OutputOf(s, r, sampled, stops) == IF r \in sampled THEN Output(s, r, r \in stops) ELSE s
TransferOf(s, r, over) == IF r \in over THEN Transferred(s, r) ELSE s

(* Freeing what waits. *)
LEMMA DrainLoop ==
  ASSUME NEW n \in Nat, NEW s, NEW Good, <<0, s>> \in Good,
         \A i \in 1 .. n : \A w : <<i - 1, w>> \in Good => <<i, DrainOne(w, i)>> \in Good
  PROVE  <<n, Loop(DrainOne, s, n)>> \in Good
<1> DEFINE Run(f) == f = [i \in 0 .. n |-> IF i = 0 THEN s ELSE DrainOne(f[i - 1], i)]
           G == [p \in Good |-> DrainOne(p[2], p[1] + 1)]
<1>1. \A i \in 1 .. n : \A w : <<i - 1, w>> \in Good => G[<<i - 1, w>>] = DrainOne(w, i)
  <2> SUFFICES ASSUME NEW i \in 1 .. n, NEW w, <<i - 1, w>> \in Good
               PROVE  G[<<i - 1, w>>] = DrainOne(w, i)
    OBVIOUS
  <2>1. (i - 1) + 1 = i
    OBVIOUS
  <2> QED
    BY <2>1
<1> HIDE DEF G
<1>2. PICK V, f : Rounds(f, V, G, s, n) /\ \A i \in 0 .. n : <<i, f[i]>> \in Good
  <2>1. \A i \in 1 .. n : \A w : <<i - 1, w>> \in Good => <<i, G[<<i - 1, w>>]>> \in Good
    BY <1>1
  <2> QED
    BY <2>1, LoopGood
<1>3. Run(f)
  <2> DEFINE h == [i \in 0 .. n |-> IF i = 0 THEN s ELSE DrainOne(f[i - 1], i)]
  <2>1. ASSUME NEW i \in 0 .. n PROVE f[i] = h[i]
    <3>1. i # 0 => i - 1 \in 0 .. n /\ i \in 1 .. n
      OBVIOUS
    <3> QED
      BY <1>1, <1>2, <3>1 DEF Rounds
  <2>2. f = h
    BY <1>2, <2>1 DEF Rounds
  <2> QED
    BY <2>2
<1> DEFINE g == CHOOSE h : Run(h)
<1>4. Loop(DrainOne, s, n) = g[n]
  BY DEF Loop
<1>5. Run(g)
  BY <1>3
<1> HIDE DEF g
<1>6. g[0] = s /\ \A i \in 1 .. n : g[i] = DrainOne(g[i - 1], i)
  <2>1. \A i \in 0 .. n : g[i] = IF i = 0 THEN s ELSE DrainOne(g[i - 1], i)
    BY <1>5
  <2>2. 0 \in 0 .. n /\ \A i \in 1 .. n : i \in 0 .. n /\ i # 0
    OBVIOUS
  <2> QED
    BY <2>1, <2>2
<1>7. \A i \in 0 .. n : <<i, g[i]>> \in Good
  BY <1>6, LoopInduct
<1> QED
  BY <1>4, <1>7

(* Scheduling the running requests. *)
LEMMA ContinueLoop ==
  ASSUME NEW n \in Nat, NEW s, NEW Good, <<0, s>> \in Good,
         \A i \in 1 .. n : \A w : <<i - 1, w>> \in Good => <<i, ContinueOne(w, i)>> \in Good
  PROVE  <<n, Loop(ContinueOne, s, n)>> \in Good
<1> DEFINE Run(f) == f = [i \in 0 .. n |-> IF i = 0 THEN s ELSE ContinueOne(f[i - 1], i)]
           G == [p \in Good |-> ContinueOne(p[2], p[1] + 1)]
<1>1. \A i \in 1 .. n : \A w : <<i - 1, w>> \in Good => G[<<i - 1, w>>] = ContinueOne(w, i)
  <2> SUFFICES ASSUME NEW i \in 1 .. n, NEW w, <<i - 1, w>> \in Good
               PROVE  G[<<i - 1, w>>] = ContinueOne(w, i)
    OBVIOUS
  <2>1. (i - 1) + 1 = i
    OBVIOUS
  <2> QED
    BY <2>1
<1> HIDE DEF G
<1>2. PICK V, f : Rounds(f, V, G, s, n) /\ \A i \in 0 .. n : <<i, f[i]>> \in Good
  <2>1. \A i \in 1 .. n : \A w : <<i - 1, w>> \in Good => <<i, G[<<i - 1, w>>]>> \in Good
    BY <1>1
  <2> QED
    BY <2>1, LoopGood
<1>3. Run(f)
  <2> DEFINE h == [i \in 0 .. n |-> IF i = 0 THEN s ELSE ContinueOne(f[i - 1], i)]
  <2>1. ASSUME NEW i \in 0 .. n PROVE f[i] = h[i]
    <3>1. i # 0 => i - 1 \in 0 .. n /\ i \in 1 .. n
      OBVIOUS
    <3> QED
      BY <1>1, <1>2, <3>1 DEF Rounds
  <2>2. f = h
    BY <1>2, <2>1 DEF Rounds
  <2> QED
    BY <2>2
<1> DEFINE g == CHOOSE h : Run(h)
<1>4. Loop(ContinueOne, s, n) = g[n]
  BY DEF Loop
<1>5. Run(g)
  BY <1>3
<1> HIDE DEF g
<1>6. g[0] = s /\ \A i \in 1 .. n : g[i] = ContinueOne(g[i - 1], i)
  <2>1. \A i \in 0 .. n : g[i] = IF i = 0 THEN s ELSE ContinueOne(g[i - 1], i)
    BY <1>5
  <2>2. 0 \in 0 .. n /\ \A i \in 1 .. n : i \in 0 .. n /\ i # 0
    OBVIOUS
  <2> QED
    BY <2>1, <2>2
<1>7. \A i \in 0 .. n : <<i, g[i]>> \in Good
  BY <1>6, LoopInduct
<1> QED
  BY <1>4, <1>7

(* Admitting the waiting requests. *)
LEMMA AdmitLoop ==
  ASSUME NEW n \in Nat, NEW s, NEW Good, <<0, s>> \in Good,
         \A i \in 1 .. n : \A w : <<i - 1, w>> \in Good => <<i, AdmitOne(w, i)>> \in Good
  PROVE  <<n, Loop(AdmitOne, s, n)>> \in Good
<1> DEFINE Run(f) == f = [i \in 0 .. n |-> IF i = 0 THEN s ELSE AdmitOne(f[i - 1], i)]
           G == [p \in Good |-> AdmitOne(p[2], p[1] + 1)]
<1>1. \A i \in 1 .. n : \A w : <<i - 1, w>> \in Good => G[<<i - 1, w>>] = AdmitOne(w, i)
  <2> SUFFICES ASSUME NEW i \in 1 .. n, NEW w, <<i - 1, w>> \in Good
               PROVE  G[<<i - 1, w>>] = AdmitOne(w, i)
    OBVIOUS
  <2>1. (i - 1) + 1 = i
    OBVIOUS
  <2> QED
    BY <2>1
<1> HIDE DEF G
<1>2. PICK V, f : Rounds(f, V, G, s, n) /\ \A i \in 0 .. n : <<i, f[i]>> \in Good
  <2>1. \A i \in 1 .. n : \A w : <<i - 1, w>> \in Good => <<i, G[<<i - 1, w>>]>> \in Good
    BY <1>1
  <2> QED
    BY <2>1, LoopGood
<1>3. Run(f)
  <2> DEFINE h == [i \in 0 .. n |-> IF i = 0 THEN s ELSE AdmitOne(f[i - 1], i)]
  <2>1. ASSUME NEW i \in 0 .. n PROVE f[i] = h[i]
    <3>1. i # 0 => i - 1 \in 0 .. n /\ i \in 1 .. n
      OBVIOUS
    <3> QED
      BY <1>1, <1>2, <3>1 DEF Rounds
  <2>2. f = h
    BY <1>2, <2>1 DEF Rounds
  <2> QED
    BY <2>2
<1> DEFINE g == CHOOSE h : Run(h)
<1>4. Loop(AdmitOne, s, n) = g[n]
  BY DEF Loop
<1>5. Run(g)
  BY <1>3
<1> HIDE DEF g
<1>6. g[0] = s /\ \A i \in 1 .. n : g[i] = AdmitOne(g[i - 1], i)
  <2>1. \A i \in 0 .. n : g[i] = IF i = 0 THEN s ELSE AdmitOne(g[i - 1], i)
    BY <1>5
  <2>2. 0 \in 0 .. n /\ \A i \in 1 .. n : i \in 0 .. n /\ i # 0
    OBVIOUS
  <2> QED
    BY <2>1, <2>2
<1>7. \A i \in 0 .. n : <<i, g[i]>> \in Good
  BY <1>6, LoopInduct
<1> QED
  BY <1>4, <1>7

(* Preempting for r to grow to m tokens. *)
LEMMA RoomLoop ==
  ASSUME NEW n \in Nat, NEW s, NEW r, NEW m, n = Len(s.s.running), NEW Good, <<0, s>> \in Good,
         \A i \in 1 .. n : \A w : <<i - 1, w>> \in Good => <<i, PreemptOne(w, r, m)>> \in Good
  PROVE  <<n, MakeRoom(s, r, m)>> \in Good
<1> DEFINE Run(f) == f = [i \in 0 .. n |-> IF i = 0 THEN s ELSE PreemptOne(f[i - 1], r, m)]
           G == [p \in Good |-> PreemptOne(p[2], r, m)]
<1>1. \A i \in 1 .. n : \A w : <<i - 1, w>> \in Good => G[<<i - 1, w>>] = PreemptOne(w, r, m)
  <2> SUFFICES ASSUME NEW i \in 1 .. n, NEW w, <<i - 1, w>> \in Good
               PROVE  G[<<i - 1, w>>] = PreemptOne(w, r, m)
    OBVIOUS
  <2>1. (i - 1) + 1 = i
    OBVIOUS
  <2> QED
    BY <2>1
<1> HIDE DEF G
<1>2. PICK V, f : Rounds(f, V, G, s, n) /\ \A i \in 0 .. n : <<i, f[i]>> \in Good
  <2>1. \A i \in 1 .. n : \A w : <<i - 1, w>> \in Good => <<i, G[<<i - 1, w>>]>> \in Good
    BY <1>1
  <2> QED
    BY <2>1, LoopGood
<1>3. Run(f)
  <2> DEFINE h == [i \in 0 .. n |-> IF i = 0 THEN s ELSE PreemptOne(f[i - 1], r, m)]
  <2>1. ASSUME NEW i \in 0 .. n PROVE f[i] = h[i]
    <3>1. i # 0 => i - 1 \in 0 .. n /\ i \in 1 .. n
      OBVIOUS
    <3> QED
      BY <1>1, <1>2, <3>1 DEF Rounds
  <2>2. f = h
    BY <1>2, <2>1 DEF Rounds
  <2> QED
    BY <2>2
<1> DEFINE g == CHOOSE h : Run(h)
<1>4. MakeRoom(s, r, m) = g[n]
  BY DEF Loop, MakeRoom
<1>5. Run(g)
  BY <1>3
<1> HIDE DEF g
<1>6. g[0] = s /\ \A i \in 1 .. n : g[i] = PreemptOne(g[i - 1], r, m)
  <2>1. \A i \in 0 .. n : g[i] = IF i = 0 THEN s ELSE PreemptOne(g[i - 1], r, m)
    BY <1>5
  <2>2. 0 \in 0 .. n /\ \A i \in 1 .. n : i \in 0 .. n /\ i # 0
    OBVIOUS
  <2> QED
    BY <2>1, <2>2
<1>7. \A i \in 0 .. n : <<i, g[i]>> \in Good
  BY <1>6, LoopInduct
<1> QED
  BY <1>4, <1>7

(* Appending the sampled tokens. *)
LEMMA OutputsLoop ==
  ASSUME NEW n \in Nat, NEW s, NEW sampled, NEW stops, n = Cardinality(Requests), NEW Good, <<0, s>> \in Good,
         \A i \in 1 .. n : \A w : <<i - 1, w>> \in Good => <<i, OutputOf(w, i, sampled, stops)>> \in Good
  PROVE  <<n, Outputs(s, sampled, stops)>> \in Good
<1> DEFINE Run(f) == f = [i \in 0 .. n |-> IF i = 0 THEN s ELSE OutputOf(f[i - 1], i, sampled, stops)]
           G == [p \in Good |-> OutputOf(p[2], p[1] + 1, sampled, stops)]
<1>1. \A i \in 1 .. n : \A w : <<i - 1, w>> \in Good => G[<<i - 1, w>>] = OutputOf(w, i, sampled, stops)
  <2> SUFFICES ASSUME NEW i \in 1 .. n, NEW w, <<i - 1, w>> \in Good
               PROVE  G[<<i - 1, w>>] = OutputOf(w, i, sampled, stops)
    OBVIOUS
  <2>1. (i - 1) + 1 = i
    OBVIOUS
  <2> QED
    BY <2>1
<1> HIDE DEF G
<1>2. PICK V, f : Rounds(f, V, G, s, n) /\ \A i \in 0 .. n : <<i, f[i]>> \in Good
  <2>1. \A i \in 1 .. n : \A w : <<i - 1, w>> \in Good => <<i, G[<<i - 1, w>>]>> \in Good
    BY <1>1
  <2> QED
    BY <2>1, LoopGood
<1>3. Run(f)
  <2> DEFINE h == [i \in 0 .. n |-> IF i = 0 THEN s ELSE OutputOf(f[i - 1], i, sampled, stops)]
  <2>1. ASSUME NEW i \in 0 .. n PROVE f[i] = h[i]
    <3>1. i # 0 => i - 1 \in 0 .. n /\ i \in 1 .. n
      OBVIOUS
    <3> QED
      BY <1>1, <1>2, <3>1 DEF Rounds
  <2>2. f = h
    BY <1>2, <2>1 DEF Rounds
  <2> QED
    BY <2>2
<1> DEFINE g == CHOOSE h : Run(h)
<1>4. Outputs(s, sampled, stops) = g[n]
  BY DEF Loop, Outputs, OutputOf
<1>5. Run(g)
  BY <1>3
<1> HIDE DEF g
<1>6. g[0] = s /\ \A i \in 1 .. n : g[i] = OutputOf(g[i - 1], i, sampled, stops)
  <2>1. \A i \in 0 .. n : g[i] = IF i = 0 THEN s ELSE OutputOf(g[i - 1], i, sampled, stops)
    BY <1>5
  <2>2. 0 \in 0 .. n /\ \A i \in 1 .. n : i \in 0 .. n /\ i # 0
    OBVIOUS
  <2> QED
    BY <2>1, <2>2
<1>7. \A i \in 0 .. n : <<i, g[i]>> \in Good
  BY <1>6, LoopInduct
<1> QED
  BY <1>4, <1>7

(* Taking in what was transferred. *)
LEMMA TransfersLoop ==
  ASSUME NEW n \in Nat, NEW s, NEW over, n = Cardinality(Requests), NEW Good, <<0, s>> \in Good,
         \A i \in 1 .. n : \A w : <<i - 1, w>> \in Good => <<i, TransferOf(w, i, over)>> \in Good
  PROVE  <<n, Transfers(s, over)>> \in Good
<1> DEFINE Run(f) == f = [i \in 0 .. n |-> IF i = 0 THEN s ELSE TransferOf(f[i - 1], i, over)]
           G == [p \in Good |-> TransferOf(p[2], p[1] + 1, over)]
<1>1. \A i \in 1 .. n : \A w : <<i - 1, w>> \in Good => G[<<i - 1, w>>] = TransferOf(w, i, over)
  <2> SUFFICES ASSUME NEW i \in 1 .. n, NEW w, <<i - 1, w>> \in Good
               PROVE  G[<<i - 1, w>>] = TransferOf(w, i, over)
    OBVIOUS
  <2>1. (i - 1) + 1 = i
    OBVIOUS
  <2> QED
    BY <2>1
<1> HIDE DEF G
<1>2. PICK V, f : Rounds(f, V, G, s, n) /\ \A i \in 0 .. n : <<i, f[i]>> \in Good
  <2>1. \A i \in 1 .. n : \A w : <<i - 1, w>> \in Good => <<i, G[<<i - 1, w>>]>> \in Good
    BY <1>1
  <2> QED
    BY <2>1, LoopGood
<1>3. Run(f)
  <2> DEFINE h == [i \in 0 .. n |-> IF i = 0 THEN s ELSE TransferOf(f[i - 1], i, over)]
  <2>1. ASSUME NEW i \in 0 .. n PROVE f[i] = h[i]
    <3>1. i # 0 => i - 1 \in 0 .. n /\ i \in 1 .. n
      OBVIOUS
    <3> QED
      BY <1>1, <1>2, <3>1 DEF Rounds
  <2>2. f = h
    BY <1>2, <2>1 DEF Rounds
  <2> QED
    BY <2>2
<1> DEFINE g == CHOOSE h : Run(h)
<1>4. Transfers(s, over) = g[n]
  BY DEF Loop, Transfers, TransferOf
<1>5. Run(g)
  BY <1>3
<1> HIDE DEF g
<1>6. g[0] = s /\ \A i \in 1 .. n : g[i] = TransferOf(g[i - 1], i, over)
  <2>1. \A i \in 0 .. n : g[i] = IF i = 0 THEN s ELSE TransferOf(g[i - 1], i, over)
    BY <1>5
  <2>2. 0 \in 0 .. n /\ \A i \in 1 .. n : i \in 0 .. n /\ i # 0
    OBVIOUS
  <2> QED
    BY <2>1, <2>2
<1>7. \A i \in 0 .. n : <<i, g[i]>> \in Good
  BY <1>6, LoopInduct
<1> QED
  BY <1>4, <1>7

-----------------------------------------------------------------------------
(* Counting blocks. *)

Cells(f) == UNION {{x} \X (1 .. f[x]) : x \in DOMAIN f}

LEMMA CellsFinite ==
  ASSUME NEW S, IsFiniteSet(S), NEW f \in [S -> Nat]
  PROVE  IsFiniteSet(Cells(f)) /\ Blocks(f) = Cardinality(Cells(f)) /\ Blocks(f) \in Nat
<1> DEFINE T == {{x} \X (1 .. f[x]) : x \in S}
           F == [x \in S |-> {x} \X (1 .. f[x])]
<1>1. F \in Surjection(S, T)
  BY DEF Surjection
<1>2. IsFiniteSet(T)
  <2> HIDE DEF F, T
  <2> QED
    BY <1>1, FS_Surjection
<1>3. \A c \in T : IsFiniteSet(c)
  <2> SUFFICES ASSUME NEW x \in S PROVE IsFiniteSet({x} \X (1 .. f[x]))
    OBVIOUS
  <2>1. f[x] \in Int /\ 1 \in Int
    OBVIOUS
  <2>2. IsFiniteSet({x}) /\ IsFiniteSet(1 .. f[x])
    BY <2>1, FS_Singleton, FS_Interval
  <2> QED
    BY <2>2, FS_Product
<1>4. IsFiniteSet(UNION T)
  <2> HIDE DEF T
  <2> QED
    BY <1>2, <1>3, FS_UNION
<1>5. Cells(f) = UNION T /\ Blocks(f) = Cardinality(Cells(f))
  BY DEF Cells, Blocks
<1> HIDE DEF T
<1> QED
  BY <1>4, <1>5, FS_CardinalityType

(* One list apart from the others. *)
LEMMA BlocksSplit ==
  ASSUME NEW S, IsFiniteSet(S), NEW f \in [S -> Nat], NEW x \in S,
         NEW R, R = S \ {x}, NEW g \in [R -> Nat], \A y \in R : g[y] = f[y]
  PROVE  Blocks(f) \in Nat /\ Blocks(g) \in Nat /\ Blocks(f) = Blocks(g) + f[x]
<1> DEFINE C == {x} \X (1 .. f[x])
<1>1. IsFiniteSet(R)
  BY FS_RemoveElement
<1>2. /\ IsFiniteSet(Cells(g)) /\ Blocks(f) = Cardinality(Cells(f)) /\ Blocks(f) \in Nat
      /\ Blocks(g) = Cardinality(Cells(g)) /\ Blocks(g) \in Nat
  BY <1>1, CellsFinite
<1>3. IsFiniteSet(C) /\ Cardinality(C) = f[x]
  <2>1. IsFiniteSet({x}) /\ Cardinality({x}) = 1
    BY FS_Singleton
  <2>2. IsFiniteSet(1 .. f[x]) /\ Cardinality(1 .. f[x]) = f[x]
    BY FS_Interval
  <2> DEFINE I == 1 .. f[x]
             X == {x}
  <2>3. C = X \X I /\ Cardinality(X) * Cardinality(I) = f[x]
    BY <2>1, <2>2
  <2> HIDE DEF C, I, X
  <2>4. IsFiniteSet(X \X I) /\ Cardinality(X \X I) = Cardinality(X) * Cardinality(I)
    BY <2>1, <2>2, FS_Product DEF I, X
  <2> QED
    BY <2>3, <2>4
<1>4. Cells(f) = Cells(g) \cup C
  <2>1. DOMAIN f = S /\ DOMAIN g = R
    OBVIOUS
  <2>2. {{y} \X (1 .. f[y]) : y \in S} = {{y} \X (1 .. g[y]) : y \in R} \cup {C}
    OBVIOUS
  <2>3. UNION {C} = C
    OBVIOUS
  <2> QED
    BY <2>1, <2>2, <2>3 DEF Cells
<1>5. Cells(g) \cap C = {}
  <2> SUFFICES ASSUME NEW c \in Cells(g), c \in C PROVE FALSE
    OBVIOUS
  <2>1. PICK y \in R : c \in {y} \X (1 .. g[y])
    BY DEF Cells
  <2> QED
    BY <2>1
<1> HIDE DEF C
<1>6. Cardinality(Cells(g) \cup C) = Cardinality(Cells(g)) + Cardinality(C) - Cardinality({})
  BY <1>2, <1>3, <1>5, FS_Union
<1> QED
  BY <1>2, <1>3, <1>4, <1>6, FS_EmptySet

(* The length of one list changes. *)
LEMMA BlocksSet ==
  ASSUME NEW S, IsFiniteSet(S), NEW f \in [S -> Nat], NEW x \in S,
         NEW h \in [S -> Nat], \A y \in S : y # x => h[y] = f[y]
  PROVE  Blocks(f) \in Nat /\ Blocks(h) \in Nat /\ Blocks(h) + f[x] = Blocks(f) + h[x]
<1>1. PICK R : R = S \ {x}
  OBVIOUS
<1>2. PICK g \in [R -> Nat] : \A y \in R : g[y] = f[y]
  <2>1. [y \in R |-> f[y]] \in [R -> Nat]
    BY <1>1
  <2> QED
    BY <2>1
<1>3. \A y \in R : g[y] = h[y]
  BY <1>1, <1>2
<1>4. Blocks(f) \in Nat /\ Blocks(g) \in Nat /\ Blocks(f) = Blocks(g) + f[x]
  BY <1>1, <1>2, BlocksSplit
<1>5. Blocks(h) \in Nat /\ Blocks(h) = Blocks(g) + h[x]
  BY <1>1, <1>3, BlocksSplit
<1>6. f[x] \in Nat /\ h[x] \in Nat
  OBVIOUS
<1> QED
  BY <1>4, <1>5, <1>6

(* No list has a block. *)
LEMMA BlocksNone ==
  ASSUME NEW S, NEW f \in [S -> Nat], \A x \in S : f[x] = 0
  PROVE  Blocks(f) = 0
<1>1. Cells(f) = {}
  <2> SUFFICES ASSUME NEW c \in Cells(f) PROVE FALSE
    OBVIOUS
  <2>1. PICK x \in S : c \in {x} \X (1 .. f[x])
    BY DEF Cells
  <2> QED
    BY <2>1
<1> QED
  BY <1>1, FS_EmptySet DEF Cells, Blocks

(* The lengths of a sequence of lists, one more at its end. *)
LEMMA BlocksAppend ==
  \A n \in Nat : \A f, g :
    f \in [1 .. n -> Nat] /\ g \in [1 .. n + 1 -> Nat] /\ (\A i \in 1 .. n : g[i] = f[i]) =>
      Blocks(f) \in Nat /\ Blocks(g) \in Nat /\ Blocks(g) = Blocks(f) + g[n + 1]
<1> DEFINE Hyp(n, f, g) == /\ f \in [1 .. n -> Nat] /\ g \in [1 .. n + 1 -> Nat]
                           /\ \A i \in 1 .. n : g[i] = f[i]
<1> SUFFICES ASSUME NEW n \in Nat, NEW f, NEW g, Hyp(n, f, g)
             PROVE  Blocks(f) \in Nat /\ Blocks(g) \in Nat /\ Blocks(g) = Blocks(f) + g[n + 1]
  BY Zenon
<1> DEFINE S == 1 .. n + 1
           R == 1 .. n
           x == n + 1
<1>1. IsFiniteSet(S)
  BY FS_Interval
<1>2. /\ x \in S /\ g \in [S -> Nat] /\ R = S \ {x} /\ f \in [R -> Nat]
      /\ \A y \in R : f[y] = g[y]
  BY SMTT(60)
<1> HIDE DEF S, R, x, Hyp
<1>3. Blocks(g) \in Nat /\ Blocks(f) \in Nat /\ Blocks(g) = Blocks(f) + g[x]
  BY <1>1, <1>2, BlocksSplit
<1> QED
  BY <1>3 DEF x

(* The lengths of a sequence of lists, without the first. *)
LEMMA BlocksTail ==
  \A n \in Nat \ {0} : \A f, g :
    f \in [1 .. n -> Nat] /\ g \in [1 .. n - 1 -> Nat] /\ (\A i \in 1 .. n - 1 : g[i] = f[i + 1]) =>
      Blocks(f) \in Nat /\ Blocks(g) \in Nat /\ Blocks(f) = Blocks(g) + f[1]
<1> DEFINE Hyp(n, f, g) == /\ f \in [1 .. n -> Nat] /\ g \in [1 .. n - 1 -> Nat]
                           /\ \A i \in 1 .. n - 1 : g[i] = f[i + 1]
<1> SUFFICES ASSUME NEW n \in Nat \ {0}, NEW f, NEW g, Hyp(n, f, g)
             PROVE  Blocks(f) \in Nat /\ Blocks(g) \in Nat /\ Blocks(f) = Blocks(g) + f[1]
  BY Zenon
<1> DEFINE S == 1 .. n
           R == 2 .. n
           h == [i \in R |-> f[i]]
           B == [c \in Cells(g) |-> <<c[1] + 1, c[2]>>]
<1>1. R = S \ {1} /\ 1 \in S /\ f \in [S -> Nat] /\ h \in [R -> Nat] /\ \A i \in R : h[i] = f[i]
  OBVIOUS
<1>2. IsFiniteSet(1 .. n) /\ IsFiniteSet(1 .. n - 1)
  BY FS_Interval
<1>3. Blocks(f) \in Nat /\ Blocks(h) \in Nat /\ Blocks(f) = Blocks(h) + f[1]
  <2>1. IsFiniteSet(S)
    BY <1>2
  <2> HIDE DEF h, S, R, Hyp
  <2> QED
    BY <1>1, <2>1, BlocksSplit
<1>4. IsFiniteSet(Cells(g)) /\ Blocks(g) = Cardinality(Cells(g)) /\ Blocks(g) \in Nat
  BY <1>2, CellsFinite
<1>5. /\ \A c \in Cells(g) : \E i \in 1 .. n - 1, k \in Nat : k \in 1 .. f[i + 1] /\ c = <<i, k>>
      /\ \A i \in 1 .. n - 1, k \in Nat : k \in 1 .. f[i + 1] => <<i, k>> \in Cells(g)
  <2>1. DOMAIN g = 1 .. n - 1 /\ \A i \in 1 .. n - 1 : g[i] = f[i + 1] /\ g[i] \in Nat
    OBVIOUS
  <2>2. ASSUME NEW c \in Cells(g)
        PROVE  \E i \in 1 .. n - 1, k \in Nat : k \in 1 .. f[i + 1] /\ c = <<i, k>>
    <3>1. PICK i \in 1 .. n - 1 : c \in {i} \X (1 .. g[i])
      BY <2>1 DEF Cells
    <3> QED
      BY <2>1, <3>1
  <2>3. ASSUME NEW i \in 1 .. n - 1, NEW k \in Nat, k \in 1 .. f[i + 1]
        PROVE  <<i, k>> \in Cells(g)
    <3>1. <<i, k>> \in {i} \X (1 .. g[i])
      BY <2>1, <2>3
    <3> QED
      BY <2>1, <3>1 DEF Cells
  <2> QED
    BY <2>2, <2>3
<1>6. /\ \A c \in Cells(h) : \E i \in 2 .. n, k \in Nat : k \in 1 .. f[i] /\ c = <<i, k>>
      /\ \A i \in 2 .. n, k \in Nat : k \in 1 .. f[i] => <<i, k>> \in Cells(h)
  BY SMTT(60) DEF Cells
<1> HIDE DEF h
<1>7. B \in Bijection(Cells(g), Cells(h))
  <2>1. ASSUME NEW c \in Cells(g) PROVE B[c] \in Cells(h)
    <3>1. PICK i \in 1 .. n - 1, k \in Nat : k \in 1 .. f[i + 1] /\ c = <<i, k>>
      BY <1>5
    <3>2. i + 1 \in 2 .. n /\ B[c] = <<i + 1, k>>
      BY <3>1
    <3> QED
      BY <1>6, <3>1, <3>2
  <2>2. ASSUME NEW c \in Cells(g), NEW d \in Cells(g), B[c] = B[d] PROVE c = d
    <3>1. PICK i \in 1 .. n - 1, k \in Nat : k \in 1 .. f[i + 1] /\ c = <<i, k>>
      BY <1>5
    <3>2. PICK j \in 1 .. n - 1, m \in Nat : m \in 1 .. f[j + 1] /\ d = <<j, m>>
      BY <1>5
    <3>3. i + 1 = j + 1 /\ k = m
      BY <2>2, <3>1, <3>2
    <3> QED
      BY <3>1, <3>2, <3>3
  <2>3. ASSUME NEW d \in Cells(h) PROVE \E c \in Cells(g) : B[c] = d
    <3>1. PICK i \in 2 .. n, k \in Nat : k \in 1 .. f[i] /\ d = <<i, k>>
      BY <1>6
    <3>2. i - 1 \in 1 .. n - 1 /\ (i - 1) + 1 = i
      BY <3>1
    <3>3. <<i - 1, k>> \in Cells(g)
      BY <1>5, <3>1, <3>2
    <3>4. B[<<i - 1, k>>] = d
      BY <3>1, <3>2, <3>3
    <3> QED
      BY <3>3, <3>4
  <2>4. B \in [Cells(g) -> Cells(h)]
    BY <2>1
  <2> HIDE DEF B
  <2>5. B \in Injection(Cells(g), Cells(h))
    BY <2>2, <2>4 DEF Injection, IsInjective
  <2>6. B \in Surjection(Cells(g), Cells(h))
    BY <2>3, <2>4 DEF Surjection
  <2> QED
    BY <2>5, <2>6 DEF Bijection
<1>8. Cardinality(Cells(h)) = Cardinality(Cells(g))
  <2> HIDE DEF B
  <2> QED
    BY <1>4, <1>7, FS_Bijection DEF ExistsBijection
<1>9. Blocks(h) = Cardinality(Cells(h))
  BY DEF Cells, Blocks
<1> QED
  BY <1>3, <1>4, <1>8, <1>9

-----------------------------------------------------------------------------
(* The inductive invariant, in parts; d is the deployment. *)

Where == {"out", "waiting", "remote", "running", "held", "gone"}
Before == {"out", "waiting", "remote", "running"}
Counts == [Requests -> Nat]
Deferrals == [fence : Int, n : Nat, of : Requests]
SchedulerState ==
  [status : [Requests -> Where], running : Seq(Requests), waiting : Seq(Requests),
   skipped : Seq(Requests), computed : Counts, tokens : Counts, coming : Counts, held : Counts,
   free : Nat, deferred : Seq(Deferrals), ahead : Nat, last : Counts,
   prefills : SUBSET Requests, pulled : SUBSET Requests, moving : SUBSET Requests,
   recved : SUBSET Requests]
Batches == UNION {[S -> BOOLEAN] : S \in SUBSET Requests}

(* Requests without a load are in the order of their numbers. *)
Rising(S, seq) ==
  \A i, j \in 1 .. Len(seq) : i < j /\ seq[i] \notin S /\ seq[j] \notin S => seq[i] < seq[j]

(* Who runs is in running, who waits or loads is in one of the other lines. *)
Lines(d, s) ==
  /\ IsInjective(s.running) /\ IsInjective(s.waiting) /\ IsInjective(s.skipped)
  /\ Range(s.running) = In(s, "running")
  /\ Range(s.waiting) \cap Range(s.skipped) = {}
  /\ Range(s.waiting) \cup Range(s.skipped) = In(s, "waiting") \cup In(s, "remote")
  /\ In(s, "remote") \subseteq Range(s.skipped)
  /\ Range(s.skipped) \subseteq d.remote

Ordered(d, s) ==
  /\ Rising(d.remote, s.running) /\ Rising(d.remote, s.waiting)
  /\ \A a \in Range(s.running) \ d.remote, b \in Range(s.waiting) \ d.remote : a < b
  /\ \A a, b \in Requests : s.status[a] # "out" /\ s.status[b] = "out" => a < b

(* Every block is in one place, and who needs blocks has them. *)
Lengths(s) == [i \in 1 .. Len(s.deferred) |-> s.deferred[i].n]
Owned(s) == s.free + Blocks(s.held) + Blocks(Lengths(s))
Books(d, s) ==
  /\ Owned(s) = d.blocks
  /\ \A r \in Requests : s.status[r] \in {"out", "gone"} => s.held[r] = 0
  /\ \A r \in Requests : s.status[r] = "running" \/ r \in s.moving => s.held[r] > 0

(* A transfer is under way, over (in dn), or its arrival is known. *)
Moves(s, dn) ==
  /\ dn \subseteq Requests /\ s.moving \cap dn = {} /\ s.recved \cap (s.moving \cup dn) = {}
  /\ \A r \in s.moving \cup dn : s.status[r] \in {"remote", "held"}
  /\ \A r \in s.recved : s.status[r] = "remote"

(* The batches of q in which r gets a token. *)
Count(q, r) == Cardinality({i \in 1 .. Len(q) : r \in DOMAIN q[i] /\ q[i][r]})

(* What is computed and what is to come; the tokens of U come as well. *)
Limit(d, r) == d.prompt[r] + d.max[r]
Coming(d, q, U, r) ==
  IF d.depth > 1 THEN Count(q, r) + (IF r \in U THEN 1 ELSE 0) ELSE 0
Progressed(d, s, r) ==
  /\ s.computed[r] <= d.size * s.held[r]
  /\ s.computed[r] <= s.tokens[r] + s.coming[r]
  /\ s.tokens[r] >= 1 /\ s.tokens[r] < Limit(d, r)
  /\ s.tokens[r] + s.coming[r] <= Limit(d, r)
  /\ s.status[r] = "waiting" => s.computed[r] < s.tokens[r]
  /\ s.status[r] = "running" /\ s.coming[r] > 0 => s.computed[r] + 1 >= s.tokens[r] + s.coming[r]
Progress(d, s, q, U) ==
  \A r \in Requests : s.status[r] \in Before =>
    Progressed(d, s, r) /\ s.coming[r] = Coming(d, q, U, r)

(* Who is in a batch runs, has left, or was preempted (in P) after it. *)
Flight(d, s, q, P) ==
  /\ q \in Seq(Batches) /\ Len(q) <= d.depth
  /\ \A i \in 1 .. Len(q) : \A r \in DOMAIN q[i] :
       \/ s.status[r] \in {"running", "held", "gone"}
       \/ s.status[r] = "waiting" /\ i = 1 /\ r \in P

(* The non-empty batches among the first i. *)
StepsTo(q, i) == Cardinality({j \in 1 .. i : DOMAIN q[j] # {}})
Fenced(s, r, n) == \E k \in 1 .. Len(s.deferred) : s.deferred[k].of = r /\ s.deferred[k].fence >= n
Fences(d, s, q) ==
  d.depth > 1 /\ d.remote # {} =>
    /\ s.ahead = StepsTo(q, Len(q))
    /\ \A k \in 1 .. Len(s.deferred) : s.deferred[k].fence <= s.ahead
    /\ \A i \in 1 .. Len(q) : \A r \in DOMAIN q[i] :
         s.last[r] >= StepsTo(q, i) /\ (s.held[r] > 0 <=> ~ Fenced(s, r, StepsTo(q, i)))

Sound(d, s, q, dn, U, P) ==
  /\ s \in SchedulerState /\ Lines(d, s) /\ Ordered(d, s) /\ Books(d, s) /\ Moves(s, dn)
  /\ Progress(d, s, q, U) /\ Flight(d, s, q, P) /\ Fences(d, s, q)

-----------------------------------------------------------------------------
(* Counting batches. *)

LEMMA CountShift ==
  ASSUME NEW n \in Nat \ {0}, NEW A, A \subseteq 1 .. n, NEW B, B \subseteq 1 .. n - 1,
         \A i \in 1 .. n - 1 : i \in B <=> i + 1 \in A
  PROVE  /\ Cardinality(A) \in Nat /\ Cardinality(B) \in Nat
         /\ Cardinality(A) = Cardinality(B) + IF 1 \in A THEN 1 ELSE 0
<1> DEFINE C == {j + 1 : j \in B}
<1>1. IsFiniteSet(1 .. n) /\ IsFiniteSet(1 .. n - 1)
  BY FS_Interval
<1>2. IsFiniteSet(A) /\ IsFiniteSet(B)
  BY <1>1, FS_Subset
<1>3. Cardinality(A) \in Nat /\ Cardinality(B) \in Nat
  BY <1>2, FS_CardinalityType
<1>4. IsFiniteSet(C) /\ Cardinality(C) = Cardinality(B)
  <2>1. B \subseteq Int /\ 1 \in Int
    OBVIOUS
  <2> QED
    BY <1>2, <2>1, ShiftSize
<1>5. C = A \ {1}
  <2>1. ASSUME NEW x \in C PROVE x \in A \ {1}
    <3>1. PICK j \in B : x = j + 1
      OBVIOUS
    <3> QED
      BY <3>1
  <2>2. ASSUME NEW x \in A \ {1} PROVE x \in C
    <3>1. x - 1 \in 1 .. n - 1 /\ (x - 1) + 1 = x
      OBVIOUS
    <3>2. x - 1 \in B
      BY <3>1
    <3> QED
      BY <3>1, <3>2
  <2> QED
    BY <2>1, <2>2
<1>6. Cardinality(A \ {1}) = IF 1 \in A THEN Cardinality(A) - 1 ELSE Cardinality(A)
  BY <1>2, FS_RemoveElement
<1> HIDE DEF C
<1> QED
  BY <1>3, <1>4, <1>5, <1>6

LEMMA CountEnd ==
  ASSUME NEW n \in Nat, NEW A, A \subseteq 1 .. n + 1, NEW B, B \subseteq 1 .. n,
         \A i \in 1 .. n : i \in B <=> i \in A
  PROVE  /\ Cardinality(A) \in Nat /\ Cardinality(B) \in Nat
         /\ Cardinality(A) = Cardinality(B) + IF n + 1 \in A THEN 1 ELSE 0
<1>1. IsFiniteSet(1 .. n) /\ IsFiniteSet(1 .. n + 1)
  BY FS_Interval
<1>2. IsFiniteSet(A) /\ IsFiniteSet(B)
  BY <1>1, FS_Subset
<1>3. Cardinality(A) \in Nat /\ Cardinality(B) \in Nat
  BY <1>2, FS_CardinalityType
<1>4. B = A \ {n + 1}
  <2>1. \A x \in 1 .. n + 1 : x # n + 1 <=> x \in 1 .. n
    OBVIOUS
  <2>2. \A x \in 1 .. n : x \in 1 .. n + 1
    OBVIOUS
  <2> QED
    BY <2>1, <2>2
<1>5. Cardinality(A \ {n + 1}) = IF n + 1 \in A THEN Cardinality(A) - 1 ELSE Cardinality(A)
  BY <1>2, FS_RemoveElement
<1> QED
  BY <1>3, <1>4, <1>5

LEMMA CountFacts ==
  ASSUME NEW q \in Seq(Batches), NEW r
  PROVE  /\ Count(q, r) \in Nat /\ Count(q, r) <= Len(q)
         /\ (\A i \in 1 .. Len(q) : r \notin DOMAIN q[i]) => Count(q, r) = 0
<1> DEFINE A == {i \in 1 .. Len(q) : r \in DOMAIN q[i] /\ q[i][r]}
           I == 1 .. Len(q)
<1>1. Len(q) \in Nat /\ A \in SUBSET I /\ Count(q, r) = Cardinality(A)
  BY LenProperties DEF Count
<1>2. IsFiniteSet(I) /\ Cardinality(I) = Len(q)
  <2>1. \A n \in Nat : IsFiniteSet(1 .. n) /\ Cardinality(1 .. n) = n
    <3> TAKE n \in Nat
    <3> QED
      BY FS_Interval
  <2> QED
    BY <1>1, <2>1
<1>3. (\A i \in 1 .. Len(q) : r \notin DOMAIN q[i]) => A = {}
  OBVIOUS
<1> HIDE DEF A, I
<1>4. Cardinality(A) <= Len(q) /\ IsFiniteSet(A)
  BY <1>1, <1>2, FS_Subset
<1>5. Cardinality(A) \in Nat
  BY <1>4, FS_CardinalityType
<1> QED
  BY <1>1, <1>3, <1>4, <1>5, FS_EmptySet

LEMMA CountAppend ==
  ASSUME NEW q \in Seq(Batches), NEW b \in Batches, NEW r
  PROVE  Count(Append(q, b), r) = Count(q, r) + IF r \in DOMAIN b /\ b[r] THEN 1 ELSE 0
<1> DEFINE n == Len(q)
           p == Append(q, b)
           A == {i \in 1 .. n + 1 : r \in DOMAIN p[i] /\ p[i][r]}
           B == {i \in 1 .. n : r \in DOMAIN q[i] /\ q[i][r]}
<1>1. n \in Nat /\ Len(p) = n + 1 /\ p[n + 1] = b /\ \A i \in 1 .. n : p[i] = q[i]
  BY LenProperties, AppendProperties
<1>2. Count(p, r) = Cardinality(A) /\ Count(q, r) = Cardinality(B)
  BY <1>1 DEF Count
<1> HIDE DEF n, p
<1>3. /\ A \subseteq 1 .. n + 1 /\ B \subseteq 1 .. n /\ \A i \in 1 .. n : i \in B <=> i \in A
      /\ n + 1 \in A <=> r \in DOMAIN b /\ b[r]
  BY <1>1
<1> HIDE DEF A, B
<1>4. Cardinality(A) = Cardinality(B) + IF n + 1 \in A THEN 1 ELSE 0
  BY <1>1, <1>3, CountEnd
<1> QED
  BY <1>2, <1>3, <1>4 DEF p

LEMMA CountTail ==
  ASSUME NEW q \in Seq(Batches), q # <<>>, NEW r
  PROVE  Count(q, r) = Count(Tail(q), r) + IF r \in DOMAIN Head(q) /\ Head(q)[r] THEN 1 ELSE 0
<1> DEFINE n == Len(q)
           p == Tail(q)
           A == {i \in 1 .. n : r \in DOMAIN q[i] /\ q[i][r]}
           B == {i \in 1 .. n - 1 : r \in DOMAIN p[i] /\ p[i][r]}
<1>1. /\ n \in Nat \ {0} /\ Len(p) = n - 1 /\ Head(q) = q[1]
      /\ \A i \in 1 .. n - 1 : p[i] = q[i + 1]
  BY LenProperties, EmptySeq, HeadTailProperties
<1>2. Count(q, r) = Cardinality(A) /\ Count(p, r) = Cardinality(B)
  BY <1>1 DEF Count
<1> HIDE DEF n, p
<1>3. /\ A \subseteq 1 .. n /\ B \subseteq 1 .. n - 1
      /\ \A i \in 1 .. n - 1 : i \in B <=> i + 1 \in A
      /\ 1 \in A <=> r \in DOMAIN Head(q) /\ Head(q)[r]
  BY <1>1
<1> HIDE DEF A, B
<1>4. Cardinality(A) = Cardinality(B) + IF 1 \in A THEN 1 ELSE 0
  BY <1>1, <1>3, CountShift
<1> QED
  BY <1>2, <1>3, <1>4 DEF p

LEMMA StepsFacts ==
  ASSUME NEW q \in Seq(Batches), NEW i \in 0 .. Len(q)
  PROVE  /\ StepsTo(q, i) \in Nat
         /\ StepsTo(q, i) <= StepsTo(q, Len(q))
         /\ i \in 1 .. Len(q) /\ DOMAIN q[i] # {} => StepsTo(q, i) >= 1
<1> DEFINE A == {j \in 1 .. i : DOMAIN q[j] # {}}
           B == {j \in 1 .. Len(q) : DOMAIN q[j] # {}}
<1>1. Len(q) \in Nat /\ i \in Nat /\ StepsTo(q, i) = Cardinality(A) /\ StepsTo(q, Len(q)) = Cardinality(B)
  BY LenProperties DEF StepsTo
<1>2. IsFiniteSet(1 .. Len(q))
  BY <1>1, FS_Interval
<1>3. A \in SUBSET B /\ B \in SUBSET (1 .. Len(q))
  BY <1>1
<1>4. i \in 1 .. Len(q) /\ DOMAIN q[i] # {} => A # {}
  BY <1>1
<1> HIDE DEF A, B
<1>5. IsFiniteSet(B)
  BY <1>2, <1>3, FS_Subset
<1>6. IsFiniteSet(A) /\ Cardinality(A) <= Cardinality(B)
  BY <1>3, <1>5, FS_Subset
<1>7. Cardinality(A) \in Nat /\ (Cardinality(A) = 0 <=> A = {})
  BY <1>6, FS_CardinalityType, FS_EmptySet
<1> QED
  BY <1>1, <1>4, <1>6, <1>7

LEMMA StepsAppend ==
  ASSUME NEW q \in Seq(Batches), NEW b \in Batches
  PROVE  /\ \A i \in 0 .. Len(q) : StepsTo(Append(q, b), i) = StepsTo(q, i)
         /\ StepsTo(Append(q, b), Len(q) + 1) = StepsTo(q, Len(q)) + IF DOMAIN b # {} THEN 1 ELSE 0
<1> DEFINE n == Len(q)
           p == Append(q, b)
           A == {i \in 1 .. n + 1 : DOMAIN p[i] # {}}
           B == {i \in 1 .. n : DOMAIN q[i] # {}}
<1>1. n \in Nat /\ Len(p) = n + 1 /\ p[n + 1] = b /\ \A i \in 1 .. n : p[i] = q[i]
  BY LenProperties, AppendProperties
<1>2. StepsTo(p, n + 1) = Cardinality(A) /\ StepsTo(q, n) = Cardinality(B)
  BY DEF StepsTo
<1>3. ASSUME NEW i \in 0 .. n PROVE StepsTo(p, i) = StepsTo(q, i)
  <2>1. {j \in 1 .. i : DOMAIN p[j] # {}} = {j \in 1 .. i : DOMAIN q[j] # {}}
    BY <1>1
  <2> QED
    BY <2>1 DEF StepsTo
<1> HIDE DEF n, p
<1>4. /\ A \subseteq 1 .. n + 1 /\ B \subseteq 1 .. n /\ \A i \in 1 .. n : i \in B <=> i \in A
      /\ n + 1 \in A <=> DOMAIN b # {}
  BY <1>1
<1> HIDE DEF A, B
<1>5. Cardinality(A) = Cardinality(B) + IF n + 1 \in A THEN 1 ELSE 0
  BY <1>1, <1>4, CountEnd
<1> QED
  BY <1>2, <1>3, <1>4, <1>5 DEF p, n

LEMMA StepsTail ==
  ASSUME NEW q \in Seq(Batches), q # <<>>, NEW i \in 0 .. Len(q) - 1
  PROVE  StepsTo(q, i + 1) = StepsTo(Tail(q), i) + IF DOMAIN Head(q) # {} THEN 1 ELSE 0
<1> DEFINE n == i + 1
           p == Tail(q)
           A == {j \in 1 .. n : DOMAIN q[j] # {}}
           B == {j \in 1 .. n - 1 : DOMAIN p[j] # {}}
<1>1. /\ Len(q) \in Nat \ {0} /\ Len(p) = Len(q) - 1 /\ Head(q) = q[1]
      /\ \A j \in 1 .. Len(q) - 1 : p[j] = q[j + 1]
  BY LenProperties, EmptySeq, HeadTailProperties
<1>2. n \in Nat \ {0} /\ n - 1 = i /\ n <= Len(q)
  BY <1>1
<1>3. StepsTo(q, n) = Cardinality(A) /\ StepsTo(p, i) = Cardinality(B)
  BY <1>2 DEF StepsTo
<1> HIDE DEF n, p
<1>4. /\ A \subseteq 1 .. n /\ B \subseteq 1 .. n - 1
      /\ \A j \in 1 .. n - 1 : j \in B <=> j + 1 \in A
      /\ 1 \in A <=> DOMAIN Head(q) # {}
  BY <1>1, <1>2
<1> HIDE DEF A, B
<1>5. Cardinality(A) = Cardinality(B) + IF 1 \in A THEN 1 ELSE 0
  BY <1>2, <1>4, CountShift
<1> QED
  BY <1>3, <1>4, <1>5 DEF p, n

-----------------------------------------------------------------------------
(* Lines in the order of the numbers. *)

LEMMA RequestNumbers == Requests \subseteq Nat /\ IsFiniteSet(Requests)
<1>1. Cardinality(Requests) \in Nat
  BY RequestsAssumption, FS_CardinalityType
<1> QED
  BY <1>1, RequestsAssumption

(* The line without its last one. *)
LEMMA FrontDict ==
  ASSUME NEW s \in Seq(Requests), s # <<>>, IsInjective(s)
  PROVE  /\ Last(s) \in Range(s) /\ Last(s) = s[Len(s)] /\ Len(s) \in Nat \ {0}
         /\ Front(s) \in Seq(Requests) /\ Len(Front(s)) = Len(s) - 1
         /\ \A i \in 1 .. Len(s) - 1 : Front(s)[i] = s[i]
         /\ Range(Front(s)) = Range(s) \ {Last(s)}
         /\ IsInjective(Front(s))
<1> DEFINE n == Len(s)
           f == Front(s)
<1>1. n \in Nat \ {0} /\ DOMAIN s = 1 .. n /\ \A i \in 1 .. n : s[i] \in Requests
  BY LenProperties, EmptySeq
<1>2. Last(s) = s[n]
  BY DEF Last
<1>3. f = SubSeq(s, 1, n - 1) /\ n - 1 \in Int
  BY <1>1 DEF Front
<1>4. \A i \in 1 .. n - 1 : s[i] \in Requests
  BY <1>1
<1> HIDE DEF n, f
<1>5. f \in Seq(Requests) /\ Len(f) = n - 1 /\ \A i \in 1 .. n - 1 : f[i] = s[i]
  <2>1. /\ f \in Seq(Requests) /\ Len(f) = IF 1 <= n - 1 THEN (n - 1) - 1 + 1 ELSE 0
        /\ \A i \in 1 .. (n - 1) - 1 + 1 : f[i] = s[1 + i - 1]
    BY <1>1, <1>3, <1>4, SubSeqProperties
  <2>2. \A i \in 1 .. n - 1 : i \in 1 .. (n - 1) - 1 + 1 /\ 1 + i - 1 = i
    BY <1>1
  <2>3. \A i \in 1 .. n - 1 : f[i] = s[1 + i - 1]
    BY <2>1, <2>2
  <2> QED
    BY <1>1, <2>1, <2>2, <2>3
<1>6. DOMAIN f = 1 .. n - 1
  BY <1>5, LenProperties
<1>7. \A i, j \in 1 .. n : s[i] = s[j] => i = j
  BY <1>1 DEF IsInjective
<1>8. Range(f) = Range(s) \ {s[n]}
  <2>1. ASSUME NEW x \in Range(f) PROVE x \in Range(s) \ {s[n]}
    <3>1. PICK i \in 1 .. n - 1 : x = s[i]
      BY <1>5, <1>6 DEF Range
    <3>2. i \in 1 .. n /\ i # n /\ n \in 1 .. n
      BY <1>1, <3>1
    <3> QED
      BY <1>1, <1>7, <3>1, <3>2 DEF Range
  <2>2. ASSUME NEW x \in Range(s) \ {s[n]} PROVE x \in Range(f)
    <3>1. PICK i \in 1 .. n : x = s[i]
      BY <1>1 DEF Range
    <3>2. i \in 1 .. n - 1
      BY <1>1, <3>1, <2>2
    <3> QED
      BY <1>5, <1>6, <3>1, <3>2 DEF Range
  <2> QED
    BY <2>1, <2>2
<1>9. IsInjective(f)
  <2> SUFFICES ASSUME NEW i \in 1 .. n - 1, NEW j \in 1 .. n - 1, f[i] = f[j] PROVE i = j
    BY <1>6 DEF IsInjective
  <2>1. i \in 1 .. n /\ j \in 1 .. n
    BY <1>1
  <2> QED
    BY <1>5, <1>7, <2>1
<1>10. s[n] \in Range(s)
  BY <1>1 DEF Range
<1> QED
  BY <1>1, <1>2, <1>5, <1>8, <1>9, <1>10 DEF n, f

(* One more at the end of a line, or at its front. *)
LEMMA RisingAppend ==
  ASSUME NEW S, NEW s \in Seq(Requests), Rising(S, s), NEW x \in Requests,
         x \in S \/ \A a \in Range(s) \ S : a < x
  PROVE  Rising(S, Append(s, x))
<1> DEFINE n == Len(s)
           t == Append(s, x)
<1>1. /\ n \in Nat /\ Len(t) = n + 1 /\ t[n + 1] = x /\ \A i \in 1 .. n : t[i] = s[i] /\ s[i] \in Range(s)
  BY LenProperties, AppendProperties DEF Range
<1>2. \A i, j \in 1 .. n : i < j /\ s[i] \notin S /\ s[j] \notin S => s[i] < s[j]
  BY DEF Rising
<1> HIDE DEF n, t
<1> SUFFICES ASSUME NEW i \in 1 .. n + 1, NEW j \in 1 .. n + 1, i < j, t[i] \notin S, t[j] \notin S
             PROVE  t[i] < t[j]
  BY <1>1 DEF Rising, t
<1>3. i \in 1 .. n
  BY <1>1
<1>4. CASE j \in 1 .. n
  BY <1>1, <1>2, <1>3, <1>4
<1>5. CASE j = n + 1
  BY <1>1, <1>3, <1>5
<1> QED
  BY <1>1, <1>4, <1>5

LEMMA RisingCons ==
  ASSUME NEW S, NEW s \in Seq(Requests), Rising(S, s), NEW x \in Requests,
         x \in S \/ \A a \in Range(s) \ S : x < a
  PROVE  Rising(S, <<x>> \o s)
<1> DEFINE n == Len(s)
           t == <<x>> \o s
<1>1. /\ n \in Nat /\ Len(t) = n + 1 /\ t[1] = x
      /\ \A i \in 2 .. n + 1 : t[i] = s[i - 1] /\ i - 1 \in 1 .. n /\ s[i - 1] \in Range(s)
  <2>1. <<x>> \in Seq(Requests) /\ Len(<<x>>) = 1 /\ <<x>>[1] = x
    OBVIOUS
  <2>2. n \in Nat /\ DOMAIN s = 1 .. n
    BY LenProperties
  <2>3. /\ Len(t) = 1 + n
        /\ \A i \in 1 .. 1 + n : t[i] = IF i <= 1 THEN <<x>>[i] ELSE s[i - 1]
    BY <2>1, ConcatProperties
  <2> HIDE DEF n, t
  <2>4. ASSUME NEW i \in 2 .. n + 1 PROVE t[i] = s[i - 1] /\ i - 1 \in 1 .. n /\ s[i - 1] \in Range(s)
    BY <2>2, <2>3 DEF Range
  <2> QED
    BY <2>1, <2>2, <2>3, <2>4
<1>2. \A i, j \in 1 .. n : i < j /\ s[i] \notin S /\ s[j] \notin S => s[i] < s[j]
  BY DEF Rising
<1> HIDE DEF n, t
<1> SUFFICES ASSUME NEW i \in 1 .. n + 1, NEW j \in 1 .. n + 1, i < j, t[i] \notin S, t[j] \notin S
             PROVE  t[i] < t[j]
  BY <1>1 DEF Rising, t
<1>3. j \in 2 .. n + 1 /\ (i = 1 \/ i \in 2 .. n + 1)
  BY <1>1
<1>4. CASE i = 1
  BY <1>1, <1>3, <1>4
<1>5. CASE i \in 2 .. n + 1
  <2>1. i - 1 < j - 1 /\ i - 1 \in 1 .. n /\ j - 1 \in 1 .. n
    BY <1>1, <1>3, <1>5
  <2> QED
    BY <1>1, <1>2, <1>3, <1>5, <2>1
<1> QED
  BY <1>3, <1>4, <1>5

(* A part of a line, in its order. *)
LEMMA RisingPart ==
  ASSUME NEW S, NEW s \in Seq(Requests), Rising(S, s), NEW t \in Seq(Requests),
         \A i, j \in 1 .. Len(t) : i < j =>
           \E a, b \in 1 .. Len(s) : a < b /\ t[i] = s[a] /\ t[j] = s[b]
  PROVE  Rising(S, t)
<1> SUFFICES ASSUME NEW i \in 1 .. Len(t), NEW j \in 1 .. Len(t), i < j, t[i] \notin S, t[j] \notin S
             PROVE  t[i] < t[j]
  BY DEF Rising
<1>1. PICK a, b \in 1 .. Len(s) : a < b /\ t[i] = s[a] /\ t[j] = s[b]
  OBVIOUS
<1> QED
  BY <1>1 DEF Rising

LEMMA RisingFront ==
  ASSUME NEW S, NEW s \in Seq(Requests), s # <<>>, IsInjective(s), Rising(S, s)
  PROVE  /\ Rising(S, Front(s))
         /\ Last(s) \in S \/ \A a \in Range(Front(s)) \ S : a < Last(s)
<1>1. /\ Last(s) = s[Len(s)] /\ Len(s) \in Nat \ {0}
      /\ Front(s) \in Seq(Requests) /\ Len(Front(s)) = Len(s) - 1
      /\ \A i \in 1 .. Len(s) - 1 : Front(s)[i] = s[i]
  BY FrontDict
<1>2. Rising(S, Front(s))
  <2>1. \A i \in 1 .. Len(s) - 1 : i \in 1 .. Len(s)
    BY <1>1
  <2> QED
    BY <1>1, <2>1 DEF Rising
<1>3. ASSUME NEW a \in Range(Front(s)) \ S, Last(s) \notin S PROVE a < Last(s)
  <2>1. DOMAIN Front(s) = 1 .. Len(s) - 1
    BY <1>1, LenProperties
  <2>2. PICK i \in 1 .. Len(s) - 1 : a = s[i]
    BY <1>1, <2>1 DEF Range
  <2>3. i \in 1 .. Len(s) /\ Len(s) \in 1 .. Len(s) /\ i < Len(s)
    BY <1>1, <2>2
  <2> QED
    BY <1>1, <1>3, <2>2, <2>3 DEF Rising
<1> QED
  BY <1>2, <1>3

LEMMA RisingTail ==
  ASSUME NEW S, NEW s \in Seq(Requests), s # <<>>, Rising(S, s)
  PROVE  /\ Rising(S, Tail(s))
         /\ Head(s) \in S \/ \A a \in Range(Tail(s)) \ S : Head(s) < a
<1>1. /\ Len(s) \in Nat \ {0} /\ Tail(s) \in Seq(Requests) /\ Len(Tail(s)) = Len(s) - 1
      /\ Head(s) = s[1] /\ \A i \in 1 .. Len(s) - 1 : Tail(s)[i] = s[i + 1]
  BY LenProperties, EmptySeq, HeadTailProperties
<1>2. \A i \in 1 .. Len(s) - 1 : i + 1 \in 1 .. Len(s) /\ 1 < i + 1 /\ 1 \in 1 .. Len(s)
  BY <1>1
<1>3. Rising(S, Tail(s))
  <2> SUFFICES ASSUME NEW i \in 1 .. Len(s) - 1, NEW j \in 1 .. Len(s) - 1, i < j,
                      s[i + 1] \notin S, s[j + 1] \notin S
               PROVE  s[i + 1] < s[j + 1]
    BY <1>1 DEF Rising
  <2>1. i + 1 < j + 1
    BY <1>1
  <2> QED
    BY <1>2, <2>1 DEF Rising
<1>4. ASSUME NEW a \in Range(Tail(s)) \ S, Head(s) \notin S PROVE Head(s) < a
  <2>1. DOMAIN Tail(s) = 1 .. Len(s) - 1
    BY <1>1, LenProperties
  <2>2. PICK i \in 1 .. Len(s) - 1 : a = s[i + 1]
    BY <1>1, <2>1 DEF Range
  <2> QED
    BY <1>1, <1>2, <1>4, <2>2 DEF Rising
<1> QED
  BY <1>3, <1>4

LEMMA RisingWithout ==
  ASSUME NEW S, NEW s \in Seq(Requests), Rising(S, s), NEW p
  PROVE  Rising(S, Without(s, p))
<1> DEFINE R == Range(s) \ {p}
           D == Places(s, R)
           t == Kept(s, R)
<1>0. Without(s, p) = t
  BY DEF Without
<1> HIDE DEF R
<1>1. /\ IsFiniteSet(D) /\ Cardinality(D) \in Nat /\ Len(t) = Cardinality(D)
      /\ \A k \in 1 .. Cardinality(D) : \E i \in D : Rank(D, i) = k
      /\ \A i \in D : t[Rank(D, i)] = s[i]
  BY KeptRank
<1>2. D \subseteq 1 .. Len(s) /\ Len(s) \in Nat
  BY LenProperties DEF Places
<1>3. t \in Seq(Requests)
  BY KeptFacts
<1> HIDE DEF D, t
<1>4. ASSUME NEW a \in D, NEW b \in D, ~ a < b PROVE ~ Rank(D, a) < Rank(D, b)
  <2>0. \A j \in D : j <= b => j <= a
    BY <1>2, <1>4
  <2>1. {j \in D : j <= b} \in SUBSET {j \in D : j <= a}
    BY <2>0
  <2>2. IsFiniteSet({j \in D : j <= a})
    BY <1>1, FS_Subset
  <2>3. /\ IsFiniteSet({j \in D : j <= b})
        /\ Cardinality({j \in D : j <= b}) <= Cardinality({j \in D : j <= a})
    BY <2>1, <2>2, FS_Subset
  <2>4. Cardinality({j \in D : j <= b}) \in Nat /\ Cardinality({j \in D : j <= a}) \in Nat
    BY <2>2, <2>3, FS_CardinalityType
  <2> QED
    BY <2>3, <2>4 DEF Rank
<1>5. ASSUME NEW i \in 1 .. Len(t), NEW j \in 1 .. Len(t), i < j
      PROVE  \E a, b \in 1 .. Len(s) : a < b /\ t[i] = s[a] /\ t[j] = s[b]
  <2>1. PICK a \in D : Rank(D, a) = i
    BY <1>1
  <2>2. PICK b \in D : Rank(D, b) = j
    BY <1>1
  <2>3. a < b
    BY <1>4, <1>5, <2>1, <2>2
  <2> QED
    BY <1>1, <1>2, <2>1, <2>2, <2>3
<1>6. Rising(S, t)
  BY <1>3, <1>5, RisingPart
<1> QED
  BY <1>0, <1>6

-----------------------------------------------------------------------------
(* A state and its blocks. *)

LEMMA Deployed ==
  ASSUME on \in Deployments
  PROVE  /\ on.prompt \in [Requests -> Nat \ {0}] /\ on.max \in [Requests -> Nat \ {0}]
         /\ on.remote \subseteq Requests /\ on.depth \in {1, 2} /\ on.blocks \in Nat
         /\ on.size \in Nat \ {0} /\ on.batched \in Nat /\ on.seqs \in Nat /\ on.mark \in Nat
  BY DeploymentsAssumption

LEMMA Fields ==
  ASSUME NEW s \in SchedulerState
  PROVE  /\ s.status \in [Requests -> Where]
         /\ s.running \in Seq(Requests) /\ s.waiting \in Seq(Requests) /\ s.skipped \in Seq(Requests)
         /\ s.computed \in [Requests -> Nat] /\ s.tokens \in [Requests -> Nat]
         /\ s.coming \in [Requests -> Nat] /\ s.held \in [Requests -> Nat]
         /\ s.last \in [Requests -> Nat] /\ s.free \in Nat /\ s.ahead \in Nat
         /\ s.deferred \in Seq(Deferrals)
         /\ s.prefills \subseteq Requests /\ s.pulled \subseteq Requests
         /\ s.moving \subseteq Requests /\ s.recved \subseteq Requests
  BY DEF SchedulerState, Counts

LEMMA DeferredFacts ==
  ASSUME NEW s, s.deferred \in Seq(Deferrals)
  PROVE  /\ Len(s.deferred) \in Nat
         /\ \A k \in 1 .. Len(s.deferred) :
              /\ s.deferred[k].fence \in Int /\ s.deferred[k].n \in Nat /\ s.deferred[k].of \in Requests
         /\ Lengths(s) \in [1 .. Len(s.deferred) -> Nat]
         /\ \A k \in 1 .. Len(s.deferred) : Lengths(s)[k] = s.deferred[k].n
         /\ Blocks(Lengths(s)) \in Nat
<1>1. Len(s.deferred) \in Nat /\ \A k \in 1 .. Len(s.deferred) : s.deferred[k] \in Deferrals
  BY LenProperties
<1>2. \A k \in 1 .. Len(s.deferred) :
         /\ s.deferred[k].fence \in Int /\ s.deferred[k].n \in Nat /\ s.deferred[k].of \in Requests
  BY <1>1 DEF Deferrals
<1>3. Lengths(s) \in [1 .. Len(s.deferred) -> Nat]
  BY <1>2 DEF Lengths
<1>4. \A n \in Nat : IsFiniteSet(1 .. n)
  BY FS_Interval
<1>5. Blocks(Lengths(s)) \in Nat
  <2> DEFINE S == 1 .. Len(s.deferred)
             f == Lengths(s)
  <2>1. IsFiniteSet(S) /\ f \in [S -> Nat]
    BY <1>1, <1>3, <1>4
  <2> HIDE DEF S, f
  <2>2. Blocks(f) \in Nat
    BY <2>1, CellsFinite
  <2> QED
    BY <2>2 DEF f
<1> QED
  BY <1>1, <1>2, <1>3, <1>5 DEF Lengths

LEMMA OwnedFacts ==
  ASSUME NEW s \in SchedulerState
  PROVE  Blocks(s.held) \in Nat /\ Blocks(Lengths(s)) \in Nat /\ Owned(s) \in Nat
<1>1. s.held \in [Requests -> Nat] /\ s.free \in Nat /\ s.deferred \in Seq(Deferrals)
  BY Fields
<1>2. Blocks(s.held) \in Nat
  BY <1>1, RequestNumbers, CellsFinite
<1>3. Blocks(Lengths(s)) \in Nat
  BY <1>1, DeferredFacts
<1> QED
  BY <1>1, <1>2, <1>3 DEF Owned

(* One more waits, or the first one does not any more. *)
LEMMA DeferredAppend ==
  ASSUME NEW q \in Seq(Deferrals), NEW d \in Deferrals
  PROVE  /\ Append(q, d) \in Seq(Deferrals) /\ Len(Append(q, d)) = Len(q) + 1
         /\ Append(q, d)[Len(q) + 1] = d
         /\ \A k \in 1 .. Len(q) : Append(q, d)[k] = q[k]
  BY AppendProperties

LEMMA LengthsAppend ==
  ASSUME NEW s, NEW t, s.deferred \in Seq(Deferrals), NEW d \in Deferrals,
         t.deferred = Append(s.deferred, d)
  PROVE  Blocks(Lengths(t)) = Blocks(Lengths(s)) + d.n
<1> DEFINE n == Len(s.deferred)
           f == Lengths(s)
           g == Lengths(t)
<1>1. /\ n \in Nat /\ t.deferred \in Seq(Deferrals) /\ Len(t.deferred) = n + 1
      /\ t.deferred[n + 1] = d /\ \A k \in 1 .. n : t.deferred[k] = s.deferred[k]
  BY DeferredAppend, LenProperties
<1>2. f \in [1 .. n -> Nat] /\ \A k \in 1 .. n : f[k] = s.deferred[k].n
  BY DeferredFacts
<1>3. g \in [1 .. n + 1 -> Nat] /\ \A k \in 1 .. n + 1 : g[k] = t.deferred[k].n
  BY <1>1, DeferredFacts
<1> HIDE DEF n, f, g
<1>4. \A k \in 1 .. n : k \in 1 .. n + 1
  BY <1>1
<1>5. \A k \in 1 .. n : g[k] = f[k]
  BY <1>1, <1>2, <1>3, <1>4
<1>6. Blocks(g) = Blocks(f) + g[n + 1]
  BY <1>1, <1>2, <1>3, <1>5, BlocksAppend, SMTT(60)
<1>7. g[n + 1] = d.n
  BY <1>1, <1>3
<1> QED
  BY <1>6, <1>7 DEF f, g

LEMMA LengthsTail ==
  ASSUME NEW s, NEW t, s.deferred \in Seq(Deferrals), s.deferred # <<>>,
         t.deferred = Tail(s.deferred)
  PROVE  /\ Blocks(Lengths(s)) = Blocks(Lengths(t)) + Head(s.deferred).n
         /\ Head(s.deferred).n \in Nat /\ t.deferred \in Seq(Deferrals)
<1> DEFINE n == Len(s.deferred)
           f == Lengths(s)
           g == Lengths(t)
<1>1. /\ n \in Nat \ {0} /\ t.deferred \in Seq(Deferrals) /\ Len(t.deferred) = n - 1
      /\ Head(s.deferred) = s.deferred[1]
      /\ \A k \in 1 .. n - 1 : t.deferred[k] = s.deferred[k + 1]
  BY HeadTailProperties, LenProperties, EmptySeq
<1>2. f \in [1 .. n -> Nat] /\ \A k \in 1 .. n : f[k] = s.deferred[k].n /\ f[k] \in Nat
  BY DeferredFacts
<1>3. g \in [1 .. n - 1 -> Nat] /\ \A k \in 1 .. n - 1 : g[k] = t.deferred[k].n
  BY <1>1, DeferredFacts
<1> HIDE DEF n, f, g
<1>4. \A k \in 1 .. n - 1 : k + 1 \in 1 .. n
  BY <1>1
<1>5. \A k \in 1 .. n - 1 : g[k] = f[k + 1]
  BY <1>1, <1>2, <1>3, <1>4
<1>6. Blocks(f) = Blocks(g) + f[1]
  BY <1>1, <1>2, <1>3, <1>5, BlocksTail
<1>7. 1 \in 1 .. n
  BY <1>1
<1> QED
  BY <1>1, <1>2, <1>6, <1>7 DEF f, g

(***************************************************************************)
(* _free_request_blocks: the blocks of r are free or wait behind the       *)
(* fence; none is lost and none appears.                                   *)
(***************************************************************************)
Elsewhere(s, t) ==
  /\ t.status = s.status /\ t.running = s.running /\ t.waiting = s.waiting
  /\ t.skipped = s.skipped /\ t.computed = s.computed /\ t.tokens = s.tokens
  /\ t.coming = s.coming /\ t.ahead = s.ahead /\ t.last = s.last
  /\ t.prefills = s.prefills /\ t.pulled = s.pulled /\ t.moving = s.moving
  /\ t.recved = s.recved

LEMMA FreeFields ==
  ASSUME on \in Deployments, NEW s \in SchedulerState, NEW r \in Requests,
         NEW t, t = FreeRequestBlocks(s, r)
  PROVE  /\ t \in SchedulerState /\ Elsewhere(s, t)
         /\ t.held[r] = 0 /\ \A x \in Requests : x # r => t.held[x] = s.held[x]
         /\ Owned(t) = Owned(s)
         /\ \/ t.deferred = s.deferred /\ (~Defer \/ s.last[r] = 0 \/ s.held[r] = 0)
            \/ /\ s.held[r] > 0
               /\ t.deferred = Append(s.deferred, [fence |-> s.ahead, n |-> s.held[r], of |-> r])
<1> DEFINE n == s.held[r]
           d == [fence |-> s.ahead, n |-> n, of |-> r]
           u == [s EXCEPT !.held[r] = 0, !.free = @ + n]
           v == [s EXCEPT !.held[r] = 0, !.deferred = Append(@, d)]
<1>1. /\ n \in Nat /\ s.held \in [Requests -> Nat] /\ s.free \in Nat /\ s.ahead \in Nat
      /\ s.deferred \in Seq(Deferrals)
  BY Fields
<1>2. d \in Deferrals /\ d.n = n
  BY <1>1 DEF Deferrals
<1>3. Append(s.deferred, d) \in Seq(Deferrals)
  BY <1>1, <1>2, DeferredAppend
<1>4. [s.held EXCEPT ![r] = 0] \in [Requests -> Nat] /\ s.free + n \in Nat
  BY <1>1
<1>10. /\ [s.held EXCEPT ![r] = 0][r] = 0
      /\ \A x \in Requests : x # r => [s.held EXCEPT ![r] = 0][x] = s.held[x]
  BY <1>1
<1>5. Blocks([s.held EXCEPT ![r] = 0]) \in Nat /\ Blocks(s.held) \in Nat
      /\ Blocks([s.held EXCEPT ![r] = 0]) + n = Blocks(s.held)
  <2> DEFINE f == s.held
             h == [f EXCEPT ![r] = 0]
  <2>1. /\ f \in [Requests -> Nat] /\ IsFiniteSet(Requests) /\ h \in [Requests -> Nat]
        /\ h[r] = 0 /\ n = f[r] /\ \A x \in Requests : x # r => h[x] = f[x]
    BY <1>1, RequestNumbers
  <2> HIDE DEF f, n, h
  <2>2. /\ Blocks(f) \in Nat /\ Blocks(h) \in Nat /\ Blocks(h) + f[r] = Blocks(f) + h[r]
    BY <2>1, BlocksSet
  <2>3. Blocks(h) + n = Blocks(f)
    BY <2>1, <2>2
  <2> QED
    BY <2>2, <2>3 DEF f, h
<1>6. Blocks(Lengths(s)) \in Nat
  BY OwnedFacts
<1>7. CASE ~Defer \/ s.last[r] = 0
  <2>1. t = u
    BY <1>7 DEF FreeRequestBlocks
  <2>2. u \in SchedulerState
    BY <1>4 DEF SchedulerState, Counts
  <2>3. /\ Elsewhere(s, u) /\ u.deferred = s.deferred /\ u.free = s.free + n
        /\ u.held = [s.held EXCEPT ![r] = 0]
    BY DEF SchedulerState, Elsewhere
  <2>4. Lengths(u) = Lengths(s)
    BY <2>3 DEF Lengths
  <2> HIDE DEF u, n
  <2>5. Owned(u) = Owned(s)
    BY <1>1, <1>5, <1>6, <2>3, <2>4 DEF Owned
  <2> QED
    BY <1>7, <1>10, <2>1, <2>2, <2>3, <2>5
<1>8. CASE Defer /\ s.last[r] # 0 /\ n = 0
  <2>1. t = s
    BY <1>8 DEF FreeRequestBlocks
  <2> QED
    BY <1>8, <2>1 DEF Elsewhere
<1>9. CASE Defer /\ s.last[r] # 0 /\ n # 0
  <2>1. t = v
    BY <1>9 DEF FreeRequestBlocks, Fence
  <2>2. v \in SchedulerState
    BY <1>3, <1>4 DEF SchedulerState, Counts
  <2>3. /\ Elsewhere(s, v) /\ v.deferred = Append(s.deferred, d) /\ v.free = s.free
        /\ v.held = [s.held EXCEPT ![r] = 0]
    BY DEF SchedulerState, Elsewhere
  <2> HIDE DEF v
  <2>4. Blocks(Lengths(v)) = Blocks(Lengths(s)) + d.n
    BY <1>1, <1>2, <2>3, LengthsAppend
  <2>5. n > 0
    BY <1>1, <1>9
  <2> HIDE DEF d
  <2>6. Owned(v) = Owned(s)
    BY <1>1, <1>2, <1>5, <1>6, <2>3, <2>4 DEF Owned
  <2> QED
    BY <1>10, <2>1, <2>2, <2>3, <2>5, <2>6 DEF d
<1> QED
  BY <1>7, <1>8, <1>9

(* The fences of the batches in flight hold when r loses its blocks. *)
LEMMA FreeFences ==
  ASSUME on \in Deployments, NEW s \in SchedulerState, NEW r \in Requests,
         NEW q \in Seq(Batches), Fences(on, s, q),
         NEW t, t = FreeRequestBlocks(s, r)
  PROVE  Fences(on, t, q)
<1> SUFFICES ASSUME on.depth > 1 /\ on.remote # {}
             PROVE  /\ t.ahead = StepsTo(q, Len(q))
                    /\ \A k \in 1 .. Len(t.deferred) : t.deferred[k].fence <= t.ahead
                    /\ \A i \in 1 .. Len(q) : \A x \in DOMAIN q[i] :
                         /\ t.last[x] >= StepsTo(q, i)
                         /\ (t.held[x] > 0 <=> ~ Fenced(t, x, StepsTo(q, i)))
  BY DEF Fences
<1>1. /\ s.ahead = StepsTo(q, Len(q))
      /\ \A k \in 1 .. Len(s.deferred) : s.deferred[k].fence <= s.ahead
      /\ \A i \in 1 .. Len(q) : \A x \in DOMAIN q[i] :
           s.last[x] >= StepsTo(q, i) /\ (s.held[x] > 0 <=> ~ Fenced(s, x, StepsTo(q, i)))
  BY DEF Fences
<1>2. /\ t.last = s.last /\ t.ahead = s.ahead /\ t.held[r] = 0
      /\ \A x \in Requests : x # r => t.held[x] = s.held[x]
      /\ \/ t.deferred = s.deferred /\ (s.last[r] = 0 \/ s.held[r] = 0)
         \/ /\ s.held[r] > 0
            /\ t.deferred = Append(s.deferred, [fence |-> s.ahead, n |-> s.held[r], of |-> r])
  <2>1. Defer = TRUE
    BY DEF Defer, Async, Consumer, Depth, Remote
  <2> QED
    BY <2>1, FreeFields DEF Elsewhere
<1>3. /\ s.held \in [Requests -> Nat] /\ s.ahead \in Nat /\ s.deferred \in Seq(Deferrals)
      /\ Len(s.deferred) \in Nat
      /\ \A k \in 1 .. Len(s.deferred) : s.deferred[k].fence \in Int
  BY Fields, DeferredFacts
<1>4. ASSUME NEW i \in 1 .. Len(q), NEW x \in DOMAIN q[i]
      PROVE  StepsTo(q, i) \in Nat /\ StepsTo(q, i) >= 1 /\ StepsTo(q, i) <= s.ahead /\ x \in Requests
  <2>1. q[i] \in Batches /\ i \in 0 .. Len(q)
    BY LenProperties
  <2>2. x \in Requests
    BY <2>1 DEF Batches
  <2> QED
    BY <1>1, <2>1, <2>2, StepsFacts
<1>5. CASE t.deferred = s.deferred /\ (s.last[r] = 0 \/ s.held[r] = 0)
  <2>1. ASSUME NEW i \in 1 .. Len(q), NEW x \in DOMAIN q[i]
        PROVE  t.last[x] >= StepsTo(q, i) /\ (t.held[x] > 0 <=> ~ Fenced(t, x, StepsTo(q, i)))
    <3>1. Fenced(t, x, StepsTo(q, i)) <=> Fenced(s, x, StepsTo(q, i))
      BY <1>5 DEF Fenced
    <3>2. s.last[x] >= 1
      BY <1>1, <1>4, Fields
    <3>3. t.held[x] = s.held[x]
      BY <1>2, <1>3, <1>4, <1>5, <3>2, SMTT(60)
    <3> QED
      BY <1>1, <1>2, <3>1, <3>3
  <2> QED
    BY <1>1, <1>2, <1>5, <2>1
<1>6. CASE /\ s.held[r] > 0
           /\ t.deferred = Append(s.deferred, [fence |-> s.ahead, n |-> s.held[r], of |-> r])
  <2> DEFINE d == [fence |-> s.ahead, n |-> s.held[r], of |-> r]
             m == Len(s.deferred)
  <2>1. d \in Deferrals /\ d.fence = s.ahead /\ d.of = r
    BY <1>3 DEF Deferrals
  <2>2. /\ Len(t.deferred) = m + 1 /\ t.deferred[m + 1] = d
        /\ \A k \in 1 .. m : t.deferred[k] = s.deferred[k]
    BY <1>3, <1>6, <2>1, DeferredAppend
  <2> HIDE DEF d, m
  <2>3. m \in Nat /\ \A k \in 1 .. m + 1 : k \in 1 .. m \/ k = m + 1
    BY <1>3 DEF m
  <2>4. \A k \in 1 .. m : k \in 1 .. m + 1
    BY <2>3
  <2>5. \A k \in 1 .. Len(t.deferred) : t.deferred[k].fence <= t.ahead
    <3>1. ASSUME NEW k \in 1 .. m + 1 PROVE t.deferred[k].fence <= t.ahead
      <4>1. CASE k \in 1 .. m
        BY <1>1, <1>2, <2>2, <4>1 DEF m
      <4>2. CASE k = m + 1
        BY <1>2, <1>3, <2>1, <2>2, <4>2
      <4> QED
        BY <2>3, <4>1, <4>2
    <3> QED
      BY <2>2, <3>1
  <2>6. ASSUME NEW i \in 1 .. Len(q), NEW x \in DOMAIN q[i]
        PROVE  t.last[x] >= StepsTo(q, i) /\ (t.held[x] > 0 <=> ~ Fenced(t, x, StepsTo(q, i)))
    <3>1. CASE x = r
      <4>1. Fenced(t, x, StepsTo(q, i))
        <5>1. m + 1 \in 1 .. Len(t.deferred)
          BY <2>2, <2>3
        <5> QED
          BY <1>4, <2>1, <2>2, <3>1, <5>1 DEF Fenced
      <4>2. ~ (t.held[x] > 0)
        BY <1>2, <1>3, <3>1
      <4> QED
        BY <1>1, <1>2, <4>1, <4>2
    <3>2. CASE x # r
      <4>1. Fenced(t, x, StepsTo(q, i)) <=> Fenced(s, x, StepsTo(q, i))
        BY <2>1, <2>2, <2>3, <2>4, <3>2 DEF Fenced, m
      <4>2. t.held[x] = s.held[x]
        BY <1>2, <1>3, <1>4, <3>2
      <4> QED
        BY <1>1, <1>2, <4>1, <4>2
    <3> QED
      BY <3>1, <3>2
  <2> QED
    BY <1>1, <1>2, <2>5, <2>6
<1> QED
  BY <1>2, <1>5, <1>6

-----------------------------------------------------------------------------
(* Requests that change lines. *)

(* r leaves all lines for good. *)
LEMMA QuitLines ==
  ASSUME on \in Deployments, NEW s \in SchedulerState, Lines(on, s), Ordered(on, s),
         NEW r \in Requests, s.status[r] # "out", NEW x \in {"held", "gone"}, NEW t,
         t.status[r] = x, \A y \in Requests : y # r => t.status[y] = s.status[y],
         t.running = Without(s.running, r),
         t.waiting = Without(s.waiting, r), t.skipped = Without(s.skipped, r)
  PROVE  Lines(on, t) /\ Ordered(on, t)
<1>1. /\ s.status \in [Requests -> Where] /\ s.running \in Seq(Requests)
      /\ s.waiting \in Seq(Requests) /\ s.skipped \in Seq(Requests)
  BY Fields
<1>4. /\ In(t, "running") = In(s, "running") \ {r} /\ In(t, "waiting") = In(s, "waiting") \ {r}
      /\ In(t, "remote") = In(s, "remote") \ {r}
  BY DEF In
<1>5. /\ Range(t.running) = Range(s.running) \ {r} /\ Range(t.waiting) = Range(s.waiting) \ {r}
      /\ Range(t.skipped) = Range(s.skipped) \ {r}
      /\ IsInjective(s.running) => IsInjective(t.running)
      /\ IsInjective(s.waiting) => IsInjective(t.waiting)
      /\ IsInjective(s.skipped) => IsInjective(t.skipped)
  BY <1>1, WithoutFacts
<1>6. Lines(on, t)
  BY <1>4, <1>5 DEF Lines
<1>7. Rising(on.remote, t.running) /\ Rising(on.remote, t.waiting)
  BY <1>1, RisingWithout DEF Ordered
<1>8. \A a, b \in Requests : t.status[a] # "out" /\ t.status[b] = "out" => a < b
  <2> SUFFICES ASSUME NEW a \in Requests, NEW b \in Requests, t.status[a] # "out", t.status[b] = "out"
               PROVE  a < b
    OBVIOUS
  <2>1. s.status[b] = "out" /\ s.status[a] # "out"
    BY <1>1
  <2> QED
    BY <2>1 DEF Ordered
<1> QED
  BY <1>5, <1>6, <1>7, <1>8 DEF Ordered

(* The parts that only read some of the fields. *)
LEMMA FencesFrame ==
  ASSUME NEW d, NEW s, NEW t, NEW q, Fences(d, s, q), t.ahead = s.ahead, t.deferred = s.deferred,
         t.last = s.last, t.held = s.held
  PROVE  Fences(d, t, q)
  BY DEF Fences, Fenced

LEMMA OwnedFrame ==
  ASSUME NEW s, NEW t, t.free = s.free, t.held = s.held, t.deferred = s.deferred
  PROVE  Owned(t) = Owned(s)
  BY DEF Owned, Lengths

(* Preemption keeps the invariant; the preempted one may be in flight. *)
LEMMA PreemptedSound ==
  ASSUME on \in Deployments, NEW s, NEW q, NEW dn, NEW P, Sound(on, s, q, dn, {}, P),
         s.running # <<>>, Len(q) <= 1
  PROVE  LET t == Preempted(s)
             r == Last(s.running)
         IN  /\ r \in Requests /\ s.status[r] = "running"
             /\ Sound(on, t, q, dn, {}, P \cup {r})
             /\ t.running = Front(s.running) /\ t.skipped = s.skipped
             /\ t.status[r] = "waiting"
             /\ \A x \in Requests : x # r => /\ t.status[x] = s.status[x] /\ t.held[x] = s.held[x]
                                             /\ t.computed[x] = s.computed[x]
             /\ t.tokens = s.tokens /\ t.coming = s.coming
<1> DEFINE r == Last(s.running)
           u == [s EXCEPT !.running = Front(@), !.waiting = Back(s, r), !.status[r] = "waiting",
                          !.computed[r] = 0, !.prefills = @ \ {r}]
<1>1. PICK t : t = FreeRequestBlocks(u, r)
  OBVIOUS
<1>30. Preempted(s) = t
  BY <1>1 DEF Preempted
<1>2. /\ s \in SchedulerState /\ Lines(on, s) /\ Ordered(on, s) /\ Books(on, s) /\ Moves(s, dn)
      /\ Progress(on, s, q, {}) /\ Flight(on, s, q, P) /\ Fences(on, s, q)
  BY DEF Sound
<1>3. /\ s.status \in [Requests -> Where] /\ s.running \in Seq(Requests)
      /\ s.waiting \in Seq(Requests) /\ s.skipped \in Seq(Requests)
      /\ s.computed \in [Requests -> Nat] /\ s.tokens \in [Requests -> Nat]
      /\ s.held \in [Requests -> Nat]
  BY <1>2, Fields
<1>4. /\ IsInjective(s.running) /\ IsInjective(s.waiting) /\ Range(s.running) = In(s, "running")
      /\ Range(s.waiting) \subseteq In(s, "waiting") \cup In(s, "remote")
  BY <1>2 DEF Lines
<1>5. /\ r \in Range(s.running) /\ Front(s.running) \in Seq(Requests)
      /\ Range(Front(s.running)) = Range(s.running) \ {r} /\ IsInjective(Front(s.running))
  BY <1>3, <1>4, FrontDict
<1>6. r \in Requests /\ s.status[r] = "running"
  BY <1>4, <1>5 DEF In
<1> HIDE DEF r
<1>7. r \notin Range(s.waiting)
  BY <1>4, <1>6 DEF In
<1>8. /\ <<r>> \o s.waiting \in Seq(Requests) /\ Range(<<r>> \o s.waiting) = {r} \cup Range(s.waiting)
      /\ IsInjective(<<r>> \o s.waiting)
  <2> DEFINE c == <<r>>
  <2>1. c \in Seq(Requests) /\ Range(c) = {r} /\ IsInjective(c)
    BY <1>6 DEF Range, IsInjective
  <2>2. Range(c) \cap Range(s.waiting) = {}
    BY <1>7, <2>1
  <2> HIDE DEF c
  <2>3. /\ c \o s.waiting \in Seq(Requests) /\ Range(c \o s.waiting) = Range(c) \cup Range(s.waiting)
        /\ IsInjective(c \o s.waiting)
    BY <1>3, <1>4, <2>1, <2>2, ConcatDict
  <2> QED
    BY <2>1, <2>3 DEF c
<1>9. /\ u.running = Front(s.running) /\ u.waiting = <<r>> \o s.waiting /\ u.skipped = s.skipped
      /\ u.status = [s.status EXCEPT ![r] = "waiting"] /\ u.computed = [s.computed EXCEPT ![r] = 0]
      /\ u.tokens = s.tokens /\ u.coming = s.coming /\ u.held = s.held /\ u.free = s.free
      /\ u.deferred = s.deferred /\ u.ahead = s.ahead /\ u.last = s.last
      /\ u.moving = s.moving /\ u.recved = s.recved
  BY <1>2 DEF SchedulerState, Back
<1>10. u \in SchedulerState
  BY <1>2, <1>5, <1>6, <1>8 DEF SchedulerState, Back, Counts, Where
<1> HIDE DEF u
<1>11. t \in SchedulerState /\ Elsewhere(u, t) /\ t.held[r] = 0 /\ Owned(t) = Owned(u)
  BY <1>1, <1>6, <1>10, FreeFields, ZenonT(60)
<1>31. ASSUME NEW x \in Requests, x # r PROVE t.held[x] = u.held[x]
  BY <1>1, <1>6, <1>10, <1>31, FreeFields, ZenonT(60)
<1>12. Owned(t) = Owned(s)
  BY <1>9, <1>11, OwnedFrame
<1>13. Fences(on, t, q)
  <2>1. Fences(on, u, q)
    BY <1>2, <1>9, FencesFrame
  <2>2. q \in Seq(Batches)
    BY <1>2 DEF Flight
  <2> QED
    BY <1>1, <1>6, <1>10, <2>1, <2>2, FreeFences
<1>14. /\ t.running = Front(s.running) /\ t.waiting = <<r>> \o s.waiting /\ t.skipped = s.skipped
       /\ t.status = [s.status EXCEPT ![r] = "waiting"] /\ t.computed = [s.computed EXCEPT ![r] = 0]
       /\ t.tokens = s.tokens /\ t.coming = s.coming /\ t.moving = s.moving /\ t.recved = s.recved
  BY <1>9, <1>11 DEF Elsewhere
<1>15. /\ t.status[r] = "waiting" /\ t.computed[r] = 0 /\ t.held[r] = 0
       /\ \A x \in Requests : x # r =>
            t.status[x] = s.status[x] /\ t.computed[x] = s.computed[x] /\ t.held[x] = s.held[x]
  <2>1. t.status[r] = "waiting" /\ t.computed[r] = 0
    BY <1>3, <1>6, <1>14
  <2>2. ASSUME NEW x \in Requests, x # r
        PROVE  t.status[x] = s.status[x] /\ t.computed[x] = s.computed[x] /\ t.held[x] = s.held[x]
    <3>1. t.status[x] = s.status[x] /\ t.computed[x] = s.computed[x]
      BY <1>3, <1>14, <2>2
    <3>2. t.held[x] = u.held[x]
      BY <1>31, <2>2
    <3>3. u.held = s.held
      BY <1>9
    <3> QED
      BY <3>1, <3>2, <3>3
  <2> QED
    BY <1>11, <2>1, <2>2
<1>16. Lines(on, t)
  <2>3. /\ In(t, "running") = In(s, "running") \ {r} /\ In(t, "waiting") = In(s, "waiting") \cup {r}
        /\ In(t, "remote") = In(s, "remote")
    BY <1>6, <1>15 DEF In
  <2>4. r \notin Range(s.skipped)
    BY <1>2, <1>6 DEF Lines, In
  <2> QED
    BY <1>2, <1>5, <1>8, <1>14, <2>3, <2>4 DEF Lines
<1>17. Ordered(on, t)
  <2>1. /\ Rising(on.remote, s.running) /\ Rising(on.remote, s.waiting)
        /\ \A a \in Range(s.running) \ on.remote, b \in Range(s.waiting) \ on.remote : a < b
        /\ \A a, b \in Requests : s.status[a] # "out" /\ s.status[b] = "out" => a < b
    BY <1>2 DEF Ordered
  <2>2. /\ Rising(on.remote, Front(s.running))
        /\ r \in on.remote \/ \A a \in Range(Front(s.running)) \ on.remote : a < r
    BY <1>3, <1>4, <2>1, RisingFront DEF r
  <2>3. r \in on.remote \/ \A b \in Range(s.waiting) \ on.remote : r < b
    BY <1>5, <2>1
  <2>4. Rising(on.remote, <<r>> \o s.waiting)
    BY <1>3, <1>6, <2>1, <2>3, RisingCons
  <2>5. \A a \in Range(t.running) \ on.remote, b \in Range(t.waiting) \ on.remote : a < b
    BY <1>5, <1>8, <1>14, <2>1, <2>2
  <2>6. \A a, b \in Requests : t.status[a] # "out" /\ t.status[b] = "out" => a < b
    BY <1>6, <1>15, <2>1
  <2> QED
    BY <1>14, <2>2, <2>4, <2>5, <2>6 DEF Ordered
<1>18. r \notin s.moving \cup dn \cup s.recved
  BY <1>2, <1>6 DEF Moves
<1>19. Books(on, t)
  BY <1>2, <1>12, <1>14, <1>15, <1>18 DEF Books
<1>20. Moves(t, dn)
  <2>1. s.moving \cup dn \subseteq Requests /\ s.recved \subseteq Requests
    BY <1>2, Fields DEF Moves
  <2> QED
    BY <1>2, <1>14, <1>15, <1>18, <2>1 DEF Moves
<1>21. Progress(on, t, q, {})
  <2> SUFFICES ASSUME NEW x \in Requests, t.status[x] \in Before
               PROVE  Progressed(on, t, x) /\ t.coming[x] = Coming(on, q, {}, x)
    BY DEF Progress
  <2>1. s.status[x] \in Before
    BY <1>6, <1>15 DEF Before
  <2>2. Progressed(on, s, x) /\ s.coming[x] = Coming(on, q, {}, x)
    BY <1>2, <2>1 DEF Progress
  <2>3. CASE x = r
    <3>1. s.tokens[r] \in Nat /\ s.coming[r] \in Nat
      BY <1>2, <1>3, <1>6, Fields
    <3>2. on.size \in Nat
      BY Deployed
    <3>3. on.size * 0 = 0
      BY <3>2
    <3> QED
      BY <1>14, <1>15, <2>2, <2>3, <3>1, <3>3 DEF Progressed
  <2>4. CASE x # r
    BY <1>14, <1>15, <2>2, <2>4 DEF Progressed
  <2> QED
    BY <2>3, <2>4
<1>22. Flight(on, t, q, P \cup {r})
  <2>1. /\ q \in Seq(Batches) /\ Len(q) <= on.depth
        /\ \A i \in 1 .. Len(q) : \A x \in DOMAIN q[i] :
             \/ s.status[x] \in {"running", "held", "gone"}
             \/ s.status[x] = "waiting" /\ i = 1 /\ x \in P
    BY <1>2 DEF Flight
  <2>2. ASSUME NEW i \in 1 .. Len(q), NEW x \in DOMAIN q[i]
        PROVE  \/ t.status[x] \in {"running", "held", "gone"}
               \/ t.status[x] = "waiting" /\ i = 1 /\ x \in P \cup {r}
    <3>1. i = 1 /\ q[i] \in Batches
      BY <2>1, LenProperties
    <3>2. x \in Requests
      BY <3>1 DEF Batches
    <3> QED
      BY <1>15, <2>1, <3>1, <3>2
  <2> QED
    BY <2>1, <2>2 DEF Flight
<1>23. Sound(on, t, q, dn, {}, P \cup {r})
  BY <1>11, <1>13, <1>16, <1>17, <1>19, <1>20, <1>21, <1>22 DEF Sound
<1> QED
  BY <1>30, <1>6, <1>11, <1>14, <1>15, <1>23 DEF r

-----------------------------------------------------------------------------
(* Growing. *)

LEMMA NeedFacts ==
  ASSUME on \in Deployments, NEW s, NEW r, s.held[r] \in Nat, NEW n \in Nat
  PROVE  Need(s, r, n) \in Nat /\ n <= on.size * (s.held[r] + Need(s, r, n))
<1> DEFINE c == (n + on.size - 1) \div on.size
           h == s.held[r]
<1>1. on.size \in Nat \ {0}
  BY Deployed
<1>2. c \in Nat /\ n <= on.size * c
  BY <1>1, EnoughBlocks
<1>3. Need(s, r, n) = Max({c - h, 0})
  BY DEF Need, BlockSize
<1> HIDE DEF c
<1>4. Max({c - h, 0}) = IF c - h >= 0 THEN c - h ELSE 0
  BY <1>2, MaxTwo
<1>5. Need(s, r, n) \in Nat /\ c <= h + Need(s, r, n)
  BY <1>2, <1>3, <1>4
<1>6. on.size * c <= on.size * (h + Need(s, r, n)) /\ on.size * c \in Nat
  <2> DEFINE k == h + Need(s, r, n)
  <2>1. k \in Nat /\ c <= k
    BY <1>5
  <2> HIDE DEF k
  <2>2. on.size * c <= on.size * k /\ on.size * c \in Nat
    BY <1>1, <1>2, <2>1, TimesGrows
  <2> QED
    BY <2>2 DEF k
<1>7. on.size * (h + Need(s, r, n)) \in Nat
  BY <1>1, <1>5
<1> QED
  BY <1>2, <1>5, <1>6, <1>7

(* All but blocks stays. *)
Grown(s, t) ==
  /\ Elsewhere(s, t) /\ t.deferred = s.deferred

LEMMA GrowFields ==
  ASSUME on \in Deployments, NEW s \in SchedulerState, NEW r \in Requests, NEW n \in Nat,
         Need(s, r, n) <= s.free, NEW t, t = Grow(s, r, n)
  PROVE  /\ t \in SchedulerState /\ Grown(s, t) /\ Owned(t) = Owned(s)
         /\ t.held[r] >= s.held[r] /\ n <= on.size * t.held[r]
         /\ \A x \in Requests : x # r => t.held[x] = s.held[x]
<1> DEFINE k == Need(s, r, n)
           h == [s.held EXCEPT ![r] = @ + k]
<1>1. s.held \in [Requests -> Nat] /\ s.free \in Nat /\ s.deferred \in Seq(Deferrals)
  BY Fields
<1>2. k \in Nat /\ n <= on.size * (s.held[r] + k)
  BY <1>1, NeedFacts
<1>3. s.free - k \in Nat /\ h \in [Requests -> Nat]
  BY <1>1, <1>2
<1>4. t = [s EXCEPT !.free = @ - k, !.held[r] = @ + k]
  BY DEF Grow
<1> HIDE DEF k
<1>5. t \in SchedulerState
  BY <1>3, <1>4 DEF SchedulerState, Counts
<1>6. Grown(s, t) /\ t.free = s.free - k /\ t.held = h
  BY <1>4 DEF Grown, Elsewhere, SchedulerState
<1>7. /\ h[r] = s.held[r] + k
      /\ \A x \in Requests : x # r => h[x] = s.held[x]
  BY <1>1, <1>3
<1>8. Blocks(h) \in Nat /\ Blocks(s.held) \in Nat /\ Blocks(h) = Blocks(s.held) + k
  <2> DEFINE f == s.held
  <2>1. f \in [Requests -> Nat] /\ IsFiniteSet(Requests)
    BY <1>1, RequestNumbers
  <2> HIDE DEF f, h
  <2>2. Blocks(f) \in Nat /\ Blocks(h) \in Nat /\ Blocks(h) + f[r] = Blocks(f) + h[r]
    <3>1. \A x \in Requests : x # r => h[x] = f[x]
      BY <1>7 DEF f
    <3> QED
      BY <1>3, <2>1, <3>1, BlocksSet
  <2>3. h[r] = f[r] + k /\ f[r] \in Nat
    BY <1>7, <2>1 DEF f
  <2>4. Blocks(h) = Blocks(f) + k
    BY <1>2, <2>2, <2>3, SMTT(60)
  <2> QED
    BY <2>2, <2>4 DEF f
<1>9. Owned(t) = Owned(s)
  <2>1. Lengths(t) = Lengths(s) /\ Blocks(Lengths(s)) \in Nat
    BY <1>6, OwnedFacts DEF Grown, Lengths
  <2> HIDE DEF h
  <2> QED
    BY <1>1, <1>2, <1>6, <1>8, <2>1 DEF Owned
<1>10. t.held[r] >= s.held[r] /\ n <= on.size * t.held[r]
  BY <1>1, <1>2, <1>6, <1>7
<1>11. \A x \in Requests : x # r => t.held[x] = s.held[x]
  BY <1>6, <1>7
<1> QED
  BY <1>5, <1>6, <1>9, <1>10, <1>11

(* Who runs, or waits and is in no batch, may grow. *)
LEMMA GrownSound ==
  ASSUME on \in Deployments, NEW s, NEW q, NEW dn, NEW P, Sound(on, s, q, dn, {}, P),
         NEW r \in Requests, s.status[r] = "running" \/ (s.status[r] = "waiting" /\ P = {}),
         NEW n \in Nat, Need(s, r, n) <= s.free, NEW t, t = Grow(s, r, n)
  PROVE  Sound(on, t, q, dn, {}, P)
<1>1. /\ s \in SchedulerState /\ Lines(on, s) /\ Ordered(on, s) /\ Books(on, s) /\ Moves(s, dn)
      /\ Progress(on, s, q, {}) /\ Flight(on, s, q, P) /\ Fences(on, s, q)
  BY DEF Sound
<1>2. s.held \in [Requests -> Nat] /\ s.computed \in [Requests -> Nat] /\ on.size \in Nat
  BY <1>1, Fields, Deployed
<1>3. t \in SchedulerState /\ Grown(s, t) /\ Owned(t) = Owned(s) /\ t.held[r] >= s.held[r]
  BY <1>1, GrowFields
<1>4. ASSUME NEW x \in Requests, x # r PROVE t.held[x] = s.held[x]
  BY <1>1, <1>4, GrowFields
<1>5. t.held \in [Requests -> Nat]
  BY <1>3, Fields
<1>6. /\ t.status = s.status /\ t.running = s.running /\ t.waiting = s.waiting
      /\ t.skipped = s.skipped /\ t.computed = s.computed /\ t.tokens = s.tokens
      /\ t.coming = s.coming /\ t.ahead = s.ahead /\ t.last = s.last
      /\ t.moving = s.moving /\ t.recved = s.recved /\ t.deferred = s.deferred
  BY <1>3 DEF Grown, Elsewhere
<1>7. Lines(on, t) /\ Ordered(on, t) /\ Moves(t, dn) /\ Flight(on, t, q, P)
  BY <1>1, <1>6 DEF Lines, Ordered, Moves, Flight, In
<1>8. ASSUME NEW x \in Requests PROVE t.held[x] >= s.held[x] /\ t.held[x] \in Nat /\ s.held[x] \in Nat
  BY <1>2, <1>3, <1>4, <1>5
<1>9. Books(on, t)
  <2>1. ASSUME NEW x \in Requests, t.status[x] \in {"out", "gone"} PROVE t.held[x] = 0
    <3>1. x # r /\ s.held[x] = 0
      BY <1>1, <1>6, <2>1 DEF Books
    <3> QED
      BY <1>4, <3>1
  <2>2. ASSUME NEW x \in Requests, t.status[x] = "running" \/ x \in t.moving PROVE t.held[x] > 0
    <3>1. s.held[x] > 0
      BY <1>1, <1>6, <2>2 DEF Books
    <3> QED
      BY <1>8, <3>1
  <2> QED
    BY <1>1, <1>3, <2>1, <2>2 DEF Books
<1>10. Progress(on, t, q, {})
  <2> SUFFICES ASSUME NEW x \in Requests, t.status[x] \in Before
               PROVE  Progressed(on, t, x) /\ t.coming[x] = Coming(on, q, {}, x)
    BY DEF Progress
  <2>1. Progressed(on, s, x) /\ s.coming[x] = Coming(on, q, {}, x)
    BY <1>1, <1>6 DEF Progress
  <2>2. on.size * s.held[x] <= on.size * t.held[x] /\ on.size * s.held[x] \in Nat
    BY <1>2, <1>8, TimesGrows
  <2>3. on.size * t.held[x] \in Nat /\ s.computed[x] \in Nat
    BY <1>2, <1>8
  <2> QED
    BY <1>6, <2>1, <2>2, <2>3 DEF Progressed
<1>11. Fences(on, t, q)
  <2> SUFFICES ASSUME on.depth > 1 /\ on.remote # {}
               PROVE  /\ t.ahead = StepsTo(q, Len(q))
                      /\ \A k \in 1 .. Len(t.deferred) : t.deferred[k].fence <= t.ahead
                      /\ \A i \in 1 .. Len(q) : \A x \in DOMAIN q[i] :
                           /\ t.last[x] >= StepsTo(q, i)
                           /\ (t.held[x] > 0 <=> ~ Fenced(t, x, StepsTo(q, i)))
    BY DEF Fences
  <2>1. /\ s.ahead = StepsTo(q, Len(q))
        /\ \A k \in 1 .. Len(s.deferred) : s.deferred[k].fence <= s.ahead
        /\ \A i \in 1 .. Len(q) : \A x \in DOMAIN q[i] :
             s.last[x] >= StepsTo(q, i) /\ (s.held[x] > 0 <=> ~ Fenced(s, x, StepsTo(q, i)))
    BY <1>1 DEF Fences
  <2>2. ASSUME NEW i \in 1 .. Len(q), NEW x \in DOMAIN q[i]
        PROVE  /\ t.last[x] >= StepsTo(q, i)
               /\ (t.held[x] > 0 <=> ~ Fenced(t, x, StepsTo(q, i)))
    <3>1. /\ q \in Seq(Batches)
          /\ \/ s.status[x] \in {"running", "held", "gone"}
             \/ s.status[x] = "waiting" /\ i = 1 /\ x \in P
      BY <1>1 DEF Flight
    <3>2. x \in Requests
      <4>1. q[i] \in Batches
        BY <3>1, LenProperties
      <4> QED
        BY <4>1 DEF Batches
    <3>3. Fenced(t, x, StepsTo(q, i)) <=> Fenced(s, x, StepsTo(q, i))
      BY <1>6 DEF Fenced
    <3>4. t.held[x] > 0 <=> s.held[x] > 0
      <4>1. CASE x # r
        BY <1>4, <3>2, <4>1
      <4>2. CASE x = r
        <5>1. s.held[x] > 0
          BY <1>1, <3>1, <3>2, <4>2 DEF Books
        <5> QED
          BY <1>8, <3>2, <5>1
      <4> QED
        BY <4>1, <4>2
    <3> QED
      BY <1>6, <2>1, <3>3, <3>4
  <2> QED
    BY <1>6, <2>1, <2>2
<1> QED
  BY <1>3, <1>7, <1>9, <1>10, <1>11 DEF Sound

-----------------------------------------------------------------------------
(* Planning a batch. *)

Plans == UNION {[S -> Nat] : S \in SUBSET Requests}
PlanState ==
  [s : SchedulerState, budget : Nat, batch : Plans, preempted : SUBSET Requests,
   blocked : Seq(Requests)]

(* Who is in the batch runs, has the blocks, and stays within its tokens. *)
Given(d, s, b) ==
  \A r \in DOMAIN b :
    /\ s.status[r] = "running"
    /\ s.computed[r] + b[r] <= d.size * s.held[r]
    /\ s.computed[r] + b[r] <= s.tokens[r] + s.coming[r]
    /\ s.computed[r] + b[r] = s.tokens[r] + s.coming[r] => s.tokens[r] + s.coming[r] < Limit(d, r)

Planned(w, q, dn) ==
  /\ w \in PlanState /\ Sound(on, w.s, q, dn, {}, w.preempted)
  /\ \A x \in w.preempted : w.s.status[x] = "waiting"

(* u is w with some of the last running requests preempted. *)
Shrunk(w, u) ==
  /\ u.batch = w.batch /\ u.budget = w.budget /\ u.blocked = w.blocked
  /\ Len(u.s.running) <= Len(w.s.running)
  /\ \A l \in 1 .. Len(u.s.running) : u.s.running[l] = w.s.running[l]
  /\ \A x \in Range(u.s.running) : u.s.computed[x] = w.s.computed[x] /\ u.s.held[x] = w.s.held[x]
  /\ u.s.tokens = w.s.tokens /\ u.s.coming = w.s.coming

(* Room for r, the i-th to run, is made, or j of n requests were preempted. *)
RoomMade(w, u, q, dn, i, r, m, k) ==
  /\ Planned(u, q, dn) /\ Shrunk(w, u) /\ i - 1 <= Len(u.s.running)
  /\ \/ r \in u.preempted
     \/ i <= Len(u.s.running) /\ (Need(u.s, r, m) <= u.s.free \/ Len(u.s.running) <= k)

LEMMA PlanFields ==
  ASSUME NEW w \in PlanState
  PROVE  /\ w.s \in SchedulerState /\ w.budget \in Nat /\ w.batch \in Plans
         /\ w.preempted \subseteq Requests /\ w.blocked \in Seq(Requests)
         /\ DOMAIN w.batch \subseteq Requests /\ \A x \in DOMAIN w.batch : w.batch[x] \in Nat
  BY DEF PlanState, Plans

LEMMA RoomStep ==
  ASSUME on \in Deployments, NEW q, NEW dn, Len(q) <= 1, NEW w, w \in PlanState,
         NEW i \in 1 .. Len(w.s.running), NEW r, r = w.s.running[i], NEW m \in Nat, NEW k \in Int,
         NEW u, RoomMade(w, u, q, dn, i, r, m, k)
  PROVE  RoomMade(w, PreemptOne(u, r, m), q, dn, i, r, m, k - 1)
<1>1. CASE Need(u.s, r, m) <= u.s.free \/ r \in u.preempted
  <2>1. PreemptOne(u, r, m) = u
    BY <1>1 DEF PreemptOne
  <2>2. /\ Planned(u, q, dn) /\ Shrunk(w, u) /\ i - 1 <= Len(u.s.running)
        /\ r \in u.preempted \/ (i <= Len(u.s.running) /\ Need(u.s, r, m) <= u.s.free)
    BY <1>1 DEF RoomMade
  <2> QED
    BY <2>1, <2>2 DEF RoomMade
<1>2. CASE ~ (Need(u.s, r, m) <= u.s.free \/ r \in u.preempted)
  <2> DEFINE p == Last(u.s.running)
             v == Preempted(u.s)
             t == [u EXCEPT !.s = v, !.preempted = @ \cup {p}]
  <2>1. PreemptOne(u, r, m) = t
    BY <1>2 DEF PreemptOne
  <2>2. /\ u \in PlanState /\ Sound(on, u.s, q, dn, {}, u.preempted)
        /\ \A x \in u.preempted : u.s.status[x] = "waiting"
        /\ Shrunk(w, u) /\ i <= Len(u.s.running) /\ Len(u.s.running) <= k
    BY <1>2 DEF RoomMade, Planned
  <2>3. /\ u.s \in SchedulerState /\ u.s.running \in Seq(Requests) /\ u.s.running # <<>>
        /\ u.preempted \subseteq Requests /\ IsInjective(u.s.running)
        /\ Len(u.s.running) \in Nat /\ i \in Nat /\ i >= 1
    <3>1. u.s \in SchedulerState /\ Lines(on, u.s) /\ u.preempted \subseteq Requests
      BY <2>2, PlanFields DEF Sound
    <3>2. u.s.running \in Seq(Requests) /\ IsInjective(u.s.running)
      BY <3>1, Fields DEF Lines
    <3>3. i \in Nat /\ i >= 1 /\ Len(u.s.running) \in Nat
      BY <3>2, LenProperties
    <3>4. u.s.running # <<>>
      BY <2>2, <3>2, <3>3, EmptySeq
    <3> QED
      BY <3>1, <3>2, <3>3, <3>4
  <2>4. /\ p \in Requests /\ u.s.status[p] = "running" /\ Sound(on, v, q, dn, {}, u.preempted \cup {p})
        /\ v.running = Front(u.s.running) /\ v.status[p] = "waiting"
        /\ v.tokens = u.s.tokens /\ v.coming = u.s.coming
    BY <2>2, <2>3, PreemptedSound
  <2>5. ASSUME NEW x \in Requests, x # p
        PROVE  v.status[x] = u.s.status[x] /\ v.held[x] = u.s.held[x] /\ v.computed[x] = u.s.computed[x]
    BY <2>2, <2>3, <2>5, PreemptedSound
  <2>6. /\ p = u.s.running[Len(u.s.running)] /\ Len(v.running) = Len(u.s.running) - 1
        /\ \A l \in 1 .. Len(u.s.running) - 1 : v.running[l] = u.s.running[l]
        /\ Range(v.running) = Range(u.s.running) \ {p} /\ v.running \in Seq(Requests)
    BY <2>3, <2>4, FrontDict
  <2> HIDE DEF p, v
  <2>7. /\ t.s = v /\ t.preempted = u.preempted \cup {p} /\ t.batch = u.batch
        /\ t.budget = u.budget /\ t.blocked = u.blocked
    BY <2>2 DEF PlanState
  <2>8. t \in PlanState
    <3>1. v \in SchedulerState
      BY <2>4 DEF Sound
    <3> QED
      BY <2>2, <2>3, <2>4, <3>1 DEF PlanState
  <2> HIDE DEF t
  <2>9. Planned(t, q, dn)
    <3>1. ASSUME NEW x \in t.preempted PROVE t.s.status[x] = "waiting"
      BY <2>2, <2>3, <2>4, <2>5, <2>7
    <3> QED
      BY <2>4, <2>7, <2>8, <3>1 DEF Planned
  <2>10. Shrunk(w, t)
    <3>1. /\ u.batch = w.batch /\ u.budget = w.budget /\ u.blocked = w.blocked
          /\ Len(u.s.running) <= Len(w.s.running)
          /\ \A l \in 1 .. Len(u.s.running) : u.s.running[l] = w.s.running[l]
          /\ \A x \in Range(u.s.running) : u.s.computed[x] = w.s.computed[x] /\ u.s.held[x] = w.s.held[x]
          /\ u.s.tokens = w.s.tokens /\ u.s.coming = w.s.coming
      BY <2>2 DEF Shrunk
    <3>2. ASSUME NEW x \in Range(v.running)
          PROVE  v.computed[x] = w.s.computed[x] /\ v.held[x] = w.s.held[x]
      <4>1. x \in Range(u.s.running) /\ x # p
        BY <2>6
      <4>2. x \in Requests
        BY <2>3, <4>1 DEF Range
      <4> QED
        BY <2>5, <3>1, <4>1, <4>2
    <3>3. Len(w.s.running) \in Nat
      <4>1. w.s \in SchedulerState
        BY PlanFields
      <4>2. w.s.running \in Seq(Requests)
        BY <4>1, Fields
      <4> QED
        BY <4>2, LenProperties
    <3>4. ASSUME NEW l \in 1 .. Len(v.running) PROVE v.running[l] = w.s.running[l]
      <4>1. l \in 1 .. Len(u.s.running) /\ l \in 1 .. Len(u.s.running) - 1
        BY <2>3, <2>6
      <4> QED
        BY <2>6, <3>1, <4>1
    <3>5. Len(v.running) <= Len(w.s.running)
      BY <2>3, <2>6, <3>1, <3>3
    <3>6. v.tokens = w.s.tokens /\ v.coming = w.s.coming
      BY <2>4, <3>1
    <3> QED
      BY <2>7, <3>1, <3>2, <3>4, <3>5, <3>6 DEF Shrunk
  <2>11. i - 1 <= Len(t.s.running) /\ Len(t.s.running) <= k - 1
    BY <2>2, <2>3, <2>6, <2>7
  <2>12. r \in t.preempted \/ i <= Len(t.s.running)
    <3>1. r = u.s.running[i]
      BY <2>2, <2>3 DEF Shrunk
    <3>2. CASE i = Len(u.s.running)
      BY <2>6, <2>7, <3>1, <3>2
    <3>3. CASE i # Len(u.s.running)
      BY <2>2, <2>3, <2>6, <2>7, <3>3
    <3> QED
      BY <3>2, <3>3
  <2> QED
    BY <2>1, <2>9, <2>10, <2>11, <2>12 DEF RoomMade
<1> QED
  BY <1>1, <1>2

LEMMA RoomFacts ==
  ASSUME on \in Deployments, NEW q, NEW dn, Len(q) <= 1, NEW w, Planned(w, q, dn),
         NEW i \in 1 .. Len(w.s.running), NEW r, r = w.s.running[i], NEW m \in Nat,
         NEW u, u = MakeRoom(w, r, m)
  PROVE  /\ Planned(u, q, dn) /\ Shrunk(w, u) /\ i - 1 <= Len(u.s.running)
         /\ r \in u.preempted \/ (i <= Len(u.s.running) /\ Need(u.s, r, m) <= u.s.free)
<1> DEFINE n == Len(w.s.running)
           Good == {p \in Int \X PlanState : RoomMade(w, p[2], q, dn, i, r, m, n - p[1])}
<1>1. w \in PlanState /\ Sound(on, w.s, q, dn, {}, w.preempted)
  BY DEF Planned
<1>2. n \in Nat /\ i \in Nat /\ i <= n
  <2>1. w.s.running \in Seq(Requests)
    BY <1>1, Fields DEF Sound
  <2> QED
    BY <2>1, LenProperties
<1>3. RoomMade(w, w, q, dn, i, r, m, n - 0)
  <2>1. Shrunk(w, w)
    BY <1>2 DEF Shrunk
  <2> QED
    BY <1>2, <2>1 DEF RoomMade
<1>4. <<0, w>> \in Good
  BY <1>1, <1>3
<1>5. ASSUME NEW j \in 1 .. n, NEW v, <<j - 1, v>> \in Good
      PROVE  <<j, PreemptOne(v, r, m)>> \in Good
  <2>1. RoomMade(w, v, q, dn, i, r, m, n - (j - 1))
    BY <1>5
  <2>2. n - (j - 1) \in Int /\ n - j \in Int /\ (n - (j - 1)) - 1 = n - j /\ j \in Int
    BY <1>2, SMTT(60)
  <2> HIDE DEF n, Good
  <2>3. RoomMade(w, PreemptOne(v, r, m), q, dn, i, r, m, (n - (j - 1)) - 1)
    BY <1>1, <2>1, <2>2, RoomStep DEF n
  <2>4. RoomMade(w, PreemptOne(v, r, m), q, dn, i, r, m, n - j)
    BY <2>2, <2>3
  <2>5. PreemptOne(v, r, m) \in PlanState
    BY <2>4 DEF RoomMade, Planned
  <2> QED
    BY <2>2, <2>4, <2>5 DEF Good
<1> HIDE DEF Good
<1>6. <<n, MakeRoom(w, r, m)>> \in Good
  BY <1>2, <1>4, <1>5, RoomLoop, SMTT(60)
<1>7. RoomMade(w, MakeRoom(w, r, m), q, dn, i, r, m, n - n)
  BY <1>6 DEF Good
<1>8. i >= 1 /\ n - n = 0
  BY <1>2
<1>9. Len(MakeRoom(w, r, m).s.running) \in Nat
  <2>1. MakeRoom(w, r, m).s \in SchedulerState
    BY <1>7 DEF RoomMade, Planned, Sound
  <2>2. MakeRoom(w, r, m).s.running \in Seq(Requests)
    BY <2>1, Fields
  <2> QED
    BY <2>2, LenProperties
<1>10. /\ Planned(u, q, dn) /\ Shrunk(w, u) /\ i - 1 <= Len(u.s.running)
       /\ \/ r \in u.preempted
          \/ i <= Len(u.s.running) /\ (Need(u.s, r, m) <= u.s.free \/ Len(u.s.running) <= 0)
  BY <1>7, <1>8 DEF RoomMade
<1>11. i <= Len(u.s.running) => ~ (Len(u.s.running) <= 0)
  BY <1>2, <1>8, <1>9
<1> QED
  BY <1>10, <1>11

-----------------------------------------------------------------------------
(* The batch that is planned for the running requests. *)

LEMMA GiveFields ==
  ASSUME on \in Deployments, NEW w \in PlanState, NEW s \in SchedulerState, NEW r \in Requests,
         NEW k \in Nat, k <= w.budget, Need(s, r, s.computed[r] + k) <= s.free,
         NEW t, t = Give(w, s, r, k)
  PROVE  /\ t \in PlanState /\ t.s = Grow(s, r, s.computed[r] + k)
         /\ t.preempted = w.preempted /\ t.blocked = w.blocked
         /\ DOMAIN t.batch = DOMAIN w.batch \cup {r} /\ t.batch[r] = k
         /\ \A x \in DOMAIN w.batch : x # r => t.batch[x] = w.batch[x]
<1> DEFINE g == Grow(s, r, s.computed[r] + k)
           b == [q \in DOMAIN w.batch \cup {r} |-> IF q = r THEN k ELSE w.batch[q]]
<1>1. /\ w.budget \in Nat /\ w.preempted \subseteq Requests /\ w.blocked \in Seq(Requests)
      /\ DOMAIN w.batch \subseteq Requests /\ \A x \in DOMAIN w.batch : w.batch[x] \in Nat
  BY PlanFields
<1>2. g \in SchedulerState
  <2>1. s.computed[r] + k \in Nat
    BY Fields
  <2> QED
    BY <2>1, GrowFields
<1>3. t = [w EXCEPT !.s = g, !.budget = @ - k, !.batch = b]
  BY DEF Give
<1>4. b \in Plans /\ w.budget - k \in Nat
  <2>1. DOMAIN w.batch \cup {r} \in SUBSET Requests
    BY <1>1
  <2>2. b \in [DOMAIN w.batch \cup {r} -> Nat]
    BY <1>1
  <2>3. w.budget - k \in Nat
    BY <1>1
  <2> HIDE DEF b
  <2> QED
    BY <2>1, <2>2, <2>3 DEF Plans
<1>5. /\ DOMAIN b = DOMAIN w.batch \cup {r} /\ b[r] = k
      /\ \A x \in DOMAIN w.batch : x # r => b[x] = w.batch[x]
  OBVIOUS
<1> HIDE DEF g, b
<1>6. t \in PlanState /\ t.s = g /\ t.batch = b /\ t.preempted = w.preempted /\ t.blocked = w.blocked
  BY <1>2, <1>3, <1>4 DEF PlanState
<1> QED
  BY <1>5, <1>6 DEF g

LEMMA GiveGiven ==
  ASSUME on \in Deployments, NEW w \in PlanState, NEW s \in SchedulerState, NEW r \in Requests,
         NEW k \in Nat, k <= w.budget, Need(s, r, s.computed[r] + k) <= s.free,
         NEW t, t = Give(w, s, r, k), Given(on, s, w.batch), s.status[r] = "running",
         s.computed[r] + k <= s.tokens[r] + s.coming[r],
         s.computed[r] + k = s.tokens[r] + s.coming[r] => s.tokens[r] + s.coming[r] < Limit(on, r)
  PROVE  Given(on, t.s, t.batch)
<1>1. /\ t.s = Grow(s, r, s.computed[r] + k) /\ DOMAIN t.batch = DOMAIN w.batch \cup {r}
      /\ t.batch[r] = k
  BY GiveFields
<1>2. \A x \in DOMAIN w.batch : x # r => t.batch[x] = w.batch[x]
  BY GiveFields
<1>3. s.computed[r] + k \in Nat
  BY Fields
<1>4. Grown(s, t.s) /\ s.computed[r] + k <= on.size * t.s.held[r]
  BY <1>1, <1>3, GrowFields
<1>5. ASSUME NEW x \in Requests, x # r PROVE t.s.held[x] = s.held[x]
  BY <1>1, <1>3, <1>5, GrowFields
<1>6. /\ t.s.status = s.status /\ t.s.computed = s.computed /\ t.s.tokens = s.tokens
      /\ t.s.coming = s.coming
  BY <1>4 DEF Grown, Elsewhere
<1> SUFFICES ASSUME NEW x \in DOMAIN t.batch
             PROVE  /\ t.s.status[x] = "running"
                    /\ t.s.computed[x] + t.batch[x] <= on.size * t.s.held[x]
                    /\ t.s.computed[x] + t.batch[x] <= t.s.tokens[x] + t.s.coming[x]
                    /\ t.s.computed[x] + t.batch[x] = t.s.tokens[x] + t.s.coming[x] =>
                         t.s.tokens[x] + t.s.coming[x] < Limit(on, x)
  BY DEF Given
<1>7. CASE x = r
  BY <1>1, <1>4, <1>6, <1>7
<1>8. CASE x # r
  <2>1. x \in DOMAIN w.batch /\ x \in Requests
    BY <1>1, <1>8, PlanFields
  <2>2. t.s.held[x] = s.held[x] /\ t.batch[x] = w.batch[x]
    BY <1>2, <1>5, <1>8, <2>1
  <2> QED
    BY <1>6, <2>1, <2>2 DEF Given
<1> QED
  BY <1>7, <1>8

(* With one batch in flight a running request has at most one token to come, *)
(* and it never grows beyond its last token.                                 *)
LEMMA LastToken ==
  ASSUME on \in Deployments, NEW s \in SchedulerState, NEW q \in Seq(Batches), Len(q) <= 1,
         Progress(on, s, q, {}), NEW r \in Requests, s.status[r] = "running",
         ~ SureToEnd(s, r), NEW k \in Nat \ {0}, s.computed[r] + k <= s.tokens[r] + s.coming[r]
  PROVE  s.computed[r] + k = s.tokens[r] + s.coming[r] => s.tokens[r] + s.coming[r] < Limit(on, r)
<1>1. Progressed(on, s, r) /\ s.coming[r] = Coming(on, q, {}, r)
  BY DEF Progress, Before
<1>2. s.coming[r] \in Nat /\ s.computed[r] \in Nat /\ s.tokens[r] \in Nat /\ Limit(on, r) \in Nat
  <2>1. s.coming[r] \in Nat /\ s.computed[r] \in Nat /\ s.tokens[r] \in Nat
    BY Fields
  <2>2. on.prompt[r] \in Nat /\ on.max[r] \in Nat
    BY Deployed
  <2> QED
    BY <2>1, <2>2 DEF Limit
<1>3. s.coming[r] <= 1
  <2>1. Count(q, r) \in Nat /\ Count(q, r) <= Len(q) /\ Len(q) \in Nat
    BY CountFacts, LenProperties
  <2> QED
    BY <1>1, <2>1 DEF Coming
<1>4. s.tokens[r] < Limit(on, r) /\ (s.coming[r] > 0 => s.computed[r] + 1 >= s.tokens[r] + s.coming[r])
  BY <1>1 DEF Progressed
<1>5. s.coming[r] > 0 => s.computed[r] + 2 - s.coming[r] < Limit(on, r)
  BY <1>2 DEF SureToEnd, Limit, Prompt, MaxTokens
<1> QED
  BY <1>2, <1>3, <1>4, <1>5, SMTT(60)

(* After i rounds only the first i running requests are in the batch. *)
Continued(w, q, dn, i) ==
  /\ Planned(w, q, dn) /\ Given(on, w.s, w.batch) /\ w.blocked = <<>>
  /\ \A x \in DOMAIN w.batch : \E l \in 1 .. Len(w.s.running) : l <= i /\ x = w.s.running[l]

LEMMA ContinueStep ==
  ASSUME on \in Deployments, NEW q, NEW dn, Len(q) <= 1, NEW i \in Nat \ {0},
         NEW w, Continued(w, q, dn, i - 1)
  PROVE  Continued(ContinueOne(w, i), q, dn, i)
<1> DEFINE s == w.s
           r == s.running[i]
           k == Min({s.tokens[r] + s.coming[r] - s.computed[r], w.budget})
           room == MakeRoom(w, r, s.computed[r] + k)
<1>1. /\ w \in PlanState /\ Sound(on, s, q, dn, {}, w.preempted) /\ Given(on, s, w.batch)
      /\ w.blocked = <<>>
      /\ \A x \in w.preempted : s.status[x] = "waiting"
      /\ \A x \in DOMAIN w.batch : \E l \in 1 .. Len(s.running) : l <= i - 1 /\ x = s.running[l]
  BY DEF Continued, Planned
<1>2. /\ s \in SchedulerState /\ Progress(on, s, q, {}) /\ q \in Seq(Batches)
      /\ Range(s.running) = In(s, "running")
  BY <1>1 DEF Sound, Flight, Lines
<1>3. s.running \in Seq(Requests) /\ Len(s.running) \in Nat /\ w.budget \in Nat
  BY <1>1, <1>2, Fields, LenProperties, PlanFields
<1>4. CASE i > Len(s.running) \/ w.budget = 0 \/ SureToEnd(s, r) \/ k = 0
  <2>1. ContinueOne(w, i) = w
    BY <1>4 DEF ContinueOne
  <2>2. \A x \in DOMAIN w.batch : \E l \in 1 .. Len(s.running) : l <= i /\ x = s.running[l]
    <3>1. \A l \in 1 .. Len(s.running) : l <= i - 1 => l <= i
      BY <1>3
    <3> QED
      BY <1>1, <3>1
  <2> QED
    BY <1>1, <2>1, <2>2 DEF Continued, Planned
<1>5. CASE ~ (i > Len(s.running) \/ w.budget = 0 \/ SureToEnd(s, r) \/ k = 0)
  <2>1. i \in 1 .. Len(s.running)
    BY <1>3, <1>5
  <2>2. r \in Requests /\ s.status[r] = "running"
    <3>1. r \in Range(s.running)
      BY <1>3, <2>1 DEF Range
    <3> QED
      BY <1>2, <3>1 DEF In
  <2>3. ContinueOne(w, i) = IF r \in room.preempted THEN room ELSE Give(room, room.s, r, k)
    BY <1>5 DEF ContinueOne
  <2>4. /\ k \in Nat \ {0} /\ k <= w.budget /\ s.computed[r] + k <= s.tokens[r] + s.coming[r]
        /\ s.computed[r] \in Nat /\ s.tokens[r] \in Nat /\ s.coming[r] \in Nat
    <3> DEFINE m == s.tokens[r] + s.coming[r] - s.computed[r]
    <3>1. s.computed[r] \in Nat /\ s.tokens[r] \in Nat /\ s.coming[r] \in Nat
      BY <1>2, <2>2, Fields
    <3>2. s.computed[r] <= s.tokens[r] + s.coming[r]
      BY <1>2, <2>2 DEF Progress, Progressed, Before
    <3>3. m \in Nat /\ s.computed[r] + m = s.tokens[r] + s.coming[r]
      BY <3>1, <3>2
    <3> HIDE DEF m
    <3>4. Min({m, w.budget}) = IF m <= w.budget THEN m ELSE w.budget
      BY <1>3, <3>3, MinTwo
    <3>5. k = IF m <= w.budget THEN m ELSE w.budget
      BY <3>4 DEF m
    <3> HIDE DEF k
    <3>6. k \in Nat \ {0} /\ k <= w.budget /\ k <= m
      BY <1>3, <1>5, <3>3, <3>5
    <3> QED
      BY <3>1, <3>3, <3>6
  <2>5. s.computed[r] + k = s.tokens[r] + s.coming[r] => s.tokens[r] + s.coming[r] < Limit(on, r)
    <3> HIDE DEF k
    <3> QED
      BY <1>2, <1>5, <2>2, <2>4, LastToken
  <2> DEFINE m == s.computed[r] + k
  <2>6. m \in Nat /\ Planned(w, q, dn)
    BY <2>4 DEF Continued
  <2>7. PICK u : u = room
    OBVIOUS
  <2> HIDE DEF r, k
  <2>8. /\ Planned(u, q, dn) /\ Shrunk(w, u) /\ i - 1 <= Len(u.s.running)
        /\ r \in u.preempted \/ (i <= Len(u.s.running) /\ Need(u.s, r, m) <= u.s.free)
    <3> HIDE DEF m
    <3> QED
      BY <2>1, <2>6, <2>7, RoomFacts DEF m, r
  <2>9. /\ u \in PlanState /\ Sound(on, u.s, q, dn, {}, u.preempted)
        /\ \A x \in u.preempted : u.s.status[x] = "waiting"
        /\ u.s \in SchedulerState /\ Lines(on, u.s)
    BY <2>8 DEF Planned, Sound
  <2>10. u.s.running \in Seq(Requests) /\ Len(u.s.running) \in Nat
         /\ Range(u.s.running) = In(u.s, "running")
    BY <2>9, Fields, LenProperties DEF Lines
  <2>11. /\ u.batch = w.batch /\ u.budget = w.budget /\ u.blocked = w.blocked
         /\ \A l \in 1 .. Len(u.s.running) : u.s.running[l] = s.running[l]
         /\ \A x \in Range(u.s.running) : u.s.computed[x] = s.computed[x] /\ u.s.held[x] = s.held[x]
         /\ u.s.tokens = s.tokens /\ u.s.coming = s.coming
    BY <2>8 DEF Shrunk
  <2>12. ASSUME NEW x \in DOMAIN w.batch
         PROVE  \E l \in 1 .. Len(u.s.running) : l <= i - 1 /\ x = u.s.running[l]
    <3>1. PICK l \in 1 .. Len(s.running) : l <= i - 1 /\ x = s.running[l]
      BY <1>1
    <3>2. l \in 1 .. Len(u.s.running)
      BY <1>3, <2>8, <2>10, <3>1
    <3> QED
      BY <2>11, <3>1, <3>2
  <2>13. Given(on, u.s, u.batch)
    <3> SUFFICES ASSUME NEW x \in DOMAIN w.batch
                 PROVE  /\ u.s.status[x] = "running"
                        /\ u.s.computed[x] + w.batch[x] <= on.size * u.s.held[x]
                        /\ u.s.computed[x] + w.batch[x] <= u.s.tokens[x] + u.s.coming[x]
                        /\ u.s.computed[x] + w.batch[x] = u.s.tokens[x] + u.s.coming[x] =>
                             u.s.tokens[x] + u.s.coming[x] < Limit(on, x)
      BY <2>11 DEF Given
    <3>1. x \in Range(u.s.running)
      BY <2>10, <2>12 DEF Range
    <3>2. u.s.status[x] = "running"
      BY <2>10, <3>1 DEF In
    <3> QED
      BY <1>1, <2>11, <3>1, <3>2 DEF Given
  <2>14. CASE r \in u.preempted
    <3>1. \A x \in DOMAIN w.batch : \E l \in 1 .. Len(u.s.running) : l <= i /\ x = u.s.running[l]
      <4>1. \A l \in 1 .. Len(u.s.running) : l <= i - 1 => l <= i
        BY <2>10
      <4> QED
        BY <2>12, <4>1
    <3>2. ContinueOne(w, i) = u
      BY <2>3, <2>7, <2>14 DEF r, k
    <3> QED
      BY <1>1, <2>8, <2>11, <2>13, <3>1, <3>2 DEF Continued
  <2>15. CASE r \notin u.preempted
    <3>1. PICK t : t = Give(u, u.s, r, k)
      OBVIOUS
    <3>2. ContinueOne(w, i) = t
      BY <2>3, <2>7, <2>15, <3>1 DEF r, k
    <3>3. i \in 1 .. Len(u.s.running) /\ Need(u.s, r, m) <= u.s.free
      BY <2>8, <2>10, <2>15
    <3>4. r = u.s.running[i] /\ r \in Range(u.s.running)
      BY <2>10, <2>11, <3>3 DEF r, Range
    <3>5. u.s.status[r] = "running" /\ u.s.computed[r] = s.computed[r]
      BY <2>10, <2>11, <3>4 DEF In
    <3>6. /\ k \in Nat /\ k <= u.budget /\ Need(u.s, r, u.s.computed[r] + k) <= u.s.free
          /\ u.s.computed[r] + k \in Nat
      BY <2>4, <2>11, <3>3, <3>5
    <3>7. Given(on, t.s, t.batch)
      <4>1. /\ u.s.computed[r] + k <= u.s.tokens[r] + u.s.coming[r]
            /\ u.s.computed[r] + k = u.s.tokens[r] + u.s.coming[r] =>
                 u.s.tokens[r] + u.s.coming[r] < Limit(on, r)
        BY <2>4, <2>5, <2>11, <3>5
      <4> QED
        BY <2>2, <2>9, <2>13, <3>1, <3>5, <3>6, <4>1, GiveGiven
    <3>8. /\ t \in PlanState /\ t.s = Grow(u.s, r, u.s.computed[r] + k)
          /\ t.preempted = u.preempted /\ t.blocked = u.blocked
          /\ DOMAIN t.batch = DOMAIN w.batch \cup {r}
      BY <2>2, <2>9, <2>11, <3>1, <3>6, GiveFields
    <3>9. Sound(on, t.s, q, dn, {}, t.preempted)
      BY <2>2, <2>9, <3>5, <3>6, <3>8, GrownSound
    <3>10. t.s.running = u.s.running /\ t.s.status = u.s.status
      <4>1. Grown(u.s, t.s)
        BY <2>2, <2>9, <3>6, <3>8, GrowFields
      <4> QED
        BY <4>1 DEF Grown, Elsewhere
    <3>11. ASSUME NEW x \in DOMAIN t.batch
           PROVE  \E l \in 1 .. Len(t.s.running) : l <= i /\ x = t.s.running[l]
      <4>1. CASE x = r
        BY <3>3, <3>4, <3>10, <4>1
      <4>2. CASE x # r
        <5>1. PICK l \in 1 .. Len(u.s.running) : l <= i - 1 /\ x = u.s.running[l]
          BY <2>12, <3>8, <4>2
        <5>2. l <= i
          BY <2>10, <5>1
        <5> QED
          BY <3>10, <5>1, <5>2
      <4> QED
        BY <4>1, <4>2
    <3>12. Planned(t, q, dn)
      BY <2>9, <3>8, <3>9, <3>10 DEF Planned
    <3> QED
      BY <1>1, <2>11, <3>2, <3>7, <3>8, <3>11, <3>12 DEF Continued
  <2> QED
    BY <2>14, <2>15
<1> QED
  BY <1>4, <1>5

(* schedule() is called with at most one batch in flight. *)
LEMMA ContinueSound ==
  ASSUME on \in Deployments, NEW q, NEW dn, Len(q) <= 1, NEW w, Continued(w, q, dn, 0)
  PROVE  Continued(Continue(w), q, dn, Len(w.s.running))
<1> DEFINE n == Len(w.s.running)
           Good == {p \in Int \X PlanState : Continued(p[2], q, dn, p[1])}
<1>1. n \in Nat
  <2>1. w.s \in SchedulerState
    BY DEF Continued, Planned, Sound
  <2>2. w.s.running \in Seq(Requests)
    BY <2>1, Fields
  <2> QED
    BY <2>2, LenProperties
<1>2. <<0, w>> \in Good
  BY DEF Continued, Planned
<1>3. ASSUME NEW i \in 1 .. n, NEW u, <<i - 1, u>> \in Good
      PROVE  <<i, ContinueOne(u, i)>> \in Good
  <2>1. Continued(u, q, dn, i - 1) /\ i \in Nat \ {0} /\ i \in Int
    BY <1>1, <1>3
  <2>2. Continued(ContinueOne(u, i), q, dn, i)
    BY <2>1, ContinueStep
  <2>3. ContinueOne(u, i) \in PlanState
    BY <2>2 DEF Continued, Planned
  <2> QED
    BY <2>1, <2>2, <2>3
<1> HIDE DEF Good, n
<1>4. <<n, Loop(ContinueOne, w, n)>> \in Good
  BY <1>1, <1>2, <1>3, ContinueLoop
<1>5. Continue(w) = Loop(ContinueOne, w, n)
  BY DEF Continue, n
<1> QED
  BY <1>4, <1>5 DEF Good, n

-----------------------------------------------------------------------------
(* Requests that wait change lines. *)

LEMMA SameState ==
  ASSUME NEW s \in SchedulerState, NEW t \in SchedulerState, Elsewhere(s, t),
         t.held = s.held, t.free = s.free, t.deferred = s.deferred
  PROVE  t = s
<1>1. ASSUME NEW u \in SchedulerState
      PROVE  u = [status |-> u.status, running |-> u.running, waiting |-> u.waiting,
                  skipped |-> u.skipped, computed |-> u.computed, tokens |-> u.tokens,
                  coming |-> u.coming, held |-> u.held, free |-> u.free,
                  deferred |-> u.deferred, ahead |-> u.ahead, last |-> u.last,
                  prefills |-> u.prefills, pulled |-> u.pulled, moving |-> u.moving,
                  recved |-> u.recved]
  BY DEF SchedulerState
<1> QED
  BY <1>1 DEF Elsewhere

(* What only blocks, tokens and fences depend on. *)
Untouched(s, t) ==
  /\ t.tokens = s.tokens /\ t.coming = s.coming /\ t.held = s.held /\ t.free = s.free
  /\ t.deferred = s.deferred /\ t.ahead = s.ahead /\ t.last = s.last

LEMMA Idle ==
  ASSUME on \in Deployments, NEW s, NEW q, NEW dn, Sound(on, s, q, dn, {}, {}),
         NEW r \in Requests, s.status[r] \in {"out", "waiting", "remote"}
  PROVE  s.coming[r] = 0 /\ \A i \in 1 .. Len(q) : r \notin DOMAIN q[i]
<1>1. Progress(on, s, q, {}) /\ Flight(on, s, q, {}) /\ s \in SchedulerState
  BY DEF Sound
<1>2. \A i \in 1 .. Len(q) : r \notin DOMAIN q[i]
  BY <1>1 DEF Flight
<1>3. Count(q, r) = 0
  BY <1>1, <1>2, CountFacts DEF Flight
<1>4. s.coming[r] = Coming(on, q, {}, r)
  BY <1>1 DEF Progress, Before
<1> QED
  BY <1>2, <1>3, <1>4 DEF Coming

LEMMA FlightRequests ==
  ASSUME NEW q \in Seq(Batches), NEW i \in 1 .. Len(q), NEW x \in DOMAIN q[i]
  PROVE  x \in Requests
<1>1. q[i] \in Batches
  BY LenProperties
<1> QED
  BY <1>1 DEF Batches

(* A load that arrived. *)
LEMMA PromotedSound ==
  ASSUME on \in Deployments, NEW s, NEW q, NEW dn, Sound(on, s, q, dn, {}, {}),
         NEW r \in Requests, r \in s.recved, NEW t \in SchedulerState, Untouched(s, t),
         t.running = s.running, t.waiting = s.waiting, t.skipped = s.skipped,
         t.moving = s.moving, t.recved = s.recved \ {r},
         t.status[r] = "waiting", t.computed[r] = Min({s.computed[r], s.tokens[r] - 1}),
         \A x \in Requests : x # r => t.status[x] = s.status[x] /\ t.computed[x] = s.computed[x]
  PROVE  Sound(on, t, q, dn, {}, {})
<1>1. /\ s \in SchedulerState /\ Lines(on, s) /\ Ordered(on, s) /\ Books(on, s) /\ Moves(s, dn)
      /\ Progress(on, s, q, {}) /\ Flight(on, s, q, {}) /\ Fences(on, s, q)
  BY DEF Sound
<1>2. s.status[r] = "remote"
  BY <1>1 DEF Moves
<1>3. /\ In(t, "running") = In(s, "running") /\ In(t, "remote") \subseteq In(s, "remote")
      /\ In(t, "waiting") \cup In(t, "remote") = In(s, "waiting") \cup In(s, "remote")
  BY <1>2 DEF In
<1>4. Lines(on, t)
  BY <1>1, <1>3 DEF Lines
<1>5. Ordered(on, t)
  <2>1. \A a, b \in Requests : t.status[a] # "out" /\ t.status[b] = "out" => a < b
    BY <1>1, <1>2 DEF Ordered
  <2> QED
    BY <1>1, <2>1 DEF Ordered
<1>6. Books(on, t)
  <2>1. Owned(t) = Owned(s) /\ t.held = s.held
    BY OwnedFrame DEF Untouched
  <2>2. \A x \in Requests : t.status[x] \in {"out", "gone", "running"} => t.status[x] = s.status[x]
    OBVIOUS
  <2> QED
    BY <1>1, <2>1, <2>2 DEF Books
<1>7. Moves(t, dn)
  <2>1. s.moving \cup dn \subseteq Requests /\ s.recved \subseteq Requests /\ r \notin s.moving \cup dn
    BY <1>1, Fields DEF Moves
  <2> QED
    BY <1>1, <2>1 DEF Moves
<1>8. Progress(on, t, q, {})
  <2> SUFFICES ASSUME NEW x \in Requests, t.status[x] \in Before
               PROVE  Progressed(on, t, x) /\ t.coming[x] = Coming(on, q, {}, x)
    BY DEF Progress
  <2>1. /\ t.tokens = s.tokens /\ t.coming = s.coming /\ t.held = s.held
        /\ s.computed[x] \in Nat /\ s.tokens[x] \in Nat /\ s.coming[x] \in Nat
        /\ on.size * s.held[x] \in Nat
    <3>1. s.held[x] \in Nat /\ on.size \in Nat
      BY <1>1, Fields, Deployed
    <3>2. on.size * s.held[x] \in Nat
      BY <3>1
    <3>3. s.computed[x] \in Nat /\ s.tokens[x] \in Nat /\ s.coming[x] \in Nat
      BY <1>1, Fields
    <3> QED
      BY <3>2, <3>3 DEF Untouched
  <2>2. CASE x = r
    <3>1. Progressed(on, s, x) /\ s.coming[x] = Coming(on, q, {}, x)
      BY <1>1, <1>2, <2>2 DEF Progress, Before
    <3>2. s.tokens[x] >= 1
      BY <3>1 DEF Progressed
    <3>3. t.computed[x] = IF s.computed[x] <= s.tokens[x] - 1 THEN s.computed[x] ELSE s.tokens[x] - 1
      BY <2>1, <2>2, MinTwo
    <3>4. t.computed[x] < s.tokens[x] /\ t.computed[x] <= s.computed[x]
      BY <2>1, <3>2, <3>3
    <3>5. t.computed[x] \in Nat
      BY Fields
    <3> QED
      BY <2>1, <2>2, <3>1, <3>4, <3>5 DEF Progressed
  <2>3. CASE x # r
    <3>1. Progressed(on, s, x) /\ s.coming[x] = Coming(on, q, {}, x)
      BY <1>1, <2>3 DEF Progress
    <3> QED
      BY <2>1, <2>3, <3>1 DEF Progressed
  <2> QED
    BY <2>2, <2>3
<1>9. Flight(on, t, q, {})
  <2>1. ASSUME NEW i \in 1 .. Len(q), NEW x \in DOMAIN q[i]
        PROVE  t.status[x] \in {"running", "held", "gone"}
    <3>1. s.status[x] \in {"running", "held", "gone"} /\ x \in Requests
      BY <1>1, FlightRequests DEF Flight
    <3> QED
      BY <1>2, <3>1
  <2> QED
    BY <1>1, <2>1 DEF Flight
<1>10. Fences(on, t, q)
  BY <1>1, FencesFrame DEF Untouched
<1> QED
  BY <1>4, <1>5, <1>6, <1>7, <1>8, <1>9, <1>10 DEF Sound

(* The blocks of a load are there; it is skipped until it arrived. *)
LEMMA LoadedSound ==
  ASSUME on \in Deployments, NEW s, NEW q, NEW dn, Sound(on, s, q, dn, {}, {}),
         NEW r \in on.remote, s.status[r] = "waiting", s.tokens[r] <= on.size * s.held[r],
         NEW t \in SchedulerState, Untouched(s, t),
         t.running = s.running, t.moving = s.moving \cup {r}, t.recved = s.recved,
         \/ t.waiting = s.waiting /\ t.skipped = s.skipped
         \/ /\ s.waiting # <<>> /\ r = Head(s.waiting) /\ t.waiting = Tail(s.waiting)
            /\ t.skipped = Append(s.skipped, r),
         r \in Range(t.skipped), t.status[r] = "remote", t.computed[r] = s.tokens[r],
         \A x \in Requests : x # r => t.status[x] = s.status[x] /\ t.computed[x] = s.computed[x]
  PROVE  Sound(on, t, q, dn, {}, {})
<1>1. /\ s \in SchedulerState /\ Lines(on, s) /\ Ordered(on, s) /\ Books(on, s) /\ Moves(s, dn)
      /\ Progress(on, s, q, {}) /\ Flight(on, s, q, {}) /\ Fences(on, s, q)
  BY DEF Sound
<1>2. r \in Requests /\ on.size \in Nat \ {0}
  BY Deployed
<1>3. s.coming[r] = 0 /\ \A i \in 1 .. Len(q) : r \notin DOMAIN q[i]
  BY <1>2, Idle
<1>4. /\ In(t, "running") = In(s, "running") /\ In(t, "remote") = In(s, "remote") \cup {r}
      /\ In(t, "waiting") \cup In(t, "remote") = In(s, "waiting") \cup In(s, "remote")
  BY <1>2 DEF In
<1>5. /\ s.waiting \in Seq(Requests) /\ s.skipped \in Seq(Requests) /\ s.held \in [Requests -> Nat]
      /\ s.tokens \in [Requests -> Nat]
  BY <1>1, Fields
<1>6. /\ IsInjective(t.waiting) /\ IsInjective(t.skipped)
      /\ Range(t.waiting) \cap Range(t.skipped) = {}
      /\ Range(t.waiting) \cup Range(t.skipped) = Range(s.waiting) \cup Range(s.skipped)
      /\ Range(t.waiting) \subseteq Range(s.waiting)
      /\ Range(t.skipped) \subseteq Range(s.skipped) \cup {r}
      /\ Range(s.skipped) \subseteq Range(t.skipped)
  <2>1. CASE t.waiting = s.waiting /\ t.skipped = s.skipped
    BY <1>1, <2>1 DEF Lines
  <2>2. CASE /\ s.waiting # <<>> /\ r = Head(s.waiting) /\ t.waiting = Tail(s.waiting)
             /\ t.skipped = Append(s.skipped, r)
    <3>1. /\ IsInjective(s.waiting) /\ IsInjective(s.skipped) /\ Range(s.waiting) \cap Range(s.skipped) = {}
      BY <1>1 DEF Lines
    <3>2. /\ r \in Range(s.waiting) /\ Range(t.waiting) = Range(s.waiting) \ {r} /\ IsInjective(t.waiting)
      BY <1>5, <2>2, <3>1, TailDict
    <3>3. Range(t.skipped) = Range(s.skipped) \cup {r} /\ IsInjective(t.skipped)
      BY <1>2, <1>5, <2>2, <3>1, <3>2, AppendDict
    <3> QED
      BY <3>1, <3>2, <3>3
  <2> QED
    BY <2>1, <2>2
<1>7. Lines(on, t)
  BY <1>1, <1>4, <1>6 DEF Lines
<1>8. Ordered(on, t)
  <2>1. \A a, b \in Requests : t.status[a] # "out" /\ t.status[b] = "out" => a < b
    BY <1>1, <1>2 DEF Ordered
  <2>2. Rising(on.remote, t.waiting)
    <3>1. Rising(on.remote, s.waiting)
      BY <1>1 DEF Ordered
    <3> QED
      BY <1>5, <3>1, RisingTail
  <2> QED
    BY <1>1, <1>6, <2>1, <2>2 DEF Ordered
<1>9. s.held[r] > 0
  <2>1. s.tokens[r] >= 1
    BY <1>1, <1>2 DEF Progress, Progressed, Before
  <2>2. on.size * 0 = 0
    BY <1>2
  <2>3. s.held[r] # 0
    BY <1>2, <1>5, <2>1, <2>2
  <2> QED
    BY <1>2, <1>5, <2>3
<1>10. Books(on, t)
  <2>1. Owned(t) = Owned(s) /\ t.held = s.held
    BY OwnedFrame DEF Untouched
  <2>2. \A x \in Requests : t.status[x] \in {"out", "gone", "running"} => t.status[x] = s.status[x]
    OBVIOUS
  <2> QED
    BY <1>1, <1>9, <2>1, <2>2 DEF Books
<1>11. Moves(t, dn)
  <2>1. s.moving \cup dn \subseteq Requests /\ s.recved \subseteq Requests /\ r \notin s.moving \cup dn \cup s.recved
    BY <1>1, Fields DEF Moves
  <2> QED
    BY <1>1, <2>1 DEF Moves
<1>12. Progress(on, t, q, {})
  <2> SUFFICES ASSUME NEW x \in Requests, t.status[x] \in Before
               PROVE  Progressed(on, t, x) /\ t.coming[x] = Coming(on, q, {}, x)
    BY DEF Progress
  <2>1. t.tokens = s.tokens /\ t.coming = s.coming /\ t.held = s.held
    BY DEF Untouched
  <2>2. CASE x = r
    <3>1. Progressed(on, s, x) /\ s.coming[x] = Coming(on, q, {}, x)
      BY <1>1, <2>2 DEF Progress, Before
    <3>2. s.tokens[x] \in Nat
      BY <1>5
    <3> QED
      BY <1>3, <2>1, <2>2, <3>1, <3>2 DEF Progressed
  <2>3. CASE x # r
    <3>1. Progressed(on, s, x) /\ s.coming[x] = Coming(on, q, {}, x)
      BY <1>1, <2>3 DEF Progress
    <3> QED
      BY <2>1, <2>3, <3>1 DEF Progressed
  <2> QED
    BY <2>2, <2>3
<1>13. Flight(on, t, q, {})
  <2>1. ASSUME NEW i \in 1 .. Len(q), NEW x \in DOMAIN q[i]
        PROVE  t.status[x] \in {"running", "held", "gone"}
    <3>1. s.status[x] \in {"running", "held", "gone"} /\ x \in Requests
      BY <1>1, FlightRequests DEF Flight
    <3> QED
      BY <1>3, <3>1
  <2> QED
    BY <1>1, <2>1 DEF Flight
<1>14. Fences(on, t, q)
  BY <1>1, FencesFrame DEF Untouched
<1> QED
  BY <1>7, <1>8, <1>10, <1>11, <1>12, <1>13, <1>14 DEF Sound

(* The first in line starts to run. *)
LEMMA JoinedSound ==
  ASSUME on \in Deployments, NEW s, NEW q, NEW dn, Sound(on, s, q, dn, {}, {}),
         NEW r \in Requests, s.status[r] = "waiting", s.held[r] > 0,
         NEW t \in SchedulerState, Untouched(s, t), t.computed = s.computed,
         t.running = Append(s.running, r), t.moving = s.moving, t.recved = s.recved,
         \/ /\ s.waiting # <<>> /\ r = Head(s.waiting) /\ t.waiting = Tail(s.waiting)
            /\ t.skipped = s.skipped
         \/ /\ r \in Range(s.skipped) /\ t.waiting = s.waiting
            /\ IsInjective(t.skipped) /\ Range(t.skipped) = Range(s.skipped) \ {r},
         t.status[r] = "running", \A x \in Requests : x # r => t.status[x] = s.status[x]
  PROVE  Sound(on, t, q, dn, {}, {})
<1>1. /\ s \in SchedulerState /\ Lines(on, s) /\ Ordered(on, s) /\ Books(on, s) /\ Moves(s, dn)
      /\ Progress(on, s, q, {}) /\ Flight(on, s, q, {}) /\ Fences(on, s, q)
  BY DEF Sound
<1>3. s.coming[r] = 0 /\ \A i \in 1 .. Len(q) : r \notin DOMAIN q[i]
  BY Idle
<1>4. /\ In(t, "running") = In(s, "running") \cup {r} /\ In(t, "remote") = In(s, "remote")
      /\ In(t, "waiting") = In(s, "waiting") \ {r} /\ r \notin In(s, "remote") /\ r \notin In(s, "running")
  BY DEF In
<1>5. /\ s.waiting \in Seq(Requests) /\ s.skipped \in Seq(Requests) /\ s.running \in Seq(Requests)
      /\ t.waiting \in Seq(Requests)
  BY <1>1, Fields
<1>2. /\ IsInjective(s.waiting) /\ IsInjective(s.skipped) /\ IsInjective(s.running)
      /\ Range(s.waiting) \cap Range(s.skipped) = {} /\ Range(s.running) = In(s, "running")
      /\ Range(s.waiting) \cup Range(s.skipped) = In(s, "waiting") \cup In(s, "remote")
      /\ In(s, "remote") \subseteq Range(s.skipped) /\ Range(s.skipped) \subseteq on.remote
  BY <1>1 DEF Lines
<1>6. /\ IsInjective(t.waiting) /\ IsInjective(t.skipped)
      /\ Range(t.waiting) \subseteq Range(s.waiting)
      /\ Range(t.skipped) \subseteq Range(s.skipped)
      /\ Range(t.waiting) \cup Range(t.skipped) = (Range(s.waiting) \cup Range(s.skipped)) \ {r}
      /\ Range(s.skipped) \ {r} \subseteq Range(t.skipped)
  <2>1. CASE /\ s.waiting # <<>> /\ r = Head(s.waiting) /\ t.waiting = Tail(s.waiting)
             /\ t.skipped = s.skipped
    <3>1. /\ r \in Range(s.waiting) /\ Range(t.waiting) = Range(s.waiting) \ {r} /\ IsInjective(t.waiting)
      BY <1>2, <1>5, <2>1, TailDict
    <3> QED
      BY <1>2, <2>1, <3>1
  <2>2. CASE /\ r \in Range(s.skipped) /\ t.waiting = s.waiting
             /\ IsInjective(t.skipped) /\ Range(t.skipped) = Range(s.skipped) \ {r}
    BY <1>2, <2>2
  <2> QED
    BY <2>1, <2>2
<1>15. Range(t.running) = Range(s.running) \cup {r} /\ IsInjective(t.running)
  BY <1>2, <1>4, <1>5, AppendDict
<1>7. Lines(on, t)
  <2>1. Range(t.waiting) \cap Range(t.skipped) = {}
    BY <1>2, <1>6
  <2>2. Range(t.waiting) \cup Range(t.skipped) = In(t, "waiting") \cup In(t, "remote")
    BY <1>2, <1>4, <1>6
  <2>3. In(t, "remote") \subseteq Range(t.skipped) /\ Range(t.skipped) \subseteq on.remote
    BY <1>2, <1>4, <1>6
  <2> QED
    BY <1>2, <1>4, <1>6, <1>15, <2>1, <2>2, <2>3 DEF Lines
<1>8. Ordered(on, t)
  <2>1. \A a, b \in Requests : t.status[a] # "out" /\ t.status[b] = "out" => a < b
    BY <1>1 DEF Ordered
  <2>2. /\ Rising(on.remote, s.waiting) /\ Rising(on.remote, s.running)
        /\ \A a \in Range(s.running) \ on.remote, b \in Range(s.waiting) \ on.remote : a < b
    BY <1>1 DEF Ordered
  <2>3. /\ Rising(on.remote, t.waiting)
        /\ r \in on.remote \/ (r \in Range(s.waiting) /\ \A b \in Range(t.waiting) \ on.remote : r < b)
    <3>1. CASE s.waiting # <<>> /\ r = Head(s.waiting) /\ t.waiting = Tail(s.waiting)
      <4>1. r \in Range(s.waiting)
        BY <1>2, <1>5, <3>1, TailDict
      <4> QED
        BY <1>5, <2>2, <3>1, <4>1, RisingTail
    <3>2. CASE r \in Range(s.skipped) /\ t.waiting = s.waiting
      BY <1>2, <2>2, <3>2
    <3> QED
      BY <3>1, <3>2
  <2>4. Rising(on.remote, t.running)
    <3>1. r \in on.remote \/ \A a \in Range(s.running) \ on.remote : a < r
      BY <2>2, <2>3
    <3> QED
      BY <1>5, <2>2, <3>1, RisingAppend
  <2>5. \A a \in Range(t.running) \ on.remote, b \in Range(t.waiting) \ on.remote : a < b
    BY <1>6, <1>15, <2>2, <2>3
  <2> QED
    BY <2>1, <2>3, <2>4, <2>5 DEF Ordered
<1>10. Books(on, t)
  <2>1. Owned(t) = Owned(s) /\ t.held = s.held
    BY OwnedFrame DEF Untouched
  <2>2. \A x \in Requests : x # r => t.status[x] = s.status[x]
    OBVIOUS
  <2>3. ASSUME NEW x \in Requests, t.status[x] \in {"out", "gone"} PROVE t.held[x] = 0
    BY <1>1, <2>1, <2>2, <2>3 DEF Books
  <2>4. ASSUME NEW x \in Requests, t.status[x] = "running" \/ x \in t.moving PROVE t.held[x] > 0
    BY <1>1, <2>1, <2>2, <2>4 DEF Books
  <2> QED
    BY <1>1, <2>1, <2>3, <2>4 DEF Books
<1>11. Moves(t, dn)
  <2>1. s.moving \cup dn \subseteq Requests /\ s.recved \subseteq Requests /\ r \notin s.moving \cup dn \cup s.recved
    BY <1>1, Fields DEF Moves
  <2> QED
    BY <1>1, <2>1 DEF Moves
<1>12. Progress(on, t, q, {})
  <2> SUFFICES ASSUME NEW x \in Requests, t.status[x] \in Before
               PROVE  Progressed(on, t, x) /\ t.coming[x] = Coming(on, q, {}, x)
    BY DEF Progress
  <2>1. t.tokens = s.tokens /\ t.coming = s.coming /\ t.held = s.held /\ t.computed = s.computed
    BY DEF Untouched
  <2>2. Progressed(on, s, x) /\ s.coming[x] = Coming(on, q, {}, x)
    BY <1>1 DEF Progress, Before
  <2>3. CASE x = r
    BY <1>3, <2>1, <2>2, <2>3 DEF Progressed
  <2>4. CASE x # r
    BY <2>1, <2>2, <2>4 DEF Progressed
  <2> QED
    BY <2>3, <2>4
<1>13. Flight(on, t, q, {})
  <2>1. ASSUME NEW i \in 1 .. Len(q), NEW x \in DOMAIN q[i]
        PROVE  t.status[x] \in {"running", "held", "gone"}
    <3>1. s.status[x] \in {"running", "held", "gone"} /\ x \in Requests
      BY <1>1, FlightRequests DEF Flight
    <3> QED
      BY <1>3, <3>1
  <2> QED
    BY <1>1, <2>1 DEF Flight
<1>14. Fences(on, t, q)
  BY <1>1, FencesFrame DEF Untouched
<1> QED
  BY <1>7, <1>8, <1>10, <1>11, <1>12, <1>13, <1>14 DEF Sound

-----------------------------------------------------------------------------
(* Admitting requests while a batch is planned. *)

(* The requests passed over are skipped again when the batch is planned. *)
Settled(w) == [w.s EXCEPT !.skipped = w.blocked \o @]

Admitting(w, q, dn) ==
  /\ w \in PlanState /\ w.preempted = {}
  /\ Sound(on, Settled(w), q, dn, {}, {}) /\ Given(on, w.s, w.batch)

(* The fields no line is in. *)
Beside(s, t) ==
  /\ t.status = s.status /\ t.computed = s.computed /\ t.tokens = s.tokens
  /\ t.coming = s.coming /\ t.ahead = s.ahead /\ t.last = s.last /\ t.deferred = s.deferred
  /\ t.prefills = s.prefills /\ t.pulled = s.pulled /\ t.moving = s.moving
  /\ t.recved = s.recved /\ t.held = s.held /\ t.free = s.free

LEMMA SettledFields ==
  ASSUME NEW w \in PlanState, NEW t, t = Settled(w)
  PROVE  /\ t \in SchedulerState /\ Beside(w.s, t)
         /\ t.running = w.s.running /\ t.waiting = w.s.waiting
         /\ t.skipped = w.blocked \o w.s.skipped
<1>1. w.s \in SchedulerState /\ w.blocked \in Seq(Requests)
  BY PlanFields
<1>2. w.s.skipped \in Seq(Requests)
  BY <1>1, Fields
<1>3. w.blocked \o w.s.skipped \in Seq(Requests)
  BY <1>1, <1>2, ConcatDict
<1> QED
  BY <1>1, <1>3 DEF Settled, SchedulerState, Beside

(* The first in line leaves the line. *)
First(s, r) == s.skipped \o s.waiting # <<>> /\ r = Head(s.skipped \o s.waiting)

LEMMA PoppedFields ==
  ASSUME NEW s \in SchedulerState, NEW r, First(s, r), NEW t, t = Popped(s)
  PROVE  /\ t \in SchedulerState /\ Beside(s, t) /\ t.running = s.running
         /\ r \in Requests
         /\ \/ /\ s.skipped # <<>> /\ r = Head(s.skipped) /\ r \in Range(s.skipped)
               /\ t.skipped = Tail(s.skipped) /\ t.waiting = s.waiting
            \/ /\ s.skipped = <<>> /\ s.waiting # <<>> /\ r = Head(s.waiting) /\ r \in Range(s.waiting)
               /\ t.skipped = <<>> /\ t.waiting = Tail(s.waiting)
<1>1. s.skipped \in Seq(Requests) /\ s.waiting \in Seq(Requests)
  BY Fields
<1>3. ASSUME NEW x \in Seq(Requests), x # <<>>
      PROVE  Tail(x) \in Seq(Requests) /\ Head(x) \in Requests /\ Head(x) \in Range(x)
  <2>1. Len(x) \in Nat \ {0} /\ Head(x) = x[1] /\ Tail(x) \in Seq(Requests)
    BY <1>3, LenProperties, EmptySeq, HeadTailProperties
  <2>2. 1 \in DOMAIN x /\ x[1] \in Requests
    BY <2>1, LenProperties
  <2> QED
    BY <2>1, <2>2 DEF Range
<1>4. CASE s.skipped # <<>>
  <2>1. r = Head(s.skipped)
    BY <1>1, <1>4, HeadTailConcat DEF First
  <2>2. t = [s EXCEPT !.skipped = Tail(@)]
    BY <1>4 DEF Popped
  <2>3. Tail(s.skipped) \in Seq(Requests) /\ r \in Requests /\ r \in Range(s.skipped)
    BY <1>1, <1>3, <1>4, <2>1
  <2> QED
    BY <1>4, <2>1, <2>2, <2>3 DEF SchedulerState, Beside
<1>5. CASE s.skipped = <<>>
  <2>1. s.skipped \o s.waiting = s.waiting
    BY <1>1, <1>5, ConcatProperties
  <2>2. t = [s EXCEPT !.waiting = Tail(@)]
    BY <1>5 DEF Popped
  <2>3. s.waiting # <<>> /\ r = Head(s.waiting)
    BY <2>1 DEF First
  <2>4. Tail(s.waiting) \in Seq(Requests) /\ r \in Requests /\ r \in Range(s.waiting)
    BY <1>1, <1>3, <2>3
  <2> QED
    BY <1>5, <2>2, <2>3, <2>4 DEF SchedulerState, Beside
<1> QED
  BY <1>4, <1>5

(* The first of c moves to the end of b. *)
LEMMA MoveOver ==
  ASSUME NEW T, NEW b \in Seq(T), NEW c \in Seq(T), c # <<>>
  PROVE  Append(b, Head(c)) \o Tail(c) = b \o c
<1> DEFINE x == Append(b, Head(c)) \o Tail(c)
           y == b \o c
           n == Len(b)
           m == Len(c)
<1>1. /\ n \in Nat /\ m \in Nat \ {0} /\ Head(c) = c[1] /\ Head(c) \in T
      /\ Tail(c) \in Seq(T) /\ Len(Tail(c)) = m - 1 /\ \A j \in 1 .. m - 1 : Tail(c)[j] = c[j + 1]
  BY LenProperties, EmptySeq, HeadTailProperties
<1>2. /\ Append(b, Head(c)) \in Seq(T) /\ Len(Append(b, Head(c))) = n + 1
      /\ Append(b, Head(c))[n + 1] = Head(c) /\ \A j \in 1 .. n : Append(b, Head(c))[j] = b[j]
  BY <1>1, AppendProperties
<1>3. /\ x \in Seq(T) /\ Len(x) = (n + 1) + (m - 1)
      /\ \A j \in 1 .. Len(x) : x[j] = IF j <= n + 1 THEN Append(b, Head(c))[j] ELSE Tail(c)[j - (n + 1)]
  BY <1>1, <1>2, ConcatProperties
<1>4. /\ y \in Seq(T) /\ Len(y) = n + m
      /\ \A j \in 1 .. Len(y) : y[j] = IF j <= n THEN b[j] ELSE c[j - n]
  BY ConcatProperties
<1> HIDE DEF x, y, n, m
<1>5. Len(x) = Len(y)
  BY <1>1, <1>3, <1>4
<1>6. ASSUME NEW j \in 1 .. Len(x) PROVE x[j] = y[j]
  <2>1. CASE j <= n
    <3>1. j \in 1 .. n /\ j <= n + 1
      BY <1>1, <1>3, <2>1
    <3> QED
      BY <1>2, <1>3, <1>4, <1>5, <2>1, <3>1
  <2>2. CASE j = n + 1
    <3>1. j <= n + 1 /\ ~ (j <= n) /\ j - n = 1
      BY <1>1, <2>2
    <3> QED
      BY <1>1, <1>2, <1>3, <1>4, <1>5, <2>2, <3>1
  <2>3. CASE j > n + 1
    <3>1. /\ ~ (j <= n + 1) /\ ~ (j <= n) /\ j - (n + 1) \in 1 .. m - 1 /\ (j - (n + 1)) + 1 = j - n
      BY <1>1, <1>3, <2>3
    <3> QED
      BY <1>1, <1>3, <1>4, <1>5, <3>1
  <2> QED
    BY <1>1, <1>3, <2>1, <2>2, <2>3
<1>7. x = y
  BY <1>3, <1>4, <1>5, <1>6, SeqEqual
<1> QED
  BY <1>7 DEF x, y

(* The first of c is dropped. *)
LEMMA DropMiddle ==
  ASSUME NEW T, NEW b \in Seq(T), NEW c \in Seq(T), c # <<>>, IsInjective(b \o c)
  PROVE  /\ b \o Tail(c) \in Seq(T) /\ IsInjective(b \o Tail(c))
         /\ Range(b \o Tail(c)) = Range(b \o c) \ {Head(c)}
<1> DEFINE y == b \o c
           n == Len(b)
           m == Len(c)
<1>1. /\ n \in Nat /\ m \in Nat \ {0} /\ Len(y) = n + m /\ DOMAIN y = 1 .. n + m
      /\ \A j \in 1 .. Len(y) : y[j] = IF j <= n THEN b[j] ELSE c[j - n]
      /\ DOMAIN b = 1 .. n /\ DOMAIN c = 1 .. m
  BY LenProperties, EmptySeq, ConcatProperties
<1>2. \A i, j \in 1 .. n + m : y[i] = y[j] => i = j
  BY <1>1 DEF IsInjective
<1> HIDE DEF y, n, m
<1>3. \A j \in 1 .. n : j \in 1 .. n + m /\ y[j] = b[j]
  BY <1>1
<1>4. \A j \in 1 .. m : n + j \in 1 .. n + m /\ y[n + j] = c[j]
  <2> TAKE j \in 1 .. m
  <2>1. n + j \in 1 .. n + m /\ (n + j) - n = j /\ ~ (n + j <= n)
    BY <1>1
  <2> QED
    BY <1>1, <2>1
<1>5. IsInjective(b)
  BY <1>1, <1>2, <1>3 DEF IsInjective
<1>6. IsInjective(c)
  <2>1. ASSUME NEW i \in 1 .. m, NEW j \in 1 .. m, c[i] = c[j] PROVE i = j
    <3>1. n + i = n + j
      BY <1>2, <1>4, <2>1
    <3> QED
      BY <1>1, <3>1
  <2> QED
    BY <1>1, <2>1 DEF IsInjective
<1>7. Range(b) \cap Range(c) = {}
  <2> SUFFICES ASSUME NEW i \in 1 .. n, NEW j \in 1 .. m, b[i] = c[j] PROVE FALSE
    BY <1>1 DEF Range
  <2>1. i = n + j
    BY <1>2, <1>3, <1>4
  <2> QED
    BY <1>1, <2>1
<1>8. /\ Head(c) \in Range(c) /\ Tail(c) \in Seq(T) /\ Range(Tail(c)) = Range(c) \ {Head(c)}
      /\ IsInjective(Tail(c))
  BY <1>6, TailDict
<1>9. /\ b \o Tail(c) \in Seq(T) /\ Range(b \o Tail(c)) = Range(b) \cup Range(Tail(c))
      /\ IsInjective(b \o Tail(c))
  <2>1. PICK u : u = Tail(c)
    OBVIOUS
  <2>2. u \in Seq(T) /\ IsInjective(u) /\ Range(b) \cap Range(u) = {}
    BY <1>7, <1>8, <2>1
  <2>3. b \o u \in Seq(T) /\ Range(b \o u) = Range(b) \cup Range(u) /\ IsInjective(b \o u)
    BY <1>5, <2>2, ConcatDict
  <2> QED
    BY <2>1, <2>3
<1>10. Range(b \o c) = Range(b) \cup Range(c)
  BY ConcatDict
<1> QED
  BY <1>7, <1>8, <1>9, <1>10

LEMMA GrowSame ==
  ASSUME NEW s \in SchedulerState, NEW t \in SchedulerState, t.held = s.held, t.free = s.free,
         NEW r, NEW n
  PROVE  /\ Need(t, r, n) = Need(s, r, n)
         /\ Grow(t, r, n).held = Grow(s, r, n).held /\ Grow(t, r, n).free = Grow(s, r, n).free
  BY DEF Need, Grow, SchedulerState

-----------------------------------------------------------------------------
(* One request is looked at. *)

LEMMA AdmittingFields ==
  ASSUME NEW w, NEW q, NEW dn, Admitting(w, q, dn)
  PROVE  /\ w \in PlanState /\ w.s \in SchedulerState /\ w.preempted = {} /\ w.budget \in Nat
         /\ w.blocked \in Seq(Requests) /\ DOMAIN w.batch \subseteq Requests
         /\ Sound(on, Settled(w), q, dn, {}, {}) /\ Given(on, w.s, w.batch)
  BY PlanFields DEF Admitting

LEMMA PromoteStep ==
  ASSUME on \in Deployments, NEW q, NEW dn, NEW w, Admitting(w, q, dn), NEW r \in Requests,
         w.s.status[r] \in {"waiting", "remote"}, NEW v, v = [w EXCEPT !.s = Promote(w.s, r)]
  PROVE  /\ Admitting(v, q, dn) /\ v.s = Promote(w.s, r)
         /\ v.batch = w.batch /\ v.budget = w.budget /\ v.blocked = w.blocked
         /\ v.s.running = w.s.running /\ v.s.waiting = w.s.waiting /\ v.s.skipped = w.s.skipped
         /\ v.s.status[r] \in {"waiting", "remote"}
<1>1. /\ w \in PlanState /\ w.s \in SchedulerState /\ w.preempted = {} /\ w.blocked \in Seq(Requests)
      /\ Sound(on, Settled(w), q, dn, {}, {}) /\ Given(on, w.s, w.batch)
  BY AdmittingFields
<1>2. CASE r \notin w.s.recved
  <2>1. Promote(w.s, r) = w.s
    BY <1>2 DEF Promote
  <2>2. v = w
    BY <1>1, <2>1 DEF PlanState
  <2> QED
    BY <2>1, <2>2
<1>3. CASE r \in w.s.recved
  <2> DEFINE c == Min({w.s.computed[r], w.s.tokens[r] - 1})
             p == [w.s EXCEPT !.status[r] = "waiting", !.recved = @ \ {r}, !.computed[r] = c]
  <2>1. Promote(w.s, r) = p
    BY <1>3 DEF Promote
  <2>2. PICK s : s = Settled(w)
    OBVIOUS
  <2>3. s \in SchedulerState /\ Beside(w.s, s) /\ Sound(on, s, q, dn, {}, {})
    BY <1>1, <2>2, SettledFields
  <2>4. w.s.status[r] = "remote" /\ w.s.tokens[r] >= 1
    <3>1. s.status[r] = "remote"
      BY <1>3, <2>3 DEF Sound, Moves, Beside
    <3>2. s.tokens[r] >= 1
      BY <2>3, <3>1 DEF Sound, Progress, Progressed, Before
    <3> QED
      BY <2>3, <3>1, <3>2 DEF Beside
  <2>5. c \in Nat
    <3>1. w.s.computed[r] \in Nat /\ w.s.tokens[r] - 1 \in Nat
      BY <1>1, <2>4, Fields
    <3> DEFINE a == w.s.computed[r]
               b == w.s.tokens[r] - 1
    <3>2. a \in Nat /\ b \in Nat
      BY <3>1
    <3> HIDE DEF a, b
    <3>3. Min({a, b}) = IF a <= b THEN a ELSE b
      BY <3>2, MinTwo
    <3>4. Min({a, b}) \in Nat
      BY <3>2, <3>3
    <3> QED
      BY <3>4 DEF a, b
  <2> HIDE DEF c
  <2>6. /\ p.status = [w.s.status EXCEPT ![r] = "waiting"]
        /\ p.computed = [w.s.computed EXCEPT ![r] = c] /\ p.recved = w.s.recved \ {r}
        /\ Untouched(w.s, p) /\ p.running = w.s.running /\ p.waiting = w.s.waiting
        /\ p.skipped = w.s.skipped /\ p.moving = w.s.moving
    BY <1>1 DEF SchedulerState, Untouched
  <2>7. p \in SchedulerState
    BY <1>1, <2>5 DEF SchedulerState, Counts, Where
  <2> HIDE DEF p
  <2>8. /\ v \in PlanState /\ v.s = p /\ v.batch = w.batch /\ v.budget = w.budget
        /\ v.blocked = w.blocked /\ v.preempted = w.preempted
    BY <1>1, <2>1, <2>7 DEF PlanState
  <2>9. /\ p.status[r] = "waiting" /\ p.computed[r] = c
        /\ \A x \in Requests : x # r => p.status[x] = w.s.status[x] /\ p.computed[x] = w.s.computed[x]
    <3>1. w.s.status \in [Requests -> Where] /\ w.s.computed \in [Requests -> Nat]
      BY <1>1, Fields
    <3> QED
      BY <2>6, <3>1
  <2>10. PICK t : t = Settled(v)
    OBVIOUS
  <2>11. /\ t \in SchedulerState /\ Beside(p, t) /\ t.running = p.running /\ t.waiting = p.waiting
         /\ t.skipped = w.blocked \o p.skipped
    BY <2>8, <2>10, SettledFields
  <2>12. /\ s.running = w.s.running /\ s.waiting = w.s.waiting /\ s.skipped = w.blocked \o w.s.skipped
    BY <1>1, <2>2, SettledFields
  <2>13. /\ Untouched(s, t) /\ t.running = s.running /\ t.waiting = s.waiting /\ t.skipped = s.skipped
         /\ t.moving = s.moving /\ t.recved = s.recved \ {r} /\ r \in s.recved
    BY <1>3, <2>3, <2>6, <2>11, <2>12 DEF Untouched, Beside
  <2>14. t.status[r] = "waiting" /\ t.computed[r] = Min({s.computed[r], s.tokens[r] - 1})
    BY <2>3, <2>9, <2>11 DEF Beside, c
  <2>15. \A x \in Requests : x # r => t.status[x] = s.status[x] /\ t.computed[x] = s.computed[x]
    BY <2>3, <2>9, <2>11 DEF Beside
  <2>16. Sound(on, t, q, dn, {}, {})
    BY <2>3, <2>11, <2>13, <2>14, <2>15, PromotedSound
  <2>17. Given(on, p, w.batch)
    <3> SUFFICES ASSUME NEW x \in DOMAIN w.batch
                 PROVE  /\ p.status[x] = "running"
                        /\ p.computed[x] + w.batch[x] <= on.size * p.held[x]
                        /\ p.computed[x] + w.batch[x] <= p.tokens[x] + p.coming[x]
                        /\ p.computed[x] + w.batch[x] = p.tokens[x] + p.coming[x] =>
                             p.tokens[x] + p.coming[x] < Limit(on, x)
      BY DEF Given
    <3>1. x \in Requests /\ x # r
      BY <1>1, <2>4, PlanFields DEF Given
    <3> QED
      BY <1>1, <2>6, <2>9, <3>1 DEF Given, Untouched
  <2> QED
    BY <1>1, <2>1, <2>6, <2>8, <2>9, <2>10, <2>16, <2>17 DEF Admitting
<1> QED
  BY <1>2, <1>3

(* A load has not arrived: the request is passed over. *)
LEMMA SkipStep ==
  ASSUME on \in Deployments, NEW q, NEW dn, NEW w, Admitting(w, q, dn),
         NEW r, First(w.s, r),
         w.s.status[r] = "remote",
         NEW t, t = [w EXCEPT !.s = Popped(w.s), !.blocked = Append(@, r)]
  PROVE  Admitting(t, q, dn)
<1>1. /\ w \in PlanState /\ w.s \in SchedulerState /\ w.preempted = {} /\ w.blocked \in Seq(Requests)
      /\ Sound(on, Settled(w), q, dn, {}, {}) /\ Given(on, w.s, w.batch)
  BY AdmittingFields
<1>2. PICK p : p = Popped(w.s)
  OBVIOUS
<1>3. p \in SchedulerState /\ Beside(w.s, p) /\ p.running = w.s.running /\ r \in Requests
  BY <1>1, <1>2, PoppedFields
<1>4. PICK s : s = Settled(w)
  OBVIOUS
<1>5. /\ s \in SchedulerState /\ Beside(w.s, s) /\ s.running = w.s.running /\ s.waiting = w.s.waiting
      /\ s.skipped = w.blocked \o w.s.skipped /\ Lines(on, s)
  BY <1>1, <1>4, SettledFields DEF Sound
<1>6. w.s.skipped \in Seq(Requests) /\ w.s.waiting \in Seq(Requests)
  BY <1>1, Fields
<1>7. /\ w.s.skipped # <<>> /\ r = Head(w.s.skipped) /\ p.skipped = Tail(w.s.skipped)
      /\ p.waiting = w.s.waiting
  <2>1. ~ (w.s.skipped = <<>> /\ r \in Range(w.s.waiting))
    <3> SUFFICES ASSUME w.s.skipped = <<>>, r \in Range(w.s.waiting) PROVE FALSE
      OBVIOUS
    <3>1. r \in In(s, "remote")
      BY <1>3, <1>5 DEF In, Beside
    <3> QED
      BY <1>5, <3>1 DEF Lines
  <2> QED
    BY <1>1, <1>2, <2>1, PoppedFields
<1>8. Append(w.blocked, r) \in Seq(Requests)
  BY <1>1, <1>3, AppendDict
<1>9. /\ t \in PlanState /\ t.s = p /\ t.batch = w.batch /\ t.blocked = Append(w.blocked, r)
      /\ t.preempted = {}
  BY <1>1, <1>2, <1>3, <1>8 DEF PlanState
<1>10. PICK u : u = Settled(t)
  OBVIOUS
<1>11. /\ u \in SchedulerState /\ Beside(p, u) /\ u.running = p.running /\ u.waiting = p.waiting
       /\ u.skipped = Append(w.blocked, r) \o p.skipped
  BY <1>9, <1>10, SettledFields
<1>12. u.skipped = s.skipped
  <2>1. PICK b, c : b = w.blocked /\ c = w.s.skipped
    OBVIOUS
  <2>2. b \in Seq(Requests) /\ c \in Seq(Requests) /\ c # <<>>
    BY <1>1, <1>6, <1>7, <2>1
  <2>3. Append(b, Head(c)) \o Tail(c) = b \o c
    BY <2>2, MoveOver
  <2> QED
    BY <1>5, <1>7, <1>11, <2>1, <2>3
<1>13. u = s
  <2>1. Elsewhere(s, u) /\ u.held = s.held /\ u.free = s.free /\ u.deferred = s.deferred
    BY <1>3, <1>5, <1>7, <1>11, <1>12 DEF Elsewhere, Beside
  <2> QED
    BY <1>5, <1>11, <2>1, SameState
<1>14. Given(on, p, w.batch)
  BY <1>1, <1>3 DEF Given, Beside
<1> QED
  BY <1>1, <1>4, <1>9, <1>10, <1>13, <1>14 DEF Admitting

-----------------------------------------------------------------------------
(* One request is admitted. *)

(* What a load and a start make of the scheduler. *)
LoadState(g, r, n) ==
  [g EXCEPT !.status[r] = "remote", !.computed[r] = n, !.prefills = @ \cup {r},
            !.pulled = @ \cup {r}, !.moving = @ \cup {r}]
LoadPlan(w, r) ==
  [w EXCEPT !.s = LoadState(Grow(Popped(w.s), r, w.s.tokens[r]), r, w.s.tokens[r]),
            !.blocked = Append(@, r)]

(* r begins to load its prompt into blocks of its own. *)
LEMMA LoadStep ==
  ASSUME on \in Deployments, NEW q, NEW dn, NEW w, Admitting(w, q, dn),
         NEW r, First(w.s, r),
         w.s.status[r] = "waiting", r \in on.remote, Need(w.s, r, w.s.tokens[r]) <= w.s.free,
         NEW t, t = LoadPlan(w, r)
  PROVE  Admitting(t, q, dn)
<1>1. /\ w \in PlanState /\ w.s \in SchedulerState /\ w.preempted = {} /\ w.blocked \in Seq(Requests)
      /\ Sound(on, Settled(w), q, dn, {}, {}) /\ Given(on, w.s, w.batch)
  BY AdmittingFields
<1>2. PICK p : p = Popped(w.s)
  OBVIOUS
<1>3. p \in SchedulerState /\ Beside(w.s, p) /\ p.running = w.s.running /\ r \in Requests
  BY <1>1, <1>2, PoppedFields
<1>4. PICK s : s = Settled(w)
  OBVIOUS
<1>5. /\ s \in SchedulerState /\ Beside(w.s, s) /\ s.running = w.s.running /\ s.waiting = w.s.waiting
      /\ s.skipped = w.blocked \o w.s.skipped /\ Sound(on, s, q, dn, {}, {})
  BY <1>1, <1>4, SettledFields
<1>6. PICK n : n = w.s.tokens[r]
  OBVIOUS
<1>30. PICK g : g = Grow(p, r, n)
  OBVIOUS
<1>7. n \in Nat /\ n = s.tokens[r]
  BY <1>1, <1>3, <1>5, <1>6, Fields DEF Beside
<1>8. PICK h : h = Grow(s, r, n)
  OBVIOUS
<1>9. /\ Need(s, r, n) = Need(w.s, r, n) /\ Need(p, r, n) = Need(w.s, r, n)
      /\ g.held = h.held /\ g.free = h.free /\ s.free = w.s.free /\ p.free = w.s.free
  <2>1. s.held = w.s.held /\ s.free = w.s.free /\ p.held = w.s.held /\ p.free = w.s.free
    BY <1>3, <1>5 DEF Beside
  <2>2. PICK v : v = w.s
    OBVIOUS
  <2>3. v \in SchedulerState /\ s \in SchedulerState /\ p \in SchedulerState
    BY <1>1, <1>3, <1>5, <2>2
  <2>4. Need(s, r, n) = Need(v, r, n) /\ Need(p, r, n) = Need(v, r, n)
    BY <2>1, <2>2, <2>3, GrowSame
  <2>5. /\ Grow(p, r, n).held = Grow(s, r, n).held /\ Grow(p, r, n).free = Grow(s, r, n).free
    BY <2>1, <2>3, GrowSame
  <2> QED
    BY <1>8, <1>30, <2>1, <2>2, <2>4, <2>5
<1>32. /\ r \in Requests /\ n \in Nat /\ s \in SchedulerState /\ p \in SchedulerState
       /\ Need(s, r, n) <= s.free /\ Need(p, r, n) <= p.free
  BY <1>3, <1>5, <1>6, <1>7, <1>9
<1>10. h \in SchedulerState /\ Grown(s, h) /\ n <= on.size * h.held[r]
  BY <1>8, <1>32, GrowFields
<1>11. g \in SchedulerState /\ Grown(p, g)
  BY <1>30, <1>32, GrowFields
<1>31. ASSUME NEW x \in Requests, x # r PROVE h.held[x] = w.s.held[x]
  <2>1. h.held[x] = s.held[x]
    BY <1>8, <1>31, <1>32, GrowFields
  <2> QED
    BY <1>5, <2>1 DEF Beside
<1>12. s.status[r] = "waiting"
  BY <1>5 DEF Beside
<1>13. Sound(on, h, q, dn, {}, {})
  BY <1>5, <1>8, <1>12, <1>32, GrownSound
<1>29. PICK y : y = LoadState(g, r, n)
  OBVIOUS
<1>14. /\ y \in SchedulerState
       /\ y.status = [g.status EXCEPT ![r] = "remote"] /\ y.computed = [g.computed EXCEPT ![r] = n]
       /\ Untouched(g, y) /\ y.running = g.running /\ y.waiting = g.waiting /\ y.skipped = g.skipped
       /\ y.moving = g.moving \cup {r} /\ y.recved = g.recved
  BY <1>3, <1>7, <1>11, <1>29 DEF LoadState, SchedulerState, Untouched, Counts, Where
<1>15. Append(w.blocked, r) \in Seq(Requests)
  BY <1>1, <1>3, AppendDict
<1>16. t = [w EXCEPT !.s = y, !.blocked = Append(@, r)]
  BY <1>2, <1>6, <1>29, <1>30 DEF LoadPlan
<1>17. /\ t \in PlanState /\ t.s = y /\ t.batch = w.batch /\ t.blocked = Append(w.blocked, r)
       /\ t.preempted = {}
  BY <1>1, <1>14, <1>15, <1>16 DEF PlanState
<1>18. /\ y.status[r] = "remote" /\ y.computed[r] = n
       /\ \A x \in Requests : x # r => y.status[x] = w.s.status[x] /\ y.computed[x] = w.s.computed[x]
  <2>1. g.status \in [Requests -> Where] /\ g.computed \in [Requests -> Nat]
    BY <1>11, Fields
  <2>2. g.status = w.s.status /\ g.computed = w.s.computed
    BY <1>3, <1>11 DEF Grown, Elsewhere, Beside
  <2> QED
    BY <1>3, <1>14, <2>1, <2>2
<1>19. /\ y.tokens = w.s.tokens /\ y.coming = w.s.coming /\ y.held = h.held /\ y.free = h.free
       /\ y.deferred = w.s.deferred /\ y.ahead = w.s.ahead /\ y.last = w.s.last
       /\ y.running = w.s.running /\ y.waiting = p.waiting /\ y.skipped = p.skipped
       /\ y.moving = w.s.moving \cup {r} /\ y.recved = w.s.recved
  BY <1>3, <1>9, <1>11, <1>14 DEF Untouched, Grown, Elsewhere, Beside
<1>20. PICK u : u = Settled(t)
  OBVIOUS
<1>21. /\ u \in SchedulerState /\ Beside(y, u) /\ u.running = y.running /\ u.waiting = y.waiting
       /\ u.skipped = Append(w.blocked, r) \o y.skipped
  BY <1>17, <1>20, SettledFields
<1>33. /\ h.status = w.s.status /\ h.computed = w.s.computed /\ h.waiting = w.s.waiting
       /\ h.skipped = w.blocked \o w.s.skipped /\ h.tokens = w.s.tokens
       /\ h.coming = w.s.coming /\ h.deferred = w.s.deferred /\ h.ahead = w.s.ahead
       /\ h.last = w.s.last /\ h.running = w.s.running /\ h.moving = w.s.moving
       /\ h.recved = w.s.recved
  BY <1>5, <1>10 DEF Beside, Grown, Elsewhere
<1>22. /\ Untouched(h, u) /\ u.running = h.running /\ u.moving = h.moving \cup {r}
       /\ u.recved = h.recved /\ u.status[r] = "remote" /\ u.computed[r] = h.tokens[r]
       /\ h.status = w.s.status /\ h.computed = w.s.computed /\ h.waiting = w.s.waiting
       /\ h.skipped = w.blocked \o w.s.skipped /\ h.tokens = w.s.tokens
  BY <1>6, <1>18, <1>19, <1>21, <1>33 DEF Untouched, Beside
<1>23. \A x \in Requests : x # r => u.status[x] = h.status[x] /\ u.computed[x] = h.computed[x]
  BY <1>18, <1>21, <1>22 DEF Beside
<1>24. w.s.skipped \in Seq(Requests) /\ w.s.waiting \in Seq(Requests)
  BY <1>1, Fields
<1>25. /\ r \in Range(u.skipped)
       /\ \/ u.waiting = h.waiting /\ u.skipped = h.skipped
          \/ /\ h.waiting # <<>> /\ r = Head(h.waiting) /\ u.waiting = Tail(h.waiting)
             /\ u.skipped = Append(h.skipped, r)
  <2>2. PICK b, c, k : b = w.blocked /\ c = w.s.skipped /\ k = Append(b, r)
    OBVIOUS
  <2>8. b \in Seq(Requests) /\ c \in Seq(Requests)
    BY <1>1, <1>24, <2>2
  <2>1. Range(k) = Range(b) \cup {r} /\ k \in Seq(Requests)
    BY <1>3, <2>2, <2>8, AppendDict
  <2>3. k \in Seq(Requests) /\ b \in Seq(Requests) /\ c \in Seq(Requests) /\ r \in Range(k)
    BY <2>1, <2>8
  <2>4. y.skipped \in Seq(Requests)
    BY <1>14, Fields
  <2>5. Range(k \o y.skipped) = Range(k) \cup Range(y.skipped)
    BY <2>3, <2>4, ConcatDict
  <2>6. CASE /\ w.s.skipped # <<>> /\ r = Head(w.s.skipped)
             /\ p.skipped = Tail(w.s.skipped) /\ p.waiting = w.s.waiting
    <3>1. Append(b, Head(c)) \o Tail(c) = b \o c
      BY <2>2, <2>3, <2>6, MoveOver
    <3>2. u.skipped = k \o y.skipped /\ y.skipped = Tail(c) /\ k = Append(b, Head(c))
      BY <1>19, <1>21, <2>2, <2>6
    <3>3. h.skipped = b \o c /\ u.waiting = h.waiting
      BY <1>19, <1>21, <1>22, <2>2, <2>6
    <3>4. r \in Range(u.skipped)
      BY <2>3, <2>5, <3>2
    <3>5. u.skipped = h.skipped
      BY <3>1, <3>2, <3>3
    <3> QED
      BY <3>3, <3>4, <3>5
  <2>7. CASE /\ w.s.skipped = <<>> /\ w.s.waiting # <<>> /\ r = Head(w.s.waiting)
             /\ p.skipped = <<>> /\ p.waiting = Tail(w.s.waiting)
    <3>1. k \o <<>> = k /\ b \o <<>> = b
      BY <2>3, ConcatProperties
    <3> QED
      BY <1>19, <1>21, <1>22, <2>2, <2>3, <2>7, <3>1
  <2> QED
    BY <1>1, <1>2, <2>6, <2>7, PoppedFields
<1>26. h.status[r] = "waiting" /\ h.tokens[r] <= on.size * h.held[r]
  BY <1>6, <1>10, <1>22
<1>27. Sound(on, u, q, dn, {}, {})
  <2>1. /\ u \in SchedulerState /\ Untouched(h, u) /\ u.running = h.running
        /\ u.moving = h.moving \cup {r} /\ u.recved = h.recved /\ u.status[r] = "remote"
        /\ u.computed[r] = h.tokens[r]
    BY <1>21, <1>22
  <2> QED
    BY <1>13, <1>23, <1>25, <1>26, <2>1, LoadedSound
<1>28. Given(on, y, w.batch)
  <2> SUFFICES ASSUME NEW x \in DOMAIN w.batch
               PROVE  /\ y.status[x] = "running"
                      /\ y.computed[x] + w.batch[x] <= on.size * y.held[x]
                      /\ y.computed[x] + w.batch[x] <= y.tokens[x] + y.coming[x]
                      /\ y.computed[x] + w.batch[x] = y.tokens[x] + y.coming[x] =>
                           y.tokens[x] + y.coming[x] < Limit(on, x)
    BY DEF Given
  <2>1. x \in Requests /\ x # r
    BY <1>1, PlanFields DEF Given
  <2>2. y.held[x] = w.s.held[x]
    BY <1>19, <1>31, <2>1
  <2> QED
    BY <1>1, <1>18, <1>19, <2>1, <2>2 DEF Given
<1> QED
  BY <1>17, <1>20, <1>27, <1>28 DEF Admitting

-----------------------------------------------------------------------------
(* One request starts or resumes. *)

RunState(p, s, r, k) ==
  [p EXCEPT !.running = Append(@, r), !.status[r] = "running",
            !.prefills = IF s.computed[r] + k < s.tokens[r] THEN @ \cup {r} ELSE @]
RunPlan(w, r, k) == Give(w, RunState(Popped(w.s), w.s, r, k), r, k)

LEMMA RunStep ==
  ASSUME on \in Deployments, NEW q, NEW dn, NEW w, Admitting(w, q, dn),
         NEW r, First(w.s, r), w.s.status[r] = "waiting", NEW k \in Nat \ {0}, k <= w.budget,
         w.s.computed[r] + k <= w.s.tokens[r], Need(w.s, r, w.s.computed[r] + k) <= w.s.free,
         NEW t, t = RunPlan(w, r, k)
  PROVE  Admitting(t, q, dn)
<1>1. /\ w \in PlanState /\ w.s \in SchedulerState /\ w.preempted = {} /\ w.blocked \in Seq(Requests)
      /\ Sound(on, Settled(w), q, dn, {}, {}) /\ Given(on, w.s, w.batch)
      /\ DOMAIN w.batch \subseteq Requests
  BY AdmittingFields
<1>2. PICK p : p = Popped(w.s)
  OBVIOUS
<1>3. p \in SchedulerState /\ Beside(w.s, p) /\ p.running = w.s.running /\ r \in Requests
  BY <1>1, <1>2, PoppedFields
<1>4. PICK s : s = Settled(w)
  OBVIOUS
<1>5. /\ s \in SchedulerState /\ Beside(w.s, s) /\ s.running = w.s.running /\ s.waiting = w.s.waiting
      /\ s.skipped = w.blocked \o w.s.skipped /\ Sound(on, s, q, dn, {}, {})
  BY <1>1, <1>4, SettledFields
<1>6. PICK n : n = w.s.computed[r] + k
  OBVIOUS
<1>7. n \in Nat \ {0} /\ n <= w.s.tokens[r] /\ w.s.tokens[r] \in Nat
  BY <1>1, <1>3, <1>6, Fields
<1>8. PICK a : a = RunState(p, w.s, r, k)
  OBVIOUS
<1>9. p.running \in Seq(Requests) /\ p.status \in [Requests -> Where]
  BY <1>3, Fields
<1>10. Append(p.running, r) \in Seq(Requests)
  BY <1>3, <1>9, AppendDict
<1>11. /\ a \in SchedulerState
       /\ a.running = Append(p.running, r) /\ a.status = [p.status EXCEPT ![r] = "running"]
       /\ Untouched(p, a) /\ a.computed = p.computed /\ a.waiting = p.waiting
       /\ a.skipped = p.skipped /\ a.moving = p.moving /\ a.recved = p.recved
  <2>1. p.prefills \cup {r} \in SUBSET Requests /\ p.prefills \in SUBSET Requests
    BY <1>3, Fields
  <2>2. PICK f : f = IF w.s.computed[r] + k < w.s.tokens[r] THEN p.prefills \cup {r} ELSE p.prefills
    OBVIOUS
  <2>3. f \in SUBSET Requests
    BY <2>1, <2>2
  <2>4. a = [p EXCEPT !.running = Append(@, r), !.status[r] = "running", !.prefills = f]
    BY <1>8, <2>2 DEF RunState
  <2> QED
    BY <1>3, <1>10, <2>3, <2>4 DEF SchedulerState, Untouched, Where
<1>12. a.status[r] = "running" /\ \A x \in Requests : x # r => a.status[x] = w.s.status[x]
  <2>1. p.status = w.s.status
    BY <1>3 DEF Beside
  <2> QED
    BY <1>3, <1>9, <1>11, <2>1
<1>13. /\ a.computed = w.s.computed /\ a.tokens = w.s.tokens /\ a.coming = w.s.coming
       /\ a.held = w.s.held /\ a.free = w.s.free /\ a.deferred = w.s.deferred
       /\ a.ahead = w.s.ahead /\ a.last = w.s.last /\ a.moving = w.s.moving /\ a.recved = w.s.recved
       /\ a.running = Append(w.s.running, r)
  BY <1>3, <1>11 DEF Beside, Untouched
<1>14. PICK h, g : h = Grow(s, r, n) /\ g = Grow(a, r, n)
  OBVIOUS
<1>15. /\ Need(s, r, n) <= s.free /\ Need(a, r, n) <= a.free /\ g.held = h.held /\ g.free = h.free
  <2>1. s.held = w.s.held /\ s.free = w.s.free
    BY <1>5 DEF Beside
  <2>2. PICK v : v = w.s
    OBVIOUS
  <2>3. /\ v \in SchedulerState /\ s \in SchedulerState /\ a \in SchedulerState
        /\ s.held = v.held /\ s.free = v.free /\ a.held = v.held /\ a.free = v.free
        /\ a.held = s.held /\ a.free = s.free
    BY <1>1, <1>5, <1>11, <1>13, <2>1, <2>2
  <2>4. Need(s, r, n) = Need(v, r, n) /\ Need(a, r, n) = Need(v, r, n)
    BY <2>3, GrowSame
  <2>5. Grow(a, r, n).held = Grow(s, r, n).held /\ Grow(a, r, n).free = Grow(s, r, n).free
    BY <2>3, GrowSame
  <2>6. Need(v, r, n) <= v.free
    BY <1>6, <2>2
  <2> QED
    BY <1>14, <2>3, <2>4, <2>5, <2>6
<1>16. n \in Nat /\ s \in SchedulerState /\ a \in SchedulerState /\ r \in Requests
  BY <1>3, <1>5, <1>7, <1>11
<1>17. h \in SchedulerState /\ Grown(s, h) /\ n <= on.size * h.held[r]
  BY <1>14, <1>15, <1>16, GrowFields
<1>18. g \in SchedulerState /\ Grown(a, g)
  BY <1>14, <1>15, <1>16, GrowFields
<1>19. s.status[r] = "waiting"
  BY <1>5 DEF Beside
<1>20. Sound(on, h, q, dn, {}, {})
  BY <1>5, <1>14, <1>15, <1>16, <1>19, GrownSound
<1>21. /\ h.status = w.s.status /\ h.computed = w.s.computed /\ h.waiting = w.s.waiting
       /\ h.skipped = w.blocked \o w.s.skipped /\ h.tokens = w.s.tokens
       /\ h.coming = w.s.coming /\ h.deferred = w.s.deferred /\ h.ahead = w.s.ahead
       /\ h.last = w.s.last /\ h.running = w.s.running /\ h.moving = w.s.moving
       /\ h.recved = w.s.recved
  BY <1>5, <1>17 DEF Beside, Grown, Elsewhere
<1>22. /\ g.status = a.status /\ g.computed = w.s.computed /\ g.waiting = p.waiting
       /\ g.skipped = p.skipped /\ g.tokens = w.s.tokens
       /\ g.coming = w.s.coming /\ g.deferred = w.s.deferred /\ g.ahead = w.s.ahead
       /\ g.last = w.s.last /\ g.running = Append(w.s.running, r) /\ g.moving = w.s.moving
       /\ g.recved = w.s.recved
  BY <1>11, <1>13, <1>18 DEF Grown, Elsewhere
<1>23. t = Give(w, a, r, k) /\ a.computed[r] + k = n
  BY <1>2, <1>6, <1>8, <1>13 DEF RunPlan
<1>24. /\ t \in PlanState /\ t.s = g /\ t.preempted = {} /\ t.blocked = w.blocked
  BY <1>1, <1>14, <1>15, <1>16, <1>23, GiveFields
<1>25. Given(on, a, w.batch)
  <2> SUFFICES ASSUME NEW x \in DOMAIN w.batch
               PROVE  /\ a.status[x] = "running"
                      /\ a.computed[x] + w.batch[x] <= on.size * a.held[x]
                      /\ a.computed[x] + w.batch[x] <= a.tokens[x] + a.coming[x]
                      /\ a.computed[x] + w.batch[x] = a.tokens[x] + a.coming[x] =>
                           a.tokens[x] + a.coming[x] < Limit(on, x)
    BY DEF Given
  <2>1. x \in Requests /\ x # r
    BY <1>1 DEF Given
  <2> QED
    BY <1>1, <1>12, <1>13, <2>1 DEF Given
<1>26. s.coming[r] = 0 /\ s.tokens[r] < Limit(on, r)
  <2>1. s.coming[r] = 0
    BY <1>3, <1>5, <1>19, Idle
  <2>2. Progress(on, s, q, {})
    BY <1>5 DEF Sound
  <2>3. s.tokens[r] < Limit(on, r)
    BY <1>3, <1>19, <2>2 DEF Progress, Progressed, Before
  <2> QED
    BY <2>1, <2>3
<1>27. a.coming[r] = 0 /\ a.tokens[r] = w.s.tokens[r] /\ a.tokens[r] < Limit(on, r)
  BY <1>5, <1>13, <1>26 DEF Beside
<1>28. Given(on, t.s, t.batch)
  <2>1. /\ a.computed[r] + k <= a.tokens[r] + a.coming[r]
        /\ a.computed[r] + k = a.tokens[r] + a.coming[r] => a.tokens[r] + a.coming[r] < Limit(on, r)
    BY <1>7, <1>23, <1>27
  <2>2. Need(a, r, a.computed[r] + k) <= a.free /\ k \in Nat
    BY <1>15, <1>23
  <2> QED
    BY <1>1, <1>12, <1>16, <1>23, <1>25, <2>1, <2>2, GiveGiven
<1>29. PICK u : u = Settled(t)
  OBVIOUS
<1>30. /\ u \in SchedulerState /\ Beside(g, u) /\ u.running = g.running /\ u.waiting = g.waiting
       /\ u.skipped = w.blocked \o g.skipped
  BY <1>24, <1>29, SettledFields
<1>31. /\ Untouched(h, u) /\ u.computed = h.computed /\ u.running = Append(h.running, r)
       /\ u.moving = h.moving /\ u.recved = h.recved /\ u.status = a.status
       /\ u.waiting = p.waiting /\ u.skipped = w.blocked \o p.skipped
  BY <1>15, <1>21, <1>22, <1>30 DEF Untouched, Beside
<1>32. \A x \in Requests : x # r => u.status[x] = h.status[x]
  BY <1>12, <1>21, <1>31
<1>33. h.held[r] > 0 /\ h.status[r] = "waiting"
  <2>1. h.held[r] \in Nat /\ on.size \in Nat
    BY <1>3, <1>17, Fields, Deployed
  <2>2. on.size * 0 = 0
    BY <2>1
  <2>3. h.held[r] # 0
    BY <1>7, <1>17, <2>2
  <2> QED
    BY <1>21, <2>1, <2>3
<1>34. \/ /\ h.waiting # <<>> /\ r = Head(h.waiting) /\ u.waiting = Tail(h.waiting)
          /\ u.skipped = h.skipped
       \/ /\ r \in Range(h.skipped) /\ u.waiting = h.waiting
          /\ IsInjective(u.skipped) /\ Range(u.skipped) = Range(h.skipped) \ {r}
  <2>1. w.s.skipped \in Seq(Requests)
    BY <1>1, Fields
  <2>2. CASE /\ w.s.skipped # <<>> /\ r = Head(w.s.skipped) /\ r \in Range(w.s.skipped)
             /\ p.skipped = Tail(w.s.skipped) /\ p.waiting = w.s.waiting
    <3>1. PICK b, c : b = w.blocked /\ c = w.s.skipped
      OBVIOUS
    <3>2. b \in Seq(Requests) /\ c \in Seq(Requests) /\ c # <<>> /\ r = Head(c) /\ r \in Range(c)
      BY <1>1, <2>1, <2>2, <3>1
    <3>3. h.skipped = b \o c /\ u.skipped = b \o Tail(c)
      BY <1>21, <1>31, <2>2, <3>1
    <3>4. IsInjective(b \o c)
      BY <1>20, <3>3 DEF Sound, Lines
    <3>5. IsInjective(b \o Tail(c)) /\ Range(b \o Tail(c)) = Range(b \o c) \ {Head(c)}
      BY <3>2, <3>4, DropMiddle
    <3>6. Range(b \o c) = Range(b) \cup Range(c)
      BY <3>2, ConcatDict
    <3> QED
      BY <1>21, <1>31, <2>2, <3>2, <3>3, <3>5, <3>6
  <2>3. CASE /\ w.s.skipped = <<>> /\ w.s.waiting # <<>> /\ r = Head(w.s.waiting)
             /\ p.skipped = <<>> /\ p.waiting = Tail(w.s.waiting)
    BY <1>21, <1>31, <2>3
  <2> QED
    BY <1>1, <1>2, <2>2, <2>3, PoppedFields
<1>35. u.status[r] = "running"
  BY <1>12, <1>31
<1>36. Sound(on, u, q, dn, {}, {})
  <2>1. /\ u \in SchedulerState /\ Untouched(h, u) /\ u.computed = h.computed
        /\ u.running = Append(h.running, r) /\ u.moving = h.moving /\ u.recved = h.recved
    BY <1>30, <1>31
  <2> QED
    BY <1>3, <1>20, <1>32, <1>33, <1>34, <1>35, <2>1, JoinedSound
<1> QED
  BY <1>24, <1>28, <1>29, <1>36 DEF Admitting

-----------------------------------------------------------------------------
(* The whole batch. *)

LEMMA PlanOver ==
  ASSUME NEW w \in PlanState, NEW y, NEW v, v = [w EXCEPT !.s = y], NEW x, NEW r
  PROVE  [w EXCEPT !.s = x, !.blocked = Append(@, r)] = [v EXCEPT !.s = x, !.blocked = Append(@, r)]
  BY DEF PlanState

LEMMA GiveOver ==
  ASSUME NEW w \in PlanState, NEW y, NEW v, v = [w EXCEPT !.s = y], NEW x, NEW r, NEW k
  PROVE  Give(w, x, r, k) = Give(v, x, r, k)
<1>1. v.batch = w.batch /\ v.budget = w.budget /\ v.blocked = w.blocked /\ v.preempted = w.preempted
  BY DEF PlanState
<1>3. ASSUME NEW a, NEW b, NEW c
      PROVE  [w EXCEPT !.s = a, !.budget = b, !.batch = c] = [v EXCEPT !.s = a, !.budget = b, !.batch = c]
  BY DEF PlanState
<1>4. PICK a, b, c : /\ a = Grow(x, r, x.computed[r] + k) /\ b = w.budget - k
                     /\ c = [q \in DOMAIN w.batch \cup {r} |-> IF q = r THEN k ELSE w.batch[q]]
  OBVIOUS
<1>5. Give(w, x, r, k) = [w EXCEPT !.s = a, !.budget = b, !.batch = c]
  BY <1>4 DEF Give
<1>6. Give(v, x, r, k) = [v EXCEPT !.s = a, !.budget = b, !.batch = c]
  BY <1>1, <1>4 DEF Give
<1> QED
  BY <1>3, <1>5, <1>6

LEMMA AdmitStep ==
  ASSUME on \in Deployments, NEW q, NEW dn, NEW w, Admitting(w, q, dn), NEW i
  PROVE  Admitting(AdmitOne(w, i), q, dn)
<1> DEFINE line == w.s.skipped \o w.s.waiting
           r == Head(line)
           s == Promote(w.s, r)
           rest == Popped(s)
           load == r \in Remote \ s.pulled
           k == Min({s.tokens[r] - s.computed[r], w.budget})
           Ends == line = <<>> \/ w.budget = 0 \/ Len(w.s.running) >= MaxSeqs
           Load == load /\ Fits(s, r, s.tokens[r], Reserved(s))
           Run == ~load /\ Fits(s, r, s.computed[r] + k, 0)
           v == [w EXCEPT !.s = s]
<1>1. /\ w \in PlanState /\ w.s \in SchedulerState /\ w.budget \in Nat
      /\ w.blocked \in Seq(Requests) /\ Sound(on, Settled(w), q, dn, {}, {})
  BY AdmittingFields
<1>2. CASE Ends
  BY <1>2 DEF AdmitOne
<1>3. CASE ~ Ends
  <2>1. First(w.s, r)
    BY <1>3 DEF First
  <2>2. PICK x : x = r
    OBVIOUS
  <2>3. x \in Requests /\ (x \in Range(w.s.skipped) \/ x \in Range(w.s.waiting))
    <3> HIDE DEF r
    <3> QED
      BY <1>1, <2>1, <2>2, PoppedFields
  <2>4. w.s.status[x] \in {"waiting", "remote"}
    <3>1. PICK u : u = Settled(w)
      OBVIOUS
    <3>2. /\ Beside(w.s, u) /\ u.waiting = w.s.waiting /\ u.skipped = w.blocked \o w.s.skipped
          /\ Lines(on, u)
      BY <1>1, <3>1, SettledFields DEF Sound
    <3>3. w.s.skipped \in Seq(Requests)
      BY <1>1, Fields
    <3>4. PICK b, c : b = w.blocked /\ c = w.s.skipped
      OBVIOUS
    <3>5. Range(b \o c) = Range(b) \cup Range(c)
      BY <1>1, <3>3, <3>4, ConcatDict
    <3>6. x \in Range(u.skipped) \/ x \in Range(u.waiting)
      BY <2>3, <3>2, <3>4, <3>5
    <3>7. x \in In(u, "waiting") \cup In(u, "remote")
      BY <3>2, <3>6 DEF Lines
    <3> QED
      BY <3>2, <3>7 DEF In, Beside
  <2>5. PICK z : z = v
    OBVIOUS
  <2>6. /\ Admitting(z, q, dn) /\ z.s = s /\ z.budget = w.budget
        /\ z.s.skipped = w.s.skipped /\ z.s.waiting = w.s.waiting
        /\ z.s.status[x] \in {"waiting", "remote"}
    <3>1. z = [w EXCEPT !.s = Promote(w.s, x)] /\ s = Promote(w.s, x)
      BY <2>2, <2>5
    <3> HIDE DEF s
    <3> QED
      BY <2>3, <2>4, <3>1, PromoteStep
  <2>7. First(z.s, x)
    BY <2>1, <2>2, <2>6 DEF First
  <2>8. CASE s.status[r] = "remote"
    <3>1. AdmitOne(w, i) = [w EXCEPT !.s = rest, !.blocked = Append(@, r)]
      BY <1>3, <2>8 DEF AdmitOne
    <3>2. PICK p : p = Popped(z.s)
      OBVIOUS
    <3>3. AdmitOne(w, i) = [w EXCEPT !.s = p, !.blocked = Append(@, x)]
      BY <2>2, <2>6, <3>1, <3>2
    <3>4. z.s.status[x] = "remote"
      BY <2>2, <2>6, <2>8
    <3>5. z = [w EXCEPT !.s = z.s]
      BY <2>5, <2>6
    <3> HIDE DEF v, rest, s, r, line
    <3>6. AdmitOne(w, i) = [z EXCEPT !.s = p, !.blocked = Append(@, x)]
      BY <1>1, <3>3, <3>5, PlanOver
    <3> QED
      BY <2>6, <2>7, <3>2, <3>4, <3>6, SkipStep
  <2>9. CASE s.status[r] # "remote" /\ Load
    <3>1. AdmitOne(w, i) = [w EXCEPT !.s = LoadState(Grow(rest, r, s.tokens[r]), r, s.tokens[r]),
                                     !.blocked = Append(@, r)]
      BY <1>3, <2>9 DEF AdmitOne, LoadState
    <3>2. PICK p : p = LoadState(Grow(Popped(z.s), x, z.s.tokens[x]), x, z.s.tokens[x])
      OBVIOUS
    <3>3. AdmitOne(w, i) = [w EXCEPT !.s = p, !.blocked = Append(@, x)]
      BY <2>2, <2>6, <3>1, <3>2
    <3>4. z.s.status[x] = "waiting" /\ x \in on.remote /\ Fits(z.s, x, z.s.tokens[x], Reserved(z.s))
      BY <2>2, <2>6, <2>9 DEF Remote
    <3>5. z = [w EXCEPT !.s = z.s]
      BY <2>5, <2>6
    <3> HIDE DEF v, rest, s, r, line
    <3>6. AdmitOne(w, i) = [z EXCEPT !.s = p, !.blocked = Append(@, x)]
      BY <1>1, <3>3, <3>5, PlanOver
    <3>7. AdmitOne(w, i) = LoadPlan(z, x)
      BY <3>2, <3>6 DEF LoadPlan
    <3>8. Need(z.s, x, z.s.tokens[x]) <= z.s.free
      <4>1. z.s \in SchedulerState
        BY <2>6, AdmittingFields
      <4>2. z.s.free \in Nat /\ z.s.held[x] \in Nat /\ z.s.tokens[x] \in Nat
        BY <2>3, <4>1, Fields
      <4>3. Need(z.s, x, z.s.tokens[x]) \in Nat /\ Mark(z.s) \in Nat
        BY <4>2, NeedFacts, Deployed DEF Mark, Watermark
      <4>4. Need(z.s, x, z.s.tokens[x]) + Mark(z.s) <= z.s.free
        BY <3>4 DEF Fits
      <4> QED
        BY <4>2, <4>3, <4>4
    <3> QED
      BY <2>6, <2>7, <3>4, <3>7, <3>8, LoadStep
  <2>10. CASE s.status[r] # "remote" /\ Run
    <3>1. AdmitOne(w, i) = Give(w, RunState(rest, s, r, k), r, k)
      BY <1>3, <2>10 DEF AdmitOne, RunState
    <3>2. PICK p, m : /\ m = Min({z.s.tokens[x] - z.s.computed[x], z.budget})
                      /\ p = RunState(Popped(z.s), z.s, x, m)
      OBVIOUS
    <3>9. m = k
      BY <2>2, <2>6, <3>2
    <3>3. AdmitOne(w, i) = Give(w, p, x, m)
      <4>1. p = RunState(rest, s, r, k)
        BY <2>2, <2>6, <3>2, <3>9
      <4> QED
        BY <2>2, <3>1, <3>9, <4>1
    <3>4. z.s.status[x] = "waiting" /\ Fits(z.s, x, z.s.computed[x] + m, 0)
      BY <2>2, <2>6, <2>10, <3>9
    <3>5. z = [w EXCEPT !.s = z.s] /\ w.budget # 0
      BY <1>3, <2>5, <2>6
    <3> HIDE DEF v, rest, s, r, line, k
    <3>6. AdmitOne(w, i) = Give(z, p, x, m)
      <4>1. w \in PlanState /\ z = [w EXCEPT !.s = z.s]
        BY <1>1, <3>5
      <4>2. PICK y : y = z.s
        OBVIOUS
      <4>3. z = [w EXCEPT !.s = y]
        BY <4>1, <4>2
      <4>4. Give(w, p, x, m) = Give(z, p, x, m)
        BY <4>1, <4>3, GiveOver
      <4> QED
        BY <3>3, <4>4
    <3>7. AdmitOne(w, i) = RunPlan(z, x, m)
      BY <3>2, <3>6 DEF RunPlan
    <3>8. z.s \in SchedulerState
      BY <2>6, AdmittingFields
    <3>10. /\ z.s.free \in Nat /\ z.s.held[x] \in Nat /\ z.s.tokens[x] \in Nat
           /\ z.s.computed[x] \in Nat
      BY <2>3, <3>8, Fields
    <3>11. z.s.computed[x] < z.s.tokens[x]
      <4>1. PICK u : u = Settled(z)
        OBVIOUS
      <4>2. Beside(z.s, u) /\ Progress(on, u, q, {})
        <5>1. z \in PlanState /\ Sound(on, u, q, dn, {}, {})
          BY <2>6, <4>1, AdmittingFields
        <5> QED
          BY <4>1, <5>1, SettledFields DEF Sound
      <4>3. u.status[x] = "waiting"
        BY <3>4, <4>2 DEF Beside
      <4>4. u.computed[x] < u.tokens[x]
        BY <2>3, <4>2, <4>3 DEF Progress, Progressed, Before
      <4> QED
        BY <4>2, <4>4 DEF Beside
    <3>12. m \in Nat \ {0} /\ m <= z.budget /\ z.s.computed[x] + m <= z.s.tokens[x]
      <4>1. PICK a, b : a = z.s.tokens[x] - z.s.computed[x] /\ b = z.budget
        OBVIOUS
      <4>2. a \in Nat \ {0} /\ b \in Nat \ {0} /\ z.s.computed[x] + a = z.s.tokens[x]
        BY <1>1, <2>6, <3>5, <3>10, <3>11, <4>1
      <4>3. m = IF a <= b THEN a ELSE b
        BY <3>2, <4>1, <4>2, MinTwo
      <4> QED
        BY <3>10, <4>1, <4>2, <4>3
    <3>13. Need(z.s, x, z.s.computed[x] + m) <= z.s.free
      <4>1. PICK n : n = z.s.computed[x] + m
        OBVIOUS
      <4>2. n \in Nat
        BY <3>10, <3>12, <4>1
      <4>3. Need(z.s, x, n) \in Nat /\ Mark(z.s) \in Nat
        BY <3>10, <4>2, NeedFacts, Deployed DEF Mark, Watermark
      <4>4. Need(z.s, x, n) + Mark(z.s) <= z.s.free - 0
        BY <3>4, <4>1 DEF Fits
      <4> QED
        BY <3>10, <4>1, <4>3, <4>4
    <3> QED
      BY <2>6, <2>7, <3>4, <3>7, <3>12, <3>13, RunStep
  <2>11. CASE s.status[r] # "remote" /\ ~Load /\ ~Run
    <3>1. AdmitOne(w, i) = v
      BY <1>3, <2>11 DEF AdmitOne
    <3> QED
      BY <2>5, <2>6, <3>1
  <2> HIDE DEF Load, Run, s, r
  <2> QED
    BY <2>8, <2>9, <2>10, <2>11
<1> HIDE DEF Ends
<1> QED
  BY <1>2, <1>3

-----------------------------------------------------------------------------
(* schedule() plans a batch that keeps the invariant. *)

LEMMA AdmitSound ==
  ASSUME on \in Deployments, NEW q, NEW dn, NEW w, Admitting(w, q, dn), NEW t, t = Admit(w)
  PROVE  Planned(t, q, dn) /\ Given(on, t.s, t.batch)
<1> DEFINE n == Len(w.s.skipped) + Len(w.s.waiting)
           Good == {p \in Int \X PlanState : Admitting(p[2], q, dn)}
<1>1. w \in PlanState /\ w.s \in SchedulerState
  BY AdmittingFields
<1>2. n \in Nat
  <2>1. w.s.skipped \in Seq(Requests) /\ w.s.waiting \in Seq(Requests)
    BY <1>1, Fields
  <2>2. PICK a, b : a = Len(w.s.skipped) /\ b = Len(w.s.waiting)
    OBVIOUS
  <2>3. a \in Nat /\ b \in Nat
    BY <2>1, <2>2, LenProperties
  <2>4. a + b \in Nat
    BY <2>3
  <2> QED
    BY <2>2, <2>4, Zenon
<1>3. <<0, w>> \in Good
  BY <1>1
<1>4. ASSUME NEW i \in 1 .. n, NEW u, <<i - 1, u>> \in Good
      PROVE  <<i, AdmitOne(u, i)>> \in Good
  <2>1. Admitting(u, q, dn) /\ i \in Int
    BY <1>2, <1>4
  <2>2. Admitting(AdmitOne(u, i), q, dn)
    BY <2>1, AdmitStep
  <2>3. AdmitOne(u, i) \in PlanState
    BY <2>2, AdmittingFields
  <2> QED
    BY <2>1, <2>2, <2>3
<1> HIDE DEF Good, n
<1>5. PICK u : u = Loop(AdmitOne, w, n)
  OBVIOUS
<1>6. <<n, u>> \in Good
  BY <1>2, <1>3, <1>4, <1>5, AdmitLoop
<1>7. Admitting(u, q, dn)
  BY <1>6 DEF Good
<1>8. /\ u \in PlanState /\ u.preempted = {}
      /\ Sound(on, Settled(u), q, dn, {}, {}) /\ Given(on, u.s, u.batch)
  BY <1>7, AdmittingFields
<1>9. t = [u EXCEPT !.s = Settled(u)]
  <2>1. t = [u EXCEPT !.s.skipped = u.blocked \o @]
    BY <1>5 DEF Admit, n
  <2> QED
    BY <1>8, <2>1 DEF Settled, PlanState
<1>10. PICK s : s = Settled(u)
  OBVIOUS
<1>11. s \in SchedulerState /\ Beside(u.s, s)
  BY <1>8, <1>10, SettledFields
<1>12. t \in PlanState /\ t.s = s /\ t.batch = u.batch /\ t.preempted = {}
  BY <1>8, <1>9, <1>10, <1>11 DEF PlanState
<1>13. Given(on, s, u.batch)
  BY <1>8, <1>11 DEF Given, Beside
<1> QED
  BY <1>8, <1>10, <1>12, <1>13 DEF Planned

LEMMA ScheduledSound ==
  ASSUME on \in Deployments, Sound(on, e, queue, done, {}, {}), Len(queue) <= 1,
         NEW w, w = Scheduled
  PROVE  Planned(w, queue, done) /\ Given(on, w.s, w.batch)
<1> DEFINE b == Begun
<1>1. /\ b.s = e /\ b.batch = <<>> /\ b.preempted = {} /\ b.blocked = <<>>
      /\ b \in PlanState
  <2>1. /\ e \in SchedulerState
    BY DEF Sound
  <2>2. MaxBatched \in Nat
    BY Deployed DEF MaxBatched
  <2>3. <<>> \in Plans
    <3>1. <<>> \in [{} -> Nat]
      BY EmptySeq
    <3> QED
      BY <3>1 DEF Plans
  <2>4. <<>> \in Seq(Requests)
    OBVIOUS
  <2> QED
    BY <2>1, <2>2, <2>3, <2>4 DEF Begun, PlanState
<1>2. Continued(b, queue, done, 0)
  <2>1. DOMAIN b.batch = {}
    BY <1>1
  <2>2. Given(on, b.s, b.batch)
    BY <2>1 DEF Given
  <2>3. Planned(b, queue, done)
    BY <1>1 DEF Planned
  <2> HIDE DEF b
  <2> QED
    BY <1>1, <2>1, <2>2, <2>3 DEF Continued
<1> HIDE DEF b
<1>3. PICK c : c = Continue(b)
  OBVIOUS
<1>4. Continued(c, queue, done, Len(b.s.running))
  BY <1>2, <1>3, ContinueSound
<1>5. /\ Planned(c, queue, done) /\ Given(on, c.s, c.batch) /\ c.blocked = <<>>
  BY <1>4 DEF Continued
<1>6. w = IF c.preempted = {} THEN Admit(c) ELSE c
  BY <1>3 DEF Scheduled, b
<1>7. CASE c.preempted = {}
  <2>1. c \in PlanState /\ Sound(on, c.s, queue, done, {}, {}) /\ c.s \in SchedulerState
    BY <1>5, <1>7, PlanFields DEF Planned
  <2>2. PICK u : u = Settled(c)
    OBVIOUS
  <2>3. /\ u \in SchedulerState /\ Beside(c.s, u) /\ u.running = c.s.running
        /\ u.waiting = c.s.waiting /\ u.skipped = <<>> \o c.s.skipped
    BY <1>5, <2>1, <2>2, SettledFields
  <2>4. u.skipped = c.s.skipped
    <3>1. c.s.skipped \in Seq(Requests)
      BY <2>1, Fields
    <3> QED
      BY <2>3, <3>1, ConcatProperties
  <2>5. u = c.s
    <3>1. PICK x : x = c.s
      OBVIOUS
    <3>2. /\ x \in SchedulerState /\ u \in SchedulerState /\ Elsewhere(x, u) /\ u.held = x.held
          /\ u.free = x.free /\ u.deferred = x.deferred
      BY <2>1, <2>3, <2>4, <3>1 DEF Elsewhere, Beside
    <3>3. u = x
      BY <3>2, SameState
    <3> QED
      BY <3>1, <3>3
  <2>6. Admitting(c, queue, done)
    BY <1>5, <1>7, <2>1, <2>2, <2>5 DEF Admitting
  <2>7. w = Admit(c)
    BY <1>6, <1>7
  <2> QED
    BY <2>6, <2>7, AdmitSound
<1>8. CASE c.preempted # {}
  BY <1>5, <1>6, <1>8
<1> QED
  BY <1>7, <1>8

-----------------------------------------------------------------------------
(* The batch is taken into the queue. *)

LEMMA AfterFields ==
  ASSUME on \in Deployments, NEW w \in PlanState, NEW t, t = AfterSchedule(w)
  PROVE  /\ t \in SchedulerState
         /\ t.status = w.s.status /\ t.running = w.s.running /\ t.waiting = w.s.waiting
         /\ t.skipped = w.s.skipped /\ t.tokens = w.s.tokens /\ t.held = w.s.held
         /\ t.free = w.s.free /\ t.deferred = w.s.deferred /\ t.moving = w.s.moving
         /\ t.recved = w.s.recved
         /\ t.ahead = IF Defer /\ DOMAIN w.batch # {} THEN w.s.ahead + 1 ELSE w.s.ahead
         /\ \A r \in Requests :
              /\ t.computed[r] = IF r \in DOMAIN w.batch THEN w.s.computed[r] + w.batch[r]
                                 ELSE w.s.computed[r]
              /\ t.last[r] = IF Defer /\ r \in DOMAIN w.batch THEN t.ahead ELSE w.s.last[r]
              /\ t.coming[r] = IF Async /\ r \in Sampled(w) THEN w.s.coming[r] + 1 ELSE w.s.coming[r]
<1> DEFINE s == w.s
           ids == DOMAIN w.batch
<1>1. PICK n : n = IF Defer /\ ids # {} THEN s.ahead + 1 ELSE s.ahead
  OBVIOUS
<1>2. PICK P : P = s.prefills \ Sampled(w)
  OBVIOUS
<1>3. PICK c : c = [r \in Requests |-> IF r \in ids THEN Cursor(w, r) ELSE s.computed[r]]
  OBVIOUS
<1>4. PICK l : l = [r \in Requests |-> IF Defer /\ r \in ids THEN n ELSE s.last[r]]
  OBVIOUS
<1>5. PICK m : m = [r \in Requests |-> IF Async /\ r \in Sampled(w) THEN s.coming[r] + 1 ELSE s.coming[r]]
  OBVIOUS
<1>6. t = [s EXCEPT !.ahead = n, !.prefills = P, !.computed = c, !.last = l, !.coming = m]
  BY <1>1, <1>2, <1>3, <1>4, <1>5 DEF AfterSchedule
<1>7. s \in SchedulerState /\ \A x \in ids : w.batch[x] \in Nat
  BY PlanFields
<1>8. /\ s.computed \in [Requests -> Nat] /\ s.coming \in [Requests -> Nat]
      /\ s.last \in [Requests -> Nat] /\ s.ahead \in Nat /\ s.prefills \subseteq Requests
  BY <1>7, Fields
<1>9. n \in Nat /\ P \in SUBSET Requests
  BY <1>1, <1>2, <1>8
<1>10. c \in [Requests -> Nat]
  <2>1. ASSUME NEW r \in Requests PROVE (IF r \in ids THEN Cursor(w, r) ELSE s.computed[r]) \in Nat
    BY <1>7, <1>8 DEF Cursor
  <2> QED
    BY <1>3, <2>1
<1>11. l \in [Requests -> Nat] /\ m \in [Requests -> Nat]
  BY <1>4, <1>5, <1>8, <1>9
<1>12. t \in SchedulerState
  BY <1>6, <1>7, <1>9, <1>10, <1>11, ZenonT(60) DEF SchedulerState, Counts
<1>13. /\ t.status = s.status /\ t.running = s.running /\ t.waiting = s.waiting
       /\ t.skipped = s.skipped /\ t.tokens = s.tokens /\ t.held = s.held
       /\ t.free = s.free /\ t.deferred = s.deferred /\ t.moving = s.moving
       /\ t.recved = s.recved /\ t.ahead = n /\ t.computed = c /\ t.last = l /\ t.coming = m
  BY <1>6, <1>7 DEF SchedulerState
<1>14. ASSUME NEW r \in Requests
       PROVE  /\ c[r] = IF r \in DOMAIN w.batch THEN w.s.computed[r] + w.batch[r] ELSE w.s.computed[r]
              /\ l[r] = IF Defer /\ r \in DOMAIN w.batch THEN n ELSE w.s.last[r]
              /\ m[r] = IF Async /\ r \in Sampled(w) THEN w.s.coming[r] + 1 ELSE w.s.coming[r]
  BY <1>3, <1>4, <1>5 DEF Cursor
<1> QED
  BY <1>1, <1>12, <1>13, <1>14

(* With two batches in flight, who is in the older one may be preempted. *)
Late(q) == IF Len(q) = 2 THEN Requests ELSE {}

LEMMA TakeSound ==
  ASSUME on \in Deployments, NEW q, NEW dn, NEW w, Planned(w, q, dn), Given(on, w.s, w.batch),
         Len(q) < on.depth, NEW t, t = AfterSchedule(w),
         NEW b, b = [r \in DOMAIN w.batch |-> r \in Sampled(w)], NEW p, p = Append(q, b)
  PROVE  Sound(on, t, p, dn, {}, Late(p))
<1>1. /\ w \in PlanState /\ w.s \in SchedulerState /\ w.preempted \subseteq Requests
      /\ DOMAIN w.batch \subseteq Requests /\ \A x \in DOMAIN w.batch : w.batch[x] \in Nat
      /\ Sound(on, w.s, q, dn, {}, w.preempted)
  BY PlanFields DEF Planned
<1>2. PICK s : s = w.s
  OBVIOUS
<1>3. /\ Lines(on, s) /\ Ordered(on, s) /\ Books(on, s) /\ Moves(s, dn)
      /\ Progress(on, s, q, {}) /\ Flight(on, s, q, w.preempted) /\ Fences(on, s, q)
      /\ s \in SchedulerState /\ Given(on, s, w.batch)
  BY <1>1, <1>2 DEF Sound
<1>4. /\ t \in SchedulerState
      /\ t.status = s.status /\ t.running = s.running /\ t.waiting = s.waiting
      /\ t.skipped = s.skipped /\ t.tokens = s.tokens /\ t.held = s.held
      /\ t.free = s.free /\ t.deferred = s.deferred /\ t.moving = s.moving
      /\ t.recved = s.recved
      /\ t.ahead = IF Defer /\ DOMAIN w.batch # {} THEN s.ahead + 1 ELSE s.ahead
  BY <1>1, <1>2, AfterFields
<1>5. ASSUME NEW r \in Requests
      PROVE  /\ t.computed[r] = IF r \in DOMAIN w.batch THEN s.computed[r] + w.batch[r] ELSE s.computed[r]
             /\ t.last[r] = IF Defer /\ r \in DOMAIN w.batch THEN t.ahead ELSE s.last[r]
             /\ t.coming[r] = IF Async /\ r \in Sampled(w) THEN s.coming[r] + 1 ELSE s.coming[r]
  BY <1>1, <1>2, AfterFields
<1>6. /\ q \in Seq(Batches) /\ Len(q) \in Nat /\ on.depth \in {1, 2}
  BY <1>3, LenProperties, Deployed DEF Flight
<1>7. b \in Batches /\ DOMAIN b = DOMAIN w.batch
  <2>1. b \in [DOMAIN w.batch -> BOOLEAN] /\ DOMAIN w.batch \in SUBSET Requests
    BY <1>1
  <2> QED
    BY <2>1 DEF Batches
<1>8. /\ p \in Seq(Batches) /\ Len(p) = Len(q) + 1 /\ p[Len(q) + 1] = b
      /\ \A i \in 1 .. Len(q) : p[i] = q[i]
  BY <1>6, <1>7, AppendProperties
<1>9. Lines(on, t) /\ Ordered(on, t) /\ Moves(t, dn)
  BY <1>3, <1>4 DEF Lines, Ordered, Moves, In
<1>10. Books(on, t)
  <2>1. Owned(t) = Owned(s)
    BY <1>4, OwnedFrame
  <2> QED
    BY <1>3, <1>4, <2>1 DEF Books
<1>11. ASSUME NEW r \in Requests, s.status[r] \in Before
       PROVE  Progressed(on, t, r) /\ t.coming[r] = Coming(on, p, {}, r)
  <2>1. Progressed(on, s, r) /\ s.coming[r] = Coming(on, q, {}, r)
    BY <1>3, <1>11 DEF Progress
  <2>2. /\ s.computed[r] \in Nat /\ s.tokens[r] \in Nat /\ s.coming[r] \in Nat /\ s.held[r] \in Nat
        /\ Limit(on, r) \in Nat
    <3>1. /\ s.computed[r] \in Nat /\ s.tokens[r] \in Nat /\ s.coming[r] \in Nat
          /\ s.held[r] \in Nat
      BY <1>3, Fields
    <3>2. on.prompt[r] \in Nat /\ on.max[r] \in Nat
      BY Deployed
    <3> QED
      BY <3>1, <3>2 DEF Limit
  <2>3. Count(q, r) \in Nat /\ Count(p, r) = Count(q, r) + IF r \in DOMAIN b /\ b[r] THEN 1 ELSE 0
    BY <1>6, <1>7, CountAppend, CountFacts
  <2>4. r \in Sampled(w) <=> r \in DOMAIN b /\ b[r]
    BY <1>7 DEF Sampled
  <2>5. t.coming[r] = Coming(on, p, {}, r)
    <3>1. CASE on.depth > 1
      BY <1>5, <2>1, <2>3, <2>4, <3>1 DEF Coming, Async, Depth
    <3>2. CASE ~ (on.depth > 1)
      BY <1>5, <2>1, <3>2 DEF Coming, Async, Depth
    <3> QED
      BY <3>1, <3>2
  <2>6. r \in Sampled(w) => r \in DOMAIN w.batch /\ s.computed[r] + w.batch[r] >= s.tokens[r] + s.coming[r]
    BY <1>2 DEF Sampled, Cursor
  <2>7. Progressed(on, t, r)
    <3>1. CASE r \notin DOMAIN w.batch
      BY <1>4, <1>5, <2>1, <2>6, <3>1 DEF Progressed
    <3>2. CASE r \in DOMAIN w.batch
      <4>1. /\ s.status[r] = "running"
            /\ s.computed[r] + w.batch[r] <= on.size * s.held[r]
            /\ s.computed[r] + w.batch[r] <= s.tokens[r] + s.coming[r]
            /\ s.computed[r] + w.batch[r] = s.tokens[r] + s.coming[r] =>
                 s.tokens[r] + s.coming[r] < Limit(on, r)
            /\ w.batch[r] \in Nat
        BY <1>1, <1>3, <3>2 DEF Given
      <4>2. t.computed[r] = s.computed[r] + w.batch[r]
        BY <1>5, <3>2
      <4>3. CASE Async /\ r \in Sampled(w)
        <5>1. t.coming[r] = s.coming[r] + 1
          BY <1>5, <4>3
        <5>2. t.computed[r] = s.tokens[r] + s.coming[r] /\ s.tokens[r] + s.coming[r] < Limit(on, r)
          <6>1. s.computed[r] + w.batch[r] >= s.tokens[r] + s.coming[r]
            BY <2>6, <4>3
          <6>2. s.computed[r] + w.batch[r] \in Int /\ s.tokens[r] + s.coming[r] \in Int
            BY <2>2, <4>1
          <6>3. s.computed[r] + w.batch[r] <= s.tokens[r] + s.coming[r]
            BY <4>1
          <6>4. s.computed[r] + w.batch[r] = s.tokens[r] + s.coming[r]
            BY <6>1, <6>2, <6>3
          <6> QED
            BY <4>1, <4>2, <6>4
        <5> QED
          BY <1>4, <2>1, <2>2, <4>1, <4>2, <5>1, <5>2 DEF Progressed
      <4>4. CASE ~ (Async /\ r \in Sampled(w))
        <5>1. t.coming[r] = s.coming[r]
          BY <1>5, <4>4
        <5> QED
          BY <1>4, <2>1, <2>2, <4>1, <4>2, <5>1, SMTT(60) DEF Progressed
      <4> QED
        BY <4>3, <4>4
    <3> QED
      BY <3>1, <3>2
  <2> QED
    BY <2>5, <2>7
<1>12. Progress(on, t, p, {})
  BY <1>4, <1>11 DEF Progress
<1>13. Flight(on, t, p, Late(p))
  <2>1. Len(p) <= on.depth
    BY <1>6, <1>8
  <2>2. ASSUME NEW i \in 1 .. Len(p), NEW x \in DOMAIN p[i]
        PROVE  \/ t.status[x] \in {"running", "held", "gone"}
               \/ t.status[x] = "waiting" /\ i = 1 /\ x \in Late(p)
    <3>1. CASE i \in 1 .. Len(q)
      <4>1. /\ x \in DOMAIN q[i]
            /\ \/ s.status[x] \in {"running", "held", "gone"}
               \/ s.status[x] = "waiting" /\ i = 1 /\ x \in w.preempted
        BY <1>3, <1>8, <3>1 DEF Flight
      <4>2. Len(p) = 2
        BY <1>6, <1>8, <3>1
      <4> QED
        BY <1>1, <1>4, <4>1, <4>2 DEF Late
    <3>2. CASE i = Len(q) + 1
      <4>1. x \in DOMAIN w.batch
        BY <1>7, <1>8, <3>2
      <4> QED
        BY <1>3, <1>4, <4>1 DEF Given
    <3> QED
      BY <1>6, <1>8, <3>1, <3>2
  <2> QED
    BY <1>8, <2>1, <2>2 DEF Flight
<1>14. Fences(on, t, p)
  <2> SUFFICES ASSUME on.depth > 1 /\ on.remote # {}
               PROVE  /\ t.ahead = StepsTo(p, Len(p))
                      /\ \A k \in 1 .. Len(t.deferred) : t.deferred[k].fence <= t.ahead
                      /\ \A i \in 1 .. Len(p) : \A x \in DOMAIN p[i] :
                           /\ t.last[x] >= StepsTo(p, i)
                           /\ (t.held[x] > 0 <=> ~ Fenced(t, x, StepsTo(p, i)))
    BY DEF Fences
  <2>1. Defer
    BY DEF Defer, Async, Depth, Consumer, Remote
  <2>2. /\ s.ahead = StepsTo(q, Len(q))
        /\ \A k \in 1 .. Len(s.deferred) : s.deferred[k].fence <= s.ahead
        /\ \A i \in 1 .. Len(q) : \A x \in DOMAIN q[i] :
             s.last[x] >= StepsTo(q, i) /\ (s.held[x] > 0 <=> ~ Fenced(s, x, StepsTo(q, i)))
    BY <1>3 DEF Fences
  <2>3. /\ \A i \in 0 .. Len(q) : StepsTo(p, i) = StepsTo(q, i)
        /\ StepsTo(p, Len(q) + 1) = StepsTo(q, Len(q)) + IF DOMAIN b # {} THEN 1 ELSE 0
    BY <1>6, <1>7, StepsAppend
  <2>4. s.ahead \in Nat /\ t.ahead \in Nat /\ s.ahead <= t.ahead /\ t.ahead = StepsTo(p, Len(p))
    <3>1. s.ahead \in Nat /\ t.ahead \in Nat
      BY <1>3, <1>4, Fields
    <3> QED
      BY <1>4, <1>7, <1>8, <2>1, <2>2, <2>3, <3>1
  <2>5. ASSUME NEW k \in 1 .. Len(t.deferred) PROVE t.deferred[k].fence <= s.ahead /\ t.deferred[k].fence \in Int
    BY <1>3, <1>4, <2>2, Fields, DeferredFacts
  <2>6. ASSUME NEW i \in 1 .. Len(p), NEW x \in DOMAIN p[i]
        PROVE  t.last[x] >= StepsTo(p, i) /\ (t.held[x] > 0 <=> ~ Fenced(t, x, StepsTo(p, i)))
    <3>0. x \in Requests
      BY <1>8, FlightRequests
    <3>1. CASE i \in 1 .. Len(q)
      <4>1. x \in DOMAIN q[i] /\ StepsTo(p, i) = StepsTo(q, i)
        BY <1>8, <2>3, <3>1
      <4>2. s.last[x] >= StepsTo(q, i) /\ (s.held[x] > 0 <=> ~ Fenced(s, x, StepsTo(q, i)))
        BY <2>2, <3>1, <4>1
      <4>3. t.last[x] >= StepsTo(q, i)
        <5>1. StepsTo(q, i) <= s.ahead /\ StepsTo(q, i) \in Nat
          BY <1>6, <2>2, <3>1, StepsFacts
        <5> QED
          BY <1>5, <2>4, <3>0, <4>2, <5>1
      <4>4. Fenced(t, x, StepsTo(q, i)) <=> Fenced(s, x, StepsTo(q, i))
        BY <1>4 DEF Fenced
      <4> QED
        BY <1>4, <4>1, <4>2, <4>3, <4>4
    <3>2. CASE i = Len(q) + 1
      <4>1. x \in DOMAIN w.batch
        BY <1>7, <1>8, <3>2
      <4>2. t.ahead = s.ahead + 1 /\ StepsTo(p, i) = t.ahead
        BY <1>4, <1>8, <2>1, <2>4, <3>2, <4>1
      <4>3. t.last[x] = t.ahead
        BY <1>5, <2>1, <3>0, <4>1
      <4>4. t.held[x] > 0
        BY <1>3, <1>4, <3>0, <4>1 DEF Given, Books
      <4>5. ~ Fenced(t, x, StepsTo(p, i))
        BY <2>4, <2>5, <4>2, SMTT(60) DEF Fenced
      <4> QED
        BY <2>4, <4>2, <4>3, <4>4, <4>5
    <3> QED
      BY <1>6, <1>8, <3>1, <3>2
  <2>7. ASSUME NEW k \in 1 .. Len(t.deferred) PROVE t.deferred[k].fence <= t.ahead
    BY <2>4, <2>5
  <2> QED
    BY <2>4, <2>6, <2>7
<1> QED
  BY <1>4, <1>9, <1>10, <1>12, <1>13, <1>14 DEF Sound

-----------------------------------------------------------------------------
(* A request quits, for good or until its blocks were sent or loaded. *)

LEMMA LeaveFields ==
  ASSUME NEW s \in SchedulerState, NEW r \in Requests, NEW t, t = Leave(s, r)
  PROVE  /\ t \in SchedulerState
         /\ t.running = Without(s.running, r) /\ t.waiting = Without(s.waiting, r)
         /\ t.skipped = Without(s.skipped, r)
         /\ t.status = s.status /\ t.computed = s.computed /\ Untouched(s, t)
         /\ t.moving = s.moving /\ t.recved = s.recved
<1>1. PICK a, b, c, P : /\ a = Without(s.running, r) /\ b = Without(s.waiting, r)
                        /\ c = Without(s.skipped, r) /\ P = s.prefills \ {r}
  OBVIOUS
<1>2. t = [s EXCEPT !.running = a, !.waiting = b, !.skipped = c, !.prefills = P]
  BY <1>1 DEF Leave
<1>3. s.running \in Seq(Requests) /\ s.waiting \in Seq(Requests) /\ s.skipped \in Seq(Requests)
  BY Fields
<1>4. a \in Seq(Requests) /\ b \in Seq(Requests) /\ c \in Seq(Requests)
  BY <1>1, <1>3, WithoutFacts
<1>5. P \in SUBSET Requests
  BY <1>1, Fields
<1>6. t \in SchedulerState
  BY <1>2, <1>4, <1>5 DEF SchedulerState
<1>7. /\ t.running = a /\ t.waiting = b /\ t.skipped = c
      /\ t.status = s.status /\ t.computed = s.computed
      /\ t.moving = s.moving /\ t.recved = s.recved
  BY <1>2 DEF SchedulerState
<1>8. Untouched(s, t)
  BY <1>2 DEF SchedulerState, Untouched
<1> QED
  BY <1>1, <1>6, <1>7, <1>8

(* What r counted does not matter any more. *)
LEMMA QuitCounts ==
  ASSUME on \in Deployments, NEW s, NEW q, NEW dn, NEW U, NEW P, Sound(on, s, q, dn, U, P),
         NEW r \in Requests, NEW u, NEW V, u.status[r] \in {"held", "gone"},
         \A x \in Requests : x # r =>
           /\ u.status[x] = s.status[x] /\ u.computed[x] = s.computed[x]
           /\ u.tokens[x] = s.tokens[x] /\ u.coming[x] = s.coming[x] /\ (x \in V <=> x \in U),
         u.held = s.held, u.deferred = s.deferred, u.ahead = s.ahead, u.last = s.last
  PROVE  Progress(on, u, q, V) /\ Flight(on, u, q, P) /\ Fences(on, u, q)
<1>1. Progress(on, s, q, U) /\ Flight(on, s, q, P) /\ Fences(on, s, q)
  BY DEF Sound
<1>2. ASSUME NEW x \in Requests, u.status[x] \in Before
      PROVE  Progressed(on, u, x) /\ u.coming[x] = Coming(on, q, V, x)
  <2>1. x # r
    BY <1>2 DEF Before
  <2>2. Progressed(on, s, x) /\ s.coming[x] = Coming(on, q, U, x)
    BY <1>1, <1>2, <2>1 DEF Progress
  <2> QED
    BY <2>1, <2>2 DEF Progressed, Coming
<1>3. Progress(on, u, q, V)
  BY <1>2 DEF Progress
<1>4. Flight(on, u, q, P)
  <2>1. ASSUME NEW i \in 1 .. Len(q), NEW x \in DOMAIN q[i]
        PROVE  \/ u.status[x] \in {"running", "held", "gone"}
               \/ u.status[x] = "waiting" /\ i = 1 /\ x \in P
    <3>1. /\ x \in Requests
          /\ \/ s.status[x] \in {"running", "held", "gone"}
             \/ s.status[x] = "waiting" /\ i = 1 /\ x \in P
      BY <1>1, FlightRequests DEF Flight
    <3> QED
      BY <3>1
  <2> QED
    BY <1>1, <2>1 DEF Flight
<1> QED
  BY <1>1, <1>3, <1>4, FencesFrame

LEMMA FreeOthers ==
  ASSUME on \in Deployments, NEW s \in SchedulerState, NEW r \in Requests,
         NEW t, t = FreeRequestBlocks(s, r), NEW x \in Requests, x # r
  PROVE  t.held[x] = s.held[x]
<1>1. t.held = [s.held EXCEPT ![r] = 0] \/ t.held = s.held
  BY DEF FreeRequestBlocks, SchedulerState
<1>2. s.held \in [Requests -> Nat]
  BY Fields
<1> QED
  BY <1>1, <1>2

(* _free_request_blocks ends it. *)
LEMMA GoneSound ==
  ASSUME on \in Deployments, NEW u \in SchedulerState, NEW q, NEW dn, NEW U, NEW P,
         NEW r \in Requests, Lines(on, u), Ordered(on, u), Moves(u, dn), Progress(on, u, q, U),
         Flight(on, u, q, P), Fences(on, u, q), u.status[r] = "gone", Owned(u) = on.blocks,
         \A x \in Requests : x # r =>
           /\ u.status[x] \in {"out", "gone"} => u.held[x] = 0
           /\ u.status[x] = "running" \/ x \in u.moving => u.held[x] > 0,
         NEW t, t = FreeRequestBlocks(u, r)
  PROVE  Sound(on, t, q, dn, U, P)
<1>1. t \in SchedulerState /\ Elsewhere(u, t) /\ t.held[r] = 0 /\ Owned(t) = Owned(u)
  BY FreeFields, ZenonT(60)
<1>2. ASSUME NEW x \in Requests, x # r PROVE t.held[x] = u.held[x]
  BY <1>2, FreeOthers
<1>3. /\ t.status = u.status /\ t.running = u.running /\ t.waiting = u.waiting
      /\ t.skipped = u.skipped /\ t.computed = u.computed /\ t.tokens = u.tokens
      /\ t.coming = u.coming /\ t.moving = u.moving /\ t.recved = u.recved
  BY <1>1 DEF Elsewhere
<1>4. Lines(on, t) /\ Ordered(on, t) /\ Moves(t, dn)
  BY <1>3 DEF Lines, Ordered, Moves, In
<1>5. r \notin u.moving
  BY DEF Moves
<1>6. Books(on, t)
  BY <1>1, <1>2, <1>3, <1>5 DEF Books
<1>7. Progress(on, t, q, U)
  <2>1. ASSUME NEW x \in Requests, t.status[x] \in Before
        PROVE  Progressed(on, t, x) /\ t.coming[x] = Coming(on, q, U, x)
    <3>1. x # r
      BY <1>3, <2>1 DEF Before
    <3>2. Progressed(on, u, x) /\ u.coming[x] = Coming(on, q, U, x)
      BY <1>3, <2>1 DEF Progress
    <3> QED
      BY <1>2, <1>3, <3>1, <3>2 DEF Progressed
  <2> QED
    BY <2>1 DEF Progress
<1>8. Flight(on, t, q, P)
  BY <1>3 DEF Flight
<1>9. Fences(on, t, q)
  BY FreeFences DEF Flight
<1> QED
  BY <1>1, <1>4, <1>6, <1>7, <1>8, <1>9 DEF Sound

(* A request that quits leaves all lines. *)
LEMMA QuitSound ==
  ASSUME on \in Deployments, NEW s, NEW q, NEW dn, NEW U, NEW P, Sound(on, s, q, dn, U, P),
         NEW r \in Requests, s.status[r] # "out",
         NEW u \in SchedulerState, NEW V, u.status[r] \in {"held", "gone"},
         \A x \in Requests : x # r =>
           /\ u.status[x] = s.status[x] /\ u.computed[x] = s.computed[x]
           /\ u.tokens[x] = s.tokens[x] /\ u.coming[x] = s.coming[x] /\ (x \in V <=> x \in U)
           /\ (x \in u.moving <=> x \in s.moving),
         u.held = s.held, u.free = s.free, u.deferred = s.deferred, u.ahead = s.ahead,
         u.last = s.last, u.running = Without(s.running, r), u.waiting = Without(s.waiting, r),
         u.skipped = Without(s.skipped, r), Moves(u, dn)
  PROVE  /\ u.status[r] = "held" /\ (r \in u.moving => s.held[r] > 0) => Sound(on, u, q, dn, V, P)
         /\ u.status[r] = "gone" => Sound(on, FreeRequestBlocks(u, r), q, dn, V, P)
<1>1. s \in SchedulerState /\ Lines(on, s) /\ Ordered(on, s) /\ Books(on, s)
  BY DEF Sound
<1>2. Lines(on, u) /\ Ordered(on, u)
  <2>1. PICK x \in {"held", "gone"} : u.status[r] = x
    OBVIOUS
  <2> QED
    BY <1>1, <2>1, QuitLines
<1>3. Progress(on, u, q, V) /\ Flight(on, u, q, P) /\ Fences(on, u, q)
  BY QuitCounts
<1>4. Owned(u) = on.blocks
  BY <1>1, OwnedFrame DEF Books
<1>5. ASSUME NEW x \in Requests, x # r
      PROVE  /\ u.status[x] \in {"out", "gone"} => u.held[x] = 0
             /\ u.status[x] = "running" \/ x \in u.moving => u.held[x] > 0
  BY <1>1, <1>5 DEF Books
<1>6. ASSUME u.status[r] = "held", r \in u.moving => s.held[r] > 0 PROVE Sound(on, u, q, dn, V, P)
  <2>1. ASSUME NEW x \in Requests
        PROVE  /\ u.status[x] \in {"out", "gone"} => u.held[x] = 0
               /\ u.status[x] = "running" \/ x \in u.moving => u.held[x] > 0
    BY <1>5, <1>6
  <2>2. Books(on, u)
    BY <1>4, <2>1 DEF Books
  <2> QED
    BY <1>2, <1>3, <2>2 DEF Sound
<1>7. ASSUME u.status[r] = "gone" PROVE Sound(on, FreeRequestBlocks(u, r), q, dn, V, P)
  <2>1. PICK t : t = FreeRequestBlocks(u, r)
    OBVIOUS
  <2>2. Sound(on, t, q, dn, V, P)
    BY <1>2, <1>3, <1>4, <1>5, <1>7, <2>1, GoneSound
  <2> QED
    BY <2>1, <2>2
<1> QED
  BY <1>6, <1>7

-----------------------------------------------------------------------------
(* The oldest batch leaves the queue. *)

LEMMA TailFacts ==
  ASSUME NEW q \in Seq(Batches), q # <<>>, NEW p, p = Tail(q)
  PROVE  /\ p \in Seq(Batches) /\ Len(p) = Len(q) - 1 /\ Len(q) \in Nat \ {0}
         /\ Head(q) = q[1] /\ \A i \in 1 .. Len(p) : p[i] = q[i + 1] /\ i + 1 \in 1 .. Len(q)
<1>1. /\ p \in Seq(Batches) /\ Len(p) = Len(q) - 1 /\ Len(q) \in Nat \ {0} /\ Head(q) = q[1]
      /\ \A i \in 1 .. Len(q) - 1 : p[i] = q[i + 1]
  BY LenProperties, EmptySeq, HeadTailProperties
<1> QED
  BY <1>1

(* Who got a token in batch b. *)
Results(b) == {r \in DOMAIN b : b[r]}
Placed(s, U) == \A r \in U : r \in Requests /\ s.status[r] \in {"waiting", "running", "held", "gone"}

LEMMA HeadOver ==
  ASSUME on \in Deployments, NEW s, NEW q, NEW dn, Sound(on, s, q, dn, {}, Late(q)), q # <<>>,
         NEW p, p = Tail(q), NEW U, U = Results(Head(q))
  PROVE  Progress(on, s, p, U) /\ Flight(on, s, p, {}) /\ Placed(s, U)
<1>1. Progress(on, s, q, {}) /\ Flight(on, s, q, Late(q)) /\ q \in Seq(Batches) /\ Len(q) <= on.depth
  BY DEF Sound, Flight
<1>2. /\ p \in Seq(Batches) /\ Len(p) = Len(q) - 1 /\ Len(q) \in Nat \ {0}
      /\ Head(q) = q[1] /\ \A i \in 1 .. Len(p) : p[i] = q[i + 1] /\ i + 1 \in 1 .. Len(q)
  BY <1>1, TailFacts
<1>3. on.depth \in {1, 2}
  BY Deployed
<1>4. ASSUME NEW r \in Requests, s.status[r] \in Before
      PROVE  Progressed(on, s, r) /\ s.coming[r] = Coming(on, p, U, r)
  <2>1. Progressed(on, s, r) /\ s.coming[r] = Coming(on, q, {}, r)
    BY <1>1, <1>4 DEF Progress
  <2>2. Count(q, r) = Count(p, r) + IF r \in DOMAIN Head(q) /\ Head(q)[r] THEN 1 ELSE 0
    BY <1>1, CountTail
  <2>3. Count(q, r) \in Nat /\ Count(p, r) \in Nat
    BY <1>1, <1>2, CountFacts
  <2>4. r \in U <=> r \in DOMAIN Head(q) /\ Head(q)[r]
    BY DEF Results
  <2> QED
    BY <2>1, <2>2, <2>3, <2>4 DEF Coming
<1>5. Progress(on, s, p, U)
  BY <1>4 DEF Progress
<1>6. Flight(on, s, p, {})
  <2>1. ASSUME NEW i \in 1 .. Len(p), NEW x \in DOMAIN p[i]
        PROVE  s.status[x] \in {"running", "held", "gone"}
    <3>1. i + 1 \in 1 .. Len(q) /\ x \in DOMAIN q[i + 1] /\ i + 1 # 1
      BY <1>2
    <3> QED
      BY <1>1, <3>1 DEF Flight
  <2>2. Len(p) <= on.depth
    BY <1>1, <1>2, <1>3
  <2> QED
    BY <1>2, <2>1, <2>2 DEF Flight
<1>7. Placed(s, U)
  <2>1. ASSUME NEW r \in U PROVE r \in Requests /\ s.status[r] \in {"waiting", "running", "held", "gone"}
    <3>1. r \in DOMAIN q[1] /\ 1 \in 1 .. Len(q)
      BY <1>2 DEF Results
    <3>2. r \in Requests
      BY <1>1, <3>1, FlightRequests
    <3> QED
      BY <1>1, <3>1, <3>2 DEF Flight
  <2> QED
    BY <2>1 DEF Placed
<1> QED
  BY <1>5, <1>6, <1>7

(* Without deferred frees, or when the batch was empty, nothing is drained. *)
LEMMA EmptyOver ==
  ASSUME on \in Deployments, NEW s, NEW q, NEW dn, Sound(on, s, q, dn, {}, Late(q)), q # <<>>,
         NEW p, p = Tail(q), ~ Defer \/ DOMAIN Head(q) = {}
  PROVE  Fences(on, s, p)
<1> SUFFICES ASSUME on.depth > 1 /\ on.remote # {}
             PROVE  /\ s.ahead = StepsTo(p, Len(p))
                    /\ \A k \in 1 .. Len(s.deferred) : s.deferred[k].fence <= s.ahead
                    /\ \A i \in 1 .. Len(p) : \A x \in DOMAIN p[i] :
                         s.last[x] >= StepsTo(p, i) /\ (s.held[x] > 0 <=> ~ Fenced(s, x, StepsTo(p, i)))
  BY DEF Fences
<1>1. DOMAIN Head(q) = {}
  BY DEF Defer, Async, Depth, Consumer, Remote
<1>2. q \in Seq(Batches) /\ Fences(on, s, q)
  BY DEF Sound, Flight
<1>3. /\ p \in Seq(Batches) /\ Len(p) = Len(q) - 1 /\ Len(q) \in Nat \ {0}
      /\ \A i \in 1 .. Len(p) : p[i] = q[i + 1] /\ i + 1 \in 1 .. Len(q)
  BY <1>2, TailFacts
<1>4. ASSUME NEW i \in 0 .. Len(q) - 1 PROVE StepsTo(q, i + 1) = StepsTo(p, i)
  <2>1. StepsTo(q, i + 1) = StepsTo(p, i) + 0
    BY <1>1, <1>2, StepsTail
  <2>2. StepsTo(p, i) \in Nat
    BY <1>3, StepsFacts
  <2> QED
    BY <2>1, <2>2
<1>5. s.ahead = StepsTo(p, Len(p))
  <2>1. Len(p) \in 0 .. Len(q) - 1 /\ Len(p) + 1 = Len(q)
    BY <1>3
  <2> QED
    BY <1>2, <1>4, <2>1 DEF Fences
<1>6. ASSUME NEW i \in 1 .. Len(p), NEW x \in DOMAIN p[i]
      PROVE  s.last[x] >= StepsTo(p, i) /\ (s.held[x] > 0 <=> ~ Fenced(s, x, StepsTo(p, i)))
  <2>1. i + 1 \in 1 .. Len(q) /\ x \in DOMAIN q[i + 1] /\ StepsTo(q, i + 1) = StepsTo(p, i)
    BY <1>3, <1>4
  <2>2. /\ s.last[x] >= StepsTo(q, i + 1)
        /\ (s.held[x] > 0 <=> ~ Fenced(s, x, StepsTo(q, i + 1)))
    BY <1>2, <2>1 DEF Fences
  <2> QED
    BY <2>1, <2>2
<1> QED
  BY <1>2, <1>5, <1>6 DEF Fences

(* One step was processed: all fences come nearer. *)
Closer(s, u) ==
  /\ u.status = s.status /\ u.running = s.running /\ u.waiting = s.waiting
  /\ u.skipped = s.skipped /\ u.computed = s.computed /\ u.tokens = s.tokens
  /\ u.coming = s.coming /\ u.held = s.held /\ u.free = s.free
  /\ u.moving = s.moving /\ u.recved = s.recved
  /\ u.ahead = s.ahead - 1
  /\ \A r \in Requests : u.last[r] = IF s.last[r] >= 1 THEN s.last[r] - 1 ELSE 0
  /\ Len(u.deferred) = Len(s.deferred)
  /\ \A k \in 1 .. Len(s.deferred) :
       /\ u.deferred[k].fence = s.deferred[k].fence - 1
       /\ u.deferred[k].n = s.deferred[k].n /\ u.deferred[k].of = s.deferred[k].of

LEMMA CloserFields ==
  ASSUME NEW s \in SchedulerState, s.ahead >= 1, NEW u,
         u = [s EXCEPT !.ahead = @ - 1,
                       !.last = [r \in Requests |-> Max({@[r] - 1, 0})],
                       !.deferred = [i \in DOMAIN @ |-> Nearer(@[i])]]
  PROVE  u \in SchedulerState /\ Closer(s, u)
<1>1. PICK l : l = [r \in Requests |-> Max({s.last[r] - 1, 0})]
  OBVIOUS
<1>2. PICK f : f = [i \in DOMAIN s.deferred |-> Nearer(s.deferred[i])]
  OBVIOUS
<1>3. u = [s EXCEPT !.ahead = @ - 1, !.last = l, !.deferred = f]
  BY <1>1, <1>2, Zenon
<1>4. /\ s.ahead \in Nat /\ s.last \in [Requests -> Nat] /\ s.deferred \in Seq(Deferrals)
      /\ Len(s.deferred) \in Nat /\ DOMAIN s.deferred = 1 .. Len(s.deferred)
      /\ \A k \in 1 .. Len(s.deferred) : s.deferred[k] \in Deferrals
  BY Fields, LenProperties
<1>5. ASSUME NEW r \in Requests PROVE l[r] = (IF s.last[r] >= 1 THEN s.last[r] - 1 ELSE 0) /\ l[r] \in Nat
  <2>1. s.last[r] \in Nat /\ s.last[r] - 1 \in Int
    BY <1>4
  <2>2. PICK a : a = s.last[r] - 1
    OBVIOUS
  <2>3. Max({a, 0}) = IF a >= 0 THEN a ELSE 0
    BY <2>1, <2>2, MaxTwo
  <2>4. l[r] = Max({a, 0})
    BY <1>1, <2>2
  <2> QED
    BY <2>1, <2>2, <2>3, <2>4
<1>6. l \in [Requests -> Nat]
  BY <1>1, <1>5
<1>7. ASSUME NEW k \in 1 .. Len(s.deferred)
      PROVE  /\ f[k] \in Deferrals /\ f[k].fence = s.deferred[k].fence - 1
             /\ f[k].n = s.deferred[k].n /\ f[k].of = s.deferred[k].of
  <2>1. PICK d \in Deferrals : d = s.deferred[k]
    BY <1>4
  <2>2. f[k] = [d EXCEPT !.fence = @ - 1]
    BY <1>2, <1>4, <2>1 DEF Nearer
  <2> QED
    BY <2>1, <2>2 DEF Deferrals
<1>8. f \in Seq(Deferrals) /\ Len(f) = Len(s.deferred)
  <2>1. f \in [1 .. Len(s.deferred) -> Deferrals]
    BY <1>2, <1>4, <1>7
  <2> QED
    BY <1>4, <2>1
<1>9. u \in SchedulerState
  <2>1. s.ahead - 1 \in Nat
    BY <1>4
  <2> QED
    BY <1>3, <1>6, <1>8, <2>1 DEF SchedulerState, Counts
<1>10. /\ u.status = s.status /\ u.running = s.running /\ u.waiting = s.waiting
       /\ u.skipped = s.skipped /\ u.computed = s.computed /\ u.tokens = s.tokens
       /\ u.coming = s.coming /\ u.held = s.held /\ u.free = s.free
       /\ u.moving = s.moving /\ u.recved = s.recved
       /\ u.ahead = s.ahead - 1 /\ u.last = l /\ u.deferred = f
  BY <1>3 DEF SchedulerState
<1> QED
  BY <1>5, <1>7, <1>8, <1>9, <1>10 DEF Closer

-----------------------------------------------------------------------------
(* A step is processed and the frees that waited for it are done. *)

LEMMA CloserFences ==
  ASSUME on \in Deployments, NEW s \in SchedulerState, NEW q \in Seq(Batches), q # <<>>,
         Fences(on, s, q), Defer, DOMAIN Head(q) # {},
         NEW p, p = Tail(q), NEW u, Closer(s, u)
  PROVE  Fences(on, u, p) /\ s.ahead >= 1
<1>1. on.depth > 1 /\ on.remote # {}
  BY DEF Defer, Async, Depth, Consumer, Remote
<1>2. /\ s.ahead = StepsTo(q, Len(q))
      /\ \A k \in 1 .. Len(s.deferred) : s.deferred[k].fence <= s.ahead
      /\ \A i \in 1 .. Len(q) : \A x \in DOMAIN q[i] :
           s.last[x] >= StepsTo(q, i) /\ (s.held[x] > 0 <=> ~ Fenced(s, x, StepsTo(q, i)))
  BY <1>1 DEF Fences
<1>3. /\ p \in Seq(Batches) /\ Len(p) = Len(q) - 1 /\ Len(q) \in Nat \ {0}
      /\ \A i \in 1 .. Len(p) : p[i] = q[i + 1] /\ i + 1 \in 1 .. Len(q)
  BY TailFacts
<1>4. ASSUME NEW i \in 0 .. Len(p)
      PROVE  StepsTo(q, i + 1) = StepsTo(p, i) + 1 /\ StepsTo(p, i) \in Nat
  <2>1. i \in 0 .. Len(q) - 1
    BY <1>3
  <2>2. StepsTo(q, i + 1) = StepsTo(p, i) + 1
    BY <2>1, StepsTail
  <2> QED
    BY <1>3, <2>2, StepsFacts
<1>5. /\ s.ahead \in Nat /\ u.ahead = s.ahead - 1 /\ u.held = s.held
      /\ Len(u.deferred) = Len(s.deferred) /\ Len(s.deferred) \in Nat
      /\ \A k \in 1 .. Len(s.deferred) :
           /\ u.deferred[k].fence = s.deferred[k].fence - 1 /\ s.deferred[k].fence \in Int
           /\ u.deferred[k].of = s.deferred[k].of
  BY Fields, DeferredFacts DEF Closer
<1>6. u.ahead = StepsTo(p, Len(p)) /\ s.ahead >= 1
  <2>1. Len(p) \in 0 .. Len(p) /\ Len(p) + 1 = Len(q)
    BY <1>3
  <2>2. s.ahead = StepsTo(p, Len(p)) + 1 /\ StepsTo(p, Len(p)) \in Nat
    BY <1>2, <1>4, <2>1
  <2> QED
    BY <1>5, <2>2
<1>7. ASSUME NEW k \in 1 .. Len(u.deferred) PROVE u.deferred[k].fence <= u.ahead
  <2>1. PICK a, b : a = u.deferred[k].fence /\ b = s.deferred[k].fence
    OBVIOUS
  <2>2. a = b - 1 /\ b \in Int /\ b <= s.ahead
    BY <1>2, <1>5, <2>1
  <2> QED
    BY <1>5, <2>1, <2>2
<1>8. ASSUME NEW i \in 1 .. Len(p), NEW x \in DOMAIN p[i]
      PROVE  u.last[x] >= StepsTo(p, i) /\ (u.held[x] > 0 <=> ~ Fenced(u, x, StepsTo(p, i)))
  <2>1. /\ i + 1 \in 1 .. Len(q) /\ x \in DOMAIN q[i + 1]
        /\ StepsTo(q, i + 1) = StepsTo(p, i) + 1 /\ StepsTo(p, i) \in Nat
    BY <1>3, <1>4
  <2>2. x \in Requests
    BY <1>3, FlightRequests
  <2>3. PICK n \in Nat : n = StepsTo(p, i)
    BY <2>1
  <2>4. s.last[x] >= n + 1 /\ (s.held[x] > 0 <=> ~ Fenced(s, x, n + 1))
    BY <1>2, <2>1, <2>3
  <2>5. u.last[x] >= n
    <3>1. s.last[x] \in Nat /\ u.last[x] = IF s.last[x] >= 1 THEN s.last[x] - 1 ELSE 0
      BY <2>2, Fields DEF Closer
    <3> QED
      BY <2>3, <2>4, <3>1
  <2>6. Fenced(u, x, n) <=> Fenced(s, x, n + 1)
    <3>1. ASSUME NEW k \in 1 .. Len(s.deferred)
          PROVE  /\ u.deferred[k].fence >= n <=> s.deferred[k].fence >= n + 1
                 /\ u.deferred[k].of = s.deferred[k].of
      <4>1. PICK a, b : a = u.deferred[k].fence /\ b = s.deferred[k].fence
        OBVIOUS
      <4>2. b \in Int /\ a = b - 1
        BY <1>5, <4>1
      <4>3. a >= n <=> b >= n + 1
        BY <2>3, <4>2
      <4> QED
        BY <1>5, <4>1, <4>3
    <3> QED
      BY <1>5, <3>1 DEF Fenced
  <2> QED
    BY <1>5, <2>3, <2>4, <2>5, <2>6
<1> QED
  BY <1>6, <1>7, <1>8 DEF Fences

LEMMA CloserSound ==
  ASSUME on \in Deployments, NEW s, NEW q, NEW dn, Sound(on, s, q, dn, {}, Late(q)), q # <<>>,
         Defer, DOMAIN Head(q) # {}, NEW p, p = Tail(q), NEW U, U = Results(Head(q)),
         NEW u \in SchedulerState, Closer(s, u)
  PROVE  Sound(on, u, p, dn, U, {})
<1>1. /\ s \in SchedulerState /\ Lines(on, s) /\ Ordered(on, s) /\ Books(on, s) /\ Moves(s, dn)
      /\ q \in Seq(Batches) /\ Fences(on, s, q)
  BY DEF Sound, Flight
<1>2. Progress(on, s, p, U) /\ Flight(on, s, p, {})
  BY HeadOver
<1>3. /\ u.status = s.status /\ u.running = s.running /\ u.waiting = s.waiting
      /\ u.skipped = s.skipped /\ u.computed = s.computed /\ u.tokens = s.tokens
      /\ u.coming = s.coming /\ u.held = s.held /\ u.free = s.free
      /\ u.moving = s.moving /\ u.recved = s.recved
      /\ Len(u.deferred) = Len(s.deferred)
      /\ \A k \in 1 .. Len(s.deferred) : u.deferred[k].n = s.deferred[k].n
  BY DEF Closer
<1>4. Lines(on, u) /\ Ordered(on, u) /\ Moves(u, dn)
  BY <1>1, <1>3 DEF Lines, Ordered, Moves, In
<1>5. Books(on, u)
  <2>1. Lengths(u) = Lengths(s)
    BY <1>3 DEF Lengths
  <2>2. Owned(u) = Owned(s)
    BY <1>3, <2>1 DEF Owned
  <2> QED
    BY <1>1, <1>3, <2>2 DEF Books
<1>6. Progress(on, u, p, U) /\ Flight(on, u, p, {})
  BY <1>2, <1>3 DEF Progress, Progressed, Flight
<1>7. Fences(on, u, p)
  BY <1>1, CloserFences
<1> QED
  BY <1>4, <1>5, <1>6, <1>7 DEF Sound

(* The first free that waits, when its fence is passed. *)
LEMMA DrainStep ==
  ASSUME on \in Deployments, NEW s, NEW p, NEW dn, NEW U, NEW P, Sound(on, s, p, dn, U, P),
         NEW i, NEW t, t = DrainOne(s, i)
  PROVE  Sound(on, t, p, dn, U, P)
<1>1. /\ s \in SchedulerState /\ Lines(on, s) /\ Ordered(on, s) /\ Books(on, s) /\ Moves(s, dn)
      /\ Progress(on, s, p, U) /\ Flight(on, s, p, P) /\ Fences(on, s, p)
  BY DEF Sound
<1>2. CASE s.deferred = <<>> \/ ~ Passed(Head(s.deferred))
  BY <1>2 DEF DrainOne
<1>3. CASE s.deferred # <<>> /\ Passed(Head(s.deferred))
  <2>1. PICK m, f : m = Head(s.deferred).n /\ f = Tail(s.deferred)
    OBVIOUS
  <2>2. t = [s EXCEPT !.free = @ + m, !.deferred = f]
    BY <1>3, <2>1 DEF DrainOne
  <2>3. /\ s.deferred \in Seq(Deferrals) /\ s.free \in Nat /\ Len(s.deferred) \in Nat \ {0}
        /\ Head(s.deferred) = s.deferred[1] /\ f \in Seq(Deferrals)
        /\ Len(f) = Len(s.deferred) - 1 /\ \A k \in 1 .. Len(f) : f[k] = s.deferred[k + 1]
    <3>1. s.deferred \in Seq(Deferrals) /\ s.free \in Nat
      BY <1>1, Fields
    <3>2. /\ Len(s.deferred) \in Nat \ {0} /\ f \in Seq(Deferrals) /\ Head(s.deferred) = s.deferred[1]
          /\ Len(f) = Len(s.deferred) - 1
          /\ \A k \in 1 .. Len(s.deferred) - 1 : f[k] = s.deferred[k + 1]
      BY <1>3, <2>1, <3>1, HeadTailProperties, LenProperties, EmptySeq
    <3> QED
      BY <3>1, <3>2
  <2>4. m \in Nat /\ s.deferred[1].fence \in Int /\ s.deferred[1].fence <= 0
    <3>1. 1 \in 1 .. Len(s.deferred)
      BY <2>3
    <3> QED
      BY <1>3, <2>1, <2>3, <3>1, DeferredFacts DEF Passed
  <2>5. t \in SchedulerState
    <3>1. s.free + m \in Nat
      BY <2>3, <2>4
    <3> QED
      BY <1>1, <2>2, <2>3, <3>1, ZenonT(60) DEF SchedulerState
  <2>6. /\ t.status = s.status /\ t.running = s.running /\ t.waiting = s.waiting
        /\ t.skipped = s.skipped /\ t.computed = s.computed /\ t.tokens = s.tokens
        /\ t.coming = s.coming /\ t.held = s.held /\ t.moving = s.moving /\ t.recved = s.recved
        /\ t.ahead = s.ahead /\ t.last = s.last /\ t.free = s.free + m /\ t.deferred = f
    BY <1>1, <2>2 DEF SchedulerState
  <2>7. Lines(on, t) /\ Ordered(on, t) /\ Moves(t, dn)
    BY <1>1, <2>6 DEF Lines, Ordered, Moves, In
  <2>8. Books(on, t)
    <3>1. Blocks(Lengths(s)) = Blocks(Lengths(t)) + m
      BY <1>3, <2>1, <2>3, <2>6, LengthsTail
    <3>2. Blocks(s.held) \in Nat /\ Blocks(Lengths(t)) \in Nat
      BY <1>1, <2>5, OwnedFacts
    <3>3. Owned(t) = Owned(s)
      BY <2>3, <2>4, <2>6, <3>1, <3>2 DEF Owned
    <3> QED
      BY <1>1, <2>6, <3>3 DEF Books
  <2>9. Progress(on, t, p, U) /\ Flight(on, t, p, P)
    BY <1>1, <2>6 DEF Progress, Progressed, Flight
  <2>10. Fences(on, t, p)
    <3> SUFFICES ASSUME on.depth > 1 /\ on.remote # {}
                 PROVE  /\ t.ahead = StepsTo(p, Len(p))
                        /\ \A k \in 1 .. Len(t.deferred) : t.deferred[k].fence <= t.ahead
                        /\ \A j \in 1 .. Len(p) : \A x \in DOMAIN p[j] :
                             /\ t.last[x] >= StepsTo(p, j)
                             /\ (t.held[x] > 0 <=> ~ Fenced(t, x, StepsTo(p, j)))
      BY DEF Fences
    <3>1. /\ s.ahead = StepsTo(p, Len(p))
          /\ \A k \in 1 .. Len(s.deferred) : s.deferred[k].fence <= s.ahead
          /\ \A j \in 1 .. Len(p) : \A x \in DOMAIN p[j] :
               s.last[x] >= StepsTo(p, j) /\ (s.held[x] > 0 <=> ~ Fenced(s, x, StepsTo(p, j)))
      BY <1>1 DEF Fences
    <3>2. \A k \in 1 .. Len(f) : k + 1 \in 1 .. Len(s.deferred)
      BY <2>3
    <3>3. \A k \in 1 .. Len(t.deferred) : t.deferred[k].fence <= t.ahead
      BY <2>3, <2>6, <3>1, <3>2
    <3>4. ASSUME NEW j \in 1 .. Len(p), NEW x \in DOMAIN p[j]
          PROVE  Fenced(t, x, StepsTo(p, j)) <=> Fenced(s, x, StepsTo(p, j))
      <4>1. p \in Seq(Batches) /\ j \in 0 .. Len(p) /\ DOMAIN p[j] # {}
        BY <1>1 DEF Flight
      <4>2. PICK n : n = StepsTo(p, j)
        OBVIOUS
      <4>3. n \in Nat /\ n >= 1
        BY <4>1, <4>2, StepsFacts
      <4>4. ASSUME Fenced(t, x, n) PROVE Fenced(s, x, n)
        BY <2>3, <2>6, <3>2, <4>4, SMTT(60) DEF Fenced
      <4>5. ASSUME Fenced(s, x, n) PROVE Fenced(t, x, n)
        <5>1. PICK k \in 1 .. Len(s.deferred) : s.deferred[k].of = x /\ s.deferred[k].fence >= n
          BY <4>5 DEF Fenced
        <5>2. k # 1
          BY <2>4, <4>3, <5>1
        <5>3. k - 1 \in 1 .. Len(f) /\ (k - 1) + 1 = k
          BY <2>3, <5>2
        <5>4. f[k - 1] = s.deferred[k]
          BY <2>3, <5>3
        <5> QED
          BY <2>6, <5>1, <5>3, <5>4 DEF Fenced
      <4> QED
        BY <4>2, <4>4, <4>5
    <3> QED
      BY <2>6, <3>1, <3>3, <3>4
  <2> QED
    BY <2>5, <2>7, <2>8, <2>9, <2>10 DEF Sound
<1> QED
  BY <1>2, <1>3

LEMMA DrainSound ==
  ASSUME on \in Deployments, NEW s, NEW p, NEW dn, NEW U, NEW P, Sound(on, s, p, dn, U, P),
         NEW t, t = Drain(s)
  PROVE  Sound(on, t, p, dn, U, P) /\ t.status = s.status
<1> DEFINE n == Len(s.deferred)
           Same(x) == Sound(on, x, p, dn, U, P) /\ x.status = s.status
           Good == {g \in Int \X SchedulerState : Same(g[2])}
<1>1. s \in SchedulerState
  BY DEF Sound
<1>2. n \in Nat
  BY <1>1, Fields, LenProperties
<1>3. <<0, s>> \in Good
  BY <1>1
<1>4. ASSUME NEW i \in 1 .. n, NEW u, <<i - 1, u>> \in Good
      PROVE  <<i, DrainOne(u, i)>> \in Good
  <2>1. Same(u) /\ u \in SchedulerState /\ i \in Int
    BY <1>2, <1>4
  <2>2. PICK v : v = DrainOne(u, i)
    OBVIOUS
  <2>3. Sound(on, v, p, dn, U, P)
    BY <2>1, <2>2, DrainStep
  <2>4. v.status = u.status
    BY <2>1, <2>2 DEF DrainOne, SchedulerState
  <2>5. v \in SchedulerState
    BY <2>3 DEF Sound
  <2> QED
    BY <2>1, <2>2, <2>3, <2>4, <2>5
<1> HIDE DEF Good, n
<1>5. t = Loop(DrainOne, s, n)
  BY DEF Drain, n
<1>6. <<n, t>> \in Good
  BY <1>2, <1>3, <1>4, <1>5, DrainLoop
<1> QED
  BY <1>6 DEF Good

LEMMA ProcessedSound ==
  ASSUME on \in Deployments, NEW s, NEW q, NEW dn, Sound(on, s, q, dn, {}, Late(q)), q # <<>>,
         NEW p, p = Tail(q), NEW U, U = Results(Head(q)), NEW t, t = Processed(s, Head(q))
  PROVE  Sound(on, t, p, dn, U, {}) /\ Placed(t, U)
<1>1. Progress(on, s, p, U) /\ Flight(on, s, p, {}) /\ Placed(s, U)
  BY HeadOver
<1>2. /\ s \in SchedulerState /\ Lines(on, s) /\ Ordered(on, s) /\ Books(on, s) /\ Moves(s, dn)
      /\ q \in Seq(Batches) /\ Fences(on, s, q)
  BY DEF Sound, Flight
<1>3. CASE ~ Defer \/ DOMAIN Head(q) = {}
  <2>1. t = s
    BY <1>3 DEF Processed
  <2>2. Fences(on, s, p)
    BY <1>3, EmptyOver
  <2> QED
    BY <1>1, <1>2, <2>1, <2>2 DEF Sound
<1>4. CASE Defer /\ DOMAIN Head(q) # {}
  <2> DEFINE c == [s EXCEPT !.ahead = @ - 1,
                            !.last = [r \in Requests |-> Max({@[r] - 1, 0})],
                            !.deferred = [i \in DOMAIN @ |-> Nearer(@[i])]]
  <2>1. t = Drain(c)
    BY <1>4 DEF Processed
  <2>2. s.ahead >= 1
    <3>1. StepsTo(q, 1) >= 1 /\ StepsTo(q, 1) <= StepsTo(q, Len(q)) /\ StepsTo(q, 1) \in Nat
          /\ StepsTo(q, Len(q)) \in Nat
      <4>1. Len(q) \in Nat \ {0} /\ Head(q) = q[1]
        BY <1>2, TailFacts
      <4>2. 1 \in 1 .. Len(q) /\ 1 \in 0 .. Len(q) /\ Len(q) \in 0 .. Len(q)
        BY <4>1
      <4> QED
        BY <1>2, <1>4, <4>1, <4>2, StepsFacts
    <3>2. s.ahead = StepsTo(q, Len(q))
      BY <1>2, <1>4 DEF Fences, Defer, Async, Depth, Consumer, Remote
    <3> QED
      BY <3>1, <3>2
  <2>3. PICK u : u = c
    OBVIOUS
  <2>4. u \in SchedulerState /\ Closer(s, u)
    BY <1>2, <2>2, <2>3, CloserFields
  <2> HIDE DEF c
  <2>5. Sound(on, u, p, dn, U, {}) /\ u.status = s.status
    BY <1>4, <2>4, CloserSound DEF Closer
  <2>6. t = Drain(u)
    BY <2>1, <2>3
  <2>7. Sound(on, t, p, dn, U, {}) /\ t.status = u.status
    BY <2>5, <2>6, DrainSound
  <2> QED
    BY <1>1, <2>5, <2>7 DEF Placed
<1> QED
  BY <1>3, <1>4

-----------------------------------------------------------------------------
(* The tokens of a batch, one request after the other. *)

(* A token more, and a placeholder less. *)
More(s, r) == [s EXCEPT !.tokens[r] = @ + 1, !.coming[r] = Max({@ - 1, 0})]

LEMMA MoreFields ==
  ASSUME NEW s \in SchedulerState, NEW r \in Requests, NEW m, m = More(s, r)
  PROVE  /\ m \in SchedulerState /\ m.tokens[r] = s.tokens[r] + 1
         /\ m.coming[r] = IF s.coming[r] >= 1 THEN s.coming[r] - 1 ELSE 0
         /\ m.status = s.status /\ m.running = s.running /\ m.waiting = s.waiting
         /\ m.skipped = s.skipped /\ m.computed = s.computed /\ m.held = s.held
         /\ m.free = s.free /\ m.deferred = s.deferred /\ m.ahead = s.ahead /\ m.last = s.last
         /\ m.moving = s.moving /\ m.recved = s.recved
<1>1. s.tokens \in [Requests -> Nat] /\ s.coming \in [Requests -> Nat]
  BY Fields
<1>2. PICK c : c = Max({s.coming[r] - 1, 0})
  OBVIOUS
<1>3. c = (IF s.coming[r] >= 1 THEN s.coming[r] - 1 ELSE 0) /\ c \in Nat
  <2>1. PICK a : a = s.coming[r] - 1
    OBVIOUS
  <2>2. a \in Int /\ s.coming[r] \in Nat
    BY <1>1, <2>1
  <2>3. Max({a, 0}) = IF a >= 0 THEN a ELSE 0
    BY <2>2, MaxTwo
  <2> QED
    BY <1>2, <2>1, <2>2, <2>3
<1>4. m = [s EXCEPT !.tokens[r] = @ + 1, !.coming[r] = c]
  BY <1>2 DEF More
<1>5. /\ m.tokens = [s.tokens EXCEPT ![r] = s.tokens[r] + 1]
      /\ m.coming = [s.coming EXCEPT ![r] = c]
      /\ m.status = s.status /\ m.running = s.running /\ m.waiting = s.waiting
      /\ m.skipped = s.skipped /\ m.computed = s.computed /\ m.held = s.held
      /\ m.free = s.free /\ m.deferred = s.deferred /\ m.ahead = s.ahead /\ m.last = s.last
      /\ m.moving = s.moving /\ m.recved = s.recved
  BY <1>4 DEF SchedulerState
<1>6. /\ [s.tokens EXCEPT ![r] = s.tokens[r] + 1] \in [Requests -> Nat]
      /\ [s.coming EXCEPT ![r] = c] \in [Requests -> Nat]
  BY <1>1, <1>3
<1>7. m \in SchedulerState
  BY <1>4, <1>6 DEF SchedulerState, Counts
<1>8. m.tokens[r] = s.tokens[r] + 1 /\ m.coming[r] = c
  BY <1>1, <1>5
<1> QED
  BY <1>3, <1>5, <1>7, <1>8

LEMMA MoreOthers ==
  ASSUME NEW s \in SchedulerState, NEW r \in Requests, NEW m, m = More(s, r),
         NEW x \in Requests, x # r
  PROVE  m.tokens[x] = s.tokens[x] /\ m.coming[x] = s.coming[x]
  BY DEF More, SchedulerState, Counts

(* The request goes on: there are fewer tokens than it may have. *)
LEMMA MoreSound ==
  ASSUME on \in Deployments, NEW s, NEW q, NEW dn, NEW U, Sound(on, s, q, dn, U, {}),
         NEW r \in U, r \in Requests, s.status[r] \in {"waiting", "running"},
         NEW m, m = More(s, r), m.tokens[r] < Limit(on, r)
  PROVE  Sound(on, m, q, dn, U \ {r}, {})
<1>1. /\ s \in SchedulerState /\ Lines(on, s) /\ Ordered(on, s) /\ Books(on, s) /\ Moves(s, dn)
      /\ Progress(on, s, q, U) /\ Flight(on, s, q, {}) /\ Fences(on, s, q)
  BY DEF Sound
<1>2. /\ m \in SchedulerState /\ m.tokens[r] = s.tokens[r] + 1
      /\ m.coming[r] = IF s.coming[r] >= 1 THEN s.coming[r] - 1 ELSE 0
      /\ m.status = s.status /\ m.running = s.running /\ m.waiting = s.waiting
      /\ m.skipped = s.skipped /\ m.computed = s.computed /\ m.held = s.held
      /\ m.free = s.free /\ m.deferred = s.deferred /\ m.ahead = s.ahead /\ m.last = s.last
      /\ m.moving = s.moving /\ m.recved = s.recved
  BY <1>1, MoreFields
<1>3. Lines(on, m) /\ Ordered(on, m) /\ Moves(m, dn)
  BY <1>1, <1>2 DEF Lines, Ordered, Moves, In
<1>4. Books(on, m)
  <2>1. Owned(m) = Owned(s)
    BY <1>2, OwnedFrame
  <2> QED
    BY <1>1, <1>2, <2>1 DEF Books
<1>5. ASSUME NEW x \in Requests, m.status[x] \in Before
      PROVE  Progressed(on, m, x) /\ m.coming[x] = Coming(on, q, U \ {r}, x)
  <2>1. Progressed(on, s, x) /\ s.coming[x] = Coming(on, q, U, x)
    BY <1>1, <1>2, <1>5 DEF Progress
  <2>2. CASE x # r
    <3>1. m.tokens[x] = s.tokens[x] /\ m.coming[x] = s.coming[x]
      BY <1>1, <2>2, MoreOthers
    <3> QED
      BY <1>2, <2>1, <2>2, <3>1 DEF Progressed, Coming
  <2>3. CASE x = r
    <3>1. /\ s.computed[r] \in Nat /\ s.tokens[r] \in Nat /\ s.coming[r] \in Nat
          /\ m.coming[r] \in Nat
      BY <1>1, <1>2, Fields
    <3>2. Count(q, r) \in Nat
      BY <1>1, CountFacts DEF Flight
    <3>3. m.coming[r] = Coming(on, q, U \ {r}, r)
      <4>1. CASE on.depth > 1
        <5>1. s.coming[r] = Count(q, r) + 1
          BY <2>1, <2>3, <4>1 DEF Coming
        <5> QED
          BY <1>2, <3>2, <4>1, <5>1 DEF Coming
      <4>2. CASE ~ (on.depth > 1)
        <5>1. s.coming[r] = 0
          BY <2>1, <2>3, <4>2 DEF Coming
        <5> QED
          BY <1>2, <4>2, <5>1 DEF Coming
      <4> QED
        BY <4>1, <4>2
    <3>5. PICK L : L = Limit(on, r)
      OBVIOUS
    <3>6. L \in Int
      <4>1. on.prompt[r] \in Nat /\ on.max[r] \in Nat
        BY Deployed
      <4> QED
        BY <3>5, <4>1 DEF Limit
    <3>7. PICK a, b, c, d, k : /\ a = s.computed[r] /\ b = s.tokens[r] /\ c = s.coming[r]
                               /\ d = m.coming[r] /\ k = on.size * s.held[r]
      OBVIOUS
    <3>8. /\ a \in Nat /\ b \in Nat /\ c \in Nat /\ d \in Nat /\ d = (IF c >= 1 THEN c - 1 ELSE 0)
          /\ a <= k /\ a <= b + c /\ b >= 1 /\ b < L /\ b + c <= L /\ b + 1 < L
          /\ s.status[r] = "waiting" => a < b
          /\ s.status[r] = "running" /\ c > 0 => a + 1 >= b + c
      BY <1>2, <2>1, <2>3, <3>1, <3>5, <3>7 DEF Progressed
    <3>9. /\ a <= (b + 1) + d /\ b + 1 >= 1 /\ (b + 1) + d <= L
          /\ s.status[r] = "waiting" => a < b + 1
          /\ s.status[r] = "running" /\ d > 0 => a + 1 >= (b + 1) + d
      BY <3>6, <3>8
    <3>10. Progressed(on, m, r)
      BY <1>2, <3>5, <3>7, <3>8, <3>9 DEF Progressed
    <3> QED
      BY <2>3, <3>3, <3>10
  <2> QED
    BY <2>2, <2>3
<1>6. Progress(on, m, q, U \ {r})
  BY <1>5 DEF Progress
<1>7. Flight(on, m, q, {})
  BY <1>1, <1>2 DEF Flight
<1>8. Fences(on, m, q)
  BY <1>1, <1>2, FencesFrame
<1> QED
  BY <1>2, <1>3, <1>4, <1>6, <1>7, <1>8 DEF Sound

(* The request stops: its blocks are free, or they are sent first. *)
Held(s, r) == [Leave(s, r) EXCEPT !.status[r] = "held", !.moving = @ \cup {r}]
Gone(s, r) == [Leave(s, r) EXCEPT !.status[r] = "gone"]

LEMMA HeldFields ==
  ASSUME NEW s \in SchedulerState, NEW r \in Requests, NEW u, u = Held(s, r)
  PROVE  /\ u \in SchedulerState /\ u.status[r] = "held" /\ u.moving = s.moving \cup {r}
         /\ \A x \in Requests : x # r => u.status[x] = s.status[x]
         /\ u.running = Without(s.running, r) /\ u.waiting = Without(s.waiting, r)
         /\ u.skipped = Without(s.skipped, r) /\ u.computed = s.computed /\ Untouched(s, u)
         /\ u.recved = s.recved
<1>1. PICK l : l = Leave(s, r)
  OBVIOUS
<1>2. /\ l \in SchedulerState
      /\ l.running = Without(s.running, r) /\ l.waiting = Without(s.waiting, r)
      /\ l.skipped = Without(s.skipped, r)
      /\ l.status = s.status /\ l.computed = s.computed /\ Untouched(s, l)
      /\ l.moving = s.moving /\ l.recved = s.recved
  BY <1>1, LeaveFields
<1>3. u = [l EXCEPT !.status[r] = "held", !.moving = @ \cup {r}]
  BY <1>1 DEF Held
<1>4. u \in SchedulerState
  <2>1. l.status \in [Requests -> Where] /\ l.moving \subseteq Requests /\ "held" \in Where
    BY <1>2, Fields DEF Where
  <2>2. [l.status EXCEPT ![r] = "held"] \in [Requests -> Where] /\ l.moving \cup {r} \in SUBSET Requests
    BY <2>1
  <2> QED
    BY <1>2, <1>3, <2>2, ZenonT(60) DEF SchedulerState
<1>5. /\ u.status = [l.status EXCEPT ![r] = "held"] /\ u.moving = l.moving \cup {r}
      /\ u.running = l.running /\ u.waiting = l.waiting /\ u.skipped = l.skipped
      /\ u.computed = l.computed /\ u.recved = l.recved
  BY <1>2, <1>3 DEF SchedulerState
<1>6. Untouched(l, u)
  BY <1>2, <1>3 DEF SchedulerState, Untouched
<1>7. Untouched(s, u)
  BY <1>2, <1>6 DEF Untouched
<1>8. l.status \in [Requests -> Where]
  BY <1>2, Fields
<1>9. u.status[r] = "held" /\ \A x \in Requests : x # r => u.status[x] = s.status[x]
  BY <1>2, <1>5, <1>8
<1> QED
  BY <1>2, <1>4, <1>5, <1>7, <1>9

LEMMA GoneFields ==
  ASSUME NEW s \in SchedulerState, NEW r \in Requests, NEW u, u = Gone(s, r)
  PROVE  /\ u \in SchedulerState /\ u.status[r] = "gone" /\ u.moving = s.moving
         /\ \A x \in Requests : x # r => u.status[x] = s.status[x]
         /\ u.running = Without(s.running, r) /\ u.waiting = Without(s.waiting, r)
         /\ u.skipped = Without(s.skipped, r) /\ u.computed = s.computed /\ Untouched(s, u)
         /\ u.recved = s.recved
<1>1. PICK l : l = Leave(s, r)
  OBVIOUS
<1>2. /\ l \in SchedulerState
      /\ l.running = Without(s.running, r) /\ l.waiting = Without(s.waiting, r)
      /\ l.skipped = Without(s.skipped, r)
      /\ l.status = s.status /\ l.computed = s.computed /\ Untouched(s, l)
      /\ l.moving = s.moving /\ l.recved = s.recved
  BY <1>1, LeaveFields
<1>3. u = [l EXCEPT !.status[r] = "gone"]
  BY <1>1 DEF Gone
<1>4. u \in SchedulerState
  <2>1. l.status \in [Requests -> Where] /\ l.moving \subseteq Requests /\ "gone" \in Where
    BY <1>2, Fields DEF Where
  <2>2. [l.status EXCEPT ![r] = "gone"] \in [Requests -> Where] /\ l.moving \cup {r} \in SUBSET Requests
    BY <2>1
  <2> QED
    BY <1>2, <1>3, <2>2 DEF SchedulerState
<1>5. /\ u.status = [l.status EXCEPT ![r] = "gone"] /\ u.moving = l.moving
      /\ u.running = l.running /\ u.waiting = l.waiting /\ u.skipped = l.skipped
      /\ u.computed = l.computed /\ u.recved = l.recved
  BY <1>2, <1>3 DEF SchedulerState
<1>6. Untouched(l, u)
  BY <1>2, <1>3 DEF SchedulerState, Untouched
<1>7. Untouched(s, u)
  BY <1>2, <1>6 DEF Untouched
<1>8. l.status \in [Requests -> Where]
  BY <1>2, Fields
<1>9. u.status[r] = "gone" /\ \A x \in Requests : x # r => u.status[x] = s.status[x]
  BY <1>2, <1>5, <1>8
<1> QED
  BY <1>2, <1>4, <1>5, <1>7, <1>9

-----------------------------------------------------------------------------
(* The results of a batch keep the invariant. *)

LEMMA Quiet ==
  ASSUME NEW s, NEW dn, Moves(s, dn), NEW r, s.status[r] \in {"waiting", "running"}
  PROVE  r \notin s.moving /\ r \notin dn /\ r \notin s.recved
  BY DEF Moves

LEMMA HeldSound ==
  ASSUME on \in Deployments, NEW s, NEW q, NEW dn, NEW U, Sound(on, s, q, dn, U, {}),
         NEW r \in Requests, s.status[r] \in {"waiting", "running"}, s.held[r] > 0,
         NEW m, m = More(s, r), NEW u, u = Held(m, r)
  PROVE  Sound(on, u, q, dn, U \ {r}, {}) /\ u.status[r] = "held"
         /\ \A x \in Requests : x # r => u.status[x] = s.status[x]
<1>1. s \in SchedulerState /\ Moves(s, dn)
  BY DEF Sound
<1>2. /\ m \in SchedulerState
      /\ m.status = s.status /\ m.running = s.running /\ m.waiting = s.waiting
      /\ m.skipped = s.skipped /\ m.computed = s.computed /\ m.held = s.held
      /\ m.free = s.free /\ m.deferred = s.deferred /\ m.ahead = s.ahead /\ m.last = s.last
      /\ m.moving = s.moving /\ m.recved = s.recved
  BY <1>1, MoreFields
<1>3. /\ u \in SchedulerState /\ u.status[r] = "held" /\ u.moving = m.moving \cup {r}
      /\ \A x \in Requests : x # r => u.status[x] = m.status[x]
      /\ u.running = Without(m.running, r) /\ u.waiting = Without(m.waiting, r)
      /\ u.skipped = Without(m.skipped, r) /\ u.computed = m.computed /\ Untouched(m, u)
      /\ u.recved = m.recved
  BY <1>2, HeldFields
<1>4. /\ u.held = s.held /\ u.free = s.free /\ u.deferred = s.deferred /\ u.ahead = s.ahead
      /\ u.last = s.last /\ u.tokens = m.tokens /\ u.coming = m.coming
  BY <1>2, <1>3 DEF Untouched
<1>5. ASSUME NEW x \in Requests, x # r
      PROVE  /\ u.status[x] = s.status[x] /\ u.computed[x] = s.computed[x]
             /\ u.tokens[x] = s.tokens[x] /\ u.coming[x] = s.coming[x]
             /\ (x \in U \ {r} <=> x \in U) /\ (x \in u.moving <=> x \in s.moving)
  <2>1. m.tokens[x] = s.tokens[x] /\ m.coming[x] = s.coming[x]
    BY <1>1, <1>5, MoreOthers
  <2> QED
    BY <1>2, <1>3, <1>4, <1>5, <2>1
<1>6. Moves(u, dn)
  <2>1. r \notin s.moving /\ r \notin dn /\ r \notin s.recved
    BY <1>1, Quiet
  <2>2. u.moving = s.moving \cup {r} /\ u.recved = s.recved
    BY <1>2, <1>3
  <2>3. dn \subseteq Requests /\ s.moving \subseteq Requests /\ s.recved \subseteq Requests
    BY <1>1, Fields DEF Moves
  <2>4. ASSUME NEW x \in u.moving \cup dn PROVE u.status[x] \in {"remote", "held"}
    BY <1>1, <1>3, <1>5, <2>2, <2>3 DEF Moves
  <2>5. ASSUME NEW x \in u.recved PROVE u.status[x] = "remote"
    BY <1>1, <1>5, <2>1, <2>2, <2>3 DEF Moves
  <2> QED
    BY <1>1, <2>1, <2>2, <2>3, <2>4, <2>5 DEF Moves
<1>7. Sound(on, u, q, dn, U \ {r}, {})
  <2>1. PICK V : V = U \ {r}
    OBVIOUS
  <2>2. /\ u.running = Without(s.running, r) /\ u.waiting = Without(s.waiting, r)
        /\ u.skipped = Without(s.skipped, r) /\ u.status[r] \in {"held", "gone"}
        /\ s.status[r] # "out" /\ u.status[r] = "held"
    BY <1>2, <1>3
  <2>3. \A x \in Requests : x # r =>
          /\ u.status[x] = s.status[x] /\ u.computed[x] = s.computed[x]
          /\ u.tokens[x] = s.tokens[x] /\ u.coming[x] = s.coming[x] /\ (x \in V <=> x \in U)
          /\ (x \in u.moving <=> x \in s.moving)
    BY <1>5, <2>1
  <2>4. Sound(on, u, q, dn, V, {})
    BY <1>3, <1>4, <1>6, <2>2, <2>3, QuitSound
  <2> QED
    BY <2>1, <2>4
<1> QED
  BY <1>3, <1>5, <1>7

LEMMA StopSound ==
  ASSUME on \in Deployments, NEW s, NEW q, NEW dn, NEW U, Sound(on, s, q, dn, U, {}),
         NEW r \in Requests, s.status[r] \in {"waiting", "running"},
         NEW m, m = More(s, r), NEW t, t = FreeRequestBlocks(Gone(m, r), r)
  PROVE  Sound(on, t, q, dn, U \ {r}, {}) /\ t.status[r] = "gone"
         /\ \A x \in Requests : x # r => t.status[x] = s.status[x]
<1>1. s \in SchedulerState /\ Moves(s, dn)
  BY DEF Sound
<1>2. /\ m \in SchedulerState
      /\ m.status = s.status /\ m.running = s.running /\ m.waiting = s.waiting
      /\ m.skipped = s.skipped /\ m.computed = s.computed /\ m.held = s.held
      /\ m.free = s.free /\ m.deferred = s.deferred /\ m.ahead = s.ahead /\ m.last = s.last
      /\ m.moving = s.moving /\ m.recved = s.recved
  BY <1>1, MoreFields
<1>10. PICK u : u = Gone(m, r)
  OBVIOUS
<1>3. /\ u \in SchedulerState /\ u.status[r] = "gone" /\ u.moving = m.moving
      /\ \A x \in Requests : x # r => u.status[x] = m.status[x]
      /\ u.running = Without(m.running, r) /\ u.waiting = Without(m.waiting, r)
      /\ u.skipped = Without(m.skipped, r) /\ u.computed = m.computed /\ Untouched(m, u)
      /\ u.recved = m.recved
  BY <1>2, <1>10, GoneFields
<1>4. /\ u.held = s.held /\ u.free = s.free /\ u.deferred = s.deferred /\ u.ahead = s.ahead
      /\ u.last = s.last /\ u.tokens = m.tokens /\ u.coming = m.coming
  BY <1>2, <1>3 DEF Untouched
<1>5. ASSUME NEW x \in Requests, x # r
      PROVE  /\ u.status[x] = s.status[x] /\ u.computed[x] = s.computed[x]
             /\ u.tokens[x] = s.tokens[x] /\ u.coming[x] = s.coming[x]
             /\ (x \in U \ {r} <=> x \in U) /\ (x \in u.moving <=> x \in s.moving)
  <2>1. m.tokens[x] = s.tokens[x] /\ m.coming[x] = s.coming[x]
    BY <1>1, <1>5, MoreOthers
  <2> QED
    BY <1>2, <1>3, <1>4, <1>5, <2>1
<1>6. Moves(u, dn)
  <2>1. r \notin s.moving /\ r \notin dn /\ r \notin s.recved
    BY <1>1, Quiet
  <2>2. u.moving = s.moving /\ u.recved = s.recved
    BY <1>2, <1>3
  <2>3. dn \subseteq Requests /\ s.moving \subseteq Requests /\ s.recved \subseteq Requests
    BY <1>1, Fields DEF Moves
  <2>4. ASSUME NEW x \in u.moving \cup dn PROVE u.status[x] \in {"remote", "held"}
    BY <1>1, <1>5, <2>1, <2>2, <2>3 DEF Moves
  <2>5. ASSUME NEW x \in u.recved PROVE u.status[x] = "remote"
    BY <1>1, <1>5, <2>1, <2>2, <2>3 DEF Moves
  <2> QED
    BY <1>1, <2>1, <2>2, <2>3, <2>4, <2>5 DEF Moves
<1>7. Sound(on, t, q, dn, U \ {r}, {})
  <2>1. PICK V : V = U \ {r}
    OBVIOUS
  <2>2. /\ u.running = Without(s.running, r) /\ u.waiting = Without(s.waiting, r)
        /\ u.skipped = Without(s.skipped, r) /\ u.status[r] \in {"held", "gone"}
        /\ s.status[r] # "out" /\ u.status[r] = "gone"
    BY <1>2, <1>3
  <2>3. \A x \in Requests : x # r =>
          /\ u.status[x] = s.status[x] /\ u.computed[x] = s.computed[x]
          /\ u.tokens[x] = s.tokens[x] /\ u.coming[x] = s.coming[x] /\ (x \in V <=> x \in U)
          /\ (x \in u.moving <=> x \in s.moving)
    BY <1>5, <2>1
  <2>4. Sound(on, FreeRequestBlocks(u, r), q, dn, V, {})
    BY <1>3, <1>4, <1>6, <2>2, <2>3, QuitSound
  <2> QED
    BY <1>10, <2>1, <2>4
<1>8. t.status = u.status
  <2>1. t = FreeRequestBlocks(u, r)
    BY <1>10
  <2>2. Elsewhere(u, t)
    BY <1>3, <2>1, FreeFields
  <2> QED
    BY <2>2 DEF Elsewhere
<1> QED
  BY <1>3, <1>5, <1>7, <1>8

(* One token of a batch. *)
LEMMA OutputStep ==
  ASSUME on \in Deployments, NEW s, NEW q, NEW dn, NEW U, Sound(on, s, q, dn, U, {}),
         Placed(s, U), NEW r \in U, NEW stops, NEW t, t = Output(s, r, stops)
  PROVE  Sound(on, t, q, dn, U \ {r}, {}) /\ Placed(t, U \ {r})
<1>1. /\ r \in Requests /\ s.status[r] \in {"waiting", "running", "held", "gone"}
      /\ s \in SchedulerState
  BY DEF Placed, Sound
<1>2. SUFFICES /\ Sound(on, t, q, dn, U \ {r}, {})
               /\ \A x \in Requests : x # r => t.status[x] = s.status[x]
  BY DEF Placed
<1>3. CASE s.status[r] \in {"held", "gone"}
  <2>1. t = s
    BY <1>3 DEF Output
  <2>2. ASSUME NEW x \in Requests, s.status[x] \in Before
        PROVE  Progressed(on, s, x) /\ s.coming[x] = Coming(on, q, U \ {r}, x)
    <3>1. x # r
      BY <1>3, <2>2 DEF Before
    <3>2. Progressed(on, s, x) /\ s.coming[x] = Coming(on, q, U, x)
      BY <2>2 DEF Sound, Progress
    <3> QED
      BY <3>1, <3>2 DEF Coming
  <2>3. Progress(on, s, q, U \ {r})
    BY <2>2 DEF Progress
  <2> QED
    BY <2>1, <2>3 DEF Sound
<1>4. CASE s.status[r] \in {"waiting", "running"}
  <2>1. PICK m : m = More(s, r)
    OBVIOUS
  <2>2. m \in SchedulerState /\ m.held = s.held /\ m.status = s.status
    BY <1>1, <2>1, MoreFields
  <2> DEFINE full == m.tokens[r] - Prompt[r] >= MaxTokens[r]
  <2>3. t = IF full /\ Producer /\ s.held[r] > 0 THEN Held(m, r)
            ELSE IF full \/ stops THEN FreeRequestBlocks(Gone(m, r), r)
            ELSE m
    BY <1>4, <2>1 DEF Output, More, Held, Gone, FreeBlocks
  <2>4. CASE full /\ Producer /\ s.held[r] > 0
    <3>1. t = Held(m, r)
      BY <2>3, <2>4
    <3> QED
      BY <1>1, <1>4, <2>1, <2>4, <3>1, HeldSound
  <2>5. CASE ~ (full /\ Producer /\ s.held[r] > 0) /\ (full \/ stops)
    <3>1. t = FreeRequestBlocks(Gone(m, r), r)
      BY <2>3, <2>5
    <3> QED
      BY <1>1, <1>4, <2>1, <3>1, StopSound
  <2>6. CASE ~ full /\ ~ stops
    <3>1. t = m
      BY <2>3, <2>6
    <3>2. m.tokens[r] < Limit(on, r)
      <4>1. /\ m.tokens[r] \in Nat /\ on.prompt[r] \in Nat /\ on.max[r] \in Nat
        BY <1>1, <2>2, Fields, Deployed
      <4> QED
        BY <2>6, <4>1 DEF Limit, Prompt, MaxTokens
    <3>3. Sound(on, m, q, dn, U \ {r}, {})
      BY <1>1, <1>4, <2>1, <3>2, MoreSound
    <3> QED
      BY <2>2, <3>1, <3>3
  <2> QED
    BY <2>4, <2>5, <2>6
<1> QED
  BY <1>1, <1>3, <1>4

Rest(U, i) == {x \in U : x > i}

LEMMA RestFacts ==
  ASSUME NEW U \in SUBSET Requests, NEW i \in Nat, i > 0
  PROVE  /\ i \in U => Rest(U, i) = Rest(U, i - 1) \ {i} /\ i \in Rest(U, i - 1)
         /\ i \notin U => Rest(U, i) = Rest(U, i - 1)
<1>1. U \subseteq Int
  BY RequestNumbers
<1>2. ASSUME NEW x \in U PROVE x > i <=> x > i - 1 /\ x # i
  BY <1>1
<1> QED
  BY <1>2 DEF Rest

LEMMA RestEnds ==
  ASSUME NEW U \in SUBSET Requests
  PROVE  Rest(U, 0) = U /\ Rest(U, Cardinality(Requests)) = {} /\ Cardinality(Requests) \in Nat
<1>1. Cardinality(Requests) \in Nat /\ Requests = 1 .. Cardinality(Requests)
  BY RequestsAssumption, FS_CardinalityType
<1>2. ASSUME NEW x \in U PROVE x > 0 /\ ~ (x > Cardinality(Requests))
  <2>1. PICK n : n = Cardinality(Requests)
    OBVIOUS
  <2>2. x \in 1 .. n /\ n \in Nat
    BY <1>1, <2>1
  <2> QED
    BY <2>1, <2>2
<1> QED
  BY <1>1, <1>2 DEF Rest

LEMMA OutputsSound ==
  ASSUME on \in Deployments, NEW s, NEW q, NEW dn, NEW U, Sound(on, s, q, dn, U, {}),
         Placed(s, U), NEW stops, NEW t, t = Outputs(s, U, stops)
  PROVE  Sound(on, t, q, dn, {}, {})
<1> DEFINE Part(x, i) == Sound(on, x, q, dn, Rest(U, i), {}) /\ Placed(x, Rest(U, i))
           Good == {g \in Int \X SchedulerState : Part(g[2], g[1])}
<1>1. s \in SchedulerState /\ U \in SUBSET Requests
  BY DEF Sound, Placed
<1>2. PICK n : n = Cardinality(Requests)
  OBVIOUS
<1>3. n \in Nat /\ Rest(U, 0) = U /\ Rest(U, n) = {}
  BY <1>1, <1>2, RestEnds
<1>4. <<0, s>> \in Good
  BY <1>1, <1>3
<1>5. ASSUME NEW i \in 1 .. n, NEW u, <<i - 1, u>> \in Good
      PROVE  <<i, OutputOf(u, i, U, stops)>> \in Good
  <2>1. /\ Sound(on, u, q, dn, Rest(U, i - 1), {}) /\ Placed(u, Rest(U, i - 1))
        /\ u \in SchedulerState /\ i \in Nat /\ i > 0
    BY <1>3, <1>5
  <2>2. PICK v : v = OutputOf(u, i, U, stops)
    OBVIOUS
  <2>3. Part(v, i)
    <3>1. CASE i \in U
      <4>1. Rest(U, i) = Rest(U, i - 1) \ {i} /\ i \in Rest(U, i - 1)
        BY <1>1, <2>1, <3>1, RestFacts
      <4>2. v = Output(u, i, i \in stops)
        BY <2>2, <3>1 DEF OutputOf
      <4>3. PICK b : b = (i \in stops)
        OBVIOUS
      <4>4. v = Output(u, i, b)
        BY <4>2, <4>3
      <4>5. PICK W : W = Rest(U, i - 1)
        OBVIOUS
      <4>6. Sound(on, v, q, dn, W \ {i}, {}) /\ Placed(v, W \ {i})
        BY <2>1, <4>1, <4>4, <4>5, OutputStep
      <4> QED
        BY <4>1, <4>5, <4>6
    <3>2. CASE i \notin U
      <4>1. Rest(U, i) = Rest(U, i - 1)
        BY <1>1, <2>1, <3>2, RestFacts
      <4>2. v = u
        BY <2>2, <3>2 DEF OutputOf
      <4> QED
        BY <2>1, <4>1, <4>2
    <3> QED
      BY <3>1, <3>2
  <2>4. v \in SchedulerState
    BY <2>3 DEF Sound
  <2> QED
    BY <2>1, <2>2, <2>3, <2>4
<1> HIDE DEF Good
<1>6. <<n, t>> \in Good
  BY <1>2, <1>3, <1>4, <1>5, OutputsLoop
<1> QED
  BY <1>3, <1>6 DEF Good

-----------------------------------------------------------------------------
(* The transfers that are over. *)

LEMMA ArrivedSound ==
  ASSUME on \in Deployments, NEW s, NEW q, NEW dn, Sound(on, s, q, dn, {}, {}), NEW r \in dn,
         s.status[r] = "remote", NEW t, t = [s EXCEPT !.recved = @ \cup {r}]
  PROVE  Sound(on, t, q, dn \ {r}, {}, {})
<1>1. /\ s \in SchedulerState /\ Lines(on, s) /\ Ordered(on, s) /\ Books(on, s) /\ Moves(s, dn)
      /\ Progress(on, s, q, {}) /\ Flight(on, s, q, {}) /\ Fences(on, s, q)
  BY DEF Sound
<1>2. /\ r \in Requests /\ dn \subseteq Requests /\ s.moving \subseteq Requests
      /\ s.recved \subseteq Requests /\ r \notin s.moving /\ r \notin s.recved
  BY <1>1, Fields DEF Moves
<1>3. t \in SchedulerState
  BY <1>1, <1>2 DEF SchedulerState
<1>4. /\ t.status = s.status /\ t.running = s.running /\ t.waiting = s.waiting
      /\ t.skipped = s.skipped /\ t.computed = s.computed /\ t.tokens = s.tokens
      /\ t.coming = s.coming /\ t.held = s.held /\ t.moving = s.moving
      /\ t.recved = s.recved \cup {r} /\ t.ahead = s.ahead /\ t.last = s.last
      /\ t.free = s.free /\ t.deferred = s.deferred
  BY <1>1 DEF SchedulerState
<1>5. Lines(on, t) /\ Ordered(on, t)
  BY <1>1, <1>4 DEF Lines, Ordered, In
<1>6. Books(on, t)
  <2>1. Owned(t) = Owned(s)
    BY <1>4, OwnedFrame
  <2> QED
    BY <1>1, <1>4, <2>1 DEF Books
<1>7. Moves(t, dn \ {r})
  BY <1>1, <1>2, <1>4 DEF Moves
<1>8. Progress(on, t, q, {}) /\ Flight(on, t, q, {})
  BY <1>1, <1>4 DEF Progress, Progressed, Flight
<1>9. Fences(on, t, q)
  BY <1>1, <1>4, FencesFrame
<1> QED
  BY <1>3, <1>5, <1>6, <1>7, <1>8, <1>9 DEF Sound

LEMMA SentSound ==
  ASSUME on \in Deployments, NEW s, NEW q, NEW dn, Sound(on, s, q, dn, {}, {}), NEW r \in dn,
         s.status[r] = "held", NEW t, t = FreeBlocks(s, r)
  PROVE  Sound(on, t, q, dn \ {r}, {}, {})
<1>1. /\ s \in SchedulerState /\ Lines(on, s) /\ Ordered(on, s) /\ Books(on, s) /\ Moves(s, dn)
  BY DEF Sound
<1>2. /\ r \in Requests /\ dn \subseteq Requests /\ s.moving \subseteq Requests
      /\ s.recved \subseteq Requests /\ r \notin s.moving /\ r \notin s.recved
  BY <1>1, Fields DEF Moves
<1>3. PICK u : u = [s EXCEPT !.status[r] = "gone"]
  OBVIOUS
<1>4. u \in SchedulerState
  <2>1. s.status \in [Requests -> Where] /\ "gone" \in Where
    BY <1>1, Fields DEF Where
  <2>2. [s.status EXCEPT ![r] = "gone"] \in [Requests -> Where]
    BY <2>1
  <2> QED
    BY <1>1, <1>3, <2>2 DEF SchedulerState
<1>5. /\ u.status = [s.status EXCEPT ![r] = "gone"] /\ u.running = s.running
      /\ u.waiting = s.waiting /\ u.skipped = s.skipped /\ u.computed = s.computed
      /\ u.tokens = s.tokens /\ u.coming = s.coming /\ u.held = s.held /\ u.moving = s.moving
      /\ u.recved = s.recved /\ u.ahead = s.ahead /\ u.last = s.last
      /\ u.free = s.free /\ u.deferred = s.deferred
  BY <1>1, <1>3 DEF SchedulerState
<1>6. u.status[r] = "gone"
  BY <1>1, <1>2, <1>5, Fields
<1>7. ASSUME NEW x \in Requests, x # r PROVE u.status[x] = s.status[x]
  <2>1. s.status \in [Requests -> Where]
    BY <1>1, Fields
  <2> QED
    BY <1>5, <1>7, <2>1
<1>8. Lines(on, u)
  <2>1. /\ In(u, "running") = In(s, "running") /\ In(u, "waiting") = In(s, "waiting")
        /\ In(u, "remote") = In(s, "remote")
    BY <1>6, <1>7 DEF In
  <2> QED
    BY <1>1, <1>5, <2>1 DEF Lines
<1>9. Ordered(on, u)
  <2>1. ASSUME NEW a \in Requests, NEW b \in Requests, u.status[a] # "out", u.status[b] = "out"
        PROVE  a < b
    <3>1. s.status[a] # "out" /\ s.status[b] = "out"
      BY <1>6, <1>7, <2>1
    <3> QED
      BY <1>1, <3>1 DEF Ordered
  <2> QED
    BY <1>1, <1>5, <2>1 DEF Ordered
<1>10. Moves(u, dn \ {r})
  <2>1. ASSUME NEW x \in u.moving \cup (dn \ {r}) PROVE u.status[x] \in {"remote", "held"}
    BY <1>1, <1>2, <1>5, <1>7 DEF Moves
  <2>2. ASSUME NEW x \in u.recved PROVE u.status[x] = "remote"
    BY <1>1, <1>2, <1>5, <1>7 DEF Moves
  <2> QED
    BY <1>1, <1>2, <1>5, <2>1, <2>2 DEF Moves
<1>11. Progress(on, u, q, {}) /\ Flight(on, u, q, {}) /\ Fences(on, u, q)
  <2>3. PICK V : V = {}
    OBVIOUS
  <2>1. \A x \in Requests : x # r =>
           /\ u.status[x] = s.status[x] /\ u.computed[x] = s.computed[x]
           /\ u.tokens[x] = s.tokens[x] /\ u.coming[x] = s.coming[x] /\ (x \in V <=> x \in V)
    BY <1>5, <1>7
  <2>2. u.status[r] \in {"held", "gone"}
    BY <1>6
  <2>5. Sound(on, s, q, dn, V, V)
    BY <2>3
  <2>6. u.held = s.held /\ u.deferred = s.deferred /\ u.ahead = s.ahead /\ u.last = s.last
    BY <1>5
  <2>4. Progress(on, u, q, V) /\ Flight(on, u, q, V) /\ Fences(on, u, q)
    BY <1>2, <2>1, <2>2, <2>5, <2>6, QuitCounts
  <2> QED
    BY <2>3, <2>4
<1>12. Owned(u) = on.blocks
  <2>1. Owned(u) = Owned(s)
    BY <1>5, OwnedFrame
  <2> QED
    BY <1>1, <2>1 DEF Books
<1>13. ASSUME NEW x \in Requests, x # r
       PROVE  /\ u.status[x] \in {"out", "gone"} => u.held[x] = 0
              /\ u.status[x] = "running" \/ x \in u.moving => u.held[x] > 0
  BY <1>1, <1>5, <1>7, <1>13 DEF Books
<1>14. t = FreeRequestBlocks(u, r)
  BY <1>3 DEF FreeBlocks
<1>15. PICK D : D = dn \ {r}
  OBVIOUS
<1>16. Sound(on, t, q, D, {}, {})
  BY <1>2, <1>4, <1>6, <1>8, <1>9, <1>10, <1>11, <1>12, <1>13, <1>14, <1>15, GoneSound
<1> QED
  BY <1>15, <1>16

LEMMA TransferStep ==
  ASSUME on \in Deployments, NEW s, NEW q, NEW dn, Sound(on, s, q, dn, {}, {}), NEW r \in dn,
         NEW t, t = Transferred(s, r)
  PROVE  Sound(on, t, q, dn \ {r}, {}, {})
<1>1. s.status[r] \in {"remote", "held"}
  BY DEF Sound, Moves
<1>2. CASE s.status[r] = "remote"
  <2>1. t = [s EXCEPT !.recved = @ \cup {r}]
    BY <1>2 DEF Transferred
  <2> QED
    BY <1>2, <2>1, ArrivedSound
<1>3. CASE s.status[r] = "held"
  <2>1. t = FreeBlocks(s, r)
    BY <1>3 DEF Transferred
  <2> QED
    BY <1>3, <2>1, SentSound
<1> QED
  BY <1>1, <1>2, <1>3

LEMMA TransfersSound ==
  ASSUME on \in Deployments, NEW s, NEW q, NEW dn, Sound(on, s, q, dn, {}, {}),
         NEW t, t = Transfers(s, dn)
  PROVE  Sound(on, t, q, {}, {}, {})
<1> DEFINE Part(x, i) == Sound(on, x, q, Rest(dn, i), {}, {})
           Good == {g \in Int \X SchedulerState : Part(g[2], g[1])}
<1>1. s \in SchedulerState /\ dn \in SUBSET Requests
  BY DEF Sound, Moves
<1>2. PICK n : n = Cardinality(Requests)
  OBVIOUS
<1>3. n \in Nat /\ Rest(dn, 0) = dn /\ Rest(dn, n) = {}
  BY <1>1, <1>2, RestEnds
<1>4. <<0, s>> \in Good
  BY <1>1, <1>3
<1>5. ASSUME NEW i \in 1 .. n, NEW u, <<i - 1, u>> \in Good
      PROVE  <<i, TransferOf(u, i, dn)>> \in Good
  <2>1. Sound(on, u, q, Rest(dn, i - 1), {}, {}) /\ u \in SchedulerState /\ i \in Nat /\ i > 0
    BY <1>3, <1>5
  <2>2. PICK v : v = TransferOf(u, i, dn)
    OBVIOUS
  <2>3. Part(v, i)
    <3>1. CASE i \in dn
      <4>1. Rest(dn, i) = Rest(dn, i - 1) \ {i} /\ i \in Rest(dn, i - 1)
        BY <1>1, <2>1, <3>1, RestFacts
      <4>2. v = Transferred(u, i)
        BY <2>2, <3>1 DEF TransferOf
      <4>3. PICK W : W = Rest(dn, i - 1)
        OBVIOUS
      <4>4. Sound(on, v, q, W \ {i}, {}, {})
        BY <2>1, <4>1, <4>2, <4>3, TransferStep
      <4> QED
        BY <4>1, <4>3, <4>4
    <3>2. CASE i \notin dn
      <4>1. Rest(dn, i) = Rest(dn, i - 1)
        BY <1>1, <2>1, <3>2, RestFacts
      <4>2. v = u
        BY <2>2, <3>2 DEF TransferOf
      <4> QED
        BY <2>1, <4>1, <4>2
    <3> QED
      BY <3>1, <3>2
  <2>4. v \in SchedulerState
    BY <2>3 DEF Sound
  <2> QED
    BY <2>1, <2>2, <2>3, <2>4
<1> HIDE DEF Good
<1>6. <<n, t>> \in Good
  BY <1>2, <1>3, <1>4, <1>5, TransfersLoop
<1> QED
  BY <1>3, <1>6 DEF Good

-----------------------------------------------------------------------------
(* Every action keeps the invariant. *)

SInv == on \in Deployments /\ Sound(on, e, queue, done, {}, Late(queue))

LEMMA ScheduleKeeps ==
  ASSUME SInv, Schedule
  PROVE  SInv'
<1>1. on \in Deployments /\ Sound(on, e, queue, done, {}, Late(queue)) /\ on.depth \in {1, 2}
  BY Deployed DEF SInv
<1>2. queue \in Seq(Batches) /\ Len(queue) \in Nat /\ Len(queue) < on.depth
  BY <1>1, LenProperties DEF Sound, Flight, Schedule, Depth
<1>3. Len(queue) <= 1 /\ Late(queue) = {}
  <2>1. PICK d, n : d = on.depth /\ n = Len(queue)
    OBVIOUS
  <2>2. d \in {1, 2} /\ n \in Nat /\ n < d
    BY <1>1, <1>2, <2>1
  <2>3. n <= 1 /\ n # 2
    BY <2>2
  <2> QED
    BY <2>1, <2>3 DEF Late
<1>4. PICK w : w = Scheduled
  OBVIOUS
<1>5. Sound(on, e, queue, done, {}, {})
  BY <1>1, <1>3
<1>6. Planned(w, queue, done) /\ Given(on, w.s, w.batch)
  BY <1>1, <1>3, <1>4, <1>5, ScheduledSound
<1>7. PICK t, b : t = AfterSchedule(w) /\ b = [r \in DOMAIN w.batch |-> r \in Sampled(w)]
  OBVIOUS
<1>8. /\ e' = t /\ queue' = Append(queue, b) /\ on' = on /\ done' = done
  BY <1>4, <1>7 DEF Schedule, TakeBatch
<1>9. PICK p : p = Append(queue, b)
  OBVIOUS
<1>10. Sound(on, t, p, done, {}, Late(p))
  BY <1>1, <1>2, <1>6, <1>7, <1>9, TakeSound
<1>11. on' = on /\ e' = t /\ queue' = p /\ done' = done
  BY <1>8, <1>9
<1>12. Late(queue)' = Late(p)
  BY <1>11 DEF Late
<1>13. Sound(on, e, queue, done, {}, Late(queue))' = Sound(on, t, p, done, {}, Late(p))
  BY <1>11 DEF Late
<1> QED
  BY <1>1, <1>10, <1>11, <1>13 DEF SInv

LEMMA UpdateKeeps ==
  ASSUME SInv, UpdateFromOutput
  PROVE  SInv'
<1>1. /\ on \in Deployments /\ Sound(on, e, queue, done, {}, Late(queue)) /\ on.depth \in {1, 2}
      /\ queue # <<>>
  BY Deployed DEF SInv, UpdateFromOutput
<1>2. PICK U, p, s : U = Results(Head(queue)) /\ p = Tail(queue) /\ s = Processed(e, Head(queue))
  OBVIOUS
<1>3. PICK stops : e' = Transfers(Outputs(s, U, stops), done)
  BY <1>2 DEF UpdateFromOutput, Results
<1>4. queue' = p /\ done' = {} /\ on' = on
  BY <1>2 DEF UpdateFromOutput
<1>5. Sound(on, s, p, done, U, {}) /\ Placed(s, U)
  BY <1>1, <1>2, ProcessedSound
<1>6. PICK o : o = Outputs(s, U, stops)
  OBVIOUS
<1>7. Sound(on, o, p, done, {}, {})
  BY <1>1, <1>5, <1>6, OutputsSound
<1>8. PICK t : t = Transfers(o, done)
  OBVIOUS
<1>9. Sound(on, t, p, {}, {}, {})
  BY <1>1, <1>7, <1>8, TransfersSound
<1>10. Late(p) = {}
  <2>1. queue \in Seq(Batches) /\ Len(queue) <= on.depth
    BY <1>1 DEF Sound, Flight
  <2>2. Len(p) = Len(queue) - 1 /\ Len(queue) \in Nat \ {0}
    BY <1>1, <1>2, <2>1, TailFacts
  <2>3. Len(p) # 2
    BY <1>1, <2>1, <2>2
  <2> QED
    BY <2>3 DEF Late
<1>11. Sound(on, t, p, {}, {}, Late(p))
  BY <1>9, <1>10
<1>12. on' = on /\ e' = t /\ queue' = p /\ done' = {}
  BY <1>3, <1>4, <1>6, <1>8
<1>13. Sound(on, e, queue, done, {}, Late(queue))' = Sound(on, t, p, {}, {}, Late(p))
  BY <1>12 DEF Late
<1> QED
  BY <1>1, <1>11, <1>12, <1>13 DEF SInv

(* A request is aborted; it keeps the blocks that a load still writes. *)
Aborted(s, r) ==
  LET v == [Leave(s, r) EXCEPT !.recved = @ \ {r}]
  IN  IF s.status[r] = "remote" /\ r \notin s.recved
      THEN [v EXCEPT !.status[r] = "held"] ELSE FreeBlocks(v, r)

LEMMA AbortSound ==
  ASSUME on \in Deployments, NEW s, NEW q, NEW dn, NEW P, Sound(on, s, q, dn, {}, P),
         NEW r \in Requests, s.status[r] \in {"waiting", "remote", "running"},
         NEW t, t = Aborted(s, r)
  PROVE  Sound(on, t, q, dn, {}, P)
<1>26. PICK v : v = [Leave(s, r) EXCEPT !.recved = @ \ {r}]
  OBVIOUS
<1>27. t = IF s.status[r] = "remote" /\ r \notin s.recved
           THEN [v EXCEPT !.status[r] = "held"] ELSE FreeBlocks(v, r)
  BY <1>26 DEF Aborted
<1>1. s \in SchedulerState /\ Moves(s, dn) /\ Books(on, s)
  BY DEF Sound
<1>2. PICK l : l = Leave(s, r)
  OBVIOUS
<1>3. /\ l \in SchedulerState
      /\ l.running = Without(s.running, r) /\ l.waiting = Without(s.waiting, r)
      /\ l.skipped = Without(s.skipped, r)
      /\ l.status = s.status /\ l.computed = s.computed /\ Untouched(s, l)
      /\ l.moving = s.moving /\ l.recved = s.recved
  BY <1>1, <1>2, LeaveFields
<1>4. PICK R : R = l.recved \ {r}
  OBVIOUS
<1>5. v = [l EXCEPT !.recved = R] /\ R \in SUBSET Requests
  BY <1>2, <1>3, <1>4, <1>26, Fields
<1>6. v \in SchedulerState
  BY <1>3, <1>5 DEF SchedulerState
<1>7. /\ v.running = l.running /\ v.waiting = l.waiting /\ v.skipped = l.skipped
      /\ v.status = l.status /\ v.computed = l.computed /\ v.moving = l.moving /\ v.recved = R
      /\ Untouched(l, v)
  BY <1>3, <1>5 DEF SchedulerState, Untouched
<1>8. PICK where : where = IF s.status[r] = "remote" /\ r \notin s.recved THEN "held" ELSE "gone"
  OBVIOUS
<1>9. PICK u : u = [v EXCEPT !.status[r] = where]
  OBVIOUS
<1>10. where \in {"held", "gone"} /\ where \in Where
  BY <1>8 DEF Where
<1>11. v.status \in [Requests -> Where]
  BY <1>6, Fields
<1>12. u \in SchedulerState
  <2>1. [v.status EXCEPT ![r] = where] \in [Requests -> Where]
    BY <1>10, <1>11
  <2> QED
    BY <1>6, <1>9, <2>1 DEF SchedulerState
<1>13. /\ u.running = v.running /\ u.waiting = v.waiting /\ u.skipped = v.skipped
       /\ u.status = [v.status EXCEPT ![r] = where] /\ u.computed = v.computed
       /\ u.moving = v.moving /\ u.recved = v.recved /\ Untouched(v, u)
  BY <1>6, <1>9 DEF SchedulerState, Untouched
<1>14. /\ u.held = s.held /\ u.free = s.free /\ u.deferred = s.deferred /\ u.ahead = s.ahead
       /\ u.last = s.last /\ u.tokens = s.tokens /\ u.coming = s.coming /\ u.computed = s.computed
       /\ u.running = Without(s.running, r) /\ u.waiting = Without(s.waiting, r)
       /\ u.skipped = Without(s.skipped, r) /\ u.moving = s.moving /\ u.recved = s.recved \ {r}
  BY <1>3, <1>4, <1>7, <1>13 DEF Untouched
<1>15. u.status[r] = where
  BY <1>11, <1>13
<1>16. ASSUME NEW x \in Requests, x # r PROVE u.status[x] = s.status[x]
  BY <1>3, <1>7, <1>11, <1>13, <1>16
<1>17. where = "gone" => r \notin s.moving /\ r \notin dn
  BY <1>1, <1>8, Quiet DEF Moves
<1>18. Moves(u, dn)
  <2>1. dn \subseteq Requests /\ s.moving \subseteq Requests /\ s.recved \subseteq Requests
    BY <1>1, Fields DEF Moves
  <2>2. ASSUME NEW x \in s.moving \cup dn PROVE u.status[x] \in {"remote", "held"}
    <3>1. x \in Requests /\ s.status[x] \in {"remote", "held"}
      BY <1>1, <2>1 DEF Moves
    <3>2. CASE x = r
      BY <1>10, <1>15, <1>17, <3>2
    <3>3. CASE x # r
      BY <1>16, <3>1, <3>3
    <3> QED
      BY <3>2, <3>3
  <2>3. ASSUME NEW x \in s.recved \ {r} PROVE u.status[x] = "remote"
    BY <1>1, <1>16, <2>1 DEF Moves
  <2> QED
    BY <1>1, <1>14, <2>1, <2>2, <2>3 DEF Moves
<1>19. PICK V : V = {}
  OBVIOUS
<1>20. \A x \in Requests : x # r =>
         /\ u.status[x] = s.status[x] /\ u.computed[x] = s.computed[x]
         /\ u.tokens[x] = s.tokens[x] /\ u.coming[x] = s.coming[x] /\ (x \in V <=> x \in V)
         /\ (x \in u.moving <=> x \in s.moving)
  BY <1>14, <1>16
<1>21. s.status[r] # "out" /\ u.status[r] \in {"held", "gone"}
  BY <1>10, <1>15
<1>22. Sound(on, s, q, dn, V, P)
  BY <1>19
<1>23. /\ u.status[r] = "held" /\ (r \in u.moving => s.held[r] > 0) => Sound(on, u, q, dn, V, P)
       /\ u.status[r] = "gone" => Sound(on, FreeRequestBlocks(u, r), q, dn, V, P)
  BY <1>12, <1>14, <1>18, <1>20, <1>21, <1>22, QuitSound
<1>24. CASE where = "held"
  <2>1. t = u
    BY <1>8, <1>9, <1>24, <1>27
  <2>2. r \in u.moving => s.held[r] > 0
    BY <1>1, <1>14 DEF Books
  <2> QED
    BY <1>15, <1>19, <1>23, <1>24, <2>1, <2>2
<1>25. CASE where = "gone"
  <2>1. t = FreeRequestBlocks(u, r)
    BY <1>8, <1>9, <1>25, <1>27 DEF FreeBlocks
  <2> QED
    BY <1>15, <1>19, <1>23, <1>25, <2>1
<1> QED
  BY <1>10, <1>24, <1>25

LEMMA AbortKeeps ==
  ASSUME SInv, NEW r \in Requests, Abort(r)
  PROVE  SInv'
<1>1. on \in Deployments /\ Sound(on, e, queue, done, {}, Late(queue))
  BY DEF SInv
<1>2. PICK s, P, t : s = e /\ P = Late(queue) /\ t = Aborted(s, r)
  OBVIOUS
<1>3. /\ e.status[r] \in {"waiting", "remote", "running"}
      /\ e' = t /\ on' = on /\ queue' = queue /\ done' = done
  BY <1>2 DEF Abort, KeepsLoading, Aborted
<1>4. Sound(on, s, queue, done, {}, P)
  BY <1>1, <1>2
<1>5. Sound(on, t, queue, done, {}, P)
  BY <1>1, <1>2, <1>3, <1>4, AbortSound
<1>6. Sound(on, e, queue, done, {}, Late(queue))' = Sound(on, t, queue, done, {}, P)
  BY <1>2, <1>3 DEF Late
<1> QED
  BY <1>1, <1>3, <1>5, <1>6 DEF SInv

-----------------------------------------------------------------------------
(* Requests come in, transfers end, and the beginning. *)

LEMMA AddedSound ==
  ASSUME on \in Deployments, NEW s, NEW q, NEW dn, NEW P, Sound(on, s, q, dn, {}, P),
         NEW r \in Requests, s.status[r] = "out",
         \A x \in Requests : x < r => s.status[x] # "out",
         NEW t, t = [s EXCEPT !.status[r] = "waiting", !.waiting = Append(@, r)]
  PROVE  Sound(on, t, q, dn, {}, P)
<1>1. /\ s \in SchedulerState /\ Lines(on, s) /\ Ordered(on, s) /\ Books(on, s) /\ Moves(s, dn)
      /\ Progress(on, s, q, {}) /\ Flight(on, s, q, P) /\ Fences(on, s, q)
  BY DEF Sound
<1>2. /\ s.status \in [Requests -> Where] /\ s.waiting \in Seq(Requests)
      /\ s.running \in Seq(Requests) /\ s.held \in [Requests -> Nat]
      /\ s.computed \in [Requests -> Nat] /\ s.tokens \in [Requests -> Nat]
  BY <1>1, Fields
<1>3. PICK a : a = Append(s.waiting, r)
  OBVIOUS
<1>4. t = [s EXCEPT !.status[r] = "waiting", !.waiting = a]
  BY <1>3
<1>5. /\ r \notin Range(s.waiting) /\ r \notin Range(s.skipped) /\ r \notin Range(s.running)
      /\ IsInjective(s.waiting)
  BY <1>1 DEF Lines, In
<1>6. /\ a \in Seq(Requests) /\ Range(a) = Range(s.waiting) \cup {r} /\ IsInjective(a)
  BY <1>2, <1>3, <1>5, AppendDict
<1>7. t \in SchedulerState
  <2>1. [s.status EXCEPT ![r] = "waiting"] \in [Requests -> Where]
    BY <1>2 DEF Where
  <2> QED
    BY <1>1, <1>4, <1>6, <2>1 DEF SchedulerState
<1>8. /\ t.status = [s.status EXCEPT ![r] = "waiting"] /\ t.waiting = a /\ t.running = s.running
      /\ t.skipped = s.skipped /\ t.computed = s.computed /\ t.tokens = s.tokens
      /\ t.coming = s.coming /\ t.held = s.held /\ t.moving = s.moving
      /\ t.recved = s.recved /\ t.ahead = s.ahead /\ t.last = s.last
      /\ t.free = s.free /\ t.deferred = s.deferred
  BY <1>1, <1>4 DEF SchedulerState
<1>9. t.status[r] = "waiting"
  BY <1>2, <1>8
<1>10. ASSUME NEW x \in Requests, x # r PROVE t.status[x] = s.status[x]
  BY <1>2, <1>8, <1>10
<1>11. Lines(on, t)
  <2>1. /\ In(t, "running") = In(s, "running") /\ In(t, "waiting") = In(s, "waiting") \cup {r}
        /\ In(t, "remote") = In(s, "remote")
    BY <1>9, <1>10 DEF In
  <2> QED
    BY <1>1, <1>5, <1>6, <1>8, <2>1 DEF Lines
<1>12. Ordered(on, t)
  <2>1. /\ Rising(on.remote, s.running) /\ Rising(on.remote, s.waiting)
        /\ \A x \in Range(s.running) \ on.remote, y \in Range(s.waiting) \ on.remote : x < y
        /\ \A x, y \in Requests : s.status[x] # "out" /\ s.status[y] = "out" => x < y
    BY <1>1 DEF Ordered
  <2>2. ASSUME NEW x \in Range(s.running) \cup Range(s.waiting) PROVE x < r
    <3>1. x \in Requests /\ s.status[x] # "out"
      BY <1>1 DEF Lines, In
    <3> QED
      BY <2>1, <3>1
  <2>3. Rising(on.remote, a)
    <3>1. r \in on.remote \/ \A x \in Range(s.waiting) \ on.remote : x < r
      BY <2>2
    <3> QED
      BY <1>2, <1>3, <2>1, <3>1, RisingAppend
  <2>4. ASSUME NEW x \in Range(t.running) \ on.remote, NEW y \in Range(t.waiting) \ on.remote
        PROVE  x < y
    <3>1. x \in Range(s.running) \ on.remote /\ (y = r \/ y \in Range(s.waiting) \ on.remote)
      BY <1>6, <1>8
    <3>2. x < r
      BY <2>2, <3>1
    <3> QED
      BY <2>1, <3>1, <3>2
  <2>5. ASSUME NEW x \in Requests, NEW y \in Requests, t.status[x] # "out", t.status[y] = "out"
        PROVE  x < y
    <3>1. y # r /\ s.status[y] = "out"
      BY <1>9, <1>10, <2>5
    <3>2. CASE x = r
      <4>1. x \in Nat /\ y \in Nat /\ ~ (y < r)
        BY <3>1, RequestNumbers
      <4> QED
        BY <3>1, <3>2, <4>1
    <3>3. CASE x # r
      BY <1>10, <2>1, <2>5, <3>1, <3>3
    <3> QED
      BY <3>2, <3>3
  <2> QED
    BY <1>8, <2>1, <2>3, <2>4, <2>5 DEF Ordered
<1>13. Books(on, t)
  <2>1. Owned(t) = Owned(s)
    BY <1>8, OwnedFrame
  <2>2. ASSUME NEW x \in Requests
        PROVE  /\ t.status[x] \in {"out", "gone"} => t.held[x] = 0
               /\ t.status[x] = "running" \/ x \in t.moving => t.held[x] > 0
    BY <1>1, <1>8, <1>9, <1>10 DEF Books
  <2> QED
    BY <1>1, <2>1, <2>2 DEF Books
<1>14. Moves(t, dn)
  <2>1. dn \subseteq Requests /\ s.moving \subseteq Requests /\ s.recved \subseteq Requests
        /\ r \notin s.moving \cup dn \cup s.recved
    BY <1>1, Fields DEF Moves
  <2>2. ASSUME NEW x \in s.moving \cup dn PROVE t.status[x] \in {"remote", "held"}
    BY <1>1, <1>10, <2>1 DEF Moves
  <2>3. ASSUME NEW x \in s.recved PROVE t.status[x] = "remote"
    BY <1>1, <1>10, <2>1 DEF Moves
  <2> QED
    BY <1>1, <1>8, <2>1, <2>2, <2>3 DEF Moves
<1>15. ASSUME NEW x \in Requests, t.status[x] \in Before
       PROVE  Progressed(on, t, x) /\ t.coming[x] = Coming(on, q, {}, x)
  <2>1. s.status[x] \in Before
    BY <1>10, <1>15 DEF Before
  <2>2. Progressed(on, s, x) /\ s.coming[x] = Coming(on, q, {}, x)
    BY <1>1, <2>1 DEF Progress
  <2>3. CASE x # r
    BY <1>8, <1>10, <2>2, <2>3 DEF Progressed
  <2>4. CASE x = r
    <3>1. s.held[r] = 0 /\ on.size \in Nat
      BY <1>1, Deployed DEF Books
    <3>2. s.computed[r] <= on.size * s.held[r] /\ s.tokens[r] >= 1
      BY <2>2, <2>4 DEF Progressed
    <3>3. on.size * s.held[r] = 0
      BY <3>1
    <3>4. s.computed[r] < s.tokens[r]
      BY <1>2, <3>2, <3>3
    <3> QED
      BY <1>8, <1>9, <2>2, <2>4, <3>4 DEF Progressed
  <2> QED
    BY <2>3, <2>4
<1>16. Progress(on, t, q, {})
  BY <1>15 DEF Progress
<1>17. Flight(on, t, q, P)
  <2>1. ASSUME NEW i \in 1 .. Len(q), NEW x \in DOMAIN q[i]
        PROVE  \/ t.status[x] \in {"running", "held", "gone"}
               \/ t.status[x] = "waiting" /\ i = 1 /\ x \in P
    <3>1. /\ x \in Requests
          /\ \/ s.status[x] \in {"running", "held", "gone"}
             \/ s.status[x] = "waiting" /\ i = 1 /\ x \in P
      BY <1>1, FlightRequests DEF Flight
    <3> QED
      BY <1>10, <3>1
  <2> QED
    BY <1>1, <2>1 DEF Flight
<1>18. Fences(on, t, q)
  BY <1>1, <1>8, FencesFrame
<1> QED
  BY <1>7, <1>11, <1>12, <1>13, <1>14, <1>16, <1>17, <1>18 DEF Sound

LEMMA AddKeeps ==
  ASSUME SInv, NEW r \in Requests, AddRequest(r)
  PROVE  SInv'
<1>1. on \in Deployments /\ Sound(on, e, queue, done, {}, Late(queue))
  BY DEF SInv
<1>2. PICK s, P : s = e /\ P = Late(queue)
  OBVIOUS
<1>3. PICK t : t = [s EXCEPT !.status[r] = "waiting", !.waiting = Append(@, r)]
  OBVIOUS
<1>4. /\ s.status[r] = "out" /\ \A x \in Requests : x < r => s.status[x] # "out"
      /\ e' = t /\ on' = on /\ queue' = queue /\ done' = done
  BY <1>2, <1>3 DEF AddRequest
<1>5. Sound(on, s, queue, done, {}, P)
  BY <1>1, <1>2
<1>6. Sound(on, t, queue, done, {}, P)
  BY <1>1, <1>3, <1>4, <1>5, AddedSound
<1>7. Sound(on, e, queue, done, {}, Late(queue))' = Sound(on, t, queue, done, {}, P)
  BY <1>2, <1>4 DEF Late
<1> QED
  BY <1>1, <1>4, <1>6, <1>7 DEF SInv

LEMMA TransferKeeps ==
  ASSUME SInv, NEW r \in Requests, Transfer(r)
  PROVE  SInv'
<1>1. on \in Deployments /\ Sound(on, e, queue, done, {}, Late(queue))
  BY DEF SInv
<1>2. PICK s, P, D : s = e /\ P = Late(queue) /\ D = done \cup {r}
  OBVIOUS
<1>3. PICK t : t = [s EXCEPT !.moving = @ \ {r}]
  OBVIOUS
<1>4. r \in s.moving /\ e' = t /\ on' = on /\ queue' = queue /\ done' = D
  BY <1>2, <1>3 DEF Transfer
<1>5. /\ s \in SchedulerState /\ Lines(on, s) /\ Ordered(on, s) /\ Books(on, s) /\ Moves(s, done)
      /\ Progress(on, s, queue, {}) /\ Flight(on, s, queue, P) /\ Fences(on, s, queue)
  BY <1>1, <1>2 DEF Sound
<1>6. t \in SchedulerState
  <2>1. s.moving \ {r} \in SUBSET Requests
    BY <1>5, Fields
  <2> QED
    BY <1>3, <1>5, <2>1 DEF SchedulerState
<1>7. /\ t.status = s.status /\ t.running = s.running /\ t.waiting = s.waiting
      /\ t.skipped = s.skipped /\ t.computed = s.computed /\ t.tokens = s.tokens
      /\ t.coming = s.coming /\ t.held = s.held /\ t.moving = s.moving \ {r}
      /\ t.recved = s.recved /\ t.ahead = s.ahead /\ t.last = s.last
      /\ t.free = s.free /\ t.deferred = s.deferred
  BY <1>3, <1>5 DEF SchedulerState
<1>8. Lines(on, t) /\ Ordered(on, t)
  BY <1>5, <1>7 DEF Lines, Ordered, In
<1>9. Books(on, t)
  <2>1. Owned(t) = Owned(s)
    BY <1>7, OwnedFrame
  <2> QED
    BY <1>5, <1>7, <2>1 DEF Books
<1>10. Moves(t, D)
  <2>1. s.moving \subseteq Requests
    BY <1>5, Fields
  <2> QED
    BY <1>2, <1>4, <1>5, <1>7, <2>1 DEF Moves
<1>11. Progress(on, t, queue, {}) /\ Flight(on, t, queue, P)
  BY <1>5, <1>7 DEF Progress, Progressed, Flight
<1>12. Fences(on, t, queue)
  BY <1>5, <1>7, FencesFrame
<1>13. Sound(on, t, queue, D, {}, P)
  BY <1>6, <1>8, <1>9, <1>10, <1>11, <1>12 DEF Sound
<1>14. Sound(on, e, queue, done, {}, Late(queue))' = Sound(on, t, queue, D, {}, P)
  BY <1>2, <1>4 DEF Late
<1> QED
  BY <1>1, <1>4, <1>13, <1>14 DEF SInv

LEMMA InitSound == Init => SInv
<1> SUFFICES ASSUME Init PROVE SInv
  OBVIOUS
<1>1. on \in Deployments /\ queue = <<>> /\ done = {}
  BY DEF Init
<1>2. PICK zero, out : zero = [r \in Requests |-> 0] /\ out = [r \in Requests |-> "out"]
  OBVIOUS
<1>3. /\ zero \in [Requests -> Nat] /\ \A r \in Requests : zero[r] = 0
      /\ out \in [Requests -> Where] /\ \A r \in Requests : out[r] = "out"
  BY <1>2 DEF Where
<1>4. /\ on.prompt \in [Requests -> Nat \ {0}] /\ on.max \in [Requests -> Nat \ {0}]
      /\ on.blocks \in Nat /\ on.depth \in {1, 2} /\ on.size \in Nat
  BY <1>1, Deployed
<1>5. PICK s : s = e
  OBVIOUS
<1>6. s = [status |-> out, running |-> <<>>, waiting |-> <<>>, skipped |-> <<>>,
           computed |-> zero, tokens |-> on.prompt, coming |-> zero, held |-> zero,
           free |-> on.blocks, deferred |-> <<>>, ahead |-> 0, last |-> zero,
           prefills |-> {}, pulled |-> {}, moving |-> {}, recved |-> {}]
  BY <1>2, <1>5 DEF Init, Prompt, NumBlocks
<1>7. <<>> \in Seq(Requests) /\ <<>> \in Seq(Deferrals) /\ <<>> \in Seq(Batches) /\ Len(<<>>) = 0
  OBVIOUS
<1>8. on.prompt \in [Requests -> Nat]
  BY <1>4
<1>9. s \in SchedulerState
  BY <1>3, <1>4, <1>6, <1>7, <1>8 DEF SchedulerState, Counts
<1>10. /\ s.status = out /\ s.running = <<>> /\ s.waiting = <<>> /\ s.skipped = <<>>
       /\ s.computed = zero /\ s.tokens = on.prompt /\ s.coming = zero /\ s.held = zero
       /\ s.free = on.blocks /\ s.deferred = <<>> /\ s.ahead = 0 /\ s.last = zero
       /\ s.moving = {} /\ s.recved = {}
  BY <1>6
<1>11. Range(<<>>) = {} /\ IsInjective(<<>>)
  <2>1. DOMAIN <<>> = {}
    OBVIOUS
  <2> QED
    BY <2>1 DEF Range, IsInjective
<1>12. In(s, "running") = {} /\ In(s, "waiting") = {} /\ In(s, "remote") = {}
  BY <1>3, <1>10 DEF In
<1>13. Lines(on, s)
  BY <1>10, <1>11, <1>12 DEF Lines
<1>14. Ordered(on, s)
  <2>1. Rising(on.remote, <<>>)
    BY <1>7 DEF Rising
  <2>2. \A a, b \in Requests : ~ (s.status[a] # "out")
    BY <1>3, <1>10
  <2> QED
    BY <1>10, <1>11, <2>1, <2>2 DEF Ordered
<1>15. Books(on, s)
  <2>1. Blocks(s.held) = 0
    <3>1. PICK S : S = Requests
      OBVIOUS
    <3>2. zero \in [S -> Nat] /\ \A x \in S : zero[x] = 0
      BY <1>3, <3>1
    <3>3. Blocks(zero) = 0
      BY <3>2, BlocksNone
    <3> QED
      BY <1>10, <3>3
  <2>2. Blocks(Lengths(s)) = 0
    <3>1. PICK f : f = Lengths(s)
      OBVIOUS
    <3>2. f \in [1 .. 0 -> Nat]
      <4>1. s.deferred \in Seq(Deferrals) /\ Len(s.deferred) = 0
        BY <1>7, <1>10
      <4> QED
        BY <3>1, <4>1, DeferredFacts
    <3>3. PICK S : S = 1 .. 0
      OBVIOUS
    <3>4. f \in [S -> Nat] /\ \A x \in S : f[x] = 0
      BY <3>2, <3>3
    <3>5. Blocks(f) = 0
      BY <3>4, BlocksNone
    <3> QED
      BY <3>1, <3>5
  <2>3. Owned(s) = on.blocks
    BY <1>4, <1>10, <2>1, <2>2 DEF Owned
  <2>4. ASSUME NEW r \in Requests
        PROVE  s.held[r] = 0 /\ s.status[r] # "running" /\ r \notin s.moving
    BY <1>3, <1>10
  <2> QED
    BY <2>3, <2>4 DEF Books
<1>16. Moves(s, {})
  BY <1>10 DEF Moves
<1>17. Progress(on, s, <<>>, {})
  <2>1. ASSUME NEW r \in Requests PROVE Progressed(on, s, r) /\ s.coming[r] = Coming(on, <<>>, {}, r)
    <3>1. Count(<<>>, r) = 0
      <4>1. PICK q : q = <<>>
        OBVIOUS
      <4>2. q \in Seq(Batches) /\ Len(q) = 0
        BY <1>7, <4>1
      <4>3. Count(q, r) \in Nat /\ Count(q, r) <= 0
        BY <4>2, CountFacts
      <4> QED
        BY <4>1, <4>3
    <3>2. s.coming[r] = Coming(on, <<>>, {}, r)
      BY <1>3, <1>10, <3>1 DEF Coming
    <3>3. /\ s.computed[r] = 0 /\ s.coming[r] = 0 /\ s.held[r] = 0 /\ s.status[r] = "out"
          /\ s.tokens[r] = on.prompt[r]
      BY <1>3, <1>10
    <3>4. PICK a, b : a = on.prompt[r] /\ b = on.max[r]
      OBVIOUS
    <3>5. a \in Nat \ {0} /\ b \in Nat \ {0} /\ Limit(on, r) = a + b
      BY <1>4, <3>4 DEF Limit
    <3>6. on.size * 0 = 0
      BY <1>4
    <3>7. a >= 1 /\ a < a + b /\ a + 0 <= a + b /\ 0 <= a + 0
      BY <3>5
    <3>8. Progressed(on, s, r)
      BY <3>3, <3>4, <3>5, <3>6, <3>7 DEF Progressed
    <3> QED
      BY <3>2, <3>8
  <2> QED
    BY <2>1 DEF Progress
<1>18. Flight(on, s, <<>>, {})
  <2>1. Len(<<>>) <= on.depth
    BY <1>4, <1>7
  <2>2. 1 .. Len(<<>>) = {}
    BY <1>7
  <2> QED
    BY <1>7, <2>1, <2>2 DEF Flight
<1>19. Fences(on, s, <<>>)
  <2>1. StepsTo(<<>>, Len(<<>>)) = 0
    <3>1. {j \in 1 .. 0 : DOMAIN (<<>>[j]) # {}} = {}
      OBVIOUS
    <3> QED
      BY <1>7, <3>1, FS_EmptySet DEF StepsTo
  <2>2. 1 .. Len(<<>>) = {}
    BY <1>7
  <2>3. 1 .. Len(s.deferred) = {}
    BY <1>7, <1>10
  <2> QED
    BY <1>10, <2>1, <2>2, <2>3 DEF Fences
<1>20. Late(<<>>) = {}
  BY <1>7 DEF Late
<1>21. Sound(on, s, <<>>, {}, {}, {})
  BY <1>9, <1>13, <1>14, <1>15, <1>16, <1>17, <1>18, <1>19 DEF Sound
<1> QED
  BY <1>1, <1>5, <1>20, <1>21 DEF SInv

LEMMA StepSound == SInv /\ [Next]_vars => SInv'
<1> SUFFICES ASSUME SInv, [Next]_vars PROVE SInv'
  OBVIOUS
<1>1. CASE Schedule
  BY <1>1, ScheduleKeeps
<1>2. CASE UpdateFromOutput
  BY <1>2, UpdateKeeps
<1>3. ASSUME NEW r \in Requests, AddRequest(r) PROVE SInv'
  BY <1>3, AddKeeps
<1>4. ASSUME NEW r \in Requests, Transfer(r) PROVE SInv'
  BY <1>4, TransferKeeps
<1>5. ASSUME NEW r \in on.aborts, Abort(r) PROVE SInv'
  <2>1. r \in Requests
    BY DeploymentsAssumption DEF SInv
  <2> QED
    BY <1>5, <2>1, AbortKeeps
<1>6. CASE UNCHANGED vars
  BY <1>6 DEF SInv, Late, vars
<1> QED
  BY <1>1, <1>2, <1>3, <1>4, <1>5, <1>6 DEF Next

(***************************************************************************)
(* The scheduler's invariant, for every number of requests and every       *)
(* deployment: schedule(), update_from_output(), finish_requests(),        *)
(* add_request() and the end of a transfer keep the lines, the blocks, the *)
(* counters and the fences of two batches in flight consistent.            *)
(***************************************************************************)
THEOREM SchedulerInvariant == Spec => []SInv
<1> QED
  BY InitSound, StepSound, PTL DEF Spec

-----------------------------------------------------------------------------
(* What follows from the invariant. *)

LEMMA RisingConcat ==
  ASSUME NEW S, NEW s \in Seq(Requests), NEW t \in Seq(Requests), Rising(S, s), Rising(S, t),
         \A a \in Range(s) \ S, b \in Range(t) \ S : a < b
  PROVE  Rising(S, s \o t)
<1> DEFINE m == Len(s)
           n == Len(t)
           u == s \o t
<1>1. /\ m \in Nat /\ n \in Nat /\ Len(u) = m + n
      /\ \A i \in 1 .. m : u[i] = s[i] /\ s[i] \in Range(s)
      /\ \A i \in 1 .. n : t[i] \in Range(t)
      /\ \A i \in m + 1 .. m + n : u[i] = t[i - m]
  <2>1. DOMAIN s = 1 .. m /\ DOMAIN t = 1 .. n /\ m \in Nat /\ n \in Nat
    BY LenProperties
  <2>2. /\ Len(u) = m + n
        /\ \A i \in 1 .. m + n : u[i] = IF i <= m THEN s[i] ELSE t[i - m]
    BY ConcatProperties
  <2> HIDE DEF m, n, u
  <2>3. \A i \in 1 .. m : i \in 1 .. m + n /\ i <= m
    BY <2>1
  <2>4. \A i \in m + 1 .. m + n : i \in 1 .. m + n /\ ~ (i <= m)
    BY <2>1
  <2> QED
    BY <2>1, <2>2, <2>3, <2>4 DEF Range
<1>2. /\ \A i, j \in 1 .. m : i < j /\ s[i] \notin S /\ s[j] \notin S => s[i] < s[j]
      /\ \A i, j \in 1 .. n : i < j /\ t[i] \notin S /\ t[j] \notin S => t[i] < t[j]
  BY DEF Rising
<1> HIDE DEF m, n, u
<1>3. ASSUME NEW i \in 1 .. m + n, NEW j \in 1 .. m + n, i < j, u[i] \notin S, u[j] \notin S
      PROVE  u[i] < u[j]
  <2>1. CASE j <= m
    <3>1. i \in 1 .. m /\ j \in 1 .. m
      BY <1>1, <1>3, <2>1
    <3> QED
      BY <1>1, <1>2, <1>3, <3>1
  <2>2. CASE i <= m /\ ~ (j <= m)
    <3>1. i \in 1 .. m /\ j \in m + 1 .. m + n /\ j - m \in 1 .. n
      BY <1>1, <2>2
    <3>2. u[i] \in Range(s) \ S /\ u[j] \in Range(t) \ S
      BY <1>1, <1>3, <3>1
    <3> QED
      BY <3>2
  <2>3. CASE ~ (i <= m)
    <3>1. /\ i \in m + 1 .. m + n /\ j \in m + 1 .. m + n /\ i - m \in 1 .. n /\ j - m \in 1 .. n
          /\ i - m < j - m
      BY <1>1, <1>3, <2>3
    <3> QED
      BY <1>1, <1>2, <1>3, <3>1
  <2> QED
    BY <1>1, <2>1, <2>2, <2>3
<1> QED
  BY <1>1, <1>3 DEF Rising, u

LEMMA InvariantInOrder == SInv => InOrder
<1> SUFFICES ASSUME SInv PROVE InOrder
  OBVIOUS
<1>1. on \in Deployments /\ e \in SchedulerState /\ Lines(on, e) /\ Ordered(on, e)
  BY DEF SInv, Sound
<1>2. PICK a, b, c, S : a = e.running /\ b = e.skipped /\ c = e.waiting /\ S = on.remote
  OBVIOUS
<1>3. a \in Seq(Requests) /\ b \in Seq(Requests) /\ c \in Seq(Requests)
  BY <1>1, <1>2, Fields
<1>4. /\ Rising(S, a) /\ Rising(S, c) /\ Range(b) \subseteq S
      /\ \A x \in Range(a) \ S, y \in Range(c) \ S : x < y
  BY <1>1, <1>2 DEF Lines, Ordered
<1>5. Rising(S, b)
  <2>1. \A i \in 1 .. Len(b) : b[i] \in S
    BY <1>3, <1>4, LenProperties DEF Range
  <2> QED
    BY <2>1 DEF Rising
<1>6. PICK d : d = a \o b
  OBVIOUS
<1>7. d \in Seq(Requests) /\ Range(d) = Range(a) \cup Range(b)
  BY <1>3, <1>6, ConcatDict
<1>8. Rising(S, d)
  <2>1. \A x \in Range(a) \ S, y \in Range(b) \ S : x < y
    BY <1>4
  <2> QED
    BY <1>3, <1>4, <1>5, <1>6, <2>1, RisingConcat
<1>9. Rising(S, d \o c)
  <2>1. \A x \in Range(d) \ S, y \in Range(c) \ S : x < y
    BY <1>4, <1>7
  <2> QED
    BY <1>3, <1>4, <1>7, <1>8, <2>1, RisingConcat
<1>10. d \o c \in Seq(Requests)
  BY <1>3, <1>7, ConcatDict
<1>11. PICK line : line = d \o c
  OBVIOUS
<1>12. DOMAIN line = 1 .. Len(line) /\ Rising(S, line)
  BY <1>9, <1>10, <1>11, LenProperties
<1>13. line = e.running \o e.skipped \o e.waiting
  BY <1>2, <1>6, <1>11
<1>14. \A i, j \in DOMAIN line : i < j /\ line[i] \notin Remote /\ line[j] \notin Remote => line[i] < line[j]
  BY <1>2, <1>12 DEF Rising, Remote
<1> QED
  BY <1>13, <1>14 DEF InOrder

LEMMA InvariantCounters == SInv => CountersTrue
<1> SUFFICES ASSUME SInv PROVE CountersTrue
  OBVIOUS
<1>1. on \in Deployments /\ e \in SchedulerState /\ Progress(on, e, queue, {}) /\ on.depth \in {1, 2}
  BY Deployed DEF SInv, Sound
<1>2. ASSUME NEW r \in Live, e.status[r] \in {"waiting", "running"}
      PROVE  /\ Async => e.coming[r] = Cardinality({i \in DOMAIN queue :
                                                      r \in DOMAIN queue[i] /\ queue[i][r]})
             /\ e.tokens[r] + e.coming[r] <= Prompt[r] + MaxTokens[r]
  <2>1. r \in Requests /\ e.status[r] \in Before
    BY <1>2 DEF Live, Before
  <2>2. Progressed(on, e, r) /\ e.coming[r] = Coming(on, queue, {}, r)
    BY <1>1, <2>1 DEF Progress
  <2>3. queue \in Seq(Batches)
    BY DEF SInv, Sound, Flight
  <2>4. DOMAIN queue = 1 .. Len(queue)
    BY <2>3, LenProperties
  <2>5. Count(queue, r) \in Nat
    BY <2>3, CountFacts
  <2>6. Async => e.coming[r] = Count(queue, r)
    BY <2>2, <2>5 DEF Async, Depth, Coming
  <2>7. e.tokens[r] + e.coming[r] <= Prompt[r] + MaxTokens[r]
    BY <2>2 DEF Progressed, Limit, Prompt, MaxTokens
  <2> QED
    BY <2>4, <2>6, <2>7 DEF Count
<1>3. ASSUME NEW r \in Live, e.status[r] # "held"
      PROVE  e.computed[r] <= BlockSize * e.held[r]
  <2>1. r \in Requests /\ e.status[r] \in Before
    <3>1. r \in Requests /\ e.status[r] \notin {"out", "gone"} /\ e.status[r] \in Where
      BY <1>1, Fields DEF Live
    <3> QED
      BY <1>3, <3>1 DEF Where, Before
  <2>2. Progressed(on, e, r)
    BY <1>1, <2>1 DEF Progress
  <2> QED
    BY <2>2 DEF Progressed, BlockSize
<1> QED
  BY <1>2, <1>3 DEF CountersTrue, TokensInFlight, ComputedHeld

LEMMA InvariantBlocks == SInv => BlocksKept
<1> SUFFICES ASSUME SInv PROVE BlocksKept
  OBVIOUS
<1>1. e \in SchedulerState /\ Books(on, e)
  BY DEF SInv, Sound
<1>2. e.free \in Nat /\ e.deferred \in Seq(Deferrals) /\ e.moving \subseteq Requests
  BY <1>1, Fields
<1>3. Lengths(e) = [i \in DOMAIN e.deferred |-> e.deferred[i].n]
  <2>1. DOMAIN e.deferred = 1 .. Len(e.deferred)
    BY <1>2, LenProperties
  <2> QED
    BY <2>1 DEF Lengths
<1>4. e.free + Blocks(e.held) + Blocks([i \in DOMAIN e.deferred |-> e.deferred[i].n]) = NumBlocks
  BY <1>1, <1>3 DEF Books, Owned, NumBlocks
<1>5. \A r \in Requests : e.status[r] \in {"out", "gone"} => e.held[r] = 0
  BY <1>1 DEF Books
<1>6. \A r \in e.moving : e.held[r] > 0
  BY <1>1, <1>2 DEF Books
<1> QED
  BY <1>2, <1>4, <1>5, <1>6 DEF BlocksKept

LEMMA InvariantFenced == SInv => WritesFenced
<1> SUFFICES ASSUME SInv, Defer, NEW i \in DOMAIN queue, NEW r \in DOMAIN queue[i]
             PROVE  LET steps == Cardinality({j \in 1 .. i : DOMAIN queue[j] # {}})
                        fenced == \E d \in Range(e.deferred) : d.of = r /\ d.fence >= steps
                    IN  (e.held[r] > 0) # fenced
  BY DEF WritesFenced
<1>1. e \in SchedulerState /\ Fences(on, e, queue) /\ queue \in Seq(Batches)
  BY DEF SInv, Sound, Flight
<1>2. i \in 1 .. Len(queue)
  BY <1>1, LenProperties
<1>3. e.held[r] > 0 <=> ~ Fenced(e, r, StepsTo(queue, i))
  <2>1. on.depth > 1 /\ on.remote # {}
    BY DEF Defer, Async, Depth, Consumer, Remote
  <2> QED
    BY <1>1, <1>2, <2>1 DEF Fences
<1>4. PICK n : n = StepsTo(queue, i)
  OBVIOUS
<1>5. Fenced(e, r, n) <=> \E d \in Range(e.deferred) : d.of = r /\ d.fence >= n
  <2>1. DOMAIN e.deferred = 1 .. Len(e.deferred)
    BY <1>1, Fields, LenProperties
  <2> QED
    BY <2>1 DEF Fenced, Range
<1>6. n = Cardinality({j \in 1 .. i : DOMAIN queue[j] # {}})
  BY <1>4 DEF StepsTo
<1>7. (e.held[r] > 0) # (\E d \in Range(e.deferred) : d.of = r /\ d.fence >= n)
  BY <1>3, <1>4, <1>5
<1> QED
  BY <1>6, <1>7

(***************************************************************************)
(* Blocks that a batch in flight writes are not free and nobody else's     *)
(* (defer_block_free): the request has them or a fence keeps them.         *)
(***************************************************************************)
THEOREM FencesCorrect == Spec => []WritesFenced
<1> QED
  BY SchedulerInvariant, InvariantFenced, PTL

(***************************************************************************)
(* No order of aborts, arrivals, preemptions and results frees a block     *)
(* twice or forgets one, in pools of every size.                           *)
(***************************************************************************)
THEOREM BlocksCorrect == Spec => []BlocksKept
<1> QED
  BY SchedulerInvariant, InvariantBlocks, PTL

(***************************************************************************)
(* Placeholders are the tokens in flight, none is beyond max_tokens, and   *)
(* computed tokens have blocks.                                            *)
(***************************************************************************)
THEOREM CountersCorrect == Spec => []CountersTrue
<1> QED
  BY SchedulerInvariant, InvariantCounters, PTL

(***************************************************************************)
(* Requests without a load keep the order they came in, for any number of  *)
(* them and however often they are preempted.                              *)
(***************************************************************************)
THEOREM OrderCorrect == Spec => []InOrder
<1> QED
  BY SchedulerInvariant, InvariantInOrder, PTL
=============================================================================

------------------------ MODULE WorkloadDriver_proofs -----------------------
(***************************************************************************)
(* The books of the workload driver agree with the phases of the engine    *)
(* and its limits are kept, for every workload and every setting.          *)
(***************************************************************************)
EXTENDS WorkloadDriver, OrderedDicts_proofs, WellFoundedInduction

(* Every variable has its type. *)
Phases == {"waiting", "arrived", "running", "transfer", "decode", "timing", "complete"}
Typed ==
  /\ work \in Workloads /\ tick \in Nat
  /\ phase \in [Rows -> Phases] /\ position \in [Rows -> Int] /\ spent \in [Domains -> Int]
  /\ pendingSessions \in Seq(Range(work.sessions))
  /\ \A f \in {due, completed, launched} : f \in [DOMAIN f -> Nat]

(* A slot is taken by each launched session that is not known to be over, *)
(* and only a session whose rows are all complete is.                      *)
SessionBooks ==
  /\ IsFiniteSet(DOMAIN launched) /\ finishedSessions \subseteq DOMAIN launched
  /\ \A s \in finishedSessions : \A r \in RowsOf(s) : phase[r] = "complete"
  /\ Cardinality(DOMAIN launched \ finishedSessions) <= SessionConcurrency

(* The limits of the engine. *)
Room ==
  /\ Cardinality(Occupied) <= Concurrency
  /\ \A d \in Domains : Cardinality(OnP(d)) <= PSlots /\ spent[d] <= StepBudget

(* The inductive invariant. *)
DriverInv == Typed /\ BooksAgree /\ SessionBooks /\ Room
-----------------------------------------------------------------------------
(* A nonempty set of naturals has a least element, and Min is it. *)
LEMMA MinNat ==
  ASSUME NEW S, S \subseteq Nat, S # {}
  PROVE  Min(S) \in S /\ \A y \in S : Min(S) <= y
<1> DEFINE less == {p \in Nat \X Nat : p[1] < p[2]}
<1>1. IsWellFoundedOn(less, Nat)
  BY NatLessThanWellFounded DEF OpToRel
<1>2. \A x, y \in Nat : <<y, x>> \in less <=> y < x
  OBVIOUS
<1> HIDE DEF less
<1>3. PICK x \in S : \A y \in S : ~ (<<y, x>> \in less)
  BY <1>1, WFMin
<1>4. \A y \in S : x <= y
  <2>1. \A y \in S : x \in Nat /\ y \in Nat /\ ~ (y < x)
    BY <1>2, <1>3, Zenon
  <2> QED
    BY <2>1
<1> QED
  BY <1>4 DEF Min

(* The least and the greatest of two integers. *)
LEMMA MinTwo ==
  ASSUME NEW a \in Int, NEW b \in Int
  PROVE  Min({a, b}) \in {a, b} /\ Min({a, b}) <= a /\ Min({a, b}) <= b
<1>1. \E x \in {a, b} : \A y \in {a, b} : x <= y
  OBVIOUS
<1> QED
  BY <1>1 DEF Min

LEMMA MaxTwo ==
  ASSUME NEW a \in Nat, NEW b \in Nat
  PROVE  Max({a, b}) \in Nat
<1>1. \E x \in {a, b} : \A y \in {a, b} : x >= y
  OBVIOUS
<1> QED
  BY <1>1 DEF Max

(* What the assumptions say of the workload of the run. *)
LEMMA WorkFacts ==
  ASSUME work \in Workloads
  PROVE  /\ IsFiniteSet(Rows) /\ Concurrency \in Nat
         /\ \A r \in Rows : /\ RowOf(r).tokens \in Nat /\ RowOf(r).wait \in Nat
                            /\ RowOf(r).duration \in Nat /\ RowOf(r).decode \in Nat
                            /\ RowOf(r).domain \in Domains
         /\ \A s \in Range(work.sessions) : s.arrival \in Nat
<1>1. /\ work.rows \in Seq(Range(work.rows)) /\ work.concurrency \in Nat
      /\ \A x \in Range(work.rows) : {x.tokens, x.wait, x.duration, x.decode} \subseteq Nat
      /\ \A s \in Range(work.sessions) : s.arrival \in Nat
  BY WorkloadsAssumption
<1>2. Rows = 1 .. Len(work.rows) /\ Len(work.rows) \in Nat
  BY <1>1, LenProperties DEF Rows
<1>3. IsFiniteSet(Rows)
  BY <1>2, FS_Interval
<1>4. \A r \in Rows : RowOf(r) \in Range(work.rows) /\ RowOf(r).domain \in Domains
  BY DEF Rows, RowOf, Range, Domains
<1> QED
  BY <1>1, <1>3, <1>4 DEF Concurrency

(* The sets of rows that are counted are finite. *)
LEMMA RowsFinite ==
  ASSUME work \in Workloads
  PROVE  \A S \in SUBSET Rows : IsFiniteSet(S) /\ Cardinality(S) \in Nat
<1>1. IsFiniteSet(Rows)
  BY WorkFacts
<1> QED
  BY <1>1, FS_Subset, FS_CardinalityType

(* No more sessions are under way than have a slot. *)
LEMMA UnderWayBound ==
  ASSUME SessionBooks
  PROVE  Cardinality(UnderWay) <= SessionConcurrency
<1>1. UnderWay \in SUBSET (DOMAIN launched \ finishedSessions)
  BY DEF UnderWay, SessionBooks
<1>2. IsFiniteSet(DOMAIN launched \ finishedSessions)
  BY FS_Subset DEF SessionBooks
<1>3. /\ Cardinality(UnderWay) \in Nat /\ Cardinality(DOMAIN launched \ finishedSessions) \in Nat
      /\ Cardinality(UnderWay) <= Cardinality(DOMAIN launched \ finishedSessions)
  BY <1>1, <1>2, FS_Subset, FS_CardinalityType
<1> QED
  BY <1>3, LimitsAssumption DEF SessionBooks

(* The invariant gives the property. *)
LEMMA InvGivesBooks == DriverInv => BooksSound
  BY UnderWayBound DEF DriverInv, Room, BooksSound, LimitsRespected

(* Initially nothing has happened. *)
LEMMA InitBooks == Init => DriverInv
<1> SUFFICES ASSUME Init PROVE DriverInv
  OBVIOUS
<1>1. work \in Workloads /\ work.sessions \in Seq(Range(work.sessions))
  BY WorkloadsAssumption DEF Init
<1>2. DOMAIN <<>> = {} /\ <<>> \in [{} -> Nat]
  OBVIOUS
<1>3. Typed
  BY <1>1, <1>2 DEF Init, Typed, Phases
<1>4. BooksAgree
  BY <1>2 DEF Init, BooksAgree, InPhase
<1>5. IsFiniteSet({}) /\ Cardinality({}) = 0
  BY FS_EmptySet
<1>6. SessionBooks
  <2>1. DOMAIN launched = {} /\ finishedSessions = {} /\ {} \ {} = {}
    BY <1>2 DEF Init
  <2>2. 0 <= SessionConcurrency
    BY LimitsAssumption
  <2> QED
    BY <2>1, <2>2, <1>5 DEF SessionBooks
<1>7. Room
  <2>1. Occupied = {} /\ \A d \in Domains : OnP(d) = {} /\ spent[d] = 0
    BY DEF Init, Occupied, OnP, InPhase
  <2>2. 0 <= Concurrency /\ 0 <= PSlots /\ 0 <= StepBudget
    BY <1>1, WorkFacts, LimitsAssumption
  <2> QED
    BY <2>1, <2>2, <1>5 DEF Room
<1> QED
  BY <1>3, <1>4, <1>6, <1>7 DEF DriverInv

(* Setting keys of a map. *)
LEMMA SetFacts ==
  ASSUME NEW new, NEW old, new \in [DOMAIN new -> Nat], old \in [DOMAIN old -> Nat]
  PROVE  /\ DOMAIN Set(new, old) = DOMAIN new \cup DOMAIN old
         /\ Set(new, old) \in [DOMAIN Set(new, old) -> Nat]
         /\ \A x \in DOMAIN new : Set(new, old)[x] = new[x]
         /\ \A x \in DOMAIN old \ DOMAIN new : Set(new, old)[x] = old[x]
<1>1. DOMAIN Set(new, old) = DOMAIN new \cup DOMAIN old
  BY DEF Set
<1>2. \A x \in DOMAIN new \cup DOMAIN old :
        Set(new, old)[x] = IF x \in DOMAIN new THEN new[x] ELSE old[x]
  BY DEF Set
<1>3. \A x \in DOMAIN new \cup DOMAIN old : Set(new, old)[x] \in Nat
  BY <1>2
<1>4. Set(new, old) = [x \in DOMAIN new \cup DOMAIN old |-> Set(new, old)[x]]
  BY <1>2 DEF Set
<1>5. Set(new, old) \in [DOMAIN new \cup DOMAIN old -> Nat]
  BY <1>3, <1>4
<1> QED
  BY <1>1, <1>2, <1>5

(* If nobody enters P or the engine, the limits stay kept. *)
LEMMA RoomStays ==
  ASSUME DriverInv, work' = work, Occupied' \subseteq Occupied,
         \A d \in Domains : OnP(d)' \subseteq OnP(d) /\ spent'[d] <= StepBudget
  PROVE  Room'
<1>1. Domains' = Domains /\ Concurrency' = Concurrency /\ Rows' = Rows
  BY DEF Domains, Concurrency, Rows, RowOf
<1>2. Occupied \in SUBSET Rows /\ \A d \in Domains : OnP(d) \in SUBSET Rows
  BY DEF Occupied, OnP, InPhase
<1>3. work \in Workloads /\ Concurrency \in Nat /\ PSlots \in Nat
  BY WorkFacts, LimitsAssumption DEF DriverInv, Typed
<1>4. Cardinality(Occupied') <= Concurrency
  <2>1. /\ IsFiniteSet(Occupied) /\ Cardinality(Occupied) \in Nat
        /\ Cardinality(Occupied') \in Nat
    BY <1>2, <1>3, RowsFinite
  <2>2. Cardinality(Occupied') <= Cardinality(Occupied)
    BY <2>1, FS_Subset
  <2> QED
    BY <2>1, <2>2, <1>3 DEF DriverInv, Room
<1>5. ASSUME NEW d \in Domains PROVE Cardinality(OnP(d)') <= PSlots
  <2>1. /\ IsFiniteSet(OnP(d)) /\ Cardinality(OnP(d)) \in Nat
        /\ OnP(d)' \in SUBSET OnP(d)
    BY <1>2, <1>3, RowsFinite
  <2>2. Cardinality(OnP(d)') <= Cardinality(OnP(d)) /\ Cardinality(OnP(d)') \in Nat
    BY <2>1, FS_Subset, FS_CardinalityType
  <2> QED
    BY <2>1, <2>2, <1>3 DEF DriverInv, Room
<1> QED
  BY <1>1, <1>4, <1>5 DEF Room

(* A step that launches nothing keeps the books of the sessions if complete *)
(* rows stay complete.                                                      *)
LEMMA SessionsStay ==
  ASSUME DriverInv, work' = work, launched' = launched, finishedSessions' = finishedSessions,
         \A r \in InPhase({"complete"}) : phase'[r] = "complete"
  PROVE  SessionBooks'
<1>1. Rows' = Rows /\ \A s : RowsOf(s)' = RowsOf(s)
  BY DEF RowsOf, Rows, RowOf
<1>2. \A s \in finishedSessions : \A r \in RowsOf(s) : phase'[r] = "complete"
  BY DEF DriverInv, SessionBooks, RowsOf, InPhase
<1> QED
  BY <1>1, <1>2 DEF DriverInv, SessionBooks

(* Rows that are neither on P nor in flight afterwards complete.           *)
LEMMA CompleteStep ==
  ASSUME DriverInv, NEW R \in SUBSET InPhase({"decode", "timing", "waiting"}), Complete(R),
         UNCHANGED <<work, tick, position, launched, finishedSessions, spent>>,
         pendingSessions' = pendingSessions
  PROVE  DriverInv'
<1>1. Rows' = Rows /\ Domains' = Domains /\ R \subseteq Rows
  BY DEF Rows, Domains, RowOf, InPhase
<1>2. /\ phase \in [Rows -> Phases] /\ tick \in Nat
      /\ phase' = [r \in Rows |-> IF r \in R THEN "complete" ELSE phase[r]]
  BY DEF DriverInv, Typed, Complete, SetPhase
<1>3. /\ due \in [DOMAIN due -> Nat] /\ completed \in [DOMAIN completed -> Nat]
      /\ completed' = Set([r \in R |-> tick], completed)
      /\ due' = [r \in DOMAIN due \ R |-> due[r]]
  BY DEF DriverInv, Typed, Complete, Restrict
<1>4. /\ DOMAIN completed' = R \cup DOMAIN completed
      /\ completed' \in [DOMAIN completed' -> Nat]
      /\ \A r \in R : completed'[r] = tick
      /\ \A r \in DOMAIN completed \ R : completed'[r] = completed[r]
  <2> DEFINE new == [r \in R |-> tick]
  <2>1. new \in [DOMAIN new -> Nat] /\ DOMAIN new = R /\ \A r \in R : new[r] = tick
    BY <1>2
  <2>2. completed' = Set(new, completed)
    BY <1>3
  <2> HIDE DEF new
  <2>3. completed \in [DOMAIN completed -> Nat]
    BY <1>3
  <2>4. /\ DOMAIN Set(new, completed) = DOMAIN new \cup DOMAIN completed
        /\ Set(new, completed) \in [DOMAIN Set(new, completed) -> Nat]
        /\ \A x \in DOMAIN new : Set(new, completed)[x] = new[x]
        /\ \A x \in DOMAIN completed \ DOMAIN new : Set(new, completed)[x] = completed[x]
    BY <2>1, <2>3, SetFacts
  <2> QED
    BY <2>1, <2>2, <2>4
<1>5. DOMAIN due' = DOMAIN due \ R /\ due' \in [DOMAIN due' -> Nat]
  BY <1>3
<1>6. Typed'
  BY <1>1, <1>2, <1>4, <1>5 DEF DriverInv, Typed, Phases
<1>7. \A P : InPhase(P)' = (InPhase(P) \ R) \cup (IF "complete" \in P THEN R ELSE {})
  BY <1>1, <1>2 DEF InPhase
<1>8. BooksAgree'
  BY <1>2, <1>4, <1>5, <1>7 DEF DriverInv, BooksAgree
<1>9. SessionBooks'
  BY <1>1, <1>2, SessionsStay DEF InPhase
<1>10. Room'
  <2>1. Occupied' \subseteq Occupied
    BY <1>7 DEF Occupied
  <2>2. \A d \in Domains : OnP(d)' \subseteq OnP(d) /\ spent'[d] <= StepBudget
    BY <1>7 DEF OnP, RowOf, DriverInv, Room
  <2> QED
    BY <2>1, <2>2, RoomStays
<1> QED
  BY <1>6, <1>8, <1>9, <1>10 DEF DriverInv

(* A row gets an event that is to come.                                    *)
LEMMA TimedStep ==
  ASSUME DriverInv, NEW R \in SUBSET Rows, NEW p \in {"transfer", "decode", "timing"},
         \A r \in R : phase[r] # "complete",
         NEW at, at \in [R -> Nat], SetPhase(R, p), due' = Set(at, due),
         UNCHANGED <<work, tick, completed, launched, finishedSessions>>,
         pendingSessions' = pendingSessions
  PROVE  /\ BooksAgree' /\ SessionBooks'
         /\ phase' \in [Rows -> Phases] /\ due' \in [DOMAIN due' -> Nat]
<1>1. Rows' = Rows
  BY DEF Rows
<1>2. /\ phase \in [Rows -> Phases]
      /\ phase' = [r \in Rows |-> IF r \in R THEN p ELSE phase[r]]
  BY DEF DriverInv, Typed, SetPhase
<1>3. DOMAIN due' = R \cup DOMAIN due /\ due' \in [DOMAIN due' -> Nat]
  <2>1. due \in [DOMAIN due -> Nat] /\ DOMAIN at = R
    BY DEF DriverInv, Typed
  <2> QED
    BY <2>1, SetFacts
<1>4. phase' \in [Rows -> Phases]
  BY <1>2 DEF Phases
<1>5. \A P : InPhase(P)' = (InPhase(P) \ R) \cup (IF p \in P THEN R ELSE {})
  BY <1>1, <1>2 DEF InPhase
<1>6. BooksAgree'
  <2>1. InPhase({"transfer", "decode", "timing"})' = InPhase({"transfer", "decode", "timing"}) \cup R
    BY <1>5
  <2>2. InPhase({"complete"})' = InPhase({"complete"})
    <3>1. p \notin {"complete"} /\ R \cap InPhase({"complete"}) = {}
      BY DEF InPhase
    <3>2. InPhase({"complete"})' = InPhase({"complete"}) \ R
      BY <1>5, <3>1
    <3> QED
      BY <3>1, <3>2
  <2> QED
    BY <2>1, <2>2, <1>3 DEF DriverInv, BooksAgree
<1>7. SessionBooks'
  <2>1. \A r \in InPhase({"complete"}) : phase'[r] = "complete"
    BY <1>2 DEF InPhase
  <2> QED
    BY <2>1, SessionsStay
<1> QED
  BY <1>3, <1>4, <1>6, <1>7

(* Transfers that are over: their requests decode. *)
LEMMA ReleaseBooks ==
  ASSUME DriverInv, ReleaseDue
  PROVE  DriverInv'
<1> DEFINE R == DueNow("transfer")
           at == [r \in R |-> tick + RowOf(r).decode]
<1>1. /\ SetPhase(R, "decode") /\ due' = Set(at, due)
      /\ UNCHANGED <<work, tick, completed, launched, finishedSessions, pendingSessions, position, spent>>
  BY DEF ReleaseDue
<1>2. R \in SUBSET Rows /\ \A r \in R : phase[r] = "transfer"
  BY DEF DueNow, InPhase
<1>3. at \in [R -> Nat]
  <2>1. tick \in Nat /\ \A r \in R : RowOf(r).decode \in Nat
    BY <1>2, WorkFacts DEF DriverInv, Typed
  <2> QED
    BY <2>1
<1> HIDE DEF at
<1>4. /\ BooksAgree' /\ SessionBooks'
      /\ phase' \in [Rows -> Phases] /\ due' \in [DOMAIN due' -> Nat]
  BY <1>1, <1>2, <1>3, TimedStep
<1>5. Rows' = Rows /\ Domains' = Domains
  BY <1>1 DEF Rows, Domains, RowOf
<1>6. Typed'
  BY <1>1, <1>4, <1>5 DEF DriverInv, Typed
<1>7. /\ Occupied' \subseteq Occupied
      /\ \A d \in Domains : OnP(d)' \subseteq OnP(d) /\ spent'[d] <= StepBudget
  <2>1. phase' = [r \in Rows |-> IF r \in R THEN "decode" ELSE phase[r]]
    BY <1>1 DEF SetPhase
  <2>2. spent' = spent /\ \A d \in Domains : spent[d] <= StepBudget
    BY <1>1 DEF DriverInv, Room
  <2>3. \A r : RowOf(r)' = RowOf(r)
    BY <1>1 DEF RowOf
  <2> HIDE DEF R
  <2> QED
    BY <2>1, <2>2, <2>3, <1>2, <1>5 DEF Occupied, OnP, InPhase
<1>8. Room'
  BY <1>1, <1>7, RoomStays
<1> QED
  BY <1>4, <1>6, <1>8 DEF DriverInv

(* A wait for a time: a timer starts, or is over at once. *)
LEMMA TimerBooks ==
  ASSUME DriverInv, NEW r \in Rows, StartTimer(r),
         UNCHANGED <<work, tick, position, launched, pendingSessions, finishedSessions, spent>>
  PROVE  DriverInv'
<1>1. phase[r] = "waiting" /\ {r} \in SUBSET InPhase({"decode", "timing", "waiting"})
  BY DEF StartTimer, Ready, Startable, InPhase
<1>2. CASE RowOf(r).duration = 0
  BY <1>1, <1>2, CompleteStep DEF StartTimer
<1>3. CASE RowOf(r).duration # 0
  <2> DEFINE at == [q \in {r} |-> tick + RowOf(r).duration]
  <2>1. SetPhase({r}, "timing") /\ due' = Set(at, due) /\ completed' = completed
    BY <1>3 DEF StartTimer
  <2>2. at \in [{r} -> Nat]
    BY WorkFacts DEF DriverInv, Typed
  <2> HIDE DEF at
  <2>3. /\ BooksAgree' /\ SessionBooks'
        /\ phase' \in [Rows -> Phases] /\ due' \in [DOMAIN due' -> Nat]
    BY <2>1, <2>2, <1>1, TimedStep
  <2>4. Rows' = Rows /\ Domains' = Domains
    BY DEF Rows, Domains, RowOf
  <2>5. Typed'
    BY <2>1, <2>3, <2>4 DEF DriverInv, Typed
  <2>6. Room'
    <3>1. phase' = [q \in Rows |-> IF q \in {r} THEN "timing" ELSE phase[q]]
      BY <2>1 DEF SetPhase
    <3>2. /\ Occupied' \subseteq Occupied
          /\ \A d \in Domains : OnP(d)' \subseteq OnP(d) /\ spent'[d] <= StepBudget
      BY <3>1, <2>4 DEF Occupied, OnP, InPhase, RowOf, DriverInv, Room
    <3> QED
      BY <3>2, RoomStays
  <2> QED
    BY <2>3, <2>5, <2>6 DEF DriverInv
<1> QED
  BY <1>2, <1>3

(* A request arrives only where there is room for it.                      *)
LEMMA ArriveBooks ==
  ASSUME DriverInv, NEW r \in Rows, Arrive(r),
         UNCHANGED <<work, tick, position, launched, pendingSessions, finishedSessions, spent>>
  PROVE  DriverInv'
<1>1. /\ phase[r] = "waiting" /\ due' = due /\ completed' = completed
      /\ phase' = [q \in Rows |-> IF q \in {r} THEN "arrived" ELSE phase[q]]
      /\ Cardinality(Occupied) < Concurrency
      /\ Cardinality(OnP(RowOf(r).domain)) < PSlots
  BY DEF Arrive, Ready, Startable, SetPhase, HasRoom
<1>2. /\ Rows' = Rows /\ Domains' = Domains /\ Concurrency' = Concurrency
      /\ \A q : RowOf(q)' = RowOf(q)
  BY DEF Rows, Domains, RowOf, Concurrency
<1>3. phase \in [Rows -> Phases] /\ work \in Workloads
  BY DEF DriverInv, Typed
<1>4. \A P : InPhase(P)' = (InPhase(P) \ {r}) \cup (IF "arrived" \in P THEN {r} ELSE {})
  BY <1>1, <1>2, <1>3 DEF InPhase
<1>5. \A P : "waiting" \notin P => r \notin InPhase(P)
  BY <1>1 DEF InPhase
<1>6. Typed'
  BY <1>1, <1>2, <1>3 DEF DriverInv, Typed, Phases
<1>7. BooksAgree'
  BY <1>1, <1>4, <1>5 DEF DriverInv, BooksAgree
<1>8. SessionBooks'
  <2>1. \A q \in InPhase({"complete"}) : phase'[q] = "complete"
    BY <1>1, <1>5 DEF InPhase
  <2> QED
    BY <2>1, SessionsStay
<1>9. Room'
  <2>1. Occupied \in SUBSET Rows /\ Occupied' = Occupied \cup {r} /\ r \notin Occupied
    <3> DEFINE P == {"arrived", "running", "transfer", "decode"}
    <3>1. Occupied = InPhase(P) /\ "arrived" \in P /\ "waiting" \notin P
      BY DEF Occupied
    <3>2. Occupied' = InPhase(P)'
      BY DEF Occupied
    <3>3. InPhase(P) \in SUBSET Rows
      BY DEF InPhase
    <3> HIDE DEF P
    <3>4. r \notin InPhase(P) /\ InPhase(P)' = (InPhase(P) \ {r}) \cup {r}
      BY <3>1, <1>4, <1>5
    <3> QED
      BY <3>1, <3>2, <3>3, <3>4
  <2>2. Concurrency \in Nat /\ PSlots \in Nat
    BY <1>3, WorkFacts, LimitsAssumption
  <2>3. Cardinality(Occupied') <= Concurrency'
    <3>1. IsFiniteSet(Occupied) /\ Cardinality(Occupied) \in Nat
      BY <2>1, <1>3, RowsFinite
    <3>2. Cardinality(Occupied') = Cardinality(Occupied) + 1
      BY <2>1, <3>1, FS_AddElement
    <3> QED
      BY <3>1, <3>2, <2>2, <1>1, <1>2
  <2>4. ASSUME NEW d \in Domains
        PROVE  Cardinality(OnP(d)') <= PSlots /\ spent'[d] <= StepBudget
    <3>1. IsFiniteSet(OnP(d)) /\ Cardinality(OnP(d)) \in Nat
      <4>1. OnP(d) \in SUBSET Rows
        BY DEF OnP, InPhase
      <4> QED
        BY <4>1, <1>3, RowsFinite
    <3>2. Cardinality(OnP(d)) <= PSlots /\ spent'[d] <= StepBudget
      BY DEF DriverInv, Room
    <3>3. CASE d = RowOf(r).domain
      <4>1. OnP(d)' = OnP(d) \cup {r} /\ r \notin OnP(d)
        BY <3>3, <1>2, <1>4, <1>5 DEF OnP
      <4>2. Cardinality(OnP(d)') = Cardinality(OnP(d)) + 1
        BY <4>1, <3>1, FS_AddElement
      <4> QED
        BY <4>2, <3>1, <3>2, <3>3, <2>2, <1>1
    <3>4. CASE d # RowOf(r).domain
      <4>1. OnP(d)' = OnP(d)
        BY <3>4, <1>2, <1>4, <1>5 DEF OnP
      <4> QED
        BY <4>1, <3>2
    <3> QED
      BY <3>3, <3>4
  <2> QED
    BY <2>3, <2>4, <1>2 DEF Room
<1> QED
  BY <1>6, <1>7, <1>8, <1>9 DEF DriverInv

(* A step of a request stays in the budget of its domain.                  *)
LEMMA StepBooks ==
  ASSUME DriverInv, NEW r \in Rows, Step(r),
         UNCHANGED <<work, tick, completed, launched, pendingSessions, finishedSessions>>
  PROVE  DriverInv'
<1>1. PICK hit \in IF phase[r] = "arrived" THEN 0 .. RowOf(r).tokens - 1 ELSE {position[r]} :
        LET target == Min({RowOf(r).tokens, hit + Opportunity(r)})
            last == target = RowOf(r).tokens
        IN  /\ OnTurn(r)
            /\ position' = [position EXCEPT ![r] = target]
            /\ SetPhase({r}, IF last THEN "transfer" ELSE "running")
            /\ spent' = [spent EXCEPT ![RowOf(r).domain] = @ + target - hit]
            /\ due' = IF last THEN Set([q \in {r} |-> tick + Max({1, TransferTicks})], due) ELSE due
  BY DEF Step
<1> DEFINE target == Min({RowOf(r).tokens, hit + Opportunity(r)})
           last == target = RowOf(r).tokens
           d == RowOf(r).domain
<1>2. /\ work \in Workloads /\ tick \in Nat /\ phase \in [Rows -> Phases]
      /\ position \in [Rows -> Int] /\ spent \in [Domains -> Int]
  BY DEF DriverInv, Typed
<1>3. /\ ChunkTokens \in Nat /\ StepBudget \in Nat /\ TransferTicks \in Nat
      /\ RowOf(r).tokens \in Nat /\ d \in Domains
  BY <1>2, WorkFacts, LimitsAssumption
<1>4. hit \in Int
  BY <1>2, <1>3
<1>5. Opportunity(r) \in Int /\ Opportunity(r) <= StepBudget - spent[d]
  <2>1. StepBudget - spent[d] \in Int
    BY <1>2, <1>3
  <2>2. Opportunity(r) = Min({ChunkTokens, StepBudget - spent[d]})
    BY DEF Opportunity
  <2>3. ChunkTokens \in Int
    BY <1>3
  <2> HIDE DEF d
  <2> QED
    BY <2>1, <2>2, <2>3, MinTwo
<1>6. target \in Int /\ target <= hit + Opportunity(r)
  <2>1. hit + Opportunity(r) \in Int /\ RowOf(r).tokens \in Int
    BY <1>3, <1>4, <1>5
  <2>2. \A a, b \in Int : Min({a, b}) \in {a, b} /\ Min({a, b}) <= b
    BY MinTwo
  <2>3. \A a, b \in Int : Min({a, b}) \in Int /\ Min({a, b}) <= b
    BY <2>2
  <2> HIDE DEF last, d
  <2> QED
    BY <2>1, <2>3
<1>7. /\ position' = [position EXCEPT ![r] = target]
      /\ phase' = [q \in Rows |-> IF q \in {r} THEN IF last THEN "transfer" ELSE "running"
                                  ELSE phase[q]]
      /\ SetPhase({r}, IF last THEN "transfer" ELSE "running")
      /\ spent' = [spent EXCEPT ![d] = @ + target - hit]
      /\ due' = IF last THEN Set([q \in {r} |-> tick + Max({1, TransferTicks})], due) ELSE due
      /\ phase[r] \in {"arrived", "running"}
  BY <1>1 DEF SetPhase, OnTurn
<1> HIDE DEF target
<1>8. /\ spent' \in [Domains -> Int]
      /\ \A x \in Domains : spent'[x] <= StepBudget
  <2>1. spent' = [spent EXCEPT ![d] = spent[d] + target - hit]
    BY <1>7
  <2>2. spent[d] + target - hit \in Int /\ spent[d] + target - hit <= StepBudget
    BY <1>2, <1>3, <1>4, <1>5, <1>6
  <2>3. \A x \in Domains : spent[x] <= StepBudget
    BY DEF DriverInv, Room
  <2> QED
    BY <2>1, <2>2, <2>3, <1>2
<1>9. /\ Rows' = Rows /\ Domains' = Domains /\ \A q : RowOf(q)' = RowOf(q)
  BY DEF Rows, Domains, RowOf
<1>10. /\ BooksAgree' /\ SessionBooks'
       /\ phase' \in [Rows -> Phases] /\ due' \in [DOMAIN due' -> Nat]
  <2>1. CASE last
    <3> DEFINE at == [q \in {r} |-> tick + Max({1, TransferTicks})]
    <3>1. SetPhase({r}, "transfer") /\ due' = Set(at, due)
      BY <2>1, <1>7
    <3>2. at \in [{r} -> Nat]
      <4>1. Max({1, TransferTicks}) \in Nat
        BY <1>3, MaxTwo
      <4> QED
        BY <4>1, <1>2
    <3> HIDE DEF at
    <3>3. {r} \in SUBSET Rows /\ \A q \in {r} : phase[q] # "complete"
      BY <1>7
    <3> QED
      BY <3>1, <3>2, <3>3, TimedStep
  <2>2. CASE ~last
    <3>1. phase' = [q \in Rows |-> IF q \in {r} THEN "running" ELSE phase[q]] /\ due' = due
      BY <2>2, <1>7
    <3>2. phase' \in [Rows -> Phases]
      BY <3>1, <1>2 DEF Phases
    <3>3. BooksAgree'
      <4>1. \A P : "arrived" \notin P /\ "running" \notin P => InPhase(P)' = InPhase(P)
        BY <3>1, <1>7, <1>9 DEF InPhase
      <4> QED
        BY <4>1, <3>1 DEF DriverInv, BooksAgree
    <3>4. \A q \in InPhase({"complete"}) : phase'[q] = "complete"
      BY <3>1, <1>7 DEF InPhase
    <3>5. SessionBooks'
      BY <3>4, SessionsStay
    <3>6. due \in [DOMAIN due -> Nat]
      BY DEF DriverInv, Typed
    <3> QED
      BY <3>1, <3>2, <3>3, <3>5, <3>6
  <2> QED
    BY <2>1, <2>2
<1>11. Typed'
  <2>1. position' \in [Rows -> Int]
    BY <1>2, <1>6, <1>7
  <2> QED
    BY <2>1, <1>8, <1>9, <1>10 DEF DriverInv, Typed
<1>12. Room'
  <2>1. /\ Occupied' \subseteq Occupied
        /\ \A x \in Domains : OnP(x)' \subseteq OnP(x)
    BY <1>7, <1>9 DEF Occupied, OnP, InPhase
  <2> QED
    BY <2>1, <1>8, RoomStays
<1> QED
  BY <1>10, <1>11, <1>12 DEF DriverInv

(* Arrived sessions take the free slots, and no more than those.           *)
LEMMA LaunchBooks ==
  ASSUME DriverInv, LaunchSessions
  PROVE  DriverInv'
<1> DEFINE finished == finishedSessions \cup
                         {s \in DOMAIN launched : \A r \in RowsOf(s) : phase[r] = "complete"}
           arrived == Kept(pendingSessions, {s \in Range(pendingSessions) : s.arrival <= tick})
           free == FreeSlots(finished)
           count == Min({free, Len(arrived)})
           first == SubSeq(arrived, 1, count)
           chosen == Range(first)
           ids == {c.id : c \in chosen}
           new == [s \in ids |-> tick]
           S == Range(work.sessions)
<1>1. /\ finishedSessions' = finished /\ launched' = Set(new, launched)
      /\ pendingSessions' = Kept(pendingSessions, Range(pendingSessions) \ chosen)
      /\ UNCHANGED <<work, tick, phase, position, due, completed, spent>>
  BY DEF LaunchSessions
<1>2. /\ work \in Workloads /\ tick \in Nat /\ pendingSessions \in Seq(S)
      /\ launched \in [DOMAIN launched -> Nat]
  BY DEF DriverInv, Typed
<1>3. /\ IsFiniteSet(DOMAIN launched) /\ finishedSessions \subseteq DOMAIN launched
      /\ Cardinality(DOMAIN launched \ finishedSessions) <= SessionConcurrency
      /\ SessionConcurrency \in Nat
  BY LimitsAssumption DEF DriverInv, SessionBooks
<1>4. Rows' = Rows /\ Domains' = Domains /\ \A s : RowsOf(s)' = RowsOf(s)
  BY <1>1 DEF Rows, Domains, RowOf, RowsOf
<1>5. /\ finished \subseteq DOMAIN launched /\ finishedSessions \subseteq finished
      /\ \A s \in finished : \A r \in RowsOf(s) : phase[r] = "complete"
  BY <1>3 DEF DriverInv, SessionBooks
<1>6. arrived \in Seq(S) /\ Len(arrived) \in Nat
  BY <1>2, KeptFacts, LenProperties
<1>7. pendingSessions' \in Seq(S)
  BY <1>1, <1>2, KeptFacts
<1> HIDE DEF finished, arrived, S
<1>8. /\ IsFiniteSet(DOMAIN launched \ finished) /\ free \in Nat
      /\ Cardinality(DOMAIN launched \ finished) + free = SessionConcurrency
  <2>1. /\ IsFiniteSet(finished) /\ Cardinality(finished) \in Nat
        /\ Cardinality(DOMAIN launched) \in Nat
    BY <1>3, <1>5, FS_Subset, FS_CardinalityType
  <2>2. /\ IsFiniteSet(DOMAIN launched \ finished)
        /\ Cardinality(DOMAIN launched \ finished)
             = Cardinality(DOMAIN launched) - Cardinality(DOMAIN launched \cap finished)
    BY <1>3, FS_Difference
  <2>3. DOMAIN launched \cap finished = finished
    BY <1>5
  <2>4. /\ Cardinality(DOMAIN launched \ finished) <= SessionConcurrency
        /\ Cardinality(DOMAIN launched \ finished) \in Nat
    <3>1. DOMAIN launched \ finished \in SUBSET (DOMAIN launched \ finishedSessions)
      BY <1>5
    <3>2. IsFiniteSet(DOMAIN launched \ finishedSessions)
      BY <1>3, FS_Subset
    <3>3. /\ Cardinality(DOMAIN launched \ finished) <= Cardinality(DOMAIN launched \ finishedSessions)
          /\ Cardinality(DOMAIN launched \ finishedSessions) \in Nat
      BY <3>1, <3>2, FS_Subset, FS_CardinalityType
    <3>4. Cardinality(DOMAIN launched \ finished) \in Nat
      BY <2>2, FS_CardinalityType
    <3> QED
      BY <3>3, <3>4, <1>3
  <2> QED
    BY <2>1, <2>2, <2>3, <2>4, <1>3 DEF FreeSlots
<1>9. IsFiniteSet(ids) /\ Cardinality(ids) \in Nat /\ Cardinality(ids) <= free
  <2>1. /\ count \in {free, Len(arrived)} /\ count <= free /\ count <= Len(arrived)
        /\ count \in Nat
    <3>1. free \in Int /\ Len(arrived) \in Int
      BY <1>6, <1>8
    <3> HIDE DEF free
    <3>2. Min({free, Len(arrived)}) \in {free, Len(arrived)}
          /\ Min({free, Len(arrived)}) <= free /\ Min({free, Len(arrived)}) <= Len(arrived)
      BY <3>1, MinTwo
    <3> QED
      BY <3>2, <1>6, <1>8
  <2> HIDE DEF count, free
  <2>2. first \in Seq(S) /\ Len(first) = count
    <3>1. \A i \in 1 .. count : arrived[i] \in S
      BY <2>1, <1>6, ElementOfSeq
    <3>2. 1 \in Int /\ count \in Int
      BY <2>1
    <3>3. first \in Seq(S) /\ Len(first) = IF 1 <= count THEN count - 1 + 1 ELSE 0
      BY <3>1, <3>2, SubSeqProperties
    <3> QED
      BY <3>3, <2>1
  <2> DEFINE f == [i \in 1 .. count |-> first[i].id]
  <2>3. DOMAIN first = 1 .. count
    BY <2>2, LenProperties
  <2>4. f \in Surjection(1 .. count, ids)
    <3>1. \A i \in 1 .. count : first[i] \in chosen
      BY <2>3 DEF Range
    <3>2. f \in [1 .. count -> ids]
      BY <3>1
    <3>3. \A x \in ids : \E i \in 1 .. count : f[i] = x
      BY <2>3 DEF Range
    <3> HIDE DEF f, ids
    <3> QED
      BY <3>2, <3>3 DEF Surjection
  <2>5. IsFiniteSet(1 .. count) /\ Cardinality(1 .. count) = count
    <3>1. Cardinality(1 .. count) = IF 1 > count THEN 0 ELSE count - 1 + 1
      BY <2>1, FS_Interval
    <3> QED
      BY <3>1, <2>1, FS_Interval
  <2> HIDE DEF f, ids
  <2>6. IsFiniteSet(ids) /\ Cardinality(ids) <= count
    BY <2>4, <2>5, FS_Surjection
  <2>7. Cardinality(ids) \in Nat
    BY <2>6, FS_CardinalityType
  <2> QED
    BY <2>1, <2>6, <2>7, <1>8 DEF free
<1>10. DOMAIN launched' = ids \cup DOMAIN launched /\ launched' \in [DOMAIN launched' -> Nat]
  <2>1. new \in [DOMAIN new -> Nat] /\ DOMAIN new = ids
    BY <1>2
  <2> HIDE DEF new
  <2>2. DOMAIN Set(new, launched) = DOMAIN new \cup DOMAIN launched
        /\ Set(new, launched) \in [DOMAIN Set(new, launched) -> Nat]
    BY <2>1, <1>2, SetFacts
  <2> QED
    BY <2>1, <2>2, <1>1
<1> HIDE DEF ids, free
<1>11. Typed'
  BY <1>1, <1>4, <1>7, <1>10 DEF DriverInv, Typed, S
<1>12. BooksAgree'
  BY <1>1, <1>4 DEF DriverInv, BooksAgree, InPhase
<1>13. SessionBooks'
  <2>1. IsFiniteSet(DOMAIN launched') /\ finished \subseteq DOMAIN launched'
    BY <1>3, <1>5, <1>9, <1>10, FS_Union
  <2>2. Cardinality(DOMAIN launched' \ finished) <= SessionConcurrency
    <3> DEFINE old == DOMAIN launched \ finished
    <3>1. DOMAIN launched' \ finished \in SUBSET (ids \cup old)
      BY <1>10
    <3>2. /\ IsFiniteSet(ids \cup old)
          /\ Cardinality(ids \cup old) = Cardinality(ids) + Cardinality(old) - Cardinality(ids \cap old)
          /\ Cardinality(ids \cap old) \in Nat /\ Cardinality(old) \in Nat
      <4>1. IsFiniteSet(old) /\ IsFiniteSet(ids) /\ IsFiniteSet(ids \cap old)
        BY <1>8, <1>9, FS_Intersection
      <4> HIDE DEF old
      <4> QED
        BY <4>1, FS_Union, FS_CardinalityType
    <3>3. /\ Cardinality(DOMAIN launched' \ finished) <= Cardinality(ids \cup old)
          /\ Cardinality(DOMAIN launched' \ finished) \in Nat
      BY <3>1, <3>2, FS_Subset, FS_CardinalityType
    <3> QED
      BY <3>2, <3>3, <1>3, <1>8, <1>9
  <2> QED
    BY <2>1, <2>2, <1>1, <1>4, <1>5 DEF SessionBooks
<1>14. Room'
  <2>1. /\ Occupied' \subseteq Occupied
        /\ \A d \in Domains : OnP(d)' \subseteq OnP(d) /\ spent'[d] <= StepBudget
    BY <1>1, <1>4 DEF Occupied, OnP, InPhase, RowOf, DriverInv, Room
  <2> QED
    BY <2>1, <1>1, RoomStays
<1> QED
  BY <1>11, <1>12, <1>13, <1>14 DEF DriverInv

(* What may come is a natural number, so the clock stays one. *)
LEMMA FutureNat ==
  ASSUME DriverInv
  PROVE  Future \subseteq Nat
<1>1. /\ due \in [DOMAIN due -> Nat] /\ completed \in [DOMAIN completed -> Nat]
      /\ launched \in [DOMAIN launched -> Nat] /\ work \in Workloads
      /\ pendingSessions \in Seq(Range(work.sessions))
  BY DEF DriverInv, Typed
<1>2. Range(due) \subseteq Nat
  BY <1>1 DEF Range
<1>3. ASSUME NEW r \in Rows, Startable(r) PROVE ReadyAt(r) \in Nat
  <2>1. RowOf(r).wait \in Nat
    BY <1>1, WorkFacts
  <2>2. /\ RowOf(r).send # NoRow => completed[RowOf(r).send] \in Nat
        /\ launched[RowOf(r).session] \in Nat
    BY <1>1, <1>3 DEF Startable, Deps
  <2> QED
    BY <2>1, <2>2 DEF ReadyAt
<1>4. \A s \in Range(pendingSessions) : s.arrival \in Nat
  BY <1>1, WorkFacts, RangeOfSeq
<1> QED
  BY <1>2, <1>3, <1>4 DEF Future

(* The clock moves on; only the budgets start anew. *)
LEMMA ClockBooks ==
  ASSUME DriverInv, MoveClock
  PROVE  DriverInv'
<1>1. /\ UNCHANGED <<work, phase, position, due, completed, launched, pendingSessions, finishedSessions>>
      /\ spent' = [d \in Domains |-> 0]
      /\ tick' = tick \/ tick' = tick + 1 \/ (Later # {} /\ tick' = Min(Later))
  BY DEF MoveClock
<1>2. Rows' = Rows /\ Domains' = Domains /\ \A r : RowOf(r)' = RowOf(r)
  BY <1>1 DEF Rows, Domains, RowOf
<1>3. tick \in Nat /\ StepBudget \in Nat
  BY LimitsAssumption DEF DriverInv, Typed
<1>4. tick' \in Nat /\ tick' >= tick
  <2>1. Later \subseteq Nat /\ \A t \in Later : t > tick
    BY FutureNat DEF Later
  <2>2. Later # {} => Min(Later) \in Later
    BY <2>1, MinNat
  <2>3. CASE Later # {} /\ tick' = Min(Later)
    <3>1. tick' \in Later
      BY <2>2, <2>3
    <3>2. tick' \in Nat /\ tick' > tick
      BY <3>1, <2>1
    <3> QED
      BY <3>2, <1>3
  <2>4. CASE tick' = tick \/ tick' = tick + 1
    BY <2>4, <1>3
  <2> QED
    BY <2>3, <2>4, <1>1
<1>5. Typed'
  BY <1>1, <1>2, <1>4 DEF DriverInv, Typed
<1>6. BooksAgree'
  <2>1. \A P : InPhase(P)' = InPhase(P)
    BY <1>1, <1>2 DEF InPhase
  <2>2. \A r \in DOMAIN completed : completed[r] \in Nat /\ completed[r] <= tick
    BY DEF DriverInv, Typed, BooksAgree
  <2> QED
    BY <2>1, <2>2, <1>1, <1>3, <1>4 DEF DriverInv, BooksAgree
<1>7. SessionBooks'
  BY <1>1, SessionsStay DEF InPhase
<1>8. Room'
  <2>1. /\ Occupied' \subseteq Occupied
        /\ \A d \in Domains : OnP(d)' \subseteq OnP(d) /\ spent'[d] <= StepBudget
    BY <1>1, <1>2, <1>3 DEF Occupied, OnP, InPhase
  <2> QED
    BY <2>1, <1>1, RoomStays
<1> QED
  BY <1>5, <1>6, <1>7, <1>8 DEF DriverInv

(* A step that changes nothing of the books. *)
LEMMA StutterBooks ==
  ASSUME DriverInv,
         UNCHANGED <<work, tick, phase, position, due, completed, launched,
                     pendingSessions, finishedSessions, spent>>
  PROVE  DriverInv'
<1>1. Rows' = Rows /\ Domains' = Domains /\ Concurrency' = Concurrency
  BY DEF Rows, Domains, RowOf, Concurrency
<1>2. /\ \A P : InPhase(P)' = InPhase(P)
      /\ \A s : RowsOf(s)' = RowsOf(s)
      /\ \A d : OnP(d)' = OnP(d)
      /\ Occupied' = Occupied
  BY <1>1 DEF InPhase, RowsOf, OnP, Occupied, RowOf
<1> QED
  BY <1>1, <1>2 DEF DriverInv, Typed, BooksAgree, SessionBooks, Room

(* The inductive step: one case per action. *)
LEMMA StepKeepsBooks == DriverInv /\ [Next]_vars => DriverInv'
<1> SUFFICES ASSUME DriverInv, [Next]_vars PROVE DriverInv'
  OBVIOUS
<1>1. CASE ReleaseDue
  BY <1>1, ReleaseBooks
<1>2. CASE CompleteDue
  <2>1. DueNow("decode") \in SUBSET InPhase({"decode", "timing", "waiting"})
    BY DEF DueNow, InPhase
  <2> QED
    BY <2>1, <1>2, CompleteStep DEF CompleteDue
<1>3. CASE TimersDue
  <2>1. DueNow("timing") \in SUBSET InPhase({"decode", "timing", "waiting"})
    BY DEF DueNow, InPhase
  <2> QED
    BY <2>1, <1>3, CompleteStep DEF TimersDue
<1>4. CASE LaunchSessions
  BY <1>4, LaunchBooks
<1>5. CASE VisitRow
  <2>1. UNCHANGED <<work, tick, position, launched, pendingSessions, finishedSessions, spent>>
    BY <1>5 DEF VisitRow
  <2>2. CASE row \in Rows /\ StartTimer(row)
    BY <2>1, <2>2, TimerBooks
  <2>3. CASE row \in Rows /\ Arrive(row)
    BY <2>1, <2>3, ArriveBooks
  <2>4. CASE UNCHANGED <<phase, due, completed>>
    BY <2>1, <2>4, StutterBooks
  <2> QED
    BY <2>2, <2>3, <2>4, <1>5 DEF VisitRow, PassRow
<1>6. CASE VisitStep
  <2>1. UNCHANGED <<work, tick, completed, launched, pendingSessions, finishedSessions>>
    BY <1>6 DEF VisitStep
  <2>2. CASE row \in Rows /\ Step(row)
    BY <2>1, <2>2, StepBooks
  <2>3. CASE UNCHANGED <<phase, position, due, spent>>
    BY <2>1, <2>3, StutterBooks
  <2> QED
    BY <2>2, <2>3, <1>6 DEF VisitStep, Refused, PassStep
<1>7. CASE MoveClock
  BY <1>7, ClockBooks
<1>8. CASE UNCHANGED vars
  BY <1>8, StutterBooks DEF vars
<1> QED
  BY <1>1, <1>2, <1>3, <1>4, <1>5, <1>6, <1>7, <1>8 DEF Next

(***************************************************************************)
(* Whatever the workload, the driver's books agree with the phases of the  *)
(* rows, and no execution limit is ever exceeded.                          *)
(***************************************************************************)
THEOREM BooksCorrect == Spec => []BooksSound
<1>1. Spec => []DriverInv
  BY InitBooks, StepKeepsBooks, PTL DEF Spec
<1> QED
  BY <1>1, InvGivesBooks, PTL

-----------------------------------------------------------------------------
(***************************************************************************)
(* The condition under which the clock jumps over nothing: timers take     *)
(* time, and every session has a row.  validateWorkload asks for neither,  *)
(* and the run driver_zero_timer shows what happens otherwise.             *)
(***************************************************************************)
Timed ==
  \A w \in Workloads :
    /\ \A x \in Range(w.rows) : x.timing => x.duration > 0
    /\ \A s \in Range(w.sessions) : \E x \in Range(w.rows) : x.session = s.id

(* While the clock is about to move, a slot that is taken is in use.       *)
SlotsUsed ==
  /\ \A r \in Rows : phase[r] # "waiting" => RowOf(r).session \in DOMAIN launched
  /\ stage \in {"rows", "steps", "clock"} => DOMAIN launched \ finishedSessions \subseteq UnderWay

(* Only rows of launched sessions are visited, and none completes then.    *)
LEMMA SlotsStay ==
  ASSUME DriverInv, SlotsUsed, NEW R \in SUBSET Rows, NEW p, SetPhase(R, p),
         \A r \in R : RowOf(r).session \in DOMAIN launched,
         work' = work, launched' = launched, finishedSessions' = finishedSessions,
         stage' \in {"rows", "steps", "clock"} =>
           p # "complete" /\ stage \in {"rows", "steps", "clock"}
  PROVE  SlotsUsed'
<1>1. /\ Rows' = Rows /\ \A r : RowOf(r)' = RowOf(r)
      /\ \A s : RowsOf(s)' = RowsOf(s)
  BY DEF Rows, RowOf, RowsOf
<1>2. phase' = [r \in Rows |-> IF r \in R THEN p ELSE phase[r]]
  BY DEF SetPhase
<1>3. \A r \in Rows : phase'[r] # "waiting" => RowOf(r).session \in DOMAIN launched
  BY <1>2 DEF SlotsUsed
<1>4. ASSUME stage' \in {"rows", "steps", "clock"}
      PROVE  DOMAIN launched \ finishedSessions \subseteq UnderWay'
  <2> SUFFICES ASSUME NEW s \in DOMAIN launched \ finishedSessions
               PROVE  s \in UnderWay'
    OBVIOUS
  <2>1. PICK r \in RowsOf(s) : phase[r] # "complete"
    BY <1>4 DEF SlotsUsed, UnderWay
  <2>2. r \in Rows /\ phase'[r] # "complete"
    BY <2>1, <1>2, <1>4 DEF RowsOf
  <2> QED
    BY <2>1, <2>2, <1>1 DEF UnderWay
<1> QED
  BY <1>1, <1>3, <1>4 DEF SlotsUsed

(* A step that changes no phase and stays among the later stages. *)
LEMMA SlotsSame ==
  ASSUME DriverInv, SlotsUsed, UNCHANGED <<work, phase, launched, finishedSessions>>,
         stage' \in {"rows", "steps", "clock"} => stage \in {"rows", "steps", "clock"}
  PROVE  SlotsUsed'
<1>1. /\ Rows' = Rows /\ \A r : RowOf(r)' = RowOf(r)
      /\ \A s : RowsOf(s)' = RowsOf(s)
  BY DEF Rows, RowOf, RowsOf
<1>2. UnderWay' = UnderWay
  BY <1>1 DEF UnderWay
<1> QED
  BY <1>1, <1>2 DEF SlotsUsed

(* After the launches every slot taken belongs to a session with work left. *)
LEMMA SlotsLaunched ==
  ASSUME Timed, DriverInv, SlotsUsed, LaunchSessions
  PROVE  SlotsUsed'
<1>1. /\ \A s \in DOMAIN launched : (\A r \in RowsOf(s) : phase[r] = "complete")
           => s \in finishedSessions'
      /\ UNCHANGED <<work, phase>>
  BY DEF LaunchSessions
<1>2. PICK chosen : /\ launched' = Set([s \in {c.id : c \in chosen} |-> tick], launched)
                    /\ chosen \subseteq Range(work.sessions)
  <2> DEFINE arrived == Kept(pendingSessions, {s \in Range(pendingSessions) : s.arrival <= tick})
             finished == finishedSessions \cup
                           {s \in DOMAIN launched : \A r \in RowsOf(s) : phase[r] = "complete"}
             count == Min({FreeSlots(finished), Len(arrived)})
             first == SubSeq(arrived, 1, count)
  <2>1. launched' = Set([s \in {c.id : c \in Range(first)} |-> tick], launched)
    BY DEF LaunchSessions
  <2>2. pendingSessions' = Kept(pendingSessions, Range(pendingSessions) \ Range(first))
    BY DEF LaunchSessions
  <2>3. arrived \in Seq(Range(work.sessions)) /\ Len(arrived) \in Nat
    BY KeptFacts, LenProperties DEF DriverInv, Typed
  <2>4. count \in Int /\ count <= Len(arrived)
    <3>1. FreeSlots(finished) \in Int
      <4>1. IsFiniteSet(DOMAIN launched) /\ finished \in SUBSET DOMAIN launched
        BY DEF DriverInv, SessionBooks
      <4>2. IsFiniteSet(finished)
        BY <4>1, FS_Subset
      <4>3. Cardinality(DOMAIN launched) \in Nat /\ Cardinality(finished) \in Nat
        BY <4>1, <4>2, FS_CardinalityType
      <4> QED
        BY <4>3, LimitsAssumption DEF FreeSlots
    <3> HIDE DEF finished, arrived
    <3>2. Len(arrived) \in Int
      BY <2>3
    <3>3. /\ Min({FreeSlots(finished), Len(arrived)}) \in {FreeSlots(finished), Len(arrived)}
          /\ Min({FreeSlots(finished), Len(arrived)}) <= Len(arrived)
      BY <3>1, <3>2, MinTwo
    <3> QED
      BY <3>1, <3>2, <3>3
  <2> HIDE DEF count, arrived
  <2>5. first \in Seq(Range(work.sessions))
    <3>1. \A i \in 1 .. count : arrived[i] \in Range(work.sessions)
      BY <2>3, <2>4, ElementOfSeq
    <3> QED
      BY <3>1, <2>4, SubSeqProperties
  <2>6. Range(first) \subseteq Range(work.sessions)
    BY <2>5, RangeOfSeq
  <2> QED
    BY <2>1, <2>6
<1>3. DOMAIN launched' = {c.id : c \in chosen} \cup DOMAIN launched
  BY <1>2 DEF Set
<1>4. /\ Rows' = Rows /\ \A r : RowOf(r)' = RowOf(r)
      /\ \A s : RowsOf(s)' = RowsOf(s)
  BY <1>1 DEF Rows, RowOf, RowsOf
<1>5. ASSUME NEW s \in DOMAIN launched' \ finishedSessions'
      PROVE  \E r \in RowsOf(s) : phase[r] # "complete"
  <2>1. CASE s \in DOMAIN launched
    BY <2>1, <1>1, <1>5
  <2>2. CASE s \notin DOMAIN launched
    <3>1. PICK c \in chosen : c.id = s
      BY <2>2, <1>3, <1>5
    <3>2. PICK x \in Range(work.rows) : x.session = s
      BY <3>1, <1>2 DEF Timed, DriverInv, Typed
    <3>3. PICK r \in Rows : RowOf(r) = x
      BY DEF Rows, RowOf, Range
    <3>4. r \in RowsOf(s) /\ phase[r] = "waiting"
      BY <3>2, <3>3, <2>2 DEF RowsOf, SlotsUsed
    <3> QED
      BY <3>4
  <2> QED
    BY <2>1, <2>2
<1>6. DOMAIN launched' \ finishedSessions' \subseteq UnderWay'
  BY <1>1, <1>4, <1>5 DEF UnderWay
<1> QED
  BY <1>1, <1>3, <1>4, <1>6 DEF SlotsUsed

(* The inductive step for the slots. *)
LEMMA StepKeepsSlots ==
  ASSUME Timed, DriverInv, SlotsUsed, [Next]_vars
  PROVE  SlotsUsed'
<1>1. CASE ReleaseDue
  <2>1. \A r \in DueNow("transfer") : r \in Rows /\ phase[r] # "waiting"
    BY DEF DueNow, InPhase
  <2> QED
    BY <2>1, <1>1, SlotsStay DEF ReleaseDue, SlotsUsed
<1>2. CASE CompleteDue
  <2>1. \A r \in DueNow("decode") : r \in Rows /\ phase[r] # "waiting"
    BY DEF DueNow, InPhase
  <2> QED
    BY <2>1, <1>2, SlotsStay DEF CompleteDue, Complete, SlotsUsed
<1>3. CASE TimersDue
  <2>1. \A r \in DueNow("timing") : r \in Rows /\ phase[r] # "waiting"
    BY DEF DueNow, InPhase
  <2> QED
    BY <2>1, <1>3, SlotsStay DEF TimersDue, Complete, SlotsUsed
<1>4. CASE LaunchSessions
  BY <1>4, SlotsLaunched
<1>5. CASE VisitRow
  <2>1. UNCHANGED <<work, launched, finishedSessions>> /\ stage = "rows"
    BY <1>5 DEF VisitRow
  <2>2. CASE row \in Rows /\ StartTimer(row)
    <3>1. RowOf(row).timing /\ RowOf(row).duration # 0
      <4>1. RowOf(row) \in Range(work.rows) /\ RowOf(row).timing
        BY <2>2 DEF RowOf, Rows, Range, StartTimer
      <4>2. RowOf(row).duration > 0
        BY <4>1 DEF Timed, DriverInv, Typed
      <4> QED
        BY <4>1, <4>2
    <3>2. SetPhase({row}, "timing") /\ RowOf(row).session \in DOMAIN launched
      BY <3>1, <2>2 DEF StartTimer, Ready, Startable
    <3> QED
      BY <3>2, <2>1, <2>2, SlotsStay
  <2>3. CASE row \in Rows /\ Arrive(row)
    <3>1. SetPhase({row}, "arrived") /\ RowOf(row).session \in DOMAIN launched
      BY <2>3 DEF Arrive, Ready, Startable
    <3> QED
      BY <3>1, <2>1, <2>3, SlotsStay
  <2>4. CASE UNCHANGED phase
    BY <2>1, <2>4, SlotsSame
  <2> QED
    BY <2>2, <2>3, <2>4, <1>5 DEF VisitRow, PassRow
<1>6. CASE VisitStep
  <2>1. UNCHANGED <<work, launched, finishedSessions>> /\ stage = "steps"
    BY <1>6 DEF VisitStep
  <2>2. CASE row \in Rows /\ Step(row)
    <3>1. phase[row] # "waiting" /\ \E p \in {"transfer", "running"} : SetPhase({row}, p)
      BY <2>2 DEF Step, OnTurn
    <3>2. PICK p \in {"transfer", "running"} : SetPhase({row}, p)
      BY <3>1
    <3>3. RowOf(row).session \in DOMAIN launched /\ p # "complete"
      BY <3>1, <2>2 DEF SlotsUsed
    <3> QED
      BY <3>2, <3>3, <2>1, <2>2, SlotsStay
  <2>3. CASE UNCHANGED phase
    BY <2>1, <2>3, SlotsSame
  <2> QED
    BY <2>2, <2>3, <1>6 DEF VisitStep, Refused, PassStep
<1>7. CASE MoveClock
  BY <1>7, SlotsSame DEF MoveClock
<1>8. CASE UNCHANGED vars
  BY <1>8, SlotsSame DEF vars
<1> QED
  BY <1>1, <1>2, <1>3, <1>4, <1>5, <1>6, <1>7, <1>8 DEF Next

(* Initially every row waits. *)
LEMMA InitSlots == Init => SlotsUsed
  BY DEF Init, SlotsUsed

(* The clock moves to the least tick of Future, or by one.                 *)
LEMMA ClockSkipsNothing ==
  ASSUME DriverInv, SlotsUsed, [Next]_vars
  PROVE  LET between == tick + 1 .. tick' - 1
         IN  /\ \A r \in DOMAIN due : due[r] \notin between
             /\ \A r \in Rows : Startable(r) => ReadyAt(r) \notin between
             /\ Cardinality(UnderWay) < SessionConcurrency =>
                  \A s \in Range(pendingSessions) : s.arrival \notin between
<1> DEFINE between == tick + 1 .. tick' - 1
<1>1. tick \in Nat
  BY DEF DriverInv, Typed
<1>2. CASE tick' = tick \/ tick' = tick + 1
  BY <1>1, <1>2
<1>3. CASE MoveClock /\ Later # {} /\ tick' = Min(Later)
  <2>1. Future \subseteq Nat
    BY FutureNat
  <2>2. tick' \in Nat /\ \A t \in Later : tick' <= t
    <3>1. Later \subseteq Nat
      BY <2>1 DEF Later
    <3> QED
      BY <3>1, <1>3, MinNat
  <2>3. \A t \in Future : t \notin between
    <3> SUFFICES ASSUME NEW t \in Future, t \in between
                 PROVE  FALSE
      OBVIOUS
    <3>1. t \in Nat
      BY <2>1
    <3>2. t > tick /\ t < tick'
      <4>1. tick' \in Nat
        BY <2>2
      <4>2. t \in tick + 1 .. tick' - 1
        BY DEF between
      <4>3. tick + 1 <= t /\ t <= tick' - 1
        BY <4>2
      <4>4. \A a, b, c \in Nat : b + 1 <= a /\ a <= c - 1 => a > b /\ a < c
        OBVIOUS
      <4> QED
        BY <4>1, <4>3, <4>4, <3>1, <1>1
    <3>3. t \in Later
      BY <3>2 DEF Later
    <3>4. tick' <= t
      BY <3>3, <2>2
    <3> QED
      BY <3>1, <3>2, <3>4, <2>2
  <2>4. \A r \in DOMAIN due : due[r] \in Future
    BY DEF Future, Range
  <2>5. \A r \in Rows : Startable(r) => ReadyAt(r) \in Future
    BY DEF Future
  <2>6. ASSUME Cardinality(UnderWay) < SessionConcurrency
        PROVE  \A s \in Range(pendingSessions) : s.arrival \in Future
    <3>1. stage = "clock"
      BY <1>3 DEF MoveClock
    <3>2. DOMAIN launched \ finishedSessions = UnderWay
      BY <3>1 DEF SlotsUsed, UnderWay, DriverInv, SessionBooks
    <3>3. FreeSlots(finishedSessions) = SessionConcurrency - Cardinality(UnderWay)
      <4>1. /\ IsFiniteSet(DOMAIN launched) /\ finishedSessions \in SUBSET DOMAIN launched
            /\ DOMAIN launched \cap finishedSessions = finishedSessions
        BY DEF DriverInv, SessionBooks
      <4>2. /\ Cardinality(DOMAIN launched \ finishedSessions)
                 = Cardinality(DOMAIN launched) - Cardinality(DOMAIN launched \cap finishedSessions)
        BY <4>1, FS_Difference
      <4> QED
        BY <4>1, <4>2, <3>2 DEF FreeSlots
    <3>4. FreeSlots(finishedSessions) > 0
      <4>1. IsFiniteSet(UnderWay)
        <5>1. IsFiniteSet(DOMAIN launched)
          BY DEF DriverInv, SessionBooks
        <5> QED
          BY <5>1, <3>2, FS_Subset
      <4>2. Cardinality(UnderWay) \in Nat
        BY <4>1, FS_CardinalityType
      <4> QED
        BY <4>2, <3>3, <2>6, LimitsAssumption
    <3> QED
      BY <3>4 DEF Future
  <2> QED
    BY <2>3, <2>4, <2>5, <2>6
<1>4. tick' = tick \/ tick' = tick + 1 \/ (MoveClock /\ Later # {} /\ tick' = Min(Later))
  <2>1. CASE MoveClock
    BY <2>1 DEF MoveClock
  <2>2. CASE ~MoveClock
    BY <2>2 DEF Next, ReleaseDue, CompleteDue, TimersDue, LaunchSessions, VisitRow, VisitStep, vars
  <2> QED
    BY <2>1, <2>2
<1> QED
  BY <1>2, <1>3, <1>4

(***************************************************************************)
(* If timers take time and sessions have rows, the clock of the driver     *)
(* jumps over no due event, no ready row and no launchable session.        *)
(***************************************************************************)
THEOREM ClockCorrect ==
  ASSUME Timed
  PROVE  Spec => NothingSkipped
<1>1. Init => DriverInv /\ SlotsUsed
  BY InitBooks, InitSlots
<1>2. (DriverInv /\ SlotsUsed) /\ [Next]_vars => (DriverInv /\ SlotsUsed)'
  BY StepKeepsBooks, StepKeepsSlots
<1>3. DriverInv /\ SlotsUsed /\ [Next]_vars =>
        [LET between == tick + 1 .. tick' - 1
         IN  /\ \A r \in DOMAIN due : due[r] \notin between
             /\ \A r \in Rows : Startable(r) => ReadyAt(r) \notin between
             /\ Cardinality(UnderWay) < SessionConcurrency =>
                  \A s \in Range(pendingSessions) : s.arrival \notin between]_vars
  BY ClockSkipsNothing
<1> QED
  BY <1>1, <1>2, <1>3, PTL DEF Spec, NothingSkipped

=============================================================================

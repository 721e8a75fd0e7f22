------------------------ MODULE NativeDriver_proofs ------------------------
(***************************************************************************)
(* Proofs that the driver of the native schedulers keeps its books of the  *)
(* transfers, and that it gives up a run only when nothing is left to do.  *)
(***************************************************************************)
EXTENDS NativeDriver, OrderedDicts_proofs, WellFoundedInduction

Whereabouts == {"out", "waiting", "running", "pending", "freed"}
Stages == {"release", "clients", "submit", "schedule", "end"}
Interval == [step : Int, start : Int, end : Int]

(* The domains are walked in the release and in the schedule phase only. *)
Typed ==
  /\ rows \in Workloads
  /\ step \in Nat \ {0} /\ stage \in Stages /\ domain \in 1 .. NDomains
  /\ stage \in {"clients", "submit", "end"} => domain = 1
  /\ place \in [Ids -> Whereabouts] /\ cursor \in [Ids -> Int]
  /\ intervals \in [Ids -> Seq(Interval)]
  /\ prefillStep \in [Ids -> Int] /\ releaseStep \in [Ids -> Int]
  /\ completeStep \in [Ids -> Int]

(* Where a request is and what the driver has noted of it. *)
BooksKept ==
  /\ submitted = {r \in Ids : place[r] # "out"}
  /\ DOMAIN clientAt \cap clientCompleted = {}
  /\ TransfersTracked

(***************************************************************************)
(* The steps noted for one request.  What is due has not been missed: it   *)
(* comes up in this step while its phase is still ahead, later otherwise.  *)
(***************************************************************************)
NotYet(r) == releaseStep[r] = Never /\ completeStep[r] = Never
Expected(r) ==
  /\ NotYet(r)
  /\ prefillStep[r] \in Nat /\ transferAt[r] = prefillStep[r] + rows[r].delay
  /\ transferAt[r] >= step
  /\ transferAt[r] = step => stage = "release" /\ domain <= rows[r].domain
Released(r) ==
  /\ prefillStep[r] \in Nat /\ releaseStep[r] = prefillStep[r] + rows[r].delay
  /\ r \in DOMAIN clientAt =>
       /\ completeStep[r] = Never
       /\ clientAt[r] = releaseStep[r] + 1 /\ clientAt[r] >= step
       /\ clientAt[r] = step => stage \in {"release", "clients"}
  /\ r \in clientCompleted =>
       completeStep[r] = releaseStep[r] + 1 /\ completeStep[r] <= step
Story(r) ==
  /\ place[r] \in {"out", "waiting", "running"} => NotYet(r)
  /\ place[r] = "pending" => Expected(r)
  /\ place[r] = "freed" => Released(r)

(* A request runs after its predecessors are complete. *)
Ordered(r) ==
  /\ r \in submitted => rows[r].after \subseteq clientCompleted
  /\ r \notin submitted => intervals[r] = <<>>
  /\ \A i \in DOMAIN intervals[r], q \in rows[r].after :
       completeStep[q] <= intervals[r][i].step

TransfersInv ==
  /\ Typed /\ BooksKept
  /\ \A r \in Ids : Story(r) /\ Ordered(r)

-----------------------------------------------------------------------------
(* What the assumption says of the rows of a run. *)
LEMMA RowFacts ==
  ASSUME rows \in Workloads
  PROVE  /\ Len(rows) \in Nat /\ Ids = 1 .. Len(rows)
         /\ \A r \in Ids : /\ rows[r].domain \in 1 .. NDomains
                           /\ rows[r].length \in Nat /\ rows[r].length >= 1
                           /\ rows[r].delay \in Nat /\ rows[r].delay >= 1
                           /\ rows[r].after \subseteq 1 .. r - 1
                           /\ rows[r].after \subseteq Ids
         /\ NDomains \in Nat /\ NDomains >= 1
<1>1. rows \in Seq(Range(rows))
  BY WorkloadsAssumption
<1>2. Len(rows) \in Nat /\ Ids = 1 .. Len(rows)
  BY <1>1 DEF Ids
<1>3. NDomains \in Nat /\ NDomains >= 1
  BY WorkloadsAssumption
<1>4. ASSUME NEW r \in Ids
      PROVE  /\ rows[r].domain \in 1 .. NDomains
             /\ rows[r].length \in Nat /\ rows[r].length >= 1
             /\ rows[r].delay \in Nat /\ rows[r].delay >= 1
             /\ rows[r].after \subseteq 1 .. r - 1
             /\ rows[r].after \subseteq Ids
  <2>1. /\ rows[r].domain \in 1 .. NDomains
        /\ {rows[r].length, rows[r].delay} \subseteq Nat \ {0}
        /\ rows[r].after \subseteq 1 .. r - 1
    BY WorkloadsAssumption DEF Ids
  <2>2. 1 .. r - 1 \subseteq Ids
    BY <1>2
  <2> QED
    BY <2>1, <2>2
<1> QED
  BY <1>2, <1>3, <1>4

LEMMA InvGivesTransfers == TransfersInv => TransfersSound
<1> SUFFICES ASSUME TransfersInv PROVE TransfersSound
  OBVIOUS
<1> USE DEF TransfersInv
<1>1. TransfersTracked
  BY DEF BooksKept
<1>2. ASSUME NEW r \in Ids
      PROVE  /\ releaseStep[r] # Never => releaseStep[r] = prefillStep[r] + rows[r].delay
             /\ completeStep[r] # Never => completeStep[r] = releaseStep[r] + 1
  <2>1. Story(r) /\ place[r] \in Whereabouts
    BY DEF Typed
  <2>2. CASE place[r] = "freed"
    <3>1. r \in DOMAIN clientAt \cup clientCompleted
      BY <1>1, <2>2 DEF TransfersTracked
    <3> QED
      BY <2>1, <2>2, <3>1 DEF Story, Released
  <2>3. CASE place[r] # "freed"
    BY <2>1, <2>3 DEF Story, Expected, NotYet, Whereabouts
  <2> QED
    BY <2>2, <2>3
<1>3. ASSUME NEW r \in Ids, NEW i \in DOMAIN intervals[r], NEW q \in rows[r].after
      PROVE  completeStep[q] # Never /\ completeStep[q] <= intervals[r][i].step
  <2>1. intervals[r] # <<>> /\ Ordered(r)
    OBVIOUS
  <2>2. q \in clientCompleted /\ completeStep[q] <= intervals[r][i].step
    BY <2>1 DEF Ordered
  <2>3. q \in Ids /\ place[q] = "freed"
    BY <1>1, <2>2 DEF TransfersTracked
  <2>4. rows[q].delay \in Nat
    BY <2>3, RowFacts DEF Typed
  <2>5. completeStep[q] = prefillStep[q] + rows[q].delay + 1 /\ prefillStep[q] \in Nat
    BY <2>2, <2>3 DEF Story, Released
  <2> QED
    BY <2>2, <2>4, <2>5 DEF Never
<1> QED
  BY <1>1, <1>2, <1>3 DEF TransfersSound, ProtocolKept

LEMMA InitTransfers == Init => TransfersInv
<1> SUFFICES ASSUME Init PROVE TransfersInv
  OBVIOUS
<1>1. NDomains \in Nat /\ NDomains >= 1
  BY RowFacts DEF Init
<1>2. Typed
  <2>1. intervals \in [Ids -> Seq(Interval)]
    BY DEF Init
  <2>2. Never \in Int
    BY DEF Never
  <2> QED
    BY <1>1, <2>1, <2>2 DEF Init, Typed, Whereabouts, Stages
<1>3. BooksKept
  BY DEF Init, BooksKept, TransfersTracked, Pending
<1>4. \A r \in Ids : Story(r)
  BY DEF Init, Story, NotYet
<1>5. \A r \in Ids : Ordered(r)
  BY DEF Init, Ordered
<1> QED
  BY <1>2, <1>3, <1>4, <1>5 DEF TransfersInv

(* The due transfers of a domain are released in the step they are due. *)
LEMMA ReleaseKeeps ==
  ASSUME TransfersInv, ReleaseTransfers
  PROVE  TransfersInv'
<1> USE DEF TransfersInv
<1>0. /\ Typed /\ BooksKept /\ rows' = rows /\ Ids' = Ids /\ step' = step
      /\ step \in Nat
      /\ submitted' = submitted /\ clientActive' = clientActive
      /\ clientCompleted' = clientCompleted /\ intervals' = intervals
      /\ prefillStep' = prefillStep /\ completeStep' = completeStep
  BY DEF ReleaseTransfers, Ids, client, Typed
<1> DEFINE due == DueTransfers(domain)
<1>1. due \subseteq {r \in Ids : place[r] = "pending" /\ rows[r].domain = domain}
  BY DEF DueTransfers, In
<1>2. ASSUME NEW r \in due
      PROVE  transferAt[r] = step /\ Expected(r) /\ r \in Ids
  <2>1. Expected(r) /\ r \in Ids /\ transferAt[r] <= step
    BY <1>1 DEF Story, DueTransfers
  <2>2. rows[r].delay \in Nat
    BY <1>0, <2>1, RowFacts DEF Typed
  <2> QED
    BY <1>0, <2>1, <2>2 DEF Expected
<1>3. /\ stage = "release"
      /\ domain < NDomains => domain' = domain + 1 /\ stage' = "release"
      /\ domain = NDomains => domain' = 1 /\ stage' = "clients"
  BY <1>0 DEF ReleaseTransfers, NextDomain, Typed
<1>4. Typed'
  <2>1. domain' \in 1 .. NDomains /\ stage' \in Stages
        /\ (stage' \in {"clients", "submit", "end"} => domain' = 1)
    BY <1>0, <1>3, RowFacts DEF Typed, Stages
  <2> QED
    BY <1>0, <2>1 DEF Typed, ReleaseTransfers, Whereabouts
<1>5. BooksKept'
  <2> HIDE DEF due
  <2>1. DOMAIN transferAt' = DOMAIN transferAt \ due
        /\ DOMAIN clientAt' = DOMAIN clientAt \cup due
    BY DEF ReleaseTransfers, Restrict, due
  <2>2. place' = [r \in Ids |-> IF r \in due THEN "freed" ELSE place[r]]
    BY DEF ReleaseTransfers, due
  <2>3. \A r \in Ids : place'[r] # "out" <=> place[r] # "out"
    BY <1>1, <2>2
  <2>4. Pending' = Pending \ due
    BY <1>0, <1>1, <2>2 DEF Pending
  <2>5. {r \in Ids : place'[r] = "freed"} = {r \in Ids : place[r] = "freed"} \cup due
    BY <1>1, <2>2
  <2>6. due \cap clientCompleted = {}
    BY <1>0, <1>1 DEF BooksKept, TransfersTracked
  <2> QED
    BY <1>0, <2>1, <2>3, <2>4, <2>5, <2>6 DEF BooksKept, TransfersTracked
<1>6. ASSUME NEW r \in Ids
      PROVE  Story(r)'
  <2>1. CASE r \in due
    <3>1. place'[r] = "freed" /\ releaseStep'[r] = step /\ clientAt'[r] = step + 1
      BY <2>1 DEF ReleaseTransfers
    <3>2. r \notin clientCompleted'
      BY <1>0, <1>1, <2>1 DEF BooksKept, TransfersTracked
    <3> QED
      BY <1>0, <1>2, <2>1, <3>1, <3>2 DEF Story, Released, Expected, NotYet, Typed
  <2>2. CASE r \notin due
    <3>1. place'[r] = place[r] /\ releaseStep'[r] = releaseStep[r]
      BY <2>2 DEF ReleaseTransfers
    <3>2. /\ r \in DOMAIN clientAt' => r \in DOMAIN clientAt /\ clientAt'[r] = clientAt[r]
          /\ r \in DOMAIN transferAt => transferAt'[r] = transferAt[r]
      BY <2>2 DEF ReleaseTransfers, Restrict
    <3>3. CASE place[r] = "pending"
      <4>1. Expected(r) /\ transferAt'[r] = transferAt[r]
        BY <1>0, <3>2, <3>3 DEF Story, BooksKept, TransfersTracked, Pending
      <4>2. transferAt[r] = step => domain < rows[r].domain
        BY <1>0, <2>2, <3>3, <4>1, RowFacts, SMTT(40) DEF Expected, DueTransfers, In, Typed
      <4>3. Expected(r)'
        BY <1>0, <1>3, <3>1, <4>1, <4>2, RowFacts DEF Expected, NotYet, Typed
      <4> QED
        BY <3>1, <3>3, <4>3 DEF Story
    <3>4. CASE place[r] # "pending"
      <4>1. stage' \in {"release", "clients"}
        BY <1>0, <1>3, RowFacts DEF Typed
      <4> QED
        BY <1>0, <3>1, <3>2, <3>4, <4>1 DEF Story, Released, NotYet
    <3> QED
      BY <3>3, <3>4
  <2> QED
    BY <2>1, <2>2
<1>7. ASSUME NEW r \in Ids
      PROVE  Ordered(r)'
  BY <1>0 DEF Ordered
<1> QED
  BY <1>0, <1>4, <1>5, <1>6, <1>7

(* A client completes one step after the release of its reference. *)
LEMMA ClientsKeep ==
  ASSUME TransfersInv, CompleteClients
  PROVE  TransfersInv'
<1> USE DEF TransfersInv
<1>0. /\ Typed /\ BooksKept /\ rows' = rows /\ Ids' = Ids /\ step' = step
      /\ step \in Nat /\ stage = "clients" /\ stage' = "submit" /\ domain' = domain
      /\ place' = place /\ submitted' = submitted /\ intervals' = intervals
      /\ transferAt' = transferAt /\ cursor' = cursor
      /\ prefillStep' = prefillStep /\ releaseStep' = releaseStep
  BY DEF CompleteClients, Ids, sched, Typed
<1> DEFINE due == {r \in DOMAIN clientAt : clientAt[r] <= step}
<1>1. /\ clientActive' = clientActive \ due /\ clientCompleted' = clientCompleted \cup due
      /\ DOMAIN clientAt' = DOMAIN clientAt \ due
      /\ \A r \in DOMAIN clientAt' : clientAt'[r] = clientAt[r]
      /\ completeStep' = [r \in Ids |-> IF r \in due THEN step ELSE completeStep[r]]
  BY DEF CompleteClients, Restrict
<1>2. ASSUME NEW r \in DOMAIN clientAt
      PROVE  /\ r \in Ids /\ place[r] = "freed" /\ Released(r)
             /\ clientAt[r] \in Nat /\ clientAt[r] = releaseStep[r] + 1 /\ clientAt[r] >= step
  <2>1. r \in Ids /\ place[r] = "freed" /\ Released(r)
    BY <1>0 DEF BooksKept, TransfersTracked, Story
  <2>2. rows[r].delay \in Nat
    BY <1>0, <2>1, RowFacts DEF Typed
  <2> QED
    BY <2>1, <2>2 DEF Released
<1>3. due \subseteq DOMAIN clientAt /\ \A r \in due : clientAt[r] = step
  BY <1>0, <1>2
<1> HIDE DEF due
<1>4. Typed'
  BY <1>0, <1>1 DEF Typed, Stages
<1>5. BooksKept'
  <2>1. Pending' = Pending
    BY <1>0 DEF Pending
  <2>2. due \cap clientCompleted = {}
    BY <1>0, <1>3 DEF BooksKept
  <2> QED
    BY <1>0, <1>1, <1>3, <2>1, <2>2 DEF BooksKept, TransfersTracked
<1>6. ASSUME NEW r \in Ids
      PROVE  Story(r)'
  <2>1. CASE r \in due
    <3>1. completeStep'[r] = step /\ r \notin DOMAIN clientAt'
      BY <1>1, <2>1
    <3> QED
      BY <1>0, <1>2, <1>3, <2>1, <3>1 DEF Story, Released
  <2>2. CASE r \notin due
    <3>1. completeStep'[r] = completeStep[r]
      BY <1>1, <2>2
    <3>2. CASE place[r] = "pending"
      BY <1>0, <3>1, <3>2 DEF Story, Expected, NotYet
    <3>3. CASE place[r] = "freed"
      <4>1. r \in DOMAIN clientAt' => r \in DOMAIN clientAt /\ clientAt'[r] = clientAt[r]
                                      /\ clientAt[r] > step
        <5> SUFFICES ASSUME r \in DOMAIN clientAt'
                     PROVE  r \in DOMAIN clientAt /\ clientAt'[r] = clientAt[r]
                            /\ clientAt[r] > step
          OBVIOUS
        <5>1. r \in DOMAIN clientAt /\ clientAt'[r] = clientAt[r]
          BY <1>1
        <5>2. ~ (clientAt[r] <= step)
          BY <5>1, <2>2 DEF due
        <5> QED
          BY <1>0, <1>2, <5>1, <5>2
      <4>2. r \in clientCompleted' => r \in clientCompleted
        BY <1>1, <2>2
      <4> QED
        BY <1>0, <3>1, <3>3, <4>1, <4>2 DEF Story, Released
    <3>4. CASE place[r] \notin {"pending", "freed"}
      BY <1>0, <3>1, <3>4 DEF Story, NotYet
    <3> QED
      BY <3>2, <3>3, <3>4
  <2> QED
    BY <2>1, <2>2
<1>7. ASSUME NEW r \in Ids
      PROVE  Ordered(r)'
  <2>1. CASE r \in submitted
    <3>1. \A q \in rows[r].after : q \in clientCompleted /\ q \in Ids /\ q \notin due
      BY <1>0, <1>3, <2>1, RowFacts DEF Ordered, BooksKept, Typed
    <3>2. \A q \in rows[r].after : completeStep'[q] = completeStep[q]
      BY <1>1, <3>1
    <3> QED
      BY <1>0, <1>1, <3>2 DEF Ordered
  <2>2. CASE r \notin submitted
    BY <1>0, <2>2 DEF Ordered
  <2> QED
    BY <2>1, <2>2
<1> QED
  BY <1>0, <1>4, <1>5, <1>6, <1>7

(* The least element of a nonempty set of naturals. *)
LEMMA LeastOf ==
  ASSUME NEW S, S \subseteq Nat, S # {}
  PROVE  Min(S) \in S /\ \A y \in S : Min(S) <= y
<1> DEFINE less == {p \in Nat \X Nat : p[1] < p[2]}
<1>1. IsWellFoundedOn(less, Nat)
  BY NatLessThanWellFounded DEF OpToRel
<1>2. \A x, y \in Nat : <<y, x>> \in less <=> y < x
  OBVIOUS
<1> HIDE DEF less
<1>3. PICK x \in S : \A y \in S : ~ (<<y, x>> \in less)
  BY <1>1, WFMin
<1>4. \A y \in S : x <= y
  <2>1. \A y \in S : x \in Nat /\ y \in Nat /\ ~ (y < x)
    BY <1>2, <1>3, Zenon
  <2> QED
    BY <2>1
<1> QED
  BY <1>4 DEF Min

LEMMA LeastSubmittable ==
  ASSUME Typed, Submittable # {}
  PROVE  Min(Submittable) \in Submittable
<1>1. Submittable \subseteq Nat
  BY RowFacts DEF Typed, Submittable
<1> QED
  BY <1>1, LeastOf

(* A row is submitted when all it waits for is complete. *)
LEMMA SubmitKeeps ==
  ASSUME TransfersInv, SubmitNext
  PROVE  TransfersInv'
<1> USE DEF TransfersInv
<1>0. /\ Typed /\ BooksKept /\ rows' = rows /\ Ids' = Ids /\ step' = step
      /\ stage' = stage /\ domain' = domain
      /\ clientCompleted' = clientCompleted /\ intervals' = intervals
      /\ transferAt' = transferAt /\ clientAt' = clientAt /\ cursor' = cursor
      /\ prefillStep' = prefillStep /\ releaseStep' = releaseStep
      /\ completeStep' = completeStep
  BY DEF SubmitNext, Ids, times, records
<1>1. PICK n : /\ n \in Submittable /\ place' = [place EXCEPT ![n] = "waiting"]
               /\ submitted' = submitted \cup {n} /\ clientActive' = clientActive \cup {n}
  BY <1>0, LeastSubmittable DEF SubmitNext
<1>2. n \in Ids /\ n \notin submitted /\ rows[n].after \subseteq clientCompleted
  BY <1>1 DEF Submittable
<1>3. place[n] = "out" /\ n \notin clientCompleted
  BY <1>0, <1>2 DEF BooksKept, TransfersTracked
<1>4. Typed'
  BY <1>0, <1>1, <1>2 DEF Typed, Whereabouts
<1>5. /\ \A r \in Ids : place'[r] = IF r = n THEN "waiting" ELSE place[r]
      /\ submitted' = {r \in Ids : place'[r] # "out"}
  BY <1>0, <1>1, <1>2 DEF Typed, BooksKept
<1>6. BooksKept'
  <2>1. Pending' = Pending
    BY <1>0, <1>3, <1>5 DEF Pending
  <2>2. {r \in Ids : place'[r] = "freed"} = {r \in Ids : place[r] = "freed"}
    BY <1>3, <1>5
  <2>3. clientActive' = {r \in submitted' : r \notin clientCompleted}
    BY <1>0, <1>1, <1>3 DEF BooksKept, TransfersTracked
  <2> QED
    BY <1>0, <1>5, <2>1, <2>2, <2>3 DEF BooksKept, TransfersTracked
<1>7. ASSUME NEW r \in Ids
      PROVE  Story(r)' /\ Ordered(r)'
  <2>1. CASE r = n
    <3>1. place'[r] = "waiting" /\ NotYet(r) /\ intervals[r] = <<>>
      BY <1>2, <1>3, <1>5, <2>1 DEF Story, Ordered
    <3> QED
      BY <1>0, <1>2, <2>1, <3>1 DEF Story, Ordered, NotYet
  <2>2. CASE r # n
    <3>1. place'[r] = place[r] /\ (r \in submitted' <=> r \in submitted)
      BY <1>1, <1>5, <2>2
    <3> QED
      BY <1>0, <3>1 DEF Story, Ordered, NotYet, Expected, Released
  <2> QED
    BY <2>1, <2>2
<1> QED
  BY <1>0, <1>4, <1>6, <1>7

(* Steps that change neither the requests nor what was noted of them. *)
LEMMA FrameKeeps ==
  ASSUME TransfersInv, UNCHANGED <<rows, domain, sched, client, times, records>>,
         \/ stage' = stage /\ step' = step
         \/ stage = "submit" /\ stage' = "schedule" /\ step' = step
         \/ stage = "end" /\ stage' = "release" /\ step' \in {step, step + 1}
  PROVE  TransfersInv'
<1> USE DEF TransfersInv
<1>0. /\ Typed /\ BooksKept /\ rows' = rows /\ Ids' = Ids /\ domain' = domain
      /\ place' = place /\ cursor' = cursor /\ submitted' = submitted
      /\ clientActive' = clientActive /\ clientCompleted' = clientCompleted
      /\ transferAt' = transferAt /\ clientAt' = clientAt /\ intervals' = intervals
      /\ prefillStep' = prefillStep /\ releaseStep' = releaseStep
      /\ completeStep' = completeStep /\ step \in Nat
  BY DEF Ids, sched, client, times, records, Typed
<1>1. Typed'
  BY <1>0 DEF Typed, Stages
<1>2. BooksKept'
  BY <1>0 DEF BooksKept, TransfersTracked, Pending
<1>3. ASSUME NEW r \in Ids
      PROVE  Story(r)' /\ Ordered(r)'
  <2>0. rows[r].domain \in 1 .. NDomains /\ rows[r].delay \in Nat
    BY <1>0, RowFacts DEF Typed
  <2>1. CASE place[r] = "pending"
    <3>1. Expected(r) /\ transferAt[r] \in Nat
      BY <2>0, <2>1 DEF Story, Expected
    <3>2. stage = "end" => domain = 1
      BY <1>0 DEF Typed
    <3>3. (transferAt[r] >= step' /\ domain <= rows[r].domain) \/ stage # "end"
      BY <1>0, <2>0, <3>1, <3>2 DEF Expected
    <3>4. transferAt'[r] >= step' /\ (transferAt'[r] = step' =>
                                        stage' = "release" /\ domain' <= rows'[r].domain)
      BY <1>0, <3>1, <3>3 DEF Expected
    <3>5. Expected(r)'
      BY <1>0, <3>1, <3>4 DEF Expected, NotYet
    <3> QED
      BY <1>0, <2>1, <3>5 DEF Story, Ordered
  <2>2. CASE place[r] = "freed"
    <3>1. Released(r)
      BY <2>2 DEF Story
    <3>2. releaseStep[r] \in Nat
      BY <2>0, <3>1 DEF Released
    <3>3. Released(r)'
      BY <1>0, <2>0, <3>1, <3>2 DEF Released
    <3> QED
      BY <1>0, <2>2, <3>3 DEF Story, Ordered
  <2>3. CASE place[r] \notin {"pending", "freed"}
    BY <1>0, <2>3 DEF Story, Ordered, NotYet
  <2> QED
    BY <2>1, <2>2, <2>3
<1> QED
  BY <1>0, <1>1, <1>2, <1>3

(* The least and the greatest of two integers. *)
LEMMA MinInt ==
  ASSUME NEW a \in Int, NEW b \in Int
  PROVE  Min({a, b}) = IF a <= b THEN a ELSE b
<1>1. \E x \in {a, b} : \A y \in {a, b} : x <= y
  OBVIOUS
<1> QED
  BY <1>1 DEF Min

LEMMA IntervalTyped ==
  ASSUME NEW c \in Int, NEW n \in Int, NEW l \in Int, NEW s \in Int
  PROVE  ScheduledInterval(c, n, l, s) \in Interval
<1>1. Min({c - n, l}) \in Int /\ Min({c, l}) \in Int
  BY MinInt
<1> QED
  BY <1>1 DEF ScheduledInterval, Interval

(* What one scheduling step of a domain does to its requests. *)
Ran(b) == DOMAIN b.tokens
After(b) == [r \in Ran(b) |-> Start(b, r) + b.tokens[r]]
Finished(b) == {r \in Ran(b) : After(b)[r] >= rows[r].length}
Piece(b, r) == ScheduledInterval(After(b)[r], b.tokens[r], rows[r].length, step)

LEMMA DecisionFacts ==
  ASSUME Typed, NEW b \in Decisions(domain)
  PROVE  /\ Ran(b) \subseteq In(domain, "running") \cup In(domain, "waiting")
         /\ b.preempt \subseteq In(domain, "running") /\ b.preempt \cap Ran(b) = {}
         /\ \A r \in Ran(b) : b.tokens[r] \in Nat /\ After(b)[r] \in Int
                              /\ Piece(b, r) \in Interval
<1> DEFINE running == In(domain, "running")
           waiting == In(domain, "waiting")
           hits == 0 .. Max({rows[r].length : r \in Ids}) - 1
           shares == UNION {[ids -> 1 .. MaxTokens] : ids \in SUBSET (running \cup waiting)}
<1>1. /\ b \in [preempt : SUBSET running, hit : [waiting -> hits], tokens : shares]
      /\ b.preempt \cap Ran(b) = {}
  BY DEF Decisions, Ran
<1>2. hits \subseteq Int
  OBVIOUS
<1> HIDE DEF running, waiting, hits
<1>3. b.preempt \subseteq running /\ b.hit \in [waiting -> hits] /\ b.tokens \in shares
  BY <1>1
<1>4. PICK ids \in SUBSET (running \cup waiting) : b.tokens \in [ids -> 1 .. MaxTokens]
  BY <1>3
<1>5. Ran(b) = ids
  BY <1>4 DEF Ran
<1>6. ASSUME NEW r \in Ran(b)
      PROVE  b.tokens[r] \in Nat /\ After(b)[r] \in Int /\ Piece(b, r) \in Interval
  <2>1. b.tokens[r] \in Nat
    BY <1>4, <1>5, <1>6, WorkloadsAssumption
  <2>2. r \in Ids /\ (place[r] = "running" \/ r \in waiting)
    BY <1>4, <1>5, <1>6 DEF running, waiting, In
  <2>3. Start(b, r) \in Int
    BY <1>2, <1>3, <2>2 DEF Start, Typed
  <2>4. After(b)[r] \in Int
    BY <2>1, <2>3 DEF After
  <2>5. rows[r].length \in Int /\ step \in Int
    BY <2>2, RowFacts DEF Typed
  <2> QED
    BY <2>1, <2>4, <2>5, IntervalTyped DEF Piece
<1> QED
  BY <1>1, <1>3, <1>4, <1>5, <1>6 DEF running, waiting

(* What AdvanceDomain does, in the terms above. *)
LEMMA AdvanceFacts ==
  ASSUME Typed, AdvanceDomain
  PROVE  \E b \in Decisions(domain) :
           /\ place' = [r \in Ids |-> IF r \in Finished(b) THEN "pending"
                                      ELSE IF r \in Ran(b) THEN "running"
                                      ELSE IF r \in b.preempt THEN "waiting" ELSE place[r]]
           /\ cursor' = [r \in Ids |-> IF r \in Ran(b) THEN After(b)[r]
                                       ELSE IF r \in b.preempt THEN 0 ELSE cursor[r]]
           /\ idle' = IF Ran(b) = {} /\ b.preempt # {} THEN idle \cup {domain}
                      ELSE idle \ {domain}
           /\ intervals' = [r \in Ids |->
                IF r \in Ran(b) /\ Piece(b, r).end > Piece(b, r).start
                THEN Append(intervals[r], Piece(b, r)) ELSE intervals[r]]
           /\ prefillStep' = [r \in Ids |-> IF r \in Finished(b) THEN step
                                            ELSE prefillStep[r]]
           /\ transferAt' = [r \in DOMAIN transferAt \cup Finished(b) |->
                IF r \in Finished(b) THEN step + rows[r].delay ELSE transferAt[r]]
           /\ scheduledAny' = (scheduledAny \/ Ran(b) # {})
  BY DEF AdvanceDomain, Ran, After, Finished, Piece

(* A domain works on its own requests; those that finish are expected. *)
LEMMA AdvanceKeeps ==
  ASSUME TransfersInv, AdvanceDomain
  PROVE  TransfersInv'
<1> USE DEF TransfersInv
<1>0. /\ Typed /\ BooksKept /\ rows' = rows /\ Ids' = Ids /\ step' = step /\ step \in Nat
      /\ stage = "schedule" /\ submitted' = submitted /\ clientActive' = clientActive
      /\ clientCompleted' = clientCompleted /\ clientAt' = clientAt
      /\ releaseStep' = releaseStep /\ completeStep' = completeStep
      /\ NextDomain("end")
  BY DEF AdvanceDomain, Ids, client, Typed
<1>1. PICK b \in Decisions(domain) :
        /\ place' = [r \in Ids |-> IF r \in Finished(b) THEN "pending"
                                   ELSE IF r \in Ran(b) THEN "running"
                                   ELSE IF r \in b.preempt THEN "waiting" ELSE place[r]]
        /\ cursor' = [r \in Ids |-> IF r \in Ran(b) THEN After(b)[r]
                                    ELSE IF r \in b.preempt THEN 0 ELSE cursor[r]]
        /\ intervals' = [r \in Ids |->
             IF r \in Ran(b) /\ Piece(b, r).end > Piece(b, r).start
             THEN Append(intervals[r], Piece(b, r)) ELSE intervals[r]]
        /\ prefillStep' = [r \in Ids |-> IF r \in Finished(b) THEN step
                                         ELSE prefillStep[r]]
        /\ transferAt' = [r \in DOMAIN transferAt \cup Finished(b) |->
             IF r \in Finished(b) THEN step + rows[r].delay ELSE transferAt[r]]
  BY <1>0, AdvanceFacts
<1>2. /\ Ran(b) \subseteq {r \in Ids : place[r] \in {"running", "waiting"}}
      /\ b.preempt \subseteq {r \in Ids : place[r] = "running"}
      /\ Finished(b) \subseteq Ran(b)
      /\ \A r \in Ran(b) : After(b)[r] \in Int /\ Piece(b, r) \in Interval
  BY <1>0, DecisionFacts DEF In, Finished
<1>3. Typed'
  <2>1. domain' \in 1 .. NDomains /\ stage' \in Stages
        /\ (stage' \in {"clients", "submit", "end"} => domain' = 1)
    BY <1>0, RowFacts DEF Typed, Stages, NextDomain
  <2>2. place' \in [Ids -> Whereabouts] /\ cursor' \in [Ids -> Int]
    BY <1>0, <1>1, <1>2 DEF Typed, Whereabouts
  <2>3. intervals' \in [Ids -> Seq(Interval)]
    <3>1. ASSUME NEW r \in Ids
          PROVE  intervals'[r] \in Seq(Interval)
      <4>1. intervals[r] \in Seq(Interval)
        BY <1>0 DEF Typed
      <4>2. CASE r \in Ran(b) /\ Piece(b, r).end > Piece(b, r).start
        BY <1>1, <1>2, <4>1, <4>2
      <4>3. CASE ~ (r \in Ran(b) /\ Piece(b, r).end > Piece(b, r).start)
        BY <1>1, <4>1, <4>3
      <4> QED
        BY <4>2, <4>3
    <3> QED
      BY <1>1, <3>1
  <2>4. prefillStep' \in [Ids -> Int]
    BY <1>0, <1>1 DEF Typed
  <2> QED
    BY <1>0, <2>1, <2>2, <2>3, <2>4 DEF Typed
<1>4. ASSUME NEW r \in Ids
      PROVE  /\ r \in Finished(b) => place'[r] = "pending"
             /\ r \in Ran(b) \ Finished(b) => place'[r] = "running"
             /\ r \in b.preempt \ Ran(b) => place'[r] = "waiting"
             /\ r \notin Ran(b) \cup b.preempt => place'[r] = place[r]
  BY <1>1, <1>2
<1>5. BooksKept'
  <2>1. \A r \in Ids : place'[r] # "out" <=> place[r] # "out"
    BY <1>2, <1>4
  <2>2. Pending' = Pending \cup Finished(b)
    BY <1>0, <1>2, <1>4 DEF Pending
  <2>3. {r \in Ids : place'[r] = "freed"} = {r \in Ids : place[r] = "freed"}
    BY <1>2, <1>4
  <2>4. DOMAIN transferAt' = DOMAIN transferAt \cup Finished(b)
    BY <1>1
  <2> QED
    BY <1>0, <2>1, <2>2, <2>3, <2>4 DEF BooksKept, TransfersTracked
<1>6. ASSUME NEW r \in Ids
      PROVE  Story(r)'
  <2>0. rows[r].domain \in 1 .. NDomains /\ rows[r].delay \in Nat /\ rows[r].delay >= 1
    BY <1>0, RowFacts DEF Typed
  <2>1. CASE r \in Finished(b)
    <3>1. place[r] \in {"running", "waiting"}
      BY <1>2, <2>1
    <3>2. place'[r] = "pending" /\ NotYet(r) /\ prefillStep'[r] = step
          /\ transferAt'[r] = step + rows[r].delay
      BY <1>1, <1>4, <2>1, <3>1 DEF Story
    <3> QED
      BY <1>0, <2>0, <3>2 DEF Story, Expected, NotYet
  <2>2. CASE r \notin Finished(b)
    <3>1. prefillStep'[r] = prefillStep[r]
          /\ (r \in DOMAIN transferAt => transferAt'[r] = transferAt[r])
      BY <1>1, <2>2
    <3>2. CASE place[r] = "pending"
      <4>1. place'[r] = "pending" /\ Expected(r) /\ transferAt'[r] = transferAt[r]
        BY <1>0, <1>2, <1>4, <3>1, <3>2 DEF Story, BooksKept, TransfersTracked, Pending
      <4>2. transferAt[r] # step
        BY <1>0, <4>1 DEF Expected
      <4> QED
        BY <1>0, <3>1, <4>1, <4>2 DEF Story, Expected, NotYet
    <3>3. CASE place[r] = "freed"
      <4>1. place'[r] = "freed" /\ Released(r)
        BY <1>2, <1>4, <3>3 DEF Story
      <4>2. r \in DOMAIN clientAt => clientAt[r] # step
        BY <1>0, <4>1 DEF Released
      <4> QED
        BY <1>0, <3>1, <4>1, <4>2 DEF Story, Released
    <3>4. CASE place[r] \notin {"pending", "freed"}
      <4>1. place'[r] \notin {"pending", "freed"} /\ NotYet(r)
        BY <1>0, <1>2, <1>4, <2>2, <3>4 DEF Story, Typed, Whereabouts
      <4> QED
        BY <1>0, <4>1 DEF Story, NotYet
    <3> QED
      BY <3>2, <3>3, <3>4
  <2> QED
    BY <2>1, <2>2
<1>7. ASSUME NEW r \in Ids
      PROVE  Ordered(r)'
  <2>1. CASE r \in Ran(b) /\ Piece(b, r).end > Piece(b, r).start
    <3>1. intervals'[r] = Append(intervals[r], Piece(b, r)) /\ intervals[r] \in Seq(Interval)
      BY <1>0, <1>1, <2>1 DEF Typed
    <3>2. Piece(b, r).step = step
      BY DEF Piece, ScheduledInterval
    <3>3. r \in submitted
      BY <1>0, <1>2, <2>1 DEF BooksKept
    <3>4. ASSUME NEW q \in rows[r].after
          PROVE  completeStep[q] <= step
      <4>1. q \in clientCompleted /\ q \in Ids /\ place[q] = "freed"
        BY <1>0, <3>3 DEF Ordered, BooksKept, TransfersTracked
      <4> QED
        BY <4>1 DEF Story, Released
    <3>5. \A i \in DOMAIN intervals'[r] :
             (i \in DOMAIN intervals[r] /\ intervals'[r][i] = intervals[r][i])
             \/ intervals'[r][i] = Piece(b, r)
      BY <3>1
    <3> QED
      BY <1>0, <3>2, <3>3, <3>4, <3>5 DEF Ordered
  <2>2. CASE ~ (r \in Ran(b) /\ Piece(b, r).end > Piece(b, r).start)
    <3>1. intervals'[r] = intervals[r]
      BY <1>1, <2>2
    <3> QED
      BY <1>0, <3>1 DEF Ordered
  <2> QED
    BY <2>1, <2>2
<1> QED
  BY <1>0, <1>3, <1>5, <1>6, <1>7

LEMMA StepTransfers == TransfersInv /\ [Next]_vars => TransfersInv'
<1> SUFFICES ASSUME TransfersInv, [Next]_vars PROVE TransfersInv'
  OBVIOUS
<1>1. CASE ReleaseTransfers
  BY <1>1, ReleaseKeeps
<1>2. CASE CompleteClients
  BY <1>2, ClientsKeep
<1>3. CASE SubmitNext
  BY <1>3, SubmitKeeps
<1>4. CASE EndSubmit
  BY <1>4, FrameKeeps DEF EndSubmit
<1>5. CASE AdvanceDomain
  BY <1>5, AdvanceKeeps
<1>6. CASE EndRound
  <2>1. step' \in {step, step + 1}
    BY <1>6 DEF EndRound
  <2> QED
    BY <1>6, <2>1, FrameKeeps DEF EndRound
<1>7. CASE SchedulerRaises
  BY <1>7, FrameKeeps DEF SchedulerRaises
<1>8. CASE UNCHANGED vars
  BY <1>8, FrameKeeps DEF vars
<1> QED
  BY <1>1, <1>2, <1>3, <1>4, <1>5, <1>6, <1>7, <1>8 DEF Next

(***************************************************************************)
(* Driver, connector and clients tell one story of every transfer: what    *)
(* is pending is expected, what is released completes one step later, and  *)
(* no row runs before its predecessors are complete.                       *)
(***************************************************************************)
THEOREM TransfersCorrect == Spec => []TransfersSound
<1>1. Init => TransfersInv
  BY InitTransfers
<1>2. TransfersInv /\ [Next]_vars => TransfersInv'
  BY StepTransfers
<1>3. TransfersInv => TransfersSound
  BY InvGivesTransfers
<1> QED
  BY <1>1, <1>2, <1>3, PTL DEF Spec
-----------------------------------------------------------------------------
(***************************************************************************)
(* Why a run is never given up too early.  A domain that has been visited  *)
(* in a round that scheduled nothing is either without running requests,   *)
(* or has a transfer under way, or has just preempted (Resting); after a   *)
(* whole round without progress no transfer is under way at all, so in the *)
(* next round a domain that may idle has nothing running or has used its   *)
(* preemption up (Spent), and a visited one has nothing left (Drained).    *)
(***************************************************************************)
Live(d) == In(d, "running") \cup In(d, "waiting")
Visited(d) == stage = "end" \/ (stage = "schedule" /\ d < domain)
Resting(d) == In(d, "running") = {} \/ In(d, "pending") # {} \/ d \in idle
Spent(d) == In(d, "running") = {} \/ d \in idle

VisitsIdle ==
  /\ stage \in {"release", "clients", "submit"} => ~scheduledAny
  /\ ~scheduledAny => \A d \in 1 .. NDomains : Visited(d) => Resting(d)
SecondRound ==
  emptySteps = 1 /\ ~scheduledAny =>
    /\ Pending = {} /\ DOMAIN clientAt = {}
    /\ \A d \in 1 .. NDomains : IF Visited(d) THEN Live(d) = {} ELSE Spent(d)

(* After the submissions of a round: not all complete, no more to submit.  *)
WorkLeft ==
  stage \in {"schedule", "end"} =>
    /\ clientCompleted # Ids
    /\ Submittable = {} \/ Cardinality(clientActive) >= MaxInFlight

ProgressInv ==
  /\ TransfersInv /\ VisitsIdle /\ SecondRound /\ WorkLeft
  /\ emptySteps \in {0, 1} /\ scheduledAny \in BOOLEAN
  /\ outcome # "stalled"

LEMMA InitProgress == Init => ProgressInv
<1> SUFFICES ASSUME Init PROVE ProgressInv
  OBVIOUS
<1>1. TransfersInv
  BY InitTransfers
<1>2. VisitsIdle /\ SecondRound /\ WorkLeft
  BY DEF Init, VisitsIdle, SecondRound, WorkLeft, Visited
<1> QED
  BY <1>1, <1>2 DEF Init, ProgressInv

(* Without a transfer under way, releases and completions change nothing. *)
LEMMA ReleaseProgress ==
  ASSUME ProgressInv, ReleaseTransfers, outcome = "running"
  PROVE  ProgressInv'
<1>0. /\ Typed /\ TransfersInv /\ TransfersInv' /\ Ids' = Ids /\ rows' = rows
      /\ scheduledAny' = scheduledAny /\ emptySteps' = emptySteps /\ outcome' = outcome
      /\ idle' = idle /\ stage = "release" /\ stage' \in {"release", "clients"}
  BY ReleaseKeeps DEF ProgressInv, TransfersInv, ReleaseTransfers, rounds, Ids, NextDomain
<1>1. VisitsIdle'
  BY <1>0 DEF ProgressInv, VisitsIdle, Visited
<1>2. SecondRound'
  <2> SUFFICES ASSUME emptySteps = 1, ~scheduledAny
               PROVE  SecondRound'
    BY <1>0 DEF SecondRound
  <2>1. /\ Pending = {} /\ DOMAIN clientAt = {}
        /\ \A d \in 1 .. NDomains : Spent(d)
    BY <1>0 DEF ProgressInv, SecondRound, Visited
  <2>2. DueTransfers(domain) = {}
    BY <2>1 DEF DueTransfers, In, Pending
  <2>3. place' = place /\ DOMAIN clientAt' = DOMAIN clientAt
    BY <1>0, <2>2 DEF ReleaseTransfers, Typed
  <2> QED
    BY <1>0, <2>1, <2>3 DEF SecondRound, Pending, Spent, Visited, In
<1>3. WorkLeft'
  BY <1>0 DEF WorkLeft
<1> QED
  BY <1>0, <1>1, <1>2, <1>3 DEF ProgressInv

LEMMA ClientsProgress ==
  ASSUME ProgressInv, CompleteClients, outcome = "running"
  PROVE  ProgressInv'
<1>0. /\ TransfersInv' /\ Ids' = Ids /\ rows' = rows /\ place' = place
      /\ scheduledAny' = scheduledAny /\ emptySteps' = emptySteps /\ outcome' = outcome
      /\ idle' = idle /\ stage = "clients" /\ stage' = "submit"
      /\ DOMAIN clientAt' \subseteq DOMAIN clientAt
  BY ClientsKeep DEF ProgressInv, CompleteClients, rounds, sched, Ids, Restrict
<1>1. VisitsIdle'
  BY <1>0 DEF ProgressInv, VisitsIdle, Visited
<1>2. SecondRound'
  BY <1>0 DEF ProgressInv, SecondRound, Pending, Spent, Visited, In
<1>3. WorkLeft'
  BY <1>0 DEF WorkLeft
<1> QED
  BY <1>0, <1>1, <1>2, <1>3 DEF ProgressInv

LEMMA SubmitProgress ==
  ASSUME ProgressInv, SubmitNext, outcome = "running"
  PROVE  ProgressInv'
<1>0. /\ Typed /\ TransfersInv' /\ Ids' = Ids /\ rows' = rows
      /\ scheduledAny' = scheduledAny /\ emptySteps' = emptySteps /\ outcome' = outcome
      /\ idle' = idle /\ stage = "submit" /\ stage' = "submit" /\ clientAt' = clientAt
  BY SubmitKeeps DEF ProgressInv, TransfersInv, SubmitNext, rounds, times, Ids
<1>1. VisitsIdle'
  BY <1>0 DEF ProgressInv, VisitsIdle, Visited
<1>2. SecondRound'
  <2>1. \A r \in Ids : place'[r] = place[r] \/ place'[r] = "waiting"
    BY <1>0 DEF SubmitNext, Typed
  <2>2. Pending' \subseteq Pending
        /\ \A d \in 1 .. NDomains : In(d, "running")' \subseteq In(d, "running")
    BY <1>0, <2>1 DEF Pending, In
  <2> QED
    BY <1>0, <2>2 DEF ProgressInv, SecondRound, Spent, Visited
<1>3. WorkLeft'
  BY <1>0 DEF WorkLeft
<1> QED
  BY <1>0, <1>1, <1>2, <1>3 DEF ProgressInv

LEMMA EndSubmitProgress ==
  ASSUME ProgressInv, EndSubmit, outcome = "running"
  PROVE  ProgressInv'
<1>0. /\ Typed /\ TransfersInv' /\ Ids' = Ids /\ rows' = rows /\ place' = place
      /\ scheduledAny' = scheduledAny /\ emptySteps' = emptySteps
      /\ outcome' # "stalled" /\ domain' = domain /\ idle' = idle /\ clientAt' = clientAt
      /\ submitted' = submitted /\ clientActive' = clientActive
      /\ clientCompleted' = clientCompleted /\ stage = "submit"
      /\ stage' \in {"submit", "schedule"}
  BY FrameKeeps DEF ProgressInv, TransfersInv, EndSubmit, rounds, times, sched, client, Ids
<1>1. domain = 1
  BY <1>0 DEF Typed
<1>2. VisitsIdle'
  BY <1>0, <1>1 DEF ProgressInv, VisitsIdle, Visited
<1>3. SecondRound'
  <2>1. \A d \in 1 .. NDomains : ~ Visited(d) /\ ~ Visited(d)'
    BY <1>0, <1>1 DEF Visited
  <2> QED
    BY <1>0, <2>1 DEF ProgressInv, SecondRound, Pending, Spent, In
<1>4. WorkLeft'
  <2>1. Submittable' = Submittable
    BY <1>0 DEF Submittable
  <2> QED
    BY <1>0, <2>1 DEF EndSubmit, WorkLeft
<1> QED
  BY <1>0, <1>2, <1>3, <1>4 DEF ProgressInv

(* A domain that schedules nothing drains, waits for a transfer or rests. *)
LEMMA AdvanceProgress ==
  ASSUME ProgressInv, AdvanceDomain, outcome = "running"
  PROVE  ProgressInv'
<1>0. /\ Typed /\ TransfersInv' /\ Ids' = Ids /\ rows' = rows
      /\ emptySteps' = emptySteps /\ outcome' = outcome /\ clientAt' = clientAt
      /\ submitted' = submitted /\ clientActive' = clientActive
      /\ clientCompleted' = clientCompleted /\ stage = "schedule"
      /\ stage' \in {"schedule", "end"} /\ domain \in 1 .. NDomains
      /\ NDomains \in Nat
  BY AdvanceKeeps, RowFacts DEF ProgressInv, TransfersInv, AdvanceDomain, client, Ids, NextDomain, Typed
<1>1. PICK b \in Decisions(domain) :
        /\ place' = [r \in Ids |-> IF r \in Finished(b) THEN "pending"
                                   ELSE IF r \in Ran(b) THEN "running"
                                   ELSE IF r \in b.preempt THEN "waiting" ELSE place[r]]
        /\ idle' = IF Ran(b) = {} /\ b.preempt # {} THEN idle \cup {domain}
                   ELSE idle \ {domain}
        /\ scheduledAny' = (scheduledAny \/ Ran(b) # {})
  BY <1>0, AdvanceFacts
<1>2. /\ b.preempt \subseteq In(domain, "running")
      /\ Ran(b) = {} /\ Live(domain) # {} =>
           In(domain, "pending") # {} \/ (b.preempt # {} /\ domain \notin idle)
  BY <1>0, DecisionFacts DEF Decisions, Ran, Live
<1>3. \A d \in 1 .. NDomains : Visited(d)' <=> Visited(d) \/ d = domain
  BY <1>0 DEF AdvanceDomain, NextDomain, Visited
<1>4. ASSUME ~scheduledAny'
      PROVE  /\ ~scheduledAny /\ Ran(b) = {} /\ Pending' = Pending
             /\ \A d \in 1 .. NDomains : In(d, "running")' \subseteq In(d, "running")
             /\ \A d \in 1 .. NDomains : In(d, "pending")' = In(d, "pending")
             /\ \A d \in 1 .. NDomains : Live(d)' = Live(d)
             /\ \A d \in 1 .. NDomains \ {domain} : d \in idle' <=> d \in idle
             /\ b.preempt # {} => domain \in idle'
  <2>1. ~scheduledAny /\ Ran(b) = {} /\ Finished(b) = {}
    BY <1>1, <1>4 DEF Finished
  <2>2. \A r \in Ids : place'[r] = IF r \in b.preempt THEN "waiting" ELSE place[r]
    BY <1>1, <2>1
  <2>3. \A r \in b.preempt : r \in Ids /\ place[r] = "running"
    BY <1>2 DEF In
  <2>4. /\ Pending' = Pending
        /\ \A d \in 1 .. NDomains : In(d, "running")' \subseteq In(d, "running")
        /\ \A d \in 1 .. NDomains : In(d, "pending")' = In(d, "pending")
        /\ \A d \in 1 .. NDomains : Live(d)' = Live(d)
    BY <1>0, <2>2, <2>3 DEF Pending, In, Live
  <2> QED
    BY <1>1, <2>1, <2>4
<1>5. VisitsIdle'
  <2> SUFFICES ASSUME ~scheduledAny', NEW d \in 1 .. NDomains, Visited(d)'
               PROVE  Resting(d)'
    BY <1>0 DEF VisitsIdle
  <2>1. CASE d = domain
    <3>1. CASE Live(domain) = {}
      BY <1>4, <2>1, <3>1 DEF Resting, Live
    <3>2. CASE Live(domain) # {}
      BY <1>2, <1>4, <2>1, <3>2 DEF Resting
    <3> QED
      BY <3>1, <3>2
  <2>2. CASE d # domain
    <3>1. Resting(d)
      BY <1>3, <1>4, <2>2 DEF ProgressInv, VisitsIdle
    <3> QED
      BY <1>4, <2>2, <3>1 DEF Resting
  <2> QED
    BY <2>1, <2>2
<1>6. SecondRound'
  <2> SUFFICES ASSUME emptySteps = 1, ~scheduledAny'
               PROVE  SecondRound'
    BY <1>0 DEF SecondRound
  <2>1. /\ Pending = {} /\ DOMAIN clientAt = {}
        /\ \A d \in 1 .. NDomains : IF Visited(d) THEN Live(d) = {} ELSE Spent(d)
    BY <1>4 DEF ProgressInv, SecondRound
  <2>2. Live(domain) = {}
    <3>1. In(domain, "pending") = {}
      BY <2>1 DEF In, Pending
    <3>2. Spent(domain) \/ Live(domain) = {}
      BY <1>0, <2>1
    <3> QED
      BY <1>2, <1>4, <3>1, <3>2 DEF Spent
  <2>3. ASSUME NEW d \in 1 .. NDomains
        PROVE  IF Visited(d)' THEN Live(d)' = {} ELSE Spent(d)'
    <3>1. CASE d = domain
      BY <1>3, <1>4, <2>2, <3>1
    <3>2. CASE d # domain
      <4>1. Visited(d)' <=> Visited(d)
        BY <1>3, <3>2
      <4>2. IF Visited(d) THEN Live(d) = {} ELSE Spent(d)
        BY <2>1
      <4> QED
        BY <1>4, <3>2, <4>1, <4>2 DEF Spent
    <3> QED
      BY <3>1, <3>2
  <2> QED
    BY <1>0, <1>4, <2>1, <2>3 DEF SecondRound
<1>7. WorkLeft'
  <2>1. Submittable' = Submittable
    BY <1>0 DEF Submittable
  <2> QED
    BY <1>0, <2>1 DEF ProgressInv, WorkLeft
<1>8. scheduledAny' \in BOOLEAN
  BY <1>1 DEF ProgressInv
<1> QED
  BY <1>0, <1>5, <1>6, <1>7, <1>8 DEF ProgressInv

(***************************************************************************)
(* When nothing is running, waiting or under way after a round, everything *)
(* submitted is complete, so the first row that is not could be submitted. *)
(***************************************************************************)
LEMMA NothingLeft ==
  ASSUME TransfersInv, WorkLeft, stage = "end", Pending = {}, DOMAIN clientAt = {},
         \A d \in 1 .. NDomains : Live(d) = {}
  PROVE  FALSE
<1>0. Typed /\ BooksKept /\ TransfersTracked
  BY DEF TransfersInv, BooksKept
<1>1. submitted \subseteq clientCompleted
  <2> SUFFICES ASSUME NEW r \in submitted PROVE r \in clientCompleted
    OBVIOUS
  <2>1. r \in Ids /\ place[r] \in Whereabouts \ {"out"}
    BY <1>0 DEF BooksKept, Typed
  <2>2. rows[r].domain \in 1 .. NDomains
    BY <1>0, <2>1, RowFacts DEF Typed
  <2>3. place[r] \notin {"running", "waiting"}
    BY <2>1, <2>2 DEF Live, In
  <2>4. place[r] # "pending"
    BY <2>1 DEF Pending
  <2>5. place[r] = "freed"
    BY <2>1, <2>3, <2>4 DEF Whereabouts
  <2> QED
    BY <1>0, <2>1, <2>5 DEF TransfersTracked
<1>2. clientActive = {}
  BY <1>0, <1>1 DEF TransfersTracked
<1>3. Submittable = {}
  <2>1. Cardinality(clientActive) = 0 /\ MaxInFlight >= 1 /\ MaxInFlight \in Nat
    BY <1>2, FS_EmptySet, WorkloadsAssumption
  <2> QED
    BY <2>1 DEF WorkLeft
<1>4. clientCompleted \subseteq Ids /\ clientCompleted # Ids
  BY <1>0 DEF TransfersTracked, WorkLeft
<1>5. Ids \ submitted # {} /\ Ids \ submitted \subseteq Nat
  <2>1. Ids \subseteq Nat
    BY <1>0, RowFacts DEF Typed
  <2> QED
    BY <1>1, <1>4, <2>1
<1>6. PICK n \in Ids \ submitted : \A m \in Ids \ submitted : n <= m
  BY <1>5, LeastOf
<1>7. rows[n].after \subseteq 1 .. n - 1 /\ rows[n].after \subseteq Ids /\ n \in Nat
  BY <1>0, <1>6, RowFacts, SMTT(40) DEF Typed
<1>8. rows[n].after \subseteq submitted
  BY <1>6, <1>7
<1> QED
  BY <1>1, <1>3, <1>6, <1>8 DEF Submittable

LEMMA RoundProgress ==
  ASSUME ProgressInv, EndRound, outcome = "running"
  PROVE  ProgressInv'
<1>0. /\ Typed /\ TransfersInv /\ Ids' = Ids /\ rows' = rows /\ place' = place
      /\ scheduledAny' = FALSE /\ idle' = idle /\ clientAt' = clientAt
      /\ domain' = domain /\ stage = "end" /\ stage' = "release"
      /\ emptySteps \in {0, 1} /\ scheduledAny \in BOOLEAN
  BY DEF ProgressInv, TransfersInv, EndRound, times, sched, Ids
<1>1. TransfersInv'
  <2>1. step' \in {step, step + 1}
    BY DEF EndRound
  <2> QED
    BY <1>0, <2>1, FrameKeeps DEF EndRound
<1>2. emptySteps = 1 => Moving
  <2> SUFFICES ASSUME emptySteps = 1, ~Moving PROVE FALSE
    OBVIOUS
  <2>1. ~scheduledAny
    BY DEF Moving
  <2>2. Pending = {} /\ DOMAIN clientAt = {} /\ \A d \in 1 .. NDomains : Live(d) = {}
    BY <1>0, <2>1 DEF ProgressInv, SecondRound, Visited
  <2> QED
    BY <1>0, <2>2, NothingLeft DEF ProgressInv
<1>3. emptySteps' = IF Moving THEN 0 ELSE 1
  BY <1>0, <1>2 DEF EndRound
<1>4. VisitsIdle' /\ WorkLeft'
  BY <1>0 DEF VisitsIdle, Visited, WorkLeft
<1>5. SecondRound'
  <2> SUFFICES ASSUME ~Moving
               PROVE  SecondRound'
    BY <1>3 DEF SecondRound
  <2>1. ~scheduledAny /\ Pending = {} /\ DOMAIN clientAt = {}
    BY DEF Moving
  <2>2. \A d \in 1 .. NDomains : Resting(d)
    BY <1>0, <2>1 DEF ProgressInv, VisitsIdle, Visited
  <2>3. \A d \in 1 .. NDomains : Spent(d)
    BY <2>1, <2>2 DEF Resting, Spent, In, Pending
  <2>4. \A d \in 1 .. NDomains : Spent(d)' /\ ~ Visited(d)'
    BY <1>0, <2>3 DEF Spent, In, Visited
  <2> QED
    BY <1>0, <2>1, <2>4 DEF SecondRound, Pending
<1>6. outcome' # "stalled" /\ emptySteps' \in {0, 1}
  BY <1>3 DEF EndRound
<1> QED
  BY <1>0, <1>1, <1>4, <1>5, <1>6 DEF ProgressInv

LEMMA StepProgress == ProgressInv /\ [Next]_vars => ProgressInv'
<1> SUFFICES ASSUME ProgressInv, [Next]_vars PROVE ProgressInv'
  OBVIOUS
<1>1. CASE outcome = "running" /\ ReleaseTransfers
  BY <1>1, ReleaseProgress
<1>2. CASE outcome = "running" /\ CompleteClients
  BY <1>2, ClientsProgress
<1>3. CASE outcome = "running" /\ SubmitNext
  BY <1>3, SubmitProgress
<1>4. CASE outcome = "running" /\ EndSubmit
  BY <1>4, EndSubmitProgress
<1>5. CASE outcome = "running" /\ AdvanceDomain
  BY <1>5, AdvanceProgress
<1>6. CASE outcome = "running" /\ EndRound
  BY <1>6, RoundProgress
<1>7. ASSUME UNCHANGED <<rows, step, stage, domain, sched, client, times, records, rounds>>,
             outcome' # "stalled"
      PROVE  ProgressInv'
  <2>1. TransfersInv'
    BY <1>7, FrameKeeps DEF ProgressInv
  <2>2. VisitsIdle' /\ SecondRound' /\ WorkLeft'
    BY <1>7 DEF ProgressInv, VisitsIdle, SecondRound, WorkLeft, Visited, Resting, Spent, Live,
                In, Pending, Ids, Submittable, sched, client, times, records, rounds
  <2> QED
    BY <1>7, <2>1, <2>2 DEF ProgressInv, rounds
<1>8. CASE SchedulerRaises \/ UNCHANGED vars
  BY <1>7, <1>8 DEF SchedulerRaises, ProgressInv, vars
<1> QED
  BY <1>1, <1>2, <1>3, <1>4, <1>5, <1>6, <1>8 DEF Next

(***************************************************************************)
(* "no progress" is never reported: as long as the schedulers work on what *)
(* they hold, two rounds in a row cannot pass with nothing under way while *)
(* a row is left to submit or to complete.                                 *)
(***************************************************************************)
THEOREM ProgressCorrect == Spec => []NeverStalled
<1>1. Init => ProgressInv
  BY InitProgress
<1>2. ProgressInv /\ [Next]_vars => ProgressInv'
  BY StepProgress
<1>3. ProgressInv => NeverStalled
  BY DEF ProgressInv, NeverStalled
<1> QED
  BY <1>1, <1>2, <1>3, PTL DEF Spec
-----------------------------------------------------------------------------
(***************************************************************************)
(* The rows of the rounds: Done of them in the round of this step, one for *)
(* each domain in every round before; Latest is the row written last (of   *)
(* the round 0 before any).                                                *)
(***************************************************************************)
Row == (Nat \ {0}) \X (1 .. NDomains)
Done == IF stage = "end" \/ outcome \in {"max_steps", "stalled"} THEN NDomains
        ELSE IF stage = "schedule" THEN domain - 1 ELSE 0
Latest == IF Done > 0 THEN <<step, Done>> ELSE <<step - 1, NDomains>>
Before(a, b) == a[1] < b[1] \/ (a[1] = b[1] /\ a[2] < b[2])

RowsWritten ==
  /\ log \in Seq(Row)
  /\ \A s \in Nat \ {0} :
       Seen(log, NDomains, s) = IF s < step THEN Domains(NDomains)
                                ELSE IF s = step THEN Domains(Done) ELSE <<>>
  /\ \A i \in 1 .. Len(log) - 1 : Before(log[i], log[i + 1])
  /\ IF step = 1 /\ Done = 0 THEN log = <<>>
     ELSE log # <<>> /\ log[Len(log)] = Latest

(* The intervals noted of a request lie in its input and in past rounds. *)
IntervalsIn ==
  \A r \in Ids :
    /\ cursor[r] >= 0
    /\ \A i \in DOMAIN intervals[r] :
         LET n == intervals[r][i]
         IN  0 <= n.start /\ n.start < n.end /\ n.end <= rows[r].length /\ n.step \in 1 .. step

ResultInv ==
  /\ TransfersInv /\ RowsWritten /\ IntervalsIn
  /\ outcome \in {"running", "complete", "stalled", "max_steps", "raised"}
  /\ outcome \in {"max_steps", "stalled"} => stage = "release"
  /\ outcome = "complete" => stage = "submit" /\ clientCompleted = Ids

(* A row adds its domain to what its round has seen, and only to that. *)
LEMMA SeenAppend ==
  ASSUME NEW w \in Seq(Row), NEW e \in Row, NEW s \in Nat \ {0}
  PROVE  Seen(Append(w, e), NDomains, s) =
           IF e[1] = s THEN Append(Seen(w, NDomains, s), e[2]) ELSE Seen(w, NDomains, s)
<1> DEFINE S == {s} \X (1 .. NDomains)
           one == <<e>>
<1>1. e = <<e[1], e[2]>> /\ e[1] \in Nat /\ e[2] \in 1 .. NDomains
  BY DEF Row
<1>2. one \in Seq(Row) /\ Append(w, e) = w \o one /\ Range(one) = {e} /\ Len(one) = 1
      /\ one[1] = e
  BY DEF Range
<1>3. Kept(w, S) \in Seq(Row) /\ Kept(one, S) \in Seq(Row)
      /\ Range(Kept(one, S)) = Range(one) \cap S
  BY <1>2, KeptFacts
<1> HIDE DEF one, S
<1>4. Kept(Append(w, e), S) = Kept(w, S) \o Kept(one, S)
  BY <1>2, KeptConcat
<1>5. \A v : Seen(v, NDomains, s) = [i \in DOMAIN Kept(v, S) |-> Kept(v, S)[i][2]]
  BY DEF Seen, S
<1>6. CASE e[1] = s
  <2>1. e \in S
    BY <1>1, <1>6 DEF S
  <2>2. Kept(one, S) = one
    BY <1>2, <2>1, KeptWhole
  <2>3. Kept(Append(w, e), S) = Append(Kept(w, S), e)
    BY <1>2, <1>3, <1>4, <2>2
  <2>4. [i \in DOMAIN Append(Kept(w, S), e) |-> Append(Kept(w, S), e)[i][2]]
           = Append([i \in DOMAIN Kept(w, S) |-> Kept(w, S)[i][2]], e[2])
    BY <1>3
  <2> QED
    BY <1>5, <1>6, <2>3, <2>4, SMTT(40)
<1>7. CASE e[1] # s
  <2>1. e \notin S
    BY <1>7 DEF S
  <2>2. Range(Kept(one, S)) = {}
    BY <1>2, <1>3, <2>1
  <2>3. Kept(one, S) = <<>>
    BY <1>3, <2>2 DEF Range
  <2>4. Kept(Append(w, e), S) = Kept(w, S)
    BY <1>3, <1>4, <2>3
  <2> QED
    BY <1>5, <1>7, <2>4
<1> QED
  BY <1>6, <1>7

(* The domains in order, one by one. *)
LEMMA DomainsFacts ==
  /\ Domains(0) = <<>>
  /\ \A k \in Nat : /\ Append(Domains(k), k + 1) = Domains(k + 1)
                    /\ Len(Domains(k)) = k
                    /\ k > 0 => Domains(k) # <<>>
<1>1. \A k \in Nat : Domains(k) \in Seq(Nat) /\ Len(Domains(k)) = k
                     /\ \A i \in 1 .. k : Domains(k)[i] = i
  BY DEF Domains
<1>2. Domains(0) = <<>>
  BY DEF Domains
<1>3. ASSUME NEW k \in Nat
      PROVE  Append(Domains(k), k + 1) = Domains(k + 1)
  <2>1. Append(Domains(k), k + 1) \in Seq(Nat) /\ Len(Append(Domains(k), k + 1)) = k + 1
        /\ \A i \in 1 .. k + 1 : Append(Domains(k), k + 1)[i] = i
    BY <1>1
  <2>2. Domains(k + 1) \in Seq(Nat) /\ Len(Domains(k + 1)) = k + 1
        /\ \A i \in 1 .. k + 1 : Domains(k + 1)[i] = i
    BY <1>1
  <2> QED
    BY <2>1, <2>2, SeqEqual
<1>4. \A k \in Nat : k > 0 => Domains(k) # <<>>
  BY <1>1
<1> QED
  BY <1>1, <1>2, <1>3, <1>4

(* Only the rows, where the round is and the step matter to RowsWritten. *)
LEMMA RowsStay ==
  ASSUME RowsWritten, log' = log, step' = step, Done' = Done
  PROVE  RowsWritten'
BY DEF RowsWritten, Latest

LEMMA IntervalsStay ==
  ASSUME IntervalsIn, rows' = rows, cursor' = cursor, intervals' = intervals,
         step \in Nat, step' \in Nat, step' >= step
  PROVE  IntervalsIn'
<1> SUFFICES ASSUME NEW r \in Ids
             PROVE  /\ cursor[r] >= 0
                    /\ \A i \in DOMAIN intervals[r] :
                         LET n == intervals[r][i]
                         IN  /\ 0 <= n.start /\ n.start < n.end /\ n.end <= rows[r].length
                             /\ n.step \in 1 .. step'
  BY DEF IntervalsIn, Ids
<1> QED
  BY DEF IntervalsIn

LEMMA InitResult == Init => ResultInv
<1> SUFFICES ASSUME Init PROVE ResultInv
  OBVIOUS
<1>1. TransfersInv /\ Typed
  BY InitTransfers DEF TransfersInv
<1>2. Done = 0 /\ step = 1 /\ log = <<>>
  BY DEF Init, Done
<1>3. \A s : Seen(<<>>, NDomains, s) = <<>>
  <2>1. \A S : Kept(<<>>, S) = <<>>
    <3>1. <<>> \in Seq(Nat) /\ Range(<<>>) = {}
      BY DEF Range
    <3> QED
      BY <3>1, KeptWhole
  <2> QED
    BY <2>1 DEF Seen
<1>4. RowsWritten
  <2>1. log \in Seq(Row)
    BY <1>2
  <2>2. \A s \in Nat \ {0} : ~ (s < step)
    BY <1>2
  <2> QED
    BY <1>2, <1>3, <2>1, <2>2, DomainsFacts DEF RowsWritten
<1>5. IntervalsIn
  BY DEF Init, IntervalsIn
<1> QED
  BY <1>1, <1>4, <1>5 DEF ResultInv, Init

(* The domain that was scheduled is the next one of the round. *)
LEMMA AdvanceRows ==
  ASSUME Typed, RowsWritten, AdvanceDomain, outcome = "running"
  PROVE  RowsWritten'
<1> DEFINE new == <<step, domain>>
<1>0. /\ step' = step /\ step \in Nat \ {0} /\ domain \in 1 .. NDomains /\ NDomains \in Nat
      /\ stage = "schedule" /\ outcome' = outcome /\ log' = Append(log, new)
      /\ NextDomain("end")
  BY RowFacts DEF Typed, AdvanceDomain, LogRow
<1>1. Done = domain - 1 /\ Done' = domain /\ Done \in Nat
  BY <1>0 DEF Done, NextDomain
<1>2. /\ log \in Seq(Row) /\ new \in Row /\ new[1] = step /\ new[2] = domain
      /\ log' \in Seq(Row) /\ Len(log') = Len(log) + 1 /\ log'[Len(log')] = new /\ log' # <<>>
      /\ \A i \in 1 .. Len(log) : log'[i] = log[i]
      /\ Len(log) \in Nat
  BY <1>0 DEF RowsWritten, Row
<1>3. ASSUME NEW s \in Nat \ {0}
      PROVE  Seen(log', NDomains, s) = IF s < step THEN Domains(NDomains)
                                       ELSE IF s = step THEN Domains(domain) ELSE <<>>
  <2>1. Seen(log', NDomains, s) = IF step = s THEN Append(Seen(log, NDomains, s), domain)
                                  ELSE Seen(log, NDomains, s)
    BY <1>0, <1>2, SeenAppend
  <2>2. CASE s = step
    <3>1. Seen(log, NDomains, s) = Domains(domain - 1)
      BY <1>0, <1>1, <2>2 DEF RowsWritten
    <3>2. Append(Domains(domain - 1), domain) = Domains(domain)
      <4>1. domain - 1 \in Nat /\ (domain - 1) + 1 = domain
        BY <1>0
      <4> QED
        BY <4>1, DomainsFacts
    <3>3. Seen(log', NDomains, s) = Domains(domain)
      BY <2>1, <2>2, <3>1, <3>2
    <3> QED
      BY <1>0, <2>2, <3>3
  <2>3. CASE s # step
    BY <1>0, <2>1, <2>3 DEF RowsWritten
  <2> QED
    BY <2>2, <2>3
<1>4. ASSUME NEW i \in 1 .. Len(log') - 1
      PROVE  Before(log'[i], log'[i + 1])
  <2>1. CASE i = Len(log)
    <3>1. log # <<>> /\ log[i] = Latest
      BY <1>2, <2>1 DEF RowsWritten
    <3>2. Before(Latest, new)
      BY <1>0, <1>1 DEF Before, Latest
    <3> QED
      BY <1>2, <2>1, <3>1, <3>2
  <2>2. CASE i # Len(log)
    <3>1. i \in 1 .. Len(log) - 1 /\ i + 1 \in 1 .. Len(log)
      BY <1>2, <2>2
    <3> QED
      BY <1>2, <3>1 DEF RowsWritten
  <2> QED
    BY <2>1, <2>2
<1>5. Latest' = new /\ ~ (Done' = 0)
  BY <1>0, <1>1 DEF Latest
<1> QED
  BY <1>0, <1>1, <1>2, <1>3, <1>4, <1>5 DEF RowsWritten

(* A scheduled piece lies in the input of its request. *)
LEMMA AdvanceIntervals ==
  ASSUME Typed, IntervalsIn, AdvanceDomain
  PROVE  IntervalsIn'
<1>0. step' = step /\ step \in Nat \ {0} /\ rows' = rows /\ Ids' = Ids
  BY DEF Typed, AdvanceDomain, Ids
<1>1. PICK b \in Decisions(domain) :
        /\ cursor' = [r \in Ids |-> IF r \in Ran(b) THEN After(b)[r]
                                    ELSE IF r \in b.preempt THEN 0 ELSE cursor[r]]
        /\ intervals' = [r \in Ids |->
             IF r \in Ran(b) /\ Piece(b, r).end > Piece(b, r).start
             THEN Append(intervals[r], Piece(b, r)) ELSE intervals[r]]
  BY AdvanceFacts
<1>2. ASSUME NEW r \in Ids, r \in Ran(b)
      PROVE  /\ After(b)[r] \in Nat /\ Piece(b, r).step = step
             /\ Piece(b, r).start \in Nat /\ Piece(b, r).end <= rows[r].length
  <2>1. b.tokens[r] \in Nat /\ After(b)[r] = Start(b, r) + b.tokens[r]
    BY <1>2, DecisionFacts DEF After
  <2>2. Start(b, r) \in Nat
    <3>1. CASE place[r] = "running"
      BY <3>1 DEF Start, IntervalsIn, Typed
    <3>2. CASE place[r] # "running"
      <4> DEFINE waiting == In(domain, "waiting")
                 hits == 0 .. Max({rows[q].length : q \in Ids}) - 1
      <4>1. r \in waiting
        BY <1>2, <3>2, DecisionFacts DEF In
      <4>2. b.hit \in [waiting -> hits]
        BY DEF Decisions
      <4>3. hits \subseteq Nat
        OBVIOUS
      <4> HIDE DEF waiting, hits
      <4> QED
        BY <3>2, <4>1, <4>2, <4>3 DEF Start
    <3> QED
      BY <3>1, <3>2
  <2>3. rows[r].length \in Nat
    BY RowFacts DEF Typed
  <2>4. /\ Piece(b, r).step = step
        /\ Piece(b, r).start = Min({After(b)[r] - b.tokens[r], rows[r].length})
        /\ Piece(b, r).end = Min({After(b)[r], rows[r].length})
    BY DEF Piece, ScheduledInterval
  <2>5. After(b)[r] \in Nat /\ After(b)[r] - b.tokens[r] = Start(b, r)
    BY <2>1, <2>2
  <2>6. Piece(b, r).start \in Nat /\ Piece(b, r).end <= rows[r].length
    BY <2>2, <2>3, <2>4, <2>5, MinInt
  <2> QED
    BY <2>4, <2>5, <2>6
<1>3. ASSUME NEW r \in Ids
      PROVE  /\ cursor'[r] >= 0
             /\ \A i \in DOMAIN intervals'[r] :
                  LET n == intervals'[r][i]
                  IN  /\ 0 <= n.start /\ n.start < n.end /\ n.end <= rows[r].length
                      /\ n.step \in 1 .. step
  <2>1. cursor'[r] >= 0
    BY <1>1, <1>2 DEF IntervalsIn
  <2>2. CASE r \in Ran(b) /\ Piece(b, r).end > Piece(b, r).start
    <3>1. intervals'[r] = Append(intervals[r], Piece(b, r)) /\ intervals[r] \in Seq(Interval)
      BY <1>1, <2>2 DEF Typed
    <3>2. \A i \in DOMAIN intervals'[r] :
             (i \in DOMAIN intervals[r] /\ intervals'[r][i] = intervals[r][i])
             \/ intervals'[r][i] = Piece(b, r)
      BY <3>1
    <3>3. /\ 0 <= Piece(b, r).start /\ Piece(b, r).start < Piece(b, r).end
          /\ Piece(b, r).end <= rows[r].length /\ Piece(b, r).step \in 1 .. step
      <4>1. Piece(b, r) \in Interval
        BY <2>2, DecisionFacts
      <4>2. Piece(b, r).end \in Int
        BY <4>1 DEF Interval
      <4> QED
        BY <1>0, <1>2, <2>2, <4>2
    <3> QED
      BY <2>1, <3>2, <3>3 DEF IntervalsIn
  <2>3. CASE ~ (r \in Ran(b) /\ Piece(b, r).end > Piece(b, r).start)
    <3>1. intervals'[r] = intervals[r]
      BY <1>1, <2>3
    <3> QED
      BY <2>1, <3>1 DEF IntervalsIn
  <2> QED
    BY <2>2, <2>3
<1> QED
  BY <1>0, <1>3 DEF IntervalsIn

LEMMA StepResult == ResultInv /\ [Next]_vars => ResultInv'
<1> SUFFICES ASSUME ResultInv, [Next]_vars PROVE ResultInv'
  OBVIOUS
<1>0. /\ TransfersInv /\ TransfersInv' /\ Typed /\ step \in Nat /\ RowsWritten /\ IntervalsIn
      /\ step' \in Nat /\ NDomains \in Nat /\ NDomains >= 1
  BY StepTransfers, RowFacts DEF ResultInv, TransfersInv, Typed
<1>1. CASE outcome = "running" /\ (ReleaseTransfers \/ CompleteClients \/ SubmitNext)
  <2>1. /\ log' = log /\ step' = step /\ outcome' = outcome /\ rows' = rows
        /\ cursor' = cursor /\ intervals' = intervals
        /\ stage \in {"release", "clients", "submit"}
        /\ stage' \in {"release", "clients", "submit"}
    BY <1>1 DEF ReleaseTransfers, CompleteClients, SubmitNext, NextDomain, rounds, sched, records
  <2>2. Done' = Done
    BY <1>1, <2>1 DEF Done
  <2> QED
    BY <1>0, <1>1, <2>1, <2>2, RowsStay, IntervalsStay DEF ResultInv
<1>2. CASE outcome = "running" /\ EndSubmit
  <2>1. /\ log' = log /\ step' = step /\ rows' = rows /\ clientCompleted' = clientCompleted
        /\ cursor' = cursor /\ intervals' = intervals /\ domain' = domain /\ Ids' = Ids
        /\ stage = "submit"
        /\ IF clientCompleted = Ids THEN outcome' = "complete" /\ stage' = "submit"
           ELSE stage' = "schedule" /\ outcome' = "running"
    BY <1>2 DEF EndSubmit, rounds, sched, client, records, Ids
  <2>2. domain = 1
    BY <1>0, <2>1 DEF Typed
  <2>3. Done' = Done
    BY <1>2, <2>1, <2>2 DEF Done
  <2> QED
    BY <1>0, <2>1, <2>3, RowsStay, IntervalsStay DEF ResultInv
<1>3. CASE outcome = "running" /\ AdvanceDomain
  <2>1. outcome' = outcome
    BY <1>3 DEF AdvanceDomain
  <2> QED
    BY <1>0, <1>3, <2>1, AdvanceRows, AdvanceIntervals DEF ResultInv
<1>4. CASE outcome = "running" /\ EndRound
  <2>1. /\ log' = log /\ rows' = rows /\ cursor' = cursor /\ intervals' = intervals
        /\ stage = "end" /\ stage' = "release"
        /\ outcome' \in {"stalled", "max_steps", "running"}
        /\ step' = IF outcome' = "running" THEN step + 1 ELSE step
    BY <1>4 DEF EndRound, sched, records
  <2>2. Done = NDomains
    BY <2>1 DEF Done
  <2>3. CASE outcome' # "running"
    <3>1. Done' = NDomains
      BY <2>1, <2>3 DEF Done
    <3> QED
      BY <1>0, <2>1, <2>2, <2>3, <3>1, RowsStay, IntervalsStay DEF ResultInv
  <2>4. CASE outcome' = "running"
    <3>1. Done' = 0 /\ step' = step + 1 /\ step \in Nat \ {0}
      BY <1>0, <2>1, <2>4 DEF Done, Typed
    <3>2. RowsWritten'
      <4>1. log # <<>> /\ log[Len(log)] = <<step, NDomains>>
        BY <1>0, <2>2 DEF RowsWritten, Latest
      <4>2. Latest' = <<step, NDomains>> /\ ~ (step' = 1 /\ Done' = 0)
        BY <3>1 DEF Latest
      <4>3. ASSUME NEW s \in Nat \ {0}
            PROVE  Seen(log, NDomains, s) = IF s < step + 1 THEN Domains(NDomains)
                                            ELSE IF s = step + 1 THEN Domains(0) ELSE <<>>
        <5>1. Seen(log, NDomains, s) = IF s < step THEN Domains(NDomains)
                                       ELSE IF s = step THEN Domains(NDomains) ELSE <<>>
          BY <1>0, <2>2 DEF RowsWritten
        <5>2. Domains(0) = <<>>
          BY DomainsFacts
        <5>3. CASE s < step
          BY <3>1, <5>1, <5>3
        <5>4. CASE s = step
          BY <3>1, <5>1, <5>4
        <5>5. CASE s > step
          <6>1. Seen(log, NDomains, s) = <<>> /\ ~ (s < step + 1)
            BY <3>1, <5>1, <5>5
          <6> QED
            BY <5>2, <6>1
        <5> QED
          BY <3>1, <5>3, <5>4, <5>5
      <4> QED
        BY <1>0, <2>1, <3>1, <4>1, <4>2, <4>3 DEF RowsWritten
    <3>3. IntervalsIn'
      BY <1>0, <2>1, <3>1, IntervalsStay
    <3> QED
      BY <1>0, <2>1, <2>4, <3>2, <3>3 DEF ResultInv
  <2> QED
    BY <2>3, <2>4
<1>5. CASE outcome = "running" /\ SchedulerRaises
  <2>1. /\ log' = log /\ step' = step /\ rows' = rows /\ stage' = stage
        /\ cursor' = cursor /\ intervals' = intervals /\ domain' = domain
        /\ outcome' = "raised"
    BY <1>5 DEF SchedulerRaises, rounds, sched, records
  <2>2. Done' = Done
    BY <1>5, <2>1 DEF Done
  <2> QED
    BY <1>0, <2>1, <2>2, RowsStay, IntervalsStay DEF ResultInv
<1>6. CASE UNCHANGED vars
  <2>1. /\ log' = log /\ step' = step /\ rows' = rows /\ stage' = stage /\ Ids' = Ids
        /\ cursor' = cursor /\ intervals' = intervals /\ domain' = domain
        /\ outcome' = outcome /\ clientCompleted' = clientCompleted
    BY <1>6 DEF vars, rounds, sched, records, client, Ids
  <2>2. Done' = Done
    BY <2>1 DEF Done
  <2> QED
    BY <1>0, <2>1, <2>2, RowsStay, IntervalsStay DEF ResultInv
<1> QED
  BY <1>1, <1>2, <1>3, <1>4, <1>5, <1>6 DEF Next

(* The rows written so far can be observed, as a whole run if it is one. *)
LEMMA RowsObserved ==
  ASSUME ResultInv
  PROVE  RoundObservation(log, NDomains, outcome = "complete") # Invalid
<1> DEFINE last == IF log = <<>> THEN 0 ELSE log[Len(log)][1]
           tail == {s \in 1 .. last : Seen(log, NDomains, s) # Domains(NDomains)}
<1>0. /\ NDomains \in Nat /\ NDomains >= 1 /\ step \in Nat \ {0}
      /\ Done \in 0 .. NDomains /\ RowsWritten
  <2>1. /\ NDomains \in Nat /\ NDomains >= 1 /\ step \in Nat \ {0}
        /\ RowsWritten /\ domain \in 1 .. NDomains
    BY RowFacts DEF ResultInv, TransfersInv, Typed
  <2> QED
    BY <2>1 DEF Done
<1>1. last = IF Done > 0 THEN step ELSE step - 1
  BY <1>0 DEF RowsWritten, Latest
<1>2. ASSUME NEW s \in 1 .. last
      PROVE  /\ Seen(log, NDomains, s) = IF s < step THEN Domains(NDomains) ELSE Domains(Done)
             /\ s < step \/ (s = step /\ Done > 0)
             /\ Seen(log, NDomains, s) # <<>>
  <2>1. s \in Nat \ {0} /\ (s < step \/ (s = step /\ Done > 0))
    BY <1>0, <1>1
  <2>2. Seen(log, NDomains, s) = IF s < step THEN Domains(NDomains)
                                 ELSE IF s = step THEN Domains(Done) ELSE <<>>
    BY <1>0, <2>1 DEF RowsWritten
  <2>3. Domains(NDomains) # <<>> /\ (Done > 0 => Domains(Done) # <<>>)
    <3>1. \A k \in Nat : k > 0 => Domains(k) # <<>>
      BY DomainsFacts
    <3>2. Done \in Nat /\ NDomains > 0
      BY <1>0
    <3> QED
      BY <1>0, <3>1, <3>2
  <2> QED
    BY <1>0, <2>1, <2>2, <2>3
<1>3. \A i \in DOMAIN log : log[i][1] >= 1 /\ log[i][2] \in 1 .. NDomains
  BY <1>0 DEF RowsWritten, Row
<1>4. \A i \in 1 .. Len(log) - 1 : \/ log[i][1] < log[i + 1][1]
                                   \/ log[i][1] = log[i + 1][1] /\ log[i][2] < log[i + 1][2]
  BY <1>0 DEF RowsWritten, Before
<1>5. ASSUME NEW s \in tail
      PROVE  /\ outcome # "complete" /\ s = last
             /\ Seen(log, NDomains, s) = Domains(Len(Seen(log, NDomains, s)))
  <2>1. s = step /\ Done > 0 /\ Seen(log, NDomains, s) = Domains(Done) /\ s = last
    BY <1>0, <1>1, <1>2
  <2>2. Len(Domains(Done)) = Done
    BY <1>0, DomainsFacts
  <2>3. outcome # "complete"
    BY <2>1 DEF ResultInv, Done
  <2> QED
    BY <2>1, <2>2, <2>3
<1>6. last - Cardinality(tail) # -1
  <2>1. last \in Nat
    BY <1>0, <1>1
  <2>2. IsFiniteSet(1 .. last) /\ Cardinality(1 .. last) = last
    <3> HIDE DEF last, tail
    <3>1. IsFiniteSet(1 .. last) /\ Cardinality(1 .. last) = IF 1 > last THEN 0 ELSE last - 1 + 1
      BY <2>1, FS_Interval
    <3> QED
      BY <2>1, <3>1
  <2>3. Cardinality(tail) <= last /\ Cardinality(tail) \in Nat
    <3>1. tail \in SUBSET (1 .. last)
      OBVIOUS
    <3> HIDE DEF tail, last
    <3> QED
      BY <2>2, <3>1, FS_Subset, FS_CardinalityType
  <2> QED
    BY <2>1, <2>3
<1>7. RoundObservation(log, NDomains, outcome = "complete")
        = [lastFull |-> last - Cardinality(tail), partial |-> tail # {}]
  <2>1. ~ (\E s \in 1 .. last : Seen(log, NDomains, s) = <<>>)
    BY <1>2
  <2>2. ~ (\E s \in tail : \/ outcome = "complete" \/ s # last
                           \/ Seen(log, NDomains, s) # Domains(Len(Seen(log, NDomains, s))))
    BY <1>5
  <2> QED
    BY <1>3, <1>4, <2>1, <2>2 DEF RoundObservation
<1> HIDE DEF last, tail
<1>8. Invalid.lastFull = -1
  BY DEF Invalid
<1>9. RoundObservation(log, NDomains, outcome = "complete").lastFull = last - Cardinality(tail)
  BY <1>7
<1> QED
  BY <1>6, <1>8, <1>9

LEMMA InvGivesResult == ResultInv => ResultValid
<1> SUFFICES ASSUME ResultInv PROVE ResultValid
  OBVIOUS
<1>1. Typed /\ TransfersTracked /\ BooksKept /\ \A r \in Ids : Story(r)
  BY DEF ResultInv, TransfersInv, BooksKept
<1>2. ASSUME NEW r \in Ids
      PROVE  r \in clientCompleted <=> completeStep[r] # Never
  <2>1. CASE r \in clientCompleted
    <3>1. place[r] = "freed" /\ Released(r)
      BY <1>1, <2>1 DEF TransfersTracked, Story
    <3>2. rows[r].delay \in Nat
      BY <1>1, RowFacts DEF Typed
    <3> QED
      BY <2>1, <3>1, <3>2 DEF Released, Never
  <2>2. CASE r \notin clientCompleted
    <3>1. place[r] = "freed" => r \in DOMAIN clientAt
      BY <1>1, <2>2 DEF TransfersTracked
    <3> QED
      BY <1>1, <2>2, <3>1 DEF Story, Released, Expected, NotYet, Typed, Whereabouts
  <2> QED
    BY <2>1, <2>2
<1>3. clientCompleted = {r \in Ids : completeStep[r] # Never}
  BY <1>1, <1>2 DEF TransfersTracked
<1>4. outcome = "complete" => \A r \in Ids : completeStep[r] # Never
  BY <1>2 DEF ResultInv
<1>5. \A r \in Ids : \A i \in Range(intervals[r]) :
        0 <= i.start /\ i.start < i.end /\ i.end <= rows[r].length /\ i.step \in 1 .. step
  BY DEF ResultInv, IntervalsIn, Range
<1> QED
  BY <1>3, <1>4, <1>5, RowsObserved DEF ResultValid

(***************************************************************************)
(* However a run ends, validate_capacity accepts what it leaves: its rows  *)
(* form whole rounds up to an unfinished last one, a run called complete   *)
(* has completed every request, and the intervals are in range.            *)
(***************************************************************************)
THEOREM ResultCorrect == Spec => []ResultValid
<1>1. Init => ResultInv
  BY InitResult
<1>2. ResultInv /\ [Next]_vars => ResultInv'
  BY StepResult
<1>3. ResultInv => ResultValid
  BY InvGivesResult
<1> QED
  BY <1>1, <1>2, <1>3, PTL DEF Spec
=============================================================================

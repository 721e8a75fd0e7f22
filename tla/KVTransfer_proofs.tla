-------------------------- MODULE KVTransfer_proofs --------------------------
(***************************************************************************)
(* D never gives the blocks of a load away while a transfer may write into *)
(* them, and never computes on a load with a part missing.  Every rank of  *)
(* P reports a request once, and where it serves one rank of D, P keeps    *)
(* the blocks that are sent.  For every pairing of ranks, every number of  *)
(* requests, of sender tasks and of slots, whichever messages are refused, *)
(* late, lost or answered in part.                                         *)
(***************************************************************************)
EXTENDS KVTransfer, FiniteSetTheorems, SequenceTheorems, TLAPS

(* The requests of the answers in a queue, each of them in one answer. *)
Answered(s) == UNION {s[i].ok : i \in DOMAIN s}
Apart(s) == \A i, l \in DOMAIN s : i # l => s[i].ok \cap s[l].ok = {}

(* What a job still has to settle: parts to send and answers on their way. *)
Pending(j) == j.todo \cup j.now \cup Answered(j.replies)

(* The ranks of P that d has not got r from: they did not write their part *)
(* of it, or d has not taken their answer yet.                             *)
Asked(p, d, r) == \E k \in DOMAIN jobs : k[1] = p /\ k[2] = d /\ r \in Pending(jobs[k])
Owing(d, r) == {p \in Served(d) : <<r, p, d>> \notin written \/ Asked(p, d, r)}

DStates == {"waiting", "remote", "running", "held", "gone"}
Loading(r) == dst[r] \in {"remote", "held"}
Answers(batch) == [status : {"ERROR", "CONTINUE", "FINISH"}, ok : SUBSET batch]

DTypes ==
  /\ net \in Nets
  /\ dst \in [Requests -> DStates]
  /\ dLeft \subseteq DRanks
  /\ dQuit \subseteq Requests /\ dMeta \in [pull : SUBSET Requests, quit : SUBSET Requests]
  /\ pulls \in [DRanks -> [Requests -> Int]]
  /\ gotReqs \in [DRanks -> SUBSET Requests] /\ gotBy \in [Requests -> SUBSET DRanks]
  /\ recved \subseteq Requests

(* A request has one place in a job. *)
OnePlace(j) ==
  /\ j.todo \cap j.now = {} /\ (j.todo \cup j.now) \cap Answered(j.replies) = {}
  /\ Apart(j.replies)

(* An answer says that the part was written, and what was aborted before   *)
(* it was scheduled is not loaded.                                         *)
JobSound(k, j) ==
  /\ DOMAIN j = {"state", "todo", "now", "refs", "quit", "replies", "open"}
  /\ j.todo \subseteq k[3] /\ j.now \subseteq k[3] /\ j.replies \in Seq(Answers(k[3]))
  /\ j.quit \subseteq Requests /\ OnePlace(j)
  /\ \A r \in Answered(j.replies) : Loading(r) => <<r, k[1], k[2]>> \in written
  /\ \A r \in j.quit : dst[r] = "gone"

JobsSound ==
  /\ DOMAIN jobs \subseteq PRanks \X DRanks \X SUBSET Requests
  /\ \A k \in DOMAIN jobs : <<k[1], k[2]>> \in net.pairs /\ JobSound(k, jobs[k])
  /\ \A k, l \in DOMAIN jobs : k[1] = l[1] /\ k[2] = l[2] /\ k[3] \cap l[3] # {} => k = l

(* A rank that is still to pull r has nothing of it yet. *)
Untouched(d, r) ==
  /\ \A k \in DOMAIN jobs : k[2] = d => r \notin k[3]
  /\ r \notin gotReqs[d] /\ d \notin gotBy[r]

Unpulled ==
  /\ \A r \in D({"waiting"}) \cup dQuit :
       /\ r \notin dMeta.pull \cup dMeta.quit \cup recved
       /\ \A d \in DRanks : Untouched(d, r)
  /\ dPhase = "load" => \A r \in dMeta.pull \cup dMeta.quit :
       r \notin recved /\ \A d \in dLeft : Untouched(d, r)
  /\ \A r \in dQuit \cup dMeta.quit : dst[r] = "gone"
  /\ dPhase = "load" => \A r \in dMeta.pull : Loading(r)

(* The counts of d never run out before its parts are there. *)
Counted ==
  \A r \in Requests : Loading(r) =>
    /\ \A k \in DOMAIN jobs : r \in k[3] => Cardinality(Owing(k[2], r)) <= pulls[k[2]][r]
    /\ \A d \in DRanks : r \in gotReqs[d] \/ d \in gotBy[r] => Owing(d, r) = {}

Arrived == \A r \in recved : dst[r] = "remote" /\ \A d \in DRanks : Owing(d, r) = {}

(* Nothing is outstanding for a request that has left its blocks. *)
Settled ==
  \A r \in Requests : ~Loading(r) => \A k \in DOMAIN jobs : r \notin Pending(jobs[k]) \ jobs[k].quit

DInv == DTypes /\ JobsSound /\ Unpulled /\ Counted /\ Arrived /\ Settled

(***************************************************************************)
(* Queues of answers                                                       *)
(***************************************************************************)
LEMMA AppendAnswer ==
  ASSUME NEW T, NEW s \in Seq(T), NEW x \in T
  PROVE  /\ Append(s, x) \in Seq(T)
         /\ Answered(Append(s, x)) = Answered(s) \cup x.ok
         /\ Apart(s) /\ Answered(s) \cap x.ok = {} => Apart(Append(s, x))
<1>1. /\ Append(s, x) \in Seq(T) /\ Len(s) \in Nat /\ DOMAIN s = 1 .. Len(s)
      /\ DOMAIN Append(s, x) = 1 .. Len(s) + 1
      /\ \A i \in 1 .. Len(s) : Append(s, x)[i] = s[i]
      /\ Append(s, x)[Len(s) + 1] = x
  BY AppendProperties, LenProperties
<1>2. 1 .. Len(s) + 1 = (1 .. Len(s)) \cup {Len(s) + 1}
  BY <1>1
<1>3. Answered(Append(s, x)) = Answered(s) \cup x.ok
  BY <1>1, <1>2 DEF Answered
<1>4. ASSUME Apart(s), Answered(s) \cap x.ok = {} PROVE Apart(Append(s, x))
  <2>1. \A i \in 1 .. Len(s) : s[i].ok \cap x.ok = {}
    BY <1>1, <1>4 DEF Answered
  <2> QED
    BY <1>1, <1>2, <1>4, <2>1 DEF Apart
<1> QED
  BY <1>1, <1>3, <1>4

LEMMA EmptyAnswer ==
  ASSUME NEW T, NEW s \in Seq(T), NEW x \in T, x.ok = {}, Apart(s)
  PROVE  /\ Append(s, x) \in Seq(T) /\ Answered(Append(s, x)) = Answered(s)
         /\ Apart(Append(s, x))
<1>1. Answered(s) \cap x.ok = {} /\ Answered(s) \cup x.ok = Answered(s)
  OBVIOUS
<1> QED
  BY <1>1, AppendAnswer, ZenonT(60)

LEMMA TakeAnswer ==
  ASSUME NEW T, NEW s \in Seq(T), s # <<>>, Apart(s)
  PROVE  /\ Head(s) \in T /\ Tail(s) \in Seq(T) /\ Apart(Tail(s))
         /\ Answered(Tail(s)) \subseteq Answered(s) /\ Head(s).ok \subseteq Answered(s)
         /\ Answered(Tail(s)) \cap Head(s).ok = {}
<1>1. /\ Len(s) \in Nat /\ Len(s) # 0 /\ DOMAIN s = 1 .. Len(s)
      /\ Tail(s) \in Seq(T) /\ Head(s) \in T /\ Head(s) = s[1]
      /\ DOMAIN Tail(s) = 1 .. Len(s) - 1
      /\ \A i \in 1 .. Len(s) - 1 : Tail(s)[i] = s[i + 1]
  BY LenProperties, EmptySeq, HeadTailProperties
<1>2. \A i \in 1 .. Len(s) - 1 : i + 1 \in 2 .. Len(s)
  BY <1>1
<1>3. 1 \in DOMAIN s /\ \A i \in 2 .. Len(s) : i \in DOMAIN s /\ i # 1
  BY <1>1
<1>4. Apart(Tail(s))
  BY <1>1, <1>2, <1>3 DEF Apart
<1>5. Answered(Tail(s)) \subseteq Answered(s) /\ Head(s).ok \subseteq Answered(s)
  BY <1>1, <1>2, <1>3 DEF Answered
<1>6. Answered(Tail(s)) \cap Head(s).ok = {}
  BY <1>1, <1>2, <1>3 DEF Answered, Apart
<1> QED
  BY <1>1, <1>4, <1>5, <1>6

(***************************************************************************)
(* Jobs                                                                    *)
(***************************************************************************)
LEMMA WithFacts ==
  ASSUME NEW k \in DOMAIN jobs, NEW j, With(k, j)
  PROVE  /\ DOMAIN jobs' \subseteq DOMAIN jobs
         /\ \A i \in DOMAIN jobs' : jobs'[i] = IF i = k THEN j ELSE jobs[i]
BY DEF With, Restrict

(* The ranks, and what a rank pulls from, are those of the deployment. *)
LEMMA RankFacts ==
  ASSUME net \in Nets
  PROVE  /\ \A d : IsFiniteSet(Served(d))
         /\ \A d : Served(d) \subseteq PRanks
         /\ \A c \in net.pairs : c[1] \in Served(c[2]) /\ c[2] \in DRanks /\ c = <<c[1], c[2]>>
         /\ net.aborts \subseteq Requests
<1>1. IsFiniteSet(net.pairs) /\ net.aborts \subseteq net.requests
      /\ net.pairs \subseteq PRanks \X DRanks
  BY NetsAssumption DEF PRanks, DRanks
<1>2. IsFiniteSet(PRanks)
  <2> DEFINE f == [c \in net.pairs |-> c[1]]
  <2>1. f \in Surjection(net.pairs, PRanks)
    BY DEF PRanks, Surjection
  <2> QED
    BY <1>1, <2>1, FS_Surjection
<1>3. \A d : Served(d) \subseteq PRanks
  BY DEF Served
<1>4. \A d : IsFiniteSet(Served(d))
  BY <1>2, <1>3, FS_Subset
<1>5. ASSUME NEW c \in net.pairs
      PROVE  c[1] \in PRanks /\ c[2] \in DRanks /\ c = <<c[1], c[2]>>
  BY <1>1
<1>6. \A c \in net.pairs : c[1] \in Served(c[2])
  BY <1>5 DEF Served
<1> QED
  BY <1>1, <1>3, <1>4, <1>5, <1>6 DEF Requests

(* While jobs only settle parts, no rank comes to owe one. *)
LEMMA OwingShrinks ==
  ASSUME DInv, NEW k \in DOMAIN jobs, NEW j, With(k, j), Pending(j) \subseteq Pending(jobs[k]),
         written \subseteq written', UNCHANGED net
  PROVE  /\ \A p, d, r : Asked(p, d, r)' => Asked(p, d, r)
         /\ \A d, r : Owing(d, r)' \subseteq Owing(d, r)
         /\ \A d, r : /\ IsFiniteSet(Owing(d, r)) /\ IsFiniteSet(Owing(d, r)')
                      /\ Cardinality(Owing(d, r)') <= Cardinality(Owing(d, r))
<1>1. \A p, d, r : Asked(p, d, r)' => Asked(p, d, r)
  BY WithFacts DEF Asked
<1>2. \A d : Served(d)' = Served(d)
  BY DEF Served, PRanks
<1>3. \A d, r : Owing(d, r)' \subseteq Owing(d, r)
  BY <1>1, <1>2 DEF Owing
<1>4. \A d, r : IsFiniteSet(Owing(d, r))
  <2> SUFFICES ASSUME NEW d, NEW r PROVE IsFiniteSet(Owing(d, r))
    OBVIOUS
  <2>1. Owing(d, r) \subseteq Served(d) /\ IsFiniteSet(Served(d))
    BY RankFacts DEF Owing, DInv, DTypes
  <2> QED
    BY <2>1, FS_Subset
<1> QED
  BY <1>1, <1>3, <1>4, FS_Subset

(***************************************************************************)
(* A step of one job, of P's sender or of D's receiver: it settles parts,  *)
(* and D's counts go down only for parts that are there.                   *)
(***************************************************************************)
LEMMA JobMoves ==
  ASSUME DInv, NEW k \in DOMAIN jobs, NEW j, With(k, j),
         UNCHANGED <<net, dEngine>>, written \subseteq written',
         DOMAIN j = {"state", "todo", "now", "refs", "quit", "replies", "open"},
         j.quit = jobs[k].quit, Pending(j) \subseteq Pending(jobs[k]),
         j.todo \subseteq k[3], j.now \subseteq k[3], j.replies \in Seq(Answers(k[3])), OnePlace(j),
         \A r \in Answered(j.replies) : Loading(r) => <<r, k[1], k[2]>> \in written',
         pulls' \in [DRanks -> [Requests -> Int]], gotReqs' \in [DRanks -> SUBSET Requests],
         \A d \in DRanks : \A r \in gotReqs'[d] \ gotReqs[d] :
           /\ \E i \in DOMAIN jobs : i[2] = d /\ r \in i[3]
           /\ Loading(r) => Owing(d, r)' = {},
         \A r \in Requests, d \in DRanks :
           Loading(r) /\ Cardinality(Owing(d, r)) <= pulls[d][r]
             => Cardinality(Owing(d, r)') <= pulls'[d][r]
  PROVE  DInv'
<1>1. /\ DOMAIN jobs' \subseteq DOMAIN jobs
      /\ \A i \in DOMAIN jobs' : jobs'[i] = IF i = k THEN j ELSE jobs[i]
  BY WithFacts
<1>2. /\ Requests' = Requests /\ PRanks' = PRanks /\ DRanks' = DRanks
      /\ \A r : Loading(r)' = Loading(r)
      /\ \A d, r : Owing(d, r)' \subseteq Owing(d, r)
  BY OwingShrinks DEF Requests, PRanks, DRanks, Loading, dEngine
<1>3. DTypes'
  BY <1>2 DEF DInv, DTypes, dEngine
<1>4. JobsSound'
  <2>1. ASSUME NEW i \in DOMAIN jobs' PROVE JobSound(i, jobs[i])'
    <3>1. JobSound(i, jobs[i])
      BY <1>1 DEF DInv, JobsSound
    <3>2. CASE i = k
      <4>1. j.quit \subseteq Requests /\ \A r \in j.quit : dst[r] = "gone"
        BY <3>1, <3>2 DEF JobSound
      <4> QED
        BY <1>1, <1>2, <3>2, <4>1 DEF JobSound, dEngine
    <3>3. CASE i # k
      BY <1>1, <1>2, <3>1, <3>3 DEF JobSound, dEngine
    <3> QED
      BY <3>2, <3>3
  <2> QED
    BY <1>1, <1>2, <2>1 DEF DInv, JobsSound
<1>5. ASSUME NEW d \in DRanks, NEW r, Untouched(d, r) PROVE Untouched(d, r)'
  BY <1>1, <1>5 DEF Untouched, dEngine
<1>6. Unpulled'
  BY <1>2, <1>5 DEF DInv, Unpulled, D, dEngine, DTypes
<1>7. Counted'
  <2> SUFFICES ASSUME NEW r \in Requests, Loading(r)
               PROVE  /\ \A i \in DOMAIN jobs' : r \in i[3] => Cardinality(Owing(i[2], r)') <= pulls'[i[2]][r]
                      /\ \A d \in DRanks : r \in gotReqs'[d] \/ d \in gotBy[r] => Owing(d, r)' = {}
    BY <1>2 DEF Counted, dEngine
  <2>1. ASSUME NEW i \in DOMAIN jobs', r \in i[3]
        PROVE  Cardinality(Owing(i[2], r)') <= pulls'[i[2]][r]
    <3>1. i \in DOMAIN jobs /\ i[2] \in DRanks
      BY <1>1 DEF DInv, JobsSound
    <3>2. Cardinality(Owing(i[2], r)) <= pulls[i[2]][r]
      BY <2>1, <3>1 DEF DInv, Counted
    <3> QED
      BY <3>1, <3>2
  <2>2. ASSUME NEW d \in DRanks, r \in gotReqs'[d] \/ d \in gotBy[r]
        PROVE  Owing(d, r)' = {}
    <3>1. CASE r \in gotReqs[d] \/ d \in gotBy[r]
      BY <1>2, <3>1 DEF DInv, Counted
    <3>2. CASE r \in gotReqs'[d] \ gotReqs[d]
      BY <3>2
    <3> QED
      BY <2>2, <3>1, <3>2
  <2> QED
    BY <2>1, <2>2
<1>8. Arrived'
  BY <1>2 DEF DInv, Arrived, dEngine
<1>9. Settled'
  <2>1. ASSUME NEW i \in DOMAIN jobs'
        PROVE  Pending(jobs'[i]) \subseteq Pending(jobs[i]) /\ jobs'[i].quit = jobs[i].quit
    BY <1>1
  <2> QED
    BY <1>1, <1>2, <2>1 DEF DInv, Settled
<1> QED
  BY <1>3, <1>4, <1>6, <1>7, <1>8, <1>9 DEF DInv

(* The same, while D's receiver takes no answer. *)
LEMMA JobSettles ==
  ASSUME DInv, NEW k \in DOMAIN jobs, NEW j, With(k, j),
         UNCHANGED <<net, dEngine, receiver>>, written \subseteq written',
         DOMAIN j = {"state", "todo", "now", "refs", "quit", "replies", "open"},
         j.quit = jobs[k].quit, Pending(j) \subseteq Pending(jobs[k]),
         j.todo \subseteq k[3], j.now \subseteq k[3], j.replies \in Seq(Answers(k[3])), OnePlace(j),
         \A r \in Answered(j.replies) : Loading(r) => <<r, k[1], k[2]>> \in written'
  PROVE  DInv'
<1>1. /\ pulls' = pulls /\ gotReqs' = gotReqs
      /\ pulls \in [DRanks -> [Requests -> Int]] /\ gotReqs \in [DRanks -> SUBSET Requests]
  BY DEF receiver, DInv, DTypes
<1>2. ASSUME NEW r \in Requests, NEW d \in DRanks,
             Loading(r), Cardinality(Owing(d, r)) <= pulls[d][r]
      PROVE  Cardinality(Owing(d, r)') <= pulls'[d][r]
  <2>1. /\ IsFiniteSet(Owing(d, r)) /\ IsFiniteSet(Owing(d, r)')
        /\ Cardinality(Owing(d, r)') <= Cardinality(Owing(d, r))
    BY OwingShrinks
  <2>2. Cardinality(Owing(d, r)) \in Nat /\ Cardinality(Owing(d, r)') \in Nat /\ pulls[d][r] \in Int
    BY <1>1, <2>1, FS_CardinalityType
  <2> QED
    BY <1>1, <1>2, <2>1, <2>2
<1> QED
  BY <1>1, <1>2, JobMoves

(* What DInv says of one job. *)
LEMMA JobFacts ==
  ASSUME DInv, NEW k \in DOMAIN jobs
  PROVE  /\ DOMAIN jobs[k] = {"state", "todo", "now", "refs", "quit", "replies", "open"}
         /\ jobs[k].todo \subseteq k[3] /\ jobs[k].now \subseteq k[3]
         /\ jobs[k].replies \in Seq(Answers(k[3])) /\ OnePlace(jobs[k])
         /\ \A r \in Answered(jobs[k].replies) : Loading(r) => <<r, k[1], k[2]>> \in written
         /\ k[2] \in DRanks /\ k[3] \subseteq Requests
BY DEF DInv, JobsSound, JobSound

(* The sender task of P takes the job, refuses it, sends or gives up. *)
LEMMA ServeSound ==
  ASSUME DInv, NEW k \in DOMAIN jobs, Serve(k)
  PROVE  DInv'
<1> USE JobFacts
<1>1. CASE TakePull(k)
  <2>1. PICK refs : With(k, [jobs[k] EXCEPT !.state = "waiting", !.refs = refs])
    BY <1>1 DEF TakePull
  <2> DEFINE j == [jobs[k] EXCEPT !.state = "waiting", !.refs = refs]
  <2>2. /\ DOMAIN j = DOMAIN jobs[k] /\ j.quit = jobs[k].quit
        /\ j.todo = jobs[k].todo /\ j.now = jobs[k].now /\ j.replies = jobs[k].replies
    OBVIOUS
  <2>3. Pending(j) = Pending(jobs[k]) /\ OnePlace(j)
    BY <2>2 DEF Pending, OnePlace
  <2>4. UNCHANGED <<net, dEngine, receiver, written>>
    BY <1>1 DEF TakePull
  <2> HIDE DEF j
  <2> QED
    BY <2>1, <2>2, <2>3, <2>4, JobSettles DEF j
<1>2. CASE RefusePull(k)
  <2> DEFINE j == [jobs[k] EXCEPT !.state = "over", !.replies = <<Reply("ERROR", {})>>]
  <2>1. /\ DOMAIN j = DOMAIN jobs[k] /\ j.quit = jobs[k].quit
        /\ j.todo = jobs[k].todo /\ j.now = jobs[k].now /\ j.replies = <<Reply("ERROR", {})>>
    OBVIOUS
  <2>2. Reply("ERROR", {}) \in Answers(k[3]) /\ Reply("ERROR", {}).ok = {}
    BY DEF Reply, Answers
  <2>3. /\ <<Reply("ERROR", {})>> \in Seq(Answers(k[3]))
        /\ Answered(<<Reply("ERROR", {})>>) = {} /\ Apart(<<Reply("ERROR", {})>>)
    BY <2>2 DEF Answered, Apart
  <2>4. Pending(j) \subseteq Pending(jobs[k]) /\ OnePlace(j)
    BY <2>1, <2>3 DEF Pending, OnePlace
  <2>5. UNCHANGED <<net, dEngine, receiver, written>> /\ With(k, j)
    BY <1>2 DEF RefusePull
  <2> HIDE DEF j
  <2> QED
    BY <2>1, <2>3, <2>4, <2>5, JobSettles
<1>3. CASE StartSend(k)
  <2>1. PICK done \in SUBSET Ready(k) \ {{}} :
          With(k, [jobs[k] EXCEPT !.state = "sending", !.todo = @ \ done, !.now = done \cap tracked[k[1]]])
    BY <1>3 DEF StartSend
  <2> DEFINE j == [jobs[k] EXCEPT !.state = "sending", !.todo = @ \ done, !.now = done \cap tracked[k[1]]]
  <2>2. /\ DOMAIN j = DOMAIN jobs[k] /\ j.quit = jobs[k].quit
        /\ j.todo = jobs[k].todo \ done /\ j.now = done \cap tracked[k[1]]
        /\ j.replies = jobs[k].replies
    OBVIOUS
  <2>3. done \subseteq jobs[k].todo
    BY DEF Ready
  <2>4. Pending(j) \subseteq Pending(jobs[k]) /\ OnePlace(j) /\ j.todo \subseteq k[3] /\ j.now \subseteq k[3]
    BY <2>2, <2>3 DEF Pending, OnePlace
  <2>5. UNCHANGED <<net, dEngine, receiver, written>>
    BY <1>3 DEF StartSend
  <2> HIDE DEF j
  <2> QED
    BY <2>1, <2>2, <2>4, <2>5, JobSettles DEF j
<1>4. CASE EndSend(k)
  <2>1. PICK ok \in SUBSET jobs[k].now :
          /\ With(k, [jobs[k] EXCEPT !.state = IF jobs[k].todo = {} THEN "over" ELSE "waiting",
                                     !.now = {}, !.replies = Append(@, Answer(k, ok))])
          /\ written' = written \cup {<<r, k[1], k[2]>> : r \in ok \ jobs[k].quit}
    BY <1>4 DEF EndSend
  <2> DEFINE j == [jobs[k] EXCEPT !.state = IF jobs[k].todo = {} THEN "over" ELSE "waiting",
                                  !.now = {}, !.replies = Append(@, Answer(k, ok))]
  <2>2. /\ DOMAIN j = DOMAIN jobs[k] /\ j.quit = jobs[k].quit
        /\ j.todo = jobs[k].todo /\ j.now = {} /\ j.replies = Append(jobs[k].replies, Answer(k, ok))
    OBVIOUS
  <2>3. Answer(k, ok) \in Answers(k[3]) /\ Answer(k, ok).ok = ok
    BY DEF Answer, Reply, Answers
  <2>4. /\ j.replies \in Seq(Answers(k[3])) /\ Answered(j.replies) = Answered(jobs[k].replies) \cup ok
        /\ Apart(j.replies)
    BY <2>2, <2>3, AppendAnswer DEF OnePlace
  <2>5. Pending(j) \subseteq Pending(jobs[k]) /\ OnePlace(j)
    BY <2>2, <2>4 DEF Pending, OnePlace
  <2>6. \A r \in Answered(j.replies) : Loading(r) => <<r, k[1], k[2]>> \in written'
    <3>1. \A r \in jobs[k].quit : ~Loading(r)
      BY DEF DInv, JobsSound, JobSound, Loading
    <3> QED
      BY <2>1, <2>4, <3>1
  <2>7. UNCHANGED <<net, dEngine, receiver>> /\ written \subseteq written'
    BY <1>4, <2>1 DEF EndSend
  <2> HIDE DEF j
  <2> QED
    BY <2>1, <2>2, <2>4, <2>5, <2>6, <2>7, JobSettles DEF j
<1>5. CASE WaitTimesOut(k)
  <2> DEFINE j == [jobs[k] EXCEPT !.state = "over", !.todo = {}, !.replies = Append(@, Reply("FINISH", {}))]
  <2>1. /\ DOMAIN j = DOMAIN jobs[k] /\ j.quit = jobs[k].quit
        /\ j.todo = {} /\ j.now = jobs[k].now /\ j.replies = Append(jobs[k].replies, Reply("FINISH", {}))
    OBVIOUS
  <2>2. Reply("FINISH", {}) \in Answers(k[3]) /\ Reply("FINISH", {}).ok = {}
    BY DEF Reply, Answers
  <2>3. /\ j.replies \in Seq(Answers(k[3])) /\ Answered(j.replies) = Answered(jobs[k].replies)
        /\ Apart(j.replies)
    BY <2>1, <2>2, EmptyAnswer DEF OnePlace
  <2>4. Pending(j) \subseteq Pending(jobs[k]) /\ OnePlace(j)
    BY <2>1, <2>3 DEF Pending, OnePlace
  <2>5. UNCHANGED <<net, dEngine, receiver, written>> /\ With(k, j)
    BY <1>5 DEF WaitTimesOut
  <2> HIDE DEF j
  <2> QED
    BY <2>1, <2>3, <2>4, <2>5, JobSettles
<1>6. CASE SendRaises(k)
  <2> DEFINE j == [jobs[k] EXCEPT !.state = "over", !.now = {}, !.replies = Append(@, Reply("ERROR", {}))]
  <2>1. /\ DOMAIN j = DOMAIN jobs[k] /\ j.quit = jobs[k].quit
        /\ j.todo = jobs[k].todo /\ j.now = {} /\ j.replies = Append(jobs[k].replies, Reply("ERROR", {}))
    OBVIOUS
  <2>2. Reply("ERROR", {}) \in Answers(k[3]) /\ Reply("ERROR", {}).ok = {}
    BY DEF Reply, Answers
  <2>3. /\ j.replies \in Seq(Answers(k[3])) /\ Answered(j.replies) = Answered(jobs[k].replies)
        /\ Apart(j.replies)
    BY <2>1, <2>2, EmptyAnswer DEF OnePlace
  <2>4. Pending(j) \subseteq Pending(jobs[k]) /\ OnePlace(j)
    BY <2>1, <2>3 DEF Pending, OnePlace
  <2>5. UNCHANGED <<net, dEngine, receiver, written>> /\ With(k, j)
    BY <1>6 DEF SendRaises
  <2> HIDE DEF j
  <2> QED
    BY <2>1, <2>3, <2>4, <2>5, JobSettles
<1> QED
  BY <1>1, <1>2, <1>3, <1>4, <1>5, <1>6 DEF Serve

LEMMA GiveUpSound ==
  ASSUME DInv, NEW k \in DOMAIN jobs, GiveUp(k)
  PROVE  DInv'
<1> USE JobFacts
<1> DEFINE j == [jobs[k] EXCEPT !.open = FALSE]
<1>1. /\ DOMAIN j = DOMAIN jobs[k] /\ j.quit = jobs[k].quit
      /\ j.todo = jobs[k].todo /\ j.now = jobs[k].now /\ j.replies = jobs[k].replies
  OBVIOUS
<1>2. Pending(j) = Pending(jobs[k]) /\ OnePlace(j)
  BY <1>1 DEF Pending, OnePlace
<1>3. UNCHANGED <<net, dEngine, receiver, written>> /\ With(k, j)
  BY DEF GiveUp
<1> HIDE DEF j
<1> QED
  BY <1>1, <1>2, <1>3, JobSettles

(* Whatever is pending in a job was pulled with it. *)
LEMMA PendingPulled ==
  ASSUME DInv, NEW k \in DOMAIN jobs
  PROVE  Pending(jobs[k]) \subseteq k[3]
<1>1. jobs[k].replies \in Seq(Answers(k[3])) /\ jobs[k].todo \subseteq k[3] /\ jobs[k].now \subseteq k[3]
  BY JobFacts
<1>2. \A i \in DOMAIN jobs[k].replies : jobs[k].replies[i] \in Answers(k[3])
  BY <1>1, ElementOfSeq, LenProperties
<1>3. Answered(jobs[k].replies) \subseteq k[3]
  BY <1>2 DEF Answered, Answers
<1> QED
  BY <1>1, <1>3 DEF Pending

(* D takes an answer: one rank owes its part of r no longer, and the count *)
(* of r goes down by one.                                                  *)
LEMMA ReceiveSound ==
  ASSUME DInv, NEW k \in DOMAIN jobs, Receive(k)
  PROVE  DInv'
<1> DEFINE reply == Head(jobs[k].replies)
           p == k[1]
           d == k[2]
           j == [jobs[k] EXCEPT !.open = (reply.status = "CONTINUE"), !.replies = Tail(@)]
           left == [r \in Requests |-> IF r \in reply.ok THEN pulls[d][r] - 1 ELSE pulls[d][r]]
<1>1. /\ With(k, j) /\ UNCHANGED <<net, dEngine, written>> /\ jobs[k].replies # <<>>
      /\ pulls' = [pulls EXCEPT ![d] = left]
      /\ gotReqs' = [gotReqs EXCEPT ![d] = @ \cup {r \in reply.ok : left[r] = 0}]
  BY DEF Receive
<1>2. /\ DOMAIN jobs[k] = {"state", "todo", "now", "refs", "quit", "replies", "open"}
      /\ jobs[k].todo \subseteq k[3] /\ jobs[k].now \subseteq k[3] /\ OnePlace(jobs[k])
      /\ jobs[k].replies \in Seq(Answers(k[3])) /\ d \in DRanks /\ k[3] \subseteq Requests
      /\ \A r \in Answered(jobs[k].replies) : Loading(r) => <<r, p, d>> \in written
  BY JobFacts
<1>3. /\ DOMAIN j = DOMAIN jobs[k] /\ j.quit = jobs[k].quit
      /\ j.todo = jobs[k].todo /\ j.now = jobs[k].now /\ j.replies = Tail(jobs[k].replies)
  BY <1>2
<1> HIDE DEF j
<1>4. /\ reply \in Answers(k[3]) /\ j.replies \in Seq(Answers(k[3])) /\ Apart(j.replies)
      /\ Answered(j.replies) \subseteq Answered(jobs[k].replies)
      /\ reply.ok \subseteq Answered(jobs[k].replies) /\ Answered(j.replies) \cap reply.ok = {}
  BY <1>1, <1>2, <1>3, TakeAnswer DEF OnePlace
<1>5. reply.ok \subseteq k[3] /\ reply.ok \subseteq Requests
  BY <1>2, <1>4 DEF Answers
<1>6. Pending(j) \subseteq Pending(jobs[k]) /\ OnePlace(j) /\ Pending(j) \cap reply.ok = {}
  BY <1>2, <1>3, <1>4 DEF Pending, OnePlace
<1> HIDE DEF reply
<1>7. /\ left \in [Requests -> Int] /\ pulls' \in [DRanks -> [Requests -> Int]]
      /\ pulls'[d] = left /\ \A e \in DRanks \ {d} : pulls'[e] = pulls[e]
      /\ \A r \in Requests : pulls[d][r] \in Int
      /\ gotReqs' \in [DRanks -> SUBSET Requests]
      /\ gotReqs'[d] = gotReqs[d] \cup {r \in reply.ok : left[r] = 0}
      /\ \A e \in DRanks \ {d} : gotReqs'[e] = gotReqs[e]
  <2>1. pulls \in [DRanks -> [Requests -> Int]] /\ gotReqs \in [DRanks -> SUBSET Requests]
    BY DEF DInv, DTypes
  <2>2. left \in [Requests -> Int]
    BY <1>2, <2>1
  <2> HIDE DEF left
  <2> QED
    BY <1>1, <1>2, <1>5, <2>1, <2>2
<1>8. /\ \A e, r : IsFiniteSet(Owing(e, r)) /\ IsFiniteSet(Owing(e, r)') /\ Owing(e, r)' \subseteq Owing(e, r)
      /\ \A e, r : Cardinality(Owing(e, r)') <= Cardinality(Owing(e, r))
      /\ \A e, r : Cardinality(Owing(e, r)') \in Nat /\ Cardinality(Owing(e, r)) \in Nat
  BY <1>1, <1>6, OwingShrinks, FS_CardinalityType
<1>9. ASSUME NEW r \in reply.ok, Loading(r)
      PROVE  Cardinality(Owing(d, r)') <= Cardinality(Owing(d, r)) - 1
  <2>1. <<p, d>> \in net.pairs /\ net \in Nets
    BY DEF DInv, JobsSound, DTypes
  <2>2. p \in Owing(d, r)
    <3>1. r \in Pending(jobs[k])
      BY <1>4 DEF Pending
    <3>2. Asked(p, d, r)
      BY <3>1 DEF Asked
    <3> QED
      BY <2>1, <3>2, RankFacts DEF Owing
  <2>3. ~Asked(p, d, r)'
    <3> SUFFICES ASSUME NEW i \in DOMAIN jobs', i[1] = p, i[2] = d, r \in Pending(jobs'[i])
                 PROVE  FALSE
      BY DEF Asked, Pending, Answered
    <3>1. i \in DOMAIN jobs /\ jobs'[i] = IF i = k THEN j ELSE jobs[i]
      BY <1>1, WithFacts
    <3>2. i # k
      BY <1>6, <3>1
    <3>3. r \in i[3] /\ r \in k[3]
      BY <1>5, <3>1, <3>2, PendingPulled
    <3> QED
      BY <3>1, <3>2, <3>3 DEF DInv, JobsSound
  <2>4. <<r, p, d>> \in written'
    BY <1>1, <1>2, <1>4, <1>9
  <2>5. Owing(d, r)' \subseteq Owing(d, r) \ {p}
    BY <1>8, <2>3, <2>4 DEF Owing
  <2>6. IsFiniteSet(Owing(d, r) \ {p}) /\ Cardinality(Owing(d, r) \ {p}) = Cardinality(Owing(d, r)) - 1
    BY <1>8, <2>2, FS_RemoveElement
  <2>7. Cardinality(Owing(d, r)') <= Cardinality(Owing(d, r) \ {p})
    BY <2>5, <2>6, FS_Subset
  <2> QED
    BY <2>6, <2>7
<1>10. ASSUME NEW r \in Requests, NEW e \in DRanks, Loading(r), Cardinality(Owing(e, r)) <= pulls[e][r]
       PROVE  Cardinality(Owing(e, r)') <= pulls'[e][r]
  <2>1. CASE e = d /\ r \in reply.ok
    <3>1. pulls'[e][r] = pulls[d][r] - 1
      BY <1>7, <2>1
    <3> QED
      BY <1>7, <1>8, <1>9, <1>10, <2>1, <3>1
  <2>2. CASE e # d \/ r \notin reply.ok
    <3>1. pulls'[e][r] = pulls[e][r] /\ pulls[e][r] \in Int
      BY <1>7, <2>2 DEF DInv, DTypes
    <3> QED
      BY <1>8, <1>10, <3>1
  <2> QED
    BY <2>1, <2>2
<1>11. ASSUME NEW e \in DRanks, NEW r \in gotReqs'[e] \ gotReqs[e]
       PROVE  /\ \E i \in DOMAIN jobs : i[2] = e /\ r \in i[3]
              /\ Loading(r) => Owing(e, r)' = {}
  <2>1. e = d /\ r \in reply.ok /\ left[r] = 0
    BY <1>7
  <2>2. \E i \in DOMAIN jobs : i[2] = e /\ r \in i[3]
    BY <1>5, <2>1
  <2>3. ASSUME Loading(r) PROVE Owing(e, r)' = {}
    <3>1. Cardinality(Owing(e, r)) <= pulls[e][r]
      BY <1>5, <2>1, <2>3 DEF DInv, Counted
    <3>2. Cardinality(Owing(e, r)') <= 0
      BY <1>5, <1>7, <1>10, <2>1, <2>3, <3>1
    <3>3. Cardinality(Owing(e, r)') = 0
      BY <1>8, <3>2
    <3> QED
      BY <1>8, <3>3, FS_EmptySet
  <2> QED
    BY <2>2, <2>3
<1>12. \A r \in Answered(j.replies) : Loading(r) => <<r, p, d>> \in written'
  BY <1>1, <1>2, <1>4
<1> HIDE DEF left, d, p
<1> QED
  BY <1>1, <1>2, <1>3, <1>4, <1>6, <1>7, <1>10, <1>11, <1>12, JobMoves DEF d, p

(***************************************************************************)
(* The engine of D                                                         *)
(***************************************************************************)
(* Nothing is pending for a request of which no rank owes a part. *)
LEMMA NothingPending ==
  ASSUME DInv, NEW r, \A d \in DRanks : Owing(d, r) = {}, NEW k \in DOMAIN jobs
  PROVE  r \notin Pending(jobs[k])
<1>1. <<k[1], k[2]>> \in net.pairs /\ net \in Nets
  BY DEF DInv, JobsSound, DTypes
<1>2. k[1] \in Served(k[2]) /\ k[2] \in DRanks
  BY <1>1, RankFacts
<1> QED
  BY <1>2 DEF Owing, Asked

LEMMA DScheduleSound ==
  ASSUME DInv, DSchedule
  PROVE  DInv'
<1>1. PICK admit \in SUBSET D({"waiting"}) :
        /\ dst' = Moved(Moved(dst, recved, "running"), admit, "remote")
        /\ recved' = {} /\ written' = {w \in written : w[1] \notin recved}
        /\ dMeta' = [pull |-> admit, quit |-> dQuit] /\ dQuit' = {}
        /\ dLeft' = DRanks
        /\ UNCHANGED <<net, gotBy, receiver, jobs>>
  BY DEF DSchedule
<1>2. Requests' = Requests /\ PRanks' = PRanks /\ DRanks' = DRanks /\ \A d : Served(d)' = Served(d)
  BY <1>1 DEF Requests, PRanks, DRanks, Served
<1>3. /\ admit \subseteq Requests /\ \A r \in admit : dst[r] = "waiting" /\ r \notin recved
      /\ \A r \in recved : r \in Requests /\ dst[r] = "remote"
      /\ \A r \in Requests : dst'[r] = IF r \in admit THEN "remote" ELSE
                                       IF r \in recved THEN "running" ELSE dst[r]
  BY <1>1 DEF D, Moved, DInv, DTypes, Arrived
<1>4. \A r \in Requests : Loading(r)' <=> r \in admit \/ (Loading(r) /\ r \notin recved)
  BY <1>3 DEF Loading
<1>5. ASSUME NEW r, r \notin recved
      PROVE  /\ \A p, d : <<r, p, d>> \in written' <=> <<r, p, d>> \in written
             /\ \A d : Owing(d, r)' = Owing(d, r)
  <2>1. \A p, d : <<r, p, d>> \in written' <=> <<r, p, d>> \in written
    BY <1>1, <1>5
  <2>2. \A p, d : Asked(p, d, r)' <=> Asked(p, d, r)
    BY <1>1 DEF Asked, Pending, Answered
  <2> QED
    BY <1>2, <2>1, <2>2 DEF Owing
<1>6. \A r \in admit, d \in DRanks : Untouched(d, r)
  BY <1>1 DEF DInv, Unpulled
<1>7. \A d, r : Untouched(d, r)' <=> Untouched(d, r)
  BY <1>1 DEF Untouched, receiver
<1>8. DTypes'
  <2>1. dst \in [Requests -> DStates]
    BY DEF DInv, DTypes
  <2>2. dst' \in [Requests -> DStates]
    BY <1>1, <2>1 DEF Moved, DStates
  <2> QED
    BY <1>1, <1>2, <1>3, <2>2 DEF DInv, DTypes, receiver
<1>9. JobsSound'
  <2>1. ASSUME NEW k \in DOMAIN jobs PROVE JobSound(k, jobs[k])'
    <3>1. JobSound(k, jobs[k]) /\ k[2] \in DRanks /\ k[3] \subseteq Requests
      BY DEF DInv, JobsSound
    <3>2. ASSUME NEW r \in Answered(jobs[k].replies), Loading(r)'
          PROVE  <<r, k[1], k[2]>> \in written'
      <4>1. r \in k[3] /\ r \in Requests
        BY <3>1, PendingPulled DEF Pending
      <4>2. r \notin admit
        BY <1>6, <3>1, <4>1 DEF Untouched
      <4> QED
        BY <1>4, <1>5, <3>1, <3>2, <4>1, <4>2 DEF JobSound
    <3>3. jobs[k].quit \subseteq Requests /\ \A r \in jobs[k].quit : dst'[r] = "gone"
      BY <1>3, <3>1 DEF JobSound
    <3> QED
      BY <1>1, <1>2, <3>1, <3>2, <3>3 DEF JobSound
  <2> QED
    BY <1>1, <1>2, <2>1 DEF DInv, JobsSound
<1>10. Unpulled'
  <2>1. \A r \in D({"waiting"})' : r \in D({"waiting"}) /\ r \notin admit
    BY <1>2, <1>3 DEF D
  <2>2. \A r \in dQuit : dst[r] = "gone" /\ r \in Requests /\ \A d \in DRanks : Untouched(d, r)
    BY DEF DInv, DTypes, Unpulled
  <2>3. \A r \in dQuit : dst'[r] = "gone"
    BY <1>3, <2>2
  <2>4. \A r \in D({"waiting"}) : dst[r] = "waiting" /\ \A d \in DRanks : Untouched(d, r)
    BY DEF DInv, Unpulled, D
  <2>5. \A r \in admit : Loading(r)'
    BY <1>3, <1>4
  <2> QED
    BY <1>1, <1>2, <1>6, <1>7, <2>1, <2>2, <2>3, <2>4, <2>5 DEF Unpulled
<1>11. Counted'
  <2>1. ASSUME NEW r \in Requests, Loading(r)', NEW k \in DOMAIN jobs, r \in k[3]
        PROVE  Cardinality(Owing(k[2], r)') <= pulls[k[2]][r]
    <3>1. k[2] \in DRanks
      BY DEF DInv, JobsSound
    <3>2. Loading(r) /\ r \notin recved
      BY <1>4, <1>6, <2>1, <3>1 DEF Untouched
    <3> QED
      BY <1>5, <2>1, <3>2 DEF DInv, Counted
  <2>2. ASSUME NEW r \in Requests, Loading(r)', NEW d \in DRanks, r \in gotReqs[d] \/ d \in gotBy[r]
        PROVE  Owing(d, r)' = {}
    <3>1. Loading(r) /\ r \notin recved
      BY <1>4, <1>6, <2>2 DEF Untouched
    <3> QED
      BY <1>5, <2>2, <3>1 DEF DInv, Counted
  <2> QED
    BY <1>1, <1>2, <2>1, <2>2 DEF Counted, receiver
<1>12. Settled'
  <2> SUFFICES ASSUME NEW r \in Requests, ~Loading(r)', NEW k \in DOMAIN jobs
               PROVE  r \notin Pending(jobs[k]) \ jobs[k].quit
    BY <1>1, <1>2 DEF Settled, Pending, Answered
  <2>1. CASE r \in recved
    BY <2>1, NothingPending DEF DInv, Arrived
  <2>2. CASE r \notin recved
    BY <1>4, <2>2 DEF DInv, Settled
  <2> QED
    BY <2>1, <2>2
<1> QED
  BY <1>1, <1>8, <1>9, <1>10, <1>11, <1>12 DEF DInv, Arrived

LEMMA FetchGotSound ==
  ASSUME DInv, NEW d \in DRanks, FetchGot(d)
  PROVE  DInv'
<1>1. /\ dPhase' # "load" /\ dLeft' \subseteq dLeft
      /\ UNCHANGED <<net, dst, dQuit, dMeta, recved, pulls, jobs, written>>
      /\ gotReqs' = [gotReqs EXCEPT ![d] = {}]
      /\ gotBy' = [r \in Requests |-> IF r \in gotReqs[d] THEN gotBy[r] \cup {d} ELSE gotBy[r]]
  BY DEF FetchGot, DNext
<1>2. /\ Requests' = Requests /\ PRanks' = PRanks /\ DRanks' = DRanks
      /\ \A e, r : Owing(e, r)' = Owing(e, r) /\ Loading(r)' = Loading(r)
      /\ D({"waiting"})' = D({"waiting"})
  BY <1>1 DEF Requests, PRanks, DRanks, Owing, Served, Asked, Pending, Answered, Loading, D
<1>3. \A e \in DRanks, r \in Requests :
        /\ r \in gotReqs'[e] => r \in gotReqs[e]
        /\ e \in gotBy'[r] => e \in gotBy[r] \/ r \in gotReqs[e]
  BY <1>1 DEF DInv, DTypes
<1>4. DTypes'
  BY <1>1, <1>2 DEF DInv, DTypes
<1>5. JobsSound'
  <2>1. ASSUME NEW k \in DOMAIN jobs PROVE JobSound(k, jobs[k])'
    BY <1>1, <1>2 DEF DInv, JobsSound, JobSound
  <2> QED
    BY <1>1, <1>2, <2>1 DEF DInv, JobsSound
<1>6. \A e \in DRanks, r \in Requests : Untouched(e, r) => Untouched(e, r)'
  BY <1>1, <1>3 DEF Untouched
<1>7. Unpulled'
  <2>1. D({"waiting"}) \cup dQuit \subseteq Requests
    BY DEF D, DInv, DTypes
  <2> QED
    BY <1>1, <1>2, <1>6, <2>1 DEF DInv, Unpulled
<1>8. Counted' /\ Arrived' /\ Settled'
  BY <1>1, <1>2, <1>3 DEF DInv, Counted, Arrived, Settled, Pending, Answered
<1> QED
  BY <1>4, <1>5, <1>7, <1>8 DEF DInv

LEMMA StartLoadSound ==
  ASSUME DInv, NEW d \in DRanks, StartLoad(d)
  PROVE  DInv'
<1> DEFINE batch == dMeta.pull \cup dMeta.quit
           fresh == Served(d) \X {d} \X {batch}
<1>1. /\ dPhase = "load" /\ d \in dLeft
      /\ dPhase' = "load" => dLeft' = dLeft \ {d}
      /\ dLeft' \subseteq DRanks
      /\ UNCHANGED <<net, dst, dQuit, dMeta, gotBy, recved, gotReqs, written>>
  BY DEF StartLoad, DNext, DInv, DTypes
<1>2. /\ Requests' = Requests /\ PRanks' = PRanks /\ DRanks' = DRanks
      /\ \A e : Served(e)' = Served(e)
      /\ \A r : Loading(r)' = Loading(r)
      /\ D({"waiting"})' = D({"waiting"})
  BY <1>1 DEF Requests, PRanks, DRanks, Served, Loading, D
<1>3. batch \subseteq Requests /\ dMeta.quit \subseteq Requests
  BY DEF DInv, DTypes
<1>4. CASE UNCHANGED <<jobs, pulls>>
  <2>1. \A e, r : Owing(e, r)' = Owing(e, r)
    BY <1>1, <1>2, <1>4 DEF Owing, Asked, Pending, Answered
  <2>2. ASSUME NEW k \in DOMAIN jobs PROVE JobSound(k, jobs[k])'
    BY <1>1, <1>2, <1>4 DEF DInv, JobsSound, JobSound
  <2>3. DTypes' /\ JobsSound'
    BY <1>1, <1>2, <1>4, <2>2 DEF DInv, DTypes, JobsSound
  <2>4. \A e, r : Untouched(e, r)' = Untouched(e, r)
    BY <1>1, <1>4 DEF Untouched
  <2>5. Unpulled'
    BY <1>1, <1>2, <2>4 DEF DInv, Unpulled
  <2>6. Counted' /\ Arrived' /\ Settled'
    BY <1>1, <1>2, <1>4, <2>1 DEF DInv, Counted, Arrived, Settled, Pending, Answered
  <2> QED
    BY <2>3, <2>5, <2>6 DEF DInv
<1>5. CASE /\ jobs' = [k \in fresh \cup DOMAIN jobs |-> IF k \in fresh THEN NewJob(batch) ELSE jobs[k]]
           /\ pulls' = [pulls EXCEPT ![d] = [r \in Requests |->
                IF r \in batch THEN Cardinality(Served(d)) ELSE pulls[d][r]]]
  <2>1. /\ DOMAIN jobs' = fresh \cup DOMAIN jobs
        /\ \A k \in fresh : jobs'[k] = NewJob(batch)
        /\ \A k \in DOMAIN jobs \ fresh : jobs'[k] = jobs[k]
    BY <1>5
  <2>2. /\ \A k \in fresh : k = <<k[1], d, batch>> /\ k[1] \in Served(d) /\ k[2] = d /\ k[3] = batch
        /\ NewJob(batch).todo = batch /\ NewJob(batch).now = {} /\ NewJob(batch).replies = <<>>
        /\ NewJob(batch).quit = dMeta.quit /\ Pending(NewJob(batch)) = batch
        /\ DOMAIN NewJob(batch) = {"state", "todo", "now", "refs", "quit", "replies", "open"}
    BY DEF NewJob, Pending, Answered
  <2>3. \A r \in batch : r \notin recved /\ \A e \in dLeft : Untouched(e, r)
    BY <1>1 DEF DInv, Unpulled
  <2>4. \A k \in DOMAIN jobs : k[2] = d => k[3] \cap batch = {}
    BY <1>1, <2>3 DEF Untouched
  <2>5. /\ pulls' \in [DRanks -> [Requests -> Int]]
        /\ \A r \in batch : pulls'[d][r] = Cardinality(Served(d))
        /\ \A e \in DRanks, r \in Requests : e # d \/ r \notin batch => pulls'[e][r] = pulls[e][r]
    <3>1. pulls \in [DRanks -> [Requests -> Int]] /\ Cardinality(Served(d)) \in Int
      <4>1. IsFiniteSet(Served(d))
        BY RankFacts DEF DInv, DTypes
      <4> QED
        BY <4>1, FS_CardinalityType DEF DInv, DTypes
    <3> HIDE DEF batch
    <3> QED
      BY <1>3, <1>5, <3>1
  <2>6. ASSUME NEW p, NEW e, NEW r, e # d \/ r \notin batch, Asked(p, e, r)'
        PROVE  Asked(p, e, r)
    <3>1. PICK k \in DOMAIN jobs' : k[1] = p /\ k[2] = e /\ r \in Pending(jobs'[k])
      BY <2>6 DEF Asked, Pending, Answered
    <3>2. k \notin fresh
      BY <2>1, <2>2, <2>6, <3>1
    <3> QED
      BY <2>1, <3>1, <3>2 DEF Asked
  <2>7. ASSUME NEW e \in DRanks, NEW r, e # d \/ r \notin batch
        PROVE  Owing(e, r)' \subseteq Owing(e, r)
    BY <1>1, <1>2, <2>6, <2>7 DEF Owing
  <2>8. \A e, r : /\ IsFiniteSet(Owing(e, r)) /\ IsFiniteSet(Served(e))
                  /\ Owing(e, r) \subseteq Served(e) /\ Owing(e, r)' \subseteq Served(e)
    <3>1. \A e, r : Owing(e, r) \subseteq Served(e) /\ Owing(e, r)' \subseteq Served(e)
      BY <1>2 DEF Owing
    <3>2. \A e : IsFiniteSet(Served(e))
      BY RankFacts DEF DInv, DTypes
    <3> QED
      BY <3>1, <3>2, FS_Subset
  <2>9. DTypes'
    BY <1>1, <1>2, <2>5 DEF DInv, DTypes
  <2>10. JobsSound'
    <3>1. ASSUME NEW k \in fresh PROVE JobSound(k, jobs[k])'
      <4>1. /\ OnePlace(NewJob(batch)) /\ Answered(NewJob(batch).replies) = {}
            /\ NewJob(batch).replies \in Seq(Answers(batch))
        <5>1. DOMAIN <<>> = {} /\ <<>> \in Seq(Answers(batch))
          OBVIOUS
        <5>2. Answered(<<>>) = {} /\ Apart(<<>>)
          BY <5>1 DEF Answered, Apart
        <5> HIDE DEF batch
        <5> QED
          BY <2>2, <5>1, <5>2 DEF OnePlace
      <4>2. \A r \in dMeta.quit : dst[r] = "gone"
        BY DEF DInv, Unpulled
      <4> QED
        BY <1>1, <1>2, <1>3, <2>1, <2>2, <4>1, <4>2 DEF JobSound
    <3>2. ASSUME NEW k \in DOMAIN jobs \ fresh PROVE JobSound(k, jobs[k])'
      BY <1>1, <1>2, <2>1 DEF DInv, JobsSound, JobSound
    <3>3. fresh \subseteq PRanks \X DRanks \X SUBSET Requests
      BY <1>3 DEF Served
    <3>4. \A k \in fresh : <<k[1], k[2]>> \in net.pairs
      BY <2>2 DEF Served
    <3>5. ASSUME NEW k \in DOMAIN jobs', NEW l \in DOMAIN jobs',
                 k[1] = l[1], k[2] = l[2], k[3] \cap l[3] # {}
          PROVE  k = l
      <4>1. CASE k \in fresh /\ l \in fresh
        BY <2>2, <3>5, <4>1
      <4>2. CASE k \in fresh /\ l \notin fresh
        BY <2>1, <2>2, <2>4, <3>5, <4>2
      <4>3. CASE k \notin fresh /\ l \in fresh
        BY <2>1, <2>2, <2>4, <3>5, <4>3
      <4>4. CASE k \notin fresh /\ l \notin fresh
        BY <2>1, <3>5, <4>4 DEF DInv, JobsSound
      <4> QED
        BY <4>1, <4>2, <4>3, <4>4
    <3> HIDE DEF fresh
    <3> QED
      BY <1>1, <1>2, <2>1, <3>1, <3>2, <3>3, <3>4, <3>5 DEF DInv, JobsSound
  <2>11. ASSUME NEW e \in DRanks, NEW r, Untouched(e, r), e # d \/ r \notin batch
         PROVE  Untouched(e, r)'
    BY <1>1, <2>1, <2>2, <2>11 DEF Untouched
  <2>12. Unpulled'
    <3>1. ASSUME NEW r \in D({"waiting"}) \cup dQuit
          PROVE  r \notin batch \cup recved /\ \A e \in DRanks : Untouched(e, r)'
      BY <2>11 DEF DInv, Unpulled
    <3>2. ASSUME dPhase' = "load", NEW r \in batch
          PROVE  r \notin recved /\ \A e \in dLeft' : Untouched(e, r)'
      <4>1. dLeft' = dLeft \ {d} /\ dLeft \subseteq DRanks
        BY <1>1, <3>2 DEF DInv, DTypes
      <4> QED
        BY <2>3, <2>11, <4>1
    <3> QED
      BY <1>1, <1>2, <3>1, <3>2 DEF DInv, Unpulled
  <2>13. Counted'
    <3>1. ASSUME NEW r \in Requests, Loading(r), NEW k \in DOMAIN jobs', r \in k[3]
          PROVE  Cardinality(Owing(k[2], r)') <= pulls'[k[2]][r]
      <4>1. CASE k[2] = d /\ r \in batch
        BY <2>5, <2>8, <4>1, FS_Subset
      <4>2. CASE ~(k[2] = d /\ r \in batch)
        <5>1. k \in DOMAIN jobs /\ k[2] \in DRanks
          BY <2>1, <2>2, <3>1, <4>2 DEF DInv, JobsSound
        <5>2. Cardinality(Owing(k[2], r)) <= pulls[k[2]][r] /\ pulls'[k[2]][r] = pulls[k[2]][r]
          BY <2>5, <3>1, <4>2, <5>1 DEF DInv, Counted
        <5>3. /\ Cardinality(Owing(k[2], r)') <= Cardinality(Owing(k[2], r))
              /\ Cardinality(Owing(k[2], r)') \in Nat /\ Cardinality(Owing(k[2], r)) \in Nat
          BY <2>7, <2>8, <4>2, <5>1, FS_Subset, FS_CardinalityType
        <5>4. pulls[k[2]][r] \in Int
          BY <5>1 DEF DInv, DTypes
        <5> QED
          BY <5>2, <5>3, <5>4
      <4> QED
        BY <4>1, <4>2
    <3>2. ASSUME NEW r \in Requests, Loading(r), NEW e \in DRanks, r \in gotReqs[e] \/ e \in gotBy[r]
          PROVE  Owing(e, r)' = {}
      <4>1. e # d \/ r \notin batch
        BY <1>1, <2>3, <3>2 DEF Untouched
      <4>2. Owing(e, r) = {}
        BY <3>2 DEF DInv, Counted
      <4> QED
        BY <2>7, <4>1, <4>2
    <3> QED
      BY <1>1, <1>2, <3>1, <3>2 DEF Counted
  <2>14. Arrived'
    BY <1>1, <1>2, <2>3, <2>7 DEF DInv, Arrived
  <2>15. Settled'
    <3> SUFFICES ASSUME NEW r \in Requests, ~Loading(r), NEW k \in DOMAIN jobs'
                 PROVE  r \notin Pending(jobs'[k]) \ jobs'[k].quit
      BY <1>2 DEF Settled, Pending, Answered
    <3>1. CASE k \in fresh
      <4>1. r \notin dMeta.pull
        BY <1>1 DEF DInv, Unpulled
      <4> QED
        BY <2>1, <2>2, <3>1, <4>1
    <3>2. CASE k \notin fresh
      BY <2>1, <3>2 DEF DInv, Settled
    <3> QED
      BY <3>1, <3>2
  <2> QED
    BY <2>9, <2>10, <2>12, <2>13, <2>14, <2>15 DEF DInv
<1> QED
  BY <1>4, <1>5 DEF StartLoad

(***************************************************************************)
(* A step of D's engine that starts no transfer.  A load gives its blocks  *)
(* away only when no rank owes a part of it.                               *)
(***************************************************************************)
LEMMA EngineSound ==
  ASSUME DInv, UNCHANGED <<net, dLeft, receiver, jobs, written>>,
         dst' \in [Requests -> DStates],
         \A r \in Requests :
           /\ dst[r] = "gone" => dst'[r] = "gone"
           /\ dst'[r] = "waiting" => dst[r] = "waiting"
           /\ Loading(r)' => Loading(r)
           /\ Loading(r) /\ ~Loading(r)' => \A d \in DRanks : Owing(d, r) = {},
         gotBy' \in [Requests -> SUBSET DRanks], \A r \in Requests : gotBy'[r] \subseteq gotBy[r],
         \/ dMeta' = dMeta /\ dPhase' = dPhase
         \/ dMeta' = [pull |-> {}, quit |-> {}] /\ dPhase' = "idle",
         dPhase' = "load" => \A r \in dMeta.pull : Loading(r)',
         dQuit' \subseteq Requests,
         \A r \in dQuit' : dst'[r] = "gone" /\ (r \in dQuit \/ dst[r] = "waiting"),
         recved' \subseteq Requests,
         \A r \in recved' : /\ dst'[r] = "remote" /\ dst[r] = "remote"
                            /\ r \in recved \/ dPhase' = "idle"
                            /\ \A d \in DRanks : Owing(d, r) = {}
  PROVE  DInv'
<1>1. /\ Requests' = Requests /\ PRanks' = PRanks /\ DRanks' = DRanks
      /\ \A e, r : Owing(e, r)' = Owing(e, r)
  BY DEF Requests, PRanks, DRanks, Owing, Served, Asked, Pending, Answered
<1>2. /\ dMeta' \in [pull : SUBSET Requests, quit : SUBSET Requests]
      /\ dMeta'.pull \subseteq dMeta.pull /\ dMeta'.quit \subseteq dMeta.quit
      /\ dPhase' = "load" => dPhase = "load" /\ dMeta' = dMeta
  BY DEF DInv, DTypes
<1>3. DTypes'
  BY <1>1, <1>2 DEF DInv, DTypes, receiver
<1>4. JobsSound'
  <2>1. ASSUME NEW k \in DOMAIN jobs PROVE JobSound(k, jobs[k])'
    <3>1. JobSound(k, jobs[k]) /\ k[3] \subseteq Requests
      BY DEF DInv, JobsSound
    <3>2. Answered(jobs[k].replies) \subseteq Requests
      BY <3>1, PendingPulled DEF Pending
    <3> QED
      BY <1>1, <3>1, <3>2 DEF JobSound
  <2> QED
    BY <1>1, <2>1 DEF DInv, JobsSound
<1>5. \A d \in DRanks, r \in Requests : Untouched(d, r) => Untouched(d, r)'
  BY DEF Untouched, receiver
<1>6. Unpulled'
  <2>1. \A r \in D({"waiting"})' \cup dQuit' : r \in Requests /\ r \in D({"waiting"}) \cup dQuit
    BY <1>1 DEF D
  <2>2. \A r \in D({"waiting"})' \cup dQuit' : r \notin recved'
    BY <1>1 DEF D
  <2>3. ASSUME NEW r \in D({"waiting"})' \cup dQuit'
        PROVE  r \notin dMeta'.pull \cup dMeta'.quit \cup recved' /\ \A d \in DRanks : Untouched(d, r)'
    BY <1>2, <1>5, <2>1, <2>2 DEF DInv, Unpulled
  <2>4. ASSUME dPhase' = "load", NEW r \in dMeta'.pull \cup dMeta'.quit
        PROVE  r \notin recved' /\ \A d \in dLeft' : Untouched(d, r)'
    <3>1. r \notin recved /\ \A d \in dLeft : Untouched(d, r)
      BY <1>2, <2>4 DEF DInv, Unpulled
    <3>2. r \in Requests /\ dLeft \subseteq DRanks
      BY <1>2 DEF DInv, DTypes
    <3> QED
      BY <1>5, <2>4, <3>1, <3>2
  <2>5. \A r \in dQuit' \cup dMeta'.quit : dst'[r] = "gone"
    BY <1>2 DEF DInv, Unpulled, DTypes
  <2> QED
    BY <1>1, <1>2, <2>3, <2>4, <2>5 DEF Unpulled
<1>7. Counted'
  BY <1>1 DEF DInv, Counted, receiver
<1>8. Arrived'
  BY <1>1 DEF Arrived
<1>9. Settled'
  <2> SUFFICES ASSUME NEW r \in Requests, ~Loading(r)', NEW k \in DOMAIN jobs
               PROVE  r \notin Pending(jobs[k]) \ jobs[k].quit
    BY <1>1 DEF Settled, Pending, Answered
  <2>1. CASE Loading(r)
    BY <2>1, NothingPending
  <2>2. CASE ~Loading(r)
    BY <2>2 DEF DInv, Settled
  <2> QED
    BY <2>1, <2>2
<1> QED
  BY <1>3, <1>4, <1>6, <1>7, <1>8, <1>9 DEF DInv

LEMMA DUpdateSound ==
  ASSUME DInv, DUpdate
  PROVE  DInv'
<1>1. PICK done \in SUBSET D({"running"}) :
        /\ dPhase = "update" /\ dPhase' = "idle"
        /\ recved' = recved \cup (ReceiveOver \cap D({"remote"}))
        /\ dst' = Moved(dst, done \cup (ReceiveOver \cap D({"held"})), "gone")
        /\ gotBy' = [r \in Requests |-> IF r \in ReceiveOver THEN {} ELSE gotBy[r]]
        /\ dMeta' = [pull |-> {}, quit |-> {}]
        /\ UNCHANGED <<net, dLeft, dQuit, receiver, jobs, written>>
  BY DEF DUpdate
<1>2. dst \in [Requests -> DStates] /\ dst' \in [Requests -> DStates] /\ done \subseteq Requests
      /\ \A r \in done : dst[r] = "running"
  BY <1>1 DEF Moved, DStates, DInv, DTypes, D
<1>3. \A r \in Requests :
        dst'[r] = IF r \in done \/ (r \in ReceiveOver /\ dst[r] = "held") THEN "gone" ELSE dst[r]
  BY <1>1 DEF Moved, D
<1>4. ASSUME NEW r \in ReceiveOver, Loading(r) PROVE \A d \in DRanks : Owing(d, r) = {}
  BY <1>4 DEF ReceiveOver, DInv, Counted
<1>5. ASSUME NEW r \in Requests
      PROVE  /\ dst[r] = "gone" => dst'[r] = "gone"
             /\ dst'[r] = "waiting" => dst[r] = "waiting"
             /\ Loading(r)' => Loading(r)
             /\ Loading(r) /\ ~Loading(r)' => \A d \in DRanks : Owing(d, r) = {}
  BY <1>2, <1>3, <1>4 DEF Loading
<1>6. gotBy' \in [Requests -> SUBSET DRanks] /\ \A r \in Requests : gotBy'[r] \subseteq gotBy[r]
  BY <1>1 DEF DInv, DTypes
<1>7. recved' \subseteq Requests /\ \A r \in recved' : dst[r] = "remote" /\ \A d \in DRanks : Owing(d, r) = {}
  <2>1. \A r \in recved : r \in Requests /\ dst[r] = "remote" /\ \A d \in DRanks : Owing(d, r) = {}
    BY DEF DInv, Arrived, DTypes
  <2>2. \A r \in ReceiveOver \cap D({"remote"}) : r \in Requests /\ dst[r] = "remote" /\ Loading(r)
    BY DEF D, Loading
  <2> QED
    BY <1>1, <1>4, <2>1, <2>2
<1>8. \A r \in recved' : dst'[r] = "remote"
  BY <1>2, <1>3, <1>7
<1>9. /\ dQuit' \subseteq Requests
      /\ \A r \in dQuit' : dst'[r] = "gone" /\ r \in dQuit
  BY <1>1, <1>5 DEF DInv, DTypes, Unpulled
<1> QED
  BY <1>1, <1>2, <1>5, <1>6, <1>7, <1>8, <1>9, EngineSound

LEMMA DAbortSound ==
  ASSUME DInv, NEW r \in net.aborts, DAbort(r)
  PROVE  DInv'
<1>1. /\ dst[r] \in {"waiting", "remote", "running"}
      /\ dst' = [dst EXCEPT ![r] = AfterAbort(r)]
      /\ dQuit' = IF dst[r] = "waiting" THEN dQuit \cup {r} ELSE dQuit
      /\ recved' = recved \ {r}
      /\ UNCHANGED <<net, dPhase, dLeft, dMeta, gotBy, receiver, jobs, written>>
  BY DEF DAbort
<1>2. r \in Requests /\ dst \in [Requests -> DStates]
  BY RankFacts DEF DInv, DTypes
<1>3. /\ dst' \in [Requests -> DStates] /\ \A q \in Requests \ {r} : dst'[q] = dst[q]
      /\ dst'[r] = IF dst[r] = "remote" /\ r \notin recved THEN "held" ELSE "gone"
  BY <1>1, <1>2 DEF AfterAbort, DStates
<1>4. ASSUME NEW q \in Requests
      PROVE  /\ dst[q] = "gone" => dst'[q] = "gone"
             /\ dst'[q] = "waiting" => dst[q] = "waiting"
             /\ Loading(q)' => Loading(q)
             /\ Loading(q) /\ ~Loading(q)' => \A d \in DRanks : Owing(d, q) = {}
  <2>1. r \in recved => \A d \in DRanks : Owing(d, r) = {}
    BY DEF DInv, Arrived
  <2>2. CASE q = r
    BY <1>1, <1>3, <2>1, <2>2 DEF Loading
  <2>3. CASE q # r
    BY <1>3, <2>3 DEF Loading
  <2> QED
    BY <2>2, <2>3
<1>5. ASSUME dPhase' = "load", NEW q \in dMeta.pull PROVE Loading(q)'
  <2>1. q \in Requests /\ Loading(q) /\ q \notin recved
    BY <1>1, <1>5 DEF DInv, Unpulled, DTypes
  <2> QED
    BY <1>1, <1>3, <2>1 DEF Loading
<1>6. /\ dQuit' \subseteq Requests
      /\ \A q \in dQuit' : dst'[q] = "gone" /\ (q \in dQuit \/ dst[q] = "waiting")
  BY <1>1, <1>2, <1>3, <1>4 DEF DInv, DTypes, Unpulled
<1>7. /\ recved' \subseteq Requests
      /\ \A q \in recved' : /\ dst'[q] = "remote" /\ dst[q] = "remote" /\ q \in recved
                            /\ \A d \in DRanks : Owing(d, q) = {}
  BY <1>1, <1>3 DEF DInv, DTypes, Arrived
<1>8. gotBy' \in [Requests -> SUBSET DRanks] /\ \A q \in Requests : gotBy'[q] \subseteq gotBy[q]
  BY <1>1 DEF DInv, DTypes
<1> QED
  BY <1>1, <1>3, <1>4, <1>5, <1>6, <1>7, <1>8, EngineSound

(* What P does beside its transfers, and stuttering. *)
LEMMA FrameSound ==
  ASSUME DInv, UNCHANGED <<net, dEngine, receiver, jobs, written>>
  PROVE  DInv'
<1>1. \A r : Loading(r)' = Loading(r)
  BY DEF Loading, dEngine
<1>2. dst \in [Requests -> DStates] /\ gotBy \in [Requests -> SUBSET DRanks]
  BY DEF DInv, DTypes
<1>3. \A r \in dQuit : dst[r] = "gone" /\ r \in Requests
  BY DEF DInv, DTypes, Unpulled
<1>4. \A r \in recved : r \in Requests /\ dst[r] = "remote" /\ \A d \in DRanks : Owing(d, r) = {}
  BY DEF DInv, DTypes, Arrived
<1>5. dPhase = "load" => \A r \in dMeta.pull : Loading(r)
  BY DEF DInv, Unpulled
<1> QED
  BY <1>1, <1>2, <1>3, <1>4, <1>5, EngineSound DEF dEngine

LEMMA InitLoads == Init => DInv
<1> SUFFICES ASSUME Init PROVE DInv
  OBVIOUS
<1>1. /\ net \in Nets /\ dst = [r \in Requests |-> "waiting"] /\ dPhase = "idle" /\ dLeft = {}
      /\ dQuit = {} /\ dMeta = [pull |-> {}, quit |-> {}] /\ gotReqs = [d \in DRanks |-> {}]
      /\ pulls = [d \in DRanks |-> [r \in Requests |-> 0]]
      /\ gotBy = [r \in Requests |-> {}] /\ recved = {} /\ jobs = <<>> /\ written = {}
  BY DEF Init
<1>2. DTypes
  BY <1>1 DEF DTypes, DStates
<1>3. DOMAIN jobs = {}
  BY <1>1
<1>4. JobsSound /\ Settled /\ Arrived
  BY <1>1, <1>3 DEF JobsSound, Settled, Arrived
<1>5. Unpulled
  BY <1>1, <1>3 DEF Unpulled, Untouched, D
<1>6. Counted
  BY <1>1 DEF Counted, Loading
<1> QED
  BY <1>2, <1>4, <1>5, <1>6 DEF DInv

(* Every step of either engine, of a thread or of a client. *)
LEMMA StepLoads == DInv /\ [Next]_vars => DInv'
<1> SUFFICES ASSUME DInv, [Next]_vars PROVE DInv'
  OBVIOUS
<1>1. CASE UNCHANGED vars
  BY <1>1, FrameSound DEF vars
<1>2. CASE PStep
  <2>1. UNCHANGED <<net, dEngine, receiver, jobs, written>>
    BY <1>2 DEF PStep, PSchedule, RecordSendReqs, FetchSent, PUpdate
  <2> QED
    BY <2>1, FrameSound
<1>3. CASE DStep
  <2>1. CASE DSchedule
    BY <2>1, DScheduleSound
  <2>2. CASE \E d \in DRanks : StartLoad(d) \/ FetchGot(d)
    BY <2>2, StartLoadSound, FetchGotSound
  <2>3. CASE DUpdate
    BY <2>3, DUpdateSound
  <2> QED
    BY <1>3, <2>1, <2>2, <2>3 DEF DStep
<1>4. CASE Clients
  <2>1. ASSUME NEW r \in net.aborts, PAbort(r) PROVE DInv'
    BY <2>1, FrameSound DEF PAbort
  <2> QED
    BY <1>4, <2>1, DAbortSound DEF Clients
<1>5. ASSUME NEW k \in DOMAIN jobs, Serve(k) \/ Receive(k) \/ GiveUp(k) PROVE DInv'
  BY <1>5, ServeSound, ReceiveSound, GiveUpSound
<1>6. ASSUME NEW p \in PRanks, NEW r \in Requests, Expire(p, r) PROVE DInv'
  BY <1>6, FrameSound DEF Expire
<1> QED
  BY <1>1, <1>2, <1>3, <1>4, <1>5, <1>6 DEF Next

(* While a transfer writes into blocks of D they are those of the request  *)
(* that loads: a request leaves them only when every rank of D has got     *)
(* every part (Counted, Arrived), and then no job has a part of it left    *)
(* (Settled).                                                              *)
THEOREM DestinationSafe == Spec => []DestinationHeld
<1>1. DInv => DestinationHeld
  <2> SUFFICES ASSUME DInv, NEW k \in DOMAIN jobs, NEW r \in jobs[k].now \ jobs[k].quit
               PROVE  Loading(r)
    BY DEF DestinationHeld, Loading
  <2>1. r \in Requests /\ r \in Pending(jobs[k])
    BY JobFacts DEF Pending
  <2> QED
    BY <2>1 DEF DInv, Settled
<1> QED
  BY <1>1, InitLoads, StepLoads, PTL DEF Spec

(* A load that D starts to compute on has all its parts, whichever ranks   *)
(* were late, refused, answered in part or were given up.                  *)
THEOREM LoadsComplete == Spec => []LoadComplete
<1>1. DInv => LoadComplete
  <2> SUFFICES ASSUME DInv, NEW r \in recved, NEW c \in net.pairs
               PROVE  <<r, c[1], c[2]>> \in written
    BY DEF LoadComplete
  <2>1. c[1] \in Served(c[2]) /\ c[2] \in DRanks
    BY RankFacts DEF DInv, DTypes
  <2> QED
    BY <2>1 DEF DInv, Arrived, Owing
<1> QED
  BY <1>1, InitLoads, StepLoads, PTL DEF Spec
-----------------------------------------------------------------------------
(***************************************************************************)
(* The other side.  A P rank answers for a request once: the entry its     *)
(* blocks are recorded in stays until then, and no pull that comes late    *)
(* brings the answer a second time.                                        *)
(***************************************************************************)
PStates == {"waiting", "running", "held", "gone"}
Entries == [owned : BOOLEAN, ready : BOOLEAN, late : BOOLEAN, sent : Nat, sending : Int]

STypes ==
  /\ pst \in [Requests -> PStates]
  /\ pPhase \in {"idle", "record", "fetch", "update"} /\ pLeft \subseteq PRanks
  /\ pDone \subseteq Requests /\ pDrop \subseteq Requests
  /\ pMeta \in [new : SUBSET Requests, blocks : SUBSET Requests, drop : SUBSET Requests]
  /\ tracked \in [PRanks -> SUBSET Requests]
  /\ metas \in [PRanks -> [Requests -> Seq(Entries)]]
  /\ sentReqs \in [PRanks -> SUBSET Requests] /\ sentBy \in [Requests -> SUBSET PRanks]

(* What rank p has still before it in this step of its engine. *)
ToEnter(p, r) == pPhase = "record" /\ p \in pLeft /\ r \in pMeta.new
ToRecord(p, r) == r \in pDone \/ (pPhase = "record" /\ p \in pLeft /\ r \in pMeta.blocks)
Reported(p, r) == r \in sentReqs[p] \/ p \in sentBy[r]

Phased ==
  /\ pPhase = "idle" => pMeta.new = {} /\ pMeta.blocks = {} /\ pMeta.drop = {}
  /\ pPhase # "idle" => pDone = {}
  /\ pMeta.new \cap pMeta.drop = {}
  /\ \A r \in pMeta.new : pst[r] \in {"running", "gone"}
  /\ \A r \in pDone \cup pMeta.blocks : pst[r] = "held"
  /\ \A r \in pDrop \cup pMeta.drop : pst[r] = "gone"

(* From its first step on a request is tracked until it is reported. *)
Early(r) == pst[r] \in {"waiting", "running"} \/ r \in pMeta.new
Entered ==
  \A p \in PRanks, r \in Requests :
    /\ pst[r] \in {"running", "held"} /\ ~ToEnter(p, r) /\ ~Reported(p, r) => r \in tracked[p]
    /\ r \in tracked[p] => metas[p][r] # <<>>
    /\ Early(r) /\ r \notin tracked[p] => metas[p][r] = <<>>

(* Blocks are recorded once, and only what is recorded is sent or expires. *)
ReadySound ==
  \A p \in PRanks, r \in Requests : \A i \in DOMAIN metas[p][r] :
    /\ metas[p][r][i].ready => pst[r] \in {"held", "gone"} /\ r \notin pMeta.new /\ ~ToRecord(p, r)
    /\ metas[p][r][i].late => metas[p][r][i].ready

(***************************************************************************)
(* The D ranks that may still be sent the blocks of entry i: they have not *)
(* pulled r yet, or their pull is in the queue or waits on this entry.     *)
(***************************************************************************)
ServedBy(p) == {d \in DRanks : <<p, d>> \in net.pairs}
ToPull(d, r) ==
  \/ r \in D({"waiting"}) \cup dQuit
  \/ dPhase = "load" /\ d \in dLeft /\ r \in dMeta.pull \cup dMeta.quit
Comes(j, r, i) ==
  /\ r \in j.todo \cup j.now
  /\ j.state = "queued" \/ (j.state \in {"waiting", "sending"} /\ j.refs[r] = i)
InHand(p, r, i) ==
  {d \in ServedBy(p) :
     ToPull(d, r) \/ \E k \in DOMAIN jobs : k[1] = p /\ k[2] = d /\ Comes(jobs[k], r, i)}

(* An entry that another one has replaced can no longer be sent to all.    *)
Fits(p, i, last, m, hands) ==
  /\ m.sent + Cardinality(hands) <= NeedSend(p)
  /\ i # last => m.sent + Cardinality(hands) < NeedSend(p)
Counts ==
  \A p \in PRanks, r \in Requests : \A i \in DOMAIN metas[p][r] :
    Fits(p, i, Len(metas[p][r]), metas[p][r][i], InHand(p, r, i))

ReportsSound ==
  \A p \in PRanks, r \in Requests :
    /\ Reported(p, r) => pst[r] = "held" /\ ~ToRecord(p, r)
    /\ ~(r \in sentReqs[p] /\ p \in sentBy[r])
    /\ (Reported(p, r) \/ pst[r] = "gone") /\ r \in tracked[p] => ~Current(p, r).ready

(* A job that is taken refers to an entry of each of its requests, and     *)
(* only what is ready is being sent.                                       *)
TaskSound(k, j) ==
  /\ j.state \in {"queued", "waiting", "sending", "over"}
  /\ j.state = "queued" => j.todo = k[3]
  /\ j.state \in {"waiting", "sending"} =>
       \A r \in j.todo \cup j.now : j.refs[r] \in DOMAIN metas[k[1]][r]
  /\ \A r \in j.now : j.state = "sending" /\ metas[k[1]][r][j.refs[r]].ready
TasksSound == \A k \in DOMAIN jobs : TaskSound(k, jobs[k])

SInv ==
  /\ STypes /\ Phased /\ Entered /\ ReadySound /\ Counts /\ ReportsSound /\ TasksSound

LEMMA HandFacts ==
  ASSUME net \in Nets
  PROVE  /\ \A p : IsFiniteSet(ServedBy(p)) /\ NeedSend(p) = Cardinality(ServedBy(p)) /\ NeedSend(p) \in Nat
         /\ \A p, r, i : /\ IsFiniteSet(InHand(p, r, i)) /\ Cardinality(InHand(p, r, i)) \in Nat
                         /\ Cardinality(InHand(p, r, i)) <= NeedSend(p)
         /\ \A c \in net.pairs : c[1] \in PRanks /\ c[2] \in ServedBy(c[1])
         /\ PRanks # {}
<1>1. IsFiniteSet(net.pairs) /\ net.pairs \subseteq PRanks \X DRanks /\ net.pairs # {}
  BY NetsAssumption DEF PRanks, DRanks
<1>2. IsFiniteSet(DRanks)
  <2> DEFINE f == [c \in net.pairs |-> c[2]]
  <2>1. f \in Surjection(net.pairs, DRanks)
    BY DEF DRanks, Surjection
  <2> QED
    BY <1>1, <2>1, FS_Surjection
<1>3. \A p : ServedBy(p) \subseteq DRanks
  BY DEF ServedBy
<1>4. \A p : IsFiniteSet(ServedBy(p)) /\ Cardinality(ServedBy(p)) \in Nat
  BY <1>2, <1>3, FS_Subset, FS_CardinalityType
<1>5. \A p : NeedSend(p) = Cardinality(ServedBy(p))
  BY DEF NeedSend, ServedBy
<1>6. ASSUME NEW p, NEW r, NEW i
      PROVE  /\ IsFiniteSet(InHand(p, r, i)) /\ Cardinality(InHand(p, r, i)) \in Nat
             /\ Cardinality(InHand(p, r, i)) <= NeedSend(p)
  <2>1. InHand(p, r, i) \subseteq ServedBy(p)
    BY DEF InHand
  <2> QED
    BY <1>4, <1>5, <2>1, FS_Subset, FS_CardinalityType
<1>7. ASSUME NEW c \in net.pairs PROVE c[1] \in PRanks /\ c[2] \in ServedBy(c[1])
  BY <1>1 DEF ServedBy
<1>8. PRanks # {}
  BY <1>1, <1>7
<1> QED
  BY <1>4, <1>5, <1>6, <1>7, <1>8

LEMMA FewerFit ==
  ASSUME NEW p, NEW i, NEW last, NEW m, NEW n, NEW H, NEW G, IsFiniteSet(H), G \subseteq H,
         m.sent \in Nat, n.sent = m.sent, NeedSend(p) \in Nat, Fits(p, i, last, m, H)
  PROVE  Fits(p, i, last, n, G)
<1>1. Cardinality(H) \in Nat /\ Cardinality(G) \in Nat /\ Cardinality(G) <= Cardinality(H)
  BY FS_Subset, FS_CardinalityType
<1> QED
  BY <1>1 DEF Fits

(* While the ranks stay, so do what they serve. *)
LEMMA SameRanks ==
  ASSUME UNCHANGED net
  PROVE  /\ Requests' = Requests /\ PRanks' = PRanks /\ DRanks' = DRanks
         /\ \A p : ServedBy(p)' = ServedBy(p) /\ NeedSend(p)' = NeedSend(p)
<1>1. Requests' = Requests /\ PRanks' = PRanks /\ DRanks' = DRanks
  BY DEF Requests, PRanks, DRanks
<1> QED
  BY <1>1 DEF ServedBy, NeedSend

LEMMA EntryTypes ==
  ASSUME STypes, NEW p \in PRanks, NEW r \in Requests
  PROVE  /\ metas[p][r] \in Seq(Entries) /\ Len(metas[p][r]) \in Nat
         /\ DOMAIN metas[p][r] = 1 .. Len(metas[p][r])
         /\ \A i \in DOMAIN metas[p][r] : metas[p][r][i] \in Entries /\ metas[p][r][i].sent \in Nat
         /\ metas[p][r] # <<>> => Len(metas[p][r]) \in DOMAIN metas[p][r]
<1>1. metas[p][r] \in Seq(Entries)
  BY DEF STypes
<1>2. /\ Len(metas[p][r]) \in Nat /\ DOMAIN metas[p][r] = 1 .. Len(metas[p][r])
      /\ \A i \in 1 .. Len(metas[p][r]) : metas[p][r][i] \in Entries
  BY <1>1, LenProperties, ElementOfSeq
<1>3. metas[p][r] # <<>> => Len(metas[p][r]) # 0
  BY <1>1, EmptySeq
<1> QED
  BY <1>1, <1>2, <1>3 DEF Entries

(* A step of one job leaves no more pulls to come. *)
LEMMA JobHands ==
  ASSUME NEW k \in DOMAIN jobs, NEW j, With(k, j), UNCHANGED <<net, dEngine>>,
         NEW p, NEW r, NEW i, Comes(j, r, i) => Comes(jobs[k], r, i)
  PROVE  InHand(p, r, i)' \subseteq InHand(p, r, i)
<1>1. /\ DOMAIN jobs' \subseteq DOMAIN jobs
      /\ \A l \in DOMAIN jobs' : jobs'[l] = IF l = k THEN j ELSE jobs[l]
  BY WithFacts
<1>2. ServedBy(p)' = ServedBy(p)
  BY SameRanks
<1>3. \A d : ToPull(d, r)' = ToPull(d, r)
  BY DEF ToPull, D, dEngine, Requests
<1>4. \A l \in DOMAIN jobs' : Comes(jobs'[l], r, i) => Comes(jobs[l], r, i)
  BY <1>1
<1> QED
  BY <1>1, <1>2, <1>3, <1>4 DEF InHand, Comes

(* No other pull of the rank brings a request of the job. *)
LEMMA OwnPull ==
  ASSUME DInv, NEW k \in DOMAIN jobs, NEW r \in k[3]
  PROVE  /\ ~ToPull(k[2], r) /\ r \in Requests
         /\ \A l \in DOMAIN jobs : l[1] = k[1] /\ l[2] = k[2] /\ r \in l[3] => l = k
<1>1. k[2] \in DRanks /\ r \in Requests
  BY JobFacts
<1>2. ~Untouched(k[2], r)
  BY DEF Untouched
<1>3. ~ToPull(k[2], r)
  BY <1>1, <1>2 DEF DInv, Unpulled, ToPull
<1> QED
  BY <1>1, <1>3 DEF DInv, JobsSound

(* What D does, and what its receiver takes. *)
LEMMA SourceFrame ==
  ASSUME DInv, SInv, UNCHANGED <<net, pEngine, sender>>,
         \A p \in PRanks, r \in Requests : \A i : InHand(p, r, i)' \subseteq InHand(p, r, i),
         TasksSound'
  PROVE  SInv'
<1>1. /\ Requests' = Requests /\ PRanks' = PRanks
      /\ \A p : NeedSend(p)' = NeedSend(p)
  BY SameRanks
<1>2. /\ \A p, r : ToEnter(p, r)' = ToEnter(p, r) /\ ToRecord(p, r)' = ToRecord(p, r)
      /\ \A p, r : Reported(p, r)' = Reported(p, r) /\ Current(p, r)' = Current(p, r)
      /\ \A r : Early(r)' = Early(r)
  BY DEF ToEnter, ToRecord, Reported, Current, Early, pEngine, sender
<1>3. STypes' /\ Phased'
  BY <1>1 DEF SInv, STypes, Phased, pEngine, sender
<1>4. Entered' /\ ReadySound' /\ ReportsSound'
  BY <1>1, <1>2 DEF SInv, Entered, ReadySound, ReportsSound, pEngine, sender
<1>5. Counts'
  <2> SUFFICES ASSUME NEW p \in PRanks, NEW r \in Requests, NEW i \in DOMAIN metas[p][r]
               PROVE  Fits(p, i, Len(metas[p][r]), metas[p][r][i], InHand(p, r, i))'
    BY <1>1 DEF Counts, sender
  <2>1. Fits(p, i, Len(metas[p][r]), metas[p][r][i], InHand(p, r, i)')
    <3>1. Fits(p, i, Len(metas[p][r]), metas[p][r][i], InHand(p, r, i))
      BY DEF SInv, Counts
    <3>2. metas[p][r][i].sent \in Nat /\ IsFiniteSet(InHand(p, r, i)) /\ NeedSend(p) \in Nat
      BY EntryTypes, HandFacts DEF SInv, DInv, DTypes
    <3> QED
      BY <3>1, <3>2, FewerFit
  <2> QED
    BY <1>1, <2>1 DEF Fits, sender
<1> QED
  BY <1>3, <1>4, <1>5 DEF SInv

(* What D pulls it pulls once. *)
LEMMA DScheduleSource ==
  ASSUME DInv, SInv, DSchedule
  PROVE  SInv'
<1>1. PICK admit \in SUBSET D({"waiting"}) :
        /\ dst' = Moved(Moved(dst, recved, "running"), admit, "remote")
        /\ dMeta' = [pull |-> admit, quit |-> dQuit] /\ dQuit' = {}
        /\ UNCHANGED <<net, pEngine, sender, jobs>>
  BY DEF DSchedule
<1>2. \A r \in D({"waiting"})' : r \in D({"waiting"})
  BY <1>1, SameRanks DEF Moved, D, DInv, DTypes, DStates
<1>3. \A d, r : ToPull(d, r)' => ToPull(d, r)
  BY <1>1, <1>2 DEF ToPull
<1>4. \A p, r, i : InHand(p, r, i)' \subseteq InHand(p, r, i)
  BY <1>1, <1>3, SameRanks DEF InHand, Comes
<1>5. TasksSound'
  BY <1>1 DEF SInv, TasksSound, TaskSound, sender
<1> QED
  BY <1>1, <1>4, <1>5, SourceFrame

LEMMA StartLoadSource ==
  ASSUME DInv, SInv, NEW d \in DRanks, StartLoad(d)
  PROVE  SInv'
<1> DEFINE batch == dMeta.pull \cup dMeta.quit
           asked == Served(d) \X {d} \X {batch}
<1>1. /\ dPhase = "load" /\ d \in dLeft /\ dLeft' \subseteq DRanks
      /\ (dPhase' = "fetch" \/ (dPhase' = dPhase /\ dLeft' \subseteq dLeft))
      /\ UNCHANGED <<net, pEngine, sender, dst, dQuit, dMeta>>
  BY DEF StartLoad, DNext, DInv, DTypes
<1>2. \A e, r : ToPull(e, r)' => ToPull(e, r)
  BY <1>1 DEF ToPull, D, Requests
<1>3. \A r \in batch : ToPull(d, r)
  BY <1>1 DEF ToPull
<1>4. CASE UNCHANGED jobs
  <2>1. \A p, r, i : InHand(p, r, i)' \subseteq InHand(p, r, i)
    BY <1>1, <1>2, <1>4, SameRanks DEF InHand, Comes
  <2>2. TasksSound'
    BY <1>1, <1>4 DEF SInv, TasksSound, TaskSound, sender
  <2> QED
    BY <1>1, <2>1, <2>2, SourceFrame
<1>5. CASE jobs' = [k \in asked \cup DOMAIN jobs |-> IF k \in asked THEN NewJob(batch) ELSE jobs[k]]
  <2>1. /\ \A k \in asked : k \in DOMAIN jobs' /\ jobs'[k] = NewJob(batch) /\ k[2] = d /\ k[3] = batch
        /\ \A k \in DOMAIN jobs' \ asked : k \in DOMAIN jobs /\ jobs'[k] = jobs[k]
    BY <1>5
  <2>2. /\ NewJob(batch).state = "queued" /\ NewJob(batch).todo = batch /\ NewJob(batch).now = {}
    BY DEF NewJob
  <2> HIDE DEF asked, batch
  <2>3. ASSUME NEW p, NEW r, NEW i, NEW e \in InHand(p, r, i)' PROVE e \in InHand(p, r, i)
    <3>1. /\ e \in ServedBy(p)
          /\ \/ ToPull(e, r)'
             \/ \E k \in DOMAIN jobs' : k[1] = p /\ k[2] = e /\ Comes(jobs'[k], r, i)
      BY <1>1, SameRanks DEF InHand, Comes
    <3>2. CASE ToPull(e, r)'
      BY <1>2, <3>1, <3>2 DEF InHand
    <3>3. ASSUME NEW k \in DOMAIN jobs', k[1] = p, k[2] = e, Comes(jobs'[k], r, i)
          PROVE  e \in InHand(p, r, i)
      <4>1. CASE k \in asked
        <5>1. e = d /\ r \in batch
          BY <2>1, <2>2, <3>3, <4>1 DEF Comes
        <5> QED
          BY <1>3, <3>1, <5>1 DEF InHand
      <4>2. CASE k \notin asked
        BY <2>1, <3>1, <3>3, <4>2 DEF InHand
      <4> QED
        BY <4>1, <4>2
    <3> QED
      BY <3>1, <3>2, <3>3
  <2>4. \A p, r, i : InHand(p, r, i)' \subseteq InHand(p, r, i)
    BY <2>3
  <2>5. TasksSound'
    <3> SUFFICES ASSUME NEW k \in DOMAIN jobs' PROVE TaskSound(k, jobs[k])'
      BY DEF TasksSound
    <3>1. metas' = metas
      BY <1>1 DEF sender
    <3>2. CASE k \in asked
      BY <2>1, <2>2, <3>2 DEF TaskSound
    <3>3. CASE k \notin asked
      BY <2>1, <3>1, <3>3 DEF TaskSound, SInv, TasksSound
    <3> QED
      BY <3>2, <3>3
  <2> QED
    BY <1>1, <2>4, <2>5, SourceFrame
<1> QED
  BY <1>4, <1>5 DEF StartLoad

(* The rest of D's steps, and stuttering. *)
LEMMA QuietSource ==
  ASSUME DInv, SInv, UNCHANGED <<net, pEngine, sender, jobs>>,
         \A e, r : ToPull(e, r)' => ToPull(e, r)
  PROVE  SInv'
<1>1. \A p, r, i : InHand(p, r, i)' \subseteq InHand(p, r, i)
  BY SameRanks DEF InHand, Comes
<1>2. TasksSound'
  BY DEF SInv, TasksSound, TaskSound, sender
<1> QED
  BY <1>1, <1>2, SourceFrame

LEMMA DStepSource ==
  ASSUME DInv, SInv, DStep
  PROVE  SInv'
<1>1. CASE DSchedule
  BY <1>1, DScheduleSource
<1>2. ASSUME NEW d \in DRanks, StartLoad(d) PROVE SInv'
  BY <1>2, StartLoadSource
<1>3. ASSUME NEW d \in DRanks, FetchGot(d) PROVE SInv'
  <2>1. UNCHANGED <<net, pEngine, sender, jobs, dst, dQuit, dMeta>> /\ dPhase' # "load"
    BY <1>3 DEF FetchGot, DNext
  <2>2. \A e, r : ToPull(e, r)' => ToPull(e, r)
    BY <2>1 DEF ToPull, D, Requests
  <2> QED
    BY <2>1, <2>2, QuietSource
<1>4. CASE DUpdate
  <2>1. PICK done \in SUBSET D({"running"}) :
          dst' = Moved(dst, done \cup (ReceiveOver \cap D({"held"})), "gone")
    BY <1>4 DEF DUpdate
  <2>2. UNCHANGED <<net, pEngine, sender, jobs, dQuit>> /\ dPhase' = "idle"
    BY <1>4 DEF DUpdate
  <2>3. \A r \in D({"waiting"})' : r \in D({"waiting"})
    BY <2>1, <2>2, SameRanks DEF Moved, D, DInv, DTypes, DStates
  <2>4. \A e, r : ToPull(e, r)' => ToPull(e, r)
    BY <2>2, <2>3 DEF ToPull
  <2> QED
    BY <2>2, <2>4, QuietSource
<1> QED
  BY <1>1, <1>2, <1>3, <1>4 DEF DStep

LEMMA DAbortSource ==
  ASSUME DInv, SInv, NEW r \in net.aborts, DAbort(r)
  PROVE  SInv'
<1>1. /\ UNCHANGED <<net, pEngine, sender, jobs, dPhase, dLeft, dMeta>> /\ r \in Requests
      /\ dst' = [dst EXCEPT ![r] = AfterAbort(r)]
      /\ dQuit' = IF dst[r] = "waiting" THEN dQuit \cup {r} ELSE dQuit
  BY RankFacts DEF DAbort, DInv, DTypes
<1>2. \A q \in D({"waiting"})' : q \in D({"waiting"})
  BY <1>1, SameRanks DEF D, DInv, DTypes, DStates, AfterAbort
<1>3. \A q \in dQuit' : q \in dQuit \/ q \in D({"waiting"})
  BY <1>1 DEF D
<1>4. \A e, q : ToPull(e, q)' => ToPull(e, q)
  BY <1>1, <1>2, <1>3 DEF ToPull
<1> QED
  BY <1>1, <1>4, QuietSource

(***************************************************************************)
(* A step of one job of P: the parts in ok are sent, and the requests in   *)
(* over, sent to every rank of D, are reported.                            *)
(***************************************************************************)
Sends(k, ok, over) ==
  /\ metas' \in [PRanks -> [Requests -> Seq(Entries)]]
  /\ tracked' \in [PRanks -> SUBSET Requests] /\ sentReqs' \in [PRanks -> SUBSET Requests]
  /\ \A p \in PRanks, r \in Requests :
       /\ Len(metas'[p][r]) = Len(metas[p][r])
       /\ r \in tracked'[p] <=> r \in tracked[p] /\ ~(p = k[1] /\ r \in over)
       /\ r \in sentReqs'[p] <=> r \in sentReqs[p] \/ (p = k[1] /\ r \in over)
  /\ \A p \in PRanks, r \in Requests : \A i \in DOMAIN metas[p][r] :
       /\ metas'[p][r][i].ready = metas[p][r][i].ready
       /\ metas'[p][r][i].late = metas[p][r][i].late
       /\ p = k[1] /\ r \in ok /\ i = jobs[k].refs[r]
            => metas'[p][r][i].sent = metas[p][r][i].sent + 1
       /\ ~(p = k[1] /\ r \in ok /\ i = jobs[k].refs[r])
            => metas'[p][r][i].sent = metas[p][r][i].sent
  /\ \A r \in over : /\ r \in tracked[k[1]]
                     /\ metas'[k[1]][r][jobs[k].refs[r]].sent = NeedSend(k[1])

LEMMA JobRanks ==
  ASSUME DInv, NEW k \in DOMAIN jobs
  PROVE  k[1] \in PRanks /\ k[2] \in ServedBy(k[1])
<1>1. <<k[1], k[2]>> \in net.pairs /\ net \in Nets
  BY DEF DInv, DTypes, JobsSound
<1>2. <<k[1], k[2]>>[1] = k[1] /\ <<k[1], k[2]>>[2] = k[2]
  OBVIOUS
<1> QED
  BY <1>1, <1>2, HandFacts

(* One pull less, one part more. *)
LEMMA OneSent ==
  ASSUME NEW p, NEW i, NEW last, NEW m, NEW n, NEW H, NEW d \in H, NEW G, IsFiniteSet(H),
         G \subseteq H \ {d}, m.sent \in Nat, n.sent = m.sent + 1, NeedSend(p) \in Nat,
         Fits(p, i, last, m, H)
  PROVE  Fits(p, i, last, n, G)
<1>1. IsFiniteSet(H \ {d}) /\ Cardinality(H \ {d}) = Cardinality(H) - 1 /\ Cardinality(H) \in Nat
  BY FS_RemoveElement, FS_CardinalityType
<1>2. Cardinality(G) \in Nat /\ Cardinality(G) <= Cardinality(H \ {d})
  BY <1>1, FS_Subset, FS_CardinalityType
<1> QED
  BY <1>1, <1>2 DEF Fits

LEMMA SendStep ==
  ASSUME DInv, SInv, NEW k \in DOMAIN jobs, NEW j, With(k, j), UNCHANGED <<net, dEngine, pEngine>>,
         NEW ok \in SUBSET jobs[k].now, NEW over \in SUBSET ok, Sends(k, ok, over),
         \A r, i : Comes(j, r, i) => Comes(jobs[k], r, i) /\ r \notin ok,
         TaskSound(k, j), j.now \cup j.todo \subseteq k[3]
  PROVE  SInv'
<1> DEFINE p0 == k[1]
<1>1. /\ Requests' = Requests /\ PRanks' = PRanks
      /\ \A p : NeedSend(p)' = NeedSend(p)
  BY SameRanks
<1>2. /\ \A p, r : ToEnter(p, r)' = ToEnter(p, r) /\ ToRecord(p, r)' = ToRecord(p, r)
      /\ \A r : Early(r)' = Early(r)
      /\ UNCHANGED <<pst, pMeta, sentBy>>
  BY DEF ToEnter, ToRecord, Early, pEngine
<1>3. STypes' /\ Phased'
  BY <1>1 DEF SInv, STypes, Phased, pEngine, Sends
<1>4. p0 \in PRanks /\ k[2] \in ServedBy(p0) /\ k[3] \subseteq Requests /\ jobs[k].now \subseteq k[3]
  BY JobFacts, JobRanks
<1>5. \A p \in PRanks, r \in Requests : DOMAIN metas'[p][r] = DOMAIN metas[p][r]
  BY LenProperties DEF SInv, STypes, Sends
<1>6. ASSUME NEW r \in ok
      PROVE  /\ r \in Requests /\ jobs[k].refs[r] \in DOMAIN metas[p0][r]
             /\ metas[p0][r][jobs[k].refs[r]].ready
             /\ \A i : k[2] \notin InHand(p0, r, i)'
             /\ k[2] \in InHand(p0, r, jobs[k].refs[r])
  <2>1. /\ r \in k[3] /\ r \in jobs[k].now /\ jobs[k].state = "sending"
        /\ jobs[k].refs[r] \in DOMAIN metas[p0][r] /\ metas[p0][r][jobs[k].refs[r]].ready
    BY <1>4 DEF SInv, TasksSound, TaskSound
  <2>2. Comes(jobs[k], r, jobs[k].refs[r])
    BY <2>1 DEF Comes
  <2>3. ~ToPull(k[2], r)'
    BY <2>1, OwnPull DEF ToPull, D, dEngine, Requests
  <2>4. ASSUME NEW i, NEW l \in DOMAIN jobs', l[1] = p0, l[2] = k[2], Comes(jobs'[l], r, i) PROVE FALSE
    <3>1. l \in DOMAIN jobs /\ jobs'[l] = IF l = k THEN j ELSE jobs[l]
      BY WithFacts
    <3>2. l # k
      BY <2>4, <3>1
    <3>3. r \in jobs[l].todo \cup jobs[l].now
      BY <2>4, <3>1, <3>2 DEF Comes
    <3>4. r \in l[3]
      BY <3>1, <3>3, JobFacts
    <3> QED
      BY <2>1, <2>4, <3>1, <3>2, <3>4, OwnPull
  <2> QED
    BY <1>4, <2>1, <2>2, <2>3, <2>4 DEF InHand, Comes
<1>7. \A p, r, i : InHand(p, r, i)' \subseteq InHand(p, r, i)
  BY JobHands
<1>8. ASSUME NEW p \in PRanks, NEW r \in Requests, NEW i \in DOMAIN metas[p][r]
      PROVE  Fits(p, i, Len(metas'[p][r]), metas'[p][r][i], InHand(p, r, i)')
  <2>1. Fits(p, i, Len(metas[p][r]), metas[p][r][i], InHand(p, r, i))
    BY DEF SInv, Counts
  <2>2. /\ metas[p][r][i].sent \in Nat /\ NeedSend(p) \in Nat
        /\ IsFiniteSet(InHand(p, r, i)) /\ Cardinality(InHand(p, r, i)) \in Nat
    BY EntryTypes, HandFacts DEF SInv, DInv, DTypes
  <2>3. CASE p = p0 /\ r \in ok /\ i = jobs[k].refs[r]
    <3>1. InHand(p, r, i)' \subseteq InHand(p, r, i) \ {k[2]} /\ k[2] \in InHand(p, r, i)
      BY <1>6, <1>7, <2>3
    <3>2. Len(metas'[p][r]) = Len(metas[p][r]) /\ metas'[p][r][i].sent = metas[p][r][i].sent + 1
      BY <2>3 DEF Sends
    <3>3. Fits(p, i, Len(metas[p][r]), metas'[p][r][i], InHand(p, r, i)')
      BY <2>1, <2>2, <3>1, <3>2, OneSent
    <3> QED
      BY <3>2, <3>3
  <2>4. CASE ~(p = p0 /\ r \in ok /\ i = jobs[k].refs[r])
    <3>1. Len(metas'[p][r]) = Len(metas[p][r]) /\ metas'[p][r][i].sent = metas[p][r][i].sent
      BY <2>4 DEF Sends
    <3>2. InHand(p, r, i)' \subseteq InHand(p, r, i)
      BY <1>7
    <3>3. Fits(p, i, Len(metas[p][r]), metas'[p][r][i], InHand(p, r, i)')
      BY <2>1, <2>2, <3>1, <3>2, FewerFit
    <3> QED
      BY <3>1, <3>3
  <2> QED
    BY <2>3, <2>4
<1>9. Counts'
  BY <1>1, <1>5, <1>8 DEF Counts, Fits
<1>10. ASSUME NEW r \in over
       PROVE  /\ pst[r] = "held" /\ ~ToRecord(p0, r) /\ r \notin pMeta.new
              /\ ~Reported(p0, r)
  <2>9. PICK i : i = jobs[k].refs[r]
    OBVIOUS
  <2>1. r \in Requests /\ i \in DOMAIN metas[p0][r] /\ metas[p0][r][i].ready
    BY <1>6, <2>9
  <2>2. Fits(p0, i, Len(metas'[p0][r]), metas'[p0][r][i], InHand(p0, r, i)')
    BY <1>4, <1>8, <2>1
  <2>3. metas'[p0][r][i].sent = NeedSend(p0) /\ NeedSend(p0) \in Nat
    BY <2>9, HandFacts DEF DInv, DTypes, Sends
  <2>7. Cardinality(InHand(p0, r, i)') \in Nat
    <3>1. InHand(p0, r, i)' \subseteq InHand(p0, r, i)
      BY <1>7
    <3>2. IsFiniteSet(InHand(p0, r, i))
      BY HandFacts DEF DInv, DTypes
    <3> QED
      BY <3>1, <3>2, FS_Subset, FS_CardinalityType
  <2>8. Len(metas'[p0][r]) = Len(metas[p0][r])
    BY <1>4, <2>1 DEF Sends
  <2>4. i = Len(metas[p0][r])
    BY <2>2, <2>3, <2>7, <2>8 DEF Fits
  <2>5. Current(p0, r).ready /\ r \in tracked[p0]
    BY <2>1, <2>4 DEF Current, Sends
  <2>6. ~Reported(p0, r) /\ pst[r] # "gone"
    BY <1>4, <2>1, <2>5 DEF SInv, ReportsSound
  <2> QED
    BY <1>4, <2>1, <2>6, <1>10 DEF SInv, ReadySound, Sends
<1>11. \A p \in PRanks, r \in Requests : Reported(p, r)' <=> Reported(p, r) \/ (p = p0 /\ r \in over)
  BY <1>2 DEF Reported, Sends
<1>12. Entered'
  <2> SUFFICES ASSUME NEW p \in PRanks, NEW r \in Requests
               PROVE  /\ pst[r] \in {"running", "held"} /\ ~ToEnter(p, r) /\ ~Reported(p, r)'
                           => r \in tracked'[p]
                      /\ r \in tracked'[p] => metas'[p][r] # <<>>
                      /\ Early(r) /\ r \notin tracked'[p] => metas'[p][r] = <<>>
    BY <1>1, <1>2 DEF Entered
  <2>1. /\ pst[r] \in {"running", "held"} /\ ~ToEnter(p, r) /\ ~Reported(p, r) => r \in tracked[p]
        /\ r \in tracked[p] => metas[p][r] # <<>>
        /\ Early(r) /\ r \notin tracked[p] => metas[p][r] = <<>>
    BY DEF SInv, Entered
  <2>2. metas'[p][r] = <<>> <=> metas[p][r] = <<>>
    <3>1. metas[p][r] \in Seq(Entries) /\ metas'[p][r] \in Seq(Entries)
      BY DEF SInv, STypes, Sends
    <3>2. Len(metas'[p][r]) = Len(metas[p][r])
      BY DEF Sends
    <3> QED
      BY <3>1, <3>2, EmptySeq
  <2>3. p = p0 /\ r \in over => ~Early(r)
    BY <1>10 DEF Early
  <2> QED
    BY <1>11, <2>1, <2>2, <2>3 DEF Sends
<1>13. ReadySound'
  <2> SUFFICES ASSUME NEW p \in PRanks, NEW r \in Requests, NEW i \in DOMAIN metas[p][r]
               PROVE  /\ metas'[p][r][i].ready => /\ pst[r] \in {"held", "gone"} /\ r \notin pMeta.new
                                                 /\ ~ToRecord(p, r)
                      /\ metas'[p][r][i].late => metas'[p][r][i].ready
    BY <1>1, <1>2, <1>5 DEF ReadySound
  <2>1. /\ metas[p][r][i].ready => /\ pst[r] \in {"held", "gone"} /\ r \notin pMeta.new
                                  /\ ~ToRecord(p, r)
        /\ metas[p][r][i].late => metas[p][r][i].ready
    BY DEF SInv, ReadySound
  <2>2. /\ metas'[p][r][i].ready = metas[p][r][i].ready
        /\ metas'[p][r][i].late = metas[p][r][i].late
    BY DEF Sends
  <2> QED
    BY <2>1, <2>2
<1>14. ReportsSound'
  <2> SUFFICES ASSUME NEW p \in PRanks, NEW r \in Requests
               PROVE  /\ Reported(p, r)' => pst[r] = "held" /\ ~ToRecord(p, r)
                      /\ ~(r \in sentReqs'[p] /\ p \in sentBy[r])
                      /\ (Reported(p, r)' \/ pst[r] = "gone") /\ r \in tracked'[p]
                           => ~Current(p, r)'.ready
    BY <1>1, <1>2 DEF ReportsSound
  <2>1. /\ Reported(p, r) => pst[r] = "held" /\ ~ToRecord(p, r)
        /\ ~(r \in sentReqs[p] /\ p \in sentBy[r])
        /\ (Reported(p, r) \/ pst[r] = "gone") /\ r \in tracked[p] => ~Current(p, r).ready
    BY DEF SInv, ReportsSound
  <2>2. r \in tracked[p] => Current(p, r)'.ready = Current(p, r).ready
    <3>1. r \in tracked[p] => Len(metas[p][r]) \in DOMAIN metas[p][r]
      BY EntryTypes DEF SInv, Entered
    <3> QED
      BY <3>1 DEF Current, Sends
  <2>3. p = p0 /\ r \in over => pst[r] = "held" /\ ~ToRecord(p, r) /\ ~Reported(p, r)
    BY <1>10
  <2> QED
    BY <1>11, <2>1, <2>2, <2>3 DEF Reported, Sends
<1>15. TasksSound'
  <2>1. ASSUME NEW l \in DOMAIN jobs, NEW t, TaskSound(l, t), t.now \cup t.todo \subseteq l[3]
        PROVE  TaskSound(l, t)'
    <3>1. l[1] \in PRanks /\ l[3] \subseteq Requests
      BY JobFacts, JobRanks
    <3>2. \A r \in t.now \cup t.todo : DOMAIN metas'[l[1]][r] = DOMAIN metas[l[1]][r]
      BY <1>5, <2>1, <3>1
    <3>3. ASSUME NEW r \in t.now PROVE t.state = "sending" /\ metas'[l[1]][r][t.refs[r]].ready
      <4>1. /\ t.state = "sending" /\ metas[l[1]][r][t.refs[r]].ready
            /\ t.refs[r] \in DOMAIN metas[l[1]][r] /\ r \in Requests
        BY <2>1, <3>1 DEF TaskSound
      <4> QED
        BY <3>1, <4>1 DEF Sends
    <3> QED
      BY <2>1, <3>2, <3>3 DEF TaskSound
  <2>2. ASSUME NEW l \in DOMAIN jobs' PROVE TaskSound(l, jobs[l])'
    <3>1. l \in DOMAIN jobs /\ jobs'[l] = IF l = k THEN j ELSE jobs[l]
      BY WithFacts
    <3>2. CASE l = k
      <4>1. j.now \cup j.todo \subseteq l[3]
        BY <3>2
      <4> QED
        BY <2>1, <3>1, <3>2, <4>1
    <3>3. CASE l # k
      <4>1. TaskSound(l, jobs[l]) /\ jobs[l].now \cup jobs[l].todo \subseteq l[3]
        BY <3>1, JobFacts DEF SInv, TasksSound
      <4>2. TaskSound(l, jobs[l]) /\ jobs'[l] = jobs[l]
        BY <3>1, <3>3, <4>1
      <4> QED
        BY <2>1, <3>1, <4>1, <4>2 DEF TaskSound
    <3> QED
      BY <3>2, <3>3
  <2> QED
    BY <2>2 DEF TasksSound
<1> QED
  BY <1>3, <1>9, <1>12, <1>13, <1>14, <1>15 DEF SInv

LEMMA EntryChange ==
  ASSUME NEW s \in Seq(Entries), NEW n \in DOMAIN s, NEW x \in Entries
  PROVE  /\ [s EXCEPT ![n] = x] \in Seq(Entries) /\ Len([s EXCEPT ![n] = x]) = Len(s)
         /\ \A i \in DOMAIN s : [s EXCEPT ![n] = x][i] = IF i = n THEN x ELSE s[i]
<1>1. Len(s) \in Nat /\ DOMAIN s = 1 .. Len(s) /\ s \in [1 .. Len(s) -> Entries]
  BY LenProperties
<1>2. [s EXCEPT ![n] = x] \in [1 .. Len(s) -> Entries]
  BY <1>1
<1>3. [s EXCEPT ![n] = x] \in Seq(Entries) /\ Len([s EXCEPT ![n] = x]) = Len(s)
  BY <1>1, <1>2, IsASeq, LenProperties
<1> QED
  BY <1>1, <1>3

LEMMA TableType ==
  ASSUME NEW A, NEW B, NEW S, NEW f \in [A -> [B -> S]], NEW p \in A,
         NEW g, DOMAIN g = B, g = [r \in B |-> g[r]],
         NEW h, h = [f EXCEPT ![p] = g],
         \A q \in A, r \in B : h[q][r] \in S
  PROVE  h \in [A -> [B -> S]]
<1>1. DOMAIN h = A /\ h = [q \in A |-> h[q]]
  OBVIOUS
<1>2. ASSUME NEW q \in A PROVE h[q] \in [B -> S]
  <2>1. CASE q = p
    <3>1. h[q] = g
      BY <2>1
    <3>2. \A r \in B : g[r] \in S
      BY <3>1
    <3> QED
      BY <3>1, <3>2
  <2>2. CASE q # p
    BY <2>2
  <2> QED
    BY <2>1, <2>2
<1> QED
  BY <1>1, <1>2

(* A step of a job that leaves the entries alone. *)
LEMMA JobSource ==
  ASSUME DInv, SInv, NEW k \in DOMAIN jobs, NEW j, With(k, j),
         UNCHANGED <<net, dEngine, pEngine, sender>>,
         \A r, i : Comes(j, r, i) => Comes(jobs[k], r, i), TaskSound(k, j)
  PROVE  SInv'
<1>1. \A p, r, i : InHand(p, r, i)' \subseteq InHand(p, r, i)
  BY JobHands
<1>2. TasksSound'
  <2>1. metas' = metas
    BY DEF sender
  <2>2. ASSUME NEW l \in DOMAIN jobs' PROVE TaskSound(l, jobs[l])'
    <3>1. l \in DOMAIN jobs /\ jobs'[l] = IF l = k THEN j ELSE jobs[l]
      BY WithFacts
    <3>2. TaskSound(l, jobs'[l])
      BY <3>1 DEF SInv, TasksSound
    <3> QED
      BY <2>1, <3>2 DEF TaskSound
  <2> QED
    BY <2>2 DEF TasksSound
<1> QED
  BY <1>1, <1>2, SourceFrame

(* A job that is refused, gives up, or whose answers D's receiver takes. *)
LEMMA AnswerSource ==
  ASSUME DInv, SInv, NEW k \in DOMAIN jobs,
         RefusePull(k) \/ WaitTimesOut(k) \/ SendRaises(k) \/ Receive(k) \/ GiveUp(k)
  PROVE  SInv'
<1>1. TaskSound(k, jobs[k]) /\ DOMAIN jobs[k] = {"state", "todo", "now", "refs", "quit", "replies", "open"}
  BY JobFacts DEF SInv, TasksSound
<1>2. CASE RefusePull(k)
  <2>1. PICK j : j = [jobs[k] EXCEPT !.state = "over", !.replies = <<Reply("ERROR", {})>>]
    OBVIOUS
  <2>2. j.state = "over" /\ j.now = jobs[k].now
    BY <1>1, <2>1
  <2>3. With(k, j) /\ jobs[k].state = "queued" /\ UNCHANGED <<net, dEngine, pEngine, sender>>
    BY <1>2, <2>1 DEF RefusePull
  <2>4. TaskSound(k, j) /\ \A r, i : ~Comes(j, r, i)
    BY <1>1, <2>2, <2>3 DEF TaskSound, Comes
  <2> QED
    BY <2>3, <2>4, JobSource
<1>3. CASE WaitTimesOut(k)
  <2>1. PICK j : j = [jobs[k] EXCEPT !.state = "over", !.todo = {},
                                     !.replies = Append(@, Reply("FINISH", {}))]
    OBVIOUS
  <2>2. j.state = "over" /\ j.now = jobs[k].now
    BY <1>1, <2>1
  <2>3. With(k, j) /\ jobs[k].state = "waiting" /\ UNCHANGED <<net, dEngine, pEngine, sender>>
    BY <1>3, <2>1 DEF WaitTimesOut
  <2>4. TaskSound(k, j) /\ \A r, i : ~Comes(j, r, i)
    BY <1>1, <2>2, <2>3 DEF TaskSound, Comes
  <2> QED
    BY <2>3, <2>4, JobSource
<1>4. ASSUME NEW j, With(k, j), UNCHANGED <<net, dEngine, pEngine, sender>>,
             j.state = jobs[k].state, j.todo = jobs[k].todo, j.now = jobs[k].now, j.refs = jobs[k].refs
      PROVE  SInv'
  <2>1. TaskSound(k, j) /\ \A r, i : Comes(j, r, i) => Comes(jobs[k], r, i)
    BY <1>1, <1>4 DEF TaskSound, Comes
  <2> QED
    BY <1>4, <2>1, JobSource
<1>5. CASE Receive(k)
  <2>1. PICK j : j = [jobs[k] EXCEPT !.open = (Head(jobs[k].replies).status = "CONTINUE"),
                                     !.replies = Tail(@)]
    OBVIOUS
  <2>2. /\ j.state = jobs[k].state /\ j.todo = jobs[k].todo /\ j.now = jobs[k].now
        /\ j.refs = jobs[k].refs
    BY <1>1, <2>1
  <2>3. With(k, j) /\ UNCHANGED <<net, dEngine, pEngine, sender>>
    BY <1>5, <2>1 DEF Receive
  <2> QED
    BY <1>4, <2>2, <2>3
<1>6. CASE GiveUp(k)
  <2>1. PICK j : j = [jobs[k] EXCEPT !.open = FALSE]
    OBVIOUS
  <2>2. /\ j.state = jobs[k].state /\ j.todo = jobs[k].todo /\ j.now = jobs[k].now
        /\ j.refs = jobs[k].refs
    BY <1>1, <2>1
  <2>3. With(k, j) /\ UNCHANGED <<net, dEngine, pEngine, sender>>
    BY <1>6, <2>1 DEF GiveUp
  <2> QED
    BY <1>4, <2>2, <2>3
<1>7. CASE SendRaises(k)
  <2>1. PICK j : j = [jobs[k] EXCEPT !.state = "over", !.now = {},
                                     !.replies = Append(@, Reply("ERROR", {}))]
    OBVIOUS
  <2>2. j.state = "over" /\ j.now = {}
    BY <1>1, <2>1
  <2>3. With(k, j) /\ UNCHANGED <<net, dEngine, pEngine, sender>>
    BY <1>7, <2>1 DEF SendRaises
  <2>4. TaskSound(k, j) /\ \A r, i : ~Comes(j, r, i)
    BY <2>2 DEF TaskSound, Comes
  <2> QED
    BY <2>3, <2>4, JobSource
<1> QED
  BY <1>2, <1>3, <1>5, <1>6, <1>7

(* What is ready is marked as being sent. *)
LEMMA StartSendSource ==
  ASSUME DInv, SInv, NEW k \in DOMAIN jobs, StartSend(k)
  PROVE  SInv'
<1>1. TaskSound(k, jobs[k]) /\ DOMAIN jobs[k] = {"state", "todo", "now", "refs", "quit", "replies", "open"}
      /\ k[1] \in PRanks /\ k[3] \subseteq Requests /\ jobs[k].todo \cup jobs[k].now \subseteq k[3]
  BY JobFacts, JobRanks DEF SInv, TasksSound
<1>2. PICK done \in SUBSET Ready(k) \ {{}} :
        /\ With(k, [jobs[k] EXCEPT !.state = "sending", !.todo = @ \ done, !.now = done \cap tracked[k[1]]])
        /\ metas' = [metas EXCEPT ![k[1]] = [r \in Requests |->
                       IF r \in done \cap tracked[k[1]]
                       THEN [metas[k[1]][r] EXCEPT ![jobs[k].refs[r]].sending = @ + 1]
                       ELSE metas[k[1]][r]]]
  BY DEF StartSend
<1>3. PICK alive : alive = done \cap tracked[k[1]]
  OBVIOUS
<1>4. PICK j : j = [jobs[k] EXCEPT !.state = "sending", !.todo = @ \ done, !.now = alive]
  OBVIOUS
<1>5. /\ jobs[k].state = "waiting" /\ UNCHANGED <<net, dEngine, pEngine, tracked, sentReqs>>
      /\ With(k, j)
  BY <1>2, <1>3, <1>4 DEF StartSend
<1>6. /\ j.state = "sending" /\ j.todo = jobs[k].todo \ done /\ j.now = alive
      /\ j.refs = jobs[k].refs /\ done \subseteq jobs[k].todo
  BY <1>1, <1>4 DEF Ready
<1>7. /\ \A r, i : Comes(j, r, i) => Comes(jobs[k], r, i)
      /\ TaskSound(k, j) /\ j.now \cup j.todo \subseteq k[3]
  BY <1>1, <1>3, <1>5, <1>6 DEF Comes, TaskSound, Ready, Meta
<1>8. ASSUME NEW p \in PRanks, NEW r \in Requests
      PROVE  /\ metas'[p][r] \in Seq(Entries) /\ Len(metas'[p][r]) = Len(metas[p][r])
             /\ \A i \in DOMAIN metas[p][r] :
                  /\ metas'[p][r][i].ready = metas[p][r][i].ready
                  /\ metas'[p][r][i].late = metas[p][r][i].late
                  /\ metas'[p][r][i].sent = metas[p][r][i].sent
  <2>1. metas[p][r] \in Seq(Entries)
    BY EntryTypes DEF SInv
  <2>2. CASE p = k[1] /\ r \in alive
    <3>1. PICK n \in DOMAIN metas[p][r] : n = jobs[k].refs[r]
      BY <1>1, <1>3, <1>5, <1>6, <2>2 DEF TaskSound
    <3>2. metas[p][r][n] \in Entries
      BY EntryTypes DEF SInv
    <3>3. PICK x : x = [metas[p][r][n] EXCEPT !.sending = @ + 1]
      OBVIOUS
    <3>4. /\ x \in Entries /\ x.ready = metas[p][r][n].ready
          /\ x.late = metas[p][r][n].late /\ x.sent = metas[p][r][n].sent
      BY <3>2, <3>3 DEF Entries
    <3>5. metas'[p][r] = [metas[p][r] EXCEPT ![n] = x]
      BY <1>2, <1>3, <2>2, <3>1, <3>3 DEF SInv, STypes
    <3> QED
      BY <2>1, <3>4, <3>5, EntryChange
  <2>3. CASE ~(p = k[1] /\ r \in alive)
    <3>1. metas'[p][r] = metas[p][r]
      BY <1>2, <1>3, <2>3 DEF SInv, STypes
    <3> QED
      BY <2>1, <3>1
  <2> QED
    BY <2>2, <2>3
<1>9. metas' \in [PRanks -> [Requests -> Seq(Entries)]]
  <2>1. PICK g : g = [r \in Requests |->
                       IF r \in done \cap tracked[k[1]]
                       THEN [metas[k[1]][r] EXCEPT ![jobs[k].refs[r]].sending = @ + 1]
                       ELSE metas[k[1]][r]]
    OBVIOUS
  <2>2. metas' = [metas EXCEPT ![k[1]] = g] /\ DOMAIN g = Requests /\ g = [r \in Requests |-> g[r]]
    BY <1>2, <2>1
  <2>3. \A p \in PRanks, r \in Requests : metas'[p][r] \in Seq(Entries)
    BY <1>8
  <2>4. metas \in [PRanks -> [Requests -> Seq(Entries)]]
    BY DEF SInv, STypes
  <2> QED
    BY <1>1, <2>2, <2>3, <2>4, TableType
<1>10. Sends(k, {}, {})
  BY <1>5, <1>8, <1>9 DEF Sends, SInv, STypes
<1> QED
  BY <1>5, <1>7, <1>10, SendStep

(* The blocks are written; what went to every rank of D is reported. *)
LEMMA EndSendSource ==
  ASSUME DInv, SInv, NEW k \in DOMAIN jobs, EndSend(k)
  PROVE  SInv'
<1> DEFINE object(r, ok) == [Meta(k, r) EXCEPT !.sending = @ - 1,
                                               !.sent = IF r \in ok THEN @ + 1 ELSE @]
<1>1. TaskSound(k, jobs[k]) /\ DOMAIN jobs[k] = {"state", "todo", "now", "refs", "quit", "replies", "open"}
      /\ k[1] \in PRanks /\ k[3] \subseteq Requests /\ jobs[k].todo \cup jobs[k].now \subseteq k[3]
      /\ jobs[k].todo \cap jobs[k].now = {}
  BY JobFacts, JobRanks DEF SInv, TasksSound, OnePlace
<1>2. PICK ok \in SUBSET jobs[k].now :
        /\ metas' = [metas EXCEPT ![k[1]] = [r \in Requests |->
                       IF r \in jobs[k].now THEN [metas[k[1]][r] EXCEPT ![jobs[k].refs[r]] = object(r, ok)]
                       ELSE metas[k[1]][r]]]
        /\ tracked' = [tracked EXCEPT ![k[1]] =
                         @ \ {r \in ok \cap tracked[k[1]] : object(r, ok).sent = NeedSend(k[1])}]
        /\ sentReqs' = [sentReqs EXCEPT ![k[1]] =
                          @ \cup {r \in ok \cap tracked[k[1]] : object(r, ok).sent = NeedSend(k[1])}]
        /\ With(k, [jobs[k] EXCEPT !.state = IF jobs[k].todo = {} THEN "over" ELSE "waiting",
                                   !.now = {}, !.replies = Append(@, Answer(k, ok))])
  BY DEF EndSend
<1>3. PICK over : over = {r \in ok \cap tracked[k[1]] : object(r, ok).sent = NeedSend(k[1])}
  OBVIOUS
<1>4. PICK j : j = [jobs[k] EXCEPT !.state = IF jobs[k].todo = {} THEN "over" ELSE "waiting",
                                   !.now = {}, !.replies = Append(@, Answer(k, ok))]
  OBVIOUS
<1>5. jobs[k].state = "sending" /\ UNCHANGED <<net, dEngine, pEngine>> /\ With(k, j)
  BY <1>2, <1>4 DEF EndSend
<1>6. /\ j.state = (IF jobs[k].todo = {} THEN "over" ELSE "waiting")
      /\ j.todo = jobs[k].todo /\ j.now = {} /\ j.refs = jobs[k].refs
  BY <1>1, <1>4
<1>7. /\ \A r, i : Comes(j, r, i) => Comes(jobs[k], r, i) /\ r \notin ok
      /\ TaskSound(k, j) /\ j.now \cup j.todo \subseteq k[3]
  BY <1>1, <1>5, <1>6 DEF Comes, TaskSound
<1>8. ASSUME NEW r \in jobs[k].now
      PROVE  /\ r \in Requests /\ jobs[k].refs[r] \in DOMAIN metas[k[1]][r]
             /\ Meta(k, r) = metas[k[1]][r][jobs[k].refs[r]]
             /\ object(r, ok) \in Entries
             /\ object(r, ok).ready = Meta(k, r).ready /\ object(r, ok).late = Meta(k, r).late
             /\ object(r, ok).sent = IF r \in ok THEN Meta(k, r).sent + 1 ELSE Meta(k, r).sent
  <2>1. /\ r \in Requests /\ jobs[k].refs[r] \in DOMAIN metas[k[1]][r]
        /\ Meta(k, r) = metas[k[1]][r][jobs[k].refs[r]]
    BY <1>1, <1>5 DEF TaskSound, Meta
  <2>2. Meta(k, r) \in Entries
    BY <1>1, <2>1, EntryTypes DEF SInv
  <2>3. PICK m \in Entries : m = Meta(k, r)
    BY <2>2
  <2>4. PICK n : n = IF r \in ok THEN m.sent + 1 ELSE m.sent
    OBVIOUS
  <2>5. object(r, ok) = [m EXCEPT !.sending = m.sending - 1, !.sent = n]
    BY <2>3, <2>4
  <2>6. n \in Nat /\ m.sending - 1 \in Int
    BY <2>4 DEF Entries
  <2>7. /\ object(r, ok) \in Entries /\ object(r, ok).sent = n
        /\ object(r, ok).ready = m.ready /\ object(r, ok).late = m.late
    <3> HIDE DEF object
    <3> QED
      BY <2>5, <2>6 DEF Entries
  <2> QED
    BY <2>1, <2>3, <2>4, <2>7
<1>9. ASSUME NEW p \in PRanks, NEW r \in Requests
      PROVE  /\ metas'[p][r] \in Seq(Entries) /\ Len(metas'[p][r]) = Len(metas[p][r])
             /\ \A i \in DOMAIN metas[p][r] :
                  /\ metas'[p][r][i].ready = metas[p][r][i].ready
                  /\ metas'[p][r][i].late = metas[p][r][i].late
                  /\ p = k[1] /\ r \in ok /\ i = jobs[k].refs[r]
                       => metas'[p][r][i].sent = metas[p][r][i].sent + 1
                  /\ ~(p = k[1] /\ r \in ok /\ i = jobs[k].refs[r])
                       => metas'[p][r][i].sent = metas[p][r][i].sent
  <2>1. metas[p][r] \in Seq(Entries)
    BY EntryTypes DEF SInv
  <2>2. CASE p = k[1] /\ r \in jobs[k].now
    <3>1. PICK n \in DOMAIN metas[p][r] : n = jobs[k].refs[r]
      BY <1>8, <2>2
    <3>2. PICK x : x = object(r, ok)
      OBVIOUS
    <3>3. /\ x \in Entries /\ x.ready = metas[p][r][n].ready /\ x.late = metas[p][r][n].late
          /\ x.sent = IF r \in ok THEN metas[p][r][n].sent + 1 ELSE metas[p][r][n].sent
      BY <1>8, <2>2, <3>1, <3>2
    <3>4. metas'[p][r] = [metas[p][r] EXCEPT ![n] = x]
      BY <1>2, <2>2, <3>1, <3>2 DEF SInv, STypes
    <3>5. /\ metas'[p][r] \in Seq(Entries) /\ Len(metas'[p][r]) = Len(metas[p][r])
          /\ \A i \in DOMAIN metas[p][r] : metas'[p][r][i] = IF i = n THEN x ELSE metas[p][r][i]
      BY <2>1, <3>3, <3>4, EntryChange
    <3> QED
      BY <2>2, <3>1, <3>3, <3>5
  <2>3. CASE ~(p = k[1] /\ r \in jobs[k].now)
    <3>1. metas'[p][r] = metas[p][r]
      BY <1>2, <2>3 DEF SInv, STypes
    <3> QED
      BY <2>1, <2>3, <3>1
  <2> QED
    BY <2>2, <2>3
<1>10. metas' \in [PRanks -> [Requests -> Seq(Entries)]]
  <2>1. PICK g : g = [r \in Requests |->
                       IF r \in jobs[k].now THEN [metas[k[1]][r] EXCEPT ![jobs[k].refs[r]] = object(r, ok)]
                       ELSE metas[k[1]][r]]
    OBVIOUS
  <2>2. metas' = [metas EXCEPT ![k[1]] = g] /\ DOMAIN g = Requests /\ g = [r \in Requests |-> g[r]]
    BY <1>2, <2>1
  <2>3. \A p \in PRanks, r \in Requests : metas'[p][r] \in Seq(Entries)
    BY <1>9
  <2>4. metas \in [PRanks -> [Requests -> Seq(Entries)]]
    BY DEF SInv, STypes
  <2> QED
    BY <1>1, <2>2, <2>3, <2>4, TableType
<1>11. over \in SUBSET ok /\ over \subseteq Requests
  BY <1>1, <1>3
<1>12. /\ tracked' \in [PRanks -> SUBSET Requests] /\ sentReqs' \in [PRanks -> SUBSET Requests]
       /\ \A p \in PRanks, r \in Requests :
            /\ r \in tracked'[p] <=> r \in tracked[p] /\ ~(p = k[1] /\ r \in over)
            /\ r \in sentReqs'[p] <=> r \in sentReqs[p] \/ (p = k[1] /\ r \in over)
  <2>1. tracked' = [tracked EXCEPT ![k[1]] = @ \ over] /\ sentReqs' = [sentReqs EXCEPT ![k[1]] = @ \cup over]
    BY <1>2, <1>3
  <2> HIDE DEF object
  <2>2. tracked \in [PRanks -> SUBSET Requests] /\ sentReqs \in [PRanks -> SUBSET Requests]
    BY DEF SInv, STypes
  <2> QED
    BY <1>1, <1>11, <2>1, <2>2
<1>13. ASSUME NEW r \in over
       PROVE  r \in tracked[k[1]] /\ metas'[k[1]][r][jobs[k].refs[r]].sent = NeedSend(k[1])
  <2>1. r \in ok /\ r \in tracked[k[1]] /\ object(r, ok).sent = NeedSend(k[1])
    BY <1>3
  <2>2. metas'[k[1]][r][jobs[k].refs[r]].sent = Meta(k, r).sent + 1
    <3>1. /\ r \in Requests /\ jobs[k].refs[r] \in DOMAIN metas[k[1]][r]
          /\ Meta(k, r) = metas[k[1]][r][jobs[k].refs[r]]
      BY <1>8, <2>1
    <3>2. metas'[k[1]][r][jobs[k].refs[r]].sent = metas[k[1]][r][jobs[k].refs[r]].sent + 1
      BY <1>1, <1>9, <2>1, <3>1
    <3> QED
      BY <3>1, <3>2
  <2>3. object(r, ok).sent = Meta(k, r).sent + 1
    BY <1>8, <2>1
  <2> QED
    BY <2>1, <2>2, <2>3
<1>14. Sends(k, ok, over)
  BY <1>9, <1>10, <1>12, <1>13 DEF Sends
<1> QED
  BY <1>5, <1>7, <1>11, <1>14, SendStep

LEMMA AppendEntry ==
  ASSUME NEW s \in Seq(Entries), NEW x \in Entries
  PROVE  /\ Append(s, x) \in Seq(Entries) /\ Len(Append(s, x)) = Len(s) + 1
         /\ DOMAIN Append(s, x) = 1 .. Len(s) + 1 /\ Append(s, x) # <<>>
         /\ \A i \in DOMAIN s : i \in DOMAIN Append(s, x) /\ Append(s, x)[i] = s[i] /\ i # Len(s) + 1
         /\ Append(s, x)[Len(s) + 1] = x
         /\ \A i \in DOMAIN Append(s, x) : i \in DOMAIN s \/ i = Len(s) + 1
<1>1. Len(s) \in Nat /\ DOMAIN s = 1 .. Len(s)
  BY LenProperties
<1>2. /\ Append(s, x) \in Seq(Entries) /\ Len(Append(s, x)) = Len(s) + 1
      /\ DOMAIN Append(s, x) = 1 .. Len(s) + 1
      /\ \A i \in 1 .. Len(s) : Append(s, x)[i] = s[i]
      /\ Append(s, x)[Len(s) + 1] = x
  BY AppendProperties, LenProperties
<1>3. Append(s, x) # <<>>
  BY <1>1, <1>2, EmptySeq
<1> QED
  BY <1>1, <1>2, <1>3

LEMMA NewEntry ==
  ASSUME NEW b \in BOOLEAN
  PROVE  /\ NewMeta(b) \in Entries /\ ~NewMeta(b).ready /\ ~NewMeta(b).late /\ NewMeta(b).sent = 0
         /\ NewMeta(b).sending = 0
BY DEF NewMeta, Entries

(* A pull is taken, and makes an entry for what is not tracked: an entry   *)
(* that was there before it can no longer be sent to this rank of D.       *)
LEMMA TakePullSource ==
  ASSUME DInv, SInv, NEW k \in DOMAIN jobs, TakePull(k)
  PROVE  SInv'
<1>1. TaskSound(k, jobs[k]) /\ DOMAIN jobs[k] = {"state", "todo", "now", "refs", "quit", "replies", "open"}
      /\ k[1] \in PRanks /\ k[2] \in ServedBy(k[1]) /\ k[3] \subseteq Requests
  BY JobFacts, JobRanks DEF SInv, TasksSound
<1>2. PICK new : new = k[3] \ tracked[k[1]]
  OBVIOUS
<1>3. PICK ms : ms = [r \in Requests |-> IF r \in new THEN Append(metas[k[1]][r], NewMeta(FALSE))
                                         ELSE metas[k[1]][r]]
  OBVIOUS
<1>4. PICK j : j = [jobs[k] EXCEPT !.state = "waiting", !.refs = [r \in k[3] |-> Len(ms[r])]]
  OBVIOUS
<1>5. /\ jobs[k].state = "queued" /\ With(k, j) /\ metas' = [metas EXCEPT ![k[1]] = ms]
      /\ tracked' = [tracked EXCEPT ![k[1]] = @ \cup new]
      /\ UNCHANGED <<net, dEngine, pEngine, sentReqs>>
  BY <1>2, <1>3, <1>4, SMTT(30) DEF TakePull
<1>6. /\ j.state = "waiting" /\ j.todo = k[3] /\ j.now = {} /\ j.refs = [r \in k[3] |-> Len(ms[r])]
      /\ jobs[k].todo = k[3]
  BY <1>1, <1>4, <1>5 DEF TaskSound
<1>7. /\ Requests' = Requests /\ PRanks' = PRanks
      /\ \A p : NeedSend(p)' = NeedSend(p)
  BY <1>5, SameRanks
<1>8. /\ \A p, r : ToEnter(p, r)' = ToEnter(p, r) /\ ToRecord(p, r)' = ToRecord(p, r)
      /\ \A r : Early(r)' = Early(r) /\ \A p : Reported(p, r)' = Reported(p, r)
      /\ UNCHANGED <<pst, pMeta, sentBy>>
  BY <1>5 DEF ToEnter, ToRecord, Early, Reported, pEngine
<1>9. metas \in [PRanks -> [Requests -> Seq(Entries)]] /\ tracked \in [PRanks -> SUBSET Requests]
  BY DEF SInv, STypes
<1>10. /\ new \subseteq Requests /\ tracked' \in [PRanks -> SUBSET Requests]
       /\ \A p \in PRanks : \A r : r \in tracked'[p] <=> r \in tracked[p] \/ (p = k[1] /\ r \in new)
  BY <1>1, <1>2, <1>5, <1>9
<1>11. ASSUME NEW p \in PRanks, NEW r \in Requests, p = k[1], r \in new
       PROVE  /\ metas'[p][r] \in Seq(Entries) /\ metas'[p][r] # <<>>
              /\ Len(metas'[p][r]) = Len(metas[p][r]) + 1
              /\ \A i \in DOMAIN metas[p][r] : /\ i \in DOMAIN metas'[p][r]
                                             /\ metas'[p][r][i] = metas[p][r][i]
                                             /\ i # Len(metas'[p][r])
              /\ ~metas'[p][r][Len(metas'[p][r])].ready /\ ~metas'[p][r][Len(metas'[p][r])].late
              /\ metas'[p][r][Len(metas'[p][r])].sent = 0
              /\ \A i \in DOMAIN metas'[p][r] : i \in DOMAIN metas[p][r] \/ i = Len(metas'[p][r])
  <2>1. metas'[p][r] = Append(metas[p][r], NewMeta(FALSE))
    BY <1>3, <1>5, <1>9, <1>11
  <2>2. PICK s \in Seq(Entries) : s = metas[p][r]
    BY <1>9
  <2>3. PICK x \in Entries : x = NewMeta(FALSE) /\ ~x.ready /\ ~x.late /\ x.sent = 0
    BY NewEntry
  <2>4. PICK t : t = Append(s, x)
    OBVIOUS
  <2>5. /\ t \in Seq(Entries) /\ Len(t) = Len(s) + 1 /\ t # <<>>
        /\ \A i \in DOMAIN s : i \in DOMAIN t /\ t[i] = s[i] /\ i # Len(s) + 1
        /\ t[Len(s) + 1] = x
        /\ \A i \in DOMAIN t : i \in DOMAIN s \/ i = Len(s) + 1
    BY <2>4, AppendEntry
  <2>6. metas'[p][r] = t
    BY <2>1, <2>2, <2>3, <2>4
  <2> QED
    BY <2>2, <2>3, <2>5, <2>6
<1>12. ASSUME NEW p \in PRanks, NEW r \in Requests, ~(p = k[1] /\ r \in new)
       PROVE  metas'[p][r] = metas[p][r]
  BY <1>3, <1>5, <1>9, <1>12
<1>13. ASSUME NEW p \in PRanks, NEW r \in Requests
       PROVE  /\ metas'[p][r] \in Seq(Entries)
              /\ \A i \in DOMAIN metas[p][r] :
                   i \in DOMAIN metas'[p][r] /\ metas'[p][r][i] = metas[p][r][i]
              /\ \A i \in DOMAIN metas'[p][r] :
                   \/ i \in DOMAIN metas[p][r]
                   \/ /\ ~metas'[p][r][i].ready /\ ~metas'[p][r][i].late
                      /\ metas'[p][r][i].sent = 0 /\ i = Len(metas'[p][r])
              /\ Len(metas'[p][r]) = Len(metas[p][r]) \/ (p = k[1] /\ r \in new)
  <2>2. CASE p = k[1] /\ r \in new
    <3>3. metas'[p][r] \in Seq(Entries)
      BY <1>11, <2>2
    <3>1. ASSUME NEW i \in DOMAIN metas[p][r]
          PROVE  i \in DOMAIN metas'[p][r] /\ metas'[p][r][i] = metas[p][r][i]
      BY <1>11, <2>2
    <3>2. ASSUME NEW i \in DOMAIN metas'[p][r], i \notin DOMAIN metas[p][r]
          PROVE  /\ ~metas'[p][r][i].ready /\ ~metas'[p][r][i].late
                 /\ metas'[p][r][i].sent = 0 /\ i = Len(metas'[p][r])
      BY <1>11, <2>2, <3>2
    <3> QED
      BY <2>2, <3>1, <3>2, <3>3
  <2>3. CASE ~(p = k[1] /\ r \in new)
    BY <1>9, <1>12, <2>3
  <2> QED
    BY <2>2, <2>3
<1>14. STypes' /\ Phased'
  <2>1. DOMAIN ms = Requests /\ ms = [r \in Requests |-> ms[r]]
    BY <1>3
  <2>2. \A p \in PRanks, r \in Requests : metas'[p][r] \in Seq(Entries)
    BY <1>13
  <2>3. metas' \in [PRanks -> [Requests -> Seq(Entries)]]
    BY <1>1, <1>5, <1>9, <2>1, <2>2, TableType
  <2> QED
    BY <1>5, <1>7, <1>8, <1>10, <2>3 DEF SInv, STypes, Phased, pEngine
<1>15. Entered'
  <2> SUFFICES ASSUME NEW p \in PRanks, NEW r \in Requests
               PROVE  /\ pst[r] \in {"running", "held"} /\ ~ToEnter(p, r) /\ ~Reported(p, r)
                           => r \in tracked'[p]
                      /\ r \in tracked'[p] => metas'[p][r] # <<>>
                      /\ Early(r) /\ r \notin tracked'[p] => metas'[p][r] = <<>>
    BY <1>7, <1>8 DEF Entered
  <2>1. /\ pst[r] \in {"running", "held"} /\ ~ToEnter(p, r) /\ ~Reported(p, r) => r \in tracked[p]
        /\ r \in tracked[p] => metas[p][r] # <<>>
        /\ Early(r) /\ r \notin tracked[p] => metas[p][r] = <<>>
    BY DEF SInv, Entered
  <2>2. CASE p = k[1] /\ r \in new
    <3>1. metas'[p][r] # <<>>
      BY <1>11, <2>2
    <3> QED
      BY <1>10, <2>1, <2>2, <3>1
  <2>3. CASE ~(p = k[1] /\ r \in new)
    BY <1>10, <1>12, <2>1, <2>3
  <2> QED
    BY <2>2, <2>3
<1>16. ReadySound'
  <2> SUFFICES ASSUME NEW p \in PRanks, NEW r \in Requests, NEW i \in DOMAIN metas'[p][r]
               PROVE  /\ metas'[p][r][i].ready => /\ pst[r] \in {"held", "gone"} /\ r \notin pMeta.new
                                                 /\ ~ToRecord(p, r)
                      /\ metas'[p][r][i].late => metas'[p][r][i].ready
    BY <1>7, <1>8 DEF ReadySound
  <2>1. CASE i \in DOMAIN metas[p][r]
    <3>1. metas'[p][r][i] = metas[p][r][i]
      BY <1>13, <2>1
    <3> QED
      BY <2>1, <3>1 DEF SInv, ReadySound
  <2>2. CASE i \notin DOMAIN metas[p][r]
    BY <1>13, <2>2
  <2> QED
    BY <2>1, <2>2
<1>17. ReportsSound'
  <2> SUFFICES ASSUME NEW p \in PRanks, NEW r \in Requests
               PROVE  /\ Reported(p, r) => pst[r] = "held" /\ ~ToRecord(p, r)
                      /\ ~(r \in sentReqs[p] /\ p \in sentBy[r])
                      /\ (Reported(p, r) \/ pst[r] = "gone") /\ r \in tracked'[p]
                           => ~Current(p, r)'.ready
    BY <1>5, <1>7, <1>8 DEF ReportsSound
  <2>1. /\ Reported(p, r) => pst[r] = "held" /\ ~ToRecord(p, r)
        /\ ~(r \in sentReqs[p] /\ p \in sentBy[r])
        /\ (Reported(p, r) \/ pst[r] = "gone") /\ r \in tracked[p] => ~Current(p, r).ready
    BY DEF SInv, ReportsSound
  <2>2. CASE p = k[1] /\ r \in new
    <3>1. ~Current(p, r)'.ready
      BY <1>11, <2>2 DEF Current
    <3> QED
      BY <2>1, <3>1
  <2>3. CASE ~(p = k[1] /\ r \in new)
    <3>1. Current(p, r)' = Current(p, r)
      BY <1>12, <2>3 DEF Current
    <3> QED
      BY <1>10, <2>1, <2>3, <3>1
  <2> QED
    BY <2>2, <2>3
<1>18. ASSUME NEW l \in DOMAIN jobs'
       PROVE  l \in DOMAIN jobs /\ jobs'[l] = IF l = k THEN j ELSE jobs[l]
  BY <1>5, WithFacts
<1>19. TasksSound'
  <2> SUFFICES ASSUME NEW l \in DOMAIN jobs' PROVE TaskSound(l, jobs[l])'
    BY DEF TasksSound
  <2>1. CASE l = k
    <3>1. \A r \in k[3] : j.refs[r] \in DOMAIN metas'[k[1]][r]
      <4> SUFFICES ASSUME NEW r \in k[3] PROVE Len(ms[r]) \in DOMAIN metas'[k[1]][r]
        BY <1>6
      <4>1. ms[r] = metas'[k[1]][r] /\ r \in Requests
        BY <1>1, <1>5, <1>9
      <4>2. r \in tracked'[k[1]]
        BY <1>1, <1>2, <1>10
      <4>3. metas'[k[1]][r] # <<>>
        BY <1>1, <1>7, <1>15, <4>1, <4>2 DEF Entered
      <4> QED
        BY <1>1, <1>13, <4>1, <4>3, EmptySeq, LenProperties
    <3> QED
      BY <1>6, <1>18, <2>1, <3>1 DEF TaskSound
  <2>2. CASE l # k
    <3>1. /\ jobs'[l] = jobs[l] /\ TaskSound(l, jobs[l]) /\ l[1] \in PRanks /\ l[3] \subseteq Requests
          /\ jobs[l].todo \cup jobs[l].now \subseteq l[3]
      BY <1>18, <2>2, JobFacts, JobRanks DEF SInv, TasksSound
    <3>2. jobs[l].state \in {"waiting", "sending"} =>
            \A r \in jobs[l].todo \cup jobs[l].now :
              /\ jobs[l].refs[r] \in DOMAIN metas'[l[1]][r]
              /\ metas'[l[1]][r][jobs[l].refs[r]] = metas[l[1]][r][jobs[l].refs[r]]
      <4> SUFFICES ASSUME jobs[l].state \in {"waiting", "sending"},
                          NEW r \in jobs[l].todo \cup jobs[l].now
                   PROVE  /\ jobs[l].refs[r] \in DOMAIN metas'[l[1]][r]
                          /\ metas'[l[1]][r][jobs[l].refs[r]] = metas[l[1]][r][jobs[l].refs[r]]
        OBVIOUS
      <4>1. jobs[l].refs[r] \in DOMAIN metas[l[1]][r] /\ r \in Requests
        BY <3>1 DEF TaskSound
      <4> QED
        BY <1>13, <3>1, <4>1
    <3>3. TaskSound(l, jobs[l]) /\ jobs'[l] = jobs[l]
      BY <3>1
    <3> QED
      BY <3>2, <3>3 DEF TaskSound
  <2> QED
    BY <2>1, <2>2
<1>20. \A r, i : Comes(j, r, i) => Comes(jobs[k], r, i)
  BY <1>5, <1>6 DEF Comes
<1>21. \A p, r, i : InHand(p, r, i)' \subseteq InHand(p, r, i)
  BY <1>5, <1>20, JobHands
<1>22. Counts'
  <2> SUFFICES ASSUME NEW p \in PRanks, NEW r \in Requests, NEW i \in DOMAIN metas'[p][r]
               PROVE  Fits(p, i, Len(metas'[p][r]), metas'[p][r][i], InHand(p, r, i)')
    BY <1>7 DEF Counts, Fits
  <2>1. /\ IsFiniteSet(InHand(p, r, i)) /\ NeedSend(p) \in Nat
        /\ Cardinality(InHand(p, r, i)) \in Nat /\ Cardinality(InHand(p, r, i)) <= NeedSend(p)
    BY HandFacts DEF DInv, DTypes
  <2>2. InHand(p, r, i)' \subseteq InHand(p, r, i)
    BY <1>21
  <2>3. CASE i \in DOMAIN metas[p][r]
    <3>1. /\ Fits(p, i, Len(metas[p][r]), metas[p][r][i], InHand(p, r, i))
          /\ metas'[p][r][i] = metas[p][r][i] /\ metas[p][r][i].sent \in Nat
      <4>1. metas'[p][r][i] = metas[p][r][i]
        BY <1>13, <2>3
      <4>2. Fits(p, i, Len(metas[p][r]), metas[p][r][i], InHand(p, r, i))
        BY <2>3 DEF SInv, Counts
      <4>3. metas[p][r][i].sent \in Nat
        BY <2>3, EntryTypes DEF SInv
      <4> QED
        BY <4>1, <4>2, <4>3
    <3>2. CASE Len(metas'[p][r]) = Len(metas[p][r])
      BY <2>1, <2>2, <3>1, <3>2, FewerFit
    <3>3. CASE p = k[1] /\ r \in new
      <4>1. r \in k[3] /\ k[2] \in InHand(p, r, i)
        BY <1>1, <1>2, <1>5, <1>6, <3>3 DEF InHand, Comes
      <4>2. ~ToPull(k[2], r)'
        BY <1>5, <4>1, OwnPull DEF ToPull, D, dEngine, Requests
      <4>3. ASSUME NEW l \in DOMAIN jobs', l[1] = p, l[2] = k[2], Comes(jobs'[l], r, i) PROVE FALSE
        <5>1. l # k
          <6>1. ASSUME l = k PROVE FALSE
            <7>1. j.refs[r] = i
              BY <1>6, <1>18, <4>3, <6>1 DEF Comes
            <7>2. j.refs[r] = Len(ms[r]) /\ ms[r] = metas'[p][r]
              BY <1>5, <1>6, <1>9, <3>3, <4>1
            <7>3. i # Len(metas'[p][r])
              BY <1>11, <2>3, <3>3
            <7> QED
              BY <7>1, <7>2, <7>3
          <6> QED
            BY <6>1
        <5>2. r \in jobs[l].todo \cup jobs[l].now /\ l \in DOMAIN jobs
          BY <1>18, <4>3, <5>1 DEF Comes
        <5>3. r \in l[3]
          BY <5>2, JobFacts
        <5> QED
          BY <3>3, <4>1, <4>3, <5>1, <5>2, <5>3, OwnPull
      <4>4. k[2] \notin InHand(p, r, i)'
        BY <4>2, <4>3 DEF InHand, Comes
      <4>5. /\ IsFiniteSet(InHand(p, r, i) \ {k[2]})
            /\ Cardinality(InHand(p, r, i) \ {k[2]}) = Cardinality(InHand(p, r, i)) - 1
        BY <2>1, <4>1, FS_RemoveElement, SMTT(30)
      <4>6. InHand(p, r, i)' \subseteq InHand(p, r, i) \ {k[2]}
        BY <2>2, <4>4
      <4>7. /\ Cardinality(InHand(p, r, i)') \in Nat
            /\ Cardinality(InHand(p, r, i)') <= Cardinality(InHand(p, r, i) \ {k[2]})
        BY <4>5, <4>6, FS_Subset, FS_CardinalityType
      <4> QED
        BY <2>1, <3>1, <4>5, <4>7, SMTT(30) DEF Fits
    <3> QED
      BY <1>13, <3>2, <3>3
  <2>4. CASE i \notin DOMAIN metas[p][r]
    <3>1. metas'[p][r][i].sent = 0 /\ i = Len(metas'[p][r])
      BY <1>13, <2>4
    <3>2. /\ Cardinality(InHand(p, r, i)') \in Nat
          /\ Cardinality(InHand(p, r, i)') <= Cardinality(InHand(p, r, i))
      BY <2>1, <2>2, FS_Subset, FS_CardinalityType
    <3> QED
      BY <2>1, <3>1, <3>2 DEF Fits
  <2> QED
    BY <2>3, <2>4
<1> QED
  BY <1>14, <1>15, <1>16, <1>17, <1>19, <1>22 DEF SInv

LEMMA ServeSource ==
  ASSUME DInv, SInv, NEW k \in DOMAIN jobs, Serve(k) \/ Receive(k) \/ GiveUp(k)
  PROVE  SInv'
BY TakePullSource, AnswerSource, StartSendSource, EndSendSource DEF Serve

(* P's engine and its clock leave the pulls alone. *)
LEMMA EngineHands ==
  ASSUME UNCHANGED <<net, dEngine, jobs>>
  PROVE  \A p, r, i : InHand(p, r, i)' = InHand(p, r, i)
<1>1. \A d, r : ToPull(d, r)' = ToPull(d, r)
  BY DEF ToPull, D, dEngine, Requests
<1>2. \A p : ServedBy(p)' = ServedBy(p)
  BY SameRanks
<1> QED
  BY <1>1, <1>2 DEF InHand, Comes

LEMMA EntriesFrame ==
  ASSUME SInv, UNCHANGED <<net, dEngine, jobs, metas>>
  PROVE  Counts' /\ TasksSound'
<1>1. \A p, r, i : InHand(p, r, i)' = InHand(p, r, i)
  BY EngineHands
<1>2. Counts'
  BY <1>1, SameRanks DEF SInv, Counts, Fits
<1>3. TasksSound'
  BY DEF SInv, TasksSound, TaskSound
<1> QED
  BY <1>2, <1>3

(* The entry of what is tracked. *)
LEMMA CurrentEntry ==
  ASSUME SInv, NEW p \in PRanks, NEW r \in tracked[p]
  PROVE  /\ r \in Requests /\ Len(metas[p][r]) \in DOMAIN metas[p][r]
         /\ Current(p, r) = metas[p][r][Len(metas[p][r])]
         /\ Current(p, r).ready => pst[r] \in {"held", "gone"} /\ r \notin pMeta.new /\ ~ToRecord(p, r)
         /\ Current(p, r).late => Current(p, r).ready
<1>1. r \in Requests
  BY DEF SInv, STypes
<1>2. Len(metas[p][r]) \in DOMAIN metas[p][r]
  BY <1>1, EntryTypes DEF SInv, Entered
<1> QED
  BY <1>1, <1>2 DEF SInv, ReadySound, Current

LEMMA PScheduleSource ==
  ASSUME SInv, PSchedule
  PROVE  SInv'
<1>1. PICK admit \in SUBSET P({"waiting"}), preempt \in SUBSET P({"running"}) :
        /\ preempt # {} => admit = {}
        /\ pst' = Moved(Moved(pst, admit, "running"), preempt, "waiting")
        /\ pMeta' = [new |-> admit, blocks |-> pDone, drop |-> pDrop]
        /\ pPhase' = IF admit \cup pDone \cup pDrop = {} THEN "fetch" ELSE "record"
  BY DEF PSchedule
<1>2. /\ pPhase = "idle" /\ pDone' = {} /\ pDrop' = {} /\ pLeft' = PRanks
      /\ UNCHANGED <<net, sentBy, tracked, metas, sentReqs, dEngine, receiver, jobs, written>>
  BY DEF PSchedule, sender
<1>3. Requests' = Requests /\ PRanks' = PRanks
  BY <1>2, SameRanks
<1>4. pst \in [Requests -> PStates]
  BY DEF SInv, STypes
<1>5. /\ admit \subseteq Requests /\ preempt \subseteq Requests
      /\ \A r \in admit : pst[r] = "waiting"
      /\ \A r \in preempt : pst[r] = "running"
  BY DEF P
<1>6. /\ pst' \in [Requests -> PStates]
      /\ \A r \in Requests : pst'[r] = IF r \in preempt THEN "waiting"
                                        ELSE IF r \in admit THEN "running" ELSE pst[r]
  BY <1>1, <1>4 DEF Moved, PStates
<1>7. STypes'
  BY <1>1, <1>2, <1>3, <1>5, <1>6 DEF SInv, STypes
<1>8. Phased'
  <2>1. pMeta'.new = admit /\ pMeta'.blocks = pDone /\ pMeta'.drop = pDrop /\ pPhase' # "idle"
    BY <1>1
  <2>2. pDone \subseteq Requests /\ pDrop \subseteq Requests
    BY DEF SInv, STypes
  <2>3. /\ \A r \in pDone : pst[r] = "held"
        /\ \A r \in pDrop : pst[r] = "gone"
    BY DEF SInv, Phased
  <2>4. \A r \in admit : pst'[r] = "running"
    BY <1>5, <1>6
  <2> QED
    BY <1>2, <1>5, <1>6, <2>1, <2>2, <2>3, <2>4 DEF Phased
<1>9. \A p \in PRanks, r \in Requests : Reported(p, r)' = Reported(p, r)
  BY <1>2 DEF Reported
<1>10. \A p \in PRanks : \A r : ToRecord(p, r)' <=> ToRecord(p, r)
  BY <1>1, <1>2 DEF ToRecord
<1>11. Entered'
  <2> SUFFICES ASSUME NEW p \in PRanks, NEW r \in Requests
               PROVE  /\ pst'[r] \in {"running", "held"} /\ ~ToEnter(p, r)' /\ ~Reported(p, r)
                           => r \in tracked[p]
                      /\ r \in tracked[p] => metas[p][r] # <<>>
                      /\ Early(r)' /\ r \notin tracked[p] => metas[p][r] = <<>>
    BY <1>2, <1>3, <1>9 DEF Entered
  <2>1. /\ pst[r] \in {"running", "held"} /\ ~ToEnter(p, r) /\ ~Reported(p, r) => r \in tracked[p]
        /\ r \in tracked[p] => metas[p][r] # <<>>
        /\ Early(r) /\ r \notin tracked[p] => metas[p][r] = <<>>
    BY DEF SInv, Entered
  <2>2. ~ToEnter(p, r)
    BY <1>2 DEF ToEnter
  <2>3. r \in admit => ToEnter(p, r)'
    BY <1>1, <1>2 DEF ToEnter
  <2>4. Early(r)' => Early(r)
    BY <1>1, <1>5, <1>6 DEF Early
  <2> QED
    BY <1>5, <1>6, <2>1, <2>2, <2>3, <2>4
<1>12. ReadySound'
  <2> SUFFICES ASSUME NEW p \in PRanks, NEW r \in Requests, NEW i \in DOMAIN metas[p][r]
               PROVE  /\ metas[p][r][i].ready => /\ pst'[r] \in {"held", "gone"} /\ r \notin pMeta'.new
                                                /\ ~ToRecord(p, r)
                      /\ metas[p][r][i].late => metas[p][r][i].ready
    BY <1>2, <1>3, <1>10 DEF ReadySound
  <2>1. pMeta'.new = admit
    BY <1>1
  <2> QED
    BY <1>5, <1>6, <2>1 DEF SInv, ReadySound
<1>13. ReportsSound'
  <2> SUFFICES ASSUME NEW p \in PRanks, NEW r \in Requests
               PROVE  /\ Reported(p, r) => pst'[r] = "held" /\ ~ToRecord(p, r)
                      /\ ~(r \in sentReqs[p] /\ p \in sentBy[r])
                      /\ (Reported(p, r) \/ pst'[r] = "gone") /\ r \in tracked[p]
                           => ~Current(p, r).ready
    BY <1>2, <1>3, <1>9, <1>10 DEF ReportsSound, Current
  <2> QED
    BY <1>5, <1>6 DEF SInv, ReportsSound
<1> QED
  BY <1>2, <1>7, <1>8, <1>11, <1>12, <1>13, EntriesFrame DEF SInv

(* The ranks that have a phase before them. *)
LEMMA NextRank ==
  ASSUME STypes, NEW p \in PRanks, NEW after, NEW last \in SUBSET PRanks, PNext(p, after, last),
         after # "record", UNCHANGED <<pDone, pMeta>>, pPhase # after
  PROVE  /\ pPhase' \in {pPhase, after} /\ pLeft' \subseteq PRanks /\ p \in pLeft
         /\ \A q, r : ToEnter(q, r)' <=> ToEnter(q, r) /\ q # p
         /\ \A q, r : ToRecord(q, r)' <=> r \in pDone \/ (ToRecord(q, r) /\ q # p)
<1>1. pLeft \subseteq PRanks
  BY DEF STypes
<1>2. CASE pLeft = {p} /\ pPhase' = after /\ pLeft' = last
  BY <1>1, <1>2 DEF PNext, ToEnter, ToRecord
<1>3. CASE pLeft # {p} /\ pLeft' = pLeft \ {p} /\ pPhase' = pPhase
  BY <1>1, <1>3 DEF PNext, ToEnter, ToRecord
<1> QED
  BY <1>2, <1>3 DEF PNext

LEMMA FetchSentSource ==
  ASSUME SInv, NEW p0 \in PRanks, FetchSent(p0)
  PROVE  SInv'
<1>1. PICK expired : expired = Expired(p0)
  OBVIOUS
<1>2. /\ pPhase = "fetch" /\ PNext(p0, "update", {})
      /\ sentReqs' = [sentReqs EXCEPT ![p0] = {}]
      /\ tracked' = [tracked EXCEPT ![p0] = tracked[p0] \ expired]
      /\ sentBy' = [r \in Requests |-> IF r \in sentReqs[p0] \cup expired THEN sentBy[r] \cup {p0}
                                       ELSE sentBy[r]]
      /\ UNCHANGED <<net, pst, pDone, pDrop, pMeta, metas, dEngine, receiver, jobs, written>>
  BY <1>1 DEF FetchSent, Kept
<1>3. Requests' = Requests /\ PRanks' = PRanks
  BY <1>2, SameRanks
<1>4. /\ pPhase' \in {"fetch", "update"} /\ pLeft' \subseteq PRanks
      /\ \A q, r : ToEnter(q, r)' <=> ToEnter(q, r) /\ q # p0
      /\ \A q, r : ToRecord(q, r)' <=> r \in pDone \/ (ToRecord(q, r) /\ q # p0)
  BY <1>2, NextRank DEF SInv
<1>5. \A q, r : ~ToEnter(q, r) /\ ~ToRecord(q, r) /\ ~ToRecord(q, r)' /\ ~ToEnter(q, r)'
  BY <1>2, <1>4 DEF ToEnter, ToRecord, SInv, Phased
<1>6. /\ tracked \in [PRanks -> SUBSET Requests] /\ sentReqs \in [PRanks -> SUBSET Requests]
      /\ sentBy \in [Requests -> SUBSET PRanks]
  BY DEF SInv, STypes
<1>7. ASSUME NEW r \in expired
      PROVE  /\ r \in tracked[p0] /\ r \in Requests /\ pst[r] = "held" /\ ~Early(r)
             /\ ~Reported(p0, r)
  <2>1. r \in tracked[p0] /\ Current(p0, r).late
    BY <1>1, <1>7 DEF Expired
  <2>2. /\ r \in Requests /\ Current(p0, r).ready /\ pst[r] \in {"held", "gone"} /\ r \notin pMeta.new
    BY <2>1, CurrentEntry
  <2> QED
    BY <2>1, <2>2 DEF SInv, ReportsSound, Early
<1>8. STypes' /\ Phased'
  <2>1. sentBy' \in [Requests -> SUBSET PRanks]
    BY <1>2, <1>6
  <2>2. tracked' \in [PRanks -> SUBSET Requests] /\ sentReqs' \in [PRanks -> SUBSET Requests]
    BY <1>2, <1>6
  <2>3. STypes'
    BY <1>2, <1>3, <1>4, <2>1, <2>2 DEF SInv, STypes
  <2>4. Phased'
    BY <1>2, <1>3, <1>4 DEF SInv, Phased
  <2> QED
    BY <2>3, <2>4
<1>9. ASSUME NEW p \in PRanks, NEW r \in Requests
      PROVE  /\ r \in tracked'[p] <=> r \in tracked[p] /\ ~(p = p0 /\ r \in expired)
             /\ r \in sentReqs'[p] <=> r \in sentReqs[p] /\ p # p0
             /\ p \in sentBy'[r] <=> p \in sentBy[r] \/ (p = p0 /\ r \in sentReqs[p0] \cup expired)
  BY <1>2, <1>6
<1>10. \A p \in PRanks, r \in Requests : Reported(p, r)' <=> Reported(p, r) \/ (p = p0 /\ r \in expired)
  BY <1>9 DEF Reported
<1>11. Entered'
  <2> SUFFICES ASSUME NEW p \in PRanks, NEW r \in Requests
               PROVE  /\ pst[r] \in {"running", "held"} /\ ~Reported(p, r)' => r \in tracked'[p]
                      /\ r \in tracked'[p] => metas[p][r] # <<>>
                      /\ Early(r) /\ r \notin tracked'[p] => metas[p][r] = <<>>
    BY <1>2, <1>3 DEF Entered, Early
  <2>1. /\ pst[r] \in {"running", "held"} /\ ~ToEnter(p, r) /\ ~Reported(p, r) => r \in tracked[p]
        /\ r \in tracked[p] => metas[p][r] # <<>>
        /\ Early(r) /\ r \notin tracked[p] => metas[p][r] = <<>>
    BY DEF SInv, Entered
  <2> QED
    BY <1>5, <1>7, <1>9, <1>10, <2>1
<1>12. ReadySound'
  BY <1>2, <1>3, <1>5 DEF SInv, ReadySound
<1>13. ReportsSound'
  <2> SUFFICES ASSUME NEW p \in PRanks, NEW r \in Requests
               PROVE  /\ Reported(p, r)' => pst[r] = "held" /\ ~ToRecord(p, r)'
                      /\ ~(r \in sentReqs'[p] /\ p \in sentBy'[r])
                      /\ (Reported(p, r)' \/ pst[r] = "gone") /\ r \in tracked'[p]
                           => ~Current(p, r).ready
    BY <1>2, <1>3 DEF ReportsSound, Current
  <2>1. /\ Reported(p, r) => pst[r] = "held" /\ ~ToRecord(p, r)
        /\ ~(r \in sentReqs[p] /\ p \in sentBy[r])
        /\ (Reported(p, r) \/ pst[r] = "gone") /\ r \in tracked[p] => ~Current(p, r).ready
    BY DEF SInv, ReportsSound
  <2> QED
    BY <1>5, <1>7, <1>9, <1>10, <2>1
<1> QED
  BY <1>2, <1>8, <1>11, <1>12, <1>13, EntriesFrame DEF SInv

(* Who is freed was reported by every rank, and by each of them once. *)
LEMMA OverFacts ==
  ASSUME DInv, SInv, NEW r \in SendingOver
  PROVE  /\ r \in Requests /\ pst[r] = "held"
         /\ \A p \in PRanks : Reported(p, r) /\ r \notin sentReqs[p]
<1>1. r \in Requests /\ sentBy[r] = PRanks
  BY DEF SendingOver
<1>2. \A p \in PRanks : Reported(p, r) /\ r \notin sentReqs[p]
  BY <1>1 DEF Reported, SInv, ReportsSound
<1>3. PRanks # {}
  BY HandFacts DEF DInv, DTypes
<1> QED
  BY <1>1, <1>2, <1>3 DEF SInv, ReportsSound

LEMMA PUpdateSource ==
  ASSUME DInv, SInv, PUpdate
  PROVE  SInv'
<1>1. PICK done \in SUBSET P({"running"}) :
        /\ pst' = Moved(Moved(pst, done, "held"), SendingOver, "gone")
        /\ pDone' = pDone \cup done
        /\ sentBy' = [r \in Requests |-> IF r \in SendingOver THEN {} ELSE sentBy[r]]
  BY DEF PUpdate
<1>2. /\ pPhase = "update" /\ pPhase' = "idle" /\ pMeta' = [new |-> {}, blocks |-> {}, drop |-> {}]
      /\ UNCHANGED <<net, pLeft, pDrop, tracked, metas, sentReqs, dEngine, jobs>>
  BY DEF PUpdate, sender
<1>3. Requests' = Requests /\ PRanks' = PRanks
  BY <1>2, SameRanks
<1>4. pst \in [Requests -> PStates] /\ sentBy \in [Requests -> SUBSET PRanks]
  BY DEF SInv, STypes
<1>5. done \subseteq Requests /\ \A r \in done : pst[r] = "running"
  BY DEF P
<1>6. \A r \in SendingOver : r \in Requests /\ pst[r] = "held" /\ \A p \in PRanks : r \notin sentReqs[p]
  BY OverFacts
<1>7. /\ pst' \in [Requests -> PStates]
      /\ \A r \in Requests : pst'[r] = IF r \in SendingOver THEN "gone"
                                        ELSE IF r \in done THEN "held" ELSE pst[r]
  BY <1>1, <1>4 DEF Moved, PStates
<1>8. pDone = {} /\ pDone' = done
  BY <1>1, <1>2 DEF SInv, Phased
<1>9. /\ \A p, r : ~ToEnter(p, r) /\ ~ToEnter(p, r)' /\ (ToRecord(p, r)' <=> r \in done)
      /\ \A p, r : ~ToRecord(p, r)
  BY <1>2, <1>8 DEF ToEnter, ToRecord
<1>10. \A p \in PRanks, r \in Requests : Reported(p, r)' <=> Reported(p, r) /\ r \notin SendingOver
  BY <1>1, <1>2, <1>6 DEF Reported
<1>11. STypes'
  BY <1>1, <1>2, <1>3, <1>4, <1>5, <1>7, <1>8 DEF SInv, STypes
<1>12. Phased'
  <2>1. \A r \in done : pst'[r] = "held"
    BY <1>5, <1>6, <1>7
  <2>2. \A r \in pDrop : pst'[r] = "gone"
    BY <1>5, <1>7 DEF SInv, Phased, STypes
  <2> QED
    BY <1>2, <1>8, <2>1, <2>2 DEF Phased
<1>13. Entered'
  <2> SUFFICES ASSUME NEW p \in PRanks, NEW r \in Requests
               PROVE  /\ pst'[r] \in {"running", "held"} /\ ~Reported(p, r)' => r \in tracked[p]
                      /\ r \in tracked[p] => metas[p][r] # <<>>
                      /\ pst'[r] \in {"waiting", "running"} /\ r \notin tracked[p] => metas[p][r] = <<>>
    BY <1>2, <1>3 DEF Entered, Early
  <2>1. /\ pst[r] \in {"running", "held"} /\ ~ToEnter(p, r) /\ ~Reported(p, r) => r \in tracked[p]
        /\ r \in tracked[p] => metas[p][r] # <<>>
        /\ Early(r) /\ r \notin tracked[p] => metas[p][r] = <<>>
    BY DEF SInv, Entered
  <2>2. pst'[r] \in {"waiting", "running"} => Early(r)
    BY <1>7 DEF Early
  <2>3. pst'[r] \in {"running", "held"} => pst[r] \in {"running", "held"} /\ r \notin SendingOver
    BY <1>5, <1>7
  <2> QED
    BY <1>9, <1>10, <2>1, <2>2, <2>3
<1>14. ReadySound'
  <2> SUFFICES ASSUME NEW p \in PRanks, NEW r \in Requests, NEW i \in DOMAIN metas[p][r]
               PROVE  /\ metas[p][r][i].ready => pst'[r] \in {"held", "gone"} /\ r \notin done
                      /\ metas[p][r][i].late => metas[p][r][i].ready
    BY <1>2, <1>3, <1>9 DEF ReadySound
  <2> QED
    BY <1>5, <1>7 DEF SInv, ReadySound
<1>15. ReportsSound'
  <2> SUFFICES ASSUME NEW p \in PRanks, NEW r \in Requests
               PROVE  /\ Reported(p, r)' => pst'[r] = "held" /\ r \notin done
                      /\ ~(r \in sentReqs[p] /\ p \in sentBy'[r])
                      /\ (Reported(p, r)' \/ pst'[r] = "gone") /\ r \in tracked[p]
                           => ~Current(p, r).ready
    BY <1>2, <1>3, <1>9 DEF ReportsSound, Current
  <2>1. /\ Reported(p, r) => pst[r] = "held" /\ ~ToRecord(p, r)
        /\ ~(r \in sentReqs[p] /\ p \in sentBy[r])
        /\ (Reported(p, r) \/ pst[r] = "gone") /\ r \in tracked[p] => ~Current(p, r).ready
    BY DEF SInv, ReportsSound
  <2>2. r \in SendingOver => Reported(p, r)
    BY OverFacts
  <2> QED
    BY <1>1, <1>5, <1>7, <1>10, <2>1, <2>2
<1> QED
  BY <1>2, <1>11, <1>12, <1>13, <1>14, <1>15, EntriesFrame DEF SInv

LEMMA PAbortSource ==
  ASSUME DInv, SInv, NEW r0 \in net.aborts, PAbort(r0)
  PROVE  SInv'
<1>1. /\ r0 \in Requests /\ pst[r0] \in {"waiting", "running"}
      /\ pst' = [pst EXCEPT ![r0] = "gone"] /\ pDrop' = pDrop \cup {r0}
      /\ UNCHANGED <<net, pPhase, pLeft, pDone, pMeta, sentBy, tracked, metas, sentReqs, dEngine, jobs>>
  BY RankFacts DEF PAbort, sender, DInv, DTypes
<1>2. Requests' = Requests /\ PRanks' = PRanks
  BY <1>1, SameRanks
<1>3. pst \in [Requests -> PStates]
  BY DEF SInv, STypes
<1>4. /\ pst' \in [Requests -> PStates]
      /\ \A r \in Requests : pst'[r] = IF r = r0 THEN "gone" ELSE pst[r]
  BY <1>1, <1>3 DEF PStates
<1>5. /\ \A p, r : ToEnter(p, r)' = ToEnter(p, r) /\ ToRecord(p, r)' = ToRecord(p, r)
      /\ \A p, r : Reported(p, r)' = Reported(p, r)
  BY <1>1 DEF ToEnter, ToRecord, Reported
<1>6. STypes'
  BY <1>1, <1>2, <1>4 DEF SInv, STypes
<1>7. Phased'
  <2>1. /\ pDone \cup pMeta.blocks \subseteq Requests /\ pMeta.new \subseteq Requests
        /\ pDrop \cup pMeta.drop \subseteq Requests
    BY DEF SInv, STypes
  <2>2. /\ \A r \in pMeta.new : pst'[r] \in {"running", "gone"}
        /\ \A r \in pDone \cup pMeta.blocks : pst'[r] = "held"
        /\ \A r \in pDrop' \cup pMeta.drop : pst'[r] = "gone"
    BY <1>1, <1>4, <2>1 DEF SInv, Phased
  <2> QED
    BY <1>1, <2>2 DEF SInv, Phased
<1>8. Entered'
  <2>1. \A r \in Requests : /\ Early(r)' => Early(r)
                            /\ pst'[r] \in {"running", "held"} => pst[r] \in {"running", "held"}
    BY <1>1, <1>4 DEF Early
  <2> QED
    BY <1>1, <1>2, <1>5, <2>1 DEF SInv, Entered
<1>9. ReadySound'
  <2>1. \A r \in Requests : pst[r] \in {"held", "gone"} => pst'[r] \in {"held", "gone"}
    BY <1>4
  <2> QED
    BY <1>1, <1>2, <1>5, <2>1 DEF SInv, ReadySound
<1>10. ReportsSound'
  <2> SUFFICES ASSUME NEW p \in PRanks, NEW r \in Requests
               PROVE  /\ Reported(p, r) => pst'[r] = "held" /\ ~ToRecord(p, r)
                      /\ ~(r \in sentReqs[p] /\ p \in sentBy[r])
                      /\ (Reported(p, r) \/ pst'[r] = "gone") /\ r \in tracked[p]
                           => ~Current(p, r).ready
    BY <1>1, <1>2, <1>5 DEF ReportsSound, Current
  <2>1. /\ Reported(p, r) => pst[r] = "held" /\ ~ToRecord(p, r)
        /\ ~(r \in sentReqs[p] /\ p \in sentBy[r])
        /\ (Reported(p, r) \/ pst[r] = "gone") /\ r \in tracked[p] => ~Current(p, r).ready
    BY DEF SInv, ReportsSound
  <2>2. r = r0 /\ r \in tracked[p] => ~Current(p, r).ready
    BY <1>1, CurrentEntry
  <2> QED
    BY <1>1, <1>4, <2>1, <2>2
<1> QED
  BY <1>1, <1>6, <1>7, <1>8, <1>9, <1>10, EntriesFrame DEF SInv

LEMMA ExpireSource ==
  ASSUME DInv, SInv, NEW p0 \in PRanks, NEW r0 \in Requests, Expire(p0, r0)
  PROVE  SInv'
<1>1. PICK n : n = Len(metas[p0][r0])
  OBVIOUS
<1>2. /\ r0 \in tracked[p0] /\ Current(p0, r0).ready
      /\ metas' = [metas EXCEPT ![p0][r0][n].late = TRUE]
      /\ UNCHANGED <<net, pEngine, tracked, sentReqs, dEngine, receiver, jobs, written>>
  BY <1>1 DEF Expire
<1>3. n \in DOMAIN metas[p0][r0] /\ metas[p0][r0][n] \in Entries /\ metas[p0][r0][n].ready
  BY <1>1, <1>2, CurrentEntry, EntryTypes DEF SInv
<1>4. PICK x : x = [metas[p0][r0][n] EXCEPT !.late = TRUE]
  OBVIOUS
<1>5. x \in Entries /\ x.ready /\ x.sent = metas[p0][r0][n].sent
  BY <1>3, <1>4 DEF Entries
<1>6. metas \in [PRanks -> [Requests -> Seq(Entries)]]
  BY DEF SInv, STypes
<1>7. PICK t : t = [metas[p0][r0] EXCEPT ![n] = x]
  OBVIOUS
<1>8. metas' = [metas EXCEPT ![p0] = [metas[p0] EXCEPT ![r0] = t]]
  BY <1>2, <1>4, <1>6, <1>7
<1>9. /\ t \in Seq(Entries) /\ Len(t) = Len(metas[p0][r0])
      /\ \A i \in DOMAIN metas[p0][r0] : t[i] = IF i = n THEN x ELSE metas[p0][r0][i]
  BY <1>3, <1>5, <1>6, <1>7, EntryChange
<1>10. metas' \in [PRanks -> [Requests -> Seq(Entries)]]
  BY <1>6, <1>8, <1>9
<1>11. ASSUME NEW p \in PRanks, NEW r \in Requests
       PROVE  /\ Len(metas'[p][r]) = Len(metas[p][r]) /\ DOMAIN metas'[p][r] = DOMAIN metas[p][r]
              /\ \A i \in DOMAIN metas[p][r] :
                   /\ metas'[p][r][i].ready = metas[p][r][i].ready
                   /\ metas'[p][r][i].sent = metas[p][r][i].sent
                   /\ metas'[p][r][i].late => metas[p][r][i].late \/ metas[p][r][i].ready
              /\ metas'[p][r] = <<>> <=> metas[p][r] = <<>>
  <2>1. metas[p][r] \in Seq(Entries)
    BY <1>6
  <2>2. CASE p = p0 /\ r = r0
    <3>1. metas'[p][r] = t
      BY <1>6, <1>8, <2>2
    <3>2. DOMAIN t = DOMAIN metas[p][r] /\ (t = <<>> <=> metas[p][r] = <<>>)
      BY <1>9, <2>1, <2>2, LenProperties, EmptySeq
    <3>3. ASSUME NEW i \in DOMAIN metas[p][r]
          PROVE  /\ t[i].ready = metas[p][r][i].ready /\ t[i].sent = metas[p][r][i].sent
                 /\ t[i].late => metas[p][r][i].late \/ metas[p][r][i].ready
      <4>1. CASE i = n
        <5>1. t[i] = x
          BY <1>3, <1>9, <4>1
        <5> QED
          BY <1>3, <1>5, <2>2, <4>1, <5>1
      <4>2. CASE i # n
        <5>1. t[i] = metas[p][r][i]
          BY <1>9, <2>2, <4>2
        <5> QED
          BY <5>1
      <4> QED
        BY <4>1, <4>2
    <3>4. Len(t) = Len(metas[p][r])
      BY <1>9, <2>2
    <3> QED
      BY <3>1, <3>2, <3>3, <3>4
  <2>3. CASE ~(p = p0 /\ r = r0)
    <3>1. metas'[p][r] = metas[p][r]
      BY <1>6, <1>8, <2>3
    <3> QED
      BY <3>1
  <2> QED
    BY <2>2, <2>3
<1>12. /\ Requests' = Requests /\ PRanks' = PRanks
       /\ \A p : NeedSend(p)' = NeedSend(p)
  BY <1>2, SameRanks
<1>13. /\ \A p, r : ToEnter(p, r)' = ToEnter(p, r) /\ ToRecord(p, r)' = ToRecord(p, r)
       /\ \A r : Early(r)' = Early(r) /\ \A p : Reported(p, r)' = Reported(p, r)
       /\ UNCHANGED <<pst, pMeta, sentBy>>
  BY <1>2 DEF ToEnter, ToRecord, Early, Reported, pEngine
<1>14. STypes' /\ Phased'
  BY <1>2, <1>10, <1>12 DEF SInv, STypes, Phased, pEngine
<1>15. Entered'
  BY <1>2, <1>11, <1>12, <1>13 DEF SInv, Entered
<1>16. ReadySound'
  BY <1>11, <1>12, <1>13 DEF SInv, ReadySound
<1>17. ReportsSound'
  <2>1. \A p \in PRanks : \A r \in tracked[p] : Current(p, r)'.ready = Current(p, r).ready
    <3> SUFFICES ASSUME NEW p \in PRanks, NEW r \in tracked[p]
                 PROVE  Current(p, r)'.ready = Current(p, r).ready
      OBVIOUS
    <3>1. r \in Requests /\ Len(metas[p][r]) \in DOMAIN metas[p][r]
      BY CurrentEntry
    <3> QED
      BY <1>11, <3>1 DEF Current
  <2> QED
    BY <1>2, <1>12, <1>13, <2>1 DEF SInv, ReportsSound
<1>18. Counts'
  <2>1. \A p, r, i : InHand(p, r, i)' = InHand(p, r, i)
    BY <1>2, EngineHands
  <2> QED
    BY <1>11, <1>12, <2>1 DEF SInv, Counts, Fits
<1>19. TasksSound'
  <2> SUFFICES ASSUME NEW l \in DOMAIN jobs PROVE TaskSound(l, jobs[l])'
    BY <1>2 DEF TasksSound
  <2>1. /\ TaskSound(l, jobs[l]) /\ l[1] \in PRanks /\ l[3] \subseteq Requests
        /\ jobs[l].todo \cup jobs[l].now \subseteq l[3]
    BY JobFacts, JobRanks DEF SInv, TasksSound
  <2>2. \A r \in jobs[l].todo \cup jobs[l].now : DOMAIN metas'[l[1]][r] = DOMAIN metas[l[1]][r]
    BY <1>11, <2>1
  <2>3. ASSUME NEW r \in jobs[l].now
        PROVE  jobs[l].state = "sending" /\ metas'[l[1]][r][jobs[l].refs[r]].ready
    BY <1>11, <2>1, SMTT(30) DEF TaskSound
  <2> QED
    BY <1>2, <2>1, <2>2, <2>3 DEF TaskSound
<1> QED
  BY <1>14, <1>15, <1>16, <1>17, <1>18, <1>19 DEF SInv

(***************************************************************************)
(* A rank records what the step brought: entries of the new requests, the  *)
(* blocks of the finished ones.                                            *)
(***************************************************************************)
Marked(s) == [s EXCEPT ![Len(s)].owned = TRUE, ![Len(s)].ready = TRUE]

LEMMA MarkedEntry ==
  ASSUME NEW s \in Seq(Entries), s # <<>>
  PROVE  /\ Marked(s) \in Seq(Entries) /\ Len(Marked(s)) = Len(s) /\ DOMAIN Marked(s) = DOMAIN s
         /\ \A i \in DOMAIN s : /\ Marked(s)[i].sent = s[i].sent /\ Marked(s)[i].late = s[i].late
                                /\ Marked(s)[i].sending = s[i].sending
                                /\ s[i].ready => Marked(s)[i].ready
         /\ Marked(s) # <<>>
<1>1. PICK n \in DOMAIN s : n = Len(s)
  BY EmptySeq, LenProperties
<1>2. s[n] \in Entries
  BY <1>1, ElementOfSeq, LenProperties
<1>3. PICK x : x = [s[n] EXCEPT !.owned = TRUE, !.ready = TRUE]
  OBVIOUS
<1>4. x \in Entries /\ x.sent = s[n].sent /\ x.late = s[n].late /\ x.ready /\ x.sending = s[n].sending
  BY <1>2, <1>3 DEF Entries
<1>5. Marked(s) = [s EXCEPT ![n] = x]
  BY <1>1, <1>3 DEF Marked
<1>6. PICK t : t = [s EXCEPT ![n] = x]
  OBVIOUS
<1>7. /\ t \in Seq(Entries) /\ Len(t) = Len(s)
      /\ \A i \in DOMAIN s : t[i] = IF i = n THEN x ELSE s[i]
  BY <1>1, <1>4, <1>6, EntryChange
<1>8. DOMAIN t = DOMAIN s /\ t # <<>>
  BY <1>7, LenProperties, EmptySeq
<1>9. ASSUME NEW i \in DOMAIN s
      PROVE  /\ t[i].sent = s[i].sent /\ t[i].late = s[i].late /\ (s[i].ready => t[i].ready)
             /\ t[i].sending = s[i].sending
  BY <1>1, <1>4, <1>7
<1> QED
  BY <1>5, <1>6, <1>7, <1>8, <1>9

LEMMA FirstEntry ==
  /\ Append(<<>>, NewMeta(TRUE)) \in Seq(Entries)
  /\ Append(<<>>, NewMeta(TRUE)) # <<>>
  /\ \A i \in DOMAIN Append(<<>>, NewMeta(TRUE)) :
       /\ ~Append(<<>>, NewMeta(TRUE))[i].ready /\ ~Append(<<>>, NewMeta(TRUE))[i].late
       /\ Append(<<>>, NewMeta(TRUE))[i].sent = 0 /\ i = Len(Append(<<>>, NewMeta(TRUE)))
       /\ Append(<<>>, NewMeta(TRUE))[i].sending = 0
<1>1. PICK x \in Entries : x = NewMeta(TRUE) /\ ~x.ready /\ ~x.late /\ x.sent = 0 /\ x.sending = 0
  BY NewEntry
<1>2. PICK s \in Seq(Entries) : s = <<>> /\ DOMAIN s = {}
  <2>1. <<>> \in Seq(Entries)
    BY EmptySeq
  <2>2. DOMAIN <<>> = {}
    OBVIOUS
  <2> QED
    BY <2>1, <2>2, Zenon
<1>3. PICK t : t = Append(s, x)
  OBVIOUS
<1>4. /\ t \in Seq(Entries) /\ t # <<>> /\ Len(t) = Len(s) + 1 /\ t[Len(s) + 1] = x
      /\ \A i \in DOMAIN t : i \in DOMAIN s \/ i = Len(s) + 1
  BY <1>3, AppendEntry
<1>5. \A i \in DOMAIN t : ~t[i].ready /\ ~t[i].late /\ t[i].sent = 0 /\ i = Len(t) /\ t[i].sending = 0
  BY <1>1, <1>2, <1>4
<1>6. t = Append(<<>>, NewMeta(TRUE))
  BY <1>1, <1>2, <1>3
<1> QED
  BY <1>4, <1>5, <1>6

LEMMA RecordEntries ==
  ASSUME DInv, SInv, NEW p0 \in PRanks, RecordSendReqs(p0)
  PROVE  /\ \A p \in PRanks, r \in Requests :
              \/ /\ p = p0 /\ r \in pMeta.new \ tracked[p0] /\ metas[p][r] = <<>>
                 /\ metas'[p][r] = Append(<<>>, NewMeta(TRUE))
              \/ /\ p = p0 /\ r \in pMeta.blocks /\ r \in tracked[p] /\ metas[p][r] # <<>>
                 /\ metas'[p][r] = Marked(metas[p][r])
              \/ ~(p = p0 /\ r \in pMeta.new \ tracked[p0]) /\ metas'[p][r] = metas[p][r]
         /\ \A p \in PRanks : \A r \in tracked[p] \ pMeta.drop : r \in tracked'[p]
<1>1. PICK new : new = pMeta.new \ tracked[p0]
  OBVIOUS
<1>2. PICK known : known = tracked[p0] \cup new
  OBVIOUS
<1>3. PICK popped : /\ popped \subseteq pMeta.drop \cap known
                    /\ tracked' = [tracked EXCEPT ![p0] = known \ popped]
  BY <1>1, <1>2 DEF RecordSendReqs
<1>4. PICK g : g = [r \in Requests |->
                      IF r \in new THEN Append(metas[p0][r], NewMeta(TRUE))
                      ELSE IF r \in pMeta.blocks \cap known THEN Marked(metas[p0][r])
                      ELSE metas[p0][r]]
  OBVIOUS
<1>5. metas' = [metas EXCEPT ![p0] = g]
  BY <1>1, <1>2, <1>4 DEF RecordSendReqs, Marked
<1>10. /\ metas \in [PRanks -> [Requests -> Seq(Entries)]] /\ tracked \in [PRanks -> SUBSET Requests]
       /\ pMeta.new \subseteq Requests /\ pMeta.blocks \subseteq Requests
  BY DEF SInv, STypes
<1>13. \A r \in new : metas[p0][r] = <<>> /\ r \in Requests /\ r \notin tracked[p0]
  BY <1>1, <1>10 DEF SInv, Entered, Early
<1>14. \A r \in pMeta.blocks \cap known : r \in tracked[p0] /\ r \notin new
  <2>1. \A r \in pMeta.blocks : r \notin pMeta.new
    BY DEF SInv, Phased
  <2> QED
    BY <1>1, <1>2, <2>1
<1>15. ASSUME NEW p \in PRanks, NEW r \in Requests
       PROVE  \/ /\ p = p0 /\ r \in new /\ metas[p][r] = <<>> /\ r \notin tracked[p]
                 /\ metas'[p][r] = Append(<<>>, NewMeta(TRUE))
              \/ /\ p = p0 /\ r \in pMeta.blocks /\ r \in tracked[p] /\ metas[p][r] # <<>>
                 /\ metas'[p][r] = Marked(metas[p][r])
              \/ ~(p = p0 /\ r \in new) /\ metas'[p][r] = metas[p][r]
  <2>1. CASE p # p0
    BY <1>5, <1>10, <2>1
  <2>2. CASE p = p0 /\ r \in new
    <3>1. metas'[p][r] = Append(metas[p][r], NewMeta(TRUE))
      BY <1>4, <1>5, <1>10, <2>2
    <3> QED
      BY <1>13, <2>2, <3>1
  <2>3. CASE p = p0 /\ r \in pMeta.blocks \cap known
    <3>1. r \notin new /\ r \in tracked[p]
      BY <1>14, <2>3
    <3>2. metas'[p][r] = Marked(metas[p][r])
      BY <1>4, <1>5, <1>10, <2>3, <3>1
    <3>3. metas[p][r] # <<>>
      BY <3>1 DEF SInv, Entered
    <3> QED
      BY <2>3, <3>1, <3>2, <3>3
  <2>4. CASE p = p0 /\ r \notin new /\ r \notin pMeta.blocks \cap known
    BY <1>4, <1>5, <1>10, <2>4
  <2> QED
    BY <2>1, <2>2, <2>3, <2>4
<1>16. ASSUME NEW p \in PRanks, NEW r \in tracked[p] \ pMeta.drop PROVE r \in tracked'[p]
  BY <1>2, <1>3, <1>10
<1> QED
  BY <1>1, <1>15, <1>16

LEMMA RecordSource ==
  ASSUME DInv, SInv, NEW p0 \in PRanks, RecordSendReqs(p0)
  PROVE  SInv'
<1>1. PICK new : new = pMeta.new \ tracked[p0]
  OBVIOUS
<1>2. PICK known : known = tracked[p0] \cup new
  OBVIOUS
<1>3. PICK popped : /\ popped \subseteq pMeta.drop \cap known
                    /\ tracked' = [tracked EXCEPT ![p0] = known \ popped]
  BY <1>1, <1>2 DEF RecordSendReqs
<1>4. PICK g : g = [r \in Requests |->
                      IF r \in new THEN Append(metas[p0][r], NewMeta(TRUE))
                      ELSE IF r \in pMeta.blocks \cap known THEN Marked(metas[p0][r])
                      ELSE metas[p0][r]]
  OBVIOUS
<1>5. metas' = [metas EXCEPT ![p0] = g]
  BY <1>1, <1>2, <1>4 DEF RecordSendReqs, Marked
<1>6. /\ pPhase = "record" /\ PNext(p0, "fetch", PRanks)
      /\ UNCHANGED <<net, pst, pDone, pDrop, pMeta, sentBy, sentReqs, dEngine, receiver, jobs, written>>
  BY DEF RecordSendReqs
<1>7. /\ Requests' = Requests /\ PRanks' = PRanks
      /\ \A p : NeedSend(p)' = NeedSend(p)
  BY <1>6, SameRanks
<1>8. /\ pPhase' \in {"record", "fetch"} /\ pLeft' \subseteq PRanks /\ p0 \in pLeft
      /\ \A q, r : ToEnter(q, r)' <=> ToEnter(q, r) /\ q # p0
      /\ \A q, r : ToRecord(q, r)' <=> r \in pDone \/ (ToRecord(q, r) /\ q # p0)
  BY <1>6, NextRank DEF SInv
<1>9. pDone = {} /\ \A r : (ToRecord(p0, r) <=> r \in pMeta.blocks) /\ (ToEnter(p0, r) <=> r \in pMeta.new)
  BY <1>6, <1>8 DEF SInv, Phased, ToRecord, ToEnter
<1>10. /\ metas \in [PRanks -> [Requests -> Seq(Entries)]] /\ tracked \in [PRanks -> SUBSET Requests]
       /\ pMeta.new \subseteq Requests /\ pMeta.blocks \subseteq Requests
  BY DEF SInv, STypes
<1>11. /\ tracked' \in [PRanks -> SUBSET Requests]
       /\ \A p \in PRanks : p # p0 => tracked'[p] = tracked[p]
       /\ tracked'[p0] = known \ popped
  BY <1>1, <1>2, <1>3, <1>10
<1>12. \A r \in popped : pst[r] = "gone" /\ ~Early(r)
  BY <1>3 DEF SInv, Phased, Early
<1>13. \A r \in new : metas[p0][r] = <<>> /\ r \in Requests /\ r \notin tracked[p0]
  BY <1>1, <1>10 DEF SInv, Entered, Early
<1>14. \A r \in pMeta.blocks \cap known : /\ r \in tracked[p0] /\ pst[r] = "held" /\ r \notin new
                                          /\ r \notin pMeta.new /\ ~Reported(p0, r)
  <2> SUFFICES ASSUME NEW r \in pMeta.blocks \cap known
               PROVE  /\ r \in tracked[p0] /\ pst[r] = "held" /\ r \notin new
                      /\ r \notin pMeta.new /\ ~Reported(p0, r)
    OBVIOUS
  <2>1. pst[r] = "held" /\ r \notin pMeta.new
    BY DEF SInv, Phased
  <2>2. r \in tracked[p0] /\ r \notin new /\ r \in Requests
    BY <1>1, <1>2, <1>10, <2>1
  <2>3. ToRecord(p0, r)
    BY <1>9
  <2> QED
    BY <2>1, <2>2, <2>3 DEF SInv, ReportsSound
<1>15. ASSUME NEW p \in PRanks, NEW r \in Requests
       PROVE  \/ /\ p = p0 /\ r \in new /\ metas[p][r] = <<>> /\ r \notin tracked[p]
                 /\ metas'[p][r] = Append(<<>>, NewMeta(TRUE))
              \/ /\ p = p0 /\ r \in pMeta.blocks /\ r \in tracked[p] /\ metas[p][r] # <<>>
                 /\ metas'[p][r] = Marked(metas[p][r])
              \/ ~(p = p0 /\ r \in new) /\ metas'[p][r] = metas[p][r]
  BY <1>1, RecordEntries
<1>16. ASSUME NEW p \in PRanks, NEW r \in Requests
       PROVE  /\ metas'[p][r] \in Seq(Entries)
              /\ metas[p][r] # <<>> => metas'[p][r] # <<>>
              /\ metas[p][r] # <<>> => Len(metas'[p][r]) = Len(metas[p][r])
              /\ metas[p][r] = <<>> /\ ~(p = p0 /\ r \in new) => metas'[p][r] = <<>>
              /\ p = p0 /\ r \in new => metas'[p][r] # <<>>
  <2>1. metas[p][r] \in Seq(Entries)
    BY <1>10
  <2>2. CASE metas'[p][r] = Append(<<>>, NewMeta(TRUE)) /\ metas[p][r] = <<>> /\ p = p0 /\ r \in new
    BY <2>2, FirstEntry
  <2>3. CASE metas'[p][r] = Marked(metas[p][r]) /\ metas[p][r] # <<>>
    BY <1>13, <2>1, <2>3, MarkedEntry
  <2>4. CASE ~(p = p0 /\ r \in new) /\ metas'[p][r] = metas[p][r]
    BY <2>1, <2>4
  <2> QED
    BY <1>15, <2>2, <2>3, <2>4
<1>17. ASSUME NEW p \in PRanks, NEW r \in Requests, NEW i \in DOMAIN metas[p][r]
       PROVE  /\ i \in DOMAIN metas'[p][r]
              /\ metas'[p][r][i].sent = metas[p][r][i].sent
              /\ metas'[p][r][i].late = metas[p][r][i].late
              /\ metas[p][r][i].ready => metas'[p][r][i].ready
              /\ metas'[p][r][i].ready => \/ metas[p][r][i].ready
                                          \/ p = p0 /\ r \in pMeta.blocks /\ r \in tracked[p]
              /\ Len(metas'[p][r]) = Len(metas[p][r])
  <2>1. metas[p][r] \in Seq(Entries) /\ metas[p][r] # <<>>
    BY <1>10
  <2>2. CASE /\ metas'[p][r] = Marked(metas[p][r])
             /\ p = p0 /\ r \in pMeta.blocks /\ r \in tracked[p]
    BY <2>1, <2>2, MarkedEntry
  <2>3. CASE metas'[p][r] = metas[p][r]
    BY <2>3
  <2> QED
    BY <1>15, <2>1, <2>2, <2>3
<1>18. ASSUME NEW p \in PRanks, NEW r \in Requests, NEW i \in DOMAIN metas'[p][r],
              i \notin DOMAIN metas[p][r]
       PROVE  /\ ~metas'[p][r][i].ready /\ ~metas'[p][r][i].late /\ metas'[p][r][i].sent = 0
              /\ i = Len(metas'[p][r])
  <2>1. metas[p][r] \in Seq(Entries)
    BY <1>10
  <2>2. CASE metas'[p][r] = Append(<<>>, NewMeta(TRUE))
    BY <2>2, FirstEntry
  <2>3. CASE metas'[p][r] = Marked(metas[p][r]) /\ metas[p][r] # <<>>
    BY <1>18, <2>1, <2>3, MarkedEntry
  <2> QED
    BY <1>15, <1>18, <2>2, <2>3
<1>19. STypes' /\ Phased'
  <2>1. DOMAIN g = Requests /\ g = [r \in Requests |-> g[r]]
    BY <1>4
  <2>2. \A p \in PRanks, r \in Requests : metas'[p][r] \in Seq(Entries)
    BY <1>16
  <2>3. metas' \in [PRanks -> [Requests -> Seq(Entries)]]
    BY <1>5, <1>10, <2>1, <2>2, TableType
  <2>4. STypes'
    BY <1>6, <1>7, <1>8, <1>11, <2>3 DEF SInv, STypes
  <2>5. Phased'
    BY <1>6, <1>7, <1>8 DEF SInv, Phased
  <2> QED
    BY <2>4, <2>5
<1>20. /\ \A p, r : Reported(p, r)' = Reported(p, r)
       /\ \A r : Early(r)' = Early(r)
       /\ \A p, r, i : InHand(p, r, i)' = InHand(p, r, i)
  BY <1>6, EngineHands DEF Reported, Early
<1>21. Entered'
  <2> SUFFICES ASSUME NEW p \in PRanks, NEW r \in Requests
               PROVE  /\ pst[r] \in {"running", "held"} /\ ~ToEnter(p, r)' /\ ~Reported(p, r)
                           => r \in tracked'[p]
                      /\ r \in tracked'[p] => metas'[p][r] # <<>>
                      /\ Early(r) /\ r \notin tracked'[p] => metas'[p][r] = <<>>
    BY <1>6, <1>7, <1>20 DEF Entered
  <2>1. /\ pst[r] \in {"running", "held"} /\ ~ToEnter(p, r) /\ ~Reported(p, r) => r \in tracked[p]
        /\ r \in tracked[p] => metas[p][r] # <<>>
        /\ Early(r) /\ r \notin tracked[p] => metas[p][r] = <<>>
    BY DEF SInv, Entered
  <2>2. CASE p = p0
    <3>1. r \in pMeta.new => r \in known
      BY <1>1, <1>2
    <3>2. pst[r] \in {"running", "held"} => r \notin popped
      BY <1>12
    <3>3. pst[r] \in {"running", "held"} /\ ~Reported(p, r) => r \in known \ popped
      BY <1>2, <1>9, <2>1, <2>2, <3>1, <3>2
    <3>4. r \in known => metas'[p][r] # <<>>
      BY <1>2, <1>16, <2>1, <2>2
    <3>5. Early(r) /\ r \notin known \ popped => metas'[p][r] = <<>>
      <4>1. Early(r) /\ r \notin known \ popped => r \notin new /\ r \notin tracked[p0]
        BY <1>2, <1>12
      <4> QED
        BY <1>16, <2>1, <2>2, <4>1
    <3> QED
      BY <1>11, <2>2, <3>3, <3>4, <3>5
  <2>3. CASE p # p0
    BY <1>8, <1>11, <1>16, <2>1, <2>3
  <2> QED
    BY <2>2, <2>3
<1>22. ReadySound'
  <2> SUFFICES ASSUME NEW p \in PRanks, NEW r \in Requests, NEW i \in DOMAIN metas'[p][r]
               PROVE  /\ metas'[p][r][i].ready => /\ pst[r] \in {"held", "gone"} /\ r \notin pMeta.new
                                                 /\ ~ToRecord(p, r)'
                      /\ metas'[p][r][i].late => metas'[p][r][i].ready
    BY <1>6, <1>7 DEF ReadySound
  <2>1. CASE i \in DOMAIN metas[p][r]
    <3>1. /\ metas[p][r][i].ready => pst[r] \in {"held", "gone"} /\ r \notin pMeta.new /\ ~ToRecord(p, r)
          /\ metas[p][r][i].late => metas[p][r][i].ready
      BY <2>1 DEF SInv, ReadySound
    <3>2. /\ metas'[p][r][i].late = metas[p][r][i].late
          /\ metas[p][r][i].ready => metas'[p][r][i].ready
          /\ metas'[p][r][i].ready => \/ metas[p][r][i].ready
                                      \/ p = p0 /\ r \in pMeta.blocks /\ r \in tracked[p]
      BY <1>17, <2>1
    <3>3. p = p0 /\ r \in pMeta.blocks /\ r \in tracked[p] =>
            pst[r] = "held" /\ r \notin pMeta.new /\ ~ToRecord(p, r)'
      BY <1>2, <1>8, <1>9, <1>14
    <3>4. ~ToRecord(p, r) => ~ToRecord(p, r)'
      BY <1>8, <1>9
    <3> QED
      BY <3>1, <3>2, <3>3, <3>4
  <2>2. CASE i \notin DOMAIN metas[p][r]
    BY <1>18, <2>2
  <2> QED
    BY <2>1, <2>2
<1>23. ReportsSound'
  <2> SUFFICES ASSUME NEW p \in PRanks, NEW r \in Requests
               PROVE  /\ Reported(p, r) => pst[r] = "held" /\ ~ToRecord(p, r)'
                      /\ ~(r \in sentReqs[p] /\ p \in sentBy[r])
                      /\ (Reported(p, r) \/ pst[r] = "gone") /\ r \in tracked'[p]
                           => ~Current(p, r)'.ready
    BY <1>6, <1>7, <1>20 DEF ReportsSound
  <2>1. /\ Reported(p, r) => pst[r] = "held" /\ ~ToRecord(p, r)
        /\ ~(r \in sentReqs[p] /\ p \in sentBy[r])
        /\ (Reported(p, r) \/ pst[r] = "gone") /\ r \in tracked[p] => ~Current(p, r).ready
    BY DEF SInv, ReportsSound
  <2>2. ~ToRecord(p, r) => ~ToRecord(p, r)'
    BY <1>8, <1>9
  <2>3. ASSUME Reported(p, r) \/ pst[r] = "gone", r \in tracked'[p] PROVE ~Current(p, r)'.ready
    <3>1. CASE r \in tracked[p]
      <4>1. Len(metas[p][r]) \in DOMAIN metas[p][r]
        BY <3>1, CurrentEntry
      <4>2. PICK n \in DOMAIN metas[p][r] : n = Len(metas[p][r])
        BY <4>1
      <4>3. Len(metas'[p][r]) = n /\ ~metas[p][r][n].ready
        BY <1>17, <2>1, <2>3, <3>1, <4>2 DEF Current
      <4>4. ~(p = p0 /\ r \in pMeta.blocks /\ r \in tracked[p])
        BY <1>2, <1>14, <2>3
      <4> QED
        BY <1>17, <4>3, <4>4 DEF Current
    <3>2. CASE r \notin tracked[p]
      <4>1. p = p0 /\ r \in new
        BY <1>2, <1>11, <2>3, <3>2
      <4>2. metas[p][r] = <<>> /\ metas'[p][r] # <<>> /\ metas'[p][r] \in Seq(Entries)
        BY <1>13, <1>16, <4>1
      <4>3. Len(metas'[p][r]) \in DOMAIN metas'[p][r]
        BY <4>2, EmptySeq, LenProperties
      <4>4. Len(metas'[p][r]) \notin DOMAIN metas[p][r]
        BY <4>2
      <4> QED
        BY <1>18, <4>3, <4>4 DEF Current
    <3> QED
      BY <3>1, <3>2
  <2> QED
    BY <2>1, <2>2, <2>3
<1>24. Counts'
  <2> SUFFICES ASSUME NEW p \in PRanks, NEW r \in Requests, NEW i \in DOMAIN metas'[p][r]
               PROVE  Fits(p, i, Len(metas'[p][r]), metas'[p][r][i], InHand(p, r, i))
    BY <1>7, <1>20 DEF Counts, Fits
  <2>1. /\ NeedSend(p) \in Nat /\ Cardinality(InHand(p, r, i)) \in Nat
        /\ Cardinality(InHand(p, r, i)) <= NeedSend(p)
    BY HandFacts DEF DInv, DTypes
  <2>2. CASE i \in DOMAIN metas[p][r]
    <3>1. Fits(p, i, Len(metas[p][r]), metas[p][r][i], InHand(p, r, i))
      BY <2>2 DEF SInv, Counts
    <3>2. metas'[p][r][i].sent = metas[p][r][i].sent /\ Len(metas'[p][r]) = Len(metas[p][r])
      BY <1>17, <2>2
    <3> QED
      BY <3>1, <3>2 DEF Fits
  <2>3. CASE i \notin DOMAIN metas[p][r]
    <3>1. metas'[p][r][i].sent = 0 /\ i = Len(metas'[p][r])
      BY <1>18, <2>3
    <3> QED
      BY <2>1, <3>1 DEF Fits
  <2> QED
    BY <2>2, <2>3
<1>25. TasksSound'
  <2> SUFFICES ASSUME NEW l \in DOMAIN jobs PROVE TaskSound(l, jobs[l])'
    BY <1>6 DEF TasksSound
  <2>1. /\ TaskSound(l, jobs[l]) /\ l[1] \in PRanks /\ l[3] \subseteq Requests
        /\ jobs[l].todo \cup jobs[l].now \subseteq l[3]
    BY JobFacts, JobRanks DEF SInv, TasksSound
  <2>2. ASSUME NEW r \in jobs[l].todo \cup jobs[l].now, jobs[l].state \in {"waiting", "sending"}
        PROVE  jobs[l].refs[r] \in DOMAIN metas'[l[1]][r]
    <3>1. jobs[l].refs[r] \in DOMAIN metas[l[1]][r] /\ r \in Requests
      BY <2>1, <2>2 DEF TaskSound
    <3> QED
      BY <1>17, <2>1, <3>1
  <2>3. ASSUME NEW r \in jobs[l].now
        PROVE  jobs[l].state = "sending" /\ metas'[l[1]][r][jobs[l].refs[r]].ready
    <3>1. /\ jobs[l].state = "sending" /\ metas[l[1]][r][jobs[l].refs[r]].ready
          /\ jobs[l].refs[r] \in DOMAIN metas[l[1]][r] /\ r \in Requests
      BY <2>1 DEF TaskSound
    <3> QED
      BY <1>17, <2>1, <3>1
  <2> QED
    BY <1>6, <2>1, <2>2, <2>3 DEF TaskSound
<1> QED
  BY <1>19, <1>21, <1>22, <1>23, <1>24, <1>25 DEF SInv

LEMMA InitSource == Init => SInv
<1> SUFFICES ASSUME Init PROVE SInv
  OBVIOUS
<1>1. /\ net \in Nets /\ pst = [r \in Requests |-> "waiting"] /\ pPhase = "idle" /\ pLeft = {}
      /\ pDone = {} /\ pDrop = {} /\ pMeta = [new |-> {}, blocks |-> {}, drop |-> {}]
      /\ tracked = [p \in PRanks |-> {}] /\ metas = [p \in PRanks |-> [r \in Requests |-> <<>>]]
      /\ sentReqs = [p \in PRanks |-> {}] /\ sentBy = [r \in Requests |-> {}] /\ jobs = <<>>
  BY DEF Init
<1>2. <<>> \in Seq(Entries) /\ DOMAIN <<>> = {}
  OBVIOUS
<1>3. STypes
  <2>1. metas \in [PRanks -> [Requests -> Seq(Entries)]]
    BY <1>1, <1>2
  <2> QED
    BY <1>1, <2>1 DEF STypes, PStates
<1>4. DOMAIN jobs = {} /\ \A p \in PRanks, r \in Requests : DOMAIN metas[p][r] = {} /\ metas[p][r] = <<>>
  BY <1>1, <1>2
<1>5. Phased /\ Entered
  BY <1>1, <1>4 DEF Phased, Entered
<1>6. ReadySound /\ Counts /\ TasksSound
  BY <1>4 DEF ReadySound, Counts, TasksSound
<1>7. ReportsSound
  BY <1>1 DEF ReportsSound, Reported
<1> QED
  BY <1>3, <1>5, <1>6, <1>7 DEF SInv

LEMMA StepSource == DInv /\ SInv /\ [Next]_vars => SInv'
<1> SUFFICES ASSUME DInv, SInv, [Next]_vars PROVE SInv'
  OBVIOUS
<1>1. CASE UNCHANGED vars
  <2>1. \A e, r : ToPull(e, r)' => ToPull(e, r)
    BY <1>1 DEF ToPull, D, Requests, vars, dEngine
  <2> QED
    BY <1>1, <2>1, QuietSource DEF vars
<1>2. CASE PStep
  BY <1>2, PScheduleSource, RecordSource, FetchSentSource, PUpdateSource DEF PStep
<1>3. CASE DStep
  BY <1>3, DStepSource
<1>4. CASE Clients
  BY <1>4, PAbortSource, DAbortSource DEF Clients
<1>5. ASSUME NEW k \in DOMAIN jobs, Serve(k) \/ Receive(k) \/ GiveUp(k) PROVE SInv'
  BY <1>5, ServeSource
<1>6. ASSUME NEW p \in PRanks, NEW r \in Requests, Expire(p, r) PROVE SInv'
  BY <1>6, ExpireSource
<1> QED
  BY <1>1, <1>2, <1>3, <1>4, <1>5, <1>6 DEF Next

(* P is told of the end of a transfer once, by every rank, while it waits  *)
(* for that, and its ranks find the entries their step speaks of: an entry *)
(* stays until its rank has reported it (Entered), and one that a late     *)
(* pull made again is never sent to every rank of D (Counts).              *)
THEOREM SentOnceEach == Spec => []SentOnce
<1>1. DInv /\ SInv => SentOnce
  <2> SUFFICES ASSUME DInv, SInv PROVE SentOnce
    OBVIOUS
  <2>1. SendingOver \subseteq P({"held"})
    BY OverFacts DEF P
  <2>2. ASSUME pPhase = "record", NEW p \in pLeft, NEW r \in pMeta.blocks PROVE r \in tracked[p]
    <3>1. p \in PRanks /\ r \in Requests /\ pst[r] = "held" /\ ToRecord(p, r)
      BY <2>2 DEF SInv, STypes, Phased, ToRecord
    <3>2. ~Reported(p, r)
      BY <3>1 DEF SInv, ReportsSound
    <3>3. ~ToEnter(p, r)
      BY <3>1 DEF ToEnter, SInv, Phased
    <3> QED
      BY <3>1, <3>2, <3>3 DEF SInv, Entered
  <2>3. ASSUME NEW p \in pLeft, NEW r \in pMeta.drop \cap tracked[p] PROVE ~Current(p, r).ready
    <3>1. p \in PRanks /\ r \in Requests /\ pst[r] = "gone"
      BY DEF SInv, STypes, Phased
    <3> QED
      BY <3>1 DEF SInv, ReportsSound
  <2> QED
    BY <2>1, <2>2, <2>3 DEF SentOnce
<1>2. Init => DInv /\ SInv
  BY InitLoads, InitSource
<1>3. DInv /\ SInv /\ [Next]_vars => (DInv /\ SInv)'
  BY StepLoads, StepSource
<1> QED
  BY <1>1, <1>2, <1>3, PTL DEF Spec
-----------------------------------------------------------------------------
(***************************************************************************)
(* The blocks of P under a transfer.  An entry is sent from while it is    *)
(* the current one, as long as no second pull of the rank can make another *)
(* one behind a task: with one D rank for each rank of P.                  *)
(***************************************************************************)
Active(j) == j.state \in {"waiting", "sending"}
RefsCurrent ==
  \A k \in DOMAIN jobs : Active(jobs[k]) =>
    \A r \in jobs[k].todo \cup jobs[k].now : jobs[k].refs[r] = Len(metas[k[1]][r])
InFlight ==
  /\ \A k \in DOMAIN jobs : \A r \in jobs[k].now :
       r \in tracked[k[1]] /\ metas[k[1]][r][jobs[k].refs[r]].sending >= 1
  /\ \A p \in PRanks, r \in Requests : \A i \in DOMAIN metas[p][r] : metas[p][r][i].sending >= 0
HInv == Paired /\ RefsCurrent /\ InFlight

LEMMA OnePair ==
  ASSUME DInv, Paired, NEW k \in DOMAIN jobs, NEW l \in DOMAIN jobs,
         k[1] = l[1], NEW r \in k[3], r \in l[3]
  PROVE  k = l
<1>1. /\ k[1] \in PRanks /\ k[2] \in ServedBy(k[1]) /\ l[2] \in ServedBy(k[1])
  BY JobRanks
<1>2. IsFiniteSet(ServedBy(k[1])) /\ Cardinality(ServedBy(k[1])) <= 1 /\ Cardinality(ServedBy(k[1])) \in Nat
  BY <1>1, HandFacts DEF DInv, DTypes, Paired
<1>3. k[2] = l[2]
  <2> SUFFICES ASSUME k[2] # l[2] PROVE FALSE
    OBVIOUS
  <2>1. /\ IsFiniteSet(ServedBy(k[1]) \ {k[2]})
        /\ Cardinality(ServedBy(k[1]) \ {k[2]}) = Cardinality(ServedBy(k[1])) - 1
    BY <1>1, <1>2, FS_RemoveElement
  <2>2. Cardinality(ServedBy(k[1]) \ {k[2]}) = 0
    BY <1>2, <2>1, FS_CardinalityType
  <2>3. ServedBy(k[1]) \ {k[2]} = {}
    BY <2>1, <2>2, FS_EmptySet
  <2> QED
    BY <1>1, <2>3
<1> QED
  BY <1>3 DEF DInv, JobsSound

(* No two tasks have the same request before them. *)
LEMMA Sole ==
  ASSUME DInv, HInv, NEW k \in DOMAIN jobs, NEW l \in DOMAIN jobs, k[1] = l[1],
         Active(jobs[k]), Active(jobs[l]),
         NEW r \in jobs[k].todo \cup jobs[k].now, r \in jobs[l].todo \cup jobs[l].now
  PROVE  k = l
<1>1. r \in k[3] /\ r \in l[3]
  BY JobFacts
<1> QED
  BY <1>1, OnePair DEF HInv

(* What is being sent is tracked, and its entry is the current one. *)
LEMMA SendingFacts ==
  ASSUME DInv, SInv, HInv, NEW k \in DOMAIN jobs, NEW r \in jobs[k].now
  PROVE  /\ k[1] \in PRanks /\ r \in Requests /\ r \in tracked[k[1]] /\ Active(jobs[k])
         /\ jobs[k].refs[r] \in DOMAIN metas[k[1]][r]
         /\ Current(k[1], r) = metas[k[1]][r][jobs[k].refs[r]]
         /\ Current(k[1], r).ready /\ Current(k[1], r).sending >= 1 /\ pst[r] = "held"
<1>1. k[1] \in PRanks /\ r \in k[3] /\ r \in Requests
  BY JobFacts, JobRanks
<1>2. /\ jobs[k].state = "sending" /\ metas[k[1]][r][jobs[k].refs[r]].ready
      /\ jobs[k].refs[r] \in DOMAIN metas[k[1]][r]
  BY DEF SInv, TasksSound, TaskSound
<1>3. /\ r \in tracked[k[1]] /\ metas[k[1]][r][jobs[k].refs[r]].sending >= 1
  BY DEF HInv, InFlight
<1>4. Active(jobs[k])
  BY <1>2 DEF Active
<1>5. jobs[k].refs[r] = Len(metas[k[1]][r])
  BY <1>4 DEF HInv, RefsCurrent
<1>6. Current(k[1], r) = metas[k[1]][r][jobs[k].refs[r]]
  BY <1>5 DEF Current
<1>7. pst[r] = "held"
  BY <1>1, <1>2, <1>3, <1>6, CurrentEntry DEF SInv, ReportsSound
<1> QED
  BY <1>1, <1>2, <1>3, <1>4, <1>6, <1>7

(* Steps that leave the entries alone: they start no task. *)
LEMMA HeldFrame ==
  ASSUME HInv, UNCHANGED <<net, tracked, metas>>,
         \A l \in DOMAIN jobs' :
           \/ /\ l \in DOMAIN jobs /\ jobs'[l].state = jobs[l].state /\ jobs'[l].todo = jobs[l].todo
              /\ jobs'[l].now = jobs[l].now /\ jobs'[l].refs = jobs[l].refs
           \/ ~Active(jobs'[l]) /\ jobs'[l].now = {}
  PROVE  HInv'
<1>1. Requests' = Requests /\ PRanks' = PRanks /\ \A p : NeedSend(p)' = NeedSend(p)
  BY SameRanks
<1>2. Paired'
  BY <1>1 DEF HInv, Paired
<1>3. RefsCurrent'
  BY DEF HInv, RefsCurrent, Active
<1>4. InFlight'
  BY <1>1 DEF HInv, InFlight
<1> QED
  BY <1>2, <1>3, <1>4 DEF HInv

(* Steps of P beside its tasks: the entries of what is sent stay. *)
LEMMA EntriesHeld ==
  ASSUME DInv, SInv, HInv, UNCHANGED <<net, jobs>>,
         \A p \in PRanks, r \in Requests : metas[p][r] # <<>> => Len(metas'[p][r]) = Len(metas[p][r]),
         \A p \in PRanks, r \in Requests : \A i \in DOMAIN metas[p][r] :
           metas'[p][r][i].sending = metas[p][r][i].sending,
         \A p \in PRanks, r \in Requests : \A i \in DOMAIN metas'[p][r] :
           i \in DOMAIN metas[p][r] \/ metas'[p][r][i].sending = 0,
         \A k \in DOMAIN jobs : \A r \in jobs[k].now : r \in tracked'[k[1]]
  PROVE  HInv'
<1>1. Requests' = Requests /\ PRanks' = PRanks /\ \A p : NeedSend(p)' = NeedSend(p)
  BY SameRanks
<1>2. Paired'
  BY <1>1 DEF HInv, Paired
<1>3. RefsCurrent'
  <2> SUFFICES ASSUME NEW k \in DOMAIN jobs, Active(jobs[k]), NEW r \in jobs[k].todo \cup jobs[k].now
               PROVE  jobs[k].refs[r] = Len(metas'[k[1]][r])
    BY DEF RefsCurrent, Active
  <2>1. /\ jobs[k].refs[r] \in DOMAIN metas[k[1]][r] /\ k[1] \in PRanks /\ r \in Requests
    BY JobFacts, JobRanks DEF SInv, TasksSound, TaskSound, Active
  <2>2. metas[k[1]][r] # <<>>
    BY <2>1
  <2> QED
    BY <2>1, <2>2 DEF HInv, RefsCurrent
<1>4. InFlight'
  <2>1. ASSUME NEW k \in DOMAIN jobs, NEW r \in jobs[k].now
        PROVE  r \in tracked'[k[1]] /\ metas'[k[1]][r][jobs[k].refs[r]].sending >= 1
    <3>1. /\ k[1] \in PRanks /\ r \in Requests /\ jobs[k].refs[r] \in DOMAIN metas[k[1]][r]
          /\ metas[k[1]][r][jobs[k].refs[r]].sending >= 1
      BY SendingFacts DEF HInv, InFlight
    <3> QED
      BY <3>1
  <2>2. ASSUME NEW p \in PRanks, NEW r \in Requests, NEW i \in DOMAIN metas'[p][r]
        PROVE  metas'[p][r][i].sending >= 0
    <3>1. CASE i \in DOMAIN metas[p][r]
      <4>1. metas[p][r][i].sending >= 0 /\ metas'[p][r][i].sending = metas[p][r][i].sending
        BY <3>1 DEF HInv, InFlight
      <4> QED
        BY <4>1
    <3>2. CASE metas'[p][r][i].sending = 0
      BY <3>2
    <3> QED
      BY <3>1, <3>2
  <2> QED
    BY <1>1, <2>1, <2>2 DEF InFlight
<1> QED
  BY <1>2, <1>3, <1>4 DEF HInv

LEMMA PStepHeld ==
  ASSUME DInv, SInv, HInv, PStep
  PROVE  HInv'
<1>1. CASE PSchedule \/ PUpdate
  <2>1. UNCHANGED <<net, tracked, metas, jobs>>
    BY <1>1 DEF PSchedule, PUpdate, sender
  <2> QED
    BY <2>1, HeldFrame
<1>2. ASSUME NEW p0 \in PRanks, RecordSendReqs(p0) PROVE HInv'
  <2>1. UNCHANGED <<net, jobs>>
    BY <1>2 DEF RecordSendReqs
  <2>2. ASSUME NEW p \in PRanks, NEW r \in Requests
        PROVE  \/ metas[p][r] = <<>> /\ metas'[p][r] = Append(<<>>, NewMeta(TRUE))
               \/ metas[p][r] # <<>> /\ metas'[p][r] = Marked(metas[p][r])
               \/ metas'[p][r] = metas[p][r]
    BY <1>2, RecordEntries
  <2>3. ASSUME NEW p \in PRanks, NEW r \in Requests
        PROVE  /\ metas[p][r] # <<>> => Len(metas'[p][r]) = Len(metas[p][r])
               /\ \A i \in DOMAIN metas[p][r] : metas'[p][r][i].sending = metas[p][r][i].sending
               /\ \A i \in DOMAIN metas'[p][r] : i \in DOMAIN metas[p][r] \/ metas'[p][r][i].sending = 0
    <3>1. metas[p][r] \in Seq(Entries)
      BY DEF SInv, STypes
    <3>2. CASE metas[p][r] = <<>> /\ metas'[p][r] = Append(<<>>, NewMeta(TRUE))
      <4>1. PICK t : t = Append(<<>>, NewMeta(TRUE))
        OBVIOUS
      <4>2. \A i \in DOMAIN t : t[i].sending = 0
        BY <4>1, FirstEntry, Zenon
      <4>3. metas'[p][r] = t
        BY <3>2, <4>1, Zenon
      <4>4. DOMAIN metas[p][r] = {}
        <5>1. DOMAIN <<>> = {}
          OBVIOUS
        <5> QED
          BY <3>2, <5>1, Zenon
      <4> QED
        BY <3>2, <4>2, <4>3, <4>4, Zenon
    <3>3. CASE metas[p][r] # <<>> /\ metas'[p][r] = Marked(metas[p][r])
      BY <3>1, <3>3, MarkedEntry
    <3>4. CASE metas'[p][r] = metas[p][r]
      BY <3>4
    <3> QED
      BY <2>2, <3>2, <3>3, <3>4
  <2>4. ASSUME NEW k \in DOMAIN jobs, NEW r \in jobs[k].now PROVE r \in tracked'[k[1]]
    <3>1. k[1] \in PRanks /\ r \in tracked[k[1]] /\ pst[r] = "held"
      BY SendingFacts
    <3>2. r \notin pMeta.drop
      BY <3>1 DEF SInv, Phased
    <3> QED
      BY <1>2, <3>1, <3>2, RecordEntries
  <2> QED
    BY <2>1, <2>3, <2>4, EntriesHeld
<1>3. ASSUME NEW p0 \in PRanks, FetchSent(p0) PROVE HInv'
  <2>1. UNCHANGED <<net, jobs, metas>> /\ tracked' = [tracked EXCEPT ![p0] = Kept(p0)]
    BY <1>3 DEF FetchSent
  <2>2. ASSUME NEW k \in DOMAIN jobs, NEW r \in jobs[k].now PROVE r \in tracked'[k[1]]
    <3>1. k[1] \in PRanks /\ r \in tracked[k[1]] /\ Current(k[1], r).sending >= 1
      BY SendingFacts
    <3>2. r \notin Expired(k[1])
      BY <3>1 DEF Expired
    <3>3. tracked \in [PRanks -> SUBSET Requests]
      BY DEF SInv, STypes
    <3> QED
      BY <2>1, <3>1, <3>2, <3>3 DEF Kept
  <2> QED
    BY <2>1, <2>2, EntriesHeld
<1> QED
  BY <1>1, <1>2, <1>3 DEF PStep

LEMMA ExpireHeld ==
  ASSUME DInv, SInv, HInv, NEW p0 \in PRanks, NEW r0 \in Requests, Expire(p0, r0)
  PROVE  HInv'
<1>1. PICK n : n = Len(metas[p0][r0])
  OBVIOUS
<1>2. /\ r0 \in tracked[p0] /\ metas' = [metas EXCEPT ![p0][r0][n].late = TRUE]
      /\ UNCHANGED <<net, tracked, jobs>>
  BY <1>1 DEF Expire
<1>3. n \in DOMAIN metas[p0][r0] /\ metas[p0][r0][n] \in Entries
  BY <1>1, <1>2, CurrentEntry, EntryTypes DEF SInv
<1>4. PICK x : x = [metas[p0][r0][n] EXCEPT !.late = TRUE]
  OBVIOUS
<1>5. x \in Entries /\ x.sending = metas[p0][r0][n].sending
  BY <1>3, <1>4 DEF Entries
<1>6. metas \in [PRanks -> [Requests -> Seq(Entries)]]
  BY DEF SInv, STypes
<1>7. PICK t : t = [metas[p0][r0] EXCEPT ![n] = x]
  OBVIOUS
<1>8. metas' = [metas EXCEPT ![p0] = [metas[p0] EXCEPT ![r0] = t]]
  BY <1>2, <1>4, <1>6, <1>7
<1>9. /\ t \in Seq(Entries) /\ Len(t) = Len(metas[p0][r0])
      /\ \A i \in DOMAIN metas[p0][r0] : t[i] = IF i = n THEN x ELSE metas[p0][r0][i]
  BY <1>3, <1>5, <1>6, <1>7, EntryChange
<1>10. ASSUME NEW p \in PRanks, NEW r \in Requests
       PROVE  /\ Len(metas'[p][r]) = Len(metas[p][r]) /\ DOMAIN metas'[p][r] = DOMAIN metas[p][r]
              /\ \A i \in DOMAIN metas[p][r] : metas'[p][r][i].sending = metas[p][r][i].sending
  <2>1. metas[p][r] \in Seq(Entries)
    BY <1>6
  <2>2. CASE p = p0 /\ r = r0
    <3>1. metas'[p][r] = t
      BY <1>6, <1>8, <2>2
    <3>2. DOMAIN t = DOMAIN metas[p][r] /\ Len(t) = Len(metas[p][r])
      BY <1>9, <2>1, <2>2, LenProperties
    <3>3. ASSUME NEW i \in DOMAIN metas[p][r] PROVE t[i].sending = metas[p][r][i].sending
      <4>1. t[i] = IF i = n THEN x ELSE metas[p][r][i]
        BY <1>9, <2>2
      <4> QED
        BY <1>5, <2>2, <4>1
    <3> QED
      BY <3>1, <3>2, <3>3
  <2>3. CASE ~(p = p0 /\ r = r0)
    <3>1. metas'[p][r] = metas[p][r]
      BY <1>6, <1>8, <2>3
    <3> QED
      BY <3>1
  <2> QED
    BY <2>2, <2>3
<1>11. \A k \in DOMAIN jobs : \A r \in jobs[k].now : r \in tracked'[k[1]]
  BY <1>2, SendingFacts
<1> QED
  BY <1>2, <1>10, <1>11, EntriesHeld

LEMMA DStepHeld ==
  ASSUME DInv, SInv, HInv, DStep
  PROVE  HInv'
<1>1. UNCHANGED <<net, tracked, metas>>
  BY DEF DStep, DSchedule, StartLoad, FetchGot, DUpdate, sender
<1>2. CASE UNCHANGED jobs
  BY <1>1, <1>2, HeldFrame
<1>3. ASSUME NEW d \in DRanks, StartLoad(d), ~UNCHANGED jobs PROVE HInv'
  <2>1. PICK batch : batch = dMeta.pull \cup dMeta.quit
    OBVIOUS
  <2>2. PICK asked : asked = Served(d) \X {d} \X {batch}
    OBVIOUS
  <2>3. jobs' = [k \in asked \cup DOMAIN jobs |-> IF k \in asked THEN NewJob(batch) ELSE jobs[k]]
    BY <1>3, <2>1, <2>2 DEF StartLoad
  <2>4. NewJob(batch).state = "queued" /\ NewJob(batch).now = {}
    BY DEF NewJob
  <2>5. \A l \in DOMAIN jobs' : \/ l \in DOMAIN jobs /\ jobs'[l] = jobs[l]
                                \/ ~Active(jobs'[l]) /\ jobs'[l].now = {}
    BY <2>3, <2>4 DEF Active
  <2> QED
    BY <1>1, <2>5, HeldFrame
<1> QED
  BY <1>2, <1>3 DEF DStep, DSchedule, FetchGot, DUpdate

LEMMA AnswerHeld ==
  ASSUME DInv, SInv, HInv, NEW k \in DOMAIN jobs,
         RefusePull(k) \/ WaitTimesOut(k) \/ SendRaises(k) \/ Receive(k) \/ GiveUp(k)
  PROVE  HInv'
<1>1. /\ TaskSound(k, jobs[k])
      /\ DOMAIN jobs[k] = {"state", "todo", "now", "refs", "quit", "replies", "open"}
  BY JobFacts DEF SInv, TasksSound
<1>2. UNCHANGED <<net, tracked, metas>>
  BY DEF RefusePull, WaitTimesOut, SendRaises, Receive, GiveUp, sender
<1>3. PICK j : /\ With(k, j)
               /\ \/ /\ j.state = jobs[k].state /\ j.todo = jobs[k].todo
                     /\ j.now = jobs[k].now /\ j.refs = jobs[k].refs
                  \/ j.state = "over" /\ j.now = {}
  <2>1. CASE RefusePull(k)
    <3>1. PICK j : j = [jobs[k] EXCEPT !.state = "over", !.replies = <<Reply("ERROR", {})>>]
      OBVIOUS
    <3>2. j.state = "over" /\ j.now = jobs[k].now
      BY <1>1, <3>1
    <3>3. With(k, j) /\ jobs[k].state = "queued"
      BY <2>1, <3>1 DEF RefusePull
    <3>4. j.now = {}
      BY <1>1, <3>2, <3>3 DEF TaskSound
    <3> QED
      BY <3>2, <3>3, <3>4
  <2>2. CASE WaitTimesOut(k)
    <3>1. PICK j : j = [jobs[k] EXCEPT !.state = "over", !.todo = {},
                                       !.replies = Append(@, Reply("FINISH", {}))]
      OBVIOUS
    <3>2. j.state = "over" /\ j.now = jobs[k].now
      BY <1>1, <3>1
    <3>3. With(k, j) /\ jobs[k].state = "waiting"
      BY <2>2, <3>1 DEF WaitTimesOut
    <3>4. j.now = {}
      BY <1>1, <3>2, <3>3 DEF TaskSound
    <3> QED
      BY <3>2, <3>3, <3>4
  <2>3. CASE Receive(k)
    <3>1. PICK j : j = [jobs[k] EXCEPT !.open = (Head(jobs[k].replies).status = "CONTINUE"),
                                       !.replies = Tail(@)]
      OBVIOUS
    <3>2. /\ j.state = jobs[k].state /\ j.todo = jobs[k].todo /\ j.now = jobs[k].now
          /\ j.refs = jobs[k].refs
      BY <1>1, <3>1
    <3>3. With(k, j)
      BY <2>3, <3>1 DEF Receive
    <3> QED
      BY <3>2, <3>3
  <2>4. CASE GiveUp(k)
    <3>1. PICK j : j = [jobs[k] EXCEPT !.open = FALSE]
      OBVIOUS
    <3>2. /\ j.state = jobs[k].state /\ j.todo = jobs[k].todo /\ j.now = jobs[k].now
          /\ j.refs = jobs[k].refs
      BY <1>1, <3>1
    <3>3. With(k, j)
      BY <2>4, <3>1 DEF GiveUp
    <3> QED
      BY <3>2, <3>3
  <2>5. CASE SendRaises(k)
    <3>1. PICK j : j = [jobs[k] EXCEPT !.state = "over", !.now = {},
                                       !.replies = Append(@, Reply("ERROR", {}))]
      OBVIOUS
    <3>2. j.state = "over" /\ j.now = {}
      BY <1>1, <3>1
    <3>3. With(k, j)
      BY <2>5, <3>1 DEF SendRaises
    <3> QED
      BY <3>2, <3>3
  <2> QED
    BY <2>1, <2>2, <2>3, <2>4, <2>5
<1>4. /\ DOMAIN jobs' \subseteq DOMAIN jobs
      /\ \A l \in DOMAIN jobs' : jobs'[l] = IF l = k THEN j ELSE jobs[l]
  BY <1>3, WithFacts
<1>5. \A l \in DOMAIN jobs' :
        \/ /\ l \in DOMAIN jobs /\ jobs'[l].state = jobs[l].state /\ jobs'[l].todo = jobs[l].todo
           /\ jobs'[l].now = jobs[l].now /\ jobs'[l].refs = jobs[l].refs
        \/ ~Active(jobs'[l]) /\ jobs'[l].now = {}
  BY <1>3, <1>4 DEF Active
<1> QED
  BY <1>2, <1>5, HeldFrame

(* A step of one task of P. *)
LEMMA TaskHeld ==
  ASSUME DInv, SInv, HInv, NEW k \in DOMAIN jobs, NEW j, With(k, j), UNCHANGED net,
         Active(j) => \A r \in j.todo \cup j.now : j.refs[r] = Len(metas'[k[1]][r]),
         \A l \in DOMAIN jobs \ {k} : Active(jobs[l]) =>
           \A r \in jobs[l].todo \cup jobs[l].now : Len(metas'[l[1]][r]) = Len(metas[l[1]][r]),
         \A r \in j.now : r \in tracked'[k[1]] /\ metas'[k[1]][r][j.refs[r]].sending >= 1,
         \A l \in DOMAIN jobs \ {k} : \A r \in jobs[l].now :
           r \in tracked'[l[1]] /\ metas'[l[1]][r][jobs[l].refs[r]].sending >= 1,
         \A p \in PRanks, r \in Requests : \A i \in DOMAIN metas'[p][r] : metas'[p][r][i].sending >= 0
  PROVE  HInv'
<1>1. Requests' = Requests /\ PRanks' = PRanks /\ \A p : NeedSend(p)' = NeedSend(p)
  BY SameRanks
<1>2. /\ DOMAIN jobs' \subseteq DOMAIN jobs
      /\ \A l \in DOMAIN jobs' : jobs'[l] = IF l = k THEN j ELSE jobs[l]
  BY WithFacts
<1>3. Paired'
  BY <1>1 DEF HInv, Paired
<1>4. RefsCurrent'
  BY <1>2 DEF HInv, RefsCurrent, Active
<1>5. InFlight'
  BY <1>1, <1>2 DEF InFlight
<1> QED
  BY <1>3, <1>4, <1>5 DEF HInv

LEMMA TakePullHeld ==
  ASSUME DInv, SInv, HInv, NEW k \in DOMAIN jobs, TakePull(k)
  PROVE  HInv'
<1>1. /\ TaskSound(k, jobs[k])
      /\ DOMAIN jobs[k] = {"state", "todo", "now", "refs", "quit", "replies", "open"}
      /\ k[1] \in PRanks /\ k[3] \subseteq Requests
  BY JobFacts, JobRanks DEF SInv, TasksSound
<1>2. PICK new : new = k[3] \ tracked[k[1]]
  OBVIOUS
<1>3. PICK ms : ms = [r \in Requests |-> IF r \in new THEN Append(metas[k[1]][r], NewMeta(FALSE))
                                         ELSE metas[k[1]][r]]
  OBVIOUS
<1>4. PICK j : j = [jobs[k] EXCEPT !.state = "waiting", !.refs = [r \in k[3] |-> Len(ms[r])]]
  OBVIOUS
<1>5. /\ jobs[k].state = "queued" /\ With(k, j) /\ metas' = [metas EXCEPT ![k[1]] = ms]
      /\ tracked' = [tracked EXCEPT ![k[1]] = @ \cup new] /\ UNCHANGED net
  BY <1>2, <1>3, <1>4, SMTT(30) DEF TakePull
<1>6. j.todo = k[3] /\ j.now = {} /\ j.refs = [r \in k[3] |-> Len(ms[r])]
  BY <1>1, <1>4, <1>5 DEF TaskSound
<1>7. metas \in [PRanks -> [Requests -> Seq(Entries)]] /\ tracked \in [PRanks -> SUBSET Requests]
  BY DEF SInv, STypes
<1>8. \A p \in PRanks : \A r \in tracked[p] : r \in tracked'[p]
  BY <1>5, <1>7
<1>9. /\ \A r \in Requests : metas'[k[1]][r] = ms[r]
      /\ \A p \in PRanks, r \in Requests : ~(p = k[1] /\ r \in new) => metas'[p][r] = metas[p][r]
  BY <1>1, <1>3, <1>5, <1>7
<1>10. ASSUME NEW p \in PRanks, NEW r \in Requests
       PROVE  /\ \A i \in DOMAIN metas[p][r] : metas'[p][r][i] = metas[p][r][i]
              /\ \A i \in DOMAIN metas'[p][r] : i \in DOMAIN metas[p][r] \/ metas'[p][r][i].sending = 0
  <2>1. CASE p = k[1] /\ r \in new
    <3>1. metas'[p][r] = Append(metas[p][r], NewMeta(FALSE))
      BY <1>3, <1>9, <2>1
    <3>2. PICK s \in Seq(Entries) : s = metas[p][r]
      BY <1>7
    <3>3. PICK x \in Entries : x = NewMeta(FALSE) /\ x.sending = 0
      BY NewEntry
    <3>4. PICK t : t = Append(s, x)
      OBVIOUS
    <3>5. /\ \A i \in DOMAIN s : t[i] = s[i]
          /\ t[Len(s) + 1] = x
          /\ \A i \in DOMAIN t : i \in DOMAIN s \/ i = Len(s) + 1
      BY <3>4, AppendEntry
    <3>6. metas'[p][r] = t
      BY <3>1, <3>2, <3>3, <3>4
    <3> QED
      BY <3>2, <3>3, <3>5, <3>6
  <2>2. CASE ~(p = k[1] /\ r \in new)
    BY <1>9, <2>2
  <2> QED
    BY <2>1, <2>2
<1>11. ASSUME NEW l \in DOMAIN jobs \ {k}, Active(jobs[l]), NEW r \in jobs[l].todo \cup jobs[l].now
       PROVE  Len(metas'[l[1]][r]) = Len(metas[l[1]][r])
  <2>1. l[1] \in PRanks /\ r \in l[3] /\ r \in Requests
    BY JobFacts, JobRanks
  <2>2. ~(l[1] = k[1] /\ r \in new)
    BY <1>2, <2>1, OnePair DEF HInv
  <2> QED
    BY <1>9, <2>1, <2>2
<1>12. ASSUME NEW l \in DOMAIN jobs \ {k}, NEW r \in jobs[l].now
       PROVE  r \in tracked'[l[1]] /\ metas'[l[1]][r][jobs[l].refs[r]].sending >= 1
  <2>1. /\ l[1] \in PRanks /\ r \in Requests /\ jobs[l].refs[r] \in DOMAIN metas[l[1]][r]
    BY SendingFacts
  <2>2. r \in tracked[l[1]] /\ metas[l[1]][r][jobs[l].refs[r]].sending >= 1
    BY DEF HInv, InFlight
  <2> QED
    BY <1>8, <1>10, <2>1, <2>2
<1>13. ASSUME NEW p \in PRanks, NEW r \in Requests, NEW i \in DOMAIN metas'[p][r]
       PROVE  metas'[p][r][i].sending >= 0
  <2>1. CASE i \in DOMAIN metas[p][r]
    <3>1. metas[p][r][i].sending >= 0 /\ metas'[p][r][i] = metas[p][r][i]
      BY <1>10, <2>1 DEF HInv, InFlight
    <3> QED
      BY <3>1
  <2>2. CASE metas'[p][r][i].sending = 0
    BY <2>2
  <2> QED
    BY <1>10, <2>1, <2>2
<1>14. \A r \in j.todo \cup j.now : j.refs[r] = Len(metas'[k[1]][r])
  BY <1>1, <1>6, <1>9
<1>15. \A r \in j.now : r \in tracked'[k[1]] /\ metas'[k[1]][r][j.refs[r]].sending >= 1
  BY <1>6
<1> QED
  BY <1>5, <1>11, <1>12, <1>13, <1>14, <1>15, TaskHeld

(* A task marks or unmarks what it sends: the entries keep their places.   *)
LEMMA MarkHeld ==
  ASSUME DInv, SInv, HInv, NEW k \in DOMAIN jobs, NEW j, With(k, j), UNCHANGED net,
         Active(jobs[k]), j.todo \subseteq jobs[k].todo, j.now \subseteq jobs[k].todo, j.refs = jobs[k].refs,
         \A p \in PRanks, r \in Requests :
           Len(metas'[p][r]) = Len(metas[p][r]) /\ DOMAIN metas'[p][r] = DOMAIN metas[p][r],
         \A p \in PRanks, r \in Requests : \A i \in DOMAIN metas[p][r] :
           metas'[p][r][i].sending >= 0,
         \A p \in PRanks, r \in Requests : \A i \in DOMAIN metas[p][r] :
           ~(p = k[1] /\ r \in jobs[k].now) => metas'[p][r][i].sending >= metas[p][r][i].sending,
         \A p \in PRanks, r \in Requests : \A i \in DOMAIN metas[p][r] :
           metas'[p][r][i].sending \in Int /\ metas[p][r][i].sending \in Int,
         \A p \in PRanks : \A r \in tracked[p] : r \in tracked'[p] \/ (p = k[1] /\ r \in jobs[k].now),
         \A r \in j.now : r \in tracked'[k[1]] /\ metas'[k[1]][r][j.refs[r]].sending >= 1
  PROVE  HInv'
<1>1. ASSUME NEW r \in j.todo \cup j.now PROVE j.refs[r] = Len(metas'[k[1]][r])
  <2>1. k[1] \in PRanks /\ r \in Requests /\ r \in jobs[k].todo
    BY JobFacts, JobRanks
  <2> QED
    BY <2>1 DEF HInv, RefsCurrent
<1>2. ASSUME NEW l \in DOMAIN jobs \ {k}, NEW r \in jobs[l].todo \cup jobs[l].now
      PROVE  Len(metas'[l[1]][r]) = Len(metas[l[1]][r])
  BY JobFacts, JobRanks
<1>3. ASSUME NEW l \in DOMAIN jobs \ {k}, NEW r \in jobs[l].now
      PROVE  r \in tracked'[l[1]] /\ metas'[l[1]][r][jobs[l].refs[r]].sending >= 1
  <2>1. /\ l[1] \in PRanks /\ r \in Requests /\ jobs[l].refs[r] \in DOMAIN metas[l[1]][r]
        /\ Active(jobs[l])
    BY SendingFacts
  <2>2. r \in tracked[l[1]] /\ metas[l[1]][r][jobs[l].refs[r]].sending >= 1
    BY DEF HInv, InFlight
  <2>3. ~(l[1] = k[1] /\ r \in jobs[k].now)
    BY <2>1, Sole
  <2>4. PICK m, n \in Int : /\ m = metas[l[1]][r][jobs[l].refs[r]].sending
                            /\ n = metas'[l[1]][r][jobs[l].refs[r]].sending /\ n >= m
    BY <2>1, <2>3, SMTT(30)
  <2>5. r \in tracked'[l[1]]
    BY <2>1, <2>2, <2>3
  <2> QED
    BY <2>2, <2>4, <2>5, SMTT(30)
<1> QED
  BY <1>1, <1>2, <1>3, TaskHeld

LEMMA StartSendHeld ==
  ASSUME DInv, SInv, HInv, NEW k \in DOMAIN jobs, StartSend(k)
  PROVE  HInv'
<1>1. /\ TaskSound(k, jobs[k])
      /\ DOMAIN jobs[k] = {"state", "todo", "now", "refs", "quit", "replies", "open"}
      /\ k[1] \in PRanks /\ k[3] \subseteq Requests /\ jobs[k].todo \subseteq k[3]
  BY JobFacts, JobRanks DEF SInv, TasksSound
<1>2. PICK done \in SUBSET Ready(k) \ {{}} :
        /\ With(k, [jobs[k] EXCEPT !.state = "sending", !.todo = @ \ done, !.now = done \cap tracked[k[1]]])
        /\ metas' = [metas EXCEPT ![k[1]] = [r \in Requests |->
                       IF r \in done \cap tracked[k[1]]
                       THEN [metas[k[1]][r] EXCEPT ![jobs[k].refs[r]].sending = @ + 1]
                       ELSE metas[k[1]][r]]]
  BY DEF StartSend
<1>3. PICK alive : alive = done \cap tracked[k[1]]
  OBVIOUS
<1>4. PICK j : j = [jobs[k] EXCEPT !.state = "sending", !.todo = @ \ done, !.now = alive]
  OBVIOUS
<1>5. jobs[k].state = "waiting" /\ UNCHANGED <<net, tracked>> /\ With(k, j)
  BY <1>2, <1>3, <1>4 DEF StartSend
<1>6. j.todo \subseteq jobs[k].todo /\ j.now = alive /\ j.refs = jobs[k].refs /\ alive \subseteq jobs[k].todo
  BY <1>1, <1>3, <1>4 DEF Ready
<1>7. Active(jobs[k]) /\ jobs[k].now = {}
  BY <1>1, <1>5 DEF Active, TaskSound
<1>8. ASSUME NEW p \in PRanks, NEW r \in Requests
      PROVE  /\ Len(metas'[p][r]) = Len(metas[p][r]) /\ DOMAIN metas'[p][r] = DOMAIN metas[p][r]
             /\ \A i \in DOMAIN metas[p][r] :
                  /\ metas[p][r][i].sending \in Int /\ metas'[p][r][i].sending \in Int
                  /\ metas'[p][r][i].sending >= metas[p][r][i].sending
                  /\ metas'[p][r][i].sending >= 0
                  /\ p = k[1] /\ r \in alive /\ i = jobs[k].refs[r] => metas'[p][r][i].sending >= 1
  <2>1. /\ metas[p][r] \in Seq(Entries)
        /\ \A i \in DOMAIN metas[p][r] : metas[p][r][i].sending \in Int /\ metas[p][r][i].sending >= 0
    BY EntryTypes DEF SInv, HInv, InFlight, Entries
  <2>2. CASE p = k[1] /\ r \in alive
    <3>1. PICK n \in DOMAIN metas[p][r] : n = jobs[k].refs[r]
      BY <1>1, <1>5, <1>6, <2>2 DEF TaskSound
    <3>2. metas[p][r][n] \in Entries
      BY EntryTypes DEF SInv
    <3>3. PICK x : x = [metas[p][r][n] EXCEPT !.sending = @ + 1]
      OBVIOUS
    <3>4. x \in Entries /\ x.sending = metas[p][r][n].sending + 1
      BY <3>2, <3>3 DEF Entries
    <3>5. metas'[p][r] = [metas[p][r] EXCEPT ![n] = x]
      BY <1>2, <1>3, <2>2, <3>1, <3>3 DEF SInv, STypes
    <3>6. /\ metas'[p][r] \in Seq(Entries) /\ Len(metas'[p][r]) = Len(metas[p][r])
          /\ \A i \in DOMAIN metas[p][r] : metas'[p][r][i] = IF i = n THEN x ELSE metas[p][r][i]
      BY <2>1, <3>4, <3>5, EntryChange
    <3>7. DOMAIN metas'[p][r] = DOMAIN metas[p][r]
      BY <2>1, <3>6, LenProperties
    <3>8. ASSUME NEW i \in DOMAIN metas[p][r]
          PROVE  /\ metas'[p][r][i].sending \in Int /\ metas'[p][r][i].sending >= metas[p][r][i].sending
                 /\ metas'[p][r][i].sending >= 0 /\ (i = n => metas'[p][r][i].sending >= 1)
      <4>1. PICK a \in Int : a = metas[p][r][i].sending /\ a >= 0
        BY <2>1
      <4>2. CASE i = n
        <5>1. metas'[p][r][i].sending = a + 1
          BY <3>4, <3>6, <4>1, <4>2
        <5> QED
          BY <4>1, <5>1
      <4>3. CASE i # n
        <5>1. metas'[p][r][i].sending = a
          BY <3>6, <4>1, <4>3
        <5> QED
          BY <4>1, <4>3, <5>1
      <4> QED
        BY <4>2, <4>3
    <3> QED
      BY <2>1, <3>1, <3>6, <3>7, <3>8
  <2>3. CASE ~(p = k[1] /\ r \in alive)
    <3>1. metas'[p][r] = metas[p][r]
      BY <1>2, <1>3, <2>3 DEF SInv, STypes
    <3> QED
      BY <2>1, <2>3, <3>1
  <2> QED
    BY <2>2, <2>3
<1>9. ASSUME NEW r \in j.now PROVE r \in tracked'[k[1]] /\ metas'[k[1]][r][j.refs[r]].sending >= 1
  <2>1. r \in alive /\ r \in Requests /\ r \in tracked[k[1]] /\ jobs[k].refs[r] \in DOMAIN metas[k[1]][r]
    BY <1>1, <1>3, <1>5, <1>6 DEF TaskSound
  <2> QED
    BY <1>1, <1>5, <1>6, <1>8, <2>1
<1> QED
  BY <1>5, <1>6, <1>7, <1>8, <1>9, MarkHeld

LEMMA EndSendHeld ==
  ASSUME DInv, SInv, HInv, NEW k \in DOMAIN jobs, EndSend(k)
  PROVE  HInv'
<1> DEFINE object(r, ok) == [Meta(k, r) EXCEPT !.sending = @ - 1,
                                               !.sent = IF r \in ok THEN @ + 1 ELSE @]
<1>1. /\ TaskSound(k, jobs[k])
      /\ DOMAIN jobs[k] = {"state", "todo", "now", "refs", "quit", "replies", "open"}
      /\ k[1] \in PRanks /\ k[3] \subseteq Requests /\ jobs[k].now \subseteq k[3]
  BY JobFacts, JobRanks DEF SInv, TasksSound
<1>2. PICK ok \in SUBSET jobs[k].now :
        /\ metas' = [metas EXCEPT ![k[1]] = [r \in Requests |->
                       IF r \in jobs[k].now THEN [metas[k[1]][r] EXCEPT ![jobs[k].refs[r]] = object(r, ok)]
                       ELSE metas[k[1]][r]]]
        /\ tracked' = [tracked EXCEPT ![k[1]] =
                         @ \ {r \in ok \cap tracked[k[1]] : object(r, ok).sent = NeedSend(k[1])}]
        /\ With(k, [jobs[k] EXCEPT !.state = IF jobs[k].todo = {} THEN "over" ELSE "waiting",
                                   !.now = {}, !.replies = Append(@, Answer(k, ok))])
  BY DEF EndSend
<1>3. PICK over : over = {r \in ok \cap tracked[k[1]] : object(r, ok).sent = NeedSend(k[1])}
  OBVIOUS
<1>4. PICK j : j = [jobs[k] EXCEPT !.state = IF jobs[k].todo = {} THEN "over" ELSE "waiting",
                                   !.now = {}, !.replies = Append(@, Answer(k, ok))]
  OBVIOUS
<1>5. jobs[k].state = "sending" /\ UNCHANGED net /\ With(k, j)
  BY <1>2, <1>4 DEF EndSend
<1>6. j.todo = jobs[k].todo /\ j.now = {} /\ j.refs = jobs[k].refs
  BY <1>1, <1>4
<1>7. Active(jobs[k])
  BY <1>5 DEF Active
<1>8. ASSUME NEW r \in jobs[k].now
      PROVE  /\ r \in Requests /\ jobs[k].refs[r] \in DOMAIN metas[k[1]][r]
             /\ object(r, ok) \in Entries /\ object(r, ok).sending >= 0
  <2>1. /\ r \in Requests /\ jobs[k].refs[r] \in DOMAIN metas[k[1]][r]
        /\ Meta(k, r) = metas[k[1]][r][jobs[k].refs[r]]
    BY <1>1, <1>5 DEF TaskSound, Meta
  <2>2. Meta(k, r) \in Entries
    BY <1>1, <2>1, EntryTypes DEF SInv
  <2>3. Meta(k, r).sending >= 1
    BY <2>1 DEF HInv, InFlight
  <2>4. PICK m \in Entries : m = Meta(k, r)
    BY <2>2
  <2>5. PICK n : n = IF r \in ok THEN m.sent + 1 ELSE m.sent
    OBVIOUS
  <2>6. object(r, ok) = [m EXCEPT !.sending = m.sending - 1, !.sent = n]
    BY <2>4, <2>5
  <2>7. PICK a \in Int : a = m.sending - 1
    BY DEF Entries
  <2>8. n \in Nat /\ a >= 0
    <3>1. m.sending \in Int /\ m.sending >= 1 /\ m.sent \in Nat
      BY <2>3, <2>4 DEF Entries
    <3> QED
      BY <2>5, <2>7, <3>1
  <2>9. object(r, ok) \in Entries /\ object(r, ok).sending = a
    <3> HIDE DEF object
    <3> QED
      BY <2>6, <2>7, <2>8 DEF Entries
  <2> QED
    BY <2>1, <2>8, <2>9
<1>9. ASSUME NEW p \in PRanks, NEW r \in Requests
      PROVE  /\ Len(metas'[p][r]) = Len(metas[p][r]) /\ DOMAIN metas'[p][r] = DOMAIN metas[p][r]
             /\ \A i \in DOMAIN metas[p][r] :
                  /\ metas[p][r][i].sending \in Int /\ metas'[p][r][i].sending \in Int
                  /\ metas'[p][r][i].sending >= 0
                  /\ ~(p = k[1] /\ r \in jobs[k].now)
                       => metas'[p][r][i].sending >= metas[p][r][i].sending
  <2>1. /\ metas[p][r] \in Seq(Entries)
        /\ \A i \in DOMAIN metas[p][r] : metas[p][r][i].sending \in Int /\ metas[p][r][i].sending >= 0
    BY EntryTypes DEF SInv, HInv, InFlight, Entries
  <2>2. CASE p = k[1] /\ r \in jobs[k].now
    <3>1. PICK n \in DOMAIN metas[p][r] : n = jobs[k].refs[r]
      BY <1>8, <2>2
    <3>2. PICK x \in Entries : x = object(r, ok) /\ x.sending >= 0
      BY <1>8, <2>2
    <3>3. metas'[p][r] = [metas[p][r] EXCEPT ![n] = x]
      BY <1>2, <2>2, <3>1, <3>2 DEF SInv, STypes
    <3>4. /\ metas'[p][r] \in Seq(Entries) /\ Len(metas'[p][r]) = Len(metas[p][r])
          /\ \A i \in DOMAIN metas[p][r] : metas'[p][r][i] = IF i = n THEN x ELSE metas[p][r][i]
      BY <2>1, <3>2, <3>3, EntryChange
    <3>5. DOMAIN metas'[p][r] = DOMAIN metas[p][r]
      BY <2>1, <3>4, LenProperties
    <3>6. ASSUME NEW i \in DOMAIN metas[p][r]
          PROVE  metas'[p][r][i].sending \in Int /\ metas'[p][r][i].sending >= 0
      <4>1. metas'[p][r][i] = IF i = n THEN x ELSE metas[p][r][i]
        BY <3>4
      <4>2. x.sending \in Int
        BY <3>2 DEF Entries
      <4> QED
        BY <2>1, <3>2, <4>1, <4>2
    <3> QED
      BY <2>1, <2>2, <3>4, <3>5, <3>6
  <2>3. CASE ~(p = k[1] /\ r \in jobs[k].now)
    <3>1. metas'[p][r] = metas[p][r]
      BY <1>2, <2>3 DEF SInv, STypes
    <3> QED
      BY <2>1, <2>3, <3>1
  <2> QED
    BY <2>2, <2>3
<1>10. \A p \in PRanks : \A r \in tracked[p] : r \in tracked'[p] \/ (p = k[1] /\ r \in jobs[k].now)
  <2>1. tracked' = [tracked EXCEPT ![k[1]] = @ \ over] /\ over \subseteq jobs[k].now
    BY <1>2, <1>3
  <2> HIDE DEF object
  <2>2. tracked \in [PRanks -> SUBSET Requests]
    BY DEF SInv, STypes
  <2> QED
    BY <1>1, <2>1, <2>2
<1> HIDE DEF object
<1> QED
  BY <1>5, <1>6, <1>7, <1>9, <1>10, MarkHeld

(* The pairing of the ranks does not change. *)
LEMMA NetKept == [Next]_vars => net' = net
<1>1. PStep \/ DStep \/ Clients => net' = net
  BY DEF PStep, DStep, Clients, PSchedule, RecordSendReqs, FetchSent, PUpdate, PAbort,
         DSchedule, StartLoad, FetchGot, DUpdate, DAbort
<1>2. ASSUME NEW k \in DOMAIN jobs, Serve(k) \/ Receive(k) \/ GiveUp(k) PROVE net' = net
  BY <1>2 DEF Serve, TakePull, RefusePull, WaitTimesOut, StartSend, EndSend, SendRaises,
              Receive, GiveUp
<1>3. ASSUME NEW p \in PRanks, NEW r \in Requests, Expire(p, r) PROVE net' = net
  BY <1>3 DEF Expire
<1> QED
  BY <1>1, <1>2, <1>3 DEF Next, vars

LEMMA StepHeld == DInv /\ SInv /\ HInv /\ [Next]_vars => HInv'
<1> SUFFICES ASSUME DInv, SInv, HInv, [Next]_vars PROVE HInv'
  OBVIOUS
<1>1. CASE UNCHANGED <<net, tracked, metas, jobs>>
  BY <1>1, HeldFrame
<1>2. UNCHANGED vars => UNCHANGED <<net, tracked, metas, jobs>>
  BY DEF vars, sender
<1>3. Clients => UNCHANGED <<net, tracked, metas, jobs>>
  BY DEF Clients, PAbort, DAbort, sender
<1>4. PStep \/ DStep => HInv'
  BY PStepHeld, DStepHeld
<1>5. ASSUME NEW k \in DOMAIN jobs, Serve(k) \/ Receive(k) \/ GiveUp(k) PROVE HInv'
  BY <1>5, TakePullHeld, AnswerHeld, StartSendHeld, EndSendHeld DEF Serve
<1>6. ASSUME NEW p \in PRanks, NEW r \in Requests, Expire(p, r) PROVE HInv'
  BY <1>6, ExpireHeld
<1> QED
  BY <1>1, <1>2, <1>3, <1>4, <1>5, <1>6 DEF Next

(* The blocks of P stay while a rank writes them, for a deployment where   *)
(* every rank of P serves one rank of D at most: what is sent from is      *)
(* the current entry, which is then tracked and not expired, so its rank   *)
(* has not reported the request (SInv) and it is held.                     *)
THEOREM SourceSafe == Spec => []SourceHeld
<1> DEFINE Safe == DInv /\ SInv /\ (Paired => HInv)
<1>1. Init => Safe
  <2> SUFFICES ASSUME Init, Paired PROVE HInv
    BY InitLoads, InitSource
  <2>1. /\ jobs = <<>> /\ metas = [p \in PRanks |-> [r \in Requests |-> <<>>]]
    BY DEF Init
  <2>2. DOMAIN <<>> = {}
    OBVIOUS
  <2>3. DOMAIN jobs = {} /\ \A p \in PRanks, r \in Requests : DOMAIN metas[p][r] = {}
    BY <2>1, <2>2
  <2> QED
    BY <2>3 DEF HInv, RefsCurrent, InFlight
<1>2. Safe => SourceHeld
  <2> SUFFICES ASSUME DInv, SInv, HInv PROVE SourceHeld
    BY DEF SourceHeld
  <2> QED
    BY SendingFacts DEF SourceHeld
<1>3. Safe /\ [Next]_vars => Safe'
  <2> SUFFICES ASSUME Safe, [Next]_vars, Paired' PROVE HInv'
    BY StepLoads, StepSource
  <2>1. net' = net
    BY NetKept
  <2>2. Paired
    BY <2>1, SameRanks DEF Paired
  <2> QED
    BY <2>2, StepHeld
<1> QED
  BY <1>1, <1>2, <1>3, PTL DEF Spec
=============================================================================

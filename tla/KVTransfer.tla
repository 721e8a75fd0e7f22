----------------------------- MODULE KVTransfer ------------------------------
(***************************************************************************)
(* One prefill engine (P) hands the KV cache of its requests to one decode *)
(* engine (D) through the Mooncake connector.  The proxy posts a request   *)
(* to both at once under one transfer id.  Each engine steps: schedule()   *)
(* builds the connector metadata, every worker rank hands it to the event  *)
(* loop of its sender or receiver thread and later fetches what that loop  *)
(* finished, update_from_output() applies it.  The loops run beside the    *)
(* steps.  A D rank pulls a batch of requests with one message; the P rank *)
(* writes into D's blocks and answers.                                     *)
(***************************************************************************)
EXTENDS Integers, Sequences, FiniteSets, Functions, TLC

CONSTANT
  Nets   \* the deployments tried, each with what comes in: records of
         \*   requests
         \*   pairs            handshake_target_ranks: which tensor-parallel
         \*                    worker of P serves which one of D
         \*   senders          num_sender_tasks of a P rank, 2 * num_workers
         \*   pSlots, dSlots   requests whose blocks fit into the engine at once
         \*   aborts           bound: the requests whose clients may go away

(* Finitely many ranks are paired, at least one; the clients are those of  *)
(* the requests.                                                           *)
ASSUME NetsAssumption ==
  \A n \in Nets :
    /\ IsFiniteSet(n.pairs) /\ n.pairs # {} /\ n.aborts \subseteq n.requests
    /\ n.pairs \subseteq {c[1] : c \in n.pairs} \X {c[2] : c \in n.pairs}

VARIABLES
  net,       \* the deployment of this run
  pst,       \* P request: "waiting", "running", "held" (finished, in
             \* self.requests until the transfer is over) or "gone"
  pPhase,    \* where the step of P is: "idle", "record", "fetch" or "update"
  pLeft,     \* the P ranks that have this phase before them
  pDone, pDrop,     \* _reqs_need_send with blocks, _reqs_not_processed
  pMeta,     \* the connector metadata of the step: [new, blocks, drop]
  tracked,   \* rank -> the transfers in reqs_need_send
  metas,     \* rank -> request -> its SendBlockMeta objects, the last one current
  sentReqs,  \* rank -> finished_sending_reqs
  sentBy,    \* request -> ranks that reported it (KVOutputAggregator)
  dst,       \* D request: "waiting", "remote" (WAITING_FOR_REMOTE_KVS),
             \* "running", "held" (aborted in "remote") or "gone"
  dPhase, dLeft,
  dQuit,     \* _reqs_need_recv with no blocks: aborted before they were scheduled
  dMeta,     \* [pull, quit]
  pulls,     \* rank -> request -> pull_tasks_count
  gotReqs,   \* rank -> finished_recving_reqs
  gotBy,
  recved,    \* finished_recving_kv_req_ids
  unknown,   \* requests reported as received that the scheduler does not expect
  jobs,      \* <<p, d, batch>> -> the pull and its handler
  written    \* <<r, p, d>>: rank p wrote its blocks of r into rank d, for a load

pEngine == <<pst, pPhase, pLeft, pDone, pDrop, pMeta, sentBy>>
sender == <<tracked, metas, sentReqs>>
dEngine == <<dst, dPhase, dLeft, dQuit, dMeta, gotBy, recved, unknown>>
receiver == <<pulls, gotReqs>>
vars == <<net, pEngine, sender, dEngine, receiver, jobs, written>>

Requests == net.requests
PRanks == {c[1] : c \in net.pairs}
DRanks == {c[2] : c \in net.pairs}

P(where) == {r \in Requests : pst[r] \in where}
D(where) == {r \in Requests : dst[r] \in where}
Moved(st, set, to) == [r \in Requests |-> IF r \in set THEN to ELSE st[r]]

(* The proxy has posted every request to both engines. *)
Init ==
  /\ net \in Nets
  /\ pst = [r \in Requests |-> "waiting"] /\ dst = pst
  /\ pPhase = "idle" /\ pLeft = {} /\ dPhase = "idle" /\ dLeft = {}
  /\ pDone = {} /\ pDrop = {} /\ dQuit = {}
  /\ pMeta = [new |-> {}, blocks |-> {}, drop |-> {}]
  /\ dMeta = [pull |-> {}, quit |-> {}]
  /\ tracked = [p \in PRanks |-> {}]
  /\ metas = [p \in PRanks |-> [r \in Requests |-> <<>>]]
  /\ sentReqs = tracked /\ gotReqs = [d \in DRanks |-> {}]
  /\ pulls = [d \in DRanks |-> [r \in Requests |-> 0]]
  /\ sentBy = [r \in Requests |-> {}] /\ gotBy = sentBy
  /\ recved = {} /\ unknown = {} /\ jobs = <<>> /\ written = {}
-----------------------------------------------------------------------------
(* schedule() of P: preempt, or admit; build_connector_meta(). *)
PSchedule ==
  \E admit \in SUBSET P({"waiting"}), preempt \in SUBSET P({"running"}) :
    /\ pPhase = "idle" /\ (P({"waiting", "running", "held"}) # {} \/ pDrop # {})
    /\ preempt # {} => admit = {}
    /\ Cardinality(admit \cup P({"running", "held"})) <= net.pSlots
    /\ pst' = Moved(Moved(pst, admit, "running"), preempt, "waiting")
    /\ pMeta' = [new |-> admit, blocks |-> pDone, drop |-> pDrop]
    /\ pDone' = {} /\ pDrop' = {}
    /\ pPhase' = IF admit \cup pDone \cup pDrop = {} THEN "fetch" ELSE "record"
    /\ pLeft' = PRanks
    /\ UNCHANGED <<net, sentBy, sender, dEngine, receiver, jobs, written>>

PNext(p, after, last) ==
  /\ p \in pLeft
  /\ IF pLeft = {p} THEN pPhase' = after /\ pLeft' = last
     ELSE pLeft' = pLeft \ {p} /\ UNCHANGED pPhase

NewMeta(owned) == [owned |-> owned, ready |-> FALSE, late |-> FALSE, sent |-> 0, sending |-> 0]
Current(p, r) == metas[p][r][Len(metas[p][r])]

(***************************************************************************)
(* record_send_reqs: a new request gets an entry unless a pull made one; a *)
(* finished one gets its blocks and becomes ready; a dropped one is popped *)
(* without a default, so an untracked one ends the loop over the set.      *)
(***************************************************************************)
RecordSendReqs(p) ==
  LET new == pMeta.new \ tracked[p]
      known == tracked[p] \cup new
      drop == pMeta.drop
  IN  /\ pPhase = "record" /\ PNext(p, "fetch", PRanks)
      /\ \E popped \in SUBSET (drop \cap known) :
           /\ drop \subseteq known => popped = drop
           /\ tracked' = [tracked EXCEPT ![p] = known \ popped]
      /\ metas' = [metas EXCEPT ![p] = [r \in Requests |->
           IF r \in new THEN Append(metas[p][r], NewMeta(TRUE))
           ELSE IF r \in pMeta.blocks \cap known
                THEN [metas[p][r] EXCEPT ![Len(metas[p][r])].owned = TRUE,
                                         ![Len(metas[p][r])].ready = TRUE]
           ELSE metas[p][r]]]
      /\ UNCHANGED <<net, pst, pDone, pDrop, pMeta, sentBy, sentReqs, dEngine, receiver, jobs,
                     written>>

(* Mutant of Expired: what is being sent expires too. *)
ExpiredSending(p) == {r \in tracked[p] : Current(p, r).owned /\ Current(p, r).late}

(* Mutant of Expired: what a part was sent of is taken for finished. *)
ExpiredUntried(p) ==
  {r \in tracked[p] :
     Current(p, r).owned /\ Current(p, r).late /\ Current(p, r).sending + Current(p, r).sent = 0}

(* fetch_finished_sending_reqs: also what expired and is not being sent. *)
Expired(p) ==
  {r \in tracked[p] :
     Current(p, r).owned /\ Current(p, r).late /\ Current(p, r).sending = 0}
(* Mutant of Kept: what expired stays in reqs_need_send. *)
KeptAll(p) == tracked[p]
Kept(p) == tracked[p] \ Expired(p)

FetchSent(p) ==
  LET over == sentReqs[p] \cup Expired(p)
  IN  /\ pPhase = "fetch" /\ PNext(p, "update", {})
      /\ sentReqs' = [sentReqs EXCEPT ![p] = {}]
      /\ tracked' = [tracked EXCEPT ![p] = Kept(p)]
      /\ sentBy' = [r \in Requests |-> IF r \in over THEN sentBy[r] \cup {p} ELSE sentBy[r]]
      /\ UNCHANGED <<net, pst, pDone, pDrop, pMeta, metas, dEngine, receiver, jobs, written>>

(***************************************************************************)
(* update_from_output of P: prefills reach their one token and keep their  *)
(* blocks; the requests every rank reported are freed.                     *)
(***************************************************************************)
SendingOver == {r \in Requests : sentBy[r] = PRanks}
PUpdate ==
  \E done \in SUBSET P({"running"}) :
    /\ pPhase = "update" /\ pPhase' = "idle"
    /\ pst' = Moved(Moved(pst, done, "held"), SendingOver, "gone")
    /\ pDone' = pDone \cup done
    /\ sentBy' = [r \in Requests |-> IF r \in SendingOver THEN {} ELSE sentBy[r]]
    /\ pMeta' = [new |-> {}, blocks |-> {}, drop |-> {}]
    /\ UNCHANGED <<net, pLeft, pDrop, sender, dEngine, receiver, jobs, written>>

(* finish_requests: the transfer is not to be processed, the blocks are freed. *)
PAbort(r) ==
  /\ pst[r] \in {"waiting", "running"}
  /\ pst' = [pst EXCEPT ![r] = "gone"] /\ pDrop' = pDrop \cup {r}
  /\ UNCHANGED <<net, pPhase, pLeft, pDone, pMeta, sentBy, sender, dEngine, receiver, jobs,
                 written>>
-----------------------------------------------------------------------------
(***************************************************************************)
(* The sender loop of P.  A job is queued by its message, taken by one of  *)
(* the sender tasks, waits for its requests to become ready, and sends     *)
(* those that are, in rounds, until none is left.                          *)
(***************************************************************************)
Busy(p) == {k \in DOMAIN jobs : k[1] = p /\ jobs[k].state \in {"waiting", "sending"}}
Reply(status, ok) == [status |-> status, ok |-> ok]
Over(j) == j.state = "over" /\ (j.replies = <<>> \/ ~j.open)
With(k, job) ==   \* a job that both sides are done with is forgotten
  LET new == [jobs EXCEPT ![k] = job]
  IN  jobs' = Restrict(new, {i \in DOMAIN new : ~Over(new[i])})

TakePull(k) ==
  LET p == k[1]
      new == k[3] \ tracked[p]
      ms == [r \in Requests |-> IF r \in new THEN Append(metas[p][r], NewMeta(FALSE))
                                ELSE metas[p][r]]
  IN  /\ jobs[k].state = "queued" /\ Cardinality(Busy(p)) < net.senders
      /\ tracked' = [tracked EXCEPT ![p] = @ \cup new]
      /\ metas' = [metas EXCEPT ![p] = ms]
      /\ With(k, [jobs[k] EXCEPT !.state = "waiting", !.refs = [r \in k[3] |-> Len(ms[r])]])
      /\ UNCHANGED <<net, pEngine, sentReqs, dEngine, receiver, written>>

(* The message cannot be served: the whole batch gets an error. *)
RefusePull(k) ==
  /\ jobs[k].state = "queued"
  /\ With(k, [jobs[k] EXCEPT !.state = "over", !.replies = <<Reply("ERROR", {})>>])
  /\ UNCHANGED <<net, pEngine, sender, dEngine, receiver, written>>

Meta(k, r) == metas[k[1]][r][jobs[k].refs[r]]
Ready(k) == {r \in jobs[k].todo : Meta(k, r).ready}

(* Mark what is still in reqs_need_send as being sent. *)
StartSend(k) ==
  /\ jobs[k].state = "waiting"
  /\ \E done \in SUBSET Ready(k) \ {{}} :
       LET alive == done \cap tracked[k[1]]
       IN  /\ With(k, [jobs[k] EXCEPT !.state = "sending", !.todo = @ \ done, !.now = alive])
           /\ metas' = [metas EXCEPT ![k[1]] = [r \in Requests |->
                IF r \in alive THEN [metas[k[1]][r] EXCEPT ![jobs[k].refs[r]].sending = @ + 1]
                ELSE metas[k[1]][r]]]
  /\ UNCHANGED <<net, pEngine, tracked, sentReqs, dEngine, receiver, written>>

NeedSend(p) == Cardinality({d \in DRanks : <<p, d>> \in net.pairs})

(* Mutant of Answer: what failed is answered as done. *)
AnswerAll(k, ok) ==
  Reply(IF jobs[k].todo = {} THEN "FINISH" ELSE "CONTINUE", jobs[k].now)
Answer(k, ok) == Reply(IF jobs[k].todo = {} THEN "FINISH" ELSE "CONTINUE", ok)

(* The blocks are written, or the engine fails for some; answer the pull. *)
EndSend(k) ==
  \E ok \in SUBSET jobs[k].now :
    LET p == k[1]
        object(r) == [Meta(k, r) EXCEPT !.sending = @ - 1,
                                        !.sent = IF r \in ok THEN @ + 1 ELSE @]
        over == {r \in ok \cap tracked[p] : object(r).sent = NeedSend(p)}
    IN  /\ jobs[k].state = "sending"
        /\ metas' = [metas EXCEPT ![p] = [r \in Requests |->
             IF r \in jobs[k].now THEN [metas[p][r] EXCEPT ![jobs[k].refs[r]] = object(r)]
             ELSE metas[p][r]]]
        /\ tracked' = [tracked EXCEPT ![p] = @ \ over]
        /\ sentReqs' = [sentReqs EXCEPT ![p] = @ \cup over]
        /\ written' = written \cup {<<r, p, k[2]>> : r \in ok \ jobs[k].quit}
        /\ With(k, [jobs[k] EXCEPT !.state = IF jobs[k].todo = {} THEN "over" ELSE "waiting",
                                   !.now = {}, !.replies = Append(@, Answer(k, ok))])
        /\ UNCHANGED <<net, pEngine, dEngine, receiver>>

(***************************************************************************)
(* An exception between marking and answering: an assertion on the blocks, *)
(* or the engine raises.  The pull gets an error, and nobody takes the     *)
(* marks back.                                                             *)
(***************************************************************************)
SendRaises(k) ==
  /\ jobs[k].state = "sending"
  /\ With(k, [jobs[k] EXCEPT !.state = "over", !.now = {},
                             !.replies = Append(@, Reply("ERROR", {}))])
  /\ UNCHANGED <<net, pEngine, sender, dEngine, receiver, written>>

(* Nothing became ready in VLLM_MOONCAKE_ABORT_REQUEST_TIMEOUT. *)
WaitTimesOut(k) ==
  /\ jobs[k].state = "waiting" /\ Ready(k) = {}
  /\ With(k, [jobs[k] EXCEPT !.state = "over", !.todo = {},
                             !.replies = Append(@, Reply("FINISH", {}))])
  /\ UNCHANGED <<net, pEngine, sender, dEngine, receiver, written>>

(***************************************************************************)
(* The same time after its blocks were recorded an entry expires.  A task  *)
(* whose request is ready wakes up at once, long before that.              *)
(***************************************************************************)
Expire(p, r) ==
  /\ r \in tracked[p] /\ Current(p, r).ready /\ ~Current(p, r).late
  /\ \A k \in DOMAIN jobs :
       k[1] = p /\ jobs[k].state = "waiting" => r \notin Ready(k)
  /\ metas' = [metas EXCEPT ![p][r][Len(metas[p][r])].late = TRUE]
  /\ UNCHANGED <<net, pEngine, tracked, sentReqs, dEngine, receiver, jobs, written>>
-----------------------------------------------------------------------------
(* The receiver loop of D: answers are handled in order. *)
Receive(k) ==
  LET reply == Head(jobs[k].replies)
      d == k[2]
      left == [r \in Requests |-> IF r \in reply.ok THEN pulls[d][r] - 1 ELSE pulls[d][r]]
  IN  /\ jobs[k].open /\ jobs[k].replies # <<>>
      /\ With(k, [jobs[k] EXCEPT !.open = (reply.status = "CONTINUE"), !.replies = Tail(@)])
      /\ pulls' = [pulls EXCEPT ![d] = left]
      /\ gotReqs' = [gotReqs EXCEPT ![d] = @ \cup {r \in reply.ok : left[r] = 0}]
      /\ UNCHANGED <<net, pEngine, sender, dEngine, written>>

(* Nothing came in RCVTIMEO, or the socket failed: the batch is given up. *)
GiveUp(k) ==
  /\ jobs[k].open /\ jobs[k].replies = <<>> /\ With(k, [jobs[k] EXCEPT !.open = FALSE])
  /\ UNCHANGED <<net, pEngine, sender, dEngine, receiver, written>>
-----------------------------------------------------------------------------
(***************************************************************************)
(* schedule() of D: loads that arrived are promoted, and new requests get  *)
(* blocks and are pulled.  A preempted request is computed again in D and  *)
(* never calls the connector again: here it goes on running.               *)
(***************************************************************************)
Working == unknown = {}
DSchedule ==
  \E admit \in SUBSET D({"waiting"}) :
    /\ dPhase = "idle" /\ Working
    /\ D({"waiting", "remote", "running", "held"}) # {} \/ dQuit # {}
    /\ Cardinality(admit \cup D({"remote", "running", "held"})) <= net.dSlots
    /\ dst' = Moved(Moved(dst, recved, "running"), admit, "remote")
    /\ recved' = {} /\ written' = {w \in written : w[1] \notin recved}
    /\ dMeta' = [pull |-> admit, quit |-> dQuit] /\ dQuit' = {}
    /\ dPhase' = IF admit \cup dQuit = {} THEN "fetch" ELSE "load"
    /\ dLeft' = DRanks
    /\ UNCHANGED <<net, pEngine, sender, gotBy, unknown, receiver, jobs>>

DNext(d, after, last) ==
  /\ Working /\ d \in dLeft
  /\ IF dLeft = {d} THEN dPhase' = after /\ dLeft' = last
     ELSE dLeft' = dLeft \ {d} /\ UNCHANGED dPhase

NewJob(batch) ==
  [state |-> "queued", todo |-> batch, now |-> {}, refs |-> <<>>, quit |-> dMeta.quit,
   replies |-> <<>>, open |-> TRUE]

(* The P ranks that a D rank pulls from. *)
Served(d) == {p \in PRanks : <<p, d>> \in net.pairs}

(* start_load_kv: one message to each paired P rank, unless its address is unknown. *)
StartLoad(d) ==
  LET batch == dMeta.pull \cup dMeta.quit
      asked == Served(d) \X {d} \X {batch}
  IN  /\ dPhase = "load" /\ DNext(d, "fetch", DRanks)
      /\ \/ /\ jobs' = [k \in asked \cup DOMAIN jobs |-> IF k \in asked THEN NewJob(batch) ELSE jobs[k]]
            /\ pulls' = [pulls EXCEPT ![d] = [r \in Requests |->
                 IF r \in batch THEN Cardinality(Served(d)) ELSE pulls[d][r]]]
         \/ UNCHANGED <<jobs, pulls>>
      /\ UNCHANGED <<net, pEngine, sender, dst, dQuit, dMeta, gotBy, recved, unknown, gotReqs,
                     written>>

FetchGot(d) ==
  /\ dPhase = "fetch" /\ DNext(d, "update", {})
  /\ gotReqs' = [gotReqs EXCEPT ![d] = {}]
  /\ gotBy' = [r \in Requests |-> IF r \in gotReqs[d] THEN gotBy[r] \cup {d} ELSE gotBy[r]]
  /\ UNCHANGED <<net, pEngine, sender, dst, dQuit, dMeta, recved, unknown, pulls, jobs, written>>

(***************************************************************************)
(* update_from_output of D: requests finish and are freed; a received one  *)
(* may be promoted, or is freed if it was aborted meanwhile.  Any other    *)
(* one fails the assertions there and D stops.                             *)
(***************************************************************************)
ReceiveOver == {r \in Requests : gotBy[r] = DRanks}
DUpdate ==
  \E done \in SUBSET D({"running"}) :
    /\ dPhase = "update" /\ dPhase' = "idle" /\ Working
    /\ recved' = recved \cup (ReceiveOver \cap D({"remote"}))
    /\ unknown' = ReceiveOver \ D({"remote", "held"})
    /\ dst' = Moved(dst, done \cup (ReceiveOver \cap D({"held"})), "gone")
    /\ gotBy' = [r \in Requests |-> IF r \in ReceiveOver THEN {} ELSE gotBy[r]]
    /\ dMeta' = [pull |-> {}, quit |-> {}]
    /\ UNCHANGED <<net, pEngine, sender, dLeft, dQuit, receiver, jobs, written>>

(* Mutant of AfterAbort: the blocks of a load are freed at once. *)
AfterAbortFree(r) == "gone"
AfterAbort(r) == IF dst[r] = "remote" /\ r \notin recved THEN "held" ELSE "gone"

(***************************************************************************)
(* finish_requests of D: a request that was never scheduled still has to   *)
(* release the blocks of P; one that is loading keeps its blocks.          *)
(***************************************************************************)
DAbort(r) ==
  /\ Working /\ dst[r] \in {"waiting", "remote", "running"}
  /\ dst' = [dst EXCEPT ![r] = AfterAbort(r)]
  /\ dQuit' = IF dst[r] = "waiting" THEN dQuit \cup {r} ELSE dQuit
  /\ recved' = recved \ {r}
  /\ UNCHANGED <<net, pEngine, sender, dPhase, dLeft, dMeta, gotBy, unknown, receiver, jobs,
                 written>>
-----------------------------------------------------------------------------
PStep == PSchedule \/ (\E p \in PRanks : RecordSendReqs(p) \/ FetchSent(p)) \/ PUpdate
DStep == DSchedule \/ (\E d \in DRanks : StartLoad(d) \/ FetchGot(d)) \/ DUpdate
Clients == \E r \in net.aborts : PAbort(r) \/ DAbort(r)
Serve(k) ==
  \/ TakePull(k) \/ RefusePull(k) \/ WaitTimesOut(k)
  \/ StartSend(k) \/ EndSend(k) \/ SendRaises(k)
Next ==
  \/ PStep \/ DStep \/ Clients
  \/ \E k \in DOMAIN jobs : Serve(k) \/ Receive(k) \/ GiveUp(k)
  \/ \E p \in PRanks, r \in Requests : Expire(p, r)

Spec == Init /\ [][Next]_vars

(***************************************************************************)
(* What the code of P schedules by itself, whatever D does: the engine     *)
(* steps while it has requests, clocks run, a started transfer returns.    *)
(***************************************************************************)
AllRequests == UNION {n.requests : n \in Nets}
AllJobs == UNION {n.pairs \X (SUBSET n.requests \ {{}}) : n \in Nets}
PFairness ==
  /\ WF_vars(PStep)
  /\ \A p \in {c[1][1] : c \in AllJobs}, r \in AllRequests :
       WF_vars(p \in PRanks /\ r \in Requests /\ Expire(p, r))
  /\ \A c \in AllJobs :
       LET k == <<c[1][1], c[1][2], c[2]>>
       IN  WF_vars(k \in DOMAIN jobs /\ (StartSend(k) \/ EndSend(k) \/ SendRaises(k)))
FairP == Spec /\ PFairness
-----------------------------------------------------------------------------
(* Every rank of P serves one rank of D at most. *)
Paired == \A p \in PRanks : NeedSend(p) <= 1

(***************************************************************************)
(* While a rank of P writes the blocks of a request to D, P has not freed  *)
(* them: no expiry, abort or other rank takes them away.  This is said of  *)
(* ranks paired as deployed (stage-v3/REPORT.md:88) and holds only there.  *)
(* Where a rank of P serves two of D, the late pull of the second can make *)
(* an entry again under the id that the task of the first looks up to see  *)
(* whether it may still send (mooncake_connector.py:1307).                 *)
(***************************************************************************)
SourceHeld ==
  Paired => \A k \in DOMAIN jobs : \A r \in jobs[k].now \ jobs[k].quit : pst[r] = "held"

(***************************************************************************)
(* While a transfer writes into blocks of D, the request they were         *)
(* allocated to still has them, whatever its client did.                   *)
(***************************************************************************)
DestinationHeld ==
  Working => \A k \in DOMAIN jobs : \A r \in jobs[k].now \ jobs[k].quit :
               dst[r] \in {"remote", "held"}

(***************************************************************************)
(* The assertions of P hold: a request is reported as sent once and while  *)
(* it waits for that, the entry its blocks are recorded in is there, and a *)
(* dropped transfer was never made ready.                                  *)
(***************************************************************************)
SentOnce ==
  /\ SendingOver \subseteq P({"held"})
  /\ pPhase = "record" => \A p \in pLeft :
       /\ pMeta.blocks \subseteq tracked[p]
       /\ \A r \in pMeta.drop \cap tracked[p] : ~Current(p, r).ready

(***************************************************************************)
(* D computes on a load only after every paired rank of P wrote its part.  *)
(***************************************************************************)
LoadComplete == \A r \in recved : {<<r, c[1], c[2]>> : c \in net.pairs} \subseteq written

(* A send raised and left its mark on the entry that holds the blocks of r. *)
LeftMarked(r) ==
  \E p \in PRanks :
    /\ r \in tracked[p] /\ Current(p, r).owned /\ Current(p, r).sending > 0
    /\ \A k \in DOMAIN jobs : k[1] = p => r \notin jobs[k].now

(***************************************************************************)
(* P strands blocks in one way only: whatever D and the clients do, no     *)
(* finished request waits for ever to be freed, by its transfer or by the  *)
(* expiry, unless a send raised after it marked the request.               *)
(***************************************************************************)
SourceReleased == \A r \in AllRequests : []<>(r \notin P({"held"}) \/ LeftMarked(r))
-----------------------------------------------------------------------------
(* What the code says of itself and does not keep. *)

(* scheduler.py:2639, "assert req_id in self.requests" for a received load. *)
ReceivedKnown == unknown = {}
=============================================================================

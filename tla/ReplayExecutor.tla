--------------------------- MODULE ReplayExecutor ---------------------------
(***************************************************************************)
(* The replay client: every planned node of every session is a coroutine   *)
(* of one event loop, which waits for the node it is sent after, for the   *)
(* context it continues and for its release time, and sends its request    *)
(* through request_admission's semaphore.  A step is the code between two  *)
(* awaits.  Nodes fail on their own, a session can run into its task       *)
(* timeout, and the two log files of request_admission can fail to open.   *)
(* Clocks are left out: a released node may be sent at any later moment.   *)
(***************************************************************************)
EXTENDS OrderedDicts

CONSTANTS
  Sessions,
  Plans,           \* the plan of each session: its nodes by their keys
  NoKey,           \* no reference to another node
  MaxConcurrency,
  MaxFaults,       \* bound: nodes with a fault of their own
  MayTimeOut       \* the sessions whose task timeout can expire

ASSUME ConcurrencyAssumption == MaxConcurrency \in Nat \ {0}

(* A planned context is a request of the same plan: the analyzer takes     *)
(* only answers with token counts, and those are replayed.                 *)
ASSUME PlansAssumption ==
  \A s \in Sessions : \A k \in DOMAIN Plans[s] :
    Plans[s][k].context_after # NoKey =>
      \E c \in DOMAIN Plans[s] : c = Plans[s][k].context_after /\ Plans[s][c].request

VARIABLES
  plan,         \* the plan in force, as Plans gives it
  session,      \* building, running, cancelling or done
  timedOut,     \* the sessions whose timeout expired
  stage,        \* where each node is: waiting, released, queued, woken, sending, over
  prompt,       \* none, ready or failed
  completion,   \* none, success, failed or skipped
  results,      \* what the executor reports of its nodes
  slots, line,  \* _request_slots: its value, the waiters not woken yet
  active,       \* _active_requests
  struck        \* the nodes that had a fault of their own

vars == <<plan, session, timedOut, stage, prompt, completion, results, slots, line, active, struck>>
admission == <<slots, line, active>>

Of(s) == {s} \X DOMAIN plan[s]
Nodes == UNION {Of(s) : s \in Sessions}
Node(id) == plan[id[1]][id[2]]
Peer(id, k) == <<id[1], k>>
Roots(s) == {id \in Of(s) : Node(id).request /\ Node(id).context_after = NoKey}

Going(id, at) == session[id[1]] = "running" /\ stage[id] = at
(* The nodes that have a slot: handed over, or with a request out. *)
Holding == {id \in Nodes : stage[id] \in {"woken", "sending"}}
MayFail == Cardinality(struck) < MaxFaults

(* What a node waits for; a missing reference is never waited for. *)
Ended(id, k) == \A j \in {k} \ {NoKey} : completion[Peer(id, j)] # "none"
Continues(id) == Node(id).request /\ Node(id).context_after # NoKey
ContextIs(id, outcomes) == completion[Peer(id, Node(id).context_after)] \in outcomes

(* Mutant of Skippable: the node sent before has to succeed as well. *)
SkippableAfter(id) ==
  \/ Continues(id) /\ ContextIs(id, {"failed", "skipped"})
  \/ LET k == Node(id).send_after
     IN  k # NoKey /\ completion[Peer(id, k)] \in {"failed", "skipped"}

(* Only a context that failed keeps a request from being sent. *)
Skippable(id) == Continues(id) /\ ContextIs(id, {"failed", "skipped"})

Init ==
  /\ plan = Plans
  /\ session = [s \in Sessions |-> "building"]
  /\ timedOut = {} /\ struck = {} /\ results = {}
  /\ stage = [id \in Nodes |-> "waiting"]
  /\ prompt = [id \in Nodes |-> "none"]
  /\ completion = [id \in Nodes |-> "none"]
  /\ slots = MaxConcurrency /\ line = <<>> /\ active = 0

-----------------------------------------------------------------------------
(* Parts of steps *)

(* Mutant of Resolve: a failed node is reported, its future is not set. *)
ResolveSuccess(id, status, attempted) ==
  /\ completion' = [completion EXCEPT ![id] = IF status = "success" THEN status ELSE @]
  /\ results' = results \cup {[node |-> id, status |-> status, attempted |-> attempted]}

(* A node sets its completion future and appends its NodeExecution.        *)
(* attempted says that the entry carries a send offset.                    *)
Resolve(id, status, attempted) ==
  /\ completion' = [completion EXCEPT ![id] = status]
  /\ results' = results \cup {[node |-> id, status |-> status, attempted |-> attempted]}

(* Semaphore.locked(): nothing is free, or a waiter has not run yet.       *)
Locked == slots = 0 \/ line # <<>> \/ \E id \in Nodes : stage[id] = "woken"

(* Mutant of HandOn: the slots are counted as free and handed on as well.  *)
HandOnTwice(id, to, back, most) ==
  LET others == Without(line, id)
      n == IF most < Len(others) THEN most ELSE Len(others)
      next == {others[i] : i \in 1 .. n}
  IN  /\ slots' = slots + back
      /\ line' = SubSeq(others, n + 1, Len(others))
      /\ stage' = [x \in DOMAIN stage |->
                     IF x = id THEN to ELSE IF x \in next THEN "woken" ELSE stage[x]]

(***************************************************************************)
(* A node moves on, back slots come back (or are taken), and most waiters  *)
(* at most are woken, those that wait longest: each has its slot by then.  *)
(***************************************************************************)
HandOn(id, to, back, most) ==
  LET others == Without(line, id)
      n == IF most < Len(others) THEN most ELSE Len(others)
      next == {others[i] : i \in 1 .. n}
  IN  /\ slots' = slots + back - n
      /\ line' = SubSeq(others, n + 1, Len(others))
      /\ stage' = [x \in DOMAIN stage |->
                     IF x = id THEN to ELSE IF x \in next THEN "woken" ELSE stage[x]]

(***************************************************************************)
(* release() wakes one waiter.  A waiter that runs wakes others for slots  *)
(* that came free since, one of them or all; one that is cancelled in line *)
(* may wake some: releases of CPython differ.                              *)
(***************************************************************************)
Leave(id) == HandOn(id, "over", 1, 1)
Taken(id) == \E most \in 0 .. slots : (slots > 0 => most > 0) /\ HandOn(id, "sending", 0, most)
Untaken(id) == \E most \in 1 .. slots + 1 : HandOn(id, "over", 1, most)
Unlined(id) == \E most \in 0 .. slots : HandOn(id, "over", 0, most)

-----------------------------------------------------------------------------
(* A session *)

(* Every root prompt is built, or failed to be, before any node starts. *)
Start(s) ==
  /\ session[s] = "building"
  /\ \E bad \in SUBSET Roots(s) :
       /\ Cardinality(struck \cup bad) <= MaxFaults
       /\ struck' = struck \cup bad
       /\ prompt' = [id \in DOMAIN prompt |->
                       IF id \in bad THEN "failed" ELSE IF id \in Roots(s) THEN "ready" ELSE prompt[id]]
  /\ session' = [session EXCEPT ![s] = "running"]
  /\ UNCHANGED <<plan, timedOut, stage, completion, results, admission>>

(* wait_for gives up; the nodes that are not over are cancelled. *)
Timeout(s) ==
  /\ s \in MayTimeOut /\ session[s] \in {"building", "running"}
  /\ session' = [session EXCEPT ![s] = IF @ = "building" THEN "done" ELSE "cancelling"]
  /\ timedOut' = timedOut \cup {s}
  /\ UNCHANGED <<plan, stage, prompt, completion, results, admission, struck>>

(* The graph is done when every node is. *)
Finish(s) ==
  /\ session[s] \in {"running", "cancelling"}
  /\ \A id \in Of(s) : stage[id] = "over"
  /\ session' = [session EXCEPT ![s] = "done"]
  /\ UNCHANGED <<plan, timedOut, stage, prompt, completion, results, admission, struck>>

-----------------------------------------------------------------------------
(* A node *)

Over(id) == stage' = [stage EXCEPT ![id] = "over"]

BuildPrompt(id) ==
  /\ Going(id, "waiting") /\ prompt[id] = "none"
  /\ Continues(id) /\ ContextIs(id, {"success"})
  /\ \/ prompt' = [prompt EXCEPT ![id] = "ready"] /\ UNCHANGED struck
     \/ MayFail /\ prompt' = [prompt EXCEPT ![id] = "failed"] /\ struck' = struck \cup {id}
  /\ UNCHANGED <<plan, session, timedOut, stage, completion, results, admission>>

(* A missing prompt ends the node at once, whatever it is sent after. *)
PromptMissing(id) ==
  /\ Going(id, "waiting") /\ prompt[id] = "failed"
  /\ Over(id) /\ Resolve(id, "failed", FALSE)
  /\ UNCHANGED <<plan, session, timedOut, prompt, admission, struck>>

Skip(id) ==
  /\ Going(id, "waiting") /\ prompt[id] = "none" /\ Skippable(id)
  /\ Over(id) /\ Resolve(id, "skipped", FALSE)
  /\ UNCHANGED <<plan, session, timedOut, prompt, admission, struck>>

Release(id) ==
  /\ Going(id, "waiting")
  /\ Node(id).request => prompt[id] = "ready"
  /\ Ended(id, Node(id).send_after)
  /\ stage' = [stage EXCEPT ![id] = "released"]
  /\ UNCHANGED <<plan, session, timedOut, prompt, completion, results, admission, struck>>

(* A timing dependency only lasts as long as its row did. *)
Elapse(id) ==
  /\ Going(id, "released") /\ ~Node(id).request
  /\ Over(id) /\ Resolve(id, "success", FALSE)
  /\ UNCHANGED <<plan, session, timedOut, prompt, admission, struck>>

Queue(id) ==
  /\ Going(id, "released") /\ Node(id).request
  /\ Locked
  /\ line' = Append(line, id)
  /\ stage' = [stage EXCEPT ![id] = "queued"]
  /\ UNCHANGED <<plan, session, timedOut, prompt, completion, results, slots, active, struck>>

(* The slot is free, or was handed over; the request goes out. *)
Send(id) ==
  /\ \/ Going(id, "released") /\ Node(id).request /\ ~Locked /\ HandOn(id, "sending", -1, 0)
     \/ Going(id, "woken") /\ Taken(id)
  /\ active' = active + 1
  /\ UNCHANGED <<plan, session, timedOut, prompt, completion, results, struck>>

(* The sample file cannot be written: the slot goes back, the count not. *)
SampleFails(id) ==
  /\ MayFail
  /\ \/ /\ Going(id, "released") /\ Node(id).request /\ ~Locked
        /\ Over(id) /\ UNCHANGED <<slots, line>>
     \/ Going(id, "woken") /\ Untaken(id)
  /\ active' = active + 1
  /\ struck' = struck \cup {id}
  /\ Resolve(id, "failed", FALSE)
  /\ UNCHANGED <<plan, session, timedOut, prompt>>

(* The request is answered, or fails on its way. *)
Answer(id) ==
  /\ Going(id, "sending")
  /\ active' = active - 1 /\ Leave(id)
  /\ \/ Resolve(id, "success", TRUE) /\ UNCHANGED struck
     \/ MayFail /\ Resolve(id, "failed", TRUE) /\ struck' = struck \cup {id}
  /\ UNCHANGED <<plan, session, timedOut, prompt>>

(* The transport raises, or the admission log cannot be written. *)
SendRaises(id) ==
  /\ Going(id, "sending") /\ MayFail
  /\ active' = active - 1 /\ Leave(id)
  /\ Resolve(id, "failed", FALSE) /\ struck' = struck \cup {id}
  /\ UNCHANGED <<plan, session, timedOut, prompt>>

(* A cancelled node leaves no result, unless its log cannot be written. *)
Cancel(id) ==
  /\ session[id[1]] = "cancelling" /\ stage[id] # "over"
  /\ CASE stage[id] = "sending" -> active' = active - 1 /\ Leave(id)
       [] stage[id] = "woken"   -> Untaken(id) /\ UNCHANGED active
       [] stage[id] = "queued"  -> Unlined(id) /\ UNCHANGED active
       [] OTHER                 -> Over(id) /\ UNCHANGED admission
  /\ \/ UNCHANGED <<results, struck>>
     \/ /\ stage[id] = "sending" /\ MayFail
        /\ results' = results \cup {[node |-> id, status |-> "failed", attempted |-> FALSE]}
        /\ struck' = struck \cup {id}
  /\ UNCHANGED <<plan, session, timedOut, prompt, completion>>

NodeStep(id) ==
  \/ BuildPrompt(id) \/ PromptMissing(id) \/ Skip(id) \/ Release(id) \/ Elapse(id)
  \/ Queue(id) \/ Send(id) \/ SampleFails(id) \/ Answer(id) \/ SendRaises(id) \/ Cancel(id)
Next ==
  \/ \E s \in Sessions : Start(s) \/ Timeout(s) \/ Finish(s)
  \/ \E id \in Nodes : NodeStep(id)

Spec == Init /\ [][Next]_vars

(***************************************************************************)
(* The event loop resumes every coroutine that can go on; clocks pass, and *)
(* request_timeout_seconds ends every request.  No timeout of a task has   *)
(* to expire.                                                              *)
(***************************************************************************)
FairSpec ==
  /\ Spec
  /\ \A s \in Sessions : WF_vars(Start(s) \/ Finish(s))
  /\ \A s \in Sessions : \A k \in DOMAIN Plans[s] : WF_vars(NodeStep(<<s, k>>))

-----------------------------------------------------------------------------
(* Properties *)

(* The node and the nodes whose answers its prompt goes on from, as far    *)
(* back as they reach: the least set with the node and the contexts.       *)
ContextOf(id) == Peer(id, Node(id).context_after)
WithContexts(S) == \A n \in S : Continues(n) => ContextOf(n) \in S
Lineage(id) ==
  {n \in Of(id[1]) : \A S \in SUBSET Of(id[1]) : id \in S /\ WithContexts(S) => n \in S}

(* What a node should end with, from the faults along its chain. *)
Verdict(id) ==
  IF Continues(id) /\ Lineage(ContextOf(id)) \cap struck # {} THEN "skipped"
  ELSE IF id \in struck THEN "failed" ELSE "success"

(***************************************************************************)
(* A fault of a node reaches the requests that continue its answer and no  *)
(* other node, in whatever order the nodes run: every reported status is   *)
(* the one the faults explain, and a task that did not time out reports    *)
(* each of its nodes once.                                                 *)
(***************************************************************************)
FaultsIsolated ==
  /\ \A r \in results : r.status = Verdict(r.node)
  /\ \A s \in Sessions : session[s] = "done" /\ s \notin timedOut =>
       \A id \in Of(s) : Cardinality({r \in results : r.node = id}) = 1

(***************************************************************************)
(* Failures, cancellations and raised errors give every slot back once: no *)
(* more requests are out than slots, none waits while one is free unless a *)
(* node was woken that will wake it, and a task that is done keeps none.   *)
(***************************************************************************)
SlotsExact ==
  /\ slots >= 0 /\ slots + Cardinality(Holding) = MaxConcurrency
  /\ line # <<>> /\ slots > 0 => \E id \in Nodes : stage[id] = "woken"
  /\ Range(line) = {id \in Nodes : stage[id] = "queued"}
  /\ \A id \in Holding \cup Range(line) : session[id[1]] # "done"

(* Every task ends without its timeout: no node waits for ever for a       *)
(* failed one, for a slot or for a node that waits for it.                 *)
TasksEnd == <>(\A s \in Sessions : session[s] = "done")
=============================================================================

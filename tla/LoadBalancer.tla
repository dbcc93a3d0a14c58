---------------------------- MODULE LoadBalancer ----------------------------
(***************************************************************************)
(* The job queue of the Host, src/server/balancer.py.                      *)
(*                                                                         *)
(* Every method of class LoadBalancer runs under one lock, so each is one  *)
(* action here, named as in the source.  The module's Spec lets an         *)
(* arbitrary client call any method with any argument at any time: what    *)
(* holds here needs no discipline from the callers in server.py.           *)
(*                                                                         *)
(* A job is an element of Jobs; its record is reduced to what the methods  *)
(* test or carry over: the node it is kept for and the number of times it  *)
(* has been reserved.  reserve() draws a fresh attempt_id each time, so    *)
(* the number names the attempt.  Leases and timeouts are data the callers *)
(* compare with the clock; Dispatch models them.                           *)
(***************************************************************************)
EXTENDS Naturals, Sequences, FiniteSets, Functions

CONSTANTS
    Nodes,      \* worker names
    HostNode,   \* the literal "__host__" of assign_to_host
    NoNode,     \* Python's None in a job's target
    Jobs,       \* job ids that uuid4 may ever issue
    NoJob,      \* Python's None for a job
    Callers,    \* threads that may keep a job complete() handed them
    MaxQueue,   \* LoadBalancer(max_queue=32)
    AttemptCap  \* bound of the model on reservations of one job

ASSUME BalancerAssumption ==
    /\ HostNode \notin Nodes
    /\ NoNode \notin Nodes \cup {HostNode}
    /\ NoJob \notin Jobs
    /\ MaxQueue \in Nat \ {0}
    /\ AttemptCap \in Nat

Claimers == Nodes \cup {HostNode}

VARIABLES
    queue,      \* _queue: pending and reserved jobs, front first
    target,     \* job -> its "target" field
    attempts,   \* job -> its "attempts" field
    active,     \* _active: node -> the job it claimed
    failed,     \* keys of _failed
    flags,      \* _flags
    accepting,  \* _accepting
    held,       \* caller -> job that complete() returned to it
    issued,     \* job ids handed out by enqueue_job
    ended       \* jobs a caller finished with after complete()

lbVars == <<queue, target, attempts, active, failed, flags, accepting, held,
            issued, ended>>

LBInit ==
    /\ queue = <<>>
    /\ target = [j \in Jobs |-> NoNode]
    /\ attempts = [j \in Jobs |-> 0]
    /\ active = [n \in Claimers |-> NoJob]
    /\ failed = {}
    /\ flags = {}
    /\ accepting = TRUE
    /\ held = [c \in Callers |-> NoJob]
    /\ issued = {}
    /\ ended = {}

-----------------------------------------------------------------------------
(* Where jobs are.                                                         *)

Queued == Range(queue)
Running == {active[n] : n \in Claimers} \ {NoJob}
Held == {held[c] : c \in Callers} \ {NoJob}
Placed == Queued \cup Running \cup Held

(* pending() and reserved(), as sets. *)
Pending == {j \in Queued : target[j] = NoNode}
Reserved == {j \in Queued : target[j] # NoNode}

(* The queue without its i-th entry. *)
Cut(q, i) == SubSeq(q, 1, i - 1) \o SubSeq(q, i + 1, Len(q))

(* i is the position of the first queued job kept for node n. *)
FirstFor(n, i) ==
    /\ i \in DOMAIN queue
    /\ target[queue[i]] = n
    /\ \A k \in 1 .. (i - 1) : target[queue[k]] # n

(* The arrangement p of positions 1 .. len puts those in S in front and    *)
(* keeps the order inside S and outside S.                                 *)
MovesToFront(p, S, len) ==
    \A i, k \in 1 .. len :
      i < k => \/ p[i] \in S /\ p[k] \notin S
               \/ (p[i] \in S <=> p[k] \in S) /\ p[i] < p[k]

-----------------------------------------------------------------------------
(* Faulty variants of methods: each is a slip its method's code guards     *)
(* against, kept to show that the properties below notice it.              *)

(* Hand the job out without deleting it from the queue. *)
claim_without_delete(n) ==
    /\ accepting
    /\ \E i \in DOMAIN queue :
         FirstFor(n, i) /\ active' = [active EXCEPT ![n] = queue[i]]
    /\ UNCHANGED <<queue, target, attempts, failed, flags, accepting, held,
                   issued, ended>>

(* Record the failure of a running job with get() in place of pop(). *)
cancel_active_by_peek(n) ==
    /\ active[n] # NoJob
    /\ failed' = failed \cup {active[n]}
    /\ UNCHANGED <<queue, target, attempts, active, flags, accepting, held,
                   issued, ended>>

(* Return the running job with get() in place of pop(). *)
complete_by_peek(c, n, j) ==
    /\ j # NoJob
    /\ active[n] = j
    /\ held[c] = NoJob
    /\ held' = [held EXCEPT ![c] = j]
    /\ UNCHANGED <<queue, target, attempts, active, failed, flags, accepting,
                   issued, ended>>

(* Pop before comparing the ids and forget to put a mismatch back. *)
complete_dropping_mismatch(c, n, j) ==
    /\ active[n] # NoJob
    /\ held[c] = NoJob
    /\ active' = [active EXCEPT ![n] = NoJob]
    /\ held' = [held EXCEPT ![c] = IF active[n] = j THEN j ELSE NoJob]
    /\ UNCHANGED <<queue, target, attempts, failed, flags, accepting, issued,
                   ended>>

-----------------------------------------------------------------------------
(* The methods.                                                            *)

set_accepting(b) ==
    /\ accepting' = b
    /\ UNCHANGED <<queue, target, attempts, active, failed, flags, held,
                   issued, ended>>

(* A job may be enqueued already kept for a node: calibrate.py does. *)
enqueue_job(j, n) ==
    /\ accepting
    /\ Len(queue) < MaxQueue
    /\ j \in Jobs \ issued
    /\ issued' = issued \cup {j}
    /\ queue' = Append(queue, j)
    /\ target' = [target EXCEPT ![j] = n]
    /\ UNCHANGED <<attempts, active, failed, flags, accepting, held, ended>>

(* drop_pending(j) and fail(j): both remove j from the queue and record    *)
(* the failure; they differ in the code recorded and in wiping the prompt. *)
fail(j) ==
    \/ \E i \in DOMAIN queue :
         /\ queue[i] = j
         /\ queue' = Cut(queue, i)
         /\ failed' = failed \cup {j}
         /\ UNCHANGED <<target, attempts, active, flags, accepting, held,
                        issued, ended>>
    \/ j \notin Queued /\ UNCHANGED lbVars

drop_pending(j) == fail(j)

set_flag(n, flagged) ==
    /\ flags' = IF flagged THEN flags \cup {n} ELSE flags \ {n}
    /\ UNCHANGED <<queue, target, attempts, active, failed, accepting, held,
                   issued, ended>>

(* reserve(j, n) succeeds: j is still pending. *)
reserve(j, n) ==
    /\ accepting
    /\ j \in Pending
    /\ attempts[j] < AttemptCap
    /\ target' = [target EXCEPT ![j] = n]
    /\ attempts' = [attempts EXCEPT ![j] = @ + 1]
    /\ UNCHANGED <<queue, active, failed, flags, accepting, held, issued,
                   ended>>

(* assign_to_host(j) asks only that j be queued, not that it be pending. *)
assign_to_host(j) ==
    /\ j \in Queued
    /\ attempts[j] < AttemptCap
    /\ target' = [target EXCEPT ![j] = HostNode]
    /\ attempts' = [attempts EXCEPT ![j] = @ + 1]
    /\ UNCHANGED <<queue, active, failed, flags, accepting, held, issued,
                   ended>>

(* claim(n) writes _active[n] whatever it held. *)
claim(n) ==
    /\ accepting
    /\ \E i \in DOMAIN queue :
         /\ FirstFor(n, i)
         /\ queue' = Cut(queue, i)
         /\ active' = [active EXCEPT ![n] = queue[i]]
    /\ UNCHANGED <<target, attempts, failed, flags, accepting, held, issued,
                   ended>>

requeue_front(j) ==
    \/ \E i \in DOMAIN queue :
         /\ queue[i] = j
         /\ queue' = <<j>> \o Cut(queue, i)
         /\ target' = [target EXCEPT ![j] = NoNode]
         /\ UNCHANGED <<attempts, active, failed, flags, accepting, held,
                        issued, ended>>
    \/ j \notin Queued /\ UNCHANGED lbVars

release_reservations_for(n) ==
    /\ \E p \in Surjection(1 .. Len(queue), 1 .. Len(queue)) :
         /\ MovesToFront(p, {i \in 1 .. Len(queue) : target[queue[i]] = n},
                         Len(queue))
         /\ queue' = [i \in 1 .. Len(queue) |-> queue[p[i]]]
    /\ target' = [j \in Jobs |-> IF j \in Queued /\ target[j] = n
                                   THEN NoNode ELSE target[j]]
    /\ UNCHANGED <<attempts, active, failed, flags, accepting, held, issued,
                   ended>>

cancel_active(n) ==
    /\ active[n] # NoJob
    /\ active' = [active EXCEPT ![n] = NoJob]
    /\ failed' = failed \cup {active[n]}
    /\ UNCHANGED <<queue, target, attempts, flags, accepting, held, issued,
                   ended>>

requeue_active_as_pending(n) ==
    /\ active[n] # NoJob
    /\ active' = [active EXCEPT ![n] = NoJob]
    /\ queue' = <<active[n]>> \o queue
    /\ target' = [target EXCEPT ![active[n]] = NoNode]
    /\ failed' = failed \ {active[n]}
    /\ UNCHANGED <<attempts, flags, accepting, held, issued, ended>>

(* complete(n, j) returns the job to caller c when n still runs j. *)
complete(c, n, j) ==
    /\ j # NoJob
    /\ active[n] = j
    /\ held[c] = NoJob
    /\ active' = [active EXCEPT ![n] = NoJob]
    /\ held' = [held EXCEPT ![c] = j]
    /\ UNCHANGED <<queue, target, attempts, failed, flags, accepting, issued,
                   ended>>

(* The caller puts the completed job back. *)
return_job_to_pending(c) ==
    /\ held[c] # NoJob
    /\ queue' = <<held[c]>> \o queue
    /\ target' = [target EXCEPT ![held[c]] = NoNode]
    /\ failed' = failed \ {held[c]}
    /\ held' = [held EXCEPT ![c] = NoJob]
    /\ UNCHANGED <<attempts, active, flags, accepting, issued, ended>>

(* Or is done with it. *)
discard(c) ==
    /\ held[c] # NoJob
    /\ ended' = ended \cup {held[c]}
    /\ held' = [held EXCEPT ![c] = NoJob]
    /\ UNCHANGED <<queue, target, attempts, active, failed, flags, accepting,
                   issued>>

drain_all ==
    /\ queue' = <<>>
    /\ active' = [n \in Claimers |-> NoJob]
    /\ failed' = failed \cup Queued \cup Running
    /\ flags' = {}
    /\ UNCHANGED <<target, attempts, accepting, held, issued, ended>>

-----------------------------------------------------------------------------
LBNext ==
    \/ \E b \in BOOLEAN : set_accepting(b)
    \/ \E n \in Nodes, b \in BOOLEAN : set_flag(n, b)
    \/ \E j \in Jobs, n \in Nodes \cup {NoNode} : enqueue_job(j, n)
    \/ \E j \in Jobs : fail(j)
    \/ \E j \in Jobs : drop_pending(j)
    \/ \E j \in Jobs, n \in Nodes : reserve(j, n)
    \/ \E j \in Jobs : assign_to_host(j)
    \/ \E n \in Claimers : claim(n)
    \/ \E j \in Jobs : requeue_front(j)
    \/ \E n \in Nodes : release_reservations_for(n)
    \/ \E n \in Claimers : cancel_active(n)
    \/ \E n \in Claimers : requeue_active_as_pending(n)
    \/ \E c \in Callers, n \in Claimers, j \in Jobs : complete(c, n, j)
    \/ \E c \in Callers : return_job_to_pending(c)
    \/ \E c \in Callers : discard(c)
    \/ drain_all

LBSpec == LBInit /\ [][LBNext]_lbVars

-----------------------------------------------------------------------------
(* The types of the balancer's fields. *)
LBTypeOK ==
    /\ queue \in Seq(Jobs)
    /\ target \in [Jobs -> Claimers \cup {NoNode}]
    /\ attempts \in [Jobs -> 0 .. AttemptCap]
    /\ active \in [Claimers -> Jobs \cup {NoJob}]
    /\ failed \subseteq Jobs
    /\ flags \subseteq Claimers
    /\ accepting \in BOOLEAN
    /\ held \in [Callers -> Jobs \cup {NoJob}]
    /\ issued \subseteq Jobs
    /\ ended \subseteq Jobs

(* A job is in one place at a time: once in the queue, or running on one   *)
(* node, or in the hands of one caller.  Eight methods move jobs between   *)
(* these places; a job in two of them is inferred twice.                   *)
JobPlacedOnce ==
    /\ \A i, k \in DOMAIN queue : queue[i] = queue[k] => i = k
    /\ \A m, n \in Claimers : active[m] = active[n] => m = n \/ active[m] = NoJob
    /\ \A c, d \in Callers : held[c] = held[d] => c = d \/ held[c] = NoJob
    /\ Queued \cap Running = {}
    /\ Queued \cap Held = {}
    /\ Running \cap Held = {}

(* A job recorded as failed is nowhere any more.  run_scheduler_cycle      *)
(* relies on it: it marks the chat of every job found in _failed as error. *)
FailedIsGone == failed \cap Placed = {}

(* Only issued ids occur anywhere, so a new job cannot collide with an     *)
(* older one.                                                              *)
OnlyIssued == Placed \cup failed \cup ended \subseteq issued

(* A finished job never comes back: with JobPlacedOnce, every result is    *)
(* delivered at most once.                                                 *)
EndedIsGone == ended \cap Placed = {}

(* Every job this step takes out of the three places is accounted for.     *)
LossExplained ==
    \A j \in Placed \ Placed' :
      \/ j \in failed' \cup ended'
      \/ \E n \in Claimers : active[n] = j /\ active'[n] \notin {j, NoJob}

(* A job leaves the three places only into failed or ended, or because     *)
(* claim() overwrote it: no other method forgets a job.                    *)
LossOnlyByOverwrite == [][LossExplained]_lbVars
=============================================================================

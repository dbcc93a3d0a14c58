------------------------------ MODULE Dispatch ------------------------------
(***************************************************************************)
(* How a job travels through the Host: src/server/server.py and            *)
(* scheduler.py on top of the queue (LoadBalancer), the forecast table     *)
(* (ForecastCache) and the chat records (ChatTracker).                     *)
(*                                                                         *)
(* Two kinds of threads act.  The event loop runs the scheduler cycle, the *)
(* forecast cycle and the workers' long polls, one at a time.  A pool of   *)
(* threads (Callers) runs the synchronous request handlers.  Each of the   *)
(* three components has its own lock, so threads interleave between the    *)
(* locked calls, and a step of this module is one such call.  Calls that   *)
(* follow each other with nothing in between that another thread could     *)
(* tell apart share a step: adjust_inflight with the mark_queued after it, *)
(* and reads of a set of jobs with the reads after them.                   *)
(*                                                                         *)
(* The lifecycle gate is modelled by what LifecycleGate shows of it: a     *)
(* room is closed while no handler is inside a mutation section, and       *)
(* nothing enters one, nor commits a result, while a close is pending.     *)
(***************************************************************************)
EXTENDS LoadBalancer, ForecastCache, ChatTracker

CONSTANTS
    Burns,        \* the jobs that are load tests; the others are chats
    MaxAttempts,  \* MAX_ATTEMPTS of scheduler.py
    RoundRobin,   \* scheduler_mode is round_robin
    Ops           \* the requests and events this instance lets happen

ASSUME DispatchAssumption ==
    /\ IsFiniteSet(Nodes) /\ IsFiniteSet(Callers)
    /\ Burns \subseteq Jobs
    /\ MaxAttempts \in Nat \ {0}
    /\ RoundRobin \in BOOLEAN

VARIABLES
    lapsed,   \* jobs whose reserved_until or active_deadline has passed
    handed,   \* <<node, job, attempt>>: payloads workers may still answer
    member,   \* nodes holding a live token
    loop,     \* where the event loop is, with its locals
    th,       \* where each pool thread is, with its locals
    closer,   \* where the thread that closes the room is
    former    \* jobs of rooms closed since

tableVars == <<cache, chat>>
actorVars == <<loop, th, closer>>
vars == <<lbVars, tableVars, lapsed, handed, member, actorVars, former>>

MaxConcurrent == 1

(* Locals of the event loop: the rest of the snapshot it walks, the jobs   *)
(* seen alive at the start of the cycle, the node, job and row in hand,    *)
(* and where _release_active returns to.                                   *)
IdleLoop == [at |-> "idle", todo |-> <<>>, live |-> {}, node |-> NoNode,
             job |-> NoJob, row |-> NoEntry, back |-> "idle"]
IdleThread == [at |-> "idle", node |-> NoNode, job |-> NoJob, ok |-> FALSE,
               todo |-> <<>>]

DispatchInit ==
    /\ LBInit
    /\ cache = [n \in Nodes |-> Row("READY", 0, 1)]
    /\ chat = [j \in Jobs |-> "none"]
    /\ lapsed = {}
    /\ handed = {}
    /\ member = Nodes
    /\ loop = IdleLoop
    /\ th = [c \in Callers |-> IdleThread]
    /\ closer = "none"
    /\ former = {}

Go(c, place) == th' = [th EXCEPT ![c].at = place]
Finish(c) == th' = [th EXCEPT ![c] = IdleThread]
LoopAt(place) == loop' = [loop EXCEPT !.at = place]
LoopNext(place) == loop' = [loop EXCEPT !.at = place, !.todo = Tail(@)]

(* commit_section holds the gate's lock up to the last side effect. *)
Committing == \E c \in Callers : th[c].at \in {"count", "settle", "requeued"}

(* The ways to list the elements of a set one by one, and those of them    *)
(* that follow the queue.                                                  *)
Listings(S) == {p \in [1 .. Cardinality(S) -> S] : IsInjective(p)}
Snapshots(S) ==
    {p \in Listings(S) :
       \A i, k \in DOMAIN p :
         i < k => \E a, b \in DOMAIN queue : /\ a < b
                                             /\ queue[a] = p[i] /\ queue[b] = p[k]}

(* A handler may enter its mutation section. *)
Enter(c, op) == op \in Ops /\ th[c].at = "idle" /\ closer = "none"

-----------------------------------------------------------------------------
(* Faulty variants of steps below.                                         *)

(* Give up only past MAX_ATTEMPTS. *)
reap_job_once_more ==
    /\ loop.at = "reap job"
    /\ LET j == Head(loop.todo)[1]
       IN  IF attempts[j] > MaxAttempts THEN fail(j) ELSE requeue_front(j)
    /\ lapsed' = lapsed \ {Head(loop.todo)[1]}
    /\ LoopNext("reap")
    /\ UNCHANGED <<tableVars, handed, member, th, closer, former>>

(* Take back an expired reservation without counting it. *)
reap_inflight_uncounted ==
    /\ loop.at = "reap" /\ loop.todo # <<>>
    /\ LoopAt("reap job")
    /\ UNCHANGED <<lbVars, tableVars, lapsed, handed, member, th, closer, former>>

(* Let a flagged node compete in every mode. *)
AllowedStates_with_flagged == {"READY", "WARMING_UP", "AT_RISK"}

(* Compare inflight with MAX_CONCURRENT by > in place of >=. *)
filter_candidates_one_over(j) ==
    {n \in Nodes : /\ Known(n)
                   /\ cache[n].state \in {"READY", "WARMING_UP"}
                   /\ cache[n].inflight <= MaxConcurrent
                   /\ j \in Burns \/ cache[n].model # 0}

(* Complete a job without lowering its node's counter. *)
result_uncounted(c) ==
    /\ th[c].at = "count"
    /\ Go(c, "settle")
    /\ UNCHANGED <<lbVars, tableVars, lapsed, handed, member, loop, closer, former>>

(* Purge the room without waiting for the handlers inside. *)
close_stop_at_once ==
    /\ closer = "waiting"
    /\ set_accepting(FALSE)
    /\ closer' = "inactive"
    /\ UNCHANGED <<tableVars, lapsed, handed, member, loop, th, former>>

-----------------------------------------------------------------------------
(* Scheduler cycle: reap_expired.                                          *)

run_scheduler_cycle ==
    /\ loop.at = "idle"
    /\ \E p \in Snapshots(Reserved \cap lapsed) :
         loop' = [loop EXCEPT !.at = "reap", !.live = Queued,
                    !.todo = [i \in DOMAIN p |-> <<p[i], target[p[i]]>>]]
    /\ UNCHANGED <<lbVars, tableVars, lapsed, handed, member, th, closer, former>>

reap_inflight ==
    /\ loop.at = "reap" /\ loop.todo # <<>>
    /\ DecInflight(Head(loop.todo)[2])
    /\ LoopAt("reap job")
    /\ UNCHANGED <<lbVars, chat, lapsed, handed, member, th, closer, former>>

reap_job ==
    /\ loop.at = "reap job"
    /\ LET j == Head(loop.todo)[1]
       IN  IF attempts[j] >= MaxAttempts THEN fail(j) ELSE requeue_front(j)
    /\ lapsed' = lapsed \ {Head(loop.todo)[1]}
    /\ LoopNext("reap")
    /\ UNCHANGED <<tableVars, handed, member, th, closer, former>>

(* _release_expired_active takes its snapshot. *)
reap_done ==
    /\ loop.at = "reap" /\ loop.todo = <<>>
    /\ \E p \in Listings({n \in Nodes : active[n] \in lapsed}) :
         loop' = [loop EXCEPT !.at = "expire", !.todo = p]
    /\ UNCHANGED <<lbVars, tableVars, lapsed, handed, member, th, closer, former>>

(* _release_active(n): the running job is put back, or given up when it is *)
(* a burn or out of attempts; then (drop_settle) the counter and the chat. *)
(* Only the loop claims, so the job peeked at is the job popped.           *)
GivesUp(j) == j \in Burns \/ attempts[j] >= MaxAttempts

_release_active(n, after) ==
    IF active[n] = NoJob
      THEN /\ loop' = after
           /\ UNCHANGED <<lbVars, lapsed>>
      ELSE /\ IF GivesUp(active[n]) THEN cancel_active(n)
                                    ELSE requeue_active_as_pending(n)
           /\ lapsed' = lapsed \ {active[n]}
           /\ loop' = [after EXCEPT !.at = "dropped", !.node = n,
                                    !.job = active[n], !.back = after.at]

release_expired ==
    /\ loop.at = "expire" /\ loop.todo # <<>>
    /\ _release_active(Head(loop.todo), [loop EXCEPT !.todo = Tail(@)])
    /\ UNCHANGED <<tableVars, handed, member, th, closer, former>>

drop_settle ==
    /\ loop.at = "dropped"
    /\ DecInflight(loop.node)
    /\ IF loop.job \in Burns THEN UNCHANGED chat
       ELSE IF GivesUp(loop.job) THEN mark_error(loop.job) ELSE mark_queued(loop.job)
    /\ LoopAt(loop.back)
    /\ UNCHANGED <<lbVars, lapsed, handed, member, th, closer, former>>

(* schedule_once takes its snapshot of the pending jobs. *)
release_done ==
    /\ loop.at = "expire" /\ loop.todo = <<>>
    /\ \E p \in Snapshots(Pending) :
         loop' = [loop EXCEPT !.at = "schedule", !.todo = p]
    /\ UNCHANGED <<lbVars, tableVars, lapsed, handed, member, th, closer, former>>

-----------------------------------------------------------------------------
(* Scheduler cycle: schedule_once.                                         *)

(* filter_candidates; of several candidates the score decides, and any may *)
(* have the best one.  A chat that is tried again is given to a node that  *)
(* did not fail it where there is one; here any candidate may get it.      *)
AllowedStates == {"READY", "WARMING_UP"} \cup (IF RoundRobin THEN {"AT_RISK"}
                                                             ELSE {})
filter_candidates(j) ==
    {n \in Nodes : /\ Known(n)
                   /\ cache[n].state \in AllowedStates
                   /\ cache[n].inflight < MaxConcurrent
                   /\ j \in Burns \/ cache[n].model # 0}

(* A candidate counts as stale from 10 s after its last sample, before the *)
(* forecast cycle says so. *)
choose_node ==
    /\ loop.at = "schedule" /\ loop.todo # <<>>
    /\ LET j == Head(loop.todo)
       IN  \/ \E n \in filter_candidates(j) :
                loop' = [loop EXCEPT !.at = "reserve", !.node = n, !.job = j]
           \/ /\ filter_candidates(j) = {} \/ "silence" \in Ops
              /\ LoopNext("schedule")
    /\ UNCHANGED <<lbVars, tableVars, lapsed, handed, member, th, closer, former>>

reserve_node ==
    /\ loop.at = "reserve"
    /\ \/ /\ reserve(loop.job, loop.node)
          /\ lapsed' = lapsed \ {loop.job}
          /\ LoopAt("reserved")
       \/ /\ ~(accepting /\ loop.job \in Pending
                /\ attempts[loop.job] < AttemptCap)
          /\ LoopNext("schedule")
          /\ UNCHANGED <<lbVars, lapsed>>
    /\ UNCHANGED <<tableVars, handed, member, th, closer, former>>

count_reserved ==
    /\ loop.at = "reserved"
    /\ IncInflight(loop.node)
    /\ LoopNext("schedule")
    /\ UNCHANGED <<lbVars, chat, lapsed, handed, member, th, closer, former>>

(* The last part of run_scheduler_cycle: a job seen alive at its start and *)
(* recorded as failed by now has its chat marked.                          *)
schedule_done ==
    /\ loop.at = "schedule" /\ loop.todo = <<>>
    /\ loop' = [IdleLoop EXCEPT !.at = "mark", !.live = loop.live]
    /\ UNCHANGED <<lbVars, tableVars, lapsed, handed, member, th, closer, former>>

mark_failed ==
    /\ loop.at = "mark"
    /\ \/ /\ loop.live = {}
          /\ loop' = IdleLoop
          /\ UNCHANGED chat
       \/ \E j \in loop.live :
            /\ loop' = [loop EXCEPT !.live = @ \ {j}]
            /\ IF j \in failed THEN mark_error(j) ELSE UNCHANGED chat
    /\ UNCHANGED <<lbVars, cache, lapsed, handed, member, th, closer, former>>

-----------------------------------------------------------------------------
(* Forecast cycle, for one node with a sample in the last 15 minutes.      *)

forecast_read(n) ==
    /\ "forecast" \in Ops
    /\ loop.at = "idle"
    /\ ~(Known(n) /\ cache[n].state = "INACTIVE")
    /\ loop' = [loop EXCEPT !.at = "decide", !.node = n, !.row = cache[n]]
    /\ UNCHANGED <<lbVars, tableVars, lapsed, handed, member, th, closer, former>>

Was(row) == IF row = NoEntry THEN "none" ELSE row.state

(* The row to be written: a new state, the rest as the snapshot had it. *)
Forecast(row, state) ==
    IF row = NoEntry THEN Row(state, 0, 0) ELSE [row EXCEPT !.state = state]

forecast_decide ==
    /\ loop.at = "decide"
    /\ \E base \in {"WARMING_UP", "READY"}
                     \cup (IF "silence" \in Ops THEN {"STALE"} ELSE {}),
          level \in {"hot", "band", "cool"}, dwelt \in BOOLEAN :
         LET state == apply_hysteresis(Was(loop.row), base, level, dwelt)
             row == Forecast(loop.row, state)
         IN  /\ set_flag(loop.node, state = "AT_RISK")
             /\ loop' = [loop EXCEPT !.row = row,
                  !.at = IF state = "STALE" THEN "stale" ELSE "put"]
    /\ UNCHANGED <<tableVars, lapsed, handed, member, th, closer, former>>

(* A stale node loses its reservations and then its running job. *)
stale_release ==
    /\ loop.at = "stale"
    /\ release_reservations_for(loop.node)
    /\ lapsed' = lapsed \ {j \in Queued : target[j] = loop.node}
    /\ \E p \in Snapshots({j \in Queued : target[j] = loop.node}) :
         loop' = [loop EXCEPT !.at = "stale settle", !.todo = p]
    /\ UNCHANGED <<tableVars, handed, member, th, closer, former>>

stale_settle ==
    /\ loop.at = "stale settle" /\ loop.todo # <<>>
    /\ DecInflight(loop.node)
    /\ mark_queued(Head(loop.todo))
    /\ LoopNext("stale settle")
    /\ UNCHANGED <<lbVars, lapsed, handed, member, th, closer, former>>

stale_active ==
    /\ loop.at = "stale settle" /\ loop.todo = <<>>
    /\ _release_active(loop.node, [loop EXCEPT !.at = "put"])
    /\ UNCHANGED <<tableVars, handed, member, th, closer, former>>

forecast_put ==
    /\ loop.at = "put"
    /\ put(loop.node, loop.row)
    /\ loop' = IdleLoop
    /\ UNCHANGED <<lbVars, chat, lapsed, handed, member, th, closer, former>>

-----------------------------------------------------------------------------
(* Worker polls, load generators, and the passing of deadlines.            *)

(* A long poll of node n finds a job.  The payload leaves for the worker   *)
(* once a chat's record has been marked; a burn has no record.             *)
jobs_next(n) ==
    /\ loop.at = "idle"
    /\ closer = "none"
    /\ n \in member
    /\ claim(n)
    /\ LET j == CHOOSE j \in Queued : j \notin Queued'
       IN  /\ lapsed' = lapsed \ {j}
           /\ loop' = [IdleLoop EXCEPT !.at = "claimed", !.node = n, !.job = j]
    /\ UNCHANGED <<tableVars, handed, member, th, closer, former>>

poll_answer ==
    /\ loop.at = "claimed"
    /\ IF loop.job \in Burns THEN UNCHANGED chat ELSE mark_running(loop.job)
    /\ handed' = handed \cup {<<loop.node, loop.job, attempts[loop.job]>>}
    /\ loop' = IdleLoop
    /\ UNCHANGED <<lbVars, cache, lapsed, member, th, closer, former>>

(* The demo load enqueues burns for any node.  (Under --calibrate, which   *)
(* enqueues burns kept for a node, the scheduler does not run.)            *)
_generator_loop(j) ==
    /\ loop.at = "idle"
    /\ j \in Burns
    /\ enqueue_job(j, NoNode)
    /\ UNCHANGED <<tableVars, lapsed, handed, member, actorVars, former>>

(* The clock passes reserved_until or active_deadline.                     *)
Leased == Reserved \cup Running
lease_ends(j) ==
    /\ "lapse" \in Ops
    /\ j \in Leased \ lapsed
    /\ lapsed' = lapsed \cup {j}
    /\ UNCHANGED <<lbVars, tableVars, handed, member, actorVars, former>>

-----------------------------------------------------------------------------
(* POST /chat: enqueue the job, then its record.  The gate keeps accepting *)
(* True inside a section, so enqueue cannot refuse and drop_pending is not *)
(* reached.                                                                *)

post_chat(c, j) ==
    /\ Enter(c, "chat")
    /\ j \notin Burns
    /\ \E n \in Nodes : Known(n) /\ cache[n].state = "READY" /\ cache[n].model # 0
    /\ enqueue_job(j, NoNode)
    /\ th' = [th EXCEPT ![c] = [IdleThread EXCEPT !.at = "posted", !.job = j]]
    /\ UNCHANGED <<tableVars, lapsed, handed, member, loop, closer, former>>

post_chat_record(c) ==
    /\ th[c].at = "posted"
    /\ chat_enqueue(th[c].job)
    /\ Finish(c)
    /\ UNCHANGED <<lbVars, cache, lapsed, handed, member, loop, closer, former>>

-----------------------------------------------------------------------------
(* POST /jobs/result.  An answer may be sent for anything ever handed out, *)
(* late and more than once.                                                *)

(* The attempt check.  A burn's payload carries no attempt_id, and an      *)
(* answer without one is taken only for a first attempt.                   *)
AttemptRefused(j, attempt) ==
    IF j \in Burns THEN attempts[j] > 1 ELSE attempt # attempts[j]

jobs_result(c, n, j, attempt, ok) ==
    /\ Enter(c, "result")
    /\ n \in member
    /\ <<n, j, attempt>> \in handed
    /\ ~(active[n] = j /\ AttemptRefused(j, attempt))
    /\ th' = [th EXCEPT ![c] = [IdleThread EXCEPT
                !.at = "complete", !.node = n, !.job = j, !.ok = ok]]
    /\ UNCHANGED <<lbVars, tableVars, lapsed, handed, member, loop, closer,
                   former>>

(* A late answer finds nothing to complete and is ignored. *)
result_complete(c) ==
    /\ th[c].at = "complete"
    /\ \/ /\ complete(c, th[c].node, th[c].job)
          /\ lapsed' = lapsed \ {th[c].job}
          /\ Go(c, "commit")
       \/ /\ active[th[c].node] # th[c].job
          /\ Finish(c)
          /\ UNCHANGED <<lbVars, lapsed>>
    /\ UNCHANGED <<tableVars, handed, member, loop, closer, former>>

(* commit_section refuses when a close is pending: 401, the job is gone. *)
result_commit(c) ==
    /\ th[c].at = "commit"
    /\ \/ /\ closer = "none" /\ ~Committing
          /\ Go(c, "count")
          /\ UNCHANGED lbVars
       \/ /\ closer # "none"
          /\ discard(c)
          /\ Finish(c)
    /\ UNCHANGED <<tableVars, lapsed, handed, member, loop, closer, former>>

result_count(c) ==
    /\ th[c].at = "count"
    /\ DecInflight(th[c].node)
    /\ Go(c, "settle")
    /\ UNCHANGED <<lbVars, chat, lapsed, handed, member, loop, closer, former>>

(* A failed chat is tried again while attempts are left. *)
Retried(c) == ~th[c].ok /\ ~GivesUp(th[c].job)

result_settle(c) ==
    /\ th[c].at = "settle"
    /\ IF Retried(c)
         THEN /\ return_job_to_pending(c)
              /\ Go(c, "requeued")
              /\ UNCHANGED chat
         ELSE /\ discard(c)
              /\ IF th[c].ok THEN mark_done(th[c].job) ELSE mark_error(th[c].job)
              /\ Finish(c)
    /\ UNCHANGED <<cache, lapsed, handed, member, loop, closer, former>>

result_requeued(c) ==
    /\ th[c].at = "requeued"
    /\ mark_queued(th[c].job)
    /\ Finish(c)
    /\ UNCHANGED <<lbVars, cache, lapsed, handed, member, loop, closer, former>>

-----------------------------------------------------------------------------
(* POST /leave and the kick of a node: _release_node_work, then the token. *)

leave(c, n) ==
    /\ \/ Enter(c, "leave") /\ n \in member
       \/ Enter(c, "kick")
    /\ release_reservations_for(n)
    /\ lapsed' = lapsed \ {j \in Queued : target[j] = n}
    /\ \E p \in Snapshots({j \in Queued : target[j] = n}) :
         th' = [th EXCEPT ![c] = [IdleThread EXCEPT
                  !.at = "leave settle", !.node = n, !.todo = p]]
    /\ UNCHANGED <<tableVars, handed, member, loop, closer, former>>

leave_settle(c) ==
    /\ th[c].at = "leave settle" /\ th[c].todo # <<>>
    /\ DecInflight(th[c].node)
    /\ mark_queued(Head(th[c].todo))
    /\ th' = [th EXCEPT ![c].todo = Tail(@)]
    /\ UNCHANGED <<lbVars, lapsed, handed, member, loop, closer, former>>

(* The running job's type is looked at first; by then another may run. *)
leave_peek(c) ==
    /\ th[c].at = "leave settle" /\ th[c].todo = <<>>
    /\ th' = [th EXCEPT
         ![c].at = IF active[th[c].node] = NoJob THEN "gone"
                   ELSE IF active[th[c].node] \in Burns THEN "cancel" ELSE "requeue"]
    /\ UNCHANGED <<lbVars, tableVars, lapsed, handed, member, loop, closer, former>>

leave_active(c) ==
    LET n == th[c].node
    IN  /\ th[c].at \in {"cancel", "requeue"}
        /\ \/ /\ active[n] = NoJob
              /\ Go(c, "gone")
              /\ UNCHANGED <<lbVars, lapsed>>
           \/ /\ IF th[c].at = "cancel" THEN cancel_active(n)
                                        ELSE requeue_active_as_pending(n)
              /\ lapsed' = lapsed \ {active[n]}
              /\ th' = [th EXCEPT ![c].job = active[n],
                                  ![c].at = IF @ = "cancel" THEN "cancelled"
                                                            ELSE "put back"]
        /\ UNCHANGED <<tableVars, handed, member, loop, closer, former>>

leave_active_settle(c) ==
    /\ th[c].at \in {"cancelled", "put back"}
    /\ DecInflight(th[c].node)
    /\ IF th[c].at = "put back" THEN mark_queued(th[c].job) ELSE UNCHANGED chat
    /\ Go(c, "gone")
    /\ UNCHANGED <<lbVars, lapsed, handed, member, loop, closer, former>>

leave_inactive(c) ==
    /\ th[c].at = "gone"
    /\ set_flag(th[c].node, FALSE)
    /\ mark_inactive(th[c].node)
    /\ Go(c, "revoke")
    /\ UNCHANGED <<chat, lapsed, handed, member, loop, closer, former>>

leave_revoke(c) ==
    /\ th[c].at = "revoke"
    /\ member' = member \ {th[c].node}
    /\ Finish(c)
    /\ UNCHANGED <<lbVars, tableVars, lapsed, handed, loop, closer, former>>

-----------------------------------------------------------------------------
(* POST /join and /nodes/ready.                                            *)

(* Joining is not inside a mutation section.  (A live member's name can be *)
(* taken over after 90 s of silence; the forecast cycle has then long put  *)
(* its work back, and the takeover is not modelled.)                       *)
join(n) ==
    /\ "join" \in Ops
    /\ n \notin member
    /\ member' = member \cup {n}
    /\ mark_joining(n)
    /\ UNCHANGED <<lbVars, chat, lapsed, handed, actorVars, former>>

nodes_ready(n) ==
    /\ "ready" \in Ops
    /\ closer = "none"
    /\ n \in member
    /\ \E model \in {0, 1} : mark_warming_up(n, model)
    /\ UNCHANGED <<lbVars, chat, lapsed, handed, member, actorVars, former>>

-----------------------------------------------------------------------------
(* POST /room/close: LifecycleGate.run around _purge_room_work and         *)
(* lifecycle_close.  Of the event loop only the polls wait for the gate.   *)

(* The close is announced; the gate's lock is free. *)
close_begin ==
    /\ "close" \in Ops
    /\ closer = "none"
    /\ ~Committing
    /\ closer' = "waiting"
    /\ UNCHANGED <<lbVars, tableVars, lapsed, handed, member, loop, th, former>>

close_stop ==
    /\ closer = "waiting"
    /\ loop.at # "claimed" /\ \A c \in Callers : th[c].at = "idle"
    /\ set_accepting(FALSE)
    /\ closer' = "inactive"
    /\ UNCHANGED <<tableVars, lapsed, handed, member, loop, th, former>>

(* adjust_inflight and mark_inactive of every node with work. *)
close_inactive ==
    /\ closer = "inactive"
    /\ cache' = [n \in Nodes |->
                   IF active[n] # NoJob \/ \E j \in Queued : target[j] = n
                     THEN Row("INACTIVE", 0, 0) ELSE cache[n]]
    /\ closer' = "drain"
    /\ UNCHANGED <<lbVars, chat, lapsed, handed, member, loop, th, former>>

close_drain ==
    /\ closer = "drain"
    /\ drain_all
    /\ lapsed' = {}
    /\ closer' = "chats"
    /\ UNCHANGED <<tableVars, handed, member, loop, th, former>>

close_chats ==
    /\ closer = "chats"
    /\ fail_all
    /\ closer' = "revoke"
    /\ UNCHANGED <<lbVars, cache, lapsed, handed, member, loop, th, former>>

close_revoke ==
    /\ closer = "revoke"
    /\ member' = {}
    /\ former' = issued
    /\ closer' = "reopen"
    /\ UNCHANGED <<lbVars, tableVars, lapsed, handed, loop, th>>

close_reopen ==
    /\ closer = "reopen"
    /\ set_accepting(TRUE)
    /\ closer' = "none"
    /\ UNCHANGED <<tableVars, lapsed, handed, member, loop, th, former>>

-----------------------------------------------------------------------------
SchedulerStep ==
    \/ reap_inflight \/ reap_job \/ reap_done \/ release_expired \/ drop_settle
    \/ release_done \/ choose_node \/ reserve_node \/ count_reserved
    \/ schedule_done \/ mark_failed

ForecastStep ==
    \/ forecast_decide \/ stale_release \/ stale_settle \/ stale_active
    \/ forecast_put

HandlerStep(c) ==
    \/ post_chat_record(c)
    \/ result_complete(c) \/ result_commit(c) \/ result_count(c)
    \/ result_settle(c) \/ result_requeued(c)
    \/ leave_settle(c) \/ leave_peek(c) \/ leave_active(c)
    \/ leave_active_settle(c) \/ leave_inactive(c) \/ leave_revoke(c)

CloserStep ==
    \/ close_stop \/ close_inactive \/ close_drain \/ close_chats
    \/ close_revoke \/ close_reopen

DispatchNext ==
    \/ run_scheduler_cycle
    \/ SchedulerStep
    \/ \E n \in Nodes : forecast_read(n)
    \/ ForecastStep
    \/ \E n \in Nodes : jobs_next(n)
    \/ poll_answer
    \/ \E j \in Jobs : _generator_loop(j)
    \/ \E j \in Jobs : lease_ends(j)
    \/ \E c \in Callers, j \in Jobs : post_chat(c, j)
    \/ \E c \in Callers, h \in handed, ok \in BOOLEAN :
         jobs_result(c, h[1], h[2], h[3], ok)
    \/ \E c \in Callers, n \in Nodes : leave(c, n)
    \/ \E c \in Callers : HandlerStep(c)
    \/ \E n \in Nodes : join(n)
    \/ \E n \in Nodes : nodes_ready(n)
    \/ close_begin
    \/ CloserStep

DispatchSpec == DispatchInit /\ [][DispatchNext]_vars

(* asyncio runs its ready tasks in turn, so a cycle under way goes on and  *)
(* the scheduler's turn comes again however often others take theirs.      *)
(* Handlers run in threads of their own and clocks advance.  Nothing is    *)
(* assumed of the workers: they may stop polling and answering.            *)
Fairness ==
    /\ WF_vars(SchedulerStep \/ ForecastStep \/ poll_answer)
    /\ SF_vars(run_scheduler_cycle)
    /\ \A c \in Callers : WF_vars(HandlerStep(c))
    /\ WF_vars(CloserStep)
    /\ \A j \in Jobs : WF_vars(lease_ends(j))

FairDispatchSpec == DispatchSpec /\ Fairness

-----------------------------------------------------------------------------
(* Every variable has its type: where the loop and the threads are, with   *)
(* their locals, and the state the composition adds to the queue's.        *)
LoopPlaces == {"idle", "reap", "reap job", "expire", "dropped", "schedule", "reserve",
               "reserved", "mark", "decide", "stale", "stale settle", "put", "claimed"}
LoopRec == [at : LoopPlaces, live : SUBSET Jobs,
            todo : Seq(Jobs) \cup Seq(Nodes) \cup Seq(Jobs \X Claimers),
            node : Nodes \cup {NoNode}, job : Jobs \cup {NoJob},
            row : Rows \cup {NoEntry}, back : LoopPlaces]
ThreadPlaces == {"idle", "posted", "complete", "commit", "count", "settle", "requeued",
                 "leave settle", "cancel", "requeue", "cancelled", "put back", "gone",
                 "revoke"}
ThreadRec == [at : ThreadPlaces, node : Nodes \cup {NoNode}, job : Jobs \cup {NoJob},
              ok : BOOLEAN, todo : Seq(Jobs)]
ClosePlaces == {"none", "waiting", "inactive", "drain", "chats", "revoke", "reopen"}

DispatchTypeOK ==
    /\ LBTypeOK
    /\ cache \in [Nodes -> Rows]
    /\ chat \in [Jobs -> Statuses]
    /\ lapsed \subseteq Jobs
    /\ handed \subseteq Nodes \X Jobs \X (0 .. AttemptCap)
    /\ member \subseteq Nodes
    /\ loop \in LoopRec
    /\ th \in [Callers -> ThreadRec]
    /\ closer \in ClosePlaces
    /\ former \subseteq issued

(* What a node's counter and its work differ by while some thread is       *)
(* between moving a job and counting it.                                   *)
Uncounted(n) ==
    (IF loop.at = "reserved" /\ loop.node = n THEN 1 ELSE 0)
    + (IF loop.at = "reap job" /\ Head(loop.todo)[2] = n THEN 1 ELSE 0)
Overcounted(n) ==
    (IF loop.at = "dropped" /\ loop.node = n THEN 1 ELSE 0)
    + (IF loop.at = "stale settle" /\ loop.node = n THEN Len(loop.todo) ELSE 0)
    + Cardinality({c \in Callers : th[c].at \in {"commit", "count"}
                                     /\ th[c].node = n})
Work(n) ==
    Cardinality({j \in Queued : target[j] = n})
    + (IF active[n] = NoJob THEN 0 ELSE 1)

(* The Host's inflight counter agrees with the reservations and the        *)
(* running job of every node (ADR-001).  It is moved by five pieces of     *)
(* code, each after the queue it follows; one count lost and the node      *)
(* gets no job for ever, one too few and it gets two.                      *)
InflightMatchesWork ==
    \A n \in Nodes :
      cache[n].inflight + Uncounted(n) = Work(n) + Overcounted(n)

(* A claim never forgets the job the node was running.  claim() does not   *)
(* look; that inflight stops a second reservation is what prevents it.     *)
ClaimNeverOverwrites ==
    [][\A n \in Nodes : active[n] # NoJob /\ active'[n] # active[n]
                          => active'[n] = NoJob]_vars

(* A chat shown as done or failed is not waiting or running anywhere: no   *)
(* node works on an answer nobody waits for.                               *)
AnsweredIsFinal == \A j \in Jobs : chat[j] \in Settled => j \notin Placed

(* A job is reserved at most MaxAttempts times.                            *)
AttemptsLimited == \A j \in Jobs : attempts[j] <= MaxAttempts

(* A node flagged as about to overheat is given no new job (docs I1).      *)
FlaggedGetsNoJob ==
    [][\A j \in Jobs : target'[j] # target[j] /\ target'[j] \in Nodes
                         => target'[j] \notin flags]_vars

(* Nothing of a closed room is queued, running or shown in a later one.    *)
RoomsAreSeparate ==
    /\ former \cap Placed = {}
    /\ \A j \in former : chat[j] = "none"

(* Nobody is in the middle of anything. *)
Quiet == loop = IdleLoop /\ closer = "none" /\ \A c \in Callers : th[c] = IdleThread

(* A chat shown as waiting or running is waiting or running.               *)
ShownIsThere ==
    Quiet => \A j \in Jobs : chat[j] \in {"queued", "running"} => j \in Placed

(* A node that left or was kicked is off the table until it joins again.   *)
GoneIsInactive ==
    Quiet => \A n \in Nodes \ member : Known(n) => cache[n].state = "INACTIVE"

(* The answer to the attempt a node is at is taken: only a late one is     *)
(* refused.                                                                *)
CurrentAnswerTaken ==
    \A h \in handed : active[h[1]] = h[2] /\ h[3] = attempts[h[2]]
                        => ~AttemptRefused(h[2], h[3])

(* A cycle passes job j over while a node is idle: the idle ones are       *)
(* silent, hot, without a model, not on the table or off it.               *)
PassedOver(j) ==
    /\ loop.at = "schedule" /\ loop.todo # <<>> /\ Head(loop.todo) = j
    /\ loop'.at = "schedule"
    /\ \E n \in Nodes : ~Known(n) \/ cache[n].inflight < MaxConcurrent

(* A job ends, as answered or as failed, unless cycle after cycle passes   *)
(* it over while a node is idle.  A worker that takes a job and stops      *)
(* answering does not keep it, nor the place of another: leases end,       *)
(* expired jobs come back, attempts run out, and no counter keeps a node   *)
(* busy.  A room in which every idle node has stopped to report keeps its  *)
(* pending jobs for ever, without a timeout (reap_expired,                 *)
(* scheduler.py:285, and schedule_once, 209).                              *)
EveryJobEnds ==
    \A j \in Jobs : \/ j \in issued ~> j \in failed \cup ended
                    \/ []<><<PassedOver(j)>>_vars
=============================================================================

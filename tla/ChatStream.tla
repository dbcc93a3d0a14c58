----------------------------- MODULE ChatStream -----------------------------
(***************************************************************************)
(* One streamed chat from the runtime to the screen: EventBatcher and      *)
(* PostAgentPayloadAsync in the worker's agent, job_event and append_delta *)
(* in the host, the bounded event queue of an admin's web socket, and the  *)
(* dashboard, which takes events and polls GET /chat.                      *)
(*                                                                         *)
(* A batch of text is its number; an attempt's text is the batches 1 to    *)
(* Batches.  EndpointHttp sends a request again when its answer is lost,   *)
(* so the host may handle a post late and more than once; the worker has   *)
(* at most one post under way.  A batch is one post (a batch of more than  *)
(* 4096 characters would be several, one after the other).                 *)
(***************************************************************************)
EXTENDS Naturals, Sequences

CONSTANTS
    Batches,     \* batches of text of an attempt
    MaxAttempts, \* MAX_ATTEMPTS
    QueueMax,    \* WS_ADMIN_EVENT_QUEUE_MAX
    MaxRepeats   \* bound on posts that are handled once more

ASSUME StreamAssumption ==
    /\ {Batches, MaxAttempts, QueueMax} \subseteq Nat \ {0}
    /\ MaxRepeats \in Nat

Attempts == 1 .. MaxAttempts
NoAttempt == 0

VARIABLES
    job,     \* the host's record of the chat: status, attempt_id, partial_text, next_seq
    worker,  \* attempt -> the agent that runs it
    net,     \* posts of chunks the host may still handle
    repeats, \* posts handled once more so far
    events,  \* the queue of the web socket
    browser  \* activeChatJobId is this chat, activeChatAttemptId, the text on
             \* the screen, an answer to a poll, how often it settled, and
             \* whether a refused poll has ended it

streamVars == <<job, worker, net, repeats, events, browser>>

Text(a) == [i \in 1 .. Batches |-> <<a, i>>]

IdleWorker == [at |-> "idle", batch |-> 1, seq |-> 0, reply |-> "none"]

StreamInit ==
    /\ job = [status |-> "queued", attempt |-> NoAttempt, partial |-> << >>, next_seq |-> 0]
    /\ worker = [a \in Attempts |-> IdleWorker]
    /\ net = {}
    /\ repeats = 0
    /\ events = << >>
    /\ browser = [active |-> TRUE, attempt |-> NoAttempt, text |-> << >>,
                  polled |-> "none", settled |-> 0, refused |-> FALSE]

Running(a) == job.status = "running" /\ job.attempt = a

(* _publish_admin_event: a full queue loses its oldest event. *)
Publish(e) ==
    events' = Append(IF Len(events) = QueueMax THEN Tail(events) ELSE events, e)

-----------------------------------------------------------------------------
(* The host.                                                               *)

(* claim with mark_running. *)
jobs_next(a) ==
    /\ job.status = "queued"
    /\ a = job.attempt + 1
    /\ job' = [status |-> "running", attempt |-> a, partial |-> << >>, next_seq |-> 0]
    /\ worker' = [worker EXCEPT ![a].at = "generating"]
    /\ UNCHANGED <<net, repeats, events, browser>>

(* The lease is over, or the node has left: mark_queued, or mark_error.    *)
(* Nobody is told by an event.                                             *)
attempt_ends ==
    /\ job.status = "running"
    /\ job' = [job EXCEPT !.status = IF job.attempt < MaxAttempts THEN "queued" ELSE "error"]
    /\ UNCHANGED <<worker, net, repeats, events, browser>>

(* Faulty: append a batch whatever its number. *)
append_any(m) ==
    job' = [job EXCEPT !.partial = Append(@, <<m.a, m.batch>>), !.next_seq = @ + 1]

append_delta(m) ==
    IF m.seq = job.next_seq
      THEN job' = [job EXCEPT !.partial = Append(@, <<m.a, m.batch>>), !.next_seq = @ + 1]
      ELSE UNCHANGED job

Accepted(m) == Running(m.a) /\ m.seq <= job.next_seq

(* A post is handled.  One that is a repetition is accepted, published and *)
(* not appended; one of another attempt or ahead of its turn is refused.   *)
job_event(m) ==
    /\ m \in net
    /\ IF Accepted(m)
         THEN append_delta(m) /\ Publish([type |-> "token", a |-> m.a, batch |-> m.batch])
         ELSE UNCHANGED <<job, events>>
    /\ worker' = IF worker[m.a].at = "posting" /\ worker[m.a].batch = m.batch
                   THEN [worker EXCEPT ![m.a].reply = IF Accepted(m) THEN "ok" ELSE "conflict"]
                   ELSE worker
    /\ \/ net' = net \ {m} /\ UNCHANGED repeats
       \/ repeats < MaxRepeats /\ repeats' = repeats + 1 /\ UNCHANGED net
    /\ UNCHANGED browser

(* Faulty: take an answer without comparing its attempt. *)
result_of_anyone(a, ok) ==
    /\ worker[a].at = "generated"
    /\ worker' = [worker EXCEPT ![a].at = "over"]
    /\ job' = [job EXCEPT !.status = "done", !.partial = Text(a)]
    /\ Publish([type |-> "done", a |-> a, batch |-> 0])
    /\ UNCHANGED <<net, repeats, browser>>

(* apply_job_result; a late result is ignored, a failed attempt is tried   *)
(* again while there is one left.                                          *)
jobs_result(a, ok) ==
    /\ worker[a].at = "generated" \/ (~ok /\ worker[a].at \in {"generating", "posting"})
    /\ worker' = [worker EXCEPT ![a].at = "over"]
    /\ \/ /\ ~Running(a)
          /\ UNCHANGED <<job, events>>
       \/ /\ Running(a) /\ ok
          /\ job' = [job EXCEPT !.status = "done", !.partial = Text(a)]
          /\ Publish([type |-> "done", a |-> a, batch |-> 0])
       \/ /\ Running(a) /\ ~ok /\ a < MaxAttempts
          /\ job' = [job EXCEPT !.status = "queued"]
          /\ UNCHANGED events
       \/ /\ Running(a) /\ ~ok /\ a = MaxAttempts
          /\ job' = [job EXCEPT !.status = "error"]
          /\ Publish([type |-> "error", a |-> a, batch |-> 0])
    /\ UNCHANGED <<net, repeats, browser>>

-----------------------------------------------------------------------------
(* The worker that runs attempt a.                                         *)

(* AddAsync and FlushAsync: the next batch goes out under number seq. *)
PostChunkAsync(a) ==
    /\ worker[a].at = "generating"
    /\ worker[a].batch <= Batches
    /\ net' = net \cup {[a |-> a, seq |-> worker[a].seq, batch |-> worker[a].batch]}
    /\ worker' = [worker EXCEPT ![a].at = "posting"]
    /\ UNCHANGED <<job, repeats, events, browser>>

(* Faulty: count a batch as accepted although its post failed. *)
posted_next_counted(a, sent) ==
    worker' = [worker EXCEPT ![a] =
        [at |-> IF worker[a].batch = Batches THEN "generated" ELSE "generating",
         batch |-> worker[a].batch + 1, seq |-> worker[a].seq + 1, reply |-> "none"]]

PostedNext(a, sent) ==
    worker' = [worker EXCEPT ![a] =
        [at |-> IF worker[a].batch = Batches THEN "generated" ELSE "generating",
         batch |-> worker[a].batch + 1, seq |-> worker[a].seq + sent, reply |-> "none"]]

chunk_sent(a) ==
    /\ worker[a].at = "posting"
    /\ worker[a].reply = "ok"
    /\ PostedNext(a, 1)
    /\ UNCHANGED <<job, net, repeats, events, browser>>

(* Refused, or all tries failed or lost their answers: the batch is        *)
(* dropped and the next one takes its number.                              *)
chunk_dropped(a) ==
    /\ worker[a].at = "posting"
    /\ PostedNext(a, 0)
    /\ UNCHANGED <<job, net, repeats, events, browser>>

-----------------------------------------------------------------------------
(* The dashboard.                                                          *)

Settle(text) ==
    [browser EXCEPT !.active = FALSE, !.attempt = NoAttempt, !.text = text,
                    !.settled = IF @ < 2 THEN @ + 1 ELSE @]

(* applyChatToken and applyChatResult: an attempt once seen stays the only *)
(* one that is listened to.                                                *)
Takes(e) ==
    IF ~browser.active \/ browser.attempt \notin {NoAttempt, e.a}
      THEN browser' = browser
      ELSE \/ /\ e.type = "token"
              /\ browser' = [browser EXCEPT !.attempt = e.a,
                                            !.text = Append(@, <<e.a, e.batch>>)]
           \/ e.type = "done" /\ browser' = Settle(Text(e.a))
           \/ e.type = "error" /\ browser' = Settle(browser.text)

on_event ==
    /\ events # << >>
    /\ events' = Tail(events)
    /\ Takes(Head(events))
    /\ UNCHANGED <<job, worker, net, repeats>>

(* The socket closes and connects again with an empty queue. *)
reconnect ==
    /\ events # << >>
    /\ events' = << >>
    /\ UNCHANGED <<job, worker, net, repeats, browser>>

(* pollChat: the host answers, and the answer arrives. *)
poll ==
    /\ browser.active
    /\ browser.polled = "none"
    /\ job.status \in {"done", "error"}
    /\ browser' = [browser EXCEPT !.polled = job.status]
    /\ UNCHANGED <<job, worker, net, repeats, events>>

(* Faulty: settle by a poll only on the attempt that is listened to. *)
poll_reply_of_attempt ==
    /\ browser.polled # "none"
    /\ browser' = IF browser.active /\ browser.attempt \in {NoAttempt, job.attempt}
                    THEN [Settle(IF browser.polled = "done" THEN job.partial ELSE browser.text)
                            EXCEPT !.polled = "none"]
                    ELSE [browser EXCEPT !.polled = "none"]
    /\ UNCHANGED <<job, worker, net, repeats, events>>

(* An event may have settled the chat in between. *)
poll_reply ==
    /\ browser.polled # "none"
    /\ browser' = IF browser.active
                    THEN [Settle(IF browser.polled = "done" THEN job.partial ELSE browser.text)
                            EXCEPT !.polled = "none"]
                    ELSE [browser EXCEPT !.polled = "none"]
    /\ UNCHANGED <<job, worker, net, repeats, events>>

(* A poll is refused: the requests of the session are more than the quota  *)
(* (429), or the room has been closed (404).  The dashboard shows the      *)
(* error, stops polling and listens to no more events of the chat.         *)
poll_refused ==
    /\ browser.active
    /\ browser' = [browser EXCEPT !.active = FALSE, !.attempt = NoAttempt, !.refused = TRUE]
    /\ UNCHANGED <<job, worker, net, repeats, events>>

StreamNext ==
    \/ \E a \in Attempts :
         \/ jobs_next(a) \/ PostChunkAsync(a) \/ chunk_sent(a) \/ chunk_dropped(a)
         \/ \E ok \in BOOLEAN : jobs_result(a, ok)
    \/ \E m \in net : job_event(m)
    \/ attempt_ends \/ on_event \/ reconnect \/ poll \/ poll_reply \/ poll_refused

StreamSpec == StreamInit /\ [][StreamNext]_streamVars

(* The timer polls every second while the chat is active, and the answers  *)
(* to the polls come.                                                      *)
FairStreamSpec == StreamSpec /\ WF_streamVars(poll) /\ WF_streamVars(poll_reply)

-----------------------------------------------------------------------------
BatchOf == Attempts \X (1 .. Batches)

JobRec == [status : {"queued", "running", "done", "error"},
           attempt : Attempts \cup {NoAttempt}, partial : Seq(BatchOf), next_seq : 0 .. Batches]
WorkerRec == [at : {"idle", "generating", "posting", "generated", "over"},
              batch : 1 .. Batches + 1, seq : 0 .. Batches, reply : {"none", "ok", "conflict"}]
PostRec == [a : Attempts, seq : 0 .. Batches - 1, batch : 1 .. Batches]
EventRec == [type : {"token"}, a : Attempts, batch : 1 .. Batches]
                \cup [type : {"done", "error"}, a : Attempts, batch : {0}]
BrowserRec == [active : BOOLEAN, attempt : Attempts \cup {NoAttempt}, text : Seq(BatchOf),
               polled : {"none", "done", "error"}, settled : 0 .. 2,
               refused : BOOLEAN]

(* Every variable has its type (chat_tracker.py:51, EventBatcher.cs, the   *)
(* dashboard's activeChat variables).                                      *)
StreamTypeOK ==
    /\ job \in JobRec
    /\ worker \in [Attempts -> WorkerRec]
    /\ net \subseteq PostRec
    /\ repeats \in 0 .. MaxRepeats
    /\ events \in Seq(EventRec) /\ Len(events) <= QueueMax
    /\ browser \in BrowserRec

(* Posts that are lost, repeated or late leave gaps in the partial text,   *)
(* never a repetition or two pieces in the wrong order, and nothing of     *)
(* another attempt (append_delta, chat_tracker.py:105).                    *)
PartialInOrder ==
    job.status \in {"running", "done"} =>
        /\ \A i \in DOMAIN job.partial : job.partial[i][1] = job.attempt
        /\ \A i, j \in DOMAIN job.partial : i < j => job.partial[i][2] < job.partial[j][2]

(* A worker is never ahead of the host: the number of its next batch is    *)
(* never refused as out of turn while its attempt runs (EventBatcher.cs:44 *)
(* reuses the number of a batch that failed).                              *)
NumberInTurn == \A a \in Attempts : Running(a) => worker[a].seq <= job.next_seq

(* When a chat settles as done on the screen, the text there is the whole  *)
(* answer of the attempt the host took, whatever was shown before and by   *)
(* whichever way it came (applyChatResult and pollChat, dashboard.html).   *)
SettledIsAnswer ==
    browser.settled > 0 /\ job.status = "done" => browser.text = Text(job.attempt)

(* A chat goes into the history once, though its end comes both by an      *)
(* event and by a poll (dashboard.html:4681 and 5198).                     *)
SettlesOnce == browser.settled <= 1

(* The screen hears of the end of every chat of which no poll is refused,  *)
(* although events are dropped and those of a second attempt are not       *)
(* listened to.  One refused poll is enough to leave the chat unsettled    *)
(* for ever: pollChat gives up (dashboard.html:5189).                      *)
ScreenSettles ==
    job.status \in {"done", "error"} ~> (browser.settled > 0 \/ browser.refused)

(* "duplicates are harmless" (chat_tracker.py:107), on the screen too: it  *)
(* is published again, and the dashboard appends what comes.               *)
DuplicatesHarmless ==
    \A i, j \in DOMAIN browser.text : i # j => browser.text[i] # browser.text[j]
=============================================================================

-------------------------- MODULE ChatStreamProofs --------------------------
(***************************************************************************)
(* The safety properties of ChatStream, proved for any number of batches,  *)
(* attempts, repeated posts and any length of the queue.                   *)
(***************************************************************************)
EXTENDS ChatStream, SequenceTheorems, TLAPS

-----------------------------------------------------------------------------
(* The inductive invariant.                                                *)

(* An attempt that nobody has claimed has sent nothing. *)
NotYetBegun ==
    \A a \in Attempts : a > job.attempt => worker[a] = IdleWorker /\ \A m \in net : m.a # a

(* Numbers run behind batches; what is being posted is a batch, and it is  *)
(* not answered before.                                                    *)
NumbersBehind ==
    \A a \in Attempts :
        /\ worker[a].seq < worker[a].batch
        /\ worker[a].at = "posting" => worker[a].batch <= Batches
        /\ worker[a].at \in {"idle", "generating"} => worker[a].reply = "none"

(* A worker sends ever later batches under numbers that never fall.  A     *)
(* number may be used twice; a later number is always a later batch.       *)
PostsInOrder ==
    /\ \A m \in net :
         /\ m.seq <= worker[m.a].seq /\ m.batch <= worker[m.a].batch
         /\ m.batch = worker[m.a].batch =>
              m.seq = worker[m.a].seq /\ worker[m.a].at \in {"posting", "over"}
    /\ \A m, n \in net : m.a = n.a /\ m.seq < n.seq => m.batch < n.batch

(* The piece at place i of the text came under number i - 1, so that it    *)
(* fits between the posts that may still arrive.                           *)
PieceFits(i) ==
    LET a == job.attempt
        b == job.partial[i][2]
    IN /\ job.partial[i][1] = a
       /\ i <= worker[a].seq + 1 /\ b <= worker[a].batch
       /\ b = worker[a].batch => worker[a].at \in {"posting", "over"}
       /\ \A m \in net : m.a = a /\ m.seq < i - 1 => m.batch < b
       /\ \A m \in net : m.a = a /\ m.seq > i - 1 => m.batch > b
TextFits ==
    job.status = "running" =>
        /\ job.attempt \in Attempts
        /\ Len(job.partial) = job.next_seq
        /\ \A i \in 1 .. job.next_seq : PieceFits(i)
        /\ \A i, j \in 1 .. job.next_seq : i < j => job.partial[i][2] < job.partial[j][2]

(* A batch that was answered with success is counted already. *)
AnsweredIsCounted ==
    \A a \in Attempts :
        Running(a) /\ worker[a].at = "posting" /\ worker[a].reply = "ok" =>
            worker[a].seq < job.next_seq

(* The end of a chat is told as it is, and the host's answer is final. *)
EndsAreTold ==
    /\ job.status = "done" => job.attempt \in Attempts /\ job.partial = Text(job.attempt)
    /\ \A i \in 1 .. Len(events) :
         /\ events[i].type = "done" => job.status = "done" /\ events[i].a = job.attempt
         /\ events[i].type = "error" => job.status = "error"
    /\ browser.polled # "none" => job.status = browser.polled
    /\ browser.active => browser.settled = 0
    /\ browser.settled # 0 => browser.settled = 1 /\ job.status \in {"done", "error"}

-----------------------------------------------------------------------------
(* Types.                                                                  *)

LEMMA Sizes ==
  /\ Batches \in Nat /\ MaxAttempts \in Nat /\ QueueMax \in Nat /\ MaxRepeats \in Nat
  /\ Batches > 0 /\ MaxAttempts > 0 /\ QueueMax > 0
  BY StreamAssumption

LEMMA TextTyped ==
  ASSUME NEW a \in Attempts
  PROVE  Text(a) \in Seq(BatchOf) /\ Len(Text(a)) = Batches
<1>1. \A i \in 1 .. Batches : <<a, i>> \in BatchOf
  BY DEF BatchOf
<1> QED BY <1>1, Sizes DEF Text

LEMMA JobTyped ==
  StreamTypeOK =>
    /\ job.status \in {"queued", "running", "done", "error"}
    /\ job.attempt \in Attempts \cup {NoAttempt} /\ job.attempt \in Nat
    /\ job.partial \in Seq(BatchOf) /\ job.next_seq \in 0 .. Batches /\ job.next_seq \in Nat
  BY Sizes DEF StreamTypeOK, JobRec, Attempts, NoAttempt

LEMMA WorkersTyped ==
  ASSUME StreamTypeOK, NEW a \in Attempts
  PROVE  /\ worker[a] \in WorkerRec
         /\ worker[a].at \in {"idle", "generating", "posting", "generated", "over"}
         /\ worker[a].batch \in 1 .. Batches + 1 /\ worker[a].batch \in Nat
         /\ worker[a].seq \in 0 .. Batches /\ worker[a].seq \in Nat
         /\ worker[a].reply \in {"none", "ok", "conflict"}
  BY Sizes DEF StreamTypeOK, WorkerRec

LEMMA PostsTyped ==
  ASSUME StreamTypeOK, NEW m \in net
  PROVE  /\ m.a \in Attempts
         /\ m.seq \in 0 .. Batches - 1 /\ m.seq \in Nat
         /\ m.batch \in 1 .. Batches /\ m.batch \in Nat
         /\ m = [a |-> m.a, seq |-> m.seq, batch |-> m.batch]
  BY Sizes DEF StreamTypeOK, PostRec

LEMMA PublishEffect ==
  ASSUME StreamTypeOK, NEW e \in EventRec, Publish(e)
  PROVE  /\ events' \in Seq(EventRec) /\ Len(events') <= QueueMax
         /\ \A i \in 1 .. Len(events') :
              events'[i] = e \/ \E j \in 1 .. Len(events) : events'[i] = events[j]
<1> DEFINE s == IF Len(events) = QueueMax THEN Tail(events) ELSE events
<1>0. events \in Seq(EventRec) /\ Len(events) <= QueueMax /\ Len(events) \in Nat
  BY DEF StreamTypeOK
<1>1. /\ s \in Seq(EventRec) /\ Len(s) < QueueMax
      /\ \A i \in 1 .. Len(s) : \E j \in 1 .. Len(events) : s[i] = events[j]
  <2>1. CASE Len(events) = QueueMax
    <3>1. events # << >>
      BY <2>1, Sizes
    <3>2. /\ Tail(events) \in Seq(EventRec) /\ Len(Tail(events)) = Len(events) - 1
          /\ \A i \in 1 .. Len(Tail(events)) : Tail(events)[i] = events[i + 1]
      BY <1>0, <3>1, HeadTailProperties
    <3> QED BY <1>0, <2>1, <3>2, Sizes
  <2>2. CASE Len(events) # QueueMax
    BY <1>0, <2>2, Sizes
  <2> QED BY <2>1, <2>2
<1>2. events' = Append(s, e)
  BY DEF Publish
<1> HIDE DEF s
<1>3. /\ events' \in Seq(EventRec) /\ Len(events') = Len(s) + 1
      /\ \A i \in 1 .. Len(s) : events'[i] = s[i]
      /\ events'[Len(s) + 1] = e
  BY <1>1, <1>2, AppendProperties
<1> QED BY <1>1, <1>3, Sizes

LEMMA TailEffect ==
  ASSUME StreamTypeOK, events # << >>
  PROVE  /\ Head(events) \in EventRec /\ Head(events) = events[1] /\ 1 \in 1 .. Len(events)
         /\ Tail(events) \in Seq(EventRec) /\ Len(Tail(events)) <= QueueMax
         /\ \A i \in 1 .. Len(Tail(events)) :
              \E j \in 1 .. Len(events) : Tail(events)[i] = events[j]
<1>0. events \in Seq(EventRec) /\ Len(events) <= QueueMax /\ Len(events) \in Nat
  BY DEF StreamTypeOK
<1>1. /\ Head(events) \in EventRec
      /\ Tail(events) \in Seq(EventRec) /\ Len(Tail(events)) = Len(events) - 1
      /\ \A i \in 1 .. Len(Tail(events)) : Tail(events)[i] = events[i + 1]
  BY <1>0, HeadTailProperties
<1>2. Len(events) # 0
  BY <1>0, EmptySeq
<1>3. Head(events) = events[1]
  BY <1>0, <1>2
<1> QED BY <1>0, <1>1, <1>2, <1>3, Sizes

LEMMA InitTyped == StreamInit => StreamTypeOK
<1> SUFFICES ASSUME StreamInit PROVE StreamTypeOK
  OBVIOUS
<1>1. job \in JobRec /\ browser \in BrowserRec
  BY Sizes DEF StreamInit, JobRec, BrowserRec, NoAttempt
<1>2. IdleWorker \in WorkerRec
  BY Sizes DEF IdleWorker, WorkerRec
<1>3. worker \in [Attempts -> WorkerRec]
  BY <1>2 DEF StreamInit
<1> QED BY <1>1, <1>3, Sizes DEF StreamInit, StreamTypeOK

-----------------------------------------------------------------------------
(* What the steps do, field by field.                                      *)

OtherWorkers(a) == \A x \in Attempts \ {a} : worker'[x] = worker[x]

LEMMA NextEffect ==
  ASSUME StreamTypeOK, NEW a \in Attempts, jobs_next(a)
  PROVE  /\ job.status = "queued" /\ a = job.attempt + 1 /\ job'.status = "running"
         /\ job'.attempt = a /\ job'.partial = << >> /\ job'.next_seq = 0
         /\ worker'[a].at = "generating" /\ worker'[a].batch = worker[a].batch
         /\ worker'[a].seq = worker[a].seq /\ worker'[a].reply = worker[a].reply
         /\ OtherWorkers(a) /\ UNCHANGED <<net, repeats, events, browser>>
         /\ job' \in JobRec /\ worker' \in [Attempts -> WorkerRec]
<1>1. worker' = [worker EXCEPT ![a] = [worker[a] EXCEPT !.at = "generating"]]
  BY DEF jobs_next
<1>2. [worker[a] EXCEPT !.at = "generating"] \in WorkerRec
  BY WorkersTyped DEF WorkerRec
<1>3. worker' \in [Attempts -> WorkerRec] /\ OtherWorkers(a)
      /\ worker'[a] = [worker[a] EXCEPT !.at = "generating"]
  BY <1>1, <1>2 DEF StreamTypeOK, OtherWorkers
<1>4. /\ worker'[a].at = "generating" /\ worker'[a].batch = worker[a].batch
      /\ worker'[a].seq = worker[a].seq /\ worker'[a].reply = worker[a].reply
  BY <1>3, WorkersTyped DEF WorkerRec
<1>5. job' = [status |-> "running", attempt |-> a, partial |-> << >>, next_seq |-> 0]
  BY DEF jobs_next
<1>6. job' \in JobRec
  BY <1>5, Sizes DEF JobRec
<1>7. job'.status = "running" /\ job'.attempt = a /\ job'.partial = << >> /\ job'.next_seq = 0
  BY <1>5
<1>8. job.status = "queued" /\ a = job.attempt + 1 /\ UNCHANGED <<net, repeats, events, browser>>
  BY DEF jobs_next
<1> QED BY <1>3, <1>4, <1>6, <1>7, <1>8

LEMMA AttemptEndsEffect ==
  ASSUME StreamTypeOK, attempt_ends
  PROVE  /\ job.status = "running" /\ job'.status \in {"queued", "error"}
         /\ job'.attempt = job.attempt /\ job'.partial = job.partial
         /\ job'.next_seq = job.next_seq
         /\ UNCHANGED <<worker, net, repeats, events, browser>>
         /\ job' \in JobRec
<1>1. \E x \in {"queued", "error"} : job' = [job EXCEPT !.status = x]
  BY DEF attempt_ends
<1>2. job \in JobRec
  BY DEF StreamTypeOK
<1>3. job.status = "running" /\ UNCHANGED <<worker, net, repeats, events, browser>>
  BY DEF attempt_ends
<1> QED BY <1>1, <1>2, <1>3 DEF JobRec

LEMMA EventEffect ==
  ASSUME StreamTypeOK, NEW m \in net, job_event(m)
  PROVE  /\ \/ job' = job /\ ~(Accepted(m) /\ m.seq = job.next_seq)
            \/ /\ Accepted(m) /\ m.seq = job.next_seq
               /\ job'.status = job.status /\ job'.attempt = job.attempt
               /\ job'.partial = Append(job.partial, <<m.a, m.batch>>)
               /\ job'.next_seq = job.next_seq + 1
         /\ \/ events' = events
            \/ Publish([type |-> "token", a |-> m.a, batch |-> m.batch])
         /\ \A x \in Attempts :
              /\ worker'[x].at = worker[x].at /\ worker'[x].batch = worker[x].batch
              /\ worker'[x].seq = worker[x].seq
              /\ \/ worker'[x].reply = worker[x].reply
                 \/ /\ x = m.a /\ worker[x].at = "posting" /\ worker[x].batch = m.batch
                    /\ worker'[x].reply = "ok" => Accepted(m)
              /\ (worker[x].at # "posting" \/ x # m.a) => worker'[x] = worker[x]
         /\ net' \subseteq net /\ browser' = browser
         /\ job' \in JobRec /\ worker' \in [Attempts -> WorkerRec] /\ repeats' \in 0 .. MaxRepeats
<1>0. job \in JobRec /\ worker \in [Attempts -> WorkerRec] /\ m.a \in Attempts
  BY PostsTyped DEF StreamTypeOK
<1>1. /\ job' \in JobRec
      /\ \/ job' = job /\ ~(Accepted(m) /\ m.seq = job.next_seq)
         \/ /\ Accepted(m) /\ m.seq = job.next_seq
            /\ job'.status = job.status /\ job'.attempt = job.attempt
            /\ job'.partial = Append(job.partial, <<m.a, m.batch>>)
            /\ job'.next_seq = job.next_seq + 1
  <2>1. CASE Accepted(m) /\ m.seq = job.next_seq
    <3>1. job' = [job EXCEPT !.partial = Append(job.partial, <<m.a, m.batch>>),
                             !.next_seq = job.next_seq + 1]
      BY <2>1 DEF job_event, append_delta
    <3>2. Append(job.partial, <<m.a, m.batch>>) \in Seq(BatchOf)
      BY PostsTyped, JobTyped, AppendProperties DEF BatchOf
    <3>3. job.next_seq + 1 \in 0 .. Batches
      BY <2>1, PostsTyped, JobTyped, Sizes
    <3> QED BY <1>0, <2>1, <3>1, <3>2, <3>3 DEF JobRec
  <2>2. CASE ~(Accepted(m) /\ m.seq = job.next_seq)
    BY <1>0, <2>2 DEF job_event, append_delta
  <2> QED BY <2>1, <2>2
<1>2. /\ net' \subseteq net /\ browser' = browser /\ repeats' \in 0 .. MaxRepeats
      /\ ~Accepted(m) => events' = events
      /\ Accepted(m) => Publish([type |-> "token", a |-> m.a, batch |-> m.batch])
  BY Sizes DEF job_event, StreamTypeOK
<1>3. \/ worker' = worker
      \/ /\ worker[m.a].at = "posting" /\ worker[m.a].batch = m.batch
         /\ \E r \in {"ok", "conflict"} :
              /\ worker' = [worker EXCEPT ![m.a] = [worker[m.a] EXCEPT !.reply = r]]
              /\ r = "ok" => Accepted(m)
  BY DEF job_event
<1>4. /\ worker' \in [Attempts -> WorkerRec]
      /\ \A x \in Attempts :
           /\ worker'[x].at = worker[x].at /\ worker'[x].batch = worker[x].batch
           /\ worker'[x].seq = worker[x].seq
           /\ \/ worker'[x].reply = worker[x].reply
              \/ /\ x = m.a /\ worker[x].at = "posting" /\ worker[x].batch = m.batch
                 /\ worker'[x].reply = "ok" => Accepted(m)
           /\ (worker[x].at # "posting" \/ x # m.a) => worker'[x] = worker[x]
  <2>1. CASE worker' = worker
    BY <1>0, <2>1
  <2>2. ASSUME NEW r \in {"ok", "conflict"}, r = "ok" => Accepted(m),
               worker[m.a].at = "posting", worker[m.a].batch = m.batch,
               worker' = [worker EXCEPT ![m.a] = [worker[m.a] EXCEPT !.reply = r]]
        PROVE  /\ worker' \in [Attempts -> WorkerRec]
               /\ \A x \in Attempts :
                    /\ worker'[x].at = worker[x].at /\ worker'[x].batch = worker[x].batch
                    /\ worker'[x].seq = worker[x].seq
                    /\ \/ worker'[x].reply = worker[x].reply
                       \/ /\ x = m.a /\ worker[x].at = "posting" /\ worker[x].batch = m.batch
                          /\ worker'[x].reply = "ok" => Accepted(m)
                    /\ (worker[x].at # "posting" \/ x # m.a) => worker'[x] = worker[x]
    <3>1. [worker[m.a] EXCEPT !.reply = r] \in WorkerRec
      BY <1>0, WorkersTyped DEF WorkerRec
    <3>2. worker' \in [Attempts -> WorkerRec]
      BY <1>0, <2>2, <3>1
    <3>3. \A x \in Attempts \ {m.a} : worker'[x] = worker[x]
      BY <1>0, <2>2
    <3>4. worker'[m.a] = [worker[m.a] EXCEPT !.reply = r] /\ worker[m.a] \in WorkerRec
      BY <1>0, <2>2
    <3>5. /\ worker'[m.a].at = worker[m.a].at /\ worker'[m.a].batch = worker[m.a].batch
          /\ worker'[m.a].seq = worker[m.a].seq /\ worker'[m.a].reply = r
      BY <3>4 DEF WorkerRec
    <3> QED BY <2>2, <3>2, <3>3, <3>5
  <2> QED BY <1>3, <2>1, <2>2
<1> QED BY <1>1, <1>2, <1>4

LEMMA ResultEffect ==
  ASSUME StreamTypeOK, NEW a \in Attempts, NEW ok \in BOOLEAN, jobs_result(a, ok)
  PROVE  /\ worker'[a].at = "over" /\ worker'[a].batch = worker[a].batch
         /\ worker'[a].seq = worker[a].seq /\ worker'[a].reply = worker[a].reply
         /\ worker[a].at \in {"generating", "posting", "generated"} /\ OtherWorkers(a)
         /\ \/ UNCHANGED <<job, events>>
            \/ /\ Running(a) /\ job'.status = "done"
               /\ job'.attempt = a /\ job'.partial = Text(a)
               /\ Publish([type |-> "done", a |-> a, batch |-> 0])
            \/ Running(a) /\ job'.status = "queued" /\ job'.attempt = a /\ UNCHANGED events
            \/ /\ Running(a) /\ job'.status = "error" /\ job'.attempt = a
               /\ Publish([type |-> "error", a |-> a, batch |-> 0])
         /\ UNCHANGED <<net, repeats, browser>> /\ job'.attempt = job.attempt
         /\ job' \in JobRec /\ worker' \in [Attempts -> WorkerRec]
<1>0. job \in JobRec /\ worker \in [Attempts -> WorkerRec] /\ worker[a] \in WorkerRec
  BY WorkersTyped DEF StreamTypeOK
<1>1. worker' = [worker EXCEPT ![a] = [worker[a] EXCEPT !.at = "over"]]
  BY DEF jobs_result
<1>2. [worker[a] EXCEPT !.at = "over"] \in WorkerRec
  BY <1>0 DEF WorkerRec
<1>3. /\ worker' \in [Attempts -> WorkerRec] /\ OtherWorkers(a)
      /\ worker'[a] = [worker[a] EXCEPT !.at = "over"]
  BY <1>0, <1>1, <1>2 DEF OtherWorkers
<1>4. /\ worker'[a].at = "over" /\ worker'[a].batch = worker[a].batch
      /\ worker'[a].seq = worker[a].seq /\ worker'[a].reply = worker[a].reply
  BY <1>0, <1>3 DEF WorkerRec
<1>5. \/ UNCHANGED <<job, events>>
      \/ /\ Running(a) /\ job' = [job EXCEPT !.status = "done", !.partial = Text(a)]
         /\ Publish([type |-> "done", a |-> a, batch |-> 0])
      \/ Running(a) /\ job' = [job EXCEPT !.status = "queued"] /\ UNCHANGED events
      \/ /\ Running(a) /\ job' = [job EXCEPT !.status = "error"]
         /\ Publish([type |-> "error", a |-> a, batch |-> 0])
  BY DEF jobs_result
<1>6. /\ worker[a].at \in {"generating", "posting", "generated"}
      /\ UNCHANGED <<net, repeats, browser>>
  BY DEF jobs_result
<1>7. Running(a) => job.attempt = a
  BY DEF Running
<1>8. /\ job' \in JobRec
      /\ \/ UNCHANGED <<job, events>>
         \/ /\ Running(a) /\ job'.status = "done"
            /\ job'.attempt = a /\ job'.partial = Text(a)
            /\ Publish([type |-> "done", a |-> a, batch |-> 0])
         \/ Running(a) /\ job'.status = "queued" /\ job'.attempt = a /\ UNCHANGED events
         \/ /\ Running(a) /\ job'.status = "error" /\ job'.attempt = a
            /\ Publish([type |-> "error", a |-> a, batch |-> 0])
  BY <1>0, <1>5, <1>7, TextTyped DEF JobRec
<1>9. job'.attempt = job.attempt
  BY <1>7, <1>8
<1> QED BY <1>3, <1>4, <1>6, <1>8, <1>9

LEMMA PostEffect ==
  ASSUME StreamTypeOK, NEW a \in Attempts, PostChunkAsync(a)
  PROVE  /\ worker[a].at = "generating" /\ worker[a].batch <= Batches
         /\ worker'[a].at = "posting" /\ worker'[a].batch = worker[a].batch
         /\ worker'[a].seq = worker[a].seq /\ worker'[a].reply = worker[a].reply
         /\ OtherWorkers(a) /\ UNCHANGED <<job, repeats, events, browser>>
         /\ net' = net \cup {[a |-> a, seq |-> worker[a].seq, batch |-> worker[a].batch]}
         /\ worker' \in [Attempts -> WorkerRec]
<1>0. worker \in [Attempts -> WorkerRec] /\ worker[a] \in WorkerRec
  BY WorkersTyped DEF StreamTypeOK
<1>1. worker' = [worker EXCEPT ![a] = [worker[a] EXCEPT !.at = "posting"]]
  BY DEF PostChunkAsync
<1>2. [worker[a] EXCEPT !.at = "posting"] \in WorkerRec
  BY <1>0 DEF WorkerRec
<1>3. /\ worker' \in [Attempts -> WorkerRec] /\ OtherWorkers(a)
      /\ worker'[a] = [worker[a] EXCEPT !.at = "posting"]
  BY <1>0, <1>1, <1>2 DEF OtherWorkers
<1>4. /\ worker'[a].at = "posting" /\ worker'[a].batch = worker[a].batch
      /\ worker'[a].seq = worker[a].seq /\ worker'[a].reply = worker[a].reply
  BY <1>0, <1>3 DEF WorkerRec
<1> QED BY <1>3, <1>4 DEF PostChunkAsync

LEMMA PostedEffect ==
  ASSUME StreamTypeOK, NumbersBehind, NEW a \in Attempts, chunk_sent(a) \/ chunk_dropped(a)
  PROVE  /\ worker[a].at = "posting" /\ worker'[a].at \in {"generating", "generated"}
         /\ worker'[a].batch = worker[a].batch + 1
         /\ worker'[a].seq \in {worker[a].seq, worker[a].seq + 1}
         /\ worker'[a].seq # worker[a].seq => worker[a].reply = "ok"
         /\ worker'[a].reply = "none"
         /\ OtherWorkers(a) /\ UNCHANGED <<job, net, repeats, events, browser>>
         /\ worker' \in [Attempts -> WorkerRec]
<1>1. PICK sent \in {0, 1} : PostedNext(a, sent) /\ (sent = 1 => worker[a].reply = "ok")
  BY DEF chunk_sent, chunk_dropped
<1>2. worker[a].at = "posting" /\ UNCHANGED <<job, net, repeats, events, browser>>
  BY DEF chunk_sent, chunk_dropped
<1> DEFINE w == [at |-> IF worker[a].batch = Batches THEN "generated" ELSE "generating",
                 batch |-> worker[a].batch + 1, seq |-> worker[a].seq + sent, reply |-> "none"]
<1>3. w \in WorkerRec
  BY <1>2, WorkersTyped, Sizes DEF WorkerRec, NumbersBehind
<1>4. worker' = [worker EXCEPT ![a] = w]
  BY <1>1 DEF PostedNext
<1>5. /\ w.at \in {"generating", "generated"} /\ w.batch = worker[a].batch + 1
      /\ w.seq = worker[a].seq + sent /\ w.reply = "none"
  OBVIOUS
<1> HIDE DEF w
<1>6. worker' \in [Attempts -> WorkerRec] /\ OtherWorkers(a) /\ worker'[a] = w
  BY <1>3, <1>4 DEF StreamTypeOK, OtherWorkers
<1> QED BY <1>1, <1>2, <1>5, <1>6, WorkersTyped

LEMMA SettleEffect ==
  ASSUME StreamTypeOK, NEW text \in Seq(BatchOf)
  PROVE  /\ Settle(text) \in BrowserRec /\ ~Settle(text).active /\ Settle(text).text = text
         /\ Settle(text).polled = browser.polled
         /\ browser.settled = 0 => Settle(text).settled = 1
<1>0. browser \in BrowserRec
  BY DEF StreamTypeOK
<1> DEFINE n == IF browser.settled < 2 THEN browser.settled + 1 ELSE browser.settled
<1>1. n \in 0 .. 2 /\ (browser.settled = 0 => n = 1)
  BY <1>0 DEF BrowserRec
<1>2. Settle(text) = [browser EXCEPT !.active = FALSE, !.attempt = NoAttempt, !.text = text,
                                     !.settled = n]
  BY DEF Settle
<1> HIDE DEF n
<1>3. Settle(text) \in BrowserRec /\ Settle(text).settled = n
  BY <1>0, <1>1, <1>2 DEF BrowserRec
<1>4. /\ ~Settle(text).active /\ Settle(text).text = text
      /\ Settle(text).polled = browser.polled
  BY <1>0, <1>2 DEF BrowserRec
<1> QED BY <1>1, <1>3, <1>4

(* The dashboard hears an event, polls or hears the answer: its chat goes  *)
(* on, or settles with a text.                                             *)
LEMMA DashboardEffect ==
  ASSUME StreamTypeOK, EndsAreTold, on_event \/ reconnect \/ poll \/ poll_reply \/ poll_refused
  PROVE  /\ UNCHANGED <<job, worker, net, repeats>>
         /\ events' \in Seq(EventRec) /\ Len(events') <= QueueMax
         /\ \A i \in 1 .. Len(events') : \E j \in 1 .. Len(events) : events'[i] = events[j]
         /\ browser' \in BrowserRec
         /\ browser'.polled # "none" => browser'.polled = job.status
         /\ \/ /\ browser'.active => browser.active
               /\ browser'.settled = browser.settled
               /\ browser'.text = browser.text \/ browser.settled = 0
            \/ /\ browser.active /\ ~browser'.active /\ browser'.settled = 1
               /\ job.status \in {"done", "error"}
               /\ job.status = "done" => browser'.text = Text(job.attempt)
<1>0. /\ browser \in BrowserRec /\ events \in Seq(EventRec) /\ Len(events) <= QueueMax
      /\ browser.text \in Seq(BatchOf) /\ browser.active \in BOOLEAN
      /\ browser.polled \in {"none", "done", "error"}
      /\ job.partial \in Seq(BatchOf)
      /\ browser.polled # "none" => browser.polled = job.status
      /\ browser.active => browser.settled = 0
  BY JobTyped DEF StreamTypeOK, BrowserRec, EndsAreTold
<1>1. CASE poll
  <2>1. /\ browser' = [browser EXCEPT !.polled = job.status]
        /\ job.status \in {"done", "error"} /\ UNCHANGED <<job, worker, net, repeats, events>>
    BY <1>1 DEF poll
  <2>2. /\ browser' \in BrowserRec /\ browser'.polled = job.status
        /\ browser'.active = browser.active /\ browser'.settled = browser.settled
        /\ browser'.text = browser.text
    BY <1>0, <2>1 DEF BrowserRec
  <2> QED BY <1>0, <2>1, <2>2
<1>2. CASE reconnect
  <2>1. UNCHANGED <<job, worker, net, repeats, browser>> /\ events' = << >>
    BY <1>2 DEF reconnect
  <2>2. events' \in Seq(EventRec) /\ Len(events') = 0
    BY <2>1
  <2> QED BY <1>0, <2>1, <2>2, Sizes
<1>3. CASE poll_reply
  <2> DEFINE text == IF browser.polled = "done" THEN job.partial ELSE browser.text
  <2>1. UNCHANGED <<job, worker, net, repeats, events>> /\ browser.polled # "none"
    BY <1>3 DEF poll_reply
  <2>2. text \in Seq(BatchOf)
    BY <1>0
  <2>3. CASE browser.active
    <3>1. browser' = [Settle(text) EXCEPT !.polled = "none"]
      BY <1>3, <2>3 DEF poll_reply
    <3>2. job.status = "done" => text = Text(job.attempt)
      BY <1>0, <2>1 DEF EndsAreTold
    <3> HIDE DEF text
    <3>3. /\ Settle(text) \in BrowserRec /\ ~Settle(text).active /\ Settle(text).text = text
          /\ Settle(text).settled = 1
      BY <1>0, <2>2, <2>3, SettleEffect
    <3>4. /\ browser' \in BrowserRec /\ ~browser'.active /\ browser'.text = text
          /\ browser'.settled = 1 /\ browser'.polled = "none"
      BY <3>1, <3>3 DEF BrowserRec
    <3> QED BY <1>0, <2>1, <2>3, <3>2, <3>4
  <2>4. CASE ~browser.active
    <3>1. browser' = [browser EXCEPT !.polled = "none"]
      BY <1>3, <2>4 DEF poll_reply
    <3>2. /\ browser' \in BrowserRec /\ browser'.polled = "none"
          /\ browser'.active = browser.active /\ browser'.settled = browser.settled
          /\ browser'.text = browser.text
      BY <1>0, <3>1 DEF BrowserRec
    <3> QED BY <1>0, <2>1, <3>2
  <2> QED BY <2>3, <2>4
<1>4. CASE on_event
  <2> DEFINE e == Head(events)
  <2>0. /\ events # << >> /\ events' = Tail(events) /\ Takes(e)
        /\ UNCHANGED <<job, worker, net, repeats>>
    BY <1>4 DEF on_event
  <2>1. /\ e \in EventRec /\ e = events[1] /\ 1 \in 1 .. Len(events)
        /\ events' \in Seq(EventRec) /\ Len(events') <= QueueMax
        /\ \A i \in 1 .. Len(events') : \E j \in 1 .. Len(events) : events'[i] = events[j]
    BY <2>0, TailEffect
  <2> HIDE DEF e
  <2>2. /\ e.a \in Attempts /\ e.type \in {"token", "done", "error"}
        /\ e.type = "token" => e.batch \in 1 .. Batches
    BY <2>1 DEF EventRec
  <2>3. /\ e.type = "done" => job.status = "done" /\ e.a = job.attempt
        /\ e.type = "error" => job.status = "error"
    BY <2>1 DEF EndsAreTold
  <2>4. CASE browser' = browser
    BY <1>0, <2>0, <2>1, <2>4
  <2>5. CASE /\ browser.active /\ e.type = "token"
             /\ browser' = [browser EXCEPT !.attempt = e.a,
                                           !.text = Append(browser.text, <<e.a, e.batch>>)]
    <3>1. Append(browser.text, <<e.a, e.batch>>) \in Seq(BatchOf)
      BY <1>0, <2>2, <2>5, AppendProperties DEF BatchOf
    <3>2. /\ browser' \in BrowserRec /\ browser'.polled = browser.polled
          /\ browser'.active = browser.active /\ browser'.settled = browser.settled
      BY <1>0, <2>2, <2>5, <3>1 DEF BrowserRec
    <3> QED BY <1>0, <2>0, <2>1, <2>5, <3>2
  <2>6. CASE browser.active /\ e.type = "done" /\ browser' = Settle(Text(e.a))
    <3>1. Text(e.a) \in Seq(BatchOf)
      BY <2>2, TextTyped
    <3> QED BY <1>0, <2>0, <2>1, <2>3, <2>6, <3>1, SettleEffect
  <2>7. CASE browser.active /\ e.type = "error" /\ browser' = Settle(browser.text)
    BY <1>0, <2>0, <2>1, <2>3, <2>7, SettleEffect
  <2> QED BY <2>0, <2>4, <2>5, <2>6, <2>7 DEF Takes
<1>5. CASE poll_refused
  <2>1. /\ browser' = [browser EXCEPT !.active = FALSE, !.attempt = NoAttempt, !.refused = TRUE]
        /\ browser.active /\ UNCHANGED <<job, worker, net, repeats, events>>
    BY <1>5 DEF poll_refused
  <2>2. /\ browser' \in BrowserRec /\ browser'.polled = browser.polled
        /\ ~browser'.active /\ browser'.settled = browser.settled
        /\ browser'.text = browser.text
    BY <1>0, <2>1 DEF BrowserRec
  <2> QED BY <1>0, <2>1, <2>2
<1> QED BY <1>1, <1>2, <1>3, <1>4, <1>5

-----------------------------------------------------------------------------
(* Every step keeps the invariant.                                         *)

LEMMA TypeStep ==
  ASSUME StreamTypeOK, NumbersBehind, EndsAreTold, [StreamNext]_streamVars
  PROVE  StreamTypeOK'
<1> USE DEF StreamTypeOK
<1>1. CASE UNCHANGED streamVars
  BY <1>1 DEF streamVars
<1>2. ASSUME NEW a \in Attempts, jobs_next(a)
      PROVE  StreamTypeOK'
  BY <1>2, NextEffect
<1>3. ASSUME NEW a \in Attempts, PostChunkAsync(a)
      PROVE  StreamTypeOK'
  <2>1. [a |-> a, seq |-> worker[a].seq, batch |-> worker[a].batch] \in PostRec
    BY <1>3, PostEffect, WorkersTyped, Sizes DEF PostRec, NumbersBehind
  <2> QED BY <1>3, <2>1, PostEffect
<1>4. ASSUME NEW a \in Attempts, chunk_sent(a) \/ chunk_dropped(a)
      PROVE  StreamTypeOK'
  BY <1>4, PostedEffect
<1>5. ASSUME NEW a \in Attempts, NEW ok \in BOOLEAN, jobs_result(a, ok)
      PROVE  StreamTypeOK'
  <2>1. \A x \in {"done", "error"} : [type |-> x, a |-> a, batch |-> 0] \in EventRec
    BY DEF EventRec
  <2>2. events' \in Seq(EventRec) /\ Len(events') <= QueueMax
    BY <1>5, <2>1, ResultEffect, PublishEffect
  <2> QED BY <1>5, <2>2, ResultEffect
<1>6. ASSUME NEW m \in net, job_event(m)
      PROVE  StreamTypeOK'
  <2>1. [type |-> "token", a |-> m.a, batch |-> m.batch] \in EventRec
    BY PostsTyped DEF EventRec
  <2>2. events' \in Seq(EventRec) /\ Len(events') <= QueueMax
    BY <1>6, <2>1, EventEffect, PublishEffect
  <2> QED BY <1>6, <2>2, EventEffect
<1>7. CASE attempt_ends
  BY <1>7, AttemptEndsEffect
<1>8. CASE on_event \/ reconnect \/ poll \/ poll_reply \/ poll_refused
  BY <1>8, DashboardEffect
<1> QED BY <1>1, <1>2, <1>3, <1>4, <1>5, <1>6, <1>7, <1>8 DEF StreamNext

(* Workers and their posts. *)
SendersInv == NotYetBegun /\ NumbersBehind /\ PostsInOrder

LEMMA SendersStep ==
  ASSUME StreamTypeOK, SendersInv, EndsAreTold, [StreamNext]_streamVars
  PROVE  SendersInv'
<1> USE DEF SendersInv, NotYetBegun, NumbersBehind, PostsInOrder, OtherWorkers
<1>0. /\ \A m \in net : m.a \in Attempts /\ m.seq \in Nat /\ m.batch \in Nat
      /\ \A a \in Attempts : worker[a].seq \in Nat /\ worker[a].batch \in Nat /\ a \in Nat
      /\ job.attempt \in Nat
  BY PostsTyped, WorkersTyped, JobTyped, Sizes DEF Attempts
<1>1. CASE UNCHANGED streamVars
  BY <1>1 DEF streamVars
<1>2. ASSUME NEW a \in Attempts, jobs_next(a)
      PROVE  SendersInv'
  <2>1. /\ a = job.attempt + 1 /\ job'.attempt = a /\ net' = net
        /\ worker[a] = IdleWorker /\ \A m \in net : m.a # a
        /\ worker'[a].batch = worker[a].batch /\ worker'[a].seq = worker[a].seq
        /\ worker'[a].at = "generating" /\ worker'[a].reply = worker[a].reply
        /\ \A x \in Attempts \ {a} : worker'[x] = worker[x]
    BY <1>0, <1>2, NextEffect
  <2>2. NotYetBegun'
    BY <1>0, <2>1
  <2>3. NumbersBehind'
    BY <2>1 DEF IdleWorker
  <2>4. PostsInOrder'
    BY <1>0, <2>1
  <2> QED BY <2>2, <2>3, <2>4
<1>3. ASSUME NEW a \in Attempts, PostChunkAsync(a)
      PROVE  SendersInv'
  <2> DEFINE p == [a |-> a, seq |-> worker[a].seq, batch |-> worker[a].batch]
  <2>1. /\ worker[a].at = "generating" /\ worker'[a].at = "posting"
        /\ worker[a].batch <= Batches
        /\ worker'[a].batch = worker[a].batch /\ worker'[a].seq = worker[a].seq
        /\ \A x \in Attempts \ {a} : worker'[x] = worker[x]
        /\ job' = job /\ net' = net \cup {p}
    BY <1>3, PostEffect
  <2>2. p.a = a /\ p.seq = worker[a].seq /\ p.batch = worker[a].batch
    OBVIOUS
  <2> HIDE DEF p
  <2>3. NotYetBegun'
    BY <1>0, <2>1, <2>2 DEF IdleWorker
  <2>4. NumbersBehind'
    BY <2>1
  <2>5. \A m \in net : m.a = a => m.seq <= p.seq /\ m.batch < p.batch
    BY <1>0, <2>1, <2>2
  <2>6. PostsInOrder'
    BY <1>0, <2>1, <2>2, <2>5
  <2> QED BY <2>3, <2>4, <2>6
<1>4. ASSUME NEW a \in Attempts, chunk_sent(a) \/ chunk_dropped(a)
      PROVE  SendersInv'
  <2>1. /\ worker[a].at = "posting" /\ worker'[a].at \in {"generating", "generated"}
        /\ worker'[a].batch = worker[a].batch + 1
        /\ worker'[a].seq \in {worker[a].seq, worker[a].seq + 1}
        /\ worker'[a].reply = "none"
        /\ \A x \in Attempts \ {a} : worker'[x] = worker[x]
        /\ job' = job /\ net' = net
    BY <1>4, PostedEffect
  <2>2. NotYetBegun'
    BY <1>0, <2>1 DEF IdleWorker
  <2>3. NumbersBehind'
    BY <1>0, <2>1
  <2>4. PostsInOrder'
    BY <1>0, <2>1
  <2> QED BY <2>2, <2>3, <2>4
<1>5. ASSUME NEW a \in Attempts, NEW ok \in BOOLEAN, jobs_result(a, ok)
      PROVE  SendersInv'
  <2>1. /\ worker[a].at \in {"generating", "posting", "generated"} /\ worker'[a].at = "over"
        /\ worker'[a].batch = worker[a].batch /\ worker'[a].seq = worker[a].seq
        /\ OtherWorkers(a) /\ UNCHANGED net
    BY ONLY StreamTypeOK, <1>5, ResultEffect
  <2>0. job'.attempt = job.attempt
    BY <1>5, ResultEffect
  <2>2. NotYetBegun'
    BY <1>0, <2>0, <2>1 DEF IdleWorker
  <2>3. NumbersBehind'
    BY <1>0, <2>1
  <2>4. PostsInOrder'
    BY <1>0, <2>1
  <2> QED BY <2>2, <2>3, <2>4
<1>6. ASSUME NEW m \in net, job_event(m)
      PROVE  SendersInv'
  <2>1. /\ \A x \in Attempts :
             /\ worker'[x].at = worker[x].at /\ worker'[x].batch = worker[x].batch
             /\ worker'[x].seq = worker[x].seq
             /\ worker[x].at # "posting" => worker'[x] = worker[x]
        /\ job'.attempt = job.attempt /\ net' \subseteq net
    BY <1>6, EventEffect
  <2>2. NotYetBegun'
    BY <1>0, <2>1 DEF IdleWorker
  <2>3. NumbersBehind'
    BY <1>0, <2>1
  <2>4. PostsInOrder'
    BY <1>0, <2>1
  <2> QED BY <2>2, <2>3, <2>4
<1>7. CASE attempt_ends
  BY <1>7, AttemptEndsEffect
<1>8. CASE on_event \/ reconnect \/ poll \/ poll_reply \/ poll_refused
  BY <1>8, DashboardEffect
<1> QED BY <1>1, <1>2, <1>3, <1>4, <1>5, <1>6, <1>7, <1>8 DEF StreamNext

LEMMA PartialTyped ==
  ASSUME StreamTypeOK, NEW i \in 1 .. Len(job.partial)
  PROVE  job.partial[i][1] \in Attempts /\ job.partial[i][2] \in Nat
<1>1. job.partial[i] \in BatchOf
  BY JobTyped, ElementOfSeq
<1> QED BY <1>1, Sizes DEF BatchOf

(* A piece still fits when its worker only goes on. *)
LEMMA PieceKept ==
  ASSUME StreamTypeOK, NEW i \in 1 .. Len(job.partial), PieceFits(i),
         NEW a \in Attempts, a = job.attempt, job'.attempt = a,
         job'.partial[i] = job.partial[i],
         worker'[a].seq \in Nat, worker'[a].batch \in Nat,
         worker'[a].seq >= worker[a].seq, worker'[a].batch >= worker[a].batch,
         worker'[a].batch = worker[a].batch /\ worker[a].at \in {"posting", "over"} =>
            worker'[a].at \in {"posting", "over"},
         \A m \in net' : \/ m \in net
                         \/ m.a # a
                         \/ /\ worker[a].at = "generating"
                            /\ m.seq = worker[a].seq /\ m.batch = worker[a].batch
  PROVE  PieceFits(i)'
<1> DEFINE b == job.partial[i][2]
<1>1. /\ worker[a].seq \in Nat /\ worker[a].batch \in Nat /\ b \in Nat /\ i \in Nat
      /\ \A m \in net : m.seq \in Nat /\ m.batch \in Nat
  BY WorkersTyped, PartialTyped, PostsTyped, JobTyped
<1>2. /\ job.partial[i][1] = a
      /\ i <= worker[a].seq + 1 /\ b <= worker[a].batch
      /\ b = worker[a].batch => worker[a].at \in {"posting", "over"}
      /\ \A m \in net : m.a = a /\ m.seq < i - 1 => m.batch < b
      /\ \A m \in net : m.a = a /\ m.seq > i - 1 => m.batch > b
  BY DEF PieceFits
<1> HIDE DEF b
<1>3. i <= worker'[a].seq + 1 /\ b <= worker'[a].batch
  BY <1>1, <1>2
<1>4. b = worker'[a].batch => worker'[a].at \in {"posting", "over"}
  BY <1>1, <1>2
<1>5. \A m \in net' : m.a = a /\ m.seq < i - 1 => m.batch < b
  BY <1>1, <1>2
<1>6. \A m \in net' : m.a = a /\ m.seq > i - 1 => m.batch > b
  BY <1>1, <1>2
<1> QED BY <1>2, <1>3, <1>4, <1>5, <1>6 DEF PieceFits, b

(* The host's text and the numbers of the worker that it listens to. *)
HostInv == TextFits /\ AnsweredIsCounted /\ NumberInTurn

LEMMA HostStep ==
  ASSUME StreamTypeOK, StreamTypeOK', SendersInv, HostInv, EndsAreTold, [StreamNext]_streamVars
  PROVE  HostInv'
<1> USE DEF HostInv, AnsweredIsCounted, NumberInTurn, Running, OtherWorkers
<1>0. /\ \A m \in net : m.a \in Attempts /\ m.seq \in Nat /\ m.batch \in Nat
      /\ \A a \in Attempts : worker[a].seq \in Nat /\ worker[a].batch \in Nat /\ a \in Nat
      /\ job.attempt \in Nat /\ job.next_seq \in Nat /\ job.partial \in Seq(BatchOf)
  BY PostsTyped, WorkersTyped, JobTyped, Sizes DEF Attempts
<1>00. \A a \in Attempts : worker'[a].seq \in Nat /\ worker'[a].batch \in Nat
  <2>1. worker' \in [Attempts -> WorkerRec]
    BY DEF StreamTypeOK
  <2> QED BY <2>1, Sizes DEF WorkerRec
<1>k. ASSUME job' = job,
             \A a \in Attempts :
               /\ worker'[a].seq >= worker[a].seq /\ worker'[a].batch >= worker[a].batch
               /\ worker'[a].batch = worker[a].batch /\ worker[a].at \in {"posting", "over"} =>
                    worker'[a].at \in {"posting", "over"}
               /\ \A m \in net' : \/ m \in net
                                  \/ m.a # a
                                  \/ /\ worker[a].at = "generating"
                                     /\ m.seq = worker[a].seq /\ m.batch = worker[a].batch
      PROVE  TextFits'
  <2>1. CASE job.status = "running"
    <3>1. /\ job.attempt \in Attempts /\ Len(job.partial) = job.next_seq
          /\ \A i \in 1 .. Len(job.partial) : PieceFits(i)
      BY <2>1 DEF TextFits
    <3>2. \A i \in 1 .. Len(job.partial) : PieceFits(i)'
      BY <1>00, <1>k, <3>1, PieceKept
    <3> QED BY <1>k, <3>1, <3>2 DEF TextFits
  <2>2. CASE job.status # "running"
    BY <1>k, <2>2 DEF TextFits
  <2> QED BY <2>1, <2>2
<1>1. CASE UNCHANGED streamVars
  BY <1>1 DEF streamVars, TextFits, PieceFits
<1>2. ASSUME NEW a \in Attempts, jobs_next(a)
      PROVE  HostInv'
  <2>1. /\ a = job.attempt + 1 /\ job'.attempt = a /\ job'.partial = << >> /\ job'.next_seq = 0
        /\ worker[a] = IdleWorker /\ worker'[a].seq = worker[a].seq
        /\ worker'[a].at = "generating"
    BY <1>0, <1>2, NextEffect DEF SendersInv, NotYetBegun
  <2>2. worker'[a].seq = 0
    BY <2>1 DEF IdleWorker
  <2> QED BY <2>1, <2>2 DEF TextFits
<1>3. ASSUME NEW a \in Attempts, PostChunkAsync(a)
      PROVE  HostInv'
  <2> DEFINE p == [a |-> a, seq |-> worker[a].seq, batch |-> worker[a].batch]
  <2>1. /\ worker[a].at = "generating" /\ worker'[a].at = "posting"
        /\ worker'[a].batch = worker[a].batch /\ worker'[a].seq = worker[a].seq
        /\ worker'[a].reply = worker[a].reply
        /\ \A x \in Attempts \ {a} : worker'[x] = worker[x]
        /\ job' = job /\ net' = net \cup {p}
    BY <1>3, PostEffect
  <2>2. p.a = a /\ p.seq = worker[a].seq /\ p.batch = worker[a].batch
    OBVIOUS
  <2> HIDE DEF p
  <2>3. TextFits'
    BY <1>0, <1>k, <2>1, <2>2
  <2>4. NumberInTurn'
    BY <2>1
  <2>5. AnsweredIsCounted'
    <3>1. worker'[a].reply = "none"
      BY <2>1 DEF SendersInv, NumbersBehind
    <3> QED BY <2>1, <3>1
  <2> QED BY <2>3, <2>4, <2>5
<1>4. ASSUME NEW a \in Attempts, chunk_sent(a) \/ chunk_dropped(a)
      PROVE  HostInv'
  <2>1. /\ worker[a].at = "posting" /\ worker'[a].at \in {"generating", "generated"}
        /\ worker'[a].batch = worker[a].batch + 1
        /\ worker'[a].seq \in {worker[a].seq, worker[a].seq + 1}
        /\ worker'[a].seq # worker[a].seq => worker[a].reply = "ok"
        /\ \A x \in Attempts \ {a} : worker'[x] = worker[x]
        /\ job' = job /\ net' = net
    BY <1>4, PostedEffect DEF SendersInv
  <2>2. TextFits'
    BY <1>0, <1>k, <2>1
  <2>3. NumberInTurn'
    BY <1>0, <2>1
  <2>4. AnsweredIsCounted'
    BY <1>0, <2>1
  <2> QED BY <2>2, <2>3, <2>4
<1>5. ASSUME NEW a \in Attempts, NEW ok \in BOOLEAN, jobs_result(a, ok)
      PROVE  HostInv'
  <2>1. /\ worker[a].at \in {"generating", "posting", "generated"} /\ worker'[a].at = "over"
        /\ worker'[a].batch = worker[a].batch /\ worker'[a].seq = worker[a].seq
        /\ \A x \in Attempts \ {a} : worker'[x] = worker[x]
        /\ net' = net /\ (job' = job \/ job'.status # "running")
    BY <1>5, ResultEffect
  <2>2. TextFits'
    <3>1. CASE job' = job
      BY <1>0, <1>k, <2>1, <3>1
    <3>2. CASE job'.status # "running"
      BY <3>2 DEF TextFits
    <3> QED BY <2>1, <3>1, <3>2
  <2>3. NumberInTurn'
    BY <1>0, <2>1
  <2>4. AnsweredIsCounted'
    BY <1>0, <2>1
  <2> QED BY <2>2, <2>3, <2>4
<1>6. ASSUME NEW m \in net, job_event(m)
      PROVE  HostInv'
  <2>1. /\ \A x \in Attempts :
             /\ worker'[x].at = worker[x].at /\ worker'[x].batch = worker[x].batch
             /\ worker'[x].seq = worker[x].seq
             /\ \/ worker'[x].reply = worker[x].reply
                \/ /\ x = m.a /\ worker[x].at = "posting" /\ worker[x].batch = m.batch
                   /\ worker'[x].reply = "ok" => Accepted(m)
        /\ net' \subseteq net
    BY <1>6, EventEffect
  <2>2. \/ job' = job /\ ~(Accepted(m) /\ m.seq = job.next_seq)
        \/ /\ Accepted(m) /\ m.seq = job.next_seq
           /\ job'.status = job.status /\ job'.attempt = job.attempt
           /\ job'.partial = Append(job.partial, <<m.a, m.batch>>)
           /\ job'.next_seq = job.next_seq + 1
    BY <1>6, EventEffect
  <2>3. \A x \in Attempts : worker'[x].at = "posting" /\ worker'[x].reply = "ok" =>
           \/ worker[x].reply = "ok"
           \/ x = m.a /\ Accepted(m) /\ m.seq = worker[x].seq
    BY <1>0, <2>1 DEF SendersInv, PostsInOrder
  <2>4. CASE job' = job /\ ~(Accepted(m) /\ m.seq = job.next_seq)
    <3>1. TextFits'
      BY <1>0, <1>k, <2>1, <2>4
    <3>2. NumberInTurn'
      BY <2>1, <2>4
    <3>3. AnsweredIsCounted'
      BY <1>0, <2>1, <2>3, <2>4 DEF Accepted
    <3> QED BY <3>1, <3>2, <3>3
  <2>5. CASE /\ Accepted(m) /\ m.seq = job.next_seq
             /\ job'.status = job.status /\ job'.attempt = job.attempt
             /\ job'.partial = Append(job.partial, <<m.a, m.batch>>)
             /\ job'.next_seq = job.next_seq + 1
    <3>0. PICK n \in Nat : n = job.next_seq
      BY <1>0
    <3>1. /\ job.status = "running" /\ job.attempt = m.a /\ Len(job.partial) = n
          /\ m.seq = n
          /\ \A i \in 1 .. n : PieceFits(i)
          /\ \A i, j \in 1 .. n : i < j => job.partial[i][2] < job.partial[j][2]
      BY <1>0, <2>5, <3>0 DEF Accepted, TextFits
    <3>2. /\ Len(job'.partial) = n + 1
          /\ \A i \in 1 .. n : job'.partial[i] = job.partial[i]
          /\ job'.partial[n + 1] = <<m.a, m.batch>>
      BY <1>0, <2>5, <3>1, PostsTyped, AppendProperties DEF BatchOf
    <3>3. ASSUME NEW i \in 1 .. n
          PROVE  PieceFits(i)'
      <4>1. i \in 1 .. Len(job.partial) /\ PieceFits(i) /\ job'.partial[i] = job.partial[i]
        BY <3>1, <3>2
      <4>2. m.a \in Attempts /\ m.a = job.attempt /\ job'.attempt = m.a
        BY <1>0, <2>5, <3>1
      <4>3. /\ worker'[m.a].seq \in Nat /\ worker'[m.a].batch \in Nat
            /\ worker'[m.a].seq >= worker[m.a].seq /\ worker'[m.a].batch >= worker[m.a].batch
            /\ worker'[m.a].at = worker[m.a].at
            /\ \A o \in net' : o \in net
        BY <1>0, <1>00, <2>1, <4>2
      <4> QED BY <4>1, <4>2, <4>3, PieceKept
    <3>4. PieceFits(n + 1)'
      <4>1. /\ m.seq <= worker[m.a].seq /\ m.batch <= worker[m.a].batch
            /\ m.batch = worker[m.a].batch => worker[m.a].at \in {"posting", "over"}
            /\ \A o \in net : o.a = m.a /\ o.seq < n => o.batch < m.batch
            /\ \A o \in net : o.a = m.a /\ o.seq > n => o.batch > m.batch
        BY <1>0, <3>1 DEF SendersInv, PostsInOrder
      <4>2. /\ job'.attempt = m.a
            /\ job'.partial[n + 1][1] = m.a /\ job'.partial[n + 1][2] = m.batch
            /\ n + 1 - 1 = n /\ n + 1 <= worker'[m.a].seq + 1
        BY <1>0, <2>1, <2>5, <3>1, <3>2, <4>1
      <4>3. /\ m.batch <= worker'[m.a].batch
            /\ m.batch = worker'[m.a].batch => worker'[m.a].at \in {"posting", "over"}
        BY <1>0, <2>1, <4>1
      <4>4. /\ \A o \in net' : o.a = m.a /\ o.seq < n + 1 - 1 => o.batch < m.batch
            /\ \A o \in net' : o.a = m.a /\ o.seq > n + 1 - 1 => o.batch > m.batch
        BY <2>1, <4>1, <4>2
      <4> QED BY <4>2, <4>3, <4>4 DEF PieceFits
    <3>5. ASSUME NEW i \in 1 .. n
          PROVE  job.partial[i][2] < m.batch
      BY <1>0, <3>1, PartialTyped DEF PieceFits
    <3>6. ASSUME NEW i \in 1 .. n + 1, NEW j \in 1 .. n + 1, i < j
          PROVE  job'.partial[i][2] < job'.partial[j][2]
      <4>1. i \in 1 .. n /\ (j \in 1 .. n \/ j = n + 1)
        BY <3>1, <3>6
      <4>2. CASE j \in 1 .. n
        BY <3>1, <3>2, <3>6, <4>1, <4>2
      <4>3. CASE j = n + 1
        BY <3>2, <3>5, <4>1, <4>3
      <4> QED BY <4>1, <4>2, <4>3
    <3>7. TextFits'
      <4>1. /\ job'.attempt \in Attempts /\ job'.next_seq = n + 1
            /\ Len(job'.partial) = n + 1
        BY <1>0, <2>5, <3>0, <3>1, <3>2
      <4>2. ASSUME NEW i \in 1 .. n + 1
            PROVE  PieceFits(i)'
        <5>1. i \in 1 .. n \/ i = n + 1
          BY <3>1
        <5> QED BY <3>3, <3>4, <5>1
      <4> QED BY <3>6, <4>1, <4>2 DEF TextFits
    <3>8. NumberInTurn'
      BY <1>0, <2>1, <2>5
    <3>9. AnsweredIsCounted'
      BY <1>0, <2>1, <2>3, <2>5, <3>1 DEF Accepted
    <3> QED BY <3>7, <3>8, <3>9
  <2> QED BY <2>2, <2>4, <2>5
<1>7. CASE attempt_ends
  BY <1>7, AttemptEndsEffect DEF TextFits
<1>8. CASE on_event \/ reconnect \/ poll \/ poll_reply \/ poll_refused
  BY <1>0, <1>k, <1>8, DashboardEffect
<1> QED BY <1>1, <1>2, <1>3, <1>4, <1>5, <1>6, <1>7, <1>8 DEF StreamNext

(* The ends that are told, on the wire and on the screen. *)
SettledAsAnswered ==
    browser.settled # 0 /\ job.status = "done" => browser.text = Text(job.attempt)
ToldInv == EndsAreTold /\ SettledAsAnswered

LEMMA ToldStep ==
  ASSUME StreamTypeOK, ToldInv, NumbersBehind, [StreamNext]_streamVars
  PROVE  ToldInv'
<1> USE DEF ToldInv, SettledAsAnswered
<1>0. /\ events \in Seq(EventRec) /\ browser \in BrowserRec
      /\ browser.active \in BOOLEAN /\ browser.polled \in {"none", "done", "error"}
  BY DEF StreamTypeOK, BrowserRec
<1>1. CASE UNCHANGED streamVars
  BY <1>1 DEF streamVars, EndsAreTold
<1>2. ASSUME NEW a \in Attempts, jobs_next(a)
      PROVE  ToldInv'
  BY <1>0, <1>2, NextEffect DEF EndsAreTold
<1>3. ASSUME NEW a \in Attempts, PostChunkAsync(a)
      PROVE  ToldInv'
  BY <1>3, PostEffect DEF EndsAreTold
<1>4. ASSUME NEW a \in Attempts, chunk_sent(a) \/ chunk_dropped(a)
      PROVE  ToldInv'
  BY <1>4, PostedEffect DEF EndsAreTold
<1>5. ASSUME NEW a \in Attempts, NEW ok \in BOOLEAN, jobs_result(a, ok)
      PROVE  ToldInv'
  <2>0. UNCHANGED browser
    BY <1>5, ResultEffect
  <2>1. CASE UNCHANGED <<job, events>>
    BY <2>0, <2>1 DEF EndsAreTold
  <2>2. ASSUME Running(a)
        PROVE  /\ \A i \in 1 .. Len(events) : events[i].type \notin {"done", "error"}
               /\ browser.polled = "none" /\ browser.settled = 0
               /\ job.status = "running" /\ job.attempt = a
    BY <1>0, <2>2 DEF EndsAreTold, Running
  <2>3. CASE /\ Running(a) /\ job'.status = "done"
             /\ job'.attempt = a /\ job'.partial = Text(a)
             /\ Publish([type |-> "done", a |-> a, batch |-> 0])
    <3> DEFINE e == [type |-> "done", a |-> a, batch |-> 0]
    <3>1. e \in EventRec /\ e.type = "done" /\ e.a = a
      BY DEF EventRec
    <3> HIDE DEF e
    <3>2. \A i \in 1 .. Len(events') :
             events'[i] = e \/ \E j \in 1 .. Len(events) : events'[i] = events[j]
      BY <2>3, <3>1, PublishEffect DEF e
    <3> QED BY <2>0, <2>2, <2>3, <3>1, <3>2 DEF EndsAreTold
  <2>4. CASE Running(a) /\ job'.status = "queued" /\ job'.attempt = a /\ UNCHANGED events
    BY <2>0, <2>2, <2>4 DEF EndsAreTold
  <2>5. CASE /\ Running(a) /\ job'.status = "error" /\ job'.attempt = a
             /\ Publish([type |-> "error", a |-> a, batch |-> 0])
    <3> DEFINE e == [type |-> "error", a |-> a, batch |-> 0]
    <3>1. e \in EventRec /\ e.type = "error" /\ e.a = a
      BY DEF EventRec
    <3> HIDE DEF e
    <3>2. \A i \in 1 .. Len(events') :
             events'[i] = e \/ \E j \in 1 .. Len(events) : events'[i] = events[j]
      BY <2>5, <3>1, PublishEffect DEF e
    <3> QED BY <2>0, <2>2, <2>5, <3>1, <3>2 DEF EndsAreTold
  <2> QED BY <1>5, <2>1, <2>3, <2>4, <2>5, ResultEffect
<1>6. ASSUME NEW m \in net, job_event(m)
      PROVE  ToldInv'
  <2>1. UNCHANGED browser /\ job'.status = job.status /\ job'.attempt = job.attempt
        /\ (job' = job \/ job.status = "running")
    BY <1>6, EventEffect DEF Accepted, Running
  <2> DEFINE e == [type |-> "token", a |-> m.a, batch |-> m.batch]
  <2>2. e \in EventRec /\ e.type = "token"
    BY PostsTyped DEF EventRec
  <2> HIDE DEF e
  <2>3. \A i \in 1 .. Len(events') :
           events'[i] = e \/ \E j \in 1 .. Len(events) : events'[i] = events[j]
    <3>1. events' = events \/ Publish(e)
      BY <1>6, EventEffect DEF e
    <3> QED BY <2>2, <3>1, PublishEffect
  <2> QED BY <2>1, <2>2, <2>3 DEF EndsAreTold
<1>7. CASE attempt_ends
  BY <1>0, <1>7, AttemptEndsEffect DEF EndsAreTold
<1>8. CASE on_event \/ reconnect \/ poll \/ poll_reply \/ poll_refused
  BY <1>0, <1>8, DashboardEffect DEF EndsAreTold
<1> QED BY <1>1, <1>2, <1>3, <1>4, <1>5, <1>6, <1>7, <1>8 DEF StreamNext

-----------------------------------------------------------------------------
(* The invariant and what follows from it.                                 *)

StreamInv == StreamTypeOK /\ SendersInv /\ HostInv /\ ToldInv

LEMMA StreamInvInit == StreamInit => StreamInv
<1> SUFFICES ASSUME StreamInit PROVE StreamInv
  OBVIOUS
<1>1. StreamTypeOK
  BY InitTyped
<1>2. /\ job.status = "queued" /\ job.attempt = NoAttempt /\ net = {} /\ Len(events) = 0
      /\ browser.active /\ browser.settled = 0 /\ browser.polled = "none"
      /\ \A a \in Attempts :
           /\ worker[a] = IdleWorker
           /\ worker[a].seq = 0 /\ worker[a].batch = 1
           /\ worker[a].at = "idle" /\ worker[a].reply = "none"
  BY DEF StreamInit, IdleWorker
<1>3. SendersInv
  BY <1>2 DEF SendersInv, NotYetBegun, NumbersBehind, PostsInOrder
<1>4. HostInv
  BY <1>2 DEF HostInv, TextFits, AnsweredIsCounted, NumberInTurn, Running
<1>5. ToldInv
  BY <1>2 DEF ToldInv, EndsAreTold, SettledAsAnswered
<1> QED BY <1>1, <1>3, <1>4, <1>5 DEF StreamInv

LEMMA StreamInvStep == StreamInv /\ [StreamNext]_streamVars => StreamInv'
<1> SUFFICES ASSUME StreamInv, [StreamNext]_streamVars PROVE StreamInv'
  OBVIOUS
<1>1. StreamTypeOK'
  BY TypeStep DEF StreamInv, SendersInv, ToldInv
<1>2. SendersInv'
  BY SendersStep DEF StreamInv, ToldInv
<1>3. HostInv'
  BY <1>1, HostStep DEF StreamInv, ToldInv
<1>4. ToldInv'
  BY ToldStep DEF StreamInv, SendersInv
<1> QED BY <1>1, <1>2, <1>3, <1>4 DEF StreamInv

LEMMA StreamInvAlways == StreamSpec => []StreamInv
  BY StreamInvInit, StreamInvStep, PTL DEF StreamSpec

(* Every variable keeps its type: the host's text is made of batches that  *)
(* exist, its counter stays within them, and the queue of the socket       *)
(* within its bound (chat_tracker.py:51, _publish_admin_event).            *)
THEOREM StreamTypes == StreamSpec => []StreamTypeOK
<1>1. StreamInv => StreamTypeOK
  BY DEF StreamInv
<1> QED BY <1>1, StreamInvAlways, PTL

(* Whatever posts are lost, repeated or late, the host's partial text has  *)
(* pieces of the running attempt only, in order and without repetition     *)
(* (append_delta, chat_tracker.py:105).                                    *)
THEOREM PartialHolds == StreamSpec => []PartialInOrder
<1>1. ASSUME StreamInv PROVE PartialInOrder
  <2>0. job.partial \in Seq(BatchOf)
    BY <1>1, JobTyped DEF StreamInv
  <2>1. CASE job.status = "running"
    BY <1>1, <2>0, <2>1 DEF StreamInv, HostInv, TextFits, PieceFits, PartialInOrder
  <2>2. CASE job.status = "done"
    <3>1. job.partial = Text(job.attempt)
      BY <1>1, <2>2 DEF StreamInv, ToldInv, EndsAreTold
    <3>2. /\ DOMAIN job.partial = 1 .. Batches
          /\ \A i \in 1 .. Batches : job.partial[i] = <<job.attempt, i>>
      BY <3>1 DEF Text
    <3> QED BY <3>2 DEF PartialInOrder
  <2> QED BY <2>1, <2>2 DEF PartialInOrder
<1> QED BY <1>1, StreamInvAlways, PTL

(* A worker that reuses the number of a batch that failed is never ahead   *)
(* of the host (EventBatcher.cs:44).                                       *)
THEOREM NumberHolds == StreamSpec => []NumberInTurn
<1>1. StreamInv => NumberInTurn
  BY DEF StreamInv, HostInv
<1> QED BY <1>1, StreamInvAlways, PTL

(* A chat that settles as done shows the whole answer of the attempt the   *)
(* host took (applyChatResult and pollChat, dashboard.html).               *)
THEOREM SettledHolds == StreamSpec => []SettledIsAnswer
<1>1. ASSUME StreamInv PROVE SettledIsAnswer
  <2>1. browser.settled > 0 => browser.settled # 0
    OBVIOUS
  <2> QED BY <1>1, <2>1 DEF StreamInv, ToldInv, SettledAsAnswered, SettledIsAnswer
<1> QED BY <1>1, StreamInvAlways, PTL

(* It settles once, though its end comes by an event and by a poll         *)
(* (dashboard.html:4681 and 5198).                                         *)
THEOREM OnceHolds == StreamSpec => []SettlesOnce
<1>1. ASSUME StreamInv PROVE SettlesOnce
  <2>1. browser.active \in BOOLEAN
    BY <1>1 DEF StreamInv, StreamTypeOK, BrowserRec
  <2> QED BY <1>1, <2>1 DEF StreamInv, ToldInv, EndsAreTold, SettlesOnce
<1> QED BY <1>1, StreamInvAlways, PTL
=============================================================================

--------------------------- MODULE DispatchProofs ---------------------------
(***************************************************************************)
(* The safety properties of Dispatch, proved for any number of workers, of *)
(* jobs and of threads.                                                    *)
(***************************************************************************)
EXTENDS Dispatch, LoadBalancerProofs, FiniteSetTheorems

-----------------------------------------------------------------------------
(* Where the loop and the threads are, and what their locals then are.     *)

(* The event loop with the locals l. *)
LoopAs(l) ==
    /\ l \in LoopRec
    /\ l.at \in {"reap", "reap job"} => l.todo \in Seq(Jobs \X Claimers)
    /\ l.at = "reap job" => l.todo # <<>>
    /\ l.at = "expire" \/ (l.at = "dropped" /\ l.back = "expire") => l.todo \in Seq(Nodes)
    /\ l.at \in {"schedule", "reserve", "reserved", "stale settle"} => l.todo \in Seq(Jobs)
    /\ l.at \in {"reserve", "reserved"} => l.todo # <<>>
    /\ l.at = "dropped" => l.back \in {"expire", "put"}
    /\ l.at \in {"reserve", "reserved", "dropped", "claimed"} => l.job \in Jobs
    /\ l.at \in {"reserve", "reserved", "dropped", "decide", "stale", "stale settle", "put",
                 "claimed"} => l.node \in Nodes
    /\ l.at \in {"stale", "stale settle", "put"} => l.row \in Rows
    /\ l.at = "dropped" /\ l.back = "put" => l.row \in Rows

(* A thread with the locals t that keeps the job h. *)
ThreadAs(t, h) ==
    /\ t \in ThreadRec
    /\ t.at \in {"posted", "complete", "commit", "count", "settle", "requeued", "cancelled",
                 "put back"} => t.job \in Jobs
    /\ t.at \in {"complete", "commit", "count", "settle", "requeued", "leave settle",
                 "cancel", "requeue", "cancelled", "put back", "gone", "revoke"}
         => t.node \in Nodes
    /\ h = IF t.at \in {"commit", "count", "settle"} THEN t.job ELSE NoJob

Threads == th \in [Callers -> ThreadRec] /\ \A c \in Callers : ThreadAs(th[c], held[c])

TypedInv == LBInv /\ DispatchTypeOK /\ LoopAs(loop) /\ Threads

-----------------------------------------------------------------------------
(* Sequences and sets.                                                     *)

LEMMA TailTyped ==
  ASSUME NEW S, NEW s \in Seq(S), s # <<>>
  PROVE  Head(s) \in S /\ Tail(s) \in Seq(S)
  OBVIOUS

LEMMA ListingTyped ==
  ASSUME NEW S, IsFiniteSet(S), NEW p \in Listings(S)
  PROVE  p \in Seq(S) /\ DOMAIN p = 1 .. Cardinality(S) /\ Cardinality(S) \in Nat
<1>1. Cardinality(S) \in Nat
  BY FS_CardinalityType
<1> QED BY <1>1 DEF Listings

LEMMA QueuedFinite ==
  ASSUME queue \in Seq(Jobs)
  PROVE  /\ Queued \subseteq Jobs /\ IsFiniteSet(Queued)
         /\ \A S \in SUBSET Queued : IsFiniteSet(S)
<1>1. queue \in Surjection(1 .. Len(queue), Queued)
  BY DEF Queued, Range, Surjection
<1>2. IsFiniteSet(1 .. Len(queue))
  BY FS_Interval
<1>3. IsFiniteSet(Queued)
  BY <1>1, <1>2, FS_Surjection
<1> QED BY <1>3, FS_Subset DEF Queued, Range

-----------------------------------------------------------------------------
(* Locals.                                                                 *)

LEMMA Basics ==
  /\ IdleLoop \in LoopRec /\ IdleLoop.at = "idle" /\ LoopAs(IdleLoop)
  /\ IdleThread \in ThreadRec /\ IdleThread.at = "idle" /\ ThreadAs(IdleThread, NoJob)
  /\ NoEntry \notin Rows /\ NoNode \notin Nodes /\ NoJob \notin Jobs
  /\ Nodes \subseteq Claimers
<1>1. <<>> \in Seq(Jobs)
  OBVIOUS
<1>2. IdleLoop \in LoopRec /\ IdleLoop.at = "idle"
  BY <1>1 DEF IdleLoop, LoopRec, LoopPlaces
<1>3. IdleThread \in ThreadRec /\ IdleThread.at = "idle"
  BY <1>1 DEF IdleThread, ThreadRec, ThreadPlaces
<1> QED BY <1>2, <1>3, BalancerAssumption, CacheAssumption DEF LoopAs, ThreadAs, Claimers

LEMMA LoopFields ==
  ASSUME NEW l \in LoopRec
  PROVE  /\ l.at \in LoopPlaces /\ l.back \in LoopPlaces /\ l.live \in SUBSET Jobs
         /\ l.todo \in Seq(Jobs) \cup Seq(Nodes) \cup Seq(Jobs \X Claimers)
         /\ l.node \in Nodes \cup {NoNode} /\ l.job \in Jobs \cup {NoJob}
         /\ l.row \in Rows \cup {NoEntry}
  BY DEF LoopRec

(* The loop goes to a place. *)
LEMMA LoopStays ==
  ASSUME NEW l \in LoopRec, NEW place \in LoopPlaces
  PROVE  LET n == [l EXCEPT !.at = place]
         IN  /\ n \in LoopRec /\ n.at = place /\ n.todo = l.todo /\ n.node = l.node
             /\ n.job = l.job /\ n.row = l.row /\ n.back = l.back /\ n.live = l.live
  BY DEF LoopRec

(* A thread goes on with new locals. *)
LEMMA ThreadGoes ==
  ASSUME Threads, NEW c \in Callers, NEW n, th' = [th EXCEPT ![c] = n],
         ThreadAs(n, held'[c]), \A x \in Callers \ {c} : held'[x] = held[x]
  PROVE  Threads' /\ th' \in [Callers -> ThreadRec] /\ th'[c] = n
         /\ \A x \in Callers \ {c} : th'[x] = th[x]
<1>1. n \in ThreadRec
  BY DEF ThreadAs
<1>2. /\ th' \in [Callers -> ThreadRec] /\ th'[c] = n
      /\ \A x \in Callers \ {c} : th'[x] = th[x]
  BY <1>1 DEF Threads
<1>3. \A x \in Callers : ThreadAs(th'[x], held'[x])
  BY <1>2 DEF Threads
<1> QED BY <1>2, <1>3 DEF Threads

LEMMA ThreadAt ==
  ASSUME Threads, NEW c \in Callers
  PROVE  /\ th[c] \in ThreadRec /\ ThreadAs(th[c], held[c])
         /\ th[c].at \in ThreadPlaces /\ th[c].todo \in Seq(Jobs)
         /\ th[c].node \in Nodes \cup {NoNode} /\ th[c].job \in Jobs \cup {NoJob}
         /\ th[c].ok \in BOOLEAN
  BY DEF Threads, ThreadRec

LEMMA ThreadStays ==
  ASSUME NEW t \in ThreadRec, NEW place \in ThreadPlaces
  PROVE  LET n == [t EXCEPT !.at = place]
         IN  /\ n \in ThreadRec /\ n.at = place /\ n.job = t.job /\ n.node = t.node
             /\ n.ok = t.ok /\ n.todo = t.todo
  BY DEF ThreadRec

LEMMA GoGoes ==
  ASSUME Threads, NEW c \in Callers, NEW place \in ThreadPlaces, Go(c, place),
         ThreadAs([th[c] EXCEPT !.at = place], held'[c]),
         \A x \in Callers \ {c} : held'[x] = held[x]
  PROVE  /\ Threads' /\ th'[c].at = place /\ th'[c].job = th[c].job
         /\ th'[c].node = th[c].node /\ th'[c].ok = th[c].ok
         /\ \A x \in Callers \ {c} : th'[x] = th[x]
<1> DEFINE n == [th[c] EXCEPT !.at = place]
<1>1. th' = [th EXCEPT ![c] = n]
  BY DEF Go
<1>2. n.at = place /\ n.job = th[c].job /\ n.node = th[c].node /\ n.ok = th[c].ok
  BY ThreadAt, ThreadStays
<1>3. ThreadAs(n, held'[c])
  OBVIOUS
<1> HIDE DEF n
<1> QED BY <1>1, <1>2, <1>3, ThreadGoes

LEMMA FinishGoes ==
  ASSUME Threads, NEW c \in Callers, Finish(c), held'[c] = NoJob,
         \A x \in Callers \ {c} : held'[x] = held[x]
  PROVE  Threads' /\ th'[c] = IdleThread /\ \A x \in Callers \ {c} : th'[x] = th[x]
  BY Basics, ThreadGoes DEF Finish

(* A caller's job is another's or nobody's: what held' says of the others. *)
LEMMA HeldSet ==
  ASSUME LBTypeOK, NEW c \in Callers, NEW h, held' = [held EXCEPT ![c] = h]
  PROVE  held'[c] = h /\ \A x \in Callers \ {c} : held'[x] = held[x]
  BY DEF LBTypeOK

-----------------------------------------------------------------------------
(* The table of forecasts and the records of the chats.                    *)

CacheOK == cache \in [Nodes -> Rows]
ChatOK == chat \in [Jobs -> Statuses]

LEMMA RowIs ==
  ASSUME NEW st \in States, NEW k \in Nat, NEW m \in 0 .. 1
  PROVE  Row(st, k, m) \in Rows /\ Row(st, k, m).state = st /\ Row(st, k, m).inflight = k
  BY DEF Row, Rows

LEMMA RowFields ==
  ASSUME CacheOK, NEW n \in Nodes
  PROVE  /\ cache[n] \in Rows /\ cache[n].state \in States /\ cache[n].inflight \in Nat
         /\ cache[n].model \in 0 .. 1 /\ Known(n)
  BY CacheAssumption DEF CacheOK, Rows, Known

(* Only the node's own row changes. *)
OthersKept(n) == \A m \in Nodes \ {n} : cache'[m] = cache[m]

LEMMA SetRow ==
  ASSUME CacheOK, NEW n \in Nodes, NEW r \in Rows, cache' = [cache EXCEPT ![n] = r]
  PROVE  CacheOK' /\ cache'[n] = r /\ OthersKept(n)
  BY DEF CacheOK, OthersKept

LEMMA CountDown ==
  ASSUME CacheOK, NEW n \in Nodes, DecInflight(n)
  PROVE  /\ CacheOK' /\ OthersKept(n) /\ cache'[n].state = cache[n].state
         /\ cache[n].inflight > 0 => cache'[n].inflight = cache[n].inflight - 1
         /\ cache[n].inflight = 0 => cache'[n].inflight = 0
<1> DEFINE r == [cache[n] EXCEPT !.inflight = cache[n].inflight - 1]
<1>1. CASE cache[n].inflight > 0
  <2>1. r \in Rows /\ r.inflight = cache[n].inflight - 1 /\ r.state = cache[n].state
    BY <1>1, RowFields DEF Rows
  <2>2. cache' = [cache EXCEPT ![n] = r]
    BY <1>1, RowFields DEF DecInflight
  <2> HIDE DEF r
  <2>3. ~(cache[n].inflight = 0)
    BY <1>1
  <2> QED BY <2>1, <2>2, <2>3, SetRow
<1>2. CASE ~(cache[n].inflight > 0)
  BY <1>2, RowFields DEF DecInflight, OthersKept, CacheOK
<1> QED BY <1>1, <1>2

LEMMA CountUp ==
  ASSUME CacheOK, NEW n \in Nodes, IncInflight(n)
  PROVE  /\ CacheOK' /\ OthersKept(n) /\ cache'[n].state = cache[n].state
         /\ cache'[n].inflight = cache[n].inflight + 1
<1> DEFINE r == [cache[n] EXCEPT !.inflight = cache[n].inflight + 1]
<1>1. r \in Rows /\ r.inflight = cache[n].inflight + 1 /\ r.state = cache[n].state
  BY RowFields DEF Rows
<1>2. cache' = [cache EXCEPT ![n] = r]
  BY RowFields DEF IncInflight
<1> HIDE DEF r
<1> QED BY <1>1, <1>2, SetRow

LEMMA PutRow ==
  ASSUME CacheOK, NEW n \in Nodes, NEW row \in Rows, put(n, row)
  PROVE  /\ CacheOK' /\ OthersKept(n) /\ cache'[n].state = row.state
         /\ cache'[n].inflight = cache[n].inflight
<1> DEFINE r == [row EXCEPT !.inflight = cache[n].inflight]
<1>1. r \in Rows /\ r.inflight = cache[n].inflight /\ r.state = row.state
  BY RowFields DEF Rows
<1>2. cache' = [cache EXCEPT ![n] = r]
  BY RowFields DEF put
<1> HIDE DEF r
<1> QED BY <1>1, <1>2, SetRow

LEMMA MarkRow ==
  ASSUME CacheOK, NEW n \in Nodes, NEW m \in 0 .. 1,
         mark_inactive(n) \/ mark_joining(n) \/ mark_warming_up(n, m)
  PROVE  /\ CacheOK' /\ OthersKept(n)
         /\ mark_warming_up(n, m) => cache'[n].inflight = cache[n].inflight
<1>1. /\ Row("INACTIVE", 0, 0) \in Rows /\ Row("JOINING", 0, 0) \in Rows
      /\ Row("WARMING_UP", cache[n].inflight, m) \in Rows
      /\ Row("WARMING_UP", cache[n].inflight, m).inflight = cache[n].inflight
  BY RowIs, RowFields DEF States
<1>2. \/ cache' = [cache EXCEPT ![n] = Row("INACTIVE", 0, 0)]
      \/ cache' = [cache EXCEPT ![n] = Row("JOINING", 0, 0)]
      \/ cache' = [cache EXCEPT ![n] = Row("WARMING_UP", cache[n].inflight, m)]
  BY RowFields DEF mark_inactive, mark_joining, mark_warming_up
<1>3. CacheOK' /\ OthersKept(n)
  BY <1>1, <1>2, SetRow
<1>4. ASSUME mark_warming_up(n, m)
      PROVE  cache'[n].inflight = cache[n].inflight
  <2>1. cache' = [cache EXCEPT ![n] = Row("WARMING_UP", cache[n].inflight, m)]
    BY <1>4, RowFields DEF mark_warming_up
  <2> QED BY <1>1, <2>1, SetRow
<1> QED BY <1>3, <1>4

(* A record that is there takes the status, one that is not stays away. *)
LEMMA ChatSet ==
  ASSUME ChatOK, NEW j, NEW st \in Statuses, Overwrite(j, st)
  PROVE  /\ ChatOK' /\ \A i \in Jobs \ {j} : chat'[i] = chat[i]
         /\ \A i \in Jobs : chat[i] = "none" => chat'[i] = "none"
         /\ j \in Jobs => chat'[j] \in {"none", st}
  BY DEF ChatOK, Overwrite, Statuses

LEMMA ChatNew ==
  ASSUME ChatOK, NEW j \in Jobs, chat_enqueue(j)
  PROVE  ChatOK' /\ chat'[j] = "queued" /\ \A i \in Jobs \ {j} : chat'[i] = chat[i]
  BY DEF ChatOK, chat_enqueue, Statuses

-----------------------------------------------------------------------------
(* The steps of the threads.                                               *)

RestOK ==
    /\ CacheOK /\ ChatOK /\ lapsed \subseteq Jobs
    /\ handed \subseteq Nodes \X Jobs \X (0 .. AttemptCap)
    /\ member \subseteq Nodes /\ closer \in ClosePlaces

LEMMA Parts ==
  ASSUME TypedInv
  PROVE  /\ LBInv /\ LBTypeOK /\ Threads /\ RestOK /\ CacheOK /\ ChatOK
         /\ loop \in LoopRec /\ LoopAs(loop) /\ lapsed \subseteq Jobs
         /\ queue \in Seq(Jobs) /\ Queued \subseteq Jobs
         /\ active \in [Claimers -> Jobs \cup {NoJob}]
         /\ attempts \in [Jobs -> 0 .. AttemptCap]
         /\ held \in [Callers -> Jobs \cup {NoJob}]
<1>1. LBInv /\ LBTypeOK
  BY DEF TypedInv, LBInv
<1>2. Queued \subseteq Jobs
  BY <1>1, QueuedFinite DEF LBTypeOK
<1> QED BY <1>1, <1>2 DEF TypedInv, DispatchTypeOK, RestOK, CacheOK, ChatOK, LBTypeOK

(* What a step of a thread leaves. *)
ThreadStepOK ==
    /\ [LBNext]_lbVars /\ Threads' /\ RestOK'
    /\ UNCHANGED <<loop, former>>

LEMMA ThreadStepIs ==
  ASSUME TypedInv, [LBNext]_lbVars, Threads', CacheOK', ChatOK', lapsed' \subseteq Jobs,
         member' \subseteq Nodes, UNCHANGED <<handed, loop, closer, former>>
  PROVE  ThreadStepOK
  BY DEF ThreadStepOK, RestOK, TypedInv, DispatchTypeOK

LEMMA Same == UNCHANGED lbVars => held' = held
  BY DEF lbVars

LEMMA PostStep ==
  ASSUME TypedInv, NEW c \in Callers,
         (\E j \in Jobs : post_chat(c, j)) \/ post_chat_record(c)
  PROVE  ThreadStepOK
<1>0. /\ Threads /\ CacheOK /\ ChatOK /\ lapsed \subseteq Jobs /\ member \subseteq Nodes
      /\ ThreadAs(th[c], held[c])
  BY Parts, ThreadAt DEF RestOK
<1>1. ASSUME NEW j \in Jobs, post_chat(c, j)
      PROVE  ThreadStepOK
  <2> DEFINE n == [IdleThread EXCEPT !.at = "posted", !.job = j]
  <2>1. n \in ThreadRec /\ n.at = "posted" /\ n.job = j
    BY Basics DEF ThreadRec, ThreadPlaces
  <2>2. th' = [th EXCEPT ![c] = n] /\ enqueue_job(j, NoNode) /\ th[c].at = "idle"
        /\ UNCHANGED <<tableVars, lapsed, handed, member, loop, closer, former>>
    BY <1>1 DEF post_chat, Enter
  <2>3. held' = held /\ held[c] = NoJob
    BY <1>0, <2>2 DEF enqueue_job, ThreadAs
  <2> HIDE DEF n
  <2>4. Threads'
    BY <1>0, <2>1, <2>2, <2>3, ThreadGoes DEF ThreadAs
  <2>5. [LBNext]_lbVars
    BY <2>2 DEF LBNext
  <2> QED BY <1>0, <2>2, <2>4, <2>5, ThreadStepIs DEF tableVars, CacheOK, ChatOK
<1>2. CASE post_chat_record(c)
  <2>1. /\ th[c].at = "posted" /\ chat_enqueue(th[c].job) /\ Finish(c)
        /\ UNCHANGED <<lbVars, cache, lapsed, handed, member, loop, closer, former>>
    BY <1>2 DEF post_chat_record
  <2>2. held' = held /\ held[c] = NoJob /\ th[c].job \in Jobs
    BY <1>0, <2>1, Same DEF ThreadAs
  <2>3. Threads' /\ ChatOK'
    BY <1>0, <2>1, <2>2, FinishGoes, ChatNew
  <2> QED BY <1>0, <2>1, <2>3, ThreadStepIs DEF CacheOK
<1> QED BY <1>1, <1>2

LEMMA AnswerStep ==
  ASSUME TypedInv, NEW c \in Callers, NEW h \in handed, NEW ok \in BOOLEAN,
         jobs_result(c, h[1], h[2], h[3], ok)
  PROVE  ThreadStepOK
<1>0. /\ Threads /\ CacheOK /\ ChatOK /\ lapsed \subseteq Jobs /\ member \subseteq Nodes
      /\ ThreadAs(th[c], held[c]) /\ h[1] \in Nodes /\ h[2] \in Jobs
  BY Parts, ThreadAt DEF RestOK
<1> DEFINE n == [IdleThread EXCEPT !.at = "complete", !.node = h[1], !.job = h[2], !.ok = ok]
<1>1. n \in ThreadRec /\ n.at = "complete" /\ n.job = h[2] /\ n.node = h[1]
  BY <1>0, Basics DEF ThreadRec, ThreadPlaces
<1>2. /\ th' = [th EXCEPT ![c] = n] /\ th[c].at = "idle"
      /\ UNCHANGED <<lbVars, tableVars, lapsed, handed, member, loop, closer, former>>
  BY DEF jobs_result, Enter
<1>3. held' = held /\ held[c] = NoJob
  BY <1>0, <1>2, Same DEF ThreadAs
<1> HIDE DEF n
<1>4. Threads'
  BY <1>0, <1>1, <1>2, <1>3, ThreadGoes DEF ThreadAs
<1> QED BY <1>0, <1>2, <1>4, ThreadStepIs DEF tableVars, CacheOK, ChatOK

LEMMA ResultStep ==
  ASSUME TypedInv, NEW c \in Callers,
         \/ result_complete(c) \/ result_commit(c) \/ result_count(c)
         \/ result_settle(c) \/ result_requeued(c)
  PROVE  ThreadStepOK
<1>0. /\ LBTypeOK /\ Threads /\ CacheOK /\ ChatOK /\ lapsed \subseteq Jobs
      /\ member \subseteq Nodes
      /\ th[c] \in ThreadRec /\ ThreadAs(th[c], held[c]) /\ Nodes \subseteq Claimers
  BY Parts, ThreadAt, Basics DEF RestOK
<1>a. ASSUME NEW place \in {"commit", "count", "settle", "requeued"},
             Go(c, place), th[c].at \in {"complete", "commit", "count", "settle"},
             held'[c] = IF place = "requeued" THEN NoJob ELSE th[c].job,
             \A x \in Callers \ {c} : held'[x] = held[x]
      PROVE  Threads'
  <2> DEFINE n == [th[c] EXCEPT !.at = place]
  <2>1. place \in ThreadPlaces
    BY <1>a DEF ThreadPlaces
  <2>2. n \in ThreadRec /\ n.at = place /\ n.job = th[c].job /\ n.node = th[c].node
    BY <1>0, <2>1, ThreadStays
  <2> HIDE DEF n
  <2>3. ThreadAs(n, held'[c])
    BY <1>0, <1>a, <2>2 DEF ThreadAs
  <2> QED BY <1>0, <1>a, <2>1, <2>3, GoGoes DEF n
<1>1. CASE result_complete(c)
  <2>1. /\ th[c].at = "complete"
        /\ \/ /\ complete(c, th[c].node, th[c].job)
              /\ lapsed' = lapsed \ {th[c].job}
              /\ Go(c, "commit")
           \/ /\ Finish(c)
              /\ UNCHANGED <<lbVars, lapsed>>
        /\ UNCHANGED <<tableVars, handed, member, loop, closer, former>>
    BY <1>1 DEF result_complete
  <2>2. CASE complete(c, th[c].node, th[c].job) /\ lapsed' = lapsed \ {th[c].job} /\ Go(c, "commit")
    <3>1. held' = [held EXCEPT ![c] = th[c].job]
      BY <2>2 DEF complete
    <3>2. Threads'
      BY <1>0, <1>a, <2>1, <2>2, <3>1, HeldSet
    <3>3. [LBNext]_lbVars
      BY <1>0, <2>1, <2>2 DEF LBNext, ThreadAs
    <3> QED BY <1>0, <2>1, <2>2, <3>2, <3>3, ThreadStepIs DEF tableVars, CacheOK, ChatOK
  <2>3. CASE Finish(c) /\ UNCHANGED <<lbVars, lapsed>>
    <3>1. held' = held /\ held[c] = NoJob
      BY <1>0, <2>1, <2>3, Same DEF ThreadAs
    <3> QED BY <1>0, <2>1, <2>3, <3>1, FinishGoes, ThreadStepIs DEF tableVars, CacheOK, ChatOK
  <2> QED BY <2>1, <2>2, <2>3
<1>2. CASE result_commit(c)
  <2>1. /\ th[c].at = "commit"
        /\ \/ Go(c, "count") /\ UNCHANGED lbVars
           \/ discard(c) /\ Finish(c)
        /\ UNCHANGED <<tableVars, lapsed, handed, member, loop, closer, former>>
    BY <1>2 DEF result_commit
  <2>2. CASE Go(c, "count") /\ UNCHANGED lbVars
    <3>1. held' = held /\ held[c] = th[c].job
      BY <1>0, <2>1, <2>2, Same DEF ThreadAs
    <3> QED BY <1>0, <1>a, <2>1, <2>2, <3>1, ThreadStepIs DEF tableVars, CacheOK, ChatOK
  <2>3. CASE discard(c) /\ Finish(c)
    <3>1. held' = [held EXCEPT ![c] = NoJob]
      BY <2>3 DEF discard
    <3>2. [LBNext]_lbVars
      BY <2>3 DEF LBNext
    <3> QED BY <1>0, <2>1, <2>3, <3>1, <3>2, HeldSet, FinishGoes, ThreadStepIs
            DEF tableVars, CacheOK, ChatOK
  <2> QED BY <2>1, <2>2, <2>3
<1>3. CASE result_count(c)
  <2>1. /\ th[c].at = "count" /\ DecInflight(th[c].node) /\ Go(c, "settle")
        /\ UNCHANGED <<lbVars, chat, lapsed, handed, member, loop, closer, former>>
    BY <1>3 DEF result_count
  <2>2. held' = held /\ held[c] = th[c].job /\ th[c].node \in Nodes
    BY <1>0, <2>1, Same DEF ThreadAs
  <2>3. Threads' /\ CacheOK'
    BY <1>0, <1>a, <2>1, <2>2, CountDown
  <2> QED BY <1>0, <2>1, <2>3, ThreadStepIs DEF ChatOK
<1>4. CASE result_settle(c)
  <2>1. /\ th[c].at = "settle"
        /\ \/ return_job_to_pending(c) /\ Go(c, "requeued") /\ UNCHANGED chat
           \/ /\ discard(c) /\ Finish(c)
              /\ mark_done(th[c].job) \/ mark_error(th[c].job)
        /\ UNCHANGED <<cache, lapsed, handed, member, loop, closer, former>>
    BY <1>4 DEF result_settle
  <2>2. CASE return_job_to_pending(c) /\ Go(c, "requeued") /\ UNCHANGED chat
    <3>1. held' = [held EXCEPT ![c] = NoJob]
      BY <2>2 DEF return_job_to_pending
    <3>2. [LBNext]_lbVars
      BY <2>2 DEF LBNext
    <3>3. Threads'
      BY <1>0, <1>a, <2>1, <2>2, <3>1, HeldSet
    <3> QED BY <1>0, <2>1, <2>2, <3>2, <3>3, ThreadStepIs DEF CacheOK, ChatOK
  <2>3. CASE discard(c) /\ Finish(c) /\ (mark_done(th[c].job) \/ mark_error(th[c].job))
    <3>1. held' = [held EXCEPT ![c] = NoJob]
      BY <2>3 DEF discard
    <3>2. [LBNext]_lbVars
      BY <2>3 DEF LBNext
    <3>3. ChatOK'
      BY <1>0, <2>3, ChatSet DEF mark_done, mark_error, Statuses
    <3> QED BY <1>0, <2>1, <2>3, <3>1, <3>2, <3>3, HeldSet, FinishGoes, ThreadStepIs
            DEF CacheOK
  <2> QED BY <2>1, <2>2, <2>3
<1>5. CASE result_requeued(c)
  <2>1. /\ th[c].at = "requeued" /\ mark_queued(th[c].job) /\ Finish(c)
        /\ UNCHANGED <<lbVars, cache, lapsed, handed, member, loop, closer, former>>
    BY <1>5 DEF result_requeued
  <2>2. held' = held /\ held[c] = NoJob
    BY <1>0, <2>1, Same DEF ThreadAs
  <2>3. ChatOK'
    BY <1>0, <2>1, ChatSet DEF mark_queued, Statuses
  <2> QED BY <1>0, <2>1, <2>2, <2>3, FinishGoes, ThreadStepIs DEF CacheOK
<1> QED BY <1>1, <1>2, <1>3, <1>4, <1>5

LEMMA SnapshotTyped ==
  ASSUME queue \in Seq(Jobs), NEW S \in SUBSET Queued, NEW p \in Snapshots(S)
  PROVE  /\ p \in Seq(S) /\ p \in Seq(Jobs) /\ p \in [1 .. Cardinality(S) -> S]
         /\ IsFiniteSet(S) /\ Cardinality(S) \in Nat /\ Len(p) = Cardinality(S)
         /\ \A i, k \in 1 .. Cardinality(S) : p[i] = p[k] => i = k
<1>1. S \subseteq Jobs /\ IsFiniteSet(S)
  BY QueuedFinite
<1>2. Cardinality(S) \in Nat
  BY <1>1, FS_CardinalityType
<1>3. p \in [1 .. Cardinality(S) -> S] /\ IsInjective(p)
  BY DEF Snapshots, Listings
<1> QED BY <1>1, <1>2, <1>3 DEF IsInjective

(* The worker's name is known from leave on. *)
LEMMA LeavePlace ==
  ASSUME Threads, NEW c \in Callers, NEW place, NEW n \in ThreadRec,
         th' = [th EXCEPT ![c] = n], n.at = place, n.node \in Nodes,
         place \in {"leave settle", "cancel", "requeue", "cancelled", "put back", "gone", "revoke"},
         place \in {"cancelled", "put back"} => n.job \in Jobs,
         held' = held, held[c] = NoJob
  PROVE  Threads'
  BY ThreadGoes DEF ThreadAs

LEMMA LeaveStep ==
  ASSUME TypedInv, NEW c \in Callers,
         \/ \E n \in Nodes : leave(c, n)
         \/ leave_settle(c) \/ leave_peek(c) \/ leave_active(c)
         \/ leave_active_settle(c) \/ leave_inactive(c) \/ leave_revoke(c)
  PROVE  ThreadStepOK
<1>0. /\ LBTypeOK /\ Threads /\ CacheOK /\ ChatOK /\ lapsed \subseteq Jobs
      /\ member \subseteq Nodes /\ queue \in Seq(Jobs)
      /\ th[c] \in ThreadRec /\ ThreadAs(th[c], held[c]) /\ Nodes \subseteq Claimers
      /\ active \in [Claimers -> Jobs \cup {NoJob}]
      /\ th[c].todo \in Seq(Jobs)
  BY Parts, ThreadAt, Basics DEF RestOK
<1>a. th[c].at \notin {"commit", "count", "settle"} => held[c] = NoJob
  BY <1>0 DEF ThreadAs
<1>b. th[c].at \in {"leave settle", "cancel", "requeue", "cancelled", "put back", "gone", "revoke"}
        => th[c].node \in Nodes
  BY <1>0 DEF ThreadAs
<1>1. ASSUME NEW n \in Nodes, leave(c, n)
      PROVE  ThreadStepOK
  <2>1. /\ release_reservations_for(n) /\ th[c].at = "idle"
        /\ lapsed' = lapsed \ {j \in Queued : target[j] = n}
        /\ UNCHANGED <<tableVars, handed, member, loop, closer, former>>
    BY <1>1 DEF leave, Enter
  <2>2. PICK p \in Snapshots({j \in Queued : target[j] = n}) :
           th' = [th EXCEPT ![c] = [IdleThread EXCEPT !.at = "leave settle", !.node = n, !.todo = p]]
    BY <1>1 DEF leave
  <2> DEFINE t == [IdleThread EXCEPT !.at = "leave settle", !.node = n, !.todo = p]
  <2>3. p \in Seq(Jobs)
    BY <1>0, SnapshotTyped
  <2>4. t \in ThreadRec /\ t.at = "leave settle" /\ t.node = n
    BY <2>3, Basics DEF ThreadRec, ThreadPlaces
  <2>5. held' = held /\ [LBNext]_lbVars
    BY <2>1 DEF release_reservations_for, LBNext
  <2> HIDE DEF t
  <2>6. Threads'
    BY <1>0, <1>a, <2>1, <2>2, <2>4, <2>5, LeavePlace DEF t
  <2> QED BY <1>0, <2>1, <2>5, <2>6, ThreadStepIs DEF tableVars, CacheOK, ChatOK
<1>2. CASE leave_settle(c)
  <2> DEFINE t == [th[c] EXCEPT !.todo = Tail(th[c].todo)]
  <2>1. /\ th[c].at = "leave settle" /\ th[c].todo # <<>>
        /\ DecInflight(th[c].node) /\ mark_queued(Head(th[c].todo))
        /\ th' = [th EXCEPT ![c] = t]
        /\ UNCHANGED <<lbVars, lapsed, handed, member, loop, closer, former>>
    BY <1>2 DEF leave_settle
  <2>2. t \in ThreadRec /\ t.at = "leave settle" /\ t.node = th[c].node
    BY <1>0, <2>1, TailTyped DEF ThreadRec
  <2> HIDE DEF t
  <2>3. Threads'
    BY <1>0, <1>a, <1>b, <2>1, <2>2, Same, LeavePlace
  <2>4. CacheOK' /\ ChatOK'
    BY <1>0, <1>b, <2>1, CountDown, ChatSet DEF mark_queued, Statuses
  <2> QED BY <1>0, <2>1, <2>3, <2>4, ThreadStepIs
<1>3. CASE leave_peek(c)
  <2> DEFINE place == IF active[th[c].node] = NoJob THEN "gone"
                      ELSE IF active[th[c].node] \in Burns THEN "cancel" ELSE "requeue"
             t == [th[c] EXCEPT !.at = place]
  <2>1. /\ th[c].at = "leave settle" /\ th' = [th EXCEPT ![c] = t]
        /\ UNCHANGED <<lbVars, tableVars, lapsed, handed, member, loop, closer, former>>
    BY <1>3 DEF leave_peek
  <2>2. place \in {"gone", "cancel", "requeue"} /\ place \in ThreadPlaces
    BY DEF ThreadPlaces
  <2> HIDE DEF place
  <2>3. t \in ThreadRec /\ t.at = place /\ t.node = th[c].node
    BY <1>0, <2>2, ThreadStays
  <2> HIDE DEF t
  <2>4. Threads'
    BY <1>0, <1>a, <1>b, <2>1, <2>2, <2>3, Same, LeavePlace
  <2> QED BY <1>0, <2>1, <2>4, ThreadStepIs DEF tableVars, CacheOK, ChatOK
<1>4. ASSUME NEW place \in {"gone", "revoke"}, Go(c, place), held' = held,
             th[c].at \in {"cancel", "requeue", "cancelled", "put back", "gone"}
      PROVE  Threads'
  <2> DEFINE t == [th[c] EXCEPT !.at = place]
  <2>0. place \in ThreadPlaces
    BY <1>4 DEF ThreadPlaces
  <2>1. t \in ThreadRec /\ t.at = place /\ t.node = th[c].node
    BY <1>0, <2>0, ThreadStays
  <2>2. th' = [th EXCEPT ![c] = t]
    BY <1>4 DEF Go
  <2> HIDE DEF t
  <2> QED BY <1>0, <1>4, <1>a, <1>b, <2>1, <2>2, LeavePlace
<1>5. CASE leave_active(c)
  <2>0. /\ th[c].at \in {"cancel", "requeue"}
        /\ UNCHANGED <<tableVars, handed, member, loop, closer, former>>
    BY <1>5 DEF leave_active
  <2>1. CASE Go(c, "gone") /\ UNCHANGED <<lbVars, lapsed>>
    <3>1. Threads'
      BY <1>4, <2>0, <2>1, Same
    <3> QED BY <1>0, <2>0, <2>1, <3>1, ThreadStepIs DEF tableVars, CacheOK, ChatOK
  <2> DEFINE n == th[c].node
             place == IF th[c].at = "cancel" THEN "cancelled" ELSE "put back"
             t == [th[c] EXCEPT !.job = active[n], !.at = place]
  <2>2. CASE /\ cancel_active(n) \/ requeue_active_as_pending(n)
             /\ lapsed' = lapsed \ {active[n]} /\ th' = [th EXCEPT ![c] = t]
    <3>1. n \in Claimers /\ active[n] \in Jobs
      BY <1>0, <1>b, <2>0, <2>2 DEF cancel_active, requeue_active_as_pending
    <3>2. place \in {"cancelled", "put back"} /\ place \in ThreadPlaces
      BY DEF ThreadPlaces
    <3>3. held' = held /\ [LBNext]_lbVars
      BY <2>2, <3>1 DEF cancel_active, requeue_active_as_pending, LBNext
    <3> HIDE DEF place
    <3>4. t \in ThreadRec /\ t.at = place /\ t.node = th[c].node /\ t.job = active[n]
      BY <1>0, <3>1, <3>2 DEF ThreadRec
    <3> HIDE DEF t
    <3>5. Threads'
      BY <1>0, <1>a, <1>b, <2>0, <2>2, <3>1, <3>2, <3>3, <3>4, LeavePlace
    <3> QED BY <1>0, <2>0, <2>2, <3>3, <3>5, ThreadStepIs DEF tableVars, CacheOK, ChatOK
  <2> QED BY <1>5, <2>1, <2>2 DEF leave_active
<1>6. CASE leave_active_settle(c)
  <2>1. /\ th[c].at \in {"cancelled", "put back"} /\ DecInflight(th[c].node) /\ Go(c, "gone")
        /\ mark_queued(th[c].job) \/ UNCHANGED chat
        /\ UNCHANGED <<lbVars, lapsed, handed, member, loop, closer, former>>
    BY <1>6 DEF leave_active_settle
  <2>2. Threads' /\ CacheOK'
    BY <1>0, <1>4, <1>b, <2>1, Same, CountDown
  <2>3. ChatOK'
    BY <1>0, <2>1, ChatSet DEF mark_queued, Statuses, ChatOK
  <2> QED BY <1>0, <2>1, <2>2, <2>3, ThreadStepIs
<1>7. CASE leave_inactive(c)
  <2>1. /\ th[c].at = "gone" /\ set_flag(th[c].node, FALSE) /\ mark_inactive(th[c].node)
        /\ Go(c, "revoke")
        /\ UNCHANGED <<chat, lapsed, handed, member, loop, closer, former>>
    BY <1>7 DEF leave_inactive
  <2>2. held' = held /\ [LBNext]_lbVars
    BY <1>b, <2>1 DEF set_flag, LBNext
  <2>3. CacheOK'
    BY <1>0, <1>b, <2>1, MarkRow
  <2> QED BY <1>0, <1>4, <2>1, <2>2, <2>3, ThreadStepIs DEF ChatOK
<1>8. CASE leave_revoke(c)
  <2>1. /\ th[c].at = "revoke" /\ member' = member \ {th[c].node} /\ Finish(c)
        /\ UNCHANGED <<lbVars, tableVars, lapsed, handed, loop, closer, former>>
    BY <1>8 DEF leave_revoke
  <2>2. Threads'
    BY <1>0, <1>a, <2>1, Same, FinishGoes
  <2> QED BY <1>0, <2>1, <2>2, ThreadStepIs DEF tableVars, CacheOK, ChatOK
<1> QED BY <1>1, <1>2, <1>3, <1>5, <1>6, <1>7, <1>8

LEMMA ThreadStep ==
  ASSUME TypedInv, NEW c \in Callers,
         \/ \E j \in Jobs : post_chat(c, j)
         \/ \E h \in handed, ok \in BOOLEAN : jobs_result(c, h[1], h[2], h[3], ok)
         \/ \E n \in Nodes : leave(c, n)
         \/ HandlerStep(c)
  PROVE  ThreadStepOK
<1>1. CASE \/ \E n \in Nodes : leave(c, n)
           \/ leave_settle(c) \/ leave_peek(c) \/ leave_active(c)
           \/ leave_active_settle(c) \/ leave_inactive(c) \/ leave_revoke(c)
  BY <1>1, LeaveStep
<1>2. CASE \/ result_complete(c) \/ result_commit(c) \/ result_count(c)
           \/ result_settle(c) \/ result_requeued(c)
  BY <1>2, ResultStep
<1>3. CASE (\E j \in Jobs : post_chat(c, j)) \/ post_chat_record(c)
  BY <1>3, PostStep
<1>4. CASE \E h \in handed, ok \in BOOLEAN : jobs_result(c, h[1], h[2], h[3], ok)
  BY <1>4, AnswerStep
<1> QED BY <1>1, <1>2, <1>3, <1>4 DEF HandlerStep

-----------------------------------------------------------------------------
(* The steps of the event loop.                                            *)

LoopStepOK ==
    /\ [LBNext]_lbVars /\ held' = held /\ LoopAs(loop') /\ RestOK'
    /\ UNCHANGED <<th, closer, former>>

LEMMA LoopStepIs ==
  ASSUME TypedInv, [LBNext]_lbVars, held' = held, LoopAs(loop'), CacheOK', ChatOK',
         lapsed' \subseteq Jobs, UNCHANGED <<handed, member, th, closer, former>>
  PROVE  LoopStepOK
  BY DEF LoopStepOK, RestOK, TypedInv, DispatchTypeOK

LEMMA LoopKnows ==
  ASSUME LoopAs(loop)
  PROVE  /\ loop \in LoopRec
         /\ loop.todo \in Seq(Jobs) \cup Seq(Nodes) \cup Seq(Jobs \X Claimers)
         /\ loop.at \in {"reap", "reap job"} => loop.todo \in Seq(Jobs \X Claimers)
         /\ loop.at = "reap job" => loop.todo # <<>>
         /\ loop.at = "expire" => loop.todo \in Seq(Nodes)
         /\ loop.at \in {"schedule", "reserve", "reserved", "stale settle"} => loop.todo \in Seq(Jobs)
         /\ loop.at \in {"reserve", "reserved"} => loop.todo # <<>>
         /\ loop.at \in {"reserve", "reserved", "dropped", "claimed"} => loop.job \in Jobs
         /\ loop.at \in {"reserve", "reserved", "dropped", "decide", "stale", "stale settle",
                         "put", "claimed"} => loop.node \in Nodes
         /\ loop.at \in {"stale", "stale settle", "put"} => loop.row \in Rows
         /\ loop.row \in Rows \cup {NoEntry}
  BY LoopFields DEF LoopAs

(* The reaper walks the expired reservations.                              *)
LEMMA ReapStep ==
  ASSUME TypedInv, run_scheduler_cycle \/ reap_inflight \/ reap_job \/ reap_done
  PROVE  LoopStepOK
<1>0. /\ loop \in LoopRec /\ CacheOK /\ ChatOK /\ lapsed \subseteq Jobs
      /\ queue \in Seq(Jobs) /\ Queued \subseteq Jobs /\ Nodes \subseteq Claimers
      /\ target \in [Jobs -> Claimers \cup {NoNode}]
      /\ LoopAs(loop)
  BY Parts, Basics DEF RestOK, LBTypeOK
<1>1. CASE run_scheduler_cycle
  <2>1. PICK p \in Snapshots(Reserved \cap lapsed) :
           loop' = [loop EXCEPT !.at = "reap", !.live = Queued,
                      !.todo = [i \in DOMAIN p |-> <<p[i], target[p[i]]>>]]
    BY <1>1 DEF run_scheduler_cycle
  <2>2. UNCHANGED <<lbVars, tableVars, lapsed, handed, member, th, closer, former>>
    BY <1>1 DEF run_scheduler_cycle
  <2> DEFINE todo == [i \in DOMAIN p |-> <<p[i], target[p[i]]>>]
             n == [loop EXCEPT !.at = "reap", !.live = Queued, !.todo = todo]
  <2>3. todo \in Seq(Jobs \X Claimers)
    <3>1. Reserved \cap lapsed \in SUBSET Queued
      BY DEF Reserved
    <3>2. p \in Seq(Reserved \cap lapsed)
      BY <1>0, <3>1, SnapshotTyped
    <3>3. \A j \in Reserved : j \in Jobs /\ target[j] \in Claimers
      BY <1>0 DEF Reserved
    <3> QED BY <3>2, <3>3
  <2> HIDE DEF todo
  <2>4. n \in LoopRec /\ n.at = "reap" /\ n.todo = todo
    BY <1>0, <2>3 DEF LoopRec, LoopPlaces
  <2> HIDE DEF n
  <2>5. LoopAs(n)
    BY <2>3, <2>4 DEF LoopAs
  <2>6. loop' = n
    BY <2>1 DEF n, todo
  <2> QED BY <1>0, <2>2, <2>5, <2>6, Same, LoopStepIs DEF tableVars, CacheOK, ChatOK
<1>2. CASE reap_inflight
  <2>1. /\ loop.at = "reap" /\ loop.todo # <<>> /\ DecInflight(Head(loop.todo)[2])
        /\ LoopAt("reap job")
        /\ UNCHANGED <<lbVars, chat, lapsed, handed, member, th, closer, former>>
    BY <1>2 DEF reap_inflight
  <2> DEFINE n == [loop EXCEPT !.at = "reap job"]
  <2>2. n \in LoopRec /\ n.at = "reap job" /\ n.todo = loop.todo
    BY <1>0, LoopStays DEF LoopPlaces
  <2>3. loop' = n
    BY <2>1 DEF LoopAt
  <2> HIDE DEF n
  <2>4. LoopAs(n)
    BY <1>0, <2>1, <2>2, LoopKnows DEF LoopAs
  <2>5. CacheOK'
    <3>1. CASE Head(loop.todo)[2] \in Nodes
      BY <1>0, <2>1, <3>1, CountDown
    <3>2. CASE Head(loop.todo)[2] \notin Nodes
      BY <1>0, <2>1, <3>2 DEF DecInflight, CacheOK
    <3> QED BY <3>1, <3>2
  <2> QED BY <1>0, <2>1, <2>3, <2>4, <2>5, Same, LoopStepIs DEF ChatOK
<1>3. CASE reap_job
  <2>1. /\ loop.at = "reap job" /\ LoopNext("reap")
        /\ fail(Head(loop.todo)[1]) \/ requeue_front(Head(loop.todo)[1])
        /\ lapsed' = lapsed \ {Head(loop.todo)[1]}
        /\ UNCHANGED <<tableVars, handed, member, th, closer, former>>
    BY <1>3 DEF reap_job
  <2>2. loop.todo \in Seq(Jobs \X Claimers) /\ loop.todo # <<>>
    BY <1>0, <2>1, LoopKnows
  <2> DEFINE rest == Tail(loop.todo)
             n == [loop EXCEPT !.at = "reap", !.todo = rest]
  <2>3. Head(loop.todo) \in Jobs \X Claimers /\ rest \in Seq(Jobs \X Claimers)
    BY <2>2, TailTyped
  <2> HIDE DEF rest
  <2>4. n \in LoopRec /\ n.at = "reap" /\ n.todo = rest
    BY <1>0, <2>3 DEF LoopRec, LoopPlaces
  <2>5. loop' = n
    BY <2>1 DEF LoopNext, rest
  <2> HIDE DEF n
  <2>6. LoopAs(n)
    BY <2>3, <2>4 DEF LoopAs
  <2>7. held' = held /\ [LBNext]_lbVars
    BY <2>1, <2>3 DEF fail, requeue_front, lbVars, LBNext
  <2> QED BY <1>0, <2>1, <2>5, <2>6, <2>7, LoopStepIs DEF tableVars, CacheOK, ChatOK
<1>4. CASE reap_done
  <2>1. /\ loop.at = "reap"
        /\ UNCHANGED <<lbVars, tableVars, lapsed, handed, member, th, closer, former>>
    BY <1>4 DEF reap_done
  <2>2. PICK p \in Listings({m \in Nodes : active[m] \in lapsed}) :
           loop' = [loop EXCEPT !.at = "expire", !.todo = p]
    BY <1>4 DEF reap_done
  <2> DEFINE n == [loop EXCEPT !.at = "expire", !.todo = p]
  <2>3. p \in Seq(Nodes)
    <3>1. IsFiniteSet({m \in Nodes : active[m] \in lapsed})
      BY DispatchAssumption, FS_Subset
    <3> QED BY <3>1, ListingTyped
  <2>4. n \in LoopRec /\ n.at = "expire" /\ n.todo = p
    BY <1>0, <2>3 DEF LoopRec, LoopPlaces
  <2>5. loop' = n
    BY <2>2
  <2> HIDE DEF n
  <2>6. LoopAs(n)
    BY <2>3, <2>4 DEF LoopAs
  <2> QED BY <1>0, <2>1, <2>5, <2>6, Same, LoopStepIs DEF tableVars, CacheOK, ChatOK
<1> QED BY <1>1, <1>2, <1>3, <1>4

(* A node loses its running job: the loop goes on at once, or has the job  *)
(* it took away to settle.                                                 *)
LEMMA ReleaseActive ==
  ASSUME TypedInv, NEW n \in Nodes, NEW after, LoopAs(after), after.at \in {"expire", "put"},
         _release_active(n, after)
  PROVE  [LBNext]_lbVars /\ held' = held /\ lapsed' \subseteq Jobs /\ LoopAs(loop')
<1>0. /\ lapsed \subseteq Jobs /\ n \in Claimers /\ after \in LoopRec
      /\ active \in [Claimers -> Jobs \cup {NoJob}]
  BY Parts, Basics DEF LoopAs
<1>1. CASE active[n] = NoJob
  BY <1>0, <1>1 DEF _release_active, lbVars
<1>2. CASE active[n] # NoJob
  <2> DEFINE l == [after EXCEPT !.at = "dropped", !.node = n, !.job = active[n], !.back = after.at]
  <2>1. /\ cancel_active(n) \/ requeue_active_as_pending(n)
        /\ lapsed' = lapsed \ {active[n]} /\ loop' = l
    BY <1>2 DEF _release_active
  <2>2. active[n] \in Jobs
    BY <1>0, <1>2
  <2>3. held' = held /\ [LBNext]_lbVars
    BY <1>0, <2>1 DEF cancel_active, requeue_active_as_pending, LBNext
  <2>4. /\ l \in LoopRec /\ l.at = "dropped" /\ l.node = n /\ l.job = active[n]
        /\ l.back = after.at /\ l.todo = after.todo /\ l.row = after.row
    BY <1>0, <2>2 DEF LoopRec, LoopPlaces
  <2> HIDE DEF l
  <2>5. LoopAs(l)
    BY <2>2, <2>4 DEF LoopAs
  <2> QED BY <1>0, <2>1, <2>3, <2>5
<1> QED BY <1>1, <1>2

LEMMA ReleaseStep ==
  ASSUME TypedInv, release_expired \/ drop_settle \/ release_done
  PROVE  LoopStepOK
<1>0. /\ loop \in LoopRec /\ CacheOK /\ ChatOK /\ lapsed \subseteq Jobs
      /\ queue \in Seq(Jobs) /\ Queued \subseteq Jobs /\ LoopAs(loop)
  BY Parts, Basics DEF RestOK
<1>1. CASE release_expired
  <2> DEFINE rest == Tail(loop.todo)
             n == [loop EXCEPT !.todo = rest]
  <2>1. /\ loop.at = "expire" /\ loop.todo # <<>> /\ _release_active(Head(loop.todo), n)
        /\ UNCHANGED <<tableVars, handed, member, th, closer, former>>
    BY <1>1 DEF release_expired
  <2>2. Head(loop.todo) \in Nodes /\ rest \in Seq(Nodes)
    BY <1>0, <2>1, LoopKnows, TailTyped
  <2> HIDE DEF rest
  <2>3. n \in LoopRec /\ n.at = "expire" /\ n.todo = rest
    BY <1>0, <2>1, <2>2 DEF LoopRec
  <2> HIDE DEF n
  <2>4. LoopAs(n)
    BY <2>2, <2>3 DEF LoopAs
  <2>5. [LBNext]_lbVars /\ held' = held /\ lapsed' \subseteq Jobs /\ LoopAs(loop')
    BY <2>1, <2>2, <2>3, <2>4, ReleaseActive
  <2> QED BY <1>0, <2>1, <2>5, LoopStepIs DEF tableVars, CacheOK, ChatOK
<1>2. CASE drop_settle
  <2> DEFINE n == [loop EXCEPT !.at = loop.back]
  <2>1. /\ loop.at = "dropped" /\ DecInflight(loop.node) /\ loop' = n
        /\ UNCHANGED chat \/ mark_error(loop.job) \/ mark_queued(loop.job)
        /\ UNCHANGED <<lbVars, lapsed, handed, member, th, closer, former>>
    BY <1>2 DEF drop_settle, LoopAt
  <2>2. /\ loop.back \in {"expire", "put"} /\ loop.node \in Nodes
        /\ loop.back = "expire" => loop.todo \in Seq(Nodes)
        /\ loop.back = "put" => loop.row \in Rows
    BY <1>0, <2>1 DEF LoopAs
  <2>3. /\ n \in LoopRec /\ n.at = loop.back /\ n.todo = loop.todo /\ n.node = loop.node
        /\ n.row = loop.row
    BY <1>0, <2>2 DEF LoopRec, LoopPlaces
  <2> HIDE DEF n
  <2>4. LoopAs(n)
    BY <2>2, <2>3 DEF LoopAs
  <2>5. CacheOK' /\ ChatOK'
    BY <1>0, <2>1, <2>2, CountDown, ChatSet DEF mark_error, mark_queued, Statuses, ChatOK
  <2> QED BY <1>0, <2>1, <2>4, <2>5, Same, LoopStepIs
<1>3. CASE release_done
  <2>1. /\ loop.at = "expire"
        /\ UNCHANGED <<lbVars, tableVars, lapsed, handed, member, th, closer, former>>
    BY <1>3 DEF release_done
  <2>2. PICK p \in Snapshots(Pending) : loop' = [loop EXCEPT !.at = "schedule", !.todo = p]
    BY <1>3 DEF release_done
  <2> DEFINE n == [loop EXCEPT !.at = "schedule", !.todo = p]
  <2>3. p \in Seq(Jobs)
    <3>1. Pending \in SUBSET Queued
      BY DEF Pending
    <3> QED BY <1>0, <3>1, SnapshotTyped
  <2>4. n \in LoopRec /\ n.at = "schedule" /\ n.todo = p
    BY <1>0, <2>3 DEF LoopRec, LoopPlaces
  <2>5. loop' = n
    BY <2>2
  <2> HIDE DEF n
  <2>6. LoopAs(n)
    BY <2>3, <2>4 DEF LoopAs
  <2> QED BY <1>0, <2>1, <2>5, <2>6, Same, LoopStepIs DEF tableVars, CacheOK, ChatOK
<1> QED BY <1>1, <1>2, <1>3

LEMMA ScheduleStep ==
  ASSUME TypedInv,
         choose_node \/ reserve_node \/ count_reserved \/ schedule_done \/ mark_failed
  PROVE  LoopStepOK
<1>0. /\ loop \in LoopRec /\ CacheOK /\ ChatOK /\ lapsed \subseteq Jobs /\ LoopAs(loop)
  BY Parts DEF RestOK
<1> DEFINE rest == Tail(loop.todo)
           next == [loop EXCEPT !.at = "schedule", !.todo = rest]
<1>a. ASSUME loop.todo \in Seq(Jobs), loop.todo # <<>>, loop' = next
      PROVE  LoopAs(loop')
  <2>1. rest \in Seq(Jobs)
    BY <1>a, TailTyped
  <2> HIDE DEF rest
  <2>2. next \in LoopRec /\ next.at = "schedule" /\ next.todo = rest
    BY <1>0, <2>1 DEF LoopRec, LoopPlaces
  <2> HIDE DEF next
  <2>3. LoopAs(next)
    BY <2>1, <2>2 DEF LoopAs
  <2> QED BY <1>a, <2>3
<1>1. CASE choose_node
  <2>1. /\ loop.at = "schedule" /\ loop.todo # <<>>
        /\ UNCHANGED <<lbVars, tableVars, lapsed, handed, member, th, closer, former>>
    BY <1>1 DEF choose_node
  <2>2. loop.todo \in Seq(Jobs) /\ Head(loop.todo) \in Jobs
    BY <1>0, <2>1, LoopKnows, TailTyped
  <2>3. ASSUME NEW m \in Nodes,
               loop' = [loop EXCEPT !.at = "reserve", !.node = m, !.job = Head(loop.todo)]
        PROVE  LoopAs(loop')
    <3> DEFINE j == Head(loop.todo)
               n == [loop EXCEPT !.at = "reserve", !.node = m, !.job = j]
    <3>1. j \in Jobs /\ loop' = n
      BY <2>2, <2>3
    <3> HIDE DEF j
    <3>2. n \in LoopRec /\ n.at = "reserve" /\ n.node = m /\ n.job = j /\ n.todo = loop.todo
      BY <1>0, <3>1 DEF LoopRec, LoopPlaces
    <3> HIDE DEF n
    <3>3. LoopAs(n)
      BY <2>1, <2>2, <3>1, <3>2 DEF LoopAs
    <3> QED BY <3>1, <3>3
  <2>4. LoopAs(loop')
    BY <1>1, <1>a, <2>1, <2>2, <2>3 DEF choose_node, LoopNext, filter_candidates
  <2> QED BY <1>0, <2>1, <2>4, Same, LoopStepIs DEF tableVars, CacheOK, ChatOK
<1>2. CASE reserve_node
  <2>1. /\ loop.at = "reserve" /\ UNCHANGED <<tableVars, handed, member, th, closer, former>>
        /\ \/ reserve(loop.job, loop.node) /\ lapsed' = lapsed \ {loop.job} /\ LoopAt("reserved")
           \/ LoopNext("schedule") /\ UNCHANGED <<lbVars, lapsed>>
    BY <1>2 DEF reserve_node
  <2>2. /\ loop.todo \in Seq(Jobs) /\ loop.todo # <<>> /\ loop.node \in Nodes
        /\ loop.job \in Jobs
    BY <1>0, <2>1, LoopKnows
  <2>3. CASE reserve(loop.job, loop.node) /\ lapsed' = lapsed \ {loop.job} /\ LoopAt("reserved")
    <3> DEFINE n == [loop EXCEPT !.at = "reserved"]
    <3>1. /\ n \in LoopRec /\ n.at = "reserved" /\ n.node = loop.node /\ n.job = loop.job
          /\ n.todo = loop.todo
      BY <1>0 DEF LoopRec, LoopPlaces
    <3>2. loop' = n
      BY <2>3 DEF LoopAt
    <3> HIDE DEF n
    <3>3. LoopAs(n)
      BY <2>2, <3>1 DEF LoopAs
    <3>4. held' = held /\ [LBNext]_lbVars
      BY <2>2, <2>3 DEF reserve, LBNext
    <3> QED BY <1>0, <2>1, <2>3, <3>2, <3>3, <3>4, LoopStepIs DEF tableVars, CacheOK, ChatOK
  <2>4. CASE LoopNext("schedule") /\ UNCHANGED <<lbVars, lapsed>>
    <3>1. LoopAs(loop')
      BY <1>a, <2>2, <2>4 DEF LoopNext
    <3> QED BY <1>0, <2>1, <2>4, <3>1, Same, LoopStepIs DEF tableVars, CacheOK, ChatOK
  <2> QED BY <2>1, <2>3, <2>4
<1>3. CASE count_reserved
  <2>1. /\ loop.at = "reserved" /\ IncInflight(loop.node) /\ LoopNext("schedule")
        /\ UNCHANGED <<lbVars, chat, lapsed, handed, member, th, closer, former>>
    BY <1>3 DEF count_reserved
  <2>2. loop.todo \in Seq(Jobs) /\ loop.todo # <<>> /\ loop.node \in Nodes
    BY <1>0, <2>1, LoopKnows
  <2>3. LoopAs(loop') /\ CacheOK'
    BY <1>0, <1>a, <2>1, <2>2, CountUp DEF LoopNext
  <2> QED BY <1>0, <2>1, <2>3, Same, LoopStepIs DEF ChatOK
<1>b. ASSUME NEW live \in SUBSET Jobs, NEW l \in {IdleLoop, loop},
             loop' = [l EXCEPT !.at = "mark", !.live = live]
      PROVE  LoopAs(loop')
  <2> DEFINE n == [l EXCEPT !.at = "mark", !.live = live]
  <2>1. n \in LoopRec /\ n.at = "mark"
    BY <1>0, Basics DEF LoopRec, LoopPlaces
  <2>2. loop' = n
    BY <1>b
  <2> HIDE DEF n
  <2>3. LoopAs(n)
    BY <2>1 DEF LoopAs
  <2> QED BY <2>2, <2>3
<1>4. CASE schedule_done
  <2>1. /\ loop' = [IdleLoop EXCEPT !.at = "mark", !.live = loop.live]
        /\ UNCHANGED <<lbVars, tableVars, lapsed, handed, member, th, closer, former>>
    BY <1>4 DEF schedule_done
  <2>2. LoopAs(loop')
    BY <1>0, <1>b, <2>1, LoopFields
  <2> QED BY <1>0, <2>1, <2>2, Same, LoopStepIs DEF tableVars, CacheOK, ChatOK
<1>5. CASE mark_failed
  <2>1. /\ loop.at = "mark"
        /\ UNCHANGED <<lbVars, cache, lapsed, handed, member, th, closer, former>>
        /\ \/ loop' = IdleLoop /\ UNCHANGED chat
           \/ \E j \in loop.live : /\ loop' = [loop EXCEPT !.live = @ \ {j}]
                                   /\ mark_error(j) \/ UNCHANGED chat
    BY <1>5 DEF mark_failed
  <2>2. ASSUME NEW j \in loop.live, loop' = [loop EXCEPT !.live = @ \ {j}]
        PROVE  LoopAs(loop')
    <3> DEFINE n == [loop EXCEPT !.live = loop.live \ {j}]
    <3>1. n \in LoopRec /\ n.at = "mark"
      BY <1>0, <2>1 DEF LoopRec
    <3>2. loop' = n
      BY <2>2
    <3> HIDE DEF n
    <3>3. LoopAs(n)
      BY <3>1 DEF LoopAs
    <3> QED BY <3>2, <3>3
  <2>3. LoopAs(loop')
    BY <2>1, <2>2, Basics
  <2>4. ChatOK'
    BY <1>0, <2>1, ChatSet DEF mark_error, Statuses, ChatOK
  <2> QED BY <1>0, <2>1, <2>3, <2>4, Same, LoopStepIs DEF CacheOK
<1> QED BY <1>1, <1>2, <1>3, <1>4, <1>5

(* The forecast cycle, and what it takes from a node that went silent.     *)
LEMMA ForecastCycle ==
  ASSUME TypedInv, (\E n \in Nodes : forecast_read(n)) \/ ForecastStep
  PROVE  LoopStepOK
<1>0. /\ loop \in LoopRec /\ CacheOK /\ ChatOK /\ lapsed \subseteq Jobs /\ LoopAs(loop)
      /\ queue \in Seq(Jobs)
      /\ loop.at \in {"decide", "stale", "stale settle", "put"} => loop.node \in Nodes
      /\ loop.at \in {"stale", "stale settle", "put"} => loop.row \in Rows
      /\ loop.at = "stale settle" => loop.todo \in Seq(Jobs)
  BY Parts, LoopKnows DEF RestOK
<1>1. ASSUME NEW m \in Nodes, forecast_read(m)
      PROVE  LoopStepOK
  <2> DEFINE n == [loop EXCEPT !.at = "decide", !.node = m, !.row = cache[m]]
  <2>1. /\ loop' = n
        /\ UNCHANGED <<lbVars, tableVars, lapsed, handed, member, th, closer, former>>
    BY <1>1 DEF forecast_read
  <2>2. cache[m] \in Rows
    BY <1>0, RowFields
  <2>3. n \in LoopRec /\ n.at = "decide" /\ n.node = m /\ n.row = cache[m]
    BY <1>0, <2>2 DEF LoopRec, LoopPlaces
  <2> HIDE DEF n
  <2>4. LoopAs(n)
    BY <2>2, <2>3 DEF LoopAs
  <2> QED BY <1>0, <2>1, <2>4, Same, LoopStepIs DEF tableVars, CacheOK, ChatOK
<1>2. CASE forecast_decide
  <2>1. PICK base \in States, level \in {"hot", "band", "cool"}, dwelt \in BOOLEAN :
           LET state == apply_hysteresis(Was(loop.row), base, level, dwelt)
           IN  /\ set_flag(loop.node, state = "AT_RISK")
               /\ loop' = [loop EXCEPT !.row = Forecast(loop.row, state),
                    !.at = IF state = "STALE" THEN "stale" ELSE "put"]
    <3>1. {"WARMING_UP", "READY"} \cup (IF "silence" \in Ops THEN {"STALE"} ELSE {}) \subseteq States
      BY DEF States
    <3> QED BY <1>2, <3>1 DEF forecast_decide
  <2>2. /\ loop.at = "decide" /\ UNCHANGED <<tableVars, lapsed, handed, member, th, closer, former>>
    BY <1>2 DEF forecast_decide
  <2> DEFINE state == apply_hysteresis(Was(loop.row), base, level, dwelt)
             row == Forecast(loop.row, state)
             place == IF state = "STALE" THEN "stale" ELSE "put"
             n == [loop EXCEPT !.row = row, !.at = place]
  <2>3. state \in States
    BY DEF apply_hysteresis, States
  <2> HIDE DEF state
  <2>4. row \in Rows
    <3>1. CASE loop.row = NoEntry
      BY <2>3, <3>1, RowIs DEF Forecast
    <3>2. CASE loop.row # NoEntry
      <4>1. loop.row \in Rows
        BY <1>0, <3>2, LoopKnows
      <4> QED BY <2>3, <3>2, <4>1 DEF Forecast, Rows
    <3> QED BY <3>1, <3>2
  <2>5. place \in {"stale", "put"}
    OBVIOUS
  <2>6. loop' = n /\ set_flag(loop.node, state = "AT_RISK")
    BY <2>1 DEF state
  <2> HIDE DEF row, place
  <2>7. n \in LoopRec /\ n.at = place /\ n.node = loop.node /\ n.row = row
    BY <1>0, <2>4, <2>5 DEF LoopRec, LoopPlaces
  <2> HIDE DEF n
  <2>8. LoopAs(n)
    BY <1>0, <2>2, <2>4, <2>5, <2>7 DEF LoopAs
  <2>9. held' = held /\ [LBNext]_lbVars
    <3>1. (state = "AT_RISK") \in BOOLEAN
      OBVIOUS
    <3> QED BY <1>0, <2>2, <2>6, <3>1 DEF set_flag, LBNext
  <2> QED BY <1>0, <2>2, <2>6, <2>8, <2>9, LoopStepIs DEF tableVars, CacheOK, ChatOK
<1>3. CASE stale_release
  <2>1. /\ loop.at = "stale" /\ release_reservations_for(loop.node)
        /\ lapsed' = lapsed \ {j \in Queued : target[j] = loop.node}
        /\ UNCHANGED <<tableVars, handed, member, th, closer, former>>
    BY <1>3 DEF stale_release
  <2>2. PICK p \in Snapshots({j \in Queued : target[j] = loop.node}) :
           loop' = [loop EXCEPT !.at = "stale settle", !.todo = p]
    BY <1>3 DEF stale_release
  <2> DEFINE n == [loop EXCEPT !.at = "stale settle", !.todo = p]
  <2>3. p \in Seq(Jobs)
    BY <1>0, SnapshotTyped
  <2>4. n \in LoopRec /\ n.at = "stale settle" /\ n.todo = p /\ n.node = loop.node /\ n.row = loop.row
    BY <1>0, <2>3 DEF LoopRec, LoopPlaces
  <2>5. loop' = n
    BY <2>2
  <2> HIDE DEF n
  <2>6. LoopAs(n)
    BY <1>0, <2>1, <2>3, <2>4 DEF LoopAs
  <2>7. held' = held /\ [LBNext]_lbVars
    BY <1>0, <2>1 DEF release_reservations_for, LBNext
  <2> QED BY <1>0, <2>1, <2>5, <2>6, <2>7, LoopStepIs DEF tableVars, CacheOK, ChatOK
<1>4. CASE stale_settle
  <2> DEFINE rest == Tail(loop.todo)
             n == [loop EXCEPT !.at = "stale settle", !.todo = rest]
  <2>1. /\ loop.at = "stale settle" /\ loop.todo # <<>> /\ DecInflight(loop.node)
        /\ mark_queued(Head(loop.todo)) /\ loop' = n
        /\ UNCHANGED <<lbVars, lapsed, handed, member, th, closer, former>>
    BY <1>4 DEF stale_settle, LoopNext
  <2>2. rest \in Seq(Jobs)
    BY <1>0, <2>1, TailTyped
  <2> HIDE DEF rest
  <2>3. /\ n \in LoopRec /\ n.at = "stale settle" /\ n.todo = rest /\ n.node = loop.node
        /\ n.row = loop.row
    BY <1>0, <2>2 DEF LoopRec, LoopPlaces
  <2> HIDE DEF n
  <2>4. LoopAs(n)
    BY <1>0, <2>1, <2>2, <2>3 DEF LoopAs
  <2>5. CacheOK' /\ ChatOK'
    BY <1>0, <2>1, CountDown, ChatSet DEF mark_queued, Statuses
  <2> QED BY <1>0, <2>1, <2>4, <2>5, Same, LoopStepIs
<1>5. CASE stale_active
  <2> DEFINE n == [loop EXCEPT !.at = "put"]
  <2>1. /\ loop.at = "stale settle" /\ _release_active(loop.node, n)
        /\ UNCHANGED <<tableVars, handed, member, th, closer, former>>
    BY <1>5 DEF stale_active
  <2>2. n \in LoopRec /\ n.at = "put" /\ n.node = loop.node /\ n.row = loop.row
    BY <1>0 DEF LoopRec, LoopPlaces
  <2> HIDE DEF n
  <2>3. LoopAs(n)
    BY <1>0, <2>1, <2>2 DEF LoopAs
  <2>4. [LBNext]_lbVars /\ held' = held /\ lapsed' \subseteq Jobs /\ LoopAs(loop')
    BY <1>0, <2>1, <2>2, <2>3, ReleaseActive
  <2> QED BY <1>0, <2>1, <2>4, LoopStepIs DEF tableVars, CacheOK, ChatOK
<1>6. CASE forecast_put
  <2>1. /\ loop.at = "put" /\ put(loop.node, loop.row) /\ loop' = IdleLoop
        /\ UNCHANGED <<lbVars, chat, lapsed, handed, member, th, closer, former>>
    BY <1>6 DEF forecast_put
  <2>2. CacheOK' /\ LoopAs(loop')
    BY <1>0, <2>1, PutRow, Basics
  <2> QED BY <1>0, <2>1, <2>2, Same, LoopStepIs DEF ChatOK
<1> QED BY <1>1, <1>2, <1>3, <1>4, <1>5, <1>6 DEF ForecastStep

(* The job claim() hands out is the one that left the queue.               *)
LEMMA ClaimIs ==
  ASSUME LBInv, NEW n \in Claimers, claim(n)
  PROVE  LET j == CHOOSE j \in Queued : j \notin Queued'
         IN  /\ j \in Queued /\ target[j] = n /\ Queued' = Queued \ {j}
             /\ active' = [active EXCEPT ![n] = j] /\ held' = held
<1>1. PICK i \in DOMAIN queue : /\ FirstFor(n, i) /\ queue' = Cut(queue, i)
                                /\ active' = [active EXCEPT ![n] = queue[i]]
  BY DEF claim
<1>2. Queued' = Queued \ {queue[i]} /\ queue[i] \in Queued
  <2>1. queue \in Seq(Jobs) /\ NoRepeat(queue)
    BY QueueHasNoRepeat
  <2>2. Range(Cut(queue, i)) = Range(queue) \ {queue[i]}
    BY <2>1, CutProperties
  <2>3. queue[i] \in Queued
    BY DEF Queued, Range
  <2> QED BY <1>1, <2>2, <2>3 DEF Queued
<1>3. (CHOOSE j \in Queued : j \notin Queued') = queue[i]
  BY <1>2
<1> QED BY <1>1, <1>2, <1>3 DEF FirstFor, claim

(* A worker's poll claims a job and answers with it; a load test is added. *)
LEMMA PollStep ==
  ASSUME TypedInv,
         (\E n \in Nodes : jobs_next(n)) \/ poll_answer \/ \E j \in Jobs : _generator_loop(j)
  PROVE  LoopStepOK
<1>0. /\ loop \in LoopRec /\ CacheOK /\ ChatOK /\ lapsed \subseteq Jobs /\ LoopAs(loop)
      /\ LBInv /\ Nodes \subseteq Claimers /\ Queued \subseteq Jobs
  BY Parts, Basics DEF RestOK
<1>1. ASSUME NEW m \in Nodes, jobs_next(m)
      PROVE  LoopStepOK
  <2> DEFINE j == CHOOSE j \in Queued : j \notin Queued'
             n == [IdleLoop EXCEPT !.at = "claimed", !.node = m, !.job = j]
  <2>1. /\ claim(m) /\ lapsed' = lapsed \ {j} /\ loop' = n
        /\ UNCHANGED <<tableVars, handed, member, th, closer, former>>
    BY <1>1 DEF jobs_next
  <2>2. j \in Jobs /\ held' = held
    BY <1>0, <2>1, ClaimIs
  <2>3. [LBNext]_lbVars
    BY <1>0, <2>1 DEF LBNext
  <2> HIDE DEF j
  <2>4. n \in LoopRec /\ n.at = "claimed" /\ n.node = m /\ n.job = j
    BY <2>2, Basics DEF LoopRec, LoopPlaces
  <2> HIDE DEF n
  <2>5. LoopAs(n)
    BY <2>2, <2>4 DEF LoopAs
  <2> QED BY <1>0, <2>1, <2>2, <2>3, <2>5, LoopStepIs DEF tableVars, CacheOK, ChatOK
<1>2. CASE poll_answer
  <2>1. /\ loop.at = "claimed"
        /\ UNCHANGED chat \/ mark_running(loop.job)
        /\ handed' = handed \cup {<<loop.node, loop.job, attempts[loop.job]>>}
        /\ loop' = IdleLoop
        /\ UNCHANGED <<lbVars, cache, lapsed, member, th, closer, former>>
    BY <1>2 DEF poll_answer
  <2>2. loop.node \in Nodes /\ loop.job \in Jobs
    BY <1>0, <2>1, LoopKnows
  <2>3. handed' \subseteq Nodes \X Jobs \X (0 .. AttemptCap)
    <3>1. attempts[loop.job] \in 0 .. AttemptCap
      BY <2>2, Parts
    <3>2. <<loop.node, loop.job, attempts[loop.job]>> \in Nodes \X Jobs \X (0 .. AttemptCap)
      BY <2>2, <3>1
    <3>3. handed \subseteq Nodes \X Jobs \X (0 .. AttemptCap)
      BY Parts DEF RestOK
    <3> QED BY <2>1, <3>2, <3>3
  <2>4. ChatOK'
    BY <1>0, <2>1, ChatSet DEF mark_running, Statuses, ChatOK
  <2>5. LoopAs(loop')
    BY <2>1, Basics
  <2>6. RestOK'
    BY <1>0, <2>1, <2>3, <2>4, Parts DEF RestOK, CacheOK
  <2> QED BY <2>1, <2>5, <2>6, Same DEF LoopStepOK
<1>3. ASSUME NEW j \in Jobs, _generator_loop(j)
      PROVE  LoopStepOK
  <2>1. enqueue_job(j, NoNode)
        /\ UNCHANGED <<tableVars, lapsed, handed, member, actorVars, former>>
    BY <1>3 DEF _generator_loop
  <2>2. held' = held /\ [LBNext]_lbVars
    BY <2>1 DEF enqueue_job, LBNext
  <2>3. LoopAs(loop')
    BY <1>0, <2>1 DEF actorVars
  <2> QED BY <1>0, <2>1, <2>2, <2>3, LoopStepIs DEF tableVars, actorVars, CacheOK, ChatOK
<1> QED BY <1>1, <1>2, <1>3

-----------------------------------------------------------------------------
(* The remaining steps, and the composition as a whole.                    *)

(* Whatever the balancer does, an issued id stays issued, and a job is in  *)
(* the queue, on a node or with a caller only if it was, or is new.        *)
LEMMA OnlyNewPlaced ==
  ASSUME LBInv, [LBNext]_lbVars
  PROVE  /\ issued \subseteq issued' /\ Placed' \subseteq Placed \cup (issued' \ issued)
         /\ ~accepting => issued' = issued
<1>0. /\ queue \in Seq(Jobs) /\ NoRepeat(queue) /\ LBTypeOK
      /\ active \in [Claimers -> Jobs \cup {NoJob}] /\ held \in [Callers -> Jobs \cup {NoJob}]
  BY QueueHasNoRepeat DEF LBInv, LBTypeOK
<1>a. ASSUME Queued' \subseteq Queued, UNCHANGED <<active, held, issued>>
      PROVE  Placed' \subseteq Placed
  BY <1>a DEF Placed, Running, Held
<1>b. ASSUME NEW i \in DOMAIN queue
      PROVE  Range(Cut(queue, i)) \subseteq Queued /\ queue[i] \in Queued
             /\ Range(<<queue[i]>> \o Cut(queue, i)) \subseteq Queued
  <2>1. /\ Cut(queue, i) \in Seq(Jobs) /\ NoRepeat(Cut(queue, i))
        /\ Range(Cut(queue, i)) = Range(queue) \ {queue[i]}
    BY <1>0, CutProperties
  <2>2. queue[i] \in Queued /\ queue[i] \in Jobs
    BY <1>0 DEF Queued, Range
  <2>3. Range(<<queue[i]>> \o Cut(queue, i)) = Range(Cut(queue, i)) \cup {queue[i]}
    BY <2>1, <2>2, PrependProperties
  <2> QED BY <2>1, <2>2, <2>3 DEF Queued
<1>c. ASSUME NEW j \in Jobs, j \in Placed, j \notin Queued, queue' = <<j>> \o queue,
             Running' \subseteq Running, Held' \subseteq Held
      PROVE  Placed' \subseteq Placed
  <2>1. Queued' = Queued \cup {j}
    BY <1>0, <1>c, PrependProperties DEF Queued
  <2> QED BY <1>c, <2>1 DEF Placed
<1>d. ASSUME NEW n \in Claimers, active' = [active EXCEPT ![n] = NoJob]
      PROVE  Running' \subseteq Running
  BY <1>0, <1>d DEF Running
<1>e. ASSUME NEW c \in Callers, held' = [held EXCEPT ![c] = NoJob]
      PROVE  Held' \subseteq Held
  BY <1>0, <1>e DEF Held
<1>1. CASE UNCHANGED lbVars
  BY <1>1 DEF lbVars, Placed, Queued, Running, Held
<1>2. ASSUME \/ \E b \in BOOLEAN : set_accepting(b)
             \/ \E n \in Nodes, b \in BOOLEAN : set_flag(n, b)
             \/ \E j \in Jobs, n \in Nodes : reserve(j, n)
             \/ \E j \in Jobs : assign_to_host(j)
      PROVE  Placed' = Placed /\ issued' = issued
  BY <1>2 DEF set_accepting, set_flag, reserve, assign_to_host, Placed, Queued, Running, Held
<1>3. ASSUME NEW j \in Jobs, NEW n \in Nodes \cup {NoNode}, enqueue_job(j, n)
      PROVE  issued \subseteq issued' /\ Placed' \subseteq Placed \cup (issued' \ issued)
             /\ accepting
  <2>1. j \notin Queued /\ j \notin issued /\ issued' = issued \cup {j} /\ accepting
    BY <1>3 DEF enqueue_job, LBInv, Placement, OnlyIssued, Placed
  <2>2. Queued' = Queued \cup {j}
    BY <1>0, <1>3, <2>1, AppendKeepsNoRepeat DEF enqueue_job, Queued
  <2>3. Running' = Running /\ Held' = Held
    BY <1>3 DEF enqueue_job, Running, Held
  <2> QED BY <2>1, <2>2, <2>3 DEF Placed
<1>4. ASSUME NEW j \in Jobs, fail(j) \/ drop_pending(j) \/ requeue_front(j)
      PROVE  Placed' \subseteq Placed /\ issued' = issued
  <2>1. CASE UNCHANGED lbVars
    BY <2>1 DEF lbVars, Placed, Queued, Running, Held
  <2>2. CASE ~UNCHANGED lbVars
    <3>1. PICK i \in DOMAIN queue :
             \/ queue' = Cut(queue, i)
             \/ queue[i] = j /\ queue' = <<j>> \o Cut(queue, i)
      BY <1>4, <2>2 DEF fail, drop_pending, requeue_front
    <3>2. Queued' \subseteq Queued
      BY <1>b, <3>1 DEF Queued
    <3>3. UNCHANGED <<active, held, issued>>
      BY <1>4, <2>2 DEF fail, drop_pending, requeue_front
    <3> QED BY <1>a, <3>2, <3>3
  <2> QED BY <2>1, <2>2
<1>5. ASSUME NEW n \in Claimers, claim(n)
      PROVE  Placed' \subseteq Placed /\ issued' = issued
  <2>1. PICK i \in DOMAIN queue : queue' = Cut(queue, i) /\ active' = [active EXCEPT ![n] = queue[i]]
    BY <1>5 DEF claim
  <2>2. Queued' \subseteq Queued /\ queue[i] \in Queued
    BY <1>b, <2>1 DEF Queued
  <2>3. Running' \subseteq Running \cup {queue[i]}
    BY <1>0, <2>1 DEF Running
  <2>4. held' = held /\ issued' = issued
    BY <1>5 DEF claim
  <2> QED BY <2>2, <2>3, <2>4 DEF Placed, Held
<1>6. ASSUME NEW n \in Nodes, release_reservations_for(n)
      PROVE  Placed' \subseteq Placed /\ issued' = issued
  <2>1. PICK p \in Surjection(1 .. Len(queue), 1 .. Len(queue)) :
           queue' = [i \in 1 .. Len(queue) |-> queue[p[i]]]
    BY <1>6 DEF release_reservations_for
  <2>2. \A i \in 1 .. Len(queue) : p[i] \in 1 .. Len(queue)
    BY DEF Surjection
  <2>3. Queued' \subseteq Queued
    BY <1>0, <2>1, <2>2 DEF Queued, Range
  <2>4. UNCHANGED <<active, held, issued>>
    BY <1>6 DEF release_reservations_for
  <2> QED BY <1>a, <2>3, <2>4
<1>7. ASSUME NEW n \in Claimers, cancel_active(n) \/ requeue_active_as_pending(n)
      PROVE  Placed' \subseteq Placed /\ issued' = issued
  <2>1. /\ active[n] # NoJob /\ active' = [active EXCEPT ![n] = NoJob]
        /\ held' = held /\ issued' = issued
        /\ queue' = queue \/ queue' = <<active[n]>> \o queue
    BY <1>7 DEF cancel_active, requeue_active_as_pending
  <2>2. active[n] \in Jobs /\ active[n] \in Running /\ active[n] \notin Queued
    BY <1>0, <2>1 DEF Running, LBInv, Placement, JobPlacedOnce
  <2>3. Running' \subseteq Running /\ Held' = Held
    BY <1>d, <2>1 DEF Held
  <2>4. CASE queue' = queue
    BY <2>1, <2>3, <2>4 DEF Placed, Queued
  <2>5. CASE queue' = <<active[n]>> \o queue
    BY <1>c, <2>1, <2>2, <2>3, <2>5 DEF Placed
  <2> QED BY <2>1, <2>4, <2>5
<1>8. ASSUME NEW c \in Callers, NEW n \in Claimers, NEW j \in Jobs, complete(c, n, j)
      PROVE  Placed' \subseteq Placed /\ issued' = issued
  <2>1. /\ active[n] = j /\ active' = [active EXCEPT ![n] = NoJob]
        /\ held' = [held EXCEPT ![c] = j] /\ queue' = queue /\ issued' = issued /\ j # NoJob
    BY <1>8 DEF complete
  <2>2. Running' \subseteq Running /\ j \in Running
    BY <1>d, <2>1 DEF Running
  <2>3. Held' \subseteq Held \cup {j}
    BY <1>0, <2>1 DEF Held
  <2> QED BY <2>1, <2>2, <2>3 DEF Placed, Queued
<1>9. ASSUME NEW c \in Callers, return_job_to_pending(c) \/ discard(c)
      PROVE  Placed' \subseteq Placed /\ issued' = issued
  <2>1. /\ held[c] # NoJob /\ held' = [held EXCEPT ![c] = NoJob]
        /\ active' = active /\ issued' = issued
        /\ queue' = queue \/ queue' = <<held[c]>> \o queue
    BY <1>9 DEF return_job_to_pending, discard
  <2>2. held[c] \in Jobs /\ held[c] \in Held /\ held[c] \notin Queued
    BY <1>0, <2>1 DEF Held, LBInv, Placement, JobPlacedOnce
  <2>3. Held' \subseteq Held /\ Running' = Running
    BY <1>e, <2>1 DEF Running
  <2>4. CASE queue' = queue
    BY <2>1, <2>3, <2>4 DEF Placed, Queued
  <2>5. CASE queue' = <<held[c]>> \o queue
    BY <1>c, <2>1, <2>2, <2>3, <2>5 DEF Placed
  <2> QED BY <2>1, <2>4, <2>5
<1>10. ASSUME drain_all
       PROVE  Placed' \subseteq Held /\ Placed' \subseteq Placed /\ issued' = issued
  <2>1. Queued' = {} /\ Running' = {} /\ Held' = Held
    BY <1>10 DEF drain_all, Queued, Range, Running, Held
  <2> QED BY <1>10, <2>1 DEF drain_all, Placed
<1>11. CASE \/ \E b \in BOOLEAN : set_accepting(b)
            \/ \E n \in Nodes, b \in BOOLEAN : set_flag(n, b)
            \/ \E j \in Jobs, n \in Nodes : reserve(j, n)
            \/ \E j \in Jobs : assign_to_host(j)
  BY <1>2, <1>11
<1>12. CASE \E j \in Jobs : fail(j) \/ drop_pending(j) \/ requeue_front(j)
  BY <1>4, <1>12
<1>13. CASE \E n \in Claimers : claim(n) \/ cancel_active(n) \/ requeue_active_as_pending(n)
  BY <1>5, <1>7, <1>13
<1>14. CASE \/ \E c \in Callers, n \in Claimers, j \in Jobs : complete(c, n, j)
            \/ \E c \in Callers : return_job_to_pending(c)
            \/ \E c \in Callers : discard(c)
  BY <1>8, <1>9, <1>14
<1>15. CASE \/ \E j \in Jobs, n \in Nodes \cup {NoNode} : enqueue_job(j, n)
            \/ \E n \in Nodes : release_reservations_for(n)
            \/ drain_all
  BY <1>3, <1>6, <1>10, <1>15
<1> QED BY <1>1, <1>11, <1>12, <1>13, <1>14, <1>15 DEF LBNext

(* What lease_ends, join, nodes_ready and the close leave. *)
OtherStepOK ==
    /\ [LBNext]_lbVars /\ held' = held /\ RestOK'
    /\ former' \in {former, issued}
    /\ UNCHANGED <<loop, th>>

LEMMA OtherStep ==
  ASSUME TypedInv,
         \/ \E j \in Jobs : lease_ends(j)
         \/ \E n \in Nodes : join(n) \/ nodes_ready(n)
         \/ close_begin \/ CloserStep
  PROVE  OtherStepOK
<1>0. RestOK /\ CacheOK /\ ChatOK /\ lapsed \subseteq Jobs /\ member \subseteq Nodes /\ LBInv
      /\ closer \in ClosePlaces
  BY Parts DEF RestOK
<1>1. ASSUME NEW j \in Jobs, lease_ends(j)
      PROVE  OtherStepOK
  <2>1. lapsed' = lapsed \cup {j}
        /\ UNCHANGED <<lbVars, tableVars, handed, member, actorVars, former>>
    BY <1>1 DEF lease_ends
  <2> QED BY <1>0, <2>1, Same DEF OtherStepOK, RestOK, tableVars, actorVars, CacheOK, ChatOK
<1>2. ASSUME NEW n \in Nodes, join(n) \/ nodes_ready(n)
      PROVE  OtherStepOK
  <2>1. /\ member' \in {member, member \cup {n}}
        /\ \E m \in 0 .. 1 : mark_joining(n) \/ mark_warming_up(n, m)
        /\ UNCHANGED <<lbVars, chat, lapsed, handed, actorVars, former>>
    BY <1>2 DEF join, nodes_ready
  <2>2. CacheOK'
    BY <1>0, <2>1, MarkRow
  <2> QED BY <1>0, <2>1, <2>2, Same DEF OtherStepOK, RestOK, actorVars, ChatOK
<1>3. CASE close_begin
  <2>1. closer' = "waiting" /\ UNCHANGED <<lbVars, tableVars, lapsed, handed, member, loop, th, former>>
    BY <1>3 DEF close_begin
  <2> QED BY <1>0, <2>1, Same DEF OtherStepOK, RestOK, tableVars, CacheOK, ChatOK, ClosePlaces
<1>4. ASSUME NEW b \in BOOLEAN, set_accepting(b), closer' \in ClosePlaces,
             UNCHANGED <<tableVars, lapsed, handed, member, loop, th, former>>
      PROVE  OtherStepOK
  <2>1. held' = held /\ [LBNext]_lbVars
    BY <1>4 DEF set_accepting, LBNext
  <2> QED BY <1>0, <1>4, <2>1 DEF OtherStepOK, RestOK, tableVars, CacheOK, ChatOK
<1>5. CASE close_stop \/ close_reopen
  BY <1>4, <1>5 DEF close_stop, close_reopen, ClosePlaces
<1>6. CASE close_inactive
  <2>1. /\ cache' = [n \in Nodes |-> IF active[n] # NoJob \/ \E j \in Queued : target[j] = n
                                       THEN Row("INACTIVE", 0, 0) ELSE cache[n]]
        /\ closer' = "drain" /\ UNCHANGED <<lbVars, chat, lapsed, handed, member, loop, th, former>>
    BY <1>6 DEF close_inactive
  <2>2. CacheOK'
    <3>1. Row("INACTIVE", 0, 0) \in Rows
      BY RowIs DEF States
    <3> QED BY <1>0, <2>1, <3>1 DEF CacheOK
  <2> QED BY <1>0, <2>1, <2>2, Same DEF OtherStepOK, RestOK, ChatOK, ClosePlaces
<1>7. CASE close_drain
  <2>1. /\ drain_all /\ lapsed' = {} /\ closer' = "chats"
        /\ UNCHANGED <<tableVars, handed, member, loop, th, former>>
    BY <1>7 DEF close_drain
  <2>2. held' = held /\ [LBNext]_lbVars
    BY <2>1 DEF drain_all, LBNext
  <2> QED BY <1>0, <2>1, <2>2 DEF OtherStepOK, RestOK, tableVars, CacheOK, ChatOK, ClosePlaces
<1>8. CASE close_chats
  <2>1. /\ fail_all /\ closer' = "revoke"
        /\ UNCHANGED <<lbVars, cache, lapsed, handed, member, loop, th, former>>
    BY <1>8 DEF close_chats
  <2>2. ChatOK'
    BY <1>0, <2>1 DEF fail_all, ChatOK, Statuses
  <2> QED BY <1>0, <2>1, <2>2, Same DEF OtherStepOK, RestOK, CacheOK, ClosePlaces
<1>9. CASE close_revoke
  <2>1. /\ member' = {} /\ former' = issued /\ closer' = "reopen"
        /\ UNCHANGED <<lbVars, tableVars, lapsed, handed, loop, th>>
    BY <1>9 DEF close_revoke
  <2> QED BY <1>0, <2>1, Same DEF OtherStepOK, RestOK, tableVars, CacheOK, ChatOK, ClosePlaces
<1> QED BY <1>1, <1>2, <1>3, <1>5, <1>6, <1>7, <1>8, <1>9 DEF CloserStep

LEMMA TypedInit == DispatchInit => TypedInv
<1> SUFFICES ASSUME DispatchInit PROVE TypedInv
  OBVIOUS
<1>1. LBInv /\ LBTypeOK
  BY InitPlaced DEF DispatchInit, LBInv
<1>2. /\ loop = IdleLoop /\ th = [c \in Callers |-> IdleThread]
      /\ held = [c \in Callers |-> NoJob]
  BY DEF DispatchInit, LBInit
<1>3. LoopAs(loop) /\ loop \in LoopRec
  BY <1>2, Basics
<1>4. Threads
  BY <1>2, Basics DEF Threads
<1>5. cache \in [Nodes -> Rows]
  <2>1. Row("READY", 0, 1) \in Rows
    BY RowIs DEF States
  <2> QED BY <2>1 DEF DispatchInit
<1>6. chat \in [Jobs -> Statuses]
  BY DEF DispatchInit, Statuses
<1>7. /\ lapsed \subseteq Jobs /\ handed \subseteq Nodes \X Jobs \X (0 .. AttemptCap)
      /\ member \subseteq Nodes /\ closer \in ClosePlaces /\ former \subseteq issued
  BY DEF DispatchInit, ClosePlaces
<1> QED BY <1>1, <1>3, <1>4, <1>5, <1>6, <1>7 DEF TypedInv, DispatchTypeOK, Threads

LEMMA LoopGoesOn ==
  ASSUME TypedInv,
         \/ run_scheduler_cycle \/ SchedulerStep \/ ForecastStep \/ poll_answer
         \/ \E n \in Nodes : forecast_read(n)
         \/ \E n \in Nodes : jobs_next(n)
         \/ \E j \in Jobs : _generator_loop(j)
  PROVE  LoopStepOK
<1>1. CASE (\E n \in Nodes : jobs_next(n)) \/ poll_answer \/ \E j \in Jobs : _generator_loop(j)
  BY <1>1, PollStep
<1>2. CASE (\E n \in Nodes : forecast_read(n)) \/ ForecastStep
  BY <1>2, ForecastCycle
<1>3. CASE run_scheduler_cycle \/ SchedulerStep
  BY <1>3, ReapStep, ReleaseStep, ScheduleStep DEF SchedulerStep
<1> QED BY <1>1, <1>2, <1>3

(* Which part of the system moved. *)
LEMMA SomeStep ==
  ASSUME TypedInv, DispatchNext
  PROVE  LoopStepOK \/ ThreadStepOK \/ OtherStepOK
<1>1. CASE \/ run_scheduler_cycle \/ SchedulerStep \/ ForecastStep \/ poll_answer
           \/ \E n \in Nodes : forecast_read(n)
           \/ \E n \in Nodes : jobs_next(n)
           \/ \E j \in Jobs : _generator_loop(j)
  BY <1>1, LoopGoesOn
<1>2. CASE \/ \E c \in Callers, j \in Jobs : post_chat(c, j)
           \/ \E c \in Callers, h \in handed, ok \in BOOLEAN : jobs_result(c, h[1], h[2], h[3], ok)
           \/ \E c \in Callers, n \in Nodes : leave(c, n)
           \/ \E c \in Callers : HandlerStep(c)
  BY <1>2, ThreadStep
<1>3. CASE \/ \E j \in Jobs : lease_ends(j)
           \/ \E n \in Nodes : join(n) \/ nodes_ready(n)
           \/ close_begin \/ CloserStep
  BY <1>3, OtherStep
<1> QED BY <1>1, <1>2, <1>3 DEF DispatchNext

LEMMA TypedStep == TypedInv /\ [DispatchNext]_vars => TypedInv' /\ [LBNext]_lbVars
<1> SUFFICES ASSUME TypedInv, [DispatchNext]_vars PROVE TypedInv' /\ [LBNext]_lbVars
  OBVIOUS
<1>0. /\ LBInv /\ Threads /\ LoopAs(loop) /\ RestOK /\ loop \in LoopRec
      /\ former \subseteq issued
  BY Parts DEF TypedInv, DispatchTypeOK
<1>1. CASE UNCHANGED vars
  <2>1. UNCHANGED lbVars /\ loop' = loop /\ th' = th /\ former' = former
        /\ UNCHANGED <<cache, chat, lapsed, handed, member, closer>>
    BY <1>1 DEF vars, tableVars, actorVars
  <2>2. LBInv'
    BY <1>0, <2>1, NextKeepsPlacement
  <2> QED BY <1>0, <2>1, <2>2, Same
          DEF TypedInv, DispatchTypeOK, Threads, RestOK, CacheOK, ChatOK, LBInv, lbVars
<1>2. CASE DispatchNext
  <2>1. LoopStepOK \/ ThreadStepOK \/ OtherStepOK
    BY <1>2, SomeStep
  <2>2. [LBNext]_lbVars /\ RestOK'
    BY <2>1 DEF LoopStepOK, ThreadStepOK, OtherStepOK
  <2>3. LBInv' /\ issued \subseteq issued' /\ issued' \subseteq Jobs
    BY <1>0, <2>2, NextKeepsPlacement, OnlyNewPlaced DEF LBInv, LBTypeOK
  <2>4. LoopAs(loop')
    BY <1>0, <2>1 DEF LoopStepOK, ThreadStepOK, OtherStepOK
  <2>5. Threads'
    BY <1>0, <2>1 DEF LoopStepOK, ThreadStepOK, OtherStepOK, Threads
  <2>6. former' \subseteq issued'
    BY <1>0, <2>1, <2>3 DEF LoopStepOK, ThreadStepOK, OtherStepOK
  <2>7. DispatchTypeOK'
    BY <2>2, <2>3, <2>4, <2>5, <2>6
       DEF DispatchTypeOK, RestOK, CacheOK, ChatOK, LBInv, LoopAs, Threads
  <2> QED BY <2>2, <2>3, <2>4, <2>5, <2>7 DEF TypedInv
<1> QED BY <1>1, <1>2

LEMMA TypedAlways == DispatchSpec => []TypedInv
  BY TypedInit, TypedStep, PTL DEF DispatchSpec

(* Every variable keeps its type: so do the locals of the event loop and   *)
(* of each thread, wherever they are, and the balancer's own fields.       *)
THEOREM DispatchTypes == DispatchSpec => []DispatchTypeOK
<1>1. TypedInv => DispatchTypeOK
  BY DEF TypedInv
<1> QED BY <1>1, TypedAlways, PTL

(* server.py and scheduler.py, run by any number of threads, drive the     *)
(* balancer only through its methods and with arguments these expect:      *)
(* every behaviour is one of LoadBalancer, so what is proved of the queue  *)
(* alone (a job is in one place, no result is used twice) holds of the     *)
(* Host.                                                                   *)
THEOREM DispatchRunsTheQueue == DispatchSpec => LBSpec
<1>1. DispatchInit => LBInit
  BY DEF DispatchInit
<1>2. TypedInv /\ [DispatchNext]_vars => [LBNext]_lbVars
  BY TypedStep
<1> QED BY <1>1, <1>2, TypedAlways, PTL DEF DispatchSpec, LBSpec

-----------------------------------------------------------------------------
(* Rooms are separate, and an answer is final.                             *)

(* When the last handler has left, a closing room keeps every handler out  *)
(* and the queue shut, so once drained it stays empty; and a record that   *)
(* is about to be written is one of the present room.                      *)
RoomInv ==
    /\ closer \notin {"none", "waiting"}
         => ~accepting /\ \A c \in Callers : th[c].at = "idle"
    /\ closer \in {"chats", "revoke", "reopen"} => Placed = {}
    /\ closer \in {"revoke", "reopen"} => \A j \in Jobs : chat[j] = "none"
    /\ \A c \in Callers : th[c].at = "posted" => th[c].job \notin former
    /\ RoomsAreSeparate

(* A job whose chat is settled was issued and is nowhere, which no step    *)
(* can undo; so is the job the loop is about to settle.                    *)
ChatInv ==
    /\ \A j \in Jobs : chat[j] \in Settled => j \in issued \ Placed
    /\ loop.at = "dropped" /\ loop.job \notin Burns /\ GivesUp(loop.job)
         => loop.job \in issued \ Placed

(* What a step of the loop does to the records of the chats, and the job   *)
(* it takes in hand to settle. *)
LoopTells ==
    /\ accepting' = accepting
    /\ \A j \in Jobs : chat[j] = "none" => chat'[j] = "none"
    /\ \A j \in Jobs : chat'[j] \in Settled =>
         \/ chat[j] \in Settled \/ j \in failed
         \/ loop.at = "dropped" /\ j = loop.job /\ j \notin Burns /\ GivesUp(j)
    /\ loop'.at = "dropped" /\ loop'.job \notin Burns /\ attempts'[loop'.job] >= MaxAttempts
         => loop'.job \in failed'

LEMMA QuietLoop ==
  ASSUME UNCHANGED chat, accepting' = accepting, loop'.at # "dropped"
  PROVE  LoopTells
  BY DEF LoopTells

LEMMA ToldStays ==
  ASSUME ChatOK, NEW j, NEW st \in Statuses \ Settled, Overwrite(j, st)
  PROVE  /\ \A i \in Jobs : chat[i] = "none" => chat'[i] = "none"
         /\ \A i \in Jobs : chat'[i] \in Settled => chat[i] \in Settled
  BY DEF ChatOK, Overwrite, Settled

LEMMA ReleaseTells ==
  ASSUME TypedInv, NEW n \in Nodes, NEW after, after \in LoopRec, after.at # "dropped",
         _release_active(n, after), UNCHANGED chat
  PROVE  LoopTells
<1>0. active \in [Claimers -> Jobs \cup {NoJob}] /\ n \in Claimers
  BY Parts, Basics
<1>1. CASE active[n] = NoJob
  BY <1>1, QuietLoop DEF _release_active, lbVars
<1>2. CASE active[n] # NoJob
  <2> DEFINE j == active[n]
             l == [after EXCEPT !.at = "dropped", !.node = n, !.job = j, !.back = after.at]
  <2>1. /\ IF GivesUp(j) THEN cancel_active(n) ELSE requeue_active_as_pending(n)
        /\ loop' = l /\ j \in Jobs
    BY <1>0, <1>2 DEF _release_active
  <2>2. /\ accepting' = accepting /\ attempts' = attempts
        /\ GivesUp(j) => j \in failed'
    BY <2>1 DEF cancel_active, requeue_active_as_pending
  <2> HIDE DEF j
  <2>3. l.job = j
    BY DEF LoopRec
  <2> HIDE DEF l
  <2> QED BY <2>1, <2>2, <2>3 DEF LoopTells, GivesUp
<1> QED BY <1>1, <1>2

LEMMA LoopTellsAlways ==
  ASSUME TypedInv,
         \/ run_scheduler_cycle \/ SchedulerStep \/ ForecastStep \/ poll_answer
         \/ \E n \in Nodes : forecast_read(n)
         \/ \E n \in Nodes : jobs_next(n)
         \/ \E j \in Jobs : _generator_loop(j)
  PROVE  LoopTells
<1>0. /\ ChatOK /\ loop \in LoopRec /\ LoopAs(loop) /\ IdleLoop \in LoopRec /\ IdleLoop.at = "idle"
      /\ loop.at = "expire" => loop.todo \in Seq(Nodes)
      /\ loop.at \in {"dropped", "stale settle"} => loop.node \in Nodes
      /\ loop.at = "dropped" => loop.job \in Jobs /\ loop.back # "dropped"
  BY Parts, Basics, LoopKnows DEF LoopAs
<1>a. \A place : LoopAt(place) \/ LoopNext(place) => loop'.at = place
  BY <1>0 DEF LoopAt, LoopNext, LoopRec
<1>1. CASE run_scheduler_cycle \/ reap_done \/ release_done \/ schedule_done
  BY <1>0, <1>1, QuietLoop
     DEF run_scheduler_cycle, reap_done, release_done, schedule_done, LoopRec, lbVars, tableVars
<1>2. CASE reap_inflight \/ reap_job \/ count_reserved \/ reserve_node
  BY <1>a, <1>2, QuietLoop
     DEF reap_inflight, reap_job, count_reserved, reserve_node, fail, requeue_front, reserve,
         lbVars, tableVars
<1>3. CASE choose_node
  BY <1>0, <1>a, <1>3, QuietLoop DEF choose_node, LoopRec, lbVars, tableVars
<1>4. CASE release_expired
  <2> DEFINE n == [loop EXCEPT !.todo = Tail(loop.todo)]
  <2>1. /\ loop.at = "expire" /\ loop.todo # <<>> /\ _release_active(Head(loop.todo), n)
        /\ UNCHANGED chat
    BY <1>4 DEF release_expired, tableVars
  <2>2. Head(loop.todo) \in Nodes /\ Tail(loop.todo) \in Seq(Nodes)
    BY <1>0, <2>1, TailTyped
  <2>3. n \in LoopRec /\ n.at = "expire"
    BY <1>0, <2>1, <2>2 DEF LoopRec
  <2> HIDE DEF n
  <2> QED BY <2>1, <2>2, <2>3, ReleaseTells
<1>5. CASE stale_active
  <2> DEFINE n == [loop EXCEPT !.at = "put"]
  <2>1. /\ loop.at = "stale settle" /\ _release_active(loop.node, n) /\ UNCHANGED chat
    BY <1>5 DEF stale_active, tableVars
  <2>2. n \in LoopRec /\ n.at = "put"
    BY <1>0 DEF LoopRec, LoopPlaces
  <2> HIDE DEF n
  <2> QED BY <1>0, <2>1, <2>2, ReleaseTells
<1>6. CASE drop_settle
  <2>1. /\ loop.at = "dropped" /\ LoopAt(loop.back) /\ accepting' = accepting
        /\ IF loop.job \in Burns THEN UNCHANGED chat
           ELSE IF GivesUp(loop.job) THEN mark_error(loop.job) ELSE mark_queued(loop.job)
    BY <1>6 DEF drop_settle, lbVars
  <2>2. loop'.at # "dropped"
    BY <1>0, <1>a, <2>1
  <2>3. CASE UNCHANGED chat
    BY <2>1, <2>2, <2>3, QuietLoop
  <2>4. CASE loop.job \notin Burns /\ GivesUp(loop.job) /\ mark_error(loop.job)
    BY <1>0, <2>1, <2>2, <2>4, ChatSet DEF LoopTells, mark_error, Statuses
  <2>5. CASE mark_queued(loop.job)
    BY <1>0, <2>1, <2>2, <2>5, ToldStays DEF LoopTells, mark_queued, Statuses, Settled
  <2> QED BY <2>1, <2>3, <2>4, <2>5
<1>7. CASE mark_failed
  <2>1. /\ loop.at = "mark" /\ accepting' = accepting
        /\ \/ loop' = IdleLoop /\ UNCHANGED chat
           \/ \E j \in loop.live : /\ loop' = [loop EXCEPT !.live = @ \ {j}]
                                   /\ IF j \in failed THEN mark_error(j) ELSE UNCHANGED chat
    BY <1>7 DEF mark_failed, lbVars
  <2>2. loop'.at # "dropped"
    BY <1>0, <2>1 DEF LoopRec
  <2>3. CASE UNCHANGED chat
    BY <2>1, <2>2, <2>3, QuietLoop
  <2>4. ASSUME NEW j \in failed, mark_error(j)
        PROVE  LoopTells
    BY <1>0, <2>1, <2>2, <2>4, ChatSet DEF LoopTells, mark_error, Statuses
  <2> QED BY <2>1, <2>3, <2>4
<1>8. CASE (\E n \in Nodes : forecast_read(n)) \/ forecast_decide \/ stale_release \/ forecast_put
  BY <1>0, <1>8, QuietLoop
     DEF forecast_read, forecast_decide, stale_release, forecast_put, set_flag,
         release_reservations_for, LoopRec, lbVars, tableVars
<1>9. CASE stale_settle
  <2>1. mark_queued(Head(loop.todo)) /\ LoopNext("stale settle") /\ accepting' = accepting
    BY <1>9 DEF stale_settle, lbVars
  <2>2. loop'.at # "dropped"
    BY <1>a, <2>1
  <2> QED BY <1>0, <2>1, <2>2, ToldStays DEF LoopTells, mark_queued, Statuses, Settled
<1>10. CASE \E n \in Nodes : jobs_next(n)
  BY <1>0, <1>10, QuietLoop DEF jobs_next, claim, LoopRec, tableVars
<1>11. CASE poll_answer
  <2>1. /\ loop' = IdleLoop /\ accepting' = accepting
        /\ UNCHANGED chat \/ mark_running(loop.job)
    BY <1>11 DEF poll_answer, lbVars
  <2> QED BY <1>0, <2>1, QuietLoop, ToldStays DEF LoopTells, mark_running, Statuses, Settled
<1>12. CASE \E j \in Jobs : _generator_loop(j)
  <2>1. loop.at = "idle" /\ loop' = loop /\ accepting' = accepting /\ UNCHANGED chat
    BY <1>12 DEF _generator_loop, enqueue_job, tableVars, actorVars
  <2> QED BY <2>1, QuietLoop
<1> QED BY <1>1, <1>2, <1>3, <1>4, <1>5, <1>6, <1>7, <1>8, <1>9, <1>10, <1>11, <1>12
        DEF SchedulerStep, ForecastStep

(* What a step of a thread does to the records of the chats: only the one  *)
(* that posted a job makes its record. *)
ThreadTells ==
    /\ UNCHANGED <<accepting, attempts>>
    /\ closer = "none" \/ \E c \in Callers : th[c].at # "idle"
    /\ \A j \in Jobs : chat[j] = "none" =>
         chat'[j] = "none" \/ \E c \in Callers : th[c].at = "posted" /\ th[c].job = j
    /\ \A j \in Jobs : chat'[j] \in Settled => chat[j] \in Settled \/ j \in ended'
    /\ \A c \in Callers : th'[c].at = "posted" =>
         th'[c].job \notin issued \/ (th[c].at = "posted" /\ th'[c].job = th[c].job)

LEMMA NotPosted ==
  ASSUME Threads, NEW c \in Callers, NEW n \in ThreadRec, n.at # "posted",
         th' = [th EXCEPT ![c] = n]
  PROVE  \A x \in Callers : th'[x].at = "posted" => th'[x] = th[x]
  BY DEF Threads

LEMMA WentOn ==
  ASSUME Threads, NEW c \in Callers, NEW place \in ThreadPlaces \ {"posted"},
         Go(c, place) \/ Finish(c)
  PROVE  \A x \in Callers : th'[x].at = "posted" => th'[x] = th[x]
<1> DEFINE n == [th[c] EXCEPT !.at = place]
<1>1. CASE Go(c, place)
  <2>1. n \in ThreadRec /\ n.at = place
    BY ThreadAt, ThreadStays
  <2>2. th' = [th EXCEPT ![c] = n]
    BY <1>1 DEF Go
  <2> HIDE DEF n
  <2> QED BY <2>1, <2>2, NotPosted
<1>2. CASE Finish(c)
  BY <1>2, Basics, NotPosted DEF Finish
<1> QED BY <1>1, <1>2

LEMMA QuietThread ==
  ASSUME UNCHANGED <<accepting, attempts, chat>>, NEW c \in Callers,
         closer = "none" \/ th[c].at # "idle",
         \A x \in Callers : th'[x].at = "posted" => th'[x] = th[x]
  PROVE  ThreadTells
  BY DEF ThreadTells

LEMMA TalkingThread ==
  ASSUME TypedInv, UNCHANGED <<accepting, attempts>>, NEW c \in Callers, th[c].at # "idle",
         \A x \in Callers : th'[x].at = "posted" => th'[x] = th[x],
         NEW j, mark_queued(j) \/ UNCHANGED chat \/ ((mark_done(j) \/ mark_error(j)) /\ j \in ended')
  PROVE  ThreadTells
<1>1. ChatOK
  BY Parts
<1>2. CASE mark_queued(j) \/ UNCHANGED chat
  BY <1>1, <1>2, ToldStays DEF mark_queued, Statuses, Settled, ThreadTells
<1>3. CASE (mark_done(j) \/ mark_error(j)) /\ j \in ended'
  BY <1>1, <1>3, ChatSet DEF mark_done, mark_error, Statuses, ThreadTells
<1> QED BY <1>2, <1>3

LEMMA ThreadTellsAlways ==
  ASSUME TypedInv, NEW c \in Callers,
         \/ \E j \in Jobs : post_chat(c, j)
         \/ \E h \in handed, ok \in BOOLEAN : jobs_result(c, h[1], h[2], h[3], ok)
         \/ \E n \in Nodes : leave(c, n)
         \/ HandlerStep(c)
  PROVE  ThreadTells
<1>0. /\ Threads /\ ChatOK /\ th[c] \in ThreadRec /\ ThreadAs(th[c], held[c])
      /\ held \in [Callers -> Jobs \cup {NoJob}] /\ th[c].todo \in Seq(Jobs)
      /\ queue \in Seq(Jobs) /\ active \in [Claimers -> Jobs \cup {NoJob}]
      /\ Nodes \subseteq Claimers
  BY Parts, ThreadAt, Basics
<1>1. ASSUME NEW j \in Jobs, post_chat(c, j)
      PROVE  ThreadTells
  <2> DEFINE n == [IdleThread EXCEPT !.at = "posted", !.job = j]
  <2>1. n.job = j
    BY Basics DEF ThreadRec
  <2>2. /\ th' = [th EXCEPT ![c] = n] /\ enqueue_job(j, NoNode) /\ closer = "none" /\ chat' = chat
    BY <1>1 DEF post_chat, Enter, tableVars
  <2> HIDE DEF n
  <2>3. \A x \in Callers : th'[x] = IF x = c THEN n ELSE th[x]
    BY <1>0, <2>2 DEF Threads
  <2>4. j \notin issued /\ UNCHANGED <<accepting, attempts>>
    BY <2>2 DEF enqueue_job
  <2> QED BY <2>1, <2>2, <2>3, <2>4 DEF ThreadTells
<1>2. ASSUME NEW h \in handed, NEW ok \in BOOLEAN, jobs_result(c, h[1], h[2], h[3], ok)
      PROVE  ThreadTells
  <2>0. h[1] \in Nodes /\ h[2] \in Jobs
    BY Parts DEF RestOK
  <2> DEFINE n == [IdleThread EXCEPT !.at = "complete", !.node = h[1], !.job = h[2], !.ok = ok]
  <2>1. n \in ThreadRec /\ n.at = "complete"
    BY <2>0, Basics DEF ThreadRec, ThreadPlaces
  <2>2. /\ th' = [th EXCEPT ![c] = n] /\ closer = "none" /\ UNCHANGED <<lbVars, tableVars>>
    BY <1>2 DEF jobs_result, Enter
  <2> HIDE DEF n
  <2>3. \A x \in Callers : th'[x].at = "posted" => th'[x] = th[x]
    BY <1>0, <2>1, <2>2, NotPosted
  <2> QED BY <2>2, <2>3, QuietThread DEF lbVars, tableVars
<1>3. ASSUME NEW m \in Nodes, leave(c, m)
      PROVE  ThreadTells
  <2>1. PICK p \in Snapshots({j \in Queued : target[j] = m}) :
           th' = [th EXCEPT ![c] = [IdleThread EXCEPT !.at = "leave settle", !.node = m, !.todo = p]]
    BY <1>3 DEF leave
  <2> DEFINE n == [IdleThread EXCEPT !.at = "leave settle", !.node = m, !.todo = p]
  <2>2. p \in Seq(Jobs)
    BY <1>0, SnapshotTyped
  <2>3. n \in ThreadRec /\ n.at = "leave settle"
    BY <2>2, Basics DEF ThreadRec, ThreadPlaces
  <2>4. closer = "none" /\ UNCHANGED <<accepting, attempts, chat>>
    BY <1>3 DEF leave, Enter, release_reservations_for, tableVars
  <2>5. th' = [th EXCEPT ![c] = n]
    BY <2>1
  <2> HIDE DEF n
  <2>6. \A x \in Callers : th'[x].at = "posted" => th'[x] = th[x]
    BY <1>0, <2>3, <2>5, NotPosted
  <2> QED BY <2>4, <2>6, QuietThread
<1>4. CASE post_chat_record(c)
  <2>1. /\ th[c].at = "posted" /\ chat_enqueue(th[c].job) /\ Finish(c) /\ UNCHANGED lbVars
    BY <1>4 DEF post_chat_record
  <2>2. th[c].job \in Jobs
    BY <1>0, <2>1 DEF ThreadAs
  <2>3. \A x \in Callers : th'[x].at = "posted" => th'[x] = th[x]
    <3>1. "idle" \in ThreadPlaces \ {"posted"}
      BY DEF ThreadPlaces
    <3> QED BY <1>0, <2>1, <3>1, WentOn
  <2>4. chat'[th[c].job] = "queued" /\ \A i \in Jobs \ {th[c].job} : chat'[i] = chat[i]
    BY <1>0, <2>1, <2>2, ChatNew
  <2> QED BY <2>1, <2>3, <2>4 DEF ThreadTells, lbVars, Settled
<1>5. CASE result_complete(c) \/ result_commit(c) \/ result_count(c)
  <2>1. \A x \in Callers : th'[x].at = "posted" => th'[x] = th[x]
    BY <1>0, <1>5, WentOn DEF result_complete, result_commit, result_count, ThreadPlaces
  <2>2. UNCHANGED <<accepting, attempts, chat>> /\ th[c].at # "idle"
    BY <1>5 DEF result_complete, result_commit, result_count, complete, discard, lbVars, tableVars
  <2> QED BY <2>1, <2>2, QuietThread
<1>6. CASE result_settle(c)
  <2>1. \A x \in Callers : th'[x].at = "posted" => th'[x] = th[x]
    BY <1>0, <1>6, WentOn DEF result_settle, ThreadPlaces
  <2>2. UNCHANGED <<accepting, attempts>> /\ th[c].at # "idle"
    BY <1>6 DEF result_settle, return_job_to_pending, discard
  <2>3. held[c] = th[c].job
    BY <1>0, <1>6 DEF result_settle, ThreadAs
  <2>4. UNCHANGED chat \/ ((mark_done(th[c].job) \/ mark_error(th[c].job)) /\ th[c].job \in ended')
    BY <1>6, <2>3 DEF result_settle, discard
  <2> QED BY <2>1, <2>2, <2>4, TalkingThread
<1>7. CASE result_requeued(c)
  <2>1. \A x \in Callers : th'[x].at = "posted" => th'[x] = th[x]
    BY <1>0, <1>7, WentOn DEF result_requeued, ThreadPlaces
  <2>2. UNCHANGED <<accepting, attempts>> /\ th[c].at # "idle" /\ mark_queued(th[c].job)
    BY <1>7 DEF result_requeued, lbVars
  <2> QED BY <2>1, <2>2, TalkingThread
<1>8. CASE leave_settle(c)
  <2> DEFINE rest == Tail(th[c].todo)
             n == [th[c] EXCEPT !.todo = rest]
  <2>1. /\ th[c].at = "leave settle" /\ th[c].todo # <<>> /\ mark_queued(Head(th[c].todo))
        /\ th' = [th EXCEPT ![c] = n] /\ UNCHANGED lbVars
    BY <1>8 DEF leave_settle
  <2>2. rest \in Seq(Jobs)
    BY <1>0, <2>1, TailTyped
  <2> HIDE DEF rest
  <2>3. n \in ThreadRec /\ n.at = "leave settle"
    BY <1>0, <2>1, <2>2 DEF ThreadRec
  <2> HIDE DEF n
  <2>4. \A x \in Callers : th'[x].at = "posted" => th'[x] = th[x]
    BY <1>0, <2>1, <2>3, NotPosted
  <2> QED BY <2>1, <2>4, TalkingThread DEF lbVars
<1>9. CASE leave_peek(c)
  <2> DEFINE place == IF active[th[c].node] = NoJob THEN "gone"
                      ELSE IF active[th[c].node] \in Burns THEN "cancel" ELSE "requeue"
  <2>1. th[c].at = "leave settle" /\ Go(c, place) /\ UNCHANGED <<lbVars, tableVars>>
    BY <1>9 DEF leave_peek, Go
  <2>2. place \in ThreadPlaces \ {"posted"}
    BY DEF ThreadPlaces
  <2> HIDE DEF place
  <2>3. \A x \in Callers : th'[x].at = "posted" => th'[x] = th[x]
    BY <1>0, <2>1, <2>2, WentOn
  <2> QED BY <2>1, <2>3, QuietThread DEF lbVars, tableVars
<1>10. CASE leave_active(c)
  <2>0. /\ th[c].at \in {"cancel", "requeue"}
        /\ UNCHANGED chat
    BY <1>10 DEF leave_active, tableVars
  <2>1. CASE Go(c, "gone") /\ UNCHANGED lbVars
    <3>1. \A x \in Callers : th'[x].at = "posted" => th'[x] = th[x]
      BY <1>0, <2>1, WentOn DEF ThreadPlaces
    <3> QED BY <2>0, <2>1, <3>1, QuietThread DEF lbVars
  <2> DEFINE m == th[c].node
             place == IF th[c].at = "cancel" THEN "cancelled" ELSE "put back"
             n == [th[c] EXCEPT !.job = active[m], !.at = place]
  <2>2. CASE /\ cancel_active(m) \/ requeue_active_as_pending(m)
             /\ th' = [th EXCEPT ![c] = n]
    <3>1. m \in Claimers
      BY <1>0, <2>0 DEF ThreadAs
    <3>2. active[m] \in Jobs
      BY <1>0, <2>2, <3>1 DEF cancel_active, requeue_active_as_pending
    <3>3. place \in ThreadPlaces \ {"posted"}
      BY DEF ThreadPlaces
    <3>4. UNCHANGED <<accepting, attempts>>
      BY <2>2 DEF cancel_active, requeue_active_as_pending
    <3> HIDE DEF place
    <3>5. n \in ThreadRec /\ n.at # "posted"
      BY <1>0, <3>2, <3>3 DEF ThreadRec
    <3> HIDE DEF n
    <3>6. \A x \in Callers : th'[x].at = "posted" => th'[x] = th[x]
      BY <1>0, <2>2, <3>5, NotPosted
    <3> QED BY <2>0, <3>4, <3>6, QuietThread
  <2> QED BY <1>10, <2>1, <2>2 DEF leave_active
<1>11. CASE leave_active_settle(c) \/ leave_inactive(c) \/ leave_revoke(c)
  <2>1. \A x \in Callers : th'[x].at = "posted" => th'[x] = th[x]
    BY <1>0, <1>11, WentOn DEF leave_active_settle, leave_inactive, leave_revoke, ThreadPlaces
  <2>2. /\ UNCHANGED <<accepting, attempts>> /\ th[c].at # "idle"
        /\ mark_queued(th[c].job) \/ UNCHANGED chat
    BY <1>11 DEF leave_active_settle, leave_inactive, leave_revoke, set_flag, lbVars, tableVars
  <2> QED BY <2>1, <2>2, TalkingThread
<1> QED BY <1>1, <1>2, <1>3, <1>4, <1>5, <1>6, <1>7, <1>8, <1>9, <1>10, <1>11 DEF HandlerStep

(* The close, step by step. *)
LEMMA CloserKeepsRooms ==
  ASSUME TypedInv, TypedInv', RoomInv, CloserStep
  PROVE  RoomInv' /\ (\A j \in Jobs : chat'[j] \in Settled => chat[j] \in Settled)
         /\ attempts' = attempts
<1>0. /\ LBInv /\ Threads /\ ChatOK /\ former \subseteq issued /\ issued \subseteq Jobs
  BY Parts DEF TypedInv, DispatchTypeOK, LBTypeOK
<1>1. CASE close_stop
  <2>1. /\ \A c \in Callers : th[c].at = "idle"
        /\ accepting' = FALSE /\ closer' = "inactive" /\ UNCHANGED <<chat, former, th>>
        /\ UNCHANGED <<queue, active, held, attempts>>
    BY <1>1 DEF close_stop, set_accepting, tableVars
  <2> QED BY <2>1 DEF RoomInv, RoomsAreSeparate, Placed, Queued, Running, Held
<1>2. CASE close_inactive
  <2>1. closer = "inactive" /\ closer' = "drain" /\ UNCHANGED <<lbVars, chat, former, th>>
    BY <1>2 DEF close_inactive
  <2> QED BY <2>1 DEF RoomInv, RoomsAreSeparate, Placed, Queued, Running, Held, lbVars
<1>3. CASE close_drain
  <2>1. closer = "drain" /\ closer' = "chats" /\ drain_all /\ UNCHANGED <<chat, former, th>>
    BY <1>3 DEF close_drain, tableVars
  <2>2. \A c \in Callers : th[c].at = "idle"
    BY <2>1 DEF RoomInv
  <2>3. \A c \in Callers : held[c] = NoJob
    BY <1>0, <2>2, ThreadAt DEF ThreadAs
  <2>4. Placed' = {}
    BY <2>1, <2>3 DEF drain_all, Placed, Queued, Running, Held, Range
  <2>5. accepting' = accepting /\ attempts' = attempts
    BY <2>1 DEF drain_all
  <2> QED BY <2>1, <2>4, <2>5 DEF RoomInv, RoomsAreSeparate
<1>4. CASE close_chats
  <2>1. closer = "chats" /\ closer' = "revoke" /\ fail_all /\ UNCHANGED <<lbVars, former, th>>
    BY <1>4 DEF close_chats
  <2>2. \A j \in Jobs : chat'[j] = "none"
    BY <1>0, <2>1 DEF fail_all, ChatOK
  <2> QED BY <1>0, <2>1, <2>2
          DEF RoomInv, RoomsAreSeparate, Placed, Queued, Running, Held, lbVars, Settled
<1>5. CASE close_revoke
  <2>1. /\ closer = "revoke" /\ closer' = "reopen" /\ former' = issued
        /\ UNCHANGED <<lbVars, chat, th>>
    BY <1>5 DEF close_revoke, tableVars
  <2>2. /\ Placed = {} /\ \A j \in Jobs : chat[j] = "none"
        /\ ~accepting /\ \A c \in Callers : th[c].at = "idle"
    BY <2>1 DEF RoomInv
  <2>3. Placed' = Placed
    BY <2>1 DEF Placed, Queued, Running, Held, lbVars
  <2> QED BY <1>0, <2>1, <2>2, <2>3 DEF RoomInv, RoomsAreSeparate, lbVars
<1>6. CASE close_reopen
  <2>1. closer' = "none" /\ UNCHANGED <<chat, former, th>>
        /\ UNCHANGED <<queue, active, held, attempts>>
    BY <1>6 DEF close_reopen, set_accepting, tableVars
  <2> QED BY <2>1 DEF RoomInv, RoomsAreSeparate, Placed, Queued, Running, Held
<1> QED BY <1>1, <1>2, <1>3, <1>4, <1>5, <1>6 DEF CloserStep

(* The room and the chats through any other step.                          *)
LEMMA RoomStep ==
  ASSUME TypedInv, TypedInv', [LBNext]_lbVars, RoomInv, ChatInv, [DispatchNext]_vars
  PROVE  RoomInv' /\ ChatInv'
<1>0. /\ LBInv /\ LBInv' /\ Threads /\ ChatOK /\ former \subseteq issued /\ issued \subseteq Jobs
      /\ issued \subseteq issued' /\ Placed' \subseteq Placed \cup (issued' \ issued)
      /\ ~accepting => issued' = issued
  BY Parts, OnlyNewPlaced DEF TypedInv, DispatchTypeOK, LBTypeOK
<1>1. \A j : j \in issued \ Placed => j \in issued' \ Placed'
  BY <1>0
<1>2. \A j : j \in failed \/ j \in ended => j \in issued \ Placed
  BY <1>0 DEF LBInv, Placement, FailedIsGone, EndedIsGone, OnlyIssued
<1>3. \A j : j \in failed' \/ j \in ended' => j \in issued' \ Placed'
  BY <1>0 DEF LBInv, Placement, FailedIsGone, EndedIsGone, OnlyIssued
<1>4. ASSUME UNCHANGED <<attempts, loop>>,
             \A j \in Jobs : chat'[j] \in Settled => chat[j] \in Settled \/ j \in ended'
      PROVE  ChatInv'
  BY <1>1, <1>3, <1>4 DEF ChatInv, GivesUp
<1>5. former \cap Placed' = {}
  BY <1>0 DEF RoomInv, RoomsAreSeparate
<1>6. closer \in {"chats", "revoke", "reopen"} => Placed' = {}
  BY <1>0 DEF RoomInv
<1>7. CASE \/ run_scheduler_cycle \/ SchedulerStep \/ ForecastStep \/ poll_answer
           \/ \E n \in Nodes : forecast_read(n)
           \/ \E n \in Nodes : jobs_next(n)
           \/ \E j \in Jobs : _generator_loop(j)
  <2>1. LoopTells /\ LoopStepOK
    BY <1>7, LoopTellsAlways, LoopGoesOn
  <2>2. UNCHANGED <<th, closer, former, accepting>>
    BY <2>1 DEF LoopTells, LoopStepOK
  <2>3. RoomInv'
    BY <1>0, <1>5, <1>6, <2>1, <2>2 DEF RoomInv, RoomsAreSeparate, LoopTells
  <2>4. \A j \in Jobs : chat'[j] \in Settled => j \in issued' \ Placed'
    BY <1>1, <1>2, <2>1 DEF LoopTells, ChatInv
  <2>5. loop'.at = "dropped" /\ loop'.job \notin Burns /\ attempts'[loop'.job] >= MaxAttempts
          => loop'.job \in issued' \ Placed'
    BY <1>3, <2>1 DEF LoopTells
  <2> QED BY <2>3, <2>4, <2>5 DEF ChatInv, GivesUp
<1>8. CASE \/ \E c \in Callers, j \in Jobs : post_chat(c, j)
           \/ \E c \in Callers, h \in handed, ok \in BOOLEAN : jobs_result(c, h[1], h[2], h[3], ok)
           \/ \E c \in Callers, n \in Nodes : leave(c, n)
           \/ \E c \in Callers : HandlerStep(c)
  <2>1. ThreadTells /\ ThreadStepOK
    BY <1>8, ThreadTellsAlways, ThreadStep
  <2>2. ChatInv'
    BY <1>4, <2>1 DEF ThreadTells, ThreadStepOK
  <2>3. closer' = closer /\ former' = former
    <3>1. former' = former
      BY <2>1 DEF ThreadStepOK
    <3>2. closer' = closer
      BY <1>8 DEF post_chat, jobs_result, leave, HandlerStep, post_chat_record, result_complete,
         result_commit, result_count, result_settle, result_requeued, leave_settle, leave_peek,
         leave_active, leave_active_settle, leave_inactive, leave_revoke
    <3> QED BY <3>1, <3>2
  <2>4. closer \in {"none", "waiting"}
    BY <2>1 DEF ThreadTells, RoomInv
  <2>5. \A c \in Callers : th'[c].at = "posted" => th'[c].job \notin former
    BY <1>0, <2>1 DEF ThreadTells, RoomInv
  <2>6. \A j \in former : chat'[j] = "none"
    BY <1>0, <2>1 DEF ThreadTells, RoomInv, RoomsAreSeparate
  <2> QED BY <1>5, <2>2, <2>3, <2>4, <2>5, <2>6 DEF RoomInv, RoomsAreSeparate
<1>9. CASE CloserStep
  <2>1. /\ RoomInv' /\ attempts' = attempts
        /\ \A j \in Jobs : chat'[j] \in Settled => chat[j] \in Settled
    BY <1>9, CloserKeepsRooms
  <2>2. loop' = loop
    BY <1>9, OtherStep DEF OtherStepOK
  <2> QED BY <1>4, <2>1, <2>2
<1>10. CASE \/ \E j \in Jobs : lease_ends(j)
            \/ \E n \in Nodes : join(n)
            \/ \E n \in Nodes : nodes_ready(n)
            \/ close_begin \/ UNCHANGED vars
  <2>1. /\ UNCHANGED <<lbVars, chat, th, former, loop>>
        /\ closer' = closer \/ (closer = "none" /\ closer' = "waiting")
    BY <1>10 DEF lease_ends, join, nodes_ready, close_begin, vars, tableVars, actorVars
  <2>2. ChatInv'
    BY <1>4, <2>1 DEF lbVars
  <2>3. accepting' = accepting
    BY <2>1 DEF lbVars
  <2> QED BY <1>5, <1>6, <2>1, <2>2, <2>3 DEF RoomInv, RoomsAreSeparate
<1> QED BY <1>7, <1>8, <1>9, <1>10 DEF DispatchNext

LEMMA RoomsAlways == DispatchSpec => [](TypedInv /\ RoomInv /\ ChatInv)
<1>1. DispatchInit => TypedInv /\ RoomInv /\ ChatInv
  <2> SUFFICES ASSUME DispatchInit PROVE TypedInv /\ RoomInv /\ ChatInv
    OBVIOUS
  <2>1. TypedInv
    BY TypedInit
  <2>2. /\ closer = "none" /\ former = {} /\ \A j \in Jobs : chat[j] = "none"
        /\ loop.at = "idle" /\ \A c \in Callers : th[c].at = "idle"
    BY Basics DEF DispatchInit
  <2> QED BY <2>1, <2>2 DEF RoomInv, RoomsAreSeparate, ChatInv, Settled
<1>2. TypedInv /\ RoomInv /\ ChatInv /\ [DispatchNext]_vars => (TypedInv /\ RoomInv /\ ChatInv)'
  BY TypedStep, RoomStep
<1> QED BY <1>1, <1>2, PTL DEF DispatchSpec

(* Closing a room leaves nothing of it: a job of a closed room is never    *)
(* queued, running or shown again, however a late answer, a lapsing lease, *)
(* the forecast cycle or the load generator interleave with the close.     *)
THEOREM RoomsHold == DispatchSpec => []RoomsAreSeparate
<1>1. RoomInv => RoomsAreSeparate
  BY DEF RoomInv
<1> QED BY <1>1, RoomsAlways, PTL

(* A chat shown as done or failed is not waiting or running anywhere, even *)
(* though its record and the queue are changed under different locks.      *)
THEOREM AnswersHold == DispatchSpec => []AnsweredIsFinal
<1>1. ChatInv => AnsweredIsFinal
  BY DEF ChatInv, AnsweredIsFinal
<1> QED BY <1>1, RoomsAlways, PTL

-----------------------------------------------------------------------------
(* A flagged node gets no job.  /nodes/ready writes a row of its own over  *)
(* the one that carries the warning, and round robin lets a flagged node   *)
(* compete: the property is claimed of an instance with neither.           *)

WarningsKept == "ready" \notin Ops /\ ~RoundRobin

(* The forecast cycle is between setting the flag and writing the row. *)
Writing == loop.at \in {"stale", "stale settle", "put"} \/ (loop.at = "dropped" /\ loop.back = "put")

FlagInv ==
    /\ \A n \in Nodes : n \in flags =>
         cache[n].state \notin {"READY", "WARMING_UP"} \/ (Writing /\ loop.node = n)
    /\ Writing /\ loop.node \in flags => loop.row.state = "AT_RISK"
    /\ loop.at = "reserve" => loop.node \notin flags

(* Only the scheduler, about to reserve, keeps a job for a node. *)
KeptOnlyHere ==
    \A j \in Jobs : \/ target'[j] \in {target[j], NoNode}
                    \/ loop.at = "reserve" /\ target'[j] = loop.node

LEMMA KeptTypes ==
  ASSUME TypedInv
  PROVE  /\ target \in [Jobs -> Claimers \cup {NoNode}] /\ queue \in Seq(Jobs)
         /\ active \in [Claimers -> Jobs \cup {NoJob}]
         /\ held \in [Callers -> Jobs \cup {NoJob}]
  BY Parts DEF LBTypeOK

LEMMA SameKept == ASSUME target' = target PROVE KeptOnlyHere
  BY DEF KeptOnlyHere

(* What the methods but reserve do to the targets. *)
LEMMA OthersDropTargets ==
  ASSUME TypedInv,
         \/ \E j \in Jobs : fail(j) \/ requeue_front(j) \/ enqueue_job(j, NoNode)
         \/ \E n \in Claimers : cancel_active(n) \/ requeue_active_as_pending(n) \/ claim(n)
         \/ \E n \in Nodes : release_reservations_for(n)
         \/ \E n \in Nodes, b \in BOOLEAN : set_flag(n, b)
         \/ \E c \in Callers, n \in Claimers, j \in Jobs : complete(c, n, j)
         \/ \E c \in Callers : return_job_to_pending(c) \/ discard(c)
         \/ \E b \in BOOLEAN : set_accepting(b)
         \/ drain_all
         \/ UNCHANGED lbVars
  PROVE  \A j \in Jobs : target'[j] \in {target[j], NoNode}
<1>0. /\ target \in [Jobs -> Claimers \cup {NoNode}]
      /\ active \in [Claimers -> Jobs \cup {NoJob}] /\ held \in [Callers -> Jobs \cup {NoJob}]
  BY KeptTypes
<1>1. ASSUME NEW j \in Jobs, fail(j) \/ requeue_front(j) \/ enqueue_job(j, NoNode)
      PROVE  target' = target \/ target' = [target EXCEPT ![j] = NoNode]
  BY <1>1 DEF fail, requeue_front, enqueue_job, lbVars
<1>2. ASSUME NEW n \in Claimers, cancel_active(n) \/ requeue_active_as_pending(n) \/ claim(n)
      PROVE  target' = target \/ target' = [target EXCEPT ![active[n]] = NoNode]
  BY <1>2 DEF cancel_active, requeue_active_as_pending, claim
<1>3. ASSUME NEW n \in Nodes, release_reservations_for(n)
      PROVE  \A j \in Jobs : target'[j] \in {target[j], NoNode}
  BY <1>3 DEF release_reservations_for
<1>4. ASSUME NEW c \in Callers, return_job_to_pending(c) \/ discard(c)
      PROVE  target' = target \/ target' = [target EXCEPT ![held[c]] = NoNode]
  BY <1>4 DEF return_job_to_pending, discard
<1>5. ASSUME \/ \E n \in Nodes, b \in BOOLEAN : set_flag(n, b)
             \/ \E c \in Callers, n \in Claimers, j \in Jobs : complete(c, n, j)
             \/ \E b \in BOOLEAN : set_accepting(b)
             \/ drain_all \/ UNCHANGED lbVars
      PROVE  target' = target
  BY <1>5 DEF set_flag, complete, set_accepting, drain_all, lbVars
<1>6. \A i : \A j \in Jobs : [target EXCEPT ![i] = NoNode][j] \in {target[j], NoNode}
  BY <1>0
<1>7. CASE \E j \in Jobs : fail(j) \/ requeue_front(j) \/ enqueue_job(j, NoNode)
  BY <1>1, <1>6, <1>7
<1>8. CASE \E n \in Claimers : cancel_active(n) \/ requeue_active_as_pending(n) \/ claim(n)
  BY <1>2, <1>6, <1>8
<1>9. CASE \E c \in Callers : return_job_to_pending(c) \/ discard(c)
  BY <1>4, <1>6, <1>9
<1> QED BY <1>3, <1>5, <1>7, <1>8, <1>9

LEMMA FlagsStay ==
  ASSUME FlagInv, flags' \subseteq flags, loop' = loop,
         \A n \in Nodes : cache'[n].state \in {cache[n].state, "INACTIVE", "JOINING"}
  PROVE  FlagInv'
  BY DEF FlagInv, Writing

LEMMA LoopMovesOn ==
  ASSUME FlagInv, flags' = flags, \A n \in Nodes : cache'[n].state = cache[n].state,
         ~Writing, ~Writing', loop'.at # "reserve"
  PROVE  FlagInv'
  BY DEF FlagInv

LEMMA LoopWritesOn ==
  ASSUME FlagInv, flags' = flags, \A n \in Nodes : cache'[n].state = cache[n].state,
         Writing, Writing', loop'.node = loop.node, loop'.row = loop.row, loop'.at # "reserve"
  PROVE  FlagInv'
  BY DEF FlagInv

LEMMA ReleaseKeepsFlags ==
  ASSUME TypedInv, NEW n \in Nodes, NEW after, after \in LoopRec,
         _release_active(n, after), after.at \in {"expire", "put"}
  PROVE  /\ KeptOnlyHere /\ flags' = flags
         /\ loop' = after \/ (loop'.at = "dropped" /\ loop'.back = after.at
                               /\ loop'.node = n /\ loop'.row = after.row)
<1>0. active \in [Claimers -> Jobs \cup {NoJob}] /\ n \in Claimers
  BY Parts, Basics
<1>1. CASE active[n] = NoJob
  BY <1>1, SameKept DEF _release_active, lbVars
<1>2. CASE active[n] # NoJob
  <2> DEFINE l == [after EXCEPT !.at = "dropped", !.node = n, !.job = active[n], !.back = after.at]
  <2>1. (cancel_active(n) \/ requeue_active_as_pending(n)) /\ loop' = l
    BY <1>2 DEF _release_active
  <2>2. l.at = "dropped" /\ l.back = after.at /\ l.node = n /\ l.row = after.row
    BY DEF LoopRec
  <2> HIDE DEF l
  <2>3. KeptOnlyHere
    BY <1>0, <2>1, OthersDropTargets DEF KeptOnlyHere
  <2>4. flags' = flags
    BY <2>1 DEF cancel_active, requeue_active_as_pending
  <2> QED BY <2>1, <2>2, <2>3, <2>4
<1> QED BY <1>1, <1>2

LEMMA LoopKeepsFlags ==
  ASSUME TypedInv, FlagInv, WarningsKept,
         \/ run_scheduler_cycle \/ SchedulerStep \/ ForecastStep \/ poll_answer
         \/ \E n \in Nodes : forecast_read(n)
         \/ \E n \in Nodes : jobs_next(n)
         \/ \E j \in Jobs : _generator_loop(j)
  PROVE  FlagInv' /\ KeptOnlyHere
<1>0. /\ CacheOK /\ loop \in LoopRec /\ LoopAs(loop) /\ IdleLoop \in LoopRec /\ IdleLoop.at = "idle"
      /\ loop.at = "expire" => loop.todo \in Seq(Nodes)
      /\ loop.at \in {"dropped", "stale settle", "put", "reserved", "stale", "decide"} => loop.node \in Nodes
      /\ loop.at = "dropped" => loop.back \in {"expire", "put"}
      /\ Nodes \subseteq Claimers
  BY Parts, Basics, LoopKnows DEF LoopAs
<1>a. ASSUME NEW place, LoopAt(place) \/ LoopNext(place)
      PROVE  loop'.at = place /\ loop'.node = loop.node /\ loop'.row = loop.row
  BY <1>0, <1>a DEF LoopAt, LoopNext, LoopRec
<1>b. ASSUME NEW n, DecInflight(n) \/ (n \in Nodes /\ IncInflight(n)) \/ cache' = cache
      PROVE  \A m \in Nodes : cache'[m].state = cache[m].state
  <2>1. CASE n \in Nodes
    BY <1>0, <1>b, <2>1, CountDown, CountUp DEF OthersKept
  <2>2. CASE n \notin Nodes
    BY <1>0, <1>b, <2>2 DEF DecInflight, CacheOK
  <2> QED BY <2>1, <2>2
<1>1. CASE run_scheduler_cycle \/ reap_done \/ release_done \/ schedule_done
  <2>1. UNCHANGED <<lbVars, cache>>
    BY <1>1 DEF run_scheduler_cycle, reap_done, release_done, schedule_done, tableVars
  <2>2. /\ loop.at \in {"idle", "reap", "expire", "schedule"}
        /\ loop'.at \in {"reap", "expire", "schedule", "mark"}
    BY <1>0, <1>1 DEF run_scheduler_cycle, reap_done, release_done, schedule_done, LoopRec
  <2> QED BY <2>1, <2>2, SameKept, LoopMovesOn DEF Writing, lbVars
<1>2. CASE reap_inflight \/ count_reserved
  <2>1. UNCHANGED lbVars /\ \A m \in Nodes : cache'[m].state = cache[m].state
    BY <1>0, <1>2, <1>b DEF reap_inflight, count_reserved
  <2>2. loop.at \in {"reap", "reserved"} /\ loop'.at \in {"reap job", "schedule"}
    BY <1>2, <1>a DEF reap_inflight, count_reserved
  <2> QED BY <2>1, <2>2, SameKept, LoopMovesOn DEF Writing, lbVars
<1>3. CASE reap_job
  <2>1. /\ loop.at = "reap job" /\ LoopNext("reap") /\ cache' = cache
        /\ fail(Head(loop.todo)[1]) \/ requeue_front(Head(loop.todo)[1])
    BY <1>3 DEF reap_job, tableVars
  <2>2. loop'.at = "reap"
    BY <2>1, <1>a
  <2>3. Head(loop.todo)[1] \in Jobs
    <3>1. loop.todo \in Seq(Jobs \X Claimers) /\ loop.todo # <<>>
      BY <1>0, <2>1, LoopKnows
    <3>2. Head(loop.todo) \in Jobs \X Claimers
      BY <3>1, TailTyped
    <3> QED BY <3>2
  <2>4. KeptOnlyHere
    BY <2>1, <2>3, OthersDropTargets DEF KeptOnlyHere
  <2>5. flags' = flags
    BY <2>1 DEF fail, requeue_front, lbVars
  <2> QED BY <2>1, <2>2, <2>4, <2>5, LoopMovesOn DEF Writing
<1>4. CASE release_expired
  <2> DEFINE n == [loop EXCEPT !.todo = Tail(loop.todo)]
  <2>1. /\ loop.at = "expire" /\ loop.todo # <<>> /\ _release_active(Head(loop.todo), n)
        /\ cache' = cache
    BY <1>4 DEF release_expired, tableVars
  <2>2. Head(loop.todo) \in Nodes /\ Tail(loop.todo) \in Seq(Nodes)
    BY <1>0, <2>1, TailTyped
  <2>3. n \in LoopRec /\ n.at = "expire"
    BY <1>0, <2>1, <2>2 DEF LoopRec
  <2> HIDE DEF n
  <2>4. /\ KeptOnlyHere /\ flags' = flags
        /\ loop' = n \/ (loop'.at = "dropped" /\ loop'.back = "expire")
    BY <2>1, <2>2, <2>3, ReleaseKeepsFlags
  <2> QED BY <2>1, <2>3, <2>4, LoopMovesOn DEF Writing
<1>5. CASE drop_settle
  <2>1. /\ loop.at = "dropped" /\ LoopAt(loop.back) /\ DecInflight(loop.node) /\ UNCHANGED lbVars
    BY <1>5 DEF drop_settle
  <2>2. loop'.at = loop.back /\ loop'.node = loop.node /\ loop'.row = loop.row
    BY <1>a, <2>1
  <2>3. \A m \in Nodes : cache'[m].state = cache[m].state
    BY <1>b, <2>1
  <2> QED BY <1>0, <2>1, <2>2, <2>3, SameKept, LoopMovesOn, LoopWritesOn DEF Writing, lbVars
<1>6. CASE choose_node
  <2>1. loop.at = "schedule" /\ UNCHANGED <<lbVars, cache>>
    BY <1>6 DEF choose_node, tableVars
  <2>2. \/ LoopNext("schedule")
        \/ \E n \in Nodes : /\ cache[n].state \in {"READY", "WARMING_UP"}
                            /\ loop' = [loop EXCEPT !.at = "reserve", !.node = n, !.job = Head(loop.todo)]
    BY <1>6 DEF choose_node, filter_candidates, AllowedStates, WarningsKept
  <2>3. CASE LoopNext("schedule")
    BY <1>a, <2>1, <2>3, SameKept, LoopMovesOn DEF Writing, lbVars
  <2>4. ASSUME NEW n \in Nodes, cache[n].state \in {"READY", "WARMING_UP"},
               loop' = [loop EXCEPT !.at = "reserve", !.node = n, !.job = Head(loop.todo)]
        PROVE  FlagInv'
    <3>1. loop'.at = "reserve" /\ loop'.node = n
      BY <1>0, <2>4 DEF LoopRec
    <3>2. n \notin flags
      BY <2>1, <2>4 DEF FlagInv, Writing
    <3> QED BY <2>1, <3>1, <3>2 DEF FlagInv, Writing, lbVars
  <2> QED BY <2>1, <2>2, <2>3, <2>4, SameKept DEF lbVars
<1>7. CASE reserve_node
  <2>1. /\ loop.at = "reserve" /\ cache' = cache
        /\ \/ reserve(loop.job, loop.node) /\ LoopAt("reserved")
           \/ LoopNext("schedule") /\ UNCHANGED lbVars
    BY <1>7 DEF reserve_node, tableVars
  <2>2. loop'.at \in {"reserved", "schedule"}
    BY <1>a, <2>1
  <2>3. target' = [target EXCEPT ![loop.job] = loop.node] \/ target' = target
    BY <2>1 DEF reserve, lbVars
  <2>4. KeptOnlyHere
    BY <2>1, <2>3, KeptTypes DEF KeptOnlyHere
  <2>5. flags' = flags
    BY <2>1 DEF reserve, lbVars
  <2> QED BY <2>1, <2>2, <2>4, <2>5, LoopMovesOn DEF Writing
<1>8. CASE mark_failed \/ poll_answer \/ \E n \in Nodes : forecast_read(n)
  <2>1. UNCHANGED <<lbVars, cache>>
    BY <1>8 DEF mark_failed, poll_answer, forecast_read, tableVars
  <2>2. loop.at \in {"mark", "claimed", "idle"} /\ loop'.at \in {"mark", "idle", "decide"}
    BY <1>0, <1>8 DEF mark_failed, poll_answer, forecast_read, LoopRec
  <2> QED BY <2>1, <2>2, SameKept, LoopMovesOn DEF Writing, lbVars
<1>9. CASE forecast_decide
  <2>1. PICK state :
           /\ set_flag(loop.node, state = "AT_RISK")
           /\ loop' = [loop EXCEPT !.row = Forecast(loop.row, state),
                    !.at = IF state = "STALE" THEN "stale" ELSE "put"]
    BY <1>9 DEF forecast_decide
  <2>2. loop.at = "decide" /\ cache' = cache
    BY <1>9 DEF forecast_decide, tableVars
  <2>3. /\ loop'.at \in {"stale", "put"} /\ loop'.node = loop.node
        /\ loop'.row = Forecast(loop.row, state)
    BY <1>0, <2>1 DEF LoopRec
  <2>4. Forecast(loop.row, state).state = state
    <3>1. CASE loop.row = NoEntry
      BY <3>1 DEF Forecast, Row
    <3>2. CASE loop.row # NoEntry
      <4>1. loop.row \in Rows
        BY <1>0, <3>2, LoopKnows
      <4> QED BY <3>2, <4>1 DEF Forecast, Rows
    <3> QED BY <3>1, <3>2
  <2>5. /\ target' = target /\ flags' \subseteq flags \cup {loop.node}
        /\ state # "AT_RISK" => loop.node \notin flags'
    BY <2>1 DEF set_flag
  <2> QED BY <2>2, <2>3, <2>4, <2>5, SameKept DEF FlagInv, Writing
<1>10. CASE stale_release
  <2>1. loop.at = "stale" /\ release_reservations_for(loop.node) /\ cache' = cache
    BY <1>10 DEF stale_release, tableVars
  <2>2. loop'.at = "stale settle" /\ loop'.node = loop.node /\ loop'.row = loop.row
    BY <1>0, <1>10 DEF stale_release, LoopRec
  <2>3. KeptOnlyHere
    BY <1>0, <2>1, OthersDropTargets DEF KeptOnlyHere
  <2>4. flags' = flags
    BY <2>1 DEF release_reservations_for
  <2> QED BY <2>1, <2>2, <2>3, <2>4, LoopWritesOn DEF Writing
<1>11. CASE stale_settle
  <2>1. loop.at = "stale settle" /\ DecInflight(loop.node) /\ LoopNext("stale settle") /\ UNCHANGED lbVars
    BY <1>11 DEF stale_settle
  <2>2. \A m \in Nodes : cache'[m].state = cache[m].state
    BY <1>b, <2>1
  <2>3. loop'.at = "stale settle" /\ loop'.node = loop.node /\ loop'.row = loop.row
    BY <1>a, <2>1
  <2> QED BY <2>1, <2>2, <2>3, SameKept, LoopWritesOn DEF Writing, lbVars
<1>12. CASE stale_active
  <2> DEFINE n == [loop EXCEPT !.at = "put"]
  <2>1. loop.at = "stale settle" /\ _release_active(loop.node, n) /\ cache' = cache
    BY <1>12 DEF stale_active, tableVars
  <2>2. n \in LoopRec /\ n.at = "put" /\ n.node = loop.node /\ n.row = loop.row
    BY <1>0 DEF LoopRec, LoopPlaces
  <2> HIDE DEF n
  <2>3. /\ KeptOnlyHere /\ flags' = flags
        /\ loop' = n \/ (loop'.at = "dropped" /\ loop'.back = "put"
                               /\ loop'.node = loop.node /\ loop'.row = n.row)
    BY <1>0, <2>1, <2>2, ReleaseKeepsFlags
  <2> QED BY <2>1, <2>2, <2>3, LoopWritesOn DEF Writing
<1>13. CASE forecast_put
  <2>1. loop.at = "put" /\ put(loop.node, loop.row) /\ loop' = IdleLoop /\ UNCHANGED lbVars
    BY <1>13 DEF forecast_put
  <2>2. loop.row \in Rows /\ loop.node \in Nodes
    BY <1>0, <2>1, LoopKnows
  <2>3. OthersKept(loop.node) /\ cache'[loop.node].state = loop.row.state
    BY <1>0, <2>1, <2>2, PutRow
  <2> QED BY <1>0, <2>1, <2>3, SameKept DEF FlagInv, Writing, OthersKept, lbVars
<1>14. ASSUME NEW m \in Nodes, jobs_next(m)
       PROVE  FlagInv' /\ KeptOnlyHere
  <2>1. loop.at = "idle" /\ claim(m) /\ cache' = cache
    BY <1>14 DEF jobs_next, tableVars
  <2>2. loop'.at = "claimed"
    BY <1>0, <1>14 DEF jobs_next, LoopRec
  <2>3. KeptOnlyHere /\ flags' = flags
    BY <1>0, <2>1, OthersDropTargets DEF KeptOnlyHere, claim
  <2> QED BY <2>1, <2>2, <2>3, LoopMovesOn DEF Writing
<1>15. ASSUME NEW j \in Jobs, _generator_loop(j)
       PROVE  FlagInv' /\ KeptOnlyHere
  <2>1. loop.at = "idle" /\ loop' = loop /\ enqueue_job(j, NoNode) /\ cache' = cache
    BY <1>15 DEF _generator_loop, tableVars, actorVars
  <2>2. KeptOnlyHere /\ flags' = flags
    BY <2>1, OthersDropTargets DEF KeptOnlyHere, enqueue_job
  <2> QED BY <2>1, <2>2, LoopMovesOn DEF Writing
<1> QED BY <1>1, <1>2, <1>3, <1>4, <1>5, <1>6, <1>7, <1>8, <1>9, <1>10, <1>11, <1>12, <1>13,
           <1>14, <1>15 DEF SchedulerStep, ForecastStep

LEMMA ThreadKeepsFlags ==
  ASSUME TypedInv, FlagInv, NEW c \in Callers,
         \/ \E j \in Jobs : post_chat(c, j)
         \/ \E h \in handed, ok \in BOOLEAN : jobs_result(c, h[1], h[2], h[3], ok)
         \/ \E n \in Nodes : leave(c, n)
         \/ HandlerStep(c)
  PROVE  FlagInv' /\ KeptOnlyHere
<1>0. /\ CacheOK /\ ThreadAs(th[c], held[c]) /\ Nodes \subseteq Claimers
      /\ \A n \in Nodes : cache[n].state \in States
      /\ ThreadStepOK
  BY Parts, ThreadAt, Basics, RowFields, ThreadStep
<1>a. loop' = loop
  BY <1>0 DEF ThreadStepOK
<1>b. ASSUME NEW n \in Nodes, DecInflight(n)
      PROVE  \A m \in Nodes : cache'[m].state = cache[m].state
  BY <1>0, <1>b, CountDown DEF OthersKept
<1>1. CASE \/ \E j \in Jobs : post_chat(c, j)
           \/ \E h \in handed, ok \in BOOLEAN : jobs_result(c, h[1], h[2], h[3], ok)
           \/ \E n \in Nodes : leave(c, n)
           \/ post_chat_record(c) \/ result_commit(c) \/ result_requeued(c) \/ leave_peek(c)
           \/ leave_revoke(c)
  <2>1. cache' = cache
    BY <1>1 DEF post_chat, jobs_result, leave, post_chat_record, result_commit, result_requeued,
       leave_peek, leave_revoke, tableVars
  <2>2. \/ \E j \in Jobs : enqueue_job(j, NoNode)
        \/ \E n \in Nodes : release_reservations_for(n)
        \/ discard(c) \/ UNCHANGED lbVars
    BY <1>1 DEF post_chat, jobs_result, leave, post_chat_record, result_commit, result_requeued,
       leave_peek, leave_revoke
  <2>3. flags' = flags
    BY <2>2 DEF enqueue_job, release_reservations_for, discard, lbVars
  <2>4. KeptOnlyHere
    BY <2>2, OthersDropTargets DEF KeptOnlyHere
  <2> QED BY <1>a, <2>1, <2>3, <2>4, FlagsStay
<1>2. CASE result_complete(c) \/ result_settle(c)
  <2>1. cache' = cache
    BY <1>2 DEF result_complete, result_settle, tableVars
  <2>2. th[c].node \in Claimers /\ th[c].job \in Jobs
    BY <1>0, <1>2 DEF result_complete, result_settle, ThreadAs
  <2>3. \/ complete(c, th[c].node, th[c].job) \/ return_job_to_pending(c) \/ discard(c)
        \/ UNCHANGED lbVars
    BY <1>2 DEF result_complete, result_settle
  <2>4. flags' = flags
    BY <2>3 DEF complete, return_job_to_pending, discard, lbVars
  <2>5. KeptOnlyHere
    BY <2>2, <2>3, OthersDropTargets DEF KeptOnlyHere
  <2> QED BY <1>a, <2>1, <2>4, <2>5, FlagsStay
<1>3. CASE result_count(c) \/ leave_settle(c) \/ leave_active_settle(c)
  <2>1. th[c].node \in Nodes /\ DecInflight(th[c].node) /\ UNCHANGED lbVars
    BY <1>0, <1>3 DEF result_count, leave_settle, leave_active_settle, ThreadAs
  <2>2. \A m \in Nodes : cache'[m].state = cache[m].state
    BY <1>b, <2>1
  <2> QED BY <1>a, <2>1, <2>2, FlagsStay, SameKept DEF lbVars
<1>4. CASE leave_active(c)
  <2>1. th[c].node \in Claimers /\ cache' = cache
    BY <1>0, <1>4 DEF leave_active, ThreadAs, tableVars
  <2>2. cancel_active(th[c].node) \/ requeue_active_as_pending(th[c].node) \/ UNCHANGED lbVars
    BY <1>4 DEF leave_active
  <2>3. flags' = flags
    BY <2>2 DEF cancel_active, requeue_active_as_pending, lbVars
  <2>4. KeptOnlyHere
    BY <2>1, <2>2, OthersDropTargets DEF KeptOnlyHere
  <2> QED BY <1>a, <2>1, <2>3, <2>4, FlagsStay
<1>5. CASE leave_inactive(c)
  <2>1. /\ th[c].node \in Nodes /\ set_flag(th[c].node, FALSE) /\ mark_inactive(th[c].node)
    BY <1>0, <1>5 DEF leave_inactive, ThreadAs
  <2>2. cache' = [cache EXCEPT ![th[c].node] = Row("INACTIVE", 0, 0)]
    BY <2>1 DEF mark_inactive
  <2>3. Row("INACTIVE", 0, 0).state = "INACTIVE"
    BY DEF Row
  <2>4. \A n \in Nodes : cache'[n].state \in {cache[n].state, "INACTIVE", "JOINING"}
    BY <1>0, <2>1, <2>2, <2>3 DEF CacheOK
  <2>5. flags' \subseteq flags /\ target' = target
    BY <2>1 DEF set_flag
  <2> QED BY <1>a, <2>4, <2>5, FlagsStay, SameKept
<1> QED BY <1>1, <1>2, <1>3, <1>4, <1>5 DEF HandlerStep

LEMMA OthersKeepFlags ==
  ASSUME TypedInv, FlagInv, WarningsKept,
         \/ \E j \in Jobs : lease_ends(j)
         \/ \E n \in Nodes : join(n) \/ nodes_ready(n)
         \/ close_begin \/ CloserStep \/ UNCHANGED vars
  PROVE  FlagInv' /\ KeptOnlyHere
<1>0. CacheOK
  BY Parts
<1>1. CASE \/ \E j \in Jobs : lease_ends(j)
           \/ close_begin \/ close_stop \/ close_drain \/ close_chats \/ close_revoke
           \/ close_reopen \/ UNCHANGED vars
  <2>1. cache' = cache /\ loop' = loop
    BY <1>1 DEF lease_ends, close_begin, close_stop, close_drain, close_chats, close_revoke,
       close_reopen, tableVars, actorVars, vars
  <2>2. flags' \subseteq flags /\ target' = target
    BY <1>1 DEF lease_ends, close_begin, close_stop, close_drain, close_chats, close_revoke,
       close_reopen, set_accepting, drain_all, lbVars, vars
  <2> QED BY <2>1, <2>2, FlagsStay, SameKept
<1>2. ASSUME NEW n \in Nodes, join(n)
      PROVE  FlagInv' /\ KeptOnlyHere
  <2>1. /\ cache' = [cache EXCEPT ![n] = Row("JOINING", 0, 0)] /\ loop' = loop /\ UNCHANGED lbVars
    BY <1>2 DEF join, mark_joining, actorVars
  <2>2. \A m \in Nodes : cache'[m].state \in {cache[m].state, "INACTIVE", "JOINING"}
    BY <1>0, <2>1 DEF CacheOK, Row
  <2> QED BY <2>1, <2>2, FlagsStay, SameKept DEF lbVars
<1>3. CASE close_inactive
  <2>1. /\ cache' = [n \in Nodes |-> IF active[n] # NoJob \/ \E j \in Queued : target[j] = n
                                       THEN Row("INACTIVE", 0, 0) ELSE cache[n]]
        /\ loop' = loop /\ UNCHANGED lbVars
    BY <1>3 DEF close_inactive
  <2>2. \A m \in Nodes : cache'[m].state \in {cache[m].state, "INACTIVE", "JOINING"}
    BY <2>1 DEF Row
  <2> QED BY <2>1, <2>2, FlagsStay, SameKept DEF lbVars
<1> QED BY <1>1, <1>2, <1>3 DEF CloserStep, nodes_ready, WarningsKept

LEMMA FlagStep ==
  ASSUME TypedInv, FlagInv, WarningsKept, [DispatchNext]_vars
  PROVE  FlagInv' /\ \A j \in Jobs : target'[j] # target[j] /\ target'[j] \in Nodes
                                       => target'[j] \notin flags
<1>1. FlagInv' /\ KeptOnlyHere
  <2>1. CASE \/ run_scheduler_cycle \/ SchedulerStep \/ ForecastStep \/ poll_answer
             \/ \E n \in Nodes : forecast_read(n)
             \/ \E n \in Nodes : jobs_next(n)
             \/ \E j \in Jobs : _generator_loop(j)
    BY <2>1, LoopKeepsFlags
  <2>2. CASE \/ \E c \in Callers, j \in Jobs : post_chat(c, j)
             \/ \E c \in Callers, h \in handed, ok \in BOOLEAN : jobs_result(c, h[1], h[2], h[3], ok)
             \/ \E c \in Callers, n \in Nodes : leave(c, n)
             \/ \E c \in Callers : HandlerStep(c)
    BY <2>2, ThreadKeepsFlags
  <2>3. CASE \/ \E j \in Jobs : lease_ends(j)
             \/ \E n \in Nodes : join(n) \/ nodes_ready(n)
             \/ close_begin \/ CloserStep \/ UNCHANGED vars
    BY <2>3, OthersKeepFlags
  <2> QED BY <2>1, <2>2, <2>3 DEF DispatchNext
<1> QED BY <1>1, Basics DEF KeptOnlyHere, FlagInv

(* A flagged node is given no new job, wherever the forecast cycle, the    *)
(* scheduler, a departure and a close stand: between the flag and the row  *)
(* that shows it the scheduler has no turn.                                *)
THEOREM FlaggedHolds == ASSUME WarningsKept PROVE DispatchSpec => FlaggedGetsNoJob
<1>1. DispatchInit => FlagInv
  <2> SUFFICES ASSUME DispatchInit PROVE FlagInv
    OBVIOUS
  <2>1. flags = {} /\ loop.at = "idle"
    BY Basics DEF DispatchInit, LBInit
  <2> QED BY <2>1 DEF FlagInv, Writing
<1>2. TypedInv /\ FlagInv /\ [DispatchNext]_vars => FlagInv'
  BY FlagStep, WarningsKept
<1>3. TypedInv /\ FlagInv /\ [DispatchNext]_vars
        => [\A j \in Jobs : target'[j] # target[j] /\ target'[j] \in Nodes
                              => target'[j] \notin flags]_vars
  BY FlagStep, WarningsKept
<1> QED BY <1>1, <1>2, <1>3, TypedAlways, PTL DEF DispatchSpec, FlaggedGetsNoJob

-----------------------------------------------------------------------------
(* What the methods do to the set of queued jobs.                          *)

LEMMA CutIs ==
  ASSUME LBInv, NEW i \in DOMAIN queue
  PROVE  /\ Range(Cut(queue, i)) = Queued \ {queue[i]}
         /\ Range(<<queue[i]>> \o Cut(queue, i)) = Queued
         /\ queue[i] \in Queued
<1>1. /\ queue \in Seq(Jobs) /\ NoRepeat(queue)
  BY QueueHasNoRepeat
<1>2. /\ Cut(queue, i) \in Seq(Jobs) /\ NoRepeat(Cut(queue, i))
      /\ Range(Cut(queue, i)) = Range(queue) \ {queue[i]}
  BY <1>1, CutProperties
<1>3. queue[i] \in Queued /\ queue[i] \in Jobs
  BY <1>1 DEF Queued, Range
<1>4. Range(<<queue[i]>> \o Cut(queue, i)) = Range(Cut(queue, i)) \cup {queue[i]}
  BY <1>2, <1>3, PrependProperties
<1> QED BY <1>2, <1>3, <1>4 DEF Queued

LEMMA FailIs ==
  ASSUME LBInv, NEW j, fail(j)
  PROVE  Queued' = Queued \ {j} /\ UNCHANGED <<target, attempts, active, issued, held>>
<1>1. CASE \E i \in DOMAIN queue : queue[i] = j /\ queue' = Cut(queue, i)
  BY <1>1, CutIs DEF fail, Queued, lbVars
<1>2. CASE j \notin Queued /\ UNCHANGED lbVars
  BY <1>2 DEF Queued, lbVars
<1> QED BY <1>1, <1>2 DEF fail, lbVars

LEMMA RequeueFrontIs ==
  ASSUME LBInv, NEW j, requeue_front(j)
  PROVE  /\ Queued' = Queued /\ UNCHANGED <<attempts, active, issued, held>>
         /\ IF j \in Queued THEN target' = [target EXCEPT ![j] = NoNode] ELSE target' = target
<1>1. CASE \E i \in DOMAIN queue : /\ queue[i] = j /\ queue' = <<j>> \o Cut(queue, i)
                                   /\ target' = [target EXCEPT ![j] = NoNode]
                                   /\ UNCHANGED <<attempts, active, issued, held>>
  <2>1. PICK i \in DOMAIN queue : queue[i] = j /\ queue' = <<j>> \o Cut(queue, i)
    BY <1>1
  <2>2. j \in Queued /\ Queued' = Queued
    BY <2>1, CutIs DEF Queued
  <2> QED BY <1>1, <2>2
<1>2. CASE j \notin Queued /\ UNCHANGED lbVars
  BY <1>2 DEF Queued, lbVars
<1> QED BY <1>1, <1>2 DEF requeue_front

LEMMA ReleaseIs ==
  ASSUME LBInv, NEW n, release_reservations_for(n)
  PROVE  /\ Queued' = Queued /\ UNCHANGED <<attempts, active, issued, held>>
         /\ \A j \in Jobs : target'[j] = IF j \in Queued /\ target[j] = n THEN NoNode ELSE target[j]
<1> DEFINE F == {i \in 1 .. Len(queue) : target[queue[i]] = n}
<1>1. PICK p \in Surjection(1 .. Len(queue), 1 .. Len(queue)) :
         /\ MovesToFront(p, F, Len(queue))
         /\ queue' = [i \in 1 .. Len(queue) |-> queue[p[i]]]
  BY DEF release_reservations_for
<1>2. queue \in Seq(Jobs) /\ NoRepeat(queue)
  BY QueueHasNoRepeat
<1> HIDE DEF F
<1>3. Range(queue') = Range(queue)
  BY <1>1, <1>2, ArrangeProperties
<1>4. Queued' = Queued
  BY <1>3 DEF Queued
<1> QED BY <1>4 DEF release_reservations_for

LEMMA EnqueueIs ==
  ASSUME LBInv, NEW j \in Jobs, enqueue_job(j, NoNode)
  PROVE  /\ Queued' = Queued \cup {j} /\ j \notin Queued /\ j \notin issued
         /\ issued' = issued \cup {j}
         /\ target' = [target EXCEPT ![j] = NoNode] /\ UNCHANGED <<attempts, active, held>>
<1>1. j \notin issued /\ j \notin Queued
  BY DEF enqueue_job, LBInv, Placement, OnlyIssued, Placed
<1>2. Queued' = Queued \cup {j}
  BY <1>1, QueueHasNoRepeat, AppendKeepsNoRepeat DEF enqueue_job, Queued
<1> QED BY <1>1, <1>2 DEF enqueue_job

LEMMA PutBackIs ==
  ASSUME LBInv, NEW j \in Running \cup Held, queue' = <<j>> \o queue
  PROVE  Queued' = Queued \cup {j} /\ j \notin Queued /\ j \in Jobs
<1>1. j \in Jobs /\ j \notin Queued
  BY DEF Running, Held, LBInv, LBTypeOK, Placement, JobPlacedOnce
<1> QED BY <1>1, QueueHasNoRepeat, PrependProperties DEF Queued

(* Who does not leave is not leaving. *)
LeavePlaces == {"leave settle", "cancel", "requeue", "cancelled", "put back", "gone", "revoke"}

LEMMA NobodyLeaving ==
  ASSUME TypedInv, "leave" \notin Ops, "kick" \notin Ops, [DispatchNext]_vars,
         \A c \in Callers : th[c].at \notin LeavePlaces
  PROVE  /\ \A c \in Callers : th'[c].at \notin LeavePlaces
         /\ \A c \in Callers, n \in Nodes : ~leave(c, n)
         /\ \A c \in Callers : /\ ~leave_settle(c) /\ ~leave_peek(c) /\ ~leave_active(c)
                               /\ ~leave_active_settle(c) /\ ~leave_inactive(c) /\ ~leave_revoke(c)
<1>1. /\ \A c \in Callers, n \in Nodes : ~leave(c, n)
      /\ \A c \in Callers : /\ ~leave_settle(c) /\ ~leave_peek(c) /\ ~leave_active(c)
                            /\ ~leave_active_settle(c) /\ ~leave_inactive(c) /\ ~leave_revoke(c)
  BY DEF leave, Enter, leave_settle, leave_peek, leave_active, leave_active_settle,
     leave_inactive, leave_revoke, LeavePlaces
<1>2. Threads
  BY Parts
<1>a. ASSUME NEW c \in Callers, NEW n, n.at \notin LeavePlaces, th' = [th EXCEPT ![c] = n]
      PROVE  \A x \in Callers : th'[x].at \notin LeavePlaces
  BY <1>2, <1>a DEF Threads
<1>b. ASSUME NEW c \in Callers, NEW place, place \notin LeavePlaces, Go(c, place) \/ Finish(c)
      PROVE  \A x \in Callers : th'[x].at \notin LeavePlaces
  <2>1. [th[c] EXCEPT !.at = place].at = place
    BY <1>2, ThreadAt DEF ThreadRec
  <2>2. IdleThread.at \notin LeavePlaces
    BY Basics DEF LeavePlaces
  <2> QED BY <1>a, <1>b, <2>1, <2>2 DEF Go, Finish
<1>3. ASSUME NEW c \in Callers,
             \/ \E j \in Jobs : post_chat(c, j)
             \/ \E h \in handed, ok \in BOOLEAN : jobs_result(c, h[1], h[2], h[3], ok)
      PROVE  \A x \in Callers : th'[x].at \notin LeavePlaces
  <2>1. PICK n : th' = [th EXCEPT ![c] = n] /\ n.at \in {"posted", "complete"}
    <3>1. ASSUME NEW j \in Jobs, post_chat(c, j)
          PROVE  \E n : th' = [th EXCEPT ![c] = n] /\ n.at \in {"posted", "complete"}
      <4>1. [IdleThread EXCEPT !.at = "posted", !.job = j].at = "posted"
        BY DEF IdleThread
      <4> QED BY <3>1, <4>1 DEF post_chat
    <3>2. ASSUME NEW h \in handed, NEW ok \in BOOLEAN, jobs_result(c, h[1], h[2], h[3], ok)
          PROVE  \E n : th' = [th EXCEPT ![c] = n] /\ n.at \in {"posted", "complete"}
      <4> DEFINE n == [IdleThread EXCEPT !.at = "complete", !.node = h[1], !.job = h[2], !.ok = ok]
      <4>1. n.at = "complete"
        BY DEF IdleThread
      <4>2. th' = [th EXCEPT ![c] = n]
        BY <3>2 DEF jobs_result
      <4> HIDE DEF n
      <4> QED BY <4>1, <4>2
    <3> QED BY <1>3, <3>1, <3>2
  <2>2. n.at \notin LeavePlaces
    BY <2>1 DEF LeavePlaces
  <2> QED BY <1>a, <2>1, <2>2
<1>4. ASSUME NEW c \in Callers,
             \/ post_chat_record(c) \/ result_complete(c) \/ result_commit(c) \/ result_count(c)
             \/ result_settle(c) \/ result_requeued(c)
      PROVE  \A x \in Callers : th'[x].at \notin LeavePlaces
  <2>1. \E place \in {"commit", "count", "settle", "requeued"} : Go(c, place) \/ Finish(c)
    BY <1>4 DEF post_chat_record, result_complete, result_commit, result_count, result_settle,
       result_requeued
  <2>2. \A place \in {"commit", "count", "settle", "requeued"} : place \notin LeavePlaces
    BY DEF LeavePlaces
  <2> QED BY <1>b, <2>1, <2>2
<1>5. CASE LoopStepOK \/ OtherStepOK \/ UNCHANGED vars
  <2>1. th' = th
    BY <1>5 DEF LoopStepOK, OtherStepOK, vars, actorVars
  <2> QED BY <1>1, <2>1
<1>6. \/ LoopStepOK \/ OtherStepOK \/ UNCHANGED vars
      \/ \E c \in Callers : \/ \E j \in Jobs : post_chat(c, j)
                            \/ \E h \in handed, ok \in BOOLEAN : jobs_result(c, h[1], h[2], h[3], ok)
                            \/ HandlerStep(c)
  <2>1. CASE \/ run_scheduler_cycle \/ SchedulerStep \/ ForecastStep \/ poll_answer
             \/ \E n \in Nodes : forecast_read(n)
             \/ \E n \in Nodes : jobs_next(n)
             \/ \E j \in Jobs : _generator_loop(j)
    BY <2>1, LoopGoesOn
  <2>2. CASE \/ \E j \in Jobs : lease_ends(j)
             \/ \E n \in Nodes : join(n) \/ nodes_ready(n)
             \/ close_begin \/ CloserStep
    BY <2>2, OtherStep
  <2> QED BY <1>1, <2>1, <2>2 DEF DispatchNext
<1> QED BY <1>1, <1>3, <1>4, <1>5, <1>6 DEF HandlerStep

-----------------------------------------------------------------------------
(* A job is reserved at most MaxAttempts times.  A node that leaves, is    *)
(* kicked or falls silent gives its jobs back whatever their attempts: the *)
(* limit is claimed of an instance without these.                          *)

NobodyVanishes == Ops \cap {"silence", "leave", "kick"} = {}

AttemptInv ==
    /\ \A j \in Pending : attempts[j] < MaxAttempts
    /\ \A j \in Jobs \ issued : attempts[j] = 0
    /\ loop.at \notin {"stale", "stale settle"}
    /\ \A c \in Callers : th[c].at \notin LeavePlaces
    /\ AttemptsLimited

(* The attempts only count up in reserve(), which the other steps spare,   *)
(* and the jobs they make pending have attempts left. *)
AttemptsStay ==
    /\ attempts' = attempts /\ issued \subseteq issued'
    /\ \A j \in Pending' : j \in Pending \/ attempts[j] < MaxAttempts

LEMMA FewerPending ==
  ASSUME UNCHANGED <<attempts, target>>, issued \subseteq issued', Queued' \subseteq Queued
  PROVE  AttemptsStay
  BY DEF AttemptsStay, Pending

LEMMA SameAttempts ==
  ASSUME TypedInv,
         \/ UNCHANGED lbVars \/ \E b \in BOOLEAN : set_accepting(b)
         \/ \E n \in Nodes, b \in BOOLEAN : set_flag(n, b)
         \/ \E n \in Claimers : claim(n) \/ cancel_active(n)
         \/ \E c \in Callers, n \in Claimers, j \in Jobs : complete(c, n, j)
         \/ \E c \in Callers : discard(c)
         \/ \E j \in Jobs : fail(j)
         \/ drain_all
  PROVE  AttemptsStay
<1>0. LBInv
  BY Parts
<1>1. CASE \/ UNCHANGED lbVars \/ \E b \in BOOLEAN : set_accepting(b)
           \/ \E n \in Nodes, b \in BOOLEAN : set_flag(n, b)
           \/ \E n \in Claimers : cancel_active(n)
           \/ \E c \in Callers, n \in Claimers, j \in Jobs : complete(c, n, j)
           \/ \E c \in Callers : discard(c)
  <2>1. UNCHANGED <<attempts, target, issued, queue>>
    BY <1>1 DEF set_accepting, set_flag, cancel_active, complete, discard, lbVars
  <2> QED BY <2>1, FewerPending DEF Queued
<1>2. ASSUME NEW n \in Claimers, claim(n)
      PROVE  AttemptsStay
  <2>1. Queued' \subseteq Queued
    BY <1>0, <1>2, ClaimIs
  <2> QED BY <1>2, <2>1, FewerPending DEF claim
<1>3. CASE \E j \in Jobs : fail(j)
  <2>1. Queued' \subseteq Queued /\ UNCHANGED <<attempts, target, issued>>
    BY <1>0, <1>3, FailIs
  <2> QED BY <2>1, FewerPending
<1>4. CASE drain_all
  <2>1. Queued' = {} /\ UNCHANGED <<attempts, target, issued>>
    BY <1>4 DEF drain_all, Queued, Range
  <2> QED BY <2>1, FewerPending
<1> QED BY <1>1, <1>2, <1>3, <1>4

(* A job that is put back or posted has attempts left. *)
LEMMA PutBackAttempts ==
  ASSUME TypedInv, NEW j \in Jobs, attempts[j] < MaxAttempts,
         UNCHANGED attempts, issued \subseteq issued', Queued' \subseteq Queued \cup {j},
         target' = [target EXCEPT ![j] = NoNode]
  PROVE  AttemptsStay
<1>1. \A i \in Jobs \ {j} : target'[i] = target[i]
  BY KeptTypes
<1>2. Queued \subseteq Jobs
  BY Parts
<1> QED BY <1>1, <1>2 DEF AttemptsStay, Pending

LEMMA ReleaseKeepsAttempts ==
  ASSUME TypedInv, NEW n \in Nodes, NEW after, after \in LoopRec, after.at = "expire",
         _release_active(n, after)
  PROVE  AttemptsStay /\ loop'.at \in {"expire", "dropped"}
<1>0. active \in [Claimers -> Jobs \cup {NoJob}] /\ n \in Claimers /\ LBInv
      /\ attempts \in [Jobs -> 0 .. AttemptCap]
  BY Parts, Basics
<1>1. CASE active[n] = NoJob
  BY <1>1, SameAttempts DEF _release_active
<1>2. CASE active[n] # NoJob
  <2> DEFINE j == active[n]
             l == [after EXCEPT !.at = "dropped", !.node = n, !.job = j, !.back = after.at]
  <2>1. /\ IF GivesUp(j) THEN cancel_active(n) ELSE requeue_active_as_pending(n)
        /\ loop' = l /\ j \in Jobs /\ j \in Running
    BY <1>0, <1>2 DEF _release_active, Running
  <2>2. l.at = "dropped"
    BY DEF LoopRec
  <2> HIDE DEF l
  <2>3. CASE cancel_active(n)
    BY <1>0, <2>1, <2>2, <2>3, SameAttempts
  <2>4. CASE ~GivesUp(j) /\ requeue_active_as_pending(n)
    <3>1. attempts[j] < MaxAttempts
      BY <1>0, <2>1, <2>4, DispatchAssumption, BalancerAssumption DEF GivesUp
    <3>2. /\ queue' = <<j>> \o queue /\ target' = [target EXCEPT ![j] = NoNode]
          /\ UNCHANGED <<attempts, issued>>
      BY <2>4 DEF requeue_active_as_pending
    <3>3. Queued' = Queued \cup {j}
      BY <1>0, <2>1, <3>2, PutBackIs
    <3>4. AttemptsStay
      BY <2>1, <3>1, <3>2, <3>3, PutBackAttempts
    <3> QED BY <2>1, <2>2, <3>4
  <2> QED BY <2>1, <2>3, <2>4
<1> QED BY <1>1, <1>2

(* The steps of the loop but reserve_node. *)
LEMMA LoopKeepsAttempts ==
  ASSUME TypedInv, AttemptInv, NobodyVanishes, ~reserve_node,
         \/ run_scheduler_cycle \/ SchedulerStep \/ ForecastStep \/ poll_answer
         \/ \E n \in Nodes : forecast_read(n)
         \/ \E n \in Nodes : jobs_next(n)
         \/ \E j \in Jobs : _generator_loop(j)
  PROVE  AttemptsStay /\ loop'.at \notin {"stale", "stale settle"}
<1>0. /\ loop \in LoopRec /\ LoopAs(loop) /\ IdleLoop \in LoopRec /\ IdleLoop.at = "idle"
      /\ loop.at = "expire" => loop.todo \in Seq(Nodes)
      /\ loop.at = "decide" => loop.node \in Nodes
      /\ loop.at = "dropped" => loop.back \in {"expire", "put"}
      /\ Nodes \subseteq Claimers /\ LBInv /\ attempts \in [Jobs -> 0 .. AttemptCap]
  BY Parts, Basics, LoopKnows DEF LoopAs
<1>a. ASSUME NEW place, LoopAt(place) \/ LoopNext(place)
      PROVE  loop'.at = place
  BY <1>0, <1>a DEF LoopAt, LoopNext, LoopRec
<1>1. CASE \/ run_scheduler_cycle \/ reap_done \/ release_done \/ schedule_done \/ choose_node
           \/ mark_failed \/ poll_answer \/ \E n \in Nodes : forecast_read(n)
  <2>1. UNCHANGED lbVars
    BY <1>1 DEF run_scheduler_cycle, reap_done, release_done, schedule_done, choose_node,
       mark_failed, poll_answer, forecast_read
  <2>2. loop'.at \in {"reap", "expire", "schedule", "reserve", "mark", "idle", "decide"}
    BY <1>0, <1>1 DEF run_scheduler_cycle, reap_done, release_done, schedule_done, choose_node,
       mark_failed, poll_answer, forecast_read, LoopNext, LoopRec
  <2> QED BY <2>1, <2>2, SameAttempts
<1>2. CASE reap_inflight \/ count_reserved \/ drop_settle \/ forecast_put
  <2>1. UNCHANGED lbVars
    BY <1>2 DEF reap_inflight, count_reserved, drop_settle, forecast_put
  <2>2. loop'.at \in {"reap job", "schedule", "expire", "put", "idle"}
    BY <1>0, <1>2, <1>a DEF reap_inflight, count_reserved, drop_settle, forecast_put
  <2> QED BY <2>1, <2>2, SameAttempts
<1>3. CASE reap_job
  <2> DEFINE j == Head(loop.todo)[1]
  <2>1. /\ loop.at = "reap job" /\ LoopNext("reap")
        /\ IF attempts[j] >= MaxAttempts THEN fail(j) ELSE requeue_front(j)
    BY <1>3 DEF reap_job
  <2>2. loop'.at = "reap"
    BY <2>1, <1>a
  <2>3. j \in Jobs
    <3>1. loop.todo \in Seq(Jobs \X Claimers) /\ loop.todo # <<>>
      BY <1>0, <2>1, LoopKnows
    <3>2. Head(loop.todo) \in Jobs \X Claimers
      BY <3>1, TailTyped
    <3> QED BY <3>2
  <2> HIDE DEF j
  <2>4. CASE fail(j)
    BY <2>2, <2>3, <2>4, SameAttempts
  <2>5. CASE ~(attempts[j] >= MaxAttempts) /\ requeue_front(j)
    <3>1. attempts[j] < MaxAttempts
      BY <1>0, <2>3, <2>5, DispatchAssumption, BalancerAssumption
    <3>2. /\ Queued' = Queued /\ UNCHANGED <<attempts, issued>>
          /\ target' = [target EXCEPT ![j] = NoNode] \/ target' = target
      BY <1>0, <2>5, RequeueFrontIs
    <3>3. AttemptsStay
      BY <2>3, <3>1, <3>2, PutBackAttempts, FewerPending
    <3> QED BY <2>2, <3>3
  <2> QED BY <2>1, <2>4, <2>5
<1>4. CASE release_expired
  <2> DEFINE n == [loop EXCEPT !.todo = Tail(loop.todo)]
  <2>1. loop.at = "expire" /\ loop.todo # <<>> /\ _release_active(Head(loop.todo), n)
    BY <1>4 DEF release_expired
  <2>2. Head(loop.todo) \in Nodes /\ Tail(loop.todo) \in Seq(Nodes)
    BY <1>0, <2>1, TailTyped
  <2>3. n \in LoopRec /\ n.at = "expire"
    BY <1>0, <2>1, <2>2 DEF LoopRec
  <2> HIDE DEF n
  <2> QED BY <2>1, <2>2, <2>3, ReleaseKeepsAttempts
<1>5. CASE forecast_decide
  <2>1. loop.at = "decide"
    BY <1>5 DEF forecast_decide
  <2>2. PICK state \in {"WARMING_UP", "READY", "AT_RISK"} :
           /\ set_flag(loop.node, state = "AT_RISK")
           /\ loop' = [loop EXCEPT !.row = Forecast(loop.row, state),
                    !.at = IF state = "STALE" THEN "stale" ELSE "put"]
    BY <1>5 DEF forecast_decide, apply_hysteresis, NobodyVanishes
  <2>3. loop'.at = "put"
    BY <1>0, <2>2 DEF LoopRec
  <2>4. (state = "AT_RISK") \in BOOLEAN /\ loop.node \in Nodes
    BY <1>0, <2>1
  <2>5. AttemptsStay
    BY <2>2, <2>4, SameAttempts
  <2> QED BY <2>3, <2>5
<1>6. ASSUME NEW m \in Nodes, jobs_next(m)
      PROVE  AttemptsStay /\ loop'.at = "claimed"
  <2>1. claim(m)
    BY <1>6 DEF jobs_next
  <2>2. loop'.at = "claimed"
    BY <1>0, <1>6 DEF jobs_next, LoopRec
  <2> QED BY <1>0, <2>1, <2>2, SameAttempts
<1>7. ASSUME NEW j \in Jobs, _generator_loop(j)
      PROVE  AttemptsStay /\ loop'.at = "idle"
  <2>1. loop.at = "idle" /\ loop' = loop /\ enqueue_job(j, NoNode)
    BY <1>7 DEF _generator_loop, actorVars
  <2>2. /\ Queued' = Queued \cup {j} /\ j \notin issued /\ issued' = issued \cup {j}
        /\ target' = [target EXCEPT ![j] = NoNode] /\ UNCHANGED attempts
    BY <1>0, <2>1, EnqueueIs
  <2>3. attempts[j] < MaxAttempts
    <3>1. attempts[j] = 0
      BY <2>2 DEF AttemptInv
    <3> QED BY <3>1, DispatchAssumption
  <2> QED BY <2>1, <2>2, <2>3, PutBackAttempts
<1>8. ~stale_release /\ ~stale_settle /\ ~stale_active
  BY DEF AttemptInv, stale_release, stale_settle, stale_active
<1> QED BY <1>1, <1>2, <1>3, <1>4, <1>5, <1>6, <1>7, <1>8 DEF SchedulerStep, ForecastStep

LEMMA ThreadKeepsAttempts ==
  ASSUME TypedInv, AttemptInv, NEW c \in Callers,
         \/ \E j \in Jobs : post_chat(c, j)
         \/ \E h \in handed, ok \in BOOLEAN : jobs_result(c, h[1], h[2], h[3], ok)
         \/ post_chat_record(c)
         \/ result_complete(c) \/ result_commit(c) \/ result_count(c)
         \/ result_settle(c) \/ result_requeued(c)
  PROVE  AttemptsStay
<1>0. /\ ThreadAs(th[c], held[c]) /\ Nodes \subseteq Claimers /\ LBInv
      /\ attempts \in [Jobs -> 0 .. AttemptCap]
  BY Parts, ThreadAt, Basics
<1>1. ASSUME NEW j \in Jobs, post_chat(c, j)
      PROVE  AttemptsStay
  <2>1. enqueue_job(j, NoNode)
    BY <1>1 DEF post_chat
  <2>2. /\ Queued' = Queued \cup {j} /\ j \notin issued /\ issued' = issued \cup {j}
        /\ target' = [target EXCEPT ![j] = NoNode] /\ UNCHANGED attempts
    BY <1>0, <2>1, EnqueueIs
  <2>3. attempts[j] < MaxAttempts
    <3>1. attempts[j] = 0
      BY <2>2 DEF AttemptInv
    <3> QED BY <3>1, DispatchAssumption
  <2> QED BY <2>1, <2>2, <2>3, PutBackAttempts
<1>2. CASE \/ \E h \in handed, ok \in BOOLEAN : jobs_result(c, h[1], h[2], h[3], ok)
           \/ post_chat_record(c) \/ result_complete(c) \/ result_commit(c) \/ result_count(c)
           \/ result_requeued(c)
  <2>1. result_complete(c) => th[c].node \in Claimers /\ th[c].job \in Jobs
    BY <1>0 DEF result_complete, ThreadAs
  <2>2. \/ UNCHANGED lbVars \/ discard(c)
        \/ result_complete(c) /\ complete(c, th[c].node, th[c].job)
    BY <1>2 DEF jobs_result, post_chat_record, result_complete, result_commit, result_count,
       result_requeued
  <2> QED BY <2>1, <2>2, SameAttempts
<1>3. CASE result_settle(c)
  <2>1. held[c] = th[c].job /\ th[c].job \in Jobs /\ held[c] # NoJob
    BY <1>0, <1>3, Basics DEF result_settle, ThreadAs
  <2>2. CASE discard(c)
    BY <2>2, SameAttempts
  <2>3. CASE Retried(c) /\ return_job_to_pending(c)
    <3> DEFINE j == held[c]
    <3>1. attempts[j] < MaxAttempts
      BY <1>0, <2>1, <2>3, DispatchAssumption, BalancerAssumption DEF GivesUp, Retried
    <3>2. /\ queue' = <<j>> \o queue /\ target' = [target EXCEPT ![j] = NoNode]
          /\ UNCHANGED <<attempts, issued>>
      BY <2>3 DEF return_job_to_pending
    <3>3. j \in Held /\ j \in Jobs
      BY <2>1 DEF Held
    <3> HIDE DEF j
    <3>4. Queued' = Queued \cup {j}
      BY <1>0, <3>2, <3>3, PutBackIs
    <3> QED BY <3>1, <3>2, <3>3, <3>4, PutBackAttempts
  <2> QED BY <1>3, <2>2, <2>3 DEF result_settle
<1> QED BY <1>1, <1>2, <1>3

LEMMA AttemptStep ==
  ASSUME TypedInv, AttemptInv, NobodyVanishes, [DispatchNext]_vars
  PROVE  AttemptInv'
<1>0. /\ attempts \in [Jobs -> 0 .. AttemptCap] /\ LBInv /\ Queued \subseteq Jobs
      /\ target \in [Jobs -> Claimers \cup {NoNode}]
  BY Parts, KeptTypes
<1>1. /\ \A c \in Callers : th'[c].at \notin LeavePlaces
      /\ \A c \in Callers, n \in Nodes : ~leave(c, n)
      /\ \A c \in Callers : /\ ~leave_settle(c) /\ ~leave_peek(c) /\ ~leave_active(c)
                            /\ ~leave_active_settle(c) /\ ~leave_inactive(c) /\ ~leave_revoke(c)
  <2>1. "leave" \notin Ops /\ "kick" \notin Ops
    BY DEF NobodyVanishes
  <2> QED BY <2>1, NobodyLeaving DEF AttemptInv
<1>2. CASE AttemptsStay /\ loop'.at \notin {"stale", "stale settle"}
  BY <1>1, <1>2 DEF AttemptInv, AttemptsStay, AttemptsLimited
<1>3. CASE reserve_node
  <2> DEFINE j == loop.job
  <2>1. loop.at = "reserve" /\ loop \in LoopRec
    BY <1>3, Parts DEF reserve_node
  <2>2. loop'.at \in {"reserved", "schedule"}
    BY <1>3, <2>1 DEF reserve_node, LoopAt, LoopNext, LoopRec
  <2>3. CASE UNCHANGED lbVars
    BY <1>2, <2>2, <2>3, SameAttempts
  <2>4. CASE reserve(j, loop.node)
    <3>1. /\ j \in Pending /\ target' = [target EXCEPT ![j] = loop.node]
          /\ attempts' = [attempts EXCEPT ![j] = attempts[j] + 1]
          /\ UNCHANGED <<queue, issued>>
      BY <2>4 DEF reserve
    <3>2. /\ j \in Jobs /\ j \in issued /\ attempts[j] < MaxAttempts
          /\ loop.node \in Nodes
      BY <1>0, <2>1, <3>1, Parts, LoopKnows
         DEF Pending, AttemptInv, LBInv, Placement, OnlyIssued, Placed
    <3>3. /\ \A i \in Jobs : attempts'[i] = IF i = j THEN attempts[j] + 1 ELSE attempts[i]
          /\ \A i \in Jobs : target'[i] = IF i = j THEN loop.node ELSE target[i]
      BY <1>0, <3>1, <3>2
    <3>4. loop.node # NoNode
      BY <3>2, Basics
    <3>5. \A i \in Pending' : i \in Pending /\ i # j /\ i \in Jobs
      BY <1>0, <3>1, <3>3, <3>4 DEF Pending, Queued
    <3>6. attempts[j] + 1 <= MaxAttempts
      BY <1>0, <3>2, DispatchAssumption, BalancerAssumption
    <3>7. \A i \in Pending' : attempts'[i] < MaxAttempts
      BY <3>3, <3>5 DEF AttemptInv
    <3>8. \A i \in Jobs \ issued' : attempts'[i] = 0
      BY <3>1, <3>2, <3>3 DEF AttemptInv
    <3>9. AttemptsLimited'
      BY <3>3, <3>6 DEF AttemptInv, AttemptsLimited
    <3>10. loop'.at \notin {"stale", "stale settle"}
      BY <2>2
    <3> QED BY <1>1, <3>7, <3>8, <3>9, <3>10 DEF AttemptInv
  <2> QED BY <1>3, <2>3, <2>4 DEF reserve_node
<1>4. CASE /\ ~reserve_node
           /\ \/ run_scheduler_cycle \/ SchedulerStep \/ ForecastStep \/ poll_answer
              \/ \E n \in Nodes : forecast_read(n)
              \/ \E n \in Nodes : jobs_next(n)
              \/ \E j \in Jobs : _generator_loop(j)
  BY <1>2, <1>4, LoopKeepsAttempts
<1>5. CASE \/ \E c \in Callers, j \in Jobs : post_chat(c, j)
           \/ \E c \in Callers, h \in handed, ok \in BOOLEAN : jobs_result(c, h[1], h[2], h[3], ok)
           \/ \E c \in Callers : HandlerStep(c)
  <2>1. loop' = loop
    BY <1>5, ThreadStep DEF ThreadStepOK
  <2>2. AttemptsStay
    BY <1>1, <1>5, ThreadKeepsAttempts DEF HandlerStep
  <2> QED BY <1>2, <2>1, <2>2 DEF AttemptInv
<1>6. CASE \/ \E j \in Jobs : lease_ends(j)
           \/ \E n \in Nodes : join(n)
           \/ \E n \in Nodes : nodes_ready(n)
           \/ close_begin \/ CloserStep \/ UNCHANGED vars
  <2>1. /\ loop' = loop
        /\ UNCHANGED lbVars \/ drain_all \/ \E b \in BOOLEAN : set_accepting(b)
    BY <1>6 DEF lease_ends, join, nodes_ready, close_begin, CloserStep, close_stop,
       close_inactive, close_drain, close_chats, close_revoke, close_reopen, actorVars, vars
  <2>2. AttemptsStay
    BY <2>1, SameAttempts
  <2> QED BY <1>2, <2>1, <2>2 DEF AttemptInv
<1> QED BY <1>1, <1>3, <1>4, <1>5, <1>6 DEF DispatchNext

(* No job is tried more than MaxAttempts times, although the reaper, the   *)
(* expiry of running jobs and failed answers each put jobs back.           *)
THEOREM AttemptsHold == ASSUME NobodyVanishes PROVE DispatchSpec => []AttemptsLimited
<1>1. DispatchInit => AttemptInv
  <2> SUFFICES ASSUME DispatchInit PROVE AttemptInv
    OBVIOUS
  <2>1. /\ queue = <<>> /\ loop.at = "idle" /\ \A c \in Callers : th[c].at = "idle"
        /\ \A j \in Jobs : attempts[j] = 0
    BY Basics DEF DispatchInit, LBInit
  <2>2. Pending = {}
    BY <2>1 DEF Pending, Queued, Range
  <2>3. AttemptsLimited
    BY <2>1, DispatchAssumption DEF AttemptsLimited
  <2>4. \A c \in Callers : th[c].at \notin LeavePlaces
    BY <2>1 DEF LeavePlaces
  <2> QED BY <2>1, <2>2, <2>3, <2>4 DEF AttemptInv
<1>2. TypedInv /\ AttemptInv /\ [DispatchNext]_vars => AttemptInv'
  BY AttemptStep, NobodyVanishes
<1>3. AttemptInv => AttemptsLimited
  BY DEF AttemptInv
<1> QED BY <1>1, <1>2, <1>3, TypedAlways, PTL DEF DispatchSpec

-----------------------------------------------------------------------------
(* The counters.  A node that leaves and a closing room reset a counter    *)
(* others are about to move: what follows is claimed of an instance where  *)
(* nobody leaves.                                                          *)

NobodyLeaves == Ops \cap {"leave", "kick", "close"} = {}

(* What makes up a node's account: the jobs reserved for it, the job it    *)
(* runs, the threads about to count an answer down, and what the loop with *)
(* the locals l is about to count up and to count down.                    *)
For(n) == {j \in Queued : target[j] = n}
Busy(n) == IF active[n] = NoJob THEN 0 ELSE 1
Hands(n) == {c \in Callers : th[c].at \in {"commit", "count"} /\ th[c].node = n}
Up(l, n) ==
    IF \/ l.at = "reserved" /\ l.node = n
       \/ l.at = "reap job" /\ Head(l.todo)[2] = n THEN 1 ELSE 0
Over(l, n) ==
    IF l.at = "dropped" /\ l.node = n THEN 1
    ELSE IF l.at = "stale settle" /\ l.node = n THEN Len(l.todo) ELSE 0

Even(n) == cache[n].inflight + Up(loop, n)
             = Cardinality(For(n)) + Busy(n) + Over(loop, n) + Cardinality(Hands(n))
One(n) == Cardinality(For(n)) + Busy(n) <= 1

(* The reservations the reaper saw expire are still where it saw them.     *)
ReapsWhatItSaw ==
    loop.at \in {"reap", "reap job"} =>
      \A i, k \in DOMAIN loop.todo :
        /\ loop.todo[i][1] \in Queued /\ target[loop.todo[i][1]] = loop.todo[i][2]
        /\ loop.todo[i][1] = loop.todo[k][1] => i = k

(* The accounts are even, no node has two jobs, and what the loop has in   *)
(* hand is as it saw it: the node it reserves for has nothing counted.     *)
CountInv ==
    /\ \A n \in Nodes : Even(n) /\ One(n)
    /\ ReapsWhatItSaw
    /\ loop.at = "reserve" => cache[loop.node].inflight = 0
    /\ loop.at = "reserved" => loop.job \in For(loop.node)
    /\ closer = "none" /\ member = Nodes
    /\ \A c \in Callers : th[c].at \notin LeavePlaces

(* Every part of an account is a number. *)
LEMMA AccountTypes ==
  ASSUME TypedInv, NEW n \in Nodes
  PROVE  /\ cache[n].inflight \in Nat /\ IsFiniteSet(For(n)) /\ Cardinality(For(n)) \in Nat
         /\ Busy(n) \in 0 .. 1 /\ IsFiniteSet(Hands(n)) /\ Cardinality(Hands(n)) \in Nat
         /\ Up(loop, n) \in 0 .. 1 /\ Over(loop, n) \in Nat /\ For(n) \subseteq Queued
<1>1. cache[n].inflight \in Nat
  BY Parts, RowFields
<1>2. IsFiniteSet(For(n)) /\ Cardinality(For(n)) \in Nat
  <2>1. For(n) \in SUBSET Queued
    BY DEF For
  <2> QED BY <2>1, Parts, QueuedFinite, FS_CardinalityType
<1>3. IsFiniteSet(Hands(n)) /\ Cardinality(Hands(n)) \in Nat
  <2>1. Hands(n) \in SUBSET Callers
    BY DEF Hands
  <2> QED BY <2>1, DispatchAssumption, FS_Subset, FS_CardinalityType
<1>4. Over(loop, n) \in Nat
  <2>1. ASSUME loop.at = "stale settle"
        PROVE  Len(loop.todo) \in Nat
    <3>1. loop.todo \in Seq(Jobs)
      BY <2>1, Parts, LoopKnows
    <3> QED BY <3>1
  <2> QED BY <2>1 DEF Over
<1> QED BY <1>1, <1>2, <1>3, <1>4 DEF Busy, Up, For

(* Elsewhere the loop owes the counters nothing. *)
LEMMA DuesAre ==
  ASSUME NEW l, NEW n
  PROVE  /\ l.at \notin {"reserved", "reap job"} => Up(l, n) = 0
         /\ l.at \notin {"dropped", "stale settle"} => Over(l, n) = 0
         /\ l.at = "reserved" => Up(l, n) = IF l.node = n THEN 1 ELSE 0
         /\ l.at = "reap job" => Up(l, n) = IF Head(l.todo)[2] = n THEN 1 ELSE 0
         /\ l.at = "dropped" => Over(l, n) = IF l.node = n THEN 1 ELSE 0
         /\ l.at = "stale settle" => Over(l, n) = IF l.node = n THEN Len(l.todo) ELSE 0
  BY DEF Up, Over

(* A new or returned job without a node concerns no node's account, and no *)
(* job is in doubt.                                                        *)
LEMMA PutBackFor ==
  ASSUME TypedInv, NEW j \in Jobs, j \notin Queued, Queued' = Queued \cup {j},
         target' = [target EXCEPT ![j] = NoNode]
  PROVE  /\ \A n \in Nodes : For(n)' = For(n)
         /\ \A i \in Queued : target'[i] = target[i] /\ i \in Queued'
<1>1. /\ target'[j] = NoNode /\ NoNode \notin Nodes
      /\ \A i \in Queued : target'[i] = target[i] /\ i \in Queued'
  BY KeptTypes, Parts, Basics
<1> QED BY <1>1 DEF For

(* A queued job that is given up or put back is its node's no more. *)
LEMMA LessFor ==
  ASSUME TypedInv, NEW j \in Queued,
         \/ Queued' = Queued \ {j} /\ target' = target
         \/ Queued' = Queued /\ target' = [target EXCEPT ![j] = NoNode]
  PROVE  /\ \A n \in Nodes :
              Cardinality(For(n)') = Cardinality(For(n)) - (IF target[j] = n THEN 1 ELSE 0)
         /\ \A i \in Queued \ {j} : target'[i] = target[i] /\ i \in Queued'
<1>1. \A i \in Queued \ {j} : target'[i] = target[i] /\ i \in Queued'
  BY KeptTypes, Parts
<1>2. j \notin Queued' \/ target'[j] = NoNode
  BY KeptTypes, Parts
<1>3. Queued' \subseteq Queued
  OBVIOUS
<1>4. ASSUME NEW n \in Nodes
      PROVE  Cardinality(For(n)') = Cardinality(For(n)) - (IF target[j] = n THEN 1 ELSE 0)
  <2>1. For(n)' = For(n) \ {j}
    BY <1>1, <1>2, <1>3, Basics DEF For
  <2>2. IsFiniteSet(For(n)) /\ (target[j] = n <=> j \in For(n)) /\ Cardinality(For(n)) \in Nat
    BY AccountTypes DEF For
  <2>3. Cardinality(For(n) \ {j}) = IF j \in For(n) THEN Cardinality(For(n)) - 1
                                                    ELSE Cardinality(For(n))
    BY <2>2, FS_RemoveElement
  <2> QED BY <2>1, <2>2, <2>3
<1> QED BY <1>1, <1>4

Counted ==
    /\ \A n \in Nodes : Even(n)' /\ One(n)'
    /\ ReapsWhatItSaw'
    /\ loop'.at = "reserve" => cache'[loop'.node].inflight = 0
    /\ loop'.at = "reserved" => (loop.job \in For(loop.node))'

Moving == {"reserved", "reap job", "dropped", "stale settle"}

(* A step of the loop that moves no job of a node and no counter. *)
LEMMA NothingMoves ==
  ASSUME TypedInv, CountInv, th' = th, loop.at \notin Moving, loop'.at \notin Moving,
         \A n \in Nodes : /\ cache'[n].inflight = cache[n].inflight
                          /\ For(n)' = For(n) /\ active'[n] = active[n]
  PROVE  \A n \in Nodes : Even(n)' /\ One(n)'
<1> SUFFICES ASSUME NEW n \in Nodes PROVE Even(n)' /\ One(n)'
  OBVIOUS
<1>1. /\ Up(loop, n) = 0 /\ Over(loop, n) = 0 /\ Up(loop', n) = 0 /\ Over(loop', n) = 0
  BY DuesAre DEF Moving
<1>2. Hands(n)' = Hands(n) /\ Busy(n)' = Busy(n)
  BY DEF Hands, Busy
<1>3. Even(n) /\ One(n)
  BY DEF CountInv
<1> QED BY <1>1, <1>2, <1>3 DEF Even, One

(* What a place and a list of locals are worth when the loop moves on. *)
LEMMA LoopLocals ==
  ASSUME NEW l \in LoopRec, NEW place, loop = l
  PROVE  /\ LoopAt(place) => /\ loop'.at = place /\ loop'.todo = l.todo /\ loop'.node = l.node
                             /\ loop'.job = l.job
         /\ LoopNext(place) => /\ loop'.at = place /\ loop'.todo = Tail(l.todo)
                               /\ loop'.node = l.node /\ loop'.job = l.job
  BY DEF LoopAt, LoopNext, LoopRec

LEMMA QuietCounts ==
  ASSUME TypedInv, CountInv,
         \/ reap_done \/ release_done \/ choose_node \/ schedule_done \/ mark_failed
         \/ poll_answer \/ forecast_decide \/ forecast_put
         \/ \E n \in Nodes : forecast_read(n)
         \/ \E j \in Jobs : _generator_loop(j)
  PROVE  Counted
<1>0. /\ loop \in LoopRec /\ LoopAs(loop) /\ IdleLoop \in LoopRec /\ IdleLoop.at = "idle"
      /\ CacheOK /\ LBInv
  BY Parts, Basics
<1>1. CASE \/ reap_done \/ release_done \/ choose_node \/ schedule_done \/ mark_failed
           \/ poll_answer \/ \E n \in Nodes : forecast_read(n)
  <2>1. UNCHANGED <<lbVars, th, cache>>
    BY <1>1 DEF reap_done, release_done, schedule_done, choose_node, mark_failed, poll_answer,
       forecast_read, tableVars
  <2>2. \A n \in Nodes : /\ cache'[n].inflight = cache[n].inflight
                         /\ For(n)' = For(n) /\ active'[n] = active[n]
    BY <2>1 DEF lbVars, For, Queued
  <2>3. /\ loop.at \in {"reap", "expire", "schedule", "mark", "claimed", "idle"}
        /\ loop'.at \in {"expire", "schedule", "reserve", "mark", "idle", "decide"}
    BY <1>0, <1>1 DEF reap_done, release_done, schedule_done, choose_node,
       mark_failed, poll_answer, forecast_read, LoopNext, LoopRec
  <2>4. \A n \in Nodes : Even(n)' /\ One(n)'
    BY <2>1, <2>2, <2>3, NothingMoves DEF Moving
  <2>5. loop'.at = "reserve" => cache'[loop'.node].inflight = 0
    <3>1. SUFFICES ASSUME loop'.at = "reserve" PROVE cache'[loop'.node].inflight = 0
      OBVIOUS
    <3>2. choose_node
      BY <1>0, <1>1, <3>1 DEF reap_done, release_done, schedule_done, mark_failed, poll_answer,
         forecast_read, LoopRec
    <3>3. PICK n \in filter_candidates(Head(loop.todo)) :
             loop' = [loop EXCEPT !.at = "reserve", !.node = n, !.job = Head(loop.todo)]
      BY <1>0, <3>1, <3>2 DEF choose_node, LoopNext, LoopRec
    <3>4. loop'.node = n /\ n \in Nodes /\ cache[n].inflight < 1
      BY <1>0, <3>3 DEF filter_candidates, LoopRec, MaxConcurrent
    <3>5. cache[n].inflight \in Nat
      BY <1>0, <3>4, RowFields
    <3> QED BY <2>1, <3>4, <3>5
  <2> QED BY <2>3, <2>4, <2>5 DEF Counted, ReapsWhatItSaw
<1>2. CASE forecast_decide
  <2>0. loop.at = "decide" /\ UNCHANGED <<th, cache>>
    BY <1>2 DEF forecast_decide, tableVars
  <2>1. PICK state :
           /\ loop' = [loop EXCEPT !.row = Forecast(loop.row, state),
                        !.at = IF state = "STALE" THEN "stale" ELSE "put"]
           /\ set_flag(loop.node, state = "AT_RISK")
    BY <1>2 DEF forecast_decide
  <2>2. loop'.at \in {"stale", "put"}
    BY <1>0, <2>1 DEF LoopRec
  <2>3. \A m \in Nodes : /\ cache'[m].inflight = cache[m].inflight
                         /\ For(m)' = For(m) /\ active'[m] = active[m]
    BY <2>0, <2>1 DEF set_flag, For, Queued
  <2>4. \A m \in Nodes : Even(m)' /\ One(m)'
    BY <2>0, <2>2, <2>3, NothingMoves DEF Moving
  <2> QED BY <2>2, <2>4 DEF Counted, ReapsWhatItSaw
<1>3. CASE forecast_put
  <2>1. /\ loop.at = "put" /\ put(loop.node, loop.row) /\ loop' = IdleLoop
        /\ UNCHANGED <<lbVars, th>>
    BY <1>3 DEF forecast_put
  <2>2. loop.node \in Nodes /\ loop.row \in Rows
    BY <1>0, <2>1, LoopKnows
  <2>3. \A m \in Nodes : cache'[m].inflight = cache[m].inflight
    BY <1>0, <2>1, <2>2, PutRow DEF OthersKept
  <2>4. \A m \in Nodes : For(m)' = For(m) /\ active'[m] = active[m]
    BY <2>1 DEF lbVars, For, Queued
  <2>5. \A m \in Nodes : Even(m)' /\ One(m)'
    BY <1>0, <2>1, <2>3, <2>4, NothingMoves DEF Moving
  <2> QED BY <1>0, <2>1, <2>5 DEF Counted, ReapsWhatItSaw
<1>4. ASSUME NEW j \in Jobs, _generator_loop(j)
      PROVE  Counted
  <2>1. /\ loop.at = "idle" /\ enqueue_job(j, NoNode) /\ UNCHANGED <<loop, th, cache>>
    BY <1>4 DEF _generator_loop, tableVars, actorVars
  <2>2. (\A m \in Nodes : For(m)' = For(m)) /\ active' = active
    BY <1>0, <2>1, EnqueueIs, PutBackFor
  <2>3. \A m \in Nodes : Even(m)' /\ One(m)'
    BY <2>1, <2>2, NothingMoves DEF Moving
  <2> QED BY <2>1, <2>3 DEF Counted, ReapsWhatItSaw
<1> QED BY <1>1, <1>2, <1>3, <1>4

(* The reaper takes its list: reserved jobs, each once, with their nodes.  *)
LEMMA CycleCounts ==
  ASSUME TypedInv, CountInv, run_scheduler_cycle
  PROVE  Counted
<1>0. /\ loop \in LoopRec /\ queue \in Seq(Jobs)
      /\ target \in [Jobs -> Claimers \cup {NoNode}] /\ Queued \subseteq Jobs
  BY Parts, KeptTypes
<1> DEFINE S == Reserved \cap lapsed
<1>1. PICK p \in Snapshots(S) :
         loop' = [loop EXCEPT !.at = "reap", !.live = Queued,
                    !.todo = [i \in DOMAIN p |-> <<p[i], target[p[i]]>>]]
  BY DEF run_scheduler_cycle
<1>2. loop.at = "idle" /\ UNCHANGED <<lbVars, th, cache>>
  BY DEF run_scheduler_cycle, tableVars
<1>3. S \in SUBSET Queued
  BY DEF Reserved
<1>4. /\ p \in [1 .. Cardinality(S) -> S] /\ Cardinality(S) \in Nat
      /\ \A i, k \in 1 .. Cardinality(S) : p[i] = p[k] => i = k
  BY <1>0, <1>1, <1>3, SnapshotTyped
<1>5. loop'.at = "reap" /\ loop'.todo = [i \in 1 .. Cardinality(S) |-> <<p[i], target[p[i]]>>]
  BY <1>0, <1>1, <1>4 DEF LoopRec
<1>6. ReapsWhatItSaw'
  <2>1. queue' = queue /\ target' = target /\ Queued' = Queued
    BY <1>2 DEF lbVars, Queued
  <2>2. \A i \in 1 .. Cardinality(S) : p[i] \in Queued
    BY <1>3, <1>4
  <2>3. \A i \in 1 .. Cardinality(S) : loop'.todo[i][1] = p[i] /\ loop'.todo[i][2] = target[p[i]]
    BY <1>5
  <2>4. DOMAIN loop'.todo = 1 .. Cardinality(S)
    BY <1>5
  <2> HIDE DEF S
  <2>5. ASSUME NEW i \in 1 .. Cardinality(S), NEW k \in 1 .. Cardinality(S)
        PROVE  /\ loop'.todo[i][1] \in Queued' /\ target'[loop'.todo[i][1]] = loop'.todo[i][2]
               /\ loop'.todo[i][1] = loop'.todo[k][1] => i = k
    BY <1>4, <2>1, <2>2, <2>3
  <2> QED BY <2>4, <2>5 DEF ReapsWhatItSaw
<1>7. \A n \in Nodes : /\ cache'[n].inflight = cache[n].inflight
                       /\ For(n)' = For(n) /\ active'[n] = active[n]
  BY <1>2 DEF lbVars, For, Queued
<1>8. \A n \in Nodes : Even(n)' /\ One(n)'
  BY <1>2, <1>5, <1>7, NothingMoves DEF Moving
<1> QED BY <1>5, <1>6, <1>8 DEF Counted

LEMMA HeadIs ==
  ASSUME NEW S, NEW s \in Seq(S), s # <<>>
  PROVE  Head(s) = s[1] /\ 1 \in DOMAIN s
  OBVIOUS

LEMMA TailShorter ==
  ASSUME NEW S, NEW s \in Seq(S), s # <<>>
  PROVE  Len(Tail(s)) \in Nat /\ Len(s) = Len(Tail(s)) + 1
  OBVIOUS

LEMMA TailIs ==
  ASSUME NEW S, NEW s \in Seq(S), s # <<>>, NEW i \in DOMAIN Tail(s)
  PROVE  Tail(s)[i] = s[i + 1] /\ i + 1 \in DOMAIN s /\ i + 1 # 1 /\ i \in Nat
<1>1. DOMAIN Tail(s) = 1 .. (Len(s) - 1) /\ Len(s) \in Nat /\ DOMAIN s = 1 .. Len(s)
  OBVIOUS
<1> QED BY <1>1

(* An expired reservation is counted down, then given up or put back.      *)
LEMMA ReapCounts ==
  ASSUME TypedInv, CountInv, reap_inflight \/ reap_job
  PROVE  Counted
<1> DEFINE e == Head(loop.todo)
<1>0. /\ loop \in LoopRec /\ loop.at \in {"reap", "reap job"} /\ CacheOK /\ LBInv
      /\ loop.todo \in Seq(Jobs \X Claimers) /\ loop.todo # <<>> /\ th' = th
  BY Parts, LoopKnows DEF reap_inflight, reap_job
<1>1. e[1] \in Queued /\ target[e[1]] = e[2] /\ e = loop.todo[1] /\ 1 \in DOMAIN loop.todo
  <2>1. e = loop.todo[1] /\ 1 \in DOMAIN loop.todo
    BY <1>0, HeadIs DEF e
  <2> HIDE DEF e
  <2> QED BY <1>0, <2>1 DEF CountInv, ReapsWhatItSaw
<1>2. \A n \in Nodes : Hands(n)' = Hands(n)
  BY <1>0 DEF Hands
<1> HIDE DEF e
<1>3. CASE reap_inflight
  <2>1. /\ loop.at = "reap" /\ DecInflight(e[2]) /\ LoopAt("reap job")
        /\ UNCHANGED <<lbVars, th>>
    BY <1>3 DEF reap_inflight, e
  <2>2. loop'.at = "reap job" /\ loop'.todo = loop.todo
    BY <1>0, <2>1, LoopLocals
  <2>3. ReapsWhatItSaw'
    <3>1. Queued' = Queued /\ target' = target
      BY <2>1 DEF Queued, lbVars
    <3>2. loop.at \in {"reap", "reap job"}
      BY <2>1
    <3>3. ReapsWhatItSaw
      BY DEF CountInv
    <3>4. \A i, k \in DOMAIN loop.todo :
            /\ loop.todo[i][1] \in Queued' /\ target'[loop.todo[i][1]] = loop.todo[i][2]
            /\ loop.todo[i][1] = loop.todo[k][1] => i = k
      BY <3>1, <3>2, <3>3 DEF ReapsWhatItSaw
    <3>5. ASSUME NEW i \in DOMAIN loop'.todo, NEW k \in DOMAIN loop'.todo
          PROVE  /\ loop'.todo[i][1] \in Queued' /\ target'[loop'.todo[i][1]] = loop'.todo[i][2]
                 /\ loop'.todo[i][1] = loop'.todo[k][1] => i = k
      BY <2>2, <3>4
    <3> QED BY <3>5 DEF ReapsWhatItSaw
  <2>4. ASSUME NEW n \in Nodes PROVE Even(n)' /\ One(n)'
    <3>1. For(n)' = For(n) /\ Busy(n)' = Busy(n)
      BY <2>1 DEF lbVars, For, Queued, Busy
    <3>2. /\ Up(loop, n) = 0 /\ Over(loop, n) = 0 /\ Over(loop', n) = 0
          /\ Up(loop', n) = IF e[2] = n THEN 1 ELSE 0
      BY <2>1, <2>2, DuesAre DEF e
    <3>3. Even(n) /\ One(n)
      BY DEF CountInv
    <3>4. CASE e[2] = n
      <4>1. e[1] \in For(n) /\ Cardinality(For(n)) # 0
        BY <1>1, <3>4, AccountTypes, FS_EmptySet DEF For
      <4>2. cache[n].inflight > 0
        BY <3>2, <3>3, <4>1, AccountTypes DEF Even
      <4>3. cache'[n].inflight = cache[n].inflight - 1
        BY <1>0, <2>1, <3>4, <4>2, CountDown
      <4> QED BY <1>2, <3>1, <3>2, <3>3, <3>4, <4>3, AccountTypes DEF Even, One
    <3>5. CASE e[2] # n
      <4>1. cache'[n] = cache[n]
        BY <1>0, <2>1, <3>5 DEF DecInflight, CacheOK
      <4> QED BY <1>2, <3>1, <3>2, <3>3, <3>5, <4>1 DEF Even, One
    <3> QED BY <3>4, <3>5
  <2> QED BY <2>2, <2>3, <2>4 DEF Counted
<1>4. CASE reap_job
  <2>1. /\ loop.at = "reap job"
        /\ fail(e[1]) \/ requeue_front(e[1])
        /\ LoopNext("reap") /\ UNCHANGED cache
    BY <1>4 DEF reap_job, e, tableVars
  <2>2. loop'.at = "reap" /\ loop'.todo = Tail(loop.todo)
    BY <1>0, <2>1, LoopLocals
  <2>3. /\ active' = active
        /\ \/ Queued' = Queued \ {e[1]} /\ target' = target
           \/ Queued' = Queued /\ target' = [target EXCEPT ![e[1]] = NoNode]
    BY <1>0, <1>1, <2>1, FailIs, RequeueFrontIs
  <2>4. /\ \A n \in Nodes :
             Cardinality(For(n)') = Cardinality(For(n)) - (IF target[e[1]] = n THEN 1 ELSE 0)
        /\ \A i \in Queued \ {e[1]} : target'[i] = target[i] /\ i \in Queued'
    BY <1>1, <2>3, LessFor
  <2>5. ReapsWhatItSaw'
    <3>1. \A i \in DOMAIN loop'.todo :
             loop'.todo[i] = loop.todo[i + 1] /\ i + 1 \in DOMAIN loop.todo /\ i + 1 # 1
             /\ i \in Nat
      BY <1>0, <2>2, TailIs
    <3>2. \A i \in DOMAIN loop.todo : i # 1 =>
             /\ loop.todo[i][1] \in Queued \ {e[1]} /\ target[loop.todo[i][1]] = loop.todo[i][2]
      BY <1>0, <1>1 DEF CountInv, ReapsWhatItSaw
    <3>3. \A i, k \in DOMAIN loop.todo : loop.todo[i][1] = loop.todo[k][1] => i = k
      BY <1>0 DEF CountInv, ReapsWhatItSaw
    <3>4. ASSUME NEW i \in DOMAIN loop'.todo, NEW k \in DOMAIN loop'.todo
          PROVE  /\ loop'.todo[i][1] \in Queued' /\ target'[loop'.todo[i][1]] = loop'.todo[i][2]
                 /\ loop'.todo[i][1] = loop'.todo[k][1] => i = k
      <4>1. /\ loop'.todo[i][1] \in Queued' /\ target'[loop'.todo[i][1]] = loop'.todo[i][2]
        BY <2>4, <3>1, <3>2
      <4>2. loop'.todo[i][1] = loop'.todo[k][1] => i + 1 = k + 1
        BY <3>1, <3>3
      <4> QED BY <3>1, <4>1, <4>2
    <3> QED BY <3>4 DEF ReapsWhatItSaw
  <2>6. ASSUME NEW n \in Nodes PROVE Even(n)' /\ One(n)'
    <3>1. /\ Up(loop', n) = 0 /\ Over(loop, n) = 0 /\ Over(loop', n) = 0
          /\ Up(loop, n) = IF e[2] = n THEN 1 ELSE 0
      BY <2>1, <2>2, DuesAre DEF e
    <3>2. Busy(n)' = Busy(n) /\ cache' = cache
      BY <2>1, <2>3 DEF Busy
    <3>3. Even(n) /\ One(n)
      BY DEF CountInv
    <3>4. CASE e[2] = n
      BY <1>1, <1>2, <2>4, <3>1, <3>2, <3>3, <3>4, AccountTypes DEF Even, One
    <3>5. CASE e[2] # n
      BY <1>1, <1>2, <2>4, <3>1, <3>2, <3>3, <3>5, AccountTypes DEF Even, One
    <3> QED BY <3>4, <3>5
  <2> QED BY <2>2, <2>5, <2>6 DEF Counted
<1> QED BY <1>3, <1>4

(* The running job of a node is dropped: the loop owes its counter one.    *)
LEMMA DropCounts ==
  ASSUME TypedInv, CountInv, NEW n \in Nodes, NEW after, after \in LoopRec,
         after.at \in {"expire", "put"}, _release_active(n, after), UNCHANGED <<th, cache>>,
         \A m \in Nodes : Up(loop, m) = 0 /\ Over(loop, m) = 0
  PROVE  Counted
<1>0. /\ active \in [Claimers -> Jobs \cup {NoJob}] /\ Nodes \subseteq Claimers /\ n \in Claimers
      /\ LBInv
  BY Parts, Basics
<1>1. \A m \in Nodes : Hands(m)' = Hands(m) /\ Even(m) /\ One(m)
  BY DEF Hands, CountInv
<1>2. CASE active[n] = NoJob
  <2>1. loop' = after /\ UNCHANGED lbVars
    BY <1>2 DEF _release_active
  <2>2. ASSUME NEW m \in Nodes PROVE Even(m)' /\ One(m)'
    <3>1. Up(loop', m) = 0 /\ Over(loop', m) = 0
      BY <2>1, DuesAre
    <3>2. For(m)' = For(m) /\ Busy(m)' = Busy(m)
      BY <2>1 DEF lbVars, For, Queued, Busy
    <3> QED BY <1>1, <3>1, <3>2 DEF Even, One
  <2> QED BY <2>1, <2>2 DEF Counted, ReapsWhatItSaw
<1>3. CASE active[n] # NoJob
  <2> DEFINE j == active[n]
             l == [after EXCEPT !.at = "dropped", !.node = n, !.job = j, !.back = after.at]
  <2>1. (cancel_active(n) \/ requeue_active_as_pending(n)) /\ loop' = l
    BY <1>3 DEF _release_active
  <2>2. l.at = "dropped" /\ l.node = n
    BY DEF LoopRec
  <2> HIDE DEF l
  <2>3. active' = [active EXCEPT ![n] = NoJob]
    BY <2>1 DEF cancel_active, requeue_active_as_pending
  <2>4. \A m \in Nodes : For(m)' = For(m)
    <3>1. CASE cancel_active(n)
      BY <3>1 DEF cancel_active, For, Queued
    <3>2. CASE requeue_active_as_pending(n)
      <4>1. queue' = <<j>> \o queue /\ target' = [target EXCEPT ![j] = NoNode]
        BY <3>2 DEF requeue_active_as_pending
      <4>2. j \in Running
        BY <1>0, <1>3 DEF Running
      <4> HIDE DEF j
      <4>3. Queued' = Queued \cup {j} /\ j \notin Queued /\ j \in Jobs
        BY <1>0, <4>1, <4>2, PutBackIs
      <4> QED BY <4>1, <4>3, PutBackFor
    <3> QED BY <2>1, <3>1, <3>2
  <2>5. ASSUME NEW m \in Nodes PROVE Even(m)' /\ One(m)'
    <3>1. Up(loop', m) = 0 /\ Over(loop', m) = IF n = m THEN 1 ELSE 0
      BY <2>1, <2>2, DuesAre
    <3>2. CASE m = n
      <4>1. Busy(m)' = 0 /\ Busy(m) = 1
        BY <1>0, <1>3, <2>3, <3>2 DEF Busy
      <4> QED BY <1>1, <2>4, <3>1, <3>2, <4>1, AccountTypes DEF Even, One
    <3>3. CASE m # n
      <4>1. Busy(m)' = Busy(m)
        BY <1>0, <2>3, <3>3 DEF Busy
      <4> QED BY <1>1, <2>4, <3>1, <3>3, <4>1 DEF Even, One
    <3> QED BY <3>2, <3>3
  <2> QED BY <2>1, <2>2, <2>5 DEF Counted, ReapsWhatItSaw
<1> QED BY <1>2, <1>3

(* One count less where the loop owed one. *)
LEMMA OweOne ==
  ASSUME TypedInv, CountInv, NEW n \in Nodes, DecInflight(n), UNCHANGED <<lbVars, th>>,
         \A m \in Nodes : Up(loop, m) = 0 /\ Up(loop', m) = 0,
         \A m \in Nodes : Over(loop, m) = Over(loop', m) + (IF m = n THEN 1 ELSE 0),
         \A m \in Nodes : Over(loop', m) \in Nat
  PROVE  \A m \in Nodes : Even(m)' /\ One(m)'
<1> SUFFICES ASSUME NEW m \in Nodes PROVE Even(m)' /\ One(m)'
  OBVIOUS
<1>1. Hands(m)' = Hands(m) /\ Even(m) /\ One(m) /\ CacheOK
  BY Parts DEF Hands, CountInv
<1>2. For(m)' = For(m) /\ Busy(m)' = Busy(m)
  BY DEF lbVars, For, Queued, Busy
<1>3. CASE m = n
  <2>1. cache[m].inflight > 0
    BY <1>1, <1>3, AccountTypes DEF Even
  <2>2. cache'[m].inflight = cache[m].inflight - 1
    BY <1>1, <1>3, <2>1, CountDown
  <2> QED BY <1>1, <1>2, <1>3, <2>2, AccountTypes DEF Even, One
<1>4. CASE m # n
  <2>1. cache'[m] = cache[m]
    BY <1>1, <1>4, CountDown DEF OthersKept
  <2> QED BY <1>1, <1>2, <1>4, <2>1, AccountTypes DEF Even, One
<1> QED BY <1>3, <1>4

LEMMA ReleaseCounts ==
  ASSUME TypedInv, CountInv, release_expired \/ drop_settle \/ stale_settle \/ stale_active
  PROVE  Counted
<1>0. /\ loop \in LoopRec /\ LoopAs(loop) /\ th' = th
  BY Parts DEF release_expired, drop_settle, stale_settle, stale_active
<1>1. CASE release_expired
  <2> DEFINE l == [loop EXCEPT !.todo = Tail(loop.todo)]
  <2>1. /\ loop.at = "expire" /\ loop.todo # <<>> /\ _release_active(Head(loop.todo), l)
        /\ UNCHANGED cache
    BY <1>1 DEF release_expired, tableVars
  <2>2. Head(loop.todo) \in Nodes /\ Tail(loop.todo) \in Seq(Nodes)
    BY <1>0, <2>1, LoopKnows, TailTyped
  <2>3. l \in LoopRec /\ l.at = "expire"
    BY <1>0, <2>1, <2>2 DEF LoopRec
  <2>4. \A m \in Nodes : Up(loop, m) = 0 /\ Over(loop, m) = 0
    BY <2>1, DuesAre
  <2> HIDE DEF l
  <2> QED BY <1>0, <2>1, <2>2, <2>3, <2>4, DropCounts
<1>2. CASE drop_settle
  <2>1. /\ loop.at = "dropped" /\ DecInflight(loop.node) /\ LoopAt(loop.back)
        /\ UNCHANGED lbVars
    BY <1>2 DEF drop_settle
  <2>2. loop.node \in Nodes /\ loop.back \in {"expire", "put"} /\ loop'.at \in {"expire", "put"}
    BY <1>0, <2>1, LoopKnows, LoopLocals DEF LoopAs
  <2>3. \A m \in Nodes : /\ Up(loop, m) = 0 /\ Up(loop', m) = 0 /\ Over(loop', m) = 0
                         /\ Over(loop, m) = IF loop.node = m THEN 1 ELSE 0
    BY <2>1, <2>2, DuesAre
  <2>4. \A m \in Nodes : Even(m)' /\ One(m)'
    BY <1>0, <2>1, <2>2, <2>3, OweOne
  <2> QED BY <2>2, <2>4 DEF Counted, ReapsWhatItSaw
<1>3. CASE stale_settle
  <2>1. /\ loop.at = "stale settle" /\ loop.todo # <<>> /\ DecInflight(loop.node)
        /\ LoopNext("stale settle") /\ UNCHANGED lbVars
    BY <1>3 DEF stale_settle
  <2>2. /\ loop.node \in Nodes /\ loop'.at = "stale settle" /\ loop'.node = loop.node
        /\ loop'.todo = Tail(loop.todo) /\ loop.todo \in Seq(Jobs)
    BY <1>0, <2>1, LoopKnows, LoopLocals
  <2>3. Len(loop'.todo) \in Nat /\ Len(loop.todo) = Len(loop'.todo) + 1
    BY <2>1, <2>2, TailShorter
  <2>4. \A m \in Nodes : /\ Up(loop, m) = 0 /\ Up(loop', m) = 0
                         /\ Over(loop', m) = IF loop.node = m THEN Len(loop'.todo) ELSE 0
                         /\ Over(loop, m) = IF loop.node = m THEN Len(loop.todo) ELSE 0
    BY <2>1, <2>2, DuesAre
  <2>5. \A m \in Nodes : /\ Over(loop, m) = Over(loop', m) + (IF m = loop.node THEN 1 ELSE 0)
                         /\ Over(loop', m) \in Nat
    BY <2>3, <2>4
  <2>6. \A m \in Nodes : Even(m)' /\ One(m)'
    BY <1>0, <2>1, <2>2, <2>4, <2>5, OweOne
  <2> QED BY <2>2, <2>6 DEF Counted, ReapsWhatItSaw
<1>4. CASE stale_active
  <2> DEFINE l == [loop EXCEPT !.at = "put"]
  <2>1. /\ loop.at = "stale settle" /\ loop.todo = <<>> /\ _release_active(loop.node, l)
        /\ UNCHANGED cache
    BY <1>4 DEF stale_active, tableVars
  <2>2. loop.node \in Nodes
    BY <1>0, <2>1, LoopKnows
  <2>3. l \in LoopRec /\ l.at = "put"
    BY <1>0 DEF LoopRec, LoopPlaces
  <2>4. \A m \in Nodes : Up(loop, m) = 0 /\ Over(loop, m) = 0
    BY <2>1, DuesAre
  <2> HIDE DEF l
  <2> QED BY <1>0, <2>1, <2>2, <2>3, <2>4, DropCounts
<1> QED BY <1>1, <1>2, <1>3, <1>4

(* The reservations of a silent node are released: the loop owes its       *)
(* counter as many.                                                        *)
LEMMA StaleCounts ==
  ASSUME TypedInv, CountInv, stale_release
  PROVE  Counted
<1>a. PICK n \in Nodes : n = loop.node
  BY Parts, LoopKnows DEF stale_release
<1> DEFINE S == {j \in Queued : target[j] = n}
<1>0. /\ loop \in LoopRec /\ LBInv /\ queue \in Seq(Jobs) /\ loop.at = "stale"
      /\ release_reservations_for(n) /\ UNCHANGED <<th, cache>> /\ Queued \subseteq Jobs
  BY <1>a, Parts DEF stale_release, tableVars
<1>1. PICK p \in Snapshots(S) : loop' = [loop EXCEPT !.at = "stale settle", !.todo = p]
  BY <1>a DEF stale_release
<1>2. S \in SUBSET Queued /\ S = For(n)
  BY DEF For
<1>3. Len(p) = Cardinality(For(n)) /\ Cardinality(For(n)) \in Nat
  BY <1>0, <1>1, <1>2, SnapshotTyped
<1>4. loop'.at = "stale settle" /\ loop'.node = n /\ loop'.todo = p
  BY <1>a, <1>0, <1>1 DEF LoopRec
<1>5. /\ Queued' = Queued /\ active' = active
      /\ \A j \in Jobs : target'[j] = IF j \in Queued /\ target[j] = n THEN NoNode ELSE target[j]
  BY <1>0, ReleaseIs
<1>6. For(n)' = {} /\ \A m \in Nodes \ {n} : For(m)' = For(m)
  BY <1>0, <1>5, Basics DEF For
<1> HIDE DEF S
<1>7. ASSUME NEW m \in Nodes PROVE Even(m)' /\ One(m)'
  <2>1. Hands(m)' = Hands(m) /\ Busy(m)' = Busy(m) /\ cache' = cache /\ Even(m) /\ One(m)
    BY <1>0, <1>5 DEF Hands, Busy, CountInv
  <2>2. /\ Up(loop, m) = 0 /\ Up(loop', m) = 0 /\ Over(loop, m) = 0
        /\ Over(loop', m) = IF n = m THEN Cardinality(For(n)) ELSE 0
    BY <1>0, <1>3, <1>4, DuesAre
  <2>3. CASE m = n
    <3>1. Cardinality(For(m)') = 0
      BY <1>6, <2>3, FS_EmptySet
    <3> QED BY <1>3, <2>1, <2>2, <2>3, <3>1, AccountTypes DEF Even, One
  <2>4. CASE m # n
    BY <1>6, <2>1, <2>2, <2>4 DEF Even, One
  <2> QED BY <2>3, <2>4
<1> QED BY <1>4, <1>7 DEF Counted, ReapsWhatItSaw

(* A job is reserved only for a node with nothing counted.  As the account *)
(* of such a node is even, it has no job.                                  *)
LEMMA ReserveCounts ==
  ASSUME TypedInv, CountInv, reserve_node
  PROVE  Counted
<1>a. PICK n \in Nodes, j \in Jobs : n = loop.node /\ j = loop.job
  BY Parts, LoopKnows DEF reserve_node
<1>0. /\ loop \in LoopRec /\ LBInv /\ loop.at = "reserve"
      /\ Queued \subseteq Jobs /\ UNCHANGED <<th, cache>>
  BY Parts DEF reserve_node, tableVars
<1>1. \A m \in Nodes : /\ Hands(m)' = Hands(m) /\ Even(m) /\ One(m)
                       /\ Up(loop, m) = 0 /\ Over(loop, m) = 0
  BY <1>0, DuesAre DEF Hands, CountInv
<1>2. CASE LoopNext("schedule") /\ UNCHANGED lbVars
  <2>1. loop'.at = "schedule"
    BY <1>0, <1>2, LoopLocals
  <2>2. \A m \in Nodes : /\ cache'[m].inflight = cache[m].inflight
                         /\ For(m)' = For(m) /\ active'[m] = active[m]
    BY <1>0, <1>2 DEF lbVars, For, Queued
  <2>3. \A m \in Nodes : Even(m)' /\ One(m)'
    BY <1>0, <2>1, <2>2, NothingMoves DEF Moving
  <2> QED BY <2>1, <2>3 DEF Counted, ReapsWhatItSaw
<1>3. CASE reserve(j, n) /\ LoopAt("reserved")
  <2>1. loop'.at = "reserved" /\ loop'.node = n /\ loop'.job = j
    BY <1>a, <1>0, <1>3, LoopLocals
  <2>2. /\ j \in Queued /\ target[j] = NoNode /\ target' = [target EXCEPT ![j] = n]
        /\ Queued' = Queued /\ active' = active
    BY <1>3 DEF reserve, Pending, Queued
  <2>3. \A i \in Jobs : target'[i] = IF i = j THEN n ELSE target[i]
    BY <1>0, <2>2, KeptTypes
  <2>4. /\ For(n)' = For(n) \cup {j} /\ j \notin For(n)
        /\ \A m \in Nodes \ {n} : For(m)' = For(m)
    BY <1>0, <2>2, <2>3, Basics DEF For
  <2>5. Cardinality(For(n)) = 0 /\ Busy(n) = 0 /\ Cardinality(Hands(n)) = 0
        /\ cache[n].inflight = 0
    <3>1. cache[n].inflight = 0
      BY <1>a, <1>0 DEF CountInv
    <3> QED BY <1>0, <1>1, <3>1, AccountTypes DEF Even
  <2>6. Cardinality(For(n)') = 1
    <3>1. IsFiniteSet(For(n))
      BY AccountTypes
    <3>2. Cardinality(For(n) \cup {j}) = Cardinality(For(n)) + 1
      BY <2>4, <3>1, FS_AddElement
    <3> QED BY <2>4, <2>5, <3>2
  <2>7. ASSUME NEW m \in Nodes PROVE Even(m)' /\ One(m)'
    <3>1. Up(loop', m) = (IF n = m THEN 1 ELSE 0) /\ Over(loop', m) = 0
      BY <2>1, DuesAre
    <3>2. Busy(m)' = Busy(m) /\ cache' = cache /\ Hands(m)' = Hands(m)
      BY <1>0, <1>1, <2>2 DEF Busy
    <3>3. CASE m = n
      BY <2>5, <2>6, <3>1, <3>2, <3>3 DEF Even, One
    <3>4. CASE m # n
      BY <1>1, <2>4, <3>1, <3>2, <3>4 DEF Even, One
    <3> QED BY <3>3, <3>4
  <2>8. (loop.job \in For(loop.node))'
    BY <2>1, <2>4
  <2> QED BY <2>1, <2>7, <2>8 DEF Counted, ReapsWhatItSaw
<1> QED BY <1>a, <1>2, <1>3 DEF reserve_node

LEMMA ReservedCounts ==
  ASSUME TypedInv, CountInv, count_reserved
  PROVE  Counted
<1> DEFINE n == loop.node
<1>0. /\ loop \in LoopRec /\ CacheOK /\ loop.at = "reserved" /\ n \in Nodes
      /\ UNCHANGED <<lbVars, th>> /\ IncInflight(n) /\ LoopNext("schedule")
  BY Parts, LoopKnows DEF count_reserved
<1>1. loop'.at = "schedule"
  BY <1>0, LoopLocals
<1>2. ASSUME NEW m \in Nodes PROVE Even(m)' /\ One(m)'
  <2>1. /\ Hands(m)' = Hands(m) /\ For(m)' = For(m) /\ Busy(m)' = Busy(m)
        /\ Even(m) /\ One(m)
    BY <1>0 DEF Hands, For, Queued, Busy, lbVars, CountInv
  <2>2. /\ Up(loop, m) = (IF n = m THEN 1 ELSE 0) /\ Up(loop', m) = 0
        /\ Over(loop, m) = 0 /\ Over(loop', m) = 0
    BY <1>0, <1>1, DuesAre
  <2>3. cache'[m].inflight = IF n = m THEN cache[m].inflight + 1 ELSE cache[m].inflight
    BY <1>0, CountUp DEF OthersKept
  <2> QED BY <2>1, <2>2, <2>3, AccountTypes DEF Even, One
<1> QED BY <1>1, <1>2 DEF Counted, ReapsWhatItSaw

(* A node that claims one of its jobs runs none.                           *)
LEMMA ClaimCounts ==
  ASSUME TypedInv, CountInv, NEW n \in Nodes, jobs_next(n)
  PROVE  Counted /\ active[n] = NoJob /\ \A m \in Nodes \ {n} : active'[m] = active[m]
<1> DEFINE j == CHOOSE j \in Queued : j \notin Queued'
<1>0. /\ loop.at = "idle" /\ claim(n) /\ UNCHANGED <<th, cache>> /\ LBInv /\ n \in Claimers
      /\ loop' = [IdleLoop EXCEPT !.at = "claimed", !.node = n, !.job = j]
      /\ Nodes \subseteq Claimers /\ active \in [Claimers -> Jobs \cup {NoJob}]
      /\ Queued \subseteq Jobs
  BY Parts, Basics DEF jobs_next, tableVars
<1>1. loop'.at = "claimed"
  BY <1>0, Basics DEF LoopRec
<1>2. /\ j \in Queued /\ target[j] = n /\ Queued' = Queued \ {j}
      /\ active' = [active EXCEPT ![n] = j]
  BY <1>0, ClaimIs
<1> HIDE DEF j
<1>3. target' = target
  BY <1>0 DEF claim
<1>4. \A m \in Nodes :
        Cardinality(For(m)') = Cardinality(For(m)) - (IF n = m THEN 1 ELSE 0)
  BY <1>2, <1>3, LessFor
<1>5. active[n] = NoJob
  <2>1. j \in For(n)
    BY <1>2 DEF For
  <2>2. Cardinality(For(n)) # 0
    BY <2>1, AccountTypes, FS_EmptySet
  <2>3. One(n)
    BY DEF CountInv
  <2>4. Busy(n) = 0
    BY <2>2, <2>3, AccountTypes DEF One
  <2> QED BY <2>4 DEF Busy
<1>6. j \in Jobs /\ j # NoJob
  BY <1>0, <1>2, Basics
<1>7. ASSUME NEW m \in Nodes PROVE Even(m)' /\ One(m)'
  <2>1. /\ Hands(m)' = Hands(m) /\ cache' = cache /\ Even(m) /\ One(m)
    BY <1>0 DEF Hands, CountInv
  <2>2. /\ Up(loop, m) = 0 /\ Up(loop', m) = 0 /\ Over(loop, m) = 0 /\ Over(loop', m) = 0
    BY <1>0, <1>1, DuesAre
  <2>3. Busy(m)' = Busy(m) + (IF n = m THEN 1 ELSE 0)
    BY <1>0, <1>2, <1>5, <1>6 DEF Busy
  <2> QED BY <1>4, <2>1, <2>2, <2>3, AccountTypes DEF Even, One
<1>8. \A m \in Nodes \ {n} : active'[m] = active[m]
  BY <1>0, <1>2
<1> QED BY <1>1, <1>5, <1>7, <1>8 DEF Counted, ReapsWhatItSaw

(* The loop waits while a thread moves: what it has in hand stays.         *)
LEMMA LoopWaits ==
  ASSUME TypedInv, CountInv, loop' = loop,
         \A i \in Queued : target'[i] = target[i] /\ i \in Queued',
         \A n \in Nodes : cache[n].inflight = 0 => cache'[n].inflight = 0,
         \A n \in Nodes : Even(n)' /\ One(n)'
  PROVE  Counted
<1>1. ReapsWhatItSaw'
  <2>1. ASSUME loop.at \in {"reap", "reap job"}, NEW i \in DOMAIN loop.todo,
               NEW k \in DOMAIN loop.todo
        PROVE  /\ loop.todo[i][1] \in Queued' /\ target'[loop.todo[i][1]] = loop.todo[i][2]
               /\ loop.todo[i][1] = loop.todo[k][1] => i = k
    BY <2>1 DEF CountInv, ReapsWhatItSaw
  <2> QED BY <2>1 DEF ReapsWhatItSaw
<1>2. loop'.at = "reserve" => cache'[loop'.node].inflight = 0
  BY Parts, LoopKnows DEF CountInv
<1>3. loop'.at = "reserved" => (loop.job \in For(loop.node))'
  BY DEF CountInv, For
<1> QED BY <1>1, <1>2, <1>3 DEF Counted

(* A thread that answers for no node before and after.                     *)
LEMMA HandsStay ==
  ASSUME NEW c \in Callers, \A x \in Callers \ {c} : th'[x] = th[x],
         \/ th[c].at \notin {"commit", "count"} /\ th'[c].at \notin {"commit", "count"}
         \/ th[c].at = "commit" /\ th'[c].at = "count" /\ th'[c].node = th[c].node
  PROVE  \A n \in Nodes : Hands(n)' = Hands(n)
  BY DEF Hands

(* A thread's step that moves no job of a node and no counter. *)
LEMMA ThreadWaits ==
  ASSUME TypedInv, CountInv, loop' = loop,
         \A i \in Queued : target'[i] = target[i] /\ i \in Queued',
         \A n \in Nodes : /\ cache'[n].inflight = cache[n].inflight
                          /\ For(n)' = For(n) /\ active'[n] = active[n] /\ Hands(n)' = Hands(n)
  PROVE  Counted
<1>1. ASSUME NEW n \in Nodes PROVE Even(n)' /\ One(n)'
  <2>1. Even(n) /\ One(n) /\ Busy(n)' = Busy(n)
    BY DEF CountInv, Busy
  <2> QED BY <2>1 DEF Even, One
<1> QED BY <1>1, LoopWaits

LEMMA ThreadCounts ==
  ASSUME TypedInv, CountInv, NEW c \in Callers,
         \/ \E j \in Jobs : post_chat(c, j)
         \/ \E h \in handed, ok \in BOOLEAN : jobs_result(c, h[1], h[2], h[3], ok)
         \/ post_chat_record(c)
         \/ result_complete(c) \/ result_commit(c) \/ result_count(c)
         \/ result_settle(c) \/ result_requeued(c)
  PROVE  Counted
<1>0. /\ Threads /\ CacheOK /\ LBInv /\ Nodes \subseteq Claimers /\ LBTypeOK
      /\ th \in [Callers -> ThreadRec] /\ ThreadAs(th[c], held[c])
      /\ IdleThread.at = "idle" /\ closer = "none"
      /\ active \in [Claimers -> Jobs \cup {NoJob}] /\ held \in [Callers -> Jobs \cup {NoJob}]
  BY Parts, ThreadAt, Basics, KeptTypes DEF Threads, CountInv
<1>1. loop' = loop
  BY ThreadStep DEF ThreadStepOK, HandlerStep
<1>a. ASSUME NEW n, th' = [th EXCEPT ![c] = n]
      PROVE  th'[c] = n /\ \A x \in Callers \ {c} : th'[x] = th[x]
  BY <1>0, <1>a
<1>b. ASSUME NEW place, Go(c, place)
      PROVE  /\ th'[c].at = place /\ th'[c].node = th[c].node
             /\ \A x \in Callers \ {c} : th'[x] = th[x]
  <2> DEFINE n == [th[c] EXCEPT !.at = place]
  <2>1. th' = [th EXCEPT ![c] = n]
    BY <1>b DEF Go
  <2>2. n.at = place /\ n.node = th[c].node
    BY <1>0 DEF ThreadRec
  <2> HIDE DEF n
  <2> QED BY <1>a, <2>1, <2>2
<1>c. ASSUME Finish(c)
      PROVE  th'[c].at = "idle" /\ \A x \in Callers \ {c} : th'[x] = th[x]
  BY <1>0, <1>a, <1>c DEF Finish
<1>d. ASSUME UNCHANGED lbVars
      PROVE  /\ \A i \in Queued : target'[i] = target[i] /\ i \in Queued'
             /\ \A n \in Nodes : For(n)' = For(n) /\ active'[n] = active[n]
  BY <1>d DEF lbVars, For, Queued
<1>2. ASSUME NEW j \in Jobs, post_chat(c, j)
      PROVE  Counted
  <2> DEFINE n == [IdleThread EXCEPT !.at = "posted", !.job = j]
  <2>1. /\ enqueue_job(j, NoNode) /\ th[c].at = "idle" /\ UNCHANGED cache
        /\ th' = [th EXCEPT ![c] = n]
    BY <1>2 DEF post_chat, Enter, tableVars
  <2>2. n.at = "posted"
    BY DEF IdleThread
  <2> HIDE DEF n
  <2>3. \A m \in Nodes : Hands(m)' = Hands(m)
    BY <1>a, <2>1, <2>2, HandsStay
  <2>4. /\ \A i \in Queued : target'[i] = target[i] /\ i \in Queued'
        /\ \A m \in Nodes : For(m)' = For(m)
        /\ active' = active
    BY <1>0, <2>1, EnqueueIs, PutBackFor
  <2> QED BY <1>1, <2>1, <2>3, <2>4, ThreadWaits
<1>3. ASSUME NEW h \in handed, NEW ok \in BOOLEAN, jobs_result(c, h[1], h[2], h[3], ok)
      PROVE  Counted
  <2> DEFINE n == [IdleThread EXCEPT !.at = "complete", !.node = h[1], !.job = h[2], !.ok = ok]
  <2>1. th[c].at = "idle" /\ UNCHANGED <<lbVars, cache>> /\ th' = [th EXCEPT ![c] = n]
    BY <1>3 DEF jobs_result, Enter, tableVars
  <2>2. n.at = "complete"
    BY DEF IdleThread
  <2> HIDE DEF n
  <2>3. \A m \in Nodes : Hands(m)' = Hands(m)
    BY <1>a, <2>1, <2>2, HandsStay
  <2> QED BY <1>1, <1>d, <2>1, <2>3, ThreadWaits
<1>4. CASE post_chat_record(c) \/ result_requeued(c)
  <2>1. th[c].at \in {"posted", "requeued"} /\ UNCHANGED <<lbVars, cache>> /\ Finish(c)
    BY <1>4 DEF post_chat_record, result_requeued
  <2>2. \A m \in Nodes : Hands(m)' = Hands(m)
    BY <1>c, <2>1, HandsStay
  <2> QED BY <1>1, <1>d, <2>1, <2>2, ThreadWaits
<1>5. CASE result_commit(c)
  <2>1. th[c].at = "commit" /\ UNCHANGED <<lbVars, cache>> /\ Go(c, "count")
    BY <1>0, <1>5 DEF result_commit, tableVars
  <2>2. \A m \in Nodes : Hands(m)' = Hands(m)
    BY <1>b, <2>1, HandsStay
  <2> QED BY <1>1, <1>d, <2>1, <2>2, ThreadWaits
<1>6. CASE result_settle(c)
  <2>1. /\ th[c].at = "settle" /\ UNCHANGED cache
        /\ \/ return_job_to_pending(c) /\ Go(c, "requeued")
           \/ discard(c) /\ Finish(c)
    BY <1>6 DEF result_settle
  <2>2. \A m \in Nodes : Hands(m)' = Hands(m)
    BY <1>b, <1>c, <2>1, HandsStay
  <2>3. CASE discard(c)
    <3>1. UNCHANGED <<queue, target, active>>
      BY <2>3 DEF discard
    <3>2. /\ \A i \in Queued : target'[i] = target[i] /\ i \in Queued'
          /\ \A n \in Nodes : For(n)' = For(n) /\ active'[n] = active[n]
      BY <3>1 DEF For, Queued
    <3> QED BY <1>1, <2>1, <2>2, <3>2, ThreadWaits
  <2>4. CASE return_job_to_pending(c)
    <3> DEFINE j == held[c]
    <3>1. /\ queue' = <<j>> \o queue /\ target' = [target EXCEPT ![j] = NoNode]
          /\ active' = active /\ j \in Held
      BY <2>4 DEF return_job_to_pending, Held
    <3> HIDE DEF j
    <3>2. Queued' = Queued \cup {j} /\ j \notin Queued /\ j \in Jobs
      BY <1>0, <3>1, PutBackIs
    <3>3. /\ \A i \in Queued : target'[i] = target[i] /\ i \in Queued'
          /\ \A n \in Nodes : For(n)' = For(n)
      BY <3>1, <3>2, PutBackFor
    <3> QED BY <1>1, <2>1, <2>2, <3>1, <3>3, ThreadWaits
  <2> QED BY <2>1, <2>3, <2>4
<1>7. CASE result_complete(c)
  <2> DEFINE n == th[c].node
  <2>1. th[c].at = "complete" /\ UNCHANGED cache /\ n \in Nodes
    BY <1>0, <1>7 DEF result_complete, tableVars, ThreadAs
  <2>2. CASE UNCHANGED lbVars /\ Finish(c)
    <3>1. \A m \in Nodes : Hands(m)' = Hands(m)
      BY <1>c, <2>1, <2>2, HandsStay
    <3> QED BY <1>1, <1>d, <2>1, <2>2, <3>1, ThreadWaits
  <2>3. CASE complete(c, n, th[c].job) /\ Go(c, "commit")
    <3>1. /\ active[n] # NoJob /\ active' = [active EXCEPT ![n] = NoJob]
          /\ UNCHANGED <<queue, target>>
      BY <2>3 DEF complete
    <3>2. /\ \A i \in Queued : target'[i] = target[i] /\ i \in Queued'
          /\ \A m \in Nodes : For(m)' = For(m)
      BY <3>1 DEF For, Queued
    <3>3. /\ th'[c].at = "commit" /\ th'[c].node = n
          /\ \A x \in Callers \ {c} : th'[x] = th[x]
      BY <1>b, <2>3
    <3>4. \A m \in Nodes : Hands(m)' = IF m = n THEN Hands(m) \cup {c} ELSE Hands(m)
      BY <2>1, <3>3 DEF Hands
    <3>5. \A m \in Nodes : c \notin Hands(m)
      BY <2>1 DEF Hands
    <3>6. ASSUME NEW m \in Nodes PROVE Even(m)' /\ One(m)'
      <4>1. Even(m) /\ One(m) /\ loop' = loop /\ cache' = cache /\ For(m)' = For(m)
        BY <1>1, <2>1, <3>2 DEF CountInv
      <4>2. CASE m = n
        <5>1. Busy(m)' = 0 /\ Busy(m) = 1
          BY <1>0, <3>1, <4>2 DEF Busy
        <5>2. Hands(m)' = Hands(m) \cup {c} /\ IsFiniteSet(Hands(m)) /\ c \notin Hands(m)
          BY <3>4, <3>5, <4>2, AccountTypes
        <5>3. Cardinality(Hands(m)') = Cardinality(Hands(m)) + 1
          BY <5>2, FS_AddElement
        <5> QED BY <4>1, <5>1, <5>3, AccountTypes DEF Even, One
      <4>3. CASE m # n
        <5>1. Busy(m)' = Busy(m) /\ Hands(m)' = Hands(m)
          BY <1>0, <3>1, <3>4, <4>3 DEF Busy
        <5> QED BY <4>1, <5>1 DEF Even, One
      <4> QED BY <4>2, <4>3
    <3> QED BY <1>1, <2>1, <3>2, <3>6, LoopWaits
  <2> QED BY <1>7, <2>2, <2>3 DEF result_complete
<1>8. CASE result_count(c)
  <2> DEFINE n == th[c].node
  <2>1. /\ th[c].at = "count" /\ UNCHANGED lbVars /\ n \in Nodes /\ DecInflight(n)
        /\ Go(c, "settle")
    BY <1>0, <1>8 DEF result_count, ThreadAs
  <2>2. /\ th'[c].at = "settle" /\ \A x \in Callers \ {c} : th'[x] = th[x]
    BY <1>b, <2>1
  <2>3. \A m \in Nodes : Hands(m)' = IF m = n THEN Hands(m) \ {c} ELSE Hands(m)
    BY <2>1, <2>2 DEF Hands
  <2>4. c \in Hands(n)
    BY <2>1 DEF Hands
  <2>5. ASSUME NEW m \in Nodes PROVE Even(m)' /\ One(m)'
    <3>1. Even(m) /\ One(m) /\ loop' = loop /\ For(m)' = For(m) /\ Busy(m)' = Busy(m)
      BY <1>1, <1>d, <2>1 DEF CountInv, Busy
    <3>2. CASE m = n
      <4>1. /\ Hands(m)' = Hands(m) \ {c} /\ IsFiniteSet(Hands(m)) /\ c \in Hands(m)
            /\ Cardinality(Hands(m)) # 0
        BY <2>3, <2>4, <3>2, AccountTypes, FS_EmptySet
      <4>2. Cardinality(Hands(m)') = Cardinality(Hands(m)) - 1
        BY <4>1, FS_RemoveElement
      <4>a. /\ cache[m].inflight \in Nat /\ Cardinality(For(m)) \in Nat /\ Busy(m) \in 0 .. 1
            /\ Cardinality(Hands(m)) \in Nat /\ Up(loop, m) \in 0 .. 1 /\ Over(loop, m) \in Nat
        BY AccountTypes
      <4>3. Up(loop, m) <= Cardinality(For(m))
        <5>1. CASE loop.at = "reserved"
          <6>1. loop.node = m => loop.job \in For(m)
            BY <5>1 DEF CountInv
          <6>2. loop.node = m => Cardinality(For(m)) # 0
            BY <6>1, AccountTypes, FS_EmptySet
          <6>3. Up(loop, m) = IF loop.node = m THEN 1 ELSE 0
            BY <5>1, DuesAre
          <6> QED BY <4>a, <6>2, <6>3
        <5>2. CASE loop.at = "reap job"
          <6> DEFINE e == Head(loop.todo)
          <6>1. e = loop.todo[1] /\ 1 \in DOMAIN loop.todo
            BY <5>2, Parts, LoopKnows, HeadIs DEF e
          <6> HIDE DEF e
          <6>2. e[1] \in Queued /\ target[e[1]] = e[2]
            BY <5>2, <6>1 DEF CountInv, ReapsWhatItSaw
          <6>3. e[2] = m => Cardinality(For(m)) # 0
            BY <6>2, AccountTypes, FS_EmptySet DEF For
          <6>4. Up(loop, m) = IF e[2] = m THEN 1 ELSE 0
            BY <5>2, DuesAre DEF e
          <6> QED BY <4>a, <6>3, <6>4
        <5>3. CASE loop.at \notin {"reserved", "reap job"}
          <6>1. Up(loop, m) = 0
            BY <5>3, DuesAre
          <6> QED BY <4>a, <6>1
        <5> QED BY <5>1, <5>2, <5>3
      <4>4. cache[m].inflight > 0
        <5>1. cache[m].inflight + Up(loop, m)
                = Cardinality(For(m)) + Busy(m) + Over(loop, m) + Cardinality(Hands(m))
          BY <3>1 DEF Even
        <5>2. Cardinality(Hands(m)) # 0
          BY <4>1
        <5> QED BY <4>a, <4>3, <5>1, <5>2
      <4>5. cache'[m].inflight = cache[m].inflight - 1
        BY <1>0, <2>1, <3>2, <4>4, CountDown
      <4> QED BY <3>1, <4>2, <4>5, AccountTypes DEF Even, One
    <3>3. CASE m # n
      <4>1. cache'[m] = cache[m] /\ Hands(m)' = Hands(m)
        BY <1>0, <2>1, <2>3, <3>3, CountDown DEF OthersKept
      <4> QED BY <3>1, <4>1 DEF Even, One
    <3> QED BY <3>2, <3>3
  <2>6. \A m \in Nodes : cache[m].inflight = 0 => cache'[m].inflight = 0
    BY <1>0, <2>1, CountDown DEF OthersKept
  <2> QED BY <1>1, <1>d, <2>1, <2>5, <2>6, LoopWaits
<1> QED BY <1>2, <1>3, <1>4, <1>5, <1>6, <1>7, <1>8

(* Only a claim gives a node a job. *)
LEMMA LoopTakesAway ==
  ASSUME TypedInv, ~\E n \in Nodes : jobs_next(n),
         \/ run_scheduler_cycle \/ SchedulerStep \/ ForecastStep \/ poll_answer
         \/ \E n \in Nodes : forecast_read(n)
         \/ \E n \in Nodes : jobs_next(n)
         \/ \E j \in Jobs : _generator_loop(j)
  PROVE  \A n \in Nodes : active'[n] \in {active[n], NoJob}
<1>0. active \in [Claimers -> Jobs \cup {NoJob}] /\ Nodes \subseteq Claimers /\ LBInv
  BY Parts, Basics
<1>a. ASSUME NEW n, NEW after, _release_active(n, after)
      PROVE  active' = active \/ active' = [active EXCEPT ![n] = NoJob]
  BY <1>a DEF _release_active, cancel_active, requeue_active_as_pending, lbVars
<1>b. ASSUME NEW n, active' = active \/ active' = [active EXCEPT ![n] = NoJob]
      PROVE  \A m \in Nodes : active'[m] \in {active[m], NoJob}
  BY <1>0, <1>b
<1>1. CASE release_expired \/ stale_active
  BY <1>1, <1>a, <1>b DEF release_expired, stale_active
<1>2. CASE reap_job
  <2>1. PICK j : fail(j) \/ requeue_front(j)
    BY <1>2 DEF reap_job
  <2> QED BY <1>0, <1>b, <2>1, FailIs, RequeueFrontIs
<1>3. CASE reserve_node \/ stale_release \/ forecast_decide \/ \E j \in Jobs : _generator_loop(j)
  <2>1. active' = active
    BY <1>3 DEF reserve_node, reserve, stale_release, release_reservations_for, forecast_decide,
       set_flag, _generator_loop, enqueue_job, lbVars
  <2> QED BY <1>b, <2>1
<1>4. CASE \/ run_scheduler_cycle \/ reap_inflight \/ reap_done \/ drop_settle \/ release_done
           \/ choose_node \/ count_reserved \/ schedule_done \/ mark_failed \/ stale_settle
           \/ forecast_put \/ poll_answer \/ \E n \in Nodes : forecast_read(n)
  <2>1. UNCHANGED lbVars
    BY <1>4 DEF run_scheduler_cycle, reap_inflight, reap_done, drop_settle, release_done,
       choose_node, count_reserved, schedule_done, mark_failed, stale_settle, forecast_put,
       poll_answer, forecast_read
  <2> QED BY <1>b, <2>1 DEF lbVars
<1> QED BY <1>1, <1>2, <1>3, <1>4 DEF SchedulerStep, ForecastStep

LEMMA LoopKeepsMembers ==
  ASSUME \/ run_scheduler_cycle \/ SchedulerStep \/ ForecastStep \/ poll_answer
         \/ \E n \in Nodes : forecast_read(n)
         \/ \E n \in Nodes : jobs_next(n)
         \/ \E j \in Jobs : _generator_loop(j)
  PROVE  member' = member
<1>1. CASE run_scheduler_cycle \/ SchedulerStep
  BY <1>1 DEF run_scheduler_cycle, SchedulerStep, reap_inflight, reap_job, reap_done,
     release_expired, drop_settle, release_done, choose_node, reserve_node, count_reserved,
     schedule_done, mark_failed
<1>2. CASE ForecastStep \/ \E n \in Nodes : forecast_read(n)
  BY <1>2 DEF ForecastStep, forecast_decide, stale_release, stale_settle, stale_active,
     forecast_put, forecast_read
<1>3. CASE poll_answer \/ (\E n \in Nodes : jobs_next(n)) \/ \E j \in Jobs : _generator_loop(j)
  BY <1>3 DEF poll_answer, jobs_next, _generator_loop
<1> QED BY <1>1, <1>2, <1>3

LEMMA CountStep ==
  ASSUME TypedInv, CountInv, NobodyLeaves, [DispatchNext]_vars
  PROVE  CountInv' /\ \A n \in Nodes : active[n] # NoJob /\ active'[n] # active[n]
                                         => active'[n] = NoJob
<1>1. /\ \A c \in Callers : th'[c].at \notin LeavePlaces
      /\ \A c \in Callers, n \in Nodes : ~leave(c, n)
      /\ \A c \in Callers : /\ ~leave_settle(c) /\ ~leave_peek(c) /\ ~leave_active(c)
                            /\ ~leave_active_settle(c) /\ ~leave_inactive(c) /\ ~leave_revoke(c)
  <2>1. "leave" \notin Ops /\ "kick" \notin Ops
    BY DEF NobodyLeaves
  <2> QED BY <2>1, NobodyLeaving DEF CountInv
<1>2. ~close_begin /\ ~CloserStep /\ (\A n \in Nodes : ~join(n)) /\ member = Nodes
  BY DEF NobodyLeaves, CountInv, close_begin, CloserStep, close_stop, close_inactive, close_drain,
     close_chats, close_revoke, close_reopen, join
<1>3. /\ LBInv /\ CacheOK /\ Nodes \subseteq Claimers
      /\ active \in [Claimers -> Jobs \cup {NoJob}]
  BY Parts, Basics
<1>4. CASE \/ \E j \in Jobs : lease_ends(j)
           \/ \E n \in Nodes : nodes_ready(n)
           \/ UNCHANGED vars
  <2>1. UNCHANGED <<lbVars, actorVars>>
    BY <1>4 DEF lease_ends, nodes_ready, vars
  <2>2. \A n \in Nodes : cache'[n].inflight = cache[n].inflight
    <3>1. CASE UNCHANGED cache
      BY <3>1
    <3>2. CASE \E n \in Nodes : nodes_ready(n)
      BY <1>3, <3>2, MarkRow DEF nodes_ready, OthersKept
    <3> QED BY <1>4, <3>1, <3>2 DEF lease_ends, vars, tableVars
  <2>3. /\ \A i \in Queued : target'[i] = target[i] /\ i \in Queued'
        /\ \A n \in Nodes : /\ For(n)' = For(n) /\ active'[n] = active[n]
                            /\ Hands(n)' = Hands(n)
    BY <2>1 DEF lbVars, actorVars, For, Queued, Hands
  <2>4. loop' = loop /\ closer' = closer /\ member' = member
    BY <1>4, <2>1 DEF actorVars, lease_ends, nodes_ready, vars
  <2>5. Counted
    BY <2>2, <2>3, <2>4, ThreadWaits
  <2> QED BY <1>1, <1>2, <2>3, <2>4, <2>5 DEF Counted, CountInv
<1>5. ASSUME NEW c \in Callers,
             \/ \E j \in Jobs : post_chat(c, j)
             \/ \E h \in handed, ok \in BOOLEAN : jobs_result(c, h[1], h[2], h[3], ok)
             \/ HandlerStep(c)
      PROVE  /\ Counted /\ closer' = closer /\ member' = member
             /\ \A n \in Nodes : active'[n] \in {active[n], NoJob}
  <2>1. Counted
    BY <1>1, <1>5, ThreadCounts DEF HandlerStep
  <2>2. closer' = closer /\ member' = member
    BY <1>1, <1>5 DEF HandlerStep, post_chat, jobs_result, post_chat_record, result_complete,
       result_commit, result_count, result_settle, result_requeued
  <2>3. \/ active' = active \/ \E n \in Claimers : active' = [active EXCEPT ![n] = NoJob]
    <3>1. \/ \E j \in Jobs : enqueue_job(j, NoNode)
          \/ UNCHANGED lbVars \/ discard(c) \/ return_job_to_pending(c)
          \/ complete(c, th[c].node, th[c].job)
      BY <1>1, <1>5 DEF HandlerStep, post_chat, jobs_result, post_chat_record, result_complete,
         result_commit, result_count, result_settle, result_requeued
    <3>2. ASSUME complete(c, th[c].node, th[c].job)
          PROVE  \E n : active' = [active EXCEPT ![n] = NoJob]
      BY <3>2 DEF complete
    <3>3. ASSUME NEW n, active' = [active EXCEPT ![n] = NoJob]
          PROVE  active' = active \/ \E m \in Claimers : active' = [active EXCEPT ![m] = NoJob]
      BY <1>3, <3>3
    <3> QED BY <3>1, <3>2, <3>3 DEF enqueue_job, lbVars, discard, return_job_to_pending
  <2> QED BY <1>3, <2>1, <2>2, <2>3
<1>6. CASE \/ run_scheduler_cycle \/ SchedulerStep \/ ForecastStep \/ poll_answer
           \/ \E n \in Nodes : forecast_read(n)
           \/ \E n \in Nodes : jobs_next(n)
           \/ \E j \in Jobs : _generator_loop(j)
  <2>1. Counted
    BY <1>6, QuietCounts, CycleCounts, ReapCounts, ReleaseCounts, StaleCounts, ReserveCounts,
       ReservedCounts, ClaimCounts DEF SchedulerStep, ForecastStep
  <2>2. closer' = closer /\ member' = member
    BY <1>6, LoopGoesOn, LoopKeepsMembers DEF LoopStepOK
  <2>3. \A n \in Nodes : active[n] # NoJob /\ active'[n] # active[n] => active'[n] = NoJob
    <3>1. CASE \E n \in Nodes : jobs_next(n)
      BY <3>1, ClaimCounts
    <3>2. CASE ~\E n \in Nodes : jobs_next(n)
      BY <1>3, <1>6, <3>2, LoopTakesAway
    <3> QED BY <3>1, <3>2
  <2> QED BY <1>1, <1>2, <2>1, <2>2, <2>3 DEF Counted, CountInv
<1> QED BY <1>1, <1>2, <1>4, <1>5, <1>6 DEF DispatchNext, Counted, CountInv

LEMMA CountInit == DispatchInit => CountInv
<1> SUFFICES ASSUME DispatchInit PROVE CountInv
  OBVIOUS
<1>1. /\ queue = <<>> /\ loop.at = "idle" /\ closer = "none" /\ member = Nodes
      /\ \A c \in Callers : th[c].at = "idle"
      /\ \A n \in Nodes : active[n] = NoJob /\ cache[n].inflight = 0
  BY Basics DEF DispatchInit, LBInit, Row
<1>2. ASSUME NEW n \in Nodes PROVE Even(n) /\ One(n)
  <2>1. For(n) = {} /\ Hands(n) = {} /\ Busy(n) = 0
    BY <1>1 DEF For, Queued, Range, Hands, Busy
  <2>2. Cardinality({}) = 0
    BY FS_EmptySet
  <2>3. Up(loop, n) = 0 /\ Over(loop, n) = 0
    BY <1>1, DuesAre
  <2> QED BY <1>1, <2>1, <2>2, <2>3 DEF Even, One
<1>3. \A c \in Callers : th[c].at \notin LeavePlaces
  BY <1>1 DEF LeavePlaces
<1> QED BY <1>1, <1>2, <1>3 DEF CountInv, ReapsWhatItSaw

LEMMA CountAlways == ASSUME NobodyLeaves PROVE DispatchSpec => [](TypedInv /\ CountInv)
<1>1. TypedInv /\ CountInv /\ [DispatchNext]_vars => CountInv'
  BY CountStep, NobodyLeaves
<1> QED BY <1>1, CountInit, TypedAlways, PTL DEF DispatchSpec

(* The Host's counter of a node is the number of its reservations and its  *)
(* running job, whatever the five pieces of code that move it interleave   *)
(* with (ADR-001).                                                         *)
THEOREM CountersHold == ASSUME NobodyLeaves PROVE DispatchSpec => []InflightMatchesWork
<1>1. ASSUME TypedInv, CountInv, NEW n \in Nodes
      PROVE  cache[n].inflight + Uncounted(n) = Work(n) + Overcounted(n)
  <2>1. /\ cache[n].inflight \in Nat /\ Cardinality(For(n)) \in Nat /\ Busy(n) \in 0 .. 1
        /\ Cardinality(Hands(n)) \in Nat /\ Up(loop, n) \in 0 .. 1 /\ Over(loop, n) \in Nat
    BY <1>1, AccountTypes
  <2>2. Even(n)
    BY <1>1 DEF CountInv
  <2>3. Uncounted(n) = Up(loop, n)
    <3>1. CASE loop.at = "reap job"
      <4>1. Uncounted(n) = 0 + (IF Head(loop.todo)[2] = n THEN 1 ELSE 0)
        BY <3>1 DEF Uncounted
      <4>2. Up(loop, n) = IF Head(loop.todo)[2] = n THEN 1 ELSE 0
        BY <3>1, DuesAre
      <4> QED BY <2>1, <4>1, <4>2
    <3>2. CASE loop.at # "reap job"
      <4>1. Uncounted(n) = (IF loop.at = "reserved" /\ loop.node = n THEN 1 ELSE 0) + 0
        BY <3>2 DEF Uncounted
      <4>2. Up(loop, n) = IF loop.at = "reserved" /\ loop.node = n THEN 1 ELSE 0
        BY <3>2 DEF Up
      <4> QED BY <2>1, <4>1, <4>2
    <3> QED BY <3>1, <3>2
  <2>4. Work(n) = Cardinality(For(n)) + Busy(n)
    BY DEF Work, For, Busy
  <2>5. Overcounted(n) = Over(loop, n) + Cardinality(Hands(n))
    <3> DEFINE a == IF loop.at = "dropped" /\ loop.node = n THEN 1 ELSE 0
               b == IF loop.at = "stale settle" /\ loop.node = n THEN Len(loop.todo) ELSE 0
    <3>1. Overcounted(n) = a + b + Cardinality(Hands(n))
      BY DEF Overcounted, Hands
    <3>2. a + b = Over(loop, n)
      <4>1. CASE loop.at = "stale settle" /\ loop.node = n
        <5>1. a = 0 /\ b = Over(loop, n)
          BY <4>1 DEF Over
        <5> HIDE DEF a, b
        <5> QED BY <2>1, <5>1
      <4>2. CASE ~(loop.at = "stale settle" /\ loop.node = n)
        <5>1. b = 0 /\ a = Over(loop, n)
          BY <4>2 DEF Over
        <5> HIDE DEF a, b
        <5> QED BY <2>1, <5>1
      <4> QED BY <4>1, <4>2
    <3> QED BY <3>1, <3>2
  <2> QED BY <2>1, <2>2, <2>3, <2>4, <2>5 DEF Even
<1>2. TypedInv /\ CountInv => InflightMatchesWork
  BY <1>1 DEF InflightMatchesWork
<1> QED BY <1>2, CountAlways, NobodyLeaves, PTL

(* A node never loses the job it runs to the next one it claims: a node    *)
(* with a reservation runs nothing.                                        *)
THEOREM ClaimsHold == ASSUME NobodyLeaves PROVE DispatchSpec => ClaimNeverOverwrites
<1>1. TypedInv /\ CountInv /\ [DispatchNext]_vars
        => [\A n \in Nodes : active[n] # NoJob /\ active'[n] # active[n]
                               => active'[n] = NoJob]_vars
  BY CountStep, NobodyLeaves
<1> QED BY <1>1, CountAlways, NobodyLeaves, PTL DEF DispatchSpec, ClaimNeverOverwrites

=============================================================================

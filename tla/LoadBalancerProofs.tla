------------------------- MODULE LoadBalancerProofs -------------------------
(***************************************************************************)
(* The placement invariants of LoadBalancer, proved for every set of       *)
(* nodes, jobs and callers and every bound.  First what the operations on  *)
(* sequences do to a queue without repetitions; then one lemma per group   *)
(* of methods; then the theorems.                                          *)
(***************************************************************************)
EXTENDS LoadBalancer, SequenceTheorems, TLAPS

(* A queue in which no job occurs twice. *)
NoRepeat(q) == \A i, k \in DOMAIN q : q[i] = q[k] => i = k

LEMMA CutProperties ==
  ASSUME NEW S, NEW q \in Seq(S), NEW i \in DOMAIN q, NoRepeat(q)
  PROVE  /\ Cut(q, i) \in Seq(S)
         /\ NoRepeat(Cut(q, i))
         /\ Range(Cut(q, i)) = Range(q) \ {q[i]}
         /\ Len(Cut(q, i)) = Len(q) - 1
<1> DEFINE r == Cut(q, i)
<1>0. i \in 1 .. Len(q) /\ Len(q) \in Nat
  OBVIOUS
<1> DEFINE a == SubSeq(q, 1, i - 1)
           b == SubSeq(q, i + 1, Len(q))
<1>a. /\ a \in Seq(S) /\ Len(a) = i - 1
      /\ \A k \in 1 .. i - 1 : a[k] = q[k]
  <2>1. \A k \in 1 .. i - 1 : q[k] \in S
    BY <1>0
  <2>2. 1 \in Int /\ i - 1 \in Int
    BY <1>0
  <2> HIDE DEF a
  <2>3. /\ SubSeq(q, 1, i - 1) \in Seq(S)
        /\ Len(SubSeq(q, 1, i - 1)) = IF 1 <= i - 1 THEN (i - 1) - 1 + 1 ELSE 0
        /\ \A k \in 1 .. (i - 1) - 1 + 1 : SubSeq(q, 1, i - 1)[k] = q[1 + k - 1]
    BY <2>1, <2>2, SubSeqProperties
  <2> QED BY <2>3, <1>0 DEF a
<1>b. /\ b \in Seq(S) /\ Len(b) = Len(q) - i
      /\ \A k \in 1 .. Len(q) - i : b[k] = q[i + k]
  <2>1. \A k \in i + 1 .. Len(q) : q[k] \in S
    BY <1>0
  <2>2. i + 1 \in Int /\ Len(q) \in Int
    BY <1>0
  <2> HIDE DEF b
  <2>3. /\ SubSeq(q, i + 1, Len(q)) \in Seq(S)
        /\ Len(SubSeq(q, i + 1, Len(q)))
             = IF i + 1 <= Len(q) THEN Len(q) - (i + 1) + 1 ELSE 0
        /\ \A k \in 1 .. Len(q) - (i + 1) + 1 :
             SubSeq(q, i + 1, Len(q))[k] = q[i + 1 + k - 1]
    BY <2>1, <2>2, SubSeqProperties
  <2> QED BY <2>3, <1>0 DEF b
<1> HIDE DEF a, b
<1>c. r = a \o b
  BY DEF Cut, a, b
<1> HIDE DEF r
<1>1. r \in Seq(S) /\ Len(r) = Len(q) - 1
  BY <1>0, <1>a, <1>b, <1>c, ConcatProperties
<1>2. \A k \in 1 .. Len(q) - 1 : r[k] = IF k < i THEN q[k] ELSE q[k + 1]
  BY <1>0, <1>a, <1>b, <1>c, ConcatProperties
<1>3. NoRepeat(r)
  <2> SUFFICES ASSUME NEW k \in 1 .. Len(q) - 1, NEW m \in 1 .. Len(q) - 1,
                      r[k] = r[m]
               PROVE  k = m
    BY <1>1 DEF NoRepeat
  <2>1. \A x, y \in 1 .. Len(q) : q[x] = q[y] => x = y
    BY DEF NoRepeat
  <2> QED BY <2>1, <1>0, <1>2
<1>4. Range(r) \subseteq Range(q) \ {q[i]}
  BY <1>0, <1>1, <1>2 DEF Range, NoRepeat
<1>5. ASSUME NEW k \in 1 .. Len(q), k # i
      PROVE  \E m \in 1 .. Len(q) - 1 : r[m] = q[k]
  <2>1. CASE k < i
    BY <2>1, <1>0, <1>2
  <2>2. CASE k > i
    <3>1. k - 1 \in 1 .. Len(q) - 1 /\ r[k - 1] = q[k]
      BY <2>2, <1>0, <1>2
    <3> QED BY <3>1
  <2> QED BY <1>0, <1>5, <2>1, <2>2
<1>6. Range(q) \ {q[i]} \subseteq Range(r)
  BY <1>0, <1>1, <1>5 DEF Range
<1> QED BY <1>1, <1>3, <1>4, <1>6 DEF r

LEMMA PrependProperties ==
  ASSUME NEW S, NEW q \in Seq(S), NEW j \in S, NoRepeat(q), j \notin Range(q)
  PROVE  /\ <<j>> \o q \in Seq(S)
         /\ NoRepeat(<<j>> \o q)
         /\ Range(<<j>> \o q) = Range(q) \cup {j}
         /\ Len(<<j>> \o q) = Len(q) + 1
<1> DEFINE r == <<j>> \o q
<1>1. <<j>> \in Seq(S) /\ Len(<<j>>) = 1 /\ <<j>>[1] = j
  OBVIOUS
<1>2. /\ r \in Seq(S) /\ Len(r) = Len(q) + 1 /\ Len(q) \in Nat
      /\ \A k \in 1 .. Len(q) + 1 : r[k] = IF k = 1 THEN j ELSE q[k - 1]
  BY <1>1, ConcatProperties, LenProperties
<1>3. \A k \in 1 .. Len(q) : q[k] # j
  BY DEF Range
<1>4. NoRepeat(r)
  <2> HIDE DEF r
  <2> SUFFICES ASSUME NEW k \in 1 .. Len(q) + 1, NEW m \in 1 .. Len(q) + 1,
                      r[k] = r[m]
               PROVE  k = m
    BY <1>2 DEF NoRepeat
  <2>1. \A x, y \in 1 .. Len(q) : q[x] = q[y] => x = y
    BY DEF NoRepeat
  <2>2. k # 1 => k - 1 \in 1 .. Len(q) /\ r[k] = q[k - 1]
    BY <1>2
  <2>3. m # 1 => m - 1 \in 1 .. Len(q) /\ r[m] = q[m - 1]
    BY <1>2
  <2>4. r[1] = j
    BY <1>2
  <2> QED BY <2>1, <2>2, <2>3, <2>4, <1>3
<1>5. Range(r) \subseteq Range(q) \cup {j}
  <2> HIDE DEF r
  <2> QED BY <1>2 DEF Range
<1>6. Range(q) \cup {j} \subseteq Range(r)
  <2> HIDE DEF r
  <2>1. r[1] = j /\ 1 \in DOMAIN r
    BY <1>2
  <2>2. \A k \in 1 .. Len(q) : k + 1 \in DOMAIN r /\ r[k + 1] = q[k]
    BY <1>2
  <2>3. \A x \in Range(q) : \E k \in 1 .. Len(q) : x = q[k]
    BY DEF Range
  <2> QED BY <2>1, <2>2, <2>3 DEF Range
<1> QED BY <1>2, <1>4, <1>5, <1>6

LEMMA AppendKeepsNoRepeat ==
  ASSUME NEW S, NEW q \in Seq(S), NEW j \in S, NoRepeat(q), j \notin Range(q)
  PROVE  /\ Append(q, j) \in Seq(S)
         /\ NoRepeat(Append(q, j))
         /\ Range(Append(q, j)) = Range(q) \cup {j}
         /\ Len(Append(q, j)) = Len(q) + 1
<1> DEFINE r == Append(q, j)
<1>2. /\ r \in Seq(S) /\ Len(r) = Len(q) + 1 /\ Len(q) \in Nat
      /\ \A k \in 1 .. Len(q) + 1 : r[k] = IF k = Len(q) + 1 THEN j ELSE q[k]
  OBVIOUS
<1>3. \A k \in 1 .. Len(q) : q[k] # j
  BY DEF Range
<1>4. NoRepeat(r)
  <2> HIDE DEF r
  <2> SUFFICES ASSUME NEW k \in 1 .. Len(q) + 1, NEW m \in 1 .. Len(q) + 1,
                      r[k] = r[m]
               PROVE  k = m
    BY <1>2 DEF NoRepeat
  <2>1. \A x, y \in 1 .. Len(q) : q[x] = q[y] => x = y
    BY DEF NoRepeat
  <2> QED BY <2>1, <1>2, <1>3
<1>5. Range(r) = Range(q) \cup {j}
  <2> HIDE DEF r
  <2>1. r[Len(q) + 1] = j /\ Len(q) + 1 \in DOMAIN r
    BY <1>2
  <2>2. \A k \in 1 .. Len(q) : k \in DOMAIN r /\ r[k] = q[k]
    BY <1>2
  <2> QED BY <2>1, <2>2, <1>2 DEF Range
<1> QED BY <1>2, <1>4, <1>5

LEMMA ArrangeProperties ==
  ASSUME NEW S, NEW q \in Seq(S), NoRepeat(q), NEW F,
         NEW p \in Surjection(1 .. Len(q), 1 .. Len(q)), MovesToFront(p, F, Len(q)),
         NEW r, r = [i \in 1 .. Len(q) |-> q[p[i]]]
  PROVE  r \in Seq(S) /\ NoRepeat(r) /\ Range(r) = Range(q) /\ Len(r) = Len(q)
<1>0. \A i \in 1 .. Len(q) : p[i] \in 1 .. Len(q)
  BY DEF Surjection
<1>1. /\ p \in [1 .. Len(q) -> 1 .. Len(q)] /\ Len(q) \in Nat
      /\ \A k \in 1 .. Len(q) : \E i \in 1 .. Len(q) : p[i] = k
  BY DEF Surjection
<1>2. \A i, k \in 1 .. Len(q) : i < k => p[i] # p[k]
  <2> SUFFICES ASSUME NEW i \in 1 .. Len(q), NEW k \in 1 .. Len(q), i < k
               PROVE  p[i] # p[k]
    OBVIOUS
  <2>1. \/ p[i] \in F /\ p[k] \notin F
        \/ p[i] < p[k]
    BY DEF MovesToFront
  <2>2. p[i] \in Int /\ p[k] \in Int
    BY <1>0
  <2> QED BY <2>1, <2>2
<1>3. r \in Seq(S) /\ Len(r) = Len(q) /\ DOMAIN r = 1 .. Len(q)
  BY <1>1
<1>4. NoRepeat(r)
  <2> SUFFICES ASSUME NEW k \in 1 .. Len(q), NEW m \in 1 .. Len(q),
                      q[p[k]] = q[p[m]]
               PROVE  k = m
    BY <1>3 DEF NoRepeat
  <2>1. \A x, y \in 1 .. Len(q) : q[x] = q[y] => x = y
    BY DEF NoRepeat
  <2>2. p[k] = p[m]
    BY <2>1, <1>0
  <2> QED BY <2>2, <1>1, <1>2
<1>5. Range(r) = Range(q)
  BY <1>1, <1>3 DEF Range
<1> QED BY <1>3, <1>4, <1>5

(* The inductive invariant.  JobPlacedOnce alone is not inductive: that a  *)
(* new job is nowhere yet follows from OnlyIssued, and that a job put back *)
(* was neither failed nor ended from the other two.                        *)
Placement == JobPlacedOnce /\ FailedIsGone /\ OnlyIssued /\ EndedIsGone
LBInv == LBTypeOK /\ Placement

LEMMA QueueHasNoRepeat ==
  ASSUME LBInv
  PROVE  queue \in Seq(Jobs) /\ NoRepeat(queue)
BY DEF LBInv, LBTypeOK, Placement, JobPlacedOnce, NoRepeat

LEMMA InitPlaced == LBInit => LBInv
<1> SUFFICES ASSUME LBInit PROVE LBInv
  OBVIOUS
<1> USE BalancerAssumption DEF LBInit
<1>1. queue = <<>> /\ DOMAIN queue = {} /\ Queued = {}
  BY DEF Queued, Range
<1>2. Running = {} /\ Held = {}
  BY DEF Running, Held
<1>3. LBTypeOK
  BY <1>1 DEF LBTypeOK, Claimers
<1>4. Placement
  BY <1>1, <1>2 DEF Placement, JobPlacedOnce, FailedIsGone, OnlyIssued,
                    EndedIsGone, Placed
<1> QED BY <1>3, <1>4 DEF LBInv

LEMMA EnqueueKeepsPlacement ==
  ASSUME LBInv, NEW j \in Jobs, NEW n \in Nodes \cup {NoNode}, enqueue_job(j, n)
  PROVE  LBInv' /\ LossExplained
<1> USE BalancerAssumption
<1>1. j \notin Queued /\ j \notin Running /\ j \notin Held
      /\ j \notin failed /\ j \notin ended
  BY DEF LBInv, Placement, OnlyIssued, Placed, enqueue_job
<1>2. /\ queue' \in Seq(Jobs) /\ NoRepeat(queue') /\ Queued' = Queued \cup {j}
  BY <1>1, QueueHasNoRepeat, AppendKeepsNoRepeat DEF enqueue_job, Queued
<1>3. Running' = Running /\ Held' = Held
  BY DEF enqueue_job, Running, Held
<1>4. LBTypeOK'
  BY <1>2 DEF LBInv, LBTypeOK, enqueue_job, Claimers
<1>5. Placement'
  BY <1>1, <1>2, <1>3 DEF LBInv, Placement, JobPlacedOnce, FailedIsGone,
     OnlyIssued, EndedIsGone, Placed, NoRepeat, enqueue_job
<1>6. LossExplained
  BY <1>2, <1>3 DEF LossExplained, Placed
<1> QED BY <1>4, <1>5, <1>6 DEF LBInv

(* A step that moves no job and keeps the types keeps the invariant. *)
LEMMA NothingMovedKeepsPlacement ==
  ASSUME LBInv, LBTypeOK',
         UNCHANGED <<queue, active, failed, held, issued, ended>>
  PROVE  LBInv' /\ LossExplained
BY DEF LBInv, Placement, JobPlacedOnce, FailedIsGone, OnlyIssued, EndedIsGone,
       Placed, NoRepeat, Queued, Running, Held, LossExplained

LEMMA FailKeepsPlacement ==
  ASSUME LBInv, NEW j \in Jobs, fail(j)
  PROVE  LBInv' /\ LossExplained
<1>1. CASE j \notin Queued /\ UNCHANGED lbVars
  <2>1. LBTypeOK'
    BY <1>1 DEF lbVars, LBInv, LBTypeOK
  <2> QED BY <1>1, <2>1, NothingMovedKeepsPlacement DEF lbVars
<1>2. ASSUME NEW i \in DOMAIN queue, queue[i] = j, queue' = Cut(queue, i),
             failed' = failed \cup {j},
             UNCHANGED <<target, attempts, active, flags, accepting, held,
                         issued, ended>>
      PROVE  LBInv' /\ LossExplained
  <2>1. /\ queue' \in Seq(Jobs) /\ NoRepeat(queue')
        /\ Queued' = Queued \ {j} /\ j \in Queued
    BY <1>2, QueueHasNoRepeat, CutProperties DEF Queued, Range
  <2>2. Running' = Running /\ Held' = Held
    BY <1>2 DEF Running, Held
  <2>3. LBTypeOK'
    BY <1>2, <2>1 DEF LBInv, LBTypeOK
  <2>4. Placement'
    BY <1>2, <2>1, <2>2 DEF LBInv, Placement, JobPlacedOnce, FailedIsGone,
     OnlyIssued, EndedIsGone, Placed, NoRepeat
  <2>5. LossExplained
    BY <1>2, <2>1, <2>2 DEF LossExplained, Placed
  <2> QED BY <2>3, <2>4, <2>5 DEF LBInv
<1> QED BY <1>1, <1>2 DEF fail

LEMMA UnmovingMethods ==
  ASSUME LBInv,
         \/ \E b \in BOOLEAN : set_accepting(b)
         \/ \E n \in Nodes, b \in BOOLEAN : set_flag(n, b)
         \/ \E j \in Jobs, n \in Nodes : reserve(j, n)
         \/ \E j \in Jobs : assign_to_host(j)
  PROVE  LBInv' /\ LossExplained
<1> USE BalancerAssumption
<1>1. UNCHANGED <<queue, active, failed, held, issued, ended>>
  BY DEF set_accepting, set_flag, reserve, assign_to_host
<1>2. LBTypeOK'
  <2>1. ASSUME NEW b \in BOOLEAN, set_accepting(b) PROVE LBTypeOK'
    BY <2>1 DEF set_accepting, LBInv, LBTypeOK
  <2>2. ASSUME NEW n \in Nodes, NEW b \in BOOLEAN, set_flag(n, b)
        PROVE  LBTypeOK'
    BY <2>2 DEF set_flag, LBInv, LBTypeOK, Claimers
  <2>3. ASSUME NEW j \in Jobs, NEW n \in Nodes, reserve(j, n) PROVE LBTypeOK'
    BY <2>3 DEF reserve, LBInv, LBTypeOK, Claimers
  <2>4. ASSUME NEW j \in Jobs, assign_to_host(j) PROVE LBTypeOK'
    BY <2>4 DEF assign_to_host, LBInv, LBTypeOK, Claimers
  <2> QED BY <2>1, <2>2, <2>3, <2>4
<1> QED BY <1>1, <1>2, NothingMovedKeepsPlacement

LEMMA ClaimKeepsPlacement ==
  ASSUME LBInv, NEW n \in Claimers, claim(n)
  PROVE  LBInv' /\ LossExplained
<1> USE BalancerAssumption
<1>1. PICK i \in DOMAIN queue : /\ queue' = Cut(queue, i)
                                /\ active' = [active EXCEPT ![n] = queue[i]]
  BY DEF claim
<1>2. /\ queue' \in Seq(Jobs) /\ NoRepeat(queue')
      /\ Queued' = Queued \ {queue[i]} /\ queue[i] \in Queued
  BY <1>1, QueueHasNoRepeat, CutProperties DEF Queued, Range
<1>2a. queue[i] \in Jobs
  BY QueueHasNoRepeat
<1>3. active \in [Claimers -> Jobs \cup {NoJob}]
  BY DEF LBInv, LBTypeOK
<1>4. Running' \subseteq Running \cup {queue[i]} /\ Held' = Held
  BY <1>1, <1>3 DEF Running, Held, claim
<1>5. queue[i] \notin Running
  BY <1>2 DEF LBInv, Placement, JobPlacedOnce
<1>6. \A m, k \in Claimers :
        active'[m] = active'[k] => m = k \/ active'[m] = NoJob
  BY <1>1, <1>2, <1>2a, <1>3, <1>5 DEF Running, LBInv, Placement, JobPlacedOnce
<1>7. LBTypeOK'
  BY <1>1, <1>2, <1>2a DEF LBInv, LBTypeOK, claim
<1>8. Placement'
  BY <1>2, <1>4, <1>6 DEF LBInv, Placement, JobPlacedOnce, FailedIsGone,
     OnlyIssued, EndedIsGone, Placed, NoRepeat, claim
<1>9. LossExplained
  <2>1. Placed \subseteq Placed' \cup {active[n]}
    <3>1. queue[i] \in Running'
      BY <1>1, <1>2a, <1>3 DEF Running
    <3>2. Running \subseteq Running' \cup {active[n]}
      BY <1>1, <1>3 DEF Running
    <3> QED BY <1>2, <1>4, <3>1, <3>2 DEF Placed
  <2>2. active'[n] = queue[i] /\ queue[i] # NoJob
    BY <1>1, <1>2a, <1>3
  <2>3. active[n] # NoJob => active[n] \in Running
    BY DEF Running
  <2>4. NoJob \notin Placed
    BY DEF LBInv, LBTypeOK, Placed, Queued, Range, Running, Held
  <2>5. active[n] \in Placed => active'[n] \notin {active[n], NoJob}
    BY <1>2, <1>5, <2>2, <2>3, <2>4
  <2> QED BY <2>1, <2>5 DEF LossExplained
<1> QED BY <1>7, <1>8, <1>9 DEF LBInv

LEMMA RequeueFrontKeepsPlacement ==
  ASSUME LBInv, NEW j \in Jobs, requeue_front(j)
  PROVE  LBInv' /\ LossExplained
<1>1. CASE j \notin Queued /\ UNCHANGED lbVars
  <2>1. LBTypeOK'
    BY <1>1 DEF lbVars, LBInv, LBTypeOK
  <2> QED BY <1>1, <2>1, NothingMovedKeepsPlacement DEF lbVars
<1>2. ASSUME NEW i \in DOMAIN queue, queue[i] = j,
             queue' = <<j>> \o Cut(queue, i),
             target' = [target EXCEPT ![j] = NoNode],
             UNCHANGED <<attempts, active, failed, flags, accepting, held,
                         issued, ended>>
      PROVE  LBInv' /\ LossExplained
  <2> DEFINE r == Cut(queue, i)
  <2>1. /\ r \in Seq(Jobs) /\ NoRepeat(r)
        /\ Range(r) = Queued \ {j} /\ j \in Queued
    BY <1>2, QueueHasNoRepeat, CutProperties DEF Queued, Range
  <2>a. queue' = <<j>> \o r
    BY <1>2
  <2> HIDE DEF r
  <2>b. j \notin Range(r)
    BY <2>1
  <2>c. queue' \in Seq(Jobs) /\ NoRepeat(queue') /\ Range(queue') = Range(r) \cup {j}
    BY <2>a, <2>b, <2>1, PrependProperties
  <2>2. queue' \in Seq(Jobs) /\ NoRepeat(queue') /\ Queued' = Queued
    BY <2>c, <2>1 DEF Queued
  <2>3. Running' = Running /\ Held' = Held
    BY <1>2 DEF Running, Held
  <2>4. LBTypeOK'
    BY <1>2, <2>2 DEF LBInv, LBTypeOK
  <2>5. Placement'
    BY <1>2, <2>2, <2>3 DEF LBInv, Placement, JobPlacedOnce, FailedIsGone,
     OnlyIssued, EndedIsGone, Placed, NoRepeat
  <2>6. LossExplained
    BY <2>2, <2>3 DEF LossExplained, Placed
  <2> QED BY <2>4, <2>5, <2>6 DEF LBInv
<1> QED BY <1>1, <1>2 DEF requeue_front

LEMMA ReleaseKeepsPlacement ==
  ASSUME LBInv, NEW n \in Nodes, release_reservations_for(n)
  PROVE  LBInv' /\ LossExplained
<1> DEFINE S == {i \in 1 .. Len(queue) : target[queue[i]] = n}
<1>1. PICK p \in Surjection(1 .. Len(queue), 1 .. Len(queue)) :
        /\ MovesToFront(p, S, Len(queue))
        /\ queue' = [i \in 1 .. Len(queue) |-> queue[p[i]]]
  BY DEF release_reservations_for
<1> HIDE DEF S
<1>2. queue' \in Seq(Jobs) /\ NoRepeat(queue') /\ Queued' = Queued
  BY <1>1, QueueHasNoRepeat, ArrangeProperties DEF Queued
<1>3. Running' = Running /\ Held' = Held
  BY DEF Running, Held, release_reservations_for
<1>4. LBTypeOK'
  BY <1>2 DEF LBInv, LBTypeOK, release_reservations_for
<1>5. Placement'
  BY <1>2, <1>3 DEF LBInv, Placement, JobPlacedOnce, FailedIsGone,
     OnlyIssued, EndedIsGone, Placed, NoRepeat, release_reservations_for
<1>6. LossExplained
  BY <1>2, <1>3 DEF LossExplained, Placed
<1> QED BY <1>4, <1>5, <1>6 DEF LBInv

(* What emptying active[n] does to the set of running jobs. *)
LEMMA StopRunning ==
  ASSUME LBInv, NEW n \in Claimers, active[n] # NoJob,
         active' = [active EXCEPT ![n] = NoJob]
  PROVE  /\ active[n] \in Jobs /\ active[n] \in Running
         /\ Running' = Running \ {active[n]}
         /\ \A m, k \in Claimers :
              active'[m] = active'[k] => m = k \/ active'[m] = NoJob
         /\ active' \in [Claimers -> Jobs \cup {NoJob}]
<1>1. active \in [Claimers -> Jobs \cup {NoJob}]
  BY DEF LBInv, LBTypeOK
<1>2. \A m, k \in Claimers : active[m] = active[k] => m = k \/ active[m] = NoJob
  BY DEF LBInv, Placement, JobPlacedOnce
<1>3. Running' = Running \ {active[n]}
  BY <1>1, <1>2 DEF Running
<1> QED BY <1>1, <1>2, <1>3 DEF Running

LEMMA CancelKeepsPlacement ==
  ASSUME LBInv, NEW n \in Claimers, cancel_active(n)
  PROVE  LBInv' /\ LossExplained
<1>1. /\ active[n] \in Jobs /\ active[n] \in Running
      /\ Running' = Running \ {active[n]}
      /\ \A m, k \in Claimers :
           active'[m] = active'[k] => m = k \/ active'[m] = NoJob
      /\ active' \in [Claimers -> Jobs \cup {NoJob}]
  BY StopRunning DEF cancel_active
<1>2. Queued' = Queued /\ Held' = Held
  BY DEF Queued, Held, cancel_active
<1>3. LBTypeOK'
  BY <1>1 DEF LBInv, LBTypeOK, cancel_active
<1>4. Placement'
  BY <1>1, <1>2 DEF LBInv, Placement, JobPlacedOnce, FailedIsGone,
     OnlyIssued, EndedIsGone, Placed, NoRepeat, cancel_active
<1>5. LossExplained
  BY <1>1, <1>2 DEF LossExplained, Placed, cancel_active
<1> QED BY <1>3, <1>4, <1>5 DEF LBInv

LEMMA RequeueActiveKeepsPlacement ==
  ASSUME LBInv, NEW n \in Claimers, requeue_active_as_pending(n)
  PROVE  LBInv' /\ LossExplained
<1> DEFINE j == active[n]
<1>1. /\ j \in Jobs /\ j \in Running
      /\ Running' = Running \ {j}
      /\ \A m, k \in Claimers :
           active'[m] = active'[k] => m = k \/ active'[m] = NoJob
      /\ active' \in [Claimers -> Jobs \cup {NoJob}]
  BY StopRunning DEF requeue_active_as_pending
<1> HIDE DEF j
<1>2. j \notin Queued /\ j \notin Held /\ j \notin failed
  BY <1>1 DEF LBInv, Placement, JobPlacedOnce, FailedIsGone, Placed
<1>3. queue' = <<j>> \o queue
  BY DEF requeue_active_as_pending, j
<1>4. queue' \in Seq(Jobs) /\ NoRepeat(queue') /\ Queued' = Queued \cup {j}
  BY <1>1, <1>2, <1>3, QueueHasNoRepeat, PrependProperties DEF Queued
<1>5. Held' = Held
  BY DEF Held, requeue_active_as_pending
<1>6. LBTypeOK'
  BY <1>1, <1>4 DEF LBInv, LBTypeOK, requeue_active_as_pending
<1>7. Placement'
  BY <1>1, <1>2, <1>4, <1>5 DEF LBInv, Placement, JobPlacedOnce, FailedIsGone,
     OnlyIssued, EndedIsGone, Placed, NoRepeat,
     requeue_active_as_pending
<1>8. LossExplained
  BY <1>1, <1>4, <1>5 DEF LossExplained, Placed
<1> QED BY <1>6, <1>7, <1>8 DEF LBInv

LEMMA CompleteKeepsPlacement ==
  ASSUME LBInv, NEW c \in Callers, NEW n \in Claimers, NEW j \in Jobs,
         complete(c, n, j)
  PROVE  LBInv' /\ LossExplained
<1>1. /\ j = active[n] /\ j # NoJob
      /\ held[c] = NoJob /\ held' = [held EXCEPT ![c] = j]
  BY DEF complete
<1>2. /\ j \in Running /\ Running' = Running \ {j}
      /\ \A m, k \in Claimers :
           active'[m] = active'[k] => m = k \/ active'[m] = NoJob
      /\ active' \in [Claimers -> Jobs \cup {NoJob}]
  BY <1>1, StopRunning DEF complete
<1>3. held \in [Callers -> Jobs \cup {NoJob}] /\ j \notin Held /\ j \notin Queued
  BY <1>2 DEF LBInv, LBTypeOK, Placement, JobPlacedOnce
<1>4. /\ Held' = Held \cup {j}
      /\ \A a, d \in Callers : held'[a] = held'[d] => a = d \/ held'[a] = NoJob
  BY <1>1, <1>3 DEF Held, LBInv, Placement, JobPlacedOnce
<1>5. Queued' = Queued
  BY DEF Queued, complete
<1>6. LBTypeOK'
  BY <1>1, <1>2 DEF LBInv, LBTypeOK, complete
<1>7. Placement'
  BY <1>2, <1>3, <1>4, <1>5 DEF LBInv, Placement, JobPlacedOnce, FailedIsGone,
     OnlyIssued, EndedIsGone, Placed, NoRepeat, complete
<1>8. LossExplained
  BY <1>2, <1>4, <1>5 DEF LossExplained, Placed
<1> QED BY <1>6, <1>7, <1>8 DEF LBInv

(* What letting go of held[c] does to the set of held jobs. *)
LEMMA LetGo ==
  ASSUME LBInv, NEW c \in Callers, held[c] # NoJob,
         held' = [held EXCEPT ![c] = NoJob]
  PROVE  /\ held[c] \in Jobs /\ held[c] \in Held
         /\ Held' = Held \ {held[c]}
         /\ \A a, d \in Callers :
              held'[a] = held'[d] => a = d \/ held'[a] = NoJob
         /\ held' \in [Callers -> Jobs \cup {NoJob}]
<1>1. held \in [Callers -> Jobs \cup {NoJob}]
  BY DEF LBInv, LBTypeOK
<1>2. \A a, d \in Callers : held[a] = held[d] => a = d \/ held[a] = NoJob
  BY DEF LBInv, Placement, JobPlacedOnce
<1>3. Held' = Held \ {held[c]}
  BY <1>1, <1>2 DEF Held
<1> QED BY <1>1, <1>2, <1>3 DEF Held

LEMMA ReturnKeepsPlacement ==
  ASSUME LBInv, NEW c \in Callers, return_job_to_pending(c)
  PROVE  LBInv' /\ LossExplained
<1> DEFINE j == held[c]
<1>1. /\ j \in Jobs /\ j \in Held /\ Held' = Held \ {j}
      /\ \A a, d \in Callers : held'[a] = held'[d] => a = d \/ held'[a] = NoJob
      /\ held' \in [Callers -> Jobs \cup {NoJob}]
  BY LetGo DEF return_job_to_pending
<1>2. queue' = <<j>> \o queue /\ target' = [target EXCEPT ![j] = NoNode]
      /\ failed' = failed \ {j}
  BY DEF return_job_to_pending
<1> HIDE DEF j
<1>3. j \notin Queued /\ j \notin Running /\ j \notin failed /\ j \notin ended
  BY <1>1 DEF LBInv, Placement, JobPlacedOnce, FailedIsGone, EndedIsGone, Placed
<1>4. queue' \in Seq(Jobs) /\ NoRepeat(queue') /\ Queued' = Queued \cup {j}
  BY <1>1, <1>2, <1>3, QueueHasNoRepeat, PrependProperties DEF Queued
<1>5. Running' = Running
  BY DEF Running, return_job_to_pending
<1>6. LBTypeOK'
  BY <1>1, <1>2, <1>4 DEF LBInv, LBTypeOK, return_job_to_pending
<1>7. Placement'
  BY <1>1, <1>2, <1>3, <1>4, <1>5 DEF LBInv, Placement, JobPlacedOnce,
     FailedIsGone, OnlyIssued, EndedIsGone, Placed, NoRepeat,
     return_job_to_pending
<1>8. LossExplained
  BY <1>1, <1>4, <1>5 DEF LossExplained, Placed
<1> QED BY <1>6, <1>7, <1>8 DEF LBInv

LEMMA DiscardKeepsPlacement ==
  ASSUME LBInv, NEW c \in Callers, discard(c)
  PROVE  LBInv' /\ LossExplained
<1>1. /\ held[c] \in Jobs /\ held[c] \in Held /\ Held' = Held \ {held[c]}
      /\ \A a, d \in Callers : held'[a] = held'[d] => a = d \/ held'[a] = NoJob
      /\ held' \in [Callers -> Jobs \cup {NoJob}]
  BY LetGo DEF discard
<1>2. Queued' = Queued /\ Running' = Running
  BY DEF Queued, Running, discard
<1>3. LBTypeOK'
  BY <1>1 DEF LBInv, LBTypeOK, discard
<1>4. Placement'
  BY <1>1, <1>2 DEF LBInv, Placement, JobPlacedOnce, FailedIsGone,
     OnlyIssued, EndedIsGone, Placed, NoRepeat, discard
<1>5. LossExplained
  BY <1>1, <1>2 DEF LossExplained, Placed, discard
<1> QED BY <1>3, <1>4, <1>5 DEF LBInv

LEMMA DrainKeepsPlacement ==
  ASSUME LBInv, drain_all
  PROVE  LBInv' /\ LossExplained
<1> USE BalancerAssumption
<1>1. /\ queue' = <<>> /\ DOMAIN queue' = {} /\ Queued' = {}
      /\ queue' \in Seq(Jobs)
  BY DEF drain_all, Queued, Range
<1>2. Running' = {} /\ Held' = Held
  BY DEF drain_all, Running, Held
<1>3. Queued \subseteq Jobs /\ Running \subseteq Jobs
  <2>1. Queued \subseteq Jobs
    BY DEF LBInv, LBTypeOK, Queued, Range
  <2>2. Running \subseteq Jobs
    BY DEF LBInv, LBTypeOK, Running
  <2> QED BY <2>1, <2>2
<1>4. LBTypeOK'
  BY <1>1, <1>3 DEF LBInv, LBTypeOK, drain_all
<1>5. Placement'
  BY <1>1, <1>2 DEF LBInv, Placement, JobPlacedOnce, FailedIsGone,
     OnlyIssued, EndedIsGone, Placed, NoRepeat, drain_all
<1>6. LossExplained
  BY <1>1, <1>2 DEF LossExplained, Placed, drain_all
<1> QED BY <1>4, <1>5, <1>6 DEF LBInv

LEMMA NextKeepsPlacement == LBInv /\ [LBNext]_lbVars => LBInv' /\ LossExplained
<1> SUFFICES ASSUME LBInv, [LBNext]_lbVars PROVE LBInv' /\ LossExplained
  OBVIOUS
<1>1. CASE UNCHANGED lbVars
  <2>1. LBTypeOK'
    BY <1>1 DEF lbVars, LBInv, LBTypeOK
  <2> QED BY <1>1, <2>1, NothingMovedKeepsPlacement DEF lbVars
<1>2. ASSUME \/ \E b \in BOOLEAN : set_accepting(b)
             \/ \E n \in Nodes, b \in BOOLEAN : set_flag(n, b)
             \/ \E j \in Jobs, n \in Nodes : reserve(j, n)
             \/ \E j \in Jobs : assign_to_host(j)
      PROVE  LBInv' /\ LossExplained
  BY <1>2, UnmovingMethods
<1>3. ASSUME NEW j \in Jobs, NEW n \in Nodes \cup {NoNode}, enqueue_job(j, n)
      PROVE  LBInv' /\ LossExplained
  BY <1>3, EnqueueKeepsPlacement
<1>4. ASSUME NEW j \in Jobs, fail(j) \/ drop_pending(j) PROVE LBInv' /\ LossExplained
  BY <1>4, FailKeepsPlacement DEF drop_pending
<1>5. ASSUME NEW n \in Claimers, claim(n) PROVE LBInv' /\ LossExplained
  BY <1>5, ClaimKeepsPlacement
<1>6. ASSUME NEW j \in Jobs, requeue_front(j) PROVE LBInv' /\ LossExplained
  BY <1>6, RequeueFrontKeepsPlacement
<1>7. ASSUME NEW n \in Nodes, release_reservations_for(n) PROVE LBInv' /\ LossExplained
  BY <1>7, ReleaseKeepsPlacement
<1>8. ASSUME NEW n \in Claimers, cancel_active(n) PROVE LBInv' /\ LossExplained
  BY <1>8, CancelKeepsPlacement
<1>9. ASSUME NEW n \in Claimers, requeue_active_as_pending(n) PROVE LBInv' /\ LossExplained
  BY <1>9, RequeueActiveKeepsPlacement
<1>10. ASSUME NEW c \in Callers, NEW n \in Claimers, NEW j \in Jobs,
              complete(c, n, j)
       PROVE  LBInv' /\ LossExplained
  BY <1>10, CompleteKeepsPlacement
<1>11. ASSUME NEW c \in Callers, return_job_to_pending(c) PROVE LBInv' /\ LossExplained
  BY <1>11, ReturnKeepsPlacement
<1>12. ASSUME NEW c \in Callers, discard(c) PROVE LBInv' /\ LossExplained
  BY <1>12, DiscardKeepsPlacement
<1>13. CASE drain_all
  BY <1>13, DrainKeepsPlacement
<1> QED
  BY <1>1, <1>2, <1>3, <1>4, <1>5, <1>6, <1>7, <1>8, <1>9, <1>10, <1>11, <1>12,
     <1>13 DEF LBNext

(* The invariant holds in every reachable state of the balancer, whatever  *)
(* the callers of its methods do.                                          *)
THEOREM Invariance == LBSpec => []LBInv
  BY InitPlaced, NextKeepsPlacement, PTL DEF LBSpec

(* The balancer's fields keep their types. *)
THEOREM TypesHold == LBSpec => []LBTypeOK
<1>1. LBInv => LBTypeOK
  BY DEF LBInv
<1> QED BY <1>1, Invariance, PTL

(* No sequence of calls puts a job in two places: twice in the queue, on   *)
(* two nodes, or in the queue while a node runs it or a caller holds it.   *)
THEOREM PlacedOnce == LBSpec => []JobPlacedOnce
<1>1. LBInv => JobPlacedOnce
  BY DEF LBInv, Placement
<1> QED BY <1>1, Invariance, PTL

(* A failed job is neither queued nor running, so a failure reported to a  *)
(* chat is final.                                                          *)
THEOREM FailureIsFinal == LBSpec => []FailedIsGone
<1>1. LBInv => FailedIsGone
  BY DEF LBInv, Placement
<1> QED BY <1>1, Invariance, PTL

(* A job whose result was used is never served again. *)
THEOREM ResultsAreFinal == LBSpec => []EndedIsGone
<1>1. LBInv => EndedIsGone
  BY DEF LBInv, Placement
<1> QED BY <1>1, Invariance, PTL

(* No method forgets a job: one that is no longer queued, running or held  *)
(* was recorded as failed or ended in that very step, or claim() wrote     *)
(* another job over it.                                                    *)
THEOREM OnlyClaimLosesJobs == LBSpec => LossOnlyByOverwrite
<1>1. LBInv /\ [LBNext]_lbVars => [LossExplained]_lbVars
  BY NextKeepsPlacement
<1> QED BY <1>1, Invariance, PTL DEF LBSpec, LossOnlyByOverwrite
=============================================================================

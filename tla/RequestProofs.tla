--------------------------- MODULE RequestProofs ---------------------------
(***************************************************************************)
(* What a request passes before it does anything: the safety properties of *)
(* LifecycleGate, proved for every finite set of readers and writers, and  *)
(* those of RateLimiter, for any keys, limits and windows.                 *)
(***************************************************************************)
EXTENDS LifecycleGate, RateLimiter, FiniteSetTheorems, WellFoundedInduction, TLAPS

-----------------------------------------------------------------------------
(* The gate.                                                               *)

(* The writers that have to wait for another to end. *)
Waiters == {w \in Writers : pc[w] = "queued"}

(* Both counters count what they are named for. *)
Counted ==
    /\ readers = Cardinality(Inside)
    /\ pending = Cardinality(Waiters)

(* The running writer is the owner of the write lock. *)
Owned ==
    /\ writer <=> runner # NoWriter
    /\ \A w \in Writers : pc[w] \in Running <=> runner = w

(* The gate is shut to readers as long as a writer is announced, and work  *)
(* is refused only then. *)
Announces ==
    /\ waiting <=> \E w \in Writers : pc[w] \in Announced
    /\ ~waiting => accepting

GateInv ==
    /\ GateTypeOK
    /\ Counted
    /\ Owned
    /\ Announces
    /\ PurgesAlone
    /\ SameRoomThroughout
    /\ ShutWhilePurging

-----------------------------------------------------------------------------
(* Counting the readers inside and the writers that queue.                 *)

LEMMA OneMore ==
  ASSUME NEW S, NEW T, NEW x, IsFiniteSet(S), x \notin S, T = S \cup {x}
  PROVE  Cardinality(T) = Cardinality(S) + 1
  BY FS_AddElement

LEMMA OneLess ==
  ASSUME NEW S, NEW T, NEW x, IsFiniteSet(S), x \in S, T = S \ {x}
  PROVE  Cardinality(T) = Cardinality(S) - 1
  BY FS_RemoveElement

LEMMA FiniteInside == IsFiniteSet(Inside) /\ Cardinality(Inside) \in Nat
<1>1. Inside \in SUBSET Readers
  BY DEF Inside
<1> QED BY <1>1, FS_Subset, FS_CardinalityType, GateAssumption

LEMMA FiniteWaiters == IsFiniteSet(Waiters) /\ Cardinality(Waiters) \in Nat
<1>1. Waiters \in SUBSET Writers
  BY DEF Waiters
<1> QED BY <1>1, FS_Subset, FS_CardinalityType, GateAssumption

-----------------------------------------------------------------------------
LEMMA InitGate == GateInit => GateInv
<1> SUFFICES ASSUME GateInit PROVE GateInv
  OBVIOUS
<1> USE DEF GateInit, GateAssumption
<1>1. GateTypeOK
  BY DEF GateTypeOK
<1>2. Inside = {} /\ Waiters = {}
  BY DEF Inside, InSection, Waiters
<1>3. Counted
  BY <1>2, FS_EmptySet DEF Counted, Waiters
<1>4. Owned /\ Announces
  BY GateAssumption DEF Owned, Announces, Announced, Running, Purging
<1>5. PurgesAlone /\ SameRoomThroughout /\ ShutWhilePurging
  BY DEF PurgesAlone, SameRoomThroughout, ShutWhilePurging, Purging, Running
<1> QED BY <1>1, <1>3, <1>4, <1>5 DEF GateInv
-----------------------------------------------------------------------------
(* Readers.  A reader's step leaves what is said of the writers alone.     *)

LEMMA ReaderFrame ==
  ASSUME GateInv, NEW r \in Readers,
         NEW x, pc' = [pc EXCEPT ![r] = x],
         UNCHANGED <<writer, waiting, pending, runner, accepting>>
  PROVE  /\ \A w \in Writers : pc'[w] = pc[w]
         /\ Waiters' = Waiters
         /\ Owned' /\ Announces' /\ ShutWhilePurging'
<1>1. \A w \in Writers : pc'[w] = pc[w]
  BY GateAssumption DEF GateInv, GateTypeOK
<1>2. Waiters' = Waiters
  BY <1>1 DEF Waiters
<1>3. Owned'
  BY <1>1 DEF GateInv, Owned
<1>4. Announces'
  BY <1>1 DEF GateInv, Announces
<1>5. ShutWhilePurging'
  BY <1>1 DEF GateInv, ShutWhilePurging
<1> QED BY <1>1, <1>2, <1>3, <1>4, <1>5

LEMMA EnterSection ==
  ASSUME GateInv, NEW r \in Readers, mutation_section(r)
  PROVE  GateInv'
<1> USE DEF GateInv, mutation_section
<1>0. pc' = [pc EXCEPT ![r] = "inside"]
  OBVIOUS
<1>1. /\ \A w \in Writers : pc'[w] = pc[w]
      /\ Waiters' = Waiters
      /\ Owned' /\ Announces' /\ ShutWhilePurging'
  BY <1>0, ReaderFrame
<1>2. GateTypeOK'
  BY DEF GateTypeOK, InSection
<1>3. Counted'
  <2>1. r \notin Inside /\ Inside' = Inside \cup {r}
    BY DEF GateTypeOK, Inside, InSection
  <2>2. Cardinality(Inside') = Cardinality(Inside) + 1
    BY <2>1, OneMore, FiniteInside
  <2> QED BY <1>1, <2>2 DEF Counted
<1>4. PurgesAlone'
  <2>1. \A w \in Writers : pc[w] \notin Running
    BY GateAssumption DEF Owned
  <2> QED BY <1>1, <2>1 DEF PurgesAlone, Running
<1>5. SameRoomThroughout'
  BY DEF GateTypeOK, SameRoomThroughout
<1> QED BY <1>1, <1>2, <1>3, <1>4, <1>5

(* Inside a section nobody purges. *)
LEMMA NobodyPurges ==
  ASSUME GateInv, NEW r \in Readers, pc[r] \in InSection
  PROVE  r \in Inside /\ \A w \in Writers : pc[w] \notin Purging
  BY DEF GateInv, PurgesAlone, Inside

LEMMA MoveInSection ==
  ASSUME GateInv, NEW r \in Readers,
         require_alive(r) \/ token_alive(r) \/ mutate(r) \/ commit_section(r)
  PROVE  GateInv'
<1> USE DEF GateInv
<1>1. PICK x \in InSection :
        /\ pc[r] \in InSection
        /\ pc' = [pc EXCEPT ![r] = x]
        /\ x \in {"checked", "changed"} /\ pc[r] \notin {"checked", "changed"}
             => seen' = [seen EXCEPT ![r] = generation]
        /\ seen' \in {seen, [seen EXCEPT ![r] = generation]}
  <2>1. CASE require_alive(r)
    BY <2>1 DEF require_alive, InSection
  <2>2. CASE token_alive(r)
    BY <2>2 DEF token_alive, InSection
  <2>3. CASE mutate(r)
    BY <2>3 DEF mutate, InSection
  <2>4. CASE commit_section(r)
    BY <2>4 DEF commit_section, InSection
  <2> QED BY <2>1, <2>2, <2>3, <2>4
<1>2. UNCHANGED <<readers, writer, waiting, pending, runner, accepting,
                  generation, ahead>>
  BY DEF require_alive, token_alive, mutate, commit_section
<1>3. /\ \A w \in Writers : pc'[w] = pc[w]
      /\ Waiters' = Waiters
      /\ Owned' /\ Announces' /\ ShutWhilePurging'
  BY <1>1, <1>2, ReaderFrame
<1>4. GateTypeOK'
  BY <1>1, <1>2 DEF GateTypeOK
<1>5. Inside' = Inside
  BY <1>1 DEF Inside, GateTypeOK
<1>6. Counted'
  BY <1>2, <1>3, <1>5 DEF Counted
<1>7. PurgesAlone'
  BY <1>1, <1>3, NobodyPurges DEF PurgesAlone
<1>8. SameRoomThroughout'
  BY <1>1, <1>2 DEF GateTypeOK, SameRoomThroughout
<1> QED BY <1>3, <1>4, <1>6, <1>7, <1>8

LEMMA LeaveSection ==
  ASSUME GateInv, NEW r \in Readers, leave_section(r)
  PROVE  GateInv'
<1> USE DEF GateInv, leave_section
<1>0. pc' = [pc EXCEPT ![r] = "idle"] /\ pc[r] \in InSection
  BY DEF InSection
<1>1. /\ \A w \in Writers : pc'[w] = pc[w]
      /\ Waiters' = Waiters
      /\ Owned' /\ Announces' /\ ShutWhilePurging'
  BY <1>0, ReaderFrame
<1>2. Cardinality(Inside') = readers - 1 /\ readers - 1 \in Nat
  <2>1. r \in Inside /\ Inside' = Inside \ {r}
    BY <1>0 DEF GateTypeOK, Inside, InSection
  <2>2. Cardinality(Inside') = Cardinality(Inside) - 1
    BY <2>1, OneLess, FiniteInside
  <2>3. Inside' \in SUBSET Inside
    BY <2>1
  <2>4. Cardinality(Inside') \in Nat
    BY <2>3, FS_Subset, FS_CardinalityType, FiniteInside
  <2> QED BY <2>2, <2>4 DEF Counted
<1>3. GateTypeOK'
  BY <1>2 DEF GateTypeOK
<1>4. Counted'
  BY <1>1, <1>2 DEF Counted
<1>5. PurgesAlone'
  BY <1>0, <1>1, NobodyPurges DEF PurgesAlone
<1>6. SameRoomThroughout'
  BY <1>0 DEF GateTypeOK, SameRoomThroughout
<1> QED BY <1>1, <1>3, <1>4, <1>5, <1>6
-----------------------------------------------------------------------------
(* Writers.  A writer's step leaves the readers inside where they are.     *)

LEMMA WriterFrame ==
  ASSUME GateInv, NEW w \in Writers, NEW x, pc' = [pc EXCEPT ![w] = x]
  PROVE  /\ \A r \in Readers : pc'[r] = pc[r]
         /\ Inside' = Inside
         /\ pc'[w] = x
         /\ \A v \in Writers : v # w => pc'[v] = pc[v]
<1>1. \A r \in Readers : pc'[r] = pc[r]
  BY GateAssumption DEF GateInv, GateTypeOK
<1>2. Inside' = Inside
  BY <1>1 DEF Inside
<1> QED BY <1>1, <1>2 DEF GateInv, GateTypeOK

LEMMA NobodyRuns ==
  ASSUME GateInv, ~writer
  PROVE  \A w \in Writers : pc[w] \notin Running
  BY GateAssumption DEF GateInv, Owned

(* What arrive and acquire share: the write lock is taken. *)
LEMMA Begin ==
  ASSUME GateInv, NEW w \in Writers, ~writer, begin(w), waiting',
         waiting' \in BOOLEAN,
         pending' \in Nat, pending' = Cardinality(Waiters'),
         ahead' \in [Writers -> SUBSET Writers],
         UNCHANGED <<readers, seen, generation>>
  PROVE  GateInv'
<1> USE DEF GateInv
<1> DEFINE x == IF readers = 0 THEN "purge" ELSE "drain"
<1>0. pc' = [pc EXCEPT ![w] = x] /\ x \in Running
  BY DEF begin, Running, Purging
<1>1. /\ \A r \in Readers : pc'[r] = pc[r]
      /\ Inside' = Inside
      /\ pc'[w] = x
      /\ \A v \in Writers : v # w => pc'[v] = pc[v]
  BY <1>0, WriterFrame
<1>2. /\ x = "purge" => Inside = {} /\ ~accepting'
      /\ x # "purge" => x \notin Purging
  <2>1. readers = 0 => Inside = {}
    BY FiniteInside, FS_EmptySet DEF Counted
  <2>2. readers = 0 => ~accepting'
    <3>1. readers = 0 => ~(readers > 0)
      OBVIOUS
    <3>2. accepting' = (accepting /\ readers > 0)
      BY DEF begin
    <3> QED BY <3>1, <3>2, Zenon
  <2> QED BY <2>1, <2>2 DEF Purging
<1>3. writer' /\ writer' \in BOOLEAN /\ runner' = w /\ accepting' \in BOOLEAN
  BY DEF begin
<1>4. \A v \in Writers : pc[v] \notin Running
  BY NobodyRuns
<1> HIDE DEF x
<1>5. GateTypeOK'
  BY <1>0, <1>3 DEF GateTypeOK
<1>6. Counted'
  BY <1>1 DEF Counted
<1>7. Owned'
  BY <1>0, <1>1, <1>3, <1>4, GateAssumption DEF Owned
<1>8. Announces'
  BY <1>0, <1>1 DEF Announces, Announced
<1>9. PurgesAlone'
  BY <1>1, <1>2, <1>4 DEF PurgesAlone, Running, Purging
<1>10. SameRoomThroughout'
  BY <1>1 DEF SameRoomThroughout
<1>11. ShutWhilePurging'
  BY <1>1, <1>2, <1>3, <1>4 DEF ShutWhilePurging, Running, Purging
<1> QED BY <1>5, <1>6, <1>7, <1>8, <1>9, <1>10, <1>11

LEMMA Arrive ==
  ASSUME GateInv, NEW w \in Writers, arrive(w)
  PROVE  GateInv'
<1> USE DEF GateInv
<1>0. waiting' /\ waiting' \in BOOLEAN /\ ahead' \in [Writers -> SUBSET Writers]
  BY DEF arrive, GateTypeOK
<1>1. pc[w] = "idle" /\ UNCHANGED <<readers, seen, generation>>
  BY DEF arrive
<1>2. CASE ~writer
  <2>1. begin(w) /\ pending' = pending
    BY <1>2 DEF arrive
  <2>2. Waiters' = Waiters
    BY <1>1, <2>1, WriterFrame DEF begin, Waiters
  <2>3. pending' \in Nat /\ pending' = Cardinality(Waiters')
    BY <2>1, <2>2 DEF Counted, GateTypeOK
  <2> QED BY <1>0, <1>1, <1>2, <2>1, <2>3, Begin
<1>3. CASE writer
  <2>1. /\ pc' = [pc EXCEPT ![w] = "queued"]
        /\ pending' = pending + 1
        /\ UNCHANGED <<writer, runner, accepting>>
    BY <1>3 DEF arrive
  <2>2. /\ \A r \in Readers : pc'[r] = pc[r]
        /\ Inside' = Inside
        /\ pc'[w] = "queued"
        /\ \A v \in Writers : v # w => pc'[v] = pc[v]
    BY <2>1, WriterFrame
  <2>3. GateTypeOK'
    BY <1>0, <1>1, <2>1 DEF GateTypeOK
  <2>4. Counted'
    <3>1. w \notin Waiters /\ Waiters' = Waiters \cup {w}
      BY <1>1, <2>2 DEF Waiters
    <3>2. Cardinality(Waiters') = Cardinality(Waiters) + 1
      BY <3>1, OneMore, FiniteWaiters
    <3> QED BY <1>1, <2>1, <2>2, <3>2 DEF Counted
  <2>5. Owned'
    BY <1>1, <2>1, <2>2 DEF Owned, Running, Purging
  <2>6. Announces'
    BY <1>0, <2>2 DEF Announces, Announced
  <2>7. PurgesAlone' /\ SameRoomThroughout'
    BY <1>1, <2>2 DEF PurgesAlone, SameRoomThroughout, Running, Purging
  <2>8. ShutWhilePurging'
    BY <1>3, <2>1, <2>2 DEF ShutWhilePurging, Purging
  <2> QED BY <2>3, <2>4, <2>5, <2>6, <2>7, <2>8
<1> QED BY <1>2, <1>3

LEMMA Acquire ==
  ASSUME GateInv, NEW w \in Writers, acquire(w)
  PROVE  GateInv'
<1> USE DEF GateInv
<1>1. /\ pc[w] = "queued" /\ ~writer /\ begin(w)
      /\ pending' = pending - 1
      /\ UNCHANGED <<readers, waiting, seen, generation, ahead>>
  BY DEF acquire
<1>2. waiting' /\ waiting' \in BOOLEAN
  BY <1>1 DEF Announces, Announced, GateTypeOK
<1>3. pending' \in Nat /\ pending' = Cardinality(Waiters')
  <2>0. pc' = [pc EXCEPT ![w] = IF readers = 0 THEN "purge" ELSE "drain"]
    BY <1>1 DEF begin
  <2>1. w \in Waiters /\ Waiters' = Waiters \ {w}
    BY <1>1, <2>0 DEF GateTypeOK, Waiters
  <2>2. Cardinality(Waiters') = Cardinality(Waiters) - 1
    BY <2>1, OneLess, FiniteWaiters
  <2>3. Waiters' \in SUBSET Waiters
    BY <2>1
  <2>4. Cardinality(Waiters') \in Nat
    BY <2>3, FS_Subset, FS_CardinalityType, FiniteWaiters
  <2> QED BY <1>1, <2>2, <2>4 DEF Counted
<1>4. ahead' \in [Writers -> SUBSET Writers]
  BY <1>1 DEF GateTypeOK
<1> QED BY <1>1, <1>2, <1>3, <1>4, Begin
(* A running writer is alone, and holds the lock. *)
LEMMA RunsAlone ==
  ASSUME GateInv, NEW w \in Writers, pc[w] \in Running
  PROVE  /\ writer /\ runner = w
         /\ \A v \in Writers : pc[v] \in Running => v = w
  BY GateAssumption DEF GateInv, Owned

(* The drained and the purging writer move on, and the room may end. *)
LEMMA Advance ==
  ASSUME GateInv, NEW w \in Writers, drained(w) \/ purge(w) \/ finish(w)
  PROVE  GateInv'
<1> USE DEF GateInv
<1>1. PICK x \in Purging : pc[w] \in Running /\ pc' = [pc EXCEPT ![w] = x]
  BY DEF drained, purge, finish, Running, Purging
<1>2. /\ UNCHANGED <<readers, writer, waiting, pending, runner, seen, ahead>>
      /\ generation' \in {generation, generation + 1}
      /\ ~accepting' /\ accepting' \in BOOLEAN
      /\ Inside = {}
  <2>1. CASE drained(w)
    <3>1. Inside = {}
      BY <2>1, FiniteInside, FS_EmptySet DEF drained, Counted
    <3> QED BY <2>1, <3>1 DEF drained
  <2>2. CASE purge(w) \/ finish(w)
    <3>1. pc[w] \in Purging
      BY <2>2 DEF purge, finish, Purging
    <3>2. Inside = {} /\ ~accepting
      BY <3>1 DEF PurgesAlone, ShutWhilePurging
    <3>3. accepting' = accepting
      BY <2>2 DEF purge, finish
    <3> QED BY <2>2, <3>2, <3>3 DEF purge, finish, GateTypeOK
  <2> QED BY <2>1, <2>2
<1>3. /\ \A r \in Readers : pc'[r] = pc[r]
      /\ Inside' = Inside
      /\ pc'[w] = x
      /\ \A v \in Writers : v # w => pc'[v] = pc[v]
  BY <1>1, WriterFrame
<1>4. /\ writer /\ runner = w
      /\ \A v \in Writers : pc[v] \in Running => v = w
  BY <1>1, RunsAlone
<1>5. x \in Running
  BY DEF Running
<1>6. GateTypeOK'
  BY <1>1, <1>2, <1>5 DEF GateTypeOK
<1>7. Counted'
  <2>1. pc[w] # "queued" /\ pc'[w] # "queued"
    BY <1>1, <1>3, <1>5 DEF Running, Purging
  <2>2. Waiters' = Waiters
    BY <1>3, <2>1 DEF Waiters
  <2> QED BY <1>2, <1>3, <2>2 DEF Counted
<1>8. Owned'
  BY <1>2, <1>3, <1>4, <1>5 DEF Owned
<1>9. Announces'
  <2>1. waiting
    BY <1>1 DEF Announces, Announced
  <2> QED BY <1>2, <1>3, <1>5, <2>1 DEF Announces, Announced
<1>10. PurgesAlone'
  <2>1. Inside' = {}
    BY <1>2, <1>3
  <2>2. \A v \in Writers : pc'[v] \in Running => v = w
    BY <1>3, <1>4
  <2>3. Purging \subseteq Running
    BY DEF Running
  <2> QED BY <2>1, <2>2, <2>3 DEF PurgesAlone
<1>11. SameRoomThroughout'
  <2>1. \A r \in Readers : pc'[r] \notin InSection
    BY <1>2, <1>3 DEF Inside
  <2> QED BY <2>1 DEF SameRoomThroughout, InSection
<1>12. ShutWhilePurging'
  BY <1>2 DEF ShutWhilePurging
<1> QED BY <1>6, <1>7, <1>8, <1>9, <1>10, <1>11, <1>12

LEMMA Reset ==
  ASSUME GateInv, NEW w \in Writers, reset(w)
  PROVE  GateInv'
<1> USE DEF GateInv
<1>1. /\ pc[w] = "reset" /\ pc' = [pc EXCEPT ![w] = "done"]
      /\ ~writer' /\ writer' \in BOOLEAN /\ runner' = NoWriter
      /\ waiting' = (pending > 0)
      /\ accepting' = (pending = 0)
      /\ UNCHANGED <<readers, pending, seen, generation, ahead>>
  BY DEF reset
<1>2. /\ \A r \in Readers : pc'[r] = pc[r]
      /\ Inside' = Inside
      /\ pc'[w] = "done"
      /\ \A v \in Writers : v # w => pc'[v] = pc[v]
  BY <1>1, WriterFrame
<1>3. \A v \in Writers : pc[v] \in Running => v = w
  BY <1>1, RunsAlone DEF Running, Purging
<1>4. Waiters' = Waiters
  BY <1>1, <1>2 DEF Waiters
<1>5. \A v \in Writers : pc'[v] \notin Running
  BY <1>2, <1>3 DEF Running, Purging
<1>6. /\ waiting' \in BOOLEAN /\ waiting' <=> Waiters' # {}
      /\ accepting' \in BOOLEAN /\ accepting' <=> Waiters' = {}
  <2>1. pending \in Nat /\ (pending = 0 <=> Waiters = {})
    BY FiniteWaiters, FS_EmptySet DEF Counted
  <2>2. pending > 0 <=> ~(pending = 0)
    BY <2>1
  <2> QED BY <1>1, <1>4, <2>1, <2>2, Zenon
<1>7. GateTypeOK'
  BY <1>1, <1>6 DEF GateTypeOK
<1>8. Counted'
  BY <1>1, <1>2, <1>4 DEF Counted
<1>9. Owned'
  BY <1>1, <1>5, GateAssumption DEF Owned
<1>10. Announces'
  BY <1>5, <1>6 DEF Announces, Announced, Waiters
<1>11. PurgesAlone' /\ SameRoomThroughout'
  BY <1>1, <1>2, <1>5 DEF PurgesAlone, SameRoomThroughout, Running
<1>12. ShutWhilePurging'
  BY <1>5, <1>6 DEF ShutWhilePurging, Running, Waiters
<1> QED BY <1>7, <1>8, <1>9, <1>10, <1>11, <1>12

-----------------------------------------------------------------------------
LEMMA GateStep == GateInv /\ [GateNext]_gateVars => GateInv'
<1> SUFFICES ASSUME GateInv, [GateNext]_gateVars PROVE GateInv'
  OBVIOUS
<1>1. CASE \E r \in Readers : mutation_section(r) \/ ReaderStep(r)
  BY <1>1, EnterSection, MoveInSection, LeaveSection DEF ReaderStep
<1>2. CASE \E w \in Writers : arrive(w) \/ WriterStep(w)
  BY <1>2, Arrive, Acquire, Advance, Reset DEF WriterStep
<1>3. CASE UNCHANGED gateVars
  BY <1>3 DEF gateVars, GateInv, GateTypeOK, Counted, Waiters, Inside, Owned,
              Announces, PurgesAlone, SameRoomThroughout, ShutWhilePurging
<1> QED BY <1>1, <1>2, <1>3 DEF GateNext

(* The inductive invariant: the counters count, the runner owns the lock,  *)
(* waiting says that a writer is announced, and what the theorems below    *)
(* state.  It says why purge and commit exclude each other: a reader gets  *)
(* in only past an unheld lock, and a writer purges only at count zero.    *)
THEOREM GateInvariance == GateSpec => []GateInv
<1> USE DEF GateSpec
<1> QED BY InitGate, GateStep, PTL

(* The gate's fields keep their types; above all, no reader is counted out *)
(* more often than in.                                                     *)
THEOREM GateTypesHold == GateSpec => []GateTypeOK
BY GateInvariance, PTL DEF GateInv

(* run() purges and ends a room with no handler in a mutation_section and  *)
(* no other writer at work.                                                *)
THEOREM PurgeExcludes == GateSpec => []PurgesAlone
BY GateInvariance, PTL DEF GateInv

(* What a handler does after require_alive takes effect in the room its    *)
(* token belongs to.                                                       *)
THEOREM NoRoomChangeInside == GateSpec => []SameRoomThroughout
BY GateInvariance, PTL DEF GateInv

(* set_accepting(False) holds through every purge and every hand-over.     *)
THEOREM ShutThroughout == GateSpec => []ShutWhilePurging
BY GateInvariance, PTL DEF GateInv

(* The last writer's finally block opens the gate and takes work again.    *)
THEOREM GateReopens == GateSpec => []ReopensAfterLast
<1>1. GateInv => ReopensAfterLast
  BY DEF GateInv, Announces, Announced, Running, Purging, ReopensAfterLast
<1> QED BY <1>1, GateInvariance, PTL

-----------------------------------------------------------------------------
(* The limiter.                                                            *)

(* The times that calls have read are not ahead of the clock, nor far      *)
(* behind the times of earlier calls.                                      *)
Steady ==
    /\ \A i \in DOMAIN calls : calls[i].at <= clock
    /\ \A i, j \in DOMAIN calls : i < j => calls[i].at <= calls[j].at + Delay

(* What is kept of a key is remembered; what is remembered and not kept is *)
(* out of the window for every call that may still come.                   *)
KeptInv ==
    \A k \in Keys :
        /\ \A j \in hits[k] : Remembered(j, Len(calls))
        /\ \A j \in DOMAIN calls \ hits[k] :
             calls[j].key = k /\ Remembered(j, Len(calls))
               => clock - Delay - calls[j].at >= Window[k]
        /\ Cardinality(hits[k]) <= Limit[k]

LimiterInv == LimiterTypeOK /\ Steady /\ KeptInv /\ LimitsAsRemembered /\ RetrySuffices

LEMMA OldestExists ==
  ASSUME NEW S, S \subseteq Nat, S # {}
  PROVE  \E i \in S : IsOldest(i, S)
<1>1. IsWellFoundedOn(OpToRel(<, Nat), Nat)
  BY NatLessThanWellFounded
<1>2. PICK i \in S : \A j \in S : ~(<<j, i>> \in OpToRel(<, Nat))
  BY <1>1, WFMin
<1>3. \A j \in S : ~(j < i)
  BY <1>2 DEF OpToRel
<1> QED BY <1>3 DEF IsOldest

LEMMA Windows ==
  ASSUME NEW k \in Keys
  PROVE  /\ Limit[k] \in Nat /\ Limit[k] >= 1 /\ Window[k] \in Nat
         /\ PruneAfter \in Nat /\ Delay \in Nat /\ Window[k] + 2 * Delay <= PruneAfter
  BY LimiterAssumption

(* A step, with the call that it makes. *)
Recent(key, now) == {i \in hits[key] : now - calls[i].at < Window[key]}
Admits(key, now) == Cardinality(Recent(key, now)) < Limit[key]
Wait(key, now) ==
    LET recent == Recent(key, now)
    IN  Window[key] - (now - calls[CHOOSE i \in recent : IsOldest(i, recent)].at)
Call(key, now) ==
    /\ key \in Keys /\ now \in Int /\ clock' \in Nat /\ clock' >= clock
    /\ now <= clock' /\ now >= clock' - Delay
    /\ hits' = IF Admits(key, now)
                 THEN _prune_expired([hits EXCEPT ![key] = Recent(key, now) \cup {Len(calls) + 1}],
                                     now, key)
                 ELSE [hits EXCEPT ![key] = Recent(key, now)]
    /\ calls' = Append(calls, [key |-> key, at |-> now, ok |-> Admits(key, now),
                               retry |-> IF Admits(key, now) THEN 0 ELSE Wait(key, now)])

LEMMA StepIsCall ==
  ASSUME LimiterTypeOK, LimiterNext
  PROVE  \E key, now : Call(key, now)
<1>1. PICK gap \in Gaps : clock' = clock + gap
  BY DEF LimiterNext
<1>2. clock' \in Nat /\ clock' >= clock
  BY <1>1, LimiterAssumption DEF LimiterTypeOK
<1>3. PICK key \in Keys, now \in clock' - Delay .. clock' : check(key, now)
  BY DEF LimiterNext
<1>4. now \in Int /\ now <= clock' /\ now >= clock' - Delay
  BY <1>2, <1>3, Windows
<1>5. Call(key, now)
  BY <1>2, <1>3, <1>4 DEF check, Call, Recent, Admits, Wait
<1> QED BY <1>5

LEMMA CallTyped ==
  ASSUME LimiterTypeOK, NEW i \in 1 .. Len(calls)
  PROVE  calls[i].key \in Keys /\ calls[i].at \in Int /\ calls[i].ok \in BOOLEAN
<1>1. calls[i] \in Answers
  BY DEF LimiterTypeOK
<1> QED BY <1>1 DEF Answers

(* The calls so far stay as they are. *)
LEMMA CallEffect ==
  ASSUME LimiterTypeOK, NEW key, NEW now, Call(key, now), NEW n, n = Len(calls)
  PROVE  /\ n \in Nat /\ n + 1 \in Nat /\ Len(calls') = n + 1 /\ DOMAIN calls = 1 .. n
         /\ DOMAIN calls' = 1 .. n + 1
         /\ calls' \in Seq(Answers)
         /\ \A i \in 1 .. n : calls'[i] = calls[i]
         /\ \A i \in 1 .. n : calls[i].at \in Int /\ calls[i].key \in Keys
                              /\ calls[i].ok \in BOOLEAN
         /\ calls'[n + 1].key = key /\ calls'[n + 1].at = now
         /\ calls'[n + 1].ok = Admits(key, now)
         /\ calls'[n + 1].retry = IF Admits(key, now) THEN 0 ELSE Wait(key, now)
         /\ ~Admits(key, now) => \E i \in Recent(key, now) : IsOldest(i, Recent(key, now))
<1>1. key \in Keys /\ now \in Int /\ calls \in Seq(Answers) /\ Len(calls) \in Nat
      /\ hits[key] \subseteq 1 .. Len(calls)
  BY DEF Call, LimiterTypeOK
<1>2. Recent(key, now) \subseteq 1 .. Len(calls)
  BY <1>1 DEF Recent
<1>3. ASSUME ~Admits(key, now)
      PROVE  \E i \in Recent(key, now) : IsOldest(i, Recent(key, now))
  <2>1. Recent(key, now) # {}
    <3>1. ~(Cardinality(Recent(key, now)) < Limit[key]) /\ Limit[key] \in Nat /\ Limit[key] >= 1
      BY <1>1, <1>3, Windows DEF Admits
    <3>2. Cardinality({}) = 0
      BY FS_EmptySet
    <3> QED BY <3>1, <3>2
  <2> QED BY <1>2, <2>1, OldestExists
<1>4. ~Admits(key, now) => Wait(key, now) \in Int
  <2> DEFINE o == CHOOSE i \in Recent(key, now) : IsOldest(i, Recent(key, now))
  <2>1. ASSUME ~Admits(key, now)
        PROVE  Wait(key, now) \in Int
    <3>1. o \in Recent(key, now)
      BY <1>3, <2>1
    <3>2. calls[o].at \in Int
      BY <1>2, <3>1, CallTyped
    <3>3. Wait(key, now) = Window[key] - (now - calls[o].at)
      BY DEF Wait
    <3> QED BY <1>1, <3>2, <3>3, Windows
  <2> QED BY <2>1
<1> DEFINE a == Admits(key, now)
           w == IF Admits(key, now) THEN 0 ELSE Wait(key, now)
           r == [key |-> key, at |-> now, ok |-> a, retry |-> w]
<1>5. r \in Answers
  <2>1. a \in BOOLEAN
    BY DEF Admits
  <2>2. w \in Int
    BY <1>4
  <2> HIDE DEF a, w
  <2> QED BY <1>1, <2>1, <2>2 DEF Answers
<1>6. calls' = Append(calls, r)
  BY DEF Call
<1>7. r.key = key /\ r.at = now /\ r.ok = a /\ r.retry = w
  OBVIOUS
<1> HIDE DEF r
<1>8. /\ n \in Nat /\ Len(calls') = n + 1 /\ calls' \in Seq(Answers)
      /\ \A i \in 1 .. n : calls'[i] = calls[i]
      /\ calls'[n + 1] = r
      /\ DOMAIN calls = 1 .. n /\ DOMAIN calls' = 1 .. n + 1
  BY <1>1, <1>5, <1>6
<1>9. \A i \in 1 .. n : calls[i].at \in Int /\ calls[i].key \in Keys
                        /\ calls[i].ok \in BOOLEAN
  BY CallTyped
<1> QED BY <1>1, <1>3, <1>7, <1>8, <1>9 DEF a, w

LEMMA CallTimes ==
  ASSUME LimiterTypeOK, NEW key, NEW now, Call(key, now)
  PROVE  /\ key \in Keys /\ now \in Int /\ clock \in Nat /\ clock' \in Nat /\ Delay \in Nat
         /\ clock <= clock' /\ now <= clock' /\ clock' <= now + Delay
<1>1. key \in Keys /\ now \in Int /\ clock \in Nat /\ clock' \in Nat /\ Delay \in Nat
  BY Windows DEF Call, LimiterTypeOK
<1>2. clock' >= clock /\ now <= clock' /\ now >= clock' - Delay
  BY DEF Call
<1>3. clock <= clock'
  BY <1>1, <1>2
<1>4. clock' <= now + Delay
  <2>1. PICK then \in Nat : then = clock'
    BY <1>1
  <2>2. now >= then - Delay
    BY <1>2, <2>1
  <2>3. then <= now + Delay
    BY <1>1, <2>2
  <2> QED BY <2>1, <2>3
<1> QED BY <1>1, <1>2, <1>3, <1>4

LEMMA SteadyStep ==
  ASSUME LimiterTypeOK, Steady, NEW key, NEW now, Call(key, now)
  PROVE  Steady'
<1>1. PICK n : n = Len(calls)
  OBVIOUS
<1>2. /\ n \in Nat /\ DOMAIN calls' = 1 .. n + 1 /\ DOMAIN calls = 1 .. n
      /\ \A i \in 1 .. n : calls'[i] = calls[i] /\ calls[i].at \in Int
      /\ calls'[n + 1].at = now
  BY <1>1, CallEffect
<1>3. /\ now \in Int /\ clock \in Nat /\ clock' \in Nat /\ Delay \in Nat
      /\ clock <= clock' /\ now <= clock' /\ clock' <= now + Delay
  BY CallTimes
<1>4. \A i \in 1 .. n : calls[i].at <= clock
  BY <1>2 DEF Steady
<1>5. \A i \in 1 .. n + 1 : calls'[i].at <= clock'
  BY <1>2, <1>3, <1>4
<1>6. \A i, j \in 1 .. n + 1 : i < j => calls'[i].at <= calls'[j].at + Delay
  <2>1. ASSUME NEW i \in 1 .. n + 1, NEW j \in 1 .. n + 1, i < j
        PROVE  calls'[i].at <= calls'[j].at + Delay
    <3>1. i \in 1 .. n /\ calls'[i].at = calls[i].at /\ calls[i].at \in Int
      BY <1>2, <2>1
    <3>2. CASE j = n + 1
      <4>1. calls[i].at <= clock /\ calls'[j].at = now
        BY <1>2, <1>4, <3>1, <3>2
      <4> QED BY <1>3, <3>1, <4>1
    <3>3. CASE j # n + 1
      <4>1. j \in 1 .. n /\ calls'[j].at = calls[j].at
        BY <1>2, <2>1, <3>3
      <4> QED BY <1>2, <2>1, <3>1, <4>1 DEF Steady
    <3> QED BY <3>2, <3>3
  <2> QED BY <2>1
<1> QED BY <1>2, <1>5, <1>6 DEF Steady

(* What is remembered of the past does not change; the new call may push a *)
(* call of its own key out of the window.                                  *)
LEMMA RememberedStep ==
  ASSUME LimiterTypeOK, NEW key, NEW now, Call(key, now), NEW n, n = Len(calls),
         NEW j \in 1 .. n
  PROVE  /\ \A i \in 1 .. n : Remembered(j, i)' <=> Remembered(j, i)
         /\ calls[j].key = key =>
              (Remembered(j, n + 1)' <=> Remembered(j, n) /\ now - calls[j].at < Window[key])
         /\ calls[j].key # key => (Remembered(j, n + 1)' <=> Remembered(j, n))
<1> DEFINE within(c) == calls[c].key = calls[j].key
                          => calls[c].at - calls[j].at < Window[calls[j].key]
<1>1. /\ n \in Nat /\ \A i \in 1 .. n : calls'[i] = calls[i]
      /\ calls'[n + 1].key = key /\ calls'[n + 1].at = now
  BY CallEffect
<1>2. calls'[j] = calls[j]
  BY <1>1
<1>3. \A i \in 1 .. n : \A c \in j + 1 .. i : c \in 1 .. n
  BY <1>1
<1>4. \A i : Remembered(j, i) <=> calls[j].ok /\ \A c \in j + 1 .. i : within(c)
  BY DEF Remembered
<1>5. \A i : Remembered(j, i)' <=> calls[j].ok /\ \A c \in j + 1 .. i : within(c)'
  BY <1>2 DEF Remembered
<1>6. \A c \in 1 .. n : within(c)' <=> within(c)
  BY <1>1, <1>2
<1>7. within(n + 1)' <=> (key = calls[j].key => now - calls[j].at < Window[calls[j].key])
  BY <1>1, <1>2
<1> HIDE DEF within
<1>8. \A i \in 1 .. n : Remembered(j, i)' <=> Remembered(j, i)
  BY <1>3, <1>4, <1>5, <1>6
<1>9. j + 1 .. n + 1 = (j + 1 .. n) \cup {n + 1} /\ n \in 1 .. n
  BY <1>1
<1>10. Remembered(j, n + 1)' <=> Remembered(j, n)' /\ within(n + 1)'
  BY <1>5, <1>9
<1>11. Remembered(j, n + 1)' <=> Remembered(j, n) /\ within(n + 1)'
  BY <1>8, <1>9, <1>10
<1> QED BY <1>7, <1>8, <1>11

(* The hits in the window are the calls that count.                        *)
LEMMA RecentCounts ==
  ASSUME LimiterTypeOK, KeptInv, NEW key, NEW now, Call(key, now), NEW n, n = Len(calls)
  PROVE  Recent(key, now) = {j \in 1 .. n : calls[j].key = key /\ Remembered(j, n + 1)'}
<1>1. key \in Keys /\ hits[key] \subseteq 1 .. n /\ \A i \in hits[key] : calls[i].key = key
  BY DEF Call, LimiterTypeOK
<1>2. ASSUME NEW j \in 1 .. n, calls[j].key = key
      PROVE  j \in Recent(key, now) <=> Remembered(j, n + 1)'
  <2>1. CASE j \in hits[key]
    <3>1. Remembered(j, n)
      BY <1>1, <2>1 DEF KeptInv
    <3> QED BY <1>2, <2>1, <3>1, RememberedStep DEF Recent
  <2>2. CASE j \notin hits[key]
    <3>1. ASSUME Remembered(j, n), now - calls[j].at < Window[key]
          PROVE  FALSE
      <4> DEFINE a == calls[j].at
                 w == Window[key]
      <4>1. clock - Delay - a >= w
        BY <1>1, <1>2, <2>2, <3>1, CallEffect DEF KeptInv
      <4>2. a \in Int /\ w \in Nat /\ now - a < w
        BY <1>1, <3>1, Windows, CallTyped
      <4>3. /\ now \in Int /\ clock \in Nat /\ clock' \in Nat /\ Delay \in Nat
            /\ clock <= clock' /\ clock' <= now + Delay
        BY CallTimes
      <4> HIDE DEF a, w
      <4> QED BY <4>1, <4>2, <4>3
    <3> QED BY <1>2, <2>2, <3>1, RememberedStep DEF Recent
  <2> QED BY <2>1, <2>2
<1> QED BY <1>1, <1>2 DEF Recent

(* Whether a call was admitted depends on the calls before it only.        *)
LEMMA LimitsStep ==
  ASSUME LimiterTypeOK, KeptInv, LimitsAsRemembered, NEW key, NEW now, Call(key, now)
  PROVE  LimitsAsRemembered'
<1> DEFINE counted(i) == {j \in 1 .. i - 1 : calls[j].key = calls[i].key /\ Remembered(j, i)}
<1>1. PICK n : n = Len(calls)
  OBVIOUS
<1>2. /\ n \in Nat /\ DOMAIN calls' = 1 .. n + 1 /\ DOMAIN calls = 1 .. n
      /\ \A i \in 1 .. n : calls'[i] = calls[i]
      /\ calls'[n + 1].key = key /\ calls'[n + 1].ok = Admits(key, now)
  BY <1>1, CallEffect
<1>3. \A j \in 1 .. n : \A i \in 1 .. n : Remembered(j, i)' <=> Remembered(j, i)
  BY <1>1, RememberedStep
<1>4. Recent(key, now) = {j \in 1 .. n : calls[j].key = key /\ Remembered(j, n + 1)'}
  BY <1>1, RecentCounts
<1>5. ASSUME NEW i \in 1 .. n
      PROVE  calls'[i].ok <=> Cardinality(counted(i)') < Limit[calls'[i].key]
  <2>1. counted(i)' = counted(i)
    <3>1. \A j \in 1 .. i - 1 : j \in 1 .. n
      BY <1>2
    <3>2. \A j \in 1 .. i - 1 : /\ calls'[j] = calls[j] /\ calls'[i] = calls[i]
                                /\ Remembered(j, i)' <=> Remembered(j, i)
      BY <1>2, <1>3, <3>1
    <3> QED BY <3>2
  <2>2. calls[i].ok <=> Cardinality(counted(i)) < Limit[calls[i].key]
    BY <1>2 DEF LimitsAsRemembered
  <2> HIDE DEF counted
  <2> QED BY <1>2, <2>1, <2>2
<1>6. counted(n + 1)' = Recent(key, now)
  <2>1. (n + 1) - 1 = n
    BY <1>2
  <2>2. \A j \in 1 .. n : calls'[j].key = calls[j].key /\ calls'[n + 1].key = key
    BY <1>2
  <2>3. counted(n + 1)' = {j \in 1 .. (n + 1) - 1 : calls'[j].key = calls'[n + 1].key
                                                     /\ Remembered(j, n + 1)'}
    OBVIOUS
  <2> QED BY <1>4, <2>1, <2>2, <2>3
<1>7. LimitsAsRemembered'
        <=> \A i \in DOMAIN calls' :
              calls'[i].ok <=> Cardinality(counted(i)') < Limit[calls'[i].key]
  BY DEF LimitsAsRemembered
<1> HIDE DEF counted
<1>8. calls'[n + 1].ok <=> Cardinality(counted(n + 1)') < Limit[calls'[n + 1].key]
  BY <1>2, <1>6 DEF Admits
<1>9. \A i \in 1 .. n + 1 : i \in 1 .. n \/ i = n + 1
  BY <1>2
<1> QED BY <1>2, <1>5, <1>7, <1>8, <1>9

(* What a call leaves in _hits: of another key everything, or nothing once *)
(* the last hit is old enough.                                             *)
LEMMA HitsEffect ==
  ASSUME LimiterTypeOK, NEW key, NEW now, Call(key, now), NEW n, n = Len(calls)
  PROVE  /\ key \in Keys /\ hits' \in [Keys -> SUBSET (1 .. n + 1)]
         /\ \A k \in Keys : hits[k] \subseteq 1 .. n
         /\ Recent(key, now) \subseteq hits[key]
         /\ Admits(key, now) => hits'[key] = Recent(key, now) \cup {n + 1}
         /\ ~Admits(key, now) => hits'[key] = Recent(key, now)
         /\ \A k \in Keys \ {key} :
              hits'[k] = hits[k]
                \/ /\ hits'[k] = {}
                   /\ \E l : IsLast(l, hits[k]) /\ now - calls[l].at >= PruneAfter
<1>1. key \in Keys /\ hits \in [Keys -> SUBSET (1 .. n)] /\ n \in Nat
  BY DEF Call, LimiterTypeOK
<1>2. Recent(key, now) \subseteq hits[key]
  BY DEF Recent
<1> DEFINE admitted == [hits EXCEPT ![key] = Recent(key, now) \cup {n + 1}]
           refused  == [hits EXCEPT ![key] = Recent(key, now)]
<1>3. \A k \in Keys : /\ hits[k] \subseteq 1 .. n /\ hits[k] \subseteq 1 .. n + 1
                      /\ Recent(key, now) \cup {n + 1} \subseteq 1 .. n + 1
                      /\ Recent(key, now) \subseteq 1 .. n + 1
  BY <1>1, <1>2
<1>4. CASE ~Admits(key, now)
  <2>1. hits' = refused
    BY <1>4 DEF Call
  <2> QED BY <1>1, <1>2, <1>3, <1>4, <2>1
<1>5. CASE Admits(key, now)
  <2>1. hits' = _prune_expired(admitted, now, key)
    BY <1>5 DEF Call
  <2>2. /\ admitted[key] = Recent(key, now) \cup {n + 1}
        /\ \A k \in Keys \ {key} : admitted[k] = hits[k]
        /\ admitted \in [Keys -> SUBSET (1 .. n + 1)]
    BY <1>1, <1>3
  <2> HIDE DEF admitted
  <2>3. hits'[key] = admitted[key]
    BY <1>1, <2>1 DEF _prune_expired
  <2>4. ASSUME NEW k \in Keys \ {key}
        PROVE  hits'[k] = admitted[k]
                 \/ /\ hits'[k] = {}
                    /\ \E l \in admitted[k] : IsLast(l, admitted[k])
                                                /\ now - calls[l].at >= PruneAfter
    BY <2>1, <2>4 DEF _prune_expired
  <2>5. hits' \in [Keys -> SUBSET (1 .. n + 1)]
    BY <2>1, <2>2 DEF _prune_expired
  <2> QED BY <1>1, <1>2, <1>3, <1>5, <2>2, <2>3, <2>4, <2>5
<1> QED BY <1>4, <1>5

LEMMA LimiterTypesStep ==
  ASSUME LimiterTypeOK, NEW key, NEW now, Call(key, now)
  PROVE  LimiterTypeOK'
<1>1. PICK n : n = Len(calls)
  OBVIOUS
<1>2. /\ n \in Nat /\ Len(calls') = n + 1 /\ calls' \in Seq(Answers)
      /\ \A i \in 1 .. n : calls'[i] = calls[i]
      /\ calls'[n + 1].key = key /\ calls'[n + 1].ok = Admits(key, now)
  BY <1>1, CallEffect
<1>3. clock' \in Nat
  BY CallTimes
<1>4. hits' \in [Keys -> SUBSET (1 .. Len(calls'))]
  BY <1>1, <1>2, HitsEffect
<1>5. ASSUME NEW k \in Keys, NEW i \in hits'[k]
      PROVE  calls'[i].key = k /\ calls'[i].ok
  <2>1. i \in hits[k] \/ (i = n + 1 /\ k = key /\ Admits(key, now))
    BY <1>1, <1>5, HitsEffect
  <2>2. ASSUME i \in hits[k]
        PROVE  calls[i].key = k /\ calls[i].ok /\ i \in 1 .. n
    BY <1>1, <2>2 DEF LimiterTypeOK
  <2> QED BY <1>2, <2>1, <2>2
<1> QED BY <1>3, <1>2, <1>4, <1>5 DEF LimiterTypeOK

LEMMA KeptFinite ==
  ASSUME LimiterTypeOK, NEW k \in Keys
  PROVE  IsFiniteSet(hits[k]) /\ Cardinality(hits[k]) \in Nat
<1>1. hits[k] \in SUBSET (1 .. Len(calls)) /\ Len(calls) \in Nat
  BY DEF LimiterTypeOK
<1>2. IsFiniteSet(1 .. Len(calls))
  BY <1>1, FS_Interval
<1> QED BY <1>1, <1>2, FS_Subset, FS_CardinalityType

(* The key of the call: what is in the window is kept, and the call itself *)
(* when it is admitted.                                                    *)
LEMMA KeptOfCaller ==
  ASSUME LimiterTypeOK, KeptInv, NEW key, NEW now, Call(key, now), NEW n, n = Len(calls)
  PROVE  /\ \A j \in hits'[key] : Remembered(j, n + 1)'
         /\ \A j \in 1 .. n + 1 :
              calls'[j].key = key /\ Remembered(j, n + 1)' => j \in hits'[key]
         /\ Cardinality(hits'[key]) <= Limit[key]
<1>1. /\ n \in Nat /\ calls'[n + 1].key = key /\ calls'[n + 1].ok = Admits(key, now)
      /\ \A i \in 1 .. n : calls'[i] = calls[i]
  BY CallEffect
<1>2. Recent(key, now) = {j \in 1 .. n : calls[j].key = key /\ Remembered(j, n + 1)'}
  BY RecentCounts
<1>3. /\ key \in Keys /\ Recent(key, now) \in SUBSET hits[key]
      /\ Admits(key, now) => hits'[key] = Recent(key, now) \cup {n + 1}
      /\ ~Admits(key, now) => hits'[key] = Recent(key, now)
  BY HitsEffect
<1>4. Remembered(n + 1, n + 1)' <=> Admits(key, now)
  <2>1. (n + 1) + 1 .. n + 1 = {}
    BY <1>1
  <2> QED BY <1>1, <2>1 DEF Remembered
<1>5. \A j \in 1 .. n + 1 : j \in 1 .. n \/ j = n + 1
  BY <1>1
<1>6. \A j \in hits'[key] : Remembered(j, n + 1)'
  BY <1>2, <1>3, <1>4
<1>7. \A j \in 1 .. n + 1 : calls'[j].key = key /\ Remembered(j, n + 1)' => j \in hits'[key]
  BY <1>1, <1>2, <1>3, <1>4, <1>5
<1>8. Cardinality(hits'[key]) <= Limit[key]
  <2> DEFINE r == Recent(key, now)
  <2>1. /\ IsFiniteSet(r) /\ Cardinality(r) \in Nat /\ Limit[key] \in Nat
        /\ Cardinality(r) <= Limit[key]
    <3>1. IsFiniteSet(hits[key]) /\ Cardinality(hits[key]) \in Nat
          /\ Cardinality(hits[key]) <= Limit[key]
      BY <1>3, KeptFinite DEF KeptInv
    <3>2. IsFiniteSet(r) /\ Cardinality(r) <= Cardinality(hits[key])
      BY <1>3, <3>1, FS_Subset
    <3>3. Cardinality(r) \in Nat
      BY <3>2, FS_CardinalityType
    <3>4. Limit[key] \in Nat
      BY <1>3, Windows
    <3> HIDE DEF r
    <3> QED BY <3>1, <3>2, <3>3, <3>4
  <2>2. CASE Admits(key, now)
    <3>1. Cardinality(r) < Limit[key]
      BY <2>2 DEF Admits
    <3>2. Cardinality(r \cup {n + 1}) <= Cardinality(r) + 1
      <4>1. Cardinality(r \cup {n + 1}) = IF n + 1 \in r THEN Cardinality(r) ELSE Cardinality(r) + 1
        BY <2>1, FS_AddElement
      <4> HIDE DEF r
      <4> QED BY <2>1, <4>1
    <3>3. hits'[key] = r \cup {n + 1}
      BY <1>3, <2>2
    <3>4. Cardinality(r \cup {n + 1}) \in Nat
      BY <2>1, FS_AddElement, FS_CardinalityType
    <3> HIDE DEF r
    <3> QED BY <2>1, <3>1, <3>2, <3>3, <3>4
  <2>3. CASE ~Admits(key, now)
    BY <1>3, <2>1, <2>3
  <2> QED BY <2>2, <2>3
<1> QED BY <1>6, <1>7, <1>8

(* A key that is forgotten has nothing left that may count again: its      *)
(* other hits are hardly later than the last one, and PruneAfter exceeds   *)
(* the window by twice what a call can be late.                            *)
LEMMA ForgottenIsOut ==
  ASSUME LimiterTypeOK, Steady, NEW key, NEW now, Call(key, now),
         NEW k \in Keys, NEW j \in hits[k],
         NEW l, IsLast(l, hits[k]), now - calls[l].at >= PruneAfter
  PROVE  clock' - Delay - calls[j].at >= Window[k]
<1>1. /\ l \in hits[k] /\ j <= l /\ hits[k] \subseteq 1 .. Len(calls) /\ Len(calls) \in Nat
      /\ DOMAIN calls = 1 .. Len(calls)
  BY DEF IsLast, LimiterTypeOK
<1>2. PICK a \in Int, b \in Int : a = calls[j].at /\ b = calls[l].at
  BY <1>1, CallTyped
<1>3. Delay \in Nat /\ Window[k] \in Nat /\ PruneAfter \in Nat
      /\ Window[k] + 2 * Delay <= PruneAfter
  BY Windows
<1>4. a <= b + Delay
  <2>1. CASE j = l
    BY <1>2, <1>3, <2>1
  <2>2. CASE j # l
    <3>1. j \in DOMAIN calls /\ l \in DOMAIN calls /\ j < l
      BY <1>1, <2>2
    <3> QED BY <1>2, <3>1 DEF Steady
  <2> QED BY <2>1, <2>2
<1>5. PICK t \in Nat : t = clock'
  BY CallTimes
<1>6. now \in Int /\ now <= t /\ now - b >= PruneAfter
  BY <1>2, <1>5, CallTimes
<1>7. PICK w \in Nat : w = Window[k]
  BY <1>3
<1>8. t - Delay - a >= w
  BY <1>3, <1>4, <1>6, <1>7
<1> QED BY <1>2, <1>5, <1>7, <1>8

LEMMA KeptOfOther ==
  ASSUME LimiterTypeOK, Steady, KeptInv, NEW key, NEW now, Call(key, now),
         NEW n, n = Len(calls), NEW k \in Keys \ {key}
  PROVE  /\ \A j \in hits'[k] : Remembered(j, n + 1)'
         /\ \A j \in (1 .. n + 1) \ hits'[k] :
              calls'[j].key = k /\ Remembered(j, n + 1)'
                => clock' - Delay - calls'[j].at >= Window[k]
         /\ Cardinality(hits'[k]) <= Limit[k]
<1>1. /\ n \in Nat /\ calls'[n + 1].key = key /\ DOMAIN calls = 1 .. n
      /\ \A i \in 1 .. n : calls'[i] = calls[i]
  BY CallEffect
<1>2. /\ hits[k] \subseteq 1 .. n
      /\ hits'[k] = hits[k]
           \/ /\ hits'[k] = {}
              /\ \E l : IsLast(l, hits[k]) /\ now - calls[l].at >= PruneAfter
  BY HitsEffect
<1>3. \A j \in 1 .. n : calls[j].key = k => (Remembered(j, n + 1)' <=> Remembered(j, n))
  BY RememberedStep
<1>4. \A j \in hits[k] : calls[j].key = k /\ Remembered(j, n)
  BY DEF KeptInv, LimiterTypeOK
<1>5. \A j \in hits'[k] : Remembered(j, n + 1)'
  BY <1>2, <1>3, <1>4
<1>6. ASSUME NEW j \in (1 .. n + 1) \ hits'[k], calls'[j].key = k, Remembered(j, n + 1)'
      PROVE  clock' - Delay - calls'[j].at >= Window[k]
  <2>1. j \in 1 .. n /\ calls'[j] = calls[j] /\ Remembered(j, n)
    BY <1>1, <1>3, <1>6
  <2>2. CASE j \in hits[k]
    <3>1. PICK l : IsLast(l, hits[k]) /\ now - calls[l].at >= PruneAfter
      BY <1>2, <1>6, <2>2
    <3>2. clock' - Delay - calls[j].at >= Window[k]
      BY <2>2, <3>1, ForgottenIsOut
    <3> QED BY <2>1, <3>2
  <2>3. CASE j \notin hits[k]
    <3>1. clock - Delay - calls[j].at >= Window[k]
      BY <1>1, <1>6, <2>1, <2>3 DEF KeptInv
    <3>2. PICK t \in Nat : t = clock'
      BY CallTimes
    <3>3. PICK a \in Int : a = calls[j].at
      BY <2>1, CallTyped
    <3>4. clock \in Nat /\ Delay \in Nat /\ clock <= t
      BY <3>2, CallTimes
    <3>5. PICK w \in Nat : w = Window[k]
      BY Windows
    <3>6. t - Delay - a >= w
      BY <3>1, <3>3, <3>4, <3>5
    <3> QED BY <2>1, <3>2, <3>3, <3>5, <3>6
  <2> QED BY <2>2, <2>3
<1>7. Cardinality(hits'[k]) <= Limit[k]
  <2>1. Cardinality(hits[k]) <= Limit[k]
    BY DEF KeptInv
  <2>2. Cardinality({}) <= Limit[k]
    BY FS_EmptySet, Windows
  <2> QED BY <1>2, <2>1, <2>2
<1> QED BY <1>5, <1>6, <1>7

LEMMA KeptStep ==
  ASSUME LimiterTypeOK, Steady, KeptInv, NEW key, NEW now, Call(key, now)
  PROVE  KeptInv'
<1>1. PICK n : n = Len(calls)
  OBVIOUS
<1>2. Len(calls') = n + 1 /\ DOMAIN calls' = 1 .. n + 1
  BY <1>1, CallEffect
<1>3. \A j : Remembered(j, Len(calls))' <=> Remembered(j, n + 1)'
  BY <1>2 DEF Remembered
<1>4. ASSUME NEW k \in Keys
      PROVE  /\ \A j \in hits'[k] : Remembered(j, n + 1)'
             /\ \A j \in (1 .. n + 1) \ hits'[k] :
                  calls'[j].key = k /\ Remembered(j, n + 1)'
                    => clock' - Delay - calls'[j].at >= Window[k]
             /\ Cardinality(hits'[k]) <= Limit[k]
  <2>1. CASE k = key
    BY <1>1, <2>1, KeptOfCaller
  <2>2. CASE k # key
    <3>1. k \in Keys \ {key}
      BY <2>2
    <3> QED BY <1>1, <3>1, KeptOfOther
  <2> QED BY <2>1, <2>2
<1> QED BY <1>2, <1>3, <1>4 DEF KeptInv

(* When the oldest hit has left the window, a place is free.               *)
LEMMA RetryStep ==
  ASSUME LimiterTypeOK, KeptInv, NEW key, NEW now, Call(key, now)
  PROVE  RetrySuffices'
<1>1. PICK n : n = Len(calls)
  OBVIOUS
<1>2. /\ n \in Nat /\ Len(calls') = n + 1
      /\ \A i \in 1 .. n : calls'[i] = calls[i] /\ calls[i].at \in Int
      /\ calls'[n + 1].key = key /\ calls'[n + 1].at = now
      /\ calls'[n + 1].ok = Admits(key, now)
      /\ calls'[n + 1].retry = IF Admits(key, now) THEN 0 ELSE Wait(key, now)
      /\ ~Admits(key, now) => \E i \in Recent(key, now) : IsOldest(i, Recent(key, now))
  BY <1>1, CallEffect
<1>3. /\ key \in Keys /\ hits[key] \subseteq 1 .. n /\ Recent(key, now) \in SUBSET hits[key]
      /\ ~Admits(key, now) => hits'[key] = Recent(key, now)
  BY <1>1, HitsEffect
<1> DEFINE freed(i) == {j \in hits[calls[i].key] :
                          (calls[i].at + calls[i].retry) - calls[j].at < Window[calls[i].key]}
           left == freed(n + 1)'
<1>4. ASSUME ~Admits(key, now)
      PROVE  calls'[n + 1].retry > 0 /\ Cardinality(left) < Limit[key]
  <2>1. PICK o : o = CHOOSE i \in Recent(key, now) : IsOldest(i, Recent(key, now))
    OBVIOUS
  <2>2. o \in Recent(key, now) /\ o \in 1 .. n
    BY <1>2, <1>3, <1>4, <2>1
  <2>3. PICK a \in Int : a = calls[o].at
    BY <1>2, <2>2
  <2>4. PICK w \in Nat : w = Window[key]
    BY <1>3, Windows
  <2>5. now \in Int /\ now - a < w
    BY <2>2, <2>3, <2>4, CallTimes DEF Recent
  <2>6. calls'[n + 1].retry = w - (now - a)
    BY <1>2, <1>4, <2>1, <2>3, <2>4 DEF Wait
  <2>7. calls'[n + 1].retry > 0 /\ calls'[n + 1].at + calls'[n + 1].retry = w + a
    BY <1>2, <2>5, <2>6
  <2>8. left \in SUBSET (Recent(key, now) \ {o})
    <3>1. calls'[o].at = a
      BY <1>2, <2>2, <2>3
    <3>2. \A j \in left : /\ j \in hits'[calls'[n + 1].key]
                          /\ (calls'[n + 1].at + calls'[n + 1].retry) - calls'[j].at
                               < Window[calls'[n + 1].key]
      OBVIOUS
    <3>3. \A j \in left : j \in hits'[key] /\ (w + a) - calls'[j].at < w
      <4> HIDE DEF left
      <4> QED BY <1>2, <2>4, <2>7, <3>2
    <3>4. \A j \in left : j \in Recent(key, now) /\ j # o
      <4> HIDE DEF left
      <4> QED BY <1>3, <1>4, <3>1, <3>3
    <3> QED BY <3>4
  <2>9. /\ IsFiniteSet(Recent(key, now)) /\ Cardinality(Recent(key, now)) \in Nat
        /\ Cardinality(Recent(key, now)) <= Limit[key] /\ Limit[key] \in Nat
    <3>1. IsFiniteSet(hits[key]) /\ Cardinality(hits[key]) \in Nat
          /\ Cardinality(hits[key]) <= Limit[key]
      BY <1>3, KeptFinite DEF KeptInv
    <3>2. IsFiniteSet(Recent(key, now)) /\ Cardinality(Recent(key, now)) <= Cardinality(hits[key])
      BY <1>3, <3>1, FS_Subset
    <3>3. Cardinality(Recent(key, now)) \in Nat /\ Limit[key] \in Nat
      BY <1>3, <3>2, FS_CardinalityType, Windows
    <3> QED BY <3>1, <3>2, <3>3
  <2> DEFINE r == Recent(key, now)
             others == r \ {o}
  <2>10. IsFiniteSet(others) /\ Cardinality(others) = Cardinality(r) - 1
    BY <2>2, <2>9, FS_RemoveElement
  <2>11. Cardinality(left) <= Cardinality(others) /\ Cardinality(left) \in Nat
    <3> HIDE DEF left
    <3>1. left \in SUBSET others
      BY <2>8
    <3> HIDE DEF others
    <3> QED BY <2>10, <3>1, FS_Subset, FS_CardinalityType
  <2> HIDE DEF left, others
  <2> QED BY <2>7, <2>9, <2>10, <2>11
<1>5. ASSUME NEW i \in DOMAIN calls', i = Len(calls'), ~calls'[i].ok
      PROVE  calls'[i].retry > 0 /\ Cardinality(freed(i)') < Limit[calls'[i].key]
  <2>1. i = n + 1 /\ calls'[i].key = key /\ ~Admits(key, now)
    BY <1>2, <1>5
  <2> HIDE DEF freed
  <2> QED BY <1>2, <1>4, <2>1
<1>6. RetrySuffices' <=> \A i \in DOMAIN calls' :
                           i = Len(calls') /\ ~calls'[i].ok =>
                             /\ calls'[i].retry > 0
                             /\ Cardinality(freed(i)') < Limit[calls'[i].key]
  BY DEF RetrySuffices
<1> HIDE DEF freed
<1> QED BY <1>5, <1>6

LEMMA LimiterStep == LimiterInv /\ [LimiterNext]_limiterVars => LimiterInv'
<1>1. ASSUME LimiterInv, LimiterNext
      PROVE  LimiterInv'
  <2>1. PICK key, now : Call(key, now)
    BY <1>1, StepIsCall DEF LimiterInv
  <2>2. LimiterTypeOK' /\ Steady' /\ KeptInv'
    BY <1>1, <2>1, LimiterTypesStep, SteadyStep, KeptStep DEF LimiterInv
  <2>3. LimitsAsRemembered' /\ RetrySuffices'
    BY <1>1, <2>1, LimitsStep, RetryStep DEF LimiterInv
  <2> QED BY <2>2, <2>3 DEF LimiterInv
<1>2. ASSUME LimiterInv, UNCHANGED limiterVars
      PROVE  LimiterInv'
  <2>1. clock' = clock /\ hits' = hits /\ calls' = calls
    BY <1>2 DEF limiterVars
  <2>2. \A j, i : Remembered(j, i)' <=> Remembered(j, i)
    BY <2>1 DEF Remembered
  <2>3. LimiterTypeOK' /\ Steady'
    BY <1>2, <2>1 DEF LimiterInv, LimiterTypeOK, Steady
  <2>4. KeptInv'
    <3>1. \A j : Remembered(j, Len(calls))' <=> Remembered(j, Len(calls))
      BY <2>1 DEF Remembered
    <3> QED BY <1>2, <2>1, <3>1 DEF LimiterInv, KeptInv
  <2>5. LimitsAsRemembered'
    BY <1>2, <2>1, <2>2 DEF LimiterInv, LimitsAsRemembered
  <2>6. RetrySuffices'
    BY <1>2, <2>1 DEF LimiterInv, RetrySuffices
  <2> QED BY <2>3, <2>4, <2>5, <2>6 DEF LimiterInv
<1> QED BY <1>1, <1>2

LEMMA LimiterStart == LimiterInit => LimiterInv
<1> SUFFICES ASSUME LimiterInit
             PROVE  LimiterInv
  OBVIOUS
<1>1. /\ clock = 0 /\ calls = <<>> /\ hits = [k \in Keys |-> {}] /\ DOMAIN calls = {}
      /\ Len(calls) = 0 /\ calls \in Seq(Answers) /\ \A k \in Keys : hits[k] = {}
  BY DEF LimiterInit
<1>2. LimiterTypeOK
  BY <1>1 DEF LimiterTypeOK
<1>3. Steady /\ LimitsAsRemembered /\ RetrySuffices
  BY <1>1 DEF Steady, LimitsAsRemembered, RetrySuffices
<1>4. \A k \in Keys : Cardinality(hits[k]) <= Limit[k]
  BY <1>1, FS_EmptySet, Windows
<1>5. KeptInv
  BY <1>1, <1>4 DEF KeptInv
<1> QED BY <1>2, <1>3, <1>5 DEF LimiterInv

THEOREM LimiterInvariance == LimiterSpec => []LimiterInv
<1>1. LimiterInit => LimiterInv
  BY LimiterStart
<1>2. LimiterInv /\ [LimiterNext]_limiterVars => LimiterInv'
  BY LimiterStep
<1> QED BY <1>1, <1>2, PTL DEF LimiterSpec

(* What is kept of a key in _hits are admitted calls of that key, and the  *)
(* clock does not run backwards.                                           *)
THEOREM LimiterTypes == LimiterSpec => []LimiterTypeOK
BY LimiterInvariance, PTL DEF LimiterInv

(* check admits as the definition of the limit says, although it drops     *)
(* hits of the caller and forgets other keys (rate_limit.py:26-54).        *)
THEOREM LimitsHold == LimiterSpec => []LimitsAsRemembered
BY LimiterInvariance, PTL DEF LimiterInv

(* retry_after_s is positive and long enough (rate_limit.py:28-35).        *)
THEOREM RetryHolds == LimiterSpec => []RetrySuffices
BY LimiterInvariance, PTL DEF LimiterInv
=============================================================================

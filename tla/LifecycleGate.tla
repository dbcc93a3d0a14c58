--------------------------- MODULE LifecycleGate ---------------------------
(***************************************************************************)
(* The gate between requests and the closing of a room, class              *)
(* LifecycleGate of src/server/lifecycle.py.                               *)
(*                                                                         *)
(* Request handlers are readers: they run inside mutation_section, check   *)
(* their token there (require_alive), change the job queue and finally     *)
(* commit (commit_section).  Closing, rotating and reopening a room are    *)
(* writers: LifecycleGate.run excludes the readers, purges the old room's  *)
(* work and begins a new generation.  One condition variable guards the    *)
(* gate's fields; a step is what a thread does between two points where it *)
(* lets go of that lock.  A reader whose wait times out has changed        *)
(* nothing and is not shown.                                               *)
(***************************************************************************)
EXTENDS Naturals, FiniteSets

CONSTANTS
    Readers,    \* threads that handle requests
    Writers,    \* threads that call run(), each once
    NoWriter    \* Python's None in _runner_ident

ASSUME GateAssumption ==
    /\ IsFiniteSet(Readers)
    /\ IsFiniteSet(Writers)
    /\ NoWriter \notin Writers
    /\ Readers \cap Writers = {}

VARIABLES
    readers,    \* _readers
    writer,     \* _writer
    waiting,    \* _writer_waiting, always equal to _blocking
    pending,    \* _pending_writers
    runner,     \* _runner_ident
    accepting,  \* what set_accepting last said
    pc,         \* where each thread is
    seen,       \* reader -> generation its token was found alive in
    generation, \* the room's generation
    ahead       \* writer -> writers announced and not done when it came

gateVars == <<readers, writer, waiting, pending, runner, accepting, pc, seen,
              generation, ahead>>

GateInit ==
    /\ readers = 0
    /\ writer = FALSE
    /\ waiting = FALSE
    /\ pending = 0
    /\ runner = NoWriter
    /\ accepting = TRUE
    /\ pc = [t \in Readers \cup Writers |-> "idle"]
    /\ seen = [r \in Readers |-> 0]
    /\ generation = 0
    /\ ahead = [w \in Writers |-> {}]

InSection == {"inside", "admitted", "checked", "changed", "leaving"}
Inside == {r \in Readers : pc[r] \in InSection}
Purging == {"purge", "finish", "reset"}
Running == {"drain"} \cup Purging
Announced == {"queued"} \cup Running

-----------------------------------------------------------------------------
(* Faulty variants of steps below.                                         *)

(* Enter after the wait for a writer has timed out. *)
enter_after_timeout(r) ==
    /\ pc[r] = "idle"
    /\ readers' = readers + 1
    /\ pc' = [pc EXCEPT ![r] = "inside"]
    /\ UNCHANGED <<writer, waiting, pending, runner, accepting, seen,
                   generation, ahead>>

(* Open the gate again although another writer waits. *)
reset_regardless(w) ==
    /\ pc[w] = "reset"
    /\ writer' = FALSE
    /\ runner' = NoWriter
    /\ waiting' = FALSE
    /\ accepting' = TRUE
    /\ pc' = [pc EXCEPT ![w] = "done"]
    /\ UNCHANGED <<readers, pending, seen, generation, ahead>>

(* Take the write lock without waiting for the readers to leave. *)
begin_undrained(w) ==
    /\ writer' = TRUE
    /\ runner' = w
    /\ accepting' = FALSE
    /\ pc' = [pc EXCEPT ![w] = "purge"]

(* Leave _pending_writers at one for ever. *)
acquire_uncounted(w) ==
    /\ pc[w] = "queued"
    /\ ~writer
    /\ writer' = TRUE
    /\ runner' = w
    /\ accepting' = (accepting /\ readers > 0)
    /\ pc' = [pc EXCEPT ![w] = IF readers = 0 THEN "purge" ELSE "drain"]
    /\ UNCHANGED <<readers, waiting, pending, seen, generation, ahead>>

-----------------------------------------------------------------------------
(* Readers.                                                                *)

mutation_section(r) ==
    /\ pc[r] = "idle"
    /\ ~writer /\ ~waiting
    /\ readers' = readers + 1
    /\ pc' = [pc EXCEPT ![r] = "inside"]
    /\ UNCHANGED <<writer, waiting, pending, runner, accepting, seen,
                   generation, ahead>>

(* Refused while a writer waits; the token itself is looked at after the   *)
(* gate's lock is let go.                                                  *)
require_alive(r) ==
    /\ pc[r] = "inside"
    /\ pc' = [pc EXCEPT ![r] = IF waiting THEN "leaving" ELSE "admitted"]
    /\ UNCHANGED <<readers, writer, waiting, pending, runner, accepting, seen,
                   generation, ahead>>

(* A token of the current generation. *)
token_alive(r) ==
    /\ pc[r] = "admitted"
    /\ pc' = [pc EXCEPT ![r] = "checked"]
    /\ seen' = [seen EXCEPT ![r] = generation]
    /\ UNCHANGED <<readers, writer, waiting, pending, runner, accepting,
                   generation, ahead>>

(* The handler's own work, such as taking the job off its node. *)
mutate(r) ==
    /\ pc[r] = "checked"
    /\ pc' = [pc EXCEPT ![r] = "changed"]
    /\ UNCHANGED <<readers, writer, waiting, pending, runner, accepting, seen,
                   generation, ahead>>

(* The chat and ESG effects happen here unless a writer waits: either way  *)
(* the section is left.                                                    *)
commit_section(r) ==
    /\ pc[r] = "changed"
    /\ pc' = [pc EXCEPT ![r] = "leaving"]
    /\ UNCHANGED <<readers, writer, waiting, pending, runner, accepting, seen,
                   generation, ahead>>

leave_section(r) ==
    /\ pc[r] = "leaving"
    /\ readers' = readers - 1
    /\ pc' = [pc EXCEPT ![r] = "idle"]
    /\ UNCHANGED <<writer, waiting, pending, runner, accepting, seen,
                   generation, ahead>>

-----------------------------------------------------------------------------
(* Writers: LifecycleGate.run.                                             *)

(* What follows `while self._writer`: with no reader inside the lock is    *)
(* not let go of before accepting is cleared.                              *)
begin(w) ==
    /\ writer' = TRUE
    /\ runner' = w
    /\ accepting' = (accepting /\ readers > 0)
    /\ pc' = [pc EXCEPT ![w] = IF readers = 0 THEN "purge" ELSE "drain"]

arrive(w) ==
    /\ pc[w] = "idle"
    /\ waiting' = TRUE
    /\ ahead' = [ahead EXCEPT ![w] = {v \in Writers : pc[v] \in Announced}]
    /\ IF writer
         THEN /\ pending' = pending + 1
              /\ pc' = [pc EXCEPT ![w] = "queued"]
              /\ UNCHANGED <<writer, runner, accepting>>
         ELSE begin(w) /\ UNCHANGED pending
    /\ UNCHANGED <<readers, seen, generation>>

acquire(w) ==
    /\ pc[w] = "queued"
    /\ ~writer
    /\ begin(w)
    /\ pending' = pending - 1
    /\ UNCHANGED <<readers, waiting, seen, generation, ahead>>

drained(w) ==
    /\ pc[w] = "drain"
    /\ readers = 0
    /\ accepting' = FALSE
    /\ pc' = [pc EXCEPT ![w] = "purge"]
    /\ UNCHANGED <<readers, writer, waiting, pending, runner, seen, generation,
                   ahead>>

(* purge_fn and then finish_fn; an exception of either goes to the reset. *)
purge(w) ==
    /\ pc[w] = "purge"
    /\ \E next \in {"finish", "reset"} : pc' = [pc EXCEPT ![w] = next]
    /\ UNCHANGED <<readers, writer, waiting, pending, runner, accepting, seen,
                   generation, ahead>>

finish(w) ==
    /\ pc[w] = "finish"
    /\ pc' = [pc EXCEPT ![w] = "reset"]
    /\ generation' \in {generation, generation + 1}
    /\ UNCHANGED <<readers, writer, waiting, pending, runner, accepting, seen,
                   ahead>>

(* The finally block: the gate stays shut if another writer waits. *)
reset(w) ==
    /\ pc[w] = "reset"
    /\ writer' = FALSE
    /\ runner' = NoWriter
    /\ waiting' = (pending > 0)
    /\ accepting' = (pending = 0)
    /\ pc' = [pc EXCEPT ![w] = "done"]
    /\ UNCHANGED <<readers, pending, seen, generation, ahead>>

-----------------------------------------------------------------------------
ReaderStep(r) ==
    \/ require_alive(r) \/ token_alive(r) \/ mutate(r) \/ commit_section(r)
    \/ leave_section(r)
WriterStep(w) == acquire(w) \/ drained(w) \/ purge(w) \/ finish(w) \/ reset(w)

GateNext ==
    \/ \E r \in Readers : mutation_section(r) \/ ReaderStep(r)
    \/ \E w \in Writers : arrive(w) \/ WriterStep(w)

GateSpec == GateInit /\ [][GateNext]_gateVars

(* Handlers do not wait inside a section, and a waiting writer looks again *)
(* at least once a second.                                                 *)
FairGateSpec ==
    /\ GateSpec
    /\ \A r \in Readers : WF_gateVars(ReaderStep(r))
    /\ \A w \in Writers : WF_gateVars(WriterStep(w))

-----------------------------------------------------------------------------
(* The types of the gate's fields.                                         *)
GateTypeOK ==
    /\ readers \in Nat
    /\ writer \in BOOLEAN
    /\ waiting \in BOOLEAN
    /\ pending \in Nat
    /\ runner \in Writers \cup {NoWriter}
    /\ accepting \in BOOLEAN
    /\ pc \in [Readers \cup Writers ->
                 {"idle", "queued", "done"} \cup InSection \cup Running]
    /\ seen \in [Readers -> Nat]
    /\ generation \in Nat
    /\ ahead \in [Writers -> SUBSET Writers]

(* While a room is purged and ended no handler is inside a section, and    *)
(* nobody else ends it.                                                    *)
PurgesAlone ==
    \A w \in Writers : pc[w] \in Purging =>
      /\ Inside = {}
      /\ \A v \in Writers : pc[v] \in Running => v = w

(* The room in which a handler's token was found alive is the room its     *)
(* work takes effect in: no generation ends under a handler.               *)
SameRoomThroughout ==
    \A r \in Readers : pc[r] \in {"checked", "changed"} => seen[r] = generation

(* No work is accepted from the start of a purge until the last waiting    *)
(* writer is done, the hand-over from one to the next included.            *)
ShutWhilePurging ==
    accepting => \A w \in Writers : /\ pc[w] \notin Purging
                                    /\ pc[w] = "queued" => writer

(* With no writer left the gate is open and work is accepted again,        *)
(* whatever purge_fn and finish_fn raised.                                 *)
ReopensAfterLast ==
    (\A w \in Writers : pc[w] \in {"idle", "done"}) => accepting /\ ~waiting

(* A room that is to be closed is closed: handlers that keep coming do not *)
(* keep a writer out, since none enters while one waits.                   *)
WriterGetsDone == \A w \in Writers : pc[w] \in {"queued", "drain"} ~> pc[w] = "done"

(* Writers run in the order in which they announced themselves.            *)
WritersInOrder ==
    [][\A w \in Writers : pc[w] \notin Running /\ pc'[w] \in Running
                            => \A v \in ahead'[w] : pc'[v] = "done"]_gateVars
=============================================================================

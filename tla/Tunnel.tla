------------------------------- MODULE Tunnel -------------------------------
(***************************************************************************)
(* The public tunnel of a room, class TunnelManager of                     *)
(* src/server/tunnel.py: a cloudflared process, the thread that supervises *)
(* it and a thread that reads the URL it prints.                           *)
(*                                                                         *)
(* One lock guards the fields, but a process is started, its URL probed    *)
(* and its readiness waited for outside of it.  A step is one region under *)
(* the lock together with the unlocked reads before it, or one unlocked    *)
(* write.  Callers are the threads that handle requests, and the idle      *)
(* loop.  Processes are numbered as they are started.  The URL of a quick  *)
(* tunnel is known by the process it leads to; that of a named tunnel is   *)
(* its host name.  The state that is shown (_state) decides nothing and is *)
(* left out.                                                               *)
(***************************************************************************)
EXTENDS Naturals, FiniteSets

CONSTANTS
    Callers,      \* threads that call enable, disable, check_idle
    Supervisors,  \* names for supervising threads
    NoThread,     \* _thread is None
    Modes,        \* the modes an instance asks for: "quick", "named"
    MaxProcs,     \* bound: after that many processes, starting one fails
    Ops           \* the calls and events this instance lets happen

ASSUME TunnelAssumption ==
    /\ Callers \cap Supervisors = {}
    /\ NoThread \notin Supervisors
    /\ Modes \subseteq {"quick", "named"}
    /\ MaxProcs \in Nat

VARIABLES
    m,         \* the manager's fields, its two events among them
    running,   \* processes that run
    spawned,   \* number of processes started so far
    reader,    \* process -> where the thread that reads its output is
    th         \* caller or supervisor -> where it is, with its locals

procVars == <<running, spawned, reader>>
tunnelVars == <<m, procVars, th>>

Threads == Callers \cup Supervisors
Procs == 1 .. MaxProcs
NoProc == 0
NoUrl == 0
HostName == MaxProcs + 1

(* The last five are _stop, _ready_event, "_last_activity_at is not None", *)
(* _allow_tunnel and _thread.                                              *)
NewManager ==
    [enabled |-> FALSE, mode |-> "none", url |-> NoUrl, starting |-> FALSE,
     proc |-> NoProc, stop |-> FALSE, ready |-> FALSE, active |-> FALSE,
     allow |-> TRUE, thread |-> NoThread]

Idle == [at |-> "idle", mode |-> "none", proc |-> NoProc]

TunnelInit ==
    /\ m = NewManager
    /\ running = {}
    /\ spawned = 0
    /\ reader = [p \in Procs |-> "none"]
    /\ th = [t \in Threads |-> Idle]

KeepMode == {"backoff", "start", "adopted", "watched", "create", "launch"}

(* A thread moves on and forgets the locals it has no more use for. *)
Go(t, place) ==
    th' = [th EXCEPT ![t] = [Idle EXCEPT !.at = place, !.mode =
             IF place \in KeepMode THEN th[t].mode ELSE "none"]]
GoWithMode(t, place, md) == th' = [th EXCEPT ![t] = [Idle EXCEPT !.at = place, !.mode = md]]

(* is_alive: the thread was started and has not ended. *)
Alive(s) == s # NoThread /\ th[s].at \notin {"idle", "new"}
Unstarted(s) == s # NoThread /\ th[s].at = "new"

(* The manager after the second half of _set_public_readiness, the probe   *)
(* having succeeded.  After one that failed it only shows another state.   *)
Told == IF m.enabled THEN [m EXCEPT !.ready = TRUE] ELSE m

-----------------------------------------------------------------------------
(* enable.                                                                 *)

(* The checks before the lock; the room has its passwords. *)
enable(c, md) ==
    /\ "enable" \in Ops
    /\ th[c].at = "idle"
    /\ m.allow
    /\ GoWithMode(c, "enable", md)
    /\ UNCHANGED <<m, procVars>>

enable_begin(c) ==
    /\ th[c].at = "enable"
    /\ IF (m.enabled /\ m.proc # NoProc) \/ m.starting
         THEN Go(c, "idle") /\ UNCHANGED m
         ELSE /\ m' = [m EXCEPT !.starting = TRUE, !.enabled = TRUE, !.mode = th[c].mode,
                                !.url = NoUrl, !.active = TRUE, !.ready = FALSE,
                                !.stop = FALSE]
              /\ GoWithMode(c, "start", th[c].mode)
    /\ UNCHANGED procVars

(* Popen succeeds, and the process runs before the manager knows of it. *)
spawn(t) ==
    /\ th[t].at = "start"
    /\ spawned < MaxProcs
    /\ spawned' = spawned + 1
    /\ running' = running \cup {spawned + 1}
    /\ th' = [th EXCEPT ![t].at = "adopt", ![t].proc = spawned + 1]
    /\ UNCHANGED <<m, reader>>

(* Faulty: the handler of the failed start leaves _starting set. *)
spawn_fails_still_starting(t) ==
    /\ th[t].at = "start"
    /\ m' = IF t \in Supervisors
              THEN m
              ELSE [m EXCEPT !.enabled = FALSE, !.proc = NoProc, !.active = FALSE]
    /\ Go(t, IF t \in Supervisors THEN "loop" ELSE "idle")
    /\ UNCHANGED procVars

(* Popen fails. *)
spawn_fails(t) ==
    /\ th[t].at = "start"
    /\ m' = IF t \in Supervisors
              THEN m
              ELSE [m EXCEPT !.enabled = FALSE, !.proc = NoProc, !.starting = FALSE,
                             !.active = FALSE]
    /\ Go(t, IF t \in Supervisors THEN "loop" ELSE "idle")
    /\ UNCHANGED procVars

(* The directory of a quick tunnel cannot be made.  That OSError is not    *)
(* turned into an ApiError: it escapes the handlers of enable and of       *)
(* _supervise, so that the fields stay as they are and a supervisor ends.  *)
_quick_profile_fails(t) ==
    /\ "profile" \in Ops
    /\ th[t].at = "start"
    /\ th[t].mode = "quick"
    /\ Go(t, "idle")
    /\ UNCHANGED <<m, procVars>>

(* self._proc = proc, whatever happened to the room's tunnel meanwhile. *)
adopt(t) ==
    /\ th[t].at = "adopt"
    /\ m' = [m EXCEPT !.proc = th[t].proc]
    /\ reader' = IF th[t].mode = "quick" THEN [reader EXCEPT ![th[t].proc] = "reading"]
                                         ELSE reader
    /\ Go(t, CASE t \in Callers -> "adopted"
               [] t \in Supervisors -> IF th[t].mode = "named" THEN "host" ELSE "await")
    /\ UNCHANGED <<running, spawned>>

AfterStart(c) == IF th[c].mode = "named" THEN "host" ELSE "await"

enable_started(c) ==
    /\ th[c].at = "adopted"
    /\ m' = [m EXCEPT !.starting = FALSE]
    /\ Go(c, "watched")
    /\ UNCHANGED procVars

(* No lock is held from here on: two callers may both find no supervisor.  *)
(* One that still lives, even if it is about to end, is kept.              *)
enable_look(c) ==
    /\ th[c].at = "watched"
    /\ Go(c, IF Alive(m.thread) THEN AfterStart(c) ELSE "create")
    /\ UNCHANGED <<m, procVars>>

(* A thread that was never started is forgotten when another replaces it:  *)
(* the new one takes its name.                                             *)
enable_new_thread(c) ==
    /\ th[c].at = "create"
    /\ \E s \in IF Unstarted(m.thread) THEN {m.thread}
                                       ELSE {x \in Supervisors : th[x].at = "idle"} :
         /\ m' = [m EXCEPT !.thread = s]
         /\ th' = [th EXCEPT ![c].at = "launch", ![s] = [Idle EXCEPT !.at = "new"]]
    /\ UNCHANGED procVars

(* self._thread.start(), whichever thread it is by now: one that another   *)
(* caller has started already raises RuntimeError, and enable ends.        *)
enable_supervise(c) ==
    /\ th[c].at = "launch"
    /\ IF Unstarted(m.thread)
         THEN th' = [th EXCEPT ![c] = [Idle EXCEPT !.at = AfterStart(c)],
                               ![m.thread].at = "loop"]
         ELSE Go(c, "idle")
    /\ UNCHANGED <<m, procVars>>

(* A named tunnel's URL is known beforehand: it is shown, then probed.     *)
(* Whether the host name answers depends on more than this process.        *)
show_host(t) ==
    /\ th[t].at = "host"
    /\ m' = [m EXCEPT !.url = HostName]
    /\ Go(t, "report") \/ Go(t, "await")
    /\ UNCHANGED procVars

_set_public_readiness(t) ==
    /\ th[t].at = "report"
    /\ m' = Told
    /\ Go(t, "await")
    /\ UNCHANGED procVars

(* _ready_event.wait: it is set, or the time for starting runs out. *)
ready_in_time(t) ==
    /\ th[t].at = "await"
    /\ m.ready
    /\ Go(t, IF t \in Supervisors THEN "loop" ELSE "idle")
    /\ UNCHANGED <<m, procVars>>

startup_timeout(c) ==
    /\ c \in Callers
    /\ th[c].at = "await"
    /\ m' = [m EXCEPT !.stop = TRUE]
    /\ Go(c, "failed")
    /\ UNCHANGED procVars

_fail_startup(c) ==
    /\ th[c].at = "failed"
    /\ m' = [m EXCEPT !.enabled = FALSE, !.starting = FALSE, !.url = NoUrl,
                      !.active = FALSE, !.proc = NoProc]
    /\ running' = running \ {m.proc}
    /\ Go(c, "idle")
    /\ UNCHANGED <<spawned, reader>>

-----------------------------------------------------------------------------
(* disable, check_idle and set_allow_tunnel.  _stop is set before the lock *)
(* is taken.                                                               *)

disable(c) ==
    /\ \/ th[c].at = "idle" /\ "disable" \in Ops
       \/ th[c].at = "disable"
    /\ m' = [m EXCEPT !.stop = TRUE]
    /\ Go(c, "off")
    /\ UNCHANGED procVars

(* Faulty: forget the process without stopping it. *)
disable_without_kill(c) ==
    /\ th[c].at = "off"
    /\ m' = [m EXCEPT !.enabled = FALSE, !.starting = FALSE, !.proc = NoProc,
                      !.url = NoUrl, !.mode = "none", !.active = FALSE]
    /\ Go(c, "idle")
    /\ UNCHANGED procVars

disable_locked(c) ==
    /\ th[c].at = "off"
    /\ m' = [m EXCEPT !.enabled = FALSE, !.starting = FALSE, !.proc = NoProc,
                      !.url = NoUrl, !.mode = "none", !.active = FALSE]
    /\ running' = running \ {m.proc}
    /\ Go(c, "idle")
    /\ UNCHANGED <<spawned, reader>>

check_idle(c) ==
    /\ "idle" \in Ops
    /\ th[c].at = "idle"
    /\ m.enabled
    /\ m.active
    /\ Go(c, "disable")
    /\ UNCHANGED <<m, procVars>>

set_allow_tunnel(c) ==
    /\ "forbid" \in Ops
    /\ th[c].at = "idle"
    /\ m' = [m EXCEPT !.allow = FALSE]
    /\ Go(c, IF m.enabled THEN "disable" ELSE "idle")
    /\ UNCHANGED procVars

-----------------------------------------------------------------------------
(* The thread that reads the output of one quick tunnel, in which a URL    *)
(* may turn up any number of times.                                        *)

(* A URL is taken only when none is shown, whichever process it is of, and *)
(* probed.  A probe that finds the process running would have found it so  *)
(* when the URL was taken, hence one step does both.                       *)
_read_quick_stdout(p) ==
    /\ reader[p] = "reading"
    /\ m.url = NoUrl
    /\ m' = [m EXCEPT !.url = p]
    /\ \/ p \in running /\ reader' = [reader EXCEPT ![p] = "report"]
       \/ UNCHANGED reader
    /\ UNCHANGED <<running, spawned, th>>

(* The output ends with the process. *)
read_end(p) ==
    /\ reader[p] = "reading"
    /\ p \notin running
    /\ reader' = [reader EXCEPT ![p] = "none"]
    /\ UNCHANGED <<m, running, spawned, th>>

read_report(p) ==
    /\ reader[p] = "report"
    /\ m' = Told
    /\ reader' = [reader EXCEPT ![p] = "reading"]
    /\ UNCHANGED <<running, spawned, th>>

-----------------------------------------------------------------------------
(* _supervise.                                                             *)

(* Without a process it sleeps and looks again. *)
supervise_look(s) ==
    /\ th[s].at = "loop"
    /\ \/ /\ m.stop \/ ~m.enabled
          /\ Go(s, "ending")
       \/ /\ ~m.stop /\ m.enabled
          /\ m.proc # NoProc
          /\ th' = [th EXCEPT ![s] = [Idle EXCEPT !.at = "poll", !.mode = m.mode,
                                                  !.proc = m.proc]]
    /\ UNCHANGED <<m, procVars>>

(* The process polled is the one seen before; the one written off is the   *)
(* one the manager holds now.                                              *)
supervise_poll(s) ==
    /\ th[s].at = "poll"
    /\ IF th[s].proc \in running
         THEN Go(s, "loop") /\ UNCHANGED m
         ELSE /\ m' = [m EXCEPT !.proc = NoProc, !.url = NoUrl, !.ready = FALSE]
              /\ GoWithMode(s, "backoff", IF th[s].mode = "none" THEN "quick" ELSE th[s].mode)
    /\ UNCHANGED procVars

supervise_backoff(s) ==
    /\ th[s].at = "backoff"
    /\ IF m.stop THEN Go(s, "ending") ELSE Go(s, "start")
    /\ UNCHANGED <<m, procVars>>

reconnect_timeout(s) ==
    /\ s \in Supervisors
    /\ th[s].at = "await"
    /\ m' = [m EXCEPT !.proc = NoProc]
    /\ running' = running \ {m.proc}
    /\ Go(s, "loop")
    /\ UNCHANGED <<spawned, reader>>

supervise_return(s) ==
    /\ th[s].at = "ending"
    /\ Go(s, "idle")
    /\ UNCHANGED <<m, procVars>>

process_exits(p) ==
    /\ "exit" \in Ops
    /\ p \in running
    /\ running' = running \ {p}
    /\ UNCHANGED <<m, spawned, reader, th>>

-----------------------------------------------------------------------------
StartStep(t) ==
    \/ spawn(t) \/ spawn_fails(t) \/ _quick_profile_fails(t) \/ adopt(t)
    \/ show_host(t) \/ _set_public_readiness(t) \/ ready_in_time(t)

CallerStep(c) ==
    \/ enable_begin(c) \/ StartStep(c)
    \/ enable_started(c) \/ enable_look(c) \/ enable_new_thread(c) \/ enable_supervise(c)
    \/ startup_timeout(c) \/ _fail_startup(c)
    \/ disable_locked(c)

Call(c) ==
    \/ \E md \in Modes : enable(c, md)
    \/ disable(c) \/ check_idle(c) \/ set_allow_tunnel(c)

ReaderStep(p) == _read_quick_stdout(p) \/ read_report(p) \/ read_end(p)

SupervisorStep(s) ==
    \/ supervise_look(s) \/ supervise_poll(s) \/ supervise_backoff(s)
    \/ StartStep(s) \/ reconnect_timeout(s) \/ supervise_return(s)

TunnelNext ==
    \/ \E c \in Callers : Call(c) \/ CallerStep(c)
    \/ \E p \in Procs : ReaderStep(p) \/ process_exits(p)
    \/ \E s \in Supervisors : SupervisorStep(s)

TunnelSpec == TunnelInit /\ [][TunnelNext]_tunnelVars

(* Threads that run go on; nothing obliges a caller to call again. *)
FairTunnelSpec ==
    /\ TunnelSpec
    /\ \A c \in Callers : WF_tunnelVars(CallerStep(c))
    /\ \A p \in Procs : WF_tunnelVars(ReaderStep(p))
    /\ \A s \in Supervisors : WF_tunnelVars(SupervisorStep(s))

-----------------------------------------------------------------------------
Places == {"idle", "enable", "start", "adopt", "adopted", "watched", "create", "launch",
           "host", "report", "await", "failed", "off", "disable",
           "new", "loop", "poll", "backoff", "ending"}

ManagerRec == [enabled : BOOLEAN, mode : {"none", "quick", "named"}, url : 0 .. HostName,
               starting : BOOLEAN, proc : 0 .. MaxProcs, stop : BOOLEAN, ready : BOOLEAN,
               active : BOOLEAN, allow : BOOLEAN, thread : Supervisors \cup {NoThread}]
ThreadRec == [at : Places, mode : {"none", "quick", "named"}, proc : 0 .. MaxProcs]

(* Every variable has its type (the fields of __init__, tunnel.py:60). *)
TunnelTypeOK ==
    /\ m \in ManagerRec
    /\ spawned \in 0 .. MaxProcs
    /\ running \subseteq 1 .. spawned
    /\ reader \in [Procs -> {"none", "reading", "report"}]
    /\ th \in [Threads -> ThreadRec]

(* _starting is set and no call of enable is on its way to clear it: every *)
(* later enable returns without doing anything.                            *)
StartingIsNobodys ==
    m.starting /\ ~ \E c \in Callers : th[c].at \in {"start", "adopt", "adopted"}

(* No order of enabling, failing, timing out and disabling, of several     *)
(* callers, leaves _starting behind.  The one step that does is a start    *)
(* whose profile directory cannot be made (tunnel.py:299, outside the try  *)
(* block); only disabling clears the flag then.                            *)
StartingLeftByProfileOnly ==
    [][ StartingIsNobodys' =>
          StartingIsNobodys \/ \E c \in Callers : _quick_profile_fails(c) ]_tunnelVars

(* The process the manager or a starting thread still knows of. *)
Owned(p) == p = m.proc \/ \E t \in Threads : th[t].at = "adopt" /\ th[t].proc = p

(* Two starts overlap: a process takes the place of one that still runs. *)
Adopting == \E t \in Threads : th[t].at = "adopt" /\ adopt(t)
(* The supervisor saw a process exit and writes off the one the manager    *)
(* holds by then, though each was disabled and enabled one after the other.*)
OutdatedWriteOff == \E s \in Supervisors : supervise_poll(s) /\ th[s].proc # m.proc
(* One start fails while another one's process is the manager's. *)
FailedStart == \E c \in Callers : spawn_fails(c)

(* A running process is lost sight of, so that nobody will ever stop it,   *)
(* by three kinds of step only, each a write to _proc that does not look   *)
(* at what it replaces: the process of an overlapping start is adopted, an *)
(* overlapping start fails, or a supervisor goes by a process it read      *)
(* before the room was disabled and enabled again.  Every other step that  *)
(* drops a process from the fields (disabling, idling, forbidding, timing  *)
(* out, losing the connection) stops it, also with two supervisors.        *)
LeakOnlyByBlindWrite ==
    [][ \A p \in running \cap running' :
          Owned(p) /\ ~Owned(p)' => Adopting \/ OutdatedWriteOff \/ FailedStart ]_tunnelVars

(* A tunnel that is enabled and has lost its process gets a new one or is  *)
(* turned off: the supervisor tries again after a failed reconnection      *)
(* (docs/10-phong-tunnel-trien-khai.md: 5 s, 10 s, 20 s, ... up to 5       *)
(* minutes).  The loop does not: without a process it only sleeps.         *)
KeepsReconnecting ==
    (m.enabled /\ m.proc = NoProc /\ \E s \in Supervisors : th[s].at = "loop")
        ~> (~m.enabled \/ m.proc # NoProc)
=============================================================================

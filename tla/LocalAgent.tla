----------------------------- MODULE LocalAgent -----------------------------
(***************************************************************************)
(* The worker on the Host's own machine: how the Host hands it the room's  *)
(* password (src/server/server.py, _launch_local_agent and what it calls)  *)
(* and how the NodeAgent process takes it up (src/agent/Program.cs,        *)
(* ConfigReloadGate.cs, AgentConfig.cs).                                   *)
(*                                                                         *)
(* They share one file, config.json.  The Host replaces it for every room  *)
(* that it contributes to; the agent looks at the time of the last write   *)
(* before it joins, and writes the file itself after each join.  Neither   *)
(* knows of the other's write.  The Host starts an agent by a prompt for   *)
(* administrator rights, which the operator answers when he likes.         *)
(*                                                                         *)
(* The room is that of Room.tla, as far as its owners act on it.  A        *)
(* password stands for the room code it goes with.  A stamp is compared    *)
(* with the last one only: whether it differs is all that is kept.         *)
(***************************************************************************)
EXTENDS Room

CONSTANTS
    Retriers,  \* more threads: they only ask for the agent
    Agents,    \* NodeAgent processes, started or asked for; bounds them
    MaxEvents  \* bound on retries and restarts

ASSUME LocalAssumption == MaxEvents \in Nat /\ Retriers \cap Owners = {}

Threads == Owners \cup Retriers

VARIABLES
    launch,  \* thread -> its call of _launch_local_agent
    config,  \* the password in config.json
    proc,    \* process -> where it is, with its cfg and its reload gate
    handed,  \* history: the password in force was handed over in full
    lost,    \* history: an agent has saved an older password over a newer
    blind,   \* history: a start was decided on without seeing another
    events   \* retries and restarts so far

localVars == <<roomVars, launch, config, proc, handed, lost, blind, events>>

IdleLaunch == [at |-> "idle", pw |-> NoPassword, boot |-> FALSE, claim |-> FALSE, blind |-> FALSE]
NoProcess == [at |-> "none", cfg |-> NoPassword, unseen |-> FALSE, moved |-> FALSE]

LocalInit ==
    /\ RoomInit
    /\ launch = [o \in Threads |-> IdleLaunch]
    /\ config = NoPassword
    /\ proc = [a \in Agents |-> NoProcess]
    /\ handed = FALSE /\ lost = FALSE /\ blind = FALSE
    /\ events = 0

Running == {a \in Agents : proc[a].at \notin {"none", "prompt"}}
Asked == {a \in Agents : proc[a].at = "prompt"}
Going(o) == launch[o].at \notin {"idle", "room"}

-----------------------------------------------------------------------------
(* The owner's requests.  A bootstrap holds its lock until its launch of   *)
(* the agent has ended.                                                    *)

BodyOf(o, wp, contributes) ==
    launch' = IF contributes
                THEN [launch EXCEPT ![o] = [IdleLaunch EXCEPT !.at = "room", !.pw = wp, !.boot = TRUE,
                                                              !.claim = TRUE]]
                ELSE launch

RoomStep(o) ==
    \/ lifecycle_rotate_passwords(o) \/ set_worker_password(o) \/ set_admin_password(o)
    \/ bootstrap_refused(o) \/ save_room_auth(o) \/ save_room_auth_write(o)

(* The launch follows the save; a request that fails has none. *)
Follows(o) ==
    launch' = IF launch[o].at = "room" /\ owner'[o] = IdleOwner
                THEN [launch EXCEPT ![o] = IF owner[o].at = "write"
                                             THEN [@ EXCEPT !.at = "look"] ELSE IdleLaunch]
                ELSE launch

owner_step(o) ==
    /\ \/ /\ ~Going(o)
          /\ lifecycle_close(o)
          /\ launch' = launch
       \/ /\ ~Going(o)
          /\ \A x \in Owners : ~launch[x].boot
          /\ \E wp, ap \in Passwords, contributes \in BOOLEAN :
               _apply_room_bootstrap(o, wp, ap) /\ BodyOf(o, wp, contributes)
       \/ /\ RoomStep(o)
          /\ Follows(o)
    /\ handed' = (handed /\ worker_pw' = worker_pw)
    /\ UNCHANGED <<config, proc, lost, blind, events>>

Occurs == events < MaxEvents /\ events' = events + 1

(* The operator's retry, with the worker password typed in or without. *)
local_agent_start(o, pw) ==
    /\ o \in Owners => owner[o] = IdleOwner
    /\ launch[o] = IdleLaunch
    /\ launch' = [launch EXCEPT ![o] = [IdleLaunch EXCEPT !.at = "look", !.pw = pw,
                                                        !.claim = pw # NoPassword]]
    /\ Occurs
    /\ UNCHANGED <<roomVars, config, proc, handed, lost, blind>>

-----------------------------------------------------------------------------
(* _launch_local_agent.                                                    *)

(* A write is seen as a new time of the file by every process.             *)
Noticed(ps) == [a \in Agents |-> IF ps[a].at \in {"none", "prompt"} THEN ps[a]
                    ELSE [ps[a] EXCEPT !.unseen = TRUE, !.moved = ps[a].at = "reload"]]

(* The request is answered.  Its caller may rely on the password that it   *)
(* handed over, unless another request has written a different one since.  *)
Answered(o) ==
    /\ launch' = [launch EXCEPT ![o] = IdleLaunch]
    /\ handed' = (handed \/ (launch[o].claim /\ launch[o].pw = worker_pw))

(* Whatever runs: the agent of another room counts, one that waits for its *)
(* prompt is not in the list, and a list that fails shows none.            *)
_local_agent_process_running == BOOLEAN

(* History: what a list that shows no agent does not show. *)
Unseen(o) ==
    \/ Running \cup Asked # {}
    \/ \E x \in Threads \ {o} : launch[x].at \in {"stop", "provision", "start"}

look(o) ==
    LET pw == launch[o].pw
        useless(running) == ~has_password \/ (pw = NoPassword /\ (running \/ config = NoPassword))
    IN /\ launch[o].at = "look"
       /\ \E running \in _local_agent_process_running :
            launch' = [launch EXCEPT ![o] =
              IF useless(running) THEN IdleLaunch
              ELSE IF running THEN [@ EXCEPT !.at = "deliver"]
              ELSE [@ EXCEPT !.at = IF pw = NoPassword THEN "start" ELSE "provision",
                             !.blind = Unseen(o)]]
       /\ UNCHANGED <<roomVars, config, proc, handed, lost, blind, events>>

(* The child that encrypts and replaces the file may fail before it or     *)
(* after it.                                                               *)
_write_local_agent_config(o) ==
    /\ launch[o].at \in {"deliver", "provision"}
    /\ \E written, ok \in BOOLEAN :
         /\ ok => written
         /\ config' = IF written THEN launch[o].pw ELSE config
         /\ proc' = IF written THEN Noticed(proc) ELSE proc
         /\ lost' = (lost /\ ~written)
         /\ handed' = (handed /\ (written => launch[o].pw = worker_pw))
         /\ launch' = [x \in Threads |->
              IF x # o THEN [launch[x] EXCEPT
                                !.claim = @ /\ (written => launch[x].pw = launch[o].pw)]
              ELSE IF ~ok THEN IdleLaunch
              ELSE [launch[o] EXCEPT !.at = IF @ = "provision" THEN "start"
                                            ELSE IF launch[o].boot THEN "answer" ELSE "stop"]]
    /\ UNCHANGED <<roomVars, blind, events>>

(* A bootstrap leaves the running agent alone: it is to read the file.     *)
answer(o) ==
    /\ launch[o].at = "answer"
    /\ Answered(o)
    /\ UNCHANGED <<roomVars, config, proc, lost, blind, events>>

(* Faulty: start another agent although the old one was not stopped. *)
stop_and_start(o) ==
    /\ launch[o].at = "stop"
    /\ \E stopped \in SUBSET Running :
         proc' = [a \in Agents |-> IF a \in stopped THEN NoProcess ELSE proc[a]]
    /\ launch' = [launch EXCEPT ![o].at = "start"]
    /\ UNCHANGED <<roomVars, config, handed, lost, blind, events>>

(* A retry stops what it may stop; with nothing stopped the agent stays.   *)
_stop_packaged_local_agent(o) ==
    /\ launch[o].at = "stop"
    /\ \E stopped \in SUBSET Running :
         /\ proc' = [a \in Agents |-> IF a \in stopped THEN NoProcess ELSE proc[a]]
         /\ IF stopped = {} THEN Answered(o)
            ELSE /\ launch' = [launch EXCEPT ![o].at = "start"]
                 /\ UNCHANGED handed
    /\ UNCHANGED <<roomVars, config, lost, blind, events>>

(* The prompt opens, unless the executable or the shell is missing.        *)
start(o) ==
    /\ launch[o].at = "start"
    /\ Answered(o)
    /\ \/ UNCHANGED <<proc, blind>>
       \/ \E a \in Agents :
            /\ proc[a] = NoProcess
            /\ proc' = [proc EXCEPT ![a].at = "prompt"]
            /\ blind' = (blind \/ launch[o].blind)
    /\ UNCHANGED <<roomVars, config, lost, events>>

-----------------------------------------------------------------------------
(* The NodeAgent process.                                                  *)

Becomes(a, f) ==
    /\ proc' = [proc EXCEPT ![a] = f]
    /\ UNCHANGED <<roomVars, launch, config, handed, lost, blind, events>>

(* The prompt is answered.  The time of the file is read before the file.  *)
ConfigReloadGate(a) ==
    /\ proc[a].at = "prompt"
    /\ \/ Becomes(a, [NoProcess EXCEPT !.at = "load"])
       \/ Becomes(a, NoProcess)

Load(a) ==
    /\ proc[a].at = "load"
    /\ \/ Becomes(a, [proc[a] EXCEPT !.at = "up", !.cfg = config])
       \/ Becomes(a, NoProcess)

ReloadRotatedCredentials(a) ==
    /\ proc[a].at = "up"
    /\ proc[a].unseen
    /\ Becomes(a, [proc[a] EXCEPT !.at = "reload", !.moved = FALSE])

(* Faulty: remember the time of the file although it could not be loaded. *)
reload_burning_writes(a) ==
    /\ proc[a].at = "reload"
    /\ \E cfg \in {config, proc[a].cfg} :
         Becomes(a, [proc[a] EXCEPT !.at = "up", !.cfg = cfg, !.unseen = proc[a].moved,
                                    !.moved = FALSE])

(* The time read before the file is remembered once the file is loaded.    *)
TryReload(a) ==
    /\ proc[a].at = "reload"
    /\ \/ Becomes(a, [proc[a] EXCEPT !.at = "up", !.cfg = config, !.unseen = proc[a].moved,
                                     !.moved = FALSE])
       \/ Becomes(a, [proc[a] EXCEPT !.at = "up", !.moved = FALSE])

JoinAsync(a) ==
    /\ proc[a].at = "up"
    /\ worker_pw # NoPassword
    /\ proc[a].cfg = worker_pw
    /\ Becomes(a, [proc[a] EXCEPT !.at = "save"])

(* The endpoints of the answer are saved, with the password in memory.     *)
SaveEndpoints(a) ==
    /\ proc[a].at = "save"
    /\ LET up == [proc EXCEPT ![a].at = "up"]
       IN \/ /\ proc' = Noticed(up)
             /\ config' = proc[a].cfg
             /\ lost' = (lost \/ config # proc[a].cfg)
          \/ /\ proc' = up
             /\ UNCHANGED <<config, lost>>
    /\ UNCHANGED <<roomVars, launch, handed, blind, events>>

exits(a) == a \in Running /\ Becomes(a, NoProcess)

(* The Host starts again (_restore_local_agent).  A child it had started   *)
(* to write the file may still have done so.                               *)
host_restarts ==
    /\ Occurs
    /\ restart
    /\ launch' = [o \in Threads |-> IdleLaunch]
    /\ \E pw \in {config} \cup {launch[o].pw : o \in {x \in Threads :
                                    launch[x].at \in {"deliver", "provision"}}} :
         /\ config' = pw
         /\ handed' = (handed /\ pw = config /\ worker_pw' = worker_pw)
         /\ LET after == IF pw = config THEN proc ELSE Noticed(proc)
            IN \/ proc' = after /\ UNCHANGED blind
               \/ /\ has_password'
                  /\ pw # NoPassword
                  /\ \E a \in Agents :
                       /\ proc[a] = NoProcess
                       /\ proc' = [after EXCEPT ![a].at = "prompt"]
                  /\ blind' = (blind \/ Running \cup Asked # {})
    /\ UNCHANGED lost

-----------------------------------------------------------------------------
LocalNext ==
    \/ \E o \in Owners : owner_step(o)
    \/ \E o \in Threads :
         \/ \E pw \in Hashes : local_agent_start(o, pw)
         \/ look(o) \/ _write_local_agent_config(o) \/ answer(o)
         \/ _stop_packaged_local_agent(o) \/ start(o)
    \/ \E a \in Agents :
         \/ ConfigReloadGate(a) \/ Load(a) \/ ReloadRotatedCredentials(a) \/ TryReload(a)
         \/ JoinAsync(a) \/ SaveEndpoints(a) \/ exits(a)
    \/ host_restarts

LocalSpec == LocalInit /\ [][LocalNext]_localVars

-----------------------------------------------------------------------------
LaunchRec == [at : {"idle", "room", "look", "deliver", "provision", "stop", "start", "answer"},
              pw : Hashes, boot : BOOLEAN, claim : BOOLEAN, blind : BOOLEAN]
AgentRec == [at : {"none", "prompt", "load", "up", "reload", "save"},
             cfg : Hashes, unseen : BOOLEAN, moved : BOOLEAN]

(* Every variable has its type (the calls and processes of the header).    *)
LocalTypeOK ==
    /\ RoomTypeOK
    /\ launch \in [Threads -> LaunchRec]
    /\ config \in Hashes
    /\ proc \in [Agents -> AgentRec]
    /\ handed \in BOOLEAN /\ lost \in BOOLEAN /\ blind \in BOOLEAN
    /\ events \in 0 .. MaxEvents

(* A worker that runs joins with the password in force, or has a write to  *)
(* take up before it joins again, once a request has handed that password  *)
(* over: whatever is written while it starts and reloads, and whether it   *)
(* runs, is replaced or asked for (_launch_local_agent, server.py:443, and *)
(* ConfigReloadGate.cs:36).  Its own save of the endpoints is the          *)
(* exception.                                                              *)
Up == {a \in Agents : proc[a].at \in {"up", "reload", "save"}}
CredentialsReach ==
    handed /\ ~lost => \A a \in Up : proc[a].cfg = worker_pw \/ proc[a].unseen

(* The same without the exception: writing the file is the only channel    *)
(* that a rotation needs (server.py:411).  A worker that joined just       *)
(* before the rotation and saves its endpoints after the Host's write puts *)
(* the old password back.                                                  *)
WritingSuffices ==
    handed => \A a \in Up : proc[a].cfg = worker_pw \/ proc[a].unseen

(* There are two agents, or prompts for them, only after a start that was  *)
(* decided on while a prompt was open, by two requests at once, or over a  *)
(* list of processes that failed (_local_agent_process_running,            *)
(* server.py:530).                                                         *)
SecondOnlyUnseen == Cardinality(Running \cup Asked) > 1 => blind

=============================================================================

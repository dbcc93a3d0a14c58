-------------------------------- MODULE Agent --------------------------------
(***************************************************************************)
(* The worker agent's session and its LLM runtime: the loops of            *)
(* src/agent/Program.cs with LlamaCppRunner, and what the host keeps of    *)
(* the worker (its token, the selected model and generation, the           *)
(* readiness of its row).                                                  *)
(*                                                                         *)
(* Four tasks run at once: the loading at startup, the telemetry loop, the *)
(* job loop and the background model switch.  They share token, roomCfg,   *)
(* llmReady and the runtime without a lock; rejoinGate, llmLock and the    *)
(* runner's _gate are semaphores.  A step is what a task does between two  *)
(* awaits; the request and the host's handler are one step, the handling   *)
(* of the answer the next.  Any request may fail.                          *)
(*                                                                         *)
(* Time is left out: a name is taken over as soon as its token is not in   *)
(* use (90 s), any wait for a job may reach its deadline, and a backoff    *)
(* may end or not.  joinGate is held during one step only.                 *)
(***************************************************************************)
EXTENDS Naturals

CONSTANTS
    Models,      \* the models of the catalog
    FirstModel,  \* the model selected when the agent starts
    Tasks,       \* "telemetry", "job", "switch", and "startup" unless it has failed
    Lossy,       \* whether a report of readiness may be lost
    MaxToken,    \* bound on the tokens handed out to this worker
    MaxGen       \* bound on llm_generation

ASSUME AgentAssumption ==
    /\ FirstModel \in Models
    /\ Lossy \in BOOLEAN
    /\ {"telemetry", "job", "switch"} \subseteq Tasks
    /\ Tasks \subseteq {"startup", "telemetry", "job", "switch"}
    /\ MaxToken \in Nat \ {0}
    /\ MaxGen \in Nat

Nobody == "nobody"
NoToken == 0

VARIABLES
    host,      \* selected model, llm_generation, the worker's live token,
               \* tokens issued, model_ready of its row; what the request that
               \* selects a model has done last ("none": it is over)
    token,     \* the agent's token, NoToken for null
    roomCfg,   \* the room_config in use
    llmReady,  \* llmReady
    rt,        \* the runner: state, model and generation it was started for
    lock,      \* who holds _gate, llmLock and rejoinGate
    th,        \* task -> where it is, with its locals
    doubtful   \* history: readiness was shown at a time when it proves nothing

agentVars == <<host, token, roomCfg, llmReady, rt, lock, th, doubtful>>

Config == [model |-> host.model, gen |-> host.gen]
Alive(t) == t # NoToken /\ t = host.live

(* tok is the token a report was sent with, the one a request was refused  *)
(* with, the one RejoinAsync has looked at, or the one a join was answered *)
(* with.  slipped: RejoinAsync was given another token than the refused.   *)
(* alone: no other task has changed the configuration or the runtime since *)
(* EnsureLlmAsync began.                                                   *)
Task(at) == [at |-> at, next |-> "idle", back |-> "idle",
             cfg |-> [model |-> FirstModel, gen |-> 0], tok |-> NoToken, ok |-> FALSE,
             slipped |-> FALSE, alone |-> TRUE]

(* The join at startup has succeeded; so has nothing yet of the loading. *)
AgentInit ==
    /\ host = [model |-> FirstModel, gen |-> 0, live |-> 1, issued |-> 1, ready |-> FALSE,
               sel |-> "none"]
    /\ token = 1
    /\ roomCfg = Config
    /\ llmReady = FALSE
    /\ rt = [st |-> "down", model |-> FirstModel, gen |-> 0]
    /\ lock = [gate |-> Nobody, llm |-> Nobody, rejoin |-> Nobody]
    /\ th = [p \in Tasks |-> CASE p = "startup" -> Task("ensure")
                               [] p = "switch" -> Task("idle")
                               [] OTHER -> Task("loop")]
    /\ doubtful = FALSE

RuntimeMatches(c) == rt.st = "up" /\ llmReady /\ rt.model = c.model /\ rt.gen = c.gen

At(p, l) == th[p].at = l

(* Locals that are read no more go back to what they were at first. *)
Step(p, l) == [Task(l) EXCEPT !.back = th[p].back, !.alone = th[p].alone]
Set(p, r) == th' = [th EXCEPT ![p] = r]
Go(p, l) == Set(p, Step(p, l))
Back(p) == Task(th[p].back)
Stopped(st) == [st |-> st, model |-> FirstModel, gen |-> 0]

(* A task whose EnsureLlmAsync or ApplyRoomConfigAsync is over: a rejoin   *)
(* goes back to its loop, the others end.                                  *)
End(p) ==
    IF lock.rejoin = p
      THEN Set(p, Back(p)) /\ lock' = [lock EXCEPT !.rejoin = Nobody]
      ELSE Set(p, Task("idle")) /\ UNCHANGED lock

(* p sends a report of c and ok, and goes on at l. *)
Reporting(p, l, c, ok) ==
    [Step(p, "report") EXCEPT !.next = l, !.cfg = c, !.ok = ok, !.tok = token]

Ensuring(p) == At(p, "llm") \/ At(p, "gate") \/ At(p, "loading") \/ At(p, "loaded")
                  \/ (At(p, "report") /\ th[p].next \in {"llm", "over"})
(* p changes what the others are relying on. *)
Disturb(p, r) == [q \in Tasks |-> IF q = p THEN r
                                  ELSE [th[q] EXCEPT !.alone = @ /\ ~Ensuring(q)]]

-----------------------------------------------------------------------------
(* Loading the runtime.                                                    *)

(* Faulty: load the selected model without telling the Host that it is not ready. *)
ensure_unreported(p) ==
    /\ At(p, "ensure")
    /\ llmReady' = FALSE
    /\ th' = Disturb(p, [Step(p, "llm") EXCEPT
                         !.alone = \A q \in Tasks \ {p} : ~Ensuring(q)])
    /\ UNCHANGED <<host, token, roomCfg, rt, lock, doubtful>>

(* The host hears that the runtime is not ready before anything is loaded. *)
EnsureLlmAsync(p) ==
    /\ At(p, "ensure")
    /\ llmReady' = FALSE
    /\ th' = Disturb(p, [Reporting(p, "llm", roomCfg, FALSE) EXCEPT
                         !.alone = \A q \in Tasks \ {p} : ~Ensuring(q)])
    /\ UNCHANGED <<host, token, roomCfg, rt, lock, doubtful>>

llmLock(p) ==
    /\ At(p, "llm")
    /\ lock.llm = Nobody
    /\ lock' = [lock EXCEPT !.llm = p]
    /\ Set(p, [Step(p, "gate") EXCEPT !.cfg = roomCfg])
    /\ UNCHANGED <<host, token, roomCfg, llmReady, rt, doubtful>>

(* A runtime of the same model is kept as it is, with the generation it    *)
(* was started for; another one is stopped.                                *)
EnsureReadyAsync(p) ==
    /\ At(p, "gate")
    /\ lock.gate = Nobody
    /\ IF rt.st = "up" /\ rt.model = th[p].cfg.model
         THEN /\ Set(p, [Step(p, "loaded") EXCEPT !.ok = TRUE])
              /\ UNCHANGED <<rt, lock>>
         ELSE /\ rt' = Stopped("down")
              /\ lock' = [lock EXCEPT !.gate = p]
              /\ Set(p, [Step(p, "loading") EXCEPT !.cfg = th[p].cfg])
    /\ UNCHANGED <<host, token, roomCfg, llmReady, doubtful>>

(* Download, verification, start and health check: done, or one failed. *)
StartServerAsync(p) ==
    /\ At(p, "loading")
    /\ \E ok \in BOOLEAN :
         /\ rt' = IF ok THEN [st |-> "up", model |-> th[p].cfg.model, gen |-> th[p].cfg.gen]
                        ELSE rt
         /\ Set(p, [Step(p, "loaded") EXCEPT !.ok = ok])
    /\ lock' = [lock EXCEPT !.gate = Nobody]
    /\ UNCHANGED <<host, token, roomCfg, llmReady, doubtful>>

(* The report names the configuration of now, not the one loaded. *)
EnsureLlm_done(p) ==
    /\ At(p, "loaded")
    /\ llmReady' = th[p].ok
    /\ lock' = [lock EXCEPT !.llm = Nobody]
    /\ Set(p, Reporting(p, "over", roomCfg, th[p].ok))
    /\ UNCHANGED <<host, token, roomCfg, rt, doubtful>>

(* ReportReadyAsync and the host's handler; the report may be lost, and    *)
(* whatever comes of it is ignored.                                        *)
nodes_ready(p) ==
    /\ At(p, "report")
    /\ \/ /\ Alive(th[p].tok)
          /\ LET exact == th[p].ok /\ th[p].cfg = Config
             IN /\ host' = [host EXCEPT !.ready = exact]
                /\ doubtful' = (exact /\ ~th[p].alone)
       \/ /\ Lossy \/ ~Alive(th[p].tok)
          /\ UNCHANGED host
          /\ doubtful' = (doubtful \/ (host.ready /\ ~th[p].ok))
    /\ CASE th[p].next = "over" -> End(p)
         [] th[p].next = "match" ->
              Set(p, [Step(p, "match") EXCEPT !.cfg = th[p].cfg]) /\ UNCHANGED lock
         [] OTHER -> Go(p, th[p].next) /\ UNCHANGED lock
    /\ UNCHANGED <<token, roomCfg, llmReady, rt>>

-----------------------------------------------------------------------------
(* The session.                                                            *)

(* A request of p is refused; it comes back to l. *)
Refused(p, l) ==
    /\ ~Alive(token)
    /\ Set(p, [Task("refused") EXCEPT !.back = l, !.tok = token])

(* RejoinAsync is given the token of now, not the one of the request. *)
handle_refusal(p) ==
    /\ At(p, "refused")
    /\ Set(p, [Step(p, "rejoin") EXCEPT !.tok = token, !.slipped = token # th[p].tok])
    /\ UNCHANGED <<host, token, roomCfg, llmReady, rt, lock, doubtful>>

(* Faulty: rejoin without the token that was refused, over whatever is there now. *)
rejoin_again(p) ==
    /\ At(p, "rejoin")
    /\ lock.rejoin = Nobody
    /\ \/ Set(p, [th[p] EXCEPT !.at = "clear", !.tok = token]) /\ lock' = [lock EXCEPT !.rejoin = p]
       \/ Set(p, Back(p)) /\ UNCHANGED lock
    /\ UNCHANGED <<host, token, roomCfg, llmReady, rt, doubtful>>

(* Another task has rejoined already, or a backoff is running, or p joins. *)
RejoinAsync(p) ==
    /\ At(p, "rejoin")
    /\ lock.rejoin = Nobody
    /\ \/ /\ token \in {NoToken, th[p].tok}
          /\ Set(p, [th[p] EXCEPT !.at = "clear", !.tok = token])
          /\ lock' = [lock EXCEPT !.rejoin = p]
       \/ Set(p, Back(p)) /\ UNCHANGED lock
    /\ UNCHANGED <<host, token, roomCfg, llmReady, rt, doubtful>>

(* ReloadRotatedCredentials has read the file since. *)
RejoinAsync_clear(p) ==
    /\ At(p, "clear")
    /\ token' = NoToken
    /\ Go(p, "join")
    /\ UNCHANGED <<host, roomCfg, llmReady, rt, lock, doubtful>>

(* The name must be free, or its token out of use; the answer may be lost. *)
JoinAsync(p) ==
    /\ At(p, "join")
    /\ \/ /\ ~Alive(token)
          /\ host.issued < MaxToken
          /\ host' = [host EXCEPT !.issued = @ + 1, !.live = host.issued + 1, !.ready = FALSE]
          /\ doubtful' = FALSE
          /\ \/ /\ Set(p, [Step(p, "joined") EXCEPT !.tok = host.issued + 1, !.cfg = Config])
                /\ UNCHANGED lock
             \/ End(p)
       \/ /\ End(p)
          /\ UNCHANGED <<host, doubtful>>
    /\ UNCHANGED <<token, roomCfg, llmReady, rt>>

(* The host hears of new pins before the runtime follows them. *)
ApplyRoomConfigAsync(p) ==
    /\ At(p, "joined")
    /\ token' = th[p].tok
    /\ roomCfg' = th[p].cfg
    /\ IF roomCfg # th[p].cfg
         THEN /\ llmReady' = FALSE
              /\ th' = Disturb(p, [Reporting(p, "match", th[p].cfg, FALSE) EXCEPT
                                   !.tok = th[p].tok])
         ELSE /\ UNCHANGED llmReady
              /\ Set(p, [Step(p, "match") EXCEPT !.cfg = th[p].cfg])
    /\ UNCHANGED <<host, rt, lock, doubtful>>

ApplyRoomConfigAsync_match(p) ==
    /\ At(p, "match")
    /\ IF RuntimeMatches(th[p].cfg)
         THEN End(p)
         ELSE Go(p, "ensure") /\ UNCHANGED lock
    /\ UNCHANGED <<host, token, roomCfg, llmReady, rt, doubtful>>

-----------------------------------------------------------------------------
(* The telemetry loop and the model switch it starts.                      *)

(* The loops join when there is no token; a request may be refused. *)
session_loop(p) ==
    /\ At(p, "loop")
    /\ IF token = NoToken
         THEN Set(p, [Task("rejoin") EXCEPT !.back = "loop"])
         ELSE Refused(p, "loop")
    /\ UNCHANGED <<host, token, roomCfg, llmReady, rt, lock, doubtful>>

ReportRuntimeDeathAsync ==
    /\ At("telemetry", "loop")
    /\ token # NoToken
    /\ llmReady
    /\ rt.st # "up"
    /\ llmReady' = FALSE
    /\ Set("telemetry", Reporting("telemetry", "loop", roomCfg, FALSE))
    /\ UNCHANGED <<host, token, roomCfg, rt, lock, doubtful>>

SwitchModelIfNeededAsync ==
    /\ At("telemetry", "loop")
    /\ At("switch", "idle")
    /\ Alive(token)
    /\ ~(host.model = roomCfg.model /\ RuntimeMatches(roomCfg))
    /\ Set("switch", [Task("switch") EXCEPT !.cfg = Config])
    /\ UNCHANGED <<host, token, roomCfg, llmReady, rt, lock, doubtful>>

model_switch ==
    /\ At("switch", "switch")
    /\ Go("switch", IF th["switch"].cfg.model # roomCfg.model THEN "leave" ELSE "ensure")
    /\ UNCHANGED <<host, token, roomCfg, llmReady, rt, lock, doubtful>>

(* The token stays in use by the other tasks until the switch has joined. *)
LeaveAsync ==
    /\ At("switch", "leave")
    /\ \/ /\ Alive(token)
          /\ host' = [host EXCEPT !.live = NoToken, !.ready = FALSE]
          /\ doubtful' = FALSE
       \/ UNCHANGED <<host, doubtful>>
    /\ Go("switch", "join")
    /\ UNCHANGED <<token, roomCfg, llmReady, rt, lock>>

-----------------------------------------------------------------------------
(* The job loop, with one chat.                                            *)

Job(l) == At("job", l)
JobGoes(l) == Go("job", l)

jobs_next ==
    /\ Job("loop")
    /\ Alive(token)
    /\ host.ready
    /\ JobGoes("check")
    /\ UNCHANGED <<host, token, roomCfg, llmReady, rt, lock, doubtful>>

(* The chat fails: llmReady falls when ready is FALSE. *)
ChatFails(ready) ==
    /\ llmReady' = (llmReady /\ ready)
    /\ IF ready \/ ~llmReady
         THEN JobGoes("answer")
         ELSE Set("job", Reporting("job", "answer", roomCfg, FALSE))

check_chat ==
    /\ Job("check")
    /\ IF RuntimeMatches(roomCfg) THEN JobGoes("wait") /\ UNCHANGED llmReady
                                  ELSE ChatFails(FALSE)
    /\ UNCHANGED <<host, token, roomCfg, rt, lock, doubtful>>

GenerateAsync ==
    /\ Job("wait")
    /\ lock.gate = Nobody
    /\ IF rt.st = "up"
         THEN JobGoes("generating") /\ lock' = [lock EXCEPT !.gate = "job"] /\ UNCHANGED llmReady
         ELSE /\ llmReady' = FALSE
              /\ Set("job", Reporting("job", "answer", roomCfg, FALSE))
              /\ UNCHANGED lock
    /\ UNCHANGED <<host, token, roomCfg, rt, doubtful>>

(* The text is complete, or a post has thrown. *)
generated ==
    /\ Job("generating")
    /\ lock' = [lock EXCEPT !.gate = Nobody]
    /\ IF rt.st = "up"
         THEN JobGoes("answer") /\ UNCHANGED llmReady
         ELSE /\ llmReady' = FALSE
              /\ Set("job", Reporting("job", "answer", roomCfg, FALSE))
    /\ UNCHANGED <<host, token, roomCfg, rt, doubtful>>

(* A chunk is refused, or the result: the job rejoins where it is. *)
PostAgentPayloadAsync ==
    /\ \E l \in {"generating", "answer"} : Job(l) /\ Refused("job", l)
    /\ UNCHANGED <<host, token, roomCfg, llmReady, rt, lock, doubtful>>

PostResultAsync ==
    /\ Job("answer")
    /\ Set("job", Task("loop"))
    /\ UNCHANGED <<host, token, roomCfg, llmReady, rt, lock, doubtful>>

job_timeout ==
    /\ Job("wait") \/ Job("generating")
    /\ lock' = IF Job("generating") THEN [lock EXCEPT !.gate = Nobody] ELSE lock
    /\ JobGoes("restart")
    /\ UNCHANGED <<host, token, roomCfg, llmReady, rt, doubtful>>

(* The host is not told: what it shows as ready proves nothing now. *)
RestartAsync ==
    /\ Job("restart")
    /\ lock.gate = Nobody
    /\ lock' = [lock EXCEPT !.gate = "job"]
    /\ rt' = Stopped("down")
    /\ th' = Disturb("job", [Step("job", "restarting") EXCEPT !.cfg = roomCfg])
    /\ doubtful' = host.ready
    /\ UNCHANGED <<host, token, roomCfg, llmReady>>

RestartAsync_done ==
    /\ Job("restarting")
    /\ \/ /\ rt' = [st |-> "up", model |-> th["job"].cfg.model, gen |-> th["job"].cfg.gen]
          /\ UNCHANGED llmReady
       \/ llmReady' = FALSE /\ UNCHANGED rt
    /\ lock' = [lock EXCEPT !.gate = Nobody]
    /\ JobGoes("answer")
    /\ UNCHANGED <<host, token, roomCfg, doubtful>>

-----------------------------------------------------------------------------
(* What happens to the agent from outside.                                 *)

HostChanges(h) ==
    /\ host' = [h EXCEPT !.ready = FALSE]
    /\ doubtful' = FALSE
    /\ UNCHANGED <<token, roomCfg, llmReady, rt, lock, th>>

(* api_settings selects another model, raises the generation, and takes    *)
(* readiness away, in three steps among those of the agent; one request    *)
(* of the kind is under way at a time.                                     *)
select_model ==
    /\ host.sel = "none"
    /\ host.gen < MaxGen
    /\ \E m \in Models \ {host.model} : host' = [host EXCEPT !.model = m, !.sel = "model"]
    /\ UNCHANGED <<token, roomCfg, llmReady, rt, lock, th, doubtful>>

select_generation ==
    /\ host.sel = "model"
    /\ host.gen < MaxGen
    /\ host' = [host EXCEPT !.gen = @ + 1, !.sel = "gen"]
    /\ UNCHANGED <<token, roomCfg, llmReady, rt, lock, th, doubtful>>

(* Faulty: leave the rows as they are. *)
readiness_kept ==
    /\ host.sel = "gen"
    /\ host' = [host EXCEPT !.sel = "none"]
    /\ UNCHANGED <<token, roomCfg, llmReady, rt, lock, th, doubtful>>

reset_model_readiness == host.sel = "gen" /\ HostChanges([host EXCEPT !.sel = "none"])

(* The token expires, the node is kicked, the room is closed or rotated. *)
token_ends == host.live # NoToken /\ HostChanges([host EXCEPT !.live = NoToken])

(* The settings are on disk, llm_generation and the tokens are not. *)
host_restarts ==
    /\ host.live # NoToken \/ host.gen # 0 \/ host.sel # "none"
    /\ HostChanges([host EXCEPT !.live = NoToken, !.gen = 0, !.sel = "none"])

llama_server_dies ==
    /\ rt.st = "up"
    /\ rt' = Stopped("dead")
    /\ UNCHANGED <<host, token, roomCfg, llmReady, lock, th, doubtful>>

AgentNext ==
    \/ \E p \in Tasks :
         \/ EnsureLlmAsync(p) \/ llmLock(p) \/ EnsureReadyAsync(p) \/ StartServerAsync(p)
         \/ EnsureLlm_done(p) \/ nodes_ready(p)
         \/ handle_refusal(p) \/ RejoinAsync(p) \/ RejoinAsync_clear(p) \/ JoinAsync(p)
         \/ ApplyRoomConfigAsync(p) \/ ApplyRoomConfigAsync_match(p)
         \/ session_loop(p)
    \/ ReportRuntimeDeathAsync \/ SwitchModelIfNeededAsync \/ model_switch \/ LeaveAsync
    \/ jobs_next \/ check_chat \/ GenerateAsync \/ generated \/ PostAgentPayloadAsync
    \/ PostResultAsync \/ job_timeout \/ RestartAsync \/ RestartAsync_done
    \/ select_model \/ select_generation \/ reset_model_readiness
    \/ token_ends \/ host_restarts \/ llama_server_dies

AgentSpec == AgentInit /\ [][AgentNext]_agentVars

-----------------------------------------------------------------------------
InGate(p) == th[p].at \in {"loading", "generating", "restarting"} \/ th[p].back = "generating"
InLlmLock(p) == th[p].at \in {"gate", "loading", "loaded"}

Configs == [model : Models, gen : 0 .. MaxGen]
TokensOrNone == 0 .. MaxToken
JobPlaces == {"check", "wait", "generating", "restart", "restarting", "answer"}
Places == {"idle", "loop", "ensure", "llm", "gate", "loading", "loaded", "report", "refused",
           "rejoin", "clear", "join", "joined", "match", "switch", "leave"} \cup JobPlaces
TaskRec == [at : Places, next : {"idle", "loop", "answer", "match", "llm", "over"},
            back : {"idle", "loop", "answer", "generating"}, cfg : Configs,
            tok : TokensOrNone, ok : BOOLEAN, slipped : BOOLEAN, alone : BOOLEAN]
LockRec == LET holder == Tasks \cup {Nobody} IN [gate : holder, llm : holder, rejoin : holder]

(* Every variable has its type, and a semaphore is held by the task that   *)
(* is in its section and by no other, whatever fails in there (Program.cs  *)
(* and LlamaCppRunner.cs).                                                 *)
AgentTypeOK ==
    /\ host \in [model : Models, gen : 0 .. MaxGen, live : TokensOrNone,
                 issued : 1 .. MaxToken, ready : BOOLEAN, sel : {"none", "model", "gen"}]
    /\ token \in TokensOrNone
    /\ roomCfg \in Configs
    /\ llmReady \in BOOLEAN
    /\ rt \in [st : {"down", "up", "dead"}, model : Models, gen : 0 .. MaxGen]
    /\ lock \in LockRec
    /\ th \in [Tasks -> TaskRec]
    /\ doubtful \in BOOLEAN
    /\ \A p \in Tasks : /\ (lock.gate = p) <=> InGate(p)
                        /\ (lock.llm = p) <=> InLlmLock(p)
                        /\ lock.rejoin = p => th[p].back # "idle"

(* While the host shows the worker as ready, its runtime is the selected   *)
(* model's, or has died by itself: the report before every loading keeps   *)
(* the host from sending chats to the old runtime (Program.cs:416).  It    *)
(* does not when that report is lost, when two tasks load at once, after a *)
(* restart for a timeout, which is not reported, or while a request to     *)
(* select a model is under way; once that is over readiness is gone, as    *)
(* the row is reset last (server.py:2571).                                 *)
ReadyIsBacked ==
    host.ready /\ ~doubtful /\ host.sel = "none" =>
        rt.st = "dead" \/ (rt.st = "up" /\ rt.model = host.model)

(* The agent gives up a token the host still honours in two races only: it *)
(* re-reads the token after a refusal, or reads the config file before it  *)
(* forgets the token, and another task has joined in between; or a task    *)
(* stores an older token late (RejoinAsync, Program.cs:288).               *)
ForgetsOnlyByRace ==
    [][Alive(token) /\ token' # token =>
         \E p \in Tasks : \/ At(p, "clear") /\ (th[p].slipped \/ th[p].tok # token)
                          \/ At(p, "joined") /\ ~Alive(th[p].tok)]_agentVars

(* No task waits for the runner's _gate while it holds it, as the comment  *)
(* at LlamaCppRunner.cs:210 has it: the job that streams a chat does when  *)
(* a chunk is refused and the room it joins again needs another runtime.   *)
NoWaitForOwnGate ==
    \A p \in Tasks : At(p, "gate") \/ (p = "job" /\ (Job("wait") \/ Job("restart")))
                         => lock.gate # p

AtRest ==
    /\ \A p \in Tasks : At(p, "idle") \/ At(p, "loop")
    /\ Alive(token)
    /\ roomCfg = Config
    /\ RuntimeMatches(roomCfg)

(* A worker at rest in the room, with the runtime of the selected model    *)
(* and generation, is shown as ready, whether it joined or joined again    *)
(* (docs/13-van-hanh-va-su-co.md:261).  A lost report aside, it is not     *)
(* after a rejoin that changed no pin: nothing reports it again.           *)
RejoinedIsReady == AtRest => host.ready
=============================================================================

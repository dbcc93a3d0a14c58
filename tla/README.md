# Thermal Orchestrator in TLA+

Specifications, model-checking runs and proofs for the Thermal Orchestrator: a
Host that gives inference jobs to worker machines according to how hot they are
and are about to become, and the agents that run on those machines. The
specifications are translated from the Python code of `server/`, the C# code of
`agent/` and, for the chat on the screen, the script of the dashboard; line
numbers of every definition are in `PROJECT.json` under `map`.

1. [The system](#1-the-system)
2. [Modules](#2-modules)
3. [How the state and steps correspond to the code](#3-correspondence)
4. [Runs, bounds and fairness](#4-runs)
5. [What disagrees with the documents](#5-disagreements)
6. [Proofs](#6-proofs)
7. [What is not modelled, and the plan](#7-plan)

## 1. The system

The Host is one Python process. An **event loop** (asyncio) runs the scheduler
cycle, the forecast cycle, the load generator and the workers' long polls; a
cycle or a poll's locked work is not interrupted by another task of the loop,
as none of them awaits in the middle. A **thread pool** runs every synchronous
request handler: chats, results, leaving, joining, readiness, closing a room.
Both sides share the objects below, each behind its own lock. There is no lock
across objects, so threads interleave between two locked calls. That is where
this program is hard.

| component | source | state | operations | what makes it correct |
|---|---|---|---|---|
| Job queue | `server/balancer.py` | `_queue`, `_active`, `_failed`, `_flags`, `_accepting` | enqueue, reserve, claim, complete, requeue, release, cancel, drain | a job is in one place; nothing is lost; results once |
| Scheduler | `server/scheduler.py` | none of its own | `reap_expired`, `schedule_once`, `filter_candidates`, `score_node` | one job per node, none to a flagged node, every job ends |
| Forecast table | `server/forecast_cache.py` | per node: state, `inflight`, model readiness, forecast values | `put`, `adjust_inflight`, `mark_*`, `apply_hysteresis` | `inflight` equals the node's work whatever order threads write in |
| Chat records | `server/chat_tracker.py` | per job: status, text, sequence number | `enqueue`, `mark_*`, `append_delta`, `fail_all` | what a user is shown agrees with where the job is |
| Request handlers | `server/server.py` | the wiring of the above | `/chat`, `/jobs/next`, `/jobs/result`, `/leave`, `/kick`, `/join`, `/nodes/ready`, `/room/close` | the same, across several locked calls |
| Lifecycle gate | `server/lifecycle.py` | readers, writer, pending writers | `mutation_section`, `require_alive`, `commit_section`, `run` | no handler acts across the closing of a room |
| Model switch | `server.py`, `settings.py` | model id, `llm_generation` | select a model, report readiness | no chat for a node that runs another model |
| Room and tokens | `room.py`, `room_persist.py`, `store.py` | tokens, generation, password hashes, their row | join, resolve, take over, kick, close, rotate, restore | a token that ended stays dead; what is saved is what is in force |
| Tunnel supervisor | `tunnel.py` | process, state, supervising thread | enable, disable, reconnect | no process is lost sight of; on means supervised |
| Streamed answers | `chat_tracker.py`, `agent/EventBatcher.cs`, `dashboard.html` | batches and their numbers, events, the text shown | post, append, publish, poll | the text has no repetitions, and what settles is the answer |
| Agent session and runtime | `agent/Program.cs`, `LlamaCppRunner.cs` | token, room configuration, model process | join, rejoin, load, report, run jobs | ready means a runtime of the right model; a good session is kept |
| Local Host agent | `server.py`, `agent/AgentConfig.cs`, `ConfigReloadGate.cs` | `config.json`, processes, prompts | write, start, stop, reload, save | the password in force reaches the agent; one agent runs |
| Host process | `runtime_lock.py`, `settings.py`, `server.py` | lock file, `settings.json`, what a process has loaded | start, serve, set, save, end, be killed | one Host per directory; what is in force is on disk |
| ESG accounting | `esg.py`, `server.py` | the ledger of events | report in three tiers, A/B summary | each job counted once, under the threshold it ran with |
| Rate limiter | `rate_limit.py` | hits per key | `check` | refuses exactly what is over the limit |
| Features, forecaster, weather, power, sensors | `features.py`, `forecaster.py`, `weather.py`, `power_model.py`, `agent/SensorReader.cs` | numbers over stored samples | | sequential arithmetic |

How they interact: `/chat` puts a job in the queue and then writes a chat
record. The scheduler cycle takes snapshots of the queue and the forecast
table, reserves a job for a node and then raises the node's `inflight`. The
worker's long poll claims the reservation. Its answer is checked against the
attempt, completed in the queue, and then commits: the counter is lowered, the
chat record marked, or the job returned. Whatever makes a job come back (an
expired reservation, an expired run, a stale node, a node leaving) moves the
job first and the counter after it, in whichever thread it happens. The
forecast cycle reads a node's row, computes for a while, and puts the row back.
Closing a room waits for handlers at the gate, but not for the event loop.

An agent's telemetry loop, job loop and model switch share the token and the
room configuration without a lock. A refusal of any request makes its task join
again, and an answer to a join may change the model, which the same task then
loads. Chunks of a chat go through the agent's batcher, the Host's record and a
bounded queue of events to the dashboard, which also polls. On the Host's own
machine, Host and agent both write `config.json`, and neither locks it. Two Host
processes meet at the lock file, but load their settings before they ask for it.

The hard behaviours, each with its line, are in `PROJECT.json` under `hazards`.

## 2. Modules

| module | models | uses |
|---|---|---|
| `LoadBalancer` | the job queue; each method is an action, called by anybody at any time | |
| `ForecastCache` | the forecast table's rows and methods | |
| `ChatTracker` | the status of the chat records | |
| `Dispatch` | scheduler, forecast cycle and handlers, one locked call at a time | the three above |
| `LifecycleGate` | the gate, one step per stretch of holding its condition variable | |
| `Room` | joins, tokens, passwords and the row they are saved in, with crashes | `TokenRegistry` as what it promises |
| `TokenRegistry` | the promise: a token is issued once and ends once, one per name, never above the capacity | |
| `LocalAgent` | the Host's agent on its own machine, over the owners' steps of `Room` | `Room` |
| `Tunnel` | the manager, its callers, supervisors, readers and processes | |
| `Agent` | the tasks of one worker and what the Host keeps of it | |
| `ChatStream` | one chat from the batches of its attempts to the screen | |
| `HostProcess` | processes of the Host on one directory, settings and ledger | `EsgReport` |
| `EsgReport` | the report in three tiers and the A/B summary, as operators on a ledger | |
| `RateLimiter` | `check` with its pruning, one call a step | |
| `LoadBalancerProofs`, `TunnelProofs`, `ChatStreamProofs`, `HostProcessProofs`, `AgentProofs` | theorems of the component | the component |
| `RequestProofs` | theorems of what a request passes first: `LifecycleGate` and `RateLimiter` | both |
| `RoomProofs` | theorems of `Room` and of `LocalAgent`, whose steps are the room's | `LocalAgent` |
| `DispatchProofs` | theorems of `Dispatch` | `LoadBalancerProofs`, as its steps are the queue's |
| `MCLoadBalancer`, `MCDispatch`, `MCLifecycleGate`, `MCRoom`, `MCPasswords`, `MCLocalAgent`, `MCTunnel`, `MCAgent`, `MCStream`, `MCHost` | instances for TLC | |

`LoadBalancer` has a specification of its own (`LBSpec`) in which callers have
no discipline, and is also the vocabulary of `Dispatch`, whose steps call its
actions with the discipline of the code. What is proved of `LBSpec` is thus
about the queue by itself: the arguments the handlers pass do not matter.
`ForecastCache` and `ChatTracker` state no properties of their own: any method
overwrites any state, and all that can go wrong there is in the order of calls.

Some definitions, commented as faulty, are slips the code avoids: a counter that
is not lowered, a process that is forgotten without being stopped. They belong to
no specification. They show that each property notices a slip of its kind
(`mutants` in `PROJECT.json`).

Each module with a specification, but for the promise, states a type invariant.
All are proved, and left out of the configurations, as are two more that are
proved: `SettlesOnce` of `ChatStream` and `RetrySuffices` of `RateLimiter`.

## 3. Correspondence

**LoadBalancer.** `queue` is `_queue` in order, `target` and `attempts` are
fields of the jobs, `active` is `_active`. Two variables are the history of the
callers: `held` (the job `complete()` returned to a thread which has not yet
returned or dropped it) and `ended`. An `attempt_id` is fresh at each
reservation, so the number of the attempt stands for it. `AttemptCap` bounds
`attempts` in the model only. Token statistics, positions in the queue and
wiping of prompts are left out.

**ForecastCache.** A row keeps the three fields that decide whether a node may
be given a job. `model` is 0 for not ready, otherwise the generation the node
was ready for. `apply_hysteresis` sees the predicted temperature as one of
three bands. A model switch (`reset_model_readiness`) is defined and not yet
called by a step of `Dispatch`.

**Dispatch.** `loop` is the program point of the event loop with its locals
(node, job, the rest of the snapshot); `th[c]` is that of a pool thread.
`lapsed` holds the leased jobs whose `reserved_until` or `active_deadline` has
passed; `handed` the payloads that workers have and may answer at any later
time, also repeatedly; `member` the nodes with a live token; `former` the jobs
of rooms that were closed. The abstractions:

- `adjust_inflight` and the `mark_queued` that follows it share a step, and so
  do reads that follow each other; no thread can act on the difference.
- Any of several candidates may have the best score.
- A row is stale for the scheduler from ten seconds after its last sample, so
  with silent nodes allowed `choose_node` may find no candidate at any time, and a
  pending job may be passed over for ever.
- `filter_candidates` prefers nodes at which the job has not failed yet
  (`failed_nodes`): any node that may take it is a candidate here.
- The samples of a node are a choice of base state in `forecast_decide`.
- The gate appears by what `LifecycleGate` shows of it: a room is purged while
  no handler is inside a section, nothing enters a section and nothing commits
  while a close is announced.
- `close_inactive` handles the nodes with work in one step.
- A node's name joins again only after it left; the takeover of a silent name
  is in `Room`.

`Ops` names the requests that an instance allows, so that a run can leave out
what its question does not need, or what is known to break its property.

**LifecycleGate.** A step is what a thread does between two releases of the
condition variable's lock. `ahead` is history: which writers had announced
themselves when a writer came. `finish` may or may not raise the generation,
as `finish_fn` may reopen, rotate or close; `purge` may raise an exception. A
wait that times out changes nothing and is left out.

**Room.** A step is one region under `Room._lock`. `tokens` keeps what became
of every token, also of those the code has deleted (`revoked`, `lost` in a
crash). Times are kept as far as they are compared: a token is fresh, silent
(`NODE_RECLAIM_AFTER_S`) or expired. A password stands for its hash. `owner[o]`
is a thread in `room_close` or the bootstrap, with its locals; saving the room
is three steps, two reads without the lock and one write. `stale`, `ends` and
`ended` are history: whether a row was left behind, and which passwords a
request has ended and has confirmed to have ended. `restart` loses memory and
loads the row. Failed joins count per key as far as the limits compare them.
`guesses` is a history beside them: it counts the failed joins of a key made at
the passwords in force, starts anew when a password changes or the client is let
in, and looks at the passwords only, never at what the code does to its counts.

**TokenRegistry.** What `Room` promises of tokens and nothing of how. `Room`
refines it by mapping a token to alive, unissued or ended and dropping
passwords, generations, penalties and storage; `Registry!RegistrySpec` is a
property of the run `tokens`.

**LocalAgent.** The owners' steps of `Room`, followed by `_launch_local_agent`
as a thread of its own program points: look for a process, write the file in a
child process, stop, start behind a prompt. A process is a prompt, loading, up,
reloading or saving. A time stamp of the file is only compared with the last one
seen, so `unseen` says whether it differs. The Host's list of processes may show
anything: it counts the agent of another room, does not count one that waits
for its prompt, and a `tasklist` that fails counts as none.

**Tunnel.** A step is one region under `TunnelManager._lock` with the unlocked
reads before it, or one unlocked write, as starting the process, probing and
waiting happen outside. `enable` starts a supervisor in three: the check of
`_thread`, the new thread and its start are not under the lock, so that two
callers may start two. Processes are numbered; a quick URL is known by the
process it leads to. Readers (`_read_quick_stdout`) are threads of their own,
one per process, and read on after the first URL. A start fails in two ways: in
`Popen`, which `_start_process` turns into an `ApiError` (`spawn_fails`; from
`MaxProcs` processes on always), or in `_quick_profile`, whose `OSError` nothing
catches (`_quick_profile_fails`): `_starting` stays set. `_state`, the word the
dashboard shows, decides no step and is left out.

**Agent.** A task's step is what it does between two awaits; a request and the
Host's handler are one step and the handling of the answer is the next, so that
other tasks act in between. `lock` has the three semaphores of which a holder
awaits (`_gate`, `llmLock`, `rejoinGate`). Any request may be refused or fail.
`doubtful`, `alone` and `slipped` are history for the exceptions the properties
name. A settings request that selects a model is three steps, as in the code: the
model id, `llm_generation`, the reset of the rows; one is under way at a time. The
check of a report and its entry in the row are one step.

**ChatStream.** A batch is its number and one post. `net` holds the posts the
Host may still handle; a post whose answer was lost is handled again, late.
`browser` is the dashboard's state of the one chat it shows. A poll may be refused
(429 by the default quota of 60 requests a minute, or 404 after a closing): the
dashboard then forgets the chat and stops polling (`refused`).

**HostProcess.** A process is down, has loaded, has opened the lock file,
serves, or has unlocked. `req` are requests inside a serving process, each a
list of entries taken one by one; `_persist` is two steps, as opening the file
empties it and closing writes it. The lock is a number for the file (inode) a
process has open, so that two may hold locks on different files of one path.
`Windows` says whether a file that is open can be unlinked. `marks` is history
for the exceptions the properties name. The room is a version number here.

**EsgReport.** Operators with the names of the functions. Energies
are integers, quotients pairs, factors percentages. A selection of events is a
function of their ids: the code's lists of rows keep the order of time and id,
which `Before` recovers. A span is named by the change that begins it, and 0 is
the one before the first change. `EsgReport` is evaluated on the ledger that
`HostProcess` writes, with jobs of three sources in any order of times and changes
of the threshold.

**RateLimiter.** A call of `check` is a step, since the limiter's lock is held
throughout; `calls` is history, and the recorded times of a key are a set of
numbers of calls, as two calls may have the same time. The time of a call was read
before the lock was waited for, so that it may lie before that of the call
before, by `Delay` at most. Windows are 60 s or less and times are forgotten after
120 s: the difference covers any `Delay` up to half the one. A wall clock that is
set back is not modelled. `MCPasswords` puts the limiter beside the owners' steps
of `Room`. They have no state in common: each runs while the other is at rest.

## 4. Runs

Passing runs:

| run | instance | shows |
|---|---|---|
| `balancer` | 2 nodes and the Host, 3 jobs, 1 caller, `max_queue` 2, 2 attempts | whatever is called, a job is in one place (`JobPlacedOnce`), failed and finished jobs are nowhere (`FailedIsGone`, `EndedIsGone`), and only a claim on a busy node forgets a job (`LossOnlyByOverwrite`) |
| `dispatch` | 2 nodes, a chat and a burn, 1 pool thread, leases that expire, forecasts with silent nodes | the counters keep a claim from overwriting a job (`ClaimNeverOverwrites`), also when a late forecast puts a row back; no job reaches a flagged node (`FlaggedGetsNoJob`) |
| `rooms` | 1 node, 1 chat, 2 pool threads; leave, kick, join, readiness, closing | answered chats do not run, with leaving and answering in two threads (`AnsweredIsFinal`); nothing of a closed room is queued, running or shown in a later one (`RoomsAreSeparate`) |
| `progress` | 1 node, a chat and a burn, 2 pool threads, fairness | counters are exact at each moment, up to the thread that is just about to count (`InflightMatchesWork`); `AttemptsLimited`; workers that vanish with a job do not keep it, and it ends unless cycle after cycle passes it over while the idle nodes are silent (`EveryJobEnds`) |
| `gate` | 2 readers, 3 writers, fairness | the gate's safety properties, and `WriterGetsDone` |
| `tunnel` | 2 callers, 2 supervisors, both modes, 2 processes, profile directories that cannot be made | `_starting` is left behind by a start whose profile directory cannot be made, and in no other order of enabling, failing and disabling (`StartingLeftByProfileOnly`); a running process is lost sight of by three blind writes to `_proc` and by no other step (`LeakOnlyByBlindWrite`) |
| `tokens` | 2 tokens, 2 names, capacity 1, 1 owner, 3 passwords, 2 generations | the index of names is right (`NodesIndexed`), no failure or backoff on record stems from guesses at passwords that are no longer in force (`PenaltyEarned`), and tokens behave as promised (`ImplementsRegistry`) |
| `passwords` | 1 token, 2 owners, 3 passwords, 2 generations, crashes; 4 calls of the limiter with 2 keys, whose limits and windows differ | a password whose end was confirmed never opens the room again (`EndedStaysEnded`), and the row is the one in force (`RowIsCurrent`), with two named exceptions; pruning makes no call pass that the window refuses (`LimitsAsRemembered`) |
| `agent` | 3 tasks, 2 models, 2 tokens, 1 switch, lost reports | a worker shown as ready has the selected model's runtime, also right after a model was selected step by step (`ReadyIsBacked`); a valid session is given up in two races only (`ForgetsOnlyByRace`) |
| `local` | 1 owner, 1 more thread that retries, 2 agents, 3 passwords, 1 generation, 1 retry or restart | a password that was handed over reaches every agent (`CredentialsReach`); a second agent is started only over one that was not seen (`SecondOnlyUnseen`) |
| `stream` | 2 batches, 2 attempts, a queue of 2 events, 1 repeated post, fairness | text in order and of one attempt (`PartialInOrder`), no worker ahead of the Host (`NumberInTurn`), the screen settles on the answer that was taken (`SettledIsAnswer`) and does settle unless a poll was refused (`ScreenSettles`) |
| `host` | 2 processes, 2 requests at once of eight kinds, 4 events, time up to 2 | `OneHost`, `InForceIsOnDisk`, `UnreadableOnlyByCutSave`, `KillSwitchStays`; the figures over every ledger: `SpanThresholdTrue`, `CountedOnce`, `MeasuredApart`, `AbAgrees` |

*Bounds of the job runs.* `MAX_ATTEMPTS` is 2 instead of 3: first attempt, retry,
and giving up all occur. `max_queue` is 2. Two nodes are what it takes for a job
to come back from one and run on the other while the first still answers; two
threads for an answer to meet a leave or another answer; two jobs for one to be
reserved while another runs. With forecasts, two nodes and two threads
at once are beyond a run of a few minutes, so the two are apart: `dispatch` has
the nodes, `rooms` and `progress` the threads. `progress` has `AttemptCap` 3, one
above `MAX_ATTEMPTS`, so that exceeding it would be seen; elsewhere the limit is
reached and not exceeded (`dispatch` allows silent nodes, whose reservations come
back without a limit: there the cap cuts the behaviours at two attempts). `Ops`
leaves readiness out of `dispatch`, as it is known to break `FlaggedGetsNoJob`
(section 5).

*Bounds of the others.* Three writers at the gate let one run, and two wait with
the count of waiting writers at two. Two callers and two processes let one start
overtake another, and two supervisors watch one process; a third process would repeat the second. Two tokens for one
name give a takeover; capacity 1 makes the second name wait. Three passwords
give a pair and a new one; two generations a room, its closing and the next one.
Two agents are one more than there should be. Two attempts of two batches with
one repetition give a gap, a duplicate and a late post of the older attempt; a
queue of two events drops. Four events in `host` are two changes with a job
before and after, and two processes suffice for every pair of an old and a new
Host; `MCTwoHosts.cfg` needs three. Symmetry is used where values are alike and
no property is about liveness.

*Deadlock* is checked in the runs of `Dispatch`, `Tunnel` and `Room` (`tokens`). The
instances of the queue, the limiter, `HostProcess` and `LocalAgent` end when their
ids, calls, events or restarts are used up, the gate's when all writers are done, the stream when
its chat has settled, the agent's when tokens are used up (or in the deadlock of
section 5).

*Fairness* (`FairDispatchSpec`). Weak fairness of the step the event loop is in
the middle of: asyncio goes on with a task that is ready. Strong fairness of
the start of a scheduler cycle: `_scheduler_loop` is a task of the loop, woken
by its timer, and other tasks take only finite turns, but the loop may be busy
each time one looks, so weak fairness would not do. Weak fairness of the steps of
each pool thread, since threads do not block in the middle of a handler, of the
closing thread, and of the passing of deadlines. Nothing is assumed of workers:
polls, answers and requests may stop for ever, and in `progress` so may telemetry: a
node that is silent is no candidate, and `EveryJobEnds` therefore excepts, by name
(`PassedOver`), a job that is passed over again and again while a node is idle. What it
still says is that no job is kept by a lease, a counter or a lost answer. `FairGateSpec` has weak fairness
of readers inside a section and of writers: `run` waits with a timeout of one
second and looks again. `FairStreamSpec` assumes of the dashboard that its timer
polls and that answers to polls are handled, and nothing of events or workers. It does
not keep polls from being refused: a screen whose poll was refused is not promised to
settle.
`FairTunnelSpec` has weak fairness of every thread that is under way.

## 5. Disagreements

Where the code does something else than a document, a comment or a docstring of
the repository says, there is a property that states the words and a
configuration in which TLC finds it violated: `tlc -config <cfg> <module>`. They
are kept beside the runs, which are the ones that pass.

| configuration, module | property | what happens |
|---|---|---|
| `MCFlaggedReady`, `MCDispatch` | `FlaggedGetsNoJob` | `/nodes/ready` of a flagged node replaces AT_RISK by WARMING_UP, and the scheduler looks at the row only: the node is given a job. `docs/04-dac-ta-scheduler.md:482` says that no job reaches a flagged node. |
| `MCResurrect`, `MCDispatch` | `GoneIsInactive` | a forecast begun before a kick puts the row of the kicked node back as READY. The check at the start of the cycle (`server.py:726`) is meant to prevent it. |
| `MCChatStuck`, `MCDispatch` | `ShownIsThere` | `/chat` enqueues before it writes the record; a job answered in between is shown as queued for ever. |
| `MCLeaveOverwrite`, `MCDispatch` | `ClaimNeverOverwrites` | the reaper and a leaving node both count the same reservation off; the counter then reads free while a job runs, and the next claim forgets it. |
| `MCJoinOverwrite`, `MCDispatch` | `ClaimNeverOverwrites` | closing a room leaves the row of an idle member READY until its samples are ten seconds old, and the scheduler does not ask who is a member: a chat of the next room is reserved for it. When it joins, `mark_joining` (`forecast_cache.py:131`) sets the counter of that reservation to zero, and the node gets a second one. |
| `MCBurnRefused`, `MCDispatch` | `CurrentAnswerTaken` | an answer without `attempt_id` is taken at the first attempt only, and burns are sent without one: from its second attempt on a burn cannot be completed. |
| `MCGateOrder`, `MCLifecycleGate` | `WritersInOrder` | the gate's docstring says that writers are served first in, first out; a condition variable keeps no order, and a new writer may overtake one that waits. |
| `MCTunnelGivesUp`, `MCTunnel` | `KeepsReconnecting` | `docs/10-phong-tunnel-trien-khai.md:137` has reconnections at growing intervals. One that is not ready in time clears the process, and the loop only sleeps without a process (`tunnel.py:379`). |
| `MCRowBehind`, `MCRoom` | `RowIsAuthoritative` | `server.py:1585` calls the row authoritative across a restart. A bootstrap that is refused for its threshold has set its passwords and does not save them; two overlapping saves may write the older picture last. |
| `MCRejoined`, `MCAgent` | `RejoinedIsReady` | `docs/13-van-hanh-va-su-co.md:261` has a worker that joins again get chats again. A rejoin that changes no pin reports nothing (`Program.cs:471`), and the new row starts not ready. |
| `MCAgentStuck`, `MCAgent` | `NoWaitForOwnGate` | `LlamaCppRunner.cs:210` takes care not to wait for its own gate. The job that streams a chat holds it; a refused chunk makes that job join again, and a new model waits for the same gate, for ever. |
| `MCTwoHosts`, `MCHost` | `OneHost` | `runtime_lock.py:1` permits one Host per data directory. Where an open file can be unlinked, `release` removes the path of a lock that the next process already holds, and a third one locks a new file. On Windows it holds. |
| `MCWeights`, `MCHost` | `WeightsSumToOne` | `settings.py:117` has weights that sum to one. They are assigned one by one up to the first negative one. |
| `MCCredentialsLost`, `MCLocalAgent` | `WritingSuffices` | `server.py:411` calls writing the file the only channel that a rotation needs. An agent that joined just before it saves its endpoints after it, with the old password (`AgentConfig.cs:145`). |

Smaller ones: `chat_tracker.py:107` calls duplicates harmless, but an accepted
repetition is published again (`server.py:2389`) and shown twice until the chat
settles (`DuplicatesHarmless` of `ChatStream` is violated on the instance of
`stream`). `server.py:531` says that the list of processes errs towards running;
when `tasklist` cannot be run it errs the other way. A job whose time is exactly
that of a change of threshold is in two spans (`esg.py:562`, the exception in
`CountedOnce`).

`docs/04-dac-ta-scheduler.md:268` says that a job is given up beyond
`MAX_ATTEMPTS`. The reaper and the handlers compare, `release_reservations_for`
of a stale node does not (`server.py:778`), and a job may be reserved any
number of times that way. `AttemptsLimited` is therefore checked in `progress`,
which has no forecast cycle to give back what silent nodes have reserved.

A room whose idle nodes have all stopped reporting keeps its pending jobs without a
timeout: the scheduler drops stale nodes from the candidates and leaves the job in the
queue (`scheduler.py:209`). A chat whose poll is refused once stays unsettled on the
screen (`dashboard.html:5189`). A quick tunnel whose profile directory cannot be made
blocks every later `enable` until it is disabled (`tunnel.py:299`). These are the named
exceptions of `EveryJobEnds`, `ScreenSettles` and `StartingLeftByProfileOnly`.

## 6. Proofs

`tlapm <module>` proves, for every value of the constants:

| module | theorem | says |
|---|---|---|
| `LoadBalancerProofs` | `Invariance`, `TypesHold` | the queue's inductive invariant and types |
| | `PlacedOnce`, `FailureIsFinal`, `ResultsAreFinal` | `JobPlacedOnce`, `FailedIsGone`, `EndedIsGone` |
| | `OnlyClaimLosesJobs` | `LossOnlyByOverwrite` |
| `DispatchProofs` | `DispatchRunsTheQueue` | `DispatchSpec => LBSpec`: scheduler and handlers use the queue by its methods only |
| | `RoomsHold`, `AnswersHold` | `RoomsAreSeparate`, `AnsweredIsFinal` |
| | `FlaggedHolds` | `FlaggedGetsNoJob`, given `WarningsKept` |
| | `AttemptsHold` | `AttemptsLimited`, given `NobodyVanishes` |
| | `CountersHold`, `ClaimsHold` | `InflightMatchesWork`, `ClaimNeverOverwrites`, given `NobodyLeaves` |
| `RequestProofs` | `GateInvariance`, `GateTypesHold` | the gate's inductive invariant and types |
| | `PurgeExcludes`, `NoRoomChangeInside`, `ShutThroughout`, `GateReopens` | `PurgesAlone`, `SameRoomThroughout`, `ShutWhilePurging`, `ReopensAfterLast` |
| | `LimitsHold`, `RetryHolds` | `LimitsAsRemembered`, `RetrySuffices` |
| `RoomProofs` | `RoomImplementsRegistry` | `ImplementsRegistry`: `Room` refines `TokenRegistry` |
| | `IndexHolds`, `PenaltiesEarned` | `NodesIndexed`, `PenaltyEarned` |
| | `EndedForGood`, `RowKeepsUp` | `EndedStaysEnded`, `RowIsCurrent` |
| | `LocalRunsTheRoom` | `LocalSpec => RoomSpec` |
| | `CredentialsHold`, `SecondHolds` | `CredentialsReach`, `SecondOnlyUnseen` |
| `TunnelProofs` | `StartingLeft`, `LeaksOnlyByBlindWrite` | `StartingLeftByProfileOnly`, `LeakOnlyByBlindWrite` |
| `ChatStreamProofs` | `PartialHolds`, `NumberHolds` | `PartialInOrder`, `NumberInTurn` |
| | `SettledHolds`, `OnceHolds` | `SettledIsAnswer`, `SettlesOnce` |
| `AgentProofs` | `BackedHolds`, `ForgetsHold` | `ReadyIsBacked`, `ForgetsOnlyByRace` |
| `HostProcessProofs` | `SavesLeaveReadable` | `UnreadableOnlyByCutSave` |
| | `SpanThresholdHolds`, `CountedHolds` | `SpanThresholdTrue`, `CountedOnce` |
| | `ApartHolds`, `AbHolds` | `MeasuredApart`, `AbAgrees` |
| | `OneHostHolds`, `InForceHolds`, `KillSwitchHolds` | `OneHost`, `InForceIsOnDisk`, `KillSwitchStays`, given `Windows` |

`DispatchTypes`, `RoomTypes`, `LocalTypes`, `TunnelTypes`, `StreamTypes`,
`LimiterTypes`, `AgentTypes` and `HostTypes` are the type invariants of their
components. Every inductive
invariant was checked by TLC on the instances of section 4 before it was proved.

**Assumptions.** They are named in the modules that declare the constants, and
TLC evaluates them on every run.

- Names for nothing (`NoNode`, `NoJob`, `NoEntry`, `NoToken`, ...) lie outside the
  sets they stand beside; bounds are natural numbers, `max_queue` positive.
- Finite are the readers and writers of the gate, the processes of the Host, and
  the workers and threads of `Dispatch`: a count of them is meant to be a number.
  Jobs, tokens, names, passwords, owners, agents and callers of the tunnel are not
  assumed finite.
- `JoinFailBackoffAfter <= JoinFailLimit` (`room.py:26`; both are fixed there). Without
  it the window could forget failures that a backoff was counted for.
- The entries of a settings request have the values their kind calls for, which
  the handlers' models of the request body enforce, and the results of jobs those
  that `apply_job_result` lets through (`JobRec` of `HostAssumption`).
- The limiter's windows and `Delay` leave room before a time is forgotten (section 3).
- The tasks of the agent are the four of its program; models and tokens may be any
  number.

**Hypotheses.** Seven theorems are about part of the instances; in the rest the
code breaks the property, or may.

- `WarningsKept`: no `/nodes/ready` among the requests, and no round robin. The first
  overwrites the warning (`MCFlaggedReady`); the second is the baseline of the A/B
  comparison, which gives work to AT_RISK nodes on purpose.
- `NobodyVanishes`: no node leaves, is kicked or falls silent. Those give
  reservations back whatever their attempts (end of section 5).
- `NobodyLeaves`: no leaving, kicking or closing. Leaving sets the counter to zero and
  moves the jobs before or after, so that `InflightMatchesWork` is false in between,
  and the reaper may count the same job off again, so that `ClaimNeverOverwrites` is
  false for good (`MCLeaveOverwrite`). Closing breaks the first in the same way, and the
  second when a member joins the next room with a chat reserved for it
  (`MCJoinOverwrite`). Without leaving and closing nobody joins either.
- `Windows`: an open file cannot be unlinked. Elsewhere two Hosts serve one directory
  (`MCTwoHosts`), and what one has in force the other overwrites.

**The queue.** `LBInv` joins the types, `JobPlacedOnce`, `FailedIsGone`,
`EndedIsGone` and `OnlyIssued`: that ids which were never issued occur nowhere is
what keeps `enqueue_job` from putting a job in two places. Four lemmas say what
cutting, prepending, appending and rearranging do to a sequence without
repetitions (`CutProperties`, `PrependProperties`, `AppendKeepsNoRepeat`,
`ArrangeProperties`); a lemma per group of methods uses them.
`NextKeepsPlacement` gives the invariant's step and the action property.

**Scheduler and handlers.** `TypedInv` adds to the types what the locals are at
each program point (`LoopAs`, `ThreadAs`): for instance that a thread has a job of
the queue in hand exactly where `complete()` has returned it one. With it every step is a step of the queue, and
`LBInv` is inherited. Then, each on top of `TypedInv`:

- `RoomInv`: once a closing room has waited for the last handler, nothing enters,
  commits or is accepted, so what is drained stays empty; a record about to be
  written is of the present room. `ChatInv`: a settled job, or one the loop is about
  to settle, is nowhere, and no method brings back a job that is nowhere.
- `FlagInv`: a flag and the row that shows it differ only while the forecast cycle
  is between the two, and the scheduler has no turn then, as both are tasks of one
  event loop. No other writer of rows raises a flagged row to READY or WARMING_UP.
- `AttemptInv`: every pending job has attempts left.
- `CountInv`: for each node an account, `inflight` and what is about to be counted up
  on one side, the jobs reserved, the job running, the threads with an answer to
  count off and what the loop is about to count down on the other (`Even`). The
  account alone is not inductive: the scheduler must find at most one job per node
  (`One`), and the reservations the reaper saw must still be there when it comes to
  count them (`ReapsWhatItSaw`). Both rest on there being one
  loop: threads may answer and post while a cycle is under way, but nobody else
  reserves, claims or takes a reservation away.

**The limiter.** `KeptInv`: what is kept of a key is remembered, and what is remembered
and no longer kept, because a call of any key has pruned it, is out of the window for
every call that may still come. The second half needs `Steady`: a call reads a time
at most `Delay` behind those of earlier calls. The set that `check` counts is then
the one that the property counts.

**The gate.** `GateInv` needs three facts the properties do not state.
`Counted`: `_readers` is the number of readers inside and `_pending_writers`
that of queued writers, so a count of zero means nobody. `Owned`: the writer
that runs is the one in `_runner_ident`. `Announces`: `_writer_waiting` says
precisely that a writer is announced. Counting is done with the theorems on
finite sets; there is a lemma per kind of step.

**The room.** The refinement needs that only issued tokens are in use and that the
index of names is right (`RegistryInv`); a crash maps to the end of all tokens.
`PenaltyEarned` needs the same of the streak behind the next backoff, which the
property does not mention; that a change of password forgets the penalties is what
its proof needs of closing, rotation, bootstrap and setting (`ForcePenalty`). `RowIsCurrent` rests on an argument the code does not write down:
whoever changed the passwords last is still on the way to save them (`SomeFresh`),
and any older save is either overtaken, which is the named exception, or has read
the new ones. `EndedInv` then follows an ended password through the memory, the row
and the copies that requests hold.

**The local agent.** Its steps on the room are steps of `Room`. `CredInv`: the file
has the password in force, and so has every agent that runs, or else it has a write
of the file to take up. `SecondInv`: from a decision to start that was made over
a true list until it is carried out, nothing else runs, is asked for or is about
to be.

**The tunnel.** Both theorems are about steps and need the types only. The writes to
`_starting` and `_proc` are taken one by one (`StartingStep`, `LeakHolds`): a step that
leaves a start under way clears the flag, unless the profile fails; a step that
drops a process stops it, unless it is one of the three that write without looking.

**Streams.** A number may be sent twice with different batches, as a post that failed
is not counted, and posts may arrive late. `PostsInOrder` says that a later number
is always a later batch, and `PieceFits` that what stands in the text at a place
lies between what may still arrive for the places before and after it. The host's
order follows for any number of batches and repetitions; that none is missing does
not, as a batch whose post fails for good is dropped. `EndsAreTold` carries the
answer to the screen.

**The agent.** `PlacesInv`: a task has a place to come back to exactly while it joins
again, only then does it hold `rejoinGate`, and one that streams a chat never gets
as far as loading. `TokensInv`: a token that a request was refused with is dead for
good, which with `slipped` gives `ForgetsOnlyByRace`. `LoadingInv`: of two tasks that load
neither counts as alone; a task that has told the Host that it loads has taken
readiness away, or the Host is in doubt; and if it is alone, what it has loaded is
what runs, or nothing does. `ReadyIsBacked` is a part of it, and says nothing while a
model is being selected: the last step of that takes readiness away.

**The Host process.** `LockInv`: who has the lock file open has the one at the path.
`EarlyInv` accounts for processes that loaded their settings while another served,
`SaveInv` for the moment in which a file being saved is empty, and `ForbidInv` and
`InForceInv` say of every serving process and every request under way which
settings they can still bring to the disk.

**The ledger.** `CountedOnce` holds of any ledger whose times are numbers
(`SpansCover`, `SpanNearest`, `SpanOnly`): an event is in the span of the last change
before it, and in no other unless a change has its time. `SpanThresholdTrue` needs
`ClearInv`: as long as nothing it names has happened, at most one request is under
way, rows are in the order of their times (`Ordered`), each row's threshold is the
one the next change replaces or the next job was entered under (`Linked`), and
the last one is that of the file, of memory, or of the request about to tell it
(`Current`, `Announced`, `InStep`). It holds without `Windows`, though two processes
may serve there: the second has loaded while the first served, which is one of
the exceptions. `MeasuredApart` compares the reports of two ledgers that are alike but
for what unmeasured jobs brought (`Alike`): spans, selections and the arguments
of each tier are equal, so that nothing has to be known of sums. `AbAgrees` does need
a sum, the one of positive numbers that is 0 for no number only. A sum is defined
by a function that is chosen among those that satisfy its recursion;
`SumExists` shows that there is one and `SumPositive` what it gives, each by the
least size of a set for which it were false.

**Model-checked only.**

- `EveryJobEnds`, `WriterGetsDone`, `ScreenSettles`: liveness under fairness is beyond
  the proof system.
- What percentiles, the saving of fans and the other figures of the second tier come
  to: no property is about their values.
- What section 5 lists.

## 7. Plan

Every safety property that a run checks is proved. What would add most:

1. `LifecycleGate` beside `Dispatch`: that what `Dispatch` says of the gate follows
   from `GateSpec`.
2. `Dispatch` with rooms that close and members that join idle nodes only, once the
   code keeps the counter across a join: the account of a node is then an
   inequality from the drain on.

*Not modelled.* In `Room`: the contents of names and their normalisation, and the
room code (a password stands for it). In `Agent`: the loading at startup is
defined, and covered by the proofs, and left out of the run for its size; two
settings requests at once, and a report that is checked before a model is selected and
entered after the reset (`server.py:2176`, 2185); a bootstrap that selects a model
without raising `llm_generation` (`server.py:1672`); reports that are handled
after their client has timed out; which endpoint answers. In `ChatStream`: a
batch of several posts. In `HostProcess`: setters other than the four kinds, and
the sanitising of a file edited by hand. In `LocalAgent`: the state shown on the
dashboard. In `Dispatch`: the cached state payload (it is at most one second
old), `_host_infer_loop` (no task starts it), the order of candidates by score,
and how far returning jobs can lift the queue over `max_queue` (by one per node
and answering thread; an instance takes five jobs). In the ESG figures: the A/B
summary over ledgers that mix measured, estimated and missing energies (`AbAgrees` is
about measured ones), and the spans of threshold changes that overlap, which are
wrong in the code and excepted in `SpanThresholdTrue`.

Left out for good: the installer and the demo and benchmark tools, which are
clients of the API or run once; the views of the dashboard that render what the
API returns; sensors and power estimation, which read hardware; training,
forecasting and weather, which are numerical; `errors.py`, `data_paths.py`,
`llm.py` and `room_assets.py`, which hold no state that changes concurrently.

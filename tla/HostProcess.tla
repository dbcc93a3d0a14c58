---------------------------- MODULE HostProcess ----------------------------
(***************************************************************************)
(* The processes of the Host program on one data directory: the start      *)
(* (make_state) and run_server of src/server/server.py, the lock file of   *)
(* src/server/runtime_lock.py, settings.json of src/server/settings.py     *)
(* with the requests that change it, and the ledger of energy events.      *)
(*                                                                         *)
(* Of the settings, the threshold, the weights (four numbers, in tenths)   *)
(* and allow_tunnel are kept: the others are set and saved the same way.   *)
(* The room's row is a version here: module Room is about its contents.    *)
(* A request is one call of api_settings or of the bootstrap, or the       *)
(* result of a job; its entries are taken in the order of the code.        *)
(***************************************************************************)
EXTENDS EsgReport

CONSTANTS
    Processes,      \* processes of the Host program
    Threads,        \* threads that handle requests of the serving process
    Windows,        \* whether an open file cannot be unlinked
    Missing, Torn,  \* settings.json when there is none, or none that can be parsed
    Requests,       \* sequences of <<what, value>>: what a request asks for
    MaxEvents,      \* bound on starts, requests and changes of the room together
    MaxClock        \* bound on the time

Kinds == {"threshold", "bootstrap", "weights", "allow", "job"}
Entries == UNION {{r[i] : i \in DOMAIN r} : r \in Requests}
Settings == [threshold : Nat, weights : [1 .. 4 -> Int], allow : BOOLEAN]

(* What apply_job_result lets through of a result: numbers not below 0. *)
Measure == Nat \cup {None}
JobRec == [ok : BOOLEAN, source : {"sensor", "model", "none"}, mode : Modes,
           energy : Measure, tokens : Measure, estimated : BOOLEAN, dt : Measure,
           hours : Measure, hot : Measure, cool : Measure, clock : Measure, util : Measure,
           ms : Measure, peak : Int \cup {None}]

(* A value that a request asks for has its type: the code converts it (an  *)
(* int, floats, a bool) or refuses the request before it changes anything. *)
ASSUME HostAssumption ==
    /\ Windows \in BOOLEAN
    /\ Missing # Torn
    /\ {Missing, Torn, None} \cap Settings = {}
    /\ IsFiniteSet(Processes) /\ None \notin Processes \cup Nat
    /\ {MaxEvents, MaxClock} \subseteq Nat
    /\ Requests \subseteq Seq(Entries) \ {<<>>}
    /\ \A e \in Entries :
          /\ e[1] \in Kinds
          /\ e[1] \in {"threshold", "bootstrap"} => e[2] \in Nat
          /\ e[1] = "weights" => e[2] \in [1 .. 4 -> Int]
          /\ e[1] = "allow" => e[2] \in BOOLEAN
          /\ e[1] = "job" => e[2].job \in JobRec

VARIABLES
    proc,     \* process -> where it is, its settings, its room, its open file
    disk,     \* settings.json, the room's row and the lock file at its path
    req,      \* thread -> the request that it handles
    ledger,   \* the rows of esg_events, in the order of their ids
    clock,    \* the time that was read last
    spent,    \* number of starts, requests and changes of the room so far
    marks,    \* history: what has happened that a property excepts
    early     \* history: processes that loaded while another one served

hostVars == <<proc, disk, req, ledger, clock, spent, marks, early>>

Defaults == [threshold |-> Config.threshold, weights |-> <<4, 3, 1, 2>>, allow |-> TRUE]
NoFile == 0
Down == [at |-> "down", mem |-> Defaults, room |-> 0, file |-> NoFile]
Free == [at |-> "idle", host |-> None, todo |-> <<>>, text |-> None, old |-> None, ts |-> 0]

HostInit ==
    /\ proc = [p \in Processes |-> Down]
    /\ disk = [settings |-> Missing, row |-> 0, lock |-> NoFile]
    /\ req = [t \in Threads |-> Free]
    /\ ledger = <<>>
    /\ clock = 0
    /\ spent = 0
    /\ marks = {}
    /\ early = {}

At(p, place) == proc[p].at = place
Serving == {p \in Processes : At(p, "serving")}
Loading == {p \in Processes : proc[p].at \in {"made", "opened"}}
Busy == {t \in Threads : req[t].at # "idle"}
Writing == {t \in Threads : req[t].at = "close"}
ReqOf(p) == {t \in Busy : req[t].host = p}

-----------------------------------------------------------------------------
(* A process starts.  make_state reads settings.json (one that cannot be   *)
(* parsed ends the process at once) and the room's row, before run_server  *)
(* asks for the lock.                                                      *)
Settings_load ==
    IF disk.settings = Missing THEN Defaults ELSE disk.settings
make_state(p) ==
    /\ At(p, "down")
    /\ spent < MaxEvents
    /\ disk.settings # Torn
    /\ proc' = [proc EXCEPT ![p] = [Down EXCEPT !.at = "made", !.mem = Settings_load,
                                                !.room = disk.row]]
    /\ spent' = spent + 1
    /\ early' = IF Serving # {} THEN early \cup {p} ELSE early \ {p}
    /\ UNCHANGED <<disk, req, ledger, clock, marks>>

(* acquire opens the file at the path, a new one if there is none; *)
(* asks the system for its lock; and serves, or gives up.          *)
InUse == {disk.lock} \cup {proc[p].file : p \in Processes}
NewFile == CHOOSE f \in 1 .. Cardinality(Processes) + 1 : f \notin InUse
open_lock(p) ==
    /\ At(p, "made")
    /\ LET f == IF disk.lock = NoFile THEN NewFile ELSE disk.lock
       IN  /\ proc' = [proc EXCEPT ![p].at = "opened", ![p].file = f]
           /\ disk' = [disk EXCEPT !.lock = f]
    /\ UNCHANGED <<req, ledger, clock, spent, marks, early>>

HeldByOther(p) == \E q \in Serving : proc[q].file = proc[p].file
(* Faulty: serve without asking for the lock. *)
acquire_unlocked(p) ==
    /\ At(p, "opened")
    /\ proc' = [proc EXCEPT ![p].at = "serving"]
    /\ early' = early \cup (Loading \ {p})
    /\ marks' = IF p \in early THEN marks \cup {"early"} ELSE marks
    /\ UNCHANGED <<disk, req, ledger, clock, spent>>

acquire(p) ==
    /\ At(p, "opened")
    /\ ~HeldByOther(p)
    /\ proc' = [proc EXCEPT ![p].at = "serving"]
    /\ early' = early \cup (Loading \ {p})
    /\ marks' = IF p \in early THEN marks \cup {"early"} ELSE marks
    /\ UNCHANGED <<disk, req, ledger, clock, spent>>

acquire_refused(p) ==
    /\ At(p, "opened")
    /\ HeldByOther(p)
    /\ proc' = [proc EXCEPT ![p] = Down]
    /\ UNCHANGED <<disk, req, ledger, clock, spent, marks, early>>

(* uvicorn ends when the requests are done.  release unlocks and closes   *)
(* the file, then unlinks whatever is at the path; Windows refuses while  *)
(* another process has it open, and the process ends with that error.     *)
release(p) ==
    /\ At(p, "serving")
    /\ ReqOf(p) = {}
    /\ proc' = [proc EXCEPT ![p].at = "unlocked", ![p].file = NoFile]
    /\ UNCHANGED <<disk, req, ledger, clock, spent, marks, early>>

release_unlink(p) ==
    /\ At(p, "unlocked")
    /\ proc' = [proc EXCEPT ![p] = Down]
    /\ disk' = IF Windows /\ \E q \in Processes : proc[q].file = disk.lock
                 THEN disk ELSE [disk EXCEPT !.lock = NoFile]
    /\ UNCHANGED <<req, ledger, clock, spent, marks, early>>

(* A process is killed: the system drops its lock, the file stays. *)
crash(p) ==
    /\ ~At(p, "down")
    /\ proc' = [proc EXCEPT ![p] = Down]
    /\ req' = [t \in Threads |-> IF t \in ReqOf(p) THEN Free ELSE req[t]]
    /\ marks' = marks \cup (IF ReqOf(p) # {} THEN {"cut"} ELSE {})
                      \cup (IF ReqOf(p) \cap Writing # {} THEN {"cut save"} ELSE {})
    /\ UNCHANGED <<disk, ledger, clock, spent, early>>

-----------------------------------------------------------------------------
(* A request starts: it notes the time, read by nothing else here, and is  *)
(* one of several that the lifecycle gate lets in together.                *)
begin(t, p, r) ==
    /\ req[t].at = "idle"
    /\ At(p, "serving")
    /\ spent < MaxEvents
    /\ clock' \in {now \in {clock, clock + 1} : now <= MaxClock}
    /\ req' = [req EXCEPT ![t] = [Free EXCEPT !.at = "next", !.host = p, !.todo = r, !.ts = clock']]
    /\ spent' = spent + 1
    /\ marks' = IF Busy # {} THEN marks \cup {"crossed"} ELSE marks
    /\ UNCHANGED <<proc, disk, ledger, early>>

(* A request that is done with its first entry, or refused at it. *)
Rest(r) == IF Len(r.todo) > 1
             THEN [Free EXCEPT !.at = "next", !.host = r.host, !.todo = Tail(r.todo), !.ts = r.ts]
             ELSE Free
Asks(t, what) == req[t].at = "next" /\ Head(req[t].todo)[1] = what
Value(t) == Head(req[t].todo)[2]
Mem(t) == proc[req[t].host].mem
SetMem(t, mem) == proc' = [proc EXCEPT ![req[t].host].mem = mem]
ToSave(t, old) == req' = [req EXCEPT ![t].at = "save", ![t].old = old]

(* Faulty: change the threshold in memory only. *)
set_threshold_unsaved(t) ==
    /\ Asks(t, "threshold") \/ Asks(t, "bootstrap")
    /\ SetMem(t, [Mem(t) EXCEPT !.threshold = Value(t)])
    /\ req' = [req EXCEPT ![t] = Rest(@)]
    /\ UNCHANGED <<disk, ledger, clock, spent, marks, early>>

(* Faulty: change the threshold and write no event. *)
set_threshold_unannounced(t) ==
    /\ Asks(t, "threshold") \/ Asks(t, "bootstrap")
    /\ SetMem(t, [Mem(t) EXCEPT !.threshold = Value(t)])
    /\ ToSave(t, None)
    /\ marks' = IF Asks(t, "bootstrap") THEN marks \cup {"bootstrap"} ELSE marks
    /\ UNCHANGED <<disk, ledger, clock, spent, early>>

(* The bootstrap sets the threshold as well, but writes no event. *)
set_threshold(t) ==
    /\ Asks(t, "threshold") \/ Asks(t, "bootstrap")
    /\ SetMem(t, [Mem(t) EXCEPT !.threshold = Value(t)])
    /\ ToSave(t, IF Value(t) # Mem(t).threshold THEN Mem(t).threshold ELSE None)
    /\ marks' = IF Asks(t, "bootstrap") THEN marks \cup {"bootstrap"} ELSE marks
    /\ UNCHANGED <<disk, ledger, clock, spent, early>>

(* The weights are assigned one by one; the first negative one ends the *)
(* request, and those before it stay assigned.                          *)
set_weights(t) ==
    /\ Asks(t, "weights")
    /\ LET w == Value(t)
           Reached(i) == \A j \in 1 .. i : w[j] >= 0
           now == [i \in 1 .. 4 |-> IF Reached(i) THEN w[i] ELSE Mem(t).weights[i]]
       IN  /\ SetMem(t, [Mem(t) EXCEPT !.weights = now])
           /\ IF Reached(4)
                THEN ToSave(t, None) /\ UNCHANGED marks
                ELSE /\ req' = [req EXCEPT ![t] = Free]
                     /\ marks' = marks \cup {"refused"}
    /\ UNCHANGED <<disk, ledger, clock, spent, early>>

(* Faulty: let a request switch the tunnel back on. *)
set_allow_tunnel_either(t) ==
    /\ Asks(t, "allow")
    /\ SetMem(t, [Mem(t) EXCEPT !.allow = Value(t)])
    /\ ToSave(t, None)
    /\ UNCHANGED <<disk, ledger, clock, spent, marks, early>>

(* allow_tunnel can be taken away, and not given back. *)
set_allow_tunnel(t) ==
    /\ Asks(t, "allow")
    /\ IF Value(t)
         THEN /\ req' = [req EXCEPT ![t] = IF Mem(t).allow THEN Rest(req[t]) ELSE Free]
              /\ UNCHANGED proc
         ELSE SetMem(t, [Mem(t) EXCEPT !.allow = FALSE]) /\ ToSave(t, None)
    /\ UNCHANGED <<disk, ledger, clock, spent, marks, early>>

(* Faulty: write over the old text without emptying the file first. *)
_persist_in_place(t) ==
    /\ req[t].at = "save"
    /\ req' = [req EXCEPT ![t].at = "close", ![t].text = Mem(t)]
    /\ marks' = IF Writing # {} THEN marks \cup {"overlap"} ELSE marks
    /\ UNCHANGED <<proc, disk, ledger, clock, spent, early>>

(* _persist opens the file for writing, which empties it, and makes the    *)
(* text; the text is written when the file is closed, over what is there.  *)
(* A text that is shorter than what another writer put there does not      *)
(* cover it.  An error in either step ends the request.                    *)
_persist(t) ==
    /\ req[t].at = "save"
    /\ req' = [req EXCEPT ![t].at = "close", ![t].text = Mem(t)]
    /\ disk' = [disk EXCEPT !.settings = Torn]
    /\ marks' = IF Writing # {} THEN marks \cup {"overlap"} ELSE marks
    /\ UNCHANGED <<proc, ledger, clock, spent, early>>

Width(text) == (IF text.threshold >= 100 THEN 5 ELSE 4) + (IF text.allow THEN 4 ELSE 5)
Covers(text, there) == there \in {Missing, Torn} \/ Width(text) >= Width(there)
_persist_close(t) ==
    /\ req[t].at = "close"
    /\ disk' = [disk EXCEPT !.settings =
                  IF Covers(req[t].text, @) THEN req[t].text ELSE Torn]
    /\ req' = [req EXCEPT ![t] =
                 IF Head(@.todo)[1] = "threshold" /\ @.old # None
                   THEN [@ EXCEPT !.at = "event", !.text = None] ELSE Rest(@)]
    /\ marks' = IF req[t].text.allow THEN marks ELSE marks \cup {"forbidden"}
    /\ UNCHANGED <<proc, ledger, clock, spent, early>>

_persist_fails(t) ==
    /\ req[t].at \in {"save", "close"}
    /\ req' = [req EXCEPT ![t] = Free]
    /\ disk' = IF req[t].at = "save" THEN disk ELSE [disk EXCEPT !.settings = Torn]
    /\ marks' = marks \cup {"failed"}
    /\ UNCHANGED <<proc, ledger, clock, spent, early>>

(* record_esg_event: the row has the time at which the request began, and *)
(* the threshold in force when it is written, unless it brings its own.   *)
Row(t, type, old, new, stamp, node, job) ==
    [ts |-> req[t].ts, type |-> type, old |-> old, new |-> new, stamp |-> stamp,
     node |-> node, job |-> job]
threshold_changed(t) ==
    /\ req[t].at = "event"
    /\ ledger' = Append(ledger, Row(t, "threshold_changed", req[t].old, Value(t), Value(t),
                                    "system", None))
    /\ req' = [req EXCEPT ![t] = Rest(@)]
    /\ UNCHANGED <<proc, disk, clock, spent, marks, early>>

job_completed(t) ==
    /\ Asks(t, "job")
    /\ ledger' = Append(ledger, Row(t, "job_completed", None, None, Mem(t).threshold,
                                    Value(t).node, Value(t).job))
    /\ req' = [req EXCEPT ![t] = Rest(@)]
    /\ UNCHANGED <<proc, disk, clock, spent, marks, early>>

(* The room changes, with its row; module Room has the steps. *)
rotate(p) ==
    /\ At(p, "serving")
    /\ spent < MaxEvents
    /\ spent' = spent + 1
    /\ proc' = [proc EXCEPT ![p].room = disk.row + 1]
    /\ disk' = [disk EXCEPT !.row = @ + 1]
    /\ UNCHANGED <<req, ledger, clock, marks, early>>

HostNext ==
    \/ \E p \in Processes :
          \/ make_state(p) \/ open_lock(p) \/ acquire(p)
          \/ acquire_refused(p) \/ release(p) \/ release_unlink(p) \/ crash(p) \/ rotate(p)
          \/ \E t \in Threads, r \in Requests : begin(t, p, r)
    \/ \E t \in Threads :
          \/ set_threshold(t) \/ set_weights(t) \/ set_allow_tunnel(t)
          \/ _persist(t) \/ _persist_close(t) \/ _persist_fails(t)
          \/ threshold_changed(t) \/ job_completed(t)

HostSpec == HostInit /\ [][HostNext]_hostVars

-----------------------------------------------------------------------------
ProcRec == [at : {"down", "made", "opened", "serving", "unlocked"}, mem : Settings,
            room : 0 .. MaxEvents, file : 0 .. Cardinality(Processes) + 1]
DiskRec == [settings : Settings \cup {Missing, Torn}, row : 0 .. MaxEvents,
            lock : 0 .. Cardinality(Processes) + 1]
ReqRec == [at : {"idle", "next", "save", "close", "event"}, host : Processes \cup {None},
           todo : Seq(Entries), text : Settings \cup {None}, old : Nat \cup {None}, ts : Nat]
JobsAsked == {e[2] : e \in {x \in Entries : x[1] = "job"}}
RowRec == [ts : Nat, type : {"threshold_changed", "job_completed"}, old : Nat \cup {None},
           new : Nat \cup {None}, stamp : Nat, node : {"system"} \cup {j.node : j \in JobsAsked},
           job : {None} \cup {j.job : j \in JobsAsked}]

MarkKinds == {"early", "crossed", "cut", "cut save", "overlap", "bootstrap", "failed", "refused",
              "forbidden"}

(* Every variable has its type, and nothing is dated later than now. *)
HostTypeOK ==
    /\ proc \in [Processes -> ProcRec]
    /\ disk \in DiskRec
    /\ req \in [Threads -> ReqRec]
    /\ \A t \in Threads : req[t].ts <= clock
    /\ ledger \in Seq(RowRec)
    /\ \A i \in DOMAIN ledger : ledger[i].ts <= clock
    /\ clock \in 0 .. MaxClock
    /\ spent \in 0 .. MaxEvents
    /\ early \subseteq Processes
    /\ marks \subseteq MarkKinds

(* runtime_lock.py:1 promises exactly one Host per data directory: no two *)
(* processes serve at once, whoever starts, ends or is killed meanwhile   *)
(* (acquire and release, runtime_lock.py:25-75).                          *)
OneHost == Cardinality(Serving) <= 1

(* What a Host has in force is what the next one will find: with no       *)
(* request under way, its room is the room's row, and its settings are    *)
(* those of the file unless two saves overlapped, one failed, or weights  *)
(* were refused half way.  A Host that loaded while another one served is *)
(* left out: make_state reads before the lock is asked for (server.py:    *)
(* 3209, 3295-3297).                                                      *)
InForceIsOnDisk ==
    \A p \in Serving \ early :
        /\ proc[p].room = disk.row
        /\ ReqOf(p) = {} /\ marks \cap {"overlap", "failed", "refused"} = {}
             => Settings_load = proc[p].mem

(* settings.json can be read whenever no save is under way, unless a Host *)
(* was killed while it saved, a save failed, or two overlapped: a file    *)
(* that cannot be read keeps every Host from starting (settings.py:50-58, *)
(* 96-98).                                                                *)
UnreadableOnlyByCutSave ==
    disk.settings = Torn /\ Writing = {} => marks \cap {"cut save", "failed", "overlap"} # {}

(* The kill switch: once a save has forbidden the tunnel, settings.json    *)
(* never allows it again, unless two saves overlapped or a Host that had   *)
(* loaded before saved what it had (server.py:2581-2594, settings.py:140). *)
KillSwitchStays ==
    "forbidden" \in marks /\ disk.settings \notin {Missing, Torn} =>
        ~disk.settings.allow \/ marks \cap {"overlap", "early"} # {}

(* The threshold that a report gives for a span was in force when each of *)
(* the span's jobs was entered (E9; esg.py:281-330, server.py:197-203 and *)
(* 2528-2538), but for jobs at the very time of a change; unless requests *)
(* ran side by side, a change was cut short or made by the bootstrap, or  *)
(* a Host served with settings it had loaded before.                      *)
Spans == _split_threshold_segments(ledger)
Jobs(events) == {i \in DOMAIN events : events[i].type = "job_completed"}
ChangedAt(ts) == \E i \in DOMAIN ledger : ledger[i].ts = ts /\ ledger[i].type = "threshold_changed"
SpanThresholdTrue ==
    marks \cap {"crossed", "cut", "failed", "bootstrap", "early"} = {} =>
        \A c \in DOMAIN Spans : \A i \in Jobs(Chunk(ledger, Spans[c])) :
            ChangedAt(ledger[i].ts) \/ ledger[i].stamp = Spans[c].threshold

(* Every job of the ledger is counted in one span of the report, and in a *)
(* second one only when the threshold was changed at the job's very time, *)
(* for both ends of a span belong to it (esg.py:561-572).                 *)
CountedOnce ==
    \A i \in Jobs(ledger) :
        LET in == {c \in DOMAIN Spans : i \in DOMAIN Chunk(ledger, Spans[c])}
        IN  in # {} /\ (Cardinality(in) > 1 => ChangedAt(ledger[i].ts))

(* What sensors measured and what a model derives are kept apart (esg.py: *)
(* 3, 346-354): whatever the jobs that no sensor measured were, the first *)
(* tier and the projection of what was measured are the same; and jobs    *)
(* with no source of energy do not show in the second tier.               *)
Report(events) == compute_report(events, None, None)
Altered(sources) ==
    [i \in DOMAIN ledger |->
        IF ledger[i].type = "job_completed" /\ ledger[i].job.source \in sources
          THEN [ledger[i] EXCEPT !.job.energy = 9, !.job.tokens = 7, !.job.dt = 3, !.job.hours = 2,
                                 !.job.clock = 1, !.job.util = 99, !.job.ms = 5]
          ELSE ledger[i]]
MeasuredApart ==
    LET top == Report(ledger).top
        From(sources) == \E i \in Jobs(ledger) : ledger[i].job.source \in sources
    IN  /\ From({"model", "none"}) =>
            LET unsensed == Report(Altered({"model", "none"})).top
            IN  unsensed.tier1 = top.tier1 /\ unsensed.tier3.measured = top.tier3.measured
        /\ From({"none"}) => Report(Altered({"none"})).top.tier2 = top.tier2

(* The two places that compare the scheduling modes agree when there is   *)
(* one span and every job in it succeeded and was measured: compute_ab_   *)
(* summary has the baseline of the report, and its saving (server.py:     *)
(* 1904-2007, esg.py:356-365).                                            *)
AbAgrees ==
    LET clean(j) == j.ok /\ j.source = "sensor" /\ Measured(<<j>>) # {} /\ j.energy > 0
        ab    == compute_ab_summary(ledger)
        tier1 == Report(ledger).top.tier1
    IN  Cardinality(DOMAIN Spans) = 1 /\ Jobs(ledger) # {} /\ (\A i \in Jobs(ledger) : clean(ledger[i].job)) =>
            /\ ab.stats["round_robin"].per_token = tier1.baseline
            /\ tier1.improvement # None => ab.savings = tier1.improvement

(* set_weights says that the weights sum to 1.0 (settings.py:117-118).  It *)
(* does not hold: a set with a negative weight passes that test, and is    *)
(* refused after those before the negative one are assigned.               *)
WeightsSumToOne ==
    \A p \in Serving : LET w == proc[p].mem.weights IN w[1] + w[2] + w[3] + w[4] = 10
=============================================================================

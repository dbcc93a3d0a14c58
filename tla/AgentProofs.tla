---------------------------- MODULE AgentProofs ----------------------------
(***************************************************************************)
(* The properties of Agent, proved for any number of models, of tokens and *)
(* of generations, with the loading at startup and without it.             *)
(***************************************************************************)
EXTENDS Agent, TLAPS

-----------------------------------------------------------------------------
(* The inductive invariants.                                               *)

(* Where a task goes when it joins again, from the refusal on; from clear  *)
(* on it holds rejoinGate, unless it is the switch or the startup.         *)
Joining(p) ==
    th[p].at \in {"clear", "join", "joined", "match", "ensure", "llm", "gate", "loading", "loaded"}
        \/ (At(p, "report") /\ th[p].next \in {"match", "llm", "over"})
Outside(p) == th[p].at \in {"refused", "rejoin"}

(* A task keeps a place to come back to exactly while it joins again, and  *)
(* one that streams a chat does not get as far as loading.                 *)
PlacesInv ==
    \A p \in Tasks :
        /\ th[p].back # "idle" => Outside(p) \/ (Joining(p) /\ lock.rejoin = p)
        /\ Outside(p) \/ At(p, "clear") => th[p].back # "idle"
        /\ lock.rejoin = p => Joining(p)
        /\ At(p, "loading") => th[p].back # "generating"
        /\ th[p].at \in JobPlaces \/ th[p].next = "answer" \/ th[p].back \in {"generating", "answer"}
             => p = "job"

(* The token a request was refused with is dead for good; so is the one    *)
(* that RejoinAsync was given, if it is the same.                          *)
Dead(t) == t # host.live \/ t = NoToken
TokensInv ==
    /\ host.live <= host.issued /\ token <= host.issued
    /\ \A p \in Tasks :
         /\ th[p].tok <= host.issued
         /\ At(p, "refused") => Dead(th[p].tok)
         /\ th[p].at \in {"rejoin", "clear"} /\ ~th[p].slipped => Dead(th[p].tok)

(* What p loaded is what runs, or nothing does any more. *)
Backs(m) == rt.st = "dead" \/ (rt.st = "up" /\ rt.model = m)
Told(p) == Ensuring(p) /\ ~(At(p, "report") /\ th[p].next = "llm")

(* Of two tasks that load neither counts as alone.  A task that has told   *)
(* the host that it loads has taken readiness away, or the host is in      *)
(* doubt; if it is alone, what it has loaded is what runs.                 *)
LoadingInv ==
    /\ \A p, q \in Tasks : p # q /\ Ensuring(p) /\ Ensuring(q) => ~th[p].alone
    /\ \A p \in Tasks : Told(p) \/ At(p, "restarting") => ~host.ready \/ doubtful
    /\ \A p \in Tasks : th[p].alone =>
         /\ th[p].at \in {"gate", "loading"} => th[p].cfg = roomCfg
         /\ At(p, "loaded") /\ th[p].ok => Backs(roomCfg.model)
         /\ At(p, "report") /\ th[p].next = "over" /\ th[p].ok => Backs(th[p].cfg.model)
    /\ At("job", "restarting") => \A p \in Tasks :
         th[p].at = "loaded" \/ (At(p, "report") /\ th[p].next = "over") => ~th[p].alone
    /\ \A p \in Tasks : At(p, "report") /\ th[p].next # "over" => ~th[p].ok
    /\ ReadyIsBacked
-----------------------------------------------------------------------------
(* What the variables are, and what becomes of the tasks in a step.        *)

FirstCfg == [model |-> FirstModel, gen |-> 0]

(* The record of a task with nothing to remember but where to come back. *)
Plain(r, l, b) ==
    /\ r.at = l /\ r.next = "idle" /\ r.back = b /\ r.cfg = FirstCfg /\ r.tok = NoToken
    /\ r.ok = FALSE /\ r.slipped = FALSE

(* The other tasks are as they were, or no longer alone. *)
Kept(p) == \A q \in Tasks \ {p} : th'[q] = th[q]
Shaken(p) ==
    \A q \in Tasks \ {p} :
        /\ th'[q].at = th[q].at /\ th'[q].next = th[q].next /\ th'[q].back = th[q].back
        /\ th'[q].cfg = th[q].cfg /\ th'[q].tok = th[q].tok /\ th'[q].ok = th[q].ok
        /\ th'[q].slipped = th[q].slipped /\ th'[q].alone = (th[q].alone /\ ~Ensuring(q))

LEMMA Names ==
  /\ {"telemetry", "job", "switch"} \subseteq Tasks
  /\ Tasks \subseteq {"startup", "telemetry", "job", "switch"}
  /\ Nobody \notin Tasks
  /\ FirstModel \in Models /\ MaxToken \in Nat /\ MaxToken >= 1 /\ MaxGen \in Nat
  /\ NoToken \in TokensOrNone /\ FirstCfg \in Configs
  BY AgentAssumption DEF Nobody, NoToken, TokensOrNone, Configs, FirstCfg

LEMMA TaskFields ==
  ASSUME NEW l
  PROVE  /\ Plain(Task(l), l, "idle") /\ Task(l).alone = TRUE
         /\ l \in Places => Task(l) \in TaskRec
<1>1. Task(l) = [at |-> l, next |-> "idle", back |-> "idle", cfg |-> FirstCfg,
                 tok |-> NoToken, ok |-> FALSE, slipped |-> FALSE, alone |-> TRUE]
  BY DEF Task, FirstCfg
<1> QED BY <1>1, Names DEF Plain, TaskRec

LEMMA TaskTyped ==
  ASSUME AgentTypeOK, NEW p \in Tasks
  PROVE  /\ th[p] \in TaskRec
         /\ th[p].at \in Places /\ th[p].next \in {"idle", "loop", "answer", "match", "llm", "over"}
         /\ th[p].back \in {"idle", "loop", "answer", "generating"} /\ th[p].cfg \in Configs
         /\ th[p].tok \in TokensOrNone /\ th[p].ok \in BOOLEAN /\ th[p].slipped \in BOOLEAN
         /\ th[p].alone \in BOOLEAN
  BY DEF AgentTypeOK, TaskRec

LEMMA HostTyped ==
  ASSUME AgentTypeOK
  PROVE  /\ host.model \in Models /\ host.gen \in 0 .. MaxGen /\ host.live \in TokensOrNone
         /\ host.issued \in 1 .. MaxToken /\ host.ready \in BOOLEAN /\ Config \in Configs
         /\ Config.model = host.model /\ Config.gen = host.gen
         /\ rt.st \in {"down", "up", "dead"} /\ rt.model \in Models /\ rt.gen \in 0 .. MaxGen
         /\ lock.gate \in Tasks \cup {Nobody} /\ lock.llm \in Tasks \cup {Nobody}
         /\ lock.rejoin \in Tasks \cup {Nobody}
  BY DEF AgentTypeOK, LockRec, Config, Configs

LEMMA StepFields ==
  ASSUME AgentTypeOK, NEW p \in Tasks, NEW l
  PROVE  /\ Plain(Step(p, l), l, th[p].back) /\ Step(p, l).alone = th[p].alone
         /\ l \in Places => Step(p, l) \in TaskRec
<1>1. Task(l) = [at |-> l, next |-> "idle", back |-> "idle", cfg |-> FirstCfg,
                 tok |-> NoToken, ok |-> FALSE, slipped |-> FALSE, alone |-> TRUE]
  BY DEF Task, FirstCfg
<1>2. /\ th[p].back \in {"idle", "loop", "answer", "generating"} /\ th[p].alone \in BOOLEAN
      /\ NoToken \in TokensOrNone /\ FirstCfg \in Configs
  BY Names, TaskTyped
<1> DEFINE b == th[p].back
           a == th[p].alone
<1>3. Step(p, l) = [Task(l) EXCEPT !.back = b, !.alone = a]
  BY DEF Step
<1> HIDE DEF a, b
<1>4. Plain(Step(p, l), l, b) /\ Step(p, l).alone = a
  BY <1>1, <1>3 DEF Plain
<1>5. l \in Places => Step(p, l) \in TaskRec
  <2>1. ASSUME l \in Places
        PROVE  Step(p, l) \in TaskRec
    <3>1. Task(l) \in TaskRec
      BY <2>1, TaskFields
    <3> QED BY <1>2, <1>3, <3>1 DEF TaskRec, a, b
  <2> QED BY <2>1
<1> QED BY <1>4, <1>5 DEF a, b

LEMMA SetEffect ==
  ASSUME AgentTypeOK, NEW p \in Tasks, NEW r \in TaskRec, Set(p, r)
  PROVE  th'[p] = r /\ Kept(p) /\ th' \in [Tasks -> TaskRec]
  BY DEF Set, Kept, AgentTypeOK

LEMMA DisturbEffect ==
  ASSUME AgentTypeOK, NEW p \in Tasks, NEW r \in TaskRec, th' = Disturb(p, r)
  PROVE  th'[p] = r /\ Shaken(p) /\ th' \in [Tasks -> TaskRec]
<1>1. th'[p] = r
  BY DEF Disturb
<1>2. ASSUME NEW q \in Tasks \ {p}
      PROVE  /\ th'[q] \in TaskRec
             /\ th'[q].at = th[q].at /\ th'[q].next = th[q].next /\ th'[q].back = th[q].back
             /\ th'[q].cfg = th[q].cfg /\ th'[q].tok = th[q].tok /\ th'[q].ok = th[q].ok
             /\ th'[q].slipped = th[q].slipped /\ th'[q].alone = (th[q].alone /\ ~Ensuring(q))
  <2>1. th'[q] = [th[q] EXCEPT !.alone = th[q].alone /\ ~Ensuring(q)]
    BY DEF Disturb
  <2>2. th[q] \in TaskRec /\ (th[q].alone /\ ~Ensuring(q)) \in BOOLEAN
    BY TaskTyped
  <2> HIDE DEF Ensuring
  <2> QED BY <2>1, <2>2 DEF TaskRec
<1>3. th' \in [Tasks -> TaskRec]
  <2>1. th' = [q \in Tasks |-> th'[q]]
    BY DEF Disturb
  <2> QED BY <1>1, <1>2, <2>1
<1> QED BY <1>1, <1>2, <1>3 DEF Shaken

(* A task at the end of its rejoin goes back and frees rejoinGate. *)
Ended(p) ==
    /\ Plain(th'[p], IF lock.rejoin = p THEN th[p].back ELSE "idle", "idle")
    /\ th'[p].alone = TRUE /\ Kept(p) /\ th' \in [Tasks -> TaskRec]
    /\ lock' \in LockRec
    /\ lock'.gate = lock.gate /\ lock'.llm = lock.llm
    /\ lock'.rejoin = IF lock.rejoin = p THEN Nobody ELSE lock.rejoin

LEMMA EndEffect ==
  ASSUME AgentTypeOK, NEW p \in Tasks, End(p)
  PROVE  Ended(p)
<1>1. th[p].back \in Places /\ "idle" \in Places
  BY TaskTyped DEF Places, JobPlaces
<1>2. CASE lock.rejoin = p
  <2>1. Set(p, Task(th[p].back)) /\ lock' = [lock EXCEPT !.rejoin = Nobody]
    BY <1>2 DEF End, Back
  <2>2. th'[p] = Task(th[p].back) /\ Kept(p) /\ th' \in [Tasks -> TaskRec]
    BY <1>1, <2>1, TaskFields, SetEffect
  <2>3. Plain(Task(th[p].back), th[p].back, "idle") /\ Task(th[p].back).alone = TRUE
    BY TaskFields
  <2>4. /\ lock'.gate = lock.gate /\ lock'.llm = lock.llm /\ lock'.rejoin = Nobody
        /\ lock' \in LockRec
    BY <2>1, Names DEF AgentTypeOK, LockRec
  <2> QED BY <1>2, <2>1, <2>2, <2>3, <2>4 DEF Ended
<1>3. CASE lock.rejoin # p
  <2>1. Set(p, Task("idle")) /\ lock' = lock
    BY <1>3 DEF End
  <2>2. th'[p] = Task("idle") /\ Kept(p) /\ th' \in [Tasks -> TaskRec]
    BY <1>1, <2>1, TaskFields, SetEffect
  <2>3. Plain(Task("idle"), "idle", "idle") /\ Task("idle").alone = TRUE
    BY TaskFields
  <2> QED BY <1>3, <2>1, <2>2, <2>3 DEF Ended, AgentTypeOK
<1> QED BY <1>2, <1>3

-----------------------------------------------------------------------------
(* What the steps do, field by field.                                      *)

Typed == th' \in [Tasks -> TaskRec] /\ lock' \in LockRec

(* p goes to l and remembers no more than before. *)
Goes(p, l) ==
    Plain(th'[p], l, th[p].back) /\ th'[p].alone = th[p].alone /\ Kept(p)

(* p sends a report. *)
Reports(p, l, c, ok) ==
    /\ th'[p].at = "report" /\ th'[p].next = l /\ th'[p].back = th[p].back /\ th'[p].cfg = c
    /\ th'[p].ok = ok /\ th'[p].slipped = FALSE

LEMMA GoEffect ==
  ASSUME AgentTypeOK, NEW p \in Tasks, NEW l \in Places, Go(p, l)
  PROVE  Goes(p, l) /\ th' \in [Tasks -> TaskRec]
<1>1. Step(p, l) \in TaskRec /\ Set(p, Step(p, l))
  BY StepFields DEF Go
<1> QED BY <1>1, SetEffect, StepFields DEF Goes

LEMMA ReportEffect ==
  ASSUME AgentTypeOK, NEW p \in Tasks, NEW l \in {"loop", "answer", "match", "llm", "over"},
         NEW c \in Configs, NEW ok \in BOOLEAN, Set(p, Reporting(p, l, c, ok))
  PROVE  /\ Reports(p, l, c, ok) /\ th'[p].tok = token /\ th'[p].alone = th[p].alone
         /\ Kept(p) /\ th' \in [Tasks -> TaskRec]
<1> DEFINE s == Step(p, "report")
           r == [s EXCEPT !.next = l, !.cfg = c, !.ok = ok, !.tok = token]
<1>0. s \in TaskRec /\ Plain(s, "report", th[p].back) /\ s.alone = th[p].alone
      /\ token \in TokensOrNone
  BY StepFields DEF Places, AgentTypeOK
<1>2. Set(p, r)
  BY DEF Reporting
<1> HIDE DEF s
<1>1. /\ r \in TaskRec
      /\ r.at = "report" /\ r.next = l /\ r.back = th[p].back /\ r.cfg = c
      /\ r.tok = token /\ r.ok = ok /\ r.slipped = FALSE /\ r.alone = th[p].alone
  BY <1>0 DEF TaskRec, Plain
<1> HIDE DEF r
<1>3. th'[p] = r /\ Kept(p) /\ th' \in [Tasks -> TaskRec]
  BY <1>1, <1>2, SetEffect
<1> QED BY <1>1, <1>3 DEF Reports

LEMMA LockKept == AgentTypeOK /\ UNCHANGED lock => lock' \in LockRec
  BY DEF AgentTypeOK

LEMMA EnsureEffect ==
  ASSUME AgentTypeOK, NEW p \in Tasks, EnsureLlmAsync(p)
  PROVE  /\ At(p, "ensure") /\ Reports(p, "llm", roomCfg, FALSE) /\ th'[p].tok = token
         /\ th'[p].alone = \A q \in Tasks \ {p} : ~Ensuring(q)
         /\ Shaken(p) /\ Typed /\ llmReady' = FALSE
         /\ UNCHANGED <<host, token, roomCfg, rt, lock, doubtful>>
<1> DEFINE s == Step(p, "report")
           a == \A q \in Tasks \ {p} : ~Ensuring(q)
           r == [s EXCEPT !.next = "llm", !.cfg = roomCfg, !.ok = FALSE, !.tok = token]
           n == [r EXCEPT !.alone = a]
<1>1. th' = Disturb(p, n) /\ At(p, "ensure") /\ llmReady' = FALSE
      /\ UNCHANGED <<host, token, roomCfg, rt, lock, doubtful>>
  BY DEF EnsureLlmAsync, Reporting
<1>2. s \in TaskRec /\ Plain(s, "report", th[p].back) /\ token \in TokensOrNone
      /\ roomCfg \in Configs
  BY StepFields DEF Places, AgentTypeOK
<1>3. a \in BOOLEAN
  OBVIOUS
<1> HIDE DEF s, a
<1>6. r \in TaskRec /\ r.at = "report" /\ r.next = "llm" /\ r.back = th[p].back
      /\ r.cfg = roomCfg /\ r.tok = token /\ r.ok = FALSE /\ r.slipped = FALSE
  BY <1>2 DEF TaskRec, Plain
<1> HIDE DEF r
<1>4. n \in TaskRec /\ n.at = "report" /\ n.next = "llm" /\ n.back = th[p].back
      /\ n.cfg = roomCfg /\ n.tok = token /\ n.ok = FALSE /\ n.slipped = FALSE /\ n.alone = a
  BY <1>3, <1>6 DEF TaskRec
<1> HIDE DEF n
<1>5. th'[p] = n /\ Shaken(p) /\ th' \in [Tasks -> TaskRec]
  BY <1>1, <1>4, DisturbEffect
<1> QED BY <1>1, <1>4, <1>5, LockKept DEF Reports, Typed, a

LEMMA LlmLockEffect ==
  ASSUME AgentTypeOK, NEW p \in Tasks, llmLock(p)
  PROVE  /\ At(p, "llm") /\ lock.llm = Nobody
         /\ th'[p].at = "gate" /\ th'[p].next = "idle" /\ th'[p].back = th[p].back
         /\ th'[p].cfg = roomCfg /\ th'[p].tok = NoToken /\ ~th'[p].ok /\ ~th'[p].slipped
         /\ th'[p].alone = th[p].alone /\ Kept(p) /\ Typed
         /\ lock'.llm = p /\ lock'.gate = lock.gate /\ lock'.rejoin = lock.rejoin
         /\ UNCHANGED <<host, token, roomCfg, llmReady, rt, doubtful>>
<1> DEFINE s == Step(p, "gate")
           n == [s EXCEPT !.cfg = roomCfg]
<1>1. Set(p, n) /\ At(p, "llm") /\ lock.llm = Nobody /\ lock' = [lock EXCEPT !.llm = p]
      /\ UNCHANGED <<host, token, roomCfg, llmReady, rt, doubtful>>
  BY DEF llmLock
<1>2. s \in TaskRec /\ Plain(s, "gate", th[p].back) /\ s.alone = th[p].alone /\ roomCfg \in Configs
  BY StepFields DEF Places, AgentTypeOK
<1> HIDE DEF s
<1>3. /\ n \in TaskRec /\ n.at = "gate" /\ n.next = "idle" /\ n.back = th[p].back
      /\ n.cfg = roomCfg /\ n.tok = NoToken /\ ~n.ok /\ ~n.slipped /\ n.alone = th[p].alone
  BY <1>2 DEF TaskRec, Plain
<1> HIDE DEF n
<1>4. th'[p] = n /\ Kept(p) /\ th' \in [Tasks -> TaskRec]
  BY <1>1, <1>3, SetEffect
<1>5. /\ lock' \in LockRec /\ lock'.llm = p /\ lock'.gate = lock.gate
      /\ lock'.rejoin = lock.rejoin
  BY <1>1 DEF AgentTypeOK, LockRec
<1> QED BY <1>1, <1>3, <1>4, <1>5 DEF Typed

(* The runner's gate is taken or left. *)
LEMMA GateSet ==
  ASSUME AgentTypeOK, NEW x \in Tasks \cup {Nobody}, lock' = [lock EXCEPT !.gate = x]
  PROVE  lock' \in LockRec /\ lock'.gate = x /\ lock'.llm = lock.llm /\ lock'.rejoin = lock.rejoin
  BY DEF AgentTypeOK, LockRec

LEMMA KeepEffect ==
  ASSUME AgentTypeOK, NEW p \in Tasks, EnsureReadyAsync(p), rt.st = "up", rt.model = th[p].cfg.model
  PROVE  /\ At(p, "gate") /\ lock.gate = Nobody
         /\ th'[p].at = "loaded" /\ th'[p].next = "idle" /\ th'[p].back = th[p].back
         /\ th'[p].tok = NoToken /\ th'[p].ok /\ ~th'[p].slipped
         /\ th'[p].alone = th[p].alone /\ Kept(p) /\ Typed
         /\ UNCHANGED <<host, token, roomCfg, llmReady, rt, lock, doubtful>>
<1> DEFINE s == Step(p, "loaded")
           n == [s EXCEPT !.ok = TRUE]
<1>1. Set(p, n) /\ At(p, "gate") /\ lock.gate = Nobody
      /\ UNCHANGED <<host, token, roomCfg, llmReady, rt, lock, doubtful>>
  BY DEF EnsureReadyAsync
<1>2. s \in TaskRec /\ Plain(s, "loaded", th[p].back) /\ s.alone = th[p].alone
  BY StepFields DEF Places
<1> HIDE DEF s
<1>3. /\ n \in TaskRec /\ n.at = "loaded" /\ n.next = "idle" /\ n.back = th[p].back
      /\ n.tok = NoToken /\ n.ok /\ ~n.slipped /\ n.alone = th[p].alone
  BY <1>2 DEF TaskRec, Plain
<1> HIDE DEF n
<1>4. th'[p] = n /\ Kept(p) /\ th' \in [Tasks -> TaskRec]
  BY <1>1, <1>3, SetEffect
<1> QED BY <1>1, <1>3, <1>4, LockKept DEF Typed

LEMMA StopEffect ==
  ASSUME AgentTypeOK, NEW p \in Tasks, EnsureReadyAsync(p),
         ~(rt.st = "up" /\ rt.model = th[p].cfg.model)
  PROVE  /\ At(p, "gate") /\ lock.gate = Nobody
         /\ th'[p].at = "loading" /\ th'[p].next = "idle" /\ th'[p].back = th[p].back
         /\ th'[p].cfg = th[p].cfg /\ th'[p].tok = NoToken /\ ~th'[p].ok /\ ~th'[p].slipped
         /\ th'[p].alone = th[p].alone /\ Kept(p) /\ Typed
         /\ lock'.gate = p /\ lock'.llm = lock.llm /\ lock'.rejoin = lock.rejoin
         /\ rt' = Stopped("down")
         /\ UNCHANGED <<host, token, roomCfg, llmReady, doubtful>>
<1> DEFINE s == Step(p, "loading")
           c == th[p].cfg
           n == [s EXCEPT !.cfg = c]
<1>1. Set(p, n) /\ At(p, "gate") /\ lock.gate = Nobody /\ lock' = [lock EXCEPT !.gate = p]
      /\ rt' = Stopped("down") /\ UNCHANGED <<host, token, roomCfg, llmReady, doubtful>>
  BY DEF EnsureReadyAsync
<1>2. s \in TaskRec /\ Plain(s, "loading", th[p].back) /\ s.alone = th[p].alone /\ c \in Configs
  BY StepFields, TaskTyped DEF Places
<1> HIDE DEF s, c
<1>3. /\ n \in TaskRec /\ n.at = "loading" /\ n.next = "idle" /\ n.back = th[p].back
      /\ n.cfg = c /\ n.tok = NoToken /\ ~n.ok /\ ~n.slipped /\ n.alone = th[p].alone
  BY <1>2 DEF TaskRec, Plain
<1> HIDE DEF n
<1>4. th'[p] = n /\ Kept(p) /\ th' \in [Tasks -> TaskRec]
  BY <1>1, <1>3, SetEffect
<1> QED BY <1>1, <1>3, <1>4, GateSet DEF Typed, c

LEMMA StartEffect ==
  ASSUME AgentTypeOK, NEW p \in Tasks, StartServerAsync(p)
  PROVE  /\ At(p, "loading") /\ th'[p].at = "loaded" /\ th'[p].next = "idle"
         /\ th'[p].back = th[p].back /\ th'[p].tok = NoToken /\ ~th'[p].slipped
         /\ th'[p].alone = th[p].alone /\ Kept(p) /\ Typed
         /\ lock'.gate = Nobody /\ lock'.llm = lock.llm /\ lock'.rejoin = lock.rejoin
         /\ IF th'[p].ok THEN rt' = [st |-> "up", model |-> th[p].cfg.model, gen |-> th[p].cfg.gen]
                         ELSE rt' = rt
         /\ UNCHANGED <<host, token, roomCfg, llmReady, doubtful>>
<1> DEFINE s == Step(p, "loaded")
           n(ok) == [s EXCEPT !.ok = ok]
<1>1. PICK ok \in BOOLEAN :
        /\ rt' = IF ok THEN [st |-> "up", model |-> th[p].cfg.model, gen |-> th[p].cfg.gen]
                       ELSE rt
        /\ Set(p, n(ok))
  BY DEF StartServerAsync
<1>2. /\ At(p, "loading") /\ lock' = [lock EXCEPT !.gate = Nobody]
      /\ UNCHANGED <<host, token, roomCfg, llmReady, doubtful>>
  BY DEF StartServerAsync
<1>3. s \in TaskRec /\ Plain(s, "loaded", th[p].back) /\ s.alone = th[p].alone
  BY StepFields DEF Places
<1> DEFINE r == n(ok)
<1>4. /\ r \in TaskRec /\ r.at = "loaded" /\ r.next = "idle" /\ r.back = th[p].back
      /\ r.tok = NoToken /\ r.ok = ok /\ ~r.slipped /\ r.alone = th[p].alone
  <2> HIDE DEF s
  <2> QED BY <1>3 DEF TaskRec, Plain
<1>5. Set(p, r)
  BY <1>1
<1> HIDE DEF r
<1>6. th'[p] = r /\ Kept(p) /\ th' \in [Tasks -> TaskRec]
  BY <1>4, <1>5, SetEffect
<1> QED BY <1>1, <1>2, <1>4, <1>6, GateSet DEF Typed

LEMMA LoadedEffect ==
  ASSUME AgentTypeOK, NEW p \in Tasks, EnsureLlm_done(p)
  PROVE  /\ At(p, "loaded") /\ Reports(p, "over", roomCfg, th[p].ok) /\ th'[p].tok = token
         /\ th'[p].alone = th[p].alone /\ Kept(p) /\ Typed
         /\ llmReady' = th[p].ok
         /\ lock'.llm = Nobody /\ lock'.gate = lock.gate /\ lock'.rejoin = lock.rejoin
         /\ UNCHANGED <<host, token, roomCfg, rt, doubtful>>
<1>1. Set(p, Reporting(p, "over", roomCfg, th[p].ok)) /\ th[p].ok \in BOOLEAN /\ roomCfg \in Configs
  BY TaskTyped DEF EnsureLlm_done, AgentTypeOK
<1>2. lock' \in LockRec /\ lock'.llm = Nobody /\ lock'.gate = lock.gate /\ lock'.rejoin = lock.rejoin
  BY DEF EnsureLlm_done, AgentTypeOK, LockRec
<1> QED BY <1>1, <1>2, ReportEffect DEF EnsureLlm_done, Typed

HostRec == [model : Models, gen : 0 .. MaxGen, live : TokensOrNone, issued : 1 .. MaxToken,
            ready : BOOLEAN, sel : {"none", "model", "gen"}]

(* p comes to l with c, t and s to remember; a task that starts anew, or   *)
(* goes back, counts as alone.                                             *)
Comes(p, l, b, c, t, s) ==
    /\ th'[p].at = l /\ th'[p].next = "idle" /\ th'[p].back = b /\ th'[p].cfg = c
    /\ th'[p].tok = t /\ th'[p].ok = FALSE /\ th'[p].slipped = s
Fresh(p, l, b, c, t) ==
    Comes(p, l, b, c, t, FALSE) /\ th'[p].alone = TRUE /\ Kept(p) /\ th' \in [Tasks -> TaskRec]

LEMMA ReportDone ==
  ASSUME AgentTypeOK, NEW p \in Tasks, nodes_ready(p)
  PROVE  /\ At(p, "report") /\ Typed /\ UNCHANGED <<token, roomCfg, llmReady, rt>>
         /\ \/ th[p].next = "over" /\ Ended(p)
            \/ /\ th[p].next = "match" /\ Comes(p, "match", th[p].back, th[p].cfg, NoToken, FALSE)
               /\ th'[p].alone = th[p].alone /\ Kept(p) /\ UNCHANGED lock
            \/ th[p].next \notin {"over", "match"} /\ Goes(p, th[p].next) /\ UNCHANGED lock
<1>1. At(p, "report") /\ UNCHANGED <<token, roomCfg, llmReady, rt>>
  BY DEF nodes_ready
<1>2. CASE th[p].next = "over"
  <2>1. End(p)
    BY <1>2 DEF nodes_ready
  <2> QED BY <1>1, <1>2, <2>1, EndEffect DEF Ended, Typed
<1>3. CASE th[p].next = "match"
  <2> DEFINE s == Step(p, "match")
             c == th[p].cfg
             n == [s EXCEPT !.cfg = c]
  <2>1. Set(p, n) /\ UNCHANGED lock
    BY <1>3 DEF nodes_ready
  <2>2. s \in TaskRec /\ Plain(s, "match", th[p].back) /\ s.alone = th[p].alone /\ c \in Configs
    BY StepFields, TaskTyped DEF Places
  <2> HIDE DEF s, c
  <2>3. /\ n \in TaskRec /\ n.at = "match" /\ n.next = "idle" /\ n.back = th[p].back
        /\ n.cfg = c /\ n.tok = NoToken /\ n.ok = FALSE /\ n.slipped = FALSE /\ n.alone = th[p].alone
    BY <2>2 DEF TaskRec, Plain
  <2> HIDE DEF n
  <2>4. th'[p] = n /\ Kept(p) /\ th' \in [Tasks -> TaskRec]
    BY <2>1, <2>3, SetEffect
  <2> QED BY <1>1, <1>3, <2>1, <2>3, <2>4, LockKept DEF Typed, Comes, c
<1>4. CASE th[p].next \notin {"over", "match"}
  <2>1. Go(p, th[p].next) /\ UNCHANGED lock
    BY <1>4 DEF nodes_ready
  <2>2. th[p].next \in Places
    BY <1>4, TaskTyped DEF Places, JobPlaces
  <2> QED BY <1>1, <1>4, <2>1, <2>2, GoEffect, LockKept DEF Typed
<1> QED BY <1>2, <1>3, <1>4

(* The host's part of it. *)
LEMMA HostHears ==
  ASSUME AgentTypeOK, NEW p \in Tasks, nodes_ready(p)
  PROVE  /\ host' \in HostRec /\ doubtful' \in BOOLEAN
         /\ host'.model = host.model /\ host'.gen = host.gen /\ host'.live = host.live
         /\ host'.issued = host.issued /\ host'.sel = host.sel
         /\ \/ /\ host'.ready = (th[p].ok /\ th[p].cfg = Config)
               /\ doubtful' = (th[p].ok /\ th[p].cfg = Config /\ ~th[p].alone)
            \/ host' = host /\ doubtful' = (doubtful \/ (host.ready /\ ~th[p].ok))
<1> DEFINE exact == th[p].ok /\ th[p].cfg = Config
<1>0. exact \in BOOLEAN /\ host \in HostRec /\ doubtful \in BOOLEAN
  BY TaskTyped DEF AgentTypeOK, HostRec
<1>1. \/ host' = [host EXCEPT !.ready = exact] /\ doubtful' = (exact /\ ~th[p].alone)
      \/ host' = host /\ doubtful' = (doubtful \/ (host.ready /\ ~th[p].ok))
  BY DEF nodes_ready
<1>2. CASE host' = [host EXCEPT !.ready = exact] /\ doubtful' = (exact /\ ~th[p].alone)
  <2>1. doubtful' \in BOOLEAN
    BY <1>2
  <2>2. /\ host' \in HostRec /\ host'.model = host.model /\ host'.gen = host.gen
        /\ host'.live = host.live /\ host'.issued = host.issued /\ host'.sel = host.sel
        /\ host'.ready = exact
    <3> HIDE DEF exact
    <3> QED BY <1>0, <1>2 DEF HostRec
  <2> QED BY <1>2, <2>1, <2>2
<1>3. CASE host' = host /\ doubtful' = (doubtful \/ (host.ready /\ ~th[p].ok))
  BY <1>0, <1>3
<1> QED BY <1>1, <1>2, <1>3

LEMMA RefusedEffect ==
  ASSUME AgentTypeOK, NEW p \in Tasks, NEW l \in {"loop", "answer", "generating"}, Refused(p, l)
  PROVE  Fresh(p, "refused", l, FirstCfg, token) /\ Dead(token)
<1> DEFINE s == Task("refused")
           n == [s EXCEPT !.back = l, !.tok = token]
<1>1. Set(p, n) /\ Dead(token) /\ token \in TokensOrNone
  BY DEF Refused, Alive, Dead, AgentTypeOK
<1>2. s \in TaskRec /\ Plain(s, "refused", "idle") /\ s.alone = TRUE
  BY TaskFields DEF Places
<1> HIDE DEF s
<1>3. /\ n \in TaskRec /\ n.at = "refused" /\ n.next = "idle" /\ n.back = l /\ n.cfg = FirstCfg
      /\ n.tok = token /\ n.ok = FALSE /\ n.slipped = FALSE /\ n.alone = TRUE
  BY <1>1, <1>2 DEF TaskRec, Plain
<1> HIDE DEF n
<1>4. th'[p] = n /\ Kept(p) /\ th' \in [Tasks -> TaskRec]
  BY <1>1, <1>3, SetEffect
<1> QED BY <1>1, <1>3, <1>4 DEF Fresh, Comes

LEMMA HandleEffect ==
  ASSUME AgentTypeOK, NEW p \in Tasks, handle_refusal(p)
  PROVE  /\ At(p, "refused") /\ Typed
         /\ Comes(p, "rejoin", th[p].back, FirstCfg, token, token # th[p].tok)
         /\ th'[p].alone = th[p].alone /\ Kept(p)
         /\ UNCHANGED <<host, token, roomCfg, llmReady, rt, lock, doubtful>>
<1> DEFINE s == Step(p, "rejoin")
           a == token # th[p].tok
           n == [s EXCEPT !.tok = token, !.slipped = a]
<1>1. Set(p, n) /\ At(p, "refused")
      /\ UNCHANGED <<host, token, roomCfg, llmReady, rt, lock, doubtful>>
  BY DEF handle_refusal
<1>2. s \in TaskRec /\ Plain(s, "rejoin", th[p].back) /\ s.alone = th[p].alone
      /\ token \in TokensOrNone /\ a \in BOOLEAN
  BY StepFields DEF Places, AgentTypeOK
<1> HIDE DEF s, a
<1>3. /\ n \in TaskRec /\ n.at = "rejoin" /\ n.next = "idle" /\ n.back = th[p].back
      /\ n.cfg = FirstCfg /\ n.tok = token /\ n.ok = FALSE /\ n.slipped = a /\ n.alone = th[p].alone
  BY <1>2 DEF TaskRec, Plain
<1> HIDE DEF n
<1>4. th'[p] = n /\ Kept(p) /\ th' \in [Tasks -> TaskRec]
  BY <1>1, <1>3, SetEffect
<1> QED BY <1>1, <1>3, <1>4, LockKept DEF Typed, Comes, a

LEMMA LockSet ==
  ASSUME AgentTypeOK, NEW x \in Tasks \cup {Nobody}, lock' = [lock EXCEPT !.rejoin = x]
  PROVE  lock' \in LockRec /\ lock'.rejoin = x /\ lock'.llm = lock.llm /\ lock'.gate = lock.gate
  BY DEF AgentTypeOK, LockRec

(* It goes back, or it has the gate and a token that has not changed. *)
LEMMA RejoinEffect ==
  ASSUME AgentTypeOK, NEW p \in Tasks, RejoinAsync(p)
  PROVE  /\ At(p, "rejoin") /\ lock.rejoin = Nobody /\ Typed
         /\ UNCHANGED <<host, token, roomCfg, llmReady, rt, doubtful>>
         /\ \/ /\ token \in {NoToken, th[p].tok}
               /\ th'[p].at = "clear" /\ th'[p].next = th[p].next /\ th'[p].back = th[p].back
               /\ th'[p].cfg = th[p].cfg /\ th'[p].tok = token /\ th'[p].ok = th[p].ok
               /\ th'[p].slipped = th[p].slipped /\ th'[p].alone = th[p].alone /\ Kept(p)
               /\ lock'.rejoin = p /\ lock'.llm = lock.llm /\ lock'.gate = lock.gate
            \/ Fresh(p, th[p].back, "idle", FirstCfg, NoToken) /\ UNCHANGED lock
<1>0. /\ At(p, "rejoin") /\ lock.rejoin = Nobody
      /\ UNCHANGED <<host, token, roomCfg, llmReady, rt, doubtful>>
  BY DEF RejoinAsync
<1>1. CASE /\ token \in {NoToken, th[p].tok}
           /\ Set(p, [th[p] EXCEPT !.at = "clear", !.tok = token])
           /\ lock' = [lock EXCEPT !.rejoin = p]
  <2> DEFINE s == th[p]
             n == [s EXCEPT !.at = "clear", !.tok = token]
  <2>1. s \in TaskRec /\ token \in TokensOrNone
    BY TaskTyped DEF AgentTypeOK
  <2>2. Set(p, n)
    BY <1>1
  <2> HIDE DEF s
  <2>3. /\ n \in TaskRec /\ n.at = "clear" /\ n.next = s.next /\ n.back = s.back /\ n.cfg = s.cfg
        /\ n.tok = token /\ n.ok = s.ok /\ n.slipped = s.slipped /\ n.alone = s.alone
    BY <2>1 DEF TaskRec, Places
  <2> HIDE DEF n
  <2>4. th'[p] = n /\ Kept(p) /\ th' \in [Tasks -> TaskRec]
    BY <2>2, <2>3, SetEffect
  <2> QED BY <1>0, <1>1, <2>3, <2>4, LockSet DEF Typed, s
<1>2. CASE Set(p, Back(p)) /\ UNCHANGED lock
  <2>1. Set(p, Task(th[p].back)) /\ th[p].back \in Places
    BY <1>2, TaskTyped DEF Back, Places, JobPlaces
  <2>2. th'[p] = Task(th[p].back) /\ Kept(p) /\ th' \in [Tasks -> TaskRec]
    BY <2>1, SetEffect, TaskFields
  <2>3. Plain(Task(th[p].back), th[p].back, "idle") /\ Task(th[p].back).alone = TRUE
    BY TaskFields
  <2> QED BY <1>0, <1>2, <2>2, <2>3, LockKept DEF Typed, Fresh, Comes, Plain
<1> QED BY <1>1, <1>2 DEF RejoinAsync

LEMMA JoinEffect ==
  ASSUME AgentTypeOK, NEW p \in Tasks, JoinAsync(p)
  PROVE  /\ At(p, "join") /\ Typed /\ UNCHANGED <<token, roomCfg, llmReady, rt>>
         /\ \/ /\ host' \in HostRec /\ host'.model = host.model /\ ~host'.ready
               /\ host'.issued = host.issued + 1 /\ host'.live = host.issued + 1
               /\ ~Alive(token) /\ doubtful' = FALSE
               /\ \/ /\ Comes(p, "joined", th[p].back, Config, host.issued + 1, FALSE)
                     /\ th'[p].alone = th[p].alone /\ Kept(p) /\ UNCHANGED lock
                  \/ Ended(p)
            \/ Ended(p) /\ UNCHANGED <<host, doubtful>>
<1>0. At(p, "join") /\ UNCHANGED <<token, roomCfg, llmReady, rt>>
  BY DEF JoinAsync
<1>1. CASE End(p) /\ UNCHANGED <<host, doubtful>>
  BY <1>0, <1>1, EndEffect DEF Ended, Typed
<1>2. CASE /\ ~Alive(token)
           /\ host.issued < MaxToken
           /\ host' = [host EXCEPT !.issued = @ + 1, !.live = host.issued + 1, !.ready = FALSE]
           /\ doubtful' = FALSE
           /\ \/ /\ Set(p, [Step(p, "joined") EXCEPT !.tok = host.issued + 1, !.cfg = Config])
                 /\ UNCHANGED lock
              \/ End(p)
  <2>1. host \in HostRec /\ host.issued \in 1 .. MaxToken /\ MaxToken \in Nat
    BY Names DEF AgentTypeOK, HostRec
  <2>2. host.issued + 1 \in 1 .. MaxToken /\ host.issued + 1 \in TokensOrNone
    BY <1>2, <2>1 DEF TokensOrNone
  <2>3. /\ host' \in HostRec /\ host'.model = host.model /\ ~host'.ready
        /\ host'.issued = host.issued + 1 /\ host'.live = host.issued + 1
    BY <1>2, <2>1, <2>2 DEF HostRec
  <2>4. CASE End(p)
    BY <1>0, <1>2, <2>3, <2>4, EndEffect DEF Ended, Typed
  <2>5. CASE /\ Set(p, [Step(p, "joined") EXCEPT !.tok = host.issued + 1, !.cfg = Config])
             /\ UNCHANGED lock
    <3> DEFINE s == Step(p, "joined")
               c == Config
               t == host.issued + 1
               n == [s EXCEPT !.tok = t, !.cfg = c]
    <3>1. s \in TaskRec /\ Plain(s, "joined", th[p].back) /\ s.alone = th[p].alone
          /\ c \in Configs /\ t \in TokensOrNone
      BY <2>2, StepFields, HostTyped DEF Places
    <3>2. Set(p, n) /\ UNCHANGED lock
      BY <2>5
    <3> HIDE DEF s, c, t
    <3>3. /\ n \in TaskRec /\ n.at = "joined" /\ n.next = "idle" /\ n.back = th[p].back
          /\ n.cfg = c /\ n.tok = t /\ n.ok = FALSE /\ n.slipped = FALSE /\ n.alone = th[p].alone
      BY <3>1 DEF TaskRec, Plain
    <3> HIDE DEF n
    <3>4. th'[p] = n /\ Kept(p) /\ th' \in [Tasks -> TaskRec]
      BY <3>2, <3>3, SetEffect
    <3>5. Comes(p, "joined", th[p].back, Config, host.issued + 1, FALSE)
          /\ th'[p].alone = th[p].alone
      BY <3>3, <3>4 DEF Comes, c, t
    <3> QED BY <1>0, <1>2, <2>3, <3>2, <3>4, <3>5, LockKept DEF Typed
  <2> QED BY <1>2, <2>4, <2>5
<1> QED BY <1>1, <1>2 DEF JoinAsync

(* The configuration it was given is the room's now; if it is new, the     *)
(* host is told first that the runtime is not ready.                       *)
LEMMA ApplyEffect ==
  ASSUME AgentTypeOK, NEW p \in Tasks, ApplyRoomConfigAsync(p)
  PROVE  /\ At(p, "joined") /\ Typed /\ token' = th[p].tok /\ roomCfg' = th[p].cfg
         /\ UNCHANGED <<host, rt, lock, doubtful>>
         /\ \/ /\ llmReady' = FALSE /\ Reports(p, "match", th[p].cfg, FALSE)
               /\ th'[p].tok = th[p].tok /\ th'[p].alone = th[p].alone /\ Shaken(p)
            \/ /\ roomCfg = th[p].cfg /\ llmReady' = llmReady
               /\ Comes(p, "match", th[p].back, th[p].cfg, NoToken, FALSE)
               /\ th'[p].alone = th[p].alone /\ Kept(p)
<1> DEFINE c == th[p].cfg
           t == th[p].tok
<1>0. /\ At(p, "joined") /\ token' = t /\ roomCfg' = c /\ lock' \in LockRec
      /\ UNCHANGED <<host, rt, lock, doubtful>>
  BY LockKept DEF ApplyRoomConfigAsync
<1>1. c \in Configs /\ t \in TokensOrNone
  BY TaskTyped
<1>2. CASE roomCfg # c
  <2> DEFINE s == Step(p, "report")
             r == [s EXCEPT !.next = "match", !.cfg = c, !.ok = FALSE, !.tok = token]
             n == [r EXCEPT !.tok = t]
  <2>1. th' = Disturb(p, n) /\ llmReady' = FALSE
    BY <1>2 DEF ApplyRoomConfigAsync, Reporting
  <2>2. s \in TaskRec /\ Plain(s, "report", th[p].back) /\ token \in TokensOrNone
        /\ s.alone = th[p].alone
    BY StepFields DEF Places, AgentTypeOK
  <2> HIDE DEF s, c, t
  <2>3. r \in TaskRec /\ r.at = "report" /\ r.next = "match" /\ r.back = th[p].back
        /\ r.cfg = c /\ r.ok = FALSE /\ r.slipped = FALSE /\ r.alone = th[p].alone
    BY <1>1, <2>2 DEF TaskRec, Plain
  <2> HIDE DEF r
  <2>4. n \in TaskRec /\ n.at = "report" /\ n.next = "match" /\ n.back = th[p].back
        /\ n.cfg = c /\ n.tok = t /\ n.ok = FALSE /\ n.slipped = FALSE /\ n.alone = th[p].alone
    BY <1>1, <2>3 DEF TaskRec
  <2> HIDE DEF n
  <2>5. th'[p] = n /\ Shaken(p) /\ th' \in [Tasks -> TaskRec]
    BY <2>1, <2>4, DisturbEffect
  <2> QED BY <1>0, <2>1, <2>4, <2>5 DEF Typed, Reports, c, t
<1>3. CASE roomCfg = c
  <2> DEFINE s == Step(p, "match")
             n == [s EXCEPT !.cfg = c]
  <2>1. Set(p, n) /\ llmReady' = llmReady
    BY <1>3 DEF ApplyRoomConfigAsync
  <2>2. s \in TaskRec /\ Plain(s, "match", th[p].back) /\ s.alone = th[p].alone
    BY StepFields DEF Places
  <2> HIDE DEF s, c, t
  <2>3. /\ n \in TaskRec /\ n.at = "match" /\ n.next = "idle" /\ n.back = th[p].back
        /\ n.cfg = c /\ n.tok = NoToken /\ n.ok = FALSE /\ n.slipped = FALSE /\ n.alone = th[p].alone
    BY <1>1, <2>2 DEF TaskRec, Plain
  <2> HIDE DEF n
  <2>4. th'[p] = n /\ Kept(p) /\ th' \in [Tasks -> TaskRec]
    BY <2>1, <2>3, SetEffect
  <2> QED BY <1>0, <1>3, <2>1, <2>3, <2>4 DEF Typed, Comes, c, t
<1> QED BY <1>2, <1>3

LEMMA SessionEffect ==
  ASSUME AgentTypeOK, NEW p \in Tasks, session_loop(p)
  PROVE  /\ At(p, "loop") /\ UNCHANGED <<host, token, roomCfg, llmReady, rt, lock, doubtful>>
         /\ \/ Fresh(p, "rejoin", "loop", FirstCfg, NoToken)
            \/ Fresh(p, "refused", "loop", FirstCfg, token) /\ Dead(token)
<1>0. At(p, "loop") /\ UNCHANGED <<host, token, roomCfg, llmReady, rt, lock, doubtful>>
  BY DEF session_loop
<1>1. CASE token # NoToken
  BY <1>0, <1>1, RefusedEffect DEF session_loop
<1>2. CASE token = NoToken
  <2> DEFINE s == Task("rejoin")
             n == [s EXCEPT !.back = "loop"]
  <2>1. Set(p, n)
    BY <1>2 DEF session_loop
  <2>2. s \in TaskRec /\ Plain(s, "rejoin", "idle") /\ s.alone = TRUE
    BY TaskFields DEF Places
  <2> HIDE DEF s
  <2>3. /\ n \in TaskRec /\ n.at = "rejoin" /\ n.next = "idle" /\ n.back = "loop" /\ n.cfg = FirstCfg
        /\ n.tok = NoToken /\ n.ok = FALSE /\ n.slipped = FALSE /\ n.alone = TRUE
    BY <2>2 DEF TaskRec, Plain
  <2> HIDE DEF n
  <2>4. th'[p] = n /\ Kept(p) /\ th' \in [Tasks -> TaskRec]
    BY <2>1, <2>3, SetEffect
  <2> QED BY <1>0, <2>3, <2>4 DEF Fresh, Comes
<1> QED BY <1>1, <1>2

LEMMA SwitchEffect ==
  ASSUME AgentTypeOK, SwitchModelIfNeededAsync
  PROVE  /\ At("switch", "idle") /\ UNCHANGED <<host, token, roomCfg, llmReady, rt, lock, doubtful>>
         /\ Fresh("switch", "switch", "idle", Config, NoToken)
<1> DEFINE s == Task("switch")
           c == Config
           n == [s EXCEPT !.cfg = c]
<1>1. Set("switch", n) /\ At("switch", "idle")
      /\ UNCHANGED <<host, token, roomCfg, llmReady, rt, lock, doubtful>>
  BY DEF SwitchModelIfNeededAsync
<1>2. s \in TaskRec /\ Plain(s, "switch", "idle") /\ s.alone = TRUE /\ c \in Configs
  BY TaskFields, HostTyped DEF Places
<1> HIDE DEF s, c
<1>3. /\ n \in TaskRec /\ n.at = "switch" /\ n.next = "idle" /\ n.back = "idle" /\ n.cfg = c
      /\ n.tok = NoToken /\ n.ok = FALSE /\ n.slipped = FALSE /\ n.alone = TRUE
  BY <1>2 DEF TaskRec, Plain
<1> HIDE DEF n
<1>4. th'["switch"] = n /\ Kept("switch") /\ th' \in [Tasks -> TaskRec]
  BY <1>1, <1>3, SetEffect, Names
<1> QED BY <1>1, <1>3, <1>4 DEF Fresh, Comes, c

(* The runtime is stopped; whoever counted on it is no longer alone.       *)
LEMMA RestartEffect ==
  ASSUME AgentTypeOK, RestartAsync
  PROVE  /\ At("job", "restart") /\ lock.gate = Nobody /\ Typed
         /\ Comes("job", "restarting", th["job"].back, roomCfg, NoToken, FALSE)
         /\ th'["job"].alone = th["job"].alone /\ Shaken("job")
         /\ lock'.gate = "job" /\ lock'.llm = lock.llm /\ lock'.rejoin = lock.rejoin
         /\ rt' = Stopped("down") /\ doubtful' = host.ready
         /\ UNCHANGED <<host, token, roomCfg, llmReady>>
<1> DEFINE s == Step("job", "restarting")
           n == [s EXCEPT !.cfg = roomCfg]
<1>1. th' = Disturb("job", n) /\ At("job", "restart") /\ lock.gate = Nobody
      /\ lock' = [lock EXCEPT !.gate = "job"] /\ rt' = Stopped("down") /\ doubtful' = host.ready
      /\ UNCHANGED <<host, token, roomCfg, llmReady>>
  BY DEF RestartAsync, Job
<1>2. s \in TaskRec /\ Plain(s, "restarting", th["job"].back) /\ s.alone = th["job"].alone
      /\ roomCfg \in Configs /\ "job" \in Tasks
  BY StepFields, Names DEF Places, JobPlaces, AgentTypeOK
<1> HIDE DEF s
<1>3. /\ n \in TaskRec /\ n.at = "restarting" /\ n.next = "idle" /\ n.back = th["job"].back
      /\ n.cfg = roomCfg /\ n.tok = NoToken /\ n.ok = FALSE /\ n.slipped = FALSE
      /\ n.alone = th["job"].alone
  BY <1>2 DEF TaskRec, Plain
<1> HIDE DEF n
<1>4. th'["job"] = n /\ Shaken("job") /\ th' \in [Tasks -> TaskRec]
  BY <1>1, <1>2, <1>3, DisturbEffect
<1> QED BY <1>1, <1>2, <1>3, <1>4, GateSet DEF Typed, Comes

(* A task reports that the runtime does not serve.                         *)
LEMMA FailEffect ==
  ASSUME AgentTypeOK, NEW p \in Tasks, NEW l \in {"loop", "answer"},
         Set(p, Reporting(p, l, roomCfg, FALSE))
  PROVE  /\ Reports(p, l, roomCfg, FALSE) /\ th'[p].tok = token /\ th'[p].alone = th[p].alone
         /\ Kept(p) /\ th' \in [Tasks -> TaskRec]
<1> DEFINE no == FALSE
<1>1. no \in BOOLEAN /\ roomCfg \in Configs /\ Set(p, Reporting(p, l, roomCfg, no))
      /\ l \in {"loop", "answer", "match", "llm", "over"}
  BY DEF AgentTypeOK
<1> HIDE DEF no
<1>2. /\ Reports(p, l, roomCfg, no) /\ th'[p].tok = token /\ th'[p].alone = th[p].alone
      /\ Kept(p) /\ th' \in [Tasks -> TaskRec]
  BY <1>1, ReportEffect
<1> QED BY <1>2 DEF no

-----------------------------------------------------------------------------
(* Types, semaphores and places.                                           *)

Bare ==
    /\ host \in HostRec /\ token \in TokensOrNone /\ roomCfg \in Configs /\ llmReady \in BOOLEAN
    /\ rt \in [st : {"down", "up", "dead"}, model : Models, gen : 0 .. MaxGen]
    /\ doubtful \in BOOLEAN

LockPart(p) ==
    /\ (lock.gate = p) <=> InGate(p)
    /\ (lock.llm = p) <=> InLlmLock(p)
    /\ lock.rejoin = p => th[p].back # "idle"

PlacePart(p) ==
    /\ th[p].back # "idle" => Outside(p) \/ (Joining(p) /\ lock.rejoin = p)
    /\ Outside(p) \/ At(p, "clear") => th[p].back # "idle"
    /\ lock.rejoin = p => Joining(p)
    /\ At(p, "loading") => th[p].back # "generating"
    /\ th[p].at \in JobPlaces \/ th[p].next = "answer" \/ th[p].back \in {"generating", "answer"}
         => p = "job"

Sound == AgentTypeOK /\ PlacesInv

LEMMA SoundParts ==
  Sound <=> /\ Bare /\ lock \in LockRec /\ th \in [Tasks -> TaskRec]
            /\ \A p \in Tasks : LockPart(p) /\ PlacePart(p)
  BY DEF Sound, AgentTypeOK, PlacesInv, Bare, HostRec, LockPart, PlacePart

(* The other tasks are where they were. *)
Others(p) ==
    \A q \in Tasks \ {p} :
        /\ th'[q].at = th[q].at /\ th'[q].next = th[q].next /\ th'[q].back = th[q].back
        /\ th'[q].cfg = th[q].cfg /\ th'[q].tok = th[q].tok /\ th'[q].ok = th[q].ok
        /\ th'[q].slipped = th[q].slipped /\ (th'[q].alone => th[q].alone)

LEMMA OthersStay ==
  ASSUME NEW p \in Tasks, Kept(p) \/ Shaken(p)
  PROVE  Others(p)
<1> HIDE DEF Ensuring
<1> QED BY DEF Kept, Shaken, Others

(* A step of p that takes and leaves semaphores for itself only.           *)
LEMMA OneTask ==
  ASSUME Sound, NEW p \in Tasks, Kept(p) \/ Shaken(p), Typed, Bare',
         \A q \in Tasks \ {p} : /\ (lock'.gate = q) <=> (lock.gate = q)
                                /\ (lock'.llm = q) <=> (lock.llm = q)
                                /\ (lock'.rejoin = q) <=> (lock.rejoin = q),
         LockPart(p)', PlacePart(p)'
  PROVE  Sound'
<1>1. Others(p)
  BY OthersStay
<1>2. \A q \in Tasks \ {p} : LockPart(q)'
  BY <1>1, SoundParts DEF LockPart, Others, InGate, InLlmLock
<1>3. \A q \in Tasks \ {p} : PlacePart(q)'
  BY <1>1, SoundParts DEF PlacePart, Others, Outside, Joining, At
<1>4. \A q \in Tasks : LockPart(q)' /\ PlacePart(q)'
  BY <1>2, <1>3
<1>5. lock' \in LockRec /\ th' \in [Tasks -> TaskRec]
  BY DEF Typed
<1> QED BY <1>4, <1>5 DEF Sound, AgentTypeOK, PlacesInv, Bare, HostRec, LockPart, PlacePart

LEMMA SoundHere ==
  ASSUME Sound, NEW p \in Tasks
  PROVE  AgentTypeOK /\ Bare /\ LockPart(p) /\ PlacePart(p) /\ p # Nobody
  BY SoundParts, Names DEF Sound

LEMMA SoundLoad ==
  ASSUME Sound, NEW p \in Tasks,
         EnsureLlmAsync(p) \/ llmLock(p) \/ EnsureReadyAsync(p) \/ StartServerAsync(p)
           \/ EnsureLlm_done(p)
  PROVE  Sound'
<1>0. AgentTypeOK /\ Bare /\ LockPart(p) /\ PlacePart(p) /\ p # Nobody
  BY SoundHere
<1> USE DEF At
<1>1. CASE EnsureLlmAsync(p)
  <2>1. Bare'
    BY <1>0, <1>1, EnsureEffect DEF Bare
  <2>2. LockPart(p)' /\ PlacePart(p)'
    BY <1>0, <1>1, EnsureEffect DEF LockPart, PlacePart, InGate, InLlmLock, Outside, Joining, Reports,
       JobPlaces
  <2> QED BY <1>0, <1>1, <2>1, <2>2, EnsureEffect, OneTask
<1>2. CASE llmLock(p)
  <2>1. Bare'
    BY <1>0, <1>2, LlmLockEffect DEF Bare
  <2>2. LockPart(p)' /\ PlacePart(p)'
    BY <1>0, <1>2, LlmLockEffect DEF LockPart, PlacePart, InGate, InLlmLock, Outside, Joining, JobPlaces
  <2> QED BY <1>0, <1>2, <2>1, <2>2, LlmLockEffect, OneTask, Names
<1>3. CASE EnsureReadyAsync(p)
  <2>1. CASE rt.st = "up" /\ rt.model = th[p].cfg.model
    <3>1. Bare'
      BY <1>0, <1>3, <2>1, KeepEffect DEF Bare
    <3>2. LockPart(p)' /\ PlacePart(p)'
      BY <1>0, <1>3, <2>1, KeepEffect
      DEF LockPart, PlacePart, InGate, InLlmLock, Outside, Joining, JobPlaces
    <3> QED BY <1>0, <1>3, <2>1, <3>1, <3>2, KeepEffect, OneTask
  <2>2. CASE ~(rt.st = "up" /\ rt.model = th[p].cfg.model)
    <3>1. Bare'
      BY <1>0, <1>3, <2>2, StopEffect, Names DEF Bare, Stopped
    <3>2. LockPart(p)' /\ PlacePart(p)'
      BY <1>0, <1>3, <2>2, StopEffect
      DEF LockPart, PlacePart, InGate, InLlmLock, Outside, Joining, JobPlaces
    <3> QED BY <1>0, <1>3, <2>2, <3>1, <3>2, StopEffect, OneTask, Names
  <2> QED BY <2>1, <2>2
<1>4. CASE StartServerAsync(p)
  <2>1. Bare'
    <3>1. th[p].cfg.model \in Models /\ th[p].cfg.gen \in 0 .. MaxGen
      BY <1>0, TaskTyped DEF Configs
    <3> QED BY <1>0, <1>4, <3>1, StartEffect DEF Bare
  <2>2. LockPart(p)' /\ PlacePart(p)'
    BY <1>0, <1>4, StartEffect DEF LockPart, PlacePart, InGate, InLlmLock, Outside, Joining, JobPlaces
  <2>3. lock.gate = p
    BY <1>0, <1>4, StartEffect DEF LockPart, InGate
  <2> QED BY <1>0, <1>4, <2>1, <2>2, <2>3, StartEffect, OneTask, Names
<1>5. CASE EnsureLlm_done(p)
  <2>1. Bare'
    <3>1. th[p].ok \in BOOLEAN
      BY <1>0, TaskTyped
    <3> QED BY <1>0, <1>5, <3>1, LoadedEffect DEF Bare
  <2>2. LockPart(p)' /\ PlacePart(p)'
    BY <1>0, <1>5, LoadedEffect
    DEF LockPart, PlacePart, InGate, InLlmLock, Outside, Joining, Reports, JobPlaces
  <2>3. lock.llm = p
    BY <1>0, <1>5, LoadedEffect DEF LockPart, InLlmLock
  <2> QED BY <1>0, <1>5, <2>1, <2>2, <2>3, LoadedEffect, OneTask, Names
<1> QED BY <1>1, <1>2, <1>3, <1>4, <1>5

(* A task that is done with its rejoin, or its loading. *)
LEMMA EndSound ==
  ASSUME Sound, NEW p \in Tasks, Ended(p), Joining(p), ~InLlmLock(p), ~At(p, "loading")
  PROVE  /\ LockPart(p)' /\ PlacePart(p)'
         /\ \A q \in Tasks \ {p} : /\ (lock'.gate = q) <=> (lock.gate = q)
                                   /\ (lock'.llm = q) <=> (lock.llm = q)
                                   /\ (lock'.rejoin = q) <=> (lock.rejoin = q)
<1>0. AgentTypeOK /\ Bare /\ LockPart(p) /\ PlacePart(p) /\ p # Nobody
  BY SoundHere
<1>1. th[p].back \in {"idle", "loop", "answer", "generating"}
  BY <1>0, TaskTyped
<1>2. LockPart(p)' /\ PlacePart(p)'
  BY <1>0, <1>1
  DEF Ended, Plain, LockPart, PlacePart, InGate, InLlmLock, Outside, Joining, JobPlaces, At
<1>3. Nobody \notin Tasks
  BY Names
<1> QED BY <1>2, <1>3 DEF Ended

LEMMA SoundReport ==
  ASSUME Sound, NEW p \in Tasks, nodes_ready(p)
  PROVE  Sound'
<1>0. AgentTypeOK /\ Bare /\ LockPart(p) /\ PlacePart(p) /\ p # Nobody
  BY SoundHere
<1>1. At(p, "report") /\ Typed /\ UNCHANGED <<token, roomCfg, llmReady, rt>>
  BY <1>0, ReportDone
<1>2. Bare'
  BY <1>0, <1>1, HostHears DEF Bare
<1>3. CASE th[p].next = "over" /\ Ended(p)
  <2>1. Joining(p) /\ ~InLlmLock(p) /\ ~At(p, "loading") /\ Kept(p)
    BY <1>1, <1>3 DEF Joining, InLlmLock, At, Ended
  <2> QED BY <1>1, <1>2, <1>3, <2>1, EndSound, OneTask
<1>4. CASE /\ th[p].next = "match" /\ Comes(p, "match", th[p].back, th[p].cfg, NoToken, FALSE)
           /\ th'[p].alone = th[p].alone /\ Kept(p) /\ UNCHANGED lock
  <2>1. LockPart(p)' /\ PlacePart(p)'
    BY <1>0, <1>1, <1>4
    DEF Comes, LockPart, PlacePart, InGate, InLlmLock, Outside, Joining, JobPlaces, At
  <2> QED BY <1>1, <1>2, <1>4, <2>1, OneTask
<1>5. CASE th[p].next \notin {"over", "match"} /\ Goes(p, th[p].next) /\ UNCHANGED lock
  <2>1. th[p].next \in {"idle", "loop", "answer", "llm"}
    BY <1>0, <1>5, TaskTyped
  <2>2. LockPart(p)' /\ PlacePart(p)'
    BY <1>0, <1>1, <1>5, <2>1
    DEF Goes, Plain, LockPart, PlacePart, InGate, InLlmLock, Outside, Joining, JobPlaces, At
  <2> QED BY <1>1, <1>2, <1>5, <2>2, OneTask DEF Goes
<1> QED BY <1>0, <1>3, <1>4, <1>5, ReportDone

LEMMA SoundRejoin ==
  ASSUME Sound, NEW p \in Tasks,
         handle_refusal(p) \/ RejoinAsync(p) \/ RejoinAsync_clear(p) \/ JoinAsync(p)
  PROVE  Sound'
<1>0. AgentTypeOK /\ Bare /\ LockPart(p) /\ PlacePart(p) /\ p # Nobody
  BY SoundHere
<1>1. CASE handle_refusal(p)
  <2>1. Bare'
    BY <1>0, <1>1, HandleEffect DEF Bare
  <2>2. LockPart(p)' /\ PlacePart(p)'
    BY <1>0, <1>1, HandleEffect
    DEF Comes, LockPart, PlacePart, InGate, InLlmLock, Outside, Joining, JobPlaces, At
  <2> QED BY <1>0, <1>1, <2>1, <2>2, HandleEffect, OneTask
<1>2. CASE RejoinAsync(p)
  <2>0. /\ At(p, "rejoin") /\ lock.rejoin = Nobody /\ Typed
        /\ UNCHANGED <<host, token, roomCfg, llmReady, rt, doubtful>>
    BY <1>0, <1>2, RejoinEffect
  <2>1. Bare'
    BY <1>0, <2>0 DEF Bare
  <2>2. CASE /\ th'[p].at = "clear" /\ th'[p].next = th[p].next /\ th'[p].back = th[p].back
             /\ Kept(p) /\ lock'.rejoin = p /\ lock'.llm = lock.llm /\ lock'.gate = lock.gate
    <3>1. LockPart(p)' /\ PlacePart(p)'
      BY <1>0, <2>0, <2>2 DEF LockPart, PlacePart, InGate, InLlmLock, Outside, Joining, JobPlaces, At
    <3> QED BY <2>0, <2>1, <2>2, <3>1, OneTask, Names
  <2>3. CASE Fresh(p, th[p].back, "idle", FirstCfg, NoToken) /\ UNCHANGED lock
    <3>1. th[p].back \in {"loop", "answer", "generating"}
      BY <1>0, <2>0, TaskTyped DEF PlacePart, Outside, At
    <3>2. LockPart(p)' /\ PlacePart(p)'
      BY <1>0, <2>0, <2>3, <3>1
      DEF Fresh, Comes, LockPart, PlacePart, InGate, InLlmLock, Outside, Joining, JobPlaces, At
    <3> QED BY <2>0, <2>1, <2>3, <3>2, OneTask DEF Fresh
  <2> QED BY <1>0, <1>2, <2>2, <2>3, RejoinEffect
<1>3. CASE RejoinAsync_clear(p)
  <2>1. At(p, "clear") /\ token' = NoToken /\ Goes(p, "join") /\ th' \in [Tasks -> TaskRec]
        /\ UNCHANGED <<host, roomCfg, llmReady, rt, lock, doubtful>>
    BY <1>0, <1>3, GoEffect DEF RejoinAsync_clear, Places
  <2>2. Bare' /\ Typed
    BY <1>0, <2>1, LockKept, Names DEF Bare, Typed
  <2>3. LockPart(p)' /\ PlacePart(p)'
    BY <1>0, <2>1
    DEF Goes, Plain, LockPart, PlacePart, InGate, InLlmLock, Outside, Joining, JobPlaces, At
  <2> QED BY <2>1, <2>2, <2>3, OneTask DEF Goes
<1>4. CASE JoinAsync(p)
  <2>0. At(p, "join") /\ Typed /\ UNCHANGED <<token, roomCfg, llmReady, rt>>
    BY <1>0, <1>4, JoinEffect
  <2>1. host' \in HostRec /\ doubtful' \in BOOLEAN
    BY <1>0, <1>4, JoinEffect DEF Bare
  <2>2. Bare'
    BY <1>0, <2>0, <2>1 DEF Bare
  <2>3. CASE Ended(p)
    <3>1. Joining(p) /\ ~InLlmLock(p) /\ ~At(p, "loading") /\ Kept(p)
      BY <2>0, <2>3 DEF Joining, InLlmLock, At, Ended
    <3> QED BY <2>0, <2>2, <2>3, <3>1, EndSound, OneTask
  <2>4. CASE Comes(p, "joined", th[p].back, Config, host.issued + 1, FALSE) /\ Kept(p)
             /\ UNCHANGED lock
    <3>1. LockPart(p)' /\ PlacePart(p)'
      BY <1>0, <2>0, <2>4
      DEF Comes, LockPart, PlacePart, InGate, InLlmLock, Outside, Joining, JobPlaces, At
    <3> QED BY <2>0, <2>2, <2>4, <3>1, OneTask
  <2> QED BY <1>0, <1>4, <2>3, <2>4, JoinEffect
<1> QED BY <1>1, <1>2, <1>3, <1>4

LEMMA SoundApply ==
  ASSUME Sound, NEW p \in Tasks,
         ApplyRoomConfigAsync(p) \/ ApplyRoomConfigAsync_match(p) \/ session_loop(p)
  PROVE  Sound'
<1>0. AgentTypeOK /\ Bare /\ LockPart(p) /\ PlacePart(p) /\ p # Nobody
  BY SoundHere
<1>1. CASE ApplyRoomConfigAsync(p)
  <2>0. /\ At(p, "joined") /\ Typed /\ token' = th[p].tok /\ roomCfg' = th[p].cfg
        /\ UNCHANGED <<host, rt, lock, doubtful>> /\ llmReady' \in {FALSE, llmReady}
    BY <1>0, <1>1, ApplyEffect
  <2>1. Bare'
    BY <1>0, <2>0, TaskTyped DEF Bare
  <2>2. th'[p].at \in {"report", "match"} /\ (th'[p].at = "report" => th'[p].next = "match")
        /\ (th'[p].at = "match" => th'[p].next = "idle")
        /\ th'[p].back = th[p].back /\ (Kept(p) \/ Shaken(p))
    BY <1>0, <1>1, ApplyEffect DEF Reports, Comes
  <2>3. LockPart(p)' /\ PlacePart(p)'
    BY <1>0, <2>0, <2>2 DEF LockPart, PlacePart, InGate, InLlmLock, Outside, Joining, JobPlaces, At
  <2> QED BY <2>0, <2>1, <2>2, <2>3, OneTask
<1>2. CASE ApplyRoomConfigAsync_match(p)
  <2>0. At(p, "match") /\ UNCHANGED <<host, token, roomCfg, llmReady, rt, doubtful>>
    BY <1>2 DEF ApplyRoomConfigAsync_match
  <2>1. Bare'
    BY <1>0, <2>0 DEF Bare
  <2>2. CASE End(p)
    <3>1. Ended(p)
      BY <1>0, <2>2, EndEffect
    <3>2. Joining(p) /\ ~InLlmLock(p) /\ ~At(p, "loading") /\ Kept(p) /\ Typed
      BY <2>0, <3>1 DEF Joining, InLlmLock, At, Ended, Typed
    <3> QED BY <2>1, <3>1, <3>2, EndSound, OneTask
  <2>3. CASE Go(p, "ensure") /\ UNCHANGED lock
    <3>1. Goes(p, "ensure") /\ Typed
      BY <1>0, <2>3, GoEffect, LockKept DEF Places, Typed
    <3>2. LockPart(p)' /\ PlacePart(p)'
      BY <1>0, <2>0, <2>3, <3>1
      DEF Goes, Plain, LockPart, PlacePart, InGate, InLlmLock, Outside, Joining, JobPlaces, At
    <3> QED BY <2>1, <2>3, <3>1, <3>2, OneTask DEF Goes
  <2> QED BY <1>2, <2>2, <2>3 DEF ApplyRoomConfigAsync_match
<1>3. CASE session_loop(p)
  <2>0. At(p, "loop") /\ UNCHANGED <<host, token, roomCfg, llmReady, rt, lock, doubtful>>
    BY <1>0, <1>3, SessionEffect
  <2>1. /\ th'[p].at \in {"rejoin", "refused"} /\ th'[p].next = "idle" /\ th'[p].back = "loop"
        /\ Kept(p) /\ Typed
    BY <1>0, <1>3, SessionEffect, LockKept DEF Fresh, Comes, Typed
  <2>2. Bare'
    BY <1>0, <2>0 DEF Bare
  <2>3. LockPart(p)' /\ PlacePart(p)'
    BY <1>0, <2>0, <2>1 DEF LockPart, PlacePart, InGate, InLlmLock, Outside, Joining, JobPlaces, At
  <2> QED BY <2>0, <2>1, <2>2, <2>3, OneTask
<1> QED BY <1>1, <1>2, <1>3

(* The steps of the chat up to a restart, seen together: the job is in no  *)
(* part of a rejoin or of a loading, and it holds the runner's gate while  *)
(* it streams and while it joins again in the middle of that.              *)
ChatStep ==
    /\ th["job"].at \in {"loop", "check", "wait", "generating", "answer"}
    /\ th'["job"].at \in {"check", "wait", "answer", "generating", "restart", "loop", "report",
                          "refused"}
    /\ th'["job"].next = IF th'["job"].at = "report" THEN "answer" ELSE "idle"
    /\ th'["job"].back = IF th'["job"].at = "refused" THEN th["job"].at ELSE "idle"
    /\ th'["job"].at = "refused" => th["job"].at \in {"generating", "answer"} /\ Dead(token)
    /\ th'["job"].tok \in {token, NoToken} /\ (th'["job"].at = "refused" => th'["job"].tok = token)
    /\ th'["job"].ok = FALSE
    /\ Kept("job") /\ Typed /\ llmReady' \in BOOLEAN
    /\ lock'.llm = lock.llm /\ lock'.rejoin = lock.rejoin
    /\ \/ th'["job"].at = "generating" /\ lock.gate = Nobody /\ lock'.gate = "job"
       \/ th["job"].at = "generating" /\ th'["job"].at # "refused" /\ lock'.gate = Nobody
            /\ th'["job"].at # "generating"
       \/ /\ th["job"].at # "generating" \/ th'["job"].at = "refused"
          /\ th'["job"].at # "generating" /\ lock' = lock
    /\ UNCHANGED <<host, token, roomCfg, rt, doubtful>>

LEMMA JobGo ==
  ASSUME AgentTypeOK, NEW l \in Places, JobGoes(l), th["job"].back = "idle"
  PROVE  /\ th'["job"].at = l /\ th'["job"].next = "idle" /\ th'["job"].back = "idle"
         /\ th'["job"].tok = NoToken /\ th'["job"].ok = FALSE
         /\ Kept("job") /\ th' \in [Tasks -> TaskRec]
  BY GoEffect, Names DEF JobGoes, Goes, Plain

LEMMA JobFail ==
  ASSUME AgentTypeOK, Set("job", Reporting("job", "answer", roomCfg, FALSE)), th["job"].back = "idle"
  PROVE  /\ th'["job"].at = "report" /\ th'["job"].next = "answer" /\ th'["job"].back = "idle"
         /\ th'["job"].tok = token /\ th'["job"].ok = FALSE
         /\ Kept("job") /\ th' \in [Tasks -> TaskRec]
  BY FailEffect, Names DEF Reports

LEMMA ChatSteps ==
  ASSUME Sound,
         jobs_next \/ check_chat \/ GenerateAsync \/ generated \/ PostAgentPayloadAsync
           \/ PostResultAsync \/ job_timeout
  PROVE  ChatStep
<1>0. /\ AgentTypeOK /\ Bare /\ LockPart("job") /\ PlacePart("job") /\ "job" \in Tasks
      /\ {"check", "wait", "answer", "generating", "restart", "loop"} \subseteq Places
      /\ lock \in LockRec /\ llmReady \in BOOLEAN
  BY SoundHere, SoundParts, Names DEF Places, JobPlaces, Bare
<1>00. th["job"].at \in {"loop", "check", "wait", "generating", "answer"} => th["job"].back = "idle"
  BY <1>0 DEF PlacePart, Outside, Joining, At
<1> USE DEF Job, At
<1>1. CASE jobs_next
  <2>1. th["job"].at = "loop" /\ JobGoes("check")
        /\ UNCHANGED <<host, token, roomCfg, llmReady, rt, lock, doubtful>>
    BY <1>1 DEF jobs_next
  <2> QED BY <1>0, <1>00, <2>1, JobGo DEF ChatStep, Typed
<1>2. CASE check_chat
  <2>1. th["job"].at = "check" /\ UNCHANGED <<host, token, roomCfg, rt, lock, doubtful>>
    BY <1>2 DEF check_chat
  <2>2. llmReady' \in BOOLEAN
    BY <1>0, <1>2 DEF check_chat, ChatFails
  <2>3. CASE JobGoes("wait") \/ JobGoes("answer")
    BY <1>0, <1>00, <2>1, <2>2, <2>3, JobGo DEF ChatStep, Typed
  <2>4. CASE Set("job", Reporting("job", "answer", roomCfg, FALSE))
    BY <1>0, <1>00, <2>1, <2>2, <2>4, JobFail DEF ChatStep, Typed
  <2> QED BY <1>2, <2>3, <2>4 DEF check_chat, ChatFails
<1>3. CASE GenerateAsync
  <2>1. th["job"].at = "wait" /\ lock.gate = Nobody /\ UNCHANGED <<host, token, roomCfg, rt, doubtful>>
    BY <1>3 DEF GenerateAsync
  <2>2. CASE JobGoes("generating") /\ lock' = [lock EXCEPT !.gate = "job"] /\ UNCHANGED llmReady
    BY <1>0, <1>00, <2>1, <2>2, JobGo, GateSet DEF ChatStep, Typed
  <2>3. CASE llmReady' = FALSE /\ Set("job", Reporting("job", "answer", roomCfg, FALSE))
             /\ UNCHANGED lock
    BY <1>0, <1>00, <2>1, <2>3, JobFail DEF ChatStep, Typed
  <2> QED BY <1>3, <2>2, <2>3 DEF GenerateAsync
<1>4. CASE generated
  <2>1. th["job"].at = "generating" /\ lock' = [lock EXCEPT !.gate = Nobody]
        /\ UNCHANGED <<host, token, roomCfg, rt, doubtful>>
    BY <1>4 DEF generated
  <2>2. CASE JobGoes("answer") /\ UNCHANGED llmReady
    BY <1>0, <1>00, <2>1, <2>2, JobGo, GateSet DEF ChatStep, Typed
  <2>3. CASE llmReady' = FALSE /\ Set("job", Reporting("job", "answer", roomCfg, FALSE))
    BY <1>0, <1>00, <2>1, <2>3, JobFail, GateSet DEF ChatStep, Typed
  <2> QED BY <1>4, <2>2, <2>3 DEF generated
<1>5. CASE PostAgentPayloadAsync
  <2>1. PICK l \in {"generating", "answer"} : Job(l) /\ Refused("job", l)
    BY <1>5 DEF PostAgentPayloadAsync
  <2>2. Fresh("job", "refused", l, FirstCfg, token) /\ Dead(token)
    BY <1>0, <2>1, RefusedEffect
  <2>3. UNCHANGED <<host, token, roomCfg, llmReady, rt, lock, doubtful>>
    BY <1>5 DEF PostAgentPayloadAsync
  <2> QED BY <1>0, <2>1, <2>2, <2>3 DEF ChatStep, Typed, Fresh, Comes
<1>6. CASE PostResultAsync
  <2>1. Set("job", Task("loop")) /\ th["job"].at = "answer"
        /\ UNCHANGED <<host, token, roomCfg, llmReady, rt, lock, doubtful>>
    BY <1>6 DEF PostResultAsync
  <2>2. th'["job"] = Task("loop") /\ Kept("job") /\ th' \in [Tasks -> TaskRec]
    BY <1>0, <2>1, SetEffect, TaskFields
  <2>3. Plain(Task("loop"), "loop", "idle")
    BY TaskFields
  <2> QED BY <1>0, <2>1, <2>2, <2>3 DEF ChatStep, Typed, Plain
<1>7. CASE job_timeout
  <2>1. /\ th["job"].at \in {"wait", "generating"} /\ JobGoes("restart")
        /\ UNCHANGED <<host, token, roomCfg, llmReady, rt, doubtful>>
        /\ \/ th["job"].at = "generating" /\ lock' = [lock EXCEPT !.gate = Nobody]
           \/ th["job"].at # "generating" /\ lock' = lock
    BY <1>7 DEF job_timeout
  <2> QED BY <1>0, <1>00, <2>1, JobGo, GateSet DEF ChatStep, Typed
<1> QED BY <1>1, <1>2, <1>3, <1>4, <1>5, <1>6, <1>7

LEMMA SoundChat ==
  ASSUME Sound, ChatStep
  PROVE  Sound'
<1>0. /\ AgentTypeOK /\ Bare /\ LockPart("job") /\ PlacePart("job") /\ "job" \in Tasks
      /\ "job" # Nobody
  BY SoundHere, Names
<1>1. Bare'
  BY <1>0 DEF Bare, ChatStep
<1>2. LockPart("job")'
  BY <1>0 DEF ChatStep, LockPart, PlacePart, InGate, InLlmLock, Outside, Joining, At
<1>3. PlacePart("job")'
  BY <1>0 DEF ChatStep, LockPart, PlacePart, Outside, Joining, At
<1>4. th["job"].at = "generating" => lock.gate = "job"
  BY <1>0 DEF LockPart, InGate
<1> QED BY <1>0, <1>1, <1>2, <1>3, <1>4, OneTask, Names DEF ChatStep

(* The runtime is up again, or it is not and neither is llmReady.          *)
LEMMA RestartDoneEffect ==
  ASSUME Sound, RestartAsync_done
  PROVE  /\ At("job", "restarting") /\ Goes("job", "answer") /\ Typed /\ th["job"].back = "idle"
         /\ lock.gate = "job" /\ lock'.gate = Nobody /\ lock'.llm = lock.llm
         /\ lock'.rejoin = lock.rejoin
         /\ \/ /\ llmReady' = llmReady
               /\ rt' = [st |-> "up", model |-> th["job"].cfg.model, gen |-> th["job"].cfg.gen]
            \/ llmReady' = FALSE /\ rt' = rt
         /\ UNCHANGED <<host, token, roomCfg, doubtful>>
<1>0. /\ AgentTypeOK /\ LockPart("job") /\ PlacePart("job") /\ "job" \in Tasks
      /\ "answer" \in Places
  BY SoundHere, Names DEF Places, JobPlaces
<1>1. At("job", "restarting") /\ Go("job", "answer")
      /\ UNCHANGED <<host, token, roomCfg, doubtful>>
  BY DEF RestartAsync_done, Job, JobGoes
<1>2. lock' = [lock EXCEPT !.gate = Nobody]
  BY DEF RestartAsync_done
<1>3. Goes("job", "answer") /\ Typed
  BY <1>0, <1>1, <1>2, GoEffect, GateSet DEF Typed
<1>4. th["job"].back = "idle" /\ lock.gate = "job"
  BY <1>0, <1>1 DEF PlacePart, LockPart, InGate, Outside, Joining, At
<1> QED BY <1>0, <1>1, <1>2, <1>3, <1>4, GateSet DEF RestartAsync_done

LEMMA SoundRestart ==
  ASSUME Sound, RestartAsync \/ RestartAsync_done
  PROVE  Sound'
<1>0. /\ AgentTypeOK /\ Bare /\ LockPart("job") /\ PlacePart("job") /\ "job" \in Tasks
      /\ "job" # Nobody
  BY SoundHere, Names
<1>1. CASE RestartAsync
  <2>1. Bare'
    BY <1>0, <1>1, RestartEffect, Names DEF Bare, Stopped, HostRec
  <2>2. LockPart("job")' /\ PlacePart("job")'
    BY <1>0, <1>1, RestartEffect
    DEF Comes, LockPart, PlacePart, InGate, InLlmLock, Outside, Joining, JobPlaces, At
  <2> QED BY <1>0, <1>1, <2>1, <2>2, RestartEffect, OneTask, Names
<1>2. CASE RestartAsync_done
  <2>1. Bare'
    <3> DEFINE m == th["job"].cfg.model
               g == th["job"].cfg.gen
    <3>1. m \in Models /\ g \in 0 .. MaxGen
      BY <1>0, TaskTyped DEF Configs
    <3>2. /\ rt' = [st |-> "up", model |-> m, gen |-> g] \/ rt' = rt
          /\ llmReady' \in {llmReady, FALSE} /\ UNCHANGED <<host, token, roomCfg, doubtful>>
      BY <1>2, RestartDoneEffect
    <3> HIDE DEF m, g
    <3>3. rt' \in [st : {"down", "up", "dead"}, model : Models, gen : 0 .. MaxGen]
      BY <1>0, <3>1, <3>2 DEF Bare
    <3>4. llmReady' \in BOOLEAN
      BY <1>0, <3>2 DEF Bare
    <3> QED BY <1>0, <3>2, <3>3, <3>4 DEF Bare
  <2>2. LockPart("job")' /\ PlacePart("job")'
    BY <1>0, <1>2, RestartDoneEffect
    DEF Goes, Plain, LockPart, PlacePart, InGate, InLlmLock, Outside, Joining, JobPlaces, At
  <2> QED BY <1>0, <1>2, <2>1, <2>2, RestartDoneEffect, OneTask, Names DEF Goes
<1> QED BY <1>1, <1>2

(* The telemetry loop and the switch. *)
LEMMA DeathEffect ==
  ASSUME AgentTypeOK, ReportRuntimeDeathAsync
  PROVE  /\ At("telemetry", "loop") /\ Reports("telemetry", "loop", roomCfg, FALSE)
         /\ th'["telemetry"].tok = token /\ th'["telemetry"].alone = th["telemetry"].alone
         /\ Kept("telemetry") /\ Typed /\ llmReady' = FALSE
         /\ UNCHANGED <<host, token, roomCfg, rt, lock, doubtful>>
  BY FailEffect, LockKept, Names DEF ReportRuntimeDeathAsync, Typed

LEMMA SwitchGoes ==
  ASSUME AgentTypeOK, model_switch
  PROVE  /\ At("switch", "switch") /\ (Goes("switch", "leave") \/ Goes("switch", "ensure"))
         /\ Typed /\ UNCHANGED <<host, token, roomCfg, llmReady, rt, lock, doubtful>>
<1>1. At("switch", "switch") /\ (Go("switch", "leave") \/ Go("switch", "ensure"))
  BY DEF model_switch
<1>2. Goes("switch", "leave") \/ Goes("switch", "ensure")
  BY <1>1, GoEffect, Names DEF Places
<1>3. th' \in [Tasks -> TaskRec]
  BY <1>1, GoEffect, Names DEF Places
<1> QED BY <1>1, <1>2, <1>3, LockKept DEF Typed, model_switch

LEMMA LeaveEffect ==
  ASSUME AgentTypeOK, LeaveAsync
  PROVE  /\ At("switch", "leave") /\ Goes("switch", "join") /\ Typed
         /\ host' \in HostRec /\ doubtful' \in BOOLEAN
         /\ host'.model = host.model /\ host'.gen = host.gen /\ host'.issued = host.issued
         /\ \/ host'.live = NoToken /\ ~host'.ready /\ doubtful' = FALSE
            \/ UNCHANGED <<host, doubtful>>
         /\ UNCHANGED <<token, roomCfg, llmReady, rt, lock>>
<1>1. At("switch", "leave") /\ Go("switch", "join")
      /\ UNCHANGED <<token, roomCfg, llmReady, rt, lock>>
  BY DEF LeaveAsync
<1>2. Goes("switch", "join") /\ Typed
  BY <1>1, GoEffect, LockKept, Names DEF Places, Typed
<1>3. host \in HostRec /\ doubtful \in BOOLEAN /\ NoToken \in TokensOrNone
  BY Names DEF AgentTypeOK, HostRec
<1>4. \/ host' = [host EXCEPT !.live = NoToken, !.ready = FALSE] /\ doubtful' = FALSE
      \/ UNCHANGED <<host, doubtful>>
  BY DEF LeaveAsync
<1> QED BY <1>1, <1>2, <1>3, <1>4 DEF HostRec

LEMMA SoundSwitch ==
  ASSUME Sound, ReportRuntimeDeathAsync \/ SwitchModelIfNeededAsync \/ model_switch \/ LeaveAsync
  PROVE  Sound'
<1>0. \A p \in {"telemetry", "switch"} :
        /\ AgentTypeOK /\ Bare /\ LockPart(p) /\ PlacePart(p) /\ p # Nobody /\ p \in Tasks
  BY SoundHere, Names
<1>1. CASE ReportRuntimeDeathAsync
  <2>1. Bare'
    BY <1>0, <1>1, DeathEffect DEF Bare
  <2>2. LockPart("telemetry")' /\ PlacePart("telemetry")'
    BY <1>0, <1>1, DeathEffect
    DEF Reports, LockPart, PlacePart, InGate, InLlmLock, Outside, Joining, JobPlaces, At
  <2> QED BY <1>0, <1>1, <2>1, <2>2, DeathEffect, OneTask
<1>2. CASE SwitchModelIfNeededAsync
  <2>1. Bare' /\ Typed
    BY <1>0, <1>2, SwitchEffect, LockKept DEF Bare, Typed, Fresh
  <2>2. LockPart("switch")' /\ PlacePart("switch")'
    BY <1>0, <1>2, SwitchEffect
    DEF Fresh, Comes, LockPart, PlacePart, InGate, InLlmLock, Outside, Joining, JobPlaces, At
  <2> QED BY <1>0, <1>2, <2>1, <2>2, SwitchEffect, OneTask DEF Fresh
<1>3. CASE model_switch
  <2>1. Bare'
    BY <1>0, <1>3, SwitchGoes DEF Bare
  <2>2. LockPart("switch")' /\ PlacePart("switch")' /\ Kept("switch")
    BY <1>0, <1>3, SwitchGoes
    DEF Goes, Plain, LockPart, PlacePart, InGate, InLlmLock, Outside, Joining, JobPlaces, At
  <2> QED BY <1>0, <1>3, <2>1, <2>2, SwitchGoes, OneTask
<1>4. CASE LeaveAsync
  <2>1. Bare'
    BY <1>0, <1>4, LeaveEffect DEF Bare
  <2>2. LockPart("switch")' /\ PlacePart("switch")' /\ Kept("switch")
    BY <1>0, <1>4, LeaveEffect
    DEF Goes, Plain, LockPart, PlacePart, InGate, InLlmLock, Outside, Joining, JobPlaces, At
  <2> QED BY <1>0, <1>4, <2>1, <2>2, LeaveEffect, OneTask
<1> QED BY <1>1, <1>2, <1>3, <1>4

(* The host takes readiness away. *)
LEMMA EndsEffect ==
  ASSUME AgentTypeOK, reset_model_readiness \/ token_ends \/ host_restarts
  PROVE  /\ host' \in HostRec /\ ~host'.ready /\ doubtful' = FALSE
         /\ host'.issued = host.issued /\ host'.live \in {NoToken, host.live}
         /\ UNCHANGED <<token, roomCfg, llmReady, rt, lock, th>>
<1>0. host \in HostRec /\ NoToken \in TokensOrNone /\ MaxGen \in Nat
  BY Names DEF AgentTypeOK, HostRec
<1>1. CASE reset_model_readiness
  <2>1. host' = [[host EXCEPT !.sel = "none"] EXCEPT !.ready = FALSE]
    BY <1>1 DEF reset_model_readiness, HostChanges
  <2> QED BY <1>0, <1>1, <2>1 DEF HostRec, HostChanges, reset_model_readiness
<1>2. CASE token_ends
  <2>1. host' = [[host EXCEPT !.live = NoToken] EXCEPT !.ready = FALSE]
    BY <1>2 DEF token_ends, HostChanges
  <2> QED BY <1>0, <1>2, <2>1 DEF HostRec, HostChanges, token_ends
<1>3. CASE host_restarts
  <2> DEFINE h == [host EXCEPT !.live = NoToken, !.gen = 0, !.sel = "none"]
  <2>1. HostChanges(h)
    BY <1>3 DEF host_restarts
  <2>2. h \in HostRec /\ h.live = NoToken /\ h.issued = host.issued
    <3>1. 0 \in 0 .. MaxGen
      BY <1>0
    <3> QED BY <1>0, <3>1 DEF HostRec
  <2> HIDE DEF h
  <2> QED BY <2>1, <2>2 DEF HostRec, HostChanges
<1> QED BY <1>1, <1>2, <1>3

(* A model is selected, or the generation raised; the rows are as before. *)
LEMMA SelectEffect ==
  ASSUME AgentTypeOK, select_model \/ select_generation
  PROVE  /\ host' \in HostRec /\ host'.sel # "none" /\ host'.ready = host.ready
         /\ host'.issued = host.issued /\ host'.live = host.live
         /\ UNCHANGED <<token, roomCfg, llmReady, rt, lock, th, doubtful>>
<1>0. host \in HostRec /\ MaxGen \in Nat
  BY Names DEF AgentTypeOK, HostRec
<1>1. CASE select_model
  <2>1. PICK m \in Models : host' = [host EXCEPT !.model = m, !.sel = "model"]
    BY <1>1 DEF select_model
  <2> QED BY <1>0, <1>1, <2>1 DEF HostRec, select_model
<1>2. CASE select_generation
  <2>1. host' = [host EXCEPT !.gen = host.gen + 1, !.sel = "gen"]
    BY <1>2 DEF select_generation
  <2>2. host.gen + 1 \in 0 .. MaxGen
    BY <1>0, <1>2 DEF select_generation, AgentTypeOK
  <2> QED BY <1>0, <1>2, <2>1, <2>2 DEF HostRec, select_generation
<1> QED BY <1>1, <1>2

(* The steps the host takes by itself. *)
HostStep == select_model \/ select_generation \/ reset_model_readiness \/ token_ends \/ host_restarts

LEMMA OutsideEffect ==
  ASSUME AgentTypeOK, HostStep
  PROVE  /\ host' \in HostRec /\ doubtful' \in BOOLEAN
         /\ \/ ~host'.ready
            \/ host'.sel # "none" /\ host'.ready = host.ready /\ doubtful' = doubtful
         /\ host'.issued = host.issued /\ host'.live \in {NoToken, host.live}
         /\ UNCHANGED <<token, roomCfg, llmReady, rt, lock, th>>
<1>1. doubtful \in BOOLEAN
  BY DEF AgentTypeOK
<1> QED BY <1>1, EndsEffect, SelectEffect DEF HostStep

LEMMA SoundOutside ==
  ASSUME Sound, HostStep \/ llama_server_dies
  PROVE  Sound'
<1>0. AgentTypeOK /\ PlacesInv /\ Bare
  BY SoundParts DEF Sound
<1>1. CASE HostStep
  <2>1. Bare' /\ UNCHANGED <<lock, th>>
    BY <1>0, <1>1, OutsideEffect DEF Bare
  <2> QED BY <1>0, <2>1
      DEF Sound, AgentTypeOK, Bare, HostRec, PlacesInv, InGate, InLlmLock, Outside, Joining, At
<1>2. CASE llama_server_dies
  <2>1. Bare' /\ UNCHANGED <<lock, th>>
    BY <1>0, <1>2, Names DEF Bare, llama_server_dies, Stopped
  <2> QED BY <1>0, <2>1
      DEF Sound, AgentTypeOK, Bare, HostRec, PlacesInv, InGate, InLlmLock, Outside, Joining, At
<1> QED BY <1>1, <1>2

LEMMA SoundInit ==
  ASSUME AgentInit
  PROVE  Sound
<1>0. /\ FirstModel \in Models /\ 0 \in 0 .. MaxGen /\ 1 \in 1 .. MaxToken /\ 1 \in 0 .. MaxToken
  BY Names
<1>1. Bare /\ lock \in LockRec
  <2>1. host \in HostRec /\ host.model = FirstModel /\ host.gen = 0
    BY <1>0 DEF AgentInit, HostRec, TokensOrNone
  <2>2. roomCfg = Config
    BY DEF AgentInit
  <2>3. roomCfg \in Configs
    BY <1>0, <2>1, <2>2 DEF Config, Configs
  <2>4. rt \in [st : {"down", "up", "dead"}, model : Models, gen : 0 .. MaxGen]
    BY <1>0 DEF AgentInit
  <2>5. lock \in LockRec
    BY DEF AgentInit, LockRec
  <2>6. token \in TokensOrNone /\ llmReady \in BOOLEAN /\ doubtful \in BOOLEAN
    BY <1>0 DEF AgentInit, TokensOrNone
  <2> QED BY <2>1, <2>3, <2>4, <2>5, <2>6 DEF Bare
<1>2. \A p \in Tasks : \E l \in {"ensure", "idle", "loop"} : th[p] = Task(l)
  BY DEF AgentInit
<1>3. th \in [Tasks -> TaskRec]
  <2>1. th = [p \in Tasks |-> th[p]]
    BY DEF AgentInit
  <2>2. \A p \in Tasks : th[p] \in TaskRec
    BY <1>2, TaskFields DEF Places
  <2> QED BY <2>1, <2>2
<1>4. ASSUME NEW p \in Tasks
      PROVE  LockPart(p) /\ PlacePart(p)
  <2>0. PICK l \in {"ensure", "idle", "loop"} : th[p] = Task(l)
    BY <1>2
  <2>3. Plain(Task(l), l, "idle")
    BY TaskFields
  <2>1. th[p].at \in {"ensure", "idle", "loop"} /\ th[p].back = "idle" /\ th[p].next = "idle"
    BY <2>0, <2>3 DEF Plain
  <2>2. lock.gate # p /\ lock.llm # p /\ lock.rejoin # p
    BY Names DEF AgentInit
  <2> QED BY <2>1, <2>2 DEF LockPart, PlacePart, InGate, InLlmLock, Outside, Joining, JobPlaces, At
<1> QED BY <1>1, <1>3, <1>4, SoundParts

LEMMA StepsOf ==
  ASSUME Sound, AgentNext
  PROVE  \/ \E p \in Tasks :
              \/ EnsureLlmAsync(p) \/ llmLock(p) \/ EnsureReadyAsync(p) \/ StartServerAsync(p)
                   \/ EnsureLlm_done(p) \/ nodes_ready(p)
              \/ handle_refusal(p) \/ RejoinAsync(p) \/ RejoinAsync_clear(p) \/ JoinAsync(p)
                   \/ ApplyRoomConfigAsync(p) \/ ApplyRoomConfigAsync_match(p) \/ session_loop(p)
         \/ ReportRuntimeDeathAsync \/ SwitchModelIfNeededAsync \/ model_switch \/ LeaveAsync
         \/ ChatStep \/ RestartAsync \/ RestartAsync_done
         \/ HostStep \/ llama_server_dies
<1>1. CASE jobs_next \/ check_chat \/ GenerateAsync \/ generated \/ PostAgentPayloadAsync
             \/ PostResultAsync \/ job_timeout
  BY <1>1, ChatSteps
<1>2. CASE ~(jobs_next \/ check_chat \/ GenerateAsync \/ generated \/ PostAgentPayloadAsync
               \/ PostResultAsync \/ job_timeout)
  <2> HIDE DEF Sound
  <2> QED BY <1>2 DEF AgentNext, HostStep
<1> QED BY <1>1, <1>2

LEMMA SoundNext ==
  ASSUME Sound, [AgentNext]_agentVars
  PROVE  Sound'
<1>1. CASE UNCHANGED agentVars
  BY <1>1
  DEF agentVars, Sound, AgentTypeOK, PlacesInv, InGate, InLlmLock, Outside, Joining, At
<1>2. CASE AgentNext
  <2> HIDE DEF Sound
  <2> QED BY <1>2, StepsOf, SoundLoad, SoundReport, SoundRejoin, SoundApply, SoundSwitch,
          SoundChat, SoundRestart, SoundOutside
<1> QED BY <1>1, <1>2

(* Every variable keeps its type, and each of the three semaphores is held *)
(* by the task in its section and by no other, whatever fails in there, in *)
(* whatever order the tasks load, join again and restart (Program.cs and   *)
(* LlamaCppRunner.cs).                                                     *)
THEOREM AgentTypes == AgentSpec => []AgentTypeOK
<1>1. AgentInit => Sound
  BY SoundInit
<1>2. Sound /\ [AgentNext]_agentVars => Sound'
  BY SoundNext
<1>3. Sound => AgentTypeOK
  BY DEF Sound
<1> QED BY <1>1, <1>2, <1>3, PTL DEF AgentSpec

-----------------------------------------------------------------------------
(* The tokens.                                                             *)

TokenPart(p) ==
    /\ th[p].tok <= host.issued
    /\ At(p, "refused") => Dead(th[p].tok)
    /\ th[p].at \in {"rejoin", "clear"} /\ ~th[p].slipped => Dead(th[p].tok)

LEMMA TokensParts ==
  TokensInv <=> /\ host.live <= host.issued /\ token <= host.issued
                /\ \A p \in Tasks : TokenPart(p)
  BY DEF TokensInv, TokenPart

(* No token is handed out, and p keeps one of those there are. *)
LEMMA OneToken ==
  ASSUME Sound, TokensInv, NEW p \in Tasks, Kept(p) \/ Shaken(p),
         host'.issued = host.issued, host'.live \in {host.live, NoToken},
         token' \in {token, NoToken, th[p].tok},
         th'[p].tok \in {token, NoToken, th[p].tok},
         th'[p].at = "refused" => Dead(th'[p].tok),
         th'[p].at \in {"rejoin", "clear"} /\ ~th'[p].slipped => Dead(th'[p].tok)
  PROVE  TokensInv'
<1>0. Others(p)
  BY OthersStay
<1>1. /\ host.issued \in 1 .. MaxToken /\ host.live \in 0 .. MaxToken /\ token \in 0 .. MaxToken
      /\ MaxToken \in Nat /\ \A q \in Tasks : th[q].tok \in 0 .. MaxToken
  BY HostTyped, TaskTyped, Names DEF Sound, AgentTypeOK, TokensOrNone
<1>2. /\ host.live <= host.issued /\ token <= host.issued /\ th[p].tok <= host.issued
      /\ \A q \in Tasks : TokenPart(q)
  BY TokensParts DEF TokenPart
<1>3. host'.live <= host'.issued /\ token' <= host'.issued
  BY <1>1, <1>2 DEF NoToken
<1>4. TokenPart(p)'
  BY <1>1, <1>2 DEF TokenPart, At, Dead, NoToken
<1>5. \A q \in Tasks \ {p} : TokenPart(q)'
  BY <1>0, <1>1, <1>2 DEF TokenPart, Others, At, Dead, NoToken
<1> QED BY <1>3, <1>4, <1>5 DEF TokensInv, TokenPart

(* A token is handed out that nobody has. *)
LEMMA NewToken ==
  ASSUME Sound, TokensInv, NEW p \in Tasks, Kept(p),
         host'.issued = host.issued + 1, host'.live = host.issued + 1, token' = token,
         th'[p].at \notin {"refused", "rejoin", "clear"},
         th'[p].tok \in {host.issued + 1, NoToken}
  PROVE  TokensInv'
<1>0. Others(p)
  BY OthersStay
<1>1. /\ host.issued \in 1 .. MaxToken /\ host.live \in 0 .. MaxToken /\ token \in 0 .. MaxToken
      /\ MaxToken \in Nat /\ \A q \in Tasks : th[q].tok \in 0 .. MaxToken
  BY HostTyped, TaskTyped, Names DEF Sound, AgentTypeOK, TokensOrNone
<1>2. /\ host.live <= host.issued /\ token <= host.issued
      /\ \A q \in Tasks : TokenPart(q)
  BY TokensParts
<1>3. host'.live <= host'.issued /\ token' <= host'.issued
  BY <1>1, <1>2
<1>4. TokenPart(p)'
  BY <1>1 DEF TokenPart, At, NoToken
<1>5. \A q \in Tasks \ {p} : TokenPart(q)'
  BY <1>0, <1>1, <1>2 DEF TokenPart, Others, At, Dead, NoToken
<1> QED BY <1>3, <1>4, <1>5 DEF TokensInv, TokenPart

LEMMA TokensLoad ==
  ASSUME Sound, TokensInv, NEW p \in Tasks,
         EnsureLlmAsync(p) \/ llmLock(p) \/ EnsureReadyAsync(p) \/ StartServerAsync(p)
           \/ EnsureLlm_done(p) \/ nodes_ready(p)
  PROVE  TokensInv'
<1>0. AgentTypeOK
  BY DEF Sound
<1> USE DEF At
<1>1. CASE EnsureLlmAsync(p)
  BY <1>0, <1>1, EnsureEffect, OneToken DEF Reports
<1>2. CASE llmLock(p)
  BY <1>0, <1>2, LlmLockEffect, OneToken
<1>3. CASE EnsureReadyAsync(p)
  BY <1>0, <1>3, KeepEffect, StopEffect, OneToken
<1>4. CASE StartServerAsync(p)
  BY <1>0, <1>4, StartEffect, OneToken
<1>5. CASE EnsureLlm_done(p)
  BY <1>0, <1>5, LoadedEffect, OneToken DEF Reports
<1>6. CASE nodes_ready(p)
  <2>1. host'.issued = host.issued /\ host'.live \in {host.live, NoToken}
    BY <1>0, <1>6, HostHears
  <2>2. th[p].back \in {"idle", "loop", "answer", "generating"}
        /\ th[p].next \in {"idle", "loop", "answer", "match", "llm", "over"}
    BY <1>0, TaskTyped
  <2>3. th'[p].at \notin {"refused", "rejoin", "clear"} /\ th'[p].tok = NoToken /\ Kept(p)
        /\ token' = token
    BY <1>0, <1>6, <2>2, ReportDone DEF Ended, Plain, Comes, Goes
  <2> QED BY <2>1, <2>3, OneToken
<1> QED BY <1>1, <1>2, <1>3, <1>4, <1>5, <1>6

LEMMA TokensSession ==
  ASSUME Sound, TokensInv, NEW p \in Tasks,
         handle_refusal(p) \/ RejoinAsync(p) \/ RejoinAsync_clear(p) \/ JoinAsync(p)
           \/ ApplyRoomConfigAsync(p) \/ ApplyRoomConfigAsync_match(p) \/ session_loop(p)
  PROVE  TokensInv'
<1>0. /\ AgentTypeOK /\ TokenPart(p)
      /\ th[p].back \in {"idle", "loop", "answer", "generating"}
  BY TokensParts, TaskTyped DEF Sound
<1> USE DEF At
<1>1. CASE handle_refusal(p)
  <2>1. th'[p].at = "rejoin" /\ th'[p].tok = token /\ th'[p].slipped = (token # th[p].tok)
    BY <1>0, <1>1, HandleEffect DEF Comes
  <2>2. ~th'[p].slipped => Dead(token)
    BY <1>0, <1>1, <2>1, HandleEffect DEF TokenPart
  <2> QED BY <1>0, <1>1, <2>1, <2>2, HandleEffect, OneToken
<1>2. CASE RejoinAsync(p)
  <2>1. /\ At(p, "rejoin") /\ UNCHANGED <<host, token>> /\ Kept(p)
    BY <1>0, <1>2, RejoinEffect DEF Fresh
  <2>2. \/ /\ token \in {NoToken, th[p].tok} /\ th'[p].at = "clear" /\ th'[p].tok = token
           /\ th'[p].slipped = th[p].slipped
        \/ th'[p].at = th[p].back /\ th'[p].tok = NoToken
    BY <1>0, <1>2, RejoinEffect DEF Fresh, Comes
  <2>3. th'[p].at = "clear" /\ ~th'[p].slipped => Dead(th'[p].tok)
    BY <1>0, <2>1, <2>2 DEF TokenPart, Dead
  <2> QED BY <1>0, <2>1, <2>2, <2>3, OneToken
<1>3. CASE RejoinAsync_clear(p)
  <2>1. Goes(p, "join") /\ token' = NoToken /\ host' = host
    BY <1>0, <1>3, GoEffect DEF RejoinAsync_clear, Places
  <2> QED BY <2>1, OneToken DEF Goes, Plain
<1>4. CASE JoinAsync(p)
  <2>1. th'[p].at \in {"joined", "idle", th[p].back} /\ token' = token /\ Kept(p)
    BY <1>0, <1>4, JoinEffect DEF Comes, Ended, Plain
  <2>2. CASE host' = host /\ Ended(p)
    BY <1>0, <2>1, <2>2, OneToken DEF Ended, Plain
  <2>3. CASE host'.issued = host.issued + 1 /\ host'.live = host.issued + 1
             /\ th'[p].tok \in {host.issued + 1, NoToken}
    BY <1>0, <2>1, <2>3, NewToken
  <2> QED BY <1>0, <1>4, <2>2, <2>3, JoinEffect DEF Comes, Ended, Plain
<1>5. CASE ApplyRoomConfigAsync(p)
  BY <1>0, <1>5, ApplyEffect, OneToken DEF Reports, Comes
<1>6. CASE ApplyRoomConfigAsync_match(p)
  <2>1. CASE End(p)
    <3>1. Ended(p) /\ UNCHANGED <<host, token>>
      BY <1>0, <1>6, <2>1, EndEffect DEF ApplyRoomConfigAsync_match
    <3> QED BY <1>0, <3>1, OneToken DEF Ended, Plain
  <2>2. CASE Go(p, "ensure")
    <3>1. Goes(p, "ensure") /\ UNCHANGED <<host, token>>
      BY <1>0, <1>6, <2>2, GoEffect DEF ApplyRoomConfigAsync_match, Places
    <3> QED BY <3>1, OneToken DEF Goes, Plain
  <2> QED BY <1>6, <2>1, <2>2 DEF ApplyRoomConfigAsync_match
<1>7. CASE session_loop(p)
  <2>1. Dead(NoToken)
    BY DEF Dead
  <2> QED BY <1>0, <1>7, <2>1, SessionEffect, OneToken DEF Fresh, Comes
<1> QED BY <1>1, <1>2, <1>3, <1>4, <1>5, <1>6, <1>7

LEMMA TokensRest ==
  ASSUME Sound, TokensInv,
         \/ ReportRuntimeDeathAsync \/ SwitchModelIfNeededAsync \/ model_switch \/ LeaveAsync
         \/ ChatStep \/ RestartAsync \/ RestartAsync_done
         \/ HostStep \/ llama_server_dies
  PROVE  TokensInv'
<1>0. AgentTypeOK /\ {"telemetry", "job", "switch"} \subseteq Tasks
  BY Names DEF Sound
<1>1. CASE ReportRuntimeDeathAsync
  BY <1>0, <1>1, DeathEffect, OneToken DEF Reports
<1>2. CASE SwitchModelIfNeededAsync
  BY <1>0, <1>2, SwitchEffect, OneToken DEF Fresh, Comes
<1>3. CASE model_switch
  BY <1>0, <1>3, SwitchGoes, OneToken DEF Goes, Plain
<1>4. CASE LeaveAsync
  BY <1>0, <1>4, LeaveEffect, OneToken DEF Goes, Plain
<1>5. CASE ChatStep
  BY <1>0, <1>5, OneToken DEF ChatStep
<1>6. CASE RestartAsync
  BY <1>0, <1>6, RestartEffect, OneToken DEF Comes
<1>7. CASE RestartAsync_done
  BY <1>0, <1>7, RestartDoneEffect, OneToken DEF Goes, Plain
<1>8. CASE HostStep
  <2>1. th' = th /\ token' = token /\ host'.issued = host.issued /\ host'.live \in {host.live, NoToken}
    BY <1>0, <1>8, OutsideEffect
  <2>2. Kept("job") /\ th'["job"].tok = th["job"].tok /\ th'["job"].at = th["job"].at
        /\ th'["job"].slipped = th["job"].slipped /\ TokenPart("job")
    BY <1>0, <2>1, TokensParts DEF Kept
  <2> QED BY <1>0, <2>1, <2>2, OneToken DEF TokenPart, At
<1>9. CASE llama_server_dies
  BY <1>9 DEF llama_server_dies, TokensInv, At, Dead
<1> QED BY <1>1, <1>2, <1>3, <1>4, <1>5, <1>6, <1>7, <1>8, <1>9

LEMMA TokensInit == AgentInit => TokensInv
<1> SUFFICES ASSUME AgentInit
             PROVE  TokensInv
  OBVIOUS
<1>1. host.live = 1 /\ host.issued = 1 /\ token = 1
  BY DEF AgentInit
<1>2. ASSUME NEW p \in Tasks
      PROVE  th[p].tok = 0 /\ th[p].at \in {"ensure", "idle", "loop"}
  <2>1. PICK l \in {"ensure", "idle", "loop"} : th[p] = Task(l)
    BY DEF AgentInit
  <2>2. Plain(Task(l), l, "idle")
    BY TaskFields
  <2> QED BY <2>1, <2>2 DEF Plain, NoToken
<1> QED BY <1>1, <1>2 DEF TokensInv, At

LEMMA TokensNext ==
  ASSUME Sound, TokensInv, [AgentNext]_agentVars
  PROVE  TokensInv'
<1>1. CASE UNCHANGED agentVars
  BY <1>1 DEF agentVars, TokensInv, At, Dead
<1>2. CASE AgentNext
  <2> HIDE DEF TokensInv
  <2> QED BY <1>2, StepsOf, TokensLoad, TokensSession, TokensRest
<1> QED BY <1>1, <1>2

(* What a step that gives up a token the host honours is.                  *)
LEMMA GivesUp ==
  ASSUME Sound, TokensInv, [AgentNext]_agentVars, Alive(token), token' # token
  PROVE  \E p \in Tasks : \/ At(p, "clear") /\ (th[p].slipped \/ th[p].tok # token)
                          \/ At(p, "joined") /\ ~Alive(th[p].tok)
<1>0. AgentTypeOK
  BY DEF Sound
<1>1. AgentNext
  BY DEF agentVars
<1>2. \E p \in Tasks : RejoinAsync_clear(p) \/ ApplyRoomConfigAsync(p)
  <2>1. ASSUME NEW p \in Tasks,
               \/ EnsureLlmAsync(p) \/ llmLock(p) \/ EnsureReadyAsync(p) \/ StartServerAsync(p)
               \/ EnsureLlm_done(p) \/ nodes_ready(p) \/ handle_refusal(p) \/ RejoinAsync(p)
               \/ JoinAsync(p) \/ ApplyRoomConfigAsync_match(p) \/ session_loop(p)
        PROVE  token' = token
    BY <2>1 DEF EnsureLlmAsync, llmLock, EnsureReadyAsync, StartServerAsync, EnsureLlm_done,
       nodes_ready, handle_refusal, RejoinAsync, JoinAsync, ApplyRoomConfigAsync_match, session_loop
  <2>2. ASSUME \/ ReportRuntimeDeathAsync \/ SwitchModelIfNeededAsync \/ model_switch \/ LeaveAsync
               \/ ChatStep \/ RestartAsync \/ RestartAsync_done \/ llama_server_dies
        PROVE  token' = token
    BY <2>2 DEF ReportRuntimeDeathAsync, SwitchModelIfNeededAsync, model_switch, LeaveAsync,
       ChatStep, RestartAsync, RestartAsync_done, llama_server_dies
  <2>3. ASSUME HostStep
        PROVE  token' = token
    BY <1>0, <2>3, OutsideEffect
  <2> HIDE DEF Sound
  <2> QED BY <1>1, <2>1, <2>2, <2>3, StepsOf
<1>3. PICK p \in Tasks : RejoinAsync_clear(p) \/ ApplyRoomConfigAsync(p)
  BY <1>2
<1>4. CASE RejoinAsync_clear(p)
  <2>1. At(p, "clear") /\ (~th[p].slipped => Dead(th[p].tok))
    BY <1>4, TokensParts DEF RejoinAsync_clear, TokenPart, At
  <2> QED BY <2>1 DEF Alive, Dead
<1>5. CASE ApplyRoomConfigAsync(p)
  <2>1. At(p, "joined") /\ token' = th[p].tok
    BY <1>5 DEF ApplyRoomConfigAsync
  <2> QED BY <2>1 DEF Alive
<1> QED BY <1>3, <1>4, <1>5

(* The agent gives up a token the host still honours in two races only: it *)
(* re-reads the token after a refusal, or reads the config file before it  *)
(* forgets the token, and another task has joined in between; or a task    *)
(* stores an older token late (RejoinAsync, Program.cs:288).               *)
THEOREM ForgetsHold == AgentSpec => ForgetsOnlyByRace
<1>1. AgentInit => Sound /\ TokensInv
  BY SoundInit, TokensInit
<1>2. Sound /\ TokensInv /\ [AgentNext]_agentVars => (Sound /\ TokensInv)'
  BY SoundNext, TokensNext
<1>3. Sound /\ TokensInv /\ [AgentNext]_agentVars
        => [Alive(token) /\ token' # token =>
              \E p \in Tasks : \/ At(p, "clear") /\ (th[p].slipped \/ th[p].tok # token)
                               \/ At(p, "joined") /\ ~Alive(th[p].tok)]_agentVars
  BY GivesUp
<1> QED BY <1>1, <1>2, <1>3, PTL DEF AgentSpec, ForgetsOnlyByRace

-----------------------------------------------------------------------------
(* Readiness.                                                              *)

(* What a task that is alone can count on. *)
Serves(p) ==
    /\ th[p].at \in {"gate", "loading"} => th[p].cfg = roomCfg
    /\ At(p, "loaded") /\ th[p].ok => Backs(roomCfg.model)
    /\ At(p, "report") /\ th[p].next = "over" /\ th[p].ok => Backs(th[p].cfg.model)
Unsettled(p) == Told(p) \/ At(p, "restarting")
Doubted == ~host.ready \/ doubtful
Backed == host.sel # "none" \/ Backs(host.model)
HasLoaded(p) == At(p, "loaded") \/ (At(p, "report") /\ th[p].next = "over")

LEMMA LoadingParts ==
  LoadingInv <=>
    /\ \A p, q \in Tasks : p # q /\ Ensuring(p) /\ Ensuring(q) => ~th[p].alone
    /\ \A p \in Tasks : Unsettled(p) => Doubted
    /\ \A p \in Tasks : th[p].alone => Serves(p)
    /\ At("job", "restarting") => \A p \in Tasks : HasLoaded(p) => ~th[p].alone
    /\ \A p \in Tasks : At(p, "report") /\ th[p].next # "over" => ~th[p].ok
    /\ Doubted \/ Backed
  BY DEF LoadingInv, Unsettled, Serves, Doubted, HasLoaded, At, ReadyIsBacked, Backed, Backs

LEMMA OthersLoad ==
  ASSUME NEW p \in Tasks, Others(p), NEW q \in Tasks \ {p}
  PROVE  /\ Ensuring(q)' = Ensuring(q) /\ Unsettled(q)' = Unsettled(q)
         /\ HasLoaded(q)' = HasLoaded(q) /\ At(q, "restarting")' = At(q, "restarting")
         /\ th'[q].alone => th[q].alone
         /\ (At(q, "report") /\ th[q].next # "over" => ~th[q].ok)'
              = (At(q, "report") /\ th[q].next # "over" => ~th[q].ok)
         /\ rt' = rt /\ roomCfg' = roomCfg => Serves(q)' = Serves(q)
  BY DEF Others, Ensuring, Unsettled, Told, HasLoaded, At, Serves, Backs

(* What is left to see of a step of p. *)
LEMMA LoadingStep ==
  ASSUME LoadingInv, NEW p \in Tasks, Others(p),
         Ensuring(p)' => \A q \in Tasks \ {p} : Ensuring(q) => ~th'[p].alone /\ ~th'[q].alone,
         (\E q \in Tasks \ {p} : Unsettled(q)) \/ Unsettled(p)' => Doubted',
         \A q \in Tasks : th'[q].alone => Serves(q)',
         At("job", "restarting")' => \A q \in Tasks : HasLoaded(q)' => ~th'[q].alone,
         th'[p].at = "report" /\ th'[p].next # "over" => ~th'[p].ok,
         (Doubted \/ Backed)'
  PROVE  LoadingInv'
<1> DEFINE Report(q) == At(q, "report") /\ th[q].next # "over" => ~th[q].ok
<1>1. \A q, r \in Tasks : q # r /\ Ensuring(q)' /\ Ensuring(r)' => ~th'[q].alone
  <2>1. ASSUME NEW q \in Tasks, NEW r \in Tasks, q # r, Ensuring(q)', Ensuring(r)'
        PROVE  ~th'[q].alone
    <3>1. CASE q = p
      <4>1. Ensuring(r)
        BY <2>1, <3>1, OthersLoad
      <4> QED BY <2>1, <3>1, <4>1
    <3>2. CASE r = p
      <4>1. Ensuring(q)
        BY <2>1, <3>2, OthersLoad
      <4> QED BY <2>1, <3>2, <4>1
    <3>3. CASE q # p /\ r # p
      <4>1. Ensuring(q) /\ Ensuring(r) /\ (th'[q].alone => th[q].alone)
        BY <2>1, <3>3, OthersLoad
      <4> QED BY <2>1, <4>1, LoadingParts
    <3> QED BY <3>1, <3>2, <3>3
  <2> QED BY <2>1
<1>2. \A q \in Tasks : Unsettled(q)' => Doubted'
  <2>1. \A q \in Tasks \ {p} : Unsettled(q)' => Unsettled(q)
    BY OthersLoad
  <2> HIDE DEF Unsettled, Doubted
  <2> QED BY <2>1
<1>3. \A q \in Tasks : Report(q)'
  <2>1. \A q \in Tasks \ {p} : Report(q)'
    <3>1. \A q \in Tasks : Report(q)
      BY LoadingParts
    <3>2. \A q \in Tasks \ {p} : Report(q)' = Report(q)
      BY OthersLoad
    <3> HIDE DEF Report
    <3> QED BY <3>1, <3>2
  <2>2. Report(p)'
    BY DEF At
  <2> HIDE DEF Report
  <2> QED BY <2>1, <2>2
<1>4. At("job", "restarting")' => \A q \in Tasks : HasLoaded(q)' => ~th'[q].alone
  OBVIOUS
<1>5. \A q \in Tasks : th'[q].alone => Serves(q)'
  OBVIOUS
<1>6. (Doubted \/ Backed)'
  OBVIOUS
<1> QED BY <1>1, <1>2, <1>3, <1>4, <1>5, <1>6
        DEF LoadingInv, Unsettled, Serves, Doubted, HasLoaded, At, ReadyIsBacked, Backed, Backs


(* A step of p that changes neither the runtime nor the configuration, and *)
(* with which p is not, or no longer, loading.                             *)
LEMMA Aside ==
  ASSUME LoadingInv, NEW p \in Tasks, Kept(p), rt' = rt, roomCfg' = roomCfg,
         UNCHANGED <<host, doubtful>> \/ ~host'.ready,
         th'[p].at \notin {"llm", "gate", "loading", "loaded", "restarting"},
         th'[p].at = "report" => th'[p].next \notin {"llm", "over"} /\ ~th'[p].ok
  PROVE  LoadingInv'
<1>0. Others(p)
  BY OthersStay
<1>1. ~Ensuring(p)' /\ ~Unsettled(p)' /\ ~HasLoaded(p)' /\ Serves(p)'
  BY DEF Ensuring, Unsettled, Told, HasLoaded, Serves, At
<1>2. (\E q \in Tasks \ {p} : Unsettled(q)) => Doubted'
  <2>1. (\E q \in Tasks \ {p} : Unsettled(q)) => Doubted
    BY LoadingParts
  <2> HIDE DEF Unsettled
  <2> QED BY <2>1 DEF Doubted
<1>3. \A q \in Tasks : th'[q].alone => Serves(q)'
  <2>1. \A q \in Tasks \ {p} : th[q].alone => Serves(q)
    BY LoadingParts
  <2>2. \A q \in Tasks \ {p} : (th'[q].alone => th[q].alone) /\ Serves(q)' = Serves(q)
    BY <1>0, OthersLoad
  <2> HIDE DEF Serves
  <2> QED BY <1>1, <2>1, <2>2
<1>4. At("job", "restarting")' => \A q \in Tasks : HasLoaded(q)' => ~th'[q].alone
  <2>1. At("job", "restarting") => \A q \in Tasks : HasLoaded(q) => ~th[q].alone
    BY LoadingParts
  <2>2. \A q \in Tasks \ {p} : (th'[q].alone => th[q].alone) /\ HasLoaded(q)' = HasLoaded(q)
                               /\ At(q, "restarting")' = At(q, "restarting")
    BY <1>0, OthersLoad
  <2>3. At("job", "restarting")' => At("job", "restarting")
    BY <2>2, Names DEF At
  <2> HIDE DEF HasLoaded
  <2> QED BY <1>1, <2>1, <2>2, <2>3
<1>5. (Doubted \/ Backed)'
  <2>1. Doubted \/ Backed
    BY LoadingParts
  <2> QED BY <2>1 DEF Doubted, Backed, Backs
<1>6. th'[p].at = "report" /\ th'[p].next # "over" => ~th'[p].ok
  OBVIOUS
<1> HIDE DEF Ensuring, Unsettled, Serves, HasLoaded, Doubted, Backed
<1> QED BY <1>0, <1>1, <1>2, <1>3, <1>4, <1>5, <1>6, LoadingStep

(* p, which is loading, goes on with it in the same configuration.         *)
LEMMA GoesOn ==
  ASSUME LoadingInv, NEW p \in Tasks, Kept(p), roomCfg' = roomCfg, UNCHANGED <<host, doubtful>>,
         Ensuring(p), Told(p), th'[p].alone = th[p].alone, th'[p].at # "restarting",
         th'[p].at = "report" /\ th'[p].next # "over" => ~th'[p].ok,
         th'[p].alone => Serves(p)',
         At("job", "restarting") => rt' = rt /\ (HasLoaded(p)' => ~th[p].alone)
  PROVE  LoadingInv'
<1>0. Others(p)
  BY OthersStay
<1>1. Doubted /\ Doubted'
  BY LoadingParts DEF Unsettled, Doubted
<1>2. \A q \in Tasks \ {p} : Ensuring(q) => ~th'[p].alone /\ ~th'[q].alone
  <2>1. \A q \in Tasks \ {p} : Ensuring(q) => ~th[p].alone /\ ~th[q].alone
    BY LoadingParts
  <2> HIDE DEF Ensuring
  <2> QED BY <2>1 DEF Kept
<1>3. \A q \in Tasks \ {p} : th'[q].alone => Serves(q)'
  <2>1. ASSUME NEW q \in Tasks \ {p}, th'[q].alone
        PROVE  Serves(q)'
    <3>1. ~Ensuring(q)
      BY <1>2, <2>1
    <3>2. ~Ensuring(q)'
      BY <1>0, <3>1, OthersLoad
    <3> QED BY <3>2 DEF Ensuring, Serves, At
  <2> QED BY <2>1
<1>4. At("job", "restarting")' => \A q \in Tasks : HasLoaded(q)' => ~th'[q].alone
  <2>1. At("job", "restarting") => \A q \in Tasks : HasLoaded(q) => ~th[q].alone
    BY LoadingParts
  <2>2. \A q \in Tasks \ {p} : (th'[q].alone => th[q].alone) /\ HasLoaded(q)' = HasLoaded(q)
                               /\ At(q, "restarting")' = At(q, "restarting")
    BY <1>0, OthersLoad
  <2>3. At("job", "restarting")' => At("job", "restarting")
    BY <2>2, Names DEF At
  <2> HIDE DEF HasLoaded
  <2> QED BY <2>1, <2>2, <2>3
<1>5. \A q \in Tasks : th'[q].alone => Serves(q)'
  <2> HIDE DEF Serves
  <2> QED BY <1>3
<1>6. (Doubted \/ Backed)'
  BY <1>1
<1> HIDE DEF Ensuring, Unsettled, Serves, HasLoaded, Doubted, Backed
<1> QED BY <1>0, <1>1, <1>2, <1>4, <1>5, <1>6, LoadingStep

LEMMA LoadingLoad ==
  ASSUME Sound, LoadingInv, NEW p \in Tasks,
         llmLock(p) \/ EnsureReadyAsync(p) \/ StartServerAsync(p) \/ EnsureLlm_done(p)
  PROVE  LoadingInv'
<1>0. /\ AgentTypeOK /\ LockPart("job") /\ LockPart(p) /\ "job" \in Tasks /\ Nobody \notin Tasks
      /\ th[p].alone => Serves(p)
      /\ At("job", "restarting") /\ HasLoaded(p) => ~th[p].alone
  BY SoundHere, Names, LoadingParts
<1>1. At("job", "restarting") => lock.gate = "job"
  BY <1>0 DEF LockPart, InGate, At
<1>2. CASE llmLock(p)
  <2>1. Ensuring(p) /\ Told(p)
    BY <1>0, <1>2, LlmLockEffect DEF Ensuring, Told, At
  <2>2. Serves(p)' /\ ~HasLoaded(p)'
    BY <1>0, <1>2, LlmLockEffect DEF Serves, HasLoaded, At
  <2>3. th'[p].at = "gate" /\ th'[p].alone = th[p].alone /\ Kept(p)
        /\ UNCHANGED <<host, token, roomCfg, llmReady, rt, doubtful>>
    BY <1>0, <1>2, LlmLockEffect
  <2> QED BY <2>1, <2>2, <2>3, GoesOn
<1>3. CASE EnsureReadyAsync(p)
  <2>0. At(p, "gate") /\ lock.gate = Nobody
    BY <1>3 DEF EnsureReadyAsync
  <2>1. Ensuring(p) /\ Told(p) /\ ~At("job", "restarting")
    BY <1>0, <1>1, <2>0 DEF Ensuring, Told, At
  <2>2. CASE rt.st = "up" /\ rt.model = th[p].cfg.model
    <3>1. th'[p].at = "loaded" /\ th'[p].alone = th[p].alone /\ Kept(p)
          /\ UNCHANGED <<host, token, roomCfg, llmReady, rt, lock, doubtful>>
      BY <1>0, <1>3, <2>2, KeepEffect
    <3>2. th'[p].alone => Serves(p)'
      BY <1>0, <2>0, <2>2, <3>1 DEF Serves, At, Backs
    <3> QED BY <2>1, <3>1, <3>2, GoesOn
  <2>3. CASE ~(rt.st = "up" /\ rt.model = th[p].cfg.model)
    <3>1. th'[p].at = "loading" /\ th'[p].cfg = th[p].cfg /\ th'[p].alone = th[p].alone /\ Kept(p)
          /\ UNCHANGED <<host, token, roomCfg, llmReady, doubtful>>
      BY <1>0, <1>3, <2>3, StopEffect
    <3>2. th'[p].alone => Serves(p)'
      BY <1>0, <2>0, <3>1 DEF Serves, At
    <3> QED BY <2>1, <3>1, <3>2, GoesOn
  <2> QED BY <2>2, <2>3
<1>4. CASE StartServerAsync(p)
  <2>1. /\ At(p, "loading") /\ th'[p].at = "loaded" /\ th'[p].next = "idle"
        /\ th'[p].alone = th[p].alone /\ Kept(p)
        /\ th'[p].ok => rt' = [st |-> "up", model |-> th[p].cfg.model, gen |-> th[p].cfg.gen]
        /\ UNCHANGED <<host, token, roomCfg, llmReady, doubtful>>
    BY <1>0, <1>4, StartEffect
  <2>2. Ensuring(p) /\ Told(p) /\ ~At("job", "restarting")
    BY <1>0, <1>1, <2>1 DEF Ensuring, Told, At, LockPart, InGate
  <2>3. th'[p].ok => rt'.st = "up" /\ rt'.model = th[p].cfg.model
    BY <2>1
  <2>4. th'[p].alone => Serves(p)'
    BY <1>0, <2>1, <2>3 DEF Serves, At, Backs
  <2> QED BY <2>1, <2>2, <2>4, GoesOn
<1>5. CASE EnsureLlm_done(p)
  <2>1. /\ At(p, "loaded") /\ Reports(p, "over", roomCfg, th[p].ok)
        /\ th'[p].alone = th[p].alone /\ Kept(p)
        /\ UNCHANGED <<host, token, roomCfg, rt, doubtful>>
    BY <1>0, <1>5, LoadedEffect
  <2>2. Ensuring(p) /\ Told(p) /\ HasLoaded(p)
    BY <2>1 DEF Ensuring, Told, At, HasLoaded
  <2>3. th'[p].alone => Serves(p)'
    BY <1>0, <2>1 DEF Serves, At, Reports, Backs
  <2>4. th'[p].at = "report" /\ th'[p].next = "over"
    BY <2>1 DEF Reports
  <2> QED BY <1>0, <2>1, <2>2, <2>3, <2>4, GoesOn
<1> QED BY <1>2, <1>3, <1>4, <1>5

(* p takes from the others what they count on.                             *)
LEMMA Disturbs ==
  ASSUME LoadingInv, NEW p \in Tasks, Shaken(p),
         Ensuring(p)' => (th'[p].alone => \A q \in Tasks \ {p} : ~Ensuring(q)),
         (\E q \in Tasks \ {p} : Unsettled(q)) \/ Unsettled(p)' => Doubted',
         th'[p].alone => Serves(p)', ~HasLoaded(p)',
         th'[p].at = "report" /\ th'[p].next # "over" => ~th'[p].ok,
         (Doubted \/ Backed)'
  PROVE  LoadingInv'
<1>0. Others(p)
  BY OthersStay
<1>1. \A q \in Tasks \ {p} : th'[q].alone => ~Ensuring(q)'
  <2>1. \A q \in Tasks \ {p} : th'[q].alone => ~Ensuring(q)
    <3> HIDE DEF Ensuring
    <3> QED BY DEF Shaken
  <2>2. \A q \in Tasks \ {p} : Ensuring(q)' = Ensuring(q)
    BY <1>0, OthersLoad
  <2> HIDE DEF Ensuring
  <2> QED BY <2>1, <2>2
<1>2. \A q \in Tasks \ {p} : th'[q].alone => Serves(q)' /\ ~HasLoaded(q)'
  <2>1. ASSUME NEW q \in Tasks \ {p}, ~Ensuring(q)'
        PROVE  Serves(q)' /\ ~HasLoaded(q)'
    BY <2>1 DEF Ensuring, Serves, HasLoaded, At
  <2> HIDE DEF Ensuring, Serves, HasLoaded
  <2> QED BY <1>1, <2>1
<1>3. Ensuring(p)' => \A q \in Tasks \ {p} : Ensuring(q) => ~th'[p].alone /\ ~th'[q].alone
  <2>1. \A q \in Tasks \ {p} : Ensuring(q)' = Ensuring(q)
    BY <1>0, OthersLoad
  <2> HIDE DEF Ensuring
  <2> QED BY <1>1, <2>1
<1>4. \A q \in Tasks : th'[q].alone => Serves(q)'
  <2> HIDE DEF Serves
  <2> QED BY <1>2
<1>5. \A q \in Tasks : HasLoaded(q)' => ~th'[q].alone
  <2> HIDE DEF HasLoaded
  <2> QED BY <1>2
<1> HIDE DEF Ensuring, Unsettled, Serves, HasLoaded, Doubted, Backed
<1> QED BY <1>0, <1>3, <1>4, <1>5, LoadingStep

LEMMA LoadingDisturb ==
  ASSUME Sound, LoadingInv, NEW p \in Tasks, EnsureLlmAsync(p) \/ ApplyRoomConfigAsync(p)
  PROVE  LoadingInv'
<1>0. AgentTypeOK /\ (\A q \in Tasks : Unsettled(q) => Doubted) /\ (Doubted \/ Backed)
  BY LoadingParts DEF Sound
<1>1. CASE EnsureLlmAsync(p)
  <2>1. /\ Reports(p, "llm", roomCfg, FALSE) /\ Shaken(p)
        /\ th'[p].alone = \A q \in Tasks \ {p} : ~Ensuring(q)
        /\ UNCHANGED <<host, token, roomCfg, rt, lock, doubtful>>
    BY <1>0, <1>1, EnsureEffect
  <2>2. ~Unsettled(p)' /\ Serves(p)' /\ ~HasLoaded(p)' /\ ~th'[p].ok
    BY <2>1 DEF Reports, Unsettled, Told, Serves, HasLoaded, At
  <2>3. Doubted' = Doubted /\ (Doubted \/ Backed)'
    BY <1>0, <2>1 DEF Doubted, Backed, Backs
  <2> HIDE DEF Unsettled, Serves, HasLoaded, Doubted, Ensuring, Backed
  <2> QED BY <1>0, <2>1, <2>2, <2>3, Disturbs
<1>2. CASE ApplyRoomConfigAsync(p)
  <2>0. UNCHANGED <<host, rt, lock, doubtful>>
    BY <1>0, <1>2, ApplyEffect
  <2>1. CASE Reports(p, "match", th[p].cfg, FALSE) /\ Shaken(p)
    <3>1. ~Unsettled(p)' /\ Serves(p)' /\ ~HasLoaded(p)' /\ ~th'[p].ok /\ ~Ensuring(p)'
      BY <2>1 DEF Reports, Unsettled, Told, Ensuring, Serves, HasLoaded, At
    <3>2. Doubted' = Doubted /\ (Doubted \/ Backed)'
      BY <1>0, <2>0 DEF Doubted, Backed, Backs
    <3> HIDE DEF Unsettled, Serves, HasLoaded, Doubted, Ensuring, Backed
    <3> QED BY <1>0, <2>0, <2>1, <3>1, <3>2, Disturbs
  <2>2. CASE /\ roomCfg = th[p].cfg /\ roomCfg' = th[p].cfg
             /\ Comes(p, "match", th[p].back, th[p].cfg, NoToken, FALSE) /\ Kept(p)
    BY <2>0, <2>2, Aside DEF Comes
  <2> QED BY <1>0, <1>2, <2>1, <2>2, ApplyEffect
<1> QED BY <1>1, <1>2

LEMMA LoadingSession ==
  ASSUME Sound, LoadingInv, NEW p \in Tasks,
         handle_refusal(p) \/ RejoinAsync(p) \/ RejoinAsync_clear(p) \/ JoinAsync(p)
           \/ ApplyRoomConfigAsync_match(p) \/ session_loop(p)
  PROVE  LoadingInv'
<1>0. /\ AgentTypeOK
      /\ th[p].back \in {"idle", "loop", "answer", "generating"}
  BY TaskTyped DEF Sound
<1>1. CASE handle_refusal(p)
  BY <1>0, <1>1, HandleEffect, Aside DEF Comes
<1>2. CASE RejoinAsync(p)
  <2>1. /\ UNCHANGED <<host, roomCfg, rt, doubtful>> /\ Kept(p)
    BY <1>0, <1>2, RejoinEffect DEF Fresh
  <2>2. th'[p].at \in {"clear", th[p].back}
    BY <1>0, <1>2, RejoinEffect DEF Fresh, Comes
  <2> QED BY <1>0, <2>1, <2>2, Aside
<1>3. CASE RejoinAsync_clear(p)
  <2>1. Goes(p, "join") /\ UNCHANGED <<host, roomCfg, rt, doubtful>>
    BY <1>0, <1>3, GoEffect DEF RejoinAsync_clear, Places
  <2> QED BY <2>1, Aside DEF Goes, Plain
<1>4. CASE JoinAsync(p)
  <2>1. /\ UNCHANGED <<roomCfg, rt>> /\ Kept(p) /\ th'[p].at \in {"joined", "idle", th[p].back}
        /\ UNCHANGED <<host, doubtful>> \/ ~host'.ready
    BY <1>0, <1>4, JoinEffect DEF Comes, Ended, Plain
  <2> QED BY <1>0, <2>1, Aside
<1>5. CASE ApplyRoomConfigAsync_match(p)
  <2>0. UNCHANGED <<host, roomCfg, rt, doubtful>>
    BY <1>5 DEF ApplyRoomConfigAsync_match
  <2>1. CASE End(p)
    <3>1. Ended(p)
      BY <1>0, <2>1, EndEffect
    <3> QED BY <1>0, <2>0, <3>1, Aside DEF Ended, Plain
  <2>2. CASE Go(p, "ensure")
    <3>1. Goes(p, "ensure")
      BY <1>0, <2>2, GoEffect DEF Places
    <3> QED BY <2>0, <3>1, Aside DEF Goes, Plain
  <2> QED BY <1>5, <2>1, <2>2 DEF ApplyRoomConfigAsync_match
<1>6. CASE session_loop(p)
  BY <1>0, <1>6, SessionEffect, Aside DEF Fresh, Comes
<1> QED BY <1>1, <1>2, <1>3, <1>4, <1>5, <1>6

(* The host believes a report of the pins of now only: what it shows then  *)
(* is backed by the runtime, if the task that loaded was alone with it.    *)
LEMMA LoadingReport ==
  ASSUME Sound, LoadingInv, NEW p \in Tasks, nodes_ready(p)
  PROVE  LoadingInv'
<1>0. /\ AgentTypeOK /\ PlacePart(p)
      /\ th[p].back \in {"idle", "loop", "answer", "generating"}
      /\ th[p].next \in {"idle", "loop", "answer", "match", "llm", "over"}
      /\ th[p].ok \in BOOLEAN
  BY TaskTyped, SoundHere DEF Sound
<1>1. /\ At(p, "report") /\ UNCHANGED <<token, roomCfg, llmReady, rt>> /\ Kept(p)
      /\ \/ th'[p].at = "llm" /\ th[p].next = "llm" /\ th'[p].alone = th[p].alone
         \/ th'[p].at \in {"idle", "loop", "answer", "generating", "match"}
  BY <1>0, ReportDone DEF Ended, Goes, Comes, Plain
<1>2. Others(p) /\ \A q \in Tasks \ {p} : th'[q] = th[q]
  BY <1>1, OthersStay DEF Kept
<1>3. /\ host'.model = host.model /\ host'.sel = host.sel
      /\ \/ /\ host'.ready = (th[p].ok /\ th[p].cfg = Config)
            /\ doubtful' = (th[p].ok /\ th[p].cfg = Config /\ ~th[p].alone)
         \/ host'.ready = host.ready /\ doubtful' = (doubtful \/ (host.ready /\ ~th[p].ok))
  BY <1>0, HostHears
<1>4. th[p].ok => th[p].next = "over"
  BY <1>1, LoadingParts DEF At
<1>5. (HasLoaded(p) /\ Ensuring(p)) \/ ~th[p].ok
  BY <1>1, <1>4 DEF HasLoaded, Ensuring, At
<1>6. ASSUME host'.ready, ~doubtful'
      PROVE  /\ Backed
             /\ \A q \in Tasks \ {p} : ~Unsettled(q)
             /\ th'[p].at # "llm"
  <2>1. CASE th[p].ok /\ th[p].cfg = Config /\ th[p].alone
    <3>1. Backed
      BY <1>0, <1>1, <1>4, <2>1, LoadingParts, HostTyped DEF Serves, At, Backed
    <3>2. \A q \in Tasks \ {p} : ~Ensuring(q)
      <4> HIDE DEF Ensuring
      <4> QED BY <1>5, <2>1, LoadingParts
    <3>3. ~At("job", "restarting")
      <4> HIDE DEF HasLoaded
      <4> QED BY <1>5, <2>1, LoadingParts
    <3>4. \A q \in Tasks : At(q, "restarting") => q = "job"
      BY SoundHere DEF PlacePart, JobPlaces, At
    <3> QED BY <1>1, <1>4, <2>1, <3>1, <3>2, <3>3, <3>4 DEF Unsettled, Told, At
  <2>2. CASE host.ready /\ ~doubtful /\ th[p].ok
    <3>1. ~Doubted
      BY <2>2 DEF Doubted
    <3>2. Backed /\ \A q \in Tasks \ {p} : ~Unsettled(q)
      <4> HIDE DEF Unsettled, Doubted, Backed
      <4> QED BY <3>1, LoadingParts
    <3> QED BY <1>1, <1>4, <2>2, <3>2
  <2> QED BY <1>3, <1>6, <2>1, <2>2
<1>7. ~Unsettled(p)' \/ th'[p].at = "llm"
  BY <1>1 DEF Unsettled, Told, Ensuring, At
<1>8. (\E q \in Tasks \ {p} : Unsettled(q)) \/ Unsettled(p)' => Doubted'
  <2> HIDE DEF Unsettled
  <2> QED BY <1>6, <1>7 DEF Doubted
<1>9. (Doubted \/ Backed)'
  BY <1>1, <1>3, <1>6 DEF Doubted, Backed, Backs
<1>10. Ensuring(p)' => \A q \in Tasks \ {p} : Ensuring(q) => ~th'[p].alone /\ ~th'[q].alone
  <2>1. Ensuring(p)' => Ensuring(p) /\ th'[p].alone = th[p].alone
    BY <1>1 DEF Ensuring, At
  <2>2. Ensuring(p) => \A q \in Tasks \ {p} : Ensuring(q) => ~th[p].alone /\ ~th[q].alone
    BY LoadingParts
  <2> HIDE DEF Ensuring
  <2> QED BY <1>2, <2>1, <2>2
<1>11. Serves(p)' /\ ~HasLoaded(p)' /\ th'[p].at # "report" /\ th'[p].at # "restarting"
  BY <1>1 DEF Serves, HasLoaded, At
<1>12. \A q \in Tasks : th'[q].alone => Serves(q)'
  <2>1. \A q \in Tasks \ {p} : th[q].alone => Serves(q)
    BY LoadingParts
  <2>2. \A q \in Tasks \ {p} : Serves(q)' = Serves(q)
    BY <1>1, <1>2, OthersLoad
  <2> HIDE DEF Serves
  <2> QED BY <1>2, <1>11, <2>1, <2>2
<1>13. At("job", "restarting")' => \A q \in Tasks : HasLoaded(q)' => ~th'[q].alone
  <2>1. At("job", "restarting") => \A q \in Tasks : HasLoaded(q) => ~th[q].alone
    BY LoadingParts
  <2>2. \A q \in Tasks \ {p} : HasLoaded(q)' = HasLoaded(q)
                               /\ At(q, "restarting")' = At(q, "restarting")
    BY <1>2, OthersLoad
  <2>3. At("job", "restarting")' => At("job", "restarting")
    BY <1>11, <2>2, Names DEF At
  <2> HIDE DEF HasLoaded
  <2> QED BY <1>2, <1>11, <2>1, <2>2, <2>3
<1> HIDE DEF Ensuring, Unsettled, Serves, HasLoaded, Doubted, Backed
<1> QED BY <1>2, <1>8, <1>9, <1>10, <1>11, <1>12, <1>13, LoadingStep

LEMMA LoadingRestart ==
  ASSUME Sound, LoadingInv, RestartAsync \/ RestartAsync_done
  PROVE  LoadingInv'
<1>0. AgentTypeOK /\ "job" \in Tasks
  BY Names DEF Sound
<1>1. CASE RestartAsync
  <2>1. /\ Comes("job", "restarting", th["job"].back, roomCfg, NoToken, FALSE) /\ Shaken("job")
        /\ doubtful' = host.ready /\ host' = host
    BY <1>0, <1>1, RestartEffect
  <2>2. ~Ensuring("job")' /\ Serves("job")' /\ ~HasLoaded("job")' /\ th'["job"].at # "report"
    BY <2>1 DEF Comes, Ensuring, Serves, HasLoaded, At
  <2>3. Doubted'
    BY <2>1 DEF Doubted
  <2> HIDE DEF Ensuring, Unsettled, Serves, HasLoaded, Doubted, Backed
  <2> QED BY <1>0, <2>1, <2>2, <2>3, Disturbs
<1>2. CASE RestartAsync_done
  <2>1. /\ At("job", "restarting") /\ Goes("job", "answer")
        /\ UNCHANGED <<host, token, roomCfg, doubtful>>
    BY <1>2, RestartDoneEffect
  <2>2. Others("job") /\ \A q \in Tasks \ {"job"} : th'[q] = th[q]
    BY <1>0, <2>1, OthersStay DEF Goes, Kept
  <2>3. Unsettled("job")
    BY <2>1 DEF Unsettled
  <2>4. Doubted /\ \A q \in Tasks : HasLoaded(q) => ~th[q].alone
    <3> HIDE DEF Unsettled, Doubted, HasLoaded
    <3> QED BY <1>0, <2>1, <2>3, LoadingParts
  <2>5. Doubted'
    BY <2>1, <2>4 DEF Doubted
  <2>6. ~Ensuring("job")' /\ Serves("job")' /\ ~At("job", "restarting")'
        /\ th'["job"].at # "report"
    BY <2>1 DEF Goes, Plain, Ensuring, Serves, At
  <2>7. \A q \in Tasks \ {"job"} : th'[q].alone => Serves(q)'
    <3>1. ASSUME NEW q \in Tasks \ {"job"}, th'[q].alone
          PROVE  Serves(q)'
      <4>1. ~HasLoaded(q) /\ Serves(q) /\ th'[q] = th[q] /\ roomCfg' = roomCfg
        BY <2>1, <2>2, <2>4, <3>1, LoadingParts
      <4> QED BY <4>1 DEF Serves, HasLoaded, At
    <3> QED BY <3>1
  <2>8. \A q \in Tasks : th'[q].alone => Serves(q)'
    <3> HIDE DEF Serves
    <3> QED BY <2>6, <2>7
  <2>9. (Doubted \/ Backed)'
    BY <2>5
  <2> HIDE DEF Ensuring, Unsettled, Serves, HasLoaded, Doubted, Backed
  <2> QED BY <1>0, <2>2, <2>5, <2>6, <2>8, <2>9, LoadingStep
<1> QED BY <1>1, <1>2

LEMMA LoadingRest ==
  ASSUME Sound, LoadingInv,
         \/ ReportRuntimeDeathAsync \/ SwitchModelIfNeededAsync \/ model_switch \/ LeaveAsync
         \/ ChatStep
         \/ HostStep \/ llama_server_dies
  PROVE  LoadingInv'
<1>0. AgentTypeOK /\ {"telemetry", "job", "switch"} \subseteq Tasks
  BY Names DEF Sound
<1>1. CASE ReportRuntimeDeathAsync
  BY <1>0, <1>1, DeathEffect, Aside DEF Reports
<1>2. CASE SwitchModelIfNeededAsync
  BY <1>0, <1>2, SwitchEffect, Aside DEF Fresh, Comes
<1>3. CASE model_switch
  BY <1>0, <1>3, SwitchGoes, Aside DEF Goes, Plain
<1>4. CASE LeaveAsync
  BY <1>0, <1>4, LeaveEffect, Aside DEF Goes, Plain
<1>5. CASE ChatStep
  BY <1>0, <1>5, Aside DEF ChatStep
<1>6. CASE HostStep
  <2>1. /\ \/ ~host'.ready
           \/ host'.sel # "none" /\ host'.ready = host.ready /\ doubtful' = doubtful
        /\ UNCHANGED <<roomCfg, rt, th>>
    BY <1>0, <1>6, OutsideEffect
  <2> QED BY <2>1 DEF LoadingInv, Told, Ensuring, At, Backs, ReadyIsBacked
<1>7. CASE llama_server_dies
  <2>1. rt'.st = "dead" /\ UNCHANGED <<host, roomCfg, th, doubtful>>
    BY <1>7 DEF llama_server_dies, Stopped
  <2> QED BY <2>1 DEF LoadingInv, Told, Ensuring, At, Backs, ReadyIsBacked
<1> QED BY <1>1, <1>2, <1>3, <1>4, <1>5, <1>6, <1>7

LEMMA LoadingNext ==
  ASSUME Sound, LoadingInv, [AgentNext]_agentVars
  PROVE  LoadingInv'
<1>1. CASE UNCHANGED agentVars
  BY <1>1 DEF agentVars, LoadingInv, Told, Ensuring, At, Backs, ReadyIsBacked
<1>2. CASE AgentNext
  <2> HIDE DEF LoadingInv
  <2> QED BY <1>2, StepsOf, LoadingLoad, LoadingReport, LoadingDisturb, LoadingSession,
          LoadingRestart, LoadingRest
<1> QED BY <1>1, <1>2

LEMMA LoadingInit == AgentInit => LoadingInv
<1> SUFFICES ASSUME AgentInit
             PROVE  LoadingInv
  OBVIOUS
<1>1. ~host.ready
  BY DEF AgentInit
<1>2. \A p \in Tasks : th[p].at \in {"ensure", "idle", "loop"}
  <2>1. ASSUME NEW p \in Tasks
        PROVE  th[p].at \in {"ensure", "idle", "loop"}
    <3>1. PICK l \in {"ensure", "idle", "loop"} : th[p] = Task(l)
      BY DEF AgentInit
    <3>2. Plain(Task(l), l, "idle")
      BY TaskFields
    <3> QED BY <3>1, <3>2 DEF Plain
  <2> QED BY <2>1
<1> QED BY <1>1, <1>2, Names DEF LoadingInv, Told, Ensuring, At, ReadyIsBacked

(* While the host shows the worker as ready, its runtime is the selected   *)
(* model's, or has died by itself: the report before every loading keeps   *)
(* the host from sending chats to the old runtime (Program.cs:416).  It    *)
(* does not when that report is lost, when two tasks load at once, or      *)
(* after a restart for a timeout, which is not reported.                   *)
THEOREM BackedHolds == AgentSpec => []ReadyIsBacked
<1>1. AgentInit => Sound /\ LoadingInv
  BY SoundInit, LoadingInit
<1>2. Sound /\ LoadingInv /\ [AgentNext]_agentVars => (Sound /\ LoadingInv)'
  BY SoundNext, LoadingNext
<1>3. LoadingInv => ReadyIsBacked
  BY DEF LoadingInv
<1> QED BY <1>1, <1>2, <1>3, PTL DEF AgentSpec
=============================================================================

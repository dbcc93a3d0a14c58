---------------------------- MODULE TunnelProofs ----------------------------
(***************************************************************************)
(* The safety properties of Tunnel, proved for any number of threads that  *)
(* call, of supervisors and of processes.                                  *)
(***************************************************************************)
EXTENDS Tunnel, TLAPS

-----------------------------------------------------------------------------
(* Types.                                                                  *)

LEMMA NumbersTyped ==
  /\ MaxProcs \in Nat /\ NoProc \in 0 .. MaxProcs /\ NoUrl \in 0 .. HostName
  /\ HostName \in 0 .. HostName /\ \A p \in Procs : p \in 0 .. HostName
  BY TunnelAssumption DEF NoProc, NoUrl, HostName, Procs

LEMMA IdleTyped ==
  Idle \in ThreadRec /\ Idle.at = "idle" /\ Idle.mode = "none" /\ Idle.proc = NoProc
  BY NumbersTyped DEF Idle, ThreadRec, Places, NoProc

LEMMA ThreadTyped ==
  ASSUME TunnelTypeOK, NEW t \in Threads
  PROVE  /\ th[t] \in ThreadRec /\ th[t].at \in Places
         /\ th[t].mode \in {"none", "quick", "named"} /\ th[t].proc \in 0 .. MaxProcs
  BY DEF TunnelTypeOK, ThreadRec

LEMMA ManagerTyped ==
  TunnelTypeOK =>
    /\ m \in ManagerRec /\ m.mode \in {"none", "quick", "named"}
    /\ m.proc \in 0 .. MaxProcs /\ m.thread \in Supervisors \cup {NoThread}
  BY DEF TunnelTypeOK, ManagerRec

(* A thread moves on, the others stay where they are. *)
Others(t) == \A x \in Threads \ {t} : th'[x] = th[x]

LEMMA GoEffect ==
  ASSUME TunnelTypeOK, NEW t \in Threads, NEW place \in Places, Go(t, place)
  PROVE  /\ th' \in [Threads -> ThreadRec] /\ Others(t) /\ th'[t].at = place
<1> DEFINE n == [Idle EXCEPT !.at = place, !.mode =
                   IF place \in KeepMode THEN th[t].mode ELSE "none"]
<1>1. th' = [th EXCEPT ![t] = n]
  BY DEF Go
<1>2. n \in ThreadRec /\ n.at = place
  BY IdleTyped, ThreadTyped DEF ThreadRec
<1> HIDE DEF n
<1> QED BY <1>1, <1>2 DEF TunnelTypeOK, Others

LEMMA GoWithModeEffect ==
  ASSUME TunnelTypeOK, NEW t \in Threads, NEW place \in Places,
         NEW md \in {"none", "quick", "named"}, GoWithMode(t, place, md)
  PROVE  /\ th' \in [Threads -> ThreadRec] /\ Others(t) /\ th'[t].at = place
<1> DEFINE n == [Idle EXCEPT !.at = place, !.mode = md]
<1>1. th' = [th EXCEPT ![t] = n]
  BY DEF GoWithMode
<1>2. n \in ThreadRec /\ n.at = place
  BY IdleTyped DEF ThreadRec
<1> HIDE DEF n
<1> QED BY <1>1, <1>2 DEF TunnelTypeOK, Others

-----------------------------------------------------------------------------
(* Where a step of one thread takes it; the others stay where they are.    *)
Moves(t, from, to) ==
    /\ th' \in [Threads -> ThreadRec] /\ Others(t)
    /\ th[t].at \in from /\ th'[t].at \in to

LEMMA Named ==
  /\ {"idle", "enable", "start", "adopt", "adopted", "watched", "create", "launch",
      "host", "report", "await", "failed", "off", "disable",
      "new", "loop", "poll", "backoff", "ending"} = Places
  /\ Callers \subseteq Threads /\ Supervisors \subseteq Threads
  /\ Callers \cap Supervisors = {} /\ Modes \subseteq {"none", "quick", "named"}
  BY TunnelAssumption DEF Places, Threads

LEMMA EnableMoves ==
  ASSUME TunnelTypeOK, NEW c \in Callers, NEW md \in Modes, enable(c, md)
  PROVE  Moves(c, {"idle"}, {"enable"}) /\ UNCHANGED <<m, running, spawned, reader>>
  BY GoWithModeEffect, Named DEF enable, Moves, procVars

LEMMA EnableBeginMoves ==
  ASSUME TunnelTypeOK, NEW c \in Callers, enable_begin(c)
  PROVE  /\ Moves(c, {"enable"}, {"idle", "start"})
         /\ \/ m' = m
            \/ /\ m' = [m EXCEPT !.starting = TRUE, !.enabled = TRUE, !.mode = th[c].mode,
                                 !.url = NoUrl, !.active = TRUE, !.ready = FALSE,
                                 !.stop = FALSE]
               /\ th'[c].at = "start"
         /\ UNCHANGED <<running, spawned, reader>>
<1>1. /\ th[c].at = "enable" /\ UNCHANGED <<running, spawned, reader>>
      /\ \/ Go(c, "idle") /\ m' = m
         \/ /\ m' = [m EXCEPT !.starting = TRUE, !.enabled = TRUE, !.mode = th[c].mode,
                              !.url = NoUrl, !.active = TRUE, !.ready = FALSE,
                              !.stop = FALSE]
            /\ GoWithMode(c, "start", th[c].mode)
  BY DEF enable_begin, procVars
<1>2. c \in Threads /\ th[c].mode \in {"none", "quick", "named"}
  BY ThreadTyped, Named
<1> QED BY <1>1, <1>2, GoEffect, GoWithModeEffect, Named DEF Moves

LEMMA SpawnMoves ==
  ASSUME TunnelTypeOK, NEW t \in Threads, spawn(t)
  PROVE  /\ Moves(t, {"start"}, {"adopt"}) /\ UNCHANGED <<m, reader>>
         /\ spawned' = spawned + 1 /\ spawned' \in 0 .. MaxProcs
         /\ running' = running \cup {spawned + 1}
<1> DEFINE n == [th[t] EXCEPT !.at = "adopt", !.proc = spawned + 1]
<1>1. /\ th[t].at = "start" /\ spawned < MaxProcs /\ spawned' = spawned + 1
      /\ running' = running \cup {spawned + 1} /\ UNCHANGED <<m, reader>>
      /\ th' = [th EXCEPT ![t] = n]
  BY DEF spawn
<1>2. spawned + 1 \in 0 .. MaxProcs
  BY <1>1, NumbersTyped DEF TunnelTypeOK
<1>3. n \in ThreadRec /\ n.at = "adopt"
  BY <1>2, ThreadTyped DEF ThreadRec, Places
<1> HIDE DEF n
<1> QED BY <1>1, <1>2, <1>3 DEF TunnelTypeOK, Moves, Others

LEMMA SpawnFailsMoves ==
  ASSUME TunnelTypeOK, NEW t \in Threads, spawn_fails(t)
  PROVE  /\ Moves(t, {"start"}, {"loop", "idle"}) /\ UNCHANGED <<running, spawned, reader>>
         /\ m' = IF t \in Supervisors
                   THEN m
                   ELSE [m EXCEPT !.enabled = FALSE, !.proc = NoProc, !.starting = FALSE,
                                  !.active = FALSE]
  BY GoEffect, Named DEF spawn_fails, Moves, procVars

LEMMA ProfileMoves ==
  ASSUME TunnelTypeOK, NEW t \in Threads, _quick_profile_fails(t)
  PROVE  Moves(t, {"start"}, {"idle"}) /\ UNCHANGED <<m, running, spawned, reader>>
  BY GoEffect, Named DEF _quick_profile_fails, Moves, procVars

LEMMA AdoptMoves ==
  ASSUME TunnelTypeOK, NEW t \in Threads, adopt(t)
  PROVE  /\ t \in Callers => Moves(t, {"adopt"}, {"adopted"})
         /\ Moves(t, {"adopt"}, {"adopted", "host", "await"})
         /\ m' = [m EXCEPT !.proc = th[t].proc] /\ UNCHANGED <<running, spawned>>
         /\ reader' \in [Procs -> {"none", "reading", "report"}]
<1>1. /\ th[t].at = "adopt" /\ m' = [m EXCEPT !.proc = th[t].proc]
      /\ UNCHANGED <<running, spawned>>
      /\ t \in Callers => Go(t, "adopted")
      /\ Go(t, "adopted") \/ Go(t, "host") \/ Go(t, "await")
  <2>1. CASE t \in Callers
    BY <2>1, Named DEF adopt
  <2>2. CASE t \in Supervisors /\ t \notin Callers
    BY <2>2 DEF adopt
  <2> QED BY <2>1, <2>2 DEF Threads
<1>2. reader' \in [Procs -> {"none", "reading", "report"}]
  BY DEF adopt, TunnelTypeOK
<1> QED BY <1>1, <1>2, GoEffect, Named DEF Moves

LEMMA WatchMoves ==
  ASSUME TunnelTypeOK, NEW c \in Callers
  PROVE  /\ enable_started(c) => /\ Moves(c, {"adopted"}, {"watched"})
                                 /\ m' = [m EXCEPT !.starting = FALSE]
                                 /\ UNCHANGED <<running, spawned, reader>>
         /\ enable_look(c) => /\ Moves(c, {"watched"}, {"host", "await", "create"})
                              /\ UNCHANGED <<m, running, spawned, reader>>
<1>0. c \in Threads /\ {"watched", "host", "await", "create"} \subseteq Places
  BY Named
<1>1. enable_started(c) => /\ Moves(c, {"adopted"}, {"watched"})
                           /\ m' = [m EXCEPT !.starting = FALSE]
                           /\ UNCHANGED <<running, spawned, reader>>
  BY <1>0, GoEffect DEF enable_started, Moves, procVars
<1>2. ASSUME enable_look(c)
      PROVE  Moves(c, {"watched"}, {"host", "await", "create"})
  <2>1. PICK place \in {"host", "await", "create"} : Go(c, place)
    BY <1>2 DEF enable_look, AfterStart
  <2> QED BY <1>0, <1>2, <2>1, GoEffect DEF enable_look, Moves
<1> QED BY <1>1, <1>2 DEF enable_look, procVars

(* Two entries change: the caller's and that of the thread it makes or     *)
(* starts, which did not run.                                              *)
LEMMA TwoChange ==
  ASSUME TunnelTypeOK, NEW c \in Callers, NEW s \in Supervisors,
         NEW mine \in ThreadRec, NEW its \in ThreadRec,
         th' = [th EXCEPT ![c] = mine, ![s] = its]
  PROVE  /\ th' \in [Threads -> ThreadRec] /\ th'[c] = mine /\ th'[s] = its
         /\ \A t \in Threads \ {c} : th'[t] = th[t] \/ t = s
<1>1. c \in Threads /\ s \in Threads /\ s # c
  BY Named
<1> QED BY <1>1 DEF TunnelTypeOK

(* What making and starting a thread has in common. *)
Watching(c) ==
    /\ th' \in [Threads -> ThreadRec]
    /\ th[c].at \in {"create", "launch"} /\ th'[c].at \in {"launch", "host", "await", "idle"}
    /\ \A t \in Threads \ {c} :
          \/ th'[t] = th[t]
          \/ t \in Supervisors /\ th[t].at \in {"idle", "new"} /\ th'[t].at \in {"new", "loop"}
    /\ m' = m \/ \E s \in Supervisors : m' = [m EXCEPT !.thread = s]
    /\ UNCHANGED <<running, spawned, reader>>

LEMMA NewThreadMoves ==
  ASSUME TunnelTypeOK, NEW c \in Callers, enable_new_thread(c)
  PROVE  Watching(c)
<1>1. PICK s \in IF Unstarted(m.thread) THEN {m.thread}
                                       ELSE {x \in Supervisors : th[x].at = "idle"} :
         /\ m' = [m EXCEPT !.thread = s]
         /\ th' = [th EXCEPT ![c].at = "launch", ![s] = [Idle EXCEPT !.at = "new"]]
  BY DEF enable_new_thread
<1>2. s \in Supervisors /\ th[s].at \in {"idle", "new"}
  BY <1>1, ManagerTyped DEF Unstarted
<1>3. th[c] \in ThreadRec /\ c \in Threads
  BY ThreadTyped, Named
<1> DEFINE mine == [th[c] EXCEPT !.at = "launch"]
           its == [Idle EXCEPT !.at = "new"]
<1>4. mine \in ThreadRec /\ mine.at = "launch"
  BY <1>3 DEF ThreadRec, Places
<1>5. its \in ThreadRec /\ its.at = "new"
  BY IdleTyped DEF ThreadRec, Places
<1>6. th' = [th EXCEPT ![c] = mine, ![s] = its]
  BY <1>1
<1>7. th[c].at = "create" /\ UNCHANGED <<running, spawned, reader>>
  BY DEF enable_new_thread, procVars
<1> HIDE DEF mine, its
<1>8. /\ th' \in [Threads -> ThreadRec] /\ th'[c] = mine /\ th'[s] = its
      /\ \A t \in Threads \ {c} : th'[t] = th[t] \/ t = s
  BY <1>2, <1>4, <1>5, <1>6, TwoChange
<1>9. \A t \in Threads \ {c} :
        \/ th'[t] = th[t]
        \/ t \in Supervisors /\ th[t].at \in {"idle", "new"} /\ th'[t].at \in {"new", "loop"}
  BY <1>2, <1>5, <1>8
<1> QED BY <1>1, <1>2, <1>4, <1>7, <1>8, <1>9 DEF Watching

LEMMA SuperviseMoves ==
  ASSUME TunnelTypeOK, NEW c \in Callers, enable_supervise(c)
  PROVE  Watching(c)
<1>1. th[c].at = "launch" /\ UNCHANGED <<m, running, spawned, reader>> /\ c \in Threads
  BY Named DEF enable_supervise, procVars
<1>2. CASE ~Unstarted(m.thread)
  <2>1. Go(c, "idle") /\ "idle" \in Places
    BY <1>2, Named DEF enable_supervise
  <2> QED BY <1>1, <2>1, GoEffect DEF Watching, Others
<1>3. CASE Unstarted(m.thread)
  <2>1. PICK s \in Supervisors : s = m.thread /\ th[s].at = "new"
    BY <1>3, ManagerTyped DEF Unstarted
  <2> DEFINE mine == [Idle EXCEPT !.at = AfterStart(c)]
             its == [th[s] EXCEPT !.at = "loop"]
  <2>2. mine \in ThreadRec /\ mine.at \in {"host", "await"}
    BY IdleTyped DEF ThreadRec, Places, AfterStart
  <2>3. its \in ThreadRec /\ its.at = "loop"
    <3>1. th[s] \in ThreadRec
      BY ThreadTyped, Named
    <3> QED BY <3>1 DEF ThreadRec, Places
  <2>4. th' = [th EXCEPT ![c] = mine, ![s] = its]
    <3>1. th' = [th EXCEPT ![c] = [Idle EXCEPT !.at = AfterStart(c)], ![s].at = "loop"]
      BY <1>3, <2>1 DEF enable_supervise
    <3>2. c # s
      BY Named
    <3> QED BY <3>1, <3>2
  <2> HIDE DEF mine, its
  <2>5. /\ th' \in [Threads -> ThreadRec] /\ th'[c] = mine /\ th'[s] = its
        /\ \A t \in Threads \ {c} : th'[t] = th[t] \/ t = s
    <3>1. PICK i \in ThreadRec, j \in ThreadRec : i = mine /\ j = its
      BY <2>2, <2>3
    <3>2. th' = [th EXCEPT ![c] = i, ![s] = j]
      BY <2>4, <3>1
    <3>3. /\ th' \in [Threads -> ThreadRec] /\ th'[c] = i /\ th'[s] = j
          /\ \A t \in Threads \ {c} : th'[t] = th[t] \/ t = s
      BY <3>2, TwoChange
    <3> QED BY <3>1, <3>3
  <2>6. \A t \in Threads \ {c} :
          \/ th'[t] = th[t]
          \/ t \in Supervisors /\ th[t].at \in {"idle", "new"} /\ th'[t].at \in {"new", "loop"}
    BY <2>1, <2>3, <2>5
  <2> QED BY <1>1, <2>2, <2>5, <2>6 DEF Watching
<1> QED BY <1>2, <1>3

LEMMA ProbeMoves ==
  ASSUME TunnelTypeOK, NEW t \in Threads
  PROVE  /\ show_host(t) => /\ Moves(t, {"host"}, {"report", "await"})
                            /\ m' = [m EXCEPT !.url = HostName]
                            /\ UNCHANGED <<running, spawned, reader>>
         /\ _set_public_readiness(t) => /\ Moves(t, {"report"}, {"await"})
                                        /\ m' = Told
                                        /\ UNCHANGED <<running, spawned, reader>>
         /\ ready_in_time(t) => /\ Moves(t, {"await"}, {"loop", "idle"})
                                /\ UNCHANGED <<m, running, spawned, reader>>
<1>1. ASSUME show_host(t)
      PROVE  Moves(t, {"host"}, {"report", "await"})
  BY <1>1, GoEffect, Named DEF show_host, Moves
<1>2. ASSUME _set_public_readiness(t)
      PROVE  Moves(t, {"report"}, {"await"})
  BY <1>2, GoEffect, Named DEF _set_public_readiness, Moves
<1>3. ASSUME ready_in_time(t)
      PROVE  Moves(t, {"await"}, {"loop", "idle"})
  BY <1>3, GoEffect, Named DEF ready_in_time, Moves
<1> QED BY <1>1, <1>2, <1>3
        DEF show_host, _set_public_readiness, ready_in_time, procVars

LEMMA CallMoves ==
  ASSUME TunnelTypeOK, NEW c \in Callers
  PROVE  /\ startup_timeout(c) => /\ Moves(c, {"await"}, {"failed"})
                                  /\ m' = [m EXCEPT !.stop = TRUE]
                                  /\ UNCHANGED <<running, spawned, reader>>
         /\ _fail_startup(c) =>
              /\ Moves(c, {"failed"}, {"idle"})
              /\ m' = [m EXCEPT !.enabled = FALSE, !.starting = FALSE, !.url = NoUrl,
                                !.active = FALSE, !.proc = NoProc]
              /\ running' = running \ {m.proc} /\ UNCHANGED <<spawned, reader>>
         /\ disable(c) => /\ Moves(c, {"idle", "disable"}, {"off"})
                          /\ m' = [m EXCEPT !.stop = TRUE]
                          /\ UNCHANGED <<running, spawned, reader>>
         /\ disable_locked(c) =>
              /\ Moves(c, {"off"}, {"idle"})
              /\ m' = [m EXCEPT !.enabled = FALSE, !.starting = FALSE, !.proc = NoProc,
                                !.url = NoUrl, !.mode = "none", !.active = FALSE]
              /\ running' = running \ {m.proc} /\ UNCHANGED <<spawned, reader>>
         /\ check_idle(c) => /\ Moves(c, {"idle"}, {"disable"})
                             /\ UNCHANGED <<m, running, spawned, reader>>
         /\ set_allow_tunnel(c) => /\ Moves(c, {"idle"}, {"disable", "idle"})
                                   /\ m' = [m EXCEPT !.allow = FALSE]
                                   /\ UNCHANGED <<running, spawned, reader>>
<1>0. c \in Threads /\ {"failed", "idle", "off", "disable"} \subseteq Places
  BY Named
<1> USE <1>0, GoEffect DEF Moves, procVars
<1>1. startup_timeout(c) => /\ Moves(c, {"await"}, {"failed"})
                            /\ m' = [m EXCEPT !.stop = TRUE]
                            /\ UNCHANGED <<running, spawned, reader>>
  BY DEF startup_timeout
<1>2. _fail_startup(c) =>
        /\ Moves(c, {"failed"}, {"idle"})
        /\ m' = [m EXCEPT !.enabled = FALSE, !.starting = FALSE, !.url = NoUrl,
                          !.active = FALSE, !.proc = NoProc]
        /\ running' = running \ {m.proc} /\ UNCHANGED <<spawned, reader>>
  BY DEF _fail_startup
<1>3. disable(c) => /\ Moves(c, {"idle", "disable"}, {"off"})
                    /\ m' = [m EXCEPT !.stop = TRUE]
                    /\ UNCHANGED <<running, spawned, reader>>
  BY DEF disable
<1>4. disable_locked(c) =>
        /\ Moves(c, {"off"}, {"idle"})
        /\ m' = [m EXCEPT !.enabled = FALSE, !.starting = FALSE, !.proc = NoProc,
                          !.url = NoUrl, !.mode = "none", !.active = FALSE]
        /\ running' = running \ {m.proc} /\ UNCHANGED <<spawned, reader>>
  BY DEF disable_locked
<1>5. check_idle(c) => /\ Moves(c, {"idle"}, {"disable"})
                       /\ UNCHANGED <<m, running, spawned, reader>>
  BY DEF check_idle
<1>6. set_allow_tunnel(c) => /\ Moves(c, {"idle"}, {"disable", "idle"})
                             /\ m' = [m EXCEPT !.allow = FALSE]
                             /\ UNCHANGED <<running, spawned, reader>>
  BY DEF set_allow_tunnel
<1> QED BY <1>1, <1>2, <1>3, <1>4, <1>5, <1>6

LEMMA SupervisorMoves ==
  ASSUME TunnelTypeOK, NEW s \in Supervisors
  PROVE  /\ supervise_look(s) => /\ Moves(s, {"loop"}, {"ending", "poll"})
                                 /\ UNCHANGED <<m, running, spawned, reader>>
         /\ supervise_poll(s) =>
              /\ Moves(s, {"poll"}, {"loop", "backoff"})
              /\ \/ m' = m
                 \/ /\ m' = [m EXCEPT !.proc = NoProc, !.url = NoUrl, !.ready = FALSE]
                    /\ th[s].proc \notin running
              /\ UNCHANGED <<running, spawned, reader>>
         /\ supervise_backoff(s) => /\ Moves(s, {"backoff"}, {"ending", "start"})
                                    /\ UNCHANGED <<m, running, spawned, reader>>
         /\ reconnect_timeout(s) =>
              /\ Moves(s, {"await"}, {"loop"})
              /\ m' = [m EXCEPT !.proc = NoProc]
              /\ running' = running \ {m.proc} /\ UNCHANGED <<spawned, reader>>
         /\ supervise_return(s) => /\ Moves(s, {"ending"}, {"idle"})
                                   /\ UNCHANGED <<m, running, spawned, reader>>
<1>0. /\ s \in Threads /\ {"ending", "poll", "loop", "backoff", "start", "idle"} \subseteq Places
      /\ th[s].mode \in {"none", "quick", "named"}
  BY Named, ThreadTyped
<1>1. ASSUME supervise_look(s)
      PROVE  Moves(s, {"loop"}, {"ending", "poll"})
  <2>1. CASE Go(s, "ending")
    BY <1>0, <1>1, <2>1, GoEffect DEF supervise_look, Moves
  <2>2. CASE th' = [th EXCEPT ![s] = [Idle EXCEPT !.at = "poll", !.mode = m.mode,
                                                  !.proc = m.proc]]
    <3> DEFINE n == [Idle EXCEPT !.at = "poll", !.mode = m.mode, !.proc = m.proc]
    <3>1. n \in ThreadRec /\ n.at = "poll"
      BY IdleTyped, ManagerTyped DEF ThreadRec, Places
    <3>2. th' = [th EXCEPT ![s] = n]
      BY <2>2
    <3> HIDE DEF n
    <3> QED BY <1>0, <1>1, <3>1, <3>2 DEF supervise_look, Moves, Others, TunnelTypeOK
  <2> QED BY <1>1, <2>1, <2>2 DEF supervise_look
<1>2. ASSUME supervise_poll(s)
      PROVE  Moves(s, {"poll"}, {"loop", "backoff"})
  <2>1. CASE Go(s, "loop")
    BY <1>0, <1>2, <2>1, GoEffect DEF supervise_poll, Moves
  <2>2. ASSUME NEW md \in {"none", "quick", "named"}, GoWithMode(s, "backoff", md)
        PROVE  Moves(s, {"poll"}, {"loop", "backoff"})
    BY <1>0, <1>2, <2>2, GoWithModeEffect DEF supervise_poll, Moves
  <2>3. (IF th[s].mode = "none" THEN "quick" ELSE th[s].mode) \in {"none", "quick", "named"}
    BY <1>0
  <2> QED BY <1>2, <2>1, <2>2, <2>3 DEF supervise_poll
<1>3. ASSUME supervise_backoff(s)
      PROVE  Moves(s, {"backoff"}, {"ending", "start"})
  BY <1>0, <1>3, GoEffect DEF supervise_backoff, Moves
<1>4. ASSUME reconnect_timeout(s)
      PROVE  Moves(s, {"await"}, {"loop"})
  BY <1>0, <1>4, GoEffect DEF reconnect_timeout, Moves
<1>5. ASSUME supervise_return(s)
      PROVE  Moves(s, {"ending"}, {"idle"})
  BY <1>0, <1>5, GoEffect DEF supervise_return, Moves
<1> QED BY <1>1, <1>2, <1>3, <1>4, <1>5
        DEF supervise_look, supervise_poll, supervise_backoff, reconnect_timeout,
            supervise_return, procVars

(* A reader's step: no process is started or stopped by it. *)
LEMMA ReaderMoves ==
  ASSUME TunnelTypeOK, NEW p \in Procs, ReaderStep(p)
  PROVE  /\ UNCHANGED <<running, spawned, th>>
         /\ reader' \in [Procs -> {"none", "reading", "report"}]
         /\ m' = m \/ m' = [m EXCEPT !.url = p] \/ m' = Told
  BY DEF ReaderStep, _read_quick_stdout, read_report, read_end, TunnelTypeOK

LEMMA ToldEffect ==
  ASSUME TunnelTypeOK
  PROVE  Told \in ManagerRec /\ Told.proc = m.proc /\ Told.starting = m.starting
<1>1. m \in ManagerRec
  BY DEF TunnelTypeOK
<1> QED BY <1>1 DEF Told, ManagerRec

-----------------------------------------------------------------------------
(* Every step keeps the types, and finds what it is to do.                 *)

(* The steps, by the lemma that says what they do. *)
LEMMA StepsOf ==
  ASSUME TunnelNext
  PROVE  \/ \E c \in Callers, md \in Modes : enable(c, md)
         \/ \E c \in Callers :
              \/ enable_begin(c) \/ enable_started(c) \/ enable_look(c)
              \/ enable_new_thread(c) \/ enable_supervise(c)
         \/ \E t \in Threads :
              spawn(t) \/ spawn_fails(t) \/ _quick_profile_fails(t) \/ adopt(t)
         \/ \E t \in Threads : show_host(t) \/ _set_public_readiness(t) \/ ready_in_time(t)
         \/ \E c \in Callers :
              \/ startup_timeout(c) \/ _fail_startup(c) \/ disable(c) \/ disable_locked(c)
              \/ check_idle(c) \/ set_allow_tunnel(c)
         \/ \E s \in Supervisors :
              \/ supervise_look(s) \/ supervise_poll(s) \/ supervise_backoff(s)
              \/ reconnect_timeout(s) \/ supervise_return(s)
         \/ \E p \in Procs : ReaderStep(p) \/ process_exits(p)
  BY Named DEF TunnelNext, Call, CallerStep, StartStep, SupervisorStep

(* The writes to the manager's fields. *)
LEMMA Written ==
  ASSUME m \in ManagerRec
  PROVE  /\ \A md \in {"none", "quick", "named"} :
              [m EXCEPT !.starting = TRUE, !.enabled = TRUE, !.mode = md, !.url = NoUrl,
                        !.active = TRUE, !.ready = FALSE, !.stop = FALSE] \in ManagerRec
         /\ \A s \in Supervisors :
              [m EXCEPT !.thread = s] \in ManagerRec
         /\ [m EXCEPT !.starting = FALSE] \in ManagerRec
         /\ [m EXCEPT !.enabled = FALSE, !.proc = NoProc, !.starting = FALSE,
                      !.active = FALSE] \in ManagerRec
         /\ [m EXCEPT !.enabled = FALSE, !.starting = FALSE, !.url = NoUrl,
                      !.active = FALSE, !.proc = NoProc] \in ManagerRec
         /\ [m EXCEPT !.enabled = FALSE, !.starting = FALSE, !.proc = NoProc, !.url = NoUrl,
                      !.mode = "none", !.active = FALSE] \in ManagerRec
         /\ [m EXCEPT !.proc = NoProc, !.url = NoUrl, !.ready = FALSE] \in ManagerRec
         /\ [m EXCEPT !.proc = NoProc] \in ManagerRec
         /\ [m EXCEPT !.stop = TRUE] \in ManagerRec
         /\ [m EXCEPT !.allow = FALSE] \in ManagerRec
<1>0. NoProc \in 0 .. MaxProcs /\ NoUrl \in 0 .. HostName
  BY NumbersTyped
<1>1. ASSUME NEW md \in {"none", "quick", "named"}
      PROVE  [m EXCEPT !.starting = TRUE, !.enabled = TRUE, !.mode = md, !.url = NoUrl,
                       !.active = TRUE, !.ready = FALSE, !.stop = FALSE] \in ManagerRec
  BY <1>0 DEF ManagerRec
<1>2. ASSUME NEW s \in Supervisors
      PROVE  [m EXCEPT !.thread = s] \in ManagerRec
  BY DEF ManagerRec
<1>3. [m EXCEPT !.enabled = FALSE, !.proc = NoProc, !.starting = FALSE,
                !.active = FALSE] \in ManagerRec
  BY <1>0 DEF ManagerRec
<1>4. [m EXCEPT !.enabled = FALSE, !.starting = FALSE, !.url = NoUrl,
                !.active = FALSE, !.proc = NoProc] \in ManagerRec
  BY <1>0 DEF ManagerRec
<1>5. [m EXCEPT !.enabled = FALSE, !.starting = FALSE, !.proc = NoProc, !.url = NoUrl,
                !.mode = "none", !.active = FALSE] \in ManagerRec
  BY <1>0 DEF ManagerRec
<1>6. [m EXCEPT !.proc = NoProc, !.url = NoUrl, !.ready = FALSE] \in ManagerRec
  BY <1>0 DEF ManagerRec
<1>7. [m EXCEPT !.proc = NoProc] \in ManagerRec
  BY <1>0 DEF ManagerRec
<1>8. /\ [m EXCEPT !.stop = TRUE] \in ManagerRec /\ [m EXCEPT !.allow = FALSE] \in ManagerRec
      /\ [m EXCEPT !.starting = FALSE] \in ManagerRec
  BY DEF ManagerRec
<1> QED BY <1>1, <1>2, <1>3, <1>4, <1>5, <1>6, <1>7, <1>8

LEMMA TypesKept ==
  ASSUME TunnelTypeOK, m' \in ManagerRec, spawned' \in 0 .. MaxProcs,
         running' \subseteq 1 .. spawned', th' \in [Threads -> ThreadRec],
         reader' \in [Procs -> {"none", "reading", "report"}]
  PROVE  TunnelTypeOK'
  BY DEF TunnelTypeOK

LEMMA TypeStep ==
  ASSUME TunnelTypeOK, [TunnelNext]_tunnelVars
  PROVE  TunnelTypeOK'
<1>0. /\ m \in ManagerRec /\ spawned \in 0 .. MaxProcs /\ running \subseteq 1 .. spawned
      /\ reader \in [Procs -> {"none", "reading", "report"}]
      /\ th \in [Threads -> ThreadRec] /\ MaxProcs \in Nat
      /\ \A p : running \ {p} \subseteq 1 .. spawned
  BY NumbersTyped DEF TunnelTypeOK
<1>1. CASE UNCHANGED tunnelVars
  BY <1>1 DEF tunnelVars, procVars, TunnelTypeOK
<1>2. ASSUME NEW c \in Callers, NEW md \in Modes, enable(c, md)
      PROVE  TunnelTypeOK'
  BY <1>0, <1>2, EnableMoves, TypesKept DEF Moves
<1>3. ASSUME NEW c \in Callers, enable_begin(c)
      PROVE  TunnelTypeOK'
  <2>1. m' \in ManagerRec
    <3>1. th[c].mode \in {"none", "quick", "named"}
      BY ThreadTyped, Named
    <3> QED BY <1>0, <1>3, <3>1, EnableBeginMoves, Written
  <2> QED BY <1>0, <1>3, <2>1, EnableBeginMoves, TypesKept DEF Moves
<1>4. ASSUME NEW c \in Callers, enable_new_thread(c) \/ enable_supervise(c)
      PROVE  TunnelTypeOK'
  <2>1. Watching(c)
    BY <1>4, NewThreadMoves, SuperviseMoves
  <2>2. m' \in ManagerRec
    BY <1>0, <2>1, Written DEF Watching
  <2> QED BY <1>0, <2>1, <2>2, TypesKept DEF Watching
<1>13. ASSUME NEW c \in Callers, enable_started(c) \/ enable_look(c)
      PROVE  TunnelTypeOK'
  <2>1. m' \in ManagerRec
    BY <1>0, <1>13, WatchMoves, Written
  <2> QED BY <1>0, <1>13, <2>1, WatchMoves, TypesKept DEF Moves
<1>14. ASSUME NEW t \in Threads, _quick_profile_fails(t)
      PROVE  TunnelTypeOK'
  BY <1>0, <1>14, ProfileMoves, TypesKept DEF Moves
<1>5. ASSUME NEW t \in Threads, spawn(t)
      PROVE  TunnelTypeOK'
  <2>1. running' \subseteq 1 .. spawned'
    BY <1>0, <1>5, SpawnMoves
  <2> QED BY <1>0, <1>5, <2>1, SpawnMoves, TypesKept DEF Moves
<1>6. ASSUME NEW t \in Threads, spawn_fails(t)
      PROVE  TunnelTypeOK'
  <2>1. m' \in ManagerRec
    BY <1>0, <1>6, SpawnFailsMoves, Written
  <2> QED BY <1>0, <1>6, <2>1, SpawnFailsMoves, TypesKept DEF Moves
<1>7. ASSUME NEW t \in Threads, adopt(t)
      PROVE  TunnelTypeOK'
  <2>1. m' \in ManagerRec
    BY <1>0, <1>7, AdoptMoves, ThreadTyped DEF ManagerRec
  <2> QED BY <1>0, <1>7, <2>1, AdoptMoves, TypesKept DEF Moves
<1>8. ASSUME NEW t \in Threads, show_host(t) \/ _set_public_readiness(t) \/ ready_in_time(t)
      PROVE  TunnelTypeOK'
  <2>2. Told \in ManagerRec
    BY ToldEffect
  <2>3. [m EXCEPT !.url = HostName] \in ManagerRec
    BY <1>0, NumbersTyped DEF ManagerRec
  <2> QED BY <1>0, <1>8, <2>2, <2>3, ProbeMoves, TypesKept DEF Moves
<1>9. ASSUME NEW c \in Callers,
             \/ startup_timeout(c) \/ _fail_startup(c) \/ disable(c) \/ disable_locked(c)
             \/ check_idle(c) \/ set_allow_tunnel(c)
      PROVE  TunnelTypeOK'
  <2>1. m' \in ManagerRec
    BY <1>0, <1>9, CallMoves, Written
  <2> QED BY <1>0, <1>9, <2>1, CallMoves, TypesKept DEF Moves
<1>10. ASSUME NEW s \in Supervisors,
              \/ supervise_look(s) \/ supervise_poll(s) \/ supervise_backoff(s)
              \/ reconnect_timeout(s) \/ supervise_return(s)
       PROVE  TunnelTypeOK'
  <2>1. m' \in ManagerRec
    BY <1>0, <1>10, SupervisorMoves, Written
  <2> QED BY <1>0, <1>10, <2>1, SupervisorMoves, TypesKept DEF Moves
<1>11. ASSUME NEW p \in Procs, ReaderStep(p)
       PROVE  TunnelTypeOK'
  <2>1. m' \in ManagerRec
    <3>1. [m EXCEPT !.url = p] \in ManagerRec
      BY <1>0, NumbersTyped DEF ManagerRec
    <3>2. Told \in ManagerRec
      BY ToldEffect
    <3> QED BY <1>0, <1>11, <3>1, <3>2, ReaderMoves
  <2> QED BY <1>0, <1>11, <2>1, ReaderMoves, TypesKept
<1>12. ASSUME NEW p \in Procs, process_exits(p)
       PROVE  TunnelTypeOK'
  BY <1>0, <1>12, TypesKept DEF process_exits
<1> QED BY StepsOf, <1>1, <1>2, <1>3, <1>4, <1>5, <1>6, <1>7, <1>8, <1>9, <1>10, <1>11, <1>12,
           <1>13, <1>14

LEMMA ReadersOnly ==
  ASSUME TunnelTypeOK, NEW p \in Procs, ReaderStep(p) \/ process_exits(p)
  PROVE  m'.proc = m.proc /\ m'.starting = m.starting /\ th' = th
<1>1. CASE process_exits(p)
  BY <1>1 DEF process_exits
<1>2. CASE ReaderStep(p)
  <2>1. m \in ManagerRec
    BY DEF TunnelTypeOK
  <2>2. Told.proc = m.proc /\ Told.starting = m.starting
    BY ToldEffect
  <2>3. /\ [m EXCEPT !.url = p].proc = m.proc /\ [m EXCEPT !.url = p].starting = m.starting
    BY <2>1 DEF ManagerRec
  <2> QED BY <1>2, <2>2, <2>3, ReaderMoves
<1> QED BY <1>1, <1>2

-----------------------------------------------------------------------------
(* _starting is somebody's, unless a profile directory cannot be made.     *)

Someone == ~StartingIsNobodys

LEMMA StartingKept ==
  ASSUME Someone, m'.starting => m.starting,
         \A c \in Callers : th[c].at \in {"start", "adopt", "adopted"} =>
                              th'[c].at \in {"start", "adopt", "adopted"}
  PROVE  Someone'
  BY DEF Someone, StartingIsNobodys

LEMMA StartingStep ==
  ASSUME TunnelTypeOK, Someone, [TunnelNext]_tunnelVars,
         ~ \E c \in Callers : _quick_profile_fails(c)
  PROVE  Someone'
<1>0. /\ m \in ManagerRec /\ Callers \subseteq Threads /\ Callers \cap Supervisors = {}
      /\ \A c \in Callers : th[c].at \in Places
  BY Named, ThreadTyped DEF TunnelTypeOK
<1>1. CASE UNCHANGED tunnelVars
  BY <1>1, StartingKept DEF tunnelVars
<1>2. ASSUME NEW c \in Callers, NEW md \in Modes, enable(c, md)
      PROVE  Someone'
  BY <1>0, <1>2, EnableMoves, StartingKept DEF Moves, Others
<1>3. ASSUME NEW c \in Callers, enable_begin(c)
      PROVE  Someone'
  <2>1. CASE m' = m
    BY <1>0, <1>3, <2>1, EnableBeginMoves, StartingKept DEF Moves, Others
  <2>2. CASE th'[c].at = "start"
    BY <2>2 DEF Someone, StartingIsNobodys
  <2> QED BY <1>3, <2>1, <2>2, EnableBeginMoves
<1>4. ASSUME NEW c \in Callers, enable_new_thread(c) \/ enable_supervise(c)
      PROVE  Someone'
  <2>1. Watching(c)
    BY <1>4, NewThreadMoves, SuperviseMoves
  <2>2. m'.starting = m.starting
    BY <1>0, <2>1 DEF Watching, ManagerRec
  <2> QED BY <1>0, <2>1, <2>2, StartingKept DEF Watching
<1>12. ASSUME NEW c \in Callers, enable_started(c)
      PROVE  Someone'
  <2>1. m'.starting = FALSE
    BY <1>0, <1>12, WatchMoves DEF ManagerRec
  <2> QED BY <2>1 DEF Someone, StartingIsNobodys
<1>13. ASSUME NEW c \in Callers, enable_look(c)
      PROVE  Someone'
  BY <1>0, <1>13, WatchMoves, StartingKept DEF Moves, Others
<1>14. ASSUME NEW t \in Threads, _quick_profile_fails(t)
      PROVE  Someone'
  <2>1. t \in Supervisors
    BY <1>14 DEF Threads
  <2> QED BY <1>0, <1>14, <2>1, ProfileMoves, StartingKept DEF Moves, Others
<1>5. ASSUME NEW t \in Threads, spawn(t)
      PROVE  Someone'
  BY <1>0, <1>5, SpawnMoves, StartingKept DEF Moves, Others
<1>6. ASSUME NEW t \in Threads, spawn_fails(t)
      PROVE  Someone'
  <2>1. CASE t \in Supervisors
    BY <1>0, <1>6, <2>1, SpawnFailsMoves, StartingKept DEF Moves, Others
  <2>2. CASE t \notin Supervisors
    <3>1. m'.starting = FALSE
      BY <1>0, <1>6, <2>2, SpawnFailsMoves DEF ManagerRec
    <3> QED BY <3>1 DEF Someone, StartingIsNobodys
  <2> QED BY <2>1, <2>2
<1>7. ASSUME NEW t \in Threads, adopt(t)
      PROVE  Someone'
  <2>1. m'.starting = m.starting
    BY <1>0, <1>7, AdoptMoves DEF ManagerRec
  <2> QED BY <1>0, <1>7, <2>1, AdoptMoves, StartingKept DEF Moves, Others
<1>8. ASSUME NEW t \in Threads, show_host(t) \/ _set_public_readiness(t) \/ ready_in_time(t)
      PROVE  Someone'
  <2>1. m'.starting = m.starting
    BY <1>0, <1>8, ProbeMoves, ToldEffect DEF ManagerRec
  <2> QED BY <1>0, <1>8, <2>1, ProbeMoves, StartingKept DEF Moves, Others
<1>9. ASSUME NEW c \in Callers,
             \/ startup_timeout(c) \/ _fail_startup(c) \/ disable(c) \/ disable_locked(c)
             \/ check_idle(c) \/ set_allow_tunnel(c)
      PROVE  Someone'
  <2>1. m'.starting => m.starting
    BY <1>0, <1>9, CallMoves DEF ManagerRec
  <2> QED BY <1>0, <1>9, <2>1, CallMoves, StartingKept DEF Moves, Others
<1>10. ASSUME NEW s \in Supervisors,
              \/ supervise_look(s) \/ supervise_poll(s) \/ supervise_backoff(s)
              \/ reconnect_timeout(s) \/ supervise_return(s)
       PROVE  Someone'
  <2>1. m'.starting = m.starting
    BY <1>0, <1>10, SupervisorMoves DEF ManagerRec
  <2> QED BY <1>0, <1>10, <2>1, SupervisorMoves, StartingKept DEF Moves, Others
<1>11. ASSUME NEW p \in Procs, ReaderStep(p) \/ process_exits(p)
       PROVE  Someone'
  <2>1. m'.starting = m.starting /\ th' = th
    BY <1>0, <1>11, ReadersOnly
  <2> QED BY <2>1, StartingKept
<1> QED BY StepsOf, <1>1, <1>2, <1>3, <1>4, <1>5, <1>6, <1>7, <1>8, <1>9, <1>10, <1>11,
           <1>12, <1>13, <1>14

-----------------------------------------------------------------------------
(* A process is lost sight of by blind writes to _proc only.               *)

LEMMA OwnedKept ==
  ASSUME NEW p, Owned(p), p = m.proc => m'.proc = p,
         \A t \in Threads : th[t].at = "adopt" =>
                              th'[t].at = "adopt" /\ th'[t].proc = th[t].proc
  PROVE  Owned(p)'
  BY DEF Owned

LeakStep ==
    \A p \in running \cap running' :
        Owned(p) /\ ~Owned(p)' => Adopting \/ OutdatedWriteOff \/ FailedStart

LEMMA LeakHolds ==
  ASSUME TunnelTypeOK, [TunnelNext]_tunnelVars
  PROVE  LeakStep \/ UNCHANGED tunnelVars
<1> SUFFICES ASSUME TunnelNext, NEW p \in running, p \in running', Owned(p),
                    ~Adopting, ~OutdatedWriteOff, ~FailedStart
             PROVE  Owned(p)'
  BY DEF LeakStep
<1>0. /\ m \in ManagerRec /\ Callers \subseteq Threads /\ Supervisors \subseteq Threads
      /\ p \in 1 .. spawned
  BY Named DEF TunnelTypeOK
<1>1. ASSUME NEW c \in Callers, NEW md \in Modes, enable(c, md)
      PROVE  Owned(p)'
  BY <1>0, <1>1, EnableMoves, OwnedKept DEF Moves, Others
<1>2. ASSUME NEW c \in Callers, enable_begin(c)
      PROVE  Owned(p)'
  <2>1. m'.proc = m.proc
    BY <1>0, <1>2, EnableBeginMoves DEF ManagerRec
  <2> QED BY <1>0, <1>2, <2>1, EnableBeginMoves, OwnedKept DEF Moves, Others
<1>3. ASSUME NEW c \in Callers, enable_new_thread(c) \/ enable_supervise(c)
      PROVE  Owned(p)'
  <2>1. Watching(c)
    BY <1>3, NewThreadMoves, SuperviseMoves
  <2>2. m'.proc = m.proc
    BY <1>0, <2>1 DEF Watching, ManagerRec
  <2>3. \A t \in Threads : th[t].at = "adopt" =>
                             th'[t].at = "adopt" /\ th'[t].proc = th[t].proc
    BY <1>0, <2>1 DEF Watching
  <2> QED BY <2>2, <2>3, OwnedKept
<1>11. ASSUME NEW c \in Callers, enable_started(c) \/ enable_look(c)
      PROVE  Owned(p)'
  <2>1. m'.proc = m.proc
    BY <1>0, <1>11, WatchMoves DEF ManagerRec
  <2> QED BY <1>0, <1>11, <2>1, WatchMoves, OwnedKept DEF Moves, Others
<1>12. ASSUME NEW t \in Threads, _quick_profile_fails(t)
      PROVE  Owned(p)'
  BY <1>0, <1>12, ProfileMoves, OwnedKept DEF Moves, Others
<1>4. ASSUME NEW t \in Threads, spawn(t)
      PROVE  Owned(p)'
  BY <1>0, <1>4, SpawnMoves, OwnedKept DEF Moves, Others
<1>5. ASSUME NEW t \in Threads, spawn_fails(t)
      PROVE  Owned(p)'
  <2>1. t \in Supervisors
    BY <1>5 DEF FailedStart, Threads
  <2> QED BY <1>0, <1>5, <2>1, SpawnFailsMoves, OwnedKept DEF Moves, Others
<1>6. ASSUME NEW t \in Threads, adopt(t)
      PROVE  Owned(p)'
  BY <1>6 DEF Adopting, adopt
<1>7. ASSUME NEW t \in Threads, show_host(t) \/ _set_public_readiness(t) \/ ready_in_time(t)
      PROVE  Owned(p)'
  <2>1. m'.proc = m.proc
    BY <1>0, <1>7, ProbeMoves, ToldEffect DEF ManagerRec
  <2> QED BY <1>0, <1>7, <2>1, ProbeMoves, OwnedKept DEF Moves, Others
<1>8. ASSUME NEW c \in Callers,
             \/ startup_timeout(c) \/ _fail_startup(c) \/ disable(c) \/ disable_locked(c)
             \/ check_idle(c) \/ set_allow_tunnel(c)
      PROVE  Owned(p)'
  <2>1. p = m.proc => m'.proc = p
    BY <1>0, <1>8, CallMoves DEF ManagerRec
  <2> QED BY <1>0, <1>8, <2>1, CallMoves, OwnedKept DEF Moves, Others
<1>9. ASSUME NEW s \in Supervisors,
             \/ supervise_look(s) \/ supervise_poll(s) \/ supervise_backoff(s)
             \/ reconnect_timeout(s) \/ supervise_return(s)
      PROVE  Owned(p)'
  <2>1. supervise_poll(s) => th[s].proc = m.proc
    BY DEF OutdatedWriteOff
  <2>2. p = m.proc => m'.proc = p
    BY <1>0, <1>9, <2>1, SupervisorMoves DEF ManagerRec
  <2> QED BY <1>0, <1>9, <2>2, SupervisorMoves, OwnedKept DEF Moves, Others
<1>10. ASSUME NEW q \in Procs, ReaderStep(q) \/ process_exits(q)
       PROVE  Owned(p)'
  <2>1. m'.proc = m.proc /\ th' = th
    BY <1>0, <1>10, ReadersOnly
  <2> QED BY <2>1, OwnedKept
<1> QED BY StepsOf, <1>1, <1>2, <1>3, <1>4, <1>5, <1>6, <1>7, <1>8, <1>9, <1>10, <1>11, <1>12

-----------------------------------------------------------------------------
(* The theorems.                                                           *)

LEMMA InitTyped ==
  TunnelInit => TunnelTypeOK
<1> SUFFICES ASSUME TunnelInit
             PROVE  TunnelTypeOK
  OBVIOUS
<1>1. m \in ManagerRec
  BY NumbersTyped DEF TunnelInit, NewManager, ManagerRec
<1>2. th \in [Threads -> ThreadRec]
  BY IdleTyped DEF TunnelInit
<1>3. /\ spawned \in 0 .. MaxProcs /\ running \subseteq 1 .. spawned
      /\ reader \in [Procs -> {"none", "reading", "report"}]
  BY NumbersTyped DEF TunnelInit, NoProc
<1> QED BY <1>1, <1>2, <1>3 DEF TunnelTypeOK

(* The manager's fields, its processes and the threads that supervise,     *)
(* read and call keep their types (class TunnelManager, tunnel.py:60).     *)
THEOREM TunnelTypes == TunnelSpec => []TunnelTypeOK
<1>1. TunnelInit => TunnelTypeOK
  BY InitTyped
<1> QED BY <1>1, TypeStep, PTL DEF TunnelSpec

(* However many threads enable, fail, time out, idle and disable: only the *)
(* OSError of a profile directory leaves _starting with nobody to clear it *)
(* (enable, _quick_profile and _fail_startup, tunnel.py).                  *)
THEOREM StartingLeft == TunnelSpec => StartingLeftByProfileOnly
<1> DEFINE Step == StartingIsNobodys' =>
                     StartingIsNobodys \/ \E c \in Callers : _quick_profile_fails(c)
<1>1. TunnelTypeOK /\ [TunnelNext]_tunnelVars => [Step]_tunnelVars
  BY StartingStep DEF Someone
<1> QED BY <1>1, TunnelTypes, PTL DEF TunnelSpec, StartingLeftByProfileOnly

(* The process of a tunnel is dropped while it runs only by a write to     *)
(* _proc that does not look at what it replaces: a second process taken    *)
(* over, a start that fails beside another, or a supervisor that goes by   *)
(* an older process (_start_process, enable and _supervise, tunnel.py).    *)
THEOREM LeaksOnlyByBlindWrite == TunnelSpec => LeakOnlyByBlindWrite
<1>1. TunnelTypeOK /\ [TunnelNext]_tunnelVars => [LeakStep]_tunnelVars
  BY LeakHolds
<1> QED BY <1>1, TunnelTypes, PTL DEF TunnelSpec, LeakOnlyByBlindWrite, LeakStep
=============================================================================

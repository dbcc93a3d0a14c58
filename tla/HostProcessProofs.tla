---------------------------- MODULE HostProcessProofs ----------------------------
(***************************************************************************)
(* The safety properties of HostProcess, proved for any number of          *)
(* processes, of threads and of requests.                                  *)
(***************************************************************************)
EXTENDS HostProcess, SequenceTheorems, FiniteSetTheorems, WellFoundedInduction, TLAPS

-----------------------------------------------------------------------------
(* The inductive invariant.                                                *)

(* Who serves has opened the file that is at the path: on Windows it stays *)
(* there as long as it is open, so that two cannot hold locks of two files.*)
LockInv ==
    /\ \A p \in Processes : proc[p].file # NoFile <=> proc[p].at \in {"opened", "serving"}
    /\ \A p \in Processes : proc[p].file # NoFile => proc[p].file = disk.lock
    /\ \A p, q \in Serving : p = q

(* Requests are handled by a process that serves. *)
HandledInv ==
    /\ \A t \in Busy : req[t].host \in Serving /\ req[t].todo # <<>>
    /\ \A t \in Writing : req[t].text \in Settings
    /\ \A t \in Threads : req[t].at = "event" => Head(req[t].todo)[1] = "threshold"

(* A process that has loaded is early as long as another one serves, and   *)
(* is known for it when it serves itself.                                  *)
EarlyInv ==
    /\ Serving # {} => Loading \subseteq early
    /\ Serving \cap early # {} => "early" \in marks

(* A file that is being written is empty, unless two saves overlap. *)
SaveInv ==
    /\ "overlap" \notin marks =>
         \A t \in Threads : req[t].at = "close" =>
             /\ disk.settings = Torn
             /\ \A s \in Threads : req[s].at = "close" => s = t
    /\ disk.settings = Torn =>
         \/ \E t \in Threads : req[t].at = "close"
         \/ "cut save" \in marks \/ "failed" \in marks \/ "overlap" \in marks

(* After a save that forbade the tunnel nobody knows of settings that      *)
(* allow it, other than who loaded early.                                  *)
Forbidding(t) == t \in Writing /\ ~req[t].text.allow
ForbidInv ==
    /\ \A t \in Threads : Forbidding(t) => ~proc[req[t].host].mem.allow
    /\ "forbidden" \in marks /\ "overlap" \notin marks /\ "early" \notin marks =>
         /\ disk.settings # Missing
         /\ disk.settings # Torn => ~disk.settings.allow
         /\ \A p \in Serving \cup (Loading \ early) : ~proc[p].mem.allow
         /\ \A t \in Writing : Forbidding(t)

(* What is in force is on the disk, or being saved. *)
Undisturbed == "overlap" \notin marks /\ "failed" \notin marks /\ "refused" \notin marks
SaveAhead(p) == \E t \in Threads : req[t].at = "save" /\ req[t].host = p
BeingSaved(p) == \E t \in Threads : req[t].at = "close" /\ req[t].host = p
InForce(p) ==
    /\ proc[p].room = disk.row
    /\ Undisturbed =>
         \/ SaveAhead(p)
         \/ /\ \A t \in Threads :
                 req[t].at = "close" /\ req[t].host = p => req[t].text = proc[p].mem
            /\ BeingSaved(p) \/ Settings_load = proc[p].mem
InForceInv == \A p \in (Serving \cup Loading) \ early : InForce(p)

-----------------------------------------------------------------------------
(* Types.                                                                  *)

LEMMA ProcTyped ==
  ASSUME HostTypeOK, NEW p \in Processes
  PROVE  /\ proc[p] \in ProcRec
         /\ proc[p].at \in {"down", "made", "opened", "serving", "unlocked"}
         /\ proc[p].mem \in Settings /\ proc[p].mem.threshold \in Nat
         /\ proc[p].mem.weights \in [1 .. 4 -> Int] /\ proc[p].mem.allow \in BOOLEAN
         /\ proc[p].room \in 0 .. MaxEvents
         /\ proc[p].file \in 0 .. Cardinality(Processes) + 1
<1>1. proc[p] \in ProcRec
  BY DEF HostTypeOK
<1>2. /\ proc[p].at \in {"down", "made", "opened", "serving", "unlocked"}
      /\ proc[p].mem \in Settings /\ proc[p].room \in 0 .. MaxEvents
      /\ proc[p].file \in 0 .. Cardinality(Processes) + 1
  BY <1>1 DEF ProcRec
<1>3. /\ proc[p].mem.threshold \in Nat
      /\ proc[p].mem.weights \in [1 .. 4 -> Int] /\ proc[p].mem.allow \in BOOLEAN
  BY <1>2 DEF Settings
<1> QED BY <1>1, <1>2, <1>3

LEMMA ReqTyped ==
  ASSUME HostTypeOK, NEW t \in Threads
  PROVE  /\ req[t] \in ReqRec
         /\ req[t].at \in {"idle", "next", "save", "close", "event"}
         /\ req[t].host \in Processes \cup {None} /\ req[t].todo \in Seq(Entries)
         /\ req[t].text \in Settings \cup {None} /\ req[t].old \in Nat \cup {None}
         /\ req[t].ts \in Nat /\ req[t].ts <= clock
  BY DEF HostTypeOK, ReqRec

LEMMA DiskTyped ==
  HostTypeOK => /\ disk.settings \in Settings \cup {Missing, Torn}
                /\ disk.row \in 0 .. MaxEvents
                /\ disk.lock \in 0 .. Cardinality(Processes) + 1
  BY DEF HostTypeOK, DiskRec

LEMMA MarksTyped ==
  /\ HostTypeOK => marks \subseteq MarkKinds
  /\ {"early", "crossed", "cut", "cut save", "overlap", "bootstrap", "failed", "refused",
      "forbidden"} \subseteq MarkKinds
  BY DEF HostTypeOK, MarkKinds

LEMMA DefaultsTyped == Defaults \in Settings
<1>1. Config.threshold \in Nat
  BY ConfigAssumption
<1>2. <<4, 3, 1, 2>> \in [1 .. 4 -> Int]
  OBVIOUS
<1> QED BY <1>1, <1>2 DEF Defaults, Settings

LEMMA Sizes ==
  /\ Cardinality(Processes) \in Nat /\ MaxEvents \in Nat /\ MaxClock \in Nat
  /\ NoFile \in 0 .. Cardinality(Processes) + 1
<1>1. Cardinality(Processes) \in Nat /\ MaxEvents \in Nat /\ MaxClock \in Nat
  BY HostAssumption, FS_CardinalityType
<1> QED BY <1>1 DEF NoFile

LEMMA CountsTyped ==
  HostTypeOK => /\ spent \in 0 .. MaxEvents /\ spent \in Nat
                /\ clock \in 0 .. MaxClock /\ clock \in Nat
<1>1. HostTypeOK => spent \in 0 .. MaxEvents /\ clock \in 0 .. MaxClock
  BY DEF HostTypeOK
<1> QED BY <1>1, Sizes

LEMMA DownTyped ==
  /\ Down \in ProcRec /\ Down.at = "down" /\ Down.file = NoFile /\ Down.mem = Defaults
  BY DefaultsTyped, Sizes DEF Down, ProcRec, NoFile

LEMMA FreeTyped ==
  Free \in ReqRec /\ Free.at = "idle" /\ Free.ts = 0
<1>1. <<>> \in Seq(Entries)
  OBVIOUS
<1> QED BY <1>1 DEF Free, ReqRec

LEMMA LongTail ==
  ASSUME NEW S, NEW s \in Seq(S), s # <<>>, Len(s) > 1
  PROVE  Tail(s) # <<>>
<1>1. Tail(s) \in Seq(S) /\ Len(Tail(s)) = Len(s) - 1 /\ Len(s) \in Nat
  BY HeadTailProperties, LenProperties
<1>2. Len(Tail(s)) # 0
  BY <1>1
<1> QED BY <1>1, <1>2, EmptySeq

LEMMA BusyTyped ==
  ASSUME HostTypeOK, HandledInv, NEW t \in Threads, req[t].at # "idle"
  PROVE  /\ req[t].host \in Serving /\ req[t].host \in Processes
         /\ req[t].todo # <<>> /\ Head(req[t].todo) \in Entries
         /\ Tail(req[t].todo) \in Seq(Entries)
         /\ Len(req[t].todo) > 1 => Tail(req[t].todo) # <<>>
<1>1. t \in Busy
  BY DEF Busy
<1>2. req[t].host \in Serving /\ req[t].todo # <<>>
  BY <1>1 DEF HandledInv
<1>3. req[t].todo \in Seq(Entries)
  BY ReqTyped
<1>4. /\ Head(req[t].todo) \in Entries /\ Tail(req[t].todo) \in Seq(Entries)
      /\ Len(Tail(req[t].todo)) = Len(req[t].todo) - 1
  BY <1>2, <1>3, HeadTailProperties
<1>5. Len(req[t].todo) > 1 => Tail(req[t].todo) # <<>>
  BY <1>2, <1>3, LongTail
<1> QED BY <1>2, <1>4, <1>5 DEF Serving

LEMMA RestTyped ==
  ASSUME HostTypeOK, HandledInv, NEW t \in Threads, req[t].at # "idle"
  PROVE  LET r == Rest(req[t])
         IN  /\ r \in ReqRec /\ r.at \in {"idle", "next"} /\ r.ts \in {0, req[t].ts}
             /\ r.at # "idle" => /\ r.host = req[t].host /\ r.todo # <<>>
                                 /\ r.ts = req[t].ts
<1>1. CASE Len(req[t].todo) > 1
  <2> DEFINE n == [Free EXCEPT !.at = "next", !.host = req[t].host, !.todo = Tail(req[t].todo),
                               !.ts = req[t].ts]
  <2>1. Rest(req[t]) = n
    BY <1>1 DEF Rest
  <2>2. /\ req[t].host \in Processes /\ Tail(req[t].todo) \in Seq(Entries)
        /\ Tail(req[t].todo) # <<>> /\ req[t].ts \in Nat
    BY <1>1, BusyTyped, ReqTyped
  <2>3. /\ n \in ReqRec /\ n.at = "next" /\ n.host = req[t].host /\ n.ts = req[t].ts
        /\ n.todo = Tail(req[t].todo)
    BY <2>2, FreeTyped DEF ReqRec
  <2> HIDE DEF n
  <2> QED BY <2>1, <2>2, <2>3
<1>2. CASE ~(Len(req[t].todo) > 1)
  <2>1. Rest(req[t]) = Free
    BY <1>2 DEF Rest
  <2> QED BY <2>1, FreeTyped
<1> QED BY <1>1, <1>2

LEMMA ValueTyped ==
  ASSUME HostTypeOK, HandledInv, NEW t \in Threads
  PROVE  /\ Asks(t, "threshold") \/ Asks(t, "bootstrap") => Value(t) \in Nat
         /\ Asks(t, "weights") => Value(t) \in [1 .. 4 -> Int]
         /\ Asks(t, "allow") => Value(t) \in BOOLEAN
         /\ Asks(t, "job") => Value(t) \in JobsAsked
         /\ req[t].at = "event" => Value(t) \in Nat
<1>1. ASSUME req[t].at # "idle"
      PROVE  Head(req[t].todo) \in Entries
  BY <1>1, BusyTyped
<1>2. \A e \in Entries :
          /\ e[1] \in {"threshold", "bootstrap"} => e[2] \in Nat
          /\ e[1] = "weights" => e[2] \in [1 .. 4 -> Int]
          /\ e[1] = "allow" => e[2] \in BOOLEAN
          /\ e[1] = "job" => e[2] \in JobsAsked
  BY HostAssumption DEF JobsAsked
<1>3. req[t].at = "event" => Head(req[t].todo)[1] = "threshold"
  BY DEF HandledInv
<1> QED BY <1>1, <1>2, <1>3 DEF Asks, Value

-----------------------------------------------------------------------------
(* What the steps do, field by field.                                      *)

(* One process of a step, the others as they are. *)
OtherProcs(p) == \A q \in Processes \ {p} : proc'[q] = proc[q]
OtherReqs(t) == \A x \in Threads \ {t} : req'[x] = req[x]


LEMMA LoadTyped ==
  ASSUME HostTypeOK, disk.settings # Torn
  PROVE  Settings_load \in Settings
  BY DiskTyped, DefaultsTyped DEF Settings_load

LEMMA MakeEffect ==
  ASSUME HostTypeOK, NEW p \in Processes, make_state(p)
  PROVE  /\ proc[p].at = "down" /\ disk.settings # Torn
         /\ proc'[p].at = "made" /\ proc'[p].mem = Settings_load
         /\ proc'[p].room = disk.row /\ proc'[p].file = NoFile
         /\ OtherProcs(p) /\ proc' \in [Processes -> ProcRec]
         /\ early' = IF Serving # {} THEN early \cup {p} ELSE early \ {p}
         /\ spent' \in 0 .. MaxEvents /\ UNCHANGED <<disk, req, ledger, clock, marks>>
<1> DEFINE n == [Down EXCEPT !.at = "made", !.mem = Settings_load, !.room = disk.row]
<1>1. /\ proc[p].at = "down" /\ disk.settings # Torn /\ proc' = [proc EXCEPT ![p] = n]
      /\ early' = IF Serving # {} THEN early \cup {p} ELSE early \ {p}
      /\ spent < MaxEvents /\ spent' = spent + 1
      /\ UNCHANGED <<disk, req, ledger, clock, marks>>
  BY DEF make_state, At
<1>2. /\ n \in ProcRec /\ n.at = "made" /\ n.mem = Settings_load /\ n.room = disk.row
      /\ n.file = NoFile
  BY <1>1, DownTyped, LoadTyped, DiskTyped DEF ProcRec
<1> HIDE DEF n
<1>3. proc'[p] = n /\ OtherProcs(p) /\ proc' \in [Processes -> ProcRec]
  BY <1>1, <1>2 DEF HostTypeOK, OtherProcs
<1>4. spent' \in 0 .. MaxEvents
  BY <1>1, Sizes, CountsTyped
<1> QED BY <1>1, <1>2, <1>3, <1>4

(* There is a name for a new file: there are more names than processes. *)
LEMMA NewFileTyped ==
  ASSUME HostTypeOK, disk.lock = NoFile
  PROVE  NewFile \in 1 .. Cardinality(Processes) + 1
<1> DEFINE f == [p \in Processes |-> proc[p].file]
           F == {proc[p].file : p \in Processes}
           n == Cardinality(Processes) + 1
<1>1. IsFiniteSet(F) /\ Cardinality(F) < n /\ n \in Nat
  <2>1. f \in Surjection(Processes, F)
    BY DEF Surjection
  <2>2. Cardinality(F) \in Nat /\ IsFiniteSet(F) /\ Cardinality(F) <= Cardinality(Processes)
    BY <2>1, HostAssumption, FS_Surjection, FS_CardinalityType
  <2> QED BY <2>2, Sizes
<1> HIDE DEF n
<1>2. ASSUME 1 .. n \subseteq F
      PROVE  FALSE
  <2>1. Cardinality(1 .. n) = n
    BY <1>1, FS_Interval
  <2>2. Cardinality(1 .. n) <= Cardinality(F) /\ Cardinality(F) \in Nat
    BY <1>1, <1>2, FS_Subset, FS_CardinalityType
  <2> QED BY <1>1, <2>1, <2>2
<1>3. \E x \in 1 .. n : x \notin InUse
  BY <1>1, <1>2 DEF InUse, NoFile
<1> QED BY <1>3 DEF NewFile, n

LEMMA OpenEffect ==
  ASSUME HostTypeOK, NEW p \in Processes, open_lock(p)
  PROVE  /\ proc[p].at = "made" /\ proc'[p].at = "opened"
         /\ proc'[p].mem = proc[p].mem /\ proc'[p].room = proc[p].room
         /\ proc'[p].file = disk'.lock /\ disk'.lock # NoFile
         /\ disk.lock # NoFile => disk'.lock = disk.lock
         /\ disk'.settings = disk.settings /\ disk'.row = disk.row
         /\ OtherProcs(p) /\ proc' \in [Processes -> ProcRec] /\ disk' \in DiskRec
         /\ UNCHANGED <<req, ledger, clock, spent, marks, early>>
<1> DEFINE f == IF disk.lock = NoFile THEN NewFile ELSE disk.lock
<1>1. /\ proc[p].at = "made" /\ disk' = [disk EXCEPT !.lock = f]
      /\ proc' = [proc EXCEPT ![p] = [proc[p] EXCEPT !.at = "opened", !.file = f]]
      /\ UNCHANGED <<req, ledger, clock, spent, marks, early>>
  BY DEF open_lock, At
<1>2. f \in 0 .. Cardinality(Processes) + 1 /\ f # NoFile
  <2>1. CASE disk.lock = NoFile
    BY <2>1, NewFileTyped, Sizes DEF NoFile
  <2>2. CASE disk.lock # NoFile
    BY <2>2, DiskTyped
  <2> QED BY <2>1, <2>2
<1>3. disk.lock # NoFile => f = disk.lock
  OBVIOUS
<1> HIDE DEF f
<1> DEFINE n == [proc[p] EXCEPT !.at = "opened", !.file = f]
<1>4. /\ n \in ProcRec /\ n.at = "opened" /\ n.mem = proc[p].mem /\ n.room = proc[p].room
      /\ n.file = f
  BY <1>2, ProcTyped DEF ProcRec
<1>5. proc' = [proc EXCEPT ![p] = n]
  BY <1>1
<1> HIDE DEF n
<1>6. proc'[p] = n /\ OtherProcs(p) /\ proc' \in [Processes -> ProcRec]
  BY <1>4, <1>5 DEF HostTypeOK, OtherProcs
<1>7. /\ disk' \in DiskRec /\ disk'.lock = f
      /\ disk'.settings = disk.settings /\ disk'.row = disk.row
  BY <1>1, <1>2 DEF HostTypeOK, DiskRec
<1> QED BY <1>1, <1>2, <1>3, <1>4, <1>6, <1>7

LEMMA AcquireEffect ==
  ASSUME HostTypeOK, NEW p \in Processes, acquire(p)
  PROVE  /\ proc[p].at = "opened" /\ ~HeldByOther(p) /\ proc'[p].at = "serving"
         /\ proc'[p].mem = proc[p].mem /\ proc'[p].room = proc[p].room
         /\ proc'[p].file = proc[p].file
         /\ OtherProcs(p) /\ proc' \in [Processes -> ProcRec]
         /\ early' = early \cup (Loading \ {p})
         /\ marks' = IF p \in early THEN marks \cup {"early"} ELSE marks
         /\ UNCHANGED <<disk, req, ledger, clock, spent>>
<1> DEFINE n == [proc[p] EXCEPT !.at = "serving"]
<1>1. /\ proc[p].at = "opened" /\ ~HeldByOther(p) /\ proc' = [proc EXCEPT ![p] = n]
      /\ early' = early \cup (Loading \ {p})
      /\ marks' = IF p \in early THEN marks \cup {"early"} ELSE marks
      /\ UNCHANGED <<disk, req, ledger, clock, spent>>
  BY DEF acquire, At
<1>2. /\ n \in ProcRec /\ n.at = "serving" /\ n.mem = proc[p].mem /\ n.room = proc[p].room
      /\ n.file = proc[p].file
  BY ProcTyped DEF ProcRec
<1> HIDE DEF n
<1>3. proc'[p] = n /\ OtherProcs(p) /\ proc' \in [Processes -> ProcRec]
  BY <1>1, <1>2 DEF HostTypeOK, OtherProcs
<1> QED BY <1>1, <1>2, <1>3

LEMMA ReleaseEffect ==
  ASSUME HostTypeOK, NEW p \in Processes, release(p)
  PROVE  /\ proc[p].at = "serving" /\ ReqOf(p) = {} /\ proc'[p].at = "unlocked"
         /\ proc'[p].file = NoFile
         /\ OtherProcs(p) /\ proc' \in [Processes -> ProcRec]
         /\ UNCHANGED <<disk, req, ledger, clock, spent, marks, early>>
<1> DEFINE n == [proc[p] EXCEPT !.at = "unlocked", !.file = NoFile]
<1>1. /\ proc[p].at = "serving" /\ ReqOf(p) = {} /\ proc' = [proc EXCEPT ![p] = n]
      /\ UNCHANGED <<disk, req, ledger, clock, spent, marks, early>>
  BY DEF release, At
<1>2. n \in ProcRec /\ n.at = "unlocked" /\ n.file = NoFile
  BY ProcTyped, Sizes DEF ProcRec
<1> HIDE DEF n
<1>3. proc'[p] = n /\ OtherProcs(p) /\ proc' \in [Processes -> ProcRec]
  BY <1>1, <1>2 DEF HostTypeOK, OtherProcs
<1> QED BY <1>1, <1>2, <1>3

(* acquire_refused and release_unlink end the process. *)
LEMMA EndEffect ==
  ASSUME HostTypeOK, NEW p \in Processes, acquire_refused(p) \/ release_unlink(p)
  PROVE  /\ proc[p].at \in {"opened", "unlocked"}
         /\ proc'[p].at = "down" /\ proc'[p].file = NoFile
         /\ OtherProcs(p) /\ proc' \in [Processes -> ProcRec] /\ disk' \in DiskRec
         /\ disk'.settings = disk.settings /\ disk'.row = disk.row
         /\ \/ disk' = disk
            \/ Windows => \A q \in Processes : proc[q].file # disk.lock
         /\ UNCHANGED <<req, ledger, clock, spent, marks, early>>
<1>1. /\ proc[p].at \in {"opened", "unlocked"} /\ proc' = [proc EXCEPT ![p] = Down]
      /\ UNCHANGED <<req, ledger, clock, spent, marks, early>>
      /\ \/ disk' = disk
         \/ /\ disk' = [disk EXCEPT !.lock = NoFile]
            /\ Windows => \A q \in Processes : proc[q].file # disk.lock
  BY DEF acquire_refused, release_unlink, At
<1>2. proc'[p] = Down /\ OtherProcs(p) /\ proc' \in [Processes -> ProcRec]
  BY <1>1, DownTyped DEF HostTypeOK, OtherProcs
<1>3. /\ disk' \in DiskRec /\ disk'.settings = disk.settings /\ disk'.row = disk.row
  <2>1. disk \in DiskRec
    BY DEF HostTypeOK
  <2> QED BY <1>1, <2>1, Sizes DEF DiskRec
<1> QED BY <1>1, <1>2, <1>3, DownTyped

LEMMA CrashEffect ==
  ASSUME HostTypeOK, NEW p \in Processes, crash(p)
  PROVE  /\ proc'[p].at = "down" /\ proc'[p].file = NoFile
         /\ OtherProcs(p) /\ proc' \in [Processes -> ProcRec]
         /\ \A t \in Threads : req'[t] = IF t \in ReqOf(p) THEN Free ELSE req[t]
         /\ req' \in [Threads -> ReqRec]
         /\ marks \subseteq marks' /\ marks' \subseteq marks \cup {"cut", "cut save"}
         /\ ReqOf(p) # {} => "cut" \in marks'
         /\ ReqOf(p) \cap Writing # {} => "cut save" \in marks'
         /\ UNCHANGED <<disk, ledger, clock, spent, early>>
<1>1. /\ proc' = [proc EXCEPT ![p] = Down]
      /\ req' = [t \in Threads |-> IF t \in ReqOf(p) THEN Free ELSE req[t]]
      /\ marks' = marks \cup (IF ReqOf(p) # {} THEN {"cut"} ELSE {})
                        \cup (IF ReqOf(p) \cap Writing # {} THEN {"cut save"} ELSE {})
      /\ UNCHANGED <<disk, ledger, clock, spent, early>>
  BY DEF crash
<1>2. proc'[p] = Down /\ OtherProcs(p) /\ proc' \in [Processes -> ProcRec]
  BY <1>1, DownTyped DEF HostTypeOK, OtherProcs
<1>3. req' \in [Threads -> ReqRec]
  BY <1>1, FreeTyped, ReqTyped
<1> QED BY <1>1, <1>2, <1>3, DownTyped

LEMMA RotateEffect ==
  ASSUME HostTypeOK, disk.row <= spent, NEW p \in Processes, rotate(p)
  PROVE  /\ proc[p].at = "serving" /\ proc'[p].at = "serving"
         /\ proc'[p].mem = proc[p].mem /\ proc'[p].room = disk'.row
         /\ proc'[p].file = proc[p].file /\ disk'.row = disk.row + 1
         /\ OtherProcs(p) /\ proc' \in [Processes -> ProcRec] /\ disk' \in DiskRec
         /\ disk'.settings = disk.settings /\ disk'.lock = disk.lock
         /\ spent' = spent + 1 /\ spent' \in 0 .. MaxEvents
         /\ UNCHANGED <<req, ledger, clock, marks, early>>
<1> DEFINE n == [proc[p] EXCEPT !.room = disk.row + 1]
<1>1. /\ proc[p].at = "serving" /\ proc' = [proc EXCEPT ![p] = n]
      /\ disk' = [disk EXCEPT !.row = disk.row + 1]
      /\ spent < MaxEvents /\ spent' = spent + 1
      /\ UNCHANGED <<req, ledger, clock, marks, early>>
  BY DEF rotate, At
<1>2. disk.row + 1 \in 0 .. MaxEvents /\ spent' \in 0 .. MaxEvents
  BY <1>1, DiskTyped, Sizes, CountsTyped
<1>3. /\ n \in ProcRec /\ n.at = "serving" /\ n.mem = proc[p].mem /\ n.room = disk.row + 1
      /\ n.file = proc[p].file
  BY <1>1, <1>2, ProcTyped DEF ProcRec
<1> HIDE DEF n
<1>4. proc'[p] = n /\ OtherProcs(p) /\ proc' \in [Processes -> ProcRec]
  BY <1>1, <1>3 DEF HostTypeOK, OtherProcs
<1>5. /\ disk' \in DiskRec /\ disk'.row = disk.row + 1
      /\ disk'.settings = disk.settings /\ disk'.lock = disk.lock
  BY <1>1, <1>2 DEF HostTypeOK, DiskRec
<1> QED BY <1>1, <1>2, <1>3, <1>4, <1>5

(* What a step of a request does that saves nothing: it may change what is *)
(* in force, and then is to save it or is refused.                         *)
Prepared(t) ==
    /\ proc' \in [Processes -> ProcRec] /\ req' \in [Threads -> ReqRec]
    /\ UNCHANGED <<disk, early>> /\ OtherReqs(t)
    /\ req[t].at \in {"idle", "next", "event"} /\ req'[t].at \in {"idle", "next", "save"}
    /\ req'[t].at # "idle" => req'[t].host \in Serving /\ req'[t].todo # <<>>
    /\ req'[t].ts <= clock'
    /\ \A p \in Processes :
         /\ proc'[p].at = proc[p].at /\ proc'[p].room = proc[p].room
         /\ proc'[p].file = proc[p].file
         /\ proc'[p].mem.allow => proc[p].mem.allow
         /\ \/ proc'[p].mem = proc[p].mem
            \/ "refused" \in marks'
            \/ req'[t].at = "save" /\ req'[t].host = p
    /\ marks \subseteq marks' /\ marks' \subseteq marks \cup {"crossed", "bootstrap", "refused"}
    /\ clock' \in 0 .. MaxClock /\ clock <= clock'
    /\ spent' \in 0 .. MaxEvents /\ spent <= spent'
    /\ ledger' \in Seq(RowRec) /\ \A i \in DOMAIN ledger' : ledger'[i].ts <= clock'

LEMMA LedgerTyped ==
  HostTypeOK => ledger \in Seq(RowRec) /\ \A i \in DOMAIN ledger : ledger[i].ts <= clock
  BY DEF HostTypeOK

LEMMA SetMemEffect ==
  ASSUME HostTypeOK, NEW h \in Processes, NEW mem \in Settings,
         proc' = [proc EXCEPT ![h].mem = mem]
  PROVE  /\ proc' \in [Processes -> ProcRec] /\ OtherProcs(h) /\ proc'[h].mem = mem
         /\ \A p \in Processes :
              /\ proc'[p].at = proc[p].at /\ proc'[p].room = proc[p].room
              /\ proc'[p].file = proc[p].file
<1> DEFINE n == [proc[h] EXCEPT !.mem = mem]
<1>1. proc' = [proc EXCEPT ![h] = n]
  OBVIOUS
<1>2. /\ n \in ProcRec /\ n.at = proc[h].at /\ n.mem = mem /\ n.room = proc[h].room
      /\ n.file = proc[h].file
  BY ProcTyped DEF ProcRec
<1> HIDE DEF n
<1>3. proc'[h] = n /\ OtherProcs(h) /\ proc' \in [Processes -> ProcRec]
  BY <1>1, <1>2 DEF HostTypeOK, OtherProcs
<1> QED BY <1>2, <1>3 DEF OtherProcs

LEMMA SetReqEffect ==
  ASSUME HostTypeOK, NEW t \in Threads, NEW n \in ReqRec, req' = [req EXCEPT ![t] = n]
  PROVE  req'[t] = n /\ OtherReqs(t) /\ req' \in [Threads -> ReqRec]
  BY DEF HostTypeOK, OtherReqs

LEMMA ToSaveEffect ==
  ASSUME HostTypeOK, NEW t \in Threads, NEW old \in Nat \cup {None}, ToSave(t, old)
  PROVE  /\ req'[t].at = "save" /\ req'[t].host = req[t].host /\ req'[t].todo = req[t].todo
         /\ req'[t].ts = req[t].ts /\ req'[t].old = old
         /\ OtherReqs(t) /\ req' \in [Threads -> ReqRec]
<1> DEFINE n == [req[t] EXCEPT !.at = "save", !.old = old]
<1>1. req' = [req EXCEPT ![t] = n]
  BY DEF ToSave
<1>2. /\ n \in ReqRec /\ n.at = "save" /\ n.host = req[t].host /\ n.todo = req[t].todo
      /\ n.ts = req[t].ts /\ n.old = old
  BY ReqTyped DEF ReqRec
<1> HIDE DEF n
<1> QED BY <1>1, <1>2, SetReqEffect

LEMMA BeginPrepares ==
  ASSUME HostTypeOK, NEW t \in Threads, NEW p \in Processes, NEW r \in Requests, begin(t, p, r)
  PROVE  Prepared(t)
<1> DEFINE n == [Free EXCEPT !.at = "next", !.host = p, !.todo = r, !.ts = clock']
<1>1. /\ req[t].at = "idle" /\ p \in Serving /\ req' = [req EXCEPT ![t] = n]
      /\ clock' \in {now \in {clock, clock + 1} : now <= MaxClock}
      /\ spent < MaxEvents /\ spent' = spent + 1
      /\ marks' = marks \/ marks' = marks \cup {"crossed"}
      /\ UNCHANGED <<proc, disk, ledger, early>>
  BY DEF begin, At, Serving
<1>2. /\ clock' \in 0 .. MaxClock /\ clock <= clock' /\ clock' \in Nat
      /\ spent' \in 0 .. MaxEvents /\ spent <= spent'
  BY <1>1, CountsTyped, Sizes
<1>3. r \in Seq(Entries) /\ r # <<>>
  BY HostAssumption
<1>4. n \in ReqRec /\ n.at = "next" /\ n.host = p /\ n.todo = r /\ n.ts = clock'
  BY <1>2, <1>3, FreeTyped DEF ReqRec
<1> HIDE DEF n
<1>5. req'[t] = n /\ OtherReqs(t) /\ req' \in [Threads -> ReqRec]
  BY <1>1, <1>4, SetReqEffect
<1>6. ledger' \in Seq(RowRec) /\ \A i \in DOMAIN ledger' : ledger'[i].ts <= clock'
  <2>1. \A i \in DOMAIN ledger : ledger[i] \in RowRec
    BY LedgerTyped
  <2>2. \A i \in DOMAIN ledger : ledger[i].ts \in Nat
    BY <2>1 DEF RowRec
  <2> QED BY <1>1, <1>2, <2>2, LedgerTyped, CountsTyped
<1>7. proc' \in [Processes -> ProcRec]
  BY <1>1 DEF HostTypeOK
<1> QED BY <1>1, <1>2, <1>3, <1>4, <1>5, <1>6, <1>7 DEF Prepared

LEMMA ThresholdPrepares ==
  ASSUME HostTypeOK, HandledInv, NEW t \in Threads, set_threshold(t)
  PROVE  Prepared(t)
<1> DEFINE h == req[t].host
           v == Value(t)
           mem == [Mem(t) EXCEPT !.threshold = v]
           old == IF v # Mem(t).threshold THEN Mem(t).threshold ELSE None
<1>1. /\ req[t].at = "next" /\ proc' = [proc EXCEPT ![h].mem = mem] /\ ToSave(t, old)
      /\ marks' = marks \/ marks' = marks \cup {"bootstrap"}
      /\ UNCHANGED <<disk, ledger, clock, spent, early>>
  BY DEF set_threshold, Asks, SetMem
<1>2. v \in Nat /\ h \in Processes /\ h \in Serving /\ req[t].todo # <<>>
  BY <1>1, ValueTyped, BusyTyped DEF set_threshold
<1>3. Mem(t) = proc[h].mem /\ Mem(t) \in Settings
  BY <1>2, ProcTyped DEF Mem
<1>4. mem \in Settings /\ mem.allow = Mem(t).allow /\ old \in Nat \cup {None}
  BY <1>2, <1>3 DEF Settings
<1> HIDE DEF mem, old, v
<1>5. /\ proc' \in [Processes -> ProcRec] /\ OtherProcs(h) /\ proc'[h].mem = mem
      /\ \A p \in Processes :
           /\ proc'[p].at = proc[p].at /\ proc'[p].room = proc[p].room
           /\ proc'[p].file = proc[p].file
  BY <1>1, <1>2, <1>4, SetMemEffect
<1>6. /\ req'[t].at = "save" /\ req'[t].host = h /\ req'[t].todo = req[t].todo
      /\ req'[t].ts = req[t].ts /\ OtherReqs(t) /\ req' \in [Threads -> ReqRec]
  BY <1>1, <1>4, ToSaveEffect
<1>7. req[t].ts <= clock
  BY ReqTyped
<1> HIDE DEF h
<1> QED BY <1>1, <1>2, <1>3, <1>4, <1>5, <1>6, <1>7, LedgerTyped, CountsTyped
        DEF Prepared, OtherProcs

LEMMA WeightsPrepares ==
  ASSUME HostTypeOK, HandledInv, NEW t \in Threads, set_weights(t)
  PROVE  Prepared(t)
<1> DEFINE h == req[t].host
           w == Value(t)
           Reached(i) == \A j \in 1 .. i : w[j] >= 0
           now == [i \in 1 .. 4 |-> IF Reached(i) THEN w[i] ELSE Mem(t).weights[i]]
           mem == [Mem(t) EXCEPT !.weights = now]
<1>1. /\ req[t].at = "next" /\ proc' = [proc EXCEPT ![h].mem = mem]
      /\ \/ ToSave(t, None) /\ marks' = marks
         \/ req' = [req EXCEPT ![t] = Free] /\ marks' = marks \cup {"refused"}
      /\ UNCHANGED <<disk, ledger, clock, spent, early>>
  BY DEF set_weights, Asks, SetMem
<1>2. w \in [1 .. 4 -> Int] /\ h \in Processes /\ h \in Serving /\ req[t].todo # <<>>
  BY <1>1, ValueTyped, BusyTyped DEF set_weights
<1>3. Mem(t) = proc[h].mem /\ Mem(t) \in Settings /\ Mem(t).weights \in [1 .. 4 -> Int]
  BY <1>2, ProcTyped DEF Mem
<1>4. now \in [1 .. 4 -> Int]
  <2> HIDE DEF Reached, w
  <2> QED BY <1>2, <1>3
<1> HIDE DEF now, Reached, w
<1>5. mem \in Settings /\ mem.allow = Mem(t).allow
  BY <1>3, <1>4 DEF Settings
<1> HIDE DEF mem
<1>6. /\ proc' \in [Processes -> ProcRec] /\ OtherProcs(h) /\ proc'[h].mem = mem
      /\ \A p \in Processes :
           /\ proc'[p].at = proc[p].at /\ proc'[p].room = proc[p].room
           /\ proc'[p].file = proc[p].file
  BY <1>1, <1>2, <1>5, SetMemEffect
<1>7. req[t].ts <= clock
  BY ReqTyped
<1>8. CASE ToSave(t, None) /\ marks' = marks
  <2>1. /\ req'[t].at = "save" /\ req'[t].host = h /\ req'[t].todo = req[t].todo
        /\ req'[t].ts = req[t].ts /\ OtherReqs(t) /\ req' \in [Threads -> ReqRec]
    BY <1>1, <1>8, ToSaveEffect
  <2> HIDE DEF h
  <2> QED BY <1>1, <1>2, <1>3, <1>5, <1>6, <1>7, <1>8, <2>1, LedgerTyped, CountsTyped
          DEF Prepared, OtherProcs
<1>9. CASE req' = [req EXCEPT ![t] = Free] /\ marks' = marks \cup {"refused"}
  <2>1. req'[t] = Free /\ OtherReqs(t) /\ req' \in [Threads -> ReqRec]
    BY <1>9, FreeTyped, SetReqEffect
  <2>2. req'[t].at = "idle" /\ req'[t].ts <= clock
    BY <2>1, FreeTyped, CountsTyped
  <2> HIDE DEF h
  <2> QED BY <1>1, <1>2, <1>3, <1>5, <1>6, <1>9, <2>1, <2>2, LedgerTyped, CountsTyped
          DEF Prepared, OtherProcs
<1> QED BY <1>1, <1>8, <1>9

(* A request that goes on to its next entry, or ends, in memory as it is. *)
LEMMA GoesOn ==
  ASSUME HostTypeOK, HandledInv, NEW t \in Threads, req[t].at \in {"next", "event"},
         req' = [req EXCEPT ![t] = Rest(req[t])] \/ req' = [req EXCEPT ![t] = Free],
         UNCHANGED <<proc, disk, clock, spent, marks, early>>,
         ledger' \in Seq(RowRec), \A i \in DOMAIN ledger' : ledger'[i].ts <= clock
  PROVE  Prepared(t)
<1>1. PICK n \in {Rest(req[t]), Free} : req' = [req EXCEPT ![t] = n]
  OBVIOUS
<1>2. /\ n \in ReqRec /\ n.at \in {"idle", "next"} /\ n.ts \in {0, req[t].ts}
      /\ n.at # "idle" => n.host = req[t].host /\ n.todo # <<>>
  BY RestTyped, FreeTyped
<1>3. req'[t] = n /\ OtherReqs(t) /\ req' \in [Threads -> ReqRec]
  BY <1>1, <1>2, SetReqEffect
<1>4. req[t].host \in Serving /\ req'[t].ts <= clock
  BY <1>2, <1>3, BusyTyped, ReqTyped, CountsTyped
<1>5. proc' \in [Processes -> ProcRec]
  BY DEF HostTypeOK
<1> QED BY <1>2, <1>3, <1>4, <1>5, CountsTyped DEF Prepared

LEMMA AllowPrepares ==
  ASSUME HostTypeOK, HandledInv, NEW t \in Threads, set_allow_tunnel(t)
  PROVE  Prepared(t)
<1>0. req[t].at = "next"
  BY DEF set_allow_tunnel, Asks
<1>1. CASE Value(t)
  BY <1>0, <1>1, GoesOn, LedgerTyped DEF set_allow_tunnel
<1>2. CASE ~Value(t)
  <2> DEFINE h == req[t].host
             mem == [Mem(t) EXCEPT !.allow = FALSE]
  <2>1. /\ proc' = [proc EXCEPT ![h].mem = mem] /\ ToSave(t, None)
        /\ UNCHANGED <<disk, ledger, clock, spent, marks, early>>
    BY <1>2 DEF set_allow_tunnel, SetMem
  <2>2. h \in Processes /\ h \in Serving /\ req[t].todo # <<>>
    BY <1>0, BusyTyped
  <2>3. mem \in Settings /\ ~mem.allow
    BY <2>2, ProcTyped DEF Mem, Settings
  <2> HIDE DEF mem
  <2>4. /\ proc' \in [Processes -> ProcRec] /\ OtherProcs(h) /\ proc'[h].mem = mem
        /\ \A p \in Processes :
             /\ proc'[p].at = proc[p].at /\ proc'[p].room = proc[p].room
             /\ proc'[p].file = proc[p].file
    BY <2>1, <2>2, <2>3, SetMemEffect
  <2>5. /\ req'[t].at = "save" /\ req'[t].host = h /\ req'[t].todo = req[t].todo
        /\ req'[t].ts = req[t].ts /\ OtherReqs(t) /\ req' \in [Threads -> ReqRec]
    BY <2>1, ToSaveEffect
  <2>6. req[t].ts <= clock
    BY ReqTyped
  <2> HIDE DEF h
  <2> QED BY <1>0, <2>1, <2>2, <2>3, <2>4, <2>5, <2>6, LedgerTyped, CountsTyped
          DEF Prepared, OtherProcs
<1> QED BY <1>1, <1>2

LEMMA RowPrepares ==
  ASSUME HostTypeOK, HandledInv, NEW t \in Threads, threshold_changed(t) \/ job_completed(t)
  PROVE  Prepared(t)
<1>1. /\ req[t].at \in {"next", "event"} /\ req' = [req EXCEPT ![t] = Rest(req[t])]
      /\ UNCHANGED <<proc, disk, clock, spent, marks, early>>
  BY DEF threshold_changed, job_completed, Asks
<1>2. req[t].host \in Processes /\ req[t].ts \in Nat /\ req[t].ts <= clock
      /\ req[t].old \in Nat \cup {None}
  BY <1>1, BusyTyped, ReqTyped
<1>3. PICK row \in RowRec : ledger' = Append(ledger, row) /\ row.ts = req[t].ts
  <2>1. CASE threshold_changed(t)
    <3> DEFINE row == Row(t, "threshold_changed", req[t].old, Value(t), Value(t), "system", None)
    <3>1. Value(t) \in Nat
      BY <2>1, ValueTyped DEF threshold_changed
    <3>2. row \in RowRec /\ row.ts = req[t].ts
      BY <1>2, <3>1 DEF Row, RowRec
    <3> QED BY <2>1, <3>2 DEF threshold_changed
  <2>2. CASE job_completed(t)
    <3> DEFINE j == Value(t)
               row == Row(t, "job_completed", None, None, Mem(t).threshold, j.node, j.job)
    <3>1. j \in JobsAsked
      BY <2>2, ValueTyped DEF job_completed
    <3>2. Mem(t).threshold \in Nat
      BY <1>2, ProcTyped DEF Mem
    <3> HIDE DEF j
    <3>3. row \in RowRec /\ row.ts = req[t].ts
      BY <1>2, <3>1, <3>2 DEF Row, RowRec
    <3> QED BY <2>2, <3>3 DEF job_completed, j
  <2> QED BY <2>1, <2>2
<1>4. ledger' \in Seq(RowRec) /\ \A i \in DOMAIN ledger' : ledger'[i].ts <= clock
  <2>1. /\ ledger' \in Seq(RowRec) /\ Len(ledger') = Len(ledger) + 1
        /\ \A i \in 1 .. Len(ledger) : ledger'[i] = ledger[i]
        /\ ledger'[Len(ledger) + 1] = row
    BY <1>3, LedgerTyped, AppendProperties
  <2>2. Len(ledger) \in Nat /\ DOMAIN ledger = 1 .. Len(ledger) /\ DOMAIN ledger' = 1 .. Len(ledger')
    BY <2>1, LedgerTyped, LenProperties
  <2>3. ASSUME NEW i \in DOMAIN ledger'
        PROVE  ledger'[i].ts <= clock
    <3>1. i \in 1 .. Len(ledger) \/ i = Len(ledger) + 1
      BY <2>1, <2>2
    <3> QED BY <1>2, <1>3, <2>1, <2>2, <3>1, LedgerTyped
  <2> QED BY <2>1, <2>3
<1> QED BY <1>1, <1>4, GoesOn

RequestStep(t) ==
    \/ \E p \in Processes, r \in Requests : begin(t, p, r)
    \/ set_threshold(t) \/ set_weights(t) \/ set_allow_tunnel(t)
    \/ threshold_changed(t) \/ job_completed(t)

LEMMA RequestEffect ==
  ASSUME HostTypeOK, HandledInv, NEW t \in Threads, RequestStep(t)
  PROVE  Prepared(t)
  BY BeginPrepares, ThresholdPrepares, WeightsPrepares, AllowPrepares, RowPrepares
     DEF RequestStep

LEMMA PersistEffect ==
  ASSUME HostTypeOK, HandledInv, NEW t \in Threads, _persist(t)
  PROVE  /\ req[t].at = "save" /\ req'[t].at = "close" /\ req'[t].host = req[t].host
         /\ req'[t].todo = req[t].todo /\ req'[t].ts = req[t].ts /\ req'[t].old = req[t].old
         /\ req'[t].text = proc[req[t].host].mem /\ req'[t].text \in Settings
         /\ OtherReqs(t) /\ req' \in [Threads -> ReqRec]
         /\ disk'.settings = Torn /\ disk'.row = disk.row /\ disk'.lock = disk.lock
         /\ disk' \in DiskRec
         /\ marks' = IF Writing # {} THEN marks \cup {"overlap"} ELSE marks
         /\ UNCHANGED <<proc, ledger, clock, spent, early>>
<1> DEFINE n == [req[t] EXCEPT !.at = "close", !.text = Mem(t)]
<1>1. /\ req[t].at = "save" /\ req' = [req EXCEPT ![t] = n]
      /\ disk' = [disk EXCEPT !.settings = Torn]
      /\ marks' = IF Writing # {} THEN marks \cup {"overlap"} ELSE marks
      /\ UNCHANGED <<proc, ledger, clock, spent, early>>
  BY DEF _persist
<1>2. Mem(t) = proc[req[t].host].mem /\ Mem(t) \in Settings
  BY <1>1, BusyTyped, ProcTyped DEF Mem
<1>3. /\ n \in ReqRec /\ n.at = "close" /\ n.host = req[t].host /\ n.todo = req[t].todo
      /\ n.ts = req[t].ts /\ n.text = Mem(t) /\ n.old = req[t].old
  BY <1>2, ReqTyped DEF ReqRec
<1> HIDE DEF n
<1>4. req'[t] = n /\ OtherReqs(t) /\ req' \in [Threads -> ReqRec]
  BY <1>1, <1>3, SetReqEffect
<1>5. /\ disk'.settings = Torn /\ disk'.row = disk.row /\ disk'.lock = disk.lock
      /\ disk' \in DiskRec
  BY <1>1 DEF HostTypeOK, DiskRec
<1> QED BY <1>1, <1>2, <1>3, <1>4, <1>5

LEMMA CloseEffect ==
  ASSUME HostTypeOK, HandledInv, NEW t \in Threads, _persist_close(t)
  PROVE  /\ req[t].at = "close" /\ req'[t].at \in {"idle", "next", "event"}
         /\ req'[t].at # "idle" => req'[t].host = req[t].host /\ req'[t].todo # <<>>
         /\ req'[t].at = "event" => Head(req'[t].todo)[1] = "threshold"
         /\ req'[t].ts <= clock /\ OtherReqs(t) /\ req' \in [Threads -> ReqRec]
         /\ \/ /\ req'[t].at = "event" /\ req[t].old # None /\ req'[t].old = req[t].old
               /\ req'[t].todo = req[t].todo /\ req'[t].ts = req[t].ts
            \/ /\ req'[t] = Rest(req[t])
               /\ Head(req[t].todo)[1] = "threshold" => req[t].old = None
         /\ req[t].text \in Settings
         /\ disk'.settings \in {req[t].text, Torn}
         /\ disk.settings = Torn => disk'.settings = req[t].text
         /\ disk'.row = disk.row /\ disk'.lock = disk.lock /\ disk' \in DiskRec
         /\ marks' = IF req[t].text.allow THEN marks ELSE marks \cup {"forbidden"}
         /\ UNCHANGED <<proc, ledger, clock, spent, early>>
<1>1. /\ req[t].at = "close"
      /\ marks' = IF req[t].text.allow THEN marks ELSE marks \cup {"forbidden"}
      /\ UNCHANGED <<proc, ledger, clock, spent, early>>
  BY DEF _persist_close
<1>2. req[t].text \in Settings
  BY <1>1 DEF HandledInv, Writing
<1>3. PICK x \in {req[t].text, Torn} : /\ disk' = [disk EXCEPT !.settings = x]
                                       /\ disk.settings = Torn => x = req[t].text
  BY DEF _persist_close, Covers
<1>4. /\ disk'.settings = x /\ disk'.row = disk.row /\ disk'.lock = disk.lock
      /\ disk' \in DiskRec
  BY <1>2, <1>3 DEF HostTypeOK, DiskRec
<1> DEFINE e == [req[t] EXCEPT !.at = "event", !.text = None]
<1>5. \/ /\ req' = [req EXCEPT ![t] = e]
         /\ Head(req[t].todo)[1] = "threshold" /\ req[t].old # None
      \/ /\ req' = [req EXCEPT ![t] = Rest(req[t])]
         /\ Head(req[t].todo)[1] = "threshold" => req[t].old = None
  BY DEF _persist_close
<1>6. /\ e \in ReqRec /\ e.at = "event" /\ e.host = req[t].host /\ e.todo = req[t].todo
      /\ e.ts = req[t].ts /\ e.old = req[t].old
  BY ReqTyped DEF ReqRec
<1> HIDE DEF e
<1>7. req[t].todo # <<>> /\ req[t].ts <= clock /\ 0 <= clock
  BY <1>1, BusyTyped, ReqTyped, CountsTyped
<1>8. CASE /\ req' = [req EXCEPT ![t] = e]
           /\ Head(req[t].todo)[1] = "threshold" /\ req[t].old # None
  <2>1. req'[t] = e /\ OtherReqs(t) /\ req' \in [Threads -> ReqRec]
    BY <1>6, <1>8, SetReqEffect
  <2> QED BY <1>1, <1>2, <1>3, <1>4, <1>6, <1>7, <1>8, <2>1
<1>9. CASE /\ req' = [req EXCEPT ![t] = Rest(req[t])]
           /\ Head(req[t].todo)[1] = "threshold" => req[t].old = None
  <2> DEFINE n == Rest(req[t])
  <2>1. /\ n \in ReqRec /\ n.at \in {"idle", "next"} /\ n.ts \in {0, req[t].ts}
        /\ n.at # "idle" => n.host = req[t].host /\ n.todo # <<>>
    BY <1>1, RestTyped
  <2>0. n = Rest(req[t])
    OBVIOUS
  <2> HIDE DEF n
  <2>2. req'[t] = n /\ OtherReqs(t) /\ req' \in [Threads -> ReqRec]
    BY <1>9, <2>0, <2>1, SetReqEffect
  <2> QED BY <1>9, <2>0, <1>1, <1>2, <1>3, <1>4, <1>7, <2>1, <2>2
<1> QED BY <1>5, <1>8, <1>9

LEMMA FailEffect ==
  ASSUME HostTypeOK, NEW t \in Threads, _persist_fails(t)
  PROVE  /\ req[t].at \in {"save", "close"} /\ req'[t].at = "idle" /\ req'[t].ts = 0
         /\ OtherReqs(t) /\ req' \in [Threads -> ReqRec]
         /\ disk'.settings = IF req[t].at = "save" THEN disk.settings ELSE Torn
         /\ disk'.row = disk.row /\ disk'.lock = disk.lock /\ disk' \in DiskRec
         /\ marks' = marks \cup {"failed"}
         /\ UNCHANGED <<proc, ledger, clock, spent, early>>
<1>1. /\ req[t].at \in {"save", "close"} /\ req' = [req EXCEPT ![t] = Free]
      /\ disk' = IF req[t].at = "save" THEN disk ELSE [disk EXCEPT !.settings = Torn]
      /\ marks' = marks \cup {"failed"}
      /\ UNCHANGED <<proc, ledger, clock, spent, early>>
  BY DEF _persist_fails
<1>2. req'[t] = Free /\ OtherReqs(t) /\ req' \in [Threads -> ReqRec]
  BY <1>1, FreeTyped, SetReqEffect
<1>3. /\ disk'.settings = IF req[t].at = "save" THEN disk.settings ELSE Torn
      /\ disk'.row = disk.row /\ disk'.lock = disk.lock /\ disk' \in DiskRec
  BY <1>1 DEF HostTypeOK, DiskRec
<1> QED BY <1>1, <1>2, <1>3, FreeTyped

-----------------------------------------------------------------------------
(* Every step keeps the invariant.                                         *)

(* What the steps of a process leave alone. *)
LEMMA StepOf ==
  ASSUME [HostNext]_hostVars
  PROVE  \/ UNCHANGED hostVars
         \/ \E p \in Processes :
              \/ make_state(p) \/ open_lock(p) \/ acquire(p) \/ release(p)
              \/ acquire_refused(p) \/ release_unlink(p) \/ crash(p) \/ rotate(p)
         \/ \E t \in Threads :
              RequestStep(t) \/ _persist(t) \/ _persist_close(t) \/ _persist_fails(t)
  BY DEF HostNext, RequestStep

(* The row counts changes, and there are no more of them than events. *)
RowsInv == disk.row <= spent

LEMMA TypesKept ==
  ASSUME HostTypeOK, UNCHANGED <<ledger, clock>>,
         proc' \in [Processes -> ProcRec], disk' \in DiskRec, req' \in [Threads -> ReqRec],
         \A t \in Threads : req'[t].ts <= clock,
         spent' \in 0 .. MaxEvents, disk'.row <= spent',
         early' \subseteq Processes, marks' \subseteq MarkKinds
  PROVE  HostTypeOK' /\ RowsInv'
  BY DEF HostTypeOK, RowsInv

LEMMA TypeStep ==
  ASSUME HostTypeOK, HandledInv, RowsInv, [HostNext]_hostVars
  PROVE  HostTypeOK' /\ RowsInv'
<1>1. /\ early \subseteq Processes /\ disk \in DiskRec /\ spent \in 0 .. MaxEvents
      /\ proc \in [Processes -> ProcRec] /\ req \in [Threads -> ReqRec]
  BY DEF HostTypeOK
<1>2. spent \in Nat /\ clock \in Nat /\ disk.row \in Nat /\ disk.row <= spent
  BY CountsTyped, DiskTyped, Sizes DEF RowsInv
<1>3. \A t \in Threads : req[t].ts <= clock
  BY ReqTyped
<1>4. marks \subseteq MarkKinds
  BY MarksTyped
<1>5. CASE UNCHANGED hostVars
  BY <1>1, <1>2, <1>3, <1>4, <1>5, TypesKept DEF hostVars
<1>6. ASSUME NEW p \in Processes, make_state(p)
      PROVE  HostTypeOK' /\ RowsInv'
  <2>1. spent' = spent + 1
    BY <1>6 DEF make_state
  <2>2. disk'.row <= spent'
    BY <1>2, <1>6, <2>1, MakeEffect
  <2>3. early' \subseteq Processes
    BY <1>1, <1>6, MakeEffect
  <2> QED BY <1>1, <1>3, <1>4, <1>6, <2>2, <2>3, MakeEffect, TypesKept
<1>7. ASSUME NEW p \in Processes, open_lock(p)
      PROVE  HostTypeOK' /\ RowsInv'
  BY <1>1, <1>2, <1>3, <1>4, <1>7, OpenEffect, TypesKept
<1>8. ASSUME NEW p \in Processes, acquire(p)
      PROVE  HostTypeOK' /\ RowsInv'
  <2>1. early' \subseteq Processes
    BY <1>1, <1>8, AcquireEffect DEF Loading
  <2>2. marks' \subseteq MarkKinds
    <3>1. "early" \in MarkKinds
      BY DEF MarkKinds
    <3>2. marks' = marks \/ marks' = marks \cup {"early"}
      BY <1>8, AcquireEffect
    <3> QED BY <1>4, <3>1, <3>2
  <2> QED BY <1>1, <1>2, <1>3, <1>8, <2>1, <2>2, AcquireEffect, TypesKept
<1>9. ASSUME NEW p \in Processes, release(p)
      PROVE  HostTypeOK' /\ RowsInv'
  BY <1>1, <1>2, <1>3, <1>4, <1>9, ReleaseEffect, TypesKept
<1>10. ASSUME NEW p \in Processes, acquire_refused(p) \/ release_unlink(p)
       PROVE  HostTypeOK' /\ RowsInv'
  BY <1>1, <1>2, <1>3, <1>4, <1>10, EndEffect, TypesKept
<1>11. ASSUME NEW p \in Processes, crash(p)
       PROVE  HostTypeOK' /\ RowsInv'
  <2>1. ASSUME NEW t \in Threads
        PROVE  req'[t].ts <= clock
    <3>1. req'[t] = Free \/ req'[t] = req[t]
      BY <1>11, CrashEffect
    <3> QED BY <1>2, <1>3, <3>1, FreeTyped
  <2>2. marks' \subseteq MarkKinds
    BY <1>4, <1>11, CrashEffect, MarksTyped
  <2> QED BY <1>1, <1>2, <1>11, <2>1, <2>2, CrashEffect, TypesKept
<1>12. ASSUME NEW p \in Processes, rotate(p)
       PROVE  HostTypeOK' /\ RowsInv'
  <2>1. disk'.row <= spent'
    BY <1>2, <1>12, RotateEffect
  <2> QED BY <1>1, <1>2, <1>3, <1>4, <1>12, <2>1, RotateEffect, TypesKept
<1>13. ASSUME NEW t \in Threads, RequestStep(t)
       PROVE  HostTypeOK' /\ RowsInv'
  <2>1. Prepared(t)
    BY <1>13, RequestEffect
  <2>2. clock' \in Nat /\ clock <= clock' /\ spent' \in Nat /\ spent <= spent'
    BY <2>1, Sizes DEF Prepared
  <2>3. ASSUME NEW x \in Threads
        PROVE  req'[x].ts <= clock'
    <3>1. req[x].ts \in Nat /\ req[x].ts <= clock
      BY ReqTyped
    <3> QED BY <1>2, <2>1, <2>2, <3>1 DEF Prepared, OtherReqs
  <2>4. marks' \subseteq MarkKinds
    BY <1>4, <2>1, MarksTyped DEF Prepared
  <2>5. RowsInv'
    BY <1>2, <2>1, <2>2 DEF Prepared, RowsInv
  <2> QED BY <1>1, <2>1, <2>3, <2>4, <2>5 DEF Prepared, HostTypeOK
<1>14. ASSUME NEW t \in Threads, _persist(t)
       PROVE  HostTypeOK' /\ RowsInv'
  <2>1. \A x \in Threads : req'[x].ts <= clock
    BY <1>3, <1>14, PersistEffect DEF OtherReqs
  <2>2. marks' \subseteq MarkKinds
    <3>1. marks' = IF Writing # {} THEN marks \cup {"overlap"} ELSE marks
      BY <1>14, PersistEffect
    <3> QED BY <1>4, <3>1, MarksTyped
  <2> QED BY <1>1, <1>2, <1>14, <2>1, <2>2, PersistEffect, TypesKept
<1>15. ASSUME NEW t \in Threads, _persist_close(t)
       PROVE  HostTypeOK' /\ RowsInv'
  <2>1. \A x \in Threads : req'[x].ts <= clock
    BY <1>3, <1>15, CloseEffect DEF OtherReqs
  <2>2. marks' \subseteq MarkKinds
    BY <1>4, <1>15, CloseEffect, MarksTyped
  <2> QED BY <1>1, <1>2, <1>15, <2>1, <2>2, CloseEffect, TypesKept
<1>16. ASSUME NEW t \in Threads, _persist_fails(t)
       PROVE  HostTypeOK' /\ RowsInv'
  <2>1. \A x \in Threads : req'[x].ts <= clock
    BY <1>2, <1>3, <1>16, FailEffect DEF OtherReqs
  <2>2. marks' \subseteq MarkKinds
    BY <1>4, <1>16, FailEffect, MarksTyped
  <2> QED BY <1>1, <1>2, <1>16, <2>1, <2>2, FailEffect, TypesKept
<1> QED BY StepOf, <1>5, <1>6, <1>7, <1>8, <1>9, <1>10, <1>11, <1>12, <1>13, <1>14, <1>15, <1>16

LEMMA LockStep ==
  ASSUME Windows, HostTypeOK, LockInv, HandledInv, RowsInv, [HostNext]_hostVars
  PROVE  LockInv'
<1> USE DEF LockInv, Serving, At, OtherProcs
<1>1. CASE UNCHANGED hostVars
  BY <1>1 DEF hostVars
<1>2. ASSUME NEW p \in Processes, make_state(p)
      PROVE  LockInv'
  BY <1>2, MakeEffect
<1>3. ASSUME NEW p \in Processes, open_lock(p)
      PROVE  LockInv'
  BY <1>3, OpenEffect
<1>4. ASSUME NEW p \in Processes, acquire(p)
      PROVE  LockInv'
  BY <1>4, AcquireEffect DEF HeldByOther
<1>5. ASSUME NEW p \in Processes, release(p)
      PROVE  LockInv'
  BY <1>5, ReleaseEffect
<1>6. ASSUME NEW p \in Processes, acquire_refused(p) \/ release_unlink(p)
      PROVE  LockInv'
  BY <1>6, EndEffect
<1>7. ASSUME NEW p \in Processes, crash(p)
      PROVE  LockInv'
  BY <1>7, CrashEffect
<1>8. ASSUME NEW p \in Processes, rotate(p)
      PROVE  LockInv'
  BY <1>8, RotateEffect DEF RowsInv
<1>9. ASSUME NEW t \in Threads, RequestStep(t)
      PROVE  LockInv'
  BY <1>9, RequestEffect DEF Prepared
<1>10. ASSUME NEW t \in Threads, _persist(t)
       PROVE  LockInv'
  BY <1>10, PersistEffect
<1>11. ASSUME NEW t \in Threads, _persist_close(t)
       PROVE  LockInv'
  BY <1>11, CloseEffect
<1>12. ASSUME NEW t \in Threads, _persist_fails(t)
       PROVE  LockInv'
  BY <1>12, FailEffect
<1> QED BY StepOf, <1>1, <1>2, <1>3, <1>4, <1>5, <1>6, <1>7, <1>8, <1>9, <1>10, <1>11, <1>12

LEMMA HandledStep ==
  ASSUME HostTypeOK, HandledInv, RowsInv, [HostNext]_hostVars
  PROVE  HandledInv'
<1> USE DEF HandledInv, Serving, Busy, Writing, At, OtherProcs, OtherReqs
<1>1. CASE UNCHANGED hostVars
  BY <1>1 DEF hostVars
<1>2. ASSUME NEW p \in Processes, make_state(p)
      PROVE  HandledInv'
  BY <1>2, MakeEffect
<1>3. ASSUME NEW p \in Processes, open_lock(p)
      PROVE  HandledInv'
  BY <1>3, OpenEffect
<1>4. ASSUME NEW p \in Processes, acquire(p)
      PROVE  HandledInv'
  BY <1>4, AcquireEffect
<1>5. ASSUME NEW p \in Processes, release(p)
      PROVE  HandledInv'
  BY <1>5, ReleaseEffect DEF ReqOf
<1>6. ASSUME NEW p \in Processes, acquire_refused(p) \/ release_unlink(p)
      PROVE  HandledInv'
  BY <1>6, EndEffect
<1>7. ASSUME NEW p \in Processes, crash(p)
      PROVE  HandledInv'
  <2>1. \A t \in Threads : \/ req'[t].at = "idle"
                           \/ req'[t] = req[t] /\ t \notin ReqOf(p)
    BY <1>7, CrashEffect, FreeTyped
  <2>2. \A t \in Threads : req'[t].at # "idle" => req'[t] = req[t] /\ req[t].host # p
    BY <2>1 DEF ReqOf
  <2>3. \A q \in Processes \ {p} : proc'[q] = proc[q]
    BY <1>7, CrashEffect
  <2>4. \A t \in Threads : req'[t].at # "idle" =>
           /\ req'[t].host \in Processes /\ proc'[req'[t].host].at = "serving"
           /\ req'[t].todo # <<>>
    BY <2>2, <2>3
  <2>5. \A t \in Threads : /\ req'[t].at = "close" => req'[t].text \in Settings
                           /\ req'[t].at = "event" => Head(req'[t].todo)[1] = "threshold"
    BY <2>2
  <2> QED BY <2>4, <2>5
<1>8. ASSUME NEW p \in Processes, rotate(p)
      PROVE  HandledInv'
  BY <1>8, RotateEffect DEF RowsInv
<1>9. ASSUME NEW t \in Threads, RequestStep(t)
      PROVE  HandledInv'
  BY <1>9, RequestEffect DEF Prepared
<1>10. ASSUME NEW t \in Threads, _persist(t)
       PROVE  HandledInv'
  BY <1>10, PersistEffect
<1>11. ASSUME NEW t \in Threads, _persist_close(t)
       PROVE  HandledInv'
  BY <1>11, CloseEffect
<1>12. ASSUME NEW t \in Threads, _persist_fails(t)
       PROVE  HandledInv'
  BY <1>12, FailEffect
<1> QED BY StepOf, <1>1, <1>2, <1>3, <1>4, <1>5, <1>6, <1>7, <1>8, <1>9, <1>10, <1>11, <1>12

LEMMA EarlyStep ==
  ASSUME HostTypeOK, HandledInv, RowsInv, EarlyInv, [HostNext]_hostVars
  PROVE  EarlyInv'
<1> USE DEF EarlyInv, Serving, Loading, At, OtherProcs
<1>1. CASE UNCHANGED hostVars
  BY <1>1 DEF hostVars
<1>2. ASSUME NEW p \in Processes, make_state(p)
      PROVE  EarlyInv'
  BY <1>2, MakeEffect
<1>3. ASSUME NEW p \in Processes, open_lock(p)
      PROVE  EarlyInv'
  BY <1>3, OpenEffect
<1>4. ASSUME NEW p \in Processes, acquire(p)
      PROVE  EarlyInv'
  <2>1. p \in Loading /\ Serving' = Serving \cup {p} /\ Loading' = Loading \ {p}
    BY <1>4, AcquireEffect
  <2>2. early' = early \cup (Loading \ {p}) /\ (p \in early => "early" \in marks')
    BY <1>4, AcquireEffect
  <2>3. p \notin early => Serving = {}
    BY <2>1
  <2> HIDE DEF Serving, Loading
  <2> QED BY <2>1, <2>2, <2>3
<1>5. ASSUME NEW p \in Processes, release(p)
      PROVE  EarlyInv'
  BY <1>5, ReleaseEffect
<1>6. ASSUME NEW p \in Processes, acquire_refused(p) \/ release_unlink(p)
      PROVE  EarlyInv'
  BY <1>6, EndEffect
<1>7. ASSUME NEW p \in Processes, crash(p)
      PROVE  EarlyInv'
  <2>1. /\ \A q \in Processes : proc'[q] = proc[q] \/ proc'[q].at = "down"
        /\ marks \subseteq marks' /\ early' = early
    BY <1>7, CrashEffect
  <2>2. Serving' \subseteq Serving /\ Loading' \subseteq Loading
    BY <2>1
  <2>3. Serving' # {} => Serving # {}
    BY <2>2
  <2> QED BY <2>1, <2>2, <2>3
<1>8. ASSUME NEW p \in Processes, rotate(p)
      PROVE  EarlyInv'
  BY <1>8, RotateEffect DEF RowsInv
<1>9. ASSUME NEW t \in Threads, RequestStep(t)
      PROVE  EarlyInv'
  BY <1>9, RequestEffect DEF Prepared
<1>10. ASSUME NEW t \in Threads, _persist(t)
       PROVE  EarlyInv'
  BY <1>10, PersistEffect
<1>11. ASSUME NEW t \in Threads, _persist_close(t)
       PROVE  EarlyInv'
  BY <1>11, CloseEffect
<1>12. ASSUME NEW t \in Threads, _persist_fails(t)
       PROVE  EarlyInv'
  BY <1>12, FailEffect
<1> QED BY StepOf, <1>1, <1>2, <1>3, <1>4, <1>5, <1>6, <1>7, <1>8, <1>9, <1>10, <1>11, <1>12

(* A step that neither saves nor ends a save. *)
LEMMA SaveKept ==
  ASSUME SaveInv, marks \subseteq marks', "overlap" \in marks' => "overlap" \in marks,
         disk'.settings = disk.settings,
         \A t \in Threads : req'[t].at = "close" <=> req[t].at = "close"
  PROVE  SaveInv'
  BY DEF SaveInv

LEMMA SaveStep ==
  ASSUME HostTypeOK, HandledInv, RowsInv, SaveInv, [HostNext]_hostVars
  PROVE  SaveInv'
<1>0. \A t \in Threads : req[t].at = "close" => req[t].text # Torn
  BY HostAssumption DEF HandledInv, Writing
<1>1. CASE UNCHANGED hostVars
  BY <1>1, SaveKept DEF hostVars
<1>2. ASSUME NEW p \in Processes,
             \/ make_state(p) \/ open_lock(p) \/ acquire(p) \/ release(p)
             \/ acquire_refused(p) \/ release_unlink(p) \/ rotate(p)
      PROVE  SaveInv'
  <2>1. /\ req' = req /\ disk'.settings = disk.settings
        /\ marks' = marks \/ marks' = marks \cup {"early"}
    BY <1>2, MakeEffect, OpenEffect, AcquireEffect, ReleaseEffect, EndEffect, RotateEffect
       DEF RowsInv
  <2> QED BY <2>1, SaveKept
<1>3. ASSUME NEW p \in Processes, crash(p)
      PROVE  SaveInv'
  <2>1. \A t \in Threads : req'[t] = IF t \in ReqOf(p) THEN Free ELSE req[t]
    BY <1>3, CrashEffect
  <2>2. /\ marks \subseteq marks' /\ ("overlap" \in marks' => "overlap" \in marks)
        /\ disk' = disk
    BY <1>3, CrashEffect
  <2>3. CASE ReqOf(p) \cap Writing # {}
    <3>1. "cut save" \in marks'
      BY <1>3, <2>3, CrashEffect
    <3>2. \A t \in Threads : req'[t].at = "close" => req[t].at = "close"
      BY <2>1, FreeTyped
    <3> QED BY <2>2, <3>1, <3>2 DEF SaveInv
  <2>4. CASE ReqOf(p) \cap Writing = {}
    <3>1. \A t \in Threads : t \in ReqOf(p) => req[t].at # "close"
      BY <2>4 DEF Writing
    <3>2. \A t \in Threads : req'[t].at = "close" <=> req[t].at = "close"
      BY <2>1, <3>1, FreeTyped
    <3> QED BY <2>2, <3>2, SaveKept
  <2> QED BY <2>3, <2>4
<1>4. ASSUME NEW t \in Threads, RequestStep(t)
      PROVE  SaveInv'
  <2>1. Prepared(t)
    BY <1>4, RequestEffect
  <2>2. /\ disk' = disk /\ marks \subseteq marks' /\ ("overlap" \in marks' => "overlap" \in marks)
        /\ req'[t].at # "close" /\ req[t].at # "close"
        /\ \A x \in Threads \ {t} : req'[x] = req[x]
    BY <2>1 DEF Prepared, OtherReqs
  <2>3. \A x \in Threads : req'[x].at = "close" <=> req[x].at = "close"
    BY <2>2
  <2> QED BY <2>2, <2>3, SaveKept
<1>5. ASSUME NEW t \in Threads, _persist(t)
      PROVE  SaveInv'
  <2>1. /\ req[t].at = "save" /\ req'[t].at = "close" /\ disk'.settings = Torn
        /\ \A x \in Threads \ {t} : req'[x] = req[x]
        /\ marks' = IF Writing # {} THEN marks \cup {"overlap"} ELSE marks
    BY <1>5, PersistEffect DEF OtherReqs
  <2>2. "overlap" \notin marks' => \A x \in Threads : req[x].at # "close"
    BY <2>1 DEF Writing
  <2> QED BY <2>1, <2>2 DEF SaveInv
<1>6. ASSUME NEW t \in Threads, _persist_close(t)
      PROVE  SaveInv'
  <2>1. /\ req[t].at = "close" /\ req'[t].at # "close"
        /\ \A x \in Threads \ {t} : req'[x] = req[x]
        /\ disk.settings = Torn => disk'.settings = req[t].text
        /\ marks' = marks \/ marks' = marks \cup {"forbidden"}
    BY <1>6, CloseEffect DEF OtherReqs
  <2>2. CASE "overlap" \in marks
    BY <2>1, <2>2 DEF SaveInv
  <2>3. CASE "overlap" \notin marks
    <3>1. disk.settings = Torn /\ \A s \in Threads : req[s].at = "close" => s = t
      BY <2>1, <2>3 DEF SaveInv
    <3>2. disk'.settings # Torn /\ \A s \in Threads : req'[s].at # "close"
      BY <1>0, <2>1, <3>1
    <3> QED BY <3>2 DEF SaveInv
  <2> QED BY <2>2, <2>3
<1>7. ASSUME NEW t \in Threads, _persist_fails(t)
      PROVE  SaveInv'
  <2>1. /\ req'[t].at = "idle" /\ \A x \in Threads \ {t} : req'[x] = req[x]
        /\ req[t].at # "close" => disk'.settings = disk.settings
        /\ req[t].at = "close" => disk'.settings = Torn
        /\ marks' = marks \cup {"failed"}
    BY <1>7, FailEffect DEF OtherReqs
  <2>2. \A x \in Threads : req'[x].at = "close" => req[x].at = "close" /\ x # t
    BY <2>1
  <2>3. \A x \in Threads : req'[x].at = "close" /\ "overlap" \notin marks' =>
            disk'.settings = Torn /\ \A s \in Threads : req'[s].at = "close" => s = x
    BY <2>1, <2>2 DEF SaveInv
  <2> QED BY <2>1, <2>3 DEF SaveInv
<1> QED BY StepOf, <1>1, <1>2, <1>3, <1>4, <1>5, <1>6, <1>7

(* Where one process serves, a request is of that one, and everyone who is *)
(* loading is early.                                                       *)
LEMMA AloneThere ==
  ASSUME HostTypeOK, LockInv, HandledInv, EarlyInv, NEW h \in Serving
  PROVE  /\ Serving = {h} /\ h \in Processes /\ Loading \subseteq early
         /\ \A t \in Busy : req[t].host = h
  BY DEF LockInv, HandledInv, EarlyInv, Serving

LEMMA ForbidStep ==
  ASSUME HostTypeOK, HandledInv, RowsInv, LockInv, EarlyInv, SaveInv, ForbidInv,
         [HostNext]_hostVars
  PROVE  ForbidInv'
<1> USE DEF ForbidInv, Forbidding, Writing, Serving, Loading, At, OtherReqs, OtherProcs
<1>0. /\ \A t \in Threads : req[t].at # "idle" =>
           req[t].host \in Processes /\ proc[req[t].host].at = "serving"
      /\ Missing # Torn
  BY HostAssumption DEF HandledInv, Busy
<1>1. CASE UNCHANGED hostVars
  BY <1>1 DEF hostVars
<1>2. ASSUME NEW p \in Processes, make_state(p)
      PROVE  ForbidInv'
  BY <1>0, <1>2, MakeEffect DEF Settings_load
<1>3. ASSUME NEW p \in Processes, open_lock(p)
      PROVE  ForbidInv'
  BY <1>0, <1>3, OpenEffect
<1>4. ASSUME NEW p \in Processes, acquire(p)
      PROVE  ForbidInv'
  BY <1>0, <1>4, AcquireEffect
<1>5. ASSUME NEW p \in Processes, release(p)
      PROVE  ForbidInv'
  BY <1>0, <1>5, ReleaseEffect DEF ReqOf, Busy
<1>6. ASSUME NEW p \in Processes, acquire_refused(p) \/ release_unlink(p)
      PROVE  ForbidInv'
  BY <1>0, <1>6, EndEffect
<1>7. ASSUME NEW p \in Processes, crash(p)
      PROVE  ForbidInv'
  <2>1. \A t \in Threads : \/ req'[t].at = "idle"
                           \/ req'[t] = req[t] /\ t \notin ReqOf(p)
    BY <1>7, CrashEffect, FreeTyped
  <2>2. \A t \in Threads : req'[t].at # "idle" => req'[t] = req[t] /\ req[t].host # p
    BY <2>1 DEF ReqOf, Busy
  <2>3. /\ \A q \in Processes : proc'[q].at # "down" => proc'[q] = proc[q]
        /\ \A q \in Processes \ {p} : proc'[q] = proc[q]
        /\ disk' = disk /\ early' = early
    BY <1>7, CrashEffect
  <2>4. marks \subseteq marks' /\ ("forbidden" \in marks' => "forbidden" \in marks)
    BY <1>7, CrashEffect
  <2> QED BY <1>0, <2>2, <2>3, <2>4
<1>8. ASSUME NEW p \in Processes, rotate(p)
      PROVE  ForbidInv'
  BY <1>0, <1>8, RotateEffect DEF RowsInv
<1>9. ASSUME NEW t \in Threads, RequestStep(t)
      PROVE  ForbidInv'
  BY <1>0, <1>9, RequestEffect DEF Prepared
<1>10. ASSUME NEW t \in Threads, _persist(t)
       PROVE  ForbidInv'
  BY <1>0, <1>10, PersistEffect
<1>11. ASSUME NEW t \in Threads, _persist_close(t)
       PROVE  ForbidInv'
  <2> DEFINE h == req[t].host
  <2>1. /\ req[t].at = "close" /\ req'[t].at # "close" /\ proc' = proc /\ early' = early
        /\ \A x \in Threads \ {t} : req'[x] = req[x]
        /\ req[t].text # Missing /\ disk'.settings \in {req[t].text, Torn}
        /\ marks' = IF req[t].text.allow THEN marks ELSE marks \cup {"forbidden"}
    BY <1>11, CloseEffect, HostAssumption
  <2>2. h \in Serving
    BY <1>0, <2>1
  <2>3. Serving = {h} /\ Loading \subseteq early
    BY <2>2, AloneThere
  <2>4. "overlap" \notin marks => \A x \in Threads : req'[x].at # "close"
    BY <2>1 DEF SaveInv
  <2>5. \A x \in Threads : Forbidding(x)' => ~proc'[req'[x].host].mem.allow
    BY <2>1
  <2>6. CASE req[t].text.allow
    BY <1>0, <2>1, <2>5, <2>6
  <2>7. CASE ~req[t].text.allow
    <3>1. ~proc[h].mem.allow
      BY <2>1, <2>7
    <3> QED BY <1>0, <2>1, <2>3, <2>4, <2>5, <2>7, <3>1
  <2> QED BY <2>6, <2>7
<1>12. ASSUME NEW t \in Threads, _persist_fails(t)
       PROVE  ForbidInv'
  BY <1>0, <1>12, FailEffect
<1> QED BY StepOf, <1>1, <1>2, <1>3, <1>4, <1>5, <1>6, <1>7, <1>8, <1>9, <1>10, <1>11, <1>12

(* A step that leaves alone what is in force at a process. *)
LEMMA InForceKept ==
  ASSUME NEW p \in Processes, InForce(p), proc'[p].mem = proc[p].mem,
         proc'[p].room = proc[p].room, disk'.row = disk.row, disk'.settings = disk.settings,
         marks \subseteq marks',
         \A t \in Threads : \/ req'[t] = req[t]
                            \/ /\ req[t].host = p => req[t].at \notin {"save", "close"}
                               /\ req'[t].at # "close"
  PROVE  InForce(p)'
<1>1. Undisturbed' => Undisturbed
  BY DEF Undisturbed
<1>2. Settings_load' = Settings_load
  BY DEF Settings_load
<1>3. SaveAhead(p) => SaveAhead(p)'
  BY DEF SaveAhead
<1>4. BeingSaved(p) => BeingSaved(p)'
  BY DEF BeingSaved
<1>5. ASSUME NEW t \in Threads, req'[t].at = "close"
      PROVE  req'[t] = req[t]
  BY <1>5
<1> QED BY <1>1, <1>2, <1>3, <1>4, <1>5 DEF InForce

LEMMA InForceStep ==
  ASSUME HostTypeOK, HandledInv, RowsInv, LockInv, EarlyInv, SaveInv, InForceInv,
         [HostNext]_hostVars
  PROVE  InForceInv'
<1> SUFFICES ASSUME NEW q \in ((Serving \cup Loading) \ early)'
             PROVE  InForce(q)'
  BY DEF InForceInv
<1>0. /\ q \in Processes /\ proc'[q].at \in {"serving", "made", "opened"} /\ q \notin early'
      /\ \A t \in Threads : req[t].at # "idle" =>
           req[t].host \in Processes /\ proc[req[t].host].at = "serving"
  BY DEF Serving, Loading, At, HandledInv, Busy
<1>k. ASSUME proc[q].at \in {"serving", "made", "opened"}, q \notin early
      PROVE  InForce(q)
  BY <1>0, <1>k DEF InForceInv, Serving, Loading, At
<1>a. ASSUME NEW h \in Serving, proc[q].at \in {"serving", "made", "opened"}, q \notin early
      PROVE  q = h
  BY <1>0, <1>a, AloneThere DEF Serving, Loading, At
<1>1. CASE UNCHANGED hostVars
  <2>1. /\ proc' = proc /\ disk' = disk /\ req' = req /\ marks' = marks /\ early' = early
    BY <1>1 DEF hostVars
  <2> QED BY <1>0, <1>k, <2>1, InForceKept
<1>2. ASSUME NEW p \in Processes, make_state(p)
      PROVE  InForce(q)'
  <2>1. /\ OtherProcs(p) /\ proc[p].at = "down" /\ proc'[p].mem = Settings_load
        /\ proc'[p].room = disk.row /\ UNCHANGED <<disk, req, marks>>
        /\ early' = IF Serving # {} THEN early \cup {p} ELSE early \ {p}
    BY <1>2, MakeEffect
  <2>2. CASE q # p
    <3>1. q \notin early
      BY <1>0, <2>1, <2>2
    <3> QED BY <1>0, <1>k, <2>1, <2>2, <3>1, InForceKept DEF OtherProcs
  <2>3. CASE q = p
    <3>1. \A t \in Threads : req'[t].host = p => req'[t].at = "idle"
      BY <1>0, <2>1
    <3>2. Settings_load' = Settings_load
      BY <2>1 DEF Settings_load
    <3> QED BY <2>1, <2>3, <3>1, <3>2 DEF InForce
  <2> QED BY <2>2, <2>3
<1>3. ASSUME NEW p \in Processes,
             open_lock(p) \/ acquire(p) \/ release(p) \/ acquire_refused(p) \/ release_unlink(p)
      PROVE  InForce(q)'
  <2>1. /\ OtherProcs(p) /\ req' = req /\ disk'.settings = disk.settings /\ disk'.row = disk.row
        /\ early \subseteq early' /\ marks \subseteq marks'
        /\ \/ /\ proc'[p].at \in {"opened", "serving"} /\ proc[p].at \in {"made", "opened"}
              /\ proc'[p].mem = proc[p].mem /\ proc'[p].room = proc[p].room
           \/ proc'[p].at \in {"down", "unlocked"}
    BY <1>3, OpenEffect, AcquireEffect, ReleaseEffect, EndEffect
  <2>2. /\ proc[q].at \in {"serving", "made", "opened"} /\ q \notin early
        /\ proc'[q].mem = proc[q].mem /\ proc'[q].room = proc[q].room
    BY <1>0, <2>1 DEF OtherProcs
  <2> QED BY <1>0, <1>k, <2>1, <2>2, InForceKept
<1>4. ASSUME NEW p \in Processes, crash(p)
      PROVE  InForce(q)'
  <2>1. /\ OtherProcs(p) /\ proc'[p].at = "down" /\ disk' = disk /\ early' = early
        /\ marks \subseteq marks'
        /\ \A t \in Threads : req'[t] = IF t \in ReqOf(p) THEN Free ELSE req[t]
    BY <1>4, CrashEffect
  <2>2. q # p /\ proc'[q] = proc[q] /\ q \notin early
    BY <1>0, <2>1 DEF OtherProcs
  <2>3. ASSUME NEW t \in Threads
        PROVE  req'[t] = req[t] \/ (req[t].host # q /\ req'[t].at # "close")
    <3>1. t \in ReqOf(p) => req[t].host = p
      BY DEF ReqOf
    <3> QED BY <2>1, <2>2, <3>1, FreeTyped
  <2> QED BY <1>0, <1>k, <2>1, <2>2, <2>3, InForceKept
<1>5. ASSUME NEW p \in Processes, rotate(p)
      PROVE  InForce(q)'
  <2>1. /\ OtherProcs(p) /\ proc[p].at = "serving" /\ proc'[p].at = "serving"
        /\ proc'[p].mem = proc[p].mem /\ proc'[p].room = disk'.row
        /\ disk'.settings = disk.settings /\ UNCHANGED <<req, marks, early>>
    BY <1>5, RotateEffect DEF RowsInv
  <2>2. proc[q].at \in {"serving", "made", "opened"} /\ q \notin early
    BY <1>0, <2>1 DEF OtherProcs
  <2>3. q = p
    BY <1>a, <2>1, <2>2 DEF Serving, At
  <2>4. Settings_load' = Settings_load
    BY <2>1 DEF Settings_load
  <2>5. /\ Undisturbed' = Undisturbed /\ SaveAhead(p)' = SaveAhead(p)
        /\ BeingSaved(p)' = BeingSaved(p)
    BY <2>1 DEF Undisturbed, SaveAhead, BeingSaved
  <2> QED BY <1>k, <2>1, <2>2, <2>3, <2>4, <2>5 DEF InForce
<1>6. ASSUME NEW t \in Threads, RequestStep(t)
      PROVE  InForce(q)'
  <2>1. /\ disk' = disk /\ early' = early /\ marks \subseteq marks'
        /\ \A x \in Threads \ {t} : req'[x] = req[x]
        /\ req[t].at \in {"idle", "next", "event"} /\ req'[t].at \in {"idle", "next", "save"}
        /\ proc'[q].at = proc[q].at /\ proc'[q].room = proc[q].room
        /\ \/ proc'[q].mem = proc[q].mem
           \/ "refused" \in marks'
           \/ req'[t].at = "save" /\ req'[t].host = q
    BY <1>0, <1>6, RequestEffect DEF Prepared, OtherReqs
  <2>2. InForce(q)
    BY <1>0, <1>k, <2>1
  <2>3. CASE proc'[q].mem = proc[q].mem
    <3>1. \A x \in Threads : \/ req'[x] = req[x]
                             \/ /\ req[x].host = q => req[x].at \notin {"save", "close"}
                                /\ req'[x].at # "close"
      BY <2>1
    <3> QED BY <1>0, <2>1, <2>2, <2>3, <3>1, InForceKept
  <2>4. CASE "refused" \in marks'
    BY <2>1, <2>2, <2>4 DEF InForce, Undisturbed
  <2>5. CASE req'[t].at = "save" /\ req'[t].host = q
    BY <2>1, <2>2, <2>5 DEF InForce, SaveAhead
  <2> QED BY <2>1, <2>3, <2>4, <2>5
<1>7. ASSUME NEW t \in Threads, _persist(t)
      PROVE  InForce(q)'
  <2>1. /\ req[t].at = "save" /\ req'[t].at = "close" /\ req'[t].host = req[t].host
        /\ req'[t].text = proc[req[t].host].mem /\ disk'.row = disk.row
        /\ \A x \in Threads \ {t} : req'[x] = req[x]
        /\ marks' = IF Writing # {} THEN marks \cup {"overlap"} ELSE marks
        /\ UNCHANGED <<proc, early>>
    BY <1>7, PersistEffect DEF OtherReqs
  <2>2. q = req[t].host /\ InForce(q)
    BY <1>0, <1>a, <1>k, <2>1 DEF Serving, At
  <2>3. Undisturbed' => \A x \in Threads : req[x].at # "close"
    BY <2>1 DEF Undisturbed, Writing
  <2>4. BeingSaved(q)'
    BY <2>1, <2>2 DEF BeingSaved
  <2>5. Undisturbed' => \A x \in Threads : req'[x].at = "close" => x = t
    BY <2>1, <2>3
  <2> QED BY <2>1, <2>2, <2>4, <2>5 DEF InForce
<1>8. ASSUME NEW t \in Threads, _persist_close(t)
      PROVE  InForce(q)'
  <2>1. /\ req[t].at = "close" /\ req'[t].at \in {"idle", "next", "event"}
        /\ \A x \in Threads \ {t} : req'[x] = req[x]
        /\ req[t].text \in Settings
        /\ disk.settings = Torn => disk'.settings = req[t].text
        /\ disk'.row = disk.row /\ marks \subseteq marks' /\ UNCHANGED <<proc, early>>
    BY <1>8, CloseEffect DEF OtherReqs
  <2>2. q = req[t].host /\ InForce(q)
    BY <1>0, <1>a, <1>k, <2>1 DEF Serving, At
  <2>3. proc'[q].room = disk'.row
    BY <2>1, <2>2 DEF InForce
  <2>4. ASSUME Undisturbed', ~SaveAhead(q)'
        PROVE  /\ \A x \in Threads : req'[x].at # "close"
               /\ Settings_load' = proc'[q].mem
    <3>1. Undisturbed
      BY <2>1, <2>4 DEF Undisturbed
    <3>2. disk.settings = Torn /\ \A x \in Threads : req[x].at = "close" => x = t
      BY <2>1, <3>1 DEF SaveInv, Undisturbed
    <3>3. \A x \in Threads : req'[x].at # "close"
      BY <2>1, <3>2
    <3>4. ~SaveAhead(q)
      BY <2>1, <2>4 DEF SaveAhead
    <3>5. req[t].text = proc[q].mem
      BY <2>1, <2>2, <3>1, <3>4 DEF InForce
    <3>6. Settings_load' = req[t].text
      BY <2>1, <3>2, HostAssumption DEF Settings_load
    <3> QED BY <2>1, <3>3, <3>5, <3>6
  <2> QED BY <2>3, <2>4 DEF InForce
<1>9. ASSUME NEW t \in Threads, _persist_fails(t)
      PROVE  InForce(q)'
  <2>1. "failed" \in marks' /\ disk'.row = disk.row /\ UNCHANGED <<proc, early>>
    BY <1>9, FailEffect
  <2>2. InForce(q)
    BY <1>0, <1>k, <2>1
  <2> QED BY <2>1, <2>2 DEF InForce, Undisturbed
<1> QED BY StepOf, <1>1, <1>2, <1>3, <1>4, <1>5, <1>6, <1>7, <1>8, <1>9

-----------------------------------------------------------------------------
(* The spans of a ledger.                                                  *)

LEMMA LeastNumber ==
  ASSUME NEW S \in SUBSET Nat, S # {}
  PROVE  \E i \in S : \A j \in S : i <= j
<1>1. IsWellFoundedOn(OpToRel(<, Nat), Nat)
  BY NatLessThanWellFounded
<1>2. PICK i \in S : \A j \in S : ~(<<j, i>> \in OpToRel(<, Nat))
  BY <1>1, WFMin
<1>3. \A j \in S : ~(j < i)
  BY <1>2 DEF OpToRel
<1> QED BY <1>3

LEMMA GreatestNumber ==
  ASSUME NEW n \in Nat, NEW S \in SUBSET (0 .. n), S # {}
  PROVE  \E i \in S : \A j \in S : j <= i
<1> DEFINE T == {n - i : i \in S}
<1>0. \A i \in S : n - i \in Nat /\ i \in Nat
  OBVIOUS
<1>1. T \in SUBSET Nat /\ T # {}
  BY <1>0
<1>2. PICK k \in T : \A j \in T : k <= j
  BY <1>1, LeastNumber
<1>3. PICK i \in S : k = n - i
  OBVIOUS
<1>4. \A j \in S : n - i <= n - j
  BY <1>2, <1>3
<1> QED BY <1>0, <1>4

(* A finite selection of events, each with its time. *)
Dated(e) ==
    /\ \E n \in Nat : DOMAIN e \subseteq 1 .. n
    /\ \E m \in Nat : \A i \in DOMAIN e : e[i].ts \in 0 .. m

LEMMA BeforeOrder ==
  ASSUME NEW e, Dated(e), NEW i \in DOMAIN e, NEW j \in DOMAIN e
  PROVE  /\ i \in Nat /\ i # 0 /\ e[i].ts \in Nat
         /\ i # j => Before(e, i, j) \/ Before(e, j, i)
         /\ ~Before(e, i, i) /\ ~(Before(e, i, j) /\ Before(e, j, i))
         /\ e[i].ts < e[j].ts => Before(e, i, j)
         /\ Before(e, i, j) => e[i].ts <= e[j].ts
<1>1. i \in Nat /\ i # 0 /\ j \in Nat /\ e[i].ts \in Nat /\ e[j].ts \in Nat
  BY DEF Dated
<1> QED BY <1>1 DEF Before

LEMMA EarliestThere ==
  ASSUME NEW e, Dated(e), NEW S \in SUBSET DOMAIN e, S # {}
  PROVE  /\ Earliest(e, S) \in S
         /\ \A j \in S : j # Earliest(e, S) => Before(e, Earliest(e, S), j)
         /\ \A j \in S : e[Earliest(e, S)].ts <= e[j].ts
<1> DEFINE T == {e[i].ts : i \in S}
<1>1. T \in SUBSET Nat /\ T # {}
  BY DEF Dated
<1>2. PICK k \in T : \A j \in T : k <= j
  BY <1>1, LeastNumber
<1> DEFINE F == {i \in S : e[i].ts = k}
<1>3. F \in SUBSET Nat /\ F # {}
  BY DEF Dated
<1>4. PICK i \in F : \A j \in F : i <= j
  BY <1>3, LeastNumber
<1>5. ASSUME NEW j \in S \ {i}
      PROVE  Before(e, i, j)
  <2>1. k <= e[j].ts /\ k \in Nat /\ e[j].ts \in Nat /\ e[i].ts = k
    BY <1>1, <1>2, <1>4
  <2>2. e[j].ts = k => i <= j /\ i # j /\ i \in Nat /\ j \in Nat
    BY <1>3, <1>4, <1>5
  <2> QED BY <2>1, <2>2 DEF Before
<1>6. \E a \in S : \A j \in S \ {a} : Before(e, a, j)
  BY <1>4, <1>5
<1>7. Earliest(e, S) \in S /\ \A j \in S \ {Earliest(e, S)} : Before(e, Earliest(e, S), j)
  BY <1>6 DEF Earliest
<1>8. \A j \in S : e[Earliest(e, S)].ts <= e[j].ts
  BY <1>7, BeforeOrder
<1> QED BY <1>7, <1>8

LEMMA LatestThere ==
  ASSUME NEW e, Dated(e), NEW S \in SUBSET DOMAIN e, S # {}
  PROVE  /\ Latest(e, S) \in S
         /\ \A j \in S : j # Latest(e, S) => Before(e, j, Latest(e, S))
         /\ \A j \in S : e[j].ts <= e[Latest(e, S)].ts
<1> DEFINE T == {e[i].ts : i \in S}
<1>1. PICK m \in Nat : \A i \in DOMAIN e : e[i].ts \in 0 .. m
  BY DEF Dated
<1>2. T \in SUBSET (0 .. m) /\ T # {}
  BY <1>1
<1>3. PICK k \in T : \A j \in T : j <= k
  BY <1>2, GreatestNumber
<1> DEFINE F == {i \in S : e[i].ts = k}
<1>4. PICK n \in Nat : DOMAIN e \subseteq 1 .. n
  BY DEF Dated
<1>5. F \in SUBSET (0 .. n) /\ F # {}
  BY <1>4
<1>6. PICK i \in F : \A j \in F : j <= i
  BY <1>5, GreatestNumber
<1>7. ASSUME NEW j \in S \ {i}
      PROVE  Before(e, j, i)
  <2>1. e[j].ts <= k /\ k \in Nat /\ e[j].ts \in Nat /\ e[i].ts = k
    BY <1>2, <1>3, <1>6
  <2>2. e[j].ts = k => j <= i /\ i # j /\ i \in Nat /\ j \in Nat
    BY <1>5, <1>6, <1>7
  <2> QED BY <2>1, <2>2 DEF Before
<1>8. \E a \in S : \A j \in S \ {a} : Before(e, j, a)
  BY <1>6, <1>7
<1>9. Latest(e, S) \in S /\ \A j \in S \ {Latest(e, S)} : Before(e, j, Latest(e, S))
  BY <1>8 DEF Latest
<1>10. \A j \in S : e[j].ts <= e[Latest(e, S)].ts
  BY <1>9, BeforeOrder
<1> QED BY <1>9, <1>10

LEMMA ChangesThere ==
  ASSUME NEW e
  PROVE  Changes(e) \in SUBSET DOMAIN e
  BY DEF Changes

(* The fields of a span. *)
LEMMA SpanFields ==
  ASSUME NEW e, NEW c \in DOMAIN _split_threshold_segments(e)
  PROVE  LET s == _split_threshold_segments(e)[c]
         IN  /\ c = 0 \/ c \in Changes(e)
             /\ c # 0 => /\ s.threshold = e[c].new /\ s.from = e[c].ts /\ s.to = Until(e, c)
             /\ c = 0 => /\ s.from = Start(e)
                         /\ Changes(e) = {} => /\ s.to = e[Latest(e, DOMAIN e)].ts
                                               /\ s.threshold = FirstThreshold(e)
                         /\ Changes(e) # {} =>
                              /\ s.to = FirstChange(e).ts
                              /\ s.threshold = IF FirstChange(e).old = None
                                                 THEN FirstThreshold(e) ELSE FirstChange(e).old
<1>1. DOMAIN _split_threshold_segments(e) = SpanNames(e)
  BY DEF _split_threshold_segments
<1>2. c \in SpanNames(e) /\ (c = 0 \/ c \in Changes(e))
  BY <1>1 DEF SpanNames
<1> QED BY <1>2 DEF _split_threshold_segments

LEMMA UntilNext ==
  ASSUME NEW e, Dated(e), NEW c \in Changes(e)
  PROVE  /\ \A k \in Changes(e) : Before(e, c, k) => Until(e, c) <= e[k].ts
         /\ \A i \in DOMAIN e :
              (\A k \in Changes(e) : Before(e, c, k) => e[i].ts <= e[k].ts)
                => e[i].ts <= Until(e, c)
<1> DEFINE next == {j \in Changes(e) : Before(e, c, j)}
<1>0. next \in SUBSET DOMAIN e /\ c \in DOMAIN e
  BY ChangesThere
<1>1. Until(e, c) = IF next = {} THEN e[Latest(e, DOMAIN e)].ts ELSE e[Earliest(e, next)].ts
  BY DEF Until
<1>2. \A k \in Changes(e) : Before(e, c, k) => k \in next
  OBVIOUS
<1>3. \A k \in next : k \in Changes(e) /\ Before(e, c, k)
  OBVIOUS
<1> HIDE DEF next
<1>4. CASE next = {}
  <2>1. \A i \in DOMAIN e : e[i].ts <= e[Latest(e, DOMAIN e)].ts
    BY <1>0, LatestThere
  <2> QED BY <1>1, <1>2, <1>4, <2>1
<1>5. CASE next # {}
  <2>1. Earliest(e, next) \in next /\ \A j \in next : e[Earliest(e, next)].ts <= e[j].ts
    BY <1>0, <1>5, EarliestThere
  <2> QED BY <1>1, <1>2, <1>3, <1>5, <2>1
<1> QED BY <1>4, <1>5

(* An event at no change's time is in the span of the last change before   *)
(* it, or in the one before the first change.                              *)
LEMMA SpanNearest ==
  ASSUME NEW e, Dated(e), NEW c \in DOMAIN _split_threshold_segments(e),
         NEW i \in DOMAIN Chunk(e, _split_threshold_segments(e)[c]),
         \A k \in Changes(e) : e[k].ts # e[i].ts
  PROVE  /\ i \in DOMAIN e
         /\ c # 0 => /\ c \in Changes(e) /\ Before(e, c, i)
                     /\ \A k \in Changes(e) : k # c => Before(e, k, c) \/ Before(e, i, k)
         /\ c = 0 => \A k \in Changes(e) : Before(e, i, k)
<1> DEFINE s == _split_threshold_segments(e)[c]
<1>1. i \in DOMAIN e /\ e[i].ts >= s.from /\ e[i].ts <= s.to
  BY DEF Chunk, Restrict
<1>2. \A k \in Changes(e) : k \in DOMAIN e /\ k \in Nat /\ k # 0 /\ e[k].ts \in Nat
  BY ChangesThere, BeforeOrder
<1>3. e[i].ts \in Nat
  BY <1>1, BeforeOrder
<1>4. ASSUME c # 0
      PROVE  /\ c \in Changes(e) /\ Before(e, c, i)
             /\ \A k \in Changes(e) : k # c => Before(e, k, c) \/ Before(e, i, k)
  <2>1. c \in Changes(e) /\ s.from = e[c].ts /\ s.to = Until(e, c)
    BY <1>4, SpanFields
  <2>2. e[c].ts <= e[i].ts /\ e[c].ts # e[i].ts
    BY <1>1, <1>2, <1>3, <2>1
  <2>3. Before(e, c, i)
    BY <1>1, <1>2, <1>3, <2>1, <2>2, BeforeOrder
  <2>4. ASSUME NEW k \in Changes(e), k # c, ~Before(e, k, c)
        PROVE  Before(e, i, k)
    <3>1. Before(e, c, k)
      BY <1>2, <2>1, <2>4, BeforeOrder
    <3>2. Until(e, c) <= e[k].ts
      BY <2>1, <3>1, UntilNext
    <3>3. e[i].ts <= e[k].ts
      <4>1. Until(e, c) \in Int
        <5> DEFINE next == {j \in Changes(e) : Before(e, c, j)}
        <5>1. next \in SUBSET DOMAIN e /\ k \in next
          BY <3>1, ChangesThere
        <5>2. Until(e, c) = e[Earliest(e, next)].ts
          BY <5>1 DEF Until
        <5> HIDE DEF next
        <5>3. Earliest(e, next) \in DOMAIN e
          BY <5>1, EarliestThere
        <5> QED BY <5>2, <5>3, BeforeOrder
      <4> QED BY <1>1, <1>2, <1>3, <2>1, <3>2, <4>1
    <3> QED BY <1>1, <1>2, <1>3, <3>3, BeforeOrder
  <2> QED BY <2>1, <2>3, <2>4
<1>5. ASSUME c = 0, NEW k \in Changes(e)
      PROVE  Before(e, i, k)
  <2>1. s.to = FirstChange(e).ts
    BY <1>5, SpanFields
  <2>2. /\ Earliest(e, Changes(e)) \in DOMAIN e
        /\ e[Earliest(e, Changes(e))].ts <= e[k].ts
    BY <1>5, ChangesThere, EarliestThere
  <2>3. FirstChange(e).ts <= e[k].ts /\ FirstChange(e).ts \in Nat
    BY <2>2, BeforeOrder DEF FirstChange
  <2>4. e[i].ts <= e[k].ts /\ e[i].ts # e[k].ts
    BY <1>1, <1>2, <1>3, <2>1, <2>3
  <2> QED BY <1>1, <1>2, <1>3, <2>4, BeforeOrder
<1> QED BY <1>1, <1>4, <1>5

LEMMA SpanOnly ==
  ASSUME NEW e, Dated(e), NEW c \in DOMAIN _split_threshold_segments(e),
         NEW d \in DOMAIN _split_threshold_segments(e),
         NEW i \in DOMAIN Chunk(e, _split_threshold_segments(e)[c]),
         i \in DOMAIN Chunk(e, _split_threshold_segments(e)[d]),
         \A k \in Changes(e) : e[k].ts # e[i].ts
  PROVE  c = d
<1>1. /\ i \in DOMAIN e
      /\ c # 0 => /\ c \in Changes(e) /\ Before(e, c, i)
                  /\ \A k \in Changes(e) : k # c => Before(e, k, c) \/ Before(e, i, k)
      /\ c = 0 => \A k \in Changes(e) : Before(e, i, k)
  BY SpanNearest
<1>2. /\ d # 0 => /\ d \in Changes(e) /\ Before(e, d, i)
                  /\ \A k \in Changes(e) : k # d => Before(e, k, d) \/ Before(e, i, k)
      /\ d = 0 => \A k \in Changes(e) : Before(e, i, k)
  BY SpanNearest
<1>3. \A k \in Changes(e) : ~(Before(e, i, k) /\ Before(e, k, i))
  BY <1>1, BeforeOrder, ChangesThere
<1>4. \A k, l \in Changes(e) : ~(Before(e, k, l) /\ Before(e, l, k))
  BY BeforeOrder, ChangesThere
<1> QED BY <1>1, <1>2, <1>3, <1>4

(* Every event is in a span. *)
LEMMA SpansCover ==
  ASSUME NEW e, Dated(e), NEW i \in DOMAIN e
  PROVE  \E c \in DOMAIN _split_threshold_segments(e) :
            i \in DOMAIN Chunk(e, _split_threshold_segments(e)[c])
<1> DEFINE S == {k \in Changes(e) : e[k].ts <= e[i].ts}
<1>0. DOMAIN _split_threshold_segments(e) = SpanNames(e)
  BY DEF _split_threshold_segments
<1>1. \A k \in Changes(e) : k \in DOMAIN e /\ k # 0 /\ e[k].ts \in Nat
  BY ChangesThere, BeforeOrder
<1>2. e[i].ts \in Nat
  BY BeforeOrder
<1>3. ASSUME NEW c \in SpanNames(e), _split_threshold_segments(e)[c].from <= e[i].ts,
             e[i].ts <= _split_threshold_segments(e)[c].to
      PROVE  \E x \in DOMAIN _split_threshold_segments(e) :
                i \in DOMAIN Chunk(e, _split_threshold_segments(e)[x])
  <2>1. i \in DOMAIN Chunk(e, _split_threshold_segments(e)[c])
    BY <1>3 DEF Chunk, Restrict
  <2> QED BY <1>0, <2>1
<1>4. CASE S # {}
  <2> DEFINE c == Latest(e, S)
  <2>1. S \in SUBSET DOMAIN e
    BY ChangesThere
  <2>2. /\ c \in S /\ \A j \in S : j # c => Before(e, j, c)
    BY <1>4, <2>1, LatestThere
  <2>3. c \in Changes(e) /\ e[c].ts <= e[i].ts /\ c # 0 /\ c \in DOMAIN e
    BY <1>1, <2>2
  <2>4. \A k \in Changes(e) : Before(e, c, k) => e[i].ts <= e[k].ts
    <3> SUFFICES ASSUME NEW k \in Changes(e), Before(e, c, k), ~(e[i].ts <= e[k].ts)
                 PROVE  FALSE
      OBVIOUS
    <3>1. k \in S
      BY <1>1, <1>2
    <3> QED BY <1>1, <2>2, <2>3, <3>1, BeforeOrder
  <2>5. e[i].ts <= Until(e, c)
    BY <2>3, <2>4, UntilNext
  <2>6. c \in SpanNames(e)
    BY <2>3 DEF SpanNames
  <2>7. /\ _split_threshold_segments(e)[c].from = e[c].ts
        /\ _split_threshold_segments(e)[c].to = Until(e, c)
    BY <1>0, <2>3, <2>6, SpanFields
  <2> HIDE DEF c
  <2> QED BY <1>3, <2>3, <2>5, <2>6, <2>7
<1>5. CASE S = {}
  <2>1. Start(e) <= e[i].ts /\ Start(e) \in Nat
    BY EarliestThere, BeforeOrder DEF Start
  <2>2. 0 \in SpanNames(e)
    <3>1. CASE Changes(e) = {}
      BY <3>1 DEF SpanNames
    <3>2. CASE Changes(e) # {}
      <4>1. Earliest(e, Changes(e)) \in Changes(e)
        BY <3>2, ChangesThere, EarliestThere
      <4>2. ~(FirstChange(e).ts <= e[i].ts) /\ FirstChange(e).ts \in Nat
        BY <1>1, <1>5, <4>1 DEF FirstChange
      <4>3. FirstChange(e).ts > Start(e)
        BY <1>2, <2>1, <4>2
      <4> QED BY <4>3 DEF SpanNames
    <3> QED BY <3>1, <3>2
  <2>3. e[i].ts <= _split_threshold_segments(e)[0].to
    <3>1. CASE Changes(e) = {}
      <4>1. e[i].ts <= e[Latest(e, DOMAIN e)].ts
        BY LatestThere
      <4> QED BY <1>0, <2>2, <3>1, <4>1, SpanFields
    <3>2. CASE Changes(e) # {}
      <4>1. Earliest(e, Changes(e)) \in Changes(e)
        BY <3>2, ChangesThere, EarliestThere
      <4>2. ~(FirstChange(e).ts <= e[i].ts) /\ FirstChange(e).ts \in Nat
        BY <1>1, <1>5, <4>1 DEF FirstChange
      <4> QED BY <1>0, <1>2, <2>2, <3>2, <4>2, SpanFields
    <3> QED BY <3>1, <3>2
  <2>4. _split_threshold_segments(e)[0].from = Start(e)
    BY <1>0, <2>2, SpanFields
  <2> QED BY <1>3, <2>1, <2>2, <2>3, <2>4
<1> QED BY <1>4, <1>5

LEMMA LedgerDated ==
  ASSUME HostTypeOK
  PROVE  /\ Dated(ledger) /\ DOMAIN ledger = 1 .. Len(ledger) /\ Len(ledger) \in Nat
         /\ \A i \in DOMAIN ledger : ledger[i] \in RowRec /\ ledger[i].ts \in Nat
<1>1. ledger \in Seq(RowRec) /\ \A i \in DOMAIN ledger : ledger[i].ts <= clock
  BY LedgerTyped
<1>2. DOMAIN ledger = 1 .. Len(ledger) /\ Len(ledger) \in Nat /\ clock \in Nat
  BY <1>1, LenProperties, CountsTyped
<1>3. \A i \in DOMAIN ledger : ledger[i] \in RowRec
  BY <1>1
<1>4. \A i \in DOMAIN ledger : ledger[i].ts \in Nat
  BY <1>3 DEF RowRec
<1>5. \A i \in DOMAIN ledger : ledger[i].ts \in 0 .. clock
  BY <1>1, <1>2, <1>4
<1> QED BY <1>2, <1>3, <1>4, <1>5 DEF Dated

LEMMA TwoOfMany ==
  ASSUME NEW S, Cardinality(S) > 1
  PROVE  \E x, y \in S : x # y
<1> SUFFICES ASSUME \A x, y \in S : x = y
             PROVE  FALSE
  OBVIOUS
<1>1. CASE S = {}
  BY <1>1, FS_EmptySet
<1>2. ASSUME NEW x \in S
      PROVE  FALSE
  <2>1. S = {x}
    OBVIOUS
  <2> QED BY <2>1, FS_Singleton
<1> QED BY <1>1, <1>2

LEMMA CountedHere ==
  ASSUME HostTypeOK
  PROVE  CountedOnce
<1> DEFINE in(i) == {c \in DOMAIN Spans : i \in DOMAIN Chunk(ledger, Spans[c])}
<1>1. SUFFICES ASSUME NEW i \in Jobs(ledger)
               PROVE  in(i) # {} /\ (Cardinality(in(i)) > 1 => ChangedAt(ledger[i].ts))
  BY DEF CountedOnce
<1>2. i \in DOMAIN ledger /\ Dated(ledger)
  BY <1>1, LedgerDated DEF Jobs
<1>3. in(i) # {}
  BY <1>2, SpansCover DEF Spans
<1>4. ASSUME Cardinality(in(i)) > 1, ~ChangedAt(ledger[i].ts)
      PROVE  FALSE
  <2>1. PICK c, d \in in(i) : c # d
    <3> HIDE DEF in
    <3> QED BY <1>4, TwoOfMany
  <2>2. \A k \in Changes(ledger) : ledger[k].ts # ledger[i].ts
    BY <1>4 DEF ChangedAt, Changes
  <2> QED BY <1>2, <2>1, <2>2, SpanOnly DEF Spans
<1> QED BY <1>3, <1>4

-----------------------------------------------------------------------------
(* The threshold in force, and the ledger.                                 *)

(* No history that the spans' threshold is excepted from. *)
Calm == marks \cap {"crossed", "cut", "failed", "bootstrap", "early"} = {}

IsChange(i) == ledger[i].type = "threshold_changed"
Open(i) == \A c \in DOMAIN ledger : i < c => ~IsChange(c)
Between(i, j) == \A c \in DOMAIN ledger : i < c /\ c < j => ~IsChange(c)

(* A row tells a change or a job.  Rows are in the order of their times,   *)
(* and each finds in force what the last change before it announced.       *)
RowsClear == \A i \in DOMAIN ledger :
                IF IsChange(i) THEN ledger[i].stamp = ledger[i].new /\ ledger[i].old \in Nat
                               ELSE ledger[i].job \in JobRec
Ordered == \A i, j \in DOMAIN ledger : i < j => ledger[i].ts <= ledger[j].ts
Linked == \A i, j \in DOMAIN ledger : i < j /\ Between(i, j) =>
             ledger[i].stamp = IF IsChange(j) THEN ledger[j].old ELSE ledger[j].stamp
Past(ts) == \A i \in DOMAIN ledger : ledger[i].ts <= ts
Current(threshold) == \A i \in DOMAIN ledger : Open(i) => ledger[i].stamp = threshold

(* What the ledger has announced of the threshold: a request that changes  *)
(* it keeps the old one until it has written its row.                      *)
Announced(t) ==
    IF req[t].at \in {"save", "close", "event"} /\ req[t].old # None
      THEN req[t].old ELSE Mem(t).threshold

(* The only request under way, the memory of its Host and the file. *)
InStep(t) ==
    /\ req[t].at \in {"save", "close", "event"} =>
         IF Head(req[t].todo)[1] = "threshold"
           THEN Value(t) = Mem(t).threshold ELSE req[t].old = None
    /\ req[t].at = "close" => req[t].text = Mem(t)
    /\ req[t].at # "close" => disk.settings # Torn
    /\ req[t].at = "save" => Settings_load.threshold = Announced(t)
    /\ req[t].at \in {"next", "event"} => Settings_load.threshold = Mem(t).threshold

(* With no request under way, the Hosts' memories and the file. *)
Rested ==
    /\ disk.settings # Torn
    /\ \A p \in Serving \cup (Loading \ early) : proc[p].mem.threshold = Settings_load.threshold

Clear ==
    /\ "overlap" \notin marks
    /\ \A s, t \in Busy : s = t
    /\ \A p, q \in Serving : p = q
    /\ Ordered /\ Linked
    /\ \A t \in Busy : Past(req[t].ts) /\ InStep(t) /\ Current(Announced(t))
    /\ Busy = {} => Rested /\ Current(Settings_load.threshold)

ClearInv ==
    /\ RowsClear
    /\ \A t \in Threads : req[t].at = "event" => req[t].old # None
    /\ Calm => Clear

(* A step of a process: requests go on as they were, or a Host was killed  *)
(* that had some.                                                          *)
LEMMA ProcessClear ==
  ASSUME ClearInv, HandledInv, UNCHANGED ledger, disk'.settings = disk.settings,
         marks \subseteq marks', "overlap" \in marks' => "overlap" \in marks,
         \A t \in Threads : req'[t] = req[t] \/ (req'[t].at = "idle" /\ ~Calm'),
         Calm' => /\ \A t \in Busy : proc'[req[t].host].mem = proc[req[t].host].mem
                  /\ \A p, q \in Serving' : p = q
                  /\ \A p \in Serving' \cup (Loading' \ early') :
                       \/ proc'[p].mem = Settings_load
                       \/ p \in Serving \cup (Loading \ early) /\ proc'[p].mem = proc[p].mem
  PROVE  ClearInv'
<1>1. Calm' => Calm
  BY DEF Calm
<1>2. RowsClear'
  BY DEF ClearInv, RowsClear, IsChange
<1>3. \A t \in Threads : req'[t].at = "event" => req'[t].old # None
  BY DEF ClearInv
<1>4. ASSUME Calm'
      PROVE  Clear'
  <2>1. Clear /\ \A t \in Threads : req'[t] = req[t]
    BY <1>1, <1>4 DEF ClearInv
  <2>2. Settings_load' = Settings_load
    BY DEF Settings_load
  <2>3. Busy' = Busy
    BY <2>1 DEF Busy
  <2>4. /\ Ordered' /\ Linked'
        /\ \A v : Current(v) => Current(v)'
        /\ \A v : Past(v) => Past(v)'
    BY <2>1 DEF Clear, Ordered, Linked, Between, IsChange, Current, Open, Past
  <2>5. ASSUME NEW t \in Busy
        PROVE  Past(req[t].ts)' /\ InStep(t)' /\ Current(Announced(t))'
    <3>1. Mem(t)' = Mem(t) /\ req'[t] = req[t] /\ Value(t)' = Value(t)
      BY <1>4, <2>1 DEF Mem, Value, Busy
    <3>2. Announced(t)' = Announced(t)
      BY <3>1 DEF Announced
    <3>3. InStep(t)'
      BY <2>1, <2>2, <3>1, <3>2 DEF InStep, Clear
    <3>4. Past(req[t].ts) /\ Current(Announced(t))
      BY <2>1 DEF Clear
    <3>5. \A i \in DOMAIN ledger' : ledger'[i].ts <= req'[t].ts
      BY <3>1, <3>4 DEF Past
    <3>6. Current(Announced(t))'
      BY <3>2, <3>4 DEF Current, Open, IsChange
    <3> QED BY <3>3, <3>5, <3>6 DEF Past
  <2>6. ASSUME Busy = {}
        PROVE  Rested' /\ Current(Settings_load.threshold)'
    <3>1. Rested /\ Current(Settings_load.threshold)
      BY <2>1, <2>6 DEF Clear
    <3>2. Rested'
      BY <1>4, <2>2, <3>1 DEF Rested
    <3>3. Current(Settings_load.threshold)'
      BY <2>2, <3>1 DEF Current, Open, IsChange
    <3> QED BY <3>2, <3>3
  <2>7. "overlap" \notin marks' /\ \A s, t \in Busy' : s = t
    BY <2>1, <2>3 DEF Clear
  <2> QED BY <1>4, <2>3, <2>4, <2>5, <2>6, <2>7 DEF Clear
<1> QED BY <1>2, <1>3, <1>4 DEF ClearInv

LEMMA ProcessesClear ==
  ASSUME HostTypeOK, HandledInv, RowsInv, EarlyInv, ClearInv, NEW p \in Processes,
         \/ make_state(p) \/ open_lock(p) \/ acquire(p) \/ release(p)
         \/ acquire_refused(p) \/ release_unlink(p) \/ crash(p) \/ rotate(p)
  PROVE  ClearInv'
<1>0. /\ \A t \in Busy : req[t].host \in Processes /\ proc[req[t].host].at = "serving"
      /\ Calm => \A x, y \in Serving : x = y
      /\ Serving \subseteq Processes /\ Loading \subseteq Processes
  BY DEF HandledInv, Serving, Loading, At, ClearInv, Clear
<1>c. marks \subseteq marks' /\ Calm' => Calm
  BY DEF Calm
<1>1. CASE make_state(p)
  <2>1. Serving' = Serving /\ Loading' = Loading \cup {p} /\ UNCHANGED marks
    BY <1>1, MakeEffect DEF Serving, Loading, At, OtherProcs
  <2>2. \A q \in Processes : q # p => (q \in early' <=> q \in early)
    BY <1>1, MakeEffect
  <2>3. \A q \in Serving' \cup (Loading' \ early') :
           \/ proc'[q].mem = Settings_load
           \/ q \in Serving \cup (Loading \ early) /\ proc'[q].mem = proc[q].mem
    BY <1>0, <1>1, <2>1, <2>2, MakeEffect DEF OtherProcs
  <2>4. \A t \in Busy : proc'[req[t].host].mem = proc[req[t].host].mem
    BY <1>0, <1>1, MakeEffect DEF OtherProcs
  <2> QED BY <1>0, <1>1, <1>c, <2>1, <2>3, <2>4, MakeEffect, ProcessClear
<1>2. CASE open_lock(p)
  <2>1. /\ Serving' = Serving /\ Loading' = Loading /\ UNCHANGED <<marks, early, req, ledger>>
        /\ disk'.settings = disk.settings /\ \A q \in Processes : proc'[q].mem = proc[q].mem
    BY <1>2, OpenEffect DEF Serving, Loading, At, OtherProcs
  <2> QED BY <1>0, <1>c, <2>1, ProcessClear
<1>3. CASE acquire(p)
  <2>1. /\ Serving' = Serving \cup {p} /\ Loading' = Loading \ {p} /\ p \in Loading
        /\ early \subseteq early' /\ UNCHANGED <<disk, req, ledger>>
        /\ marks \subseteq marks' /\ marks' \subseteq marks \cup {"early"}
        /\ p \in early => "early" \in marks'
        /\ \A q \in Processes : proc'[q].mem = proc[q].mem
    BY <1>3, AcquireEffect DEF Serving, Loading, At, OtherProcs
  <2>2. Calm' => p \notin early /\ Serving = {}
    BY <2>1 DEF Calm, EarlyInv
  <2>3. Calm' => \A x, y \in Serving' : x = y
    BY <2>1, <2>2
  <2> QED BY <1>0, <2>1, <2>2, <2>3, ProcessClear
<1>4. CASE release(p)
  <2>1. /\ Serving' = Serving \ {p} /\ Loading' = Loading /\ ReqOf(p) = {}
        /\ UNCHANGED <<marks, early, req, ledger, disk>>
        /\ \A q \in Processes \ {p} : proc'[q].mem = proc[q].mem
    BY <1>4, ReleaseEffect DEF Serving, Loading, At, OtherProcs
  <2>2. \A t \in Busy : req[t].host # p
    BY <2>1 DEF ReqOf
  <2>3. p \notin Loading
    BY <1>4, ReleaseEffect DEF Loading
  <2> QED BY <1>0, <1>c, <2>1, <2>2, <2>3, ProcessClear
<1>5. CASE acquire_refused(p) \/ release_unlink(p)
  <2>1. /\ Serving' = Serving /\ Loading' = Loading \ {p} /\ p \notin Serving
        /\ UNCHANGED <<marks, early, req, ledger>> /\ disk'.settings = disk.settings
        /\ \A q \in Processes \ {p} : proc'[q].mem = proc[q].mem
    BY <1>5, EndEffect DEF Serving, Loading, At, OtherProcs
  <2>2. \A t \in Busy : req[t].host # p
    BY <1>0, <2>1 DEF Serving, At
  <2> QED BY <1>0, <1>c, <2>1, <2>2, ProcessClear
<1>6. CASE crash(p)
  <2>1. /\ Serving' = Serving \ {p} /\ Loading' = Loading \ {p}
        /\ UNCHANGED <<early, ledger, disk>>
        /\ \A q \in Processes \ {p} : proc'[q].mem = proc[q].mem
        /\ marks \subseteq marks' /\ marks' \subseteq marks \cup {"cut", "cut save"}
        /\ ReqOf(p) # {} => "cut" \in marks'
        /\ \A t \in Threads : req'[t] = IF t \in ReqOf(p) THEN Free ELSE req[t]
    BY <1>6, CrashEffect DEF Serving, Loading, At, OtherProcs
  <2>2. Calm' => ReqOf(p) = {}
    BY <2>1 DEF Calm
  <2>3. Calm' => \A t \in Busy : req[t].host # p
    BY <2>2 DEF ReqOf
  <2>4. \A t \in Threads : req'[t] = req[t] \/ (req'[t].at = "idle" /\ ~Calm')
    BY <2>1, <2>2, FreeTyped
  <2>5. disk'.settings = disk.settings /\ ("overlap" \in marks' => "overlap" \in marks)
    BY <2>1
  <2>6. Calm' => \A x, y \in Serving' : x = y
    BY <1>0, <1>c, <2>1
  <2> QED BY <1>0, <2>1, <2>3, <2>4, <2>5, <2>6, ProcessClear
<1>7. CASE rotate(p)
  <2>1. /\ Serving' = Serving /\ Loading' = Loading /\ UNCHANGED <<marks, early, req, ledger>>
        /\ disk'.settings = disk.settings /\ \A q \in Processes : proc'[q].mem = proc[q].mem
    BY <1>7, RotateEffect DEF Serving, Loading, At, OtherProcs, RowsInv
  <2> QED BY <1>0, <1>c, <2>1, ProcessClear
<1> QED BY <1>1, <1>2, <1>3, <1>4, <1>5, <1>6, <1>7

(* A step of the only request. *)
LEMMA RequestClear ==
  ASSUME HostTypeOK, HandledInv, EarlyInv, Calm, Clear, NEW t \in Threads, Busy \subseteq {t},
         OtherReqs(t), early' = early, "overlap" \notin marks', NEW h \in Serving,
         \A p \in Processes : proc'[p].at = proc[p].at,
         Ordered', Linked',
         req'[t].at # "idle" =>
            /\ \A i \in DOMAIN ledger' : ledger'[i].ts <= req'[t].ts
            /\ InStep(t)' /\ Current(Announced(t))',
         req'[t].at = "idle" =>
            /\ disk'.settings # Torn /\ proc'[h].mem.threshold = Settings_load'.threshold
            /\ Current(Settings_load.threshold)'
  PROVE  Clear'
<1>1. Serving' = Serving /\ Loading' = Loading
  BY DEF Serving, Loading, At
<1>2. Busy' = IF req'[t].at = "idle" THEN {} ELSE {t}
  BY DEF Busy, OtherReqs
<1>3. \A p, q \in Serving : p = q
  BY DEF Clear
<1>4. Loading \subseteq early
  BY DEF EarlyInv
<1>5. ASSUME req'[t].at = "idle"
      PROVE  Rested' /\ Current(Settings_load.threshold)'
  <2>1. Serving' \cup (Loading' \ early') = {h}
    BY <1>1, <1>3, <1>4
  <2>2. Rested'
    BY <1>5, <2>1 DEF Rested
  <2> QED BY <1>5, <2>2
<1>6. ASSUME req'[t].at # "idle"
      PROVE  Past(req[t].ts)' /\ InStep(t)' /\ Current(Announced(t))'
  BY <1>6 DEF Past
<1>7. \A s \in Busy' : s = t
  BY <1>2
<1> QED BY <1>1, <1>2, <1>3, <1>5, <1>6, <1>7 DEF Clear

LEMMA RequestAlone ==
  ASSUME ClearInv, HostTypeOK, HandledInv, marks \subseteq marks', Calm',
         NEW t \in Threads, req[t].at # "idle"
  PROVE  /\ Calm /\ Clear /\ Busy = {t} /\ Past(req[t].ts) /\ InStep(t) /\ Current(Announced(t))
         /\ req[t].host \in Serving /\ req[t].host \in Processes
         /\ Mem(t) = proc[req[t].host].mem /\ Mem(t) \in Settings /\ Mem(t).threshold \in Nat
         /\ Ordered /\ Linked /\ "overlap" \notin marks
<1>1. Calm /\ Clear
  BY DEF Calm, ClearInv
<1>2. t \in Busy
  BY DEF Busy
<1>3. Busy = {t}
  BY <1>1, <1>2 DEF Clear
<1>4. /\ Past(req[t].ts) /\ InStep(t) /\ Current(Announced(t)) /\ Ordered /\ Linked
      /\ "overlap" \notin marks
  BY <1>1, <1>2 DEF Clear
<1> QED BY <1>1, <1>3, <1>4, BusyTyped, ProcTyped DEF Mem

(* The order and the links of the ledger stay when it does. *)
LEMMA LedgerSame ==
  ASSUME UNCHANGED ledger
  PROVE  /\ Ordered' = Ordered /\ Linked' = Linked /\ RowsClear' = RowsClear
         /\ \A v : Current(v)' = Current(v)
  BY DEF Ordered, Linked, RowsClear, Current, Open, Between, IsChange

(* A row that is dated no earlier than the others and finds in force what  *)
(* the last change announced.                                              *)
LEMMA RowClear ==
  ASSUME HostTypeOK, NEW row \in RowRec, ledger' = Append(ledger, row),
         Ordered, Linked, Past(row.ts),
         Current(IF row.type = "threshold_changed" THEN row.old ELSE row.stamp)
  PROVE  /\ Ordered' /\ Linked'
         /\ \A i \in DOMAIN ledger' : ledger'[i].ts <= row.ts
         /\ Current(row.stamp)'
<1>0. PICK n \in Nat : n = Len(ledger)
  BY LedgerTyped, LenProperties
<1> DEFINE found == IF row.type = "threshold_changed" THEN row.old ELSE row.stamp
<1>1. /\ DOMAIN ledger = 1 .. n /\ DOMAIN ledger' = 1 .. n + 1
      /\ \A i \in 1 .. n : ledger'[i] = ledger[i]
      /\ ledger'[n + 1] = row
  BY <1>0, LedgerTyped, AppendProperties, LenProperties
<1>2. /\ \A i \in 1 .. n : IsChange(i)' = IsChange(i)
      /\ IsChange(n + 1)' <=> row.type = "threshold_changed"
  BY <1>1 DEF IsChange
<1>3. \A i \in 1 .. n + 1 : i \in 1 .. n \/ i = n + 1
  OBVIOUS
<1>4. \A i \in 1 .. n : i < n + 1 /\ ~(n + 1 < i)
  OBVIOUS
<1>5. /\ \A i, j \in 1 .. n : Between(i, j)' = Between(i, j)
      /\ \A i \in 1 .. n : Between(i, n + 1)' = Open(i)
      /\ \A i \in 1 .. n : Open(i)' => Open(i) /\ ~IsChange(n + 1)'
  <2>1. \A i, j \in 1 .. n : Between(i, j)' <=> Between(i, j)
    BY <1>1, <1>2, <1>3, <1>4 DEF Between
  <2>2. \A i \in 1 .. n : Between(i, n + 1)' <=> Open(i)
    BY <1>1, <1>2, <1>3, <1>4 DEF Between, Open
  <2>3. \A i \in 1 .. n : Open(i)' => Open(i) /\ ~IsChange(n + 1)'
    BY <1>1, <1>2, <1>4 DEF Open
  <2>4. /\ \A i, j \in 1 .. n : Between(i, j)' \in BOOLEAN /\ Between(i, j) \in BOOLEAN
        /\ \A i \in 1 .. n : Between(i, n + 1)' \in BOOLEAN /\ Open(i) \in BOOLEAN
    BY DEF Between, Open
  <2> QED BY <2>1, <2>2, <2>3, <2>4
<1>6. \A i \in 1 .. n : ledger[i].ts <= row.ts
  BY <1>1 DEF Past
<1>7. Ordered'
  BY <1>1, <1>3, <1>4, <1>6 DEF Ordered
<1>8. Linked'
  <2> SUFFICES ASSUME NEW i \in 1 .. n + 1, NEW j \in 1 .. n + 1, i < j, Between(i, j)'
               PROVE  ledger'[i].stamp = IF IsChange(j)' THEN ledger'[j].old ELSE ledger'[j].stamp
    BY <1>1 DEF Linked
  <2>1. i \in 1 .. n
    OBVIOUS
  <2>2. CASE j \in 1 .. n
    <3>1. ledger[i].stamp = IF IsChange(j) THEN ledger[j].old ELSE ledger[j].stamp
      BY <1>1, <1>5, <2>1, <2>2 DEF Linked
    <3> QED BY <1>1, <1>2, <2>1, <2>2, <3>1
  <2>3. CASE j = n + 1
    <3>1. ledger[i].stamp = found
      BY <1>1, <1>5, <2>1, <2>3 DEF Current
    <3> QED BY <1>1, <1>2, <2>1, <2>3, <3>1
  <2> QED BY <1>3, <2>2, <2>3
<1>9. Current(row.stamp)'
  <2> SUFFICES ASSUME NEW i \in 1 .. n + 1, Open(i)'
               PROVE  ledger'[i].stamp = row.stamp
    BY <1>1 DEF Current
  <2>1. CASE i \in 1 .. n
    <3>1. Open(i) /\ row.type # "threshold_changed"
      BY <1>2, <1>5, <2>1
    <3> QED BY <1>1, <2>1, <3>1 DEF Current
  <2>2. CASE i = n + 1
    BY <1>1, <2>2
  <2> QED BY <1>3, <2>1, <2>2
<1>10. row.ts \in Nat
  BY DEF RowRec
<1>11. \A i \in DOMAIN ledger' : ledger'[i].ts <= row.ts
  BY <1>1, <1>3, <1>6, <1>10
<1> QED BY <1>7, <1>8, <1>9, <1>11

LEMMA BeginClear ==
  ASSUME HostTypeOK, HandledInv, EarlyInv, ClearInv, Calm',
         NEW t \in Threads, NEW p \in Processes, NEW r \in Requests, begin(t, p, r)
  PROVE  Clear'
<1> DEFINE n == [Free EXCEPT !.at = "next", !.host = p, !.todo = r, !.ts = clock']
<1>1. /\ p \in Serving /\ req' = [req EXCEPT ![t] = n]
      /\ clock' \in {now \in {clock, clock + 1} : now <= MaxClock}
      /\ marks' = IF Busy # {} THEN marks \cup {"crossed"} ELSE marks
      /\ UNCHANGED <<proc, disk, ledger, early>>
  BY DEF begin, At, Serving
<1>2. Busy = {} /\ marks' = marks /\ Calm
  BY <1>1 DEF Calm
<1>3. /\ Clear /\ Rested /\ Current(Settings_load.threshold) /\ Ordered /\ Linked
      /\ "overlap" \notin marks
  BY <1>2 DEF ClearInv, Clear
<1>4. n.at = "next" /\ n.host = p /\ n.ts = clock' /\ n.old = None
  BY DEF Free
<1> HIDE DEF n
<1>5. req'[t] = n /\ OtherReqs(t)
  BY <1>1 DEF HostTypeOK, OtherReqs
<1>6. clock \in Nat /\ clock <= clock'
  BY <1>1, CountsTyped
<1>7. \A i \in DOMAIN ledger' : ledger'[i].ts <= req'[t].ts
  <2>1. \A i \in DOMAIN ledger : ledger[i] \in RowRec /\ ledger[i].ts <= clock
    BY LedgerTyped
  <2>2. \A i \in DOMAIN ledger : ledger[i].ts \in Nat
    BY <2>1 DEF RowRec
  <2>3. clock' \in Nat
    BY <1>1, <1>6
  <2> QED BY <1>1, <1>4, <1>5, <1>6, <2>1, <2>2, <2>3
<1>8. /\ disk'.settings # Torn /\ Settings_load' = Settings_load
      /\ proc[p].mem.threshold = Settings_load.threshold
  BY <1>1, <1>3 DEF Rested, Settings_load
<1>9. Mem(t)' = proc[p].mem
  BY <1>1, <1>4, <1>5 DEF Mem
<1>10. Announced(t)' = Settings_load.threshold
  BY <1>4, <1>5, <1>8, <1>9 DEF Announced
<1>11. InStep(t)'
  BY <1>4, <1>5, <1>8, <1>9, <1>10 DEF InStep
<1>12. Current(Announced(t))'
  BY <1>1, <1>3, <1>10 DEF Current, Open, IsChange
<1>13. Ordered' /\ Linked' /\ req'[t].at # "idle"
  BY <1>1, <1>3, <1>4, <1>5, LedgerSame
<1> QED BY <1>1, <1>2, <1>3, <1>5, <1>7, <1>11, <1>12, <1>13, RequestClear

(* The next entry, or the end of a request that has saved what it set. *)
LEMMA RestClear ==
  ASSUME HostTypeOK, HandledInv, EarlyInv, ClearInv, Calm', marks \subseteq marks',
         NEW t \in Threads, req[t].at # "idle", req'[t] = Rest(req[t]) \/ req'[t] = Free,
         OtherReqs(t), early' = early, "overlap" \notin marks',
         \A p \in Processes : proc'[p].at = proc[p].at,
         disk'.settings # Torn,
         proc'[req[t].host].mem.threshold = Settings_load'.threshold,
         Ordered', Linked', \A i \in DOMAIN ledger' : ledger'[i].ts <= req[t].ts,
         Current(Settings_load.threshold)'
  PROVE  Clear'
<1>1. /\ req'[t].at \in {"idle", "next"}
      /\ req'[t].at # "idle" => req'[t].host = req[t].host /\ req'[t].ts = req[t].ts
  BY RestTyped, FreeTyped
<1>2. /\ Calm /\ Clear /\ Busy = {t} /\ req[t].host \in Serving
  BY RequestAlone
<1>3. ASSUME req'[t].at # "idle"
      PROVE  InStep(t)' /\ Current(Announced(t))'
  <2>1. Mem(t)' = proc'[req[t].host].mem
    BY <1>1, <1>3 DEF Mem
  <2>2. Announced(t)' = Settings_load'.threshold
    BY <1>1, <2>1 DEF Announced
  <2>3. InStep(t)'
    BY <1>1, <1>3, <2>1, <2>2 DEF InStep
  <2>4. Current(Announced(t))'
    BY <2>2 DEF Current
  <2> QED BY <2>3, <2>4
<1> QED BY <1>1, <1>2, <1>3, RequestClear

(* A change in memory, that is to be saved. *)
LEMMA ChangeClear ==
  ASSUME HostTypeOK, HandledInv, EarlyInv, ClearInv, Calm', UNCHANGED <<disk, ledger, early>>,
         NEW t \in Threads, req[t].at = "next", OtherReqs(t), marks' = marks,
         req'[t].at = "save", req'[t].host = req[t].host, req'[t].todo = req[t].todo,
         req'[t].ts = req[t].ts,
         \A p \in Processes : proc'[p].at = proc[p].at,
         NEW mem, proc'[req[t].host].mem = mem,
         \/ mem.threshold = Mem(t).threshold /\ req'[t].old = None
         \/ /\ Head(req[t].todo)[1] = "threshold" /\ mem.threshold = Value(t)
            /\ req'[t].old = IF mem.threshold # Mem(t).threshold THEN Mem(t).threshold ELSE None,
         Head(req[t].todo)[1] = "threshold" => mem.threshold = Value(t)
  PROVE  Clear'
<1>1. /\ Calm /\ Clear /\ Busy = {t} /\ Past(req[t].ts) /\ InStep(t) /\ Current(Announced(t))
      /\ req[t].host \in Serving /\ Mem(t).threshold \in Nat
      /\ Ordered /\ Linked /\ "overlap" \notin marks
  BY RequestAlone
<1>2. Announced(t) = Mem(t).threshold /\ disk.settings # Torn
      /\ Settings_load.threshold = Mem(t).threshold
  BY <1>1 DEF Announced, InStep
<1>3. Mem(t)' = mem /\ Value(t)' = Value(t) /\ Settings_load' = Settings_load
  BY DEF Mem, Value, Settings_load
<1>4. None # Mem(t).threshold
  BY <1>1, HostAssumption
<1>5. Announced(t)' = Mem(t).threshold
  BY <1>3, <1>4 DEF Announced
<1>6. InStep(t)'
  BY <1>2, <1>3, <1>4, <1>5 DEF InStep
<1>7. Current(Announced(t))'
  BY <1>1, <1>2, <1>5 DEF Current, Open, IsChange
<1>8. \A i \in DOMAIN ledger' : ledger'[i].ts <= req'[t].ts
  BY <1>1 DEF Past
<1>9. Ordered' /\ Linked'
  BY <1>1, LedgerSame
<1> QED BY <1>1, <1>6, <1>7, <1>8, <1>9, RequestClear

LEMMA ThresholdClear ==
  ASSUME HostTypeOK, HandledInv, EarlyInv, ClearInv, Calm', NEW t \in Threads, set_threshold(t)
  PROVE  Clear'
<1> DEFINE h == req[t].host
           v == Value(t)
           mem == [Mem(t) EXCEPT !.threshold = v]
           old == IF v # Mem(t).threshold THEN Mem(t).threshold ELSE None
<1>1. /\ req[t].at = "next" /\ proc' = [proc EXCEPT ![h].mem = mem] /\ ToSave(t, old)
      /\ marks' = IF Asks(t, "bootstrap") THEN marks \cup {"bootstrap"} ELSE marks
      /\ Asks(t, "threshold") \/ Asks(t, "bootstrap")
      /\ UNCHANGED <<disk, ledger, clock, spent, early>>
  BY DEF set_threshold, Asks, SetMem
<1>2. Head(req[t].todo)[1] = "threshold" /\ marks' = marks
  BY <1>1 DEF Calm, Asks
<1>3. v \in Nat /\ h \in Processes /\ Mem(t) \in Settings /\ Mem(t).threshold \in Nat
  BY <1>1, ValueTyped, BusyTyped, ProcTyped DEF Mem
<1>4. mem \in Settings /\ mem.threshold = v /\ old \in Nat \cup {None}
  BY <1>3 DEF Settings
<1> HIDE DEF mem, v
<1>5. proc'[h].mem = mem /\ \A p \in Processes : proc'[p].at = proc[p].at
  BY <1>1, <1>3, <1>4, SetMemEffect
<1>6. /\ req'[t].at = "save" /\ req'[t].host = h /\ req'[t].todo = req[t].todo
      /\ req'[t].ts = req[t].ts /\ req'[t].old = old /\ OtherReqs(t)
  BY <1>1, <1>4, ToSaveEffect
<1> QED BY <1>1, <1>2, <1>4, <1>5, <1>6, ChangeClear DEF v

(* A request that ends, or goes on, and leaves the threshold alone. *)
LEMMA PassClear ==
  ASSUME HostTypeOK, HandledInv, EarlyInv, ClearInv, Calm', UNCHANGED <<disk, ledger, early>>,
         marks \subseteq marks', marks' \subseteq marks \cup {"refused"},
         NEW t \in Threads, req[t].at = "next", OtherReqs(t),
         req'[t] = Rest(req[t]) \/ req'[t] = Free,
         \A p \in Processes : proc'[p].at = proc[p].at,
         proc'[req[t].host].mem.threshold = Mem(t).threshold
  PROVE  Clear'
<1>1. /\ Past(req[t].ts) /\ InStep(t) /\ Current(Announced(t))
      /\ Ordered /\ Linked /\ "overlap" \notin marks
  BY RequestAlone
<1>2. /\ Announced(t) = Mem(t).threshold /\ disk.settings # Torn
      /\ Settings_load.threshold = Mem(t).threshold
  BY <1>1 DEF Announced, InStep
<1>3. Settings_load' = Settings_load
  BY DEF Settings_load
<1>4. Current(Settings_load.threshold)'
  BY <1>1, <1>2, <1>3 DEF Current, Open, IsChange
<1>5. \A i \in DOMAIN ledger' : ledger'[i].ts <= req[t].ts
  BY <1>1 DEF Past
<1>6. Ordered' /\ Linked'
  BY <1>1, LedgerSame
<1> QED BY <1>1, <1>2, <1>3, <1>4, <1>5, <1>6, RestClear

LEMMA WeightsClear ==
  ASSUME HostTypeOK, HandledInv, EarlyInv, ClearInv, Calm', NEW t \in Threads, set_weights(t)
  PROVE  Clear'
<1> DEFINE h == req[t].host
           w == Value(t)
           Reached(i) == \A j \in 1 .. i : w[j] >= 0
           now == [i \in 1 .. 4 |-> IF Reached(i) THEN w[i] ELSE Mem(t).weights[i]]
           mem == [Mem(t) EXCEPT !.weights = now]
<1>1. /\ req[t].at = "next" /\ proc' = [proc EXCEPT ![h].mem = mem]
      /\ \/ ToSave(t, None) /\ marks' = marks
         \/ req' = [req EXCEPT ![t] = Free] /\ marks' = marks \cup {"refused"}
      /\ Head(req[t].todo)[1] = "weights"
      /\ UNCHANGED <<disk, ledger, clock, spent, early>>
  BY DEF set_weights, Asks, SetMem
<1>2. w \in [1 .. 4 -> Int] /\ h \in Processes
  BY <1>1, ValueTyped, BusyTyped DEF set_weights
<1>3. Mem(t) = proc[h].mem /\ Mem(t) \in Settings /\ Mem(t).weights \in [1 .. 4 -> Int]
  BY <1>2, ProcTyped DEF Mem
<1>4. now \in [1 .. 4 -> Int]
  <2> HIDE DEF Reached, w
  <2> QED BY <1>2, <1>3
<1> HIDE DEF now, Reached, w
<1>5. mem \in Settings /\ mem.threshold = Mem(t).threshold
  BY <1>3, <1>4 DEF Settings
<1> HIDE DEF mem
<1>6. proc'[h].mem = mem /\ \A p \in Processes : proc'[p].at = proc[p].at
  BY <1>1, <1>2, <1>5, SetMemEffect
<1>7. CASE ToSave(t, None) /\ marks' = marks
  <2>1. /\ req'[t].at = "save" /\ req'[t].host = h /\ req'[t].todo = req[t].todo
        /\ req'[t].ts = req[t].ts /\ req'[t].old = None /\ OtherReqs(t)
    BY <1>7, ToSaveEffect
  <2> QED BY <1>1, <1>5, <1>6, <1>7, <2>1, ChangeClear
<1>8. CASE req' = [req EXCEPT ![t] = Free] /\ marks' = marks \cup {"refused"}
  <2>1. req'[t] = Free /\ OtherReqs(t)
    BY <1>8, FreeTyped, SetReqEffect
  <2> QED BY <1>1, <1>5, <1>6, <1>8, <2>1, PassClear
<1> QED BY <1>1, <1>7, <1>8

LEMMA AllowClear ==
  ASSUME HostTypeOK, HandledInv, EarlyInv, ClearInv, Calm', NEW t \in Threads,
         set_allow_tunnel(t)
  PROVE  Clear'
<1>0. /\ req[t].at = "next" /\ Head(req[t].todo)[1] = "allow"
      /\ UNCHANGED <<disk, ledger, clock, spent, marks, early>>
  BY DEF set_allow_tunnel, Asks
<1>1. CASE Value(t)
  <2>1. /\ req' = [req EXCEPT ![t] = Rest(req[t])] \/ req' = [req EXCEPT ![t] = Free]
        /\ UNCHANGED proc
    BY <1>1 DEF set_allow_tunnel
  <2>2. PICK n \in {Rest(req[t]), Free} : req' = [req EXCEPT ![t] = n]
    BY <2>1
  <2>3. req'[t] = n /\ OtherReqs(t)
    BY <2>2 DEF HostTypeOK, OtherReqs
  <2>4. proc'[req[t].host].mem.threshold = Mem(t).threshold
    BY <2>1 DEF Mem
  <2> QED BY <1>0, <2>1, <2>3, <2>4, PassClear
<1>2. CASE ~Value(t)
  <2> DEFINE h == req[t].host
             mem == [Mem(t) EXCEPT !.allow = FALSE]
  <2>1. proc' = [proc EXCEPT ![h].mem = mem] /\ ToSave(t, None)
    BY <1>2 DEF set_allow_tunnel, SetMem
  <2>2. h \in Processes
    BY <1>0, BusyTyped
  <2>3. mem \in Settings /\ mem.threshold = Mem(t).threshold
    BY <2>2, ProcTyped DEF Mem, Settings
  <2> HIDE DEF mem
  <2>4. proc'[h].mem = mem /\ \A p \in Processes : proc'[p].at = proc[p].at
    BY <2>1, <2>2, <2>3, SetMemEffect
  <2>5. /\ req'[t].at = "save" /\ req'[t].host = h /\ req'[t].todo = req[t].todo
        /\ req'[t].ts = req[t].ts /\ req'[t].old = None /\ OtherReqs(t)
    BY <2>1, ToSaveEffect
  <2> QED BY <1>0, <2>3, <2>4, <2>5, ChangeClear
<1> QED BY <1>1, <1>2

LEMMA PersistClear ==
  ASSUME HostTypeOK, HandledInv, EarlyInv, ClearInv, Calm', NEW t \in Threads, _persist(t)
  PROVE  Clear'
<1>1. /\ req[t].at = "save" /\ req'[t].at = "close" /\ req'[t].host = req[t].host
      /\ req'[t].todo = req[t].todo /\ req'[t].ts = req[t].ts /\ req'[t].old = req[t].old
      /\ req'[t].text = proc[req[t].host].mem /\ OtherReqs(t)
      /\ marks' = IF Writing # {} THEN marks \cup {"overlap"} ELSE marks
      /\ UNCHANGED <<proc, ledger, early>>
  BY PersistEffect
<1>2. marks \subseteq marks'
  BY <1>1
<1>3. /\ Calm /\ Clear /\ Busy = {t} /\ Past(req[t].ts) /\ InStep(t) /\ Current(Announced(t))
      /\ req[t].host \in Serving /\ Ordered /\ Linked /\ "overlap" \notin marks
      /\ Mem(t) = proc[req[t].host].mem
  BY <1>1, <1>2, RequestAlone
<1>4. Writing = {}
  <2>1. \A x \in Writing : x \in Busy /\ req[x].at = "close"
    BY DEF Writing, Busy
  <2> QED BY <1>1, <1>3, <2>1
<1>5. Mem(t)' = Mem(t) /\ Value(t)' = Value(t)
  BY <1>1 DEF Mem, Value
<1>6. Announced(t)' = Announced(t)
  BY <1>1, <1>5 DEF Announced
<1>7. InStep(t)'
  BY <1>1, <1>3, <1>5 DEF InStep
<1>8. Current(Announced(t))'
  BY <1>1, <1>3, <1>6 DEF Current, Open, IsChange
<1>9. \A i \in DOMAIN ledger' : ledger'[i].ts <= req'[t].ts
  BY <1>1, <1>3 DEF Past
<1>10. Ordered' /\ Linked'
  BY <1>1, <1>3, LedgerSame
<1> QED BY <1>1, <1>3, <1>4, <1>7, <1>8, <1>9, <1>10, RequestClear

LEMMA CloseClear ==
  ASSUME HostTypeOK, HandledInv, EarlyInv, SaveInv, ClearInv, Calm', NEW t \in Threads,
         _persist_close(t)
  PROVE  Clear'
<1>1. /\ req[t].at = "close" /\ OtherReqs(t)
      /\ req'[t].at = "event" => req'[t].host = req[t].host
      /\ \/ /\ req'[t].at = "event" /\ req[t].old # None /\ req'[t].old = req[t].old
            /\ req'[t].todo = req[t].todo /\ req'[t].ts = req[t].ts
         \/ /\ req'[t] = Rest(req[t])
            /\ Head(req[t].todo)[1] = "threshold" => req[t].old = None
      /\ req[t].text \in Settings /\ (disk.settings = Torn => disk'.settings = req[t].text)
      /\ marks' = IF req[t].text.allow THEN marks ELSE marks \cup {"forbidden"}
      /\ UNCHANGED <<proc, ledger, early>>
  BY CloseEffect
<1>2. marks \subseteq marks'
  BY <1>1
<1>3. /\ Calm /\ Clear /\ Busy = {t} /\ Past(req[t].ts) /\ InStep(t) /\ Current(Announced(t))
      /\ req[t].host \in Serving /\ Ordered /\ Linked /\ "overlap" \notin marks
      /\ Mem(t) = proc[req[t].host].mem
  BY <1>1, <1>2, RequestAlone
<1>4. disk'.settings = Mem(t)
  BY <1>1, <1>3 DEF SaveInv, InStep
<1>5. disk'.settings # Torn /\ Settings_load' = Mem(t)
  BY <1>1, <1>3, <1>4, HostAssumption DEF Settings_load, InStep
<1>6. Ordered' /\ Linked' /\ "overlap" \notin marks'
  BY <1>1, <1>3, LedgerSame
<1>7. CASE /\ req'[t].at = "event" /\ req[t].old # None /\ req'[t].old = req[t].old
           /\ req'[t].todo = req[t].todo /\ req'[t].ts = req[t].ts
  <2>1. Mem(t)' = Mem(t) /\ Value(t)' = Value(t)
    BY <1>1, <1>7 DEF Mem, Value
  <2>2. Announced(t)' = Announced(t)
    BY <1>1, <1>7 DEF Announced
  <2>3. InStep(t)'
    BY <1>1, <1>3, <1>5, <1>7, <2>1 DEF InStep
  <2>4. Current(Announced(t))'
    BY <1>1, <1>3, <2>2 DEF Current, Open, IsChange
  <2>5. \A i \in DOMAIN ledger' : ledger'[i].ts <= req'[t].ts
    BY <1>1, <1>3, <1>7 DEF Past
  <2> QED BY <1>1, <1>3, <1>6, <1>7, <2>3, <2>4, <2>5, RequestClear
<1>8. CASE /\ req'[t] = Rest(req[t])
           /\ Head(req[t].todo)[1] = "threshold" => req[t].old = None
  <2>1. Announced(t) = Mem(t).threshold
    BY <1>1, <1>3, <1>8 DEF Announced, InStep
  <2>2. Current(Settings_load.threshold)'
    BY <1>1, <1>3, <1>5, <2>1 DEF Current, Open, IsChange
  <2>3. \A i \in DOMAIN ledger' : ledger'[i].ts <= req[t].ts
    BY <1>1, <1>3 DEF Past
  <2> QED BY <1>1, <1>2, <1>3, <1>5, <1>6, <1>8, <2>2, <2>3, RestClear
<1> QED BY <1>1, <1>7, <1>8

(* A row is written: the change that the request has made, or a job's. *)
LEMMA RowsStayClear ==
  ASSUME HostTypeOK, HandledInv, EarlyInv, ClearInv, NEW t \in Threads,
         threshold_changed(t) \/ job_completed(t)
  PROVE  RowsClear' /\ (Calm' => Clear')
<1>1. /\ req[t].at \in {"next", "event"} /\ req' = [req EXCEPT ![t] = Rest(req[t])]
      /\ UNCHANGED <<proc, disk, clock, spent, marks, early>>
  BY DEF threshold_changed, job_completed, Asks
<1>2. /\ req[t].host \in Processes /\ req[t].ts \in Nat /\ req[t].old \in Nat \cup {None}
      /\ Mem(t) \in Settings /\ Mem(t).threshold \in Nat
  BY <1>1, BusyTyped, ReqTyped, ProcTyped DEF Mem
<1>3. PICK row \in RowRec :
         /\ ledger' = Append(ledger, row) /\ row.ts = req[t].ts
         /\ \/ /\ req[t].at = "event" /\ row.type = "threshold_changed" /\ row.old = req[t].old
               /\ row.old \in Nat /\ row.stamp = Value(t) /\ row.new = Value(t)
            \/ /\ req[t].at = "next" /\ row.type = "job_completed"
               /\ row.stamp = Mem(t).threshold /\ row.job \in JobRec
  <2>1. CASE threshold_changed(t)
    <3> DEFINE row == Row(t, "threshold_changed", req[t].old, Value(t), Value(t), "system", None)
    <3>1. Value(t) \in Nat /\ req[t].at = "event" /\ req[t].old # None
      BY <2>1, ValueTyped DEF threshold_changed, ClearInv
    <3>2. /\ row \in RowRec /\ row.ts = req[t].ts /\ row.type = "threshold_changed"
          /\ row.old = req[t].old /\ row.stamp = Value(t) /\ row.new = Value(t)
      BY <1>2, <3>1 DEF Row, RowRec
    <3>3. ledger' = Append(ledger, row) /\ row.old \in Nat
      BY <1>2, <2>1, <3>1, <3>2 DEF threshold_changed
    <3> HIDE DEF row
    <3> QED BY <3>1, <3>2, <3>3
  <2>2. CASE job_completed(t)
    <3> DEFINE j == Value(t)
               row == Row(t, "job_completed", None, None, Mem(t).threshold, j.node, j.job)
    <3>1. j \in JobsAsked /\ req[t].at = "next"
      BY <2>2, ValueTyped DEF job_completed, Asks
    <3>0. j.job \in JobRec
      BY <3>1, HostAssumption DEF JobsAsked
    <3> HIDE DEF j
    <3>2. /\ row \in RowRec /\ row.ts = req[t].ts /\ row.type = "job_completed"
          /\ row.stamp = Mem(t).threshold /\ row.job = j.job
      BY <1>2, <3>1 DEF Row, RowRec
    <3>3. ledger' = Append(ledger, row)
      BY <2>2 DEF job_completed, j
    <3> HIDE DEF row
    <3> QED BY <3>0, <3>1, <3>2, <3>3
  <2> QED BY <2>1, <2>2
<1>4. RowsClear'
  <2>1. PICK n \in Nat : n = Len(ledger)
    BY LedgerTyped, LenProperties
  <2>2. /\ DOMAIN ledger = 1 .. n /\ DOMAIN ledger' = 1 .. n + 1
        /\ \A i \in 1 .. n : ledger'[i] = ledger[i]
        /\ ledger'[n + 1] = row
    BY <1>3, <2>1, LedgerTyped, AppendProperties, LenProperties
  <2>3. \A i \in 1 .. n + 1 : i \in 1 .. n \/ i = n + 1
    OBVIOUS
  <2>4. RowsClear
    BY DEF ClearInv
  <2>5. \A i \in 1 .. n + 1 :
           IF ledger'[i].type = "threshold_changed"
             THEN ledger'[i].stamp = ledger'[i].new /\ ledger'[i].old \in Nat
             ELSE ledger'[i].job \in JobRec
    BY <1>3, <2>2, <2>3, <2>4 DEF RowsClear, IsChange
  <2> QED BY <2>2, <2>5 DEF RowsClear, IsChange
<1>5. ASSUME Calm'
      PROVE  Clear'
  <2>1. /\ Clear /\ Past(req[t].ts) /\ InStep(t) /\ Current(Announced(t))
        /\ Ordered /\ Linked /\ "overlap" \notin marks
    BY <1>1, <1>5, RequestAlone
  <2>3. /\ disk.settings # Torn /\ Settings_load.threshold = Mem(t).threshold
        /\ Settings_load' = Settings_load
    BY <1>1, <2>1 DEF InStep, Settings_load
  <2>4. row.stamp = Mem(t).threshold
    <3>1. req[t].at = "event" => Head(req[t].todo)[1] = "threshold"
      BY DEF HandledInv
    <3> QED BY <1>3, <2>1, <3>1 DEF InStep
  <2>5. Announced(t) = IF row.type = "threshold_changed" THEN row.old ELSE row.stamp
    BY <1>3, HostAssumption DEF Announced
  <2>6. Current(IF row.type = "threshold_changed" THEN row.old ELSE row.stamp)
    BY <2>1, <2>5
  <2>8. Past(row.ts)
    BY <1>3, <2>1
  <2>9. /\ Ordered' /\ Linked' /\ \A i \in DOMAIN ledger' : ledger'[i].ts <= row.ts
        /\ Current(row.stamp)'
    BY <1>3, <2>1, <2>6, <2>8, RowClear
  <2>10. Current(Settings_load.threshold)'
    BY <2>3, <2>4, <2>9 DEF Current
  <2>11. req'[t] = Rest(req[t]) /\ OtherReqs(t)
    BY <1>1 DEF HostTypeOK, OtherReqs
  <2>12. proc'[req[t].host].mem.threshold = Settings_load'.threshold
    BY <1>1, <2>3 DEF Mem
  <2> QED BY <1>1, <1>3, <1>5, <2>1, <2>3, <2>9, <2>10, <2>11, <2>12, RestClear
<1> QED BY <1>4, <1>5

LEMMA ClearStep ==
  ASSUME HostTypeOK, HandledInv, RowsInv, EarlyInv, SaveInv, ClearInv, [HostNext]_hostVars
  PROVE  ClearInv'
<1>1. CASE UNCHANGED hostVars
  BY <1>1 DEF hostVars, ClearInv, Clear, Calm, RowsClear, Ordered, Linked, Between, Open, Past,
              Current, IsChange, InStep, Rested, Announced, Mem, Value, Settings_load, Busy,
              Serving, Loading, At
<1>2. ASSUME NEW p \in Processes,
             \/ make_state(p) \/ open_lock(p) \/ acquire(p) \/ release(p)
             \/ acquire_refused(p) \/ release_unlink(p) \/ crash(p) \/ rotate(p)
      PROVE  ClearInv'
  BY <1>2, ProcessesClear
<1>3. ASSUME NEW t \in Threads, RequestStep(t)
      PROVE  ClearInv'
  <2>1. \A x \in Threads : req'[x].at = "event" => req'[x].old # None
    BY <1>3, RequestEffect DEF Prepared, OtherReqs, ClearInv
  <2>2. CASE threshold_changed(t) \/ job_completed(t)
    BY <2>1, <2>2, RowsStayClear DEF ClearInv
  <2>3. CASE \/ \E p \in Processes, r \in Requests : begin(t, p, r)
             \/ set_threshold(t) \/ set_weights(t) \/ set_allow_tunnel(t)
    <3>1. UNCHANGED ledger
      BY <2>3 DEF begin, set_threshold, set_weights, set_allow_tunnel
    <3>2. RowsClear'
      BY <3>1, LedgerSame DEF ClearInv
    <3>3. Calm' => Clear'
      BY <2>3, BeginClear, ThresholdClear, WeightsClear, AllowClear
    <3> QED BY <2>1, <3>2, <3>3 DEF ClearInv
  <2> QED BY <1>3, <2>2, <2>3 DEF RequestStep
<1>4. ASSUME NEW t \in Threads, _persist(t)
      PROVE  ClearInv'
  <2>1. /\ \A x \in Threads : req'[x].at = "event" => req'[x].old # None
        /\ UNCHANGED ledger
    BY <1>4, PersistEffect DEF OtherReqs, ClearInv
  <2>2. RowsClear'
    BY <2>1, LedgerSame DEF ClearInv
  <2> QED BY <1>4, <2>1, <2>2, PersistClear DEF ClearInv
<1>5. ASSUME NEW t \in Threads, _persist_close(t)
      PROVE  ClearInv'
  <2>0. req[t].at = "close"
    BY <1>5, CloseEffect
  <2>1. Rest(req[t]).at # "event"
    BY <2>0, RestTyped
  <2>2. /\ \A x \in Threads : req'[x].at = "event" => req'[x].old # None
        /\ UNCHANGED ledger
    BY <1>5, <2>1, CloseEffect DEF OtherReqs, ClearInv
  <2>3. RowsClear'
    BY <2>2, LedgerSame DEF ClearInv
  <2> QED BY <1>5, <2>2, <2>3, CloseClear DEF ClearInv
<1>6. ASSUME NEW t \in Threads, _persist_fails(t)
      PROVE  ClearInv'
  <2>1. /\ \A x \in Threads : req'[x].at = "event" => req'[x].old # None
        /\ UNCHANGED ledger /\ "failed" \in marks'
    BY <1>6, FailEffect DEF OtherReqs, ClearInv
  <2>2. RowsClear' /\ ~Calm'
    BY <2>1, LedgerSame DEF ClearInv, Calm
  <2> QED BY <2>1, <2>2 DEF ClearInv
<1> QED BY StepOf, <1>1, <1>2, <1>3, <1>4, <1>5, <1>6

(* What the links of the ledger say of the spans. *)
LEMMA SpanThresholdHere ==
  ASSUME HostTypeOK, ClearInv
  PROVE  SpanThresholdTrue
<1> SUFFICES ASSUME Clear, NEW c \in DOMAIN Spans, NEW i \in Jobs(Chunk(ledger, Spans[c])),
                    ~ChangedAt(ledger[i].ts)
             PROVE  ledger[i].stamp = Spans[c].threshold
  BY DEF SpanThresholdTrue, ClearInv, Calm
<1>1. /\ i \in DOMAIN Chunk(ledger, Spans[c]) /\ Chunk(ledger, Spans[c])[i].type = "job_completed"
      /\ i \in DOMAIN ledger /\ Chunk(ledger, Spans[c])[i] = ledger[i]
  BY DEF Jobs, Chunk, Restrict
<1>2. Dated(ledger) /\ DOMAIN ledger \subseteq Nat /\ \A k \in DOMAIN ledger : ledger[k] \in RowRec
  BY LedgerDated
<1>3. \A k \in Changes(ledger) : ledger[k].ts # ledger[i].ts
  BY DEF ChangedAt, Changes
<1>4. /\ c # 0 => /\ c \in Changes(ledger) /\ Before(ledger, c, i)
                  /\ \A k \in Changes(ledger) :
                        k # c => Before(ledger, k, c) \/ Before(ledger, i, k)
      /\ c = 0 => \A k \in Changes(ledger) : Before(ledger, i, k)
  BY <1>1, <1>2, <1>3, SpanNearest DEF Spans
<1>5. \A k, l \in DOMAIN ledger : k < l => Before(ledger, k, l) /\ ~Before(ledger, l, k)
  <2> SUFFICES ASSUME NEW k \in DOMAIN ledger, NEW l \in DOMAIN ledger, k < l
               PROVE  Before(ledger, k, l) /\ ~Before(ledger, l, k)
    OBVIOUS
  <2>1. ledger[k].ts <= ledger[l].ts /\ ledger[k].ts \in Nat /\ ledger[l].ts \in Nat
    BY LedgerDated DEF Clear, Ordered
  <2> QED BY <1>2, <2>1 DEF Before
<1>6. \A k, l \in DOMAIN ledger : Before(ledger, k, l) => k < l
  BY <1>2, <1>5, BeforeOrder
<1>7. \A k \in DOMAIN ledger : IsChange(k) <=> k \in Changes(ledger)
  BY DEF IsChange, Changes
<1>8. ~IsChange(i) /\ Changes(ledger) \subseteq DOMAIN ledger
  BY <1>1 DEF IsChange, Changes
<1>9. CASE c # 0
  <2>1. Spans[c].threshold = ledger[c].new /\ c \in DOMAIN ledger /\ IsChange(c)
    BY <1>4, <1>7, <1>8, <1>9, SpanFields DEF Spans
  <2>2. c < i /\ Between(c, i)
    <3>1. c < i
      BY <1>1, <1>4, <1>6, <1>9, <2>1
    <3>2. ASSUME NEW k \in DOMAIN ledger, c < k, k < i, IsChange(k)
          PROVE  FALSE
      <4>1. Before(ledger, k, c) \/ Before(ledger, i, k)
        BY <1>2, <1>4, <1>7, <1>9, <2>1, <3>2
      <4> QED BY <1>1, <1>5, <2>1, <3>2, <4>1
    <3> QED BY <3>1, <3>2 DEF Between
  <2>3. ledger[c].stamp = ledger[i].stamp
    BY <1>1, <1>8, <2>1, <2>2 DEF Clear, Linked
  <2> QED BY <2>1, <2>3 DEF ClearInv, RowsClear
<1>10. CASE c = 0 /\ Changes(ledger) = {}
  <2> DEFINE stamped == {k \in DOMAIN ledger : ledger[k].stamp # None}
  <2>1. \A k \in DOMAIN ledger : ledger[k].stamp \in Nat /\ ledger[k].stamp # None
    BY <1>2, HostAssumption DEF RowRec
  <2>2. i \in stamped /\ stamped \in SUBSET DOMAIN ledger
    BY <1>1, <2>1
  <2>3. Spans[c].threshold = ledger[Earliest(ledger, stamped)].stamp
    <3>1. FirstThreshold(ledger) = ledger[Earliest(ledger, stamped)].stamp
      BY <2>2 DEF FirstThreshold
    <3> QED BY <1>10, <3>1, SpanFields DEF Spans
  <2> DEFINE a == Earliest(ledger, stamped)
  <2>4. a \in DOMAIN ledger /\ (i # a => Before(ledger, a, i))
    <3> HIDE DEF stamped
    <3> QED BY <1>2, <2>2, EarliestThere
  <2> HIDE DEF a
  <2>5. CASE i # a
    <3>1. a < i /\ Between(a, i)
      BY <1>1, <1>6, <1>7, <1>10, <2>4, <2>5 DEF Between
    <3>2. ledger[a].stamp = ledger[i].stamp
      BY <1>1, <1>8, <2>4, <3>1 DEF Clear, Linked
    <3> QED BY <2>3, <3>2 DEF a
  <2>6. CASE i = a
    BY <2>3, <2>6 DEF a
  <2> QED BY <2>5, <2>6
<1>11. CASE c = 0 /\ Changes(ledger) # {}
  <2> DEFINE f == Earliest(ledger, Changes(ledger))
  <2>1. /\ f \in Changes(ledger) /\ f \in DOMAIN ledger /\ FirstChange(ledger) = ledger[f]
        /\ \A k \in Changes(ledger) : k # f => Before(ledger, f, k)
    BY <1>2, <1>8, <1>11, EarliestThere DEF FirstChange
  <2> HIDE DEF f
  <2>2. IsChange(f) /\ ledger[f].old \in Nat /\ ledger[f].old # None
    BY <1>7, <2>1, HostAssumption DEF ClearInv, RowsClear
  <2>3. Spans[c].threshold = ledger[f].old
    BY <1>11, <2>1, <2>2, SpanFields DEF Spans
  <2>4. i < f
    BY <1>1, <1>4, <1>6, <1>11, <2>1
  <2>5. Between(i, f)
    <3>1. ASSUME NEW k \in DOMAIN ledger, i < k, k < f, IsChange(k)
          PROVE  FALSE
      <4>1. Before(ledger, f, k)
        BY <1>2, <1>7, <2>1, <3>1
      <4> QED BY <1>5, <2>1, <3>1, <4>1
    <3> QED BY <3>1 DEF Between
  <2>6. ledger[i].stamp = ledger[f].old
    BY <1>1, <2>1, <2>2, <2>4, <2>5 DEF Clear, Linked
  <2> QED BY <2>3, <2>6
<1> QED BY <1>9, <1>10, <1>11

-----------------------------------------------------------------------------
(* Two ledgers that differ in what was measured of jobs.                   *)

Alike(e, f) ==
    /\ DOMAIN f = DOMAIN e
    /\ \A i \in DOMAIN e :
         /\ f[i].ts = e[i].ts /\ f[i].type = e[i].type /\ f[i].old = e[i].old
         /\ f[i].new = e[i].new /\ f[i].stamp = e[i].stamp /\ f[i].node = e[i].node
         /\ e[i].type = "job_completed" =>
              f[i].job.ok = e[i].job.ok /\ f[i].job.source = e[i].job.source

LEMMA EndsAlike ==
  ASSUME NEW e, NEW f, Dated(e), Alike(e, f), NEW S \in SUBSET DOMAIN e, S # {}
  PROVE  /\ Earliest(f, S) = Earliest(e, S) /\ Earliest(e, S) \in S
         /\ Latest(f, S) = Latest(e, S) /\ Latest(e, S) \in S
<1>1. Dated(f) /\ DOMAIN f = DOMAIN e
  BY DEF Dated, Alike
<1>2. \A i, j \in DOMAIN e : Before(f, i, j) <=> Before(e, i, j)
  BY DEF Alike, Before
<1>3. /\ Earliest(e, S) \in S /\ \A j \in S : j # Earliest(e, S) => Before(e, Earliest(e, S), j)
      /\ Latest(e, S) \in S /\ \A j \in S : j # Latest(e, S) => Before(e, j, Latest(e, S))
  BY EarliestThere, LatestThere
<1>4. /\ Earliest(f, S) \in S /\ \A j \in S : j # Earliest(f, S) => Before(f, Earliest(f, S), j)
      /\ Latest(f, S) \in S /\ \A j \in S : j # Latest(f, S) => Before(f, j, Latest(f, S))
  BY <1>1, EarliestThere, LatestThere
<1>5. \A i, j \in S : ~(Before(e, i, j) /\ Before(e, j, i))
  BY BeforeOrder
<1> QED BY <1>2, <1>3, <1>4, <1>5

LEMMA SpansAlike ==
  ASSUME NEW e, NEW f, Dated(e), Alike(e, f)
  PROVE  /\ _split_threshold_segments(f) = _split_threshold_segments(e)
         /\ SpanNames(e) # {} => LatestSpan(f) = LatestSpan(e) /\ LatestSpan(e) \in SpanNames(e)
<1> USE DEF Alike
<1>1. Changes(f) = Changes(e) /\ Changes(e) \in SUBSET DOMAIN e
  BY DEF Changes
<1>2. ASSUME DOMAIN e # {}
      PROVE  /\ Start(f) = Start(e)
             /\ f[Latest(f, DOMAIN f)].ts = e[Latest(e, DOMAIN e)].ts
  <2>1. /\ Earliest(f, DOMAIN e) = Earliest(e, DOMAIN e) /\ Earliest(e, DOMAIN e) \in DOMAIN e
        /\ Latest(f, DOMAIN e) = Latest(e, DOMAIN e) /\ Latest(e, DOMAIN e) \in DOMAIN e
    BY <1>2, EndsAlike
  <2> QED BY <2>1 DEF Start
<1>3. ASSUME Changes(e) # {}
      PROVE  /\ FirstChange(f).ts = FirstChange(e).ts /\ FirstChange(f).old = FirstChange(e).old
             /\ Latest(f, Changes(f)) = Latest(e, Changes(e)) /\ Latest(e, Changes(e)) \in Changes(e)
  <2>1. /\ Earliest(f, Changes(e)) = Earliest(e, Changes(e)) /\ Earliest(e, Changes(e)) \in DOMAIN e
        /\ Latest(f, Changes(e)) = Latest(e, Changes(e)) /\ Latest(e, Changes(e)) \in Changes(e)
    BY <1>1, <1>3, EndsAlike
  <2> QED BY <1>1, <2>1 DEF FirstChange
<1>4. FirstThreshold(f) = FirstThreshold(e)
  <2> DEFINE S == {i \in DOMAIN e : e[i].stamp # None}
  <2>1. S = {i \in DOMAIN f : f[i].stamp # None}
    OBVIOUS
  <2>2. CASE S = {}
    BY <2>1, <2>2 DEF FirstThreshold
  <2>3. CASE S # {}
    <3>1. S \in SUBSET DOMAIN e
      OBVIOUS
    <3>2. /\ FirstThreshold(e) = e[Earliest(e, S)].stamp
          /\ FirstThreshold(f) = f[Earliest(f, S)].stamp
      BY <2>1, <2>3 DEF FirstThreshold
    <3> HIDE DEF S
    <3>3. Earliest(f, S) = Earliest(e, S) /\ Earliest(e, S) \in S
      BY <2>3, <3>1, EndsAlike
    <3> QED BY <3>1, <3>2, <3>3
  <2> QED BY <2>2, <2>3
<1>5. SpanNames(f) = SpanNames(e)
  BY <1>1, <1>2, <1>3 DEF SpanNames
<1>6. ASSUME NEW c \in Changes(e)
      PROVE  Until(f, c) = Until(e, c)
  <2> DEFINE next == {j \in Changes(e) : Before(e, c, j)}
  <2>1. next = {j \in Changes(f) : Before(f, c, j)} /\ next \in SUBSET DOMAIN e
    BY <1>1 DEF Before
  <2>2. /\ Until(e, c) = IF next = {} THEN e[Latest(e, DOMAIN e)].ts ELSE e[Earliest(e, next)].ts
        /\ Until(f, c) = IF next = {} THEN f[Latest(f, DOMAIN f)].ts ELSE f[Earliest(f, next)].ts
    BY <2>1 DEF Until
  <2> HIDE DEF next
  <2>3. next # {} => Earliest(f, next) = Earliest(e, next) /\ Earliest(e, next) \in next
    BY <2>1, EndsAlike
  <2> QED BY <1>1, <1>2, <2>1, <2>2, <2>3
<1>7. ASSUME NEW c \in SpanNames(e)
      PROVE  _split_threshold_segments(f)[c] = _split_threshold_segments(e)[c]
  <2>1. CASE c # 0
    <3>1. c \in Changes(e)
      BY <2>1 DEF SpanNames
    <3>2. f[c].new = e[c].new /\ f[c].ts = e[c].ts
      BY <1>1, <3>1
    <3> QED BY <1>5, <1>6, <2>1, <3>1, <3>2 DEF _split_threshold_segments
  <2>2. CASE c = 0
    <3>1. DOMAIN e # {}
      BY <1>1, <2>2, BeforeOrder DEF SpanNames
    <3>2. CASE Changes(e) = {}
      BY <1>1, <1>2, <1>4, <1>5, <2>2, <3>1, <3>2 DEF _split_threshold_segments
    <3>3. CASE Changes(e) # {}
      BY <1>1, <1>2, <1>3, <1>4, <1>5, <2>2, <3>1, <3>3 DEF _split_threshold_segments
    <3> QED BY <3>2, <3>3
  <2> QED BY <2>1, <2>2
<1>8. _split_threshold_segments(f) = _split_threshold_segments(e)
  BY <1>5, <1>7 DEF _split_threshold_segments
<1>9. ASSUME SpanNames(e) # {}
      PROVE  LatestSpan(f) = LatestSpan(e) /\ LatestSpan(e) \in SpanNames(e)
  <2>1. CASE Changes(e) = {}
    BY <1>1, <1>9, <2>1 DEF LatestSpan, SpanNames
  <2>2. CASE Changes(e) # {}
    BY <1>1, <1>3, <2>2 DEF LatestSpan, SpanNames
  <2> QED BY <2>1, <2>2
<1> QED BY <1>8, <1>9

(* The report's top is that of the latest span. *)
TopEvents(e) ==
    IF SpanNames(e) = {} THEN <<>> ELSE Chunk(e, _split_threshold_segments(e)[LatestSpan(e)])

LEMMA TopOf ==
  ASSUME NEW e, e = [i \in DOMAIN e |-> e[i]], Dated(e)
  PROVE  Report(e).top = _compute_tiers(TopEvents(e))
<1>1. _filter_events(e, None, None) = e
  BY DEF _filter_events, Restrict
<1>2. DOMAIN _split_threshold_segments(e) = SpanNames(e)
  BY DEF _split_threshold_segments
<1>3. SpanNames(e) # {} => LatestSpan(e) \in SpanNames(e)
  BY SpansAlike DEF Alike
<1> QED BY <1>1, <1>2, <1>3 DEF Report, compute_report, TopEvents

LEMMA TopAlike ==
  ASSUME NEW e, NEW f, Dated(e), Alike(e, f)
  PROVE  /\ Alike(TopEvents(e), TopEvents(f)) /\ DOMAIN TopEvents(e) \subseteq DOMAIN e
         /\ \A i \in DOMAIN TopEvents(e) : TopEvents(e)[i] = e[i] /\ TopEvents(f)[i] = f[i]
<1>1. SpanNames(f) = SpanNames(e)
  BY SpansAlike DEF _split_threshold_segments
<1>2. CASE SpanNames(e) = {}
  BY <1>1, <1>2 DEF TopEvents, Alike
<1>3. CASE SpanNames(e) # {}
  <2> DEFINE s == _split_threshold_segments(e)[LatestSpan(e)]
  <2>1. TopEvents(e) = Chunk(e, s) /\ TopEvents(f) = Chunk(f, s)
    BY <1>1, <1>3, SpansAlike DEF TopEvents
  <2> HIDE DEF s
  <2> DEFINE C == {i \in DOMAIN e : e[i].ts >= s.from /\ e[i].ts <= s.to}
  <2>2. C = {i \in DOMAIN f : f[i].ts >= s.from /\ f[i].ts <= s.to}
    BY DEF Alike
  <2>3. Chunk(e, s) = [i \in C |-> e[i]] /\ Chunk(f, s) = [i \in C |-> f[i]]
    BY <2>2 DEF Chunk, Restrict
  <2> QED BY <2>1, <2>3 DEF Alike
<1> QED BY <1>2, <1>3

LEMMA TiersAlike ==
  ASSUME NEW e, NEW f, Alike(e, f)
  PROVE  /\ (\A i \in DOMAIN e : e[i].type = "job_completed" /\ e[i].job.source = "sensor"
                                   => f[i].job = e[i].job)
              => /\ _compute_tiers(f).tier1 = _compute_tiers(e).tier1
                 /\ _compute_tiers(f).tier3.measured = _compute_tiers(e).tier3.measured
         /\ (\A i \in DOMAIN e : e[i].type = "job_completed"
                                   /\ e[i].job.source \in {"sensor", "model"} => f[i].job = e[i].job)
              => _compute_tiers(f).tier2 = _compute_tiers(e).tier2
<1> DEFINE je == [i \in Completed(e) |-> e[i].job]
           jf == [i \in Completed(f) |-> f[i].job]
<1>1. Completed(f) = Completed(e) /\ \A i \in Completed(e) : i \in DOMAIN e /\ e[i].type = "job_completed"
  BY DEF Completed, Alike
<1>2. /\ [i \in Completed(f) |-> f[i].ts] = [i \in Completed(e) |-> e[i].ts]
      /\ [i \in Completed(f) |-> f[i].node] = [i \in Completed(e) |-> e[i].node]
  BY <1>1 DEF Alike
<1>3. \A i \in Completed(e) : jf[i].source = je[i].source
  BY <1>1 DEF Alike
<1>4. ASSUME \A i \in DOMAIN e : e[i].type = "job_completed" /\ e[i].job.source = "sensor"
                                   => f[i].job = e[i].job
      PROVE  sensor_jobs(jf) = sensor_jobs(je)
  BY <1>1, <1>3, <1>4 DEF sensor_jobs, Restrict
<1>5. ASSUME \A i \in DOMAIN e : e[i].type = "job_completed"
                                   /\ e[i].job.source \in {"sensor", "model"} => f[i].job = e[i].job
      PROVE  covered_jobs(jf) = covered_jobs(je)
  BY <1>1, <1>3, <1>5 DEF covered_jobs, Restrict
<1>6. /\ _compute_tiers(e).tier1 = Tier1(sensor_jobs(je))
      /\ _compute_tiers(e).tier2 = Tier2(covered_jobs(je))
      /\ _compute_tiers(f).tier1 = Tier1(sensor_jobs(jf))
      /\ _compute_tiers(f).tier2 = Tier2(covered_jobs(jf))
  BY DEF _compute_tiers
<1>7. \A times, names, m, d1, d2 : Tier3(times, names, m, d1).measured = Tier3(times, names, m, d2).measured
  BY DEF Tier3
<1> DEFINE Derived(t) == 10000 * (t.leakage + t.fan) + t.cooling
<1>8. /\ _compute_tiers(e).tier3 = Tier3([i \in Completed(e) |-> e[i].ts],
                                         [i \in Completed(e) |-> e[i].node],
                                         EnergyOf(sensor_jobs(je)), Derived(Tier2(covered_jobs(je))))
      /\ _compute_tiers(f).tier3 = Tier3([i \in Completed(f) |-> f[i].ts],
                                         [i \in Completed(f) |-> f[i].node],
                                         EnergyOf(sensor_jobs(jf)), Derived(Tier2(covered_jobs(jf))))
  BY DEF _compute_tiers
<1> HIDE DEF je, jf, Derived
<1> QED BY <1>2, <1>4, <1>5, <1>6, <1>7, <1>8

LEMMA AlteredAlike ==
  ASSUME HostTypeOK, RowsClear, NEW S
  PROVE  /\ Alike(ledger, Altered(S)) /\ Altered(S) = [i \in DOMAIN Altered(S) |-> Altered(S)[i]]
         /\ \A i \in DOMAIN ledger :
              ledger[i].type = "job_completed" /\ ledger[i].job.source \notin S
                => Altered(S)[i].job = ledger[i].job
<1> DEFINE Other(r) == [r EXCEPT !.job.energy = 9, !.job.tokens = 7, !.job.dt = 3, !.job.hours = 2,
                                 !.job.clock = 1, !.job.util = 99, !.job.ms = 5]
<1>1. /\ DOMAIN Altered(S) = DOMAIN ledger
      /\ \A i \in DOMAIN ledger :
            Altered(S)[i] = IF ledger[i].type = "job_completed" /\ ledger[i].job.source \in S
                              THEN Other(ledger[i]) ELSE ledger[i]
  BY DEF Altered
<1>2. ASSUME NEW r \in RowRec, r.job \in JobRec
      PROVE  /\ Other(r).ts = r.ts /\ Other(r).type = r.type /\ Other(r).old = r.old
             /\ Other(r).new = r.new /\ Other(r).stamp = r.stamp /\ Other(r).node = r.node
             /\ Other(r).job.ok = r.job.ok /\ Other(r).job.source = r.job.source
  <2> DEFINE j == [r.job EXCEPT !.energy = 9, !.tokens = 7, !.dt = 3, !.hours = 2,
                                !.clock = 1, !.util = 99, !.ms = 5]
  <2>1. Other(r) = [r EXCEPT !.job = j]
    BY DEF RowRec
  <2>2. j.ok = r.job.ok /\ j.source = r.job.source
    BY <1>2 DEF JobRec
  <2> HIDE DEF j, Other
  <2> QED BY <2>1, <2>2 DEF RowRec
<1>3. \A i \in DOMAIN ledger : ledger[i] \in RowRec
  BY LedgerDated
<1>4. \A i \in DOMAIN ledger : ledger[i].type = "job_completed" => ledger[i].job \in JobRec
  BY DEF RowsClear, IsChange
<1>5. Altered(S) = [i \in DOMAIN Altered(S) |-> Altered(S)[i]]
  BY DEF Altered
<1> HIDE DEF Other
<1> QED BY <1>1, <1>2, <1>3, <1>4, <1>5 DEF Alike

LEMMA ApartHere ==
  ASSUME HostTypeOK, ClearInv
  PROVE  MeasuredApart
<1> DEFINE M == Altered({"model", "none"})
           N == Altered({"none"})
<1>1. Dated(ledger) /\ ledger = [i \in DOMAIN ledger |-> ledger[i]] /\ RowsClear
  BY LedgerDated, LedgerTyped DEF ClearInv
<1>2. /\ Alike(ledger, M) /\ M = [i \in DOMAIN M |-> M[i]]
      /\ Alike(ledger, N) /\ N = [i \in DOMAIN N |-> N[i]]
  BY <1>1, AlteredAlike
<1>3. /\ \A i \in DOMAIN ledger : ledger[i].type = "job_completed" /\ ledger[i].job.source = "sensor"
            => M[i].job = ledger[i].job
      /\ \A i \in DOMAIN ledger :
            ledger[i].type = "job_completed" /\ ledger[i].job.source \in {"sensor", "model"}
              => N[i].job = ledger[i].job
  BY <1>1, AlteredAlike
<1> HIDE DEF M, N
<1>4. Dated(M) /\ Dated(N)
  BY <1>1, <1>2 DEF Dated, Alike
<1>5. /\ Report(ledger).top = _compute_tiers(TopEvents(ledger))
      /\ Report(M).top = _compute_tiers(TopEvents(M))
      /\ Report(N).top = _compute_tiers(TopEvents(N))
  BY <1>1, <1>2, <1>4, TopOf
<1>6. /\ _compute_tiers(TopEvents(M)).tier1 = _compute_tiers(TopEvents(ledger)).tier1
      /\ _compute_tiers(TopEvents(M)).tier3.measured = _compute_tiers(TopEvents(ledger)).tier3.measured
  <2> DEFINE e == TopEvents(ledger)
             f == TopEvents(M)
  <2>1. /\ Alike(e, f) /\ DOMAIN e \subseteq DOMAIN ledger
        /\ \A i \in DOMAIN e : e[i] = ledger[i] /\ f[i] = M[i]
    BY <1>1, <1>2, TopAlike
  <2> HIDE DEF e, f
  <2>2. _compute_tiers(f).tier1 = _compute_tiers(e).tier1
        /\ _compute_tiers(f).tier3.measured = _compute_tiers(e).tier3.measured
    BY <1>3, <2>1, TiersAlike
  <2> QED BY <2>2 DEF e, f
<1>7. _compute_tiers(TopEvents(N)).tier2 = _compute_tiers(TopEvents(ledger)).tier2
  <2> DEFINE e == TopEvents(ledger)
             f == TopEvents(N)
  <2>1. /\ Alike(e, f) /\ DOMAIN e \subseteq DOMAIN ledger
        /\ \A i \in DOMAIN e : e[i] = ledger[i] /\ f[i] = N[i]
    BY <1>1, <1>2, TopAlike
  <2> HIDE DEF e, f
  <2>2. _compute_tiers(f).tier2 = _compute_tiers(e).tier2
    BY <1>3, <2>1, TiersAlike
  <2> QED BY <2>2 DEF e, f
<1> QED BY <1>5, <1>6, <1>7 DEF MeasuredApart, M, N

-----------------------------------------------------------------------------
(* Sums.                                                                   *)

(* The recursion of a sum, of which SumFunctionOnSet takes the solution. *)
Summed(f, iter, s) ==
    IF s = {} THEN 0 ELSE f[CHOOSE x \in s : TRUE] + iter[s \ {CHOOSE x \in s : TRUE}]
Upto(S, n) == {s \in SUBSET S : Cardinality(s) <= n}

LEMMA OneLess ==
  ASSUME NEW S, IsFiniteSet(S), NEW s \in SUBSET S, s # {}
  PROVE  LET x == CHOOSE x \in s : TRUE
         IN  /\ x \in s /\ s \ {x} \in SUBSET S
             /\ Cardinality(s) \in Nat /\ Cardinality(s \ {x}) = Cardinality(s) - 1
             /\ Cardinality(s \ {x}) \in Nat /\ Cardinality(s \ {x}) < Cardinality(s)
             /\ Cardinality(s) > 0
<1> DEFINE x == CHOOSE x \in s : TRUE
<1>1. x \in s
  OBVIOUS
<1> HIDE DEF x
<1>2. IsFiniteSet(s) /\ IsFiniteSet(s \ {x})
  BY FS_Subset
<1>3. Cardinality(s \ {x}) = Cardinality(s) - 1
  BY <1>1, <1>2, FS_RemoveElement
<1>4. Cardinality(s) \in Nat /\ Cardinality(s \ {x}) \in Nat
  BY <1>2, FS_CardinalityType
<1>5. Cardinality(s \ {x}) < Cardinality(s) /\ Cardinality(s) > 0
  BY <1>3, <1>4
<1> QED BY <1>1, <1>3, <1>4, <1>5 DEF x

LEMMA SumExists ==
  ASSUME NEW f, NEW S, IsFiniteSet(S)
  PROVE  \E iter : iter = [s \in SUBSET S |-> Summed(f, iter, s)]
<1> DEFINE Solved(n) == \E iter : iter = [s \in Upto(S, n) |-> Summed(f, iter, s)]
           Fails == {n \in Nat : ~Solved(n)}
<1>1. Fails = {}
  <2> SUFFICES ASSUME Fails # {}
               PROVE  FALSE
    OBVIOUS
  <2>1. PICK n \in Fails : \A m \in Fails : n <= m
    <3>1. Fails \in SUBSET Nat
      OBVIOUS
    <3> HIDE DEF Fails
    <3> QED BY <3>1, LeastNumber
  <2>2. n \in Nat /\ ~Solved(n)
    OBVIOUS
  <2>3. CASE n = 0
    <3> DEFINE i == [s \in Upto(S, n) |-> 0]
    <3>1. \A s \in Upto(S, n) : s = {}
      <4> SUFFICES ASSUME NEW s \in Upto(S, n), s # {}
                   PROVE  FALSE
        OBVIOUS
      <4>0. s # {}
        OBVIOUS
      <4>1. s \in SUBSET S /\ Cardinality(s) <= 0
        BY <2>3 DEF Upto
      <4>2. Cardinality(s) > 0 /\ Cardinality(s) \in Nat
        BY <4>0, <4>1, OneLess
      <4> QED BY <4>1, <4>2
    <3>2. i = [s \in Upto(S, n) |-> Summed(f, i, s)]
      BY <3>1 DEF Summed
    <3> QED BY <2>2, <3>2
  <2>4. CASE n # 0
    <3>1. n - 1 \in Nat /\ n - 1 \notin Fails
      BY <2>1, <2>2, <2>4
    <3>2. PICK i : i = [s \in Upto(S, n - 1) |-> Summed(f, i, s)]
      BY <3>1
    <3> DEFINE j == [s \in Upto(S, n) |-> Summed(f, i, s)]
    <3>3. ASSUME NEW s \in Upto(S, n)
          PROVE  j[s] = Summed(f, j, s)
      <4>1. CASE s = {}
        BY <4>1 DEF Summed
      <4>2. CASE s # {}
        <5> DEFINE rest == s \ {CHOOSE x \in s : TRUE}
        <5>1. s \in SUBSET S /\ Cardinality(s) <= n
          BY DEF Upto
        <5>6. /\ rest \in SUBSET S /\ Cardinality(rest) = Cardinality(s) - 1
              /\ Cardinality(s) \in Nat
          BY <4>2, <5>1, OneLess
        <5> HIDE DEF rest, Solved, Fails, j
        <5>2. rest \in SUBSET S /\ Cardinality(rest) <= n - 1 /\ Cardinality(rest) <= n
          BY <2>2, <5>1, <5>6
        <5>3. rest \in Upto(S, n - 1) /\ rest \in Upto(S, n)
          BY <5>2 DEF Upto
        <5>4. j[rest] = i[rest]
          BY <3>2, <5>3 DEF j
        <5>5. j[s] = Summed(f, i, s)
          BY DEF j
        <5> QED BY <4>2, <5>4, <5>5 DEF Summed, rest
      <4> QED BY <4>1, <4>2
    <3>4. j = [s \in Upto(S, n) |-> Summed(f, j, s)]
      BY <3>3
    <3> QED BY <2>2, <3>4
  <2> QED BY <2>3, <2>4
<1>2. Cardinality(S) \in Nat /\ Solved(Cardinality(S))
  BY <1>1, FS_CardinalityType
<1>3. Upto(S, Cardinality(S)) = SUBSET S
  BY FS_Subset DEF Upto
<1> QED BY <1>2, <1>3

(* A sum of numbers above 0 is above 0, but for the empty one. *)
LEMMA SumPositive ==
  ASSUME NEW f, IsFiniteSet(DOMAIN f), \A x \in DOMAIN f : f[x] \in Nat /\ f[x] # 0
  PROVE  /\ SumFunction(f) \in Nat
         /\ SumFunction(f) = 0 <=> DOMAIN f = {}
<1> DEFINE S == DOMAIN f
           iter == CHOOSE iter : iter = [s \in SUBSET S |-> Summed(f, iter, s)]
           Good(s) == iter[s] \in Nat /\ (iter[s] = 0 <=> s = {})
<1>1. SumFunction(f) = iter[S]
  BY DEF SumFunction, SumFunctionOnSet, FoldFunctionOnSet, MapThenFoldSet, Summed
<1>2. iter = [s \in SUBSET S |-> Summed(f, iter, s)]
  BY SumExists
<1> HIDE DEF iter
<1> DEFINE Bad == {s \in SUBSET S : ~Good(s)}
           Sizes0 == {Cardinality(s) : s \in Bad}
<1>3. ASSUME NEW s0 \in Bad
      PROVE  FALSE
  <2>1. Sizes0 \in SUBSET Nat /\ Sizes0 # {}
    BY FS_Subset, FS_CardinalityType
  <2>2. PICK n \in Sizes0 : \A m \in Sizes0 : n <= m
    <3> HIDE DEF Sizes0
    <3> QED BY <2>1, LeastNumber
  <2>3. PICK s \in Bad : n = Cardinality(s)
    OBVIOUS
  <2>4. s \in SUBSET S /\ iter[s] = Summed(f, iter, s)
    BY <1>2, <2>3
  <2>5. s # {}
    BY <2>3, <2>4 DEF Summed
  <2> DEFINE x == CHOOSE x \in s : TRUE
             rest == s \ {x}
  <2> HIDE DEF Sizes0, Bad
  <2>6. /\ x \in S /\ rest \in SUBSET S /\ Cardinality(rest) < n
        /\ n \in Nat /\ Cardinality(rest) \in Nat
    BY <2>3, <2>4, <2>5, OneLess
  <2>7. iter[s] = f[x] + iter[rest]
    BY <2>4, <2>5 DEF Summed
  <2> HIDE DEF x, rest
  <2>8. Good(rest)
    <3>1. rest \notin Bad
      BY <2>2, <2>6 DEF Sizes0
    <3> QED BY <2>6, <3>1 DEF Bad
  <2> QED BY <2>3, <2>5, <2>6, <2>7, <2>8 DEF Bad
<1> QED BY <1>1, <1>3

(* A ledger with one span is in it. *)
LEMMA OneSpan ==
  ASSUME NEW e, e = [i \in DOMAIN e |-> e[i]], Dated(e),
         Cardinality(DOMAIN _split_threshold_segments(e)) = 1
  PROVE  TopEvents(e) = e
<1>1. DOMAIN _split_threshold_segments(e) = SpanNames(e)
  BY DEF _split_threshold_segments
<1>2. IsFiniteSet(SpanNames(e))
  <2>1. PICK n \in Nat : DOMAIN e \subseteq 1 .. n
    BY DEF Dated
  <2>2. SpanNames(e) \subseteq 0 .. n
    BY <2>1 DEF SpanNames, Changes
  <2>3. IsFiniteSet(0 .. n)
    BY <2>1, FS_Interval
  <2> QED BY <2>2, <2>3, FS_Subset
<1>3. PICK c : SpanNames(e) = {c}
  BY <1>1, <1>2, FS_Singleton
<1>4. LatestSpan(e) = c
  BY <1>3, SpansAlike DEF Alike
<1> DEFINE s == _split_threshold_segments(e)[c]
<1>5. \A i \in DOMAIN e : i \in DOMAIN Chunk(e, s)
  BY <1>1, <1>3, SpansCover
<1>6. TopEvents(e) = Chunk(e, s)
  BY <1>3, <1>4 DEF TopEvents
<1> HIDE DEF s
<1>7. Chunk(e, s) = [i \in DOMAIN Chunk(e, s) |-> e[i]] /\ DOMAIN Chunk(e, s) \subseteq DOMAIN e
  BY DEF Chunk, Restrict
<1> QED BY <1>5, <1>6, <1>7

(* The jobs of a mode in the report and in the summary, when all of them   *)
(* succeeded and were measured.                                            *)
Clean(j) == j.ok /\ j.source = "sensor" /\ Measured(<<j>>) # {} /\ j.energy > 0

LEMMA CleanJob ==
  ASSUME NEW j \in JobRec, Clean(j)
  PROVE  /\ j.ok /\ j.source = "sensor" /\ ~j.estimated
         /\ j.energy \in Nat /\ j.energy # 0 /\ j.energy # None
         /\ j.tokens \in Nat /\ j.tokens # 0 /\ j.tokens # None /\ j.tokens > 0
<1>1. PICK i \in DOMAIN <<j>> : ~(<<j>>[i]).estimated /\ (<<j>>[i]).energy # None
                                /\ (<<j>>[i]).tokens # None /\ (<<j>>[i]).tokens > 0
  BY DEF Clean, Measured
<1>2. <<j>>[i] = j
  OBVIOUS
<1>3. ~j.estimated /\ j.energy # None /\ j.tokens # None /\ j.tokens > 0 /\ j.energy > 0
  BY <1>1, <1>2 DEF Clean
<1>4. j.energy \in Measure /\ j.tokens \in Measure
  BY DEF JobRec
<1>5. j.energy \in Nat /\ j.tokens \in Nat
  BY <1>3, <1>4 DEF Measure
<1> QED BY <1>3, <1>5 DEF Clean

LEMMA PerToken ==
  ASSUME NEW e, Dated(e), NEW m \in Modes,
         \A i \in Jobs(e) : e[i].job \in JobRec /\ Clean(e[i].job)
  PROVE  LET jobs == [i \in Completed(e) |-> e[i].job]
         IN  AbStats(e, m).per_token = _j_per_token(OfMode(sensor_jobs(jobs), m))
<1> DEFINE jobs == [i \in Completed(e) |-> e[i].job]
           K == JobsOf(e, m)
           energy == [i \in K |-> e[i].job.energy]
           tokens == [i \in K |-> e[i].job.tokens]
           of == OfMode(sensor_jobs(jobs), m)
<1>1. \A i \in Jobs(e) : /\ e[i].job.ok /\ e[i].job.source = "sensor" /\ ~e[i].job.estimated
                         /\ e[i].job.energy \in Nat /\ e[i].job.energy # 0 /\ e[i].job.energy # None
                         /\ e[i].job.tokens \in Nat /\ e[i].job.tokens # 0
                         /\ e[i].job.tokens # None /\ e[i].job.tokens > 0
  BY CleanJob
<1>2. Completed(e) = Jobs(e)
  BY <1>1 DEF Completed, Jobs
<1>3. sensor_jobs(jobs) = jobs
  <2>1. {i \in DOMAIN jobs : jobs[i].source = "sensor"} = Completed(e)
    BY <1>1, <1>2
  <2> QED BY <2>1 DEF sensor_jobs, Restrict
<1>4. K \in SUBSET Jobs(e) /\ {i \in DOMAIN jobs : jobs[i].mode = m} = K
  BY <1>2 DEF JobsOf, Jobs
<1>5. of = [i \in K |-> e[i].job]
  BY <1>2, <1>3, <1>4 DEF OfMode, Restrict
<1> HIDE DEF jobs, of
<1>6. Measured(of) = K
  BY <1>1, <1>4, <1>5 DEF Measured
<1>7. /\ [i \in Measured(of) |-> of[i].energy] = energy
      /\ [i \in Measured(of) |-> of[i].tokens] = tokens
  BY <1>5, <1>6
<1>8. _j_per_token(of) = IF K = {} THEN None ELSE <<SumFunction(energy), SumFunction(tokens)>>
  BY <1>6, <1>7 DEF _j_per_token, EnergyOf
<1>9. /\ [i \in K |-> IF e[i].job.energy = None THEN 0 ELSE e[i].job.energy] = energy
      /\ [i \in K |-> IF e[i].job.tokens = None THEN 0 ELSE Max({0, e[i].job.tokens})] = tokens
  <2>1. ASSUME NEW k \in Nat
        PROVE  Max({0, k}) = k
    BY <2>1 DEF Max
  <2> QED BY <1>1, <1>4, <2>1
<1>10. AbStats(e, m).per_token =
         IF SumFunction(tokens) > 0 /\ SumFunction(energy) > 0
           THEN <<SumFunction(energy), SumFunction(tokens)>> ELSE None
  BY <1>9 DEF AbStats
<1>11. IsFiniteSet(K)
  <2>1. PICK n \in Nat : DOMAIN e \subseteq 1 .. n
    BY DEF Dated
  <2>2. K \subseteq 1 .. n /\ IsFiniteSet(1 .. n)
    BY <2>1, FS_Interval DEF JobsOf
  <2> QED BY <2>2, FS_Subset
<1>12. /\ SumFunction(energy) \in Nat /\ (SumFunction(energy) = 0 <=> K = {})
       /\ SumFunction(tokens) \in Nat /\ (SumFunction(tokens) = 0 <=> K = {})
  <2>1. /\ DOMAIN energy = K /\ \A i \in K : energy[i] \in Nat /\ energy[i] # 0
        /\ DOMAIN tokens = K /\ \A i \in K : tokens[i] \in Nat /\ tokens[i] # 0
    BY <1>1, <1>4
  <2> HIDE DEF energy, tokens, K
  <2> QED BY <1>11, <2>1, SumPositive
<1> HIDE DEF energy, tokens, K
<1>13. SumFunction(energy) > 0 /\ SumFunction(tokens) > 0 <=> K # {}
  BY <1>12
<1> QED BY <1>8, <1>10, <1>13 DEF jobs, of

LEMMA AbHere ==
  ASSUME HostTypeOK, ClearInv
  PROVE  AbAgrees
<1> DEFINE jobs == [i \in Completed(ledger) |-> ledger[i].job]
           ab == compute_ab_summary(ledger)
           tier1 == Report(ledger).top.tier1
<1>1. SUFFICES ASSUME Cardinality(DOMAIN Spans) = 1,
                      \A i \in Jobs(ledger) : Clean(ledger[i].job)
               PROVE  /\ ab.stats["round_robin"].per_token = tier1.baseline
                      /\ tier1.improvement # None => ab.savings = tier1.improvement
  BY DEF AbAgrees, Clean
<1>2. Dated(ledger) /\ ledger = [i \in DOMAIN ledger |-> ledger[i]] /\ RowsClear
  BY LedgerDated, LedgerTyped DEF ClearInv
<1>3. TopEvents(ledger) = ledger /\ Report(ledger).top = _compute_tiers(ledger)
  BY <1>1, <1>2, OneSpan, TopOf DEF Spans
<1>4. tier1 = Tier1(sensor_jobs(jobs))
  BY <1>3 DEF _compute_tiers
<1> HIDE DEF tier1, jobs
<1> DEFINE baseline == _j_per_token(OfMode(sensor_jobs(jobs), "round_robin"))
           aware == _j_per_token(OfMode(sensor_jobs(jobs), "thermal_aware"))
<1>5. /\ tier1.baseline = baseline
      /\ tier1.improvement # None => /\ baseline # None /\ aware # None
                                     /\ tier1.improvement = Saving(baseline, aware)
  BY <1>4 DEF Tier1
<1>6. \A i \in Jobs(ledger) : ledger[i].job \in JobRec
  BY <1>2 DEF RowsClear, IsChange, Jobs
<1>7. /\ AbStats(ledger, "round_robin").per_token = baseline
      /\ AbStats(ledger, "thermal_aware").per_token = aware
  BY <1>1, <1>2, <1>6, PerToken DEF Modes, jobs
<1> HIDE DEF baseline, aware
<1>8. ab.stats["round_robin"].per_token = baseline
  BY <1>7 DEF compute_ab_summary, Modes
<1>9. baseline # None /\ aware # None => ab.savings = Saving(baseline, aware)
  BY <1>7 DEF compute_ab_summary
<1> QED BY <1>5, <1>8, <1>9

-----------------------------------------------------------------------------
(* The theorems.                                                           *)

(* What holds wherever the Host runs. *)
AlwaysInv == HostTypeOK /\ HandledInv /\ RowsInv /\ SaveInv /\ EarlyInv /\ ClearInv

LEMMA InitHolds ==
  HostInit => AlwaysInv /\ LockInv /\ ForbidInv /\ InForceInv
<1> SUFFICES ASSUME HostInit
             PROVE  AlwaysInv /\ LockInv /\ ForbidInv /\ InForceInv
  OBVIOUS
<1>1. /\ proc = [p \in Processes |-> Down]
      /\ disk = [settings |-> Missing, row |-> 0, lock |-> NoFile]
      /\ req = [t \in Threads |-> Free]
      /\ ledger = <<>> /\ clock = 0 /\ spent = 0 /\ marks = {} /\ early = {}
  BY DEF HostInit
<1>2. /\ \A p \in Processes : proc[p].at = "down" /\ proc[p].file = NoFile
      /\ \A t \in Threads : req[t].at = "idle" /\ req[t].ts = 0
      /\ Missing # Torn
  BY <1>1, DownTyped, FreeTyped, HostAssumption
<1>3. HostTypeOK
  <2>1. proc \in [Processes -> ProcRec] /\ req \in [Threads -> ReqRec]
    BY <1>1, DownTyped, FreeTyped
  <2>2. disk \in DiskRec
    BY <1>1, Sizes DEF DiskRec
  <2>3. ledger \in Seq(RowRec) /\ \A i \in DOMAIN ledger : ledger[i].ts <= clock
    BY <1>1
  <2>4. clock \in 0 .. MaxClock /\ spent \in 0 .. MaxEvents
    BY <1>1, Sizes
  <2>5. \A t \in Threads : req[t].ts <= clock
    BY <1>1, <1>2
  <2> QED BY <1>1, <2>1, <2>2, <2>3, <2>4, <2>5 DEF HostTypeOK
<1>4. HandledInv /\ RowsInv /\ SaveInv
  BY <1>1, <1>2 DEF HandledInv, RowsInv, SaveInv, Busy, Writing
<1>5. Serving = {} /\ Loading = {}
  BY <1>2 DEF Serving, Loading, At
<1>6. LockInv /\ EarlyInv /\ InForceInv
  BY <1>1, <1>2, <1>5 DEF LockInv, EarlyInv, InForceInv
<1>7. ForbidInv
  BY <1>1, <1>2 DEF ForbidInv, Forbidding, Writing
<1>8. ClearInv
  <2>1. Busy = {} /\ DOMAIN ledger = {} /\ disk.settings = Missing
    BY <1>1, <1>2 DEF Busy
  <2> QED BY <1>1, <1>2, <1>5, <2>1
          DEF ClearInv, Clear, RowsClear, Ordered, Linked, Current, Rested
<1> QED BY <1>3, <1>4, <1>6, <1>7, <1>8 DEF AlwaysInv

LEMMA AlwaysHolds == HostSpec => []AlwaysInv
<1>1. HostInit => AlwaysInv
  BY InitHolds
<1>2. AlwaysInv /\ [HostNext]_hostVars => AlwaysInv'
  BY TypeStep, HandledStep, SaveStep, EarlyStep, ClearStep DEF AlwaysInv
<1> QED BY <1>1, <1>2, PTL DEF HostSpec

(* Every variable of the Host's processes, files, requests and ledger      *)
(* keeps its type, and no row of the ledger is dated later than the clock  *)
(* (server.py:3153-3297, settings.py:33-142, esg.py:120-141).              *)
THEOREM HostTypes == HostSpec => []HostTypeOK
<1>1. AlwaysInv => HostTypeOK
  BY DEF AlwaysInv
<1> QED BY <1>1, AlwaysHolds, PTL

(* settings.json cannot be read only while a save is under way, or after   *)
(* one was cut short, failed or overlapped another, on every system, with  *)
(* any number of Hosts and requests (settings.py:50-58, 96-98, 118-142).   *)
THEOREM SavesLeaveReadable == HostSpec => []UnreadableOnlyByCutSave
<1>1. AlwaysInv => UnreadableOnlyByCutSave
  <2>1. ASSUME SaveInv, disk.settings = Torn, Writing = {}
        PROVE  marks \cap {"cut save", "failed", "overlap"} # {}
    <3>1. \A t \in Threads : req[t].at # "close"
      BY <2>1 DEF Writing
    <3>2. "cut save" \in marks \/ "failed" \in marks \/ "overlap" \in marks
      BY <2>1, <3>1 DEF SaveInv
    <3> QED BY <3>2
  <2> QED BY <2>1 DEF AlwaysInv, UnreadableOnlyByCutSave
<1> QED BY <1>1, AlwaysHolds, PTL

(* What holds besides where an open file cannot be unlinked. *)
AloneInv == LockInv /\ ForbidInv /\ InForceInv

LEMMA AloneHolds ==
  ASSUME Windows
  PROVE  HostSpec => [](AlwaysInv /\ AloneInv)
<1>1. HostInit => AloneInv
  BY InitHolds DEF AloneInv
<1>2. AlwaysInv /\ AloneInv /\ [HostNext]_hostVars => AloneInv'
  BY LockStep, ForbidStep, InForceStep DEF AlwaysInv, AloneInv
<1> QED BY <1>1, <1>2, AlwaysHolds, PTL DEF HostSpec

(* Where an open file cannot be unlinked (Windows, what the Host is built  *)
(* for) the lock keeps its promise of one Host per data directory, for any *)
(* number of processes (runtime_lock.py:1, 25-75).                         *)
THEOREM OneHostHolds ==
  ASSUME Windows
  PROVE  HostSpec => []OneHost
<1>1. AloneInv => OneHost
  <2> SUFFICES ASSUME LockInv
               PROVE  Cardinality(Serving) <= 1
    BY DEF AloneInv, OneHost
  <2>1. CASE Serving = {}
    BY <2>1, FS_EmptySet
  <2>2. ASSUME NEW h \in Serving
        PROVE  Cardinality(Serving) <= 1
    <3>1. Serving = {h}
      BY <2>2 DEF LockInv
    <3> QED BY <3>1, FS_Singleton
  <2> QED BY <2>1, <2>2
<1> QED BY <1>1, AloneHolds, PTL

(* There, too, what a Host has in force is what the next one will find:    *)
(* its room is the row, and with no request under way its settings are     *)
(* those of the file, unless two saves overlapped, one failed, or weights  *)
(* were refused half way (settings.py:33-142, server.py:3209).             *)
THEOREM InForceHolds ==
  ASSUME Windows
  PROVE  HostSpec => []InForceIsOnDisk
<1>1. AlwaysInv /\ AloneInv => InForceIsOnDisk
  <2> SUFFICES ASSUME HandledInv, InForceInv, NEW p \in Serving \ early
               PROVE  /\ proc[p].room = disk.row
                      /\ ReqOf(p) = {} /\ marks \cap {"overlap", "failed", "refused"} = {}
                           => Settings_load = proc[p].mem
    BY DEF AlwaysInv, AloneInv, InForceIsOnDisk
  <2>1. InForce(p)
    BY DEF InForceInv
  <2>2. ASSUME ReqOf(p) = {}, marks \cap {"overlap", "failed", "refused"} = {}
        PROVE  Settings_load = proc[p].mem
    <3>1. Undisturbed
      BY <2>2 DEF Undisturbed
    <3>2. \A t \in Threads : req[t].host = p => req[t].at = "idle"
      BY <2>2 DEF ReqOf, Busy
    <3>3. ~SaveAhead(p) /\ ~BeingSaved(p)
      BY <3>2 DEF SaveAhead, BeingSaved
    <3> QED BY <2>1, <3>1, <3>3 DEF InForce
  <2> QED BY <2>1, <2>2 DEF InForce
<1> QED BY <1>1, AloneHolds, PTL

(* There, too, once a save has forbidden the tunnel the file never allows  *)
(* it again, unless two saves overlapped or a Host served with settings it *)
(* had loaded before (server.py:2581-2594, settings.py:140).               *)
THEOREM KillSwitchHolds ==
  ASSUME Windows
  PROVE  HostSpec => []KillSwitchStays
<1>1. AloneInv => KillSwitchStays
  <2> SUFFICES ASSUME ForbidInv, "forbidden" \in marks, disk.settings # Torn,
                      "overlap" \notin marks, "early" \notin marks
               PROVE  ~disk.settings.allow
    BY DEF AloneInv, KillSwitchStays
  <2> QED BY DEF ForbidInv
<1> QED BY <1>1, AloneHolds, PTL

(* The threshold that a report gives for a span was in force when each of *)
(* its jobs was entered, for any number of requests and changes, on every *)
(* system, but for jobs at the very time of a change, and for what the    *)
(* property leaves out (esg.py:281-330, server.py:197-203, 2528-2538).    *)
THEOREM SpanThresholdHolds == HostSpec => []SpanThresholdTrue
<1>1. AlwaysInv => SpanThresholdTrue
  BY SpanThresholdHere DEF AlwaysInv
<1> QED BY <1>1, AlwaysHolds, PTL

(* Every job of the ledger is in a span of the report, and in a second one *)
(* only when the threshold was changed at its very time, whatever ran side *)
(* by side and whoever was killed (esg.py:281-330, 561-572).               *)
THEOREM CountedHolds == HostSpec => []CountedOnce
<1>1. AlwaysInv => CountedOnce
  BY CountedHere DEF AlwaysInv
<1> QED BY <1>1, AlwaysHolds, PTL

(* What jobs that no sensor measured brought does not show in the first    *)
(* tier nor in the projection of what was measured, and what jobs with no  *)
(* source of energy brought does not show in the second (esg.py:346-354).  *)
THEOREM ApartHolds == HostSpec => []MeasuredApart
<1>1. AlwaysInv => MeasuredApart
  BY ApartHere DEF AlwaysInv
<1> QED BY <1>1, AlwaysHolds, PTL

(* The report and the A/B summary have the same baseline and, where the    *)
(* report has an improvement, the same saving, when the ledger has one     *)
(* span and every job in it succeeded and was measured, however many jobs  *)
(* there are (server.py:1904-2007, esg.py:356-365).                        *)
THEOREM AbHolds == HostSpec => []AbAgrees
<1>1. AlwaysInv => AbAgrees
  BY AbHere DEF AlwaysInv
<1> QED BY <1>1, AlwaysHolds, PTL
=============================================================================

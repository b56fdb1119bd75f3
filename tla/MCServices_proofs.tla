-------------------------- MODULE MCServices_proofs --------------------------
(***************************************************************************)
(* What is proved of the services of MCServices: that the status daemon    *)
(* loses no refresh (RefreshServed), that there is one scanner of the      *)
(* storage at a time (ScannerHoldsLock), and that no layout of the desktop *)
(* is lost (LayoutIsKept).  Each has an inductive invariant of its own, in *)
(* the slots of its part; Slots, at the end, is the three together.        *)
(***************************************************************************)
EXTENDS MCServices, TLAPS

(***************************************************************************)
(* The status daemon: v14 is due, v15 refresh, v17 at, v18 held, v21 asked *)
(***************************************************************************)
Between(f) == IF f = "audio" THEN {"network", "bluetooth"}
              ELSE IF f = "network" THEN {"bluetooth"} ELSE {}

\* The files the loop has yet to come to in this round.
Ahead ==
    IF v17 \in {"clear", "audio"} THEN Status!Files
    ELSE IF v17 = "network" THEN {"network", "bluetooth"}
    ELSE IF v17 = "bluetooth" THEN {"bluetooth"}
    ELSE IF v17 = "write" THEN Between(v18[1]) ELSE {}

\* A file a signal asked for is, once the flag is down, still ahead of the loop
\* and still due, so that the loop does not pass it by.
Served ==
    /\ v15 \in BOOLEAN
    /\ v17 = "clear" => Status!Files \subseteq v14
    /\ v17 = "write" => v18[1] \in Status!Files
    /\ ~v15 => v21 \subseteq Ahead \cap v14
    /\ v21 \subseteq Status!Files

\* The daemon starts with nothing asked for (main).
LEMMA ServedAtStart == ASSUME Status!SdInit PROVE Served
  BY DEF Status!SdInit, Served, Status!Files, Ahead

\* Each step of the loop, a signal or a thread keeps what was asked for ahead of
\* the loop (main, handle_refresh, pipewire_audio_monitor).
LEMMA ServedStep == ASSUME Served, Status!SdNext PROVE Served'
  <1> USE DEF Served, Status!Files, Ahead, Between
  <1>1. CASE Status!HonourRefresh
    BY <1>1 DEF Status!HonourRefresh, Status!flags
  <1>2. CASE Status!ClearRefresh
    BY <1>2 DEF Status!ClearRefresh
  <1>3. CASE Status!NoRefresh
    BY <1>3 DEF Status!NoRefresh, Status!flags
  <1>4. ASSUME NEW f \in Status!Files, NEW payload, Status!Computed(f, payload), v14' = v14
        PROVE  Served'
    <2>1. v18'[1] = f
      BY <1>4 DEF Status!Computed
    <2> QED  BY <1>4, <2>1 DEF Status!Computed
  <1>5. CASE Status!ReadAudio
    BY <1>5, <1>4 DEF Status!ReadAudio, Status!Computed
  <1>6. CASE Status!ReadNetwork
    BY <1>6, <1>4 DEF Status!ReadNetwork, Status!Computed
  <1>7. CASE Status!ReadBluetooth
    BY <1>7, <1>4 DEF Status!ReadBluetooth, Status!Computed
  <1>8. CASE Status!WriteFile
    BY <1>8 DEF Status!WriteFile, Status!After, Status!flags
  <1>9. CASE Status!Autoconnect
    BY <1>9 DEF Status!Autoconnect, Status!flags
  <1>10. CASE Status!Sleep
    BY <1>10 DEF Status!Sleep, Status!flags
  <1>11. ASSUME NEW f \in Status!Files, Status!NotDue(f) PROVE Served'
    BY <1>11 DEF Status!NotDue, Status!After, Status!flags
  <1>12. CASE Status!HandleRefresh
    BY <1>12 DEF Status!HandleRefresh
  <1>13. ASSUME UNCHANGED <<v14, v15, v17, v18, v21>> PROVE Served'
    BY <1>13
  <1>14. CASE Status!MonitorReads \/ Status!MonitorWrites \/ Status!ThreadEnds
                \/ Status!HandleStop \/ Status!ManagerPublishes
    BY <1>13, <1>14 DEF Status!MonitorReads, Status!MonitorWrites, Status!ThreadEnds,
       Status!HandleStop, Status!ManagerPublishes, Status!flags
  <1>15. CASE Status!Expiry \/ Status!World
    BY <1>13, <1>15 DEF Status!Expiry, Status!RouteExpires, Status!SsidExpires,
       Status!StatusExpires, Status!World, Status!flags
  <1> QED
    BY <1>1, <1>2, <1>3, <1>5, <1>6, <1>7, <1>8, <1>9, <1>10, <1>11, <1>12, <1>14, <1>15
    DEF Status!SdNext, Status!Loop

(***************************************************************************)
(* The desktop: v2 is stored, v3 loaded, v5 hidden, v6 positions, v11      *)
(* reading, v13 saveSoon, v14 givenUp                                      *)
(***************************************************************************)
\* Unless the reading was given up, a layout is saved only by a shell that has
\* loaded the one there was; and it is being read as long as it is not loaded.
LayoutKnown == ~v14 => /\ v11 \/ v3
                       /\ v13 \/ v5 => v3
                       /\ v3 => v2 \subseteq v6

\* The shell starts with nothing loaded and nothing to save.
LEMMA LayoutAtStart == ASSUME Desktop!DeskInit PROVE LayoutKnown
  BY DEF Desktop!DeskInit, LayoutKnown

\* Loading, moving, saving, pausing and hiding keep the layout (stateLoadProcess,
\* saveState, onPerformancePausedChanged, setIconsHidden), and what was stored
\* stays stored.
LEMMA LayoutKnownStep ==
    ASSUME LayoutKnown, Desktop!DeskNext PROVE LayoutKnown' /\ Desktop!LayoutStep
  <1> USE DEF LayoutKnown, Desktop!LayoutStep
  <1>1. CASE Desktop!Timers
    BY <1>1 DEF Desktop!Timers, Desktop!ProbeTimer, Desktop!RefreshTimer, Desktop!SaveTimer
  <1>2. CASE Desktop!Processes
    BY <1>2 DEF Desktop!Processes, Desktop!StateLoaded, Desktop!ReadFolder, Desktop!Listed,
       Desktop!ReadSignature, Desktop!ApplySignature
  <1>3. CASE Desktop!MoveIcon
    BY <1>3 DEF Desktop!MoveIcon, Desktop!Visible
  <1>4. CASE Desktop!Pause
    BY <1>4 DEF Desktop!Pause, Desktop!StopWork
  <1>5. CASE Desktop!Resume \/ Desktop!Hide \/ Desktop!Show \/ Desktop!FolderChanges
    BY <1>5 DEF Desktop!Resume, Desktop!Hide, Desktop!Show, Desktop!FolderChanges
  <1> QED  BY <1>1, <1>2, <1>3, <1>4, <1>5 DEF Desktop!DeskNext, Desktop!User

(***************************************************************************)
(* The storage refresh, with its one caller: v1 is lock, v2 status, v4 at, *)
(* v5 ret, v6 seen, v7 running, v8 child, v9 byHand.                       *)
(***************************************************************************)
Procs == {None} \cup Workers

\* A worker neither waits nor asks about another: it is on its way to the lock, or
\* holds it.
Lives(w) == v4[w] # "dead"
NoWorker == \A w \in Workers : v4[w] = "dead"
OneWorker == \A w, x \in Workers : Lives(w) /\ Lives(x) => w = x
WorkerHolds(w) ==
    /\ v4[w] \in {"acquire", "announce", "scan", "report", "release"}
    /\ v4[w] = "acquire" => v1 = 0
    /\ v4[w] # "acquire" => v1 = w
    /\ v4[None] = "record" => v8[None] = w
    /\ v4[None] # "record" => v2.pid = w
\* The caller that goes on to start a worker, or takes the lock from one, is right
\* that there is none.
CallerKnows ==
    /\ v4[None] \in {"idle", "decide", "start", "record", "answer", "unlock", "correct"}
    /\ v5[None] \in {"idle", "decide", "start"}
    /\ v4[None] \in {"unlock", "correct"} => NoWorker /\ ~v7[None]
    /\ v4[None] \in {"decide", "start"} /\ ~v7[None] => NoWorker /\ v1 = 0
    /\ v4[None] = "correct" => v1 = 0
    /\ v4[None] = "record" => v8[None] \in Workers
OneScanner == OneWorker /\ (\A w \in Workers : Lives(w) => WorkerHolds(w)) /\ CallerKnows
StorageInv == Storage!StorageTypeOK /\ (v9 = 0 => OneScanner)

\* No worker runs and nothing is locked (run_refresh_background, refresh_status).
LEMMA StorageAtStart == ASSUME Storage!Init PROVE StorageInv
  <1>1. Storage!StorageTypeOK
    BY DEF Storage!Init, Storage!StorageTypeOK, Storage!Procs, Storage!Blank, Storage!Statuses,
       Storage!Places
  <1>2. OneScanner
    BY WorkersAreOthers DEF Storage!Init, OneScanner, OneWorker, Lives, WorkerHolds, CallerKnows,
       NoWorker, Storage!Procs
  <1> QED  BY <1>1, <1>2 DEF StorageInv

\* The types are kept by every step of a caller, a worker or the environment.
LEMMA StorageTypeStep ==
    ASSUME Storage!StorageTypeOK, Storage!Next PROVE Storage!StorageTypeOK'
  <1> USE DEF Storage!StorageTypeOK, Storage!Statuses, Storage!Procs, Storage!Go, Storage!Goes
  <1>0. Storage!Blank \in Storage!Statuses
    BY DEF Storage!Blank
  <1>1. ASSUME NEW p \in Storage!Procs, NEW back \in Storage!Places, Storage!Check(p, back)
        PROVE  /\ v4' \in [Storage!Procs -> Storage!Places]
               /\ v5' \in [Storage!Procs -> Storage!Places]
               /\ v6' \in [Storage!Procs -> Storage!Statuses]
               /\ v7' \in [Storage!Procs -> BOOLEAN]
    BY <1>1 DEF Storage!Check, Storage!Alive, Storage!Places
  <1>2. ASSUME NEW c \in {None}, Storage!Json(c) \/ Storage!Decide(c) \/ Storage!Answer(c)
        PROVE  Storage!StorageTypeOK'
    <2>1. CASE Storage!Json(c)
      BY <1>1, <2>1 DEF Storage!Json, Storage!Places
    <2>2. CASE Storage!Decide(c)
      BY <1>1, <2>2 DEF Storage!Decide, Storage!Places, Storage!Continue
    <2>3. CASE Storage!Answer(c)
      BY <1>1, <2>3 DEF Storage!Answer, Storage!Places
    <2> QED  BY <1>2, <2>1, <2>2, <2>3
  <1>3. ASSUME NEW c \in {None}, Storage!Start(c) PROVE Storage!StorageTypeOK'
    BY <1>1, <1>3 DEF Storage!Start, Storage!Places
  <1>4. ASSUME NEW c \in {None}, Storage!Record(c) PROVE Storage!StorageTypeOK'
    BY <1>4 DEF Storage!Record, Storage!Places
  <1>5. ASSUME NEW p \in Storage!Procs, Storage!Unlock(p) PROVE Storage!StorageTypeOK'
    BY <1>0, <1>5 DEF Storage!Unlock, Storage!Return, Storage!Places
  <1>6. ASSUME NEW p \in Storage!Procs, Storage!Correct(p) PROVE Storage!StorageTypeOK'
    BY <1>0, <1>6 DEF Storage!Correct, Storage!Return, Storage!Places
  <1>7. ASSUME NEW w \in Workers, Storage!Acquire(w) PROVE Storage!StorageTypeOK'
    BY <1>1, <1>7 DEF Storage!Acquire, Storage!Places
  <1>8. ASSUME NEW w \in Workers, Storage!Held(w) PROVE Storage!StorageTypeOK'
    BY <1>8 DEF Storage!Held, Storage!Places, Storage!Continue
  <1>9. ASSUME NEW w \in Workers, Storage!Announce(w) \/ Storage!Report(w) \/ Storage!Release(w)
        PROVE  Storage!StorageTypeOK'
    <2>1. CASE Storage!Announce(w)
      BY <2>1 DEF Storage!Announce, Storage!Places
    <2>2. CASE Storage!Report(w)
      BY <2>2 DEF Storage!Report, Storage!Places
    <2>3. CASE Storage!Release(w)
      BY <2>3 DEF Storage!Release, Storage!Places
    <2> QED  BY <1>9, <2>1, <2>2, <2>3
  <1>12. ASSUME NEW w \in Workers, Storage!Scan(w) PROVE Storage!StorageTypeOK'
    <2>1. v11' \in 0..1
      BY <1>12 DEF Storage!Scan
    <2> QED  BY <1>12, <2>1 DEF Storage!Scan, Storage!Places
  <1>10. ASSUME NEW w \in Workers, Storage!RefreshByHand(w) PROVE Storage!StorageTypeOK'
    <2>1. v9' \in 0..1
      BY <1>10 DEF Storage!RefreshByHand
    <2> QED  BY <1>10, <2>1 DEF Storage!RefreshByHand, Storage!Places
  <1>13. ASSUME NEW w \in Workers, Storage!Kill(w) PROVE Storage!StorageTypeOK'
    <2>1. v10' \in 0..1
      BY <1>13 DEF Storage!Kill
    <2> QED  BY <1>0, <1>13, <2>1 DEF Storage!Kill, Storage!Places
  <1>11. CASE Storage!Expire
    BY <1>11 DEF Storage!Expire
  <1> QED
    BY <1>2, <1>3, <1>4, <1>5, <1>6, <1>7, <1>8, <1>9, <1>10, <1>11, <1>12, <1>13
    DEF Storage!Next, Storage!Caller, Storage!Worker, Storage!Status

\* A caller, seen from its call of refresh_status: where it goes, with what answer, and
\* that all else is as it was.
LEMMA CallerChecks ==
    ASSUME Storage!StorageTypeOK, NEW back \in {"decide", "start", "idle"},
           Storage!Check(None, back)
    PROVE  /\ \/ Storage!Alive(v2.pid) /\ v4'[None] = back /\ v5' = v5
              \/ ~Storage!Alive(v2.pid) /\ v4'[None] = "unlock" /\ v5'[None] = back
           /\ v7'[None] <=> Storage!Alive(v2.pid) /\ back # "idle"
           /\ \A w \in Workers : v4'[w] = v4[w]
  BY WorkersAreOthers DEF Storage!Check, Storage!Go, Storage!StorageTypeOK, Storage!Procs

\* The caller's question (refresh_status): the status names a worker only while it lives,
\* and when none is recorded any more there is none.
LEMMA CallerAsks ==
    ASSUME Storage!StorageTypeOK, OneScanner, NEW back \in {"decide", "start", "idle"},
           Storage!Check(None, back), v4[None] # "record",
           UNCHANGED <<v1, v2, v8>>
    PROVE  OneScanner'
  <1> USE DEF OneScanner
  <1>1. \A w \in Workers : v4'[w] = v4[w]
    BY CallerChecks
  <1>2. OneWorker'
    BY <1>1 DEF OneWorker, Lives
  <1>3. ASSUME NEW w \in Workers, Lives(w)' PROVE WorkerHolds(w)'
    <2>1. v4'[None] # "record"
      BY CallerChecks
    <2> QED  BY <1>1, <1>3, <2>1 DEF Lives, WorkerHolds
  <1>4. CallerKnows'
    <2>1. ~Storage!Alive(v2.pid) => NoWorker
      BY DEF NoWorker, Lives, WorkerHolds, Storage!Alive
    <2>2. NoWorker => NoWorker'
      BY <1>1 DEF NoWorker
    <2> QED  BY <2>1, <2>2, CallerChecks DEF CallerKnows
  <1> QED  BY <1>2, <1>3, <1>4

\* What the caller does otherwise leaves the workers and the lock alone.
LEMMA CallerOnly ==
    ASSUME OneScanner, \A w \in Workers : v4'[w] = v4[w], v1' = v1, v2' = v2,
           v4[None] # "record", v4'[None] # "record", CallerKnows'
    PROVE  OneScanner'
  BY DEF OneScanner, OneWorker, WorkerHolds, Lives

\* The caller's own steps: it starts a worker only when there is none and the lock is
\* free, and records the one it started (print_sense_json, start_auto_refresh).
LEMMA CallerStep ==
    ASSUME Storage!StorageTypeOK, OneScanner, Storage!Caller(None)
    PROVE  OneScanner'
  <1> USE WorkersAreOthers
  <1>1. CASE Storage!Json(None)
    BY <1>1, CallerAsks DEF Storage!Json
  <1>2. CASE Storage!Decide(None)
    <2>1. CASE Storage!Check(None, "start")
      BY <1>2, <2>1, CallerAsks DEF Storage!Decide
    <2>2. CASE Storage!Continue(None, "idle")
      <3>1. CallerKnows'
        BY <1>2, <2>2 DEF Storage!Decide, Storage!Continue, Storage!Go, OneScanner, CallerKnows,
           Storage!StorageTypeOK, Storage!Procs
      <3> QED
        BY <1>2, <2>2, <3>1, CallerOnly DEF Storage!Decide, Storage!Continue, Storage!Go,
           Storage!StorageTypeOK, Storage!Procs
    <2> QED  BY <1>2, <2>1, <2>2 DEF Storage!Decide
  <1>3. CASE Storage!Start(None)
    <2>1. CASE v7[None]
      BY <1>3, <2>1, CallerAsks DEF Storage!Start
    <2>2. CASE ~v7[None]
      <3>1. NoWorker /\ v1 = 0
        BY <1>3, <2>2 DEF Storage!Start, OneScanner, CallerKnows
      <3>2. PICK w \in Workers : /\ v4' = [v4 EXCEPT ![w] = "acquire", ![None] = "record"]
                                 /\ v8' = [v8 EXCEPT ![None] = w]
        BY <1>3, <2>2 DEF Storage!Start
      <3>3. /\ v4'[None] = "record" /\ v8'[None] = w /\ v4'[w] = "acquire"
            /\ \A x \in Workers \ {w} : v4'[x] = "dead"
        BY <3>1, <3>2 DEF NoWorker, Storage!StorageTypeOK, Storage!Procs
      <3>4. v1' = 0 /\ v5' = v5
        BY <1>3, <2>2, <3>1 DEF Storage!Start
      <3> HIDE <1>3, <2>2
      <3> QED  BY <3>3, <3>4 DEF OneScanner, OneWorker, Lives, WorkerHolds, CallerKnows
    <2> QED  BY <1>3, <2>1, <2>2 DEF Storage!Start
  <1>4. CASE Storage!Record(None)
    <2>1. /\ v4'[None] = "answer" /\ v2'.pid = v8[None] /\ v1' = v1 /\ v5' = v5
          /\ \A w \in Workers : v4'[w] = v4[w]
      BY <1>4 DEF Storage!Record, Storage!Goes, Storage!Go, Storage!StorageTypeOK, Storage!Procs
    <2>2. v8[None] \in Workers /\ v4[None] = "record"
      BY <1>4 DEF Storage!Record, OneScanner, CallerKnows
    <2> QED  BY <2>1, <2>2 DEF OneScanner, OneWorker, Lives, WorkerHolds, CallerKnows
  <1>5. CASE Storage!Answer(None)
    BY <1>5, CallerAsks DEF Storage!Answer
  <1>6. CASE Storage!Unlock(None) \/ Storage!Correct(None)
    <2>1. NoWorker /\ ~v7[None]
      BY <1>6 DEF Storage!Unlock, Storage!Correct, OneScanner, CallerKnows
    <2>2. \A w \in Workers : v4'[w] = "dead"
      BY <1>6, <2>1 DEF Storage!Unlock, Storage!Correct, NoWorker, Storage!Return, Storage!Go,
         Storage!StorageTypeOK, Storage!Procs
    <2>3. v1' = 0
      BY <1>6 DEF Storage!Unlock, Storage!Correct, OneScanner, CallerKnows
    <2>4. \/ v4'[None] = v5[None] /\ v5'[None] = "idle"
          \/ v4'[None] = "correct" /\ v5' = v5
      BY <1>6 DEF Storage!Unlock, Storage!Correct, Storage!Return, Storage!Go,
         Storage!StorageTypeOK, Storage!Procs
    <2>5. ~v7'[None]
      BY <1>6, <2>1 DEF Storage!Unlock, Storage!Correct
    <2> QED
      BY <2>2, <2>3, <2>4, <2>5
      DEF OneScanner, OneWorker, Lives, WorkerHolds, CallerKnows, NoWorker
  <1> QED
    BY <1>1, <1>2, <1>3, <1>4, <1>5, <1>6 DEF Storage!Caller, Storage!Status

\* A worker's step, when it is the only one: its place, the lock and the status go on
\* together (run_refresh_background).
LEMMA WorkerStep ==
    ASSUME Storage!StorageTypeOK, OneScanner, NEW w \in Workers, Storage!Worker(w)
    PROVE  OneScanner'
  <1> USE WorkersAreOthers
  <1>1. /\ Lives(w) /\ WorkerHolds(w)
        /\ \A x \in Workers \ {w} : v4[x] = "dead"
    BY DEF OneScanner, OneWorker, Lives, Storage!Worker, Storage!Status, Storage!Acquire,
       Storage!Held, Storage!Announce, Storage!Scan, Storage!Report, Storage!Release,
       Storage!Unlock, Storage!Correct
  <1>2. /\ \A x \in Procs \ {w} : v4'[x] = v4[x]
        /\ v5' = v5 /\ v7' = v7 /\ v8' = v8
        /\ v4'[w] \in {"announce", "scan", "report", "release", "dead"}
        /\ \/ v4'[w] = "dead" /\ v1' = 0 /\ v2' = v2
           \/ v4'[w] # "dead" /\ v1' = w /\ (v2' = v2 \/ v2'.pid = w)
    <2>1. CASE Storage!Acquire(w)
      BY <1>1, <2>1 DEF WorkerHolds, Storage!Acquire, Storage!Goes, Storage!Go,
         Storage!StorageTypeOK, Storage!Procs, Procs
    <2>2. CASE Storage!Announce(w)
      BY <1>1, <2>2 DEF WorkerHolds, Storage!Announce, Storage!Goes, Storage!Go,
         Storage!StorageTypeOK, Storage!Procs, Procs
    <2>3. CASE Storage!Scan(w)
      BY <1>1, <2>3 DEF WorkerHolds, Storage!Scan, Storage!Goes, Storage!Go,
         Storage!StorageTypeOK, Storage!Procs, Procs
    <2>4. CASE Storage!Report(w)
      BY <1>1, <2>4 DEF WorkerHolds, Storage!Report, Storage!Goes, Storage!Go,
         Storage!StorageTypeOK, Storage!Procs, Procs
    <2>5. CASE Storage!Release(w)
      BY <1>1, <2>5 DEF WorkerHolds, Storage!Release, Storage!Goes, Storage!Go,
         Storage!StorageTypeOK, Storage!Procs, Procs
    <2>6. CASE Storage!Held(w) \/ Storage!Unlock(w) \/ Storage!Correct(w)
      BY <1>1, <2>6 DEF WorkerHolds, Storage!Held, Storage!Unlock, Storage!Correct
    <2> QED
      BY <2>1, <2>2, <2>3, <2>4, <2>5, <2>6 DEF Storage!Worker, Storage!Status
  <1>3. ~NoWorker
    BY <1>1 DEF NoWorker, Lives
  <1> QED
    BY <1>1, <1>2, <1>3
    DEF OneScanner, OneWorker, Lives, WorkerHolds, CallerKnows, NoWorker, Procs

\* A worker that is killed leaves the lock behind, which then is nobody's; it did not
\* hold up the caller.
LEMMA KillStep ==
    ASSUME Storage!StorageTypeOK, OneScanner, NEW w \in Workers, Storage!Kill(w)
    PROVE  OneScanner'
  <1>1. /\ v4'[w] = "dead" /\ v5'[None] = v5[None] /\ v7'[None] = v7[None]
        /\ \A p \in Procs \ {w} : v4'[p] = v4[p]
        /\ UNCHANGED <<v1, v2, v8>>
    BY WorkersAreOthers DEF Storage!Kill, Storage!Go, Storage!StorageTypeOK, Storage!Procs, Procs
  <1> QED
    BY <1>1, WorkersAreOthers
    DEF OneScanner, OneWorker, Lives, WorkerHolds, CallerKnows, NoWorker, Procs

\* The storage part keeps its invariant; once a worker is started by hand only the types
\* are claimed.
LEMMA StorageStep == ASSUME StorageInv, Storage!Next PROVE StorageInv'
  <1>1. Storage!StorageTypeOK'
    BY StorageTypeStep DEF StorageInv
  <1> SUFFICES ASSUME v9' = 0 PROVE OneScanner'
    BY <1>1 DEF StorageInv
  <1>2. ASSUME NEW w \in Workers PROVE ~Storage!RefreshByHand(w)
    BY DEF Storage!RefreshByHand, StorageInv, Storage!StorageTypeOK
  <1>3. v9 = 0
    BY <1>2 DEF Storage!Next, Storage!Caller, Storage!Worker, Storage!Status, Storage!Json,
       Storage!Decide, Storage!Start, Storage!Record, Storage!Answer, Storage!Unlock,
       Storage!Correct, Storage!Acquire, Storage!Held, Storage!Announce, Storage!Scan,
       Storage!Report, Storage!Release, Storage!Kill, Storage!Expire
  <1>4. CASE Storage!Expire
    BY <1>3, <1>4 DEF StorageInv, Storage!Expire, OneScanner, OneWorker, Lives, WorkerHolds,
       CallerKnows, NoWorker
  <1> QED
    BY <1>2, <1>3, <1>4, CallerStep, WorkerStep, KillStep DEF StorageInv, Storage!Next

----------------------------------------------------------------------------
\* The invariant of the part that runs.
Slots ==
    /\ part = "status" => Served
    /\ part = "storage" => StorageInv
    /\ part = "desktop" => LayoutKnown

LEMMA SlotsAtStart == Init => Slots
  BY ServedAtStart, LayoutAtStart, StorageAtStart DEF Init, Slots

\* A step of one part, or none, keeps it.
LEMMA SlotsStep == Slots /\ [Next]_slots => Slots'
  <1> SUFFICES ASSUME Slots, [Next]_slots PROVE Slots'
    OBVIOUS
  <1>1. CASE InStatus(Status!SdNext)
    BY <1>1, ServedStep DEF InStatus, Slots
  <1>2. CASE InStorage(Storage!Next)
    BY <1>2, StorageStep DEF InStorage, Slots
  <1>3. CASE InDesktop(Desktop!DeskNext)
    BY <1>3, LayoutKnownStep DEF InDesktop, Slots
  <1>4. CASE InOverlay(Overlay!OverlayNext)
    BY <1>4 DEF InOverlay, Slots
  <1>5. CASE UNCHANGED slots
    BY <1>5 DEF slots, Slots, Served, Ahead, LayoutKnown, StorageInv, Storage!StorageTypeOK,
       OneScanner, OneWorker, Lives, WorkerHolds, CallerKnows, NoWorker
  <1> QED  BY <1>1, <1>2, <1>3, <1>4, <1>5 DEF Next

\* When the status daemon's loop sleeps with the flag down, every file a SIGUSR1 asked
\* for has been computed since, wherever in the loop the signal came (main,
\* handle_refresh, write_json_if_changed).
THEOREM NoRefreshLost == Spec => []RefreshServed
  <1>1. Slots => RefreshServed
    BY DEF Slots, Served, Ahead, RefreshServed, Status!RefreshServed
  <1> QED  BY SlotsAtStart, SlotsStep, <1>1, PTL DEF Spec

\* However many workers are started, killed or fail, a storage scanner holds the lock file
\* as long as one caller starts them and nobody else does (refresh_status,
\* start_auto_refresh, run_refresh_background).
THEOREM OneStorageScanner == Spec => []ScannerHoldsLock
  <1>1. Slots => ScannerHoldsLock
    <2> SUFFICES ASSUME Slots, part = "storage"
                 PROVE  Storage!StorageTypeOK /\ Storage!ScannerHoldsLock
      BY DEF ScannerHoldsLock
    <2>1. StorageInv
      BY DEF Slots
    <2>2. ASSUME v9 = 0, NEW w \in Workers, v4[w] \in {"announce", "scan", "report", "release"}
          PROVE  v1 = w
      BY <2>1, <2>2 DEF StorageInv, OneScanner, Lives, WorkerHolds
    <2> QED  BY <2>1, <2>2 DEF StorageInv, Storage!ScannerHoldsLock
  <1> QED  BY SlotsAtStart, SlotsStep, <1>1, PTL DEF Spec

\* A save of the desktop's layout keeps every position that was saved before, whatever
\* pauses, hidings and moves came in between, unless a pause cut the reading of the state
\* file off (stateLoadProcess, saveStateDebounce, onPerformancePausedChanged).
THEOREM LayoutKept == Spec => LayoutIsKept
  <1>1. Slots /\ [Next]_slots => [part = "desktop" => Desktop!LayoutStep]_slots
    <2> SUFFICES ASSUME Slots, Next, part = "desktop" PROVE Desktop!LayoutStep
      OBVIOUS
    <2>1. LayoutKnown /\ Desktop!DeskNext
      BY DEF Slots, Next, InStatus, InStorage, InDesktop, InOverlay
    <2> QED  BY <2>1, LayoutKnownStep
  <1> QED  BY SlotsAtStart, SlotsStep, <1>1, PTL DEF Spec, LayoutIsKept
=============================================================================

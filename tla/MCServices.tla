------------------------------ MODULE MCServices ------------------------------
(***************************************************************************)
(* The services whose liveness is checked, in one model for TLC: the       *)
(* status daemon, the storage refresh, the desktop icons, and the          *)
(* notification overlay with its daemon.  They share no state, so a        *)
(* behaviour runs one of them, part, chosen at the start; the variables of *)
(* that one are the slots v1, v2, ..., and the slots it does not need stay *)
(* at 0.                                                                   *)
(***************************************************************************)
EXTENDS Naturals

CONSTANTS
    Events,             \* events clients notify of, a set of model values
    Levels, Radios, On, Links, Wifi, Ssids,  \* of the status daemon
    Workers,            \* processes of the storage refresh
    None                \* a model value: no value, no process, no event

\* No worker has the process id 0, and the caller is not one of them.
ASSUME WorkersAreOthers == 0 \notin Workers /\ None \notin Workers

VARIABLES part, v1, v2, v3, v4, v5, v6, v7, v8, v9, v10, v11, v12, v13, v14,
          v15, v16, v17, v18, v19, v20, v21

slots   == <<part, v1, v2, v3, v4, v5, v6, v7, v8, v9, v10, v11, v12, v13, v14,
             v15, v16, v17, v18, v19, v20, v21>>

Status == INSTANCE StatusDaemon WITH
    ManagerWrites <- TRUE,
    level <- v1, radio <- v2, route <- v3, ssid <- v4, present <- v5, varying <- v6,
    file <- v7, mem <- v8, routeCache <- v9, ssidCache <- v10, statusCache <- v11,
    routeKnown <- v12, booting <- v13, due <- v14, refresh <- v15, running <- v16,
    at <- v17, held <- v18, monitor <- v19, thread <- v20, asked <- v21

Storage == INSTANCE StorageRefresh WITH
    Callers <- {None}, Nobody <- 0, MaxByHand <- 1, MaxKills <- 1, MaxFailures <- 1,
    lock <- v1, status <- v2, fresh <- v3, at <- v4, ret <- v5, seen <- v6,
    running <- v7, child <- v8, byHand <- v9, kills <- v10, failures <- v11

CONSTANTS Off, Started, Unknown  \* model values of the desktop icons
Desktop == INSTANCE DesktopIcons WITH
    MaxChanges <- 2, MaxMoves <- 1, MaxSwitches <- 2,
    disk <- v1, stored <- v2, loaded <- v3, paused <- v4, hidden <- v5, positions <- v6,
    apps <- v7, signature <- v8, listing <- v9, probe <- v10, reading <- v11,
    refreshSoon <- v12, saveSoon <- v13, givenUp <- v14, moves <- v15, switches <- v16

Overlay == INSTANCE NotificationOverlay WITH
    Keys <- {}, NoEvent <- None, NoKey <- None, MaxHistory <- 2, MaxDelivered <- 2,
    MaxId <- 3, Budget <- 3, Replaceable <- "known", MaxCards <- 2,
    Overlap <- FALSE, Crashes <- FALSE, Updates <- FALSE,
    d <- v1, pc <- v2, call <- v3, quitting <- v4, file <- v5, held <- v6, shown <- v7,
    ackd <- v8, budget <- v9, cards <- v10, changed <- v11, closeProc <- v12

Zero13 == v13 = 0 /\ v14 = 0 /\ v15 = 0 /\ v16 = 0
Zero17 == v17 = 0 /\ v18 = 0 /\ v19 = 0 /\ v20 = 0 /\ v21 = 0

Init ==
    \/ part = "status" /\ Status!SdInit
    \/ part = "storage" /\ Storage!Init /\ v12 = 0 /\ Zero13 /\ Zero17
    \/ part = "desktop" /\ Desktop!DeskInit /\ Zero17
    \/ part = "overlay" /\ Overlay!OverlayInit /\ Zero13 /\ Zero17

\* A step of one part.
InStatus(A)  == part = "status" /\ A /\ UNCHANGED part
InStorage(A) == part = "storage" /\ A /\ UNCHANGED <<part, v12, v13, v14, v15, v16, v17, v18, v19, v20, v21>>
InDesktop(A) == part = "desktop" /\ A /\ UNCHANGED <<part, v17, v18, v19, v20, v21>>
InOverlay(A) == part = "overlay" /\ A /\ UNCHANGED <<part, v13, v14, v15, v16, v17, v18, v19, v20, v21>>

Next ==
    \/ InStatus(Status!SdNext)
    \/ InStorage(Storage!Next)
    \/ InDesktop(Desktop!DeskNext)
    \/ InOverlay(Overlay!OverlayNext)

\* The fairness each of the modules states, of the part that runs.
StatusFairness ==
    /\ WF_slots(InStatus(Status!Loop))
    /\ WF_slots(InStatus(Status!MonitorWrites))
    /\ WF_slots(InStatus(Status!RouteExpires))
    /\ WF_slots(InStatus(Status!SsidExpires))
    /\ WF_slots(InStatus(Status!StatusExpires))
    /\ SF_slots(InStatus(Status!ReadAudio))
    /\ SF_slots(InStatus(Status!ReadNetwork))
    /\ SF_slots(InStatus(Status!ReadBluetooth))
StorageFairness ==
    /\ WF_slots(InStorage(Storage!Caller(None)))
    /\ \A w \in Workers : WF_slots(InStorage(Storage!Worker(w)))
DesktopFairness ==
    /\ WF_slots(InDesktop(Desktop!ProbeTimer))
    /\ WF_slots(InDesktop(Desktop!RefreshTimer))
    /\ WF_slots(InDesktop(Desktop!SaveTimer))
    /\ WF_slots(InDesktop(Desktop!StateLoaded))
    /\ WF_slots(InDesktop(Desktop!ReadFolder))
    /\ WF_slots(InDesktop(Desktop!Listed))
    /\ WF_slots(InDesktop(Desktop!ReadSignature))
    /\ WF_slots(InDesktop(Desktop!ApplySignature))
OverlayFairness ==
    /\ WF_slots(InOverlay(Overlay!Overlay))
    /\ WF_slots(InOverlay(Overlay!CloseServed))
    /\ WF_slots(InOverlay(v12 # 0 /\ Overlay!Activated))
    /\ WF_slots(InOverlay(Overlay!DaemonRuns))

Spec == /\ Init /\ [][Next]_slots
        /\ StatusFairness /\ StorageFairness /\ DesktopFairness /\ OverlayFairness

----------------------------------------------------------------------------
\* A refresh asked for by a signal is served (StatusDaemon!RefreshServed).
RefreshServed == part = "status" => Status!RefreshServed

\* The files come to follow the world (StatusDaemon!FilesFollow).
FilesFollow ==
    \A v \in Status!Shown :
      [](part = "status" /\ Status!Watching) =>
        (<>[](part = "status" /\ Status!IsReal(v)) => <>[](part = "status" /\ Status!IsWritten(v)))

\* One scanner at a time, holding the lock (StorageRefresh!ScannerHoldsLock).
ScannerHoldsLock == part = "storage" => Storage!StorageTypeOK /\ Storage!ScannerHoldsLock

\* A stale storage cache is refreshed (StorageRefresh!StaleIsRefreshed).
StaleIsRefreshed == (part = "storage" /\ ~v3) ~> (part = "storage" /\ v3)

\* The desktop comes to show its folder (DesktopIcons!ChangesAreShown).
ChangesAreShown == (part = "desktop" /\ Desktop!Outdated) ~> (part = "desktop" /\ Desktop!UpToDate)

\* No saved layout is lost (DesktopIcons!LayoutIsKept).
LayoutIsKept == [][part = "desktop" => Desktop!LayoutStep]_slots

\* A dismissed card leaves, and its banner (NotificationOverlay!DismissalsClose).
DismissalsClose ==
    \A i \in 1..3 : (part = "overlay" /\ i \in Overlay!Dismissed) ~> (part = "overlay" /\ i \notin Overlay!Dismissed)
=============================================================================

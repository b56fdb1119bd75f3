---------------------------- MODULE DesktopIcons ----------------------------
(***************************************************************************)
(* Quickshell/desktop: the icons shown on the desktop and the helper       *)
(* app_index.py.  The shell lists the desktop folder with one process,     *)
(* asks another every five seconds for the folder's signature, and lists   *)
(* again when the signature differs from the one it knows.  The positions  *)
(* of the icons are loaded once and saved, all of them, after each change. *)
(* Work stops while the shell is paused (a game in front) or the icons are *)
(* hidden.                                                                 *)
(*                                                                         *)
(* A content of the folder is a number, the count of its changes.  A       *)
(* process is "off", "started" (it has read nothing) or, once it has read  *)
(* the folder, the content it read.                                        *)
(***************************************************************************)
EXTENDS Integers

CONSTANTS
    MaxChanges,  \* bound: changes of the desktop folder
    MaxMoves,    \* bound: icons moved by the user
    MaxSwitches, \* bound: pauses and hidings
    Off, Started, Unknown   \* model values: no process, one that has read nothing, no content

VARIABLES
    disk,        \* the desktop folder
    stored,      \* the layout in state.json: 0 for what it had, and the moves saved
    loaded,      \* stateLoaded
    paused, hidden,
    positions,   \* gridPositions, likewise
    apps,        \* the content shown
    signature,   \* desktopSignature
    listing,     \* appLoadProcess
    probe,       \* desktopSignatureProbe
    reading,     \* stateLoadProcess: is it running?
    refreshSoon, \* refreshDebounce
    saveSoon,    \* saveStateDebounce
    givenUp,     \* history: was the reading of state.json given up?
    moves, switches

deskVars == <<disk, stored, loaded, paused, hidden, positions, apps, signature, listing, probe, reading, refreshSoon, saveSoon, givenUp, moves, switches>>

(***************************************************************************)
(* The shell's functions, as the values they give to the state they touch. *)
(***************************************************************************)
Visible == loaded /\ ~hidden /\ ~paused

\* loadDesktopIconsIfVisible: refreshApps (a running listing is replaced) and
\* refreshDesktopSignature (a running probe goes on)
LoadIfVisible(visible) ==
    /\ listing' = IF visible THEN Started ELSE listing
    /\ probe' = IF visible /\ probe = Off THEN Started ELSE probe

\* stopDesktopIconWork; a state file that is being read is given up for good
StopWork ==
    /\ listing' = Off /\ probe' = Off /\ reading' = FALSE
    /\ refreshSoon' = FALSE /\ saveSoon' = FALSE

(***************************************************************************)
(* Starting.                                                               *)
(***************************************************************************)
\* mutant: the positions read are not taken over
StateIgnored ==
    /\ reading
    /\ reading' = FALSE /\ loaded' = TRUE
    /\ LoadIfVisible(~hidden /\ ~paused)
    /\ UNCHANGED <<disk, stored, paused, hidden, positions, apps, signature, refreshSoon, saveSoon, givenUp, moves, switches>>

\* stateLoadProcess.onExited, with a state saved while the icons were shown
StateLoaded ==
    /\ reading
    /\ reading' = FALSE /\ loaded' = TRUE
    /\ positions' = stored
    /\ LoadIfVisible(~hidden /\ ~paused)
    /\ UNCHANGED <<disk, stored, paused, hidden, apps, signature, refreshSoon, saveSoon, givenUp, moves, switches>>

(***************************************************************************)
(* Listing the folder, and its signature.                                  *)
(***************************************************************************)
\* collect_apps reads the folder
ReadFolder == listing = Started /\ listing' = disk /\ UNCHANGED <<disk, stored, loaded, paused, hidden, positions, apps, signature, probe, reading, refreshSoon, saveSoon, givenUp, moves, switches>>

\* appLoadProcess.onExited
Listed ==
    /\ listing \notin {Off, Started}
    /\ apps' = listing
    /\ listing' = Off
    /\ UNCHANGED <<disk, stored, loaded, paused, hidden, positions, signature, probe, reading, refreshSoon, saveSoon, givenUp, moves, switches>>

\* the five-second timer, refreshDesktopSignature
ProbeTimer ==
    /\ Visible /\ probe = Off
    /\ probe' = Started
    /\ UNCHANGED <<disk, stored, loaded, paused, hidden, positions, apps, signature, listing, reading, refreshSoon, saveSoon, givenUp, moves, switches>>

\* desktop_signature
ReadSignature == probe = Started /\ probe' = disk /\ UNCHANGED <<disk, stored, loaded, paused, hidden, positions, apps, signature, listing, reading, refreshSoon, saveSoon, givenUp, moves, switches>>

\* mutant: a listing in progress is taken for one of the new content
SkipWhileListing ==
    /\ probe \notin {Off, Started}
    /\ signature' = probe
    /\ refreshSoon' = (refreshSoon \/ (signature # Unknown /\ signature # probe /\ listing = Off))
    /\ probe' = Off
    /\ UNCHANGED <<disk, stored, loaded, paused, hidden, positions, apps, listing, reading, saveSoon, givenUp, moves, switches>>

\* applyDesktopSignature: the first signature is only remembered
ApplySignature ==
    /\ probe \notin {Off, Started}
    /\ signature' = probe
    /\ refreshSoon' = (refreshSoon \/ (signature # Unknown /\ signature # probe))
    /\ probe' = Off
    /\ UNCHANGED <<disk, stored, loaded, paused, hidden, positions, apps, listing, reading, saveSoon, givenUp, moves, switches>>

\* refreshDebounce: refreshApps, which replaces a running listing
RefreshTimer ==
    /\ refreshSoon
    /\ refreshSoon' = FALSE
    /\ listing' = Started
    /\ UNCHANGED <<disk, stored, loaded, paused, hidden, positions, apps, signature, probe, reading, saveSoon, givenUp, moves, switches>>

(***************************************************************************)
(* Positions.                                                              *)
(***************************************************************************)
\* the user moves an icon; saveState
MoveIcon ==
    /\ Visible /\ moves < MaxMoves
    /\ moves' = moves + 1
    /\ positions' = positions \cup {moves'}
    /\ saveSoon' = TRUE
    /\ UNCHANGED <<disk, stored, loaded, paused, hidden, apps, signature, listing, probe, reading, refreshSoon, givenUp, switches>>

\* saveStateDebounce and save_state
SaveTimer ==
    /\ saveSoon
    /\ saveSoon' = FALSE
    /\ stored' = positions
    /\ UNCHANGED <<disk, loaded, paused, hidden, positions, apps, signature, listing, probe, reading, refreshSoon, givenUp, moves, switches>>

(***************************************************************************)
(* Pausing, hiding, and the folder.                                        *)
(***************************************************************************)
\* onPerformancePausedChanged; a state file given up counts as loaded, with
\* no positions
Pause ==
    /\ ~paused /\ switches < MaxSwitches
    /\ paused' = TRUE
    /\ StopWork
    /\ loaded' = TRUE
    /\ positions' = IF reading THEN {} ELSE positions
    /\ givenUp' = (givenUp \/ reading)
    /\ switches' = switches + 1
    /\ UNCHANGED <<disk, stored, hidden, apps, signature, moves>>

Resume ==
    /\ paused
    /\ paused' = FALSE
    /\ LoadIfVisible(loaded /\ ~hidden)
    /\ UNCHANGED <<disk, stored, loaded, hidden, positions, apps, signature, reading, refreshSoon, saveSoon, givenUp, moves, switches>>

\* setIconsHidden(true): unloadDesktopIcons, then saveState
Hide ==
    /\ loaded /\ ~hidden /\ switches < MaxSwitches
    /\ hidden' = TRUE
    /\ listing' = Off /\ probe' = Off /\ refreshSoon' = FALSE /\ saveSoon' = TRUE
    /\ apps' = Unknown /\ signature' = Unknown
    /\ switches' = switches + 1
    /\ UNCHANGED <<disk, stored, loaded, paused, positions, reading, givenUp, moves>>

\* setIconsHidden(false)
Show ==
    /\ hidden
    /\ hidden' = FALSE
    /\ saveSoon' = TRUE
    /\ LoadIfVisible(loaded /\ ~paused)
    /\ UNCHANGED <<disk, stored, loaded, paused, positions, apps, signature, reading, refreshSoon, givenUp, moves, switches>>

FolderChanges ==
    /\ disk < MaxChanges
    /\ disk' = disk + 1
    /\ UNCHANGED <<stored, loaded, paused, hidden, positions, apps, signature, listing, probe, reading, refreshSoon, saveSoon, givenUp, moves, switches>>

DeskInit ==
    /\ disk = 0 /\ stored \in {{}, {0}} /\ loaded = FALSE
    /\ paused = FALSE /\ hidden = FALSE
    /\ positions = {} /\ apps = Unknown /\ signature = Unknown
    /\ listing = Off /\ probe = Off /\ reading = TRUE
    /\ refreshSoon = FALSE /\ saveSoon = FALSE /\ givenUp = FALSE
    /\ moves = 0 /\ switches = 0

Timers == ProbeTimer \/ RefreshTimer \/ SaveTimer
Processes == StateLoaded \/ ReadFolder \/ Listed \/ ReadSignature \/ ApplySignature
User == MoveIcon \/ Pause \/ Resume \/ Hide \/ Show \/ FolderChanges

DeskNext == Timers \/ Processes \/ User

\* timers fire and processes end
DeskFairSpec ==
    /\ DeskInit /\ [][DeskNext]_deskVars
    /\ WF_deskVars(ProbeTimer) /\ WF_deskVars(RefreshTimer) /\ WF_deskVars(SaveTimer)
    /\ WF_deskVars(StateLoaded) /\ WF_deskVars(ReadFolder) /\ WF_deskVars(Listed)
    /\ WF_deskVars(ReadSignature) /\ WF_deskVars(ApplySignature)

(***************************************************************************)
(* Properties.                                                             *)
(***************************************************************************)
\* A change of the folder after its first signature is shown, through listings
\* replaced half-way, pauses and hidings, unless the icons stay away
\* (applyDesktopSignature, refreshDebounce, loadDesktopIconsIfVisible).
Outdated == signature # Unknown /\ signature # disk
UpToDate == apps = disk \/ paused \/ hidden \/ signature = Unknown
ChangesAreShown == Outdated ~> UpToDate

\* No position ever saved is lost, although each save writes the whole layout,
\* unless a pause cut off the reading of the file (stateLoadProcess, save_state).
LayoutStep == givenUp \/ stored \subseteq stored'
LayoutIsKept == [][LayoutStep]_deskVars
=============================================================================

----------------------------- MODULE PasteFlow -----------------------------
(***************************************************************************)
(* FileOperationsState.qml: the Explorer window's clipboard and its pastes.*)
(* A paste asks the system's clipboard when the window's own is empty,     *)
(* scans the folder for conflicts, asks the user about those it finds, and *)
(* runs explorer_backend.  Each of the three processes is started anew by  *)
(* "running = false; running = true": Quickshell ends it, runs the         *)
(* handlers of its end, and only then starts the new command.              *)
(*                                                                         *)
(* A job is the files of a paste, its mode and its folder; the policy      *)
(* travels with the command.  What is on the disk is FileOps' affair.      *)
(***************************************************************************)
EXTENDS Naturals

CONSTANTS
    Files, Folders,
    MaxAsks,      \* bound: pastes and drops asked for
    Overlap,      \* may a paste be asked for while another one is under way?
    QuickCancel,  \* may a paste be cancelled while the last one's panel is still shown?
    Nothing       \* a model value: no job

VARIABLES
    clip,    \* clipboardFiles, clipboardMode
    folder,  \* app.currentPath
    pend,    \* pendingPasteFiles, -Mode, -Destination
    clears,  \* pendingPasteClearsClipboard
    dialog,  \* pasteConflictVisible: the job whose conflicts are listed, or Nothing
    panel,   \* fileOperationRunning: "hidden", "shown", or "hiding" once the timer runs
    probe, scan, paste,  \* the processes: [pc, job, next, ok]
    order,   \* history: the job asked for and not yet run, given up or refused
    kept,    \* history: has the clipboard stayed the same since it was pasted?
    count    \* history: pastes asked for, and run

vars == <<clip, folder, pend, clears, dialog, panel, probe, scan, paste, order, kept, count>>

NoPend == [files |-> {}, mode |-> "", dest |-> Nothing]
Stopped == [pc |-> "off", job |-> Nothing, next |-> Nothing, ok |-> TRUE]

Init ==
    /\ clip = [files |-> {}, mode |-> "copy"] /\ folder \in Folders
    /\ pend = NoPend /\ clears = FALSE /\ dialog = Nothing /\ panel = "hidden"
    /\ probe = Stopped /\ scan = Stopped /\ paste = Stopped
    /\ order = Nothing /\ kept = FALSE /\ count = [asks |-> 0, runs |-> 0]

\* "running = false; running = true" with a new command, and the end of a process
Restart(p, job) ==
    IF p.pc = "off" THEN [p EXCEPT !.pc = "on", !.job = job] ELSE [p EXCEPT !.pc = "ending", !.next = job]
Ended(p, ok) ==
    IF p.next = Nothing THEN [Stopped EXCEPT !.ok = ok]
    ELSE [pc |-> "on", job |-> p.next, next |-> Nothing, ok |-> ok]

Latest(p) == IF p.next = Nothing THEN p.job ELSE p.next

(***************************************************************************)
(* The user's clipboard and folder.  The shortcuts of the clipboard are    *)
(* dead while the dialog is open (fileClipboardShortcutAllowed).           *)
(***************************************************************************)
SetClip(files, mode) ==
    /\ dialog = Nothing
    /\ clip' = [files |-> files, mode |-> mode]
    /\ kept' = FALSE
    /\ UNCHANGED <<folder, pend, clears, dialog, panel, probe, scan, paste, order, count>>

CopySelected(files) == SetClip(files, "copy")

\* cutting the same files again gives the cut up
CutSelected(files) ==
    IF clip = [files |-> files, mode |-> "cut"] THEN SetClip({}, "") ELSE SetClip(files, "cut")

Navigate(to) ==
    /\ to # folder
    /\ folder' = to
    /\ UNCHANGED <<clip, pend, clears, dialog, panel, probe, scan, paste, order, kept, count>>

(***************************************************************************)
(* Asking for a paste.                                                     *)
(***************************************************************************)
UnderWay == probe.pc # "off" \/ scan.pc # "off" \/ paste.pc # "off" \/ dialog # Nothing

StartPasteForFiles(files, mode, to) ==
    LET job == [files |-> files, mode |-> mode, dest |-> to] IN
    scan' = Restart(scan, job) /\ pend' = job /\ order' = job

Ask ==
    /\ Overlap \/ ~UnderWay
    /\ dialog = Nothing /\ count.asks < MaxAsks
    /\ count' = [count EXCEPT !.asks = @ + 1]
    /\ UNCHANGED <<clip, folder, clears, dialog, panel, paste>>

PasteFiles ==
    /\ Ask
    /\ IF clip.files # {} THEN /\ StartPasteForFiles(clip.files, clip.mode, folder)
                               /\ kept' = TRUE
                               /\ UNCHANGED probe
       ELSE probe' = Restart(probe, folder) /\ UNCHANGED <<pend, scan, order, kept>>

\* dropped on the window or on one of the folders it shows
DropFilePaths(files, mode, to) ==
    Ask /\ StartPasteForFiles(files, mode, to) /\ kept' = FALSE /\ UNCHANGED probe

\* systemClipboardProbe: a list of files, or nothing (then the window's own
\* files, if there are any by now), or an image, which is another process
ProbeEnds ==
    /\ probe.pc # "off"
    /\ probe' = Ended(probe, TRUE)
    /\ \/ \E files \in (SUBSET Files) \ {{}} : StartPasteForFiles(files, "copy", folder) /\ kept' = FALSE
       \/ clip.files # {} /\ StartPasteForFiles(clip.files, clip.mode, folder) /\ kept' = TRUE
       \/ UNCHANGED <<pend, scan, order, kept>>
    /\ UNCHANGED <<clip, folder, clears, dialog, panel, paste, count>>

(***************************************************************************)
(* The paste itself.                                                       *)
(***************************************************************************)
\* mutant: the mode of the clipboard goes first
ClipboardFirst ==
    [files |-> IF pend.files # {} THEN pend.files ELSE clip.files,
     mode |-> IF clip.mode # "" THEN clip.mode ELSE pend.mode,
     dest |-> IF pend.dest # Nothing THEN pend.dest ELSE folder]

\* what is pending, or what the clipboard has where nothing is
Job ==
    [files |-> IF pend.files # {} THEN pend.files ELSE clip.files,
     mode |-> IF pend.mode # "" THEN pend.mode ELSE clip.mode,
     dest |-> IF pend.dest # Nothing THEN pend.dest ELSE folder]

ExecutePaste ==
    IF Job.files = {} THEN UNCHANGED <<pend, clears, dialog, panel, paste, order, count>>
    ELSE /\ paste' = Restart(paste, Job)
         /\ clears' = (Job.mode = "cut")
         /\ pend' = NoPend /\ dialog' = Nothing /\ panel' = "shown"
         /\ order' = Nothing
         /\ count' = [count EXCEPT !.runs = @ + 1]

\* conflictScanProcess; a scan that failed or was killed has no text, which
\* is read as no conflicts
ScanEnds ==
    /\ scan.pc # "off"
    /\ scan' = Ended(scan, TRUE)
    /\ \/ ExecutePaste
       \/ dialog' = scan.job /\ UNCHANGED <<pend, clears, panel, paste, order, count>>
       \/ \* a conflict that no policy can solve is shown as an error
          /\ pend' = NoPend /\ order' = Nothing /\ panel' = "hiding"
          /\ UNCHANGED <<clears, dialog, paste, count>>
    /\ UNCHANGED <<clip, folder, probe, kept>>

\* resolvePasteConflict, renamePasteConflict
Resolve ==
    /\ dialog # Nothing
    /\ ExecutePaste
    /\ UNCHANGED <<clip, folder, probe, scan, kept>>

\* cancelPasteConflict, which stops the timer of the panel, too
Cancel ==
    /\ dialog # Nothing /\ (QuickCancel \/ panel # "hiding")
    /\ dialog' = Nothing /\ pend' = NoPend /\ clears' = FALSE /\ order' = Nothing
    /\ panel' = IF panel = "hiding" THEN "shown" ELSE panel
    /\ UNCHANGED <<clip, folder, probe, scan, paste, kept, count>>

\* pasteProcess: its end, by itself or killed, is a success or a failure
PasteEnds(ok) ==
    /\ paste.pc # "off"
    /\ paste' = Ended(paste, ok)
    /\ clip' = IF ok /\ clears THEN [clip EXCEPT !.files = {}] ELSE clip
    /\ clears' = FALSE
    /\ panel' = IF panel = "hidden" THEN "hidden" ELSE "hiding"
    /\ UNCHANGED <<folder, pend, dialog, probe, scan, order, kept, count>>

\* fileOperationHideTimer
Hide ==
    /\ panel = "hiding"
    /\ panel' = "hidden"
    /\ UNCHANGED <<clip, folder, pend, clears, dialog, probe, scan, paste, order, kept, count>>

Next ==
    \/ \E files \in (SUBSET Files) \ {{}} :
         \/ CopySelected(files) \/ CutSelected(files)
         \/ \E mode \in {"copy", "move"}, to \in Folders : DropFilePaths(files, mode, to)
    \/ \E to \in Folders : Navigate(to)
    \/ PasteFiles \/ ProbeEnds \/ ScanEnds \/ Resolve \/ Cancel \/ Hide
    \/ \E ok \in BOOLEAN : PasteEnds(ok)

Spec == Init /\ [][Next]_vars

(***************************************************************************)
(* Properties.                                                             *)
(***************************************************************************)
\* Whatever is copied, cut, dropped or visited in the meantime, a paste that
\* runs is the one asked for last and not yet run (its files, mode and
\* folder), and the scan or the dialog that let it run was about it
\* (startPasteForFiles, executePaste).
StartingStep ==
    count'.runs # count.runs =>
      LET allowedBy == IF scan' # scan THEN scan.job ELSE dialog
      IN order # Nothing /\ Latest(paste') = order /\ allowedBy = order

\* The end of a paste empties the clipboard if, and only if, it has moved the
\* files cut; a failed cut can be pasted again.  (A clipboard the user has set
\* since then is left out: the code empties it, too.)
EmptyingStep ==
    paste.pc # "off" /\ paste' # paste /\ count'.runs = count.runs =>
      LET moved == paste.job.mode = "cut" /\ paste'.ok
      IN /\ clip' # clip => moved
         /\ moved /\ kept => clip'.files = {}

\* The panel is shown as long as a paste runs, and does not stay without one
\* (resetFileOperation, fileOperationHideTimer).
PanelIsRight ==
    /\ paste.pc # "off" => panel = "shown"
    /\ paste.pc = "off" => panel # "shown"

(***************************************************************************)
(* The inductive invariant of the three, with one paste at a time.         *)
(***************************************************************************)
Jobs == [files : (SUBSET Files) \ {{}}, mode : {"copy", "cut", "move"}, dest : Folders]
Processes(jobs) == [pc : {"off", "on"}, job : jobs \cup {Nothing}, next : {Nothing}, ok : BOOLEAN]

\* Every variable has its type; files on the clipboard are there to be copied or cut.
PasteTypeOK ==
    /\ clip \in [files : SUBSET Files, mode : {"copy", "cut", ""}] /\ folder \in Folders
    /\ clip.files # {} => clip.mode # ""
    /\ pend \in Jobs \cup {NoPend} /\ dialog \in Jobs \cup {Nothing}
    /\ clears \in BOOLEAN /\ panel \in {"hidden", "shown", "hiding"}
    /\ probe \in Processes(Folders) /\ scan \in Processes(Jobs) /\ paste \in Processes(Jobs)
    /\ count \in [asks : Nat, runs : Nat]

\* One thing is under way at a time.
OneAtATime ==
    /\ probe.pc # "off" => scan.pc = "off"
    /\ probe.pc # "off" \/ scan.pc # "off" => paste.pc = "off" /\ dialog = Nothing
    /\ paste.pc # "off" => dialog = Nothing

\* What is pending is what is scanned or asked about, and what was asked for; the
\* clipboard is due to be cleared as long as a cut runs.
PendingIsMeant ==
    /\ pend # NoPend <=> scan.pc # "off" \/ dialog # Nothing
    /\ scan.pc # "off" => pend = scan.job
    /\ dialog # Nothing => pend = dialog
    /\ order = IF pend = NoPend THEN Nothing ELSE pend
    /\ clears <=> paste.pc # "off" /\ paste.job.mode = "cut"

PasteInv == PasteTypeOK /\ OneAtATime /\ PendingIsMeant /\ PanelIsRight

=============================================================================

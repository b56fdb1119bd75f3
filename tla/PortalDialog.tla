---------------------------- MODULE PortalDialog ----------------------------
(***************************************************************************)
(* The file chooser portal and the dialog it runs.                         *)
(*                                                                         *)
(* The portal serves its D-Bus calls on one thread, one after the other:   *)
(* it starts a dialog process, polls until it finds a result in a file or  *)
(* on the process's output, until the process has ended or until five      *)
(* minutes are over, ends the process and answers.  The dialog hands its   *)
(* result over twice, by a helper that writes the file and, when that has  *)
(* ended, as a line of output, which a thread of the portal forwards.      *)
(***************************************************************************)
EXTENDS Integers

CONSTANTS
  Callers,    \* calls of OpenFile, SaveFile or SaveFiles
  Timeout,    \* the deadline, in polls
  LastPolls,  \* polls that follow the end of the process
  MaxErrors   \* bound on failing system calls

Nobody  == "nobody"
Nothing == "nothing"

ASSUME PortalAssumption ==
  /\ Timeout \in Nat \ {0} /\ LastPolls \in Nat \ {0} /\ MaxErrors \in Nat
  /\ Nobody \notin Callers

VARIABLES
  call,     \* of each caller: "idle", "waiting", and its answer
  serving,  \* the call that is served
  pc,       \* where the portal is
  left,     \* polls left, to the deadline or after the end of the process
  selection, \* the selection found
  file,     \* the selection in the result file
  line,     \* the selection in the output that has reached the portal
  dialog,   \* where the dialog process is
  choice,   \* what its user chose
  logged,   \* what it has put out
  errors,
  fate      \* history, of each caller: how its dialog ended

portalVars == <<call, serving, pc, left, selection>>
dialogVars == <<dialog, choice>>
allVars == <<portalVars, dialogVars, file, line, logged, errors, fate>>

Choices == {"accepted", "rejected"}
DialogAnswers == {"success", "cancelled"}
Running == {"open", "writing", "written"}

PortalInit ==
  /\ call = [c \in Callers |-> "idle"] /\ serving = Nobody /\ pc = "idle" /\ left = 0
  /\ selection = Nothing /\ file = Nothing /\ line = Nothing
  /\ dialog = "none" /\ choice = Nothing /\ logged = Nothing
  /\ errors = 0 /\ fate = [c \in Callers |-> Nothing]

----------------------------------------------------------------------------
(* The portal *)

Call(c) ==
  /\ call[c] = "idle"
  /\ call' = [call EXCEPT ![c] = "waiting"]
  /\ UNCHANGED <<serving, pc, left, selection, dialogVars, file, line, logged, errors, fate>>

Fails == errors < MaxErrors /\ errors' = errors + 1
Fated(how) == fate' = [fate EXCEPT ![serving] = IF @ = Nothing THEN how ELSE @]

\* response_from_selection: whatever is not a selection is a cancellation.
Answer(r) ==
  /\ call' = [call EXCEPT ![serving] = IF r = "accepted" THEN "success" ELSE "cancelled"]
  /\ serving' = Nobody /\ pc' = "idle" /\ left' = 0 /\ selection' = Nothing

\* The result file and the pipes are new with each dialog.
NewResults == file' = Nothing /\ line' = Nothing /\ logged' = Nothing

\* The dialog is started, unless it is not installed or cannot be started.
Serve(c) ==
  /\ pc = "idle" /\ call[c] = "waiting"
  /\ \/ /\ serving' = c /\ pc' = "read" /\ left' = Timeout
        /\ dialog' = "open" /\ choice' = Nothing /\ NewResults
        /\ UNCHANGED <<call, selection, errors>>
     \/ /\ Fails /\ call' = [call EXCEPT ![c] = "cancelled"]
        /\ UNCHANGED <<serving, pc, left, selection, dialogVars, file, line, logged>>
  /\ UNCHANGED fate

\* An error of a system call goes straight to the answer: the process keeps running.
LeaveDialog ==
  /\ Fails
  /\ Fated("error")
  /\ Answer(Nothing)
  /\ UNCHANGED <<dialogVars, file, line, logged>>

Found(r) == selection' = r /\ pc' = "terminate"

ReadFile ==
  /\ pc = "read"
  /\ IF file # Nothing THEN Found(file) ELSE pc' = "drain" /\ UNCHANGED selection
  /\ UNCHANGED <<call, serving, left, dialogVars, file, line, logged, errors, fate>>

DrainOutput ==
  /\ pc = "drain"
  /\ IF line # Nothing THEN Found(line) ELSE pc' = "wait" /\ UNCHANGED selection
  /\ UNCHANGED <<call, serving, left, dialogVars, file, line, logged, errors, fate>>

\* mutant: without final_child_result
NoLastPolls == pc' = "terminate" /\ UNCHANGED left
LastPollsToo == pc' = "final" /\ left' = LastPolls

TryWait ==
  /\ pc = "wait"
  /\ IF dialog \in Running THEN pc' = "sleep" /\ UNCHANGED left ELSE LastPollsToo
  /\ UNCHANGED <<call, serving, selection, dialogVars, file, line, logged, errors, fate>>

\* mutant: polls are not counted
ForeverLeft == left

OnePollLess == left - 1

\* A poll's sleep ends; the deadline is looked at before the next poll.
Wake ==
  /\ pc = "sleep"
  /\ left' = OnePollLess
  /\ IF left' > 0
       THEN pc' = "read" /\ UNCHANGED fate
       ELSE pc' = "terminate" /\ Fated("late")
  /\ UNCHANGED <<call, serving, selection, dialogVars, file, line, logged, errors>>

\* final_child_result: file and output, forty times.  The thread that forwards the
\* output is assumed to be done before the last of them.
FinalPoll ==
  /\ pc = "final"
  /\ \/ left > 0 /\ file # Nothing /\ Found(file) /\ UNCHANGED left
     \/ left > 0 /\ file = Nothing /\ line # Nothing /\ Found(line) /\ UNCHANGED left
     \/ /\ left > 0 /\ file = Nothing /\ line = Nothing /\ (left > 1 \/ logged = Nothing)
        /\ left' = left - 1 /\ UNCHANGED <<pc, selection>>
     \/ left = 0 /\ pc' = "terminate" /\ UNCHANGED <<left, selection>>
  /\ UNCHANGED <<call, serving, dialogVars, file, line, logged, errors, fate>>

\* mutant: a dialog given up is not killed
LetRun == UNCHANGED dialog

Kill == dialog' = IF dialog \in Running THEN "none" ELSE dialog

\* terminate_child, and the answer
Terminate ==
  /\ pc = "terminate"
  /\ Kill
  /\ Answer(selection)
  /\ UNCHANGED <<choice, file, line, logged, errors, fate>>

Portal ==
  \/ \E c \in Callers : Serve(c)
  \/ (pc \in {"read", "drain", "wait", "final"} /\ LeaveDialog)
  \/ ReadFile
  \/ DrainOutput
  \/ TryWait
  \/ Wake
  \/ FinalPoll
  \/ Terminate

----------------------------------------------------------------------------
(* The dialog *)

\* emitResultOnce: the first of choosing, cancelling and closing the window counts.
Choose ==
  /\ dialog = "open"
  /\ dialog' = "writing"
  /\ choice' \in Choices
  /\ UNCHANGED <<portalVars, file, line, logged, errors, fate>>

\* resultWriter replaces the file atomically, or fails.
Write ==
  /\ dialog = "writing"
  /\ dialog' = "written"
  /\ \/ file' = choice /\ UNCHANGED errors
     \/ Fails /\ UNCHANGED file
  /\ UNCHANGED <<portalVars, choice, line, logged, fate>>

\* onExited: the result is put out and the dialog quits.
Quit ==
  /\ dialog = "written"
  /\ dialog' = "none"
  /\ logged' = choice
  /\ UNCHANGED <<portalVars, choice, file, line, errors, fate>>

\* spawn_reader_thread
Forward ==
  /\ logged # Nothing /\ line # logged
  /\ line' = logged
  /\ UNCHANGED <<portalVars, dialogVars, file, logged, errors, fate>>

\* The dialog dies without a word, like a crash of its graphics stack.
Die ==
  /\ dialog \in Running
  /\ Fails
  /\ dialog' = "none"
  /\ IF serving # Nobody THEN Fated("died") ELSE UNCHANGED fate
  /\ UNCHANGED <<portalVars, choice, file, line, logged>>

PortalNext ==
  \/ \E c \in Callers : Call(c)
  \/ Portal
  \/ Choose
  \/ Write
  \/ Quit
  \/ Forward
  \/ Die

PortalSpec == PortalInit /\ [][PortalNext]_allVars

\* The portal and its threads run; nothing is assumed of the dialog and its user.
FairPortalSpec == PortalSpec /\ WF_allVars(Portal) /\ WF_allVars(Forward)

----------------------------------------------------------------------------
(* Properties *)

PortalTypeOK ==
  /\ call \in [Callers -> {"idle", "waiting"} \cup DialogAnswers]
  /\ serving \in Callers \cup {Nobody}
  /\ pc \in {"idle", "read", "drain", "wait", "sleep", "final", "terminate"}
  /\ left \in 0..(Timeout + LastPolls)
  /\ {selection, file, line, choice, logged} \subseteq Choices \cup {Nothing}
  /\ dialog \in Running \cup {"none"}
  /\ errors \in 0..MaxErrors
  /\ fate \in [Callers -> {Nothing, "error", "late", "died"}]

\* A caller is answered with what the user of its own dialog chose, and with a
\* cancellation only if the user cancelled, the five minutes were over, the dialog
\* died or a system call failed.
AnswersTheChoice ==
  [][\A c \in Callers :
       serving = c /\ call'[c] # call[c] =>
         \/ call'[c] = "success" /\ choice = "accepted"
         \/ call'[c] = "cancelled" /\ (choice = "rejected" \/ fate'[c] # Nothing)]_allVars

\* No dialog is left on the screen of a caller that has its answer, unless an error
\* took the portal past terminate_child.
NoDialogLeftBehind ==
  serving = Nobody /\ dialog \in Running => \E c \in Callers : fate[c] = "error"

\* A result that is read is the one that this dialog handed over.
ResultsAreFresh == serving # Nobody => {file, line, selection} \subseteq {choice, Nothing}

\* A dialog belongs to the call being served, on the screen and in what it says.
DialogsAreOwn == NoDialogLeftBehind /\ ResultsAreFresh

\* Every caller is answered, whatever the user and the dialog do.
EveryCallEnds == \A c \in Callers : call[c] = "waiting" ~> call[c] \in DialogAnswers
=============================================================================

--------------------------- MODULE ArchiveExtract ---------------------------
(***************************************************************************)
(* Extracting an archive beside itself (explorer_helper.py extract-archive)*)
(* and the dialogs of the Explorer that drive it: a run asks for what it   *)
(* lacks, a password or a policy for a destination that exists, by ending, *)
(* and the answer starts another run.  Starting one kills the one before.  *)
(*                                                                         *)
(* A directory holds files of the user and files of the archive; the file  *)
(* "both" has the same name in the two.  Files are written one by one.     *)
(***************************************************************************)
EXTENDS Naturals

CONSTANTS
  MaxRuns,       \* runs started
  MergeOnFile,   \* may the user answer "merge" when the destination is a file?
  CleanupFails   \* may removing the backup of a replaced destination fail half-way?

Users   == {"own", "both"}
Entries == {"both", "fresh"}
Names   == 1..MaxRuns + 1
Out(n)  == <<"out", n>>     \* the destination: name, "name 2", ...
Bak(n)  == <<"bak", n>>     \* .name.astrea-overwrite-backup, ...
Paths   == {Out(n) : n \in Names} \cup {Bak(n) : n \in Names}
Nowhere == <<"none", 0>>

Absent == [kind |-> "none", user |-> {}, got |-> {}]
EmptyDir == [kind |-> "dir", user |-> {}, got |-> {}]
Befores == {Absent, [kind |-> "file", user |-> {"own"}, got |-> {}],
            [kind |-> "dir", user |-> Users, got |-> {}]}

VARIABLES
  fs,       \* what is at each path
  archive,  \* [tar, locked, unsafe]: is it a tar, encrypted, with an entry that leaves the destination?
  ui,       \* the dialog the Explorer shows, or the outcome it was told
  password, \* is the password it would send right?  "none" if it has none
  pc, policy, dest, backup,  \* of the run: where it is, its policy, its paths
  existed,  \* destination_preexisting
  before,   \* history: the disk when the run began
  agreed,   \* history: files of the user he agreed to have replaced
  runs

arvars == <<fs, archive, ui, password, pc, policy, dest, backup, existed, before, agreed, runs>>
run == <<policy, dest, backup, existed, before, runs>>

ArInit ==
  /\ \E b \in Befores : fs = [p \in Paths |-> IF p = Out(1) THEN b ELSE Absent]
  /\ archive \in [tar : BOOLEAN, locked : BOOLEAN, unsafe : BOOLEAN]
  /\ ~(archive.tar /\ archive.locked)
  /\ ui = "none" /\ password = "none" /\ pc = "idle" /\ policy = "ask"
  /\ dest = Out(1) /\ backup = Nowhere /\ existed = FALSE
  /\ before = fs /\ agreed = {} /\ runs = 0

There(p) == fs[p].kind # "none"
\* _unique_target
Unique(place) ==
  CHOOSE p \in {<<place, n>> : n \in Names} :
    ~There(p) /\ \A n \in Names : n < p[2] => There(<<place, n>>)
Put(p, x) == fs' = [fs EXCEPT ![p] = x]

----------------------------------------------------------------------------
(* The Explorer *)

\* startArchiveExtraction(): the process that runs is killed.
StartRun(pol) ==
  /\ runs < MaxRuns /\ runs' = runs + 1
  /\ pc' = "probe" /\ policy' = pol /\ ui' = "running"
  /\ dest' = Out(1) /\ backup' = Nowhere /\ existed' = FALSE /\ before' = fs
  /\ UNCHANGED <<fs, archive>>

Open == ui \notin {"password", "conflict"} /\ StartRun("ask") /\ password' = "none" /\ UNCHANGED agreed

SubmitPassword ==
  /\ ui = "password" /\ StartRun("ask")
  /\ password' \in {"right", "wrong"} /\ UNCHANGED agreed

SubmitConflict(pol) ==
  /\ ui = "conflict" /\ StartRun(pol) /\ UNCHANGED password
  /\ pol = "merge" => MergeOnFile \/ fs[Out(1)].kind = "dir"
  /\ agreed' = agreed \cup CASE pol = "overwrite" -> fs[Out(1)].user
                             [] pol = "merge" -> {"both"}
                             [] OTHER -> {}

Cancel ==
  /\ ui \in {"password", "conflict"} /\ ui' = "none" /\ password' = "none"
  /\ UNCHANGED <<fs, archive, pc, run, agreed>>

----------------------------------------------------------------------------
(* extract_archive *)

Goto(where) == pc' = where /\ UNCHANGED <<archive, password, policy, before, agreed, runs>>
Tell(event) == ui' = event

\* _archive_requires_password: without 7z it does not know.
Probe ==
  /\ pc = "probe"
  /\ \/ archive.locked /\ password = "none" /\ Tell("password") /\ Goto("idle")
     \/ UNCHANGED ui /\ Goto("prepare")
  /\ UNCHANGED <<fs, dest, backup, existed>>

\* A failure before destination_preexisting is known: it is still FALSE.
Prepare ==
  /\ pc = "prepare"
  /\ \/ /\ ~There(Out(1)) /\ Goto("list")
        /\ UNCHANGED <<fs, dest, backup, existed, ui>>
     \/ /\ There(Out(1)) /\ policy = "ask" /\ Tell("conflict") /\ Goto("idle")
        /\ UNCHANGED <<fs, dest, backup, existed>>
     \/ /\ There(Out(1)) /\ policy = "keep-both" /\ dest' = Unique("out") /\ Goto("list")
        /\ UNCHANGED <<fs, backup, existed, ui>>
     \/ /\ There(Out(1)) /\ policy = "merge"
        /\ existed' = (fs[Out(1)].kind = "dir")
        /\ Goto(IF fs[Out(1)].kind = "dir" THEN "list" ELSE "undo")
        /\ UNCHANGED <<fs, dest, backup, ui>>
     \/ /\ There(Out(1)) /\ policy = "overwrite" /\ backup' = Unique("bak") /\ Goto("list")
        /\ fs' = [fs EXCEPT ![backup'] = fs[Out(1)], ![Out(1)] = Absent]
        /\ UNCHANGED <<dest, existed, ui>>

\* The entries are validated before anything is written, but a tar is streamed.
List ==
  /\ pc = "list"
  /\ \/ ~archive.tar /\ archive.unsafe /\ Goto("undo") /\ UNCHANGED fs
     \/ /\ archive.tar \/ ~archive.unsafe
        /\ Put(dest, IF There(dest) THEN fs[dest] ELSE EmptyDir) /\ Goto("extract")
  /\ UNCHANGED <<ui, dest, backup, existed>>

Missing == Entries \ fs[dest].got

\* The extractor, or _extract_tar_archive_streaming, writes an entry, ...
Extract ==
  /\ pc = "extract" /\ (archive.locked => password = "right")
  /\ \E e \in Missing :
       fs' = [fs EXCEPT ![dest].got = @ \cup {e}, ![dest].user = @ \ {e}]
  /\ UNCHANGED <<archive, ui, password, pc, run, agreed>>

\* ... or fails: no tool, no password, no space, an unsafe entry.
ExtractFails ==
  /\ pc = "extract" /\ Goto("undo") /\ UNCHANGED <<fs, ui, dest, backup, existed>>

\* The done event precedes the removal of what was replaced.
Extracted ==
  /\ pc = "extract" /\ Missing = {} /\ ~archive.unsafe
  /\ Tell("done") /\ Goto("finish") /\ UNCHANGED <<fs, dest, backup, existed>>

Finish ==
  /\ pc = "finish"
  /\ \/ (IF backup = Nowhere THEN UNCHANGED fs ELSE Put(backup, Absent)) /\ Goto("idle")
     \/ /\ CleanupFails /\ backup # Nowhere
        /\ \E left \in SUBSET fs[backup].user : Put(backup, [fs[backup] EXCEPT !.user = left])
        /\ Goto("undo")
  /\ UNCHANGED <<ui, dest, backup, existed>>

\* mutant: a failure removes the folder whoever made it
UndoAlways ==
  /\ pc = "undo" /\ Put(dest, Absent) /\ Goto("putBack")
  /\ UNCHANGED <<ui, dest, backup, existed>>

\* _restore_extract_backup: remove the destination unless it was there before, ...
Undo ==
  /\ pc = "undo" /\ Goto("putBack")
  /\ IF backup # Nowhere \/ ~existed THEN Put(dest, Absent) ELSE UNCHANGED fs
  /\ UNCHANGED <<ui, dest, backup, existed>>

ErrorEvent == IF archive.locked /\ password # "right" THEN "password" ELSE "error"
\* ... and give what was replaced its name again.
PutBack ==
  /\ pc = "putBack"
  /\ IF backup = Nowhere THEN UNCHANGED fs
     ELSE fs' = [fs EXCEPT ![dest] = fs[backup], ![backup] = Absent]
  /\ Tell(ErrorEvent) /\ Goto("idle") /\ UNCHANGED <<dest, backup, existed>>

ArNext ==
  \/ Open \/ SubmitPassword \/ Cancel
  \/ \E pol \in {"keep-both", "merge", "overwrite"} : SubmitConflict(pol)
  \/ Probe \/ Prepare \/ List \/ Extract \/ ExtractFails \/ Extracted \/ Finish
  \/ Undo \/ PutBack

ArSpec == ArInit /\ [][ArNext]_arvars

----------------------------------------------------------------------------
\* However runs fail, are killed and are started again with other answers, a
\* file of the user is on the disk, unless he agreed to have it replaced.
UserFilesSurvive ==
  \A f \in Users \ agreed :
    f \in UNION {before[p].user : p \in Paths} => f \in UNION {fs[p].user : p \in Paths}

\* The Explorer is told "done" of a destination that holds the whole archive, and
\* still does when the run has ended.
DoneIsWhole == ui = "done" => There(dest) /\ fs[dest].got = Entries

\* A run that ends with an error leaves the disk as it found it, but for a merge
\* into a directory that was there.
FailingStep ==
  pc # "idle" /\ pc' = "idle" /\ ui' \in {"error", "password", "conflict"} /\ ~existed
    => fs' = before
FailureLeavesNoTrace == [][FailingStep]_arvars

----------------------------------------------------------------------------
(* The inductive invariant of the three, if a merge is offered for directories *)
(* only and the backup of what was replaced can be removed *)

Nodes == {Absent} \cup [kind : {"file", "dir"}, user : SUBSET Users, got : SUBSET Entries]

ArTypeOK ==
  /\ fs \in [Paths -> Nodes] /\ before \in [Paths -> Nodes]
  /\ ui \in {"none", "running", "password", "conflict", "error", "done"}
  /\ pc \in {"idle", "probe", "prepare", "list", "extract", "finish", "undo", "putBack"}
  /\ policy \in {"ask", "keep-both", "merge", "overwrite"}
  /\ dest \in {Out(n) : n \in Names} /\ backup \in {Bak(n) : n \in Names} \cup {Nowhere}
  /\ existed \in BOOLEAN /\ agreed \subseteq Users /\ runs \in 0..MaxRuns

\* A run takes one new name of each kind, so that there is always one left.
Numbered ==
  \A n \in Names : dest = Out(n) \/ There(Out(n)) \/ There(Bak(n)) =>
    n <= IF pc \in {"probe", "prepare"} THEN runs ELSE runs + 1

\* Until its paths are known a run has changed nothing, and its policy is what the
\* user answered for what is there.
Begun ==
  pc \in {"probe", "prepare"} =>
    /\ fs = before /\ dest = Out(1) /\ backup = Nowhere /\ ~existed
    /\ policy = "merge" => fs[dest].kind = "dir" /\ "both" \in agreed
    /\ policy = "overwrite" => fs[dest].user \subseteq agreed

\* The destination is new, a directory that is merged into, or in the place of one
\* that has a backup; nothing else is touched.
AtWork ==
  pc \in {"list", "extract", "finish", "undo", "putBack"} =>
    /\ \A p \in Paths \ {dest, backup} : fs[p] = before[p]
    /\ backup # Nowhere \/ existed \/ before[dest] = Absent
    /\ existed => /\ backup = Nowhere /\ "both" \in agreed /\ fs[dest].kind = "dir"
                  /\ before[dest].user \ {"both"} \subseteq fs[dest].user
    /\ backup # Nowhere => /\ before[dest].user \subseteq agreed
                           /\ fs[backup] = before[dest] /\ before[backup] = Absent
    /\ pc \in {"list", "putBack"} /\ ~existed => fs[dest] = Absent
    /\ pc \in {"extract", "finish"} => fs[dest].kind = "dir"

\* What the Explorer shows goes with where the run is.
Shown ==
  /\ pc \notin {"idle", "finish"} => ui = "running"
  /\ pc = "finish" => ui = "done"

ArInv == ArTypeOK /\ Numbered /\ Begun /\ AtWork /\ Shown /\ UserFilesSurvive /\ DoneIsWhole

=============================================================================

------------------------------ MODULE FileOps ------------------------------
(***************************************************************************)
(* The Explorer's file operations (explorer_backend file-op).              *)
(*                                                                         *)
(* Each process copies or moves its sources, one after the other, into a   *)
(* directory they share.  A file or directory is a set of parts: blocks of *)
(* a file, entries of a directory.  What is written part by part can stop  *)
(* half-way, by an error or because the process is killed (the Explorer    *)
(* kills a running operation to start another); renames are atomic.  A     *)
(* replaced target is moved aside to a hidden backup, a copied file is     *)
(* staged in a hidden sibling, and both are named after the process.       *)
(***************************************************************************)
EXTENDS Integers, FiniteSets

CONSTANTS
  Ops,            \* processes
  Items,          \* sources each of them is given, with the same names
  Parts,          \* parts of a file or directory
  Modes,          \* of "copy", "move"
  Policies,       \* of "skip", "overwrite", "rename", "keep-both"
  Kinds,          \* of "file", "dir"
  Old,            \* stands for whoever made what was in the directory before
  PartialRemoval  \* may remove_dir_all fail half-way?

ASSUME FileOpsAssumption ==
  /\ Items \in Nat \ {0} /\ Old \notin Ops
  /\ Modes \subseteq {"copy", "move"} /\ Kinds \subseteq {"file", "dir"}
  /\ Policies \subseteq {"skip", "overwrite", "rename", "keep-both"}
  /\ PartialRemoval \in BOOLEAN

VARIABLES
  disk,     \* what is at each path
  mode, policy,  \* of each process, from its arguments
  at,       \* where each process is
  item,     \* the source it is at
  target    \* the path it has chosen for it

vars == <<disk, mode, policy, at, item, target>>

Copies    == 2 + Cardinality(Ops)   \* names unique_path may have to try
Source(o, i)  == <<"source", o, i>>
Target(i, n)  == <<"target", i, n>>  \* name, "name 2", "name 3", ...
Staged(o)     == <<"staged", o, 0>>
Backup(o)     == <<"backup", o, 0>>
Targets == {Target(i, n) : i \in 1..Items, n \in 1..Copies}
Paths == {Source(o, i) : o \in Ops, i \in 1..Items} \cup Targets
           \cup {Staged(o) : o \in Ops} \cup {Backup(o) : o \in Ops}

Nobody  == <<Old, 0>>
Origins == ((Ops \cup {Old}) \X (1..Items)) \cup {Nobody}
Absent  == [kind |-> "none", parts |-> [x \in Parts |-> Nobody]]
Empty(k) == [kind |-> k, parts |-> [x \in Parts |-> Nobody]]
Whole(k, by) == [kind |-> k, parts |-> [x \in Parts |-> by]]
Contents == [kind : {"none", "file", "dir"}, parts : [Parts -> Origins]]

Exists(p) == disk[p].kind # "none"
Missing(p, by) == {x \in Parts : disk[p].parts[x] # by}
Overwrites(o) == policy[o] = "overwrite"
From(o) == Source(o, item[o])
Mine(o) == <<o, item[o]>>

Init ==
  /\ mode \in [Ops -> Modes] /\ policy \in [Ops -> Policies]
  /\ at = [o \in Ops |-> "pick"] /\ item = [o \in Ops |-> 1]
  /\ target = [o \in Ops |-> Target(1, 1)]
  /\ \E kind \in [Ops \X (1..Items) -> Kinds], there \in [1..Items -> Kinds \cup {"none"}] :
       disk = [p \in Paths |->
         IF p[1] = "source" THEN Whole(kind[<<p[2], p[3]>>], <<p[2], p[3]>>)
         ELSE IF p[1] = "target" /\ p[3] = 1 /\ there[p[2]] # "none"
           THEN Whole(there[p[2]], <<Old, p[2]>>)
         ELSE Absent]

GoTo(o, where) == at' = [at EXCEPT ![o] = where]
Fail(o) == GoTo(o, "failed")
Put(p, c) == disk' = [disk EXCEPT ![p] = c]
PutPart(p, x, by) == disk' = [disk EXCEPT ![p].parts[x] = by]

\* fs::rename: a file replaces a file, a directory an empty directory.
CanRename(p, q) ==
  /\ Exists(p)
  /\ \/ ~Exists(q)
     \/ disk[p].kind = disk[q].kind /\ (disk[q].kind = "dir" => Missing(q, Nobody) = {})
Rename(p, q) == disk' = [disk EXCEPT ![q] = disk[p], ![p] = Absent]

Chosen == <<mode, policy, item, target>>

----------------------------------------------------------------------------
(* run_inner *)

\* resolve_conflict_target and unique_path: the path for the item, or none.
Choices(o) ==
  LET first == Target(item[o], 1)
      free  == {n \in 2..Copies : ~Exists(Target(item[o], n))}
  IN  IF ~Exists(first) \/ Overwrites(o) THEN {first}
      ELSE IF policy[o] = "keep-both" /\ free # {}
        THEN {Target(item[o], CHOOSE n \in free : \A m \in free : n <= m)}
      ELSE {}

Finish(o) == GoTo(o, "pick") /\ item' = [item EXCEPT ![o] = @ + 1]

\* validate_rename_policy: one new name is for one source.
Refused(o) == policy[o] = "rename" /\ Items > 1

Pick(o) ==
  /\ at[o] = "pick"
  /\ \/ item[o] > Items /\ GoTo(o, "done") /\ UNCHANGED <<item, target>>
     \/ /\ item[o] <= Items
        /\ Refused(o) \/ (Choices(o) = {} /\ policy[o] # "skip")
        /\ Fail(o) /\ UNCHANGED <<item, target>>
     \/ /\ item[o] <= Items /\ Choices(o) = {} /\ policy[o] = "skip"
        /\ Finish(o) /\ UNCHANGED target
     \/ /\ item[o] <= Items /\ ~Refused(o)
        /\ \E t \in Choices(o) : target' = [target EXCEPT ![o] = t]
        /\ GoTo(o, IF mode[o] = "move" THEN "move"
                   ELSE IF disk[From(o)].kind = "file" THEN "copy-file" ELSE "copy-dir")
        /\ UNCHANGED item
  /\ UNCHANGED <<disk, mode, policy>>

----------------------------------------------------------------------------
(* Copying *)

\* copy_regular_file_with_progress refuses a target that is there; a directory is
\* merged into a directory, staged over a file, and else built in place.
BeginCopy(o) ==
  /\ \/ /\ at[o] = "copy-file"
        /\ IF Exists(target[o]) /\ ~Overwrites(o)
             THEN Fail(o) /\ UNCHANGED disk
             ELSE GoTo(o, "stage") /\ Put(Staged(o), Empty("file"))
     \/ /\ at[o] = "copy-dir"
        /\ IF Overwrites(o) /\ disk[target[o]].kind = "file"
             THEN GoTo(o, "stage") /\ Put(Staged(o), Empty("dir"))
           ELSE IF disk[target[o]].kind = "file" THEN Fail(o) /\ UNCHANGED disk
           ELSE GoTo(o, "build")
                /\ IF Exists(target[o]) THEN UNCHANGED disk ELSE Put(target[o], Empty("dir"))
  /\ UNCHANGED Chosen

\* The stream ended without an error: everything was read, written and synced.
StagedWhole(o) == at[o] = "stage" /\ Missing(Staged(o), Mine(o)) = {}

\* One part is written to the staged copy, or the copy fails and is removed.
Stage(o) ==
  /\ at[o] = "stage"
  /\ \/ \E x \in Missing(Staged(o), Mine(o)) : PutPart(Staged(o), x, Mine(o)) /\ UNCHANGED at
     \/ StagedWhole(o) /\ UNCHANGED disk
        /\ GoTo(o, IF Exists(target[o]) THEN "aside" ELSE "publish")
     \/ Put(Staged(o), Absent) /\ Fail(o)
  /\ UNCHANGED Chosen

\* An entry of a directory is written in place: an overwriting copy replaces an
\* entry, any other removes what is in its place first.
PutEntry(o) ==
  /\ disk[target[o]].kind = disk[From(o)].kind
  /\ \E x \in Missing(target[o], Mine(o)) :
       PutPart(target[o], x,
         IF (at[o] = "build" /\ Overwrites(o)) \/ disk[target[o]].parts[x] = Nobody THEN Mine(o)
         ELSE Nobody)

\* copy_dir_recursive and, onto a directory, copy_dir_recursive_overwrite: what was
\* built stays when an entry fails.
Build(o) ==
  /\ at[o] = "build"
  /\ \/ PutEntry(o) /\ UNCHANGED <<at, item>>
     \/ Missing(target[o], Mine(o)) = {} /\ Finish(o) /\ UNCHANGED disk
     \/ Fail(o) /\ UNCHANGED <<disk, item>>
  /\ UNCHANGED <<mode, policy, target>>

----------------------------------------------------------------------------
(* Replacing a target *)

\* mutant: the old target is removed, not moved aside
RemoveFirst(o) == Put(target[o], Absent)

\* move_existing_aside
MoveAside(o) == Rename(target[o], Backup(o))

Aside(o) ==
  /\ at[o] \in {"aside", "move-aside"}
  /\ \/ /\ IF Exists(target[o]) THEN MoveAside(o) ELSE UNCHANGED disk
        /\ GoTo(o, IF at[o] = "aside" THEN "publish" ELSE "rename")
     \/ Exists(target[o]) /\ UNCHANGED disk /\ Fail(o)
  /\ UNCHANGED Chosen

\* mutant: the old target does not come back
ForgetBackup(o) == disk' = [disk EXCEPT ![target[o]] = Absent, ![Staged(o)] = Absent]

\* restore_backup, after something was put at the target that must go, and the
\* removal of the staged copy.
Restore(o) ==
  disk' = IF Exists(Backup(o))
            THEN [disk EXCEPT ![target[o]] = disk[Backup(o)], ![Backup(o)] = Absent,
                              ![Staged(o)] = Absent]
            ELSE [disk EXCEPT ![Staged(o)] = Absent]

\* publish_staged_path
Publish(o) ==
  /\ at[o] = "publish"
  /\ \/ CanRename(Staged(o), target[o]) /\ Rename(Staged(o), target[o]) /\ GoTo(o, "discard")
     \/ Restore(o) /\ Fail(o)
  /\ UNCHANGED Chosen

\* discard_backup, part by part when it is a directory
Discard(o) ==
  /\ at[o] = "discard"
  /\ \/ ~Exists(Backup(o)) /\ Finish(o) /\ UNCHANGED disk
     \/ disk[Backup(o)].kind = "file" /\ Put(Backup(o), Absent) /\ Finish(o)
     \/ /\ disk[Backup(o)].kind = "dir"
        /\ IF \A x \in Parts : disk[Backup(o)].parts[x] = Nobody
             THEN Put(Backup(o), Absent) /\ Finish(o)
             ELSE /\ \E x \in Parts : disk[Backup(o)].parts[x] # Nobody
                                      /\ PutPart(Backup(o), x, Nobody)
                  /\ UNCHANGED <<at, item>>
     \/ Exists(Backup(o)) /\ Fail(o) /\ UNCHANGED <<disk, item>>
  /\ UNCHANGED <<mode, policy, target>>

----------------------------------------------------------------------------
(* move_path *)

BeginMove(o) ==
  /\ at[o] = "move"
  /\ GoTo(o, IF ~Overwrites(o) THEN "rename"
             ELSE IF disk[From(o)].kind = "dir" /\ disk[target[o]].kind = "dir" THEN "move-entries"
             ELSE "move-aside")
  /\ UNCHANGED <<disk, Chosen>>

\* A rename, or, between file systems, a copy in place of the target.
MoveByRename(o) ==
  /\ at[o] = "rename"
  /\ \/ CanRename(From(o), target[o]) /\ Rename(From(o), target[o]) /\ GoTo(o, "discard")
     \/ IF Exists(target[o]) /\ disk[From(o)].kind = "file"
          THEN Restore(o) /\ Fail(o)
          ELSE /\ GoTo(o, "move-copy")
               /\ IF Exists(target[o]) THEN UNCHANGED disk
                                       ELSE Put(target[o], Empty(disk[From(o)].kind))
  /\ UNCHANGED Chosen

\* copy_path(source, target, false)
MoveCopy(o) ==
  /\ at[o] = "move-copy"
  /\ \/ PutEntry(o) /\ UNCHANGED at
     \/ Missing(target[o], Mine(o)) = {} /\ GoTo(o, "move-remove") /\ UNCHANGED disk
     \/ Restore(o) /\ Fail(o)
  /\ UNCHANGED Chosen

\* mutant: the source goes while it is copied
RemoveEarly(o) == at[o] \in {"move-copy", "move-remove"}

\* The source is removed when the copy is complete.
MayRemove(o) == at[o] = "move-remove"

\* remove_existing(source); when it fails the copy is removed and the backup restored.
RemoveSource(o) ==
  /\ MayRemove(o)
  /\ \/ /\ disk[From(o)].kind = "file" \/ Missing(From(o), Nobody) = {}
        /\ Put(From(o), Absent) /\ GoTo(o, "discard")
     \/ /\ disk[From(o)].kind = "dir"
        /\ \E x \in Missing(From(o), Nobody) : PutPart(From(o), x, Nobody)
        /\ UNCHANGED at
     \/ /\ Missing(From(o), Mine(o)) = {} \/ PartialRemoval
        /\ disk' = IF Exists(Backup(o))
                     THEN [disk EXCEPT ![target[o]] = disk[Backup(o)], ![Backup(o)] = Absent]
                     ELSE [disk EXCEPT ![target[o]] = Absent]
        /\ Fail(o)
  /\ UNCHANGED Chosen

\* move_dir_recursive_overwrite: entry by entry, then the empty source goes.
MoveEntries(o) ==
  /\ at[o] = "move-entries"
  /\ \/ \E x \in Missing(From(o), Nobody) :
          /\ disk[target[o]].kind = "dir"
          /\ disk' = [disk EXCEPT ![target[o]].parts[x] = disk[From(o)].parts[x],
                                  ![From(o)].parts[x] = Nobody]
          /\ UNCHANGED <<at, item>>
     \/ Missing(From(o), Nobody) = {} /\ Put(From(o), Absent) /\ Finish(o)
     \/ Fail(o) /\ UNCHANGED <<disk, item>>
  /\ UNCHANGED <<mode, policy, target>>

----------------------------------------------------------------------------

Step(o) ==
  \/ Pick(o)
  \/ BeginCopy(o)
  \/ Stage(o)
  \/ Build(o)
  \/ Aside(o)
  \/ Publish(o)
  \/ Discard(o)
  \/ BeginMove(o)
  \/ MoveByRename(o)
  \/ MoveCopy(o)
  \/ RemoveSource(o)
  \/ MoveEntries(o)

Ended == {"done", "failed", "killed"}

Kill(o) ==
  /\ at[o] \notin Ended
  /\ GoTo(o, "killed")
  /\ UNCHANGED <<disk, Chosen>>

Next == \E o \in Ops : Step(o) \/ Kill(o)

Spec == Init /\ [][Next]_vars

----------------------------------------------------------------------------
(* Properties *)

TypeOK ==
  /\ disk \in [Paths -> Contents]
  /\ mode \in [Ops -> Modes] /\ policy \in [Ops -> Policies]
  /\ at \in [Ops -> Ended \cup {"pick", "copy-file", "copy-dir", "stage", "build",
                               "aside", "move-aside", "publish", "discard", "move", "rename",
                               "move-copy", "move-remove", "move-entries"}]
  /\ item \in [Ops -> 1..(Items + 1)]
  /\ target \in [Ops -> Targets]

Somewhere(by, x) == \E p \in Paths : disk[p].parts[x] = by

\* Whatever fails and whenever the process is killed, every part of every source is
\* still on the disk, at the source, at the target or in a hidden sibling.
SourcesSurvive == \A o \in Ops, i \in 1..Items, x \in Parts : Somewhere(<<o, i>>, x)

\* What an operation replaces stays on the disk until its replacement is in place:
\* no kill can fall into a moment at which both versions of a part are gone.
OldUntilNew ==
  \A i \in 1..Items, x \in Parts :
    Somewhere(<<Old, i>>, x) /\ ~Somewhere(<<Old, i>>, x)'
      => \E o \in Ops : disk'[Target(i, 1)].parts[x] = <<o, i>>

\* After an overwriting operation fails, the target has everything that was there or
\* everything that was to come; only merged directories can be a mixture of both.
FailureRestores ==
  \A o \in Ops :
    LET there == disk[target[o]]
    IN  at[o] = "failed" /\ Overwrites(o) /\ (\E x \in Parts : Somewhere(<<Old, item[o]>>, x))
          => /\ \A x \in Parts : there.parts[x] \in {<<Old, item[o]>>, Mine(o)}
             /\ there.kind = "file" => Cardinality({there.parts[x] : x \in Parts}) = 1

\* A regular file that is copied appears under its name whole or not at all.
CopiesAppearWhole ==
  \A t \in Targets : disk[t].kind = "file" /\ (\A o \in Ops : mode[o] = "copy") =>
     \E by \in Origins \ {Nobody} : \A x \in Parts : disk[t].parts[x] = by

\* Unless told to overwrite, a process leaves alone what it finds in the directory.
ExistingIsKept ==
  \A o \in Ops, t \in Targets :
    Step(o) /\ ~Overwrites(o) /\ Exists(t)
      => \A x \in Parts : disk[t].parts[x] \in {disk'[t].parts[x], Mine(o), Nobody}

\* No step replaces what it should not, or replaces it too early.
ReplacingIsSafe == [][OldUntilNew /\ ExistingIsKept]_vars

\* Targets are never left in a state nobody asked for: not by a failure, and not
\* by a copy that has only begun.
TargetsAreSound == TypeOK /\ FailureRestores /\ CopiesAppearWhole
=============================================================================

--------------------------- MODULE FileOps_proofs ---------------------------
(***************************************************************************)
(* Proofs about FileOps for one process, any number of items and any parts.*)
(*                                                                         *)
(* Inv follows the item the process is at through the phases of an         *)
(* operation: which of source, target, staged copy and backup is whole,    *)
(* and where what was under the item's name is.  Effect says what every    *)
(* step leaves alone, so that each action is looked at on the four paths   *)
(* of Here only; CopyOK and MoveOK say what is then left to show.          *)
(***************************************************************************)
EXTENDS FileOps, FiniteSetTheorems, TLAPS

(* The inductive invariant *)

Copying == {"copy-file", "copy-dir", "stage", "build", "aside", "publish"}
Moving  == {"move", "move-aside", "rename", "move-copy", "move-remove", "move-entries"}
Busy    == Copying \cup Moving \cup {"discard"}
\* The target is as it was found.
Early   == {"pick", "copy-file", "copy-dir", "stage", "aside", "move", "move-aside"}
\* The source may be gone.
Late    == {"move-remove", "move-entries", "discard"} \cup Ended
Where   == Busy \cup Ended \cup {"pick"}

OldOf(o) == <<Old, item[o]>>
AllOf(p, by) == \A x \in Parts : disk[p].parts[x] = by
OneOf(p, S)  == \A x \in Parts : disk[p].parts[x] \in S
OldGone(i)   == \A x \in Parts : ~Somewhere(<<Old, i>>, x)

\* What is at a path that held the old target, if there was one.
OldAt(p, i)  == IF Exists(p) THEN AllOf(p, <<Old, i>>) ELSE OldGone(i)

SourceWhole(o, i) == Exists(Source(o, i)) /\ AllOf(Source(o, i), <<o, i>>)
\* Every part of the source is at the source or under one of its names.
Kept(o, i) ==
  PartialRemoval \/ \A x \in Parts :
    \/ disk[Source(o, i)].parts[x] = <<o, i>>
    \/ \E n \in 1..Copies : disk[Target(i, n)].parts[x] = <<o, i>>

Clean == \A p \in Paths : ~Exists(p) => disk[p] = Absent

Places(o) ==
  /\ \A i \in 1..Items : OneOf(Source(o, i), {<<o, i>>, Nobody})
  /\ \A i \in 1..Items, n \in 1..Copies : OneOf(Target(i, n), {<<Old, i>>, <<o, i>>, Nobody})
  /\ OneOf(Staged(o), ({o} \X (1..Items)) \cup {Nobody})

Control(o) ==
  at[o] \in Busy =>
    /\ item[o] <= Items
    /\ \E n \in 1..Copies : target[o] = Target(item[o], n)
    /\ Overwrites(o) => target[o] = Target(item[o], 1)
    /\ at[o] \in Copying => mode[o] = "copy"
    /\ at[o] \in Moving => mode[o] = "move"
    /\ at[o] = "move-entries" => Overwrites(o)

\* The paths an overwriting process works on
Overwriting(o) ==
  /\ at[o] \in {"publish", "rename", "move-copy", "move-remove"} => OldAt(Backup(o), item[o])
  /\ at[o] \in {"build", "move-entries"} =>
       OneOf(target[o], {OldOf(o), Mine(o)}) \/ OldGone(item[o])

\* and those of any other
Adding(o) ==
  /\ ~Exists(Backup(o)) /\ OneOf(target[o], {Mine(o), Nobody})
  /\ at[o] \in Early => ~Exists(target[o])

Phase(o) ==
  /\ at[o] \in Early \cup {"build", "move-entries"} => ~Exists(Backup(o))
  /\ at[o] \in {"publish", "rename"} => ~Exists(target[o])
  /\ at[o] \in {"stage", "aside", "publish"} => Exists(Staged(o))
  /\ at[o] \in {"aside", "publish"} => AllOf(Staged(o), Mine(o))
  /\ at[o] \in {"copy-dir", "build"} => disk[From(o)].kind = "dir"
  /\ at[o] \in {"build", "move-entries"} => disk[target[o]].kind = "dir"
  /\ at[o] = "move-copy" => OneOf(target[o], {Mine(o), Nobody})
  /\ at[o] \in {"move-remove", "discard"} => AllOf(target[o], Mine(o))
  /\ at[o] = "discard" => OneOf(Backup(o), {OldOf(o), Nobody})
  /\ at[o] \in Busy => IF Overwrites(o) THEN Overwriting(o) ELSE Adding(o)

Restored(o) ==
  at[o] = "failed" /\ Overwrites(o) /\ ~OldGone(item[o]) =>
    /\ OneOf(target[o], {OldOf(o), Mine(o)})
    /\ disk[target[o]].kind = "file" => AllOf(target[o], OldOf(o)) \/ AllOf(target[o], Mine(o))

\* The item a process is at, those before and those after it.
Now(o) ==
  /\ Kept(o, item[o])
  /\ mode[o] = "copy" \/ at[o] \notin Late => SourceWhole(o, item[o])
  /\ at[o] \in Early => OldAt(Target(item[o], 1), item[o])
  /\ Phase(o) /\ Restored(o)

Past(o, i)   == Kept(o, i) /\ (mode[o] = "copy" => SourceWhole(o, i))
Future(o, i) == Kept(o, i) /\ SourceWhole(o, i) /\ OldAt(Target(i, 1), i)

WholeFile(t) ==
  disk[t].kind = "file" => \E by \in Origins \ {Nobody} : AllOf(t, by)

Inv(o) ==
  /\ TypeOK /\ Clean /\ Places(o) /\ Control(o)
  /\ mode[o] = "copy" => \A t \in Targets : WholeFile(t)
  /\ item[o] > Items => ~Exists(Backup(o)) /\ at[o] \in {"pick", "done", "killed"}
  /\ item[o] <= Items => Now(o) /\ at[o] # "done"
  /\ \A i \in 1..Items : (i < item[o] => Past(o, i)) /\ (i > item[o] => Future(o, i))

USE FileOpsAssumption

----------------------------------------------------------------------------
(* Paths and origins *)

\* A source, a name in the directory, the staged copy and the backup are different paths.
LEMMA PathsDiffer ==
  ASSUME NEW o, NEW i, NEW j, NEW n, NEW m
  PROVE  /\ Source(o, i) # Target(j, n) /\ Source(o, i) # Staged(o) /\ Source(o, i) # Backup(o)
         /\ Target(j, n) # Staged(o) /\ Target(j, n) # Backup(o) /\ Staged(o) # Backup(o)
         /\ i # j => Source(o, i) # Source(o, j) /\ Target(i, n) # Target(j, m)
BY DEF Source, Target, Staged, Backup

\* Parts of different sources, of different old targets and of nobody are told apart.
LEMMA OriginsDiffer ==
  ASSUME NEW o \in Ops, NEW i \in 1..Items, NEW j \in 1..Items
  PROVE  /\ <<o, i>> # <<Old, j>> /\ <<o, i>> # Nobody /\ <<Old, j>> # Nobody
         /\ i # j => <<o, i>> # <<o, j>> /\ <<Old, i>> # <<Old, j>>
         /\ <<o, i>> \in Origins /\ <<Old, i>> \in Origins /\ Nobody \in Origins
BY DEF Nobody, Origins

\* With one process there are three names to try, and these paths.
LEMMA OneProcess ==
  ASSUME NEW o, Ops = {o}
  PROVE  /\ Copies = 3
         /\ Paths = {Source(o, i) : i \in 1..Items} \cup Targets \cup {Staged(o), Backup(o)}
<1>1. Cardinality(Ops) = 1
  BY FS_Singleton
<1>2. QED BY <1>1 DEF Copies, Paths

\* The paths are those of the items, the staged copy and the backup.
LEMMA PathsAre ==
  ASSUME NEW o, Ops = {o}
  PROVE  /\ \A i \in 1..Items : Source(o, i) \in Paths
         /\ \A i \in 1..Items, n \in 1..Copies : Target(i, n) \in Paths /\ Target(i, n) \in Targets
         /\ Staged(o) \in Paths /\ Backup(o) \in Paths
         /\ \A p \in Paths : \/ \E i \in 1..Items : p = Source(o, i)
                             \/ \E i \in 1..Items, n \in 1..Copies : p = Target(i, n)
                             \/ p = Staged(o) \/ p = Backup(o)
BY OneProcess DEF Targets

\* What Absent, Empty and Whole are made of.
LEMMA ContentTypes ==
  /\ Absent \in Contents /\ Absent.kind = "none" /\ \A x \in Parts : Absent.parts[x] = Nobody
  /\ \A k \in {"file", "dir"} : /\ Empty(k) \in Contents /\ Empty(k).kind = k
                               /\ \A x \in Parts : Empty(k).parts[x] = Nobody
  /\ \A k \in {"file", "dir"}, by \in Origins :
       /\ Whole(k, by) \in Contents /\ Whole(k, by).kind = k
       /\ \A x \in Parts : Whole(k, by).parts[x] = by
BY DEF Absent, Contents, Empty, Whole, Origins, Nobody

----------------------------------------------------------------------------
(* What a step does to the disk *)

\* The paths a process works on
Here(o) == {From(o), target[o], Staged(o), Backup(o)}

\* Nothing else changes, and every part that is written was read somewhere.
Effect(o) ==
  /\ disk' \in [Paths -> Contents] /\ Clean'
  /\ \A p \in Paths \ Here(o) : disk'[p] = disk[p]
  /\ \A p \in Paths, x \in Parts :
       \/ disk'[p].parts[x] \in {Mine(o), Nobody}
       \/ \E q \in Paths : disk'[p].parts[x] = disk[q].parts[x]

DiskOK == disk \in [Paths -> Contents] /\ Clean

\* A step that leaves the disk alone has the effect of one.
LEMMA SameEffect ==
  ASSUME DiskOK, NEW o, disk' = disk PROVE Effect(o)
BY DEF DiskOK, Effect, Clean, Exists

\* Put makes or removes one path.
LEMMA PutEffect ==
  ASSUME DiskOK, NEW o, NEW p \in Paths, p \in Here(o), NEW c, Put(p, c),
         c = Absent \/ c = Empty("file") \/ c = Empty("dir")
  PROVE  /\ Effect(o) /\ disk'[p] = c
         /\ \A q \in Paths \ {p} : disk'[q] = disk[q]
<1>1. /\ c \in Contents /\ \A x \in Parts : c.parts[x] = Nobody
      /\ c.kind = "none" => c = Absent
  BY ContentTypes
<1>2. /\ disk' \in [Paths -> Contents] /\ disk'[p] = c
      /\ \A q \in Paths \ {p} : disk'[q] = disk[q]
  BY <1>1 DEF Put, DiskOK
<1>3. QED BY <1>1, <1>2 DEF Effect, DiskOK, Clean, Exists

\* PutPart changes one part of one path.
LEMMA PutPartEffect ==
  ASSUME DiskOK, NEW o \in Ops, item[o] \in 1..Items, NEW p \in Paths, p \in Here(o), Exists(p),
         NEW x \in Parts, NEW by \in {Mine(o), Nobody}, PutPart(p, x, by)
  PROVE  /\ Effect(o)
         /\ \A q \in Paths \ {p} : disk'[q] = disk[q]
         /\ disk'[p].kind = disk[p].kind
         /\ \A y \in Parts : disk'[p].parts[y] = IF y = x THEN by ELSE disk[p].parts[y]
<1>1. disk[p] \in Contents /\ by \in Origins
  BY OriginsDiffer DEF DiskOK, Mine
<1>2. /\ disk' \in [Paths -> Contents]
      /\ \A q \in Paths \ {p} : disk'[q] = disk[q]
      /\ disk'[p].kind = disk[p].kind
      /\ \A y \in Parts : disk'[p].parts[y] = IF y = x THEN by ELSE disk[p].parts[y]
  BY <1>1 DEF PutPart, DiskOK, Contents
<1>3. QED BY <1>2 DEF Effect, DiskOK, Clean, Exists

\* Rename moves what is at one path to another.
LEMMA RenameEffect ==
  ASSUME DiskOK, NEW o, NEW p \in Paths, NEW q \in Paths, p # q, p \in Here(o), q \in Here(o),
         Rename(p, q)
  PROVE  /\ Effect(o) /\ disk'[q] = disk[p] /\ disk'[p] = Absent
         /\ \A r \in Paths \ {p, q} : disk'[r] = disk[r]
<1>1. /\ disk' \in [Paths -> Contents] /\ disk'[q] = disk[p] /\ disk'[p] = Absent
      /\ \A r \in Paths \ {p, q} : disk'[r] = disk[r]
  BY ContentTypes DEF Rename, DiskOK
<1>2. QED BY <1>1, ContentTypes DEF Effect, DiskOK, Clean, Exists

\* Restore puts the backup, if there is one, at the target and removes the staged copy.
LEMMA RestoreEffect ==
  ASSUME DiskOK, NEW o, Ops = {o}, target[o] \in Targets, Restore(o)
  PROVE  /\ Effect(o) /\ disk'[Staged(o)] = Absent /\ disk'[Backup(o)] = Absent
         /\ disk'[target[o]] = IF Exists(Backup(o)) THEN disk[Backup(o)] ELSE disk[target[o]]
         /\ \A p \in Paths \ {target[o], Staged(o), Backup(o)} : disk'[p] = disk[p]
<1>1. /\ Staged(o) \in Paths /\ Backup(o) \in Paths /\ target[o] \in Paths
      /\ target[o] # Staged(o) /\ target[o] # Backup(o) /\ Staged(o) # Backup(o)
  BY PathsAre, PathsDiffer DEF Targets
<1>2. /\ disk' \in [Paths -> Contents] /\ disk'[Staged(o)] = Absent /\ disk'[Backup(o)] = Absent
      /\ disk'[target[o]] = IF Exists(Backup(o)) THEN disk[Backup(o)] ELSE disk[target[o]]
      /\ \A p \in Paths \ {target[o], Staged(o), Backup(o)} : disk'[p] = disk[p]
  BY <1>1, ContentTypes DEF Restore, DiskOK, Clean
<1>3. QED BY <1>1, <1>2, ContentTypes DEF Effect, DiskOK, Clean, Exists, Here

----------------------------------------------------------------------------
(* Items a process is not at *)

\* What a busy process works on
LEMMA BusyFacts ==
  ASSUME NEW o, Ops = {o}, Inv(o), at[o] \in Busy
  PROVE  /\ o \in Ops /\ item[o] \in 1..Items /\ DiskOK /\ TypeOK /\ Now(o) /\ Control(o)
         /\ From(o) \in Paths /\ target[o] \in Paths /\ Staged(o) \in Paths /\ Backup(o) \in Paths
         /\ target[o] \in Targets /\ \E n \in 1..Copies : target[o] = Target(item[o], n)
         /\ From(o) # target[o] /\ From(o) # Staged(o) /\ From(o) # Backup(o)
         /\ target[o] # Staged(o) /\ target[o] # Backup(o) /\ Staged(o) # Backup(o)
         /\ Mine(o) # Nobody /\ OldOf(o) # Nobody /\ Mine(o) # OldOf(o)
         /\ OneOf(From(o), {Mine(o), Nobody})
         /\ OneOf(target[o], {OldOf(o), Mine(o), Nobody})
<1>1. /\ o \in Ops /\ item[o] \in 1..Items /\ DiskOK /\ TypeOK /\ Now(o) /\ Control(o)
      /\ \E n \in 1..Copies : target[o] = Target(item[o], n)
  BY DEF Inv, Control, TypeOK, DiskOK
<1>2. PICK n \in 1..Copies : target[o] = Target(item[o], n)
  BY <1>1
<1>3. /\ From(o) \in Paths /\ target[o] \in Paths /\ Staged(o) \in Paths /\ Backup(o) \in Paths
      /\ target[o] \in Targets
  <2>1. From(o) \in Paths
    BY <1>1, PathsAre DEF From
  <2>2. target[o] \in Paths /\ target[o] \in Targets
    BY <1>1, <1>2, PathsAre
  <2>3. QED BY <2>1, <2>2, PathsAre
<1>4. /\ From(o) # target[o] /\ From(o) # Staged(o) /\ From(o) # Backup(o)
      /\ target[o] # Staged(o) /\ target[o] # Backup(o) /\ Staged(o) # Backup(o)
  BY <1>2, PathsDiffer DEF From
<1>5. Mine(o) # Nobody /\ OldOf(o) # Nobody /\ Mine(o) # OldOf(o)
  BY <1>1, OriginsDiffer DEF Mine, OldOf
<1>6. /\ OneOf(From(o), {Mine(o), Nobody})
      /\ OneOf(target[o], {OldOf(o), Mine(o), Nobody})
  BY <1>1, <1>2 DEF Inv, Places, Mine, OldOf, From
<1>7. QED BY <1>1, <1>2, <1>3, <1>4, <1>5, <1>6

\* No step brings back an old target of which nothing is left.
LEMMA OldGoneKept ==
  ASSUME NEW o \in Ops, Effect(o), NEW i \in 1..Items, OldGone(i) PROVE OldGone(i)'
<1>1. <<Old, i>> # Mine(o) /\ <<Old, i>> # Nobody
  BY DEF Mine, Nobody
<1>2. ASSUME NEW x \in Parts, NEW p \in Paths, disk'[p].parts[x] = <<Old, i>> PROVE FALSE
  <2>1. PICK q \in Paths : disk'[p].parts[x] = disk[q].parts[x]
    BY <1>1, <1>2 DEF Effect
  <2>2. disk[q].parts[x] = <<Old, i>>
    BY <1>2, <2>1
  <2>3. QED BY <2>2 DEF OldGone, Somewhere
<1>3. QED BY <1>2 DEF OldGone, Somewhere

\* Nothing changes for the items the process is not at.
LEMMA OthersKept ==
  ASSUME NEW o, Ops = {o}, Inv(o), at[o] \in Busy, Effect(o), UNCHANGED mode,
         NEW i \in 1..Items, i # item[o]
  PROVE  /\ Past(o, i) => Past(o, i)'
         /\ Future(o, i) => Future(o, i)'
         /\ OneOf(Source(o, i), {<<o, i>>, Nobody})'
         /\ \A n \in 1..Copies : OneOf(Target(i, n), {<<Old, i>>, <<o, i>>, Nobody})'
         /\ mode[o] = "copy" => \A n \in 1..Copies : WholeFile(Target(i, n))'
<1>1. PICK n \in 1..Copies : target[o] = Target(item[o], n)
  BY BusyFacts
<1>2. Source(o, i) \in Paths /\ \A m \in 1..Copies : Target(i, m) \in Paths /\ Target(i, m) \in Targets
  BY PathsAre
<1>3. Source(o, i) \notin Here(o) /\ \A m \in 1..Copies : Target(i, m) \notin Here(o)
  BY <1>1, PathsDiffer DEF Here, From
<1>4. /\ disk'[Source(o, i)] = disk[Source(o, i)]
      /\ \A m \in 1..Copies : disk'[Target(i, m)] = disk[Target(i, m)]
  BY <1>2, <1>3 DEF Effect
<1>5. OldGone(i) => OldGone(i)'
  BY BusyFacts, OldGoneKept
<1>6. 1 \in 1..Copies
  BY OneProcess
<1>7. Kept(o, i) => Kept(o, i)'
  BY <1>4 DEF Kept
<1>8. SourceWhole(o, i) => SourceWhole(o, i)'
  BY <1>4 DEF SourceWhole, Exists, AllOf
<1>9. OldAt(Target(i, 1), i) => OldAt(Target(i, 1), i)'
  BY <1>4, <1>5, <1>6 DEF OldAt, Exists, AllOf
<1>10. /\ OneOf(Source(o, i), {<<o, i>>, Nobody})'
       /\ \A m \in 1..Copies : OneOf(Target(i, m), {<<Old, i>>, <<o, i>>, Nobody})'
  BY <1>4 DEF Inv, Places, OneOf
<1>11. mode[o] = "copy" => \A m \in 1..Copies : WholeFile(Target(i, m))'
  BY <1>2, <1>4 DEF Inv, WholeFile, AllOf
<1>12. QED BY <1>7, <1>8, <1>9, <1>10, <1>11 DEF Past, Future

\* Of the item a process is at, only the target changes.
LEMMA NamesKept ==
  ASSUME NEW o, Ops = {o}, Inv(o), at[o] \in Busy, Effect(o),
         NEW n \in 1..Copies, Target(item[o], n) # target[o]
  PROVE  disk'[Target(item[o], n)] = disk[Target(item[o], n)]
<1>1. Target(item[o], n) \in Paths
  BY BusyFacts, PathsAre
<1>2. Target(item[o], n) \notin Here(o)
  BY PathsDiffer DEF Here, From
<1>3. QED BY <1>1, <1>2 DEF Effect

\* What the step does to the paths it works on decides the invariant.
LEMMA PlacesOK ==
  ASSUME NEW o, Ops = {o}, Inv(o), at[o] \in Busy, Effect(o), UNCHANGED <<mode, policy, target>>,
         \A x \in Parts : /\ disk'[From(o)].parts[x] \in {Mine(o), Nobody}
                          /\ disk'[target[o]].parts[x] \in {OldOf(o), Mine(o), Nobody}
                          /\ disk'[Staged(o)].parts[x] \in ({o} \X (1..Items)) \cup {Nobody},
         mode[o] = "copy" => WholeFile(target[o])'
  PROVE  /\ Places(o)'
         /\ mode'[o] = "copy" => \A t \in Targets : WholeFile(t)'
<1>0. PICK i \in 1..Items : i = item[o]
  BY BusyFacts
<1>1. \A n \in 1..Copies : disk'[Target(i, n)] = disk[Target(i, n)] \/ Target(i, n) = target[o]
  BY <1>0, NamesKept
<1>2. \A n \in 1..Copies : OneOf(Target(i, n), {<<Old, i>>, <<o, i>>, Nobody})'
  <2>1. \A n \in 1..Copies : OneOf(Target(i, n), {<<Old, i>>, <<o, i>>, Nobody})
    BY DEF Inv, Places
  <2>2. ASSUME NEW n \in 1..Copies, NEW x \in Parts
        PROVE  disk'[Target(i, n)].parts[x] \in {<<Old, i>>, <<o, i>>, Nobody}
    BY <1>0, <1>1, <2>1 DEF OneOf, OldOf, Mine
  <2>3. QED BY <2>2 DEF OneOf
<1>3. OneOf(Source(o, i), {<<o, i>>, Nobody})'
  BY <1>0 DEF OneOf, From, Mine
<1>4. mode[o] = "copy" => \A n \in 1..Copies : WholeFile(Target(i, n))'
  <2>1. mode[o] = "copy" => \A n \in 1..Copies : WholeFile(Target(i, n))
    BY BusyFacts, PathsAre DEF Inv
  <2>2. SUFFICES ASSUME mode[o] = "copy", NEW n \in 1..Copies PROVE WholeFile(Target(i, n))'
    OBVIOUS
  <2>3. CASE disk'[Target(i, n)] = disk[Target(i, n)]
    BY <2>1, <2>2, <2>3 DEF WholeFile, AllOf
  <2>4. CASE Target(i, n) = target[o]
    BY <2>2, <2>4 DEF WholeFile, AllOf
  <2>5. QED BY <1>1, <2>3, <2>4
<1>5. \A j \in 1..Items : /\ OneOf(Source(o, j), {<<o, j>>, Nobody})'
                          /\ \A n \in 1..Copies : OneOf(Target(j, n), {<<Old, j>>, <<o, j>>, Nobody})'
                          /\ mode[o] = "copy" => \A n \in 1..Copies : WholeFile(Target(j, n))'
  <2> SUFFICES ASSUME NEW j \in 1..Items
               PROVE  /\ OneOf(Source(o, j), {<<o, j>>, Nobody})'
                      /\ \A n \in 1..Copies : OneOf(Target(j, n), {<<Old, j>>, <<o, j>>, Nobody})'
                      /\ mode[o] = "copy" => \A n \in 1..Copies : WholeFile(Target(j, n))'
    OBVIOUS
  <2>1. CASE j = i
    BY <1>2, <1>3, <1>4, <2>1
  <2>2. CASE j # i
    BY <1>0, <2>2, OthersKept
  <2>3. QED BY <2>1, <2>2
<1>6. OneOf(Staged(o), ({o} \X (1..Items)) \cup {Nobody})'
  BY DEF OneOf
<1>7. mode[o] = "copy" => \A t \in Targets : WholeFile(t)'
  <2>1. SUFFICES ASSUME mode[o] = "copy", NEW t \in Targets PROVE WholeFile(t)'
    OBVIOUS
  <2>2. PICK j \in 1..Items, n \in 1..Copies : t = Target(j, n)
    BY DEF Targets
  <2>3. QED BY <1>5, <2>1, <2>2
<1>8. QED BY <1>5, <1>6, <1>7 DEF Places

\* GoTo moves the only process there is.
LEMMA GoToIs ==
  ASSUME TypeOK, NEW o, Ops = {o}, NEW w \in Where, GoTo(o, w)
  PROVE  at' \in [Ops -> Where] /\ at'[o] = w
<1>1. DOMAIN at = {o}
  BY DEF TypeOK
<1>2. at' = [at EXCEPT ![o] = w]
  BY DEF GoTo
<1>3. QED BY <1>1, <1>2

\* The process stays at its item,
LEMMA StayOK ==
  ASSUME NEW o, Ops = {o}, Inv(o), at[o] \in Busy, Effect(o), UNCHANGED Chosen,
         at' \in [Ops -> Where],
         \A x \in Parts : /\ disk'[From(o)].parts[x] \in {Mine(o), Nobody}
                          /\ disk'[target[o]].parts[x] \in {OldOf(o), Mine(o), Nobody}
                          /\ disk'[Staged(o)].parts[x] \in ({o} \X (1..Items)) \cup {Nobody},
         mode[o] = "copy" => WholeFile(target[o])',
         at'[o] # "done", Control(o)', Now(o)'
  PROVE  Inv(o)'
<1>1. item[o] \in 1..Items
  BY BusyFacts
<1>2. /\ Places(o)'
      /\ mode'[o] = "copy" => \A t \in Targets : WholeFile(t)'
  BY PlacesOK DEF Chosen
<1>3. \A i \in 1..Items : (i < item'[o] => Past(o, i)') /\ (i > item'[o] => Future(o, i)')
  <2> SUFFICES ASSUME NEW i \in 1..Items
               PROVE  (i < item'[o] => Past(o, i)') /\ (i > item'[o] => Future(o, i)')
    OBVIOUS
  <2>1. i # item[o] => (Past(o, i) => Past(o, i)') /\ (Future(o, i) => Future(o, i)')
    BY OthersKept DEF Chosen
  <2>2. (i < item[o] => Past(o, i)) /\ (i > item[o] => Future(o, i))
    BY DEF Inv
  <2>3. QED BY <1>1, <2>1, <2>2 DEF Chosen
<1>4. item'[o] <= Items
  BY <1>1 DEF Chosen
<1>5. TypeOK' /\ Clean'
  BY BusyFacts DEF TypeOK, Effect, Chosen, Where, Busy, Copying, Moving, Ended
<1>6. item'[o] \in Nat /\ ~(item'[o] > Items)
  BY <1>1, <1>4 DEF Chosen
<1>7. QED BY <1>2, <1>3, <1>5, <1>6 DEF Inv

\* or goes on to the next.
LEMMA FinishOK ==
  ASSUME NEW o, Ops = {o}, Inv(o), at[o] \in Busy, Effect(o), UNCHANGED <<mode, policy, target>>,
         Finish(o),
         \A x \in Parts : /\ disk'[From(o)].parts[x] \in {Mine(o), Nobody}
                          /\ disk'[target[o]].parts[x] \in {OldOf(o), Mine(o), Nobody}
                          /\ disk'[Staged(o)].parts[x] \in ({o} \X (1..Items)) \cup {Nobody},
         mode[o] = "copy" => WholeFile(target[o])',
         NEW k, k = item[o], Kept(o, k)', mode[o] = "copy" => SourceWhole(o, k)', ~Exists(Backup(o))'
  PROVE  Inv(o)'
<1>1. item[o] \in 1..Items
  BY BusyFacts
<1>2. /\ Places(o)'
      /\ mode'[o] = "copy" => \A t \in Targets : WholeFile(t)'
  BY PlacesOK
<1>3. /\ at'[o] = "pick" /\ item'[o] = item[o] + 1 /\ at' \in [Ops -> {"pick"}]
      /\ item' \in [Ops -> 1..(Items + 1)]
  <2>1. at \in [{o} -> {at[o]}] /\ item \in [{o} -> 1..(Items + 1)]
    BY BusyFacts DEF TypeOK
  <2>2. at' = [at EXCEPT ![o] = "pick"] /\ item' = [item EXCEPT ![o] = item[o] + 1]
    BY DEF Finish, GoTo
  <2>3. item[o] + 1 \in 1..(Items + 1)
    BY <1>1
  <2>4. QED BY <2>1, <2>2, <2>3
<1>4. \A i \in 1..Items : (i < item'[o] => Past(o, i)') /\ (i > item[o] => Future(o, i)')
  <2> SUFFICES ASSUME NEW i \in 1..Items
               PROVE  (i < item'[o] => Past(o, i)') /\ (i > item[o] => Future(o, i)')
    OBVIOUS
  <2>1. i # item[o] => (Past(o, i) => Past(o, i)') /\ (Future(o, i) => Future(o, i)')
    BY OthersKept
  <2>2. (i < item[o] => Past(o, i)) /\ (i > item[o] => Future(o, i))
    BY DEF Inv
  <2>3. CASE i = item[o]
    BY <1>1, <1>3, <2>3 DEF Past
  <2>4. CASE i # item[o]
    BY <1>1, <1>3, <2>1, <2>2, <2>4
  <2>5. QED BY <2>3, <2>4
<1>5. item'[o] <= Items => Now(o)'
  <2> SUFFICES ASSUME item'[o] <= Items PROVE Now(o)'
    OBVIOUS
  <2>1. item'[o] \in 1..Items /\ item'[o] > item[o]
    BY <1>1, <1>3
  <2>2. PICK i \in 1..Items : i = item'[o] /\ i > item[o]
    BY <2>1
  <2>3. Future(o, i)'
    BY <1>4, <2>2
  <2>4. Phase(o)' /\ Restored(o)' /\ at'[o] \notin Late
    BY <1>3 DEF Phase, Restored, Busy, Copying, Moving, Late, Ended
  <2>5. QED BY <2>2, <2>3, <2>4 DEF Now, Future
<1>6. Control(o)' /\ (item'[o] > Items => ~Exists(Backup(o))')
  BY <1>3 DEF Control, Busy, Copying, Moving
<1>7. TypeOK'
  <2>1. at' \in [Ops -> Ended \cup {"pick"}]
    BY <1>3
  <2>2. TypeOK
    BY BusyFacts
  <2>3. QED BY <1>3, <2>1, <2>2 DEF TypeOK, Effect
<1>8. QED BY <1>1, <1>2, <1>3, <1>4, <1>5, <1>6, <1>7 DEF Inv, Effect

----------------------------------------------------------------------------
(* Copying *)

\* A source that is left alone stays whole.
LEMMA StillWhole ==
  ASSUME NEW o, UNCHANGED Chosen, disk'[From(o)] = disk[From(o)], SourceWhole(o, item[o])
  PROVE  SourceWhole(o, item[o])' /\ Kept(o, item[o])'
BY DEF Chosen, SourceWhole, Kept, From, Exists, AllOf

\* What is at a path goes on to be the old target, here or where it is moved.
LEMMA OldMoves ==
  ASSUME NEW o \in Ops, Effect(o), NEW i \in 1..Items, NEW p, NEW q,
         OldAt(p, i), disk'[q] = disk[p]
  PROVE  OldAt(q, i)'
<1>1. OldGone(i) => OldGone(i)'
  BY OldGoneKept
<1>2. QED BY <1>1 DEF OldAt, Exists, AllOf

\* An old target the step leaves alone stays.
LEMMA OldStays ==
  ASSUME NEW o, Ops = {o}, Inv(o), at[o] \in Busy, Effect(o), UNCHANGED Chosen,
         disk'[target[o]] = disk[target[o]], OldAt(Target(item[o], 1), item[o])
  PROVE  OldAt(Target(item[o], 1), item[o])'
<1>1. PICK i \in 1..Items, t \in {Target(item[o], 1)} : i = item[o] /\ t = Target(i, 1)
  BY BusyFacts
<1>2. disk'[t] = disk[t]
  <2>1. 1 \in 1..Copies
    BY OneProcess
  <2>2. disk'[Target(item[o], 1)] = disk[Target(item[o], 1)]
    BY <2>1, NamesKept
  <2>3. QED BY <1>1, <2>2
<1>3. OldAt(t, i)'
  BY <1>1, <1>2, OldMoves
<1>4. QED BY <1>1, <1>3 DEF Chosen

\* The same at the target and in the backup of a process that keeps both paths.
LEMMA OldFollows ==
  ASSUME NEW o \in Ops, Effect(o), UNCHANGED Chosen, item[o] \in 1..Items,
         NEW p, OldAt(p, item[o])
  PROVE  /\ disk'[target[o]] = disk[p] => OldAt(target[o], item[o])'
         /\ disk'[Backup(o)] = disk[p] => OldAt(Backup(o), item[o])'
<1>1. PICK i \in 1..Items, t \in {target[o]} : i = item[o] /\ t = target[o]
  OBVIOUS
<1>2. /\ disk'[t] = disk[p] => OldAt(t, i)'
      /\ disk'[Backup(o)] = disk[p] => OldAt(Backup(o), i)'
  BY <1>1, OldMoves
<1>3. i = item'[o] /\ t = target'[o]
  BY <1>1 DEF Chosen
<1>4. /\ OldAt(t, i)' => OldAt(target[o], item[o])'
      /\ OldAt(Backup(o), i)' => OldAt(Backup(o), item[o])'
  BY <1>3
<1>5. QED BY <1>1, <1>2, <1>4

\* A process that leaves or puts back the old target may fail.
LEMMA RestoredIfOld ==
  ASSUME NEW o, UNCHANGED Chosen, Overwrites(o) => OldAt(target[o], item[o])'
  PROVE  Restored(o)'
<1>1. Overwrites(o)' => OldAt(target[o], item[o])'
  BY DEF Overwrites, Chosen
<1>2. QED BY <1>1 DEF Restored, OldAt, OldGone, OldOf, OneOf, AllOf, Exists

\* A copying process leaves the source alone, so that only target, staged copy and
\* backup matter.
LEMMA CopyFacts ==
  ASSUME NEW o, Ops = {o}, Inv(o), at[o] \in Copying
  PROVE  /\ at[o] \in Busy /\ mode[o] = "copy"
         /\ SourceWhole(o, item[o]) /\ WholeFile(target[o])
         /\ at[o] \in Early => OldAt(Target(item[o], 1), item[o])
         /\ at[o] \in Early /\ Overwrites(o) => OldAt(target[o], item[o])
         /\ at[o] \in Early /\ ~Overwrites(o) => ~Exists(target[o])
         /\ at[o] \in Early \cup {"build"} => ~Exists(Backup(o))
         /\ IF Overwrites(o) THEN Overwriting(o) ELSE Adding(o)
<1>1. at[o] \in Busy /\ at[o] \notin Moving
  BY DEF Busy, Copying, Moving
<1>2. Now(o) /\ Control(o) /\ target[o] \in Targets
  BY <1>1, BusyFacts
<1>3. mode[o] = "copy" /\ (Overwrites(o) => target[o] = Target(item[o], 1))
  BY <1>1, <1>2 DEF Control
<1>4. SourceWhole(o, item[o]) /\ (at[o] \in Early => OldAt(Target(item[o], 1), item[o]))
  BY <1>2, <1>3 DEF Now
<1>5. /\ at[o] \in Early \cup {"build"} => ~Exists(Backup(o))
      /\ IF Overwrites(o) THEN Overwriting(o) ELSE Adding(o)
      /\ at[o] \in Early /\ ~Overwrites(o) => ~Exists(target[o])
  BY <1>1, <1>2 DEF Now, Phase, Adding
<1>6. WholeFile(target[o])
  BY <1>2, <1>3 DEF Inv
<1>7. QED BY <1>1, <1>3, <1>4, <1>5, <1>6

\* What a step of a copying process must do to keep the invariant.
LEMMA CopyOK ==
  ASSUME NEW o, Ops = {o}, Inv(o), at[o] \in Copying, Effect(o), UNCHANGED Chosen,
         at' \in [Ops -> Where], at'[o] \in Copying \cup {"discard", "failed"},
         disk'[From(o)] = disk[From(o)],
         \A x \in Parts : /\ disk'[target[o]].parts[x] \in {OldOf(o), Mine(o), Nobody}
                          /\ disk'[Staged(o)].parts[x] \in {Mine(o), Nobody, disk[Staged(o)].parts[x]},
         WholeFile(target[o])', Phase(o)', Restored(o)',
         at'[o] \in Early => disk'[target[o]] = disk[target[o]] /\ at[o] \in Early
  PROVE  Inv(o)'
<1>1. /\ at[o] \in Busy /\ item[o] \in 1..Items /\ o \in Ops /\ Control(o)
      /\ OneOf(From(o), {Mine(o), Nobody})
  BY CopyFacts, BusyFacts
<1>2. SourceWhole(o, item[o])' /\ Kept(o, item[o])'
  BY CopyFacts, StillWhole
<1>3. at'[o] \in Early => OldAt(Target(item[o], 1), item[o])'
  <2> SUFFICES ASSUME at'[o] \in Early PROVE OldAt(Target(item[o], 1), item[o])'
    OBVIOUS
  <2>1. disk'[target[o]] = disk[target[o]] /\ at[o] \in Early
    OBVIOUS
  <2>3. OldAt(Target(item[o], 1), item[o])
    BY <2>1, CopyFacts
  <2>4. QED BY <1>1, <2>1, <2>3, OldStays
<1>4. Now(o)'
  BY <1>2, <1>3 DEF Now
<1>5. Control(o)' /\ at'[o] # "done"
  BY <1>1, CopyFacts DEF Control, Chosen, Overwrites, Copying, Moving, Busy
<1>6. \A x \in Parts : disk[Staged(o)].parts[x] \in ({o} \X (1..Items)) \cup {Nobody}
  BY DEF Inv, Places, OneOf
<1>7. Mine(o) \in {o} \X (1..Items)
  BY <1>1 DEF Mine
<1>8. \A x \in Parts : /\ disk'[From(o)].parts[x] \in {Mine(o), Nobody}
                       /\ disk'[target[o]].parts[x] \in {OldOf(o), Mine(o), Nobody}
                       /\ disk'[Staged(o)].parts[x] \in ({o} \X (1..Items)) \cup {Nobody}
  BY <1>1, <1>6, <1>7 DEF OneOf
<1>9. QED BY <1>1, <1>4, <1>5, <1>8, StayOK

\* BeginCopy keeps the invariant: nothing of an old target is lost when the copy begins.
LEMMA BeginCopyOK ==
  ASSUME NEW o, Ops = {o}, Inv(o), BeginCopy(o)
  PROVE  Inv(o)'
<1>1. at[o] \in {"copy-file", "copy-dir"} /\ at[o] \in Copying /\ UNCHANGED Chosen
  BY DEF BeginCopy, Copying
<1>2. /\ at[o] \in Busy /\ at[o] \in Early /\ o \in Ops /\ item[o] \in 1..Items
      /\ DiskOK /\ TypeOK /\ Now(o)
      /\ From(o) \in Paths /\ target[o] \in Paths /\ Staged(o) \in Paths /\ Backup(o) \in Paths
      /\ From(o) # target[o] /\ From(o) # Staged(o) /\ From(o) # Backup(o)
      /\ target[o] # Staged(o) /\ target[o] # Backup(o) /\ Staged(o) # Backup(o)
      /\ OneOf(target[o], {OldOf(o), Mine(o), Nobody})
  BY <1>1, CopyFacts, BusyFacts DEF Early
<1>3. ASSUME NEW k \in {"file", "dir"}, GoTo(o, "stage"), Put(Staged(o), Empty(k)) PROVE Inv(o)'
  <2>1. /\ Effect(o) /\ disk'[Staged(o)] = Empty(k)
        /\ \A q \in Paths \ {Staged(o)} : disk'[q] = disk[q]
    BY <1>2, <1>3, PutEffect DEF Here
  <2>2. /\ disk'[From(o)] = disk[From(o)] /\ disk'[target[o]] = disk[target[o]]
        /\ disk'[Backup(o)] = disk[Backup(o)]
        /\ Empty(k).kind = k /\ \A x \in Parts : Empty(k).parts[x] = Nobody
    BY <1>2, <2>1, ContentTypes
  <2>3. at' \in [Ops -> Where] /\ at'[o] = "stage"
    BY <1>2, <1>3, GoToIs DEF Where, Busy, Copying
  <2>4. Phase(o)'
    BY <1>1, <1>2, <2>1, <2>2, <2>3, CopyFacts
       DEF Phase, Chosen, Overwriting, Adding, Exists, Early, Busy, Copying, Moving, Overwrites, OneOf,
           Mine
  <2>5. Restored(o)' /\ WholeFile(target[o])'
    BY <1>1, <2>2, <2>3, CopyFacts DEF Restored, WholeFile, AllOf, Chosen
  <2>6. QED BY <1>1, <1>2, <2>1, <2>2, <2>3, <2>4, <2>5, CopyOK DEF Copying, OneOf
<1>4. ASSUME at[o] = "copy-dir", GoTo(o, "build"), disk[target[o]].kind # "file",
             IF Exists(target[o]) THEN UNCHANGED disk ELSE Put(target[o], Empty("dir"))
      PROVE  Inv(o)'
  <2>1. /\ Effect(o)
        /\ disk'[target[o]] = IF Exists(target[o]) THEN disk[target[o]] ELSE Empty("dir")
        /\ \A q \in Paths \ {target[o]} : disk'[q] = disk[q]
    <3>1. CASE Exists(target[o])
      BY <1>2, <1>4, <3>1, SameEffect
    <3>2. CASE ~Exists(target[o])
      <4>1. Put(target[o], Empty("dir")) /\ target[o] \in Here(o)
        BY <1>4, <3>2 DEF Here
      <4>2. QED BY <1>2, <3>2, <4>1, PutEffect
    <3>3. QED BY <3>1, <3>2
  <2>2. /\ disk'[From(o)] = disk[From(o)] /\ disk'[Staged(o)] = disk[Staged(o)]
        /\ disk'[Backup(o)] = disk[Backup(o)]
        /\ Empty("dir").kind = "dir" /\ \A x \in Parts : Empty("dir").parts[x] = Nobody
    BY <1>2, <2>1, ContentTypes
  <2>3. at' \in [Ops -> Where] /\ at'[o] = "build"
    BY <1>2, <1>4, GoToIs DEF Where, Busy, Copying
  <2>4. disk'[target[o]].kind = "dir"
    BY <1>2, <1>4, <2>1, <2>2 DEF DiskOK, Contents, Exists
  <2>5. Overwrites(o) => Overwriting(o)'
    <3> SUFFICES ASSUME Overwrites(o) PROVE Overwriting(o)'
      OBVIOUS
    <3>0. OldAt(target[o], item[o])
      BY <1>1, <1>2, CopyFacts
    <3>1. CASE Exists(target[o])
      <4>1. AllOf(target[o], OldOf(o))
        BY <3>0, <3>1 DEF OldAt, OldOf
      <4>2. OneOf(target[o], {OldOf(o), Mine(o)})'
        BY <1>1, <2>1, <3>1, <4>1 DEF AllOf, OneOf, OldOf, Mine, Chosen
      <4>3. QED BY <2>3, <4>2 DEF Overwriting
    <3>2. CASE ~Exists(target[o])
      <4>1. PICK i \in 1..Items : i = item[o]
        BY <1>2
      <4>2. OldGone(i)
        BY <3>0, <3>2, <4>1 DEF OldAt
      <4>3. OldGone(i)'
        BY <1>2, <2>1, <4>2, OldGoneKept
      <4>4. OldGone(item[o])'
        BY <1>1, <4>1, <4>3 DEF Chosen
      <4>5. QED BY <2>3, <4>4 DEF Overwriting
    <3>3. QED BY <3>1, <3>2
  <2>6. ~Overwrites(o) => Adding(o)'
    BY <1>1, <1>2, <2>1, <2>2, <2>3, CopyFacts DEF Adding, Chosen, Exists, OneOf, Early
  <2>7. disk[From(o)].kind = "dir" /\ ~Exists(Backup(o))
    BY <1>2, <1>4, CopyFacts DEF Now, Phase
  <2>8. Phase(o)'
    BY <1>1, <2>2, <2>3, <2>4, <2>5, <2>6, <2>7
       DEF Phase, Chosen, Early, Busy, Copying, Moving, Overwrites, From, Exists
  <2>9. Restored(o)' /\ WholeFile(target[o])'
    BY <1>1, <2>3, <2>4 DEF Restored, WholeFile, Chosen
  <2>10. QED
    BY <1>1, <1>2, <2>1, <2>2, <2>3, <2>8, <2>9, CopyOK DEF Copying, OneOf, Early
<1>5. CASE at[o] = "copy-file"
  <2>1. ~(Exists(target[o]) /\ ~Overwrites(o))
    BY <1>1, <1>2, CopyFacts
  <2>2. GoTo(o, "stage") /\ Put(Staged(o), Empty("file"))
    BY <1>5, <2>1 DEF BeginCopy
  <2>3. QED BY <1>3, <2>2
<1>6. CASE at[o] = "copy-dir"
  <2>1. CASE Overwrites(o) /\ disk[target[o]].kind = "file"
    <3>1. GoTo(o, "stage") /\ Put(Staged(o), Empty("dir"))
      BY <1>6, <2>1 DEF BeginCopy
    <3>2. QED BY <1>3, <3>1
  <2>2. CASE ~Overwrites(o) \/ disk[target[o]].kind # "file"
    <3>1. disk[target[o]].kind # "file"
      BY <1>1, <1>2, <2>2, CopyFacts DEF Exists
    <3>2. /\ GoTo(o, "build")
          /\ IF Exists(target[o]) THEN UNCHANGED disk ELSE Put(target[o], Empty("dir"))
      BY <1>6, <3>1 DEF BeginCopy
    <3>3. QED BY <1>4, <1>6, <3>1, <3>2
  <2>3. QED BY <2>1, <2>2
<1>7. QED BY <1>1, <1>5, <1>6

\* Stage keeps the invariant: a staged copy is whole before it goes on.
LEMMA StageOK ==
  ASSUME NEW o, Ops = {o}, Inv(o), Stage(o)
  PROVE  Inv(o)'
<1>1. at[o] = "stage" /\ at[o] \in Copying /\ at[o] \in Early /\ UNCHANGED Chosen
  BY DEF Stage, Copying, Early
<1>2. /\ at[o] \in Busy /\ o \in Ops /\ item[o] \in 1..Items
      /\ DiskOK /\ TypeOK /\ Now(o)
      /\ From(o) \in Paths /\ target[o] \in Paths /\ Staged(o) \in Paths /\ Backup(o) \in Paths
      /\ From(o) # target[o] /\ From(o) # Staged(o) /\ From(o) # Backup(o)
      /\ target[o] # Staged(o) /\ target[o] # Backup(o) /\ Staged(o) # Backup(o)
      /\ OneOf(target[o], {OldOf(o), Mine(o), Nobody})
  BY <1>1, CopyFacts, BusyFacts
<1>3. /\ Exists(Staged(o)) /\ ~Exists(Backup(o))
      /\ Overwrites(o) => OldAt(target[o], item[o])
      /\ ~Overwrites(o) => ~Exists(target[o]) /\ Adding(o)
      /\ WholeFile(target[o]) /\ at \in [Ops -> Where]
  <2>1. Exists(Staged(o))
    BY <1>1, <1>2 DEF Now, Phase
  <2>2. /\ Overwrites(o) => OldAt(target[o], item[o])
        /\ ~Overwrites(o) => ~Exists(target[o]) /\ Adding(o)
        /\ WholeFile(target[o]) /\ ~Exists(Backup(o))
    BY <1>1, CopyFacts
  <2>3. at \in [Ops -> Where]
    BY <1>2 DEF TypeOK, Where, Busy, Copying, Moving, Ended
  <2>4. QED BY <2>1, <2>2, <2>3
<1>4. ASSUME NEW x \in Parts, PutPart(Staged(o), x, Mine(o)), UNCHANGED at PROVE Inv(o)'
  <2>1. Staged(o) \in Here(o)
    BY DEF Here
  <2>2. /\ Effect(o)
        /\ \A q \in Paths \ {Staged(o)} : disk'[q] = disk[q]
        /\ disk'[Staged(o)].kind = disk[Staged(o)].kind
        /\ \A y \in Parts : disk'[Staged(o)].parts[y]
                              = IF y = x THEN Mine(o) ELSE disk[Staged(o)].parts[y]
    BY <1>2, <1>3, <1>4, <2>1, PutPartEffect
  <2>3. /\ disk'[From(o)] = disk[From(o)] /\ disk'[target[o]] = disk[target[o]]
        /\ disk'[Backup(o)] = disk[Backup(o)]
    BY <1>2, <2>2
  <2>4. Phase(o)'
    BY <1>1, <1>3, <1>4, <2>2, <2>3
       DEF Phase, Chosen, Overwriting, Adding, Exists, Early, Busy, Copying, Moving, Overwrites, OneOf,
           Mine
  <2>5. Restored(o)' /\ WholeFile(target[o])'
    BY <1>1, <1>3, <1>4, <2>3 DEF Restored, WholeFile, AllOf, Chosen
  <2>6. QED BY <1>1, <1>2, <1>3, <1>4, <2>2, <2>3, <2>4, <2>5, CopyOK DEF OneOf
<1>5. ASSUME StagedWhole(o), UNCHANGED disk,
             GoTo(o, IF Exists(target[o]) THEN "aside" ELSE "publish")
      PROVE  Inv(o)'
  <2>1. Effect(o)
    BY <1>2, <1>5, SameEffect
  <2>2. at' \in [Ops -> Where] /\ at'[o] = IF Exists(target[o]) THEN "aside" ELSE "publish"
    BY <1>2, <1>5, GoToIs DEF Where, Busy, Copying
  <2>3. AllOf(Staged(o), Mine(o))
    BY <1>5 DEF StagedWhole, Missing, AllOf
  <2>4. ~Exists(target[o]) /\ Overwrites(o) => OldAt(Backup(o), item[o])'
    <3>1. ~Exists(target[o]) /\ Overwrites(o) => OldAt(Backup(o), item[o])
      BY <1>3 DEF OldAt
    <3>2. QED BY <1>2, <1>1, <1>5, <2>1, <3>1, OldFollows
  <2>5. Phase(o)'
    <3>1. Overwrites(o) => Overwriting(o)'
      BY <2>2, <2>4 DEF Overwriting
    <3>2. ~Overwrites(o) => Adding(o)'
      BY <1>1, <1>3, <1>5, <2>2 DEF Adding, Chosen, Exists, OneOf, Mine
    <3>3. QED
      BY <1>1, <1>3, <1>5, <2>2, <2>3, <3>1, <3>2
         DEF Phase, Chosen, Exists, Early, Overwrites, AllOf, Mine
  <2>6. Restored(o)' /\ WholeFile(target[o])'
    BY <1>1, <1>3, <1>5, <2>2 DEF Restored, WholeFile, AllOf, Chosen
  <2>7. QED BY <1>1, <1>2, <1>5, <2>1, <2>2, <2>5, <2>6, CopyOK DEF OneOf, Copying
<1>6. ASSUME Put(Staged(o), Absent), Fail(o) PROVE Inv(o)'
  <2>1. /\ Effect(o) /\ disk'[Staged(o)] = Absent
        /\ \A q \in Paths \ {Staged(o)} : disk'[q] = disk[q]
    BY <1>2, <1>6, PutEffect DEF Here
  <2>2. /\ disk'[From(o)] = disk[From(o)] /\ disk'[target[o]] = disk[target[o]]
        /\ \A x \in Parts : Absent.parts[x] = Nobody
    BY <1>2, <2>1, ContentTypes
  <2>3. at' \in [Ops -> Where] /\ at'[o] = "failed"
    BY <1>2, <1>6, GoToIs DEF Where, Ended, Fail
  <2>4. Phase(o)'
    BY <2>3 DEF Phase, Early, Busy, Copying, Moving
  <2>5. Restored(o)'
    BY <1>1, <1>2, <1>3, <2>1, <2>2, OldFollows, RestoredIfOld
  <2>6. WholeFile(target[o])'
    BY <1>1, <1>3, <2>2 DEF WholeFile, AllOf, Chosen
  <2>7. at'[o] \notin Early
    BY <2>3 DEF Early
  <2>8. QED BY <1>1, <1>2, <2>1, <2>2, <2>3, <2>4, <2>5, <2>6, <2>7, CopyOK DEF OneOf
<1>7. QED BY <1>4, <1>5, <1>6 DEF Stage, Missing

\* An entry goes to the target, or what is in its place goes.
LEMMA PutEntryEffect ==
  ASSUME NEW o, Ops = {o}, Inv(o), at[o] \in Busy, PutEntry(o), Exists(target[o])
  PROVE  /\ Effect(o)
         /\ \A q \in Paths \ {target[o]} : disk'[q] = disk[q]
         /\ disk'[target[o]].kind = disk[target[o]].kind
         /\ \A y \in Parts :
              \/ disk'[target[o]].parts[y] \in {Mine(o), disk[target[o]].parts[y]}
              \/ ~(at[o] = "build" /\ Overwrites(o)) /\ disk'[target[o]].parts[y] = Nobody
<1>1. PICK x \in Parts, v \in {Mine(o), Nobody} :
         /\ PutPart(target[o], x, v)
         /\ at[o] = "build" /\ Overwrites(o) => v = Mine(o)
  BY DEF PutEntry, Missing
<1>2. /\ o \in Ops /\ item[o] \in 1..Items /\ DiskOK /\ target[o] \in Paths
      /\ disk[target[o]].kind = disk[From(o)].kind /\ target[o] \in Here(o)
  BY BusyFacts DEF PutEntry, Here
<1>3. /\ Effect(o)
      /\ \A q \in Paths \ {target[o]} : disk'[q] = disk[q]
      /\ disk'[target[o]].kind = disk[target[o]].kind
      /\ \A y \in Parts : disk'[target[o]].parts[y] = IF y = x THEN v ELSE disk[target[o]].parts[y]
  BY <1>1, <1>2, PutPartEffect
<1>4. QED BY <1>1, <1>3

\* Build keeps the invariant: a directory that is merged is a mixture of old and new parts.
LEMMA BuildOK ==
  ASSUME NEW o, Ops = {o}, Inv(o), Build(o)
  PROVE  Inv(o)'
<1>1. at[o] = "build" /\ at[o] \in Copying /\ UNCHANGED <<mode, policy, target>>
  BY DEF Build, Copying
<1>2. /\ at[o] \in Busy /\ o \in Ops /\ item[o] \in 1..Items
      /\ DiskOK /\ TypeOK /\ Now(o)
      /\ From(o) \in Paths /\ target[o] \in Paths /\ Staged(o) \in Paths /\ Backup(o) \in Paths
      /\ From(o) # target[o] /\ From(o) # Staged(o) /\ From(o) # Backup(o)
      /\ target[o] # Staged(o) /\ target[o] # Backup(o) /\ Staged(o) # Backup(o)
      /\ Mine(o) # Nobody /\ OldOf(o) # Nobody /\ Mine(o) # OldOf(o)
      /\ OneOf(From(o), {Mine(o), Nobody})
      /\ OneOf(target[o], {OldOf(o), Mine(o), Nobody})
  BY <1>1, CopyFacts, BusyFacts
<1>3. /\ SourceWhole(o, item[o]) /\ WholeFile(target[o]) /\ ~Exists(Backup(o))
      /\ disk[From(o)].kind = "dir" /\ disk[target[o]].kind = "dir" /\ Exists(target[o])
      /\ Overwrites(o) => OneOf(target[o], {OldOf(o), Mine(o)}) \/ OldGone(item[o])
      /\ ~Overwrites(o) => OneOf(target[o], {Mine(o), Nobody})
      /\ at \in [Ops -> Where] /\ mode[o] = "copy"
  <2>1. /\ disk[From(o)].kind = "dir" /\ disk[target[o]].kind = "dir"
    BY <1>1, <1>2 DEF Now, Phase
  <2>2. /\ SourceWhole(o, item[o]) /\ WholeFile(target[o]) /\ ~Exists(Backup(o)) /\ mode[o] = "copy"
        /\ IF Overwrites(o) THEN Overwriting(o) ELSE Adding(o)
    BY <1>1, CopyFacts
  <2>3. at \in [Ops -> Where]
    BY <1>2 DEF TypeOK, Where, Busy, Copying, Moving, Ended
  <2>4. QED BY <1>1, <2>1, <2>2, <2>3 DEF Overwriting, Adding, Exists
<1>4. ASSUME PutEntry(o), UNCHANGED <<at, item>> PROVE Inv(o)'
  <2>1. /\ Effect(o)
        /\ \A q \in Paths \ {target[o]} : disk'[q] = disk[q]
        /\ disk'[target[o]].kind = disk[target[o]].kind
        /\ \A y \in Parts :
             \/ disk'[target[o]].parts[y] \in {Mine(o), disk[target[o]].parts[y]}
             \/ ~Overwrites(o) /\ disk'[target[o]].parts[y] = Nobody
    BY <1>1, <1>2, <1>3, <1>4, PutEntryEffect
  <2>2. /\ disk'[From(o)] = disk[From(o)] /\ disk'[Staged(o)] = disk[Staged(o)]
        /\ disk'[Backup(o)] = disk[Backup(o)] /\ UNCHANGED Chosen
    BY <1>1, <1>2, <1>4, <2>1 DEF Chosen
  <2>3. OldGone(item[o]) => OldGone(item[o])'
    <3>1. PICK i \in 1..Items : i = item[o]
      BY <1>2
    <3>2. OldGone(i) => OldGone(i)'
      BY <1>2, <2>1, OldGoneKept
    <3>3. QED BY <1>4, <3>1, <3>2
  <2>4. Overwrites(o) => Overwriting(o)'
    <3>1. OneOf(target[o], {OldOf(o), Mine(o)}) /\ Overwrites(o)
            => OneOf(target[o], {OldOf(o), Mine(o)})'
      BY <2>1, <2>2 DEF OneOf, OldOf, Mine, Chosen
    <3>2. QED BY <1>1, <1>3, <1>4, <2>3, <3>1 DEF Overwriting
  <2>5. ~Overwrites(o) => Adding(o)'
    BY <1>1, <1>3, <1>4, <2>1, <2>2 DEF Adding, Chosen, Exists, OneOf, Mine, Early
  <2>6. Phase(o)'
    BY <1>1, <1>3, <1>4, <2>1, <2>2, <2>4, <2>5
       DEF Phase, Chosen, Exists, Early, Overwrites, From
  <2>7. Restored(o)' /\ WholeFile(target[o])'
    BY <1>1, <1>3, <1>4, <2>1, <2>2 DEF Restored, WholeFile, Chosen
  <2>8. \A y \in Parts : disk'[target[o]].parts[y] \in {OldOf(o), Mine(o), Nobody}
    BY <1>2, <2>1 DEF OneOf
  <2>9. QED BY <1>1, <1>3, <1>4, <2>1, <2>2, <2>6, <2>7, <2>8, CopyOK DEF Early
<1>5. ASSUME Missing(target[o], Mine(o)) = {}, Finish(o), UNCHANGED disk PROVE Inv(o)'
  <2>1. Effect(o)
    BY <1>2, <1>5, SameEffect
  <2>2. PICK k \in 1..Items : k = item[o]
    BY <1>2
  <2>3. SourceWhole(o, k)' /\ Kept(o, k)' /\ WholeFile(target[o])' /\ ~Exists(Backup(o))'
    BY <1>1, <1>3, <1>5, <2>2 DEF SourceWhole, Kept, WholeFile, AllOf, Exists
  <2>4. \A x \in Parts : disk[Staged(o)].parts[x] \in ({o} \X (1..Items)) \cup {Nobody}
    BY DEF Inv, Places, OneOf
  <2>5. QED BY <1>1, <1>2, <1>5, <2>1, <2>2, <2>3, <2>4, FinishOK DEF OneOf
<1>6. ASSUME Fail(o), UNCHANGED <<disk, item>> PROVE Inv(o)'
  <2>1. Effect(o) /\ UNCHANGED Chosen
    BY <1>1, <1>2, <1>6, SameEffect DEF Chosen
  <2>2. at' \in [Ops -> Where] /\ at'[o] = "failed"
    BY <1>2, <1>6, GoToIs DEF Where, Ended, Fail
  <2>3. Phase(o)'
    BY <2>2 DEF Phase, Early, Busy, Copying, Moving
  <2>4. Restored(o)'
    BY <1>1, <1>3, <1>6 DEF Restored, Overwrites, OneOf, OldOf, Mine, OldGone, Somewhere
  <2>5. WholeFile(target[o])'
    BY <1>1, <1>3, <1>6 DEF WholeFile, AllOf
  <2>6. QED BY <1>1, <1>2, <1>6, <2>1, <2>2, <2>3, <2>4, <2>5, CopyOK DEF OneOf, Early
<1>7. QED BY <1>1, <1>4, <1>5, <1>6 DEF Build

----------------------------------------------------------------------------
(* Moving *)

\* A moving process is at its source until every part of it is at the target.
LEMMA MoveFacts ==
  ASSUME NEW o, Ops = {o}, Inv(o), at[o] \in Moving
  PROVE  /\ at[o] \in Busy /\ mode[o] = "move" /\ Kept(o, item[o])
         /\ at[o] \notin Late => SourceWhole(o, item[o])
         /\ at[o] \in Early => OldAt(Target(item[o], 1), item[o])
         /\ at[o] \in Early /\ Overwrites(o) => OldAt(target[o], item[o])
         /\ at[o] \in Early /\ ~Overwrites(o) => ~Exists(target[o])
         /\ at[o] \in Early \cup {"move-entries"} => ~Exists(Backup(o))
         /\ IF Overwrites(o) THEN Overwriting(o) ELSE Adding(o)
<1>1. at[o] \in Busy /\ at[o] \notin Copying
  BY DEF Busy, Copying, Moving
<1>2. Now(o) /\ Control(o)
  BY <1>1, BusyFacts
<1>3. mode[o] = "move" /\ (Overwrites(o) => target[o] = Target(item[o], 1))
  BY <1>1, <1>2 DEF Control
<1>4. /\ Kept(o, item[o])
      /\ at[o] \notin Late => SourceWhole(o, item[o])
      /\ at[o] \in Early => OldAt(Target(item[o], 1), item[o])
  BY <1>2, <1>3 DEF Now
<1>5. /\ at[o] \in Early \cup {"move-entries"} => ~Exists(Backup(o))
      /\ IF Overwrites(o) THEN Overwriting(o) ELSE Adding(o)
      /\ at[o] \in Early /\ ~Overwrites(o) => ~Exists(target[o])
  BY <1>1, <1>2 DEF Now, Phase, Adding
<1>6. QED BY <1>1, <1>3, <1>4, <1>5

\* What a step of a moving process must do to keep the invariant.
LEMMA MoveOK ==
  ASSUME NEW o, Ops = {o}, Inv(o), at[o] \in Moving, Effect(o), UNCHANGED Chosen,
         at' \in [Ops -> Where], at'[o] \in Moving \cup {"discard", "failed"},
         \A x \in Parts : /\ disk'[From(o)].parts[x] \in {Mine(o), Nobody}
                          /\ disk'[target[o]].parts[x] \in {OldOf(o), Mine(o), Nobody}
                          /\ disk'[Staged(o)].parts[x] \in {Nobody, disk[Staged(o)].parts[x]},
         Kept(o, item[o])', at'[o] \notin Late => SourceWhole(o, item[o])',
         Phase(o)', Restored(o)',
         at'[o] \in Early => disk'[target[o]] = disk[target[o]] /\ at[o] \in Early,
         at'[o] = "move-entries" => Overwrites(o)
  PROVE  Inv(o)'
<1>1. /\ at[o] \in Busy /\ item[o] \in 1..Items /\ o \in Ops /\ Control(o) /\ mode[o] = "move"
  BY MoveFacts, BusyFacts
<1>2. at'[o] \in Early => OldAt(Target(item[o], 1), item[o])'
  <2> SUFFICES ASSUME at'[o] \in Early PROVE OldAt(Target(item[o], 1), item[o])'
    OBVIOUS
  <2>1. disk'[target[o]] = disk[target[o]] /\ at[o] \in Early
    OBVIOUS
  <2>2. OldAt(Target(item[o], 1), item[o])
    BY <2>1, MoveFacts
  <2>3. QED BY <1>1, <2>1, <2>2, OldStays
<1>3. Now(o)'
  BY <1>1, <1>2 DEF Now, Chosen
<1>4. Control(o)' /\ at'[o] # "done"
  BY <1>1 DEF Control, Chosen, Overwrites, Copying, Moving, Busy
<1>5. \A x \in Parts : disk[Staged(o)].parts[x] \in ({o} \X (1..Items)) \cup {Nobody}
  BY DEF Inv, Places, OneOf
<1>6. \A x \in Parts : disk'[Staged(o)].parts[x] \in ({o} \X (1..Items)) \cup {Nobody}
  BY <1>5
<1>7. QED BY <1>1, <1>3, <1>4, <1>6, StayOK

\* What is whole stays whole while the source is left alone.
LEMMA SourceStays ==
  ASSUME NEW o, Ops = {o}, Inv(o), at[o] \in Moving \ Late, UNCHANGED Chosen,
         disk'[From(o)] = disk[From(o)]
  PROVE  /\ SourceWhole(o, item[o])' /\ Kept(o, item[o])'
         /\ disk[From(o)].kind # "none" /\ AllOf(From(o), Mine(o))
<1>1. SourceWhole(o, item[o])
  BY MoveFacts
<1>2. QED BY <1>1, StillWhole DEF SourceWhole, Exists, From, Mine

\* BeginMove keeps the invariant: only an overwriting process merges or moves aside.
LEMMA BeginMoveOK ==
  ASSUME NEW o, Ops = {o}, Inv(o), BeginMove(o)
  PROVE  Inv(o)'
<1>1. /\ at[o] = "move" /\ at[o] \in Moving /\ at[o] \in Early /\ at[o] \notin Late
      /\ UNCHANGED Chosen /\ UNCHANGED disk
  BY DEF BeginMove, Moving, Early, Late, Ended
<1>2. /\ at[o] \in Busy /\ o \in Ops /\ item[o] \in 1..Items
      /\ DiskOK /\ TypeOK /\ Now(o)
      /\ From(o) \in Paths /\ target[o] \in Paths /\ Staged(o) \in Paths /\ Backup(o) \in Paths
      /\ From(o) # target[o] /\ From(o) # Staged(o) /\ From(o) # Backup(o)
      /\ target[o] # Staged(o) /\ target[o] # Backup(o) /\ Staged(o) # Backup(o)
      /\ Mine(o) # Nobody /\ OldOf(o) # Nobody /\ Mine(o) # OldOf(o)
      /\ OneOf(From(o), {Mine(o), Nobody})
      /\ OneOf(target[o], {OldOf(o), Mine(o), Nobody})
  BY <1>1, MoveFacts, BusyFacts
<1>3. /\ ~Exists(Backup(o)) /\ SourceWhole(o, item[o])' /\ Kept(o, item[o])'
      /\ Overwrites(o) => OldAt(target[o], item[o])
      /\ ~Overwrites(o) => ~Exists(target[o]) /\ Adding(o)
  BY <1>1, MoveFacts, SourceStays
<1>4. Effect(o)
  BY <1>1, <1>2, SameEffect
<1>5. PICK w \in {"rename", "move-entries", "move-aside"} :
        /\ at' \in [Ops -> Where] /\ at'[o] = w
        /\ w = "rename" => ~Overwrites(o)
        /\ w = "move-entries" => Overwrites(o) /\ disk[target[o]].kind = "dir"
        /\ w = "move-aside" => Overwrites(o)
  <2>1. PICK w \in {"rename", "move-entries", "move-aside"} :
          /\ GoTo(o, w)
          /\ w = "rename" => ~Overwrites(o)
          /\ w = "move-entries" => Overwrites(o) /\ disk[target[o]].kind = "dir"
          /\ w = "move-aside" => Overwrites(o)
    BY DEF BeginMove
  <2>2. w \in Where
    BY DEF Where, Busy, Moving
  <2>3. QED BY <1>2, <2>1, <2>2, GoToIs
<1>6. Phase(o)'
  <2>1. Overwrites(o) => Overwriting(o)'
    <3>1. Overwrites(o) /\ disk[target[o]].kind = "dir" => AllOf(target[o], OldOf(o))
      BY <1>3 DEF OldAt, Exists, OldOf
    <3>2. QED BY <1>1, <1>5, <3>1 DEF Overwriting, AllOf, OneOf, OldOf, Mine, Chosen
  <2>2. ~Overwrites(o) => Adding(o)'
    BY <1>1, <1>3 DEF Adding, Chosen, Exists, OneOf, Mine
  <2>3. QED
    BY <1>1, <1>3, <1>5, <2>1, <2>2 DEF Phase, Chosen, Exists, Early, Overwrites
<1>7. Restored(o)'
  BY <1>5 DEF Restored
<1>8. at'[o] \in Moving
  BY <1>5 DEF Moving
<1>9. QED BY <1>1, <1>2, <1>3, <1>4, <1>5, <1>6, <1>7, <1>8, MoveOK DEF OneOf

----------------------------------------------------------------------------
(* Replacing a target *)

\* Aside keeps the invariant: what was at the target is in the backup.
LEMMA AsideOK ==
  ASSUME NEW o, Ops = {o}, Inv(o), Aside(o)
  PROVE  Inv(o)'
<1>1. /\ at[o] \in {"aside", "move-aside"} /\ at[o] \in Early /\ UNCHANGED Chosen
      /\ at[o] = "aside" => at[o] \in Copying
      /\ at[o] = "move-aside" => at[o] \in Moving /\ at[o] \in Moving \ Late
      /\ at[o] \in Busy
  BY DEF Aside, Copying, Moving, Early, Late, Ended, Busy
<1>2. /\ at[o] \in Busy /\ o \in Ops /\ item[o] \in 1..Items
      /\ DiskOK /\ TypeOK /\ Now(o)
      /\ From(o) \in Paths /\ target[o] \in Paths /\ Staged(o) \in Paths /\ Backup(o) \in Paths
      /\ From(o) # target[o] /\ From(o) # Staged(o) /\ From(o) # Backup(o)
      /\ target[o] # Staged(o) /\ target[o] # Backup(o) /\ Staged(o) # Backup(o)
      /\ Mine(o) # Nobody /\ OldOf(o) # Nobody /\ Mine(o) # OldOf(o)
      /\ OneOf(From(o), {Mine(o), Nobody})
      /\ OneOf(target[o], {OldOf(o), Mine(o), Nobody})
  BY <1>1, BusyFacts
<1>3. /\ ~Exists(Backup(o)) /\ SourceWhole(o, item[o])
      /\ Overwrites(o) => OldAt(target[o], item[o])
      /\ ~Overwrites(o) => ~Exists(target[o]) /\ Adding(o)
      /\ at[o] = "aside" => /\ Exists(Staged(o)) /\ AllOf(Staged(o), Mine(o))
                           /\ WholeFile(target[o])
  <2>1. CASE at[o] = "aside"
    <3>1. Exists(Staged(o)) /\ AllOf(Staged(o), Mine(o))
      BY <1>2, <2>1 DEF Now, Phase
    <3>2. QED BY <1>1, <2>1, <3>1, CopyFacts
  <2>2. CASE at[o] = "move-aside"
    BY <1>1, <2>2, MoveFacts
  <2>3. QED BY <1>1, <2>1, <2>2
\* Both end in the same way.
<1>4. ASSUME Effect(o), at' \in [Ops -> Where],
             disk'[From(o)] = disk[From(o)], disk'[Staged(o)] = disk[Staged(o)],
             disk'[target[o]] \in {disk[target[o]], Absent},
             \/ at[o] = "aside" /\ at'[o] \in {"publish", "failed"}
             \/ at[o] = "move-aside" /\ at'[o] \in {"rename", "failed"},
             Phase(o)', Restored(o)'
      PROVE  Inv(o)'
  <2>1. \A x \in Parts : disk'[target[o]].parts[x] \in {OldOf(o), Mine(o), Nobody}
    BY <1>2, <1>4, ContentTypes DEF OneOf
  <2>2. at'[o] \notin Early
    BY <1>4 DEF Early
  <2>3. CASE at[o] = "aside"
    <3>1. WholeFile(target[o])'
      BY <1>1, <1>3, <1>4, <2>3, ContentTypes DEF WholeFile, AllOf, Chosen
    <3>2. at'[o] \in Copying \cup {"discard", "failed"}
      BY <1>4, <2>3 DEF Copying
    <3>3. QED BY <1>1, <1>4, <2>1, <2>2, <2>3, <3>1, <3>2, CopyOK
  <2>4. CASE at[o] = "move-aside"
    <3>1. SourceWhole(o, item[o])' /\ Kept(o, item[o])'
      BY <1>1, <1>4, <2>4, SourceStays
    <3>2. at'[o] \in Moving \cup {"discard", "failed"} /\ at'[o] # "move-entries"
      BY <1>4, <2>4 DEF Moving
    <3>3. \A x \in Parts : disk'[From(o)].parts[x] \in {Mine(o), Nobody}
      BY <1>2, <1>4 DEF OneOf
    <3>4. QED BY <1>1, <1>4, <2>1, <2>2, <2>4, <3>1, <3>2, <3>3, MoveOK
  <2>5. QED BY <1>1, <2>3, <2>4
<1>5. ASSUME NEW w, w = (IF at[o] = "aside" THEN "publish" ELSE "rename"), GoTo(o, w),
             Effect(o), ~Exists(target[o])',
             disk'[From(o)] = disk[From(o)], disk'[Staged(o)] = disk[Staged(o)],
             disk'[target[o]] \in {disk[target[o]], Absent},
             disk'[Backup(o)] = disk[target[o]] \/ UNCHANGED disk
      PROVE  Inv(o)'
  <2>1. at' \in [Ops -> Where] /\ at'[o] = w
    <3>1. w \in Where
      BY <1>5 DEF Where, Busy, Copying, Moving
    <3>2. QED BY <1>2, <1>5, <3>1, GoToIs
  <2>2. Overwrites(o) => Overwriting(o)'
    <3> SUFFICES ASSUME Overwrites(o) PROVE Overwriting(o)'
      OBVIOUS
    <3>1. OldAt(target[o], item[o])
      BY <1>3
    <3>2. OldAt(Backup(o), item[o])'
      <4>1. CASE disk'[Backup(o)] = disk[target[o]]
        BY <1>1, <1>2, <1>5, <3>1, <4>1, OldFollows
      <4>2. CASE UNCHANGED disk
        <5>1. OldAt(Backup(o), item[o])
          BY <1>1, <1>3, <1>5, <3>1, <4>2 DEF OldAt, Exists, Chosen
        <5>2. QED BY <1>1, <1>2, <1>5, <4>2, <5>1, OldFollows
      <4>3. QED BY <1>5, <4>1, <4>2
    <3>3. QED BY <1>5, <2>1, <3>2 DEF Overwriting
  <2>3. ~Overwrites(o) => Adding(o)'
    <3> SUFFICES ASSUME ~Overwrites(o) PROVE Adding(o)'
      OBVIOUS
    <3>1. ~Exists(target[o]) /\ ~Exists(Backup(o)) /\ OneOf(target[o], {Mine(o), Nobody})
      BY <1>3 DEF Adding
    <3>2. ~Exists(Backup(o))'
      BY <1>5, <3>1 DEF Exists
    <3>3. OneOf(target[o], {Mine(o), Nobody})'
      BY <1>1, <1>5, <3>1, ContentTypes DEF OneOf, Mine, Chosen
    <3>4. QED BY <1>5, <3>2, <3>3 DEF Adding
  <2>4. Phase(o)'
    <3>1. at'[o] = "publish" => Exists(Staged(o))' /\ AllOf(Staged(o), Mine(o))'
      BY <1>1, <1>3, <1>5, <2>1 DEF Exists, AllOf, Mine, Chosen
    <3>2. QED BY <1>1, <1>5, <2>1, <2>2, <2>3, <3>1 DEF Phase, Early, Overwrites, Chosen
  <2>5. Restored(o)'
    BY <1>5, <2>1 DEF Restored
  <2>6. QED BY <1>1, <1>4, <1>5, <2>1, <2>4, <2>5
<1>6. ASSUME NEW w, w = (IF at[o] = "aside" THEN "publish" ELSE "rename"), GoTo(o, w),
             Exists(target[o]), MoveAside(o)
      PROVE  Inv(o)'
  <2>1. Rename(target[o], Backup(o)) /\ target[o] \in Here(o) /\ Backup(o) \in Here(o)
    BY <1>6 DEF MoveAside, Here
  <2>2. /\ Effect(o) /\ disk'[Backup(o)] = disk[target[o]] /\ disk'[target[o]] = Absent
        /\ \A r \in Paths \ {target[o], Backup(o)} : disk'[r] = disk[r]
    BY <1>2, <2>1, RenameEffect
  <2>3. disk'[From(o)] = disk[From(o)] /\ disk'[Staged(o)] = disk[Staged(o)]
    BY <1>2, <2>2
  <2>4. ~Exists(target[o])'
    BY <1>1, <2>2, ContentTypes DEF Exists, Chosen
  <2>5. QED BY <1>5, <1>6, <2>2, <2>3, <2>4
<1>7. ASSUME NEW w, w = (IF at[o] = "aside" THEN "publish" ELSE "rename"), GoTo(o, w),
             ~Exists(target[o]), UNCHANGED disk
      PROVE  Inv(o)'
  <2>1. Effect(o) /\ ~Exists(target[o])'
    BY <1>1, <1>2, <1>7, SameEffect DEF Exists, Chosen
  <2>2. QED BY <1>5, <1>7, <2>1
<1>8. ASSUME UNCHANGED disk, Fail(o)
      PROVE  Inv(o)'
  <2>1. Effect(o)
    BY <1>2, <1>8, SameEffect
  <2>2. at' \in [Ops -> Where] /\ at'[o] = "failed"
    BY <1>2, <1>8, GoToIs DEF Where, Ended, Fail
  <2>3. Phase(o)'
    BY <2>2 DEF Phase, Early, Busy, Copying, Moving
  <2>4. Restored(o)'
    BY <1>1, <1>2, <1>3, <1>8, <2>1, OldFollows, RestoredIfOld
  <2>5. QED BY <1>1, <1>4, <1>8, <2>1, <2>2, <2>3, <2>4
<1>9. QED BY <1>6, <1>7, <1>8 DEF Aside

\* Publish keeps the invariant: a whole copy is at the target, or the old target again.
LEMMA PublishOK ==
  ASSUME NEW o, Ops = {o}, Inv(o), Publish(o)
  PROVE  Inv(o)'
<1>1. at[o] = "publish" /\ at[o] \in Copying /\ UNCHANGED Chosen
  BY DEF Publish, Copying
<1>2. /\ at[o] \in Busy /\ o \in Ops /\ item[o] \in 1..Items
      /\ DiskOK /\ TypeOK /\ Now(o)
      /\ From(o) \in Paths /\ target[o] \in Paths /\ Staged(o) \in Paths /\ Backup(o) \in Paths
      /\ From(o) # target[o] /\ From(o) # Staged(o) /\ From(o) # Backup(o)
      /\ target[o] # Staged(o) /\ target[o] # Backup(o) /\ Staged(o) # Backup(o)
      /\ Mine(o) # Nobody /\ OldOf(o) # Nobody /\ Mine(o) # OldOf(o)
      /\ OneOf(From(o), {Mine(o), Nobody})
      /\ OneOf(target[o], {OldOf(o), Mine(o), Nobody})
  BY <1>1, CopyFacts, BusyFacts
<1>3. /\ ~Exists(target[o]) /\ AllOf(Staged(o), Mine(o)) /\ SourceWhole(o, item[o])
      /\ Overwrites(o) => OldAt(Backup(o), item[o])
      /\ ~Overwrites(o) => ~Exists(Backup(o))
  <2>1. ~Exists(target[o]) /\ AllOf(Staged(o), Mine(o))
    BY <1>1, <1>2 DEF Now, Phase
  <2>2. SourceWhole(o, item[o]) /\ IF Overwrites(o) THEN Overwriting(o) ELSE Adding(o)
    BY <1>1, CopyFacts
  <2>3. QED BY <1>1, <2>1, <2>2 DEF Overwriting, Adding
<1>4. Mine(o) \in Origins \ {Nobody} /\ OldOf(o) \in Origins \ {Nobody}
  BY <1>2, OriginsDiffer DEF Mine, OldOf
<1>5. ASSUME Rename(Staged(o), target[o]), GoTo(o, "discard") PROVE Inv(o)'
  <2>1. Staged(o) \in Here(o) /\ target[o] \in Here(o)
    BY DEF Here
  <2>2. /\ Effect(o) /\ disk'[target[o]] = disk[Staged(o)] /\ disk'[Staged(o)] = Absent
        /\ \A r \in Paths \ {target[o], Staged(o)} : disk'[r] = disk[r]
    BY <1>2, <1>5, <2>1, RenameEffect
  <2>3. disk'[From(o)] = disk[From(o)] /\ disk'[Backup(o)] = disk[Backup(o)]
    BY <1>2, <2>2
  <2>4. at' \in [Ops -> Where] /\ at'[o] = "discard"
    BY <1>2, <1>5, GoToIs DEF Where, Busy
  <2>5. AllOf(target[o], Mine(o))'
    BY <1>1, <1>3, <2>2 DEF AllOf, Mine, Chosen
  <2>6. OneOf(Backup(o), {OldOf(o), Nobody})
    <3>1. CASE Exists(Backup(o))
      BY <1>3, <3>1 DEF OldAt, AllOf, OneOf, OldOf
    <3>2. CASE ~Exists(Backup(o))
      BY <1>2, <3>2, ContentTypes DEF DiskOK, Clean, OneOf
    <3>3. QED BY <3>1, <3>2
  <2>7. Phase(o)'
    <3>1. Overwrites(o) => Overwriting(o)'
      BY <2>4 DEF Overwriting
    <3>2. ~Overwrites(o) => Adding(o)'
      BY <1>3, <2>3, <2>4, <2>5 DEF Adding, AllOf, OneOf, Exists, Early
    <3>3. OneOf(Backup(o), {OldOf(o), Nobody})'
      BY <1>1, <2>3, <2>6 DEF OneOf, OldOf, Chosen
    <3>4. QED BY <1>1, <2>4, <2>5, <3>1, <3>2, <3>3 DEF Phase, Early, Overwrites, Chosen
  <2>8. Restored(o)' /\ WholeFile(target[o])'
    BY <1>1, <1>4, <2>4, <2>5 DEF Restored, WholeFile, AllOf, Mine, Chosen
  <2>9. \A x \in Parts : /\ disk'[target[o]].parts[x] \in {OldOf(o), Mine(o), Nobody}
                         /\ disk'[Staged(o)].parts[x] \in {Mine(o), Nobody, disk[Staged(o)].parts[x]}
    BY <1>3, <2>2, ContentTypes DEF AllOf
  <2>10. at'[o] \notin Early
    BY <2>4 DEF Early
  <2>11. QED BY <1>1, <2>2, <2>3, <2>4, <2>7, <2>8, <2>9, <2>10, CopyOK
<1>6. ASSUME Restore(o), Fail(o) PROVE Inv(o)'
  <2>0. target[o] \in Targets
    BY <1>2, BusyFacts
  <2>1. /\ Effect(o) /\ disk'[Staged(o)] = Absent /\ disk'[Backup(o)] = Absent
        /\ disk'[target[o]] = IF Exists(Backup(o)) THEN disk[Backup(o)] ELSE disk[target[o]]
        /\ \A p \in Paths \ {target[o], Staged(o), Backup(o)} : disk'[p] = disk[p]
    BY <1>2, <1>6, <2>0, RestoreEffect
  <2>2. disk'[From(o)] = disk[From(o)]
    BY <1>2, <2>1
  <2>3. at' \in [Ops -> Where] /\ at'[o] = "failed"
    BY <1>2, <1>6, GoToIs DEF Where, Ended, Fail
  <2>4. Phase(o)'
    BY <2>3 DEF Phase, Early, Busy, Copying, Moving
  <2>5. Overwrites(o) => OldAt(target[o], item[o])'
    <3>1. CASE Overwrites(o) /\ Exists(Backup(o))
      BY <1>1, <1>2, <1>3, <2>1, <3>1, OldFollows
    <3>2. CASE Overwrites(o) /\ ~Exists(Backup(o))
      <4>1. OldAt(target[o], item[o]) /\ disk'[target[o]] = disk[target[o]]
        BY <1>3, <2>1, <3>2 DEF OldAt
      <4>2. QED BY <1>1, <1>2, <2>1, <4>1, OldFollows
    <3>3. QED BY <3>1, <3>2
  <2>6. Restored(o)'
    BY <1>1, <2>5, RestoredIfOld
  <2>7. Exists(Backup(o)) => AllOf(Backup(o), OldOf(o))
    BY <1>3 DEF OldAt, OldOf
  <2>8. WholeFile(target[o])' /\ \A x \in Parts : disk'[target[o]].parts[x] \in {OldOf(o), Mine(o), Nobody}
    <3>1. CASE Exists(Backup(o))
      BY <1>1, <1>4, <2>1, <2>7, <3>1 DEF WholeFile, AllOf, Chosen
    <3>2. CASE ~Exists(Backup(o))
      BY <1>1, <1>2, <1>3, <2>1, <3>2 DEF WholeFile, Exists, OneOf, Chosen
    <3>3. QED BY <3>1, <3>2
  <2>9. at'[o] \notin Early /\ \A x \in Parts : Absent.parts[x] = Nobody
    BY <2>3, ContentTypes DEF Early
  <2>10. QED BY <1>1, <2>1, <2>2, <2>3, <2>4, <2>6, <2>8, <2>9, CopyOK
<1>7. QED BY <1>5, <1>6 DEF Publish

\* A source whose parts are all at the target, or still at the source, is kept.
LEMMA KeptThere ==
  ASSUME NEW o, Ops = {o}, Inv(o), at[o] \in Busy, NEW k, k = item[o], UNCHANGED target,
         \A x \in Parts : \/ disk'[target[o]].parts[x] = Mine(o)
                          \/ disk'[From(o)].parts[x] = Mine(o)
  PROVE  Kept(o, k)'
<1>1. PICK n \in 1..Copies : target[o] = Target(k, n)
  BY BusyFacts
<1>2. Copies' = Copies
  BY DEF Copies
<1>3. \A x \in Parts : \/ disk'[Target(k, n)].parts[x] = <<o, k>>
                       \/ disk'[Source(o, k)].parts[x] = <<o, k>>
  BY <1>1 DEF Mine, From
<1>4. QED BY <1>2, <1>3 DEF Kept

\* Discard keeps the invariant: the backup goes only when all of the source is at the target.
LEMMA DiscardOK ==
  ASSUME NEW o, Ops = {o}, Inv(o), Discard(o)
  PROVE  Inv(o)'
<1>1. at[o] = "discard" /\ UNCHANGED <<mode, policy, target>> /\ at[o] \in Busy
  BY DEF Discard, Busy
<1>2. /\ o \in Ops /\ item[o] \in 1..Items
      /\ DiskOK /\ TypeOK /\ Now(o)
      /\ From(o) \in Paths /\ target[o] \in Paths /\ Staged(o) \in Paths /\ Backup(o) \in Paths
      /\ From(o) # target[o] /\ From(o) # Staged(o) /\ From(o) # Backup(o)
      /\ target[o] # Staged(o) /\ target[o] # Backup(o) /\ Staged(o) # Backup(o)
      /\ Mine(o) # Nobody /\ OldOf(o) # Nobody /\ Mine(o) # OldOf(o)
      /\ OneOf(From(o), {Mine(o), Nobody})
      /\ OneOf(target[o], {OldOf(o), Mine(o), Nobody})
  BY <1>1, BusyFacts
<1>3. /\ AllOf(target[o], Mine(o)) /\ OneOf(Backup(o), {OldOf(o), Nobody})
      /\ ~Overwrites(o) => ~Exists(Backup(o))
      /\ mode[o] = "copy" => SourceWhole(o, item[o]) /\ WholeFile(target[o])
      /\ at \in [Ops -> Where] /\ Control(o)
  <2>1. /\ AllOf(target[o], Mine(o)) /\ OneOf(Backup(o), {OldOf(o), Nobody})
        /\ ~Overwrites(o) => ~Exists(Backup(o))
    BY <1>1, <1>2 DEF Now, Phase, Adding
  <2>2. mode[o] = "copy" => SourceWhole(o, item[o])
    BY <1>2 DEF Now
  <2>3. mode[o] = "copy" => WholeFile(target[o])
    BY <1>1, BusyFacts DEF Inv
  <2>4. at \in [Ops -> Where] /\ Control(o)
    BY <1>1, <1>2, BusyFacts DEF TypeOK, Where, Busy, Copying, Moving, Ended
  <2>5. QED BY <2>1, <2>2, <2>3, <2>4
<1>4. \A x \in Parts : disk[Staged(o)].parts[x] \in ({o} \X (1..Items)) \cup {Nobody}
  BY DEF Inv, Places, OneOf
\* Only the backup changes.
<1>5. ASSUME Effect(o), NEW k \in 1..Items, k = item[o],
             \A q \in Paths \ {Backup(o)} : disk'[q] = disk[q]
      PROVE  /\ \A x \in Parts :
                  /\ disk'[From(o)].parts[x] \in {Mine(o), Nobody}
                  /\ disk'[target[o]].parts[x] \in {OldOf(o), Mine(o), Nobody}
                  /\ disk'[Staged(o)].parts[x] \in ({o} \X (1..Items)) \cup {Nobody}
             /\ mode[o] = "copy" => WholeFile(target[o])' /\ SourceWhole(o, k)'
             /\ Kept(o, k)'
             /\ \A x \in Parts : disk'[target[o]].parts[x] = Mine(o)
  <2>1. /\ disk'[From(o)] = disk[From(o)] /\ disk'[target[o]] = disk[target[o]]
        /\ disk'[Staged(o)] = disk[Staged(o)]
    BY <1>2, <1>5
  <2>2. \A x \in Parts : disk'[target[o]].parts[x] = Mine(o)
    BY <1>3, <2>1 DEF AllOf
  <2>3. Kept(o, k)'
    BY <1>1, <1>5, <2>2, KeptThere
  <2>4. mode[o] = "copy" => WholeFile(target[o])' /\ SourceWhole(o, k)'
    BY <1>1, <1>3, <1>5, <2>1 DEF WholeFile, AllOf, SourceWhole, Exists, From
  <2>5. QED BY <1>2, <1>4, <2>1, <2>2, <2>3, <2>4 DEF OneOf
<1>6. PICK k \in 1..Items : k = item[o]
  BY <1>2
\* The process has done with the item,
<1>7. ASSUME Effect(o), Finish(o), ~Exists(Backup(o))',
             \A q \in Paths \ {Backup(o)} : disk'[q] = disk[q]
      PROVE  Inv(o)'
  BY <1>1, <1>5, <1>6, <1>7, FinishOK
\* stays at it, or fails.
<1>8. ASSUME Effect(o), UNCHANGED item, at' \in [Ops -> Where], at'[o] \in {"discard", "failed"},
             \A q \in Paths \ {Backup(o)} : disk'[q] = disk[q],
             \A x \in Parts : disk'[Backup(o)].parts[x] \in {OldOf(o), Nobody},
             ~Exists(Backup(o)) => ~Exists(Backup(o))'
      PROVE  Inv(o)'
  <2>1. UNCHANGED Chosen /\ disk'[target[o]] = disk[target[o]]
    BY <1>1, <1>2, <1>8 DEF Chosen
  <2>2. Phase(o)'
    <3>1. Overwrites(o) => Overwriting(o)'
      BY <1>8 DEF Overwriting
    <3>2. AllOf(target[o], Mine(o))'
      BY <1>3, <2>1 DEF AllOf, Mine, Chosen
    <3>3. ~Overwrites(o) => Adding(o)'
      BY <1>3, <1>8, <3>2 DEF Adding, AllOf, OneOf, Early
    <3>4. OneOf(Backup(o), {OldOf(o), Nobody})'
      BY <1>8, <2>1 DEF OneOf, OldOf, Chosen
    <3>5. QED
      BY <1>8, <2>1, <3>1, <3>2, <3>3, <3>4
         DEF Phase, Early, Overwrites, Chosen, Busy, Copying, Moving
  <2>3. Restored(o)'
    BY <1>3, <2>1 DEF Restored, AllOf, OneOf, Mine, Chosen
  <2>4. /\ Kept(o, item[o])'
        /\ mode[o] = "copy" => SourceWhole(o, item[o])'
    BY <1>5, <1>6, <1>8
  <2>5. at'[o] \in Late /\ at'[o] \notin Early
    BY <1>8 DEF Late, Early, Ended
  <2>6. Now(o)'
    BY <2>1, <2>2, <2>3, <2>4, <2>5 DEF Now, Chosen
  <2>7. Control(o)' /\ at'[o] # "done"
    BY <1>1, <1>3, <1>8, <2>1 DEF Control, Chosen, Overwrites, Copying, Moving, Busy
  <2>8. mode[o] = "copy" => WholeFile(target[o])'
    BY <1>5, <1>6, <1>8
  <2>9. \A x \in Parts : /\ disk'[From(o)].parts[x] \in {Mine(o), Nobody}
                         /\ disk'[target[o]].parts[x] \in {OldOf(o), Mine(o), Nobody}
                         /\ disk'[Staged(o)].parts[x] \in ({o} \X (1..Items)) \cup {Nobody}
    BY <1>5, <1>6, <1>8
  <2>10. QED BY <1>1, <1>8, <2>1, <2>6, <2>7, <2>8, <2>9, StayOK
<1>9. ASSUME Put(Backup(o), Absent), Finish(o) PROVE Inv(o)'
  <2>1. /\ Effect(o) /\ disk'[Backup(o)] = Absent
        /\ \A q \in Paths \ {Backup(o)} : disk'[q] = disk[q]
    BY <1>2, <1>9, PutEffect DEF Here
  <2>2. QED BY <1>7, <1>9, <2>1, ContentTypes DEF Exists
<1>10. ASSUME ~Exists(Backup(o)), Finish(o), UNCHANGED disk PROVE Inv(o)'
  BY <1>2, <1>7, <1>10, SameEffect DEF Exists
<1>11. ASSUME disk[Backup(o)].kind = "dir", NEW x \in Parts, PutPart(Backup(o), x, Nobody),
              UNCHANGED <<at, item>>
       PROVE  Inv(o)'
  <2>1. Backup(o) \in Here(o) /\ Exists(Backup(o))
    BY <1>11 DEF Here, Exists
  <2>2. /\ Effect(o)
        /\ \A q \in Paths \ {Backup(o)} : disk'[q] = disk[q]
        /\ \A y \in Parts : disk'[Backup(o)].parts[y]
                              = IF y = x THEN Nobody ELSE disk[Backup(o)].parts[y]
    BY <1>2, <1>11, <2>1, PutPartEffect
  <2>3. \A y \in Parts : disk'[Backup(o)].parts[y] \in {OldOf(o), Nobody}
    BY <1>3, <2>2 DEF OneOf
  <2>4. QED BY <1>1, <1>3, <1>8, <1>11, <2>1, <2>2, <2>3
<1>12. ASSUME Fail(o), UNCHANGED <<disk, item>> PROVE Inv(o)'
  <2>1. Effect(o)
    BY <1>2, <1>12, SameEffect
  <2>2. at' \in [Ops -> Where] /\ at'[o] = "failed"
    BY <1>2, <1>12, GoToIs DEF Where, Ended, Fail
  <2>3. \A x \in Parts : disk'[Backup(o)].parts[x] \in {OldOf(o), Nobody}
    BY <1>3, <1>12 DEF OneOf
  <2>4. ~Exists(Backup(o)) => ~Exists(Backup(o))'
    BY <1>12 DEF Exists
  <2>5. QED BY <1>8, <1>12, <2>1, <2>2, <2>3, <2>4
<1>13. QED BY <1>9, <1>10, <1>11, <1>12 DEF Discard

----------------------------------------------------------------------------
(* Moving, once the target is aside *)

\* So may a process whose backup, if there is one, comes back.
LEMMA RestoredIfBackup ==
  ASSUME NEW o \in Ops, Effect(o), UNCHANGED Chosen, item[o] \in 1..Items,
         Overwrites(o) => OldAt(Backup(o), item[o]),
         Exists(Backup(o)) => disk'[target[o]] = disk[Backup(o)]
  PROVE  Restored(o)'
<1>1. CASE Exists(Backup(o))
  BY <1>1, OldFollows, RestoredIfOld
<1>2. CASE ~Exists(Backup(o))
  <2>1. PICK i \in 1..Items : i = item[o]
    OBVIOUS
  <2>2. Overwrites(o) => OldGone(i)
    BY <1>2, <2>1 DEF OldAt
  <2>3. Overwrites(o) => OldGone(i)'
    BY <2>2, OldGoneKept
  <2>4. Overwrites(o)' => OldGone(item[o])'
    BY <2>1, <2>3 DEF Overwrites, Chosen
  <2>5. QED BY <2>4 DEF Restored
<1>3. QED BY <1>1, <1>2

\* The backup stands while the target changes.
LEMMA BackupStays ==
  ASSUME NEW o, Ops = {o}, Inv(o), at[o] \in {"rename", "move-copy", "move-remove"}, Effect(o),
         UNCHANGED Chosen, disk'[Backup(o)] = disk[Backup(o)]
  PROVE  /\ Overwrites(o) => Overwriting(o) /\ OldAt(Backup(o), item[o]) /\ OldAt(Backup(o), item[o])'
         /\ ~Overwrites(o) => ~Exists(Backup(o)) /\ ~Exists(Backup(o))'
         /\ OneOf(Backup(o), {OldOf(o), Nobody})'
<1>1. at[o] \in Moving /\ at[o] \in Busy
  BY DEF Moving, Busy
<1>2. /\ o \in Ops /\ item[o] \in 1..Items /\ DiskOK /\ Backup(o) \in Paths
      /\ IF Overwrites(o) THEN Overwriting(o) ELSE Adding(o)
  BY <1>1, BusyFacts, MoveFacts
<1>3. /\ Overwrites(o) => OldAt(Backup(o), item[o])
      /\ ~Overwrites(o) => ~Exists(Backup(o))
  BY <1>2 DEF Overwriting, Adding
<1>4. OneOf(Backup(o), {OldOf(o), Nobody})
  <2>1. CASE Exists(Backup(o))
    BY <1>3, <2>1 DEF OldAt, AllOf, OneOf, OldOf
  <2>2. CASE ~Exists(Backup(o))
    BY <1>2, <2>2, ContentTypes DEF DiskOK, Clean, OneOf
  <2>3. QED BY <2>1, <2>2
<1>5. OneOf(Backup(o), {OldOf(o), Nobody})'
  BY <1>4 DEF OneOf, OldOf, Chosen
<1>6. Overwrites(o) => OldAt(Backup(o), item[o])'
  BY <1>2, <1>3, OldFollows
<1>7. QED BY <1>2, <1>3, <1>5, <1>6 DEF Exists

\* MoveByRename keeps the invariant: the source is at the target, or a copy begins.
LEMMA MoveByRenameOK ==
  ASSUME NEW o, Ops = {o}, Inv(o), MoveByRename(o)
  PROVE  Inv(o)'
<1>1. /\ at[o] = "rename" /\ at[o] \in Moving /\ at[o] \in Moving \ Late /\ at[o] \in Busy
      /\ UNCHANGED Chosen
  BY DEF MoveByRename, Moving, Late, Ended, Busy
<1>2. /\ at[o] \in Busy /\ o \in Ops /\ item[o] \in 1..Items
      /\ DiskOK /\ TypeOK /\ Now(o)
      /\ From(o) \in Paths /\ target[o] \in Paths /\ Staged(o) \in Paths /\ Backup(o) \in Paths
      /\ From(o) # target[o] /\ From(o) # Staged(o) /\ From(o) # Backup(o)
      /\ target[o] # Staged(o) /\ target[o] # Backup(o) /\ Staged(o) # Backup(o)
      /\ Mine(o) # Nobody /\ OldOf(o) # Nobody /\ Mine(o) # OldOf(o)
      /\ OneOf(From(o), {Mine(o), Nobody})
      /\ OneOf(target[o], {OldOf(o), Mine(o), Nobody})
  BY <1>1, BusyFacts
<1>3. /\ ~Exists(target[o]) /\ SourceWhole(o, item[o])
  BY <1>1, <1>2, MoveFacts DEF Now, Phase
<1>4. AllOf(From(o), Mine(o)) /\ Exists(From(o)) /\ disk[From(o)].kind \in {"file", "dir"}
  <2>1. AllOf(From(o), Mine(o)) /\ Exists(From(o))
    BY <1>3 DEF SourceWhole, From, Mine
  <2>2. QED BY <1>2, <2>1 DEF DiskOK, Contents, Exists
<1>5. ASSUME Rename(From(o), target[o]), GoTo(o, "discard") PROVE Inv(o)'
  <2>1. From(o) \in Here(o) /\ target[o] \in Here(o)
    BY DEF Here
  <2>2. /\ Effect(o) /\ disk'[target[o]] = disk[From(o)] /\ disk'[From(o)] = Absent
        /\ \A r \in Paths \ {target[o], From(o)} : disk'[r] = disk[r]
    BY <1>2, <1>5, <2>1, RenameEffect
  <2>3. disk'[Staged(o)] = disk[Staged(o)] /\ disk'[Backup(o)] = disk[Backup(o)]
    BY <1>2, <2>2
  <2>4. at' \in [Ops -> Where] /\ at'[o] = "discard"
    BY <1>2, <1>5, GoToIs DEF Where, Busy
  <2>5. \A x \in Parts : /\ disk'[target[o]].parts[x] = Mine(o)
                         /\ disk'[From(o)].parts[x] = Nobody
    BY <1>4, <2>2, ContentTypes DEF AllOf
  <2>6. Kept(o, item[o])'
    <3>1. PICK k : k = item[o]
      OBVIOUS
    <3>2. Kept(o, k)'
      BY <1>1, <2>5, <3>1, KeptThere DEF Chosen
    <3>3. QED BY <1>1, <3>1, <3>2 DEF Chosen
  <2>7. /\ ~Overwrites(o) => ~Exists(Backup(o))'
        /\ OneOf(Backup(o), {OldOf(o), Nobody})'
    BY <1>1, <2>2, <2>3, BackupStays
  <2>8. Phase(o)'
    <3>1. Overwrites(o) => Overwriting(o)'
      BY <2>4 DEF Overwriting
    <3>2. AllOf(target[o], Mine(o))'
      BY <1>1, <2>5 DEF AllOf, Mine, Chosen
    <3>3. ~Overwrites(o) => Adding(o)'
      BY <2>4, <2>7, <3>2 DEF Adding, AllOf, OneOf, Early
    <3>4. QED BY <1>1, <2>4, <2>7, <3>1, <3>2, <3>3 DEF Phase, Early, Overwrites, Chosen
  <2>9. Restored(o)' /\ at'[o] \in Late /\ at'[o] \notin Early
    BY <2>4 DEF Restored, Late, Early
  <2>10. QED BY <1>1, <2>2, <2>3, <2>4, <2>5, <2>6, <2>8, <2>9, MoveOK
<1>6. ASSUME Put(target[o], Empty(disk[From(o)].kind)), GoTo(o, "move-copy") PROVE Inv(o)'
  <2>1. /\ Effect(o) /\ disk'[target[o]] = Empty(disk[From(o)].kind)
        /\ \A q \in Paths \ {target[o]} : disk'[q] = disk[q]
    BY <1>2, <1>4, <1>6, PutEffect DEF Here
  <2>2. /\ disk'[From(o)] = disk[From(o)] /\ disk'[Staged(o)] = disk[Staged(o)]
        /\ disk'[Backup(o)] = disk[Backup(o)]
        /\ \A x \in Parts : disk'[target[o]].parts[x] = Nobody
    BY <1>2, <1>4, <2>1, ContentTypes
  <2>3. at' \in [Ops -> Where] /\ at'[o] = "move-copy"
    BY <1>2, <1>6, GoToIs DEF Where, Busy, Moving
  <2>4. SourceWhole(o, item[o])' /\ Kept(o, item[o])'
    BY <1>1, <2>2, SourceStays
  <2>5. Phase(o)'
    <3>1. /\ Overwrites(o) => OldAt(Backup(o), item[o])'
          /\ ~Overwrites(o) => ~Exists(Backup(o))'
      BY <1>1, <2>1, <2>2, BackupStays
    <3>2. OneOf(target[o], {Mine(o), Nobody})'
      BY <1>1, <2>2 DEF OneOf, Chosen
    <3>3. Overwrites(o) => Overwriting(o)'
      BY <2>3, <3>1 DEF Overwriting
    <3>4. ~Overwrites(o) => Adding(o)'
      BY <2>3, <3>1, <3>2 DEF Adding, Early
    <3>5. QED BY <1>1, <2>3, <3>2, <3>3, <3>4 DEF Phase, Early, Overwrites, Chosen
  <2>6. Restored(o)' /\ at'[o] \notin Early /\ at'[o] \in Moving
    BY <2>3 DEF Restored, Early, Moving
  <2>7. \A x \in Parts : disk'[From(o)].parts[x] \in {Mine(o), Nobody}
    BY <1>2, <2>2 DEF OneOf
  <2>8. QED BY <1>1, <2>1, <2>2, <2>3, <2>4, <2>5, <2>6, <2>7, MoveOK
<1>7. QED BY <1>3, <1>5, <1>6 DEF MoveByRename, Exists

\* MoveCopy keeps the invariant: the source stays until its copy is complete.
LEMMA MoveCopyOK ==
  ASSUME NEW o, Ops = {o}, Inv(o), MoveCopy(o)
  PROVE  Inv(o)'
<1>1. /\ at[o] = "move-copy" /\ at[o] \in Moving /\ at[o] \in Moving \ Late /\ at[o] \in Busy
      /\ UNCHANGED Chosen
  BY DEF MoveCopy, Moving, Late, Ended, Busy
<1>2. /\ at[o] \in Busy /\ o \in Ops /\ item[o] \in 1..Items
      /\ DiskOK /\ TypeOK /\ Now(o)
      /\ From(o) \in Paths /\ target[o] \in Paths /\ Staged(o) \in Paths /\ Backup(o) \in Paths
      /\ From(o) # target[o] /\ From(o) # Staged(o) /\ From(o) # Backup(o)
      /\ target[o] # Staged(o) /\ target[o] # Backup(o) /\ Staged(o) # Backup(o)
      /\ Mine(o) # Nobody /\ OldOf(o) # Nobody /\ Mine(o) # OldOf(o)
      /\ OneOf(From(o), {Mine(o), Nobody})
      /\ OneOf(target[o], {OldOf(o), Mine(o), Nobody})
  BY <1>1, BusyFacts
<1>3. /\ OneOf(target[o], {Mine(o), Nobody}) /\ SourceWhole(o, item[o]) /\ Exists(From(o))
      /\ at \in [Ops -> Where]
  <2>1. OneOf(target[o], {Mine(o), Nobody}) /\ SourceWhole(o, item[o])
    BY <1>1, <1>2, MoveFacts DEF Now, Phase
  <2>2. Exists(From(o))
    BY <2>1 DEF SourceWhole, From
  <2>3. at \in [Ops -> Where]
    BY <1>2 DEF TypeOK, Where, Busy, Copying, Moving, Ended
  <2>4. QED BY <2>1, <2>2, <2>3
\* The source stays, the target is a copy in the making or complete.
<1>4. ASSUME Effect(o), at' \in [Ops -> Where], at'[o] \in {"move-copy", "move-remove"},
             disk'[From(o)] = disk[From(o)], disk'[Staged(o)] = disk[Staged(o)],
             disk'[Backup(o)] = disk[Backup(o)],
             \A x \in Parts : disk'[target[o]].parts[x] \in {Mine(o), Nobody},
             at'[o] = "move-remove" => \A x \in Parts : disk'[target[o]].parts[x] = Mine(o)
      PROVE  Inv(o)'
  <2>1. SourceWhole(o, item[o])' /\ Kept(o, item[o])'
    BY <1>1, <1>4, SourceStays
  <2>2. Phase(o)'
    <3>1. /\ Overwrites(o) => OldAt(Backup(o), item[o])'
          /\ ~Overwrites(o) => ~Exists(Backup(o))'
      BY <1>1, <1>4, BackupStays
    <3>2. /\ OneOf(target[o], {Mine(o), Nobody})'
          /\ at'[o] = "move-remove" => AllOf(target[o], Mine(o))'
      BY <1>1, <1>4 DEF OneOf, AllOf, Mine, Chosen
    <3>3. Overwrites(o) => Overwriting(o)'
      BY <1>4, <3>1 DEF Overwriting
    <3>4. ~Overwrites(o) => Adding(o)'
      BY <1>4, <3>1, <3>2 DEF Adding, Early
    <3>5. QED BY <1>1, <1>4, <3>2, <3>3, <3>4 DEF Phase, Early, Overwrites, Chosen
  <2>3. /\ Restored(o)' /\ at'[o] \notin Early /\ at'[o] \in Moving
        /\ at'[o] # "move-entries"
    BY <1>4 DEF Restored, Early, Moving
  <2>4. \A x \in Parts : disk'[From(o)].parts[x] \in {Mine(o), Nobody}
    BY <1>2, <1>4 DEF OneOf
  <2>5. QED BY <1>1, <1>4, <2>1, <2>2, <2>3, <2>4, MoveOK
<1>5. ASSUME PutEntry(o), UNCHANGED at PROVE Inv(o)'
  <2>0. Exists(target[o])
    BY <1>3, <1>5 DEF PutEntry, Exists
  <2>1. /\ Effect(o)
        /\ \A q \in Paths \ {target[o]} : disk'[q] = disk[q]
        /\ \A y \in Parts : disk'[target[o]].parts[y] \in {Mine(o), Nobody, disk[target[o]].parts[y]}
    BY <1>1, <1>5, <2>0, PutEntryEffect
  <2>2. \A y \in Parts : disk'[target[o]].parts[y] \in {Mine(o), Nobody}
    BY <1>3, <2>1 DEF OneOf
  <2>3. QED BY <1>1, <1>2, <1>3, <1>4, <1>5, <2>1, <2>2
<1>6. ASSUME Missing(target[o], Mine(o)) = {}, GoTo(o, "move-remove"), UNCHANGED disk PROVE Inv(o)'
  <2>1. Effect(o)
    BY <1>2, <1>6, SameEffect
  <2>2. at' \in [Ops -> Where] /\ at'[o] = "move-remove"
    BY <1>2, <1>6, GoToIs DEF Where, Busy, Moving
  <2>3. \A x \in Parts : disk'[target[o]].parts[x] = Mine(o)
    BY <1>6 DEF Missing
  <2>4. QED BY <1>4, <1>6, <2>1, <2>2, <2>3
<1>7. ASSUME Restore(o), Fail(o) PROVE Inv(o)'
  <2>0. target[o] \in Targets
    BY <1>1, BusyFacts
  <2>1. /\ Effect(o) /\ disk'[Staged(o)] = Absent /\ disk'[Backup(o)] = Absent
        /\ disk'[target[o]] = IF Exists(Backup(o)) THEN disk[Backup(o)] ELSE disk[target[o]]
        /\ \A p \in Paths \ {target[o], Staged(o), Backup(o)} : disk'[p] = disk[p]
    BY <1>2, <1>7, <2>0, RestoreEffect
  <2>2. disk'[From(o)] = disk[From(o)]
    BY <1>2, <2>1
  <2>3. at' \in [Ops -> Where] /\ at'[o] = "failed"
    BY <1>2, <1>7, GoToIs DEF Where, Ended, Fail
  <2>4. Phase(o)'
    BY <2>3 DEF Phase, Early, Busy, Copying, Moving
  <2>5. /\ Overwrites(o) => OldAt(Backup(o), item[o])
        /\ ~Overwrites(o) => ~Exists(Backup(o))
    BY <1>1, MoveFacts DEF Overwriting, Adding
  <2>6. Restored(o)'
    BY <1>1, <1>2, <2>1, <2>5, RestoredIfBackup
  <2>7. SourceWhole(o, item[o])' /\ Kept(o, item[o])'
    BY <1>1, <2>2, SourceStays
  <2>8. \A x \in Parts : disk'[target[o]].parts[x] \in {OldOf(o), Mine(o), Nobody}
    <3>1. Exists(Backup(o)) => AllOf(Backup(o), OldOf(o))
      BY <2>5 DEF OldAt, OldOf
    <3>2. QED BY <1>2, <2>1, <3>1 DEF OneOf, AllOf
  <2>9. /\ at'[o] \notin Early /\ \A x \in Parts : Absent.parts[x] = Nobody
        /\ \A x \in Parts : disk'[From(o)].parts[x] \in {Mine(o), Nobody}
    BY <1>2, <2>2, <2>3, ContentTypes DEF Early, OneOf
  <2>10. QED BY <1>1, <2>1, <2>3, <2>4, <2>6, <2>7, <2>8, <2>9, MoveOK
<1>8. QED BY <1>5, <1>6, <1>7 DEF MoveCopy

\* RemoveSource keeps the invariant: of the source only goes what is at the target, unless
\* its removal fails half-way.
LEMMA RemoveSourceOK ==
  ASSUME NEW o, Ops = {o}, Inv(o), RemoveSource(o)
  PROVE  Inv(o)'
<1>1. /\ at[o] = "move-remove" /\ at[o] \in Moving /\ at[o] \in Busy /\ UNCHANGED Chosen
  BY DEF RemoveSource, MayRemove, Moving, Busy
<1>2. /\ at[o] \in Busy /\ o \in Ops /\ item[o] \in 1..Items
      /\ DiskOK /\ TypeOK /\ Now(o)
      /\ From(o) \in Paths /\ target[o] \in Paths /\ Staged(o) \in Paths /\ Backup(o) \in Paths
      /\ From(o) # target[o] /\ From(o) # Staged(o) /\ From(o) # Backup(o)
      /\ target[o] # Staged(o) /\ target[o] # Backup(o) /\ Staged(o) # Backup(o)
      /\ Mine(o) # Nobody /\ OldOf(o) # Nobody /\ Mine(o) # OldOf(o)
      /\ OneOf(From(o), {Mine(o), Nobody})
      /\ OneOf(target[o], {OldOf(o), Mine(o), Nobody})
  BY <1>1, BusyFacts
<1>3. /\ AllOf(target[o], Mine(o)) /\ at \in [Ops -> Where]
  BY <1>1, <1>2 DEF Now, Phase, TypeOK, Where, Busy, Copying, Moving, Ended
\* The copy is complete: what becomes of the source does not matter.
<1>4. ASSUME Effect(o), at' \in [Ops -> Where], at'[o] \in {"move-remove", "discard"},
             disk'[target[o]] = disk[target[o]], disk'[Staged(o)] = disk[Staged(o)],
             disk'[Backup(o)] = disk[Backup(o)],
             \A x \in Parts : disk'[From(o)].parts[x] \in {Mine(o), Nobody}
      PROVE  Inv(o)'
  <2>1. \A x \in Parts : disk'[target[o]].parts[x] = Mine(o)
    BY <1>3, <1>4 DEF AllOf
  <2>2. Kept(o, item[o])'
    <3>1. PICK k : k = item[o]
      OBVIOUS
    <3>2. Kept(o, k)'
      BY <1>1, <2>1, <3>1, KeptThere DEF Chosen
    <3>3. QED BY <1>1, <3>1, <3>2 DEF Chosen
  <2>3. Phase(o)'
    <3>1. /\ Overwrites(o) => OldAt(Backup(o), item[o])'
          /\ ~Overwrites(o) => ~Exists(Backup(o))'
          /\ OneOf(Backup(o), {OldOf(o), Nobody})'
      BY <1>1, <1>4, BackupStays
    <3>2. AllOf(target[o], Mine(o))'
      BY <1>1, <2>1 DEF AllOf, Mine, Chosen
    <3>3. Overwrites(o) => Overwriting(o)'
      BY <1>4, <3>1 DEF Overwriting
    <3>4. ~Overwrites(o) => Adding(o)'
      BY <1>4, <3>1, <3>2 DEF Adding, AllOf, OneOf, Early
    <3>5. QED BY <1>1, <1>4, <3>1, <3>2, <3>3, <3>4 DEF Phase, Early, Overwrites, Chosen
  <2>4. /\ Restored(o)' /\ at'[o] \notin Early /\ at'[o] \in Late
        /\ at'[o] \in Moving \cup {"discard", "failed"} /\ at'[o] # "move-entries"
    BY <1>4 DEF Restored, Early, Late, Moving
  <2>5. QED BY <1>1, <1>4, <2>1, <2>2, <2>3, <2>4, MoveOK
<1>5. ASSUME Put(From(o), Absent), GoTo(o, "discard") PROVE Inv(o)'
  <2>1. /\ Effect(o) /\ disk'[From(o)] = Absent
        /\ \A q \in Paths \ {From(o)} : disk'[q] = disk[q]
    BY <1>2, <1>5, PutEffect DEF Here
  <2>2. at' \in [Ops -> Where] /\ at'[o] = "discard"
    BY <1>2, <1>5, GoToIs DEF Where, Busy
  <2>3. QED BY <1>2, <1>4, <2>1, <2>2, ContentTypes
<1>6. ASSUME disk[From(o)].kind = "dir", NEW x \in Parts, PutPart(From(o), x, Nobody), UNCHANGED at
      PROVE  Inv(o)'
  <2>1. From(o) \in Here(o) /\ Exists(From(o))
    BY <1>6 DEF Here, Exists
  <2>2. /\ Effect(o)
        /\ \A q \in Paths \ {From(o)} : disk'[q] = disk[q]
        /\ \A y \in Parts : disk'[From(o)].parts[y]
                              = IF y = x THEN Nobody ELSE disk[From(o)].parts[y]
    BY <1>2, <1>6, <2>1, PutPartEffect
  <2>3. \A y \in Parts : disk'[From(o)].parts[y] \in {Mine(o), Nobody}
    BY <1>2, <2>2 DEF OneOf
  <2>4. QED BY <1>1, <1>2, <1>3, <1>4, <1>6, <2>2, <2>3
\* The copy goes, and the source is as it was.
<1>7. ASSUME PartialRemoval \/ Missing(From(o), Mine(o)) = {}, Fail(o),
             disk' = IF Exists(Backup(o))
                       THEN [disk EXCEPT ![target[o]] = disk[Backup(o)], ![Backup(o)] = Absent]
                       ELSE [disk EXCEPT ![target[o]] = Absent]
      PROVE  Inv(o)'
  <2>1. disk'[target[o]] = IF Exists(Backup(o)) THEN disk[Backup(o)] ELSE Absent
    BY <1>2, <1>7 DEF DiskOK
  <2>2. /\ Effect(o)
        /\ \A q \in Paths \ {target[o], Backup(o)} : disk'[q] = disk[q]
    <3>1. CASE Exists(Backup(o))
      <4>1. /\ disk' \in [Paths -> Contents] /\ disk'[Backup(o)] = Absent
            /\ disk'[target[o]] = disk[Backup(o)]
            /\ \A q \in Paths \ {target[o], Backup(o)} : disk'[q] = disk[q]
        BY <1>2, <1>7, <3>1, ContentTypes DEF DiskOK
      <4>2. QED BY <1>2, <4>1, ContentTypes DEF Effect, DiskOK, Clean, Exists, Here
    <3>2. CASE ~Exists(Backup(o))
      <4>1. Put(target[o], Absent) /\ target[o] \in Here(o)
        BY <1>7, <3>2 DEF Put, Here
      <4>2. QED BY <1>2, <4>1, PutEffect
    <3>3. QED BY <3>1, <3>2
  <2>3. disk'[From(o)] = disk[From(o)] /\ disk'[Staged(o)] = disk[Staged(o)]
    BY <1>2, <2>2
  <2>4. at' \in [Ops -> Where] /\ at'[o] = "failed"
    BY <1>2, <1>7, GoToIs DEF Where, Ended, Fail
  <2>5. Phase(o)'
    BY <2>4 DEF Phase, Early, Busy, Copying, Moving
  <2>6. /\ Overwrites(o) => OldAt(Backup(o), item[o])
        /\ ~Overwrites(o) => ~Exists(Backup(o))
    BY <1>1, MoveFacts DEF Overwriting, Adding
  <2>7. Restored(o)'
    BY <1>1, <1>2, <2>1, <2>2, <2>6, RestoredIfBackup
  <2>8. \A x \in Parts : disk'[From(o)].parts[x] \in {Mine(o), Nobody}
    BY <1>2, <2>3 DEF OneOf
  <2>9. Kept(o, item[o])'
    <3>1. CASE PartialRemoval
      BY <3>1 DEF Kept
    <3>2. CASE ~PartialRemoval
      <4>1. PICK k : k = item[o]
        OBVIOUS
      <4>2. \A x \in Parts : disk'[From(o)].parts[x] = Mine(o)
        BY <1>7, <2>3, <3>2 DEF Missing
      <4>3. Kept(o, k)'
        BY <1>1, <4>1, <4>2, KeptThere DEF Chosen
      <4>4. QED BY <1>1, <4>1, <4>3 DEF Chosen
    <3>3. QED BY <3>1, <3>2
  <2>10. \A x \in Parts : disk'[target[o]].parts[x] \in {OldOf(o), Mine(o), Nobody}
    <3>1. Exists(Backup(o)) => AllOf(Backup(o), OldOf(o))
      BY <2>6 DEF OldAt, OldOf
    <3>2. QED BY <2>1, <3>1, ContentTypes DEF AllOf
  <2>11. at'[o] \notin Early /\ at'[o] \in Late
    BY <2>4 DEF Early, Late, Ended
  <2>12. QED
    BY <1>1, <2>2, <2>3, <2>4, <2>5, <2>7, <2>8, <2>9, <2>10, <2>11, MoveOK
<1>8. CASE Put(From(o), Absent) /\ GoTo(o, "discard")
  BY <1>5, <1>8
<1>9. CASE /\ disk[From(o)].kind = "dir" /\ UNCHANGED at
           /\ \E x \in Missing(From(o), Nobody) : PutPart(From(o), x, Nobody)
  BY <1>6, <1>9 DEF Missing
<1>10. QED BY <1>7, <1>8, <1>9 DEF RemoveSource

EntryMoves(p, q, x) ==
  disk' = [disk EXCEPT ![q].parts[x] = disk[p].parts[x], ![p].parts[x] = Nobody]

\* An entry that moves leaves the source and is at the target.
LEMMA MoveEntryEffect ==
  ASSUME DiskOK, NEW o, NEW p \in Paths, NEW q \in Paths, p # q, p \in Here(o), q \in Here(o),
         Exists(p), Exists(q), NEW x \in Parts, EntryMoves(p, q, x)
  PROVE  /\ Effect(o)
         /\ \A r \in Paths \ {p, q} : disk'[r] = disk[r]
         /\ disk'[q].kind = disk[q].kind
         /\ \A y \in Parts :
              /\ disk'[q].parts[y] = IF y = x THEN disk[p].parts[x] ELSE disk[q].parts[y]
              /\ disk'[p].parts[y] = IF y = x THEN Nobody ELSE disk[p].parts[y]
<1>1. disk[p] \in Contents /\ disk[q] \in Contents /\ Nobody \in Origins
  BY DEF DiskOK, Origins
<1>2. disk[p].parts[x] \in Origins
  BY <1>1 DEF Contents
<1>3. PICK d : d = [disk EXCEPT ![q].parts[x] = disk[p].parts[x]]
  OBVIOUS
<1>4. /\ d \in [Paths -> Contents] /\ d[p] = disk[p]
      /\ \A r \in Paths \ {q} : d[r] = disk[r]
      /\ d[q].kind = disk[q].kind
      /\ \A y \in Parts : d[q].parts[y] = IF y = x THEN disk[p].parts[x] ELSE disk[q].parts[y]
  BY <1>1, <1>2, <1>3 DEF DiskOK, Contents
<1>5. disk' = [d EXCEPT ![p].parts[x] = Nobody]
  BY <1>3 DEF EntryMoves
<1>6. /\ disk' \in [Paths -> Contents] /\ disk'[q] = d[q]
      /\ \A r \in Paths \ {p} : disk'[r] = d[r]
      /\ disk'[p].kind = disk[p].kind
      /\ \A y \in Parts : disk'[p].parts[y] = IF y = x THEN Nobody ELSE disk[p].parts[y]
  <2>1. d[p] \in Contents /\ Nobody \in Origins /\ d \in [Paths -> Contents]
    BY <1>1, <1>4
  <2>2. [d[p] EXCEPT !.parts[x] = Nobody] \in Contents
    BY <2>1 DEF Contents
  <2>3. disk' = [d EXCEPT ![p] = [d[p] EXCEPT !.parts[x] = Nobody]]
    BY <1>5
  <2>4. /\ disk' \in [Paths -> Contents] /\ disk'[q] = d[q]
        /\ \A r \in Paths \ {p} : disk'[r] = d[r]
        /\ disk'[p] = [d[p] EXCEPT !.parts[x] = Nobody]
    BY <2>1, <2>2, <2>3
  <2>5. QED BY <1>4, <2>1, <2>4 DEF Contents
<1>7. QED BY <1>4, <1>6 DEF Effect, DiskOK, Clean, Exists

\* MoveEntries keeps the invariant: each entry is at the source or at the target.
LEMMA MoveEntriesOK ==
  ASSUME NEW o, Ops = {o}, Inv(o), MoveEntries(o)
  PROVE  Inv(o)'
<1>1. /\ at[o] = "move-entries" /\ at[o] \in Moving /\ at[o] \in Busy
      /\ UNCHANGED <<mode, policy, target>>
  BY DEF MoveEntries, Moving, Busy
<1>2. /\ at[o] \in Busy /\ o \in Ops /\ item[o] \in 1..Items
      /\ DiskOK /\ TypeOK /\ Now(o)
      /\ From(o) \in Paths /\ target[o] \in Paths /\ Staged(o) \in Paths /\ Backup(o) \in Paths
      /\ From(o) # target[o] /\ From(o) # Staged(o) /\ From(o) # Backup(o)
      /\ target[o] # Staged(o) /\ target[o] # Backup(o) /\ Staged(o) # Backup(o)
      /\ Mine(o) # Nobody /\ OldOf(o) # Nobody /\ Mine(o) # OldOf(o)
      /\ OneOf(From(o), {Mine(o), Nobody})
      /\ OneOf(target[o], {OldOf(o), Mine(o), Nobody})
  BY <1>1, BusyFacts
<1>3. /\ Overwrites(o) /\ mode[o] = "move" /\ ~Exists(Backup(o)) /\ Kept(o, item[o])
      /\ disk[target[o]].kind = "dir" /\ Exists(target[o])
      /\ OneOf(target[o], {OldOf(o), Mine(o)}) \/ OldGone(item[o])
      /\ at \in [Ops -> Where]
  <2>1. Overwrites(o) /\ mode[o] = "move" /\ ~Exists(Backup(o)) /\ Kept(o, item[o])
    BY <1>1, <1>2, BusyFacts, MoveFacts DEF Control
  <2>2. disk[target[o]].kind = "dir" /\ Exists(target[o])
    BY <1>1, <1>2 DEF Now, Phase, Exists
  <2>3. OneOf(target[o], {OldOf(o), Mine(o)}) \/ OldGone(item[o])
    BY <1>1, <2>1, MoveFacts DEF Overwriting
  <2>4. at \in [Ops -> Where]
    BY <1>2 DEF TypeOK, Where, Busy, Copying, Moving, Ended
  <2>5. QED BY <2>1, <2>2, <2>3, <2>4
<1>4. PICK k \in 1..Items, n \in 1..Copies : k = item[o] /\ target[o] = Target(k, n)
  BY <1>1, <1>2, BusyFacts
<1>5. \A x \in Parts : disk[Staged(o)].parts[x] \in ({o} \X (1..Items)) \cup {Nobody}
  BY DEF Inv, Places, OneOf
<1>6. ASSUME NEW x \in Missing(From(o), Nobody), UNCHANGED <<at, item>>,
             disk' = [disk EXCEPT ![target[o]].parts[x] = disk[From(o)].parts[x],
                                  ![From(o)].parts[x] = Nobody]
      PROVE  Inv(o)'
  <2>1. x \in Parts /\ disk[From(o)].parts[x] = Mine(o) /\ UNCHANGED Chosen
    BY <1>1, <1>2, <1>6 DEF Missing, OneOf, Chosen
  <2>2. Exists(From(o)) /\ From(o) \in Here(o) /\ target[o] \in Here(o)
    BY <1>2, <2>1, ContentTypes DEF DiskOK, Clean, Here
  <2>3. /\ Effect(o)
        /\ \A r \in Paths \ {From(o), target[o]} : disk'[r] = disk[r]
        /\ disk'[target[o]].kind = disk[target[o]].kind
        /\ \A y \in Parts :
             /\ disk'[target[o]].parts[y] = IF y = x THEN Mine(o) ELSE disk[target[o]].parts[y]
             /\ disk'[From(o)].parts[y] = IF y = x THEN Nobody ELSE disk[From(o)].parts[y]
    <3>1. /\ Effect(o)
          /\ \A r \in Paths \ {From(o), target[o]} : disk'[r] = disk[r]
          /\ disk'[target[o]].kind = disk[target[o]].kind
          /\ \A y \in Parts :
               /\ disk'[target[o]].parts[y]
                    = IF y = x THEN disk[From(o)].parts[x] ELSE disk[target[o]].parts[y]
               /\ disk'[From(o)].parts[y] = IF y = x THEN Nobody ELSE disk[From(o)].parts[y]
      <4>1. DiskOK /\ From(o) \in Paths /\ target[o] \in Paths /\ From(o) # target[o] /\ x \in Parts
        BY <1>2, <2>1
      <4>2. From(o) \in Here(o) /\ target[o] \in Here(o) /\ Exists(From(o)) /\ Exists(target[o])
        BY <1>3, <2>2
      <4>3. EntryMoves(From(o), target[o], x)
        BY <1>6 DEF EntryMoves
      <4>4. QED BY <4>1, <4>2, <4>3, MoveEntryEffect
    <3>2. QED BY <2>1, <3>1
  <2>4. disk'[Staged(o)] = disk[Staged(o)] /\ disk'[Backup(o)] = disk[Backup(o)]
    BY <1>2, <2>3
  <2>5. Kept(o, k)'
    <3>1. \A m \in 1..Copies : disk'[Target(k, m)] = disk[Target(k, m)] \/ Target(k, m) = target[o]
      BY <1>1, <1>4, <2>3, NamesKept
    <3>2. ASSUME NEW y \in Parts, ~PartialRemoval
          PROVE  \/ disk'[Source(o, k)].parts[y] = <<o, k>>
                 \/ \E m \in 1..Copies : disk'[Target(k, m)].parts[y] = <<o, k>>
      <4>1. CASE y = x
        BY <1>4, <2>3, <4>1 DEF Mine
      <4>2. CASE y # x /\ disk[Source(o, k)].parts[y] = <<o, k>>
        BY <1>4, <2>3, <4>2 DEF From
      <4>3. CASE y # x /\ \E m \in 1..Copies : disk[Target(k, m)].parts[y] = <<o, k>>
        <5>1. PICK m \in 1..Copies : disk[Target(k, m)].parts[y] = <<o, k>>
          BY <4>3
        <5>2. disk'[Target(k, m)].parts[y] = <<o, k>>
          BY <2>3, <3>1, <4>3, <5>1
        <5>3. QED BY <5>2
      <4>4. QED BY <1>3, <1>4, <3>2, <4>1, <4>2, <4>3 DEF Kept
    <3>3. QED BY <3>2 DEF Kept, Copies
  <2>6. Kept(o, item[o])'
    BY <1>4, <1>6, <2>5
  <2>7. OldGone(item[o]) => OldGone(item[o])'
    <3>1. OldGone(k) => OldGone(k)'
      BY <1>2, <2>3, OldGoneKept
    <3>2. QED BY <1>4, <1>6, <3>1
  <2>8. Phase(o)'
    <3>1. OneOf(target[o], {OldOf(o), Mine(o)}) => OneOf(target[o], {OldOf(o), Mine(o)})'
      BY <2>1, <2>3 DEF OneOf, OldOf, Mine, Chosen
    <3>2. Overwriting(o)'
      BY <1>1, <1>3, <1>6, <2>7, <3>1 DEF Overwriting
    <3>3. QED BY <1>1, <1>3, <1>6, <2>3, <2>4, <3>2 DEF Phase, Early, Overwrites, Exists
  <2>9. /\ Restored(o)' /\ at'[o] \notin Early /\ at'[o] \in Late /\ at'[o] \in Moving
    BY <1>1, <1>6 DEF Restored, Early, Late, Moving
  <2>10. \A y \in Parts : /\ disk'[From(o)].parts[y] \in {Mine(o), Nobody}
                          /\ disk'[target[o]].parts[y] \in {OldOf(o), Mine(o), Nobody}
    BY <1>2, <2>3 DEF OneOf
  <2>11. QED
    BY <1>1, <1>3, <1>6, <2>1, <2>3, <2>4, <2>6, <2>8, <2>9, <2>10, MoveOK
<1>7. ASSUME Missing(From(o), Nobody) = {}, Put(From(o), Absent), Finish(o) PROVE Inv(o)'
  <2>1. /\ Effect(o) /\ disk'[From(o)] = Absent
        /\ \A q \in Paths \ {From(o)} : disk'[q] = disk[q]
    BY <1>2, <1>7, PutEffect DEF Here
  <2>2. /\ disk'[target[o]] = disk[target[o]] /\ disk'[Backup(o)] = disk[Backup(o)]
        /\ disk'[Staged(o)] = disk[Staged(o)]
    BY <1>2, <2>1
  <2>3. Kept(o, k)'
    <3>1. \A m \in 1..Copies : disk'[Target(k, m)] = disk[Target(k, m)]
      BY <1>1, <1>4, <2>1, <2>2, NamesKept
    <3>2. PartialRemoval \/ \A y \in Parts :
            \E m \in 1..Copies : disk[Target(k, m)].parts[y] = <<o, k>>
      <4>1. \A y \in Parts : disk[Source(o, k)].parts[y] # <<o, k>>
        BY <1>2, <1>4, <1>7 DEF Missing, From, Mine
      <4>2. QED BY <1>3, <1>4, <4>1 DEF Kept
    <3>3. QED BY <3>1, <3>2 DEF Kept, Copies
  <2>4. ~Exists(Backup(o))'
    BY <1>3, <2>2 DEF Exists
  <2>5. \A x \in Parts : /\ disk'[From(o)].parts[x] \in {Mine(o), Nobody}
                         /\ disk'[target[o]].parts[x] \in {OldOf(o), Mine(o), Nobody}
                         /\ disk'[Staged(o)].parts[x] \in ({o} \X (1..Items)) \cup {Nobody}
    BY <1>2, <1>5, <2>1, <2>2, ContentTypes DEF OneOf
  <2>6. QED BY <1>1, <1>3, <1>4, <1>7, <2>1, <2>3, <2>4, <2>5, FinishOK
<1>8. ASSUME Fail(o), UNCHANGED <<disk, item>> PROVE Inv(o)'
  <2>1. Effect(o) /\ UNCHANGED Chosen
    BY <1>1, <1>2, <1>8, SameEffect DEF Chosen
  <2>2. at' \in [Ops -> Where] /\ at'[o] = "failed"
    BY <1>2, <1>8, GoToIs DEF Where, Ended, Fail
  <2>3. Phase(o)'
    BY <2>2 DEF Phase, Early, Busy, Copying, Moving
  <2>4. Restored(o)'
    BY <1>1, <1>3, <1>8 DEF Restored, Overwrites, OneOf, OldOf, Mine, OldGone, Somewhere
  <2>5. Kept(o, item[o])'
    BY <1>3, <2>1, <1>8 DEF Kept, Copies
  <2>6. at'[o] \notin Early /\ at'[o] \in Late
    BY <2>2 DEF Early, Late, Ended
  <2>7. QED BY <1>1, <1>2, <1>3, <1>8, <2>1, <2>2, <2>3, <2>4, <2>5, <2>6, MoveOK DEF OneOf
<1>9. QED BY <1>1, <1>6, <1>7, <1>8 DEF MoveEntries

----------------------------------------------------------------------------
(* Going to an item *)

\* A path is chosen that the item may have: the name itself, or one that is free.
LEMMA ChoicesFacts ==
  ASSUME NEW o, Ops = {o}, NEW t \in Choices(o), item[o] \in 1..Items
  PROVE  /\ \E n \in 1..Copies : t = Target(item[o], n)
         /\ t \in Targets
         /\ Overwrites(o) => t = Target(item[o], 1)
         /\ ~Overwrites(o) => ~Exists(t)
<1> DEFINE free == {n \in 2..Copies : ~Exists(Target(item[o], n))}
<1>1. Copies = 3
  BY OneProcess
<1>2. CASE ~Exists(Target(item[o], 1)) \/ Overwrites(o)
  <2>1. t = Target(item[o], 1) /\ 1 \in 1..Copies
    BY <1>1, <1>2 DEF Choices
  <2>2. QED BY <1>2, <2>1 DEF Targets
<1>3. CASE Exists(Target(item[o], 1)) /\ ~Overwrites(o)
  <2>1. free # {} /\ t = Target(item[o], CHOOSE n \in free : \A m \in free : n <= m)
    BY <1>3 DEF Choices
  <2>2. free \subseteq {2, 3}
    BY <1>1
  <2>3. \E n \in free : \A m \in free : n <= m
    <3>1. CASE 2 \in free
      BY <2>2, <3>1
    <3>2. CASE 2 \notin free
      BY <2>1, <2>2, <3>2
    <3>3. QED BY <3>1, <3>2
  <2>4. PICK n : n = CHOOSE k \in free : \A m \in free : k <= m
    OBVIOUS
  <2>5. n \in free /\ t = Target(item[o], n)
    BY <2>1, <2>3, <2>4
  <2>6. n \in 1..Copies /\ ~Exists(t)
    BY <1>1, <2>2, <2>5
  <2>7. QED BY <1>3, <2>5, <2>6 DEF Targets
<1>4. QED BY <1>2, <1>3

\* What the invariant says of the disk alone holds while the disk does not change.
LEMMA SameDisk ==
  ASSUME NEW o, Inv(o), UNCHANGED <<disk, mode>>
  PROVE  /\ Clean' /\ Places(o)'
         /\ mode'[o] = "copy" => \A t \in Targets : WholeFile(t)'
<1>1. Clean'
  BY DEF Inv, Clean, Exists
<1>2. Places(o)'
  <2>1. Places(o)
    BY DEF Inv
  <2>2. QED BY <2>1 DEF Places, OneOf, Copies
<1>3. mode'[o] = "copy" => \A t \in Targets : WholeFile(t)'
  <2>1. mode[o] = "copy" => \A t \in Targets : WholeFile(t)
    BY DEF Inv
  <2>2. QED BY <2>1 DEF WholeFile, AllOf
<1>4. QED BY <1>1, <1>2, <1>3

\* Nothing on the disk changes.
LEMMA PickOK ==
  ASSUME NEW o, Ops = {o}, Inv(o), Pick(o)
  PROVE  Inv(o)'
<1>1. at[o] = "pick" /\ UNCHANGED <<disk, mode, policy>> /\ o \in Ops
  BY DEF Pick
<1>2. /\ TypeOK /\ Clean' /\ Places(o)' /\ at \in [Ops -> Where] /\ item[o] \in 1..(Items + 1)
      /\ mode'[o] = "copy" => \A t \in Targets : WholeFile(t)'
      /\ Items \in Nat \ {0}
  <2>1. /\ TypeOK /\ at \in [Ops -> Where] /\ item[o] \in 1..(Items + 1) /\ Items \in Nat \ {0}
    BY <1>1 DEF Inv, TypeOK, Where, Busy, Copying, Moving, Ended
  <2>2. QED BY <1>1, <2>1, SameDisk
<1>3. \A i \in 1..Items : /\ Kept(o, i) => Kept(o, i)'
                          /\ SourceWhole(o, i) => SourceWhole(o, i)'
                          /\ OldAt(Target(i, 1), i) => OldAt(Target(i, 1), i)'
                          /\ Past(o, i) => Past(o, i)'
                          /\ Future(o, i) => Future(o, i)'
  BY <1>1 DEF Kept, Copies, SourceWhole, OldAt, OldGone, Somewhere, Exists, AllOf, Past, Future
<1>4. \A i \in 1..Items : (i < item[o] => Past(o, i)') /\ (i > item[o] => Future(o, i)')
  BY <1>3 DEF Inv
<1>5. item[o] <= Items => /\ Kept(o, item[o]) /\ SourceWhole(o, item[o])
                          /\ OldAt(Target(item[o], 1), item[o]) /\ ~Exists(Backup(o))
  BY <1>1 DEF Inv, Now, Phase, Early, Late, Ended
<1>6. item[o] > Items => ~Exists(Backup(o))
  BY DEF Inv
<1>7. CASE item[o] > Items /\ GoTo(o, "done") /\ UNCHANGED <<item, target>>
  <2>1. at' \in [Ops -> Where] /\ at'[o] = "done"
    BY <1>2, <1>7, GoToIs DEF Where, Ended
  <2>2. TypeOK' /\ Control(o)'
    BY <1>1, <1>2, <1>7, <2>1 DEF TypeOK, Control, Where, Busy, Copying, Moving, Ended
  <2>3. ~Exists(Backup(o))' /\ ~(item'[o] <= Items)
    BY <1>1, <1>2, <1>6, <1>7 DEF Exists
  <2>4. QED BY <1>2, <1>4, <1>7, <2>1, <2>2, <2>3 DEF Inv
<1>8. CASE /\ item[o] <= Items
           /\ Refused(o) \/ (Choices(o) = {} /\ policy[o] # "skip")
           /\ Fail(o) /\ UNCHANGED <<item, target>>
  <2>1. at' \in [Ops -> Where] /\ at'[o] = "failed"
    BY <1>2, <1>8, GoToIs DEF Where, Ended, Fail
  <2>2. TypeOK' /\ Control(o)'
    BY <1>1, <1>2, <1>8, <2>1 DEF TypeOK, Control, Where, Busy, Copying, Moving, Ended
  <2>3. ~Overwrites(o)'
    <3>1. ~Overwrites(o)
      BY <1>8 DEF Refused, Choices, Overwrites
    <3>2. QED BY <1>1, <3>1 DEF Overwrites
  <2>4. Phase(o)' /\ Restored(o)'
    BY <2>1, <2>3 DEF Phase, Restored, Early, Busy, Copying, Moving
  <2>5. PICK i \in 1..Items : i = item[o]
    BY <1>2, <1>8
  <2>6. Kept(o, i)' /\ SourceWhole(o, i)' /\ i = item'[o]
    BY <1>3, <1>5, <1>8, <2>5
  <2>7. at'[o] \notin Early
    BY <2>1 DEF Early
  <2>8. Now(o)'
    BY <2>4, <2>6, <2>7 DEF Now
  <2>9. ~(item'[o] > Items)
    BY <2>5, <2>6
  <2>10. QED BY <1>2, <1>4, <1>8, <2>1, <2>2, <2>8, <2>9 DEF Inv
<1>9. CASE item[o] <= Items /\ Finish(o) /\ UNCHANGED target
  <2>1. PICK i \in 1..Items : i = item[o]
    BY <1>2, <1>9
  <2>2. at' \in [Ops -> Where] /\ at'[o] = "pick"
    BY <1>2, <1>9, GoToIs DEF Finish, Where
  <2>3. item' \in [Ops -> 1..(Items + 1)] /\ item'[o] = i + 1
    <3>1. item' = [item EXCEPT ![o] = i + 1] /\ item \in [Ops -> 1..(Items + 1)]
      BY <1>2, <1>9, <2>1 DEF Finish, TypeOK
    <3>2. i + 1 \in 1..(Items + 1)
      BY <1>2
    <3>3. QED BY <1>1, <3>1, <3>2
  <2>4. TypeOK' /\ Control(o)'
    BY <1>1, <1>2, <1>9, <2>2, <2>3 DEF TypeOK, Control, Where, Busy, Copying, Moving, Ended
  <2>5. Past(o, i)'
    BY <1>3, <1>5, <1>9, <2>1 DEF Past
  <2>6. \A j \in 1..Items : (j < item'[o] => Past(o, j)') /\ (j > item'[o] => Future(o, j)')
    <3> SUFFICES ASSUME NEW j \in 1..Items
                 PROVE  (j < item'[o] => Past(o, j)') /\ (j > item'[o] => Future(o, j)')
      OBVIOUS
    <3>1. (j < i => Past(o, j)') /\ (j > i => Future(o, j)')
      BY <1>4, <2>1
    <3>2. (j < i + 1 => j < i \/ j = i) /\ (j > i + 1 => j > i)
      BY <1>2
    <3>3. QED BY <2>3, <2>5, <3>1, <3>2
  <2>7. ~Exists(Backup(o))'
    BY <1>1, <1>5, <1>9 DEF Exists
  <2>8. item'[o] <= Items => Now(o)'
    <3> SUFFICES ASSUME item'[o] <= Items PROVE Now(o)'
      OBVIOUS
    <3>1. PICK j \in 1..Items : j = item'[o] /\ j > i
      BY <1>2, <2>3
    <3>2. Future(o, j)'
      BY <1>4, <2>1, <3>1
    <3>3. Phase(o)' /\ Restored(o)' /\ at'[o] \notin Late
      BY <2>2, <2>7 DEF Phase, Restored, Busy, Copying, Moving, Late, Ended
    <3>4. QED BY <3>1, <3>2, <3>3 DEF Now, Future
  <2>9. QED BY <1>2, <2>2, <2>4, <2>6, <2>7, <2>8 DEF Inv
<1>10. ASSUME item[o] <= Items, NEW t \in Choices(o), target' = [target EXCEPT ![o] = t],
              NEW w, w = (IF mode[o] = "move" THEN "move"
                          ELSE IF disk[From(o)].kind = "file" THEN "copy-file" ELSE "copy-dir"),
              GoTo(o, w), UNCHANGED item
       PROVE  Inv(o)'
  <2>1. PICK i \in 1..Items : i = item[o] /\ i = item'[o]
    BY <1>2, <1>10
  <2>2. /\ \E n \in 1..Copies : t = Target(i, n)
        /\ t \in Targets
        /\ Overwrites(o) => t = Target(i, 1)
        /\ ~Overwrites(o) => ~Exists(t)
    BY <2>1, ChoicesFacts
  <2>3. w \in {"move", "copy-file", "copy-dir"} /\ w \in Where
    BY <1>10 DEF Where, Busy, Copying, Moving
  <2>4. at' \in [Ops -> Where] /\ at'[o] = w
    BY <1>2, <1>10, <2>3, GoToIs
  <2>5. target' \in [Ops -> Targets] /\ target'[o] = t
    BY <1>1, <1>2, <1>10, <2>2 DEF TypeOK
  <2>6. TypeOK'
    BY <1>1, <1>2, <1>10, <2>4, <2>5 DEF TypeOK, Where, Busy, Copying, Moving, Ended
  <2>7. mode[o] \in {"copy", "move"}
    BY <1>1, <1>2 DEF TypeOK
  <2>8. Control(o)'
    BY <1>1, <1>10, <2>1, <2>2, <2>3, <2>4, <2>5, <2>7
       DEF Control, Overwrites, Copying, Moving, Copies
  <2>9. SourceWhole(o, i) /\ Kept(o, i) /\ OldAt(Target(i, 1), i) /\ ~Exists(Backup(o))
    BY <1>5, <1>10, <2>1
  <2>10. ~Overwrites(o) => Adding(o)'
    <3>1. ~Overwrites(o) => disk[t] = Absent
      <4>1. t \in Paths
        BY <2>1, <2>2, PathsAre
      <4>2. QED BY <2>2, <4>1 DEF Inv, Clean
    <3>2. ~Overwrites(o) => OneOf(target[o], {Mine(o), Nobody})'
      BY <1>1, <2>5, <3>1, ContentTypes DEF OneOf
    <3>3. QED BY <1>1, <2>2, <2>5, <2>9, <3>2 DEF Adding, Exists
  <2>11. Phase(o)'
    <3>1. Overwriting(o)'
      BY <2>3, <2>4 DEF Overwriting
    <3>2. w = "copy-dir" => disk[From(o)].kind = "dir"
      <4>1. disk[From(o)] \in Contents /\ disk[From(o)].kind # "none"
        BY <1>2, <2>1, <2>9, PathsAre DEF TypeOK, SourceWhole, Exists, From
      <4>2. disk[From(o)].kind \in {"file", "dir"}
        BY <4>1 DEF Contents
      <4>3. QED BY <1>10, <2>7, <4>2
    <3>3. at'[o] = "copy-dir" => disk'[From(o)'].kind = "dir"
      BY <1>1, <1>10, <2>4, <3>2 DEF From
    <3>4. ~Overwrites(o)' => Adding(o)'
      BY <1>1, <2>10 DEF Overwrites
    <3>5. ~Exists(Backup(o))'
      BY <1>1, <2>9 DEF Exists
    <3>6. QED BY <2>3, <2>4, <3>1, <3>3, <3>4, <3>5 DEF Phase
  <2>12. Restored(o)'
    BY <2>3, <2>4 DEF Restored
  <2>13. Now(o)'
    BY <1>3, <2>1, <2>9, <2>11, <2>12 DEF Now
  <2>14. at'[o] # "done" /\ ~(item'[o] > Items)
    BY <2>1, <2>3, <2>4
  <2>15. QED BY <1>2, <1>4, <1>10, <2>6, <2>8, <2>13, <2>14 DEF Inv
<1>11. QED BY <1>7, <1>8, <1>9, <1>10 DEF Pick

\* A killed process leaves sources, targets and hidden siblings as they are.
LEMMA KillOK ==
  ASSUME NEW o, Ops = {o}, Inv(o), Kill(o)
  PROVE  Inv(o)'
<1>1. UNCHANGED <<disk, mode, policy, item, target>> /\ o \in Ops
  BY DEF Kill, Chosen
<1>2. /\ TypeOK /\ Clean' /\ Places(o)' /\ item[o] \in 1..(Items + 1)
      /\ mode'[o] = "copy" => \A t \in Targets : WholeFile(t)'
  <2>1. TypeOK /\ item[o] \in 1..(Items + 1)
    BY <1>1 DEF Inv, TypeOK
  <2>2. QED BY <1>1, <2>1, SameDisk
<1>3. \A i \in 1..Items : /\ Kept(o, i) => Kept(o, i)'
                          /\ SourceWhole(o, i) => SourceWhole(o, i)'
                          /\ Past(o, i) => Past(o, i)'
                          /\ Future(o, i) => Future(o, i)'
  BY <1>1 DEF Kept, Copies, SourceWhole, OldAt, OldGone, Somewhere, Exists, AllOf, Past, Future
<1>4. at' \in [Ops -> Where] /\ at'[o] = "killed"
  BY <1>2, GoToIs DEF Kill, Where, Ended
<1>5. TypeOK' /\ Control(o)'
  BY <1>1, <1>2, <1>4 DEF TypeOK, Control, Where, Busy, Copying, Moving, Ended
<1>6. Phase(o)' /\ Restored(o)' /\ at'[o] \notin Early
  BY <1>4 DEF Phase, Restored, Early, Busy, Copying, Moving
<1>7. item[o] <= Items => Now(o)'
  <2> SUFFICES ASSUME item[o] <= Items PROVE Now(o)'
    OBVIOUS
  <2>1. PICK i \in 1..Items : i = item[o] /\ i = item'[o]
    BY <1>1, <1>2
  <2>2. Kept(o, i) /\ (mode[o] = "copy" => SourceWhole(o, i))
    BY <2>1 DEF Inv, Now
  <2>3. at'[o] \in Late
    BY <1>4 DEF Late, Ended
  <2>4. QED BY <1>1, <1>3, <1>6, <2>1, <2>2, <2>3 DEF Now
<1>8. \A i \in 1..Items : (i < item[o] => Past(o, i)') /\ (i > item[o] => Future(o, i)')
  BY <1>3 DEF Inv
<1>9. item[o] > Items => ~Exists(Backup(o))'
  BY <1>1 DEF Inv, Exists
<1>10. QED BY <1>1, <1>2, <1>4, <1>5, <1>7, <1>8, <1>9 DEF Inv

----------------------------------------------------------------------------
(* The invariant *)

\* Whole sources, and old targets under the names the items would have
LEMMA InitDisk ==
  ASSUME NEW o, Ops = {o}, Init
  PROVE  /\ disk = [p \in Paths |-> disk[p]]
         /\ \A i \in 1..Items : \E k \in {"file", "dir"} : disk[Source(o, i)] = Whole(k, <<o, i>>)
         /\ \A i \in 1..Items, n \in 1..Copies :
              \/ disk[Target(i, n)] = Absent
              \/ n = 1 /\ \E k \in {"file", "dir"} : disk[Target(i, n)] = Whole(k, <<Old, i>>)
         /\ disk[Staged(o)] = Absent /\ disk[Backup(o)] = Absent
<1>1. PICK kind \in [Ops \X (1..Items) -> Kinds], there \in [1..Items -> Kinds \cup {"none"}] :
       disk = [p \in Paths |->
         IF p[1] = "source" THEN Whole(kind[<<p[2], p[3]>>], <<p[2], p[3]>>)
         ELSE IF p[1] = "target" /\ p[3] = 1 /\ there[p[2]] # "none"
           THEN Whole(there[p[2]], <<Old, p[2]>>)
         ELSE Absent]
  BY DEF Init
<1>2. \A i \in 1..Items : /\ kind[<<o, i>>] \in {"file", "dir"}
                          /\ there[i] # "none" => there[i] \in {"file", "dir"}
  OBVIOUS
<1>3. ASSUME NEW i \in 1..Items
      PROVE  \E k \in {"file", "dir"} : disk[Source(o, i)] = Whole(k, <<o, i>>)
  <2>1. PICK p \in Paths : p = Source(o, i)
    BY PathsAre
  <2>2. p[1] = "source" /\ p[2] = o /\ p[3] = i
    BY <2>1 DEF Source
  <2>3. disk[p] = Whole(kind[<<p[2], p[3]>>], <<p[2], p[3]>>)
    BY <1>1, <2>2
  <2>4. QED BY <1>2, <2>1, <2>2, <2>3
<1>4. ASSUME NEW i \in 1..Items, NEW n \in 1..Copies
      PROVE  \/ disk[Target(i, n)] = Absent
             \/ n = 1 /\ \E k \in {"file", "dir"} : disk[Target(i, n)] = Whole(k, <<Old, i>>)
  <2>1. PICK p \in Paths : p = Target(i, n)
    BY PathsAre
  <2>2. p[1] = "target" /\ p[2] = i /\ p[3] = n
    BY <2>1 DEF Target
  <2>3. disk[p] = IF n = 1 /\ there[i] # "none" THEN Whole(there[i], <<Old, i>>) ELSE Absent
    BY <1>1, <2>2
  <2>4. QED BY <1>2, <2>1, <2>3
<1>5. disk[Staged(o)] = Absent /\ disk[Backup(o)] = Absent
  <2>1. /\ Staged(o) \in Paths /\ Staged(o) = <<"staged", o, 0>>
        /\ Backup(o) \in Paths /\ Backup(o) = <<"backup", o, 0>>
    BY PathsAre DEF Staged, Backup
  <2>2. QED BY <1>1, <2>1
<1>6. QED BY <1>1, <1>3, <1>4, <1>5

\* The invariant holds at first,
LEMMA InvInit ==
  ASSUME NEW o, Ops = {o}, Init
  PROVE  Inv(o)
<1>1. /\ mode \in [Ops -> Modes] /\ policy \in [Ops -> Policies]
      /\ at \in [Ops -> Where] /\ at[o] = "pick" /\ item \in [Ops -> 1..(Items + 1)] /\ item[o] = 1
      /\ target \in [Ops -> Targets] /\ 1 \in 1..Items /\ 1 \in 1..Copies /\ o \in Ops
  <2>1. 1 \in 1..Items /\ 1 \in 1..Copies /\ 1 \in 1..(Items + 1) /\ Items \in Nat \ {0}
    BY OneProcess
  <2>2. Target(1, 1) \in Targets
    BY <2>1 DEF Targets
  <2>3. QED BY <2>1, <2>2 DEF Init, Where
<1>2. disk = [p \in Paths |-> disk[p]]
  BY InitDisk
<1>3. \A i \in 1..Items : \E k \in {"file", "dir"} : disk[Source(o, i)] = Whole(k, <<o, i>>)
  BY InitDisk
<1>4. \A i \in 1..Items, n \in 1..Copies :
        \/ disk[Target(i, n)] = Absent
        \/ n = 1 /\ \E k \in {"file", "dir"} : disk[Target(i, n)] = Whole(k, <<Old, i>>)
  BY InitDisk
<1>5. disk[Staged(o)] = Absent /\ disk[Backup(o)] = Absent
  BY InitDisk
<1>6. \A i \in 1..Items : /\ <<o, i>> \in Origins \ {Nobody} /\ <<Old, i>> \in Origins \ {Nobody}
                          /\ \A j \in 1..Items : <<o, j>> # <<Old, i>> /\ (i # j => <<Old, j>> # <<Old, i>>)
  BY <1>1, OriginsDiffer
\* What can be at a path
<1>a. /\ Absent \in Contents /\ Absent.kind = "none"
      /\ \A x \in Parts : Absent.parts[x] = Nobody
  BY ContentTypes
<1>b. ASSUME NEW k \in {"file", "dir"}, NEW by \in Origins, NEW p, disk[p] = Whole(k, by)
      PROVE  /\ disk[p] \in Contents /\ disk[p].kind = k /\ disk[p].kind # "none"
             /\ \A x \in Parts : disk[p].parts[x] = by
  BY <1>b, ContentTypes
\* Every path holds a source, an old target or nothing.
<1>7. \A p \in Paths :
        \/ disk[p] = Absent
        \/ \E k \in {"file", "dir"}, i \in 1..Items : disk[p] = Whole(k, <<o, i>>)
        \/ \E k \in {"file", "dir"}, i \in 1..Items :
             p = Target(i, 1) /\ disk[p] = Whole(k, <<Old, i>>)
  <2> SUFFICES ASSUME NEW p \in Paths
               PROVE  \/ disk[p] = Absent
                      \/ \E k \in {"file", "dir"}, i \in 1..Items : disk[p] = Whole(k, <<o, i>>)
                      \/ \E k \in {"file", "dir"}, i \in 1..Items :
                           p = Target(i, 1) /\ disk[p] = Whole(k, <<Old, i>>)
    OBVIOUS
  <2>1. CASE \E i \in 1..Items : p = Source(o, i)
    BY <1>3, <2>1
  <2>2. CASE \E i \in 1..Items, n \in 1..Copies : p = Target(i, n)
    BY <1>4, <2>2
  <2>3. CASE p = Staged(o) \/ p = Backup(o)
    BY <1>5, <2>3
  <2>4. QED BY <2>1, <2>2, <2>3, PathsAre
<1>8. disk \in [Paths -> Contents] /\ Clean
  <2>1. ASSUME NEW p \in Paths PROVE disk[p] \in Contents /\ (disk[p].kind = "none" => disk[p] = Absent)
    <3>1. CASE disk[p] = Absent
      BY <1>a, <3>1
    <3>2. ASSUME NEW k \in {"file", "dir"}, NEW i \in 1..Items,
                 disk[p] = Whole(k, <<o, i>>) \/ disk[p] = Whole(k, <<Old, i>>)
          PROVE  disk[p] \in Contents /\ disk[p].kind # "none"
      <4>1. PICK by \in Origins : disk[p] = Whole(k, by)
        BY <1>6, <3>2
      <4>2. QED BY <1>b, <4>1
    <3>3. QED BY <1>7, <3>1, <3>2
  <2>2. QED BY <1>2, <2>1 DEF Clean, Exists
<1>9. TypeOK
  BY <1>1, <1>8 DEF TypeOK, Where, Busy, Copying, Moving, Ended
<1>10. \A i \in 1..Items : SourceWhole(o, i) /\ Kept(o, i)
  <2> SUFFICES ASSUME NEW i \in 1..Items PROVE SourceWhole(o, i) /\ Kept(o, i)
    OBVIOUS
  <2>1. PICK k \in {"file", "dir"}, by \in Origins : by = <<o, i>> /\ disk[Source(o, i)] = Whole(k, by)
    BY <1>3, <1>6
  <2>2. Exists(Source(o, i)) /\ AllOf(Source(o, i), by)
    BY <1>b, <2>1 DEF Exists, AllOf
  <2>3. QED BY <2>1, <2>2 DEF SourceWhole, Kept, AllOf
<1>11. \A i \in 1..Items : OldAt(Target(i, 1), i)
  <2> SUFFICES ASSUME NEW i \in 1..Items PROVE OldAt(Target(i, 1), i)
    OBVIOUS
  <2>1. CASE disk[Target(i, 1)] = Absent
    <3>1. ASSUME NEW p \in Paths, NEW x \in Parts PROVE disk[p].parts[x] # <<Old, i>>
      <4>1. CASE disk[p] = Absent
        BY <1>6, <4>1, <1>a
      <4>2. ASSUME NEW k \in {"file", "dir"}, NEW j \in 1..Items, disk[p] = Whole(k, <<o, j>>)
            PROVE  disk[p].parts[x] # <<Old, i>>
        <5>1. PICK by \in Origins : by = <<o, j>> /\ by # <<Old, i>>
          BY <1>6
        <5>2. disk[p].parts[x] = by
          BY <1>b, <4>2, <5>1
        <5>3. QED BY <5>1, <5>2
      <4>3. ASSUME NEW k \in {"file", "dir"}, NEW j \in 1..Items, p = Target(j, 1),
                   disk[p] = Whole(k, <<Old, j>>)
            PROVE  disk[p].parts[x] # <<Old, i>>
        <5>1. PICK by \in Origins : by = <<Old, j>>
          BY <1>6
        <5>2. disk[p].parts[x] = by /\ disk[p].kind # "none"
          BY <1>b, <4>3, <5>1
        <5>3. i # j
          BY <2>1, <4>3, <5>2, <1>a
        <5>4. by # <<Old, i>>
          BY <1>6, <5>1, <5>3
        <5>5. QED BY <5>2, <5>4
      <4>4. QED BY <1>7, <4>1, <4>2, <4>3
    <3>2. OldGone(i) /\ ~Exists(Target(i, 1))
      BY <2>1, <3>1, <1>a DEF OldGone, Somewhere, Exists
    <3>3. QED BY <3>2 DEF OldAt
  <2>2. CASE \E k \in {"file", "dir"} : disk[Target(i, 1)] = Whole(k, <<Old, i>>)
    <3>1. PICK k \in {"file", "dir"}, by \in Origins :
            by = <<Old, i>> /\ disk[Target(i, 1)] = Whole(k, by)
      BY <1>6, <2>2
    <3>2. QED BY <1>b, <3>1 DEF OldAt, AllOf, Exists
  <2>3. QED BY <1>1, <1>4, <2>1, <2>2
<1>12. Places(o)
  <2>1. \A i \in 1..Items : OneOf(Source(o, i), {<<o, i>>, Nobody})
    BY <1>10 DEF SourceWhole, AllOf, OneOf
  <2>2. \A i \in 1..Items, n \in 1..Copies : OneOf(Target(i, n), {<<Old, i>>, <<o, i>>, Nobody})
    <3> SUFFICES ASSUME NEW i \in 1..Items, NEW n \in 1..Copies
                 PROVE  OneOf(Target(i, n), {<<Old, i>>, <<o, i>>, Nobody})
      OBVIOUS
    <3>1. CASE disk[Target(i, n)] = Absent
      BY <1>a, <3>1 DEF OneOf
    <3>2. ASSUME NEW k \in {"file", "dir"}, disk[Target(i, n)] = Whole(k, <<Old, i>>)
          PROVE  OneOf(Target(i, n), {<<Old, i>>, <<o, i>>, Nobody})
      <4>1. PICK by \in Origins : by = <<Old, i>>
        BY <1>6
      <4>2. QED BY <1>b, <3>2, <4>1 DEF OneOf
    <3>3. QED BY <1>4, <3>1, <3>2
  <2>3. OneOf(Staged(o), ({o} \X (1..Items)) \cup {Nobody})
    BY <1>5, <1>a DEF OneOf
  <2>4. QED BY <2>1, <2>2, <2>3 DEF Places
<1>13. \A t \in Targets : WholeFile(t)
  <2> SUFFICES ASSUME NEW i \in 1..Items, NEW n \in 1..Copies PROVE WholeFile(Target(i, n))
    BY DEF Targets
  <2>1. CASE disk[Target(i, n)] = Absent
    BY <2>1, <1>a DEF WholeFile
  <2>2. CASE \E k \in {"file", "dir"} : disk[Target(i, n)] = Whole(k, <<Old, i>>)
    <3>1. PICK k \in {"file", "dir"}, by \in Origins \ {Nobody} : disk[Target(i, n)] = Whole(k, by)
      BY <1>6, <2>2
    <3>2. QED BY <1>b, <3>1 DEF WholeFile, AllOf
  <2>3. QED BY <1>4, <2>1, <2>2
<1>14. Control(o)
  BY <1>1 DEF Control, Busy, Copying, Moving
<1>15. Now(o)
  <2>1. PICK i \in 1..Items : i = item[o]
    BY <1>1
  <2>2. Kept(o, i) /\ SourceWhole(o, i) /\ OldAt(Target(i, 1), i)
    BY <1>10, <1>11
  <2>3. Phase(o) /\ Restored(o)
    BY <1>1, <1>5, <1>a DEF Phase, Restored, Exists, Busy, Copying, Moving
  <2>4. QED BY <2>1, <2>2, <2>3 DEF Now
<1>16. \A i \in 1..Items : (i < item[o] => Past(o, i)) /\ (i > item[o] => Future(o, i))
  BY <1>1, <1>10, <1>11 DEF Past, Future
<1>17. ~(item[o] > Items)
  BY <1>1
<1>18. QED BY <1>1, <1>8, <1>9, <1>12, <1>13, <1>14, <1>15, <1>16, <1>17 DEF Inv

\* and stays while nothing happens,
LEMMA InvSame ==
  ASSUME NEW o, Inv(o), UNCHANGED vars PROVE Inv(o)'
<1>1. /\ disk' = disk /\ mode' = mode /\ policy' = policy /\ at' = at /\ item' = item
      /\ target' = target
  BY DEF vars
<1>2. /\ TypeOK' = TypeOK /\ Clean' = Clean /\ Places(o)' = Places(o) /\ Control(o)' = Control(o)
      /\ (\A t \in Targets : WholeFile(t)') = (\A t \in Targets : WholeFile(t))
      /\ Exists(Backup(o))' = Exists(Backup(o))
  BY <1>1 DEF TypeOK, Clean, Exists, Places, OneOf, Copies, Control, Overwrites, WholeFile, AllOf
<1>3. \A i \in 1..Items : Past(o, i)' = Past(o, i) /\ Future(o, i)' = Future(o, i)
  BY <1>1 DEF Past, Future, Kept, SourceWhole, OldAt, OldGone, Somewhere, Exists, AllOf, Copies
<1>4. Now(o)' = Now(o)
  BY <1>1 DEF Now, Kept, SourceWhole, OldAt, OldGone, Somewhere, Exists, AllOf, Copies, Phase, Restored,
              Overwriting, Adding, OneOf, OldOf, Mine, From, Overwrites
<1>5. QED BY <1>1, <1>2, <1>3, <1>4 DEF Inv

\* and in every step,
LEMMA InvNext ==
  ASSUME NEW o, Ops = {o}, Inv(o), [Next]_vars
  PROVE  Inv(o)'
<1>1. CASE UNCHANGED vars
  BY <1>1, InvSame
<1>2. CASE Step(o)
  BY <1>2, PickOK, BeginCopyOK, StageOK, BuildOK, AsideOK, PublishOK, DiscardOK, BeginMoveOK,
     MoveByRenameOK, MoveCopyOK, RemoveSourceOK, MoveEntriesOK DEF Step
<1>3. CASE Kill(o)
  BY <1>3, KillOK
<1>4. QED BY <1>1, <1>2, <1>3 DEF Next

\* so that it always holds.
LEMMA InvHolds ==
  ASSUME NEW o, Ops = {o}
  PROVE  Spec => []Inv(o)
<1>1. Init => Inv(o)
  BY InvInit
<1>2. Inv(o) /\ [Next]_vars => Inv(o)'
  BY InvNext
<1>3. QED BY <1>1, <1>2, PTL DEF Spec

\* Whatever a process does, whatever fails and whenever it is killed, every part of each of
\* its sources is on the disk: for any number of sources, of any size, as long as
\* remove_dir_all does not fail half-way (fileops_partial shows that it then may not be).
THEOREM SourceOnDisk ==
  ASSUME NEW o, Ops = {o}, PartialRemoval = FALSE
  PROVE  Spec => []SourcesSurvive
<1>1. ASSUME Inv(o) PROVE SourcesSurvive
  <2>1. ASSUME NEW i \in 1..Items, NEW x \in Parts PROVE Somewhere(<<o, i>>, x)
    <3>1. item[o] \in 1..(Items + 1) /\ Items \in Nat \ {0}
      BY <1>1 DEF Inv, TypeOK
    <3>2. Kept(o, i)
      <4>1. CASE i < item[o]
        BY <1>1, <4>1 DEF Inv, Past
      <4>2. CASE i = item[o]
        BY <1>1, <3>1, <4>2 DEF Inv, Now
      <4>3. CASE i > item[o]
        BY <1>1, <4>3 DEF Inv, Future
      <4>4. QED BY <3>1, <4>1, <4>2, <4>3
    <3>3. QED BY <3>2, PathsAre DEF Kept, Somewhere
  <2>2. QED BY <2>1 DEF SourcesSurvive
<1>2. QED BY <1>1, InvHolds, PTL

\* After a failed overwriting operation the target is the old one or the new one, only merged
\* directories being a mixture, and a file that is copied appears whole: also when
\* remove_dir_all may fail half-way.
THEOREM TargetsSound ==
  ASSUME NEW o, Ops = {o}
  PROVE  Spec => []TargetsAreSound
<1>1. ASSUME Inv(o) PROVE TargetsAreSound
  <2>1. TypeOK
    BY <1>1 DEF Inv
  <2>2. FailureRestores
    <3> SUFFICES ASSUME at[o] = "failed", Overwrites(o), NEW z \in Parts, Somewhere(<<Old, item[o]>>, z)
                 PROVE  /\ \A x \in Parts : disk[target[o]].parts[x] \in {<<Old, item[o]>>, Mine(o)}
                        /\ disk[target[o]].kind = "file" =>
                             Cardinality({disk[target[o]].parts[x] : x \in Parts}) = 1
      BY DEF FailureRestores
    <3>1. item[o] \in 1..(Items + 1) /\ Items \in Nat \ {0}
      BY <2>1 DEF TypeOK
    <3>2. item[o] <= Items
      BY <1>1, <3>1 DEF Inv
    <3>3. Restored(o) /\ ~OldGone(item[o])
      BY <1>1, <3>2 DEF Inv, Now, OldGone
    <3>4. /\ OneOf(target[o], {OldOf(o), Mine(o)})
          /\ disk[target[o]].kind = "file" => AllOf(target[o], OldOf(o)) \/ AllOf(target[o], Mine(o))
      BY <3>3 DEF Restored
    <3>5. ASSUME NEW by, AllOf(target[o], by)
          PROVE  Cardinality({disk[target[o]].parts[x] : x \in Parts}) = 1
      <4>1. {disk[target[o]].parts[x] : x \in Parts} = {by}
        BY <3>5 DEF AllOf
      <4>2. QED BY <4>1, FS_Singleton
    <3>6. QED BY <3>4, <3>5 DEF OneOf, OldOf
  <2>3. CopiesAppearWhole
    BY <1>1 DEF Inv, CopiesAppearWhole, WholeFile, AllOf
  <2>4. QED BY <2>1, <2>2, <2>3 DEF TargetsAreSound
<1>2. QED BY <1>1, InvHolds, PTL

----------------------------------------------------------------------------
(* What a step may replace *)

\* A step changes only the paths the process works on.
LEMMA Frame ==
  ASSUME NEW o, DiskOK, Step(o), NEW p \in Paths, p \notin Here(o) \/ at[o] = "pick"
  PROVE  disk'[p] = disk[p]
<1>1. at[o] = "pick" => UNCHANGED disk
  BY DEF Step, Pick, BeginCopy, Stage, Build, Aside, Publish, Discard, BeginMove, MoveByRename,
         MoveCopy, RemoveSource, MayRemove, MoveEntries
<1>2. ASSUME p \notin Here(o) PROVE disk'[p] = disk[p]
  <2>1. p # From(o) /\ p # target[o] /\ p # Staged(o) /\ p # Backup(o)
    BY <1>2 DEF Here
  <2>2. ASSUME NEW q, p # q, NEW c, Put(q, c) PROVE disk'[p] = disk[p]
    BY <2>2 DEF Put, DiskOK
  <2>3. ASSUME NEW q, p # q, NEW x, NEW by, PutPart(q, x, by) PROVE disk'[p] = disk[p]
    BY <2>3 DEF PutPart, DiskOK
  <2>4. ASSUME NEW q, NEW r, p # q, p # r, Rename(q, r) PROVE disk'[p] = disk[p]
    BY <2>4 DEF Rename, DiskOK
  <2>5. ASSUME Restore(o) PROVE disk'[p] = disk[p]
    BY <2>1, <2>5 DEF Restore, DiskOK
  <2>6. CASE Pick(o) \/ BeginMove(o)
    BY <2>6 DEF Pick, BeginMove
  <2>7. CASE BeginCopy(o)
    BY <2>1, <2>2, <2>7 DEF BeginCopy
  <2>8. CASE Stage(o)
    BY <2>1, <2>2, <2>3, <2>8 DEF Stage
  <2>9. CASE Build(o) \/ MoveCopy(o)
    BY <2>1, <2>3, <2>5, <2>9 DEF Build, MoveCopy, PutEntry
  <2>10. CASE Aside(o)
    BY <2>1, <2>4, <2>10 DEF Aside, MoveAside
  <2>11. CASE Publish(o)
    BY <2>1, <2>4, <2>5, <2>11 DEF Publish
  <2>12. CASE Discard(o)
    BY <2>1, <2>2, <2>3, <2>12 DEF Discard
  <2>13. CASE MoveByRename(o)
    BY <2>1, <2>2, <2>4, <2>5, <2>13 DEF MoveByRename
  <2>14. CASE RemoveSource(o)
    <3>1. ASSUME disk' = IF Exists(Backup(o))
                     THEN [disk EXCEPT ![target[o]] = disk[Backup(o)], ![Backup(o)] = Absent]
                     ELSE [disk EXCEPT ![target[o]] = Absent]
          PROVE  disk'[p] = disk[p]
      BY <2>1, <3>1 DEF DiskOK
    <3>2. QED BY <2>1, <2>2, <2>3, <2>14, <3>1 DEF RemoveSource
  <2>15. CASE MoveEntries(o)
    <3>1. ASSUME NEW x,
                 disk' = [disk EXCEPT ![target[o]].parts[x] = disk[From(o)].parts[x],
                                      ![From(o)].parts[x] = Nobody]
          PROVE  disk'[p] = disk[p]
      BY <2>1, <3>1 DEF DiskOK
    <3>2. QED BY <2>1, <2>2, <2>15, <3>1 DEF MoveEntries
  <2>16. QED
    BY <2>6, <2>7, <2>8, <2>9, <2>10, <2>11, <2>12, <2>13, <2>14, <2>15 DEF Step
<1>3. QED BY <1>1, <1>2

\* A process that may not overwrite adds to the directory: at the path it has chosen it
\* finds only what it put there.
LEMMA NothingIsReplaced ==
  ASSUME NEW o, Ops = {o}, Inv(o), Step(o)
  PROVE  ExistingIsKept
<1>1. SUFFICES ASSUME ~Overwrites(o), NEW t \in Targets, NEW x \in Parts
               PROVE  disk[t].parts[x] \in {disk'[t].parts[x], Mine(o), Nobody}
  BY DEF ExistingIsKept
<1>2. DiskOK /\ t \in Paths
  BY DEF Inv, TypeOK, DiskOK, Paths
<1>3. CASE t \notin Here(o) \/ at[o] = "pick"
  BY <1>2, <1>3, Frame
<1>4. CASE t \in Here(o) /\ at[o] # "pick"
  <2>1. at[o] \in Busy
    BY <1>4 DEF Step, Pick, BeginCopy, Stage, Build, Aside, Publish, Discard, BeginMove, MoveByRename,
                MoveCopy, RemoveSource, MayRemove, MoveEntries, Busy, Copying, Moving
  <2>2. t = target[o]
    <3>1. PICK i \in 1..Items, n \in 1..Copies : t = Target(i, n)
      BY DEF Targets
    <3>2. QED BY <1>4, <3>1, PathsDiffer DEF Here, From
  <2>3. OneOf(target[o], {Mine(o), Nobody})
    BY <1>1, <2>1, BusyFacts DEF Now, Phase, Adding
  <2>4. QED BY <2>2, <2>3 DEF OneOf
<1>5. QED BY <1>3, <1>4

\* The backup holds what was at the target, or nothing.
LEMMA BackupIsOld ==
  ASSUME NEW o, Ops = {o}, Inv(o), at[o] \in Busy
  PROVE  OneOf(Backup(o), {OldOf(o), Nobody})
<1>1. Phase(o) /\ DiskOK /\ Backup(o) \in Paths
  BY BusyFacts DEF Now
<1>2. CASE ~Exists(Backup(o))
  BY <1>1, <1>2, ContentTypes DEF DiskOK, Clean, OneOf
<1>3. CASE Exists(Backup(o)) /\ at[o] # "discard"
  <2>1. /\ at[o] \notin Early \cup {"build", "move-entries"}
        /\ IF Overwrites(o) THEN Overwriting(o) ELSE Adding(o)
    BY <1>1, <1>3 DEF Phase
  <2>2. at[o] \in {"publish", "rename", "move-copy", "move-remove"}
    BY <1>3, <2>1 DEF Busy, Copying, Moving, Early
  <2>3. OldAt(Backup(o), item[o])
    BY <1>3, <2>1, <2>2 DEF Overwriting, Adding
  <2>4. QED BY <1>3, <2>3 DEF OldAt, AllOf, OneOf, OldOf
<1>4. CASE at[o] = "discard"
  BY <1>1, <1>4 DEF Phase
<1>5. QED BY <1>2, <1>3, <1>4

\* While a process is at an item, what was under its name is at the target until it is
\* moved aside, and in the backup from then on; only an overwriting process has any.
LEMMA OldIsHere ==
  ASSUME NEW o, Ops = {o}, Inv(o), at[o] \in Busy, NEW p \in {target[o], Backup(o)},
         NEW x \in Parts, disk[p].parts[x] = OldOf(o)
  PROVE  /\ Overwrites(o) /\ Exists(p)
         /\ at[o] \in Early \cup {"build", "move-entries"} => p = target[o]
         /\ at[o] \in {"publish", "rename", "move-copy", "move-remove", "discard"} => p = Backup(o)
<1>1. /\ Phase(o) /\ DiskOK /\ target[o] \in Paths /\ Backup(o) \in Paths
      /\ Mine(o) # Nobody /\ OldOf(o) # Nobody /\ Mine(o) # OldOf(o)
  BY BusyFacts DEF Now
<1>2. Exists(p)
  BY <1>1, ContentTypes DEF DiskOK, Clean
<1>3. Overwrites(o)
  <2>1. ~Overwrites(o) => ~Exists(Backup(o)) /\ OneOf(target[o], {Mine(o), Nobody})
    BY <1>1 DEF Phase, Adding
  <2>2. QED BY <1>1, <1>2, <2>1 DEF OneOf
<1>4. at[o] \in Early \cup {"build", "move-entries"} => p = target[o]
  BY <1>1, <1>2 DEF Phase
<1>5. at[o] \in {"publish", "rename", "move-copy", "move-remove", "discard"} => p = Backup(o)
  <2>1. at[o] \in {"publish", "rename"} => ~Exists(target[o])
    BY <1>1 DEF Phase
  <2>2. at[o] = "move-copy" => OneOf(target[o], {Mine(o), Nobody})
    BY <1>1 DEF Phase
  <2>3. at[o] \in {"move-remove", "discard"} => AllOf(target[o], Mine(o))
    BY <1>1 DEF Phase
  <2>4. QED BY <1>1, <1>2, <2>1, <2>2, <2>3 DEF OneOf, AllOf
<1>6. QED BY <1>2, <1>3, <1>4, <1>5

\* It goes when what replaces it is there.
LEMMA OldGoesLast ==
  ASSUME NEW o, Ops = {o}, Inv(o), at[o] \in Busy, Step(o),
         NEW p \in {target[o], Backup(o)}, NEW x \in Parts, disk[p].parts[x] = OldOf(o)
  PROVE  \/ \E q \in Paths : disk'[q].parts[x] = OldOf(o)
         \/ disk'[target[o]].parts[x] = Mine(o)
<1>1. Overwrites(o) /\ Exists(p) /\ p \in Paths
  BY OldIsHere, BusyFacts
<1>2. /\ at[o] \in Busy /\ o \in Ops /\ item[o] \in 1..Items
      /\ DiskOK /\ TypeOK /\ Now(o)
      /\ From(o) \in Paths /\ target[o] \in Paths /\ Staged(o) \in Paths /\ Backup(o) \in Paths
      /\ From(o) # target[o] /\ From(o) # Staged(o) /\ From(o) # Backup(o)
      /\ target[o] # Staged(o) /\ target[o] # Backup(o) /\ Staged(o) # Backup(o)
      /\ Mine(o) # Nobody /\ OldOf(o) # Nobody /\ Mine(o) # OldOf(o)
      /\ OneOf(From(o), {Mine(o), Nobody})
      /\ OneOf(target[o], {OldOf(o), Mine(o), Nobody})
  BY BusyFacts
<1>3. ASSUME disk'[p] = disk[p] PROVE \E q \in Paths : disk'[q].parts[x] = OldOf(o)
  BY <1>1, <1>3
<1>4. CASE BeginCopy(o)
  <2>1. p = target[o]
    BY <1>4, OldIsHere DEF BeginCopy, Early
  <2>2. UNCHANGED disk \/ \E c : Put(Staged(o), c)
    BY <1>1, <1>4, <2>1 DEF BeginCopy
  <2>3. disk'[p] = disk[p]
    BY <1>2, <2>1, <2>2 DEF Put, DiskOK
  <2>4. QED BY <1>3, <2>3
<1>5. CASE Stage(o)
  <2>1. p = target[o]
    BY <1>5, OldIsHere DEF Stage, Early
  <2>2. disk'[p] = disk[p]
    BY <1>2, <1>5, <2>1 DEF Stage, Put, PutPart, DiskOK
  <2>3. QED BY <1>3, <2>2
<1>6. CASE Build(o)
  <2>1. at[o] = "build" /\ p = target[o]
    BY <1>6, OldIsHere DEF Build
  <2>2. CASE PutEntry(o)
    <3>1. disk'[target[o]].parts[x] \in {Mine(o), disk[target[o]].parts[x]}
      BY <1>1, <2>1, <2>2, PutEntryEffect
    <3>2. QED BY <1>1, <2>1, <3>1
  <2>3. CASE UNCHANGED disk
    BY <1>3, <2>3
  <2>4. QED BY <1>6, <2>2, <2>3 DEF Build
<1>7. CASE Aside(o)
  <2>1. p = target[o]
    BY <1>7, OldIsHere DEF Aside, Early
  <2>2. CASE MoveAside(o)
    <3>1. disk'[Backup(o)] = disk[target[o]]
      BY <1>2, <2>2 DEF MoveAside, Rename, DiskOK
    <3>2. QED BY <1>2, <2>1, <3>1
  <2>3. CASE UNCHANGED disk
    BY <1>3, <2>3
  <2>4. QED BY <1>1, <1>7, <2>1, <2>2, <2>3 DEF Aside
\* The backup comes back.
<1>8. ASSUME p = Backup(o), Restore(o) PROVE \E q \in Paths : disk'[q].parts[x] = OldOf(o)
  <2>1. disk'[target[o]] = disk[Backup(o)]
    BY <1>1, <1>2, <1>8 DEF Restore, DiskOK
  <2>2. QED BY <1>2, <1>8, <2>1
<1>9. CASE Publish(o)
  <2>1. p = Backup(o)
    BY <1>9, OldIsHere DEF Publish
  <2>2. CASE Rename(Staged(o), target[o])
    <3>1. disk'[p] = disk[p]
      BY <1>2, <2>1, <2>2 DEF Rename, DiskOK
    <3>2. QED BY <1>3, <3>1
  <2>3. QED BY <1>8, <1>9, <2>1, <2>2 DEF Publish
<1>10. CASE Discard(o)
  <2>1. /\ at[o] = "discard"
        /\ UNCHANGED disk \/ Put(Backup(o), Absent) \/ \E y \in Parts : PutPart(Backup(o), y, Nobody)
    BY <1>10 DEF Discard
  <2>2. disk'[target[o]] = disk[target[o]]
    BY <1>2, <2>1 DEF Put, PutPart, DiskOK
  <2>3. disk[target[o]].parts[x] = Mine(o)
    BY <1>2, <2>1 DEF Now, Phase, AllOf
  <2>4. QED BY <2>2, <2>3
<1>11. CASE BeginMove(o)
  <2>1. UNCHANGED disk
    BY <1>11 DEF BeginMove
  <2>2. QED BY <1>3, <2>1
<1>12. CASE MoveByRename(o)
  <2>1. p = Backup(o)
    BY <1>12, OldIsHere DEF MoveByRename
  <2>2. CASE Rename(From(o), target[o])
    <3>1. disk'[p] = disk[p]
      BY <1>2, <2>1, <2>2 DEF Rename, DiskOK
    <3>2. QED BY <1>3, <3>1
  <2>3. CASE UNCHANGED disk \/ \E c : Put(target[o], c)
    <3>1. disk'[p] = disk[p]
      BY <1>2, <2>1, <2>3 DEF Put, DiskOK
    <3>2. QED BY <1>3, <3>1
  <2>4. CASE Restore(o)
    BY <1>8, <2>1, <2>4
  <2>5. QED BY <1>12, <2>2, <2>3, <2>4 DEF MoveByRename
<1>13. CASE MoveCopy(o)
  <2>1. p = Backup(o)
    BY <1>13, OldIsHere DEF MoveCopy
  <2>2. CASE PutEntry(o)
    <3>1. disk'[p] = disk[p]
      BY <1>2, <2>1, <2>2 DEF PutEntry, PutPart, DiskOK
    <3>2. QED BY <1>3, <3>1
  <2>3. CASE UNCHANGED disk
    BY <1>3, <2>3
  <2>4. QED BY <1>8, <1>13, <2>1, <2>2, <2>3 DEF MoveCopy
<1>14. CASE RemoveSource(o)
  <2>1. p = Backup(o)
    BY <1>14, OldIsHere DEF RemoveSource, MayRemove
  <2>2. CASE Put(From(o), Absent) \/ \E y : PutPart(From(o), y, Nobody)
    <3>1. disk'[p] = disk[p]
      BY <1>2, <2>1, <2>2 DEF Put, PutPart, DiskOK
    <3>2. QED BY <1>3, <3>1
  <2>3. CASE disk' = [disk EXCEPT ![target[o]] = disk[Backup(o)], ![Backup(o)] = Absent]
    <3>1. disk'[target[o]] = disk[p]
      BY <1>2, <2>1, <2>3 DEF DiskOK
    <3>2. QED BY <1>2, <3>1
  <2>4. QED BY <1>1, <1>14, <2>1, <2>2, <2>3 DEF RemoveSource
<1>15. CASE MoveEntries(o)
  <2>1. p = target[o]
    BY <1>15, OldIsHere DEF MoveEntries
  <2>2. ASSUME NEW y \in Missing(From(o), Nobody),
               disk' = [disk EXCEPT ![target[o]].parts[y] = disk[From(o)].parts[y],
                                    ![From(o)].parts[y] = Nobody]
        PROVE  disk'[target[o]].parts[x] \in {Mine(o), disk[target[o]].parts[x]}
    <3>1. y \in Parts /\ disk[From(o)].parts[y] = Mine(o)
      BY <1>2, <2>2 DEF Missing, OneOf
    <3>2. Exists(From(o)) /\ Exists(target[o]) /\ From(o) \in Here(o) /\ target[o] \in Here(o)
      BY <1>1, <1>2, <2>1, <3>1, ContentTypes DEF DiskOK, Clean, Here
    <3>3. EntryMoves(From(o), target[o], y)
      BY <2>2 DEF EntryMoves
    <3>4. disk'[target[o]].parts[x]
            = IF x = y THEN disk[From(o)].parts[y] ELSE disk[target[o]].parts[x]
      BY <1>2, <3>1, <3>2, <3>3, MoveEntryEffect
    <3>5. QED BY <3>1, <3>4
  <2>3. CASE Put(From(o), Absent)
    <3>1. disk'[p] = disk[p]
      BY <1>2, <2>1, <2>3 DEF Put, DiskOK
    <3>2. QED BY <1>3, <3>1
  <2>4. CASE UNCHANGED disk
    BY <1>3, <2>4
  <2>5. QED BY <1>1, <1>15, <2>1, <2>2, <2>3, <2>4 DEF MoveEntries
<1>16. CASE Pick(o)
  BY <1>16 DEF Pick, Busy, Copying, Moving
<1>17. QED
  BY <1>4, <1>5, <1>6, <1>7, <1>9, <1>10, <1>11, <1>12, <1>13, <1>14, <1>15, <1>16 DEF Step

\* So no step leaves a moment at which old and new are both gone.
LEMMA OldIsReplaced ==
  ASSUME NEW o, Ops = {o}, Inv(o), Step(o)
  PROVE  OldUntilNew
<1>1. SUFFICES ASSUME NEW i \in 1..Items, NEW x \in Parts, NEW p \in Paths,
                      disk[p].parts[x] = <<Old, i>>, ~Somewhere(<<Old, i>>, x)'
               PROVE  disk'[Target(i, 1)].parts[x] = <<o, i>>
  BY DEF OldUntilNew, Somewhere
<1>2. \A q \in Paths : disk'[q].parts[x] # <<Old, i>>
  BY <1>1 DEF Somewhere
<1>3. DiskOK /\ p \in Here(o) /\ at[o] # "pick"
  BY <1>1, <1>2, Frame DEF Inv, TypeOK, DiskOK
<1>4. at[o] \in Busy
  BY <1>3 DEF Step, Pick, BeginCopy, Stage, Build, Aside, Publish, Discard, BeginMove, MoveByRename,
              MoveCopy, RemoveSource, MayRemove, MoveEntries, Busy, Copying, Moving
<1>5. <<Old, i>> # Nobody /\ <<Old, i>> \notin {Mine(o)} \cup ({o} \X (1..Items))
  BY DEF Mine, Nobody
<1>6. p \in {target[o], Backup(o)}
  <2>1. p # From(o)
    BY <1>1, <1>4, <1>5, BusyFacts DEF OneOf
  <2>2. p # Staged(o)
    BY <1>1, <1>5 DEF Inv, Places, OneOf
  <2>3. QED BY <1>3, <2>1, <2>2 DEF Here
<1>7. i = item[o]
  <2>1. CASE p = target[o]
    <3>1. disk[p].parts[x] \in {OldOf(o), Mine(o), Nobody}
      BY <1>4, <2>1, BusyFacts DEF OneOf
    <3>2. <<Old, i>> = OldOf(o)
      BY <1>1, <1>5, <3>1
    <3>3. QED BY <3>2 DEF OldOf
  <2>2. CASE p = Backup(o)
    <3>1. disk[p].parts[x] \in {OldOf(o), Nobody}
      BY <1>4, <2>2, BackupIsOld DEF OneOf
    <3>2. <<Old, i>> = OldOf(o)
      BY <1>1, <1>5, <3>1
    <3>3. QED BY <3>2 DEF OldOf
  <2>3. QED BY <1>6, <2>1, <2>2
<1>8. disk[p].parts[x] = OldOf(o) /\ \A q \in Paths : disk'[q].parts[x] # OldOf(o)
  BY <1>1, <1>2, <1>7 DEF OldOf
<1>9. disk'[target[o]].parts[x] = Mine(o)
  BY <1>4, <1>6, <1>8, OldGoesLast
<1>10. target[o] = Target(i, 1)
  <2>1. Overwrites(o) /\ Control(o)
    BY <1>4, <1>6, <1>8, OldIsHere, BusyFacts
  <2>2. QED BY <1>4, <1>7, <2>1 DEF Control
<1>11. QED BY <1>7, <1>9, <1>10 DEF Mine

\* ReplacingIsSafe: what a process replaces stays on the disk until its replacement is at
\* the target, and one that may not overwrite leaves what it found as it was: in every step,
\* also a kill and one of those in which remove_dir_all fails half-way.
THEOREM Replacing ==
  ASSUME NEW o, Ops = {o}
  PROVE  Spec => ReplacingIsSafe
<1>1. ASSUME Inv(o), [Next]_vars PROVE [OldUntilNew /\ ExistingIsKept]_vars
  <2>1. CASE UNCHANGED vars
    BY <2>1
  <2>2. CASE Step(o)
    BY <1>1, <2>2, OldIsReplaced, NothingIsReplaced
  <2>3. CASE Kill(o)
    <3>1. UNCHANGED disk
      BY <2>3 DEF Kill
    <3>2. OldUntilNew
      BY <3>1 DEF OldUntilNew, Somewhere
    <3>3. ExistingIsKept
      BY <3>1 DEF ExistingIsKept
    <3>4. QED BY <3>2, <3>3
  <2>4. QED BY <1>1, <2>1, <2>2, <2>3 DEF Next
<1>2. QED BY <1>1, InvHolds, PTL DEF Spec, ReplacingIsSafe
=============================================================================

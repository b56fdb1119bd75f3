------------------------------- MODULE Trash -------------------------------
(***************************************************************************)
(* The trash of the Explorer (explorer_helper.py): three commands, each a  *)
(* process, that move items into it, restore them and empty it.  Beside    *)
(* every item lies a .trashinfo with the path it came from.  The Explorer  *)
(* runs one process of each kind; a new one kills the one before, and      *)
(* processes of different kinds overlap.                                   *)
(*                                                                         *)
(* A path is a directory and a name.  All items have the same name at      *)
(* first, <<0>>; to it _unique_target appends numbers.                     *)
(***************************************************************************)
EXTENDS Naturals, Sequences, FiniteSets, Functions

CONSTANTS
  Homes,    \* directories of items, one item in each
  Fallback, \* the directory of what has no .trashinfo
  Bin,      \* the trash
  MaxRuns,  \* processes started
  MaxKills  \* of them, killed

Kinds == {"trash", "restore", "empty"}
Nothing == <<>>

VARIABLES
  disk,  \* the item at each path that exists; an item is the directory it comes from
  info,  \* the .trashinfo of each name that has one: a path
  pc,    \* of the process of each kind
  todo,  \* the paths it has still to treat, or for "empty" the names
  item,  \* the path it is at, and
  goal,  \* where it has decided to move it, or to say it was
  runs, kills,
  disturbed  \* history: has a process been started beside one of another kind,
             \* or on what was in the trash already?

trvars == <<disk, info, pc, todo, item, goal, runs, kills, disturbed>>

First == <<0>>
TrInit ==
  /\ disk = [p \in {<<h, First>> : h \in Homes} |-> p[1]] /\ info = <<>>
  /\ pc = [k \in Kinds |-> "done"] /\ todo = [k \in Kinds |-> {}]
  /\ item = [k \in Kinds |-> Nothing] /\ goal = [k \in Kinds |-> Nothing]
  /\ runs = 0 /\ kills = 0 /\ disturbed = FALSE

Exists(p) == p \in DOMAIN disk
\* the first number from 2 on that is free
Numbered(dir, name) ==
  LET free == {n \in 2..(Cardinality(DOMAIN disk) + 2) : ~Exists(<<dir, Append(name, n)>>)}
  IN <<dir, Append(name, CHOOSE n \in free : \A m \in free : n <= m)>>
Unique(dir, name) == IF Exists(<<dir, name>>) THEN Numbered(dir, name) ELSE <<dir, name>>

Without(f, S) == Restrict(f, DOMAIN f \ S)
With(f, x, v) == [y \in DOMAIN f \cup {x} |-> IF y = x THEN v ELSE f[y]]
Move(from, to) == disk' = With(Without(disk, {from}), to, disk[from])
In(dir) == {p \in DOMAIN disk : p[1] = dir}

\* The process of kind k is at step `where` with item p and goal g.
Step(k, where, p, g) ==
  /\ pc' = [pc EXCEPT ![k] = where] /\ item' = [item EXCEPT ![k] = p]
  /\ goal' = [goal EXCEPT ![k] = g] /\ UNCHANGED <<runs, kills, disturbed>>
Proceed(k) == Step(k, IF todo[k] = {} THEN "done" ELSE "next", Nothing, Nothing)
Take(k, p) == todo' = [todo EXCEPT ![k] = @ \ {p}]

----------------------------------------------------------------------------
(* The Explorer: running = false; running = true *)

Start(k, where, paths) ==
  /\ runs < MaxRuns /\ runs' = runs + 1
  /\ disturbed' = (disturbed \/ (k = "trash" /\ \E p \in paths : p[1] = Bin)
                             \/ \E j \in Kinds \ {k} : pc[j] # "done")
  /\ \/ pc[k] = "done" /\ UNCHANGED kills
     \/ pc[k] # "done" /\ kills < MaxKills /\ kills' = kills + 1
  /\ pc' = [pc EXCEPT ![k] = where] /\ todo' = [todo EXCEPT ![k] = paths]
  /\ item' = [item EXCEPT ![k] = Nothing] /\ goal' = [goal EXCEPT ![k] = Nothing]
  /\ UNCHANGED <<disk, info>>

\* The selection of one directory; the Delete key works in the view of the trash too.
Delete == \E dir \in {p[1] : p \in DOMAIN disk} : \E S \in SUBSET In(dir) :
  S # {} /\ Start("trash", "next", S)
Restore == \E S \in SUBSET In(Bin) : S # {} /\ Start("restore", "next", S)
Empty == In(Bin) # {} /\ Start("empty", "next", In(Bin))

----------------------------------------------------------------------------
(* trash_items *)

TrashMove ==
  /\ pc["trash"] = "next"
  /\ \E p \in todo["trash"] :
       /\ Take("trash", p)
       /\ IF Exists(p)
          THEN LET d == Unique(Bin, p[2]) IN Move(p, d) /\ Step("trash", "write", d, p)
          ELSE UNCHANGED disk
               /\ Step("trash", IF todo["trash"] = {p} THEN "done" ELSE "next", Nothing, Nothing)
  /\ UNCHANGED info

TrashInfo ==
  /\ pc["trash"] = "write"
  /\ info' = With(info, item["trash"][2], goal["trash"]) /\ Proceed("trash")
  /\ UNCHANGED <<disk, todo>>

----------------------------------------------------------------------------
(* restore_trash_items *)

\* The path the .trashinfo names, or the item's own name in the fallback directory.
Origin(name) == IF name \in DOMAIN info THEN info[name] ELSE <<Fallback, name>>
RestoreRead ==
  /\ pc["restore"] = "next"
  /\ \E p \in todo["restore"] :
       /\ Take("restore", p)
       /\ IF Exists(p) THEN Step("restore", "move", p, Origin(p[2]))
          ELSE Step("restore", IF todo["restore"] = {p} THEN "done" ELSE "next", Nothing, Nothing)
  /\ UNCHANGED <<disk, info>>

\* shutil.move raises when the item has gone, and the process ends.
RestoreMove ==
  /\ pc["restore"] = "move"
  /\ LET p == item["restore"]  g == goal["restore"] IN
     \/ /\ Exists(p) /\ Move(p, Unique(g[1], g[2]))
        /\ Step("restore", "unlink", p, Nothing) /\ UNCHANGED todo
     \/ /\ ~Exists(p) /\ Step("restore", "done", Nothing, Nothing)
        /\ todo' = [todo EXCEPT !["restore"] = {}] /\ UNCHANGED disk
  /\ UNCHANGED info

\* mutant: a restored item leaves its .trashinfo
KeepInfo ==
  pc["restore"] = "unlink" /\ Proceed("restore") /\ UNCHANGED <<disk, todo, info>>

RestoreUnlink ==
  /\ pc["restore"] = "unlink"
  /\ info' = Without(info, {item["restore"][2]}) /\ Proceed("restore")
  /\ UNCHANGED <<disk, todo>>

----------------------------------------------------------------------------
(* empty_trash: the items it lists, then every .trashinfo *)

EmptyItem ==
  /\ pc["empty"] = "next"
  /\ \E p \in todo["empty"] :
       /\ Take("empty", p) /\ disk' = Without(disk, {p})
       /\ Step("empty", IF todo["empty"] = {p} THEN "list" ELSE "next", Nothing, Nothing)
  /\ UNCHANGED info

EmptyList ==
  /\ pc["empty"] = "list" /\ todo' = [todo EXCEPT !["empty"] = DOMAIN info]
  /\ Step("empty", IF DOMAIN info = {} THEN "done" ELSE "infos", Nothing, Nothing)
  /\ UNCHANGED <<disk, info>>

EmptyInfo ==
  /\ pc["empty"] = "infos"
  /\ \E n \in todo["empty"] :
       /\ Take("empty", n) /\ info' = Without(info, {n})
       /\ Step("empty", IF todo["empty"] = {n} THEN "done" ELSE "infos", Nothing, Nothing)
  /\ UNCHANGED disk

TrNext ==
  \/ Delete \/ Restore \/ Empty
  \/ TrashMove \/ TrashInfo \/ RestoreRead \/ RestoreMove \/ RestoreUnlink
  \/ EmptyItem \/ EmptyList \/ EmptyInfo

TrSpec == TrInit /\ [][TrNext]_trvars

----------------------------------------------------------------------------
\* Processes one after the other, one of them killed between its two steps, leave
\* every item in the trash with a .trashinfo of its own, or with none: the one of
\* an earlier item of the same name never sends it to another directory.
TrashInfoIsRight ==
  ~disturbed /\ kills < 2 /\ (\A k \in Kinds : pc[k] = "done") =>
    \A p \in In(Bin) : p[2] \in DOMAIN info => info[p[2]][1] \in {disk[p], Fallback}

\* However processes overlap and are killed, items of the same name are told
\* apart: no move overwrites one, and only emptying the trash removes one.
RemovingStep ==
  \A h \in Range(disk) \ Range(disk') :
    pc["empty"] = "next" /\ \E p \in todo["empty"] \ todo'["empty"] : disk[p] = h
OnlyEmptyRemoves == [][RemovingStep]_trvars

----------------------------------------------------------------------------
(* The inductive invariant of the two.  Bin is none of Homes and not Fallback. *)

Names == Seq(Nat)
Paths == (Homes \cup {Fallback, Bin}) \X Names

TrTypeOK ==
  /\ IsFiniteSet(DOMAIN disk) /\ DOMAIN disk \subseteq Paths
  /\ \A p \in DOMAIN disk : disk[p] \in Homes
  /\ DOMAIN info \subseteq Names /\ \A n \in DOMAIN info : info[n] \in Paths
  /\ pc \in [Kinds -> {"done", "next", "write", "move", "unlink", "list", "infos"}]
  /\ DOMAIN todo = Kinds /\ DOMAIN item = Kinds /\ DOMAIN goal = Kinds
  /\ todo["trash"] \subseteq Paths /\ todo["restore"] \subseteq {Bin} \X Names
  /\ pc["trash"] = "write" => item["trash"] \in {Bin} \X Names /\ goal["trash"] \in Paths
  /\ pc["restore"] \in {"move", "unlink"} => item["restore"] \in {Bin} \X Names
  /\ pc["restore"] = "move" => goal["restore"] \in Paths
  /\ runs \in Nat /\ kills \in Nat /\ disturbed \in BOOLEAN

\* One process runs at a time, and none of those that trash takes items of the trash.
Alone ==
  /\ \A j, k \in Kinds : pc[j] # "done" /\ pc[k] # "done" => j = k
  /\ pc["trash"] # "done" => \A p \in todo["trash"] : p[1] # Bin

\* An item is where it comes from, in the trash, or in the fallback directory.
AtHome == \A p \in DOMAIN disk : p[1] # Bin => p[1] \in {disk[p], Fallback}

\* What lies in the trash has a right .trashinfo or none, but for the item whose
\* .trashinfo is about to be written; ...
Right(p) == p[2] \in DOMAIN info => info[p[2]][1] \in {disk[p], Fallback}
Labelled ==
  \A p \in In(Bin) : Right(p) \/ (pc["trash"] = "write" /\ p = item["trash"])

\* ... and unless a process was killed, every .trashinfo has its item, but while its
\* item is restored or the trash is emptied.
NoneLeft ==
  kills = 0 =>
    /\ \A n \in DOMAIN info :
         Exists(<<Bin, n>>) \/ (pc["restore"] = "unlink" /\ item["restore"] = <<Bin, n>>)
           \/ pc["empty"] # "done"
    /\ pc["trash"] = "write" => item["trash"][2] \notin DOMAIN info

\* What is written and what is restored is right.
GoalsAreRight ==
  /\ pc["trash"] = "write" =>
       Exists(item["trash"]) /\ goal["trash"][1] \in {disk[item["trash"]], Fallback}
  /\ pc["restore"] = "move" /\ Exists(item["restore"]) =>
       goal["restore"][1] \in {disk[item["restore"]], Fallback}
  /\ pc["empty"] = "infos" => DOMAIN info \subseteq todo["empty"]

TrashInv ==
  /\ TrTypeOK
  /\ ~disturbed /\ kills < 2 => Alone /\ AtHome /\ Labelled /\ NoneLeft /\ GoalsAreRight
=============================================================================

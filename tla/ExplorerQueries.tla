-------------------------- MODULE ExplorerQueries --------------------------
(***************************************************************************)
(* What explorer_helper.py answers without changing anything: the merged   *)
(* list of recent files, the applications that open a file, and the        *)
(* conflicts of a paste.  Each answer is the code's computation; the       *)
(* properties compare it with what the Explorer shows it as.               *)
(***************************************************************************)
EXTENDS Naturals, Sequences, FiniteSets, SequencesExt

CONSTANTS
  Files,       \* files that may be recent
  Times,       \* when they were opened: numbers
  Limits,      \* of --limit
  DesktopIds,  \* names of desktop files
  Identities,  \* name and command of an application
  Nothing,     \* a model value: no question, no answer, no default application
  \* bounds: items of the Explorer's own list, bookmarks, records of launches, directories
  MaxOwn, MaxBookmarks, MaxLaunches, MaxDirs

Access == [path : Files, ts : Times]
Launch == [path : Files, ts : Times, ok : BOOLEAN]

VARIABLES
  query,   \* the question, Nothing before it is asked
  reply    \* the answer, Nothing until it is printed

----------------------------------------------------------------------------
(* merged_recents *)

\* sorted() by the time of access, reversed: the newest first, and those of one time in
\* the order they had.
Older(s, i, k) == s[i].ts < s[k].ts \/ (s[i].ts = s[k].ts /\ i > k)
NewestFirst(s, places) ==
  CHOOSE order \in [1..Cardinality(places) -> places] :
    /\ ToSet(order) = places
    /\ \A i, k \in DOMAIN order : i < k => ~Older(s, order[i], order[k])
Latest(s, places, n) ==
  LET order == NewestFirst(s, places)
  IN [i \in 1..(IF Len(order) < n THEN Len(order) ELSE n) |-> s[order[i]]]

OnDisk(s, present) == {i \in DOMAIN s : s[i].path \in present}
Listed(s, path) == \E i \in DOMAIN s : s[i].path = path

\* _iter_launch_history_items: the history from its end, each file once.
AddLaunch(items, r, present, limit) ==
  IF Len(items) < limit /\ r.ok /\ r.path \in present /\ ~Listed(items, r.path)
  THEN Append(items, [path |-> r.path, ts |-> r.ts]) ELSE items
LaunchItems(history, present, limit) ==
  FoldLeft(LAMBDA items, r : AddLaunch(items, r, present, limit), <<>>, Reverse(history))

\* _iter_xbel_recent_items
XbelItems(bookmarks, present, limit) == Latest(bookmarks, OnDisk(bookmarks, present), limit)

\* mutant: the first access of a file is kept, not the latest
AddFirst(merged, x) == IF Listed(merged, x.path) THEN merged ELSE Append(merged, x)

\* _merge_recent_items: of each file the latest access.
AddAccess(merged, x) ==
  IF Listed(merged, x.path)
  THEN [i \in DOMAIN merged |-> IF merged[i].path = x.path /\ merged[i].ts <= x.ts THEN x
                                ELSE merged[i]]
  ELSE Append(merged, x)
Merge(items, limit) ==
  LET merged == FoldLeft(AddAccess, <<>>, items) IN Latest(merged, DOMAIN merged, limit)

Recents(q) ==
  Merge(q.finder \o LaunchItems(q.launch, q.present, q.limit)
                 \o XbelItems(q.xbel, q.present, q.limit), q.limit)

----------------------------------------------------------------------------
(* open_with_apps *)

\* parse_desktop_entry: what matters of a file; one that is no Application is "other".
Entry == [kind : {"none", "other", "hidden"}, fits : {FALSE}, name : {Nothing}]
           \cup [kind : {"app"}, fits : BOOLEAN, name : Identities]
NoEntry == [kind |-> "none", fits |-> FALSE, name |-> Nothing]
IsApp(e) == e.kind = "app"

\* _iter_desktop_entries: the first directory that has the file decides.
Found(dirs, id) ==
  LET has == {i \in DOMAIN dirs : dirs[i][id] # NoEntry}
  IN IF has = {} THEN NoEntry ELSE dirs[CHOOSE i \in has : \A j \in has : i <= j][id]

Record(dirs, id, default) ==
  [id |-> id, entry |-> Found(dirs, id), isDefault |-> id = default]

\* Hidden entries are left out; the default is kept whatever types it names.
Recommended(dirs, default) ==
  {Record(dirs, id, default) : id \in
     {i \in DesktopIds : IsApp(Found(dirs, i)) /\ (i = default \/ Found(dirs, i).fits)}}

\* The default comes first, the others by their names, here in any order.
DefaultFirst(apps) ==
  CHOOSE list \in [1..Cardinality(apps) -> apps] :
    ToSet(list) = apps /\ \A i \in DOMAIN list : list[i].isDefault => i = 1

\* _dedupe_desktop_apps
AddApp(unique, app) ==
  IF \E i \in DOMAIN unique : unique[i].entry.name = app.entry.name THEN unique
  ELSE Append(unique, app)
Dedupe(list) == FoldLeft(AddApp, <<>>, list)
OpenWith(q) == Dedupe(DefaultFirst(Recommended(q.dirs, q.default)))

----------------------------------------------------------------------------
(* _conflict_record *)

Types == {"missing", "symlink", "directory", "file", "other"}
\* where: is the target the source, inside it, or elsewhere?
Kind(q) ==
  IF q.source = "directory" /\ q.where # "elsewhere" THEN "directory-into-self"
  ELSE IF q.where = "same" THEN "same-path"
  ELSE IF q.target = "missing" THEN "none"
  ELSE CASE q.source = "directory" /\ q.target = "directory" -> "directory-merge"
         [] q.source = "file" /\ q.target = "file" -> "file-replace"
         [] q.source = "directory" /\ q.target = "file" -> "directory-over-file"
         [] q.source = "file" /\ q.target = "directory" -> "file-over-directory"
         [] OTHER -> "name-collision"
PoliciesOf(kind) ==
  CASE kind = "none" -> {}
    [] kind = "directory-merge" -> {"skip", "overwrite", "keep-both", "merge"}
    [] kind = "file-replace" -> {"skip", "overwrite", "keep-both", "rename"}
    [] kind = "name-collision" -> {"skip", "keep-both"}
    [] OTHER -> {"skip"}
Policies(q) == PoliciesOf(Kind(q))

----------------------------------------------------------------------------
\* The history is in the order of time.
RecentQueries ==
  [what : {"recents"}, limit : Limits, present : SUBSET Files,
   finder : BoundedSeq(Access, MaxOwn), xbel : BoundedSeq(Access, MaxBookmarks),
   launch : {h \in BoundedSeq(Launch, MaxLaunches) :
               \A i, j \in DOMAIN h : i < j => h[i].ts <= h[j].ts}]
OpenQueries ==
  [what : {"openWith"}, dirs : [1..MaxDirs -> [DesktopIds -> Entry]],
   default : DesktopIds \cup {Nothing}]
ConflictQueries ==
  [what : {"conflict"}, source : Types, target : Types, where : {"same", "inside", "elsewhere"}]

Answer(q) ==
  CASE q.what = "recents" -> Recents(q)
    [] q.what = "openWith" -> OpenWith(q)
    [] OTHER -> Policies(q)

QInit == query = Nothing /\ reply = Nothing
Ask == /\ query = Nothing /\ UNCHANGED reply
       /\ query' \in RecentQueries \cup OpenQueries \cup ConflictQueries
Reply == query # Nothing /\ reply = Nothing /\ reply' = Answer(query) /\ UNCHANGED query
QNext == Ask \/ Reply
QSpec == QInit /\ [][QNext]_<<query, reply>>

Replied(what) == reply # Nothing /\ query.what = what

\* Bookmarks of one file under two names take the room of others, as they are cut to the
\* limit before they are merged.
Crowded(q) ==
  /\ q.limit < Cardinality(OnDisk(q.xbel, q.present))
  /\ \E i, k \in OnDisk(q.xbel, q.present) : i # k /\ q.xbel[i].path = q.xbel[k].path

\* The merged list shows the files of the latest accesses, the latest first: none twice,
\* each with its latest access in any of the three sources, and no file that is left out
\* was opened after one that is shown.  (The Explorer's own list is not checked against
\* the disk.)
Accesses(q) ==
  ToSet(q.finder)
    \cup {x \in {[path |-> r.path, ts |-> r.ts] : r \in {s \in ToSet(q.launch) : s.ok}}
                  \cup ToSet(q.xbel) : x.path \in q.present}
LastTime(q, p) == CHOOSE t \in Times : /\ [path |-> p, ts |-> t] \in Accesses(q)
                                       /\ \A x \in Accesses(q) : x.path = p => x.ts <= t
RecentsAreTheLatest ==
  Replied("recents") /\ ~Crowded(query) =>
    LET shown == {reply[i].path : i \in DOMAIN reply}
        known == {x.path : x \in Accesses(query)}
    IN /\ Cardinality(shown) = Len(reply)
       /\ Len(reply) = IF Cardinality(known) < query.limit THEN Cardinality(known)
                       ELSE query.limit
       /\ \A i \in DOMAIN reply : reply[i].ts = LastTime(query, reply[i].path)
       /\ \A i, k \in DOMAIN reply : i < k => reply[i].ts >= reply[k].ts
       /\ \A p \in known \ shown, s \in shown : LastTime(query, p) <= LastTime(query, s)

\* The default application leads the list however the entries of several
\* directories hide and repeat one another, and every application that can open
\* the file is there, itself or by a twin of the same name and command.
OpenWithIsComplete ==
  Replied("openWith") =>
    LET found(id) == Found(query.dirs, id)
        usable == {id \in DesktopIds : IsApp(found(id)) /\ (id = query.default \/ found(id).fits)}
    IN /\ query.default \in usable => reply[1].id = query.default
       /\ \A id \in usable : \E i \in DOMAIN reply : reply[i].entry.name = found(id).name
       /\ \A i, j \in DOMAIN reply : reply[i].entry.name = reply[j].entry.name => i = j

\* A policy that replaces is never offered for a target that is the source, holds
\* it, or is of another type, and every target that exists can be skipped.
PoliciesFit ==
  Replied("conflict") =>
    /\ reply \cap {"overwrite", "merge", "rename"} # {} =>
         query.where # "same" /\ query.source = query.target /\ query.source \in {"file", "directory"}
    /\ query.source = "directory" /\ query.where = "inside" => reply = {"skip"}
    /\ query.target # "missing" => "skip" \in reply

----------------------------------------------------------------------------
\* The inductive invariant: what is printed is the answer to what was asked.
QInv ==
  /\ query = Nothing \/ query \in RecentQueries \cup OpenQueries \cup ConflictQueries
  /\ reply # Nothing => query # Nothing /\ reply = Answer(query)
=============================================================================

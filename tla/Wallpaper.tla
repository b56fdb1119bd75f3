----------------------------- MODULE Wallpaper -----------------------------
(***************************************************************************)
(* wallpaper_manager.py, img_cache.py and blur_lockscreen.py: the library  *)
(* of the user's wallpapers and the links that name the one in use.  The   *)
(* pages keep a process for each command, and start a command anew by      *)
(* killing its process (_runProcess: running = false, then true).          *)
(* Applying a wallpaper leaves behind a detached process that renews its   *)
(* assets.                                                                 *)
(*                                                                         *)
(* A folder is a record of the picture it was made of and of the files in  *)
(* it; a folder whose "temp" holds is still under its staging name.        *)
(***************************************************************************)
EXTENDS Integers, Sequences, FiniteSets

CONSTANTS
    Pictures,     \* files outside of the library
    MaxFolders,   \* bound: folders ever made
    MaxKills,     \* bound: commands killed
    Together,     \* may commands of several processes run at once?
    Nothing       \* a model value: no folder, no picture

Scopes == {"wallpaper", "lockscreen"}
Procs == {"apply", "blur", "add", "delete", "state"}
Ids == 1..MaxFolders

VARIABLES
    folders,    \* USER_WALLPAPER_DIR: id -> folder, for the folders made so far
    link,       \* STATE_DIRS[scope]/wallpaper.jpg: [folder, file], or Nothing
    lockBlur,   \* lockscreen/blurred.jpg: the folder whose blurred.jpg it names
    useBlurred, \* wallpaper_use_blurred.txt
    cmd,        \* per process, its command: [pc, scope, pic, dir, file]
    jobs,       \* links expected by the refresh-assets processes left behind
    agreed,     \* history: per scope, the pictures a page asked for last
    kills

vars == <<folders, link, lockBlur, useBlurred, cmd, jobs, agreed, kills>>

Gone == [of |-> Nothing, temp |-> FALSE, files |-> {}]
Idle == [pc |-> "idle", scope |-> "wallpaper", pic |-> Nothing, dir |-> 0, file |-> "wallpaper"]

Init ==
    /\ folders = <<>>
    /\ link = [s \in Scopes |-> Nothing]
    /\ lockBlur = Nothing
    /\ useBlurred = FALSE
    /\ cmd = [p \in Procs |-> Idle]
    /\ jobs = {}
    /\ agreed = [s \in Scopes |-> {}]
    /\ kills = 0

Exists(id, file) == id \in DOMAIN folders /\ file \in folders[id].files

(***************************************************************************)
(* Helpers of the manager.                                                 *)
(***************************************************************************)
\* existing_import_for_source: folders with the source's path and a picture;
\* iterdir lists the staging folders too
Imported(pic) ==
    {id \in DOMAIN folders : folders[id].of = pic /\ {"wallpaper", "source_path"} \subseteq folders[id].files}

\* wallpaper_variant_for_mode
Variant(scope, id) == IF scope = "wallpaper" /\ useBlurred /\ Exists(id, "blurred") THEN "blurred" ELSE "wallpaper"

\* current_source: the link's target, if the file is there
Current(scope) == IF link[scope] # Nothing /\ Exists(link[scope].folder, link[scope].file) THEN link[scope] ELSE Nothing

\* mutant: the lockscreen's picture is forgotten
ActiveOnScreen(id) == {s \in {"wallpaper"} : Current(s) # Nothing /\ Current(s).folder = id}

\* active_scopes_for_folder
ActiveScopes(id) == {s \in Scopes : Current(s) # Nothing /\ Current(s).folder = id}

\* library_item lists whatever folder has a picture
Listed == {id \in DOMAIN folders : "wallpaper" \in folders[id].files}

AddFile(id, file) == [folders EXCEPT ![id].files = @ \cup {file}]

\* apply_scope once the picture is in the library
Linking(scope, pic, id, file) ==
    [Idle EXCEPT !.pc = "relink", !.scope = scope, !.pic = pic, !.dir = id, !.file = file]

(***************************************************************************)
(* Importing a picture: publish_wallpaper_folder builds a staging folder   *)
(* and renames it.  (Thumbnails, whose failure stops nothing, are left     *)
(* out.)                                                                   *)
(***************************************************************************)
StageCopy(p) ==
    /\ cmd[p].pc = "stage"
    /\ Len(folders) < MaxFolders
    /\ folders' = Append(folders, [of |-> cmd[p].pic, temp |-> TRUE, files |-> {"wallpaper"}])
    /\ cmd' = [cmd EXCEPT ![p].pc = "name", ![p].dir = Len(folders) + 1]
    /\ UNCHANGED <<link, lockBlur, useBlurred, jobs, agreed, kills>>

StageNames(p) ==
    /\ cmd[p].pc = "name"
    /\ folders' = AddFile(cmd[p].dir, "source_path")
    /\ cmd' = [cmd EXCEPT ![p].pc = "publish"]
    /\ UNCHANGED <<link, lockBlur, useBlurred, jobs, agreed, kills>>

Publish(p) ==
    /\ cmd[p].pc = "publish"
    /\ folders' = [folders EXCEPT ![cmd[p].dir].temp = FALSE]
    /\ cmd' = [cmd EXCEPT ![p] = IF p = "add" THEN Idle
                 ELSE Linking(cmd[p].scope, cmd[p].pic, cmd[p].dir, Variant(cmd[p].scope, cmd[p].dir))]
    /\ UNCHANGED <<link, lockBlur, useBlurred, jobs, agreed, kills>>

(***************************************************************************)
(* Commands.                                                               *)
(***************************************************************************)
Run(p, job) == cmd' = [cmd EXCEPT ![p] = job]

\* add_user_wallpaper
StartAdd(pic) == Run("add", [Idle EXCEPT !.pc = "stage", !.pic = pic]) /\ UNCHANGED useBlurred

\* apply_scope of a file outside of the library: managed_source_for_apply
ApplyOutside(scope, pic) ==
    /\ \/ Imported(pic) = {} /\ Run("apply", [Idle EXCEPT !.pc = "stage", !.scope = scope, !.pic = pic])
       \/ \E id \in Imported(pic) : Run("apply", Linking(scope, pic, id, Variant(scope, id)))
    /\ UNCHANGED useBlurred

\* apply_scope of a wallpaper of the library
ApplyListed(scope, id) ==
    /\ id \in Listed
    /\ Run("apply", Linking(scope, folders[id].of, id, Variant(scope, id)))
    /\ UNCHANGED useBlurred

\* source_for_blur_mode_toggle, then apply_scope, which chooses the variant
\* of the file again
ToggleFile(on, now) ==
    IF on THEN IF Exists(now.folder, "blurred") THEN "blurred" ELSE now.file
    ELSE IF now.file = "blurred" /\ Exists(now.folder, "wallpaper") THEN "wallpaper" ELSE now.file

\* set_blurred_mode
SetBlurred(on) ==
    /\ useBlurred' = on
    /\ LET now == Current("wallpaper") IN
       Run("blur", IF now = Nothing THEN Idle
                   ELSE Linking("wallpaper", folders[now.folder].of, now.folder, ToggleFile(on, now)))

\* delete_user_wallpaper: refused while a scope uses it
Delete(id) ==
    /\ id \in Listed
    /\ Run("delete", IF ActiveScopes(id) = {} THEN [Idle EXCEPT !.pc = "remove", !.dir = id] ELSE Idle)
    /\ UNCHANGED useBlurred

Remove ==
    /\ cmd["delete"].pc = "remove"
    /\ folders' = [folders EXCEPT ![cmd["delete"].dir] = Gone]
    /\ Run("delete", Idle)
    /\ UNCHANGED <<link, lockBlur, useBlurred, jobs, agreed, kills>>

\* state_payload: the assets of the lockscreen are renewed
State ==
    /\ Run("state", IF Current("lockscreen") = Nothing THEN Idle
                    ELSE [Idle EXCEPT !.pc = "assets", !.dir = link["lockscreen"].folder, !.file = link["lockscreen"].file])
    /\ UNCHANGED useBlurred

Command(p) ==
    /\ \/ p = "add" /\ \E pic \in Pictures : StartAdd(pic)
       \/ p = "apply" /\ \E scope \in Scopes, pic \in Pictures : ApplyOutside(scope, pic)
       \/ p = "apply" /\ \E scope \in Scopes, id \in DOMAIN folders : ApplyListed(scope, id)
       \/ p = "blur" /\ \E on \in BOOLEAN : on # useBlurred /\ SetBlurred(on)
       \/ p = "delete" /\ \E id \in DOMAIN folders : Delete(id)
       \/ p = "state" /\ State
    /\ UNCHANGED <<folders, link, lockBlur, jobs>>

\* the other processes are done, or need not be
Others(p) == Together \/ \A q \in Procs \ {p} : cmd[q].pc = "idle"

Start(p) == cmd[p].pc = "idle" /\ Others(p) /\ Command(p) /\ UNCHANGED <<agreed, kills>>

\* what a page asked for and did not see finished may or may not be in force
KilledCommand(p) ==
    /\ cmd[p].pc # "idle" /\ Others(p) /\ kills < MaxKills
    /\ kills' = kills + 1
    /\ agreed' = IF p = "apply" THEN [agreed EXCEPT ![cmd[p].scope] = @ \cup {cmd[p].pic}] ELSE agreed
    /\ Command(p)

(***************************************************************************)
(* The rest of apply_scope.                                                *)
(***************************************************************************)
\* relink: a new link is renamed over the old one
Relink(p) ==
    /\ cmd[p].pc = "relink"
    /\ link' = [link EXCEPT ![cmd[p].scope] = [folder |-> cmd[p].dir, file |-> cmd[p].file]]
    /\ cmd' = [cmd EXCEPT ![p].pc = IF cmd[p].scope = "lockscreen" THEN "assets" ELSE "spawn"]
    /\ UNCHANGED <<folders, lockBlur, useBlurred, jobs, agreed, kills>>

Finished(p) == IF p = "apply" THEN [agreed EXCEPT ![cmd[p].scope] = {cmd[p].pic}] ELSE agreed

\* the wallpaper's assets are left to a detached process
Spawn(p) ==
    /\ cmd[p].pc = "spawn"
    /\ jobs' = jobs \cup {[folder |-> cmd[p].dir, file |-> cmd[p].file]}
    /\ agreed' = Finished(p)
    /\ Run(p, Idle)
    /\ UNCHANGED <<folders, link, lockBlur, useBlurred, kills>>

\* refresh_assets of the lockscreen, in the command itself: the blurred copy
\* is made beside the picture and the lockscreen's link set to it; a failure
\* is printed and ignored
Assets(p) ==
    /\ cmd[p].pc = "assets"
    /\ \/ /\ Current("lockscreen") = [folder |-> cmd[p].dir, file |-> cmd[p].file]
          /\ folders' = AddFile(cmd[p].dir, "blurred")
          /\ lockBlur' = cmd[p].dir
       \/ UNCHANGED <<folders, lockBlur>>
    /\ agreed' = Finished(p)
    /\ Run(p, Idle)
    /\ UNCHANGED <<link, useBlurred, jobs, kills>>

\* refresh_assets of the wallpaper, later: nothing is done for a wallpaper
\* that is no longer the active one
Refresh(expected) ==
    /\ jobs' = jobs \ {expected}
    /\ \/ Current("wallpaper") = expected /\ folders' = AddFile(expected.folder, "blurred")
       \/ UNCHANGED folders
    /\ UNCHANGED <<link, lockBlur, useBlurred, cmd, agreed, kills>>

Next ==
    \/ \E p \in Procs : Start(p) \/ KilledCommand(p)
    \/ \E p \in {"apply", "add"} : StageCopy(p) \/ StageNames(p) \/ Publish(p)
    \/ \E p \in {"apply", "blur"} : Relink(p) \/ Spawn(p)
    \/ \E p \in {"apply", "state"} : Assets(p)
    \/ Remove
    \/ \E job \in jobs : Refresh(job)

Spec == Init /\ [][Next]_vars

(***************************************************************************)
(* Properties.                                                             *)
(***************************************************************************)
\* Whatever is deleted, blurred, killed or imported again, the picture in use
\* and the lockscreen's blurred copy stay on the disk (delete_user_wallpaper).
InUseExists ==
    /\ \A s \in Scopes : link[s] # Nothing => Exists(link[s].folder, link[s].file)
    /\ Current("lockscreen") # Nothing /\ lockBlur = link["lockscreen"].folder => Exists(lockBlur, "blurred")

\* The picture in use is the one a page asked for last: a reused import, a
\* blurred copy and a change of mode never bring in another one
\* (apply_scope, existing_import_for_source, set_blurred_mode).
InUseIsAgreed ==
    \A s \in Scopes :
      ((\A p \in Procs : cmd[p].pc = "idle") /\ Current(s) # Nothing) => folders[link[s].folder].of \in agreed[s]

(***************************************************************************)
(* Why they hold, when no commands of several processes run at once.       *)
(***************************************************************************)
Files == {"wallpaper", "source_path", "blurred"}
Folders == [of : Pictures \cup {Nothing}, temp : BOOLEAN, files : SUBSET Files]
Links == [folder : Ids, file : Files]
Steps == [apply |-> {"stage", "name", "publish", "relink", "spawn", "assets"}, blur |-> {"relink", "spawn"},
          add |-> {"stage", "name", "publish"}, delete |-> {"remove"}, state |-> {"assets"}]
Jobs == [pc : {"idle", "stage", "name", "publish", "relink", "spawn", "assets", "remove"}, scope : Scopes,
         pic : Pictures \cup {Nothing}, dir : {0} \cup Ids, file : Files]

WallpaperTypeOK ==
    /\ folders \in Seq(Folders) /\ Len(folders) <= MaxFolders
    /\ link \in [Scopes -> Links \cup {Nothing}] /\ lockBlur \in Ids \cup {Nothing}
    /\ useBlurred \in BOOLEAN /\ jobs \subseteq Links /\ kills \in 0..MaxKills
    /\ cmd \in [Procs -> Jobs] /\ \A p \in Procs : cmd[p].pc \in {"idle"} \cup Steps[p]
    /\ agreed \in [Scopes -> SUBSET (Pictures \cup {Nothing})]

OneCommand == \A p \in Procs : cmd[p].pc # "idle" => \A q \in Procs \ {p} : cmd[q].pc = "idle"

\* The folder of a command of process p is a picture's, and the one it was asked for.
Prepared(p, job) ==
    /\ job.pc \in {"name", "publish", "relink", "spawn", "assets"} /\ p # "state" =>
         Exists(job.dir, "wallpaper") /\ folders[job.dir].of = job.pic
    /\ job.pc = "relink" => Exists(job.dir, job.file)
    /\ p = "apply" /\ job.pc \in {"spawn", "assets"} =>
         link[job.scope] = [folder |-> job.dir, file |-> job.file]
    /\ p = "blur" /\ job.pc # "idle" => job.scope = "wallpaper" /\ job.pic \in agreed["wallpaper"]
    /\ job.pc = "remove" =>
         job.dir \in DOMAIN folders /\ \A s \in Scopes : link[s] # Nothing => link[s].folder # job.dir

\* A link names a file that is there, of a picture that was agreed on or that the
\* running command will have agreed on when it ends.
Linked(s) ==
    link[s] # Nothing =>
      /\ Exists(link[s].folder, link[s].file) /\ Exists(link[s].folder, "wallpaper")
      /\ \/ folders[link[s].folder].of \in agreed[s]
         \/ cmd["apply"].pc \in {"spawn", "assets"} /\ cmd["apply"].scope = s

\* The folder of the lockscreen's blurred copy has it until it is gone.
Blurred ==
    lockBlur # Nothing =>
      lockBlur \in DOMAIN folders /\ ("blurred" \in folders[lockBlur].files \/ folders[lockBlur].files = {})

WallpaperInv ==
    /\ WallpaperTypeOK /\ OneCommand /\ Blurred
    /\ (\A p \in Procs : Prepared(p, cmd[p])) /\ (\A s \in Scopes : Linked(s))
=============================================================================

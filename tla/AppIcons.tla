------------------------------ MODULE AppIcons ------------------------------
(***************************************************************************)
(* app_icons.py: which icon is shown for a stream or a window.  The        *)
(* resolver asks several sources in turn, each of which may know a name    *)
(* for which no file is installed; for a Windows program (Wine, Proton)    *)
(* its game and its own folder come before a guess by name.                *)
(*                                                                         *)
(* A source's answer is "none", "named" (a name without a file) or "file". *)
(* A process is a number above 1, and 1 is init.                           *)
(***************************************************************************)
EXTENDS Integers, Sequences, SequencesExt, FiniteSets, FiniteSetsExt

CONSTANTS
    Pids,      \* the processes that are not init: numbers above 1
    Games,     \* ids of Steam games
    Walk       \* the longest walk to the ancestors (8)

VARIABLE app   \* the program whose icon is asked for, and what the machine knows

Programs ==
    [explicit : {"none", "named", "file"}, guess : {"named", "file"}, desktop : {"none", "file"}, local : BOOLEAN,
     wine : BOOLEAN,                                \* _is_wine_or_proton_stream
     pid : {Min(Pids)}, parent : [Pids -> Pids \cup {1}],
     told : [Pids -> {0} \cup Games],               \* game id in a process's environment
     match : [Games -> {0, 55, 100}],               \* how well a game's manifest fits the names
     icon : SUBSET Games]                           \* games with an icon on the disk

(***************************************************************************)
(* The processes a stream belongs to.                                      *)
(***************************************************************************)
\* _process_ancestor_pids: the walk stops at init, at a process that is gone
\* and at one that was met before
Ancestors(pid, parent) ==
    LET walk[n \in 1..Walk] ==
          IF n = 1 THEN <<pid>>
          ELSE LET met == walk[n - 1]
                   next == parent[Last(met)]
               IN IF next \in {1} \cup ToSet(met) THEN met ELSE Append(met, next)
    IN walk[Walk]

\* _steam_appid_for_process: the nearest process that tells a game
SteamAppid(p) ==
    LET processes == Ancestors(p.pid, p.parent)
        telling == {i \in DOMAIN processes : p.told[processes[i]] # 0}
    IN IF telling = {} THEN 0 ELSE p.told[processes[Min(telling)]]

(***************************************************************************)
(* The sources.  A result says which source had the icon, and for a game's *)
(* icon whose it is.                                                       *)
(***************************************************************************)
NoIcon == [from |-> "nowhere", game |-> 0]

\* _steam_icon_for_app: the game the process tells, if it has an icon, else
\* the best match among the manifests whose game has one
SteamIcon(p) ==
    LET told == SteamAppid(p)
        fits == {g \in p.icon : p.match[g] > 0}
        best == {g \in fits : \A h \in fits : p.match[h] <= p.match[g]}
    IN IF told \in p.icon THEN {[from |-> "game", game |-> told]}
       ELSE IF best = {} THEN {NoIcon}
       ELSE {[from |-> "game", game |-> g] : g \in best}

Found(source, answer) == IF answer = "file" THEN [from |-> source, game |-> 0] ELSE NoIcon

\* the first source of a list that has an icon
FirstIcon(icons) ==
    LET found == {i \in DOMAIN icons : icons[i] # NoIcon}
    IN IF found = {} THEN NoIcon ELSE icons[Min(found)]

\* mutant: a guess by name comes first for every program
GuessFirst(p, steam) ==
    <<Found("explicit", p.explicit), Found("guess", p.guess), steam, Found("desktop", p.desktop),
      Found("local", IF p.local THEN "file" ELSE "none")>>

\* resolve_app_icon; steam is an answer of SteamIcon
Order(p, steam) ==
    LET explicit == Found("explicit", p.explicit)
        own == Found("local", IF p.local THEN "file" ELSE "none")
        desktop == Found("desktop", p.desktop)
        guess == Found("guess", p.guess)
    IN IF p.wine THEN <<explicit, steam, desktop, own, guess>>
       ELSE <<explicit, guess, steam, desktop, own>>

Icons(p) == {FirstIcon(Order(p, steam)) : steam \in SteamIcon(p)}

IconInit == app \in Programs
IconNext == UNCHANGED app
IconSpec == IconInit /\ [][IconNext]_app

(***************************************************************************)
(* Properties.                                                             *)
(***************************************************************************)
\* the k-th ancestor
Up[k \in 0..Cardinality(Pids)] ==
    IF k = 0 THEN app.pid ELSE IF Up[k - 1] \in Pids THEN app.parent[Up[k - 1]] ELSE 0

\* A Windows program whose nearest telling ancestor names a game with an icon is
\* shown by that icon, never by another game's or a guess; and whatever the
\* program, an icon is found if any source has one (resolve_app_icon,
\* _steam_icon_for_app; test_audio_outputs.py).
RightIconIsFound ==
    LET telling == {k \in 0..Cardinality(Pids) : k < Walk /\ Up[k] \in Pids /\ app.told[Up[k]] # 0}
        game == app.told[Up[Min(telling)]]
        files == {app.explicit, app.guess, app.desktop}
    IN /\ (app.wine /\ app.explicit # "file" /\ telling # {} /\ game \in app.icon) => Icons(app) = {[from |-> "game", game |-> game]}
       /\ NoIcon \in Icons(app) =>
            "file" \notin files /\ ~app.local /\ \A g \in app.icon : app.match[g] = 0 /\ (telling # {} => game # g)
=============================================================================

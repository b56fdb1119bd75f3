------------------------------ MODULE MCPrograms ------------------------------
(***************************************************************************)
(* The bridges, helpers and applications, and the notification overlay     *)
(* with its daemon, in one model for TLC.  They share no state, so a       *)
(* behaviour runs one of them, part, chosen at the start; the variables of *)
(* that one are the slots v1, v2, ..., and the slots it does not need stay *)
(* at 0.                                                                   *)
(***************************************************************************)
EXTENDS Naturals, Sequences, FiniteSets

CONSTANTS
    \* model values
    Nil, Spatial, Daemon, Monitors, Apps,
    \* sets of model values
    Commands, Callers, Networks, Servers, Messages, Pictures, Events,
    Flows,                    \* requests of polkitd
    Paired,                   \* Bluetooth devices, by priority
    Speakers,                 \* physical sinks, as the sound server lists them
    Alerts,                   \* weather alerts
    Clients,                  \* windows the switcher lists
    Selectable, Destinations, \* files that are pasted, and folders
    HomeFolders,              \* folders items are trashed from
    Moments, ListLimits,      \* times and lengths of recent files
    Launchers, Identities,    \* desktop files, and their names and commands
    Strengths, Pids, Games,   \* of signals, of processes and of Steam: numbers
    UnitsPerDay, LongestSample, \* of screen time
    \* ages the weather's caches allow, in quarters of an hour or more
    PageTTL, StaleTTL, Retention, SystemTTL, IpTTL, SeenTTL,
    \* bounds
    MaxIdentities, MaxQuestions, MaxClock, MaxClears, MaxKills, MaxFolders, MaxPlugs,
    MaxClients, MaxSteps, MaxChanges, MaxPastes, MaxExtractions, MaxTrashRuns, MaxTrashKills,
    MaxTime, MaxEnds, Ancestry, MaxPoints, FieldLength, HtmlTokens, TextLines,
    OwnRecents, Bookmarks, Launches, ProgramDirs

ASSUME NilIsNothing == Nil \notin Flows \cup (1..MaxFolders)
ASSUME NilIsNoEvent == Nil \notin Events
ASSUME DevicesAreNumbers == Paired \cup Speakers \subseteq Nat
ASSUME SinksAreDifferent == {Spatial, Nil} \cap Speakers = {}
ASSUME NilIsNoLink ==
    Nil \notin [folder : 0..MaxFolders, file : {"wallpaper", "source_path", "blurred"}]
ASSUME NilIsNoJob ==
    Nil \notin Destinations \cup
               [files : SUBSET Selectable, mode : {"copy", "cut", "move"}, dest : Destinations]
ASSUME BoundsAreNumbers ==
    {MaxIdentities, MaxQuestions, MaxClock, MaxClears, MaxKills, MaxFolders} \subseteq Nat
ASSUME HomesAreFolders == IsFiniteSet(HomeFolders) /\ "bin" \notin HomeFolders
ASSUME TimeIsCountable ==
    /\ IsFiniteSet(Apps) /\ UnitsPerDay \in Nat \ {0}
    /\ {LongestSample, MaxTime, MaxEnds} \subseteq Nat
\* 1 is init, and 0 is no process and no game.
ASSUME ProcessesAreNumbers ==
    /\ IsFiniteSet(Pids) /\ Pids # {} /\ Pids \subseteq Nat \ {0, 1}
    /\ 0 \notin Games /\ Ancestry \in Nat \ {0}
ASSUME SignalsAreNumbers == Strengths \cup {MaxPoints, FieldLength} \subseteq Nat
ASSUME BodiesAreFinite == {HtmlTokens, TextLines} \subseteq Nat
ASSUME QueriesAreFinite ==
    /\ IsFiniteSet(Launchers)
    /\ Moments \cup ListLimits \cup {OwnRecents, Bookmarks, Launches, ProgramDirs} \subseteq Nat
ASSUME ExtractionsAreCounted == MaxExtractions \in Nat
ASSUME SwitcherIsBounded == {MaxClients, MaxSteps, MaxChanges} \subseteq Nat
\* CACHE_TTL, STALE_CACHE_TTL, FORECAST_CACHE_RETENTION, SYSTEM_LOCATION_CACHE_TTL,
\* IP_LOCATION_CACHE_TTL and NOTIFY_STATE_TTL of weather.py
ASSUME AgesAreAllowed ==
    /\ {PageTTL, StaleTTL, Retention, SystemTTL, IpTTL} \subseteq Nat \ {0} /\ SeenTTL \in Nat
    /\ StaleTTL <= Retention /\ SystemTTL <= IpTTL

VARIABLES part, v1, v2, v3, v4, v5, v6, v7, v8, v9, v10, v11, v12, v13
slots == <<part, v1, v2, v3, v4, v5, v6, v7, v8, v9, v10, v11, v12, v13>>

Bluetooth == INSTANCE BluetoothManager WITH
    Devices <- Paired, Overlap <- FALSE,
    powered <- v1, connected <- v2, inRange <- v3, config <- v4, runtime <- v5, cache <- v6,
    job <- v7, at <- v8, loaded <- v9, status <- v10, todo <- v11, tried <- v12, snoozed <- v13

Audio == INSTANCE AudioOutputs WITH
    Devices <- Speakers, Nothing <- Nil,
    present <- v1, default <- v2, stream <- v3, hidden <- v4, plugs <- v5, info <- v6,
    shown <- v7, apply <- v8

Weather == INSTANCE WeatherCache WITH
    clock <- v1, page <- v2, sysAt <- v3, ipAt <- v4, automatic <- v5, cleared <- v6,
    call <- v7, answer <- v8

WeatherWarnings == INSTANCE WeatherAlerts WITH
    clock <- v1, active <- v2, seen <- v3, proc <- v4, told <- v5, kills <- v6, enabled <- v7

Net == INSTANCE Network WITH
    Signals <- Strengths, None <- Nil, MaxField <- FieldLength,
    air <- v1, radio <- v2, joined <- v3, dns <- v4, warp <- v5, answer <- v6

Icons == INSTANCE AppIcons WITH
    Walk <- Ancestry, app <- v1

Picture == INSTANCE Wallpaper WITH
    Together <- FALSE, Nothing <- Nil,
    folders <- v1, link <- v2, lockBlur <- v3, useBlurred <- v4, cmd <- v5, jobs <- v6,
    agreed <- v7, kills <- v8

Usage == INSTANCE ScreenTime WITH
    NoWindow <- Nil, DayLength <- UnitsPerDay, SampleCap <- LongestSample,
    MaxClock <- MaxTime, MaxStops <- MaxEnds, ResetAnytime <- FALSE,
    wall <- v1, mono <- v2, file <- v3, mon <- v4, since <- v5, stops <- v6

Archive == INSTANCE ArchiveExtract WITH
    MaxRuns <- MaxExtractions, MergeOnFile <- FALSE, CleanupFails <- FALSE,
    fs <- v1, archive <- v2, ui <- v3, password <- v4, pc <- v5, policy <- v6, dest <- v7,
    backup <- v8, existed <- v9, before <- v10, agreed <- v11, runs <- v12

Bin == INSTANCE Trash WITH
    Homes <- HomeFolders, Fallback <- "home", Bin <- "bin",
    MaxRuns <- MaxTrashRuns, MaxKills <- MaxTrashKills,
    disk <- v1, info <- v2, pc <- v3, todo <- v4, item <- v5, goal <- v6, runs <- v7,
    kills <- v8, disturbed <- v9

Pasting == INSTANCE PasteFlow WITH
    Files <- Selectable, Folders <- Destinations, MaxAsks <- MaxPastes,
    Overlap <- FALSE, QuickCancel <- FALSE, Nothing <- Nil,
    clip <- v1, folder <- v2, pend <- v3, clears <- v4, dialog <- v5, panel <- v6,
    probe <- v7, scan <- v8, paste <- v9, order <- v10, kept <- v11, count <- v12

Queries == INSTANCE ExplorerQueries WITH
    Files <- Selectable, Times <- Moments, Limits <- ListLimits, DesktopIds <- Launchers,
    Nothing <- Nil, MaxOwn <- OwnRecents, MaxBookmarks <- Bookmarks, MaxLaunches <- Launches,
    MaxDirs <- ProgramDirs, query <- v1, reply <- v2

Mail == INSTANCE MailCache WITH
    Ids <- Messages, NoId <- Nil,
    Listings <- {<<"Inbox", "all">>, <<"Archive", "all">>},
    Orders <- {"read", "unread", "archive", "trash", "inbox"},
    server <- v1, pages <- v2, store <- v3, view <- v4, selected <- v5, cmd <- v6,
    torn <- v7, unsent <- v8

Body == INSTANCE MailBody WITH MaxTokens <- HtmlTokens, MaxLines <- TextLines, mail <- v1

Overlay == INSTANCE NotificationOverlay WITH
    Keys <- {}, NoEvent <- Nil, NoKey <- Nil, MaxHistory <- 2, MaxDelivered <- 2,
    MaxId <- 3, Budget <- 4, Replaceable <- "known", MaxCards <- 2,
    Overlap <- FALSE, Crashes <- TRUE, Updates <- FALSE,
    d <- v1, pc <- v2, call <- v3, quitting <- v4, file <- v5, held <- v6, shown <- v7,
    ackd <- v8, budget <- v9, cards <- v10, changed <- v11, closeProc <- v12

Polkit == INSTANCE PolkitAgent WITH
    MaxAsks <- MaxQuestions, Nobody <- Nil,
    pc <- v1, names <- v2, index <- v3, session <- v4, asks <- v5, prompt <- v6,
    cancelled <- v7, gained <- v8, answer <- v9

Switcher == INSTANCE AltTab WITH
    Windows <- Clients, MaxWindows <- MaxClients, NoWindow <- Nil,
    order <- v1, open <- v2, clients <- v3, currentIndex <- v4, offset <- v5, loading <- v6,
    requested <- v7, commitAfterLoad <- v8, listing <- v9, session <- v10, focused <- v11,
    changes <- v12

\* Slots a part does not need.
None2   == v2 = 0
None3   == v3 = 0 /\ v4 = 0 /\ v5 = 0 /\ v6 = 0
None7   == v7 = 0
None8   == v8 = 0
None9   == v9 = 0
None10  == v10 = 0 /\ v11 = 0 /\ v12 = 0
None13  == v13 = 0
From10  == None10 /\ None13
From9   == None9 /\ From10
From7   == None7 /\ None8 /\ From9

Init ==
    \/ part = "bluetooth" /\ Bluetooth!BtInit
    \/ part = "audio" /\ Audio!AudioInit /\ From9
    \/ part = "weather" /\ Weather!WeatherInit /\ From9
    \/ part = "alerts" /\ WeatherWarnings!AlertInit /\ None8 /\ From9
    \/ part = "network" /\ Net!NetInit /\ From7
    \/ part = "icons" /\ Icons!IconInit /\ None2 /\ None3 /\ From7
    \/ part = "wallpaper" /\ Picture!Init /\ From9
    \/ part = "screentime" /\ Usage!Init /\ From7
    \/ part = "archive" /\ Archive!ArInit /\ None13
    \/ part = "trash" /\ Bin!TrInit /\ From10
    \/ part = "paste" /\ Pasting!Init /\ None13
    \/ part = "queries" /\ Queries!QInit /\ None3 /\ From7
    \/ part = "mail" /\ Mail!MailInit /\ From9
    \/ part = "overlay" /\ Overlay!OverlayInit /\ None13
    \/ part = "polkit" /\ Polkit!PkInit /\ From10
    \/ part = "switcher" /\ Switcher!AtInit /\ None13
    \/ part = "body" /\ v1 \in Body!MailCases /\ None2 /\ None3 /\ From7

Keep7  == UNCHANGED <<v7, v8, v9, v10, v11, v12, v13>>
Keep9  == UNCHANGED <<v9, v10, v11, v12, v13>>
Keep3  == UNCHANGED <<v3, v4, v5, v6>>

Next ==
    /\ UNCHANGED part
    /\ \/ part = "bluetooth" /\ Bluetooth!BtNext
       \/ part = "audio" /\ Audio!AudioNext /\ Keep9
       \/ part = "weather" /\ Weather!WeatherNext /\ Keep9
       \/ part = "alerts" /\ WeatherWarnings!AlertNext /\ UNCHANGED v8 /\ Keep9
       \/ part = "network" /\ Net!NetNext /\ Keep7
       \/ part = "wallpaper" /\ Picture!Next /\ Keep9
       \/ part = "screentime" /\ Usage!Next /\ Keep7
       \/ part = "archive" /\ Archive!ArNext /\ UNCHANGED v13
       \/ part = "trash" /\ Bin!TrNext /\ UNCHANGED <<v10, v11, v12, v13>>
       \/ part = "paste" /\ Pasting!Next /\ UNCHANGED v13
       \/ part = "queries" /\ Queries!QNext /\ Keep3 /\ Keep7
       \/ part = "mail" /\ Mail!MailNext /\ Keep9
       \/ part = "overlay" /\ Overlay!OverlayNext /\ UNCHANGED v13
       \/ part = "polkit" /\ Polkit!PkNext /\ UNCHANGED <<v10, v11, v12, v13>>
       \/ part = "switcher" /\ Switcher!AtNext /\ UNCHANGED v13

Spec == Init /\ [][Next]_slots

----------------------------------------------------------------------------
\* Autoconnection keeps to the user's last word (BluetoothManager).
AutoconnectObeys == [][part = "bluetooth" => Bluetooth!ObeyingStep]_slots

\* The output in use is shown, only one is, and the output chosen is the one
\* heard (AudioOutputs!InUseIsShown, ChoosingStep).
OutputsAreTrue ==
    /\ [](part = "audio" => Audio!InUseIsShown)
    /\ [][part = "audio" => Audio!ChoosingStep]_slots

\* No answer is of a place or time older than the caches allow, callers that ask
\* together fetch once, and no page is thrown away that could still be answered
\* with (WeatherCache!AnswersAreRecent, FetchedOnce, PruningKeepsAnswers).
AnswersAreRecent ==
    /\ [](part = "weather" => Weather!AnswersAreRecent)
    /\ [][part = "weather" => Weather!FetchingStep /\ Weather!PruningStep]_slots

\* Nobody is told an alert twice (WeatherAlerts).
ToldOnce == [][part = "alerts" => WeatherWarnings!TellingStep]_slots

\* Success is what the answer shows, listings are right, and fields are read
\* back as nmcli was given them (Network).
NetworkIsTold ==
    part = "network" => Net!SuccessIsShown /\ Net!ListingIsRight /\ Net!FieldsAreReadBack

\* A Windows game gets its own icon, and whoever has an icon gets one (AppIcons).
RightIconIsFound == part = "icons" => Icons!RightIconIsFound

\* The picture in use is there and is the one asked for (Wallpaper).
RightPictureIsThere == part = "wallpaper" => Picture!InUseExists /\ Picture!InUseIsAgreed

\* No second is counted twice or lost between the sums (ScreenTime).
TimeIsCountedOnce == part = "screentime" => Usage!TimeIsCountedOnce

\* Extraction spares the user's files, "done" is the whole archive, and a failure
\* leaves no trace (ArchiveExtract!UserFilesSurvive, DoneIsWhole, FailingStep).
ExtractionIsSafe ==
    /\ [](part = "archive" => Archive!UserFilesSurvive /\ Archive!DoneIsWhole)
    /\ [][part = "archive" => Archive!FailingStep]_slots

\* No item in the trash has another's .trashinfo, and only emptying the trash
\* removes an item (Trash!TrashInfoIsRight, OnlyEmptyRemoves).
TrashIsRight ==
    /\ [](part = "trash" => Bin!TrashInfoIsRight)
    /\ [][part = "trash" => Bin!RemovingStep]_slots

\* A paste that runs is the one meant, only what was moved leaves the clipboard,
\* and the panel is shown while a paste runs and no longer (PasteFlow).
PastesAreMeant ==
    /\ [](part = "paste" => Pasting!PanelIsRight)
    /\ [][part = "paste" => Pasting!StartingStep /\ Pasting!EmptyingStep]_slots

\* Recent files, Open With and conflict policies are what they are shown as
\* (ExplorerQueries).
QueriesAreRight ==
    part = "queries" =>
      Queries!RecentsAreTheLatest /\ Queries!OpenWithIsComplete /\ Queries!PoliciesFit

\* Cached pages and the window show what the server has (MailCache).
MailIsTrue == part = "mail" => Mail!PagesAreTrue /\ Mail!WindowIsTrue

\* Mail bodies keep their texts, are well formed and settle (MailBody).
BodiesAreSound ==
    part = "body" =>
      Body!TextsOutsideAreKept /\ Body!ReaderIsWellFormed /\ Body!UpgradeSettles

\* Polkit is told the truth, no request is stranded, and a cancelled one goes no
\* further (PolkitAgent!NoneIsStranded, AnswersAreEarned, CancellingStep).
RequestsAreAnswered ==
    /\ [](part = "polkit" => Polkit!NoneIsStranded /\ Polkit!AnswersAreEarned)
    /\ [][part = "polkit" => Polkit!CancellingStep]_slots

\* A commit focuses the window meant, and none waits in vain (AltTab).
CommitsAreMeant ==
    part = "switcher" => Switcher!CommitsAreMeant /\ Switcher!NothingWaitsInVain

\* Cards follow the banners, and no close request is lost (NotificationOverlay).
CardsAreSound == part = "overlay" => Overlay!CardsAreSound
=============================================================================

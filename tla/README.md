# Verification of Astrea-OS

TLA+ models of the parts of Astrea-OS that keep state across processes, timers
and failures, the TLC runs that check them, and TLAPS proofs about them. Paths
are relative to the repository's root.

## 1. The system and its parts

Astrea-OS is a desktop shell (Quickshell/QML) over small daemons and one-shot
helper programs (Rust, Python, shell). The daemons are systemd user units or
D-Bus activated services; QML talks to them by D-Bus, Unix sockets, JSON state
files it watches, and child processes whose output it parses. A page of the
shell keeps one process per kind of command, and starting a new one kills the
one before: that pattern, and files that several processes load and save whole,
are where most of the interleavings of this system come from.

| Part | Keeps | Operations | Talks to |
|---|---|---|---|
| Latency daemon, `src/System/latencyd`, `astrea_latencyd.py` | snapshot of the machine's settings, active bursts, `state.json` | burst request, expiry, rollback, recovery, shutdown | clients over a socket; a root helper through sudo; cpufreq files and power profile |
| Launch service, `src/System/launch` | a thread per request, `history.jsonl` | launch by the daemon or locally, history append and trim | the latency daemon, systemd-run |
| Notification daemon, `notification_daemon.py` | banners, history, delivered events, three indexes, timers, `state.json` | Notify, CloseNotification, ClearHistoryItem, ClearHistory, expiry, idle exit, SIGTERM | D-Bus clients; the overlay by the file |
| Notification overlay, `src/Quickshell/notifications` | a card per banner, one close process | reload, dismiss, close | the daemon by file and gdbus |
| Explorer file operations, `file_ops.rs` | only the disk | copy, move under skip, overwrite, rename, keep-both | started and killed by the Explorer's QML |
| Explorer helper, `explorer_helper.py` | archives, trash, `.trashinfo` files, recents | extract, trash, restore, empty, recents, Open With, conflicts | the Explorer's QML, 7z and bsdtar |
| Explorer pastes, `FileOperationsState.qml` | clipboard, pending paste, conflict dialog, panel | copy, cut, paste, drop, resolve, cancel | the helper's scan, `file_ops.rs` |
| File chooser portal, `src/System/portal`, `PortalDialog.qml` | the call being served, a dialog process | OpenFile, SaveFile, SaveFiles | the dialog by a result file and its output |
| Status daemon, `astrea_statusd.py` | deadlines, cached values, four status files, two threads | refresh, signal, autoconnect | wpctl, nmcli, the Bluetooth manager, pw-mon |
| Bluetooth manager, `bluetooth_manager.py` | configuration, cooldowns, a status cache | connect, disconnect, power, autoconnect | bluetoothctl |
| Storage overview, `storage.py` | a cache, a lock file, a status file | json, refresh in the background | scanners, the Settings page |
| Desktop icons, `DesktopIcons.qml`, `app_index.py` | icons, their positions, a folder signature | list, probe, load and save the layout | helper processes |
| Window switcher, `AltTabController.qml` | list of windows, pending steps and commit | step, preview, commit, cancel | hyprctl |
| Polkit agent, `astrea-polkit-agent.py` | a flow per request | start, ask, answer, cancel, next identity | polkitd, libpolkit sessions, a prompt process |
| Weather, `weather.py` | a page, two location caches, seen alerts, a lock | get, clear, notify | forecast services |
| Sound, `audio.py`, `Audio.qml` | outputs shown, hidden outputs | info, apply | pactl |
| Network, `network/manager.py` | nothing of its own | Wi-Fi, DNS, WARP | nmcli, systemctl, warp-cli |
| Icons of programs, `app_icons.py` | nothing | resolve | /proc, Steam's manifests |
| Wallpapers, `wallpaper_manager.py` and its page | folders, links per scope, a blur mode | add, apply, delete, blur, refresh assets | detached processes |
| Mail (Bench), `Bench/Email` | pages on disk, the window's list | list, modify, get | Gmail |
| Screen time (Bench), `screentime.py` | `usage.json`, a lock | monitor, reset | hyprctl |
| Night shift, updater, navigation, bridges, bar, spotlight, Settings | see section 7 | | |

What makes them hard, and what correct means for each:

* **Latency daemon.** It borrows global settings and must give them back. Hard:
  crashes between applying, persisting and clearing; a helper killed half-way;
  the user changing a setting meanwhile; overlapping bursts; deadlines against
  poll timeouts; in the Python daemon, writes that raise. Correct: the user's
  settings can always be restored and are, no burst outlives its deadline, none
  ends before the last of those overlapping it.
* **Notification daemon and overlay.** Hard: three indexes and two bounded
  records that outlive what they point to; ids rebuilt at each start; a write to
  the file after each change that a crash can cut off; two sides that learn of
  each other by a file and by a single-slot process. Correct: fresh ids are
  fresh, an acknowledged event is not shown twice, clients learn the end of their
  banners, cards and banners agree, every dismissal closes its banner.
* **Launch service.** Hard: two fallbacks, timeouts, crashes, one history file
  rewritten by many. Correct: at most one start per request, true answers, the
  burst before the start, every request answered.
* **File operations, extraction, trash.** Hard: each step can fail and a kill
  can come anywhere; processes of different kinds overlap. Correct: nothing of
  the user is lost unless he agreed, a failure leaves no trace, an item of the
  trash never gets another's origin.
* **Portal, Polkit agent.** Hard: answers that arrive by two ways or two
  threads while processes end and deadlines pass. Correct: every caller gets the
  answer its own dialog or session gave, and nobody is left waiting.
* **Caches and pollers** (status daemon, storage, weather, mail, desktop icons,
  Bluetooth). Hard: a value that is read, then used after a slow command, while
  somebody else changes what it was read from. Correct: what is shown comes to
  follow the world, a refresh that is asked for happens, no answer is older than
  the caches allow, no decision goes against the user's last word.
* **Bridges** (sound, network, wallpapers, icons, window switcher). Hard: several
  commands per request, each of which may fail or be overtaken. Correct: what is
  answered or done is what was asked for.

## 2. Modules

Names of actions and operators are those of the functions they translate. A
definition headed "mutant" is a plausible bug of the definition beside it, by
which the property that catches it was tried; no run uses it.

### LatencyDaemon, LatencyDaemonPy (with BorrowedSettings)

`mem` is `self.previous_*`, `privileged_snapshot` and `active`; `boosts` holds
the deadlines as ticks left; `file` is `state.json`; `pc`/`ret` cut the single
thread where a crash, a tick or a change by the user can come between two effects:
`handle_payload` is Accept, TakeSnapshot, HelperBurst, DirectBurst, PushBoost,
Persist; `rollback` is RollbackProfile, RollbackCpu, RollbackClear, returning to
where it was called from (`prune_expired` in the loop or in the handler, the end of
`serve`, `recover_pending_rollback`); LoopTop and PollReturns are the loop with
`next_timeout` and `wait_for_event`. Clients, signals, crashes, user changes and
`Tick` are the environment.

Faults are a constant set: crash; user (a setting changed by somebody else);
profileRead, restore, write (a failing tool or write); helperTimeout (the root
helper killed after 1.5 s with any subset of the knobs written). When a fault may
have made the user's settings unrestorable, the history variable `lost` names it;
`baseline` holds what the user last chose. `unrestorable` stands for governors the
helper overwrites but refuses to write back (`userspace`).

LatencyDaemonPy extends LatencyDaemon with the Python daemon's differences: a
failed write of the history or of `state.json` is an exception, which leaves the
handler, or the loop through its `finally` clause, at the point where it is raised.

`BorrowedSettings` is the abstract specification: settings are the owner's
unless on loan, and a loan ends with the owner's settings in force.
`KeepsContract` is the refinement, with a loan on while a snapshot is held in
memory or in the file.

### NotificationDaemon, RecencyMap, NotificationOverlay

`RecencyMap` models Python's dicts where their order matters: each entry has a
rank, the number of entries inserted after it, so that Drop, Touch (pop and
reinsert), Assign (keep the place) and Newest (evict the oldest) are functions.

`d` is the daemon's memory; operators `RememberHistory`, `StoreActive`,
`RemoveActive`, `CancelExpiry`, ... are one method each and are composed by the
D-Bus calls as in the code. A call changes the memory in one step
and writes the file in the next (WriteState), which also gives the answer or sends
the signal; Stop and Crash can fall in between. `Resolve` is
`_resolve_notification_request` with its order of lookups and the repairs they make
to the indexes. History variables: `held` (ids returned to clients), `shown` (banners
whose end was not reported), `ackd` (events answered for). `Replaceable` says which
ids clients pass as `replaces_id`; the runs use "known", ids of banners and history
items.

`NotificationOverlay` extends it with `NotificationStore.qml` and
`NotificationCard.qml`: a card is "up", "leaving" (sliding out) or "gone"
(invisible, close requested). `Overlap` lets a card request its close while the
process of another runs; `Updates` lets clients update a banner whose card was
dismissed; `Crashes` lets the daemon be killed.

### LaunchService

Each invocation of `astrea-launch` is a client; its `run_launch` is a sequence of
steps, run by a daemon thread (`inDaemon`) or by the client itself. `trim_history` is three
steps, read, truncate, fill, as `fs::write` truncates before it writes; `Overwrite` is
a write from the start of a file that meanwhile grew. A request that was sent and not
answered is an error and is not repeated; one that could not connect runs locally.
KillMode=process: applications survive the daemon.

### FileOps

Files and directories are sets of parts (blocks, entries), each part tagged with its
origin, so that losing data is "no path has this part any more". Renames are
atomic; copies and recursive removals go part by part and may fail or be killed at each.
`Aside`, `Publish`, `Discard`, `Restore` are the backup protocol; `MoveByRename`
falls to `MoveCopy` and `RemoveSource` between file systems. `Kill` is
the Explorer stopping a running operation to start another.

### PortalDialog

`pc` follows the loop of `run_dialog_with_config`: read the file, drain the output, ask
whether the process ended, sleep; then `final_child_result` and
`terminate_child`. The dialog is `emitResultOnce`, the helper that writes the file
(which can fail) and the output on its exit. `left` counts polls to the deadline
and, after the process ended, the last polls. `fate` records why a call may end
without a choice. Assumed: the thread that forwards the output has done so before
the last of the forty last polls (2 s).

### Services: StatusDaemon, StorageRefresh, DesktopIcons

**StatusDaemon** cuts the loop of `astrea_statusd.py` at every slow read:
HonourRefresh and ClearRefresh (between which a signal may come), ReadAudio,
ReadNetwork, ReadBluetooth, each followed by WriteFile, Autoconnect, Sleep. The
pw-mon thread (MonitorReads, MonitorWrites), the signal handlers and
`bluetooth_manager.py` interleave with it. `mem` is `json_cache`; `due` which
deadlines have passed. Whether a deadline has passed is left open except after a
refresh request or the start, when it has.

**StorageRefresh**: callers (`storage.py json`) and workers (`refresh-background`)
go through `refresh_status` as a subroutine (`at`, `ret`): read the status, look at
the process, remove the lock and correct the status of one that is gone.

**DesktopIcons**: `listing`, `probe` and `reading` are the helper processes, with
what they have read; `refreshSoon` and `saveSoon` the debounce timers. A content of
the folder is the count of its changes, a layout the set of moves it has.

### Programs

* **BluetoothManager**: each command and the autoconnect thread go step by step
  through loads and saves of `runtime.json` and `status-cache.json`.
* **ArchiveExtract**: Probe, Prepare, List, Extract (a file at a time), Finish, and
  the clean-up Undo, PutBack; `ui` is the dialog of the Explorer. **Trash**: moving,
  restoring and emptying, each a process that can be killed between an item and its
  `.trashinfo`. **ExplorerQueries**: the answers that change nothing, each computed
  as the code does, with Python's stable sort (NewestFirst), and compared with what it is shown as.
* **PasteFlow**: `pend`, `clip`, `dialog` and `panel` are the window's properties; `probe`, `scan`
  and `paste` its processes, each restarted by Quickshell only after the handlers of the old one's
  end. `order` is what the user asked for and has not got yet.
* **MailCache**: pages of copies against the labels on the server; **MailBody**: pure
  functions over token streams and lines.
* **WeatherCache**: the caches and the lock of one location in units of a quarter of an
  hour; **WeatherAlerts**: reading, telling and saving the alerts seen.
* **AudioOutputs**: `info` reads sinks and streams in separate calls, `apply`
  changes them in several; devices come and go between.
* **Network**: a command with its tools, which may fail, and the answer the page shows.
* **AppIcons**: the order of sources, the walk to the ancestors, the match of games.
* **Wallpaper**: StageCopy, StageNames, Publish, Relink, Spawn, Remove, and the
  detached Refresh.
* **ScreenTime**: Sample splits an interval over days; two clocks, one of which
  stops while the machine sleeps.
* **PolkitAgent**: flows in the main loop, which stands still while `prompt` is on
  the screen; requests and cancellations come from another thread.
* **AltTab**: `offset`, `requested` and `commitAfterLoad` are what is put off until
  `listing` has come; `session` and `focused` are histories of what was meant, up to the commit.

### MCServices, MCPrograms

These programs share no state, so a behaviour of either module runs one of them,
`part`, chosen in Init. Its variables are the slots v1, v2, ... by INSTANCE ...
WITH; slots it does not need are 0. A property of a part is implied by `part`
being that part. The state spaces add up and do not multiply; MCServices holds
the parts whose liveness is checked, with the fairness of each written out over
its actions, MCPrograms those that are checked for safety.

## 3. Runs

| Run | Question | Instance |
|---|---|---|
| `latencyd` | RollbackReady, EndsOnTime, refinement of BorrowedSettings | two profiles, two knobs (one writable by the daemon, one only by the helper), every fault but write; 3 environment steps |
| `latencyd_py` | ErrorsStrandNothing, RollbackHappens | the Python daemon with crashes, failing restores and failing writes |
| `latencyd_crash` | expected violation | one crash, no other fault |
| `notifications` | memory, file, clients and events | two events, one collapse key, limits of 2, 3 ids, 5 calls, signals or crashes |
| `overlay_overlap` | expected violation | two cards, closes overlap |
| `launch` | LaunchesAreSound: one start, true answers, burst first, a history within its limit; every request ends | two clients, limit 1, one crash |
| `launch_records` | expected violation | three clients, limit 1, no crash |
| `fileops` | no data lost, failures restore, nothing visible half-copied or replaced unasked | one process, two sources, two parts each, all modes, policies and kinds, a kill or failure at every step |
| `fileops_partial` | expected violation | one source; the recursive removal of a source may fail half-way |
| `portal` | right answers, causes, fresh results, no dialog left, every call ends | two callers, deadline of 3 polls, 2 last polls, 2 failures |
| `services` | the status daemon serves refreshes and its files follow; one scanner, a stale cache is refreshed; the desktop shows its folder and keeps its layout; dismissals close | one part of the world varies at a time; two workers, a kill, a failing scan, a start by hand; two changes, one move, two switches; one event, two cards |
| `programs` | 17 properties of the bridges, helpers and applications, and of the overlay with a crashing daemon | one part at a time, bounds below; 2.8 million states |

**Why these bounds.** The latency daemon needs two bursts that overlap and one
more disturbance (3 environment steps), and one knob of each kind of
writability, as the helper's snapshot and the direct writes cover different knobs.
Durations lie on both sides of the poll limits. In the
notification daemon 5 calls suffice to fill a bounded record, evict from it,
restart and ask again; two events and one key let a collapse replace an
event's banner; 3 ids exceed both limits of 2. Two clients race in the history, a
third is needed to lose a record, as the limit must be exceeded twice. For files, two
parts make "half" possible and two sources let the second fail after the first
succeeded. Two callers let a result of one dialog meet the other's call.

In `services`, two workers are one that holds the lock and one that takes it for
dead. In `programs`: two devices for sound and Bluetooth (one in use, one chosen);
two callers of the weather, at ages on both sides of each limit (1, 2 and 3 units
against a clock of 4); three access points of one network or of two, at three
strengths (a joined one, one stronger before it and one between the two after it), and
fields of two characters; two files and two folders, three pastes; two processes and init, a walk of two, two games; two pictures and
two folders (one in use, one applied or deleted), one kill; days of three units,
samples capped at two, two monitors, two of their ends; three runs of an
extraction (an attempt, its conflict or password, a retry); four runs over a
trash of two items of one name, two kills; one message in two listings under
every order; streams of four tokens (open, text, close and one more) and of four
lines; two files of two ages, lists of one or two, three bookmarks (two of one file and one that they can
crowd out), two launches, and two applications in two directories; two requests with two
identities each and two questions; three windows,
three steps (which reach round), one change.

Bounds that are not in the code are constants named as such: Budget, MaxQueue, MaxId,
MaxCrashes, MaxErrors, MaxKills, MaxRuns, MaxClock, MaxStops, MaxPlugs, MaxClears,
MaxSteps, MaxChanges, MaxMoves, MaxSwitches, MaxFolders, MaxByHand, MaxFailures, MaxAsks,
MaxIdentities, MaxClients, MaxPastes, HtmlTokens, TextLines, OwnRecents, Bookmarks, Launches,
ProgramDirs; in FileOps `Copies`, the names that `keep-both` tries.

**Deadlock** is checked for the latency daemons. The other systems end or rest by design
(requests answered, budget spent, a banner that never expires), which each .cfg says.

### Fairness

* Latency daemon: weak fairness of the thread's steps and of time. systemd restarts the
  unit (Restart=on-failure, RestartSec=2); the budget keeps crashes below its start
  limit. A daemon that has been stopped on purpose and starts again belongs to the
  same assumption: the session starts it.
* Overlay: the GLib loop dispatches its sources; Quickshell's timers, animations
  and child processes finish; D-Bus activates the daemon for a pending call. Nothing
  is assumed of clients or of the user.
* Launch: threads run, reads time out (3 s).
* Portal: its thread and the reader thread run; nothing of dialog and user. Callers are
  served in any order: with finitely many calls each is served.
* Status daemon: the loop runs, caches expire, a thread finishes the write it began.
  Strong fairness of each read says that the deadline of a file passes again and
  again, although the loop finds it not yet due in between. Nothing is assumed of
  signals or of pw-mon.
* Storage: callers and workers run, scans end (they have a timeout), the page polls.
  Kills and failures are bounded.
* Desktop: timers fire and processes end; the user may pause or hide at any time.
* Polkit agent and window switcher: no fairness. "Every request is answered" and
  "nothing waits in vain" are stated as invariants: in every state something is due
  that brings the request on.

## 4. What the expected violations show

1. `latencyd_crash`: `handle_payload` bursts the machine before it persists the
   snapshot (`src/System/latencyd/src/lib.rs:112`, `:130`). A crash in between leaves
   the machine bursted with nothing on record, and the next burst takes the bursted
   values for the user's. All other crashes are recovered from: `RollbackReady` holds
   with `lost` naming exactly this window.
2. `overlay_overlap`: two cards that leave together share `closeProc`; the second request
   kills the first, whose banner then stays invisible, and open in the daemon, for ever.
3. `launch_records`: an append between another's read and write of `trim_history` is lost.
4. `fileops_partial`: when `remove_dir_all` of a moved source fails half-way, the complete copy
   is removed, and with it the parts the source no longer has.

## 5. Where properties leave a case out

Some properties name a case in which the code behaves otherwise, by a constant
that the runs set to FALSE or by a condition in the property. TLC shows each
violation when the constant is changed or the condition dropped:

* **Notification ids.** With `Replaceable = "held"`, clients may replace ids they were
  once given; after ClearHistory and a restart the daemon gives such an id out again
  (`next_id` starts from the history alone).
* **Updates of dismissed cards.** With `Updates = TRUE`, an update of a banner whose
  card has slid out is never seen: the row keeps its card's state.
* **Two file operations.** With two processes in FileOps, a target that appears during a
  long copy is replaced under `skip` and `keep-both` too: the second look at
  `file_ops.rs:948` publishes over it.
* **Governors.** A machine on the `userspace` governor stays on `performance`: the helper
  bursts any governor and restores five (`lost` = "unrestorable").
* **bluetooth.json** has two writers. After the Bluetooth manager wrote in between, a payload equal
  to the last one of the status daemon is not written again (`astrea_statusd.py:90`) and the file
  stays wrong: `StatusDaemon!BluetoothFollows` fails with `ManagerWrites = TRUE` and holds without.
  FilesFollow speaks of the other files.
* **Storage lock.** A lock whose owner has not yet written the status looks abandoned
  (`storage.py:387`): a second caller, or a caller next to a worker started by hand, removes
  it and two workers scan. ScannerHoldsLock speaks of one caller and no such worker.
* **Bluetooth commands at once.** With `Overlap = TRUE`, autoconnection that has read its status
  connects although the user forbids it or disconnects meanwhile.
* **Merging into a file.** With `MergeOnFile = TRUE` the clean-up removes the user's file
  (`explorer_helper.py:1032`, `:1193`); with `CleanupFails = TRUE` a failure to remove the
  replaced destination turns a finished extraction into an error that leaves traces.
* **Pastes.** With `Overlap = TRUE` (a paste asked for while one is under way) a killed conflict scan
  counts as "no conflict" (`FileOperationsState.qml:870`), so that files are pasted unscanned, and a
  second time when their own scan ends; and the end of a killed paste resets the flag of its successor
  (`:769`), so that a cut stays in the clipboard. With `QuickCancel = TRUE`, cancelling the conflict
  dialog stops the timer that would hide the last paste's panel (`:664`), which then stays. A clipboard
  set anew during the paste of a cut is emptied at its end (`kept`).
* **Recent files.** The bookmarks are cut to the limit before they are merged by file
  (`explorer_helper.py:381`), so that two bookmarks of one file take the room of another file that should
  be in the list (`Crowded`).
* **Trash.** A `.trashinfo` left by a killed restore, or by commands of different kinds at
  once, can be taken for that of another item: TrashInfoIsRight leaves two kills and overlapping
  commands out. RemovingStep claims nothing less: only emptying removes items, always.
* **Wallpapers.** With `Together = TRUE`, a deletion that has looked at the links removes the
  wallpaper another process is applying (`wallpaper_manager.py:380`).
* **Screen time.** With `ResetAnytime = TRUE`, a running monitor's next sample writes back the record
  it holds in memory (`screentime.py:497`).
* **Weather.** `clear-cache` removes the lock file while it is held, after which two callers fetch;
  a notifier killed between telling and saving tells again.
* **Networks.** A stronger access point of the joined network, listed after the one in use,
  replaces the active row (`manager.py:129`; `Outshone`). It need not be the strongest either: the row in use
  has replaced whatever was listed before it, so that the network is then shown by an access point that is
  neither the one in use nor the strongest (ListingIsRight promises the strength of networks not joined).
* **Window switcher.** Steps taken after a commit that waits for its list are merged into it (`merged`), and
  more steps back than there are windows leave a negative index (`overshot`; `AltTabController.qml:81`): then no window is focused.
* **Mail.** Orders that failed between their requests (`torn`) and changes the window was told
  it could not send (`unsent`) are not what the server has. HTML in which a dropped tag is never
  closed loses the rest of its text (`WellClosed`).
* **Desktop.** A pause that cuts off the reading of `state.json` makes the next save write a layout
  without it (`givenUp`).

## 6. Proofs

For every value of the constants that meets the modules' named assumptions, and
the further hypotheses that a theorem states. Each proof module extends the modules
it is about, so that the definitions the runs check are those the theorems are
about. None of the invariants below restates its property: the properties are not
inductive, as they do not say what holds between the steps of a call.

| Theorem | Property | Hypotheses beyond the assumptions |
|---|---|---|
| `RollbackAlwaysReady`, `Implements`, `OnTime` | RollbackReady, KeepsContract, EndsOnTime | |
| `PyRollbackReady`, `PyImplements`, `NothingStranded` | the same two for the Python daemon, ErrorsStrandNothing | |
| `LaunchesAreRight` | LaunchesAreSound | |
| `DialogsAreRight`, `AnswersAreTrue` | DialogsAreOwn, AnswersTheChoice | |
| `MemorySound`, `OthersAreTold`, `OneBanner` | MemoryIsSound, OthersKnow, EventsHaveOneBanner | clients replace known ids; none; room for every event |
| `CardsSound`, `CardsFollow` | CardsAreSound of NotificationOverlay, and of MCPrograms | closes do not overlap, dismissed banners are not updated |
| `SourceOnDisk`, `TargetsSound`, `Replacing` | SourcesSurvive, TargetsAreSound, ReplacingIsSafe | one process; SourceOnDisk: a removal fails whole |
| `NoRefreshLost`, `OneStorageScanner`, `LayoutKept` | RefreshServed, ScannerHoldsLock, LayoutIsKept | |
| `RequestsAnswered`, `AlertsToldOnce`, `WeatherIsRecent`, `MailTrue`, `PictureIsThere` | RequestsAreAnswered, ToldOnce, AnswersAreRecent, MailIsTrue, RightPictureIsThere | |
| `AutoconnectIsObedient` | AutoconnectObeys | one process at a time |
| `OutputsTrue`, `CommitsMeant` | OutputsAreTrue, CommitsAreMeant | |
| `RightIcon`, `BodiesSound`, `NetworkTold` | RightIconIsFound, BodiesAreSound, NetworkIsTold | |
| `AnswersAreRight` | QueriesAreRight | bookmarks do not crowd (section 5) |
| `TimeCounted` | TimeIsCountedOnce | no reset while a monitor runs |
| `TrashSound` | TrashIsRight | two kills or overlapping commands: as in section 5 |
| `PastesMeant` | PastesAreMeant | one paste under way at a time, no cancellation while a panel closes |
| `ExtractionSafe` | ExtractionIsSafe | a merge is offered for directories only, and what was replaced can be removed |

**LatencyDaemon_proofs.** For the Rust daemon: `TypeCorrect`; `RollbackAlwaysReady`; `Implements`
(the refinement); `StateOnDisk`; `EndsInTime`; `NeverTooEarly`; `OnTime`, which joins the last two to
the property the run checks. RollbackReady is not inductive: it does not say in
which snapshot the user's settings are. The invariant is

    RollbackInv == Held /\ (lost = {} => Faithful /\ Progress) /\ RollbackReady

Held says at which places of the thread a snapshot is active; Faithful, that every
active snapshot, in memory or on disk, is of the baseline; Progress, what a started
rollback has put back already. It has one lemma per action. `RestoredIsBaseline`
reduces "the rollback works" to two conditions on the machine. The refinement
follows from RollbackInv step by step: without an accident a step outside a loan leaves the
settings alone, and one that ends a loan finds the baseline in force.
`StateOnDisk` needs that a snapshot that is not active is blank; `EndsInTime`, that the poll
timeout trails some deadline by less than one shortest sleep, which each tick preserves.

The Python daemon is a different next-state relation over the same state. The same RollbackInv
is an invariant of it (`PyRollbackReady`), although a write that raises leaves the handler before
the end, and it implements the same contract (`PyImplements`). `NothingStranded` needs `Together`:
wherever the loop may go to sleep from, a snapshot is active exactly when a deadline is set. Not
everything carries over: NoEarlyRollback is false of the Python daemon, where an exception of the
loop rolls back at once through its `finally` clause, whatever deadlines are left.

**NotificationDaemon_proofs.** Its first section is about RecencyMap: what inserting, touching,
dropping and evicting do to the entries, the ranks and the size of a ranked map. `DaemonInv` says
that memory and file are sound: in MemoryOK, that maps are ranked and within their limits, that an
index names an entry of that event or key or nothing, that timers are those of banners that are
up; that the idle timer runs exactly when none is; and what call can be under way where. It is kept
by every action, D-Bus calls being composed of methods that have a lemma each. On top of it:

* `MemorySoundForAnyClient` is DaemonInv read for its properties, whatever ids clients
  replace. Fresh ids (`MemorySound`) need in addition that clients replace ids that the daemon
  knows (`Replaceable # "held"`): section 5 has the case in which they do not.
* `OthersAreTold` needs `TellInv`, which takes in the moment between a change of the memory and
  the write and signal that follow it: shown \ Unsaid instead of shown.
* `OneBanner` needs `Remembered`: what was answered for is on record in the file, and while the daemon
  runs or is in a call, in memory. `Roomy` (no more events than the record of deliveries keeps) is needed:
  beyond it the oldest delivery is evicted and its event may be shown again.
* `CardsSound` adds the overlay. `CardsInv` ties the cards to the file that was loaded and not to the memory,
  so that a daemon that crashes before it writes leaves it true; a card that is gone has its request in
  `closeProc` or no banner. The two hypotheses are the cases of section 5 in which it fails. The
  run checks it as the part "overlay" of MCPrograms, and `CardsFollow` is the theorem of that part.

**FileOps_proofs.** For one process, any number of sources and of parts. `Inv` follows the item the process
is at through the backup protocol: Kept (every part of the source is somewhere), OldAt (the old target
is whole at this path), SourceWhole, and for each place of the program what staged copy, backup and
target can hold; items before it are finished (Past), those after it untouched (Future). `Effect` is the
frame: no step touches paths other than source, target, staged copy and backup of its item, and parts
are only moved or copied. `SourceOnDisk` has the hypothesis PartialRemoval = FALSE, and the run
`fileops_partial` shows that it is needed; the other two hold when removals fail half-way. With two
processes they are false (section 5).

**Calls_proofs.** The two services that answer calls.

* LaunchService: `TypeCorrect`, `NeverStartedTwice`, `OkIsTrue`, `BurstComesFirst`, `HistoryStaysBounded`,
  and `LaunchesAreRight`, the four after the first together, which the run checks. The invariant
  `StartInv` says at which steps of `run_launch` nothing can have been started, that a client asks once,
  and ties results and bursts to starts. `HistoryInv` is about `trim_history`: as long as nobody was
  killed, a history beyond its limit has an appender who is still to read it, or to write back what fits.
* PortalDialog: `PortalTypeCorrect`, `OwnResults`, `DialogsGoAway`, `DialogsAreRight` (the two before, as
  the run checks them), and the action property `AnswersAreTrue`. The invariant has three parts besides
  types: LoopInv (place in the loop, call and polls left), HandedOver (file, output and result are the
  choice or nothing, and a dialog that is still open has handed over nothing), Caused (when the dialog is
  gone without a word the call's fate is known, and the last polls do not end before the output has come
  through).

**Folds_proofs.** Four programs without concurrency worth the name and with folds over data: sums
over days and windows (ScreenTime), passes over tokens and lines (MailBody), over access points and the
characters of a line (Network), over recent files and applications (ExplorerQueries). The fold of the community
modules is unfolded (`SumsExist`, `FoldsExist`: a value for each set of places, of which the fold's CHOOSE is one),
and what would be an induction is shown of a smallest set, or a shortest prefix, for which it fails; that
there is one is the well-foundedness of the naturals.

* ScreenTime, `StInv`: a running monitor is the only one, has the record that the file has, and what it counts
  next begins where the record ends. `PortionsAddUp` is the arithmetic: the parts of an interval that fall on
  days add up to it, whatever the length of a day.
* MailBody, HTML: after k tokens the stack of tags is that of the elements that are open and
  will be closed, in their order (`Carried`), which holds as elements that are closed are nested.
* MailBody, reader view: what is cleaned is `Neat` (blanks only between other lines, no line twice) and what
  is neat is left alone; what is rendered is `Framed` after each line.
* MailBody, saved copies: a case for each kind of HTML and mode.
* Network, listings: after k access points the rows kept are the best of these (`Best`): each network once, at its
  greatest strength if it is not the one joined, and the row in use unless a stronger one came later. Rows that
  tie are listed in some order, of which TLC takes one; what is proved is true of each (`SortedIs`).
* Network, fields: reading what is escaped adds just these characters to the field that is being read
  (`CharIsRead`, `FieldIsRead`), whatever was read before. Runs are put together (`ReadsBoth`), and the program's
  pass over the line is the only run there is (`ReadsOnce`).
* Network, `NetInv`: the answer is that of the last command and the air is as it was when it was given; an answer
  is shown to be right in the state its command leaves.
* ExplorerQueries, recent files: after k items the merged list has each file once, with its latest access
  (`MergedUpTo`); that the history is read from its end makes what is left of it the latest (`LaunchedUpTo`). The
  three sources are cut before they are merged. It does no harm since what is cut off is older than as many
  different files as are shown (`Full`), and stays so: they are still different files when they are merged, so
  that each one shown is as late (`FullStays`, by counting). An order exists as a set that cannot be
  ordered would have a smallest one (`OrderExists`), and it is stable by definition.
* ExplorerQueries, Open With: after k applications none is there twice, each is there by its name, and the first
  is the first (`DedupedUpTo`); a list that the default leads exists (`LeaderExists`).

**MCServices_proofs.** The invariant is one per part. `Served`: while the refresh flag is down, every file asked
for is still ahead of the loop in this round and still due. `OneScanner`: at most one worker lives, it
holds the lock or finds it free, its pid is in the status or about to be recorded by the caller, and a caller
that goes on to start a worker is right that there is none; the property itself leaves out a second caller and
workers started by hand. `LayoutKnown`: a layout is saved only by a shell that has loaded the one there was. The
assumption `WorkersAreOthers` (a worker is neither the caller nor 0) is in MCServices.

**MCPrograms_proofs** and **MCRecords_proofs.** The parts of MCPrograms: in the first those that are about
commands and windows, in the second those that keep files and records or only work out an answer. Most invariants
stand at the end of the modules they are about; `ProgramsInv` and `RecordsInv` are the parts together. In the first:

* PolkitAgent, `PkInv`: where a flow is says what it has done; then both halves of RequestsAreAnswered are kept.
* WeatherAlerts, `AlertInv`: the list of the running notifier, or the saved one, recalls whatever was told
  recently, as long as none was killed.
* WeatherCache, `WeatherInv`: a location that is used was young when it was read, and one process at a time
  has looked at the page under the lock. Needs AgesAreAllowed (the order of the limits in weather.py:
  what is kept is kept as long as it may be answered with).
* MailCache, `MailInv`: pages and window are true but for the message of the order in hand, and what a
  refresh has read so far is true, which no order can come between as both are one command at a time.
* Wallpaper, `WallpaperInv`: what a command has prepared is still there when it relinks, as only one command
  runs (`Together = FALSE`; section 5), and every link names a file that is there.
* BluetoothManager, `BtInv`: `runtime.json` and the cached status cool down whatever is snoozed, except a device
  whose disconnection is about to be saved, and the cached status shows the settings as they are and no fewer
  connections than there are. So the status a decision rests on is Right, the candidates it yields stay
  allowed, and from the decision on the cache is empty (Knows). One process runs at a time (`Overlap = FALSE`;
  section 5). The next device is a least number, which exists as < is well founded on the naturals.
* AudioOutputs, `AudioInv`: what the page shows was built from some reading of sinks and streams, and in such
  a list at most one output is the one in use (`OneInUse`). A choice between its commands goes by what spatial
  sound was when it was made (Meant), unless devices came or went since, which `plugs` counts.
* AltTab, `SwitcherInv`: while the list is awaited, `offset` is what the user has stepped (until a commit waits
  too); while the switcher is open, `currentIndex` lies between -n and n and has the remainder of what is wanted
  (PointsAt). JavaScript's `%` keeps the sign of its dividend; the lemmas from `Dividing` to `JavaScriptsRest` say
  what it and TLA+'s `%` have in common, for every divisor.
* PasteFlow, `PasteInv`: one thing is under way, and what is pending is what it is about and what was asked for
  (PendingIsMeant), so that no process is started while its last run goes on. Needs NilIsNoJob, `Overlap = FALSE`
  and `QuickCancel = FALSE` (section 5).

In the second:

* ArchiveExtract, `ArInv`: outside its destination and its backup a run leaves the disk as it was, and the
  destination is new, a directory that is merged into, or in the place of one that has a whole backup (AtWork).
  Each run takes at most one new number (Numbered), so that a free name is left and, as < is well founded, a
  least one. A kill may come at any step; the run after it takes the disk as it finds it. Needs
  `MergeOnFile = FALSE` and `CleanupFails = FALSE` (section 5).
* Trash, `TrashInv`: an item in the trash has its own `.trashinfo`, or its process is about to write it
  (Labelled); a `.trashinfo` without an item is that of one being restored or emptied, unless a process was killed
  (NoneLeft); an item outside the trash is where it came from or in the fallback folder (AtHome).
* AppIcons has no steps. The walk to the ancestors is a function of the number of steps, whose values stay
  processes or end; the nearest telling ancestor is the least of a set of numbers.
* The screen time, the networks, the bodies of mails, the answers of the helper and the cards: the definitions that the instances of
  Folds_proofs and NotificationDaemon_proofs bring are shown to be those of the parts, one by one, and their
  invariants become parts of RecordsInv.

The limits, ages, flows and sets of these parts are constants of MCPrograms, with the assumptions
NilIsNothing, NilIsNoLink and NilIsNoJob (Nil is none of the values it stands beside), DevicesAreNumbers (Bluetooth
devices are numbered by priority, sinks as the sound server lists them), SinksAreDifferent (the spatial sink is
no physical one), NilIsNoEvent, HomesAreFolders (finitely many, none of them the bin), TimeIsCountable (finitely
many applications, a day has a length), SignalsAreNumbers, ProcessesAreNumbers (1 is init, 0 no process and no game; finitely many),
BodiesAreFinite, QueriesAreFinite, BoundsAreNumbers, ExtractionsAreCounted, SwitcherIsBounded and AgesAreAllowed; MCPrograms.cfg gives the values of the run.

**Only model-checked.**

* Liveness (RollbackHappens, EveryClientIsAnswered, EveryCallEnds, FilesFollow, StaleIsRefreshed,
  ChangesAreShown, DismissalsClose): fairness is beyond the prover.

Every safety property that a passing run checks is a theorem.

## 7. Not modelled

* Formatting, icons, texts, progress percentages, request options, paths and URIs:
  no property is about them.
* The Python twin of the portal and the Rust port of the status daemon: one of each pair is modelled.
* **Navigation and preview** of the Explorer, and the notification history panel.
* **Night shift** (`display_night_shift_schedule.sh`): a script run by timers. From reading:
  `uninstall` resets the colour and leaves the recorded state.
* **Updater**: a sequential script. From reading: `updater.sh` saves the version after copies that
  may have failed and before post-install, so a failed update is not tried again.
* **Session and settings bridges**, **listing, devices, thumbnails, AppImages**: one-shot commands
  without state of their own between calls. **Bar, control centre, island, spotlight, Settings,
  MediaViewer, About, shared components**: presentation. **Audio visualiser**: signal processing.
  **DualSense and the other prototypes of Bench**: outside the shipped system.
* In the latency daemons: the boost of single processes, which has no rollback; wall-clock jumps.
  In notifications: a second daemon replacing the first, and a signal handler that interrupts a
  write. In file operations: symbolic links, permissions, a directory copied into itself. In the
  portal: a result helper that outlives a killed dialog. In mail: sign-in, sending, paging, searching.
  In weather: named cities. In sound: volumes, profiles. In the helper: compression, mounts.

## 8. Plan

Done: the daemons (LatencyDaemon, LatencyDaemonPy, NotificationDaemon, LaunchService,
StatusDaemon), the services of the shell (NotificationOverlay, PortalDialog, StorageRefresh,
DesktopIcons, PolkitAgent, AltTab), the helpers and bridges (FileOps, ArchiveExtract, Trash,
ExplorerQueries, PasteFlow, BluetoothManager, AudioOutputs, Network, Wallpaper, AppIcons, Weather*), and two
applications of Bench (MailCache, MailBody, ScreenTime).

Next to model: Navigation; pasted images and renames in PasteFlow; the history panel in NotificationOverlay.

Next to prove: the files of FileOps for two processes that work on different targets.

Abstract specifications worth stating: an at-most-once event log for the notification
daemon (events shown, closed, cleared), and a transactional directory for FileOps (a target is
old or new).

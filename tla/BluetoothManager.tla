------------------------- MODULE BluetoothManager -------------------------
(***************************************************************************)
(* bluetooth_manager.py: one process per command, and the autoconnect      *)
(* thread of the status daemon, which loads it as a module.  All of them   *)
(* read and write runtime.json (cooldowns, last attempt) and               *)
(* status-cache.json, each by a load and a later save of the whole file,   *)
(* and drive one adapter.  What they publish is StatusDaemon's business.   *)
(*                                                                         *)
(* A cooldown is an element of a set that Expire removes wherever it is    *)
(* remembered: an entry that has expired counts nowhere.                   *)
(***************************************************************************)
EXTENDS Naturals, Sequences

CONSTANTS
  Devices,   \* paired devices, numbered by priority
  Commands,  \* processes that run the user's commands
  Daemon,    \* the autoconnect thread of the status daemon
  Overlap    \* may one of them start while another runs?

Users == Commands \cup {Daemon}

VARIABLES
  powered, connected,  \* the adapter
  inRange,             \* devices a connection would reach
  config,              \* autoconnect.json: enabled, and the devices it may connect
  runtime,             \* runtime.json: cooling devices, was there an attempt just now?
  cache,               \* status-cache.json: a sequence of at most one status
  job, at,             \* what each process does and where it is
  loaded, status,      \* the runtime and the status it holds
  todo, tried,         \* devices autoconnect has still to try, and has tried
  snoozed              \* history: disconnected by the user, for disconnect_snooze_sec

btVars == <<powered, connected, inRange, config, runtime, cache,
            job, at, loaded, status, todo, tried, snoozed>>
files == <<config, runtime, cache>>
radio == <<powered, connected, inRange>>
mine  == <<loaded, status, todo, tried>>

Configs  == [enabled : BOOLEAN, auto : SUBSET Devices]
Runtimes == [cooling : SUBSET Devices, recent : BOOLEAN]
Statuses == [powered : BOOLEAN, connected : SUBSET Devices, config : Configs, runtime : Runtimes]
Fresh    == [cooling |-> {}, recent |-> FALSE]
Off      == [powered |-> FALSE, connected |-> {},
             config |-> [enabled |-> TRUE, auto |-> Devices], runtime |-> Fresh]

BtInit ==
  /\ powered \in BOOLEAN /\ connected = {} /\ inRange \in SUBSET Devices
  /\ config = Off.config /\ runtime = Fresh /\ cache = <<>>
  /\ job = [p \in Users |-> "none"] /\ at = [p \in Users |-> "idle"]
  /\ loaded = [p \in Users |-> Fresh] /\ status = [p \in Users |-> Off]
  /\ todo = [p \in Users |-> {}] /\ tried = [p \in Users |-> {}] /\ snoozed = {}

Go(p, where) == at' = [at EXCEPT ![p] = where]
Auto(p) == job[p] \in {"autoconnect", "force_autoconnect"}
Forced(p) == job[p] = "force_autoconnect"
\* The device a connect or disconnect is about, or the next in the order of priority.
Target(p) == CHOOSE d \in todo[p] : \A e \in todo[p] : d <= e

\* The process forgets what it held.
Finish(p) ==
  /\ Go(p, "idle") /\ job' = [job EXCEPT ![p] = "none"]
  /\ loaded' = [loaded EXCEPT ![p] = Fresh] /\ status' = [status EXCEPT ![p] = Off]
  /\ todo' = [todo EXCEPT ![p] = {}] /\ tried' = [tried EXCEPT ![p] = {}]

----------------------------------------------------------------------------
(* The commands *)

Begin(p, j, ds, where) ==
  /\ at[p] = "idle" /\ (Overlap \/ \A q \in Users : at[q] = "idle")
  /\ job' = [job EXCEPT ![p] = j] /\ Go(p, where) /\ todo' = [todo EXCEPT ![p] = ds]
  /\ UNCHANGED <<radio, files, loaded, status, tried>>

CmdStatus(p) == Begin(p, "status", {}, "cache") /\ UNCHANGED snoozed
CmdAutoconnect(p) == Begin(p, "autoconnect", {}, "cache") /\ UNCHANGED snoozed
CmdForceAutoconnect(p) == Begin(p, "force_autoconnect", {}, "cache") /\ snoozed' = {}
CmdConnect(p, d) == Begin(p, "connect", {d}, "load") /\ snoozed' = snoozed \ {d}
CmdDisconnect(p, d) == Begin(p, "disconnect", {d}, "act") /\ UNCHANGED snoozed
CmdPower(p) == Begin(p, "power", {}, "act") /\ UNCHANGED snoozed

CmdSaveConfig(p) == Begin(p, "save_config", {}, "act") /\ UNCHANGED snoozed

\* bluetoothctl power, save_config, and bluetoothctl disconnect
Power(p) ==
  /\ at[p] = "act" /\ job[p] = "power" /\ powered' = ~powered
  /\ connected' = IF powered THEN {} ELSE connected
  /\ Go(p, "drop") /\ UNCHANGED <<inRange, files, job, mine, snoozed>>
\* mutant: the status cache survives a change
KeepCache == UNCHANGED cache

Invalidate == cache' = <<>>
SaveConfig(p) ==
  /\ at[p] = "act" /\ job[p] = "save_config"
  /\ config' \in Configs /\ config' # config /\ Invalidate /\ Go(p, "cache")
  /\ UNCHANGED <<radio, runtime, job, mine, snoozed>>
Disconnect(p) ==
  /\ at[p] = "act" /\ job[p] = "disconnect"
  /\ \/ /\ Target(p) \in connected /\ connected' = connected \ {Target(p)}
        /\ snoozed' = snoozed \cup {Target(p)} /\ Go(p, "load")
     \/ Target(p) \notin connected /\ Go(p, "drop") /\ UNCHANGED <<connected, snoozed>>
  /\ UNCHANGED <<powered, inRange, files, job, mine>>

Connects(d) == powered /\ d \in inRange
\* bluetoothctl connect, and _device_is_connected.
Connect(p) ==
  /\ at[p] = "act" /\ job[p] = "connect"
  /\ connected' = IF Connects(Target(p)) THEN connected \cup {Target(p)} ELSE connected
  /\ Go(p, IF Target(p) \in connected' THEN "load" ELSE "drop")
  /\ tried' = [tried EXCEPT ![p] = {Target(p)}]
  /\ UNCHANGED <<powered, inRange, files, job, loaded, status, todo, snoozed>>

----------------------------------------------------------------------------
(* load_runtime ... save_runtime *)

LoadRuntime(p) ==
  /\ at[p] \in {"load", "cool"} /\ loaded' = [loaded EXCEPT ![p] = runtime]
  /\ Go(p, IF at[p] = "load" THEN "save" ELSE "cooling")
  /\ UNCHANGED <<radio, files, job, status, todo, tried, snoozed>>

\* _clear_device_cooldown and _remember_success, or _set_device_cooldown after a
\* disconnect.
Edited(p) ==
  IF job[p] = "disconnect" THEN loaded[p].cooling \cup {Target(p)}
  ELSE loaded[p].cooling \ {Target(p)}
SaveRuntime(p) ==
  /\ at[p] = "save" /\ runtime' = [loaded[p] EXCEPT !.cooling = Edited(p)] /\ Invalidate
  /\ \/ job[p] = "connect" /\ tried[p] = {} /\ Go(p, "act")
     \/ (job[p] = "disconnect" \/ (job[p] = "connect" /\ tried[p] # {})) /\ Go(p, "drop")
     \/ Auto(p) /\ Go(p, "end")
  /\ UNCHANGED <<radio, config, job, mine, snoozed>>

DropCache(p) ==
  /\ at[p] = "drop" /\ Invalidate /\ Go(p, "cache")
  /\ UNCHANGED <<radio, config, runtime, job, mine, snoozed>>

----------------------------------------------------------------------------
(* get_status_payload *)

\* Where a process goes with a status: autoconnect begins with one, a command ends with one.
Done(p) == IF Auto(p) THEN "decide" ELSE "publish"

ReadCache(p) ==
  /\ at[p] = "cache"
  /\ \/ cache # <<>> /\ status' = [status EXCEPT ![p] = cache[1]] /\ Go(p, Done(p))
        /\ UNCHANGED loaded
     \/ cache = <<>> /\ loaded' = [loaded EXCEPT ![p] = runtime] /\ Go(p, "collect")
        /\ UNCHANGED status
  /\ UNCHANGED <<radio, files, job, todo, tried, snoozed>>

Collect(p) ==
  /\ at[p] = "collect" /\ Go(p, "keep")
  /\ status' = [status EXCEPT ![p] = [powered |-> powered, connected |-> connected,
                                      config |-> config, runtime |-> loaded[p]]]
  /\ UNCHANGED <<radio, files, job, loaded, todo, tried, snoozed>>

WriteCache(p) ==
  /\ at[p] = "keep" /\ cache' = <<status[p]>> /\ Go(p, Done(p))
  /\ UNCHANGED <<radio, config, runtime, job, mine, snoozed>>

\* publish_status_snapshot, the end of every command.
Publish(p) ==
  /\ at[p] = "publish" /\ Finish(p) /\ UNCHANGED <<radio, files, snoozed>>

----------------------------------------------------------------------------
(* run_autoconnect *)

Candidates(p) ==
  LET s == status[p]
  IN  {d \in s.config.auto \ s.connected : Forced(p) \/ d \notin s.runtime.cooling}
Refuses(p) ==
  LET s == status[p]
  IN  \/ ~s.config.enabled \/ ~s.powered \/ s.connected # {}
      \/ s.runtime.recent /\ ~Forced(p)
      \/ Candidates(p) = {}

\* The attempt is stamped on the runtime that came with the status.
Decide(p) ==
  /\ at[p] = "decide"
  /\ \/ Refuses(p) /\ Go(p, "end") /\ UNCHANGED <<runtime, cache, todo>>
     \/ /\ ~Refuses(p) /\ runtime' = [status[p].runtime EXCEPT !.recent = TRUE] /\ Invalidate
        /\ todo' = [todo EXCEPT ![p] = Candidates(p)] /\ Go(p, "try")
  /\ UNCHANGED <<radio, config, job, loaded, status, tried, snoozed>>

\* The thread of the daemon ends here; a command publishes one more status.
EndAutoconnect(p) ==
  /\ at[p] = "end"
  /\ \/ p = Daemon /\ Finish(p)
     \/ /\ p # Daemon /\ Go(p, "cache") /\ job' = [job EXCEPT ![p] = "status"]
        /\ UNCHANGED mine
  /\ UNCHANGED <<radio, files, snoozed>>

Try(p) ==
  /\ at[p] = "try" /\ todo[p] # {}
  /\ connected' = IF Connects(Target(p)) THEN connected \cup {Target(p)} ELSE connected
  /\ tried' = [tried EXCEPT ![p] = @ \cup {Target(p)}] /\ Go(p, "verify")
  /\ UNCHANGED <<powered, inRange, files, job, loaded, status, todo, snoozed>>

Verify(p) ==
  /\ at[p] = "verify"
  /\ \/ Target(p) \in connected /\ Go(p, "load") /\ UNCHANGED todo
     \/ Target(p) \notin connected /\ Go(p, "try") /\ todo' = [todo EXCEPT ![p] = @ \ {Target(p)}]
  /\ UNCHANGED <<radio, files, job, loaded, status, tried, snoozed>>

\* None could be connected: cooldowns, one load and save for each.
GiveUp(p) ==
  /\ at[p] = "try" /\ todo[p] = {}
  /\ Go(p, IF Forced(p) THEN "end" ELSE "cool")
  /\ todo' = [todo EXCEPT ![p] = IF Forced(p) THEN {} ELSE tried[p]]
  /\ UNCHANGED <<radio, files, job, loaded, status, tried, snoozed>>

CoolDown(p) ==
  /\ at[p] = "cooling" /\ runtime' = [loaded[p] EXCEPT !.cooling = @ \cup {Target(p)}]
  /\ Invalidate /\ todo' = [todo EXCEPT ![p] = @ \ {Target(p)}]
  /\ Go(p, IF todo[p] # {Target(p)} THEN "cool" ELSE "end")
  /\ UNCHANGED <<radio, config, job, loaded, status, tried, snoozed>>

----------------------------------------------------------------------------
(* The environment *)

Forget(r, d) == [r EXCEPT !.cooling = @ \ {d}]
\* A cooldown and the snooze it stands for run out.
Expire(d) ==
  /\ snoozed' = snoozed \ {d} /\ runtime' = Forget(runtime, d)
  /\ loaded' = [p \in Users |-> Forget(loaded[p], d)]
  /\ status' = [p \in Users |-> [status[p] EXCEPT !.runtime = Forget(@, d)]]
  /\ cache' = IF cache = <<>> THEN cache ELSE <<[cache[1] EXCEPT !.runtime = Forget(@, d)]>>
  /\ UNCHANGED <<radio, config, job, at, todo, tried>>
\* retry_interval_sec after the last attempt; the cache is older by then.
RetryInterval ==
  /\ runtime.recent /\ runtime' = [runtime EXCEPT !.recent = FALSE] /\ Invalidate
  /\ loaded' = [p \in Users |-> [loaded[p] EXCEPT !.recent = FALSE]]
  /\ status' = [p \in Users |-> [status[p] EXCEPT !.runtime.recent = FALSE]]
  /\ UNCHANGED <<radio, config, job, at, todo, tried, snoozed>>
\* STATUS_CACHE_TTL
CacheExpires ==
  /\ cache # <<>> /\ Invalidate
  /\ UNCHANGED <<radio, config, runtime, job, at, mine, snoozed>>
Moves(d) ==
  /\ inRange' = IF d \in inRange THEN inRange \ {d} ELSE inRange \cup {d}
  /\ connected' = connected \cap inRange'
  /\ UNCHANGED <<powered, files, job, at, mine, snoozed>>

Command(p) ==
  \/ CmdStatus(p) \/ CmdAutoconnect(p) \/ CmdForceAutoconnect(p) \/ CmdPower(p)
  \/ CmdSaveConfig(p) \/ \E d \in Devices : CmdConnect(p, d) \/ CmdDisconnect(p, d)
Step(p) ==
  \/ Power(p) \/ SaveConfig(p) \/ Disconnect(p) \/ Connect(p)
  \/ LoadRuntime(p) \/ SaveRuntime(p) \/ DropCache(p)
  \/ ReadCache(p) \/ Collect(p) \/ WriteCache(p) \/ Publish(p)
  \/ Decide(p) \/ EndAutoconnect(p) \/ Try(p) \/ Verify(p) \/ GiveUp(p) \/ CoolDown(p)
Around == RetryInterval \/ CacheExpires \/ \E d \in Devices : Expire(d) \/ Moves(d)

BtNext ==
  \/ \E p \in Commands : Command(p) \/ Step(p)
  \/ CmdAutoconnect(Daemon) \/ Step(Daemon)
  \/ Around
BtSpec == BtInit /\ [][BtNext]_btVars

----------------------------------------------------------------------------
\* Autoconnection never connects a device against the user's last word: not one the
\* user disconnected (until the snooze ends), none while autoconnection is disabled,
\* none that is excluded, none beside another device.  The status it decides by may
\* come from a file another process wrote.
ObeyingStep ==
  \A p \in Users : \A d \in connected' \ connected :
    (job[p] = "autoconnect" /\ Try(p)) =>
       /\ d \notin snoozed /\ config.enabled /\ d \in config.auto
       /\ connected = {}
AutoconnectObeys == [][ObeyingStep]_btVars

----------------------------------------------------------------------------
(* The inductive invariant of AutoconnectObeys, when one process runs at a time *)

Jobs   == {"none", "status", "autoconnect", "force_autoconnect", "connect", "disconnect", "power",
           "save_config"}
Places == {"idle", "act", "load", "save", "drop", "cache", "collect", "keep", "publish", "decide",
           "try", "verify", "cool", "cooling", "end"}

\* Every variable has its type.
BtTypeOK ==
  /\ powered \in BOOLEAN /\ connected \subseteq Devices /\ snoozed \subseteq Devices
  /\ config \in Configs /\ runtime \in Runtimes
  /\ cache = <<>> \/ \E s \in Statuses : cache = <<s>>
  /\ job \in [Users -> Jobs] /\ at \in [Users -> Places]
  /\ loaded \in [Users -> Runtimes] /\ status \in [Users -> Statuses]
  /\ todo \in [Users -> SUBSET Devices] /\ tried \in [Users -> SUBSET Devices]

\* One process runs at a time.
OneRuns == \A p, q \in Users : at[p] # "idle" /\ at[q] # "idle" => p = q

\* A runtime cools whatever is snoozed, but a device whose disconnection is still to be saved.
Cooled(p, d) == job[p] = "disconnect" /\ at[p] \in {"load", "save"} /\ d \in todo[p]
Covers(r) == \A d \in snoozed : d \in r.cooling \/ \E p \in Users : Cooled(p, d)

\* A status that a decision may rest on: it may show more connections than there are.
Right(s) == connected \subseteq s.connected /\ s.config = config /\ Covers(s.runtime)

\* What a process knows, and what it has made sure of, where it is.
Knows(p) ==
  /\ at[p] = "idle" <=> job[p] = "none"
  /\ job[p] = "force_autoconnect" => snoozed = {}
  /\ at[p] \in {"decide", "try", "verify", "cool", "cooling", "end"} => Auto(p)
  /\ at[p] \in {"save", "cooling", "collect"} => Covers(loaded[p])
  /\ at[p] \in {"keep", "decide"} => Right(status[p])
  /\ job[p] \in {"connect", "disconnect"} /\ at[p] \in {"load", "save", "act"} =>
       \E d \in Devices : todo[p] = {d}
  /\ job[p] = "connect" /\ at[p] = "act" => cache = <<>>
  /\ Auto(p) /\ at[p] \in {"try", "verify", "load", "save", "cool", "cooling"} => cache = <<>>
  /\ Auto(p) \/ job[p] = "connect" =>
       (at[p] \in {"try", "verify", "load", "save", "act"} => todo[p] \cap snoozed = {})
  /\ Auto(p) /\ at[p] \in {"try", "verify"} => config.enabled /\ todo[p] \subseteq config.auto
  /\ at[p] = "try" => connected = {}
  /\ at[p] = "verify" => connected \subseteq {Target(p)}
  /\ Auto(p) /\ at[p] \in {"verify", "load", "save", "cool", "cooling"} => todo[p] # {}
  /\ at[p] = "try" => todo[p] \cup tried[p] # {}
  /\ at[p] = "verify" => tried[p] # {}

\* The runtime and the cache may be decided by, and every process knows what it relies on.
BtInv ==
  /\ BtTypeOK /\ OneRuns /\ Covers(runtime) /\ (cache # <<>> => Right(cache[1]))
  /\ \A p \in Users : Knows(p)
=============================================================================

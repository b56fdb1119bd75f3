---------------------------- MODULE StatusDaemon ----------------------------
(***************************************************************************)
(* astrea_statusd.py: the loop that keeps status/*.json up to date, the    *)
(* pw-mon thread, the autoconnect thread, the signal handlers (they run    *)
(* between any two steps of the loop), and bluetooth_manager.py, which     *)
(* publishes one of the files too.                                         *)
(*                                                                         *)
(* Whether a deadline has passed when the loop comes by is left open,      *)
(* except that what a refresh, or the start, made due is due.  Cached      *)
(* values expire by actions of their own.  health.json, which always       *)
(* changes, and the rates in network.json are left out.                    *)
(***************************************************************************)
EXTENDS Naturals, FiniteSets

CONSTANTS
  Levels, Radios,  \* what wpctl and the adapter may say
  On,              \* the adapter's statuses in which it is powered
  Links,           \* interfaces; the wireless one is Wifi
  Wifi, Ssids,
  None,
  ManagerWrites    \* does bluetooth_manager.py publish as well?

Files == {"audio", "network", "bluetooth"}

VARIABLES
  level, radio,         \* the volume, and the adapter's status
  route, ssid, present, \* the default route, the network joined, the interfaces there are
  varying,              \* the part of the world that changes in this behaviour
  file, mem,            \* status/*.json, and json_cache
  routeCache, ssidCache, statusCache,  \* the last two are None when expired
  routeKnown, booting,  \* is network_route_time recent; is the monotonic clock below 30 s?
  due,                  \* files whose deadline was set to zero and that are not written since
  refresh, running,
  at, held,             \* the loop: where it is, and the file and payload it holds
  monitor,              \* what the pw-mon thread has read
  thread,               \* is the autoconnect thread alive?
  asked                 \* history: files a signal asked for and the loop has not computed

sdVars == <<level, radio, route, ssid, present, varying, file, mem, routeCache, ssidCache,
            statusCache, routeKnown, booting, due, refresh, running, at, held, monitor,
            thread, asked>>
world  == <<level, radio, route, ssid, present, varying>>
caches == <<routeCache, ssidCache, statusCache, routeKnown, booting>>
flags  == <<refresh, running, asked>>
others == <<monitor, thread>>

\* network_status: the type of the link and its name.
Network(iface, name) ==
  IF iface = None \/ iface \notin present THEN None
  ELSE IF iface = Wifi THEN <<Wifi, name>> ELSE <<iface, None>>
Reality(f) ==
  CASE f = "audio" -> level [] f = "network" -> Network(route, ssid) [] f = "bluetooth" -> radio

SdInit ==
  /\ level \in Levels /\ radio \in Radios /\ present = Links
  /\ route \in Links /\ ssid \in Ssids /\ varying \in Files
  /\ file = [f \in Files |-> None] /\ mem = [f \in Files |-> None]
  /\ routeCache = None /\ ssidCache = None /\ statusCache = None
  /\ booting \in BOOLEAN /\ routeKnown = booting
  /\ varying # "network" => route = Wifi /\ ~booting
  /\ varying # "audio" => level = CHOOSE l \in Levels : TRUE
  /\ varying # "bluetooth" => radio \notin On
  /\ due = Files /\ refresh = FALSE /\ running = TRUE
  /\ at = "top" /\ held = None /\ monitor = None /\ thread = FALSE /\ asked = {}

----------------------------------------------------------------------------
(* write_json_if_changed, one step under json_lock *)

\* mutant: what was written once is never written again
WriteOnce(f, payload) ==
  /\ mem' = [mem EXCEPT ![f] = payload]
  /\ file' = IF mem[f] = None THEN [file EXCEPT ![f] = payload] ELSE file
Write(f, payload) ==
  /\ mem' = [mem EXCEPT ![f] = payload]
  /\ file' = IF mem[f] = payload /\ file[f] # None THEN file
             ELSE [file EXCEPT ![f] = payload]

----------------------------------------------------------------------------
(* main *)

After(where) ==
  CASE where = "audio" -> "network" [] where = "network" -> "bluetooth"
    [] where = "bluetooth" -> "autoconnect"

\* mutant: the flag is cleared and nothing made due
ClearFirst ==
  /\ at = "top" /\ running /\ refresh
  /\ refresh' = FALSE /\ at' = "audio"
  /\ UNCHANGED <<world, caches, file, mem, due, running, asked, held, others>>

\* A refresh makes every file due at once and forgets the route's age ...
HonourRefresh ==
  /\ at = "top" /\ running /\ refresh
  /\ due' = due \cup Files /\ routeKnown' = booting /\ at' = "clear"
  /\ UNCHANGED <<world, routeCache, ssidCache, statusCache, booting, file, mem, flags, held, others>>
\* ... then the flag is cleared: a signal may come in between.
ClearRefresh ==
  /\ at = "clear" /\ refresh' = FALSE /\ at' = "audio"
  /\ UNCHANGED <<world, caches, file, mem, due, running, asked, held, others>>
NoRefresh ==
  /\ at = "top" /\ running /\ ~refresh /\ at' = "audio"
  /\ UNCHANGED <<world, caches, file, mem, due, flags, held, others>>

NotDue(f) ==
  /\ at = f /\ f \notin due /\ at' = After(f)
  /\ UNCHANGED <<world, caches, file, mem, due, flags, held, others>>

Computed(f, payload) ==
  /\ at = f /\ held' = <<f, payload>> /\ at' = "write"
  /\ asked' = asked \ {f}
  /\ UNCHANGED <<world, file, mem, due, refresh, running, others>>

ReadAudio == Computed("audio", level) /\ UNCHANGED caches

\* active_network_iface and wifi_ssid_for_iface, each with its cache of 30 seconds.
ReadNetwork ==
  LET iface == IF routeKnown THEN routeCache ELSE route
      name  == IF ssidCache # None THEN ssidCache ELSE ssid
  IN  /\ Computed("network", Network(iface, name))
      /\ routeCache' = iface /\ routeKnown' = TRUE
      /\ ssidCache' = IF iface = Wifi /\ iface \in present THEN name ELSE ssidCache
      /\ UNCHANGED <<statusCache, booting>>

\* get_status_payload answers from status-cache.json for 1.2 seconds.
ReadBluetooth ==
  LET payload == IF statusCache # None THEN statusCache ELSE radio
  IN  /\ Computed("bluetooth", payload) /\ statusCache' = payload
      /\ UNCHANGED <<routeCache, ssidCache, routeKnown, booting>>

\* The payload is written and the next deadline set.
WriteFile ==
  /\ at = "write" /\ Write(held[1], held[2]) /\ held' = None
  /\ due' = due \ {held[1]} /\ at' = After(held[1])
  /\ UNCHANGED <<world, caches, flags, others>>

\* request_bluetooth_autoconnect: one thread at a time, and only with the adapter on.
Autoconnect ==
  /\ at = "autoconnect" /\ at' = "sleep"
  /\ thread' \in {thread, thread \/ mem["bluetooth"] \in On}
  /\ UNCHANGED <<world, caches, file, mem, due, flags, held, monitor>>

Sleep ==
  /\ at = "sleep" /\ at' = IF running THEN "top" ELSE "stopped"
  /\ UNCHANGED <<world, caches, file, mem, due, flags, held, others>>

----------------------------------------------------------------------------
(* Threads, signals and the other program *)

\* pipewire_audio_monitor: the volume is read before the lock is taken.
MonitorReads ==
  /\ varying = "audio" /\ running /\ monitor = None /\ monitor' = level
  /\ UNCHANGED <<world, caches, file, mem, due, flags, at, held, thread>>
MonitorWrites ==
  /\ at # "stopped" /\ monitor # None /\ Write("audio", monitor) /\ monitor' = None
  /\ UNCHANGED <<world, caches, due, flags, at, held, thread>>

ThreadEnds ==
  /\ thread /\ thread' = FALSE
  /\ UNCHANGED <<world, caches, file, mem, due, flags, at, held, monitor>>

HandleRefresh ==
  /\ running /\ refresh' = TRUE /\ asked' = Files
  /\ UNCHANGED <<world, caches, file, mem, due, running, at, held, others>>
HandleStop ==
  /\ running /\ running' = FALSE
  /\ UNCHANGED <<world, caches, file, mem, due, refresh, asked, at, held, others>>

\* publish_status_snapshot of bluetooth_manager.py
ManagerPublishes ==
  /\ running /\ ManagerWrites /\ varying = "bluetooth"
  /\ file' = [file EXCEPT !["bluetooth"] = radio] /\ statusCache' = radio
  /\ UNCHANGED <<world, routeCache, ssidCache, routeKnown, booting, mem, due, flags, at, held, others>>

----------------------------------------------------------------------------
(* Time and the world *)

\* Only the part of the world that varies is worth asking about anew, and only while
\* the daemon runs; a thread's last write may still come after the signal to stop.
RouteExpires ==
  /\ varying = "network" \/ booting
  /\ routeKnown /\ routeKnown' = FALSE /\ booting' = FALSE
  /\ UNCHANGED <<world, routeCache, ssidCache, statusCache, file, mem, due, flags, at, held, others>>
SsidExpires ==
  /\ varying = "network" /\ ssidCache # None /\ ssidCache' = None
  /\ UNCHANGED <<world, routeCache, statusCache, routeKnown, booting, file, mem, due, flags, at, held, others>>
StatusExpires ==
  /\ varying = "bluetooth" /\ statusCache # None /\ statusCache' = None
  /\ UNCHANGED <<world, routeCache, ssidCache, routeKnown, booting, file, mem, due, flags, at, held, others>>
World ==
  /\ running
  /\ \/ varying = "audio" /\ level' \in Levels /\ UNCHANGED <<radio, route, ssid, present>>
     \/ varying = "bluetooth" /\ radio' \in Radios /\ UNCHANGED <<level, route, ssid, present>>
     \/ /\ varying = "network" /\ present' \in SUBSET Links /\ route' \in present' \cup {None}
        /\ ssid' \in Ssids /\ UNCHANGED <<level, radio>>
  /\ UNCHANGED <<varying, caches, file, mem, due, flags, at, held, others>>

Loop ==
  \/ HonourRefresh \/ ClearRefresh \/ NoRefresh
  \/ ReadAudio \/ ReadNetwork \/ ReadBluetooth \/ WriteFile \/ Autoconnect \/ Sleep
  \/ \E f \in Files : NotDue(f)
Expiry == RouteExpires \/ SsidExpires \/ StatusExpires

SdNext ==
  \/ Loop \/ MonitorReads \/ MonitorWrites \/ ThreadEnds
  \/ HandleRefresh \/ HandleStop \/ ManagerPublishes
  \/ Expiry \/ World

SdSpec == SdInit /\ [][SdNext]_sdVars

\* The loop runs, deadlines and cached values pass, and a thread finishes what it began.
SdFairness ==
  /\ WF_sdVars(Loop) /\ WF_sdVars(MonitorWrites)
  /\ WF_sdVars(RouteExpires) /\ WF_sdVars(SsidExpires) /\ WF_sdVars(StatusExpires)
  /\ SF_sdVars(ReadAudio) /\ SF_sdVars(ReadNetwork) /\ SF_sdVars(ReadBluetooth)
SdFairSpec == SdSpec /\ SdFairness

----------------------------------------------------------------------------
\* When the loop sleeps with the refresh flag down, every file asked for by a SIGUSR1
\* has been computed since: a signal that comes while a refresh is under way, or
\* between the deadlines' reset and the flag's, is not lost.
RefreshServed == (at = "sleep" /\ ~refresh) => asked = {}

\* Once the world stays as it is, audio.json and network.json come to say so and go on
\* saying so, whatever the pw-mon thread, the caches and the signals did before.
Shown == {None} \cup Levels \cup {<<Wifi, s>> : s \in Ssids} \cup {<<l, None>> : l \in Links \ {Wifi}}
Watching == running /\ varying # "bluetooth"
IsReal(v) == Reality(varying) = v
IsWritten(v) == file[varying] = v
FilesFollow == \A v \in Shown : []Watching => (<>[]IsReal(v) => <>[]IsWritten(v))

\* bluetooth.json, too, comes to say what the adapter says.
BluetoothFollows ==
  \A v \in Radios : [](running) => (<>[](radio = v) => <>[](file["bluetooth"] = v))
=============================================================================

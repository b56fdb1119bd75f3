---------------------------- MODULE WeatherAlerts ----------------------------
(****************************************************************************)
(* The notifications of weather alerts (notify_inmet_alerts of              *)
(* Core/bridge/apps/weather.py): each process reads the alerts it has       *)
(* notified before, notifies the new ones one by one and saves the list.    *)
(****************************************************************************)
EXTENDS Integers

CONSTANTS
  Alerts,
  SeenTTL,    \* NOTIFY_STATE_TTL
  MaxClock,
  MaxKills    \* processes killed between notifying and saving

VARIABLES
  clock,
  active,     \* the alerts in force
  seen,       \* the saved list: alert -> when it was notified
  proc,       \* the notifying process
  told,       \* alert -> when the user was last told (history)
  kills,
  enabled     \* notifications_enabled

avars == <<clock, active, seen, proc, told, kills, enabled>>

Out == [pc |-> "out", todo |-> {}, given |-> {}, seen |-> << >>]

\* The request for the alerts fails as an empty list.
StartNotify ==
  /\ proc.pc = "out" /\ enabled
  /\ \E given \in {active, {}} :
       proc' = [pc |-> "notify", todo |-> given \ DOMAIN seen, given |-> given, seen |-> seen]
  /\ UNCHANGED <<clock, active, seen, told, kills, enabled>>

\* The notifier says it worked, or the alert is left for the next process.
NotifyOne ==
  /\ proc.pc = "notify"
  /\ \E a \in proc.todo :
       \/ /\ told' = [b \in DOMAIN told \cup {a} |-> IF b = a THEN clock ELSE told[b]]
          /\ proc' = [proc EXCEPT !.todo = @ \ {a},
                        !.seen = [b \in DOMAIN @ \cup {a} |-> IF b = a THEN clock ELSE @[b]]]
       \/ proc' = [proc EXCEPT !.todo = @ \ {a}] /\ UNCHANGED told
  /\ UNCHANGED <<clock, active, seen, kills, enabled>>

\* mutant: alerts seen are forgotten when they are not given
KeepGiven(list, given) == [a \in DOMAIN list \cap given |-> list[a]]

\* Alerts still given are kept, the others until they are old.
KeepSeen(list, given) ==
  [a \in {b \in DOMAIN list : b \in given \/ clock - list[b] <= SeenTTL} |-> list[a]]

SaveSeen ==
  /\ proc.pc = "notify" /\ proc.todo = {}
  /\ seen' = KeepSeen(proc.seen, proc.given)
  /\ proc' = Out
  /\ UNCHANGED <<clock, active, told, kills, enabled>>

Killed ==
  /\ proc.pc = "notify" /\ kills < MaxKills
  /\ kills' = kills + 1
  /\ proc' = Out
  /\ UNCHANGED <<clock, active, seen, told, enabled>>

AlertsChange ==
  /\ active' \in SUBSET Alerts /\ active' # active
  /\ UNCHANGED <<clock, seen, proc, told, kills, enabled>>

SetEnabled ==
  /\ enabled' = ~enabled
  /\ UNCHANGED <<clock, active, seen, proc, told, kills>>

AlertTick ==
  /\ clock < MaxClock /\ proc.pc = "out"
  /\ clock' = clock + 1
  /\ UNCHANGED <<active, seen, proc, told, kills, enabled>>

AlertInit ==
  /\ clock = 0 /\ active = {} /\ seen = << >> /\ proc = Out
  /\ told = << >> /\ kills = 0 /\ enabled = TRUE

AlertNext ==
  \/ StartNotify \/ NotifyOne \/ SaveSeen \/ Killed
  \/ AlertsChange \/ SetEnabled \/ AlertTick

AlertSpec == AlertInit /\ [][AlertNext]_avars

\* A list of alerts with the times they were notified at.
IsList(list) == list \in [DOMAIN list -> 0..MaxClock] /\ DOMAIN list \subseteq Alerts

AlertTypeOK ==
  /\ clock \in 0..MaxClock /\ active \subseteq Alerts /\ kills \in 0..MaxKills
  /\ enabled \in BOOLEAN /\ IsList(seen) /\ IsList(told)
  /\ proc = [pc |-> proc.pc, todo |-> proc.todo, given |-> proc.given, seen |-> proc.seen]
  /\ proc.pc \in {"out", "notify"} /\ proc.todo \subseteq Alerts /\ proc.given \subseteq Alerts
  /\ IsList(proc.seen)

\* Whatever was told not long ago is in the list, with its time.
Recalls(list) ==
  \A a \in DOMAIN told :
    clock - told[a] <= SeenTTL => a \in DOMAIN list /\ list[a] = told[a]

\* The list of the running process, or the saved one, recalls what was told, and
\* what is still to be told is not in it.
AlertInv ==
  /\ AlertTypeOK
  /\ kills = 0 => Recalls(IF proc.pc = "notify" THEN proc.seen ELSE seen)
  /\ proc.todo \cap DOMAIN proc.seen = {}

\* While no process is killed, nobody is told the same alert twice within
\* NOTIFY_STATE_TTL, whatever comes and goes between (the pruning of "seen").
TellingStep ==
  \A a \in DOMAIN told :
    told'[a] # told[a] /\ kills = 0 => clock - told[a] > SeenTTL
ToldOnce == [][TellingStep]_avars
=============================================================================

----------------------------- MODULE ScreenTime -----------------------------
(***************************************************************************)
(* screentime.py: a monitor samples the focused window and adds the time   *)
(* since its last sample to the record in usage.json, split over the days  *)
(* it fell on.  Monitors exclude one another by a file lock; "reset" does  *)
(* not take it.  Two clocks matter: the wall clock, which goes on while    *)
(* the machine sleeps, and the monotonic one, which does not.              *)
(*                                                                         *)
(* Times are in units of the shortest interval; the three-digit rounding   *)
(* of seconds is left out.                                                 *)
(***************************************************************************)
EXTENDS Integers, FiniteSetsExt

CONSTANTS
    Monitors,    \* processes that may run "monitor"
    Apps,        \* focused applications; NoWindow stands for a failed hyprctl
    NoWindow,
    DayLength,
    SampleCap,   \* MAX_SAMPLE_SECONDS
    MaxClock,    \* bound: time passed
    MaxStops,    \* bound: monitors ended
    ResetAnytime \* may "reset" be called while a monitor runs?

VARIABLES
    wall, mono, \* time.time(), time.monotonic()
    file,       \* usage.json
    mon,        \* per monitor: its copy of the record, and its last sample
    since,      \* history: the monotonic time of the last reset
    stops

vars == <<wall, mono, file, mon, since, stops>>

Days == 0..(MaxClock \div DayLength)
Windows == Apps \cup {NoWindow}
EmptyState == [days |-> [d \in Days |-> 0], apps |-> [a \in Windows |-> 0], active |-> 0, unknown |-> 0, total |-> 0]
Off == [on |-> FALSE, stop |-> FALSE, record |-> EmptyState, app |-> NoWindow, atWall |-> 0, atMono |-> 0]

(***************************************************************************)
(* Adding time: add_elapsed and add_seconds_to_day.                        *)
(***************************************************************************)
DayOf(t) == t \div DayLength
\* mutant: the whole time is given to the day it began on
PortionOfFirstDay(d, start, end) == IF d = DayOf(start) THEN end - start ELSE 0

\* the part of the time from start to end that fell on day d
Portion(d, start, end) == Max({0, Min({end, (d + 1) * DayLength}) - Max({start, d * DayLength})})

AddElapsed(record, app, start, end) ==
    [days |-> [d \in Days |-> record.days[d] + Portion(d, start, end)],
     apps |-> [record.apps EXCEPT ![app] = @ + end - start],
     active |-> record.active + (IF app = NoWindow THEN 0 ELSE end - start),
     unknown |-> record.unknown + (IF app = NoWindow THEN end - start ELSE 0),
     total |-> record.total + end - start]

(***************************************************************************)
(* The monitor.                                                            *)
(***************************************************************************)
\* acquire_lock: the lock goes with the process that holds it
LockIsFree == \A m \in Monitors : ~mon[m].on

\* run_monitor up to its loop: the record is read from the file
StartMonitor(m) ==
    /\ ~mon[m].on
    /\ LockIsFree
    /\ \E app \in Windows :
         mon' = [mon EXCEPT ![m] = [on |-> TRUE, stop |-> FALSE, record |-> file, app |-> app, atWall |-> wall, atMono |-> mono]]
    /\ UNCHANGED <<wall, mono, file, since, stops>>

\* the time since the last sample, by the monotonic clock and capped
Elapsed(m) == Min({mono - mon[m].atMono, SampleCap})

\* one turn of the loop, which ends it if a signal came during the sleep
Sample(m) ==
    /\ mon[m].on
    /\ mono > mon[m].atMono
    /\ LET record == AddElapsed(mon[m].record, mon[m].app, mon[m].atWall, mon[m].atWall + Elapsed(m)) IN
       /\ file' = record
       /\ \E app \in Windows :
            mon' = [mon EXCEPT ![m] = IF mon[m].stop THEN Off
                      ELSE [on |-> TRUE, stop |-> FALSE, record |-> record, app |-> app, atWall |-> wall, atMono |-> mono]]
    /\ UNCHANGED <<wall, mono, since, stops>>

\* handle_stop
StopMonitor(m) ==
    /\ mon[m].on /\ ~mon[m].stop
    /\ stops < MaxStops /\ stops' = stops + 1
    /\ mon' = [mon EXCEPT ![m].stop = TRUE]
    /\ UNCHANGED <<wall, mono, file, since>>

KillMonitor(m) ==
    /\ mon[m].on
    /\ stops < MaxStops /\ stops' = stops + 1
    /\ mon' = [mon EXCEPT ![m] = Off]
    /\ UNCHANGED <<wall, mono, file, since>>

\* reset_state
Reset ==
    /\ ResetAnytime \/ LockIsFree
    /\ file # EmptyState
    /\ file' = EmptyState
    /\ since' = mono
    /\ UNCHANGED <<wall, mono, mon, stops>>

(***************************************************************************)
(* Time.                                                                   *)
(***************************************************************************)
Tick == wall < MaxClock /\ wall' = wall + 1 /\ mono' = mono + 1 /\ UNCHANGED <<file, mon, since, stops>>

\* the machine sleeps: only the wall clock goes on
Suspend == wall < MaxClock /\ wall' = wall + 1 /\ UNCHANGED <<mono, file, mon, since, stops>>

Init ==
    /\ wall = 0 /\ mono = 0
    /\ file = EmptyState
    /\ mon = [m \in Monitors |-> Off]
    /\ since = 0
    /\ stops = 0

Next ==
    \/ Reset \/ Tick \/ Suspend
    \/ \E m \in Monitors : StartMonitor(m) \/ Sample(m) \/ StopMonitor(m) \/ KillMonitor(m)

Spec == Init /\ [][Next]_vars

(***************************************************************************)
(* Properties.                                                             *)
(***************************************************************************)
\* No time is counted twice, invented or lost between the buckets: across
\* monitors, restarts, sleeps and midnights no day has more time than it is
\* long, the total is at most what passed on the monotonic clock since the
\* record was last reset, and it is the sum of the days and of the applications
\* (add_elapsed, acquire_lock; README.md "splits samples across midnight").
SumOver(g, S) == MapThenSumSet(LAMBDA x : g[x], S)
TimeIsCountedOnce ==
    /\ \A d \in Days : file.days[d] <= Portion(d, 0, wall)
    /\ file.total <= mono - since
    /\ file.total = file.active + file.unknown
    /\ file.total = SumOver(file.days, Days)
    /\ file.total = SumOver(file.apps, Windows)

(***************************************************************************)
(* The inductive invariant, while no record is reset that a monitor holds. *)
(***************************************************************************)
ClocksCount == {MaxClock, SampleCap, MaxStops} \subseteq Nat /\ DayLength \in Nat \ {0}

Records ==
    [days : [Days -> Nat], apps : [Windows -> Nat], active : Nat, unknown : Nat, total : Nat]
Samples ==
    [on : BOOLEAN, stop : BOOLEAN, record : Records, app : Windows, atWall : Nat, atMono : Nat]

StTypeOK ==
    /\ wall \in 0..MaxClock /\ mono \in Nat /\ since \in 0..mono /\ stops \in Nat
    /\ file \in Records /\ mon \in [Monitors -> Samples]

Balanced(r) ==
    /\ r.total = r.active + r.unknown
    /\ r.total = SumOver(r.days, Days) /\ r.total = SumOver(r.apps, Windows)

\* The time of the record fits between the last reset and these times of the two clocks.
Fits(r, atWall, atMono) ==
    /\ \A d \in Days : r.days[d] <= Portion(d, 0, atWall)
    /\ r.total <= atMono - since

\* A monitor that runs is the only one, has what is in the file, and what it counts next
\* begins where the record ends: the wall clock was ahead no less than it is now.
Counting(m) ==
    /\ mon[m].record = file
    /\ mon[m].atWall <= wall /\ since <= mon[m].atMono /\ mon[m].atMono <= mono
    /\ mono - mon[m].atMono <= wall - mon[m].atWall
    /\ Fits(file, mon[m].atWall, mon[m].atMono)

StInv ==
    /\ StTypeOK
    /\ \A m, n \in Monitors : mon[m].on /\ mon[n].on => m = n
    /\ Balanced(file) /\ Fits(file, wall, mono)
    /\ \A m \in Monitors : mon[m].on => Counting(m)
=============================================================================

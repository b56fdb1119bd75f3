--------------------------- MODULE LatencyDaemon ---------------------------
(***************************************************************************)
(* astrea-latencyd: temporary CPU / power-profile bursts with rollback.    *)
(*                                                                         *)
(* Clients connect to a socket and ask for a burst of some duration.  On   *)
(* the first one the daemon snapshots the machine settings and bursts      *)
(* them; once every burst expired, or on SIGTERM, it restores them.  What  *)
(* to restore is kept in memory and, so that it survives a crash, in       *)
(* state.json, from which the next start recovers.                         *)
(*                                                                         *)
(* The daemon is one thread; its handlers are cut where a crash, a tick or *)
(* a change made by the user can fall between two effects.  Time is        *)
(* relative: a burst is the number of ticks it has left.                   *)
(***************************************************************************)
EXTENDS Integers, Sequences

CONSTANTS
  Profiles,    \* values of the power profile
  Knobs,       \* cpufreq policy governors and the intel no_turbo file
  Values,      \* values of a knob
  Perf,        \* the bursting value of the profile and of every knob
  Restorable,  \* knob values the privileged helper agrees to write back
  Writable,    \* knobs the unprivileged daemon itself can write
  Durations,   \* requested burst lengths, in ticks, after the clamp
  MinPoll,     \* shortest sleep in poll(2)
  MaxPoll,     \* longest sleep in poll(2)
  MaxQueue,    \* bound on connections waiting in the listen backlog
  Budget,      \* bound on the environment's steps (requests, signals, crashes, user changes)
  Faults,      \* the faults the environment may inject, a subset of AllFaults
  None

AllFaults == {"crash", "user", "profileRead", "helperTimeout", "restore", "write"}
Cpu == [Knobs -> Values]

ASSUME SettingsAssumption ==
  /\ Perf \in Profiles /\ Perf \in Values
  /\ Writable \subseteq Knobs
  /\ None \notin Profiles /\ None \notin Cpu
ASSUME TimingAssumption ==
  /\ MinPoll \in Nat \ {0} /\ MaxPoll \in Nat /\ MinPoll <= MaxPoll
  /\ Durations \subseteq Nat \ {0}
ASSUME BoundsAssumption ==
  /\ MaxQueue \in Nat /\ Budget \in Nat /\ Faults \subseteq AllFaults

VARIABLES
  machine,   \* the settings in force: [profile, cpu]
  mem,       \* the daemon's snapshot and `active` flag
  boosts,    \* ticks left of every burst; <= 0 is expired
  pc,        \* where the daemon's thread is
  ret,       \* where rollback() returns to
  running,   \* cleared by the signal thread, which also writes the wake pipe
  queue,     \* connections not yet accepted; 0 is a request that is no burst
  deadline,  \* deadline of the request being handled
  wakeIn,    \* ticks left of the poll timeout
  file,      \* state.json: active flag and rollback object
  baseline,  \* history: the settings the user last chose
  lost,      \* history: why `baseline` may no longer be restorable
  budget     \* environment steps left

vars == <<machine, mem, boosts, pc, ret, running, queue, deadline, wakeIn,
          file, baseline, lost, budget>>

Settings  == [profile : Profiles, cpu : Cpu]
Snapshots == [active : BOOLEAN, profile : Profiles \cup {None}, cpu : Cpu,
              priv : Cpu \cup {None}]
Requests  == Durations \cup {0}

RollbackSteps == {"rbProfile", "rbCpu", "rbClear"}
Locations == {"down", "bind", "loop", "poll", "accept", "snapshot", "helper",
              "direct", "push", "persist", "exit"} \cup RollbackSteps
Reasons == {"crash", "user", "profileRead", "helperTimeout", "restore", "unrestorable"}

\* LatencyDaemon::default() and the state it persists.
Inactive == [active |-> FALSE, profile |-> None, cpu |-> [k \in Knobs |-> Perf],
             priv |-> None]

\* recover_pending_rollback() runs before the signal handlers are installed.
Recovering == pc \in RollbackSteps /\ ret = "bind"

\* mutant: the profile is not restored
ProfileKept(m, s) == m.profile

(***************************************************************************)
(* What rollback() leaves of machine m under snapshot s when nothing fails.*)
(***************************************************************************)
RestoredProfile(m, s) ==
  IF s.profile \in {None, Perf} THEN m.profile ELSE s.profile
RestoredCpu(m, s) ==
  [k \in Knobs |->
     IF s.priv # None
       THEN IF s.priv[k] \in Restorable THEN s.priv[k] ELSE m.cpu[k]
       ELSE IF k \in Writable THEN s.cpu[k] ELSE m.cpu[k]]
Restored(m, s) == [profile |-> RestoredProfile(m, s), cpu |-> RestoredCpu(m, s)]

\* mutant: bursts are dropped a shortest sleep early
DroppedEarly(B) == {b \in B : b > MinPoll}

Unexpired(B) == {b \in B : b > 0}

Clamp(x, lo, hi) == IF x < lo THEN lo ELSE IF x > hi THEN hi ELSE x

\* Saturating subtraction of elapsed time.
CountDown(t) == IF t > 0 THEN t - 1 ELSE t

\* write_state(): the temporary file and rename(2) either both happen or not.
WriteState(snapshot) ==
  \/ file' = snapshot
  \/ "write" \in Faults /\ UNCHANGED file

Lose(reason, cond) == lost' = IF cond THEN lost \cup {reason} ELSE lost

Init ==
  /\ machine \in Settings
  /\ baseline = machine
  /\ mem = Inactive /\ file = Inactive
  /\ boosts = {} /\ queue = <<>> /\ lost = {}
  /\ pc = "down" /\ ret = "bind"
  /\ running = TRUE
  /\ deadline = 0 /\ wakeIn = 0
  /\ budget = Budget

----------------------------------------------------------------------------
(* The daemon *)

\* A snapshot recover_pending_rollback() acts on.
Pending(snapshot) == snapshot.active

\* serve() up to recover_pending_rollback(): a stale boost is rolled back.
Start ==
  /\ pc = "down"
  /\ running' = TRUE
  /\ ret' = "bind"
  /\ \/ ~Pending(file) /\ pc' = "bind" /\ UNCHANGED mem
     \/ Pending(file) /\ pc' = "rbProfile" /\ mem' = file
  /\ UNCHANGED <<machine, boosts, queue, deadline, wakeIn, file, baseline, lost, budget>>

\* Bind the socket and write the first state; a failed write ends serve().
Bind ==
  /\ pc = "bind"
  /\ \/ file' = Inactive /\ pc' = "loop"
     \/ "write" \in Faults /\ UNCHANGED file /\ pc' = "down"
  /\ queue' = <<>>
  /\ UNCHANGED <<machine, mem, boosts, ret, running, deadline, wakeIn, baseline,
                 lost, budget>>

BeginRollback(returnTo) ==
  /\ pc' = "rbProfile"
  /\ ret' = returnTo

\* After the loop: roll back what is active, then leave.
Leave ==
  IF mem.active THEN BeginRollback("exit") ELSE pc' = "exit" /\ UNCHANGED ret

\* The head of the serve loop: prune_expired(), then poll for next_timeout().
LoopTop ==
  /\ pc = "loop"
  /\ \/ /\ ~running
        /\ Leave
        /\ UNCHANGED <<boosts, wakeIn>>
     \/ /\ running
        /\ boosts' = Unexpired(boosts)
        /\ \/ mem.active /\ boosts' = {} /\ BeginRollback("loop") /\ UNCHANGED wakeIn
           \/ /\ ~(mem.active /\ boosts' = {})
              /\ pc' = "poll" /\ UNCHANGED ret
              /\ \/ boosts' = {} /\ wakeIn' = MaxPoll
                 \/ \E b \in boosts' :
                      /\ \A c \in boosts' : b <= c
                      /\ wakeIn' = Clamp(b, MinPoll, MaxPoll)
  /\ UNCHANGED <<machine, mem, running, queue, deadline, file, baseline, lost, budget>>

\* wait_for_event(): the wake pipe is looked at before the listener.
PollReturns ==
  /\ pc = "poll"
  /\ \/ ~running /\ Leave
     \/ running /\ queue # <<>> /\ pc' = "accept" /\ UNCHANGED ret
     \/ running /\ queue = <<>> /\ wakeIn = 0 /\ pc' = "loop" /\ UNCHANGED ret
  /\ UNCHANGED <<machine, mem, boosts, running, queue, deadline, wakeIn, file,
                 baseline, lost, budget>>

\* mutant: every request takes a snapshot
SnapshotAlways == "snapshot"

\* Only the first of overlapping bursts takes a snapshot.
FirstStep == IF mem.active THEN "push" ELSE "snapshot"

\* Accept until the backlog is empty; the running flag is not looked at.
Accept ==
  /\ pc = "accept"
  /\ \/ queue = <<>> /\ pc' = "loop" /\ UNCHANGED <<queue, deadline>>
     \/ /\ queue # <<>>
        /\ queue' = Tail(queue)
        /\ \/ Head(queue) = 0 /\ UNCHANGED <<pc, deadline>>
           \/ /\ Head(queue) # 0
              /\ deadline' = Head(queue)
              /\ pc' = FirstStep
  /\ UNCHANGED <<machine, mem, boosts, ret, running, wakeIn, file, baseline, lost, budget>>

\* The first burst reads the profile, the governors and no_turbo.
TakeSnapshot ==
  /\ pc = "snapshot"
  /\ \E failed \in BOOLEAN :
       /\ failed => "profileRead" \in Faults
       /\ mem' = [active |-> TRUE, cpu |-> machine.cpu, priv |-> None,
                  profile |-> IF failed THEN None ELSE machine.profile]
       /\ Lose("profileRead", failed)
  /\ pc' = "helper"
  /\ UNCHANGED <<machine, boosts, ret, running, queue, deadline, wakeIn, file,
                 baseline, budget>>

\* privileged_burst(): the root helper snapshots and bursts every knob; it may
\* be missing or refuse, or be killed after 1.5 s with some knobs written.
HelperBurst ==
  /\ pc = "helper"
  /\ \/ /\ mem' = [mem EXCEPT !.priv = machine.cpu]
        /\ machine' = [machine EXCEPT !.cpu = [k \in Knobs |-> Perf]]
        /\ Lose("unrestorable", \E k \in Knobs : machine.cpu[k] \notin Restorable)
        /\ pc' = "push"
     \/ pc' = "direct" /\ UNCHANGED <<mem, machine, lost>>
     \/ /\ "helperTimeout" \in Faults
        /\ \E written \in SUBSET Knobs :
             /\ machine' = [machine EXCEPT !.cpu =
                              [k \in Knobs |-> IF k \in written THEN Perf ELSE @[k]]]
             /\ Lose("helperTimeout", ~(written \subseteq Writable))
        /\ pc' = "direct" /\ UNCHANGED mem
  /\ UNCHANGED <<boosts, ret, running, queue, deadline, wakeIn, file, baseline, budget>>

\* Without a helper snapshot the daemon sets the profile (the tool may be
\* missing) and the knobs it can write.
DirectBurst ==
  /\ pc = "direct"
  /\ \E p \in {Perf, machine.profile} :
       machine' = [profile |-> p,
                   cpu |-> [k \in Knobs |-> IF k \in Writable THEN Perf ELSE machine.cpu[k]]]
  /\ pc' = "push"
  /\ UNCHANGED <<mem, boosts, ret, running, queue, deadline, wakeIn, file, baseline,
                 lost, budget>>

\* Record the burst and prune: a burst shorter than the helper took is expired.
PushBoost ==
  /\ pc = "push"
  /\ boosts' = Unexpired(boosts \cup {deadline})
  /\ IF boosts' = {} THEN BeginRollback("persist") ELSE pc' = "persist" /\ UNCHANGED ret
  /\ UNCHANGED <<machine, mem, running, queue, deadline, wakeIn, file, baseline,
                 lost, budget>>

Persist ==
  /\ pc = "persist"
  /\ WriteState(mem)
  /\ pc' = "accept"
  /\ UNCHANGED <<machine, mem, boosts, ret, running, queue, deadline, wakeIn,
                 baseline, lost, budget>>

\* rollback(): the profile, ...
RollbackProfile ==
  /\ pc = "rbProfile"
  /\ \E failed \in BOOLEAN :
       /\ failed => "restore" \in Faults
       /\ machine' = [machine EXCEPT !.profile =
                        IF failed THEN @ ELSE RestoredProfile(machine, mem)]
       /\ Lose("restore", failed)
  /\ pc' = "rbCpu"
  /\ UNCHANGED <<mem, boosts, ret, running, queue, deadline, wakeIn, file, baseline, budget>>

\* ... the knobs, by the helper when it holds a snapshot, ...
RollbackCpu ==
  /\ pc = "rbCpu"
  /\ \E failed \in BOOLEAN :
       /\ failed => "restore" \in Faults
       /\ machine' = [machine EXCEPT !.cpu = IF failed THEN @ ELSE RestoredCpu(machine, mem)]
       /\ Lose("restore", failed)
  /\ pc' = "rbClear"
  /\ UNCHANGED <<mem, boosts, ret, running, queue, deadline, wakeIn, file, baseline, budget>>

\* ... then forget the snapshot whatever happened, and persist that.
RollbackClear ==
  /\ pc = "rbClear"
  /\ mem' = Inactive
  /\ boosts' = {}
  /\ WriteState(Inactive)
  /\ pc' = ret
  /\ UNCHANGED <<machine, ret, running, queue, deadline, wakeIn, baseline, lost, budget>>

Exit ==
  /\ pc = "exit"
  /\ pc' = "down"
  /\ queue' = <<>>
  /\ boosts' = {}
  /\ UNCHANGED <<machine, mem, ret, running, deadline, wakeIn, file, baseline, lost, budget>>

DaemonStep ==
  \/ Start \/ Bind \/ LoopTop \/ PollReturns \/ Accept
  \/ TakeSnapshot \/ HelperBurst \/ DirectBurst \/ PushBoost \/ Persist
  \/ RollbackProfile \/ RollbackCpu \/ RollbackClear \/ Exit

----------------------------------------------------------------------------
(* The environment *)

Spend == budget > 0 /\ budget' = budget - 1

\* A client connects; the socket exists from bind to exit.
Send(r) ==
  /\ Spend
  /\ pc \notin {"down", "bind"} /\ ~Recovering
  /\ Len(queue) < MaxQueue
  /\ queue' = Append(queue, r)
  /\ UNCHANGED <<machine, mem, boosts, pc, ret, running, deadline, wakeIn, file,
                 baseline, lost>>

\* SIGTERM or SIGINT, once the handlers are installed.
Signal ==
  /\ Spend
  /\ pc # "down" /\ ~Recovering
  /\ running
  /\ running' = FALSE
  /\ UNCHANGED <<machine, mem, boosts, pc, ret, queue, deadline, wakeIn, file,
                 baseline, lost>>

\* Killed: by a fault, by SIGTERM before the handlers, or by systemd's SIGKILL
\* three seconds after a stop.  Memory is gone, the machine and the file stay.
Crash ==
  /\ "crash" \in Faults
  /\ Spend
  /\ pc # "down"
  /\ pc' = "down" /\ mem' = Inactive /\ boosts' = {} /\ queue' = <<>>
  /\ Lose("crash", mem.active /\ pc # "helper" /\ file # mem)
  /\ UNCHANGED <<machine, ret, running, deadline, wakeIn, file, baseline>>

\* The user, or another program, changes a setting.  While a burst is in force
\* or on record the choice competes with the rollback.
UserChange ==
  /\ "user" \in Faults
  /\ Spend
  /\ \/ \E p \in Profiles : /\ machine'  = [machine EXCEPT !.profile = p]
                            /\ baseline' = [baseline EXCEPT !.profile = p]
     \/ \E k \in Knobs, v \in Values : /\ machine'  = [machine EXCEPT !.cpu[k] = v]
                                       /\ baseline' = [baseline EXCEPT !.cpu[k] = v]
  /\ Lose("user", mem.active \/ file.active)
  /\ UNCHANGED <<mem, boosts, pc, ret, running, queue, deadline, wakeIn, file>>

\* Time passes, in any handler; poll(2) wakes the daemon when its timeout is over.
Tick ==
  /\ pc = "poll" => wakeIn > 0
  /\ boosts' = {IF b > -MinPoll THEN b - 1 ELSE b : b \in boosts}
  /\ deadline' = CountDown(deadline)
  /\ wakeIn' = CountDown(wakeIn)
  /\ UNCHANGED <<machine, mem, pc, ret, running, queue, file, baseline, lost, budget>>

Environment == (\E r \in Requests : Send(r)) \/ Signal \/ Crash \/ UserChange

Next == DaemonStep \/ Environment \/ Tick

Spec == Init /\ [][Next]_vars

\* The thread runs, systemd restarts it (Restart=on-failure; the budget keeps
\* the crashes under its start limit) and time passes.
FairSpec == Spec /\ WF_vars(DaemonStep) /\ WF_vars(Tick)

----------------------------------------------------------------------------
(* Properties *)

\* The state has its types (struct LatencyDaemon and the fields of state.json).
TypeOK ==
  /\ machine \in Settings /\ baseline \in Settings
  /\ mem \in Snapshots /\ file \in Snapshots
  /\ boosts \subseteq Int
  /\ pc \in Locations /\ ret \in {"bind", "loop", "persist", "exit"}
  /\ running \in BOOLEAN
  /\ queue \in Seq(Requests)
  /\ deadline \in Nat /\ wakeIn \in Nat
  /\ lost \subseteq Reasons
  /\ budget \in Nat

\* Unless one of the named accidents happened, whoever has to undo a burst can:
\* rolling back with the snapshot in memory, or for a dead daemon the one in
\* state.json, gives exactly the settings the user chose; and when there is no
\* snapshot to roll back, those settings are in force.
RollbackReady ==
  lost = {} =>
    /\ mem.active => Restored(machine, mem) = baseline
    /\ pc = "down" /\ file.active => Restored(machine, file) = baseline
    /\ ~mem.active /\ (pc # "down" \/ ~file.active) => machine = baseline

\* While the daemon sleeps in poll, state.json is what a crash would need: it
\* mirrors the snapshot in memory (handle_payload and rollback both persist
\* before control returns to the loop).
PolledStateIsPersisted ==
  pc = "poll" /\ "write" \notin Faults => file = mem

\* A daemon asleep in poll leaves no burst in force longer than one minimal
\* sleep after the last deadline (next_timeout).
NoOverstay ==
  pc = "poll" /\ mem.active => \E b \in boosts : b > -MinPoll

\* A rollback begins only when every burst has expired, on shutdown, or for a
\* burst of an earlier run: overlapping bursts extend one another.
DueStep ==
  pc # "rbProfile" /\ pc' = "rbProfile"
    => \/ \A b \in boosts : b <= 0
       \/ ~running
       \/ pc = "down"
NoEarlyRollback == [][DueStep]_vars

\* Bursts end on time: neither before their deadline nor long after it.
EndsOnTime == []NoOverstay /\ [][DueStep]_vars

\* Settings that differ from the user's come back, or an accident was named:
\* expiry, shutdown and recovery all end in the rollback.
RollbackHappens == machine # baseline ~> (machine = baseline \/ lost # {})

\* The daemon implements the contract of borrowed settings: a loan is on while a
\* snapshot is held in memory or in state.json.
Contract == INSTANCE BorrowedSettings WITH
  Setting <- Settings, settings <- machine, chosen <- baseline,
  onLoan <- mem.active \/ file.active, excused <- lost # {}
KeepsContract == Contract!CSpec

\* test_write_state_persists_rollback_snapshot_for_crash_recovery: after a crash
\* the state file holds what undoes the burst.
CrashRecoverable ==
  pc = "down" /\ machine # baseline => file.active /\ Restored(machine, file) = baseline
=============================================================================

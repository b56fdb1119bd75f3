----------------------- MODULE LatencyDaemon_proofs -----------------------
(***************************************************************************)
(* Proofs about LatencyDaemon, and at the end about the Python daemon of   *)
(* LatencyDaemonPy, for every value of their constants.                    *)
(***************************************************************************)
EXTENDS LatencyDaemonPy, SequenceTheorems, TLAPS

USE SettingsAssumption, TimingAssumption, BoundsAssumption

LEMMA RestoredType ==
  ASSUME NEW m \in Settings, NEW s \in Snapshots
  PROVE  /\ Restored(m, s) \in Settings
         /\ RestoredProfile(m, s) \in Profiles
         /\ RestoredCpu(m, s) \in Cpu
<1>1. RestoredProfile(m, s) \in Profiles
  BY DEF RestoredProfile, Settings, Snapshots
<1>2. RestoredCpu(m, s) \in Cpu
  <2>1. m.cpu \in Cpu /\ s.cpu \in Cpu /\ (s.priv # None => s.priv \in Cpu)
    BY DEF Settings, Snapshots
  <2>2. QED BY <2>1 DEF RestoredCpu, Cpu
<1>3. QED BY <1>1, <1>2 DEF Restored, Settings

LEMMA InactiveType == Inactive \in Snapshots
BY DEF Inactive, Snapshots, Cpu

LEMMA TypeCorrectStep == TypeOK /\ [Next]_vars => TypeOK'
<1> SUFFICES ASSUME TypeOK, [Next]_vars PROVE TypeOK'
  OBVIOUS
<1> USE DEF TypeOK
<1>1. CASE Start
  BY <1>1 DEF Start, Locations, RollbackSteps
<1>2. CASE Bind
  BY <1>2, InactiveType DEF Bind, Locations
<1>3. CASE LoopTop
  <2>1. pc' \in Locations /\ ret' \in {"bind", "loop", "persist", "exit"}
    BY <1>3 DEF LoopTop, Leave, BeginRollback, Locations, RollbackSteps
  <2>2. Unexpired(boosts) \subseteq Int
    BY DEF Unexpired
  <2>3. ASSUME NEW b \in Int PROVE Clamp(b, MinPoll, MaxPoll) \in Nat
    BY <2>3 DEF Clamp
  <2>4. boosts' \subseteq Int /\ wakeIn' \in Nat
    BY <1>3, <2>2, <2>3 DEF LoopTop
  <2>5. QED BY <1>3, <2>1, <2>4 DEF LoopTop
<1>4. CASE PollReturns
  BY <1>4 DEF PollReturns, Leave, BeginRollback, Locations, RollbackSteps
<1>5. CASE Accept
  <2>1. pc' \in Locations
    BY <1>5 DEF Accept, FirstStep, Locations
  <2>2. queue # <<>> => Head(queue) \in Requests /\ Tail(queue) \in Seq(Requests)
    OBVIOUS
  <2>3. Requests \subseteq Nat
    BY DEF Requests
  <2>4. queue' \in Seq(Requests) /\ deadline' \in Nat
    BY <1>5, <2>2, <2>3 DEF Accept
  <2>5. QED BY <1>5, <2>1, <2>4 DEF Accept
<1>6. CASE TakeSnapshot
  BY <1>6 DEF TakeSnapshot, Lose, Locations, Reasons, Snapshots, Settings
<1>7. CASE HelperBurst
  <2>1. machine.cpu \in Cpu
    BY DEF Settings
  <2>2. ASSUME NEW written \in SUBSET Knobs
        PROVE  [k \in Knobs |-> IF k \in written THEN Perf ELSE machine.cpu[k]] \in Cpu
    BY <2>1 DEF Cpu
  <2>3. [k \in Knobs |-> Perf] \in Cpu
    BY DEF Cpu
  <2>4. machine' \in Settings /\ mem' \in Snapshots
    BY <1>7, <2>1, <2>2, <2>3 DEF HelperBurst, Settings, Snapshots
  <2>5. QED BY <1>7, <2>4 DEF HelperBurst, Lose, Locations, Reasons
<1>8. CASE DirectBurst
  BY <1>8 DEF DirectBurst, Locations, Settings, Cpu
<1>9. CASE PushBoost
  <2>1. pc' \in Locations /\ ret' \in {"bind", "loop", "persist", "exit"}
    BY <1>9 DEF PushBoost, BeginRollback, Locations, RollbackSteps
  <2>2. Unexpired(boosts \cup {deadline}) \subseteq Int
    <3>1. (boosts \cup {deadline}) \subseteq Int
      OBVIOUS
    <3>2. QED BY <3>1 DEF Unexpired
  <2>3. QED BY <1>9, <2>1, <2>2 DEF PushBoost
<1>10. CASE Persist
  BY <1>10 DEF Persist, WriteState, Locations
<1>11. CASE RollbackProfile
  <2>1. pc' \in Locations /\ lost' \subseteq Reasons
    BY <1>11 DEF RollbackProfile, Lose, Locations, RollbackSteps, Reasons
  <2>2. machine' \in Settings
    BY <1>11, RestoredType DEF RollbackProfile, Settings
  <2>3. QED BY <1>11, <2>1, <2>2 DEF RollbackProfile
<1>12. CASE RollbackCpu
  <2>1. pc' \in Locations /\ lost' \subseteq Reasons
    BY <1>12 DEF RollbackCpu, Lose, Locations, RollbackSteps, Reasons
  <2>2. machine' \in Settings
    BY <1>12, RestoredType DEF RollbackCpu, Settings
  <2>3. QED BY <1>12, <2>1, <2>2 DEF RollbackCpu
<1>13. CASE RollbackClear
  BY <1>13, InactiveType DEF RollbackClear, WriteState, Locations
<1>14. CASE Exit
  BY <1>14 DEF Exit, Locations
<1>15. ASSUME NEW r \in Requests, Send(r) PROVE TypeOK'
  BY <1>15 DEF Send, Spend
<1>16. CASE Signal
  <2>1. budget > 0 /\ budget' = budget - 1
    BY <1>16 DEF Signal, Spend
  <2>2. budget' \in Nat
    BY <2>1
  <2>3. running' \in BOOLEAN
    BY <1>16 DEF Signal
  <2>4. UNCHANGED <<machine, mem, boosts, pc, ret, queue, deadline, wakeIn, file,
                    baseline, lost>>
    BY <1>16 DEF Signal
  <2>5. QED BY <2>2, <2>3, <2>4
<1>17. CASE Crash
  BY <1>17, InactiveType DEF Crash, Spend, Lose, Locations, Reasons
<1>18. CASE UserChange
  BY <1>18 DEF UserChange, Spend, Lose, Reasons, Settings, Cpu
<1>19. CASE Tick
  BY <1>19 DEF Tick, CountDown
<1>20. CASE UNCHANGED vars
  BY <1>20 DEF vars
<1>21. QED
  BY <1>1, <1>2, <1>3, <1>4, <1>5, <1>6, <1>7, <1>8, <1>9, <1>10, <1>11, <1>12,
     <1>13, <1>14, <1>15, <1>16, <1>17, <1>18, <1>19, <1>20
     DEF Next, DaemonStep, Environment

(* Every state of the daemon has its types: the fields of LatencyDaemon and *)
(* of state.json, and the places its thread can be at.                      *)
THEOREM TypeCorrect == Spec => []TypeOK
<1>1. Init => TypeOK
  BY InactiveType DEF Init, TypeOK, Locations, Requests, Reasons
<1>2. QED BY <1>1, TypeCorrectStep, PTL DEF Spec

----------------------------------------------------------------------------
(***************************************************************************)
(* RollbackReady is not inductive: a step from a state it allows may lose  *)
(* the snapshot.  Its strengthening says where a snapshot exists (Held),   *)
(* that every snapshot on record is of the user's settings (Faithful), and *)
(* how much of them a started rollback has put back (Progress).            *)
(***************************************************************************)
OfBaseline(s) ==
  /\ s.profile = baseline.profile
  /\ s.cpu = baseline.cpu
  /\ s.priv # None => /\ s.priv = baseline.cpu
                      /\ \A k \in Knobs : baseline.cpu[k] \in Restorable

Held ==
  /\ pc \in {"helper", "direct", "push"} \cup RollbackSteps => mem.active
  /\ pc \in {"down", "bind", "snapshot", "exit"} => ~mem.active
  /\ pc \in {"helper", "direct"} => mem.priv = None

Faithful ==
  /\ mem.active => OfBaseline(mem)
  /\ file.active => OfBaseline(file)

Progress ==
  /\ pc = "helper" => machine = baseline
  /\ pc \in {"rbCpu", "rbClear"} => machine.profile = baseline.profile
  /\ pc = "rbClear" => machine = baseline

RollbackInv == Held /\ (lost = {} => Faithful /\ Progress) /\ RollbackReady

\* When rolling back machine m under a snapshot of the user's settings works.
LEMMA RestoredIsBaseline ==
  ASSUME NEW m \in Settings, NEW s \in Snapshots, baseline \in Settings, OfBaseline(s)
  PROVE  Restored(m, s) = baseline
           <=> /\ s.profile = Perf => m.profile = Perf
               /\ s.priv = None => \A k \in Knobs \ Writable : m.cpu[k] = baseline.cpu[k]
<1>1. RestoredProfile(m, s) = baseline.profile <=> (s.profile = Perf => m.profile = Perf)
  BY DEF RestoredProfile, OfBaseline, Settings
<1>2. RestoredCpu(m, s) = baseline.cpu
        <=> (s.priv = None => \A k \in Knobs \ Writable : m.cpu[k] = baseline.cpu[k])
  <2>1. m.cpu \in Cpu /\ baseline.cpu \in Cpu /\ s.cpu = baseline.cpu
    BY DEF Settings, OfBaseline
  <2>2. CASE s.priv # None
    <3>1. \A k \in Knobs : RestoredCpu(m, s)[k] = baseline.cpu[k]
      BY <2>2 DEF RestoredCpu, OfBaseline
    <3>2. QED BY <2>1, <2>2, <3>1, RestoredType DEF Cpu
  <2>3. CASE s.priv = None
    <3>1. RestoredCpu(m, s) = [k \in Knobs |-> IF k \in Writable THEN baseline.cpu[k] ELSE m.cpu[k]]
      BY <2>1, <2>3 DEF RestoredCpu
    <3>2. QED BY <2>1, <2>3, <3>1 DEF Cpu
  <2>4. QED BY <2>2, <2>3
<1>3. Restored(m, s) = baseline
        <=> RestoredProfile(m, s) = baseline.profile /\ RestoredCpu(m, s) = baseline.cpu
  BY DEF Restored, Settings
<1>4. QED BY <1>1, <1>2, <1>3

LEMMA SameSettings ==
  ASSUME NEW m \in Settings, NEW n \in Settings, m.profile = n.profile, m.cpu = n.cpu
  PROVE  m = n
BY DEF Settings

\* A snapshot of the user's settings restores them from themselves.
LEMMA BaselineStays ==
  ASSUME NEW s \in Snapshots, baseline \in Settings, OfBaseline(s)
  PROVE  Restored(baseline, s) = baseline
BY RestoredIsBaseline DEF OfBaseline

LEMMA RollbackInvInit == Init => RollbackInv
BY DEF Init, RollbackInv, Held, Faithful, Progress, RollbackReady, Inactive, RollbackSteps

\* Accidents are never forgotten.
LEMMA LostGrows == [Next]_vars => lost \subseteq lost'
BY DEF Next, vars, DaemonStep, Environment, Start, Bind, LoopTop, PollReturns, Accept,
       TakeSnapshot, HelperBurst, DirectBurst, PushBoost, Persist, RollbackProfile,
       RollbackCpu, RollbackClear, Exit, Send, Signal, Crash, UserChange, Tick, Lose

\* Steps that move only the thread, the boosts and the queue.
LEMMA RollbackInvMoves ==
  ASSUME TypeOK, RollbackInv, UNCHANGED <<machine, mem, file, baseline, lost>>,
         pc # "down", pc' # "down", pc' # "helper", Held', Progress'
  PROVE  RollbackInv'
BY DEF RollbackInv, Faithful, OfBaseline, RollbackReady, Restored, RestoredProfile,
       RestoredCpu

LEMMA RollbackInvStart ==
  ASSUME TypeOK, RollbackInv, Start PROVE RollbackInv'
<1>1. CASE ~file.active
  BY <1>1 DEF RollbackInv, Start, Pending, Held, Faithful, OfBaseline, Progress, RollbackReady,
              RollbackSteps
<1>2. CASE file.active
  <2>1. pc = "down" /\ pc' = "rbProfile" /\ mem' = file
        /\ UNCHANGED <<machine, file, baseline, lost>>
    BY <1>2 DEF Start, Pending
  <2>2. Held'
    BY <1>2, <2>1 DEF Held, RollbackSteps
  <2>3. lost = {} => Restored(machine, file) = baseline /\ OfBaseline(file)
    BY <1>2, <2>1 DEF RollbackInv, RollbackReady, Faithful
  <2>4. (lost = {} => Faithful /\ Progress)'
    BY <2>1, <2>3 DEF Faithful, Progress, OfBaseline
  <2>5. RollbackReady'
    BY <1>2, <2>1, <2>3 DEF RollbackReady, Restored, RestoredProfile, RestoredCpu
  <2>6. QED BY <2>2, <2>4, <2>5 DEF RollbackInv
<1>3. QED BY <1>1, <1>2

LEMMA RollbackInvBind ==
  ASSUME TypeOK, RollbackInv, Bind PROVE RollbackInv'
<1>1. pc = "bind" /\ ~mem.active /\ UNCHANGED <<machine, mem, baseline, lost>>
  BY DEF Bind, RollbackInv, Held
<1>2. lost = {} => machine = baseline
  BY <1>1 DEF RollbackInv, RollbackReady
<1>3. CASE file' = Inactive /\ pc' = "loop"
  BY <1>1, <1>2, <1>3 DEF RollbackInv, Held, Faithful, Progress, RollbackReady, Inactive,
                          RollbackSteps
<1>4. CASE UNCHANGED file /\ pc' = "down"
  <2>1. (lost = {} => Faithful /\ Progress)'
    BY <1>1, <1>4 DEF RollbackInv, Faithful, Progress, OfBaseline
  <2>2. lost = {} /\ file.active => Restored(machine, file) = baseline
    BY <1>2, BaselineStays DEF RollbackInv, Faithful, TypeOK
  <2>3. RollbackReady'
    BY <1>1, <1>2, <1>4, <2>2 DEF RollbackReady, Restored, RestoredProfile, RestoredCpu
  <2>4. QED BY <1>1, <1>4, <2>1, <2>3 DEF RollbackInv, Held, RollbackSteps
<1>5. QED BY <1>3, <1>4 DEF Bind

LEMMA RollbackInvSnapshot ==
  ASSUME TypeOK, RollbackInv, TakeSnapshot PROVE RollbackInv'
<1>1. pc = "snapshot" /\ ~mem.active /\ pc' = "helper" /\ UNCHANGED <<machine, file, baseline>>
  BY DEF TakeSnapshot, RollbackInv, Held
<1>2. mem'.active /\ mem'.priv = None
  BY DEF TakeSnapshot
<1>3. Held'
  BY <1>1, <1>2 DEF Held, RollbackSteps
<1>4. ASSUME lost' = {} PROVE Faithful' /\ Progress' /\ RollbackReady'
  <2>1. lost = {} /\ mem' = [active |-> TRUE, cpu |-> machine.cpu, priv |-> None,
                             profile |-> machine.profile]
    BY <1>4 DEF TakeSnapshot, Lose
  <2>2. machine = baseline
    BY <1>1, <2>1 DEF RollbackInv, RollbackReady
  <2>3. OfBaseline(mem')
    BY <2>1, <2>2 DEF OfBaseline
  <2>4. Faithful' /\ Progress'
    BY <1>1, <1>2, <2>1, <2>2, <2>3 DEF RollbackInv, Faithful, Progress, OfBaseline
  <2>5. mem' \in Snapshots
    BY <2>1 DEF TypeOK, Snapshots, Settings
  <2>6. Restored(machine, mem') = baseline
    BY <2>2, <2>3, <2>5, BaselineStays DEF TypeOK
  <2>7. RollbackReady'
    BY <1>1, <1>2, <2>6 DEF RollbackReady, Restored, RestoredProfile, RestoredCpu
  <2>8. QED BY <2>4, <2>7
<1>5. QED BY <1>3, <1>4 DEF RollbackInv, RollbackReady

LEMMA RollbackInvHelper ==
  ASSUME TypeOK, RollbackInv, HelperBurst PROVE RollbackInv'
<1>1. pc = "helper" /\ mem.active /\ mem.priv = None /\ mem'.active
      /\ UNCHANGED <<file, baseline>>
  BY DEF HelperBurst, RollbackInv, Held, TypeOK, Snapshots
<1>2. pc' \in {"direct", "push"} /\ (pc' = "direct" => mem' = mem)
  BY DEF HelperBurst
<1>3. Held'
  BY <1>1, <1>2 DEF Held, RollbackSteps
<1>4. ASSUME lost' = {} PROVE Faithful' /\ Progress' /\ RollbackReady'
  <2>1. lost = {} /\ machine = baseline /\ OfBaseline(mem) /\ (file.active => OfBaseline(file))
    BY <1>1, <1>4, LostGrows DEF HelperBurst, Lose, RollbackInv, Faithful, Progress
  <2>2. machine' \in Settings /\ mem' \in Snapshots /\ machine'.profile = baseline.profile
    <3>1. TypeOK'
      BY TypeCorrectStep DEF Next, DaemonStep
    <3>2. machine'.profile = machine.profile
      BY DEF HelperBurst, TypeOK, Settings
    <3>3. QED BY <2>1, <3>1, <3>2 DEF TypeOK
  <2>3. OfBaseline(mem') /\ (mem'.priv = None =>
            \A k \in Knobs \ Writable : machine'.cpu[k] = baseline.cpu[k])
    <3>1. CASE /\ mem' = [mem EXCEPT !.priv = machine.cpu]
               /\ Lose("unrestorable", \E k \in Knobs : machine.cpu[k] \notin Restorable)
      <4>1. \A k \in Knobs : machine.cpu[k] \in Restorable
        BY <1>4, <3>1 DEF Lose
      <4>2. mem'.priv = machine.cpu /\ mem'.profile = mem.profile /\ mem'.cpu = mem.cpu
            /\ machine.cpu # None
        BY <3>1 DEF TypeOK, Snapshots, Settings
      <4>3. QED BY <2>1, <4>1, <4>2 DEF OfBaseline
    <3>2. CASE UNCHANGED <<mem, machine>>
      BY <2>1, <3>2 DEF OfBaseline
    <3>3. ASSUME NEW written \in SUBSET Knobs, UNCHANGED mem,
                 machine' = [machine EXCEPT !.cpu =
                               [k \in Knobs |-> IF k \in written THEN Perf ELSE @[k]]],
                 Lose("helperTimeout", ~(written \subseteq Writable))
          PROVE  OfBaseline(mem') /\ (mem'.priv = None =>
                    \A k \in Knobs \ Writable : machine'.cpu[k] = baseline.cpu[k])
      <4>1. written \subseteq Writable
        BY <1>4, <3>3 DEF Lose
      <4>2. machine'.cpu = [k \in Knobs |-> IF k \in written THEN Perf ELSE machine.cpu[k]]
        BY <3>3 DEF TypeOK, Settings
      <4>3. QED BY <2>1, <3>3, <4>1, <4>2 DEF OfBaseline
    <3>4. QED BY <3>1, <3>2, <3>3 DEF HelperBurst
  <2>4. Restored(machine', mem') = baseline
    <3>1. mem'.profile = Perf => machine'.profile = Perf
      BY <2>2, <2>3 DEF OfBaseline
    <3>2. QED BY <2>2, <2>3, <3>1, RestoredIsBaseline DEF TypeOK
  <2>5. Faithful'
    BY <1>1, <2>1, <2>3 DEF Faithful, OfBaseline
  <2>6. Progress'
    BY <1>2 DEF Progress
  <2>7. RollbackReady'
    BY <1>1, <1>2, <2>4 DEF RollbackReady, Restored, RestoredProfile, RestoredCpu
  <2>8. QED BY <2>5, <2>6, <2>7
<1>5. QED BY <1>3, <1>4 DEF RollbackInv, RollbackReady

LEMMA RollbackInvDirect ==
  ASSUME TypeOK, RollbackInv, DirectBurst PROVE RollbackInv'
<1>1. pc = "direct" /\ pc' = "push" /\ mem.active /\ mem.priv = None
      /\ UNCHANGED <<mem, file, baseline, lost>>
  BY DEF DirectBurst, RollbackInv, Held
<1>2. PICK p \in {Perf, machine.profile} :
        machine' = [profile |-> p,
                    cpu |-> [k \in Knobs |-> IF k \in Writable THEN Perf ELSE machine.cpu[k]]]
  BY DEF DirectBurst
<1>3. ASSUME lost = {} PROVE Faithful' /\ Progress' /\ RollbackReady'
  <2>1. OfBaseline(mem) /\ Restored(machine, mem) = baseline /\ (file.active => OfBaseline(file))
    BY <1>1, <1>3 DEF RollbackInv, Faithful, RollbackReady
  <2>2. /\ mem.profile = Perf => machine.profile = Perf
        /\ \A k \in Knobs \ Writable : machine.cpu[k] = baseline.cpu[k]
    BY <1>1, <2>1, RestoredIsBaseline DEF TypeOK
  <2>3. machine' \in Settings
    BY <1>2 DEF TypeOK, Settings, Cpu
  <2>4. Restored(machine', mem) = baseline
    BY <1>2, <2>1, <2>2, <2>3, RestoredIsBaseline DEF TypeOK
  <2>5. Faithful' /\ Progress'
    BY <1>1, <2>1 DEF Faithful, Progress, OfBaseline
  <2>6. RollbackReady'
    BY <1>1, <2>4 DEF RollbackReady, Restored, RestoredProfile, RestoredCpu
  <2>7. QED BY <2>5, <2>6
<1>4. Held'
  BY <1>1 DEF Held, RollbackSteps
<1>5. QED BY <1>1, <1>3, <1>4 DEF RollbackInv, RollbackReady

LEMMA RollbackInvProfile ==
  ASSUME TypeOK, RollbackInv, RollbackProfile PROVE RollbackInv'
<1>1. pc = "rbProfile" /\ pc' = "rbCpu" /\ mem.active /\ UNCHANGED <<mem, file, baseline>>
  BY DEF RollbackProfile, RollbackInv, Held, RollbackSteps
<1>2. ASSUME lost' = {} PROVE Faithful' /\ Progress' /\ RollbackReady'
  <2>1. lost = {} /\ machine' = [machine EXCEPT !.profile = RestoredProfile(machine, mem)]
    BY <1>2 DEF RollbackProfile, Lose
  <2>2. OfBaseline(mem) /\ Restored(machine, mem) = baseline /\ (file.active => OfBaseline(file))
    BY <1>1, <2>1 DEF RollbackInv, Faithful, RollbackReady
  <2>3. machine'.profile = baseline.profile /\ machine'.cpu = machine.cpu /\ machine' \in Settings
    BY <2>1, <2>2, RestoredType DEF Restored, TypeOK, Settings
  <2>4. /\ mem.profile = Perf => machine'.profile = Perf
        /\ mem.priv = None => \A k \in Knobs \ Writable : machine'.cpu[k] = baseline.cpu[k]
    BY <2>2, <2>3, RestoredIsBaseline DEF TypeOK, OfBaseline
  <2>5. Restored(machine', mem) = baseline
    BY <2>2, <2>3, <2>4, RestoredIsBaseline DEF TypeOK
  <2>6. Faithful' /\ Progress'
    BY <1>1, <2>2, <2>3 DEF Faithful, Progress, OfBaseline
  <2>7. RollbackReady'
    BY <1>1, <2>5 DEF RollbackReady, Restored, RestoredProfile, RestoredCpu
  <2>8. QED BY <2>6, <2>7
<1>3. Held'
  BY <1>1 DEF Held, RollbackSteps
<1>4. QED BY <1>2, <1>3 DEF RollbackInv, RollbackReady

LEMMA RollbackInvCpu ==
  ASSUME TypeOK, RollbackInv, RollbackCpu PROVE RollbackInv'
<1>1. pc = "rbCpu" /\ pc' = "rbClear" /\ mem.active /\ UNCHANGED <<mem, file, baseline>>
  BY DEF RollbackCpu, RollbackInv, Held, RollbackSteps
<1>2. ASSUME lost' = {} PROVE Faithful' /\ Progress' /\ RollbackReady'
  <2>1. lost = {} /\ machine' = [machine EXCEPT !.cpu = RestoredCpu(machine, mem)]
    BY <1>2 DEF RollbackCpu, Lose
  <2>2. OfBaseline(mem) /\ Restored(machine, mem) = baseline /\ (file.active => OfBaseline(file))
        /\ machine.profile = baseline.profile
    BY <1>1, <2>1 DEF RollbackInv, Faithful, RollbackReady, Progress
  <2>3. machine' = baseline
    <3>1. machine'.cpu = baseline.cpu /\ machine'.profile = baseline.profile /\ machine' \in Settings
      BY <2>1, <2>2, RestoredType DEF Restored, TypeOK, Settings
    <3>2. QED BY <3>1, SameSettings DEF TypeOK
  <2>4. Restored(machine', mem) = baseline
    BY <2>2, <2>3, BaselineStays DEF TypeOK
  <2>5. Faithful' /\ Progress'
    BY <1>1, <2>2, <2>3 DEF Faithful, Progress, OfBaseline
  <2>6. RollbackReady'
    BY <1>1, <2>4 DEF RollbackReady, Restored, RestoredProfile, RestoredCpu
  <2>7. QED BY <2>5, <2>6
<1>3. Held'
  BY <1>1 DEF Held, RollbackSteps
<1>4. QED BY <1>2, <1>3 DEF RollbackInv, RollbackReady

LEMMA RollbackInvClear ==
  ASSUME TypeOK, RollbackInv, RollbackClear PROVE RollbackInv'
<1>1. pc = "rbClear" /\ pc' \in {"bind", "loop", "persist", "exit"} /\ ~mem'.active
      /\ (UNCHANGED file \/ ~file'.active) /\ UNCHANGED <<machine, baseline, lost>>
  BY DEF RollbackClear, WriteState, Inactive, TypeOK
<1>2. Held'
  BY <1>1 DEF Held, RollbackSteps
<1>3. lost = {} => machine = baseline /\ (file.active => OfBaseline(file))
  BY <1>1 DEF RollbackInv, Faithful, Progress
<1>4. (lost = {} => Faithful /\ Progress)'
  BY <1>1, <1>3 DEF Faithful, Progress, OfBaseline
<1>5. RollbackReady'
  BY <1>1, <1>3 DEF RollbackReady
<1>6. QED BY <1>2, <1>4, <1>5 DEF RollbackInv

LEMMA RollbackInvPersist ==
  ASSUME TypeOK, RollbackInv, Persist PROVE RollbackInv'
<1>1. pc = "persist" /\ pc' = "accept" /\ (file' = mem \/ UNCHANGED file)
      /\ UNCHANGED <<machine, mem, baseline, lost>>
  BY DEF Persist, WriteState
<1>2. Held'
  BY <1>1 DEF Held, RollbackSteps
<1>3. (lost = {} => Faithful /\ Progress)'
  BY <1>1 DEF RollbackInv, Faithful, Progress, OfBaseline
<1>4. RollbackReady'
  BY <1>1 DEF RollbackInv, RollbackReady, Restored, RestoredProfile, RestoredCpu
<1>5. QED BY <1>2, <1>3, <1>4 DEF RollbackInv

LEMMA RollbackInvExit ==
  ASSUME TypeOK, RollbackInv, Exit PROVE RollbackInv'
<1>1. pc = "exit" /\ pc' = "down" /\ ~mem.active
      /\ UNCHANGED <<machine, mem, file, baseline, lost>>
  BY DEF Exit, RollbackInv, Held
<1>2. Held'
  BY <1>1 DEF Held, RollbackSteps
<1>3. lost = {} => machine = baseline /\ (file.active => OfBaseline(file))
  BY <1>1 DEF RollbackInv, Faithful, RollbackReady
<1>4. lost = {} /\ file.active => Restored(machine, file) = baseline
  BY <1>3, BaselineStays DEF TypeOK
<1>5. (lost = {} => Faithful /\ Progress)'
  BY <1>1 DEF RollbackInv, Faithful, Progress, OfBaseline
<1>6. RollbackReady'
  BY <1>1, <1>3, <1>4 DEF RollbackReady, Restored, RestoredProfile, RestoredCpu
<1>7. QED BY <1>2, <1>5, <1>6 DEF RollbackInv

LEMMA RollbackInvCrash ==
  ASSUME TypeOK, RollbackInv, Crash PROVE RollbackInv'
<1>1. pc # "down" /\ pc' = "down" /\ ~mem'.active /\ UNCHANGED <<machine, file, baseline>>
  BY DEF Crash, Inactive
<1>2. Held'
  BY <1>1 DEF Held, RollbackSteps
<1>3. ASSUME lost' = {} PROVE Faithful' /\ Progress' /\ RollbackReady'
  <2>1. lost = {} /\ ~(mem.active /\ pc # "helper" /\ file # mem)
    BY <1>3 DEF Crash, Lose
  <2>2. file.active => OfBaseline(file)
    BY <2>1 DEF RollbackInv, Faithful
  <2>3. CASE mem.active /\ pc # "helper"
    <3>1. file = mem /\ Restored(machine, mem) = baseline
      BY <2>1, <2>3 DEF RollbackInv, RollbackReady
    <3>2. RollbackReady'
      BY <1>1, <2>3, <3>1 DEF RollbackReady, Restored, RestoredProfile, RestoredCpu
    <3>3. QED BY <1>1, <2>2, <3>2 DEF Faithful, Progress, OfBaseline
  <2>4. CASE ~(mem.active /\ pc # "helper")
    <3>1. machine = baseline
      BY <1>1, <2>1, <2>4 DEF RollbackInv, RollbackReady, Progress
    <3>2. file.active => Restored(machine, file) = baseline
      BY <2>2, <3>1, BaselineStays DEF TypeOK
    <3>3. RollbackReady'
      BY <1>1, <3>1, <3>2 DEF RollbackReady, Restored, RestoredProfile, RestoredCpu
    <3>4. QED BY <1>1, <2>2, <3>3 DEF Faithful, Progress, OfBaseline
  <2>5. QED BY <2>3, <2>4
<1>4. QED BY <1>2, <1>3 DEF RollbackInv, RollbackReady

LEMMA RollbackInvUser ==
  ASSUME TypeOK, RollbackInv, UserChange PROVE RollbackInv'
<1>1. UNCHANGED <<mem, pc, file>>
  BY DEF UserChange
<1>2. Held'
  BY <1>1 DEF RollbackInv, Held
<1>3. ASSUME lost' = {} PROVE Faithful' /\ Progress' /\ RollbackReady'
  <2>1. lost = {} /\ ~mem.active /\ ~file.active
    BY <1>3 DEF UserChange, Lose
  <2>2. machine = baseline
    BY <2>1 DEF RollbackInv, RollbackReady
  <2>3. machine' = baseline'
    BY <2>2 DEF UserChange
  <2>4. QED BY <1>1, <2>1, <2>3 DEF Faithful, Progress, RollbackReady
<1>4. QED BY <1>2, <1>3 DEF RollbackInv, RollbackReady

LEMMA RollbackInvElsewhere ==
  ASSUME TypeOK, RollbackInv, UNCHANGED <<machine, mem, pc, file, baseline, lost>>
  PROVE  RollbackInv'
<1>1. Held' /\ (lost = {} => Faithful /\ Progress)'
  BY DEF RollbackInv, Held, Faithful, Progress, OfBaseline
<1>2. RollbackReady'
  BY DEF RollbackInv, RollbackReady, Restored, RestoredProfile, RestoredCpu
<1>3. QED BY <1>1, <1>2 DEF RollbackInv

LEMMA RollbackInvNext == TypeOK /\ RollbackInv /\ [Next]_vars => RollbackInv'
<1> SUFFICES ASSUME TypeOK, RollbackInv, [Next]_vars PROVE RollbackInv'
  OBVIOUS
<1> USE DEF Held, Progress, RollbackSteps
<1>1. CASE LoopTop
  <2>1. UNCHANGED <<machine, mem, file, baseline, lost>> /\ pc = "loop"
        /\ pc' \in {"rbProfile", "exit", "poll"}
        /\ (pc' = "rbProfile" => mem.active) /\ (pc' = "exit" => ~mem.active)
    BY <1>1 DEF LoopTop, Leave, BeginRollback
  <2>2. QED BY <2>1, RollbackInvMoves
<1>2. CASE PollReturns
  <2>1. UNCHANGED <<machine, mem, file, baseline, lost>> /\ pc = "poll"
        /\ pc' \in {"rbProfile", "exit", "accept", "loop"}
        /\ (pc' = "rbProfile" => mem.active) /\ (pc' = "exit" => ~mem.active)
    BY <1>2 DEF PollReturns, Leave, BeginRollback
  <2>2. QED BY <2>1, RollbackInvMoves
<1>3. CASE Accept
  <2>1. UNCHANGED <<machine, mem, file, baseline, lost>> /\ pc = "accept"
        /\ pc' \in {"accept", "loop", "push", "snapshot"}
        /\ (pc' = "push" => mem.active) /\ (pc' = "snapshot" => ~mem.active)
    BY <1>3 DEF Accept, FirstStep
  <2>2. QED BY <2>1, RollbackInvMoves
<1>4. CASE PushBoost
  <2>1. UNCHANGED <<machine, mem, file, baseline, lost>> /\ pc = "push" /\ mem.active
        /\ pc' \in {"persist", "rbProfile"}
    BY <1>4 DEF PushBoost, BeginRollback, RollbackInv
  <2>2. QED BY <2>1, RollbackInvMoves
<1>5. ASSUME NEW r \in Requests, Send(r) PROVE RollbackInv'
  BY <1>5, RollbackInvElsewhere DEF Send
<1>6. CASE Signal
  BY <1>6, RollbackInvElsewhere DEF Signal
<1>7. CASE Tick
  BY <1>7, RollbackInvElsewhere DEF Tick
<1>8. CASE UNCHANGED vars
  BY <1>8, RollbackInvElsewhere DEF vars
<1>9. QED
  BY <1>1, <1>2, <1>3, <1>4, <1>5, <1>6, <1>7, <1>8, RollbackInvStart, RollbackInvBind,
     RollbackInvSnapshot, RollbackInvHelper, RollbackInvDirect, RollbackInvPersist,
     RollbackInvProfile, RollbackInvCpu, RollbackInvClear, RollbackInvExit, RollbackInvCrash,
     RollbackInvUser
     DEF Next, DaemonStep, Environment

(* Whoever has to undo a burst can: whatever crashes, failed writes and     *)
(* competing requests happened, unless one of the named accidents did, the  *)
(* snapshot in memory, or in state.json for a dead daemon, restores exactly *)
(* what the user chose.                                                     *)
THEOREM RollbackAlwaysReady == Spec => []RollbackReady
<1>1. RollbackInv => RollbackReady
  BY DEF RollbackInv
<1>2. QED BY <1>1, RollbackInvInit, RollbackInvNext, TypeCorrect, PTL DEF Spec

----------------------------------------------------------------------------
(* The daemon implements the contract of BorrowedSettings.                  *)

OnLoan == mem.active \/ file.active

\* What a step without an accident and without a choice of the user may do.
ServesLoan ==
  /\ UNCHANGED baseline
  /\ ~OnLoan => machine' = machine
  /\ OnLoan /\ ~OnLoan' => machine = baseline /\ machine' = machine

LEMMA ServesLoanNext ==
  ASSUME TypeOK, RollbackInv, Next, lost' = {}, ~UserChange
  PROVE  ServesLoan
<1>1. lost = {}
  BY LostGrows
<1>2. UNCHANGED baseline
  BY DEF Next, DaemonStep, Environment, Start, Bind, LoopTop, PollReturns, Accept,
         TakeSnapshot, HelperBurst, DirectBurst, PushBoost, Persist, RollbackProfile,
         RollbackCpu, RollbackClear, Exit, Send, Signal, Crash, UserChange, Tick
<1>3. CASE UNCHANGED <<machine, mem, file>>
  BY <1>2, <1>3 DEF ServesLoan, OnLoan
<1>4. CASE Start
  BY <1>2, <1>4 DEF Start, Pending, ServesLoan, OnLoan
<1>5. CASE Bind
  <2>1. ~mem.active /\ pc = "bind" /\ UNCHANGED <<machine, mem>>
    BY <1>5 DEF Bind, RollbackInv, Held
  <2>2. machine = baseline
    BY <1>1, <2>1 DEF RollbackInv, RollbackReady
  <2>3. QED BY <1>2, <2>1, <2>2 DEF ServesLoan
<1>6. CASE TakeSnapshot
  BY <1>2, <1>6 DEF TakeSnapshot, ServesLoan, OnLoan
<1>7. CASE HelperBurst
  <2>1. mem.active /\ mem'.active
    BY <1>7 DEF HelperBurst, RollbackInv, Held, TypeOK, Snapshots
  <2>2. QED BY <1>2, <2>1 DEF ServesLoan, OnLoan
<1>8. CASE DirectBurst \/ RollbackProfile \/ RollbackCpu
  <2>1. mem.active /\ UNCHANGED mem
    BY <1>8 DEF DirectBurst, RollbackProfile, RollbackCpu, RollbackInv, Held, RollbackSteps
  <2>2. QED BY <1>2, <2>1 DEF ServesLoan, OnLoan
<1>9. CASE Persist
  <2>1. UNCHANGED <<machine, mem>> /\ pc = "persist"
    BY <1>9 DEF Persist
  <2>2. ~mem.active => machine = baseline
    BY <1>1, <2>1 DEF RollbackInv, RollbackReady
  <2>3. QED BY <1>2, <2>1, <2>2 DEF ServesLoan, OnLoan
<1>10. CASE RollbackClear
  <2>1. UNCHANGED machine /\ machine = baseline
    BY <1>1, <1>10 DEF RollbackClear, RollbackInv, Progress
  <2>2. QED BY <1>2, <2>1 DEF ServesLoan
<1>11. CASE Crash
  <2>1. UNCHANGED <<machine, file>> /\ pc # "down"
        /\ ~(mem.active /\ pc # "helper" /\ file # mem)
    BY <1>11 DEF Crash, Lose
  <2>2. ~file.active => machine = baseline
    BY <1>1, <2>1 DEF RollbackInv, RollbackReady, Progress
  <2>3. QED BY <1>2, <2>1, <2>2 DEF ServesLoan, OnLoan
<1>12. QED
  BY <1>3, <1>4, <1>5, <1>6, <1>7, <1>8, <1>9, <1>10, <1>11
     DEF Next, DaemonStep, Environment, LoopTop, PollReturns, Accept, PushBoost, Exit,
         Send, Signal, Tick

LEMMA ContractStep ==
  TypeOK /\ TypeOK' /\ RollbackInv /\ [Next]_vars => [Contract!CNext]_(Contract!cvars)
<1> SUFFICES ASSUME TypeOK, TypeOK', RollbackInv, [Next]_vars
             PROVE  [Contract!CNext]_(Contract!cvars)
  OBVIOUS
<1>1. CASE UNCHANGED vars
  BY <1>1 DEF vars, Contract!cvars
<1>2. CASE lost' # {}
  BY <1>2 DEF Contract!CNext, Contract!Accident
<1>3. CASE lost' = {} /\ UserChange
  <2>1. lost = {} /\ ~mem.active /\ ~file.active /\ UNCHANGED <<mem, file>>
    BY <1>3 DEF UserChange, Lose
  <2>2. machine = baseline
    BY <2>1 DEF RollbackInv, RollbackReady
  <2>3. machine' = baseline' /\ machine' \in Settings
    BY <1>3, <2>2 DEF UserChange, TypeOK
  <2>4. Contract!Choose
    BY <1>3, <2>1, <2>3 DEF Contract!Choose
  <2>5. QED BY <2>4 DEF Contract!CNext
<1>4. CASE lost' = {} /\ ~UserChange /\ Next
  <2>1. ServesLoan /\ lost = {}
    BY <1>4, ServesLoanNext, LostGrows
  <2>2. CASE OnLoan /\ OnLoan'
    BY <1>4, <2>1, <2>2 DEF ServesLoan, OnLoan, TypeOK, Contract!CNext, Contract!Override
  <2>3. CASE OnLoan /\ ~OnLoan'
    BY <1>4, <2>1, <2>3 DEF ServesLoan, OnLoan, Contract!CNext, Contract!GiveBack
  <2>4. CASE ~OnLoan /\ OnLoan'
    BY <1>4, <2>1, <2>4 DEF ServesLoan, OnLoan, Contract!CNext, Contract!Borrow
  <2>5. CASE ~OnLoan /\ ~OnLoan'
    BY <1>4, <2>1, <2>5 DEF ServesLoan, OnLoan, Contract!cvars
  <2>6. QED BY <2>2, <2>3, <2>4, <2>5
<1>5. QED BY <1>1, <1>2, <1>3, <1>4

(* The daemon keeps the promise of BorrowedSettings: settings on loan come  *)
(* back as the user chose them before the loan is forgotten, and the user's *)
(* choice is never rewritten, unless an accident was named.                 *)
THEOREM Implements == Spec => KeepsContract
<1>1. Init => Contract!CInit
  BY DEF Init, Contract!CInit, Inactive
<1>2. TypeOK /\ TypeOK' /\ RollbackInv /\ [Next]_vars => [Contract!CNext]_(Contract!cvars)
  BY ContractStep
<1>3. Spec => Contract!CSpec
  BY <1>1, <1>2, TypeCorrect, RollbackInvInit, RollbackInvNext, PTL DEF Spec, Contract!CSpec
<1>4. QED BY <1>3 DEF KeepsContract

----------------------------------------------------------------------------
(* What is on disk when the daemon goes to sleep                            *)

Persisted ==
  /\ ~mem.active => mem = Inactive
  /\ "write" \notin Faults /\ pc \in {"loop", "poll", "accept"} => file = mem

LEMMA PersistedStep == Held /\ TypeOK /\ Persisted /\ [Next]_vars => Persisted'
<1> SUFFICES ASSUME Held, TypeOK, Persisted, [Next]_vars PROVE Persisted'
  OBVIOUS
<1> USE DEF Persisted
<1>1. CASE Start
  BY <1>1 DEF Start, Pending
<1>2. CASE Bind
  BY <1>2 DEF Bind, Held
<1>3. CASE LoopTop \/ PollReturns
  BY <1>3 DEF LoopTop, PollReturns, Leave, BeginRollback
<1>4. CASE Accept
  BY <1>4 DEF Accept, FirstStep
<1>5. CASE TakeSnapshot
  BY <1>5 DEF TakeSnapshot
<1>6. CASE HelperBurst
  <2>1. mem.active /\ mem'.active
    BY <1>6 DEF HelperBurst, Held, TypeOK, Snapshots
  <2>2. QED BY <1>6, <2>1 DEF HelperBurst
<1>7. CASE DirectBurst \/ PushBoost
  BY <1>7 DEF DirectBurst, PushBoost, BeginRollback
<1>8. CASE Persist
  BY <1>8 DEF Persist, WriteState
<1>9. CASE RollbackProfile \/ RollbackCpu
  BY <1>9 DEF RollbackProfile, RollbackCpu
<1>10. CASE RollbackClear
  BY <1>10 DEF RollbackClear, WriteState
<1>11. CASE Exit
  BY <1>11 DEF Exit
<1>12. ASSUME NEW r \in Requests, Send(r) PROVE Persisted'
  BY <1>12 DEF Send
<1>13. CASE Signal \/ UserChange \/ Tick
  BY <1>13 DEF Signal, UserChange, Tick
<1>14. CASE Crash
  BY <1>14 DEF Crash
<1>15. CASE UNCHANGED vars
  BY <1>15 DEF vars
<1>16. QED
  BY <1>1, <1>2, <1>3, <1>4, <1>5, <1>6, <1>7, <1>8, <1>9, <1>10, <1>11, <1>12, <1>13,
     <1>14, <1>15 DEF Next, DaemonStep, Environment

\* Unless a write failed, state.json holds the snapshot in memory whenever the daemon
\* sleeps (handle_payload and rollback persist before the loop goes on).
THEOREM StateOnDisk == Spec => []PolledStateIsPersisted
<1>1. Init => Persisted
  BY DEF Init, Persisted
<1>2. RollbackInv => Held
  BY DEF RollbackInv
<1>3. Persisted => PolledStateIsPersisted
  BY DEF Persisted, PolledStateIsPersisted
<1>4. QED
  BY <1>1, <1>2, <1>3, PersistedStep, TypeCorrect, RollbackInvInit, RollbackInvNext, PTL
     DEF Spec

----------------------------------------------------------------------------
(* The poll timeout ends less than one shortest sleep after some deadline.  *)

WakesInTime ==
  pc = "poll" /\ mem.active => \E b \in boosts : b >= wakeIn - MinPoll + 1

LEMMA WakesInTimeStep == TypeOK /\ WakesInTime /\ [Next]_vars => WakesInTime'
<1> SUFFICES ASSUME TypeOK, WakesInTime, [Next]_vars, pc' = "poll", mem'.active
             PROVE  \E b \in boosts' : b >= wakeIn' - MinPoll + 1
  BY DEF WakesInTime
<1>1. CASE LoopTop
  <2>1. PICK b \in boosts' : b > 0 /\ wakeIn' = Clamp(b, MinPoll, MaxPoll)
    BY <1>1 DEF LoopTop, Leave, BeginRollback, Unexpired
  <2>2. Clamp(b, MinPoll, MaxPoll) <= b + MinPoll - 1
    <3>1. b \in Int
      BY TypeCorrectStep DEF TypeOK
    <3>2. QED BY <2>1, <3>1 DEF Clamp
  <2>3. b \in Int /\ wakeIn' \in Nat
    BY TypeCorrectStep DEF TypeOK
  <2>4. QED BY <2>1, <2>2, <2>3
<1>2. CASE Tick
  <2>1. pc = "poll" /\ mem.active /\ wakeIn > 0 /\ wakeIn' = wakeIn - 1
    BY <1>2 DEF Tick, CountDown
  <2>2. PICK b \in boosts : b >= wakeIn - MinPoll + 1
    BY <2>1 DEF WakesInTime
  <2>3. b \in Int /\ wakeIn \in Nat /\ b > -MinPoll
    BY <2>1, <2>2 DEF TypeOK
  <2>4. b - 1 \in boosts'
    BY <1>2, <2>2, <2>3 DEF Tick
  <2>5. QED BY <2>1, <2>2, <2>3, <2>4
<1>3. CASE ~LoopTop /\ ~Tick
  <2>1. UNCHANGED <<pc, mem, boosts, wakeIn>>
    BY <1>3 DEF Next, DaemonStep, Environment, vars, Start, Bind, PollReturns, Leave,
       BeginRollback, Accept, FirstStep, TakeSnapshot, HelperBurst, DirectBurst, PushBoost,
       Persist, RollbackProfile, RollbackCpu, RollbackClear, Exit, Send, Signal, Crash,
       UserChange, TypeOK
  <2>2. QED BY <2>1 DEF WakesInTime
<1>4. QED BY <1>1, <1>2, <1>3

\* No burst outlives its deadline by the shortest sleep while the daemon sleeps
\* (next_timeout, wait_for_event).
THEOREM EndsInTime == Spec => []NoOverstay
<1>1. Init => WakesInTime
  BY DEF Init, WakesInTime
<1>2. TypeOK /\ WakesInTime => NoOverstay
  <2> SUFFICES ASSUME TypeOK, WakesInTime, pc = "poll", mem.active
               PROVE  \E b \in boosts : b > -MinPoll
    BY DEF NoOverstay
  <2>1. PICK b \in boosts : b >= wakeIn - MinPoll + 1
    BY DEF WakesInTime
  <2>2. b \in Int /\ wakeIn \in Nat
    BY <2>1 DEF TypeOK
  <2>3. QED BY <2>1, <2>2
<1>3. QED BY <1>1, <1>2, WakesInTimeStep, TypeCorrect, PTL DEF Spec

----------------------------------------------------------------------------

\* Overlapping bursts extend one another: a rollback begins when all have expired, on
\* shutdown or in the recovery of an earlier run (prune_expired, serve).
THEOREM NeverTooEarly == Spec => NoEarlyRollback
<1>1. TypeOK /\ [Next]_vars => DueStep
  <2> SUFFICES ASSUME TypeOK, [Next]_vars, pc # "rbProfile", pc' = "rbProfile",
                      running, pc # "down"
               PROVE  \A b \in boosts : b <= 0
    BY DEF DueStep
  <2>1. LoopTop \/ PushBoost
    BY DEF Next, DaemonStep, Environment, vars, Start, Bind, PollReturns, Accept, FirstStep,
       TakeSnapshot, HelperBurst, DirectBurst, Persist, RollbackProfile, RollbackCpu,
       RollbackClear, Exit, Send, Signal, Crash, UserChange, Tick, TypeOK
  <2>2. Unexpired(boosts) = {}
    BY <2>1 DEF LoopTop, PushBoost, Unexpired
  <2>3. QED BY <2>2 DEF Unexpired, TypeOK
<1>2. QED BY <1>1, TypeCorrect, PTL DEF Spec, NoEarlyRollback

\* Both together, as the runs check them.
THEOREM OnTime == Spec => EndsOnTime
  BY EndsInTime, NeverTooEarly, PTL DEF EndsOnTime, NoEarlyRollback

----------------------------------------------------------------------------
(***************************************************************************)
(* The Python daemon.  Its types, that no run of errors strands a burst    *)
(* (ErrorsStrandNothing), and that, errors and all, it keeps the snapshot  *)
(* ready and the contract of the settings it borrows.  Most of its steps   *)
(* are steps of LatencyDaemon; those that are not move the thread only     *)
(* (ThreadMoves), but for the end of a rollback (Forgets).                 *)
(***************************************************************************)
\* The types of LatencyDaemon, and of the requests read from a connection.
PyTypeOK == TypeOK /\ lines \in Seq(Requests)

\* Handlers that differ from the Rust daemon's.
OwnSteps == PyLoopTop \/ PySelect \/ PyHandle \/ PyPersist \/ PyRollbackClear

\* Every other step is one of LatencyDaemon (daemon.rs and astrea_latencyd.py have the
\* handlers in common).
LEMMA SharedSteps ==
    ASSUME [PyNext]_pyvars, ~OwnSteps
    PROVE  [Next]_vars /\ (lines' = lines \/ lines' = <<>>)
  BY DEF PyNext, PyStep, pyvars, OwnSteps, PyRecover, PyBind, PyTakeSnapshot, PyHelperBurst,
     PyDirectBurst, PyPushBoost, PushBoost, PyRollbackProfile, PyRollbackCpu, PyExit,
     Next, DaemonStep, Environment

\* The types are kept by the loop, the reading of a connection and the errors.
LEMMA PyTypeStep == PyTypeOK /\ [PyNext]_pyvars => PyTypeOK'
  <1> SUFFICES ASSUME PyTypeOK, [PyNext]_pyvars PROVE PyTypeOK'
    OBVIOUS
  <1>0. <<>> \in Seq(Requests)
    OBVIOUS
  <1>1. CASE ~OwnSteps
    <2>1. [Next]_vars /\ lines' \in Seq(Requests)
      BY <1>0, <1>1, SharedSteps DEF PyTypeOK
    <2> QED  BY <2>1, TypeCorrectStep DEF PyTypeOK
  <1>2. CASE PyLoopTop
    <2>1. pc' \in Locations /\ ret' \in {"bind", "loop", "persist", "exit"}
      BY <1>2 DEF PyTypeOK, TypeOK, PyLoopTop, PyFinally, Leave, BeginRollback, Locations,
         RollbackSteps
    <2>2. boosts' \subseteq Int
      BY <1>2 DEF PyTypeOK, TypeOK, PyLoopTop, Unexpired
    <2>3. ASSUME NEW b \in Int PROVE Clamp(b, MinPoll, MaxPoll) \in Nat
      BY DEF Clamp
    <2>4. wakeIn' \in Nat
      BY <1>2, <2>2, <2>3 DEF PyTypeOK, TypeOK, PyLoopTop
    <2> QED  BY <1>2, <2>1, <2>2, <2>4 DEF PyTypeOK, TypeOK, PyLoopTop
  <1>3. CASE PySelect
    <2>1. ASSUME NEW n \in 1..Len(queue)
          PROVE  /\ SubSeq(queue, 1, n) \in Seq(Requests)
                 /\ SubSeq(queue, n + 1, Len(queue)) \in Seq(Requests)
      BY SubSeqProperties DEF PyTypeOK, TypeOK
    <2>2. lines' \in Seq(Requests) /\ queue' \in Seq(Requests)
      BY <1>3, <2>1 DEF PyTypeOK, TypeOK, PySelect
    <2> QED  BY <1>3, <2>2 DEF PyTypeOK, TypeOK, PySelect, Locations
  <1>4. CASE PyHandle
    <2>1. lines # <<>> => Head(lines) \in Requests /\ Tail(lines) \in Seq(Requests)
      BY DEF PyTypeOK
    <2>2. Requests \subseteq Nat
      BY DEF Requests
    <2>3. lines' \in Seq(Requests) /\ deadline' \in Nat
      BY <1>4, <2>1, <2>2 DEF PyTypeOK, TypeOK, PyHandle
    <2>4. pc' \in Locations /\ ret' \in {"bind", "loop", "persist", "exit"}
      BY <1>4 DEF PyTypeOK, TypeOK, PyHandle, PyFinally, Leave, BeginRollback, FirstStep,
         Locations, RollbackSteps
    <2> QED  BY <1>4, <2>3, <2>4 DEF PyTypeOK, TypeOK, PyHandle
  <1>5. CASE PyPersist
    BY <1>5 DEF PyTypeOK, TypeOK, PyPersist, CaughtInHandler, PyFinally, Leave, BeginRollback,
       Locations, RollbackSteps
  <1>6. CASE PyRollbackClear
    <2>1. ret \in {"bind", "loop", "persist", "exit"}
      BY DEF PyTypeOK, TypeOK
    <2>2. pc' \in {ret, "down", "exit", "accept"} /\ queue' \in {queue, <<>>}
      BY <1>6 DEF PyRollbackClear, RollbackRaises
    <2>3. pc' \in Locations
      BY <2>1, <2>2 DEF Locations
    <2>4. /\ boosts' \in {boosts, {}} /\ lines' \in {lines, <<>>}
          /\ mem' = Inactive /\ file' \in {file, Inactive}
          /\ UNCHANGED <<machine, ret, running, deadline, wakeIn, baseline, lost, budget>>
      BY <1>6 DEF PyRollbackClear
    <2> QED  BY <1>0, <2>2, <2>3, <2>4, InactiveType DEF PyTypeOK, TypeOK
  <1> QED  BY <1>1, <1>2, <1>3, <1>4, <1>5, <1>6 DEF OwnSteps

\* Every state of the Python daemon has its types (class LatencyDaemon).
THEOREM PyTypeCorrect == PySpec => []PyTypeOK
  <1>1. PyInit => PyTypeOK
    BY InactiveType DEF PyInit, Init, PyTypeOK, TypeOK, Locations, Requests, Reasons
  <1> QED  BY <1>1, PyTypeStep, PTL DEF PySpec

----------------------------------------------------------------------------
(***************************************************************************)
(* Errors strand nothing.                                                  *)
(***************************************************************************)
\* What the exceptions must keep: wherever the loop may go to sleep from, a burst is in
\* force exactly when it has a deadline; a rollback that returns to the loop found none.
Together ==
    /\ pc \in {"helper", "direct", "push"} \cup RollbackSteps => mem.active
    /\ pc \in {"loop", "poll", "accept", "persist"} => (mem.active <=> boosts # {})
    /\ pc \in {"down", "bind", "snapshot"} => ~mem.active /\ boosts = {}
    /\ pc \in RollbackSteps /\ ret # "exit" => boosts = {}
    /\ pc = "exit" => ~mem.active

\* A burst and its deadlines stay together through bursts, expiry, failed writes of
\* either file, and crashes (handle_payload, prune_expired, rollback, serve).
LEMMA TogetherStep == PyTypeOK /\ Together /\ [PyNext]_pyvars => Together'
  <1> SUFFICES ASSUME PyTypeOK, Together, [PyNext]_pyvars PROVE Together'
    OBVIOUS
  <1> USE DEF Together, RollbackSteps
  <1>1. CASE PyRecover
    BY <1>1 DEF PyRecover, Start, Pending
  <1>2. CASE PyBind
    BY <1>2 DEF PyBind, Bind
  <1>3. CASE PyLoopTop
    BY <1>3 DEF PyLoopTop, BeginRollback, PyFinally, Leave, Unexpired
  <1>4. CASE PySelect
    BY <1>4 DEF PySelect
  <1>5. CASE PyHandle
    BY <1>5 DEF PyHandle, PyFinally, Leave, BeginRollback, FirstStep
  <1>6. CASE PyTakeSnapshot
    BY <1>6 DEF PyTakeSnapshot, TakeSnapshot
  <1>7. CASE PyHelperBurst
    <2>1. mem'.active
      BY <1>7 DEF PyHelperBurst, HelperBurst, PyTypeOK, TypeOK, Snapshots
    <2> QED  BY <1>7, <2>1 DEF PyHelperBurst, HelperBurst
  <1>8. CASE PyDirectBurst
    BY <1>8 DEF PyDirectBurst, DirectBurst
  <1>9. CASE PyPushBoost
    BY <1>9 DEF PyPushBoost, BeginRollback
  <1>10. CASE PyPersist
    BY <1>10 DEF PyPersist, CaughtInHandler, PyFinally, Leave, BeginRollback
  <1>11. CASE PyRollbackProfile \/ PyRollbackCpu
    BY <1>11 DEF PyRollbackProfile, PyRollbackCpu, RollbackProfile, RollbackCpu
  <1>12. CASE PyRollbackClear
    <2>1. ~mem'.active /\ ret \in {"bind", "loop", "persist", "exit"} /\ ret' = ret
      BY <1>12 DEF PyRollbackClear, Inactive, PyTypeOK, TypeOK
    <2>2. \/ pc' = ret
          \/ pc' = "down" /\ boosts' = {}
          \/ pc' = "exit"
          \/ pc' = "accept" /\ ret = "persist"
      BY <1>12 DEF PyRollbackClear, RollbackRaises
    <2>3. boosts' \in {boosts, {}} /\ pc = "rbClear"
      BY <1>12 DEF PyRollbackClear
    <2> QED  BY <2>1, <2>2, <2>3
  <1>13. CASE PyExit
    BY <1>13 DEF PyExit, Exit
  <1>14. CASE Crash
    BY <1>14 DEF Crash, Inactive
  <1>15. ASSUME NEW r \in Requests, Send(r) PROVE Together'
    BY <1>15 DEF Send
  <1>16. CASE Signal \/ UserChange
    BY <1>16 DEF Signal, UserChange
  <1>17. CASE Tick
    <2>1. boosts' = {} <=> boosts = {}
      BY <1>17 DEF Tick
    <2> QED  BY <1>17, <2>1 DEF Tick
  <1>18. CASE UNCHANGED pyvars
    BY <1>18 DEF pyvars, vars
  <1> QED
    BY <1>1, <1>2, <1>3, <1>4, <1>5, <1>6, <1>7, <1>8, <1>9, <1>10, <1>11, <1>12, <1>13,
       <1>14, <1>15, <1>16, <1>17, <1>18 DEF PyNext, PyStep

\* The sleep ends less than one shortest sleep after some deadline (next_timeout, select).
LEMMA PyWakesInTime == PyTypeOK /\ WakesInTime /\ [PyNext]_pyvars => WakesInTime'
  <1> SUFFICES ASSUME PyTypeOK, WakesInTime, [PyNext]_pyvars, pc' = "poll", mem'.active
               PROVE  \E b \in boosts' : b >= wakeIn' - MinPoll + 1
    BY DEF WakesInTime
  <1>1. CASE PyLoopTop
    <2>1. PICK b \in boosts' : b > 0 /\ wakeIn' = Clamp(b, MinPoll, MaxPoll)
      BY <1>1 DEF PyLoopTop, PyFinally, Leave, BeginRollback, Unexpired
    <2>2. b \in Int /\ wakeIn' \in Nat
      BY PyTypeStep DEF PyTypeOK, TypeOK
    <2>3. Clamp(b, MinPoll, MaxPoll) <= b + MinPoll - 1
      BY <2>1, <2>2 DEF Clamp
    <2> QED  BY <2>1, <2>2, <2>3
  <1>2. CASE ~OwnSteps
    <2>1. [Next]_vars
      BY <1>2, SharedSteps
    <2> QED  BY <2>1, WakesInTimeStep DEF WakesInTime, PyTypeOK
  <1>3. CASE OwnSteps /\ ~PyLoopTop
    BY <1>3 DEF OwnSteps, PySelect, PyHandle, PyPersist, PyRollbackClear, CaughtInHandler,
       PyFinally, Leave, BeginRollback, FirstStep, RollbackRaises, PyTypeOK, TypeOK
  <1> QED  BY <1>1, <1>2, <1>3

\* However requests, writes of the history and of state.json, rollbacks and the daemon
\* itself fail, it never sleeps on a burst that nothing will end, nor with deadlines of
\* one already undone (serve, handle_connection, rollback).
THEOREM NothingStranded == PySpec => []ErrorsStrandNothing
  <1>1. PyInit => Together /\ WakesInTime
    BY DEF PyInit, Init, Together, WakesInTime, RollbackSteps, Inactive
  <1>2. PyTypeOK /\ Together /\ WakesInTime => ErrorsStrandNothing
    <2> SUFFICES ASSUME PyTypeOK, Together, WakesInTime, pc = "poll"
                 PROVE  /\ mem.active => boosts # {} /\ \E b \in boosts : b > -MinPoll
                        /\ ~mem.active => boosts = {}
      BY DEF ErrorsStrandNothing
    <2>1. ASSUME mem.active PROVE \E b \in boosts : b > -MinPoll
      <3>1. PICK b \in boosts : b >= wakeIn - MinPoll + 1
        BY <2>1 DEF WakesInTime
      <3>2. b \in Int /\ wakeIn \in Nat
        BY <3>1 DEF PyTypeOK, TypeOK
      <3> QED  BY <3>1, <3>2
    <2> QED  BY <2>1 DEF Together
  <1> QED  BY <1>1, <1>2, TogetherStep, PyWakesInTime, PyTypeCorrect, PTL DEF PySpec

----------------------------------------------------------------------------
(***************************************************************************)
(* The snapshot and the contract, as for LatencyDaemon.                    *)
(***************************************************************************)
\* A step that moves the thread, the deadlines and the queue only; what is begun is
\* begun with a snapshot, and the thread leaves without one.
ThreadMoves ==
    /\ UNCHANGED <<machine, mem, file, baseline, lost>>
    /\ pc \in {"loop", "poll", "accept", "persist"}
    /\ pc' \in {"loop", "poll", "accept", "snapshot", "push", "rbProfile", "exit"}
    /\ pc' \in {"push", "rbProfile"} => mem.active
    /\ pc' \in {"snapshot", "exit"} => ~mem.active

\* What is left of a rollback is to forget the snapshot, here or in the file too.
Forgets ==
    /\ UNCHANGED <<machine, baseline, lost>>
    /\ pc = "rbClear" /\ pc' \in {"bind", "loop", "persist", "exit", "accept", "down"}
    /\ mem' = Inactive /\ file' \in {file, Inactive}

\* Each step of the Python daemon is one of LatencyDaemon, a move of its thread, or the
\* end of a rollback, which may leave its file as it was and, from the recovery, the
\* daemon dead.
LEMMA OwnStepsMove ==
    ASSUME PyTypeOK, [PyNext]_pyvars PROVE [Next]_vars \/ ThreadMoves \/ Forgets
  <1>1. CASE ~OwnSteps
    BY <1>1, SharedSteps
  <1>2. CASE PyLoopTop
    BY <1>2 DEF PyLoopTop, PyFinally, Leave, BeginRollback, ThreadMoves
  <1>3. CASE PySelect
    BY <1>3 DEF PySelect, ThreadMoves
  <1>4. CASE PyHandle
    BY <1>4 DEF PyHandle, PyFinally, Leave, BeginRollback, FirstStep, ThreadMoves
  <1>5. CASE PyPersist
    <2>1. CASE file' = mem /\ pc' = "accept" /\ UNCHANGED ret
      BY <1>5, <2>1 DEF PyPersist, Persist, WriteState, Next, DaemonStep
    <2>2. CASE UNCHANGED file /\ CaughtInHandler
      BY <1>5, <2>2 DEF PyPersist, CaughtInHandler, PyFinally, Leave, BeginRollback,
         ThreadMoves
    <2> QED  BY <1>5, <2>1, <2>2 DEF PyPersist
  <1>6. CASE PyRollbackClear
    BY <1>6 DEF PyRollbackClear, RollbackRaises, Forgets, PyTypeOK, TypeOK
  <1> QED  BY <1>1, <1>2, <1>3, <1>4, <1>5, <1>6 DEF OwnSteps

\* The end of a rollback comes with the user's settings back in force.
LEMMA ForgetsKeeps == ASSUME TypeOK, RollbackInv, Forgets PROVE RollbackInv'
  <1>1. ~mem'.active /\ (UNCHANGED file \/ ~file'.active)
    BY DEF Forgets, Inactive
  <1>2. Held'
    BY <1>1 DEF Forgets, Held, RollbackSteps
  <1>3. lost = {} => machine = baseline /\ (file.active => OfBaseline(file))
    BY DEF Forgets, RollbackInv, Faithful, Progress
  <1>4. lost = {} /\ file.active => Restored(machine, file) = baseline
    BY <1>3, BaselineStays DEF TypeOK
  <1>5. (lost = {} => Faithful /\ Progress)'
    BY <1>1, <1>3 DEF Forgets, Faithful, Progress, OfBaseline
  <1>6. RollbackReady'
    BY <1>1, <1>3, <1>4 DEF Forgets, RollbackReady, Restored, RestoredProfile, RestoredCpu
  <1> QED  BY <1>2, <1>5, <1>6 DEF RollbackInv

\* The invariant of LatencyDaemon is one of the Python daemon too.
LEMMA PyRollbackInvStep == PyTypeOK /\ RollbackInv /\ [PyNext]_pyvars => RollbackInv'
  <1> SUFFICES ASSUME PyTypeOK, RollbackInv, [PyNext]_pyvars PROVE RollbackInv'
    OBVIOUS
  <1>1. CASE [Next]_vars
    BY <1>1, RollbackInvNext DEF PyTypeOK
  <1>2. CASE ThreadMoves
    <2>1. Held' /\ Progress'
      BY <1>2 DEF ThreadMoves, Held, Progress, RollbackSteps
    <2> QED  BY <1>2, <2>1, RollbackInvMoves DEF ThreadMoves, PyTypeOK
  <1>3. CASE Forgets
    BY <1>3, ForgetsKeeps DEF PyTypeOK
  <1> QED  BY <1>1, <1>2, <1>3, OwnStepsMove

LEMMA PyStartsReady == PyInit => RollbackInv
  BY RollbackInvInit DEF PyInit

\* Failed writes and exceptions, which the Rust daemon ignores and this one does not, never
\* cost the snapshot: unless an accident was named, memory, or state.json for a dead
\* daemon, restores what the user chose (rollback, handle_payload, serve).
THEOREM PyRollbackReady == PySpec => []RollbackReady
  <1>1. RollbackInv => RollbackReady
    BY DEF RollbackInv
  <1> QED  BY <1>1, PyStartsReady, PyRollbackInvStep, PyTypeCorrect, PTL DEF PySpec

\* Both daemons implement one contract: settings on loan come back as the user chose them
\* before the loan is forgotten (BorrowedSettings), so either may serve the socket.
THEOREM PyImplements == PySpec => KeepsContract
  <1>1. PyInit => Contract!CInit
    BY DEF PyInit, Init, Contract!CInit, Inactive
  <1>2. PyTypeOK /\ PyTypeOK' /\ RollbackInv /\ [PyNext]_pyvars
          => [Contract!CNext]_(Contract!cvars)
    <2> SUFFICES ASSUME PyTypeOK, PyTypeOK', RollbackInv, [PyNext]_pyvars
                 PROVE  [Contract!CNext]_(Contract!cvars)
      OBVIOUS
    <2>1. CASE [Next]_vars
      BY <2>1, ContractStep DEF PyTypeOK
    <2>2. CASE ThreadMoves
      BY <2>2 DEF ThreadMoves, Contract!cvars
    <2>3. CASE Forgets
      <3>1. mem.active /\ ~mem'.active /\ UNCHANGED <<machine, baseline, lost>>
            /\ (lost = {} => machine = baseline)
        BY <2>3 DEF Forgets, Inactive, RollbackInv, Held, Progress, RollbackSteps
      <3>2. CASE file'.active
        <4>1. file' = file
          BY <2>3, <3>2 DEF Forgets, Inactive
        <4> QED  BY <3>1, <3>2, <4>1 DEF Contract!cvars, PyTypeOK, TypeOK, Snapshots
      <3>3. CASE ~file'.active /\ lost = {}
        BY <3>1, <3>3 DEF Contract!CNext, Contract!GiveBack
      <3>4. CASE lost # {}
        BY <3>1, <3>4 DEF Contract!CNext, Contract!Accident
      <3> QED  BY <3>2, <3>3, <3>4
    <2> QED  BY <2>1, <2>2, <2>3, OwnStepsMove
  <1>3. PySpec => Contract!CSpec
    BY <1>1, <1>2, PyStartsReady, PyRollbackInvStep, PyTypeCorrect, PTL
       DEF PySpec, Contract!CSpec
  <1> QED  BY <1>3 DEF KeepsContract
=============================================================================

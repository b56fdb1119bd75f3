---------------------------- MODULE Calls_proofs ----------------------------
(***************************************************************************)
(* Proofs about the two services that answer calls: the launch service,    *)
(* for every number of clients, every history limit and every number of    *)
(* crashes, and the file chooser portal, for any number of callers, any    *)
(* deadline, any number of last polls and of failures.                     *)
(***************************************************************************)
EXTENDS LaunchService, PortalDialog, TLAPS

(***************************************************************************)
(* The launch service.                                                     *)
(***************************************************************************)
USE LaunchAssumption

----------------------------------------------------------------------------
(* Types *)

LEMMA KeptType ==
  ASSUME NEW S, NEW s \in Seq(S)
  PROVE  Kept(s) \in Seq(S) /\ Len(Kept(s)) <= Limit
<1>1. CASE Len(s) <= Limit
  BY <1>1 DEF Kept, LastOf
<1>2. CASE Len(s) > Limit
  <2>1. /\ Len(s) - Limit + 1 \in 1..(Len(s) + 1)
        /\ Kept(s) = SubSeq(s, Len(s) - Limit + 1, Len(s))
    BY <1>2 DEF Kept, LastOf
  <2>2. Kept(s) \in Seq(S)
    BY <2>1
  <2>3. Len(Kept(s)) = Len(s) - (Len(s) - Limit + 1) + 1
    BY <1>2, <2>1
  <2>4. QED BY <2>2, <2>3
<1>3. QED BY <1>1, <1>2

LEMMA OverwriteType ==
  ASSUME NEW S, NEW old \in Seq(S), NEW text \in Seq(S)
  PROVE  Overwrite(old, text) \in Seq(S)
<1> DEFINE n == IF Len(old) > Len(text) THEN Len(old) ELSE Len(text)
<1>1. n \in Nat
  OBVIOUS
<1>2. \A i \in 1..n : (IF i <= Len(text) THEN text[i] ELSE old[i]) \in S
  OBVIOUS
<1>3. Overwrite(old, text) \in [1..n -> S]
  BY <1>2 DEF Overwrite
<1>4. QED BY <1>1, <1>3

LEMMA GoToType ==
  ASSUME NEW c \in Clients, NEW s \in Working \cup {"none"},
         step \in [Clients -> Working \cup {"none"}], GoTo(c, s)
  PROVE  step' \in [Clients -> Working \cup {"none"}]
BY DEF GoTo

LEMMA TypeCorrectStep == TypeOK /\ [Next]_vars => TypeOK'
<1> SUFFICES ASSUME TypeOK, [Next]_vars PROVE TypeOK'
  OBVIOUS
<1> USE DEF TypeOK
<1>1. ASSUME NEW c \in Clients, Request(c) PROVE TypeOK'
  BY <1>1, GoToType DEF Request, Working
<1>2. ASSUME NEW c \in Clients, RequestFailed(c) PROVE TypeOK'
  BY <1>2 DEF RequestFailed, GiveUp, Answers
<1>3. ASSUME NEW c \in Clients, Resolve(c) PROVE TypeOK'
  BY <1>3, GoToType DEF Resolve, Working
<1>4. ASSUME NEW c \in Clients, Boost(c) PROVE TypeOK'
  BY <1>4, GoToType DEF Boost, Working
<1>5. ASSUME NEW c \in Clients, Spawn(c) PROVE TypeOK'
  <2>1. CASE Started(c)
    <3>1. step' \in [Clients -> Working \cup {"none"}]
      BY <2>1, GoToType DEF Started, Working
    <3>2. result' \in [Clients -> Answers] /\ started' \in [Clients -> Nat]
      BY <2>1 DEF Started, Answers
    <3>3. QED BY <1>5, <3>1, <3>2 DEF Spawn
  <2>2. CASE GoTo(c, "direct") /\ UNCHANGED <<started, result>>
    BY <1>5, <2>2, GoToType DEF Spawn, Working
  <2>3. QED BY <1>5, <2>1, <2>2 DEF Spawn, SystemdSpawn
<1>6. ASSUME NEW c \in Clients, SpawnDirect(c) PROVE TypeOK'
  <2>1. CASE Started(c)
    <3>1. step' \in [Clients -> Working \cup {"none"}]
      BY <2>1, GoToType DEF Started, Working
    <3>2. result' \in [Clients -> Answers] /\ started' \in [Clients -> Nat]
      BY <2>1 DEF Started, Answers
    <3>3. QED BY <1>6, <3>1, <3>2 DEF SpawnDirect
  <2>2. CASE SpawnFailed(c)
    <3>1. step' \in [Clients -> Working \cup {"none"}]
      BY <2>2, GoToType DEF SpawnFailed, Working
    <3>2. result' \in [Clients -> Answers] /\ UNCHANGED started
      BY <2>2 DEF SpawnFailed, Answers
    <3>3. QED BY <1>6, <3>1, <3>2 DEF SpawnDirect
  <2>3. QED BY <1>6, <2>1, <2>2 DEF SpawnDirect
<1>7. ASSUME NEW c \in Clients, PidBoost(c) PROVE TypeOK'
  BY <1>7, GoToType DEF PidBoost, Working
<1>8. ASSUME NEW c \in Clients, AppendHistory(c) PROVE TypeOK'
  BY <1>8, GoToType DEF AppendHistory, Working
<1>9. ASSUME NEW c \in Clients, TrimHistory(c) PROVE TypeOK'
  <2>1. Kept(history) \in Seq(Clients) /\ Len(Kept(history)) <= Limit
    BY KeptType
  <2>2. step' \in [Clients -> Working \cup {"none"}]
    BY <1>9, GoToType DEF TrimHistory, Working
  <2>3. keep' \in [Clients -> Seq(Clients)] /\ \A k \in Clients : Len(keep'[k]) <= Limit
    BY <1>9, <2>1 DEF TrimHistory
  <2>4. QED BY <1>9, <2>2, <2>3 DEF TrimHistory
<1>10. ASSUME NEW c \in Clients, Truncate(c) PROVE TypeOK'
  BY <1>10, GoToType DEF Truncate, Working
<1>11. ASSUME NEW c \in Clients, Fill(c) PROVE TypeOK'
  <2>1. history' \in Seq(Clients)
    BY <1>11, OverwriteType DEF Fill
  <2>2. step' \in [Clients -> Working \cup {"none"}]
    BY <1>11, GoToType DEF Fill, Working
  <2>3. keep' \in [Clients -> Seq(Clients)] /\ \A k \in Clients : Len(keep'[k]) <= Limit
    BY <1>11 DEF Fill
  <2>4. QED BY <1>11, <2>1, <2>2, <2>3 DEF Fill
<1>12. ASSUME NEW c \in Clients, Reply(c) PROVE TypeOK'
  BY <1>12, GoToType DEF Reply, Answers
<1>13. CASE Crash
  <2>1. step' \in [Clients -> Working \cup {"none"}]
    BY <1>13 DEF Crash
  <2>2. keep' \in [Clients -> Seq(Clients)] /\ \A k \in Clients : Len(keep'[k]) <= Limit
    <3>1. keep' = [k \in Clients |-> IF k \in inDaemon THEN <<>> ELSE keep[k]]
      BY <1>13 DEF Crash
    <3>2. QED BY <3>1
  <2>3. QED BY <1>13, <2>1, <2>2 DEF Crash
<1>14. CASE Restart
  BY <1>14 DEF Restart
<1>15. CASE UNCHANGED vars
  BY <1>15 DEF vars
<1>16. QED
  BY <1>1, <1>2, <1>3, <1>4, <1>5, <1>6, <1>7, <1>8, <1>9, <1>10, <1>11, <1>12,
     <1>13, <1>14, <1>15 DEF Next, RunLaunch

\* The state of clients, runs and the history file keeps its types (run_launch,
\* trim_history): what a run is about to write back never exceeds the limit.
THEOREM TypeCorrect == Spec => []TypeOK
<1>1. Init => TypeOK
  BY DEF Init, TypeOK, Answers
<1>2. QED BY <1>1, TypeCorrectStep, PTL DEF Spec

----------------------------------------------------------------------------
(* One start for each request.  What makes it inductive is where in run_launch  *)
(* the application cannot have been started yet, and that a client asks once.   *)

NotStartedYet == {"resolve", "boost", "spawn", "direct"}

StartInv ==
  \A c \in Clients :
    /\ client[c] = "idle" => step[c] = "none"
    /\ client[c] = "idle" \/ step[c] \in NotStartedYet => started[c] = 0
    /\ started[c] \in {0, 1}
    /\ step[c] \in {"spawn", "direct"} \/ started[c] = 1 => c \in bursts
    /\ result[c] = "ok" \/ client[c] = "ok" => started[c] = 1

LEMMA StartInvStep == TypeOK /\ StartInv /\ [Next]_vars => StartInv'
<1> SUFFICES ASSUME TypeOK, StartInv, [Next]_vars PROVE StartInv'
  OBVIOUS
<1>0. /\ client \in [Clients -> {"idle", "waiting", "local"} \cup Answers]
      /\ step \in [Clients -> Working \cup {"none"}]
      /\ result \in [Clients -> Answers]
      /\ started \in [Clients -> Nat]
  BY DEF TypeOK
<1> USE <1>0 DEF StartInv, NotStartedYet
<1>1. ASSUME NEW c \in Clients, Request(c) PROVE StartInv'
  BY <1>1 DEF Request, GoTo
<1>2. ASSUME NEW c \in Clients, RequestFailed(c) PROVE StartInv'
  BY <1>2 DEF RequestFailed, GiveUp
<1>3. ASSUME NEW c \in Clients, Resolve(c) PROVE StartInv'
  BY <1>3 DEF Resolve, GoTo, At
<1>4. ASSUME NEW c \in Clients, Boost(c) PROVE StartInv'
  BY <1>4 DEF Boost, GoTo, At
<1>5. ASSUME NEW c \in Clients, Spawn(c) PROVE StartInv'
  <2>1. CASE Started(c)
    <3>1. started[c] = 0 /\ c \in bursts
      BY <1>5 DEF Spawn, At
    <3>2. \A k \in Clients :
            /\ started'[k] = IF k = c THEN 1 ELSE started[k]
            /\ result'[k] = IF k = c THEN "ok" ELSE result[k]
            /\ step'[k] = IF k = c THEN "pid-boost" ELSE step[k]
      BY <2>1, <3>1 DEF Started, GoTo
    <3>3. UNCHANGED <<client, bursts>> /\ client[c] # "idle"
      BY <1>5, <2>1 DEF Spawn, At
    <3>4. QED BY <3>1, <3>2, <3>3
  <2>2. CASE GoTo(c, "direct") /\ UNCHANGED <<started, result>>
    BY <1>5, <2>2 DEF Spawn, GoTo, At
  <2>3. QED BY <1>5, <2>1, <2>2 DEF Spawn, SystemdSpawn
<1>6. ASSUME NEW c \in Clients, SpawnDirect(c) PROVE StartInv'
  <2>1. CASE Started(c)
    <3>1. started[c] = 0 /\ c \in bursts
      BY <1>6 DEF SpawnDirect, At
    <3>2. \A k \in Clients :
            /\ started'[k] = IF k = c THEN 1 ELSE started[k]
            /\ result'[k] = IF k = c THEN "ok" ELSE result[k]
            /\ step'[k] = IF k = c THEN "pid-boost" ELSE step[k]
      BY <2>1, <3>1 DEF Started, GoTo
    <3>3. UNCHANGED <<client, bursts>> /\ client[c] # "idle"
      BY <1>6, <2>1 DEF SpawnDirect, At
    <3>4. QED BY <3>1, <3>2, <3>3
  <2>2. CASE SpawnFailed(c)
    BY <1>6, <2>2 DEF SpawnDirect, SpawnFailed, GoTo, At
  <2>3. QED BY <1>6, <2>1, <2>2 DEF SpawnDirect
<1>7. ASSUME NEW c \in Clients, PidBoost(c) PROVE StartInv'
  BY <1>7 DEF PidBoost, GoTo, At
<1>8. ASSUME NEW c \in Clients, AppendHistory(c) PROVE StartInv'
  BY <1>8 DEF AppendHistory, GoTo, At
<1>9. ASSUME NEW c \in Clients, TrimHistory(c) PROVE StartInv'
  BY <1>9 DEF TrimHistory, GoTo, At
<1>10. ASSUME NEW c \in Clients, Truncate(c) PROVE StartInv'
  BY <1>10 DEF Truncate, GoTo, At
<1>11. ASSUME NEW c \in Clients, Fill(c) PROVE StartInv'
  BY <1>11 DEF Fill, GoTo, At
<1>12. ASSUME NEW c \in Clients, Reply(c) PROVE StartInv'
  <2>1. \A k \in Clients : client'[k] = client[k] \/ (client'[k] = result[k] /\ client'[k] # "idle")
    BY <1>12 DEF Reply, Answers
  <2>2. \A k \in Clients : step'[k] = step[k] \/ step'[k] = "none"
    BY <1>12 DEF Reply, GoTo
  <2>3. UNCHANGED <<started, bursts, result>>
    BY <1>12 DEF Reply
  <2>4. QED BY <2>1, <2>2, <2>3
<1>13. CASE Crash
  BY <1>13 DEF Crash
<1>14. CASE Restart
  BY <1>14 DEF Restart
<1>15. CASE UNCHANGED vars
  BY <1>15 DEF vars
<1>16. QED
  BY <1>1, <1>2, <1>3, <1>4, <1>5, <1>6, <1>7, <1>8, <1>9, <1>10, <1>11, <1>12,
     <1>13, <1>14, <1>15 DEF Next, RunLaunch

LEMMA StartInvariant == Spec => []StartInv
<1>1. Init => StartInv
  BY DEF Init, StartInv, NotStartedYet
<1>2. QED BY <1>1, StartInvStep, TypeCorrect, PTL DEF Spec

\* No request starts its application twice, whatever times out, fails or crashes
\* (run_launch_via_daemon, spawn_command_with).
THEOREM NeverStartedTwice == Spec => []StartedOnce
<1>1. StartInv => StartedOnce
  BY DEF StartInv, StartedOnce
<1>2. QED BY <1>1, StartInvariant, PTL

\* An "ok" is never given for an application that was not started.
THEOREM OkIsTrue == Spec => []OkMeansStarted
<1>1. StartInv => OkMeansStarted
  BY DEF StartInv, OkMeansStarted
<1>2. QED BY <1>1, StartInvariant, PTL

\* The burst precedes the start on every path through run_launch.
THEOREM BurstComesFirst == Spec => []BurstBeforeStart
<1>1. StartInv => BurstBeforeStart
  BY DEF StartInv, BurstBeforeStart
<1>2. QED BY <1>1, StartInvariant, PTL

----------------------------------------------------------------------------
(* The length of the history.  A file that is too long has a run that will   *)
(* still shorten it: one that has yet to look, or one about to truncate.     *)

Shortening == {"trim", "truncate"}

HistoryInv ==
  Limit > 0 /\ crashes = 0 /\ Len(history) > Limit => \E c \in Clients : step[c] \in Shortening

\* Writing back never makes the file longer than both it and the text were.
LEMMA OverwriteLength ==
  ASSUME NEW S, NEW old \in Seq(S), NEW text \in Seq(S)
  PROVE  Len(Overwrite(old, text)) = IF Len(old) > Len(text) THEN Len(old) ELSE Len(text)
<1> DEFINE n == IF Len(old) > Len(text) THEN Len(old) ELSE Len(text)
<1>1. n \in Nat /\ DOMAIN Overwrite(old, text) = 1..n
  BY DEF Overwrite
<1>2. Overwrite(old, text) \in Seq(S)
  BY OverwriteType
<1>3. QED BY <1>1, <1>2

\* A run that is shortening the file goes on, whatever another does.
LEMMA OthersGoOn ==
  ASSUME NEW c \in Clients, NEW s, GoTo(c, s), step \in [Clients -> Working \cup {"none"}],
         step[c] \notin Shortening, \E d \in Clients : step[d] \in Shortening
  PROVE  \E d \in Clients : step'[d] \in Shortening
BY DEF GoTo

LEMMA HistoryInvStep == TypeOK /\ StartInv /\ HistoryInv /\ [Next]_vars => HistoryInv'
<1> SUFFICES ASSUME TypeOK, StartInv, HistoryInv, [Next]_vars,
                    Limit > 0, crashes' = 0, Len(history') > Limit
             PROVE  \E d \in Clients : step'[d] \in Shortening
  BY DEF HistoryInv
<1> DEFINE Goal == \E d \in Clients : step'[d] \in Shortening
<1>0. /\ step \in [Clients -> Working \cup {"none"}]
      /\ keep \in [Clients -> Seq(Clients)] /\ \A c \in Clients : Len(keep[c]) <= Limit
      /\ history \in Seq(Clients) /\ crashes \in Nat
  BY DEF TypeOK
<1>a. ASSUME NEW c \in Clients, NEW s, GoTo(c, s), step[c] \notin Shortening,
             UNCHANGED <<history, crashes>>
      PROVE  Goal
  BY <1>0, <1>a, OthersGoOn DEF HistoryInv
<1>1. ASSUME NEW c \in Clients, Request(c) PROVE Goal
  BY <1>a, <1>1 DEF Request, StartInv, Shortening
<1>2. ASSUME NEW c \in Clients, RequestFailed(c) PROVE Goal
  BY <1>2 DEF RequestFailed, GiveUp, HistoryInv
<1>3. ASSUME NEW c \in Clients, Resolve(c) PROVE Goal
  BY <1>a, <1>3 DEF Resolve, At, Shortening
<1>4. ASSUME NEW c \in Clients, Boost(c) PROVE Goal
  BY <1>a, <1>4 DEF Boost, At, Shortening
<1>5. ASSUME NEW c \in Clients, Spawn(c) PROVE Goal
  BY <1>a, <1>5 DEF Spawn, SystemdSpawn, Started, At, Shortening
<1>6. ASSUME NEW c \in Clients, SpawnDirect(c) PROVE Goal
  BY <1>a, <1>6 DEF SpawnDirect, SpawnFailed, Started, At, Shortening
<1>7. ASSUME NEW c \in Clients, PidBoost(c) PROVE Goal
  BY <1>a, <1>7 DEF PidBoost, At, Shortening
<1>8. ASSUME NEW c \in Clients, AppendHistory(c) PROVE Goal
  BY <1>0, <1>8 DEF AppendHistory, GoTo, Shortening
<1>9. ASSUME NEW c \in Clients, TrimHistory(c) PROVE Goal
  <2>1. TooLong(history)
    BY <1>9 DEF TrimHistory, TooLong
  <2>2. QED BY <1>0, <1>9, <2>1 DEF TrimHistory, GoTo, Shortening
<1>10. ASSUME NEW c \in Clients, Truncate(c) PROVE Goal
  BY <1>10 DEF Truncate
<1>11. ASSUME NEW c \in Clients, Fill(c) PROVE Goal
  <2>1. history' = Overwrite(history, keep[c]) /\ crashes' = crashes /\ GoTo(c, "reply")
        /\ step[c] \notin Shortening
    BY <1>11 DEF Fill, At, Shortening
  <2>2. Len(history) > Limit
    BY <1>0, <2>1, OverwriteLength
  <2>3. QED BY <1>0, <2>1, <2>2, OthersGoOn DEF HistoryInv
<1>12. ASSUME NEW c \in Clients, Reply(c) PROVE Goal
  BY <1>a, <1>12 DEF Reply, At, Shortening
<1>13. CASE Crash
  BY <1>0, <1>13 DEF Crash
<1>14. CASE Restart
  BY <1>14 DEF Restart, HistoryInv
<1>15. CASE UNCHANGED vars
  BY <1>15 DEF vars, HistoryInv
<1>16. QED
  BY <1>1, <1>2, <1>3, <1>4, <1>5, <1>6, <1>7, <1>8, <1>9, <1>10, <1>11, <1>12,
     <1>13, <1>14, <1>15 DEF Next, RunLaunch

\* For any number of overlapping runs and any limit: when all have ended without a crash,
\* the history is within its limit, although none of them holds a lock while it reads the
\* file, truncates it and fills it again (append_history, trim_history).
THEOREM HistoryStaysBounded == Spec => []HistoryBounded
<1>1. Init => HistoryInv
  BY DEF Init, HistoryInv
<1>2. TypeOK /\ HistoryInv => HistoryBounded
  BY DEF TypeOK, HistoryInv, HistoryBounded, Quiet, Shortening
<1>3. QED BY <1>1, <1>2, HistoryInvStep, TypeCorrect, StartInvariant, PTL DEF Spec

\* The four together, as the run checks them.
THEOREM LaunchesAreRight == Spec => []LaunchesAreSound
<1>1. StartedOnce /\ OkMeansStarted /\ BurstBeforeStart /\ HistoryBounded => LaunchesAreSound
  BY DEF LaunchesAreSound
<1>2. QED BY <1>1, NeverStartedTwice, OkIsTrue, BurstComesFirst, HistoryStaysBounded, PTL

(***************************************************************************)
(* The file chooser portal.                                                *)
(***************************************************************************)
USE PortalAssumption

Polling == {"read", "drain", "wait", "sleep"}

\* What the portal's place in its loop says about the call and the polls left
LoopInv ==
  /\ pc = "idle" <=> serving = Nobody
  /\ serving # Nobody => call[serving] = "waiting"
  /\ pc \in Polling => left > 0
  /\ pc \in Polling /\ dialog \in Running => fate[serving] = Nothing
  /\ pc = "final" => dialog \notin Running
  /\ \A c \in Callers : c # serving /\ call[c] \in {"idle", "waiting"} => fate[c] = Nothing

\* What has been handed over is what was chosen
HandedOver ==
  /\ {file, line, logged, selection} \subseteq {choice, Nothing}
  /\ pc = "idle" => selection = Nothing
  /\ dialog = "open" => choice = Nothing
  /\ dialog \in {"writing", "written"} => choice # Nothing

\* An answer without a selection has a cause
Caused ==
  /\ serving # Nobody /\ dialog \notin Running /\ logged = Nothing => fate[serving] # Nothing
  /\ pc = "final" /\ left = 0 => logged = Nothing
  /\ pc = "terminate" /\ selection = Nothing => fate[serving] # Nothing

PortalInv == PortalTypeOK /\ LoopInv /\ HandedOver /\ Caused /\ NoDialogLeftBehind

LEMMA PortalTypeStep == PortalInv /\ [PortalNext]_allVars => PortalTypeOK'
<1> SUFFICES ASSUME PortalInv, [PortalNext]_allVars PROVE PortalTypeOK'
  BY DEF PortalInv
<1>0. PortalTypeOK /\ LoopInv /\ HandedOver /\ Caused /\ NoDialogLeftBehind
  BY DEF PortalInv
<1> USE DEF PortalTypeOK, LoopInv, Choices, DialogAnswers, Running, Nothing, Nobody, Polling
<1>1. ASSUME NEW c \in Callers, Call(c) PROVE PortalTypeOK'
  BY <1>0, <1>1 DEF Call, dialogVars
<1>2. ASSUME NEW c \in Callers, Serve(c) PROVE PortalTypeOK'
  BY <1>0, <1>2 DEF Serve, Fails, NewResults, dialogVars
<1>3. CASE LeaveDialog /\ pc \in {"read", "drain", "wait", "final"}
  BY <1>0, <1>3 DEF LeaveDialog, Fails, Fated, Answer, dialogVars
<1>4. CASE ReadFile
  BY <1>0, <1>4 DEF ReadFile, Found, dialogVars
<1>5. CASE DrainOutput
  BY <1>0, <1>5 DEF DrainOutput, Found, dialogVars
<1>6. CASE TryWait
  BY <1>0, <1>6 DEF TryWait, LastPollsToo, dialogVars
<1>7. CASE Wake
  BY <1>0, <1>7 DEF Wake, OnePollLess, Fated, dialogVars
<1>8. CASE FinalPoll
  BY <1>0, <1>8 DEF FinalPoll, Found, dialogVars
<1>9. CASE Terminate
  BY <1>0, <1>9 DEF Terminate, Kill, Answer
<1>10. CASE Choose
  BY <1>0, <1>10 DEF Choose, portalVars
<1>11. CASE Write
  BY <1>0, <1>11 DEF Write, Fails, portalVars
<1>12. CASE Quit
  BY <1>0, <1>12 DEF Quit, portalVars
<1>13. CASE Forward
  BY <1>0, <1>13 DEF Forward, portalVars, dialogVars
<1>14. CASE Die
  BY <1>0, <1>14 DEF Die, Fails, Fated, portalVars
<1>15. CASE UNCHANGED allVars
  BY <1>0, <1>15 DEF allVars, portalVars, dialogVars
<1>16. QED
  BY <1>1, <1>2, <1>3, <1>4, <1>5, <1>6, <1>7, <1>8, <1>9, <1>10, <1>11, <1>12, <1>13, <1>14, <1>15
     DEF PortalNext, Portal

LEMMA LoopInvStep == PortalInv /\ [PortalNext]_allVars => LoopInv'
<1> SUFFICES ASSUME PortalInv, [PortalNext]_allVars PROVE LoopInv'
  BY DEF PortalInv
<1>0. PortalTypeOK /\ LoopInv /\ HandedOver /\ Caused /\ NoDialogLeftBehind
  BY DEF PortalInv
<1> USE DEF PortalTypeOK, LoopInv, Choices, DialogAnswers, Running, Nothing, Nobody, Polling
<1>1. ASSUME NEW c \in Callers, Call(c) PROVE LoopInv'
  BY <1>0, <1>1 DEF Call, dialogVars
<1>2. ASSUME NEW c \in Callers, Serve(c) PROVE LoopInv'
  BY <1>0, <1>2 DEF Serve, Fails, NewResults, dialogVars
<1>3. CASE LeaveDialog /\ pc \in {"read", "drain", "wait", "final"}
  BY <1>0, <1>3 DEF LeaveDialog, Fails, Fated, Answer, dialogVars
<1>4. CASE ReadFile
  BY <1>0, <1>4 DEF ReadFile, Found, dialogVars
<1>5. CASE DrainOutput
  BY <1>0, <1>5 DEF DrainOutput, Found, dialogVars
<1>6. CASE TryWait
  BY <1>0, <1>6 DEF TryWait, LastPollsToo, dialogVars
<1>7. CASE Wake
  BY <1>0, <1>7 DEF Wake, OnePollLess, Fated, dialogVars
<1>8. CASE FinalPoll
  BY <1>0, <1>8 DEF FinalPoll, Found, dialogVars
<1>9. CASE Terminate
  BY <1>0, <1>9 DEF Terminate, Kill, Answer
<1>10. CASE Choose
  BY <1>0, <1>10 DEF Choose, portalVars
<1>11. CASE Write
  BY <1>0, <1>11 DEF Write, Fails, portalVars
<1>12. CASE Quit
  BY <1>0, <1>12 DEF Quit, portalVars
<1>13. CASE Forward
  BY <1>0, <1>13 DEF Forward, portalVars, dialogVars
<1>14. CASE Die
  BY <1>0, <1>14 DEF Die, Fails, Fated, portalVars
<1>15. CASE UNCHANGED allVars
  BY <1>0, <1>15 DEF allVars, portalVars, dialogVars
<1>16. QED
  BY <1>1, <1>2, <1>3, <1>4, <1>5, <1>6, <1>7, <1>8, <1>9, <1>10, <1>11, <1>12, <1>13, <1>14, <1>15
     DEF PortalNext, Portal

LEMMA HandedOverStep == PortalInv /\ [PortalNext]_allVars => HandedOver'
<1> SUFFICES ASSUME PortalInv, [PortalNext]_allVars PROVE HandedOver'
  BY DEF PortalInv
<1>0. PortalTypeOK /\ LoopInv /\ HandedOver /\ Caused /\ NoDialogLeftBehind
  BY DEF PortalInv
<1> USE DEF HandedOver, PortalTypeOK, Choices, Nothing, Running
<1>1. ASSUME NEW c \in Callers, Call(c) PROVE HandedOver'
  BY <1>0, <1>1 DEF Call, dialogVars
<1>2. ASSUME NEW c \in Callers, Serve(c) PROVE HandedOver'
  BY <1>0, <1>2 DEF Serve, Fails, NewResults, dialogVars
<1>3. CASE LeaveDialog /\ pc \in {"read", "drain", "wait", "final"}
  BY <1>0, <1>3 DEF LeaveDialog, Fails, Fated, Answer, dialogVars
<1>4. CASE ReadFile
  BY <1>0, <1>4 DEF ReadFile, Found, dialogVars
<1>5. CASE DrainOutput
  BY <1>0, <1>5 DEF DrainOutput, Found, dialogVars
<1>6. CASE TryWait
  BY <1>0, <1>6 DEF TryWait, LastPollsToo, dialogVars
<1>7. CASE Wake
  BY <1>0, <1>7 DEF Wake, OnePollLess, Fated, dialogVars
<1>8. CASE FinalPoll
  BY <1>0, <1>8 DEF FinalPoll, Found, dialogVars
<1>9. CASE Terminate
  BY <1>0, <1>9 DEF Terminate, Kill, Answer
<1>10. CASE Choose
  BY <1>0, <1>10 DEF Choose, portalVars
<1>11. CASE Write
  BY <1>0, <1>11 DEF Write, Fails, portalVars
<1>12. CASE Quit
  BY <1>0, <1>12 DEF Quit, portalVars
<1>13. CASE Forward
  BY <1>0, <1>13 DEF Forward, portalVars, dialogVars
<1>14. CASE Die
  BY <1>0, <1>14 DEF Die, Fails, Fated, portalVars
<1>15. CASE UNCHANGED allVars
  BY <1>0, <1>15 DEF allVars, portalVars, dialogVars
<1>16. QED
  BY <1>1, <1>2, <1>3, <1>4, <1>5, <1>6, <1>7, <1>8, <1>9, <1>10, <1>11, <1>12, <1>13, <1>14, <1>15
     DEF PortalNext, Portal

LEMMA CausedStep == PortalInv /\ [PortalNext]_allVars => Caused'
<1> SUFFICES ASSUME PortalInv, [PortalNext]_allVars PROVE Caused'
  BY DEF PortalInv
<1>0. PortalTypeOK /\ LoopInv /\ HandedOver /\ Caused /\ NoDialogLeftBehind
  BY DEF PortalInv
<1> USE DEF Caused, LoopInv, HandedOver, PortalTypeOK, Choices, Running, Nothing, Nobody, Polling
<1>1. ASSUME NEW c \in Callers, Call(c) PROVE Caused'
  BY <1>0, <1>1 DEF Call, dialogVars
<1>2. ASSUME NEW c \in Callers, Serve(c) PROVE Caused'
  BY <1>0, <1>2 DEF Serve, Fails, NewResults, dialogVars
<1>3. CASE LeaveDialog /\ pc \in {"read", "drain", "wait", "final"}
  BY <1>0, <1>3 DEF LeaveDialog, Fails, Fated, Answer, dialogVars
<1>4. CASE ReadFile
  BY <1>0, <1>4 DEF ReadFile, Found, dialogVars
<1>5. CASE DrainOutput
  BY <1>0, <1>5 DEF DrainOutput, Found, dialogVars
<1>6. CASE TryWait
  BY <1>0, <1>6 DEF TryWait, LastPollsToo, dialogVars
<1>7. CASE Wake
  BY <1>0, <1>7 DEF Wake, OnePollLess, Fated, dialogVars
<1>8. CASE FinalPoll
  BY <1>0, <1>8 DEF FinalPoll, Found, dialogVars
<1>9. CASE Terminate
  BY <1>0, <1>9 DEF Terminate, Kill, Answer
<1>10. CASE Choose
  BY <1>0, <1>10 DEF Choose, portalVars
<1>11. CASE Write
  BY <1>0, <1>11 DEF Write, Fails, portalVars
<1>12. CASE Quit
  BY <1>0, <1>12 DEF Quit, portalVars
<1>13. CASE Forward
  BY <1>0, <1>13 DEF Forward, portalVars, dialogVars
<1>14. CASE Die
  BY <1>0, <1>14 DEF Die, Fails, Fated, portalVars
<1>15. CASE UNCHANGED allVars
  BY <1>0, <1>15 DEF allVars, portalVars, dialogVars
<1>16. QED
  BY <1>1, <1>2, <1>3, <1>4, <1>5, <1>6, <1>7, <1>8, <1>9, <1>10, <1>11, <1>12, <1>13, <1>14, <1>15
     DEF PortalNext, Portal

LEMMA NoDialogLeftBehindStep == PortalInv /\ [PortalNext]_allVars => NoDialogLeftBehind'
<1> SUFFICES ASSUME PortalInv, [PortalNext]_allVars PROVE NoDialogLeftBehind'
  BY DEF PortalInv
<1>0. PortalTypeOK /\ LoopInv /\ HandedOver /\ Caused /\ NoDialogLeftBehind
  BY DEF PortalInv
<1> USE DEF NoDialogLeftBehind, LoopInv, PortalTypeOK, Running, Nothing, Nobody, Polling
<1>1. ASSUME NEW c \in Callers, Call(c) PROVE NoDialogLeftBehind'
  BY <1>0, <1>1 DEF Call, dialogVars
<1>2. ASSUME NEW c \in Callers, Serve(c) PROVE NoDialogLeftBehind'
  BY <1>0, <1>2 DEF Serve, Fails, NewResults, dialogVars
<1>3. CASE LeaveDialog /\ pc \in {"read", "drain", "wait", "final"}
  BY <1>0, <1>3 DEF LeaveDialog, Fails, Fated, Answer, dialogVars
<1>4. CASE ReadFile
  BY <1>0, <1>4 DEF ReadFile, Found, dialogVars
<1>5. CASE DrainOutput
  BY <1>0, <1>5 DEF DrainOutput, Found, dialogVars
<1>6. CASE TryWait
  BY <1>0, <1>6 DEF TryWait, LastPollsToo, dialogVars
<1>7. CASE Wake
  BY <1>0, <1>7 DEF Wake, OnePollLess, Fated, dialogVars
<1>8. CASE FinalPoll
  BY <1>0, <1>8 DEF FinalPoll, Found, dialogVars
<1>9. CASE Terminate
  BY <1>0, <1>9 DEF Terminate, Kill, Answer
<1>10. CASE Choose
  BY <1>0, <1>10 DEF Choose, portalVars
<1>11. CASE Write
  BY <1>0, <1>11 DEF Write, Fails, portalVars
<1>12. CASE Quit
  BY <1>0, <1>12 DEF Quit, portalVars
<1>13. CASE Forward
  BY <1>0, <1>13 DEF Forward, portalVars, dialogVars
<1>14. CASE Die
  BY <1>0, <1>14 DEF Die, Fails, Fated, portalVars
<1>15. CASE UNCHANGED allVars
  BY <1>0, <1>15 DEF allVars, portalVars, dialogVars
<1>16. QED
  BY <1>1, <1>2, <1>3, <1>4, <1>5, <1>6, <1>7, <1>8, <1>9, <1>10, <1>11, <1>12, <1>13, <1>14, <1>15
     DEF PortalNext, Portal

LEMMA PortalInvariant == PortalSpec => []PortalInv
<1>1. PortalInit => PortalInv
  <2> SUFFICES ASSUME PortalInit PROVE PortalInv
    OBVIOUS
  <2> USE DEF PortalInit, Running, Nothing, Nobody
  <2>1. PortalTypeOK
    BY DEF PortalTypeOK
  <2>2. LoopInv
    BY DEF LoopInv, Polling
  <2>3. HandedOver
    BY DEF HandedOver
  <2>4. Caused /\ NoDialogLeftBehind
    BY DEF Caused, NoDialogLeftBehind
  <2>5. QED BY <2>1, <2>2, <2>3, <2>4 DEF PortalInv
<1>2. PortalInv /\ [PortalNext]_allVars => PortalInv'
  BY PortalTypeStep, LoopInvStep, HandedOverStep, CausedStep, NoDialogLeftBehindStep
     DEF PortalInv
<1>3. QED BY <1>1, <1>2, PTL DEF PortalSpec

----------------------------------------------------------------------------

\* The state of portal, dialog and callers is typed; no poll is counted below zero
\* (run_dialog_with_config).
THEOREM PortalTypeCorrect == PortalSpec => []PortalTypeOK
<1>1. PortalInv => PortalTypeOK
  BY DEF PortalInv
<1>2. QED BY <1>1, PortalInvariant, PTL

\* What the portal reads for a call was handed over by the dialog of that call.
THEOREM OwnResults == PortalSpec => []ResultsAreFresh
<1>1. PortalInv => ResultsAreFresh
  BY DEF PortalInv, HandedOver, ResultsAreFresh
<1>2. QED BY <1>1, PortalInvariant, PTL

\* No dialog outlives its call but after an error of a system call (terminate_child).
THEOREM DialogsGoAway == PortalSpec => []NoDialogLeftBehind
<1>1. PortalInv => NoDialogLeftBehind
  BY DEF PortalInv
<1>2. QED BY <1>1, PortalInvariant, PTL

\* A success is the choice of the caller's own dialog, and a cancellation has a cause:
\* the user, the deadline, a dialog that died or an error (final_child_result,
\* response_from_selection).
THEOREM AnswersAreTrue == PortalSpec => AnswersTheChoice
<1> DEFINE Answered ==
      \A c \in Callers :
        serving = c /\ call'[c] # call[c] =>
          \/ call'[c] = "success" /\ choice = "accepted"
          \/ call'[c] = "cancelled" /\ (choice = "rejected" \/ fate'[c] # Nothing)
<1>1. PortalInv /\ [PortalNext]_allVars => Answered
  <2> SUFFICES ASSUME PortalInv, PortalNext, NEW c \in Callers, serving = c, call'[c] # call[c]
               PROVE  \/ call'[c] = "success" /\ choice = "accepted"
                      \/ call'[c] = "cancelled" /\ (choice = "rejected" \/ fate'[c] # Nothing)
    BY DEF allVars, portalVars
  <2>1. PortalTypeOK /\ LoopInv /\ HandedOver /\ Caused
    BY DEF PortalInv
  <2>2. (LeaveDialog /\ pc # "idle") \/ Terminate
    <3>1. call[c] = "waiting" /\ pc # "idle"
      BY <2>1 DEF LoopInv, Nobody
    <3>2. ASSUME NEW b \in Callers, Call(b) \/ Serve(b) PROVE FALSE
      BY <2>1, <3>1, <3>2 DEF Call, Serve, PortalTypeOK
    <3>3. ~ReadFile /\ ~DrainOutput /\ ~TryWait /\ ~Wake /\ ~FinalPoll
      BY DEF ReadFile, DrainOutput, TryWait, Wake, FinalPoll
    <3>4. ~Choose /\ ~Write /\ ~Quit /\ ~Forward /\ ~Die
      BY DEF Choose, Write, Quit, Forward, Die, portalVars
    <3>5. QED BY <3>1, <3>2, <3>3, <3>4 DEF PortalNext, Portal
  <2>3. CASE LeaveDialog /\ pc # "idle"
    BY <2>1, <2>3 DEF LeaveDialog, Fated, Answer, PortalTypeOK, LoopInv, Nothing
  <2>4. CASE Terminate
    <3>1. selection = "accepted" => choice = "accepted"
      BY <2>1 DEF HandedOver, Nothing
    <3>2. selection # "accepted" => choice = "rejected" \/ fate[c] # Nothing
      BY <2>1, <2>4 DEF HandedOver, Caused, Terminate, PortalTypeOK, Choices, Nothing
    <3>3. /\ call'[c] = IF selection = "accepted" THEN "success" ELSE "cancelled"
          /\ fate' = fate
      BY <2>1, <2>4 DEF Terminate, Answer, PortalTypeOK
    <3>4. QED BY <3>1, <3>2, <3>3
  <2>5. QED BY <2>2, <2>3, <2>4
<1>2. QED BY <1>1, PortalInvariant, PTL DEF PortalSpec, AnswersTheChoice

\* The two together, as the runs check them.
THEOREM DialogsAreRight == PortalSpec => []DialogsAreOwn
<1>1. NoDialogLeftBehind /\ ResultsAreFresh => DialogsAreOwn
  BY DEF DialogsAreOwn
<1>2. QED BY <1>1, DialogsGoAway, OwnResults, PTL
=============================================================================

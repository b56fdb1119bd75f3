--------------------------- MODULE LaunchService ---------------------------
(***************************************************************************)
(* astrea-launch and its daemon (System/launch).                           *)
(*                                                                         *)
(* A client hands its request to the daemon, which serves each connection  *)
(* in a thread of its own; when it cannot connect it does the same work    *)
(* itself.  The work (run_launch) asks the latency daemon for a burst,     *)
(* starts the application, and appends a record to a history file that     *)
(* daemon threads and clients all rewrite when it has grown too long.      *)
(***************************************************************************)
EXTENDS Integers, Sequences, FiniteSets

CONSTANTS
  Clients,    \* invocations of astrea-launch, one request each
  Limit,      \* history_limit; 0 keeps everything
  MaxCrashes  \* bound on daemon crashes

ASSUME LaunchAssumption == Limit \in Nat /\ MaxCrashes \in Nat

VARIABLES
  daemon,     \* "up" or "down"
  client,     \* what each invocation is doing, or how it ended
  step,       \* where each run_launch stands, "none" when there is none
  inDaemon,   \* the requests run by a daemon thread
  result,     \* the record's status
  keep,       \* trim_history: the lines a run is about to write back
  history,    \* history.jsonl
  started,    \* history: how often each application was started
  bursts,     \* history: the requests for which a burst was asked
  log,        \* history: records in the order they were appended
  crashes

vars == <<daemon, client, step, inDaemon, result, keep, history, started, bursts, log, crashes>>

Working == {"resolve", "boost", "spawn", "direct", "pid-boost", "append", "trim",
            "truncate", "fill", "reply"}
Answers == {"ok", "error"}

Init ==
  /\ daemon = "up"
  /\ client = [c \in Clients |-> "idle"] /\ step = [c \in Clients |-> "none"]
  /\ inDaemon = {} /\ result = [c \in Clients |-> "error"]
  /\ keep = [c \in Clients |-> <<>>] /\ history = <<>>
  /\ started = [c \in Clients |-> 0] /\ bursts = {} /\ log = <<>>
  /\ crashes = 0

LastOf(s, n) == IF Len(s) <= n THEN s ELSE SubSeq(s, Len(s) - n + 1, Len(s))

\* The lines trim_history keeps
Kept(s) == LastOf(s, Limit)
\* and when it trims at all
TooLong(s) == Limit > 0 /\ Len(s) > Limit

\* Writing text over a file from its start leaves what is longer than the text.
Overwrite(old, text) ==
  [i \in 1..(IF Len(old) > Len(text) THEN Len(old) ELSE Len(text)) |->
     IF i <= Len(text) THEN text[i] ELSE old[i]]

At(c, s) == step[c] = s
GoTo(c, s) == step' = [step EXCEPT ![c] = s]

----------------------------------------------------------------------------
(* The client *)

\* run_launch_via_daemon: only a failed connection makes the client run it itself.
Request(c) ==
  /\ client[c] = "idle"
  /\ client' = [client EXCEPT ![c] = IF daemon = "up" THEN "waiting" ELSE "local"]
  /\ inDaemon' = IF daemon = "up" THEN inDaemon \cup {c} ELSE inDaemon
  /\ GoTo(c, "resolve")
  /\ UNCHANGED <<daemon, result, keep, history, started, bursts, log, crashes>>

\* mutant: the end of the daemon does not end the wait
WaitOn(c) ==
  /\ client[c] = "waiting" /\ c \in inDaemon
  /\ client' = [client EXCEPT ![c] = "error"]
  /\ UNCHANGED <<daemon, step, inDaemon, result, keep, history, started, bursts, log, crashes>>

\* send_launch_request gives up: the read times out, or the daemon is gone.
GiveUp(c) ==
  /\ client[c] = "waiting"
  /\ client' = [client EXCEPT ![c] = "error"]
  /\ UNCHANGED <<daemon, step, inDaemon, result, keep, history, started, bursts, log, crashes>>

\* mutant: a request that failed after it was sent is started here
RetryLocally(c) ==
  /\ client[c] = "waiting"
  /\ client' = [client EXCEPT ![c] = "local"]
  /\ inDaemon' = inDaemon \ {c}
  /\ GoTo(c, "resolve")
  /\ UNCHANGED <<daemon, result, keep, history, started, bursts, log, crashes>>

\* LaunchdError::Request is reported and not retried.
RequestFailed(c) == GiveUp(c)

----------------------------------------------------------------------------
(* run_launch *)

\* resolve_request; an error is answered without a record.
Resolve(c) ==
  /\ At(c, "resolve")
  /\ GoTo(c, "boost") \/ GoTo(c, "reply")
  /\ UNCHANGED <<daemon, client, inDaemon, result, keep, history, started, bursts, log, crashes>>

\* request_boost("app-launch") before anything is started.
Boost(c) ==
  /\ At(c, "boost")
  /\ bursts' = bursts \cup {c}
  /\ GoTo(c, "spawn")
  /\ UNCHANGED <<daemon, client, inDaemon, result, keep, history, started, log, crashes>>

\* The application runs; its pid may not be known yet, which is no failure.
Started(c) ==
  /\ started' = [started EXCEPT ![c] = @ + 1]
  /\ result' = [result EXCEPT ![c] = "ok"]
  /\ GoTo(c, "pid-boost")

\* spawn_command_with: systemd-run, and the direct way only when that failed.
SystemdSpawn(c) == Started(c) \/ (GoTo(c, "direct") /\ UNCHANGED <<started, result>>)

Spawn(c) ==
  /\ At(c, "spawn")
  /\ SystemdSpawn(c)
  /\ UNCHANGED <<daemon, client, inDaemon, keep, history, bursts, log, crashes>>

\* The record of a failed start says "error".
SpawnFailed(c) ==
  result' = [result EXCEPT ![c] = "error"] /\ GoTo(c, "append") /\ UNCHANGED started

SpawnDirect(c) ==
  /\ At(c, "direct")
  /\ Started(c) \/ SpawnFailed(c)
  /\ UNCHANGED <<daemon, client, inDaemon, keep, history, bursts, log, crashes>>

\* request_boost("app-launch-pid"), which changes nothing of this service.
PidBoost(c) ==
  /\ At(c, "pid-boost")
  /\ GoTo(c, "append")
  /\ UNCHANGED <<daemon, client, inDaemon, result, keep, history, started, bursts, log, crashes>>

\* append_history
AppendHistory(c) ==
  /\ At(c, "append")
  /\ history' = Append(history, c)
  /\ log' = Append(log, c)
  /\ GoTo(c, "trim")
  /\ UNCHANGED <<daemon, client, inDaemon, result, keep, started, bursts, crashes>>

\* trim_history reads the file,
TrimHistory(c) ==
  /\ At(c, "trim")
  /\ IF TooLong(history)
       THEN GoTo(c, "truncate") /\ keep' = [keep EXCEPT ![c] = Kept(history)]
       ELSE GoTo(c, "reply") /\ UNCHANGED keep
  /\ UNCHANGED <<daemon, client, inDaemon, result, history, started, bursts, log, crashes>>

\* and writes it back: fs::write truncates,
Truncate(c) ==
  /\ At(c, "truncate")
  /\ history' = <<>>
  /\ GoTo(c, "fill")
  /\ UNCHANGED <<daemon, client, inDaemon, result, keep, started, bursts, log, crashes>>

\* then fills from the start.
Fill(c) ==
  /\ At(c, "fill")
  /\ history' = Overwrite(history, keep[c])
  /\ keep' = [keep EXCEPT ![c] = <<>>]
  /\ GoTo(c, "reply")
  /\ UNCHANGED <<daemon, client, inDaemon, result, started, bursts, log, crashes>>

\* The answer reaches the client unless it gave up.
Reply(c) ==
  /\ At(c, "reply")
  /\ client' = [client EXCEPT ![c] = IF @ \in {"waiting", "local"} THEN result[c] ELSE @]
  /\ inDaemon' = inDaemon \ {c}
  /\ GoTo(c, "none")
  /\ UNCHANGED <<daemon, result, keep, history, started, bursts, log, crashes>>

RunLaunch(c) ==
  \/ Resolve(c)
  \/ Boost(c)
  \/ Spawn(c)
  \/ SpawnDirect(c)
  \/ PidBoost(c)
  \/ AppendHistory(c)
  \/ TrimHistory(c)
  \/ Truncate(c)
  \/ Fill(c)
  \/ Reply(c)

----------------------------------------------------------------------------
(* The daemon process: KillMode=process, so that applications outlive it *)

Crash ==
  /\ daemon = "up"
  /\ crashes < MaxCrashes
  /\ crashes' = crashes + 1
  /\ daemon' = "down"
  /\ step' = [c \in Clients |-> IF c \in inDaemon THEN "none" ELSE step[c]]
  /\ keep' = [c \in Clients |-> IF c \in inDaemon THEN <<>> ELSE keep[c]]
  /\ inDaemon' = {}
  /\ UNCHANGED <<client, result, history, started, bursts, log>>

\* serve_launchd: a socket nobody listens on is removed and bound again.
Restart ==
  /\ daemon = "down"
  /\ daemon' = "up"
  /\ UNCHANGED <<client, step, inDaemon, result, keep, history, started, bursts, log, crashes>>

Next ==
  \/ \E c \in Clients : Request(c) \/ RequestFailed(c) \/ RunLaunch(c)
  \/ Crash
  \/ Restart

Spec == Init /\ [][Next]_vars

\* Reads time out and threads run.
FairSpec ==
  Spec /\ \A c \in Clients : WF_vars(RequestFailed(c)) /\ WF_vars(RunLaunch(c))

----------------------------------------------------------------------------
(* Properties *)

Done == \A c \in Clients : client[c] \in Answers /\ step[c] = "none"
Quiet == \A c \in Clients : step[c] = "none"

TypeOK ==
  /\ daemon \in {"up", "down"}
  /\ client \in [Clients -> {"idle", "waiting", "local"} \cup Answers]
  /\ step \in [Clients -> Working \cup {"none"}]
  /\ inDaemon \subseteq Clients
  /\ result \in [Clients -> Answers]
  /\ keep \in [Clients -> Seq(Clients)] /\ \A c \in Clients : Len(keep[c]) <= Limit
  /\ history \in Seq(Clients) /\ log \in Seq(Clients)
  /\ started \in [Clients -> Nat]
  /\ bursts \subseteq Clients
  /\ crashes \in 0..MaxCrashes

\* A request starts its application at most once, whatever times out, fails or
\* crashes: neither the fallback from systemd-run nor the one from the daemon repeats
\* a start that happened.
StartedOnce == \A c \in Clients : started[c] <= 1

\* A client that is told "ok" has its application started.
OkMeansStarted == \A c \in Clients : client[c] = "ok" => started[c] = 1

\* The burst is asked for before the application starts: afterwards it would be late.
BurstBeforeStart == \A c \in Clients : started[c] > 0 => c \in bursts

\* Trimming keeps the file within its limit once all runs have ended, however they
\* overlapped, unless a crash came between an append and its trim.
HistoryBounded == Quiet /\ Limit > 0 /\ crashes = 0 => Len(history) <= Limit

\* Starts are what clients are told of them and are never repeated or unboosted, and
\* their records do not pile up.
LaunchesAreSound == StartedOnce /\ OkMeansStarted /\ BurstBeforeStart /\ HistoryBounded

\* Launch records are written to the history: it ends with the latest records.
LaunchesAreRecorded ==
  Quiet /\ Limit > 0 /\ crashes = 0 => history = LastOf(log, Limit)

\* Every client gets an answer, from the daemon, from its own run, or by giving up
\* (send_launch_request, run_launch_via_daemon).
EveryClientIsAnswered == \A c \in Clients : client[c] \in {"waiting", "local"} ~> client[c] \in Answers
=============================================================================

--------------------------- MODULE StorageRefresh ---------------------------
(***************************************************************************)
(* The background refresh of the storage overview (storage.py).            *)
(*                                                                         *)
(* Callers are invocations of `storage.py json`, one per poll of the       *)
(* Settings page; a caller that finds the cache stale starts a worker,     *)
(* `storage.py refresh-background`, which scans.  Who may scan is settled  *)
(* by a lock file; whether its holder still lives, by the process named in *)
(* a status file, which is written after the lock is taken.  refresh_status*)
(* is a subroutine of both: it reads the status, looks at the process, and *)
(* removes the lock and corrects the status of one that is gone.           *)
(***************************************************************************)
EXTENDS Naturals, FiniteSets

CONSTANTS
  Callers,      \* concurrent `json` calls
  Workers,      \* process ids of workers; they come round
  Nobody,       \* no process
  MaxByHand,    \* workers started by hand
  MaxKills,     \* workers killed
  MaxFailures   \* scans that fail or time out

Procs == Callers \cup Workers

VARIABLES
  lock,     \* who wrote the lock file, Nobody if there is none
  status,   \* the status file: a process and whether it was running
  fresh,    \* is the cache newer than AUTO_REFRESH_AFTER_SECONDS and complete?
  at, ret,  \* where each process is, and where it goes after refresh_status
  seen,     \* the status it read
  running,  \* what refresh_status told it
  child,    \* the worker a caller has just started
  byHand, kills, failures

vars == <<lock, status, fresh, at, ret, seen, running, child, byHand, kills, failures>>

Blank == [pid |-> Nobody, running |-> FALSE]
Init ==
  /\ lock = Nobody /\ status = Blank /\ fresh \in BOOLEAN
  /\ at = [p \in Procs |-> IF p \in Callers THEN "idle" ELSE "dead"]
  /\ ret = [p \in Procs |-> "idle"] /\ seen = [p \in Procs |-> Blank]
  /\ running = [p \in Procs |-> FALSE] /\ child = [c \in Callers |-> Nobody]
  /\ byHand = 0 /\ kills = 0 /\ failures = 0

Go(p, where) == at' = [at EXCEPT ![p] = where]
Goes(p, where) == Go(p, where) /\ UNCHANGED <<ret, seen, running>>
\* The handler goes on, or ends, without the answer it had.
Continue(p, where) ==
  /\ Go(p, where) /\ running' = [running EXCEPT ![p] = FALSE] /\ UNCHANGED <<ret, seen>>

----------------------------------------------------------------------------
(* refresh_status *)

Return(p) ==
  /\ Go(p, ret[p]) /\ ret' = [ret EXCEPT ![p] = "idle"]
  /\ seen' = [seen EXCEPT ![p] = Blank]

\* mutant: a process is alive that was once recorded
Recorded(pid) == pid # Nobody

\* process_alive and process_is_refresh_worker
Alive(pid) == pid \in Workers /\ at[pid] # "dead"

\* The call reads the status and looks at the process; back is where it returns to.
Check(p, back) ==
  /\ running' = [running EXCEPT ![p] = Alive(status.pid) /\ back # "idle"]
  /\ \/ Alive(status.pid) /\ Go(p, back) /\ UNCHANGED <<ret, seen>>
     \/ /\ ~Alive(status.pid) /\ Go(p, "unlock")
        /\ seen' = [seen EXCEPT ![p] = status] /\ ret' = [ret EXCEPT ![p] = back]

Unlock(p) ==
  /\ at[p] = "unlock" /\ lock' = Nobody
  /\ \/ seen[p].running /\ Go(p, "correct") /\ UNCHANGED <<ret, seen>>
     \/ ~seen[p].running /\ Return(p)
  /\ UNCHANGED <<status, fresh, running, child, byHand, kills, failures>>

Correct(p) ==
  /\ at[p] = "correct" /\ status' = [seen[p] EXCEPT !.running = FALSE]
  /\ Return(p)
  /\ UNCHANGED <<lock, fresh, running, child, byHand, kills, failures>>

----------------------------------------------------------------------------
(* print_sense_json, enrich_refresh_metadata and start_auto_refresh *)

Json(c) ==
  /\ at[c] = "idle" /\ Check(c, "decide")
  /\ UNCHANGED <<lock, status, fresh, child, byHand, kills, failures>>

\* cache_needs_auto_refresh, and no refresh on: start_auto_refresh asks again.
Decide(c) ==
  /\ at[c] = "decide"
  /\ \/ ~fresh /\ ~running[c] /\ Check(c, "start")
     \/ (fresh \/ running[c]) /\ Continue(c, "idle")
  /\ UNCHANGED <<lock, status, fresh, child, byHand, kills, failures>>

Start(c) ==
  /\ at[c] = "start"
  /\ \/ running[c] /\ Check(c, "idle") /\ UNCHANGED child
     \/ /\ ~running[c]
        /\ \E w \in Workers :
             /\ at[w] = "dead"
             /\ at' = [at EXCEPT ![w] = "acquire", ![c] = "record"]
             /\ child' = [child EXCEPT ![c] = w]
        /\ UNCHANGED <<ret, seen, running>>
  /\ UNCHANGED <<lock, status, fresh, byHand, kills, failures>>

\* mutant: the worker announces itself, later
RecordNothing(c) ==
  /\ at[c] = "record" /\ child' = [child EXCEPT ![c] = Nobody] /\ Goes(c, "answer")
  /\ UNCHANGED <<lock, status, fresh, byHand, kills, failures>>

Record(c) ==
  /\ at[c] = "record" /\ status' = [pid |-> child[c], running |-> TRUE]
  /\ child' = [child EXCEPT ![c] = Nobody] /\ Goes(c, "answer")
  /\ UNCHANGED <<lock, fresh, byHand, kills, failures>>

\* The answer is about the refresh as it is now.
Answer(c) ==
  /\ at[c] = "answer" /\ Check(c, "idle")
  /\ UNCHANGED <<lock, status, fresh, child, byHand, kills, failures>>

----------------------------------------------------------------------------
(* run_refresh_background *)

\* os.open(REFRESH_LOCK, O_CREAT | O_EXCL)
Acquire(w) ==
  /\ at[w] = "acquire"
  /\ \/ lock = Nobody /\ lock' = w /\ Goes(w, "announce")
     \/ lock # Nobody /\ Check(w, "held") /\ UNCHANGED lock
  /\ UNCHANGED <<status, fresh, child, byHand, kills, failures>>

\* The lock was there: give up if a refresh runs, else remove it and try again.
Held(w) ==
  /\ at[w] = "held"
  /\ \/ running[w] /\ Goes(w, "dead") /\ UNCHANGED lock
     \/ ~running[w] /\ lock' = Nobody /\ Continue(w, "acquire")
  /\ UNCHANGED <<status, fresh, child, byHand, kills, failures>>

Announce(w) ==
  /\ at[w] = "announce" /\ status' = [pid |-> w, running |-> TRUE] /\ Goes(w, "scan")
  /\ UNCHANGED <<lock, fresh, child, byHand, kills, failures>>

Scan(w) ==
  /\ at[w] = "scan" /\ Goes(w, "report")
  /\ \/ fresh' = TRUE /\ UNCHANGED failures
     \/ failures < MaxFailures /\ failures' = failures + 1 /\ UNCHANGED fresh
  /\ UNCHANGED <<lock, status, child, byHand, kills>>

Report(w) ==
  /\ at[w] = "report" /\ status' = [pid |-> w, running |-> FALSE] /\ Goes(w, "release")
  /\ UNCHANGED <<lock, fresh, child, byHand, kills, failures>>

\* The finally clause removes the lock file, whoever's it is.
Release(w) ==
  /\ at[w] = "release" /\ lock' = Nobody /\ Goes(w, "dead")
  /\ UNCHANGED <<status, fresh, child, byHand, kills, failures>>

----------------------------------------------------------------------------
(* The environment *)

\* `storage.py refresh-background`, its reason "manual"
RefreshByHand(w) ==
  /\ at[w] = "dead" /\ byHand < MaxByHand /\ byHand' = byHand + 1
  /\ Goes(w, "acquire")
  /\ UNCHANGED <<lock, status, fresh, child, kills, failures>>

Kill(w) ==
  /\ at[w] # "dead" /\ kills < MaxKills /\ kills' = kills + 1
  /\ Go(w, "dead") /\ ret' = [ret EXCEPT ![w] = "idle"]
  /\ seen' = [seen EXCEPT ![w] = Blank] /\ running' = [running EXCEPT ![w] = FALSE]
  /\ UNCHANGED <<lock, status, fresh, child, byHand, failures>>

Expire ==
  /\ fresh /\ fresh' = FALSE
  /\ UNCHANGED <<lock, status, at, ret, seen, running, child, byHand, kills, failures>>

Status(p) == Unlock(p) \/ Correct(p)
Caller(c) == Json(c) \/ Decide(c) \/ Start(c) \/ Record(c) \/ Answer(c) \/ Status(c)
Worker(w) ==
  Acquire(w) \/ Held(w) \/ Announce(w) \/ Scan(w) \/ Report(w) \/ Release(w) \/ Status(w)

Next ==
  \/ \E c \in Callers : Caller(c)
  \/ \E w \in Workers : Worker(w) \/ RefreshByHand(w) \/ Kill(w)
  \/ Expire

Spec == Init /\ [][Next]_vars

\* Processes run, scans end (they have a timeout), and the page polls.
Fairness ==
  /\ \A c \in Callers : WF_vars(Caller(c))
  /\ \A w \in Workers : WF_vars(Worker(w))
FairSpec == Spec /\ Fairness

----------------------------------------------------------------------------
Places == {"idle", "answer", "unlock", "correct", "decide", "start", "record", "dead",
           "acquire", "held", "announce", "scan", "report", "release"}
Statuses == [pid : Workers \cup {Nobody}, running : BOOLEAN]
StorageTypeOK ==
  /\ lock \in Workers \cup {Nobody} /\ status \in Statuses /\ fresh \in BOOLEAN
  /\ at \in [Procs -> Places] /\ ret \in [Procs -> Places]
  /\ seen \in [Procs -> Statuses] /\ running \in [Procs -> BOOLEAN]
  /\ child \in [Callers -> Workers \cup {Nobody}]
  /\ byHand \in 0..MaxByHand /\ kills \in 0..MaxKills /\ failures \in 0..MaxFailures

\* A worker that scans, or is about to, holds the lock file: neither another
\* worker's release, nor a caller that takes the holder for dead, nor the recovery
\* from a killed worker has removed it, so there is one scanner at a time; unless
\* somebody starts a worker by hand next to the one caller.
ScannerHoldsLock ==
  byHand = 0 /\ Cardinality(Callers) = 1 => \A w \in Workers : at[w] \in {"announce", "scan", "report", "release"} => lock = w

\* A stale cache is refreshed, whatever locks and statuses killed workers left.
StaleIsRefreshed == ~fresh ~> fresh
=============================================================================

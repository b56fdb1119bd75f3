-------------------------- MODULE LatencyDaemonPy --------------------------
(***************************************************************************)
(* astrea_latencyd.py, the Python daemon of the same protocol.  It bursts  *)
(* and restores the machine as LatencyDaemon does, and differs in its loop *)
(* and in its errors: a signal does not wake select(2); one connection,    *)
(* which may hold several requests, is served per wakeup; and a failed     *)
(* write of the history or of state.json is an exception.  One raised by a *)
(* request is caught and recorded, and the record may fail again; one that *)
(* leaves the loop runs `finally`, which rolls back, and ends the daemon.  *)
(***************************************************************************)
EXTENDS LatencyDaemon

VARIABLE lines  \* requests of the accepted connection not yet handled

pyvars == <<vars, lines>>

PyInit == Init /\ lines = <<>>

\* The finally clause of serve().
PyFinally == Leave

\* append_history() and atomic_write_json() raise what the disk returns.
WriteFails == "write" \in Faults

----------------------------------------------------------------------------
(* The burst and the rollback are those of LatencyDaemon *)

PyTakeSnapshot == TakeSnapshot /\ UNCHANGED lines
PyHelperBurst == HelperBurst /\ UNCHANGED lines
PyDirectBurst == DirectBurst /\ UNCHANGED lines
PyRollbackProfile == RollbackProfile /\ UNCHANGED lines
PyRollbackCpu == RollbackCpu /\ UNCHANGED lines
\* mutant: a restart does not recover
PyStartAfresh == pc = "down" /\ pc' = "bind" /\ UNCHANGED <<machine, mem, boosts, ret, running,
                   queue, deadline, wakeIn, file, baseline, lost, budget, lines>>

PyRecover == Start /\ UNCHANGED lines
PyBind == Bind /\ UNCHANGED lines
PyExit == Exit /\ lines' = <<>>

----------------------------------------------------------------------------
(* serve() *)

\* mutant: the loop does not look for expired bursts
LoopWithoutPrune ==
  /\ pc = "loop" /\ pc' = "poll" /\ wakeIn' = MaxPoll
  /\ UNCHANGED <<machine, mem, boosts, ret, running, queue, deadline, file, baseline,
                 lost, budget, lines>>

\* prune_expired() comes after every wakeup, the running flag after that.
PyLoopTop ==
  /\ pc = "loop"
  /\ boosts' = Unexpired(boosts)
  /\ \/ mem.active /\ boosts' = {} /\ BeginRollback("loop") /\ UNCHANGED wakeIn
     \/ /\ ~(mem.active /\ boosts' = {})
        /\ ~running /\ PyFinally /\ UNCHANGED wakeIn
     \/ /\ ~(mem.active /\ boosts' = {})
        /\ running /\ pc' = "poll" /\ UNCHANGED ret
        /\ \/ boosts' = {} /\ wakeIn' = MaxPoll
           \/ \E b \in boosts' : /\ \A c \in boosts' : b <= c
                                 /\ wakeIn' = Clamp(b, MinPoll, MaxPoll)
  /\ UNCHANGED <<machine, mem, running, queue, deadline, file, baseline, lost, budget, lines>>

\* select() looks at nothing but the listener and the clock.  A connection is
\* accepted and read until the client is silent: it holds one request or more.
PySelect ==
  /\ pc = "poll"
  /\ \/ /\ queue # <<>>
        /\ \E n \in 1..Len(queue) :
             /\ lines' = SubSeq(queue, 1, n)
             /\ queue' = SubSeq(queue, n + 1, Len(queue))
        /\ pc' = "accept"
     \/ queue = <<>> /\ wakeIn = 0 /\ pc' = "loop" /\ UNCHANGED <<lines, queue>>
  /\ UNCHANGED <<machine, mem, boosts, ret, running, deadline, wakeIn, file,
                 baseline, lost, budget>>

\* handle_connection(): the next line; one that is no burst is only recorded.
PyHandle ==
  /\ pc = "accept"
  /\ \/ /\ lines = <<>> /\ pc' = "loop" /\ UNCHANGED <<lines, deadline, ret>>
     \/ /\ lines # <<>> /\ Head(lines) = 0
        /\ lines' = Tail(lines) /\ UNCHANGED deadline
        /\ \/ UNCHANGED <<pc, ret>>
           \/ WriteFails /\ PyFinally
     \/ /\ lines # <<>> /\ Head(lines) # 0
        /\ lines' = Tail(lines) /\ deadline' = Head(lines)
        /\ pc' = FirstStep /\ UNCHANGED ret
  /\ UNCHANGED <<machine, mem, boosts, running, queue, wakeIn, file, baseline, lost, budget>>

PyPushBoost ==
  /\ pc = "push"
  /\ boosts' = Unexpired(boosts \cup {deadline})
  /\ IF boosts' = {} THEN BeginRollback("persist") ELSE pc' = "persist" /\ UNCHANGED ret
  /\ UNCHANGED <<machine, mem, running, queue, deadline, wakeIn, file, baseline,
                 lost, budget, lines>>

\* An exception of a request: recorded, and the next line is handled; if the
\* record fails too, it leaves the loop.
CaughtInHandler ==
  \/ pc' = "accept" /\ UNCHANGED ret
  \/ PyFinally

\* record("boost") and write_state(), in this order.
PyPersist ==
  /\ pc = "persist"
  /\ \/ file' = mem /\ pc' = "accept" /\ UNCHANGED ret
     \/ WriteFails /\ UNCHANGED file /\ CaughtInHandler
  /\ UNCHANGED <<machine, mem, boosts, running, queue, deadline, wakeIn,
                 baseline, lost, budget, lines>>

\* Where an exception of rollback() leads: out of the recovery and out of
\* `finally` nothing catches it; the loop's `finally` has nothing left to undo.
RollbackRaises ==
  \/ ret \in {"bind", "exit"} /\ pc' = "down" /\ queue' = <<>>
  \/ ret = "loop" /\ pc' = "exit" /\ UNCHANGED queue
  \/ ret = "persist" /\ pc' \in {"accept", "exit"} /\ UNCHANGED queue

\* rollback() forgets the snapshot, then records, then writes the state.
PyRollbackClear ==
  /\ pc = "rbClear"
  /\ mem' = Inactive
  /\ \/ file' = Inactive /\ pc' = ret /\ UNCHANGED queue
     \/ WriteFails /\ UNCHANGED file /\ RollbackRaises
  /\ boosts' = IF pc' = "down" THEN {} ELSE boosts
  /\ lines' = IF pc' = "down" THEN <<>> ELSE lines
  /\ UNCHANGED <<machine, ret, running, deadline, wakeIn, baseline, lost, budget>>

PyStep ==
  \/ PyRecover \/ PyBind \/ PyLoopTop \/ PySelect \/ PyHandle
  \/ PyTakeSnapshot \/ PyHelperBurst \/ PyDirectBurst \/ PyPushBoost \/ PyPersist
  \/ PyRollbackProfile \/ PyRollbackCpu \/ PyRollbackClear \/ PyExit

PyNext ==
  \/ PyStep
  \/ Crash /\ lines' = <<>>
  \/ ((\E r \in Requests : Send(r)) \/ Signal \/ UserChange \/ Tick) /\ UNCHANGED lines

PySpec == PyInit /\ [][PyNext]_pyvars

\* As for LatencyDaemon: the thread runs, systemd restarts it, time passes.
PyFairSpec == PySpec /\ WF_pyvars(PyStep) /\ WF_pyvars(Tick /\ UNCHANGED lines)

----------------------------------------------------------------------------
\* No run of errors leaves the Python daemon asleep with a burst that nothing
\* will end, or with deadlines of a burst already undone: exceptions of a
\* request, of its rollback and of the loop keep `active` and `boosts` together.
ErrorsStrandNothing ==
  pc = "poll" =>
    /\ mem.active => boosts # {} /\ \E b \in boosts : b > -MinPoll
    /\ ~mem.active => boosts = {}
=============================================================================

------------------------------ MODULE Supervisor ------------------------------
(***************************************************************************)
(* The steps of the supervisor task (Supervisor::run and its handlers).    *)
(*                                                                         *)
(* No handler awaits, so the supervisor's own steps never interleave with  *)
(* one another; but the worker tasks run on other threads, and one of them *)
(* may end between two sends of the same handler, which is what makes      *)
(* dispatch fail.  So a handler is one step per send it makes, and pc says *)
(* where it is:                                                            *)
(*   "select"    at the select of run, between handlers                    *)
(*   "place"     at the head of place_job, with the job in `held`          *)
(*   "reuse"     in place_job, past its test of the core size              *)
(*   "drain"     in drain_one_queued_task                                  *)
(*   "restore"   in restore_core_workers                                   *)
(*   "prestart"  in the loop of prestart_core_workers                      *)
(*   "closed"    run has returned, its receivers are dropped               *)
(* `after` is the pc to which place_job returns.                           *)
(***************************************************************************)
EXTENDS PoolState

-----------------------------------------------------------------------------
\* Workers.

\* Slip: the JoinHandle is dropped, which detaches the task, not aborted.
RemoveWorkersDetached(S) ==
    /\ workers' = Without(workers, S)
    /\ UNCHANGED tasks

\* remove_worker: the slots leave the map and their tasks are aborted.
RemoveWorkers(S) ==
    /\ workers' = Without(workers, S)
    /\ tasks' = [w \in DOMAIN tasks |->
                    [tasks[w] EXCEPT !.abort = @ \/ w \in S]]

\* Slip: the slot is not marked busy.
DispatchUnmarked(w, j) ==
    /\ Receives(w)
    /\ tasks' = [tasks EXCEPT ![w].inbox = Append(@, j)]
    /\ UNCHANGED workers

\* dispatch to a slot whose task still receives.
Dispatch(w, j) ==
    /\ Receives(w)
    /\ workers' = [workers EXCEPT ![w] = j]
    /\ tasks' = [tasks EXCEPT ![w].inbox = Append(@, j)]

\* dispatch to a slot whose task has ended: the job comes back.
DispatchFails(w) ==
    /\ ~Receives(w)
    /\ RemoveWorkers({w})

\* minimum_workers.max(workers.len().min(core)), the new slot included.
RaisedMinimum ==
    LET activated == IF PoolSize < CorePoolSize THEN PoolSize + 1
                                                ELSE CorePoolSize
    IN  IF minimum_workers < activated THEN activated ELSE minimum_workers

\* Slip: the id is read and not advanced.
SpawnWorkerSameId(j) ==
    /\ workers' = With(workers, next_worker_id, j)
    /\ tasks' = With(tasks, next_worker_id,
                     NewTask(IF j = NoCall THEN <<>> ELSE <<j>>))
    /\ minimum_workers' = RaisedMinimum
    /\ UNCHANGED <<next_worker_id, events, budget>>

\* spawn_worker, and the dispatch of j to the new worker unless j = NoCall.
SpawnWorker(j) ==
    /\ workers' = With(workers, next_worker_id, j)
    /\ tasks' = With(tasks, next_worker_id,
                     NewTask(IF j = NoCall THEN <<>> ELSE <<j>>))
    /\ next_worker_id' = next_worker_id + 1
    /\ minimum_workers' = RaisedMinimum
    /\ UNCHANGED <<events, budget>>

\* spawn_worker whose child exits, and is seen to, before the dispatch of a
\* job: dispatch fails and removes the slot again.
SpawnStillborn ==
    /\ budget.fault > 0
    /\ budget' = [budget EXCEPT !.fault = @ - 1]
    /\ events' = Append(events, Stopped(next_worker_id))
    /\ next_worker_id' = next_worker_id + 1
    /\ minimum_workers' = RaisedMinimum
    /\ UNCHANGED <<workers, tasks>>

\* spawn_worker whose spawn_child fails, the id being taken already.
SpawnFails ==
    /\ budget.spawn > 0
    /\ budget' = [budget EXCEPT !.spawn = @ - 1]
    /\ next_worker_id' = next_worker_id + 1
    /\ UNCHANGED <<minimum_workers, workers, tasks, events>>

-----------------------------------------------------------------------------
\* place_job.

\* The workers are as many as the core: place_job looks for an idle one.
Searching ==
    \/ pc = "reuse"
    \/ pc = "place" /\ PoolSize >= CorePoolSize

\* No idle worker is left, and the pool is not empty.
Saturated == Searching /\ Idle = {} /\ DOMAIN workers # {}

MustStart ==
    \/ pc = "place" /\ PoolSize < CorePoolSize
    \/ Searching /\ DOMAIN workers = {}
    \/ /\ Saturated
       /\ Len(queue) >= QueueCapacity
       /\ PoolSize < MaximumPoolSize

\* The return of place_job.
Placed ==
    /\ pc' = after
    /\ after' = "select"
    /\ held' = NoCall

PlaceOnIdle ==
    /\ Searching
    /\ \E w \in Idle : Dispatch(w, held)
    /\ Placed
    /\ UNCHANGED <<answer, channelVars, budget, rejection_policy, missing,
                   queue, next_worker_id, minimum_workers, count, oneshots>>

\* An idle worker turns out to be gone: place_job tries the next one.
PlaceOnIdleFails ==
    /\ Searching
    /\ \E w \in Idle : DispatchFails(w)
    /\ pc' = "reuse"
    /\ UNCHANGED <<answer, channelVars, budget, rejection_policy, after, held,
                   missing, queue, next_worker_id, minimum_workers, count,
                   oneshots>>

StartJob ==
    /\ MustStart
    /\ SpawnWorker(held)
    /\ Placed
    /\ UNCHANGED <<answer, commands, handles, rejection_policy, missing,
                   queue, count, oneshots>>

StartJobFails ==
    /\ MustStart
    /\ SpawnStillborn \/ SpawnFails
    /\ answer' = Answered({held}, "spawn_failed")
    /\ Placed
    /\ UNCHANGED <<commands, handles, rejection_policy, missing, queue,
                   count, oneshots>>

Enqueue ==
    /\ Saturated
    /\ Len(queue) < QueueCapacity
    /\ queue' = Append(queue, held)
    /\ Placed
    /\ UNCHANGED <<answer, channelVars, budget, rejection_policy, missing,
                   workers, next_worker_id, minimum_workers, count, tasks,
                   oneshots>>

-----------------------------------------------------------------------------
\* apply_rejection_policy.

MustReject ==
    /\ Saturated
    /\ Len(queue) >= QueueCapacity
    /\ PoolSize >= MaximumPoolSize

\* Abort and Discard; DiscardOldest has nothing to drop from an empty queue.
Refuse ==
    /\ \/ rejection_policy \in {"abort", "discard"}
       \/ rejection_policy = "discard_oldest" /\ queue = <<>>
    /\ answer' = Answered({held}, IF rejection_policy = "discard"
                                  THEN "discarded" ELSE "rejected")
    /\ count' = [count EXCEPT !.rejected = @ + 1]
    /\ UNCHANGED <<queue, oneshots>>

DiscardOldest ==
    /\ rejection_policy = "discard_oldest"
    /\ queue # <<>>
    /\ answer' = Answered({Head(queue)}, "discarded")
    /\ queue' = Append(Tail(queue), held)
    /\ count' = [count EXCEPT !.rejected = @ + 1]
    /\ UNCHANGED oneshots

CallerRuns ==
    /\ rejection_policy = "caller_runs"
    /\ oneshots' = oneshots \cup {held}
    /\ count' = [count EXCEPT !.rejected = @ + 1, !.caller_runs = @ + 1]
    /\ UNCHANGED <<answer, queue>>

ApplyRejectionPolicy ==
    /\ MustReject
    /\ Refuse \/ DiscardOldest \/ CallerRuns
    /\ Placed
    /\ UNCHANGED <<channelVars, budget, rejection_policy, missing, workers,
                   next_worker_id, minimum_workers, tasks>>

-----------------------------------------------------------------------------
\* Commands.

Receive(kind) ==
    /\ pc = "select"
    /\ commands # <<>>
    /\ Head(commands).kind = kind
    /\ commands' = Tail(commands)

\* submit: the command becomes a job, and place_job is called with it.
HandleSubmit ==
    /\ Receive("submit")
    /\ held' = Head(commands).call
    /\ pc' = "place"
    /\ UNCHANGED <<answer, events, handles, budget, rejection_policy, after,
                   missing, workers, queue, next_worker_id, minimum_workers,
                   count, tasks, oneshots>>

\* Slip: the loop runs core_pool_size times, whoever is there already.
HandlePrestartAll ==
    /\ Receive("prestart")
    /\ missing' = CorePoolSize
    /\ pc' = "prestart"
    /\ UNCHANGED <<answer, events, handles, budget, rejection_policy, after,
                   held, workers, queue, next_worker_id, minimum_workers,
                   count, tasks, oneshots>>

HandlePrestart ==
    /\ Receive("prestart")
    /\ missing' = IF PoolSize < CorePoolSize THEN CorePoolSize - PoolSize ELSE 0
    /\ pc' = "prestart"
    /\ UNCHANGED <<answer, events, handles, budget, rejection_policy, after,
                   held, workers, queue, next_worker_id, minimum_workers,
                   count, tasks, oneshots>>

\* Slip: a prestarted worker is left idle, whatever waits in the queue.
PrestartWorkerIdle ==
    /\ pc = "prestart"
    /\ missing > 0
    /\ missing' = missing - 1
    /\ SpawnWorker(NoCall)
    /\ UNCHANGED <<answer, commands, handles, rejection_policy, pc, after,
                   held, queue, count, oneshots>>

\* One iteration of the loop of prestart_core_workers.
PrestartWorker ==
    /\ pc = "prestart"
    /\ missing > 0
    /\ missing' = missing - 1
    /\ SpawnWorker(IF queue = <<>> THEN NoCall ELSE Head(queue))
    /\ queue' = IF queue = <<>> THEN queue ELSE Tail(queue)
    /\ UNCHANGED <<answer, commands, handles, rejection_policy, pc, after,
                   held, count, oneshots>>

\* The new worker is gone before it gets the job it was started for.
PrestartStillborn ==
    /\ pc = "prestart"
    /\ missing > 0
    /\ queue # <<>>
    /\ missing' = missing - 1
    /\ SpawnStillborn
    /\ held' = Head(queue)
    /\ queue' = Tail(queue)
    /\ pc' = "place"
    /\ after' = "prestart"
    /\ UNCHANGED <<answer, commands, handles, rejection_policy, count,
                   oneshots>>

\* The `?` of spawn_worker ends the loop; the workers started stay.
PrestartFails ==
    /\ pc = "prestart"
    /\ missing > 0
    /\ SpawnFails
    /\ missing' = 0
    /\ pc' = "select"
    /\ UNCHANGED <<answer, commands, handles, rejection_policy, after, held,
                   queue, count, oneshots>>

PrestartDone ==
    /\ pc = "prestart"
    /\ missing = 0
    /\ pc' = "select"
    /\ UNCHANGED <<answer, channelVars, budget, rejection_policy, after, held,
                   missing, workers, queue, next_worker_id, minimum_workers,
                   count, tasks, oneshots>>

\* Slip: the workers are left running.
CloseKeepingWorkers ==
    /\ answer' = Answered(Range(queue) \cup Carried(commands)
                            \cup Carried(events), "closed")
    /\ queue' = <<>>
    /\ commands' = <<>>
    /\ events' = <<>>
    /\ pc' = "closed"
    /\ UNCHANGED <<handles, budget, rejection_policy, after, held, missing,
                   workers, next_worker_id, minimum_workers, count, tasks,
                   oneshots>>

\* stop_all_workers, fail_queued(Closed), and the break that ends run: the
\* receivers are dropped with the messages still in them.
Close ==
    /\ RemoveWorkers(DOMAIN workers)
    /\ answer' = Answered(Range(queue) \cup Carried(commands)
                            \cup Carried(events), "closed")
    /\ queue' = <<>>
    /\ commands' = <<>>
    /\ events' = <<>>
    /\ pc' = "closed"
    /\ UNCHANGED <<handles, budget, rejection_policy, after, held, missing,
                   next_worker_id, minimum_workers, count, oneshots>>

HandleShutdown ==
    /\ pc = "select"
    /\ commands # <<>>
    /\ Head(commands).kind = "shutdown"
    /\ Close

\* recv returns None: every handle was dropped, and the channel is empty.
HandlesDropped ==
    /\ pc = "select"
    /\ commands = <<>>
    /\ ~handles
    /\ Close

-----------------------------------------------------------------------------
\* Events.

Event(kind) ==
    /\ pc = "select"
    /\ events # <<>>
    /\ Head(events).kind = kind
    /\ events' = Tail(events)

\* record_outcome
Recorded(o) ==
    IF o = "ok" THEN [count EXCEPT !.completed = @ + 1]
                ELSE [count EXCEPT !.failed = @ + 1]

\* Slip: a job whose worker broke is queued once more.
HandleFinishedRetrying ==
    LET e == Head(events)
    IN  /\ Event("finished")
        /\ count' = Recorded(e.outcome)
        /\ IF e.outcome \notin Reusable
             THEN /\ RemoveWorkers({e.worker})
                  /\ queue' = Append(queue, e.call)
                  /\ UNCHANGED answer
             ELSE /\ workers' = [w \in DOMAIN workers |->
                                    IF w = e.worker THEN NoCall ELSE workers[w]]
                  /\ answer' = Answered({e.call}, e.outcome)
                  /\ UNCHANGED <<queue, tasks>>
        /\ pc' = "drain"
        /\ UNCHANGED <<commands, handles, budget, rejection_policy, after, held,
                       missing, next_worker_id, minimum_workers, oneshots>>

HandleFinished ==
    LET e == Head(events)
    IN  /\ Event("finished")
        /\ count' = Recorded(e.outcome)
        /\ IF e.outcome \notin Reusable
             THEN RemoveWorkers({e.worker})
             ELSE /\ workers' = [w \in DOMAIN workers |->
                                    IF w = e.worker THEN NoCall ELSE workers[w]]
                  /\ UNCHANGED tasks
        /\ answer' = Answered({e.call}, e.outcome)
        /\ pc' = "drain"
        /\ UNCHANGED <<commands, handles, budget, rejection_policy, after, held,
                       missing, queue, next_worker_id, minimum_workers, oneshots>>

\* Slip: the outcome of a one-shot process is not recorded.
HandleOneShotUncounted ==
    LET e == Head(events)
    IN  /\ Event("oneshot")
        /\ answer' = Answered({e.call}, e.outcome)
        /\ UNCHANGED <<commands, handles, budget, rejection_policy, pc, after,
                       held, missing, workers, queue, next_worker_id,
                       minimum_workers, count, tasks, oneshots>>

HandleOneShotFinished ==
    LET e == Head(events)
    IN  /\ Event("oneshot")
        /\ count' = Recorded(e.outcome)
        /\ answer' = Answered({e.call}, e.outcome)
        /\ UNCHANGED <<commands, handles, budget, rejection_policy, pc, after,
                       held, missing, workers, queue, next_worker_id,
                       minimum_workers, tasks, oneshots>>

\* Slip: the event of a worker that is not in the map any more is ignored.
HandleStoppedIfKnown ==
    LET w == Head(events).worker
    IN  /\ Event("stopped")
        /\ RemoveWorkers({w})
        /\ pc' = IF w \in DOMAIN workers THEN "drain" ELSE "select"
        /\ UNCHANGED <<answer, commands, handles, budget, rejection_policy,
                       after, held, missing, queue, next_worker_id,
                       minimum_workers, count, oneshots>>

HandleStopped ==
    /\ Event("stopped")
    /\ RemoveWorkers({Head(events).worker})
    /\ pc' = "drain"
    /\ UNCHANGED <<answer, commands, handles, budget, rejection_policy, after,
                   held, missing, queue, next_worker_id, minimum_workers,
                   count, oneshots>>

-----------------------------------------------------------------------------
\* drain_one_queued_task.

DrainToIdle ==
    /\ pc = "drain"
    /\ queue # <<>>
    /\ \E w \in Idle : Dispatch(w, Head(queue))
    /\ queue' = Tail(queue)
    /\ pc' = "restore"
    /\ UNCHANGED <<answer, channelVars, budget, rejection_policy, after, held,
                   missing, next_worker_id, minimum_workers, count, oneshots>>

\* The idle worker is gone: place_job is called with the job, as if it had
\* just arrived.
DrainToIdleFails ==
    /\ pc = "drain"
    /\ queue # <<>>
    /\ \E w \in Idle : DispatchFails(w)
    /\ held' = Head(queue)
    /\ queue' = Tail(queue)
    /\ pc' = "place"
    /\ after' = "restore"
    /\ UNCHANGED <<answer, channelVars, budget, rejection_policy, missing,
                   next_worker_id, minimum_workers, count, oneshots>>

\* Nobody is idle, and a worker may be started for the head of the queue.
DrainNeedsWorker ==
    /\ pc = "drain"
    /\ queue # <<>>
    /\ Idle = {}
    /\ PoolSize = 0 \/ PoolSize < CorePoolSize

DrainToNew ==
    /\ DrainNeedsWorker
    /\ SpawnWorker(Head(queue))
    /\ queue' = Tail(queue)
    /\ pc' = "restore"
    /\ UNCHANGED <<answer, commands, handles, rejection_policy, after, held,
                   missing, count, oneshots>>

DrainToStillborn ==
    /\ DrainNeedsWorker
    /\ SpawnStillborn
    /\ answer' = Answered({Head(queue)}, "spawn_failed")
    /\ queue' = Tail(queue)
    /\ pc' = "restore"
    /\ UNCHANGED <<commands, handles, rejection_policy, after, held, missing,
                   count, oneshots>>

\* Slip: the jobs behind the head stay queued though no worker is left.
DrainSpawnFailsHead ==
    /\ DrainNeedsWorker
    /\ SpawnFails
    /\ answer' = Answered({Head(queue)}, "spawn_failed")
    /\ queue' = Tail(queue)
    /\ pc' = "restore"
    /\ UNCHANGED <<commands, handles, rejection_policy, after, held, missing,
                   count, oneshots>>

\* The calls that a failed spawn answers: the one it was for, and with
\* fail_queued all that wait when no worker is left.
DrainSpawnFails ==
    /\ DrainNeedsWorker
    /\ SpawnFails
    /\ LET failed == IF PoolSize = 0 THEN Range(queue) ELSE {Head(queue)}
       IN  answer' = Answered(failed, "spawn_failed")
    /\ queue' = IF PoolSize = 0 THEN <<>> ELSE Tail(queue)
    /\ pc' = "restore"
    /\ UNCHANGED <<commands, handles, rejection_policy, after, held, missing,
                   count, oneshots>>

DrainNothing ==
    /\ pc = "drain"
    /\ \/ queue = <<>>
       \/ Idle = {} /\ PoolSize # 0 /\ PoolSize >= CorePoolSize
    /\ pc' = "restore"
    /\ UNCHANGED <<answer, channelVars, budget, rejection_policy, after, held,
                   missing, workers, queue, next_worker_id, minimum_workers,
                   count, tasks, oneshots>>

-----------------------------------------------------------------------------
\* restore_core_workers: one iteration of its loop.

RestoreWorker ==
    /\ pc = "restore"
    /\ PoolSize < minimum_workers
    /\ SpawnWorker(IF queue = <<>> THEN NoCall ELSE Head(queue))
    /\ queue' = IF queue = <<>> THEN queue ELSE Tail(queue)
    /\ UNCHANGED <<answer, commands, handles, rejection_policy, pc, after,
                   held, missing, count, oneshots>>

RestoreStillborn ==
    /\ pc = "restore"
    /\ PoolSize < minimum_workers
    /\ queue # <<>>
    /\ SpawnStillborn
    /\ answer' = Answered({Head(queue)}, "spawn_failed")
    /\ queue' = Tail(queue)
    /\ UNCHANGED <<commands, handles, rejection_policy, pc, after, held,
                   missing, count, oneshots>>

RestoreFails ==
    /\ pc = "restore"
    /\ PoolSize < minimum_workers
    /\ SpawnFails
    /\ LET failed == IF PoolSize = 0 THEN Range(queue) ELSE {}
       IN  answer' = Answered(failed, "spawn_failed")
    /\ queue' = IF PoolSize = 0 THEN <<>> ELSE queue
    /\ pc' = "select"
    /\ UNCHANGED <<commands, handles, rejection_policy, after, held, missing,
                   count, oneshots>>

RestoreDone ==
    /\ pc = "restore"
    /\ PoolSize >= minimum_workers
    /\ pc' = "select"
    /\ UNCHANGED <<answer, channelVars, budget, rejection_policy, after, held,
                   missing, workers, queue, next_worker_id, minimum_workers,
                   count, tasks, oneshots>>

-----------------------------------------------------------------------------
\* Slip: any worker that has not changed state for keep_alive expires.
RetireBusyWorkers ==
    /\ pc = "select"
    /\ queue = <<>>
    /\ \E R \in SUBSET DOMAIN workers :
          /\ R # {}
          /\ Cardinality(R) <= PoolSize - CorePoolSize
          /\ RemoveWorkers(R)
    /\ UNCHANGED <<answer, channelVars, budget, rejection_policy, pc, after,
                   held, missing, queue, next_worker_id, minimum_workers,
                   count, oneshots>>

\* Slip: one worker too many is kept.
RetireTooFew ==
    /\ pc = "select"
    /\ queue = <<>>
    /\ \E R \in SUBSET Idle :
          /\ R # {}
          /\ Cardinality(R) < PoolSize - CorePoolSize
          /\ RemoveWorkers(R)
    /\ UNCHANGED <<answer, channelVars, budget, rejection_policy, pc, after,
                   held, missing, queue, next_worker_id, minimum_workers,
                   count, oneshots>>

(***************************************************************************)
(* retire_idle_workers, at a tick: R are the first of the workers that     *)
(* have been idle for keep_alive, as many as exceed the core.  Time is     *)
(* left out, so any set of idle workers may be the expired ones; and the   *)
(* map has no order, so any of those may come first.                       *)
(***************************************************************************)
RetireIdleWorkers ==
    /\ pc = "select"
    /\ queue = <<>>
    /\ \E R \in SUBSET Idle :
          /\ R # {}
          /\ Cardinality(R) <= PoolSize - CorePoolSize
          /\ RemoveWorkers(R)
    /\ UNCHANGED <<answer, channelVars, budget, rejection_policy, pc, after,
                   held, missing, queue, next_worker_id, minimum_workers,
                   count, oneshots>>

PlaceJob ==
    \/ PlaceOnIdle
    \/ PlaceOnIdleFails
    \/ StartJob
    \/ StartJobFails
    \/ Enqueue
    \/ ApplyRejectionPolicy

HandleCommand ==
    \/ HandleSubmit
    \/ HandlePrestart
    \/ PrestartWorker
    \/ PrestartStillborn
    \/ PrestartFails
    \/ PrestartDone
    \/ HandleShutdown
    \/ HandlesDropped

HandleWorkerEvent ==
    \/ HandleFinished
    \/ HandleOneShotFinished
    \/ HandleStopped

DrainOneQueuedTask ==
    \/ DrainToIdle
    \/ DrainToIdleFails
    \/ DrainToNew
    \/ DrainToStillborn
    \/ DrainSpawnFails
    \/ DrainNothing

RestoreCoreWorkers ==
    \/ RestoreWorker
    \/ RestoreStillborn
    \/ RestoreFails
    \/ RestoreDone

SupervisorStep ==
    \/ HandleCommand
    \/ PlaceJob
    \/ HandleWorkerEvent
    \/ DrainOneQueuedTask
    \/ RestoreCoreWorkers
    \/ RetireIdleWorkers
=============================================================================

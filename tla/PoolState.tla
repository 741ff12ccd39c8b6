------------------------------ MODULE PoolState ------------------------------
(***************************************************************************)
(* The state of one process pool (src/src/pool.rs): the channels between   *)
(* the callers, the supervisor task and the worker tasks, the supervisor's *)
(* own fields, and the worker tasks with their child processes.  The       *)
(* modules Supervisor and WorkerTask hold the steps of the two kinds of    *)
(* task; ProcessPool composes them with the callers.                       *)
(*                                                                         *)
(* A call of ProcessPool::execute is a number, given in the order in which *)
(* the callers send.  It is at once the Submit command, the Job made from  *)
(* it (Supervisor::next_job_id counts in the same order) and the sending   *)
(* half of its oneshot channel, so a call that is dropped is answered      *)
(* "closed", as PoolError::Closed is what execute makes of a dropped       *)
(* sender.  Payloads, results and durations are left out.                  *)
(***************************************************************************)
EXTENDS Integers, Sequences, FiniteSets, Functions

CONSTANTS
    CorePoolSize,       \* PoolConfig::core_pool_size
    MaximumPoolSize,    \* PoolConfig::maximum_pool_size
    QueueCapacity,      \* WorkQueueConfig::capacity()
    RejectionPolicies,  \* the values of rejected_execution_handler explored
    MaxCalls,           \* bound: calls of execute
    MaxPrestarts,       \* bound: calls of prestart_core_workers
    MaxCloses,          \* bound: calls of shutdown, and the drop of the handles
    MaxSpawnFailures,   \* bound: failures of spawn_child for a worker
    MaxFaults           \* bound: exits of children and exchanges that fail

\* What PoolConfig::validate demands of a configuration.
ASSUME ConfigAssumption ==
    /\ CorePoolSize \in Nat
    /\ MaximumPoolSize \in Nat \ {0}
    /\ CorePoolSize <= MaximumPoolSize
    /\ QueueCapacity \in Nat
    /\ RejectionPolicies
         \subseteq {"abort", "discard", "discard_oldest", "caller_runs"}

ASSUME BoundAssumption ==
    /\ MaxCalls \in Nat
    /\ MaxPrestarts \in Nat
    /\ MaxCloses \in Nat
    /\ MaxSpawnFailures \in Nat
    /\ MaxFaults \in Nat

Calls == 1 .. MaxCalls
NoCall == 0          \* no job: an idle worker, an empty hand
NoWorker == 0        \* worker ids start at 1

(***************************************************************************)
(* How running a request can end.  After "ok" and "returned"               *)
(* (PoolError::WorkerReturned) the worker is reusable; "broken" stands for *)
(* TaskTimeout, WorkerIo, WorkerExited and Protocol, and for the           *)
(* SpawnFailed of a one-shot process: all are counted as failed tasks.     *)
(***************************************************************************)
Reusable == {"ok", "returned"}
Outcomes == Reusable \cup {"broken"}

\* What execute returns; "spawn_failed" is the supervisor's own SpawnFailed.
Answers == Outcomes \cup {"spawn_failed", "rejected", "discarded", "closed"}

VARIABLES
    answer,           \* what became of each call
    commands,         \* command_rx: what the handles sent
    events,           \* event_rx: what worker and one-shot tasks sent
    handles,          \* a clone of the ProcessPool handle is alive
    budget,           \* what remains of the bounds above
    rejection_policy, \* config.rejected_execution_handler
    pc,               \* where the supervisor is in its handlers
    after,            \* the statement that follows the current place_job
    held,             \* the job place_job is looking for a place for
    missing,          \* iterations left of the loop of prestart_core_workers
    workers,          \* HashMap of slots: id -> the call it runs, or NoCall
    queue,            \* the VecDeque of waiting jobs
    next_worker_id,
    minimum_workers,
    count,            \* the four task counters of PoolStats
    tasks,            \* the live worker_loop tasks
    oneshots          \* the calls that run in a one-shot process

channelVars == <<commands, events, handles>>
supervisorVars == <<rejection_policy, pc, after, held, missing, workers, queue,
                    next_worker_id, minimum_workers, count>>
vars == <<answer, commands, events, handles, budget, rejection_policy, pc,
          after, held, missing, workers, queue, next_worker_id,
          minimum_workers, count, tasks, oneshots>>

-----------------------------------------------------------------------------
\* The function f with the value v at x, x being in its domain or not.
With(f, x, v) == [y \in DOMAIN f \cup {x} |-> IF y = x THEN v ELSE f[y]]

\* The function f without the elements S in its domain.
Without(f, S) == [y \in DOMAIN f \ S |-> f[y]]

\* The calls S get the answer a: their sending halves are consumed.
Answered(S, a) == [j \in Calls |-> IF j \in S THEN a ELSE answer[j]]

PoolSize == Cardinality(DOMAIN workers)
Idle == {w \in DOMAIN workers : workers[w] = NoCall}

(***************************************************************************)
(* The receiver of worker w's jobs is a local of worker_loop: it lives     *)
(* exactly as long as that task, and a send to it fails afterwards.        *)
(***************************************************************************)
Receives(w) == w \in DOMAIN tasks

(***************************************************************************)
(* A worker task: at "select" it waits for a job or for its child's exit,  *)
(* at "exchange" it runs exchange_with_timeout, at "kill" it has left the  *)
(* loop and kills its child.  abort: JoinHandle::abort was called, which   *)
(* cancels the task at one of its next awaits.                             *)
(***************************************************************************)
NewTask(inbox) ==
    [at |-> "select", inbox |-> inbox, call |-> NoCall, alive |-> TRUE,
     abort |-> FALSE]

\* The jobs that a worker task owns, and that die with it.
Owned(w) == Range(tasks[w].inbox) \cup ({tasks[w].call} \ {NoCall})

Submit(j) == [kind |-> "submit", call |-> j]
PrestartCommand == [kind |-> "prestart", call |-> NoCall]
ShutdownCommand == [kind |-> "shutdown", call |-> NoCall]

Finished(w, j, o) ==
    [kind |-> "finished", worker |-> w, call |-> j, outcome |-> o]
OneShotFinished(j, o) ==
    [kind |-> "oneshot", worker |-> NoWorker, call |-> j, outcome |-> o]
Stopped(w) ==
    [kind |-> "stopped", worker |-> w, call |-> NoCall, outcome |-> "broken"]

\* The jobs that the messages of a channel carry.
Carried(channel) == {channel[i].call : i \in DOMAIN channel} \ {NoCall}
=============================================================================

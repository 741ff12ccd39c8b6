------------------------------ MODULE ProcessPool ------------------------------
(***************************************************************************)
(* One process pool: the callers that hold ProcessPool handles, composed   *)
(* with the supervisor task (Supervisor) and with the worker tasks and     *)
(* their child processes (WorkerTask), and the properties of the whole.    *)
(***************************************************************************)
EXTENDS Supervisor, WorkerTask

Init ==
    /\ answer = [j \in Calls |-> "unsent"]
    /\ commands = <<>>
    /\ events = <<>>
    /\ handles = TRUE
    /\ budget = [prestart |-> MaxPrestarts, close |-> MaxCloses,
                 fault |-> MaxFaults, spawn |-> MaxSpawnFailures]
    /\ rejection_policy \in RejectionPolicies
    /\ pc = "select"
    /\ after = "select"
    /\ held = NoCall
    /\ missing = 0
    /\ workers = <<>>
    /\ queue = <<>>
    /\ next_worker_id = 1
    /\ minimum_workers = 0
    /\ count = [completed |-> 0, failed |-> 0, rejected |-> 0, caller_runs |-> 0]
    /\ tasks = <<>>
    /\ oneshots = {}

-----------------------------------------------------------------------------
\* The callers.  A send fails once the supervisor has dropped its receiver.

Execute(j) ==
    /\ handles
    /\ answer[j] = "unsent"
    /\ \A i \in 1 .. (j - 1) : answer[i] # "unsent"
    /\ IF pc = "closed"
         THEN /\ answer' = [answer EXCEPT ![j] = "closed"]
              /\ UNCHANGED commands
         ELSE /\ answer' = [answer EXCEPT ![j] = "waiting"]
              /\ commands' = Append(commands, Submit(j))
    /\ UNCHANGED <<events, handles, budget, supervisorVars, tasks, oneshots>>

Prestart ==
    /\ handles
    /\ pc # "closed"
    /\ budget.prestart > 0
    /\ budget' = [budget EXCEPT !.prestart = @ - 1]
    /\ commands' = Append(commands, PrestartCommand)
    /\ UNCHANGED <<answer, events, handles, supervisorVars, tasks, oneshots>>

Shutdown ==
    /\ handles
    /\ pc # "closed"
    /\ budget.close > 0
    /\ budget' = [budget EXCEPT !.close = @ - 1]
    /\ commands' = Append(commands, ShutdownCommand)
    /\ UNCHANGED <<answer, events, handles, supervisorVars, tasks, oneshots>>

\* The last clone of the handle is dropped; the futures of calls that still
\* wait are dropped before it, and what the pool answers them goes nowhere.
DropHandles ==
    /\ handles
    /\ budget.close > 0
    /\ budget' = [budget EXCEPT !.close = @ - 1]
    /\ handles' = FALSE
    /\ UNCHANGED <<answer, commands, events, supervisorVars, tasks, oneshots>>

(***************************************************************************)
(* Nothing is under way: every call that was sent is answered, and every   *)
(* worker task waits.  Only here may the system stay as it is.             *)
(***************************************************************************)
Quiescent ==
    /\ pc \in {"select", "closed"}
    /\ commands = <<>>
    /\ events = <<>>
    /\ oneshots = {}
    /\ \A j \in Calls : answer[j] # "waiting"
    /\ \A w \in DOMAIN tasks : tasks[w].at = "select" /\ ~tasks[w].abort
    /\ UNCHANGED vars

ClientStep ==
    \/ \E j \in Calls : Execute(j)
    \/ Prestart
    \/ Shutdown
    \/ DropHandles

Next ==
    \/ ClientStep
    \/ SupervisorStep
    \/ \E w \in DOMAIN tasks : WorkerStep(w) \/ ChildExits(w)
    \/ \E j \in Calls : OneShotStep(j)
    \/ Quiescent

Spec == Init /\ [][Next]_vars

(***************************************************************************)
(* Fairness.  The runtime polls every task that is ready, so the           *)
(* supervisor, the worker tasks and the one-shot tasks make progress.  An  *)
(* exchange ends, at the latest by its timeout.  The tick makes the        *)
(* supervisor retire workers while nothing else happens.  Nothing is       *)
(* assumed of the callers, nor that a child ever exits.  The calls being   *)
(* finitely many, fairness to the workers together is enough.              *)
(***************************************************************************)
Fairness ==
    /\ WF_vars(SupervisorStep)
    /\ WF_vars(\E w \in DOMAIN tasks : WorkerStep(w))
    /\ WF_vars(\E j \in Calls : OneShotStep(j))

FairSpec == Spec /\ Fairness

-----------------------------------------------------------------------------
(***************************************************************************)
(* Type invariant.                                                         *)
(***************************************************************************)
Commands ==
    [kind : {"submit"}, call : Calls]
    \cup [kind : {"prestart", "shutdown"}, call : {NoCall}]
Events ==
    [kind : {"finished", "oneshot"}, worker : Nat, call : Calls,
     outcome : Outcomes]
    \cup [kind : {"stopped"}, worker : Nat, call : {NoCall}, outcome : Outcomes]
Tasks ==
    [at : {"select", "kill"}, inbox : Seq(Calls), call : {NoCall},
     alive : BOOLEAN, abort : BOOLEAN]
    \cup [at : {"exchange"}, inbox : Seq(Calls), call : Calls,
          alive : BOOLEAN, abort : BOOLEAN]

Budgets == [prestart : Nat, close : Nat, fault : Nat, spawn : Nat]
Counters == [completed : Nat, failed : Nat, rejected : Nat, caller_runs : Nat]

\* Every variable has its type.  Of the code: the ids of the slots and of the
\* tasks were all handed out by spawn_worker, place_job has a job to place
\* exactly while it runs, and the select of run finds none in hand.
TypeOK ==
    /\ answer \in [Calls -> Answers \cup {"unsent", "waiting"}]
    /\ commands \in Seq(Commands)
    /\ events \in Seq(Events)
    /\ handles \in BOOLEAN
    /\ budget \in Budgets
    /\ rejection_policy \in RejectionPolicies
    /\ pc \in {"select", "place", "reuse", "drain", "restore", "prestart", "closed"}
    /\ after \in {"select", "restore", "prestart"}
    /\ held \in Calls \cup {NoCall}
    /\ (held # NoCall) <=> (pc \in {"place", "reuse"})
    /\ missing \in Nat
    /\ next_worker_id \in Nat \ {0}
    /\ DOMAIN workers \subseteq 1 .. (next_worker_id - 1)
    /\ workers \in [DOMAIN workers -> Calls \cup {NoCall}]
    /\ queue \in Seq(Calls)
    /\ minimum_workers \in Nat
    /\ count \in Counters
    /\ DOMAIN tasks \subseteq 1 .. (next_worker_id - 1)
    /\ tasks \in [DOMAIN tasks -> Tasks]
    /\ oneshots \subseteq Calls

-----------------------------------------------------------------------------
(***************************************************************************)
(* Safety.                                                                 *)
(***************************************************************************)

\* Where call j is: the channels and data structures that hold its job.
Holders(j) ==
    {h \in {"commands", "events", "queue", "hand", "oneshot"} :
        \/ h = "commands" /\ j \in Carried(commands)
        \/ h = "events" /\ j \in Carried(events)
        \/ h = "queue" /\ j \in Range(queue)
        \/ h = "hand" /\ j = held
        \/ h = "oneshot" /\ j \in oneshots}
    \cup {w \in DOMAIN tasks : j \in Owned(w)}

\* No job is lost or duplicated on its way through the supervisor and the
\* workers: a call that waits is in one place, once, and a call that was
\* answered is nowhere (its oneshot sender is consumed).
EveryCallInOnePlace ==
    /\ \A j \in Calls :
          Cardinality(Holders(j)) = IF answer[j] = "waiting" THEN 1 ELSE 0
    /\ IsInjective(queue)

\* The sizes the configuration promises hold through every path that starts a
\* worker or queues a job: place_job, the drain, the restoring of the core and
\* prestart_core_workers, which may call place_job between two of its spawns.
PoolBounds ==
    /\ PoolSize <= MaximumPoolSize
    /\ Len(queue) <= QueueCapacity
    /\ minimum_workers <= CorePoolSize
    /\ missing > 0 => PoolSize + missing <= CorePoolSize

\* drain_one_queued_task hands out one job per event, which suffices because a
\* job never waits while a worker is idle: except for the one worker whose
\* Finished event is being handled.
NoIdleWhileQueued ==
    queue # <<>> => \A v, w \in Idle : pc = "drain" /\ v = w

\* The queue is only drained by Finished and Stopped events, so while the
\* supervisor waits and jobs are queued such an event is pending or will come
\* from a worker that has a job: even when every worker that was idle died
\* before the dispatch to it, or no worker could be started.
QueueNeverStranded ==
    pc = "select" /\ queue # <<>> =>
        \/ \E i \in DOMAIN events : events[i].kind \in {"finished", "stopped"}
        \/ \E w \in DOMAIN tasks : w \in DOMAIN workers /\ Owned(w) # {}

\* While no spawn has failed, the core that was once started is complete
\* whenever the supervisor waits, but for the workers that a failed dispatch
\* removed and whose Stopped events, still pending, will have them replaced.
CoreRestored ==
    LET dead == {events[i].worker : i \in {k \in DOMAIN events :
                                           events[k].kind = "stopped"}}
    IN  pc = "select" /\ budget.spawn = MaxSpawnFailures =>
          minimum_workers <= PoolSize + Cardinality(dead \ DOMAIN workers)

\* A worker has at most one job, taken or in its unbounded inbox: the idle_since
\* of the slot agrees with what the task does, whatever events are pending.
OneJobPerWorker == \A w \in DOMAIN tasks : Cardinality(Owned(w)) <= 1

\* remove_worker aborts the task, whatever it does: outside of a shutdown that
\* never takes a job along.
AbortLosesNoJob ==
    pc # "closed" => \A w \in DOMAIN tasks : tasks[w].abort => Owned(w) = {}

\* No process outlives its slot: a task the map has forgotten is being stopped.
NoLeakedProcess == \A w \in DOMAIN tasks \ DOMAIN workers : tasks[w].abort

\* The counters of PoolStats and the answers agree: a call counts as completed
\* or failed when its answer tells how its run ended (in a worker or in a
\* one-shot process), and as rejected when it was answered so or moved to its
\* caller; a call dropped, or failed before it ran, is in none of them.
CountersMatchAnswers ==
    LET with(S) == Cardinality({j \in Calls : answer[j] \in S})
    IN  /\ count.completed = with({"ok"})
        /\ count.failed = with({"returned", "broken"})
        /\ count.rejected = with({"rejected", "discarded"}) + count.caller_runs

\* The inductive invariant behind PoolBounds and NoIdleWhileQueued: a loop of
\* prestart_core_workers is under way exactly while iterations are left to it
\* or place_job will return to it; place_job finds room in the core then, so it
\* starts a worker at once, in place of the one that was lost.
PoolInv ==
    /\ PoolBounds
    /\ NoIdleWhileQueued
    /\ after # "select" => pc \in {"place", "reuse"}
    /\ missing > 0 => "prestart" \in {pc, after}
    /\ after = "prestart" => pc = "place" /\ PoolSize + missing < CorePoolSize

-----------------------------------------------------------------------------
(***************************************************************************)
(* Action properties.                                                      *)
(***************************************************************************)

\* The calls whose payload a process has been given, and those still to run.
Running == {tasks[w].call : w \in DOMAIN tasks} \ {NoCall}
Started == Running \cup Carried(events) \cup oneshots
ToRun == Range(queue) \cup {held} \cup Carried(commands)
            \cup UNION {Range(tasks[w].inbox) : w \in DOMAIN tasks}

\* At most once: a job that was given to a process is never run again, nor
\* placed again when its worker broke or its one-shot process failed.
NeverRunAgain == [][Started \cap ToRun' = {}]_vars

\* "Queued and in-flight calls finish with `Closed`" (pool.rs:76): the results
\* that workers and one-shot processes still produce reach nobody.
ClosedAnswersClosed ==
    [][\A j \in Calls :
          pc' = "closed" /\ answer'[j] # answer[j] => answer'[j] = "closed"]_vars

-----------------------------------------------------------------------------
(***************************************************************************)
(* Liveness, under FairSpec.                                               *)
(***************************************************************************)

\* Every call of execute returns, whatever dies or fails on the way.
EveryCallAnswered ==
    \A j \in Calls : answer[j] = "waiting" ~> answer[j] \in Answers

\* After the pool has closed every worker and every one-shot process ends.
ClosedPoolStopsProcesses ==
    pc = "closed" ~> (DOMAIN tasks = {} /\ oneshots = {})

\* Workers above the core size are retired in the end: callers that stop
\* calling leave no more than the core behind.
ExcessRetired == <>[](PoolSize <= CorePoolSize)

-----------------------------------------------------------------------------
(***************************************************************************)
(* What comments and error texts say, and the code does not do.            *)
(***************************************************************************)

\* error.rs:19 gives Closed the text "the process pool is closed", and only
\* shutdown is documented (pool.rs:76) to answer it.
ClosedOnlyAfterShutdown ==
    \A j \in Calls : answer[j] = "closed" => pc = "closed"
=============================================================================

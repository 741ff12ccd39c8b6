----------------------------- MODULE AgentManager -----------------------------
(***************************************************************************)
(* The manager of src/src/agents.rs: cc.prepare, cc.create, cc.stop,       *)
(* cc.restart and shutdown, which take their turns at the lifecycle lock,  *)
(* the registry, the capacity slots, and the tasks of the agents, which    *)
(* take no part in that lock and end when they please.                     *)
(*                                                                         *)
(* Of an agent only what the manager looks at is kept: of its states       *)
(* whether they are running(), and of its control channel the Stops.       *)
(* AgentSession shows (LifeSpec) that the task of an agent is as its       *)
(* state says; the states here are written by the same steps.  A call may  *)
(* be abandoned at any await: the server drops the handler when its client *)
(* goes away.                                                              *)
(***************************************************************************)
EXTENDS Integers, Sequences, FiniteSets, FiniteSetsExt, Functions

CONSTANTS
    MaxAgents,       \* max_agents, the number of slots
    RecordLimit,     \* records kept (128)
    Ids,             \* bound: agents ever created, 1 .. n
    MaxGenerations,  \* bound: processes started for an agent
    MaxCalls,        \* bound: lifecycle calls
    MaxFailures,     \* bound: agents that fail, failing git and spawns
    MaxAbandoned     \* bound: full channels, timeouts and dropped handlers

ASSUME ManagerAssumption ==
    /\ {MaxAgents, RecordLimit, Ids, MaxGenerations} \subseteq Nat \ {0}
    /\ {MaxCalls, MaxFailures, MaxAbandoned} \subseteq Nat

Agents == 1 .. Ids
Generations == 1 .. MaxGenerations
Calls == 1 .. MaxCalls
Slots == 1 .. MaxAgents
None == 0

VARIABLES
    lifecycle,   \* the lock: the call that holds it, and closed
    registry,    \* agent -> generation its handle belongs to; None: no record
    info,        \* AgentInfo: state, generation, slot
    tasks,       \* run_agent of an agent and generation: run, the Stops in
                 \* its channel, and the call that stop_reply answers
    calls,       \* the lifecycle calls
    repository,  \* the base clone: "absent", "partial" or "ready"
    budget       \* what remains of the bounds

vars == <<lifecycle, registry, info, tasks, calls, repository, budget>>

NewTask == [run |-> "loop", stops |-> <<>>, stop_reply |-> None]
NoTask == [run |-> "none", stops |-> <<>>, stop_reply |-> None]
NewCall == [method |-> "none", agent |-> None, generation |-> None, pc |-> "idle",
            todo |-> {}, seen |-> {}, waits |-> {}, slot |-> None,
            answer |-> "none"]

\* The server has started, or has run for a while: the lock is free, and an
\* agent with the first slot runs.
Init ==
    \E running \in {{}, {1}}, base \in {"absent", "ready"} :
        /\ running = {} \/ base = "ready"
        /\ lifecycle = [holder |-> None, closed |-> FALSE]
        /\ registry = [a \in Agents |-> IF a \in running THEN 1 ELSE None]
        /\ info = [a \in Agents |->
                      IF a \in running
                        THEN [state |-> "running", generation |-> 1, slot |-> 1]
                        ELSE [state |-> "none", generation |-> 1, slot |-> None]]
        /\ tasks = [a \in Agents |-> [g \in Generations |->
                      IF a \in running /\ g = 1 THEN NewTask ELSE NoTask]]
        /\ calls = [c \in Calls |-> NewCall]
        /\ repository = base
        /\ budget = [failure |-> MaxFailures, abandoned |-> MaxAbandoned]

Registered == {a \in Agents : registry[a] # None}

Spend(kind) ==
    /\ budget[kind] > 0
    /\ budget' = [budget EXCEPT ![kind] = @ - 1]

At(c, pc) == calls[c].pc = pc
Goto(c, pc) == calls' = [calls EXCEPT ![c].pc = pc]

\* The handler returns: its locals go, and its guard of the lifecycle lock.
Return(c, answer) ==
    /\ calls' = [calls EXCEPT ![c] = [NewCall EXCEPT !.method = calls[c].method,
                                                     !.pc = "done",
                                                     !.answer = answer]]
    /\ lifecycle' = [lifecycle EXCEPT !.holder = IF @ = c THEN None ELSE @]

\* A scan of the records of the registry begins: the agents to look at.
StartScan(c, pc) ==
    calls' = [calls EXCEPT ![c].pc = pc, ![c].seen = {}, ![c].slot = None,
                           ![c].todo = Registered \ {calls[c].agent}]

-----------------------------------------------------------------------------
Methods == {"prepare", "create", "stop", "restart", "shutdown"}

\* The bound: each create that is under way needs an id that is still unused.
Creating == {d \in Calls : calls[d].method = "create" /\ ~At(d, "done")
                           /\ ~At(d, "insert")}
Unused == {a \in Agents : info[a].state = "none"}

\* A client calls: for an agent and a generation it may have seen.
Call(c) ==
    /\ At(c, "idle")
    /\ \A d \in 1 .. (c - 1) : ~At(d, "idle")
    /\ \E m \in Methods :
         IF m \notin {"stop", "restart"}
           THEN /\ m = "create" => Cardinality(Creating) < Cardinality(Unused)
                /\ calls' = [calls EXCEPT ![c].method = m, ![c].pc = "lock"]
           ELSE \E a \in Agents : \E g \in 1 .. info[a].generation :
                  /\ m = "restart" => g < MaxGenerations
                  /\ calls' = [calls EXCEPT ![c].method = m, ![c].pc = "lock",
                                            ![c].agent = a, ![c].generation = g]
    /\ UNCHANGED <<lifecycle, registry, info, tasks, repository, budget>>

\* lifecycle.lock(), which tokio grants in the order of the calls, and what the
\* call does first.
Acquire(c) ==
    /\ At(c, "lock")
    /\ lifecycle.holder = None
    /\ \A d \in 1 .. (c - 1) : ~At(d, "lock")
    /\ IF calls[c].method = "shutdown"
         THEN /\ lifecycle' = [holder |-> c, closed |-> TRUE]
              /\ StartScan(c, "stopping")
         ELSE IF lifecycle.closed
         THEN Return(c, "closing")
         ELSE /\ lifecycle' = [lifecycle EXCEPT !.holder = c]
              /\ CASE calls[c].method = "prepare" -> Goto(c, "prepare")
                   [] calls[c].method = "create" -> StartScan(c, "scan_slot")
                   [] OTHER -> Goto(c, "read")
    /\ UNCHANGED <<registry, info, tasks, repository, budget>>

\* prepare: claude --version, the clone unless a directory is there, and the
\* check of its origin, which a clone that was killed half-way passes too.
Prepare(c) ==
    /\ At(c, "prepare")
    /\ \/ /\ repository' = IF repository = "absent" THEN "ready" ELSE repository
          /\ Return(c, "ok")
          /\ UNCHANGED budget
       \/ /\ Spend("failure")
          /\ repository' \in IF repository = "absent" THEN {"absent", "partial"}
                                                      ELSE {repository}
          /\ Return(c, "error")
    /\ UNCHANGED <<registry, info, tasks>>

-----------------------------------------------------------------------------
\* occupied_slots locks one record after the other, while agents change.

\* Slip: only the slots of agents that run are occupied.
ScanRunningOnly(c) ==
    /\ calls[c].pc \in {"scan_slot", "scan_count"}
    /\ \E a \in calls[c].todo :
         calls' = [calls EXCEPT
                     ![c].todo = @ \ {a},
                     ![c].seen = IF info[a].state # "running" THEN @
                                 ELSE @ \cup {info[a].slot}]
    /\ UNCHANGED <<lifecycle, registry, info, tasks, repository, budget>>

Scan(c) ==
    /\ calls[c].pc \in {"scan_slot", "scan_count"}
    /\ \E a \in calls[c].todo :
         calls' = [calls EXCEPT
                     ![c].todo = @ \ {a},
                     ![c].seen = IF info[a].state = "stopped" THEN @
                                 ELSE @ \cup {info[a].slot}]
    /\ UNCHANGED <<lifecycle, registry, info, tasks, repository, budget>>

Scanned(c, method, pc) ==
    /\ calls[c].method = method
    /\ At(c, pc)
    /\ calls[c].todo = {}
    /\ UNCHANGED <<registry, tasks, repository, budget>>

\* create takes the first slot that is not occupied.
TakeSlot(c) ==
    /\ Scanned(c, "create", "scan_slot")
    /\ LET free == Slots \ calls[c].seen
       IN  IF free = {} \/ Cardinality(Registered) >= RecordLimit
             THEN Return(c, "limit")
             ELSE /\ calls' = [calls EXCEPT ![c].pc = "worktree",
                                            ![c].slot = Min(free)]
                  /\ UNCHANGED lifecycle
    /\ UNCHANGED info

\* restart wants the slot the agent had (slot_in_use) ...
KeepSlot(c) ==
    /\ Scanned(c, "restart", "scan_slot")
    /\ IF info[calls[c].agent].slot \in calls[c].seen
         THEN Return(c, "slot taken")
         ELSE StartScan(c, "scan_count") /\ UNCHANGED lifecycle
    /\ UNCHANGED info

\* ... and capacity left; then the generation is raised.
Raise(c) ==
    /\ Scanned(c, "restart", "scan_count")
    /\ IF Cardinality(calls[c].seen) >= MaxAgents
         THEN Return(c, "limit") /\ UNCHANGED info
         ELSE /\ info' = [info EXCEPT ![calls[c].agent].generation = @ + 1]
              /\ Goto(c, "spawn")
              /\ UNCHANGED lifecycle

\* verify_repository and git worktree add; the agent gets a fresh id.
Worktree(c) ==
    /\ At(c, "worktree")
    /\ \/ \E a \in Agents :
            /\ repository = "ready"
            /\ info[a].state = "none"
            /\ \A b \in 1 .. (a - 1) : info[b].state # "none"
            /\ calls' = [calls EXCEPT ![c].pc = "spawn", ![c].agent = a]
            /\ UNCHANGED <<lifecycle, budget>>
       \/ /\ IF repository = "ready" THEN Spend("failure") ELSE UNCHANGED budget
          /\ Return(c, "error")
    /\ UNCHANGED <<registry, info, tasks, repository>>

\* spawn: the process and its task start, or the record shows the failure; a
\* record that create cannot start an agent for is dropped.
Spawn(c) ==
    LET a == calls[c].agent
        slot == IF calls[c].method = "create" THEN calls[c].slot ELSE info[a].slot
    IN  /\ At(c, "spawn")
        /\ \/ /\ info' = [info EXCEPT ![a].state = "running", ![a].slot = slot]
              /\ tasks' = [tasks EXCEPT ![a][info[a].generation] = NewTask]
              /\ Goto(c, "insert")
              /\ UNCHANGED <<lifecycle, budget>>
           \/ /\ Spend("failure")
              /\ info' = [info EXCEPT ![a].state = "failed", ![a].slot = slot]
              /\ Return(c, "error")
              /\ UNCHANGED tasks
        /\ UNCHANGED <<registry, repository>>

\* The new handle goes to the registry.
Insert(c) ==
    /\ At(c, "insert")
    /\ registry' = [registry EXCEPT
                       ![calls[c].agent] = info[calls[c].agent].generation]
    /\ Return(c, "ok")
    /\ UNCHANGED <<info, tasks, repository, budget>>

-----------------------------------------------------------------------------
\* cc.stop and cc.restart: the record is read, and its lock released.  What is
\* done next follows what was read.
ReadState(c) ==
    LET a == calls[c].agent
    IN  /\ At(c, "read")
        /\ IF a \notin Registered
             THEN Return(c, "unknown")
             ELSE IF info[a].generation # calls[c].generation
             THEN Return(c, "stale")
             ELSE /\ UNCHANGED lifecycle
                  /\ IF info[a].state = "running" THEN Goto(c, "send")
                     ELSE IF calls[c].method = "restart" THEN StartScan(c, "scan_slot")
                     ELSE Goto(c, "release")
        /\ UNCHANGED <<registry, info, tasks, repository, budget>>

\* cc.stop of an agent that does not run frees the slot of a failed one.
Release(c) ==
    LET a == calls[c].agent
    IN  /\ At(c, "release")
        /\ info' = [info EXCEPT ![a].state = IF @ = "failed" THEN "stopped" ELSE @]
        /\ Return(c, "ok")
        /\ UNCHANGED <<registry, tasks, repository, budget>>

\* request(handle, generation, Stop): try_send to the task of the handle, which
\* may be over since, or whose channel may be full of other requests.
Queued(c, a) ==
    /\ tasks[a][registry[a]].run # "over"
    /\ tasks' = [tasks EXCEPT ![a][registry[a]].stops = Append(@, c)]
    /\ UNCHANGED budget

NotQueued(a) ==
    /\ IF tasks[a][registry[a]].run = "over" THEN UNCHANGED budget
                                             ELSE Spend("abandoned")
    /\ UNCHANGED tasks

SendStop(c) ==
    /\ At(c, "send")
    /\ \/ Queued(c, calls[c].agent) /\ Goto(c, "wait") /\ UNCHANGED lifecycle
       \/ NotQueued(calls[c].agent) /\ Return(c, "error")
    /\ UNCHANGED <<registry, info, repository>>

\* shutdown asks every registered agent that runs.
ShutdownStop(c) ==
    /\ At(c, "stopping")
    /\ \E a \in calls[c].todo :
        /\ info[a].state = "running"
        /\ \/ Queued(c, a) /\ calls' = [calls EXCEPT ![c].todo = @ \ {a},
                                                     ![c].waits = @ \cup {a}]
           \/ NotQueued(a) /\ calls' = [calls EXCEPT ![c].todo = @ \ {a}]
    /\ UNCHANGED <<lifecycle, registry, info, repository>>

\* Slip: shutdown does not wait for the requests it has started.
ShutdownUnjoined(c) ==
    /\ At(c, "stopping")
    /\ \A a \in calls[c].todo : info[a].state # "running"
    /\ Return(c, "ok")
    /\ UNCHANGED <<registry, info, tasks, repository, budget>>

\* It returns when all of them are answered.
ShutdownJoined(c) ==
    /\ At(c, "stopping")
    /\ \A a \in calls[c].todo : info[a].state # "running"
    /\ calls[c].waits = {}
    /\ Return(c, "ok")
    /\ UNCHANGED <<registry, info, tasks, repository, budget>>

\* The request for this agent gets its answer: a step of the call.
Answered(c, a, ok) ==
    CASE At(c, "stopping") -> [calls[c] EXCEPT !.waits = @ \ {a}]
      [] At(c, "wait") -> [calls[c] EXCEPT !.pc = IF ok THEN "stopped" ELSE "failed"]
      [] OTHER -> calls[c]

StopAnswered(c) ==
    /\ \/ At(c, "failed") /\ Return(c, "error")
       \/ At(c, "stopped") /\ calls[c].method = "stop" /\ Return(c, "ok")
       \/ /\ At(c, "stopped") /\ calls[c].method = "restart"
          /\ StartScan(c, "scan_slot")
          /\ UNCHANGED lifecycle
    /\ UNCHANGED <<registry, info, tasks, repository, budget>>

\* No answer in 10 s: the call goes on without it, the Stop stays queued.
Timeout(c) ==
    /\ Spend("abandoned")
    /\ \E a \in Agents :
        /\ \/ At(c, "wait") /\ a = calls[c].agent
           \/ At(c, "stopping") /\ a \in calls[c].waits
        /\ calls' = [calls EXCEPT ![c] = Answered(c, a, FALSE)]
    /\ UNCHANGED <<lifecycle, registry, info, tasks, repository>>

\* The handler is dropped at an await, with its guard and its new handle; a git
\* it waits for is killed.
Drop(c) ==
    /\ calls[c].pc \notin {"idle", "send", "done"}
    /\ Spend("abandoned")
    /\ Return(c, "dropped")
    /\ repository' \in IF At(c, "prepare") /\ repository = "absent"
                         THEN {"absent", "partial"} ELSE {repository}
    /\ UNCHANGED <<registry, info, tasks>>

-----------------------------------------------------------------------------
\* The tasks of the agents.

Leave(a, g, run) == tasks' = [tasks EXCEPT ![a][g].run = run]

\* Slip: the Stop is answered when the child is signalled.
TakeStopAnswering(a, g) ==
    /\ tasks[a][g].run = "loop"
    /\ tasks[a][g].stops # <<>>
    /\ tasks' = [tasks EXCEPT ![a][g] = [run |-> "stopping", stops |-> Tail(@.stops),
                                         stop_reply |-> None]]
    /\ info' = [info EXCEPT ![a].state = "stopped"]
    /\ calls' = [calls EXCEPT ![Head(tasks[a][g].stops)] =
                    Answered(Head(tasks[a][g].stops), a, TRUE)]
    /\ UNCHANGED <<lifecycle, registry, repository, budget>>

TakeStop(a, g) ==
    /\ tasks[a][g].run = "loop"
    /\ tasks[a][g].stops # <<>>
    /\ tasks' = [tasks EXCEPT ![a][g] = [run |-> "stopping", stops |-> Tail(@.stops),
                                         stop_reply |-> Head(@.stops)]]
    /\ UNCHANGED <<lifecycle, registry, info, calls, repository, budget>>

\* Claude exits, breaks the protocol, or does not answer the handshake.
Fail(a, g) ==
    /\ tasks[a][g].run = "loop"
    /\ Spend("failure")
    /\ Leave(a, g, "failing")
    /\ UNCHANGED <<lifecycle, registry, info, calls, repository>>

\* Slip: a select branch Some(command) = commands.recv() is never taken.
UnreachableIgnored(a, g) == FALSE

\* commands.recv() is None: no handle of this process is left.
Unreachable(a, g) ==
    /\ tasks[a][g].run = "loop"
    /\ tasks[a][g].stops = <<>>
    /\ registry[a] # g
    /\ \A c \in Calls : ~(At(c, "insert") /\ calls[c].agent = a)
    /\ Leave(a, g, "stopping")
    /\ UNCHANGED <<lifecycle, registry, info, calls, repository, budget>>

\* Slip: the requests left in the channel are never dropped.
FinishKeepingChannel(a, g) ==
    /\ tasks[a][g].run \in {"stopping", "failing"}
    /\ tasks' = [tasks EXCEPT ![a][g] = [NoTask EXCEPT !.run = "over"]]
    /\ info' = [info EXCEPT ![a].state = IF tasks[a][g].run = "stopping"
                                           THEN "stopped" ELSE "failed"]
    /\ calls' = [c \in Calls |-> IF c = tasks[a][g].stop_reply
                                  THEN Answered(c, a, TRUE) ELSE calls[c]]
    /\ UNCHANGED <<lifecycle, registry, repository, budget>>

\* The child is reaped, the record tells how it ended, and the requests left
\* learn that the process is gone.
Finish(a, g) ==
    /\ tasks[a][g].run \in {"stopping", "failing"}
    /\ tasks' = [tasks EXCEPT ![a][g] = [NoTask EXCEPT !.run = "over"]]
    /\ info' = [info EXCEPT ![a].state = IF tasks[a][g].run = "stopping"
                                           THEN "stopped" ELSE "failed"]
    /\ calls' = [c \in Calls |->
                   IF c = tasks[a][g].stop_reply THEN Answered(c, a, TRUE)
                   ELSE IF c \in Range(tasks[a][g].stops) THEN Answered(c, a, FALSE)
                   ELSE calls[c]]
    /\ UNCHANGED <<lifecycle, registry, repository, budget>>

-----------------------------------------------------------------------------
CallStep(c) ==
    \/ Acquire(c) \/ Prepare(c)
    \/ Scan(c) \/ TakeSlot(c) \/ KeepSlot(c) \/ Raise(c)
    \/ Worktree(c) \/ Spawn(c) \/ Insert(c)
    \/ ReadState(c) \/ Release(c) \/ SendStop(c) \/ StopAnswered(c)
    \/ ShutdownStop(c) \/ ShutdownJoined(c)

AgentStep(a, g) == TakeStop(a, g) \/ Unreachable(a, g) \/ Finish(a, g)

Next ==
    \/ \E c \in Calls : Call(c) \/ CallStep(c) \/ Timeout(c) \/ Drop(c)
    \/ \E a \in Agents, g \in Generations : AgentStep(a, g) \/ Fail(a, g)

Spec == Init /\ [][Next]_vars

\* The runtime polls every handler and every task; what a call waits for
\* outside - git, the child's end - is bounded by timeouts.  Nobody takes steps
\* for ever, so that fairness for all of them together is fairness for each.
FairSpec ==
    /\ Spec
    /\ WF_vars(\E c \in Calls : CallStep(c))
    /\ WF_vars(\E a \in Agents, g \in Generations : AgentStep(a, g))

-----------------------------------------------------------------------------
Alive(a, g) == tasks[a][g].run \in {"loop", "stopping", "failing"}

\* "Stable one-based capacity slot": no two agents of the registry that are not
\* stopped have the same slot, whatever agents failed, were released or came
\* back while the records were scanned one by one.
SlotsExclusive ==
    \A a, b \in Registered :
        /\ info[a].slot \in Slots
        /\ a # b /\ "stopped" \notin {info[a].state, info[b].state}
             => info[a].slot # info[b].slot

\* A worktree has one process at most, and the record that the manager decides
\* by tells of it, also when a stop timed out or a handler was dropped.
OneProcessPerAgent ==
    \A a \in Agents :
        /\ Cardinality({g \in Generations : Alive(a, g)}) <= 1
        /\ info[a].state = "running" <=> \E g \in Generations : Alive(a, g)

\* "A stop reply is sent only after the child has been reaped", and then the
\* slot of the agent is free.
StopMeansReaped ==
    [][\A c \in Calls : \A a \in Agents :
          /\ calls[c].method = "stop" /\ calls[c].agent = a
          /\ ~At(c, "done") /\ calls'[c].answer = "ok"
          => /\ info'[a].state = "stopped"
             /\ \A g \in Generations : ~Alive(a, g)']_vars

\* When shutdown has returned, no agent runs and none is started any more:
\* every call that could is before it or is refused.  Calls given up are left
\* to the timeouts and the kill_on_drop of the processes.
ShutdownStopsAll ==
    \A c \in Calls :
        calls[c].method = "shutdown" /\ calls[c].answer = "ok"
          /\ budget.abandoned = MaxAbandoned
            => \A a \in Agents, g \in Generations : ~Alive(a, g)

\* Every lifecycle call returns, and none waits for the lock for ever: there
\* are finitely many, so that it is enough to look at the end.
EveryCallReturns == <>[](\A c \in Calls : calls[c].pc \in {"idle", "done"})

\* A process whose handler went away before the registry had its handle ends,
\* and leaves only processes that the registry names.
OrphansEnd ==
    <>[](\A a \in Agents, g \in Generations : Alive(a, g) => registry[a] = g)
=============================================================================

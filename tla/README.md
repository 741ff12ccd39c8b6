# A TLA+ model of the process pool

This directory models the program of this repository: a Rust process pool that
keeps a bounded set of reusable worker processes, the HTTP server in front of it,
the manager of Claude Code agents beside it, and the page that drives the agents.
It holds the specifications (`*.tla`), TLC configurations (`*.cfg`), proofs checked
by TLAPS (`*Proofs.tla`), and `PROJECT.json`, which maps every definition to the
lines it translates.

    tlc -workers 2 -config ServerRequests.cfg Server     # a run; section 4 has all
    tlapm ServerProofs.tla                               # a proof module

Paths of Rust files below are relative to the crate (`pool.rs` is
`src/src/pool.rs`); `web/`, `docs/`, `tests/` and `README.md` are beside it.

## 1. Inventory of the system

| Part | Source | Kind of concurrency |
|---|---|---|
| Pool supervisor | `pool.rs` `Supervisor` | one tokio task, two unbounded mpsc channels, a tick |
| `ProcessPool` handle | `pool.rs` | cloned, used by any task |
| Worker and one-shot tasks | `pool.rs` `worker_loop`, `run_one_shot_worker` | one tokio task and one child process each |
| Worker protocol | `protocol.rs`, `exchange_*`, `docs/worker-protocol.md`, `bin/echo-worker.rs` | two pipes, lines |
| Configuration | `config.rs`, `error.rs` | none |
| HTTP server | `server.rs`, `bin/process-pool-server.rs` | requests share one mutex over the pool |
| Agent manager | `agents.rs` | one task and process per agent, shared records, a lifecycle lock, control channels |
| Web console | `web/agents.js`, `web/dashboard.js`, ... | callbacks of polls and actions |
| Page, styles, examples | `web/*.html`, `web/*.css`, `examples/` | none |

**Pool supervisor.** State: the map of worker slots (each with the instant since
when it is idle), the queue, the next ids, `minimum_workers` (the part of the core
that was once activated), four counters. Operations: the commands Submit,
Prestart, Stats, Shutdown; the events Finished, OneShotFinished, Stopped; the
tick. It talks to callers through a oneshot channel per call and to worker tasks
through one unbounded channel per worker. Hard: worker tasks run on other threads
and may end at any moment, between the choice of an idle slot and the send to it
too; spawns fail; the queue is drained by events only; calls come back from a
failed dispatch; a shutdown meets everything in flight. Correct when every call
gets exactly one answer, sizes stay within the configuration, queued work is never
stranded or left beside an idle worker, the core comes back, no process leaks.

**Handle.** No state but the sender. A send that fails, and an answer channel that
is dropped, are both `Closed`. Hard: the drop of the last handle closes the pool;
calls race the shutdown.

**Worker and one-shot tasks.** State: the child, the receiver of jobs, the job
taken. Hard: an exit that races a job already in the inbox; an abort that races
an exchange; an event sent after the receiver has gone. Correct when a job is run
at most once and an abort never takes a job along while the pool is open.

**Worker protocol.** JSON lines over stdin and stdout; the id of a response must
be that of the request. Hard: late answers after a timeout, mismatched, doubled
or malformed lines. Correct when no caller gets the result of another request.

**Configuration.** Validation, conversion of times, the interval of the tick.
Hard: overflow of minutes, the clamp of the tick, ticks that come late.

**HTTP server.** State: `Option<ProcessPool>` under an async mutex. Hard: two
`initialize`, a shutdown and uses of the pool race: a handle is cloned, the lock
released, the pool shut down before it is used; a handler is dropped at an await
when its client goes away. Correct when one `initialize` succeeds, a refused one
is refused for a reason, and the server never has two open pools in use.

**Agent manager.** State: the registry, a record per agent (slot, state,
generation, pending permissions), an event ring of 256, a control channel of 16,
the lifecycle lock, the base clone. Hard: `cc.stop` and `cc.restart` read a record,
release it, and act while the process may fail; an interrupt, a permission answer,
a permission request and the result of a turn cross each other; readers with a
cursor miss events; handlers are dropped in the middle of a create. Correct when
an agent has one process and one turn at a time, its state tells what its task
does, slots are exclusive, and a stop means that the child was reaped.

**Web console.** Guards (`revision`, `acting`, `polling`) against late answers; one
prompt box shared by all agents. Correct when a prompt reaches the agent it was
typed for and no poll shows what an action has made old.

## 2. Plan: what is done and what is left

Done, in this order: the pool (state, supervisor, worker tasks, composition); the
lines of an exchange and the time that the pool leaves out; the server; the agent
(its life as an abstract specification, the session that implements it, its event
log); the manager; the page of the agents; then the theorems of section 5.

Left: the abstract promise of a pool (each call answered once, `Closed` for all after
a close) with `ProcessPool` shown to implement it, so that `Server` can be composed
with it instead of with its own summary of an answer. The theorems about the jobs
are what such a proof needs.

## 3. Modules

| Module | Models |
|---|---|
| `PoolState` | constants, variables, records of commands, events and worker tasks, helpers |
| `Supervisor` | every handler of `Supervisor::run` except Stats |
| `WorkerTask` | `worker_loop`, `run_one_shot_worker`, exits of children |
| `ProcessPool` | callers, `Init`, `Next`, fairness, the properties of the pool; composes the three above |
| `WorkerExchange` | `exchange_one`, `worker_response_to_result`, the pipes and the child |
| `KeepAlive` | `TimeUnit::duration`, `idle_tick_duration`, `retire_idle_workers` in time |
| `Server` | `AppState` and the handlers of the pool's JSON-RPC methods, `run()`'s shutdown |
| `AgentLife` | abstract: what the state of an agent promises to whoever reads it |
| `AgentSession` | `request`, `run_agent`, `apply_action`, `handle_output`, Claude at the other end, restarts |
| `EventRing` | `Record::event`, `cc.get`, and the readers with their cursors |
| `AgentManager` | `cc.prepare`, `cc.create`, `cc.stop`, `cc.restart`, `shutdown`, `spawn`, the ends of the tasks |
| `AgentConsole` | `refresh`, `action`, `select`, drafts and the forms of `web/agents.js` |
| `PoolProofs` | proofs about `ProcessPool`: types, sizes and processes; jobs, counters and the core |
| `KeepAliveProofs`, `ExchangeProofs`, `ServerProofs`, `AgentProofs`, `ManagerProofs`, `RingProofs`, `ConsoleProofs` | proofs about the module of that name (`AgentProofs`: `AgentSession` and `AgentLife`) |

A definition marked "Slip" is a plausible mistake in the definition after it; no
action uses it. `PROJECT.json` pairs each with a property that TLC then finds
violated, which shows that the property depends on the code.

### How state and actions correspond to the code

**The pool** (`PoolState`, `Supervisor`, `WorkerTask`, `ProcessPool`).

| Variable | Code |
|---|---|
| `answer` | the oneshot of each call: unsent, waiting, or the `PoolError`/value |
| `commands`, `events` | the two unbounded channels |
| `workers` | the slot map: id to the call it runs, `NoCall` being `idle_since` set |
| `queue`, `next_worker_id`, `minimum_workers`, `count` | the fields of those names; `count` is the four counters |
| `pc`, `after`, `held`, `missing` | where the supervisor is inside a handler, and its locals |
| `tasks` | the live `worker_loop` tasks: where each is, its inbox, the job taken, whether its child lives, whether it was aborted |
| `oneshots` | running `run_one_shot_worker` tasks |
| `handles`, `budget` | whether a handle lives; what is left of the bounds |

No handler of the supervisor awaits, so its steps never interleave with each
other, and `pc` enforces that. But worker tasks run on other threads, and one may
end between two sends of one handler: this is the only way `dispatch` can fail,
and the code has a path for it everywhere. A handler is therefore one step per
send, in the order of the code. A spawn and the dispatch that follows it are one
step with three outcomes: it works (`SpawnWorker`), the child is gone and its task
over before the dispatch (`SpawnStillborn`), the spawn fails (`SpawnFails`). Whatever
destroys a job (an inbox that dies with its task, the queue at a shutdown, an
event nobody receives) drops its oneshot, which `execute` turns into `Closed`: so it
answers `"closed"` in the same step. Payloads are left out; a run ends as `"ok"`,
`"returned"` (worker reusable) or `"broken"` (worker removed). Any idle worker may be
picked, the map having no order, and may have been idle for `keep_alive`. The end
of a task is one step: its event, the drop of its inbox and of its child. `Close` is
one step: between the stop of the workers and the drop of the receivers the
supervisor takes no other step, and what others do meanwhile is answered as it is
after it.

**The exchange** (`WorkerExchange`) opens what `TakeJob`, `Exchange` and `KillChild` of
`WorkerTask` leave closed. `requests` and `lines` are the pipes, `loop` is where
`worker_loop` stands, `child` the process. A job is its id. A child that keeps the
protocol serves one request after the other, as `echo-worker` does; a misdeed is
an exit, an end of a pipe closed by a child that lives on, or any other line:
malformed, in another shape, doubled, or with the id of a request it has read. (Ids
are sequential, so a child could guess one it has not read, and be believed; the
model takes it not to.) The timeout strikes at any moment of an exchange.

**The time** (`KeepAlive`) has the idle workers above the core, the tick and a clock in
milliseconds. The units and the width of the words are constants, so that a run
can try every value up to the overflow.

**The server** (`Server`). `slot` is `AppState::pool`, `mutex` the call whose guard is held
across an await, `pools` the pools and whether they have closed, `calls` the
handlers: where they are, the handle they cloned, their answer. The mutex has no
queue here: every order of its waiters is explored. What a pool answers while open
is any answer of `ProcessPool`; once closed, `Closed`. `graceful` tells whether the
handlers end before `AppState::shutdown`, as `run()` arranges with axum's graceful
shutdown, or may meet it, as in a program that embeds `AppState`. A pool is in reach
(`Referenced`) while it is in the slot or some handler has a handle of it; what
happens to the others is the subject of `ProcessPool` (`ClosedPoolStopsProcesses`).

**An agent** (`AgentSession`). `info` is `AgentInfo`; `task` is `run_agent` (in its loop,
stopping, failing, over) with its `ready`, its `stop_reply` and who has the `handle` of
its channel (the handler that started it, the registry, nobody); `control` the channel; `calls`
the requests of the users with the generation they name; `stdin` and `stdout` the
lines between the loop and Claude; `claude` the process and the turn it works on;
`asked` the fate of each permission request. The branches of the select are taken
in any order. Claude is external: it reads its input in order, asks, withdraws what
it asked, ends turns, and exits or writes a bad line at any moment. A
`cc.restart` is the steps between its awaits: `Raise` (`agents.rs:271`) raises the
generation and lets go of the record, `Spawn` (`agents.rs:433`) takes the record again
and starts the process or fails, `Insert` (`agents.rs:276`) hands the handle to the
registry. Between `Raise` and `Spawn` the run is `"raised"`: readers see a generation that
has no process. `DropHandler` drops the handler at either await: a raised generation
then stays without a process until the next restart, and a handle that was not
inserted is lost, upon which the task finds its channel closed (`Unreachable`). `shown`
is the refinement mapping to `AgentLife`: generation, state and run.

**The event log** (`EventRing`). An event is its id; a console asks, the answer is
computed at once, and may be shown late or not at all.

**The manager** (`AgentManager`). `lifecycle` is the lock and `closed`; `registry`
which process a handle belongs to; `info` what `AgentSession` shows, reduced to
`running()`, with generation and slot; `tasks` the processes of each generation with
the Stops in their channels; `calls` the lifecycle calls at each of their awaits;
`repository` the base clone. The records are scanned one by one, since an agent may
fail or be released in between. tokio's mutex is fair, so the lock is given in the
order of the calls. A handler may be dropped wherever it awaits: its guard goes, and
a new handle that was not yet inserted is lost, upon which its task finds the
channel closed.

**The page** (`AgentConsole`). `page`, `status`, `drafts` are what it shows and
keeps; `poll` and `act` are the two async functions between their awaits. A text is
the number of its last keystroke. `typed`, `received` and `acted` are histories.

## 4. Runs

| Run | Module | Question |
|---|---|---|
| `worker_deaths` | `ProcessPool` | core 2, queue 2, four calls, a prestart; two exits and a failed replacement: sizes, hand-over, restoring of the core |
| `saturation` | `ProcessPool` | no core, one worker, queue 2, four calls, three policies, a close: queued jobs keep an event that drains them, one job per worker, counters and answers agree, no job is lost by an abort or run again, no process leaks, all who wait get `Closed` |
| `liveness` | `ProcessPool` | each call is in one place; under fairness each returns, a closed pool ends its processes, an unused pool shrinks to its core |
| `closed_meaning` | `ProcessPool` | violated: section 6 |
| `exchange` | `WorkerExchange` | three jobs, three processes, two misdeeds (stray lines, exits, closed pipes): a result is of its request, a reused worker is clean, a misdeed costs one job |
| `keep_alive` | `KeepAlive` | every value of a small word in every unit: retired in time, nothing wraps |
| `server` | `Server` | three requests or shutdowns, one dropped: one `initialize`, reasons, open handles, one open pool in reach |
| `agent` | `AgentSession` | three control requests, two permission requests, two processes, one fault (an exit, a bad line, a failed write, handshake or spawn, a call that times out, a dropped handler): turns and requests matched, `AgentLife` implemented, no call acts on another process, an interrupt ends |
| `agent_idle_interrupt` | `AgentSession` | violated: section 6 |
| `agent_events` | `EventRing` | a ring of two, five events, two consoles: the ring is the end of the log, gaps are announced when they exist and only then |
| `manager` | `AgentManager` | two slots, three records, three calls, a failure, an abandoned call: exclusive slots, one process, stop means reaped, shutdown stops all, every call returns, orphans end |
| `console` | `AgentConsole` | two agents, two texts, two actions, two changes of the server: prompts reach their agent, no late answer |

**Bounds.** Constants named `Max...` (and `Ids`) bound inputs and failures, except
`MaximumPoolSize`, `MaxAgents` and `MaxTick`, which are settings of the code;
everything else is unbounded, and the state spaces are exhausted. Each instance is
the smallest in which its cases arise. Pool: two workers for one to die while the
other is replaced, a queue of two for a job to be overtaken, four calls for a full
queue with a busy pool and one call more, two faults for a stillborn worker beside a
death. Exchange: a second job to receive the line of the first, a third process for
what comes after a misdeed twice. Server: two `initialize` and a shutdown, or one of
each and a user; a fourth call adds no new pair. Agent: a control channel of one
is full at once; two permission requests for one to be answered while the other is
pending, their refusal being possible at any time for their length; two generations
for a call that names the first and a restart that works, fails or is dropped; one
fault of any kind, the crossings of several being left to the theorems. Ring: five events are a ring of two passed by more
than its length. Manager: three calls are a create beside a restart beside a
shutdown; agent 1 may run from the start, so that they need not be spent on making
one. `RecordLimit` is 3, as many as ids, and so met. Console: two agents and two
texts for a text to be in the wrong box. Keep-alive: the word wraps at 16, and 13 ms
are longer than every time that is run plus two ticks. The hazards are races of two
or three actors; more of each adds symmetric copies, and for the theorems the bounds
do not matter.

**Deadlock** is checked where the system has a notion of rest: the pool and the agent
have a step `Quiescent` whose guard says what rest is. In the other modules it is
not checked: they stop when their bounded inputs are used up.

**Fairness.** `ProcessPool`: the runtime polls each ready task, so the supervisor,
the worker and the one-shot tasks are weakly fair; an exchange ends by its timeout
at the latest; the tick comes. `Server`: none, its properties are invariants.
`AgentSession`: `run_agent` is polled and its waits end by timeouts; Claude is taken
to read its input and to end a turn in which nobody has to decide. `AgentManager`:
handlers and agent tasks are polled; git and the ends of children are bounded by
timeouts. Fairness is weak throughout. It is stated for groups of steps where each
of their steps consumes something bounded, so that the group cannot run for ever
without the one. Nothing is assumed of callers, users, failures, or of a worker's
child, apart from what is said of Claude.

## 5. What is proved

For every value of the constants that their named assumptions allow
(`ConfigAssumption` is `PoolConfig::validate`), so for any sizes and any number of calls,
faults and restarts:

| Theorem | Statement | Module |
|---|---|---|
| `TypeCorrect` | `TypeOK` | `PoolProofs` |
| `PoolInvCorrect`, `PoolBoundsCorrect`, `QueuedMeansBusy` | `PoolInv`, `PoolBounds`, `NoIdleWhileQueued` | `PoolProofs` |
| `NoProcessLeaks` | `NoLeakedProcess` | `PoolProofs` |
| `JobInvCorrect`, `CallsInOnePlace`, `OneJobEach`, `AbortsLoseNoJob` | `JobInv`, `EveryCallInOnePlace`, `OneJobPerWorker`, `AbortLosesNoJob` | `PoolProofs` |
| `AtMostOnce`, `ClosedPoolAnswersClosed` | `NeverRunAgain`, `ClosedAnswersClosed` (action properties) | `PoolProofs` |
| `QueueServed`, `CoreComplete`, `CountersCorrect` | `QueueNeverStranded`, `CoreRestored`, `CountersMatchAnswers` | `PoolProofs` |
| `IdleAreRetired`, `NoTimeWraps` | `RetiredInTime`, `LongerIsLonger` | `KeepAliveProofs` |
| `ExchangeInvCorrect`, `ReusedClean`, `MisdeedCostsOneJob`, `ResultsBelong` | `ExchangeInv`, `ReusedIsClean`, `OneJobPerMisdeed`, `ResultsAreOfTheRequest` | `ExchangeProofs` |
| `ServerInvCorrect`, `OneInitialize`, `RefusedRightly`, `HandlesOpen`, `OnePool` | `ServerInv`, `OneInitializeSucceeds`, `RefusedForAReason`, `HandlesAreOpen`, `OnePoolAtATime` | `ServerProofs` |
| `AgentTypes`, `AgentPending`, `AgentImplementsLife` | `TypeOK`, `AwaitingMeansPending`, `LifeSpec` | `AgentProofs` |
| `OneTurn` (if `~IdleInterruptResult`), `NoRequestForgotten`, `PromptsAccepted` | `OneTurnAtATime`, `NoForgottenRequest`, `PromptsWereAccepted` | `AgentProofs` |
| `AgentsHaveOwnSlots`, `OneProcessEach`, `NothingRunsAfterShutdown` | `SlotsExclusive`, `OneProcessPerAgent`, `ShutdownStopsAll` | `ManagerProofs` |
| `StoppedMeansReaped` | `StopMeansReaped` (action property) | `ManagerProofs` |
| `RingHoldsTheLatest`, `GapsAreAnnounced` | `RingIsSuffix`, `GapsAnnounced` (action property) | `RingProofs` |
| `PromptsReach`, `NoLateAnswerShown` | `PromptsReachTheirAgent`, `NoLateAnswer` (action property) | `ConsoleProofs` |

**The pool.** `TypeOK` is inductive on its own; it contains that slots and tasks have ids
handed out by `spawn_worker`, which makes the map finite and each new id fresh.
`PoolBounds` and `NoIdleWhileQueued` are not inductive, because tests and spawns are in
different steps: `prestart_core_workers` counts the missing workers once and then
may call `place_job`, which starts a worker itself, between two iterations. `PoolInv`
adds where each caller stands: iterations are left only while the loop runs or will
be returned to, and when `place_job` was called from it there is room in the core for
its worker besides the iterations left. With `NoIdleWhileQueued` it also gives that the
idle worker a drain dispatches to is the only one, so none remains idle when the
dispatch fails. `NoLeakedProcess` is inductive beside `TypeOK`: each step removes slots and
aborts their tasks, dispatches to a slot, makes a slot with its task, or leaves both
alone, and a task never takes an abort back.

**The jobs of the pool.** `JobInv` has two halves that need each other. One says
where jobs are: the calls that wait are the union of the commands, the events, the
queue, the hand, the one-shot processes and the workers, no two of which meet
(`JobsApart`), and none has a job twice (`SentOnce`, `OwnedOnce`, `TaskShape`). The other,
`Agreement`, says what the supervisor may conclude from its slots although the
events of the workers reach it late: a worker has no job but the one its slot names
(`OwnedBySlot`); a task that is gone or whose child broke has said so in an event
that is still pending, unless its slot is gone too (`GoneSaidSo`, `KilledSaidSo`); a
`Finished` event is about a busy slot (`FinishedAreBusy`); a `Stopped` event is the
last word of its worker and its task is over (`StoppedLast`, `StoppedAreGone`). Every
step gives, beside `JobInv`, that the jobs no process was given are only ever joined
by calls just sent (`NothingComesBack`), which is `NeverRunAgain`. Three theorems add
little to this: `Wakes` (a queue outside of a drain has a busy worker or a pending event
that will drain it) for `QueueNeverStranded`; `CoreInv` (the core counts the slots and
the workers whose `Stopped` is pending, and no handler that restores it is under way)
for `CoreRestored`; and for `CountersMatchAnswers` that each answer moves one call
between the sets that are counted.

**The time.** A tick leaves no expired worker unless it leaves the core alone, and a
pool above its core grows only when nobody is idle. So while the pool exceeds its
core, every idle worker was not yet expired at the last tick (`Fresh`), and that tick is
not longer ago than its period and the delay of the next. If the time is zero a worker
may expire at the tick itself, after it was handled; the bound holds then because the
period is the shortest one. `NoTimeWraps` is arithmetic: multiplication by a positive
constant is monotonic, and what would not fit is refused.

**The exchange.** That a result belongs to its request needs that every id in the
pipe was read by this child (`LinesAreRead`). That a reused worker is clean is not
inductive: while a request is under way the process has just that request, or serves
it, or has written its one answer (`Clean`). The accounts tie it to misdeeds: the
jobs lost are never more than the misdeeds, and when they are as many, the process
at work is `Clean` (`Paid`). So a loss always meets a misdeed that was not yet paid.

**The server.** While a guard is held across an await the slot is empty (`SlotInv`):
after the check of an `initialize` and before its installation, and between the take
of a shutdown and its end. Hence each success fills the slot, and each shutdown
empties it (`SlotCounts`), which bounds the successes. `HandlesAreOpen` rests on
`ShutdownAlone`: in a graceful shutdown the others have ended, and none can arrive.
`OnePoolAtATime` needs `HandleInv`: whoever has a handle of an open pool has that of the
current one, which is the slot's, or that of the call whose guard is held. A pool that
is being created is nobody else's, and the pool a shutdown took is closed before the
guard is free, so that clones of its handle may go on without harm.

**The agent.** `TypeOK` needs that the number in a line is a call or a request
before it becomes one. `AwaitingMeansPending` needs the handshake: until its answer
was handled Claude has asked for nothing (`Handshake`); otherwise the answer would
show `idle` with a request pending. With it, `AgentImplementsLife` shows that
initial states map to the initial state of `AgentLife` and every step to a step or a
stutter under the mapping `shown`: the states follow the diagram of a turn; a state
that is not `running()` means that no task runs, which the manager relies on; and a
generation is raised only then, shown without a process until the restart starts it,
fails or is dropped, and never used twice. `OneTurnAtATime` is not inductive: `TurnInv` adds where the turn that the
record shows is, and that it is there alone: as a prompt in the input of Claude, as
its turn, or as a result in its output. It assumes that an interrupt outside of a turn is
not answered by a result, as the run `agent` does: without this it is false, and the run
`agent_idle_interrupt` shows what users see of it. `NoForgottenRequest` needs no such
condition. A result clears the requests shown, but a stray one cannot clear an open
request: Claude has one only in a turn (`OpenInTurn`), and says no result that does not
end it, so that every result in its output is older than the line that asks
(`ResultsFirst`). `PromptsWereAccepted` needs that a call is in the control channel once,
and that the process is the one the record tells of (`PromptInv`).

**The manager.** The lock is not held by the tasks, nor are the records locked
together, so nothing that a call reads is true for good. `IInv` says what stays true.
The call between its turn and its answer holds the lock (`LockInv`), and only it
writes the registry and starts processes. All that tasks do is to end what runs, so
slots that were free stay free (`RegistryInv`, `Free`). `LocalsInv` says for each await what
the locals of the call are still worth: what is not in the set of slots seen by a scan
is free or still to be looked at (`Seen`); the slot chosen for a create is free until
the record is inserted, whatever was released meanwhile; the generation that a restart
compared is still that of the record when it is raised. `ProcessInv` ties records to
processes: running just while the process of the record's generation lives, and
a Stop that a channel holds belongs to a call that waits for this agent or has given up. `ShutdownInv`
makes a shutdown final: `closed` is set before the first Stop is sent, later holders of the
lock see it, and each agent that runs is to be asked or was asked and waited for.
Without a call given up, that is: one that was dropped may leave a process outside
the registry, which `OrphansEnd` covers.

The attempt to prove this showed an error of the model: the three branches after the
record is read were a CASE whose guards overlap, which TLA+ leaves open and TLC takes in
order. `ReadState` is an IF now, as `agents.rs:250` is.

**The ring.** `RingIsSuffix` is inductive once the ring is a sequence of numbers. For
`GapsAnnounced`, an answer on its way to a console has all that was recorded from some
event to the cursor in it, and says that events are gone exactly if that event is not
the one after the cursor that the console sent (`AnswerOf`). Both hold until it is
shown, because a console has one poll at a time and moves its cursor only then.

**The page.** Wherever a text is on its way to an agent (the box, a draft, the request,
the server), it was typed for this agent (`TextsKeepTheirAgent`); a selection saves the box
under the old agent before it is filled with the draft of the new one. For
`NoLateAnswer`: while the page acts, a poll under way is outdated (`ActsAlone`), and a
poll that is not outdated has read nothing older than the last action (`ReadsFresh`).

**Only model-checked** are the liveness properties (`EveryCallAnswered`,
`ClosedPoolStopsProcesses`, `ExcessRetired`, `InterruptEnds`,
`EveryCallReturns`, `OrphansEnd`), since liveness under fairness is out of the
prover's reach. Every invariant and every action property that a passing run checks is
proved (`OneTurnAtATime` under its condition). An answer of `cc.get` in `EventRing` is a
set of events, since the filter of a sequence is recursive.
`JobInv` and its relatives and the `IInv` of the manager were evaluated by TLC on the
instances of the runs before they were proved. All proofs together take about 20 minutes.

## 6. Findings

- A call can be answered `Closed` by an open pool: if the child exits before its
  task takes the job in its inbox, the select may take the exit, and the sender is
  dropped with the inbox (`pool.rs:679`). `error.rs:19`: "the process pool is
  closed". The job is neither placed again nor counted. Run `closed_meaning`.
- An agent can show `idle` while a turn runs: `handle_output` takes any result for
  the end of the turn (`agents.rs:716`). An interrupt that crosses the result of its
  turn is answered by a second result (`tests/fixtures/fake-claude.cjs` does so),
  and if a prompt was accepted in between, that one ends the new turn.
  `README.md:114` promises one turn at a time. Run `agent_idle_interrupt`; the run
  `agent` takes Claude not to answer so.

Seen while modelling, and not the subject of a run:

- `DiscardOldest` can drop a younger job: a job popped by the drain whose dispatch
  fails is handed to `place_job`, which puts it at the back (`pool.rs:431`;
  `config.rs:67`: "Drop the oldest queued task").
- One-shot processes of `CallerRuns` go on after `shutdown` has returned
  (`pool.rs:362`; `pool.rs:76`: "Stops workers immediately").
- A create whose handler is dropped after the spawn leaves a process outside the
  registry until its task notices, while the slot is already free: for a while there
  are more processes than `max_agents` (`agents.rs:428`; `README.md:118`). That it
  ends is `OrphansEnd`.
- A `cc.prepare` that is dropped during the clone leaves a partial directory that
  the next one takes for a clone (`agents.rs:351`). `verify_repository`, which both
  calls make, accepts it, since `origin` is set first; what refuses every create is
  `git worktree add`, for lack of a `HEAD`.
- A `cc.restart` whose handler is dropped between the generation and the spawn leaves
  an agent with a raised generation, the state of the process before, and no process
  (`agents.rs:275`). The next `cc.restart` has to name the new generation, which
  `cc.get` shows. `AgentLife` has this state.
- A draft typed while a prompt is being sent to the same agent stays in the box and
  is no longer saved as draft once the send succeeds (`web/agents.js:201`).

## 7. Not modelled

- Stats, `cc.status` and the reply of prestart: they change no state.
- The serde formats of configuration and messages, JSON-RPC framing, routing,
  headers, CORS, the origin check and static files: pure conversions of one request.
- What is in a prompt, a tool's input, an assistant's text, an event, a label or a
  session id; the git commands beyond whether they succeed; process groups and the
  signals by which `terminate` ends a child, which is one step that may not be
  skipped.
- `web/dashboard.js`, `web/debugger.js`, `web/rpc-client.js`: a form, a poll and a
  chart; their guards drop late answers of a poll, and no request depends on what
  they show.
- Markup, styles and examples: no behaviour.

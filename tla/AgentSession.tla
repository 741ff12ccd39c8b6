----------------------------- MODULE AgentSession -----------------------------
(***************************************************************************)
(* One agent of src/src/agents.rs: the users' control requests (request),  *)
(* the task run_agent with apply_action and handle_output, and the Claude  *)
(* Code process at the other end of two pipes, over its restarts.          *)
(*                                                                         *)
(* A control request is a number, in the order of the calls.  A prompt is  *)
(* the number of the cc.send that carries it.  The lines between Claude    *)
(* and the loop (its stdout, the task read_output, the channel) are one    *)
(* queue.  Claude is external; what it does with a line is what            *)
(* tests/fixtures/fake-claude.cjs and the code expect of it.  Lines that   *)
(* only append an event (assistant text, stderr, the response to an        *)
(* interrupt) are left out, and so are the contents of prompts and tools.  *)
(***************************************************************************)
EXTENDS Integers, Sequences, FiniteSets, Functions

CONSTANTS
    ControlLimit,     \* capacity of the control channel (16)
    PermissionLimit,  \* pending permissions an agent keeps (16)
    MaxCalls,         \* bound: control requests
    MaxRequests,      \* bound: permission requests of Claude
    MaxGenerations,   \* bound: processes started for the agent
    MaxFaults,        \* bound: exits, bad lines, failed writes, handshakes and
                      \* spawns, calls that time out, handlers that are dropped
    IdleInterruptResult \* Claude answers an interrupt with a result when idle

ASSUME SessionAssumption ==
    /\ {ControlLimit, PermissionLimit, MaxGenerations} \subseteq Nat \ {0}
    /\ {MaxCalls, MaxRequests, MaxFaults} \subseteq Nat
    /\ IdleInterruptResult \in BOOLEAN

Calls == 1 .. MaxCalls
Requests == 1 .. MaxRequests
None == 0

VARIABLES
    info,     \* AgentInfo: state, generation, current_task, pending_permissions
    task,     \* run_agent: run, ready, the call that stop_reply answers, and
              \* who has its Handle: "registry", the "handler" of the create or
              \* restart that started it, or "none", as that one was dropped
    control,  \* the control channel of the current handle
    calls,    \* each control request: what it asks, and its answer
    stdin,    \* the lines written to Claude and not read by it
    stdout,   \* the lines Claude wrote and the loop has not handled
    claude,   \* the process: alive, the turn it works on, the prompts it took
    asked,    \* Claude's permission requests: "new", "open", "answered" or
              \* "closed", withdrawn by Claude
    budget    \* what remains of MaxFaults

vars == <<info, task, control, calls, stdin, stdout, claude, asked, budget>>

\* The refinement mapping: what AgentLife tells of an agent.
shown == [generation |-> info.generation, state |-> info.state, run |-> task.run]
Life == INSTANCE AgentLife WITH life <- shown

Message(kind, of) == [kind |-> kind, of |-> of]
NewClaude(generation) ==
    [alive |-> TRUE, turn |-> None, generation |-> generation]
NewTask == [run |-> "loop", ready |-> FALSE, stop_reply |-> None,
            handle |-> "handler"]

Init ==
    /\ info = [state |-> "starting", generation |-> 1, current_task |-> None,
               pending |-> {}]
    /\ task = NewTask
    /\ control = <<>>
    /\ calls = [c \in Calls |-> [kind |-> "none", generation |-> 0, of |-> None,
                                 answer |-> "unsent"]]
    /\ stdin = <<Message("initialize", None)>>
    /\ stdout = <<>>
    /\ claude = NewClaude(1)
    /\ asked = [q \in Requests |-> "new"]
    /\ budget = MaxFaults

Fault ==
    /\ budget > 0
    /\ budget' = budget - 1

Answer(c, a) == calls' = [calls EXCEPT ![c].answer = IF @ = "waiting" THEN a ELSE @]

-----------------------------------------------------------------------------
\* The users: request() with an action for a generation they have seen.

Actions ==
    {Message("send", None), Message("interrupt", None), Message("stop", None)}
    \cup {Message("permission", q) : q \in {r \in Requests : asked[r] # "new"}}

\* A handler that restarts this agent, or has just created it, is at an await.
\* It holds the lifecycle lock, which cc.stop and another cc.restart wait for.
LifecycleHeld == task.run = "raised" \/ task.handle = "handler"

\* try_send to the handle in the registry: it fails when this is not the handle
\* of a task that runs, or the channel is full.
Request(c) ==
    /\ calls[c].answer = "unsent"
    /\ \A d \in 1 .. (c - 1) : calls[d].answer # "unsent"
    /\ \E a \in Actions, g \in 1 .. info.generation :
        LET accepted == /\ task.run \notin {"over", "raised"}
                        /\ task.handle = "registry"
                        /\ Len(control) < ControlLimit
        IN  /\ a.kind = "stop" => ~LifecycleHeld
            /\ calls' = [calls EXCEPT ![c] =
                            [kind |-> a.kind, of |-> a.of, generation |-> g,
                             answer |-> IF accepted THEN "waiting" ELSE "gone"]]
            /\ control' = IF accepted THEN Append(control, c) ELSE control
    /\ UNCHANGED <<info, task, stdin, stdout, claude, asked, budget>>

\* After 10 s the caller stops waiting; the envelope stays in the channel.
RequestTimeout(c) ==
    /\ calls[c].answer = "waiting"
    /\ Fault
    /\ Answer(c, "timeout")
    /\ UNCHANGED <<info, task, control, stdin, stdout, claude, asked>>

-----------------------------------------------------------------------------
\* run_agent: its select, whose branches are taken in any order.

Looping == task.run = "loop"
Leave(run) == task' = [task EXCEPT !.run = run]

\* child.wait, or None from the output channel: Claude is gone.  Lines still
\* unread are lost.
NoticeExit ==
    /\ Looping
    /\ ~claude.alive
    /\ Leave("failing")
    /\ UNCHANGED <<info, control, calls, stdin, stdout, claude, asked, budget>>

\* The handshake is not answered in 30 s, or its write fails.
HandshakeTimeout ==
    /\ Looping
    /\ ~task.ready
    /\ Fault
    /\ Leave("failing")
    /\ UNCHANGED <<info, control, calls, stdin, stdout, claude, asked>>

\* commands.recv is None: the only handle was dropped with its handler.
Unreachable ==
    /\ Looping
    /\ task.handle = "none"
    /\ Leave("stopping")
    /\ UNCHANGED <<info, control, calls, stdin, stdout, claude, asked, budget>>

\* write_message: it is written, or it fails and the loop ends.  To a process
\* that has exited every write fails.
Write(m) ==
    \/ /\ claude.alive
       /\ stdin' = Append(stdin, m)
       /\ UNCHANGED <<task, budget>>
    \/ /\ IF claude.alive THEN Fault ELSE UNCHANGED budget
       /\ Leave("failing")
       /\ UNCHANGED stdin

\* Slip: the generation of the envelope is not looked at.
CommandOfAnyGeneration(kind) ==
    /\ Looping
    /\ control # <<>>
    /\ calls[Head(control)].kind = kind
    /\ control' = Tail(control)

\* commands.recv: the head of the control channel is of this kind, and names
\* the generation that runs.
Command(kind) ==
    /\ Looping
    /\ control # <<>>
    /\ calls[Head(control)].kind = kind
    /\ control' = Tail(control)
    /\ calls[Head(control)].generation = info.generation

Refuse ==
    /\ Answer(Head(control), "refused")
    /\ UNCHANGED <<info, task, stdin, stdout, claude, asked, budget>>

\* The caller learns whether the line was written.
WriteAndReply(m) ==
    /\ Write(m)
    /\ Answer(Head(control), IF task' = task THEN "ok" ELSE "unwritten")
    /\ UNCHANGED <<stdout, claude, asked>>

Stale ==
    /\ Looping
    /\ control # <<>>
    /\ control' = Tail(control)
    /\ calls[Head(control)].generation # info.generation
    /\ Refuse

Stop ==
    /\ Command("stop")
    /\ task' = [task EXCEPT !.run = "stopping", !.stop_reply = Head(control)]
    /\ UNCHANGED <<info, calls, stdin, stdout, claude, asked, budget>>

\* Slip: a prompt is taken as soon as the turn before it was interrupted.
SendWhileInterrupting ==
    /\ Command("send")
    /\ IF info.state \notin {"idle", "interrupting"}
         THEN Refuse
         ELSE /\ info' = [info EXCEPT !.state = "busy",
                                      !.current_task = Head(control)]
              /\ WriteAndReply(Message("user", Head(control)))

Send ==
    /\ Command("send")
    /\ IF info.state # "idle"
         THEN Refuse
         ELSE /\ info' = [info EXCEPT !.state = "busy",
                                      !.current_task = Head(control)]
              /\ WriteAndReply(Message("user", Head(control)))

\* Slip: any agent that runs can be interrupted.
InterruptAnytime ==
    /\ Command("interrupt")
    /\ info' = [info EXCEPT !.state = "interrupting", !.pending = {}]
    /\ WriteAndReply(Message("interrupt", info.current_task))

Interrupt ==
    /\ Command("interrupt")
    /\ IF info.state \notin {"busy", "awaiting_permission"}
         THEN Refuse
         ELSE /\ info' = [info EXCEPT !.state = "interrupting", !.pending = {}]
              /\ WriteAndReply(Message("interrupt", info.current_task))

Permission ==
    LET q == calls[Head(control)].of
        left == info.pending \ {q}
    IN  /\ Command("permission")
        /\ IF q \notin info.pending
             THEN Refuse
             ELSE /\ info' = [info EXCEPT
                                 !.pending = left,
                                 !.state = IF left = {} THEN "busy" ELSE @]
                  /\ WriteAndReply(Message("answer", q))

-----------------------------------------------------------------------------
\* run_agent: output_rx.recv, with handle_output.

Output(kind) ==
    /\ Looping
    /\ stdout # <<>>
    /\ Head(stdout).kind = kind
    /\ stdout' = Tail(stdout)
    /\ UNCHANGED <<control, calls, claude, asked>>

Ready ==
    /\ Output("ready")
    /\ task' = [task EXCEPT !.ready = TRUE]
    /\ info' = [info EXCEPT !.state = "idle", !.current_task = None]
    /\ UNCHANGED <<stdin, budget>>

\* Slip: a request that cannot be shown is ignored.
CanUseToolIgnored ==
    /\ Output("can_use_tool")
    /\ \/ /\ info.state \in {"busy", "awaiting_permission"}
          /\ Cardinality(info.pending) < PermissionLimit
          /\ info' = [info EXCEPT !.pending = @ \cup {Head(stdout).of},
                                  !.state = "awaiting_permission"]
       \/ UNCHANGED info
    /\ UNCHANGED <<task, stdin, budget>>

\* A request is shown to the users, or refused at once: not in a turn any
\* more, too many pending, or a line of more than 65536 bytes, which any is.
CanUseTool ==
    LET q == Head(stdout).of
    IN  /\ Output("can_use_tool")
        /\ \/ /\ info.state \in {"busy", "awaiting_permission"}
              /\ Cardinality(info.pending) < PermissionLimit
              /\ info' = [info EXCEPT !.pending = @ \cup {q},
                                      !.state = "awaiting_permission"]
              /\ UNCHANGED <<task, stdin, budget>>
           \/ /\ Write(Message("answer", q))
              /\ UNCHANGED info

\* Slip: the last request withdrawn leaves the state as it is.
CancelRequestOnly ==
    /\ Output("cancel")
    /\ info' = [info EXCEPT !.pending = @ \ {Head(stdout).of}]
    /\ UNCHANGED <<task, stdin, budget>>

CancelRequest ==
    LET left == info.pending \ {Head(stdout).of}
    IN  /\ Output("cancel")
        /\ info' = [info EXCEPT
                       !.pending = left,
                       !.state = IF @ = "awaiting_permission" /\ left = {}
                                 THEN "busy" ELSE @]
        /\ UNCHANGED <<task, stdin, budget>>

Result ==
    /\ Output("result")
    /\ info' = [info EXCEPT !.state = "idle", !.current_task = None,
                            !.pending = {}]
    /\ UNCHANGED <<task, stdin, budget>>

\* Slip: the agent is shown as failed before its process is reaped.
BadLineFailsAtOnce ==
    /\ Output("bad")
    /\ Leave("failing")
    /\ info' = [info EXCEPT !.state = "failed"]
    /\ UNCHANGED <<stdin, budget>>

\* Not stream-json, longer than LINE_LIMIT, a failed handshake, the end of the
\* output: the end.
BadLine ==
    /\ Output("bad")
    /\ Leave("failing")
    /\ UNCHANGED <<info, stdin, budget>>

-----------------------------------------------------------------------------
(***************************************************************************)
(* The end of run_agent.  terminate reaps the child, whatever it does;     *)
(* then the record is updated, the Stop is answered, and the receiver is   *)
(* dropped with the envelopes in it, whose callers see their channel       *)
(* closed.                                                                 *)
(***************************************************************************)
Finish ==
    /\ task.run \in {"stopping", "failing"}
    /\ claude' = [claude EXCEPT !.alive = FALSE]
    /\ info' = [info EXCEPT
                   !.pending = {},
                   !.state = IF task.run = "stopping" THEN "stopped" ELSE "failed",
                   !.current_task = IF task.run = "stopping" THEN None ELSE @]
    /\ task' = [task EXCEPT !.run = "over", !.stop_reply = None]
    /\ calls' = [c \in Calls |->
                    IF calls[c].answer # "waiting" THEN calls[c]
                    ELSE IF c = task.stop_reply
                           THEN [calls[c] EXCEPT !.answer = "ok"]
                    ELSE IF c \in Range(control)
                           THEN [calls[c] EXCEPT !.answer = "gone"]
                    ELSE calls[c]]
    /\ control' = <<>>
    /\ stdin' = <<>>
    /\ stdout' = <<>>
    /\ UNCHANGED <<asked, budget>>

TaskStep ==
    \/ NoticeExit \/ HandshakeTimeout \/ Unreachable
    \/ Stale \/ Stop \/ Send \/ Interrupt \/ Permission
    \/ Ready \/ CanUseTool \/ CancelRequest \/ Result \/ BadLine
    \/ Finish

\* The requests of Claude that are open end with their turn or process.
CloseAll ==
    asked' = [q \in Requests |-> IF asked[q] = "open" THEN "closed" ELSE asked[q]]

\* cc.stop of a failed agent frees its slot.
Release ==
    /\ info.state = "failed" /\ task.run = "over"
    /\ ~LifecycleHeld
    /\ info' = [info EXCEPT !.state = "stopped", !.current_task = None]
    /\ UNCHANGED <<task, control, calls, stdin, stdout, claude, asked, budget>>

\* cc.restart of an agent that does not run raises the generation and lets go of
\* the record.
Raise ==
    /\ task.run = "over"
    /\ ~LifecycleHeld
    /\ info.generation < MaxGenerations
    /\ info' = [info EXCEPT !.generation = @ + 1]
    /\ task' = [task EXCEPT !.run = "raised"]
    /\ UNCHANGED <<control, calls, stdin, stdout, claude, asked, budget>>

\* spawn takes the lock again: a new process and a new channel, or a failure.
Spawn ==
    /\ task.run = "raised"
    /\ \/ /\ info' = [info EXCEPT !.state = "starting", !.current_task = None]
          /\ task' = NewTask
          /\ stdin' = <<Message("initialize", None)>>
          /\ claude' = NewClaude(info.generation)
          /\ UNCHANGED budget
       \/ /\ Fault
          /\ info' = [info EXCEPT !.state = "failed"]
          /\ task' = [task EXCEPT !.run = "over"]
          /\ UNCHANGED <<stdin, claude>>
    /\ CloseAll
    /\ UNCHANGED <<control, calls, stdout>>

\* The handle goes to the registry; the task may be over by then.
Insert ==
    /\ task.handle = "handler"
    /\ task' = [task EXCEPT !.handle = "registry"]
    /\ UNCHANGED <<info, control, calls, stdin, stdout, claude, asked, budget>>

\* The handler is dropped where it waits for the record or the registry: what it
\* raised stays raised, and the handle it held is lost.
DropHandler ==
    /\ LifecycleHeld
    /\ Fault
    /\ task' = [task EXCEPT !.run = IF @ = "raised" THEN "over" ELSE @,
                            !.handle = "none"]
    /\ UNCHANGED <<info, control, calls, stdin, stdout, claude, asked>>

Lifecycle == Release \/ Raise \/ Spawn \/ Insert \/ DropHandler

-----------------------------------------------------------------------------
\* Claude Code, external.

Says(m) == stdout' = Append(stdout, m)

ClaudeReads(kind) ==
    /\ claude.alive
    /\ stdin # <<>>
    /\ Head(stdin).kind = kind
    /\ stdin' = Tail(stdin)
    /\ UNCHANGED <<info, task, control, calls, budget>>

ReadInitialize ==
    /\ ClaudeReads("initialize")
    /\ Says(Message("ready", None))
    /\ UNCHANGED <<claude, asked>>

\* A prompt is taken up when the turn before it is over.
ReadPrompt ==
    /\ claude.turn = None
    /\ ClaudeReads("user")
    /\ claude' = [claude EXCEPT !.turn = Head(stdin).of]
    /\ UNCHANGED <<stdout, asked>>

\* An interrupt ends the turn, and the requests of the turn with it.
ReadInterrupt ==
    /\ ClaudeReads("interrupt")
    /\ claude' = [claude EXCEPT !.turn = None]
    /\ IF claude.turn # None \/ IdleInterruptResult
         THEN Says(Message("result", claude.turn)) ELSE UNCHANGED stdout
    /\ CloseAll

ReadAnswer ==
    /\ ClaudeReads("answer")
    /\ asked' = [asked EXCEPT ![Head(stdin).of] = "answered"]
    /\ UNCHANGED <<stdout, claude>>

Asks(q) ==
    /\ claude.alive
    /\ claude.turn # None
    /\ asked[q] = "new"
    /\ \A r \in 1 .. (q - 1) : asked[r] # "new"
    /\ asked' = [asked EXCEPT ![q] = "open"]
    /\ Says(Message("can_use_tool", q))
    /\ UNCHANGED <<info, task, control, calls, stdin, claude, budget>>

Withdraws(q) ==
    /\ claude.alive
    /\ asked[q] = "open"
    /\ asked' = [asked EXCEPT ![q] = "closed"]
    /\ Says(Message("cancel", q))
    /\ UNCHANGED <<info, task, control, calls, stdin, claude, budget>>

EndsTurn ==
    /\ claude.alive
    /\ claude.turn # None
    /\ \A q \in Requests : asked[q] # "open"
    /\ claude' = [claude EXCEPT !.turn = None]
    /\ Says(Message("result", claude.turn))
    /\ UNCHANGED <<info, task, control, calls, stdin, asked, budget>>

Exits ==
    /\ claude.alive
    /\ Fault
    /\ claude' = [claude EXCEPT !.alive = FALSE]
    /\ UNCHANGED <<info, task, control, calls, stdin, stdout, asked>>

WritesBadLine ==
    /\ claude.alive
    /\ Fault
    /\ Says(Message("bad", None))
    /\ UNCHANGED <<info, task, control, calls, stdin, claude, asked>>

ClaudeStep ==
    \/ ReadInitialize \/ ReadPrompt \/ ReadInterrupt \/ ReadAnswer \/ EndsTurn

ClaudeActs ==
    \/ \E q \in Requests : Asks(q) \/ Withdraws(q)
    \/ Exits \/ WritesBadLine

\* Nothing is under way: the agent idles, waits for a user's decision that no
\* user may give any more, or has ended.
Quiescent ==
    /\ \/ task.run = "over"
       \/ /\ Looping /\ claude.alive
          /\ control = <<>> /\ stdin = <<>> /\ stdout = <<>>
    /\ UNCHANGED vars

Next ==
    \/ \E c \in Calls : Request(c) \/ RequestTimeout(c)
    \/ TaskStep \/ Lifecycle
    \/ ClaudeStep \/ ClaudeActs
    \/ Quiescent

Spec == Init /\ [][Next]_vars

(***************************************************************************)
(* Fairness.  The runtime polls run_agent; the end of a wait inside it     *)
(* (the write, the handshake, terminate) is bounded by a timeout.  Claude  *)
(* is taken to read its input and to end a turn nobody has to decide in.   *)
(* Nothing is assumed of the users.                                        *)
(***************************************************************************)
FairSpec == Spec /\ WF_vars(TaskStep) /\ WF_vars(ClaudeStep)

-----------------------------------------------------------------------------
Answers == {"ok", "refused", "unwritten", "gone", "timeout"}
Kinds == {"send", "interrupt", "permission", "stop"}

\* Every variable has its type, and the channel its capacity.
TypeOK ==
    /\ info \in [state : Life!States, generation : 1 .. MaxGenerations,
                 current_task : Calls \cup {None}, pending : SUBSET Requests]
    /\ task \in [run : {"loop", "stopping", "failing", "over", "raised"},
                 ready : BOOLEAN, stop_reply : Calls \cup {None},
                 handle : {"registry", "handler", "none"}]
    /\ control \in Seq(Calls) /\ Len(control) <= ControlLimit
    /\ calls \in [Calls -> [kind : Kinds \cup {"none"},
                            generation : 0 .. MaxGenerations,
                            of : Requests \cup {None},
                            answer : Answers \cup {"unsent", "waiting"}]]
    /\ stdin \in Seq([kind : {"initialize", "user", "interrupt", "answer"}, of : Nat])
    /\ stdout \in Seq([kind : {"ready", "can_use_tool", "cancel", "result", "bad"},
                       of : Nat])
    /\ claude \in [alive : BOOLEAN, turn : Calls \cup {None},
                   generation : 1 .. MaxGenerations]
    /\ asked \in [Requests -> {"new", "open", "answered", "closed"}]
    /\ budget \in 0 .. MaxFaults

\* The messages of this kind in a pipe.
In(pipe, kind) == {i \in DOMAIN pipe : pipe[i].kind = kind}
Carried(pipe, kind) == {pipe[i].of : i \in In(pipe, kind)}

\* A session has one turn at a time, and shows it: from the prompt on its way
\* to Claude to the result on its way back there is exactly one turn in a turn
\* state and none otherwise, and it is the turn of current_task: no interrupt,
\* crossing or answer makes a result end a turn that is not its own.
OneTurnAtATime ==
    LET prompts == Carried(stdin, "user")
        results == Carried(stdout, "result")
        turns == prompts \cup results \cup ({claude.turn} \ {None})
    IN  Looping =>
          /\ turns = IF info.state \in Life!TurnStates THEN {info.current_task}
                                                       ELSE {}
          /\ Cardinality(In(stdin, "user")) + Cardinality(In(stdout, "result"))
               + (IF claude.turn = None THEN 0 ELSE 1) <= 1

\* A request that blocks Claude is never forgotten: it is on its way to the
\* manager, waits for a user's decision, or its end is on the way to Claude.
NoForgottenRequest ==
    Looping /\ claude.alive =>
        \A q \in Requests : asked[q] = "open" =>
            \/ q \in Carried(stdout, "can_use_tool")
            \/ q \in info.pending
            \/ q \in Carried(stdin, "answer")
            \/ In(stdin, "interrupt") # {}

\* awaiting_permission is shown exactly while a decision is wanted, though
\* answers, withdrawals, interrupts and results take the requests away.
AwaitingMeansPending ==
    (info.state = "awaiting_permission") <=> (info.pending # {})

\* A prompt that a process has before it or works on was accepted from a call
\* that named this very process: a stale, refused or dropped call never runs,
\* whatever the crash, restart or timeout that came in between.
PromptsWereAccepted ==
    \A c \in Carried(stdin, "user") \cup ({claude.turn} \ {None}) :
        claude.alive =>
            /\ calls[c].generation = claude.generation
            /\ calls[c].answer \in {"ok", "timeout"}

\* The detailed agent implements AgentLife: the manager may rely on its states.
LifeSpec == Life!Spec

-----------------------------------------------------------------------------
\* An interrupt that crosses the result of its turn does not leave the agent
\* interrupting: it becomes idle, or it ends.
InterruptEnds ==
    info.state = "interrupting" ~> info.state \in {"idle", "stopped", "failed"}

\* README.md:114: "每个 Agent 同时只接受一轮，忙碌时拒绝新请求" (an agent takes one
\* turn at a time): an agent that shows idle, and so accepts a prompt, has no
\* turn under way.
IdleMeansNoTurn ==
    info.state = "idle" => claude.turn = None /\ In(stdin, "user") = {}
=============================================================================

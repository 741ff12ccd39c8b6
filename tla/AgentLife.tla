------------------------------- MODULE AgentLife -------------------------------
(***************************************************************************)
(* What the life of one Claude Code agent promises to whoever reads its    *)
(* state (cc.get, cc.status, and the manager before it stops, restarts or  *)
(* replaces it): the states follow the diagram of one turn at a time, a    *)
(* state that is not running() means that the task run_agent is over, and  *)
(* the generation tells the processes of the agent apart.                  *)
(*                                                                         *)
(* run is the task: "loop", "stopping" or "failing" once it has left its   *)
(* loop and terminates the child, "over" when it has returned, "raised"    *)
(* when a restart has raised the generation and has not started the        *)
(* process yet.  Readers may see this: the lock of the record is free.     *)
(***************************************************************************)
EXTENDS Integers

VARIABLE life

States == {"starting", "idle", "busy", "awaiting_permission", "interrupting",
           "stopped", "failed"}
TurnStates == {"busy", "awaiting_permission", "interrupting"}

\* AgentState::running
IsRunning(s) == s \notin {"stopped", "failed"}

\* The states that a running agent may show after s.
Successors(s) ==
    CASE s = "starting" -> {"idle"}
      [] s = "idle" -> {"busy"}
      [] s = "busy" -> {"awaiting_permission", "interrupting", "idle"}
      [] s = "awaiting_permission" -> {"busy", "interrupting", "idle"}
      [] s = "interrupting" -> {"idle"}
      [] OTHER -> {}

\* The task moves the state, leaves its loop, or does both (a prompt that was
\* accepted and could not be written).
LoopSteps(l) ==
    IF l.run # "loop" THEN {}
    ELSE {[generation |-> l.generation, state |-> s, run |-> r] :
             s \in Successors(l.state) \cup {l.state},
             r \in {"loop", "stopping", "failing"}}

\* The child is reaped and the task reports how it ended.
EndSteps(l) ==
    IF l.run \notin {"stopping", "failing"} THEN {}
    ELSE {[generation |-> l.generation, run |-> "over",
           state |-> IF l.run = "stopping" THEN "stopped" ELSE "failed"]}

\* When nothing runs any more, cc.stop releases a failed agent and cc.restart
\* raises the generation.
LifecycleSteps(l) ==
    IF l.run # "over" THEN {}
    ELSE {[l EXCEPT !.state = "stopped"],
          [l EXCEPT !.generation = @ + 1, !.run = "raised"]}

\* The restart starts the process, fails to, or is given up, which leaves a
\* generation that never had a process, in the state of the one before.
RestartSteps(l) ==
    IF l.run # "raised" THEN {}
    ELSE {[l EXCEPT !.state = "starting", !.run = "loop"],
          [l EXCEPT !.state = "failed", !.run = "over"],
          [l EXCEPT !.run = "over"]}

Steps(l) ==
    LoopSteps(l) \cup EndSteps(l) \cup LifecycleSteps(l) \cup RestartSteps(l)

Born == [generation |-> 1, state |-> "starting", run |-> "loop"]

Init == life = Born
Next == life' \in Steps(life)
Spec == Init /\ [][Next]_life

\* The manager takes the process of an agent for ended when its state is not
\* running: so it is, in every generation.
StateTellsTask == IsRunning(life.state) <=> life.run \notin {"over", "raised"}
=============================================================================

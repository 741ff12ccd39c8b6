---------------------------- MODULE ManagerProofs -----------------------------
(***************************************************************************)
(* Proofs about AgentManager: for every number of slots, agents,           *)
(* generations and calls, and however often agents fail, calls time out or *)
(* handlers are dropped.                                                   *)
(*                                                                         *)
(* The call that holds the lifecycle lock is alone in writing the registry *)
(* and in starting agents; the tasks take no part in the lock, but all     *)
(* they do to a record is to end what runs.  So what the holder has read   *)
(* of an agent stays true but for that, and its locals say, at every       *)
(* await, what it may still rely on (LocalsInv).                           *)
(***************************************************************************)
EXTENDS AgentManager, FiniteSetTheorems, WellFoundedInduction, TLAPS

-------------------------------------------------------------------------------
(***************************************************************************)
(* Types; of a call, what its method and the place it is at say of it.     *)
(***************************************************************************)
States == {"none", "running", "stopped", "failed"}
Records == [state : States, generation : Generations, slot : 0 .. MaxAgents]
Runs == {"none", "loop", "stopping", "failing", "over"}
Tasks == [run : Runs, stops : Seq(Calls), stop_reply : 0 .. MaxCalls]
PCs == {"idle", "lock", "prepare", "scan_slot", "scan_count", "worktree", "spawn",
        "insert", "read", "release", "send", "wait", "stopped", "failed",
        "stopping", "done"}

MayBeAt(method) ==
    {"lock"} \cup
    CASE method = "none" -> {"idle"}
      [] method = "prepare" -> {"prepare"}
      [] method = "create" -> {"scan_slot", "worktree", "spawn", "insert"}
      [] method = "stop" -> {"read", "release", "send", "wait", "stopped", "failed"}
      [] method = "restart" -> {"read", "send", "wait", "stopped", "failed",
                                "scan_slot", "scan_count", "spawn", "insert"}
      [] OTHER -> {"stopping"}

Locals == [method : Methods \cup {"none"}, agent : 0 .. Ids,
           generation : 0 .. MaxGenerations, pc : PCs, todo : SUBSET Agents,
           seen : SUBSET (0 .. MaxAgents), waits : SUBSET Agents,
           slot : 0 .. MaxAgents,
           answer : {"none", "ok", "error", "closing", "limit", "slot taken",
                     "unknown", "stale", "dropped"}]

Fits(r) ==
    /\ r.pc = "done" \/ (r.answer = "none" /\ r.pc \in MayBeAt(r.method))
    /\ r.pc # "done" =>
         /\ r.method = "none" => r.pc = "idle" /\ r.agent = None
         /\ r.method \in {"stop", "restart"} => r.agent \in Agents
         /\ r.method = "restart" => r.generation < MaxGenerations
         /\ r.method \in {"prepare", "shutdown"} => r.agent = None
         /\ r.method = "create" /\ r.pc \notin {"spawn", "insert"} => r.agent = None
         /\ r.pc \in {"spawn", "insert"} => r.agent \in Agents
         /\ r.pc \in {"worktree", "spawn"} /\ r.method = "create" => r.slot \in Slots

LockOK == lifecycle \in [holder : 0 .. MaxCalls, closed : BOOLEAN]
RegistryOK == registry \in [Agents -> 0 .. MaxGenerations]
InfoOK == info \in [Agents -> Records]
TasksOK == tasks \in [Agents -> [Generations -> Tasks]]
CallsOK == calls \in [Calls -> Locals] /\ \A c \in Calls : Fits(calls[c])
BudgetOK == /\ budget \in [failure : Nat, abandoned : Nat]
            /\ budget.abandoned <= MaxAbandoned
TypeInv == LockOK /\ RegistryOK /\ InfoOK /\ TasksOK /\ CallsOK /\ BudgetOK

\* Whether the call has the lock, between its turn and its answer.
Active(c) == calls[c].pc \notin {"idle", "lock", "done"}
LockInv == \A c \in Calls : Active(c) <=> lifecycle.holder = c

(***************************************************************************)
(* Processes and records.                                                  *)
(***************************************************************************)
Sent(c, a, g) == c = tasks[a][g].stop_reply \/ c \in Range(tasks[a][g].stops)
ProcessInv ==
    \A a \in Agents, g \in Generations :
        /\ Alive(a, g) <=> info[a].state = "running" /\ info[a].generation = g
        /\ tasks[a][g].run # "stopping" => tasks[a][g].stop_reply = None
        /\ \A c \in Calls : Sent(c, a, g) =>
             /\ calls[c].pc \notin {"idle", "lock", "read", "send"}
             /\ calls[c].pc = "wait" => calls[c].agent = a

(***************************************************************************)
(* Slots and records.                                                      *)
(***************************************************************************)
Free(s, a) == \A b \in Registered \ {a} : info[b].state # "stopped" => info[b].slot # s
RegistryInv ==
    \A a \in Registered :
        /\ info[a].state # "none"
        /\ info[a].slot \in Slots
        /\ info[a].state # "stopped" => Free(info[a].slot, a)

\* What the locals of a call say of the records, at each of its awaits.
OfAgent(c, S) == /\ calls[c].agent \in Registered
                 /\ info[calls[c].agent].state \in S
InGeneration(c) == info[calls[c].agent].generation = calls[c].generation
Seen(c) == \A b \in Registered \ {calls[c].agent} :
              \/ b \in calls[c].todo
              \/ info[b].state = "stopped"
              \/ info[b].slot \in calls[c].seen
AtAwait(c) ==
    /\ calls[c].pc \in {"send", "wait", "failed"} => OfAgent(c, States)
    /\ calls[c].pc = "stopped" => OfAgent(c, {"stopped"})
    /\ calls[c].pc = "release" => OfAgent(c, {"stopped", "failed"})
    /\ calls[c].pc \in {"scan_slot", "scan_count", "spawn"} /\ calls[c].method = "restart"
         => OfAgent(c, {"stopped", "failed"})
    /\ calls[c].pc \in {"send", "wait", "stopped", "scan_slot", "scan_count"}
         /\ calls[c].method = "restart" => InGeneration(c)
    /\ calls[c].pc = "scan_slot" => Seen(c)
    /\ calls[c].pc \in {"scan_count", "spawn"} /\ calls[c].method = "restart"
         => Free(info[calls[c].agent].slot, calls[c].agent)
    /\ calls[c].pc = "worktree" => Free(calls[c].slot, None)
    /\ calls[c].pc = "spawn" /\ calls[c].method = "create"
         => /\ calls[c].agent \notin Registered
            /\ info[calls[c].agent].state = "none"
            /\ Free(calls[c].slot, calls[c].agent)
    /\ calls[c].pc = "insert"
         => /\ info[calls[c].agent].state # "none"
            /\ info[calls[c].agent].slot \in Slots
            /\ Free(info[calls[c].agent].slot, calls[c].agent)
    /\ calls[c].pc = "stopping" => calls[c].todo \subseteq Registered
LocalsInv == \A c \in Calls : AtAwait(c)

(***************************************************************************)
(* Shutdown.                                                               *)
(***************************************************************************)
NothingRuns == \A a \in Agents : info[a].state # "running"
Known(a) == \/ registry[a] = info[a].generation
            \/ \E c \in Calls : calls[c].pc = "insert" /\ calls[c].agent = a
ShutdownInv ==
    /\ lifecycle.closed => \A c \in Calls : Active(c) => calls[c].method = "shutdown"
    /\ \A c \in Calls : calls[c].method = "shutdown" /\ calls[c].pc \notin {"lock", "done"}
                          => lifecycle.closed
    /\ budget.abandoned = MaxAbandoned =>
         /\ \A a \in Agents : info[a].state = "running" => Known(a)
         /\ \A c \in Calls : calls[c].pc = "stopping" =>
              \A a \in Agents : info[a].state = "running"
                                  => a \in calls[c].todo \cup calls[c].waits
         /\ \A c \in Calls : calls[c].method = "shutdown" /\ calls[c].answer = "ok"
                               => lifecycle.closed /\ NothingRuns

IInv == TypeInv /\ LockInv /\ ProcessInv /\ RegistryInv /\ LocalsInv /\ ShutdownInv

-------------------------------------------------------------------------------
(***************************************************************************)
(* Constants, types, and the operators that change them.                   *)
(***************************************************************************)

Answers == {"none", "ok", "error", "closing", "limit", "slot taken",
            "unknown", "stale", "dropped"}

LEMMA Constants ==
    /\ MaxAgents \in Nat \ {0} /\ RecordLimit \in Nat \ {0} /\ Ids \in Nat \ {0}
    /\ MaxGenerations \in Nat \ {0}
    /\ MaxCalls \in Nat /\ MaxFailures \in Nat /\ MaxAbandoned \in Nat
    /\ \A c \in Calls : c # None /\ c \in 0 .. MaxCalls
    /\ \A a \in Agents : a # None /\ a \in 0 .. Ids
    /\ None \notin Calls /\ None \notin Agents
BY ManagerAssumption DEF None, Calls, Agents

\* Every other call is left alone.
Alone(c) == \A d \in Calls \ {c} : calls'[d] = calls[d]

LEMMA Updated ==
    ASSUME CallsOK, NEW c \in Calls, NEW r \in Locals, Fits(r),
           calls' = [calls EXCEPT ![c] = r]
    PROVE  CallsOK' /\ calls'[c] = r /\ Alone(c)
BY DEF CallsOK, Alone

LEMMA Returned ==
    ASSUME TypeInv, NEW c \in Calls, NEW answer \in Answers, Return(c, answer)
    PROVE  /\ CallsOK' /\ LockOK' /\ Alone(c)
           /\ calls'[c].pc = "done" /\ calls'[c].answer = answer
           /\ calls'[c].method = calls[c].method
           /\ lifecycle'.closed = lifecycle.closed
           /\ lifecycle'.holder = IF lifecycle.holder = c THEN None ELSE lifecycle.holder
<1> DEFINE r == [NewCall EXCEPT !.method = calls[c].method, !.pc = "done", !.answer = answer]
<1>1. /\ r \in Locals
      /\ r.pc = "done" /\ r.answer = answer /\ r.method = calls[c].method
  <2>1. NewCall \in Locals
    BY Constants DEF Locals, NewCall, PCs, None
  <2>2. calls[c].method \in Methods \cup {"none"}
    BY DEF TypeInv, CallsOK, Locals
  <2> QED BY <2>1, <2>2 DEF Locals, Answers, PCs
<1>2. Fits(r)
  BY <1>1 DEF Fits
<1>3. calls' = [calls EXCEPT ![c] = r]
  BY DEF Return
<1>4. LockOK' /\ lifecycle'.closed = lifecycle.closed
      /\ lifecycle'.holder = IF lifecycle.holder = c THEN None ELSE lifecycle.holder
  BY Constants DEF Return, TypeInv, LockOK, None
<1> HIDE DEF r
<1> QED BY <1>1, <1>2, <1>3, <1>4, Updated DEF TypeInv

\* The call goes on to another place.
Kept(c) == /\ calls'[c].method = calls[c].method
           /\ calls'[c].agent = calls[c].agent
           /\ calls'[c].generation = calls[c].generation
           /\ calls'[c].answer = calls[c].answer

LEMMA Gone ==
    ASSUME CallsOK, NEW c \in Calls, NEW pc \in PCs, Goto(c, pc),
           Fits([calls[c] EXCEPT !.pc = pc])
    PROVE  /\ CallsOK' /\ Alone(c) /\ Kept(c)
           /\ calls'[c].pc = pc /\ calls'[c].todo = calls[c].todo
           /\ calls'[c].seen = calls[c].seen /\ calls'[c].slot = calls[c].slot
           /\ calls'[c].waits = calls[c].waits
<1> DEFINE r == [calls[c] EXCEPT !.pc = pc]
<1>1. /\ r \in Locals /\ r.pc = pc /\ r.todo = calls[c].todo /\ r.seen = calls[c].seen
      /\ r.slot = calls[c].slot /\ r.waits = calls[c].waits /\ r.method = calls[c].method
      /\ r.agent = calls[c].agent /\ r.generation = calls[c].generation
      /\ r.answer = calls[c].answer
  BY DEF CallsOK, Locals
<1>2. calls' = [calls EXCEPT ![c] = r]
  BY DEF Goto
<1>3. Fits(r)
  OBVIOUS
<1> HIDE DEF r
<1> QED BY <1>1, <1>2, <1>3, Updated DEF Kept

LEMMA Started ==
    ASSUME TypeInv, NEW c \in Calls, NEW pc \in PCs, StartScan(c, pc),
           Fits([calls[c] EXCEPT !.pc = pc, !.slot = None])
    PROVE  /\ CallsOK' /\ Alone(c) /\ Kept(c)
           /\ calls'[c].pc = pc /\ calls'[c].todo = Registered \ {calls[c].agent}
           /\ calls'[c].waits = calls[c].waits
<1> DEFINE r == [calls[c] EXCEPT !.pc = pc, !.seen = {}, !.slot = None,
                                 !.todo = Registered \ {calls[c].agent}]
           q == [calls[c] EXCEPT !.pc = pc, !.slot = None]
<1>1. /\ r \in Locals /\ r.pc = pc /\ r.todo = Registered \ {calls[c].agent}
      /\ r.slot = None /\ r.waits = calls[c].waits /\ r.method = calls[c].method
      /\ r.agent = calls[c].agent /\ r.generation = calls[c].generation
      /\ r.answer = calls[c].answer
  <2>1. Registered \ {calls[c].agent} \in SUBSET Agents
    BY DEF Registered
  <2>2. None \in 0 .. MaxAgents /\ {} \in SUBSET (0 .. MaxAgents)
    BY Constants DEF None
  <2> QED BY <2>1, <2>2 DEF TypeInv, CallsOK, Locals
<1>2. /\ q.pc = pc /\ q.slot = None /\ q.method = calls[c].method
      /\ q.agent = calls[c].agent /\ q.generation = calls[c].generation
      /\ q.answer = calls[c].answer
  BY DEF TypeInv, CallsOK, Locals
<1>3. calls' = [calls EXCEPT ![c] = r]
  BY DEF StartScan, TypeInv, CallsOK, Locals
<1>4. Fits(q)
  OBVIOUS
<1> HIDE DEF r, q
<1>5. Fits(r)
  BY <1>1, <1>2, <1>4 DEF Fits
<1> QED BY <1>1, <1>3, <1>5, Updated DEF Kept, TypeInv

LEMMA Spent ==
    ASSUME BudgetOK, NEW kind \in {"failure", "abandoned"}, Spend(kind)
    PROVE  /\ BudgetOK'
           /\ kind = "abandoned" => budget'.abandoned # MaxAbandoned
           /\ budget'.abandoned = MaxAbandoned => budget.abandoned = MaxAbandoned
BY Constants DEF BudgetOK, Spend

-------------------------------------------------------------------------------
(***************************************************************************)
(* Steps that leave most of the invariant alone.  Only the holder of the   *)
(* lock moves, so that the locals of the other calls say nothing.          *)
(***************************************************************************)

\* Whoever has the lock is alone between its turn and its answer.
LEMMA OthersInactive ==
    ASSUME LockInv, NEW c \in Calls, NEW d \in Calls \ {c}, Active(c)
    PROVE  ~Active(d)
BY DEF LockInv

\* A step of a call says nothing new of the locals of another: they are as they
\* were, and either the records are too or the other has no lock.
LEMMA LocalsOfOthers ==
    ASSUME TypeInv, LockInv, LocalsInv, NEW c \in Calls, Alone(c), AtAwait(c)',
           Active(c) \/ UNCHANGED <<registry, info>>
    PROVE  LocalsInv'
<1>1. ASSUME NEW d \in Calls \ {c} PROVE AtAwait(d)'
  <2>1. calls'[d] = calls[d]
    BY DEF Alone
  <2>2. CASE Active(c)
    BY <2>1, <2>2, OthersInactive DEF Active, AtAwait
  <2>3. CASE UNCHANGED <<registry, info>>
    BY <2>1, <2>3 DEF LocalsInv, AtAwait, OfAgent, InGeneration, Seen, Free, Registered
  <2> QED BY <2>2, <2>3
<1> QED BY <1>1 DEF LocalsInv

Early == {"idle", "lock", "read", "send"}

LEMMA SentByOthers ==
    ASSUME ProcessInv, UNCHANGED <<info, tasks>>, NEW c \in Calls, Alone(c),
           calls'[c].pc \in Early => calls[c].pc \in Early,
           calls'[c].pc = "wait" => calls[c].pc = "wait" /\ calls'[c].agent = calls[c].agent
    PROVE  ProcessInv'
<1> SUFFICES ASSUME NEW a \in Agents, NEW g \in Generations, NEW d \in Calls, Sent(d, a, g)'
             PROVE  /\ calls'[d].pc \notin Early
                    /\ calls'[d].pc = "wait" => calls'[d].agent = a
  BY DEF ProcessInv, Alive, Early
<1>1. Sent(d, a, g)
  BY DEF Sent
<1>2. calls[d].pc \notin Early /\ (calls[d].pc = "wait" => calls[d].agent = a)
  BY <1>1 DEF ProcessInv, Early
<1> QED BY <1>2 DEF Alone

\* Of a call that has not yet ended and that is no shutdown that ends well.
LEMMA ShutdownCalm ==
    ASSUME TypeInv, ShutdownInv, UNCHANGED <<registry, info>>, NEW c \in Calls, Alone(c),
           lifecycle'.closed = lifecycle.closed,
           budget'.abandoned = MaxAbandoned => budget.abandoned = MaxAbandoned,
           calls'[c].method = calls[c].method,
           calls'[c].pc \notin {"idle", "lock", "done"} => Active(c),
           calls[c].pc = "insert" => budget'.abandoned # MaxAbandoned,
           calls'[c].pc = "stopping" /\ budget'.abandoned = MaxAbandoned
             => /\ calls[c].pc = "stopping"
                /\ calls[c].todo \cup calls[c].waits \subseteq calls'[c].todo \cup calls'[c].waits,
           calls'[c].method = "shutdown" /\ calls'[c].pc \notin {"lock", "done"}
             => lifecycle.closed,
           calls'[c].method = "shutdown" /\ calls'[c].answer = "ok"
             /\ budget'.abandoned = MaxAbandoned => lifecycle.closed /\ NothingRuns
    PROVE  ShutdownInv'
<1>1. (lifecycle.closed => \A d \in Calls : Active(d) => calls[d].method = "shutdown")'
  BY DEF ShutdownInv, Active, Alone
<1>2. (\A d \in Calls : calls[d].method = "shutdown" /\ calls[d].pc \notin {"lock", "done"}
                         => lifecycle.closed)'
  BY DEF ShutdownInv, Alone
<1>3. ASSUME budget'.abandoned = MaxAbandoned, NEW a \in Agents, info'[a].state = "running"
      PROVE  Known(a)'
  <2>1. Known(a)
    BY <1>3 DEF ShutdownInv
  <2> QED BY <1>3, <2>1 DEF Known, Alone
<1>4. ASSUME budget'.abandoned = MaxAbandoned, NEW d \in Calls, calls'[d].pc = "stopping",
             NEW a \in Agents, info'[a].state = "running"
      PROVE  a \in calls'[d].todo \cup calls'[d].waits
  <2>1. CASE d = c
    <3>1. a \in calls[c].todo \cup calls[c].waits
      BY <1>4, <2>1 DEF ShutdownInv
    <3> QED BY <1>4, <2>1, <3>1
  <2>2. CASE d # c
    BY <1>4, <2>2 DEF ShutdownInv, Alone
  <2> QED BY <2>1, <2>2
<1>5. ASSUME budget'.abandoned = MaxAbandoned, NEW d \in Calls,
             calls'[d].method = "shutdown", calls'[d].answer = "ok"
      PROVE  (lifecycle.closed /\ NothingRuns)'
  BY <1>5 DEF ShutdownInv, Alone, NothingRuns
<1> QED BY <1>1, <1>2, <1>3, <1>4, <1>5 DEF ShutdownInv

LEMMA RegistryStays ==
    ASSUME RegistryInv, UNCHANGED <<registry, info>>
    PROVE  RegistryInv'
BY DEF RegistryInv, Free, Registered

\* A call returns, and has changed nothing.
LEMMA Ends ==
    ASSUME IInv, NEW c \in Calls, NEW answer \in Answers, Return(c, answer),
           UNCHANGED <<registry, info, tasks>>, BudgetOK',
           budget'.abandoned = MaxAbandoned => budget.abandoned = MaxAbandoned,
           calls[c].pc = "insert" => budget'.abandoned # MaxAbandoned,
           calls[c].method = "shutdown" /\ answer = "ok"
             /\ budget'.abandoned = MaxAbandoned => lifecycle.closed /\ NothingRuns
    PROVE  IInv'
<1> USE DEF IInv
<1>1. /\ CallsOK' /\ LockOK' /\ Alone(c)
      /\ calls'[c].pc = "done" /\ calls'[c].answer = answer
      /\ calls'[c].method = calls[c].method
      /\ lifecycle'.closed = lifecycle.closed
      /\ lifecycle'.holder = IF lifecycle.holder = c THEN None ELSE lifecycle.holder
  BY Returned
<1>2. TypeInv'
  BY <1>1 DEF TypeInv, RegistryOK, InfoOK, TasksOK
<1>3. LockInv'
  BY <1>1, Constants DEF LockInv, Active, Alone
<1>4. ProcessInv'
  BY <1>1, SentByOthers DEF Early
<1>5. LocalsInv'
  <2>1. AtAwait(c)'
    BY <1>1 DEF AtAwait
  <2> QED BY <1>1, <2>1, LocalsOfOthers
<1>6. ShutdownInv'
  BY <1>1, ShutdownCalm
<1> QED BY <1>2, <1>3, <1>4, <1>5, <1>6, RegistryStays

\* The call that has the lock goes on, and has only changed its locals.
LEMMA Moves ==
    ASSUME IInv, NEW c \in Calls, Active(c), CallsOK', Alone(c), Active(c)', AtAwait(c)',
           UNCHANGED <<lifecycle, registry, info, tasks>>, BudgetOK',
           budget'.abandoned = MaxAbandoned => budget.abandoned = MaxAbandoned,
           calls'[c].method = calls[c].method, calls[c].pc # "insert",
           calls'[c].answer = calls[c].answer,
           calls'[c].pc \in Early => calls[c].pc \in Early,
           calls'[c].pc = "wait" => calls[c].pc = "wait" /\ calls'[c].agent = calls[c].agent,
           calls'[c].pc = "stopping" /\ budget'.abandoned = MaxAbandoned
             => /\ calls[c].pc = "stopping"
                /\ calls[c].todo \cup calls[c].waits \subseteq calls'[c].todo \cup calls'[c].waits
    PROVE  IInv'
<1> USE DEF IInv
<1>1. TypeInv'
  BY DEF TypeInv, RegistryOK, InfoOK, TasksOK, LockOK
<1>2. LockInv'
  BY DEF LockInv, Active, Alone
<1>3. ProcessInv'
  BY SentByOthers
<1>4. LocalsInv'
  BY LocalsOfOthers
<1>5. ShutdownInv'
  <2>1. calls[c].pc # "done" /\ calls[c].pc # "lock"
    BY DEF Active
  <2>2. calls[c].answer = "none"
    BY <2>1 DEF TypeInv, CallsOK, Fits
  <2>3. calls[c].method = "shutdown" => lifecycle.closed
    BY <2>1 DEF ShutdownInv
  <2> QED BY <2>1, <2>2, <2>3, ShutdownCalm
<1> QED BY <1>1, <1>2, <1>3, <1>4, <1>5, RegistryStays

-------------------------------------------------------------------------------
(***************************************************************************)
(* Steps of a call that only move it on.                                   *)
(***************************************************************************)

LEMMA MethodAt ==
    ASSUME CallsOK, NEW c \in Calls, calls[c].pc # "done"
    PROVE  /\ calls[c].pc = "prepare" => calls[c].method = "prepare"
           /\ calls[c].pc = "worktree" => calls[c].method = "create"
           /\ calls[c].pc \in {"scan_slot", "spawn", "insert"}
                => calls[c].method \in {"create", "restart"}
           /\ calls[c].pc = "scan_count" => calls[c].method = "restart"
           /\ calls[c].pc \in {"read", "send", "wait", "stopped", "failed"}
                => calls[c].method \in {"stop", "restart"}
           /\ calls[c].pc = "release" => calls[c].method = "stop"
           /\ calls[c].pc = "stopping" => calls[c].method = "shutdown"
<1>1. calls[c].method \in {"none", "prepare", "create", "stop", "restart", "shutdown"}
  BY DEF CallsOK, Locals, Methods
<1>2. calls[c].pc \in MayBeAt(calls[c].method)
  BY DEF CallsOK, Fits
<1> QED BY <1>1, <1>2 DEF MayBeAt

LEMMA FitsAt ==
    ASSUME NEW r \in Locals, Fits(r), r.pc # "done", r.method # "none",
           NEW pc \in MayBeAt(r.method), NEW slot \in 0 .. MaxAgents,
           pc \in {"spawn", "insert"} => r.agent \in Agents,
           pc \in {"worktree", "spawn"} /\ r.method = "create" => slot \in Slots,
           pc \notin {"spawn", "insert"} /\ r.method = "create" => r.agent = None
    PROVE  Fits([r EXCEPT !.pc = pc, !.slot = slot])
<1> DEFINE q == [r EXCEPT !.pc = pc, !.slot = slot]
<1>1. /\ q.pc = pc /\ q.slot = slot /\ q.method = r.method /\ q.agent = r.agent
      /\ q.generation = r.generation /\ q.answer = r.answer
  BY DEF Locals
<1> HIDE DEF q
<1>2. Fits(q)
  BY <1>1 DEF Fits
<1> QED BY <1>2 DEF q

LEMMA FitsGoto ==
    ASSUME NEW r \in Locals, Fits(r), r.pc # "done", r.method # "none",
           NEW pc \in MayBeAt(r.method),
           pc \in {"spawn", "insert"} => r.agent \in Agents,
           pc \in {"worktree", "spawn"} /\ r.method = "create" => r.slot \in Slots,
           pc \notin {"spawn", "insert"} /\ r.method = "create" => r.agent = None
    PROVE  Fits([r EXCEPT !.pc = pc])
<1> DEFINE q == [r EXCEPT !.pc = pc]
<1>1. /\ q.pc = pc /\ q.slot = r.slot /\ q.method = r.method /\ q.agent = r.agent
      /\ q.generation = r.generation /\ q.answer = r.answer
  BY DEF Locals
<1> HIDE DEF q
<1>2. Fits(q)
  BY <1>1 DEF Fits
<1> QED BY <1>2 DEF q

LEMMA SameBudget ==
    ASSUME BudgetOK, UNCHANGED budget
    PROVE  BudgetOK'
BY DEF BudgetOK

-----------------------------------------------------------------------------
LEMMA CallStays ==
    ASSUME IInv, NEW c \in Calls, Call(c)
    PROVE  IInv'
<1> USE DEF IInv
<1>1. /\ calls[c].pc = "idle" /\ calls[c].method = "none" /\ calls[c].agent = None
      /\ calls[c].answer = "none" /\ calls[c] \in Locals
      /\ UNCHANGED <<lifecycle, registry, info, tasks, repository, budget>>
  <2>1. calls[c].pc = "idle"
    BY DEF Call, At
  <2>2. calls[c].method \in {"none", "prepare", "create", "stop", "restart", "shutdown"}
    BY DEF TypeInv, CallsOK, Locals, Methods
  <2>3. calls[c].pc \in MayBeAt(calls[c].method) /\ calls[c].answer = "none"
    BY <2>1 DEF TypeInv, CallsOK, Fits
  <2>4. calls[c].method = "none"
    BY <2>1, <2>2, <2>3 DEF MayBeAt
  <2> QED BY <2>1, <2>3, <2>4 DEF TypeInv, CallsOK, Fits, Call
<1>2. PICK r \in Locals : /\ calls' = [calls EXCEPT ![c] = r]
                          /\ r.pc = "lock" /\ r.answer = "none" /\ Fits(r)
  <2>1. CASE \E m \in Methods \ {"stop", "restart"} :
                calls' = [calls EXCEPT ![c].method = m, ![c].pc = "lock"]
    <3>1. PICK m \in Methods \ {"stop", "restart"} :
                calls' = [calls EXCEPT ![c].method = m, ![c].pc = "lock"]
      BY <2>1
    <3> DEFINE r == [calls[c] EXCEPT !.method = m, !.pc = "lock"]
    <3>2. /\ r \in Locals /\ r.pc = "lock" /\ r.answer = "none" /\ r.agent = None
          /\ r.method = m
      BY <1>1 DEF Locals, PCs
    <3>3. calls' = [calls EXCEPT ![c] = r]
      BY <3>1 DEF TypeInv, CallsOK
    <3> HIDE DEF r
    <3>4. Fits(r)
      BY <3>2 DEF Fits, MayBeAt, Methods
    <3> QED BY <3>2, <3>3, <3>4
  <2>2. CASE \E m \in {"stop", "restart"}, a \in Agents, g \in 0 .. MaxGenerations :
                /\ m = "restart" => g < MaxGenerations
                /\ calls' = [calls EXCEPT ![c].method = m, ![c].pc = "lock",
                                          ![c].agent = a, ![c].generation = g]
    <3>1. PICK m \in {"stop", "restart"}, a \in Agents, g \in 0 .. MaxGenerations :
                /\ m = "restart" => g < MaxGenerations
                /\ calls' = [calls EXCEPT ![c].method = m, ![c].pc = "lock",
                                          ![c].agent = a, ![c].generation = g]
      BY <2>2
    <3> DEFINE r == [calls[c] EXCEPT !.method = m, !.pc = "lock", !.agent = a,
                                     !.generation = g]
    <3>2. /\ r \in Locals /\ r.pc = "lock" /\ r.answer = "none" /\ r.agent = a
          /\ r.method = m /\ r.generation = g
      BY <1>1, Constants DEF Locals, PCs, Methods
    <3>3. calls' = [calls EXCEPT ![c] = r]
      BY <3>1 DEF TypeInv, CallsOK
    <3> HIDE DEF r
    <3>4. Fits(r)
      BY <3>1, <3>2 DEF Fits, MayBeAt
    <3> QED BY <3>2, <3>3, <3>4
  <2>3. \A a \in Agents : info[a].generation \in 0 .. MaxGenerations
    BY Constants DEF TypeInv, InfoOK, Records, Generations
  <2>4. PICK m \in Methods :
         IF m \notin {"stop", "restart"}
           THEN /\ m = "create" => Cardinality(Creating) < Cardinality(Unused)
                /\ calls' = [calls EXCEPT ![c].method = m, ![c].pc = "lock"]
           ELSE \E a \in Agents : \E g \in 1 .. info[a].generation :
                  /\ m = "restart" => g < MaxGenerations
                  /\ calls' = [calls EXCEPT ![c].method = m, ![c].pc = "lock",
                                            ![c].agent = a, ![c].generation = g]
    BY DEF Call
  <2>5. CASE m \in {"stop", "restart"}
    <3>1. PICK a \in Agents : \E g \in 1 .. info[a].generation :
                  /\ m = "restart" => g < MaxGenerations
                  /\ calls' = [calls EXCEPT ![c].method = m, ![c].pc = "lock",
                                            ![c].agent = a, ![c].generation = g]
      BY <2>4, <2>5
    <3>2. 1 .. info[a].generation \subseteq 0 .. MaxGenerations
      <4>1. MaxGenerations \in Nat
        BY Constants
      <4>2. info[a].generation \in Nat /\ info[a].generation <= MaxGenerations
        BY <2>3, <4>1
      <4> QED BY <4>1, <4>2
    <3> QED BY <2>2, <2>5, <3>1, <3>2
  <2> QED BY <2>1, <2>4, <2>5
<1>3. CallsOK' /\ calls'[c] = r /\ Alone(c)
  BY <1>2, Updated DEF TypeInv
<1>4. TypeInv'
  BY <1>1, <1>3 DEF TypeInv, RegistryOK, InfoOK, TasksOK, LockOK, BudgetOK
<1>5. LockInv'
  BY <1>1, <1>2, <1>3 DEF LockInv, Active, Alone
<1>6. ProcessInv'
  BY <1>1, <1>2, <1>3, SentByOthers DEF Early
<1>7. LocalsInv'
  <2>1. AtAwait(c)'
    BY <1>2, <1>3 DEF AtAwait
  <2> QED BY <1>1, <1>3, <2>1, LocalsOfOthers
<1>8. ShutdownInv'
  <2>1. (lifecycle.closed => \A d \in Calls : Active(d) => calls[d].method = "shutdown")'
    BY <1>1, <1>2, <1>3 DEF ShutdownInv, Active, Alone
  <2>2. (\A d \in Calls : calls[d].method = "shutdown" /\ calls[d].pc \notin {"lock", "done"}
                         => lifecycle.closed)'
    BY <1>1, <1>2, <1>3 DEF ShutdownInv, Alone
  <2>3. ASSUME budget'.abandoned = MaxAbandoned, NEW a \in Agents, info'[a].state = "running"
        PROVE  Known(a)'
    <3>1. Known(a)
      BY <1>1, <2>3 DEF ShutdownInv
    <3> QED BY <1>1, <1>3, <2>3, <3>1 DEF Known, Alone
  <2>4. ASSUME budget'.abandoned = MaxAbandoned, NEW d \in Calls, calls'[d].pc = "stopping",
               NEW a \in Agents, info'[a].state = "running"
        PROVE  a \in calls'[d].todo \cup calls'[d].waits
    BY <1>1, <1>2, <1>3, <2>4 DEF ShutdownInv, Alone
  <2>5. ASSUME budget'.abandoned = MaxAbandoned, NEW d \in Calls,
               calls'[d].method = "shutdown", calls'[d].answer = "ok"
        PROVE  (lifecycle.closed /\ NothingRuns)'
    BY <1>1, <1>2, <1>3, <2>5 DEF ShutdownInv, Alone, NothingRuns
  <2> QED BY <2>1, <2>2, <2>3, <2>4, <2>5 DEF ShutdownInv
<1> QED BY <1>1, <1>4, <1>5, <1>6, <1>7, <1>8, RegistryStays

LEMMA PrepareStays ==
    ASSUME IInv, NEW c \in Calls, Prepare(c)
    PROVE  IInv'
<1> USE DEF IInv
<1>1. calls[c].method = "prepare" /\ calls[c].pc = "prepare"
  BY MethodAt DEF TypeInv, Prepare, At
<1>2. UNCHANGED <<registry, info, tasks>>
  BY DEF Prepare
<1>3. CASE Return(c, "ok") /\ UNCHANGED budget
  BY <1>1, <1>2, <1>3, SameBudget, Ends DEF TypeInv, Answers
<1>4. CASE Return(c, "error") /\ Spend("failure")
  BY <1>1, <1>2, <1>4, Spent, Ends DEF TypeInv, Answers
<1> QED BY <1>3, <1>4 DEF Prepare

LEMMA ScanStays ==
    ASSUME IInv, NEW c \in Calls, Scan(c)
    PROVE  IInv'
<1> USE DEF IInv
<1>1. PICK a \in calls[c].todo :
         calls' = [calls EXCEPT ![c].todo = @ \ {a},
                                ![c].seen = IF info[a].state = "stopped" THEN @
                                            ELSE @ \cup {info[a].slot}]
  BY DEF Scan
<1>2. calls[c].pc \in {"scan_slot", "scan_count"}
      /\ UNCHANGED <<lifecycle, registry, info, tasks, repository, budget>>
  BY DEF Scan
<1> DEFINE seen == IF info[a].state = "stopped" THEN calls[c].seen
                   ELSE calls[c].seen \cup {info[a].slot}
           r == [calls[c] EXCEPT !.todo = @ \ {a}, !.seen = seen]
<1>3. /\ r \in Locals /\ r.method = calls[c].method /\ r.pc = calls[c].pc
      /\ r.agent = calls[c].agent /\ r.generation = calls[c].generation
      /\ r.answer = calls[c].answer /\ r.todo = calls[c].todo \ {a} /\ r.seen = seen
      /\ r.slot = calls[c].slot
  <2>1. calls[c].todo \ {a} \in SUBSET Agents /\ seen \in SUBSET (0 .. MaxAgents)
    BY DEF TypeInv, CallsOK, Locals, InfoOK, Records
  <2> HIDE DEF seen
  <2> QED BY <2>1 DEF TypeInv, CallsOK, Locals
<1>4. calls' = [calls EXCEPT ![c] = r]
  BY <1>1 DEF TypeInv, CallsOK, Locals
<1> HIDE DEF r
<1>5. Fits(r)
  BY <1>3 DEF TypeInv, CallsOK, Fits
<1>6. CallsOK' /\ calls'[c] = r /\ Alone(c)
  BY <1>3, <1>4, <1>5, Updated DEF TypeInv
<1>7. AtAwait(c)'
  <2>1. AtAwait(c)
    BY DEF LocalsInv
  <2>2. Seen(c) => Seen(c)'
    BY <1>2, <1>3, <1>6 DEF Seen, Registered
  <2> QED BY <1>2, <1>3, <1>6, <2>1, <2>2
          DEF AtAwait, OfAgent, InGeneration, Free, Registered
<1> QED BY <1>2, <1>3, <1>6, <1>7, SameBudget, Moves DEF TypeInv, Active, Early

-------------------------------------------------------------------------------
(***************************************************************************)
(* The scan of the records for a slot, and what follows it.                *)
(***************************************************************************)

LEMMA Least ==
    ASSUME NEW S \in SUBSET Nat, S # {}
    PROVE  \E n \in S : \A m \in S : n <= m
<1> DEFINE Below == {s \in Nat \X Nat : s[1] < s[2]}
<1>1. IsWellFoundedOn(Below, Nat)
  <2>1. Below = OpToRel(<, Nat)
    BY DEF OpToRel
  <2> QED BY <2>1, NatLessThanWellFounded
<1>2. PICK n \in S : \A m \in S : <<m, n>> \notin Below
  <2> HIDE DEF Below
  <2> QED BY <1>1, WFMin
<1>3. ASSUME NEW m \in S PROVE n <= m
  <2>1. m \in Nat /\ n \in Nat /\ <<m, n>> \in Nat \X Nat
    OBVIOUS
  <2>2. ~(m < n)
    BY <1>2, <2>1
  <2> QED BY <2>1, <2>2
<1> QED BY <1>3

LEMMA FirstFree ==
    ASSUME NEW S \in SUBSET Slots, S # {}
    PROVE  Min(S) \in S
<1>1. S \in SUBSET Nat
  BY Constants DEF Slots
<1> QED BY <1>1, Least DEF Min

LEMMA FitsScan ==
    ASSUME NEW r \in Locals, Fits(r), r.pc # "done", NEW pc \in {"scan_slot", "scan_count"},
           \/ r.method = "restart"
           \/ r.method = "create" /\ r.agent = None /\ pc = "scan_slot"
    PROVE  Fits([r EXCEPT !.pc = pc, !.slot = None])
<1>1. pc \in MayBeAt(r.method)
  BY DEF MayBeAt
<1>2. None \in 0 .. MaxAgents
  BY Constants DEF None
<1> QED BY <1>1, <1>2, FitsAt

LEMMA TakeSlotStays ==
    ASSUME IInv, NEW c \in Calls, TakeSlot(c)
    PROVE  IInv'
<1> USE DEF IInv
<1>1. /\ calls[c].method = "create" /\ calls[c].pc = "scan_slot" /\ calls[c].todo = {}
      /\ UNCHANGED <<registry, info, tasks, repository, budget>>
  BY DEF TakeSlot, Scanned, At
<1>2. calls[c].agent = None /\ calls[c].answer = "none" /\ calls[c] \in Locals
  BY <1>1 DEF TypeInv, CallsOK, Fits
<1> DEFINE free == Slots \ calls[c].seen
<1>3. CASE Return(c, "limit")
  BY <1>1, <1>3, SameBudget, Ends DEF TypeInv, Answers
<1>4. CASE /\ free # {}
           /\ calls' = [calls EXCEPT ![c].pc = "worktree", ![c].slot = Min(free)]
           /\ UNCHANGED lifecycle
  <2>1. Min(free) \in free
    BY <1>4, FirstFree
  <2>2. Min(free) \in Slots /\ Min(free) \notin calls[c].seen
    BY <2>1
  <2> DEFINE s == Min(free)
             r == [calls[c] EXCEPT !.pc = "worktree", !.slot = s]
  <2>3. s \in Slots /\ s \in 0 .. MaxAgents /\ s \notin calls[c].seen
    BY <2>2, Constants DEF Slots
  <2>4. calls' = [calls EXCEPT ![c] = r]
    BY <1>4 DEF TypeInv, CallsOK
  <2> HIDE DEF s
  <2>5. /\ r \in Locals /\ r.pc = "worktree" /\ r.slot = s /\ r.method = "create"
        /\ r.agent = None /\ r.answer = "none"
    BY <1>1, <1>2, <2>3 DEF Locals, PCs
  <2> HIDE DEF r
  <2>6. Fits(r)
    BY <2>3, <2>5 DEF Fits, MayBeAt
  <2>7. CallsOK' /\ calls'[c] = r /\ Alone(c)
    BY <2>4, <2>5, <2>6, Updated DEF TypeInv
  <2>8. Free(s, None)
    BY <1>1, <1>2, <2>3 DEF LocalsInv, AtAwait, Seen, Free
  <2>9. AtAwait(c)'
    BY <1>1, <2>5, <2>7, <2>8 DEF AtAwait, Free, Registered
  <2> QED BY <1>1, <1>2, <1>4, <2>5, <2>7, <2>9, SameBudget, Moves DEF TypeInv, Active, Early
<1> QED BY <1>3, <1>4 DEF TakeSlot

LEMMA KeepSlotStays ==
    ASSUME IInv, NEW c \in Calls, KeepSlot(c)
    PROVE  IInv'
<1> USE DEF IInv
<1>1. /\ calls[c].method = "restart" /\ calls[c].pc = "scan_slot" /\ calls[c].todo = {}
      /\ UNCHANGED <<registry, info, tasks, repository, budget>>
  BY DEF KeepSlot, Scanned, At
<1>2. calls[c].answer = "none" /\ calls[c] \in Locals /\ Fits(calls[c])
  BY <1>1 DEF TypeInv, CallsOK, Fits
<1>3. CASE Return(c, "slot taken")
  BY <1>1, <1>3, SameBudget, Ends DEF TypeInv, Answers
<1>4. CASE info[calls[c].agent].slot \notin calls[c].seen /\ StartScan(c, "scan_count")
           /\ UNCHANGED lifecycle
  <2>1. Fits([calls[c] EXCEPT !.pc = "scan_count", !.slot = None])
    BY <1>1, <1>2, FitsScan
  <2>2. /\ CallsOK' /\ Alone(c) /\ Kept(c) /\ calls'[c].pc = "scan_count"
    BY <1>4, <2>1, Started DEF PCs
  <2>3. Free(info[calls[c].agent].slot, calls[c].agent)
    BY <1>1, <1>4 DEF LocalsInv, AtAwait, Seen, Free
  <2>4. OfAgent(c, {"stopped", "failed"}) /\ InGeneration(c)
    BY <1>1 DEF LocalsInv, AtAwait
  <2>5. AtAwait(c)'
    BY <1>1, <2>2, <2>3, <2>4
       DEF AtAwait, Kept, OfAgent, InGeneration, Free, Registered
  <2> QED BY <1>1, <1>2, <1>4, <2>2, <2>5, SameBudget, Moves DEF TypeInv, Active, Early, Kept
<1> QED BY <1>3, <1>4 DEF KeepSlot

LEMMA WorktreeStays ==
    ASSUME IInv, NEW c \in Calls, Worktree(c)
    PROVE  IInv'
<1> USE DEF IInv
<1>1. calls[c].pc = "worktree" /\ UNCHANGED <<registry, info, tasks, repository>>
  BY DEF Worktree, At
<1>2. calls[c].method = "create"
  BY <1>1, MethodAt DEF TypeInv
<1>3. calls[c].answer = "none" /\ calls[c] \in Locals /\ Fits(calls[c])
      /\ calls[c].slot \in Slots
  BY <1>1, <1>2 DEF TypeInv, CallsOK, Fits
<1>4. CASE \E a \in Agents :
            /\ info[a].state = "none"
            /\ calls' = [calls EXCEPT ![c].pc = "spawn", ![c].agent = a]
            /\ UNCHANGED <<lifecycle, budget>>
  <2>1. PICK a \in Agents :
            /\ info[a].state = "none"
            /\ calls' = [calls EXCEPT ![c].pc = "spawn", ![c].agent = a]
            /\ UNCHANGED <<lifecycle, budget>>
    BY <1>4
  <2> DEFINE r == [calls[c] EXCEPT !.pc = "spawn", !.agent = a]
  <2>2. /\ r \in Locals /\ r.pc = "spawn" /\ r.slot = calls[c].slot /\ r.method = "create"
        /\ r.agent = a /\ r.answer = "none"
    BY <1>2, <1>3, Constants DEF Locals, PCs
  <2>3. calls' = [calls EXCEPT ![c] = r]
    BY <2>1 DEF TypeInv, CallsOK
  <2> HIDE DEF r
  <2>4. Fits(r)
    BY <1>3, <2>2 DEF Fits, MayBeAt
  <2>5. CallsOK' /\ calls'[c] = r /\ Alone(c)
    BY <2>2, <2>3, <2>4, Updated DEF TypeInv
  <2>6. a \notin Registered
    BY <2>1 DEF RegistryInv
  <2>7. Free(calls[c].slot, a)
    <3>1. Free(calls[c].slot, None)
      BY <1>1 DEF LocalsInv, AtAwait
    <3> QED BY <2>6, <3>1, Constants DEF Free, Registered
  <2>8. AtAwait(c)'
    BY <1>1, <2>1, <2>2, <2>5, <2>6, <2>7 DEF AtAwait, Free, Registered
  <2> QED BY <1>1, <1>2, <1>3, <2>1, <2>2, <2>5, <2>8, SameBudget, Moves
          DEF TypeInv, Active, Early
<1>5. CASE /\ IF repository = "ready" THEN Spend("failure") ELSE UNCHANGED budget
           /\ Return(c, "error")
  BY <1>1, <1>5, Spent, SameBudget, Ends DEF TypeInv, Answers
<1> QED BY <1>4, <1>5 DEF Worktree

LEMMA ReadStateStays ==
    ASSUME IInv, NEW c \in Calls, ReadState(c)
    PROVE  IInv'
<1> USE DEF IInv
<1> DEFINE a == calls[c].agent
<1>1. calls[c].pc = "read" /\ UNCHANGED <<registry, info, tasks, repository, budget>>
  BY DEF ReadState, At
<1>2. calls[c].method \in {"stop", "restart"}
  BY <1>1, MethodAt DEF TypeInv
<1>3. calls[c].answer = "none" /\ calls[c] \in Locals /\ Fits(calls[c]) /\ a \in Agents
  BY <1>1, <1>2 DEF TypeInv, CallsOK, Fits
<1>4. CASE Return(c, "unknown") \/ Return(c, "stale")
  BY <1>1, <1>2, <1>4, SameBudget, Ends DEF TypeInv, Answers
<1>5. ASSUME a \in Registered, info[a].generation = calls[c].generation, UNCHANGED lifecycle
      PROVE  /\ info[a].state \in {"running", "stopped", "failed"}
             /\ InGeneration(c)
             /\ OfAgent(c, {info[a].state}) /\ OfAgent(c, States)
  <2>1. info[a].state \in States /\ info[a].state # "none"
    BY <1>3, <1>5 DEF TypeInv, InfoOK, Records, RegistryInv
  <2> QED BY <1>5, <2>1 DEF States, InGeneration, OfAgent
<1>6. CASE /\ a \in Registered /\ info[a].generation = calls[c].generation
           /\ UNCHANGED lifecycle
           /\ info[a].state = "running" /\ Goto(c, "send")
  <2>1. Fits([calls[c] EXCEPT !.pc = "send"])
    BY <1>1, <1>2, <1>3, FitsGoto DEF MayBeAt
  <2>2. CallsOK' /\ Alone(c) /\ Kept(c) /\ calls'[c].pc = "send"
    BY <1>6, <2>1, Gone DEF TypeInv, PCs
  <2>3. AtAwait(c)'
    BY <1>1, <1>5, <1>6, <2>2 DEF AtAwait, OfAgent, InGeneration, Kept, Registered
  <2> QED BY <1>1, <1>2, <1>6, <2>2, <2>3, SameBudget, Moves DEF TypeInv, Active, Early, Kept
<1>7. CASE /\ a \in Registered /\ info[a].generation = calls[c].generation
           /\ UNCHANGED lifecycle
           /\ info[a].state # "running" /\ calls[c].method = "restart"
           /\ StartScan(c, "scan_slot")
  <2>1. Fits([calls[c] EXCEPT !.pc = "scan_slot", !.slot = None])
    BY <1>1, <1>3, <1>7, FitsScan
  <2>2. /\ CallsOK' /\ Alone(c) /\ Kept(c) /\ calls'[c].pc = "scan_slot"
        /\ calls'[c].todo = Registered \ {calls[c].agent}
    BY <1>7, <2>1, Started DEF PCs
  <2>3. OfAgent(c, {"stopped", "failed"}) /\ InGeneration(c)
    BY <1>5, <1>7 DEF OfAgent
  <2>4. AtAwait(c)'
    BY <1>1, <1>7, <2>2, <2>3 DEF AtAwait, OfAgent, InGeneration, Kept, Seen, Registered
  <2> QED BY <1>1, <1>7, <2>2, <2>4, SameBudget, Moves DEF TypeInv, Active, Early, Kept
<1>8. CASE /\ a \in Registered /\ info[a].generation = calls[c].generation
           /\ UNCHANGED lifecycle
           /\ info[a].state # "running" /\ calls[c].method = "stop"
           /\ Goto(c, "release")
  <2>1. Fits([calls[c] EXCEPT !.pc = "release"])
    BY <1>1, <1>3, <1>8, FitsGoto DEF MayBeAt
  <2>2. CallsOK' /\ Alone(c) /\ Kept(c) /\ calls'[c].pc = "release"
    BY <1>8, <2>1, Gone DEF TypeInv, PCs
  <2>3. OfAgent(c, {"stopped", "failed"})
    BY <1>5, <1>8 DEF OfAgent
  <2>4. AtAwait(c)'
    BY <1>1, <2>2, <2>3 DEF AtAwait, OfAgent, Kept, Registered
  <2> QED BY <1>1, <1>8, <2>2, <2>4, SameBudget, Moves DEF TypeInv, Active, Early, Kept
<1>9. \/ Return(c, "unknown") \/ Return(c, "stale")
      \/ /\ a \in Registered /\ info[a].generation = calls[c].generation
         /\ UNCHANGED lifecycle
         /\ info[a].state = "running" => Goto(c, "send")
         /\ info[a].state # "running" /\ calls[c].method = "restart"
              => StartScan(c, "scan_slot")
         /\ info[a].state # "running" /\ calls[c].method # "restart"
              => Goto(c, "release")
  <2>1. CASE info[a].state = "running"
    BY <2>1 DEF ReadState
  <2>2. CASE info[a].state # "running" /\ calls[c].method = "restart"
    BY <2>2 DEF ReadState
  <2>3. CASE info[a].state # "running" /\ calls[c].method # "restart"
    BY <2>3 DEF ReadState
  <2> QED BY <2>1, <2>2, <2>3
<1> HIDE DEF a
<1>10. CASE info[a].state = "running"
  BY <1>4, <1>6, <1>9, <1>10
<1>11. CASE info[a].state # "running" /\ calls[c].method = "restart"
  BY <1>4, <1>7, <1>9, <1>11
<1>12. CASE info[a].state # "running" /\ calls[c].method = "stop"
  BY <1>4, <1>8, <1>9, <1>12
<1> QED BY <1>2, <1>10, <1>11, <1>12

LEMMA StopAnsweredStays ==
    ASSUME IInv, NEW c \in Calls, StopAnswered(c)
    PROVE  IInv'
<1> USE DEF IInv
<1>1. /\ calls[c].pc \in {"failed", "stopped"}
      /\ UNCHANGED <<registry, info, tasks, repository, budget>>
  BY DEF StopAnswered, At
<1>2. calls[c].method \in {"stop", "restart"}
  BY <1>1, MethodAt DEF TypeInv
<1>3. calls[c].answer = "none" /\ calls[c] \in Locals /\ Fits(calls[c])
  BY <1>1 DEF TypeInv, CallsOK, Fits
<1>4. CASE Return(c, "error") \/ Return(c, "ok")
  BY <1>1, <1>2, <1>4, SameBudget, Ends DEF TypeInv, Answers
<1>5. CASE /\ calls[c].pc = "stopped" /\ calls[c].method = "restart"
           /\ StartScan(c, "scan_slot") /\ UNCHANGED lifecycle
  <2>1. Fits([calls[c] EXCEPT !.pc = "scan_slot", !.slot = None])
    BY <1>3, <1>5, FitsScan
  <2>2. /\ CallsOK' /\ Alone(c) /\ Kept(c) /\ calls'[c].pc = "scan_slot"
        /\ calls'[c].todo = Registered \ {calls[c].agent}
    BY <1>5, <2>1, Started DEF PCs
  <2>3. OfAgent(c, {"stopped"}) /\ InGeneration(c)
    BY <1>5 DEF LocalsInv, AtAwait
  <2>4. AtAwait(c)'
    BY <1>1, <1>5, <2>2, <2>3 DEF AtAwait, OfAgent, InGeneration, Kept, Seen, Registered
  <2> QED BY <1>1, <1>3, <1>5, <2>2, <2>4, SameBudget, Moves DEF TypeInv, Active, Early, Kept
<1> QED BY <1>4, <1>5 DEF StopAnswered, At

-------------------------------------------------------------------------------
(***************************************************************************)
(* Answers of the tasks to the calls that wait, and calls that are given   *)
(* up.                                                                     *)
(***************************************************************************)

\* The call when the request for agent a is answered: pc is where it goes if it
\* waits for this one alone.
After(c, a, pc) ==
    CASE calls[c].pc = "stopping" -> [calls[c] EXCEPT !.waits = @ \ {a}]
      [] calls[c].pc = "wait" -> [calls[c] EXCEPT !.pc = pc]
      [] OTHER -> calls[c]

LEMMA AnsweredAfter ==
    ASSUME NEW c, NEW a
    PROVE  Answered(c, a, TRUE) = After(c, a, "stopped")
           /\ Answered(c, a, FALSE) = After(c, a, "failed")
BY DEF Answered, After, At

LEMMA AnswerTold ==
    ASSUME CallsOK, NEW c \in Calls, NEW a \in Agents, NEW pc \in {"stopped", "failed"},
           NEW r, r = After(c, a, pc)
    PROVE  /\ r \in Locals /\ Fits(r)
           /\ r.method = calls[c].method /\ r.agent = calls[c].agent
           /\ r.generation = calls[c].generation /\ r.answer = calls[c].answer
           /\ r.todo = calls[c].todo /\ r.seen = calls[c].seen /\ r.slot = calls[c].slot
           /\ calls[c].pc = "stopping" =>
                r.pc = "stopping" /\ r.waits = calls[c].waits \ {a}
           /\ calls[c].pc # "stopping" => r.waits = calls[c].waits
           /\ calls[c].pc = "wait" => r.pc = pc
           /\ calls[c].pc \notin {"wait", "stopping"} => r = calls[c]
<1>1. CASE calls[c].pc = "stopping"
  <2>1. r = [calls[c] EXCEPT !.waits = @ \ {a}]
    BY <1>1 DEF After
  <2>2. /\ r \in Locals /\ r.method = calls[c].method /\ r.agent = calls[c].agent
        /\ r.generation = calls[c].generation /\ r.answer = calls[c].answer
        /\ r.todo = calls[c].todo /\ r.seen = calls[c].seen /\ r.slot = calls[c].slot
        /\ r.pc = "stopping" /\ r.waits = calls[c].waits \ {a}
    <3>1. calls[c] \in Locals
      BY DEF CallsOK
    <3> QED BY <1>1, <2>1, <3>1 DEF Locals
  <2>3. Fits(r)
    BY <1>1, <2>2 DEF CallsOK, Fits
  <2> QED BY <1>1, <2>2, <2>3
<1>2. CASE calls[c].pc = "wait"
  <2>1. r = [calls[c] EXCEPT !.pc = pc]
    BY <1>2 DEF After
  <2>3. calls[c].method \in {"stop", "restart"}
    BY <1>2, MethodAt
  <2>4. pc \in MayBeAt(calls[c].method)
    BY <2>3 DEF MayBeAt
  <2>5. /\ r \in Locals /\ r.method = calls[c].method /\ r.agent = calls[c].agent
        /\ r.generation = calls[c].generation /\ r.answer = calls[c].answer
        /\ r.todo = calls[c].todo /\ r.seen = calls[c].seen /\ r.slot = calls[c].slot
        /\ r.pc = pc /\ r.waits = calls[c].waits
    <3>1. calls[c] \in Locals
      BY DEF CallsOK
    <3> QED BY <2>1, <3>1 DEF Locals, PCs
  <2>6. Fits(r)
    BY <1>2, <2>1, <2>3, <2>4, FitsGoto DEF CallsOK
  <2> QED BY <1>2, <2>5, <2>6
<1>3. CASE calls[c].pc \notin {"wait", "stopping"}
  BY <1>3 DEF After, CallsOK
<1> QED BY <1>1, <1>2, <1>3

LEMMA TimeoutStays ==
    ASSUME IInv, NEW c \in Calls, Timeout(c)
    PROVE  IInv'
<1> USE DEF IInv
<1>1. PICK a \in Agents :
        /\ \/ calls[c].pc = "wait" /\ a = calls[c].agent
           \/ calls[c].pc = "stopping" /\ a \in calls[c].waits
        /\ calls' = [calls EXCEPT ![c] = Answered(c, a, FALSE)]
  BY DEF Timeout, At
<1>2. UNCHANGED <<lifecycle, registry, info, tasks, repository>>
      /\ BudgetOK' /\ budget'.abandoned # MaxAbandoned
  BY Spent DEF Timeout, TypeInv
<1>3. PICK r : r = After(c, a, "failed")
  OBVIOUS
<1>4. CallsOK' /\ calls'[c] = r /\ Alone(c)
  <2>1. Answered(c, a, FALSE) = r
    BY <1>3, AnsweredAfter
  <2>2. calls' = [calls EXCEPT ![c] = r]
    BY <1>1, <2>1
  <2>3. r \in Locals /\ Fits(r)
    BY <1>3, AnswerTold DEF TypeInv
  <2> QED BY <2>2, <2>3, Updated DEF TypeInv
<1>5. CASE calls[c].pc = "wait"
  <2>1. r.pc = "failed" /\ r.agent = calls[c].agent /\ r.method = calls[c].method
        /\ r.answer = calls[c].answer
    BY <1>3, <1>5, AnswerTold DEF TypeInv
  <2>2. AtAwait(c)'
    BY <1>2, <1>4, <1>5, <2>1 DEF LocalsInv, AtAwait, OfAgent, Registered
  <2> QED BY <1>2, <1>4, <1>5, <2>1, <2>2, Moves DEF Active, Early
<1>6. CASE calls[c].pc = "stopping"
  <2>1. r.pc = "stopping" /\ r.agent = calls[c].agent /\ r.method = calls[c].method
        /\ r.answer = calls[c].answer /\ r.todo = calls[c].todo
    BY <1>3, <1>6, AnswerTold DEF TypeInv
  <2>2. AtAwait(c)'
    BY <1>2, <1>4, <1>6, <2>1 DEF LocalsInv, AtAwait, Registered
  <2> QED BY <1>2, <1>4, <1>6, <2>1, <2>2, Moves DEF Active, Early
<1> QED BY <1>1, <1>5, <1>6

LEMMA DropStays ==
    ASSUME IInv, NEW c \in Calls, Drop(c)
    PROVE  IInv'
BY Spent, Ends DEF Drop, IInv, TypeInv, Answers

LEMMA ShutdownJoinedStays ==
    ASSUME IInv, NEW c \in Calls, ShutdownJoined(c)
    PROVE  IInv'
<1> USE DEF IInv
<1>1. /\ calls[c].pc = "stopping" /\ calls[c].waits = {}
      /\ \A a \in calls[c].todo : info[a].state # "running"
      /\ Return(c, "ok") /\ UNCHANGED <<registry, info, tasks, repository, budget>>
  BY DEF ShutdownJoined, At
<1>2. budget.abandoned = MaxAbandoned => lifecycle.closed /\ NothingRuns
  <2>1. calls[c].method = "shutdown"
    BY <1>1, MethodAt DEF TypeInv
  <2> QED BY <1>1, <2>1 DEF ShutdownInv, NothingRuns
<1> QED BY <1>1, <1>2, SameBudget, Ends DEF TypeInv, Answers

LEMMA AcquireStays ==
    ASSUME IInv, NEW c \in Calls, Acquire(c)
    PROVE  IInv'
<1> USE DEF IInv
<1>1. calls[c].pc = "lock" /\ lifecycle.holder = None
      /\ UNCHANGED <<registry, info, tasks, repository, budget>>
  BY DEF Acquire, At
<1>2. \A d \in Calls : ~Active(d)
  BY <1>1, Constants DEF LockInv
<1>3. /\ calls[c].answer = "none" /\ calls[c] \in Locals /\ Fits(calls[c])
      /\ calls[c].method \in {"prepare", "create", "stop", "restart", "shutdown"}
  <2>1. calls[c].method \in {"none", "prepare", "create", "stop", "restart", "shutdown"}
    BY DEF TypeInv, CallsOK, Locals, Methods
  <2> QED BY <1>1, <2>1 DEF TypeInv, CallsOK, Fits
<1>4. CASE Return(c, "closing")
  BY <1>1, <1>4, SameBudget, Ends DEF TypeInv, Answers
<1>5. ASSUME CallsOK', LockOK', Alone(c), Kept(c), lifecycle'.holder = c, Active(c)',
             calls'[c].pc # "wait", AtAwait(c)',
             calls'[c].pc \in Early => calls'[c].pc = "read",
             lifecycle'.closed <=> calls[c].method = "shutdown",
             lifecycle.closed => lifecycle'.closed,
             calls'[c].pc = "stopping" => calls'[c].todo = Registered,
             calls'[c].pc # "insert"
      PROVE  IInv'
  <2>1. TypeInv'
    BY <1>1, <1>5 DEF TypeInv, RegistryOK, InfoOK, TasksOK, BudgetOK
  <2>2. LockInv'
    BY <1>1, <1>2, <1>5, Constants DEF LockInv, Active, Alone
  <2>3. ProcessInv'
    BY <1>1, <1>5, SentByOthers DEF Early
  <2>4. LocalsInv'
    BY <1>1, <1>5, LocalsOfOthers
  <2>5. ShutdownInv'
    <3>1. (lifecycle.closed => \A d \in Calls : Active(d) => calls[d].method = "shutdown")'
      BY <1>2, <1>5 DEF Active, Alone, Kept
    <3>2. (\A d \in Calls : calls[d].method = "shutdown" /\ calls[d].pc \notin {"lock", "done"}
                             => lifecycle.closed)'
      BY <1>5 DEF ShutdownInv, Alone, Kept
    <3>3. ASSUME budget'.abandoned = MaxAbandoned, NEW a \in Agents, info'[a].state = "running"
          PROVE  a \in Registered /\ Known(a)'
      <4>1. Known(a)
        BY <1>1, <3>3 DEF ShutdownInv
      <4>2. registry[a] = info[a].generation
        BY <1>2, <4>1 DEF Known, Active
      <4> QED BY <1>1, <4>2 DEF Known, Registered, TypeInv, InfoOK, Records, Generations, None
    <3>4. ASSUME budget'.abandoned = MaxAbandoned, NEW d \in Calls, calls'[d].pc = "stopping",
                 NEW a \in Agents, info'[a].state = "running"
          PROVE  a \in calls'[d].todo \cup calls'[d].waits
      BY <1>2, <1>5, <3>3, <3>4 DEF Active, Alone
    <3>5. ASSUME budget'.abandoned = MaxAbandoned, NEW d \in Calls,
                 calls'[d].method = "shutdown", calls'[d].answer = "ok"
          PROVE  (lifecycle.closed /\ NothingRuns)'
      BY <1>1, <1>3, <1>5, <3>5 DEF ShutdownInv, Alone, Kept, NothingRuns
    <3> QED BY <3>1, <3>2, <3>3, <3>4, <3>5 DEF ShutdownInv
  <2> QED BY <1>1, <2>1, <2>2, <2>3, <2>4, <2>5, RegistryStays
<1>6. CASE calls[c].method = "shutdown" /\ lifecycle' = [holder |-> c, closed |-> TRUE]
           /\ StartScan(c, "stopping")
  <2>1. calls[c].agent = None
    BY <1>1, <1>3, <1>6 DEF Fits
  <2>2. Fits([calls[c] EXCEPT !.pc = "stopping", !.slot = None])
    <3>1. "stopping" \in MayBeAt("shutdown") /\ None \in 0 .. MaxAgents
      BY Constants DEF MayBeAt, None
    <3> QED BY <1>1, <1>3, <1>6, <3>1, FitsAt
  <2>3. /\ CallsOK' /\ Alone(c) /\ Kept(c) /\ calls'[c].pc = "stopping"
        /\ calls'[c].todo = Registered
    BY <1>6, <2>1, <2>2, Started, Constants DEF PCs, Registered
  <2>4. LockOK' /\ lifecycle'.holder = c /\ lifecycle'.closed = TRUE
    BY <1>6, Constants DEF LockOK
  <2>5. AtAwait(c)'
    BY <1>1, <2>3 DEF AtAwait, Registered
  <2> QED BY <1>5, <1>6, <2>3, <2>4, <2>5 DEF Active, Early
<1>7. CASE /\ calls[c].method # "shutdown" /\ ~lifecycle.closed
           /\ lifecycle' = [lifecycle EXCEPT !.holder = c]
           /\ CASE calls[c].method = "prepare" -> Goto(c, "prepare")
                [] calls[c].method = "create" -> StartScan(c, "scan_slot")
                [] OTHER -> Goto(c, "read")
  <2>1. LockOK' /\ lifecycle'.holder = c /\ lifecycle'.closed = FALSE
    BY <1>7, Constants DEF TypeInv, LockOK
  <2>2. CASE calls[c].method = "create"
    <3>1. StartScan(c, "scan_slot") /\ calls[c].agent = None
      BY <1>1, <1>3, <1>7, <2>2 DEF Fits
    <3>2. Fits([calls[c] EXCEPT !.pc = "scan_slot", !.slot = None])
      BY <1>1, <1>3, <2>2, <3>1, FitsScan
    <3>3. /\ CallsOK' /\ Alone(c) /\ Kept(c) /\ calls'[c].pc = "scan_slot"
          /\ calls'[c].todo = Registered \ {None}
      BY <3>1, <3>2, Started DEF PCs
    <3>4. AtAwait(c)'
      BY <1>1, <2>2, <3>1, <3>3 DEF AtAwait, Seen, Kept, Registered
    <3> QED BY <1>5, <1>7, <2>1, <2>2, <3>3, <3>4 DEF Active, Early
  <2>3. ASSUME NEW pc \in {"prepare", "read"}, Goto(c, pc), pc \in MayBeAt(calls[c].method),
               calls[c].method # "create"
        PROVE  IInv'
    <3>1. Fits([calls[c] EXCEPT !.pc = pc])
      BY <1>1, <1>3, <2>3, FitsGoto
    <3>2. CallsOK' /\ Alone(c) /\ Kept(c) /\ calls'[c].pc = pc
      BY <2>3, <3>1, Gone DEF TypeInv, PCs
    <3>3. AtAwait(c)'
      BY <2>3, <3>2 DEF AtAwait
    <3> QED BY <1>5, <1>7, <2>1, <2>3, <3>2, <3>3 DEF Active, Early
  <2>4. CASE calls[c].method = "prepare"
    BY <1>7, <2>3, <2>4 DEF MayBeAt
  <2>5. CASE calls[c].method \in {"stop", "restart"}
    <3>1. Goto(c, "read")
      BY <1>7, <2>5
    <3> QED BY <2>3, <2>5, <3>1 DEF MayBeAt
  <2> QED BY <1>3, <1>7, <2>2, <2>4, <2>5
<1> QED
  <2>1. CASE calls[c].method = "shutdown"
    BY <1>6, <2>1 DEF Acquire
  <2>2. CASE calls[c].method # "shutdown"
    BY <1>4, <1>7, <2>2 DEF Acquire
  <2> QED BY <2>1, <2>2

-------------------------------------------------------------------------------
(***************************************************************************)
(* Processes that are started.                                             *)
(***************************************************************************)

\* A call that is no shutdown has the lock: there has been none.
LEMMA ShutdownOpen ==
    ASSUME IInv, NEW c \in Calls, Active(c), Alone(c), calls[c].method # "shutdown",
           calls'[c].method = calls[c].method, lifecycle'.closed = lifecycle.closed,
           calls'[c].pc # "stopping",
           budget'.abandoned = MaxAbandoned => budget.abandoned = MaxAbandoned,
           \A a \in Agents : budget'.abandoned = MaxAbandoned /\ info'[a].state = "running"
                               => Known(a)'
    PROVE  ShutdownInv'
<1> USE DEF IInv
<1>1. ~lifecycle.closed
  BY DEF ShutdownInv
<1>2. (lifecycle.closed => \A d \in Calls : Active(d) => calls[d].method = "shutdown")'
  BY <1>1
<1>3. (\A d \in Calls : calls[d].method = "shutdown" /\ calls[d].pc \notin {"lock", "done"}
                         => lifecycle.closed)'
  BY <1>1 DEF ShutdownInv, Alone
<1>4. \A d \in Calls : calls'[d].pc # "stopping"
  <2>1. ASSUME NEW d \in Calls \ {c} PROVE calls[d].pc # "stopping"
    BY OthersInactive DEF Active
  <2> QED BY <2>1 DEF Alone
<1>5. ASSUME budget'.abandoned = MaxAbandoned, NEW d \in Calls,
             calls'[d].method = "shutdown", calls'[d].answer = "ok"
      PROVE  FALSE
  BY <1>1, <1>5 DEF ShutdownInv, Alone
<1> QED BY <1>2, <1>3, <1>4, <1>5 DEF ShutdownInv

LEMMA RaiseStays ==
    ASSUME IInv, NEW c \in Calls, Raise(c)
    PROVE  IInv'
<1> USE DEF IInv
<1>1. /\ calls[c].method = "restart" /\ calls[c].pc = "scan_count"
      /\ UNCHANGED <<registry, tasks, repository, budget>>
  BY DEF Raise, Scanned, At
<1>2. calls[c] \in Locals /\ Fits(calls[c]) /\ calls[c].generation < MaxGenerations
      /\ Active(c)
  BY <1>1 DEF TypeInv, CallsOK, Fits, Active
<1>3. CASE Return(c, "limit") /\ UNCHANGED info
  BY <1>1, <1>3, SameBudget, Ends DEF TypeInv, Answers
<1>4. CASE /\ info' = [info EXCEPT ![calls[c].agent].generation = @ + 1]
           /\ Goto(c, "spawn") /\ UNCHANGED lifecycle
  <2>1. PICK a : a = calls[c].agent
    OBVIOUS
  <2>2. /\ a \in Agents /\ a \in Registered /\ info[a].state \in {"stopped", "failed"}
        /\ info[a].generation = calls[c].generation /\ Free(info[a].slot, a)
    BY <1>1, <2>1 DEF LocalsInv, AtAwait, OfAgent, InGeneration, Registered
  <2>3. Fits([calls[c] EXCEPT !.pc = "spawn"])
    BY <1>1, <1>2, <2>1, <2>2, FitsGoto DEF MayBeAt
  <2>4. CallsOK' /\ Alone(c) /\ Kept(c) /\ calls'[c].pc = "spawn"
    BY <1>4, <2>3, Gone DEF TypeInv, PCs
  <2>5. InfoOK' /\ \A b \in Agents : /\ info'[b].state = info[b].state
                                     /\ info'[b].slot = info[b].slot
                                     /\ b # a => info'[b] = info[b]
    <3>1. info[a].generation + 1 \in Generations
      BY <1>2, <2>2, Constants DEF TypeInv, InfoOK, Records, Generations
    <3> QED BY <1>4, <2>1, <2>2, <3>1 DEF TypeInv, InfoOK, Records
  <2>6. TypeInv'
    BY <1>1, <1>4, <2>4, <2>5, SameBudget DEF TypeInv, RegistryOK, TasksOK, LockOK
  <2>7. LockInv'
    BY <1>1, <1>2, <1>4, <2>4 DEF LockInv, Active, Alone
  <2>8. ProcessInv'
    <3> SUFFICES ASSUME NEW b \in Agents, NEW g \in Generations
                 PROVE  /\ Alive(b, g)' <=> info'[b].state = "running" /\ info'[b].generation = g
                        /\ tasks'[b][g].run # "stopping" => tasks'[b][g].stop_reply = None
                        /\ \A d \in Calls : Sent(d, b, g)' =>
                             /\ calls'[d].pc \notin {"idle", "lock", "read", "send"}
                             /\ calls'[d].pc = "wait" => calls'[d].agent = b
      BY DEF ProcessInv
    <3>1. Alive(b, g)' <=> Alive(b, g)
      BY <1>1 DEF Alive
    <3>2. \A d \in Calls : Sent(d, b, g)' => Sent(d, b, g)
      BY <1>1 DEF Sent
    <3>3. info[a].state # "running"
      BY <2>2
    <3> QED BY <1>1, <2>4, <2>5, <3>1, <3>2, <3>3 DEF ProcessInv, Alone
  <2>9. RegistryInv'
    BY <1>1, <2>5 DEF RegistryInv, Free, Registered
  <2>10. AtAwait(c)'
    <3>1. calls'[c].agent = a /\ calls'[c].method = "restart"
      BY <1>1, <2>1, <2>4 DEF Kept
    <3>2. OfAgent(c, {"stopped", "failed"})'
      BY <1>1, <2>2, <2>5, <3>1 DEF OfAgent, Registered
    <3>3. Free(info[a].slot, a)'
      BY <1>1, <2>2, <2>5 DEF Free, Registered
    <3> QED BY <2>4, <3>1, <3>2, <3>3 DEF AtAwait, Free
  <2>11. LocalsInv'
    BY <1>2, <2>4, <2>10, LocalsOfOthers
  <2>12. ASSUME NEW b \in Agents, budget'.abandoned = MaxAbandoned, info'[b].state = "running"
         PROVE  Known(b)'
    <3>1. Known(b) /\ b # a
      BY <1>1, <2>2, <2>5, <2>12 DEF ShutdownInv
    <3>2. info'[b] = info[b] /\ registry' = registry
      BY <1>1, <2>5, <3>1
    <3>3. ASSUME NEW d \in Calls, calls[d].pc = "insert" PROVE calls'[d] = calls[d]
      BY <1>1, <2>4, <3>3 DEF Alone
    <3> QED BY <3>1, <3>2, <3>3 DEF Known
  <2>13. ShutdownInv'
    BY <1>1, <1>2, <1>4, <2>4, <2>12, ShutdownOpen DEF Kept
  <2> QED BY <2>6, <2>7, <2>8, <2>9, <2>11, <2>13
<1> QED BY <1>3, <1>4 DEF Raise

\* The record of an agent whose process does not run gets a state and a slot, or
\* another generation is started for it.
LEMMA SpawnStays ==
    ASSUME IInv, NEW c \in Calls, Spawn(c)
    PROVE  IInv'
<1> USE DEF IInv
<1>1. PICK a, slot : /\ a = calls[c].agent
                     /\ slot = IF calls[c].method = "create" THEN calls[c].slot
                                                            ELSE info[a].slot
  OBVIOUS
<1>2. calls[c].pc = "spawn" /\ UNCHANGED <<registry, repository>>
  BY DEF Spawn, At
<1>3. calls[c].method \in {"create", "restart"}
  BY <1>2, MethodAt DEF TypeInv
<1>4. /\ calls[c] \in Locals /\ Fits(calls[c]) /\ Active(c) /\ a \in Agents
      /\ calls[c].method = "create" => slot \in Slots
  BY <1>1, <1>2, <1>3 DEF TypeInv, CallsOK, Fits, Active
<1>5. /\ info[a].state # "running" /\ Free(slot, a)
      /\ calls[c].method = "create" => a \notin Registered
      /\ calls[c].method = "restart" => a \in Registered /\ slot = info[a].slot
  BY <1>1, <1>2, <1>3 DEF LocalsInv, AtAwait, OfAgent
<1>6. slot \in Slots /\ slot \in 0 .. MaxAgents
  <2>1. slot \in Slots
    BY <1>3, <1>4, <1>5 DEF RegistryInv
  <2> QED BY <2>1, Constants DEF Slots
<1>7. PICK g \in Generations : g = info[a].generation
  BY <1>4 DEF TypeInv, InfoOK, Records
\* What is true of the records whatever the outcome.
<1>8. ASSUME NEW s \in {"running", "failed"},
             info' = [info EXCEPT ![a].state = s, ![a].slot = slot]
      PROVE  /\ InfoOK' /\ RegistryInv'
             /\ \A b \in Agents \ {a} : info'[b] = info[b]
             /\ info'[a].state = s /\ info'[a].slot = slot /\ info'[a].generation = g
             /\ Free(slot, a)'
  <2>1. /\ InfoOK'
        /\ \A b \in Agents \ {a} : info'[b] = info[b]
        /\ info'[a].state = s /\ info'[a].slot = slot /\ info'[a].generation = g
    <3>1. info[a] \in Records /\ s \in States
      BY <1>4 DEF TypeInv, InfoOK, States
    <3>2. [info[a] EXCEPT !.state = s, !.slot = slot] \in Records
      BY <1>6, <3>1 DEF Records
    <3> QED BY <1>4, <1>7, <1>8, <3>1, <3>2 DEF TypeInv, InfoOK, Records
  <2>2. Registered' = Registered /\ Registered \subseteq Agents
    BY <1>2 DEF Registered
  <2>3. Free(slot, a)'
    BY <1>5, <2>1, <2>2 DEF Free
  <2>4. ASSUME NEW b \in Registered \ {a}, NEW t, t = info[b].slot, info[b].state # "stopped"
        PROVE  Free(t, b)'
    <3>1. t # slot /\ Free(t, b)
      BY <1>5, <2>4 DEF Free, RegistryInv
    <3> QED BY <2>1, <2>2, <3>1 DEF Free
  <2>5. ASSUME NEW b \in Registered'
        PROVE  (/\ info[b].state # "none" /\ info[b].slot \in Slots
                /\ info[b].state # "stopped" => Free(info[b].slot, b))'
    <3>1. CASE b = a
      BY <1>6, <2>1, <2>3, <3>1 DEF Free
    <3>2. CASE b # a
      <4>1. PICK t : t = info[b].slot
        OBVIOUS
      <4>2. b \in Registered \ {a} /\ info'[b] = info[b]
        BY <2>1, <2>2, <2>5, <3>2
      <4>3. info[b].state # "stopped" => Free(t, b)'
        BY <2>4, <4>1, <4>2
      <4> QED BY <4>1, <4>2, <4>3 DEF RegistryInv, Free
    <3> QED BY <3>1, <3>2
  <2>6. RegistryInv'
    BY <2>5 DEF RegistryInv
  <2> QED BY <2>1, <2>3, <2>6
<1>9. CASE /\ info' = [info EXCEPT ![a].state = "running", ![a].slot = slot]
           /\ tasks' = [tasks EXCEPT ![a][g] = NewTask]
           /\ Goto(c, "insert")
           /\ UNCHANGED <<lifecycle, budget>>
  <2>1. Fits([calls[c] EXCEPT !.pc = "insert"])
    BY <1>1, <1>2, <1>3, <1>4, FitsGoto DEF MayBeAt
  <2>2. CallsOK' /\ Alone(c) /\ Kept(c) /\ calls'[c].pc = "insert"
    BY <1>9, <2>1, Gone DEF TypeInv, PCs
  <2>3. /\ TasksOK' /\ tasks'[a][g].run = "loop" /\ tasks'[a][g].stop_reply = None
        /\ \A d : ~(d \in Range(tasks'[a][g].stops))
        /\ \A b \in Agents, h \in Generations : b # a \/ h # g => tasks'[b][h] = tasks[b][h]
    <3>1. NewTask \in Tasks /\ NewTask.run = "loop" /\ NewTask.stop_reply = None
          /\ NewTask.stops = <<>>
      BY Constants DEF NewTask, Tasks, Runs, None
    <3> HIDE DEF NewTask
    <3>2. tasks'[a][g] = NewTask
      BY <1>4, <1>9 DEF TypeInv, TasksOK
    <3>3. \A d : ~(d \in Range(<<>>))
      BY DEF Range
    <3> QED BY <1>4, <1>9, <3>1, <3>2, <3>3 DEF TypeInv, TasksOK
  <2>4. TypeInv'
    BY <1>2, <1>8, <1>9, <2>2, <2>3, SameBudget DEF TypeInv, RegistryOK, LockOK
  <2>5. LockInv'
    BY <1>4, <1>9, <2>2 DEF LockInv, Active, Alone
  <2>6. ProcessInv'
    <3> SUFFICES ASSUME NEW b \in Agents, NEW h \in Generations
                 PROVE  /\ Alive(b, h)' <=> info'[b].state = "running" /\ info'[b].generation = h
                        /\ tasks'[b][h].run # "stopping" => tasks'[b][h].stop_reply = None
                        /\ \A d \in Calls : Sent(d, b, h)' =>
                             /\ calls'[d].pc \notin {"idle", "lock", "read", "send"}
                             /\ calls'[d].pc = "wait" => calls'[d].agent = b
      BY DEF ProcessInv
    <3>1. CASE b = a /\ h = g
      <4>1. Alive(b, h)' /\ info'[b].state = "running" /\ info'[b].generation = h
        BY <1>8, <1>9, <2>3, <3>1 DEF Alive
      <4>2. \A d \in Calls : ~Sent(d, b, h)'
        BY <2>3, <3>1, Constants DEF Sent
      <4> QED BY <2>3, <3>1, <4>1, <4>2
    <3>2. CASE b # a \/ h # g
      <4>1. tasks'[b][h] = tasks[b][h]
        BY <2>3, <3>2
      <4>2. Alive(b, h)' <=> Alive(b, h)
        BY <4>1 DEF Alive
      <4>3. Alive(b, h) <=> info[b].state = "running" /\ info[b].generation = h
        BY DEF ProcessInv
      <4>4. (info'[b].state = "running" /\ info'[b].generation = h)
              <=> (info[b].state = "running" /\ info[b].generation = h)
        BY <1>5, <1>7, <1>8, <1>9, <3>2
      <4>5. \A d \in Calls : Sent(d, b, h)' => Sent(d, b, h)
        BY <4>1 DEF Sent
      <4> QED BY <2>2, <4>1, <4>2, <4>3, <4>4, <4>5 DEF ProcessInv, Alone
    <3> QED BY <3>1, <3>2
  <2>7. AtAwait(c)'
    <3>1. calls'[c].agent = a
      BY <1>1, <2>2 DEF Kept
    <3>2. info'[a].state # "none" /\ info'[a].slot = slot /\ Free(slot, a)'
      BY <1>8, <1>9
    <3>3. Free(info[calls[c].agent].slot, calls[c].agent)'
      BY <3>1, <3>2 DEF Free
    <3> QED BY <1>6, <2>2, <3>1, <3>2, <3>3 DEF AtAwait
  <2>8. LocalsInv'
    BY <1>4, <2>2, <2>7, LocalsOfOthers
  <2>9. ASSUME NEW b \in Agents, budget'.abandoned = MaxAbandoned, info'[b].state = "running"
        PROVE  Known(b)'
    <3>1. CASE b = a
      BY <1>1, <2>2, <3>1 DEF Known, Kept
    <3>2. CASE b # a
      <4>1. info'[b] = info[b] /\ registry' = registry
        BY <1>2, <1>8, <1>9, <3>2
      <4>2. Known(b)
        BY <1>9, <2>9, <4>1 DEF ShutdownInv
      <4>3. ASSUME NEW d \in Calls, calls[d].pc = "insert" PROVE calls'[d] = calls[d]
        BY <1>2, <2>2, <4>3 DEF Alone
      <4> QED BY <4>1, <4>2, <4>3 DEF Known
    <3> QED BY <3>1, <3>2
  <2>10. ShutdownInv'
    BY <1>3, <1>4, <1>9, <2>2, <2>9, ShutdownOpen DEF Kept
  <2> QED BY <1>8, <1>9, <2>4, <2>5, <2>6, <2>8, <2>10
<1>10. CASE /\ Spend("failure")
            /\ info' = [info EXCEPT ![a].state = "failed", ![a].slot = slot]
            /\ Return(c, "error")
            /\ UNCHANGED tasks
  <2>1. /\ CallsOK' /\ LockOK' /\ Alone(c)
        /\ calls'[c].pc = "done" /\ calls'[c].method = calls[c].method
        /\ lifecycle'.closed = lifecycle.closed
        /\ lifecycle'.holder = IF lifecycle.holder = c THEN None ELSE lifecycle.holder
    BY <1>10, Returned DEF Answers
  <2>2. BudgetOK' /\ (budget'.abandoned = MaxAbandoned => budget.abandoned = MaxAbandoned)
    BY <1>10, Spent DEF TypeInv
  <2>3. TypeInv'
    BY <1>2, <1>8, <1>10, <2>1, <2>2 DEF TypeInv, RegistryOK, TasksOK
  <2>4. LockInv'
    BY <2>1, Constants DEF LockInv, Active, Alone
  <2>5. ProcessInv'
    <3> SUFFICES ASSUME NEW b \in Agents, NEW h \in Generations
                 PROVE  /\ Alive(b, h)' <=> info'[b].state = "running" /\ info'[b].generation = h
                        /\ tasks'[b][h].run # "stopping" => tasks'[b][h].stop_reply = None
                        /\ \A d \in Calls : Sent(d, b, h)' =>
                             /\ calls'[d].pc \notin {"idle", "lock", "read", "send"}
                             /\ calls'[d].pc = "wait" => calls'[d].agent = b
      BY DEF ProcessInv
    <3>1. Alive(b, h)' <=> Alive(b, h)
      BY <1>10 DEF Alive
    <3>2. \A d \in Calls : Sent(d, b, h)' => Sent(d, b, h)
      BY <1>10 DEF Sent
    <3>3. (info'[b].state = "running" /\ info'[b].generation = h)
            <=> (info[b].state = "running" /\ info[b].generation = h)
      BY <1>5, <1>8, <1>10
    <3> QED BY <1>10, <2>1, <3>1, <3>2, <3>3 DEF ProcessInv, Alone
  <2>6. AtAwait(c)'
    BY <2>1 DEF AtAwait
  <2>7. LocalsInv'
    BY <1>4, <2>1, <2>6, LocalsOfOthers
  <2>8. ASSUME NEW b \in Agents, budget'.abandoned = MaxAbandoned, info'[b].state = "running"
        PROVE  Known(b)'
    <3>1. info'[b] = info[b] /\ registry' = registry
      BY <1>2, <1>8, <1>10, <2>8
    <3>2. Known(b)
      BY <2>2, <2>8, <3>1 DEF ShutdownInv
    <3>3. ASSUME NEW d \in Calls, calls[d].pc = "insert" PROVE calls'[d] = calls[d]
      BY <1>2, <2>1, <3>3 DEF Alone
    <3> QED BY <3>1, <3>2, <3>3 DEF Known
  <2>9. ShutdownInv'
    BY <1>3, <1>4, <2>1, <2>2, <2>8, ShutdownOpen
  <2> QED BY <1>8, <1>10, <2>3, <2>4, <2>5, <2>7, <2>9
<1> QED BY <1>1, <1>7, <1>9, <1>10 DEF Spawn

-------------------------------------------------------------------------------
(***************************************************************************)
(* Processes that end, and slots that are given back.                      *)
(***************************************************************************)

\* Records that only change as an agent ends, or is released.
Calmer ==
    /\ registry' = registry
    /\ \A b \in Agents :
         /\ info'[b].slot = info[b].slot /\ info'[b].generation = info[b].generation
         /\ \/ info'[b].state = info[b].state
            \/ info[b].state \in {"running", "failed"} /\ info'[b].state = "stopped"
            \/ info[b].state = "running" /\ info'[b].state = "failed"

LEMMA CalmFree ==
    ASSUME Calmer, NEW s, NEW a, Free(s, a)
    PROVE  Free(s, a)'
BY DEF Calmer, Free, Registered

LEMMA CalmRegistry ==
    ASSUME Calmer, RegistryInv
    PROVE  RegistryInv'
<1> SUFFICES ASSUME NEW b \in Registered'
             PROVE  (/\ info[b].state # "none" /\ info[b].slot \in Slots
                     /\ info[b].state # "stopped" => Free(info[b].slot, b))'
  BY DEF RegistryInv
<1>1. b \in Registered /\ b \in Agents
  BY DEF Calmer, Registered
<1>2. info'[b].slot = info[b].slot /\ info'[b].state # "none"
      /\ (info'[b].state # "stopped" => info[b].state # "stopped")
  BY <1>1 DEF Calmer, RegistryInv
<1>3. PICK t : t = info[b].slot
  OBVIOUS
<1>4. info'[b].state # "stopped" => Free(t, b)'
  BY <1>1, <1>2, <1>3, CalmFree DEF RegistryInv
<1> QED BY <1>1, <1>2, <1>3, <1>4 DEF RegistryInv, Free

LEMMA InsertStays ==
    ASSUME IInv, NEW c \in Calls, Insert(c)
    PROVE  IInv'
<1> USE DEF IInv
<1>1. PICK a : a = calls[c].agent
  OBVIOUS
<1>2. /\ calls[c].pc = "insert" /\ UNCHANGED <<info, tasks, repository, budget>>
      /\ registry' = [registry EXCEPT ![a] = info[a].generation]
      /\ Return(c, "ok")
  BY <1>1 DEF Insert, At
<1>3. calls[c].method \in {"create", "restart"} /\ a \in Agents /\ Active(c)
  <2>1. calls[c].method \in {"create", "restart"}
    BY <1>2, MethodAt DEF TypeInv
  <2> QED BY <1>1, <1>2, <2>1 DEF TypeInv, CallsOK, Fits, Active
<1>4. /\ CallsOK' /\ LockOK' /\ Alone(c)
      /\ calls'[c].pc = "done" /\ calls'[c].method = calls[c].method
      /\ lifecycle'.closed = lifecycle.closed
      /\ lifecycle'.holder = IF lifecycle.holder = c THEN None ELSE lifecycle.holder
  BY <1>2, Returned DEF Answers
<1>5. /\ info[a].generation \in Generations /\ info[a].generation \in 0 .. MaxGenerations
      /\ info[a].generation # None
  BY <1>3, Constants DEF TypeInv, InfoOK, Records, Generations, None
<1>6. /\ RegistryOK' /\ registry'[a] = info[a].generation
      /\ \A b \in Agents \ {a} : registry'[b] = registry[b]
      /\ Registered' = Registered \cup {a}
  BY <1>2, <1>3, <1>5 DEF TypeInv, RegistryOK, Registered
<1>7. TypeInv'
  BY <1>2, <1>4, <1>6, SameBudget DEF TypeInv, InfoOK, TasksOK
<1>8. LockInv'
  BY <1>4, Constants DEF LockInv, Active, Alone
<1>9. ProcessInv'
  BY <1>2, <1>4, SentByOthers DEF Early
<1>10. info[a].state # "none" /\ info[a].slot \in Slots /\ Free(info[a].slot, a)
  BY <1>1, <1>2 DEF LocalsInv, AtAwait
<1>11. ASSUME NEW b \in Registered'
       PROVE  (/\ info[b].state # "none" /\ info[b].slot \in Slots
               /\ info[b].state # "stopped" => Free(info[b].slot, b))'
  <2>1. CASE b = a
    BY <1>2, <1>6, <1>10, <2>1 DEF Free
  <2>2. CASE b # a
    <3>1. b \in Registered /\ info'[b] = info[b]
      BY <1>2, <1>6, <2>2
    <3>2. info[b].state # "none" /\ info[b].slot \in Slots
          /\ (info[b].state # "stopped" => Free(info[b].slot, b))
      BY <3>1 DEF RegistryInv
    <3>3. info[b].state # "stopped" => info[a].slot # info[b].slot
      BY <1>10, <2>2, <3>1 DEF Free
    <3> QED BY <1>2, <1>6, <3>1, <3>2, <3>3 DEF Free
  <2> QED BY <2>1, <2>2
<1>12. RegistryInv'
  BY <1>11 DEF RegistryInv
<1>13. LocalsInv'
  <2>1. AtAwait(c)'
    BY <1>4 DEF AtAwait
  <2> QED BY <1>3, <1>4, <2>1, LocalsOfOthers
<1>14. ASSUME NEW b \in Agents, budget'.abandoned = MaxAbandoned, info'[b].state = "running"
       PROVE  Known(b)'
  <2>1. CASE b = a
    BY <1>2, <1>6, <2>1 DEF Known
  <2>2. CASE b # a
    <3>1. Known(b)
      BY <1>2, <1>14 DEF ShutdownInv
    <3>2. ASSUME NEW d \in Calls, calls[d].pc = "insert", calls[d].agent = b
          PROVE  calls'[d] = calls[d]
      BY <1>1, <1>4, <2>2, <3>2 DEF Alone
    <3> QED BY <1>2, <1>6, <2>2, <3>1, <3>2 DEF Known
  <2> QED BY <2>1, <2>2
<1>15. ShutdownInv'
  BY <1>2, <1>3, <1>4, <1>14, ShutdownOpen
<1> QED BY <1>7, <1>8, <1>9, <1>12, <1>13, <1>15

LEMMA ReleaseStays ==
    ASSUME IInv, NEW c \in Calls, Release(c)
    PROVE  IInv'
<1> USE DEF IInv
<1>1. PICK a : a = calls[c].agent
  OBVIOUS
<1>2. /\ calls[c].pc = "release" /\ UNCHANGED <<registry, tasks, repository, budget>>
      /\ info' = [info EXCEPT ![a].state = IF @ = "failed" THEN "stopped" ELSE @]
      /\ Return(c, "ok")
  BY <1>1 DEF Release, At
<1>3. calls[c].method = "stop" /\ Active(c)
  BY <1>2, MethodAt DEF TypeInv, Active
<1>4. a \in Agents /\ info[a].state \in {"stopped", "failed"}
  BY <1>1, <1>2 DEF LocalsInv, AtAwait, OfAgent, Registered
<1>5. /\ CallsOK' /\ LockOK' /\ Alone(c)
      /\ calls'[c].pc = "done" /\ calls'[c].method = calls[c].method
      /\ lifecycle'.closed = lifecycle.closed
      /\ lifecycle'.holder = IF lifecycle.holder = c THEN None ELSE lifecycle.holder
  BY <1>2, Returned DEF Answers
<1>6. /\ InfoOK' /\ \A b \in Agents \ {a} : info'[b] = info[b]
      /\ info'[a] = [info[a] EXCEPT !.state = "stopped"]
  <2>1. info[a] \in Records
    BY <1>4 DEF TypeInv, InfoOK
  <2>2. info'[a] = [info[a] EXCEPT !.state = "stopped"]
    BY <1>2, <1>4, <2>1 DEF TypeInv, InfoOK, Records
  <2> QED BY <1>2, <1>4, <2>1, <2>2 DEF TypeInv, InfoOK, Records, States
<1>7. info'[a].state = "stopped" /\ Calmer
  <2>1. /\ info'[a].state = "stopped" /\ info'[a].slot = info[a].slot
        /\ info'[a].generation = info[a].generation
    BY <1>4, <1>6 DEF TypeInv, InfoOK, Records
  <2> QED BY <1>2, <1>4, <1>6, <2>1 DEF Calmer
<1>8. TypeInv'
  BY <1>2, <1>5, <1>6, SameBudget DEF TypeInv, RegistryOK, TasksOK
<1>9. LockInv'
  BY <1>5, Constants DEF LockInv, Active, Alone
<1>10. ProcessInv'
  <2> SUFFICES ASSUME NEW b \in Agents, NEW h \in Generations
               PROVE  /\ Alive(b, h)' <=> info'[b].state = "running" /\ info'[b].generation = h
                      /\ tasks'[b][h].run # "stopping" => tasks'[b][h].stop_reply = None
                      /\ \A d \in Calls : Sent(d, b, h)' =>
                           /\ calls'[d].pc \notin {"idle", "lock", "read", "send"}
                           /\ calls'[d].pc = "wait" => calls'[d].agent = b
    BY DEF ProcessInv
  <2>1. Alive(b, h)' <=> Alive(b, h)
    BY <1>2 DEF Alive
  <2>2. \A d \in Calls : Sent(d, b, h)' => Sent(d, b, h)
    BY <1>2 DEF Sent
  <2>3. (info'[b].state = "running" /\ info'[b].generation = h)
          <=> (info[b].state = "running" /\ info[b].generation = h)
    BY <1>4, <1>6, <1>7
  <2> QED BY <1>2, <1>5, <2>1, <2>2, <2>3 DEF ProcessInv, Alone
<1>11. LocalsInv'
  <2>1. AtAwait(c)'
    BY <1>5 DEF AtAwait
  <2> QED BY <1>3, <1>5, <2>1, LocalsOfOthers
<1>12. ASSUME NEW b \in Agents, budget'.abandoned = MaxAbandoned, info'[b].state = "running"
       PROVE  Known(b)'
  <2>1. b # a /\ info'[b] = info[b] /\ registry' = registry
    BY <1>2, <1>6, <1>7, <1>12
  <2>2. Known(b)
    BY <1>2, <1>12, <2>1 DEF ShutdownInv
  <2>3. ASSUME NEW d \in Calls, calls[d].pc = "insert" PROVE calls'[d] = calls[d]
    BY <1>2, <1>5, <2>3 DEF Alone
  <2> QED BY <2>1, <2>2, <2>3 DEF Known
<1>13. ShutdownInv'
  BY <1>2, <1>3, <1>5, <1>12, ShutdownOpen
<1> QED BY <1>7, <1>8, <1>9, <1>10, <1>11, <1>13, CalmRegistry

\* A Stop goes to the channel of the task that the registry names.
LEMMA StopQueued ==
    ASSUME TypeInv, NEW c \in Calls, NEW a \in Registered, Queued(c, a)
    PROVE  /\ TasksOK'
           /\ \A b \in Agents, h \in Generations :
                /\ tasks'[b][h].run = tasks[b][h].run
                /\ tasks'[b][h].stop_reply = tasks[b][h].stop_reply
                /\ \A d : Sent(d, b, h)' => Sent(d, b, h) \/ (d = c /\ b = a)
<1>1. PICK g \in Generations : g = registry[a]
  BY DEF TypeInv, RegistryOK, Registered, Generations, None
<1>2. a \in Agents /\ tasks[a][g] \in Tasks
  BY DEF TypeInv, TasksOK, Registered
<1> DEFINE r == [tasks[a][g] EXCEPT !.stops = Append(@, c)]
<1>3. /\ r \in Tasks /\ r.run = tasks[a][g].run /\ r.stop_reply = tasks[a][g].stop_reply
      /\ r.stops = Append(tasks[a][g].stops, c) /\ tasks[a][g].stops \in Seq(Calls)
  <2>1. tasks[a][g].stops \in Seq(Calls) /\ tasks[a][g].run \in Runs
        /\ tasks[a][g].stop_reply \in 0 .. MaxCalls
    BY <1>2 DEF Tasks
  <2>2. Append(tasks[a][g].stops, c) \in Seq(Calls)
    BY <2>1
  <2> QED BY <1>2, <2>1, <2>2 DEF Tasks
<1>4. tasks' = [tasks EXCEPT ![a][g] = r]
  BY <1>1 DEF Queued
<1> HIDE DEF r
<1>5. \A d : d \in Range(Append(tasks[a][g].stops, c))
                => d \in Range(tasks[a][g].stops) \/ d = c
  BY <1>3 DEF Range
<1>6. /\ TasksOK' /\ tasks'[a][g] = r
      /\ \A b \in Agents, h \in Generations : b # a \/ h # g => tasks'[b][h] = tasks[b][h]
  BY <1>2, <1>3, <1>4 DEF TypeInv, TasksOK
<1> QED BY <1>3, <1>5, <1>6 DEF Sent

\* It is the call's own Stop: nothing else of the processes has changed.
LEMMA ProcessesQueued ==
    ASSUME IInv, NEW c \in Calls, NEW a \in Registered, Queued(c, a), Alone(c),
           UNCHANGED info, calls'[c].pc \in {"wait", "stopping"},
           calls'[c].pc = "wait" => calls'[c].agent = a,
           calls'[c].pc = "stopping" => calls[c].pc = "stopping",
           calls'[c].pc = "wait" => calls[c].pc = "send"
    PROVE  ProcessInv'
<1> USE DEF IInv
<1> SUFFICES ASSUME NEW b \in Agents, NEW h \in Generations
             PROVE  /\ Alive(b, h)' <=> info'[b].state = "running" /\ info'[b].generation = h
                    /\ tasks'[b][h].run # "stopping" => tasks'[b][h].stop_reply = None
                    /\ \A d \in Calls : Sent(d, b, h)' =>
                         /\ calls'[d].pc \notin {"idle", "lock", "read", "send"}
                         /\ calls'[d].pc = "wait" => calls'[d].agent = b
  BY DEF ProcessInv
<1>1. /\ tasks'[b][h].run = tasks[b][h].run
      /\ tasks'[b][h].stop_reply = tasks[b][h].stop_reply
      /\ \A d : Sent(d, b, h)' => Sent(d, b, h) \/ (d = c /\ b = a)
  BY StopQueued
<1>2. Alive(b, h)' <=> Alive(b, h)
  BY <1>1 DEF Alive
<1>3. ASSUME NEW d \in Calls, Sent(d, b, h)'
      PROVE  /\ calls'[d].pc \notin {"idle", "lock", "read", "send"}
             /\ calls'[d].pc = "wait" => calls'[d].agent = b
  <2>1. CASE d = c /\ b = a
    BY <2>1
  <2>2. CASE Sent(d, b, h)
    BY <2>2 DEF ProcessInv, Alone
  <2> QED BY <1>1, <1>3, <2>1, <2>2
<1> QED BY <1>1, <1>2, <1>3 DEF ProcessInv

LEMMA SendStopStays ==
    ASSUME IInv, NEW c \in Calls, SendStop(c)
    PROVE  IInv'
<1> USE DEF IInv
<1>1. PICK a : a = calls[c].agent
  OBVIOUS
<1>2. calls[c].pc = "send" /\ UNCHANGED <<registry, info, repository>>
  BY DEF SendStop, At
<1>3. calls[c].method \in {"stop", "restart"} /\ Active(c)
      /\ calls[c] \in Locals /\ Fits(calls[c])
  BY <1>2, MethodAt DEF TypeInv, CallsOK, Active
<1>4. CASE Queued(c, a) /\ Goto(c, "wait") /\ UNCHANGED lifecycle
  <2>1. a \in Registered
    BY <1>1, <1>2 DEF LocalsInv, AtAwait, OfAgent
  <2>2. Fits([calls[c] EXCEPT !.pc = "wait"])
    BY <1>2, <1>3, FitsGoto DEF MayBeAt
  <2>3. CallsOK' /\ Alone(c) /\ Kept(c) /\ calls'[c].pc = "wait"
    BY <1>4, <2>2, Gone DEF TypeInv, PCs
  <2>4. TasksOK' /\ UNCHANGED budget
    BY <1>4, <2>1, StopQueued DEF Queued
  <2>5. TypeInv'
    BY <1>2, <1>4, <2>3, <2>4, SameBudget DEF TypeInv, RegistryOK, InfoOK, LockOK
  <2>6. LockInv'
    BY <1>3, <1>4, <2>3 DEF LockInv, Active, Alone
  <2>7. ProcessInv'
    BY <1>1, <1>2, <1>4, <2>1, <2>3, ProcessesQueued DEF Kept
  <2>8. AtAwait(c)'
    BY <1>2, <2>3 DEF LocalsInv, AtAwait, OfAgent, InGeneration, Registered, Kept
  <2>9. LocalsInv'
    BY <1>3, <2>3, <2>8, LocalsOfOthers
  <2>10. ShutdownInv'
    <3>1. calls[c].answer = "none"
      BY <1>2, <1>3 DEF Fits
    <3> QED BY <1>2, <1>3, <1>4, <2>3, <2>4, <3>1, ShutdownCalm DEF Kept
  <2> QED BY <1>2, <2>5, <2>6, <2>7, <2>9, <2>10, RegistryStays
<1>5. CASE NotQueued(a) /\ Return(c, "error")
  <2>1. UNCHANGED tasks /\ (UNCHANGED budget \/ Spend("abandoned"))
    BY <1>5 DEF NotQueued
  <2> QED BY <1>2, <1>5, <2>1, Spent, SameBudget, Ends DEF TypeInv, Answers
<1> QED BY <1>1, <1>4, <1>5 DEF SendStop

-------------------------------------------------------------------------------
(***************************************************************************)
(* The shutdown, and the tasks.                                            *)
(***************************************************************************)

LEMMA ShutdownStopStays ==
    ASSUME IInv, NEW c \in Calls, ShutdownStop(c)
    PROVE  IInv'
<1> USE DEF IInv
<1>1. calls[c].pc = "stopping" /\ UNCHANGED <<lifecycle, registry, info, repository>>
  BY DEF ShutdownStop, At
<1>2. PICK a \in calls[c].todo :
        /\ info[a].state = "running"
        /\ \/ Queued(c, a) /\ calls' = [calls EXCEPT ![c].todo = @ \ {a},
                                                     ![c].waits = @ \cup {a}]
           \/ NotQueued(a) /\ calls' = [calls EXCEPT ![c].todo = @ \ {a}]
  BY DEF ShutdownStop
<1>3. calls[c].method = "shutdown" /\ Active(c) /\ lifecycle.closed
      /\ calls[c] \in Locals /\ Fits(calls[c]) /\ calls[c].answer = "none"
  <2>1. calls[c].method = "shutdown"
    BY <1>1, MethodAt DEF TypeInv
  <2> QED BY <1>1, <2>1 DEF TypeInv, CallsOK, Fits, Active, ShutdownInv
<1>4. a \in Registered /\ a \in Agents
  BY <1>1 DEF LocalsInv, AtAwait, Registered
<1>5. CASE Queued(c, a) /\ calls' = [calls EXCEPT ![c].todo = @ \ {a},
                                                  ![c].waits = @ \cup {a}]
  <2> DEFINE r == [calls[c] EXCEPT !.todo = @ \ {a}, !.waits = @ \cup {a}]
  <2>1. /\ r \in Locals /\ r.method = "shutdown" /\ r.pc = "stopping"
        /\ r.agent = calls[c].agent /\ r.answer = "none"
        /\ r.todo = calls[c].todo \ {a} /\ r.waits = calls[c].waits \cup {a}
    BY <1>1, <1>3, <1>4 DEF Locals
  <2>2. calls' = [calls EXCEPT ![c] = r]
    BY <1>5 DEF TypeInv, CallsOK
  <2> HIDE DEF r
  <2>3. Fits(r)
    BY <1>1, <1>3, <2>1 DEF Fits
  <2>4. CallsOK' /\ calls'[c] = r /\ Alone(c)
    BY <2>1, <2>2, <2>3, Updated DEF TypeInv
  <2>5. TasksOK' /\ UNCHANGED budget
    BY <1>4, <1>5, StopQueued DEF Queued
  <2>6. TypeInv'
    BY <1>1, <2>4, <2>5, SameBudget DEF TypeInv, RegistryOK, InfoOK, LockOK
  <2>7. LockInv'
    BY <1>1, <1>3, <2>1, <2>4 DEF LockInv, Active, Alone
  <2>8. ProcessInv'
    BY <1>1, <1>4, <1>5, <2>1, <2>4, ProcessesQueued
  <2>9. AtAwait(c)'
    BY <1>1, <2>1, <2>4 DEF LocalsInv, AtAwait, Registered
  <2>10. LocalsInv'
    BY <1>3, <2>4, <2>9, LocalsOfOthers
  <2>11. ShutdownInv'
    BY <1>1, <1>3, <2>1, <2>4, <2>5, ShutdownCalm
  <2> QED BY <1>1, <2>6, <2>7, <2>8, <2>10, <2>11, RegistryStays
<1>6. CASE NotQueued(a) /\ calls' = [calls EXCEPT ![c].todo = @ \ {a}]
  <2> DEFINE r == [calls[c] EXCEPT !.todo = @ \ {a}]
  <2>1. /\ r \in Locals /\ r.method = "shutdown" /\ r.pc = "stopping"
        /\ r.agent = calls[c].agent /\ r.answer = "none"
        /\ r.todo = calls[c].todo \ {a} /\ r.waits = calls[c].waits
    BY <1>1, <1>3 DEF Locals
  <2>2. calls' = [calls EXCEPT ![c] = r]
    BY <1>6 DEF TypeInv, CallsOK
  <2> HIDE DEF r
  <2>3. Fits(r)
    BY <1>1, <1>3, <2>1 DEF Fits
  <2>4. CallsOK' /\ calls'[c] = r /\ Alone(c)
    BY <2>1, <2>2, <2>3, Updated DEF TypeInv
  <2>5. BudgetOK' /\ UNCHANGED tasks /\ budget'.abandoned # MaxAbandoned
\* The task would not be over: its agent is known to the registry.
    <3>1. CASE Spend("abandoned") /\ UNCHANGED tasks
      BY <3>1, Spent DEF TypeInv
    <3>2. CASE tasks[a][registry[a]].run = "over" /\ UNCHANGED <<budget, tasks>>
      <4>1. ASSUME budget.abandoned = MaxAbandoned PROVE FALSE
        <5>1. Known(a)
          BY <1>2, <1>4, <4>1 DEF ShutdownInv
        <5>2. ASSUME NEW d \in Calls, calls[d].pc = "insert" PROVE FALSE
          <6>1. Active(d) /\ d # c
            BY <1>1, <5>2 DEF Active
          <6> QED BY <1>3, <6>1, OthersInactive
        <5>3. registry[a] = info[a].generation
          BY <5>1, <5>2 DEF Known
        <5>4. PICK g \in Generations : g = registry[a]
          BY <1>4, <5>3 DEF TypeInv, InfoOK, Records
        <5>5. Alive(a, g)
          BY <1>2, <1>4, <5>3, <5>4 DEF ProcessInv
        <5> QED BY <3>2, <5>4, <5>5 DEF Alive
      <4> QED BY <3>2, <4>1, SameBudget DEF TypeInv
    <3> QED BY <1>6, <3>1, <3>2 DEF NotQueued
  <2>6. AtAwait(c)'
    BY <1>1, <2>1, <2>4 DEF LocalsInv, AtAwait, Registered
  <2> QED BY <1>1, <1>3, <2>1, <2>4, <2>5, <2>6, Moves DEF Active, Early
<1> QED BY <1>2, <1>5, <1>6

-----------------------------------------------------------------------------
\* The tasks.  One that runs on may take a Stop out of its channel.
LEMMA TaskMoves ==
    ASSUME IInv, NEW a \in Agents, NEW g \in Generations, Alive(a, g),
           NEW r \in Tasks, tasks' = [tasks EXCEPT ![a][g] = r],
           r.run \in {"loop", "stopping", "failing"},
           r.run # "stopping" => r.stop_reply = None,
           \A d \in Calls : d = r.stop_reply \/ d \in Range(r.stops) => Sent(d, a, g),
           UNCHANGED <<lifecycle, registry, info, calls>>, BudgetOK',
           budget'.abandoned = budget.abandoned
    PROVE  IInv'
<1> USE DEF IInv
<1>1. /\ TasksOK' /\ tasks'[a][g] = r
      /\ \A b \in Agents, h \in Generations : b # a \/ h # g => tasks'[b][h] = tasks[b][h]
  BY DEF TypeInv, TasksOK
<1>2. TypeInv'
  BY <1>1 DEF TypeInv, LockOK, RegistryOK, InfoOK, CallsOK
<1>3. ProcessInv'
  <2> SUFFICES ASSUME NEW b \in Agents, NEW h \in Generations
               PROVE  /\ Alive(b, h)' <=> info[b].state = "running" /\ info[b].generation = h
                      /\ tasks'[b][h].run # "stopping" => tasks'[b][h].stop_reply = None
                      /\ \A d \in Calls : Sent(d, b, h)' => Sent(d, b, h)
    BY DEF ProcessInv
  <2>1. CASE b = a /\ h = g
    BY <1>1, <2>1 DEF ProcessInv, Alive, Sent
  <2>2. CASE b # a \/ h # g
    BY <1>1, <2>2 DEF ProcessInv, Alive, Sent
  <2> QED BY <2>1, <2>2
<1>4. LockInv' /\ RegistryInv'
  BY RegistryStays DEF LockInv, Active
<1>5. LocalsInv'
  BY DEF LocalsInv, AtAwait, OfAgent, InGeneration, Seen, Free, Registered
<1>6. ShutdownInv'
  BY DEF ShutdownInv, Active, Known, NothingRuns
<1> QED BY <1>2, <1>3, <1>4, <1>5, <1>6

LEMMA TakeStopStays ==
    ASSUME IInv, NEW a \in Agents, NEW g \in Generations, TakeStop(a, g)
    PROVE  IInv'
<1>1. PICK t \in Tasks : t = tasks[a][g]
  BY DEF IInv, TypeInv, TasksOK
<1>2. /\ t.run = "loop" /\ t.stops # <<>> /\ t.stops \in Seq(Calls)
      /\ UNCHANGED <<lifecycle, registry, info, calls, repository, budget>>
  BY <1>1 DEF TakeStop, Tasks
<1> DEFINE r == [run |-> "stopping", stops |-> Tail(t.stops), stop_reply |-> Head(t.stops)]
<1>3. tasks' = [tasks EXCEPT ![a][g] = r]
  BY <1>1 DEF TakeStop
<1>4. /\ r \in Tasks /\ r.run = "stopping"
      /\ \A d : d = r.stop_reply \/ d \in Range(r.stops) => d \in Range(t.stops)
  <2>1. Head(t.stops) \in Calls /\ Tail(t.stops) \in Seq(Calls)
    BY <1>2
  <2>2. r \in Tasks
    BY <2>1, Constants DEF Tasks, Runs
  <2>3. Head(t.stops) \in Range(t.stops)
    <3>1. Head(t.stops) = t.stops[1] /\ 1 \in DOMAIN t.stops
      BY <1>2
    <3> QED BY <3>1 DEF Range
  <2>4. ASSUME NEW d \in Range(Tail(t.stops)) PROVE d \in Range(t.stops)
    <3>1. PICK i \in DOMAIN Tail(t.stops) : d = Tail(t.stops)[i]
      BY <2>4 DEF Range
    <3>2. i + 1 \in DOMAIN t.stops /\ d = t.stops[i + 1]
      BY <1>2, <3>1
    <3> QED BY <3>2 DEF Range
  <2> QED BY <2>2, <2>3, <2>4
<1> HIDE DEF r
<1>5. Alive(a, g) /\ \A d \in Range(t.stops) : Sent(d, a, g)
  BY <1>1, <1>2 DEF Alive, Sent
<1> QED BY <1>2, <1>3, <1>4, <1>5, SameBudget, TaskMoves DEF IInv, TypeInv

LEMMA LeaveStays ==
    ASSUME IInv, NEW a \in Agents, NEW g \in Generations, Fail(a, g) \/ Unreachable(a, g)
    PROVE  IInv'
<1>1. PICK t \in Tasks : t = tasks[a][g]
  BY DEF IInv, TypeInv, TasksOK
<1>2. PICK run \in {"stopping", "failing"} : Leave(a, g, run)
  BY DEF Fail, Unreachable
<1>3. /\ t.run = "loop" /\ UNCHANGED <<lifecycle, registry, info, calls>>
      /\ BudgetOK' /\ budget'.abandoned = budget.abandoned
  <2>1. CASE Fail(a, g)
    BY <1>1, <2>1, Spent DEF Fail, Spend, IInv, TypeInv, BudgetOK
  <2>2. CASE Unreachable(a, g)
    BY <1>1, <2>2, SameBudget DEF Unreachable, IInv, TypeInv
  <2> QED BY <2>1, <2>2
<1> DEFINE r == [t EXCEPT !.run = run]
<1>4. tasks' = [tasks EXCEPT ![a][g] = r]
  BY <1>1, <1>2 DEF Leave
<1>5. t.stop_reply = None /\ Alive(a, g)
  BY <1>1, <1>3 DEF IInv, ProcessInv, Alive
<1>6. r \in Tasks /\ r.run = run /\ r.stop_reply = None /\ r.stops = t.stops
  BY <1>5 DEF Tasks, Runs
<1> HIDE DEF r
<1>7. \A d \in Range(t.stops) : Sent(d, a, g)
  BY <1>1 DEF Sent
<1> QED BY <1>3, <1>4, <1>5, <1>6, <1>7, Constants, TaskMoves

-------------------------------------------------------------------------------
(***************************************************************************)
(* The invariant.                                                          *)
(***************************************************************************)

\* The process is gone: what the calls that had a Stop in its channel learn.
LEMMA CallsTold ==
    ASSUME IInv, NEW a \in Agents, NEW g \in Generations, Finish(a, g), NEW c \in Calls
    PROVE  /\ calls'[c] \in Locals /\ Fits(calls'[c])
           /\ calls'[c].method = calls[c].method /\ calls'[c].agent = calls[c].agent
           /\ calls'[c].generation = calls[c].generation
           /\ calls'[c].answer = calls[c].answer /\ calls'[c].todo = calls[c].todo
           /\ calls'[c].seen = calls[c].seen /\ calls'[c].slot = calls[c].slot
           /\ calls[c].waits \ {a} \subseteq calls'[c].waits
           /\ \/ calls'[c].pc = calls[c].pc
              \/ /\ calls[c].pc = "wait" /\ calls'[c].pc \in {"stopped", "failed"}
                 /\ calls'[c].pc = "stopped" =>
                      calls[c].agent = a /\ tasks[a][g].run = "stopping"
<1> USE DEF IInv
<1>1. calls'[c] = IF c = tasks[a][g].stop_reply THEN Answered(c, a, TRUE)
                  ELSE IF c \in Range(tasks[a][g].stops) THEN Answered(c, a, FALSE)
                  ELSE calls[c]
  BY DEF Finish
<1>2. CASE c = tasks[a][g].stop_reply
  <2>1. Sent(c, a, g) /\ tasks[a][g].run = "stopping"
    BY <1>2, Constants DEF Sent, ProcessInv
  <2>2. calls[c].pc = "wait" => calls[c].agent = a
    BY <2>1 DEF ProcessInv
  <2>3. calls'[c] = After(c, a, "stopped")
    BY <1>1, <1>2, AnsweredAfter
  <2> QED BY <2>1, <2>2, <2>3, AnswerTold DEF TypeInv
<1>3. CASE c # tasks[a][g].stop_reply /\ c \in Range(tasks[a][g].stops)
  <2>1. calls'[c] = After(c, a, "failed")
    BY <1>1, <1>3, AnsweredAfter
  <2> QED BY <2>1, AnswerTold DEF TypeInv
<1>4. CASE c # tasks[a][g].stop_reply /\ c \notin Range(tasks[a][g].stops)
  <2>1. calls'[c] = calls[c]
    BY <1>1, <1>4
  <2> QED BY <2>1 DEF TypeInv, CallsOK
<1> QED BY <1>2, <1>3, <1>4

LEMMA FinishStays ==
    ASSUME IInv, NEW a \in Agents, NEW g \in Generations, Finish(a, g)
    PROVE  IInv'
<1> USE DEF IInv
<1>1. /\ tasks[a][g].run \in {"stopping", "failing"}
      /\ UNCHANGED <<lifecycle, registry, repository, budget>>
  BY DEF Finish
<1>2. info[a].state = "running" /\ info[a].generation = g
  BY <1>1 DEF ProcessInv, Alive
<1>3. PICK s \in {"stopped", "failed"} :
        /\ info' = [info EXCEPT ![a].state = s]
        /\ tasks[a][g].run = "stopping" => s = "stopped"
  BY <1>1 DEF Finish
<1>4. /\ InfoOK' /\ \A b \in Agents \ {a} : info'[b] = info[b]
      /\ info'[a].state = s /\ info'[a].slot = info[a].slot
      /\ info'[a].generation = info[a].generation
  <2>1. info[a] \in Records
    BY DEF TypeInv, InfoOK
  <2>2. info'[a] = [info[a] EXCEPT !.state = s]
    BY <1>3 DEF TypeInv, InfoOK
  <2>3. /\ info'[a] \in Records
        /\ info'[a].state = s /\ info'[a].slot = info[a].slot
        /\ info'[a].generation = info[a].generation
    BY <2>1, <2>2 DEF Records, States
  <2> QED BY <1>3, <2>3 DEF TypeInv, InfoOK
<1>5. Calmer
  BY <1>1, <1>2, <1>4 DEF Calmer
<1>6. /\ TasksOK' /\ tasks'[a][g].run = "over" /\ tasks'[a][g].stop_reply = None
      /\ \A d : ~(d \in Range(tasks'[a][g].stops))
      /\ \A b \in Agents, h \in Generations : b # a \/ h # g => tasks'[b][h] = tasks[b][h]
  <2> DEFINE r == [NoTask EXCEPT !.run = "over"]
  <2>1. r \in Tasks /\ r.run = "over" /\ r.stop_reply = None /\ r.stops = <<>>
    <3>1. r = [run |-> "over", stops |-> <<>>, stop_reply |-> None]
      BY DEF NoTask
    <3>2. <<>> \in Seq(Calls) /\ None \in 0 .. MaxCalls /\ "over" \in Runs
      BY Constants DEF Runs, None
    <3> HIDE DEF r
    <3> QED BY <3>1, <3>2 DEF Tasks
  <2>2. tasks' = [tasks EXCEPT ![a][g] = r]
    BY DEF Finish
  <2> HIDE DEF r
  <2>3. tasks'[a][g] = r
    BY <2>2 DEF TypeInv, TasksOK
  <2>4. \A d : ~(d \in Range(<<>>))
    BY DEF Range
  <2> QED BY <2>1, <2>2, <2>3, <2>4 DEF TypeInv, TasksOK
<1>7. CallsOK'
  <2>1. DOMAIN calls' = Calls /\ calls' = [c \in Calls |-> calls'[c]]
    BY DEF Finish
  <2> QED BY <2>1, CallsTold DEF CallsOK
<1>8. TypeInv'
  BY <1>1, <1>4, <1>6, <1>7, SameBudget DEF TypeInv, LockOK, RegistryOK
<1>9. LockInv'
  BY <1>1, CallsTold DEF LockInv, Active
<1>10. ProcessInv'
  <2> SUFFICES ASSUME NEW b \in Agents, NEW h \in Generations
               PROVE  /\ Alive(b, h)' <=> info'[b].state = "running" /\ info'[b].generation = h
                      /\ tasks'[b][h].run # "stopping" => tasks'[b][h].stop_reply = None
                      /\ \A d \in Calls : Sent(d, b, h)' =>
                           /\ calls'[d].pc \notin {"idle", "lock", "read", "send"}
                           /\ calls'[d].pc = "wait" => calls'[d].agent = b
    BY DEF ProcessInv
  <2>1. CASE b = a /\ h = g
    <3>1. \A d \in Calls : ~Sent(d, b, h)'
      BY <1>6, <2>1, Constants DEF Sent
    <3> QED BY <1>4, <1>6, <2>1, <3>1 DEF Alive
  <2>2. CASE b # a \/ h # g
    <3>1. tasks'[b][h] = tasks[b][h]
      BY <1>6, <2>2
    <3>2. (Alive(b, h)' <=> Alive(b, h)) /\ \A d \in Calls : Sent(d, b, h)' => Sent(d, b, h)
      BY <3>1 DEF Alive, Sent
    <3>3. (info'[b].state = "running" /\ info'[b].generation = h)
            <=> (info[b].state = "running" /\ info[b].generation = h)
      BY <1>2, <1>4, <2>2
    <3>4. ASSUME NEW d \in Calls, Sent(d, b, h)
          PROVE  /\ calls'[d].pc \notin {"idle", "lock", "read", "send"}
                 /\ calls'[d].pc = "wait" => calls'[d].agent = b
      BY <3>4, CallsTold DEF ProcessInv
    <3> QED BY <3>1, <3>2, <3>3, <3>4 DEF ProcessInv
  <2> QED BY <2>1, <2>2
<1>11. ASSUME NEW c \in Calls PROVE AtAwait(c)'
  <2>1. AtAwait(c)
    BY DEF LocalsInv
  <2>2. PICK b, slot : b = calls[c].agent /\ slot = calls[c].slot
    OBVIOUS
  <2>3. calls'[c].agent = b /\ calls'[c].slot = slot /\ calls'[c].method = calls[c].method
        /\ calls'[c].generation = calls[c].generation
        /\ calls'[c].todo = calls[c].todo /\ calls'[c].seen = calls[c].seen
    BY <2>2, CallsTold
  <2>4. Registered' = Registered /\ Registered \subseteq Agents
    BY <1>1 DEF Registered
  <2>5. OfAgent(c, States) => OfAgent(c, States)'
    BY <1>4, <2>2, <2>3, <2>4 DEF OfAgent, InfoOK, Records
  <2>6. OfAgent(c, {"stopped", "failed"}) => OfAgent(c, {"stopped", "failed"})'
    BY <1>2, <1>4, <2>2, <2>3, <2>4 DEF OfAgent
  <2>7. OfAgent(c, {"stopped"}) => OfAgent(c, {"stopped"})'
    BY <1>2, <1>4, <2>2, <2>3, <2>4 DEF OfAgent
  <2>8. b \in Agents /\ InGeneration(c) => InGeneration(c)'
    BY <1>4, <2>2, <2>3 DEF InGeneration
  <2>9. Seen(c) => Seen(c)'
    BY <1>2, <1>4, <2>2, <2>3, <2>4 DEF Seen
  <2>10. Free(slot, None) => Free(slot, None)'
    BY <1>5, CalmFree
  <2>11. Free(slot, b) => Free(slot, b)'
    BY <1>5, CalmFree
  <2>12. b \in Agents /\ Free(info[b].slot, b) => Free(info[b].slot, b)'
    <3>1. PICK t : t = info[b].slot
      OBVIOUS
    <3>2. Free(t, b) => Free(t, b)'
      BY <1>5, CalmFree
    <3>3. b \in Agents => info'[b].slot = t
      BY <1>5, <3>1 DEF Calmer
    <3> QED BY <3>1, <3>2, <3>3 DEF Free
  <2>13. CASE calls'[c].pc = calls[c].pc
    <3>1. b \in Registered => b \in Agents
      BY <2>4
    <3>2. calls[c].pc = "insert" \/ calls[c].pc = "spawn" => b \in Agents
      BY <2>2 DEF TypeInv, CallsOK, Fits
    <3>3. b \in Agents /\ info[b].state = "none" => info'[b].state = "none"
      BY <1>2, <1>4
    <3>4. b \in Agents /\ info[b].state # "none"
            => info'[b].state # "none" /\ info'[b].slot = info[b].slot
      BY <1>4
    <3>5. calls[c].pc \in {"send", "wait", "failed", "stopped"} => b \in Agents
      BY <2>1, <2>2, <3>1 DEF AtAwait, OfAgent
    <3>6. calls[c].method = "restart" /\ calls[c].pc # "done" => b \in Agents
      BY <2>2 DEF TypeInv, CallsOK, Fits
    <3> QED BY <2>1, <2>2, <2>3, <2>4, <2>5, <2>6, <2>7, <2>8, <2>9, <2>10, <2>11, <2>12,
               <2>13, <3>2, <3>3, <3>4, <3>5, <3>6 DEF AtAwait, Free
  <2>14. CASE /\ calls[c].pc = "wait" /\ calls'[c].pc \in {"stopped", "failed"}
              /\ calls'[c].pc = "stopped" =>
                   calls[c].agent = a /\ tasks[a][g].run = "stopping"
    <3>1. OfAgent(c, States)
      BY <2>1, <2>14 DEF AtAwait
    <3>2. calls'[c].pc = "stopped" => OfAgent(c, {"stopped"})'
      BY <1>3, <1>4, <2>2, <2>3, <2>4, <2>14, <3>1 DEF OfAgent
    <3>3. calls[c].method = "restart" => InGeneration(c)'
      BY <2>1, <2>2, <2>4, <2>8, <2>14, <3>1 DEF AtAwait, OfAgent
    <3> QED BY <2>3, <2>5, <2>14, <3>1, <3>2, <3>3 DEF AtAwait
  <2> QED BY <2>13, <2>14, CallsTold
<1>12. LocalsInv'
  BY <1>11 DEF LocalsInv
<1>13. ShutdownInv'
  <2>1. (lifecycle.closed => \A c \in Calls : Active(c) => calls[c].method = "shutdown")'
    BY <1>1, CallsTold DEF ShutdownInv, Active
  <2>2. (\A c \in Calls : calls[c].method = "shutdown" /\ calls[c].pc \notin {"lock", "done"}
                           => lifecycle.closed)'
    BY <1>1, CallsTold DEF ShutdownInv
  <2>3. ASSUME NEW b \in Agents, info'[b].state = "running"
        PROVE  b # a /\ info'[b] = info[b]
    BY <1>4, <2>3
  <2>4. ASSUME budget'.abandoned = MaxAbandoned, NEW b \in Agents, info'[b].state = "running"
        PROVE  Known(b)'
    <3>1. Known(b) /\ info'[b] = info[b]
      BY <1>1, <2>3, <2>4 DEF ShutdownInv
    <3>2. ASSUME NEW c \in Calls, calls[c].pc = "insert"
          PROVE  calls'[c].pc = "insert" /\ calls'[c].agent = calls[c].agent
      BY <3>2, CallsTold
    <3> QED BY <1>1, <3>1, <3>2 DEF Known
  <2>5. ASSUME budget'.abandoned = MaxAbandoned, NEW c \in Calls, calls'[c].pc = "stopping",
               NEW b \in Agents, info'[b].state = "running"
        PROVE  b \in calls'[c].todo \cup calls'[c].waits
    <3>1. calls[c].pc = "stopping" /\ calls'[c].todo = calls[c].todo
          /\ calls[c].waits \ {a} \subseteq calls'[c].waits
      BY <2>5, CallsTold
    <3> QED BY <1>1, <2>3, <2>5, <3>1 DEF ShutdownInv
  <2>6. ASSUME budget'.abandoned = MaxAbandoned, NEW c \in Calls,
               calls'[c].method = "shutdown", calls'[c].answer = "ok"
        PROVE  (lifecycle.closed /\ NothingRuns)'
    <3>1. lifecycle.closed /\ NothingRuns
      BY <1>1, <2>6, CallsTold DEF ShutdownInv
    <3> QED BY <1>1, <2>3, <3>1 DEF NothingRuns
  <2> QED BY <2>1, <2>2, <2>4, <2>5, <2>6 DEF ShutdownInv
<1> QED BY <1>5, <1>8, <1>9, <1>10, <1>12, <1>13, CalmRegistry

-----------------------------------------------------------------------------
LEMMA InitHolds ==
    ASSUME Init
    PROVE  IInv
<1>1. PICK running \in {{}, {1}}, base \in {"absent", "ready"} :
        /\ lifecycle = [holder |-> None, closed |-> FALSE]
        /\ registry = [a \in Agents |-> IF a \in running THEN 1 ELSE None]
        /\ info = [a \in Agents |->
                      IF a \in running
                        THEN [state |-> "running", generation |-> 1, slot |-> 1]
                        ELSE [state |-> "none", generation |-> 1, slot |-> None]]
        /\ tasks = [a \in Agents |-> [g \in Generations |->
                      IF a \in running /\ g = 1 THEN NewTask ELSE NoTask]]
        /\ calls = [c \in Calls |-> NewCall]
        /\ budget = [failure |-> MaxFailures, abandoned |-> MaxAbandoned]
  BY DEF Init
<1>2. /\ NewCall \in Locals /\ Fits(NewCall) /\ NewCall.pc = "idle"
      /\ NewCall.method = "none" /\ NewCall.answer = "none"
  <2>1. NewCall \in Locals
    BY Constants DEF NewCall, Locals, PCs, None
  <2> QED BY <2>1, Constants DEF NewCall, Fits, MayBeAt, None
<1>3. NewTask \in Tasks /\ NoTask \in Tasks
  BY Constants DEF NewTask, NoTask, Tasks, Runs, None
<1>4. \A a \in Agents : \/ info[a] = [state |-> "running", generation |-> 1, slot |-> 1]
                        \/ info[a] = [state |-> "none", generation |-> 1, slot |-> None]
  BY <1>1
<1>5. 1 \in Generations /\ 1 \in 0 .. MaxGenerations /\ 1 \in 0 .. MaxAgents
      /\ None \in 0 .. MaxGenerations /\ None \in 0 .. MaxAgents /\ 1 \in Slots
  BY Constants DEF Generations, None, Slots
<1>6. TypeInv
  <2>1. LockOK
    BY <1>1, Constants DEF LockOK, None
  <2>2. RegistryOK
    BY <1>1, <1>5 DEF RegistryOK
  <2>3. InfoOK
    BY <1>1, <1>5 DEF InfoOK, Records, States
  <2>4. TasksOK
    BY <1>1, <1>3 DEF TasksOK
  <2>5. CallsOK
    BY <1>1, <1>2 DEF CallsOK
  <2>6. BudgetOK
    BY <1>1, Constants DEF BudgetOK
  <2> QED BY <2>1, <2>2, <2>3, <2>4, <2>5, <2>6 DEF TypeInv
<1>7. LockInv
  BY <1>1, <1>2, Constants DEF LockInv, Active
<1>8. ProcessInv
  <2> SUFFICES ASSUME NEW a \in Agents, NEW g \in Generations
               PROVE  /\ Alive(a, g) <=> info[a].state = "running" /\ info[a].generation = g
                      /\ tasks[a][g].stop_reply = None
                      /\ \A c \in Calls : ~Sent(c, a, g)
    BY DEF ProcessInv
  <2>1. tasks[a][g].stop_reply = None /\ tasks[a][g].stops = <<>>
        /\ (Alive(a, g) <=> a \in running /\ g = 1)
    BY <1>1 DEF Alive, NewTask, NoTask
  <2>2. info[a].state = "running" /\ info[a].generation = g <=> a \in running /\ g = 1
    BY <1>1
  <2>3. \A c \in Calls : ~Sent(c, a, g)
    BY <2>1, Constants DEF Sent, Range
  <2> QED BY <2>1, <2>2, <2>3
<1>9. RegistryInv
  <2>1. \A a \in Registered : a \in running /\ a \in Agents
    BY <1>1 DEF Registered
  <2>2. \A a \in Registered : info[a].state = "running" /\ info[a].slot = 1
    BY <1>1, <2>1
  <2>3. \A a, b \in Registered : a = b
    BY <2>1
  <2> QED BY <1>5, <2>2, <2>3 DEF RegistryInv, Free
<1>10. LocalsInv
  BY <1>1, <1>2 DEF LocalsInv, AtAwait
<1>11. ShutdownInv
  <2>1. \A a \in Agents : info[a].state = "running" => Known(a)
    BY <1>1 DEF Known
  <2> QED BY <1>1, <1>2, <2>1 DEF ShutdownInv, Active
<1> QED BY <1>6, <1>7, <1>8, <1>9, <1>10, <1>11 DEF IInv

LEMMA StutterStays ==
    ASSUME IInv, UNCHANGED vars
    PROVE  IInv'
BY DEF vars, IInv, TypeInv, LockOK, RegistryOK, InfoOK, TasksOK, CallsOK, BudgetOK,
       LockInv, Active, ProcessInv, Alive, Sent, RegistryInv, Free, Registered, LocalsInv,
       AtAwait, OfAgent, InGeneration, Seen, ShutdownInv, NothingRuns, Known

LEMMA NextHolds ==
    ASSUME IInv, [Next]_vars
    PROVE  IInv'
<1>1. ASSUME NEW c \in Calls, Call(c) \/ CallStep(c) \/ Timeout(c) \/ Drop(c)
      PROVE  IInv'
  BY <1>1, CallStays, AcquireStays, PrepareStays, ScanStays, TakeSlotStays, KeepSlotStays,
     RaiseStays, WorktreeStays, SpawnStays, InsertStays, ReadStateStays, ReleaseStays,
     SendStopStays, StopAnsweredStays, ShutdownStopStays, ShutdownJoinedStays,
     TimeoutStays, DropStays DEF CallStep
<1>2. ASSUME NEW a \in Agents, NEW g \in Generations, AgentStep(a, g) \/ Fail(a, g)
      PROVE  IInv'
  BY <1>2, TakeStopStays, LeaveStays, FinishStays DEF AgentStep
<1>3. CASE UNCHANGED vars
  BY <1>3, StutterStays
<1> QED BY <1>1, <1>2, <1>3 DEF Next

LEMMA Invariance == Spec => []IInv
BY InitHolds, NextHolds, PTL DEF Spec

-----------------------------------------------------------------------------
\* The agents of the registry that are not stopped have slots of their own: what
\* the scan of select_slot found free is free until the record is inserted.
THEOREM AgentsHaveOwnSlots == Spec => []SlotsExclusive
<1>1. IInv => SlotsExclusive
  <2> SUFFICES ASSUME IInv, NEW a \in Registered, NEW b \in Registered
               PROVE  /\ info[a].slot \in Slots
                      /\ a # b /\ "stopped" \notin {info[a].state, info[b].state}
                           => info[a].slot # info[b].slot
    BY DEF SlotsExclusive
  <2> QED BY DEF IInv, RegistryInv, Free
<1> QED BY <1>1, Invariance, PTL

\* A worktree has one process at most, and the record says running just while
\* there is one, whatever calls timed out, failed or were dropped.
THEOREM OneProcessEach == Spec => []OneProcessPerAgent
<1>1. IInv => OneProcessPerAgent
  <2> SUFFICES ASSUME IInv, NEW a \in Agents
               PROVE  /\ Cardinality({g \in Generations : Alive(a, g)}) <= 1
                      /\ info[a].state = "running" <=> \E g \in Generations : Alive(a, g)
    BY DEF OneProcessPerAgent
  <2>1. PICK h \in Generations : h = info[a].generation
    BY DEF IInv, TypeInv, InfoOK, Records
  <2>2. \A g \in Generations : Alive(a, g) <=> info[a].state = "running" /\ g = h
    BY <2>1 DEF IInv, ProcessInv
  <2>3. {g \in Generations : Alive(a, g)} \in SUBSET {h}
    BY <2>2
  <2>4. Cardinality({g \in Generations : Alive(a, g)}) <= 1
    <3> DEFINE alive == {g \in Generations : Alive(a, g)}
    <3> HIDE DEF alive
    <3>1. alive \in SUBSET {h} => Cardinality(alive) <= Cardinality({h})
      BY FS_Singleton, FS_Subset
    <3> QED BY <2>3, <3>1, FS_Singleton DEF alive
  <2> QED BY <2>2, <2>4
<1> QED BY <1>1, Invariance, PTL

\* When shutdown_all has returned and no call was given up on the way, no agent
\* runs and none is started any more.
THEOREM NothingRunsAfterShutdown == Spec => []ShutdownStopsAll
<1>1. IInv => ShutdownStopsAll
  BY DEF IInv, ShutdownInv, NothingRuns, ProcessInv, ShutdownStopsAll
<1> QED BY <1>1, Invariance, PTL

-----------------------------------------------------------------------------
LEMMA OnlyItsOwn ==
    ASSUME TypeInv, NEW c \in Calls, Call(c) \/ CallStep(c) \/ Timeout(c) \/ Drop(c)
    PROVE  Alone(c)
<1> USE DEF TypeInv, CallsOK, Alone, Return, Goto, StartScan
<1>1. CASE Call(c) \/ Timeout(c) \/ Drop(c)
  BY <1>1 DEF Call, Timeout, Drop
<1>2. CASE Acquire(c) \/ Prepare(c) \/ Scan(c) \/ ReadState(c)
  BY <1>2 DEF Acquire, Prepare, Scan, ReadState
<1>3. CASE TakeSlot(c) \/ KeepSlot(c) \/ Raise(c) \/ Worktree(c)
  BY <1>3 DEF TakeSlot, KeepSlot, Raise, Worktree
<1>4. CASE Spawn(c) \/ Insert(c) \/ Release(c) \/ SendStop(c) \/ StopAnswered(c)
  BY <1>4 DEF Spawn, Insert, Release, SendStop, StopAnswered
<1>5. CASE ShutdownStop(c) \/ ShutdownJoined(c)
  BY <1>5 DEF ShutdownStop, ShutdownJoined
<1> QED BY <1>1, <1>2, <1>3, <1>4, <1>5 DEF CallStep

\* A cc.stop answers ok in two places.
LEMMA StopAnswersOk ==
    ASSUME IInv, NEW c \in Calls, Call(c) \/ CallStep(c) \/ Timeout(c) \/ Drop(c),
           calls[c].method = "stop", calls[c].pc # "done", calls'[c].answer = "ok"
    PROVE  Release(c) \/ (calls[c].pc = "stopped" /\ UNCHANGED <<info, tasks>>)
<1>1. calls[c].answer = "none" /\ calls[c] \in Locals /\ TypeInv
      /\ calls[c].pc \in {"lock", "read", "release", "send", "wait", "stopped", "failed"}
  BY DEF IInv, TypeInv, CallsOK, Fits, MayBeAt
<1>2. \A answer \in Answers : Return(c, answer) => answer = "ok"
  BY <1>1, Returned
<1>3. ASSUME NEW pc, Goto(c, pc) PROVE calls'[c].answer = "none"
  <2>1. calls'[c] = [calls[c] EXCEPT !.pc = pc]
    BY <1>1, <1>3 DEF Goto, TypeInv, CallsOK
  <2> QED BY <1>1, <2>1 DEF Locals
<1>4. ASSUME NEW pc, StartScan(c, pc) PROVE calls'[c].answer = "none"
  <2>1. calls'[c] = [calls[c] EXCEPT !.pc = pc, !.seen = {}, !.slot = None,
                                     !.todo = Registered \ {calls[c].agent}]
    BY <1>1, <1>4 DEF StartScan, TypeInv, CallsOK, Locals
  <2> QED BY <1>1, <2>1 DEF Locals
<1>5. CASE Acquire(c)
  BY <1>1, <1>2, <1>3, <1>5 DEF Acquire, Answers
<1>6. CASE ReadState(c)
  BY <1>1, <1>2, <1>3, <1>6 DEF ReadState, Answers
<1>7. CASE SendStop(c)
  BY <1>1, <1>2, <1>3, <1>7 DEF SendStop, Answers
<1>8. CASE StopAnswered(c)
  BY <1>1, <1>2, <1>4, <1>8 DEF StopAnswered, Answers, At
<1>9. CASE Timeout(c)
  <2>1. PICK a \in Agents : calls' = [calls EXCEPT ![c] = Answered(c, a, FALSE)]
    BY <1>9 DEF Timeout
  <2>2. calls'[c] = After(c, a, "failed")
    BY <1>1, <2>1, AnsweredAfter DEF TypeInv, CallsOK
  <2> QED BY <1>1, <2>2, AnswerTold DEF TypeInv
<1>10. CASE Drop(c)
  BY <1>2, <1>10 DEF Drop, Answers
<1> QED BY <1>1, <1>5, <1>6, <1>7, <1>8, <1>9, <1>10
        DEF CallStep, Call, Prepare, Scan, TakeSlot, KeepSlot, Raise, Worktree, Spawn, Insert,
            ShutdownStop, ShutdownJoined, Scanned, At

LEMMA StopStep ==
    ASSUME IInv, [Next]_vars, NEW c \in Calls, NEW a \in Agents,
           calls[c].method = "stop", calls[c].agent = a, ~At(c, "done"),
           calls'[c].answer = "ok"
    PROVE  /\ info'[a].state = "stopped"
           /\ \A g \in Generations : ~Alive(a, g)'
<1>1. calls[c].answer = "none" /\ calls[c].pc # "done"
  BY DEF IInv, TypeInv, CallsOK, Fits, At
<1>2. ASSUME NEW d \in Calls, Call(d) \/ CallStep(d) \/ Timeout(d) \/ Drop(d)
      PROVE  /\ info'[a].state = "stopped"
             /\ \A g \in Generations : ~Alive(a, g)'
  <2>1. d = c
    BY <1>1, <1>2, OnlyItsOwn DEF IInv, Alone
  <2>2. CASE Release(c)
    <3>1. calls[c].pc = "release" /\ UNCHANGED tasks
          /\ info' = [info EXCEPT ![a].state = IF @ = "failed" THEN "stopped" ELSE @]
      BY <2>2 DEF Release, At
    <3>2. info[a].state \in {"stopped", "failed"}
      BY <3>1 DEF IInv, LocalsInv, AtAwait, OfAgent
    <3>3. info'[a].state = "stopped"
      BY <3>1, <3>2 DEF IInv, TypeInv, InfoOK, Records
    <3>4. \A g \in Generations : ~Alive(a, g)
      BY <3>2 DEF IInv, ProcessInv
    <3> QED BY <3>1, <3>3, <3>4 DEF Alive
  <2>3. CASE calls[c].pc = "stopped" /\ UNCHANGED <<info, tasks>>
    <3>1. info[a].state = "stopped"
      BY <2>3 DEF IInv, LocalsInv, AtAwait, OfAgent
    <3>2. \A g \in Generations : ~Alive(a, g)
      BY <3>1 DEF IInv, ProcessInv
    <3> QED BY <2>3, <3>1, <3>2 DEF Alive
  <2> QED BY <1>1, <1>2, <2>1, <2>2, <2>3, StopAnswersOk
<1>3. ASSUME NEW b \in Agents, NEW g \in Generations, AgentStep(b, g) \/ Fail(b, g)
      PROVE  FALSE
  <2>1. CASE Finish(b, g)
    BY <1>1, <2>1, CallsTold
  <2>2. CASE TakeStop(b, g) \/ Unreachable(b, g) \/ Fail(b, g)
    BY <1>1, <2>2 DEF TakeStop, Unreachable, Fail
  <2> QED BY <1>3, <2>1, <2>2 DEF AgentStep
<1>4. CASE UNCHANGED vars
  BY <1>1, <1>4 DEF vars
<1> QED BY <1>2, <1>3, <1>4 DEF Next

\* A stop is answered ok only when the process has been reaped, and the record
\* says stopped.
THEOREM StoppedMeansReaped == Spec => StopMeansReaped
<1>1. IInv /\ [Next]_vars =>
        [\A c \in Calls : \A a \in Agents :
          /\ calls[c].method = "stop" /\ calls[c].agent = a
          /\ ~At(c, "done") /\ calls'[c].answer = "ok"
          => /\ info'[a].state = "stopped"
             /\ \A g \in Generations : ~Alive(a, g)']_vars
  BY StopStep
<1> QED BY <1>1, Invariance, PTL DEF Spec, StopMeansReaped

===============================================================================

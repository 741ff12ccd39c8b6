------------------------------ MODULE PoolProofs ------------------------------
(***************************************************************************)
(* Proofs about ProcessPool, for every configuration and every bound.      *)
(*                                                                         *)
(* Part 1, types, sizes and processes: the sizes that the configuration    *)
(* promises are kept, no job waits while a worker is idle, and no process  *)
(* outlives its slot.                                                      *)
(*                                                                         *)
(* Part 2, the jobs: none is lost or run twice, none is left in the queue  *)
(* with nobody to take it out, and the counters and the core agree with    *)
(* the rest.                                                               *)
(*                                                                         *)
(* JobInv says where the jobs are (JobsApart, SentOnce, OwnedOnce), and    *)
(* what slots, tasks and pending events say of each other (Agreement): the *)
(* supervisor only knows its workers by their events, which reach it late, *)
(* so what holds of the slots can only be shown along with what is         *)
(* pending.                                                                *)
(***************************************************************************)
EXTENDS ProcessPool, FiniteSetTheorems, SequenceTheorems, TLAPS

-------------------------------------------------------------------------------
(***************************************************************************)
(* Part 1.  The types.  The facts about single operators that the later    *)
(* parts need too come first, then one lemma per handler of the supervisor *)
(* and per kind of task.                                                   *)
(***************************************************************************)

(***************************************************************************)
(* Facts about the slots and the operators that change them.               *)
(***************************************************************************)

\* Only the ids below next_worker_id are in use, so the slots are finitely many.
LEMMA SlotsFinite ==
    ASSUME TypeOK
    PROVE  IsFiniteSet(DOMAIN workers) /\ PoolSize \in Nat
<1>1. IsFiniteSet(1 .. (next_worker_id - 1))
  <2>1. next_worker_id - 1 \in Int
    BY DEF TypeOK
  <2> QED
    BY <2>1, FS_Interval
<1>2. IsFiniteSet(DOMAIN workers)
  BY <1>1, FS_Subset DEF TypeOK
<1> QED
  BY <1>2, FS_CardinalityType DEF PoolSize

\* minimum_workers stays a number, and within the core.
LEMMA RaisedMinimumBound ==
    ASSUME TypeOK
    PROVE  /\ RaisedMinimum \in Nat
           /\ minimum_workers <= CorePoolSize => RaisedMinimum <= CorePoolSize
<1>1. PoolSize \in Nat
  BY SlotsFinite
<1>2. minimum_workers \in Nat /\ CorePoolSize \in Nat
  BY ConfigAssumption DEF TypeOK
<1> QED
  BY <1>1, <1>2 DEF RaisedMinimum

\* A bound that is not used up can be drawn upon.
LEMMA BudgetStep ==
    ASSUME NEW b \in Budgets
    PROVE  /\ b.fault > 0 => [b EXCEPT !.fault = @ - 1] \in Budgets
           /\ b.spawn > 0 => [b EXCEPT !.spawn = @ - 1] \in Budgets
           /\ b.prestart > 0 => [b EXCEPT !.prestart = @ - 1] \in Budgets
           /\ b.close > 0 => [b EXCEPT !.close = @ - 1] \in Budgets
<1>1. b.fault \in Nat /\ b.spawn \in Nat /\ b.prestart \in Nat /\ b.close \in Nat
  BY DEF Budgets
<1>2. \A n \in Nat : n > 0 => n - 1 \in Nat
  OBVIOUS
<1> QED
  BY <1>1, <1>2 DEF Budgets

\* The part of the type invariant that speaks of slots, tasks and channels.
SlotsOK ==
    /\ events \in Seq(Events)
    /\ budget \in Budgets
    /\ next_worker_id \in Nat \ {0}
    /\ DOMAIN workers \subseteq 1 .. (next_worker_id - 1)
    /\ workers \in [DOMAIN workers -> Calls \cup {NoCall}]
    /\ minimum_workers \in Nat
    /\ DOMAIN tasks \subseteq 1 .. (next_worker_id - 1)
    /\ tasks \in [DOMAIN tasks -> Tasks]

\* The rest of it.
ControlOK ==
    /\ answer \in [Calls -> Answers \cup {"unsent", "waiting"}]
    /\ commands \in Seq(Commands)
    /\ handles \in BOOLEAN
    /\ rejection_policy \in RejectionPolicies
    /\ pc \in {"select", "place", "reuse", "drain", "restore", "prestart", "closed"}
    /\ after \in {"select", "restore", "prestart"}
    /\ held \in Calls \cup {NoCall}
    /\ (held # NoCall) <=> (pc \in {"place", "reuse"})
    /\ missing \in Nat
    /\ queue \in Seq(Calls)
    /\ count \in Counters
    /\ oneshots \subseteq Calls

LEMMA TypeParts == TypeOK <=> SlotsOK /\ ControlOK
BY DEF TypeOK, SlotsOK, ControlOK

LEMMA RemoveKeepsSlots ==
    ASSUME TypeOK, NEW S, RemoveWorkers(S)
    PROVE  /\ DOMAIN workers' = DOMAIN workers \ S
           /\ workers' \in [DOMAIN workers' -> Calls \cup {NoCall}]
           /\ DOMAIN tasks' = DOMAIN tasks
           /\ tasks' \in [DOMAIN tasks' -> Tasks]
<1>1. /\ workers' = [w \in DOMAIN workers \ S |-> workers[w]]
      /\ tasks' = [w \in DOMAIN tasks |->
                      [tasks[w] EXCEPT !.abort = @ \/ w \in S]]
  BY DEF RemoveWorkers, Without
<1>2. \A w \in DOMAIN tasks : [tasks[w] EXCEPT !.abort = @ \/ w \in S] \in Tasks
  <2>1. \A w \in DOMAIN tasks : tasks[w] \in Tasks
    BY DEF TypeOK
  <2>2. ASSUME NEW t \in Tasks, NEW b \in BOOLEAN
        PROVE  [t EXCEPT !.abort = b] \in Tasks
    BY DEF Tasks
  <2>3. \A w \in DOMAIN tasks : (tasks[w].abort \/ w \in S) \in BOOLEAN
    OBVIOUS
  <2> QED
    BY <2>1, <2>2, <2>3
<1> QED
  BY <1>1, <1>2 DEF TypeOK

LEMMA DispatchKeepsSlots ==
    ASSUME TypeOK, NEW w \in Idle, NEW j \in Calls, Dispatch(w, j)
    PROVE  /\ DOMAIN workers' = DOMAIN workers
           /\ workers' \in [DOMAIN workers' -> Calls \cup {NoCall}]
           /\ DOMAIN tasks' = DOMAIN tasks
           /\ tasks' \in [DOMAIN tasks' -> Tasks]
<1>1. tasks[w] \in Tasks
  BY DEF TypeOK, Dispatch, Receives
<1>2. [tasks[w] EXCEPT !.inbox = Append(@, j)] \in Tasks
  BY <1>1 DEF Tasks
<1> QED
  BY <1>2 DEF TypeOK, Dispatch, Idle

LEMMA SpawnKeepsSlots ==
    ASSUME TypeOK, NEW j \in Calls \cup {NoCall}, SpawnWorker(j)
    PROVE  SlotsOK' /\ DOMAIN workers' = DOMAIN workers \cup {next_worker_id}
<1>1. NewTask(IF j = NoCall THEN <<>> ELSE <<j>>) \in Tasks
  BY DEF NewTask, Tasks
<1>2. RaisedMinimum \in Nat
  BY RaisedMinimumBound
<1>3. /\ workers' = [w \in DOMAIN workers \cup {next_worker_id} |->
                        IF w = next_worker_id THEN j ELSE workers[w]]
      /\ tasks' = [w \in DOMAIN tasks \cup {next_worker_id} |->
                      IF w = next_worker_id
                      THEN NewTask(IF j = NoCall THEN <<>> ELSE <<j>>)
                      ELSE tasks[w]]
      /\ next_worker_id' = next_worker_id + 1
      /\ minimum_workers' = RaisedMinimum
      /\ UNCHANGED <<events, budget>>
  BY DEF SpawnWorker, With
<1>4. next_worker_id \in Nat \ {0} /\ next_worker_id' \in Nat \ {0}
  BY <1>3 DEF TypeOK
<1>5. 1 .. (next_worker_id' - 1) = 1 .. (next_worker_id - 1) \cup {next_worker_id}
  BY <1>3, <1>4
<1>6. DOMAIN workers' = DOMAIN workers \cup {next_worker_id}
  BY <1>3
<1>7. /\ DOMAIN workers' \subseteq 1 .. (next_worker_id' - 1)
      /\ workers' \in [DOMAIN workers' -> Calls \cup {NoCall}]
  BY <1>3, <1>5 DEF TypeOK
<1>8. /\ DOMAIN tasks' \subseteq 1 .. (next_worker_id' - 1)
      /\ tasks' \in [DOMAIN tasks' -> Tasks]
  BY <1>1, <1>3, <1>5 DEF TypeOK
<1>9. /\ events' \in Seq(Events)
      /\ budget' \in Budgets
      /\ minimum_workers' \in Nat
  BY <1>2, <1>3 DEF TypeOK
<1> QED
  BY <1>4, <1>6, <1>7, <1>8, <1>9 DEF SlotsOK

LEMMA StillbornKeepsSlots ==
    ASSUME TypeOK, SpawnStillborn
    PROVE  SlotsOK' /\ UNCHANGED workers
<1>1. Stopped(next_worker_id) \in Events
  BY DEF TypeOK, Stopped, Events, Outcomes
<1>2. RaisedMinimum \in Nat
  BY RaisedMinimumBound
<1>3. budget' \in Budgets
  BY BudgetStep DEF TypeOK, SpawnStillborn
<1>4. events' \in Seq(Events)
  BY <1>1 DEF TypeOK, SpawnStillborn
<1>5. /\ next_worker_id' = next_worker_id + 1
      /\ next_worker_id \in Nat \ {0}
  BY DEF TypeOK, SpawnStillborn
<1>6. 1 .. (next_worker_id - 1) \subseteq 1 .. (next_worker_id' - 1)
  BY <1>5
<1> QED
  BY <1>2, <1>3, <1>4, <1>5, <1>6 DEF TypeOK, SlotsOK, SpawnStillborn

LEMMA FailedSpawnKeepsSlots ==
    ASSUME TypeOK, SpawnFails
    PROVE  SlotsOK' /\ UNCHANGED <<workers, minimum_workers>>
<1>1. budget' \in Budgets
  BY BudgetStep DEF TypeOK, SpawnFails
<1>2. /\ next_worker_id' = next_worker_id + 1
      /\ next_worker_id \in Nat \ {0}
  BY DEF TypeOK, SpawnFails
<1>3. 1 .. (next_worker_id - 1) \subseteq 1 .. (next_worker_id' - 1)
  BY <1>2
<1> QED
  BY <1>1, <1>2, <1>3 DEF TypeOK, SlotsOK, SpawnFails

LEMMA AnsweredType ==
    ASSUME TypeOK, NEW S, NEW a \in Answers
    PROVE  Answered(S, a) \in [Calls -> Answers \cup {"unsent", "waiting"}]
BY DEF TypeOK, Answered

\* The head of the queue, when there is one, is a call.
LEMMA QueueType ==
    ASSUME TypeOK, queue # <<>>
    PROVE  Head(queue) \in Calls /\ Tail(queue) \in Seq(Calls)
BY DEF TypeOK

\* A command and an event carry what their kind needs.
LEMMA CommandType ==
    ASSUME TypeOK, commands # <<>>
    PROVE  /\ Tail(commands) \in Seq(Commands)
           /\ Head(commands).kind = "submit" => Head(commands).call \in Calls
BY DEF TypeOK, Commands

LEMMA EventType ==
    ASSUME TypeOK, events # <<>>
    PROVE  /\ Tail(events) \in Seq(Events)
           /\ Head(events).outcome \in Outcomes
           /\ Head(events).kind # "stopped" => Head(events).call \in Calls
<1>1. Head(events) \in Events /\ Tail(events) \in Seq(Events)
  BY DEF TypeOK
<1> QED
  BY <1>1 DEF Events

LEMMA CounterStep ==
    ASSUME TypeOK
    PROVE  /\ [count EXCEPT !.completed = @ + 1] \in Counters
           /\ [count EXCEPT !.failed = @ + 1] \in Counters
           /\ [count EXCEPT !.rejected = @ + 1] \in Counters
           /\ [count EXCEPT !.rejected = @ + 1, !.caller_runs = @ + 1] \in Counters
<1> DEFINE c == count
<1>1. c \in Counters
  BY DEF TypeOK
<1>2. /\ c.completed + 1 \in Nat /\ c.failed + 1 \in Nat
      /\ c.rejected + 1 \in Nat /\ c.caller_runs + 1 \in Nat
  BY <1>1 DEF Counters
<1> QED
  BY <1>1, <1>2 DEF Counters

LEMMA EmptyType == <<>> \in Seq(Commands) /\ <<>> \in Seq(Events) /\ <<>> \in Seq(Calls)
OBVIOUS

LEMMA NoCallIsNone == NoCall \notin Calls
BY DEF NoCall, Calls

\* core_pool_size.saturating_sub(workers.len())
LEMMA MissingType ==
    ASSUME TypeOK
    PROVE  (IF PoolSize < CorePoolSize THEN CorePoolSize - PoolSize ELSE 0) \in Nat
<1>1. PoolSize \in Nat /\ CorePoolSize \in Nat
  BY SlotsFinite, ConfigAssumption
<1> QED
  BY <1>1

-----------------------------------------------------------------------------
(***************************************************************************)
(* Type correctness, one handler after the other.                          *)
(***************************************************************************)

LEMMA PlaceJobType == TypeOK /\ PlaceJob => TypeOK'
<1> SUFFICES ASSUME TypeOK, PlaceJob PROVE SlotsOK' /\ ControlOK'
  BY TypeParts, PTL
<1> USE DEF channelVars
<1>1. SlotsOK /\ ControlOK
  BY TypeParts
<1>2. held \in Calls /\ "spawn_failed" \in Answers /\ "rejected" \in Answers
      /\ "discarded" \in Answers
  BY <1>1 DEF ControlOK, PlaceJob, PlaceOnIdle, PlaceOnIdleFails, StartJob,
              StartJobFails, Enqueue, ApplyRejectionPolicy, MustStart,
              MustReject, Saturated, Searching, Answers
<1>3. CASE PlaceOnIdle
  <2>1. PICK w \in Idle : Dispatch(w, held)
    BY <1>3 DEF PlaceOnIdle
  <2>2. SlotsOK'
    BY <1>1, <1>3, <2>1, DispatchKeepsSlots, <1>2 DEF PlaceOnIdle, SlotsOK
  <2>3. ControlOK'
    BY <1>1, <1>3 DEF PlaceOnIdle, ControlOK, Placed
  <2> QED
    BY <2>2, <2>3
<1>4. CASE PlaceOnIdleFails
  <2>1. PICK w \in Idle : RemoveWorkers({w})
    BY <1>4 DEF PlaceOnIdleFails, DispatchFails
  <2>2. SlotsOK'
    BY <1>1, <1>4, <2>1, RemoveKeepsSlots DEF PlaceOnIdleFails, SlotsOK
  <2>3. ControlOK'
    BY <1>1, <1>4, <1>2 DEF PlaceOnIdleFails, ControlOK, Searching
  <2> QED
    BY <2>2, <2>3
<1>5. CASE StartJob
  <2>1. held \in Calls \cup {NoCall} /\ SpawnWorker(held)
    BY <1>1, <1>5, <1>2 DEF StartJob
  <2>2. SlotsOK'
    BY <2>1, SpawnKeepsSlots
  <2>3. ControlOK'
    BY <1>1, <1>5 DEF StartJob, ControlOK, Placed
  <2> QED
    BY <2>2, <2>3
<1>6. CASE StartJobFails
  <2>1. SlotsOK'
    BY <1>6, StillbornKeepsSlots, FailedSpawnKeepsSlots DEF StartJobFails
  <2>2. ControlOK'
    BY <1>1, <1>6, <1>2, AnsweredType DEF StartJobFails, ControlOK, Placed
  <2> QED
    BY <2>1, <2>2
<1>7. CASE Enqueue
  <2>1. SlotsOK'
    BY <1>1, <1>7 DEF Enqueue, SlotsOK
  <2>2. ControlOK'
    BY <1>1, <1>7, <1>2 DEF Enqueue, ControlOK, Placed
  <2> QED
    BY <2>1, <2>2
<1>8. CASE ApplyRejectionPolicy
  <2>1. SlotsOK'
    BY <1>1, <1>8 DEF ApplyRejectionPolicy, SlotsOK
  <2>2. /\ answer' \in [Calls -> Answers \cup {"unsent", "waiting"}]
        /\ queue' \in Seq(Calls)
        /\ count' \in Counters
        /\ oneshots' \subseteq Calls
    <3>1. CASE Refuse
      BY <1>1, <1>2, <3>1, AnsweredType, CounterStep DEF Refuse, ControlOK
    <3>2. CASE DiscardOldest
      BY <1>1, <1>2, <3>2, AnsweredType, CounterStep, QueueType
         DEF DiscardOldest, ControlOK
    <3>3. CASE CallerRuns
      BY <1>1, <1>2, <3>3, CounterStep DEF CallerRuns, ControlOK
    <3> QED
      BY <1>8, <3>1, <3>2, <3>3 DEF ApplyRejectionPolicy
  <2>3. ControlOK'
    BY <1>1, <1>8, <2>2 DEF ApplyRejectionPolicy, ControlOK, Placed
  <2> QED
    BY <2>1, <2>3
<1> QED
  BY <1>3, <1>4, <1>5, <1>6, <1>7, <1>8 DEF PlaceJob

LEMMA HandleCommandType == TypeOK /\ HandleCommand => TypeOK'
<1> SUFFICES ASSUME TypeOK, HandleCommand PROVE SlotsOK' /\ ControlOK'
  BY TypeParts, PTL
<1> USE DEF channelVars
<1>1. SlotsOK /\ ControlOK
  BY TypeParts
<1>2. CASE HandleSubmit
  <2>1. SlotsOK'
    BY <1>1, <1>2 DEF HandleSubmit, SlotsOK
  <2>2. ControlOK'
    BY <1>1, <1>2, CommandType, NoCallIsNone DEF HandleSubmit, ControlOK,
      Receive
  <2> QED
    BY <2>1, <2>2
<1>3. CASE HandlePrestart
  <2>1. SlotsOK'
    BY <1>1, <1>3 DEF HandlePrestart, SlotsOK
  <2>2. ControlOK'
    BY <1>1, <1>3, CommandType, MissingType DEF HandlePrestart, ControlOK,
      Receive
  <2> QED
    BY <2>1, <2>2
<1>4. CASE PrestartWorker
  <2>1. (IF queue = <<>> THEN NoCall ELSE Head(queue)) \in Calls \cup {NoCall} /\ SpawnWorker((IF queue = <<>> THEN NoCall ELSE Head(queue)))
    BY <1>1, <1>4, QueueType DEF PrestartWorker
  <2>2. SlotsOK'
    BY <2>1, SpawnKeepsSlots
  <2>3. ControlOK'
    BY <1>1, <1>4, QueueType DEF PrestartWorker, ControlOK
  <2> QED
    BY <2>2, <2>3
<1>5. CASE PrestartStillborn
  <2>1. SlotsOK'
    BY <1>5, StillbornKeepsSlots, FailedSpawnKeepsSlots DEF PrestartStillborn
  <2>2. ControlOK'
    BY <1>1, <1>5, QueueType, NoCallIsNone DEF PrestartStillborn, ControlOK
  <2> QED
    BY <2>1, <2>2
<1>6. CASE PrestartFails
  <2>1. SlotsOK'
    BY <1>6, StillbornKeepsSlots, FailedSpawnKeepsSlots DEF PrestartFails
  <2>2. ControlOK'
    BY <1>1, <1>6 DEF PrestartFails, ControlOK
  <2> QED
    BY <2>1, <2>2
<1>7. CASE PrestartDone
  <2>1. SlotsOK'
    BY <1>1, <1>7 DEF PrestartDone, SlotsOK
  <2>2. ControlOK'
    BY <1>1, <1>7 DEF PrestartDone, ControlOK
  <2> QED
    BY <2>1, <2>2
<1>8. CASE Close /\ pc = "select"
  <2>1. RemoveWorkers(DOMAIN workers)
    BY <1>8 DEF Close
  <2>2. SlotsOK'
    BY <1>1, <1>8, <2>1, RemoveKeepsSlots, EmptyType DEF Close, SlotsOK
  <2>3. ControlOK'
    BY <1>1, <1>8, AnsweredType DEF Answers, Close, ControlOK
  <2> QED
    BY <2>2, <2>3
<1> QED
  BY <1>2, <1>3, <1>4, <1>5, <1>6, <1>7, <1>8 DEF HandleCommand,
      HandleShutdown, HandlesDropped

LEMMA HandleWorkerEventType == TypeOK /\ HandleWorkerEvent => TypeOK'
<1> SUFFICES ASSUME TypeOK, HandleWorkerEvent PROVE SlotsOK' /\ ControlOK'
  BY TypeParts, PTL
<1> USE DEF channelVars
<1>1. SlotsOK /\ ControlOK
  BY TypeParts
<1>2. CASE HandleFinished
  <2>1. /\ Event("finished")
        /\ Head(events).call \in Calls
        /\ Head(events).outcome \in Outcomes
        /\ Tail(events) \in Seq(Events)
    BY <1>2, EventType DEF HandleFinished, Event
  <2>2. /\ DOMAIN workers' \subseteq DOMAIN workers
        /\ workers' \in [DOMAIN workers' -> Calls \cup {NoCall}]
        /\ DOMAIN tasks' = DOMAIN tasks
        /\ tasks' \in [DOMAIN tasks' -> Tasks]
    <3>1. CASE Head(events).outcome \notin Reusable
      BY <1>2, <3>1, RemoveKeepsSlots DEF HandleFinished
    <3>2. CASE Head(events).outcome \in Reusable
      BY <1>1, <1>2, <3>2 DEF HandleFinished, SlotsOK
    <3> QED
      BY <3>1, <3>2
  <2>3. SlotsOK'
    BY <1>1, <1>2, <2>1, <2>2 DEF HandleFinished, Event, SlotsOK
  <2>4. ControlOK'
    BY <1>1, <1>2, <2>1, AnsweredType, CounterStep
       DEF HandleFinished, Event, ControlOK, Recorded, Answers
  <2> QED
    BY <2>3, <2>4
<1>3. CASE HandleOneShotFinished
  <2>1. /\ Event("oneshot")
        /\ Head(events).outcome \in Outcomes
        /\ Tail(events) \in Seq(Events)
    BY <1>3, EventType DEF HandleOneShotFinished, Event
  <2>2. SlotsOK'
    BY <1>1, <1>3, <2>1 DEF HandleOneShotFinished, Event, SlotsOK
  <2>3. ControlOK'
    BY <1>1, <1>3, <2>1, AnsweredType, CounterStep
       DEF HandleOneShotFinished, Event, ControlOK, Recorded, Answers
  <2> QED
    BY <2>2, <2>3
<1>4. CASE HandleStopped
  <2>1. RemoveWorkers({Head(events).worker})
    BY <1>4 DEF HandleStopped
  <2>2. SlotsOK'
    BY <1>1, <1>4, <2>1, RemoveKeepsSlots, EventType DEF HandleStopped,
      SlotsOK, Event
  <2>3. ControlOK'
    BY <1>1, <1>4, EventType DEF HandleStopped, ControlOK, Event
  <2> QED
    BY <2>2, <2>3
<1> QED
  BY <1>2, <1>3, <1>4 DEF HandleWorkerEvent

LEMMA DrainType == TypeOK /\ DrainOneQueuedTask => TypeOK'
<1> SUFFICES ASSUME TypeOK, DrainOneQueuedTask PROVE SlotsOK' /\ ControlOK'
  BY TypeParts, PTL
<1> USE DEF channelVars
<1>1. SlotsOK /\ ControlOK
  BY TypeParts
<1>2. CASE DrainToIdle
  <2>1. PICK w \in Idle : Dispatch(w, Head(queue))
    BY <1>2 DEF DrainToIdle
  <2>2. SlotsOK'
    BY <1>1, <1>2, <2>1, DispatchKeepsSlots, QueueType DEF DrainToIdle,
      SlotsOK
  <2>3. ControlOK'
    BY <1>1, <1>2, QueueType DEF DrainToIdle, ControlOK
  <2> QED
    BY <2>2, <2>3
<1>3. CASE DrainToIdleFails
  <2>1. PICK w \in Idle : RemoveWorkers({w})
    BY <1>3 DEF DrainToIdleFails, DispatchFails
  <2>2. SlotsOK'
    BY <1>1, <1>3, <2>1, RemoveKeepsSlots DEF DrainToIdleFails, SlotsOK
  <2>3. ControlOK'
    BY <1>1, <1>3, QueueType, NoCallIsNone DEF DrainToIdleFails, ControlOK
  <2> QED
    BY <2>2, <2>3
<1>4. CASE DrainToNew
  <2>1. Head(queue) \in Calls \cup {NoCall} /\ SpawnWorker(Head(queue))
    BY <1>1, <1>4, QueueType DEF DrainToNew, DrainNeedsWorker
  <2>2. SlotsOK'
    BY <2>1, SpawnKeepsSlots
  <2>3. ControlOK'
    BY <1>1, <1>4, QueueType DEF DrainToNew, ControlOK, DrainNeedsWorker
  <2> QED
    BY <2>2, <2>3
<1>5. CASE DrainToStillborn
  <2>1. SlotsOK'
    BY <1>5, StillbornKeepsSlots, FailedSpawnKeepsSlots DEF DrainToStillborn
  <2>2. ControlOK'
    BY <1>1, <1>5, QueueType, AnsweredType DEF DrainToStillborn, ControlOK,
      DrainNeedsWorker, Answers
  <2> QED
    BY <2>1, <2>2
<1>6. CASE DrainSpawnFails
  <2>1. SlotsOK'
    BY <1>6, StillbornKeepsSlots, FailedSpawnKeepsSlots DEF DrainSpawnFails
  <2>2. ControlOK'
    BY <1>1, <1>6, QueueType, AnsweredType DEF DrainSpawnFails, ControlOK,
      DrainNeedsWorker, Answers
  <2> QED
    BY <2>1, <2>2
<1>7. CASE DrainNothing
  <2>1. SlotsOK'
    BY <1>1, <1>7 DEF DrainNothing, SlotsOK
  <2>2. ControlOK'
    BY <1>1, <1>7 DEF DrainNothing, ControlOK
  <2> QED
    BY <2>1, <2>2
<1> QED
  BY <1>2, <1>3, <1>4, <1>5, <1>6, <1>7 DEF DrainOneQueuedTask

LEMMA RestoreType == TypeOK /\ RestoreCoreWorkers => TypeOK'
<1> SUFFICES ASSUME TypeOK, RestoreCoreWorkers PROVE SlotsOK' /\ ControlOK'
  BY TypeParts, PTL
<1> USE DEF channelVars
<1>1. SlotsOK /\ ControlOK
  BY TypeParts
<1>2. CASE RestoreWorker
  <2>1. (IF queue = <<>> THEN NoCall ELSE Head(queue)) \in Calls \cup {NoCall} /\ SpawnWorker((IF queue = <<>> THEN NoCall ELSE Head(queue)))
    BY <1>1, <1>2, QueueType DEF RestoreWorker
  <2>2. SlotsOK'
    BY <2>1, SpawnKeepsSlots
  <2>3. ControlOK'
    BY <1>1, <1>2, QueueType DEF RestoreWorker, ControlOK
  <2> QED
    BY <2>2, <2>3
<1>3. CASE RestoreStillborn
  <2>1. SlotsOK'
    BY <1>3, StillbornKeepsSlots, FailedSpawnKeepsSlots DEF RestoreStillborn
  <2>2. ControlOK'
    BY <1>1, <1>3, QueueType, AnsweredType DEF RestoreStillborn, ControlOK,
      Answers
  <2> QED
    BY <2>1, <2>2
<1>4. CASE RestoreFails
  <2>1. SlotsOK'
    BY <1>4, StillbornKeepsSlots, FailedSpawnKeepsSlots DEF RestoreFails
  <2>2. ControlOK'
    BY <1>1, <1>4, AnsweredType DEF RestoreFails, ControlOK, Answers
  <2> QED
    BY <2>1, <2>2
<1>5. CASE RestoreDone
  <2>1. SlotsOK'
    BY <1>1, <1>5 DEF RestoreDone, SlotsOK
  <2>2. ControlOK'
    BY <1>1, <1>5 DEF RestoreDone, ControlOK
  <2> QED
    BY <2>1, <2>2
<1> QED
  BY <1>2, <1>3, <1>4, <1>5 DEF RestoreCoreWorkers

LEMMA RetireType == TypeOK /\ RetireIdleWorkers => TypeOK'
<1> SUFFICES ASSUME TypeOK, RetireIdleWorkers PROVE SlotsOK' /\ ControlOK'
  BY TypeParts, PTL
<1> USE DEF channelVars
<1>1. SlotsOK /\ ControlOK
  BY TypeParts
<1>2. CASE RetireIdleWorkers
  <2>1. PICK R : RemoveWorkers(R)
    BY <1>2 DEF RetireIdleWorkers
  <2>2. SlotsOK'
    BY <1>1, <1>2, <2>1, RemoveKeepsSlots DEF RetireIdleWorkers, SlotsOK
  <2>3. ControlOK'
    BY <1>1, <1>2 DEF RetireIdleWorkers, ControlOK
  <2> QED
    BY <2>2, <2>3
<1> QED
  BY <1>2 DEF RetireIdleWorkers

\* What a task sends is an event, and a task that ends leaves the others alone.
LEMMA SendType ==
    ASSUME TypeOK, NEW e \in Events, Send(e)
    PROVE  events' \in Seq(Events)
BY DEF TypeOK, Send

LEMMA EndType ==
    ASSUME TypeOK, NEW w, End(w)
    PROVE  /\ DOMAIN tasks' = DOMAIN tasks \ {w}
           /\ tasks' \in [DOMAIN tasks' -> Tasks]
           /\ answer' \in [Calls -> Answers \cup {"unsent", "waiting"}]
<1>1. answer' \in [Calls -> Answers \cup {"unsent", "waiting"}]
  BY AnsweredType DEF End, Answers
<1> QED
  BY <1>1 DEF TypeOK, End, Without

LEMMA MayFailType ==
    ASSUME TypeOK, NEW o, MayFail(o)
    PROVE  budget' \in Budgets
BY BudgetStep DEF TypeOK, MayFail

LEMMA TaskStepType ==
    ASSUME TypeOK, NEW w \in DOMAIN tasks, WorkerStep(w) \/ ChildExits(w)
    PROVE  TypeOK'
<1> SUFFICES SlotsOK' /\ ControlOK'
  BY TypeParts, PTL
<1> USE DEF channelVars, supervisorVars
<1>1. SlotsOK /\ ControlOK /\ tasks[w] \in Tasks /\ w \in Nat
  BY TypeParts DEF TypeOK
<1>2. CASE TakeJob(w)
  <2>1. [tasks[w] EXCEPT !.at = "exchange", !.call = Head(tasks[w].inbox),
                         !.inbox = Tail(@)] \in Tasks
    <3>1. tasks[w].inbox \in Seq(Calls) /\ tasks[w].inbox # <<>>
      BY <1>1, <1>2 DEF TakeJob, Tasks
    <3>2. Head(tasks[w].inbox) \in Calls /\ Tail(tasks[w].inbox) \in Seq(Calls)
      BY <3>1
    <3> QED
      BY <1>1, <3>2 DEF Tasks
  <2>2. SlotsOK'
    BY <1>1, <1>2, <2>1 DEF TakeJob, SlotsOK
  <2>3. ControlOK'
    BY <1>1, <1>2 DEF TakeJob, ControlOK
  <2> QED
    BY <2>2, <2>3
<1>3. CASE NoticeExit(w)
  <2>1. Stopped(w) \in Events
    BY <1>1 DEF Stopped, Events, Outcomes
  <2>2. SlotsOK'
    BY <1>1, <1>3, <2>1, EndType, SendType DEF NoticeExit, SlotsOK
  <2>3. ControlOK'
    BY <1>1, <1>3, EndType DEF NoticeExit, ControlOK
  <2> QED
    BY <2>2, <2>3
<1>4. CASE InboxClosed(w)
  <2>1. [tasks[w] EXCEPT !.at = "kill"] \in Tasks
    BY <1>1, <1>4 DEF InboxClosed, Tasks
  <2>2. SlotsOK'
    BY <1>1, <1>4, <2>1 DEF InboxClosed, SlotsOK
  <2>3. ControlOK'
    BY <1>1, <1>4 DEF InboxClosed, ControlOK
  <2> QED
    BY <2>2, <2>3
<1>5. CASE \E o \in Outcomes : Exchange(w, o)
  <2>1. PICK o \in Outcomes : Exchange(w, o)
    BY <1>5
  <2>2. tasks[w].call \in Calls
    BY <1>1, <2>1 DEF Exchange, Tasks
  <2>3. Finished(w, tasks[w].call, o) \in Events
    BY <1>1, <2>2 DEF Finished, Events
  <2>4. budget' \in Budgets
    BY <1>1, <2>1, MayFailType DEF Exchange, SlotsOK
  <2>5. ASSUME NEW a \in {"select", "kill"}
        PROVE  [tasks[w] EXCEPT !.call = NoCall, !.at = a] \in Tasks
    BY <1>1 DEF Tasks
  <2>6. tasks' \in [DOMAIN tasks -> Tasks] /\ DOMAIN tasks' = DOMAIN tasks
    BY <1>1, <2>1, <2>5 DEF Exchange, SlotsOK
  <2>7. events' \in Seq(Events)
    BY <2>1, <2>3, SendType DEF Exchange
  <2>8. SlotsOK'
    BY <1>1, <2>1, <2>4, <2>6, <2>7 DEF Exchange, SlotsOK
  <2>9. ControlOK'
    BY <1>1, <2>1, AnsweredType DEF Exchange, ControlOK, Answers
  <2> QED
    BY <2>8, <2>9
<1>6. CASE KillChild(w)
  <2>1. SlotsOK'
    BY <1>1, <1>6, EndType DEF KillChild, SlotsOK
  <2>2. ControlOK'
    BY <1>1, <1>6, EndType DEF KillChild, ControlOK
  <2> QED
    BY <2>1, <2>2
<1>7. CASE Cancel(w)
  <2>1. SlotsOK'
    BY <1>1, <1>7, EndType DEF Cancel, SlotsOK
  <2>2. ControlOK'
    BY <1>1, <1>7, EndType DEF Cancel, ControlOK
  <2> QED
    BY <2>1, <2>2
<1>8. CASE ChildExits(w)
  <2>1. [tasks[w] EXCEPT !.alive = FALSE] \in Tasks
    BY <1>1 DEF Tasks
  <2>2. SlotsOK'
    BY <1>1, <1>8, <2>1, BudgetStep DEF ChildExits, SlotsOK
  <2>3. ControlOK'
    BY <1>1, <1>8 DEF ChildExits, ControlOK
  <2> QED
    BY <2>2, <2>3
<1> QED
  BY <1>2, <1>3, <1>4, <1>5, <1>6, <1>7, <1>8 DEF WorkerStep

LEMMA OneShotType ==
    ASSUME TypeOK, NEW j \in Calls, OneShotStep(j)
    PROVE  TypeOK'
<1> SUFFICES SlotsOK' /\ ControlOK'
  BY TypeParts, PTL
<1> USE DEF channelVars, supervisorVars
<1>1. SlotsOK /\ ControlOK
  BY TypeParts
<1>2. PICK o \in Outcomes : OneShotEnds(j, o)
  BY DEF OneShotStep
<1>3. OneShotFinished(j, o) \in Events
  BY DEF OneShotFinished, Events, NoWorker
<1>4. SlotsOK'
  BY <1>1, <1>2, <1>3, SendType, MayFailType DEF OneShotEnds, SlotsOK
<1>5. ControlOK'
  BY <1>1, <1>2, AnsweredType DEF OneShotEnds, ControlOK, Answers
<1> QED
  BY <1>4, <1>5

LEMMA ClientType == TypeOK /\ ClientStep => TypeOK'
<1> SUFFICES ASSUME TypeOK, ClientStep PROVE SlotsOK' /\ ControlOK'
  BY TypeParts, PTL
<1> USE DEF supervisorVars
<1>1. SlotsOK /\ ControlOK
  BY TypeParts
<1>2. CASE \E j \in Calls : Execute(j)
  <2>1. PICK j \in Calls : Execute(j)
    BY <1>2
  <2>2. Submit(j) \in Commands
    BY DEF Submit, Commands
  <2>3. SlotsOK'
    BY <1>1, <2>1 DEF Execute, SlotsOK
  <2>4. commands' \in Seq(Commands)
    BY <1>1, <2>1, <2>2 DEF Execute, ControlOK
  <2>5. answer' \in [Calls -> Answers \cup {"unsent", "waiting"}]
    BY <1>1, <2>1 DEF Execute, ControlOK, Answers
  <2>6. UNCHANGED <<handles, supervisorVars, oneshots>>
    BY <2>1 DEF Execute
  <2>7. ControlOK'
    BY <1>1, <2>4, <2>5, <2>6 DEF ControlOK
  <2> QED
    BY <2>3, <2>7
<1>3. PrestartCommand \in Commands /\ ShutdownCommand \in Commands
  BY DEF PrestartCommand, ShutdownCommand, Commands
<1>4. CASE Prestart
  <2>1. SlotsOK'
    BY <1>1, <1>4, BudgetStep DEF Prestart, SlotsOK
  <2>2. ControlOK'
    BY <1>1, <1>3, <1>4 DEF Prestart, ControlOK
  <2> QED
    BY <2>1, <2>2
<1>5. CASE Shutdown
  <2>1. SlotsOK'
    BY <1>1, <1>5, BudgetStep DEF Shutdown, SlotsOK
  <2>2. ControlOK'
    BY <1>1, <1>3, <1>5 DEF Shutdown, ControlOK
  <2> QED
    BY <2>1, <2>2
<1>6. CASE DropHandles
  <2>1. SlotsOK'
    BY <1>1, <1>6, BudgetStep DEF DropHandles, SlotsOK
  <2>2. ControlOK'
    BY <1>1, <1>6 DEF DropHandles, ControlOK
  <2> QED
    BY <2>1, <2>2
<1> QED
  BY <1>2, <1>4, <1>5, <1>6 DEF ClientStep

LEMMA TypeInit == Init => TypeOK
<1> SUFFICES ASSUME Init PROVE TypeOK
  OBVIOUS
<1>1. budget \in Budgets
  BY BoundAssumption DEF Init, Budgets
<1>2. count \in Counters
  BY DEF Init, Counters
<1>3. /\ DOMAIN workers = {} /\ workers \in [DOMAIN workers -> Calls \cup {NoCall}]
      /\ DOMAIN tasks = {} /\ tasks \in [DOMAIN tasks -> Tasks]
  BY DEF Init
<1> QED
  BY <1>1, <1>2, <1>3, NoCallIsNone DEF Init, TypeOK

LEMMA TypeUnchanged == TypeOK /\ UNCHANGED vars => TypeOK'
BY DEF TypeOK, vars

LEMMA TypeStep == TypeOK /\ [Next]_vars => TypeOK'
<1> SUFFICES ASSUME TypeOK, [Next]_vars PROVE TypeOK'
  OBVIOUS
<1>1. CASE ClientStep
  BY <1>1, ClientType
<1>2. CASE SupervisorStep
  BY <1>2, PlaceJobType, HandleCommandType, HandleWorkerEventType, DrainType,
     RestoreType, RetireType DEF SupervisorStep
<1>3. CASE \E w \in DOMAIN tasks : WorkerStep(w) \/ ChildExits(w)
  BY <1>3, TaskStepType
<1>4. CASE \E j \in Calls : OneShotStep(j)
  BY <1>4, OneShotType
<1>5. CASE Quiescent \/ UNCHANGED vars
  BY <1>5, TypeUnchanged DEF Quiescent
<1> QED
  BY <1>1, <1>2, <1>3, <1>4, <1>5 DEF Next

\* Every variable of the pool keeps its type: ids are those spawn_worker handed
\* out, place_job runs exactly while a job is in hand, and every job taken,
\* reported or submitted is a call.
THEOREM TypeCorrect == Spec => []TypeOK
<1>1. Init => TypeOK
  BY TypeInit
<1>2. TypeOK /\ [Next]_vars => TypeOK'
  BY TypeStep
<1> QED
  BY <1>1, <1>2, PTL DEF Spec

-------------------------------------------------------------------------------
(***************************************************************************)
(* The sizes, and who may be idle while jobs wait.  Both follow from       *)
(* PoolInv, which is inductive: it adds where the loop of                  *)
(* prestart_core_workers and the callers of place_job stand, since the     *)
(* bounds are tested in one step and used in a later one.                  *)
(***************************************************************************)

(***************************************************************************)
(* What the operators on the slots do to the size and to the idle workers. *)
(***************************************************************************)

LEMMA Sizes ==
    ASSUME TypeOK
    PROVE  /\ PoolSize \in Nat /\ Len(queue) \in Nat /\ missing \in Nat
           /\ minimum_workers \in Nat
           /\ CorePoolSize \in Nat /\ MaximumPoolSize \in Nat /\ QueueCapacity \in Nat
           /\ CorePoolSize <= MaximumPoolSize /\ 1 <= MaximumPoolSize
<1>1. PoolSize \in Nat
  BY SlotsFinite
<1>2. Len(queue) \in Nat
  BY DEF TypeOK
<1> QED
  BY <1>1, <1>2, ConfigAssumption DEF TypeOK

\* The id of a new worker is in no slot, so the pool grows by one; a worker
\* started with a job is not idle.
LEMMA SpawnGrows ==
    ASSUME TypeOK, NEW j \in Calls \cup {NoCall}, SpawnWorker(j)
    PROVE  /\ PoolSize' = PoolSize + 1
           /\ j # NoCall => Idle' \subseteq Idle
           /\ minimum_workers <= CorePoolSize => minimum_workers' <= CorePoolSize
<1>1. next_worker_id \notin DOMAIN workers
  BY DEF TypeOK
<1>2. DOMAIN workers' = DOMAIN workers \cup {next_worker_id}
  BY SpawnKeepsSlots
<1>3. PoolSize' = PoolSize + 1
  BY <1>1, <1>2, SlotsFinite, FS_AddElement DEF PoolSize
<1>4. j # NoCall => Idle' \subseteq Idle
  BY <1>1 DEF SpawnWorker, With, Idle
<1>5. minimum_workers <= CorePoolSize => minimum_workers' <= CorePoolSize
  BY RaisedMinimumBound DEF SpawnWorker
<1> QED
  BY <1>3, <1>4, <1>5

LEMMA RemoveShrinks ==
    ASSUME TypeOK, NEW S, RemoveWorkers(S)
    PROVE  PoolSize' \in Nat /\ PoolSize' <= PoolSize /\ Idle' = Idle \ S
<1>1. workers' = [w \in DOMAIN workers \ S |-> workers[w]]
  BY DEF RemoveWorkers, Without
<1>2. DOMAIN workers' \subseteq DOMAIN workers
  BY <1>1
<1>3. IsFiniteSet(DOMAIN workers') /\ Cardinality(DOMAIN workers') <= Cardinality(DOMAIN workers)
  BY <1>2, SlotsFinite, FS_Subset
<1>4. PoolSize' \in Nat /\ PoolSize' <= PoolSize
  BY <1>3, FS_CardinalityType DEF PoolSize
<1>5. Idle' = Idle \ S
  BY <1>1 DEF Idle
<1> QED
  BY <1>4, <1>5

\* A dispatch takes the worker out of the idle ones, whether it works or not.
LEMMA DispatchOccupies ==
    ASSUME TypeOK, NEW w \in Idle, NEW j \in Calls, Dispatch(w, j) \/ DispatchFails(w)
    PROVE  PoolSize' \in Nat /\ PoolSize' <= PoolSize /\ Idle' = Idle \ {w}
<1>1. CASE Dispatch(w, j)
  <2>1. DOMAIN workers' = DOMAIN workers
    BY <1>1, DispatchKeepsSlots
  <2>2. PoolSize' = PoolSize
    BY <2>1 DEF PoolSize
  <2>3. Idle' = Idle \ {w}
    BY <1>1, NoCallIsNone DEF Dispatch, Idle
  <2> QED
    BY <2>2, <2>3, SlotsFinite
<1>2. CASE DispatchFails(w)
  BY <1>2, RemoveShrinks DEF DispatchFails
<1> QED
  BY <1>1, <1>2

\* A spawn that fails, or that starts a worker which is gone at once, changes
\* no slot.
LEMMA FailedSpawnChangesNothing ==
    ASSUME TypeOK, SpawnStillborn \/ SpawnFails
    PROVE  /\ UNCHANGED workers
           /\ PoolSize' = PoolSize
           /\ Idle' = Idle
           /\ minimum_workers <= CorePoolSize => minimum_workers' <= CorePoolSize
<1>1. UNCHANGED workers
  BY DEF SpawnStillborn, SpawnFails
<1>2. PoolSize' = PoolSize /\ Idle' = Idle
  BY <1>1 DEF PoolSize, Idle
<1>3. minimum_workers <= CorePoolSize => minimum_workers' <= CorePoolSize
  BY RaisedMinimumBound DEF SpawnStillborn, SpawnFails
<1> QED
  BY <1>1, <1>2, <1>3

\* The queue grows by one at its back and shrinks by one at its front.
LEMMA QueueLengths ==
    ASSUME TypeOK
    PROVE  /\ \A j \in Calls : Len(Append(queue, j)) = Len(queue) + 1
           /\ queue # <<>> => /\ Len(Tail(queue)) = Len(queue) - 1
                              /\ Len(Tail(queue)) \in Nat
                              /\ \A j \in Calls : Len(Append(Tail(queue), j)) = Len(queue)
<1>1. queue \in Seq(Calls)
  BY DEF TypeOK
<1>2. queue # <<>> => Tail(queue) \in Seq(Calls) /\ Len(Tail(queue)) = Len(queue) - 1
  BY <1>1
<1> QED
  BY <1>1, <1>2

-----------------------------------------------------------------------------
(***************************************************************************)
(* The invariant.                                                          *)
(***************************************************************************)

\* Where the loop of prestart_core_workers and the callers of place_job stand.
LoopInv ==
    /\ after # "select" => pc \in {"place", "reuse"}
    /\ missing > 0 => "prestart" \in {pc, after}
    /\ after = "prestart" => pc = "place" /\ PoolSize + missing < CorePoolSize

LEMMA PoolInvParts == PoolInv <=> PoolBounds /\ NoIdleWhileQueued /\ LoopInv
BY DEF PoolInv, LoopInv

\* What PoolInv says wherever the supervisor is not in place_job.
LEMMA OutsidePlaceJob ==
    ASSUME TypeOK, PoolInv, pc \notin {"place", "reuse"}
    PROVE  /\ after = "select"
           /\ pc # "prestart" => missing = 0
           /\ pc # "drain" /\ queue # <<>> => Idle = {}
BY Sizes DEF PoolInv, NoIdleWhileQueued, TypeOK

\* What it says while place_job looks for an idle worker: it was not called by
\* prestart_core_workers, whose job always finds room in the core.
LEMMA WhileSearching ==
    ASSUME TypeOK, PoolInv, Searching
    PROVE  /\ pc \in {"place", "reuse"}
           /\ after # "prestart"
           /\ missing = 0
           /\ queue # <<>> => Idle = {}
           /\ held \in Calls
<1>1. pc \in {"place", "reuse"} /\ held \in Calls
  BY DEF Searching, TypeOK
<1>2. after # "prestart"
  BY <1>1, Sizes DEF Searching, PoolInv
<1>3. missing = 0
  BY <1>1, <1>2, Sizes DEF PoolInv
<1>4. queue # <<>> => Idle = {}
  BY <1>1 DEF PoolInv, NoIdleWhileQueued
<1> QED
  BY <1>1, <1>2, <1>3, <1>4

\* What the invariant speaks of.
LEMMA Frame ==
    ASSUME PoolInv, UNCHANGED <<workers, queue, pc, after, missing, minimum_workers>>
    PROVE  PoolInv'
BY DEF PoolInv, PoolBounds, NoIdleWhileQueued, PoolSize, Idle

-----------------------------------------------------------------------------
(***************************************************************************)
(* place_job and apply_rejection_policy.                                   *)
(***************************************************************************)

\* A worker is started for the job in hand only where there is room for it,
\* and for prestart_core_workers it takes the place of the one just lost.
LEMMA StartJobKeepsInv ==
    ASSUME TypeOK, PoolInv, StartJob
    PROVE  PoolInv'
<1>1. held \in Calls /\ held # NoCall /\ pc \in {"place", "reuse"}
  BY NoCallIsNone DEF StartJob, MustStart, Saturated, Searching, TypeOK
<1>2. /\ PoolSize' = PoolSize + 1
      /\ Idle' \subseteq Idle
      /\ minimum_workers' <= CorePoolSize
  BY <1>1, SpawnGrows DEF StartJob, PoolInv, PoolBounds
<1>3. queue' = queue /\ missing' = missing /\ pc' = after /\ after' = "select"
  BY DEF StartJob, Placed
<1>4. PoolBounds'
  <2>1. PoolSize < MaximumPoolSize
    <3>1. DOMAIN workers = {} => PoolSize = 0
      BY FS_EmptySet DEF PoolSize
    <3> QED
      BY <3>1, Sizes DEF StartJob, MustStart
  <2>2. missing > 0 => PoolSize + missing < CorePoolSize
    BY <1>1 DEF PoolInv
  <2> QED
    BY <1>2, <1>3, <2>1, <2>2, Sizes DEF PoolInv, PoolBounds
<1>5. NoIdleWhileQueued'
  BY <1>1, <1>2, <1>3 DEF PoolInv, NoIdleWhileQueued
<1>6. LoopInv'
  BY <1>1, <1>3 DEF PoolInv, LoopInv
<1> QED
  BY <1>4, <1>5, <1>6, PoolInvParts, PTL

\* No worker could be started: the slots stay as they are.
LEMMA StartJobFailsKeepsInv ==
    ASSUME TypeOK, PoolInv, StartJobFails
    PROVE  PoolInv'
<1>1. pc \in {"place", "reuse"}
  BY DEF StartJobFails, MustStart, Saturated, Searching
<1>2. PoolSize' = PoolSize /\ Idle' = Idle /\ minimum_workers' <= CorePoolSize
  BY FailedSpawnChangesNothing DEF StartJobFails, PoolInv, PoolBounds
<1>3. queue' = queue /\ missing' = missing /\ pc' = after /\ after' = "select"
  BY DEF StartJobFails, Placed
<1>4. PoolBounds'
  BY <1>2, <1>3 DEF PoolInv, PoolBounds
<1>5. NoIdleWhileQueued'
  BY <1>1, <1>2, <1>3 DEF PoolInv, NoIdleWhileQueued
<1>6. LoopInv'
  BY <1>1, <1>3 DEF PoolInv, LoopInv
<1> QED
  BY <1>4, <1>5, <1>6, PoolInvParts, PTL

\* A dispatch to an idle worker finds the queue empty.
LEMMA PlaceOnIdleKeepsInv ==
    ASSUME TypeOK, PoolInv, PlaceOnIdle \/ PlaceOnIdleFails
    PROVE  PoolInv'
<1>1. Searching
  BY DEF PlaceOnIdle, PlaceOnIdleFails
<1>2. /\ pc \in {"place", "reuse"} /\ after # "prestart"
      /\ missing = 0 /\ held \in Calls
      /\ queue # <<>> => Idle = {}
  BY <1>1, WhileSearching
<1>3. PICK w \in Idle : Dispatch(w, held) \/ DispatchFails(w)
  BY DEF PlaceOnIdle, PlaceOnIdleFails
<1>4. PoolSize' \in Nat /\ PoolSize' <= PoolSize
  BY <1>2, <1>3, DispatchOccupies
<1>5. /\ queue' = <<>> /\ queue = <<>>
      /\ missing' = 0
      /\ minimum_workers' = minimum_workers
      /\ \/ pc' = after /\ after' = "select"
         \/ pc' = "reuse" /\ after' = after
  BY <1>2, <1>3 DEF PlaceOnIdle, PlaceOnIdleFails, Placed
<1>6. PoolBounds'
  BY <1>4, <1>5, Sizes DEF PoolInv, PoolBounds
<1>7. NoIdleWhileQueued'
  BY <1>5 DEF NoIdleWhileQueued
<1>8. LoopInv'
  BY <1>2, <1>5 DEF LoopInv
<1> QED
  BY <1>6, <1>7, <1>8, PoolInvParts, PTL

\* The job in hand is queued, refused, or takes the place of the oldest: only
\* when no worker is idle, and in a queue with room or no longer than it was.
LEMMA QueueOrRejectKeepsInv ==
    ASSUME TypeOK, PoolInv, Enqueue \/ ApplyRejectionPolicy
    PROVE  PoolInv'
<1>1. Searching /\ Idle = {}
  BY DEF Enqueue, ApplyRejectionPolicy, MustReject, Saturated
<1>2. after # "prestart" /\ missing = 0 /\ held \in Calls
  BY <1>1, WhileSearching
<1>3. /\ UNCHANGED <<workers, minimum_workers, missing>>
      /\ pc' = after /\ after' = "select"
  BY DEF Enqueue, ApplyRejectionPolicy, Placed
<1>4. PoolSize' = PoolSize /\ Idle' = {}
  BY <1>1, <1>3 DEF PoolSize, Idle
<1>5. Len(queue') <= QueueCapacity
  <2>1. CASE Enqueue
    <3>1. Len(queue') = Len(queue) + 1 /\ Len(queue) < QueueCapacity
      BY <1>2, <2>1, QueueLengths DEF Enqueue
    <3> QED
      BY <3>1, Sizes
  <2>2. CASE ApplyRejectionPolicy
    <3>1. Len(queue') = Len(queue)
      BY <1>2, <2>2, QueueLengths
         DEF ApplyRejectionPolicy, Refuse, DiscardOldest, CallerRuns
    <3> QED
      BY <3>1 DEF PoolInv, PoolBounds
  <2> QED
    BY <2>1, <2>2
<1>6. PoolBounds'
  BY <1>2, <1>3, <1>4, <1>5, Sizes DEF PoolInv, PoolBounds
<1>7. NoIdleWhileQueued'
  BY <1>4 DEF NoIdleWhileQueued
<1>8. LoopInv'
  BY <1>2, <1>3 DEF LoopInv
<1> QED
  BY <1>6, <1>7, <1>8, PoolInvParts, PTL

LEMMA PlaceJobKeepsInv == TypeOK /\ PoolInv /\ PlaceJob => PoolInv'
BY PlaceOnIdleKeepsInv, StartJobKeepsInv, StartJobFailsKeepsInv,
   QueueOrRejectKeepsInv DEF PlaceJob

-----------------------------------------------------------------------------
(***************************************************************************)
(* Commands.                                                               *)
(***************************************************************************)

\* prestart_core_workers counts the missing workers once, before its loop.
LEMMA PrestartKeepsInv ==
    ASSUME TypeOK, PoolInv,
           HandlePrestart \/ PrestartFails \/ PrestartDone
    PROVE  PoolInv'
<1>1. /\ pc \in {"select", "prestart"} /\ pc' \in {"select", "prestart"}
      /\ UNCHANGED <<workers, queue, after>>
  BY DEF HandlePrestart, Receive, PrestartFails, PrestartDone, SpawnFails
<1>2. minimum_workers' = minimum_workers
  BY DEF HandlePrestart, PrestartFails, PrestartDone, SpawnFails
<1>3. PoolSize' = PoolSize /\ Idle' = Idle
  BY <1>1 DEF PoolSize, Idle
<1>4. after = "select" /\ (queue # <<>> => Idle = {})
  BY <1>1, OutsidePlaceJob
<1>5. missing' > 0 => pc' = "prestart" /\ PoolSize + missing' <= CorePoolSize
  BY Sizes DEF HandlePrestart, PrestartFails, PrestartDone
<1>6. PoolBounds'
  BY <1>1, <1>2, <1>3, <1>5 DEF PoolInv, PoolBounds
<1>7. NoIdleWhileQueued'
  BY <1>1, <1>3, <1>4 DEF NoIdleWhileQueued
<1>8. LoopInv'
  BY <1>1, <1>4, <1>5 DEF LoopInv
<1> QED
  BY <1>6, <1>7, <1>8, PoolInvParts, PTL

\* Its iteration starts a worker, idle only if nothing waits, or goes to place
\* the job for which the new worker was lost.
LEMMA PrestartWorkerKeepsInv ==
    ASSUME TypeOK, PoolInv, PrestartWorker \/ PrestartStillborn
    PROVE  PoolInv'
<1>1. pc = "prestart" /\ missing > 0 /\ missing' = missing - 1
  BY DEF PrestartWorker, PrestartStillborn
<1>2. after = "select" /\ (queue # <<>> => Idle = {})
  BY <1>1, OutsidePlaceJob
<1>3. PoolSize + missing <= CorePoolSize
  BY <1>1 DEF PoolInv, PoolBounds
<1>4. Len(queue') <= QueueCapacity
  BY QueueLengths, Sizes DEF PrestartWorker, PrestartStillborn, PoolInv, PoolBounds
<1>5. CASE PrestartWorker
  <2>1. PICK j \in Calls \cup {NoCall} :
          SpawnWorker(j) /\ (queue # <<>> => j # NoCall)
    BY <1>5, QueueType, NoCallIsNone DEF PrestartWorker
  <2>2. /\ PoolSize' = PoolSize + 1
        /\ queue # <<>> => Idle' = {}
        /\ minimum_workers' <= CorePoolSize
    BY <1>2, <2>1, SpawnGrows DEF PoolInv, PoolBounds
  <2>3. UNCHANGED <<pc, after>> /\ (queue = <<>> => queue' = <<>>)
    BY <1>5 DEF PrestartWorker
  <2>4. PoolBounds'
    BY <1>1, <1>3, <1>4, <2>2, Sizes DEF PoolBounds
  <2>5. NoIdleWhileQueued'
    BY <2>2, <2>3 DEF NoIdleWhileQueued
  <2>6. LoopInv'
    BY <1>1, <1>2, <2>3 DEF LoopInv
  <2> QED
    BY <2>4, <2>5, <2>6, PoolInvParts, PTL
<1>6. CASE PrestartStillborn
  <2>1. /\ PoolSize' = PoolSize /\ Idle' = Idle
        /\ minimum_workers' <= CorePoolSize
    BY <1>6, FailedSpawnChangesNothing DEF PrestartStillborn, PoolInv, PoolBounds
  <2>2. Idle = {} /\ pc' = "place" /\ after' = "prestart"
    BY <1>2, <1>6 DEF PrestartStillborn
  <2>3. PoolBounds'
    BY <1>1, <1>3, <1>4, <2>1, Sizes DEF PoolInv, PoolBounds
  <2>4. NoIdleWhileQueued'
    BY <2>1, <2>2 DEF NoIdleWhileQueued
  <2>5. LoopInv'
    BY <1>1, <1>3, <2>1, <2>2, Sizes DEF LoopInv
  <2> QED
    BY <2>3, <2>4, <2>5, PoolInvParts, PTL
<1> QED
  BY <1>5, <1>6

\* The pool closes with an empty queue and without workers.
LEMMA CloseKeepsInv ==
    ASSUME TypeOK, PoolInv, pc = "select", Close
    PROVE  PoolInv'
<1>1. after = "select" /\ missing = 0
  BY OutsidePlaceJob
<1>2. /\ queue' = <<>> /\ pc' = "closed"
      /\ UNCHANGED <<after, missing, minimum_workers>>
  BY DEF Close
<1>3. PoolSize' \in Nat /\ PoolSize' <= PoolSize
  BY RemoveShrinks DEF Close
<1>4. PoolBounds'
  BY <1>1, <1>2, <1>3, Sizes DEF PoolInv, PoolBounds
<1>5. NoIdleWhileQueued'
  BY <1>2 DEF NoIdleWhileQueued
<1>6. LoopInv'
  BY <1>1, <1>2 DEF LoopInv
<1> QED
  BY <1>4, <1>5, <1>6, PoolInvParts, PTL

LEMMA SubmitKeepsInv ==
    ASSUME TypeOK, PoolInv, HandleSubmit
    PROVE  PoolInv'
<1>1. /\ pc = "select" /\ pc' = "place"
      /\ UNCHANGED <<workers, queue, after, missing, minimum_workers>>
  BY DEF HandleSubmit, Receive
<1>2. after = "select" /\ missing = 0 /\ (queue # <<>> => Idle = {})
  BY <1>1, OutsidePlaceJob
<1>3. PoolSize' = PoolSize /\ Idle' = Idle
  BY <1>1 DEF PoolSize, Idle
<1>4. PoolBounds'
  BY <1>1, <1>3 DEF PoolInv, PoolBounds
<1>5. NoIdleWhileQueued'
  BY <1>1, <1>2, <1>3 DEF NoIdleWhileQueued
<1>6. LoopInv'
  BY <1>1, <1>2 DEF LoopInv
<1> QED
  BY <1>4, <1>5, <1>6, PoolInvParts, PTL

LEMMA CommandKeepsInv == TypeOK /\ PoolInv /\ HandleCommand => PoolInv'
BY SubmitKeepsInv, PrestartKeepsInv, PrestartWorkerKeepsInv, CloseKeepsInv
   DEF HandleCommand, HandleShutdown, HandlesDropped

-----------------------------------------------------------------------------
(***************************************************************************)
(* Events, the drain of the queue and the restoring of the core.           *)
(***************************************************************************)

\* A Finished event makes at most its own worker idle, and the drain follows.
LEMMA EventKeepsInv ==
    ASSUME TypeOK, PoolInv, HandleWorkerEvent
    PROVE  PoolInv'
<1> DEFINE e == Head(events)
<1>1. /\ pc = "select"
      /\ UNCHANGED <<queue, after, missing, minimum_workers>>
  BY DEF HandleWorkerEvent, HandleFinished, HandleOneShotFinished,
         HandleStopped, Event
<1>2. after = "select" /\ missing = 0 /\ (queue # <<>> => Idle = {})
  BY <1>1, OutsidePlaceJob
<1>3. CASE HandleOneShotFinished
  BY <1>1, <1>3, Frame DEF HandleOneShotFinished
<1>4. CASE HandleFinished \/ HandleStopped
  <2>1. pc' = "drain"
    BY <1>4 DEF HandleFinished, HandleStopped
  <2>2. CASE RemoveWorkers({e.worker})
    <3>1. PoolSize' \in Nat /\ PoolSize' <= PoolSize /\ Idle' \subseteq Idle
      BY <2>2, RemoveShrinks
    <3>2. PoolBounds'
      BY <1>1, <1>2, <3>1, Sizes DEF PoolInv, PoolBounds
    <3>3. NoIdleWhileQueued'
      BY <1>1, <1>2, <3>1 DEF NoIdleWhileQueued
    <3>4. LoopInv'
      BY <1>1, <1>2 DEF LoopInv
    <3> QED
      BY <3>2, <3>3, <3>4, PoolInvParts, PTL
  <2>3. CASE workers' = [w \in DOMAIN workers |->
                            IF w = e.worker THEN NoCall ELSE workers[w]]
    <3>1. PoolSize' = PoolSize
      BY <2>3 DEF PoolSize
    <3>2. Idle' \subseteq Idle \cup {e.worker}
      BY <2>3 DEF Idle
    <3>3. PoolBounds'
      BY <1>1, <3>1 DEF PoolInv, PoolBounds
    <3>4. NoIdleWhileQueued'
      BY <1>1, <1>2, <2>1, <3>2 DEF NoIdleWhileQueued
    <3>5. LoopInv'
      BY <1>1, <1>2 DEF LoopInv
    <3> QED
      BY <3>3, <3>4, <3>5, PoolInvParts, PTL
  <2> QED
    BY <1>4, <2>2, <2>3 DEF HandleFinished, HandleStopped
<1> QED
  BY <1>3, <1>4 DEF HandleWorkerEvent

\* The one idle worker there may be while jobs wait is the one the drain
\* dispatches to; without one it starts a worker only where there is room.
LEMMA DrainKeepsInv ==
    ASSUME TypeOK, PoolInv, DrainOneQueuedTask
    PROVE  PoolInv'
<1>1. pc = "drain" /\ missing' = missing
  BY DEF DrainOneQueuedTask, DrainToIdle, DrainToIdleFails, DrainToNew,
         DrainToStillborn, DrainSpawnFails, DrainNothing, DrainNeedsWorker
<1>2. after = "select" /\ missing = 0
  BY <1>1, OutsidePlaceJob
<1>3. CASE DrainToIdle \/ DrainToIdleFails
  <2>1. queue # <<>> /\ queue' = Tail(queue) /\ minimum_workers' = minimum_workers
    BY <1>3 DEF DrainToIdle, DrainToIdleFails
  <2>2. PICK w \in Idle : Dispatch(w, Head(queue)) \/ DispatchFails(w)
    BY <1>3 DEF DrainToIdle, DrainToIdleFails
  <2>3. Idle = {w}
    BY <2>1, <2>2 DEF PoolInv, NoIdleWhileQueued
  <2>4. PoolSize' \in Nat /\ PoolSize' <= PoolSize /\ Idle' = {}
    BY <2>1, <2>2, <2>3, QueueType, DispatchOccupies
  <2>5. PoolBounds'
    BY <1>1, <1>2, <2>1, <2>4, QueueLengths, Sizes DEF PoolInv, PoolBounds
  <2>6. NoIdleWhileQueued'
    BY <2>4 DEF NoIdleWhileQueued
  <2>7. LoopInv'
    BY <1>1, <1>2, <1>3 DEF LoopInv, DrainToIdle, DrainToIdleFails
  <2> QED
    BY <2>5, <2>6, <2>7, PoolInvParts, PTL
<1>4. CASE DrainToNew
  <2>1. /\ queue # <<>> /\ queue' = Tail(queue) /\ Idle = {}
        /\ PoolSize = 0 \/ PoolSize < CorePoolSize
        /\ SpawnWorker(Head(queue))
        /\ pc' = "restore" /\ after' = after
    BY <1>4 DEF DrainToNew, DrainNeedsWorker
  <2>2. /\ PoolSize' = PoolSize + 1 /\ Idle' = {}
        /\ minimum_workers' <= CorePoolSize
    BY <2>1, QueueType, NoCallIsNone, SpawnGrows DEF PoolInv, PoolBounds
  <2>3. PoolBounds'
    BY <1>1, <1>2, <2>1, <2>2, QueueLengths, Sizes DEF PoolInv, PoolBounds
  <2>4. NoIdleWhileQueued'
    BY <2>2 DEF NoIdleWhileQueued
  <2>5. LoopInv'
    BY <1>1, <1>2, <2>1 DEF LoopInv
  <2> QED
    BY <2>3, <2>4, <2>5, PoolInvParts, PTL
<1>5. CASE DrainToStillborn \/ DrainSpawnFails
  <2>1. /\ queue # <<>> /\ queue' \in {<<>>, Tail(queue)} /\ Idle = {}
        /\ pc' = "restore" /\ after' = after
    BY <1>5 DEF DrainToStillborn, DrainSpawnFails, DrainNeedsWorker
  <2>2. /\ PoolSize' = PoolSize /\ Idle' = Idle
        /\ minimum_workers' <= CorePoolSize
    BY <1>5, FailedSpawnChangesNothing
       DEF DrainToStillborn, DrainSpawnFails, PoolInv, PoolBounds
  <2>3. PoolBounds'
    BY <1>1, <1>2, <2>1, <2>2, QueueLengths, Sizes DEF PoolInv, PoolBounds
  <2>4. NoIdleWhileQueued'
    BY <2>1, <2>2 DEF NoIdleWhileQueued
  <2>5. LoopInv'
    BY <1>1, <1>2, <2>1 DEF LoopInv
  <2> QED
    BY <2>3, <2>4, <2>5, PoolInvParts, PTL
<1>6. CASE DrainNothing
  <2>1. /\ queue = <<>> \/ Idle = {}
        /\ UNCHANGED <<workers, queue, after, minimum_workers>>
    BY <1>6 DEF DrainNothing
  <2>2. PoolSize' = PoolSize /\ Idle' = Idle
    BY <2>1 DEF PoolSize, Idle
  <2>3. PoolBounds'
    BY <1>1, <2>1, <2>2 DEF PoolInv, PoolBounds
  <2>4. NoIdleWhileQueued'
    BY <2>1, <2>2 DEF NoIdleWhileQueued
  <2>5. LoopInv'
    BY <1>1, <1>2, <2>1 DEF LoopInv
  <2> QED
    BY <2>3, <2>4, <2>5, PoolInvParts, PTL
<1> QED
  BY <1>3, <1>4, <1>5, <1>6 DEF DrainOneQueuedTask

\* The core is restored up to minimum_workers, which is within it, and a new
\* worker gets the head of the queue.
LEMMA RestoreKeepsInv ==
    ASSUME TypeOK, PoolInv, RestoreCoreWorkers
    PROVE  PoolInv'
<1>1. /\ pc = "restore" /\ pc' \in {"restore", "select"}
      /\ UNCHANGED <<missing, after>>
  BY DEF RestoreCoreWorkers, RestoreWorker, RestoreStillborn, RestoreFails,
         RestoreDone
<1>2. after = "select" /\ missing = 0 /\ (queue # <<>> => Idle = {})
  BY <1>1, OutsidePlaceJob
<1>3. LoopInv'
  BY <1>1, <1>2 DEF LoopInv
<1>4. CASE RestoreWorker
  <2>1. PICK j \in Calls \cup {NoCall} :
          SpawnWorker(j) /\ (queue # <<>> => j # NoCall)
    BY <1>4, QueueType, NoCallIsNone DEF RestoreWorker
  <2>2. /\ PoolSize' = PoolSize + 1
        /\ queue # <<>> => Idle' = {}
        /\ minimum_workers' <= CorePoolSize
    BY <1>2, <2>1, SpawnGrows DEF PoolInv, PoolBounds
  <2>3. PoolSize < minimum_workers /\ queue' \in {queue, Tail(queue)}
        /\ (queue = <<>> => queue' = <<>>)
    BY <1>4 DEF RestoreWorker
  <2>4. Len(queue') <= QueueCapacity
    BY <2>3, QueueLengths, Sizes DEF PoolInv, PoolBounds
  <2>5. PoolBounds'
    BY <1>1, <1>2, <2>2, <2>3, <2>4, Sizes DEF PoolInv, PoolBounds
  <2>6. NoIdleWhileQueued'
    BY <2>2, <2>3 DEF NoIdleWhileQueued
  <2> QED
    BY <1>3, <2>5, <2>6, PoolInvParts, PTL
<1>5. CASE RestoreStillborn \/ RestoreFails
  <2>1. \/ queue' = <<>> \/ queue' = queue
        \/ queue # <<>> /\ queue' = Tail(queue)
    BY <1>5 DEF RestoreStillborn, RestoreFails
  <2>2. /\ PoolSize' = PoolSize /\ Idle' = Idle
        /\ minimum_workers' <= CorePoolSize
    BY <1>5, FailedSpawnChangesNothing
       DEF RestoreStillborn, RestoreFails, PoolInv, PoolBounds
  <2>3. Len(queue') <= QueueCapacity
    BY <2>1, QueueLengths, Sizes DEF PoolInv, PoolBounds
  <2>4. PoolBounds'
    BY <1>1, <1>2, <2>2, <2>3, Sizes DEF PoolInv, PoolBounds
  <2>5. NoIdleWhileQueued'
    BY <1>2, <2>1, <2>2 DEF NoIdleWhileQueued
  <2> QED
    BY <1>3, <2>4, <2>5, PoolInvParts, PTL
<1>6. CASE RestoreDone
  <2>1. UNCHANGED <<workers, queue, minimum_workers>>
    BY <1>6 DEF RestoreDone
  <2>2. PoolSize' = PoolSize /\ Idle' = Idle
    BY <2>1 DEF PoolSize, Idle
  <2>3. PoolBounds'
    BY <1>1, <2>1, <2>2 DEF PoolInv, PoolBounds
  <2>4. NoIdleWhileQueued'
    BY <1>2, <2>1, <2>2 DEF NoIdleWhileQueued
  <2> QED
    BY <1>3, <2>3, <2>4, PoolInvParts, PTL
<1> QED
  BY <1>4, <1>5, <1>6 DEF RestoreCoreWorkers

\* Workers are retired only while nothing waits.
LEMMA RetireKeepsInv ==
    ASSUME TypeOK, PoolInv, RetireIdleWorkers
    PROVE  PoolInv'
<1>1. PICK R : RemoveWorkers(R)
  BY DEF RetireIdleWorkers
<1>2. /\ queue = <<>> /\ pc = "select"
      /\ UNCHANGED <<queue, pc, after, missing, minimum_workers>>
  BY DEF RetireIdleWorkers
<1>3. PoolSize' \in Nat /\ PoolSize' <= PoolSize
  BY <1>1, RemoveShrinks
<1>4. after = "select" /\ missing = 0
  BY <1>2, OutsidePlaceJob
<1>5. PoolBounds'
  BY <1>2, <1>3, <1>4, Sizes DEF PoolInv, PoolBounds
<1>6. NoIdleWhileQueued'
  BY <1>2 DEF NoIdleWhileQueued
<1>7. LoopInv'
  BY <1>2, <1>4 DEF LoopInv
<1> QED
  BY <1>5, <1>6, <1>7, PoolInvParts, PTL

-----------------------------------------------------------------------------
(***************************************************************************)
(* The other tasks touch nothing the invariant speaks of.                  *)
(***************************************************************************)

LEMMA OthersKeepInv ==
    ASSUME PoolInv,
           \/ ClientStep
           \/ \E w \in DOMAIN tasks : WorkerStep(w) \/ ChildExits(w)
           \/ \E j \in Calls : OneShotStep(j)
           \/ UNCHANGED vars
    PROVE  PoolInv'
<1> USE DEF supervisorVars
<1>1. CASE ClientStep
  <2>1. UNCHANGED <<workers, queue, pc, after, missing, minimum_workers>>
    BY <1>1 DEF ClientStep, Execute, Prestart, Shutdown, DropHandles
  <2> QED
    BY <2>1, Frame
<1>2. CASE \E w \in DOMAIN tasks : WorkerStep(w) \/ ChildExits(w)
  <2>1. UNCHANGED <<workers, queue, pc, after, missing, minimum_workers>>
    BY <1>2 DEF WorkerStep, TakeJob, NoticeExit, InboxClosed, Exchange,
                KillChild, Cancel, ChildExits
  <2> QED
    BY <2>1, Frame
<1>3. CASE \E j \in Calls : OneShotStep(j)
  <2>1. UNCHANGED <<workers, queue, pc, after, missing, minimum_workers>>
    BY <1>3 DEF OneShotStep, OneShotEnds
  <2> QED
    BY <2>1, Frame
<1>4. CASE UNCHANGED vars
  <2>1. UNCHANGED <<workers, queue, pc, after, missing, minimum_workers>>
    BY <1>4 DEF vars
  <2> QED
    BY <2>1, Frame
<1> QED
  BY <1>1, <1>2, <1>3, <1>4

LEMMA InvInit == Init => PoolInv
<1> SUFFICES ASSUME Init PROVE PoolInv
  OBVIOUS
<1>1. TypeOK
  BY TypeInit
<1>2. PoolSize = 0
  BY FS_EmptySet DEF Init, PoolSize
<1>3. PoolBounds
  BY <1>2, ConfigAssumption DEF Init, PoolBounds
<1> QED
  BY <1>3 DEF Init, PoolInv, NoIdleWhileQueued

LEMMA InvStep == TypeOK /\ PoolInv /\ [Next]_vars => PoolInv'
<1> SUFFICES ASSUME TypeOK, PoolInv, [Next]_vars PROVE PoolInv'
  OBVIOUS
<1>1. CASE SupervisorStep
  BY <1>1, CommandKeepsInv, PlaceJobKeepsInv, EventKeepsInv, DrainKeepsInv,
     RestoreKeepsInv, RetireKeepsInv DEF SupervisorStep
<1>2. CASE ~SupervisorStep
  BY <1>2, OthersKeepInv DEF Next, Quiescent
<1> QED
  BY <1>1, <1>2

\* PoolInv holds of every reachable state.
THEOREM PoolInvCorrect == Spec => []PoolInv
<1>1. Init => TypeOK /\ PoolInv
  BY TypeInit, InvInit
<1>2. TypeOK /\ PoolInv /\ [Next]_vars => (TypeOK /\ PoolInv)'
  BY TypeStep, InvStep
<1> QED
  BY <1>1, <1>2, PTL DEF Spec

\* The pool never has more workers than maximum_pool_size, its queue is never
\* longer than its capacity, and the core it keeps up is never larger than
\* core_pool_size, by whichever path workers are started and jobs queued.
THEOREM PoolBoundsCorrect == Spec => []PoolBounds
<1>1. PoolInv => PoolBounds
  BY DEF PoolInv
<1> QED
  BY <1>1, PoolInvCorrect, PTL

\* A job waits in the queue only while no worker is idle, but for the one that
\* the supervisor is just about to dispatch to.
THEOREM QueuedMeansBusy == Spec => []NoIdleWhileQueued
<1>1. PoolInv => NoIdleWhileQueued
  BY DEF PoolInv
<1> QED
  BY <1>1, PoolInvCorrect, PTL

-------------------------------------------------------------------------------
(***************************************************************************)
(* The tasks.  Whichever handler takes a worker out of the map also aborts *)
(* its task, and no task comes into being without a slot.                  *)
(***************************************************************************)

\* Task v is in the map of slots, or is being stopped.
Kept(v) == v \in DOMAIN workers \/ tasks[v].abort

LEMMA KeptMeansNoLeak == NoLeakedProcess <=> \A v \in DOMAIN tasks : Kept(v)
BY DEF NoLeakedProcess, Kept

\* The ids of the slots stay, and the tasks with them.
LEMMA SlotFrame ==
    ASSUME NoLeakedProcess, DOMAIN workers' = DOMAIN workers, UNCHANGED tasks
    PROVE  NoLeakedProcess'
BY DEF NoLeakedProcess

LEMMA RemoveAborts ==
    ASSUME TypeOK, NoLeakedProcess, NEW S, RemoveWorkers(S)
    PROVE  NoLeakedProcess'
<1>1. /\ workers' = [v \in DOMAIN workers \ S |-> workers[v]]
      /\ tasks' = [v \in DOMAIN tasks |->
                      [tasks[v] EXCEPT !.abort = @ \/ v \in S]]
  BY DEF RemoveWorkers, Without
<1>2. ASSUME NEW v \in DOMAIN tasks'
      PROVE  Kept(v)'
  <2>1. v \in DOMAIN tasks /\ tasks[v] \in Tasks
    BY <1>1, <1>2 DEF TypeOK
  <2>2. tasks'[v] = [tasks[v] EXCEPT !.abort = tasks[v].abort \/ v \in S]
    BY <1>1, <2>1
  <2>3. ASSUME NEW t \in Tasks, NEW b
        PROVE  [t EXCEPT !.abort = b].abort = b
    BY DEF Tasks
  <2>4. tasks'[v].abort = (tasks[v].abort \/ v \in S)
    BY <2>1, <2>2, <2>3
  <2>5. Kept(v)
    BY <2>1, KeptMeansNoLeak
  <2>6. CASE v \in S \/ tasks[v].abort
    BY <2>4, <2>6, Zenon DEF Kept
  <2>7. CASE v \in DOMAIN workers \ S
    <3>1. v \in DOMAIN workers'
      BY <1>1, <2>7
    <3> QED
      BY <3>1 DEF Kept
  <2> QED
    BY <2>5, <2>6, <2>7 DEF Kept
<1> QED
  BY <1>2 DEF NoLeakedProcess, Kept

LEMMA DispatchKeepsTasks ==
    ASSUME TypeOK, NoLeakedProcess, NEW w \in Idle, NEW j \in Calls, Dispatch(w, j)
    PROVE  NoLeakedProcess'
<1>1. DOMAIN workers' = DOMAIN workers /\ DOMAIN tasks' = DOMAIN tasks
  BY DispatchKeepsSlots
<1>2. ASSUME NEW v \in DOMAIN tasks
      PROVE  tasks'[v].abort = tasks[v].abort
  <2>1. tasks[v] \in Tasks
    BY DEF TypeOK
  <2> QED
    BY <2>1 DEF Dispatch, Tasks
<1> QED
  BY <1>1, <1>2 DEF NoLeakedProcess

LEMMA SpawnMakesSlot ==
    ASSUME TypeOK, NoLeakedProcess, NEW j \in Calls \cup {NoCall}, SpawnWorker(j)
    PROVE  NoLeakedProcess'
BY DEF NoLeakedProcess, SpawnWorker, With

-----------------------------------------------------------------------------
\* What a step of the supervisor does to slots and tasks is one of four things.
LEMMA SupervisorSlots ==
    ASSUME TypeOK, SupervisorStep
    PROVE  \/ \E S : RemoveWorkers(S)
           \/ \E w \in Idle, j \in Calls : Dispatch(w, j)
           \/ \E j \in Calls \cup {NoCall} : SpawnWorker(j)
           \/ DOMAIN workers' = DOMAIN workers /\ UNCHANGED tasks
<1> USE DEF SpawnStillborn, SpawnFails
<1>1. CASE HandleCommand
  <2>1. CASE HandleShutdown \/ HandlesDropped
    BY <2>1 DEF HandleShutdown, HandlesDropped, Close
  <2>2. CASE PrestartWorker
    BY <2>2, QueueType DEF PrestartWorker
  <2>3. CASE \/ HandleSubmit \/ HandlePrestart \/ PrestartStillborn
             \/ PrestartFails \/ PrestartDone
    BY <2>3 DEF HandleSubmit, HandlePrestart, PrestartStillborn, PrestartFails,
                PrestartDone
  <2> QED
    BY <1>1, <2>1, <2>2, <2>3 DEF HandleCommand
<1>2. CASE PlaceJob
  <2>1. Searching \/ MustStart => held \in Calls
    BY DEF Searching, MustStart, Saturated, TypeOK
  <2>2. CASE PlaceOnIdle
    BY <2>1, <2>2 DEF PlaceOnIdle
  <2>3. CASE PlaceOnIdleFails
    BY <2>3 DEF PlaceOnIdleFails, DispatchFails
  <2>4. CASE StartJob
    BY <2>1, <2>4 DEF StartJob
  <2>5. CASE StartJobFails \/ Enqueue \/ ApplyRejectionPolicy
    BY <2>5 DEF StartJobFails, Enqueue, ApplyRejectionPolicy
  <2> QED
    BY <1>2, <2>2, <2>3, <2>4, <2>5 DEF PlaceJob
<1>3. CASE HandleWorkerEvent
  <2>1. CASE HandleOneShotFinished \/ HandleStopped
    BY <2>1 DEF HandleOneShotFinished, HandleStopped
  <2>2. CASE HandleFinished
    BY <2>2 DEF HandleFinished
  <2> QED
    BY <1>3, <2>1, <2>2 DEF HandleWorkerEvent
<1>4. CASE DrainOneQueuedTask
  <2>1. CASE DrainToIdle
    BY <2>1, QueueType DEF DrainToIdle
  <2>2. CASE DrainToIdleFails
    BY <2>2 DEF DrainToIdleFails, DispatchFails
  <2>3. CASE DrainToNew
    BY <2>3, QueueType DEF DrainToNew, DrainNeedsWorker
  <2>4. CASE DrainToStillborn \/ DrainSpawnFails \/ DrainNothing
    BY <2>4 DEF DrainToStillborn, DrainSpawnFails, DrainNothing
  <2> QED
    BY <1>4, <2>1, <2>2, <2>3, <2>4 DEF DrainOneQueuedTask
<1>5. CASE RestoreCoreWorkers
  <2>1. CASE RestoreWorker
    BY <2>1, QueueType DEF RestoreWorker
  <2>2. CASE RestoreStillborn \/ RestoreFails \/ RestoreDone
    BY <2>2 DEF RestoreStillborn, RestoreFails, RestoreDone
  <2> QED
    BY <1>5, <2>1, <2>2 DEF RestoreCoreWorkers
<1>6. CASE RetireIdleWorkers
  BY <1>6 DEF RetireIdleWorkers
<1> QED
  BY <1>1, <1>2, <1>3, <1>4, <1>5, <1>6 DEF SupervisorStep

\* A worker task never takes back an abort, nor touches a slot.
LEMMA TaskStepKeepsAbort ==
    ASSUME TypeOK, NoLeakedProcess, NEW w \in DOMAIN tasks,
           WorkerStep(w) \/ ChildExits(w)
    PROVE  NoLeakedProcess'
<1> USE DEF supervisorVars
<1>1. workers' = workers
  BY DEF WorkerStep, TakeJob, NoticeExit, InboxClosed, Exchange, KillChild,
         Cancel, ChildExits
<1>2. \A v \in DOMAIN tasks : tasks[v] \in Tasks
  BY DEF TypeOK
<1>3. CASE End(w)
  BY <1>1, <1>3 DEF End, Without, NoLeakedProcess
<1>4. CASE ~End(w)
  <2>1. CASE TakeJob(w)
    BY <1>1, <1>2, <2>1 DEF TakeJob, Tasks, NoLeakedProcess
  <2>2. CASE InboxClosed(w)
    BY <1>1, <1>2, <2>2 DEF InboxClosed, Tasks, NoLeakedProcess
  <2>3. CASE \E o \in Outcomes : Exchange(w, o)
    BY <1>1, <1>2, <2>3 DEF Exchange, Tasks, NoLeakedProcess
  <2>4. CASE ChildExits(w)
    BY <1>1, <1>2, <2>4 DEF ChildExits, Tasks, NoLeakedProcess
  <2> QED
    BY <1>4, <2>1, <2>2, <2>3, <2>4 DEF WorkerStep, NoticeExit, KillChild, Cancel
<1> QED
  BY <1>3, <1>4

LEMMA LeakStep == TypeOK /\ NoLeakedProcess /\ [Next]_vars => NoLeakedProcess'
<1> SUFFICES ASSUME TypeOK, NoLeakedProcess, [Next]_vars PROVE NoLeakedProcess'
  OBVIOUS
<1>1. CASE SupervisorStep
  BY <1>1, SupervisorSlots, RemoveAborts, DispatchKeepsTasks, SpawnMakesSlot,
     SlotFrame
<1>2. CASE \E w \in DOMAIN tasks : WorkerStep(w) \/ ChildExits(w)
  BY <1>2, TaskStepKeepsAbort
<1>3. CASE ClientStep
  BY <1>3, SlotFrame
     DEF ClientStep, Execute, Prestart, Shutdown, DropHandles, supervisorVars
<1>4. CASE \E j \in Calls : OneShotStep(j)
  BY <1>4, SlotFrame DEF OneShotStep, OneShotEnds, supervisorVars
<1>5. CASE Quiescent \/ UNCHANGED vars
  BY <1>5, SlotFrame DEF Quiescent, vars
<1> QED
  BY <1>1, <1>2, <1>3, <1>4, <1>5 DEF Next

\* A task whose worker is not in the map any more has been aborted: retirement,
\* a failed exchange, a failed dispatch and the shutdown leave no process
\* behind that the pool has forgotten.
THEOREM NoProcessLeaks == Spec => []NoLeakedProcess
<1>1. Init => TypeOK /\ NoLeakedProcess
  BY TypeInit DEF Init, NoLeakedProcess
<1>2. TypeOK /\ NoLeakedProcess /\ [Next]_vars => (TypeOK /\ NoLeakedProcess)'
  BY TypeStep, LeakStep
<1> QED
  BY <1>1, <1>2, PTL DEF Spec

-------------------------------------------------------------------------------
(***************************************************************************)
(* Part 2.  The jobs.                                                      *)
(***************************************************************************)

(***************************************************************************)
(* Where the jobs are.                                                     *)
(***************************************************************************)
Waiting == {j \in Calls : answer[j] = "waiting"}
InCommands == Carried(commands)
InEvents == Carried(events)
InQueue == Range(queue)
InHand == {held} \ {NoCall}
InTasks == UNION {Owned(w) : w \in DOMAIN tasks}

\* The calls that wait are those whose job is somewhere, and no job is in two
\* of the places.
JobsApart ==
    /\ Waiting = InCommands \cup InEvents \cup InQueue \cup InHand \cup oneshots \cup InTasks
    /\ InCommands \cap (InEvents \cup InQueue \cup InHand \cup oneshots \cup InTasks) = {}
    /\ InEvents \cap (InQueue \cup InHand \cup oneshots \cup InTasks) = {}
    /\ InQueue \cap (InHand \cup oneshots \cup InTasks) = {}
    /\ InHand \cap (oneshots \cup InTasks) = {}
    /\ oneshots \cap InTasks = {}

\* A channel carries no job twice.
Once(channel) ==
    \A i, k \in DOMAIN channel :
        channel[i].call # NoCall /\ channel[i].call = channel[k].call => i = k

SentOnce == Once(commands) /\ Once(events) /\ IsInjective(queue)

\* A job belongs to one worker, and a worker has one: in its inbox or taken.
OwnedOnce == \A v, w \in DOMAIN tasks : Owned(v) \cap Owned(w) # {} => v = w
TaskShape ==
    \A w \in DOMAIN tasks : tasks[w].inbox # <<>> =>
        Len(tasks[w].inbox) = 1 /\ tasks[w].call = NoCall

-----------------------------------------------------------------------------
(***************************************************************************)
(* Facts about channels and the queue.                                     *)
(***************************************************************************)
LEMMA ChannelGrows ==
    ASSUME NEW M, NEW s \in Seq(M), NEW m \in M
    PROVE  /\ Carried(Append(s, m)) = Carried(s) \cup ({m.call} \ {NoCall})
           /\ Once(s) /\ m.call \notin Carried(s) => Once(Append(s, m))
<1>1. /\ DOMAIN Append(s, m) = DOMAIN s \cup {Len(s) + 1}
      /\ Len(s) + 1 \notin DOMAIN s
      /\ \A i \in DOMAIN s : Append(s, m)[i] = s[i]
      /\ Append(s, m)[Len(s) + 1] = m
  OBVIOUS
<1>2. ASSUME Once(s), m.call \notin Carried(s),
             NEW i \in DOMAIN Append(s, m), NEW k \in DOMAIN Append(s, m),
             Append(s, m)[i].call # NoCall,
             Append(s, m)[i].call = Append(s, m)[k].call
      PROVE  i = k
  <2>1. \A n \in DOMAIN s : s[n].call # NoCall => s[n].call \in Carried(s)
    BY DEF Carried
  <2> QED
    BY <1>1, <1>2, <2>1 DEF Once
<1> QED
  BY <1>1, <1>2 DEF Carried, Once

LEMMA ChannelShrinks ==
    ASSUME NEW M, NEW s \in Seq(M), s # <<>>
    PROVE  /\ Head(s).call # NoCall => Head(s).call \in Carried(s)
           /\ Carried(s) = Carried(Tail(s)) \cup ({Head(s).call} \ {NoCall})
           /\ Once(s) => /\ Once(Tail(s))
                         /\ Carried(Tail(s)) = Carried(s) \ {Head(s).call}
<1>1. /\ 1 \in DOMAIN s /\ Head(s) = s[1]
      /\ \A i \in DOMAIN Tail(s) : i + 1 \in DOMAIN s /\ i + 1 # 1 /\ Tail(s)[i] = s[i + 1]
      /\ \A i \in DOMAIN s : i = 1 \/ (i - 1 \in DOMAIN Tail(s) /\ Tail(s)[i - 1] = s[i])
      /\ DOMAIN s \subseteq Nat /\ DOMAIN Tail(s) \subseteq Nat
  OBVIOUS
<1>2. Carried(s) = Carried(Tail(s)) \cup ({Head(s).call} \ {NoCall})
  <2>1. ASSUME NEW x \in Carried(s), x # Head(s).call
        PROVE  x \in Carried(Tail(s))
    <3>1. PICK i \in DOMAIN s : s[i].call = x /\ x # NoCall
      BY <2>1 DEF Carried
    <3>2. i - 1 \in DOMAIN Tail(s) /\ Tail(s)[i - 1] = s[i]
      BY <1>1, <2>1, <3>1
    <3> QED
      BY <3>1, <3>2 DEF Carried
  <2>2. ASSUME NEW x \in Carried(Tail(s))
        PROVE  x \in Carried(s)
    <3>1. PICK i \in DOMAIN Tail(s) : Tail(s)[i].call = x /\ x # NoCall
      BY <2>2 DEF Carried
    <3>2. i + 1 \in DOMAIN s /\ s[i + 1].call = x
      BY <1>1, <3>1
    <3> QED
      BY <3>1, <3>2 DEF Carried
  <2>3. Head(s).call # NoCall => Head(s).call \in Carried(s)
    BY <1>1 DEF Carried
  <2>4. NoCall \notin Carried(s)
    BY DEF Carried
  <2> QED
    BY <2>1, <2>2, <2>3, <2>4
<1>3. ASSUME Once(s)
      PROVE  Once(Tail(s)) /\ Head(s).call \notin Carried(Tail(s))
  <2>1. ASSUME NEW i \in DOMAIN Tail(s), NEW k \in DOMAIN Tail(s),
               Tail(s)[i].call # NoCall, Tail(s)[i].call = Tail(s)[k].call
        PROVE  i = k
    <3>1. i + 1 = k + 1
      BY <1>1, <1>3, <2>1 DEF Once
    <3> QED
      BY <1>1, <3>1
  <2>2. \A i \in DOMAIN Tail(s) : Tail(s)[i].call # NoCall => Tail(s)[i].call # Head(s).call
    BY <1>1, <1>3 DEF Once
  <2> QED
    BY <2>1, <2>2 DEF Once, Carried
<1> QED
  BY <1>1, <1>2, <1>3 DEF Carried

LEMMA RangeBound == ASSUME NEW Jobs, NEW s \in Seq(Jobs) PROVE Range(s) \subseteq Jobs
BY DEF Range

LEMMA RangeGrows ==
    ASSUME NEW Jobs, NEW s \in Seq(Jobs), NEW j \in Jobs
    PROVE  /\ Range(Append(s, j)) = Range(s) \cup {j}
           /\ IsInjective(s) /\ j \notin Range(s) => IsInjective(Append(s, j))
<1>1. /\ DOMAIN Append(s, j) = DOMAIN s \cup {Len(s) + 1}
      /\ Len(s) + 1 \notin DOMAIN s
      /\ \A i \in DOMAIN s : Append(s, j)[i] = s[i]
      /\ Append(s, j)[Len(s) + 1] = j
  OBVIOUS
<1> QED
  BY <1>1 DEF Range, IsInjective

LEMMA RangeShrinks ==
    ASSUME NEW Jobs, NEW s \in Seq(Jobs), s # <<>>
    PROVE  /\ Head(s) \in Range(s) /\ Head(s) \in Jobs
           /\ Tail(s) \in Seq(Jobs)
           /\ Range(s) = Range(Tail(s)) \cup {Head(s)}
           /\ IsInjective(s) => /\ IsInjective(Tail(s))
                                /\ Range(Tail(s)) = Range(s) \ {Head(s)}
<1>1. /\ 1 \in DOMAIN s /\ Head(s) = s[1] /\ Head(s) \in Jobs
      /\ \A i \in DOMAIN Tail(s) : i + 1 \in DOMAIN s /\ i + 1 # 1 /\ Tail(s)[i] = s[i + 1]
      /\ \A i \in DOMAIN s : i = 1 \/ (i - 1 \in DOMAIN Tail(s) /\ Tail(s)[i - 1] = s[i])
      /\ DOMAIN s \subseteq Nat /\ DOMAIN Tail(s) \subseteq Nat
      /\ Tail(s) \in Seq(Jobs)
  OBVIOUS
<1>2. Range(s) = Range(Tail(s)) \cup {Head(s)}
  <2>1. ASSUME NEW x \in Range(s), x # Head(s)
        PROVE  x \in Range(Tail(s))
    <3>1. PICK i \in DOMAIN s : s[i] = x
      BY <2>1 DEF Range
    <3>2. i - 1 \in DOMAIN Tail(s) /\ Tail(s)[i - 1] = x
      BY <1>1, <2>1, <3>1
    <3> QED
      BY <3>2 DEF Range
  <2>2. ASSUME NEW x \in Range(Tail(s))
        PROVE  x \in Range(s)
    <3>1. PICK i \in DOMAIN Tail(s) : Tail(s)[i] = x
      BY <2>2 DEF Range
    <3>2. i + 1 \in DOMAIN s /\ s[i + 1] = x
      BY <1>1, <3>1
    <3> QED
      BY <3>2 DEF Range
  <2>3. Head(s) \in Range(s)
    BY <1>1 DEF Range
  <2> QED
    BY <2>1, <2>2, <2>3
<1>3. ASSUME IsInjective(s)
      PROVE  IsInjective(Tail(s)) /\ Head(s) \notin Range(Tail(s))
  <2>1. ASSUME NEW i \in DOMAIN Tail(s), NEW k \in DOMAIN Tail(s), Tail(s)[i] = Tail(s)[k]
        PROVE  i = k
    <3>1. i + 1 = k + 1
      BY <1>1, <1>3, <2>1 DEF IsInjective
    <3> QED
      BY <1>1, <3>1
  <2> QED
    BY <1>1, <1>3, <2>1 DEF IsInjective, Range
<1>4. Head(s) \in Range(s)
  BY <1>2
<1>5. IsInjective(s) => Range(Tail(s)) = Range(s) \ {Head(s)}
  BY <1>2, <1>3
<1> QED
  BY <1>1, <1>2, <1>3, <1>4, <1>5

-----------------------------------------------------------------------------
(***************************************************************************)
(* What the steps do to the jobs of the workers.                           *)
(***************************************************************************)
Inboxes == UNION {Range(tasks[w].inbox) : w \in DOMAIN tasks}

\* The jobs of the workers stay where they are.
JobsStay ==
    /\ DOMAIN tasks' = DOMAIN tasks
    /\ \A w \in DOMAIN tasks : tasks'[w].inbox = tasks[w].inbox /\ tasks'[w].call = tasks[w].call

LEMMA TaskRecords ==
    ASSUME TypeOK, NEW w \in DOMAIN tasks
    PROVE  /\ tasks[w] \in Tasks
           /\ tasks[w].inbox \in Seq(Calls)
           /\ tasks[w].call \in Calls \cup {NoCall}
           /\ tasks[w].at # "exchange" => tasks[w].call = NoCall
           /\ tasks[w].at = "exchange" => tasks[w].call \in Calls
           /\ Owned(w) \subseteq Calls
<1>1. tasks[w] \in Tasks
  BY DEF TypeOK
<1>2. /\ tasks[w].inbox \in Seq(Calls)
      /\ tasks[w].call \in Calls \cup {NoCall}
      /\ tasks[w].at # "exchange" => tasks[w].call = NoCall
      /\ tasks[w].at = "exchange" => tasks[w].call \in Calls
  BY <1>1 DEF Tasks
<1> QED
  BY <1>1, <1>2, RangeBound DEF Owned

LEMMA StayingJobs ==
    ASSUME OwnedOnce, TaskShape, JobsStay
    PROVE  /\ OwnedOnce' /\ TaskShape' /\ InTasks' = InTasks /\ Inboxes' = Inboxes
           /\ \A w \in DOMAIN tasks : Owned(w)' = Owned(w)
<1>1. \A w \in DOMAIN tasks : Owned(w)' = Owned(w)
  BY DEF JobsStay, Owned
<1> QED
  BY <1>1 DEF JobsStay, OwnedOnce, TaskShape, InTasks, Inboxes

LEMMA RemoveStays ==
    ASSUME TypeOK, NEW S, RemoveWorkers(S)
    PROVE  /\ JobsStay
           /\ \A w \in DOMAIN tasks : /\ tasks'[w].at = tasks[w].at
                                      /\ tasks'[w].abort <=> (tasks[w].abort \/ w \in S)
           /\ DOMAIN workers' = DOMAIN workers \ S
           /\ \A w \in DOMAIN workers' : workers'[w] = workers[w]
<1>1. /\ workers' = [w \in DOMAIN workers \ S |-> workers[w]]
      /\ tasks' = [w \in DOMAIN tasks |->
                      [tasks[w] EXCEPT !.abort = @ \/ w \in S]]
  BY DEF RemoveWorkers, Without
<1>2. ASSUME NEW t \in Tasks, NEW b
      PROVE  /\ [t EXCEPT !.abort = b].abort = b
             /\ [t EXCEPT !.abort = b].inbox = t.inbox
             /\ [t EXCEPT !.abort = b].call = t.call
             /\ [t EXCEPT !.abort = b].at = t.at
  BY DEF Tasks
<1>3. ASSUME NEW w \in DOMAIN tasks
      PROVE  /\ tasks'[w].inbox = tasks[w].inbox /\ tasks'[w].call = tasks[w].call
             /\ tasks'[w].at = tasks[w].at
             /\ tasks'[w].abort = (tasks[w].abort \/ w \in S)
  <2>1. tasks[w] \in Tasks
    BY TaskRecords
  <2>2. tasks'[w] = [tasks[w] EXCEPT !.abort = tasks[w].abort \/ w \in S]
    BY <1>1
  <2> QED
    BY <1>2, <2>1, <2>2
<1> QED
  BY <1>1, <1>3 DEF JobsStay

\* The worker w gets the job j, which no worker had, and had none itself.
LEMMA JobGiven ==
    ASSUME TypeOK, OwnedOnce, TaskShape, NEW w, NEW j \in Calls \ InTasks,
           DOMAIN tasks' = DOMAIN tasks \cup {w},
           w \in DOMAIN tasks => Owned(w) = {},
           tasks'[w].inbox = <<j>>, tasks'[w].call = NoCall,
           \A v \in DOMAIN tasks \ {w} : tasks'[v].inbox = tasks[v].inbox
                                         /\ tasks'[v].call = tasks[v].call
    PROVE  /\ OwnedOnce' /\ TaskShape' /\ InTasks' = InTasks \cup {j}
           /\ Inboxes' \subseteq Inboxes \cup {j}
           /\ Owned(w)' = {j}
           /\ \A v \in DOMAIN tasks \ {w} : Owned(v)' = Owned(v)
<1>1. Range(<<j>>) = {j} /\ Len(<<j>>) = 1
  BY DEF Range
<1>2. Owned(w)' = {j}
  BY <1>1 DEF Owned
<1>3. \A v \in DOMAIN tasks \ {w} : Owned(v)' = Owned(v)
  BY DEF Owned
<1>4. OwnedOnce'
  <2>1. \A v \in DOMAIN tasks : j \notin Owned(v)
    BY DEF InTasks
  <2> QED
    BY <1>2, <1>3, <2>1 DEF OwnedOnce
<1>5. TaskShape'
  BY <1>1 DEF TaskShape
<1>6. InTasks' = InTasks \cup {j}
  BY <1>2, <1>3 DEF InTasks
<1>7. Inboxes' \subseteq Inboxes \cup {j}
  BY <1>1 DEF Inboxes
<1> QED
  BY <1>2, <1>3, <1>4, <1>5, <1>6, <1>7

LEMMA DispatchGives ==
    ASSUME TypeOK, OwnedOnce, TaskShape, NEW w \in Idle, NEW j \in Calls \ InTasks,
           Dispatch(w, j), Owned(w) = {}
    PROVE  /\ OwnedOnce' /\ TaskShape' /\ InTasks' = InTasks \cup {j}
           /\ Inboxes' \subseteq Inboxes \cup {j}
           /\ Owned(w)' = {j}
           /\ \A v \in DOMAIN tasks \ {w} : Owned(v)' = Owned(v)
           /\ w \in DOMAIN tasks /\ DOMAIN tasks' = DOMAIN tasks
           /\ \A v \in DOMAIN tasks : tasks'[v].at = tasks[v].at /\ tasks'[v].abort = tasks[v].abort
           /\ w \in DOMAIN workers /\ workers' = [workers EXCEPT ![w] = j]
<1>1. w \in DOMAIN tasks /\ tasks' = [tasks EXCEPT ![w].inbox = Append(@, j)]
  BY DEF Dispatch, Receives
<1>2. \A v \in DOMAIN tasks : tasks[v] \in Tasks /\ tasks[v].inbox \in Seq(Calls)
  BY TaskRecords
<1>3. tasks[w].inbox = <<>> /\ tasks[w].call = NoCall
  <2>1. tasks[w].inbox # <<>> => Head(tasks[w].inbox) \in Owned(w)
    BY <1>1, <1>2, RangeShrinks DEF Owned
  <2> QED
    BY <1>1, <2>1 DEF Owned
<1>4. /\ tasks'[w].inbox = <<j>> /\ tasks'[w].call = NoCall
      /\ tasks'[w].at = tasks[w].at /\ tasks'[w].abort = tasks[w].abort
  BY <1>1, <1>2, <1>3 DEF Tasks
<1>5. \A v \in DOMAIN tasks \ {w} : tasks'[v] = tasks[v]
  BY <1>1
<1>6. DOMAIN tasks' = DOMAIN tasks \cup {w}
  BY <1>1
<1>7. w \in DOMAIN workers /\ workers' = [workers EXCEPT ![w] = j]
  BY DEF Dispatch, Idle
<1> QED
  BY <1>1, <1>4, <1>5, <1>6, <1>7, JobGiven

\* A new worker owns the job it was started for.
LEMMA SpawnGives ==
    ASSUME TypeOK, OwnedOnce, TaskShape,
           NEW j \in (Calls \cup {NoCall}) \ InTasks, SpawnWorker(j),
           NEW w, w = next_worker_id
    PROVE  /\ OwnedOnce' /\ TaskShape' /\ InTasks' = InTasks \cup ({j} \ {NoCall})
           /\ Inboxes' \subseteq Inboxes \cup ({j} \ {NoCall})
           /\ Owned(w)' = {j} \ {NoCall}
           /\ \A v \in DOMAIN tasks : Owned(v)' = Owned(v)
           /\ w \notin DOMAIN tasks \cup DOMAIN workers
           /\ DOMAIN tasks' = DOMAIN tasks \cup {w}
           /\ \A v \in DOMAIN tasks : tasks'[v] = tasks[v]
           /\ tasks'[w].at = "select" /\ ~tasks'[w].abort
           /\ DOMAIN workers' = DOMAIN workers \cup {w}
           /\ workers'[w] = j
           /\ \A v \in DOMAIN workers : workers'[v] = workers[v]
<1>1. w \notin DOMAIN tasks \cup DOMAIN workers
  BY DEF TypeOK
<1>2. /\ DOMAIN tasks' = DOMAIN tasks \cup {w}
      /\ tasks'[w] = NewTask(IF j = NoCall THEN <<>> ELSE <<j>>)
      /\ \A v \in DOMAIN tasks : tasks'[v] = tasks[v]
      /\ DOMAIN workers' = DOMAIN workers \cup {w}
      /\ workers'[w] = j
      /\ \A v \in DOMAIN workers : workers'[v] = workers[v]
  BY <1>1 DEF SpawnWorker, With
<1>3. /\ tasks'[w].at = "select" /\ ~tasks'[w].abort
      /\ tasks'[w].call = NoCall
      /\ tasks'[w].inbox = IF j = NoCall THEN <<>> ELSE <<j>>
  BY <1>2 DEF NewTask
<1>4. CASE j # NoCall
  <2>1. j \in Calls \ InTasks
    BY <1>4
  <2> QED
    BY <1>1, <1>2, <1>3, <1>4, <2>1, JobGiven
<1>5. CASE j = NoCall
  <2>1. Range(<<>>) = {}
    BY DEF Range
  <2>2. Owned(w)' = {}
    BY <1>3, <1>5, <2>1 DEF Owned
  <2>3. \A v \in DOMAIN tasks : Owned(v)' = Owned(v)
    BY <1>2 DEF Owned
  <2>4. OwnedOnce' /\ InTasks' = InTasks
    BY <1>2, <2>2, <2>3 DEF OwnedOnce, InTasks
  <2>5. TaskShape'
    BY <1>2, <1>3, <1>5 DEF TaskShape
  <2>6. Inboxes' = Inboxes
    BY <1>2, <1>3, <1>5, <2>1 DEF Inboxes
  <2> QED
    BY <1>1, <1>2, <1>3, <1>5, <2>2, <2>3, <2>4, <2>5, <2>6
<1> QED
  BY <1>4, <1>5

\* A task that ends takes its jobs along.
LEMMA EndTakesAlong ==
    ASSUME TypeOK, OwnedOnce, TaskShape, NEW w \in DOMAIN tasks, End(w)
    PROVE  /\ OwnedOnce' /\ TaskShape' /\ InTasks' = InTasks \ Owned(w)
           /\ Inboxes' \subseteq Inboxes
           /\ DOMAIN tasks' = DOMAIN tasks \ {w}
           /\ \A v \in DOMAIN tasks' : tasks'[v] = tasks[v] /\ Owned(v)' = Owned(v)
<1>1. tasks' = [v \in DOMAIN tasks \ {w} |-> tasks[v]]
  BY DEF End, Without
<1>2. \A v \in DOMAIN tasks' : tasks'[v] = tasks[v] /\ Owned(v)' = Owned(v)
  BY <1>1 DEF Owned
<1>3. OwnedOnce' /\ TaskShape'
  BY <1>1, <1>2 DEF OwnedOnce, TaskShape
<1>4. InTasks' = InTasks \ Owned(w)
  BY <1>1, <1>2 DEF InTasks, OwnedOnce
<1>5. Inboxes' \subseteq Inboxes
  BY <1>1 DEF Inboxes
<1> QED
  BY <1>1, <1>2, <1>3, <1>4, <1>5

\* A job that is taken stays the job of its worker.
LEMMA TakeKeepsOwned ==
    ASSUME TypeOK, OwnedOnce, TaskShape, NEW w \in DOMAIN tasks, TakeJob(w)
    PROVE  /\ OwnedOnce' /\ TaskShape' /\ InTasks' = InTasks /\ Inboxes' \subseteq Inboxes
           /\ DOMAIN tasks' = DOMAIN tasks
           /\ \A v \in DOMAIN tasks : Owned(v)' = Owned(v) /\ tasks'[v].abort = tasks[v].abort
           /\ tasks'[w].at = "exchange"
           /\ \A v \in DOMAIN tasks \ {w} : tasks'[v] = tasks[v]
<1>1. /\ tasks[w] \in Tasks /\ tasks[w].inbox \in Seq(Calls) /\ tasks[w].call = NoCall
      /\ tasks[w].inbox # <<>> /\ Len(tasks[w].inbox) = 1
  BY TaskRecords DEF TakeJob, TaskShape
<1>2. /\ tasks'[w].inbox = Tail(tasks[w].inbox) /\ tasks'[w].call = Head(tasks[w].inbox)
      /\ tasks'[w].abort = tasks[w].abort
      /\ tasks'[w].at = "exchange"
      /\ \A v \in DOMAIN tasks \ {w} : tasks'[v] = tasks[v]
      /\ DOMAIN tasks' = DOMAIN tasks
  BY <1>1 DEF TakeJob, Tasks
<1>3. Tail(tasks[w].inbox) = <<>> /\ Range(<<>>) = {}
  <2>1. /\ Tail(tasks[w].inbox) \in Seq(Calls)
        /\ Len(Tail(tasks[w].inbox)) = 0
    BY <1>1, HeadTailProperties
  <2>2. Tail(tasks[w].inbox) = <<>>
    BY <2>1, EmptySeq
  <2> QED
    BY <2>2 DEF Range
<1>4. Range(tasks[w].inbox) = {Head(tasks[w].inbox)} /\ Head(tasks[w].inbox) \in Calls
  <2>1. /\ Range(tasks[w].inbox) \subseteq Calls
        /\ Head(tasks[w].inbox) \in Range(tasks[w].inbox)
        /\ Range(tasks[w].inbox) = Range(Tail(tasks[w].inbox)) \cup {Head(tasks[w].inbox)}
    BY <1>1, RangeBound, RangeShrinks
  <2> QED
    BY <1>3, <2>1
<1>5. Owned(w)' = Owned(w)
  BY <1>1, <1>2, <1>3, <1>4, NoCallIsNone DEF Owned
<1>6. \A v \in DOMAIN tasks : Owned(v)' = Owned(v)
  BY <1>2, <1>5 DEF Owned
<1>7. OwnedOnce' /\ InTasks' = InTasks
  BY <1>2, <1>6 DEF OwnedOnce, InTasks
<1>8. TaskShape'
  BY <1>2, <1>3 DEF TaskShape
<1>9. Inboxes' \subseteq Inboxes
  BY <1>2, <1>3 DEF Inboxes
<1> QED
  BY <1>2, <1>6, <1>7, <1>8, <1>9

\* The end of an exchange takes the job away from its worker.
LEMMA ExchangeReleases ==
    ASSUME TypeOK, OwnedOnce, TaskShape, NEW w \in DOMAIN tasks, NEW o \in Outcomes,
           Exchange(w, o)
    PROVE  /\ OwnedOnce' /\ TaskShape' /\ InTasks' = InTasks \ {tasks[w].call}
           /\ Inboxes' = Inboxes
           /\ tasks[w].call \in Calls /\ Owned(w) = {tasks[w].call}
           /\ DOMAIN tasks' = DOMAIN tasks
           /\ Owned(w)' = {}
           /\ tasks'[w].abort = tasks[w].abort
           /\ tasks'[w].at = IF o \in Reusable /\ pc # "closed" THEN "select" ELSE "kill"
           /\ \A v \in DOMAIN tasks \ {w} : tasks'[v] = tasks[v] /\ Owned(v)' = Owned(v)
<1>1. /\ tasks[w] \in Tasks /\ tasks[w].inbox \in Seq(Calls) /\ tasks[w].call \in Calls
      /\ tasks[w].inbox = <<>>
  BY TaskRecords, NoCallIsNone DEF Exchange, TaskShape
<1>2. /\ tasks'[w].inbox = tasks[w].inbox /\ tasks'[w].call = NoCall
      /\ tasks'[w].abort = tasks[w].abort
      /\ tasks'[w].at = IF o \in Reusable /\ pc # "closed" THEN "select" ELSE "kill"
      /\ \A v \in DOMAIN tasks \ {w} : tasks'[v] = tasks[v]
      /\ DOMAIN tasks' = DOMAIN tasks
  BY <1>1 DEF Exchange, Tasks
<1>3. Range(<<>>) = {}
  BY DEF Range
<1>4. Owned(w) = {tasks[w].call} /\ Owned(w)' = {}
  BY <1>1, <1>2, <1>3, NoCallIsNone DEF Owned
<1>5. \A v \in DOMAIN tasks \ {w} : Owned(v)' = Owned(v)
  BY <1>2 DEF Owned
<1>6. OwnedOnce' /\ TaskShape'
  BY <1>1, <1>2, <1>4, <1>5 DEF OwnedOnce, TaskShape
<1>7. InTasks' = InTasks \ {tasks[w].call}
  BY <1>2, <1>4, <1>5 DEF InTasks, OwnedOnce
<1>8. Inboxes' = Inboxes
  BY <1>2 DEF Inboxes
<1> QED
  BY <1>1, <1>2, <1>4, <1>5, <1>6, <1>7, <1>8

-----------------------------------------------------------------------------
(***************************************************************************)
(* How the slots, the tasks and the events that are pending agree.         *)
(***************************************************************************)
Pending == Range(events)
Reports(kind, w) == \E e \in Pending : e.kind = kind /\ e.worker = w
Broke(w) == \E e \in Pending : e.kind = "finished" /\ e.worker = w /\ e.outcome \notin Reusable

\* A worker only has the job its slot tells of.
OwnedBySlot ==
    \A w \in DOMAIN tasks : Owned(w) # {} => w \in DOMAIN workers /\ Owned(w) = {workers[w]}
\* Only workers that have left the map are aborted.
AbortedAreOut == \A w \in DOMAIN tasks : tasks[w].abort => w \notin DOMAIN workers
\* A worker that leaves its loop while it has a slot has said so.
KilledSaidSo ==
    \A w \in DOMAIN tasks : tasks[w].at = "kill" /\ w \in DOMAIN workers => Broke(w)
\* The slot of a worker that has finished a job tells of this job until the event is handled.
FinishedAreBusy ==
    \A e \in Pending : e.kind = "finished" =>
        e.worker \in DOMAIN workers /\ workers[e.worker] = e.call
\* A slot whose task is gone will be removed.
GoneSaidSo == \A w \in DOMAIN workers \ DOMAIN tasks : Reports("stopped", w) \/ Broke(w)
\* A slot with a job has a worker with this job, or one that is done with it.
BusyHaveJobs ==
    \A w \in DOMAIN workers \cap DOMAIN tasks :
        workers[w] # NoCall => Owned(w) # {} \/ Reports("finished", w)
\* Stopped is the last word of a task.
StoppedAreGone ==
    \A e \in Pending : e.kind = "stopped" =>
        e.worker \in 1 .. (next_worker_id - 1) /\ e.worker \notin DOMAIN tasks
StoppedLast(channel) ==
    \A i, k \in DOMAIN channel :
        /\ channel[i].kind = "stopped" /\ channel[k].kind = "finished"
        /\ channel[i].worker = channel[k].worker
        => k < i

Agreement ==
    /\ OwnedBySlot /\ AbortedAreOut /\ KilledSaidSo /\ FinishedAreBusy
    /\ GoneSaidSo /\ BusyHaveJobs /\ StoppedAreGone /\ StoppedLast(events)

SlotsAgree == pc # "closed" => Agreement

JobInv == JobsApart /\ SentOnce /\ OwnedOnce /\ TaskShape /\ SlotsAgree

\* Events that are pending, and those at the ends of the channel.
LEMMA PendingEvents ==
    ASSUME TypeOK, NEW e \in Pending
    PROVE  /\ e \in Events
           /\ e.kind = "finished" => e.call \in Calls /\ e.call \in InEvents
<1>1. e \in Events
  BY RangeBound DEF Pending, TypeOK
<1>2. PICK i \in DOMAIN events : events[i] = e
  BY DEF Pending, Range
<1>3. e.kind = "finished" => e.call \in Calls
  BY <1>1 DEF Events
<1> QED
  BY <1>1, <1>2, <1>3, NoCallIsNone DEF InEvents, Carried

LEMMA EventSent ==
    ASSUME TypeOK, NEW e \in Events
    PROVE  Range(Append(events, e)) = Pending \cup {e}
BY RangeGrows DEF Pending, TypeOK

LEMMA EventTaken ==
    ASSUME TypeOK, events # <<>>
    PROVE  /\ Head(events) \in Pending
           /\ Pending = Range(Tail(events)) \cup {Head(events)}
           /\ StoppedLast(events) => StoppedLast(Tail(events))
<1>1. events \in Seq(Events)
  BY DEF TypeOK
<1>2. ASSUME StoppedLast(events)
      PROVE  StoppedLast(Tail(events))
  <2>1. \A i \in DOMAIN Tail(events) : i \in Nat /\ i + 1 \in DOMAIN events /\ Tail(events)[i] = events[i + 1]
    BY <1>1
  <2>2. SUFFICES ASSUME NEW i \in DOMAIN Tail(events), NEW k \in DOMAIN Tail(events),
                        Tail(events)[i].kind = "stopped", Tail(events)[k].kind = "finished",
                        Tail(events)[i].worker = Tail(events)[k].worker
                 PROVE  k < i
    BY DEF StoppedLast
  <2>3. k + 1 < i + 1
    BY <1>2, <2>1, <2>2 DEF StoppedLast
  <2> QED
    BY <2>1, <2>3
<1>3. /\ Head(events) \in Range(events)
      /\ Range(events) = Range(Tail(events)) \cup {Head(events)}
  BY <1>1, RangeShrinks
<1> QED
  BY <1>2, <1>3 DEF Pending

\* After an event is appended the last word is still the last.
LEMMA LastWords ==
    ASSUME TypeOK, StoppedLast(events), NEW e \in Events,
           e.kind = "finished" => ~Reports("stopped", e.worker)
    PROVE  StoppedLast(Append(events, e))
<1>1. /\ DOMAIN Append(events, e) = DOMAIN events \cup {Len(events) + 1}
      /\ \A i \in DOMAIN events : i \in Nat /\ i < Len(events) + 1 /\ Append(events, e)[i] = events[i]
      /\ Append(events, e)[Len(events) + 1] = e
      /\ Len(events) + 1 \in Nat
  BY DEF TypeOK
<1>2. SUFFICES ASSUME NEW i \in DOMAIN Append(events, e), NEW k \in DOMAIN Append(events, e),
                      Append(events, e)[i].kind = "stopped",
                      Append(events, e)[k].kind = "finished",
                      Append(events, e)[i].worker = Append(events, e)[k].worker
               PROVE  k < i
  BY DEF StoppedLast
<1>3. CASE i \in DOMAIN events /\ k \in DOMAIN events
  BY <1>1, <1>2, <1>3 DEF StoppedLast
<1>4. CASE i \in DOMAIN events /\ k = Len(events) + 1
  <2>1. events[i] \in Pending /\ events[i].kind = "stopped" /\ events[i].worker = e.worker
    BY <1>1, <1>2, <1>4 DEF Pending, Range
  <2> QED
    BY <1>1, <1>2, <1>4, <2>1 DEF Reports
<1>5. CASE i = Len(events) + 1 /\ k \in DOMAIN events
  BY <1>1, <1>5
<1>6. CASE i = Len(events) + 1 /\ k = Len(events) + 1
  BY <1>1, <1>2, <1>6
<1> QED
  BY <1>1, <1>3, <1>4, <1>5, <1>6

\* Two events with the same job are the same event.
LEMMA OneEventPerJob ==
    ASSUME TypeOK, SentOnce, events # <<>>, NEW e \in Range(Tail(events)), e.call # NoCall
    PROVE  e.call # Head(events).call
<1>1. events \in Seq(Events)
  BY DEF TypeOK
<1>2. e.call \in Carried(Tail(events))
  BY DEF Carried, Range
<1> QED
  BY <1>1, <1>2, ChannelShrinks DEF SentOnce

\* An idle worker has no job and owes no report of one.
LEMMA IdleAreFree ==
    ASSUME TypeOK, Agreement, NEW w \in Idle
    PROVE  /\ w \in DOMAIN workers
           /\ w \in DOMAIN tasks => Owned(w) = {}
           /\ \A e \in Pending : e.kind = "finished" => e.worker # w
<1>1. w \in DOMAIN workers /\ workers[w] = NoCall
  BY DEF Idle
<1>2. w \in DOMAIN tasks => Owned(w) = {}
  BY <1>1, TaskRecords, NoCallIsNone DEF Agreement, OwnedBySlot
<1>3. \A e \in Pending : e.kind = "finished" => e.worker # w
  BY <1>1, PendingEvents, NoCallIsNone DEF Agreement, FinishedAreBusy
<1> QED
  BY <1>1, <1>2, <1>3

\* Slots are removed whose workers have no job; events are handled that
\* concern nobody else.
LEMMA RemoveAgrees ==
    ASSUME TypeOK, OwnedOnce, TaskShape, Agreement, NEW S, RemoveWorkers(S),
           UNCHANGED next_worker_id,
           Pending' \subseteq Pending, StoppedLast(events'),
           \A e \in Pending \ Pending' : e.kind = "oneshot" \/ e.worker \in S,
           \A e \in Pending' : e.kind = "finished" => e.worker \notin S,
           \A w \in S \cap DOMAIN tasks : Owned(w) = {}
    PROVE  Agreement'
<1>1. /\ JobsStay
      /\ \A w \in DOMAIN tasks : /\ tasks'[w].at = tasks[w].at
                                 /\ tasks'[w].abort <=> (tasks[w].abort \/ w \in S)
      /\ DOMAIN workers' = DOMAIN workers \ S
      /\ \A w \in DOMAIN workers' : workers'[w] = workers[w]
  BY RemoveStays
<1>2. DOMAIN tasks' = DOMAIN tasks /\ \A w \in DOMAIN tasks : Owned(w)' = Owned(w)
  BY <1>1, StayingJobs DEF JobsStay
<1>3. ASSUME NEW w, w \notin S
      PROVE  /\ Broke(w) => Broke(w)'
             /\ Reports("finished", w) => Reports("finished", w)'
             /\ Reports("stopped", w) => Reports("stopped", w)'
  BY <1>3 DEF Broke, Reports
<1>4. OwnedBySlot'
  BY <1>1, <1>2 DEF Agreement, OwnedBySlot
<1>5. AbortedAreOut'
  BY <1>1, <1>2 DEF Agreement, AbortedAreOut
<1>6. KilledSaidSo'
  BY <1>1, <1>2, <1>3 DEF Agreement, KilledSaidSo
<1>7. FinishedAreBusy'
  BY <1>1, <1>2 DEF Agreement, FinishedAreBusy
<1>8. GoneSaidSo'
  BY <1>1, <1>2, <1>3 DEF Agreement, GoneSaidSo
<1>9. BusyHaveJobs'
  BY <1>1, <1>2, <1>3 DEF Agreement, BusyHaveJobs
<1>10. StoppedAreGone'
  BY <1>1, <1>2 DEF Agreement, StoppedAreGone
<1> QED
  BY <1>4, <1>5, <1>6, <1>7, <1>8, <1>9, <1>10 DEF Agreement

LEMMA DispatchAgrees ==
    ASSUME TypeOK, OwnedOnce, TaskShape, Agreement, NEW w \in Idle,
           NEW j \in Calls \ InTasks, Dispatch(w, j),
           UNCHANGED <<next_worker_id, events>>
    PROVE  Agreement'
<1>1. Owned(w) = {}
  BY IdleAreFree DEF Dispatch, Receives
<1>2. /\ Owned(w)' = {j}
      /\ \A v \in DOMAIN tasks \ {w} : Owned(v)' = Owned(v)
      /\ w \in DOMAIN tasks /\ DOMAIN tasks' = DOMAIN tasks
      /\ \A v \in DOMAIN tasks : tasks'[v].at = tasks[v].at /\ tasks'[v].abort = tasks[v].abort
      /\ w \in DOMAIN workers /\ workers' = [workers EXCEPT ![w] = j]
  BY <1>1, DispatchGives
<1>3. /\ DOMAIN workers' = DOMAIN workers /\ workers'[w] = j
      /\ \A v \in DOMAIN workers \ {w} : workers'[v] = workers[v]
  BY <1>2
<1>4. Pending' = Pending
  BY DEF Pending
<1>5. \A v : /\ Broke(v)' <=> Broke(v)
             /\ Reports("finished", v)' <=> Reports("finished", v)
             /\ Reports("stopped", v)' <=> Reports("stopped", v)
  BY <1>4 DEF Broke, Reports
<1>6. OwnedBySlot'
  BY <1>2, <1>3 DEF Agreement, OwnedBySlot
<1>7. AbortedAreOut' /\ KilledSaidSo'
  BY <1>2, <1>3, <1>5 DEF Agreement, AbortedAreOut, KilledSaidSo
<1>8. FinishedAreBusy'
  BY <1>3, <1>4, IdleAreFree DEF Agreement, FinishedAreBusy
<1>9. GoneSaidSo'
  BY <1>2, <1>3, <1>5 DEF Agreement, GoneSaidSo
<1>10. BusyHaveJobs'
  BY <1>2, <1>3, <1>5 DEF Agreement, BusyHaveJobs
<1>11. StoppedAreGone' /\ StoppedLast(events')
  BY <1>2, <1>4 DEF Agreement, StoppedAreGone
<1> QED
  BY <1>6, <1>7, <1>8, <1>9, <1>10, <1>11 DEF Agreement

LEMMA SpawnAgrees ==
    ASSUME TypeOK, OwnedOnce, TaskShape, Agreement,
           NEW j \in (Calls \cup {NoCall}) \ InTasks, SpawnWorker(j)
    PROVE  Agreement'
<1>1. PICK w : w = next_worker_id
  OBVIOUS
<1>2. /\ Owned(w)' = {j} \ {NoCall}
      /\ \A v \in DOMAIN tasks : Owned(v)' = Owned(v)
      /\ w \notin DOMAIN tasks \cup DOMAIN workers
      /\ DOMAIN tasks' = DOMAIN tasks \cup {w}
      /\ \A v \in DOMAIN tasks : tasks'[v] = tasks[v]
      /\ tasks'[w].at = "select" /\ ~tasks'[w].abort
      /\ DOMAIN workers' = DOMAIN workers \cup {w}
      /\ workers'[w] = j
      /\ \A v \in DOMAIN workers : workers'[v] = workers[v]
  BY <1>1, SpawnGives
<1>3. Pending' = Pending /\ events' = events /\ next_worker_id' = next_worker_id + 1
  BY DEF Pending, SpawnWorker
<1>4. \A v : /\ Broke(v)' <=> Broke(v)
             /\ Reports("finished", v)' <=> Reports("finished", v)
             /\ Reports("stopped", v)' <=> Reports("stopped", v)
  BY <1>3 DEF Broke, Reports
<1>5. OwnedBySlot'
  BY <1>2 DEF Agreement, OwnedBySlot
<1>6. AbortedAreOut' /\ KilledSaidSo'
  BY <1>2, <1>4 DEF Agreement, AbortedAreOut, KilledSaidSo
<1>7. FinishedAreBusy'
  BY <1>2, <1>3 DEF Agreement, FinishedAreBusy
<1>8. GoneSaidSo'
  BY <1>2, <1>4 DEF Agreement, GoneSaidSo
<1>9. BusyHaveJobs'
  BY <1>2, <1>4 DEF Agreement, BusyHaveJobs
<1>10. StoppedAreGone' /\ StoppedLast(events')
  <2>1. next_worker_id \in Nat
    BY DEF TypeOK
  <2> QED
    BY <1>1, <1>2, <1>3, <2>1 DEF Agreement, StoppedAreGone
<1> QED
  BY <1>5, <1>6, <1>7, <1>8, <1>9, <1>10 DEF Agreement

-------------------------------------------------------------------------------
(***************************************************************************)
(* Steps of the tasks, and the events at the head of the channel.          *)
(***************************************************************************)

\* Events come and go, and ids are used up, but slots and tasks stay.
LEMMA EventsAgree ==
    ASSUME TypeOK, Agreement, UNCHANGED <<workers, tasks>>,
           next_worker_id' \in {next_worker_id, next_worker_id + 1},
           StoppedLast(events'),
           \A e \in Pending \ Pending' : e.kind = "oneshot",
           \A e \in Pending' \ Pending :
              \/ e.kind = "oneshot"
              \/ e.kind = "stopped" /\ e.worker = next_worker_id
                                    /\ next_worker_id' = next_worker_id + 1
    PROVE  Agreement'
<1>1. next_worker_id \in Nat \ {0} /\ next_worker_id \notin DOMAIN tasks
      /\ 1 .. (next_worker_id - 1) \subseteq 1 .. (next_worker_id' - 1)
  BY DEF TypeOK
<1>2. \A w : /\ Broke(w) => Broke(w)'
             /\ Reports("finished", w) => Reports("finished", w)'
             /\ Reports("stopped", w) => Reports("stopped", w)'
  BY DEF Broke, Reports
<1>3. \A w \in DOMAIN tasks : Owned(w)' = Owned(w)
  BY DEF Owned
<1>4. OwnedBySlot' /\ AbortedAreOut' /\ KilledSaidSo' /\ GoneSaidSo' /\ BusyHaveJobs'
  BY <1>2, <1>3
     DEF Agreement, OwnedBySlot, AbortedAreOut, KilledSaidSo, GoneSaidSo, BusyHaveJobs
<1>5. FinishedAreBusy'
  BY DEF Agreement, FinishedAreBusy
<1>6. StoppedAreGone'
  <2>1. SUFFICES ASSUME NEW e \in Pending', e.kind = "stopped"
                 PROVE  e.worker \in 1 .. (next_worker_id' - 1) /\ e.worker \notin DOMAIN tasks
    BY DEF StoppedAreGone
  <2>2. CASE e \in Pending
    BY <1>1, <2>1, <2>2 DEF Agreement, StoppedAreGone
  <2>3. CASE e \notin Pending
    BY <1>1, <2>1, <2>3
  <2> QED
    BY <2>2, <2>3
<1> QED
  BY <1>4, <1>5, <1>6 DEF Agreement

\* A task moves on and keeps its jobs; only one without a slot leaves its loop.
LEMMA TaskMovesAgree ==
    ASSUME Agreement, UNCHANGED <<workers, events, next_worker_id>>,
           DOMAIN tasks' = DOMAIN tasks,
           \A v \in DOMAIN tasks :
              /\ Owned(v)' = Owned(v) /\ tasks'[v].abort = tasks[v].abort
              /\ tasks'[v].at = "kill" => tasks[v].at = "kill" \/ v \notin DOMAIN workers
    PROVE  Agreement'
<1>1. Pending' = Pending
  BY DEF Pending
<1>2. \A w : /\ Broke(w)' <=> Broke(w)
             /\ Reports("finished", w)' <=> Reports("finished", w)
             /\ Reports("stopped", w)' <=> Reports("stopped", w)
  BY <1>1 DEF Broke, Reports
<1>3. OwnedBySlot' /\ AbortedAreOut' /\ KilledSaidSo'
  BY <1>2 DEF Agreement, OwnedBySlot, AbortedAreOut, KilledSaidSo
<1>4. GoneSaidSo' /\ BusyHaveJobs'
  BY <1>2 DEF Agreement, GoneSaidSo, BusyHaveJobs
<1>5. FinishedAreBusy' /\ StoppedAreGone' /\ StoppedLast(events')
  BY <1>1 DEF Agreement, FinishedAreBusy, StoppedAreGone
<1> QED
  BY <1>3, <1>4, <1>5 DEF Agreement

\* A task ends that has no slot, or whose slot will be removed.
LEMMA EndAgrees ==
    ASSUME TypeOK, OwnedOnce, TaskShape, Agreement, NEW w \in DOMAIN tasks, End(w),
           UNCHANGED <<workers, next_worker_id>>, StoppedLast(events'),
           Pending \subseteq Pending', Pending' \subseteq Pending \cup {Stopped(w)},
           w \in DOMAIN workers => (Reports("stopped", w) \/ Broke(w))'
    PROVE  Agreement'
<1>1. /\ DOMAIN tasks' = DOMAIN tasks \ {w}
      /\ \A v \in DOMAIN tasks' : tasks'[v] = tasks[v] /\ Owned(v)' = Owned(v)
  BY EndTakesAlong
<1>2. \A v : /\ Broke(v) => Broke(v)'
             /\ Reports("finished", v) => Reports("finished", v)'
             /\ Reports("stopped", v) => Reports("stopped", v)'
  BY DEF Broke, Reports
<1>3. OwnedBySlot' /\ AbortedAreOut' /\ KilledSaidSo'
  BY <1>1, <1>2 DEF Agreement, OwnedBySlot, AbortedAreOut, KilledSaidSo
<1>4. GoneSaidSo' /\ BusyHaveJobs'
  BY <1>1, <1>2 DEF Agreement, GoneSaidSo, BusyHaveJobs
<1>5. FinishedAreBusy'
  BY DEF Agreement, FinishedAreBusy, Stopped
<1>6. StoppedAreGone'
  <2>1. w \in 1 .. (next_worker_id - 1)
    BY DEF TypeOK
  <2> QED
    BY <1>1, <2>1 DEF Agreement, StoppedAreGone, Stopped
<1> QED
  BY <1>3, <1>4, <1>5, <1>6 DEF Agreement

\* An exchange ends while the supervisor runs.
LEMMA ExchangeAgrees ==
    ASSUME TypeOK, OwnedOnce, TaskShape, Agreement, NEW w \in DOMAIN tasks,
           NEW o \in Outcomes, Exchange(w, o), pc # "closed"
    PROVE  Agreement'
<1>1. /\ tasks[w].call \in Calls /\ Owned(w) = {tasks[w].call}
      /\ DOMAIN tasks' = DOMAIN tasks
      /\ Owned(w)' = {}
      /\ tasks'[w].abort = tasks[w].abort
      /\ tasks'[w].at = IF o \in Reusable /\ pc # "closed" THEN "select" ELSE "kill"
      /\ \A v \in DOMAIN tasks \ {w} : tasks'[v] = tasks[v] /\ Owned(v)' = Owned(v)
  BY ExchangeReleases
<1>2. PICK e : e = Finished(w, tasks[w].call, o)
  OBVIOUS
<1>3. /\ e \in Events /\ e.kind = "finished" /\ e.worker = w
      /\ e.call = tasks[w].call /\ e.outcome = o
  BY <1>1, <1>2 DEF Finished, Events, TypeOK
<1>4. events' = Append(events, e) /\ UNCHANGED <<workers, next_worker_id>>
  BY <1>2 DEF Exchange, Send, supervisorVars
<1>5. Pending' = Pending \cup {e}
  BY <1>3, <1>4, EventSent DEF Pending
<1>6. StoppedLast(events')
  BY <1>3, <1>4, LastWords DEF Agreement, StoppedAreGone, Reports
<1>7. \A v : /\ Broke(v) => Broke(v)'
             /\ Reports("finished", v) => Reports("finished", v)'
             /\ Reports("stopped", v) => Reports("stopped", v)'
  BY <1>5 DEF Broke, Reports
<1>8. Reports("finished", w)' /\ (o \notin Reusable => Broke(w)')
  BY <1>3, <1>5 DEF Broke, Reports
<1>9. w \in DOMAIN workers /\ workers[w] = tasks[w].call
  BY <1>1 DEF Agreement, OwnedBySlot
<1>10. OwnedBySlot' /\ AbortedAreOut' /\ KilledSaidSo'
  BY <1>1, <1>4, <1>7, <1>8 DEF Agreement, OwnedBySlot, AbortedAreOut, KilledSaidSo
<1>11. GoneSaidSo' /\ BusyHaveJobs'
  BY <1>1, <1>4, <1>7, <1>8 DEF Agreement, GoneSaidSo, BusyHaveJobs
<1>12. FinishedAreBusy' /\ StoppedAreGone'
  BY <1>1, <1>3, <1>4, <1>5, <1>9 DEF Agreement, FinishedAreBusy, StoppedAreGone
<1> QED
  BY <1>6, <1>10, <1>11, <1>12 DEF Agreement

\* When a Finished event is handled its worker has no job any more, and no
\* other event of it about a job is pending.
LEMMA FinishedHead ==
    ASSUME TypeOK, JobInv, pc # "closed", events # <<>>, Head(events).kind = "finished",
           NEW w, w = Head(events).worker
    PROVE  /\ w \in DOMAIN workers /\ workers[w] = Head(events).call
           /\ w \in DOMAIN tasks => Owned(w) = {}
           /\ \A e \in Range(Tail(events)) : e.kind = "finished" => e.worker # w
<1>1. /\ Head(events) \in Pending /\ Pending = Range(Tail(events)) \cup {Head(events)}
      /\ Head(events).call \in Calls /\ Head(events).call \in InEvents
  <2>1. Head(events) \in Pending /\ Pending = Range(Tail(events)) \cup {Head(events)}
    BY EventTaken
  <2> QED
    BY <2>1, PendingEvents
<1>2. w \in DOMAIN workers /\ workers[w] = Head(events).call
  BY <1>1 DEF JobInv, SlotsAgree, Agreement, FinishedAreBusy
<1>3. ASSUME w \in DOMAIN tasks, Owned(w) # {}
      PROVE  FALSE
  <2>1. Owned(w) = {Head(events).call}
    BY <1>2, <1>3 DEF JobInv, SlotsAgree, Agreement, OwnedBySlot
  <2>2. Head(events).call \in InTasks
    BY <1>3, <2>1 DEF InTasks
  <2> QED
    BY <1>1, <2>2 DEF JobInv, JobsApart
<1>4. ASSUME NEW e \in Range(Tail(events)), e.kind = "finished", e.worker = w
      PROVE  FALSE
  <2>1. e \in Pending /\ e.call \in Calls
    BY <1>1, <1>4, PendingEvents
  <2>2. e.call = Head(events).call
    BY <1>2, <1>4, <2>1 DEF JobInv, SlotsAgree, Agreement, FinishedAreBusy
  <2> QED
    BY <2>1, <2>2, OneEventPerJob, NoCallIsNone DEF JobInv
<1> QED
  BY <1>2, <1>3, <1>4

\* The slot of a worker that can be used again becomes idle.
LEMMA FreeAgrees ==
    ASSUME TypeOK, JobInv, pc # "closed", events # <<>>, Head(events).kind = "finished",
           Head(events).outcome \in Reusable, NEW w, w = Head(events).worker,
           workers' = [v \in DOMAIN workers |-> IF v = w THEN NoCall ELSE workers[v]],
           events' = Tail(events), UNCHANGED <<tasks, next_worker_id>>
    PROVE  Agreement'
<1>1. Agreement
  BY DEF JobInv, SlotsAgree
<1>2. /\ w \in DOMAIN workers
      /\ w \in DOMAIN tasks => Owned(w) = {}
      /\ \A e \in Pending' : e.kind = "finished" => e.worker # w
  BY FinishedHead DEF Pending
<1>3. /\ DOMAIN workers' = DOMAIN workers /\ workers'[w] = NoCall
      /\ \A v \in DOMAIN workers \ {w} : workers'[v] = workers[v]
  BY <1>2
<1>4. Pending = Pending' \cup {Head(events)} /\ StoppedLast(events')
  <2>1. /\ Pending = Range(Tail(events)) \cup {Head(events)}
        /\ StoppedLast(Tail(events))
    BY <1>1, EventTaken DEF Agreement
  <2> QED
    BY <2>1 DEF Pending
<1>5. \A v : /\ Broke(v) => Broke(v)'
             /\ v # w /\ Reports("finished", v) => Reports("finished", v)'
             /\ Reports("stopped", v) => Reports("stopped", v)'
             /\ ~Broke(w)'
  BY <1>2, <1>4 DEF Broke, Reports
<1>6. \A v \in DOMAIN tasks : Owned(v)' = Owned(v)
  BY DEF Owned
<1>7. OwnedBySlot' /\ AbortedAreOut' /\ KilledSaidSo'
  BY <1>1, <1>2, <1>3, <1>5, <1>6 DEF Agreement, OwnedBySlot, AbortedAreOut, KilledSaidSo
<1>8. GoneSaidSo' /\ BusyHaveJobs'
  BY <1>1, <1>3, <1>5, <1>6 DEF Agreement, GoneSaidSo, BusyHaveJobs
<1>9. FinishedAreBusy' /\ StoppedAreGone'
  BY <1>1, <1>2, <1>3, <1>4 DEF Agreement, FinishedAreBusy, StoppedAreGone
<1> QED
  BY <1>4, <1>7, <1>8, <1>9 DEF Agreement

\* When a Stopped event is handled the task is gone, and no event of the worker
\* about a job is pending.
LEMMA StoppedHead ==
    ASSUME TypeOK, Agreement, events # <<>>, Head(events).kind = "stopped",
           NEW w, w = Head(events).worker
    PROVE  /\ w \notin DOMAIN tasks
           /\ \A e \in Range(Tail(events)) : e.kind = "finished" => e.worker # w
<1>1. Head(events) \in Pending
  BY EventTaken
<1>2. ASSUME NEW e \in Range(Tail(events)), e.kind = "finished", e.worker = w
      PROVE  FALSE
  <2>1. /\ 1 \in DOMAIN events /\ events[1] = Head(events)
        /\ \A i \in DOMAIN Tail(events) : /\ i + 1 \in DOMAIN events
                                           /\ Tail(events)[i] = events[i + 1]
                                           /\ ~(i + 1 < 1)
    <3>1. events \in Seq(Events)
      BY DEF TypeOK
    <3> QED
      BY <3>1
  <2>2. PICK i \in DOMAIN Tail(events) : Tail(events)[i] = e
    BY <1>2 DEF Range
  <2> QED
    BY <1>2, <2>1, <2>2 DEF Agreement, StoppedLast
<1> QED
  BY <1>1, <1>2 DEF Agreement, StoppedAreGone

-------------------------------------------------------------------------------
(***************************************************************************)
(* What every step does to the jobs: those that were given to a process    *)
(* never come back.  First the steps of place_job.                         *)
(***************************************************************************)

\* The jobs that no process has been given yet.  They only come from callers
\* that send them, and from nowhere else.
Coming == InCommands \cup InQueue \cup InHand \cup Inboxes
Unsent == {j \in Calls : answer[j] = "unsent"}
NothingComesBack == Coming' \subseteq Coming \cup Unsent
JobStep == JobInv' /\ NothingComesBack

LEMMA PlacesStay ==
    /\ UNCHANGED answer => Waiting' = Waiting /\ Unsent' = Unsent
    /\ UNCHANGED commands => InCommands' = InCommands /\ Once(commands)' = Once(commands)
    /\ UNCHANGED events => InEvents' = InEvents /\ Once(events)' = Once(events)
    /\ UNCHANGED queue => InQueue' = InQueue /\ IsInjective(queue)' = IsInjective(queue)
    /\ UNCHANGED held => InHand' = InHand
    /\ UNCHANGED tasks => JobsStay
BY DEF Waiting, Unsent, InCommands, InEvents, InQueue, InHand, JobsStay, Once, IsInjective

\* Sending halves that are used do not wait any more.
LEMMA AnsweredDoNotWait ==
    ASSUME TypeOK, NEW S, NEW a \in Answers, answer' = Answered(S, a)
    PROVE  Waiting' = Waiting \ S
BY DEF Waiting, Answered, Answers, Outcomes, Reusable, TypeOK

\* While place_job runs, its job is nowhere else, and it ends without it.
LEMMA HandInPlaceJob ==
    ASSUME TypeOK, JobInv, Searching \/ MustStart \/ MustReject
    PROVE  /\ held \in Calls \ InTasks /\ InHand = {held} /\ pc # "closed" /\ Agreement
           /\ held \notin InQueue
           /\ Placed => InHand' = {} /\ pc' # "closed"
<1>1. pc \in {"place", "reuse"}
  BY DEF Searching, MustStart, MustReject, Saturated
<1>2. held \in Calls /\ InHand = {held}
  BY <1>1, NoCallIsNone DEF TypeOK, InHand
<1> QED
  BY <1>1, <1>2 DEF JobInv, JobsApart, SlotsAgree, Placed, InHand, TypeOK

LEMMA PlaceOnIdleJobs == ASSUME TypeOK, JobInv, PlaceOnIdle PROVE JobStep
<1>1. /\ held \in Calls \ InTasks /\ InHand = {held} /\ Agreement /\ InHand' = {} 
  BY HandInPlaceJob DEF PlaceOnIdle
<1>2. PICK w \in Idle : Dispatch(w, held)
  BY DEF PlaceOnIdle
<1>3. Owned(w) = {}
  BY <1>1, <1>2, IdleAreFree DEF Dispatch, Receives
<1>4. /\ OwnedOnce' /\ TaskShape' /\ InTasks' = InTasks \cup {held}
      /\ Inboxes' \subseteq Inboxes \cup {held}
  BY <1>1, <1>2, <1>3, DispatchGives DEF JobInv
<1>5. UNCHANGED <<answer, commands, events, queue, next_worker_id, oneshots>>
  BY DEF PlaceOnIdle, channelVars
<1>6. Agreement'
  BY <1>1, <1>2, <1>5, DispatchAgrees DEF JobInv
<1>7. /\ Waiting' = Waiting /\ InCommands' = InCommands /\ InEvents' = InEvents
      /\ InQueue' = InQueue /\ SentOnce'
  BY <1>5, PlacesStay DEF JobInv, SentOnce
<1>8. JobsApart'
  BY <1>1, <1>4, <1>5, <1>7 DEF JobInv, JobsApart
<1>9. NothingComesBack
  BY <1>1, <1>4, <1>7 DEF NothingComesBack, Coming
<1> QED
  BY <1>4, <1>6, <1>7, <1>8, <1>9 DEF JobStep, JobInv, SlotsAgree

\* Idle workers are removed.
LEMMA RemoveIdleJobs ==
    ASSUME TypeOK, JobInv, NEW S \in SUBSET Idle, RemoveWorkers(S), pc # "closed",
           UNCHANGED <<answer, commands, events, queue, held, next_worker_id, oneshots>>
    PROVE  JobStep
<1>1. Agreement
  BY DEF JobInv, SlotsAgree
<1>2. JobsStay
  BY RemoveStays
<1>3. OwnedOnce' /\ TaskShape' /\ InTasks' = InTasks /\ Inboxes' = Inboxes
  BY <1>2, StayingJobs DEF JobInv
<1>4. /\ Waiting' = Waiting /\ InCommands' = InCommands /\ InEvents' = InEvents
      /\ InQueue' = InQueue /\ InHand' = InHand /\ SentOnce'
  BY PlacesStay DEF JobInv, SentOnce
<1>5. Agreement'
  <2>1. Pending' = Pending /\ StoppedLast(events')
    BY <1>1 DEF Pending, Agreement
  <2>2. \A w \in S : /\ w \in DOMAIN tasks => Owned(w) = {}
                     /\ \A e \in Pending : e.kind = "finished" => e.worker # w
    BY <1>1, IdleAreFree
  <2> QED
    BY <1>1, <2>1, <2>2, RemoveAgrees DEF JobInv
<1>6. JobsApart' /\ NothingComesBack
  BY <1>3, <1>4 DEF JobInv, JobsApart, NothingComesBack, Coming
<1> QED
  BY <1>3, <1>4, <1>5, <1>6 DEF JobStep, JobInv, SlotsAgree

LEMMA PlaceOnIdleFailsJobs == ASSUME TypeOK, JobInv, PlaceOnIdleFails PROVE JobStep
<1>1. pc # "closed"
  BY HandInPlaceJob DEF PlaceOnIdleFails
<1>2. PICK w \in Idle : RemoveWorkers({w})
  BY DEF PlaceOnIdleFails, DispatchFails
<1>3. {w} \in SUBSET Idle
  OBVIOUS
<1> QED
  BY <1>1, <1>2, <1>3, RemoveIdleJobs DEF PlaceOnIdleFails, channelVars

LEMMA RetireJobs == ASSUME TypeOK, JobInv, RetireIdleWorkers PROVE JobStep
<1>1. PICK R \in SUBSET Idle : RemoveWorkers(R)
  BY DEF RetireIdleWorkers
<1> QED
  BY <1>1, RemoveIdleJobs DEF RetireIdleWorkers, channelVars

LEMMA StartJobJobs == ASSUME TypeOK, JobInv, StartJob PROVE JobStep
<1>1. /\ held \in Calls \ InTasks /\ InHand = {held} /\ Agreement /\ InHand' = {}
  BY HandInPlaceJob DEF StartJob
<1>2. PICK w : w = next_worker_id
  OBVIOUS
<1>3. SpawnWorker(held) /\ UNCHANGED <<answer, commands, events, queue, oneshots>>
  BY DEF StartJob, SpawnWorker
<1>4. held # NoCall
  BY <1>1, NoCallIsNone
<1>5. /\ OwnedOnce' /\ TaskShape' /\ InTasks' = InTasks \cup {held}
      /\ Inboxes' \subseteq Inboxes \cup {held}
  BY <1>1, <1>2, <1>3, <1>4, SpawnGives DEF JobInv
<1>6. Agreement'
  BY <1>1, <1>3, SpawnAgrees DEF JobInv
<1>7. /\ Waiting' = Waiting /\ InCommands' = InCommands /\ InEvents' = InEvents
      /\ InQueue' = InQueue /\ SentOnce'
  BY <1>3, PlacesStay DEF JobInv, SentOnce
<1>8. JobsApart'
  BY <1>1, <1>3, <1>5, <1>7 DEF JobInv, JobsApart
<1>9. NothingComesBack
  BY <1>1, <1>5, <1>7 DEF NothingComesBack, Coming
<1> QED
  BY <1>5, <1>6, <1>7, <1>8, <1>9 DEF JobStep, JobInv, SlotsAgree

\* A worker that could not be started, or died at once, leaves at most a
\* Stopped event behind.
LEMMA FailedSpawnAgrees ==
    ASSUME TypeOK, JobInv, pc # "closed", SpawnStillborn \/ SpawnFails
    PROVE  /\ Agreement' /\ OwnedOnce' /\ TaskShape' /\ InTasks' = InTasks
           /\ Inboxes' = Inboxes /\ InEvents' = InEvents /\ Once(events)'
<1>1. Agreement /\ Once(events) /\ UNCHANGED <<workers, tasks>>
  BY DEF JobInv, SlotsAgree, SentOnce, SpawnStillborn, SpawnFails
<1>2. OwnedOnce' /\ TaskShape' /\ InTasks' = InTasks /\ Inboxes' = Inboxes
  BY <1>1, PlacesStay, StayingJobs DEF JobInv
<1>3. CASE SpawnFails
  <2>1. events' = events /\ Pending' = Pending
    BY <1>3 DEF SpawnFails, Pending
  <2>2. Agreement'
    BY <1>1, <1>3, <2>1, EventsAgree DEF SpawnFails, Agreement
  <2> QED
    BY <1>1, <1>2, <2>1, <2>2, PlacesStay
<1>4. CASE SpawnStillborn
  <2>1. PICK e : e = Stopped(next_worker_id)
    OBVIOUS
  <2>2. /\ e \in Events /\ e.kind = "stopped" /\ e.worker = next_worker_id
        /\ e.call = NoCall
    BY <2>1 DEF Stopped, Events, TypeOK, Outcomes
  <2>3. events' = Append(events, e) /\ next_worker_id' = next_worker_id + 1
    BY <1>4, <2>1 DEF SpawnStillborn
  <2>4. Pending' = Pending \cup {e} /\ StoppedLast(events')
    BY <1>1, <2>2, <2>3, EventSent, LastWords DEF Pending, Agreement
  <2>5. Agreement'
    BY <1>1, <2>2, <2>3, <2>4, EventsAgree
  <2>6. InEvents' = InEvents /\ Once(events)'
    <3>1. e.call \notin Carried(events) /\ events \in Seq(Events)
      BY <2>2 DEF Carried, TypeOK
    <3>2. /\ Carried(Append(events, e)) = Carried(events) \cup ({e.call} \ {NoCall})
          /\ Once(Append(events, e))
      BY <1>1, <2>2, <3>1, ChannelGrows
    <3>3. Once(events)' <=> Once(events')
      BY DEF Once
    <3> QED
      BY <2>2, <2>3, <3>2, <3>3 DEF InEvents
  <2> QED
    BY <1>2, <2>5, <2>6
<1> QED
  BY <1>3, <1>4

LEMMA StartJobFailsJobs == ASSUME TypeOK, JobInv, StartJobFails PROVE JobStep
<1>1. /\ InHand = {held} /\ pc # "closed" /\ InHand' = {}
  BY HandInPlaceJob DEF StartJobFails
<1>2. /\ Agreement' /\ OwnedOnce' /\ TaskShape' /\ InTasks' = InTasks
      /\ Inboxes' = Inboxes /\ InEvents' = InEvents /\ Once(events)'
  BY <1>1, FailedSpawnAgrees DEF StartJobFails
<1>3. UNCHANGED <<commands, queue, oneshots>> /\ answer' = Answered({held}, "spawn_failed")
  BY DEF StartJobFails
<1>4. Waiting' = Waiting \ {held}
  BY <1>3, AnsweredDoNotWait DEF Answers
<1>5. InCommands' = InCommands /\ InQueue' = InQueue /\ SentOnce'
  BY <1>2, <1>3, PlacesStay DEF JobInv, SentOnce
<1>6. JobsApart' /\ NothingComesBack
  BY <1>1, <1>2, <1>3, <1>4, <1>5 DEF JobInv, JobsApart, NothingComesBack, Coming
<1> QED
  BY <1>2, <1>5, <1>6 DEF JobStep, JobInv, SlotsAgree

\* The queue gets a job that is not in it.
LEMMA EnqueueMoves ==
    ASSUME TypeOK, NEW q \in Seq(Calls), IsInjective(q), NEW j \in Calls \ Range(q),
           queue' = Append(q, j)
    PROVE  InQueue' = Range(q) \cup {j} /\ IsInjective(queue)'
BY RangeGrows DEF InQueue

\* What a step does that leaves slots, tasks and events alone.
LEMMA NothingMoves ==
    ASSUME TypeOK, JobInv, pc # "closed", UNCHANGED <<workers, tasks, events, next_worker_id>>
    PROVE  /\ Agreement' /\ OwnedOnce' /\ TaskShape' /\ InTasks' = InTasks
           /\ Inboxes' = Inboxes /\ InEvents' = InEvents /\ Once(events)'
<1>1. Agreement
  BY DEF JobInv, SlotsAgree
<1>2. Pending' = Pending /\ StoppedLast(events')
  BY <1>1 DEF Pending, Agreement
<1>3. Agreement'
  BY <1>1, <1>2, EventsAgree
<1> QED
  BY <1>3, PlacesStay, StayingJobs DEF JobInv, SentOnce

LEMMA EnqueueJobs == ASSUME TypeOK, JobInv, Enqueue PROVE JobStep
<1>1. /\ held \in Calls /\ InHand = {held} /\ held \notin InQueue /\ pc # "closed" /\ InHand' = {}
  BY HandInPlaceJob DEF Enqueue, Saturated
<1>2. UNCHANGED <<answer, commands, events, workers, next_worker_id, tasks, oneshots>>
  BY DEF Enqueue, channelVars
<1>3. /\ Agreement' /\ OwnedOnce' /\ TaskShape' /\ InTasks' = InTasks
      /\ Inboxes' = Inboxes /\ InEvents' = InEvents /\ Once(events)'
  BY <1>1, <1>2, NothingMoves
<1>4. InQueue' = InQueue \cup {held} /\ IsInjective(queue)'
  BY <1>1, EnqueueMoves DEF Enqueue, InQueue, TypeOK, JobInv, SentOnce
<1>5. Waiting' = Waiting /\ InCommands' = InCommands /\ SentOnce'
  BY <1>2, <1>3, <1>4, PlacesStay DEF JobInv, SentOnce
<1>6. JobsApart' /\ NothingComesBack
  BY <1>1, <1>2, <1>3, <1>4, <1>5 DEF JobInv, JobsApart, NothingComesBack, Coming
<1> QED
  BY <1>3, <1>5, <1>6 DEF JobStep, JobInv, SlotsAgree

LEMMA RejectionJobs == ASSUME TypeOK, JobInv, ApplyRejectionPolicy PROVE JobStep
<1>1. /\ held \in Calls /\ InHand = {held} /\ held \notin InQueue /\ pc # "closed" /\ InHand' = {}
  BY HandInPlaceJob DEF ApplyRejectionPolicy
<1>2. UNCHANGED <<commands, events, workers, next_worker_id, tasks>>
  BY DEF ApplyRejectionPolicy, channelVars
<1>3. /\ Agreement' /\ OwnedOnce' /\ TaskShape' /\ InTasks' = InTasks
      /\ Inboxes' = Inboxes /\ InEvents' = InEvents /\ Once(events)'
  BY <1>1, <1>2, NothingMoves
<1>4. InCommands' = InCommands /\ Once(commands)'
  BY <1>2, PlacesStay DEF JobInv, SentOnce
<1>5. CASE Refuse
  <2>1. /\ UNCHANGED <<queue, oneshots>>
        /\ \E a \in Answers : answer' = Answered({held}, a)
    BY <1>5 DEF Refuse, Answers
  <2>2. Waiting' = Waiting \ {held} /\ InQueue' = InQueue /\ SentOnce'
    BY <1>3, <1>4, <2>1, PlacesStay, AnsweredDoNotWait DEF JobInv, SentOnce
  <2>3. JobsApart' /\ NothingComesBack
    BY <1>1, <1>3, <1>4, <2>1, <2>2 DEF JobInv, JobsApart, NothingComesBack, Coming
  <2> QED
    BY <1>3, <2>2, <2>3 DEF JobStep, JobInv, SlotsAgree
<1>6. CASE DiscardOldest
  <2>1. /\ queue # <<>> /\ queue' = Append(Tail(queue), held) /\ UNCHANGED oneshots
        /\ answer' = Answered({Head(queue)}, "discarded")
    BY <1>6 DEF DiscardOldest
  <2>2. /\ Tail(queue) \in Seq(Calls) /\ Head(queue) \in InQueue
        /\ IsInjective(Tail(queue)) /\ Range(Tail(queue)) = InQueue \ {Head(queue)}
    BY <2>1, RangeShrinks DEF TypeOK, JobInv, SentOnce, InQueue
  <2>3. InQueue' = (InQueue \ {Head(queue)}) \cup {held} /\ IsInjective(queue)'
    BY <1>1, <2>1, <2>2, EnqueueMoves
  <2>4. Waiting' = Waiting \ {Head(queue)} /\ SentOnce'
    BY <1>3, <1>4, <2>1, <2>3, AnsweredDoNotWait DEF SentOnce, Answers
  <2>5. JobsApart' /\ NothingComesBack
    BY <1>1, <1>3, <1>4, <2>1, <2>2, <2>3, <2>4
       DEF JobInv, JobsApart, NothingComesBack, Coming
  <2> QED
    BY <1>3, <2>4, <2>5 DEF JobStep, JobInv, SlotsAgree
<1>7. CASE CallerRuns
  <2>1. oneshots' = oneshots \cup {held} /\ UNCHANGED <<answer, queue>>
    BY <1>7 DEF CallerRuns
  <2>2. Waiting' = Waiting /\ InQueue' = InQueue /\ SentOnce'
    BY <1>3, <1>4, <2>1, PlacesStay DEF JobInv, SentOnce
  <2>3. JobsApart' /\ NothingComesBack
    BY <1>1, <1>3, <1>4, <2>1, <2>2 DEF JobInv, JobsApart, NothingComesBack, Coming
  <2> QED
    BY <1>3, <2>2, <2>3 DEF JobStep, JobInv, SlotsAgree
<1> QED
  BY <1>5, <1>6, <1>7 DEF ApplyRejectionPolicy

LEMMA PlaceJobJobs == ASSUME TypeOK, JobInv, PlaceJob PROVE JobStep
BY PlaceOnIdleJobs, PlaceOnIdleFailsJobs, StartJobJobs, StartJobFailsJobs,
   EnqueueJobs, RejectionJobs DEF PlaceJob

-------------------------------------------------------------------------------
(***************************************************************************)
(* The handlers of the commands.                                           *)
(***************************************************************************)

\* The job at the head of the queue.
LEMMA QueueHead ==
    ASSUME TypeOK, JobInv, queue # <<>>
    PROVE  /\ Head(queue) \in Calls \ InTasks /\ Head(queue) \in InQueue
           /\ queue' = Tail(queue) => /\ InQueue' = InQueue \ {Head(queue)}
                                      /\ IsInjective(queue)'
<1>1. /\ Head(queue) \in Calls /\ Head(queue) \in InQueue
      /\ IsInjective(Tail(queue)) /\ Range(Tail(queue)) = InQueue \ {Head(queue)}
  BY RangeShrinks DEF TypeOK, JobInv, SentOnce, InQueue
<1>2. queue' = Tail(queue) => IsInjective(queue)'
  BY <1>1
<1> QED
  BY <1>1, <1>2 DEF InQueue, JobInv, JobsApart

\* The command at the head of its channel.
LEMMA CommandTaken ==
    ASSUME TypeOK, JobInv, commands # <<>>, commands' = Tail(commands)
    PROVE  /\ InCommands' = InCommands \ {Head(commands).call} /\ Once(commands)'
           /\ Head(commands) \in Commands
           /\ Head(commands).call # NoCall => Head(commands).call \in InCommands
<1>1. commands \in Seq(Commands) /\ Once(commands)
  BY DEF TypeOK, JobInv, SentOnce
<1>2. /\ Head(commands).call # NoCall => Head(commands).call \in Carried(commands)
      /\ Once(Tail(commands))
      /\ Carried(Tail(commands)) = Carried(commands) \ {Head(commands).call}
  BY <1>1, ChannelShrinks
<1>3. Once(commands)' <=> Once(commands')
  BY DEF Once
<1> QED
  BY <1>1, <1>2, <1>3 DEF InCommands

\* The event at the head of its channel.
LEMMA EventOut ==
    ASSUME TypeOK, JobInv, events # <<>>, events' = Tail(events)
    PROVE  /\ InEvents' = InEvents \ {Head(events).call} /\ Once(events)'
           /\ Head(events) \in Events
           /\ Head(events).call # NoCall => Head(events).call \in InEvents
<1>1. events \in Seq(Events) /\ Once(events)
  BY DEF TypeOK, JobInv, SentOnce
<1>2. /\ Head(events).call # NoCall => Head(events).call \in Carried(events)
      /\ Once(Tail(events))
      /\ Carried(Tail(events)) = Carried(events) \ {Head(events).call}
  BY <1>1, ChannelShrinks
<1>3. Once(events)' <=> Once(events')
  BY DEF Once
<1> QED
  BY <1>1, <1>2, <1>3 DEF InEvents

\* No job is in hand outside of place_job.
LEMMA HandEmpty ==
    ASSUME TypeOK, pc \notin {"place", "reuse"}
    PROVE  held = NoCall /\ InHand = {}
BY DEF TypeOK, InHand

-----------------------------------------------------------------------------
LEMMA HandleSubmitJobs == ASSUME TypeOK, JobInv, HandleSubmit PROVE JobStep
<1>1. PICK j : j = Head(commands).call
  OBVIOUS
<1>2. /\ commands # <<>> /\ commands' = Tail(commands) /\ pc = "select" /\ held' = j
      /\ Head(commands).kind = "submit"
      /\ UNCHANGED <<answer, events, workers, queue, next_worker_id, tasks, oneshots>>
  BY <1>1 DEF HandleSubmit, Receive
<1>3. InCommands' = InCommands \ {j} /\ Once(commands)' /\ j \in Calls /\ j \in InCommands
  BY <1>1, <1>2, CommandTaken, NoCallIsNone DEF Commands
<1>4. InHand = {} /\ InHand' = {j}
  BY <1>2, <1>3, HandEmpty, NoCallIsNone DEF InHand
<1>5. /\ Agreement' /\ OwnedOnce' /\ TaskShape' /\ InTasks' = InTasks
      /\ Inboxes' = Inboxes /\ InEvents' = InEvents /\ Once(events)'
  BY <1>2, NothingMoves
<1>6. Waiting' = Waiting /\ InQueue' = InQueue /\ SentOnce'
  BY <1>2, <1>3, <1>5, PlacesStay DEF JobInv, SentOnce
<1>7. JobsApart' /\ NothingComesBack
  BY <1>2, <1>3, <1>4, <1>5, <1>6 DEF JobInv, JobsApart, NothingComesBack, Coming
<1> QED
  BY <1>5, <1>6, <1>7 DEF JobStep, JobInv, SlotsAgree

\* Steps that move no job and no worker.
LEMMA IdleStepJobs ==
    ASSUME TypeOK, JobInv, pc # "closed",
           UNCHANGED <<answer, events, workers, queue, held, next_worker_id, tasks, oneshots>>,
           InCommands' = InCommands, Once(commands)'
    PROVE  JobStep
<1>1. /\ Agreement' /\ OwnedOnce' /\ TaskShape' /\ InTasks' = InTasks
      /\ Inboxes' = Inboxes /\ InEvents' = InEvents /\ Once(events)'
  BY NothingMoves
<1>2. Waiting' = Waiting /\ InQueue' = InQueue /\ InHand' = InHand /\ SentOnce'
  BY <1>1, PlacesStay DEF JobInv, SentOnce
<1>3. JobsApart' /\ NothingComesBack
  BY <1>1, <1>2 DEF JobInv, JobsApart, NothingComesBack, Coming
<1> QED
  BY <1>1, <1>2, <1>3 DEF JobStep, JobInv, SlotsAgree

LEMMA HandlePrestartJobs == ASSUME TypeOK, JobInv, HandlePrestart PROVE JobStep
<1>1. /\ commands # <<>> /\ commands' = Tail(commands) /\ pc = "select"
      /\ Head(commands).kind = "prestart"
      /\ UNCHANGED <<answer, events, workers, queue, held, next_worker_id, tasks, oneshots>>
  BY DEF HandlePrestart, Receive
<1>2. InCommands' = InCommands \ {Head(commands).call} /\ Once(commands)' /\ Head(commands) \in Commands
  BY <1>1, CommandTaken
<1>3. Head(commands).call = NoCall
  BY <1>1, <1>2 DEF Commands
<1>4. InCommands' = InCommands
  BY <1>2, <1>3 DEF InCommands, Carried
<1> QED
  BY <1>1, <1>2, <1>4, IdleStepJobs

LEMMA QuietStepJobs ==
    ASSUME TypeOK, JobInv, PrestartDone \/ DrainNothing \/ RestoreDone PROVE JobStep
<1>1. /\ pc # "closed"
      /\ UNCHANGED <<answer, commands, events, workers, queue, held, next_worker_id, tasks, oneshots>>
  BY DEF PrestartDone, DrainNothing, RestoreDone, channelVars
<1>2. InCommands' = InCommands /\ Once(commands)'
  BY <1>1, PlacesStay DEF JobInv, SentOnce
<1> QED
  BY <1>1, <1>2, IdleStepJobs

\* A worker is started, for the head of the queue if there is one.
LEMMA SpawnForQueueJobs ==
    ASSUME TypeOK, JobInv, pc # "closed",
           SpawnWorker(IF queue = <<>> THEN NoCall ELSE Head(queue)),
           queue' = IF queue = <<>> THEN queue ELSE Tail(queue),
           UNCHANGED <<answer, commands, held, oneshots>>
    PROVE  JobStep
<1>1. PICK j : j = IF queue = <<>> THEN NoCall ELSE Head(queue)
  OBVIOUS
<1>2. PICK w : w = next_worker_id
  OBVIOUS
<1>3. /\ j \in (Calls \cup {NoCall}) \ InTasks /\ {j} \ {NoCall} \subseteq InQueue
      /\ InQueue' = InQueue \ ({j} \ {NoCall}) /\ IsInjective(queue)'
  <2>1. CASE queue = <<>>
    <3>1. NoCall \notin InTasks
      BY TaskRecords, NoCallIsNone DEF InTasks
    <3> QED
      BY <1>1, <2>1, <3>1, PlacesStay DEF JobInv, SentOnce
  <2>2. CASE queue # <<>>
    BY <1>1, <2>2, QueueHead, NoCallIsNone
  <2> QED
    BY <2>1, <2>2
<1>4. SpawnWorker(j) /\ events' = events
  BY <1>1 DEF SpawnWorker
<1>5. /\ OwnedOnce' /\ TaskShape' /\ InTasks' = InTasks \cup ({j} \ {NoCall})
      /\ Inboxes' \subseteq Inboxes \cup ({j} \ {NoCall})
  BY <1>2, <1>3, <1>4, SpawnGives DEF JobInv
<1>6. Agreement'
  BY <1>3, <1>4, SpawnAgrees DEF JobInv, SlotsAgree
<1>7. /\ Waiting' = Waiting /\ InCommands' = InCommands /\ InEvents' = InEvents
      /\ InHand' = InHand /\ SentOnce'
  BY <1>3, <1>4, PlacesStay DEF JobInv, SentOnce
<1>8. JobsApart' /\ NothingComesBack
  BY <1>3, <1>5, <1>7 DEF JobInv, JobsApart, NothingComesBack, Coming
<1> QED
  BY <1>5, <1>6, <1>7, <1>8 DEF JobStep, JobInv, SlotsAgree

\* No worker could be started; the calls S, that were queued, are answered so.
LEMMA FailedSpawnJobs ==
    ASSUME TypeOK, JobInv, pc # "closed", SpawnStillborn \/ SpawnFails,
           UNCHANGED <<commands, held, oneshots>>,
           NEW S \in SUBSET InQueue, answer' = Answered(S, "spawn_failed"),
           InQueue' = InQueue \ S, IsInjective(queue)'
    PROVE  JobStep
<1>1. /\ Agreement' /\ OwnedOnce' /\ TaskShape' /\ InTasks' = InTasks
      /\ Inboxes' = Inboxes /\ InEvents' = InEvents /\ Once(events)'
  BY FailedSpawnAgrees
<1>2. Waiting' = Waiting \ S
  BY AnsweredDoNotWait DEF Answers
<1>3. InCommands' = InCommands /\ InHand' = InHand /\ SentOnce'
  BY <1>1, PlacesStay DEF JobInv, SentOnce
<1>4. JobsApart' /\ NothingComesBack
  BY <1>1, <1>2, <1>3 DEF JobInv, JobsApart, NothingComesBack, Coming
<1> QED
  BY <1>1, <1>3, <1>4 DEF JobStep, JobInv, SlotsAgree

LEMMA PrestartStillbornJobs == ASSUME TypeOK, JobInv, PrestartStillborn PROVE JobStep
<1>1. /\ queue # <<>> /\ queue' = Tail(queue) /\ held' = Head(queue) /\ pc = "prestart"
      /\ SpawnStillborn /\ UNCHANGED <<answer, commands, oneshots>>
  BY DEF PrestartStillborn
<1>2. /\ Head(queue) \in Calls /\ Head(queue) \in InQueue
      /\ InQueue' = InQueue \ {Head(queue)} /\ IsInjective(queue)'
  BY <1>1, QueueHead
<1>3. InHand = {} /\ InHand' = {Head(queue)}
  BY <1>1, <1>2, HandEmpty, NoCallIsNone DEF InHand
<1>4. /\ Agreement' /\ OwnedOnce' /\ TaskShape' /\ InTasks' = InTasks
      /\ Inboxes' = Inboxes /\ InEvents' = InEvents /\ Once(events)'
  BY <1>1, FailedSpawnAgrees
<1>5. Waiting' = Waiting /\ InCommands' = InCommands /\ SentOnce'
  BY <1>1, <1>2, <1>4, PlacesStay DEF JobInv, SentOnce
<1>6. JobsApart' /\ NothingComesBack
  BY <1>1, <1>2, <1>3, <1>4, <1>5 DEF JobInv, JobsApart, NothingComesBack, Coming
<1> QED
  BY <1>4, <1>5, <1>6 DEF JobStep, JobInv, SlotsAgree

LEMMA PrestartFailsJobs == ASSUME TypeOK, JobInv, PrestartFails PROVE JobStep
<1>1. /\ SpawnFails /\ pc # "closed"
      /\ UNCHANGED <<answer, commands, queue, held, oneshots>>
  BY DEF PrestartFails
<1>2. /\ Agreement' /\ OwnedOnce' /\ TaskShape' /\ InTasks' = InTasks
      /\ Inboxes' = Inboxes /\ InEvents' = InEvents /\ Once(events)'
  BY <1>1, FailedSpawnAgrees
<1>3. /\ Waiting' = Waiting /\ InCommands' = InCommands /\ InQueue' = InQueue
      /\ InHand' = InHand /\ SentOnce'
  BY <1>1, <1>2, PlacesStay DEF JobInv, SentOnce
<1>4. JobsApart' /\ NothingComesBack
  BY <1>1, <1>2, <1>3 DEF JobInv, JobsApart, NothingComesBack, Coming
<1> QED
  BY <1>2, <1>3, <1>4 DEF JobStep, JobInv, SlotsAgree

LEMMA CloseJobs == ASSUME TypeOK, JobInv, pc = "select", Close PROVE JobStep
<1>1. JobsStay
  BY RemoveStays DEF Close
<1>2. OwnedOnce' /\ TaskShape' /\ InTasks' = InTasks /\ Inboxes' = Inboxes
  BY <1>1, StayingJobs DEF JobInv
<1>3. /\ queue' = <<>> /\ commands' = <<>> /\ events' = <<>> /\ pc' = "closed"
      /\ UNCHANGED <<held, oneshots>>
      /\ answer' = Answered(InQueue \cup InCommands \cup InEvents, "closed")
  BY DEF Close, InQueue, InCommands, InEvents
<1>4. InQueue' = {} /\ InCommands' = {} /\ InEvents' = {} /\ SentOnce'
  BY <1>3 DEF InQueue, InCommands, InEvents, Range, Carried, SentOnce, Once, IsInjective
<1>5. InHand' = InHand
  BY <1>3, PlacesStay
<1>6. Waiting' = Waiting \ (InQueue \cup InCommands \cup InEvents)
  BY <1>3, AnsweredDoNotWait DEF Answers
<1>7. JobsApart' /\ NothingComesBack
  BY <1>2, <1>3, <1>4, <1>5, <1>6 DEF JobInv, JobsApart, NothingComesBack, Coming
<1> QED
  BY <1>2, <1>3, <1>4, <1>7 DEF JobStep, JobInv, SlotsAgree

LEMMA HandleCommandJobs == ASSUME TypeOK, JobInv, HandleCommand PROVE JobStep
<1>1. CASE HandleSubmit
  BY <1>1, HandleSubmitJobs
<1>2. CASE HandlePrestart
  BY <1>2, HandlePrestartJobs
<1>3. CASE PrestartWorker
  BY <1>3, SpawnForQueueJobs DEF PrestartWorker
<1>4. CASE PrestartStillborn
  BY <1>4, PrestartStillbornJobs
<1>5. CASE PrestartFails
  BY <1>5, PrestartFailsJobs
<1>6. CASE PrestartDone
  BY <1>6, QuietStepJobs
<1>7. CASE HandleShutdown \/ HandlesDropped
  BY <1>7, CloseJobs DEF HandleShutdown, HandlesDropped
<1> QED
  BY <1>1, <1>2, <1>3, <1>4, <1>5, <1>6, <1>7 DEF HandleCommand

-------------------------------------------------------------------------------
(***************************************************************************)
(* The handlers of the events.                                             *)
(***************************************************************************)

\* The queue when nobody is left to serve it.
LEMMA QueueEmptied ==
    ASSUME queue' = <<>> PROVE InQueue' = {} /\ IsInjective(queue)'
BY DEF InQueue, Range, IsInjective

LEMMA DrainToIdleJobs == ASSUME TypeOK, JobInv, DrainToIdle PROVE JobStep
<1>1. PICK j : j = Head(queue)
  OBVIOUS
<1>2. /\ queue # <<>> /\ queue' = Tail(queue) /\ pc = "drain"
      /\ UNCHANGED <<answer, commands, events, held, next_worker_id, oneshots>>
  BY DEF DrainToIdle, channelVars
<1>3. /\ j \in Calls \ InTasks /\ j \in InQueue
      /\ InQueue' = InQueue \ {j} /\ IsInjective(queue)'
  BY <1>1, <1>2, QueueHead
<1>4. PICK w \in Idle : Dispatch(w, j)
  BY <1>1 DEF DrainToIdle
<1>5. Agreement
  BY <1>2 DEF JobInv, SlotsAgree
<1>6. Owned(w) = {}
  BY <1>4, <1>5, IdleAreFree DEF Dispatch, Receives
<1>7. /\ OwnedOnce' /\ TaskShape' /\ InTasks' = InTasks \cup {j}
      /\ Inboxes' \subseteq Inboxes \cup {j}
  BY <1>3, <1>4, <1>6, DispatchGives DEF JobInv
<1>8. Agreement'
  BY <1>2, <1>3, <1>4, <1>5, DispatchAgrees DEF JobInv
<1>9. /\ Waiting' = Waiting /\ InCommands' = InCommands /\ InEvents' = InEvents
      /\ InHand' = InHand /\ SentOnce'
  BY <1>2, <1>3, PlacesStay DEF JobInv, SentOnce
<1>10. JobsApart' /\ NothingComesBack
  BY <1>2, <1>3, <1>7, <1>9 DEF JobInv, JobsApart, NothingComesBack, Coming
<1> QED
  BY <1>7, <1>8, <1>9, <1>10 DEF JobStep, JobInv, SlotsAgree

LEMMA DrainToIdleFailsJobs == ASSUME TypeOK, JobInv, DrainToIdleFails PROVE JobStep
<1>1. /\ queue # <<>> /\ queue' = Tail(queue) /\ held' = Head(queue) /\ pc = "drain"
      /\ UNCHANGED <<answer, commands, events, next_worker_id, oneshots>>
  BY DEF DrainToIdleFails, channelVars
<1>2. /\ Head(queue) \in Calls /\ Head(queue) \in InQueue
      /\ InQueue' = InQueue \ {Head(queue)} /\ IsInjective(queue)'
  BY <1>1, QueueHead
<1>3. InHand = {} /\ InHand' = {Head(queue)}
  BY <1>1, <1>2, HandEmpty, NoCallIsNone DEF InHand
<1>4. PICK w \in Idle : w \notin DOMAIN tasks /\ RemoveWorkers({w})
  BY DEF DrainToIdleFails, DispatchFails, Receives
<1>5. Agreement
  BY <1>1 DEF JobInv, SlotsAgree
<1>6. OwnedOnce' /\ TaskShape' /\ InTasks' = InTasks /\ Inboxes' = Inboxes
  BY <1>4, RemoveStays, StayingJobs DEF JobInv
<1>7. Agreement'
  <2>1. Pending' = Pending /\ StoppedLast(events')
    BY <1>1, <1>5 DEF Pending, Agreement
  <2>2. \A e \in Pending : e.kind = "finished" => e.worker # w
    BY <1>4, <1>5, IdleAreFree
  <2> QED
    BY <1>1, <1>4, <1>5, <2>1, <2>2, RemoveAgrees DEF JobInv
<1>8. /\ Waiting' = Waiting /\ InCommands' = InCommands /\ InEvents' = InEvents /\ SentOnce'
  BY <1>1, <1>2, PlacesStay DEF JobInv, SentOnce
<1>9. JobsApart' /\ NothingComesBack
  BY <1>1, <1>2, <1>3, <1>6, <1>8 DEF JobInv, JobsApart, NothingComesBack, Coming
<1> QED
  BY <1>6, <1>7, <1>8, <1>9 DEF JobStep, JobInv, SlotsAgree

LEMMA DrainJobs == ASSUME TypeOK, JobInv, DrainOneQueuedTask PROVE JobStep
<1>1. CASE DrainToIdle
  BY <1>1, DrainToIdleJobs
<1>2. CASE DrainToIdleFails
  BY <1>2, DrainToIdleFailsJobs
<1>3. CASE DrainToNew
  BY <1>3, SpawnForQueueJobs DEF DrainToNew, DrainNeedsWorker
<1>4. CASE DrainToStillborn
  <2>1. /\ queue # <<>> /\ queue' = Tail(queue) /\ pc # "closed" /\ SpawnStillborn
        /\ UNCHANGED <<commands, held, oneshots>>
        /\ answer' = Answered({Head(queue)}, "spawn_failed")
    BY <1>4 DEF DrainToStillborn, DrainNeedsWorker
  <2>2. /\ {Head(queue)} \in SUBSET InQueue
        /\ InQueue' = InQueue \ {Head(queue)} /\ IsInjective(queue)'
    BY <2>1, QueueHead
  <2> QED
    BY <2>1, <2>2, FailedSpawnJobs
<1>5. CASE DrainSpawnFails
  <2>1. PICK S : S = IF PoolSize = 0 THEN InQueue ELSE {Head(queue)}
    OBVIOUS
  <2>2. /\ queue # <<>> /\ pc # "closed" /\ SpawnFails
        /\ queue' = IF PoolSize = 0 THEN <<>> ELSE Tail(queue)
        /\ UNCHANGED <<commands, held, oneshots>>
        /\ answer' = Answered(S, "spawn_failed")
    BY <1>5, <2>1 DEF DrainSpawnFails, DrainNeedsWorker, InQueue
  <2>3. S \in SUBSET InQueue /\ InQueue' = InQueue \ S /\ IsInjective(queue)'
    BY <2>1, <2>2, QueueHead, QueueEmptied
  <2> QED
    BY <2>2, <2>3, FailedSpawnJobs
<1>6. CASE DrainNothing
  BY <1>6, QuietStepJobs
<1> QED
  BY <1>1, <1>2, <1>3, <1>4, <1>5, <1>6 DEF DrainOneQueuedTask

LEMMA RestoreJobs == ASSUME TypeOK, JobInv, RestoreCoreWorkers PROVE JobStep
<1>1. CASE RestoreWorker
  BY <1>1, SpawnForQueueJobs DEF RestoreWorker
<1>2. CASE RestoreStillborn
  <2>1. /\ queue # <<>> /\ queue' = Tail(queue) /\ pc # "closed" /\ SpawnStillborn
        /\ UNCHANGED <<commands, held, oneshots>>
        /\ answer' = Answered({Head(queue)}, "spawn_failed")
    BY <1>2 DEF RestoreStillborn
  <2>2. /\ {Head(queue)} \in SUBSET InQueue
        /\ InQueue' = InQueue \ {Head(queue)} /\ IsInjective(queue)'
    BY <2>1, QueueHead
  <2> QED
    BY <2>1, <2>2, FailedSpawnJobs
<1>3. CASE RestoreFails
  <2>1. PICK S : S = IF PoolSize = 0 THEN InQueue ELSE {}
    OBVIOUS
  <2>2. /\ pc # "closed" /\ SpawnFails
        /\ queue' = IF PoolSize = 0 THEN <<>> ELSE queue
        /\ UNCHANGED <<commands, held, oneshots>>
        /\ answer' = Answered(S, "spawn_failed")
    BY <1>3, <2>1 DEF RestoreFails, InQueue
  <2>3. S \in SUBSET InQueue /\ InQueue' = InQueue \ S /\ IsInjective(queue)'
    BY <2>1, <2>2, QueueEmptied, PlacesStay DEF JobInv, SentOnce
  <2> QED
    BY <2>2, <2>3, FailedSpawnJobs
<1>4. CASE RestoreDone
  BY <1>4, QuietStepJobs
<1> QED
  BY <1>1, <1>2, <1>3, <1>4 DEF RestoreCoreWorkers

-----------------------------------------------------------------------------
LEMMA HandleFinishedJobs == ASSUME TypeOK, JobInv, HandleFinished PROVE JobStep
<1>1. PICK w, j : w = Head(events).worker /\ j = Head(events).call
  OBVIOUS
<1>2. /\ events # <<>> /\ events' = Tail(events) /\ pc = "select"
      /\ Head(events).kind = "finished"
      /\ UNCHANGED <<commands, held, queue, next_worker_id, oneshots>>
      /\ answer' = Answered({j}, Head(events).outcome)
  BY <1>1 DEF HandleFinished, Event
<1>3. /\ InEvents' = InEvents \ {j} /\ Once(events)' /\ j \in InEvents
      /\ Head(events).outcome \in Outcomes
  BY <1>1, <1>2, EventOut, NoCallIsNone DEF Events
<1>4. /\ w \in DOMAIN workers
      /\ w \in DOMAIN tasks => Owned(w) = {}
      /\ \A e \in Range(Tail(events)) : e.kind = "finished" => e.worker # w
  BY <1>1, <1>2, FinishedHead
<1>5. Agreement
  BY <1>2 DEF JobInv, SlotsAgree
<1>6. Agreement' /\ JobsStay
  <2>1. CASE Head(events).outcome \in Reusable
    <3>1. /\ workers' = [v \in DOMAIN workers |-> IF v = w THEN NoCall ELSE workers[v]]
          /\ UNCHANGED tasks
      BY <1>1, <2>1 DEF HandleFinished
    <3> QED
      BY <1>1, <1>2, <2>1, <3>1, FreeAgrees, PlacesStay
  <2>2. CASE Head(events).outcome \notin Reusable
    <3>1. RemoveWorkers({w})
      BY <1>1, <2>2 DEF HandleFinished
    <3>2. /\ Pending' = Range(Tail(events)) /\ Pending = Pending' \cup {Head(events)}
          /\ StoppedLast(events')
      BY <1>2, <1>5, EventTaken DEF Agreement, Pending
    <3>3. Agreement'
      BY <1>1, <1>2, <1>4, <1>5, <3>1, <3>2, RemoveAgrees DEF JobInv
    <3> QED
      BY <3>1, <3>3, RemoveStays
  <2> QED
    BY <2>1, <2>2
<1>7. OwnedOnce' /\ TaskShape' /\ InTasks' = InTasks /\ Inboxes' = Inboxes
  BY <1>6, StayingJobs DEF JobInv
<1>8. Waiting' = Waiting \ {j}
  BY <1>2, <1>3, AnsweredDoNotWait DEF Answers
<1>9. /\ InCommands' = InCommands /\ InHand' = InHand /\ InQueue' = InQueue /\ SentOnce'
  BY <1>2, <1>3, PlacesStay DEF JobInv, SentOnce
<1>10. JobsApart' /\ NothingComesBack
  BY <1>2, <1>3, <1>7, <1>8, <1>9 DEF JobInv, JobsApart, NothingComesBack, Coming
<1> QED
  BY <1>6, <1>7, <1>9, <1>10 DEF JobStep, JobInv, SlotsAgree

LEMMA HandleOneShotJobs == ASSUME TypeOK, JobInv, HandleOneShotFinished PROVE JobStep
<1>1. PICK j : j = Head(events).call
  OBVIOUS
<1>2. /\ events # <<>> /\ events' = Tail(events) /\ pc = "select"
      /\ Head(events).kind = "oneshot"
      /\ UNCHANGED <<commands, held, queue, workers, tasks, next_worker_id, oneshots>>
      /\ answer' = Answered({j}, Head(events).outcome)
  BY <1>1 DEF HandleOneShotFinished, Event
<1>3. /\ InEvents' = InEvents \ {j} /\ Once(events)' /\ j \in InEvents
      /\ Head(events).outcome \in Outcomes
  BY <1>1, <1>2, EventOut, NoCallIsNone DEF Events
<1>4. Agreement'
  <2>1. Agreement
    BY <1>2 DEF JobInv, SlotsAgree
  <2>2. /\ Pending = Pending' \cup {Head(events)} /\ StoppedLast(events')
    BY <1>2, <2>1, EventTaken DEF Agreement, Pending
  <2> QED
    BY <1>2, <2>1, <2>2, EventsAgree
<1>5. OwnedOnce' /\ TaskShape' /\ InTasks' = InTasks /\ Inboxes' = Inboxes
  BY <1>2, PlacesStay, StayingJobs DEF JobInv
<1>6. Waiting' = Waiting \ {j}
  BY <1>2, <1>3, AnsweredDoNotWait DEF Answers
<1>7. /\ InCommands' = InCommands /\ InHand' = InHand /\ InQueue' = InQueue /\ SentOnce'
  BY <1>2, <1>3, PlacesStay DEF JobInv, SentOnce
<1>8. JobsApart' /\ NothingComesBack
  BY <1>2, <1>3, <1>5, <1>6, <1>7 DEF JobInv, JobsApart, NothingComesBack, Coming
<1> QED
  BY <1>4, <1>5, <1>7, <1>8 DEF JobStep, JobInv, SlotsAgree

LEMMA HandleStoppedJobs == ASSUME TypeOK, JobInv, HandleStopped PROVE JobStep
<1>1. PICK w : w = Head(events).worker
  OBVIOUS
<1>2. /\ events # <<>> /\ events' = Tail(events) /\ pc = "select"
      /\ Head(events).kind = "stopped" /\ RemoveWorkers({w})
      /\ UNCHANGED <<answer, commands, held, queue, next_worker_id, oneshots>>
  BY <1>1 DEF HandleStopped, Event
<1>3. /\ InEvents' = InEvents \ {Head(events).call} /\ Once(events)'
      /\ Head(events).call = NoCall
  BY <1>2, EventOut DEF Events
<1>4. InEvents' = InEvents
  BY <1>3 DEF InEvents, Carried
<1>5. Agreement
  BY <1>2 DEF JobInv, SlotsAgree
<1>6. Agreement'
  <2>1. /\ Pending' = Range(Tail(events)) /\ Pending = Pending' \cup {Head(events)}
        /\ StoppedLast(events')
    BY <1>2, <1>5, EventTaken DEF Agreement, Pending
  <2>2. /\ w \notin DOMAIN tasks
        /\ \A e \in Range(Tail(events)) : e.kind = "finished" => e.worker # w
    BY <1>1, <1>2, <1>5, StoppedHead
  <2> QED
    BY <1>1, <1>2, <1>5, <2>1, <2>2, RemoveAgrees DEF JobInv
<1>7. OwnedOnce' /\ TaskShape' /\ InTasks' = InTasks /\ Inboxes' = Inboxes
  BY <1>2, RemoveStays, StayingJobs DEF JobInv
<1>8. /\ Waiting' = Waiting /\ InCommands' = InCommands /\ InHand' = InHand
      /\ InQueue' = InQueue /\ SentOnce'
  BY <1>2, <1>3, PlacesStay DEF JobInv, SentOnce
<1>9. JobsApart' /\ NothingComesBack
  BY <1>2, <1>4, <1>7, <1>8 DEF JobInv, JobsApart, NothingComesBack, Coming
<1> QED
  BY <1>6, <1>7, <1>8, <1>9 DEF JobStep, JobInv, SlotsAgree

LEMMA SupervisorJobs == ASSUME TypeOK, JobInv, SupervisorStep PROVE JobStep
BY HandleCommandJobs, PlaceJobJobs, HandleFinishedJobs, HandleOneShotJobs,
   HandleStoppedJobs, DrainJobs, RestoreJobs, RetireJobs
   DEF SupervisorStep, HandleWorkerEvent

-------------------------------------------------------------------------------
(***************************************************************************)
(* The tasks and the callers, and the initial states.                      *)
(***************************************************************************)

\* A job moves into an event, unless nobody receives events any more.
LEMMA SendMoves ==
    ASSUME TypeOK, JobInv, NEW e \in Events, Send(e), pc # "closed", e.call \notin InEvents
    PROVE  /\ Pending' = Pending \cup {e}
           /\ InEvents' = InEvents \cup ({e.call} \ {NoCall}) /\ Once(events)'
<1>1. events' = Append(events, e) /\ events \in Seq(Events) /\ Once(events)
  BY DEF Send, TypeOK, JobInv, SentOnce
<1>2. /\ Carried(Append(events, e)) = Carried(events) \cup ({e.call} \ {NoCall})
      /\ Once(Append(events, e))
  BY <1>1, ChannelGrows DEF InEvents
<1>3. Once(events)' <=> Once(events')
  BY DEF Once
<1>4. Pending' = Pending \cup {e}
  BY <1>1, EventSent DEF Pending
<1> QED
  BY <1>1, <1>2, <1>3, <1>4 DEF InEvents

LEMMA TakeJobJobs ==
    ASSUME TypeOK, JobInv, NEW w \in DOMAIN tasks, TakeJob(w) PROVE JobStep
<1>1. /\ OwnedOnce' /\ TaskShape' /\ InTasks' = InTasks /\ Inboxes' \subseteq Inboxes
      /\ DOMAIN tasks' = DOMAIN tasks
      /\ \A v \in DOMAIN tasks : Owned(v)' = Owned(v) /\ tasks'[v].abort = tasks[v].abort
      /\ tasks'[w].at = "exchange"
      /\ \A v \in DOMAIN tasks \ {w} : tasks'[v] = tasks[v]
  BY TakeKeepsOwned DEF JobInv
<1>2. /\ UNCHANGED <<answer, commands, events, held, queue, workers, next_worker_id, oneshots>>
      /\ pc' = pc
  BY DEF TakeJob, channelVars, supervisorVars
<1>3. SlotsAgree'
  BY <1>1, <1>2, TaskMovesAgree DEF JobInv, SlotsAgree
<1>4. /\ Waiting' = Waiting /\ InCommands' = InCommands /\ InEvents' = InEvents
      /\ InHand' = InHand /\ InQueue' = InQueue /\ SentOnce'
  BY <1>2, PlacesStay DEF JobInv, SentOnce
<1>5. JobsApart' /\ NothingComesBack
  BY <1>1, <1>2, <1>4 DEF JobInv, JobsApart, NothingComesBack, Coming
<1> QED
  BY <1>1, <1>3, <1>4, <1>5 DEF JobStep, JobInv

LEMMA TaskStaysJobs ==
    ASSUME TypeOK, JobInv, NEW w \in DOMAIN tasks, InboxClosed(w) \/ ChildExits(w)
    PROVE  JobStep
<1>1. tasks[w] \in Tasks
  BY TaskRecords
<1>2. /\ JobsStay
      /\ \A v \in DOMAIN tasks : /\ tasks'[v].abort = tasks[v].abort
                                 /\ tasks'[v].at = "kill" =>
                                       tasks[v].at = "kill" \/ v \notin DOMAIN workers
  <2>1. CASE InboxClosed(w)
    BY <1>1, <2>1 DEF InboxClosed, JobsStay, Tasks
  <2>2. CASE ChildExits(w)
    BY <1>1, <2>2 DEF ChildExits, JobsStay, Tasks
  <2> QED
    BY <2>1, <2>2
<1>3. /\ OwnedOnce' /\ TaskShape' /\ InTasks' = InTasks /\ Inboxes' = Inboxes
      /\ \A v \in DOMAIN tasks : Owned(v)' = Owned(v)
  BY <1>2, StayingJobs DEF JobInv
<1>4. /\ UNCHANGED <<answer, commands, events, held, queue, workers, next_worker_id, oneshots>>
      /\ pc' = pc
  BY DEF InboxClosed, ChildExits, channelVars, supervisorVars
<1>5. SlotsAgree'
  BY <1>2, <1>3, <1>4, TaskMovesAgree DEF JobInv, SlotsAgree, JobsStay
<1>6. /\ Waiting' = Waiting /\ InCommands' = InCommands /\ InEvents' = InEvents
      /\ InHand' = InHand /\ InQueue' = InQueue /\ SentOnce'
  BY <1>4, PlacesStay DEF JobInv, SentOnce
<1>7. JobsApart' /\ NothingComesBack
  BY <1>3, <1>4, <1>6 DEF JobInv, JobsApart, NothingComesBack, Coming
<1> QED
  BY <1>3, <1>5, <1>6, <1>7 DEF JobStep, JobInv

\* A task ends, with or without a word.
LEMMA EndJobs ==
    ASSUME TypeOK, JobInv, NEW w \in DOMAIN tasks, NoticeExit(w) \/ KillChild(w) \/ Cancel(w)
    PROVE  JobStep
<1>1. End(w) /\ answer' = Answered(Owned(w), "closed")
  BY DEF NoticeExit, KillChild, Cancel, End
<1>2. /\ OwnedOnce' /\ TaskShape' /\ InTasks' = InTasks \ Owned(w) /\ Inboxes' \subseteq Inboxes
  BY <1>1, EndTakesAlong DEF JobInv
<1>3. /\ UNCHANGED <<commands, held, queue, workers, next_worker_id, oneshots>>
      /\ pc' = pc
  BY DEF NoticeExit, KillChild, Cancel, channelVars, supervisorVars
<1>4. SlotsAgree' /\ InEvents' = InEvents /\ Once(events)'
  <2>1. CASE events' = events /\ ~NoticeExit(w)
    <3>1. InEvents' = InEvents /\ Once(events)' /\ Pending' = Pending
      BY <2>1, PlacesStay DEF JobInv, SentOnce, Pending
    <3>2. ASSUME pc # "closed", w \in DOMAIN workers
          PROVE  Broke(w)'
      <4>1. Agreement
        BY <3>2 DEF JobInv, SlotsAgree
      <4>2. Broke(w)
        BY <2>1, <3>2, <4>1
           DEF KillChild, Cancel, Agreement, KilledSaidSo, AbortedAreOut
      <4> QED
        BY <3>1, <4>2 DEF Broke
    <3>3. SlotsAgree'
      BY <1>1, <1>3, <2>1, <3>1, <3>2, EndAgrees DEF JobInv, SlotsAgree, Agreement
    <3> QED
      BY <3>1, <3>3
  <2>2. CASE NoticeExit(w) /\ pc = "closed"
    <3>1. events' = events
      BY <2>2 DEF NoticeExit, Send
    <3> QED
      BY <1>3, <2>2, <3>1, PlacesStay DEF JobInv, SentOnce, SlotsAgree
  <2>3. CASE NoticeExit(w) /\ pc # "closed"
    <3>1. PICK e : e = Stopped(w)
      OBVIOUS
    <3>2. /\ e \in Events /\ e.kind = "stopped" /\ e.worker = w /\ e.call = NoCall
          /\ Send(e)
      BY <2>3, <3>1 DEF NoticeExit, Stopped, Events, TypeOK, Outcomes
    <3>3. e.call \notin InEvents
      BY <3>2 DEF InEvents, Carried
    <3>4. /\ Pending' = Pending \cup {e} /\ InEvents' = InEvents /\ Once(events)'
      BY <2>3, <3>2, <3>3, SendMoves
    <3>5. Agreement /\ StoppedLast(events')
      BY <2>3, <3>2, LastWords DEF JobInv, SlotsAgree, Agreement, Send
    <3>6. Reports("stopped", w)'
      BY <3>2, <3>4 DEF Reports
    <3>7. Agreement'
      BY <1>1, <1>3, <3>1, <3>4, <3>5, <3>6, EndAgrees DEF JobInv
    <3> QED
      BY <3>4, <3>7 DEF SlotsAgree
  <2> QED
    BY <2>1, <2>2, <2>3 DEF KillChild, Cancel, channelVars
<1>5. Waiting' = Waiting \ Owned(w)
  BY <1>1, AnsweredDoNotWait DEF Answers
<1>6. /\ InCommands' = InCommands /\ InHand' = InHand /\ InQueue' = InQueue /\ SentOnce'
  BY <1>3, <1>4, PlacesStay DEF JobInv, SentOnce
<1>7. JobsApart' /\ NothingComesBack
  <2>1. Owned(w) \subseteq InTasks
    BY DEF InTasks
  <2> QED
    BY <1>2, <1>3, <1>4, <1>5, <1>6, <2>1 DEF JobInv, JobsApart, NothingComesBack, Coming
<1> QED
  BY <1>2, <1>4, <1>6, <1>7 DEF JobStep, JobInv

LEMMA ExchangeJobs ==
    ASSUME TypeOK, JobInv, NEW w \in DOMAIN tasks, NEW o \in Outcomes, Exchange(w, o)
    PROVE  JobStep
<1>1. PICK j : j = tasks[w].call
  OBVIOUS
<1>2. /\ OwnedOnce' /\ TaskShape' /\ InTasks' = InTasks \ {j} /\ Inboxes' = Inboxes
      /\ j \in Calls /\ Owned(w) = {j}
  BY <1>1, ExchangeReleases DEF JobInv
<1>3. j \in InTasks
  BY <1>2 DEF InTasks
<1>4. UNCHANGED <<commands, held, queue, oneshots>> /\ pc' = pc
  BY DEF Exchange, supervisorVars
<1>5. InCommands' = InCommands /\ InHand' = InHand /\ InQueue' = InQueue
  BY <1>4, PlacesStay
<1>6. CASE pc = "closed"
  <2>1. events' = events /\ answer' = Answered({j}, "closed")
    BY <1>1, <1>6 DEF Exchange, Send
  <2>2. Waiting' = Waiting \ {j} /\ InEvents' = InEvents /\ SentOnce'
    BY <1>4, <2>1, AnsweredDoNotWait, PlacesStay DEF Answers, JobInv, SentOnce
  <2>3. JobsApart' /\ NothingComesBack
    BY <1>2, <1>3, <1>4, <1>5, <2>2 DEF JobInv, JobsApart, NothingComesBack, Coming
  <2> QED
    BY <1>2, <1>4, <1>6, <2>2, <2>3 DEF JobStep, JobInv, SlotsAgree
<1>7. CASE pc # "closed"
  <2>1. PICK e : e = Finished(w, j, o)
    OBVIOUS
  <2>2. /\ e \in Events /\ e.call = j /\ Send(e) /\ UNCHANGED answer
    BY <1>1, <1>2, <1>7, <2>1 DEF Exchange, Finished, Events, TypeOK
  <2>3. j \notin InEvents /\ Agreement
    BY <1>3, <1>7 DEF JobInv, JobsApart, SlotsAgree
  <2>4. InEvents' = InEvents \cup {j} /\ Once(events)'
    BY <1>2, <1>7, <2>2, <2>3, SendMoves, NoCallIsNone
  <2>5. Agreement'
    BY <1>7, <2>3, ExchangeAgrees DEF JobInv
  <2>6. Waiting' = Waiting /\ SentOnce'
    BY <1>4, <2>2, <2>4, PlacesStay DEF JobInv, SentOnce
  <2>7. JobsApart' /\ NothingComesBack
    BY <1>2, <1>3, <1>4, <1>5, <2>4, <2>6 DEF JobInv, JobsApart, NothingComesBack, Coming
  <2> QED
    BY <1>2, <2>5, <2>6, <2>7 DEF JobStep, JobInv, SlotsAgree
<1> QED
  BY <1>6, <1>7

LEMMA OneShotJobs ==
    ASSUME TypeOK, JobInv, NEW j \in Calls, OneShotStep(j)
    PROVE  JobStep
<1>1. PICK o \in Outcomes : OneShotEnds(j, o)
  BY DEF OneShotStep
<1>2. /\ oneshots' = oneshots \ {j} /\ j \in oneshots /\ pc' = pc
      /\ UNCHANGED <<commands, held, queue, workers, tasks, next_worker_id>>
  BY <1>1 DEF OneShotEnds, supervisorVars
<1>3. InCommands' = InCommands /\ InHand' = InHand /\ InQueue' = InQueue
  BY <1>2, PlacesStay
<1>4. OwnedOnce' /\ TaskShape' /\ InTasks' = InTasks /\ Inboxes' = Inboxes
  BY <1>2, PlacesStay, StayingJobs DEF JobInv
<1>5. CASE pc = "closed"
  <2>1. events' = events /\ answer' = Answered({j}, "closed")
    BY <1>1, <1>5 DEF OneShotEnds, Send
  <2>2. Waiting' = Waiting \ {j} /\ InEvents' = InEvents /\ SentOnce'
    BY <1>2, <2>1, AnsweredDoNotWait, PlacesStay DEF Answers, JobInv, SentOnce
  <2>3. JobsApart' /\ NothingComesBack
    BY <1>2, <1>3, <1>4, <2>2 DEF JobInv, JobsApart, NothingComesBack, Coming
  <2> QED
    BY <1>2, <1>4, <1>5, <2>2, <2>3 DEF JobStep, JobInv, SlotsAgree
<1>6. CASE pc # "closed"
  <2>1. PICK e : e = OneShotFinished(j, o)
    OBVIOUS
  <2>2. /\ e \in Events /\ e.kind = "oneshot" /\ e.call = j /\ Send(e) /\ UNCHANGED answer
    BY <1>1, <1>6, <2>1 DEF OneShotEnds, OneShotFinished, Events, NoWorker
  <2>3. j \notin InEvents /\ Agreement
    BY <1>2, <1>6 DEF JobInv, JobsApart, SlotsAgree
  <2>4. InEvents' = InEvents \cup {j} /\ Once(events)' /\ Pending' = Pending \cup {e}
    BY <1>6, <2>2, <2>3, SendMoves, NoCallIsNone
  <2>5. StoppedLast(events')
    BY <1>6, <2>2, <2>3, LastWords DEF Agreement, Send
  <2>6. Agreement'
    BY <1>2, <2>2, <2>3, <2>4, <2>5, EventsAgree
  <2>7. Waiting' = Waiting /\ SentOnce'
    BY <1>2, <2>2, <2>4, PlacesStay DEF JobInv, SentOnce
  <2>8. JobsApart' /\ NothingComesBack
    BY <1>2, <1>3, <1>4, <2>4, <2>7 DEF JobInv, JobsApart, NothingComesBack, Coming
  <2> QED
    BY <1>4, <2>6, <2>7, <2>8 DEF JobStep, JobInv, SlotsAgree
<1> QED
  BY <1>5, <1>6

-----------------------------------------------------------------------------
\* What a step does that only touches the commands and the answers.
LEMMA ClientMoves ==
    ASSUME TypeOK, JobInv,
           UNCHANGED <<pc, events, workers, queue, held, next_worker_id, tasks, oneshots>>
    PROVE  /\ SlotsAgree' /\ OwnedOnce' /\ TaskShape' /\ InTasks' = InTasks
           /\ Inboxes' = Inboxes /\ InEvents' = InEvents /\ Once(events)'
           /\ InQueue' = InQueue /\ InHand' = InHand /\ IsInjective(queue)'
<1>1. /\ OwnedOnce' /\ TaskShape' /\ InTasks' = InTasks
      /\ Inboxes' = Inboxes /\ InEvents' = InEvents /\ Once(events)'
      /\ InQueue' = InQueue /\ InHand' = InHand /\ IsInjective(queue)'
  BY PlacesStay, StayingJobs DEF JobInv, SentOnce
<1>2. SlotsAgree'
  BY NothingMoves DEF SlotsAgree
<1> QED
  BY <1>1, <1>2

LEMMA CommandSent ==
    ASSUME TypeOK, JobInv, NEW c \in Commands, commands' = Append(commands, c),
           c.call \notin InCommands
    PROVE  InCommands' = InCommands \cup ({c.call} \ {NoCall}) /\ Once(commands)'
<1>1. commands \in Seq(Commands) /\ Once(commands)
  BY DEF TypeOK, JobInv, SentOnce
<1>2. /\ Carried(Append(commands, c)) = Carried(commands) \cup ({c.call} \ {NoCall})
      /\ Once(Append(commands, c))
  BY <1>1, ChannelGrows DEF InCommands
<1>3. Once(commands)' <=> Once(commands')
  BY DEF Once
<1> QED
  BY <1>2, <1>3 DEF InCommands

LEMMA ExecuteJobs ==
    ASSUME TypeOK, JobInv, NEW j \in Calls, Execute(j) PROVE JobStep
<1>1. UNCHANGED <<pc, events, workers, queue, held, next_worker_id, tasks, oneshots>>
  BY DEF Execute, supervisorVars
<1>2. /\ SlotsAgree' /\ OwnedOnce' /\ TaskShape' /\ InTasks' = InTasks
      /\ Inboxes' = Inboxes /\ InEvents' = InEvents /\ Once(events)'
      /\ InQueue' = InQueue /\ InHand' = InHand /\ IsInjective(queue)'
  BY <1>1, ClientMoves
<1>3. answer[j] = "unsent" /\ j \in Unsent /\ j \notin Waiting
  BY DEF Execute, Unsent, Waiting
<1>4. CASE pc = "closed"
  <2>1. UNCHANGED commands /\ answer' = [answer EXCEPT ![j] = "closed"]
    BY <1>4 DEF Execute
  <2>2. Waiting' = Waiting
    BY <1>3, <2>1 DEF Waiting, TypeOK
  <2>3. InCommands' = InCommands /\ SentOnce'
    BY <1>2, <2>1, PlacesStay DEF JobInv, SentOnce
  <2>4. JobsApart' /\ NothingComesBack
    BY <1>1, <1>2, <2>2, <2>3 DEF JobInv, JobsApart, NothingComesBack, Coming
  <2> QED
    BY <1>2, <2>3, <2>4 DEF JobStep, JobInv
<1>5. CASE pc # "closed"
  <2>1. commands' = Append(commands, Submit(j)) /\ answer' = [answer EXCEPT ![j] = "waiting"]
    BY <1>5 DEF Execute
  <2>2. Waiting' = Waiting \cup {j}
    BY <1>3, <2>1 DEF Waiting, TypeOK
  <2>3. j \notin InCommands \cup InEvents \cup InQueue \cup InHand \cup oneshots \cup InTasks
    BY <1>3 DEF JobInv, JobsApart
  <2>4. Submit(j) \in Commands /\ Submit(j).call = j
    BY DEF Submit, Commands
  <2>5. InCommands' = InCommands \cup {j} /\ Once(commands)'
    BY <2>1, <2>3, <2>4, CommandSent, NoCallIsNone
  <2>6. SentOnce'
    BY <1>2, <2>5 DEF SentOnce
  <2>7. JobsApart' /\ NothingComesBack
    BY <1>1, <1>2, <1>3, <2>2, <2>3, <2>5 DEF JobInv, JobsApart, NothingComesBack, Coming
  <2> QED
    BY <1>2, <2>6, <2>7 DEF JobStep, JobInv
<1> QED
  BY <1>4, <1>5

LEMMA OtherClientJobs ==
    ASSUME TypeOK, JobInv, Prestart \/ Shutdown \/ DropHandles \/ Quiescent \/ UNCHANGED vars
    PROVE  JobStep
<1>1. UNCHANGED <<answer, pc, events, workers, queue, held, next_worker_id, tasks, oneshots>>
  BY DEF Prestart, Shutdown, DropHandles, Quiescent, supervisorVars, vars
<1>2. /\ SlotsAgree' /\ OwnedOnce' /\ TaskShape' /\ InTasks' = InTasks
      /\ Inboxes' = Inboxes /\ InEvents' = InEvents /\ Once(events)'
      /\ InQueue' = InQueue /\ InHand' = InHand /\ IsInjective(queue)'
  BY <1>1, ClientMoves
<1>3. InCommands' = InCommands /\ Once(commands)'
  <2>1. CASE DropHandles \/ Quiescent \/ UNCHANGED vars
    BY <2>1, PlacesStay DEF DropHandles, Quiescent, vars, JobInv, SentOnce
  <2>2. CASE Prestart \/ Shutdown
    <3>1. PICK c \in {PrestartCommand, ShutdownCommand} : commands' = Append(commands, c)
      BY <2>2 DEF Prestart, Shutdown
    <3>2. c \in Commands /\ c.call = NoCall
      BY <3>1 DEF PrestartCommand, ShutdownCommand, Commands
    <3>3. c.call \notin InCommands
      BY <3>2 DEF InCommands, Carried
    <3> QED
      BY <3>1, <3>2, <3>3, CommandSent
  <2> QED
    BY <2>1, <2>2, <1>1
<1>4. Waiting' = Waiting /\ SentOnce'
  BY <1>1, <1>2, <1>3, PlacesStay DEF SentOnce
<1>5. JobsApart' /\ NothingComesBack
  BY <1>1, <1>2, <1>3, <1>4 DEF JobInv, JobsApart, NothingComesBack, Coming
<1> QED
  BY <1>2, <1>4, <1>5 DEF JobStep, JobInv

-----------------------------------------------------------------------------
LEMMA JobInit == Init => JobInv
<1> SUFFICES ASSUME Init PROVE JobInv
  OBVIOUS
<1>1. /\ Waiting = {} /\ InCommands = {} /\ InEvents = {} /\ InQueue = {}
      /\ InHand = {} /\ oneshots = {} /\ InTasks = {}
  BY DEF Init, Waiting, InCommands, InEvents, InQueue, InHand, InTasks, Carried, Range
<1>2. JobsApart
  BY <1>1 DEF JobsApart
<1>3. SentOnce /\ OwnedOnce /\ TaskShape
  BY DEF Init, SentOnce, Once, IsInjective, OwnedOnce, TaskShape
<1>4. Agreement
  <2>1. Pending = {} /\ DOMAIN tasks = {} /\ DOMAIN workers = {} /\ StoppedLast(events)
    BY DEF Init, Pending, Range, StoppedLast
  <2> QED
    BY <2>1 DEF Agreement, OwnedBySlot, AbortedAreOut, KilledSaidSo, FinishedAreBusy,
                GoneSaidSo, BusyHaveJobs, StoppedAreGone
<1> QED
  BY <1>2, <1>3, <1>4 DEF JobInv, SlotsAgree

LEMMA EveryStepMovesJobs == TypeOK /\ JobInv /\ [Next]_vars => JobStep
<1> SUFFICES ASSUME TypeOK, JobInv, [Next]_vars PROVE JobStep
  OBVIOUS
<1>1. CASE SupervisorStep
  BY <1>1, SupervisorJobs
<1>2. CASE \E w \in DOMAIN tasks : WorkerStep(w) \/ ChildExits(w)
  BY <1>2, TakeJobJobs, TaskStaysJobs, EndJobs, ExchangeJobs DEF WorkerStep
<1>3. CASE \E j \in Calls : OneShotStep(j)
  BY <1>3, OneShotJobs
<1>4. CASE ClientStep
  BY <1>4, ExecuteJobs, OtherClientJobs DEF ClientStep
<1>5. CASE Quiescent \/ UNCHANGED vars
  BY <1>5, OtherClientJobs
<1> QED
  BY <1>1, <1>2, <1>3, <1>4, <1>5 DEF Next

-------------------------------------------------------------------------------
(***************************************************************************)
(* What JobInv means for the calls.                                        *)
(***************************************************************************)

LEMMA OnePlace == TypeOK /\ JobInv => EveryCallInOnePlace
<1> SUFFICES ASSUME TypeOK, JobInv PROVE EveryCallInOnePlace
  OBVIOUS
<1>1. ASSUME NEW j \in Calls
      PROVE  Cardinality(Holders(j)) = IF answer[j] = "waiting" THEN 1 ELSE 0
  <2>1. PICK C, E, Q, H, T, W :
           /\ C = InCommands /\ E = InEvents /\ Q = InQueue /\ H = InHand
           /\ T = InTasks /\ W = Waiting
    OBVIOUS
  <2>2. Holders(j) =
          {h \in {"commands", "events", "queue", "hand", "oneshot"} :
              \/ h = "commands" /\ j \in C
              \/ h = "events" /\ j \in E
              \/ h = "queue" /\ j \in Q
              \/ h = "hand" /\ j \in H
              \/ h = "oneshot" /\ j \in oneshots}
          \cup {w \in DOMAIN tasks : j \in Owned(w)}
    BY <2>1, NoCallIsNone DEF Holders, InCommands, InEvents, InQueue, InHand
  <2>3. j \in T <=> \E w \in DOMAIN tasks : j \in Owned(w)
    BY <2>1 DEF InTasks
  <2>4. j \in W <=> answer[j] = "waiting"
    BY <2>1 DEF Waiting
  <2>5. /\ j \in W <=> j \in C \/ j \in E \/ j \in Q \/ j \in H \/ j \in oneshots \/ j \in T
        /\ j \in C => ~(j \in E \/ j \in Q \/ j \in H \/ j \in oneshots \/ j \in T)
        /\ j \in E => ~(j \in Q \/ j \in H \/ j \in oneshots \/ j \in T)
        /\ j \in Q => ~(j \in H \/ j \in oneshots \/ j \in T)
        /\ j \in H => ~(j \in oneshots \/ j \in T)
        /\ j \in oneshots => ~(j \in T)
    BY <2>1 DEF JobInv, JobsApart
  <2>6. CASE j \notin W
    <3>1. Holders(j) = {}
      BY <2>2, <2>3, <2>5, <2>6
    <3> QED
      BY <2>4, <2>6, <3>1, FS_EmptySet
  <2>7. CASE j \in T
    <3>1. PICK w \in DOMAIN tasks : j \in Owned(w)
      BY <2>3, <2>7
    <3>2. Holders(j) = {w}
      BY <2>2, <2>5, <2>7, <3>1 DEF JobInv, OwnedOnce
    <3> QED
      BY <2>4, <2>5, <2>7, <3>2, FS_Singleton
  <2>8. CASE j \in W /\ j \notin T
    <3>1. \E h : Holders(j) = {h}
      <4>1. j \in C => Holders(j) = {"commands"}
        BY <2>2, <2>3, <2>5
      <4>2. j \in E => Holders(j) = {"events"}
        BY <2>2, <2>3, <2>5
      <4>3. j \in Q => Holders(j) = {"queue"}
        BY <2>2, <2>3, <2>5
      <4>4. j \in H => Holders(j) = {"hand"}
        BY <2>2, <2>3, <2>5
      <4>5. j \in oneshots => Holders(j) = {"oneshot"}
        BY <2>2, <2>3, <2>5
      <4> QED
        BY <2>5, <2>8, <4>1, <4>2, <4>3, <4>4, <4>5
    <3> QED
      BY <2>4, <2>8, <3>1, FS_Singleton
  <2> QED
    BY <2>6, <2>7, <2>8
<1> QED
  BY <1>1 DEF EveryCallInOnePlace, JobInv, SentOnce

LEMMA OneJob == TypeOK /\ JobInv => OneJobPerWorker
<1> SUFFICES ASSUME TypeOK, JobInv, NEW w \in DOMAIN tasks
             PROVE  Cardinality(Owned(w)) <= 1
  BY DEF OneJobPerWorker
<1>1. \E j : Owned(w) \subseteq {j}
  <2>1. CASE tasks[w].inbox = <<>>
    <3>1. Range(<<>>) = {}
      BY DEF Range
    <3> QED
      BY <2>1, <3>1 DEF Owned
  <2>2. CASE tasks[w].inbox # <<>>
    <3>1. Len(tasks[w].inbox) = 1 /\ tasks[w].call = NoCall /\ tasks[w].inbox \in Seq(Calls)
      BY <2>2, TaskRecords DEF JobInv, TaskShape
    <3>2. \A i \in DOMAIN tasks[w].inbox : i = 1
      BY <3>1
    <3> QED
      BY <3>1, <3>2 DEF Owned, Range
  <2> QED
    BY <2>1, <2>2
<1>2. PICK j : Owned(w) = {} \/ Owned(w) = {j}
  BY <1>1
<1>3. Cardinality(Owned(w)) = 0 \/ Cardinality(Owned(w)) = 1
  BY <1>2, FS_EmptySet, FS_Singleton
<1> QED
  BY <1>3

LEMMA NoAbortWithJob == TypeOK /\ JobInv => AbortLosesNoJob
BY DEF AbortLosesNoJob, JobInv, SlotsAgree, Agreement, AbortedAreOut, OwnedBySlot

\* What a process has been given is none of the jobs that are still to come.
LEMMA StartedOnce ==
    ASSUME TypeOK, JobInv
    PROVE  Started \cap (Coming \cup Unsent \cup {NoCall}) = {}
<1>1. Running \cup Inboxes \subseteq InTasks /\ Running \cap Inboxes = {}
  <2>1. ASSUME NEW j \in Running
        PROVE  j \in InTasks /\ j \notin Inboxes
    <3>1. PICK w \in DOMAIN tasks : tasks[w].call = j /\ j # NoCall
      BY <2>1 DEF Running
    <3>2. j \in Owned(w) /\ tasks[w].inbox = <<>>
      BY <3>1 DEF Owned, JobInv, TaskShape
    <3>3. \A v \in DOMAIN tasks : j \in Range(tasks[v].inbox) => v = w
      BY <3>2 DEF Owned, JobInv, OwnedOnce
    <3>4. j \notin Range(tasks[w].inbox)
      BY <3>2 DEF Range
    <3> QED
      BY <3>2, <3>3, <3>4 DEF InTasks, Inboxes
  <2>2. Inboxes \subseteq InTasks
    BY DEF Inboxes, InTasks, Owned
  <2> QED
    BY <2>1, <2>2
<1>2. Started = Running \cup InEvents \cup oneshots
  BY DEF Started, InEvents
<1>3. Started \cap Coming = {}
  BY <1>1, <1>2 DEF JobInv, JobsApart, Coming
<1>4. Started \subseteq Waiting
  BY <1>1, <1>2 DEF JobInv, JobsApart
<1>5. Started \cap (Unsent \cup {NoCall}) = {}
  BY <1>4, NoCallIsNone DEF Waiting, Unsent
<1> QED
  BY <1>3, <1>5

-----------------------------------------------------------------------------
(***************************************************************************)
(* Theorems.                                                               *)
(***************************************************************************)
\* JobInv is an invariant of the pool, through every handler of the supervisor,
\* every exchange of run_worker and every way in which a worker dies.
THEOREM JobInvCorrect == Spec => [](TypeOK /\ JobInv)
<1>1. Init => TypeOK /\ JobInv
  BY TypeInit, JobInit
<1>2. TypeOK /\ JobInv /\ [Next]_vars => (TypeOK /\ JobInv)'
  BY TypeStep, EveryStepMovesJobs DEF JobStep
<1> QED
  BY <1>1, <1>2, PTL DEF Spec

\* A call of execute that waits has its job in one place, once: the command or
\* event channel, the queue, the hand of the supervisor, a worker or a one-shot
\* process; a call that was answered is nowhere.
THEOREM CallsInOnePlace == Spec => []EveryCallInOnePlace
BY JobInvCorrect, OnePlace, PTL

\* dispatch_worker and run_worker leave a worker at most one job, taken or in its
\* unbounded inbox: idle_since is set only by the event of the job before.
THEOREM OneJobEach == Spec => []OneJobPerWorker
BY JobInvCorrect, OneJob, PTL

\* remove_worker aborts the task only of a worker that has no job, unless the
\* supervisor shuts down: no caller waits for a process that was killed for it.
THEOREM AbortsLoseNoJob == Spec => []AbortLosesNoJob
BY JobInvCorrect, NoAbortWithJob, PTL

\* A job that was given to a process is never queued, sent or placed again,
\* whichever way its worker or its one-shot process ends.
THEOREM AtMostOnce == Spec => NeverRunAgain
<1>1. TypeOK /\ JobInv /\ (TypeOK /\ JobInv)' /\ [Next]_vars => [Started \cap ToRun' = {}]_vars
  <2> SUFFICES ASSUME TypeOK, JobInv, TypeOK', JobInv', [Next]_vars
               PROVE  Started \cap ToRun' = {}
    OBVIOUS
  <2>1. Coming' \subseteq Coming \cup Unsent
    BY EveryStepMovesJobs DEF JobStep, NothingComesBack
  <2>2. Started \cap (Coming \cup Unsent \cup {NoCall}) = {}
    BY StartedOnce
  <2>3. ToRun' \subseteq Coming' \cup {NoCall}
    BY DEF ToRun, Coming, InQueue, InHand, InCommands, Inboxes
  <2> QED
    BY <2>1, <2>2, <2>3
<1> QED
  BY <1>1, JobInvCorrect, PTL DEF Spec, NeverRunAgain

-------------------------------------------------------------------------------
(***************************************************************************)
(* After a shutdown.                                                       *)
(***************************************************************************)

LEMMA ClosedStep ==
    TypeOK /\ [Next]_vars =>
        \A j \in Calls : pc' = "closed" /\ answer'[j] # answer[j] => answer'[j] = "closed"
<1> SUFFICES ASSUME TypeOK, [Next]_vars, NEW j \in Calls,
                    pc' = "closed", answer'[j] # answer[j]
             PROVE  answer'[j] = "closed"
  OBVIOUS
<1> USE DEF Answered
<1>1. CASE SupervisorStep
  <2>1. CASE HandleCommand
    BY <1>1, <2>1
       DEF HandleCommand, HandleSubmit, HandlePrestart, PrestartWorker, PrestartStillborn,
           PrestartFails, PrestartDone, HandleShutdown, HandlesDropped, Close
  <2>2. CASE PlaceJob
    BY <2>2 DEF PlaceJob, PlaceOnIdle, PlaceOnIdleFails, StartJob, StartJobFails, Enqueue,
                ApplyRejectionPolicy, Placed, TypeOK
  <2>3. CASE HandleWorkerEvent
    BY <2>3 DEF HandleWorkerEvent, HandleFinished, HandleOneShotFinished, HandleStopped, Event
  <2>4. CASE DrainOneQueuedTask
    BY <2>4 DEF DrainOneQueuedTask, DrainToIdle, DrainToIdleFails, DrainToNew,
                DrainToStillborn, DrainSpawnFails, DrainNothing
  <2>5. CASE RestoreCoreWorkers
    BY <2>5 DEF RestoreCoreWorkers, RestoreWorker, RestoreStillborn, RestoreFails, RestoreDone
  <2>6. CASE RetireIdleWorkers
    BY <2>6 DEF RetireIdleWorkers
  <2> QED
    BY <1>1, <2>1, <2>2, <2>3, <2>4, <2>5, <2>6 DEF SupervisorStep
<1>2. CASE \E w \in DOMAIN tasks : WorkerStep(w) \/ ChildExits(w)
  BY <1>2 DEF WorkerStep, ChildExits, TakeJob, NoticeExit, InboxClosed, Exchange, KillChild,
              Cancel, End, supervisorVars
<1>3. CASE \E i \in Calls : OneShotStep(i)
  BY <1>3 DEF OneShotStep, OneShotEnds, supervisorVars
<1>4. CASE ClientStep
  BY <1>4 DEF ClientStep, Execute, Prestart, Shutdown, DropHandles, supervisorVars, TypeOK
<1>5. CASE Quiescent \/ UNCHANGED vars
  BY <1>5 DEF Quiescent, vars
<1> QED
  BY <1>1, <1>2, <1>3, <1>4, <1>5 DEF Next

\* Once the supervisor is gone, a call can only be answered Closed: what the
\* processes still produce reaches nobody.
THEOREM ClosedPoolAnswersClosed == Spec => ClosedAnswersClosed
<1>1. TypeOK /\ [Next]_vars =>
        [\A j \in Calls :
            pc' = "closed" /\ answer'[j] # answer[j] => answer'[j] = "closed"]_vars
  BY ClosedStep
<1> QED
  BY <1>1, TypeCorrect, PTL DEF Spec, ClosedAnswersClosed

-----------------------------------------------------------------------------
(***************************************************************************)
(* The counters.                                                           *)
(***************************************************************************)
Counted(K) == Cardinality({j \in Calls : answer[j] \in K})

\* The answers that a counter counts.
Told == {"ok", "returned", "broken", "rejected", "discarded"}

LEMMA CallsFinite == ASSUME NEW S \in SUBSET Calls PROVE IsFiniteSet(S) /\ Cardinality(S) \in Nat
<1>1. IsFiniteSet(Calls)
  BY FS_Interval, BoundAssumption DEF Calls
<1>2. IsFiniteSet(S)
  BY <1>1, FS_Subset
<1> QED
  BY <1>2, FS_CardinalityType

\* CountersMatchAnswers in these terms.
LEMMA CountersAre ==
    CountersMatchAnswers <=>
        /\ count.completed = Counted({"ok"})
        /\ count.failed = Counted({"returned", "broken"})
        /\ count.rejected = Counted({"rejected", "discarded"}) + count.caller_runs
BY DEF CountersMatchAnswers, Counted

\* A call that waited is answered.
LEMMA CountsOne ==
    ASSUME TypeOK, NEW j \in Waiting, NEW a \in Answers, answer' = Answered({j}, a),
           NEW K \in SUBSET Told
    PROVE  /\ Counted(K) \in Nat
           /\ Counted(K)' = IF a \in K THEN Counted(K) + 1 ELSE Counted(K)
<1>1. PICK S : S = {i \in Calls : answer[i] \in K}
  OBVIOUS
<1>2. j \notin S /\ S \in SUBSET Calls
  BY <1>1 DEF Waiting, Told
<1>3. {i \in Calls : answer[i] \in K}' = IF a \in K THEN S \cup {j} ELSE S
  BY <1>1, <1>2 DEF Answered, Waiting
<1>4. IsFiniteSet(S) /\ Cardinality(S) \in Nat
  BY <1>2, CallsFinite
<1>5. Cardinality(S \cup {j}) = Cardinality(S) + 1
  BY <1>2, <1>4, FS_AddElement
<1> QED
  BY <1>1, <1>3, <1>4, <1>5 DEF Counted

\* The answers of calls that were answered stay, and no counter tells of the others.
Harmless ==
    \A j \in Calls :
        \/ answer'[j] = answer[j]
        \/ answer[j] \in {"unsent", "waiting"}
           /\ answer'[j] \in {"waiting", "spawn_failed", "closed"}

LEMMA HarmlessCounts ==
    ASSUME Harmless, CountersMatchAnswers, UNCHANGED count
    PROVE  CountersMatchAnswers'
<1>1. \A K \in SUBSET Told : {j \in Calls : answer[j] \in K}' = {j \in Calls : answer[j] \in K}
  BY DEF Harmless, Told
<1>2. \A K \in SUBSET Told : Counted(K)' = Counted(K)
  BY <1>1 DEF Counted
<1>3. {"ok"} \in SUBSET Told /\ {"returned", "broken"} \in SUBSET Told
      /\ {"rejected", "discarded"} \in SUBSET Told
  BY DEF Told
<1>4. /\ Counted({"ok"})' = Counted({"ok"})
      /\ Counted({"returned", "broken"})' = Counted({"returned", "broken"})
      /\ Counted({"rejected", "discarded"})' = Counted({"rejected", "discarded"})
  BY <1>2, <1>3
<1>5. /\ count.completed = Counted({"ok"})
      /\ count.failed = Counted({"returned", "broken"})
      /\ count.rejected = Counted({"rejected", "discarded"}) + count.caller_runs
  BY CountersAre
<1>6. /\ count'.completed = Counted({"ok"})'
      /\ count'.failed = Counted({"returned", "broken"})'
      /\ count'.rejected = Counted({"rejected", "discarded"})' + count'.caller_runs
  BY <1>4, <1>5
<1> QED
  BY <1>6 DEF CountersMatchAnswers, Counted

LEMMA AnsweredHarmless ==
    /\ UNCHANGED answer => Harmless
    /\ \A S \in SUBSET Waiting, a \in {"spawn_failed", "closed"} :
          answer' = Answered(S, a) => Harmless
BY DEF Harmless, Answered, Waiting

\* Who owns a job waits for its answer.
LEMMA Waiters ==
    ASSUME TypeOK, JobInv
    PROVE  /\ InCommands \cup InEvents \cup InQueue \cup oneshots \cup InTasks \subseteq Waiting
           /\ \A w \in DOMAIN tasks : Owned(w) \subseteq Waiting
           /\ Searching \/ MustStart \/ MustReject => held \in Waiting
           /\ queue # <<>> => Head(queue) \in Waiting
<1>1. /\ InCommands \cup InEvents \cup InQueue \cup oneshots \cup InTasks \subseteq Waiting
      /\ InHand \subseteq Waiting
  BY DEF JobInv, JobsApart
<1>2. \A w \in DOMAIN tasks : Owned(w) \subseteq Waiting
  BY <1>1 DEF InTasks
<1>3. Searching \/ MustStart \/ MustReject => held \in Waiting
  BY <1>1, HandInPlaceJob
<1>4. queue # <<>> => Head(queue) \in Waiting
  BY <1>1, QueueHead
<1> QED
  BY <1>1, <1>2, <1>3, <1>4

\* The call that an event about a job answers, and the counter that counts it.
LEMMA RecordedCounts ==
    ASSUME TypeOK, JobInv, CountersMatchAnswers, events # <<>>,
           Head(events).kind \in {"finished", "oneshot"},
           count' = Recorded(Head(events).outcome),
           answer' = Answered({Head(events).call}, Head(events).outcome)
    PROVE  CountersMatchAnswers'
<1>1. PICK j, o : j = Head(events).call /\ o = Head(events).outcome
  OBVIOUS
<1>2. j \in Waiting /\ o \in Outcomes
  <2>1. Head(events) \in Pending
    BY EventTaken
  <2>2. Head(events) \in Events
    BY <2>1, PendingEvents
  <2>3. PICK i \in DOMAIN events : events[i] = Head(events)
    BY <2>1 DEF Pending, Range
  <2>4. j \in Calls /\ o \in Outcomes
    BY <1>1, <2>2 DEF Events
  <2>5. j \in InEvents
    BY <1>1, <2>3, <2>4, NoCallIsNone DEF InEvents, Carried
  <2> QED
    BY <2>4, <2>5, Waiters
<1>3. {"ok"} \in SUBSET Told /\ {"returned", "broken"} \in SUBSET Told
      /\ {"rejected", "discarded"} \in SUBSET Told /\ o \in Answers
  BY <1>2 DEF Told, Answers
<1>4. answer' = Answered({j}, o) /\ count' = Recorded(o) /\ count \in Counters
  BY <1>1 DEF TypeOK
<1>5. /\ Counted({"ok"}) \in Nat
      /\ Counted({"ok"})' = IF o \in {"ok"} THEN Counted({"ok"}) + 1 ELSE Counted({"ok"})
  BY <1>2, <1>3, <1>4, CountsOne
<1>6. /\ Counted({"returned", "broken"}) \in Nat
      /\ Counted({"returned", "broken"})' = IF o \in {"returned", "broken"}
            THEN Counted({"returned", "broken"}) + 1 ELSE Counted({"returned", "broken"})
  BY <1>2, <1>3, <1>4, CountsOne
<1>7. Counted({"rejected", "discarded"})' = Counted({"rejected", "discarded"})
  <2>1. o \notin {"rejected", "discarded"}
    BY <1>2 DEF Outcomes, Reusable
  <2> QED
    BY <1>2, <1>3, <1>4, <2>1, CountsOne
<1>8. /\ count.completed = Counted({"ok"})
      /\ count.failed = Counted({"returned", "broken"})
      /\ count.rejected = Counted({"rejected", "discarded"}) + count.caller_runs
  BY CountersAre
<1>9. /\ count'.rejected = count.rejected /\ count'.caller_runs = count.caller_runs
      /\ count'.completed = IF o = "ok" THEN count.completed + 1 ELSE count.completed
      /\ count'.failed = IF o = "ok" THEN count.failed ELSE count.failed + 1
  BY <1>4 DEF Recorded, Counters
<1>10. o \in {"returned", "broken"} <=> o # "ok"
  BY <1>2 DEF Outcomes, Reusable
<1>11. /\ count'.completed = Counted({"ok"})'
       /\ count'.failed = Counted({"returned", "broken"})'
       /\ count'.rejected = Counted({"rejected", "discarded"})' + count'.caller_runs
  BY <1>5, <1>6, <1>7, <1>8, <1>9, <1>10
<1> QED
  BY <1>11 DEF CountersMatchAnswers, Counted

\* A job that is rejected is answered so, or runs in its caller's own process.
LEMMA RejectionCounts ==
    ASSUME TypeOK, JobInv, CountersMatchAnswers, ApplyRejectionPolicy
    PROVE  CountersMatchAnswers'
<1>1. held \in Waiting /\ (queue # <<>> => Head(queue) \in Waiting)
  BY Waiters DEF ApplyRejectionPolicy
<1>2. count \in Counters
  BY DEF TypeOK
<1>3. /\ count.completed = Counted({"ok"})
      /\ count.failed = Counted({"returned", "broken"})
      /\ count.rejected = Counted({"rejected", "discarded"}) + count.caller_runs
  BY CountersAre
<1>4. CASE Refuse \/ DiscardOldest
  <2>1. PICK j \in Waiting, a \in {"rejected", "discarded"} : answer' = Answered({j}, a)
    BY <1>1, <1>4 DEF Refuse, DiscardOldest
  <2>2. /\ count'.completed = count.completed /\ count'.failed = count.failed
        /\ count'.rejected = count.rejected + 1 /\ count'.caller_runs = count.caller_runs
    BY <1>2, <1>4 DEF Refuse, DiscardOldest, Counters
  <2>3. {"ok"} \in SUBSET Told /\ {"returned", "broken"} \in SUBSET Told
        /\ {"rejected", "discarded"} \in SUBSET Told /\ a \in Answers
    BY DEF Told, Answers
  <2>4. Counted({"ok"})' = Counted({"ok"})
    BY <2>1, <2>3, CountsOne
  <2>5. Counted({"returned", "broken"})' = Counted({"returned", "broken"})
    BY <2>1, <2>3, CountsOne
  <2>6. /\ Counted({"rejected", "discarded"}) \in Nat
        /\ Counted({"rejected", "discarded"})' = Counted({"rejected", "discarded"}) + 1
    BY <2>1, <2>3, CountsOne
  <2>7. count.caller_runs \in Nat
    BY <1>2 DEF Counters
  <2>8. /\ count'.completed = Counted({"ok"})'
        /\ count'.failed = Counted({"returned", "broken"})'
        /\ count'.rejected = Counted({"rejected", "discarded"})' + count'.caller_runs
    BY <1>3, <2>2, <2>4, <2>5, <2>6, <2>7
  <2> QED
    BY <2>8 DEF CountersMatchAnswers, Counted
<1>5. CASE CallerRuns
  <2>1. /\ count'.completed = count.completed /\ count'.failed = count.failed
        /\ count'.rejected = count.rejected + 1 /\ count'.caller_runs = count.caller_runs + 1
        /\ answer' = answer
    BY <1>2, <1>5 DEF CallerRuns, Counters
  <2>2. /\ Counted({"ok"})' = Counted({"ok"})
        /\ Counted({"returned", "broken"})' = Counted({"returned", "broken"})
        /\ Counted({"rejected", "discarded"})' = Counted({"rejected", "discarded"})
    BY <2>1 DEF Counted
  <2>3. Counted({"rejected", "discarded"}) \in Nat /\ count.caller_runs \in Nat
    BY <1>2, CallsFinite DEF Counted, Counters
  <2>4. /\ count'.completed = Counted({"ok"})'
        /\ count'.failed = Counted({"returned", "broken"})'
        /\ count'.rejected = Counted({"rejected", "discarded"})' + count'.caller_runs
    BY <1>3, <2>1, <2>2, <2>3
  <2> QED
    BY <2>4 DEF CountersMatchAnswers, Counted
<1> QED
  BY <1>4, <1>5 DEF ApplyRejectionPolicy

\* Every other step answers nobody, or those who still waited and whom no
\* counter counts.
LEMMA OtherStepsHarmless ==
    ASSUME TypeOK, JobInv, [Next]_vars, ~ApplyRejectionPolicy,
           ~HandleFinished, ~HandleOneShotFinished
    PROVE  Harmless /\ UNCHANGED count
<1> USE DEF supervisorVars
<1>1. CASE SupervisorStep
  <2>1. CASE HandleCommand
    <3>1. CASE HandleShutdown \/ HandlesDropped
      <4>1. /\ answer' = Answered(InQueue \cup InCommands \cup InEvents, "closed")
            /\ UNCHANGED count
        BY <3>1 DEF HandleShutdown, HandlesDropped, Close, InQueue, InCommands, InEvents
      <4> QED
        BY <4>1, AnsweredHarmless, Waiters
    <3>2. CASE ~(HandleShutdown \/ HandlesDropped)
      BY <2>1, <3>2, AnsweredHarmless
         DEF HandleCommand, HandleSubmit, HandlePrestart, PrestartWorker, PrestartStillborn,
             PrestartFails, PrestartDone
    <3> QED
      BY <3>1, <3>2
  <2>2. CASE PlaceJob
    <3>1. CASE StartJobFails
      <4>1. {held} \in SUBSET Waiting
        BY <3>1, Waiters DEF StartJobFails
      <4> QED
        BY <3>1, <4>1, AnsweredHarmless DEF StartJobFails
    <3>2. CASE ~StartJobFails
      BY <2>2, <3>2, AnsweredHarmless
         DEF PlaceJob, PlaceOnIdle, PlaceOnIdleFails, StartJob, Enqueue
    <3> QED
      BY <3>1, <3>2
  <2>3. CASE HandleWorkerEvent
    BY <2>3, AnsweredHarmless DEF HandleWorkerEvent, HandleStopped
  <2>4. CASE DrainOneQueuedTask
    <3>1. CASE DrainToStillborn \/ DrainSpawnFails
      <4>1. PICK S : /\ S \subseteq InQueue \cup {Head(queue)}
                     /\ answer' = Answered(S, "spawn_failed")
        BY <3>1 DEF DrainToStillborn, DrainSpawnFails, InQueue
      <4>2. S \in SUBSET Waiting
        BY <3>1, <4>1, Waiters DEF DrainToStillborn, DrainSpawnFails, DrainNeedsWorker
      <4> QED
        BY <3>1, <4>1, <4>2, AnsweredHarmless DEF DrainToStillborn, DrainSpawnFails
    <3>2. CASE ~(DrainToStillborn \/ DrainSpawnFails)
      BY <2>4, <3>2, AnsweredHarmless
         DEF DrainOneQueuedTask, DrainToIdle, DrainToIdleFails, DrainToNew, DrainNothing
    <3> QED
      BY <3>1, <3>2
  <2>5. CASE RestoreCoreWorkers
    <3>1. CASE RestoreStillborn
      <4>1. {Head(queue)} \in SUBSET Waiting
        BY <3>1, Waiters DEF RestoreStillborn
      <4> QED
        BY <3>1, <4>1, AnsweredHarmless DEF RestoreStillborn
    <3>2. CASE RestoreFails
      <4>1. PICK S : S \subseteq InQueue /\ answer' = Answered(S, "spawn_failed")
        BY <3>2 DEF RestoreFails, InQueue
      <4>2. S \in SUBSET Waiting
        BY <4>1, Waiters
      <4> QED
        BY <3>2, <4>1, <4>2, AnsweredHarmless DEF RestoreFails
    <3>3. CASE RestoreWorker \/ RestoreDone
      BY <3>3, AnsweredHarmless DEF RestoreWorker, RestoreDone
    <3> QED
      BY <2>5, <3>1, <3>2, <3>3 DEF RestoreCoreWorkers
  <2>6. CASE RetireIdleWorkers
    BY <2>6, AnsweredHarmless DEF RetireIdleWorkers
  <2> QED
    BY <1>1, <2>1, <2>2, <2>3, <2>4, <2>5, <2>6 DEF SupervisorStep
<1>2. ASSUME NEW w \in DOMAIN tasks, WorkerStep(w) \/ ChildExits(w)
      PROVE  Harmless /\ UNCHANGED count
  <2>1. UNCHANGED count
    BY <1>2 DEF WorkerStep, ChildExits, TakeJob, NoticeExit, InboxClosed, Exchange,
                KillChild, Cancel
  <2>2. CASE End(w)
    BY <2>1, <2>2, AnsweredHarmless, Waiters DEF End
  <2>3. CASE \E o \in Outcomes : Exchange(w, o)
    <3>1. {tasks[w].call} \in SUBSET Waiting
      BY <2>3, ExchangeReleases, Waiters DEF JobInv
    <3> QED
      BY <2>1, <2>3, <3>1, AnsweredHarmless DEF Exchange
  <2>4. CASE TakeJob(w) \/ InboxClosed(w) \/ ChildExits(w)
    BY <2>1, <2>4, AnsweredHarmless DEF TakeJob, InboxClosed, ChildExits
  <2> QED
    BY <1>2, <2>2, <2>3, <2>4 DEF WorkerStep, NoticeExit, KillChild, Cancel
<1>3. CASE \E j \in Calls : OneShotStep(j)
  <2>1. PICK j \in Calls, o \in Outcomes : OneShotEnds(j, o)
    BY <1>3 DEF OneShotStep
  <2>2. {j} \in SUBSET Waiting
    BY <2>1, Waiters DEF OneShotEnds
  <2> QED
    BY <2>1, <2>2, AnsweredHarmless DEF OneShotEnds
<1>4. CASE ClientStep
  <2>1. CASE \E j \in Calls : Execute(j)
    BY <2>1 DEF Execute, Harmless, TypeOK
  <2>2. CASE Prestart \/ Shutdown \/ DropHandles
    BY <2>2, AnsweredHarmless DEF Prestart, Shutdown, DropHandles
  <2> QED
    BY <1>4, <2>1, <2>2 DEF ClientStep
<1>5. CASE Quiescent \/ UNCHANGED vars
  BY <1>5, AnsweredHarmless DEF Quiescent, vars
<1> QED
  BY <1>1, <1>2, <1>3, <1>4, <1>5 DEF Next

\* record_completion, the rejections and the caller-runs keep the counters of
\* PoolStats in step with what the callers are told.
THEOREM CountersCorrect == Spec => []CountersMatchAnswers
<1>1. Init => CountersMatchAnswers
  <2>1. ASSUME Init, NEW K \in SUBSET Told
        PROVE  Counted(K) = 0
    <3>1. {j \in Calls : answer[j] \in K} = {}
      BY <2>1 DEF Init, Told
    <3> QED
      BY <3>1, FS_EmptySet DEF Counted
  <2> SUFFICES ASSUME Init PROVE CountersMatchAnswers
    OBVIOUS
  <2>2. {"ok"} \in SUBSET Told /\ {"returned", "broken"} \in SUBSET Told
        /\ {"rejected", "discarded"} \in SUBSET Told
    BY DEF Told
  <2>3. /\ Counted({"ok"}) = 0 /\ Counted({"returned", "broken"}) = 0
        /\ Counted({"rejected", "discarded"}) = 0
    BY <2>1, <2>2
  <2> QED
    BY <2>3, CountersAre DEF Init
<1>2. TypeOK /\ JobInv /\ CountersMatchAnswers /\ [Next]_vars => CountersMatchAnswers'
  <2> SUFFICES ASSUME TypeOK, JobInv, CountersMatchAnswers, [Next]_vars
               PROVE  CountersMatchAnswers'
    OBVIOUS
  <2>1. CASE ApplyRejectionPolicy
    BY <2>1, RejectionCounts
  <2>2. CASE HandleFinished \/ HandleOneShotFinished
    BY <2>2, RecordedCounts DEF HandleFinished, HandleOneShotFinished, Event
  <2>3. CASE ~(ApplyRejectionPolicy \/ HandleFinished \/ HandleOneShotFinished)
    BY <2>3, OtherStepsHarmless, HarmlessCounts
  <2> QED
    BY <2>1, <2>2, <2>3
<1> QED
  BY <1>1, <1>2, JobInvCorrect, PTL DEF Spec

-------------------------------------------------------------------------------
(***************************************************************************)
(* Who will drain the queue.                                               *)
(***************************************************************************)
Served == \E w \in DOMAIN workers : workers[w] # NoCall
Announced == \E e \in Pending : e.kind \in {"finished", "stopped"}

\* Outside of the handler of a Finished or Stopped event, a job that is queued
\* will be followed by such an event: one is pending, or a worker is busy.
Wakes == queue # <<>> /\ pc \notin {"drain", "closed"} => Served \/ Announced

LEMMA SpawnServes ==
    ASSUME TypeOK, NEW j \in Calls \cup {NoCall}, SpawnWorker(j)
    PROVE  /\ Served => Served'
           /\ Announced' = Announced
           /\ j # NoCall => Served'
<1>1. next_worker_id \notin DOMAIN workers
  BY DEF TypeOK
<1>2. /\ DOMAIN workers' = DOMAIN workers \cup {next_worker_id}
      /\ workers'[next_worker_id] = j
      /\ \A w \in DOMAIN workers : workers'[w] = workers[w]
  BY <1>1 DEF SpawnWorker, With
<1>3. Pending' = Pending
  BY DEF SpawnWorker, Pending
<1> QED
  BY <1>2, <1>3 DEF Served, Announced

LEMMA FailedSpawnAnnounces ==
    ASSUME TypeOK, SpawnStillborn \/ SpawnFails
    PROVE  /\ Served => Served'
           /\ Announced => Announced'
           /\ SpawnStillborn => Announced'
<1>1. UNCHANGED workers
  BY DEF SpawnStillborn, SpawnFails
<1>2. CASE SpawnFails
  BY <1>1, <1>2 DEF SpawnFails, SpawnStillborn, Served, Announced, Pending
<1>3. CASE SpawnStillborn
  <2>1. PICK e : e = Stopped(next_worker_id)
    OBVIOUS
  <2>2. e \in Events /\ e.kind = "stopped" /\ events' = Append(events, e)
    BY <1>3, <2>1 DEF SpawnStillborn, Stopped, Events, TypeOK, Outcomes
  <2>3. Pending' = Pending \cup {e}
    BY <2>2, EventSent DEF Pending
  <2> QED
    BY <1>1, <2>2, <2>3 DEF Served, Announced
<1> QED
  BY <1>2, <1>3

\* Dispatch makes a worker busy.
LEMMA DispatchServes ==
    ASSUME TypeOK, NEW w \in Idle, NEW j \in Calls, Dispatch(w, j)
    PROVE  Served'
BY NoCallIsNone DEF Dispatch, Served, Idle

\* An idle worker whose task is gone has a Stopped event pending.
LEMMA GoneIsAnnounced ==
    ASSUME TypeOK, JobInv, pc # "closed", NEW w \in Idle, w \notin DOMAIN tasks
    PROVE  Reports("stopped", w) /\ Announced
<1>1. Agreement
  BY DEF JobInv, SlotsAgree
<1>2. ~Broke(w)
  BY <1>1, IdleAreFree DEF Broke
<1>3. Reports("stopped", w)
  BY <1>1, <1>2, IdleAreFree DEF Agreement, GoneSaidSo
<1> QED
  BY <1>3 DEF Reports, Announced

LEMMA PlaceJobWakes ==
    ASSUME TypeOK, JobInv, Wakes, PlaceJob PROVE Wakes'
<1>1. CASE PlaceOnIdle
  <2>1. PICK w \in Idle : Dispatch(w, held)
    BY <1>1 DEF PlaceOnIdle
  <2>2. held \in Calls
    BY <1>1, HandInPlaceJob DEF PlaceOnIdle
  <2> QED
    BY <2>1, <2>2, DispatchServes DEF Wakes
<1>2. CASE PlaceOnIdleFails
  <2>1. PICK w \in Idle : w \notin DOMAIN tasks
    BY <1>2 DEF PlaceOnIdleFails, DispatchFails, Receives
  <2>2. pc # "closed"
    BY <1>2 DEF PlaceOnIdleFails, Searching
  <2>3. Announced
    BY <2>1, <2>2, GoneIsAnnounced
  <2>4. Announced'
    BY <1>2, <2>3 DEF PlaceOnIdleFails, channelVars, Announced, Pending
  <2> QED
    BY <2>4 DEF Wakes
<1>3. CASE StartJob
  <2>1. held \in Calls /\ SpawnWorker(held)
    BY <1>3, HandInPlaceJob DEF StartJob
  <2> QED
    BY <2>1, SpawnServes, NoCallIsNone DEF Wakes
<1>4. CASE StartJobFails
  <2>1. (Served => Served') /\ (Announced => Announced')
    BY <1>4, FailedSpawnAnnounces DEF StartJobFails
  <2>2. pc \notin {"drain", "closed"} /\ queue' = queue
    BY <1>4 DEF StartJobFails, MustStart, Searching, Saturated
  <2> QED
    BY <2>1, <2>2 DEF Wakes
<1>5. CASE Enqueue \/ ApplyRejectionPolicy
  <2>1. Idle = {} /\ DOMAIN workers # {}
    BY <1>5 DEF Enqueue, ApplyRejectionPolicy, MustReject, Saturated
  <2>2. Served
    BY <2>1 DEF Served, Idle
  <2>3. Served'
    BY <1>5, <2>2 DEF Enqueue, ApplyRejectionPolicy, Served
  <2> QED
    BY <2>3 DEF Wakes
<1> QED
  BY <1>1, <1>2, <1>3, <1>4, <1>5 DEF PlaceJob

\* A worker is started for the head of the queue, if there is one.
LEMMA SpawnForQueueWakes ==
    ASSUME TypeOK, JobInv, SpawnWorker(IF queue = <<>> THEN NoCall ELSE Head(queue)),
           queue' = IF queue = <<>> THEN queue ELSE Tail(queue)
    PROVE  Wakes'
<1>1. CASE queue = <<>>
  BY <1>1 DEF Wakes
<1>2. CASE queue # <<>>
  <2>1. Head(queue) \in Calls
    BY <1>2, QueueHead
  <2> QED
    BY <1>2, <2>1, SpawnServes, NoCallIsNone DEF Wakes
<1> QED
  BY <1>1, <1>2

LEMMA CommandWakes ==
    ASSUME TypeOK, JobInv, Wakes, HandleCommand PROVE Wakes'
<1>1. CASE HandleSubmit \/ HandlePrestart \/ PrestartDone
  BY <1>1 DEF HandleSubmit, HandlePrestart, PrestartDone, Receive, channelVars,
              Wakes, Served, Announced, Pending
<1>2. CASE PrestartWorker
  BY <1>2, SpawnForQueueWakes DEF PrestartWorker
<1>3. CASE PrestartStillborn
  BY <1>3, FailedSpawnAnnounces DEF PrestartStillborn, Wakes
<1>4. CASE PrestartFails
  <2>1. (Served => Served') /\ (Announced => Announced')
    BY <1>4, FailedSpawnAnnounces DEF PrestartFails
  <2> QED
    BY <1>4, <2>1 DEF Wakes, PrestartFails
<1>5. CASE HandleShutdown \/ HandlesDropped
  BY <1>5 DEF HandleShutdown, HandlesDropped, Close, Wakes
<1> QED
  BY <1>1, <1>2, <1>3, <1>4, <1>5 DEF HandleCommand

LEMMA EventWakes ==
    ASSUME TypeOK, JobInv, Wakes, HandleWorkerEvent PROVE Wakes'
<1>1. CASE HandleFinished \/ HandleStopped
  BY <1>1 DEF HandleFinished, HandleStopped, Wakes
<1>2. CASE HandleOneShotFinished
  <2>1. /\ events # <<>> /\ events' = Tail(events) /\ Head(events).kind = "oneshot"
        /\ UNCHANGED <<workers, queue, pc>>
    BY <1>2 DEF HandleOneShotFinished, Event
  <2>2. Pending = Pending' \cup {Head(events)}
    BY <2>1, EventTaken DEF Pending
  <2> QED
    BY <2>1, <2>2 DEF Wakes, Served, Announced
<1> QED
  BY <1>1, <1>2 DEF HandleWorkerEvent

LEMMA DrainWakes ==
    ASSUME TypeOK, JobInv, DrainOneQueuedTask PROVE Wakes'
<1>1. CASE DrainToIdle
  <2>1. PICK w \in Idle : Dispatch(w, Head(queue))
    BY <1>1 DEF DrainToIdle
  <2>2. Head(queue) \in Calls
    BY <1>1, QueueHead DEF DrainToIdle
  <2> QED
    BY <2>1, <2>2, DispatchServes DEF Wakes
<1>2. CASE DrainToIdleFails
  <2>1. PICK w \in Idle : w \notin DOMAIN tasks
    BY <1>2 DEF DrainToIdleFails, DispatchFails, Receives
  <2>2. pc # "closed"
    BY <1>2 DEF DrainToIdleFails
  <2>3. Announced
    BY <2>1, <2>2, GoneIsAnnounced
  <2>4. Announced'
    BY <1>2, <2>3 DEF DrainToIdleFails, channelVars, Announced, Pending
  <2> QED
    BY <2>4 DEF Wakes
<1>3. CASE DrainToNew
  BY <1>3, SpawnForQueueWakes DEF DrainToNew, DrainNeedsWorker
<1>4. CASE DrainToStillborn
  BY <1>4, FailedSpawnAnnounces DEF DrainToStillborn, Wakes
<1>5. CASE DrainSpawnFails \/ DrainNothing
  <2>1. CASE queue' = <<>>
    BY <2>1 DEF Wakes
  <2>2. CASE queue' # <<>>
    <3>1. Idle = {} /\ PoolSize # 0 /\ UNCHANGED workers
      BY <1>5, <2>2 DEF DrainSpawnFails, DrainNothing, DrainNeedsWorker, SpawnFails
    <3>2. DOMAIN workers # {}
      BY <3>1, FS_EmptySet DEF PoolSize
    <3>3. Served'
      BY <3>1, <3>2 DEF Served, Idle
    <3> QED
      BY <3>3 DEF Wakes
  <2> QED
    BY <2>1, <2>2
<1> QED
  BY <1>1, <1>2, <1>3, <1>4, <1>5 DEF DrainOneQueuedTask

LEMMA RestoreWakes ==
    ASSUME TypeOK, JobInv, Wakes, RestoreCoreWorkers PROVE Wakes'
<1>1. CASE RestoreWorker
  BY <1>1, SpawnForQueueWakes DEF RestoreWorker
<1>2. CASE RestoreStillborn
  BY <1>2, FailedSpawnAnnounces DEF RestoreStillborn, Wakes
<1>3. CASE RestoreFails
  <2>1. (Served => Served') /\ (Announced => Announced')
    BY <1>3, FailedSpawnAnnounces DEF RestoreFails
  <2> QED
    BY <1>3, <2>1 DEF Wakes, RestoreFails
<1>4. CASE RestoreDone
  BY <1>4 DEF RestoreDone, channelVars, Wakes, Served, Announced, Pending
<1> QED
  BY <1>1, <1>2, <1>3, <1>4 DEF RestoreCoreWorkers

\* Only the supervisor takes events.
LEMMA OtherEvents ==
    ASSUME TypeOK, [Next]_vars, ~SupervisorStep
    PROVE  pc = "closed" \/ Pending \subseteq Pending'
<1>1. pc = "closed" \/ events' = events \/ \E e \in Events : events' = Append(events, e)
  <2>1. CASE ClientStep \/ Quiescent \/ UNCHANGED vars
    BY <2>1 DEF ClientStep, Execute, Prestart, Shutdown, DropHandles, Quiescent, vars
  <2>2. ASSUME NEW w \in DOMAIN tasks, WorkerStep(w) \/ ChildExits(w)
        PROVE  pc = "closed" \/ events' = events \/ \E e \in Events : events' = Append(events, e)
    <3>1. w \in Nat
      BY DEF TypeOK
    <3>2. CASE NoticeExit(w)
      <4>1. Stopped(w) \in Events
        BY <3>1 DEF Stopped, Events, Outcomes
      <4> QED
        BY <3>2, <4>1 DEF NoticeExit, Send
    <3>3. ASSUME NEW o \in Outcomes, Exchange(w, o)
          PROVE  pc = "closed" \/ events' = events \/ \E e \in Events : events' = Append(events, e)
      <4>1. tasks[w].call \in Calls
        BY <3>3, TaskRecords DEF Exchange
      <4>2. Finished(w, tasks[w].call, o) \in Events
        BY <3>1, <4>1 DEF Finished, Events
      <4> QED
        BY <3>3, <4>2 DEF Exchange, Send
    <3>4. CASE TakeJob(w) \/ InboxClosed(w) \/ KillChild(w) \/ Cancel(w) \/ ChildExits(w)
      BY <3>4 DEF TakeJob, InboxClosed, KillChild, Cancel, ChildExits, channelVars
    <3> QED
      BY <2>2, <3>2, <3>3, <3>4 DEF WorkerStep
  <2>3. ASSUME NEW j \in Calls, OneShotStep(j)
        PROVE  pc = "closed" \/ events' = events \/ \E e \in Events : events' = Append(events, e)
    <3>1. PICK o \in Outcomes : OneShotEnds(j, o)
      BY <2>3 DEF OneShotStep
    <3>2. OneShotFinished(j, o) \in Events
      BY DEF OneShotFinished, Events, NoWorker
    <3> QED
      BY <3>1, <3>2 DEF OneShotEnds, Send
  <2> QED
    BY <2>1, <2>2, <2>3 DEF Next
<1>2. pc = "closed" \/ Pending \subseteq Pending'
  BY <1>1, EventSent DEF Pending
<1> QED
  BY <1>2

LEMMA OtherWakes ==
    ASSUME TypeOK, Wakes, [Next]_vars, ~SupervisorStep PROVE Wakes'
<1> USE DEF supervisorVars
<1>1. UNCHANGED <<workers, queue, pc>>
  BY DEF Next, ClientStep, Execute, Prestart, Shutdown, DropHandles, WorkerStep, ChildExits,
         TakeJob, NoticeExit, InboxClosed, Exchange, KillChild, Cancel, OneShotStep,
         OneShotEnds, Quiescent, vars
<1>2. Served' = Served
  BY <1>1 DEF Served
<1>3. pc = "closed" \/ Pending \subseteq Pending'
  BY OtherEvents
<1> QED
  BY <1>1, <1>2, <1>3 DEF Wakes, Announced

LEMMA WakesStep == TypeOK /\ JobInv /\ Wakes /\ [Next]_vars => Wakes'
<1> SUFFICES ASSUME TypeOK, JobInv, Wakes, [Next]_vars PROVE Wakes'
  OBVIOUS
<1>1. CASE RetireIdleWorkers
  BY <1>1 DEF RetireIdleWorkers, Wakes
<1> QED
  BY <1>1, PlaceJobWakes, CommandWakes, EventWakes, DrainWakes, RestoreWakes, OtherWakes
     DEF SupervisorStep

LEMMA NotStranded == TypeOK /\ JobInv /\ Wakes => QueueNeverStranded
<1> SUFFICES ASSUME TypeOK, JobInv, Wakes, pc = "select", queue # <<>>,
                    ~ \E w \in DOMAIN tasks : w \in DOMAIN workers /\ Owned(w) # {}
             PROVE  \E i \in DOMAIN events : events[i].kind \in {"finished", "stopped"}
  BY DEF QueueNeverStranded
<1>1. Agreement
  BY DEF JobInv, SlotsAgree
<1>2. ASSUME Served
      PROVE  Announced
  <2>1. PICK w \in DOMAIN workers : workers[w] # NoCall
    BY <1>2 DEF Served
  <2>2. Reports("finished", w) \/ Reports("stopped", w) \/ Broke(w)
    BY <1>1, <2>1 DEF Agreement, BusyHaveJobs, GoneSaidSo
  <2> QED
    BY <2>2 DEF Announced, Reports, Broke
<1>3. Announced
  BY <1>2 DEF Wakes
<1> QED
  BY <1>3 DEF Announced, Pending, Range

\* While the supervisor waits and jobs are queued, the event that will drain the
\* queue is pending, or a worker with a slot is still to send it.
THEOREM QueueServed == Spec => []QueueNeverStranded
<1>1. Init => Wakes
  BY DEF Init, Wakes
<1> QED
  BY <1>1, WakesStep, NotStranded, JobInvCorrect, PTL DEF Spec

-------------------------------------------------------------------------------
(***************************************************************************)
(* The core.                                                               *)
(***************************************************************************)
\* The workers whose Stopped events are pending, and those with a slot.
Dead == {e.worker : e \in {x \in Pending : x.kind = "stopped"}}
Known == DOMAIN workers \cup Dead

\* Nothing is being drained or restored, and no spawn has failed.
Steady ==
    /\ pc \in {"select", "place", "reuse", "prestart"}
    /\ after # "restore"
    /\ budget.spawn = MaxSpawnFailures

\* The core that was once started is complete, but for the workers whose
\* Stopped events will have them replaced.
CoreInv ==
    /\ budget.spawn <= MaxSpawnFailures
    /\ Steady => minimum_workers <= Cardinality(Known)

LEMMA DeadAre ==
    /\ \A w : w \in Dead <=> Reports("stopped", w)
    /\ Dead = {events[i].worker : i \in {k \in DOMAIN events : events[k].kind = "stopped"}}
BY DEF Dead, Reports, Pending, Range

LEMMA KnownFinite ==
    ASSUME TypeOK, JobInv, pc # "closed"
    PROVE  /\ IsFiniteSet(Known) /\ Cardinality(Known) \in Nat
           /\ Cardinality(Known) = PoolSize + Cardinality(Dead \ DOMAIN workers)
           /\ PoolSize \in Nat /\ PoolSize <= Cardinality(Known)
           /\ next_worker_id \notin Known
<1>1. Agreement
  BY DEF JobInv, SlotsAgree
<1>2. Dead \subseteq 1 .. (next_worker_id - 1) /\ next_worker_id \in Nat \ {0}
  BY <1>1 DEF Dead, Agreement, StoppedAreGone, TypeOK
<1>3. IsFiniteSet(1 .. (next_worker_id - 1))
  <2>1. next_worker_id - 1 \in Int
    BY <1>2
  <2> QED
    BY <2>1, FS_Interval
<1>4. /\ IsFiniteSet(Dead \ DOMAIN workers) /\ IsFiniteSet(DOMAIN workers)
      /\ PoolSize \in Nat
  BY <1>2, <1>3, FS_Subset, SlotsFinite
<1>5. PICK L : L = Dead \ DOMAIN workers
  OBVIOUS
<1>6. Known = DOMAIN workers \cup L /\ DOMAIN workers \cap L = {}
  BY <1>5 DEF Known
<1>7. /\ IsFiniteSet(Known)
      /\ Cardinality(Known) = Cardinality(DOMAIN workers) + Cardinality(L) - Cardinality({})
  BY <1>4, <1>5, <1>6, FS_Union
<1>8. Cardinality(L) \in Nat /\ Cardinality(Known) \in Nat
  BY <1>4, <1>5, <1>7, FS_CardinalityType
<1>9. Cardinality(Known) = PoolSize + Cardinality(L)
  BY <1>4, <1>7, <1>8, FS_EmptySet DEF PoolSize
<1>10. next_worker_id \notin Known
  BY <1>2 DEF Known, TypeOK
<1> QED
  BY <1>4, <1>5, <1>7, <1>8, <1>9, <1>10

LEMMA KnownAreFinite == TypeOK /\ JobInv /\ pc # "closed" => IsFiniteSet(Known)
BY KnownFinite

LEMMA KnownAreMore ==
    TypeOK /\ JobInv /\ pc # "closed" =>
      Cardinality(Known) \in Nat /\ PoolSize \in Nat /\ PoolSize <= Cardinality(Known)
BY KnownFinite

\* No known worker is forgotten.
LEMMA KnownStay ==
    ASSUME TypeOK, JobInv, TypeOK', JobInv', CoreInv, pc # "closed", pc' # "closed",
           UNCHANGED minimum_workers, budget'.spawn = budget.spawn,
           Known \subseteq Known', Steady' => Steady
    PROVE  CoreInv'
<1>1. minimum_workers \in Nat
  BY DEF TypeOK
<1>2. Cardinality(Known) \in Nat
  BY KnownFinite
<1>3. (TypeOK /\ JobInv /\ pc # "closed" => IsFiniteSet(Known))'
  BY KnownAreFinite, PTL
<1>4. Cardinality(Known) <= Cardinality(Known') /\ Cardinality(Known') \in Nat
  <2>1. IsFiniteSet(Known')
    BY <1>3 DEF Known, Dead
  <2> QED
    BY <2>1, FS_Subset, FS_CardinalityType
<1>5. Cardinality(Known)' = Cardinality(Known')
  BY DEF Known, Dead
<1> QED
  BY <1>1, <1>2, <1>4, <1>5 DEF CoreInv

\* A worker is started: it is not known yet, and the minimum rises by as much.
LEMMA KnownGrow ==
    ASSUME TypeOK, JobInv, CoreInv, pc # "closed",
           minimum_workers' = RaisedMinimum, budget'.spawn = budget.spawn,
           Known' = Known \cup {next_worker_id}, Steady' => Steady
    PROVE  CoreInv'
<1>1. /\ minimum_workers \in Nat /\ CorePoolSize \in Nat
      /\ IsFiniteSet(Known) /\ Cardinality(Known) \in Nat
      /\ PoolSize \in Nat /\ PoolSize <= Cardinality(Known)
      /\ next_worker_id \notin Known
  BY KnownFinite, ConfigAssumption DEF TypeOK
<1>2. Cardinality(Known') = Cardinality(Known) + 1
  BY <1>1, FS_AddElement
<1>3. RaisedMinimum <= minimum_workers \/ RaisedMinimum <= PoolSize + 1
  BY <1>1 DEF RaisedMinimum
<1>4. Cardinality(Known)' = Cardinality(Known')
  BY DEF Known, Dead
<1> QED
  BY <1>1, <1>2, <1>3, <1>4 DEF CoreInv, RaisedMinimum

\* A stillborn worker is no failed spawn.
LEMMA StillbornBudget ==
    ASSUME TypeOK, SpawnStillborn PROVE budget'.spawn = budget.spawn
BY DEF SpawnStillborn, TypeOK, Budgets

LEMMA FailureBudget ==
    ASSUME TypeOK, SpawnFails
    PROVE  budget.spawn \in Nat /\ budget'.spawn = budget.spawn - 1
BY DEF SpawnFails, TypeOK, Budgets

LEMMA SpawnKnown ==
    ASSUME TypeOK, NEW j, SpawnWorker(j) \/ SpawnStillborn
    PROVE  /\ Known' = Known \cup {next_worker_id} /\ minimum_workers' = RaisedMinimum
           /\ budget'.spawn = budget.spawn
<1>1. CASE SpawnWorker(j)
  BY <1>1 DEF SpawnWorker, With, Known, Dead, Pending
<1>2. CASE SpawnStillborn
  <2>1. PICK e : e = Stopped(next_worker_id)
    OBVIOUS
  <2>2. e \in Events /\ e.kind = "stopped" /\ e.worker = next_worker_id /\ events' = Append(events, e)
    BY <1>2, <2>1 DEF SpawnStillborn, Stopped, Events, TypeOK, Outcomes
  <2>3. Pending' = Pending \cup {e}
    BY <2>2, EventSent DEF Pending
  <2>4. Dead' = Dead \cup {next_worker_id}
    BY <2>2, <2>3 DEF Dead
  <2>5. budget'.spawn = budget.spawn
    BY <1>2 DEF SpawnStillborn, TypeOK, Budgets
  <2> QED
    BY <1>2, <2>4, <2>5 DEF SpawnStillborn, Known
<1> QED
  BY <1>1, <1>2

\* After a spawn that failed nothing is promised any more.
LEMMA FailedSpawnCore ==
    ASSUME TypeOK, CoreInv, SpawnFails
    PROVE  CoreInv'
<1>1. budget.spawn \in Nat /\ budget'.spawn = budget.spawn - 1 /\ MaxSpawnFailures \in Nat
  BY BoundAssumption DEF SpawnFails, TypeOK, Budgets
<1> QED
  BY <1>1 DEF CoreInv, Steady

\* Handlers that do not end where something is promised.
LEMMA UnsteadyCore ==
    ASSUME CoreInv, ~Steady', budget'.spawn = budget.spawn PROVE CoreInv'
BY DEF CoreInv

-----------------------------------------------------------------------------
LEMMA PlaceJobCore ==
    ASSUME TypeOK, JobInv, TypeOK', JobInv', CoreInv, PlaceJob PROVE CoreInv'
<1>1. pc \in {"place", "reuse"}
  BY DEF PlaceJob, PlaceOnIdle, PlaceOnIdleFails, StartJob, StartJobFails, Enqueue,
         ApplyRejectionPolicy, MustStart, MustReject, Saturated, Searching
<1>2. Steady' => Steady \/ SpawnFails
  <2>1. SpawnFails \/ budget'.spawn = budget.spawn
    BY StillbornBudget
       DEF PlaceJob, PlaceOnIdle, PlaceOnIdleFails, StartJob, StartJobFails, Enqueue,
           ApplyRejectionPolicy, SpawnWorker
  <2>2. pc' = after \/ after' = after
    BY DEF PlaceJob, PlaceOnIdle, PlaceOnIdleFails, StartJob, StartJobFails, Enqueue,
           ApplyRejectionPolicy, Placed
  <2> QED
    BY <1>1, <2>1, <2>2 DEF Steady
<1>3. CASE PlaceOnIdle \/ Enqueue \/ ApplyRejectionPolicy
  <2>1. DOMAIN workers' = DOMAIN workers
    BY <1>3 DEF PlaceOnIdle, Enqueue, ApplyRejectionPolicy, Dispatch
  <2>2. UNCHANGED <<events, minimum_workers, budget>> /\ pc' # "closed"
    BY <1>3 DEF PlaceOnIdle, Enqueue, ApplyRejectionPolicy, channelVars, Placed, TypeOK
  <2>3. Known' = Known /\ ~SpawnFails
    BY <2>1, <2>2 DEF Known, Dead, Pending, SpawnFails, TypeOK, Budgets
  <2> QED
    BY <1>1, <1>2, <2>2, <2>3, KnownStay
<1>4. CASE PlaceOnIdleFails
  <2>1. PICK w \in Idle : w \notin DOMAIN tasks /\ RemoveWorkers({w})
    BY <1>4 DEF PlaceOnIdleFails, DispatchFails, Receives
  <2>2. w \in Dead
    BY <1>1, <2>1, GoneIsAnnounced, DeadAre
  <2>3. UNCHANGED <<events, minimum_workers, budget>> /\ pc' # "closed"
    BY <1>4 DEF PlaceOnIdleFails, channelVars
  <2>4. DOMAIN workers' = DOMAIN workers \ {w} /\ Dead' = Dead
    BY <2>1, <2>3, RemoveStays DEF Dead, Pending
  <2>5. Known' = Known
    BY <2>2, <2>4 DEF Known
  <2>6. ~SpawnFails
    BY <2>3 DEF SpawnFails, TypeOK, Budgets
  <2> QED
    BY <1>1, <1>2, <2>3, <2>5, <2>6, KnownStay
<1>5. CASE StartJob \/ (StartJobFails /\ SpawnStillborn)
  <2>2. SpawnWorker(held) \/ SpawnStillborn
    BY <1>5 DEF StartJob
  <2>3. /\ Known' = Known \cup {next_worker_id} /\ minimum_workers' = RaisedMinimum
        /\ budget'.spawn = budget.spawn
    BY <2>2, SpawnKnown
  <2>4. ~SpawnFails
    BY <2>3, FailureBudget
  <2>5. pc # "closed" /\ (Steady' => Steady)
    BY <1>1, <1>2, <2>4
  <2> QED
    BY <2>3, <2>5, KnownGrow
<1>6. CASE StartJobFails /\ SpawnFails
  BY <1>6, FailedSpawnCore
<1> QED
  BY <1>3, <1>4, <1>5, <1>6 DEF PlaceJob, StartJobFails

LEMMA CommandCore ==
    ASSUME TypeOK, PoolInv, JobInv, TypeOK', JobInv', CoreInv, HandleCommand PROVE CoreInv'
<1>1. CASE HandleSubmit \/ HandlePrestart \/ PrestartDone
  <2>1. /\ UNCHANGED <<workers, events, minimum_workers, budget, after>>
        /\ pc # "closed" /\ pc' # "closed" /\ (Steady' => Steady)
    BY <1>1 DEF HandleSubmit, HandlePrestart, PrestartDone, Receive, channelVars, Steady
  <2>2. Known' = Known
    BY <2>1 DEF Known, Dead, Pending
  <2> QED
    BY <2>1, <2>2, KnownStay
<1>2. CASE PrestartWorker
  <2>1. PICK j : SpawnWorker(j)
    BY <1>2 DEF PrestartWorker
  <2>2. /\ Known' = Known \cup {next_worker_id} /\ minimum_workers' = RaisedMinimum
        /\ budget'.spawn = budget.spawn
    BY <2>1, SpawnKnown
  <2>3. pc # "closed" /\ (Steady' => Steady)
    BY <1>2, <2>2 DEF PrestartWorker, Steady
  <2> QED
    BY <2>2, <2>3, KnownGrow
<1>3. CASE PrestartStillborn
  <2>2. SpawnStillborn
    BY <1>3 DEF PrestartStillborn
  <2>3. /\ Known' = Known \cup {next_worker_id} /\ minimum_workers' = RaisedMinimum
        /\ budget'.spawn = budget.spawn
    BY <2>2, SpawnKnown
  <2>4. after # "restore"
    BY <1>3 DEF PrestartStillborn, PoolInv
  <2>5. pc # "closed" /\ (Steady' => Steady)
    BY <1>3, <2>3, <2>4 DEF PrestartStillborn, Steady
  <2> QED
    BY <2>3, <2>5, KnownGrow
<1>4. CASE PrestartFails
  BY <1>4, FailedSpawnCore DEF PrestartFails
<1>5. CASE HandleShutdown \/ HandlesDropped
  BY <1>5, UnsteadyCore DEF HandleShutdown, HandlesDropped, Close, Steady
<1> QED
  BY <1>1, <1>2, <1>3, <1>4, <1>5 DEF HandleCommand

LEMMA EventCore ==
    ASSUME TypeOK, JobInv, TypeOK', JobInv', CoreInv, HandleWorkerEvent PROVE CoreInv'
<1>1. CASE HandleFinished \/ HandleStopped
  BY <1>1, UnsteadyCore DEF HandleFinished, HandleStopped, Steady
<1>2. CASE HandleOneShotFinished
  <2>1. /\ events # <<>> /\ events' = Tail(events) /\ Head(events).kind = "oneshot"
        /\ pc # "closed" /\ pc' # "closed" /\ (Steady' => Steady)
        /\ UNCHANGED <<workers, minimum_workers, budget>>
    BY <1>2 DEF HandleOneShotFinished, Event, Steady
  <2>2. Pending = Pending' \cup {Head(events)}
    BY <2>1, EventTaken DEF Pending
  <2>3. Known' = Known
    BY <2>1, <2>2 DEF Known, Dead
  <2> QED
    BY <2>1, <2>3, KnownStay
<1> QED
  BY <1>1, <1>2 DEF HandleWorkerEvent

LEMMA DrainCore ==
    ASSUME TypeOK, CoreInv, DrainOneQueuedTask PROVE CoreInv'
<1>1. CASE DrainSpawnFails
  BY <1>1, FailedSpawnCore DEF DrainSpawnFails
<1>2. CASE DrainToIdle \/ DrainToIdleFails \/ DrainNothing \/ DrainToNew
  BY <1>2, UnsteadyCore
     DEF DrainToIdle, DrainToIdleFails, DrainNothing, DrainToNew, SpawnWorker, Steady
<1>3. CASE DrainToStillborn
  BY <1>3, UnsteadyCore, StillbornBudget DEF DrainToStillborn, Steady
<1> QED
  BY <1>1, <1>2, <1>3 DEF DrainOneQueuedTask

\* The loop of restore_core_workers is what makes the promise.
LEMMA RestoreCore ==
    ASSUME TypeOK, JobInv, CoreInv, RestoreCoreWorkers PROVE CoreInv'
<1>1. CASE RestoreWorker
  BY <1>1, UnsteadyCore DEF RestoreWorker, SpawnWorker, Steady
<1>2. CASE RestoreStillborn
  BY <1>2, UnsteadyCore, StillbornBudget DEF RestoreStillborn, Steady
<1>3. CASE RestoreFails
  BY <1>3, FailedSpawnCore DEF RestoreFails
<1>4. CASE RestoreDone
  <2>1. /\ pc # "closed" /\ minimum_workers <= PoolSize /\ minimum_workers \in Nat
        /\ UNCHANGED <<workers, events, minimum_workers, budget>>
    BY <1>4, SlotsFinite DEF RestoreDone, TypeOK, channelVars
  <2>2. Cardinality(Known) \in Nat /\ PoolSize \in Nat /\ PoolSize <= Cardinality(Known)
    BY <2>1, KnownFinite
  <2>3. Cardinality(Known)' = Cardinality(Known)
    BY <2>1 DEF Known, Dead, Pending
  <2> QED
    BY <2>1, <2>2, <2>3 DEF CoreInv
<1> QED
  BY <1>1, <1>2, <1>3, <1>4 DEF RestoreCoreWorkers

\* Only workers above the core size are retired, and the minimum is below it.
LEMMA RetireCore ==
    ASSUME TypeOK, JobInv, PoolInv', TypeOK', JobInv', CoreInv, RetireIdleWorkers
    PROVE  CoreInv'
<1>1. PICK R \in SUBSET Idle : Cardinality(R) <= PoolSize - CorePoolSize /\ RemoveWorkers(R)
  BY DEF RetireIdleWorkers
<1>2. UNCHANGED <<minimum_workers, budget>> /\ pc' = "select"
  BY DEF RetireIdleWorkers
<1>3. /\ IsFiniteSet(DOMAIN workers) /\ PoolSize \in Nat /\ CorePoolSize \in Nat
      /\ R \subseteq DOMAIN workers
  BY SlotsFinite, ConfigAssumption DEF Idle
<1>4. DOMAIN workers' = DOMAIN workers \ R
  BY <1>1 DEF RemoveWorkers, Without
<1>5. /\ IsFiniteSet(R) /\ Cardinality(R) \in Nat
      /\ Cardinality(DOMAIN workers \ R) = PoolSize - Cardinality(R)
  <2>1. IsFiniteSet(R)
    BY <1>3, FS_Subset
  <2>2. DOMAIN workers \cap R = R
    BY <1>3
  <2> QED
    BY <1>3, <2>1, <2>2, FS_Difference, FS_CardinalityType DEF PoolSize
<1>6. PoolSize' >= CorePoolSize
  <2>1. PoolSize' = Cardinality(DOMAIN workers \ R)
    BY <1>4 DEF PoolSize
  <2> QED
    BY <1>1, <1>3, <1>5, <2>1
<1>7. (TypeOK /\ JobInv /\ pc # "closed" =>
          Cardinality(Known) \in Nat /\ PoolSize \in Nat /\ PoolSize <= Cardinality(Known))'
  BY KnownAreMore, PTL
<1>8. (minimum_workers <= CorePoolSize)' /\ minimum_workers' \in Nat
  BY DEF PoolInv, PoolBounds, TypeOK
<1>9. PoolSize' \in Nat /\ PoolSize' <= Cardinality(Known)' /\ Cardinality(Known)' \in Nat
  BY <1>2, <1>7
<1>10. minimum_workers' <= Cardinality(Known)'
  BY <1>3, <1>6, <1>8, <1>9
<1> QED
  BY <1>2, <1>10 DEF CoreInv

\* The tasks and the callers can only have more workers announced as dead.
LEMMA OtherCore ==
    ASSUME TypeOK, JobInv, TypeOK', JobInv', CoreInv, [Next]_vars, ~SupervisorStep
    PROVE  CoreInv'
<1> USE DEF supervisorVars
<1>1. UNCHANGED <<workers, minimum_workers, pc, after>> /\ budget'.spawn = budget.spawn
  <2>1. UNCHANGED <<workers, minimum_workers, pc, after>>
    BY DEF Next, ClientStep, Execute, Prestart, Shutdown, DropHandles, WorkerStep, ChildExits,
           TakeJob, NoticeExit, InboxClosed, Exchange, KillChild, Cancel, OneShotStep,
           OneShotEnds, Quiescent, vars
  <2>2. \/ UNCHANGED budget
        \/ \E b \in {"prestart", "close", "fault"} :
              budget' = [budget EXCEPT ![b] = @ - 1]
    BY DEF Next, ClientStep, Execute, Prestart, Shutdown, DropHandles, WorkerStep, ChildExits,
           TakeJob, NoticeExit, InboxClosed, Exchange, KillChild, Cancel, OneShotStep,
           OneShotEnds, Quiescent, vars, MayFail
  <2>3. DOMAIN budget = {"prestart", "close", "fault", "spawn"}
    BY DEF TypeOK, Budgets
  <2> QED
    BY <2>1, <2>2, <2>3
<1>2. pc = "closed" \/ Pending \subseteq Pending'
  BY OtherEvents
<1>3. CASE pc = "closed"
  BY <1>1, <1>3, UnsteadyCore DEF Steady
<1>4. CASE pc # "closed"
  <2>1. Dead \subseteq Dead'
    BY <1>2, <1>4 DEF Dead
  <2>2. Known \subseteq Known' /\ pc' # "closed" /\ (Steady' => Steady)
    BY <1>1, <1>4, <2>1 DEF Known, Steady
  <2> QED
    BY <1>1, <1>4, <2>2, KnownStay
<1> QED
  BY <1>3, <1>4

LEMMA CoreStep ==
    TypeOK /\ PoolInv /\ JobInv /\ TypeOK' /\ PoolInv' /\ JobInv' /\ CoreInv /\ [Next]_vars
      => CoreInv'
BY PlaceJobCore, CommandCore, EventCore, DrainCore, RestoreCore, RetireCore, OtherCore
   DEF SupervisorStep

LEMMA CoreIsRestored == TypeOK /\ PoolInv /\ JobInv /\ CoreInv => CoreRestored
<1> SUFFICES ASSUME TypeOK, PoolInv, JobInv, CoreInv, pc = "select",
                    budget.spawn = MaxSpawnFailures
             PROVE  minimum_workers <=
                      PoolSize + Cardinality({events[i].worker : i \in
                                    {k \in DOMAIN events : events[k].kind = "stopped"}}
                                 \ DOMAIN workers)
  BY DEF CoreRestored
<1>1. Steady
  BY DEF Steady, PoolInv
<1> QED
  BY <1>1, KnownFinite, DeadAre DEF CoreInv

\* While no spawn fails, the core that was started is complete whenever the
\* supervisor waits, but for the workers whose Stopped events are pending.
THEOREM CoreComplete == Spec => []CoreRestored
<1>1. Init => CoreInv
  <2>1. ASSUME Init
        PROVE  /\ budget.spawn = MaxSpawnFailures /\ minimum_workers = 0
               /\ workers = <<>> /\ events = <<>>
    BY <2>1 DEF Init
  <2>2. ASSUME Init
        PROVE  Known = {}
    BY <2>1, <2>2 DEF Known, Dead, Pending, Range
  <2> QED
    BY <2>1, <2>2, FS_EmptySet, BoundAssumption DEF CoreInv
<1> QED
  BY <1>1, CoreStep, CoreIsRestored, TypeCorrect, PoolInvCorrect, JobInvCorrect, PTL DEF Spec

===============================================================================

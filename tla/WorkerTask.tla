------------------------------ MODULE WorkerTask ------------------------------
(***************************************************************************)
(* The steps of the tasks that own child processes: worker_loop, one per   *)
(* worker, and run_one_shot_worker, one per call that CallerRuns moved out *)
(* of the pool; and the exits of the children, which happen on their own.  *)
(*                                                                         *)
(* A task that was aborted runs on until it reaches an await at which the  *)
(* runtime cancels it: every step below remains possible until Cancel.     *)
(***************************************************************************)
EXTENDS PoolState

\* Slip: the inbox, and the senders in it, survive the task.
EndKeepingInbox(w) ==
    /\ tasks' = Without(tasks, {w})
    /\ answer' = Answered({tasks[w].call} \ {NoCall}, "closed")

\* Task w is gone with what it owns: its child (kill_on_drop) and its jobs,
\* whose callers see their channel closed.
End(w) ==
    /\ tasks' = Without(tasks, {w})
    /\ answer' = Answered(Owned(w), "closed")

\* event_tx.send: there is no one to receive it once run has returned.
Send(e) == events' = IF pc = "closed" THEN events ELSE Append(events, e)

\* A run of a request can fail on its own at any time, within the bound.
MayFail(o) ==
    IF o = "broken"
      THEN budget.fault > 0 /\ budget' = [budget EXCEPT !.fault = @ - 1]
      ELSE UNCHANGED budget

-----------------------------------------------------------------------------
\* The select of worker_loop takes either branch when both are ready.

TakeJob(w) ==
    /\ tasks[w].at = "select"
    /\ tasks[w].inbox # <<>>
    /\ tasks' = [tasks EXCEPT ![w].at = "exchange",
                              ![w].call = Head(tasks[w].inbox),
                              ![w].inbox = Tail(@)]
    /\ UNCHANGED <<answer, channelVars, budget, supervisorVars, oneshots>>

\* Slip: the task returns without a word.
NoticeExitSilently(w) ==
    /\ tasks[w].at = "select"
    /\ ~tasks[w].alive
    /\ End(w)
    /\ UNCHANGED <<channelVars, budget, supervisorVars, oneshots>>

\* child.wait returned: the receiver is dropped with the jobs in it.
NoticeExit(w) ==
    /\ tasks[w].at = "select"
    /\ ~tasks[w].alive
    /\ End(w)
    /\ Send(Stopped(w))
    /\ UNCHANGED <<commands, handles, budget, supervisorVars, oneshots>>

\* job_rx.recv returned None: remove_worker dropped the sender.
InboxClosed(w) ==
    /\ tasks[w].at = "select"
    /\ w \notin DOMAIN workers
    /\ tasks[w].inbox = <<>>
    /\ tasks' = [tasks EXCEPT ![w].at = "kill"]
    /\ UNCHANGED <<answer, channelVars, budget, supervisorVars, oneshots>>

(***************************************************************************)
(* exchange_with_timeout returns.  A living child may answer or fail; one  *)
(* that has exited cannot (an answer it wrote before is read as if it had  *)
(* exited after the exchange).  The job goes into the Finished event, and  *)
(* is dropped with it when nobody receives events any more.                *)
(***************************************************************************)
Exchange(w, o) ==
    LET j == tasks[w].call
    IN  /\ tasks[w].at = "exchange"
        /\ IF tasks[w].alive THEN MayFail(o)
                             ELSE o = "broken" /\ UNCHANGED budget
        /\ Send(Finished(w, j, o))
        /\ answer' = IF pc = "closed" THEN Answered({j}, "closed") ELSE answer
        /\ tasks' = [tasks EXCEPT ![w].call = NoCall,
                                  ![w].at = IF o \in Reusable /\ pc # "closed"
                                            THEN "select" ELSE "kill"]
        /\ UNCHANGED <<commands, handles, supervisorVars, oneshots>>

\* child.kill and child.wait, and the end of the task.
KillChild(w) ==
    /\ tasks[w].at = "kill"
    /\ End(w)
    /\ UNCHANGED <<channelVars, budget, supervisorVars, oneshots>>

\* The runtime drops an aborted task at an await.
Cancel(w) ==
    /\ tasks[w].abort
    /\ End(w)
    /\ UNCHANGED <<channelVars, budget, supervisorVars, oneshots>>

\* The child process exits by itself.
ChildExits(w) ==
    /\ budget.fault > 0
    /\ tasks[w].alive
    /\ tasks' = [tasks EXCEPT ![w].alive = FALSE]
    /\ budget' = [budget EXCEPT !.fault = @ - 1]
    /\ UNCHANGED <<answer, channelVars, supervisorVars, oneshots>>

-----------------------------------------------------------------------------
\* Slip: the task itself answers when it cannot send its event.
OneShotAnswers(j, o) ==
    /\ j \in oneshots
    /\ MayFail(o)
    /\ oneshots' = oneshots \ {j}
    /\ Send(OneShotFinished(j, o))
    /\ answer' = IF pc = "closed" THEN Answered({j}, o) ELSE answer
    /\ UNCHANGED <<commands, handles, supervisorVars, tasks>>

\* run_one_shot_worker has run call j, and its task reports the outcome.
OneShotEnds(j, o) ==
    /\ j \in oneshots
    /\ MayFail(o)
    /\ oneshots' = oneshots \ {j}
    /\ Send(OneShotFinished(j, o))
    /\ answer' = IF pc = "closed" THEN Answered({j}, "closed") ELSE answer
    /\ UNCHANGED <<commands, handles, supervisorVars, tasks>>

WorkerStep(w) ==
    \/ TakeJob(w)
    \/ NoticeExit(w)
    \/ InboxClosed(w)
    \/ \E o \in Outcomes : Exchange(w, o)
    \/ KillChild(w)
    \/ Cancel(w)

OneShotStep(j) == \E o \in Outcomes : OneShotEnds(j, o)
=============================================================================

----------------------------- MODULE WorkerExchange -----------------------------
(***************************************************************************)
(* What the steps TakeJob, Exchange and KillChild of WorkerTask leave out: *)
(* the lines between worker_loop and its child process (exchange_one and   *)
(* worker_response_to_result in src/src/pool.rs, src/src/protocol.rs), and *)
(* a child that keeps the protocol, as src/src/bin/echo-worker.rs does, or *)
(* breaks it.                                                              *)
(*                                                                         *)
(* A job is its id.  The supervisor gives a worker one job at a time and   *)
(* never one id twice (OneJobPerWorker and NeverRunAgain of ProcessPool).  *)
(* A line is what serde makes of it.                                       *)
(***************************************************************************)
EXTENDS Integers, Sequences, FiniteSets

CONSTANTS
    MaxJobs,      \* bound: jobs
    MaxProcesses, \* bound: processes started, one after the other
    MaxMisdeeds   \* bound: lines, exits and closed pipes that break the protocol

ASSUME ExchangeAssumption ==
    /\ {MaxJobs, MaxMisdeeds} \subseteq Nat
    /\ MaxProcesses \in Nat \ {0}

Jobs == 1 .. MaxJobs
None == 0

VARIABLES
    loop,      \* worker_loop: where it is, and the job it exchanges
    outcome,   \* TaskOutcome of each job
    requests,  \* the child's stdin: ids written and not read
    lines,     \* its stdout: lines written and not read
    child,     \* alive, its open ends of the pipes, the request it serves, and
               \* all it has read
    started,   \* processes started
    misdeeds   \* what remains of the bound

vars == <<loop, outcome, requests, lines, child, started, misdeeds>>

\* WorkerResponse with its three fields, or a line that is none: not JSON, a
\* missing or an unknown field.
Response(id, ok, result, error) ==
    [id |-> id, ok |-> ok, result |-> result, error |-> error, parses |-> TRUE]
Unparsable ==
    [id |-> None, ok |-> FALSE, result |-> FALSE, error |-> FALSE, parses |-> FALSE]

\* WorkerResponse::success, with a result or without (null), and ::failure.
Conforming(id) ==
    {Response(id, TRUE, r, FALSE) : r \in BOOLEAN}
    \cup {Response(id, FALSE, FALSE, TRUE)}

AnyLine(Ids) ==
    {Response(id, ok, r, e) : id \in Ids, ok \in BOOLEAN, r \in BOOLEAN,
                              e \in BOOLEAN} \cup {Unparsable}

NewLoop == [at |-> "select", job |-> None]
NewChild == [alive |-> TRUE, open |-> {"stdin", "stdout"}, serves |-> None,
             read |-> {}]

\* An exit closes both ends.
Has(end) == child.alive /\ end \in child.open

Init ==
    /\ loop = NewLoop
    /\ outcome = [j \in Jobs |-> "none"]
    /\ requests = <<>>
    /\ lines = <<>>
    /\ child = NewChild
    /\ started = 1
    /\ misdeeds = MaxMisdeeds

-----------------------------------------------------------------------------
\* worker_loop.

\* job_rx.recv: the next job.
TakeJob(j) ==
    /\ loop.at = "select"
    /\ outcome[j] = "none"
    /\ \A i \in 1 .. (j - 1) : outcome[i] # "none"
    /\ loop' = [at |-> "write", job |-> j]
    /\ outcome' = [outcome EXCEPT ![j] = "running"]
    /\ UNCHANGED <<requests, lines, child, started, misdeeds>>

\* child.wait: the child has exited between two jobs.
NoticeExit ==
    /\ loop.at = "select"
    /\ ~child.alive
    /\ loop' = [loop EXCEPT !.at = "over"]
    /\ UNCHANGED <<outcome, requests, lines, child, started, misdeeds>>

\* The exchange ends; the worker is reused or killed.
Ends(o, reusable) ==
    /\ outcome' = [outcome EXCEPT ![loop.job] = o]
    /\ loop' = [at |-> IF reusable THEN "select" ELSE "kill", job |-> None]

\* write_all and flush; when the child has closed its end, by an exit or not,
\* they fail.
WriteRequest ==
    /\ loop.at = "write"
    /\ IF Has("stdin")
         THEN /\ requests' = Append(requests, loop.job)
              /\ loop' = [loop EXCEPT !.at = "read"]
              /\ UNCHANGED outcome
         ELSE /\ Ends("worker_io", FALSE)
              /\ UNCHANGED requests
    /\ UNCHANGED <<lines, child, started, misdeeds>>

\* worker_response_to_result.
ResponseToResult(l) ==
    CASE l.ok /\ ~l.error -> "ok"
      [] ~l.ok /\ ~l.result /\ l.error -> "returned"
      [] OTHER -> "protocol"

\* Slip: the response is taken for the answer to the request under way.
OutcomeOfAnyId(l) == IF ~l.parses THEN "protocol" ELSE ResponseToResult(l)

\* What exchange_one makes of the next line.
OutcomeOf(l) ==
    IF ~l.parses \/ l.id # loop.job THEN "protocol" ELSE ResponseToResult(l)

\* next_line: the end of the output is reached when the child has closed its end
\* and everything it wrote has been read.
ReadLine ==
    /\ loop.at = "read"
    /\ IF lines # <<>>
         THEN LET o == OutcomeOf(Head(lines))
              IN  /\ Ends(o, o # "protocol")
                  /\ lines' = Tail(lines)
         ELSE /\ ~Has("stdout")
              /\ Ends("worker_exited", FALSE)
              /\ UNCHANGED lines
    /\ UNCHANGED <<requests, child, started, misdeeds>>

\* Slip: a worker that was too slow is kept.
TimesOutReusable ==
    /\ loop.at \in {"write", "read"}
    /\ Ends("timeout", TRUE)
    /\ UNCHANGED <<requests, lines, child, started, misdeeds>>

\* The timeout of exchange_with_timeout, at any moment of the exchange.
TimesOut ==
    /\ loop.at \in {"write", "read"}
    /\ Ends("timeout", FALSE)
    /\ UNCHANGED <<requests, lines, child, started, misdeeds>>

KillChild ==
    /\ loop.at = "kill"
    /\ child' = [child EXCEPT !.alive = FALSE]
    /\ loop' = [loop EXCEPT !.at = "over"]
    /\ UNCHANGED <<outcome, requests, lines, started, misdeeds>>

\* Slip: the output of the process before is read on.
RespawnReading ==
    /\ loop.at = "over"
    /\ started < MaxProcesses
    /\ started' = started + 1
    /\ loop' = NewLoop
    /\ child' = NewChild
    /\ requests' = <<>>
    /\ UNCHANGED <<outcome, lines, misdeeds>>

\* The supervisor starts another worker: another process with pipes of its own.
Respawn ==
    /\ loop.at = "over"
    /\ started < MaxProcesses
    /\ started' = started + 1
    /\ loop' = NewLoop
    /\ child' = NewChild
    /\ requests' = <<>>
    /\ lines' = <<>>
    /\ UNCHANGED <<outcome, misdeeds>>

-----------------------------------------------------------------------------
\* The child.

Says(l) == Has("stdout") /\ lines' = Append(lines, l)

\* One request is read after the other has been served.
ChildReads ==
    /\ Has("stdin")
    /\ child.serves = None
    /\ requests # <<>>
    /\ child' = [child EXCEPT !.serves = Head(requests),
                              !.read = @ \cup {Head(requests)}]
    /\ requests' = Tail(requests)
    /\ UNCHANGED <<loop, outcome, lines, started, misdeeds>>

\* handle: the request is answered.
ChildAnswers ==
    /\ child.serves # None
    /\ \E l \in Conforming(child.serves) : Says(l)
    /\ child' = [child EXCEPT !.serves = None]
    /\ UNCHANGED <<loop, outcome, requests, started, misdeeds>>

Misdeed == misdeeds > 0 /\ misdeeds' = misdeeds - 1

\* A line that is out of place: in another shape, twice, or with the id of a
\* request read before; but a child cannot know an id it was not told.
ChildBabbles ==
    /\ Misdeed
    /\ \E l \in AnyLine(child.read \cup {None}) : Says(l)
    /\ UNCHANGED <<loop, outcome, requests, child, started>>

\* It exits, in the middle of a request ("crash") or between two.
ChildExits ==
    /\ child.alive
    /\ Misdeed
    /\ child' = [child EXCEPT !.alive = FALSE]
    /\ UNCHANGED <<loop, outcome, requests, lines, started>>

\* It closes an end of the pipes and lives on, which nothing watches for.
ChildCloses ==
    /\ Misdeed
    /\ \E end \in {"stdin", "stdout"} :
          /\ Has(end)
          /\ child' = [child EXCEPT !.open = @ \ {end}]
    /\ UNCHANGED <<loop, outcome, requests, lines, started>>

Next ==
    \/ \E j \in Jobs : TakeJob(j)
    \/ NoticeExit \/ WriteRequest \/ ReadLine \/ TimesOut \/ KillChild
    \/ Respawn
    \/ ChildReads \/ ChildAnswers \/ ChildBabbles \/ ChildExits \/ ChildCloses

Spec == Init /\ [][Next]_vars

-----------------------------------------------------------------------------
Outcomes == {"ok", "returned", "protocol", "worker_io", "worker_exited", "timeout"}

Children == [alive : BOOLEAN, open : SUBSET {"stdin", "stdout"},
             serves : Jobs \cup {None}, read : SUBSET Jobs]

\* Every variable has its type, and the loop has a job just while it exchanges.
TypeOK ==
    /\ loop \in [at : {"select", "write", "read", "kill", "over"},
                 job : Jobs \cup {None}]
    /\ (loop.job # None) <=> (loop.at \in {"write", "read"})
    /\ outcome \in [Jobs -> Outcomes \cup {"none", "running"}]
    /\ requests \in Seq(Jobs)
    /\ lines \in Seq([id : Jobs \cup {None}, ok : BOOLEAN, result : BOOLEAN,
                      error : BOOLEAN, parses : BOOLEAN])
    /\ child \in Children
    /\ started \in 1 .. MaxProcesses
    /\ misdeeds \in 0 .. MaxMisdeeds

\* No late, doubled or stray line of a worker is given to a caller as the
\* result of another request: a result tells of a line that names the job, and
\* was written by a child that had read it.
ResultsAreOfTheRequest ==
    [][\A j \in Jobs :
          outcome'[j] # outcome[j] /\ outcome'[j] \in {"ok", "returned"}
            => j \in child.read /\ Head(lines).id = j]_vars

\* A worker that keeps the protocol goes back to work with nothing left over:
\* no line unread, no request unanswered, whatever timed out before.
ReusedIsClean ==
    loop.at = "select" /\ misdeeds = MaxMisdeeds =>
        requests = <<>> /\ lines = <<>> /\ child.serves = None

\* One stray line costs its worker and at most one job: the next job runs in a
\* process without a past.
OneJobPerMisdeed ==
    Cardinality({j \in Jobs : outcome[j] \in {"protocol", "worker_io", "worker_exited"}})
        <= MaxMisdeeds - misdeeds
=============================================================================

------------------------------ MODULE ExchangeProofs ------------------------------
(***************************************************************************)
(* Proofs about WorkerExchange, for any number of jobs, of processes and   *)
(* of lines that break the protocol: a result belongs to its request, a    *)
(* worker that is reused is clean, and a misdeed costs one job at most.    *)
(***************************************************************************)
EXTENDS WorkerExchange, FiniteSetTheorems, TLAPS

\* What the child has written names requests that it has read.
LinesAreRead ==
    /\ child.serves # None => child.serves \in child.read
    /\ \A i \in 1 .. Len(lines) : lines[i].id # None => lines[i].id \in child.read

Lost == {"protocol", "worker_io", "worker_exited"}
LostJobs == {j \in Jobs : outcome[j] \in Lost}

\* A process without a misdeed: nothing is on its way, or the one request, or
\* the one answer.
Clean ==
    /\ Has("stdin") /\ Has("stdout")
    /\ loop.at \in {"select", "write"} =>
          requests = <<>> /\ lines = <<>> /\ child.serves = None
    /\ loop.at = "read" =>
          \/ requests = <<loop.job>> /\ lines = <<>> /\ child.serves = None
          \/ requests = <<>> /\ lines = <<>> /\ child.serves = loop.job
          \/ /\ requests = <<>> /\ child.serves = None
             /\ \E l \in Conforming(loop.job) : lines = <<l>>

\* Each job lost is paid by a misdeed; when none is left unpaid, the process
\* that the loop works with is clean.
Paid ==
    /\ Cardinality(LostJobs) <= MaxMisdeeds - misdeeds
    /\ Cardinality(LostJobs) = MaxMisdeeds - misdeeds
         /\ loop.at \in {"select", "write", "read"} => Clean
    /\ loop.job # None => outcome[loop.job] = "running"

ExchangeInv == TypeOK /\ LinesAreRead /\ Paid

Lines == [id : Jobs \cup {None}, ok : BOOLEAN, result : BOOLEAN, error : BOOLEAN,
          parses : BOOLEAN]

LEMMA NoneIsNoJob == None \notin Jobs
BY DEF None, Jobs

\* A line that answers a request as the protocol has it ends the exchange well.
LEMMA ConformingAnswers ==
    ASSUME NEW j \in Jobs, NEW l \in Conforming(j)
    PROVE  /\ l \in Lines /\ l.id = j
           /\ loop.job = j => OutcomeOf(l) \in {"ok", "returned"}
<1>1. CASE l = Response(j, FALSE, FALSE, TRUE)
  BY <1>1 DEF Response, Lines, OutcomeOf, ResponseToResult
<1>2. ASSUME NEW r \in BOOLEAN, l = Response(j, TRUE, r, FALSE)
      PROVE  /\ l \in Lines /\ l.id = j
             /\ loop.job = j => OutcomeOf(l) \in {"ok", "returned"}
  BY <1>2 DEF Response, Lines, OutcomeOf, ResponseToResult
<1> QED BY <1>1, <1>2 DEF Conforming

\* Any line names a job or none.
LEMMA AnyLineTypes ==
    ASSUME NEW Known \in SUBSET (Jobs \cup {None}), None \in Known, NEW l \in AnyLine(Known)
    PROVE  l \in Lines /\ l.id \in Known
<1>1. CASE l = Unparsable
  BY <1>1 DEF Unparsable, Lines
<1>2. ASSUME NEW id \in Known, NEW ok \in BOOLEAN, NEW r \in BOOLEAN, NEW e \in BOOLEAN,
             l = Response(id, ok, r, e)
      PROVE  l \in Lines /\ l.id \in Known
  BY <1>2 DEF Response, Lines
<1> QED BY <1>1, <1>2 DEF AnyLine

LEMMA OutcomeTypes == ASSUME NEW l PROVE OutcomeOf(l) \in {"ok", "returned", "protocol"}
BY DEF OutcomeOf, ResponseToResult

\* The end of one job counts one more lost or none.
LEMMA LostCounts ==
    ASSUME outcome \in [Jobs -> Outcomes \cup {"none", "running"}], NEW j \in Jobs,
           outcome[j] \in {"none", "running"}, NEW o \in Outcomes \cup {"running"},
           outcome' = [outcome EXCEPT ![j] = o]
    PROVE  /\ Cardinality(LostJobs) \in Nat
           /\ Cardinality(LostJobs') =
                 IF o \in Lost THEN Cardinality(LostJobs) + 1 ELSE Cardinality(LostJobs)
<1>1. IsFiniteSet(LostJobs)
  <2>1. IsFiniteSet(Jobs)
    BY ExchangeAssumption, FS_Interval DEF ExchangeAssumption, Jobs
  <2>2. LostJobs \subseteq Jobs
    BY DEF LostJobs
  <2> QED BY <2>1, <2>2, FS_Subset
<1>2. Cardinality(LostJobs) \in Nat
  BY <1>1, FS_CardinalityType
<1>3. j \notin LostJobs
  BY DEF LostJobs, Lost
<1>4. LostJobs' = IF o \in Lost THEN LostJobs \cup {j} ELSE LostJobs
  BY DEF LostJobs, Lost
<1> QED BY <1>1, <1>2, <1>3, <1>4, FS_AddElement

LEMMA InitExchange == Init => ExchangeInv
<1> SUFFICES ASSUME Init PROVE ExchangeInv
  OBVIOUS
<1>1. /\ loop = [at |-> "select", job |-> None] /\ outcome = [j \in Jobs |-> "none"]
      /\ requests = <<>> /\ lines = <<>> /\ started = 1 /\ misdeeds = MaxMisdeeds
      /\ child = [alive |-> TRUE, open |-> {"stdin", "stdout"}, serves |-> None,
                  read |-> {}]
  BY DEF Init, NewLoop, NewChild
<1>2. TypeOK
  BY <1>1, ExchangeAssumption, NoneIsNoJob DEF TypeOK, ExchangeAssumption, Children
<1>3. LinesAreRead
  BY <1>1 DEF LinesAreRead
<1>4. Paid
  <2>1. LostJobs = {}
    BY <1>1 DEF LostJobs, Lost
  <2>2. Cardinality(LostJobs) = 0 /\ MaxMisdeeds - misdeeds = 0
    BY <1>1, <2>1, FS_EmptySet, ExchangeAssumption DEF ExchangeAssumption
  <2>3. Clean
    BY <1>1 DEF Clean, Has
  <2> QED BY <1>1, <2>2, <2>3 DEF Paid
<1> QED BY <1>2, <1>3, <1>4 DEF ExchangeInv

\* The numbers of the accounts.
LEMMA Numbers ==
    ASSUME ExchangeInv
    PROVE  /\ MaxMisdeeds \in Nat /\ misdeeds \in Nat
           /\ Cardinality(LostJobs) \in Nat
<1>1. IsFiniteSet(LostJobs)
  <2>1. IsFiniteSet(Jobs)
    BY ExchangeAssumption, FS_Interval DEF ExchangeAssumption, Jobs
  <2>2. LostJobs \subseteq Jobs
    BY DEF LostJobs
  <2> QED BY <2>1, <2>2, FS_Subset
<1> QED BY <1>1, FS_CardinalityType, ExchangeAssumption
    DEF ExchangeAssumption, ExchangeInv, TypeOK

\* A step of the loop outside an exchange, or of the child without a misdeed.
LEMMA AccountsKept ==
    ASSUME Paid, UNCHANGED <<outcome, misdeeds>>,
           loop'.job # None => loop' = loop,
           /\ loop'.at \in {"select", "write", "read"}
           /\ loop.at \in {"select", "write", "read"} => Clean
           => Clean'
    PROVE  Paid'
<1>1. LostJobs' = LostJobs
  BY DEF LostJobs
<1> QED BY <1>1 DEF Paid

LEMMA TakeJobKeeps == ASSUME ExchangeInv, NEW j \in Jobs, TakeJob(j) PROVE ExchangeInv'
<1>1. /\ loop.at = "select" /\ outcome[j] = "none"
      /\ loop' = [at |-> "write", job |-> j]
      /\ outcome' = [outcome EXCEPT ![j] = "running"]
      /\ UNCHANGED <<requests, lines, child, started, misdeeds>>
  BY DEF TakeJob
<1>2. TypeOK'
  BY <1>1, NoneIsNoJob DEF ExchangeInv, TypeOK
<1>3. LinesAreRead'
  BY <1>1 DEF ExchangeInv, LinesAreRead
<1>4. Cardinality(LostJobs') = Cardinality(LostJobs)
  <2>1. "running" \notin Lost
    BY DEF Lost
  <2> QED BY <1>1, <2>1, LostCounts DEF ExchangeInv, TypeOK
<1>5. Clean => Clean'
  BY <1>1 DEF Clean, Has
<1>6. Paid'
  BY <1>1, <1>4, <1>5 DEF ExchangeInv, Paid, TypeOK
<1> QED BY <1>2, <1>3, <1>6 DEF ExchangeInv

\* An exchange ends: a job that is lost is paid by the misdeed of a process
\* that was not clean, and a worker that is reused is clean.
LEMMA EndsKeeps ==
    ASSUME ExchangeInv, NEW o \in Outcomes, NEW reusable \in BOOLEAN,
           loop.at \in {"write", "read"},
           Ends(o, reusable),
           UNCHANGED <<requests, child, started, misdeeds>>,
           lines' \in Seq(Lines),
           \A i \in 1 .. Len(lines') :
              lines'[i].id # None => lines'[i].id \in child.read,
           Clean \/ reusable => o \notin Lost,
           Clean /\ reusable => requests = <<>> /\ lines' = <<>> /\ child.serves = None
    PROVE  ExchangeInv'
<1>1. /\ outcome' = [outcome EXCEPT ![loop.job] = o]
      /\ loop' = [at |-> IF reusable THEN "select" ELSE "kill", job |-> None]
      /\ loop'.at \in {"select", "kill"} /\ loop'.job = None
  BY DEF Ends
<1>2. loop.job \in Jobs /\ outcome[loop.job] = "running"
  BY DEF ExchangeInv, TypeOK, Paid
<1>3. TypeOK'
  BY <1>1, <1>2 DEF ExchangeInv, TypeOK, Lines
<1>4. LinesAreRead'
  BY DEF ExchangeInv, LinesAreRead
<1>5. Cardinality(LostJobs') =
         IF o \in Lost THEN Cardinality(LostJobs) + 1 ELSE Cardinality(LostJobs)
  BY <1>1, <1>2, LostCounts DEF ExchangeInv, TypeOK
<1>6. Clean /\ loop'.at = "select" => Clean'
  <2>1. loop'.at = "select" => reusable
    BY <1>1
  <2> QED BY <1>1, <2>1 DEF Clean, Has
<1>7. Paid'
  BY <1>1, <1>5, <1>6, Numbers DEF ExchangeInv, Paid
<1> QED BY <1>3, <1>4, <1>7 DEF ExchangeInv

LEMMA WriteKeeps == ASSUME ExchangeInv, WriteRequest PROVE ExchangeInv'
<1>1. loop.at = "write" /\ loop.job \in Jobs
  BY DEF WriteRequest, ExchangeInv, TypeOK
<1>2. CASE Has("stdin")
  <2>1. /\ requests' = Append(requests, loop.job) /\ loop' = [loop EXCEPT !.at = "read"]
        /\ UNCHANGED <<outcome, lines, child, started, misdeeds>>
    BY <1>2 DEF WriteRequest
  <2>2. loop'.at = "read" /\ loop'.job = loop.job
    BY <2>1 DEF ExchangeInv, TypeOK
  <2>3. TypeOK'
    <3>1. requests' \in Seq(Jobs)
      BY <1>1, <2>1 DEF ExchangeInv, TypeOK
    <3>2. loop' \in [at : {"select", "write", "read", "kill", "over"},
                    job : Jobs \cup {None}]
      BY <2>1 DEF ExchangeInv, TypeOK
    <3> QED BY <1>1, <2>1, <2>2, <3>1, <3>2 DEF ExchangeInv, TypeOK
  <2>4. LinesAreRead'
    BY <2>1 DEF ExchangeInv, LinesAreRead
  <2>5. Clean => Clean'
    BY <1>1, <2>1, <2>2 DEF Clean, Has, ExchangeInv, TypeOK
  <2>6. LostJobs' = LostJobs
    BY <2>1 DEF LostJobs
  <2>7. Paid'
    BY <1>1, <2>1, <2>2, <2>5, <2>6 DEF ExchangeInv, Paid
  <2> QED BY <2>3, <2>4, <2>7 DEF ExchangeInv
<1>3. CASE ~Has("stdin")
  <2>1. Ends("worker_io", FALSE) /\ UNCHANGED <<requests, lines, child, started, misdeeds>>
    BY <1>3 DEF WriteRequest
  <2>2. lines \in Seq(Lines) /\ "worker_io" \in Outcomes /\ ~Clean
    BY <1>3 DEF ExchangeInv, TypeOK, Lines, Outcomes, Clean, Has
  <2> QED BY <1>1, <2>1, <2>2, EndsKeeps DEF ExchangeInv, LinesAreRead
<1> QED BY <1>2, <1>3

LEMMA ReadKeeps == ASSUME ExchangeInv, ReadLine PROVE ExchangeInv'
<1>1. /\ loop.at = "read" /\ loop.job \in Jobs /\ lines \in Seq(Lines)
      /\ UNCHANGED <<requests, child, started, misdeeds>>
  BY DEF ReadLine, ExchangeInv, TypeOK, Lines
<1>2. CASE lines = <<>>
  <2>1. Ends("worker_exited", FALSE) /\ UNCHANGED lines /\ ~Has("stdout")
    BY <1>2 DEF ReadLine
  <2>2. "worker_exited" \in Outcomes /\ ~Clean
    BY <2>1 DEF Outcomes, Clean, Has
  <2> QED BY <1>1, <2>1, <2>2, EndsKeeps DEF ExchangeInv, LinesAreRead
<1>3. CASE lines # <<>>
  <2>1. PICK o : /\ o = OutcomeOf(Head(lines)) /\ Ends(o, o # "protocol")
                 /\ lines' = Tail(lines)
    BY <1>3 DEF ReadLine
  <2>2. o \in {"ok", "returned", "protocol"}
    BY <2>1, OutcomeTypes
  <2>3. /\ lines' \in Seq(Lines)
        /\ \A i \in 1 .. Len(lines') : lines'[i].id # None => lines'[i].id \in child.read
    <3>1. /\ Len(lines') = Len(lines) - 1 /\ lines' \in Seq(Lines)
          /\ \A i \in 1 .. Len(lines') : lines'[i] = lines[i + 1]
      BY <1>1, <1>3, <2>1
    <3>2. \A i \in 1 .. Len(lines) : lines[i].id # None => lines[i].id \in child.read
      BY DEF ExchangeInv, LinesAreRead
    <3>3. \A i \in 1 .. Len(lines') : i + 1 \in 1 .. Len(lines)
      BY <1>1, <3>1
    <3> QED BY <3>1, <3>2, <3>3
  <2>4. ASSUME Clean
        PROVE  o # "protocol" /\ requests = <<>> /\ lines' = <<>> /\ child.serves = None
    <3>1. PICK l \in Conforming(loop.job) : lines = <<l>>
      BY <1>1, <1>3, <2>4 DEF Clean, Has
    <3>2. requests = <<>> /\ child.serves = None
      BY <1>1, <1>3, <2>4 DEF Clean, Has
    <3>3. Head(lines) = l /\ Tail(lines) = <<>>
      BY <3>1
    <3>4. OutcomeOf(l) \in {"ok", "returned"}
      BY <1>1, <3>1, ConformingAnswers
    <3> QED BY <2>1, <3>2, <3>3, <3>4
  <2>5. o \in Outcomes /\ (o # "protocol") \in BOOLEAN /\ (Clean \/ o # "protocol" => o \notin Lost)
    BY <2>2, <2>4 DEF Outcomes, Lost
  <2> QED BY <1>1, <2>1, <2>3, <2>4, <2>5, EndsKeeps
<1> QED BY <1>2, <1>3

LEMMA TimesOutKeeps == ASSUME ExchangeInv, TimesOut PROVE ExchangeInv'
<1>1. /\ lines \in Seq(Lines) /\ "timeout" \in Outcomes /\ "timeout" \notin Lost
  BY DEF ExchangeInv, TypeOK, Lines, Outcomes, Lost
<1> QED BY <1>1, EndsKeeps DEF TimesOut, ExchangeInv, LinesAreRead

LEMMA LoopEndsKeeps == ASSUME ExchangeInv, NoticeExit \/ KillChild PROVE ExchangeInv'
<1>1. /\ loop.at \in {"select", "kill"} /\ loop.job = None
      /\ UNCHANGED <<outcome, requests, lines, started, misdeeds>>
  BY DEF NoticeExit, KillChild, ExchangeInv, TypeOK
<1>2. /\ loop' \in [at : {"select", "write", "read", "kill", "over"},
                    job : Jobs \cup {None}]
      /\ loop'.at = "over" /\ loop'.job = None
  BY <1>1 DEF NoticeExit, KillChild, ExchangeInv, TypeOK
<1>3. /\ child' \in Children
      /\ child'.serves = child.serves /\ child'.read = child.read
  BY DEF NoticeExit, KillChild, ExchangeInv, TypeOK, Children
<1>4. TypeOK'
  BY <1>1, <1>2, <1>3 DEF ExchangeInv, TypeOK
<1>5. LinesAreRead'
  BY <1>1, <1>3 DEF ExchangeInv, LinesAreRead
<1>6. Paid'
  BY <1>1, <1>2, AccountsKept DEF ExchangeInv
<1> QED BY <1>4, <1>5, <1>6 DEF ExchangeInv

LEMMA RespawnKeeps == ASSUME ExchangeInv, Respawn PROVE ExchangeInv'
<1>1. /\ loop' = [at |-> "select", job |-> None]
      /\ child' = [alive |-> TRUE, open |-> {"stdin", "stdout"}, serves |-> None,
                   read |-> {}]
      /\ requests' = <<>> /\ lines' = <<>> /\ started' \in 1 .. MaxProcesses
      /\ UNCHANGED <<outcome, misdeeds>>
  BY ExchangeAssumption
  DEF Respawn, NewLoop, NewChild, ExchangeInv, TypeOK, ExchangeAssumption
<1>2. TypeOK'
  BY <1>1, NoneIsNoJob DEF ExchangeInv, TypeOK, Children
<1>3. LinesAreRead'
  BY <1>1 DEF LinesAreRead
<1>4. Clean'
  BY <1>1 DEF Clean, Has
<1>5. Paid'
  BY <1>1, <1>4, AccountsKept DEF ExchangeInv
<1> QED BY <1>2, <1>3, <1>5 DEF ExchangeInv

LEMMA ChildReadsKeeps == ASSUME ExchangeInv, ChildReads PROVE ExchangeInv'
<1>1. PICK j \in Jobs :
        /\ j = Head(requests) /\ child.serves = None /\ requests # <<>>
        /\ child' = [child EXCEPT !.serves = j, !.read = @ \cup {j}]
        /\ requests' = Tail(requests) /\ requests' \in Seq(Jobs)
        /\ UNCHANGED <<loop, outcome, lines, started, misdeeds>>
  <2>1. requests # <<>> => Head(requests) \in Jobs /\ Tail(requests) \in Seq(Jobs)
    BY DEF ExchangeInv, TypeOK
  <2> QED BY <2>1, Zenon DEF ChildReads
<1>2. /\ child' \in Children
      /\ child'.serves = j /\ child'.read = child.read \cup {j}
      /\ child'.alive = child.alive /\ child'.open = child.open
  <2>1. child \in Children
    BY DEF ExchangeInv, TypeOK
  <2> QED BY <1>1, <2>1 DEF Children
<1>3. TypeOK'
  BY <1>1, <1>2 DEF ExchangeInv, TypeOK
<1>4. LinesAreRead'
  BY <1>1, <1>2 DEF ExchangeInv, LinesAreRead
<1>5. Clean /\ loop.at \in {"select", "write", "read"} => Clean'
  BY <1>1, <1>2 DEF Clean, Has
<1>6. Paid'
  BY <1>1, <1>5, AccountsKept DEF ExchangeInv
<1> QED BY <1>3, <1>4, <1>6 DEF ExchangeInv

\* What is written keeps its type, and names what has been read.
LEMMA SaysTypes ==
    ASSUME ExchangeInv, NEW l \in Lines, l.id # None => l.id \in child.read, Says(l),
           child'.read = child.read, child'.serves \in {child.serves, None}
    PROVE  lines' \in Seq(Lines) /\ LinesAreRead'
<1>1. lines \in Seq(Lines)
  BY DEF ExchangeInv, TypeOK, Lines
<1>2. /\ lines' \in Seq(Lines) /\ Len(lines') = Len(lines) + 1
      /\ \A i \in 1 .. Len(lines') :
            lines'[i] = IF i = Len(lines) + 1 THEN l ELSE lines[i]
  BY <1>1 DEF Says
<1>3. \A i \in 1 .. Len(lines') : i = Len(lines) + 1 \/ i \in 1 .. Len(lines)
  BY <1>1, <1>2
<1> QED BY <1>2, <1>3 DEF ExchangeInv, LinesAreRead

LEMMA ChildAnswersKeeps == ASSUME ExchangeInv, ChildAnswers PROVE ExchangeInv'
<1>1. PICK l \in Conforming(child.serves) : Says(l)
  BY DEF ChildAnswers
<1>2. /\ child.alive /\ child.serves \in Jobs /\ child.serves \in child.read
      /\ child' = [child EXCEPT !.serves = None]
      /\ UNCHANGED <<loop, outcome, requests, started, misdeeds>>
  BY DEF ChildAnswers, Says, Has, ExchangeInv, TypeOK, LinesAreRead, Children
<1>3. /\ child' \in Children
      /\ child'.serves = None /\ child'.read = child.read
      /\ child'.alive = child.alive /\ child'.open = child.open
  BY <1>2 DEF ExchangeInv, TypeOK, Children
<1>4. l \in Lines /\ l.id = child.serves
  BY <1>1, <1>2, ConformingAnswers
<1>5. lines' \in Seq(Lines) /\ LinesAreRead'
  BY <1>1, <1>2, <1>3, <1>4, SaysTypes
<1>6. TypeOK'
  BY <1>2, <1>3, <1>5 DEF ExchangeInv, TypeOK, Lines
<1>7. Clean /\ loop.at \in {"select", "write", "read"} => Clean'
  <2> SUFFICES ASSUME Clean, loop.at \in {"select", "write", "read"} PROVE Clean'
    OBVIOUS
  <2>1. /\ loop.at = "read" /\ requests = <<>> /\ lines = <<>>
        /\ child.serves = loop.job
    BY <1>2, NoneIsNoJob DEF Clean, Has
  <2>2. lines' = <<l>> /\ l \in Conforming(loop.job)
    BY <1>1, <2>1 DEF Says
  <2> QED BY <1>2, <1>3, <2>1, <2>2 DEF Clean, Has
<1>8. Paid'
  BY <1>2, <1>7, AccountsKept DEF ExchangeInv
<1> QED BY <1>5, <1>6, <1>8 DEF ExchangeInv

\* A misdeed pays for one job that is lost.
LEMMA MisdeedPays ==
    ASSUME ExchangeInv, Misdeed, UNCHANGED <<loop, outcome>>
    PROVE  Paid' /\ misdeeds' \in 0 .. MaxMisdeeds
<1>1. LostJobs' = LostJobs
  BY DEF LostJobs
<1>2. misdeeds' = misdeeds - 1 /\ misdeeds' \in 0 .. MaxMisdeeds
  BY Numbers DEF Misdeed, ExchangeInv, TypeOK
<1> QED BY <1>1, <1>2, Numbers DEF ExchangeInv, Paid

LEMMA MisdeedsKeep ==
    ASSUME ExchangeInv, ChildBabbles \/ ChildExits \/ ChildCloses
    PROVE  ExchangeInv'
<1>1. /\ Misdeed /\ UNCHANGED <<loop, outcome, requests, started>>
  BY DEF ChildBabbles, ChildExits, ChildCloses
<1>2. Paid' /\ misdeeds' \in 0 .. MaxMisdeeds
  BY <1>1, MisdeedPays
<1>3. CASE ChildBabbles
  <2>1. PICK l \in AnyLine(child.read \cup {None}) : Says(l) /\ UNCHANGED child
    BY <1>3 DEF ChildBabbles
  <2>2. child.read \cup {None} \in SUBSET (Jobs \cup {None})
    BY DEF ExchangeInv, TypeOK, Children
  <2>3. l \in Lines /\ l.id \in child.read \cup {None}
    BY <2>2, AnyLineTypes
  <2>4. lines' \in Seq(Lines) /\ LinesAreRead'
    BY <2>1, <2>3, SaysTypes
  <2>5. TypeOK'
    BY <1>1, <1>2, <2>1, <2>4 DEF ExchangeInv, TypeOK, Lines
  <2> QED BY <1>2, <2>4, <2>5 DEF ExchangeInv
<1>4. CASE ChildExits \/ ChildCloses
  <2>1. /\ UNCHANGED lines
        /\ \/ child' = [child EXCEPT !.alive = FALSE]
           \/ \E end \in {"stdin", "stdout"} : child' = [child EXCEPT !.open = @ \ {end}]
    BY <1>4 DEF ChildExits, ChildCloses
  <2>2. /\ child' \in Children
        /\ child'.serves = child.serves /\ child'.read = child.read
    <3>1. child \in Children
      BY DEF ExchangeInv, TypeOK
    <3>2. CASE child' = [child EXCEPT !.alive = FALSE]
      BY <3>1, <3>2 DEF Children
    <3>3. ASSUME NEW end, child' = [child EXCEPT !.open = child.open \ {end}]
          PROVE  /\ child' \in Children
                 /\ child'.serves = child.serves /\ child'.read = child.read
      <4>1. child.open \ {end} \in SUBSET {"stdin", "stdout"}
        BY <3>1 DEF Children
      <4> QED BY <3>1, <3>3, <4>1 DEF Children
    <3> QED BY <2>1, <3>2, <3>3
  <2>3. TypeOK'
    BY <1>1, <1>2, <2>1, <2>2 DEF ExchangeInv, TypeOK
  <2>4. LinesAreRead'
    BY <2>1, <2>2 DEF ExchangeInv, LinesAreRead
  <2> QED BY <1>2, <2>3, <2>4 DEF ExchangeInv
<1> QED BY <1>3, <1>4

LEMMA NextExchange == ExchangeInv /\ [Next]_vars => ExchangeInv'
<1> SUFFICES ASSUME ExchangeInv, [Next]_vars PROVE ExchangeInv'
  OBVIOUS
<1>1. CASE UNCHANGED vars
  BY <1>1 DEF vars, ExchangeInv, TypeOK, LinesAreRead, Paid, Clean, Has, LostJobs
<1> QED BY <1>1, TakeJobKeeps, WriteKeeps, ReadKeeps, TimesOutKeeps, LoopEndsKeeps,
           RespawnKeeps, ChildReadsKeeps, ChildAnswersKeeps, MisdeedsKeep DEF Next

\* The invariant of every exchange, with the types of the variables.
THEOREM ExchangeInvCorrect == Spec => []ExchangeInv
BY InitExchange, NextExchange, PTL DEF Spec

\* A worker that keeps the protocol goes back to work with nothing left over.
THEOREM ReusedClean == Spec => []ReusedIsClean
<1>1. ExchangeInv => ReusedIsClean
  <2> SUFFICES ASSUME ExchangeInv, loop.at = "select", misdeeds = MaxMisdeeds
               PROVE  requests = <<>> /\ lines = <<>> /\ child.serves = None
    BY DEF ReusedIsClean
  <2>1. Cardinality(LostJobs) = MaxMisdeeds - misdeeds
    BY Numbers DEF ExchangeInv, Paid
  <2>2. Clean
    BY <2>1 DEF ExchangeInv, Paid
  <2> QED BY <2>2 DEF Clean, Has
<1> QED BY <1>1, ExchangeInvCorrect, PTL

\* A misdeed costs its worker, and one job at most.
THEOREM MisdeedCostsOneJob == Spec => []OneJobPerMisdeed
<1>1. ExchangeInv => OneJobPerMisdeed
  BY DEF ExchangeInv, Paid, OneJobPerMisdeed, LostJobs, Lost
<1> QED BY <1>1, ExchangeInvCorrect, PTL

\* No caller is given a line that another request was answered with: the line
\* names the job, and the child has read the request.
THEOREM ResultsBelong == Spec => ResultsAreOfTheRequest
<1> DEFINE Belongs ==
      \A j \in Jobs :
          outcome'[j] # outcome[j] /\ outcome'[j] \in {"ok", "returned"}
            => j \in child.read /\ Head(lines).id = j
<1>1. ExchangeInv /\ [Next]_vars => [Belongs]_vars
  <2> SUFFICES ASSUME ExchangeInv, Next, NEW j \in Jobs, outcome'[j] # outcome[j],
                      outcome'[j] \in {"ok", "returned"}
               PROVE  j \in child.read /\ Head(lines).id = j
    OBVIOUS
  <2>1. outcome \in [Jobs -> Outcomes \cup {"none", "running"}]
    BY DEF ExchangeInv, TypeOK
  <2>2. CASE ReadLine
    <3>1. loop.job \in Jobs /\ lines \in Seq(Lines)
      BY <2>2 DEF ReadLine, ExchangeInv, TypeOK, Lines
    <3>2. PICK o : outcome' = [outcome EXCEPT ![loop.job] = o]
      BY <2>2, Zenon DEF ReadLine, Ends
    <3>3. j = loop.job /\ outcome'[j] = o
      BY <2>1, <3>1, <3>2
    <3>4. lines # <<>> /\ outcome'[j] = OutcomeOf(Head(lines))
      BY <2>1, <2>2, <3>1, <3>3 DEF ReadLine, Ends
    <3>5. Head(lines).id = j /\ Head(lines) = lines[1] /\ 1 \in 1 .. Len(lines)
      BY <3>1, <3>3, <3>4 DEF OutcomeOf
    <3> QED BY <3>1, <3>3, <3>5, NoneIsNoJob DEF ExchangeInv, LinesAreRead
  <2>3. CASE WriteRequest
    BY <2>1, <2>3 DEF WriteRequest, Ends
  <2>4. CASE TimesOut
    BY <2>1, <2>4 DEF TimesOut, Ends
  <2>5. ASSUME NEW i \in Jobs, TakeJob(i)
        PROVE  FALSE
    BY <2>1, <2>5 DEF TakeJob
  <2>6. CASE UNCHANGED outcome
    BY <2>6
  <2> QED BY <2>2, <2>3, <2>4, <2>5, <2>6
      DEF Next, NoticeExit, KillChild, Respawn, ChildReads, ChildAnswers, ChildBabbles,
          ChildExits, ChildCloses
<1> QED BY <1>1, ExchangeInvCorrect, PTL DEF Spec, ResultsAreOfTheRequest
=============================================================================

----------------------------- MODULE AgentProofs ------------------------------
(***************************************************************************)
(* Proofs about AgentSession, for any number of calls, requests, faults    *)
(* and restarts: its type invariant, that it implements AgentLife, that a  *)
(* session has one turn at a time and forgets no request, and that Claude  *)
(* works on nothing that no call was told it accepted.                     *)
(***************************************************************************)
EXTENDS AgentSession, FiniteSetTheorems, TLAPS

-------------------------------------------------------------------------------
StdinLines == [kind : {"initialize", "user", "interrupt", "answer"}, of : Nat]
StdoutLines == [kind : {"ready", "can_use_tool", "cancel", "result", "bad"}, of : Nat]

(***************************************************************************)
(* TypeOK is not inductive: the number in a line becomes a call or a       *)
(* request when the line is read, so it has to be one.                     *)
(***************************************************************************)
InfoOK ==
    info \in [state : Life!States, generation : 1 .. MaxGenerations,
              current_task : Calls \cup {None}, pending : SUBSET Requests]
TaskOK ==
    task \in [run : {"loop", "stopping", "failing", "over", "raised"},
              ready : BOOLEAN, stop_reply : Calls \cup {None},
              handle : {"registry", "handler", "none"}]
ControlOK == control \in Seq(Calls) /\ Len(control) <= ControlLimit
Call == [kind : Kinds \cup {"none"}, generation : 0 .. MaxGenerations,
         of : Requests \cup {None}, answer : Answers \cup {"unsent", "waiting"}]
CallsOK == calls \in [Calls -> Call]
StdinOK ==
    /\ stdin \in Seq(StdinLines)
    /\ \A i \in DOMAIN stdin : stdin[i].kind = "user" => stdin[i].of \in Calls
StdoutOK ==
    /\ stdout \in Seq(StdoutLines)
    /\ \A i \in DOMAIN stdout :
          stdout[i].kind = "can_use_tool" => stdout[i].of \in Requests
ClaudeOK ==
    claude \in [alive : BOOLEAN, turn : Calls \cup {None},
                generation : 1 .. MaxGenerations]
AskedOK == asked \in [Requests -> {"new", "open", "answered", "closed"}]
BudgetOK == budget \in 0 .. MaxFaults

TypeInv ==
    /\ InfoOK /\ TaskOK /\ ControlOK /\ CallsOK
    /\ StdinOK /\ StdoutOK /\ ClaudeOK /\ AskedOK /\ BudgetOK

\* The bounds are numbers, and so are calls and requests.
LEMMA Numbers ==
    /\ Calls \subseteq Nat /\ Requests \subseteq Nat /\ None \in Nat
    /\ MaxGenerations \in Nat \ {0} /\ ControlLimit \in Nat \ {0}
    /\ MaxFaults \in Nat
BY SessionAssumption DEF SessionAssumption, Calls, Requests, None

\* The strengthened invariant gives the one that the runs check.
LEMMA TypeInvTypes == TypeInv => TypeOK
BY DEF TypeInv, TypeOK, InfoOK, TaskOK, ControlOK, CallsOK, Call, StdinOK, StdoutOK,
       ClaudeOK, AskedOK, BudgetOK, StdinLines, StdoutLines

-----------------------------------------------------------------------------
\* What the parts of the actions do to the types.

\* A line appended to stdin keeps it well formed.
LEMMA StdinGrows ==
    ASSUME StdinOK, NEW k \in {"initialize", "user", "interrupt", "answer"},
           NEW n \in Nat, k = "user" => n \in Calls,
           stdin' = Append(stdin, Message(k, n))
    PROVE  StdinOK'
<1> DEFINE m == Message(k, n)
<1>1. m \in StdinLines /\ (m.kind = "user" => m.of \in Calls)
  BY DEF Message, StdinLines
<1>2. stdin \in Seq(StdinLines)
  BY DEF StdinOK
<1>3. /\ stdin' \in Seq(StdinLines)
      /\ DOMAIN stdin' = 1 .. (Len(stdin) + 1)
      /\ \A i \in 1 .. Len(stdin) : stdin'[i] = stdin[i]
      /\ stdin'[Len(stdin) + 1] = m
  <2> HIDE DEF m
  <2>1. stdin' = Append(stdin, m)
    BY DEF m
  <2> QED BY <1>1, <1>2, <2>1
<1>4. DOMAIN stdin = 1 .. Len(stdin)
  BY <1>2
<1>5. ASSUME NEW i \in DOMAIN stdin', stdin'[i].kind = "user"
      PROVE  stdin'[i].of \in Calls
  <2>1. CASE i \in 1 .. Len(stdin)
    BY <2>1, <1>3, <1>4, <1>5 DEF StdinOK
  <2>2. CASE i = Len(stdin) + 1
    BY <2>2, <1>1, <1>3, <1>5
  <2> QED BY <2>1, <2>2, <1>2, <1>3
<1> QED BY <1>3, <1>5 DEF StdinOK

\* The line read from stdin is well formed, and so are the others.
LEMMA StdinShrinks ==
    ASSUME StdinOK, stdin # <<>>, stdin' = Tail(stdin)
    PROVE  /\ StdinOK'
           /\ Head(stdin) \in StdinLines
           /\ Head(stdin).kind = "user" => Head(stdin).of \in Calls
<1>1. stdin \in Seq(StdinLines)
  BY DEF StdinOK
<1>2. /\ stdin' \in Seq(StdinLines)
      /\ \A i \in DOMAIN stdin' : i + 1 \in DOMAIN stdin /\ stdin'[i] = stdin[i + 1]
      /\ 1 \in DOMAIN stdin /\ Head(stdin) = stdin[1]
      /\ stdin[1] \in StdinLines
  BY <1>1
<1> QED BY <1>2 DEF StdinOK

\* A line appended to stdout keeps it well formed.
LEMMA StdoutGrows ==
    ASSUME StdoutOK, NEW k \in {"ready", "can_use_tool", "cancel", "result", "bad"},
           NEW n \in Nat, k = "can_use_tool" => n \in Requests,
           stdout' = Append(stdout, Message(k, n))
    PROVE  StdoutOK'
<1> DEFINE m == Message(k, n)
<1>1. m \in StdoutLines /\ (m.kind = "can_use_tool" => m.of \in Requests)
  BY DEF Message, StdoutLines
<1>2. stdout \in Seq(StdoutLines)
  BY DEF StdoutOK
<1>3. /\ stdout' \in Seq(StdoutLines)
      /\ DOMAIN stdout' = 1 .. (Len(stdout) + 1)
      /\ \A i \in 1 .. Len(stdout) : stdout'[i] = stdout[i]
      /\ stdout'[Len(stdout) + 1] = m
  <2> HIDE DEF m
  <2>1. stdout' = Append(stdout, m)
    BY DEF m
  <2> QED BY <1>1, <1>2, <2>1
<1>4. DOMAIN stdout = 1 .. Len(stdout)
  BY <1>2
<1>5. ASSUME NEW i \in DOMAIN stdout', stdout'[i].kind = "can_use_tool"
      PROVE  stdout'[i].of \in Requests
  <2>1. CASE i \in 1 .. Len(stdout)
    BY <2>1, <1>3, <1>4, <1>5 DEF StdoutOK
  <2>2. CASE i = Len(stdout) + 1
    BY <2>2, <1>1, <1>3, <1>5
  <2> QED BY <2>1, <2>2, <1>2, <1>3
<1> QED BY <1>3, <1>5 DEF StdoutOK

\* The line read from stdout is well formed, and so are the others.
LEMMA StdoutShrinks ==
    ASSUME StdoutOK, stdout # <<>>, stdout' = Tail(stdout)
    PROVE  /\ StdoutOK'
           /\ Head(stdout) \in StdoutLines
           /\ Head(stdout).kind = "can_use_tool" => Head(stdout).of \in Requests
<1>1. stdout \in Seq(StdoutLines)
  BY DEF StdoutOK
<1>2. /\ stdout' \in Seq(StdoutLines)
      /\ \A i \in DOMAIN stdout' : i + 1 \in DOMAIN stdout /\ stdout'[i] = stdout[i + 1]
      /\ 1 \in DOMAIN stdout /\ Head(stdout) = stdout[1]
      /\ stdout[1] \in StdoutLines
  BY <1>1
<1> QED BY <1>2 DEF StdoutOK

\* Empty pipes are well formed, and so is the one of a new process.
LEMMA EmptyPipes ==
    /\ stdin' = <<>> => StdinOK'
    /\ stdout' = <<>> => StdoutOK'
    /\ stdin' = <<Message("initialize", None)>> => StdinOK'
<1>1. Message("initialize", None) \in StdinLines
  BY Numbers DEF Message, StdinLines
<1>2. ASSUME stdin' = <<Message("initialize", None)>> PROVE StdinOK'
  <2> DEFINE m == Message("initialize", None)
  <2>1. m.kind = "initialize"
    BY DEF Message
  <2>2. m \in StdinLines
    BY <1>1
  <2> HIDE DEF m
  <2>3. stdin' = <<m>>
    BY <1>2 DEF m
  <2>4. stdin' \in Seq(StdinLines)
    BY <2>2, <2>3
  <2>5. \A i \in DOMAIN stdin' : stdin'[i].kind = "initialize"
    BY <2>1, <2>3
  <2> QED BY <2>4, <2>5 DEF StdinOK
<1>3. ASSUME stdin' = <<>> PROVE StdinOK'
  <2>1. stdin' \in Seq(StdinLines) /\ DOMAIN stdin' = {}
    BY <1>3
  <2> QED BY <2>1 DEF StdinOK
<1>4. ASSUME stdout' = <<>> PROVE StdoutOK'
  <2>1. stdout' \in Seq(StdoutLines) /\ DOMAIN stdout' = {}
    BY <1>4
  <2> QED BY <2>1 DEF StdoutOK
<1> QED BY <1>2, <1>3, <1>4

\* A fault, a request timeout or a dropped handler is charged to the bound.
LEMMA FaultTypes == ASSUME BudgetOK, Fault PROVE BudgetOK'
BY Numbers DEF BudgetOK, Fault

\* An answer is recorded with the call that waits for it.
LEMMA AnswerTypes ==
    ASSUME CallsOK, NEW c \in Calls, NEW a \in Answers, Answer(c, a)
    PROVE  CallsOK'
BY DEF CallsOK, Call, Answer, Answers

\* A write changes the pipe, or the task and the bound.
LEMMA WriteTypes ==
    ASSUME StdinOK, TaskOK, BudgetOK, NEW k \in {"initialize", "user", "interrupt", "answer"},
           NEW n \in Nat, k = "user" => n \in Calls,
           Write(Message(k, n))
    PROVE  /\ StdinOK' /\ TaskOK' /\ BudgetOK'
           /\ task' = task \/ task' = [task EXCEPT !.run = "failing"]
<1>1. CASE stdin' = Append(stdin, Message(k, n)) /\ UNCHANGED <<task, budget>>
  BY <1>1, StdinGrows DEF TaskOK, BudgetOK
<1>2. CASE /\ IF claude.alive THEN Fault ELSE UNCHANGED budget
           /\ Leave("failing")
           /\ UNCHANGED stdin
  BY <1>2, FaultTypes DEF TaskOK, BudgetOK, Leave, StdinOK
<1> QED BY <1>1, <1>2 DEF Write

\* The head of the control channel is a call.
LEMMA CommandTypes ==
    ASSUME ControlOK, CallsOK, control # <<>>, control' = Tail(control)
    PROVE  /\ ControlOK' /\ Head(control) \in Calls
           /\ calls[Head(control)] \in Call
<1>1. /\ control' \in Seq(Calls) /\ Len(control') = Len(control) - 1
      /\ Head(control) \in Calls
      /\ Len(control) \in Nat
  BY DEF ControlOK
<1> QED BY <1>1, Numbers DEF ControlOK, CallsOK

-----------------------------------------------------------------------------
\* The steps, actor by actor.

LEMMA InitTypes == Init => TypeInv
<1> SUFFICES ASSUME Init PROVE TypeInv
  OBVIOUS
<1>1. StdinOK
  <2> DEFINE m == Message("initialize", None)
  <2>1. m \in StdinLines /\ m.kind = "initialize"
    BY Numbers DEF Message, StdinLines
  <2> HIDE DEF m
  <2>2. stdin = <<m>>
    BY DEF Init, m
  <2>3. stdin \in Seq(StdinLines) /\ \A i \in DOMAIN stdin : stdin[i].kind = "initialize"
    BY <2>1, <2>2
  <2> QED BY <2>3 DEF StdinOK
<1>2. StdoutOK /\ ControlOK
  BY Numbers DEF Init, StdoutOK, ControlOK
<1>3. InfoOK /\ TaskOK /\ ClaudeOK
  BY Numbers DEF Init, InfoOK, TaskOK, ClaudeOK, NewTask, NewClaude, Life!States
<1>4. CallsOK /\ AskedOK /\ BudgetOK
  BY Numbers DEF Init, CallsOK, AskedOK, BudgetOK, Call, Kinds, Answers
<1> QED BY <1>1, <1>2, <1>3, <1>4 DEF TypeInv

LEMMA UserTypes ==
    ASSUME TypeInv, NEW c \in Calls, Request(c) \/ RequestTimeout(c)
    PROVE  TypeInv'
<1> USE DEF TypeInv
<1>1. CASE Request(c)
  <2>1. PICK a \in Actions, g \in 1 .. info.generation, accepted \in BOOLEAN :
          /\ accepted => Len(control) < ControlLimit
          /\ calls' = [calls EXCEPT ![c] =
                         [kind |-> a.kind, of |-> a.of, generation |-> g,
                          answer |-> IF accepted THEN "waiting" ELSE "gone"]]
          /\ control' = IF accepted THEN Append(control, c) ELSE control
    <3>1. PICK a \in Actions, g \in 1 .. info.generation :
            LET accepted == /\ task.run \notin {"over", "raised"}
                            /\ task.handle = "registry"
                            /\ Len(control) < ControlLimit
            IN  /\ calls' = [calls EXCEPT ![c] =
                                [kind |-> a.kind, of |-> a.of, generation |-> g,
                                 answer |-> IF accepted THEN "waiting" ELSE "gone"]]
                /\ control' = IF accepted THEN Append(control, c) ELSE control
      BY <1>1 DEF Request
    <3> DEFINE accepted == /\ task.run \notin {"over", "raised"}
                           /\ task.handle = "registry"
                           /\ Len(control) < ControlLimit
    <3>2. accepted \in BOOLEAN /\ (accepted => Len(control) < ControlLimit)
      OBVIOUS
    <3> HIDE DEF accepted
    <3>3. /\ calls' = [calls EXCEPT ![c] =
                         [kind |-> a.kind, of |-> a.of, generation |-> g,
                          answer |-> IF accepted THEN "waiting" ELSE "gone"]]
          /\ control' = IF accepted THEN Append(control, c) ELSE control
      BY <3>1 DEF accepted
    <3> QED BY <3>2, <3>3
  <2>2. ControlOK'
    BY <2>1, Numbers DEF ControlOK
  <2>3. a.kind \in Kinds /\ a.of \in Requests \cup {None}
    BY DEF Actions, Message, Kinds
  <2>4. g \in 0 .. MaxGenerations
    BY Numbers DEF InfoOK
  <2>5. CallsOK'
    <3> DEFINE r == [kind |-> a.kind, of |-> a.of, generation |-> g,
                     answer |-> IF accepted THEN "waiting" ELSE "gone"]
    <3>1. r \in Call
      BY <2>3, <2>4 DEF Call, Answers
    <3> HIDE DEF r
    <3>2. calls' = [calls EXCEPT ![c] = r]
      BY <2>1 DEF r
    <3> QED BY <3>1, <3>2 DEF CallsOK
  <2> QED BY <1>1, <2>2, <2>5 DEF Request, InfoOK, TaskOK, StdinOK, StdoutOK, ClaudeOK,
                                  AskedOK, BudgetOK
<1>2. CASE RequestTimeout(c)
  <2>1. CallsOK'
    BY <1>2, AnswerTypes DEF RequestTimeout, Answers
  <2>2. BudgetOK'
    BY <1>2, FaultTypes DEF RequestTimeout
  <2> QED BY <1>2, <2>1, <2>2 DEF RequestTimeout, InfoOK, TaskOK, ControlOK, StdinOK,
                                  StdoutOK, ClaudeOK, AskedOK
<1> QED BY <1>1, <1>2

\* The loop ends, or takes a call that changes nothing but its own answer.
LEMMA LeavingTypes ==
    ASSUME TypeInv, NoticeExit \/ HandshakeTimeout \/ Unreachable \/ Stale \/ Stop
    PROVE  TypeInv'
<1> USE DEF TypeInv
<1>1. CASE NoticeExit \/ Unreachable
  <2>1. TaskOK'
    BY <1>1 DEF NoticeExit, Unreachable, Leave, TaskOK
  <2> QED BY <1>1, <2>1 DEF NoticeExit, Unreachable, InfoOK, ControlOK, CallsOK, StdinOK,
                            StdoutOK, ClaudeOK, AskedOK, BudgetOK
<1>2. CASE HandshakeTimeout
  <2>1. BudgetOK'
    BY <1>2, FaultTypes DEF HandshakeTimeout
  <2> QED BY <1>2, <2>1 DEF HandshakeTimeout, Leave, InfoOK, TaskOK, ControlOK, CallsOK,
                            StdinOK, StdoutOK, ClaudeOK, AskedOK
<1>3. CASE Stale
  <2>1. ControlOK' /\ CallsOK'
    BY <1>3, CommandTypes, AnswerTypes DEF Stale, Refuse, Answers
  <2> QED BY <1>3, <2>1 DEF Stale, Refuse, InfoOK, TaskOK, StdinOK, StdoutOK, ClaudeOK,
                            AskedOK, BudgetOK
<1>4. CASE Stop
  <2>1. ControlOK' /\ Head(control) \in Calls
    BY <1>4, CommandTypes DEF Stop, Command
  <2> QED BY <1>4, <2>1 DEF Stop, InfoOK, TaskOK, CallsOK, StdinOK, StdoutOK, ClaudeOK,
                            AskedOK, BudgetOK
<1> QED BY <1>1, <1>2, <1>3, <1>4

\* A call is refused, or answered after a write.
LEMMA ReplyTypes ==
    ASSUME TypeInv, control # <<>>, control' = Tail(control),
           NEW k \in {"initialize", "user", "interrupt", "answer"},
           NEW n \in Nat, k = "user" => n \in Calls,
           \/ Refuse
           \/ InfoOK' /\ WriteAndReply(Message(k, n))
    PROVE  TypeInv'
<1> USE DEF TypeInv
<1>1. ControlOK' /\ Head(control) \in Calls
  BY CommandTypes
<1>2. CASE Refuse
  <2>1. CallsOK'
    BY <1>1, <1>2, AnswerTypes DEF Refuse, Answers
  <2> QED BY <1>1, <1>2, <2>1 DEF Refuse, InfoOK, TaskOK, StdinOK, StdoutOK, ClaudeOK,
                                  AskedOK, BudgetOK
<1>3. CASE InfoOK' /\ WriteAndReply(Message(k, n))
  <2>1. StdinOK' /\ TaskOK' /\ BudgetOK'
    BY <1>3, WriteTypes DEF WriteAndReply
  <2>2. PICK a \in Answers : Answer(Head(control), a)
    BY <1>3 DEF WriteAndReply, Answers
  <2>3. CallsOK'
    BY <1>1, <2>2, AnswerTypes
  <2> QED BY <1>1, <1>3, <2>1, <2>3 DEF WriteAndReply, StdoutOK, ClaudeOK, AskedOK
<1> QED BY <1>2, <1>3

LEMMA CommandStepTypes ==
    ASSUME TypeInv, Send \/ Interrupt \/ Permission
    PROVE  TypeInv'
<1>1. ASSUME NEW kind, Command(kind)
      PROVE  /\ control # <<>> /\ control' = Tail(control)
             /\ Head(control) \in Calls /\ Head(control) \in Nat
             /\ calls[Head(control)] \in Call
  BY <1>1, CommandTypes, Numbers DEF TypeInv, Command
<1>2. CASE Send
  <2>1. Command("send")
    BY <1>2 DEF Send
  <2>2. CASE Refuse
    BY <1>1, <2>1, <2>2, ReplyTypes, Numbers
  <2>3. CASE /\ info' = [info EXCEPT !.state = "busy", !.current_task = Head(control)]
             /\ WriteAndReply(Message("user", Head(control)))
    <3>1. InfoOK'
      BY <1>1, <2>1, <2>3 DEF TypeInv, InfoOK, Life!States
    <3> QED BY <1>1, <2>1, <2>3, <3>1, ReplyTypes
  <2> QED BY <1>2, <2>2, <2>3 DEF Send
<1>3. CASE Interrupt
  <2>1. Command("interrupt")
    BY <1>3 DEF Interrupt
  <2>2. CASE Refuse
    BY <1>1, <2>1, <2>2, ReplyTypes, Numbers
  <2>3. CASE /\ info' = [info EXCEPT !.state = "interrupting", !.pending = {}]
             /\ WriteAndReply(Message("interrupt", info.current_task))
    <3>1. InfoOK' /\ info.current_task \in Nat
      BY <2>3, Numbers DEF TypeInv, InfoOK, Life!States
    <3> QED BY <1>1, <2>1, <2>3, <3>1, ReplyTypes
  <2> QED BY <1>3, <2>2, <2>3 DEF Interrupt
<1>4. CASE Permission
  <2> DEFINE q == calls[Head(control)].of
             left == info.pending \ {q}
  <2>1. Command("permission")
    BY <1>4 DEF Permission
  <2>2. CASE Refuse
    BY <1>1, <2>1, <2>2, ReplyTypes, Numbers
  <2>3. CASE /\ info' = [info EXCEPT !.pending = left,
                                     !.state = IF left = {} THEN "busy" ELSE @]
             /\ WriteAndReply(Message("answer", q))
    <3>1. q \in Nat
      BY <1>1, <2>1, Numbers DEF Call
    <3>2. left \in SUBSET Requests
      BY DEF TypeInv, InfoOK
    <3> HIDE DEF q, left
    <3>3. InfoOK'
      BY <2>3, <3>2 DEF TypeInv, InfoOK, Life!States
    <3> QED BY <1>1, <2>1, <2>3, <3>1, <3>3, ReplyTypes
  <2> QED BY <1>4, <2>2, <2>3 DEF Permission
<1> QED BY <1>2, <1>3, <1>4

LEMMA OutputStepTypes ==
    ASSUME TypeInv, Ready \/ CanUseTool \/ CancelRequest \/ Result \/ BadLine
    PROVE  TypeInv'
<1>1. ASSUME NEW kind, Output(kind)
      PROVE  /\ StdoutOK' /\ ControlOK' /\ CallsOK' /\ ClaudeOK' /\ AskedOK'
             /\ Head(stdout).of \in Nat
             /\ kind = "can_use_tool" => Head(stdout).of \in Requests
  <2>1. StdoutOK' /\ Head(stdout) \in StdoutLines
        /\ (Head(stdout).kind = "can_use_tool" => Head(stdout).of \in Requests)
    BY <1>1, StdoutShrinks DEF TypeInv, Output
  <2> QED BY <1>1, <2>1 DEF TypeInv, Output, ControlOK, CallsOK, ClaudeOK, AskedOK,
                            StdoutLines
<1>2. CASE Ready
  BY <1>1, <1>2 DEF Ready, TypeInv, InfoOK, TaskOK, StdinOK, BudgetOK, Life!States
<1>3. CASE CanUseTool
  <2> DEFINE q == Head(stdout).of
  <2>1. q \in Requests /\ q \in Nat /\ Output("can_use_tool")
    BY <1>1, <1>3 DEF CanUseTool
  <2>2. CASE /\ info' = [info EXCEPT !.pending = @ \cup {q},
                                     !.state = "awaiting_permission"]
             /\ UNCHANGED <<task, stdin, budget>>
    <3> HIDE DEF q
    <3> QED BY <1>1, <2>1, <2>2 DEF TypeInv, InfoOK, TaskOK, StdinOK, BudgetOK, Life!States
  <2>3. CASE Write(Message("answer", q)) /\ UNCHANGED info
    <3>1. StdinOK' /\ TaskOK' /\ BudgetOK'
      BY <2>1, <2>3, WriteTypes DEF TypeInv
    <3> QED BY <1>1, <2>1, <2>3, <3>1 DEF TypeInv, InfoOK
  <2> QED BY <1>3, <2>2, <2>3 DEF CanUseTool
<1>4. CASE CancelRequest
  BY <1>1, <1>4 DEF CancelRequest, TypeInv, InfoOK, TaskOK, StdinOK, BudgetOK, Life!States
<1>5. CASE Result
  BY <1>1, <1>5 DEF Result, TypeInv, InfoOK, TaskOK, StdinOK, BudgetOK, Life!States
<1>6. CASE BadLine
  BY <1>1, <1>6 DEF BadLine, Leave, TypeInv, InfoOK, TaskOK, StdinOK, BudgetOK
<1> QED BY <1>2, <1>3, <1>4, <1>5, <1>6

LEMMA EndTypes ==
    ASSUME TypeInv, Finish \/ Lifecycle
    PROVE  TypeInv'
<1> USE DEF TypeInv
<1>1. CASE Finish
  <2>1. StdinOK' /\ StdoutOK'
    BY <1>1, EmptyPipes DEF Finish
  <2>2. ControlOK'
    BY <1>1, Numbers DEF Finish, ControlOK
  <2>3. CallsOK'
    <3>1. ASSUME NEW c \in Calls
          PROVE  \/ calls'[c] = calls[c]
                 \/ \E a \in Answers : calls'[c] = [calls[c] EXCEPT !.answer = a]
      BY <1>1 DEF Finish, Answers
    <3>2. ASSUME NEW c \in Calls PROVE calls'[c] \in Call
      BY <3>1 DEF CallsOK, Call
    <3>3. \E f : calls' = [c \in Calls |-> f[c]]
      <4> DEFINE f == [c \in Calls |->
                        IF calls[c].answer # "waiting" THEN calls[c]
                        ELSE IF c = task.stop_reply
                               THEN [calls[c] EXCEPT !.answer = "ok"]
                        ELSE IF c \in Range(control)
                               THEN [calls[c] EXCEPT !.answer = "gone"]
                        ELSE calls[c]]
      <4>1. calls' = f
        BY <1>1 DEF Finish
      <4>2. f = [c \in Calls |-> f[c]]
        OBVIOUS
      <4> HIDE DEF f
      <4> QED BY <4>1, <4>2
    <3> QED BY <3>2, <3>3 DEF CallsOK
  <2>4. InfoOK' /\ TaskOK' /\ ClaudeOK'
    BY <1>1 DEF Finish, InfoOK, TaskOK, ClaudeOK, Life!States
  <2> QED BY <1>1, <2>1, <2>2, <2>3, <2>4 DEF Finish, AskedOK, BudgetOK
<1>2. CASE Release
  BY <1>2 DEF Release, Life!States, InfoOK, TaskOK, ControlOK, CallsOK, StdinOK, StdoutOK,
              ClaudeOK, AskedOK, BudgetOK
<1>3. CASE Raise
  <2>1. info.generation + 1 \in 1 .. MaxGenerations
    BY <1>3, Numbers DEF Raise, InfoOK
  <2> QED BY <1>3, <2>1 DEF Raise, InfoOK, TaskOK, ControlOK, CallsOK, StdinOK, StdoutOK,
                            ClaudeOK, AskedOK, BudgetOK
<1>4. CASE Spawn
  <2>1. AskedOK'
    BY <1>4 DEF Spawn, CloseAll, AskedOK
  <2>2. ControlOK' /\ CallsOK' /\ StdoutOK'
    BY <1>4 DEF Spawn, ControlOK, CallsOK, StdoutOK
  <2>3. CASE stdin' = <<Message("initialize", None)>>
             /\ info' = [info EXCEPT !.state = "starting", !.current_task = None]
             /\ task' = NewTask /\ claude' = NewClaude(info.generation)
             /\ UNCHANGED budget
    BY <2>1, <2>2, <2>3, EmptyPipes, Numbers
       DEF InfoOK, TaskOK, ClaudeOK, BudgetOK, NewTask, NewClaude, Life!States
  <2>4. CASE Fault /\ UNCHANGED <<stdin, claude>>
             /\ info' = [info EXCEPT !.state = "failed"]
             /\ task' = [task EXCEPT !.run = "over"]
    <3>1. BudgetOK'
      BY <2>4, FaultTypes
    <3> QED BY <2>1, <2>2, <2>4, <3>1 DEF InfoOK, TaskOK, ClaudeOK, StdinOK, Life!States
  <2> QED BY <1>4, <2>3, <2>4 DEF Spawn
<1>5. CASE Insert
  BY <1>5 DEF Insert, InfoOK, TaskOK, ControlOK, CallsOK, StdinOK, StdoutOK, ClaudeOK,
              AskedOK, BudgetOK
<1>6. CASE DropHandler
  <2>1. BudgetOK'
    BY <1>6, FaultTypes DEF DropHandler
  <2>2. TaskOK'
    <3> DEFINE r == IF task.run = "raised" THEN "over" ELSE task.run
    <3>1. task' = [[task EXCEPT !.run = r] EXCEPT !.handle = "none"]
      BY <1>6 DEF DropHandler, TaskOK
    <3>2. r \in {"loop", "stopping", "failing", "over", "raised"}
      BY DEF TaskOK
    <3> QED BY <3>1, <3>2 DEF TaskOK
  <2> QED BY <1>6, <2>1, <2>2 DEF DropHandler, InfoOK, ControlOK, CallsOK, StdinOK,
                                  StdoutOK, ClaudeOK, AskedOK
<1> QED BY <1>1, <1>2, <1>3, <1>4, <1>5, <1>6 DEF Lifecycle

LEMMA ClaudeTypes ==
    ASSUME TypeInv, ClaudeStep \/ ClaudeActs
    PROVE  TypeInv'
<1> USE DEF TypeInv
<1>1. ASSUME NEW kind, ClaudeReads(kind)
      PROVE  /\ StdinOK' /\ InfoOK' /\ TaskOK' /\ ControlOK' /\ CallsOK' /\ BudgetOK'
             /\ kind = "user" => Head(stdin).of \in Calls
  <2>1. StdinOK' /\ (Head(stdin).kind = "user" => Head(stdin).of \in Calls)
    BY <1>1, StdinShrinks DEF ClaudeReads
  <2> QED BY <1>1, <2>1 DEF ClaudeReads, InfoOK, TaskOK, ControlOK, CallsOK, BudgetOK
<1>2. ASSUME NEW k \in {"ready", "can_use_tool", "cancel", "result", "bad"}, NEW n \in Nat,
             k = "can_use_tool" => n \in Requests, Says(Message(k, n))
      PROVE  StdoutOK'
  BY <1>2, StdoutGrows DEF Says
<1>3. claude.turn \in Nat
  BY Numbers DEF ClaudeOK
<1>4. CASE ReadInitialize
  BY <1>1, <1>2, <1>4, Numbers DEF ReadInitialize, ClaudeOK, AskedOK
<1>5. CASE ReadPrompt
  BY <1>1, <1>5 DEF ReadPrompt, ClaudeOK, AskedOK, StdoutOK
<1>6. CASE ReadInterrupt
  <2>1. StdoutOK'
    BY <1>2, <1>3, <1>6 DEF ReadInterrupt, StdoutOK
  <2>2. AskedOK' /\ ClaudeOK'
    BY <1>6 DEF ReadInterrupt, CloseAll, AskedOK, ClaudeOK
  <2> QED BY <1>1, <1>6, <2>1, <2>2 DEF ReadInterrupt
<1>7. CASE ReadAnswer
  BY <1>1, <1>7 DEF ReadAnswer, ClaudeOK, AskedOK, StdoutOK
<1>8. CASE EndsTurn
  <2>1. StdoutOK'
    BY <1>2, <1>3, <1>8 DEF EndsTurn
  <2> QED BY <1>8, <2>1 DEF EndsTurn, InfoOK, TaskOK, ControlOK, CallsOK, StdinOK,
                            ClaudeOK, AskedOK, BudgetOK
<1>9. ASSUME NEW q \in Requests, Asks(q) \/ Withdraws(q) PROVE TypeInv'
  <2>1. StdoutOK'
    BY <1>2, <1>9, Numbers DEF Asks, Withdraws
  <2>2. AskedOK'
    BY <1>9 DEF Asks, Withdraws, AskedOK
  <2> QED BY <1>9, <2>1, <2>2 DEF Asks, Withdraws, InfoOK, TaskOK, ControlOK, CallsOK,
                                  StdinOK, ClaudeOK, BudgetOK
<1>10. CASE Exits
  BY <1>10, FaultTypes DEF Exits, InfoOK, TaskOK, ControlOK, CallsOK, StdinOK, StdoutOK,
                           ClaudeOK, AskedOK
<1>11. CASE WritesBadLine
  <2>1. StdoutOK' /\ BudgetOK'
    BY <1>2, <1>11, FaultTypes, Numbers DEF WritesBadLine
  <2> QED BY <1>11, <2>1 DEF WritesBadLine, InfoOK, TaskOK, ControlOK, CallsOK, StdinOK,
                             ClaudeOK, AskedOK
<1> QED BY <1>4, <1>5, <1>6, <1>7, <1>8, <1>9, <1>10, <1>11 DEF ClaudeStep, ClaudeActs

LEMMA StutterTypes == ASSUME TypeInv, UNCHANGED vars PROVE TypeInv'
BY DEF TypeInv, vars, InfoOK, TaskOK, ControlOK, CallsOK, StdinOK, StdoutOK, ClaudeOK, AskedOK, BudgetOK

LEMMA NextTypes == TypeInv /\ [Next]_vars => TypeInv'
<1> SUFFICES ASSUME TypeInv, [Next]_vars PROVE TypeInv'
  OBVIOUS
<1>1. CASE \E c \in Calls : Request(c) \/ RequestTimeout(c)
  BY <1>1, UserTypes
<1>2. CASE TaskStep \/ Lifecycle
  BY <1>2, LeavingTypes, CommandStepTypes, OutputStepTypes, EndTypes DEF TaskStep
<1>3. CASE ClaudeStep \/ ClaudeActs
  BY <1>3, ClaudeTypes
<1>4. CASE Quiescent \/ UNCHANGED vars
  BY <1>4, StutterTypes DEF Quiescent
<1> QED BY <1>1, <1>2, <1>3, <1>4 DEF Next

\* The variables of AgentSession have their types, and the control channel its
\* capacity, in every reachable state (request and run_agent of agents.rs).
THEOREM AgentTypes == Spec => []TypeOK
<1>1. Spec => []TypeInv
  BY InitTypes, NextTypes, PTL DEF Spec
<1> QED BY <1>1, TypeInvTypes, PTL

-----------------------------------------------------------------------------
(***************************************************************************)
(* The handshake: until it is answered the agent is starting, Claude has   *)
(* nothing to do and nothing else is in the pipes; afterwards no answer to *)
(* it comes any more.                                                      *)
(***************************************************************************)
AllBad(p) == \A i \in DOMAIN p : p[i].kind = "bad"
OneReady(p) == \E k \in DOMAIN p : /\ p[k].kind = "ready"
                                   /\ \A i \in DOMAIN p \ {k} : p[i].kind = "bad"
No(p, kind) == \A i \in DOMAIN p : p[i].kind # kind

Unready ==
    /\ info.state = "starting"
    /\ claude.turn = None
    /\ \A q \in Requests : asked[q] # "open"
    /\ \/ stdin = <<Message("initialize", None)>> /\ AllBad(stdout)
       \/ stdin = <<>> /\ OneReady(stdout)

Greeted == No(stdin, "initialize") /\ No(stdout, "ready")

Handshake ==
    /\ Looping => Unready \/ Greeted
    /\ task.run \in {"over", "raised"} => stdout = <<>> /\ ~claude.alive

\* What is appended to a pipe ...
LEMMA PipeGrows ==
    ASSUME NEW S, NEW p \in Seq(S), NEW m \in S
    PROVE  /\ AllBad(p) /\ m.kind = "bad" => AllBad(Append(p, m))
           /\ AllBad(p) /\ m.kind = "ready" => OneReady(Append(p, m))
           /\ OneReady(p) /\ m.kind = "bad" => OneReady(Append(p, m))
           /\ \A kind : No(p, kind) /\ m.kind # kind => No(Append(p, m), kind)
<1> DEFINE q == Append(p, m)
<1>1. /\ DOMAIN q = DOMAIN p \cup {Len(p) + 1}
      /\ \A i \in DOMAIN p : q[i] = p[i] /\ i # Len(p) + 1
      /\ q[Len(p) + 1] = m
  OBVIOUS
<1> HIDE DEF q
<1>2. /\ AllBad(p) /\ m.kind = "bad" => AllBad(q)
      /\ AllBad(p) /\ m.kind = "ready" => OneReady(q)
      /\ OneReady(p) /\ m.kind = "bad" => OneReady(q)
      /\ \A kind : No(p, kind) /\ m.kind # kind => No(q, kind)
  BY <1>1 DEF AllBad, OneReady, No
<1> QED BY <1>2 DEF q

\* ... and what is read from its head.
LEMMA PipeShrinks ==
    ASSUME NEW S, NEW p \in Seq(S), p # <<>>
    PROVE  /\ AllBad(p) => AllBad(Tail(p)) /\ Head(p).kind = "bad"
           /\ OneReady(p) => /\ Head(p).kind \in {"ready", "bad"}
                             /\ Head(p).kind = "ready" => AllBad(Tail(p))
           /\ \A kind : No(p, kind) => No(Tail(p), kind) /\ Head(p).kind # kind
<1> DEFINE q == Tail(p)
<1>1. /\ \A i \in DOMAIN q : i + 1 \in DOMAIN p /\ q[i] = p[i + 1] /\ i + 1 # 1
      /\ 1 \in DOMAIN p /\ Head(p) = p[1]
  OBVIOUS
<1> HIDE DEF q
<1>2. /\ AllBad(p) => AllBad(q) /\ p[1].kind = "bad"
      /\ \A kind : No(p, kind) => No(q, kind) /\ p[1].kind # kind
  BY <1>1 DEF AllBad, No
<1>3. ASSUME OneReady(p)
      PROVE  /\ p[1].kind \in {"ready", "bad"}
             /\ p[1].kind = "ready" => AllBad(q)
  <2>1. PICK k \in DOMAIN p : /\ p[k].kind = "ready"
                              /\ \A i \in DOMAIN p \ {k} : p[i].kind = "bad"
    BY <1>3 DEF OneReady
  <2>2. p[1].kind \in {"ready", "bad"}
    BY <1>1, <2>1
  <2>3. ASSUME p[1].kind = "ready" PROVE k = 1
    BY <1>1, <2>1, <2>3
  <2>4. ASSUME p[1].kind = "ready" PROVE AllBad(q)
    BY <1>1, <2>1, <2>3, <2>4 DEF AllBad
  <2> QED BY <2>2, <2>4
<1> QED BY <1>1, <1>2, <1>3 DEF q

\* The pipe of a new process.
LEMMA NewPipes ==
    /\ No(<<>>, "initialize") /\ No(<<>>, "ready") /\ AllBad(<<>>)
    /\ Head(<<Message("initialize", None)>>).kind = "initialize"
    /\ Tail(<<Message("initialize", None)>>) = <<>>
<1>1. DOMAIN <<>> = {}
  OBVIOUS
<1>2. \A m : Head(<<m>>) = m /\ Tail(<<m>>) = <<>>
  OBVIOUS
<1>3. Message("initialize", None).kind = "initialize"
  BY DEF Message
<1>4. No(<<>>, "initialize") /\ No(<<>>, "ready") /\ AllBad(<<>>)
  BY <1>1 DEF No, AllBad
<1> QED BY <1>2, <1>3, <1>4

\* AllBad excludes an answer to the handshake.
LEMMA BadIsNotReady == \A p : AllBad(p) => No(p, "ready")
BY DEF AllBad, No

LEMMA InitHandshake == Init => Handshake
BY NewPipes DEF Init, Handshake, Unready, Looping, NewTask, NewClaude

LEMMA HandshakeStutters ==
    ASSUME Handshake, UNCHANGED <<info, stdin, stdout, claude, asked>>,
           task'.run = task.run
    PROVE  Handshake'
BY DEF Handshake, Looping, Unready, Greeted, AllBad, OneReady, No

\* A task that has left its loop has no handshake to make any more.
LEMMA HandshakeLeft ==
    ASSUME task'.run \in {"stopping", "failing"}
    PROVE  Handshake'
BY DEF Handshake, Looping

\* After the handshake a line is written, or the loop is left.
LEMMA HandshakeWrite ==
    ASSUME TypeInv, Looping, Greeted, NEW k \in {"user", "interrupt", "answer"}, NEW n \in Nat,
           Write(Message(k, n)), stdout' = stdout \/ (stdout' = Tail(stdout) /\ stdout # <<>>),
           UNCHANGED claude
    PROVE  Handshake'
<1>1. CASE stdin' = Append(stdin, Message(k, n)) /\ UNCHANGED <<task, budget>>
  <2>1. Message(k, n) \in StdinLines /\ Message(k, n).kind # "initialize"
    BY DEF Message, StdinLines
  <2>2. No(stdin', "initialize")
    BY <1>1, <2>1, PipeGrows DEF TypeInv, StdinOK, Greeted
  <2>3. No(stdout', "ready")
    BY PipeShrinks DEF TypeInv, StdoutOK, Greeted
  <2> QED BY <1>1, <2>2, <2>3 DEF Handshake, Greeted, Looping
<1>2. CASE Leave("failing")
  BY <1>2, HandshakeLeft DEF Leave, TypeInv, TaskOK
<1> QED BY <1>1, <1>2 DEF Write

LEMMA HandshakeReply ==
    ASSUME TypeInv, Looping, Greeted, NEW k \in {"user", "interrupt", "answer"}, NEW n \in Nat,
           WriteAndReply(Message(k, n))
    PROVE  Handshake'
<1>1. Write(Message(k, n)) /\ stdout' = stdout /\ claude' = claude
  BY DEF WriteAndReply
<1> QED BY <1>1, HandshakeWrite

LEMMA HandshakeTask ==
    ASSUME TypeInv, Handshake, AwaitingMeansPending, TaskStep
    PROVE  Handshake'
<1>1. CASE NoticeExit \/ HandshakeTimeout \/ Unreachable \/ Stop \/ BadLine
  <2>1. task'.run \in {"stopping", "failing"}
    BY <1>1 DEF TypeInv, TaskOK, NoticeExit, HandshakeTimeout, Unreachable, Stop, BadLine,
                Leave
  <2> QED BY <2>1, HandshakeLeft
<1>2. CASE Stale \/ Refuse
  BY <1>2, HandshakeStutters DEF Stale, Refuse
<1>3. ASSUME Looping, info.state # "starting" PROVE Greeted
  BY <1>3 DEF Handshake, Unready
<1>4. CASE Send /\ ~Refuse
  <2>1. /\ Looping /\ info.state = "idle" /\ Head(control) \in Calls
        /\ WriteAndReply(Message("user", Head(control)))
    BY <1>4, CommandTypes DEF Send, Command, TypeInv
  <2>2. Greeted /\ Head(control) \in Nat
    BY <1>3, <2>1, Numbers
  <2> QED BY <2>1, <2>2, HandshakeReply
<1>5. CASE Interrupt /\ ~Refuse
  <2>1. /\ Looping /\ info.state \in {"busy", "awaiting_permission"}
        /\ WriteAndReply(Message("interrupt", info.current_task))
    BY <1>5 DEF Interrupt, Command
  <2>2. info.current_task \in Nat
    BY Numbers DEF TypeInv, InfoOK
  <2>3. Greeted
    BY <1>3, <2>1
  <2> QED BY <2>1, <2>2, <2>3, HandshakeReply
<1>6. CASE Permission /\ ~Refuse
  <2>1. /\ Looping /\ calls[Head(control)].of \in info.pending
        /\ WriteAndReply(Message("answer", calls[Head(control)].of))
    BY <1>6 DEF Permission, Command
  <2>2. info.state = "awaiting_permission" /\ calls[Head(control)].of \in Nat
    BY <2>1, Numbers DEF AwaitingMeansPending, TypeInv, InfoOK
  <2>3. Greeted
    BY <1>3, <2>1, <2>2
  <2> QED BY <2>1, <2>2, <2>3, HandshakeReply
<1>7. ASSUME NEW kind, Output(kind)
      PROVE  /\ Looping /\ stdout \in Seq(StdoutLines) /\ stdout # <<>>
             /\ stdout' = Tail(stdout) /\ Head(stdout).kind = kind
             /\ claude' = claude
             /\ Head(stdout).of \in Nat
  BY <1>7, StdoutShrinks DEF Output, TypeInv, StdoutOK, StdoutLines
<1>8. CASE Ready
  <2>1. /\ Looping /\ stdout \in Seq(StdoutLines) /\ stdout # <<>>
        /\ stdout' = Tail(stdout) /\ Head(stdout).kind = "ready"
    BY <1>7, <1>8 DEF Ready
  <2>2. ~Greeted
    BY <2>1, PipeShrinks DEF Greeted
  <2>3. stdin = <<>> /\ OneReady(stdout)
    BY <2>1, <2>2, PipeShrinks DEF Handshake, Unready
  <2>4. AllBad(stdout')
    BY <2>1, <2>3, PipeShrinks
  <2>5. No(stdout', "ready") /\ No(stdin', "initialize")
    BY <1>8, <2>3, <2>4, BadIsNotReady, NewPipes DEF Ready
  <2> QED BY <1>8, <2>1, <2>5 DEF Ready, Handshake, Greeted, Looping, TypeInv, TaskOK
<1>9. CASE CanUseTool \/ CancelRequest \/ Result
  <2>1. PICK kind \in {"can_use_tool", "cancel", "result"} : Output(kind)
    BY <1>9 DEF CanUseTool, CancelRequest, Result
  <2>2. Greeted
    BY <1>7, <2>1, PipeShrinks DEF Handshake, Unready
  <2>3. CASE UNCHANGED <<task, stdin, budget>>
    <3>1. No(stdout', "ready") /\ No(stdin', "initialize")
      BY <1>7, <2>1, <2>2, <2>3, PipeShrinks DEF Greeted
    <3> QED BY <1>7, <2>1, <2>3, <3>1 DEF Handshake, Greeted, Looping
  <2>4. CASE CanUseTool /\ Write(Message("answer", Head(stdout).of))
    BY <1>7, <2>1, <2>2, <2>4, HandshakeWrite
  <2> QED BY <1>9, <2>3, <2>4 DEF CanUseTool, CancelRequest, Result
<1>10. CASE Finish
  BY <1>10 DEF Finish, Handshake, Looping, TypeInv, TaskOK, ClaudeOK
<1> QED BY <1>1, <1>2, <1>4, <1>5, <1>6, <1>8, <1>9, <1>10 DEF TaskStep

LEMMA HandshakeLifecycle ==
    ASSUME TypeInv, Handshake, Lifecycle
    PROVE  Handshake'
<1>1. CASE Release
  BY <1>1 DEF Release, Handshake, Looping
<1>2. CASE Raise
  BY <1>2 DEF Raise, Handshake, Looping, TypeInv, TaskOK
<1>3. CASE Spawn
  <2>1. stdout' = <<>>
    BY <1>3 DEF Spawn, Handshake
  <2>2. \A q \in Requests : asked'[q] # "open"
    BY <1>3 DEF Spawn, CloseAll
  <2>3. CASE /\ info' = [info EXCEPT !.state = "starting", !.current_task = None]
             /\ task' = NewTask
             /\ stdin' = <<Message("initialize", None)>>
             /\ claude' = NewClaude(info.generation)
    <3>1. info'.state = "starting" /\ claude'.turn = None /\ task'.run = "loop"
      BY <2>3 DEF TypeInv, InfoOK, NewClaude, NewTask
    <3> QED BY <2>1, <2>2, <2>3, <3>1, NewPipes DEF Handshake, Unready
  <2>4. CASE task' = [task EXCEPT !.run = "over"] /\ claude' = claude
    BY <1>3, <2>1, <2>4 DEF Spawn, Handshake, Looping, TypeInv, TaskOK
  <2> QED BY <1>3, <2>3, <2>4 DEF Spawn
<1>4. CASE (Insert \/ DropHandler) /\ task'.run = task.run
  BY <1>4, HandshakeStutters DEF Insert, DropHandler
<1>5. CASE DropHandler /\ task'.run # task.run
  BY <1>5 DEF DropHandler, Handshake, Looping, TypeInv, TaskOK
<1>6. Insert => task'.run = task.run
  BY DEF Insert, TypeInv, TaskOK
<1> QED BY <1>1, <1>2, <1>3, <1>4, <1>5, <1>6 DEF Lifecycle

LEMMA HandshakeClaude ==
    ASSUME TypeInv, Handshake, ClaudeStep \/ ClaudeActs
    PROVE  Handshake'
<1>1. claude.alive /\ UNCHANGED <<info, task>>
  BY DEF ClaudeStep, ClaudeActs, ReadInitialize, ReadPrompt, ReadInterrupt, ReadAnswer,
         ClaudeReads, EndsTurn, Asks, Withdraws, Exits, WritesBadLine
<1>2. SUFFICES ASSUME Looping PROVE Unready' \/ Greeted'
  BY <1>1 DEF Handshake, Looping
<1>3. stdin \in Seq(StdinLines) /\ stdout \in Seq(StdoutLines) /\ claude.turn \in Nat
  BY Numbers DEF TypeInv, StdinOK, StdoutOK, ClaudeOK
<1>4. ASSUME NEW k \in {"ready", "can_use_tool", "cancel", "result", "bad"}, NEW n \in Nat,
             Says(Message(k, n))
      PROVE  /\ AllBad(stdout) /\ k = "bad" => AllBad(stdout')
             /\ AllBad(stdout) /\ k = "ready" => OneReady(stdout')
             /\ OneReady(stdout) /\ k = "bad" => OneReady(stdout')
             /\ No(stdout, "ready") /\ k # "ready" => No(stdout', "ready")
  <2>1. Message(k, n) \in StdoutLines /\ Message(k, n).kind = k
    BY DEF Message, StdoutLines
  <2> QED BY <1>3, <1>4, <2>1, PipeGrows DEF Says
<1>5. ASSUME NEW kind, kind # "initialize", ClaudeReads(kind)
      PROVE  Greeted /\ No(stdin', "initialize")
  <2>1. Greeted
    BY <1>2, <1>5, NewPipes DEF ClaudeReads, Handshake, Unready
  <2> QED BY <1>3, <1>5, <2>1, PipeShrinks DEF ClaudeReads, Greeted
<1>6. CASE ReadInitialize
  <2>1. stdin # <<>> /\ Head(stdin).kind = "initialize" /\ stdin' = Tail(stdin)
        /\ UNCHANGED <<claude, asked>> /\ Says(Message("ready", None))
    BY <1>6 DEF ReadInitialize, ClaudeReads
  <2>2. Unready /\ stdin = <<Message("initialize", None)>> /\ AllBad(stdout)
    BY <1>2, <1>3, <2>1, PipeShrinks DEF Handshake, Greeted, Unready
  <2>3. stdin' = <<>> /\ OneReady(stdout')
    BY <1>4, <2>1, <2>2, NewPipes, Numbers
  <2> QED BY <1>1, <2>1, <2>2, <2>3 DEF Unready
<1>7. CASE ReadPrompt \/ ReadAnswer
  BY <1>5, <1>7 DEF ReadPrompt, ReadAnswer, Greeted
<1>8. CASE ReadInterrupt
  <2>1. Greeted /\ No(stdin', "initialize")
    BY <1>5, <1>8 DEF ReadInterrupt
  <2>2. No(stdout', "ready")
    BY <1>3, <1>4, <1>8, <2>1 DEF ReadInterrupt, Greeted
  <2> QED BY <2>1, <2>2 DEF Greeted
<1>9. CASE EndsTurn
  <2>1. Greeted
    BY <1>2, <1>9 DEF EndsTurn, Handshake, Unready
  <2> QED BY <1>3, <1>4, <1>9, <2>1 DEF EndsTurn, Greeted
<1>10. ASSUME NEW q \in Requests, Asks(q) \/ Withdraws(q) PROVE Greeted'
  <2>1. Greeted
    BY <1>2, <1>10 DEF Asks, Withdraws, Handshake, Unready
  <2> QED BY <1>4, <1>10, <2>1, Numbers DEF Asks, Withdraws, Greeted
<1>11. CASE Exits
  <2>1. claude'.turn = claude.turn /\ UNCHANGED <<stdin, stdout, asked>>
    BY <1>11 DEF Exits, TypeInv, ClaudeOK
  <2> QED BY <1>1, <1>2, <2>1 DEF Handshake, Unready, Greeted, AllBad, OneReady, No
<1>12. CASE WritesBadLine
  <2>1. Says(Message("bad", None)) /\ UNCHANGED <<stdin, claude, asked>>
    BY <1>12 DEF WritesBadLine
  <2>2. /\ AllBad(stdout) => AllBad(stdout')
        /\ OneReady(stdout) => OneReady(stdout')
        /\ No(stdout, "ready") => No(stdout', "ready")
    BY <1>4, <2>1, Numbers
  <2> QED BY <1>1, <1>2, <2>1, <2>2 DEF Handshake, Unready, Greeted
<1> QED BY <1>6, <1>7, <1>8, <1>9, <1>10, <1>11, <1>12 DEF ClaudeStep, ClaudeActs

-----------------------------------------------------------------------------
(***************************************************************************)
(* The refinement.  What AgentLife tells of a running agent is kept by the *)
(* loop, and each step of the agent is one of AgentLife or not seen by it. *)
(***************************************************************************)
LifeInv ==
    /\ AwaitingMeansPending
    /\ Life!IsRunning(info.state) <=> task.run \notin {"over", "raised"}

SessionInv == TypeInv /\ Handshake /\ LifeInv

LifeStep == LifeInv' /\ (UNCHANGED shown \/ Life!Next)

LEMMA InitLife == Init => LifeInv /\ Life!Init
BY DEF Init, LifeInv, AwaitingMeansPending, Life!IsRunning, Life!Init, Life!Born, shown,
       NewTask

\* Steps that touch neither the record nor where the task is are not seen by
\* AgentLife.
LEMMA HiddenSteps ==
    ASSUME SessionInv, info' = info, task'.run = task.run
    PROVE  LifeStep
BY DEF SessionInv, LifeInv, LifeStep, AwaitingMeansPending, shown, Life!IsRunning

\* A step of the loop: a successor state, and the loop may be left.
LEMMA LoopSteps ==
    ASSUME SessionInv, Looping,
           NEW s, NEW P,
           info'.generation = info.generation, info'.state = s, info'.pending = P,
           s \in Life!Successors(info.state) \cup {info.state},
           (s = "awaiting_permission") <=> (P # {}),
           task'.run \in {"loop", "stopping", "failing"}
    PROVE  LifeStep
<1>1. info.state \in Life!States /\ task.run = "loop"
  BY DEF SessionInv, TypeInv, InfoOK, Looping
<1>2. Life!IsRunning(info.state)
  BY <1>1 DEF SessionInv, LifeInv
<1>3. Life!IsRunning(s)
  BY <1>1, <1>2 DEF Life!IsRunning, Life!Successors, Life!States
<1>4. LifeInv'
  BY <1>3 DEF LifeInv, AwaitingMeansPending, Life!IsRunning
<1>5. shown' \in Life!LoopSteps(shown)
  <2> DEFINE r == task'.run
  <2>1. shown' = [generation |-> shown.generation, state |-> s, run |-> r]
    BY DEF shown
  <2>2. s \in Life!Successors(shown.state) \cup {shown.state}
    BY DEF shown
  <2>3. shown.run = "loop" /\ r \in {"loop", "stopping", "failing"}
    BY <1>1 DEF shown
  <2> HIDE DEF r
  <2> QED BY <2>1, <2>2, <2>3 DEF Life!LoopSteps
<1> QED BY <1>4, <1>5 DEF LifeStep, Life!Next, Life!Steps

\* A step of the loop that leaves the record alone.
LEMMA QuietSteps ==
    ASSUME SessionInv, Looping, info' = info,
           task'.run \in {"loop", "stopping", "failing"}
    PROVE  LifeStep
<1>1. (info.state = "awaiting_permission") <=> (info.pending # {})
  BY DEF SessionInv, LifeInv, AwaitingMeansPending
<1> QED BY <1>1, LoopSteps

LEMMA LeavingLife ==
    ASSUME SessionInv, NoticeExit \/ HandshakeTimeout \/ Unreachable \/ Stop \/ BadLine
    PROVE  LifeStep
<1>1. Looping /\ info' = info /\ task'.run \in {"stopping", "failing"}
  BY DEF SessionInv, TypeInv, TaskOK, NoticeExit, HandshakeTimeout, Unreachable, Stop, BadLine,
         Command, Output, Leave
<1> QED BY <1>1, QuietSteps

\* A write leaves the loop or not.
LEMMA WriteRuns ==
    ASSUME TypeInv, Looping, NEW m, Write(m)
    PROVE  task'.run \in {"loop", "failing"}
BY DEF TypeInv, TaskOK, Looping, Write, Leave

LEMMA CommandLife ==
    ASSUME SessionInv, Stale \/ Send \/ Interrupt \/ Permission
    PROVE  LifeStep
<1>1. CASE Stale \/ Refuse
  BY <1>1, HiddenSteps DEF Stale, Refuse
<1>2. ASSUME NEW m, WriteAndReply(m), Looping
      PROVE  task'.run \in {"loop", "stopping", "failing"}
  <2>1. Write(m)
    BY <1>2 DEF WriteAndReply
  <2> QED BY <1>2, <2>1, WriteRuns DEF SessionInv
<1>3. CASE Send /\ ~Refuse
  <2>1. /\ Looping /\ info.state = "idle"
        /\ info' = [info EXCEPT !.state = "busy", !.current_task = Head(control)]
        /\ WriteAndReply(Message("user", Head(control)))
    BY <1>3 DEF Send, Command
  <2>2. /\ info'.generation = info.generation /\ info'.state = "busy"
        /\ info'.pending = info.pending
    BY <2>1 DEF SessionInv, TypeInv, InfoOK
  <2>3. info.pending = {}
    BY <2>1 DEF SessionInv, LifeInv, AwaitingMeansPending
  <2>4. "busy" \in Life!Successors(info.state)
    BY <2>1 DEF Life!Successors
  <2>5. task'.run \in {"loop", "stopping", "failing"}
    BY <1>2, <2>1
  <2> QED BY <2>1, <2>2, <2>3, <2>4, <2>5, LoopSteps
<1>4. CASE Interrupt /\ ~Refuse
  <2>1. /\ Looping /\ info.state \in {"busy", "awaiting_permission"}
        /\ info' = [info EXCEPT !.state = "interrupting", !.pending = {}]
        /\ WriteAndReply(Message("interrupt", info.current_task))
    BY <1>4 DEF Interrupt, Command
  <2>2. /\ info'.generation = info.generation /\ info'.state = "interrupting"
        /\ info'.pending = {}
    BY <2>1 DEF SessionInv, TypeInv, InfoOK
  <2>3. "interrupting" \in Life!Successors(info.state)
    BY <2>1 DEF Life!Successors
  <2>4. task'.run \in {"loop", "stopping", "failing"}
    BY <1>2, <2>1
  <2> QED BY <2>1, <2>2, <2>3, <2>4, LoopSteps
<1>5. CASE Permission /\ ~Refuse
  <2> DEFINE q == calls[Head(control)].of
             left == info.pending \ {q}
             s == IF left = {} THEN "busy" ELSE info.state
  <2>1. /\ Looping /\ q \in info.pending
        /\ info' = [info EXCEPT !.pending = left,
                                !.state = IF left = {} THEN "busy" ELSE @]
        /\ WriteAndReply(Message("answer", q))
    BY <1>5 DEF Permission, Command
  <2>2. task'.run \in {"loop", "stopping", "failing"}
    BY <1>2, <2>1
  <2>3. info.state = "awaiting_permission"
    BY <2>1 DEF SessionInv, LifeInv, AwaitingMeansPending
  <2> HIDE DEF q, left
  <2>4. /\ info'.generation = info.generation /\ info'.state = s
        /\ info'.pending = left
    BY <2>1 DEF SessionInv, TypeInv, InfoOK
  <2>5. s \in Life!Successors(info.state) \cup {info.state}
    BY <2>3 DEF Life!Successors
  <2>6. (s = "awaiting_permission") <=> (left # {})
    BY <2>3
  <2> HIDE DEF s
  <2> QED BY <2>1, <2>2, <2>4, <2>5, <2>6, LoopSteps
<1> QED BY <1>1, <1>3, <1>4, <1>5 DEF Send, Interrupt, Permission

LEMMA OutputLife ==
    ASSUME SessionInv, Ready \/ CanUseTool \/ CancelRequest \/ Result
    PROVE  LifeStep
<1>1. task.run = "loop" /\ Looping
  BY DEF Ready, CanUseTool, CancelRequest, Result, Output, Looping
<1>2. Life!IsRunning(info.state) /\ info.state \in Life!States
  BY <1>1 DEF SessionInv, LifeInv, TypeInv, InfoOK
<1>3. "idle" \in Life!Successors(info.state) \cup {info.state}
  BY <1>2 DEF Life!IsRunning, Life!Successors, Life!States
<1>4. CASE Ready
  <2>1. stdout \in Seq(StdoutLines) /\ stdout # <<>> /\ Head(stdout).kind = "ready"
    BY <1>4 DEF Ready, Output, SessionInv, TypeInv, StdoutOK
  <2>2. info.state = "starting"
    BY <1>1, <2>1, PipeShrinks DEF SessionInv, Handshake, Greeted, Unready
  <2>3. info.pending = {}
    BY <2>2 DEF SessionInv, LifeInv, AwaitingMeansPending
  <2>4. /\ info'.generation = info.generation /\ info'.state = "idle"
        /\ info'.pending = {} /\ task'.run = "loop"
    BY <1>1, <1>4, <2>3 DEF Ready, SessionInv, TypeInv, InfoOK, TaskOK
  <2> QED BY <1>1, <1>3, <2>4, LoopSteps
<1>5. CASE Result
  <2>1. /\ info'.generation = info.generation /\ info'.state = "idle"
        /\ info'.pending = {} /\ task'.run = "loop"
    BY <1>1, <1>5 DEF Result, SessionInv, TypeInv, InfoOK
  <2> QED BY <1>1, <1>3, <2>1, LoopSteps
<1>6. CASE CancelRequest
  <2> DEFINE left == info.pending \ {Head(stdout).of}
             s == IF info.state = "awaiting_permission" /\ left = {}
                  THEN "busy" ELSE info.state
  <2>1. /\ info' = [info EXCEPT !.pending = left,
                                !.state = IF @ = "awaiting_permission" /\ left = {}
                                          THEN "busy" ELSE @]
        /\ task' = task
    BY <1>6 DEF CancelRequest
  <2>2. info.pending = {} => left = {}
    OBVIOUS
  <2> HIDE DEF left
  <2>3. /\ info'.generation = info.generation /\ info'.state = s
        /\ info'.pending = left
    BY <2>1 DEF SessionInv, TypeInv, InfoOK
  <2>4. s \in Life!Successors(info.state) \cup {info.state}
    BY DEF Life!Successors
  <2>5. (s = "awaiting_permission") <=> (left # {})
    BY <2>2 DEF SessionInv, LifeInv, AwaitingMeansPending
  <2>6. task'.run \in {"loop", "stopping", "failing"}
    BY <1>1, <2>1
  <2> HIDE DEF s
  <2> QED BY <1>1, <2>3, <2>4, <2>5, <2>6, LoopSteps
<1>7. CASE CanUseTool
  <2> DEFINE q == Head(stdout).of
             P == info.pending \cup {q}
  <2>1. CASE /\ info.state \in {"busy", "awaiting_permission"}
             /\ info' = [info EXCEPT !.pending = P, !.state = "awaiting_permission"]
             /\ task' = task
    <3>1. "awaiting_permission" \in Life!Successors(info.state) \cup {info.state}
      BY <2>1 DEF Life!Successors
    <3>2. P # {}
      OBVIOUS
    <3> HIDE DEF P
    <3>3. /\ info'.generation = info.generation /\ info'.state = "awaiting_permission"
          /\ info'.pending = P /\ task'.run = "loop"
      BY <1>1, <2>1 DEF SessionInv, TypeInv, InfoOK
    <3> QED BY <1>1, <3>1, <3>2, <3>3, LoopSteps
  <2>2. CASE Write(Message("answer", q)) /\ UNCHANGED info
    <3>1. task'.run \in {"loop", "failing"}
      BY <1>1, <2>2, WriteRuns DEF SessionInv
    <3> QED BY <1>1, <2>2, <3>1, QuietSteps
  <2> QED BY <1>7, <2>1, <2>2 DEF CanUseTool
<1> QED BY <1>4, <1>5, <1>6, <1>7

LEMMA EndLife ==
    ASSUME SessionInv, Finish
    PROVE  LifeStep
<1> DEFINE s == IF task.run = "stopping" THEN "stopped" ELSE "failed"
<1>1. /\ task.run \in {"stopping", "failing"} /\ task'.run = "over"
      /\ info'.generation = info.generation /\ info'.pending = {} /\ info'.state = s
  BY DEF Finish, SessionInv, TypeInv, InfoOK, TaskOK
<1>2. LifeInv'
  BY <1>1 DEF LifeInv, AwaitingMeansPending, Life!IsRunning
<1>3. shown' = [generation |-> shown.generation, run |-> "over", state |-> s]
  BY <1>1 DEF shown
<1>4. shown.run = task.run
  BY DEF shown
<1>5. shown' \in Life!EndSteps(shown)
  BY <1>1, <1>3, <1>4 DEF Life!EndSteps
<1> QED BY <1>2, <1>5 DEF LifeStep, Life!Next, Life!Steps

\* The handler that inserts a handle or is dropped leaves all but the task alone.
LEMMA HandlerMoves ==
    ASSUME TypeInv, Insert \/ DropHandler
    PROVE  /\ UNCHANGED <<info, control, calls, stdin, stdout, claude, asked>>
           /\ task'.run = task.run \/ (task.run = "raised" /\ task'.run = "over")
<1>1. CASE Insert
  BY <1>1 DEF TypeInv, TaskOK, Insert
<1>2. CASE DropHandler
  <2>1. task'.run = IF task.run = "raised" THEN "over" ELSE task.run
    BY <1>2 DEF TypeInv, TaskOK, DropHandler
  <2> QED BY <1>2, <2>1 DEF DropHandler
<1> QED BY <1>1, <1>2

LEMMA LifecycleLife ==
    ASSUME SessionInv, Lifecycle
    PROVE  LifeStep
<1>0. \A x, y : /\ [shown EXCEPT !.generation = x, !.run = y]
                      = [generation |-> x, state |-> shown.state, run |-> y]
                 /\ [shown EXCEPT !.state = x, !.run = y]
                      = [generation |-> shown.generation, state |-> x, run |-> y]
  <2>1. PICK l : l = shown
    OBVIOUS
  <2>2. l = [generation |-> l.generation, state |-> l.state, run |-> l.run]
    BY <2>1 DEF shown
  <2>3. ASSUME NEW x, NEW y
        PROVE  /\ [l EXCEPT !.generation = x, !.run = y]
                    = [generation |-> x, state |-> l.state, run |-> y]
               /\ [l EXCEPT !.state = x, !.run = y]
                    = [generation |-> l.generation, state |-> x, run |-> y]
    <3>1. /\ [l EXCEPT !.generation = x]
               = [generation |-> x, state |-> l.state, run |-> l.run]
          /\ [l EXCEPT !.state = x]
               = [generation |-> l.generation, state |-> x, run |-> l.run]
      BY <2>2
    <3>2. ASSUME NEW g, NEW s
          PROVE  [[generation |-> g, state |-> s, run |-> l.run] EXCEPT !.run = y]
                    = [generation |-> g, state |-> s, run |-> y]
      OBVIOUS
    <3> QED BY <3>1, <3>2
  <2> QED BY <2>1, <2>3
<1>1. shown.generation = info.generation /\ shown.run = task.run
  BY DEF shown
<1>2. CASE task.run \in {"over", "raised"}
  <2>1. info.pending = {} /\ ~Life!IsRunning(info.state)
    BY <1>2 DEF SessionInv, LifeInv, AwaitingMeansPending, Life!IsRunning
  <2>2. CASE Release
    <3>1. /\ info'.state = "stopped" /\ info'.generation = info.generation
          /\ info'.pending = {} /\ task' = task /\ task.run = "over"
      BY <2>1, <2>2 DEF Release, SessionInv, TypeInv, InfoOK
    <3>2. LifeInv'
      BY <3>1 DEF LifeInv, AwaitingMeansPending, Life!IsRunning
    <3>3. shown' = [shown EXCEPT !.state = "stopped"]
      BY <3>1 DEF shown
    <3> QED BY <1>1, <3>1, <3>2, <3>3 DEF LifeStep, Life!Next, Life!Steps, Life!LifecycleSteps
  <2>3. CASE Raise
    <3>1. /\ info'.generation = info.generation + 1 /\ info'.pending = {}
          /\ info'.state = info.state /\ task.run = "over" /\ task'.run = "raised"
      BY <2>1, <2>3 DEF Raise, SessionInv, TypeInv, InfoOK, TaskOK
    <3>2. LifeInv'
      BY <2>1, <3>1 DEF LifeInv, AwaitingMeansPending, Life!IsRunning
    <3>3. shown' = [generation |-> shown.generation + 1, state |-> shown.state,
                    run |-> "raised"]
      BY <3>1 DEF shown
    <3>4. shown' = [shown EXCEPT !.generation = @ + 1, !.run = "raised"]
      BY <3>3, <1>0, Zenon
    <3> QED BY <1>1, <3>1, <3>2, <3>4 DEF LifeStep, Life!Next, Life!Steps, Life!LifecycleSteps
  <2>4. CASE /\ info' = [info EXCEPT !.state = "starting", !.current_task = None]
             /\ task.run = "raised" /\ task' = NewTask
    <3>1. /\ info'.generation = info.generation /\ info'.pending = {}
          /\ info'.state = "starting" /\ task'.run = "loop"
      BY <2>1, <2>4 DEF NewTask, SessionInv, TypeInv, InfoOK
    <3>2. LifeInv'
      BY <3>1 DEF LifeInv, AwaitingMeansPending, Life!IsRunning
    <3>3. shown' = [generation |-> shown.generation, state |-> "starting", run |-> "loop"]
      BY <3>1 DEF shown
    <3>4. shown' = [shown EXCEPT !.state = "starting", !.run = "loop"]
      BY <3>3, <1>0, Zenon
    <3> QED BY <1>1, <2>4, <3>2, <3>4 DEF LifeStep, Life!Next, Life!Steps, Life!RestartSteps
  <2>5. CASE /\ info' = [info EXCEPT !.state = "failed"]
             /\ task.run = "raised" /\ task' = [task EXCEPT !.run = "over"]
    <3>1. /\ info'.generation = info.generation /\ info'.pending = {}
          /\ info'.state = "failed" /\ task'.run = "over"
      BY <2>1, <2>5 DEF SessionInv, TypeInv, InfoOK, TaskOK
    <3>2. LifeInv'
      BY <3>1 DEF LifeInv, AwaitingMeansPending, Life!IsRunning
    <3>3. shown' = [generation |-> shown.generation, state |-> "failed", run |-> "over"]
      BY <3>1 DEF shown
    <3>4. shown' = [shown EXCEPT !.state = "failed", !.run = "over"]
      BY <3>3, <1>0, Zenon
    <3> QED BY <1>1, <2>5, <3>2, <3>4 DEF LifeStep, Life!Next, Life!Steps, Life!RestartSteps
  <2>6. CASE DropHandler /\ task.run = "raised"
    <3>1. info' = info /\ task'.run = "over"
      BY <2>6 DEF DropHandler, SessionInv, TypeInv, TaskOK
    <3>2. LifeInv'
      BY <2>1, <3>1 DEF LifeInv, AwaitingMeansPending, Life!IsRunning
    <3>3. shown' = [shown EXCEPT !.run = "over"]
      BY <3>1 DEF shown
    <3> QED BY <1>1, <2>6, <3>2, <3>3 DEF LifeStep, Life!Next, Life!Steps, Life!RestartSteps
  <2>7. CASE Insert \/ (DropHandler /\ task.run # "raised")
    <3>1. info' = info /\ task'.run = task.run
      BY <2>7 DEF Insert, DropHandler, SessionInv, TypeInv, TaskOK
    <3> QED BY <3>1, HiddenSteps
  <2> QED BY <2>2, <2>3, <2>4, <2>5, <2>6, <2>7 DEF Lifecycle, Spawn
<1>3. CASE task.run \notin {"over", "raised"}
  <2>1. info' = info /\ task'.run = task.run
    BY <1>3 DEF Lifecycle, Release, Raise, Spawn, Insert, DropHandler, SessionInv, TypeInv, TaskOK
  <2> QED BY <2>1, HiddenSteps
<1> QED BY <1>2, <1>3

\* Users and Claude are not seen, and neither is a step that changes nothing.
LEMMA OthersLife ==
    ASSUME SessionInv,
           \/ \E c \in Calls : Request(c) \/ RequestTimeout(c)
           \/ ClaudeStep \/ ClaudeActs
           \/ UNCHANGED vars
    PROVE  LifeStep
<1>1. UNCHANGED <<info, task>>
  BY DEF Request, RequestTimeout, ClaudeStep, ClaudeActs, ReadInitialize, ReadPrompt,
         ReadInterrupt, ReadAnswer, ClaudeReads, EndsTurn, Asks, Withdraws, Exits,
         WritesBadLine, vars
<1> QED BY <1>1, HiddenSteps

LEMMA NextLife == SessionInv /\ [Next]_vars => LifeStep
<1> SUFFICES ASSUME SessionInv, [Next]_vars PROVE LifeStep
  OBVIOUS
<1>1. CASE TaskStep
  BY <1>1, LeavingLife, CommandLife, OutputLife, EndLife DEF TaskStep
<1>2. CASE Lifecycle
  BY <1>2, LifecycleLife
<1>3. CASE \/ \E c \in Calls : Request(c) \/ RequestTimeout(c)
           \/ ClaudeStep \/ ClaudeActs
           \/ UNCHANGED vars
  BY <1>3, OthersLife
<1> QED BY <1>1, <1>2, <1>3 DEF Next, Quiescent

LEMMA NextHandshake == SessionInv /\ [Next]_vars => Handshake'
<1> SUFFICES ASSUME SessionInv, [Next]_vars PROVE Handshake'
  OBVIOUS
<1>1. TypeInv /\ Handshake /\ AwaitingMeansPending
  BY DEF SessionInv, LifeInv
<1>2. CASE TaskStep
  BY <1>1, <1>2, HandshakeTask
<1>3. CASE Lifecycle
  BY <1>1, <1>3, HandshakeLifecycle
<1>4. CASE ClaudeStep \/ ClaudeActs
  BY <1>1, <1>4, HandshakeClaude
<1>5. CASE \E c \in Calls : Request(c) \/ RequestTimeout(c)
  BY <1>1, <1>5, HandshakeStutters DEF Request, RequestTimeout
<1>6. CASE UNCHANGED vars
  BY <1>1, <1>6, HandshakeStutters DEF vars
<1> QED BY <1>2, <1>3, <1>4, <1>5, <1>6 DEF Next, Quiescent

THEOREM SessionInvariant == Spec => []SessionInv
<1>1. Init => SessionInv
  BY InitTypes, InitHandshake, InitLife DEF SessionInv
<1>2. SessionInv /\ [Next]_vars => SessionInv'
  BY NextTypes, NextHandshake, NextLife DEF SessionInv, LifeStep
<1> QED BY <1>1, <1>2, PTL DEF Spec

\* awaiting_permission is shown exactly while a decision is wanted.
THEOREM AgentPending == Spec => []AwaitingMeansPending
<1>1. SessionInv => AwaitingMeansPending
  BY DEF SessionInv, LifeInv
<1> QED BY <1>1, SessionInvariant, PTL

\* The detailed agent implements the life that the manager relies on.
THEOREM AgentImplementsLife == Spec => LifeSpec
<1>1. Init => Life!Init
  BY InitLife
<1>2. SessionInv /\ [Next]_vars => [Life!Next]_shown
  BY NextLife DEF LifeStep
<1> QED BY <1>1, <1>2, SessionInvariant, PTL DEF Spec, LifeSpec, Life!Spec

-------------------------------------------------------------------------------
(***************************************************************************)
(* The turn.  A pipe that holds One line of a kind holds that of c; the    *)
(* turn c is on its way to Claude, worked on, or on its way back.          *)
(***************************************************************************)
One(p, kind, c) ==
    \E k \in DOMAIN p : /\ p[k].kind = kind /\ p[k].of = c
                        /\ \A i \in DOMAIN p \ {k} : p[i].kind # kind

NoTurn ==
    No(stdin, "user") /\ No(stdout, "result") /\ claude.turn = None

UnderWay(c) ==
    \/ One(stdin, "user", c) /\ No(stdout, "result") /\ claude.turn = None
    \/ No(stdin, "user") /\ No(stdout, "result") /\ claude.turn = c
    \/ No(stdin, "user") /\ One(stdout, "result", c) /\ claude.turn = None

TurnInv ==
    Looping => IF info.state \in Life!TurnStates
                 THEN info.current_task \in Calls /\ UnderWay(info.current_task)
                 ELSE NoTurn

\* What is appended to a pipe, and what is read from its head.
LEMMA OneGrows ==
    ASSUME NEW S, NEW p \in Seq(S), NEW m \in S, NEW kind
    PROVE  /\ No(p, kind) /\ m.kind # kind => No(Append(p, m), kind)
           /\ No(p, kind) /\ m.kind = kind => One(Append(p, m), kind, m.of)
           /\ \A c : One(p, kind, c) /\ m.kind # kind => One(Append(p, m), kind, c)
<1> DEFINE q == Append(p, m)
<1>1. /\ DOMAIN q = DOMAIN p \cup {Len(p) + 1}
      /\ \A i \in DOMAIN p : q[i] = p[i] /\ i # Len(p) + 1
      /\ q[Len(p) + 1] = m
  OBVIOUS
<1> HIDE DEF q
<1>2. /\ No(p, kind) /\ m.kind # kind => No(q, kind)
      /\ No(p, kind) /\ m.kind = kind => One(q, kind, m.of)
      /\ \A c : One(p, kind, c) /\ m.kind # kind => One(q, kind, c)
  BY <1>1 DEF One, No
<1> QED BY <1>2 DEF q

LEMMA OneShrinks ==
    ASSUME NEW S, NEW p \in Seq(S), p # <<>>, NEW kind
    PROVE  /\ No(p, kind) => No(Tail(p), kind) /\ Head(p).kind # kind
           /\ \A c : One(p, kind, c) /\ Head(p).kind = kind
                       => No(Tail(p), kind) /\ Head(p).of = c
           /\ \A c : One(p, kind, c) /\ Head(p).kind # kind => One(Tail(p), kind, c)
<1> DEFINE q == Tail(p)
<1>1. /\ \A i \in DOMAIN q : i + 1 \in DOMAIN p /\ q[i] = p[i + 1] /\ i + 1 # 1
      /\ \A k \in DOMAIN p : k # 1 => k - 1 \in DOMAIN q /\ q[k - 1] = p[k] /\ (k - 1) + 1 = k
      /\ 1 \in DOMAIN p /\ Head(p) = p[1]
  OBVIOUS
<1>0. DOMAIN q \subseteq Int /\ DOMAIN p \subseteq Int
  OBVIOUS
<1> HIDE DEF q
<1>2. No(p, kind) => No(q, kind) /\ p[1].kind # kind
  BY <1>1 DEF No
<1>3. ASSUME NEW c, One(p, kind, c)
      PROVE  /\ p[1].kind = kind => No(q, kind) /\ p[1].of = c
             /\ p[1].kind # kind => One(q, kind, c)
  <2>1. PICK k \in DOMAIN p : /\ p[k].kind = kind /\ p[k].of = c
                              /\ \A i \in DOMAIN p \ {k} : p[i].kind # kind
    BY <1>3 DEF One
  <2>2. CASE k = 1
    BY <1>1, <2>1, <2>2 DEF No
  <2>3. CASE k # 1
    <3>1. k - 1 \in DOMAIN q /\ q[k - 1].kind = kind /\ q[k - 1].of = c /\ p[1].kind # kind
      BY <1>1, <2>1, <2>3
    <3>2. ASSUME NEW i \in DOMAIN q, i # k - 1 PROVE q[i].kind # kind
      <4>1. i + 1 \in DOMAIN p /\ q[i] = p[i + 1] /\ i \in Int /\ k \in Int
        BY <1>0, <1>1
      <4>2. i + 1 # k
        BY <3>2, <4>1
      <4> QED BY <2>1, <4>1, <4>2
    <3> QED BY <3>1, <3>2 DEF One
  <2> QED BY <2>2, <2>3
<1> QED BY <1>1, <1>2, <1>3 DEF q

\* The same, of the two pipes.
LEMMA StdinTurn ==
    ASSUME TypeInv, NEW k \in {"initialize", "user", "interrupt", "answer"}, NEW n \in Nat,
           stdin' = Append(stdin, Message(k, n))
    PROVE  /\ k # "user" /\ No(stdin, "user") => No(stdin', "user")
           /\ k = "user" /\ No(stdin, "user") => One(stdin', "user", n)
           /\ \A c : k # "user" /\ One(stdin, "user", c) => One(stdin', "user", c)
<1>1. PICK m : m = Message(k, n)
  OBVIOUS
<1>2. m \in StdinLines /\ m.kind = k /\ m.of = n
  BY <1>1 DEF Message, StdinLines
<1>3. stdin \in Seq(StdinLines) /\ stdin' = Append(stdin, m)
  BY <1>1 DEF TypeInv, StdinOK
<1> QED BY <1>2, <1>3, OneGrows

LEMMA StdinRead ==
    ASSUME TypeInv, NEW kind, ClaudeReads(kind)
    PROVE  /\ No(stdin, "user") => No(stdin', "user") /\ kind # "user"
           /\ \A c : One(stdin, "user", c) =>
                IF kind = "user" THEN No(stdin', "user") /\ Head(stdin).of = c
                                 ELSE One(stdin', "user", c)
<1>1. stdin \in Seq(StdinLines) /\ stdin # <<>> /\ stdin' = Tail(stdin)
      /\ Head(stdin).kind = kind
  BY DEF TypeInv, StdinOK, ClaudeReads
<1> QED BY <1>1, OneShrinks

LEMMA StdoutTurn ==
    ASSUME TypeInv, NEW k \in {"ready", "can_use_tool", "cancel", "result", "bad"},
           NEW n \in Nat, Says(Message(k, n))
    PROVE  /\ k # "result" /\ No(stdout, "result") => No(stdout', "result")
           /\ k = "result" /\ No(stdout, "result") => One(stdout', "result", n)
           /\ \A c : k # "result" /\ One(stdout, "result", c) => One(stdout', "result", c)
<1>1. PICK m : m = Message(k, n)
  OBVIOUS
<1>2. m \in StdoutLines /\ m.kind = k /\ m.of = n
  BY <1>1 DEF Message, StdoutLines
<1>3. stdout \in Seq(StdoutLines) /\ stdout' = Append(stdout, m)
  BY <1>1 DEF TypeInv, StdoutOK, Says
<1> QED BY <1>2, <1>3, OneGrows

LEMMA StdoutRead ==
    ASSUME TypeInv, NEW kind, Output(kind)
    PROVE  /\ No(stdout, "result") => No(stdout', "result") /\ kind # "result"
           /\ \A c : One(stdout, "result", c) =>
                IF kind = "result" THEN No(stdout', "result") /\ Head(stdout).of = c
                                   ELSE One(stdout', "result", c)
<1>1. stdout \in Seq(StdoutLines) /\ stdout # <<>> /\ stdout' = Tail(stdout)
      /\ Head(stdout).kind = kind
  BY DEF TypeInv, StdoutOK, Output
<1> QED BY <1>1, OneShrinks

LEMMA TurnStays ==
    ASSUME TurnInv, Looping' => Looping,
           No(stdin, "user") => No(stdin', "user"),
           No(stdout, "result") => No(stdout', "result"),
           \A c : One(stdin, "user", c) => One(stdin', "user", c),
           \A c : One(stdout, "result", c) => One(stdout', "result", c),
           claude'.turn = claude.turn, info'.current_task = info.current_task,
           info'.state \in Life!TurnStates <=> info.state \in Life!TurnStates
    PROVE  TurnInv'
BY DEF TurnInv, UnderWay, NoTurn

\* Nothing is promised when the loop has been left.
LEMMA TurnLeft == ASSUME task'.run # "loop" PROVE TurnInv'
BY DEF TurnInv, Looping

LEMMA TurnUnseen ==
    ASSUME TurnInv, UNCHANGED <<info, stdin, stdout, claude>>,
           task'.run = "loop" => task.run = "loop"
    PROVE  TurnInv'
BY TurnStays DEF Looping

\* A line that is no prompt is written, or the loop is left.
LEMMA TurnWrite ==
    ASSUME TypeInv, TurnInv, Looping, NEW k \in {"interrupt", "answer"}, NEW n \in Nat,
           Write(Message(k, n)), UNCHANGED claude, info'.current_task = info.current_task,
           info'.state \in Life!TurnStates <=> info.state \in Life!TurnStates,
           No(stdout, "result") => No(stdout', "result"),
           \A c : One(stdout, "result", c) => One(stdout', "result", c)
    PROVE  TurnInv'
<1>1. CASE stdin' = Append(stdin, Message(k, n)) /\ UNCHANGED <<task, budget>>
  BY <1>1, StdinTurn, TurnStays
<1>2. CASE Leave("failing")
  BY <1>2, TurnLeft DEF Leave, TypeInv, TaskOK
<1> QED BY <1>1, <1>2 DEF Write

LEMMA TurnCommands ==
    ASSUME SessionInv, TurnInv, Stale \/ Send \/ Interrupt \/ Permission
    PROVE  TurnInv'
<1> USE DEF SessionInv
<1>1. CASE Stale \/ Refuse
  BY <1>1, TurnUnseen DEF Stale, Refuse
<1>2. CASE Send /\ ~Refuse
  <2>1. /\ Looping /\ info.state = "idle" /\ Head(control) \in Calls
        /\ info' = [info EXCEPT !.state = "busy", !.current_task = Head(control)]
        /\ Write(Message("user", Head(control))) /\ UNCHANGED <<stdout, claude>>
    BY <1>2, CommandTypes DEF Send, Command, WriteAndReply, TypeInv
  <2>2. PICK c : c = Head(control)
    OBVIOUS
  <2>3. NoTurn
    BY <2>1 DEF TurnInv, Life!TurnStates
  <2>4. info'.state = "busy" /\ info'.current_task = c /\ c \in Nat /\ c \in Calls
    BY <2>1, <2>2, Numbers DEF TypeInv, InfoOK
  <2>5. CASE stdin' = Append(stdin, Message("user", Head(control)))
    <3>1. One(stdin', "user", c)
      BY <2>2, <2>3, <2>4, <2>5, StdinTurn DEF NoTurn
    <3> QED BY <2>1, <2>3, <2>4, <3>1 DEF TurnInv, UnderWay, NoTurn, Life!TurnStates
  <2>6. CASE Leave("failing")
    BY <2>6, TurnLeft DEF Leave, TypeInv, TaskOK
  <2> QED BY <2>1, <2>5, <2>6 DEF Write
<1>3. CASE Interrupt /\ ~Refuse
  <2>1. /\ Looping /\ info.state \in {"busy", "awaiting_permission"}
        /\ info' = [info EXCEPT !.state = "interrupting", !.pending = {}]
        /\ Write(Message("interrupt", info.current_task)) /\ UNCHANGED <<stdout, claude>>
    BY <1>3 DEF Interrupt, Command, WriteAndReply
  <2>2. /\ info'.current_task = info.current_task /\ info.current_task \in Nat
        /\ info'.state = "interrupting"
    BY <2>1, Numbers DEF TypeInv, InfoOK
  <2> QED BY <2>1, <2>2, TurnWrite DEF Life!TurnStates
<1>4. CASE Permission /\ ~Refuse
  <2> DEFINE q == calls[Head(control)].of
             left == info.pending \ {q}
  <2>1. /\ Looping /\ q \in info.pending
        /\ info' = [info EXCEPT !.pending = left,
                                !.state = IF left = {} THEN "busy" ELSE @]
        /\ Write(Message("answer", q)) /\ UNCHANGED <<stdout, claude>>
    BY <1>4 DEF Permission, Command, WriteAndReply
  <2>2. info.state = "awaiting_permission" /\ q \in Nat
    BY <2>1, Numbers DEF LifeInv, AwaitingMeansPending, TypeInv, InfoOK
  <2> HIDE DEF q, left
  <2>3. /\ info'.current_task = info.current_task
        /\ info'.state \in {"busy", "awaiting_permission"}
    BY <2>1, <2>2 DEF TypeInv, InfoOK
  <2> QED BY <2>1, <2>2, <2>3, TurnWrite DEF Life!TurnStates
<1> QED BY <1>1, <1>2, <1>3, <1>4 DEF Send, Interrupt, Permission

LEMMA TurnOutputs ==
    ASSUME SessionInv, TurnInv, Ready \/ CanUseTool \/ CancelRequest \/ Result
    PROVE  TurnInv'
<1> USE DEF SessionInv
<1>1. CASE Ready
  <2>1. Output("ready") /\ Looping /\ claude' = claude /\ stdin' = stdin
    BY <1>1 DEF Ready, Output
  <2>2. info.state = "starting"
    <3>1. stdout \in Seq(StdoutLines) /\ stdout # <<>> /\ Head(stdout).kind = "ready"
      BY <2>1 DEF Output, TypeInv, StdoutOK
    <3> QED BY <2>1, <3>1, PipeShrinks DEF Handshake, Greeted, Unready
  <2>3. NoTurn
    BY <2>1, <2>2 DEF TurnInv, Life!TurnStates
  <2>4. NoTurn'
    BY <2>1, <2>3, StdoutRead DEF NoTurn
  <2>5. info'.state = "idle"
    BY <1>1 DEF Ready, TypeInv, InfoOK
  <2> QED BY <2>4, <2>5 DEF TurnInv, Life!TurnStates
<1>2. CASE Result
  <2>1. Output("result") /\ Looping /\ claude' = claude /\ stdin' = stdin
    BY <1>2 DEF Result, Output
  <2>2. ~No(stdout, "result")
    BY <2>1, StdoutRead
  <2>3. PICK c : No(stdin, "user") /\ One(stdout, "result", c) /\ claude.turn = None
    BY <2>1, <2>2 DEF TurnInv, UnderWay, NoTurn
  <2>4. NoTurn'
    BY <2>1, <2>3, StdoutRead DEF NoTurn
  <2>5. info'.state = "idle"
    BY <1>2 DEF Result, TypeInv, InfoOK
  <2> QED BY <2>4, <2>5 DEF TurnInv, Life!TurnStates
<1>3. CASE CancelRequest
  <2>1. Output("cancel") /\ UNCHANGED <<claude, stdin, task>>
    BY <1>3 DEF CancelRequest, Output
  <2>2. /\ info'.current_task = info.current_task
        /\ info'.state = info.state \/ (info.state = "awaiting_permission" /\ info'.state = "busy")
    BY <1>3 DEF CancelRequest, TypeInv, InfoOK
  <2>3. info'.state \in Life!TurnStates <=> info.state \in Life!TurnStates
    BY <2>2 DEF Life!TurnStates
  <2> QED BY <2>1, <2>2, <2>3, StdoutRead, TurnStays DEF Looping
<1>4. CASE CanUseTool
  <2>1. Output("can_use_tool") /\ Looping /\ claude' = claude
    BY <1>4 DEF CanUseTool, Output
  <2>2. CASE UNCHANGED <<task, stdin, budget>> /\ info.state \in {"busy", "awaiting_permission"}
    <3>1. /\ info'.current_task = info.current_task
          /\ info'.state \in {"busy", "awaiting_permission"} \/ info' = info
      BY <1>4, <2>2 DEF CanUseTool, TypeInv, InfoOK
    <3>2. info'.state \in Life!TurnStates <=> info.state \in Life!TurnStates
      BY <2>2, <3>1 DEF Life!TurnStates
    <3> QED BY <2>1, <2>2, <3>1, <3>2, StdoutRead, TurnStays DEF Looping
  <2>3. CASE Write(Message("answer", Head(stdout).of)) /\ UNCHANGED info
    <3>1. Head(stdout).of \in Nat
      BY <2>1, StdoutShrinks DEF Output, TypeInv, StdoutLines
    <3> QED BY <2>1, <2>3, <3>1, StdoutRead, TurnWrite
  <2> QED BY <1>4, <2>2, <2>3 DEF CanUseTool
<1> QED BY <1>1, <1>2, <1>3, <1>4

LEMMA TurnEnds ==
    ASSUME SessionInv, TurnInv,
           \/ NoticeExit \/ HandshakeTimeout \/ Unreachable \/ Stop \/ BadLine \/ Finish
           \/ Lifecycle
    PROVE  TurnInv'
<1>1. CASE NoticeExit \/ HandshakeTimeout \/ Unreachable \/ Stop \/ BadLine \/ Finish
  <2>1. task'.run # "loop"
    BY <1>1 DEF SessionInv, TypeInv, TaskOK, NoticeExit, HandshakeTimeout, Unreachable, Stop, BadLine,
                Leave, Finish
  <2> QED BY <2>1, TurnLeft
<1>2. CASE Release
  BY <1>2, TurnLeft DEF Release
<1>3. CASE Raise
  BY <1>3, TurnLeft DEF Raise, SessionInv, TypeInv, TaskOK
<1>4. CASE Insert \/ DropHandler
  BY <1>4, HandlerMoves, TurnUnseen DEF SessionInv
<1>5. CASE Spawn
  <2>1. CASE task' = [task EXCEPT !.run = "over"]
    BY <2>1, TurnLeft DEF SessionInv, TypeInv, TaskOK
  <2>2. CASE /\ info' = [info EXCEPT !.state = "starting", !.current_task = None]
             /\ stdin' = <<Message("initialize", None)>>
             /\ claude' = NewClaude(info.generation)
    <3>1. stdout' = <<>>
      BY <1>5 DEF Spawn, SessionInv, Handshake
    <3>2. info'.state = "starting" /\ claude'.turn = None
      BY <2>2 DEF SessionInv, TypeInv, InfoOK, NewClaude
    <3>3. No(stdout', "result")
      BY <3>1 DEF No
    <3>4. No(stdin', "user")
      <4>1. PICK m : m = Message("initialize", None)
        OBVIOUS
      <4>2. stdin' = <<m>> /\ m.kind # "user"
        BY <2>2, <4>1 DEF Message
      <4> QED BY <4>2 DEF No
    <3> QED BY <3>2, <3>3, <3>4 DEF TurnInv, NoTurn, Life!TurnStates
  <2> QED BY <1>5, <2>1, <2>2 DEF Spawn
<1> QED BY <1>1, <1>2, <1>3, <1>4, <1>5 DEF Lifecycle

\* An interrupt that Claude reads when idle is answered by nothing.
LEMMA TurnClaude ==
    ASSUME SessionInv, TurnInv, IdleInterruptResult = FALSE, ClaudeStep \/ ClaudeActs
    PROVE  TurnInv'
<1>1. /\ UNCHANGED <<info, task>> /\ claude.turn \in Nat /\ TypeInv
      /\ Looping' => Looping
  BY Numbers
     DEF ClaudeStep, ClaudeActs, ReadInitialize, ReadPrompt, ReadInterrupt, ReadAnswer,
         ClaudeReads, EndsTurn, Asks, Withdraws, Exits, WritesBadLine, SessionInv, TypeInv,
         ClaudeOK, Looping
<1>2. CASE ReadInitialize \/ ReadAnswer
  <2>1. PICK kind \in {"initialize", "answer"} : ClaudeReads(kind) /\ claude' = claude
    BY <1>2 DEF ReadInitialize, ReadAnswer
  <2>2. stdout' = stdout \/ Says(Message("ready", None))
    BY <1>2 DEF ReadInitialize, ReadAnswer
  <2> QED BY <1>1, <2>1, <2>2, StdinRead, StdoutTurn, TurnStays, Numbers
<1>3. CASE ReadPrompt
  <2>1. /\ ClaudeReads("user") /\ claude.turn = None /\ claude'.turn = Head(stdin).of
        /\ stdout' = stdout
    BY <1>1, <1>3 DEF ReadPrompt, TypeInv, ClaudeOK
  <2>2. SUFFICES ASSUME Looping PROVE TurnInv'
    BY <1>1 DEF TurnInv
  <2>3. ~No(stdin, "user")
    BY <1>1, <2>1, StdinRead
  <2>4. /\ info.state \in Life!TurnStates /\ info.current_task \in Calls
        /\ One(stdin, "user", info.current_task) /\ No(stdout, "result")
    BY <2>1, <2>2, <2>3, Numbers DEF TurnInv, UnderWay, NoTurn, None, Calls
  <2>5. No(stdin', "user") /\ claude'.turn = info.current_task
    BY <1>1, <2>1, <2>4, StdinRead
  <2> QED BY <1>1, <2>1, <2>4, <2>5 DEF TurnInv, UnderWay
<1>4. CASE ReadInterrupt \/ EndsTurn
  <2>1. \/ ClaudeReads("interrupt")
        \/ stdin' = stdin
    BY <1>4 DEF ReadInterrupt, EndsTurn
  <2>2. /\ No(stdin, "user") => No(stdin', "user")
        /\ \A c : One(stdin, "user", c) => One(stdin', "user", c)
    BY <1>1, <2>1, StdinRead
  <2>3. claude'.turn = None
    BY <1>1, <1>4 DEF ReadInterrupt, EndsTurn, TypeInv, ClaudeOK
  <2>4. CASE claude.turn = None
    <3>1. stdout' = stdout
      BY <1>4, <2>4 DEF ReadInterrupt, EndsTurn
    <3> QED BY <1>1, <2>2, <2>3, <2>4, <3>1, TurnStays
  <2>5. CASE claude.turn # None
    <3>1. Says(Message("result", claude.turn))
      BY <1>4, <2>5 DEF ReadInterrupt, EndsTurn
    <3>2. SUFFICES ASSUME Looping PROVE TurnInv'
      BY <1>1 DEF TurnInv
    <3>3. /\ info.state \in Life!TurnStates /\ info.current_task = claude.turn
          /\ info.current_task \in Calls
          /\ No(stdin, "user") /\ No(stdout, "result")
      BY <2>5, <3>2 DEF TurnInv, UnderWay, NoTurn
    <3>4. One(stdout', "result", info.current_task)
      BY <1>1, <3>1, <3>3, StdoutTurn
    <3> QED BY <1>1, <2>2, <2>3, <3>3, <3>4 DEF TurnInv, UnderWay
  <2> QED BY <2>4, <2>5
<1>5. ASSUME NEW q \in Requests, Asks(q) \/ Withdraws(q) PROVE TurnInv'
  <2>1. PICK k \in {"can_use_tool", "cancel"} : Says(Message(k, q))
    BY <1>5 DEF Asks, Withdraws
  <2>2. stdin' = stdin /\ claude' = claude /\ q \in Nat
    BY <1>5, Numbers DEF Asks, Withdraws
  <2> QED BY <1>1, <2>1, <2>2, StdoutTurn, TurnStays
<1>6. CASE Exits
  <2>1. claude'.turn = claude.turn /\ UNCHANGED <<stdin, stdout>>
    BY <1>1, <1>6 DEF Exits, TypeInv, ClaudeOK
  <2> QED BY <1>1, <2>1, TurnStays
<1>7. CASE WritesBadLine
  <2>1. Says(Message("bad", None)) /\ UNCHANGED <<stdin, claude>>
    BY <1>7 DEF WritesBadLine
  <2> QED BY <1>1, <2>1, StdoutTurn, TurnStays, Numbers
<1> QED BY <1>2, <1>3, <1>4, <1>5, <1>6, <1>7 DEF ClaudeStep, ClaudeActs

LEMMA TurnStep ==
    SessionInv /\ TurnInv /\ IdleInterruptResult = FALSE /\ [Next]_vars => TurnInv'
<1> SUFFICES ASSUME SessionInv, TurnInv, IdleInterruptResult = FALSE, [Next]_vars
             PROVE  TurnInv'
  OBVIOUS
<1>1. CASE TaskStep \/ Lifecycle
  BY <1>1, TurnCommands, TurnOutputs, TurnEnds DEF TaskStep
<1>2. CASE ClaudeStep \/ ClaudeActs
  BY <1>2, TurnClaude
<1>3. CASE Quiescent \/ UNCHANGED vars \/ \E c \in Calls : Request(c) \/ RequestTimeout(c)
  BY <1>3, TurnUnseen DEF Quiescent, vars, Request, RequestTimeout
<1> QED BY <1>1, <1>2, <1>3 DEF Next

LEMMA InitTurn == Init => TurnInv
<1> SUFFICES ASSUME Init PROVE TurnInv
  OBVIOUS
<1>1. PICK m : m = Message("initialize", None)
  OBVIOUS
<1>0. m.kind # "user"
  BY <1>1 DEF Message
<1>2. stdin = <<m>> /\ stdout = <<>> /\ claude.turn = None /\ info.state = "starting"
  BY <1>1 DEF Init, NewClaude
<1>3. No(stdin, "user") /\ No(stdout, "result")
  BY <1>0, <1>2 DEF No
<1> QED BY <1>2, <1>3 DEF TurnInv, NoTurn, Life!TurnStates

\* The lines of a kind in a pipe, counted.
LEMMA Counted ==
    ASSUME NEW p, NEW kind
    PROVE  /\ No(p, kind) => Cardinality(In(p, kind)) = 0 /\ Carried(p, kind) = {}
           /\ \A c : One(p, kind, c) =>
                Cardinality(In(p, kind)) = 1 /\ Carried(p, kind) = {c}
<1>1. ASSUME No(p, kind)
      PROVE  Cardinality(In(p, kind)) = 0 /\ Carried(p, kind) = {}
  <2>1. In(p, kind) = {}
    BY <1>1 DEF No, In
  <2> QED BY <2>1, FS_EmptySet DEF Carried
<1>2. ASSUME NEW c, One(p, kind, c)
      PROVE  Cardinality(In(p, kind)) = 1 /\ Carried(p, kind) = {c}
  <2>1. PICK k \in DOMAIN p : In(p, kind) = {k} /\ p[k].of = c
    BY <1>2 DEF One, In
  <2>2. Carried(p, kind) = {c}
    BY <2>1 DEF Carried
  <2>3. Cardinality({k}) = 1
    BY FS_Singleton
  <2> QED BY <2>1, <2>2, <2>3
<1> QED BY <1>1, <1>2

LEMMA TurnIsOne == TypeInv /\ TurnInv => OneTurnAtATime
<1> SUFFICES ASSUME TypeInv, TurnInv, Looping
             PROVE  /\ Carried(stdin, "user") \cup Carried(stdout, "result")
                         \cup ({claude.turn} \ {None})
                       = IF info.state \in Life!TurnStates THEN {info.current_task} ELSE {}
                    /\ Cardinality(In(stdin, "user")) + Cardinality(In(stdout, "result"))
                         + (IF claude.turn = None THEN 0 ELSE 1) <= 1
  BY DEF OneTurnAtATime
<1>1. CASE info.state \in Life!TurnStates
  <2>1. PICK c : c = info.current_task /\ c \in Calls /\ UnderWay(c)
    BY <1>1 DEF TurnInv
  <2>2. c # None
    BY <2>1 DEF Calls, None
  <2> QED BY <1>1, <2>1, <2>2, Counted DEF UnderWay
<1>2. CASE info.state \notin Life!TurnStates
  BY <1>2, Counted DEF TurnInv, NoTurn
<1> QED BY <1>1, <1>2

\* A session has one turn at a time, from the prompt that run_agent writes to
\* the result that it reads, if Claude answers an interrupt by no result when
\* it has no turn (otherwise it does not: see agent_idle_interrupt).
THEOREM OneTurn ==
    ASSUME IdleInterruptResult = FALSE
    PROVE  Spec => []OneTurnAtATime
<1>1. Spec => [](SessionInv /\ TurnInv)
  BY SessionInvariant, InitTurn, TurnStep, PTL DEF Spec
<1>2. SessionInv /\ TurnInv => OneTurnAtATime
  BY TurnIsOne DEF SessionInv
<1> QED BY <1>1, <1>2, PTL

-------------------------------------------------------------------------------
(***************************************************************************)
(* The requests of Claude.                                                 *)
(***************************************************************************)
\* A request is open within a turn only, and is not open any more when the line
\* that withdraws it has been written.
OpenInTurn == \A q \in Requests : asked[q] = "open" => claude.turn # None
CancelsDone ==
    \A q \in Requests : q \in Carried(stdout, "cancel") => asked[q] \in {"answered", "closed"}
RequestInv == OpenInTurn /\ CancelsDone /\ NoForgottenRequest

\* A result is older than every open request: Claude asks after it.
Behind(pipe, q, i) ==
    \E k \in DOMAIN pipe : k > i /\ pipe[k].kind = "can_use_tool" /\ pipe[k].of = q
ResultsBehind(pipe, q) ==
    \A i \in DOMAIN pipe : pipe[i].kind = "result" => Behind(pipe, q, i)
ResultsFirst ==
    \A q \in Requests : asked[q] = "open" => ResultsBehind(stdout, q)

Told(q) ==
    \/ q \in Carried(stdout, "can_use_tool")
    \/ q \in info.pending
    \/ q \in Carried(stdin, "answer")
    \/ Carried(stdin, "interrupt") # {}

LEMMA ToldIs ==
    NoForgottenRequest <=>
      (Looping /\ claude.alive => \A q \in Requests : asked[q] = "open" => Told(q))
<1>1. (Carried(stdin, "interrupt") # {}) <=> (In(stdin, "interrupt") # {})
  BY DEF Carried
<1> QED BY <1>1 DEF NoForgottenRequest, Told

\* What the lines of a kind carry, when a line is appended or read.
LEMMA CarriedGrows ==
    ASSUME NEW S, NEW p \in Seq(S), NEW m \in S, NEW kind
    PROVE  Carried(Append(p, m), kind)
             = Carried(p, kind) \cup (IF m.kind = kind THEN {m.of} ELSE {})
<1> DEFINE q == Append(p, m)
<1>1. /\ DOMAIN q = DOMAIN p \cup {Len(p) + 1}
      /\ \A i \in DOMAIN p : q[i] = p[i] /\ i # Len(p) + 1
      /\ q[Len(p) + 1] = m
  OBVIOUS
<1> HIDE DEF q
<1>2. ASSUME NEW c
      PROVE  c \in Carried(q, kind) <=>
               c \in Carried(p, kind) \/ (m.kind = kind /\ c = m.of)
  BY <1>1 DEF Carried, In
<1>3. Carried(q, kind) = Carried(p, kind) \cup (IF m.kind = kind THEN {m.of} ELSE {})
  BY <1>2
<1> QED BY <1>3 DEF q

LEMMA CarriedShrinks ==
    ASSUME NEW S, NEW p \in Seq(S), p # <<>>, NEW kind
    PROVE  Carried(p, kind)
             = Carried(Tail(p), kind) \cup (IF Head(p).kind = kind THEN {Head(p).of} ELSE {})
<1> DEFINE q == Tail(p)
<1>1. /\ \A i \in DOMAIN q : i + 1 \in DOMAIN p /\ q[i] = p[i + 1]
      /\ \A k \in DOMAIN p : k # 1 => k - 1 \in DOMAIN q /\ q[k - 1] = p[k]
      /\ 1 \in DOMAIN p /\ Head(p) = p[1]
  OBVIOUS
<1> HIDE DEF q
<1>2. ASSUME NEW c
      PROVE  c \in Carried(p, kind) <=>
               c \in Carried(q, kind) \/ (p[1].kind = kind /\ c = p[1].of)
  <2>1. ASSUME c \in Carried(p, kind)
        PROVE  c \in Carried(q, kind) \/ (p[1].kind = kind /\ c = p[1].of)
    <3>1. PICK k \in DOMAIN p : p[k].kind = kind /\ p[k].of = c
      BY <2>1 DEF Carried, In
    <3>2. CASE k # 1
      <4>1. PICK i \in DOMAIN q : q[i] = p[k]
        BY <1>1, <3>2
      <4> QED BY <3>1, <4>1 DEF Carried, In
    <3> QED BY <3>1, <3>2
  <2>2. ASSUME c \in Carried(q, kind)
        PROVE  c \in Carried(p, kind)
    <3>1. PICK i \in DOMAIN q : q[i].kind = kind /\ q[i].of = c
      BY <2>2 DEF Carried, In
    <3>2. PICK k \in DOMAIN p : p[k] = q[i]
      BY <1>1
    <3> QED BY <3>1, <3>2 DEF Carried, In
  <2>3. ASSUME p[1].kind = kind /\ c = p[1].of
        PROVE  c \in Carried(p, kind)
    BY <1>1, <2>3 DEF Carried, In
  <2> QED BY <2>1, <2>2, <2>3
<1>3. Carried(p, kind) = Carried(q, kind) \cup (IF p[1].kind = kind THEN {p[1].of} ELSE {})
  BY <1>2
<1> QED BY <1>1, <1>3 DEF q

\* The same, of the two pipes.
LEMMA StdinCarries ==
    ASSUME TypeInv, NEW k \in {"initialize", "user", "interrupt", "answer"}, NEW n \in Nat,
           stdin' = Append(stdin, Message(k, n)), NEW kind
    PROVE  /\ Carried(stdin', kind)
                = Carried(stdin, kind) \cup (IF k = kind THEN {n} ELSE {})
           /\ k # kind => Carried(stdin', kind) = Carried(stdin, kind)
<1>1. PICK m : m = Message(k, n)
  OBVIOUS
<1>2. m \in StdinLines /\ m.kind = k /\ m.of = n
  BY <1>1 DEF Message, StdinLines
<1>3. stdin \in Seq(StdinLines) /\ stdin' = Append(stdin, m)
  BY <1>1 DEF TypeInv, StdinOK
<1>4. Carried(stdin', kind)
        = Carried(stdin, kind) \cup (IF k = kind THEN {n} ELSE {})
  BY <1>2, <1>3, CarriedGrows
<1> QED BY <1>4

LEMMA StdoutCarries ==
    ASSUME TypeInv, NEW k \in {"ready", "can_use_tool", "cancel", "result", "bad"},
           NEW n \in Nat, Says(Message(k, n)), NEW kind
    PROVE  /\ Carried(stdout', kind)
                = Carried(stdout, kind) \cup (IF k = kind THEN {n} ELSE {})
           /\ k # kind => Carried(stdout', kind) = Carried(stdout, kind)
<1>1. PICK m : m = Message(k, n)
  OBVIOUS
<1>2. m \in StdoutLines /\ m.kind = k /\ m.of = n
  BY <1>1 DEF Message, StdoutLines
<1>3. stdout \in Seq(StdoutLines) /\ stdout' = Append(stdout, m)
  BY <1>1 DEF TypeInv, StdoutOK, Says
<1>4. Carried(stdout', kind)
        = Carried(stdout, kind) \cup (IF k = kind THEN {n} ELSE {})
  BY <1>2, <1>3, CarriedGrows
<1> QED BY <1>4

LEMMA StdinGives ==
    ASSUME TypeInv, NEW k, ClaudeReads(k), NEW kind
    PROVE  /\ Carried(stdin, kind)
                = Carried(stdin', kind) \cup (IF k = kind THEN {Head(stdin).of} ELSE {})
           /\ k # kind => Carried(stdin, kind) = Carried(stdin', kind)
<1>1. stdin \in Seq(StdinLines) /\ stdin # <<>> /\ stdin' = Tail(stdin)
      /\ Head(stdin).kind = k
  BY DEF TypeInv, StdinOK, ClaudeReads
<1>2. Carried(stdin, kind)
        = Carried(stdin', kind) \cup (IF k = kind THEN {Head(stdin).of} ELSE {})
  BY <1>1, CarriedShrinks
<1> QED BY <1>2

LEMMA StdoutGives ==
    ASSUME TypeInv, NEW k, Output(k), NEW kind
    PROVE  /\ Carried(stdout, kind)
                = Carried(stdout', kind) \cup (IF k = kind THEN {Head(stdout).of} ELSE {})
           /\ k # kind => Carried(stdout, kind) = Carried(stdout', kind)
<1>1. stdout \in Seq(StdoutLines) /\ stdout # <<>> /\ stdout' = Tail(stdout)
      /\ Head(stdout).kind = k
  BY DEF TypeInv, StdoutOK, Output
<1>2. Carried(stdout, kind)
        = Carried(stdout', kind) \cup (IF k = kind THEN {Head(stdout).of} ELSE {})
  BY <1>1, CarriedShrinks
<1> QED BY <1>2

LEMMA NothingCarried == \A kind : Carried(<<>>, kind) = {}
BY DEF Carried, In

LEMMA BehindGrows ==
    ASSUME NEW S, NEW p \in Seq(S), NEW m \in S, NEW q
    PROVE  /\ m.kind # "result" /\ ResultsBehind(p, q) => ResultsBehind(Append(p, m), q)
           /\ m.kind = "can_use_tool" /\ m.of = q => ResultsBehind(Append(p, m), q)
<1> DEFINE r == Append(p, m)
<1>1. /\ DOMAIN r = DOMAIN p \cup {Len(p) + 1}
      /\ \A i \in DOMAIN p : r[i] = p[i] /\ i < Len(p) + 1
      /\ r[Len(p) + 1] = m
  OBVIOUS
<1> HIDE DEF r
<1>2. ASSUME m.kind # "result", ResultsBehind(p, q)
      PROVE  ResultsBehind(r, q)
  BY <1>1, <1>2 DEF ResultsBehind, Behind
<1>3. ASSUME m.kind = "can_use_tool", m.of = q
      PROVE  ResultsBehind(r, q)
  BY <1>1, <1>3 DEF ResultsBehind, Behind
<1> QED BY <1>2, <1>3 DEF r

LEMMA BehindShrinks ==
    ASSUME NEW S, NEW p \in Seq(S), p # <<>>, NEW q, ResultsBehind(p, q)
    PROVE  /\ ResultsBehind(Tail(p), q)
           /\ Head(p).kind = "result" => q \in Carried(Tail(p), "can_use_tool")
<1> DEFINE r == Tail(p)
<1>1. /\ \A i \in DOMAIN r : i + 1 \in DOMAIN p /\ r[i] = p[i + 1] /\ i \in Nat
      /\ \A k \in DOMAIN p : k > 1 => k - 1 \in DOMAIN r /\ r[k - 1] = p[k]
      /\ \A k \in DOMAIN p : k \in Nat
      /\ 1 \in DOMAIN p /\ Head(p) = p[1]
  OBVIOUS
<1> HIDE DEF r
<1>2. ASSUME NEW i \in DOMAIN r, r[i].kind = "result"
      PROVE  Behind(r, q, i)
  <2>1. PICK k \in DOMAIN p : k > i + 1 /\ p[k].kind = "can_use_tool" /\ p[k].of = q
    BY <1>1, <1>2 DEF ResultsBehind, Behind
  <2>2. k - 1 \in DOMAIN r /\ r[k - 1] = p[k] /\ k - 1 > i
    BY <1>1, <2>1
  <2> QED BY <2>1, <2>2 DEF Behind
<1>3. ASSUME p[1].kind = "result"
      PROVE  q \in Carried(r, "can_use_tool")
  <2>1. PICK k \in DOMAIN p : k > 1 /\ p[k].kind = "can_use_tool" /\ p[k].of = q
    BY <1>1, <1>3 DEF ResultsBehind, Behind
  <2>2. k - 1 \in DOMAIN r /\ r[k - 1] = p[k]
    BY <1>1, <2>1
  <2> QED BY <2>1, <2>2 DEF Carried, In
<1> QED BY <1>1, <1>2, <1>3 DEF r, ResultsBehind

\* No step says a result while a request is open.
LEMMA ResultsFirstStep ==
    ASSUME SessionInv, ResultsFirst, [Next]_vars
    PROVE  ResultsFirst'
<1>0. TypeInv
  BY DEF SessionInv
<1>1. CASE UNCHANGED <<stdout, asked>>
  BY <1>1 DEF ResultsFirst
<1>2. ASSUME NEW k, Output(k) PROVE ResultsFirst'
  <2>1. asked' = asked /\ stdout # <<>> /\ stdout' = Tail(stdout) /\ stdout \in Seq(StdoutLines)
    BY <1>0, <1>2 DEF Output, TypeInv, StdoutOK
  <2>2. ASSUME NEW q \in Requests, asked[q] = "open"
        PROVE  ResultsBehind(Tail(stdout), q)
    BY <2>1, <2>2, BehindShrinks DEF ResultsFirst
  <2> QED BY <2>1, <2>2 DEF ResultsFirst
<1>3. CASE stdout' = <<>>
  BY <1>3 DEF ResultsFirst, ResultsBehind
<1>4. CASE CloseAll
  BY <1>4 DEF CloseAll, ResultsFirst
<1>5. ASSUME NEW k \in {"ready", "can_use_tool", "cancel", "bad"}, NEW n \in Nat,
             Says(Message(k, n)),
             \A q \in Requests : asked'[q] = "open" =>
                asked[q] = "open" \/ (k = "can_use_tool" /\ n = q)
      PROVE  ResultsFirst'
  <2>1. PICK m : m = Message(k, n)
    OBVIOUS
  <2>2. m \in StdoutLines /\ m.kind = k /\ m.of = n
    BY <2>1 DEF Message, StdoutLines
  <2>3. stdout \in Seq(StdoutLines) /\ stdout' = Append(stdout, m)
    BY <1>0, <1>5, <2>1 DEF TypeInv, StdoutOK, Says
  <2>4. ASSUME NEW q \in Requests, asked'[q] = "open"
        PROVE  ResultsBehind(Append(stdout, m), q)
    BY <1>5, <2>2, <2>3, <2>4, BehindGrows DEF ResultsFirst
  <2> QED BY <2>3, <2>4 DEF ResultsFirst
<1>6. CASE TaskStep \/ Lifecycle
  <2>1. CASE Stale \/ Send \/ Interrupt \/ Permission \/ Stop
    BY <1>1, <2>1
       DEF Stale, Send, Interrupt, Permission, Stop, Refuse, Command, WriteAndReply
  <2>2. CASE Ready \/ CanUseTool \/ CancelRequest \/ Result \/ BadLine
    BY <1>2, <2>2 DEF Ready, CanUseTool, CancelRequest, Result, BadLine
  <2>3. CASE NoticeExit \/ HandshakeTimeout \/ Unreachable
    BY <1>1, <2>3 DEF NoticeExit, HandshakeTimeout, Unreachable, Leave
  <2>4. CASE Finish
    BY <1>3, <2>4 DEF Finish
  <2>5. CASE Release \/ Raise \/ Insert \/ DropHandler
    BY <1>1, <2>5 DEF Release, Raise, Insert, DropHandler
  <2>6. CASE Spawn
    BY <1>4, <2>6 DEF Spawn
  <2> QED BY <1>6, <2>1, <2>2, <2>3, <2>4, <2>5, <2>6 DEF TaskStep, Lifecycle
<1>7. CASE ClaudeStep \/ ClaudeActs
  <2>1. CASE ReadInitialize
    BY <1>5, <2>1, Numbers DEF ReadInitialize
  <2>2. CASE ReadPrompt
    BY <1>1, <2>2 DEF ReadPrompt
  <2>3. CASE ReadInterrupt
    BY <1>4, <2>3 DEF ReadInterrupt
  <2>4. CASE ReadAnswer
    <3>1. stdout' = stdout /\ asked' = [asked EXCEPT ![Head(stdin).of] = "answered"]
      BY <2>4 DEF ReadAnswer
    <3>2. \A q \in Requests : asked'[q] = "open" => asked[q] = "open"
      BY <1>0, <3>1 DEF TypeInv, AskedOK
    <3> QED BY <3>1, <3>2 DEF ResultsFirst
  <2>5. CASE EndsTurn
    BY <2>5 DEF EndsTurn, ResultsFirst
  <2>6. ASSUME NEW r \in Requests, Asks(r) PROVE ResultsFirst'
    <3>1. Says(Message("can_use_tool", r)) /\ asked' = [asked EXCEPT ![r] = "open"] /\ r \in Nat
      BY <2>6, Numbers DEF Asks
    <3>2. \A q \in Requests : asked'[q] = "open" => asked[q] = "open" \/ r = q
      BY <1>0, <3>1 DEF TypeInv, AskedOK
    <3> QED BY <1>5, <3>1, <3>2
  <2>7. ASSUME NEW r \in Requests, Withdraws(r) PROVE ResultsFirst'
    <3>1. Says(Message("cancel", r)) /\ asked' = [asked EXCEPT ![r] = "closed"] /\ r \in Nat
      BY <2>7, Numbers DEF Withdraws
    <3>2. \A q \in Requests : asked'[q] = "open" => asked[q] = "open"
      BY <1>0, <3>1 DEF TypeInv, AskedOK
    <3> QED BY <1>5, <3>1, <3>2
  <2>8. CASE Exits
    BY <1>1, <2>8 DEF Exits
  <2>9. CASE WritesBadLine
    BY <1>5, <2>9, Numbers DEF WritesBadLine
  <2> QED BY <1>7, <2>1, <2>2, <2>3, <2>4, <2>5, <2>6, <2>7, <2>8, <2>9
             DEF ClaudeStep, ClaudeActs
<1>8. CASE Quiescent \/ UNCHANGED vars \/ \E c \in Calls : Request(c) \/ RequestTimeout(c)
  BY <1>1, <1>8 DEF Quiescent, vars, Request, RequestTimeout
<1> QED BY <1>6, <1>7, <1>8 DEF Next

-----------------------------------------------------------------------------
\* Steps after which every request is told of as before.
LEMMA RequestsKept ==
    ASSUME RequestInv, Looping' /\ claude'.alive => Looping /\ claude.alive,
           UNCHANGED asked, claude'.turn = claude.turn,
           Carried(stdout', "cancel") \subseteq Carried(stdout, "cancel"),
           \A q \in Requests : asked[q] = "open" /\ Looping /\ Told(q) => Told(q)'
    PROVE  RequestInv'
<1>1. NoForgottenRequest' <=>
        (Looping' /\ claude'.alive => \A q \in Requests : asked'[q] = "open" => Told(q)')
  <2>1. (NoForgottenRequest <=>
          (Looping /\ claude.alive => \A q \in Requests : asked[q] = "open" => Told(q)))'
    BY ToldIs, PTL
  <2> QED BY <2>1
<1> QED BY <1>1, ToldIs DEF RequestInv, OpenInTurn, CancelsDone

\* Nobody has to be told of a request when the loop has been left.
LEMMA RequestsLeft ==
    ASSUME RequestInv, task'.run # "loop", UNCHANGED asked, claude'.turn = claude.turn,
           Carried(stdout', "cancel") \subseteq Carried(stdout, "cancel")
    PROVE  RequestInv'
BY DEF RequestInv, OpenInTurn, CancelsDone, NoForgottenRequest, Looping

LEMMA RequestsUnseen ==
    ASSUME RequestInv, UNCHANGED <<info, stdin, stdout, claude, asked>>,
           task'.run = "loop" => task.run = "loop"
    PROVE  RequestInv'
BY DEF RequestInv, OpenInTurn, CancelsDone, NoForgottenRequest, Looping, Carried, In

\* A line is written, or the loop is left: of the pending requests those that
\* the line is about may go.
LEMMA RequestsWrite ==
    ASSUME TypeInv, RequestInv, NEW k \in {"user", "interrupt", "answer"}, NEW n \in Nat,
           Write(Message(k, n)), UNCHANGED <<claude, asked>>, Looping,
           k # "interrupt" =>
             info.pending \cup Carried(stdout, "can_use_tool")
               \subseteq info'.pending \cup Carried(stdout', "can_use_tool")
                           \cup (IF k = "answer" THEN {n} ELSE {}),
           Carried(stdout', "cancel") \subseteq Carried(stdout, "cancel")
    PROVE  RequestInv'
<1>1. CASE stdin' = Append(stdin, Message(k, n)) /\ UNCHANGED <<task, budget>>
  <2>1. \A kind : Carried(stdin', kind)
                    = Carried(stdin, kind) \cup (IF k = kind THEN {n} ELSE {})
    BY <1>1, StdinCarries
  <2>2. ASSUME NEW q \in Requests, Told(q) PROVE Told(q)'
    BY <2>1, <2>2 DEF Told
  <2> QED BY <1>1, <2>2, RequestsKept
<1>2. CASE Leave("failing")
  <2>1. task'.run # "loop"
    BY <1>2 DEF Leave, TypeInv, TaskOK
  <2> QED BY <2>1, RequestsLeft
<1> QED BY <1>1, <1>2 DEF Write

LEMMA RequestsCommands ==
    ASSUME SessionInv, RequestInv, Stale \/ Send \/ Interrupt \/ Permission
    PROVE  RequestInv'
<1>0. TypeInv
  BY DEF SessionInv
<1>1. CASE Stale \/ Refuse
  BY <1>1, RequestsUnseen DEF Stale, Refuse
<1>2. CASE Send /\ ~Refuse
  <2>1. /\ Looping /\ Head(control) \in Calls
        /\ info' = [info EXCEPT !.state = "busy", !.current_task = Head(control)]
        /\ Write(Message("user", Head(control))) /\ UNCHANGED <<stdout, claude, asked>>
    BY <1>0, <1>2, CommandTypes DEF Send, Command, WriteAndReply, TypeInv
  <2>2. info'.pending = info.pending /\ Head(control) \in Nat
    BY <1>0, <2>1, Numbers DEF TypeInv, InfoOK
  <2> QED BY <1>0, <2>1, <2>2, RequestsWrite
<1>3. CASE Interrupt /\ ~Refuse
  <2>1. /\ Looping
        /\ Write(Message("interrupt", info.current_task)) /\ UNCHANGED <<stdout, claude, asked>>
    BY <1>3 DEF Interrupt, Command, WriteAndReply
  <2>2. info.current_task \in Nat
    BY <1>0, Numbers DEF TypeInv, InfoOK
  <2> QED BY <1>0, <2>1, <2>2, RequestsWrite
<1>4. CASE Permission /\ ~Refuse
  <2> DEFINE q == calls[Head(control)].of
             left == info.pending \ {q}
  <2>1. /\ Looping /\ q \in info.pending
        /\ info' = [info EXCEPT !.pending = left,
                                !.state = IF left = {} THEN "busy" ELSE @]
        /\ Write(Message("answer", q)) /\ UNCHANGED <<stdout, claude, asked>>
    BY <1>4 DEF Permission, Command, WriteAndReply
  <2>2. q \in Nat
    BY <1>0, <2>1, Numbers DEF TypeInv, InfoOK
  <2> HIDE DEF left
  <2>3. info'.pending = left
    BY <1>0, <2>1 DEF TypeInv, InfoOK
  <2>4. info.pending \subseteq info'.pending \cup {q}
    BY <2>3 DEF left
  <2> HIDE DEF q
  <2> QED BY <1>0, <2>1, <2>2, <2>4, RequestsWrite
<1> QED BY <1>1, <1>2, <1>3, <1>4 DEF Send, Interrupt, Permission

LEMMA RequestsOutputs ==
    ASSUME SessionInv, ResultsFirst, RequestInv, Ready \/ CanUseTool \/ CancelRequest \/ Result
    PROVE  RequestInv'
<1>0. TypeInv
  BY DEF SessionInv
<1>1. ASSUME NEW k, Output(k)
      PROVE  /\ Looping /\ UNCHANGED <<claude, asked>>
             /\ \A kind : Carried(stdout, kind)
                    = Carried(stdout', kind) \cup (IF k = kind THEN {Head(stdout).of} ELSE {})
  BY <1>0, <1>1, StdoutGives DEF Output
<1>2. CASE Ready
  <2>1. Output("ready") /\ stdin' = stdin /\ info'.pending = info.pending
    BY <1>0, <1>2 DEF Ready, TypeInv, InfoOK
  <2>2. ASSUME NEW q \in Requests, Told(q) PROVE Told(q)'
    BY <1>1, <2>1, <2>2 DEF Told
  <2> QED BY <1>1, <2>1, <2>2, RequestsKept
<1>3. CASE Result
  <2>1. /\ Output("result") /\ Looping
        /\ stdin' = stdin
    BY <1>1, <1>3 DEF Result
  <2>2. /\ stdout \in Seq(StdoutLines) /\ stdout # <<>> /\ stdout' = Tail(stdout)
        /\ Head(stdout).kind = "result"
    BY <1>0, <2>1 DEF Output, TypeInv, StdoutOK
  <2>3. ASSUME NEW q \in Requests, asked[q] = "open" PROVE Told(q)'
    <3>1. q \in Carried(Tail(stdout), "can_use_tool")
      BY <2>2, <2>3, BehindShrinks DEF ResultsFirst
    <3> QED BY <2>2, <3>1 DEF Told
  <2> QED BY <1>1, <2>1, <2>3, RequestsKept
<1>4. CASE CancelRequest
  <2>1. /\ Output("cancel") /\ UNCHANGED <<stdin, task>>
        /\ info'.pending = info.pending \ {Head(stdout).of}
    BY <1>0, <1>4 DEF CancelRequest, TypeInv, InfoOK
  <2>2. Head(stdout).of \in Carried(stdout, "cancel")
    BY <1>1, <2>1
  <2>3. ASSUME NEW q \in Requests, asked[q] = "open", Told(q) PROVE Told(q)'
    <3>1. q # Head(stdout).of
      BY <2>2, <2>3 DEF RequestInv, CancelsDone
    <3> QED BY <1>1, <2>1, <2>3, <3>1 DEF Told
  <2> QED BY <1>1, <2>1, <2>3, RequestsKept
<1>5. CASE CanUseTool
  <2>1. Output("can_use_tool") /\ Looping
    BY <1>1, <1>5 DEF CanUseTool
  <2>2. CASE /\ info' = [info EXCEPT !.pending = @ \cup {Head(stdout).of},
                                     !.state = "awaiting_permission"]
             /\ UNCHANGED <<task, stdin, budget>>
    <3>1. info'.pending = info.pending \cup {Head(stdout).of}
      BY <1>0, <2>2 DEF TypeInv, InfoOK
    <3>2. ASSUME NEW q \in Requests, Told(q) PROVE Told(q)'
      BY <1>1, <2>1, <2>2, <3>1, <3>2 DEF Told
    <3> QED BY <1>1, <2>1, <3>2, RequestsKept
  <2>3. CASE Write(Message("answer", Head(stdout).of)) /\ UNCHANGED info
    <3>1. PICK q : q = Head(stdout).of
      OBVIOUS
    <3>2. q \in Nat
      BY <1>0, <2>1, <3>1, StdoutShrinks DEF Output, TypeInv, StdoutLines
    <3>3. info.pending \cup Carried(stdout, "can_use_tool")
            \subseteq info'.pending \cup Carried(stdout', "can_use_tool") \cup {q}
      BY <1>1, <2>1, <2>3, <3>1
    <3> QED BY <1>0, <1>1, <2>1, <2>3, <3>1, <3>2, <3>3, RequestsWrite
  <2> QED BY <1>5, <2>2, <2>3 DEF CanUseTool
<1> QED BY <1>2, <1>3, <1>4, <1>5

\* Requests are closed, and so nobody has to be told.
LEMMA RequestsClosed ==
    ASSUME SessionInv, RequestInv, CloseAll,
           Carried(stdout', "cancel") \subseteq Carried(stdout, "cancel")
    PROVE  RequestInv'
<1>1. \A q \in Requests : asked'[q] # "open" /\ (asked[q] \in {"answered", "closed"} =>
                                                  asked'[q] \in {"answered", "closed"})
  BY DEF CloseAll
<1> QED BY <1>1 DEF RequestInv, OpenInTurn, CancelsDone, NoForgottenRequest

LEMMA RequestsEnds ==
    ASSUME SessionInv, RequestInv,
           \/ NoticeExit \/ HandshakeTimeout \/ Unreachable \/ Stop \/ BadLine \/ Finish
           \/ Lifecycle
    PROVE  RequestInv'
<1>0. TypeInv
  BY DEF SessionInv
<1>1. CASE NoticeExit \/ HandshakeTimeout \/ Unreachable \/ Stop
  <2>1. task'.run # "loop" /\ UNCHANGED <<asked, claude, stdout>>
    BY <1>0, <1>1 DEF TypeInv, TaskOK, NoticeExit, HandshakeTimeout, Unreachable, Stop, Leave, Command
  <2> QED BY <2>1, RequestsLeft
<1>2. CASE BadLine
  <2>1. task'.run # "loop" /\ UNCHANGED <<asked, claude>> /\ Output("bad")
    BY <1>0, <1>2 DEF TypeInv, TaskOK, BadLine, Leave, Output
  <2>2. Carried(stdout', "cancel") \subseteq Carried(stdout, "cancel")
    BY <1>0, <2>1, StdoutGives
  <2> QED BY <2>1, <2>2, RequestsLeft
<1>3. CASE Finish
  <2>1. /\ task'.run # "loop" /\ asked' = asked /\ claude'.turn = claude.turn
        /\ stdout' = <<>>
    BY <1>0, <1>3 DEF TypeInv, TaskOK, ClaudeOK, Finish
  <2> QED BY <2>1, NothingCarried, RequestsLeft
<1>4. CASE Release
  BY <1>4, RequestsLeft DEF Release
<1>5. CASE Raise
  BY <1>0, <1>5, RequestsLeft DEF Raise, TypeInv, TaskOK
<1>6. CASE Spawn
  BY <1>6, RequestsClosed DEF Spawn
<1>7. CASE Insert \/ DropHandler
  BY <1>0, <1>7, HandlerMoves, RequestsUnseen
<1> QED BY <1>1, <1>2, <1>3, <1>4, <1>5, <1>6, <1>7 DEF Lifecycle

LEMMA RequestsClaude ==
    ASSUME SessionInv, RequestInv, ClaudeStep \/ ClaudeActs
    PROVE  RequestInv'
<1>1. UNCHANGED <<info, task>> /\ claude.alive /\ TypeInv /\ (Looping' => Looping)
      /\ claude.turn \in Nat
  BY Numbers
     DEF ClaudeStep, ClaudeActs, ReadInitialize, ReadPrompt, ReadInterrupt, ReadAnswer,
         ClaudeReads, EndsTurn, Asks, Withdraws, Exits, WritesBadLine, SessionInv, TypeInv,
         ClaudeOK, Looping
<1>2. CASE ReadInitialize
  <2>1. ClaudeReads("initialize") /\ Says(Message("ready", None)) /\ UNCHANGED <<claude, asked>>
    BY <1>2 DEF ReadInitialize
  <2>2. /\ \A kind : kind # "initialize" => Carried(stdin', kind) = Carried(stdin, kind)
        /\ \A kind : kind # "ready" => Carried(stdout', kind) = Carried(stdout, kind)
    BY <1>1, <2>1, StdinGives, StdoutCarries, Numbers
  <2>3. ASSUME NEW q \in Requests, Told(q) PROVE Told(q)'
    BY <1>1, <2>2, <2>3 DEF Told
  <2> QED BY <1>1, <2>1, <2>2, <2>3, RequestsKept
<1>3. CASE ReadPrompt
  <2>1. /\ claude.turn = None /\ UNCHANGED <<stdout, asked>>
    BY <1>3 DEF ReadPrompt
  <2>2. \A q \in Requests : asked[q] # "open"
    BY <2>1 DEF RequestInv, OpenInTurn
  <2> QED BY <2>1, <2>2 DEF RequestInv, OpenInTurn, CancelsDone, NoForgottenRequest
<1>4. CASE ReadInterrupt
  <2>1. stdout' = stdout \/ Says(Message("result", claude.turn))
    BY <1>4 DEF ReadInterrupt
  <2>2. Carried(stdout', "cancel") = Carried(stdout, "cancel")
    BY <1>1, <2>1, StdoutCarries
  <2> QED BY <1>4, <2>2, RequestsClosed DEF ReadInterrupt
<1>5. CASE ReadAnswer
  <2>1. /\ ClaudeReads("answer") /\ UNCHANGED <<stdout, claude>>
        /\ asked' = [asked EXCEPT ![Head(stdin).of] = "answered"]
    BY <1>5 DEF ReadAnswer
  <2>2. \A kind : Carried(stdin, kind)
                    = Carried(stdin', kind) \cup (IF kind = "answer" THEN {Head(stdin).of} ELSE {})
    BY <1>1, <2>1, StdinGives
  <2>3. ASSUME NEW q \in Requests
        PROVE  \/ asked'[q] = "answered"
               \/ asked'[q] = asked[q] /\ q # Head(stdin).of
    BY <1>1, <2>1 DEF TypeInv, AskedOK
  <2>4. OpenInTurn' /\ CancelsDone'
    BY <2>1, <2>3 DEF RequestInv, OpenInTurn, CancelsDone
  <2>5. ASSUME Looping, NEW q \in Requests, asked'[q] = "open"
        PROVE  \/ q \in Carried(stdout', "can_use_tool")
               \/ q \in info'.pending
               \/ q \in Carried(stdin', "answer")
               \/ In(stdin', "interrupt") # {}
    <3>1. asked[q] = "open" /\ q # Head(stdin).of
      BY <2>3, <2>5
    <3>2. Told(q)
      BY <1>1, <2>5, <3>1, ToldIs DEF RequestInv
    <3> QED BY <1>1, <2>1, <2>2, <3>1, <3>2 DEF Told, Carried
  <2> QED BY <1>1, <2>4, <2>5 DEF RequestInv, NoForgottenRequest
<1>6. CASE EndsTurn
  <2>1. /\ \A q \in Requests : asked[q] # "open"
        /\ asked' = asked /\ Says(Message("result", claude.turn))
    BY <1>6 DEF EndsTurn
  <2>2. Carried(stdout', "cancel") = Carried(stdout, "cancel")
    BY <1>1, <2>1, StdoutCarries
  <2> QED BY <2>1, <2>2 DEF RequestInv, OpenInTurn, CancelsDone, NoForgottenRequest
<1>7. ASSUME NEW r \in Requests, Asks(r) PROVE RequestInv'
  <2>1. /\ asked[r] = "new" /\ asked' = [asked EXCEPT ![r] = "open"]
        /\ Says(Message("can_use_tool", r)) /\ UNCHANGED <<claude, stdin>>
        /\ claude.turn # None /\ r \in Nat
    BY <1>7, Numbers DEF Asks
  <2>2. \A kind : Carried(stdout', kind)
                    = Carried(stdout, kind) \cup (IF kind = "can_use_tool" THEN {r} ELSE {})
    BY <1>1, <2>1, StdoutCarries
  <2>3. ASSUME NEW q \in Requests
        PROVE  (q = r /\ asked'[q] = "open") \/ (q # r /\ asked'[q] = asked[q])
    BY <1>1, <2>1 DEF TypeInv, AskedOK
  <2>4. OpenInTurn' /\ CancelsDone'
    BY <2>1, <2>2, <2>3 DEF RequestInv, OpenInTurn, CancelsDone
  <2>5. NoForgottenRequest'
    BY <1>1, <2>1, <2>2, <2>3 DEF RequestInv, NoForgottenRequest
  <2> QED BY <2>4, <2>5 DEF RequestInv
<1>8. ASSUME NEW r \in Requests, Withdraws(r) PROVE RequestInv'
  <2>1. /\ asked' = [asked EXCEPT ![r] = "closed"]
        /\ Says(Message("cancel", r)) /\ UNCHANGED <<claude, stdin>> /\ r \in Nat
    BY <1>8, Numbers DEF Withdraws
  <2>2. \A kind : Carried(stdout', kind)
                    = Carried(stdout, kind) \cup (IF kind = "cancel" THEN {r} ELSE {})
    BY <1>1, <2>1, StdoutCarries
  <2>3. ASSUME NEW q \in Requests
        PROVE  (q = r /\ asked'[q] = "closed") \/ (q # r /\ asked'[q] = asked[q])
    BY <1>1, <2>1 DEF TypeInv, AskedOK
  <2>4. OpenInTurn' /\ CancelsDone'
    BY <2>1, <2>2, <2>3 DEF RequestInv, OpenInTurn, CancelsDone
  <2>5. NoForgottenRequest'
    BY <1>1, <2>1, <2>2, <2>3 DEF RequestInv, NoForgottenRequest
  <2> QED BY <2>4, <2>5 DEF RequestInv
<1>9. CASE Exits
  <2>1. claude'.turn = claude.turn /\ UNCHANGED <<stdin, stdout, asked>>
    BY <1>1, <1>9 DEF Exits, TypeInv, ClaudeOK
  <2>2. ~claude'.alive
    BY <1>1, <1>9 DEF Exits, TypeInv, ClaudeOK
  <2> QED BY <2>1, <2>2 DEF RequestInv, OpenInTurn, CancelsDone, NoForgottenRequest
<1>10. CASE WritesBadLine
  <2>1. Says(Message("bad", None)) /\ UNCHANGED <<stdin, claude, asked>>
    BY <1>10 DEF WritesBadLine
  <2>2. \A kind : kind # "bad" => Carried(stdout', kind) = Carried(stdout, kind)
    BY <1>1, <2>1, StdoutCarries, Numbers
  <2>3. ASSUME NEW q \in Requests, Told(q) PROVE Told(q)'
    BY <1>1, <2>1, <2>2, <2>3 DEF Told
  <2> QED BY <1>1, <2>1, <2>2, <2>3, RequestsKept
<1> QED BY <1>2, <1>3, <1>4, <1>5, <1>6, <1>7, <1>8, <1>9, <1>10 DEF ClaudeStep, ClaudeActs

LEMMA RequestStep == SessionInv /\ ResultsFirst /\ RequestInv /\ [Next]_vars => RequestInv'
<1> SUFFICES ASSUME SessionInv, ResultsFirst, RequestInv, [Next]_vars
             PROVE  RequestInv'
  OBVIOUS
<1>1. CASE TaskStep \/ Lifecycle
  BY <1>1, RequestsCommands, RequestsOutputs, RequestsEnds DEF TaskStep
<1>2. CASE ClaudeStep \/ ClaudeActs
  BY <1>2, RequestsClaude
<1>3. CASE Quiescent \/ UNCHANGED vars \/ \E c \in Calls : Request(c) \/ RequestTimeout(c)
  BY <1>3, RequestsUnseen DEF Quiescent, vars, Request, RequestTimeout
<1> QED BY <1>1, <1>2, <1>3 DEF Next

\* A request that blocks Claude is shown to the users or answered, through
\* can_use_tool, answers, withdrawals, interrupts and failed writes of
\* run_agent: also when the result of an idle interrupt ends a later turn early,
\* since Claude asks after it.
THEOREM NoRequestForgotten == Spec => []NoForgottenRequest
<1>1. Init => ResultsFirst /\ RequestInv
  BY NothingCarried
     DEF Init, ResultsFirst, RequestInv, OpenInTurn, CancelsDone, NoForgottenRequest
<1>2. SessionInv /\ ResultsFirst /\ [Next]_vars => ResultsFirst'
  BY ResultsFirstStep
<1>3. Spec => [](SessionInv /\ ResultsFirst /\ RequestInv)
  BY <1>1, <1>2, SessionInvariant, RequestStep, PTL DEF Spec
<1>4. RequestInv => NoForgottenRequest
  BY DEF RequestInv
<1> QED BY <1>3, <1>4, PTL

-------------------------------------------------------------------------------
(***************************************************************************)
(* The calls.                                                              *)
(***************************************************************************)
\* The process is the one the record tells of, as long as the task has one.
SameProcess == task.run \notin {"over", "raised"} => claude.generation = info.generation

\* Each call is in the control channel once, and is not answered by the task.
Queued ==
    /\ \A i \in DOMAIN control : calls[control[i]].answer \in {"waiting", "timeout"}
    /\ \A i, k \in DOMAIN control : control[i] = control[k] => i = k

Prompts == Carried(stdin, "user") \cup ({claude.turn} \ {None})

PromptInv == SameProcess /\ Queued /\ PromptsWereAccepted

LEMMA PromptsAre ==
    ASSUME TypeInv
    PROVE  /\ Prompts \subseteq Calls
           /\ PromptsWereAccepted <=>
                (claude.alive => \A c \in Prompts :
                                    /\ calls[c].generation = claude.generation
                                    /\ calls[c].answer \in {"ok", "timeout"})
<1>1. Prompts \subseteq Calls
  BY DEF TypeInv, StdinOK, ClaudeOK, Prompts, Carried, In
<1> QED BY <1>1 DEF PromptsWereAccepted, Prompts

\* Calls that were accepted stay so, and no prompt is added.
LEMMA PromptsStay ==
    ASSUME TypeInv, PromptsWereAccepted, claude'.alive => claude.alive,
           claude'.generation = claude.generation,
           Carried(stdin', "user") \cup ({claude'.turn} \ {None}) \subseteq Prompts,
           \A c \in Calls : calls[c].answer \in {"ok", "timeout"} =>
              /\ calls'[c].answer \in {"ok", "timeout"}
              /\ calls'[c].generation = calls[c].generation
    PROVE  PromptsWereAccepted'
BY PromptsAre DEF PromptsWereAccepted

\* An answer to c is only seen at c, if c still waits.
LEMMA AnswerGiven ==
    ASSUME CallsOK, NEW c \in Calls, NEW a, Answer(c, a), NEW d \in Calls
    PROVE  /\ calls'[d].generation = calls[d].generation
           /\ calls'[d].answer = IF d = c /\ calls[d].answer = "waiting"
                                 THEN a ELSE calls[d].answer
BY DEF Answer, CallsOK, Call

\* The head of the channel is taken, and answered or not.
LEMMA QueuedTaken ==
    ASSUME ControlOK, Queued, control # <<>>, control' = Tail(control),
           \A c \in Calls : c # Head(control) => calls'[c].answer = calls[c].answer
    PROVE  Queued'
<1>1. /\ \A i \in DOMAIN control' : /\ i + 1 \in DOMAIN control
                                    /\ control'[i] = control[i + 1] /\ i + 1 # 1
                                    /\ i \in Int
      /\ 1 \in DOMAIN control /\ Head(control) = control[1]
      /\ \A i \in DOMAIN control : control[i] \in Calls
  BY DEF ControlOK
<1>2. ASSUME NEW i \in DOMAIN control'
      PROVE  calls'[control'[i]].answer \in {"waiting", "timeout"}
  <2>1. control[i + 1] # Head(control)
    BY <1>1 DEF Queued
  <2> QED BY <1>1, <2>1 DEF Queued
<1>3. ASSUME NEW i \in DOMAIN control', NEW k \in DOMAIN control', control'[i] = control'[k]
      PROVE  i = k
  <2>1. i + 1 = k + 1
    BY <1>1, <1>3 DEF Queued
  <2> QED BY <1>1, <2>1
<1> QED BY <1>2, <1>3 DEF Queued

LEMMA QueuedUsers ==
    ASSUME TypeInv, PromptInv, NEW c \in Calls, Request(c) \/ RequestTimeout(c)
    PROVE  PromptInv'
<1> USE DEF TypeInv
<1>1. UNCHANGED <<info, task, stdin, claude>>
  BY DEF Request, RequestTimeout
<1>2. CASE Request(c)
  <2>1. /\ \A d \in Calls : d # c => calls'[d] = calls[d]
        /\ calls[c].answer = "unsent"
        /\ \/ control' = control
           \/ calls'[c].answer = "waiting" /\ control' = Append(control, c)
    <3>1. calls[c].answer = "unsent"
      BY <1>2 DEF Request
    <3>2. PICK r : /\ calls' = [calls EXCEPT ![c] = r]
                  /\ \/ control' = control
                     \/ r.answer = "waiting" /\ control' = Append(control, c)
      <4>1. PICK a \in Actions, g \in 1 .. info.generation :
              LET accepted == /\ task.run \notin {"over", "raised"}
                              /\ task.handle = "registry"
                              /\ Len(control) < ControlLimit
              IN  /\ calls' = [calls EXCEPT ![c] =
                                  [kind |-> a.kind, of |-> a.of, generation |-> g,
                                   answer |-> IF accepted THEN "waiting" ELSE "gone"]]
                  /\ control' = IF accepted THEN Append(control, c) ELSE control
        BY <1>2 DEF Request
      <4> DEFINE accepted == /\ task.run \notin {"over", "raised"}
                             /\ task.handle = "registry"
                             /\ Len(control) < ControlLimit
                 r == [kind |-> a.kind, of |-> a.of, generation |-> g,
                       answer |-> IF accepted THEN "waiting" ELSE "gone"]
      <4>2. /\ calls' = [calls EXCEPT ![c] = r]
            /\ control' = IF accepted THEN Append(control, c) ELSE control
        BY <4>1
      <4>3. accepted => r.answer = "waiting"
        OBVIOUS
      <4> HIDE DEF accepted, r
      <4> QED BY <4>2, <4>3
    <3> QED BY <3>1, <3>2 DEF CallsOK
  <2>2. \A i \in DOMAIN control : control[i] # c /\ control[i] \in Calls
    BY <2>1 DEF PromptInv, Queued, ControlOK
  <2>3. ASSUME control' = control PROVE Queued'
    BY <2>1, <2>2, <2>3 DEF PromptInv, Queued
  <2>4. ASSUME calls'[c].answer = "waiting", control' = Append(control, c)
        PROVE  Queued'
    <3>1. /\ DOMAIN control' = DOMAIN control \cup {Len(control) + 1}
          /\ \A i \in DOMAIN control : control'[i] = control[i] /\ i # Len(control) + 1
          /\ control'[Len(control) + 1] = c
      BY <2>4 DEF ControlOK
    <3> QED BY <2>1, <2>2, <2>4, <3>1 DEF PromptInv, Queued
  <2>5. Queued'
    BY <2>1, <2>2, <2>3, <2>4 DEF PromptInv
  <2>6. PromptsWereAccepted'
    BY <1>1, <2>1, PromptsStay DEF PromptInv, Prompts
  <2> QED BY <1>1, <2>5, <2>6 DEF PromptInv, SameProcess
<1>3. CASE RequestTimeout(c)
  <2>1. calls[c].answer = "waiting" /\ Answer(c, "timeout") /\ control' = control
    BY <1>3 DEF RequestTimeout
  <2>2. \A d \in Calls : /\ calls'[d].generation = calls[d].generation
                         /\ calls'[d].answer = IF d = c THEN "timeout" ELSE calls[d].answer
    BY <2>1, AnswerGiven
  <2>3. Queued'
    BY <2>1, <2>2 DEF PromptInv, Queued, ControlOK
  <2>4. PromptsWereAccepted'
    BY <1>1, <2>2, PromptsStay DEF PromptInv, Prompts
  <2> QED BY <1>1, <2>3, <2>4 DEF PromptInv, SameProcess
<1> QED BY <1>2, <1>3

\* Of a task that takes no call, and of Claude.
LEMMA PromptsUnseen ==
    ASSUME TypeInv, PromptInv, UNCHANGED <<control, calls>>,
           claude'.alive => claude.alive, claude'.generation = claude.generation,
           info'.generation = info.generation,
           task'.run \notin {"over", "raised"} => task.run \notin {"over", "raised"},
           Carried(stdin', "user") \cup ({claude'.turn} \ {None}) \subseteq Prompts
    PROVE  PromptInv'
<1>1. PromptsWereAccepted'
  BY PromptsStay DEF PromptInv
<1> QED BY <1>1 DEF PromptInv, SameProcess, Queued

LEMMA PromptsCommands ==
    ASSUME TypeInv, PromptInv, Stale \/ Stop \/ Send \/ Interrupt \/ Permission
    PROVE  PromptInv'
<1> USE DEF TypeInv
<1>1. /\ Looping /\ control # <<>> /\ control' = Tail(control) /\ claude' = claude
      /\ Head(control) \in Calls
  BY CommandTypes
     DEF Stale, Stop, Send, Interrupt, Permission, Command, Refuse, WriteAndReply
<1>2. PICK c : c = Head(control) /\ c \in Calls
  BY <1>1
<1>3. calls[c].answer \in {"waiting", "timeout"}
  <2>1. 1 \in DOMAIN control /\ Head(control) = control[1]
    BY <1>1 DEF ControlOK
  <2> QED BY <1>2, <2>1 DEF PromptInv, Queued
<1>4. info'.generation = info.generation
  BY DEF InfoOK, Stale, Stop, Send, Interrupt, Permission, Refuse
<1>5. SameProcess'
  BY <1>1, <1>4 DEF PromptInv, SameProcess, Looping
<1>6. CASE Stop
  <2>1. Queued'
    BY <1>1, <1>6, QueuedTaken DEF Stop, PromptInv
  <2>2. PromptsWereAccepted'
    BY <1>6, PromptsStay DEF Stop, PromptInv, Prompts
  <2> QED BY <1>5, <2>1, <2>2 DEF PromptInv
<1>7. ASSUME NEW a, Answer(c, a)
      PROVE  /\ Queued'
             /\ \A d \in Calls : calls[d].answer \in {"ok", "timeout"} =>
                  /\ calls'[d].answer \in {"ok", "timeout"}
                  /\ calls'[d].generation = calls[d].generation
             /\ calls'[c].generation = calls[c].generation
             /\ calls'[c].answer \in {a, "timeout"}
  <2>1. \A d \in Calls : /\ calls'[d].generation = calls[d].generation
                         /\ calls'[d].answer = IF d = c /\ calls[d].answer = "waiting"
                                               THEN a ELSE calls[d].answer
    BY <1>2, <1>7, AnswerGiven
  <2>2. Queued'
    BY <1>1, <1>2, <2>1, QueuedTaken DEF PromptInv
  <2> QED BY <1>2, <1>3, <2>1, <2>2
<1>8. CASE Stale \/ Refuse
  <2>1. Answer(c, "refused") /\ stdin' = stdin
    BY <1>2, <1>8 DEF Stale, Refuse
  <2>2. PromptsWereAccepted'
    BY <1>1, <1>7, <2>1, PromptsStay DEF PromptInv, Prompts
  <2> QED BY <1>5, <1>7, <2>1, <2>2 DEF PromptInv
<1>9. CASE (Interrupt \/ Permission) /\ ~Refuse
  <2>1. PICK k \in {"interrupt", "answer"}, n \in Nat : WriteAndReply(Message(k, n))
    <3>1. CASE Interrupt
      <4>1. WriteAndReply(Message("interrupt", info.current_task))
        BY <1>9, <3>1 DEF Interrupt
      <4>2. info.current_task \in Nat
        BY Numbers DEF InfoOK
      <4> QED BY <4>1, <4>2
    <3>2. CASE Permission
      <4>1. /\ WriteAndReply(Message("answer", calls[Head(control)].of))
            /\ calls[Head(control)].of \in info.pending
        BY <1>9, <3>2 DEF Permission
      <4>2. calls[Head(control)].of \in Nat
        BY <4>1, Numbers DEF InfoOK
      <4> QED BY <4>1, <4>2
    <3> QED BY <1>9, <3>1, <3>2
  <2>2. PICK a : Answer(c, a)
    BY <1>2, <2>1 DEF WriteAndReply
  <2>3. stdin' = stdin \/ stdin' = Append(stdin, Message(k, n))
    BY <2>1 DEF WriteAndReply, Write
  <2>4. Carried(stdin', "user") = Carried(stdin, "user")
    BY <2>3, StdinCarries
  <2>5. PromptsWereAccepted'
    BY <1>1, <1>7, <2>2, <2>4, PromptsStay DEF PromptInv, Prompts
  <2> QED BY <1>5, <1>7, <2>2, <2>5 DEF PromptInv
<1>10. CASE Send /\ ~Refuse
  <2>1. WriteAndReply(Message("user", c)) /\ calls[c].generation = info.generation /\ c \in Nat
    BY <1>2, <1>10, Numbers DEF Send, Command
  <2>2. CASE stdin' = Append(stdin, Message("user", c)) /\ task' = task
    <3>1. Answer(c, "ok")
      BY <1>2, <2>1, <2>2 DEF WriteAndReply
    <3>2. Carried(stdin', "user") = Carried(stdin, "user") \cup {c}
      BY <1>2, <2>1, <2>2, StdinCarries
    <3>3. calls'[c].generation = claude.generation /\ calls'[c].answer \in {"ok", "timeout"}
      BY <1>1, <1>7, <2>1, <3>1 DEF PromptInv, SameProcess, Looping
    <3>4. PromptsWereAccepted'
      <4>1. ASSUME claude.alive, NEW d \in Prompts \cup {c}
            PROVE  /\ calls'[d].generation = claude.generation
                   /\ calls'[d].answer \in {"ok", "timeout"}
        BY <1>7, <3>1, <3>3, <4>1, PromptsAre DEF PromptInv
      <4> QED BY <1>1, <3>2, <4>1 DEF PromptsWereAccepted, Prompts
    <3> QED BY <1>5, <1>7, <3>1, <3>4 DEF PromptInv
  <2>3. CASE stdin' = stdin
    <3>1. PICK a : Answer(c, a)
      BY <1>2, <2>1 DEF WriteAndReply
    <3>2. PromptsWereAccepted'
      BY <1>1, <1>7, <2>3, <3>1, PromptsStay DEF PromptInv, Prompts
    <3> QED BY <1>5, <1>7, <3>1, <3>2 DEF PromptInv
  <2> QED BY <2>1, <2>2, <2>3 DEF WriteAndReply, Write
<1> QED BY <1>6, <1>8, <1>9, <1>10 DEF Send, Interrupt, Permission

LEMMA PromptsOutputs ==
    ASSUME TypeInv, PromptInv,
           \/ NoticeExit \/ HandshakeTimeout \/ Unreachable
           \/ Ready \/ CanUseTool \/ CancelRequest \/ Result \/ BadLine
    PROVE  PromptInv'
<1> USE DEF TypeInv
<1>1. UNCHANGED <<control, calls, claude>> /\ Looping
  BY DEF NoticeExit, HandshakeTimeout, Unreachable, Ready, CanUseTool, CancelRequest, Result,
         BadLine, Output
<1>2. info'.generation = info.generation
  BY DEF InfoOK, NoticeExit, HandshakeTimeout, Unreachable, Ready, CanUseTool, CancelRequest,
         Result, BadLine
<1>3. Carried(stdin', "user") = Carried(stdin, "user")
  <2>1. CASE CanUseTool /\ stdin' # stdin
    <3>1. PICK q : q = Head(stdout).of
      OBVIOUS
    <3>2. q \in Nat
      BY <2>1, <3>1, StdoutShrinks DEF CanUseTool, Output, StdoutLines
    <3>3. stdin' = Append(stdin, Message("answer", q))
      BY <2>1, <3>1 DEF CanUseTool, Write
    <3> QED BY <3>2, <3>3, StdinCarries
  <2> QED BY <2>1 DEF NoticeExit, HandshakeTimeout, Unreachable, Ready, CancelRequest, Result,
                      BadLine
<1> QED BY <1>1, <1>2, <1>3, PromptsUnseen DEF Looping, Prompts

LEMMA PromptsEnds ==
    ASSUME SessionInv, PromptInv, Finish \/ Lifecycle
    PROVE  PromptInv'
<1> USE DEF SessionInv, TypeInv
<1>1. CASE Finish
  <2>1. ~claude'.alive /\ task'.run = "over" /\ control' = <<>>
    BY <1>1 DEF Finish, ClaudeOK, TaskOK
  <2> QED BY <2>1 DEF PromptInv, SameProcess, Queued, PromptsWereAccepted
<1>2. CASE Release
  BY <1>2, PromptsUnseen DEF Release, InfoOK, Prompts
<1>3. CASE Insert \/ DropHandler
  BY <1>3, HandlerMoves, PromptsUnseen DEF Prompts
<1>4. CASE Raise
  <2>1. ~claude.alive /\ task'.run = "raised" /\ UNCHANGED <<control, calls, stdin, claude>>
    BY <1>4 DEF Raise, Handshake, TaskOK
  <2> QED BY <2>1 DEF PromptInv, SameProcess, Queued, PromptsWereAccepted
<1>5. CASE Spawn
  <2>1. ~claude.alive /\ UNCHANGED <<control, calls>>
    BY <1>5 DEF Spawn, Handshake
  <2>2. Queued'
    BY <2>1 DEF PromptInv, Queued
  <2>3. CASE task' = [task EXCEPT !.run = "over"] /\ UNCHANGED <<stdin, claude>>
    <3>1. task'.run = "over"
      BY <2>3 DEF TaskOK
    <3> QED BY <2>1, <2>2, <2>3, <3>1 DEF PromptInv, SameProcess, PromptsWereAccepted
  <2>4. CASE /\ info' = [info EXCEPT !.state = "starting", !.current_task = None]
             /\ stdin' = <<Message("initialize", None)>>
             /\ claude' = NewClaude(info.generation)
    <3>1. /\ info'.generation = claude'.generation /\ claude'.turn = None
      BY <2>4 DEF NewClaude, InfoOK
    <3>2. Carried(stdin', "user") = {}
      <4>1. PICK m : m = Message("initialize", None)
        OBVIOUS
      <4>2. stdin' = <<m>> /\ m.kind # "user"
        BY <2>4, <4>1 DEF Message
      <4> QED BY <4>2 DEF Carried, In
    <3> QED BY <2>2, <3>1, <3>2 DEF PromptInv, SameProcess, PromptsWereAccepted
  <2> QED BY <1>5, <2>3, <2>4 DEF Spawn
<1> QED BY <1>1, <1>2, <1>3, <1>4, <1>5 DEF Lifecycle

LEMMA PromptsClaude ==
    ASSUME TypeInv, PromptInv, ClaudeStep \/ ClaudeActs
    PROVE  PromptInv'
<1> USE DEF TypeInv
<1>1. UNCHANGED <<info, task, control, calls>> /\ claude.alive
  BY DEF ClaudeStep, ClaudeActs, ReadInitialize, ReadPrompt, ReadInterrupt, ReadAnswer,
         ClaudeReads, EndsTurn, Asks, Withdraws, Exits, WritesBadLine
<1>2. claude'.generation = claude.generation
  BY DEF ClaudeStep, ClaudeActs, ReadInitialize, ReadPrompt, ReadInterrupt, ReadAnswer,
         EndsTurn, Asks, Withdraws, Exits, WritesBadLine, ClaudeOK
<1>3. CASE ReadPrompt
  <2>1. ClaudeReads("user") /\ claude'.turn = Head(stdin).of
    BY <1>3 DEF ReadPrompt, ClaudeOK
  <2>2. Carried(stdin, "user") = Carried(stdin', "user") \cup {Head(stdin).of}
    BY <2>1, StdinGives
  <2> QED BY <1>1, <1>2, <2>1, <2>2, PromptsUnseen DEF Prompts
<1>4. CASE ReadInitialize \/ ReadInterrupt \/ ReadAnswer
  <2>1. PICK k \in {"initialize", "interrupt", "answer"} : ClaudeReads(k)
    BY <1>4 DEF ReadInitialize, ReadInterrupt, ReadAnswer
  <2>2. Carried(stdin', "user") = Carried(stdin, "user")
    BY <2>1, StdinGives
  <2>3. claude'.turn \in {claude.turn, None}
    BY <1>4 DEF ReadInitialize, ReadInterrupt, ReadAnswer, ClaudeOK
  <2> QED BY <1>1, <1>2, <2>2, <2>3, PromptsUnseen DEF Prompts
<1>5. CASE ClaudeActs \/ EndsTurn
  <2>1. stdin' = stdin /\ claude'.turn \in {claude.turn, None}
    BY <1>5 DEF ClaudeActs, Asks, Withdraws, Exits, WritesBadLine, EndsTurn, ClaudeOK
  <2> QED BY <1>1, <1>2, <2>1, PromptsUnseen DEF Prompts
<1> QED BY <1>3, <1>4, <1>5 DEF ClaudeStep

LEMMA PromptStep == SessionInv /\ PromptInv /\ [Next]_vars => PromptInv'
<1> SUFFICES ASSUME SessionInv, PromptInv, [Next]_vars PROVE PromptInv'
  OBVIOUS
<1>0. TypeInv
  BY DEF SessionInv
<1>1. CASE TaskStep \/ Lifecycle
  BY <1>0, <1>1, PromptsCommands, PromptsOutputs, PromptsEnds DEF TaskStep
<1>2. CASE ClaudeStep \/ ClaudeActs
  BY <1>0, <1>2, PromptsClaude
<1>3. CASE \E c \in Calls : Request(c) \/ RequestTimeout(c)
  BY <1>0, <1>3, QueuedUsers
<1>4. CASE Quiescent \/ UNCHANGED vars
  BY <1>0, <1>4, PromptsUnseen DEF Quiescent, vars, Prompts
<1> QED BY <1>1, <1>2, <1>3, <1>4 DEF Next

\* What a Claude process has before it or works on was accepted from a call
\* that named this process (the generation that apply_action compares).
THEOREM PromptsAccepted == Spec => []PromptsWereAccepted
<1>1. Init => PromptInv
  <2> SUFFICES ASSUME Init PROVE PromptInv
    OBVIOUS
  <2>1. PICK m : m = Message("initialize", None)
    OBVIOUS
  <2>2. stdin = <<m>> /\ m.kind # "user"
    BY <2>1 DEF Message, Init
  <2>3. Carried(stdin, "user") = {}
    BY <2>2 DEF Carried, In
  <2> QED BY <2>3 DEF Init, PromptInv, SameProcess, Queued, PromptsWereAccepted, NewClaude
<1>2. PromptInv => PromptsWereAccepted
  BY DEF PromptInv
<1> QED BY <1>1, <1>2, SessionInvariant, PromptStep, PTL DEF Spec

===============================================================================

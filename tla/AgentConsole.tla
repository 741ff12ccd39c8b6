------------------------------ MODULE AgentConsole ------------------------------
(***************************************************************************)
(* The page of src/web/agents.js: one box for prompts that is shared by    *)
(* the agents, polls that read the server in two requests, and actions of  *)
(* the user.  Everything but the waits for the server runs to completion,  *)
(* so that an answer meets whatever the user did in between.               *)
(*                                                                         *)
(* A text is the number of its last keystroke, 0 when empty.  Of an agent  *)
(* only whether it is idle is kept; the log and its cursor are EventRing.  *)
(* The tab is shown all the time: hidden, it only stops polling.  revision *)
(* is only compared with the version of the poll under way: kept is        *)
(* whether it has been raised since that poll started.                     *)
(***************************************************************************)
EXTENDS Integers, Sequences

CONSTANTS
    Agents,
    MaxTexts,    \* bound: edits of the box
    MaxActions,  \* bound: actions of the user
    MaxChanges   \* bound: changes of the server's state

ASSUME ConsoleAssumption == {MaxTexts, MaxActions, MaxChanges} \subseteq Nat

None == "none"
Texts == 1 .. MaxTexts

VARIABLES
    server,   \* AgentManager: the state of each agent, "none" before it exists
    clock,    \* a history: how often server has changed
    page,     \* selected, detail, and the text in the box
    status,   \* the last cc.status: the states, and the clock they are of
    drafts,
    poll,     \* refresh: where it is, version # revision, its id, the answer
    act,      \* action: where it is, its method, agent and text
    actions,  \* what remains of the bound
    typed,    \* a history: the agent each text was typed for
    received, \* a history: the prompts the server has accepted
    acted     \* a history: the clock when the last action ended

vars == <<server, clock, page, status, drafts, poll, act, actions, typed, received,
          acted>>
histories == <<typed, received, acted>>

NoDetail == [id |-> None, state |-> "none", at |-> 0]
NewPoll(at, id) == [at |-> at, outdated |-> FALSE, id |-> id, read |-> 0,
                    states |-> [a \in Agents |-> "none"]]
NoPoll == NewPoll("none", None)
NoAct == [at |-> "none", method |-> "none", id |-> None, text |-> 0]

Init ==
    /\ server \in [Agents -> {"none", "idle"}]
    /\ clock = 0
    /\ page = [selected |-> None, detail |-> NoDetail, box |-> 0]
    /\ status = [states |-> [a \in Agents |-> "none"], at |-> 0]
    /\ drafts = [a \in Agents |-> 0]
    /\ poll = NoPoll
    /\ act = NoAct
    /\ actions = MaxActions
    /\ typed = <<>>
    /\ received = {}
    /\ acted = 0

Polling == poll.at # "none"
Acting == act.at # "none"

\* The first request of refresh, unless polling or acting.
Refresh(p, acting) ==
    IF Polling \/ acting THEN poll
    ELSE NewPoll("status", p.selected)

\* revision is raised.
Outdated == IF Polling THEN [poll EXCEPT !.outdated = TRUE] ELSE poll

-----------------------------------------------------------------------------
\* The interval of one second.
Timer ==
    /\ ~Polling /\ ~Acting
    /\ poll' = Refresh(page, Acting)
    /\ UNCHANGED <<server, clock, page, status, drafts, act, actions, histories>>

\* The server reads its state for the request that is under way.
ServerReads ==
    /\ poll.at \in {"status", "get"}
    /\ poll' = [poll EXCEPT !.at = IF @ = "status" THEN "status read" ELSE "get read",
                            !.states = server, !.read = clock]
    /\ UNCHANGED <<server, clock, page, status, drafts, act, actions, histories>>

\* cc.status is answered: shown unless the user has acted since, and followed
\* by cc.get.
StatusShown ==
    /\ poll.at = "status read"
    /\ IF poll.outdated
         THEN poll' = NoPoll /\ UNCHANGED status
         ELSE /\ status' = [states |-> poll.states, at |-> poll.read]
              /\ poll' = IF poll.id = None THEN NoPoll ELSE [poll EXCEPT !.at = "get"]
    /\ UNCHANGED <<server, clock, page, drafts, act, actions, histories>>

\* Slip: only the selection is compared, not the revision.
GetShownUnchecked ==
    /\ poll.at = "get read"
    /\ poll' = NoPoll
    /\ page' = IF poll.id # page.selected THEN page
               ELSE [page EXCEPT !.detail = [id |-> poll.id, at |-> poll.read,
                                             state |-> poll.states[poll.id]]]
    /\ UNCHANGED <<server, clock, status, drafts, act, actions, histories>>

GetShown ==
    /\ poll.at = "get read"
    /\ poll' = NoPoll
    /\ page' = IF poll.outdated \/ poll.id # page.selected THEN page
               ELSE [page EXCEPT !.detail = [id |-> poll.id, at |-> poll.read,
                                             state |-> poll.states[poll.id]]]
    /\ UNCHANGED <<server, clock, status, drafts, act, actions, histories>>

\* A request of the poll fails.
PollFails ==
    /\ Polling
    /\ poll' = NoPoll
    /\ page' = IF poll.outdated THEN page
               ELSE [page EXCEPT !.detail = NoDetail]
    /\ UNCHANGED <<server, clock, status, drafts, act, actions, histories>>

-----------------------------------------------------------------------------
\* The listener of the box.
Types ==
    LET text == Len(typed) + 1
    IN  /\ page.selected # None
        /\ text \in Texts
        /\ typed' = Append(typed, page.selected)
        /\ page' = [page EXCEPT !.box = text]
        /\ drafts' = [drafts EXCEPT ![page.selected] = text]
        /\ UNCHANGED <<server, clock, status, poll, act, actions, received, acted>>

Saved == IF page.selected = None THEN drafts
         ELSE [drafts EXCEPT ![page.selected] = page.box]

Detail(a) ==
    IF status.states[a] = "none" THEN NoDetail
    ELSE [id |-> a, state |-> status.states[a], at |-> status.at]

\* Slip: the box keeps its text when the agent has no draft.
SelectKeepingBox(a) ==
    /\ status.states[a] # "none"
    /\ drafts' = Saved
    /\ page' = [page EXCEPT !.selected = a, !.detail = Detail(a),
                            !.box = IF Saved[a] = 0 THEN @ ELSE Saved[a]]
    /\ poll' = IF Polling THEN Outdated ELSE Refresh(page', Acting)
    /\ UNCHANGED <<server, clock, status, act, actions, histories>>

\* select: a card, or a block of the monitor, is clicked.
Select(a) ==
    /\ status.states[a] # "none"
    /\ drafts' = Saved
    /\ page' = [page EXCEPT !.selected = a, !.detail = Detail(a),
                            !.box = Saved[a]]
    /\ poll' = IF Polling THEN Outdated ELSE Refresh(page', Acting)
    /\ UNCHANGED <<server, clock, status, act, actions, histories>>

Acts(method, id, text) ==
    /\ ~Acting
    /\ actions > 0
    /\ actions' = actions - 1
    /\ act' = [at |-> "sent", method |-> method, id |-> id, text |-> text]
    /\ poll' = Outdated
    /\ UNCHANGED <<server, clock, page, status, drafts, histories>>

\* The send form: the text of the box goes to the selected agent.
Send == /\ page.box # 0
        /\ page.detail.state = "idle"
        /\ Acts("send", page.selected, page.box)

Create == Acts("create", None, 0)

\* A stop, an interrupt, a permission: it names the agent that is shown.
Other == page.detail # NoDetail /\ Acts("other", page.detail.id, 0)

Changes(s) == /\ clock < MaxChanges
              /\ server' = s
              /\ clock' = clock + 1

\* cc.send is accepted by an idle agent, cc.create finds a slot, ...
Accepted ==
    /\ act.at = "sent"
    /\ \/ /\ act.method = "send" /\ server[act.id] = "idle"
          /\ Changes([server EXCEPT ![act.id] = "busy"])
          /\ received' = received \cup {<<act.id, act.text>>}
          /\ act' = [act EXCEPT !.at = "ok"]
       \/ /\ act.method = "create"
          /\ \E a \in Agents : /\ server[a] = "none"
                               /\ Changes([server EXCEPT ![a] = "busy"])
                               /\ act' = [act EXCEPT !.at = "ok", !.id = a]
          /\ UNCHANGED received
       \/ /\ act.method = "other"
          /\ Changes([server EXCEPT ![act.id] = "busy"])
          /\ act' = [act EXCEPT !.at = "ok"]
          /\ UNCHANGED received
    /\ UNCHANGED <<page, status, drafts, poll, actions, typed, acted>>

\* ... or is refused, or its answer does not come.
ActionFails ==
    /\ act.at \in {"sent", "ok"}
    /\ act' = [act EXCEPT !.at = "failed"]
    /\ UNCHANGED <<server, clock, page, status, drafts, poll, actions, histories>>

\* The end of action, with what the success of its method does.  A poll that
\* is still under way is outdated since Acts.
ActionEnds ==
    /\ act.at \in {"ok", "failed"}
    /\ act' = NoAct
    /\ acted' = clock
    /\ CASE act.at = "ok" /\ act.method = "send" ->
              /\ drafts' = [drafts EXCEPT ![act.id] = 0]
              /\ page' = IF page.selected = act.id /\ page.box = act.text
                           THEN [page EXCEPT !.box = 0] ELSE page
         [] act.at = "ok" /\ act.method = "create" ->
              /\ page' = [selected |-> act.id, box |-> 0,
                          detail |-> [id |-> act.id, state |-> "busy",
                                      at |-> clock]]
              /\ UNCHANGED drafts
         [] OTHER -> UNCHANGED <<page, drafts>>
    /\ poll' = Refresh(page', FALSE)
    /\ UNCHANGED <<server, clock, status, actions, typed, received>>

\* An agent becomes idle, or is given a prompt by another page.
ServerMoves ==
    /\ \E a \in Agents : /\ server[a] # "none"
                         /\ Changes([server EXCEPT ![a] = IF @ = "idle" THEN "busy"
                                                                        ELSE "idle"])
    /\ UNCHANGED <<page, status, drafts, poll, act, actions, histories>>

Next ==
    \/ Timer \/ ServerReads \/ StatusShown \/ GetShown \/ PollFails
    \/ Types \/ \E a \in Agents : Select(a)
    \/ Send \/ Create \/ Other
    \/ Accepted \/ ActionFails \/ ActionEnds \/ ServerMoves

Spec == Init /\ [][Next]_vars

-----------------------------------------------------------------------------
\* A prompt is received by the agent that it was typed for, though one box
\* serves all and the selection changes with clicks and with a create.
PromptsReachTheirAgent == \A p \in received : typed[p[2]] = p[1]

\* A poll never shows the server as it was before the last action ended (a
\* selection may, until the poll that it starts is answered).
NoLateAnswer ==
    [][/\ status' # status => status'.at >= acted
       /\ poll.at = "get read" /\ poll' = NoPoll /\ page' # page
            => page'.detail = NoDetail \/ page'.detail.at >= acted]_vars

=============================================================================

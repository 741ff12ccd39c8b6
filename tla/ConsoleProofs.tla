------------------------------ MODULE ConsoleProofs ------------------------------
(***************************************************************************)
(* Proofs about AgentConsole, for any agents and any length of a session:  *)
(* a prompt is received by the agent that it was typed for, and no poll    *)
(* shows what an action has made old.                                      *)
(***************************************************************************)
EXTENDS AgentConsole, TLAPS

States == {"none", "idle", "busy"}
Ids == Agents \cup {None}

Details == [id : Ids, state : States, at : Nat]
Pages == [selected : Ids, box : Nat, detail : Details]
Polls == [at : {"none", "status", "status read", "get", "get read"},
          outdated : BOOLEAN, id : Ids, read : Nat, states : [Agents -> States]]
ActRecords == [at : {"none", "sent", "ok", "failed"},
            method : {"none", "send", "create", "other"}, id : Ids, text : Nat]

ServerType ==
    /\ server \in [Agents -> States]
    /\ clock \in Nat
    /\ status \in [states : [Agents -> States], at : Nat]
PollType ==
    /\ poll \in Polls
    /\ poll.at \in {"get", "get read"} => poll.id \in Agents
TextType ==
    /\ drafts \in [Agents -> Nat]
    /\ act \in ActRecords
    /\ act.method = "send" => act.id \in Agents
    /\ typed \in Seq(Agents)
ConsoleType == ServerType /\ PollType /\ TextType /\ page \in Pages

\* The text was typed for this agent.
TypedFor(text, a) == text \in 1 .. Len(typed) /\ typed[text] = a

\* Wherever a text is on its way to an agent - in the box, in a draft, in a
\* request, with the server - it is a text that was typed for this agent.
TextsKeepTheirAgent ==
    /\ page.box # 0 => TypedFor(page.box, page.selected)
    /\ \A a \in Agents : drafts[a] # 0 => TypedFor(drafts[a], a)
    /\ act.method = "send" => TypedFor(act.text, act.id)
    /\ \A p \in received : TypedFor(p[2], p[1])

ConsoleInv == ConsoleType /\ TextsKeepTheirAgent

LEMMA InitConsole == Init => ConsoleInv
<1> SUFFICES ASSUME Init PROVE ConsoleInv
  OBVIOUS
<1>1. ServerType /\ PollType
  BY DEF Init, ServerType, PollType, Polls, States, Ids, NoPoll, NewPoll
<1>2. TextType /\ page \in Pages
  BY DEF Init, TextType, Pages, Details, ActRecords, States, Ids, NoDetail, NoAct
<1>3. TextsKeepTheirAgent
  BY DEF Init, TextsKeepTheirAgent, NoAct
<1> QED BY <1>1, <1>2, <1>3 DEF ConsoleInv, ConsoleType

\* What a poll is when it starts, ends, or is outdated.
LEMMA PollTypes ==
    ASSUME PollType
    PROVE  /\ NoPoll \in Polls /\ NoPoll.at = "none"
           /\ Outdated \in Polls /\ Outdated.at = poll.at /\ Outdated.id = poll.id
BY DEF PollType, Polls, NoPoll, NewPoll, Outdated, States, Ids

LEMMA RefreshTypes ==
    ASSUME PollType, NEW p, p.selected \in Ids, NEW acting \in BOOLEAN
    PROVE  /\ Refresh(p, acting) \in Polls
           /\ Refresh(p, acting).at \in {"get", "get read"} =>
                 Refresh(p, acting).id \in Agents
<1>1. NewPoll("status", p.selected) \in Polls /\ NewPoll("status", p.selected).at = "status"
  BY DEF NewPoll, Polls, States, Ids
<1> QED BY <1>1 DEF Refresh, PollType

LEMMA NoDetailType == NoDetail \in Details
BY DEF NoDetail, Details, Ids, States

\* Texts that nothing but a prompt disturbs.
LEMMA TextsKept ==
    ASSUME TextsKeepTheirAgent,
           UNCHANGED <<drafts, typed, received>>,
           page'.box = page.box, page'.selected = page.selected,
           act'.method = act.method, act'.id = act.id, act'.text = act.text
    PROVE  TextsKeepTheirAgent'
BY DEF TextsKeepTheirAgent, TypedFor

\* The steps of a poll show what the server told, and touch no text.
LEMMA PollSteps ==
    ASSUME ConsoleInv,
           Timer \/ ServerReads \/ StatusShown \/ GetShown \/ PollFails
    PROVE  ConsoleInv'
<1>1. UNCHANGED <<server, clock, drafts, act, typed, received>>
  BY DEF Timer, ServerReads, StatusShown, GetShown, PollFails, histories
<1>2. TextType'
  BY <1>1 DEF ConsoleInv, ConsoleType, TextType
<1>3. PollType'
  <2> USE DEF ConsoleInv, ConsoleType
  <2>1. CASE Timer
    <3>1. page.selected \in Ids /\ poll' = Refresh(page, Acting)
      BY <2>1 DEF Timer, Pages
    <3>2. Acting \in BOOLEAN
      BY DEF Acting
    <3> QED BY <3>1, <3>2, RefreshTypes DEF PollType
  <2>2. CASE ServerReads
    BY <2>2 DEF ServerReads, PollType, Polls, ServerType
  <2>3. CASE StatusShown
    <3>1. CASE poll' = [poll EXCEPT !.at = "get"] /\ poll.id # None
      BY <3>1 DEF PollType, Polls, Ids
    <3>2. CASE poll' = NoPoll
      BY <3>2, PollTypes DEF PollType
    <3> QED BY <2>3, <3>1, <3>2 DEF StatusShown
  <2>4. CASE GetShown \/ PollFails
    BY <2>4, PollTypes DEF GetShown, PollFails, PollType
  <2> QED BY <2>1, <2>2, <2>3, <2>4
<1>4. ServerType'
  <2>1. CASE StatusShown
    <3>1. [states |-> poll.states, at |-> poll.read] \in [states : [Agents -> States], at : Nat]
      BY DEF ConsoleInv, ConsoleType, PollType, Polls
    <3>2. \/ status' = [states |-> poll.states, at |-> poll.read]
          \/ status' = status
      BY <2>1 DEF StatusShown
    <3> QED BY <1>1, <3>1, <3>2 DEF ConsoleInv, ConsoleType, ServerType
  <2>2. CASE UNCHANGED status
    BY <1>1, <2>2 DEF ConsoleInv, ConsoleType, ServerType
  <2> QED BY <2>1, <2>2 DEF Timer, ServerReads, GetShown, PollFails
<1>5. PICK detail \in Details : page' = page \/ page' = [page EXCEPT !.detail = detail]
  <2>1. CASE GetShown
    <3>1. [id |-> poll.id, at |-> poll.read, state |-> poll.states[poll.id]] \in Details
      BY <2>1 DEF GetShown, ConsoleInv, ConsoleType, PollType, Polls, Details
    <3> QED BY <2>1, <3>1 DEF GetShown
  <2>2. CASE PollFails
    BY <2>2, NoDetailType DEF PollFails
  <2> QED BY <2>1, <2>2, NoDetailType DEF Timer, ServerReads, StatusShown
<1>6. page' \in Pages /\ page'.box = page.box /\ page'.selected = page.selected
  BY <1>5 DEF ConsoleInv, ConsoleType, Pages
<1>7. TextsKeepTheirAgent'
  BY <1>1, <1>6, TextsKept DEF ConsoleInv
<1> QED BY <1>2, <1>3, <1>4, <1>6, <1>7 DEF ConsoleInv, ConsoleType

\* What is typed is typed for the agent that is selected, and longer logs of
\* what was typed keep the earlier texts.
LEMMA TypesTyped ==
    ASSUME ConsoleInv, Types
    PROVE  ConsoleInv'
<1>1. PICK text \in Nat, sel \in Agents :
        /\ text = Len(typed) + 1 /\ sel = page.selected
        /\ typed' = Append(typed, sel)
        /\ page' = [page EXCEPT !.box = text]
        /\ drafts' = [drafts EXCEPT ![sel] = text]
  <2>1. Len(typed) + 1 \in Nat /\ page.selected \in Ids
    BY DEF ConsoleInv, ConsoleType, TextType, Pages
  <2> QED BY <2>1, Zenon DEF Types, Ids
<1>2. /\ typed' \in Seq(Agents) /\ TypedFor(text, sel)'
      /\ \A t, a : TypedFor(t, a) => TypedFor(t, a)'
  BY <1>1 DEF TypedFor, ConsoleInv, ConsoleType, TextType
<1>3. UNCHANGED <<server, clock, status, poll, act, received>>
  BY DEF Types
<1>4. ServerType' /\ PollType'
  BY <1>3 DEF ConsoleInv, ConsoleType, ServerType, PollType
<1>5. TextType'
  BY <1>1, <1>2, <1>3 DEF ConsoleInv, ConsoleType, TextType
<1>6. page' \in Pages /\ page'.box = text /\ page'.selected = sel
  BY <1>1 DEF ConsoleInv, ConsoleType, Pages
<1>7. ASSUME NEW a \in Agents, drafts'[a] # 0
      PROVE  drafts'[a] = drafts[a] \/ (a = sel /\ drafts'[a] = text)
  BY <1>1, <1>7 DEF ConsoleInv, ConsoleType, TextType
<1>8. (\A a \in Agents : drafts[a] # 0 => TypedFor(drafts[a], a))'
  BY <1>2, <1>7 DEF ConsoleInv, TextsKeepTheirAgent
<1>9. TextsKeepTheirAgent'
  BY <1>2, <1>3, <1>6, <1>8 DEF ConsoleInv, TextsKeepTheirAgent
<1> QED BY <1>4, <1>5, <1>6, <1>9 DEF ConsoleInv, ConsoleType

\* A selection saves the box under the agent that it was typed for, and fills
\* it with the draft of the other.
LEMMA SelectSaves ==
    ASSUME ConsoleInv, NEW b \in Agents, Select(b)
    PROVE  ConsoleInv'
<1>1. /\ UNCHANGED <<server, clock, status, act, typed, received>>
      /\ drafts' = Saved
      /\ page' = [page EXCEPT !.selected = b, !.detail = Detail(b), !.box = Saved[b]]
      /\ poll' = IF Polling THEN Outdated ELSE Refresh(page', Acting)
  BY DEF Select, histories
<1>2. /\ Saved \in [Agents -> Nat]
      /\ \A a \in Agents : Saved[a] # 0 => TypedFor(Saved[a], a)
  BY DEF Saved, ConsoleInv, ConsoleType, TextType, Pages, Ids, TextsKeepTheirAgent
<1>3. Detail(b) \in Details
  BY NoDetailType
  DEF Detail, Details, Ids, ConsoleInv, ConsoleType, ServerType
<1>4. /\ page' \in Pages
      /\ page'.selected = b /\ page'.box = Saved[b]
  BY <1>1, <1>2, <1>3 DEF ConsoleInv, ConsoleType, Pages, Ids
<1>5. ServerType' /\ TextType'
  BY <1>1, <1>2 DEF ConsoleInv, ConsoleType, ServerType, TextType
<1>6. PollType'
  <2>1. page'.selected \in Ids /\ Acting \in BOOLEAN
    BY <1>4 DEF Ids, Acting
  <2>2. CASE poll' = Outdated
    BY <2>2, PollTypes DEF ConsoleInv, ConsoleType, PollType
  <2>3. CASE poll' = Refresh(page', Acting)
    BY <2>1, <2>3, RefreshTypes DEF ConsoleInv, ConsoleType, PollType
  <2> QED BY <1>1, <2>2, <2>3
<1>7. \A t, a : TypedFor(t, a)' <=> TypedFor(t, a)
  BY <1>1 DEF TypedFor
<1>8. TextsKeepTheirAgent'
  BY <1>1, <1>2, <1>4, <1>7 DEF ConsoleInv, TextsKeepTheirAgent
<1> QED BY <1>4, <1>5, <1>6, <1>8 DEF ConsoleInv, ConsoleType

\* An action takes its agent, and a prompt its text, from what is shown.
LEMMA ActsStarts ==
    ASSUME ConsoleInv, Send \/ Create \/ Other
    PROVE  ConsoleInv'
<1>1. PICK method \in {"send", "create", "other"}, id \in Ids, text \in Nat :
        /\ Acts(method, id, text)
        /\ method = "send" => id = page.selected /\ text = page.box /\ text # 0
  <2>1. CASE Send
    BY <2>1 DEF Send, ConsoleInv, ConsoleType, Pages
  <2>2. CASE Create
    BY <2>2 DEF Create, Ids
  <2>3. CASE Other
    BY <2>3 DEF Other, ConsoleInv, ConsoleType, Pages, Details
  <2> QED BY <2>1, <2>2, <2>3
<1>2. /\ UNCHANGED <<server, clock, page, status, drafts, typed, received>>
      /\ poll' = Outdated
      /\ act' = [at |-> "sent", method |-> method, id |-> id, text |-> text]
  BY <1>1 DEF Acts, histories
<1>3. method = "send" => id \in Agents /\ TypedFor(text, id)
  <2>1. TypedFor(page.box, page.selected) => page.selected \in Agents
    BY DEF TypedFor, ConsoleInv, ConsoleType, TextType
  <2> QED BY <1>1, <2>1 DEF ConsoleInv, TextsKeepTheirAgent
<1>4. ServerType' /\ page' \in Pages
  BY <1>2 DEF ConsoleInv, ConsoleType, ServerType
<1>5. PollType'
  BY <1>2, PollTypes DEF ConsoleInv, ConsoleType, PollType
<1>6. /\ act' \in ActRecords
      /\ act'.method = method /\ act'.id = id /\ act'.text = text
  BY <1>2 DEF ActRecords
<1>7. TextType'
  BY <1>2, <1>3, <1>6 DEF ConsoleInv, ConsoleType, TextType
<1>8. TextsKeepTheirAgent'
  BY <1>2, <1>3, <1>6 DEF ConsoleInv, TextsKeepTheirAgent, TypedFor
<1> QED BY <1>4, <1>5, <1>7, <1>8 DEF ConsoleInv, ConsoleType

\* The server, its answer on the way, and what other pages do: the text that
\* the server receives is the one of the request.
LEMMA ServerSteps ==
    ASSUME ConsoleInv, Accepted \/ ActionFails \/ ServerMoves
    PROVE  ConsoleInv'
<1>1. UNCHANGED <<page, status, drafts, poll, typed>>
  BY DEF Accepted, ActionFails, ServerMoves, histories
<1>2. server' \in [Agents -> States] /\ clock' \in Nat
  <2>1. CASE UNCHANGED <<server, clock>>
    BY <2>1 DEF ConsoleInv, ConsoleType, ServerType
  <2>2. ASSUME NEW a, NEW state \in States, Changes([server EXCEPT ![a] = state])
        PROVE  server' \in [Agents -> States] /\ clock' \in Nat
    <3>1. server \in [Agents -> States] /\ clock \in Nat
      BY DEF ConsoleInv, ConsoleType, ServerType
    <3>2. [server EXCEPT ![a] = state] \in [Agents -> States]
      BY <3>1
    <3> QED BY <2>2, <3>1, <3>2 DEF Changes
  <2>3. "busy" \in States /\ "idle" \in States
    BY DEF States
  <2>4. CASE Accepted
    <3>1. PICK a : Changes([server EXCEPT ![a] = "busy"])
      BY <2>4, Zenon DEF Accepted
    <3> QED BY <2>2, <2>3, <3>1
  <2>5. CASE ServerMoves
    <3>1. PICK a \in Agents :
            \/ Changes([server EXCEPT ![a] = "busy"])
            \/ Changes([server EXCEPT ![a] = "idle"])
      BY <2>5, Zenon DEF ServerMoves
    <3> QED BY <2>2, <2>3, <3>1
  <2> QED BY <2>1, <2>4, <2>5 DEF ActionFails
<1>3. /\ act' \in ActRecords
      /\ act'.method = act.method /\ act'.text = act.text
      /\ act.method = "send" => act'.id = act.id
  <2>1. act \in ActRecords
    BY DEF ConsoleInv, ConsoleType, TextType
  <2>2. PICK at \in {"ok", "failed"}, a \in Ids :
          \/ act' = act
          \/ act' = [act EXCEPT !.at = at]
          \/ act.method = "create" /\ act' = [act EXCEPT !.at = at, !.id = a]
    <3>1. CASE Accepted
      BY <3>1, Zenon DEF Accepted, Ids
    <3>2. CASE ActionFails
      BY <3>2, Zenon DEF ActionFails, Ids
    <3>3. CASE ServerMoves
      BY <3>3, Zenon DEF ServerMoves, Ids
    <3> QED BY <3>1, <3>2, <3>3
  <2> QED BY <2>1, <2>2 DEF ActRecords
<1>4. \A p \in received' \ received : act.method = "send" /\ p = <<act.id, act.text>>
  BY DEF Accepted, ActionFails, ServerMoves, histories
<1>5. TextsKeepTheirAgent'
  BY <1>1, <1>3, <1>4 DEF ConsoleInv, TextsKeepTheirAgent, TypedFor
<1>6. TextType' /\ ServerType'
  BY <1>1, <1>2, <1>3 DEF ConsoleInv, ConsoleType, TextType, ServerType
<1>7. PollType' /\ page' \in Pages
  BY <1>1 DEF ConsoleInv, ConsoleType, PollType
<1> QED BY <1>5, <1>6, <1>7 DEF ConsoleInv, ConsoleType

\* The end of an action clears texts, and selects what was created with an
\* empty box.
LEMMA ActionEndsClears ==
    ASSUME ConsoleInv, ActionEnds
    PROVE  ConsoleInv'
<1>1. /\ act' = NoAct /\ poll' = Refresh(page', FALSE)
      /\ UNCHANGED <<server, clock, status, typed, received>>
  BY DEF ActionEnds
<1>2. NoAct \in ActRecords /\ NoAct.method = "none"
  BY DEF NoAct, ActRecords, Ids
<1>3. /\ drafts' \in [Agents -> Nat]
      /\ \A a \in Agents : drafts'[a] # 0 => drafts'[a] = drafts[a]
  BY DEF ActionEnds, ConsoleInv, ConsoleType, TextType
<1>4. /\ page' \in Pages
      /\ page'.box # 0 => page'.box = page.box /\ page'.selected = page.selected
  <2>1. CASE page' = page
    BY <2>1 DEF ConsoleInv, ConsoleType
  <2>2. CASE page' = [page EXCEPT !.box = 0]
    BY <2>2 DEF ConsoleInv, ConsoleType, Pages
  <2>3. CASE page' = [selected |-> act.id, box |-> 0,
                      detail |-> [id |-> act.id, state |-> "busy", at |-> clock]]
    <3>1. act.id \in Ids /\ clock \in Nat
      BY DEF ConsoleInv, ConsoleType, TextType, ServerType, ActRecords
    <3> QED BY <2>3, <3>1 DEF Pages, Details, States
  <2> QED BY <2>1, <2>2, <2>3, Zenon DEF ActionEnds
<1>5. PollType'
  <2>1. page'.selected \in Ids
    BY <1>4 DEF Pages
  <2> QED BY <1>1, <2>1, RefreshTypes DEF ConsoleInv, ConsoleType, PollType
<1>6. ServerType' /\ TextType'
  BY <1>1, <1>2, <1>3 DEF ConsoleInv, ConsoleType, ServerType, TextType
<1>7. TextsKeepTheirAgent'
  BY <1>1, <1>2, <1>3, <1>4 DEF ConsoleInv, TextsKeepTheirAgent, TypedFor
<1> QED BY <1>4, <1>5, <1>6, <1>7 DEF ConsoleInv, ConsoleType

LEMMA NextConsole == ConsoleInv /\ [Next]_vars => ConsoleInv'
<1> SUFFICES ASSUME ConsoleInv, [Next]_vars PROVE ConsoleInv'
  OBVIOUS
<1>1. CASE UNCHANGED vars
  BY <1>1 DEF vars, histories, ConsoleInv, ConsoleType, ServerType, PollType,
              TextType, TextsKeepTheirAgent, TypedFor
<1> QED BY <1>1, PollSteps, TypesTyped, SelectSaves, ActsStarts, ServerSteps,
           ActionEndsClears DEF Next

\* A prompt is received by the agent that it was typed for, whatever is typed,
\* selected, created, sent and answered in between.
THEOREM PromptsReach == Spec => []PromptsReachTheirAgent
<1>1. ConsoleInv => PromptsReachTheirAgent
  BY DEF ConsoleInv, TextsKeepTheirAgent, TypedFor, PromptsReachTheirAgent
<1> QED BY <1>1, InitConsole, NextConsole, PTL DEF Spec

-----------------------------------------------------------------------------
(***************************************************************************)
(* The polls.  While the page acts, a poll under way is outdated.  What a  *)
(* poll that is not outdated has read is no older than the last action.    *)
(***************************************************************************)
ActsAlone == Acting /\ Polling => poll.outdated
ReadsFresh ==
    poll.at \in {"status read", "get", "get read"} /\ ~poll.outdated => acted <= poll.read
PollInv == acted \in Nat /\ acted <= clock /\ ActsAlone /\ ReadsFresh

LEMMA InitPolls == Init => PollInv
BY DEF Init, PollInv, ActsAlone, ReadsFresh, Polling, Acting, NoPoll, NewPoll, NoAct

\* Steps that leave a poll alone, but for making it outdated.
LEMMA PollOutdated ==
    ASSUME ConsoleInv, PollInv, poll' \in {poll, Outdated}, acted' = acted, clock' \in Nat,
           clock <= clock', Acting' /\ Polling => Acting \/ poll' = Outdated
    PROVE  PollInv'
<1>1. clock \in Nat /\ poll \in Polls
  BY DEF ConsoleInv, ConsoleType, ServerType, PollType
<1>2. /\ poll'.at = poll.at /\ poll'.read = poll.read
      /\ poll.outdated => poll'.outdated
      /\ poll' = Outdated /\ Polling => poll'.outdated
  BY <1>1 DEF Outdated, Polls
<1>3. ActsAlone'
  BY <1>2, Zenon DEF PollInv, ActsAlone, Polling
<1>4. ReadsFresh'
  BY <1>2, Zenon DEF PollInv, ReadsFresh
<1> QED BY <1>1, <1>3, <1>4 DEF PollInv

\* Steps after which there is no poll, or one that has read nothing.
LEMMA PollAnew ==
    ASSUME ConsoleInv, PollInv, poll'.at = "none" \/ (poll'.at = "status" /\ ~Acting'),
           clock' = clock, acted' \in {acted, clock}
    PROVE  PollInv'
<1>1. clock \in Nat
  BY DEF ConsoleInv, ConsoleType, ServerType
<1>2. ActsAlone'
  BY Zenon DEF ActsAlone, Polling
<1>3. ReadsFresh'
  BY DEF ReadsFresh
<1> QED BY <1>1, <1>2, <1>3 DEF PollInv

LEMMA PollsStay == ConsoleInv /\ PollInv /\ [Next]_vars => PollInv'
<1> SUFFICES ASSUME ConsoleInv, PollInv, [Next]_vars PROVE PollInv'
  OBVIOUS
<1>1. /\ clock \in Nat /\ poll \in Polls
      /\ NoPoll.at = "none" /\ \A id : NewPoll("status", id).at = "status"
  BY DEF ConsoleInv, ConsoleType, ServerType, PollType, NoPoll, NewPoll
<1>2. CASE Timer
  BY <1>1, <1>2, PollAnew DEF Timer, Refresh, Acting, histories
<1>3. CASE ServerReads
  <2>1. /\ poll'.outdated = poll.outdated /\ poll'.read = clock
        /\ UNCHANGED <<clock, act, acted>> /\ Polling
    BY <1>1, <1>3 DEF ServerReads, Polls, Polling, histories
  <2> QED BY <1>1, <2>1 DEF PollInv, ActsAlone, ReadsFresh, Acting
<1>4. CASE StatusShown
  <2>1. UNCHANGED <<clock, act, acted>> /\ poll.at = "status read"
    BY <1>4 DEF StatusShown, histories
  <2>2. CASE poll' = NoPoll
    BY <1>1, <2>1, <2>2, PollAnew
  <2>3. CASE ~poll.outdated /\ poll' = [poll EXCEPT !.at = "get"]
    BY <1>1, <2>1, <2>3 DEF PollInv, ActsAlone, ReadsFresh, Acting, Polling, Polls
  <2> QED BY <1>4, <2>2, <2>3 DEF StatusShown
<1>5. CASE GetShown \/ PollFails
  BY <1>1, <1>5, PollAnew DEF GetShown, PollFails, histories
<1>6. CASE Types \/ ActionFails \/ UNCHANGED vars
  BY <1>1, <1>6, PollOutdated
     DEF Types, ActionFails, vars, histories, Acting, ConsoleInv, ConsoleType, TextType, ActRecords
<1>7. ASSUME NEW a \in Agents, Select(a) PROVE PollInv'
  <2>1. UNCHANGED <<clock, act, acted>>
    BY <1>7 DEF Select, histories
  <2>2. poll' = Outdated \/ poll' = poll \/ (~Acting /\ \E id : poll' = NewPoll("status", id))
    BY <1>7 DEF Select, Refresh
  <2> QED BY <1>1, <2>1, <2>2, PollOutdated, PollAnew DEF Acting
<1>8. CASE Send \/ Create \/ Other
  BY <1>1, <1>8, PollOutdated DEF Send, Create, Other, Acts, histories
<1>9. CASE Accepted
  <2>1. clock' = clock + 1 /\ UNCHANGED <<poll, acted>> /\ act.at = "sent"
    BY <1>9 DEF Accepted, Changes
  <2> QED BY <1>1, <2>1, PollOutdated DEF Acting
<1>10. CASE ServerMoves
  BY <1>1, <1>10, PollOutdated DEF ServerMoves, Changes, Acting, histories
<1>11. CASE ActionEnds
  <2>1. /\ act.at \in {"ok", "failed"} /\ act' = NoAct /\ acted' = clock /\ clock' = clock
        /\ poll' = Refresh(page', FALSE)
    BY <1>11 DEF ActionEnds
  <2>2. CASE Polling
    <3>1. poll' = poll /\ poll.outdated
      BY <2>1, <2>2 DEF Refresh, PollInv, ActsAlone, Acting
    <3>2. ActsAlone' /\ ReadsFresh'
      BY <3>1, Zenon DEF ActsAlone, ReadsFresh
    <3> QED BY <1>1, <2>1, <3>2 DEF PollInv
  <2>3. CASE ~Polling
    <3>1. poll'.at = "status" /\ ~Acting'
      BY <1>1, <2>1, <2>3 DEF Refresh, Acting, NoAct
    <3> QED BY <2>1, <3>1, PollAnew
  <2> QED BY <2>2, <2>3
<1> QED BY <1>2, <1>3, <1>4, <1>5, <1>6, <1>7, <1>8, <1>9, <1>10, <1>11 DEF Next

\* What a poll shows, it has read since the last action, or it shows nothing.
LEMMA ShownIsFresh ==
    ASSUME ConsoleInv, PollInv, [Next]_vars
    PROVE  /\ status' # status => status'.at >= acted
           /\ poll.at = "get read" /\ poll' = NoPoll /\ page' # page
                => page'.detail = NoDetail \/ page'.detail.at >= acted
<1>1. /\ clock \in Nat /\ poll \in Polls /\ page \in Pages /\ acted \in Nat
      /\ NoPoll.at = "none"
  BY DEF ConsoleInv, ConsoleType, ServerType, PollType, PollInv, NoPoll, NewPoll
<1>2. poll.at = "get read" => poll # NoPoll /\ Outdated # NoPoll /\ Polling
  <2>1. poll.at = "get read" => Polling /\ Outdated.at = "get read"
    BY <1>1 DEF Outdated, Polling, Polls
  <2> QED BY <1>1, <2>1
<1>3. CASE StatusShown
  <2>1. page' = page /\ (status' # status => ~poll.outdated /\ status'.at = poll.read)
        /\ poll.at = "status read"
    <3>1. page' = page /\ poll.at = "status read"
      BY <1>3 DEF StatusShown
    <3>2. CASE poll.outdated
      <4>1. status' = status
        BY <1>3, <3>2, Zenon DEF StatusShown
      <4> QED BY <3>1, <4>1
    <3>3. CASE ~poll.outdated
      <4>1. status' = [states |-> poll.states, at |-> poll.read]
        BY <1>3, <3>3, Zenon DEF StatusShown
      <4> QED BY <3>1, <3>3, <4>1
    <3> QED BY <3>2, <3>3
  <2> QED BY <1>1, <2>1 DEF PollInv, ReadsFresh, Polls
<1>4. CASE GetShown
  <2>1. /\ UNCHANGED status /\ poll.at = "get read"
        /\ page' # page => ~poll.outdated /\ page'.detail.at = poll.read
    BY <1>1, <1>4 DEF GetShown, Pages
  <2> QED BY <1>1, <2>1 DEF PollInv, ReadsFresh, Polls
<1>5. CASE PollFails
  BY <1>1, <1>5 DEF PollFails, Pages
<1>6. CASE UNCHANGED <<status, page>>
  BY <1>6
<1>7. ASSUME UNCHANGED status, poll.at = "get read" => poll' \in {poll, Outdated}
      PROVE  /\ status' # status => status'.at >= acted
             /\ poll.at = "get read" /\ poll' = NoPoll /\ page' # page
                  => page'.detail = NoDetail \/ page'.detail.at >= acted
  BY <1>2, <1>7
<1>8. CASE Timer \/ ServerReads \/ Accepted \/ ActionFails \/ ServerMoves \/ UNCHANGED vars
  BY <1>6, <1>8 DEF Timer, ServerReads, Accepted, ActionFails, ServerMoves, vars
<1>9. CASE Types \/ Send \/ Create \/ Other
  BY <1>7, <1>9 DEF Types, Send, Create, Other, Acts
<1>10. ASSUME NEW a \in Agents, Select(a)
       PROVE  UNCHANGED status /\ (poll.at = "get read" => poll' = Outdated)
  BY <1>2, <1>10 DEF Select
<1>11. CASE ActionEnds
  <2>1. UNCHANGED status /\ poll' = Refresh(page', FALSE)
    BY <1>11 DEF ActionEnds
  <2> QED BY <1>2, <1>7, <2>1 DEF Refresh
<1> QED BY <1>3, <1>4, <1>5, <1>7, <1>8, <1>9, <1>10, <1>11 DEF Next

\* No answer of a poll that an action has overtaken is shown (version # revision):
\* the lists and the detail are as the server was after the action, or later.
THEOREM NoLateAnswerShown == Spec => NoLateAnswer
<1>1. ConsoleInv /\ PollInv /\ [Next]_vars =>
        [/\ status' # status => status'.at >= acted
         /\ poll.at = "get read" /\ poll' = NoPoll /\ page' # page
              => page'.detail = NoDetail \/ page'.detail.at >= acted]_vars
  BY ShownIsFresh
<1> QED BY <1>1, InitConsole, NextConsole, InitPolls, PollsStay, PTL DEF Spec, NoLateAnswer
=============================================================================

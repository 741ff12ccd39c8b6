------------------------------- MODULE EventRing -------------------------------
(***************************************************************************)
(* The event log of one agent (Record::event in src/src/agents.rs), which  *)
(* keeps the last EVENT_LIMIT events, and the consoles that read it in     *)
(* steps, each with a cursor (cc.get, and refresh in src/web/agents.js).   *)
(* An event is its id.                                                     *)
(***************************************************************************)
EXTENDS Integers, Sequences, Functions

CONSTANTS
    EventLimit,  \* EVENT_LIMIT
    Consoles,    \* the pages that read the log
    MaxEvents    \* bound: events recorded

ASSUME RingAssumption == EventLimit \in Nat \ {0} /\ MaxEvents \in Nat

VARIABLES
    events,    \* Record::events
    sequence,  \* Record::sequence
    cursor,    \* cursors.get(id) of each console
    answer,    \* the answer of cc.get on its way to a console
    seen,      \* what each console has shown of the log
    notices    \* how often it has shown that earlier events are gone

vars == <<events, sequence, cursor, answer, seen, notices>>
consoleVars == <<cursor, answer, seen, notices>>

Nothing == [events |-> {}, cursor |-> 0, truncated |-> FALSE, busy |-> FALSE]

Init ==
    /\ events = <<>>
    /\ sequence = 0
    /\ cursor = [r \in Consoles |-> 0]
    /\ answer = [r \in Consoles |-> Nothing]
    /\ seen = [r \in Consoles |-> {}]
    /\ notices = [r \in Consoles |-> 0]

\* Slip: the length after the push is compared with >=.
EventTrimmedEarly ==
    /\ sequence < MaxEvents
    /\ sequence' = sequence + 1
    /\ events' = IF Len(events) + 1 >= EventLimit
                   THEN Tail(Append(events, sequence + 1))
                   ELSE Append(events, sequence + 1)
    /\ UNCHANGED consoleVars

\* Record::event: the sequence counts, and the ring drops its oldest event
\* when the new one is too many.
Event ==
    /\ sequence < MaxEvents
    /\ sequence' = sequence + 1
    /\ events' = IF Len(events) + 1 > EventLimit
                   THEN Append(Tail(events), sequence + 1)
                   ELSE Append(events, sequence + 1)
    /\ UNCHANGED consoleVars

Oldest == IF events = <<>> THEN 0 ELSE Head(events)

\* Slip: a reader whose next event is the oldest one kept is told of a gap.
TruncatedEarly(after) == after + 1 <= Oldest

\* "truncated" of cc.get.
Truncated(after) == after + 1 < Oldest

\* "events" of cc.get: those that pass its filter (their order is their ids').
EventsAfter(after) == {e \in Range(events) : e > after}

\* refresh asks, and the server answers with its state of that moment.
Get(r) ==
    /\ ~answer[r].busy
    /\ answer' = [answer EXCEPT ![r] =
                    [events |-> EventsAfter(cursor[r]), cursor |-> sequence,
                     truncated |-> Truncated(cursor[r]), busy |-> TRUE]]
    /\ UNCHANGED <<events, sequence, cursor, seen, notices>>

\* refresh takes the answer: the notice, the events, and the new cursor.
Show(r) ==
    /\ answer[r].busy
    /\ seen' = [seen EXCEPT ![r] = @ \cup answer[r].events]
    /\ notices' = [notices EXCEPT ![r] = @ + IF answer[r].truncated THEN 1 ELSE 0]
    /\ cursor' = [cursor EXCEPT ![r] = answer[r].cursor]
    /\ answer' = [answer EXCEPT ![r] = Nothing]
    /\ UNCHANGED <<events, sequence>>

\* The answer is lost, or is dropped: the user has selected another agent or
\* started an action since (version # revision).
Drop(r) ==
    /\ answer[r].busy
    /\ answer' = [answer EXCEPT ![r] = Nothing]
    /\ UNCHANGED <<events, sequence, cursor, seen, notices>>

Next == Event \/ \E r \in Consoles : Get(r) \/ Show(r) \/ Drop(r)

Spec == Init /\ [][Next]_vars

-----------------------------------------------------------------------------
\* The ring holds the last events recorded, without a hole, as many as fit.
RingIsSuffix ==
    /\ Len(events) = IF sequence < EventLimit THEN sequence ELSE EventLimit
    /\ \A i \in 1 .. Len(events) : events[i] = sequence - Len(events) + i

\* What a console has not been shown up to its cursor.
Missed(r) == (1 .. cursor[r]) \ seen[r]

\* A reader is told that events are gone when, and only when, it has missed
\* one since its last answer.
GapsAnnounced ==
    [][\A r \in Consoles :
          cursor'[r] # cursor[r] =>
             (notices'[r] # notices[r] <=> Missed(r)' # Missed(r))]_vars
=============================================================================

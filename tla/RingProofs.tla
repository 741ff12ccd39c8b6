------------------------------- MODULE RingProofs -------------------------------
(***************************************************************************)
(* Proofs about EventRing, for any size of the ring, any number of events  *)
(* and any consoles: the ring is always the end of the log, and a console  *)
(* is told of a gap just when it has missed an event.                      *)
(***************************************************************************)
EXTENDS EventRing, TLAPS

\* RingIsSuffix is inductive once the ring is a sequence of numbers.
RingInv ==
    /\ sequence \in Nat
    /\ events \in Seq(Nat)
    /\ RingIsSuffix

LEMMA InitRing == Init => RingInv
BY RingAssumption DEF RingAssumption, Init, RingInv, RingIsSuffix

\* Event, while the ring has room and when it is full.
LEMMA EventRings == ASSUME RingInv, Event PROVE RingInv'
<1> DEFINE s == sequence + 1
<1>1. sequence' = s /\ s \in Nat /\ EventLimit \in Nat \ {0}
  BY RingAssumption DEF RingAssumption, Event, RingInv
<1>2. CASE Len(events) + 1 > EventLimit
  <2>1. Len(events) = EventLimit /\ events # <<>> /\ sequence >= EventLimit
    BY <1>1, <1>2 DEF RingInv, RingIsSuffix
  <2>2. events' = Append(Tail(events), s)
    BY <1>2 DEF Event
  <2>3. /\ Tail(events) \in Seq(Nat) /\ Len(Tail(events)) = EventLimit - 1
        /\ \A i \in 1 .. (EventLimit - 1) : Tail(events)[i] = events[i + 1]
    BY <1>1, <2>1 DEF RingInv
  <2> DEFINE rest == Tail(events)
  <2> HIDE DEF s, rest
  <2>4. /\ events' \in Seq(Nat) /\ Len(events') = EventLimit
        /\ events'[EventLimit] = s
        /\ \A i \in 1 .. (EventLimit - 1) : events'[i] = events[i + 1]
    BY <1>1, <2>2, <2>3 DEF rest
  <2>5. ASSUME NEW i \in 1 .. EventLimit
        PROVE  events'[i] = sequence' - EventLimit + i
    <3>1. CASE i = EventLimit
      BY <1>1, <2>4, <3>1
    <3>2. CASE i # EventLimit
      <4>1. i \in 1 .. (EventLimit - 1) /\ i + 1 \in 1 .. EventLimit
        BY <1>1, <3>2
      <4>2. events[i + 1] = sequence - EventLimit + (i + 1)
        BY <2>1, <4>1 DEF RingInv, RingIsSuffix
      <4> QED BY <1>1, <2>4, <4>1, <4>2 DEF s, RingInv
    <3> QED BY <3>1, <3>2
  <2> QED BY <1>1, <2>1, <2>4, <2>5 DEF s, RingInv, RingIsSuffix
<1>3. CASE ~(Len(events) + 1 > EventLimit)
  <2>1. Len(events) = sequence /\ sequence < EventLimit
    BY <1>1, <1>3 DEF RingInv, RingIsSuffix
  <2>2. events' = Append(events, s)
    BY <1>3 DEF Event
  <2> HIDE DEF s
  <2>3. /\ events' \in Seq(Nat) /\ Len(events') = sequence + 1
        /\ events'[sequence + 1] = s
        /\ \A i \in 1 .. sequence : events'[i] = events[i]
    BY <1>1, <2>1, <2>2 DEF RingInv
  <2>4. \A i \in 1 .. sequence : events[i] = i
    BY <2>1 DEF RingInv, RingIsSuffix
  <2> QED BY <1>1, <2>1, <2>3, <2>4 DEF s, RingInv, RingIsSuffix
<1> QED BY <1>2, <1>3

\* The consoles read the ring and leave it alone.
LEMMA ConsolesRing ==
    ASSUME RingInv, UNCHANGED <<events, sequence>>
    PROVE  RingInv'
BY DEF RingInv, RingIsSuffix

LEMMA NextRing == RingInv /\ [Next]_vars => RingInv'
<1> SUFFICES ASSUME RingInv, [Next]_vars PROVE RingInv'
  OBVIOUS
<1>1. CASE Event
  BY <1>1, EventRings
<1>2. ASSUME NEW r \in Consoles, Get(r) \/ Show(r) \/ Drop(r)
      PROVE  RingInv'
  BY <1>2, ConsolesRing DEF Get, Show, Drop
<1>3. CASE UNCHANGED vars
  BY <1>3, ConsolesRing DEF vars
<1> QED BY <1>1, <1>2, <1>3 DEF Next

\* The ring holds the last events recorded, without a hole, as many as fit.
THEOREM RingHoldsTheLatest == Spec => []RingIsSuffix
<1>1. RingInv => RingIsSuffix
  BY DEF RingInv
<1> QED BY <1>1, InitRing, NextRing, PTL DEF Spec

-----------------------------------------------------------------------------
(***************************************************************************)
(* The consoles.  An answer on its way holds what was recorded from some   *)
(* event on, up to its cursor; whether there is a gap before that event    *)
(* does not change on the way, since the console waits for its answer.     *)
(***************************************************************************)
From(oldest, after, last) == {e \in oldest .. last : e > after}

AnswerOf(r) ==
    /\ answer[r].cursor \in cursor[r] .. sequence
    /\ answer[r].truncated \in BOOLEAN
    /\ \E oldest \in 1 .. (answer[r].cursor + 1) :
          /\ answer[r].events = From(oldest, cursor[r], answer[r].cursor)
          /\ answer[r].truncated <=> cursor[r] + 1 < oldest

ReaderInv ==
    /\ cursor \in [Consoles -> Nat] /\ notices \in [Consoles -> Nat]
    /\ DOMAIN seen = Consoles /\ DOMAIN answer = Consoles
    /\ \A r \in Consoles :
          /\ cursor[r] <= sequence
          /\ seen[r] \subseteq 1 .. cursor[r]
          /\ answer[r].busy => AnswerOf(r)

\* The events of an answer, when it is computed.
LEMMA Answered ==
    ASSUME RingInv, NEW after \in Nat, after <= sequence
    PROVE  \E oldest \in 1 .. (sequence + 1) :
              /\ EventsAfter(after) = From(oldest, after, sequence)
              /\ Truncated(after) <=> after + 1 < oldest
<1> DEFINE oldest == sequence - Len(events) + 1
<1>1. /\ sequence \in Nat /\ EventLimit \in Nat \ {0} /\ Len(events) \in Nat
      /\ DOMAIN events = 1 .. Len(events) /\ Len(events) <= sequence
      /\ \A i \in 1 .. Len(events) : events[i] = sequence - Len(events) + i
      /\ Len(events) = 0 => sequence = 0
  BY RingAssumption DEF RingInv, RingIsSuffix
<1>2. oldest \in 1 .. (sequence + 1)
  BY <1>1
<1>3. Range(events) = oldest .. sequence
  <2>1. ASSUME NEW e \in oldest .. sequence
        PROVE  e \in Range(events)
    <3>1. e - oldest + 1 \in 1 .. Len(events) /\ events[e - oldest + 1] = e
      BY <1>1
    <3> QED BY <1>1, <3>1 DEF Range
  <2>2. ASSUME NEW e \in Range(events)
        PROVE  e \in oldest .. sequence
    <3>1. PICK i \in 1 .. Len(events) : e = sequence - Len(events) + i
      BY <1>1 DEF Range
    <3> QED BY <1>1, <3>1
  <2> QED BY <2>1, <2>2
<1>4. EventsAfter(after) = From(oldest, after, sequence)
  BY <1>3 DEF EventsAfter, From
<1>5. Truncated(after) <=> after + 1 < oldest
  <2>1. CASE events = <<>>
    BY <1>1, <2>1 DEF Truncated, Oldest
  <2>2. CASE events # <<>>
    <3>1. Head(events) = oldest
      <4>1. 1 \in 1 .. Len(events) /\ Head(events) = events[1]
        BY <1>1, <2>2 DEF RingInv
      <4> QED BY <1>1, <4>1
    <3> QED BY <2>2, <3>1 DEF Truncated, Oldest
  <2> QED BY <2>1, <2>2
<1> QED BY <1>2, <1>4, <1>5

\* A console that shows an answer misses what is before the oldest event of it.
LEMMA Shown ==
    ASSUME RingInv, ReaderInv, NEW r \in Consoles, Show(r)
    PROVE  /\ cursor'[r] = answer[r].cursor /\ cursor'[r] \in cursor[r] .. sequence
           /\ seen'[r] \subseteq 1 .. cursor'[r]
           /\ notices'[r] \in Nat
           /\ notices'[r] # notices[r] <=> Missed(r)' # Missed(r)
<1>1. /\ AnswerOf(r) /\ sequence \in Nat /\ cursor[r] \in Nat /\ notices[r] \in Nat
      /\ seen[r] \subseteq 1 .. cursor[r]
  BY DEF Show, ReaderInv, RingInv
<1>2. /\ seen'[r] = seen[r] \cup answer[r].events
      /\ notices'[r] = notices[r] + IF answer[r].truncated THEN 1 ELSE 0
      /\ cursor'[r] = answer[r].cursor
  BY DEF Show, ReaderInv
<1>3. PICK last : last = answer[r].cursor
  OBVIOUS
<1>4. last \in cursor[r] .. sequence /\ last \in Nat
  BY <1>1, <1>3 DEF AnswerOf
<1>5. PICK oldest \in 1 .. (last + 1) :
        /\ answer[r].events = From(oldest, cursor[r], last)
        /\ answer[r].truncated <=> cursor[r] + 1 < oldest
  BY <1>1, <1>3 DEF AnswerOf
<1>6. seen'[r] \subseteq 1 .. last
  BY <1>1, <1>2, <1>4, <1>5 DEF From
<1>7. Missed(r)' # Missed(r) <=> cursor[r] + 1 < oldest
  <2>1. CASE cursor[r] + 1 < oldest
    <3>1. cursor[r] + 1 \in 1 .. last /\ cursor[r] + 1 \notin seen'[r]
      BY <1>1, <1>2, <1>4, <1>5, <2>1 DEF From
    <3>2. cursor[r] + 1 \notin 1 .. cursor[r]
      BY <1>1
    <3> QED BY <1>2, <1>3, <2>1, <3>1, <3>2 DEF Missed
  <2>2. CASE ~(cursor[r] + 1 < oldest)
    <3>1. ASSUME NEW e
          PROVE  e \in (1 .. last) \ seen'[r] <=> e \in (1 .. cursor[r]) \ seen[r]
      BY <1>1, <1>2, <1>4, <1>5, <2>2 DEF From
    <3>2. (1 .. last) \ seen'[r] = (1 .. cursor[r]) \ seen[r]
      BY <3>1
    <3> QED BY <1>2, <1>3, <2>2, <3>2 DEF Missed
  <2> QED BY <2>1, <2>2
<1>8. notices'[r] # notices[r] <=> answer[r].truncated
  BY <1>1, <1>2
<1>9. notices'[r] \in Nat
  BY <1>1, <1>2
<1> QED BY <1>2, <1>3, <1>4, <1>5, <1>6, <1>7, <1>8, <1>9

LEMMA InitReaders == Init => ReaderInv
BY DEF Init, ReaderInv, Nothing

LEMMA NextReaders == RingInv /\ ReaderInv /\ [Next]_vars => ReaderInv'
<1> SUFFICES ASSUME RingInv, ReaderInv, [Next]_vars PROVE ReaderInv'
  OBVIOUS
<1>1. sequence \in Nat
  BY DEF RingInv
<1>2. ASSUME UNCHANGED consoleVars, sequence' \in {sequence, sequence + 1}
      PROVE  ReaderInv'
  <2>1. \A r \in Consoles : AnswerOf(r) => AnswerOf(r)'
    BY <1>1, <1>2 DEF ReaderInv, AnswerOf, consoleVars
  <2> QED BY <1>1, <1>2, <2>1 DEF ReaderInv, consoleVars
<1>3. ASSUME NEW r \in Consoles, Get(r) PROVE ReaderInv'
  <2>1. /\ UNCHANGED <<sequence, cursor, seen, notices>>
        /\ answer' = [answer EXCEPT ![r] =
                        [events |-> EventsAfter(cursor[r]), cursor |-> sequence,
                         truncated |-> Truncated(cursor[r]), busy |-> TRUE]]
    BY <1>3 DEF Get
  <2>2. cursor[r] \in Nat /\ cursor[r] <= sequence
    BY DEF ReaderInv
  <2>3. AnswerOf(r)'
    <3>1. /\ answer'[r].events = EventsAfter(cursor[r]) /\ answer'[r].cursor = sequence
          /\ answer'[r].truncated = Truncated(cursor[r])
      BY <2>1 DEF ReaderInv
    <3>2. Truncated(cursor[r]) \in BOOLEAN
      BY DEF Truncated
    <3> QED BY <1>1, <2>1, <2>2, <3>1, <3>2, Answered DEF AnswerOf
  <2>4. \A c \in Consoles \ {r} : answer'[c] = answer[c]
    BY <2>1 DEF ReaderInv
  <2>5. \A c \in Consoles \ {r} : AnswerOf(c) => AnswerOf(c)'
    BY <2>1, <2>4 DEF AnswerOf
  <2> QED BY <2>1, <2>3, <2>4, <2>5 DEF ReaderInv
<1>4. ASSUME NEW r \in Consoles, Show(r) \/ Drop(r) PROVE ReaderInv'
  <2>1. sequence' = sequence /\ answer' = [answer EXCEPT ![r] = Nothing]
    BY <1>4 DEF Show, Drop
  <2>2. ~answer'[r].busy
    BY <2>1 DEF ReaderInv, Nothing
  <2>3. \A c \in Consoles \ {r} : /\ answer'[c] = answer[c] /\ cursor'[c] = cursor[c]
                                  /\ seen'[c] = seen[c] /\ notices'[c] = notices[c]
    BY <1>4, <2>1 DEF Show, Drop, ReaderInv
  <2>4. \A c \in Consoles \ {r} : AnswerOf(c) => AnswerOf(c)'
    BY <2>1, <2>3 DEF AnswerOf
  <2>5. /\ cursor'[r] \in Nat /\ notices'[r] \in Nat /\ cursor'[r] <= sequence
        /\ seen'[r] \subseteq 1 .. cursor'[r]
    BY <1>1, <1>4, Shown DEF Drop, ReaderInv
  <2>6. /\ DOMAIN cursor' = Consoles /\ DOMAIN notices' = Consoles
        /\ DOMAIN seen' = Consoles /\ DOMAIN answer' = Consoles
        /\ cursor' = [c \in Consoles |-> cursor'[c]]
        /\ notices' = [c \in Consoles |-> notices'[c]]
    BY <1>4 DEF Show, Drop, ReaderInv
  <2>7. cursor' \in [Consoles -> Nat] /\ notices' \in [Consoles -> Nat]
    BY <2>3, <2>5, <2>6 DEF ReaderInv
  <2> QED BY <2>1, <2>2, <2>3, <2>4, <2>5, <2>6, <2>7 DEF ReaderInv
<1>5. CASE Event
  BY <1>2, <1>5 DEF Event
<1>6. CASE UNCHANGED vars
  BY <1>2, <1>6 DEF vars, consoleVars
<1> QED BY <1>3, <1>4, <1>5, <1>6 DEF Next

\* cc.get says that earlier events are gone just when the console has missed
\* one since its last answer, however many events passed the ring meanwhile and
\* however many answers were lost.
THEOREM GapsAreAnnounced == Spec => GapsAnnounced
<1>1. RingInv /\ ReaderInv /\ [Next]_vars =>
        [\A r \in Consoles :
           cursor'[r] # cursor[r] =>
              (notices'[r] # notices[r] <=> Missed(r)' # Missed(r))]_vars
  <2> SUFFICES ASSUME RingInv, ReaderInv, Next, NEW r \in Consoles, cursor'[r] # cursor[r]
               PROVE  notices'[r] # notices[r] <=> Missed(r)' # Missed(r)
    BY DEF vars
  <2>1. Show(r)
    BY DEF Next, Event, Get, Show, Drop, consoleVars, ReaderInv
  <2> QED BY <2>1, Shown
<1> QED BY <1>1, InitRing, NextRing, InitReaders, NextReaders, PTL DEF Spec, GapsAnnounced
=============================================================================

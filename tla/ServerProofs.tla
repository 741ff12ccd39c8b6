------------------------------- MODULE ServerProofs -------------------------------
(***************************************************************************)
(* Proofs about Server, for any number of requests, shutdowns and dropped  *)
(* handlers: one initialize succeeds, one that is refused is refused for a *)
(* reason, no handle outlives its pool when the handlers end before        *)
(* AppState::shutdown, and two open pools are never in reach at once.      *)
(***************************************************************************)
EXTENDS Server, FiniteSetTheorems, TLAPS

Users == {"execute", "prestart", "stats"}

Handlers == [method : {"none", "initialize", "execute", "prestart", "stats", "invalid",
                       "shutdown"},
             pc : {"idle", "lock", "install", "use", "wait", "close", "done"},
             handle : Pools \cup {None}, answer : Int]

\* Where a handler is tells its method and the handle it has.
HandlersAre ==
    \A c \in Calls :
        /\ At(c, "install") => /\ calls[c].method = "initialize"
                               /\ calls[c].handle = c /\ pools[c] = "open"
        /\ At(c, "close") => calls[c].method = "shutdown" /\ calls[c].handle \in Pools
        /\ calls[c].pc \in {"use", "wait"} =>
              calls[c].method \in Users /\ calls[c].handle \in Pools

\* While a guard is held across an await the slot is empty: before the
\* installation, and after the take.  The pool in the slot is open.
SlotInv ==
    /\ mutex # None => slot = None
    /\ slot # None => pools[slot] = "open"

\* A graceful shutdown is alone.
ShutdownAlone ==
    graceful =>
        \A c \in Calls :
            calls[c].method = "shutdown" /\ calls[c].pc \notin {"idle", "done"} =>
                /\ draining
                /\ \A d \in Calls \ {c} : calls[d].pc \in {"idle", "done"}

Succeeded == {c \in Calls : /\ calls[c].method = "initialize"
                            /\ At(c, "done") /\ calls[c].answer = 0}
Shut == {c \in Calls : calls[c].method = "shutdown" /\ calls[c].pc \in {"close", "done"}}

\* Each initialize that succeeded fills the slot, and each shutdown empties it.
SlotCounts ==
    /\ Cardinality(Succeeded) <= Cardinality(Shut) + (IF slot = None THEN 0 ELSE 1)
    /\ slot # None => Initialized

ServerInv ==
    /\ TypeOK
    /\ HandlersAre
    /\ SlotInv
    /\ ShutdownAlone
    /\ HandlesAreOpen
    /\ SlotCounts
    /\ RefusedForAReason

\* One handler moves on, and the others stay.
Moves(c, method, pc, handle, answer) ==
    /\ calls' \in [Calls -> Handlers]
    /\ calls'[c].method = method /\ calls'[c].pc = pc
    /\ calls'[c].handle = handle /\ calls'[c].answer = answer
    /\ \A d \in Calls : d # c => calls'[d] = calls[d]

LEMMA InitServer == Init => ServerInv
<1> SUFFICES ASSUME Init PROVE ServerInv
  OBVIOUS
<1>1. TypeOK
  <2>1. slot \in Pools \cup {None} /\ mutex \in Calls \cup {None}
    BY DEF Init
  <2>2. pools \in [Pools -> {"none", "open", "closed"}]
    BY DEF Init
  <2>3. calls \in [Calls -> Handlers]
    BY DEF Init, Handlers
  <2>4. \A c \in Calls : mutex = c <=> calls[c].pc \in {"install", "close"}
    BY DEF Init, Calls, None
  <2>5. graceful \in BOOLEAN /\ draining \in BOOLEAN
    BY Zenon DEF Init
  <2>6. drops \in 0 .. MaxDrops
    BY ServerAssumption DEF Init, ServerAssumption
  <2> QED BY <2>1, <2>2, <2>3, <2>4, <2>5, <2>6 DEF TypeOK, Handlers
<1>2. Succeeded = {} /\ Shut = {}
  BY DEF Init, Succeeded, Shut, At
<1>3. SlotCounts
  BY <1>2, FS_EmptySet DEF SlotCounts, Init
<1>5. RefusedForAReason
  BY DEF RefusedForAReason, Init, AlreadyInitialized
<1>4. HandlersAre /\ SlotInv /\ ShutdownAlone /\ HandlesAreOpen
  BY DEF Init, HandlersAre, At, SlotInv, ShutdownAlone, HandlesAreOpen
<1> QED BY <1>1, <1>3, <1>4, <1>5 DEF ServerInv

LEMMA NoneIsNoCall == None \notin Calls /\ None \notin Pools /\ Calls = Pools
BY ServerAssumption DEF ServerAssumption, None, Calls, Pools

LEMMA Returns ==
    ASSUME TypeOK, NEW c \in Calls, NEW code \in Int, Return(c, code)
    PROVE  Moves(c, calls[c].method, "done", None, code)
<1> DEFINE h == [calls[c] EXCEPT !.pc = "done", !.handle = None, !.answer = code]
<1>1. calls[c] \in Handlers /\ calls \in [Calls -> Handlers]
  BY DEF TypeOK, Handlers
<1>2. /\ h \in Handlers /\ h.method = calls[c].method /\ h.pc = "done"
      /\ h.handle = None /\ h.answer = code
  BY <1>1 DEF Handlers
<1>3. calls' = [calls EXCEPT ![c] = h]
  BY DEF Return
<1> HIDE DEF h
<1> QED BY <1>1, <1>2, <1>3 DEF Moves

LEMMA Codes == {0, NotInitialized, AlreadyInitialized, InvalidParams, Closed, Failed}
                 \subseteq Int
BY DEF NotInitialized, AlreadyInitialized, InvalidParams, Closed, Failed

\* The successes and the shutdowns are finitely many, and a call that moves on
\* adds at most itself.
LEMMA Counting ==
    ASSUME TypeOK, NEW c \in Calls, NEW method, NEW pc, NEW handle, NEW answer,
           Moves(c, method, pc, handle, answer),
           ~At(c, "done")
    PROVE  /\ Cardinality(Succeeded) \in Nat /\ Cardinality(Shut) \in Nat
           /\ Cardinality(Succeeded') =
                Cardinality(Succeeded) +
                  IF method = "initialize" /\ pc = "done" /\ answer = 0 THEN 1 ELSE 0
           /\ Cardinality(Shut') =
                IF c \notin Shut /\ method = "shutdown" /\ pc \in {"close", "done"}
                  THEN Cardinality(Shut) + 1
                ELSE IF c \in Shut /\ ~(method = "shutdown" /\ pc \in {"close", "done"})
                  THEN Cardinality(Shut) - 1
                ELSE Cardinality(Shut)
<1>1. IsFiniteSet(Calls)
  BY ServerAssumption, FS_Interval DEF ServerAssumption, Calls
<1>2. /\ Succeeded \subseteq Calls /\ Shut \subseteq Calls
      /\ Succeeded' \subseteq Calls /\ Shut' \subseteq Calls
  BY DEF Succeeded, Shut, Calls
<1>3. IsFiniteSet(Succeeded) /\ IsFiniteSet(Shut)
  BY <1>1, <1>2, FS_Subset
<1>4. Cardinality(Succeeded) \in Nat /\ Cardinality(Shut) \in Nat
  BY <1>3, FS_CardinalityType
<1>5. c \notin Succeeded
  BY DEF Succeeded
<1>6. \A d \in Calls : d # c =>
        /\ (d \in Succeeded' <=> d \in Succeeded)
        /\ (d \in Shut' <=> d \in Shut)
  BY DEF Moves, Succeeded, Shut, At
<1>7. /\ c \in Succeeded' <=> method = "initialize" /\ pc = "done" /\ answer = 0
      /\ c \in Shut' <=> method = "shutdown" /\ pc \in {"close", "done"}
  BY DEF Moves, Succeeded, Shut, At
<1>8. /\ Succeeded' = IF c \in Succeeded' THEN Succeeded \cup {c} ELSE Succeeded
      /\ Shut' = IF c \in Shut' THEN Shut \cup {c} ELSE Shut \ {c}
  BY <1>2, <1>5, <1>6
<1>9. Cardinality(Succeeded') =
        Cardinality(Succeeded) + IF c \in Succeeded' THEN 1 ELSE 0
  BY <1>3, <1>4, <1>5, <1>8, FS_AddElement
<1>10. Cardinality(Shut') =
         IF c \in Shut' THEN IF c \in Shut THEN Cardinality(Shut) ELSE Cardinality(Shut) + 1
         ELSE IF c \in Shut THEN Cardinality(Shut) - 1 ELSE Cardinality(Shut)
  BY <1>3, <1>4, <1>8, FS_AddElement, FS_RemoveElement
<1> QED BY <1>4, <1>7, <1>9, <1>10

\* What has happened stays.
LEMMA Stays ==
    ASSUME TypeOK, NEW c \in Calls, NEW method, NEW pc, NEW handle, NEW answer,
           Moves(c, method, pc, handle, answer), ~At(c, "done")
    PROVE  /\ Initialized => Initialized'
           /\ method = "initialize" /\ pc = "done" /\ answer = 0 => Initialized'
BY DEF Initialized, Moves, At

\* A handler that holds no guard and takes none.
LEMMA QuietMove ==
    ASSUME ServerInv, NEW c \in Calls, NEW method, NEW pc, NEW handle, NEW answer,
           Moves(c, method, pc, handle, answer),
           UNCHANGED <<slot, mutex, pools, graceful, draining>>,
           drops' \in 0 .. MaxDrops,
           calls[c].pc \notin {"install", "close", "done"},
           pc \in {"lock", "use", "wait", "done"},
           pc \in {"use", "wait"} =>
             /\ method \in Users /\ handle \in Pools
             /\ graceful => pools[handle] = "open",
           method = "initialize" /\ pc = "done" => answer # 0,
           answer = AlreadyInitialized => Initialized,
           method = "shutdown" /\ pc = "lock" /\ graceful =>
             draining /\ \A d \in Calls \ {c} : calls[d].pc \in {"idle", "done"},
           At(c, "idle") /\ method # "shutdown" /\ pc # "done" /\ graceful => ~draining,
           ~At(c, "idle") => method = calls[c].method
    PROVE  ServerInv'
<1> USE DEF ServerInv
<1>1. TypeOK'
  BY DEF TypeOK, Handlers, Moves
<1>2. HandlersAre'
  BY DEF HandlersAre, Moves, At
<1>3. SlotInv'
  BY DEF SlotInv
<1>4. ShutdownAlone'
  <2> SUFFICES ASSUME graceful, NEW d \in Calls, calls'[d].method = "shutdown",
                      calls'[d].pc \notin {"idle", "done"}
               PROVE  draining /\ \A e \in Calls \ {d} : calls'[e].pc \in {"idle", "done"}
    BY DEF ShutdownAlone
  <2>1. calls'[c].method = method /\ calls'[c].pc = pc
    BY DEF Moves
  <2>2. \A e \in Calls : e # c => calls'[e] = calls[e]
    BY DEF Moves
  <2>3. \A b \in Calls :
          calls[b].method = "shutdown" /\ calls[b].pc \notin {"idle", "done"} =>
            draining /\ \A e \in Calls \ {b} : calls[e].pc \in {"idle", "done"}
    BY Zenon DEF ShutdownAlone
  <2>4. CASE d = c
    <3>1. draining /\ \A e \in Calls \ {c} : calls[e].pc \in {"idle", "done"}
      <4>1. method = "shutdown" /\ pc = "lock"
        BY <2>1, <2>4 DEF Users
      <4>2. CASE At(c, "idle")
        BY <4>1, <4>2
      <4>3. CASE ~At(c, "idle")
        BY <2>3, <4>1, <4>3 DEF At
      <4> QED BY <4>2, <4>3
    <3> QED BY <2>2, <2>4, <3>1
  <2>5. CASE d # c
    <3>1. /\ calls[d].method = "shutdown" /\ calls[d].pc \notin {"idle", "done"}
          /\ calls[c].pc \in {"idle", "done"} /\ draining
      BY <2>2, <2>3, <2>5
    <3>2. At(c, "idle")
      BY <3>1 DEF At
    <3>3. pc = "done"
      <4>1. method # "shutdown" \/ pc = "done"
        <5>1. method = "shutdown" => pc \in {"lock", "done"}
          BY DEF Users
        <5> QED BY <3>1, <2>5, <5>1
      <4> QED BY <3>1, <3>2, <4>1, Zenon
    <3> QED BY <2>1, <2>2, <2>3, <2>5, <3>1, <3>3
  <2> QED BY <2>4, <2>5
<1>5. HandlesAreOpen'
  BY DEF HandlesAreOpen, Moves
<1>6. SlotCounts'
  <2>1. Initialized => Initialized'
    BY Stays DEF At
  <2>2. /\ Cardinality(Succeeded) \in Nat /\ Cardinality(Shut) \in Nat
        /\ Cardinality(Succeeded') = Cardinality(Succeeded)
        /\ Cardinality(Shut') \in Nat /\ Cardinality(Shut') >= Cardinality(Shut)
    <3>1. c \notin Shut
      BY DEF Shut
    <3>2. Cardinality(Succeeded') =
            Cardinality(Succeeded) +
              IF method = "initialize" /\ pc = "done" /\ answer = 0 THEN 1 ELSE 0
      BY Counting DEF At
    <3>3. /\ Cardinality(Succeeded) \in Nat /\ Cardinality(Shut) \in Nat
          /\ Cardinality(Shut') \in {Cardinality(Shut), Cardinality(Shut) + 1}
      BY <3>1, Counting DEF At
    <3>4. ~(method = "initialize" /\ pc = "done" /\ answer = 0)
      BY Zenon
    <3> HIDE DEF ServerInv
    <3>5. Cardinality(Succeeded') = Cardinality(Succeeded) + 0
      BY <3>2, <3>4, Zenon
    <3> QED BY <3>3, <3>5
  <2> QED BY <2>1, <2>2 DEF SlotCounts
<1>7. RefusedForAReason'
  BY Stays DEF RefusedForAReason, Moves, At
<1> QED BY <1>1, <1>2, <1>3, <1>4, <1>5, <1>6, <1>7

\* A handler that is under way keeps its method.
LEMMA AloneKept ==
    ASSUME ShutdownAlone, NEW c \in Calls, calls[c].pc \notin {"idle", "done"},
           NEW pc, NEW handle, NEW answer,
           Moves(c, calls[c].method, pc, handle, answer),
           UNCHANGED <<graceful, draining>>
    PROVE  ShutdownAlone'
<1> SUFFICES ASSUME graceful, NEW d \in Calls, calls'[d].method = "shutdown",
                    calls'[d].pc \notin {"idle", "done"}
             PROVE  draining /\ \A e \in Calls \ {d} : calls'[e].pc \in {"idle", "done"}
  BY DEF ShutdownAlone
<1>1. \A e \in Calls : e # c => calls'[e] = calls[e]
  BY DEF Moves
<1>2. /\ calls[d].method = "shutdown" /\ calls[d].pc \notin {"idle", "done"}
  <2>1. CASE d = c
    BY <2>1 DEF Moves
  <2>2. CASE d # c
    BY <1>1, <2>2
  <2> QED BY <2>1, <2>2
<1>3. draining /\ \A e \in Calls \ {d} : calls[e].pc \in {"idle", "done"}
  BY <1>2, Zenon DEF ShutdownAlone
<1>4. d = c
  BY <1>3
<1> QED BY <1>1, <1>3, <1>4

\* The pool is created, and the guard held.
LEMMA CreateOpens ==
    ASSUME ServerInv, NEW c \in Calls, Create(c), slot = None
    PROVE  ServerInv'
<1> USE DEF ServerInv
<1>1. /\ mutex = None /\ mutex' = c
      /\ pools' = [pools EXCEPT ![c] = "open"]
      /\ calls[c].pc = "lock" /\ calls[c].method = "initialize"
      /\ UNCHANGED <<slot, graceful, draining, drops>>
      /\ calls' = [calls EXCEPT ![c] = [@ EXCEPT !.pc = "install", !.handle = c]]
  BY DEF Create, Locks, At
<1>2. Moves(c, calls[c].method, "install", c, calls[c].answer)
  BY <1>1, NoneIsNoCall DEF Moves, TypeOK, Handlers
<1>3. pools' \in [Pools -> {"none", "open", "closed"}]
      /\ pools'[c] = "open" /\ \A p \in Pools : pools[p] = "open" => pools'[p] = "open"
  BY <1>1, NoneIsNoCall DEF TypeOK
<1>4. TypeOK'
  BY <1>1, <1>2, <1>3, NoneIsNoCall DEF TypeOK, Handlers, Moves
<1>5. HandlersAre'
  BY <1>1, <1>2, <1>3, NoneIsNoCall DEF HandlersAre, Moves, At
<1>6. SlotInv'
  BY <1>1 DEF SlotInv
<1>7. ShutdownAlone'
  BY <1>1, <1>2, AloneKept
<1>8. HandlesAreOpen'
  BY <1>1, <1>2, <1>3 DEF HandlesAreOpen, HandlersAre, Moves
<1>9. SlotCounts'
  <2>1. Initialized => Initialized'
    BY <1>1, <1>2, Stays DEF At
  <2>2. c \notin Shut
    BY <1>1 DEF Shut
  <2>3. /\ Cardinality(Succeeded') = Cardinality(Succeeded) + 0
        /\ Cardinality(Shut') = Cardinality(Shut)
    BY <1>1, <1>2, <2>2, Counting DEF At
  <2>4. Cardinality(Succeeded) \in Nat /\ Cardinality(Shut) \in Nat
    BY <1>1, <1>2, Counting DEF At
  <2> QED BY <1>1, <2>1, <2>3, <2>4 DEF SlotCounts
<1>10. RefusedForAReason'
  BY <1>1, <1>2, Stays DEF RefusedForAReason, Moves, At
<1> QED BY <1>4, <1>5, <1>6, <1>7, <1>8, <1>9, <1>10

\* The pool is installed.
LEMMA InstallFills ==
    ASSUME ServerInv, NEW c \in Calls, Install(c)
    PROVE  ServerInv'
<1> USE DEF ServerInv
<1>1. /\ mutex = c /\ mutex' = None /\ slot = None /\ slot' = c
      /\ calls[c].pc = "install" /\ calls[c].method = "initialize" /\ pools[c] = "open"
      /\ UNCHANGED <<pools, graceful, draining, drops>>
  BY NoneIsNoCall DEF Install, At, TypeOK, SlotInv, HandlersAre
<1>2. Moves(c, calls[c].method, "done", None, 0)
  BY Returns DEF Install
<1>3. TypeOK'
  BY <1>1, <1>2, NoneIsNoCall DEF TypeOK, Handlers, Moves
<1>4. HandlersAre'
  BY <1>1, <1>2 DEF HandlersAre, Moves, At
<1>5. SlotInv'
  BY <1>1 DEF SlotInv
<1>6. ShutdownAlone'
  BY <1>1, <1>2, AloneKept
<1>7. HandlesAreOpen'
  BY <1>1, <1>2 DEF HandlesAreOpen, Moves
<1>8. SlotCounts'
  <2>1. Initialized'
    BY <1>1, <1>2, Stays DEF At
  <2>2. c \notin Shut
    BY <1>1 DEF Shut
  <2>3. /\ Cardinality(Succeeded') = Cardinality(Succeeded) + 1
        /\ Cardinality(Shut') = Cardinality(Shut)
    BY <1>1, <1>2, <2>2, Counting, Zenon DEF At
  <2>4. Cardinality(Succeeded) \in Nat /\ Cardinality(Shut) \in Nat
    BY <1>1, <1>2, Counting DEF At
  <2> QED BY <1>1, <2>1, <2>3, <2>4, NoneIsNoCall DEF SlotCounts
<1>9. RefusedForAReason'
  BY <1>1, <1>2, Stays DEF RefusedForAReason, Moves, At
<1> QED BY <1>3, <1>4, <1>5, <1>6, <1>7, <1>8, <1>9

\* The pool is taken from the slot, and the guard held.
LEMMA TakeEmpties ==
    ASSUME ServerInv, NEW c \in Calls, Take(c), slot # None
    PROVE  ServerInv'
<1> USE DEF ServerInv
<1>1. /\ mutex = None /\ mutex' = c /\ slot \in Pools /\ slot' = None
      /\ calls[c].pc = "lock" /\ calls[c].method = "shutdown"
      /\ UNCHANGED <<pools, graceful, draining, drops>>
      /\ calls' = [calls EXCEPT ![c] = [@ EXCEPT !.pc = "close", !.handle = slot]]
  BY DEF Take, Locks, At, TypeOK
<1>2. Moves(c, calls[c].method, "close", slot, calls[c].answer)
  BY <1>1 DEF Moves, TypeOK, Handlers
<1>3. TypeOK'
  BY <1>1, <1>2, NoneIsNoCall DEF TypeOK, Handlers, Moves
<1>4. HandlersAre'
  BY <1>1, <1>2 DEF HandlersAre, Moves, At
<1>5. SlotInv'
  BY <1>1 DEF SlotInv
<1>6. ShutdownAlone'
  BY <1>1, <1>2, AloneKept
<1>7. HandlesAreOpen'
  BY <1>1, <1>2 DEF HandlesAreOpen, Moves
<1>8. SlotCounts'
  <2>1. c \notin Shut
    BY <1>1 DEF Shut
  <2>2. /\ Cardinality(Succeeded') = Cardinality(Succeeded) + 0
        /\ Cardinality(Shut') = Cardinality(Shut) + 1
    BY <1>1, <1>2, <2>1, Counting DEF At
  <2>3. Cardinality(Succeeded) \in Nat /\ Cardinality(Shut) \in Nat
    BY <1>1, <1>2, Counting DEF At
  <2> QED BY <1>1, <2>2, <2>3 DEF SlotCounts
<1>9. RefusedForAReason'
  BY <1>1, <1>2, Stays DEF RefusedForAReason, Moves, At
<1> QED BY <1>3, <1>4, <1>5, <1>6, <1>7, <1>8, <1>9

\* The pool is shut down; nobody has a handle of it if the shutdown is graceful.
LEMMA CloseEnds ==
    ASSUME ServerInv, NEW c \in Calls, Close(c)
    PROVE  ServerInv'
<1> USE DEF ServerInv
<1>1. /\ mutex = c /\ mutex' = None /\ slot = None
      /\ calls[c].pc = "close" /\ calls[c].method = "shutdown"
      /\ pools' = [pools EXCEPT ![calls[c].handle] = "closed"]
      /\ UNCHANGED <<slot, graceful, draining, drops>>
  BY NoneIsNoCall DEF Close, At, TypeOK, SlotInv, HandlersAre
<1>2. Moves(c, calls[c].method, "done", None, 0)
  BY Returns DEF Close
<1>3. pools' \in [Pools -> {"none", "open", "closed"}]
  BY <1>1 DEF TypeOK
<1>4. TypeOK'
  BY <1>1, <1>2, <1>3, NoneIsNoCall DEF TypeOK, Handlers, Moves
<1>5. \A d \in Calls : ~At(d, "install")
  BY <1>1 DEF TypeOK, At
<1>6. HandlersAre'
  BY <1>1, <1>2, <1>5 DEF HandlersAre, Moves, At
<1>7. SlotInv'
  BY <1>1 DEF SlotInv
<1>8. ShutdownAlone'
  BY <1>1, <1>2, AloneKept
<1>9. HandlesAreOpen'
  <2>1. graceful => \A d \in Calls \ {c} : calls[d].pc \in {"idle", "done"}
    BY <1>1 DEF ShutdownAlone
  <2> QED BY <1>1, <1>2, <2>1 DEF HandlesAreOpen, Moves
<1>10. SlotCounts'
  <2>1. c \in Shut
    BY <1>1 DEF Shut
  <2>2. /\ Cardinality(Succeeded') = Cardinality(Succeeded) + 0
        /\ Cardinality(Shut') = Cardinality(Shut)
    BY <1>1, <1>2, <2>1, Counting DEF At
  <2>3. Cardinality(Succeeded) \in Nat /\ Cardinality(Shut) \in Nat
    BY <1>1, <1>2, Counting DEF At
  <2> QED BY <1>1, <2>2, <2>3 DEF SlotCounts
<1>11. RefusedForAReason'
  BY <1>1, <1>2, Stays DEF RefusedForAReason, Moves, At, AlreadyInitialized
<1> QED BY <1>4, <1>6, <1>7, <1>8, <1>9, <1>10, <1>11

\* The handler of an initialize is dropped with the guard and the new pool.
LEMMA DropInstalling ==
    ASSUME ServerInv, NEW c \in Calls, Drop(c), At(c, "install")
    PROVE  ServerInv'
<1> USE DEF ServerInv
<1>1. /\ mutex = c /\ mutex' = None
      /\ calls[c].pc = "install" /\ calls[c].method = "initialize"
      /\ UNCHANGED <<slot, pools, graceful, draining>>
      /\ drops' \in 0 .. MaxDrops
  BY ServerAssumption DEF Drop, At, TypeOK, HandlersAre, ServerAssumption
<1>2. Moves(c, calls[c].method, "done", None, -1)
  BY Returns DEF Drop
<1>3. TypeOK'
  BY <1>1, <1>2, NoneIsNoCall DEF TypeOK, Handlers, Moves
<1>4. HandlersAre'
  BY <1>1, <1>2 DEF HandlersAre, Moves, At
<1>5. SlotInv'
  BY <1>1 DEF SlotInv
<1>6. ShutdownAlone'
  BY <1>1, <1>2, AloneKept
<1>7. HandlesAreOpen'
  BY <1>1, <1>2 DEF HandlesAreOpen, Moves
<1>8. SlotCounts'
  <2>1. Initialized => Initialized'
    BY <1>1, <1>2, Stays DEF At
  <2>2. c \notin Shut
    BY <1>1 DEF Shut
  <2>3. /\ Cardinality(Succeeded') = Cardinality(Succeeded) + 0
        /\ Cardinality(Shut') = Cardinality(Shut)
    BY <1>1, <1>2, <2>2, Counting DEF At
  <2>4. Cardinality(Succeeded) \in Nat /\ Cardinality(Shut) \in Nat
    BY <1>1, <1>2, Counting DEF At
  <2> QED BY <1>1, <2>1, <2>3, <2>4 DEF SlotCounts
<1>9. RefusedForAReason'
  BY <1>1, <1>2, Stays DEF RefusedForAReason, Moves, At, AlreadyInitialized
<1> QED BY <1>3, <1>4, <1>5, <1>6, <1>7, <1>8, <1>9

\* A supervisor ends a pool that nobody refers to.
LEMMA HandlesGoneEnds ==
    ASSUME ServerInv, NEW p \in Pools, HandlesGone(p)
    PROVE  ServerInv'
<1> USE DEF ServerInv
<1>1. /\ UNCHANGED <<slot, mutex, calls, graceful, draining, drops>>
      /\ pools' \in [Pools -> {"none", "open", "closed"}]
      /\ \A q \in Pools : q # p => pools'[q] = pools[q]
  BY DEF HandlesGone, TypeOK
<1>2. p # slot /\ \A c \in Calls : p # calls[c].handle
  BY DEF HandlesGone, Referenced
<1>3. TypeOK' /\ HandlersAre' /\ SlotInv' /\ HandlesAreOpen'
  BY <1>1, <1>2, NoneIsNoCall DEF TypeOK, HandlersAre, SlotInv, HandlesAreOpen, At
<1>4. ShutdownAlone' /\ RefusedForAReason' /\ SlotCounts'
  BY <1>1 DEF ShutdownAlone, RefusedForAReason, SlotCounts, Initialized, Succeeded,
              Shut, At
<1> QED BY <1>3, <1>4

LEMMA SignalDrains == ASSUME ServerInv, Signal PROVE ServerInv'
<1>1. /\ UNCHANGED <<slot, mutex, pools, calls, graceful, drops>>
      /\ draining' = TRUE
  BY DEF Signal
<1> QED
  BY <1>1 DEF ServerInv, TypeOK, HandlersAre, SlotInv, HandlesAreOpen, At, ShutdownAlone,
              RefusedForAReason, SlotCounts, Initialized, Succeeded, Shut

\* A request arrives: a shutdown only after the signal and the last handler,
\* everything else before the signal.
LEMMA RequestQuiet ==
    ASSUME ServerInv, NEW c \in Calls, Request(c)
    PROVE  ServerInv'
<1>1. /\ At(c, "idle") /\ calls[c].pc = "idle"
      /\ UNCHANGED <<slot, mutex, pools, graceful, draining, drops>>
      /\ drops' \in 0 .. MaxDrops
  BY DEF Request, At, ServerInv, TypeOK
<1>2. ASSUME NEW m \in {"initialize", "execute", "prestart", "stats"},
             graceful => ~draining,
             calls' = [calls EXCEPT ![c] = [@ EXCEPT !.method = m, !.pc = "lock"]]
      PROVE  ServerInv'
  <2>1. Moves(c, m, "lock", calls[c].handle, calls[c].answer)
    BY <1>2 DEF Moves, ServerInv, TypeOK, Handlers
  <2>2. calls[c].answer = AlreadyInitialized => Initialized
    BY DEF ServerInv, RefusedForAReason
  <2> QED BY <1>1, <1>2, <2>1, <2>2, QuietMove
<1>3. CASE /\ graceful => ~draining
           /\ calls' = [calls EXCEPT ![c] = [@ EXCEPT !.method = "invalid", !.pc = "done",
                                                     !.answer = InvalidParams]]
  <2>1. Moves(c, "invalid", "done", calls[c].handle, InvalidParams)
    <3>1. InvalidParams \in Int
      BY Codes
    <3> QED BY <1>3, <3>1 DEF Moves, ServerInv, TypeOK, Handlers
  <2> QED BY <1>1, <2>1, QuietMove DEF InvalidParams, AlreadyInitialized
<1>4. CASE /\ MayShutDown(c)
           /\ calls' = [calls EXCEPT ![c] = [@ EXCEPT !.method = "shutdown", !.pc = "lock"]]
  <2>1. Moves(c, "shutdown", "lock", calls[c].handle, calls[c].answer)
    BY <1>4 DEF Moves, ServerInv, TypeOK, Handlers
  <2>2. calls[c].answer = AlreadyInitialized => Initialized
    BY DEF ServerInv, RefusedForAReason
  <2> QED BY <1>1, <1>4, <2>1, <2>2, QuietMove DEF MayShutDown
<1> QED BY <1>2, <1>3, <1>4 DEF Request

\* A handler that waits for the lock or for the pool returns.
LEMMA ReturnQuiet ==
    ASSUME ServerInv, NEW c \in Calls, NEW code \in Int, Return(c, code),
           calls[c].pc \in {"lock", "use", "wait"},
           UNCHANGED <<slot, mutex, pools, graceful, draining>>,
           drops' \in 0 .. MaxDrops,
           calls[c].method = "initialize" => code # 0,
           code = AlreadyInitialized => Initialized
    PROVE  ServerInv'
<1>1. Moves(c, calls[c].method, "done", None, code)
  BY Returns DEF ServerInv
<1> QED BY <1>1, QuietMove DEF At

LEMMA QuietSteps ==
    ASSUME ServerInv, NEW c \in Calls,
           \/ GetPool(c) \/ Use(c) \/ Answer(c)
           \/ Create(c) /\ slot # None
           \/ Take(c) /\ slot = None
           \/ Drop(c) /\ ~At(c, "install")
    PROVE  ServerInv'
<1>1. UNCHANGED <<pools, graceful, draining>> /\ drops' \in 0 .. MaxDrops
  BY ServerAssumption
  DEF GetPool, Use, Answer, Create, Take, Drop, ServerInv, TypeOK, ServerAssumption
<1>2. CASE Create(c) /\ slot # None
  <2>1. AlreadyInitialized \in Int /\ AlreadyInitialized # 0 /\ Initialized
    BY <1>2 DEF AlreadyInitialized, ServerInv, SlotCounts
  <2> QED BY <1>1, <1>2, <2>1, ReturnQuiet DEF Create, Locks, At
<1>3. CASE Take(c) /\ slot = None
  BY <1>1, <1>3, ReturnQuiet DEF Take, Locks, At, AlreadyInitialized
<1>4. CASE Drop(c) /\ ~At(c, "install")
  <2>1. mutex # c
    BY <1>4 DEF Drop, At, ServerInv, TypeOK
  <2> QED BY <1>1, <1>4, <2>1, ReturnQuiet DEF Drop, At, AlreadyInitialized
<1>5. CASE GetPool(c)
  <2>1. calls[c].method \in Users /\ calls[c].pc = "lock"
    BY <1>5 DEF GetPool, Locks, Users, At
  <2>2. CASE slot = None
    BY <1>1, <1>5, <2>1, <2>2, ReturnQuiet
    DEF GetPool, Users, NotInitialized, AlreadyInitialized
  <2>3. CASE slot # None
    <3>1. slot \in Pools /\ pools[slot] = "open"
      BY <2>3 DEF ServerInv, TypeOK, SlotInv
    <3>2. calls' = [calls EXCEPT ![c] = [@ EXCEPT !.pc = "use", !.handle = slot]]
      BY <1>5, <2>3 DEF GetPool
    <3>3. Moves(c, calls[c].method, "use", slot, calls[c].answer)
      BY <3>1, <3>2 DEF Moves, ServerInv, TypeOK, Handlers
    <3>4. calls[c].answer = AlreadyInitialized => Initialized
      BY DEF ServerInv, RefusedForAReason
    <3> QED BY <1>1, <1>5, <2>1, <3>1, <3>3, <3>4, QuietMove DEF GetPool, At
  <2> QED BY <2>2, <2>3
<1>6. CASE Use(c)
  <2>1. calls[c].method \in Users /\ calls[c].pc = "use" /\ calls[c].handle \in Pools
    BY <1>6 DEF Use, At, ServerInv, HandlersAre
  <2>2. CASE pools[calls[c].handle] = "closed"
    BY <1>1, <1>6, <2>1, <2>2, ReturnQuiet DEF Use, Users, Closed, AlreadyInitialized
  <2>3. CASE pools[calls[c].handle] # "closed"
    <3>1. calls' = [calls EXCEPT ![c].pc = "wait"]
      BY <1>6, <2>3 DEF Use
    <3>2. Moves(c, calls[c].method, "wait", calls[c].handle, calls[c].answer)
      BY <3>1 DEF Moves, ServerInv, TypeOK, Handlers
    <3>3. /\ calls[c].answer = AlreadyInitialized => Initialized
          /\ graceful => pools[calls[c].handle] = "open"
      BY <2>1 DEF ServerInv, RefusedForAReason, HandlesAreOpen
    <3> QED BY <1>1, <1>6, <2>1, <3>2, <3>3, QuietMove DEF Use, At
  <2> QED BY <2>2, <2>3
<1>7. CASE Answer(c)
  <2>1. calls[c].method \in Users /\ calls[c].pc = "wait"
    BY <1>7 DEF Answer, At, ServerInv, HandlersAre
  <2>2. PICK code \in {0, Failed, Closed} : Return(c, code)
    BY <1>7, <2>1 DEF Answer, Users
  <2> QED BY <1>1, <1>7, <2>1, <2>2, ReturnQuiet
      DEF Answer, Users, Closed, Failed, AlreadyInitialized
<1> QED BY <1>2, <1>3, <1>4, <1>5, <1>6, <1>7

LEMMA NextServer == ServerInv /\ [Next]_vars => ServerInv'
<1> SUFFICES ASSUME ServerInv, [Next]_vars PROVE ServerInv'
  OBVIOUS
<1>1. CASE UNCHANGED vars
  BY <1>1 DEF vars, ServerInv, TypeOK, HandlersAre, SlotInv, HandlesAreOpen, At,
              ShutdownAlone, RefusedForAReason, SlotCounts, Initialized, Succeeded, Shut
<1>2. ASSUME NEW c \in Calls, CallStep(c) \/ Drop(c)
      PROVE  ServerInv'
  BY <1>2, QuietSteps, CreateOpens, InstallFills, TakeEmpties, CloseEnds, DropInstalling
  DEF CallStep
<1> QED BY <1>1, <1>2, RequestQuiet, HandlesGoneEnds, SignalDrains DEF Next

\* The invariant of every run, with the types of the variables.
THEOREM ServerInvCorrect == Spec => []ServerInv
BY InitServer, NextServer, PTL DEF Spec

\* README.md:214: initialize succeeds only once, and may again only after a
\* shutdown of AppState, whichever handlers are dropped half-way.
THEOREM OneInitialize == Spec => []OneInitializeSucceeds
<1>1. ServerInv => OneInitializeSucceeds
  <2> SUFFICES ASSUME ServerInv PROVE OneInitializeSucceeds
    OBVIOUS
  <2> DEFINE Ended == {c \in Calls : calls[c].method = "shutdown" /\ At(c, "done")}
  <2>1. IsFiniteSet(Ended) /\ IsFiniteSet(Shut) /\ IsFiniteSet(Succeeded)
    <3>1. IsFiniteSet(Calls)
      BY ServerAssumption, FS_Interval DEF ServerAssumption, Calls
    <3>2. Ended \subseteq Calls /\ Shut \subseteq Calls /\ Succeeded \subseteq Calls
      BY DEF Shut, Succeeded
    <3> QED BY <3>1, <3>2, FS_Subset
  <2>2. /\ Cardinality(Ended) \in Nat /\ Cardinality(Shut) \in Nat
        /\ Cardinality(Succeeded) \in Nat
    BY <2>1, FS_CardinalityType
  <2>3. \A c \in Calls : At(c, "close") => mutex = c
    BY DEF ServerInv, TypeOK, At
  <2>4. CASE mutex = None
    <3>1. Shut = Ended
      BY <2>3, <2>4, NoneIsNoCall DEF Shut, At
    <3> QED BY <2>2, <3>1 DEF ServerInv, SlotCounts, OneInitializeSucceeds, Succeeded
  <2>5. CASE mutex # None
    <3>1. slot = None
      BY <2>5 DEF ServerInv, SlotInv
    <3>2. CASE mutex \in Shut /\ At(mutex, "close")
      <4>1. Shut = Ended \cup {mutex} /\ mutex \notin Ended
        BY <2>3, <3>2 DEF Shut, At
      <4>2. Cardinality(Shut) = Cardinality(Ended) + 1
        BY <2>1, <4>1, FS_AddElement
      <4> QED BY <2>2, <3>1, <4>2
          DEF ServerInv, SlotCounts, OneInitializeSucceeds, Succeeded
    <3>3. CASE ~(mutex \in Shut /\ At(mutex, "close"))
      <4>1. Shut = Ended
        BY <2>3, <3>3 DEF Shut, At
      <4> QED BY <2>2, <3>1, <4>1
          DEF ServerInv, SlotCounts, OneInitializeSucceeds, Succeeded
    <3> QED BY <3>2, <3>3
  <2> QED BY <2>4, <2>5
<1> QED BY <1>1, ServerInvCorrect, PTL

\* The initialize that is refused is refused because another has succeeded.
THEOREM RefusedRightly == Spec => []RefusedForAReason
<1>1. ServerInv => RefusedForAReason
  BY DEF ServerInv
<1> QED BY <1>1, ServerInvCorrect, PTL

\* In a graceful shutdown nobody uses a handle whose pool is gone.
THEOREM HandlesOpen == Spec => []HandlesAreOpen
<1>1. ServerInv => HandlesAreOpen
  BY DEF ServerInv
<1> QED BY <1>1, ServerInvCorrect, PTL

-----------------------------------------------------------------------------
\* The pool that handlers may use: the one whose guard is held, or the slot's.
Current == IF mutex # None THEN calls[mutex].handle ELSE slot

\* A handler has a handle only where it uses one, a pool begins with its
\* initialize, nobody else has it before the installation, and whoever has an
\* open one has the current one.
HandleInv ==
    /\ \A c \in Calls :
          /\ calls[c].pc \in {"idle", "lock", "done"} => calls[c].handle = None
          /\ calls[c].pc \in {"idle", "lock"} => pools[c] = "none"
          /\ calls[c].handle # None => pools[calls[c].handle] # "none"
          /\ calls[c].handle # None /\ pools[calls[c].handle] = "open" =>
                calls[c].handle = Current
    /\ \A c, d \in Calls :
          calls[c].pc = "install" /\ c # d => calls[d].handle # c

LEMMA InitHandles == Init => HandleInv
BY NoneIsNoCall DEF Init, HandleInv

\* A handler that takes no guard has no handle left, or the one in the slot.
LEMMA HandleMove ==
    ASSUME ServerInv, HandleInv, NEW c \in Calls,
           NEW method, NEW pc, NEW handle, NEW answer,
           Moves(c, method, pc, handle, answer),
           UNCHANGED <<slot, mutex, pools>>,
           calls[c].pc \notin {"install", "close"},
           pc \in {"lock", "use", "wait", "done"},
           pc = "lock" => calls[c].pc = "idle",
           pc \in {"lock", "done"} => handle = None,
           \/ handle \in {None, calls[c].handle}
           \/ handle = slot /\ mutex = None
    PROVE  HandleInv'
<1>1. /\ calls'[c].pc = pc /\ calls'[c].handle = handle
      /\ \A d \in Calls : d # c => calls'[d] = calls[d]
  BY DEF Moves
<1>2. mutex # c
  BY DEF ServerInv, TypeOK
<1>3. Current' = Current
  BY <1>1, <1>2, NoneIsNoCall DEF Current, ServerInv, TypeOK
<1>4. handle # None => /\ pools[handle] # "none"
                       /\ pools[handle] = "open" => handle = Current
  BY DEF HandleInv, Current, ServerInv, SlotInv
<1>5. \A d \in Calls : calls[d].pc = "install" /\ c # d => handle # d
  BY NoneIsNoCall DEF HandleInv, ServerInv, TypeOK
<1> QED BY <1>1, <1>3, <1>4, <1>5 DEF HandleInv

\* The handlers that move on, and those that only wait.
LEMMA HandlesKept ==
    ASSUME ServerInv, HandleInv, NEW c \in Calls,
           \/ Request(c) \/ GetPool(c) \/ Use(c) \/ Answer(c)
           \/ Create(c) /\ slot # None
           \/ Take(c) /\ slot = None
           \/ Drop(c) /\ ~At(c, "install")
    PROVE  HandleInv'
<1>1. UNCHANGED <<slot, mutex, pools>> /\ calls[c].pc \notin {"install", "close"}
  BY DEF Request, GetPool, Use, Answer, Create, Take, Drop, Locks, At, ServerInv, TypeOK
<1>2. ASSUME NEW code \in Int, Return(c, code) PROVE HandleInv'
  <2>1. Moves(c, calls[c].method, "done", None, code)
    BY <1>2, Returns DEF ServerInv
  <2> QED BY <1>1, <2>1, HandleMove
<1>3. CASE Request(c)
  <2>1. calls[c].pc = "idle" /\ calls[c].handle = None
    BY <1>3 DEF Request, At, HandleInv
  <2>2. ASSUME NEW m \in {"initialize", "execute", "prestart", "stats", "shutdown"},
               calls' = [calls EXCEPT ![c] = [@ EXCEPT !.method = m, !.pc = "lock"]]
        PROVE  HandleInv'
    <3>1. Moves(c, m, "lock", None, calls[c].answer)
      BY <2>1, <2>2 DEF Moves, ServerInv, TypeOK, Handlers
    <3> QED BY <1>1, <2>1, <3>1, HandleMove
  <2>3. ASSUME calls' = [calls EXCEPT ![c] = [@ EXCEPT !.method = "invalid", !.pc = "done",
                                                       !.answer = InvalidParams]]
        PROVE  HandleInv'
    <3>1. Moves(c, "invalid", "done", None, InvalidParams)
      BY <2>1, <2>3, Codes DEF Moves, ServerInv, TypeOK, Handlers
    <3> QED BY <1>1, <2>1, <3>1, HandleMove
  <2> QED BY <1>3, <2>2, <2>3 DEF Request
<1>4. CASE GetPool(c) /\ slot # None
  <2>1. slot \in Pools /\ mutex = None
    BY <1>4 DEF GetPool, Locks, ServerInv, TypeOK
  <2>2. calls' = [calls EXCEPT ![c] = [@ EXCEPT !.pc = "use", !.handle = slot]]
    BY <1>4 DEF GetPool
  <2>3. Moves(c, calls[c].method, "use", slot, calls[c].answer)
    BY <2>1, <2>2 DEF Moves, ServerInv, TypeOK, Handlers
  <2> QED BY <1>1, <2>1, <2>3, HandleMove
<1>5. CASE GetPool(c) /\ slot = None
  BY <1>2, <1>5, Codes DEF GetPool
<1>6. CASE Use(c) /\ pools[calls[c].handle] # "closed"
  <2>1. Moves(c, calls[c].method, "wait", calls[c].handle, calls[c].answer)
    BY <1>6 DEF Use, Moves, ServerInv, TypeOK, Handlers
  <2> QED BY <1>1, <2>1, HandleMove
<1>7. CASE Use(c) /\ pools[calls[c].handle] = "closed"
  BY <1>2, <1>7, Codes DEF Use
<1>8. CASE Answer(c)
  <2>1. PICK code \in {0, Failed, Closed} : Return(c, code)
    BY <1>8 DEF Answer, At, ServerInv, HandlersAre, Users
  <2> QED BY <1>2, <2>1, Codes
<1>9. CASE Create(c) /\ slot # None
  BY <1>2, <1>9, Codes DEF Create
<1>10. CASE Take(c) /\ slot = None
  BY <1>2, <1>10 DEF Take
<1>11. CASE Drop(c)
  BY <1>2, <1>11 DEF Drop
<1> QED BY <1>3, <1>4, <1>5, <1>6, <1>7, <1>8, <1>9, <1>10, <1>11

\* The guards held across an await, and the end of a pool.
LEMMA HandlesChange ==
    ASSUME ServerInv, HandleInv, NEW c \in Calls,
           \/ Create(c) /\ slot = None
           \/ Install(c)
           \/ Take(c) /\ slot # None
           \/ Close(c)
           \/ Drop(c) /\ At(c, "install")
    PROVE  HandleInv'
<1> USE DEF ServerInv
<1>1. CASE Create(c) /\ slot = None
  <2>1. /\ mutex = None /\ mutex' = c /\ UNCHANGED slot
        /\ calls[c].pc = "lock" /\ pools[c] = "none"
        /\ pools' = [pools EXCEPT ![c] = "open"]
        /\ calls' = [calls EXCEPT ![c] = [@ EXCEPT !.pc = "install", !.handle = c]]
    BY <1>1 DEF Create, Locks, At, HandleInv
  <2>2. Moves(c, calls[c].method, "install", c, calls[c].answer)
    BY <2>1, NoneIsNoCall DEF Moves, TypeOK, Handlers
  <2>3. \A d \in Calls : d # c => /\ calls'[d] = calls[d] /\ calls[d].pc # "install"
                                  /\ calls[d].handle # c
    BY <2>1, <2>2, NoneIsNoCall DEF Moves, HandleInv, TypeOK
  <2>4. Current = None /\ Current' = c
    BY <1>1, <2>1, <2>2, NoneIsNoCall DEF Current, Moves
  <2>5. \A p \in Pools : p # c => pools'[p] = pools[p]
    BY <2>1 DEF TypeOK
  <2>6. pools'[c] = "open" /\ calls'[c].pc = "install" /\ calls'[c].handle = c
    BY <2>1, <2>2, NoneIsNoCall DEF TypeOK, Moves
  <2> QED BY <2>3, <2>4, <2>5, <2>6, NoneIsNoCall DEF HandleInv, TypeOK
<1>2. CASE Install(c)
  <2>1. /\ mutex = c /\ mutex' = None /\ slot' = c /\ calls[c].pc = "install"
        /\ calls[c].handle = c /\ UNCHANGED pools
    BY <1>2 DEF Install, At, TypeOK, HandlersAre
  <2>2. Moves(c, calls[c].method, "done", None, 0)
    BY <1>2, Returns DEF Install
  <2>3. Current' = Current
    BY <2>1, NoneIsNoCall DEF Current
  <2> QED BY <2>1, <2>2, <2>3, NoneIsNoCall DEF HandleInv, Moves
<1>3. CASE Take(c) /\ slot # None
  <2>1. /\ mutex = None /\ mutex' = c /\ calls[c].pc = "lock" /\ UNCHANGED pools
        /\ calls' = [calls EXCEPT ![c] = [@ EXCEPT !.pc = "close", !.handle = slot]]
    BY <1>3 DEF Take, Locks, At
  <2>2. Moves(c, calls[c].method, "close", slot, calls[c].answer)
    BY <1>3, <2>1 DEF Moves, TypeOK, Handlers
  <2>3. Current = slot /\ Current' = slot
    BY <2>1, <2>2, NoneIsNoCall DEF Current, Moves
  <2>4. pools[slot] = "open" /\ \A d \in Calls : calls[d].pc # "install"
    BY <1>3, <2>1, NoneIsNoCall DEF SlotInv, TypeOK
  <2> QED BY <2>1, <2>2, <2>3, <2>4 DEF HandleInv, Moves
<1>4. CASE Close(c)
  <2>1. /\ mutex = c /\ mutex' = None /\ slot = None /\ UNCHANGED slot
        /\ calls[c].pc = "close" /\ calls[c].handle \in Pools
        /\ pools' = [pools EXCEPT ![calls[c].handle] = "closed"]
    BY <1>4, NoneIsNoCall DEF Close, At, TypeOK, SlotInv, HandlersAre
  <2>2. Moves(c, calls[c].method, "done", None, 0)
    BY <1>4, Returns DEF Close
  <2>3. Current = calls[c].handle
    BY <2>1, NoneIsNoCall DEF Current
  <2>4. /\ pools'[calls[c].handle] = "closed"
        /\ \A p \in Pools : p # calls[c].handle => pools'[p] = pools[p]
    BY <2>1 DEF TypeOK
  <2>5. \A d \in Calls : d # c => /\ calls'[d] = calls[d] /\ calls[d].pc # "install"
                                  /\ calls[d].handle \in Pools \cup {None}
    BY <2>1, <2>2 DEF Moves, TypeOK
  <2>6. calls'[c].handle = None /\ calls'[c].pc = "done"
    BY <2>2 DEF Moves
  <2>7. \A d \in Calls : calls[d].pc \in {"idle", "lock"} => d # calls[c].handle
    <3>1. pools[calls[c].handle] # "none"
      BY <2>1, NoneIsNoCall DEF HandleInv
    <3> QED BY <3>1 DEF HandleInv
  <2> QED BY <2>3, <2>4, <2>5, <2>6, <2>7, NoneIsNoCall DEF HandleInv
<1>5. CASE Drop(c) /\ At(c, "install")
  <2>1. /\ mutex = c /\ mutex' = None /\ UNCHANGED <<slot, pools>>
        /\ calls[c].pc = "install" /\ calls[c].handle = c
    BY <1>5 DEF Drop, At, TypeOK, HandlersAre
  <2>2. Moves(c, calls[c].method, "done", None, -1)
    BY <1>5, Returns DEF Drop
  <2>3. Current = c
    BY <2>1, NoneIsNoCall DEF Current
  <2>4. \A d \in Calls : d # c => /\ calls'[d] = calls[d] /\ calls[d].handle # c
    BY <2>1, <2>2 DEF Moves, HandleInv
  <2>5. calls'[c].handle = None /\ calls'[c].pc = "done"
    BY <2>2 DEF Moves
  <2>6. \A d \in Calls \ {c} : calls[d].handle # None => pools[calls[d].handle] # "open"
    BY <2>3, <2>4 DEF HandleInv
  <2>7. pools' = pools
    BY <2>1
  <2>8. \A d, e \in Calls : calls'[d].pc = "install" /\ d # e => calls'[e].handle # d
    BY <2>4, <2>5, NoneIsNoCall DEF HandleInv
  <2>9. \A d \in Calls :
          /\ calls'[d].pc \in {"idle", "lock", "done"} => calls'[d].handle = None
          /\ calls'[d].pc \in {"idle", "lock"} => pools[d] = "none"
          /\ calls'[d].handle # None => /\ pools[calls'[d].handle] # "none"
                                       /\ pools[calls'[d].handle] # "open"
    BY <2>4, <2>5, <2>6 DEF HandleInv
  <2> QED BY <2>7, <2>8, <2>9, Zenon DEF HandleInv
<1> QED BY <1>1, <1>2, <1>3, <1>4, <1>5

LEMMA HandlesStay ==
    ASSUME ServerInv, HandleInv,
           Signal \/ (\E p \in Pools : HandlesGone(p)) \/ UNCHANGED vars
    PROVE  HandleInv'
<1>1. UNCHANGED <<slot, mutex, calls>>
  BY DEF Signal, HandlesGone, vars
<1>2. Current' = Current
  BY <1>1 DEF Current
<1>3. \A p \in Pools : /\ pools[p] = "none" <=> pools'[p] = "none"
                       /\ pools'[p] = "open" => pools[p] = "open"
  <2>1. CASE UNCHANGED pools
    BY <2>1
  <2>2. CASE \E p \in Pools : HandlesGone(p)
    BY <2>2 DEF HandlesGone, ServerInv, TypeOK
  <2> QED BY <2>1, <2>2 DEF Signal, vars
<1> QED BY <1>1, <1>2, <1>3, NoneIsNoCall DEF HandleInv, ServerInv, TypeOK

LEMMA NextHandles == ServerInv /\ HandleInv /\ [Next]_vars => HandleInv'
<1> SUFFICES ASSUME ServerInv, HandleInv, [Next]_vars PROVE HandleInv'
  OBVIOUS
<1>1. ASSUME NEW c \in Calls, Request(c) \/ CallStep(c) \/ Drop(c) PROVE HandleInv'
  BY <1>1, HandlesKept, HandlesChange DEF CallStep
<1> QED BY <1>1, HandlesStay DEF Next

\* README.md:214: a server has one pool, also while a shutdown, clones of its
\* handle and the next initialize cross: of two open pools one is out of reach.
THEOREM OnePool == Spec => []OnePoolAtATime
<1>1. ServerInv /\ HandleInv => OnePoolAtATime
  <2> SUFFICES ASSUME ServerInv, HandleInv, NEW p \in Referenced \ {None},
                      pools[p] = "open"
               PROVE  p = Current
    BY DEF OnePoolAtATime
  <2>1. CASE p = slot
    BY <2>1 DEF Current, ServerInv, SlotInv
  <2>2. CASE \E c \in Calls : p = calls[c].handle
    BY <2>2 DEF HandleInv
  <2> QED BY <2>1, <2>2 DEF Referenced
<1> QED BY <1>1, InitHandles, NextHandles, ServerInvCorrect, PTL DEF Spec
=============================================================================

--------------------------------- MODULE Server ---------------------------------
(***************************************************************************)
(* The HTTP server's use of its pool (AppState and rpc in src/src/server.rs,*)
(* run in src/src/bin/process-pool-server.rs): handlers of concurrent      *)
(* requests share one slot for one pool behind a mutex, clone its handle   *)
(* and use it after the mutex is free again.  A handler is dropped at an   *)
(* await when its client goes away.                                        *)
(*                                                                         *)
(* Of a pool only its end is kept: it closes when it is shut down, or when *)
(* its last handle is dropped (HandlesDropped in Supervisor).  What it     *)
(* answers while it is open is any of the answers of ProcessPool.  An      *)
(* answer is the JSON-RPC error code, or 0.                                *)
(***************************************************************************)
EXTENDS Integers, FiniteSets

CONSTANTS
    MaxCalls,   \* bound: requests, and calls of AppState::shutdown
    MaxDrops    \* bound: handlers dropped

ASSUME ServerAssumption == {MaxCalls, MaxDrops} \subseteq Nat

Calls == 1 .. MaxCalls
Pools == Calls   \* a pool is named after the initialize that created it
None == 0

VARIABLES
    slot,      \* AppState::pool
    mutex,     \* the call that holds its guard across an await
    pools,     \* "none", "open" or "closed"
    calls,     \* the handlers: method, pc, the handle they hold, the answer
    graceful,  \* the handlers end before AppState::shutdown, as run() has it;
               \* otherwise AppState is shut down at any moment
    draining,  \* shutdown_signal has completed
    drops      \* what remains of the bound

vars == <<slot, mutex, pools, calls, graceful, draining, drops>>

Init ==
    /\ slot = None
    /\ mutex = None
    /\ pools = [p \in Pools |-> "none"]
    /\ calls = [c \in Calls |-> [method |-> "none", pc |-> "idle", handle |-> None,
                                 answer |-> 0]]
    /\ graceful \in BOOLEAN
    /\ draining = FALSE
    /\ drops = MaxDrops

\* RpcResponse::pool_error.
NotInitialized == -32006
AlreadyInitialized == -32007
InvalidParams == -32602
Closed == -32005
Failed == -32000   \* stands for -32001 .. -32004 too, the other ends of a task

At(c, pc) == calls[c].pc = pc
Return(c, code) ==
    calls' = [calls EXCEPT ![c] = [@ EXCEPT !.pc = "done", !.handle = None,
                                            !.answer = code]]

\* The pools that a call may still reach; a supervisor sees the others closed.
Referenced == {slot} \cup {calls[c].handle : c \in Calls}

Initialized == \E c \in Calls : /\ calls[c].method = "initialize"
                                /\ At(c, "done") /\ calls[c].answer = 0

-----------------------------------------------------------------------------
\* Slip: the listener is closed and the handlers are left running.
MayShutDownUndrained(c) == graceful => draining

\* run: serve returns when the last handler has ended.
MayShutDown(c) ==
    graceful => draining /\ \A d \in Calls \ {c} : calls[d].pc \in {"idle", "done"}

\* A request arrives, and its parameters are looked at before any lock:
\* parse_execute_params, empty_params, the registered factory and validate.
Request(c) ==
    /\ At(c, "idle")
    /\ \A d \in 1 .. (c - 1) : ~At(d, "idle")
    /\ \/ \E m \in {"initialize", "execute", "prestart", "stats"} :
            /\ graceful => ~draining
            /\ calls' = [calls EXCEPT ![c] = [@ EXCEPT !.method = m, !.pc = "lock"]]
       \/ /\ graceful => ~draining
          /\ calls' = [calls EXCEPT ![c] = [@ EXCEPT !.method = "invalid", !.pc = "done",
                                                     !.answer = InvalidParams]]
       \/ /\ MayShutDown(c)
          /\ calls' = [calls EXCEPT ![c] = [@ EXCEPT !.method = "shutdown", !.pc = "lock"]]
    /\ UNCHANGED <<slot, mutex, pools, graceful, draining, drops>>

Signal ==
    /\ ~draining
    /\ draining' = TRUE
    /\ UNCHANGED <<slot, mutex, pools, calls, graceful, drops>>

Locks(c, methods) == At(c, "lock") /\ calls[c].method \in methods /\ mutex = None

\* Slip: the guard is released between the check and the installation.
CreateUnlocked(c) ==
    /\ Locks(c, {"initialize"})
    /\ IF slot # None
         THEN /\ Return(c, AlreadyInitialized)
              /\ UNCHANGED pools
         ELSE /\ pools' = [pools EXCEPT ![c] = "open"]
              /\ calls' = [calls EXCEPT ![c] = [@ EXCEPT !.pc = "install", !.handle = c]]
    /\ UNCHANGED <<slot, mutex, graceful, draining, drops>>

\* Slip: the slot is taken before the stats have come.
CreateInstalling(c) ==
    /\ Locks(c, {"initialize"})
    /\ IF slot # None
         THEN /\ Return(c, AlreadyInitialized)
              /\ UNCHANGED <<slot, mutex, pools>>
         ELSE /\ mutex' = c
              /\ slot' = c
              /\ pools' = [pools EXCEPT ![c] = "open"]
              /\ calls' = [calls EXCEPT ![c] = [@ EXCEPT !.pc = "install", !.handle = c]]
    /\ UNCHANGED <<graceful, draining, drops>>

\* initialize_local: the check, ProcessPool::new, and the wait for its stats
\* with the guard held.
Create(c) ==
    /\ Locks(c, {"initialize"})
    /\ IF slot # None
         THEN /\ Return(c, AlreadyInitialized)
              /\ UNCHANGED <<mutex, pools>>
         ELSE /\ mutex' = c
              /\ pools' = [pools EXCEPT ![c] = "open"]
              /\ calls' = [calls EXCEPT ![c] = [@ EXCEPT !.pc = "install", !.handle = c]]
    /\ UNCHANGED <<slot, graceful, draining, drops>>

\* The stats have come: the pool is installed, and the guard released.
Install(c) ==
    /\ At(c, "install")
    /\ slot' = calls[c].handle
    /\ mutex' = None
    /\ Return(c, 0)
    /\ UNCHANGED <<pools, graceful, draining, drops>>

\* get_pool, and snapshot, which answers without a pool too.
GetPool(c) ==
    /\ Locks(c, {"execute", "prestart", "stats"})
    /\ IF slot = None
         THEN Return(c, IF calls[c].method = "stats" THEN 0 ELSE NotInitialized)
         ELSE calls' = [calls EXCEPT ![c] = [@ EXCEPT !.pc = "use", !.handle = slot]]
    /\ UNCHANGED <<slot, mutex, pools, graceful, draining, drops>>

\* The command is sent through the handle, if anyone receives it.
Use(c) ==
    /\ At(c, "use")
    /\ IF pools[calls[c].handle] = "closed"
         THEN Return(c, Closed)
         ELSE calls' = [calls EXCEPT ![c].pc = "wait"]
    /\ UNCHANGED <<slot, mutex, pools, graceful, draining, drops>>

\* The pool answers; once closed, only Closed.
Answer(c) ==
    /\ At(c, "wait")
    /\ \E code \in IF pools[calls[c].handle] = "closed" THEN {Closed}
                   ELSE CASE calls[c].method = "execute" -> {0, Failed, Closed}
                          [] calls[c].method = "prestart" -> {0, Failed}
                          [] OTHER -> {0} :
          Return(c, code)
    /\ UNCHANGED <<slot, mutex, pools, graceful, draining, drops>>

\* Slip: the guard is released before the pool is shut down.
TakeUnlocked(c) ==
    /\ Locks(c, {"shutdown"})
    /\ IF slot = None
         THEN Return(c, 0)
         ELSE calls' = [calls EXCEPT ![c] = [@ EXCEPT !.pc = "close", !.handle = slot]]
    /\ slot' = None
    /\ UNCHANGED <<mutex, pools, graceful, draining, drops>>

\* AppState::shutdown: take, and pool.shutdown with the guard still held.
Take(c) ==
    /\ Locks(c, {"shutdown"})
    /\ IF slot = None
         THEN Return(c, 0) /\ UNCHANGED mutex
         ELSE /\ mutex' = c
              /\ calls' = [calls EXCEPT ![c] = [@ EXCEPT !.pc = "close", !.handle = slot]]
    /\ slot' = None
    /\ UNCHANGED <<pools, graceful, draining, drops>>

Close(c) ==
    /\ At(c, "close")
    /\ pools' = [pools EXCEPT ![calls[c].handle] = "closed"]
    /\ mutex' = None
    /\ Return(c, 0)
    /\ UNCHANGED <<slot, graceful, draining, drops>>

\* A request's handler is dropped, with its guard and its handle.
Drop(c) ==
    /\ calls[c].pc \in {"lock", "install", "wait"}
    /\ calls[c].method # "shutdown"
    /\ drops > 0
    /\ drops' = drops - 1
    /\ mutex' = IF mutex = c THEN None ELSE mutex
    /\ Return(c, -1)
    /\ UNCHANGED <<slot, pools, graceful, draining>>

\* The supervisor finds its channel closed.
HandlesGone(p) ==
    /\ pools[p] = "open"
    /\ p \notin Referenced
    /\ pools' = [pools EXCEPT ![p] = "closed"]
    /\ UNCHANGED <<slot, mutex, calls, graceful, draining, drops>>

CallStep(c) ==
    \/ Create(c) \/ Install(c)
    \/ GetPool(c) \/ Use(c) \/ Answer(c)
    \/ Take(c) \/ Close(c)

Next ==
    \/ \E c \in Calls : Request(c) \/ CallStep(c) \/ Drop(c)
    \/ \E p \in Pools : HandlesGone(p)
    \/ Signal

Spec == Init /\ [][Next]_vars

-----------------------------------------------------------------------------
\* Every variable has its type; the guard is held across the two awaits only.
TypeOK ==
    /\ slot \in Pools \cup {None}
    /\ mutex \in Calls \cup {None}
    /\ pools \in [Pools -> {"none", "open", "closed"}]
    /\ calls \in [Calls -> [method : {"none", "initialize", "execute", "prestart",
                                      "stats", "invalid", "shutdown"},
                            pc : {"idle", "lock", "install", "use", "wait", "close",
                                  "done"},
                            handle : Pools \cup {None}, answer : Int]]
    /\ \A c \in Calls : mutex = c <=> calls[c].pc \in {"install", "close"}
    /\ graceful \in BOOLEAN /\ draining \in BOOLEAN
    /\ drops \in 0 .. MaxDrops

\* README.md:214: initialize succeeds only once, concurrent ones included; a
\* shut down AppState, which no request reaches in run(), may start over.
OneInitializeSucceeds ==
    Cardinality({c \in Calls : /\ calls[c].method = "initialize"
                               /\ At(c, "done") /\ calls[c].answer = 0})
      <= 1 + Cardinality({c \in Calls : calls[c].method = "shutdown" /\ At(c, "done")})

\* The initialize that is refused is right: some pool is installed, or was
\* before a shutdown; one that was dropped half-way does not block the next.
RefusedForAReason ==
    (\E c \in Calls : calls[c].answer = AlreadyInitialized) => Initialized

\* Nobody uses the pool that a graceful shutdown ends: a handle that was cloned
\* from the slot is not used after the pool behind it is gone.
HandlesAreOpen ==
    graceful => \A c \in Calls :
                   calls[c].pc \in {"use", "wait"} => pools[calls[c].handle] = "open"

\* README.md:214: a server has one pool, so that the limits of its workers hold
\* for the whole server: two open pools are never both in reach, not even while
\* a shutdown closes one, its handle is in use and an initialize creates the next.
OnePoolAtATime ==
    \A p, q \in Referenced \ {None} :
        pools[p] = "open" /\ pools[q] = "open" => p = q
=============================================================================

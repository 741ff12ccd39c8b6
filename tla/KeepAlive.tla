-------------------------------- MODULE KeepAlive --------------------------------
(***************************************************************************)
(* The time that Supervisor leaves out: keep_alive_time and its unit       *)
(* (src/src/config.rs), the tick of the supervisor, and the idle workers   *)
(* above the core that retire_idle_workers removes at a tick               *)
(* (src/src/pool.rs).  Time counts in milliseconds.                        *)
(*                                                                         *)
(* The queue is left out: no worker is idle while a job waits              *)
(* (NoIdleWhileQueued in ProcessPool).                                     *)
(***************************************************************************)
EXTENDS Integers, FiniteSets, FiniteSetsExt

CONSTANTS
    Word,              \* 2^64: keep_alive_time and the seconds are u64
    MillisPerSecond,   \* 1000
    SecondsPerMinute,  \* 60
    MinTick, MaxTick,  \* 50 ms and 1 s
    CorePoolSize,
    MaximumPoolSize,
    MaxKeepAlive,      \* bound: the longest keep_alive that is run
    MaxLate,           \* bound: how late the supervisor is polled for a tick
    MaxTime            \* bound: the length of a run

ASSUME TimeAssumption ==
    /\ {Word, MillisPerSecond, SecondsPerMinute, MinTick, MaxTick,
        MaximumPoolSize} \subseteq Nat \ {0}
    /\ {CorePoolSize, MaxKeepAlive, MaxLate, MaxTime} \subseteq Nat
    /\ MinTick < MaxTick
    /\ CorePoolSize <= MaximumPoolSize

Units == {"milliseconds", "seconds", "minutes"}
Invalid == -1
Busy == -1

\* Slip: the multiplication wraps.
DurationWrapping(unit, value) ==
    CASE unit = "milliseconds" -> value
      [] unit = "seconds" -> value * MillisPerSecond
      [] unit = "minutes" -> ((value * SecondsPerMinute) % Word) * MillisPerSecond

\* TimeUnit::duration; a Duration has room for 2^64 seconds.
Duration(unit, value) ==
    CASE unit = "milliseconds" -> value
      [] unit = "seconds" -> value * MillisPerSecond
      [] unit = "minutes" -> IF value * SecondsPerMinute >= Word THEN Invalid
                             ELSE value * SecondsPerMinute * MillisPerSecond

VARIABLES
    config,      \* keep_alive_time and time_unit
    now,
    next_tick,   \* idle_tick
    idle_since   \* of each worker of the map: when it became idle, or Busy

vars == <<config, now, next_tick, idle_since>>

keep_alive == Duration(config.unit, config.value)

Workers == 1 .. (MaximumPoolSize + 1)
Pool == DOMAIN idle_since
Idle == {w \in Pool : idle_since[w] # Busy}
PoolSize == Cardinality(Pool)
With(w, t) == [v \in Pool \cup {w} |-> IF v = w THEN t ELSE idle_since[v]]

Init ==
    /\ config \in [unit : Units, value : 0 .. (Word - 1)]
    /\ keep_alive \in 0 .. MaxKeepAlive   \* validate refuses an Invalid one
    /\ now = 0
    /\ next_tick = 0   \* the first tick of an interval is due at once
    /\ idle_since = <<>>

\* Slip: the half is not bounded by a second.
IdleTickUnbounded ==
    IF keep_alive = 0 THEN MinTick ELSE Max({MinTick, (keep_alive + 1) \div 2})

\* idle_tick_duration; timers are rounded up to milliseconds.
IdleTick ==
    IF keep_alive = 0 THEN MinTick
    ELSE Max({MinTick, Min({MaxTick, (keep_alive + 1) \div 2})})

\* A worker is started for a job: below the core size always, above it when
\* nobody is idle (MustStart in Supervisor).
Start(w) ==
    /\ w \notin Pool
    /\ PoolSize < CorePoolSize \/ (Idle = {} /\ PoolSize < MaximumPoolSize)
    /\ idle_since' = With(w, Busy)
    /\ UNCHANGED <<config, now, next_tick>>

\* prestart_core_workers and restore_core_workers start idle workers.
StartIdle(w) ==
    /\ w \notin Pool
    /\ PoolSize < CorePoolSize
    /\ idle_since' = With(w, now)
    /\ UNCHANGED <<config, now, next_tick>>

\* A job is dispatched to an idle worker, and ends.
Reuse(w) ==
    /\ w \in Idle
    /\ idle_since' = With(w, Busy)
    /\ UNCHANGED <<config, now, next_tick>>

Finish(w) ==
    /\ w \in Pool \ Idle
    /\ idle_since' = With(w, now)
    /\ UNCHANGED <<config, now, next_tick>>

\* retire_idle_workers: as many of the expired ones as exceed the core.  The
\* next tick is one period after this one (MissedTickBehavior::Delay).
Tick ==
    LET expired == {w \in Idle : now - idle_since[w] >= keep_alive}
        removable == PoolSize - CorePoolSize
    IN  /\ now >= next_tick
        /\ \E R \in SUBSET expired :
              /\ Cardinality(R) = Max({0, Min({removable, Cardinality(expired)})})
              /\ idle_since' = [w \in Pool \ R |-> idle_since[w]]
        /\ next_tick' = now + IdleTick
        /\ UNCHANGED <<config, now>>

Pass ==
    /\ now < MaxTime
    /\ now < next_tick + MaxLate
    /\ now' = now + 1
    /\ UNCHANGED <<config, next_tick, idle_since>>

Next ==
    \/ \E w \in Workers : Start(w) \/ StartIdle(w) \/ Reuse(w) \/ Finish(w)
    \/ Tick \/ Pass

Spec == Init /\ [][Next]_vars

-----------------------------------------------------------------------------
\* README.md:37: keep_alive_time is how long an idle worker above the core
\* lives, give or take a tick: the worker that exceeds the core was idle from
\* the start of its idleness on, though others come, go and are reused.
RetiredInTime ==
    PoolSize > CorePoolSize =>
        \A w \in Idle : now - idle_since[w] < keep_alive + MaxTick + MaxLate

\* A time the pool runs with is longer than every shorter one of the same
\* unit, up to the largest value of the unit: none wraps to a short one.
LongerIsLonger ==
    \A v \in 0 .. (config.value - 1) :
        /\ Duration(config.unit, v) # Invalid
        /\ Duration(config.unit, v) < keep_alive
=============================================================================

--------------------------- MODULE KeepAliveProofs ----------------------------
(***************************************************************************)
(* Proofs about KeepAlive: for every length of a unit, every width of a    *)
(* word, every period of the ticks and every time that is configured, a    *)
(* worker above the core is retired in time, and no time wraps.            *)
(***************************************************************************)
EXTENDS KeepAlive, FiniteSetTheorems, TLAPS

-------------------------------------------------------------------------------
(***************************************************************************)
(* The units.                                                              *)
(***************************************************************************)
LEMMA Constants ==
    /\ Word \in Nat \ {0} /\ MillisPerSecond \in Nat \ {0} /\ SecondsPerMinute \in Nat \ {0}
    /\ MinTick \in Nat \ {0} /\ MaxTick \in Nat \ {0} /\ MinTick < MaxTick
    /\ MaximumPoolSize \in Nat \ {0} /\ CorePoolSize \in Nat
    /\ MaxKeepAlive \in Nat /\ MaxLate \in Nat /\ MaxTime \in Nat
BY TimeAssumption

LEMMA TimesGrow ==
    ASSUME NEW a \in Nat, NEW b \in Nat, NEW n \in Nat \ {0}, a < b
    PROVE  a * n < b * n /\ a * n \in Nat /\ b * n \in Nat
<1>1. PICK d \in Nat : b = a + d /\ d >= 1
  <2>1. b - a \in Nat /\ b = a + (b - a) /\ b - a >= 1
    OBVIOUS
  <2> QED
    BY <2>1
<1>2. b * n = a * n + d * n
  BY <1>1
<1>3. d * n >= 1 /\ a * n \in Nat /\ d * n \in Nat /\ b * n \in Nat
  BY <1>1
<1> QED
  BY <1>2, <1>3

\* A longer time of the same unit is longer, as long as it is one at all.
LEMMA LongerDuration ==
    ASSUME NEW unit \in Units, NEW v \in Nat, NEW value \in Nat, v < value,
           Duration(unit, value) # Invalid
    PROVE  Duration(unit, v) # Invalid /\ Duration(unit, v) < Duration(unit, value)
<1>1. CASE unit = "milliseconds"
  BY <1>1 DEF Duration, Invalid
<1>2. CASE unit = "seconds"
  BY <1>2, Constants, TimesGrow DEF Duration, Invalid
<1>3. CASE unit = "minutes"
  <2>1. PICK s, t : s = v * SecondsPerMinute /\ t = value * SecondsPerMinute
    OBVIOUS
  <2>2. s \in Nat /\ t \in Nat /\ s < t
    BY <2>1, Constants, TimesGrow
  <2>3. ~(t >= Word) /\ Duration(unit, value) = t * MillisPerSecond
    BY <1>3, <2>1 DEF Duration
  <2>4. Duration(unit, v) = s * MillisPerSecond
    BY <1>3, <2>1, <2>2, <2>3, Constants DEF Duration
  <2>5. s * MillisPerSecond < t * MillisPerSecond /\ s * MillisPerSecond \in Nat
    BY <2>2, Constants, TimesGrow
  <2> QED
    BY <2>3, <2>4, <2>5 DEF Invalid
<1> QED
  BY <1>1, <1>2, <1>3 DEF Units

-------------------------------------------------------------------------------
(***************************************************************************)
(* The invariant.  At the last tick no worker above the core had expired   *)
(* that is still idle: LastTick is when it was, or would have been.        *)
(***************************************************************************)
LastTick == next_tick - IdleTick

TimeOK ==
    /\ config \in [unit : Units, value : 0 .. (Word - 1)]
    /\ keep_alive \in Nat
    /\ now \in Nat /\ next_tick \in Nat
    /\ DOMAIN idle_since \subseteq Workers
    /\ \A w \in Pool : idle_since[w] = Busy \/ idle_since[w] \in 0 .. now

\* A worker that became idle at the time of a tick, but after it, is seen by the
\* next one only.  If times are 0 it has expired by then.
Fresh(w) ==
    /\ LastTick <= idle_since[w] + keep_alive
    /\ keep_alive > 0 => LastTick < idle_since[w] + keep_alive

Retired == PoolSize > CorePoolSize => \A w \in Idle : Fresh(w)

IInv == TimeOK /\ LastTick <= now /\ now <= next_tick + MaxLate /\ Retired

LEMMA MaxOfTwo == ASSUME NEW a \in Int, NEW b \in Int
                  PROVE  Max({a, b}) = IF a >= b THEN a ELSE b
<1> DEFINE m == IF a >= b THEN a ELSE b
<1>1. m \in {a, b} /\ \A y \in {a, b} : m >= y
  OBVIOUS
<1>2. \A x \in {a, b} : (\A y \in {a, b} : x >= y) => x = m
  OBVIOUS
<1> QED
  BY <1>1, <1>2 DEF Max

LEMMA MinOfTwo == ASSUME NEW a \in Int, NEW b \in Int
                  PROVE  Min({a, b}) = IF a <= b THEN a ELSE b
<1> DEFINE m == IF a <= b THEN a ELSE b
<1>1. m \in {a, b} /\ \A y \in {a, b} : m <= y
  OBVIOUS
<1>2. \A x \in {a, b} : (\A y \in {a, b} : x <= y) => x = m
  OBVIOUS
<1> QED
  BY <1>1, <1>2 DEF Min

\* The tick is within its limits, and is the shortest when nothing is kept alive.
LEMMA TickBounds ==
    ASSUME keep_alive \in Nat
    PROVE  /\ IdleTick \in Nat \ {0} /\ IdleTick <= MaxTick
           /\ keep_alive = 0 => IdleTick < MaxTick
<1>1. PICK half : half = (keep_alive + 1) \div 2
  OBVIOUS
<1>2. half \in Int
  BY <1>1
<1>3. PICK m : m = Min({MaxTick, half})
  OBVIOUS
<1>4. m \in Int /\ m <= MaxTick
  BY <1>2, <1>3, MinOfTwo, Constants
<1>5. Max({MinTick, m}) = IF MinTick >= m THEN MinTick ELSE m
  BY <1>4, MaxOfTwo, Constants
<1>6. IdleTick = IF keep_alive = 0 THEN MinTick ELSE Max({MinTick, m})
  BY <1>1, <1>3 DEF IdleTick
<1> QED
  BY <1>4, <1>5, <1>6, Constants

LEMMA PoolFinite ==
    ASSUME TimeOK
    PROVE  /\ IsFiniteSet(Pool) /\ PoolSize \in Nat
           /\ \A S \in SUBSET Pool : IsFiniteSet(S) /\ Cardinality(S) \in Nat
<1>1. IsFiniteSet(Workers)
  BY Constants, FS_Interval DEF Workers
<1>2. IsFiniteSet(Pool)
  BY <1>1, FS_Subset DEF TimeOK, Pool
<1> QED
  BY <1>2, FS_Subset, FS_CardinalityType DEF PoolSize

LEMMA OneMore ==
    ASSUME TimeOK, NEW w \in Workers, w \notin Pool, NEW t, idle_since' = With(w, t)
    PROVE  /\ Pool' = Pool \cup {w} /\ PoolSize' = PoolSize + 1
           /\ idle_since'[w] = t /\ \A v \in Pool : idle_since'[v] = idle_since[v]
<1>1. Pool' = Pool \cup {w}
  BY DEF Pool, With
<1>2. PoolSize' = PoolSize + 1
  BY <1>1, PoolFinite, FS_AddElement DEF PoolSize
<1> QED
  BY <1>1, <1>2 DEF With, Pool

LEMMA SamePool ==
    ASSUME TimeOK, NEW w \in Pool, NEW t, idle_since' = With(w, t)
    PROVE  /\ Pool' = Pool /\ PoolSize' = PoolSize
           /\ idle_since'[w] = t /\ \A v \in Pool \ {w} : idle_since'[v] = idle_since[v]
<1>1. Pool' = Pool
  BY DEF Pool, With
<1> QED
  BY <1>1 DEF With, Pool, PoolSize

LEMMA Unchanged ==
    ASSUME UNCHANGED config
    PROVE  /\ keep_alive' = keep_alive /\ IdleTick' = IdleTick
           /\ UNCHANGED next_tick => LastTick' = LastTick
BY DEF keep_alive, IdleTick, LastTick

\* Steps in which no time passes: the workers that were idle are so since when
\* they were, and one more is at most, since now.
LEMMA NoTimePasses ==
    ASSUME IInv, UNCHANGED <<config, now, next_tick>>, TimeOK',
           PoolSize' > CorePoolSize =>
              \A v \in Idle' : \/ v \in Idle /\ idle_since'[v] = idle_since[v]
                                             /\ PoolSize > CorePoolSize
                               \/ idle_since'[v] = now
    PROVE  IInv'
<1>1. keep_alive' = keep_alive /\ LastTick' = LastTick /\ keep_alive \in Nat
      /\ now \in Nat /\ LastTick <= now /\ next_tick \in Nat
  BY Unchanged DEF IInv, TimeOK
<1>2. IdleTick \in Nat /\ LastTick \in Int
  BY <1>1, TickBounds DEF LastTick
<1>3. ASSUME NEW v \in Idle', PoolSize' > CorePoolSize
      PROVE  Fresh(v)'
  <2>1. PICK since : since = idle_since'[v]
    OBVIOUS
  <2>2. CASE since = now
    BY <1>1, <1>2, <2>1, <2>2 DEF Fresh
  <2>3. CASE v \in Idle /\ idle_since'[v] = idle_since[v] /\ PoolSize > CorePoolSize
    BY <1>1, <2>3 DEF Fresh, IInv, Retired
  <2> QED
    BY <1>3, <2>1, <2>2, <2>3
<1> QED
  BY <1>1, <1>3 DEF IInv, Retired

LEMMA StartStays == ASSUME IInv, NEW w \in Workers, Start(w) PROVE IInv'
<1>1. /\ w \notin Pool /\ idle_since' = With(w, Busy) /\ UNCHANGED <<config, now, next_tick>>
      /\ PoolSize < CorePoolSize \/ Idle = {}
  BY DEF Start
<1>2. /\ Pool' = Pool \cup {w} /\ PoolSize' = PoolSize + 1 /\ PoolSize \in Nat
      /\ idle_since'[w] = Busy /\ \A v \in Pool : idle_since'[v] = idle_since[v]
  BY <1>1, OneMore, PoolFinite DEF IInv
<1>3. TimeOK'
  BY <1>1, <1>2, Unchanged DEF IInv, TimeOK, Pool, Workers
<1>4. PoolSize' > CorePoolSize => Idle' = {}
  BY <1>1, <1>2, Constants DEF Idle
<1> QED
  BY <1>1, <1>3, <1>4, NoTimePasses

LEMMA StartIdleStays == ASSUME IInv, NEW w \in Workers, StartIdle(w) PROVE IInv'
<1>1. /\ w \notin Pool /\ idle_since' = With(w, now) /\ UNCHANGED <<config, now, next_tick>>
      /\ PoolSize < CorePoolSize
  BY DEF StartIdle
<1>2. /\ Pool' = Pool \cup {w} /\ PoolSize' = PoolSize + 1 /\ PoolSize \in Nat
      /\ idle_since'[w] = now /\ \A v \in Pool : idle_since'[v] = idle_since[v]
  BY <1>1, OneMore, PoolFinite DEF IInv
<1>3. TimeOK'
  BY <1>1, <1>2, Unchanged DEF IInv, TimeOK, Pool, Workers
<1>4. ~(PoolSize' > CorePoolSize)
  BY <1>1, <1>2, Constants
<1> QED
  BY <1>1, <1>3, <1>4, NoTimePasses

LEMMA ReuseStays == ASSUME IInv, NEW w, Reuse(w) PROVE IInv'
<1>1. /\ w \in Pool /\ idle_since' = With(w, Busy) /\ UNCHANGED <<config, now, next_tick>>
  BY DEF Reuse, Idle
<1>2. /\ Pool' = Pool /\ PoolSize' = PoolSize
      /\ idle_since'[w] = Busy /\ \A v \in Pool \ {w} : idle_since'[v] = idle_since[v]
  BY <1>1, SamePool DEF IInv
<1>3. TimeOK'
  BY <1>1, <1>2, Unchanged DEF IInv, TimeOK, Pool, Workers
<1>4. \A v \in Idle' : v \in Idle /\ idle_since'[v] = idle_since[v]
  BY <1>2 DEF Idle
<1> QED
  BY <1>1, <1>2, <1>3, <1>4, NoTimePasses

LEMMA FinishStays == ASSUME IInv, NEW w, Finish(w) PROVE IInv'
<1>1. /\ w \in Pool /\ idle_since' = With(w, now) /\ UNCHANGED <<config, now, next_tick>>
  BY DEF Finish
<1>2. /\ Pool' = Pool /\ PoolSize' = PoolSize
      /\ idle_since'[w] = now /\ \A v \in Pool \ {w} : idle_since'[v] = idle_since[v]
  BY <1>1, SamePool DEF IInv
<1>3. TimeOK'
  BY <1>1, <1>2, Unchanged DEF IInv, TimeOK, Pool, Workers
<1>4. \A v \in Idle' :
        \/ v \in Idle /\ idle_since'[v] = idle_since[v]
        \/ idle_since'[v] = now
  BY <1>2 DEF Idle
<1> QED
  BY <1>1, <1>2, <1>3, <1>4, NoTimePasses

LEMMA PassStays == ASSUME IInv, Pass PROVE IInv'
<1>1. now' = now + 1 /\ now < next_tick + MaxLate /\ UNCHANGED <<config, next_tick, idle_since>>
  BY DEF Pass
<1>2. TimeOK'
  BY <1>1, Unchanged DEF IInv, TimeOK, Pool, Workers
<1>3. Retired' /\ LastTick' = LastTick
  BY <1>1, Unchanged DEF IInv, Retired, Fresh, PoolSize, Pool, Idle
<1>4. LastTick \in Int /\ now \in Nat /\ next_tick \in Nat
  BY TickBounds DEF IInv, TimeOK, LastTick
<1> QED
  BY <1>1, <1>2, <1>3, <1>4, Constants DEF IInv

\* When the pool still exceeds the core after a tick, all that had expired are gone.
LEMMA TickStays == ASSUME IInv, Tick PROVE IInv'
<1> DEFINE expired == {w \in Idle : now - idle_since[w] >= keep_alive}
           removable == PoolSize - CorePoolSize
<1>1. PICK R \in SUBSET expired :
        /\ Cardinality(R) = Max({0, Min({removable, Cardinality(expired)})})
        /\ idle_since' = [w \in Pool \ R |-> idle_since[w]]
  BY DEF Tick
<1>2. now >= next_tick /\ next_tick' = now + IdleTick /\ UNCHANGED <<config, now>>
  BY DEF Tick
<1>3. TimeOK /\ keep_alive' = keep_alive /\ IdleTick' = IdleTick
  BY <1>2, Unchanged DEF IInv
<1>4. IdleTick \in Nat \ {0} /\ now \in Nat /\ keep_alive \in Nat
  BY <1>3, TickBounds DEF TimeOK
<1>5. LastTick' = now /\ next_tick' \in Nat
  BY <1>2, <1>3, <1>4 DEF LastTick
<1>6. /\ Pool' = Pool \ R
      /\ \A v \in Pool' : idle_since'[v] = idle_since[v]
  BY <1>1 DEF Pool
<1>7. TimeOK'
  BY <1>2, <1>3, <1>5, <1>6 DEF TimeOK, Pool, Workers
<1>8. ASSUME PoolSize' > CorePoolSize
      PROVE  R = expired
  <2>1. expired \subseteq Pool /\ R \subseteq Pool
    BY DEF Idle
  <2>2. /\ IsFiniteSet(expired) /\ Cardinality(expired) \in Nat
        /\ IsFiniteSet(R) /\ Cardinality(R) \in Nat /\ IsFiniteSet(Pool) /\ PoolSize \in Nat
    BY <1>3, <2>1, PoolFinite
  <2>3. PoolSize' = PoolSize - Cardinality(R)
    <3>1. Pool \cap R = R
      BY <2>1
    <3>2. Cardinality(Pool \ R) = Cardinality(Pool) - Cardinality(Pool \cap R)
      BY <2>2, FS_Difference
    <3> QED
      BY <1>6, <3>1, <3>2 DEF PoolSize
  <2>4. PICK n : n = Min({removable, Cardinality(expired)})
    OBVIOUS
  <2>5. removable \in Int /\ n \in Int
        /\ n = IF removable <= Cardinality(expired) THEN removable ELSE Cardinality(expired)
    BY <2>2, <2>4, MinOfTwo, Constants
  <2>6. Cardinality(R) = IF 0 >= n THEN 0 ELSE n
    BY <1>1, <2>4, <2>5, MaxOfTwo
  <2>7. Cardinality(R) < removable
    BY <1>8, <2>2, <2>3, Constants
  <2>8. Cardinality(R) = Cardinality(expired)
    BY <2>2, <2>5, <2>6, <2>7
  <2> QED
    BY <2>2, <2>8, FS_Subset
<1>9. ASSUME PoolSize' > CorePoolSize, NEW v \in Idle'
      PROVE  Fresh(v)'
  <2>1. v \in Idle /\ v \in Pool /\ v \notin R /\ idle_since'[v] = idle_since[v]
    BY <1>6, <1>9 DEF Idle
  <2>2. ~(now - idle_since[v] >= keep_alive)
    BY <1>8, <1>9, <2>1
  <2>3. idle_since[v] \in 0 .. now
    BY <1>3, <2>1 DEF TimeOK, Idle
  <2>4. now < idle_since[v] + keep_alive
    BY <1>4, <2>2, <2>3
  <2> QED
    BY <1>3, <1>4, <1>5, <2>1, <2>3, <2>4 DEF Fresh
<1> QED
  BY <1>2, <1>4, <1>5, <1>7, <1>9, Constants DEF IInv, Retired

LEMMA Invariance == Spec => []IInv
<1>1. Init => IInv
  <2> SUFFICES ASSUME Init PROVE IInv
    OBVIOUS
  <2>1. keep_alive \in Nat /\ now = 0 /\ next_tick = 0 /\ Pool = {}
    BY Constants DEF Init, Pool
  <2>2. IdleTick \in Nat
    BY <2>1, TickBounds
  <2>3. Idle = {}
    BY <2>1 DEF Idle
  <2>4. TimeOK
    BY <2>1 DEF TimeOK, Init, Pool
  <2> QED
    BY <2>1, <2>2, <2>3, <2>4, Constants DEF IInv, Retired, LastTick
<1>2. IInv /\ [Next]_vars => IInv'
  <2>1. IInv /\ UNCHANGED vars => IInv'
    BY DEF IInv, TimeOK, Retired, Fresh, LastTick, IdleTick, keep_alive, Idle, PoolSize,
           Pool, vars
  <2> QED
    BY <2>1, StartStays, StartIdleStays, ReuseStays, FinishStays, TickStays, PassStays
       DEF Next
<1> QED
  BY <1>1, <1>2, PTL DEF Spec

-------------------------------------------------------------------------------
\* A worker above the core is idle for its keep-alive time, a tick of
\* idle_tick_duration and the delay of its poll, and not as long as the longest.
THEOREM IdleAreRetired == Spec => []RetiredInTime
<1>1. IInv => RetiredInTime
  <2> SUFFICES ASSUME IInv, PoolSize > CorePoolSize, NEW w \in Idle
               PROVE  now - idle_since[w] < keep_alive + MaxTick + MaxLate
    BY DEF RetiredInTime
  <2>1. TimeOK /\ Fresh(w) /\ now <= next_tick + MaxLate
    BY DEF IInv, Retired
  <2>2. now \in Nat /\ next_tick \in Nat /\ keep_alive \in Nat /\ idle_since[w] \in 0 .. now
    BY <2>1 DEF TimeOK, Idle
  <2>3. /\ IdleTick \in Nat /\ IdleTick <= MaxTick
        /\ keep_alive = 0 => IdleTick < MaxTick
    BY <2>2, TickBounds
  <2> QED
    BY <2>1, <2>2, <2>3, Constants DEF Fresh, LastTick
<1> QED
  BY <1>1, Invariance, PTL

\* TimeUnit::duration is monotonic in each unit up to the longest time that it
\* accepts, whatever the width of the word: checked_mul refuses what would wrap.
THEOREM NoTimeWraps == Spec => []LongerIsLonger
<1>1. IInv => LongerIsLonger
  <2> SUFFICES ASSUME IInv, NEW v \in 0 .. (config.value - 1)
               PROVE  /\ Duration(config.unit, v) # Invalid
                      /\ Duration(config.unit, v) < keep_alive
    BY DEF LongerIsLonger
  <2>1. /\ config.unit \in Units /\ config.value \in Nat /\ keep_alive \in Nat
    BY Constants DEF IInv, TimeOK
  <2>2. v \in Nat /\ v < config.value
    BY <2>1
  <2>3. keep_alive = Duration(config.unit, config.value) /\ keep_alive # Invalid
    BY <2>1 DEF keep_alive, Invalid
  <2> QED
    BY <2>1, <2>2, <2>3, LongerDuration
<1> QED
  BY <1>1, Invariance, PTL
===============================================================================

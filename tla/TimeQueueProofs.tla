--------------------------- MODULE TimeQueueProofs ---------------------------
(***************************************************************************)
(* Proofs about TimeQueue, for any finite set of timers, any delays and    *)
(* any settings of the wall clock: type correctness, TimerfdInStep and     *)
(* OnlyNewTimersAreLost.                                                   *)
(***************************************************************************)
EXTENDS TimeQueue, FiniteSetTheorems, WellFoundedInduction, TLAPS

-----------------------------------------------------------------------------
(***************************************************************************)
(* The order of timers_: a finite set of entries has a first one.          *)
(***************************************************************************)

\* The entry <<f[i], i>> comes before, or is, <<f[j], j>>.
NotAfter(f, i, j) == f[i] < f[j] \/ (f[i] = f[j] /\ i <= j)

HasFirst(f, S) == \E i \in S : \A j \in S : NotAfter(f, i, j)

LEMMA FirstExists ==
    ASSUME NEW S \in SUBSET Nat, IsFiniteSet(S), NEW f, \A i \in S : f[i] \in Int
    PROVE  \A T \in SUBSET S : T # {} => HasFirst(f, T)
<1> DEFINE Less == StrictSubsetOrdering(S)
           Bad == {T \in SUBSET S : T # {} /\ ~HasFirst(f, T)}
<1>1. IsWellFoundedOn(Less, SUBSET S)
  BY FS_StrictSubsetOrderingWellFounded, FS_FiniteSubsetsOfFinite, Zenon
<1>2. SUFFICES ASSUME Bad # {} PROVE FALSE
  OBVIOUS
<1>3. PICK T \in Bad : \A U \in Bad : <<U, T>> \notin Less
  <2> Bad \subseteq SUBSET S
    OBVIOUS
  <2> HIDE DEF Less, Bad
  <2> QED
    BY <1>1, <1>2, WFMin
<1>4. PICK x \in T : TRUE
  OBVIOUS
<1> DEFINE U == T \ {x}
<1>5. <<U, T>> \in Less
  BY <1>4 DEF StrictSubsetOrdering
<1>6. U = {} \/ HasFirst(f, U)
  BY <1>3, <1>5
<1>7. T \subseteq Nat /\ x \in Nat /\ f[x] \in Int /\ \A j \in T : f[j] \in Int
  BY <1>4
<1>8. CASE U = {}
  <2>1. \A j \in T : j = x
    BY <1>8
  <2>2. NotAfter(f, x, x)
    BY <1>7 DEF NotAfter
  <2> QED
    BY <1>4, <2>1, <2>2 DEF HasFirst
<1>9. CASE HasFirst(f, U)
  <2>1. PICK y \in U : \A j \in U : NotAfter(f, y, j)
    BY <1>9 DEF HasFirst
  <2>2. y \in T /\ y \in Nat /\ f[y] \in Int
    BY <1>7, <2>1
  <2>3. \A j \in T : j = x \/ j \in U
    OBVIOUS
  <2>4. NotAfter(f, x, x)
    BY <1>7 DEF NotAfter
  <2>5. CASE NotAfter(f, y, x)
    BY <2>1, <2>2, <2>3, <2>5 DEF HasFirst
  <2>6. CASE ~NotAfter(f, y, x)
    <3>1. ASSUME NEW j \in U PROVE NotAfter(f, x, j)
      <4>1. j \in Nat /\ f[j] \in Int /\ NotAfter(f, y, j)
        BY <1>7, <2>1
      <4> QED
        BY <1>7, <2>2, <2>6, <4>1 DEF NotAfter
    <3> QED
      BY <1>4, <2>3, <2>4, <3>1 DEF HasFirst
  <2> QED
    BY <2>5, <2>6
<1> QED
  BY <1>6, <1>8, <1>9

\* Every set of timers that are in a queue ts has a first one.
LEMMA FirstTimer ==
    ASSUME NEW ts \in [Timers -> Int \cup {NoTime}],
           NEW S \in SUBSET {i \in Timers : ts[i] # NoTime}, S # {}
    PROVE  HasFirst(ts, S)
<1> DEFINE P == {i \in Timers : ts[i] # NoTime}
<1>1. P \in SUBSET Nat /\ IsFiniteSet(P)
  BY TimeQueueAssumption, FS_Subset
<1>2. \A i \in P : ts[i] \in Int
  OBVIOUS
<1> HIDE DEF P
<1>3. \A T \in SUBSET P : T # {} => HasFirst(ts, T)
  BY <1>1, <1>2, FirstExists
<1> QED
  BY <1>3 DEF P

\* Begin returns the earliest expiry of a queue that is not empty.
LEMMA BeginIsEarliest ==
    ASSUME NEW ts \in [Timers -> Int \cup {NoTime}], NEW k \in Timers, ts[k] # NoTime
    PROVE  /\ Begin(ts) \in Int
           /\ \E i \in Timers : ts[i] # NoTime /\ ts[i] = Begin(ts)
           /\ \A i \in Timers : ts[i] # NoTime => Begin(ts) <= ts[i]
<1> DEFINE P == {j \in Timers : ts[j] # NoTime}
           V == {ts[i] : i \in P}
<1>1. PICK i \in P : \A j \in P : NotAfter(ts, i, j)
  BY FirstTimer DEF HasFirst
<1>2. \A j \in P : ts[j] \in Int
  OBVIOUS
<1>3. ts[i] \in V /\ \A v \in V : ts[i] <= v
  BY <1>1, <1>2 DEF NotAfter
<1>4. Begin(ts) = CHOOSE v \in V : \A w \in V : v <= w
  BY DEF Begin, Min
<1>5. Begin(ts) \in V /\ \A w \in V : Begin(ts) <= w
  <2> HIDE DEF V
  <2> QED
    BY <1>3, <1>4, Zenon
<1> QED
  BY <1>2, <1>5

\* First returns a member.
LEMMA FirstIsMember ==
    ASSUME TypeOK, NEW S \in SUBSET Pending, S # {}
    PROVE  First(S) \in S
<1>1. HasFirst(timers, S)
  BY FirstTimer DEF TypeOK, Pending
<1> QED
  BY <1>1, Zenon DEF HasFirst, NotAfter, First

LEMMA MaxOfTwo ==
    \A a, b \in Int : Max({a, b}) \in Int /\ Max({a, b}) >= a /\ Max({a, b}) >= b
<1> SUFFICES ASSUME NEW a \in Int, NEW b \in Int
             PROVE  Max({a, b}) \in Int /\ Max({a, b}) >= a /\ Max({a, b}) >= b
  OBVIOUS
<1>1. \E x \in {a, b} : \A y \in {a, b} : x >= y
  OBVIOUS
<1>2. Max({a, b}) \in {a, b} /\ \A y \in {a, b} : Max({a, b}) >= y
  BY <1>1, Zenon DEF Max
<1> QED
  BY <1>2

LEMMA ArmedForBounds ==
    ASSUME NEW t \in Int
    PROVE  ArmedFor(t) \in Nat /\ ArmedFor(t) >= t /\ ArmedFor(t) >= 1
  BY DEF ArmedFor

\* What ResetTimerfd arms the timerfd for.
LEMMA RearmBounds ==
    ASSUME NEW ts \in [Timers -> Int \cup {NoTime}], NEW k \in Timers, ts[k] # NoTime
    PROVE  /\ ArmedFor(Begin(ts)) \in Nat
           /\ \E i \in Timers : ts[i] # NoTime /\ ts[i] <= ArmedFor(Begin(ts))
           /\ \A i \in Timers : ts[i] # NoTime => ArmedFor(Begin(ts)) <= ArmedFor(ts[i])
<1>1. /\ Begin(ts) \in Int
      /\ \E i \in Timers : ts[i] # NoTime /\ ts[i] = Begin(ts)
      /\ \A i \in Timers : ts[i] # NoTime => Begin(ts) <= ts[i]
  BY BeginIsEarliest
<1>2. \A i \in Timers : ts[i] # NoTime => ts[i] \in Int
  OBVIOUS
<1> HIDE DEF Begin
<1>3. ASSUME NEW i \in Timers, ts[i] # NoTime
      PROVE  ArmedFor(Begin(ts)) <= ArmedFor(ts[i])
  BY <1>1, <1>2, <1>3 DEF ArmedFor
<1> QED
  BY <1>1, <1>3, ArmedForBounds

-----------------------------------------------------------------------------
(***************************************************************************)
(* The inductive invariant.                                                *)
(***************************************************************************)

\* Outside HandleTimers its variables are reset; what it will erase was due or is new.
HandlerInv ==
    /\ phase \in {"idle", "reported"} =>
          active_timers = {} /\ to_run = {} /\ executing = NoTimer /\ before_end = {}
    /\ before_end \subseteq active_timers \cup new
    /\ readable => armed = NoTime

\* As long as nobody sets the clock, the timerfd does not expire before the first timer,
\* so that nothing inserted between the expiration and the read comes first.
ClockInv ==
    jumps = 0 =>
        /\ readable \/ phase = "running" => \E i \in Pending : timers[i] <= 0
        /\ armed # NoTime => phase # "running" /\ \E i \in Pending : timers[i] <= armed
        /\ phase = "running" => ~readable
        /\ phase = "reported" => readable
        /\ phase # "exited"

\* ArmedForFirst, timer by timer.
ArmedInv ==
    phase \in {"idle", "reported"} /\ Pending # {} =>
        \/ readable
        \/ /\ armed # NoTime
           /\ jumps = 0 => \A i \in Pending : armed <= ArmedFor(timers[i])

TimerInv == TypeOK /\ HandlerInv /\ ClockInv /\ ArmedInv

LEMMA TimerInvInit == Init => TimerInv
<1> SUFFICES ASSUME Init PROVE TimerInv
  OBVIOUS
<1>1. Pending = {}
  BY DEF Init, Pending
<1>2. jumps = 0 /\ MaxJumps \in Nat
  BY TimeQueueAssumption DEF Init
<1>3. readable \in BOOLEAN
  BY Zenon DEF Init
<1>4. TypeOK
  <2>1. jumps \in 0 .. MaxJumps
    BY <1>2
  <2> QED
    BY <1>3, <2>1 DEF Init, TypeOK
<1>5. HandlerInv /\ ClockInv /\ ArmedInv
  BY <1>1 DEF Init, HandlerInv, ClockInv, ArmedInv
<1> QED
  BY <1>4, <1>5 DEF TimerInv

\* Steps that leave the timers alone.
LEMMA TickStep ==
    ASSUME TimerInv, Tick
    PROVE  TimerInv'
<1>1. /\ timers' = [i \in Timers |-> Later(timers[i])]
      /\ armed' = IF armed = 0 THEN 0 ELSE Later(armed)
      /\ UNCHANGED <<readable, phase, active_timers, to_run, executing, end, before_end, new,
                     lost, jumps>>
  BY DEF Tick, handler
<1>2. TypeOK /\ HandlerInv /\ ClockInv /\ ArmedInv
  BY DEF TimerInv
<1>3. /\ timers \in [Timers -> Int \cup {NoTime}] /\ armed \in Nat \cup {NoTime}
      /\ NoTime \notin Int
  BY <1>2, TimeQueueAssumption DEF TypeOK
<1>4. \A i \in Timers :
         /\ timers'[i] = Later(timers[i])
         /\ timers[i] = NoTime => timers'[i] = NoTime
         /\ timers[i] # NoTime => timers[i] \in Int /\ timers'[i] \in Int
  BY <1>1, <1>3 DEF Later
<1>5. Pending' = Pending
  BY <1>3, <1>4 DEF Pending
<1>6. /\ timers' \in [Timers -> Int \cup {NoTime}]
      /\ armed' \in Nat \cup {NoTime}
      /\ armed' = NoTime <=> armed = NoTime
  <2>1. timers' \in [Timers -> Int \cup {NoTime}]
    BY <1>1, <1>3, <1>4
  <2>2. armed' \in Nat \cup {NoTime} /\ (armed' = NoTime <=> armed = NoTime)
    BY <1>1, <1>3 DEF Later
  <2> QED
    BY <2>1, <2>2
<1>7. TypeOK'
  BY <1>1, <1>2, <1>5, <1>6, Zenon DEF TypeOK
<1>8. HandlerInv'
  BY <1>1, <1>2, <1>5, <1>6, Zenon DEF HandlerInv
<1>9. ClockInv'
  <2>1. \A i \in Pending : timers[i] <= 0 => timers'[i] <= 0
    BY <1>3, <1>4 DEF Pending, Later
  <2>2. \A i \in Pending : armed # NoTime /\ timers[i] <= armed => timers'[i] <= armed'
    BY <1>1, <1>3, <1>4 DEF Pending, Later
  <2> QED
    BY <1>1, <1>2, <1>5, <1>6, <2>1, <2>2 DEF ClockInv
<1>10. ArmedInv'
  <2>1. ASSUME NEW i \in Pending, armed # NoTime, armed <= ArmedFor(timers[i])
        PROVE  armed' <= ArmedFor(timers'[i])
    BY <1>1, <1>3, <1>4, <2>1 DEF Pending, Later, ArmedFor
  <2> QED
    BY <1>1, <1>2, <1>5, <1>6, <2>1 DEF ArmedInv
<1> QED
  BY <1>7, <1>8, <1>9, <1>10 DEF TimerInv

LEMMA SetClockStep ==
    ASSUME TimerInv, NEW d \in Jumps, SetClock(d)
    PROVE  TimerInv'
<1> DEFINE From(late, i) == IF timers[i] < 0 THEN - late[i] ELSE timers[i]
<1>1. /\ jumps < MaxJumps /\ jumps' = jumps + 1
      /\ UNCHANGED <<armed, readable, phase, active_timers, to_run, executing, end,
                     before_end, new, lost>>
  BY DEF SetClock, handler
<1>2. PICK late \in [Pending -> 1 .. Max({d + 1, 1})] :
         timers' = [i \in Timers |-> IF i \notin Pending THEN NoTime
                                     ELSE Max({d + From(late, i), -1})]
  BY DEF SetClock
<1>3. TypeOK /\ HandlerInv /\ ClockInv /\ ArmedInv
  BY DEF TimerInv
<1>4. /\ timers \in [Timers -> Int \cup {NoTime}]
      /\ NoTime \notin Int
      /\ d \in Int
      /\ jumps \in 0 .. MaxJumps /\ MaxJumps \in Nat
  BY <1>3, TimeQueueAssumption DEF TypeOK
<1>5. \A i \in Pending : Max({d + From(late, i), -1}) \in Int
  <2>1. Max({d + 1, 1}) \in Int
    <3>1. d + 1 \in Int /\ 1 \in Int
      BY <1>4
    <3> QED
      BY <3>1, MaxOfTwo, Zenon
  <2>2. \A i \in Pending : late[i] \in Int
    BY <2>1
  <2>3. \A i \in Pending : d + From(late, i) \in Int
    BY <1>4, <2>2 DEF Pending
  <2>4. -1 \in Int
    OBVIOUS
  <2> QED
    BY <2>3, <2>4, MaxOfTwo, Zenon
<1>6. timers' \in [Timers -> Int \cup {NoTime}] /\ Pending' = Pending
  <2> DEFINE New(i) == Max({d + From(late, i), -1})
  <2>1. timers' = [i \in Timers |-> IF i \notin Pending THEN NoTime ELSE New(i)]
    BY <1>2
  <2>2. \A i \in Pending : New(i) \in Int
    BY <1>5
  <2> HIDE DEF New
  <2>3. timers' \in [Timers -> Int \cup {NoTime}]
    BY <2>1, <2>2
  <2>4. \A i \in Timers : timers'[i] = NoTime <=> i \notin Pending
    BY <1>4, <2>1, <2>2
  <2> QED
    BY <2>3, <2>4 DEF Pending
<1>7. jumps' \in 0 .. MaxJumps /\ jumps' # 0
  BY <1>1, <1>4
<1>8. TypeOK'
  BY <1>1, <1>3, <1>6, <1>7, Zenon DEF TypeOK
<1>9. HandlerInv'
  BY <1>1, <1>3, <1>6, Zenon DEF HandlerInv
<1>10. ClockInv' /\ ArmedInv'
  BY <1>1, <1>3, <1>6, <1>7, Zenon DEF ClockInv, ArmedInv
<1> QED
  BY <1>8, <1>9, <1>10 DEF TimerInv

LEMMA TimerfdExpiresStep ==
    ASSUME TimerInv, TimerfdExpires
    PROVE  TimerInv'
<1>1. /\ armed = 0 /\ armed' = NoTime /\ readable' = TRUE
      /\ UNCHANGED <<timers, phase, active_timers, to_run, executing, end, before_end, new,
                     lost, jumps>>
  BY DEF TimerfdExpires, handler
<1>2. TypeOK /\ HandlerInv /\ ClockInv /\ ArmedInv
  BY DEF TimerInv
<1>3. Pending' = Pending /\ armed # NoTime
  BY <1>1, TimeQueueAssumption DEF Pending
<1>4. TypeOK'
  BY <1>1, <1>2, <1>3, Zenon DEF TypeOK
<1>5. HandlerInv' /\ ClockInv' /\ ArmedInv'
  BY <1>1, <1>2, <1>3, Zenon DEF HandlerInv, ClockInv, ArmedInv
<1> QED
  BY <1>4, <1>5 DEF TimerInv

LEMMA PollStep ==
    ASSUME TimerInv, Poll
    PROVE  TimerInv'
<1>1. /\ phase = "idle" /\ readable /\ phase' = "reported"
      /\ UNCHANGED <<timers, armed, readable, active_timers, to_run, executing, end,
                     before_end, new, lost, jumps>>
  BY DEF Poll, handler
<1>2. TypeOK /\ HandlerInv /\ ClockInv /\ ArmedInv
  BY DEF TimerInv
<1>3. Pending' = Pending
  BY <1>1 DEF Pending
<1>4. TypeOK'
  BY <1>1, <1>2, <1>3, Zenon DEF TypeOK
<1>5. HandlerInv' /\ ClockInv' /\ ArmedInv'
  BY <1>1, <1>2, <1>3 DEF HandlerInv, ClockInv, ArmedInv
<1> QED
  BY <1>4, <1>5 DEF TimerInv

\* An insertion, wherever it comes from: only a timer that comes first sets the timerfd,
\* and nothing comes before a timer that has expired.
LEMMA InsertedStep ==
    ASSUME TimerInv, NEW i \in Fresh, NEW t \in Nat \ {0}, Inserted(i, t),
           UNCHANGED <<phase, jumps>>, phase # "exited"
    PROVE  /\ timers' \in [Timers -> Int \cup {NoTime}]
           /\ armed' \in Nat \cup {NoTime}
           /\ readable' \in BOOLEAN
           /\ i \in Timers
           /\ Pending' = Pending \cup {i}
           /\ readable' => armed' = NoTime
           /\ ClockInv'
           /\ ArmedInv'
<1>1. timers' = [timers EXCEPT ![i] = t]
  BY DEF Inserted
<1>2. TypeOK /\ HandlerInv /\ ClockInv /\ ArmedInv
  BY DEF TimerInv
<1>3. /\ timers \in [Timers -> Int \cup {NoTime}]
      /\ armed \in Nat \cup {NoTime} /\ readable \in BOOLEAN
      /\ NoTime \notin Int
      /\ i \in Timers /\ i \notin Pending
  BY <1>2, TimeQueueAssumption DEF TypeOK, Fresh
<1>4. timers' \in [Timers -> Int \cup {NoTime}]
  BY <1>1, <1>3
<1>5. timers'[i] = t /\ \A j \in Timers : j # i => timers'[j] = timers[j]
  BY <1>1, <1>3
<1>6. Pending' = Pending \cup {i}
  BY <1>3, <1>5 DEF Pending
<1>7. \A j \in Pending : j \in Timers /\ timers[j] \in Int /\ timers'[j] = timers[j]
  BY <1>3, <1>5 DEF Pending
<1>8. CASE Resets(t)
  <2>1. armed' = ArmedFor(Begin(timers')) /\ readable' = FALSE
    BY <1>8 DEF Inserted
  <2>2. i \in Timers /\ timers'[i] # NoTime
    BY <1>3, <1>5
  <2>3. /\ armed' \in Nat
        /\ \E j \in Pending' : timers'[j] <= armed'
        /\ \A j \in Pending' : armed' <= ArmedFor(timers'[j])
    <3>1. /\ ArmedFor(Begin(timers')) \in Nat
          /\ \E j \in Timers : timers'[j] # NoTime /\ timers'[j] <= ArmedFor(Begin(timers'))
          /\ \A j \in Timers : timers'[j] # NoTime => ArmedFor(Begin(timers')) <= ArmedFor(timers'[j])
      BY <1>4, <2>2, RearmBounds
    <3> QED
      BY <2>1, <3>1 DEF Pending
  <2>4. jumps = 0 => phase = "idle"
    <3>1. ASSUME NEW j \in Pending, timers[j] <= 0
          PROVE  FALSE
      <4>1. Begin(timers) \in Int /\ Begin(timers) <= timers[j]
        BY <1>3, <1>7, BeginIsEarliest DEF Pending
      <4>2. t < Begin(timers)
        BY <1>8, <3>1 DEF Resets
      <4> QED
        BY <1>7, <3>1, <4>1, <4>2
    <3> QED
      BY <1>2, <3>1 DEF ClockInv, TypeOK
  <2>5. ClockInv'
    BY <1>3, <2>1, <2>3, <2>4 DEF ClockInv
  <2>6. ArmedInv'
    BY <1>3, <2>1, <2>3 DEF ArmedInv
  <2> QED
    BY <1>3, <1>4, <1>6, <2>1, <2>3, <2>5, <2>6
<1>9. CASE ~Resets(t)
  <2>1. UNCHANGED <<armed, readable>>
    BY <1>9 DEF Inserted
  <2>2. PICK k \in Pending : timers[k] <= t
    <3>1. PICK j \in Pending : TRUE
      BY <1>9 DEF Resets
    <3>2. /\ Begin(timers) \in Int /\ Begin(timers) <= t
          /\ \E l \in Timers : timers[l] # NoTime /\ timers[l] = Begin(timers)
      <4>1. j \in Timers /\ timers[j] # NoTime
        BY DEF Pending
      <4>2. /\ Begin(timers) \in Int
            /\ \E l \in Timers : timers[l] # NoTime /\ timers[l] = Begin(timers)
        BY <1>3, <4>1, BeginIsEarliest
      <4>3. ~(t < Begin(timers))
        BY <1>9 DEF Resets
      <4> QED
        BY <4>2, <4>3
    <3> QED
      BY <3>2 DEF Pending
  <2>3. \A j \in Pending : armed # NoTime /\ armed <= ArmedFor(timers[j]) => armed <= ArmedFor(timers'[j])
    BY <1>7
  <2>4. armed # NoTime /\ armed <= ArmedFor(timers[k]) => armed <= ArmedFor(timers'[i])
    BY <1>3, <1>5, <1>7, <2>2 DEF ArmedFor
  <2>5. ArmedInv'
    BY <1>2, <1>6, <2>1, <2>2, <2>3, <2>4 DEF ArmedInv
  <2>6. ClockInv'
    BY <1>2, <1>6, <1>7, <2>1 DEF ClockInv
  <2> QED
    BY <1>2, <1>3, <1>4, <1>6, <2>1, <2>5, <2>6 DEF HandlerInv
<1> QED
  BY <1>8, <1>9

LEMMA RunAfterStep ==
    ASSUME TimerInv, RunAfter
    PROVE  TimerInv'
<1>1. PICK i \in Fresh, t \in Nat \ {0} : Insert(i, t) \/ InsertFromCallback(i, t)
  BY TimeQueueAssumption DEF RunAfter
<1>2. TypeOK /\ HandlerInv
  BY DEF TimerInv
<1>3. /\ Inserted(i, t) /\ phase # "exited"
      /\ UNCHANGED <<phase, active_timers, to_run, executing, end, lost, jumps>>
  BY <1>1 DEF Insert, InsertFromCallback, handler
<1>4. /\ timers' \in [Timers -> Int \cup {NoTime}]
      /\ armed' \in Nat \cup {NoTime} /\ readable' \in BOOLEAN
      /\ Pending' = Pending \cup {i}
      /\ readable' => armed' = NoTime
      /\ ClockInv' /\ ArmedInv'
  BY <1>3, InsertedStep
<1>5. CASE Insert(i, t)
  <2>1. UNCHANGED <<before_end, new>>
    BY <1>5 DEF Insert, handler
  <2>2. TypeOK'
    BY <1>2, <1>3, <1>4, <2>1 DEF TypeOK
  <2>3. HandlerInv'
    BY <1>2, <1>3, <1>4, <2>1, Zenon DEF HandlerInv
  <2> QED
    BY <1>4, <2>2, <2>3 DEF TimerInv
<1>6. CASE InsertFromCallback(i, t)
  <2>1. /\ phase = "running"
        /\ before_end' \in {before_end, before_end \cup {i}}
        /\ new' = new \cup {i}
    BY <1>6 DEF InsertFromCallback
  <2>2. TypeOK'
    BY <1>2, <1>3, <1>4, <2>1 DEF TypeOK
  <2>3. HandlerInv'
    BY <1>2, <1>3, <1>4, <2>1 DEF HandlerInv
  <2> QED
    BY <1>4, <2>2, <2>3 DEF TimerInv
<1> QED
  BY <1>1, <1>5, <1>6

LEMMA StartTimersStep ==
    ASSUME TimerInv, NEW probe, StartTimers(probe)
    PROVE  TimerInv'
<1> DEFINE E == Expired(probe)
<1>1. /\ phase = "reported"
      /\ phase' = IF readable THEN "running" ELSE "exited"
      /\ readable' = FALSE
      /\ active_timers' = E /\ to_run' = E /\ before_end' = E
      /\ end' = IF Pending \ E = {} THEN NoTimer ELSE First(Pending \ E)
      /\ UNCHANGED <<timers, armed, executing, new, lost, jumps>>
  BY DEF StartTimers
<1>2. TypeOK /\ HandlerInv /\ ClockInv /\ ArmedInv
  BY DEF TimerInv
<1>3. E \subseteq Pending /\ Pending' = Pending
  BY <1>1 DEF Expired, Pending
<1>4. end' \in Pending \cup {NoTimer}
  <2>1. Pending \ E # {} => First(Pending \ E) \in Pending
    BY <1>2, FirstIsMember
  <2> QED
    BY <1>1, <2>1
<1>5. executing = NoTimer
  BY <1>1, <1>2 DEF HandlerInv
<1> HIDE DEF E
<1>6. TypeOK'
  BY <1>1, <1>2, <1>3, <1>4, <1>5 DEF TypeOK
<1>7. HandlerInv'
  BY <1>1 DEF HandlerInv
<1>8. ClockInv'
  BY <1>1, <1>2, <1>3 DEF ClockInv, HandlerInv
<1>9. ArmedInv'
  BY <1>1 DEF ArmedInv
<1> QED
  BY <1>6, <1>7, <1>8, <1>9 DEF TimerInv

LEMMA RunTimerStep ==
    ASSUME TimerInv, NEW i \in Timers, RunTimer(i)
    PROVE  TimerInv'
<1>1. /\ phase = "running" /\ i \in to_run
      /\ to_run' = to_run \ {i} /\ executing' = i
      /\ UNCHANGED <<timers, armed, readable, phase, active_timers, end, before_end, new,
                     lost, jumps>>
  BY DEF RunTimer
<1>2. TypeOK /\ HandlerInv /\ ClockInv /\ ArmedInv
  BY DEF TimerInv
<1>3. Pending' = Pending
  BY <1>1 DEF Pending
<1>4. TypeOK'
  BY <1>1, <1>2, <1>3 DEF TypeOK
<1>5. HandlerInv' /\ ClockInv' /\ ArmedInv'
  BY <1>1, <1>2, <1>3 DEF HandlerInv, ClockInv, ArmedInv
<1> QED
  BY <1>4, <1>5 DEF TimerInv

LEMMA FinishTimersStep ==
    ASSUME TimerInv, FinishTimers
    PROVE  TimerInv'
<1>1. /\ phase = "running" /\ to_run = {}
      /\ timers' = AfterErase
      /\ IF Rearms
         THEN armed' = ArmedFor(Begin(AfterErase)) /\ readable' = FALSE
         ELSE UNCHANGED <<armed, readable>>
      /\ phase' = "idle"
      /\ lost' = lost \cup (before_end \ active_timers)
      /\ active_timers' = {} /\ executing' = NoTimer /\ end' = NoTimer
      /\ before_end' = {} /\ new' = {}
      /\ UNCHANGED <<to_run, jumps>>
  BY DEF FinishTimers, Erases
<1>2. TypeOK /\ HandlerInv /\ ClockInv /\ ArmedInv
  BY DEF TimerInv
<1>3. timers' \in [Timers -> Int \cup {NoTime}]
  BY <1>1, <1>2, TimeQueueAssumption DEF TypeOK, AfterErase
<1>4. Rearms <=> Pending' # {}
  BY <1>1 DEF Rearms, Pending
<1>5. /\ armed' \in Nat \cup {NoTime} /\ readable' \in BOOLEAN
      /\ readable' => armed' = NoTime
      /\ Rearms => /\ armed' # NoTime /\ ~readable'
                   /\ \E i \in Pending' : timers'[i] <= armed'
                   /\ \A i \in Pending' : armed' <= ArmedFor(timers'[i])
  <2>1. CASE Rearms
    <3>1. PICK k \in Timers : timers'[k] # NoTime
      BY <1>1, <2>1 DEF Rearms
    <3>2. /\ ArmedFor(Begin(timers')) \in Nat
          /\ \E j \in Timers : timers'[j] # NoTime /\ timers'[j] <= ArmedFor(Begin(timers'))
          /\ \A j \in Timers : timers'[j] # NoTime => ArmedFor(Begin(timers')) <= ArmedFor(timers'[j])
      BY <1>3, <3>1, RearmBounds
    <3>3. armed' = ArmedFor(Begin(timers')) /\ readable' = FALSE
      BY <1>1, <2>1
    <3>4. NoTime \notin Nat
      BY TimeQueueAssumption
    <3> QED
      BY <3>2, <3>3, <3>4 DEF Pending
  <2>2. CASE ~Rearms
    BY <1>1, <1>2, <2>2 DEF TypeOK, HandlerInv
  <2> QED
    BY <2>1, <2>2
<1>6. TypeOK'
  <2>1. lost' \subseteq Timers
    BY <1>1, <1>2 DEF TypeOK, Pending
  <2> QED
    BY <1>1, <1>2, <1>3, <1>5, <2>1 DEF TypeOK
<1>7. HandlerInv'
  BY <1>1, <1>5 DEF HandlerInv
<1>8. ClockInv'
  BY <1>1, <1>2, <1>5 DEF ClockInv
<1>9. ArmedInv'
  BY <1>1, <1>4, <1>5 DEF ArmedInv
<1> QED
  BY <1>6, <1>7, <1>8, <1>9 DEF TimerInv

LEMMA TimerInvNext ==
    ASSUME TimerInv, [Next]_vars
    PROVE  TimerInv'
<1>1. CASE UNCHANGED vars
  <2>1. UNCHANGED <<timers, armed, readable, phase, active_timers, to_run, executing, end,
                    before_end, new, lost, jumps>>
    BY <1>1 DEF vars, handler
  <2> QED
    BY <2>1, Zenon DEF TimerInv, TypeOK, HandlerInv, ClockInv, ArmedInv, Pending
<1>2. ASSUME HandleTimers PROVE TimerInv'
  BY <1>2, StartTimersStep, RunTimerStep, FinishTimersStep DEF HandleTimers
<1> QED
  BY <1>1, <1>2, TickStep, TimerfdExpiresStep, RunAfterStep, PollStep, SetClockStep DEF Next

LEMMA TimerInvariant == Spec => []TimerInv
  BY TimerInvInit, TimerInvNext, PTL DEF Spec

-----------------------------------------------------------------------------
\* Every variable keeps its type: what HandleTimers holds while callbacks insert timers
\* stays in timers_ until it erases it.
THEOREM TypeCorrect == Spec => []TypeOK
<1>1. TimerInv => TypeOK
  BY DEF TimerInv
<1> QED
  BY <1>1, TimerInvariant, PTL

\* The timerfd is armed for the first timer and no later, and as long as nobody sets the
\* wall clock HandleTimers finds it readable (TimeQueue::Insert, ResetTimers, ReadTimerfd).
THEOREM TimerfdKeepsStep == Spec => []TimerfdInStep
<1>1. ASSUME TimerInv PROVE TimerfdInStep
  <2>1. TypeOK /\ ClockInv /\ ArmedInv
    BY <1>1 DEF TimerInv
  <2>2. ASSUME Pending # {} PROVE \E k \in Pending : timers[k] = Begin(timers)
    BY <2>1, <2>2, BeginIsEarliest DEF Pending, TypeOK
  <2>3. ArmedForFirst
    BY <2>1, <2>2 DEF ArmedInv, ArmedForFirst
  <2>4. TimerfdReadSucceeds
    BY <2>1 DEF ClockInv, TimerfdReadSucceeds, TypeOK
  <2> QED
    BY <2>3, <2>4 DEF TimerfdInStep
<1> QED
  BY <1>1, TimerInvariant, PTL

\* HandleTimers erases no timer it has not run, but those its callbacks inserted
\* (TimeQueue::HandleTimers, the erase up to the iterator it took before the callbacks).
THEOREM OnlyNewTimersGetLost == Spec => OnlyNewTimersAreLost
<1>1. ASSUME TimerInv, [Next]_vars
      PROVE  [lost' \ lost \subseteq new]_vars
  <2>1. CASE FinishTimers
    BY <1>1, <2>1 DEF FinishTimers, Erases, TimerInv, HandlerInv
  <2>2. CASE ~FinishTimers
    <3>1. UNCHANGED lost
      BY <1>1, <2>2 DEF Next, Tick, TimerfdExpires, RunAfter, Insert, InsertFromCallback,
         Poll, HandleTimers, StartTimers, RunTimer, SetClock, vars
    <3> QED
      BY <3>1
  <2> QED
    BY <2>1, <2>2
<1> QED
  BY <1>1, TimerInvariant, PTL DEF Spec, OnlyNewTimersAreLost
==============================================================================

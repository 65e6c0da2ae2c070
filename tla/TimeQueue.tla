------------------------------ MODULE TimeQueue ------------------------------
(***************************************************************************)
(* The timer queue of one EventLoop and its timerfd, driven by the loop's  *)
(* own thread: Insert (RunAt, RunAfter, RunEvery) from a handler or from a *)
(* timer's callback, and HandleTimers when the timerfd is readable.        *)
(*                                                                         *)
(* Times are relative to the clock: timers[i] is the time left before      *)
(* timer i expires, and -1 stands for every expiry in the past.  The unit  *)
(* is the 100 microseconds below which ResetTimerfd does not go.  A timer  *)
(* is a number, which is also its address where std::set compares pairs    *)
(* with equal timestamps; the number of a timer is free again once it is   *)
(* gone.                                                                   *)
(***************************************************************************)
EXTENDS Integers, FiniteSetsExt

CONSTANTS
    Timers,      \* a finite set of numbers
    Delays,      \* delays of one-shot timers
    Repeating,   \* the timers created by RunEvery
    Interval,    \* their interval
    Jumps,       \* by how much somebody may set the wall clock, in either direction
    MaxJumps,    \* bound: how often
    NoTime,      \* not in timers_; timerfd not armed
    NoTimer      \* no timer; as an iterator, timers_.end()

ASSUME TimeQueueAssumption ==
    /\ Timers \subseteq Nat
    /\ IsFiniteSet(Timers)
    /\ Delays \subseteq Nat \ {0}
    /\ Repeating \subseteq Timers
    /\ Interval \in Nat \ {0}
    /\ Jumps \subseteq Int
    /\ MaxJumps \in Nat
    /\ NoTime \notin Int
    /\ NoTimer \notin Timers

VARIABLES
    timers,         \* timers_
    armed,          \* time left on the timerfd
    readable,       \* the timerfd has expired since it was last read or set
    phase,          \* "idle"; "reported": epoll_wait has returned the timer
                    \* channel; "running": in HandleTimers; "exited"
    active_timers,  \* active_timers_
    to_run,         \* those among them whose Run() is still to come
    executing,      \* the one whose callback is running
    end,            \* the iterator end of HandleTimers
    before_end,     \* the timers of [begin(), end)
    new,            \* timers inserted by callbacks of this HandleTimers (history)
    lost,           \* timers erased without having run (history)
    jumps           \* how often the wall clock was set (history)

handler == <<active_timers, to_run, executing, end, before_end, new>>
vars == <<timers, armed, readable, phase, handler, lost, jumps>>

Pending == {i \in Timers : timers[i] # NoTime}
Fresh == Timers \ (Pending \cup lost \cup {executing})

TypeOK ==
    /\ timers \in [Timers -> Int \cup {NoTime}]
    /\ armed \in Nat \cup {NoTime}
    /\ readable \in BOOLEAN
    /\ phase \in {"idle", "reported", "running", "exited"}
    /\ active_timers \subseteq Pending
    /\ to_run \subseteq active_timers
    /\ executing \in active_timers \cup {NoTimer}
    /\ end \in Pending \cup {NoTimer}
    /\ active_timers \subseteq before_end
    /\ before_end \subseteq Pending
    /\ new \subseteq Pending
    /\ lost \subseteq Timers
    /\ jumps \in 0 .. MaxJumps

Init ==
    /\ timers = [i \in Timers |-> NoTime]
    /\ armed = NoTime
    /\ readable = FALSE
    /\ phase = "idle"
    /\ active_timers = {}
    /\ to_run = {}
    /\ executing = NoTimer
    /\ end = NoTimer
    /\ before_end = {}
    /\ new = {}
    /\ lost = {}
    /\ jumps = 0

-----------------------------------------------------------------------------
(***************************************************************************)
(* The clock and the timerfd.                                              *)
(***************************************************************************)
Later(t) == IF t = NoTime THEN NoTime ELSE IF t < 0 THEN t ELSE t - 1

Tick ==
    /\ timers' = [i \in Timers |-> Later(timers[i])]
    /\ armed' = IF armed = 0 THEN 0 ELSE Later(armed)
    /\ UNCHANGED <<readable, phase, handler, lost, jumps>>

\* The wall clock is set forward or back by d.  Stamps and TimeStamp::Now() are
\* wall-clock times, the timerfd counts on CLOCK_MONOTONIC.  How long ago a timer
\* of the past expired is not recorded, so it may come to lie anywhere.
SetClock(d) ==
    /\ jumps < MaxJumps
    /\ jumps' = jumps + 1
    /\ \E late \in [Pending -> 1 .. Max({d + 1, 1})] :
          timers' = [i \in Timers |->
                        IF i \notin Pending THEN NoTime
                        ELSE Max({d + (IF timers[i] < 0 THEN - late[i] ELSE timers[i]), -1})]
    /\ UNCHANGED <<armed, readable, phase, handler, lost>>

TimerfdExpires ==
    /\ armed = 0
    /\ armed' = NoTime
    /\ readable' = TRUE
    /\ UNCHANGED <<timers, phase, handler, lost, jumps>>

-----------------------------------------------------------------------------
(***************************************************************************)
(* Insert.                                                                 *)
(***************************************************************************)

\* timers_.begin()->first, of a queue ts that is not empty
Begin(ts) == Min({ts[i] : i \in {j \in Timers : ts[j] # NoTime}})

\* A plausible mistake: only a first timer arms the timerfd.
ResetsIfFirst(t) == Pending = {}

\* InsertTimer's result: the new timer comes before all the others
Resets(t) == Pending = {} \/ t < Begin(timers)

\* A plausible mistake: no lower bound.
ArmedForPast(t) == t

\* ResetTimerfd: what is armed for an expiry at t, at least one unit away
ArmedFor(t) == IF t < 1 THEN 1 ELSE t

Inserted(i, t) ==
    /\ timers' = [timers EXCEPT ![i] = t]
    /\ IF Resets(t)
       THEN armed' = ArmedFor(Begin(timers')) /\ readable' = FALSE
       ELSE UNCHANGED <<armed, readable>>

\* Insert from a handler, or from a callback queued on the loop
Insert(i, t) ==
    /\ phase \in {"idle", "reported"}
    /\ Inserted(i, t)
    /\ UNCHANGED <<phase, handler, lost, jumps>>

\* Insert from the callback of a timer: the new entry is in [begin(), end) if
\* it sorts before the entry end points to
SortsBeforeEnd(i, t) ==
    \/ end = NoTimer
    \/ t < timers[end]
    \/ t = timers[end] /\ i < end

InsertFromCallback(i, t) ==
    /\ phase = "running"
    /\ executing # NoTimer
    /\ Inserted(i, t)
    /\ before_end' = IF SortsBeforeEnd(i, t) THEN before_end \cup {i} ELSE before_end
    /\ new' = new \cup {i}
    /\ UNCHANGED <<phase, active_timers, to_run, executing, end, lost, jumps>>

\* RunAt, RunAfter and RunEvery
RunAfter ==
    \E i \in Fresh : \E t \in IF i \in Repeating THEN {Interval} ELSE Delays :
        Insert(i, t) \/ InsertFromCallback(i, t)

-----------------------------------------------------------------------------
(***************************************************************************)
(* HandleTimers.                                                           *)
(***************************************************************************)

\* epoll_wait returns the timer channel; other handlers may run before its own
Poll ==
    /\ phase = "idle"
    /\ readable
    /\ phase' = "reported"
    /\ UNCHANGED <<timers, armed, readable, handler, lost, jumps>>

\* What sorts before (Now(), probe); the address of the probe is arbitrary
Expired(probe) == {i \in Pending : timers[i] < 0 \/ (timers[i] = 0 /\ i < probe)}

\* The entry that sorts first in a set of them
First(S) == CHOOSE i \in S : \A j \in S : timers[i] < timers[j] \/ (timers[i] = timers[j] /\ i <= j)

\* ReadTimerfd, which ends the process if there is nothing to read, and the
\* computation of active_timers_
StartTimers(probe) ==
    /\ phase = "reported"
    /\ phase' = IF readable THEN "running" ELSE "exited"
    /\ readable' = FALSE
    /\ active_timers' = Expired(probe)
    /\ to_run' = Expired(probe)
    /\ before_end' = Expired(probe)
    /\ end' = IF Pending \ Expired(probe) = {} THEN NoTimer
              ELSE First(Pending \ Expired(probe))
    /\ UNCHANGED <<timers, armed, executing, new, lost, jumps>>

RunTimer(i) ==
    /\ phase = "running"
    /\ i \in to_run
    /\ to_run' = to_run \ {i}
    /\ executing' = i
    /\ UNCHANGED <<timers, armed, readable, phase, active_timers, end, before_end,
                   new, lost, jumps>>

\* A plausible mistake: everything up to timers_.end() is erased.
ErasesAll == Pending

\* timers_.erase(timers_.begin(), end)
Erases == before_end

\* timers_ after the erase and after ResetTimers has put the repeating ones back
AfterErase ==
    [i \in Timers |->
        IF i \in active_timers \cap Repeating THEN Interval
        ELSE IF i \in Erases THEN NoTime
        ELSE timers[i]]

\* A plausible mistake: the timerfd is set again only for a repeating timer.
RearmsIfRepeated == active_timers \cap Repeating # {}

Rearms == \E i \in Timers : AfterErase[i] # NoTime

FinishTimers ==
    /\ phase = "running"
    /\ to_run = {}
    /\ timers' = AfterErase
    /\ IF Rearms
       THEN armed' = ArmedFor(Begin(AfterErase)) /\ readable' = FALSE
       ELSE UNCHANGED <<armed, readable>>
    /\ phase' = "idle"
    /\ lost' = lost \cup (Erases \ active_timers)
    /\ active_timers' = {}
    /\ executing' = NoTimer
    /\ end' = NoTimer
    /\ before_end' = {}
    /\ new' = {}
    /\ UNCHANGED <<to_run, jumps>>

HandleTimers ==
    \/ \E probe \in Timers \cup {Max(Timers) + 1} : StartTimers(probe)
    \/ \E i \in Timers : RunTimer(i)
    \/ FinishTimers

Next ==
    \/ Tick
    \/ TimerfdExpires
    \/ RunAfter
    \/ Poll
    \/ HandleTimers
    \/ \E d \in Jumps : SetClock(d)

\* Nobody has to set the clock.  Time passes, the kernel expires the timerfd, epoll_wait
\* reports it and the loop comes to its handler.
Spec ==
    /\ Init
    /\ [][Next]_vars
    /\ WF_vars(Tick)
    /\ WF_vars(TimerfdExpires)
    /\ WF_vars(Poll)
    /\ WF_vars(HandleTimers)

-----------------------------------------------------------------------------
\* The loop never waits with a pending timer and nothing to wake it at its
\* time: the timerfd has expired or is armed, and armed no later than for the
\* first timer unless the wall clock was set, of which the timerfd knows nothing
\* (TimeQueue.cpp:20, 32-34, 51-53, 60-63).
ArmedForFirst ==
    phase \in {"idle", "reported"} /\ Pending # {} =>
        \/ readable
        \/ /\ armed # NoTime
           /\ jumps = 0 => armed <= ArmedFor(Begin(timers))

\* The timerfd is readable when HandleTimers reads it, even if handlers that
\* ran after epoll_wait reported it inserted timers: the Errif of ReadTimerfd
\* ends the process only if the wall clock was set, for then an insertion may
\* come before a timer that had expired, and set the timerfd (TimeQueue.cpp:27).
TimerfdReadSucceeds == phase = "exited" => jumps > 0

\* The timerfd follows the timers: it is armed for the first of them (TimeQueue::Insert,
\* ResetTimers), and when epoll reports it readable, reading it succeeds, so that
\* ReadTimerfd does not end the process; both but where the clock was set.
TimerfdInStep == ArmedForFirst /\ TimerfdReadSucceeds

\* HandleTimers erases no timer it has not run, except those inserted by the
\* callbacks it was running (TimeQueue.cpp:76-81).
OnlyNewTimersAreLost ==
    [][lost' \ lost \subseteq new]_vars

\* A timer that is pending outside HandleTimers runs: no later insertion, no
\* early expiry, no other timer's callback and no setting of the wall clock makes
\* the queue forget it: an expiration that finds no timer due arms the timerfd
\* again (TimeQueue.cpp:30-43, 51-53, 73-83).
EveryTimerRuns ==
    \A i \in Timers : (phase # "running" /\ i \in Pending) ~> (executing = i \/ phase = "exited")
===============================================================================

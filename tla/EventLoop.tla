------------------------------ MODULE EventLoop ------------------------------
(***************************************************************************)
(* One EventLoop object: the thread that owns it (Loop, DoToDoList,        *)
(* HandleRead) and the threads that hand it callbacks (QueueOneFunc,       *)
(* RunOneFunc).                                                            *)
(*                                                                         *)
(* A callback is an opaque value that is handed over at most once; a       *)
(* callback or an event handler that runs on the owner's thread may itself *)
(* hand over callbacks, any number of them, before it returns.  The lock   *)
(* of mtx_ is explicit: QueueOneFunc takes it, appends, then (second step) *)
(* writes the eventfd if it has to and unlocks.                            *)
(***************************************************************************)
EXTENDS Naturals, Sequences, FiniteSets

CONSTANTS
    Funcs,        \* callbacks
    Callers,      \* threads other than the owner that call QueueOneFunc/RunOneFunc
    Owner,        \* the thread with tid_
    NoThread,     \* mtx_ is free
    Channels,     \* channels in the poller, the wakeup channel and the timer queue's aside
    WakeupChannel,\* wakeup_channel_
    MaxEvents     \* MAXEVENTS: how many events one epoll_wait returns at most

Threads == Callers \cup {Owner}

ASSUME EventLoopAssumption ==
    /\ Owner \notin Callers
    /\ NoThread \notin Threads
    /\ WakeupChannel \notin Channels
    /\ MaxEvents \in Nat \ {0}

VARIABLES
    fresh,            \* callbacks no one has handed over (history)
    to_do_list,       \* to_do_list_, guarded by mtx_
    functors,         \* the local vector of DoToDoList, what is left of it
    calling_functors, \* calling_functors_
    wakeup,           \* the counter of the eventfd wakeup_fd_
    mtx,              \* the thread that holds mtx_ inside QueueOneFunc
    phase,            \* where the owner is in Loop()
    chs,              \* the local vector of Loop, what is left of it
    ready,            \* the channels among Channels that the kernel reports ready
    executed          \* callbacks started, in order (history)

vars == <<fresh, to_do_list, functors, calling_functors, wakeup, mtx, phase,
          chs, ready, executed>>

Phases == {"poll",       \* in poller_->Poll()
           "handle",     \* in the for loop over chs
           "handler",    \* in the HandleEvent of some channel
           "swap",       \* in DoToDoList, before the lock
           "run",        \* in DoToDoList, in the for loop over functors
           "functor",    \* in a callback of that loop
           "exited"}     \* Errif called exit

TypeOK ==
    /\ fresh \subseteq Funcs
    /\ to_do_list \in Seq(Funcs)
    /\ functors \in Seq(Funcs)
    /\ calling_functors \in BOOLEAN
    /\ wakeup \in Nat
    /\ mtx \in Threads \cup {NoThread}
    /\ phase \in Phases
    /\ chs \subseteq Channels \cup {WakeupChannel}
    /\ ready \subseteq Channels
    /\ executed \in Seq(Funcs)

Init ==
    /\ fresh = Funcs
    /\ to_do_list = <<>>
    /\ functors = <<>>
    /\ calling_functors = FALSE
    /\ wakeup = 0
    /\ mtx = NoThread
    /\ phase = "poll"
    /\ chs = {}
    /\ ready = {}
    /\ executed = <<>>

-----------------------------------------------------------------------------
(***************************************************************************)
(* Handing a callback to the loop.                                         *)
(***************************************************************************)

\* A thread other than the owner may call at any time; the owner only from the
\* code it is running, a channel's handler or a callback.  A thread that is
\* inside QueueOneFunc is not calling it again.
MayCall(t) ==
    /\ mtx # t
    /\ t = Owner => phase \in {"handler", "functor"}

NeedsWakeupOnlyForOthers(t) == t # Owner

\* Callers other than the owner race on calling_functors_, which no lock
\* protects against its writes in DoToDoList, but the "|" makes its value
\* irrelevant to them.
NeedsWakeup(t) == t # Owner \/ calling_functors

EmplacedAfterMove(list, f) == Append(list, "moved-from")

\* to_do_list_.emplace_back(cb).
Emplaced(list, f) == Append(list, f)

\* lock_guard, emplace_back.
QueueOneFunc(t, f) ==
    /\ MayCall(t)
    /\ f \in fresh
    /\ mtx = NoThread
    /\ mtx' = t
    /\ fresh' = fresh \ {f}
    /\ to_do_list' = Emplaced(to_do_list, f)
    /\ UNCHANGED <<functors, calling_functors, wakeup, phase, chs, ready, executed>>

\* The rest of QueueOneFunc: the test, write(wakeup_fd_), the unlock.
Notify(t) ==
    /\ mtx = t
    /\ mtx' = NoThread
    /\ wakeup' = IF NeedsWakeup(t) THEN wakeup + 1 ELSE wakeup
    /\ UNCHANGED <<fresh, to_do_list, functors, calling_functors, phase, chs,
                   ready, executed>>

\* RunOneFunc in the owner's thread; in any other thread it is QueueOneFunc.
RunOneFuncInline(f) ==
    /\ MayCall(Owner)
    /\ f \in fresh
    /\ fresh' = fresh \ {f}
    /\ executed' = Append(executed, f)
    /\ UNCHANGED <<to_do_list, functors, calling_functors, wakeup, mtx, phase,
                   chs, ready>>

-----------------------------------------------------------------------------
(***************************************************************************)
(* The owner: Loop and DoToDoList.                                         *)
(***************************************************************************)

ReadyWithoutWakeups == ready \cup {WakeupChannel}

\* What epoll_wait can report.  The wakeup channel is level triggered, so it is
\* reported as long as the counter is not zero.
ReadyChannels ==
    ready \cup (IF wakeup > 0 THEN {WakeupChannel} ELSE {})

\* epoll_wait blocks until something is ready, and returns MAXEVENTS events at
\* most.
Poll ==
    /\ phase = "poll"
    /\ \E S \in SUBSET ReadyChannels :
          /\ S # {}
          /\ Cardinality(S) <= MaxEvents
          /\ Cardinality(S) = MaxEvents \/ S = ReadyChannels
          /\ chs' = S
    /\ phase' = "handle"
    /\ UNCHANGED <<fresh, to_do_list, functors, calling_functors, wakeup, mtx,
                   ready, executed>>

\* epoll_wait returns -1 with EINTR: no events.
PollInterrupted ==
    /\ phase = "poll"
    /\ chs' = {}
    /\ phase' = "handle"
    /\ UNCHANGED <<fresh, to_do_list, functors, calling_functors, wakeup, mtx,
                   ready, executed>>

\* The wakeup channel's read callback: one read of the eventfd returns its
\* counter and zeroes it; on a zero counter it fails and Errif exits.
HandleRead ==
    /\ phase = "handle"
    /\ WakeupChannel \in chs
    /\ chs' = chs \ {WakeupChannel}
    /\ wakeup' = 0
    /\ phase' = IF wakeup > 0 THEN "handle" ELSE "exited"
    /\ UNCHANGED <<fresh, to_do_list, functors, calling_functors, mtx, ready,
                   executed>>

\* HandleEvent of another channel: it consumes what made the channel ready.
HandleEvent(c) ==
    /\ phase = "handle"
    /\ c \in chs \ {WakeupChannel}
    /\ chs' = chs \ {c}
    /\ ready' = ready \ {c}
    /\ phase' = "handler"
    /\ UNCHANGED <<fresh, to_do_list, functors, calling_functors, wakeup, mtx,
                   executed>>

HandlerReturns ==
    /\ phase = "handler"
    /\ mtx # Owner
    /\ phase' = "handle"
    /\ UNCHANGED <<fresh, to_do_list, functors, calling_functors, wakeup, mtx,
                   chs, ready, executed>>

\* DoToDoList is called; calling_functors_ = true.
DoToDoList ==
    /\ phase = "handle"
    /\ chs = {}
    /\ calling_functors' = TRUE
    /\ phase' = "swap"
    /\ UNCHANGED <<fresh, to_do_list, functors, wakeup, mtx, chs, ready, executed>>

LeftAfterSwapIfCopied == to_do_list

\* What functors.swap(to_do_list_) leaves in the shared list.
LeftAfterSwap == functors

\* The critical section of DoToDoList.
Swap ==
    /\ phase = "swap"
    /\ mtx = NoThread
    /\ functors' = to_do_list
    /\ to_do_list' = LeftAfterSwap
    /\ phase' = "run"
    /\ UNCHANGED <<fresh, calling_functors, wakeup, mtx, chs, ready, executed>>

RunFunctor ==
    /\ phase = "run"
    /\ functors # <<>>
    /\ functors' = Tail(functors)
    /\ executed' = Append(executed, Head(functors))
    /\ phase' = "functor"
    /\ UNCHANGED <<fresh, to_do_list, calling_functors, wakeup, mtx, chs, ready>>

FunctorReturns ==
    /\ phase = "functor"
    /\ mtx # Owner
    /\ phase' = "run"
    /\ UNCHANGED <<fresh, to_do_list, functors, calling_functors, wakeup, mtx,
                   chs, ready, executed>>

\* The end of DoToDoList: calling_functors_ = false, and Loop polls again.
FinishToDoList ==
    /\ phase = "run"
    /\ functors = <<>>
    /\ calling_functors' = FALSE
    /\ phase' = "poll"
    /\ UNCHANGED <<fresh, to_do_list, functors, wakeup, mtx, chs, ready, executed>>

-----------------------------------------------------------------------------
\* The kernel: a channel becomes ready.
BecomesReady(c) ==
    /\ c \notin ready
    /\ ready' = ready \cup {c}
    /\ UNCHANGED <<fresh, to_do_list, functors, calling_functors, wakeup, mtx,
                   phase, chs, executed>>

LoopStep ==
    \/ Poll
    \/ HandleRead
    \/ \E c \in Channels : HandleEvent(c)
    \/ HandlerReturns
    \/ DoToDoList
    \/ Swap
    \/ RunFunctor
    \/ FunctorReturns
    \/ FinishToDoList

CallStep(t) ==
    \/ \E f \in Funcs : QueueOneFunc(t, f)
    \/ Notify(t)

Next ==
    \/ LoopStep
    \/ PollInterrupted
    \/ \E t \in Threads : CallStep(t)
    \/ \E f \in Funcs : RunOneFuncInline(f)
    \/ \E c \in Channels : BecomesReady(c)

SafeSpec == Init /\ [][Next]_vars

\* The owner's thread is scheduled and what it runs returns; a thread inside
\* QueueOneFunc leaves it.  Nothing forces a signal, an event or a call.
Fairness ==
    /\ WF_vars(LoopStep)
    /\ \A t \in Threads : WF_vars(Notify(t))

Spec == SafeSpec /\ Fairness

-----------------------------------------------------------------------------
(***************************************************************************)
(* Properties.                                                             *)
(***************************************************************************)

\* The owner never blocks in epoll_wait on work it has been given: when it is
\* about to poll, a nonempty to_do_list_ comes with a nonzero eventfd, or with
\* a thread still inside QueueOneFunc that is about to make it nonzero.  This
\* is what the test "!(IsInLoopThread()) | calling_functors_" is for
\* (EventLoop.h: calling_functors_ records whether a wakeup is needed).
NoLostWakeup ==
    phase = "poll" /\ to_do_list # <<>> => wakeup > 0 \/ mtx # NoThread

\* HandleRead never fails: whenever the wakeup channel is in the batch of events
\* being handled, its counter is still positive, whatever other threads and
\* handlers did since epoll_wait returned.
WakeupReadSucceeds ==
    /\ WakeupChannel \in chs => wakeup > 0
    /\ phase # "exited"

\* Callbacks run once each, in the order of their QueueOneFunc calls, however
\* the vector swap interleaves with callers, and all of them run: EventLoop
\* implements SerialExecutor, what is left of the swapped vector being the
\* front of the queue.
Executor == INSTANCE SerialExecutor
                WITH pending <- functors \o to_do_list, done <- executed

ImplementsExecutor == Executor!Spec

=============================================================================

------------------------------ MODULE Startup ------------------------------
(***************************************************************************)
(* EventLoopThreadPool::Start: the main thread starts the threads of the   *)
(* sub loops one after the other (StartLoop), and waits for each until the *)
(* thread has made its EventLoop and stored it in loop_ (ThreadFunc).      *)
(*                                                                         *)
(* The critical sections of mtx_ are steps.  ThreadFunc notifies after it  *)
(* has unlocked.                                                           *)
(***************************************************************************)
EXTENDS Integers, Sequences

CONSTANTS
    numThreads,  \* the argument of the constructor
    NoLoop       \* a null pointer

StartupAssumption == numThreads \in Nat /\ NoLoop \notin Nat

\* if (num_threads_ <= 0) num_threads_ = 1: hardware_concurrency may be unknown.
num_threads == IF numThreads = 0 THEN 1 ELSE numThreads

ThreadIds == 1 .. num_threads

VARIABLES
    main,         \* where the main thread is in Start and StartLoop
    event_loops,  \* event_loops_; a loop is named after the thread that made it
    thread,       \* where each thread is in ThreadFunc
    loop          \* loop_ of each EventLoopThread

vars == <<main, event_loops, thread, loop>>

\* The thread the main thread is starting or waiting for.
Current == Len(event_loops) + 1

TypeOK ==
    /\ main \in {"create", "test", "waiting", "started"}
    /\ event_loops \in Seq(ThreadIds \cup {NoLoop})
    /\ Len(event_loops) <= num_threads
    /\ thread \in [ThreadIds -> {"none", "new", "made", "stored", "looping"}]
    /\ loop \in [ThreadIds -> ThreadIds \cup {NoLoop}]

Init ==
    /\ main = "create"
    /\ event_loops = <<>>
    /\ thread = [i \in ThreadIds |-> "none"]
    /\ loop = [i \in ThreadIds |-> NoLoop]

CreateThread ==
    /\ main = "create"
    /\ Current \in ThreadIds
    /\ thread' = [thread EXCEPT ![Current] = "new"]
    /\ main' = "test"
    /\ UNCHANGED <<event_loops, loop>>

\* A plausible mistake: cv_.wait(lock) without a predicate, after a first test.
MayReturnOnceWoken == loop[Current] # NoLoop \/ \E i \in ThreadIds : thread[i] = "made"

MayReturn == loop[Current] # NoLoop

\* The predicate of cv_.wait, under the lock.
TestLoop ==
    /\ main = "test"
    /\ IF MayReturn
       THEN /\ event_loops' = Append(event_loops, loop[Current])
            /\ main' = "create"
       ELSE main' = "waiting" /\ UNCHANGED event_loops
    /\ UNCHANGED <<thread, loop>>

SpuriousWakeup ==
    /\ main = "waiting"
    /\ main' = "test"
    /\ UNCHANGED <<event_loops, thread, loop>>

\* The for loop of Start is over.
Started ==
    /\ main = "create"
    /\ Current \notin ThreadIds
    /\ main' = "started"
    /\ UNCHANGED <<event_loops, thread, loop>>

\* make_unique<EventLoop>: the loop's tid_ is that of this thread.
MakeLoop(i) ==
    /\ thread[i] = "new"
    /\ thread' = [thread EXCEPT ![i] = "made"]
    /\ UNCHANGED <<main, event_loops, loop>>

\* loop_ = std::move(loop), under the lock.
StoreLoop(i) ==
    /\ thread[i] = "made"
    /\ loop' = [loop EXCEPT ![i] = i]
    /\ thread' = [thread EXCEPT ![i] = "stored"]
    /\ UNCHANGED <<main, event_loops>>

Notified == IF main = "waiting" THEN "test" ELSE main

\* cv_.notify_one(); the next statement is loop_->Loop().
NotifyOne(i) ==
    /\ thread[i] = "stored"
    /\ main' = IF Current = i THEN Notified ELSE main
    /\ thread' = [thread EXCEPT ![i] = "looping"]
    /\ UNCHANGED <<event_loops, loop>>

MainStep == CreateThread \/ TestLoop \/ Started

ThreadStep(i) == MakeLoop(i) \/ StoreLoop(i) \/ NotifyOne(i)

Next ==
    \/ MainStep
    \/ SpuriousWakeup
    \/ \E i \in ThreadIds : ThreadStep(i)

SafeSpec == Init /\ [][Next]_vars

\* Threads are scheduled and get mtx_; nothing forces a spurious wakeup.
Spec == SafeSpec /\ WF_vars(MainStep) /\ \A i \in ThreadIds : WF_vars(ThreadStep(i))

-----------------------------------------------------------------------------
\* Whatever the order in which the threads run, event_loops_ holds the loops of
\* the threads in the order of their creation, each of them complete, and no
\* null pointer; NextLoop hands these to connections (EventLoopThread.cpp:10-13).
LoopsAreReady ==
    \A k \in 1 .. Len(event_loops) :
        event_loops[k] = k /\ thread[k] \in {"stored", "looping"}

\* Start returns, although a thread may store its loop and notify before the
\* main thread waits for it.
StartReturns == <>(main = "started")
=============================================================================

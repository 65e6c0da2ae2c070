----------------------------- MODULE ThreadPool -----------------------------
(***************************************************************************)
(* ThreadPool: worker threads that take tasks from one queue, the threads  *)
(* and the tasks that add to it, and its destructor.                       *)
(*                                                                         *)
(* The critical sections of mtx_ are steps.  A call of Add is two of them, *)
(* the append and, after the unlock, the notification.  threads_ is the    *)
(* last member of the class, so the destructor of the pool joins the       *)
(* workers before the queue, the mutex and the condition variable go.      *)
(***************************************************************************)
EXTENDS Integers, Sequences, FiniteSets

CONSTANTS
    Tasks,      \* tasks, each added at most once
    Size,       \* the argument of the constructor
    Callers,    \* threads that use the pool; one of them destroys it
    NoTask

\* if (size <= 0) size = 1
Workers == 1 .. (IF Size = 0 THEN 1 ELSE Size)

ThreadPoolAssumption ==
    /\ Size \in Nat
    /\ Callers \cap Workers = {}
    /\ NoTask \notin Tasks
    /\ IsFiniteSet(Callers)

VARIABLES
    tasks,      \* tasks_
    stop,       \* stop_
    pc,         \* where each worker is
    task,       \* the local variable task of each worker
    adding,     \* threads inside Add, between the append and notify_one
    owner,      \* how far the destructor has come
    fresh,      \* tasks nobody has added (history)
    done        \* tasks whose call has returned (history)

vars == <<tasks, stop, pc, task, adding, owner, fresh, done>>

Threads == Workers \cup Callers

Phases == {"lock",      \* about to take mtx_ and test the predicate
           "waiting",   \* in cv_.wait, mtx_ released
           "running",   \* in task()
           "returned"}

TypeOK ==
    /\ tasks \in Seq(Tasks)
    /\ stop \in BOOLEAN
    /\ pc \in [Workers -> Phases]
    /\ task \in [Workers -> Tasks \cup {NoTask}]
    /\ adding \subseteq Threads
    /\ owner \in {"alive", "stopped", "joining", "gone"}
    /\ fresh \subseteq Tasks
    /\ done \subseteq Tasks

\* Add cannot be called before the constructor is done; its threads may be
\* anywhere before cv_.wait.
Init ==
    /\ tasks = <<>>
    /\ stop = FALSE
    /\ pc = [w \in Workers |-> "lock"]
    /\ task = [w \in Workers |-> NoTask]
    /\ adding = {}
    /\ owner = "alive"
    /\ fresh = Tasks
    /\ done = {}

InPhase(p) == {w \in Workers : pc[w] = p}

-----------------------------------------------------------------------------
(***************************************************************************)
(* Add.                                                                    *)
(***************************************************************************)

\* Who may call Add: the pool's users as long as it lives, and a task that runs.
MayAdd(th) ==
    /\ th \notin adding
    /\ IF th \in Callers THEN owner = "alive" ELSE pc[th] = "running"

Queued(t) == Append(tasks, t)

\* The critical section: the task is refused by an exception or appended.
Add(th, t) ==
    /\ MayAdd(th)
    /\ t \in fresh
    /\ fresh' = fresh \ {t}
    /\ IF stop
       THEN UNCHANGED <<tasks, adding>>
       ELSE tasks' = Queued(t) /\ adding' = adding \cup {th}
    /\ UNCHANGED <<stop, pc, task, owner, done>>

\* A plausible mistake: nobody is told when all the workers but one are busy.
WokenIfAllWait == IF InPhase("waiting") = Workers THEN InPhase("waiting") ELSE {}

\* notify_one wakes one of those who wait, if any.
Woken == InPhase("waiting")

NotifyOne(th) ==
    /\ th \in adding
    /\ adding' = adding \ {th}
    /\ \/ Woken = {} /\ UNCHANGED pc
       \/ \E w \in Woken : pc' = [pc EXCEPT ![w] = "lock"]
    /\ UNCHANGED <<tasks, stop, task, owner, fresh, done>>

-----------------------------------------------------------------------------
(***************************************************************************)
(* A worker: the lambda of the constructor.                                *)
(***************************************************************************)

\* stop_ and nothing left to do.
Leaves == stop /\ tasks = <<>>

WaitOnCv(w) ==
    /\ pc[w] = "lock"
    /\ ~stop /\ tasks = <<>>
    /\ pc' = [pc EXCEPT ![w] = "waiting"]
    /\ UNCHANGED <<tasks, stop, task, adding, owner, fresh, done>>

\* A spurious wakeup: the predicate is tested again.
WakesUp(w) ==
    /\ pc[w] = "waiting"
    /\ pc' = [pc EXCEPT ![w] = "lock"]
    /\ UNCHANGED <<tasks, stop, task, adding, owner, fresh, done>>

Return(w) ==
    /\ pc[w] = "lock"
    /\ Leaves
    /\ pc' = [pc EXCEPT ![w] = "returned"]
    /\ UNCHANGED <<tasks, stop, task, adding, owner, fresh, done>>

\* A plausible mistake: front() without pop().
NotPopped == tasks

Popped == Tail(tasks)

TakeTask(w) ==
    /\ pc[w] = "lock"
    /\ ~Leaves
    /\ tasks # <<>>
    /\ task' = [task EXCEPT ![w] = Head(tasks)]
    /\ tasks' = Popped
    /\ pc' = [pc EXCEPT ![w] = "running"]
    /\ UNCHANGED <<stop, adding, owner, fresh, done>>

\* task() returns; an exception of the task, a refused Add among others, is
\* caught by its packaged_task.
TaskEnds(w) ==
    /\ pc[w] = "running"
    /\ w \notin adding
    /\ done' = done \cup {task[w]}
    /\ task' = [task EXCEPT ![w] = NoTask]
    /\ pc' = [pc EXCEPT ![w] = "lock"]
    /\ UNCHANGED <<tasks, stop, adding, owner, fresh>>

-----------------------------------------------------------------------------
(***************************************************************************)
(* The destructor.                                                         *)
(***************************************************************************)

\* stop_ = true.  Nobody destroys the pool while another caller is in Add.
SetStop ==
    /\ owner = "alive"
    /\ adding \cap Callers = {}
    /\ stop' = TRUE
    /\ owner' = "stopped"
    /\ UNCHANGED <<tasks, pc, task, adding, fresh, done>>

\* A plausible mistake: notify_one, as in Add.
OneWoken == {S \in SUBSET InPhase("waiting") : Cardinality(S) <= 1 /\ (S = {} => InPhase("waiting") = {})}

AllWoken == {InPhase("waiting")}

NotifyAll ==
    /\ owner = "stopped"
    /\ owner' = "joining"
    /\ \E S \in AllWoken : pc' = [w \in Workers |-> IF w \in S THEN "lock" ELSE pc[w]]
    /\ UNCHANGED <<tasks, stop, task, adding, fresh, done>>

\* The jthreads have been joined.
Join ==
    /\ owner = "joining"
    /\ InPhase("returned") = Workers
    /\ owner' = "gone"
    /\ UNCHANGED <<tasks, stop, pc, task, adding, fresh, done>>

-----------------------------------------------------------------------------
WorkerStep(w) == WaitOnCv(w) \/ Return(w) \/ TakeTask(w) \/ TaskEnds(w)

OwnerStep == NotifyAll \/ Join

Next ==
    \/ \E w \in Workers : WorkerStep(w) \/ WakesUp(w)
    \/ \E th \in Threads : NotifyOne(th) \/ \E t \in Tasks : Add(th, t)
    \/ SetStop
    \/ OwnerStep

SafeSpec == Init /\ [][Next]_vars

\* Every worker gets mtx_ when it asks for it, tasks return, a thread inside Add
\* leaves it, and so does one inside the destructor.  Nobody has to add a task
\* or to destroy the pool, and there need not be spurious wakeups.
Spec ==
    /\ SafeSpec
    /\ \A w \in Workers : WF_vars(WorkerStep(w))
    /\ \A th \in Threads : WF_vars(NotifyOne(th))
    /\ WF_vars(OwnerStep)

-----------------------------------------------------------------------------
\* A worker sleeps only while all the queued work is spoken for: by workers on
\* their way to the queue or by notifications still to be made.  One
\* notification per task is enough although it may reach a worker after another
\* has taken the task (ThreadPool.h:24-30, ThreadPool.cpp:22-32).
NobodySleepsOnWork ==
    InPhase("waiting") # {} =>
        Len(tasks) <= Cardinality(InPhase("lock")) + Cardinality(adding)

\* When the destructor has returned, every task that was not refused has run to
\* its end, those that running tasks added included, and no thread is left that
\* could use the queue (ThreadPool.cpp:24-26, 38-45; threads_ is declared last).
DestructorLeavesNothing ==
    owner = "gone" =>
        /\ tasks = <<>> /\ adding = {}
        /\ \A w \in Workers : pc[w] = "returned" /\ task[w] = NoTask

\* A thread pool serves whoever adds tasks: no task waits while a worker sleeps with
\* nobody to wake it (the wait of ThreadPool's workers), and when the destructor has
\* returned no task is left (ThreadPool::~ThreadPool).
PoolServes == NobodySleepsOnWork /\ DestructorLeavesNothing

\* Tasks are started once each and in order, at most one per worker, and all of
\* those that were accepted end, during the destruction too: ThreadPool
\* implements ParallelExecutor.
Executor == INSTANCE ParallelExecutor
                WITH Width <- Cardinality(Workers),
                     pending <- tasks,
                     active <- {task[w] : w \in InPhase("running")}

ImplementsExecutor == Executor!Spec

\* The destructor of the pool returns (ThreadPool.cpp:38-45).
DestructorReturns == (owner = "stopped") ~> (owner = "gone")
=============================================================================

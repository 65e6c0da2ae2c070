--------------------------- MODULE ThreadPoolProofs ---------------------------
(***************************************************************************)
(* Proofs about ThreadPool, for any number of workers, callers and tasks:  *)
(* type correctness, PoolServes and the safety part of the refinement of   *)
(* ParallelExecutor.                                                       *)
(***************************************************************************)
EXTENDS ThreadPool, Functions, SequenceTheorems, FiniteSetTheorems, TLAPS

\* Who is where, besides the types: nobody who is outside a call is inside Add,
\* exactly the running workers have a task, and a worker returns only when there
\* is nothing left, which then stays so.
PlaceInv ==
    /\ stop <=> owner # "alive"
    /\ stop => adding \cap Callers = {}
    /\ \A w \in Workers \cap adding : pc[w] = "running"
    /\ \A w \in Workers : pc[w] = "running" <=> task[w] # NoTask
    /\ \A w \in Workers : pc[w] = "returned" => stop /\ tasks = <<>>
    /\ owner = "gone" => \A w \in Workers : pc[w] = "returned"

\* The inductive invariant for PoolServes.
PoolInv == TypeOK /\ PlaceInv /\ NobodySleepsOnWork

-----------------------------------------------------------------------------
(***************************************************************************)
(* Counting workers.                                                       *)
(***************************************************************************)
LEMMA WorkersFinite ==
    ASSUME ThreadPoolAssumption
    PROVE  /\ IsFiniteSet(Workers) /\ Cardinality(Workers) \in Nat \ {0}
           /\ Workers # {}
           /\ IsFiniteSet(Threads)
<1>1. IsFiniteSet(Workers) /\ Cardinality(Workers) \in Nat \ {0} /\ 1 \in Workers
  <2> DEFINE n == IF Size = 0 THEN 1 ELSE Size
  <2>1. n \in Nat /\ n >= 1
    BY DEF ThreadPoolAssumption
  <2> HIDE DEF n
  <2>2. IsFiniteSet(1 .. n) /\ Cardinality(1 .. n) = n
    BY <2>1, FS_Interval
  <2> QED
    BY <2>1, <2>2 DEF Workers, n
<1>2. IsFiniteSet(Threads)
  BY <1>1, FS_Union DEF Threads, ThreadPoolAssumption
<1> QED
  BY <1>1, <1>2

LEMMA PhaseFinite ==
    ASSUME ThreadPoolAssumption, NEW p
    PROVE  IsFiniteSet(InPhase(p)) /\ Cardinality(InPhase(p)) \in Nat
<1>1. InPhase(p) \subseteq Workers
  BY DEF InPhase
<1> QED
  BY <1>1, WorkersFinite, FS_Subset, FS_CardinalityType

LEMMA AddingFinite ==
    ASSUME ThreadPoolAssumption, TypeOK
    PROVE  IsFiniteSet(adding) /\ Cardinality(adding) \in Nat
  BY WorkersFinite, FS_Subset, FS_CardinalityType DEF TypeOK

\* A worker that comes to the mutex, and one that leaves it.
LEMMA OneMoreAtLock ==
    ASSUME ThreadPoolAssumption, TypeOK, NEW w \in Workers, pc[w] # "lock",
           pc' = [pc EXCEPT ![w] = "lock"]
    PROVE  /\ Cardinality(InPhase("lock"))' = Cardinality(InPhase("lock")) + 1
           /\ pc[w] # "waiting" => InPhase("waiting")' = InPhase("waiting")
           /\ InPhase("waiting")' \subseteq InPhase("waiting")
<1>1. InPhase("lock")' = InPhase("lock") \cup {w} /\ w \notin InPhase("lock")
  BY DEF InPhase, TypeOK
<1>2. Cardinality(InPhase("lock") \cup {w}) = Cardinality(InPhase("lock")) + 1
  BY <1>1, PhaseFinite, FS_AddElement
<1> QED
  BY <1>1, <1>2 DEF InPhase, TypeOK

LEMMA OneLessAtLock ==
    ASSUME ThreadPoolAssumption, TypeOK, NEW w \in Workers, pc[w] = "lock",
           NEW p, p # "lock", pc' = [pc EXCEPT ![w] = p]
    PROVE  /\ Cardinality(InPhase("lock"))' = Cardinality(InPhase("lock")) - 1
           /\ p # "waiting" => InPhase("waiting")' = InPhase("waiting")
<1>1. InPhase("lock")' = InPhase("lock") \ {w} /\ w \in InPhase("lock")
  BY DEF InPhase, TypeOK
<1>2. Cardinality(InPhase("lock") \ {w}) = Cardinality(InPhase("lock")) - 1
  BY <1>1, PhaseFinite, FS_RemoveElement
<1> QED
  BY <1>1, <1>2 DEF InPhase, TypeOK

-----------------------------------------------------------------------------
(***************************************************************************)
(* The invariant, action by action.                                        *)
(***************************************************************************)
LEMMA PoolInvInit ==
    ASSUME ThreadPoolAssumption, Init
    PROVE  PoolInv
<1>1. <<>> \in Seq(Tasks)
  BY EmptySeq
<1>2. TypeOK
  BY <1>1 DEF Init, TypeOK, Phases
<1>3. PlaceInv
  BY DEF Init, PlaceInv
<1>4. InPhase("waiting") = {}
  BY DEF Init, InPhase
<1> QED
  BY <1>2, <1>3, <1>4 DEF PoolInv, NobodySleepsOnWork

LEMMA AddStep ==
    ASSUME ThreadPoolAssumption, PoolInv, NEW th \in Threads, NEW t \in Tasks, Add(th, t)
    PROVE  PoolInv'
<1> USE DEF PoolInv
<1>1. CASE stop
  BY <1>1 DEF Add, TypeOK, PlaceInv, NobodySleepsOnWork, InPhase
<1>2. CASE ~stop
  <2>1. /\ tasks' = Append(tasks, t) /\ adding' = adding \cup {th}
        /\ fresh' = fresh \ {t}
        /\ th \notin adding
        /\ th \in Callers \/ pc[th] = "running"
        /\ UNCHANGED <<stop, pc, task, owner, done>>
    BY <1>2 DEF Add, Queued, MayAdd
  <2>2. /\ tasks \in Seq(Tasks)
        /\ tasks' \in Seq(Tasks)
        /\ Len(tasks') = Len(tasks) + 1
        /\ Len(tasks) \in Nat
    BY <2>1, AppendProperties, LenProperties DEF TypeOK
  <2>3. TypeOK'
    BY <2>1, <2>2 DEF TypeOK
  <2>4. PlaceInv'
    BY <1>2, <2>1 DEF PlaceInv, ThreadPoolAssumption
  <2>5. Cardinality(adding') = Cardinality(adding) + 1
    BY <2>1, AddingFinite, FS_AddElement
  <2>6. InPhase("lock")' = InPhase("lock") /\ InPhase("waiting")' = InPhase("waiting")
    BY <2>1 DEF InPhase
  <2>7. NobodySleepsOnWork'
    BY <2>2, <2>5, <2>6, PhaseFinite, AddingFinite DEF NobodySleepsOnWork
  <2> QED
    BY <2>3, <2>4, <2>7
<1> QED
  BY <1>1, <1>2

LEMMA NotifyOneStep ==
    ASSUME ThreadPoolAssumption, PoolInv, NEW th \in Threads, NotifyOne(th)
    PROVE  PoolInv'
<1> USE DEF PoolInv
<1>1. /\ th \in adding /\ adding' = adding \ {th}
      /\ UNCHANGED <<tasks, stop, task, owner, fresh, done>>
  BY DEF NotifyOne
<1>2. CASE InPhase("waiting") = {} /\ UNCHANGED pc
  BY <1>1, <1>2 DEF TypeOK, PlaceInv, NobodySleepsOnWork, InPhase
<1>3. ASSUME NEW w \in InPhase("waiting"), pc' = [pc EXCEPT ![w] = "lock"]
      PROVE  PoolInv'
  <2>1. w \in Workers /\ pc[w] = "waiting"
    BY <1>3 DEF InPhase
  <2>2. TypeOK'
    BY <1>1, <1>3, <2>1 DEF TypeOK, Phases
  <2>3. PlaceInv'
    BY <1>1, <1>3, <2>1 DEF TypeOK, PlaceInv
  <2>4. Cardinality(adding') = Cardinality(adding) - 1
    BY <1>1, AddingFinite, FS_RemoveElement
  <2>5. Cardinality(InPhase("lock"))' = Cardinality(InPhase("lock")) + 1
    BY <1>3, <2>1, OneMoreAtLock
  <2>6. Len(tasks) <= Cardinality(InPhase("lock")) + Cardinality(adding)
    BY <1>3 DEF NobodySleepsOnWork
  <2>7. NobodySleepsOnWork'
    BY <1>1, <2>4, <2>5, <2>6, PhaseFinite, AddingFinite, LenProperties
       DEF NobodySleepsOnWork, TypeOK
  <2> QED
    BY <2>2, <2>3, <2>7
<1> QED
  BY <1>2, <1>3 DEF NotifyOne, Woken

LEMMA TakeTaskStep ==
    ASSUME ThreadPoolAssumption, PoolInv, NEW w \in Workers, TakeTask(w)
    PROVE  PoolInv'
<1> USE DEF PoolInv
<1>1. /\ pc[w] = "lock" /\ tasks # <<>>
      /\ task' = [task EXCEPT ![w] = Head(tasks)]
      /\ tasks' = Tail(tasks)
      /\ pc' = [pc EXCEPT ![w] = "running"]
      /\ UNCHANGED <<stop, adding, owner, fresh, done>>
  BY DEF TakeTask, Popped
<1>2. /\ Head(tasks) \in Tasks
      /\ Tail(tasks) \in Seq(Tasks)
      /\ Len(Tail(tasks)) = Len(tasks) - 1
      /\ Len(tasks) \in Nat
  BY <1>1, HeadTailProperties, LenProperties DEF TypeOK
<1>3. TypeOK'
  BY <1>1, <1>2 DEF TypeOK, Phases
<1>4. PlaceInv'
  BY <1>1, <1>2 DEF TypeOK, PlaceInv, ThreadPoolAssumption
<1>5. /\ Cardinality(InPhase("lock"))' = Cardinality(InPhase("lock")) - 1
      /\ InPhase("waiting")' = InPhase("waiting")
  <2> DEFINE p == "running"
  <2>1. p # "lock" /\ p # "waiting" /\ pc' = [pc EXCEPT ![w] = p]
    BY <1>1
  <2> HIDE DEF p
  <2> QED
    BY <1>1, <2>1, OneLessAtLock
<1>6. NobodySleepsOnWork'
  BY <1>1, <1>2, <1>5, PhaseFinite, AddingFinite DEF NobodySleepsOnWork
<1> QED
  BY <1>3, <1>4, <1>6

LEMMA TaskEndsStep ==
    ASSUME ThreadPoolAssumption, PoolInv, NEW w \in Workers, TaskEnds(w)
    PROVE  PoolInv'
<1> USE DEF PoolInv
<1>1. /\ pc[w] = "running" /\ w \notin adding
      /\ done' = done \cup {task[w]}
      /\ task' = [task EXCEPT ![w] = NoTask]
      /\ pc' = [pc EXCEPT ![w] = "lock"]
      /\ UNCHANGED <<tasks, stop, adding, owner, fresh>>
  BY DEF TaskEnds
<1>2. task[w] \in Tasks
  BY <1>1 DEF TypeOK, PlaceInv
<1>3. TypeOK'
  BY <1>1, <1>2 DEF TypeOK, Phases
<1>4. PlaceInv'
  BY <1>1 DEF TypeOK, PlaceInv
<1>5. /\ Cardinality(InPhase("lock"))' = Cardinality(InPhase("lock")) + 1
      /\ InPhase("waiting")' = InPhase("waiting")
  BY <1>1, OneMoreAtLock
<1>6. NobodySleepsOnWork'
  BY <1>1, <1>5, PhaseFinite, AddingFinite, LenProperties DEF NobodySleepsOnWork, TypeOK
<1> QED
  BY <1>3, <1>4, <1>6

LEMMA WaitOrReturnStep ==
    ASSUME ThreadPoolAssumption, PoolInv, NEW w \in Workers, WaitOnCv(w) \/ Return(w)
    PROVE  PoolInv'
<1> USE DEF PoolInv
<1>1. /\ pc[w] = "lock" /\ tasks = <<>>
      /\ \/ ~stop /\ pc' = [pc EXCEPT ![w] = "waiting"]
         \/ stop /\ pc' = [pc EXCEPT ![w] = "returned"]
      /\ UNCHANGED <<tasks, stop, task, adding, owner, fresh, done>>
  BY DEF WaitOnCv, Return, Leaves
<1>2. TypeOK'
  BY <1>1 DEF TypeOK, Phases
<1>3. PlaceInv'
  BY <1>1 DEF TypeOK, PlaceInv
<1>4. /\ Cardinality(InPhase("lock"))' = Cardinality(InPhase("lock")) - 1
      /\ Cardinality(InPhase("lock")) \in Nat \ {0}
  <2>1. Cardinality(InPhase("lock"))' = Cardinality(InPhase("lock")) - 1
    BY <1>1, OneLessAtLock
  <2>2. w \in InPhase("lock")
    BY <1>1 DEF InPhase
  <2> QED
    BY <2>1, <2>2, PhaseFinite, FS_EmptySet
<1>5. Len(tasks') = 0
  BY <1>1
<1>6. NobodySleepsOnWork'
  BY <1>1, <1>4, <1>5, AddingFinite DEF NobodySleepsOnWork
<1> QED
  BY <1>2, <1>3, <1>6

LEMMA WakesUpStep ==
    ASSUME ThreadPoolAssumption, PoolInv, NEW w \in Workers, WakesUp(w)
    PROVE  PoolInv'
<1> USE DEF PoolInv
<1>1. TypeOK'
  BY DEF WakesUp, TypeOK, Phases
<1>2. PlaceInv'
  BY DEF WakesUp, TypeOK, PlaceInv
<1>3. /\ Cardinality(InPhase("lock"))' = Cardinality(InPhase("lock")) + 1
      /\ w \in InPhase("waiting")
  BY OneMoreAtLock DEF WakesUp, InPhase
<1>4. NobodySleepsOnWork'
  BY <1>3, PhaseFinite, AddingFinite, LenProperties DEF WakesUp, NobodySleepsOnWork, TypeOK
<1> QED
  BY <1>1, <1>2, <1>4

LEMMA DestructorStep ==
    ASSUME ThreadPoolAssumption, PoolInv, SetStop \/ NotifyAll \/ Join
    PROVE  PoolInv'
<1> USE DEF PoolInv
<1>1. CASE SetStop
  BY <1>1 DEF SetStop, TypeOK, PlaceInv, NobodySleepsOnWork, InPhase
<1>2. CASE NotifyAll
  <2>1. /\ pc' = [v \in Workers |-> IF v \in InPhase("waiting") THEN "lock" ELSE pc[v]]
        /\ owner = "stopped" /\ owner' = "joining"
        /\ UNCHANGED <<tasks, stop, task, adding, fresh, done>>
    BY <1>2 DEF NotifyAll, AllWoken
  <2>2. TypeOK'
    BY <2>1 DEF TypeOK, Phases
  <2>3. PlaceInv'
    BY <2>1 DEF TypeOK, PlaceInv, InPhase
  <2>4. InPhase("waiting")' = {}
    BY <2>1 DEF InPhase
  <2> QED
    BY <2>2, <2>3, <2>4 DEF NobodySleepsOnWork
<1>3. CASE Join
  BY <1>3 DEF Join, TypeOK, PlaceInv, NobodySleepsOnWork, InPhase
<1> QED
  BY <1>1, <1>2, <1>3

LEMMA PoolInvNext ==
    ASSUME ThreadPoolAssumption, PoolInv, [Next]_vars
    PROVE  PoolInv'
<1>1. CASE UNCHANGED vars
  BY <1>1 DEF vars, PoolInv, TypeOK, PlaceInv, NobodySleepsOnWork, InPhase
<1>2. ASSUME NEW w \in Workers, WorkerStep(w) \/ WakesUp(w)
      PROVE  PoolInv'
  BY <1>2, WaitOrReturnStep, TakeTaskStep, TaskEndsStep, WakesUpStep DEF WorkerStep
<1>3. ASSUME NEW th \in Threads, NotifyOne(th)
      PROVE  PoolInv'
  BY <1>3, NotifyOneStep
<1>4. ASSUME NEW th \in Threads, NEW t \in Tasks, Add(th, t)
      PROVE  PoolInv'
  BY <1>4, AddStep
<1>5. CASE SetStop \/ OwnerStep
  BY <1>5, DestructorStep DEF OwnerStep
<1> QED
  BY <1>1, <1>2, <1>3, <1>4, <1>5 DEF Next

LEMMA PoolInvServes ==
    ASSUME ThreadPoolAssumption, PoolInv
    PROVE  PoolServes
<1> SUFFICES ASSUME owner = "gone"
             PROVE  /\ tasks = <<>> /\ adding = {}
                    /\ \A w \in Workers : pc[w] = "returned" /\ task[w] = NoTask
  BY DEF PoolInv, PoolServes, DestructorLeavesNothing
<1>1. \A w \in Workers : pc[w] = "returned" /\ task[w] = NoTask
  BY DEF PoolInv, PlaceInv
<1>2. tasks = <<>>
  BY <1>1, WorkersFinite DEF PoolInv, PlaceInv
<1>3. adding = {}
  BY <1>1 DEF PoolInv, TypeOK, PlaceInv, Threads
<1> QED
  BY <1>1, <1>2, <1>3

\* Every variable keeps its type: a task is taken from the queue only by a worker, and
\* only the tasks handed over are in it.
THEOREM TypeCorrect == ASSUME ThreadPoolAssumption PROVE SafeSpec => []TypeOK
<1>1. PoolInv => TypeOK
  BY DEF PoolInv
<1> QED
  BY <1>1, PoolInvInit, PoolInvNext, PTL DEF SafeSpec

\* One notify_one per task is enough for workers that may also wake up by themselves or
\* find the task already taken, and when the destructor has returned every task that was
\* accepted, those added by running tasks included, has been run by a worker that is
\* gone now (ThreadPool::Add, the worker's loop, ThreadPool::~ThreadPool).
THEOREM Serves == ASSUME ThreadPoolAssumption PROVE SafeSpec => []PoolServes
  BY PoolInvInit, PoolInvNext, PoolInvServes, PTL DEF SafeSpec

-----------------------------------------------------------------------------
(***************************************************************************)
(* Refinement.                                                             *)
(***************************************************************************)

\* A task is in one place: not handed over, at one place of the queue, or with one
\* worker.  Without it the end of a call could leave the same task running elsewhere.
OnePlaceInv ==
    /\ \A i, j \in 1 .. Len(tasks) : i # j => tasks[i] # tasks[j]
    /\ \A i \in 1 .. Len(tasks) : tasks[i] \notin fresh
    /\ \A w \in Workers : task[w] \notin fresh
    /\ \A w \in Workers : \A i \in 1 .. Len(tasks) : tasks[i] # task[w]
    /\ \A v, w \in Workers : v # w /\ task[v] = task[w] => task[v] = NoTask

LEMMA OnePlaceNext ==
    ASSUME ThreadPoolAssumption, PoolInv, OnePlaceInv, [Next]_vars
    PROVE  OnePlaceInv'
<1>1. /\ tasks \in Seq(Tasks) /\ Len(tasks) \in Nat
      /\ task \in [Workers -> Tasks \cup {NoTask}]
      /\ NoTask \notin Tasks
      /\ fresh \subseteq Tasks
      /\ \A i \in 1 .. Len(tasks) : tasks[i] \in Tasks
  BY LenProperties, ElementOfSeq DEF PoolInv, TypeOK, ThreadPoolAssumption
<1>2. ASSUME NEW w \in Workers, TakeTask(w)
      PROVE  OnePlaceInv'
  <2>1. /\ tasks # <<>> /\ tasks' = Tail(tasks)
        /\ task' = [task EXCEPT ![w] = Head(tasks)]
        /\ fresh' = fresh
    BY <1>2 DEF TakeTask, Popped
  <2>2. /\ Len(tasks') = Len(tasks) - 1
        /\ Len(tasks) >= 1
        /\ Head(tasks) = tasks[1]
        /\ \A i \in 1 .. Len(tasks) - 1 : tasks'[i] = tasks[i + 1]
    BY <1>1, <2>1, HeadTailProperties, EmptySeq
  <2> QED
    BY <1>1, <2>1, <2>2 DEF OnePlaceInv
<1>3. ASSUME NEW w \in Workers, TaskEnds(w)
      PROVE  OnePlaceInv'
  BY <1>1, <1>3 DEF TaskEnds, OnePlaceInv
<1>4. ASSUME NEW th \in Threads, NEW t \in Tasks, Add(th, t)
      PROVE  OnePlaceInv'
  <2>1. CASE stop
    BY <1>1, <1>4, <2>1 DEF Add, OnePlaceInv
  <2>2. CASE ~stop
    <3>1. /\ tasks' = Append(tasks, t) /\ task' = task
          /\ t \in fresh /\ fresh' = fresh \ {t}
      BY <1>4, <2>2 DEF Add, Queued
    <3>2. /\ Len(tasks') = Len(tasks) + 1
          /\ \A i \in 1 .. Len(tasks) : tasks'[i] = tasks[i]
          /\ tasks'[Len(tasks) + 1] = t
      BY <1>1, <3>1, AppendProperties
    <3> QED
      BY <1>1, <3>1, <3>2 DEF OnePlaceInv
  <2> QED
    BY <2>1, <2>2
<1>5. ASSUME UNCHANGED <<tasks, task, fresh>>
      PROVE  OnePlaceInv'
  BY <1>5 DEF OnePlaceInv
<1> QED
  BY <1>2, <1>3, <1>4, <1>5
     DEF Next, WorkerStep, WaitOnCv, Return, WakesUp, NotifyOne, SetStop, OwnerStep,
         NotifyAll, Join, vars

LEMMA OnePlaceInit == ThreadPoolAssumption /\ Init => OnePlaceInv
  BY DEF Init, OnePlaceInv, ThreadPoolAssumption

\* The tasks that run, as ParallelExecutor sees them.
Active == {task[w] : w \in InPhase("running")}

LEMMA ActiveFitsIdleWorker ==
    ASSUME ThreadPoolAssumption, NEW w \in Workers, pc[w] # "running"
    PROVE  Cardinality(Active) < Cardinality(Workers)
<1> DEFINE R == InPhase("running")
           f == [v \in R |-> task[v]]
<1>1. R \subseteq Workers \ {w}
  BY DEF InPhase
<1>2. f \in Surjection(R, Active)
  BY Zenon DEF Surjection, Active
<1>3. IsFiniteSet(R) /\ Cardinality(R) \in Nat
  BY PhaseFinite
<1> HIDE DEF R, f
<1>4. Cardinality(Active) <= Cardinality(R) /\ IsFiniteSet(Active)
  BY <1>2, <1>3, FS_Surjection
<1>5. /\ IsFiniteSet(Workers \ {w})
      /\ Cardinality(Workers \ {w}) = Cardinality(Workers) - 1
  BY WorkersFinite, FS_RemoveElement
<1>6. Cardinality(R) <= Cardinality(Workers \ {w})
  BY <1>1, <1>5, FS_Subset
<1> QED
  BY <1>3, <1>4, <1>5, <1>6, WorkersFinite, FS_CardinalityType

\* ParallelExecutor counts as this module does.
LEMMA SameCardinality == \A S : Executor!Cardinality(S) = Cardinality(S)
  BY Zenon DEF Cardinality, Executor!Cardinality, IsFiniteSet, Executor!IsFiniteSet

\* Each step of a thread is a step of ParallelExecutor or changes nothing it can see.
LEMMA RefinementStep ==
    ASSUME ThreadPoolAssumption, PoolInv, OnePlaceInv, [Next]_vars
    PROVE  [Executor!Next]_(Executor!vars)
<1>1. /\ pc \in [Workers -> Phases]
      /\ task \in [Workers -> Tasks \cup {NoTask}]
  BY DEF PoolInv, TypeOK
<1>2. ASSUME NEW w \in Workers, TakeTask(w)
      PROVE  Executor!Next
  <2>1. /\ pc[w] = "lock" /\ tasks # <<>>
        /\ task' = [task EXCEPT ![w] = Head(tasks)]
        /\ tasks' = Tail(tasks)
        /\ pc' = [pc EXCEPT ![w] = "running"]
        /\ UNCHANGED <<fresh, done>>
    BY <1>2 DEF TakeTask, Popped
  <2>2. Active' = Active \cup {Head(tasks)}
    <3>1. InPhase("running")' = InPhase("running") \cup {w} /\ w \notin InPhase("running")
      BY <1>1, <2>1 DEF InPhase
    <3>2. \A v \in InPhase("running") : task'[v] = task[v]
      BY <1>1, <2>1, <3>1 DEF InPhase
    <3>3. task'[w] = Head(tasks)
      BY <1>1, <2>1
    <3>4. Active' = {task'[v] : v \in InPhase("running")'}
      BY DEF Active
    <3> QED
      BY <3>1, <3>2, <3>3, <3>4 DEF Active
  <2>3. Cardinality(Active) < Cardinality(Workers)
    BY <2>1, ActiveFitsIdleWorker
  <2>4. /\ {task[v] : v \in InPhase("running")}' = {task[v] : v \in InPhase("running")} \cup {Head(tasks)}
        /\ Cardinality({task[v] : v \in InPhase("running")}) < Cardinality(Workers)
    BY <2>2, <2>3, Zenon DEF Active
  <2>5. Executor!Begin
    BY <2>1, <2>4, SameCardinality, Zenon DEF Executor!Begin
  <2> QED
    BY <2>5 DEF Executor!Next
<1>3. ASSUME NEW w \in Workers, TaskEnds(w)
      PROVE  Executor!Next
  <2>1. /\ pc[w] = "running"
        /\ done' = done \cup {task[w]}
        /\ task' = [task EXCEPT ![w] = NoTask]
        /\ pc' = [pc EXCEPT ![w] = "lock"]
        /\ UNCHANGED <<fresh, tasks>>
    BY <1>3 DEF TaskEnds
  <2>2. /\ \A v \in InPhase("running") : v \in Workers /\ task[v] # NoTask
        /\ task[w] \in Tasks
        /\ w \in InPhase("running")
    BY <1>1, <2>1 DEF PoolInv, PlaceInv, InPhase
  <2>3. InPhase("running")' = InPhase("running") \ {w}
    BY <1>1, <2>1 DEF InPhase
  <2>4. \A v \in InPhase("running") \ {w} : task'[v] = task[v] /\ task[v] # task[w]
    BY <1>1, <2>1, <2>2 DEF OnePlaceInv
  <2>5. Active' = Active \ {task[w]}
    <3>1. Active' = {task'[v] : v \in InPhase("running")'}
      BY DEF Active
    <3> QED
      BY <2>2, <2>3, <2>4, <3>1 DEF Active
  <2>6. task[w] \in Active
    BY <2>2 DEF Active
  <2> QED
    BY <2>1, <2>2, <2>5, <2>6 DEF Executor!End, Executor!Next, Active
<1>4. ASSUME NEW th \in Threads, NEW t \in Tasks, Add(th, t)
      PROVE  Executor!Next
  <2>1. UNCHANGED Active
    BY <1>4 DEF Add, Active, InPhase
  <2> QED
    BY <1>4, <2>1 DEF Add, Queued, Executor!Submit, Executor!Refuse, Executor!Next, Active
<1>5. ASSUME NEW w \in Workers, WaitOnCv(w) \/ Return(w) \/ WakesUp(w)
      PROVE  UNCHANGED Executor!vars
  <2>1. InPhase("running")' = InPhase("running") /\ UNCHANGED <<task, tasks, fresh, done>>
    BY <1>1, <1>5 DEF WaitOnCv, Return, WakesUp, InPhase
  <2> QED
    BY <2>1 DEF Executor!vars
<1>6. ASSUME NEW th \in Threads, NotifyOne(th)
      PROVE  UNCHANGED Executor!vars
  <2>1. InPhase("running")' = InPhase("running") /\ UNCHANGED <<task, tasks, fresh, done>>
    BY <1>1, <1>6 DEF NotifyOne, Woken, InPhase
  <2> QED
    BY <2>1 DEF Executor!vars
<1>7. CASE SetStop \/ NotifyAll \/ Join \/ UNCHANGED vars
  <2>1. InPhase("running")' = InPhase("running") /\ UNCHANGED <<task, tasks, fresh, done>>
    BY <1>1, <1>7 DEF SetStop, NotifyAll, AllWoken, Join, vars, InPhase
  <2> QED
    BY <2>1 DEF Executor!vars
<1> QED
  BY <1>2, <1>3, <1>4, <1>5, <1>6, <1>7 DEF Next, WorkerStep, OwnerStep

\* ThreadPool implements the safety part of ParallelExecutor: tasks are started once
\* each, in the order of the calls of Add, at most one per worker; what is not refused
\* is started, and what has ended was started (ThreadPool::Add, the worker's loop).
THEOREM RefinesExecutor == ASSUME ThreadPoolAssumption PROVE SafeSpec => Executor!SafeSpec
<1>1. Init => Executor!Init
  <2> SUFFICES ASSUME Init PROVE Executor!Init
    OBVIOUS
  <2>1. InPhase("running") = {}
    BY DEF Init, InPhase
  <2> QED
    BY <2>1 DEF Init, Executor!Init
<1> QED
  BY <1>1, PoolInvInit, PoolInvNext, OnePlaceInit, OnePlaceNext, RefinementStep, PTL
     DEF SafeSpec, Executor!SafeSpec
===============================================================================

---------------------------- MODULE MCExecutors ----------------------------
(***************************************************************************)
(* Model-checking instance of the parts that hand work from one thread to  *)
(* another: EventLoop, ThreadPool, Startup and ClangTidy.  They share      *)
(* nothing; each behaviour is one of one of them.                          *)
(***************************************************************************)
EXTENDS EventLoop

CONSTANTS
    Tasks, Users, PoolSize, NoTask,                         \* ThreadPool
    numThreads, NoLoop,                                     \* Startup
    Files, Order, Skipped, Selections, MaxTask, NoFile      \* ClangTidy

VARIABLES
    part,                                                   \* which of them
    tasks, stop, pc, task, adding, owner, unused, done,     \* ThreadPool
    main, event_loops, thread, loop,                        \* Startup
    selected, export, fix, next, tmain, code, queue,        \* ClangTidy
    unfinished, failed, fixes, worker, name, checked

MCOrder == <<"a.cpp", "b.cpp", "third_party/c.cpp", "d.cpp">>
MCFiles == {MCOrder[k] : k \in DOMAIN MCOrder}
MCSkipped == {"third_party/c.cpp"}
MCSelections == {MCFiles, MCFiles \ {"d.cpp"}}

Pool == INSTANCE ThreadPool WITH Size <- PoolSize, Callers <- Users, fresh <- unused
Start == INSTANCE Startup
Tidy == INSTANCE ClangTidy WITH main <- tmain

ASSUME ExecutorsAssumption ==
    Pool!ThreadPoolAssumption /\ Start!StartupAssumption /\ Tidy!ClangTidyAssumption

poolVars == <<tasks, stop, pc, task, adding, owner, unused, done>>
startVars == <<main, event_loops, thread, loop>>
tidyVars == <<selected, export, fix, next, tmain, code, queue, unfinished, failed,
              fixes, worker, name, checked>>
allVars == <<part, vars, poolVars, startVars, tidyVars>>

MCInit ==
    /\ part \in {"loop", "pool", "start", "tidy"}
    /\ Init /\ Pool!Init /\ Start!Init /\ Tidy!Init
    /\ part # "tidy" => selected = Files /\ export = FALSE /\ fix = FALSE

LoopPart(A) == part = "loop" /\ A /\ UNCHANGED <<part, poolVars, startVars, tidyVars>>
PoolPart(A) == part = "pool" /\ A /\ UNCHANGED <<part, vars, startVars, tidyVars>>
StartPart(A) == part = "start" /\ A /\ UNCHANGED <<part, vars, poolVars, tidyVars>>
TidyPart(A) == part = "tidy" /\ A /\ UNCHANGED <<part, vars, poolVars, startVars>>

MCNext == LoopPart(Next) \/ PoolPart(Pool!Next) \/ StartPart(Start!Next) \/ TidyPart(Tidy!Next)

\* The fairness of the four specifications.
MCSpec ==
    /\ MCInit /\ [][MCNext]_allVars
    /\ WF_allVars(LoopPart(LoopStep))
    /\ \A t \in Threads : WF_allVars(LoopPart(Notify(t)))
    /\ \A w \in Pool!Workers : WF_allVars(PoolPart(Pool!WorkerStep(w)))
    /\ \A th \in Pool!Threads : WF_allVars(PoolPart(Pool!NotifyOne(th)))
    /\ WF_allVars(PoolPart(Pool!OwnerStep))
    /\ WF_allVars(StartPart(Start!MainStep))
    /\ \A i \in Start!ThreadIds : WF_allVars(StartPart(Start!ThreadStep(i)))
    /\ WF_allVars(TidyPart(Tidy!MainStep))
    /\ \A w \in Tidy!Workers : WF_allVars(TidyPart(Tidy!WorkerStep(w)))

\* The properties of the other three modules, by the names they have there.
PartsTypeOK == TypeOK /\ Pool!TypeOK /\ Start!TypeOK /\ Tidy!TypeOK
PoolServes == Pool!PoolServes
PoolImplementsExecutor == Pool!ImplementsExecutor
LoopsAreReady == Start!LoopsAreReady
ExitCodeTells == Tidy!ExitCodeTells

\* Whoever waits for other threads gets to the end: ThreadPool's destructor for the
\* workers it joins, EventLoopThreadPool::Start for each loop, run_clang_tidy.py for its
\* queue (with the exceptions that ScriptEnds names).
WaitsEnd ==
    /\ Pool!DestructorReturns
    /\ part = "start" => Start!StartReturns
    /\ part = "tidy" => Tidy!ScriptEnds
=============================================================================

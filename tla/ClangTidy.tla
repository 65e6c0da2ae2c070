----------------------------- MODULE ClangTidy -----------------------------
(***************************************************************************)
(* run_clang_tidy.py: the main thread puts the files of the compilation    *)
(* database into a bounded queue, worker threads take them out and run     *)
(* clang-tidy, and the exit code tells whether one of them failed.         *)
(*                                                                         *)
(* Python's queue.Queue counts the items that were put and for which       *)
(* task_done has not been called; join waits until there are none.         *)
(***************************************************************************)
EXTENDS Integers, Sequences, FiniteSets

CONSTANTS
    Files,      \* the files of the database
    Order,      \* their order in it
    Skipped,    \* those under third_party (CheckConfig.should_skip)
    Selections, \* the sets of files the command line may select: all by default
    MaxTask,    \* -j: the size of the queue and the number of workers
    NoFile

Workers == 1 .. MaxTask

ClangTidyAssumption ==
    /\ Order \in Seq(Files) /\ {Order[k] : k \in DOMAIN Order} = Files
    /\ Len(Order) = Cardinality(Files)
    /\ Skipped \subseteq Files /\ Selections \subseteq SUBSET Files
    /\ MaxTask \in Nat \ {0}
    /\ NoFile \notin Files

VARIABLES
    selected,   \* the files that match file_name_re
    export,     \* whether -export-fixes was given
    fix,        \* whether -fix was given; with one of them there is a tmpdir
    next,       \* the index in enumerate(files)
    main,       \* where main() is
    code,       \* return_code, the exit code
    queue,      \* task_queue
    unfinished, \* its count of unfinished tasks
    failed,     \* failed_files
    fixes,      \* whether there is a .yaml file in tmpdir
    worker,     \* where each worker is
    name,       \* its local variable name
    checked     \* files whose clang-tidy has ended, with its verdict (history)

vars == <<selected, export, fix, next, main, code, queue, unfinished, failed, fixes, worker,
          name, checked>>

Verdicts == {"clean", "errors"}

TypeOK ==
    /\ selected \in Selections
    /\ export \in BOOLEAN
    /\ fix \in BOOLEAN
    /\ next \in 1 .. Len(Order) + 1
    /\ main \in {"put", "join", "report", "killed", "exited"}
    /\ code \in {0, 1}
    /\ queue \in Seq(Files) /\ Len(queue) <= MaxTask
    /\ unfinished \in 0 .. Len(Order)
    /\ failed \subseteq Files
    /\ fixes \in BOOLEAN
    /\ worker \in [Workers -> {"get", "run", "print", "done", "dead"}]
    /\ name \in [Workers -> Files \cup {NoFile}]
    /\ checked \subseteq Files \X Verdicts

\* After the options are parsed, the binaries were tried and the database read.
Init ==
    /\ selected \in Selections
    /\ export \in BOOLEAN
    /\ fix \in BOOLEAN
    /\ next = 1
    /\ main = "put"
    /\ code = 0
    /\ queue = <<>>
    /\ unfinished = 0
    /\ failed = {}
    /\ fixes = FALSE
    /\ worker = [w \in Workers |-> "get"]
    /\ name = [w \in Workers |-> NoFile]
    /\ checked = {}

-----------------------------------------------------------------------------
HasRoom == Len(queue) < MaxTask

\* put(name, timeout=300) when there is room.  When it times out, Full is
\* caught and the loop tries the same file again.  A file that is not selected
\* is not put, but put_file stays False, and the loop goes on for ever.
PutFile ==
    /\ main = "put"
    /\ next <= Len(Order)
    /\ Order[next] \in selected
    /\ HasRoom
    /\ queue' = Append(queue, Order[next])
    /\ unfinished' = unfinished + 1
    /\ next' = next + 1
    /\ UNCHANGED <<selected, export, fix, main, code, failed, fixes, worker, name, checked>>

AllPut ==
    /\ main = "put"
    /\ next > Len(Order)
    /\ main' = "join"
    /\ UNCHANGED <<selected, export, fix, next, code, queue, unfinished, failed, fixes, worker,
                   name, checked>>

\* A plausible mistake: waiting until the queue is empty.
NoneQueued == queue = <<>>

NoneUnfinished == unfinished = 0

\* task_queue.join() returns, and failed_files is looked at.
Join ==
    /\ main = "join"
    /\ NoneUnfinished
    /\ main' = "report"
    /\ code' = IF failed = {} THEN 0 ELSE 1
    /\ UNCHANGED <<selected, export, fix, next, queue, unfinished, failed, fixes, worker, name,
                   checked>>

\* merge_replacement_files reads every .yaml file with the module yaml, whose
\* import is commented out: one file is enough for a NameError, which is caught.
\* Without one it makes an empty file, which may fail too.
MergeEnds == IF fixes THEN {"raised"} ELSE {"written", "raised"}

\* apply_fixes starts clang-apply-replacements, which may not be possible, and does
\* not look at what it returns.
ApplyEnds == {"called", "raised"}

Exit ==
    /\ main = "report"
    /\ \E merge \in MergeEnds, apply \in ApplyEnds :
          code' = IF (export /\ merge = "raised") \/ (fix /\ apply = "raised") THEN 1 ELSE code
    /\ main' = "exited"
    /\ UNCHANGED <<selected, export, fix, next, queue, unfinished, failed, fixes, worker, name,
                   checked>>

\* Ctrl-C while files are put or joined: os.kill(0, 9).
Interrupt ==
    /\ main \in {"put", "join"}
    /\ main' = "killed"
    /\ UNCHANGED <<selected, export, fix, next, code, queue, unfinished, failed, fixes, worker,
                   name, checked>>

-----------------------------------------------------------------------------
\* The threads are daemons: they end with the process.
Running == main \notin {"killed", "exited"}

\* queue.get(); get_tidy_invocation makes the .yaml file of this file before
\* should_skip is asked.
GetFile(w) ==
    /\ Running
    /\ worker[w] = "get"
    /\ queue # <<>>
    /\ name' = [name EXCEPT ![w] = Head(queue)]
    /\ queue' = Tail(queue)
    /\ fixes' = (fixes \/ export \/ fix)
    /\ worker' = [worker EXCEPT ![w] = IF Head(queue) \in Skipped THEN "done" ELSE "run"]
    /\ UNCHANGED <<selected, export, fix, next, main, code, unfinished, failed, checked>>

Remembered(w, verdict) == IF verdict = "errors" THEN failed \cup {name[w]} ELSE failed

\* proc.communicate(), then the return code.
RunTidy(w) ==
    /\ Running
    /\ worker[w] = "run"
    /\ \E verdict \in Verdicts :
          /\ checked' = checked \cup {<<name[w], verdict>>}
          /\ failed' = Remembered(w, verdict)
    /\ worker' = [worker EXCEPT ![w] = "print"]
    /\ UNCHANGED <<selected, export, fix, next, main, code, queue, unfinished, fixes, name>>

PrintOutput(w) ==
    /\ Running
    /\ worker[w] = "print"
    /\ worker' = [worker EXCEPT ![w] = "done"]
    /\ UNCHANGED <<selected, export, fix, next, main, code, queue, unfinished, failed,
                   fixes, name, checked>>

\* Popen raises (no process to be had), or decode does (not UTF-8): nobody
\* catches it, and the thread ends without task_done.
Raise(w) ==
    /\ Running
    /\ worker[w] \in {"run", "print"}
    /\ worker' = [worker EXCEPT ![w] = "dead"]
    /\ UNCHANGED <<selected, export, fix, next, main, code, queue, unfinished, failed,
                   fixes, name, checked>>

Done(w) == unfinished - 1

TaskDone(w) ==
    /\ Running
    /\ worker[w] = "done"
    /\ unfinished' = Done(w)
    /\ worker' = [worker EXCEPT ![w] = "get"]
    /\ name' = [name EXCEPT ![w] = NoFile]
    /\ UNCHANGED <<selected, export, fix, next, main, code, queue, failed, fixes, checked>>

-----------------------------------------------------------------------------
MainStep == PutFile \/ AllPut \/ Join \/ Exit

WorkerStep(w) == GetFile(w) \/ RunTidy(w) \/ PrintOutput(w) \/ TaskDone(w)

Next ==
    \/ MainStep
    \/ Interrupt
    \/ \E w \in Workers : WorkerStep(w) \/ Raise(w)

SafeSpec == Init /\ [][Next]_vars

\* Threads are scheduled and clang-tidy ends.
Spec == SafeSpec /\ WF_vars(MainStep) /\ \A w \in Workers : WF_vars(WorkerStep(w))

-----------------------------------------------------------------------------
\* When the process exits, clang-tidy has run to its end on every selected file
\* that is not skipped, and the exit code is 1 if one of the runs failed.  It is
\* 0 if none did, unless fixes were to be exported or applied: either may raise
\* (run_clang_tidy.py:170-191, 325-364).  A worker that died keeps join from
\* returning.
ExitCodeTells ==
    main = "exited" =>
        /\ {f \in Files : \E v \in Verdicts : <<f, v>> \in checked} = selected \ Skipped
        /\ (\E f \in Files : <<f, "errors">> \in checked) => code = 1
        /\ code = 1 => export \/ fix \/ \E f \in Files : <<f, "errors">> \in checked

\* The script ends.  It need not when a worker has died of an exception, nor
\* when a file of the database is not selected (run_clang_tidy.py:312-325).
ScriptEnds ==
    <>(main \in {"exited", "killed"} \/ (\E w \in Workers : worker[w] = "dead")
         \/ ~ Files \subseteq selected)
=============================================================================

--------------------------- MODULE ExecutorsProofs ---------------------------
(***************************************************************************)
(* Proofs about Startup and ClangTidy, and about the specification that    *)
(* puts them, EventLoop and ThreadPool side by side, for every value of    *)
(* the constants of MCExecutors.                                           *)
(***************************************************************************)
EXTENDS MCExecutors, EventLoopProofs, FiniteSetTheorems

-----------------------------------------------------------------------------
(***************************************************************************)
(* Startup.                                                                *)
(***************************************************************************)

\* The inductive invariant: only the threads up to the one being started exist, a
\* thread stores its own loop, and what has been handed out was stored.
StartInv ==
    /\ Start!TypeOK
    /\ main \in {"test", "waiting"} => Start!Current \in Start!ThreadIds
    /\ main \in {"create", "started"} /\ Start!Current \in Start!ThreadIds
          => thread[Start!Current] = "none"
    /\ \A i \in Start!ThreadIds : i > Start!Current => thread[i] = "none"
    /\ \A i \in Start!ThreadIds :
          IF thread[i] \in {"stored", "looping"} THEN loop[i] = i ELSE loop[i] = NoLoop
    /\ Start!LoopsAreReady

LEMMA StartInvInit == Start!Init => StartInv
<1> SUFFICES ASSUME Start!Init PROVE StartInv
  OBVIOUS
<1>1. Start!num_threads \in Nat \ {0}
  BY ExecutorsAssumption DEF Start!StartupAssumption, Start!num_threads
<1>2. <<>> \in Seq(Start!ThreadIds \cup {NoLoop}) /\ Len(<<>>) = 0
  BY EmptySeq
<1>3. Start!TypeOK
  BY <1>1, <1>2 DEF Start!Init, Start!TypeOK
<1> QED
  BY <1>1, <1>2, <1>3 DEF Start!Init, StartInv, Start!Current, Start!LoopsAreReady, Start!ThreadIds

LEMMA TestLoopStep ==
    ASSUME StartInv, Start!TestLoop
    PROVE  StartInv'
<1> DEFINE n == Len(event_loops)
<1>1. /\ event_loops \in Seq(Start!ThreadIds \cup {NoLoop})
      /\ n \in Nat
      /\ n + 1 \in Start!ThreadIds
      /\ Start!ThreadIds = 1 .. Start!num_threads
      /\ Start!num_threads \in Nat
      /\ NoLoop \notin Nat
  BY LenProperties, ExecutorsAssumption
     DEF StartInv, Start!TypeOK, Start!TestLoop, Start!Current, Start!ThreadIds,
         Start!StartupAssumption, Start!num_threads
<1>2. CASE ~Start!MayReturn
  BY <1>2 DEF Start!TestLoop, StartInv, Start!TypeOK, Start!Current, Start!LoopsAreReady
<1>3. CASE Start!MayReturn
  <2>1. /\ event_loops' = Append(event_loops, loop[n + 1])
        /\ main' = "create"
        /\ UNCHANGED <<thread, loop>>
    BY <1>3 DEF Start!TestLoop, Start!Current
  <2>2. /\ thread[n + 1] \in {"stored", "looping"}
        /\ loop[n + 1] = n + 1
    BY <1>1, <1>3 DEF StartInv, Start!MayReturn, Start!Current
  <2>3. /\ event_loops' \in Seq(Start!ThreadIds \cup {NoLoop})
        /\ Len(event_loops') = n + 1
        /\ \A k \in 1 .. n : event_loops'[k] = event_loops[k]
        /\ event_loops'[n + 1] = n + 1
    BY <1>1, <2>1, <2>2, AppendProperties
  <2>4. Start!TypeOK'
    BY <1>1, <2>1, <2>3 DEF StartInv, Start!TypeOK
  <2>5. Start!LoopsAreReady'
    BY <1>1, <2>1, <2>2, <2>3 DEF StartInv, Start!LoopsAreReady
  <2>6. Start!Current' = n + 2
    BY <1>1, <2>3 DEF Start!Current
  <2>7. \A i \in Start!ThreadIds : i > n + 1 => thread[i] = "none"
    BY <1>1 DEF StartInv, Start!Current
  <2> HIDE DEF n
  <2> QED
    BY <1>1, <2>1, <2>4, <2>5, <2>6, <2>7 DEF StartInv
<1> QED
  BY <1>2, <1>3

LEMMA StartInvNext ==
    ASSUME StartInv, [Start!Next]_startVars
    PROVE  StartInv'
<1>1. /\ event_loops \in Seq(Start!ThreadIds \cup {NoLoop})
      /\ Len(event_loops) \in Nat
      /\ Start!ThreadIds \subseteq Nat
      /\ NoLoop \notin Nat
      /\ thread \in [Start!ThreadIds -> {"none", "new", "made", "stored", "looping"}]
      /\ loop \in [Start!ThreadIds -> Start!ThreadIds \cup {NoLoop}]
  BY LenProperties, ExecutorsAssumption
     DEF StartInv, Start!TypeOK, Start!ThreadIds, Start!StartupAssumption
<1>2. CASE Start!CreateThread
  BY <1>1, <1>2
     DEF Start!CreateThread, StartInv, Start!TypeOK, Start!Current, Start!LoopsAreReady
<1>3. CASE Start!TestLoop
  BY <1>3, TestLoopStep
<1>4. CASE Start!Started \/ Start!SpuriousWakeup
  BY <1>1, <1>4 DEF Start!Started, Start!SpuriousWakeup, StartInv, Start!TypeOK,
     Start!Current, Start!LoopsAreReady
<1>5. ASSUME NEW i \in Start!ThreadIds, Start!MakeLoop(i)
      PROVE  StartInv'
  BY <1>1, <1>5
     DEF Start!MakeLoop, StartInv, Start!TypeOK, Start!Current, Start!LoopsAreReady
<1>6. ASSUME NEW i \in Start!ThreadIds, Start!StoreLoop(i)
      PROVE  StartInv'
  BY <1>1, <1>6
     DEF Start!StoreLoop, StartInv, Start!TypeOK, Start!Current, Start!LoopsAreReady
<1>7. ASSUME NEW i \in Start!ThreadIds, Start!NotifyOne(i)
      PROVE  StartInv'
  BY <1>1, <1>7
     DEF Start!NotifyOne, Start!Notified, StartInv, Start!TypeOK, Start!Current,
         Start!LoopsAreReady
<1>8. CASE UNCHANGED startVars
  BY <1>8 DEF startVars, StartInv, Start!TypeOK, Start!Current, Start!LoopsAreReady
<1> QED
  BY <1>2, <1>3, <1>4, <1>5, <1>6, <1>7, <1>8
     DEF Start!Next, Start!MainStep, Start!ThreadStep

-----------------------------------------------------------------------------
(***************************************************************************)
(* ClangTidy.                                                              *)
(***************************************************************************)

\* The workers that hold a file for which they have not called task_done.
Busy == {w \in Tidy!Workers : worker[w] # "get"}

\* The queue's count of unfinished tasks: what is queued and what is held.
CountInv ==
    /\ unfinished = Len(queue) + Cardinality(Busy)
    /\ unfinished <= next - 1

\* Every file put is selected, and is still queued, or held by a worker that has not
\* checked it, or skipped, or checked.
Checked(f) == \E v \in Tidy!Verdicts : <<f, v>> \in checked

FilesInv ==
    /\ \A k \in 1 .. next - 1 :
          /\ Order[k] \in selected
          /\ \/ \E i \in 1 .. Len(queue) : queue[i] = Order[k]
             \/ \E w \in Busy : name[w] = Order[k]
             \/ Order[k] \in Skipped
             \/ Checked(Order[k])
    /\ \A i \in 1 .. Len(queue) : queue[i] \in selected
    /\ \A w \in Busy : name[w] \in selected
    /\ \A w \in Busy : worker[w] = "run" => name[w] \notin Skipped
    /\ \A w \in Busy : worker[w] = "print" => Checked(name[w])
    /\ \A w \in Busy : worker[w] = "done" => name[w] \in Skipped \/ Checked(name[w])
    /\ \A f \in Files : Checked(f) => f \in selected \ Skipped

\* How far the main thread has come, and what the exit code is then.
VerdictInv ==
    /\ tmain \in {"join", "report", "exited"} => next = Len(Order) + 1
    /\ tmain \in {"report", "exited"} => unfinished = 0
    /\ failed = {f \in Files : <<f, "errors">> \in checked}
    /\ tmain \in {"put", "join"} => code = 0
    /\ tmain \in {"report", "exited"} /\ failed # {} => code = 1
    /\ tmain \in {"report", "exited"} /\ failed = {} /\ ~export /\ ~fix => code = 0

TidyInv == Tidy!TypeOK /\ CountInv /\ FilesInv /\ VerdictInv

\* What the assumption says of the files.
LEMMA FilesFacts ==
    /\ Order \in Seq(Files) /\ Len(Order) \in Nat
    /\ \A k \in 1 .. Len(Order) : Order[k] \in Files
    /\ \A f \in Files : \E k \in 1 .. Len(Order) : Order[k] = f
    /\ Selections \subseteq SUBSET Files
    /\ MaxTask \in Nat /\ MaxTask >= 1
    /\ NoFile \notin Files
<1>1. /\ Order \in Seq(Files) /\ {Order[k] : k \in DOMAIN Order} = Files
      /\ Selections \subseteq SUBSET Files
      /\ MaxTask \in Nat \ {0}
      /\ NoFile \notin Files
  BY ExecutorsAssumption DEF Tidy!ClangTidyAssumption
<1>2. /\ Len(Order) \in Nat /\ DOMAIN Order = 1 .. Len(Order)
      /\ \A k \in 1 .. Len(Order) : Order[k] \in Files
      /\ \A f \in Files : \E k \in 1 .. Len(Order) : Order[k] = f
  BY <1>1, LenProperties, ElementOfSeq
<1> QED
  BY <1>1, <1>2

\* What the types say of the queue and of the workers that hold a file.
LEMMA TidyFacts ==
    ASSUME Tidy!TypeOK
    PROVE  /\ selected \subseteq Files
           /\ queue \in Seq(Files) /\ Len(queue) \in Nat /\ Len(queue) <= MaxTask
           /\ \A i \in 1 .. Len(queue) : queue[i] \in Files
           /\ next \in Nat /\ 1 <= next /\ next <= Len(Order) + 1
           /\ worker \in [Tidy!Workers -> {"get", "run", "print", "done", "dead"}]
           /\ name \in [Tidy!Workers -> Files \cup {NoFile}]
           /\ unfinished \in Nat /\ unfinished <= Len(Order)
           /\ IsFiniteSet(Busy) /\ Cardinality(Busy) \in Nat
           /\ Busy \subseteq Tidy!Workers
<1>1. /\ queue \in Seq(Files) /\ Len(queue) \in Nat
      /\ \A i \in 1 .. Len(queue) : queue[i] \in Files
  BY LenProperties, ElementOfSeq DEF Tidy!TypeOK
<1>2. IsFiniteSet(Tidy!Workers)
  BY FilesFacts, FS_Interval DEF Tidy!Workers
<1>3. Busy \subseteq Tidy!Workers
  BY DEF Busy
<1>4. IsFiniteSet(Busy) /\ Cardinality(Busy) \in Nat
  BY <1>2, <1>3, FS_Subset, FS_CardinalityType
<1>5. selected \subseteq Files
  BY FilesFacts DEF Tidy!TypeOK
<1>6. /\ next \in Nat /\ 1 <= next /\ next <= Len(Order) + 1
      /\ unfinished \in Nat /\ unfinished <= Len(Order)
  BY FilesFacts DEF Tidy!TypeOK
<1> QED
  BY <1>1, <1>3, <1>4, <1>5, <1>6 DEF Tidy!TypeOK

LEMMA TidyInvInit == Tidy!Init => TidyInv
<1> SUFFICES ASSUME Tidy!Init PROVE TidyInv
  OBVIOUS
<1>1. <<>> \in Seq(Files) /\ Len(<<>>) = 0
  BY EmptySeq
<1>2. /\ next = 1 /\ unfinished = 0 /\ queue = <<>> /\ code = 0 /\ tmain = "put"
      /\ failed = {} /\ checked = {} /\ fixes = FALSE
      /\ selected \in Selections /\ export \in BOOLEAN /\ fix \in BOOLEAN
      /\ worker = [w \in Tidy!Workers |-> "get"]
      /\ name = [w \in Tidy!Workers |-> NoFile]
  BY DEF Tidy!Init
<1>3. Tidy!TypeOK
  <2>1. /\ next \in 1 .. Len(Order) + 1 /\ unfinished \in 0 .. Len(Order)
        /\ Len(queue) <= MaxTask /\ code \in {0, 1}
    BY <1>1, <1>2, FilesFacts
  <2>2. fixes \in BOOLEAN /\ failed \subseteq Files /\ checked \subseteq Files \X Tidy!Verdicts
    BY <1>2
  <2>3. /\ worker \in [Tidy!Workers -> {"get", "run", "print", "done", "dead"}]
        /\ name \in [Tidy!Workers -> Files \cup {NoFile}]
    BY <1>2
  <2>4. queue \in Seq(Files) /\ tmain \in {"put", "join", "report", "killed", "exited"}
    BY <1>1, <1>2
  <2> QED
    BY <1>2, <2>1, <2>2, <2>3, <2>4, Zenon DEF Tidy!TypeOK
<1>4. Busy = {}
  BY <1>2 DEF Busy
<1>5. CountInv
  BY <1>1, <1>2, <1>4, FS_EmptySet DEF CountInv
<1>6. FilesInv
  BY <1>1, <1>2, <1>4 DEF FilesInv, Checked
<1>7. VerdictInv
  BY <1>2 DEF VerdictInv
<1> QED
  BY <1>3, <1>5, <1>6, <1>7 DEF TidyInv

LEMMA PutFileStep ==
    ASSUME TidyInv, Tidy!PutFile
    PROVE  TidyInv'
<1> DEFINE n == Len(Order)
           len == Len(queue)
<1>1. /\ next <= n /\ Order[next] \in selected
      /\ len < MaxTask
      /\ queue' = Append(queue, Order[next])
      /\ unfinished' = unfinished + 1
      /\ next' = next + 1
      /\ tmain = "put"
      /\ UNCHANGED <<selected, export, fix, tmain, code, failed, fixes, worker, name, checked>>
  BY DEF Tidy!PutFile, Tidy!HasRoom
<1>2. Tidy!TypeOK /\ CountInv /\ FilesInv /\ VerdictInv
  BY DEF TidyInv
<1>3. /\ queue \in Seq(Files) /\ len \in Nat /\ next \in 1 .. n /\ n \in Nat
      /\ Order[next] \in Files
      /\ unfinished \in Nat /\ Cardinality(Busy) \in Nat
  BY <1>1, <1>2, TidyFacts, FilesFacts
<1>4. /\ queue' \in Seq(Files)
      /\ Len(queue') = len + 1
      /\ \A i \in 1 .. len : queue'[i] = queue[i]
      /\ queue'[len + 1] = Order[next]
  BY <1>1, <1>3, AppendProperties
<1>5. Busy' = Busy
  BY <1>1 DEF Busy
<1>6. CountInv'
  BY <1>1, <1>2, <1>3, <1>4, <1>5, SMTT(30) DEF CountInv
<1> HIDE DEF n, len
<1>7. Tidy!TypeOK'
  <2>1. Len(queue') <= MaxTask
    BY <1>1, <1>3, <1>4, FilesFacts
  <2>2. next' \in 1 .. n + 1 /\ unfinished' \in 0 .. n
    BY <1>1, <1>2, <1>3 DEF CountInv
  <2> QED
    BY <1>1, <1>2, <1>4, <2>1, <2>2 DEF Tidy!TypeOK, n
<1>8. FilesInv'
  <2>1. \A f : Checked(f)' = Checked(f)
    BY <1>1 DEF Checked
  <2>2. /\ next' - 1 = next /\ next - 1 \in Nat
        /\ \A k \in 1 .. next : k = next \/ k \in 1 .. next - 1
        /\ \A i \in 1 .. len + 1 : i = len + 1 \/ i \in 1 .. len
        /\ \A i \in 1 .. len : i \in 1 .. len + 1
        /\ len + 1 \in 1 .. len + 1
    BY <1>1, <1>3
  <2>3. ASSUME NEW k \in 1 .. next
        PROVE  /\ Order[k] \in selected
               /\ \/ \E i \in 1 .. Len(queue') : queue'[i] = Order[k]
                  \/ \E w \in Busy : name[w] = Order[k]
                  \/ Order[k] \in Skipped
                  \/ Checked(Order[k])
    <3>1. CASE k = next
      BY <1>1, <1>4, <2>2, <3>1
    <3>2. CASE k \in 1 .. next - 1
      <4>1. /\ Order[k] \in selected
            /\ \/ \E i \in 1 .. len : queue[i] = Order[k]
               \/ \E w \in Busy : name[w] = Order[k]
               \/ Order[k] \in Skipped
               \/ Checked(Order[k])
        BY <1>2, <3>2 DEF FilesInv, len
      <4> QED
        BY <1>4, <2>2, <4>1
    <3> QED
      BY <2>2, <3>1, <3>2
  <2>4. \A i \in 1 .. len : queue[i] \in selected
    BY <1>2 DEF FilesInv, len
  <2>5. \A i \in 1 .. Len(queue') : queue'[i] \in selected
    BY <1>1, <1>4, <2>2, <2>4
  <2> QED
    BY <1>1, <1>2, <1>5, <2>1, <2>2, <2>3, <2>5 DEF FilesInv
<1>9. VerdictInv'
  BY <1>1, <1>2 DEF VerdictInv
<1> QED
  BY <1>6, <1>7, <1>8, <1>9 DEF TidyInv

LEMMA GetFileStep ==
    ASSUME TidyInv, NEW w \in Tidy!Workers, Tidy!GetFile(w)
    PROVE  TidyInv'
<1> DEFINE len == Len(queue)
<1>1. /\ worker[w] = "get" /\ queue # <<>>
      /\ name' = [name EXCEPT ![w] = Head(queue)]
      /\ queue' = Tail(queue)
      /\ fixes' = (fixes \/ export \/ fix)
      /\ worker' = [worker EXCEPT ![w] = IF Head(queue) \in Skipped THEN "done" ELSE "run"]
      /\ tmain \notin {"killed", "exited"}
      /\ UNCHANGED <<selected, export, fix, next, tmain, code, unfinished, failed, checked>>
  BY DEF Tidy!GetFile, Tidy!Running
<1>2. Tidy!TypeOK /\ CountInv /\ FilesInv /\ VerdictInv
  BY DEF TidyInv
<1>3. /\ queue \in Seq(Files) /\ len \in Nat /\ unfinished \in Nat /\ next \in Nat
      /\ worker \in [Tidy!Workers -> {"get", "run", "print", "done", "dead"}]
      /\ name \in [Tidy!Workers -> Files \cup {NoFile}]
      /\ IsFiniteSet(Busy) /\ Cardinality(Busy) \in Nat /\ Busy \subseteq Tidy!Workers
  BY <1>2, TidyFacts
<1>4. /\ Head(queue) = queue[1] /\ queue[1] \in Files
      /\ len >= 1
      /\ queue' \in Seq(Files)
      /\ Len(queue') = len - 1
      /\ \A i \in 1 .. len - 1 : queue'[i] = queue[i + 1]
  BY <1>1, <1>3, HeadTailProperties, EmptySeq, ElementOfSeq
<1>5. Busy' = Busy \cup {w} /\ w \notin Busy
  BY <1>1, <1>3 DEF Busy
<1>6. Cardinality(Busy') = Cardinality(Busy) + 1
  BY <1>3, <1>5, FS_AddElement
<1>7. CountInv'
  BY <1>1, <1>2, <1>3, <1>4, <1>6 DEF CountInv
<1> HIDE DEF len
<1>8. Tidy!TypeOK'
  <2>1. Len(queue') <= MaxTask
    BY <1>2, <1>3, <1>4, FilesFacts, TidyFacts DEF len
  <2>2. fixes' \in BOOLEAN
    BY <1>1, <1>2, Zenon DEF Tidy!TypeOK
  <2>3. /\ worker' \in [Tidy!Workers -> {"get", "run", "print", "done", "dead"}]
        /\ name' \in [Tidy!Workers -> Files \cup {NoFile}]
    BY <1>1, <1>3, <1>4
  <2> QED
    BY <1>1, <1>2, <1>4, <2>1, <2>2, <2>3, Zenon DEF Tidy!TypeOK
<1>9. FilesInv'
  <2>1. \A f : Checked(f)' = Checked(f)
    BY <1>1 DEF Checked
  <2>2. 1 \in 1 .. len /\ \A i \in 1 .. len - 1 : i + 1 \in 1 .. len
    BY <1>3, <1>4
  <2>3. \A i \in 1 .. len : queue[i] \in selected
    BY <1>2 DEF FilesInv, len
  <2>4. /\ name'[w] = queue[1] /\ queue[1] \in selected
        /\ \A v \in Busy : name'[v] = name[v] /\ worker'[v] = worker[v]
        /\ worker'[w] = IF queue[1] \in Skipped THEN "done" ELSE "run"
    BY <1>1, <1>3, <1>4, <1>5, <2>2, <2>3
  <2>5. \A i \in 1 .. len : i = 1 \/ \E j \in 1 .. Len(queue') : queue'[j] = queue[i]
    <3>1. ASSUME NEW i \in 1 .. len, i # 1
          PROVE  \E j \in 1 .. Len(queue') : queue'[j] = queue[i]
      <4>1. i - 1 \in 1 .. len - 1 /\ (i - 1) + 1 = i
        BY <1>3, <3>1
      <4> QED
        BY <1>4, <4>1
    <3> QED
      BY <3>1
  <2>6. ASSUME NEW k \in 1 .. next - 1
        PROVE  /\ Order[k] \in selected
               /\ \/ \E i \in 1 .. Len(queue') : queue'[i] = Order[k]
                  \/ \E v \in Busy' : name'[v] = Order[k]
                  \/ Order[k] \in Skipped
                  \/ Checked(Order[k])
    <3>1. /\ Order[k] \in selected
          /\ \/ \E i \in 1 .. len : queue[i] = Order[k]
             \/ \E v \in Busy : name[v] = Order[k]
             \/ Order[k] \in Skipped
             \/ Checked(Order[k])
      BY <1>2 DEF FilesInv, len
    <3> QED
      BY <1>5, <2>4, <2>5, <3>1
  <2>7. \A i \in 1 .. Len(queue') : queue'[i] \in selected
    BY <1>4, <2>2, <2>3
  <2>8. /\ \A v \in Busy : name[v] \in selected
        /\ \A v \in Busy : worker[v] = "run" => name[v] \notin Skipped
        /\ \A v \in Busy : worker[v] = "print" => Checked(name[v])
        /\ \A v \in Busy : worker[v] = "done" => name[v] \in Skipped \/ Checked(name[v])
        /\ \A f \in Files : Checked(f) => f \in selected \ Skipped
    BY <1>2 DEF FilesInv
  <2> QED
    BY <1>1, <1>5, <2>1, <2>4, <2>6, <2>7, <2>8 DEF FilesInv
<1>10. VerdictInv'
  BY <1>1, <1>2 DEF VerdictInv
<1> QED
  BY <1>7, <1>8, <1>9, <1>10 DEF TidyInv

\* The steps of the main thread that move no file.
LEMMA MainStepKeeps ==
    ASSUME TidyInv, Tidy!AllPut \/ Tidy!Join \/ Tidy!Exit \/ Tidy!Interrupt \/ UNCHANGED tidyVars
    PROVE  TidyInv'
<1>1. Tidy!TypeOK /\ CountInv /\ FilesInv /\ VerdictInv
  BY DEF TidyInv
<1>2. UNCHANGED <<selected, export, fix, next, queue, unfinished, failed, fixes, worker,
                  name, checked>>
  BY DEF Tidy!AllPut, Tidy!Join, Tidy!Exit, Tidy!Interrupt, tidyVars
<1>3. /\ tmain' \in {"put", "join", "report", "killed", "exited"}
      /\ code' \in {0, 1}
  BY <1>1 DEF Tidy!AllPut, Tidy!Join, Tidy!Exit, Tidy!Interrupt, tidyVars, Tidy!TypeOK
<1>4. Tidy!TypeOK'
  BY <1>1, <1>2, <1>3, Zenon DEF Tidy!TypeOK
<1>5. Busy' = Busy
  BY <1>2 DEF Busy
<1>6. CountInv'
  BY <1>1, <1>2, <1>5, Zenon DEF CountInv
<1>7. \A f : Checked(f)' = Checked(f)
  BY <1>2 DEF Checked
<1>8. FilesInv'
  BY <1>1, <1>2, <1>5, <1>7, Zenon DEF FilesInv
<1>9. next \in Nat /\ next <= Len(Order) + 1 /\ Len(Order) \in Nat
  BY <1>1, TidyFacts, FilesFacts
<1>10. ASSUME Tidy!AllPut PROVE VerdictInv'
  <2>1. next = Len(Order) + 1
    BY <1>9, <1>10 DEF Tidy!AllPut
  <2> QED
    BY <1>1, <1>2, <1>10, <2>1 DEF Tidy!AllPut, VerdictInv
<1>11. ASSUME Tidy!Join PROVE VerdictInv'
  BY <1>1, <1>2, <1>11 DEF Tidy!Join, Tidy!NoneUnfinished, VerdictInv
<1>12. ASSUME Tidy!Exit PROVE VerdictInv'
  <2>1. tmain = "report" /\ tmain' = "exited"
    BY <1>12 DEF Tidy!Exit
  <2>2. code' = 1 \/ (code' = code /\ ~(failed = {} /\ ~export /\ ~fix /\ code # 0))
    BY <1>1, <1>12, <2>1 DEF Tidy!Exit, VerdictInv
  <2>3. ~export /\ ~fix => code' = code
    BY <1>12 DEF Tidy!Exit
  <2> QED
    BY <1>1, <1>2, <2>1, <2>2, <2>3 DEF VerdictInv
<1>13. ASSUME Tidy!Interrupt PROVE VerdictInv'
  BY <1>1, <1>2, <1>13 DEF Tidy!Interrupt, VerdictInv
<1>14. ASSUME UNCHANGED tidyVars PROVE VerdictInv'
  BY <1>1, <1>14 DEF tidyVars, VerdictInv
<1>15. VerdictInv'
  BY <1>10, <1>11, <1>12, <1>13, <1>14
<1> QED
  BY <1>4, <1>6, <1>8, <1>15 DEF TidyInv

LEMMA RunTidyStep ==
    ASSUME TidyInv, NEW w \in Tidy!Workers, Tidy!RunTidy(w)
    PROVE  TidyInv'
<1>1. PICK verdict \in Tidy!Verdicts :
          /\ checked' = checked \cup {<<name[w], verdict>>}
          /\ failed' = Tidy!Remembered(w, verdict)
  BY DEF Tidy!RunTidy
<1>2. /\ worker[w] = "run"
      /\ worker' = [worker EXCEPT ![w] = "print"]
      /\ tmain \notin {"killed", "exited"}
      /\ UNCHANGED <<selected, export, fix, next, tmain, code, queue, unfinished, fixes, name>>
  BY DEF Tidy!RunTidy, Tidy!Running
<1>3. Tidy!TypeOK /\ CountInv /\ FilesInv /\ VerdictInv
  BY DEF TidyInv
<1>4. /\ selected \subseteq Files
      /\ worker \in [Tidy!Workers -> {"get", "run", "print", "done", "dead"}]
      /\ IsFiniteSet(Busy) /\ Cardinality(Busy) \in Nat /\ Busy \subseteq Tidy!Workers
      /\ unfinished \in Nat /\ next \in Nat
  BY <1>3, TidyFacts
<1>5. w \in Busy /\ Busy' = Busy
  BY <1>2, <1>4 DEF Busy
<1>6. name[w] \in selected /\ name[w] \notin Skipped /\ name[w] \in Files
  BY <1>2, <1>3, <1>4, <1>5 DEF FilesInv
<1>7. Tidy!TypeOK'
  <2>1. worker' \in [Tidy!Workers -> {"get", "run", "print", "done", "dead"}]
    BY <1>2, <1>4
  <2>2. checked' \subseteq Files \X Tidy!Verdicts /\ failed' \subseteq Files
    BY <1>1, <1>3, <1>6 DEF Tidy!TypeOK, Tidy!Remembered
  <2> QED
    BY <1>2, <1>3, <2>1, <2>2, Zenon DEF Tidy!TypeOK
<1>8. CountInv'
  BY <1>2, <1>3, <1>5, Zenon DEF CountInv
<1>9. \A f : Checked(f)' <=> Checked(f) \/ f = name[w]
  BY <1>1 DEF Checked
<1>10. FilesInv'
  <2>1. /\ \A v \in Busy : v # w => worker'[v] = worker[v]
        /\ worker'[w] = "print"
    BY <1>2, <1>4
  <2>2. \A f \in Files : Checked(f)' => f \in selected \ Skipped
    BY <1>3, <1>6, <1>9 DEF FilesInv
  <2>3. \A k \in 1 .. next - 1 :
          /\ Order[k] \in selected
          /\ \/ \E i \in 1 .. Len(queue) : queue[i] = Order[k]
             \/ \E v \in Busy : name[v] = Order[k]
             \/ Order[k] \in Skipped
             \/ Checked(Order[k])'
    BY <1>3, <1>9 DEF FilesInv
  <2>4. ASSUME NEW v \in Busy
        PROVE  /\ name[v] \in selected
               /\ worker'[v] = "run" => name[v] \notin Skipped
               /\ worker'[v] = "print" => Checked(name[v])'
               /\ worker'[v] = "done" => name[v] \in Skipped \/ Checked(name[v])'
    <3>1. /\ name[v] \in selected
          /\ worker[v] = "run" => name[v] \notin Skipped
          /\ worker[v] = "print" => Checked(name[v])
          /\ worker[v] = "done" => name[v] \in Skipped \/ Checked(name[v])
      BY <1>3 DEF FilesInv
    <3>2. Checked(name[v])' <=> Checked(name[v]) \/ name[v] = name[w]
      BY <1>1, <1>2 DEF Checked
    <3>3. CASE v = w
      BY <2>1, <3>1, <3>2, <3>3
    <3>4. CASE v # w
      BY <2>1, <3>1, <3>2, <3>4
    <3> QED
      BY <3>3, <3>4
  <2>5. \A i \in 1 .. Len(queue) : queue[i] \in selected
    BY <1>3 DEF FilesInv
  <2> QED
    BY <1>2, <1>5, <2>2, <2>3, <2>4, <2>5 DEF FilesInv
<1>11. VerdictInv'
  <2>1. tmain \in {"put", "join"}
    <3>1. Busy # {} /\ Cardinality(Busy) # 0
      BY <1>4, <1>5, FS_EmptySet
    <3>2. Len(queue) \in Nat
      BY <1>3, TidyFacts
    <3>3. unfinished # 0
      BY <1>3, <1>4, <3>1, <3>2 DEF CountInv
    <3> QED
      BY <1>2, <1>3, <3>3 DEF VerdictInv, Tidy!TypeOK
  <2>2. failed = {f \in Files : <<f, "errors">> \in checked}
    BY <1>3 DEF VerdictInv
  <2>3. failed' = {f \in Files : <<f, "errors">> \in checked'}
    <3>1. CASE verdict = "errors"
      BY <1>1, <1>6, <2>2, <3>1 DEF Tidy!Remembered
    <3>2. CASE verdict = "clean"
      <4>1. \A f : <<f, "errors">> \in checked' <=> <<f, "errors">> \in checked
        BY <1>1, <3>2
      <4> QED
        BY <1>1, <2>2, <3>2, <4>1 DEF Tidy!Remembered
    <3> QED
      BY <3>1, <3>2 DEF Tidy!Verdicts
  <2> QED
    BY <1>2, <1>3, <2>1, <2>3 DEF VerdictInv
<1> QED
  BY <1>7, <1>8, <1>10, <1>11 DEF TidyInv

\* A worker that prints its output, or dies of an exception, keeps its file.
LEMMA KeepFileStep ==
    ASSUME TidyInv, NEW w \in Tidy!Workers, Tidy!PrintOutput(w) \/ Tidy!Raise(w)
    PROVE  TidyInv'
<1>1. PICK to \in {"done", "dead"} :
          /\ worker' = [worker EXCEPT ![w] = to]
          /\ to = "done" => worker[w] = "print"
  BY DEF Tidy!PrintOutput, Tidy!Raise
<1>2. /\ worker[w] \in {"run", "print"}
      /\ UNCHANGED <<selected, export, fix, next, tmain, code, queue, unfinished, failed, fixes,
                     name, checked>>
  BY DEF Tidy!PrintOutput, Tidy!Raise
<1>3. Tidy!TypeOK /\ CountInv /\ FilesInv /\ VerdictInv
  BY DEF TidyInv
<1>4. worker \in [Tidy!Workers -> {"get", "run", "print", "done", "dead"}]
  BY <1>3, TidyFacts
<1>5. Busy' = Busy
  BY <1>1, <1>2, <1>4 DEF Busy
<1>6. Tidy!TypeOK'
  <2>1. worker' \in [Tidy!Workers -> {"get", "run", "print", "done", "dead"}]
    BY <1>1, <1>4
  <2> QED
    BY <1>2, <1>3, <2>1, Zenon DEF Tidy!TypeOK
<1>7. CountInv'
  BY <1>2, <1>3, <1>5, Zenon DEF CountInv
<1>8. \A f : Checked(f)' = Checked(f)
  BY <1>2 DEF Checked
<1>9. FilesInv'
  <2>1. \A v \in Busy : v # w => worker'[v] = worker[v]
    BY <1>1, <1>4 DEF Busy
  <2>2. worker'[w] = to
    BY <1>1, <1>4
  <2>3. ASSUME NEW v \in Busy
        PROVE  /\ name[v] \in selected
               /\ worker'[v] = "run" => name[v] \notin Skipped
               /\ worker'[v] = "print" => Checked(name[v])
               /\ worker'[v] = "done" => name[v] \in Skipped \/ Checked(name[v])
    BY <1>1, <1>3, <2>1, <2>2 DEF FilesInv
  <2>4. /\ \A k \in 1 .. next - 1 :
              /\ Order[k] \in selected
              /\ \/ \E i \in 1 .. Len(queue) : queue[i] = Order[k]
                 \/ \E v \in Busy : name[v] = Order[k]
                 \/ Order[k] \in Skipped
                 \/ Checked(Order[k])
        /\ \A i \in 1 .. Len(queue) : queue[i] \in selected
        /\ \A f \in Files : Checked(f) => f \in selected \ Skipped
    BY <1>3 DEF FilesInv
  <2> QED
    BY <1>2, <1>5, <1>8, <2>3, <2>4 DEF FilesInv
<1>10. VerdictInv'
  BY <1>2, <1>3 DEF VerdictInv
<1> QED
  BY <1>6, <1>7, <1>9, <1>10 DEF TidyInv

LEMMA TaskDoneStep ==
    ASSUME TidyInv, NEW w \in Tidy!Workers, Tidy!TaskDone(w)
    PROVE  TidyInv'
<1>1. /\ worker[w] = "done"
      /\ unfinished' = unfinished - 1
      /\ worker' = [worker EXCEPT ![w] = "get"]
      /\ name' = [name EXCEPT ![w] = NoFile]
      /\ UNCHANGED <<selected, export, fix, next, tmain, code, queue, failed, fixes, checked>>
  BY DEF Tidy!TaskDone, Tidy!Done
<1>2. Tidy!TypeOK /\ CountInv /\ FilesInv /\ VerdictInv
  BY DEF TidyInv
<1>3. /\ worker \in [Tidy!Workers -> {"get", "run", "print", "done", "dead"}]
      /\ name \in [Tidy!Workers -> Files \cup {NoFile}]
      /\ IsFiniteSet(Busy) /\ Cardinality(Busy) \in Nat
      /\ Len(queue) \in Nat /\ next \in Nat /\ Len(Order) \in Nat
      /\ unfinished \in Nat /\ unfinished <= Len(Order)
  BY <1>2, TidyFacts, FilesFacts
<1>4. w \in Busy /\ Busy' = Busy \ {w}
  BY <1>1, <1>3 DEF Busy
<1>5. Cardinality(Busy') = Cardinality(Busy) - 1 /\ Cardinality(Busy') \in Nat
  BY <1>3, <1>4, FS_RemoveElement, FS_CardinalityType
<1>6. CountInv'
  BY <1>1, <1>2, <1>3, <1>5 DEF CountInv
<1>7. Tidy!TypeOK'
  <2>1. unfinished' \in 0 .. Len(Order)
    BY <1>1, <1>3, <1>5, <1>6 DEF CountInv
  <2>2. /\ worker' \in [Tidy!Workers -> {"get", "run", "print", "done", "dead"}]
        /\ name' \in [Tidy!Workers -> Files \cup {NoFile}]
    BY <1>1, <1>3
  <2> QED
    BY <1>1, <1>2, <2>1, <2>2, Zenon DEF Tidy!TypeOK
<1>8. \A f : Checked(f)' = Checked(f)
  BY <1>1 DEF Checked
<1>9. FilesInv'
  <2>1. \A v \in Busy' : v \in Busy /\ worker'[v] = worker[v] /\ name'[v] = name[v]
    BY <1>1, <1>3, <1>4 DEF Busy
  <2>2. \A v \in Busy : v = w \/ (v \in Busy' /\ name'[v] = name[v])
    BY <1>1, <1>3, <1>4 DEF Busy
  <2>3. name[w] \in Skipped \/ Checked(name[w])
    BY <1>1, <1>2, <1>4 DEF FilesInv
  <2>4. ASSUME NEW k \in 1 .. next - 1
        PROVE  /\ Order[k] \in selected
               /\ \/ \E i \in 1 .. Len(queue) : queue[i] = Order[k]
                  \/ \E v \in Busy' : name'[v] = Order[k]
                  \/ Order[k] \in Skipped
                  \/ Checked(Order[k])
    <3>1. /\ Order[k] \in selected
          /\ \/ \E i \in 1 .. Len(queue) : queue[i] = Order[k]
             \/ \E v \in Busy : name[v] = Order[k]
             \/ Order[k] \in Skipped
             \/ Checked(Order[k])
      BY <1>2 DEF FilesInv
    <3> QED
      BY <2>2, <2>3, <3>1
  <2>5. /\ \A i \in 1 .. Len(queue) : queue[i] \in selected
        /\ \A v \in Busy : name[v] \in selected
        /\ \A v \in Busy : worker[v] = "run" => name[v] \notin Skipped
        /\ \A v \in Busy : worker[v] = "print" => Checked(name[v])
        /\ \A v \in Busy : worker[v] = "done" => name[v] \in Skipped \/ Checked(name[v])
        /\ \A f \in Files : Checked(f) => f \in selected \ Skipped
    BY <1>2 DEF FilesInv
  <2> QED
    BY <1>1, <1>8, <2>1, <2>4, <2>5 DEF FilesInv
<1>10. VerdictInv'
  <2>1. tmain \notin {"report", "exited"}
    <3>1. Cardinality(Busy) # 0
      BY <1>3, <1>5
    <3>2. unfinished # 0
      BY <1>2, <1>3, <3>1 DEF CountInv
    <3> QED
      BY <1>2, <3>2 DEF VerdictInv
  <2> QED
    BY <1>1, <1>2, <2>1 DEF VerdictInv
<1> QED
  BY <1>6, <1>7, <1>9, <1>10 DEF TidyInv

LEMMA TidyInvNext ==
    ASSUME TidyInv, [Tidy!Next]_tidyVars
    PROVE  TidyInv'
BY PutFileStep, GetFileStep, MainStepKeeps, RunTidyStep, KeepFileStep, TaskDoneStep
   DEF Tidy!Next, Tidy!MainStep, Tidy!WorkerStep

\* At the exit nothing is queued and no worker holds a file, so each file put, which is
\* each file there is, was checked or skipped.
LEMMA TidyInvTells == TidyInv => Tidy!ExitCodeTells
<1> SUFFICES ASSUME TidyInv, tmain = "exited" PROVE Tidy!ExitCodeTells
  BY DEF Tidy!ExitCodeTells
<1>1. Tidy!TypeOK /\ CountInv /\ FilesInv /\ VerdictInv
  BY DEF TidyInv
<1>2. /\ unfinished = 0 /\ next = Len(Order) + 1
      /\ failed = {f \in Files : <<f, "errors">> \in checked}
      /\ failed # {} => code = 1
      /\ failed = {} /\ ~export /\ ~fix => code = 0
  BY <1>1 DEF VerdictInv
<1>3. /\ Len(queue) \in Nat /\ IsFiniteSet(Busy) /\ Cardinality(Busy) \in Nat
      /\ Len(Order) \in Nat /\ selected \subseteq Files
  BY <1>1, TidyFacts, FilesFacts
<1>4. Len(queue) = 0 /\ Cardinality(Busy) = 0
  BY <1>1, <1>2, <1>3 DEF CountInv
<1>5. Busy = {}
  BY <1>3, <1>4, FS_EmptySet
<1>6. next - 1 = Len(Order) /\ 1 .. 0 = {}
  BY <1>2, <1>3
<1>7. \A k \in 1 .. Len(Order) : Order[k] \in selected /\ (Order[k] \in Skipped \/ Checked(Order[k]))
  BY <1>1, <1>4, <1>5, <1>6 DEF FilesInv
<1>8. \A f \in Files : Checked(f) <=> f \in selected \ Skipped
  BY <1>1, <1>7, FilesFacts, SMTT(30) DEF FilesInv
<1>9. {f \in Files : Checked(f)} = selected \ Skipped
  BY <1>3, <1>8
<1>10. failed # {} <=> \E f \in Files : <<f, "errors">> \in checked
  BY <1>2
<1>11. code = 1 => export \/ fix \/ failed # {}
  BY <1>2
<1> QED
  BY <1>2, <1>9, <1>10, <1>11, Zenon DEF Tidy!ExitCodeTells, Checked

-----------------------------------------------------------------------------
(***************************************************************************)
(* The four of them side by side.                                          *)
(***************************************************************************)

\* ThreadPoolProofs, about the pool of MCExecutors.
PP == INSTANCE ThreadPoolProofs WITH Size <- PoolSize, Callers <- Users, fresh <- unused

LEMMA PoolAssumption == PP!ThreadPoolAssumption
<1>1. Pool!ThreadPoolAssumption
  BY ExecutorsAssumption
<1>2. \A S : Pool!IsFiniteSet(S) <=> PP!IsFiniteSet(S)
  BY Zenon DEF Pool!IsFiniteSet, PP!IsFiniteSet
<1> QED
  BY <1>1, <1>2, Zenon
     DEF Pool!ThreadPoolAssumption, PP!ThreadPoolAssumption, Pool!Workers, PP!Workers

LEMMA SamePoolInit == Pool!Init => PP!Init
  BY Zenon DEF Pool!Init, PP!Init, Pool!Workers, PP!Workers

LEMMA SamePoolNext == [Pool!Next]_poolVars => [PP!Next]_(PP!vars)
<1> USE DEF Pool!Workers, PP!Workers, Pool!Threads, PP!Threads, Pool!InPhase, PP!InPhase,
            Pool!Leaves, PP!Leaves
<1>1. \A w \in Pool!Workers :
         /\ Pool!WaitOnCv(w) => PP!WaitOnCv(w)
         /\ Pool!Return(w) => PP!Return(w)
         /\ Pool!TakeTask(w) => PP!TakeTask(w)
         /\ Pool!TaskEnds(w) => PP!TaskEnds(w)
         /\ Pool!WakesUp(w) => PP!WakesUp(w)
  BY Zenon DEF Pool!WaitOnCv, PP!WaitOnCv, Pool!Return, PP!Return, Pool!TakeTask, PP!TakeTask,
     Pool!Popped, PP!Popped, Pool!TaskEnds, PP!TaskEnds, Pool!WakesUp, PP!WakesUp
<1>2. \A th \in Pool!Threads :
         /\ Pool!NotifyOne(th) => PP!NotifyOne(th)
         /\ \A t \in Tasks : Pool!Add(th, t) => PP!Add(th, t)
  BY Zenon DEF Pool!NotifyOne, PP!NotifyOne, Pool!Woken, PP!Woken, Pool!Add, PP!Add,
     Pool!MayAdd, PP!MayAdd, Pool!Queued, PP!Queued
<1>3. /\ Pool!SetStop => PP!SetStop
      /\ Pool!NotifyAll => PP!NotifyAll
      /\ Pool!Join => PP!Join
  BY Zenon DEF Pool!SetStop, PP!SetStop, Pool!NotifyAll, PP!NotifyAll, Pool!AllWoken,
     PP!AllWoken, Pool!Join, PP!Join
<1>4. Pool!Workers = PP!Workers /\ Pool!Threads = PP!Threads
  BY Zenon
<1>5. UNCHANGED poolVars => UNCHANGED PP!vars
  BY DEF poolVars, PP!vars
<1>6. Pool!Next => PP!Next
  BY <1>1, <1>2, <1>3, <1>4, Zenon
     DEF Pool!Next, PP!Next, Pool!WorkerStep, PP!WorkerStep, Pool!OwnerStep, PP!OwnerStep
<1> QED
  BY <1>5, <1>6

\* A step of one part leaves the others alone, so each part takes one of its own steps
\* or none.
LEMMA PartStep ==
    ASSUME [MCNext]_allVars
    PROVE  /\ [Next]_vars
           /\ [PP!Next]_(PP!vars)
           /\ [Start!Next]_startVars
           /\ [Tidy!Next]_tidyVars
<1>1. [Next]_vars /\ [Pool!Next]_poolVars /\ [Start!Next]_startVars /\ [Tidy!Next]_tidyVars
  BY Zenon DEF MCNext, LoopPart, PoolPart, StartPart, TidyPart, allVars
<1> QED
  BY <1>1, SamePoolNext

LEMMA PartInit == MCInit => Init /\ PP!Init /\ Start!Init /\ Tidy!Init
  BY SamePoolInit DEF MCInit

LEMMA StartInvariant == MCSpec => []StartInv
  BY PartInit, StartInvInit, PartStep, StartInvNext, PTL DEF MCSpec

LEMMA TidyInvariant == MCSpec => []TidyInv
  BY PartInit, TidyInvInit, PartStep, TidyInvNext, PTL DEF MCSpec

LEMMA PoolInvariant == MCSpec => []PP!PoolInv
<1>1. PP!Init => PP!PoolInv
  BY PoolAssumption, PP!PoolInvInit
<1>2. PP!PoolInv /\ [PP!Next]_(PP!vars) => PP!PoolInv'
  BY PoolAssumption, PP!PoolInvNext
<1> QED
  BY <1>1, <1>2, PartInit, PartStep, PTL DEF MCSpec

LEMMA LoopIsSafe == MCSpec => SafeSpec
  BY PartInit, PartStep, PTL DEF MCSpec, SafeSpec

\* Every variable of the four parts keeps its type.
THEOREM PartsTypeCorrect == MCSpec => []PartsTypeOK
<1>1. PP!PoolInv => Pool!TypeOK
  BY Zenon DEF PP!PoolInv, PP!TypeOK, Pool!TypeOK, Pool!Workers, PP!Workers, Pool!Threads,
     PP!Threads, Pool!Phases, PP!Phases
<1>2. StartInv => Start!TypeOK
  BY DEF StartInv
<1>3. TidyInv => Tidy!TypeOK
  BY DEF TidyInv
<1>4. TypeOK /\ Pool!TypeOK /\ Start!TypeOK /\ Tidy!TypeOK => PartsTypeOK
  BY DEF PartsTypeOK
<1> QED
  BY <1>1, <1>2, <1>3, <1>4, LoopIsSafe, TypeCorrect, PoolInvariant, StartInvariant,
     TidyInvariant, PTL

\* A task that waits in ThreadPool's queue does not meet a worker that sleeps with nobody
\* about to wake it, and the pool goes only when its queue is empty (ThreadPool::Add, the
\* worker's loop, ~ThreadPool).
THEOREM PoolAlwaysServes == MCSpec => []PoolServes
<1>1. PP!PoolInv => PP!PoolServes
  BY PoolAssumption, PP!PoolInvServes
<1>2. \A S : Pool!Cardinality(S) = PP!Cardinality(S)
  BY Zenon DEF Pool!Cardinality, PP!Cardinality, Pool!IsFiniteSet, PP!IsFiniteSet
<1>3. PP!PoolServes => PoolServes
  BY <1>2, Zenon DEF PoolServes, Pool!PoolServes, PP!PoolServes, Pool!NobodySleepsOnWork,
     PP!NobodySleepsOnWork, Pool!DestructorLeavesNothing, PP!DestructorLeavesNothing,
     Pool!InPhase, PP!InPhase, Pool!Workers, PP!Workers
<1> QED
  BY <1>1, <1>3, PoolInvariant, PTL

\* EventLoopThreadPool::Start hands out one finished loop per thread, in the order of the
\* threads, whatever spurious wakeups its condition variable sees.
THEOREM LoopsAlwaysReady == MCSpec => []LoopsAreReady
<1>1. StartInv => LoopsAreReady
  BY DEF StartInv, LoopsAreReady
<1> QED
  BY <1>1, StartInvariant, PTL

\* The exit code of run_clang_tidy.py tells whether a run of clang-tidy failed, and every
\* selected file that is not skipped has had one.
THEOREM ExitCodeAlwaysTells == MCSpec => []ExitCodeTells
<1>1. TidyInv => ExitCodeTells
  BY TidyInvTells DEF ExitCodeTells
<1> QED
  BY <1>1, TidyInvariant, PTL
=============================================================================

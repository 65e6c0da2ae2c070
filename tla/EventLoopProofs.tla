--------------------------- MODULE EventLoopProofs ---------------------------
(***************************************************************************)
(* Proofs about EventLoop, for any number of threads, callbacks and        *)
(* channels: type correctness, NoLostWakeup, WakeupReadSucceeds and the    *)
(* safety part of the refinement of SerialExecutor.                        *)
(***************************************************************************)
EXTENDS EventLoop, SequenceTheorems, TLAPS

-----------------------------------------------------------------------------
(***************************************************************************)
(* Facts about sequences used by the refinement.                           *)
(***************************************************************************)

\* Appending to the back list appends to the concatenated queue.
LEMMA ConcatAppend ==
    ASSUME NEW S, NEW a \in Seq(S), NEW b \in Seq(S), NEW e \in S
    PROVE  a \o Append(b, e) = Append(a \o b, e)
<1>1. Append(b, e) = b \o <<e>>
  BY AppendIsConcat
<1>2. /\ <<e>> \in Seq(S)
      /\ a \o b \in Seq(S)
  BY ConcatProperties
<1>3. Append(a \o b, e) = (a \o b) \o <<e>>
  BY <1>2, AppendIsConcat
<1> QED
  BY <1>1, <1>2, <1>3, ConcatAssociative

\* Taking the head of the front list takes the head of the concatenated queue.
LEMMA ConcatHeadTail ==
    ASSUME NEW S, NEW a \in Seq(S), NEW b \in Seq(S), a # <<>>
    PROVE  /\ a \o b # <<>>
           /\ Head(a \o b) = Head(a)
           /\ Tail(a \o b) = Tail(a) \o b
<1>1. /\ a \o b \in Seq(S)
      /\ Len(a \o b) = Len(a) + Len(b)
      /\ \A i \in 1 .. Len(a) + Len(b) :
            (a \o b)[i] = IF i <= Len(a) THEN a[i] ELSE b[i - Len(a)]
  BY ConcatProperties
<1>2. /\ Len(a) \in Nat \ {0}
      /\ Len(b) \in Nat
  BY EmptySeq, LenProperties
<1>3. a \o b # <<>>
  BY <1>1, <1>2, EmptySeq
<1>4. /\ Tail(a) \in Seq(S)
      /\ Len(Tail(a)) = Len(a) - 1
      /\ \A i \in 1 .. Len(Tail(a)) : Tail(a)[i] = a[i + 1]
      /\ Head(a) = a[1]
  BY HeadTailProperties
<1>5. /\ Tail(a \o b) \in Seq(S)
      /\ Len(Tail(a \o b)) = Len(a) + Len(b) - 1
      /\ \A i \in 1 .. Len(Tail(a \o b)) : Tail(a \o b)[i] = (a \o b)[i + 1]
      /\ Head(a \o b) = (a \o b)[1]
  BY <1>1, <1>3, HeadTailProperties
<1>6. /\ Tail(a) \o b \in Seq(S)
      /\ Len(Tail(a) \o b) = Len(a) - 1 + Len(b)
      /\ \A i \in 1 .. Len(a) - 1 + Len(b) :
            (Tail(a) \o b)[i] = IF i <= Len(a) - 1 THEN Tail(a)[i]
                                ELSE b[i - (Len(a) - 1)]
  BY <1>4, ConcatProperties
<1>7. ASSUME NEW i \in 1 .. Len(a) + Len(b) - 1
      PROVE  Tail(a \o b)[i] = (Tail(a) \o b)[i]
  BY <1>1, <1>2, <1>4, <1>5, <1>6
<1>8. Head(a \o b) = Head(a)
  BY <1>1, <1>2, <1>4, <1>5
<1>9. Tail(a \o b) = Tail(a) \o b
  BY <1>2, <1>5, <1>6, <1>7, SeqEqual
<1> QED
  BY <1>3, <1>8, <1>9

-----------------------------------------------------------------------------
(***************************************************************************)
(* Type correctness.                                                       *)
(***************************************************************************)

\* Every variable keeps its type: in particular every entry of the two vectors
\* is a callback somebody handed over.
THEOREM TypeCorrect == SafeSpec => []TypeOK
<1>1. Init => TypeOK
  <2>1. <<>> \in Seq(Funcs)
    BY EmptySeq
  <2>2. Init => calling_functors \in BOOLEAN
    BY Zenon DEF Init
  <2>3. Init => wakeup \in Nat
    BY DEF Init
  <2>4. Init => mtx \in Threads \cup {NoThread} /\ phase \in Phases
    BY DEF Init, Phases
  <2> QED
    BY <2>1, <2>2, <2>3, <2>4, Zenon DEF Init, TypeOK
<1>2. TypeOK /\ [Next]_vars => TypeOK'
  <2> SUFFICES ASSUME TypeOK, [Next]_vars
               PROVE  TypeOK'
    OBVIOUS
  <2> USE DEF TypeOK, Phases
  <2>1. CASE Poll
    BY <2>1 DEF Poll, ReadyChannels
  <2>2. CASE HandleRead
    BY <2>2 DEF HandleRead
  <2>3. ASSUME NEW c \in Channels, HandleEvent(c)
        PROVE  TypeOK'
    BY <2>3 DEF HandleEvent
  <2>4. CASE HandlerReturns
    BY <2>4 DEF HandlerReturns
  <2>5. CASE DoToDoList
    BY <2>5 DEF DoToDoList
  <2>6. CASE Swap
    BY <2>6 DEF Swap, LeftAfterSwap
  <2>7. CASE RunFunctor
    <3>1. /\ Tail(functors) \in Seq(Funcs)
          /\ Head(functors) \in Funcs
      BY <2>7, HeadTailProperties DEF RunFunctor
    <3>2. Append(executed, Head(functors)) \in Seq(Funcs)
      BY <3>1, AppendProperties
    <3> QED
      BY <2>7, <3>1, <3>2 DEF RunFunctor
  <2>8. CASE FunctorReturns
    BY <2>8 DEF FunctorReturns
  <2>9. CASE FinishToDoList
    BY <2>9 DEF FinishToDoList
  <2>10. CASE PollInterrupted
    BY <2>10 DEF PollInterrupted
  <2>11. ASSUME NEW t \in Threads, NEW f \in Funcs, QueueOneFunc(t, f)
         PROVE  TypeOK'
    <3>1. Append(to_do_list, f) \in Seq(Funcs)
      BY AppendProperties
    <3> QED
      BY <2>11, <3>1 DEF QueueOneFunc, Emplaced
  <2>12. ASSUME NEW t \in Threads, Notify(t)
         PROVE  TypeOK'
    BY <2>12 DEF Notify
  <2>13. ASSUME NEW f \in Funcs, RunOneFuncInline(f)
         PROVE  TypeOK'
    <3>1. Append(executed, f) \in Seq(Funcs)
      BY AppendProperties
    <3> QED
      BY <2>13, <3>1 DEF RunOneFuncInline
  <2>14. ASSUME NEW c \in Channels, BecomesReady(c)
         PROVE  TypeOK'
    BY <2>14 DEF BecomesReady
  <2>15. CASE UNCHANGED vars
    BY <2>15 DEF vars
  <2> QED
    BY <2>1, <2>2, <2>3, <2>4, <2>5, <2>6, <2>7, <2>8, <2>9, <2>10, <2>11,
       <2>12, <2>13, <2>14, <2>15 DEF Next, LoopStep, CallStep
<1> QED
  BY <1>1, <1>2, PTL DEF SafeSpec

-----------------------------------------------------------------------------
(***************************************************************************)
(* The wakeup protocol.                                                    *)
(***************************************************************************)

\* The inductive invariant.  NoLostWakeup speaks of the moment the owner polls;
\* the callbacks it must not miss arrive earlier, while the owner is still
\* running callbacks of the previous swap, so the claim has to be carried from
\* the swap to the poll.  It does not hold while events are handled (HandleRead
\* zeroes the counter) and need not: DoToDoList follows.
WakeupInv ==
    /\ calling_functors <=> phase \in {"swap", "run", "functor"}
    /\ mtx = Owner => phase \in {"handler", "functor"}
    /\ phase \in {"poll", "run", "functor"} /\ to_do_list # <<>>
          => wakeup > 0 \/ mtx # NoThread
    /\ WakeupChannel \in chs => wakeup > 0
    /\ phase \notin {"handle", "handler"} => chs = {}
    /\ phase \notin {"run", "functor"} => functors = <<>>
    /\ phase # "exited"

LEMMA WakeupInvInit == Init => WakeupInv
  BY EventLoopAssumption DEF Init, WakeupInv, Threads

LEMMA WakeupInvNext ==
    ASSUME TypeOK, WakeupInv, [Next]_vars
    PROVE  WakeupInv'
<1> USE EventLoopAssumption DEF TypeOK, WakeupInv, Threads
<1>1. CASE Poll
  BY <1>1 DEF Poll, ReadyChannels
<1>2. CASE HandleRead
  BY <1>2 DEF HandleRead
<1>3. ASSUME NEW c \in Channels, HandleEvent(c)
      PROVE  WakeupInv'
  BY <1>3 DEF HandleEvent
<1>4. CASE HandlerReturns
  BY <1>4 DEF HandlerReturns
<1>5. CASE DoToDoList
  BY <1>5 DEF DoToDoList
<1>6. CASE Swap
  BY <1>6 DEF Swap, LeftAfterSwap
<1>7. CASE RunFunctor
  BY <1>7 DEF RunFunctor
<1>8. CASE FunctorReturns
  BY <1>8 DEF FunctorReturns
<1>9. CASE FinishToDoList
  BY <1>9 DEF FinishToDoList
<1>10. CASE PollInterrupted
  BY <1>10 DEF PollInterrupted
<1>11. ASSUME NEW t \in Threads, NEW f \in Funcs, QueueOneFunc(t, f)
       PROVE  WakeupInv'
  BY <1>11 DEF QueueOneFunc, MayCall
<1>12. ASSUME NEW t \in Threads, Notify(t)
       PROVE  WakeupInv'
  BY <1>12 DEF Notify, NeedsWakeup
<1>13. ASSUME NEW f \in Funcs, RunOneFuncInline(f)
       PROVE  WakeupInv'
  BY <1>13 DEF RunOneFuncInline
<1>14. ASSUME NEW c \in Channels, BecomesReady(c)
       PROVE  WakeupInv'
  BY <1>14 DEF BecomesReady
<1>15. CASE UNCHANGED vars
  BY <1>15 DEF vars
<1> QED
  BY <1>1, <1>2, <1>3, <1>4, <1>5, <1>6, <1>7, <1>8, <1>9, <1>10, <1>11,
     <1>12, <1>13, <1>14, <1>15 DEF Next, LoopStep, CallStep

LEMMA WakeupInvariant == SafeSpec => []WakeupInv
  BY WakeupInvInit, WakeupInvNext, TypeCorrect, PTL DEF SafeSpec

\* No callback is left behind while the owner sleeps in epoll_wait: a nonempty
\* to_do_list_ always comes with a pending wakeup or a thread about to write one
\* (EventLoop::QueueOneFunc, EventLoop::DoToDoList).
THEOREM NeverLosesWakeup == SafeSpec => []NoLostWakeup
<1>1. WakeupInv => NoLostWakeup
  BY DEF WakeupInv, NoLostWakeup
<1> QED
  BY <1>1, WakeupInvariant, PTL

\* EventLoop::HandleRead never meets an empty eventfd, so its Errif never exits.
THEOREM WakeupReadNeverFails == SafeSpec => []WakeupReadSucceeds
<1>1. WakeupInv => WakeupReadSucceeds
  BY DEF WakeupInv, WakeupReadSucceeds
<1> QED
  BY <1>1, WakeupInvariant, PTL

-----------------------------------------------------------------------------
(***************************************************************************)
(* Refinement.                                                             *)
(***************************************************************************)

\* Each step of the loop or of a caller is a step of SerialExecutor or changes
\* nothing it can see.
LEMMA RefinementStep ==
    ASSUME TypeOK, WakeupInv, [Next]_vars
    PROVE  [Executor!Next]_(Executor!vars)
<1> DEFINE queue == functors \o to_do_list
<1> USE DEF TypeOK
<1>1. ASSUME UNCHANGED <<fresh, functors, to_do_list, executed>>
      PROVE  UNCHANGED Executor!vars
  BY <1>1 DEF Executor!vars
<1>2. CASE \/ Poll \/ HandleRead \/ HandlerReturns \/ DoToDoList
           \/ FunctorReturns \/ FinishToDoList \/ PollInterrupted
           \/ \E c \in Channels : HandleEvent(c) \/ BecomesReady(c)
           \/ \E t \in Threads : Notify(t)
           \/ UNCHANGED vars
  BY <1>1, <1>2 DEF Poll, HandleRead, HandlerReturns, DoToDoList, FunctorReturns,
     FinishToDoList, PollInterrupted, HandleEvent, BecomesReady, Notify, vars
<1>3. CASE Swap
  <2>1. /\ functors = <<>>
        /\ functors' = to_do_list
        /\ to_do_list' = <<>>
        /\ UNCHANGED <<fresh, executed>>
    BY <1>3 DEF Swap, LeftAfterSwap, WakeupInv
  <2>2. /\ <<>> \o to_do_list = to_do_list
        /\ to_do_list \o <<>> = to_do_list
    BY ConcatEmptySeq
  <2>3. UNCHANGED queue
    BY <2>1, <2>2
  <2> QED
    BY <2>1, <2>3 DEF Executor!vars
<1>4. CASE RunFunctor
  <2>1. /\ functors # <<>>
        /\ functors' = Tail(functors)
        /\ to_do_list' = to_do_list
        /\ executed' = Append(executed, Head(functors))
        /\ fresh' = fresh
    BY <1>4 DEF RunFunctor
  <2>2. /\ queue # <<>>
        /\ Head(queue) = Head(functors)
        /\ Tail(queue) = Tail(functors) \o to_do_list
    BY <2>1, ConcatHeadTail
  <2>3. Executor!RunNext
    BY <2>1, <2>2 DEF Executor!RunNext
  <2> QED
    BY <2>3 DEF Executor!Next
<1>5. ASSUME NEW t \in Threads, NEW f \in Funcs, QueueOneFunc(t, f)
      PROVE  Executor!Next
  <2>1. functors \o Append(to_do_list, f) = Append(queue, f)
    BY ConcatAppend
  <2>2. Executor!Submit(f)
    BY <1>5, <2>1 DEF QueueOneFunc, Emplaced, Executor!Submit
  <2> QED
    BY <2>2 DEF Executor!Next
<1>6. ASSUME NEW f \in Funcs, RunOneFuncInline(f)
      PROVE  Executor!Next
  <2>1. Executor!RunNow(f)
    BY <1>6 DEF RunOneFuncInline, Executor!RunNow
  <2> QED
    BY <2>1 DEF Executor!Next
<1> QED
  BY <1>2, <1>3, <1>4, <1>5, <1>6 DEF Next, LoopStep, CallStep

\* EventLoop implements the safety part of SerialExecutor: whatever threads queue
\* callbacks and however their calls interleave with the swap of to_do_list_,
\* each callback runs at most once and queued ones run in the order queued.
THEOREM RefinesExecutor == SafeSpec => Executor!SafeSpec
<1>1. Init => Executor!Init
  <2>1. <<>> \in Seq(Funcs)
    BY EmptySeq
  <2>2. <<>> \o <<>> = <<>>
    BY <2>1, ConcatEmptySeq
  <2> QED
    BY <2>2 DEF Init, Executor!Init
<1> QED
  BY <1>1, RefinementStep, TypeCorrect, WakeupInvariant, PTL
     DEF SafeSpec, Executor!SafeSpec

=============================================================================

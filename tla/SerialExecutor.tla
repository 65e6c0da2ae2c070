--------------------------- MODULE SerialExecutor ---------------------------
(***************************************************************************)
(* What EventLoop promises to the code that hands it callbacks             *)
(* (QueueOneFunc, RunOneFunc): callbacks that are queued run once each, in *)
(* the order in which they were queued, and each of them eventually runs.  *)
(* A callback handed over by the loop's own thread through RunOneFunc runs *)
(* at once.  Threads, the mutex, the two vectors and the eventfd are       *)
(* implementation detail: see EventLoop.                                   *)
(***************************************************************************)
EXTENDS Sequences

CONSTANT Funcs      \* the callbacks that may be handed over

VARIABLES fresh,    \* callbacks nobody has handed over yet
          pending,  \* callbacks queued and not yet started, oldest first
          done      \* callbacks started, in the order in which they started

vars == <<fresh, pending, done>>

Init ==
    /\ fresh = Funcs
    /\ pending = <<>>
    /\ done = <<>>

Submit(f) ==
    /\ f \in fresh
    /\ fresh' = fresh \ {f}
    /\ pending' = Append(pending, f)
    /\ UNCHANGED done

RunNow(f) ==
    /\ f \in fresh
    /\ fresh' = fresh \ {f}
    /\ done' = Append(done, f)
    /\ UNCHANGED pending

RunNext ==
    /\ pending # <<>>
    /\ pending' = Tail(pending)
    /\ done' = Append(done, Head(pending))
    /\ UNCHANGED fresh

Next ==
    \/ \E f \in Funcs : Submit(f) \/ RunNow(f)
    \/ RunNext

SafeSpec == Init /\ [][Next]_vars

Spec == SafeSpec /\ WF_vars(RunNext)

=============================================================================

-------------------------- MODULE ParallelExecutor --------------------------
(***************************************************************************)
(* What ThreadPool promises to the code that hands it tasks (Add): tasks   *)
(* are started once each, in the order in which they were handed over, at  *)
(* most Width of them run at a time, and every one of them ends.  A task   *)
(* is either queued or refused.  Threads, the mutex, the condition         *)
(* variable and the end of the pool are implementation detail: see         *)
(* ThreadPool.                                                             *)
(***************************************************************************)
EXTENDS Integers, Sequences, FiniteSets

CONSTANTS
    Tasks,      \* the tasks that may be handed over
    Width       \* how many tasks may run at a time

VARIABLES
    fresh,      \* tasks nobody has handed over yet
    pending,    \* tasks queued and not yet started, oldest first
    active,     \* tasks started and not yet ended
    done        \* tasks ended

vars == <<fresh, pending, active, done>>

Init ==
    /\ fresh = Tasks
    /\ pending = <<>>
    /\ active = {}
    /\ done = {}

Submit(t) ==
    /\ t \in fresh
    /\ fresh' = fresh \ {t}
    /\ pending' = Append(pending, t)
    /\ UNCHANGED <<active, done>>

Refuse(t) ==
    /\ t \in fresh
    /\ fresh' = fresh \ {t}
    /\ UNCHANGED <<pending, active, done>>

Begin ==
    /\ pending # <<>>
    /\ Cardinality(active) < Width
    /\ active' = active \cup {Head(pending)}
    /\ pending' = Tail(pending)
    /\ UNCHANGED <<fresh, done>>

End(t) ==
    /\ t \in active
    /\ active' = active \ {t}
    /\ done' = done \cup {t}
    /\ UNCHANGED <<fresh, pending>>

Next ==
    \/ Begin
    \/ \E t \in Tasks : Submit(t) \/ Refuse(t) \/ End(t)

SafeSpec == Init /\ [][Next]_vars

Spec == SafeSpec /\ WF_vars(Begin) /\ \A t \in Tasks : WF_vars(End(t))
=============================================================================

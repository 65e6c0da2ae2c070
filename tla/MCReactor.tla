---- MODULE MCReactor ----
(* Model-checking instance of Reactor. *)
EXTENDS Reactor, TLC

Symmetry == Permutations(Conns) \cup Permutations(Fds)

\* What is left in a destroyed object is read by nobody: such states are the same
\* state.  Used in safety runs only.
View ==
    <<[c \in Conns |-> IF Freed(c) THEN <<>> ELSE <<conn[c], sock[c]>>],
      connections, timer, next, backlog, phase, chs, todo, functors, owned,
      handler, main, exited, removals>>
====

---- MODULE MCTimeQueue ----
(* Model-checking instance of TimeQueue. *)
EXTENDS TimeQueue

MCJumps == {-2, 2}
====

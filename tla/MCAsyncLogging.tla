--------------------------- MODULE MCAsyncLogging ---------------------------
(* Model-checking instance of AsyncLogging, and of LogStream: one line. *)
EXTENDS AsyncLogging, Integers

CONSTANTS Size, NumericSize, HeadLen, TailLen, Texts, Ints     \* of LogStream

VARIABLES
    part,               \* "log": a behaviour of AsyncLogging, "line": of LogStream
    cur, high, line     \* LogStream

MCInts == {-42, -5, 0, 7, 10, 123, 9999}

Stream == INSTANCE LogStream WITH phase <- line

ASSUME StreamAssumption == Stream!LogStreamAssumption

lineVars == <<cur, high, line>>

MCInit == Init /\ Stream!Init /\ part \in {"log", "line"}

Log(A) == part = "log" /\ A /\ UNCHANGED <<part, lineVars>>

MCNext ==
    \/ Log(Next)
    \/ part = "line" /\ Stream!Next /\ UNCHANGED <<part, vars>>

MCSpec ==
    /\ MCInit /\ [][MCNext]_<<part, lineVars, vars>>
    /\ WF_<<part, lineVars, vars>>(Log(~exited /\ LogThread))

\* One line of LogStream: its pieces stay inside the buffer together, and the integers in
\* it are decimal numbers.
LineIsSound == Stream!LineStaysInside /\ Stream!NumbersAreReadable

\* What the back end owes while it runs, although its wait's predicate may stay false:
\* every line is written, and Stop ends the thread.
BackEndServes == EveryLineIsWritten /\ StopEndsThread
=============================================================================

---------------------------- MODULE FunctionState ----------------------------
(***************************************************************************)
(* How build_support/cpplint.py measures functions: _FunctionState and     *)
(* CheckForFunctionLengths.  Only lines at the left margin begin and end   *)
(* functions.                                                              *)
(*                                                                         *)
(* A line is one of                                                        *)
(*   "head"   looks like the beginning of a function, with none of ; } {   *)
(*   "open"   the same with { but neither ; nor }                          *)
(*   "call"   the same with ; or }                                         *)
(*   "end"    a } at the margin, alone                                     *)
(*   "brace", "stop", "text"  anything else, with { only, with ; or },     *)
(*            with none of them                                            *)
(*   "blank"  blank, or a comment                                          *)
(* where a line that looks like one but is named like a macro, all capital *)
(* letters, is anything else, unless it is TEST or TEST_F.                 *)
(***************************************************************************)
EXTENDS Integers, FiniteSets, Sequences

CONSTANTS
    NORMAL_TRIGGER, TEST_TRIGGER,   \* lines allowed at verbosity 0
    VerboseLevels,                  \* the values of --verbose
    MaxLines                        \* bound: lines of a function

FunctionAssumption ==
    /\ NORMAL_TRIGGER \in Nat \ {0} /\ TEST_TRIGGER \in Nat \ {0}
    /\ VerboseLevels \subseteq 0..5
    /\ MaxLines \in Nat

VARIABLES
    verbose,                \* --verbose
    in_a_function, lines_in_function,
    is_test,                \* current_function matches T(EST|est)
    awaited,                \* what the search for the body has seen ahead: "brace", "stop", "nothing"
    report,                 \* what the last line reported: its confidence, -1 for nothing
    length,                 \* lines after the first of the function, -1 outside (history)
    simple                  \* no line inside it looked like another function (history)

vars == <<verbose, in_a_function, lines_in_function, is_test, awaited, report, length, simple>>

Lines == {"head", "open", "call", "end", "brace", "stop", "text", "blank"}

TypeOK ==
    /\ verbose \in VerboseLevels
    /\ in_a_function \in BOOLEAN /\ is_test \in BOOLEAN /\ simple \in BOOLEAN
    /\ lines_in_function \in 0..MaxLines
    /\ awaited \in {"", "brace", "stop", "nothing"}
    /\ report \in -1..5
    /\ length \in -1..MaxLines

-----------------------------------------------------------------------------
base_trigger == IF is_test THEN TEST_TRIGGER ELSE NORMAL_TRIGGER

\* 2 to the power of n, which is at most 5.
Power(n) == <<1, 2, 4, 8, 16, 32>>[n + 1]

trigger == base_trigger * Power(verbose)

\* int(math.log(lines_in_function / base_trigger, 2)), 5 at the most.
error_level ==
    CHOOSE n \in 0..5 :
        /\ base_trigger * Power(n) <= lines_in_function
        /\ n = 5 \/ lines_in_function < base_trigger * Power(n + 1)

\* The line is what the search for a function body found ahead.
Expected(line) ==
    CASE awaited = "" -> TRUE
      [] awaited = "brace" -> line \in {"head", "open", "brace", "text", "blank"}
      [] awaited = "stop" -> line \in {"head", "call", "stop", "end", "text", "blank"}
      [] awaited = "nothing" -> line \in {"head", "text", "blank"}

Found(line) == line \in {"open", "brace", "call", "stop", "end"}

\* A plausible mistake: the count of the function before goes on.
BeginCounting == lines_in_function

\* _FunctionState.Begin: from which count.
Begin == 0

TooLong == lines_in_function > trigger

\* A line that looks like the beginning of a function; the first of { and ; or } from
\* it on decides.
Starts(seen) ==
    /\ report' = IF seen = "nothing" THEN 5 ELSE -1
    /\ IF seen = "brace"
       THEN /\ in_a_function' = TRUE /\ lines_in_function' = Begin
            /\ is_test' \in BOOLEAN
            /\ length' = 0
            /\ simple' = (length = -1)
       ELSE /\ UNCHANGED <<in_a_function, lines_in_function, is_test, simple>>
            /\ length' = IF length = -1 THEN -1 ELSE length + 1

HeadLine ==
    \E seen \in {"brace", "stop", "nothing"} :
        /\ awaited # "" => seen = awaited
        /\ awaited' = seen
        /\ Starts(seen)

OpenLine == Expected("open") /\ awaited' = "" /\ Starts("brace")

CallLine == Expected("call") /\ awaited' = "" /\ Starts("stop")

\* The } at the margin: _FunctionState.Check and End.
EndLine ==
    /\ Expected("end") /\ awaited' = ""
    /\ report' = IF in_a_function /\ TooLong THEN error_level ELSE -1
    /\ in_a_function' = FALSE
    /\ length' = -1
    /\ UNCHANGED <<lines_in_function, is_test, simple>>

OtherLine(line) ==
    /\ Expected(line)
    /\ awaited' = IF Found(line) THEN "" ELSE awaited
    /\ lines_in_function' = IF in_a_function /\ line # "blank" THEN lines_in_function + 1
                            ELSE lines_in_function
    /\ length' = IF length = -1 \/ line = "blank" THEN length ELSE length + 1
    /\ report' = -1
    /\ UNCHANGED <<in_a_function, is_test, simple>>

ReadLine ==
    /\ \/ HeadLine \/ OpenLine \/ CallLine \/ EndLine
       \/ \E line \in {"brace", "stop", "text", "blank"} : OtherLine(line)
    /\ lines_in_function' <= MaxLines /\ length' <= MaxLines
    /\ UNCHANGED verbose

Init ==
    /\ verbose \in VerboseLevels
    /\ in_a_function = FALSE /\ lines_in_function = 0 /\ is_test = FALSE
    /\ awaited = "" /\ report = -1 /\ length = -1 /\ simple = TRUE

Spec == Init /\ [][ReadLine]_vars

-----------------------------------------------------------------------------
\* At its closing brace a function is reported exactly if it is too long for the
\* verbosity, and then with a confidence the verbosity lets through: the count is that
\* of the function, of the ones before it nothing remains, and the two formulas, one
\* for the trigger and one for the confidence, agree (cpplint.py:1267-1293).  Lines
\* that look like calls are not counted, so with them a function may pass.
LongFunctionsShow ==
    [][EndLine /\ length # -1 /\ simple =>
        /\ report' # -1 => length > trigger /\ report' >= verbose
        /\ length > trigger /\ length = lines_in_function => report' >= verbose]_vars
=============================================================================

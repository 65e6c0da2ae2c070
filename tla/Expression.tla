------------------------------ MODULE Expression ------------------------------
(***************************************************************************)
(* How build_support/cpplint.py finds the other end of an expression in    *)
(* parentheses, brackets, braces or angle brackets: CloseExpression        *)
(* forward from an opening one, ReverseCloseExpression backward from a     *)
(* closing one.  The text is read character by character as the functions  *)
(* do and may be of any length.                                            *)
(*                                                                         *)
(* "operator" is the word, "x" any other character.  Backward, where the   *)
(* character before is looked at and skipped, "->", ">=", "operator>" and  *)
(* "<<" are read as one.                                                   *)
(***************************************************************************)
EXTENDS Naturals, SequencesExt

CONSTANT MaxNesting     \* bound: how deep the stacks become

VARIABLES
    way,        \* "forward", "backward"
    stack,      \* the argument of FindEndOfExpressionInLine and its counterpart
    found,      \* "no", "here": at the last character read, "never"
    before,     \* line[i - 1], "" at the beginning of a line
    op, op1,    \* line[0:i] and line[0:i - 1] end with the word operator
    first,      \* the character the search began with
    nest,       \* what is open if angle brackets are ignored (history)
    plain,      \* nothing but properly nested brackets of all kinds so far (history)
    all         \* what is open then (history)

context == <<before, op, op1>>
vars == <<way, stack, found, context, first, nest, plain, all>>

Opening == {"(", "[", "{"}
Closing == {")", "]", "}"}
Forward == Opening \cup Closing \cup {"<", ">", ";", "-", " ", "operator", "x"}
Backward == Opening \cup Closing \cup {"<", ">", ";", "->", ">=", "operator>", "<<", "x"}

\* The bracket at the other side.
Other(c) ==
    CASE c = "(" -> ")" [] c = "[" -> "]" [] c = "{" -> "}" [] c = "<" -> ">"
      [] c = ")" -> "(" [] c = "]" -> "[" [] c = "}" -> "{" [] c = ">" -> "<"

\* Read in the direction of the search, the brackets it opens and closes.
Opens == IF way = "forward" THEN Opening ELSE Closing
Closes == IF way = "forward" THEN Closing ELSE Opening
Angle == IF way = "forward" THEN "<" ELSE ">"

TypeOK ==
    /\ way \in {"forward", "backward"}
    /\ \A k \in DOMAIN stack : stack[k] \in Opens \cup {Angle}
    /\ found \in {"no", "here", "never"}
    /\ first \in Opens => (found = "no" <=> stack # <<>>)

-----------------------------------------------------------------------------
\* A plausible mistake: an operator < is left on the stack.
WithAngles(s) == s

\* The pending angle brackets on top were operators.
WithoutAngles(s) ==
    LET kept == {k \in DOMAIN s : s[k] # Angle}
    IN  SubSeq(s, 1, IF kept = {} THEN 0 ELSE Max(kept))

\* A result of a step: the stack and whether the search is over.
Goes(s) == [stack |-> s, found |-> "no"]
Fails == [stack |-> <<>>, found |-> "never"]
Pops(s, empty) == IF Len(s) > 1 THEN Goes(Front(s)) ELSE [stack |-> <<>>, found |-> empty]

Closed(s, c) ==
    LET rest == WithoutAngles(s) IN
    IF rest = <<>> \/ Last(rest) # Other(c) THEN Fails ELSE Pops(rest, "here")

Semicolon(s) == IF WithoutAngles(s) = <<>> THEN Fails ELSE Goes(WithoutAngles(s))

TopIsAngle(s) == s # <<>> /\ Last(s) = Angle

\* One turn of the loop in FindEndOfExpressionInLine, with char for line[i - 1],
\* word and word1 for op and op1.
EndStep(s, c, char, word, word1) ==
    CASE c \in Opening -> Goes(Append(s, c))
      [] c = "<" -> IF char = "<" THEN IF TopIsAngle(s) THEN Pops(s, "never") ELSE Goes(s)
                    ELSE IF word THEN Goes(s)
                    ELSE Goes(Append(s, c))
      [] c \in Closing -> Closed(s, c)
      [] c = ">" -> IF char = "-" \/ word1 \/ ~TopIsAngle(s) THEN Goes(s) ELSE Pops(s, "here")
      [] c = ";" -> Semicolon(s)
      [] OTHER -> Goes(s)

\* One turn of the loop in FindStartOfExpressionInLine.
StartStep(s, c) ==
    CASE c \in Closing \cup {">"} -> Goes(Append(s, c))
      [] c = "<" -> IF TopIsAngle(s) THEN Pops(s, "here") ELSE Goes(s)
      [] c \in Opening -> Closed(s, c)
      [] c = ";" -> Semicolon(s)
      [] OTHER -> Goes(s)

Step(s, c) == IF way = "forward" THEN EndStep(s, c, before, op, op1) ELSE StartStep(s, c)

-----------------------------------------------------------------------------
\* What is open after c if angle brackets are not brackets; <<"bad">> after a
\* bracket that closes another kind.
Nest(n, c) ==
    IF n = <<"bad">> THEN n
    ELSE IF c \in Opens THEN Append(n, c)
    ELSE IF c \notin Closes THEN n
    ELSE IF n = <<>> \/ Last(n) # Other(c) THEN <<"bad">> ELSE Front(n)

\* The next character belongs to text that consists of brackets, properly nested.
StaysPlain(c) ==
    \/ c = "x"
    \/ c \in Opens
    \/ c = Angle /\ (way = "forward" => before # "<")
    \/ c \in Closes \cup {Other(Angle)} /\ all # <<>> /\ Last(all) = Other(c)

Read(c) ==
    /\ stack' = Step(stack, c).stack
    /\ found' = Step(stack, c).found
    /\ nest' = Nest(nest, c)
    /\ plain' = (plain /\ StaysPlain(c))
    /\ all' = IF ~plain' THEN <<>>
              ELSE IF c \in Opens \cup {Angle} THEN Append(all, c)
              ELSE IF c = "x" THEN all ELSE Front(all)
    /\ before' = c
    /\ op' = (c = "operator" \/ (c = " " /\ op))
    /\ op1' = (op /\ c # "operator")
    /\ Len(stack') <= MaxNesting
    /\ UNCHANGED <<way, first>>

\* The line ends: CloseExpression and ReverseCloseExpression go on with the next one
\* as long as something is open.
NextLine ==
    /\ found = "no" /\ stack # <<>>
    /\ before' = "" /\ op' = FALSE /\ op1' = FALSE
    /\ UNCHANGED <<way, stack, found, first, nest, plain, all>>

\* Backward, two < that stand together are read as one.
ReadNext ==
    /\ found = "no"
    /\ \E c \in IF way = "forward" THEN Forward ELSE Backward :
         /\ way = "backward" /\ before = "<" => c \notin {"<", "<<"}
         /\ Read(c)

\* The search begins at a bracket.  CloseExpression refuses to begin at "<<" or "<=";
\* of the first, reading on would say the same.  What stands before the first character
\* decides whether it is pushed, and when it is not the rest of the line is read all
\* the same.
InitForward ==
    /\ way = "forward"
    /\ first \in Opening \cup {"<"}
    /\ op = FALSE /\ op1 \in BOOLEAN
    /\ \E char \in IF op1 THEN {" ", "operator"} ELSE {"<", "x"} :
         stack = EndStep(<<>>, first, char, op1, FALSE).stack

InitBackward ==
    /\ way = "backward"
    /\ first \in Closing \cup {">", "->", ">=", "operator>"}
    /\ op = FALSE /\ op1 = FALSE
    /\ stack = StartStep(<<>>, first).stack

Init ==
    /\ InitForward \/ InitBackward
    /\ before = first /\ found = "no"
    /\ nest = IF first \in Opens THEN <<first>> ELSE <<>>
    /\ plain = (stack = <<first>>)
    /\ all = stack

Next == ReadNext \/ NextLine

Spec == Init /\ [][Next]_vars

-----------------------------------------------------------------------------
\* From a parenthesis, bracket or brace, the search ends at the one that matches
\* it, and fails only at one that cannot match: no <, >, << or -> in between, as
\* template bracket or as operator, leads it astray, on one line or on several
\* (cpplint.py:1757-1819, 1882-1940).
MatchFound ==
    first \in Opens =>
        /\ found = "here" <=> nest = <<>>
        /\ found = "never" <=> nest = <<"bad">>

\* From an angle bracket it ends at the one that matches if what is in between is a
\* properly nested template argument list (cpplint.py:1763-1776, 1794-1808, 1887-1923).
TemplateFound ==
    first = Angle /\ plain => (found = "here" <=> all = <<>>) /\ found # "never"
=============================================================================

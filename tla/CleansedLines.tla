---------------------------- MODULE CleansedLines ----------------------------
(***************************************************************************)
(* How build_support/cpplint.py takes strings and comments out of a file   *)
(* before it looks at it: RemoveMultiLineComments, CleanseRawStrings,      *)
(* CleansedLines with _CollapseStrings, CleanseComments and IsCppString.   *)
(*                                                                         *)
(* Every text of a few tokens is built up, line by line, and what the      *)
(* functions leave of it is compared with what a C++ compiler reads.       *)
(* Blanks, #include lines and delimiters of raw strings are left out.      *)
(***************************************************************************)
EXTENDS Integers, FiniteSets, SequencesExt

CONSTANTS
    Tokens,         \* sequences of characters the text consists of
    MaxTokens       \* bound: length of the text

CleansedAssumption == Tokens \subseteq Seq(STRING) /\ MaxTokens \in Nat

VARIABLES
    text,           \* its lines, as sequences of characters
    count,          \* how many tokens it has
    mode,           \* what a compiler is in at its end
    code,           \* what a compiler reads, strings without their contents, line by line
    kept,           \* the same with their contents, but for raw strings
    plain,          \* no string holds the beginning of a comment that would matter
    usual           \* comments and literals are written the way cpplint expects

vars == <<text, count, mode, code, kept, plain, usual>>

Word == {"x", "R", "1"}
Modes == {"code", "string", "char", "digit", "line", "block", "raw"}

TypeOK ==
    /\ mode \in Modes /\ usual \in BOOLEAN /\ plain \in BOOLEAN
    /\ Len(code) = Len(text)
    /\ count \in 0..MaxTokens

-----------------------------------------------------------------------------
\* The first place of pat in s from position i on, 0 if there is none.
Find(s, pat, i) ==
    LET at == {k \in i..(Len(s) - Len(pat) + 1) : SubSeq(s, k, k + Len(pat) - 1) = pat}
    IN  IF at = {} THEN 0 ELSE Min(at)

From(s, i) == SubSeq(s, i, Len(s))

\* How often pat is in s, where it cannot overlap itself.
Count(s, pat) ==
    Cardinality({k \in 1..(Len(s) - Len(pat) + 1) : SubSeq(s, k, k + Len(pat) - 1) = pat})

\* Pairs of backslash and another character, read from the left, are left out.
WithoutEscapes[s \in Seq(STRING)] ==
    LET k == Find(s, <<"\\">>, 1)
    IN  IF k = 0 THEN s ELSE SubSeq(s, 1, k - 1) \o WithoutEscapes[From(s, k + 2)]

\* A plausible mistake: every quotation mark counts.
QuotesAreOdd(line) == Count(line, <<"\"">>) % 2 = 1

\* Escaped backslashes, read from the left, are replaced.
Masked[s \in Seq(STRING)] ==
    LET k == Find(s, <<"\\", "\\">>, 1)
    IN  IF k = 0 THEN s ELSE SubSeq(s, 1, k - 1) \o <<"X", "X">> \o Masked[From(s, k + 2)]

\* IsCppString: the line ends inside a string.
IsCppString(line) ==
    LET s == Masked[line]
    IN  (Count(s, <<"\"">>) - Count(s, <<"\\", "\"">>) - Count(s, <<"'", "\"", "'">>)) % 2 = 1

\* Without the comments that begin and end in s.
WithoutCComments[s \in Seq(STRING)] ==
    LET k == Find(s, <<"/", "*">>, 1)
        e == Find(s, <<"*", "/">>, k + 2)
    IN  IF k = 0 \/ e = 0 THEN s
        ELSE SubSeq(s, 1, k - 1) \o WithoutCComments[From(s, e + 2)]

CleanseComments(s) ==
    LET k == Find(s, <<"/", "/">>, 1)
    IN  WithoutCComments[
            IF k # 0 /\ ~IsCppString(SubSeq(s, 1, k - 1)) THEN SubSeq(s, 1, k - 1) ELSE s]

-----------------------------------------------------------------------------
\* RemoveMultiLineComments, of the lines from k on.
Begins(s) == Find(s, <<"/", "*">>, 1) = 1 /\ Find(s, <<"*", "/">>, 3) = 0
Ends(s) == Len(s) >= 2 /\ From(s, Len(s) - 1) = <<"*", "/">>

WithoutMultiLine[ls \in Seq(Seq(STRING)), k \in Nat] ==
    LET begins == {j \in k..Len(ls) : Begins(ls[j])}
        b == Min(begins)
        ends == {j \in b..Len(ls) : Ends(ls[j])}
        e == Min(ends)
    IN  IF begins = {} \/ ends = {} THEN ls
        ELSE WithoutMultiLine[[j \in DOMAIN ls |-> IF j \in b..e THEN <<"/", "*", "*", "/">>
                                                   ELSE ls[j]], e + 1]

\* From the beginning of s, // stands after characters and closed literals only; a
\* backslash may or may not be taken for an escape.
Reached(s) ==
    LET r[i \in 0..Len(s)] ==
            \/ i = 0
            \/ r[i - 1] /\ s[i] \notin {"'", "\""}
            \/ \E j \in 0..(i - 2) :
                 /\ r[j] /\ s[i] \in {"'", "\""} /\ s[j + 1] = s[i]
                 /\ \A m \in (j + 2)..(i - 1) : s[m] = s[i] => m > j + 2 /\ s[m - 1] = "\\"
    IN  r
IsComment(s) ==
    \E k \in 1..(Len(s) - 1) : Reached(s)[k - 1] /\ s[k] = "/" /\ s[k + 1] = "/"

\* CleanseRawStrings: a line, and whether a raw string goes on after it.
RawLine[s \in Seq(STRING)] ==
    LET starts == {k \in 1..(Len(s) - 2) : /\ SubSeq(s, k, k + 2) = <<"R", "\"", "(">>
                                           /\ k = 1 \/ s[k - 1] \notin Word}
        k == Min(starts)
        e == Find(s, <<")", "\"">>, k + 3)
        before == SubSeq(s, 1, k - 1) \o <<"\"", "\"">>
    IN  IF starts = {} \/ IsComment(SubSeq(s, 1, k - 1)) THEN [line |-> s, open |-> FALSE]
        ELSE IF e = 0 THEN [line |-> before, open |-> TRUE]
        ELSE RawLine[before \o From(s, e + 2)]

RawStep(s, open) ==
    IF ~open THEN RawLine[s]
    ELSE LET e == Find(s, <<")", "\"">>, 1)
         IN  IF e = 0 THEN [line |-> <<"\"", "\"">>, open |-> TRUE]
             ELSE RawLine[<<"\"", "\"">> \o From(s, e + 2)]

CleanseRawStrings(ls) ==
    LET raw[k \in 0..Len(ls)] ==
            IF k = 0 THEN [line |-> <<>>, open |-> FALSE] ELSE RawStep(ls[k], raw[k - 1].open)
    IN  [k \in DOMAIN ls |-> raw[k].line]

-----------------------------------------------------------------------------
\* The last number, and what follows its first digit separator.
EndsWithNumber(s) ==
    \E k \in DOMAIN s : /\ \A j \in k..Len(s) : s[j] = "1"
                        /\ k = 1 \/ s[k - 1] \notin Word

\* The longest beginning that consists of letters and digits, each perhaps after a '.
Literal(s) ==
    LET long == {n \in 0..Len(s) :
                    /\ n > 0 => s[n] \in Word
                    /\ \A k \in 1..n : s[k] \in Word \/ (s[k] = "'" /\ s[k + 1] \in Word)}
    IN  Max(long)

\* _CollapseStrings, the loop.
Collapse[s \in Seq(STRING)] ==
    LET quotes == {k \in DOMAIN s : s[k] \in {"'", "\""}}
        q == Min(quotes)
        head == SubSeq(s, 1, q - 1)
        second == Find(s, <<s[q]>>, q + 1)
        n == Literal(From(s, q))
    IN  IF quotes = {} THEN s
        ELSE IF s[q] = "'" /\ EndsWithNumber(head) /\ n > 0
             THEN head \o SelectSeq(SubSeq(s, q, q + n - 1), LAMBDA c : c # "'")
                       \o Collapse[From(s, q + n)]
        ELSE IF second = 0 THEN s
        ELSE head \o <<s[q], s[q]>> \o Collapse[From(s, second + 1)]

CollapseStrings(s) == Collapse[WithoutEscapes[s]]

\* The member lines.
Lines(ls) ==
    LET raw == CleanseRawStrings(WithoutMultiLine[ls, 1])
    IN  [k \in DOMAIN ls |-> CleanseComments(raw[k])]

\* The member elided.
Elided(ls) ==
    LET raw == CleanseRawStrings(WithoutMultiLine[ls, 1])
    IN  [k \in DOMAIN ls |-> CleanseComments(CollapseStrings(raw[k]))]

-----------------------------------------------------------------------------
\* What a compiler reads.  Read(t) says for the token t in which mode it leaves the
\* text, what of it is read, and whether it may stand there.
R(m, c) == [mode |-> m, code |-> c, legal |-> TRUE]
Illegal == [mode |-> "code", code |-> <<>>, legal |-> FALSE]

LastChar == IF Last(text) = <<>> THEN "" ELSE Last(Last(text))

InCode(t) ==
    CASE t = <<"\"">> -> R("string", <<"\"", "\"">>)
      [] t = <<"'">> -> IF EndsWithNumber(Last(text)) THEN R("digit", <<>>)
                        ELSE IF LastChar \in Word THEN Illegal
                        ELSE R("char", <<"'", "'">>)
      [] t = <<"/", "/">> -> R("line", <<>>)
      [] t = <<"/", "*">> -> R("block", <<>>)
      [] t = <<")", "\"">> -> R("string", <<")", "\"", "\"">>)
      [] t = <<"R", "\"", "(">> ->
            IF LastChar \in Word THEN R("string", <<"R", "\"", "\"">>)
            ELSE R("raw", <<"\"", "\"">>)
      [] t \in {<<"x">>, <<"1">>} -> R("code", t)
      [] OTHER -> Illegal

InString(t) ==
    CASE t \in {<<"\"">>, <<")", "\"">>} -> R("code", <<>>)
      [] t = <<"R", "\"", "(">> -> R("code", <<"(">>)
      [] OTHER -> R("string", <<>>)

InChar(t) ==
    IF LastChar = "'"
    THEN IF t \in {<<"x">>, <<"\"">>, <<"\\", "\"">>, <<"\\", "\\">>} THEN R("char", <<>>) ELSE Illegal
    ELSE IF t = <<"'">> THEN R("code", <<>>) ELSE Illegal

InDigit(t) == IF t \in {<<"x">>, <<"1">>} THEN R("code", t) ELSE Illegal

InBlock(t) == IF t = <<"*", "/">> THEN R("code", <<>>) ELSE R("block", <<>>)

InRaw(t) == IF t = <<")", "\"">> THEN R("code", <<>>) ELSE R("raw", <<>>)

Reads(t) ==
    CASE mode = "code" -> InCode(t)
      [] mode = "string" -> InString(t)
      [] mode = "char" -> InChar(t)
      [] mode = "digit" -> InDigit(t)
      [] mode = "line" -> R("line", <<>>)
      [] mode = "block" -> InBlock(t)
      [] mode = "raw" -> InRaw(t)

\* Comments and literals the functions are not made for: a string with R before its
\* closing quote that a parenthesis follows, a raw string after an apostrophe or an
\* escaped quote on the same line, quotes and the beginning of other comments inside a
\* comment with an end or right after it, code after the end of a comment of several
\* lines.
Unusual(t) ==
    \/ t = <<"R", "\"", "(">> /\ (mode = "string" \/ Range(Last(text)) \cap {"'", "\\"} # {})
    \/ mode = "block" /\ t \notin {<<"x">>, <<"1">>, <<"*", "/">>}
    \/ mode = "code" /\ Ends(Last(text))
       /\ (t \in {<<"/", "/">>, <<"/", "*">>} \/ Find(Last(text), <<"/", "*">>, 1) = 0)

\* Comment signs in strings: those of one kind, and // if a comment follows.
Hides(t) ==
    \/ mode = "string" /\ Find(Last(kept) \o t, <<"/", "*">>, 1) # 0
    \/ mode = "code" /\ t = <<"/", "/">> /\ Find(Last(kept), t, 1) # 0

AddToken ==
    \E t \in Tokens :
        /\ count < MaxTokens
        /\ Reads(t).legal
        /\ text' = [text EXCEPT ![Len(text)] = @ \o t]
        /\ code' = [code EXCEPT ![Len(text)] = @ \o Reads(t).code]
        /\ mode' = Reads(t).mode
        /\ kept' = [kept EXCEPT ![Len(text)] =
                       @ \o IF mode \in {"string", "char", "digit"} THEN t
                            ELSE IF mode = "code" /\ mode' = "code" THEN t
                            ELSE IF mode = "code" /\ mode' \in {"string", "char", "digit"} THEN t
                            ELSE Reads(t).code]
        /\ usual' = (usual /\ ~Unusual(t))
        /\ plain' = (plain /\ ~Hides(t))
        /\ count' = count + 1

\* The line ends.  Neither a string nor a character can go on with the next.
AddLine ==
    /\ count < MaxTokens /\ mode \notin {"string", "char", "digit"}
    /\ text' = Append(text, <<>>)
    /\ code' = Append(code, IF mode = "raw" THEN <<"\"", "\"">> ELSE <<>>)
    /\ kept' = Append(kept, Last(code'))
    /\ mode' = IF mode = "line" THEN "code" ELSE mode
    /\ usual' = (usual /\ (mode = "block" => \/ Begins(Last(text))
                                            \/ Find(Last(text), <<"/", "*">>, 1) = 0))
    /\ count' = count + 1
    /\ UNCHANGED plain

Init ==
    /\ text = << <<>> >> /\ code = << <<>> >> /\ kept = << <<>> >>
    /\ count = 0 /\ mode = "code"
    /\ plain = TRUE /\ usual = TRUE

Next == AddToken \/ AddLine

Spec == Init /\ [][Next]_vars

-----------------------------------------------------------------------------
\* Of a complete text the checks see exactly what a compiler reads, without comments
\* and without the contents of literals (cpplint.py:1496-1741).
ElidedIsCode == mode \in {"code", "line"} /\ usual => Elided(text) = code

\* The checks that look at strings see what a compiler reads with them
\* (cpplint.py:1496-1510, 1633-1646, 1660-1668).
LinesAreCode == mode \in {"code", "line"} /\ usual /\ plain => Lines(text) = kept
=============================================================================

----------------------------- MODULE LogStream -----------------------------
(***************************************************************************)
(* One log line from Logger's constructor to its destructor: what the      *)
(* operators << put into the FixedBuffer of the line, and integers turned  *)
(* into characters.  The finished line is an Append of AsyncLogging.       *)
(*                                                                         *)
(* The buffer is the length of what it holds; characters are ASCII codes,  *)
(* and only those of integers are looked at.                               *)
(***************************************************************************)
EXTENDS Integers, Sequences, SequencesExt

CONSTANTS
    Size,       \* FIXEDBUFFERSIZE
    NumericSize,\* KMAXNUMERICSIZE
    HeadLen,    \* length of the time, the thread and the level
    TailLen,    \* length of "-", file, ":" and "\n"; the line number is an integer
    Texts,      \* lengths of strings that are logged
    Ints        \* integers that are logged

Ten[k \in Nat] == IF k = 0 THEN 1 ELSE 10 * Ten[k - 1]

\* KMAXNUMERICSIZE is 48, and no integer of C++ has that many digits.
LogStreamAssumption ==
    /\ Size \in Nat /\ NumericSize \in Nat \ {0}
    /\ HeadLen \in Nat /\ TailLen \in Nat \ {0}
    /\ HeadLen < Size
    /\ Texts \subseteq Nat
    /\ Ints \subseteq {v \in Int : v < Ten[NumericSize] /\ -v < Ten[NumericSize]}

VARIABLES
    cur,        \* GetLength()
    high,       \* how far the bytes of data_ have been written to (history)
    phase       \* "open", "finished": given to g_output, "exited": Errif

vars == <<cur, high, phase>>

\* Logger::Impl::Impl.
Init == cur = HeadLen /\ high = HeadLen /\ phase = "open"

-----------------------------------------------------------------------------
\* Division of C++: towards zero.
Quot(v) == IF v >= 0 THEN v \div 10 ELSE - ((- v) \div 10)
Rem(v) == v - 10 * Quot(v)

\* The do loop: '0' + value % 10, least significant first.
Digits[v \in Int] ==
    <<48 + Rem(v)>> \o (IF Quot(v) = 0 THEN <<>> ELSE Digits[Quot(v)])

\* The characters FormatInteger writes.  "if (value < 0)" comes after the loop,
\* when value is 0: there never is a sign.
FormatInteger(v) == Reverse(Digits[v])

-----------------------------------------------------------------------------
GetSpace == Size - cur

\* len characters, if the test before them let them through.
Write(fits, len) ==
    IF fits
    THEN cur' = cur + len /\ high' = cur + len /\ UNCHANGED phase
    ELSE phase' = "exited" /\ UNCHANGED <<cur, high>>

\* FixedBuffer::Append, for strings of every kind.
AppendText(len) ==
    /\ phase = "open"
    /\ Write(GetSpace > len, len)

\* A plausible mistake: room for one digit is thought to be enough.
RoomForOneDigit == GetSpace > 1

RoomForInteger == GetSpace > NumericSize

AppendInteger(v) ==
    /\ phase = "open"
    /\ Write(RoomForInteger, Len(FormatInteger(v)))

\* Every piece of the end of a line fits: the texts before the line number and the
\* space kept free for it, then "\n" after its digits.
EndFits(line) ==
    /\ GetSpace - (TailLen - 1) > NumericSize
    /\ GetSpace > TailLen + Len(FormatInteger(line))

\* Finish and g_output.  The five operators << follow each other without anything
\* between them; what was written before one that ends the process is of no use.
Finish ==
    /\ phase = "open"
    /\ \E line \in {v \in Ints : v > 0} :
          IF EndFits(line)
          THEN /\ cur' = cur + TailLen + Len(FormatInteger(line))
               /\ high' = cur'
               /\ phase' = "finished"
          ELSE phase' = "exited" /\ UNCHANGED <<cur, high>>

Next ==
    \/ \E len \in Texts : AppendText(len)
    \/ \E v \in Ints : AppendInteger(v)
    \/ Finish

Spec == Init /\ [][Next]_vars

-----------------------------------------------------------------------------
\* A line never leaves its buffer, however the pieces add up: the test before an
\* integer is made without knowing its length (LogStream.h:17-24, 84-100).
LineStaysInside == high <= Size /\ (phase # "exited" => cur < Size)

Value(s) ==
    LET sum[k \in 0 .. Len(s)] == IF k = 0 THEN 0 ELSE 10 * sum[k - 1] + (s[k] - 48)
    IN  sum[Len(s)]

\* Integers from 0 on are written as their decimal digits, the first one not 0
\* unless it is the only one.  Negative ones are not (LogStream.h:88-95).
NumbersAreReadable ==
    \A v \in Ints : v >= 0 =>
        LET s == FormatInteger(v) IN
            /\ s # <<>>
            /\ \A k \in DOMAIN s : s[k] \in 48 .. 57
            /\ Value(s) = v
            /\ s[1] = 48 => Len(s) = 1
=============================================================================

-------------------------- MODULE AsyncLoggingProofs --------------------------
(***************************************************************************)
(* Proofs about AsyncLogging, for every size of buffer and file and any    *)
(* number of lines: type correctness, BuffersReady, LinesInOrder and, when *)
(* each roll opens a new file, FileBounded.  At the end, about the lines   *)
(* of LogStream as MCAsyncLogging runs them: LineIsSound.                  *)
(***************************************************************************)
EXTENDS MCAsyncLogging, SequenceTheorems, WellFoundedInduction, TLAPS

-----------------------------------------------------------------------------
(***************************************************************************)
(* Induction on the natural numbers, for sets rather than for operators:   *)
(* a set that is not all of Nat misses a least number.                     *)
(***************************************************************************)
NatLess == {p \in Nat \X Nat : p[1] < p[2]}

LEMMA NatLessWellFounded == IsWellFoundedOn(NatLess, Nat)
  BY NatLessThanWellFounded, Zenon DEF OpToRel, NatLess

LEMMA SetInduction ==
    ASSUME NEW S \in SUBSET Nat, 0 \in S, \A n \in S : n + 1 \in S
    PROVE  S = Nat
<1> SUFFICES ASSUME S # Nat PROVE FALSE
  OBVIOUS
<1> DEFINE T == Nat \ S
<1>1. T \subseteq Nat /\ T # {}
  OBVIOUS
<1>2. PICK x \in T : \A y \in T : <<y, x>> \notin NatLess
  <2> HIDE DEF T
  <2> QED
    BY <1>1, NatLessWellFounded, WFMin
<1>3. x \in Nat /\ x # 0 /\ x - 1 \in Nat
  OBVIOUS
<1>4. x - 1 \in T
  BY <1>3
<1>5. <<x - 1, x>> \in NatLess
  BY <1>3 DEF NatLess
<1> QED
  BY <1>2, <1>4, <1>5

-----------------------------------------------------------------------------
(***************************************************************************)
(* FlattenSeq, as a function of the length of the prefix.                  *)
(***************************************************************************)
\* f[i] is the concatenation of the first i members of s, for i in 1 .. n.
Flattens(f, s, n) ==
    /\ n # 0 => f[1] = s[1]
    /\ \A i \in 1 .. n - 1 : f[i + 1] = f[i] \o s[i + 1]

LEMMA FlattenExists ==
    ASSUME NEW T, NEW s \in Seq(Seq(T)), NEW n \in Nat, n <= Len(s)
    PROVE  \E f \in [1 .. n -> Seq(T)] : Flattens(f, s, n)
<1> DEFINE Has(m) == \E f \in [1 .. m -> Seq(T)] : Flattens(f, s, m)
           S == {m \in Nat : m <= Len(s) => Has(m)}
<1>1. 0 \in S
  <2>1. [i \in 1 .. 0 |-> << >>] \in [1 .. 0 -> Seq(T)]
    OBVIOUS
  <2>2. Flattens([i \in 1 .. 0 |-> << >>], s, 0)
    BY DEF Flattens
  <2> QED
    BY <2>1, <2>2
<1>2. ASSUME NEW m \in S PROVE m + 1 \in S
  <2> SUFFICES ASSUME m + 1 <= Len(s) PROVE Has(m + 1)
    OBVIOUS
  <2>1. m \in Nat /\ Len(s) \in Nat /\ m <= Len(s)
    BY LenProperties
  <2>2. PICK f \in [1 .. m -> Seq(T)] : Flattens(f, s, m)
    BY <2>1
  <2>3. s[m + 1] \in Seq(T) /\ (m # 0 => f[m] \o s[m + 1] \in Seq(T))
    <3>1. s[m + 1] \in Seq(T)
      BY <2>1, ElementOfSeq
    <3>2. m # 0 => f[m] \in Seq(T)
      BY <2>1
    <3> QED
      BY <3>1, <3>2, ConcatProperties
  <2> DEFINE e == IF m = 0 THEN s[m + 1] ELSE f[m] \o s[m + 1]
             g == [i \in 1 .. m + 1 |-> IF i = m + 1 THEN e ELSE f[i]]
  <2>4. e \in Seq(T)
    BY <2>3
  <2>5. g \in [1 .. m + 1 -> Seq(T)]
    <3> HIDE DEF e
    <3> QED
      BY <2>1, <2>4
  <2>6. g[m + 1] = e /\ \A i \in 1 .. m : g[i] = f[i]
    <3> HIDE DEF e
    <3> QED
      BY <2>1
  <2> HIDE DEF g
  <2>7. Flattens(g, s, m + 1)
    <3>1. CASE m = 0
      BY <2>6, <3>1 DEF Flattens
    <3>2. CASE m # 0
      <4>1. g[1] = s[1]
        BY <2>1, <2>2, <2>6, <3>2 DEF Flattens
      <4>2. ASSUME NEW i \in 1 .. m, i # m
            PROVE  g[i + 1] = g[i] \o s[i + 1]
        <5>1. i \in 1 .. m - 1 /\ i + 1 \in 1 .. m
          BY <2>1, <4>2
        <5>2. f[i + 1] = f[i] \o s[i + 1]
          BY <2>2, <5>1 DEF Flattens
        <5> QED
          BY <2>6, <5>1, <5>2
      <4>3. g[m + 1] = g[m] \o s[m + 1]
        <5>1. e = f[m] \o s[m + 1]
          BY <3>2
        <5>2. g[m] = f[m]
          BY <2>1, <2>6, <3>2
        <5> HIDE DEF e
        <5> QED
          BY <2>6, <5>1, <5>2
      <4>4. (m + 1) - 1 = m
        BY <2>1
      <4> HIDE DEF e
      <4> QED
        BY <4>1, <4>2, <4>3, <4>4 DEF Flattens
    <3> QED
      BY <3>1, <3>2
  <2> QED
    BY <2>5, <2>7
<1> HIDE DEF Has
<1>3. S = Nat
  BY <1>1, <1>2, SetInduction
<1>4. Has(n)
  BY <1>3
<1> QED
  BY <1>4 DEF Has

\* Two such functions agree.
LEMMA FlattenUnique ==
    ASSUME NEW s, NEW n \in Nat \ {0}, NEW f, NEW g,
           Flattens(f, s, n), Flattens(g, s, n)
    PROVE  f[n] = g[n]
<1> DEFINE S == {i \in Nat : i < n => f[i + 1] = g[i + 1]}
<1>1. 0 \in S
  BY DEF Flattens
<1>2. ASSUME NEW i \in S PROVE i + 1 \in S
  <2> SUFFICES ASSUME i + 1 < n PROVE f[(i + 1) + 1] = g[(i + 1) + 1]
    OBVIOUS
  <2>1. i + 1 \in 1 .. n - 1 /\ i < n
    OBVIOUS
  <2>2. /\ f[(i + 1) + 1] = f[i + 1] \o s[(i + 1) + 1]
        /\ g[(i + 1) + 1] = g[i + 1] \o s[(i + 1) + 1]
    BY <2>1, Zenon DEF Flattens
  <2>3. f[i + 1] = g[i + 1]
    BY <2>1
  <2> QED
    BY <2>2, <2>3
<1>3. S = Nat
  BY <1>1, <1>2, SetInduction
<1>4. n - 1 \in Nat /\ n - 1 < n /\ (n - 1) + 1 = n
  OBVIOUS
<1>5. n - 1 \in S
  BY <1>3, <1>4
<1> QED
  BY <1>4, <1>5

LEMMA FlattenSeqIs ==
    ASSUME NEW T, NEW s \in Seq(Seq(T)), s # << >>, NEW g, Flattens(g, s, Len(s))
    PROVE  FlattenSeq(s) = g[Len(s)] /\ FlattenSeq(s) \in Seq(T)
<1> DEFINE n == Len(s)
           Eq(h) == h = [i \in 1 .. n |-> IF i = 1 THEN s[i] ELSE h[i - 1] \o s[i]]
           f == CHOOSE h : Eq(h)
<1>1. n \in Nat \ {0} /\ n <= n
  BY EmptySeq
<1>2. PICK h \in [1 .. n -> Seq(T)] : Flattens(h, s, n)
  BY <1>1, FlattenExists
<1> HIDE DEF n
<1>3. Eq(f)
  <2>1. ASSUME NEW i \in 1 .. n
        PROVE  h[i] = IF i = 1 THEN s[i] ELSE h[i - 1] \o s[i]
    <3>1. CASE i = 1
      BY <1>1, <1>2, <3>1 DEF Flattens
    <3>2. CASE i # 1
      <4>1. i - 1 \in 1 .. n - 1 /\ (i - 1) + 1 = i
        BY <1>1, <3>2
      <4> QED
        BY <1>2, <3>2, <4>1 DEF Flattens
    <3> QED
      BY <3>1, <3>2
  <2>2. h = [i \in 1 .. n |-> h[i]]
    OBVIOUS
  <2>3. Eq(h)
    BY <2>1, <2>2, Zenon
  <2> HIDE DEF Eq
  <2> QED
    BY <2>3
<1>4. FlattenSeq(s) = f[n]
  BY <1>1, Zenon DEF FlattenSeq, n
<1> HIDE DEF f
<1>5. ASSUME NEW i \in 1 .. n
      PROVE  f[i] = IF i = 1 THEN s[i] ELSE f[i - 1] \o s[i]
  <2>1. [j \in 1 .. n |-> IF j = 1 THEN s[j] ELSE f[j - 1] \o s[j]][i]
            = IF i = 1 THEN s[i] ELSE f[i - 1] \o s[i]
    BY Zenon
  <2> QED
    BY <1>3, <2>1, Zenon
<1> HIDE DEF Eq
<1>6. Flattens(f, s, n)
  <2>1. f[1] = s[1]
    BY <1>1, <1>5
  <2>2. ASSUME NEW i \in 1 .. n - 1 PROVE f[i + 1] = f[i] \o s[i + 1]
    <3>1. i + 1 \in 1 .. n /\ i + 1 # 1 /\ (i + 1) - 1 = i
      BY <1>1
    <3>2. f[i + 1] = f[(i + 1) - 1] \o s[i + 1]
      BY <1>5, <3>1, Zenon
    <3> QED
      BY <3>1, <3>2
  <2> QED
    BY <2>1, <2>2 DEF Flattens
<1>7. f[n] = g[n]
  BY <1>1, <1>6, FlattenUnique DEF n
<1>8. f[n] = h[n]
  BY <1>1, <1>2, <1>6, FlattenUnique
<1>9. h[n] \in Seq(T)
  BY <1>1
<1> QED
  BY <1>4, <1>7, <1>8, <1>9 DEF n

LEMMA FlattenSeqAppend ==
    ASSUME NEW T, NEW s \in Seq(Seq(T)), NEW x \in Seq(T)
    PROVE  /\ FlattenSeq(s) \in Seq(T)
           /\ FlattenSeq(Append(s, x)) = FlattenSeq(s) \o x
<1> DEFINE u == Append(s, x)
           k == Len(s)
<1>1. /\ u \in Seq(Seq(T))
      /\ u # << >>
      /\ Len(u) = k + 1
      /\ \A i \in 1 .. k : u[i] = s[i]
      /\ u[k + 1] = x
      /\ k \in Nat
      /\ k + 1 <= k + 1
  BY AppendProperties, LenProperties
<1> HIDE DEF u, k
<1>2. PICK f \in [1 .. k + 1 -> Seq(T)] : Flattens(f, u, k + 1)
  BY <1>1, FlattenExists
<1>3. FlattenSeq(u) = f[k + 1]
  BY <1>1, <1>2, FlattenSeqIs
<1>4. CASE s = << >>
  <2>1. k = 0
    BY <1>4 DEF k
  <2>2. FlattenSeq(s) = << >>
    BY <1>4, <2>1, Zenon DEF FlattenSeq, k
  <2>3. f[1] = u[1]
    BY <1>2, <2>1 DEF Flattens
  <2>4. FlattenSeq(u) = x
    BY <1>1, <1>3, <2>1, <2>3
  <2> QED
    BY <2>2, <2>4, EmptySeq, ConcatEmptySeq DEF u
<1>5. CASE s # << >>
  <2>1. k \in Nat \ {0} /\ k \in 1 .. (k + 1) - 1
    BY <1>1, <1>5, EmptySeq DEF k
  <2>2. Flattens(f, s, k)
    <3>1. f[1] = s[1]
      BY <1>1, <1>2, <2>1 DEF Flattens
    <3>2. ASSUME NEW i \in 1 .. k - 1 PROVE f[i + 1] = f[i] \o s[i + 1]
      <4>1. i \in 1 .. (k + 1) - 1 /\ i + 1 \in 1 .. k
        BY <1>1
      <4>2. f[i + 1] = f[i] \o u[i + 1]
        BY <1>2, <4>1 DEF Flattens
      <4> QED
        BY <1>1, <4>1, <4>2
    <3> QED
      BY <3>1, <3>2 DEF Flattens
  <2>3. FlattenSeq(s) = f[k] /\ FlattenSeq(s) \in Seq(T)
    BY <1>5, <2>2, FlattenSeqIs DEF k
  <2>4. f[k + 1] = f[k] \o u[k + 1]
    BY <1>2, <2>1 DEF Flattens
  <2> QED
    BY <1>1, <1>3, <2>3, <2>4 DEF u
<1> QED
  BY <1>4, <1>5

-----------------------------------------------------------------------------
(***************************************************************************)
(* The lines in a sequence of buffers.                                     *)
(***************************************************************************)
LineSeqs == Seq(1 .. MaxLines)

LEMMA ConcatLines ==
    ASSUME NEW x \in LineSeqs, NEW y \in LineSeqs
    PROVE  /\ x \o y \in LineSeqs
           /\ x \o << >> = x
           /\ << >> \o x = x
           /\ << >> \in LineSeqs
  BY ConcatProperties, ConcatEmptySeq, EmptySeq DEF LineSeqs

LEMMA ConcatThree ==
    \A x, y, z \in LineSeqs : (x \o y) \o z = x \o (y \o z)
  BY ConcatAssociative DEF LineSeqs

Parts(bufs) == [i \in 1 .. Len(bufs) |-> bufs[i].lines]

LEMMA PartsType ==
    ASSUME NEW bufs \in Seq(Buffers)
    PROVE  Parts(bufs) \in Seq(LineSeqs) /\ Len(Parts(bufs)) = Len(bufs)
<1>1. Len(bufs) \in Nat /\ \A i \in 1 .. Len(bufs) : bufs[i] \in Buffers
  BY LenProperties, ElementOfSeq
<1>2. \A i \in 1 .. Len(bufs) : bufs[i].lines \in LineSeqs
  BY <1>1, Zenon DEF Buffers, LineSeqs
<1>3. Parts(bufs) \in [1 .. Len(bufs) -> LineSeqs]
  BY <1>2 DEF Parts
<1>4. Parts(bufs) \in Seq(LineSeqs)
  BY <1>1, <1>3, SeqDef
<1>5. DOMAIN Parts(bufs) = 1 .. Len(bufs) /\ Len(Parts(bufs)) \in Nat
  BY <1>4, LenProperties DEF Parts
<1>6. DOMAIN Parts(bufs) = 1 .. Len(Parts(bufs))
  BY <1>4, LenProperties
<1> QED
  BY <1>1, <1>4, <1>5, <1>6

LEMMA PartsAppend ==
    ASSUME NEW bufs \in Seq(Buffers), NEW buffer \in Buffers
    PROVE  Parts(Append(bufs, buffer)) = Append(Parts(bufs), buffer.lines)
<1> DEFINE more == Append(bufs, buffer)
           p == Parts(bufs)
           q == Parts(more)
<1>1. /\ more \in Seq(Buffers)
      /\ Len(more) = Len(bufs) + 1
      /\ \A i \in 1 .. Len(bufs) : more[i] = bufs[i]
      /\ more[Len(bufs) + 1] = buffer
      /\ Len(bufs) \in Nat
  BY AppendProperties, LenProperties
<1> HIDE DEF more
<1>2. /\ p \in Seq(LineSeqs) /\ Len(p) = Len(bufs)
      /\ q \in Seq(LineSeqs) /\ Len(q) = Len(bufs) + 1
      /\ buffer.lines \in LineSeqs
  BY <1>1, PartsType DEF Buffers, LineSeqs
<1>3. /\ Append(p, buffer.lines) \in Seq(LineSeqs)
      /\ Len(Append(p, buffer.lines)) = Len(bufs) + 1
      /\ \A i \in 1 .. Len(bufs) : Append(p, buffer.lines)[i] = p[i]
      /\ Append(p, buffer.lines)[Len(bufs) + 1] = buffer.lines
  BY <1>2, AppendProperties
<1>4. \A i \in 1 .. Len(bufs) + 1 : q[i] = more[i].lines
  BY <1>1 DEF Parts
<1>5. \A i \in 1 .. Len(bufs) : p[i] = bufs[i].lines
  BY DEF Parts
<1> HIDE DEF p, q
<1>6. \A i \in 1 .. Len(bufs) + 1 : q[i] = Append(p, buffer.lines)[i]
  BY <1>1, <1>3, <1>4, <1>5
<1>7. q = Append(p, buffer.lines)
  BY <1>2, <1>3, <1>6, SeqEqual
<1> QED
  BY <1>7 DEF p, q, more

\* One more buffer at the end adds its lines at the end.
LEMMA LinesAppend ==
    ASSUME NEW bufs \in Seq(Buffers), NEW buffer \in Buffers
    PROVE  /\ Lines(bufs) \in LineSeqs
           /\ Lines(Append(bufs, buffer)) = Lines(bufs) \o buffer.lines
<1>1. buffer.lines \in LineSeqs
  BY DEF Buffers, LineSeqs
<1>2. Lines(bufs) = FlattenSeq(Parts(bufs))
  BY DEF Lines, Parts
<1>3. Lines(Append(bufs, buffer)) = FlattenSeq(Append(Parts(bufs), buffer.lines))
  BY PartsAppend DEF Lines, Parts
<1> QED
  BY <1>1, <1>2, <1>3, PartsType, FlattenSeqAppend DEF LineSeqs

LEMMA LinesEmpty == Lines(<< >>) = << >>
<1>1. [i \in 1 .. 0 |-> << >>[i].lines] = << >>
  OBVIOUS
<1>2. Len(<< >>) = 0
  OBVIOUS
<1>3. FlattenSeq(<< >>) = << >>
  BY <1>2, Zenon DEF FlattenSeq
<1> QED
  BY <1>1, <1>2, <1>3, Zenon DEF Lines

LEMMA BuffersPart ==
    ASSUME NEW bufs \in Seq(Buffers), NEW k \in Nat \ {0}, NEW n \in Nat, n <= Len(bufs)
    PROVE  SubSeq(bufs, k, n) \in Seq(Buffers)
<1>1. Len(bufs) \in Nat
  BY LenProperties
<1>2. \A i \in k .. n : bufs[i] \in Buffers
  BY <1>1, ElementOfSeq
<1> QED
  BY <1>2, SubSeqProperties

\* The first of some buffers contributes the first lines.
LEMMA LinesFirst ==
    ASSUME NEW bufs \in Seq(Buffers), NEW k \in 1 .. Len(bufs)
    PROVE  Lines(SubSeq(bufs, k, Len(bufs)))
              = bufs[k].lines \o Lines(SubSeq(bufs, k + 1, Len(bufs)))
<1> DEFINE Splits(n) == Lines(SubSeq(bufs, k, n))
                           = bufs[k].lines \o Lines(SubSeq(bufs, k + 1, n))
           S == {m \in Nat : k + m <= Len(bufs) => Splits(k + m)}
<1>1. /\ Len(bufs) \in Nat
      /\ k \in Nat \ {0}
      /\ k \in 1 .. Len(bufs) /\ k \in k .. Len(bufs)
      /\ \A i \in 1 .. Len(bufs) : bufs[i] \in Buffers
  BY LenProperties, ElementOfSeq
<1>7. bufs[k] \in Buffers /\ bufs[k].lines \in LineSeqs
  BY <1>1 DEF Buffers, LineSeqs
<1>2. 0 \in S
  <2>1. SubSeq(bufs, k + 1, k) = << >> /\ SubSeq(bufs, k, k - 1) = << >>
    BY <1>1, SubSeqEmpty
  <2>2. SubSeq(bufs, k, k) = << >> \o << bufs[k] >>
    BY <1>1, <2>1, SubSeqRecursiveSecond
  <2>3. SubSeq(bufs, k, k) = Append(<< >>, bufs[k])
    BY <1>7, <2>2, EmptySeq, AppendIsConcat
  <2>4. Lines(SubSeq(bufs, k, k)) = << >> \o bufs[k].lines
    BY <1>7, <2>3, EmptySeq, LinesAppend, LinesEmpty
  <2>5. /\ bufs[k].lines \o << >> = bufs[k].lines
        /\ << >> \o bufs[k].lines = bufs[k].lines
    BY <1>7, ConcatLines
  <2>6. Splits(k)
    BY <2>1, <2>4, <2>5, LinesEmpty
  <2> HIDE DEF Splits
  <2> QED
    BY <1>1, <2>6
<1>3. ASSUME NEW m \in S PROVE m + 1 \in S
  <2> SUFFICES ASSUME k + (m + 1) <= Len(bufs) PROVE Splits(k + (m + 1))
    <3> HIDE DEF Splits
    <3> QED
      OBVIOUS
  <2> DEFINE n == k + m
             a == SubSeq(bufs, k, n)
             b == SubSeq(bufs, k + 1, n)
             x == bufs[n + 1]
  <2>1. /\ n \in Nat /\ n <= Len(bufs)
        /\ k + (m + 1) = n + 1 /\ (n + 1) - 1 = n
        /\ n + 1 \in k .. Len(bufs) /\ n + 1 \in k + 1 .. Len(bufs)
        /\ k + 1 \in 1 .. Len(bufs)
    BY <1>1
  <2>2. Splits(n)
    BY <2>1
  <2>3. a \in Seq(Buffers) /\ b \in Seq(Buffers) /\ x \in Buffers
    BY <1>1, <2>1, BuffersPart
  <2> HIDE DEF n
  <2>4. SubSeq(bufs, k, n + 1) = a \o << x >>
    BY <2>1, SubSeqRecursiveSecond
  <2>5. SubSeq(bufs, k + 1, n + 1) = b \o << x >>
    BY <2>1, SubSeqRecursiveSecond
  <2> HIDE DEF a, b, x
  <2>6. a \o << x >> = Append(a, x) /\ b \o << x >> = Append(b, x)
    BY <2>3, AppendIsConcat
  <2>7. /\ Lines(Append(a, x)) = Lines(a) \o x.lines
        /\ Lines(Append(b, x)) = Lines(b) \o x.lines
        /\ Lines(b) \in LineSeqs
    BY <2>3, LinesAppend
  <2>8. Lines(a) = bufs[k].lines \o Lines(b)
    BY <2>2 DEF a, b
  <2>9. x.lines \in LineSeqs
    BY <2>3 DEF Buffers, LineSeqs
  <2>10. (bufs[k].lines \o Lines(b)) \o x.lines = bufs[k].lines \o (Lines(b) \o x.lines)
    BY <1>7, <2>7, <2>9, ConcatThree
  <2>11. Splits(n + 1)
    BY <2>4, <2>5, <2>6, <2>7, <2>8, <2>10
  <2> HIDE DEF Splits
  <2> QED
    BY <2>1, <2>11
<1> HIDE DEF Splits
<1>4. S = Nat
  BY <1>2, <1>3, SetInduction
<1>5. Len(bufs) - k \in Nat /\ k + (Len(bufs) - k) = Len(bufs) /\ Len(bufs) <= Len(bufs)
  BY <1>1
<1>6. Splits(Len(bufs))
  BY <1>4, <1>5
<1> QED
  BY <1>6 DEF Splits

-----------------------------------------------------------------------------
(***************************************************************************)
(* The invariants.                                                         *)
(***************************************************************************)

\* Where the log thread is says what the latch and its index are.
PhaseInv ==
    /\ latch = IF phase \in {"none", "starting"} THEN 1 ELSE 0
    /\ phase = "writing" => next_write \in 1 .. Len(active_buffers) + 1

\* The inductive invariant for BuffersReady.
LogInv == TypeOK /\ SparesReady /\ PhaseInv

LEMMA EmptyIsBuffer == Empty \in Buffers /\ Empty.lines = << >> /\ Empty.length = 0
<1>1. << >> \in Seq(1 .. MaxLines)
  BY EmptySeq
<1> QED
  BY <1>1, AsyncLoggingAssumption DEF Empty, Buffers

LEMMA LogInvInit == Init => LogInv
<1> SUFFICES ASSUME Init PROVE LogInv
  OBVIOUS
<1>1. << >> \in Seq(Buffers) /\ << >> \in Seq(1 .. MaxLines)
  BY EmptySeq
<1>2. TypeOK
  <2>1. /\ running \in BOOLEAN /\ exited \in BOOLEAN
        /\ phase \in Phases
        /\ current \in Buffers
        /\ next \in Buffers \cup {NoBuffer}
        /\ new_current \in Buffers \cup {NoBuffer}
        /\ new_next \in Buffers \cup {NoBuffer}
        /\ buffers \in Seq(Buffers) /\ active_buffers \in Seq(Buffers)
        /\ logged \in Seq(1 .. MaxLines)
    BY <1>1, EmptyIsBuffer, Zenon DEF Init, Phases
  <2>2. /\ latch \in 0 .. 1
        /\ next_write \in Nat
        /\ written_bytes \in Nat
        /\ file_size \in Nat
        /\ appended \in 0 .. MaxLines
    BY AsyncLoggingAssumption DEF Init
  <2> QED
    BY <2>1, <2>2, Zenon DEF TypeOK
<1>3. SparesReady
  BY DEF Init, SparesReady
<1>4. PhaseInv
  BY DEF Init, PhaseInv
<1> QED
  BY <1>2, <1>3, <1>4 DEF LogInv

\* What AppendLine does to the buffers: it fills the current one, or it queues that one
\* and fills an empty one.
LEMMA AppendLineStep ==
    ASSUME LogInv, NEW len \in Lens, AppendLine(len)
    PROVE  LogInv'
<1>1. /\ current \in Buffers /\ Empty \in Buffers
      /\ len \in 1 .. BufferSize - 1
      /\ BufferSize \in Nat
      /\ appended \in Nat /\ appended < MaxLines /\ MaxLines \in Nat
  BY EmptyIsBuffer, AsyncLoggingAssumption DEF LogInv, TypeOK, AppendLine
<1>2. Target(len) \in Buffers
  BY <1>1 DEF Target, LogInv, SparesReady
<1>3. ASSUME GetSpace(Target(len)) > len
      PROVE  With(Target(len), appended + 1, len) \in Buffers
  <2>1. /\ Target(len).lines \in Seq(1 .. MaxLines)
        /\ Target(len).length \in 0 .. BufferSize - 1
    BY <1>2 DEF Buffers
  <2>2. Append(Target(len).lines, appended + 1) \in Seq(1 .. MaxLines)
    BY <1>1, <2>1, AppendProperties
  <2>3. Target(len).length + len \in 0 .. BufferSize - 1
    BY <1>1, <1>3, <2>1 DEF GetSpace
  <2> QED
    BY <2>2, <2>3 DEF With, Buffers
<1>4. current' \in Buffers
  BY <1>2, <1>3 DEF AppendLine
<1>5. buffers' \in Seq(Buffers)
  BY <1>1, AppendProperties DEF AppendLine, LogInv, TypeOK
<1>6. appended' \in 0 .. MaxLines
  BY <1>1 DEF AppendLine, LogInv, TypeOK
<1>9. exited' \in BOOLEAN
  BY DEF AppendLine, LogInv, TypeOK
<1>7. next' \in {next, NoBuffer}
  BY DEF AppendLine
<1>8. TypeOK'
  BY <1>4, <1>5, <1>6, <1>7, <1>9 DEF AppendLine, LogInv, TypeOK, back
<1> QED
  BY <1>7, <1>8 DEF AppendLine, LogInv, SparesReady, PhaseInv, back

LEMMA SwapStep ==
    ASSUME LogInv, phase \in {"lock", "waiting"}, Swap
    PROVE  LogInv'
<1>1. /\ buffers \in Seq(Buffers) /\ current \in Buffers /\ Empty \in Buffers
      /\ new_current = Empty /\ new_next = Empty /\ active_buffers = << >>
  BY EmptyIsBuffer DEF LogInv, TypeOK, SparesReady
<1>2. Pushed \in Seq(Buffers) /\ Len(Pushed) \in Nat
  BY <1>1, AppendProperties, LenProperties DEF Pushed
<1>3. TypeOK'
  BY <1>1, <1>2 DEF Swap, LogInv, TypeOK, Phases
<1>4. SparesReady'
  BY <1>1 DEF Swap, LogInv, SparesReady
<1>5. PhaseInv'
  BY <1>2 DEF Swap, LogInv, PhaseInv
<1> QED
  BY <1>3, <1>4, <1>5 DEF LogInv

LEMMA WriteBufferStep ==
    ASSUME LogInv, WriteBuffer
    PROVE  LogInv'
<1> DEFINE buffer == active_buffers[next_write]
<1>1. /\ active_buffers \in Seq(Buffers)
      /\ next_write \in 1 .. Len(active_buffers)
      /\ Len(active_buffers) \in Nat
      /\ buffer \in Buffers
      /\ logged \in Seq(1 .. MaxLines)
      /\ written_bytes \in Nat /\ file_size \in Nat
      /\ BufferSize \in Nat
  BY LenProperties, ElementOfSeq, AsyncLoggingAssumption
     DEF LogInv, TypeOK, PhaseInv, WriteBuffer
<1>2. buffer.lines \in Seq(1 .. MaxLines) /\ buffer.length \in Nat
  BY <1>1 DEF Buffers
<1>3. logged' = logged \o buffer.lines
  BY DEF WriteBuffer
<1>4. logged' \in Seq(1 .. MaxLines)
  BY <1>1, <1>2, <1>3, ConcatProperties
<1>5. written_bytes' \in Nat /\ file_size' \in Nat
  <2>1. /\ written_bytes' = (IF MustRoll THEN 0 ELSE written_bytes) + buffer.length
        /\ file_size' = (IF MustRoll /\ ~NamedFile THEN 0 ELSE file_size) + buffer.length
    BY DEF WriteBuffer
  <2> HIDE DEF buffer
  <2> QED
    BY <1>1, <1>2, <2>1, SMTT(30)
<1>6. /\ next_write' = next_write + 1
      /\ UNCHANGED <<front, phase, new_current, new_next, active_buffers>>
  BY DEF WriteBuffer
<1> HIDE DEF buffer
<1>7. TypeOK'
  BY <1>1, <1>4, <1>5, <1>6 DEF LogInv, TypeOK, front
<1>8. SparesReady' /\ PhaseInv'
  BY <1>1, <1>6 DEF LogInv, SparesReady, PhaseInv, front
<1> QED
  BY <1>7, <1>8 DEF LogInv

LEMMA RecycleStep ==
    ASSUME LogInv, Recycle
    PROVE  LogInv'
<1>1. /\ new_current' = Empty
      /\ new_next' \in {new_next, Empty}
      /\ new_next' # NoBuffer
      /\ active_buffers' = << >>
      /\ phase' = "test"
      /\ UNCHANGED <<front, next_write, written_bytes, file_size, logged>>
  BY AsyncLoggingAssumption DEF Recycle, Clear
<1>2. << >> \in Seq(Buffers)
  BY EmptySeq
<1>3. TypeOK'
  BY <1>1, <1>2, EmptyIsBuffer DEF LogInv, TypeOK, Phases, front
<1>4. SparesReady'
  BY <1>1, AsyncLoggingAssumption DEF LogInv, SparesReady, front
<1>5. PhaseInv'
  BY <1>1 DEF LogInv, PhaseInv, front, Recycle
<1> QED
  BY <1>3, <1>4, <1>5 DEF LogInv

LEMMA LogInvNext ==
    ASSUME LogInv, [Next]_vars
    PROVE  LogInv'
<1> USE DEF LogInv
<1>1. CASE Start
  BY <1>1 DEF Start, TypeOK, SparesReady, PhaseInv, Phases
<1>2. CASE Stop
  BY <1>2 DEF Stop, TypeOK, SparesReady, PhaseInv, back
<1>3. ASSUME NEW len \in Lens, AppendLine(len)
      PROVE  LogInv'
  BY <1>3, AppendLineStep
<1>4. CASE ThreadFunc
  BY <1>4, EmptyIsBuffer, AsyncLoggingAssumption
     DEF ThreadFunc, TypeOK, SparesReady, PhaseInv, Phases
<1>5. CASE TestRunning
  BY <1>5 DEF TestRunning, TypeOK, SparesReady, PhaseInv, Phases, front
<1>6. CASE SwapAtOnce
  BY <1>6, SwapStep DEF SwapAtOnce
<1>7. CASE WaitUntil
  BY <1>7 DEF WaitUntil, TypeOK, SparesReady, PhaseInv, Phases, front
<1>8. CASE SwapAfterTimeout
  BY <1>8, SwapStep DEF SwapAfterTimeout
<1>9. CASE WriteBuffer
  BY <1>9, WriteBufferStep
<1>10. CASE Recycle
  BY <1>10, RecycleStep
<1>11. CASE UNCHANGED vars
  BY <1>11 DEF vars, front, back, TypeOK, SparesReady, PhaseInv
<1> QED
  BY <1>1, <1>2, <1>3, <1>4, <1>5, <1>6, <1>7, <1>8, <1>9, <1>10, <1>11
     DEF Next, LogThread

LEMMA LogInvariant == Spec => []LogInv
  BY LogInvInit, LogInvNext, PTL DEF Spec

\* Every variable keeps its type; in particular no buffer holds more bytes than
\* FIXEDBUFFERSIZE and current_buffer_, which Append dereferences, is never null.
THEOREM TypeCorrect == Spec => []TypeOK
<1>1. LogInv => TypeOK
  BY DEF LogInv
<1> QED
  BY <1>1, LogInvariant, PTL

\* Append always finds an empty buffer to rotate to, and the log thread one to put in
\* place of current_buffer_; a line fits into the buffer Append chooses for it unless
\* it is exactly as long as the space left (AsyncLogging::Append, ThreadFunc).
THEOREM AppendFindsRoom == Spec => []BuffersReady
<1>1. LogInv => BuffersReady
  <2> SUFFICES ASSUME LogInv, NEW len \in Lens, len # GetSpace(current)
               PROVE  GetSpace(Target(len)) > len
    BY DEF BuffersReady, RoomUnlessExactFit, LogInv
  <2>1. /\ len \in 1 .. BufferSize - 1
        /\ BufferSize \in Nat
    BY AsyncLoggingAssumption
  <2>2. current.length \in 0 .. BufferSize - 1
    BY DEF LogInv, TypeOK, Buffers
  <2>3. CASE Rotates(len)
    <3>1. Target(len) = Empty
      BY <2>3 DEF Target, LogInv, SparesReady
    <3> QED
      BY <2>1, <3>1, EmptyIsBuffer DEF GetSpace
  <2>4. CASE ~Rotates(len)
    BY <2>1, <2>2, <2>4 DEF Rotates, Target, GetSpace
  <2> QED
    BY <2>3, <2>4
<1> QED
  BY <1>1, LogInvariant, PTL

-----------------------------------------------------------------------------
(***************************************************************************)
(* The size of the file.                                                   *)
(***************************************************************************)

\* The file holds what the LogFile has counted, and that was below FILEMAXIMUMSIZE
\* before the last buffer.
FileInv == file_size = written_bytes /\ FileBounded

\* When each roll opens a file of its own, no file outgrows FILEMAXIMUMSIZE by a full
\* buffer, however long a buffer took to be written and whatever its lines were
\* (AsyncLogging::ThreadFunc, LogFile).
THEOREM FileStaysBounded == ASSUME ~NamedFile PROVE Spec => []FileBounded
<1>1. Init => FileInv
  BY AsyncLoggingAssumption DEF Init, FileInv, FileBounded
<1>2. ASSUME LogInv, FileInv, [Next]_vars PROVE FileInv'
  <2>1. CASE WriteBuffer
    <3>1. active_buffers[next_write] \in Buffers
      BY <1>2, <2>1, LenProperties, ElementOfSeq DEF LogInv, TypeOK, PhaseInv, WriteBuffer
    <3>2. active_buffers[next_write].length \in 0 .. BufferSize - 1
      BY <3>1 DEF Buffers
    <3>3. /\ written_bytes' = (IF MustRoll THEN 0 ELSE written_bytes)
                                  + active_buffers[next_write].length
          /\ file_size' = written_bytes'
      BY <2>1, <1>2 DEF WriteBuffer, FileInv
    <3>4. /\ written_bytes \in Nat
          /\ BufferSize \in Nat \ {0}
          /\ FileMaximum \in Nat \ {0}
      BY <1>2, AsyncLoggingAssumption DEF LogInv, TypeOK
    <3> QED
      BY <3>2, <3>3, <3>4 DEF MustRoll, FileInv, FileBounded
  <2>2. CASE ~WriteBuffer
    <3>1. UNCHANGED <<file_size, written_bytes>>
      BY <1>2, <2>2 DEF Next, Start, Stop, AppendLine, LogThread, ThreadFunc, TestRunning,
         SwapAtOnce, WaitUntil, SwapAfterTimeout, Swap, Recycle, vars, back
    <3> QED
      BY <1>2, <3>1 DEF FileInv, FileBounded
  <2> QED
    BY <2>1, <2>2
<1>3. FileInv => FileBounded
  BY DEF FileInv
<1> QED
  BY <1>1, <1>2, <1>3, LogInvariant, PTL DEF Spec

-----------------------------------------------------------------------------
(***************************************************************************)
(* The lines.                                                              *)
(***************************************************************************)

\* The right-hand side of LinesInOrder.
UpTo(n) == [i \in 1 .. n |-> i]

LEMMA UpToNext ==
    ASSUME NEW n \in Nat
    PROVE  UpTo(n) \in Seq(Nat) /\ UpTo(n + 1) = Append(UpTo(n), n + 1)
<1>1. ASSUME NEW m \in Nat PROVE UpTo(m) \in Seq(Nat) /\ Len(UpTo(m)) = m
  <2>1. UpTo(m) \in [1 .. m -> Nat]
    BY DEF UpTo
  <2>2. UpTo(m) \in Seq(Nat)
    BY <2>1, SeqDef
  <2>3. /\ Len(UpTo(m)) \in Nat
        /\ 1 .. Len(UpTo(m)) = 1 .. m
    BY <2>2, LenProperties DEF UpTo
  <2> QED
    BY <2>2, <2>3
<1> DEFINE a == UpTo(n)
           b == UpTo(n + 1)
<1>2. /\ a \in Seq(Nat) /\ Len(a) = n
      /\ b \in Seq(Nat) /\ Len(b) = n + 1
      /\ \A i \in 1 .. n : a[i] = i
      /\ \A i \in 1 .. n + 1 : b[i] = i
  BY <1>1 DEF UpTo
<1> HIDE DEF a, b
<1>3. /\ Append(a, n + 1) \in Seq(Nat)
      /\ Len(Append(a, n + 1)) = n + 1
      /\ \A i \in 1 .. n : Append(a, n + 1)[i] = a[i]
      /\ Append(a, n + 1)[n + 1] = n + 1
  BY <1>2, AppendProperties
<1>4. \A i \in 1 .. n + 1 : b[i] = Append(a, n + 1)[i]
  BY <1>2, <1>3
<1>5. b = Append(a, n + 1)
  BY <1>2, <1>3, <1>4, SeqEqual
<1> QED
  BY <1>2, <1>5 DEF a, b

LEMMA AllLinesType ==
    ASSUME LogInv
    PROVE  /\ logged \in LineSeqs
           /\ Unwritten \in Seq(Buffers)
           /\ Lines(Unwritten) \in LineSeqs
           /\ Lines(buffers) \in LineSeqs
           /\ current.lines \in LineSeqs
           /\ logged \o Lines(Unwritten) \in LineSeqs
           /\ logged \o Lines(Unwritten) \o Lines(buffers) \in LineSeqs
<1>1. /\ logged \in LineSeqs /\ buffers \in Seq(Buffers)
      /\ current \in Buffers
  BY DEF LogInv, TypeOK, LineSeqs
<1>2. Unwritten \in Seq(Buffers)
  <2>1. CASE phase = "writing"
    <3>1. /\ active_buffers \in Seq(Buffers)
          /\ next_write \in Nat \ {0}
          /\ Len(active_buffers) \in Nat /\ Len(active_buffers) <= Len(active_buffers)
      BY <2>1, LenProperties DEF LogInv, TypeOK, PhaseInv
    <3> QED
      BY <2>1, <3>1, BuffersPart DEF Unwritten
  <2>2. CASE phase # "writing"
    BY <2>2, EmptySeq DEF Unwritten
  <2> QED
    BY <2>1, <2>2
<1>3. /\ Lines(Unwritten) \in LineSeqs
      /\ Lines(buffers) \in LineSeqs
  BY <1>1, <1>2, LinesAppend
<1>4. current.lines \in LineSeqs
  BY <1>1 DEF Buffers, LineSeqs
<1> QED
  BY <1>1, <1>2, <1>3, <1>4, ConcatLines

LEMMA AppendLineKeepsOrder ==
    ASSUME LogInv, LinesInOrder, NEW len \in Lens, AppendLine(len)
    PROVE  LinesInOrder'
<1> DEFINE x == logged \o Lines(Unwritten) \o Lines(buffers)
           c == current.lines
           rest == IF Rotates(len) THEN << >> ELSE c
           before == IF Rotates(len) THEN x \o c ELSE x
           n == appended + 1
<1>1. /\ x \in LineSeqs /\ c \in LineSeqs
      /\ n \in 1 .. MaxLines /\ appended \in Nat
      /\ << >> \in LineSeqs
  BY AllLinesType, ConcatLines, AsyncLoggingAssumption DEF LogInv, TypeOK, AppendLine
<1>2. before \in LineSeqs /\ rest \in LineSeqs /\ before \o rest = x \o c
  <2> HIDE DEF x, c
  <2> QED
    BY <1>1, ConcatLines
<1>3. /\ x \o c = UpTo(appended)
  BY DEF LinesInOrder, UpTo
<1>4. Target(len).lines = rest
  BY EmptyIsBuffer DEF Target, LogInv, SparesReady
<1>5. logged' = logged /\ Unwritten' = Unwritten
  BY DEF AppendLine, back, Unwritten
<1>6. logged' \o Lines(Unwritten)' \o Lines(buffers)' = before
  <2>1. CASE Rotates(len)
    <3>1. Lines(buffers)' = Lines(buffers) \o c
      BY <2>1, LinesAppend DEF AppendLine, LogInv, TypeOK
    <3>2. (logged \o Lines(Unwritten)) \o (Lines(buffers) \o c)
             = ((logged \o Lines(Unwritten)) \o Lines(buffers)) \o c
      BY AllLinesType, ConcatThree, ZenonT(60)
    <3> QED
      BY <1>5, <2>1, <3>1, <3>2
  <2>2. CASE ~Rotates(len)
    BY <1>5, <2>2 DEF AppendLine
  <2> QED
    BY <2>1, <2>2
<1>7. CASE GetSpace(Target(len)) > len
  <2>1. current'.lines = Append(rest, n) /\ appended' = n
    BY <1>4, <1>7 DEF AppendLine, With
  <2> HIDE DEF before, rest, x, c
  <2>2. Append(rest, n) = rest \o << n >> /\ << n >> \in LineSeqs
    BY <1>1, <1>2, AppendIsConcat DEF LineSeqs
  <2>3. before \o (rest \o << n >>) = (before \o rest) \o << n >>
    BY <1>2, <2>2, ConcatThree
  <2>4. (x \o c) \o << n >> = Append(x \o c, n)
    BY <1>1, ConcatLines, AppendIsConcat DEF LineSeqs
  <2>5. Append(UpTo(appended), n) = UpTo(n)
    BY <1>1, UpToNext
  <2>6. before \o current'.lines = UpTo(n)
    BY <1>2, <1>3, <2>1, <2>2, <2>3, <2>4, <2>5
  <2> QED
    BY <1>6, <2>1, <2>6 DEF LinesInOrder, UpTo
<1>8. CASE ~(GetSpace(Target(len)) > len)
  <2>1. current'.lines = rest /\ appended' = appended
    BY <1>4, <1>8 DEF AppendLine
  <2> HIDE DEF before, rest, x, c
  <2> QED
    BY <1>2, <1>3, <1>6, <2>1 DEF LinesInOrder, UpTo
<1> QED
  BY <1>7, <1>8

LEMMA SwapKeepsOrder ==
    ASSUME LogInv, LinesInOrder, phase \in {"lock", "waiting"}, Swap
    PROVE  LinesInOrder'
<1>1. /\ active_buffers' = Pushed /\ buffers' = << >> /\ current' = Empty
      /\ next_write' = 1 /\ phase' = "writing"
      /\ UNCHANGED <<logged, appended>>
      /\ Unwritten = << >>
  BY DEF Swap, LogInv, SparesReady, Unwritten
<1>2. buffers \in Seq(Buffers) /\ current \in Buffers
  BY DEF LogInv, TypeOK
<1>3. Pushed \in Seq(Buffers) /\ Pushed = Append(buffers, current)
  BY <1>2, AppendProperties DEF Pushed
<1>4. Unwritten' = Pushed
  BY <1>1, <1>3, SubSeqFull DEF Unwritten
<1>5. Lines(Unwritten)' = Lines(buffers) \o current.lines
  BY <1>2, <1>3, <1>4, LinesAppend
<1>6. /\ Lines(buffers)' = << >> /\ current'.lines = << >>
      /\ Lines(Unwritten) = << >>
  BY <1>1, LinesEmpty, EmptyIsBuffer
<1> DEFINE b == Lines(buffers)
           c == current.lines
<1>7. /\ logged \in LineSeqs /\ b \in LineSeqs /\ c \in LineSeqs
      /\ logged \o << >> = logged
      /\ b \o c \in LineSeqs
  BY AllLinesType, ConcatLines
<1>8. logged \o b \o c = [i \in 1 .. appended |-> i]
  BY <1>6, <1>7 DEF LinesInOrder
<1>9. logged' \o Lines(Unwritten)' \o Lines(buffers)' \o current'.lines
         = ((logged \o (b \o c)) \o << >>) \o << >>
  BY <1>1, <1>5, <1>6
<1> HIDE DEF b, c
<1>10. /\ logged \o (b \o c) \in LineSeqs
       /\ (logged \o (b \o c)) \o << >> = logged \o (b \o c)
       /\ ((logged \o (b \o c)) \o << >>) \o << >> = logged \o (b \o c)
  BY <1>7, ConcatLines
<1>11. (logged \o b) \o c = logged \o (b \o c)
  BY <1>7, ConcatThree
<1> QED
  BY <1>1, <1>8, <1>9, <1>10, <1>11 DEF LinesInOrder

LEMMA WriteBufferKeepsOrder ==
    ASSUME LogInv, LinesInOrder, WriteBuffer
    PROVE  LinesInOrder'
<1> DEFINE k == next_write
           n == Len(active_buffers)
           x == active_buffers[k].lines
           u == Lines(SubSeq(active_buffers, k + 1, n))
<1>1. /\ active_buffers \in Seq(Buffers) /\ n \in Nat
      /\ k \in 1 .. n
      /\ phase = "writing"
      /\ active_buffers[k] \in Buffers
  BY LenProperties, ElementOfSeq DEF LogInv, TypeOK, PhaseInv, WriteBuffer
<1>2. /\ logged' = logged \o x
      /\ next_write' = k + 1
      /\ UNCHANGED <<phase, active_buffers, buffers, current, appended>>
  BY DEF WriteBuffer, front
<1>3. Lines(Unwritten) = x \o u
  BY <1>1, LinesFirst DEF Unwritten
<1>4. Lines(Unwritten)' = u
  BY <1>1, <1>2 DEF Unwritten
<1>5. /\ x \in LineSeqs /\ logged \in LineSeqs
      /\ u \in LineSeqs
  <2>1. SubSeq(active_buffers, k + 1, n) \in Seq(Buffers)
    BY <1>1, BuffersPart
  <2>2. u \in LineSeqs
    BY <2>1, LinesAppend, EmptyIsBuffer
  <2>3. x \in LineSeqs
    BY <1>1 DEF Buffers, LineSeqs
  <2> QED
    BY <2>2, <2>3, AllLinesType
<1> HIDE DEF x, u, k, n
<1>6. (logged \o x) \o u = logged \o (x \o u)
  BY <1>5, ConcatThree
<1>7. logged' \o Lines(Unwritten)' = logged \o Lines(Unwritten)
  BY <1>2, <1>3, <1>4, <1>6
<1> QED
  BY <1>2, <1>7 DEF LinesInOrder

LEMMA RecycleKeepsOrder ==
    ASSUME LogInv, LinesInOrder, Recycle
    PROVE  LinesInOrder'
<1>1. Unwritten = << >>
  <2>1. /\ phase = "writing"
        /\ next_write \in Int /\ Len(active_buffers) \in Int
        /\ Len(active_buffers) < next_write
    BY LenProperties DEF Recycle, LogInv, TypeOK
  <2> QED
    BY <2>1, SubSeqEmpty DEF Unwritten
<1>2. Unwritten' = << >>
  BY DEF Recycle, Unwritten
<1>3. UNCHANGED <<logged, buffers, current, appended>>
  BY DEF Recycle, front
<1> QED
  BY <1>1, <1>2, <1>3 DEF LinesInOrder

\* No line is lost, duplicated or reordered on its way from Append through the swaps
\* of the buffers to LogFile::Write, whatever the sizes of buffers and lines, whenever
\* the log thread's wait times out and however many threads append
\* (AsyncLogging::Append, ThreadFunc).
THEOREM LinesStayInOrder == Spec => []LinesInOrder
<1>1. Init => LinesInOrder
  <2> SUFFICES ASSUME Init PROVE LinesInOrder
    OBVIOUS
  <2>1. /\ Lines(Unwritten) = << >> /\ Lines(buffers) = << >>
        /\ current.lines = << >> /\ logged = << >> /\ appended = 0
    BY LinesEmpty, EmptyIsBuffer DEF Init, Unwritten
  <2>2. << >> \o << >> = << >>
    BY ConcatLines
  <2>3. [i \in 1 .. 0 |-> i] = << >>
    OBVIOUS
  <2> QED
    BY <2>1, <2>2, <2>3 DEF LinesInOrder
<1>2. ASSUME LogInv, LinesInOrder, [Next]_vars
      PROVE  LinesInOrder'
  <2>1. ASSUME NEW len \in Lens, AppendLine(len)
        PROVE  LinesInOrder'
    BY <1>2, <2>1, AppendLineKeepsOrder
  <2>2. CASE SwapAtOnce \/ SwapAfterTimeout
    BY <1>2, <2>2, SwapKeepsOrder DEF SwapAtOnce, SwapAfterTimeout
  <2>3. CASE WriteBuffer
    BY <1>2, <2>3, WriteBufferKeepsOrder
  <2>4. CASE Recycle
    BY <1>2, <2>4, RecycleKeepsOrder
  <2>5. CASE Start \/ Stop \/ ThreadFunc \/ TestRunning \/ WaitUntil \/ UNCHANGED vars
    <3>1. UNCHANGED <<logged, buffers, current, appended, Unwritten>>
      BY <2>5 DEF Start, Stop, ThreadFunc, TestRunning, WaitUntil, vars, front, back, Unwritten
    <3> QED
      BY <1>2, <3>1 DEF LinesInOrder
  <2> QED
    BY <1>2, <2>1, <2>2, <2>3, <2>4, <2>5 DEF Next, LogThread
<1> QED
  BY <1>1, <1>2, LogInvariant, PTL DEF Spec

-----------------------------------------------------------------------------
(***************************************************************************)
(* Recursive functions on the natural numbers: the equation of one has a   *)
(* solution.                                                               *)
(***************************************************************************)
Follows(f, n, base, h) == f[0] = base /\ \A k \in 1 .. n : f[k] = h[<<k, f[k - 1]>>]

LEMMA FollowsSame ==
    ASSUME NEW f, NEW g, NEW base, NEW h, NEW n \in Nat,
           Follows(f, n, base, h), Follows(g, n, base, h)
    PROVE  \A k \in 0 .. n : f[k] = g[k]
<1> DEFINE S == {k \in Nat : k <= n => f[k] = g[k]}
<1>1. 0 \in S
  BY DEF Follows
<1>2. ASSUME NEW k \in S PROVE k + 1 \in S
  <2>1. SUFFICES ASSUME k + 1 <= n PROVE f[k + 1] = g[k + 1]
    OBVIOUS
  <2>2. k + 1 \in 1 .. n /\ (k + 1) - 1 = k /\ f[k] = g[k]
    BY <2>1
  <2> QED
    BY <2>2 DEF Follows
<1>3. S \in SUBSET Nat
  OBVIOUS
<1> HIDE DEF S
<1>4. S = Nat
  BY <1>1, <1>2, <1>3, SetInduction
<1> QED
  BY <1>4 DEF S

LEMMA NatRecursion ==
    ASSUME NEW T, NEW base \in T, NEW h \in [Nat \X T -> T]
    PROVE  \E f \in [Nat -> T] : \A n \in Nat : Follows(f, n, base, h)
<1> DEFINE Upto(g, n) == g \in [0 .. n -> T] /\ Follows(g, n, base, h)
           S == {n \in Nat : \E g : Upto(g, n)}
           F == [n \in Nat |-> (CHOOSE g : Upto(g, n))[n]]
<1>1. 0 \in S
  <2>1. Upto([k \in 0 .. 0 |-> base], 0)
    BY DEF Follows
  <2> HIDE DEF Upto
  <2> QED
    BY <2>1
<1>2. ASSUME NEW n \in S PROVE n + 1 \in S
  <2>1. n \in Nat
    OBVIOUS
  <2>2. PICK g : Upto(g, n)
    OBVIOUS
  <2> DEFINE e == [k \in 0 .. n + 1 |-> IF k = n + 1 THEN h[<<k, g[n]>>] ELSE g[k]]
  <2>3. e \in [0 .. n + 1 -> T]
    <3>1. n \in 0 .. n /\ g[n] \in T
      BY <2>1, <2>2
    <3>2. h[<<n + 1, g[n]>>] \in T
      BY <2>1, <3>1
    <3> QED
      BY <2>1, <2>2, <3>2
  <2>4. Follows(e, n + 1, base, h)
    <3>1. e[0] = base
      BY <2>1, <2>2 DEF Follows
    <3>2. ASSUME NEW k \in 1 .. n + 1 PROVE e[k] = h[<<k, e[k - 1]>>]
      <4>1. k - 1 \in 0 .. n + 1 /\ k - 1 # n + 1 /\ k \in 0 .. n + 1 /\ e[k - 1] = g[k - 1]
        BY <2>1
      <4>2. CASE k = n + 1
        <5>1. k - 1 = n
          BY <2>1, <4>2
        <5> QED
          BY <4>1, <4>2, <5>1
      <4>3. CASE k # n + 1
        <5>1. k \in 1 .. n
          BY <2>1, <4>3
        <5> QED
          BY <2>2, <4>1, <4>3, <5>1 DEF Follows
      <4> QED
        BY <4>2, <4>3
    <3> QED
      BY <3>1, <3>2 DEF Follows
  <2>5. Upto(e, n + 1)
    BY <2>3, <2>4
  <2> HIDE DEF Upto, e
  <2> QED
    BY <2>1, <2>5
<1>3. S = Nat
  <2>1. S \in SUBSET Nat
    OBVIOUS
  <2> HIDE DEF S
  <2> QED
    BY <1>1, <1>2, <2>1, SetInduction
<1>4. ASSUME NEW n \in Nat
      PROVE  Upto(CHOOSE g : Upto(g, n), n)
  <2>1. \E g : Upto(g, n)
    BY <1>3
  <2> HIDE DEF Upto
  <2> QED
    BY <2>1
<1>5. ASSUME NEW n \in Nat, NEW k \in 0 .. n
      PROVE  F[k] = (CHOOSE g : Upto(g, n))[k]
  <2> DEFINE a == CHOOSE g : Upto(g, n)
             c == CHOOSE g : Upto(g, k)
  <2>1. Upto(a, n) /\ Upto(c, k) /\ k \in Nat
    <3>1. k \in Nat
      OBVIOUS
    <3> HIDE DEF Upto
    <3> QED
      BY <1>4, <3>1
  <2> HIDE DEF a, c
  <2>2. Follows(a, k, base, h) /\ Follows(c, k, base, h)
    <3>1. \A i \in 1 .. k : i \in 1 .. n
      BY <2>1
    <3> QED
      BY <2>1, <3>1 DEF Follows
  <2>3. a[k] = c[k]
    <3>1. k \in 0 .. k
      BY <2>1
    <3> QED
      BY <2>1, <2>2, <3>1, FollowsSame
  <2> QED
    BY <2>1, <2>3 DEF a, c
<1>6. F \in [Nat -> T]
  <2>1. ASSUME NEW n \in Nat PROVE (CHOOSE g : Upto(g, n))[n] \in T
    BY <1>4
  <2> HIDE DEF Upto
  <2> QED
    BY <2>1
<1>7. ASSUME NEW n \in Nat PROVE Follows(F, n, base, h)
  <2> DEFINE a == CHOOSE g : Upto(g, n)
  <2>1. Upto(a, n)
    BY <1>4
  <2>2. \A k \in 0 .. n : F[k] = a[k]
    BY <1>5
  <2>3. 0 \in 0 .. n /\ \A k \in 1 .. n : k \in 0 .. n /\ k - 1 \in 0 .. n
    OBVIOUS
  <2> HIDE DEF a, F
  <2> QED
    BY <2>1, <2>2, <2>3 DEF Follows
<1> HIDE DEF F
<1> QED
  BY <1>6, <1>7

-----------------------------------------------------------------------------
(***************************************************************************)
(* Integers as characters: Ten, Digits and Value satisfy their equations.  *)
(***************************************************************************)
LEMMA TenIs ==
    /\ Stream!Ten \in [Nat -> Nat]
    /\ Stream!Ten[0] = 1
    /\ \A k \in Nat : Stream!Ten[k + 1] = 10 * Stream!Ten[k]
<1> DEFINE h == [q \in Nat \X Nat |-> 10 * q[2]]
           Solves(f) == f = [k \in Nat |-> IF k = 0 THEN 1 ELSE 10 * f[k - 1]]
<1>1. h \in [Nat \X Nat -> Nat]
  OBVIOUS
<1>2. \A k \in Nat : \A x \in Nat : h[<<k, x>>] = 10 * x
  OBVIOUS
<1> HIDE DEF h
<1>3. PICK f \in [Nat -> Nat] : \A n \in Nat : Follows(f, n, 1, h)
  BY <1>1, NatRecursion
<1>4. f[0] = 1
  BY <1>3 DEF Follows
<1>5. ASSUME NEW k \in Nat, k # 0 PROVE f[k] = 10 * f[k - 1]
  <2>1. k \in 1 .. k /\ k - 1 \in Nat /\ f[k - 1] \in Nat
    BY <1>5
  <2> QED
    BY <1>2, <1>3, <2>1 DEF Follows
<1>6. Solves(f)
  <2>1. f = [k \in Nat |-> f[k]]
    OBVIOUS
  <2> QED
    BY <1>4, <1>5, <2>1
<1>7. Solves(Stream!Ten)
  <2>1. \E g : Solves(g)
    BY <1>6
  <2>2. Stream!Ten = CHOOSE g : Solves(g)
    BY DEF Stream!Ten
  <2> HIDE DEF Solves
  <2> QED
    BY <2>1, <2>2
<1> DEFINE t == Stream!Ten
<1>8. t = [k \in Nat |-> IF k = 0 THEN 1 ELSE 10 * t[k - 1]]
  BY <1>7
<1> HIDE DEF t, Solves
<1>9. t[0] = 1
  BY <1>8
<1>10. ASSUME NEW k \in Nat PROVE t[k + 1] = 10 * t[k]
  <2>1. k + 1 \in Nat /\ k + 1 # 0 /\ (k + 1) - 1 = k
    OBVIOUS
  <2> QED
    BY <1>8, <2>1
<1>11. \A k \in Nat : t[k] \in Nat
  <2> DEFINE S == {k \in Nat : t[k] \in Nat}
  <2>1. 0 \in S /\ \A k \in S : k + 1 \in S
    BY <1>9, <1>10
  <2>2. S \in SUBSET Nat
    OBVIOUS
  <2> HIDE DEF S
  <2>3. S = Nat
    BY <2>1, <2>2, SetInduction
  <2> QED
    BY <2>3 DEF S
<1>12. t \in [Nat -> Nat]
  <2>1. t = [k \in Nat |-> t[k]]
    BY <1>8
  <2> QED
    BY <1>11, <2>1
<1> QED
  BY <1>9, <1>10, <1>12 DEF t

LEMMA QuotIs ==
    ASSUME NEW v \in Int
    PROVE  /\ Stream!Quot(v) \in Int /\ Stream!Rem(v) \in Int
           /\ v = 10 * Stream!Quot(v) + Stream!Rem(v)
           /\ v >= 0 => Stream!Quot(v) >= 0 /\ Stream!Rem(v) \in 0 .. 9
           /\ v <= 0 => Stream!Quot(v) <= 0
           /\ v # 0 => \/ v > 0 /\ Stream!Quot(v) < v
                       \/ v < 0 /\ Stream!Quot(v) > v
BY DEF Stream!Quot, Stream!Rem

Absolute(v) == IF v >= 0 THEN v ELSE -v

LEMMA QuotIsSmaller ==
    ASSUME NEW v \in Int
    PROVE  /\ Absolute(v) \in Nat
           /\ v # 0 => Absolute(Stream!Quot(v)) < Absolute(v)
           /\ \A n \in Nat : Absolute(v) < 10 * n => Absolute(Stream!Quot(v)) < n
           /\ Absolute(v) < 10 => Stream!Quot(v) = 0
<1>1. Absolute(v) \in Nat
  BY DEF Absolute
<1>2. v # 0 => Absolute(Stream!Quot(v)) < Absolute(v)
  BY DEF Absolute, Stream!Quot
<1>3. Absolute(Stream!Quot(v)) = Absolute(v) \div 10
  BY DEF Absolute, Stream!Quot
<1> QED
  BY <1>1, <1>2, <1>3 DEF Absolute, Stream!Quot

\* Depth k: the characters of the last k digits, most of them at most.
LEMMA DigitsIs ==
    \A v \in Int :
        /\ Stream!Digits[v] \in Seq(Int)
        /\ Stream!Digits[v] = <<48 + Stream!Rem(v)>>
                \o (IF Stream!Quot(v) = 0 THEN <<>> ELSE Stream!Digits[Stream!Quot(v)])
<1> DEFINE T == [Int -> Seq(Int)]
           More(g) == [v \in Int |-> <<48 + Stream!Rem(v)>>
                          \o (IF Stream!Quot(v) = 0 THEN <<>> ELSE g[Stream!Quot(v)])]
           h == [q \in Nat \X T |-> More(q[2])]
           base == [v \in Int |-> <<>>]
           Solves(f) == f = [v \in Int |-> <<48 + Stream!Rem(v)>>
                                \o (IF Stream!Quot(v) = 0 THEN <<>> ELSE f[Stream!Quot(v)])]
<1>1. base \in T
  <2>1. <<>> \in Seq(Int)
    BY EmptySeq
  <2> QED
    BY <2>1
<1>2. ASSUME NEW g \in T PROVE More(g) \in T
  <2>1. ASSUME NEW v \in Int
        PROVE  <<48 + Stream!Rem(v)>>
                  \o (IF Stream!Quot(v) = 0 THEN <<>> ELSE g[Stream!Quot(v)]) \in Seq(Int)
    <3> DEFINE rest == IF Stream!Quot(v) = 0 THEN <<>> ELSE g[Stream!Quot(v)]
    <3>1. rest \in Seq(Int)
      BY QuotIs, EmptySeq
    <3>2. <<48 + Stream!Rem(v)>> \in Seq(Int)
      BY QuotIs
    <3> HIDE DEF rest
    <3>3. <<48 + Stream!Rem(v)>> \o rest \in Seq(Int)
      BY <3>1, <3>2, ConcatProperties
    <3> QED
      BY <3>3 DEF rest
  <2> QED
    BY <2>1
<1>3. h \in [Nat \X T -> T] /\ \A k \in Nat : \A g \in T : h[<<k, g>>] = More(g)
  <2> HIDE DEF More, T
  <2> QED
    BY <1>2
<1> HIDE DEF h
<1>4. PICK H \in [Nat -> T] : \A n \in Nat : Follows(H, n, base, h)
  <2> HIDE DEF T, base
  <2> QED
    BY <1>1, <1>3, NatRecursion
<1>5. \A k \in Nat : H[k] \in T /\ H[k + 1] = More(H[k])
  <2> TAKE k \in Nat
  <2>1. k + 1 \in 1 .. k + 1 /\ (k + 1) - 1 = k /\ k + 1 \in Nat
    OBVIOUS
  <2>2. H[k] \in T /\ H[k + 1] = h[<<k + 1, H[k]>>]
    <3> HIDE DEF T, base
    <3> QED
      BY <1>4, <2>1 DEF Follows
  <2> HIDE DEF T, More
  <2> QED
    BY <1>3, <2>1, <2>2
<1>6. ASSUME NEW k \in Nat, NEW v \in Int
      PROVE  H[k + 1][v] = <<48 + Stream!Rem(v)>>
                \o (IF Stream!Quot(v) = 0 THEN <<>> ELSE H[k][Stream!Quot(v)])
  BY <1>5, ZenonT(60)
<1> HIDE DEF T, More, base
<1>7. \A k \in Nat : \A v \in Int : Absolute(v) < k => H[k + 1][v] = H[k][v]
  <2> DEFINE S == {k \in Nat : \A v \in Int : Absolute(v) < k => H[k + 1][v] = H[k][v]}
  <2>1. 0 \in S
    BY QuotIsSmaller
  <2>2. ASSUME NEW k \in S PROVE k + 1 \in S
    <3>1. SUFFICES ASSUME NEW v \in Int, Absolute(v) < k + 1
                   PROVE  H[(k + 1) + 1][v] = H[k + 1][v]
      OBVIOUS
    <3>4. /\ H[(k + 1) + 1][v] = <<48 + Stream!Rem(v)>>
                \o (IF Stream!Quot(v) = 0 THEN <<>> ELSE H[k + 1][Stream!Quot(v)])
          /\ H[k + 1][v] = <<48 + Stream!Rem(v)>>
                \o (IF Stream!Quot(v) = 0 THEN <<>> ELSE H[k][Stream!Quot(v)])
      <4>1. k + 1 \in Nat
        OBVIOUS
      <4> QED
        BY <1>6, <4>1
    <3>2. CASE Stream!Quot(v) = 0
      BY <3>2, <3>4
    <3>3. CASE Stream!Quot(v) # 0
      <4>1. Stream!Quot(v) \in Int /\ Absolute(Stream!Quot(v)) < k
        <5>1. v # 0
          BY <3>3 DEF Stream!Quot
        <5>2. Stream!Quot(v) \in Int /\ Absolute(Stream!Quot(v)) \in Nat
          BY QuotIs, QuotIsSmaller
        <5> QED
          BY <3>1, <5>1, <5>2, QuotIsSmaller
      <4>2. H[k + 1][Stream!Quot(v)] = H[k][Stream!Quot(v)]
        BY <4>1
      <4> QED
        BY <3>3, <3>4, <4>2
    <3> QED
      BY <3>2, <3>3
  <2>3. S \in SUBSET Nat
    OBVIOUS
  <2> HIDE DEF S
  <2>4. S = Nat
    BY <2>1, <2>2, <2>3, SetInduction
  <2> QED
    BY <2>4 DEF S
<1>8. ASSUME NEW v \in Int, NEW k \in Nat, NEW d \in Nat, Absolute(v) < k
      PROVE  H[k + d][v] = H[k][v]
  <2> DEFINE S == {e \in Nat : H[k + e][v] = H[k][v]}
  <2>1. 0 \in S
    OBVIOUS
  <2>2. ASSUME NEW e \in S PROVE e + 1 \in S
    <3>1. k + e \in Nat /\ Absolute(v) < k + e /\ (k + e) + 1 = k + (e + 1)
      BY <1>8, QuotIsSmaller
    <3>2. H[(k + e) + 1][v] = H[k + e][v]
      BY <1>7, <3>1
    <3> QED
      BY <3>1, <3>2
  <2>3. S \in SUBSET Nat
    OBVIOUS
  <2> HIDE DEF S
  <2>4. S = Nat
    BY <2>1, <2>2, <2>3, SetInduction
  <2> QED
    BY <2>4 DEF S
<1> DEFINE F == [v \in Int |-> H[Absolute(v) + 1][v]]
<1>9. ASSUME NEW v \in Int
      PROVE  F[v] = <<48 + Stream!Rem(v)>>
                       \o (IF Stream!Quot(v) = 0 THEN <<>> ELSE F[Stream!Quot(v)])
  <2> DEFINE q == Stream!Quot(v)
             n == Absolute(v)
  <2>1. n \in Nat /\ q \in Int /\ Absolute(q) \in Nat
    BY QuotIs, QuotIsSmaller
  <2>2. F[v] = <<48 + Stream!Rem(v)>> \o (IF q = 0 THEN <<>> ELSE H[n][q])
    BY <1>6, <2>1
  <2>3. CASE q = 0
    BY <2>2, <2>3
  <2>4. CASE q # 0
    <3>1. v # 0
      BY <2>4 DEF Stream!Quot
    <3>2. Absolute(q) < n
      BY <3>1, QuotIsSmaller
    <3> HIDE DEF q, n
    <3>3. Absolute(q) + 1 \in Nat /\ n - (Absolute(q) + 1) \in Nat
          /\ Absolute(q) < Absolute(q) + 1
          /\ (Absolute(q) + 1) + (n - (Absolute(q) + 1)) = n
      BY <2>1, <3>2
    <3>4. H[n][q] = H[Absolute(q) + 1][q]
      <4> DEFINE d == n - (Absolute(q) + 1)
      <4> HIDE DEF d
      <4>1. d \in Nat /\ (Absolute(q) + 1) + d = n
        BY <3>3 DEF d
      <4>2. H[(Absolute(q) + 1) + d][q] = H[Absolute(q) + 1][q]
        BY <1>8, <2>1, <3>3, <4>1
      <4> QED
        BY <4>1, <4>2
    <3>5. F[q] = H[n][q]
      BY <2>1, <3>4
    <3> HIDE DEF F
    <3> QED
      BY <2>2, <2>4, <3>5 DEF q
  <2> QED
    BY <2>3, <2>4
<1>10. F = [v \in Int |-> F[v]]
  OBVIOUS
<1>11. \A v \in Int : F[v] \in Seq(Int)
  <2> TAKE v \in Int
  <2>1. Absolute(v) + 1 \in Nat
    BY QuotIsSmaller
  <2>2. H[Absolute(v) + 1] \in [Int -> Seq(Int)]
    BY <1>5, <2>1 DEF T
  <2> QED
    BY <2>2
<1> HIDE DEF F
<1>12. Solves(F)
  BY <1>9, <1>10
<1>13. Solves(Stream!Digits)
  <2>1. \E f : Solves(f)
    BY <1>12
  <2>2. Stream!Digits = CHOOSE f : Solves(f)
    BY DEF Stream!Digits
  <2> HIDE DEF Solves
  <2> QED
    BY <2>1, <2>2
<1> DEFINE D == Stream!Digits
<1>14. \A v \in Int : D[v] = <<48 + Stream!Rem(v)>>
                \o (IF Stream!Quot(v) = 0 THEN <<>> ELSE D[Stream!Quot(v)])
  <2>1. D = [v \in Int |-> <<48 + Stream!Rem(v)>>
                \o (IF Stream!Quot(v) = 0 THEN <<>> ELSE D[Stream!Quot(v)])]
    BY <1>13
  <2> HIDE DEF D
  <2> QED
    BY <2>1
<1>15. \A n \in Nat : \A v \in Int : Absolute(v) <= n => D[v] = F[v]
  <2> HIDE DEF D
  <2> DEFINE S == {n \in Nat : \A v \in Int : Absolute(v) <= n => D[v] = F[v]}
  <2>1. 0 \in S
    <3>1. SUFFICES ASSUME NEW v \in Int, Absolute(v) <= 0 PROVE D[v] = F[v]
      OBVIOUS
    <3>2. Stream!Quot(v) = 0
      BY <3>1, QuotIsSmaller
    <3> QED
      BY <1>9, <1>14, <3>2
  <2>2. ASSUME NEW n \in S PROVE n + 1 \in S
    <3>1. SUFFICES ASSUME NEW v \in Int, Absolute(v) <= n + 1 PROVE D[v] = F[v]
      OBVIOUS
    <3>2. CASE Stream!Quot(v) = 0
      BY <1>9, <1>14, <3>2
    <3>3. CASE Stream!Quot(v) # 0
      <4>1. v # 0 /\ Stream!Quot(v) \in Int /\ Absolute(Stream!Quot(v)) \in Nat
        BY <3>3, QuotIs, QuotIsSmaller DEF Stream!Quot
      <4>2. Absolute(Stream!Quot(v)) <= n
        BY <3>1, <4>1, QuotIsSmaller
      <4>3. D[Stream!Quot(v)] = F[Stream!Quot(v)]
        BY <4>1, <4>2
      <4> QED
        BY <1>9, <1>14, <3>3, <4>3
    <3> QED
      BY <3>2, <3>3
  <2>3. S \in SUBSET Nat
    OBVIOUS
  <2> HIDE DEF S
  <2>4. S = Nat
    BY <2>1, <2>2, <2>3, SetInduction
  <2> QED
    BY <2>4 DEF S
<1>16. \A v \in Int : D[v] \in Seq(Int)
  <2> TAKE v \in Int
  <2>1. Absolute(v) \in Nat /\ Absolute(v) <= Absolute(v)
    BY QuotIsSmaller
  <2> HIDE DEF D
  <2> QED
    BY <1>11, <1>15, <2>1
<1> QED
  BY <1>14, <1>16 DEF D

\* How Value adds up a sequence of characters.
Adds(s) == [q \in Nat \X Int |-> IF q[1] \in 1 .. Len(s) THEN 10 * q[2] + (s[q[1]] - 48) ELSE 0]

LEMMA AddsType ==
    ASSUME NEW s \in Seq(Int)
    PROVE  /\ Adds(s) \in [Nat \X Int -> Int]
           /\ \A k \in 1 .. Len(s) : \A x \in Int : Adds(s)[<<k, x>>] = 10 * x + (s[k] - 48)
<1>1. \A k \in 1 .. Len(s) : s[k] \in Int
  BY ElementOfSeq
<1>2. ASSUME NEW q \in Nat \X Int
      PROVE  (IF q[1] \in 1 .. Len(s) THEN 10 * q[2] + (s[q[1]] - 48) ELSE 0) \in Int
  <2>1. q[2] \in Int
    OBVIOUS
  <2>2. CASE q[1] \in 1 .. Len(s)
    <3>1. s[q[1]] \in Int
      BY <1>1, <2>2
    <3> QED
      BY <2>1, <2>2, <3>1
  <2> QED
    BY <2>2
<1>3. ASSUME NEW k \in 1 .. Len(s), NEW x \in Int
      PROVE  Adds(s)[<<k, x>>] = 10 * x + (s[k] - 48)
  <2>1. <<k, x>> \in Nat \X Int
    OBVIOUS
  <2> QED
    BY <2>1 DEF Adds
<1> QED
  BY <1>2, <1>3 DEF Adds

LEMMA ValueIs ==
    ASSUME NEW s \in Seq(Int)
    PROVE  \E f \in [Nat -> Int] : /\ \A n \in Nat : Follows(f, n, 0, Adds(s))
                                   /\ Stream!Value(s) = f[Len(s)]
<1> DEFINE N == Len(s)
           Solves(g) == g = [k \in 0 .. N |-> IF k = 0 THEN 0 ELSE 10 * g[k - 1] + (s[k] - 48)]
           sum == CHOOSE g : Solves(g)
<1>1. N \in Nat
  BY LenProperties
<1>2. PICK f \in [Nat -> Int] : \A n \in Nat : Follows(f, n, 0, Adds(s))
  <2> DEFINE h == Adds(s)
  <2>1. h \in [Nat \X Int -> Int] /\ 0 \in Int
    BY AddsType
  <2> HIDE DEF h
  <2>2. \E f \in [Nat -> Int] : \A n \in Nat : Follows(f, n, 0, h)
    BY <2>1, NatRecursion
  <2> QED
    BY <2>2 DEF h
<1>3. Solves([k \in 0 .. N |-> f[k]])
  <2> DEFINE g == [k \in 0 .. N |-> f[k]]
  <2>1. ASSUME NEW k \in 0 .. N
        PROVE  g[k] = IF k = 0 THEN 0 ELSE 10 * g[k - 1] + (s[k] - 48)
    <3>1. CASE k = 0
      <4>1. f[0] = 0
        BY <1>1, <1>2 DEF Follows
      <4> QED
        BY <1>1, <3>1, <4>1
    <3>2. CASE k # 0
      <4>1. k \in 1 .. N /\ k - 1 \in 0 .. N /\ f[k - 1] \in Int /\ N \in Nat
        BY <1>1, <3>2
      <4>2. f[k] = Adds(s)[<<k, f[k - 1]>>]
        BY <1>2, <4>1 DEF Follows
      <4>3. f[k] = 10 * f[k - 1] + (s[k] - 48)
        BY <4>1, <4>2, AddsType
      <4>4. g[k] = f[k] /\ g[k - 1] = f[k - 1]
        BY <4>1
      <4> QED
        BY <3>2, <4>3, <4>4
    <3> QED
      BY <3>1, <3>2
  <2>2. g = [k \in 0 .. N |-> g[k]]
    OBVIOUS
  <2> HIDE DEF g
  <2>3. Solves(g)
    BY <2>1, <2>2
  <2> QED
    BY <2>3 DEF g
<1>4. Solves(sum)
  <2> HIDE DEF Solves
  <2> QED
    BY <1>3
<1>5. Stream!Value(s) = sum[N]
  BY DEF Stream!Value
<1> HIDE DEF sum
<1>6. Follows(sum, N, 0, Adds(s))
  <2> DEFINE Term(k) == IF k = 0 THEN 0 ELSE 10 * sum[k - 1] + (s[k] - 48)
  <2>1. \A k \in 0 .. N : sum[k] = Term(k)
    <3>1. sum = [k \in 0 .. N |-> Term(k)]
      BY <1>4
    <3> HIDE DEF Term, Solves
    <3> QED
      BY <3>1
  <2>2. sum[0] = 0
    BY <1>1, <2>1
  <2> DEFINE S == {k \in Nat : k <= N => sum[k] \in Int}
  <2>3. 0 \in S
    BY <2>2
  <2>4. ASSUME NEW k \in S PROVE k + 1 \in S
    <3>1. SUFFICES ASSUME k + 1 <= N PROVE sum[k + 1] \in Int
      OBVIOUS
    <3>2. k + 1 \in 1 .. N /\ sum[k] \in Int /\ (k + 1) - 1 = k
      BY <1>1, <3>1
    <3>3. s[k + 1] \in Int
      BY <3>2, ElementOfSeq
    <3>4. sum[k + 1] = 10 * sum[k] + (s[k + 1] - 48)
      BY <2>1, <3>2
    <3> QED
      BY <3>2, <3>3, <3>4, SMTT(30)
  <2>5. S \in SUBSET Nat
    OBVIOUS
  <2>6. S = Nat
    <3> HIDE DEF S
    <3> QED
      BY <2>3, <2>4, <2>5, SetInduction
  <2>7. ASSUME NEW k \in 1 .. N PROVE sum[k] = Adds(s)[<<k, sum[k - 1]>>]
    <3>1. k - 1 \in Nat /\ k - 1 <= N /\ k \in 0 .. N /\ k # 0
      BY <1>1
    <3>2. sum[k - 1] \in Int
      <4>1. k - 1 \in S
        <5> HIDE DEF S
        <5> QED
          BY <2>6, <3>1
      <4> QED
        BY <3>1, <4>1
    <3>3. sum[k] = 10 * sum[k - 1] + (s[k] - 48)
      BY <2>1, <3>1
    <3> QED
      BY <3>2, <3>3, AddsType
  <2> QED
    BY <2>2, <2>7 DEF Follows
<1>7. sum[N] = f[N]
  <2>1. N \in 0 .. N
    BY <1>1
  <2> QED
    BY <1>1, <1>2, <1>6, <2>1, FollowsSame
<1> QED
  BY <1>2, <1>5, <1>7

LEMMA ValueAppend ==
    ASSUME NEW s \in Seq(Int), NEW c \in Int
    PROVE  /\ Stream!Value(s) \in Int
           /\ Stream!Value(Append(s, c)) = 10 * Stream!Value(s) + (c - 48)
<1> DEFINE t == Append(s, c)
           n == Len(s)
<1>1. t \in Seq(Int) /\ n \in Nat /\ Len(t) = n + 1 /\ t[n + 1] = c
      /\ \A k \in 1 .. n : t[k] = s[k]
  BY AppendProperties, LenProperties
<1>2. PICK f \in [Nat -> Int] : /\ \A m \in Nat : Follows(f, m, 0, Adds(s))
                                /\ Stream!Value(s) = f[n]
  BY ValueIs
<1> HIDE DEF t
<1>3. PICK g \in [Nat -> Int] : /\ \A m \in Nat : Follows(g, m, 0, Adds(t))
                                /\ Stream!Value(t) = g[Len(t)]
  BY <1>1, ValueIs
<1> HIDE DEF n
<1>4. Follows(g, n, 0, Adds(s))
  <2>1. g[0] = 0
    BY <1>3 DEF Follows
  <2>2. ASSUME NEW k \in 1 .. n PROVE g[k] = Adds(s)[<<k, g[k - 1]>>]
    <3>1. k \in 1 .. Len(t) /\ g[k - 1] \in Int /\ k \in Nat /\ k \in 1 .. k /\ k \in 1 .. Len(s)
      BY <1>1 DEF n
    <3>2. g[k] = Adds(t)[<<k, g[k - 1]>>]
      BY <1>3, <3>1 DEF Follows
    <3>3. Adds(t)[<<k, g[k - 1]>>] = 10 * g[k - 1] + (t[k] - 48)
      BY <1>1, <3>1, AddsType
    <3>4. Adds(s)[<<k, g[k - 1]>>] = 10 * g[k - 1] + (s[k] - 48)
      BY <3>1, AddsType
    <3> QED
      BY <1>1, <3>2, <3>3, <3>4
  <2> QED
    BY <2>1, <2>2 DEF Follows
<1>5. g[n] = f[n]
  <2>1. n \in Nat /\ n \in 0 .. n
    BY <1>1
  <2>2. Follows(f, n, 0, Adds(s)) /\ Follows(g, n, 0, Adds(s))
    BY <1>2, <1>4, <2>1
  <2> QED
    BY <2>1, <2>2, FollowsSame
<1>6. g[n + 1] = 10 * g[n] + (c - 48)
  <2>1. n + 1 \in 1 .. Len(t) /\ n + 1 \in Nat /\ n + 1 \in 1 .. n + 1 /\ (n + 1) - 1 = n /\ g[n] \in Int
    BY <1>1
  <2>2. g[n + 1] = Adds(t)[<<n + 1, g[n]>>]
    BY <1>3, <2>1 DEF Follows
  <2>3. Adds(t)[<<n + 1, g[n]>>] = 10 * g[n] + (t[n + 1] - 48)
    BY <1>1, <2>1, AddsType
  <2> QED
    BY <1>1, <2>2, <2>3
<1>7. Stream!Value(s) \in Int
  BY <1>1, <1>2
<1> QED
  BY <1>1, <1>2, <1>3, <1>5, <1>6, <1>7 DEF t

LEMMA ValueEmpty == Stream!Value(<<>>) = 0
<1>1. <<>> \in Seq(Int) /\ Len(<<>>) = 0 /\ 0 \in Nat
  BY EmptySeq
<1>2. PICK f \in [Nat -> Int] : /\ \A n \in Nat : Follows(f, n, 0, Adds(<<>>))
                                /\ Stream!Value(<<>>) = f[Len(<<>>)]
  BY <1>1, ValueIs
<1> QED
  BY <1>1, <1>2 DEF Follows

\* The most significant digit first.
LEMMA ReverseCons ==
    ASSUME NEW c \in Int, NEW s \in Seq(Int)
    PROVE  /\ Stream!Reverse(s) \in Seq(Int) /\ Len(Stream!Reverse(s)) = Len(s)
           /\ \A k \in 1 .. Len(s) : Stream!Reverse(s)[k] = s[Len(s) - k + 1]
           /\ Stream!Reverse(<<c>> \o s) = Append(Stream!Reverse(s), c)
           /\ <<c>> \o s \in Seq(Int) /\ Len(<<c>> \o s) = Len(s) + 1
           /\ \A k \in 1 .. Len(s) : (<<c>> \o s)[k + 1] = s[k]
           /\ (<<c>> \o s)[1] = c
<1> DEFINE n == Len(s)
           t == <<c>> \o s
           r == [i \in 1 .. n |-> s[(n - i) + 1]]
<1>1. n \in Nat /\ t \in Seq(Int) /\ Len(t) = n + 1 /\ t[1] = c
      /\ \A k \in 1 .. n : t[k + 1] = s[k]
  <2>1. <<c>> \in Seq(Int) /\ Len(<<c>>) = 1 /\ <<c>>[1] = c
    OBVIOUS
  <2>2. n \in Nat
    BY LenProperties
  <2> QED
    BY <2>1, <2>2, ConcatProperties
<1>2. Stream!Reverse(s) = r
  BY DEF Stream!Reverse
<1>3. r \in Seq(Int) /\ Len(r) = n /\ \A k \in 1 .. n : r[k] = s[(n - k) + 1]
  <2>1. \A i \in 1 .. n : (n - i) + 1 \in 1 .. n
    BY <1>1
  <2>2. r \in [1 .. n -> Int]
    BY <2>1, ElementOfSeq
  <2>3. r \in Seq(Int)
    BY <1>1, <2>2, SeqDef
  <2>4. Len(r) \in Nat /\ 1 .. Len(r) = 1 .. n
    BY <2>2, <2>3, LenProperties
  <2>5. Len(r) = n
    BY <1>1, <2>4
  <2> QED
    BY <2>3, <2>5
<1>4. Stream!Reverse(t) = Append(r, c)
  <2> DEFINE u == [i \in 1 .. n + 1 |-> t[(n + 1 - i) + 1]]
  <2>1. Stream!Reverse(t) = u
    BY <1>1 DEF Stream!Reverse
  <2>2. Append(r, c) \in Seq(Int) /\ Len(Append(r, c)) = n + 1 /\ Append(r, c)[n + 1] = c
        /\ \A k \in 1 .. n : Append(r, c)[k] = r[k]
    <3> HIDE DEF r
    <3> QED
      BY <1>3, AppendProperties
  <2>3. ASSUME NEW i \in 1 .. n + 1 PROVE u[i] = Append(r, c)[i]
    <3>1. CASE i = n + 1
      BY <1>1, <2>2, <3>1
    <3>2. CASE i # n + 1
      <4>1. i \in 1 .. n /\ (n - i) + 1 \in 1 .. n /\ (n + 1 - i) + 1 = ((n - i) + 1) + 1
        BY <1>1, <3>2
      <4>2. t[((n - i) + 1) + 1] = s[(n - i) + 1]
        BY <1>1, <4>1
      <4> HIDE DEF t, r
      <4> QED
        BY <1>3, <2>2, <4>1, <4>2
    <3> QED
      BY <3>1, <3>2
  <2>4. Append(r, c) = [i \in 1 .. n + 1 |-> Append(r, c)[i]]
    <3> DEFINE a == Append(r, c)
    <3>1. a = [i \in 1 .. Len(a) |-> a[i]]
      <4> HIDE DEF a
      <4>1. a \in Seq(Int)
        BY <2>2 DEF a
      <4> QED
        BY <4>1, LenProperties
    <3> QED
      BY <2>2, <3>1
  <2> QED
    BY <2>1, <2>3, <2>4
<1> QED
  BY <1>1, <1>2, <1>3, <1>4

LEMMA ReverseIs ==
    ASSUME NEW s \in Seq(Int)
    PROVE  /\ Stream!Reverse(s) \in Seq(Int) /\ Len(Stream!Reverse(s)) = Len(s)
           /\ \A k \in 1 .. Len(s) : Stream!Reverse(s)[k] = s[Len(s) - k + 1]
<1>1. 0 \in Int
  OBVIOUS
<1> QED
  BY <1>1, ReverseCons

\* What d owes as the digits of v, from the last to the first.
Decimal(d, v) ==
    /\ d \in Seq(Int)
    /\ d # <<>>
    /\ \A k \in 1 .. Len(d) : d[k] \in 48 .. 57
    /\ Stream!Value(Stream!Reverse(d)) = v
    /\ d[Len(d)] = 48 => v = 0
    /\ v = 0 => Len(d) = 1

LEMMA DigitsAreDecimal == \A v \in Nat : Decimal(Stream!Digits[v], v)
<1> DEFINE D == Stream!Digits
           S == {n \in Nat : \A v \in 0 .. n : Decimal(D[v], v)}
<1>1. ASSUME NEW v \in Nat,
             LET q == Stream!Quot(v) IN q # 0 => Decimal(D[q], q)
      PROVE  Decimal(D[v], v)
  <2> DEFINE q == Stream!Quot(v)
             c == 48 + Stream!Rem(v)
             rest == IF q = 0 THEN <<>> ELSE D[q]
  <2>1. /\ q \in Nat /\ c \in 48 .. 57 /\ c \in Int
        /\ v = 10 * q + (c - 48) /\ (v = 0 => q = 0)
    <3>1. v \in Int /\ v >= 0
      OBVIOUS
    <3>2. /\ q \in Int /\ q >= 0 /\ Stream!Rem(v) \in 0 .. 9
          /\ v = 10 * q + Stream!Rem(v) /\ (v <= 0 => q <= 0)
      BY <3>1, QuotIs
    <3> HIDE DEF q
    <3> QED
      BY <3>1, <3>2
  <2>2. D[v] = <<c>> \o rest
    BY DigitsIs
  <2> HIDE DEF D, c
  <2>3. /\ rest \in Seq(Int)
        /\ \A k \in 1 .. Len(rest) : rest[k] \in 48 .. 57
        /\ Stream!Value(Stream!Reverse(rest)) = q
        /\ q # 0 => Len(rest) # 0 /\ rest[Len(rest)] # 48
        /\ q = 0 => Len(rest) = 0
    <3>1. CASE q = 0
      <4>1. <<>> \in Seq(Int) /\ Len(<<>>) = 0
        BY EmptySeq
      <4>2. Stream!Reverse(<<>>) \in Seq(Int) /\ Len(Stream!Reverse(<<>>)) = 0
        BY <4>1, ReverseIs
      <4>3. Stream!Reverse(<<>>) = <<>>
        BY <4>2, EmptySeq
      <4> QED
        BY <3>1, <4>1, <4>3, ValueEmpty
    <3>2. CASE q # 0
      <4>1. Decimal(D[q], q)
        BY <1>1, <3>2
      <4>2. rest = D[q]
        BY <3>2
      <4> HIDE DEF q, rest
      <4>3. rest \in Seq(Int) /\ rest # <<>>
        BY <4>1, <4>2 DEF Decimal
      <4>4. Len(rest) # 0
        BY <4>3, EmptySeq
      <4> QED
        BY <3>2, <4>1, <4>2, <4>3, <4>4 DEF Decimal
    <3> QED
      BY <3>1, <3>2
  <2> HIDE DEF q, rest
  <2> DEFINE d == <<c>> \o rest
  <2>4. /\ d \in Seq(Int) /\ Len(d) = Len(rest) + 1 /\ d[1] = c
        /\ \A k \in 1 .. Len(rest) : d[k + 1] = rest[k]
        /\ Stream!Reverse(rest) \in Seq(Int)
        /\ Stream!Reverse(d) = Append(Stream!Reverse(rest), c)
        /\ Len(rest) \in Nat
    BY <2>1, <2>3, ReverseCons, LenProperties
  <2> HIDE DEF d
  <2>5. Stream!Value(Stream!Reverse(d)) = v
    <3>1. Stream!Value(Append(Stream!Reverse(rest), c))
            = 10 * Stream!Value(Stream!Reverse(rest)) + (c - 48)
      BY <2>1, <2>4, ValueAppend
    <3> QED
      BY <2>1, <2>3, <2>4, <3>1
  <2>6. \A k \in 1 .. Len(d) : d[k] \in 48 .. 57
    <3> TAKE k \in 1 .. Len(d)
    <3>1. CASE k = 1
      BY <2>1, <2>4, <3>1
    <3>2. CASE k # 1
      <4>1. k - 1 \in 1 .. Len(rest) /\ (k - 1) + 1 = k
        BY <2>4, <3>2
      <4>2. d[(k - 1) + 1] = rest[k - 1]
        BY <2>4, <4>1
      <4> QED
        BY <2>3, <4>1, <4>2
    <3> QED
      BY <3>1, <3>2
  <2>7. d[Len(d)] = 48 => v = 0
    <3>1. CASE q = 0
      BY <2>1, <2>3, <2>4, <3>1
    <3>2. CASE q # 0
      <4>1. Len(rest) \in 1 .. Len(rest)
        BY <2>3, <2>4, <3>2
      <4>2. d[Len(rest) + 1] = rest[Len(rest)]
        BY <2>4, <4>1
      <4> QED
        BY <2>3, <2>4, <3>2, <4>2
    <3> QED
      BY <3>1, <3>2
  <2>8. d # <<>>
    BY <2>4, EmptySeq
  <2>9. v = 0 => Len(d) = 1
    BY <2>1, <2>3, <2>4
  <2>10. Decimal(d, v)
    BY <2>4, <2>5, <2>6, <2>7, <2>8, <2>9 DEF Decimal
  <2> QED
    BY <2>2, <2>10 DEF d
<1> HIDE DEF D
<1>2. 0 \in S
  <2>1. Stream!Quot(0) = 0
    BY DEF Stream!Quot
  <2>2. Decimal(D[0], 0)
    BY <1>1, <2>1
  <2>3. \A v \in 0 .. 0 : v = 0
    OBVIOUS
  <2> QED
    BY <2>2, <2>3
<1>3. ASSUME NEW n \in S PROVE n + 1 \in S
  <2>1. SUFFICES ASSUME NEW v \in 0 .. n + 1 PROVE Decimal(D[v], v)
    OBVIOUS
  <2>2. CASE v = 0
    BY <1>2, <2>2
  <2>3. CASE v # 0
    <3> DEFINE q == Stream!Quot(v)
    <3>1. q \in 0 .. n
      BY <2>3, QuotIs
    <3> HIDE DEF q
    <3>2. Decimal(D[q], q) /\ v \in Nat
      BY <3>1
    <3> QED
      BY <1>1, <3>2 DEF q
  <2> QED
    BY <2>2, <2>3
<1>4. S = Nat
  <2>1. S \in SUBSET Nat
    OBVIOUS
  <2> HIDE DEF S
  <2> QED
    BY <1>2, <1>3, <2>1, SetInduction
<1>5. \A v \in Nat : v \in 0 .. v
  OBVIOUS
<1> QED
  BY <1>4, <1>5 DEF D

\* A number below the k-th power of ten has at most k digits.
LEMMA DigitsFit ==
    \A k \in Nat : \A v \in Int :
        Absolute(v) < Stream!Ten[k + 1] => Len(Stream!Digits[v]) <= k + 1
<1> DEFINE D == Stream!Digits
           t == Stream!Ten
           S == {k \in Nat : \A v \in Int : Absolute(v) < t[k + 1] => Len(D[v]) <= k + 1}
<1>1. ASSUME NEW v \in Int
      PROVE  LET q == Stream!Quot(v) IN
             Len(D[v]) = IF q = 0 THEN 1 ELSE Len(D[q]) + 1
  <2> DEFINE q == Stream!Quot(v)
             c == 48 + Stream!Rem(v)
             rest == IF q = 0 THEN <<>> ELSE D[q]
  <2>1. c \in Int /\ q \in Int
    BY QuotIs
  <2>2. D[v] = <<c>> \o rest
    BY DigitsIs
  <2>3. rest \in Seq(Int)
    BY <2>1, DigitsIs, EmptySeq
  <2> HIDE DEF D, c, q
  <2>4. Len(<<c>> \o rest) = Len(rest) + 1
    <3> HIDE DEF rest
    <3> QED
      BY <2>1, <2>3, ReverseCons
  <2>5. Len(<<>>) = 0
    BY EmptySeq
  <2> QED
    BY <2>2, <2>4, <2>5 DEF q
<1>2. t[1] = 10 /\ \A k \in Nat : t[k + 1] \in Nat /\ t[(k + 1) + 1] = 10 * t[k + 1]
  <2>1. t[0 + 1] = 10
    BY TenIs
  <2>2. \A k \in Nat : k + 1 \in Nat
    OBVIOUS
  <2> HIDE DEF t
  <2>3. \A k \in Nat : t[k] \in Nat /\ t[k + 1] = 10 * t[k]
    BY TenIs DEF t
  <2> QED
    BY <2>1, <2>2, <2>3
<1> HIDE DEF D, t
<1>3. 0 \in S
  <2>1. SUFFICES ASSUME NEW v \in Int, Absolute(v) < 10 PROVE Len(D[v]) <= 1
    BY <1>2
  <2>2. Stream!Quot(v) = 0
    BY <2>1, QuotIsSmaller
  <2> QED
    BY <1>1, <2>2
<1>4. ASSUME NEW k \in S PROVE k + 1 \in S
  <2>1. SUFFICES ASSUME NEW v \in Int, Absolute(v) < t[(k + 1) + 1]
                 PROVE  Len(D[v]) <= (k + 1) + 1
    OBVIOUS
  <2> DEFINE q == Stream!Quot(v)
  <2>2. q \in Int
    BY QuotIs
  <2>3. k \in Nat /\ t[k + 1] \in Nat /\ Absolute(v) < 10 * t[k + 1]
    BY <1>2, <2>1
  <2>4. Absolute(q) < t[k + 1]
    BY <2>3, QuotIsSmaller
  <2>5. D[q] \in Seq(Int) /\ Len(D[q]) \in Nat
    BY <2>2, DigitsIs, LenProperties DEF D
  <2> HIDE DEF q
  <2>6. Len(D[q]) <= k + 1
    BY <2>2, <2>4
  <2>7. Len(D[v]) = IF q = 0 THEN 1 ELSE Len(D[q]) + 1
    BY <1>1 DEF q
  <2> QED
    BY <2>3, <2>5, <2>6, <2>7
<1>5. S = Nat
  <2>1. S \in SUBSET Nat
    OBVIOUS
  <2> HIDE DEF S
  <2> QED
    BY <1>3, <1>4, <2>1, SetInduction
<1> QED
  BY <1>5 DEF D, t

-----------------------------------------------------------------------------
(***************************************************************************)
(* One line of LogStream.                                                  *)
(***************************************************************************)
\* An integer needs at least one character, and no more than are kept free.
LEMMA IntegersFit ==
    ASSUME NEW v \in Ints
    PROVE  /\ v \in Int
           /\ Len(Stream!FormatInteger(v)) \in 1 .. NumericSize
<1> DEFINE d == Stream!Digits[v]
<1>1. v \in Int /\ NumericSize \in Nat /\ NumericSize # 0
      /\ v < Stream!Ten[NumericSize] /\ -v < Stream!Ten[NumericSize]
  BY StreamAssumption DEF Stream!LogStreamAssumption
<1>2. NumericSize - 1 \in Nat /\ (NumericSize - 1) + 1 = NumericSize
      /\ Absolute(v) < Stream!Ten[NumericSize]
  BY <1>1 DEF Absolute
<1>3. Len(d) <= NumericSize
  <2> DEFINE k == NumericSize - 1
  <2>1. k \in Nat /\ k + 1 = NumericSize
    BY <1>2
  <2> HIDE DEF k
  <2>2. Absolute(v) < Stream!Ten[k + 1] => Len(d) <= k + 1
    BY <1>1, <2>1, DigitsFit
  <2> QED
    BY <1>2, <2>1, <2>2
<1>4. d \in Seq(Int) /\ Len(d) \in Nat /\ Len(d) # 0
  <2> DEFINE c == 48 + Stream!Rem(v)
             q == Stream!Quot(v)
             rest == IF q = 0 THEN <<>> ELSE Stream!Digits[q]
  <2>1. c \in Int /\ rest \in Seq(Int) /\ d = <<c>> \o rest
    <3>1. c \in Int /\ q \in Int
      BY <1>1, QuotIs
    <3>2. rest \in Seq(Int)
      BY <3>1, DigitsIs, EmptySeq
    <3>3. d = <<c>> \o rest
      BY <1>1, DigitsIs
    <3> QED
      BY <3>1, <3>2, <3>3
  <2> HIDE DEF c, rest, d
  <2>2. d \in Seq(Int) /\ Len(d) = Len(rest) + 1 /\ Len(rest) \in Nat
    BY <2>1, ReverseCons, LenProperties
  <2> QED
    BY <2>2
<1>5. Len(Stream!Reverse(d)) = Len(d)
  <2> HIDE DEF d
  <2> QED
    BY <1>4, ReverseIs
<1> HIDE DEF d
<1> QED
  BY <1>1, <1>3, <1>4, <1>5 DEF Stream!FormatInteger, d

LEMMA NumbersAreDecimal == Stream!NumbersAreReadable
<1>1. SUFFICES ASSUME NEW v \in Ints, v >= 0
               PROVE  LET s == Stream!FormatInteger(v) IN
                        /\ s # <<>>
                        /\ \A k \in DOMAIN s : s[k] \in 48 .. 57
                        /\ Stream!Value(s) = v
                        /\ s[1] = 48 => Len(s) = 1
  BY DEF Stream!NumbersAreReadable
<1> DEFINE d == Stream!Digits[v]
           s == Stream!Reverse(d)
<1>2. v \in Nat
  BY <1>1, IntegersFit
<1>3. Decimal(d, v)
  BY <1>2, DigitsAreDecimal
<1> HIDE DEF d
<1>4. d \in Seq(Int) /\ Len(d) \in Nat /\ Len(d) # 0
  <2>1. d \in Seq(Int) /\ d # <<>>
    BY <1>3 DEF Decimal
  <2> QED
    BY <2>1, LenProperties, EmptySeq
<1>5. s \in Seq(Int) /\ Len(s) = Len(d)
      /\ \A k \in 1 .. Len(d) : s[k] = d[Len(d) - k + 1]
  BY <1>4, ReverseIs
<1> HIDE DEF s
<1>6. s # <<>> /\ DOMAIN s = 1 .. Len(d)
  BY <1>4, <1>5, LenProperties, EmptySeq
<1>7. \A k \in 1 .. Len(d) : s[k] \in 48 .. 57
  <2> TAKE k \in 1 .. Len(d)
  <2>1. Len(d) - k + 1 \in 1 .. Len(d)
    BY <1>4
  <2> QED
    BY <1>3, <1>5, <2>1 DEF Decimal
<1>8. s[1] = 48 => Len(s) = 1
  <2>1. 1 \in 1 .. Len(d) /\ Len(d) - 1 + 1 = Len(d)
    BY <1>4
  <2>2. s[1] = d[Len(d)]
    BY <1>5, <2>1
  <2> QED
    BY <1>3, <1>5, <2>2 DEF Decimal
<1>9. Stream!Value(s) = v
  BY <1>3 DEF Decimal, s
<1> QED
  BY <1>6, <1>7, <1>8, <1>9 DEF Stream!FormatInteger, s, d

\* After Errif nothing is written: only then may the line be full.
LineInv ==
    /\ cur \in Nat /\ high \in Nat
    /\ line \in {"open", "finished", "exited"}
    /\ high <= Size
    /\ cur < Size

LEMMA LineStep == LineInv /\ Stream!Next => LineInv'
<1>0. SUFFICES ASSUME LineInv, Stream!Next PROVE LineInv'
  OBVIOUS
<1>1. Size \in Nat /\ NumericSize \in Nat /\ HeadLen \in Nat /\ TailLen \in Nat
      /\ Texts \subseteq Nat
  BY StreamAssumption DEF Stream!LogStreamAssumption
<1>2. ASSUME NEW len \in Nat, NEW fits \in BOOLEAN, Stream!Write(fits, len),
             fits => cur + len < Size
      PROVE  LineInv'
  <2>1. CASE fits
    <3>1. cur' = cur + len /\ high' = cur + len /\ line' = line
      BY <1>2, <2>1 DEF Stream!Write
    <3> QED
      BY <1>0, <1>1, <1>2, <2>1, <3>1 DEF LineInv
  <2>2. CASE ~fits
    <3>1. cur' = cur /\ high' = high /\ line' = "exited"
      BY <1>2, <2>2 DEF Stream!Write
    <3> QED
      BY <1>0, <3>1 DEF LineInv
  <2> QED
    BY <2>1, <2>2
<1>3. ASSUME NEW len \in Texts, Stream!AppendText(len) PROVE LineInv'
  <2> DEFINE fits == Stream!GetSpace > len
  <2>1. len \in Nat /\ fits \in BOOLEAN /\ Stream!Write(fits, len)
    BY <1>1, <1>3 DEF Stream!AppendText
  <2>2. fits => cur + len < Size
    BY <1>0, <1>1, <2>1 DEF LineInv, Stream!GetSpace
  <2> HIDE DEF fits
  <2> QED
    BY <1>2, <2>1, <2>2
<1>4. ASSUME NEW v \in Ints, Stream!AppendInteger(v) PROVE LineInv'
  <2> DEFINE len == Len(Stream!FormatInteger(v))
  <2>1. len \in 1 .. NumericSize /\ Stream!Write(Stream!RoomForInteger, len)
    BY <1>4, IntegersFit DEF Stream!AppendInteger
  <2> HIDE DEF len
  <2>2. Stream!RoomForInteger => cur + len < Size
    BY <1>0, <1>1, <2>1 DEF LineInv, Stream!GetSpace, Stream!RoomForInteger
  <2>3. len \in Nat /\ Stream!RoomForInteger \in BOOLEAN
    BY <1>1, <2>1 DEF Stream!RoomForInteger
  <2> QED
    BY <1>2, <2>1, <2>2, <2>3
<1>5. ASSUME Stream!Finish PROVE LineInv'
  <2>1. PICK n \in Ints :
             IF Stream!EndFits(n)
             THEN /\ cur' = cur + TailLen + Len(Stream!FormatInteger(n))
                  /\ high' = cur'
                  /\ line' = "finished"
             ELSE line' = "exited" /\ UNCHANGED <<cur, high>>
    BY <1>5 DEF Stream!Finish
  <2>2. CASE Stream!EndFits(n)
    <3> DEFINE len == Len(Stream!FormatInteger(n))
    <3>1. len \in 1 .. NumericSize
      BY IntegersFit
    <3>2. Stream!GetSpace > TailLen + len
      BY <2>2 DEF Stream!EndFits
    <3>3. cur' = cur + TailLen + len /\ high' = cur' /\ line' = "finished"
      BY <2>1, <2>2
    <3> HIDE DEF len
    <3> QED
      BY <1>0, <1>1, <3>1, <3>2, <3>3 DEF LineInv, Stream!GetSpace
  <2>3. CASE ~Stream!EndFits(n)
    BY <1>0, <2>1, <2>3 DEF LineInv
  <2> QED
    BY <2>2, <2>3
<1> QED
  BY <1>0, <1>3, <1>4, <1>5 DEF Stream!Next

\* A log line never leaves its buffer, however the pieces of it add up, although the test
\* before an integer is made without knowing how many characters it takes; and the integers
\* in it are decimal numbers (LogStream.h:17-24 and 84-100): for every size of the buffer,
\* any texts, and any integers that have room in what is kept free for one.
THEOREM LineAlwaysSound == MCSpec => []LineIsSound
<1>1. MCInit => LineInv
  BY StreamAssumption
     DEF MCInit, Stream!Init, LineInv, Stream!LogStreamAssumption
<1>2. LineInv /\ [MCNext]_<<part, lineVars, vars>> => LineInv'
  <2>1. SUFFICES ASSUME LineInv, [MCNext]_<<part, lineVars, vars>> PROVE LineInv'
    OBVIOUS
  <2>2. CASE UNCHANGED lineVars
    BY <2>1, <2>2 DEF LineInv, lineVars
  <2>3. CASE Stream!Next
    BY <2>1, <2>3, LineStep
  <2> QED
    BY <2>1, <2>2, <2>3 DEF MCNext, Log
<1>3. LineInv => LineIsSound
  BY NumbersAreDecimal DEF LineInv, LineIsSound, Stream!LineStaysInside
<1> QED
  BY <1>1, <1>2, <1>3, PTL DEF MCSpec
=============================================================================

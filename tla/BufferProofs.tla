---------------------------- MODULE BufferProofs ----------------------------
(***************************************************************************)
(* Proofs about the bytes of a connection.                                 *)
(*                                                                         *)
(* Buffer, for every KPREPENDINDEX and any number of bytes: used the way   *)
(* input_buffer_ and the clients' output_buffer_ are used, it is a byte    *)
(* queue.  Both rest on one fact about Append: as long as nothing but      *)
(* RetreiveAll has moved read_index_, EnsureWritableBytes never compacts.  *)
(*                                                                         *)
(* Reply, for every size of a page, a file and the socket, and any number  *)
(* of replies: what was read, what the socket holds and what is queued are *)
(* the replies, one after the other (StreamInv), which gives StreamIntact  *)
(* and, with the lengths announced, ClientInStep.                          *)
(*                                                                         *)
(* HttpContext, for any requests that are written as clients write them:   *)
(* the places of its parts in the bytes (Layout) say for each state of the *)
(* parser where start and end are and what was stored (Stage), and the     *)
(* request handed over is the one sent (RequestsParsed).                   *)
(***************************************************************************)
EXTENDS MCBuffer, SequenceTheorems, WellFoundedInduction, TLAPS

\* A function on 1 .. n with values in Nat is a sequence of length n.
LEMMA FunctionIsSeq ==
    ASSUME NEW n \in Nat, NEW f \in [1 .. n -> Nat]
    PROVE  /\ f \in Seq(Nat)
           /\ Len(f) = n
<1>1. f \in Seq(Nat)
  BY SeqDef
<1>2. /\ Len(f) \in Nat
      /\ 1 .. Len(f) = 1 .. n
  BY <1>1, LenProperties
<1> QED
  BY <1>1, <1>2

\* Resized keeps what is there and makes room for len bytes.
LEMMA ResizedProperties ==
    ASSUME NEW buf \in Buffers, NEW len \in Nat, WritableBytes(buf) < len
    PROVE  /\ Resized(buf, len) \in Buffers
           /\ Resized(buf, len).read_index = buf.read_index
           /\ Resized(buf, len).write_index = buf.write_index
           /\ Len(Resized(buf, len).mem) = buf.write_index + len
           /\ Len(buf.mem) < buf.write_index + len
           /\ \A i \in 1 .. Len(buf.mem) : Resized(buf, len).mem[i] = buf.mem[i]
<1> DEFINE n == buf.write_index + len
           f == [i \in 1 .. n |-> IF i <= Len(buf.mem) THEN buf.mem[i] ELSE 0]
<1>1. /\ buf.mem \in Seq(Nat)
      /\ buf.read_index \in Nat
      /\ buf.write_index \in Nat
      /\ Len(buf.mem) \in Nat
      /\ n \in Nat
      /\ \A i \in 1 .. Len(buf.mem) : buf.mem[i] \in Nat
  BY LenProperties, ElementOfSeq DEF Buffers
<1>2. f \in [1 .. n -> Nat]
  BY <1>1
<1>3. f \in Seq(Nat) /\ Len(f) = n
  BY <1>1, <1>2, FunctionIsSeq
<1>4. Resized(buf, len) = [buf EXCEPT !.mem = f]
  BY DEF Resized
<1>5. Len(buf.mem) < n
  BY <1>1 DEF WritableBytes
<1>6. \A i \in 1 .. Len(buf.mem) : f[i] = buf.mem[i]
  BY <1>1, <1>5
<1> HIDE DEF f
<1> QED
  BY <1>1, <1>3, <1>4, <1>5, <1>6 DEF Buffers

\* Copied writes len numbered bytes at write_index_ and nothing else.
LEMMA CopiedProperties ==
    ASSUME NEW buf \in Buffers, NEW first \in Nat, NEW len \in Nat,
           buf.write_index + len <= Len(buf.mem)
    PROVE  /\ Copied(buf, first, len) \in Buffers
           /\ Copied(buf, first, len).read_index = buf.read_index
           /\ Copied(buf, first, len).write_index = buf.write_index + len
           /\ Len(Copied(buf, first, len).mem) = Len(buf.mem)
           /\ \A i \in 1 .. buf.write_index :
                 Copied(buf, first, len).mem[i] = buf.mem[i]
           /\ \A i \in 1 .. len :
                 Copied(buf, first, len).mem[buf.write_index + i] = first + i
<1> DEFINE n == Len(buf.mem)
           w == buf.write_index
           mem == buf.mem
           f == [i \in 1 .. n |-> IF i - w \in 1 .. len THEN first + i - w ELSE mem[i]]
<1>1. /\ mem \in Seq(Nat)
      /\ buf.read_index \in Nat
      /\ w \in Nat
      /\ n \in Nat
      /\ w + len <= n
      /\ \A i \in 1 .. n : mem[i] \in Nat
  BY LenProperties, ElementOfSeq DEF Buffers
<1>4. Copied(buf, first, len)
        = [mem |-> f, read_index |-> buf.read_index, write_index |-> w + len]
  BY DEF Copied
<1> HIDE DEF n, w, mem
<1>2. f \in [1 .. n -> Nat]
  <2>1. ASSUME NEW i \in Int, i - w \in 1 .. len
        PROVE  first + i - w \in Nat
    BY <1>1, <2>1
  <2> QED
    BY <1>1, <2>1
<1>3. f \in Seq(Nat) /\ Len(f) = n
  BY <1>1, <1>2, FunctionIsSeq
<1>5. \A i \in 1 .. w : f[i] = mem[i]
  BY <1>1
<1>6. \A i \in 1 .. len : f[w + i] = first + i
  BY <1>1
<1> HIDE DEF f
<1> QED
  BY <1>1, <1>3, <1>4, <1>5, <1>6 DEF Buffers, n, w, mem

\* What Append does while read_index_ is KPREPENDINDEX: it makes room, keeps
\* the bytes below write_index_ and writes the new ones (Buffer.cpp, Append).
LEMMA AppendedProperties ==
    ASSUME NEW buf \in Buffers, NEW first \in Nat, NEW len \in Nat,
           buf.read_index = KPREPENDINDEX
    PROVE  /\ Appended(buf, first, len) \in Buffers
           /\ Appended(buf, first, len).read_index = KPREPENDINDEX
           /\ Appended(buf, first, len).write_index = buf.write_index + len
           /\ buf.write_index + len <= Len(Appended(buf, first, len).mem)
           /\ \A i \in 1 .. buf.write_index :
                 i <= Len(buf.mem) => Appended(buf, first, len).mem[i] = buf.mem[i]
           /\ \A i \in 1 .. len :
                 Appended(buf, first, len).mem[buf.write_index + i] = first + i
<1> DEFINE e == EnsureWritableBytes(buf, len)
<1>1. /\ buf.read_index \in Nat
      /\ buf.write_index \in Nat
      /\ Len(buf.mem) \in Nat
  BY LenProperties DEF Buffers
<1>2. /\ e \in Buffers
      /\ e.read_index = KPREPENDINDEX
      /\ e.write_index = buf.write_index
      /\ buf.write_index + len <= Len(e.mem)
      /\ \A i \in 1 .. Len(buf.mem) : e.mem[i] = buf.mem[i]
  <2>1. CASE WritableBytes(buf) >= len
    BY <1>1, <2>1 DEF EnsureWritableBytes, WritableBytes
  <2>2. CASE ~(WritableBytes(buf) >= len)
    <3>1. /\ WritableBytes(buf) < len
          /\ WritableBytes(buf) + PrepenableBytes(buf) < len + KPREPENDINDEX
      BY <1>1, <2>2 DEF WritableBytes, PrepenableBytes
    <3>2. e = Resized(buf, len)
      BY <2>2, <3>1 DEF EnsureWritableBytes
    <3> QED
      BY <1>1, <3>1, <3>2, ResizedProperties
  <2> QED
    BY <2>1, <2>2
<1>3. Appended(buf, first, len) = Copied(e, first, len)
  BY DEF Appended
<1> HIDE DEF e
<1>4. /\ Copied(e, first, len) \in Buffers
      /\ Copied(e, first, len).read_index = KPREPENDINDEX
      /\ Copied(e, first, len).write_index = buf.write_index + len
      /\ Len(Copied(e, first, len).mem) = Len(e.mem)
      /\ \A i \in 1 .. buf.write_index : Copied(e, first, len).mem[i] = e.mem[i]
      /\ \A i \in 1 .. len : Copied(e, first, len).mem[buf.write_index + i] = first + i
  BY <1>2, CopiedProperties
<1> QED
  BY <1>1, <1>2, <1>3, <1>4

-----------------------------------------------------------------------------
(***************************************************************************)
(* input_buffer_.                                                          *)
(***************************************************************************)

\* The inductive invariant: read_index_ never leaves KPREPENDINDEX.
InputInv ==
    /\ TypeOK
    /\ b.read_index = KPREPENDINDEX
    /\ ContentIsQueue

LEMMA QueueInit == Init => InputInv
<1> SUFFICES ASSUME Init PROVE InputInv
  OBVIOUS
<1>1. << >> \in Seq(Nat)
  BY EmptySeq
<1> QED
  BY <1>1, BufferAssumption DEF Init, InputInv, TypeOK, Buffers, ContentIsQueue, ReadableBytes

\* RetreiveAll leaves an empty queue, whatever the buffer held.
LEMMA RetreiveAllStep == TypeOK /\ RetreiveAll => InputInv'
<1> SUFFICES ASSUME TypeOK, RetreiveAll PROVE InputInv'
  OBVIOUS
<1>1. b' = [mem |-> b.mem, read_index |-> KPREPENDINDEX, write_index |-> KPREPENDINDEX]
  BY DEF RetreiveAll, Emptied
<1>2. /\ b.mem \in Seq(Nat)
      /\ appended' = appended
      /\ taken' = appended
      /\ appended \in 0 .. MaxBytes
  BY DEF RetreiveAll, TypeOK, Buffers
<1> QED
  BY <1>1, <1>2, BufferAssumption DEF InputInv, TypeOK, Buffers, ContentIsQueue, ReadableBytes

LEMMA InputAppendStep ==
    ASSUME InputInv, NEW len \in Nat, Append_(len)
    PROVE  InputInv'
<1>1. /\ b \in Buffers
      /\ b.read_index = KPREPENDINDEX
      /\ b.write_index \in Nat
      /\ KPREPENDINDEX \in Nat
      /\ KPREPENDINDEX <= b.write_index
      /\ appended \in Nat
      /\ taken \in Nat
      /\ taken <= appended
      /\ MaxBytes \in Nat
      /\ Len(b.mem) \in Nat
  BY BufferAssumption, LenProperties DEF InputInv, TypeOK, Buffers
<1>2. /\ b.write_index - KPREPENDINDEX = appended - taken
      /\ \A i \in 1 .. b.write_index - KPREPENDINDEX :
            /\ KPREPENDINDEX + i <= Len(b.mem)
            /\ b.mem[KPREPENDINDEX + i] = taken + i
  BY DEF InputInv, ContentIsQueue, ReadableBytes
<1>3. /\ b' \in Buffers
      /\ b'.read_index = KPREPENDINDEX
      /\ b'.write_index = b.write_index + len
      /\ b.write_index + len <= Len(b'.mem)
      /\ \A i \in 1 .. b.write_index : i <= Len(b.mem) => b'.mem[i] = b.mem[i]
      /\ \A i \in 1 .. len : b'.mem[b.write_index + i] = appended + i
  BY <1>1, AppendedProperties, SMTT(30) DEF Append_
<1>4. /\ appended' = appended + len
      /\ taken' = taken
      /\ appended + len <= MaxBytes
  BY DEF Append_
<1>5. TypeOK'
  BY <1>1, <1>3, <1>4 DEF TypeOK
<1>6. ASSUME NEW i \in 1 .. b'.write_index - KPREPENDINDEX
      PROVE  /\ KPREPENDINDEX + i <= Len(b'.mem)
             /\ b'.mem[KPREPENDINDEX + i] = taken + i
  <2>1. /\ i \in Nat \ {0}
        /\ KPREPENDINDEX + i <= b.write_index + len
    BY <1>1, <1>3
  <2>2. KPREPENDINDEX + i <= Len(b'.mem)
    BY <1>1, <1>3, <2>1, LenProperties DEF Buffers
  <2>3. CASE KPREPENDINDEX + i <= b.write_index
    <3>1. i \in 1 .. b.write_index - KPREPENDINDEX
      BY <1>1, <2>1, <2>3
    <3>2. KPREPENDINDEX + i \in 1 .. b.write_index
      BY <1>1, <2>1, <2>3
    <3> QED
      BY <1>2, <1>3, <2>2, <3>1, <3>2
  <2>4. CASE KPREPENDINDEX + i > b.write_index
    <3> DEFINE j == KPREPENDINDEX + i - b.write_index
    <3>1. /\ j \in 1 .. len
          /\ b.write_index + j = KPREPENDINDEX + i
      BY <1>1, <2>1, <2>4
    <3>2. b'.mem[b.write_index + j] = appended + j
      BY <1>3, <3>1
    <3>3. appended + j = taken + i
      <4>1. b.write_index - KPREPENDINDEX = appended - taken
        BY <1>2
      <4>2. /\ b.write_index \in Int /\ KPREPENDINDEX \in Int /\ i \in Int
            /\ appended \in Int /\ taken \in Int
        BY <1>1, <2>1
      <4> QED
        BY <4>1, <4>2
    <3> HIDE DEF j
    <3> QED
      BY <2>2, <3>1, <3>2, <3>3
  <2> QED
    BY <1>1, <2>1, <2>3, <2>4
<1>7. ReadableBytes(b') = appended' - taken'
  <2>1. /\ b.write_index - KPREPENDINDEX = appended - taken
        /\ b.write_index \in Int /\ KPREPENDINDEX \in Int
        /\ appended \in Int /\ taken \in Int
    BY <1>1, <1>2
  <2>2. (b.write_index + len) - KPREPENDINDEX = (appended + len) - taken
    BY <2>1
  <2>3. ReadableBytes(b') = (b.write_index + len) - KPREPENDINDEX
    BY <1>3 DEF ReadableBytes
  <2> QED
    BY <1>4, <2>2, <2>3
<1> QED
  BY <1>3, <1>4, <1>5, <1>6, <1>7 DEF InputInv, ContentIsQueue, ReadableBytes

LEMMA InputQueueStep == InputInv /\ [InputNext]_vars => InputInv'
<1> SUFFICES ASSUME InputInv, [InputNext]_vars PROVE InputInv'
  OBVIOUS
<1>1. CASE RetreiveAll
  BY <1>1, RetreiveAllStep DEF InputInv
<1>2. ASSUME NEW len \in 1 .. MaxBytes, Append_(len)
      PROVE InputInv'
  BY <1>2, InputAppendStep, BufferAssumption
<1>3. CASE UNCHANGED vars
  BY <1>3 DEF vars, InputInv, TypeOK, ContentIsQueue, ReadableBytes
<1> QED
  BY <1>1, <1>2, <1>3 DEF InputNext

\* The input buffer hands the handler exactly the bytes read since it was last
\* emptied, in order: EnsureWritableBytes never takes its compaction branch
\* because Read() and RetriveInputBuffer() only ever empty the buffer.
THEOREM InputIsQueue == InputSpec => []ContentIsQueue
<1>1. InputInv => ContentIsQueue
  BY DEF InputInv
<1> QED
  BY QueueInit, InputQueueStep, <1>1, PTL DEF InputSpec

-----------------------------------------------------------------------------
(***************************************************************************)
(* The clients' output_buffer_.                                            *)
(***************************************************************************)

\* Retreive(len) moves read_index_ past the first len bytes of the queue.
LEMMA RetreiveStep ==
    ASSUME TypeOK, ContentIsQueue, NEW len \in Nat, len > 0, Retreive(len)
    PROVE  TypeOK' /\ ContentIsQueue'
<1>1. /\ b \in Buffers
      /\ b.mem \in Seq(Nat)
      /\ b.read_index \in Nat
      /\ b.write_index \in Nat
      /\ KPREPENDINDEX \in Nat
      /\ KPREPENDINDEX <= b.read_index
      /\ b.read_index <= b.write_index
      /\ appended \in Nat /\ appended <= MaxBytes
      /\ taken \in Nat /\ taken <= appended
      /\ MaxBytes \in Nat
  BY BufferAssumption DEF TypeOK, Buffers
<1>2. /\ b.write_index - b.read_index = appended - taken
      /\ len <= b.write_index - b.read_index
      /\ appended' = appended
      /\ taken' = taken + len
  BY DEF ContentIsQueue, ReadableBytes, Retreive
<1>3. \A i \in 1 .. b.write_index - b.read_index :
         /\ b.read_index + i <= Len(b.mem)
         /\ b.mem[b.read_index + i] = taken + i
  BY DEF ContentIsQueue, ReadableBytes
<1>4. CASE len < b.write_index - b.read_index
  <2>1. b' = [b EXCEPT !.read_index = b.read_index + len]
    BY <1>4 DEF Retreive, AfterRetreive, ReadableBytes
  <2>2. /\ b' \in Buffers
        /\ b'.mem = b.mem
        /\ b'.read_index = b.read_index + len
        /\ b'.write_index = b.write_index
    BY <1>1, <2>1, SMTT(30) DEF Buffers
  <2>3. TypeOK'
    BY <1>1, <1>2, <1>4, <2>2 DEF TypeOK
  <2>4. ASSUME NEW i \in 1 .. b.write_index - (b.read_index + len)
        PROVE  /\ (b.read_index + len) + i <= Len(b.mem)
               /\ b.mem[(b.read_index + len) + i] = (taken + len) + i
    <3>1. /\ i + len \in 1 .. b.write_index - b.read_index
          /\ b.read_index + (i + len) = (b.read_index + len) + i
          /\ taken + (i + len) = (taken + len) + i
      BY <1>1, <1>2
    <3> QED
      BY <1>3, <3>1
  <2>5. ReadableBytes(b') = appended' - taken'
    <3>1. b.write_index - (b.read_index + len) = appended - (taken + len)
      BY <1>1, <1>2
    <3> QED
      BY <1>2, <2>2, <3>1 DEF ReadableBytes
  <2> QED
    BY <1>2, <2>2, <2>3, <2>4, <2>5 DEF ContentIsQueue, ReadableBytes
<1>5. CASE ~(len < b.write_index - b.read_index)
  <2>1. b' = Emptied(b)
    BY <1>5 DEF Retreive, AfterRetreive, ReadableBytes
  <2>2. taken' = appended
    BY <1>1, <1>2, <1>5
  <2>3. RetreiveAll
    BY <1>2, <2>1, <2>2 DEF RetreiveAll
  <2> QED
    BY <2>3, RetreiveAllStep DEF InputInv
<1> QED
  BY <1>4, <1>5

\* A typed line goes into an emptied buffer, which never compacts.
LEMMA KeyBoardStep ==
    ASSUME TypeOK, NEW len \in Nat, AppendKeyBoard(len)
    PROVE  TypeOK' /\ ContentIsQueue'
<1> DEFINE e == Emptied(b)
<1>1. /\ e \in Buffers
      /\ e.read_index = KPREPENDINDEX
      /\ e.write_index = KPREPENDINDEX
      /\ KPREPENDINDEX \in Nat
      /\ MaxBytes \in Nat
      /\ appended \in Nat
  BY BufferAssumption DEF TypeOK, Buffers, Emptied
<1>2. /\ b' = Appended(e, appended, len)
      /\ taken' = appended
      /\ appended' = appended + len
      /\ appended + len <= MaxBytes
  BY DEF AppendKeyBoard
<1> HIDE DEF e
<1>3. /\ b' \in Buffers
      /\ b'.read_index = KPREPENDINDEX
      /\ b'.write_index = KPREPENDINDEX + len
      /\ KPREPENDINDEX + len <= Len(b'.mem)
      /\ \A i \in 1 .. len : b'.mem[KPREPENDINDEX + i] = appended + i
  <2> DEFINE r == Appended(e, appended, len)
  <2>1. /\ r \in Buffers
        /\ r.read_index = KPREPENDINDEX
        /\ r.write_index = e.write_index + len
        /\ e.write_index + len <= Len(r.mem)
        /\ \A i \in 1 .. len : r.mem[e.write_index + i] = appended + i
    BY <1>1, AppendedProperties, ZenonT(60)
  <2>2. b' = r
    BY <1>2
  <2> HIDE DEF r
  <2> QED
    BY <1>1, <2>1, <2>2
<1>4. Len(b'.mem) \in Nat
  BY <1>3, LenProperties DEF Buffers
<1>5. TypeOK'
  BY <1>1, <1>2, <1>3 DEF TypeOK
<1>6. ReadableBytes(b') = len /\ appended' - taken' = len
  BY <1>1, <1>2, <1>3 DEF ReadableBytes
<1>7. \A i \in 1 .. len : /\ KPREPENDINDEX + i <= Len(b'.mem)
                          /\ b'.mem[KPREPENDINDEX + i] = appended + i
  BY <1>1, <1>3, <1>4
<1> QED
  BY <1>2, <1>3, <1>5, <1>6, <1>7 DEF ContentIsQueue

LEMMA KeyboardQueueStep ==
    (TypeOK /\ ContentIsQueue) /\ [KeyboardNext]_vars => (TypeOK /\ ContentIsQueue)'
<1> SUFFICES ASSUME TypeOK, ContentIsQueue, [KeyboardNext]_vars
             PROVE  TypeOK' /\ ContentIsQueue'
  OBVIOUS
<1>1. ASSUME NEW len \in 0 .. MaxBytes, AppendKeyBoard(len)
      PROVE  TypeOK' /\ ContentIsQueue'
  BY <1>1, KeyBoardStep, BufferAssumption
<1>2. ASSUME NEW len \in 1 .. MaxBytes, Retreive(len)
      PROVE  TypeOK' /\ ContentIsQueue'
  BY <1>2, RetreiveStep, BufferAssumption
<1>3. CASE UNCHANGED vars
  BY <1>3 DEF vars, TypeOK, ContentIsQueue, ReadableBytes
<1> QED
  BY <1>1, <1>2, <1>3 DEF KeyboardNext

\* A client that types lines and sends them with WriteBlocking sends every
\* byte of a line once and in order (AppendKeyBoard and Retreive).
THEOREM KeyboardIsQueue == KeyboardSpec => [](TypeOK /\ ContentIsQueue)
<1>1. Init => TypeOK /\ ContentIsQueue
  BY QueueInit DEF InputInv
<1> QED
  BY <1>1, KeyboardQueueStep, PTL DEF KeyboardSpec

-----------------------------------------------------------------------------
(***************************************************************************)
(* Replies.  Whole and Announced are recursive functions: that what their  *)
(* definitions ask for exists, and follows the definitions, is shown here  *)
(* by induction for sets of numbers.                                       *)
(***************************************************************************)
NatLess == {p \in Nat \X Nat : p[1] < p[2]}

LEMMA Counting ==
    ASSUME NEW S \in SUBSET Nat, 0 \in S, \A n \in S : n + 1 \in S
    PROVE  S = Nat
<1> DEFINE Missing == Nat \ S
<1> SUFFICES ASSUME Missing # {} PROVE FALSE
  OBVIOUS
<1>1. IsWellFoundedOn(NatLess, Nat)
  BY NatLessThanWellFounded, Zenon DEF OpToRel, NatLess
<1>2. Missing \in SUBSET Nat
  OBVIOUS
<1>3. PICK m \in Missing : \A k \in Missing : <<k, m>> \notin NatLess
  <2> HIDE DEF Missing
  <2> QED
    BY <1>1, <1>2, WFMin
<1>4. m # 0 /\ m - 1 \in Nat /\ (m - 1) + 1 = m
  OBVIOUS
<1>5. <<m - 1, m>> \in NatLess
  BY <1>4 DEF NatLess
<1>6. m - 1 \in S
  BY <1>3, <1>4, <1>5
<1> QED
  BY <1>4, <1>6

\* Up to a bound.
LEMMA CountingUpTo ==
    ASSUME NEW n \in Nat, NEW S, 0 \in S, \A r \in 0 .. n - 1 : r \in S => r + 1 \in S
    PROVE  \A r \in 0 .. n : r \in S
<1> DEFINE T == {r \in Nat : r <= n => r \in S}
<1>1. 0 \in T
  OBVIOUS
<1>2. \A r \in T : r + 1 \in T
  OBVIOUS
<1>3. T = Nat
  <2>1. T \in SUBSET Nat
    OBVIOUS
  <2> HIDE DEF T
  <2> QED
    BY <1>1, <1>2, <2>1, Counting
<1> QED
  BY <1>3

\* The bytes of reply r, after those before it.
With(r, before, reply) == (before \o Output!PreBody(r)) \o Output!Body(r, 0, reply.size)

IsWhole(f, replies) ==
    /\ f[0] = <<>>
    /\ \A r \in 1 .. MaxReplies : f[r] = With(r, f[r - 1], replies[r])

LEMMA WholeIs == IsWhole(Output!Whole, request)
<1> DEFINE Defines(f, n) == f = [r \in 0 .. n |-> IF r = 0 THEN <<>> ELSE With(r, f[r - 1], request[r])]
           Has == {n \in Nat : \E f : Defines(f, n)}
<1>1. 0 \in Has
  <2> DEFINE f == [r \in 0 .. 0 |-> <<>>]
  <2>1. Defines(f, 0)
    OBVIOUS
  <2> QED
    BY <2>1
<1>2. ASSUME NEW n \in Has PROVE n + 1 \in Has
  <2>1. PICK f : Defines(f, n)
    OBVIOUS
  <2> DEFINE g == [r \in 0 .. n + 1 |-> IF r = n + 1 THEN With(r, f[n], request[r]) ELSE f[r]]
             h == [r \in 0 .. n + 1 |-> IF r = 0 THEN <<>> ELSE With(r, g[r - 1], request[r])]
  <2>2. n \in Nat
    OBVIOUS
  <2>3. f[0] = <<>> /\ \A r \in 1 .. n : f[r] = With(r, f[r - 1], request[r])
    <3> DEFINE Value(r) == IF r = 0 THEN <<>> ELSE With(r, f[r - 1], request[r])
    <3>1. \A r \in 0 .. n : f[r] = Value(r)
      <4>1. f = [r \in 0 .. n |-> Value(r)]
        BY <2>1
      <4> HIDE DEF Value, Has
      <4> QED
        BY <4>1
    <3>2. 0 \in 0 .. n /\ \A r \in 1 .. n : r \in 0 .. n /\ r # 0
      BY <2>2
    <3> QED
      BY <3>1, <3>2
  <2>4. ASSUME NEW r \in 0 .. n + 1 PROVE g[r] = h[r]
    <3>1. CASE r = 0
      BY <2>2, <2>3, <3>1
    <3>2. CASE r \in 1 .. n
      <4>1. g[r] = f[r] /\ g[r - 1] = f[r - 1] /\ r # 0
        BY <2>2, <3>2
      <4>2. h[r] = With(r, g[r - 1], request[r])
        BY <4>1
      <4> QED
        BY <2>3, <3>2, <4>1, <4>2
    <3>3. CASE r = n + 1
      <4>1. g[r] = With(r, f[n], request[r]) /\ g[n] = f[n] /\ r # 0 /\ r - 1 = n
        BY <2>2, <3>3
      <4>2. h[r] = With(r, g[r - 1], request[r])
        BY <4>1
      <4> QED
        BY <4>1, <4>2
    <3> QED
      BY <2>2, <3>1, <3>2, <3>3
  <2>5. g = h
    BY <2>4
  <2>6. Defines(g, n + 1)
    BY <2>5
  <2> HIDE DEF Defines, g
  <2>7. \E e : Defines(e, n + 1)
    BY <2>6
  <2> QED
    BY <2>2, <2>7
<1>3. MaxReplies \in Has
  <2>1. Has = Nat
    <3>1. Has \in SUBSET Nat
      OBVIOUS
    <3> HIDE DEF Has
    <3> QED
      BY <1>1, <1>2, <3>1, Counting
  <2> QED
    BY <2>1, PartsAssumption DEF Output!ReplyAssumption
<1>4. Defines(Output!Whole, MaxReplies)
  <2>1. \E f : Defines(f, MaxReplies)
    BY <1>3
  <2>2. Output!Whole = CHOOSE f : Defines(f, MaxReplies)
    BY DEF Output!Whole, With
  <2>3. Defines(CHOOSE f : Defines(f, MaxReplies), MaxReplies)
    <3> HIDE DEF Defines
    <3> QED
      BY <2>1
  <2> HIDE DEF Defines
  <2> QED
    BY <2>2, <2>3
<1>5. MaxReplies \in Nat
  BY PartsAssumption DEF Output!ReplyAssumption
<1>6. \A r \in 0 .. MaxReplies :
         Output!Whole[r] = IF r = 0 THEN <<>> ELSE With(r, Output!Whole[r - 1], request[r])
  <2> DEFINE W == Output!Whole
             Value(r) == IF r = 0 THEN <<>> ELSE With(r, W[r - 1], request[r])
  <2>1. W = [r \in 0 .. MaxReplies |-> Value(r)]
    BY <1>4
  <2> HIDE DEF W, Value
  <2>2. \A r \in 0 .. MaxReplies : W[r] = Value(r)
    BY <2>1
  <2> QED
    BY <2>2 DEF W, Value
<1>7. 0 \in 0 .. MaxReplies /\ \A r \in 1 .. MaxReplies : r \in 0 .. MaxReplies /\ r # 0
  BY <1>5
<1> QED
  BY <1>6, <1>7 DEF IsWhole

LEMMA WholeIsNext == IsWhole(Output!Whole, request)'
BY WholeIs, PTL

\* What two lists of replies begin with is the same as long as their sizes are.
LEMMA WholeSame ==
    ASSUME NEW f, NEW replies, IsWhole(f, replies), NEW g, NEW others, IsWhole(g, others),
           NEW n \in Nat, n <= MaxReplies, \A r \in 1 .. n : replies[r].size = others[r].size
    PROVE  \A r \in 0 .. n : f[r] = g[r]
<1> DEFINE S == {r \in 0 .. n : f[r] = g[r]}
<1>1. 0 \in S
  BY DEF IsWhole
<1>2. ASSUME NEW r \in 0 .. n - 1, r \in S PROVE r + 1 \in S
  <2>1. r + 1 \in 1 .. n /\ r + 1 \in 1 .. MaxReplies /\ (r + 1) - 1 = r /\ f[r] = g[r]
    BY PartsAssumption, <1>2 DEF Output!ReplyAssumption
  <2>2. f[r + 1] = With(r + 1, f[r], replies[r + 1]) /\ g[r + 1] = With(r + 1, g[r], others[r + 1])
    BY <2>1 DEF IsWhole
  <2>3. f[r + 1] = g[r + 1]
    BY <2>1, <2>2 DEF With
  <2> QED
    BY <2>1, <2>3
<1>3. \A r \in 0 .. n : r \in S
  <2> HIDE DEF S
  <2> QED
    BY <1>1, <1>2, CountingUpTo
<1> QED
  BY <1>3

-----------------------------------------------------------------------------
(***************************************************************************)
(* Bytes, and what is taken from the front of a sequence of them.          *)
(***************************************************************************)
Bytes == [reply : 1 .. MaxReplies, part : {"head", "body", "stale"}, at : Nat]

LEMMA PreBodyIs ==
    ASSUME NEW r \in 1 .. MaxReplies
    PROVE  Output!PreBody(r) \in Seq(Bytes) /\ Len(Output!PreBody(r)) = 1
BY DEF Output!PreBody, Output!Byte, Bytes

LEMMA FunctionIsSeqOf ==
    ASSUME NEW T, NEW n \in Nat, NEW f \in [1 .. n -> T]
    PROVE  f \in Seq(T) /\ Len(f) = n
<1>1. f \in Seq(T)
  BY SeqDef
<1>2. Len(f) \in Nat /\ 1 .. Len(f) = 1 .. n
  BY <1>1, LenProperties
<1> QED
  BY <1>1, <1>2

LEMMA BodyIs ==
    ASSUME NEW r \in 1 .. MaxReplies, NEW from \in Nat, NEW n \in Nat
    PROVE  Output!Body(r, from, n) \in Seq(Bytes) /\ Len(Output!Body(r, from, n)) = n
<1> DEFINE b1 == [k \in 1 .. n |-> Output!Byte(r, "body", from + k)]
<1>1. b1 \in [1 .. n -> Bytes]
  BY DEF Output!Byte, Bytes
<1> HIDE DEF b1
<1>2. b1 \in Seq(Bytes) /\ Len(b1) = n
  BY <1>1, FunctionIsSeqOf
<1> QED
  BY <1>2 DEF Output!Body, b1

LEMMA WithIs ==
    ASSUME NEW r \in 1 .. MaxReplies, NEW before \in Seq(Bytes), NEW reply, reply.size \in Nat
    PROVE  With(r, before, reply) \in Seq(Bytes)
           /\ Len(With(r, before, reply)) = Len(before) + 1 + reply.size
<1> DEFINE head == Output!PreBody(r)
           body == Output!Body(r, 0, reply.size)
<1>1. head \in Seq(Bytes) /\ Len(head) = 1 /\ body \in Seq(Bytes) /\ Len(body) = reply.size
  BY PreBodyIs, BodyIs
<1> HIDE DEF head, body
<1>2. before \o head \in Seq(Bytes) /\ Len(before \o head) = Len(before) + 1
  <2>1. before \o head \in Seq(Bytes) /\ Len(before \o head) = Len(before) + Len(head)
    BY <1>1, ConcatProperties
  <2> QED
    BY <1>1, <2>1
<1>3. (before \o head) \o body \in Seq(Bytes)
      /\ Len((before \o head) \o body) = Len(before) + 1 + reply.size
  BY <1>1, <1>2, ConcatProperties
<1> QED
  BY <1>3 DEF With, head, body

LEMMA WholeTyped ==
    ASSUME NEW f, NEW replies \in Seq(Output!ReplyRecords), IsWhole(f, replies),
           Len(replies) <= MaxReplies
    PROVE  \A r \in 0 .. Len(replies) : f[r] \in Seq(Bytes)
<1> DEFINE n == Len(replies)
           S == {r \in 0 .. n : f[r] \in Seq(Bytes)}
<1>1. n \in Nat /\ MaxReplies \in Nat
  BY LenProperties, PartsAssumption DEF Output!ReplyAssumption
<1>2. 0 \in S
  <2>1. 0 \in 0 .. n /\ f[0] = <<>>
    BY <1>1 DEF IsWhole
  <2>2. <<>> \in Seq(Bytes)
    BY EmptySeq
  <2> QED
    BY <2>1, <2>2
<1>3. ASSUME NEW r \in 0 .. n - 1, r \in S PROVE r + 1 \in S
  <2>1. r + 1 \in 1 .. n /\ r + 1 \in 1 .. MaxReplies /\ (r + 1) - 1 = r /\ f[r] \in Seq(Bytes)
    BY <1>1, <1>3
  <2>2. replies[r + 1].size \in Nat
    <3>1. replies[r + 1] \in Output!ReplyRecords
      BY <2>1
    <3> QED
      BY <3>1, PartsAssumption DEF Output!ReplyAssumption, Output!ReplyRecords
  <2>3. f[r + 1] = With(r + 1, f[r], replies[r + 1])
    BY <2>1 DEF IsWhole
  <2>4. f[r + 1] \in Seq(Bytes)
    BY <2>1, <2>2, <2>3, WithIs
  <2> QED
    BY <2>1, <2>4
<1>4. \A r \in 0 .. n : r \in S
  <2> HIDE DEF S, n
  <2> QED
    BY <1>1, <1>2, <1>3, CountingUpTo
<1> QED
  BY <1>4

LEMMA ConcatThree ==
    ASSUME NEW T, NEW a \in Seq(T), NEW c \in Seq(T), NEW d \in Seq(T)
    PROVE  a \o (c \o d) = (a \o c) \o d
BY ConcatAssociative, SMTT(30)

LEMMA BytesConcat ==
    ASSUME NEW a \in Seq(Bytes), NEW c \in Seq(Bytes), NEW d \in Seq(Bytes)
    PROVE  a \o (c \o d) = (a \o c) \o d /\ a \o c \in Seq(Bytes)
BY ConcatThree, ConcatProperties

\* write takes the first n bytes and leaves the others.
LEMMA Split ==
    ASSUME NEW T, NEW s \in Seq(T), NEW n \in 0 .. Len(s)
    PROVE  /\ SubSeq(s, 1, n) \in Seq(T) /\ SubSeq(s, n + 1, Len(s)) \in Seq(T)
           /\ Len(SubSeq(s, 1, n)) = n /\ Len(SubSeq(s, n + 1, Len(s))) = Len(s) - n
           /\ SubSeq(s, 1, n) \o SubSeq(s, n + 1, Len(s)) = s
<1>1. Len(s) \in Nat /\ \A i \in 1 .. Len(s) : s[i] \in T
  BY LenProperties, ElementOfSeq
<1>2. SubSeq(s, 1, n) \in Seq(T) /\ Len(SubSeq(s, 1, n)) = n
  BY <1>1, SubSeqProperties
<1>3. SubSeq(s, n + 1, Len(s)) \in Seq(T) /\ Len(SubSeq(s, n + 1, Len(s))) = Len(s) - n
  BY <1>1, SubSeqProperties
<1>4. SubSeq(s, 1, n) \o SubSeq(s, n + 1, Len(s)) = SubSeq(s, 1, Len(s))
  <2>1. 1 \in 1 .. Len(s) + 1 /\ n \in 1 - 1 .. Len(s) /\ Len(s) \in n .. Len(s)
    BY <1>1
  <2> QED
    BY <2>1, ConcatAdjacentSubSeq
<1> QED
  BY <1>2, <1>3, <1>4, SubSeqFull

LEMMA PrefixOfConcat ==
    ASSUME NEW T, NEW s \in Seq(T), NEW t \in Seq(T)
    PROVE  Output!IsPrefix(s, s \o t)
<1>1. Len(s) \in Nat /\ Len(t) \in Nat /\ Len(s \o t) = Len(s) + Len(t) /\ s \o t \in Seq(T)
      /\ \A i \in 1 .. Len(s) : (s \o t)[i] = s[i]
  BY LenProperties, ConcatProperties
<1> QED
  BY <1>1 DEF Output!IsPrefix

-----------------------------------------------------------------------------
(***************************************************************************)
(* The inductive invariant of Reply.  What was read, what the socket holds *)
(* and what is queued are, one after the other, the replies up to the one  *)
(* being sent, and of that one what pc says.                               *)
(***************************************************************************)
Stream == (got \o socket) \o queued

Delivered ==
    LET W == Output!Whole
        n == Len(request)
    IN  /\ pc = "idle" /\ ~closed => Stream = W[n]
        /\ pc = "idle" /\ closed => Output!IsPrefix(got \o socket, W[n])
        /\ pc = "send" => Stream = W[n - 1]
        /\ pc = "sendfile" =>
              /\ queued = <<>>
              /\ \/ send_size = 0 /\ Stream = W[n - 1] \o Output!PreBody(n)
                 \/ send_size >= request[n].size /\ Stream = W[n]
        /\ pc = "end" => Stream = W[n]

ReplyTypes ==
    /\ request \in Seq(Output!ReplyRecords) /\ Len(request) <= MaxReplies
    /\ pc \in {"idle", "send", "sendfile", "end"}
    /\ queued \in Seq(Bytes) /\ socket \in Seq(Bytes) /\ got \in Seq(Bytes)
    /\ Len(socket) <= SocketRoom
    /\ send_size \in Nat /\ read_index \in Nat /\ buffer_size \in Nat
    /\ writing \in BOOLEAN /\ closed \in BOOLEAN /\ cut \in BOOLEAN /\ compacted \in BOOLEAN

\* A reply that closes is the last one, and nothing is sent once the connection is closed.
\* Only files can be cut, and as long as there was none, the client has read everything
\* when it asks, so that nothing is appended to a partly sent buffer.
Closing ==
    /\ pc # "idle" => Len(request) # 0 /\ ~closed
    /\ closed => ~writing /\ queued = <<>>
    /\ \A r \in 1 .. Len(request) : request[r].close => r = Len(request) /\ (pc # "idle" \/ closed)
    /\ pc = "sendfile" => request[Len(request)].type = "FILE_TYPE"
    /\ cut \/ compacted => \E r \in 1 .. Len(request) : request[r].type = "FILE_TYPE"
    /\ queued = <<>> => read_index = 0 \/ closed
    /\ pc = "send" => queued = <<>> \/ \E r \in 1 .. Len(request) : request[r].type = "FILE_TYPE"

StreamInv == ReplyTypes /\ Closing /\ (~cut /\ ~compacted => Delivered)

\* What a list of replies has.
LEMMA ReplyFacts ==
    ASSUME ReplyTypes
    PROVE  /\ MaxReplies \in Nat /\ SocketRoom \in Nat /\ SocketRoom # 0
           /\ Len(request) \in 0 .. MaxReplies
           /\ Len(got) \in Nat /\ Len(queued) \in Nat /\ Len(socket) \in 0 .. SocketRoom
           /\ \A r \in 1 .. Len(request) :
                 /\ r \in 1 .. MaxReplies
                 /\ request[r].size \in Nat /\ request[r].type \in {"HTML_TYPE", "FILE_TYPE"}
                 /\ Output!Whole[r] = With(r, Output!Whole[r - 1], request[r])
           /\ \A r \in 0 .. Len(request) : Output!Whole[r] \in Seq(Bytes)
           /\ Output!Whole[0] = <<>>
<1>1. MaxReplies \in Nat /\ SocketRoom \in Nat /\ SocketRoom # 0 /\ Sizes \subseteq Nat
  BY PartsAssumption DEF Output!ReplyAssumption
<1>2. Len(request) \in 0 .. MaxReplies /\ Len(got) \in Nat /\ Len(queued) \in Nat
      /\ Len(socket) \in 0 .. SocketRoom
  BY <1>1, LenProperties DEF ReplyTypes
<1>3. ASSUME NEW r \in 1 .. Len(request)
      PROVE  /\ r \in 1 .. MaxReplies
             /\ request[r].size \in Nat /\ request[r].type \in {"HTML_TYPE", "FILE_TYPE"}
  <2>1. request[r] \in Output!ReplyRecords
    BY ElementOfSeq DEF ReplyTypes
  <2>2. request[r].size \in Sizes /\ request[r].type \in {"HTML_TYPE", "FILE_TYPE"}
    BY <2>1 DEF Output!ReplyRecords, Output!Types
  <2>3. r \in 1 .. MaxReplies
    BY <1>1, <1>2
  <2> QED
    BY <1>1, <2>2, <2>3
<1>4. IsWhole(Output!Whole, request)
  BY WholeIs
<1>5. \A r \in 0 .. Len(request) : Output!Whole[r] \in Seq(Bytes)
  BY <1>4, WholeTyped DEF ReplyTypes
<1> QED
  BY <1>1, <1>2, <1>3, <1>4, <1>5 DEF IsWhole

\* The replies before n stay what they are.
LEMMA WholeStays ==
    ASSUME ReplyTypes, NEW n \in 0 .. MaxReplies,
           \A r \in 1 .. n : request'[r].size = request[r].size
    PROVE  \A r \in 0 .. n : Output!Whole'[r] = Output!Whole[r]
<1>1. IsWhole(Output!Whole, request) /\ IsWhole(Output!Whole', request')
  BY WholeIs, WholeIsNext DEF IsWhole, With, Output!PreBody, Output!Body, Output!Byte
<1>2. n \in Nat /\ n <= MaxReplies
  BY ReplyFacts
<1> DEFINE f == Output!Whole
           g == Output!Whole'
           q == request'
<1>3. IsWhole(f, request) /\ IsWhole(g, q) /\ \A r \in 1 .. n : q[r].size = request[r].size
  BY <1>1
<1> HIDE DEF f, g, q
<1>4. \A r \in 0 .. n : g[r] = f[r]
  BY <1>2, <1>3, WholeSame
<1> QED
  BY <1>4 DEF f, g

LEMMA TakenIs ==
    ASSUME ReplyTypes, NEW n \in Nat
    PROVE  Output!Taken(n) \in 0 .. n /\ Output!Taken(n) <= SocketRoom - Len(socket)
BY ReplyFacts DEF Output!Taken, Output!Least

LEMMA StreamInit == Output!Init => StreamInv
<1> SUFFICES ASSUME Output!Init PROVE StreamInv
  OBVIOUS
<1>1. /\ request = <<>> /\ pc = "idle" /\ queued = <<>> /\ socket = <<>> /\ got = <<>>
      /\ writing = FALSE /\ closed = FALSE /\ cut = FALSE /\ send_size = 0
      /\ compacted = FALSE /\ read_index = 0 /\ buffer_size = 0
  BY DEF Output!Init
<1>2. <<>> \in Seq(Output!ReplyRecords) /\ <<>> \in Seq(Bytes) /\ Len(<<>>) = 0
  BY EmptySeq
<1>3. ReplyTypes
  <2>1. 0 <= MaxReplies /\ 0 <= SocketRoom /\ 0 \in Nat
    BY PartsAssumption DEF Output!ReplyAssumption
  <2>2. request \in Seq(Output!ReplyRecords) /\ Len(request) <= MaxReplies
    BY <1>1, <1>2, <2>1
  <2>3. queued \in Seq(Bytes) /\ socket \in Seq(Bytes) /\ got \in Seq(Bytes)
    BY <1>1, <1>2
  <2>4. Len(socket) <= SocketRoom
    BY <1>1, <1>2, <2>1
  <2> QED
    BY <1>1, <2>1, <2>2, <2>3, <2>4 DEF ReplyTypes
<1>4. Closing
  BY <1>1 DEF Closing
<1>5. Delivered
  BY <1>1, <1>3, ReplyFacts DEF Delivered, Stream
<1> QED
  BY <1>3, <1>4, <1>5 DEF StreamInv

MoreWith(r, before) == before + 1 + Output!ContentLength(r)

IsAnnounced(f) ==
    /\ f[0] = 0
    /\ \A r \in 1 .. MaxReplies : f[r] = MoreWith(r, f[r - 1])

LEMMA AnnouncedIs == IsAnnounced(Output!Announced)
<1> DEFINE Defines(f, n) == f = [r \in 0 .. n |-> IF r = 0 THEN 0 ELSE MoreWith(r, f[r - 1])]
           Has == {n \in Nat : \E f : Defines(f, n)}
<1>1. 0 \in Has
  <2> DEFINE f == [r \in 0 .. 0 |-> 0]
  <2>1. Defines(f, 0)
    OBVIOUS
  <2> QED
    BY <2>1
<1>2. ASSUME NEW n \in Has PROVE n + 1 \in Has
  <2>1. PICK f : Defines(f, n)
    OBVIOUS
  <2> DEFINE g == [r \in 0 .. n + 1 |-> IF r = n + 1 THEN MoreWith(r, f[n]) ELSE f[r]]
             h == [r \in 0 .. n + 1 |-> IF r = 0 THEN 0 ELSE MoreWith(r, g[r - 1])]
  <2>2. n \in Nat
    OBVIOUS
  <2>3. f[0] = 0 /\ \A r \in 1 .. n : f[r] = MoreWith(r, f[r - 1])
    <3> DEFINE Value(r) == IF r = 0 THEN 0 ELSE MoreWith(r, f[r - 1])
    <3>1. \A r \in 0 .. n : f[r] = Value(r)
      <4>1. f = [r \in 0 .. n |-> Value(r)]
        BY <2>1
      <4> HIDE DEF Value, Has
      <4> QED
        BY <4>1
    <3>2. 0 \in 0 .. n /\ \A r \in 1 .. n : r \in 0 .. n /\ r # 0
      BY <2>2
    <3> QED
      BY <3>1, <3>2
  <2>4. ASSUME NEW r \in 0 .. n + 1 PROVE g[r] = h[r]
    <3>1. CASE r = 0
      BY <2>2, <2>3, <3>1
    <3>2. CASE r \in 1 .. n
      <4>1. g[r] = f[r] /\ g[r - 1] = f[r - 1] /\ r # 0
        BY <2>2, <3>2
      <4>2. h[r] = MoreWith(r, g[r - 1])
        BY <4>1
      <4> QED
        BY <2>3, <3>2, <4>1, <4>2
    <3>3. CASE r = n + 1
      <4>1. g[r] = MoreWith(r, f[n]) /\ g[n] = f[n] /\ r # 0 /\ r - 1 = n
        BY <2>2, <3>3
      <4>2. h[r] = MoreWith(r, g[r - 1])
        BY <4>1
      <4> QED
        BY <4>1, <4>2
    <3> QED
      BY <2>2, <3>1, <3>2, <3>3
  <2>5. g = h
    BY <2>4
  <2>6. Defines(g, n + 1)
    BY <2>5
  <2> HIDE DEF Defines, g
  <2>7. \E e : Defines(e, n + 1)
    BY <2>6
  <2> QED
    BY <2>2, <2>7
<1>3. MaxReplies \in Has
  <2>1. Has = Nat
    <3>1. Has \in SUBSET Nat
      OBVIOUS
    <3> HIDE DEF Has
    <3> QED
      BY <1>1, <1>2, <3>1, Counting
  <2> QED
    BY <2>1, PartsAssumption DEF Output!ReplyAssumption
<1>4. Defines(Output!Announced, MaxReplies)
  <2>1. \E f : Defines(f, MaxReplies)
    BY <1>3
  <2>2. Output!Announced = CHOOSE f : Defines(f, MaxReplies)
    BY DEF Output!Announced, MoreWith
  <2>3. Defines(CHOOSE f : Defines(f, MaxReplies), MaxReplies)
    <3> HIDE DEF Defines
    <3> QED
      BY <2>1
  <2> HIDE DEF Defines
  <2> QED
    BY <2>2, <2>3
<1>5. MaxReplies \in Nat
  BY PartsAssumption DEF Output!ReplyAssumption
<1>6. \A r \in 0 .. MaxReplies :
         Output!Announced[r] = IF r = 0 THEN 0 ELSE MoreWith(r, Output!Announced[r - 1])
  <2> DEFINE W == Output!Announced
             Value(r) == IF r = 0 THEN 0 ELSE MoreWith(r, W[r - 1])
  <2>1. W = [r \in 0 .. MaxReplies |-> Value(r)]
    BY <1>4
  <2> HIDE DEF W, Value
  <2>2. \A r \in 0 .. MaxReplies : W[r] = Value(r)
    BY <2>1
  <2> QED
    BY <2>2 DEF W, Value
<1>7. 0 \in 0 .. MaxReplies /\ \A r \in 1 .. MaxReplies : r \in 0 .. MaxReplies /\ r # 0
  BY <1>5
<1> QED
  BY <1>6, <1>7 DEF IsAnnounced

\* As long as no head is without a length and no reply is a file, what is announced
\* is what is sent.
LEMMA AnnouncedIsSent ==
    ASSUME ReplyTypes, \A r \in 1 .. Len(request) : ~request[r].close /\ request[r].type = "HTML_TYPE"
    PROVE  \A r \in 0 .. Len(request) : Output!Announced[r] = Len(Output!Whole[r])
<1> DEFINE n == Len(request)
           S == {r \in 0 .. n : Output!Announced[r] = Len(Output!Whole[r])}
<1>1. n \in Nat /\ MaxReplies \in Nat
  BY ReplyFacts
<1>2. IsAnnounced(Output!Announced)
  BY AnnouncedIs
<1>3. 0 \in S
  <2>1. 0 \in 0 .. n /\ Output!Announced[0] = 0 /\ Output!Whole[0] = <<>> /\ Len(<<>>) = 0
    BY <1>1, <1>2, ReplyFacts, EmptySeq DEF IsAnnounced
  <2> QED
    BY <2>1
<1>4. ASSUME NEW r \in 0 .. n - 1, r \in S PROVE r + 1 \in S
  <2>1. r + 1 \in 1 .. n /\ r + 1 \in 0 .. n /\ r \in 0 .. n /\ (r + 1) - 1 = r
    BY <1>1
  <2>2. r + 1 \in 1 .. MaxReplies /\ request[r + 1].size \in Nat
        /\ Output!Whole[r + 1] = With(r + 1, Output!Whole[r], request[r + 1])
        /\ Output!Whole[r] \in Seq(Bytes)
    BY <2>1, ReplyFacts
  <2>3. Len(Output!Whole[r + 1]) = Len(Output!Whole[r]) + 1 + request[r + 1].size
    BY <2>2, WithIs, SMTT(30)
  <2>4. Output!ContentLength(r + 1) = request[r + 1].size
    BY <2>1 DEF Output!ContentLength
  <2>5. Output!Announced[r + 1] = Output!Announced[r] + 1 + request[r + 1].size
    BY <1>2, <2>1, <2>2, <2>4 DEF IsAnnounced, MoreWith
  <2>6. Output!Announced[r] = Len(Output!Whole[r])
    BY <1>4
  <2> QED
    BY <2>1, <2>3, <2>5, <2>6
<1>5. \A r \in 0 .. n : r \in S
  <2> HIDE DEF S, n
  <2> QED
    BY <1>1, <1>3, <1>4, CountingUpTo
<1> QED
  BY <1>5

\* When a client that was sent no file asks again, it has read everything.
LEMMA NothingWaits ==
    ASSUME StreamInv, ~closed, pc = "idle",
           ~(\E r \in 1 .. Len(request) : request[r].type = "FILE_TYPE"),
           ~(Len(got) < Output!Announced[Len(request)])
    PROVE  got = Output!Whole[Len(request)] /\ queued = <<>> /\ ~compacted
<1> DEFINE c == Len(request)
<1>1. ReplyTypes /\ Closing /\ ~cut /\ ~compacted /\ Stream = Output!Whole[c]
  BY DEF StreamInv, Closing, Delivered
<1>2. \A r \in 1 .. c : ~request[r].close /\ request[r].type = "HTML_TYPE"
  BY <1>1, ReplyFacts DEF Closing
<1>3. c \in 0 .. c
  BY <1>1, ReplyFacts
<1>4. Output!Announced[c] = Len(Output!Whole[c])
  BY <1>1, <1>2, <1>3, AnnouncedIsSent
<1>5. got \in Seq(Bytes) /\ socket \in Seq(Bytes) /\ queued \in Seq(Bytes)
      /\ Len(got) \in Nat /\ Len(socket) \in Nat /\ Len(queued) \in Nat
  BY <1>1, ReplyFacts DEF ReplyTypes
<1>6. got \o socket \in Seq(Bytes) /\ Len(got \o socket) = Len(got) + Len(socket)
  BY <1>5, ConcatProperties
<1>7. Len(Stream) = Len(got) + Len(socket) + Len(queued)
  <2>1. Len((got \o socket) \o queued) = Len(got \o socket) + Len(queued)
    BY <1>5, <1>6, ConcatProperties
  <2> QED
    BY <1>6, <2>1 DEF Stream
<1>8. Len(socket) = 0 /\ Len(queued) = 0
  BY <1>1, <1>4, <1>5, <1>7
<1>9. socket = <<>> /\ queued = <<>>
  BY <1>5, <1>8, EmptySeq
<1>10. Stream = got
  <2>1. got \o <<>> = got
    BY <1>5, ConcatEmptySeq
  <2> QED
    BY <1>9, <2>1 DEF Stream
<1> QED
  BY <1>1, <1>9, <1>10

LEMMA RequestStep ==
    ASSUME StreamInv, NEW reply \in Output!ReplyRecords, Output!Request(reply)
    PROVE  StreamInv'
<1>1. /\ ReplyTypes /\ Closing
      /\ ~closed /\ pc = "idle" /\ Len(request) < MaxReplies
      /\ Len(got) >= Output!Announced[Len(request)]
      /\ request' = Append(request, reply) /\ pc' = "send"
      /\ UNCHANGED <<queued, read_index, buffer_size, compacted, writing, send_size, socket, got,
                     closed, cut>>
  BY DEF StreamInv, Output!Request, Output!Current, Output!buffer
<1>2. /\ Len(request) \in Nat /\ MaxReplies \in Nat
      /\ request' \in Seq(Output!ReplyRecords) /\ Len(request') = Len(request) + 1
      /\ \A r \in 1 .. Len(request) : request'[r] = request[r]
  BY <1>1, ReplyFacts, AppendProperties DEF ReplyTypes
<1>3. ReplyTypes'
  BY <1>1, <1>2 DEF ReplyTypes
<1>4. Closing'
  <2> DEFINE c == Len(request)
             files == \E r \in 1 .. c : request[r].type = "FILE_TYPE"
             more == \E r \in 1 .. Len(request') : request'[r].type = "FILE_TYPE"
  <2>1. files => more
    BY <1>2
  <2>2. queued = <<>> \/ files
    <3> SUFFICES ASSUME ~files PROVE queued = <<>>
      OBVIOUS
    <3>1. Len(got) \in Nat /\ ~(Len(got) < Output!Announced[c])
      <4>1. Len(got) \in Nat
        BY <1>1, ReplyFacts
      <4>2. Output!Announced[c] \in Nat
        <5>1. \A r \in 1 .. c : ~request[r].close /\ request[r].type = "HTML_TYPE"
          BY <1>1, ReplyFacts DEF Closing
        <5>2. c \in 0 .. c /\ Output!Whole[c] \in Seq(Bytes)
          BY <1>1, <1>2, ReplyFacts
        <5>3. Output!Announced[c] = Len(Output!Whole[c])
          BY <1>1, <5>1, <5>2, AnnouncedIsSent
        <5> QED
          BY <5>2, <5>3, LenProperties
      <4> QED
        BY <1>1, <4>1, <4>2
    <3> QED
      BY <1>1, <3>1, NothingWaits
  <2> HIDE DEF files, more
  <2>3. cut \/ compacted => files
    BY <1>1 DEF Closing, files
  <2>4. \A r \in 1 .. Len(request') : request'[r].close => r = Len(request')
    BY <1>1, <1>2 DEF Closing
  <2> QED
    BY <1>1, <1>2, <2>1, <2>2, <2>3, <2>4 DEF Closing, more
<1>5. ~cut /\ ~compacted => Delivered'
  <2> SUFFICES ASSUME ~cut, ~compacted PROVE Delivered'
    OBVIOUS
  <2>1. Stream = Output!Whole[Len(request)]
    BY <1>1 DEF StreamInv, Delivered
  <2>2. Output!Whole'[Len(request)] = Output!Whole[Len(request)]
    <3>1. Len(request) \in 0 .. MaxReplies /\ Len(request) \in 0 .. Len(request)
      BY <1>1, <1>2
    <3> QED
      BY <1>1, <1>2, <3>1, WholeStays
  <2>3. Stream' = Stream
    BY <1>1 DEF Stream
  <2>4. Len(request') - 1 = Len(request)
    BY <1>2
  <2> QED
    BY <1>1, <2>1, <2>2, <2>3, <2>4 DEF Delivered
<1> QED
  BY <1>1, <1>3, <1>4, <1>5 DEF StreamInv

LEMMA ClientReadsStep ==
    ASSUME StreamInv, Output!ClientReads
    PROVE  StreamInv'
<1>1. /\ ReplyTypes /\ Closing
      /\ UNCHANGED <<request, pc, queued, read_index, buffer_size, compacted, writing, send_size,
                     closed, cut>>
  BY DEF StreamInv, Output!ClientReads, Output!buffer
<1>2. PICK n \in 1 .. Len(socket) : /\ got' = got \o SubSeq(socket, 1, n)
                                   /\ socket' = SubSeq(socket, n + 1, Len(socket))
  BY DEF Output!ClientReads
<1> DEFINE s1 == SubSeq(socket, 1, n)
           s2 == SubSeq(socket, n + 1, Len(socket))
<1>3. got \in Seq(Bytes) /\ socket \in Seq(Bytes) /\ queued \in Seq(Bytes) /\ n \in 0 .. Len(socket)
      /\ Len(socket) \in 0 .. SocketRoom /\ SocketRoom \in Nat
  BY <1>1, ReplyFacts DEF ReplyTypes
<1>4. s1 \in Seq(Bytes) /\ s2 \in Seq(Bytes) /\ Len(s2) <= Len(socket) /\ s1 \o s2 = socket
  BY <1>3, Split
<1>5. got' = got \o s1 /\ socket' = s2
  BY <1>2
<1> HIDE DEF s1, s2
<1>6. got' \o socket' = got \o socket /\ got' \in Seq(Bytes)
  <2> DEFINE a == got
  <2>0. a \in Seq(Bytes) /\ s1 \in Seq(Bytes) /\ s2 \in Seq(Bytes)
    BY <1>3, <1>4
  <2> HIDE DEF a
  <2>1. a \o (s1 \o s2) = (a \o s1) \o s2
    BY <2>0, BytesConcat
  <2>2. got \o s1 \in Seq(Bytes)
    BY <1>3, <1>4, ConcatProperties
  <2> QED
    BY <1>4, <1>5, <2>1, <2>2 DEF a
<1>7. ReplyTypes'
  BY <1>1, <1>3, <1>4, <1>5, <1>6 DEF ReplyTypes
<1>8. Closing'
  BY <1>1 DEF Closing
<1>9. ~cut /\ ~compacted => Delivered'
  <2>1. \A r \in 0 .. Len(request) : Output!Whole'[r] = Output!Whole[r]
    BY <1>1, ReplyFacts, WholeStays
  <2>2. Stream' = Stream
    BY <1>1, <1>6 DEF Stream
  <2>3. /\ Len(request) \in 0 .. Len(request)
        /\ pc # "idle" => Len(request) - 1 \in 0 .. Len(request)
    BY <1>1, ReplyFacts DEF Closing
  <2> QED
    BY <1>1, <1>6, <2>1, <2>2, <2>3 DEF StreamInv, Delivered
<1> QED
  BY <1>1, <1>7, <1>8, <1>9 DEF StreamInv

LEMMA BytesThree ==
    \A x \in Seq(Bytes) : \A c \in Seq(Bytes) : \A d \in Seq(Bytes) :
        (x \o c) \o d = x \o (c \o d)
<1> TAKE x \in Seq(Bytes)
<1> TAKE c \in Seq(Bytes)
<1> TAKE d \in Seq(Bytes)
<1> QED
  BY ConcatAssociative

LEMMA OneOfThemEmpty ==
    \A g \in Seq(Bytes) : \A s \in Seq(Bytes) : \A q \in Seq(Bytes) :
    \A d1 \in Seq(Bytes) : \A d2 \in Seq(Bytes) :
        q = <<>> \/ d1 = <<>>
            => (g \o (s \o d1)) \o (q \o d2) = ((g \o s) \o q) \o (d1 \o d2)
<1> TAKE g \in Seq(Bytes)
<1> TAKE s \in Seq(Bytes)
<1> TAKE q \in Seq(Bytes)
<1> TAKE d1 \in Seq(Bytes)
<1> TAKE d2 \in Seq(Bytes)
<1> HAVE q = <<>> \/ d1 = <<>>
<1>1. g \o s \in Seq(Bytes)
  BY ConcatProperties
<1>2. <<>> \o d2 = d2 /\ (g \o s) \o <<>> = g \o s /\ s \o <<>> = s
  BY <1>1, ConcatEmptySeq
<1>3. (g \o s) \o d1 = g \o (s \o d1)
  BY ZenonT(60), BytesThree
<1>4. ((g \o s) \o d1) \o d2 = (g \o s) \o (d1 \o d2)
  BY Zenon, <1>1, BytesThree
<1>5. ((g \o s) \o q) \o d2 = (g \o s) \o (q \o d2)
  BY Zenon, <1>1, BytesThree
<1>6. CASE q = <<>>
  BY Zenon, <1>2, <1>3, <1>4, <1>6
<1>7. CASE d1 = <<>>
  BY Zenon, <1>2, <1>5, <1>7
<1> QED
  BY <1>6, <1>7

\* What SendClientMessage hands over and what it queues is data, after what was there.
LEMMA SendSplits ==
    ASSUME NEW data \in Seq(Bytes), NEW n \in 0 .. Len(data)
    PROVE  /\ ReplyTypes
           /\ queued = <<>> \/ n = 0
           /\ n <= SocketRoom - Len(socket)
           /\ socket' = socket \o SubSeq(data, 1, n)
           /\ got' = got
           => /\ socket' \in Seq(Bytes) /\ Len(socket') <= SocketRoom
              /\ queued' = queued \o SubSeq(data, n + 1, Len(data)) => Stream' = Stream \o data
<1>0. SUFFICES ASSUME ReplyTypes, queued = <<>> \/ n = 0, n <= SocketRoom - Len(socket),
                      socket' = socket \o SubSeq(data, 1, n), got' = got
               PROVE  /\ socket' \in Seq(Bytes) /\ Len(socket') <= SocketRoom
                      /\ queued' = queued \o SubSeq(data, n + 1, Len(data))
                            => Stream' = Stream \o data
  OBVIOUS
<1> DEFINE d1 == SubSeq(data, 1, n)
           d2 == SubSeq(data, n + 1, Len(data))
           g == got
           s == socket
           q == queued
<1>1. g \in Seq(Bytes) /\ s \in Seq(Bytes) /\ q \in Seq(Bytes)
  BY <1>0 DEF ReplyTypes
<1>2. d1 \in Seq(Bytes) /\ d2 \in Seq(Bytes) /\ Len(d1) = n /\ d1 \o d2 = data
  BY Split
<1>3. socket' = s \o d1 /\ (q = <<>> \/ n = 0)
  BY <1>0
<1>4. /\ Stream = (g \o s) \o q /\ Stream' = (g \o socket') \o queued'
      /\ queued' = queued \o SubSeq(data, n + 1, Len(data)) => queued' = q \o d2
  BY <1>0 DEF Stream
<1>5. Len(s) \in 0 .. SocketRoom /\ SocketRoom \in Nat /\ n \in Nat /\ n <= SocketRoom - Len(s)
  BY <1>0, ReplyFacts
<1> HIDE DEF d1, d2, g, s, q
<1>6. socket' \in Seq(Bytes)
  <2>1. s \o d1 \in Seq(Bytes)
    BY <1>1, <1>2, ConcatProperties
  <2> QED
    BY <1>3, <2>1
<1>7. Len(socket') <= SocketRoom
  <2>1. Len(s \o d1) = Len(s) + Len(d1)
    BY <1>1, <1>2, ConcatProperties
  <2> QED
    BY <1>2, <1>3, <1>5, <2>1
<1>8. q = <<>> \/ d1 = <<>>
  BY <1>2, <1>3, EmptySeq
<1>9. queued' = q \o d2 => Stream' = Stream \o data
  <2>1. (g \o (s \o d1)) \o (q \o d2) = ((g \o s) \o q) \o (d1 \o d2)
    <3>1. g \in Seq(Bytes) /\ s \in Seq(Bytes) /\ q \in Seq(Bytes)
      BY <1>1
    <3>2. d1 \in Seq(Bytes) /\ d2 \in Seq(Bytes)
      BY <1>2
    <3>3. \A q1 \in Seq(Bytes) : \A c \in Seq(Bytes) : \A d \in Seq(Bytes) :
            q1 = <<>> \/ c = <<>>
                => (g \o (s \o c)) \o (q1 \o d) = ((g \o s) \o q1) \o (c \o d)
      BY Zenon, <3>1, OneOfThemEmpty
    <3>4. \A d \in Seq(Bytes) :
            (g \o (s \o d1)) \o (q \o d) = ((g \o s) \o q) \o (d1 \o d)
      BY ZenonT(60), <1>8, <3>1, <3>2, <3>3
    <3> QED
      BY Zenon, <3>2, <3>4
  <2> QED
    BY <1>2, <1>3, <1>4, <2>1
<1> QED
  BY <1>4, <1>6, <1>7, <1>9

\* What Append leaves behind what was there, in a buffer of elements of T.
LEMMA AppendOutputIs ==
    ASSUME NEW T, NEW data \in Seq(T), queued \in Seq(T),
           read_index \in Nat, buffer_size \in Nat, compacted \in BOOLEAN,
           \A m \in Nat : Output!Stale(m) \in Seq(T),
           Output!AppendOutput(data)
    PROVE  /\ queued' \in Seq(T)
           /\ read_index' \in Nat /\ buffer_size' \in Nat /\ compacted' \in BOOLEAN
           /\ ~compacted' => ~compacted /\ queued' = queued \o data /\ read_index' = read_index
           /\ queued = <<>> /\ read_index = 0 => compacted' = compacted
           /\ queued' = <<>> => read_index' = 0 \/ (queued = <<>> /\ read_index' = read_index)
<1>1. Len(data) \in Nat /\ Len(queued) \in Nat /\ queued \o data \in Seq(T)
      /\ Len(queued \o data) = Len(queued) + Len(data)
  BY LenProperties, ConcatProperties
<1>2. CASE data = <<>>
  <2>1. queued \o <<>> = queued
    BY ConcatEmptySeq
  <2>2. UNCHANGED <<queued, read_index, buffer_size, compacted>>
    BY <1>2 DEF Output!AppendOutput, Output!buffer
  <2> QED
    BY <1>2, <2>1, <2>2
<1>3. CASE data # <<>> /\ ~Output!Compacts(Len(data))
  <2>1. Output!AppendBehind(data)
    BY <1>3 DEF Output!AppendOutput
  <2>2. /\ queued' = queued \o data /\ read_index' = read_index /\ compacted' = compacted
        /\ buffer_size' \in {buffer_size, read_index + Len(queued) + Len(data)}
    BY <2>1 DEF Output!AppendBehind
  <2>3. buffer_size' \in Nat
    <3>1. read_index + Len(queued) + Len(data) \in Nat
      BY <1>1
    <3> QED
      BY <2>2, <3>1
  <2>4. Len(data) # 0
    BY <1>3, EmptySeq
  <2>5. queued' # <<>>
    BY <1>1, <2>2, <2>4, EmptySeq
  <2> QED
    BY <1>1, <2>2, <2>3, <2>5
<1>4. CASE data # <<>> /\ Output!Compacts(Len(data))
  <2>1. Output!AppendCompacted(data)
    BY <1>4 DEF Output!AppendOutput
  <2>2. PICK kept \in 0 .. Len(data) :
           queued' = queued \o Output!Stale(read_index)
                            \o SubSeq(data, 1, kept) \o Output!Stale(Len(data) - kept)
    BY <2>1 DEF Output!AppendCompacted
  <2>3. read_index' = 0 /\ compacted' = TRUE /\ buffer_size' = buffer_size
    BY <2>1 DEF Output!AppendCompacted
  <2>4. SubSeq(data, 1, kept) \in Seq(T)
    BY Split
  <2>5. Len(data) - kept \in Nat
    BY <1>1
  <2>6. Output!Stale(read_index) \in Seq(T) /\ Output!Stale(Len(data) - kept) \in Seq(T)
    BY <2>5
  <2> DEFINE s1 == Output!Stale(read_index)
             s2 == SubSeq(data, 1, kept)
             s3 == Output!Stale(Len(data) - kept)
  <2>7. s1 \in Seq(T) /\ s2 \in Seq(T) /\ s3 \in Seq(T) /\ queued' = queued \o s1 \o s2 \o s3
    BY <2>2, <2>4, <2>6
  <2> HIDE DEF s1, s2, s3
  <2>8. queued \o s1 \o s2 \o s3 \in Seq(T)
    <3>1. queued \o s1 \in Seq(T)
      BY <2>7, ConcatProperties
    <3>2. queued \o s1 \o s2 \in Seq(T)
      BY <2>7, <3>1, ConcatProperties
    <3> QED
      BY <2>7, <3>2, ConcatProperties
  <2>9. ~(queued = <<>> /\ read_index = 0)
    <3> SUFFICES ASSUME queued = <<>>, read_index = 0 PROVE FALSE
      OBVIOUS
    <3>1. Len(queued) = 0
      BY EmptySeq
    <3> QED
      BY <1>1, <1>4, <3>1 DEF Output!Compacts, Output!WritableBytes
  <2> QED
    BY <2>3, <2>7, <2>8, <2>9
<1> QED
  BY <1>2, <1>3, <1>4

LEMMA StaleIs ==
    ASSUME NEW T, \A k \in Nat : Output!Byte(Len(request), "stale", k) \in T, NEW n \in Nat
    PROVE  Output!Stale(n) \in Seq(T)
<1> DEFINE f == [k \in 1 .. n |-> Output!Byte(Len(request), "stale", k)]
<1>1. \A k \in 1 .. n : k \in Nat
  OBVIOUS
<1>2. f \in [1 .. n -> T]
  BY <1>1
<1> HIDE DEF f
<1>3. f \in Seq(T)
  BY <1>2, FunctionIsSeqOf
<1> QED
  BY <1>3 DEF Output!Stale, Output!Current, f

\* The replies do not change: what Delivered says of them does not either.
LEMMA SameReplies ==
    ASSUME ReplyTypes, request' = request
    PROVE  \A r \in 0 .. Len(request) : Output!Whole'[r] = Output!Whole[r]
BY ReplyFacts, WholeStays

LEMMA SendStep ==
    ASSUME StreamInv, Output!Send
    PROVE  StreamInv'
<1> DEFINE c == Len(request)
           reply == request[c]
           data == IF reply.type = "HTML_TYPE"
                   THEN Output!PreBody(c) \o Output!Body(c, 0, reply.size) ELSE Output!PreBody(c)
           n == IF queued = <<>> THEN Output!Taken(Len(data)) ELSE 0
           rest == SubSeq(data, n + 1, Len(data))
<1>1. /\ ReplyTypes /\ Closing /\ pc = "send"
      /\ socket' = socket \o SubSeq(data, 1, n) /\ Output!AppendOutput(rest)
      /\ writing' = (writing \/ rest # <<>>)
      /\ cut' = (cut \/ (reply.type = "FILE_TYPE" /\ rest # <<>>))
      /\ send_size' = 0
      /\ pc' = IF reply.type = "FILE_TYPE" THEN "sendfile" ELSE "end"
      /\ UNCHANGED <<request, got, closed>>
  BY Zenon DEF StreamInv, Output!Send, Output!Current, Output!WritesAtOnce, Output!Listening
<1>2. c \in 1 .. c /\ c \in 0 .. c /\ c - 1 \in 0 .. c /\ c \in 1 .. MaxReplies /\ c \in Nat
  <2>1. c \in 0 .. MaxReplies /\ MaxReplies \in Nat
    BY <1>1, ReplyFacts
  <2>2. c # 0
    <3>1. pc # "idle"
      BY <1>1, Zenon
    <3> QED
      BY <1>1, <3>1, Zenon DEF Closing
  <2> HIDE DEF c
  <2> QED
    BY <2>1, <2>2
<1>3. reply.size \in Nat /\ reply.type \in {"HTML_TYPE", "FILE_TYPE"}
      /\ Output!Whole[c] = With(c, Output!Whole[c - 1], reply)
      /\ Output!Whole[c - 1] \in Seq(Bytes)
  BY <1>1, <1>2, ReplyFacts
<1> DEFINE head == Output!PreBody(c)
           body == Output!Body(c, 0, reply.size)
<1>4. head \in Seq(Bytes) /\ Len(head) = 1 /\ body \in Seq(Bytes)
  BY <1>2, <1>3, PreBodyIs, BodyIs
<1>5. data = IF reply.type = "HTML_TYPE" THEN head \o body ELSE head
  OBVIOUS
<1> HIDE DEF head, body, data
<1>6. data \in Seq(Bytes) /\ Len(data) \in Nat
  <2>1. data \in Seq(Bytes)
    BY <1>4, <1>5, BytesConcat
  <2> QED
    BY <2>1, LenProperties
<1>7. n \in 0 .. Len(data) /\ (queued = <<>> \/ n = 0) /\ n <= SocketRoom - Len(socket)
  <2>1. 0 <= SocketRoom - Len(socket)
    BY <1>1, ReplyFacts
  <2>2. Output!Taken(Len(data)) \in 0 .. Len(data)
        /\ Output!Taken(Len(data)) <= SocketRoom - Len(socket)
    BY <1>1, <1>6, TakenIs
  <2> QED
    BY <1>6, <2>1, <2>2
<1> HIDE DEF n, reply
<1>12. /\ queued' \in Seq(Bytes)
       /\ read_index' \in Nat /\ buffer_size' \in Nat /\ compacted' \in BOOLEAN
       /\ ~compacted' => ~compacted /\ queued' = queued \o rest /\ read_index' = read_index
       /\ queued = <<>> /\ read_index = 0 => compacted' = compacted
       /\ queued' = <<>> => read_index' = 0 \/ (queued = <<>> /\ read_index' = read_index)
  <2>1. \A m \in Nat : Output!Stale(m) \in Seq(Bytes)
    <3>1. \A k \in Nat : Output!Byte(c, "stale", k) \in Bytes
      BY <1>2 DEF Output!Byte, Bytes
    <3> QED
      BY <3>1, StaleIs
  <2>2. rest \in Seq(Bytes)
    BY <1>6, <1>7, Split
  <2>3. queued \in Seq(Bytes) /\ read_index \in Nat /\ buffer_size \in Nat /\ compacted \in BOOLEAN
    BY <1>1 DEF ReplyTypes
  <2> HIDE DEF rest
  <2> QED
    BY <1>1, <2>1, <2>2, <2>3, AppendOutputIs
<1>8. /\ socket' \in Seq(Bytes) /\ Len(socket') <= SocketRoom
      /\ ~compacted' => Stream' = Stream \o data
  BY <1>1, <1>6, <1>7, <1>12, SendSplits
<1>9. ReplyTypes'
  <2>1. cut' \in BOOLEAN /\ writing' \in BOOLEAN
    BY Zenon, <1>1 DEF ReplyTypes
  <2>2. send_size' \in Nat /\ pc' \in {"idle", "send", "sendfile", "end"}
    BY <1>1
  <2> QED
    BY <1>1, <1>8, <1>12, <2>1, <2>2 DEF ReplyTypes
<1>10. Closing'
  <2> DEFINE files == \E r \in 1 .. c : request[r].type = "FILE_TYPE"
  <2>1. compacted' => compacted \/ files
    <3>1. ~closed /\ (queued = <<>> => read_index = 0 \/ closed) /\ (queued = <<>> \/ files)
      BY <1>1 DEF Closing
    <3> QED
      BY <1>12, <3>1
  <2>2. cut' => cut \/ files
    BY <1>1, <1>2 DEF reply
  <2>3. cut \/ compacted => files
    BY <1>1 DEF Closing
  <2>4. queued' = <<>> => read_index' = 0 \/ closed'
    BY <1>1, <1>12 DEF Closing
  <2>5. pc' \in {"sendfile", "end"} /\ (pc' = "sendfile" => reply.type = "FILE_TYPE")
    BY <1>1
  <2> HIDE DEF files
  <2>6. cut' \/ compacted' => files
    BY <2>1, <2>2, <2>3
  <2>7. closed' => ~writing' /\ queued' = <<>>
    BY <1>1 DEF Closing
  <2> QED
    BY <1>1, <1>2, <2>4, <2>5, <2>6, <2>7 DEF Closing, reply, files
<1>11. ~cut' /\ ~compacted' => Delivered'
  <2> SUFFICES ASSUME ~cut', ~compacted' PROVE Delivered'
    OBVIOUS
  <2>1. ~cut /\ ~compacted /\ (reply.type = "FILE_TYPE" => rest = <<>>)
        /\ queued' = queued \o rest
    BY <1>1, <1>12
  <2>2. Stream = Output!Whole[c - 1]
    BY <1>1, <2>1 DEF StreamInv, Delivered
  <2>3. \A r \in 0 .. c : Output!Whole'[r] = Output!Whole[r]
    BY <1>1, SameReplies
  <2>4. CASE reply.type = "HTML_TYPE"
    <3>1. Stream \o (head \o body) = (Stream \o head) \o body
      BY <1>3, <1>4, <2>2, BytesConcat
    <3>2. Stream' = Output!Whole[c]
      BY <1>3, <1>5, <1>8, <2>2, <2>4, <3>1 DEF With, head, body
    <3>3. pc' = "end" /\ request' = request
      BY <1>1, <2>4
    <3> QED
      BY <1>2, <2>3, <3>2, <3>3 DEF Delivered
  <2>5. CASE reply.type = "FILE_TYPE"
    <3>1. data = head
      BY <1>5, <2>5
    <3>2. queued = <<>> /\ queued' = <<>>
      <4>1. Len(rest) = Len(data) - n
        BY <1>6, <1>7, Split
      <4>2. n = 1
        BY <1>4, <1>6, <1>7, <2>1, <2>5, <3>1, <4>1, EmptySeq, SMTT(30)
      <4>3. queued = <<>>
        BY <1>7, <4>2
      <4> QED
        BY <1>1, <2>1, <2>5, <4>3
    <3>3. Stream' = Output!Whole[c - 1] \o Output!PreBody(c)
      BY <1>8, <2>2, <3>1 DEF head
    <3>4. pc' = "sendfile" /\ request' = request /\ send_size' = 0
      BY <1>1, <2>5
    <3> QED
      BY <1>2, <2>3, <3>2, <3>3, <3>4 DEF Delivered, Output!PreBody, Output!Byte
  <2> QED
    BY <1>3, <2>4, <2>5
<1> QED
  BY <1>9, <1>10, <1>11 DEF StreamInv

LEMMA SendFileStep ==
    ASSUME StreamInv, Output!SendFile
    PROVE  StreamInv'
<1> DEFINE c == Len(request)
           size == request[c].size
           n == Output!Taken(size - send_size)
           part == Output!Body(c, send_size, n)
<1>1. /\ ReplyTypes /\ Closing /\ pc = "sendfile"
      /\ send_size < size /\ n > 0
      /\ socket' = socket \o part
      /\ send_size' = send_size + n + n
      /\ cut' = (cut \/ n < size - send_size)
      /\ UNCHANGED <<request, pc, queued, read_index, buffer_size, compacted, writing, got, closed>>
  BY Zenon DEF StreamInv, Output!SendFile, Output!Current, Output!buffer
<1>2. c \in 1 .. c /\ c \in 0 .. c /\ c - 1 \in 0 .. c /\ c \in 1 .. MaxReplies /\ c \in Nat
  BY <1>1, ReplyFacts DEF Closing
<1>3. size \in Nat /\ send_size \in Nat /\ size - send_size \in Nat
      /\ request[c].type \in {"HTML_TYPE", "FILE_TYPE"}
      /\ Output!Whole[c] = With(c, Output!Whole[c - 1], request[c])
      /\ Output!Whole[c - 1] \in Seq(Bytes)
  <2>1. size \in Nat /\ request[c].type \in {"HTML_TYPE", "FILE_TYPE"}
        /\ Output!Whole[c] = With(c, Output!Whole[c - 1], request[c])
        /\ Output!Whole[c - 1] \in Seq(Bytes)
    BY <1>1, <1>2, ReplyFacts
  <2>2. send_size \in Nat /\ send_size < size
    BY <1>1 DEF ReplyTypes
  <2> HIDE DEF size
  <2>3. size - send_size \in Nat
    BY <2>1, <2>2
  <2> QED
    BY <2>1, <2>2, <2>3
<1> HIDE DEF size, n
<1>4. n \in 0 .. size - send_size /\ n <= SocketRoom - Len(socket) /\ n \in Nat
  BY <1>1, <1>3, TakenIs DEF n
<1>5. part \in Seq(Bytes) /\ Len(part) = n
  BY <1>2, <1>3, <1>4, BodyIs
<1>6. got \in Seq(Bytes) /\ socket \in Seq(Bytes) /\ queued \in Seq(Bytes)
      /\ Len(socket) \in Nat /\ SocketRoom \in Nat
  BY <1>1, ReplyFacts DEF ReplyTypes
<1> HIDE DEF part
<1>7. socket' \in Seq(Bytes) /\ Len(socket') <= SocketRoom
  <2>1. socket \o part \in Seq(Bytes) /\ Len(socket \o part) = Len(socket) + Len(part)
    BY <1>5, <1>6, ConcatProperties
  <2> QED
    BY <1>1, <1>4, <1>5, <1>6, <2>1
<1>8. ReplyTypes'
  <2>1. send_size' \in Nat /\ cut' \in BOOLEAN
    BY <1>1, <1>3, <1>4
  <2> QED
    BY <1>1, <1>7, <2>1 DEF ReplyTypes
<1>9. Closing'
  BY <1>1, <1>2, <1>3 DEF Closing
<1>10. ~cut' /\ ~compacted' => Delivered'
  <2> SUFFICES ASSUME ~cut', ~compacted' PROVE Delivered'
    OBVIOUS
  <2>1. ~cut /\ ~compacted /\ n = size - send_size
    <3>1. ~cut /\ ~compacted /\ ~(n < size - send_size)
      BY Zenon, <1>1
    <3> QED
      BY <1>3, <1>4, <3>1
  <2>2. send_size = 0 /\ queued = <<>> /\ Stream = Output!Whole[c - 1] \o Output!PreBody(c)
    <3>1. Delivered /\ ~(send_size >= size)
      BY <1>1, <1>3, <2>1 DEF StreamInv
    <3> QED
      BY <1>1, <3>1 DEF Delivered, size
  <2>3. \A r \in 0 .. c : Output!Whole'[r] = Output!Whole[r]
    BY <1>1, SameReplies
  <2>4. Stream = got \o socket /\ Stream' = got \o (socket \o part)
    <3>1. got \o socket \in Seq(Bytes) /\ got \o (socket \o part) \in Seq(Bytes)
      BY <1>1, <1>5, <1>6, <1>7, ConcatProperties
    <3>2. (got \o socket) \o <<>> = got \o socket
          /\ (got \o (socket \o part)) \o <<>> = got \o (socket \o part)
      BY <3>1, ConcatEmptySeq
    <3> QED
      BY <1>1, <2>2, <3>2 DEF Stream
  <2>5. (got \o socket) \o part = got \o (socket \o part)
    <3>1. got \in Seq(Bytes) /\ socket \in Seq(Bytes) /\ part \in Seq(Bytes)
      BY <1>5, <1>6
    <3> QED
      BY Zenon, <3>1, BytesThree
  <2>6. part = Output!Body(c, 0, request[c].size)
    BY <1>3, <2>1, <2>2 DEF part, size
  <2>7. Stream' = Output!Whole[c]
    BY <1>3, <2>2, <2>4, <2>5, <2>6 DEF With
  <2>8. send_size' >= request'[c].size
    BY <1>1, <1>3, <2>1, <2>2 DEF size
  <2> QED
    BY <1>1, <1>2, <2>2, <2>3, <2>7, <2>8 DEF Delivered
<1> QED
  BY <1>8, <1>9, <1>10 DEF StreamInv

LEMMA SendFileReturnsStep ==
    ASSUME StreamInv, Output!SendFileReturns
    PROVE  StreamInv'
<1> DEFINE c == Len(request)
<1>1. /\ ReplyTypes /\ Closing /\ pc = "sendfile" /\ pc' = "end"
      /\ send_size >= request[c].size
      /\ UNCHANGED <<request, queued, read_index, buffer_size, compacted, writing, send_size, socket,
                     got, closed, cut>>
  BY DEF StreamInv, Output!SendFileReturns, Output!Current, Output!buffer
<1>2. c \in 1 .. c /\ c \in 0 .. c /\ c - 1 \in 0 .. c /\ c \in 1 .. MaxReplies /\ c \in Nat
  BY <1>1, ReplyFacts DEF Closing
<1>3. ReplyTypes'
  BY <1>1 DEF ReplyTypes
<1>4. Closing'
  BY <1>1 DEF Closing
<1>5. ~cut /\ ~compacted => Delivered'
  <2> SUFFICES ASSUME ~cut, ~compacted PROVE Delivered'
    OBVIOUS
  <2>1. request[c].size \in Nat /\ Output!Whole[c - 1] \in Seq(Bytes)
        /\ Output!Whole[c] = With(c, Output!Whole[c - 1], request[c])
    BY <1>1, <1>2, ReplyFacts
  <2>2. Stream = Output!Whole[c]
    <3>1. CASE send_size >= request[c].size /\ Stream = Output!Whole[c]
      BY <3>1
    <3>2. CASE send_size = 0 /\ Stream = Output!Whole[c - 1] \o Output!PreBody(c)
      <4>1. request[c].size = 0
        BY <1>1, <2>1, <3>2
      <4>2. Output!Body(c, 0, 0) = <<>>
        <5>1. Output!Body(c, 0, 0) \in Seq(Bytes) /\ Len(Output!Body(c, 0, 0)) = 0
          BY <1>2, BodyIs
        <5> QED
          BY <5>1, EmptySeq
      <4>3. Output!Whole[c - 1] \o Output!PreBody(c) \in Seq(Bytes)
        <5>1. Output!PreBody(c) \in Seq(Bytes)
          BY <1>2, PreBodyIs
        <5> QED
          BY <2>1, <5>1, ConcatProperties
      <4>4. (Output!Whole[c - 1] \o Output!PreBody(c)) \o <<>> = Output!Whole[c - 1] \o Output!PreBody(c)
        BY <4>3, ConcatEmptySeq
      <4> QED
        BY Zenon, <2>1, <3>2, <4>1, <4>2, <4>4 DEF With
    <3> QED
      BY <1>1, <3>1, <3>2 DEF StreamInv, Delivered
  <2>3. \A r \in 0 .. c : Output!Whole'[r] = Output!Whole[r]
    BY <1>1, SameReplies
  <2>4. Stream' = Stream
    BY <1>1 DEF Stream
  <2> QED
    BY <1>1, <1>2, <2>2, <2>3, <2>4 DEF Delivered
<1> QED
  BY <1>1, <1>3, <1>4, <1>5 DEF StreamInv

LEMMA EndReplyStep ==
    ASSUME StreamInv, Output!EndReply
    PROVE  StreamInv'
<1> DEFINE c == Len(request)
<1>1. /\ ReplyTypes /\ Closing /\ pc = "end" /\ pc' = "idle"
      /\ IF request[c].close THEN closed' = TRUE /\ queued' = <<>> /\ writing' = FALSE
         ELSE UNCHANGED <<closed, queued, writing>>
      /\ UNCHANGED <<request, read_index, buffer_size, compacted, send_size, socket, got, cut>>
  BY DEF StreamInv, Output!EndReply, Output!Current
<1>2. c \in 1 .. c /\ c \in 0 .. c /\ c \in Nat
  BY <1>1, ReplyFacts DEF Closing
<1>3. ReplyTypes'
  <2>1. <<>> \in Seq(Bytes)
    BY EmptySeq
  <2> QED
    BY <1>1, <2>1 DEF ReplyTypes
<1>4. Closing'
  <2>1. CASE request[c].close
    BY <1>1, <2>1 DEF Closing
  <2>2. CASE ~request[c].close
    BY <1>1, <2>2 DEF Closing
  <2> QED
    BY <2>1, <2>2
<1>5. ~cut /\ ~compacted => Delivered'
  <2> SUFFICES ASSUME ~cut, ~compacted PROVE Delivered'
    OBVIOUS
  <2>1. \A r \in 0 .. c : Output!Whole'[r] = Output!Whole[r]
    BY <1>1, SameReplies
  <2>2. Stream = Output!Whole[c] /\ ~closed
    BY <1>1 DEF StreamInv, Delivered, Closing
  <2>3. CASE request[c].close
    <3>1. got \o socket \in Seq(Bytes) /\ queued \in Seq(Bytes)
      BY <1>1, ConcatProperties DEF ReplyTypes
    <3>2. Output!IsPrefix(got \o socket, (got \o socket) \o queued)
      BY <3>1, PrefixOfConcat
    <3>3. Output!IsPrefix(got' \o socket', Output!Whole[c])
      BY <1>1, <2>2, <3>2 DEF Stream
    <3> QED
      BY <1>1, <1>2, <2>1, <2>3, <3>3 DEF Delivered
  <2>4. CASE ~request[c].close
    <3>1. Stream' = Stream /\ closed' = closed
      BY <1>1, <2>4 DEF Stream
    <3> QED
      BY <1>1, <1>2, <2>1, <2>2, <3>1 DEF Delivered
  <2> QED
    BY <2>3, <2>4
<1> QED
  BY <1>1, <1>3, <1>4, <1>5 DEF StreamInv

LEMMA WriteNonBlockingStep ==
    ASSUME StreamInv, Output!WriteNonBlocking
    PROVE  StreamInv'
<1> DEFINE c == Len(request)
           n == Output!Taken(Len(queued))
           q1 == SubSeq(queued, 1, n)
           q2 == SubSeq(queued, n + 1, Len(queued))
<1>1. /\ ReplyTypes /\ Closing /\ pc = "idle" /\ writing
      /\ UNCHANGED <<request, pc, buffer_size, compacted, send_size, got, closed, cut>>
  BY DEF StreamInv, Output!WriteNonBlocking
<1>2. \/ queued = <<>> /\ writing' = FALSE /\ UNCHANGED <<socket, queued, read_index>>
      \/ /\ socket' = socket \o q1 /\ queued' = q2 /\ UNCHANGED writing
         /\ read_index' = IF n < Len(queued) THEN read_index + n ELSE 0
  BY Zenon DEF Output!WriteNonBlocking, Output!Left, Output!IndexAfter
<1>3. got \in Seq(Bytes) /\ socket \in Seq(Bytes) /\ queued \in Seq(Bytes)
      /\ Len(queued) \in Nat /\ Len(socket) \in Nat /\ Len(socket) <= SocketRoom /\ SocketRoom \in Nat
  BY <1>1, ReplyFacts DEF ReplyTypes
<1>4. n \in 0 .. Len(queued) /\ n <= SocketRoom - Len(socket)
  BY <1>1, <1>3, TakenIs
<1> HIDE DEF n
<1>5. q1 \in Seq(Bytes) /\ q2 \in Seq(Bytes) /\ Len(q1) = n /\ q1 \o q2 = queued
      /\ Len(q2) = Len(queued) - n
  BY <1>3, <1>4, Split
<1> HIDE DEF q1, q2
<1>6. socket \o q1 \in Seq(Bytes) /\ Len(socket \o q1) = Len(socket) + n
  BY <1>3, <1>5, ConcatProperties
<1>7. (got \o (socket \o q1)) \o q2 = (got \o socket) \o queued
  <2>1. got \in Seq(Bytes) /\ socket \in Seq(Bytes) /\ q1 \in Seq(Bytes) /\ q2 \in Seq(Bytes)
    BY <1>3, <1>5
  <2>2. got \o socket \in Seq(Bytes)
    BY <2>1, ConcatProperties
  <2>3. (got \o socket) \o q1 = got \o (socket \o q1)
    BY Zenon, <2>1, BytesThree
  <2>4. ((got \o socket) \o q1) \o q2 = (got \o socket) \o (q1 \o q2)
    BY Zenon, <2>1, <2>2, BytesThree
  <2> QED
    BY Zenon, <1>5, <2>3, <2>4
<1>8. ReplyTypes' /\ Stream' = Stream
  <2>1. CASE queued = <<>> /\ writing' = FALSE /\ UNCHANGED <<socket, queued, read_index>>
    BY <1>1, <2>1 DEF ReplyTypes, Stream
  <2>2. CASE /\ socket' = socket \o q1 /\ queued' = q2 /\ UNCHANGED writing
             /\ read_index' = IF n < Len(queued) THEN read_index + n ELSE 0
    <3>1. socket' \in Seq(Bytes) /\ queued' \in Seq(Bytes) /\ Len(socket') <= SocketRoom
      BY <1>3, <1>4, <1>5, <1>6, <2>2
    <3>2. Stream' = Stream
      BY Zenon, <1>1, <1>7, <2>2 DEF Stream
    <3>3. read_index' \in Nat
      <4>1. read_index \in Nat
        BY <1>1 DEF ReplyTypes
      <4> QED
        BY <1>3, <1>4, <2>2, <4>1
    <3> QED
      BY <1>1, <2>2, <3>1, <3>2, <3>3 DEF ReplyTypes
  <2> QED
    BY <1>2, <2>1, <2>2
<1>9. Closing'
  <2>1. queued' = <<>> => read_index' = 0
    <3>1. CASE UNCHANGED <<queued, read_index>>
      <4>1. ~closed
        BY <1>1 DEF Closing
      <4> QED
        BY <1>1, <3>1, <4>1 DEF Closing
    <3>2. CASE queued' = q2 /\ read_index' = IF n < Len(queued) THEN read_index + n ELSE 0
      <4> SUFFICES ASSUME q2 = <<>> PROVE read_index' = 0
        BY <3>2
      <4>1. Len(q2) = 0
        BY EmptySeq
      <4> QED
        BY <1>3, <1>4, <1>5, <3>2, <4>1
    <3> QED
      BY <1>2, <3>1, <3>2
  <2>2. ~closed
    BY <1>1 DEF Closing
  <2> QED
    BY <1>1, <2>1, <2>2 DEF Closing
<1>10. ~cut /\ ~compacted => Delivered'
  <2> SUFFICES ASSUME ~cut, ~compacted PROVE Delivered'
    OBVIOUS
  <2>1. \A r \in 0 .. c : Output!Whole'[r] = Output!Whole[r]
    BY <1>1, SameReplies
  <2>2. Stream = Output!Whole[c] /\ ~closed /\ c \in 0 .. c
    BY <1>1, ReplyFacts DEF StreamInv, Delivered, Closing
  <2> QED
    BY <1>1, <1>8, <2>1, <2>2 DEF Delivered
<1> QED
  BY <1>1, <1>8, <1>9, <1>10 DEF StreamInv

LEMMA ReplyStep ==
    ASSUME StreamInv, Output!Next
    PROVE  StreamInv'
<1>1. ASSUME NEW reply \in Output!ReplyRecords, Output!Request(reply)
      PROVE  StreamInv'
  BY <1>1, RequestStep
<1>2. CASE Output!ClientReads
  BY <1>2, ClientReadsStep
<1>3. CASE Output!Send
  BY <1>3, SendStep
<1>4. CASE Output!SendFile
  BY <1>4, SendFileStep
<1>5. CASE Output!SendFileReturns
  BY <1>5, SendFileReturnsStep
<1>6. CASE Output!EndReply
  BY <1>6, EndReplyStep
<1>7. CASE Output!WriteNonBlocking
  BY <1>7, WriteNonBlockingStep
<1> QED
  BY <1>1, <1>2, <1>3, <1>4, <1>5, <1>6, <1>7 DEF Output!Next, Output!ServerStep

LEMMA ReplyStutter ==
    ASSUME StreamInv, UNCHANGED replyVars
    PROVE  StreamInv'
<1>1. /\ ReplyTypes /\ Closing
      /\ UNCHANGED <<request, pc, queued, read_index, buffer_size, compacted, writing, send_size,
                     socket, got, closed, cut>>
  BY DEF StreamInv, replyVars
<1>2. ReplyTypes' /\ Closing' /\ Stream' = Stream
  BY <1>1 DEF ReplyTypes, Closing, Stream
<1>3. \A r \in 0 .. Len(request) : Output!Whole'[r] = Output!Whole[r]
  BY <1>1, SameReplies
<1>4. /\ Len(request) \in 0 .. Len(request)
      /\ pc # "idle" => Len(request) - 1 \in 0 .. Len(request)
  BY <1>1, ReplyFacts DEF Closing
<1> QED
  BY <1>1, <1>2, <1>3, <1>4 DEF StreamInv, Delivered

LEMMA StreamAlways == MCSpec => []StreamInv
<1>1. MCInit => StreamInv
  BY StreamInit DEF MCInit, PartsInit
<1>2. StreamInv /\ [MCNext]_allVars => StreamInv'
  <2> SUFFICES ASSUME StreamInv, [MCNext]_allVars PROVE StreamInv'
    OBVIOUS
  <2>1. CASE BufferPart(InputNext) \/ BufferPart(KeyboardNext) \/ HttpPart(Http!Next)
    BY <2>1, ReplyStutter DEF BufferPart, HttpPart
  <2>2. CASE ReplyPart(Output!Next)
    BY <2>2, ReplyStep DEF ReplyPart
  <2>3. CASE UNCHANGED allVars
    BY <2>3, ReplyStutter DEF allVars
  <2> QED
    BY <2>1, <2>2, <2>3 DEF MCNext
<1> QED
  BY <1>1, <1>2, PTL DEF MCSpec

\* What the client has read, what the socket holds and what is queued are exactly the
\* replies made so far, in order and complete, whatever the socket takes at a time; after
\* a reply that closes, a beginning of them (Connection::Send, SendFile, WriteNonBlocking,
\* IfClose), unless a file met a socket that was full or a reply was appended to a
\* partly sent buffer that Buffer::EnsureWritableBytes compacts.
THEOREM StreamStaysIntact == MCSpec => []StreamIntact
<1>1. StreamInv => StreamIntact
  <2> SUFFICES ASSUME StreamInv, pc = "idle", ~cut, ~compacted
               PROVE  IF closed THEN Output!IsPrefix(got \o socket, Output!Whole[Len(request)])
                      ELSE (got \o socket) \o queued = Output!Whole[Len(request)]
    BY DEF StreamIntact, Output!StreamIntact, Output!Current
  <2>1. closed \in BOOLEAN /\ Delivered
    BY DEF StreamInv, ReplyTypes
  <2>2. CASE closed
    BY <2>1, <2>2 DEF Delivered
  <2>3. CASE ~closed
    BY <2>1, <2>3 DEF Delivered, Stream
  <2> QED
    BY <2>2, <2>3
<1> QED
  BY <1>1, StreamAlways, PTL

-----------------------------------------------------------------------------
(***************************************************************************)
(* What the client is told, and what is on its way.                        *)
(***************************************************************************)
\* A client that goes by Content-Length has read every earlier reply and nothing of the
\* next one when it makes its next request, whatever was taken and read at a time, and no
\* reply was appended to a partly sent buffer, unless one of the replies was a file,
\* announced with length 0 (HttpResponse::GetPreBody, Buffer::EnsureWritableBytes).
THEOREM ClientStaysInStep == MCSpec => []ClientInStep
<1>1. StreamInv => ClientInStep
  <2> DEFINE c == Len(request)
             files == \E r \in 1 .. c : request[r].type = "FILE_TYPE"
  <2> SUFFICES ASSUME StreamInv, ~closed, pc = "idle", ~files, ~(Len(got) < Output!Announced[c])
               PROVE  got = Output!Whole[c] /\ queued = <<>> /\ ~compacted
    BY Zenon DEF ClientInStep, Output!ClientInStep, Output!Current
  <2> QED
    BY NothingWaits
<1> QED
  BY <1>1, StreamAlways, PTL

-----------------------------------------------------------------------------
(***************************************************************************)
(* What the run checks of the two uses of a buffer.                        *)
(***************************************************************************)

BufferInv == (use = "input" => InputInv) /\ TypeOK /\ ContentIsQueue

LEMMA BufferAlways == MCSpec => []BufferInv
<1>1. MCInit => BufferInv
  BY QueueInit DEF MCInit, PartsInit, InputInv, BufferInv
<1>2. BufferInv /\ [MCNext]_allVars => BufferInv'
  <2> SUFFICES ASSUME BufferInv, [MCNext]_allVars PROVE BufferInv'
    OBVIOUS
  <2>1. CASE use = "input" /\ BufferPart(InputNext)
    <3>1. InputInv'
      BY <2>1, InputQueueStep DEF BufferPart, BufferInv
    <3> QED
      BY <2>1, <3>1 DEF InputInv, BufferInv, BufferPart
  <2>2. CASE use = "keyboard" /\ BufferPart(KeyboardNext)
    <3>1. TypeOK' /\ ContentIsQueue'
      BY <2>2, KeyboardQueueStep DEF BufferPart, BufferInv
    <3> QED
      BY <2>2, <3>1 DEF BufferPart, BufferInv
  <2>3. CASE UNCHANGED vars /\ UNCHANGED use
    BY <2>3 DEF vars, BufferInv, InputInv, TypeOK, ContentIsQueue, ReadableBytes
  <2>4. ReplyPart(Output!Next) \/ HttpPart(Http!Next) \/ UNCHANGED allVars
           => UNCHANGED vars /\ UNCHANGED use
    BY DEF ReplyPart, HttpPart, allVars
  <2> QED
    BY <2>1, <2>2, <2>3, <2>4 DEF MCNext
<1> QED
  BY <1>1, <1>2, PTL DEF MCSpec

\* input_buffer_ and a typing client's output_buffer_ hold the bytes appended and not yet
\* taken, in order: InputIsQueue and KeyboardIsQueue in the specification that is run.
THEOREM BuffersAreQueues == MCSpec => []ContentIsQueue
<1>1. BufferInv => ContentIsQueue
  BY DEF BufferInv
<1> QED
  BY <1>1, BufferAlways, PTL
-----------------------------------------------------------------------------
(***************************************************************************)
(* Requests.  FlattenSeq is a recursive function: f[i] is the              *)
(* concatenation of the first i members of s.                              *)
(***************************************************************************)
Flattens(f, s, n) == f[0] = << >> /\ \A i \in 1 .. n : f[i] = f[i - 1] \o s[i]

LEMMA FlattenExists ==
    ASSUME NEW T, NEW s \in Seq(Seq(T)), NEW n \in Nat, n <= Len(s)
    PROVE  \E f \in [0 .. n -> Seq(T)] : Flattens(f, s, n)
<1> DEFINE Has(m) == \E f \in [0 .. m -> Seq(T)] : Flattens(f, s, m)
           S == {m \in Nat : m <= Len(s) => Has(m)}
<1>1. 0 \in S
  <2> DEFINE f == [i \in 0 .. 0 |-> << >>]
  <2>1. << >> \in Seq(T)
    BY EmptySeq
  <2>2. f \in [0 .. 0 -> Seq(T)] /\ f[0] = << >>
    BY <2>1
  <2> HIDE DEF f
  <2>3. Flattens(f, s, 0)
    BY <2>2 DEF Flattens
  <2>4. Has(0)
    BY <2>2, <2>3
  <2> QED
    BY <2>4
<1>2. ASSUME NEW m \in S PROVE m + 1 \in S
  <2> SUFFICES ASSUME m + 1 <= Len(s) PROVE Has(m + 1)
    OBVIOUS
  <2>1. m \in Nat /\ Len(s) \in Nat /\ m <= Len(s)
    BY LenProperties
  <2>2. PICK f \in [0 .. m -> Seq(T)] : Flattens(f, s, m)
    BY <2>1
  <2> DEFINE e == f[m] \o s[m + 1]
             g == [i \in 0 .. m + 1 |-> IF i = m + 1 THEN e ELSE f[i]]
  <2>3. e \in Seq(T)
    <3>1. s[m + 1] \in Seq(T) /\ f[m] \in Seq(T)
      BY <2>1, ElementOfSeq
    <3> QED
      BY <3>1, ConcatProperties
  <2>4. g \in [0 .. m + 1 -> Seq(T)] /\ g[m + 1] = e /\ \A i \in 0 .. m : g[i] = f[i]
    <3> HIDE DEF e
    <3> QED
      BY <2>1, <2>3
  <2> HIDE DEF g
  <2>5. g[0] = << >>
    BY <2>1, <2>2, <2>4 DEF Flattens
  <2>6. ASSUME NEW i \in 1 .. m + 1 PROVE g[i] = g[i - 1] \o s[i]
    <3>1. CASE i = m + 1
      <4>1. i - 1 = m /\ m \in 0 .. m
        BY <2>1, <3>1
      <4> QED
        BY <2>4, <3>1, <4>1
    <3>2. CASE i # m + 1
      <4>1. i \in 1 .. m /\ i \in 0 .. m /\ i - 1 \in 0 .. m
        BY <2>1, <3>2
      <4>2. f[i] = f[i - 1] \o s[i]
        BY <2>2, <4>1 DEF Flattens
      <4> QED
        BY <2>4, <4>1, <4>2
    <3> QED
      BY <3>1, <3>2
  <2>7. Flattens(g, s, m + 1)
    BY <2>5, <2>6 DEF Flattens
  <2> QED
    BY <2>4, <2>7
<1>3. S = Nat
  <2>1. S \in SUBSET Nat
    OBVIOUS
  <2> HIDE DEF S
  <2> QED
    BY <1>1, <1>2, <2>1, Counting
<1> HIDE DEF Has
<1>4. Has(n)
  BY <1>3
<1> QED
  BY <1>4 DEF Has

LEMMA FlattenIs ==
    ASSUME NEW T, NEW s \in Seq(Seq(T))
    PROVE  \E f \in [0 .. Len(s) -> Seq(T)] :
              Flattens(f, s, Len(s)) /\ Http!FlattenSeq(s) = f[Len(s)]
<1> DEFINE n == Len(s)
           Eq(h) == h = [i \in 1 .. n |-> IF i = 1 THEN s[i] ELSE h[i - 1] \o s[i]]
           g == CHOOSE h : Eq(h)
<1>1. n \in Nat /\ n <= n
  BY LenProperties
<1>2. PICK f \in [0 .. n -> Seq(T)] : Flattens(f, s, n)
  BY <1>1, FlattenExists
<1>3. CASE n = 0
  <2>1. Http!FlattenSeq(s) = s
    BY <1>3, Zenon DEF Http!FlattenSeq
  <2>2. s = << >> /\ f[0] = << >>
    BY <1>2, <1>3, EmptySeq DEF Flattens
  <2> QED
    BY <1>2, <1>3, <2>1, <2>2
<1>4. CASE n # 0
  <2>1. Http!FlattenSeq(s) = g[n]
    BY <1>4, Zenon DEF Http!FlattenSeq
  <2> HIDE DEF n
  <2> DEFINE e == [i \in 1 .. n |-> f[i]]
  <2>2. f[1] = s[1]
    <3>1. f[1] = f[0] \o s[1] /\ f[0] = << >>
      <4>1. 1 \in 1 .. n /\ 1 - 1 = 0
        BY <1>1, <1>4
      <4> QED
        BY <1>2, <4>1 DEF Flattens
    <3>2. s[1] \in Seq(T)
      BY <1>1, <1>4, ElementOfSeq DEF n
    <3>3. << >> \o s[1] = s[1]
      BY <3>2, ConcatEmptySeq
    <3> QED
      BY <3>1, <3>3
  <2>3. Eq(e)
    <3>1. ASSUME NEW i \in 1 .. n
          PROVE  e[i] = IF i = 1 THEN s[i] ELSE e[i - 1] \o s[i]
      <4>1. CASE i = 1
        BY <1>1, <2>2, <4>1
      <4>2. CASE i # 1
        <5>1. i - 1 \in 1 .. n
          BY <1>1, <4>2
        <5>2. f[i] = f[i - 1] \o s[i]
          BY <1>2 DEF Flattens
        <5> QED
          BY <4>2, <5>1, <5>2
      <4> QED
        BY <4>1, <4>2
    <3>2. e = [i \in 1 .. n |-> e[i]]
      OBVIOUS
    <3> HIDE DEF e
    <3> QED
      BY <3>1, <3>2, Zenon
  <2>4. Eq(g)
    <3> HIDE DEF Eq, e
    <3> QED
      BY <2>3
  <2> HIDE DEF g, e
  <2>5. ASSUME NEW i \in 1 .. n
        PROVE  g[i] = IF i = 1 THEN s[i] ELSE g[i - 1] \o s[i]
    <3>1. [j \in 1 .. n |-> IF j = 1 THEN s[j] ELSE g[j - 1] \o s[j]][i]
              = IF i = 1 THEN s[i] ELSE g[i - 1] \o s[i]
      BY Zenon
    <3> QED
      BY <2>4, <3>1, Zenon
  <2> HIDE DEF Eq
  <2> DEFINE S == {i \in Nat : i < n => g[i + 1] = f[i + 1]}
  <2>6. 0 \in S
    <3>1. 1 \in 1 .. n
      BY <1>1, <1>4
    <3>2. g[1] = s[1]
      BY <2>5, <3>1
    <3> QED
      BY <2>2, <3>2
  <2>7. ASSUME NEW i \in S PROVE i + 1 \in S
    <3> SUFFICES ASSUME i + 1 < n PROVE g[(i + 1) + 1] = f[(i + 1) + 1]
      OBVIOUS
    <3>1. (i + 1) + 1 \in 1 .. n /\ (i + 1) + 1 # 1 /\ ((i + 1) + 1) - 1 = i + 1 /\ i < n
      BY <1>1
    <3> DEFINE j == (i + 1) + 1
    <3>2. j \in 1 .. n /\ j # 1 /\ j - 1 = i + 1
      BY <3>1
    <3> HIDE DEF j
    <3>3. g[j] = g[j - 1] \o s[j]
      BY <2>5, <3>2
    <3>4. f[j] = f[j - 1] \o s[j]
      BY <1>2, <3>2 DEF Flattens
    <3>5. g[i + 1] = f[i + 1]
      BY <3>1
    <3>6. g[j] = f[j]
      BY <3>2, <3>3, <3>4, <3>5
    <3> QED
      BY <3>6 DEF j
  <2>8. S = Nat
    <3>1. S \in SUBSET Nat
      OBVIOUS
    <3> HIDE DEF S
    <3> QED
      BY <2>6, <2>7, <3>1, Counting
  <2>9. g[n] = f[n]
    <3>1. n - 1 \in Nat /\ n - 1 < n /\ (n - 1) + 1 = n
      BY <1>1, <1>4
    <3>2. n - 1 \in S
      <4> HIDE DEF S
      <4> QED
        BY <2>8, <3>1
    <3> QED
      BY <3>1, <3>2
  <2> QED
    BY <1>2, <2>1, <2>9 DEF n
<1> QED
  BY <1>3, <1>4

-----------------------------------------------------------------------------
(***************************************************************************)
(* Where everything is in a message.                                       *)
(***************************************************************************)
\* The symbols of w are in all, after the first at symbols.
Has(all, at, w) ==
    at + Len(w) <= Len(all) /\ \A k \in 1 .. Len(w) : all[at + k] = w[k]

LEMMA HasIt == \A T : \A w \in Seq(T) : Has(w, 0, w) /\ Len(w) \in Nat
<1> SUFFICES ASSUME NEW T, NEW w \in Seq(T) PROVE Has(w, 0, w) /\ Len(w) \in Nat
  OBVIOUS
<1>1. Len(w) \in Nat
  BY LenProperties
<1> QED
  BY <1>1 DEF Has

LEMMA HasWithin ==
    ASSUME NEW T, NEW all \in Seq(T), NEW w \in Seq(T), NEW v \in Seq(T),
           NEW at \in Nat, NEW n \in Nat, Has(all, at, w), Has(w, n, v)
    PROVE  Has(all, at + n, v)
<1>1. Len(all) \in Nat /\ Len(w) \in Nat /\ Len(v) \in Nat
  BY LenProperties
<1>2. (at + n) + Len(v) <= Len(all)
  BY <1>1 DEF Has
<1>3. ASSUME NEW k \in 1 .. Len(v) PROVE all[(at + n) + k] = v[k]
  <2>1. n + k \in 1 .. Len(w) /\ at + (n + k) = (at + n) + k
    BY <1>1 DEF Has
  <2>2. all[at + (n + k)] = w[n + k] /\ w[n + k] = v[k]
    BY <2>1 DEF Has
  <2> QED
    BY <2>1, <2>2
<1> QED
  BY <1>2, <1>3 DEF Has

LEMMA HasConcat ==
    ASSUME NEW T, NEW x \in Seq(T), NEW y \in Seq(T)
    PROVE  /\ x \o y \in Seq(T)
           /\ Len(x \o y) = Len(x) + Len(y) /\ Len(x) \in Nat /\ Len(y) \in Nat
           /\ Has(x \o y, 0, x)
           /\ Has(x \o y, Len(x), y)
<1>1. /\ x \o y \in Seq(T)
      /\ Len(x \o y) = Len(x) + Len(y) /\ Len(x) \in Nat /\ Len(y) \in Nat
      /\ \A k \in 1 .. Len(x) : (x \o y)[k] = x[k]
      /\ \A k \in Len(x) + 1 .. Len(x) + Len(y) : (x \o y)[k] = y[k - Len(x)]
  BY ConcatProperties, LenProperties
<1> DEFINE z == x \o y
           a == Len(x)
           e == Len(y)
<1>2. /\ Len(z) = a + e /\ a \in Nat /\ e \in Nat
      /\ \A k \in 1 .. a : z[k] = x[k]
      /\ \A k \in a + 1 .. a + e : z[k] = y[k - a]
  BY <1>1
<1> HIDE DEF z, a, e
<1>3. ASSUME NEW k \in 1 .. e PROVE z[a + k] = y[k]
  <2>1. a + k \in a + 1 .. a + e /\ (a + k) - a = k
    BY <1>2
  <2> QED
    BY <1>2, <2>1
<1>4. Has(z, 0, x) /\ Has(z, a, y)
  <2>1. Has(z, 0, x)
    <3>1. 0 + a <= Len(z) /\ \A k \in 1 .. a : 0 + k = k
      BY <1>2
    <3> QED
      BY <1>2, <3>1 DEF Has, a
  <2>2. Has(z, a, y)
    <3>1. a + e <= Len(z)
      BY <1>2
    <3> QED
      BY <1>3, <3>1 DEF Has, e
  <2> QED
    BY <2>1, <2>2
<1> QED
  BY <1>1, <1>4 DEF z, a

Four(T, w, a, e, c, d) ==
    /\ w \in Seq(T)
    /\ Len(w) = Len(a) + Len(e) + Len(c) + Len(d)
    /\ Len(a) \in Nat /\ Len(e) \in Nat /\ Len(c) \in Nat /\ Len(d) \in Nat
    /\ Has(w, 0, a) /\ Has(w, Len(a), e)
    /\ Has(w, Len(a) + Len(e), c) /\ Has(w, Len(a) + Len(e) + Len(c), d)

LEMMA HasFour ==
    ASSUME NEW T, NEW a \in Seq(T), NEW e \in Seq(T), NEW c \in Seq(T), NEW d \in Seq(T)
    PROVE  Four(T, ((a \o e) \o c) \o d, a, e, c, d)
<1> DEFINE x == a \o e
           y == x \o c
           w == y \o d
<1>1. /\ x \in Seq(T) /\ Len(x) = Len(a) + Len(e) /\ Len(a) \in Nat /\ Len(e) \in Nat
      /\ Has(x, 0, a) /\ Has(x, Len(a), e)
  BY HasConcat
<1> HIDE DEF x
<1>2. /\ y \in Seq(T) /\ Len(y) = Len(x) + Len(c) /\ Len(x) \in Nat /\ Len(c) \in Nat
      /\ Has(y, 0, x) /\ Has(y, Len(x), c)
  BY <1>1, HasConcat
<1> HIDE DEF y
<1>3. /\ w \in Seq(T) /\ Len(w) = Len(y) + Len(d) /\ Len(y) \in Nat /\ Len(d) \in Nat
      /\ Has(w, 0, y) /\ Has(w, Len(y), d)
  BY <1>2, HasConcat
<1> HIDE DEF w
<1>4. ASSUME NEW v \in Seq(T), NEW n \in Nat, Has(y, n, v) PROVE Has(w, n, v)
  <2>1. Has(w, 0 + n, v)
    BY <1>2, <1>3, <1>4, HasWithin
  <2> QED
    BY <2>1
<1>5. ASSUME NEW v \in Seq(T), NEW n \in Nat, Has(x, n, v) PROVE Has(w, n, v)
  <2>1. Has(y, 0 + n, v)
    BY <1>1, <1>2, <1>5, HasWithin
  <2> QED
    BY <1>4, <2>1
<1>6. Has(w, 0, a) /\ Has(w, Len(a), e)
  BY <1>1, <1>5
<1>7. Has(w, Len(a) + Len(e), c)
  BY <1>1, <1>2, <1>4
<1>8. Has(w, Len(a) + Len(e) + Len(c), d)
  BY <1>1, <1>2, <1>3
<1> QED
  BY <1>1, <1>2, <1>3, <1>6, <1>7, <1>8 DEF Four, w, y, x

\* Where each member of s lies in the concatenation: after the first o[i] symbols.
Lies(o, s, all) ==
    /\ o[1] = 0
    /\ o[Len(s) + 1] = Len(all)
    /\ \A i \in 1 .. Len(s) : o[i + 1] = o[i] + Len(s[i]) /\ Has(all, o[i], s[i])

LEMMA FlattenLies ==
    ASSUME NEW T, NEW s \in Seq(Seq(T))
    PROVE  /\ Http!FlattenSeq(s) \in Seq(T)
           /\ \E o \in [1 .. Len(s) + 1 -> Nat] : Lies(o, s, Http!FlattenSeq(s))
<1> DEFINE n == Len(s)
<1>1. n \in Nat /\ \A i \in 1 .. n : s[i] \in Seq(T) /\ Len(s[i]) \in Nat
  <2>1. \A i \in 1 .. n : s[i] \in Seq(T)
    BY ElementOfSeq
  <2> QED
    BY <2>1, LenProperties
<1>2. PICK f \in [0 .. n -> Seq(T)] : Flattens(f, s, n) /\ Http!FlattenSeq(s) = f[n]
  BY FlattenIs
<1> HIDE DEF n
<1>3. \A i \in 0 .. n : f[i] \in Seq(T) /\ Len(f[i]) \in Nat
  <2>1. \A i \in 0 .. n : f[i] \in Seq(T)
    BY <1>2
  <2> QED
    BY <2>1, LenProperties
<1> DEFINE o == [i \in 1 .. n + 1 |-> Len(f[i - 1])]
<1>4. \A i \in 1 .. n + 1 : o[i] = Len(f[i - 1]) /\ i - 1 \in 0 .. n /\ o[i] \in Nat
  BY <1>1, <1>3
<1>5. o \in [1 .. n + 1 -> Nat]
  BY <1>4
<1> HIDE DEF o
<1>6. ASSUME NEW i \in 1 .. n
      PROVE  /\ f[i - 1] \in Seq(T) /\ f[i] \in Seq(T) /\ s[i] \in Seq(T)
             /\ Len(f[i]) = Len(f[i - 1]) + Len(s[i])
             /\ Has(f[i], 0, f[i - 1]) /\ Has(f[i], Len(f[i - 1]), s[i])
  <2>1. i \in 0 .. n /\ i - 1 \in 0 .. n
    BY <1>1
  <2>2. f[i] = f[i - 1] \o s[i]
    BY <1>2 DEF Flattens
  <2>3. f[i - 1] \in Seq(T) /\ s[i] \in Seq(T) /\ f[i] \in Seq(T)
    BY <1>1, <1>3, <2>1
  <2> DEFINE x == f[i - 1]
             y == s[i]
  <2> HIDE DEF x, y
  <2>4. Len(x \o y) = Len(x) + Len(y) /\ Has(x \o y, 0, x) /\ Has(x \o y, Len(x), y)
    BY <2>3, HasConcat DEF x, y
  <2> QED
    BY <2>2, <2>3, <2>4 DEF x, y
<1>7. ASSUME NEW i \in 1 .. n PROVE Has(f[n], o[i], s[i])
  <2> DEFINE S == {m \in Nat : i + m <= n => Has(f[i + m], o[i], s[i])}
  <2>1. i \in 1 .. n + 1 /\ o[i] = Len(f[i - 1]) /\ o[i] \in Nat /\ s[i] \in Seq(T)
    BY <1>1, <1>4
  <2>2. 0 \in S
    <3>1. Has(f[i], Len(f[i - 1]), s[i])
      BY <1>6
    <3>2. Has(f[i], o[i], s[i])
      BY <2>1, <3>1, Zenon
    <3>3. i + 0 = i
      OBVIOUS
    <3> QED
      BY <3>2, <3>3
  <2>3. ASSUME NEW m \in S PROVE m + 1 \in S
    <3> SUFFICES ASSUME i + (m + 1) <= n PROVE Has(f[i + (m + 1)], o[i], s[i])
      OBVIOUS
    <3> DEFINE j == i + (m + 1)
    <3>1. j \in 1 .. n /\ j - 1 = i + m
      BY <1>1
    <3>2. Has(f[j - 1], o[i], s[i])
      BY <1>1, <3>1
    <3> HIDE DEF j
    <3>3. f[j] \in Seq(T) /\ f[j - 1] \in Seq(T) /\ Has(f[j], 0, f[j - 1])
      BY <1>6, <3>1
    <3>4. Has(f[j], 0 + o[i], s[i])
      BY <2>1, <3>2, <3>3, HasWithin
    <3>5. Has(f[j], o[i], s[i])
      BY <2>1, <3>4
    <3> QED
      BY <3>5 DEF j
  <2>4. S = Nat
    <3>1. S \in SUBSET Nat
      OBVIOUS
    <3> HIDE DEF S
    <3> QED
      BY <2>2, <2>3, <3>1, Counting
  <2>5. n - i \in S
    <3>1. n - i \in Nat
      BY <1>1
    <3> HIDE DEF S
    <3> QED
      BY <2>4, <3>1
  <2>6. i + (n - i) = n
    BY <1>1
  <2> QED
    BY <1>1, <2>5, <2>6
<1>8. o[1] = 0
  <2>1. 1 \in 1 .. n + 1 /\ 1 - 1 = 0
    BY <1>1
  <2>2. f[0] = << >>
    BY <1>2 DEF Flattens
  <2>3. o[1] = Len(f[0])
    BY <1>4, <2>1
  <2> QED
    BY <2>2, <2>3
<1>9. o[n + 1] = Len(f[n])
  <2>1. n + 1 \in 1 .. n + 1 /\ (n + 1) - 1 = n
    BY <1>1
  <2> QED
    BY <1>4, <2>1
<1>10. ASSUME NEW i \in 1 .. n PROVE o[i + 1] = o[i] + Len(s[i])
  <2>1. i \in 1 .. n + 1 /\ i + 1 \in 1 .. n + 1 /\ (i + 1) - 1 = i
    BY <1>1
  <2> QED
    BY <1>4, <1>6, <2>1
<1>11. Http!FlattenSeq(s) \in Seq(T)
  <2>1. n \in 0 .. n
    BY <1>1
  <2> QED
    BY <1>2, <1>3, <2>1
<1>12. Lies(o, s, Http!FlattenSeq(s))
  BY <1>2, <1>7, <1>8, <1>9, <1>10 DEF Lies, n
<1> QED
  BY <1>5, <1>11, <1>12 DEF n

Symbols == STRING \cup Http!Alpha \cup Http!Digit
              \cup {"SP", "CR", "LF", ":", "/", "?", "=", "&", "."}

\* The places of a request's parts in all: q[i] symbols are before the i-th parameter and
\* h[i] before the i-th header; V and E are before the version and the empty line.
UrlLaid(r, q, all) ==
    /\ all[1] = r.method[1] /\ all[2] = "SP"
    /\ Has(all, 2, r.url)
    /\ q[1] = 2 + Len(r.url)

ParamsLaid(r, q, all) ==
    \A i \in 1 .. Len(r.params) :
        /\ all[q[i] + 1] = IF i = 1 THEN "?" ELSE "&"
        /\ Has(all, q[i] + 1, r.params[i][1])
        /\ all[q[i] + Len(r.params[i][1]) + 2] = "="
        /\ Has(all, q[i] + Len(r.params[i][1]) + 2, r.params[i][2])
        /\ q[i + 1] = q[i] + Len(r.params[i][1]) + Len(r.params[i][2]) + 2

VersionLaid(r, V, h, all) ==
    /\ all[V + 1] = "SP" /\ all[V + 2] = "HTTP" /\ all[V + 3] = "/"
    /\ all[V + 4] = r.version[1] /\ all[V + 5] = "." /\ all[V + 6] = r.version[3]
    /\ all[V + 7] = "CR" /\ all[V + 8] = "LF"
    /\ h[1] = V + 8

HeadersLaid(r, h, all) ==
    \A i \in 1 .. Len(r.headers) :
        /\ Has(all, h[i], r.headers[i][1])
        /\ Has(all, h[i] + Len(r.headers[i][1]), r.headers[i][2])
        /\ Has(all, h[i] + Len(r.headers[i][1]) + Len(r.headers[i][2]), r.headers[i][3])
        /\ all[h[i + 1] - 1] = "CR" /\ all[h[i + 1]] = "LF"
        /\ h[i + 1] = h[i] + Len(r.headers[i][1]) + Len(r.headers[i][2]) + Len(r.headers[i][3]) + 2

BodyLaid(r, E, all) ==
    /\ all[E + 1] = "CR" /\ all[E + 2] = "LF"
    /\ Has(all, E + 2, r.body)
    /\ Len(all) = E + 2 + Len(r.body)

Layout(r, q, h, all) ==
    /\ q \in [1 .. Len(r.params) + 1 -> Nat] /\ h \in [1 .. Len(r.headers) + 1 -> Nat]
    /\ all \in Seq(Symbols)
    /\ UrlLaid(r, q, all) /\ ParamsLaid(r, q, all)
    /\ VersionLaid(r, q[Len(r.params) + 1], h, all)
    /\ HeadersLaid(r, h, all) /\ BodyLaid(r, h[Len(r.headers) + 1], all)

LEMMA HasOne ==
    ASSUME NEW all, NEW at \in Nat, NEW c, Has(all, at, <<c>>) PROVE all[at + 1] = c
BY DEF Has

LEMMA HasTwo ==
    ASSUME NEW all, NEW at \in Nat, NEW c, NEW d, Has(all, at, <<c, d>>)
    PROVE  all[at + 1] = c /\ all[at + 2] = d
BY DEF Has

LEMMA HasThree ==
    ASSUME NEW all, NEW at \in Nat, NEW c, NEW d, NEW e, Has(all, at, <<c, d, e>>)
    PROVE  all[at + 1] = c /\ all[at + 2] = d /\ all[at + 3] = e
BY DEF Has

LEMMA OneSymbol == ASSUME NEW T, NEW c \in T PROVE <<c>> \in Seq(T) /\ Len(<<c>>) = 1
OBVIOUS

LEMMA TwoSymbols ==
    ASSUME NEW T, NEW c \in T, NEW d \in T PROVE <<c, d>> \in Seq(T) /\ Len(<<c, d>>) = 2
OBVIOUS

LEMMA LiteralsAreSymbols ==
    /\ "SP" \in Symbols /\ "CR" \in Symbols /\ "LF" \in Symbols /\ ":" \in Symbols
    /\ "/" \in Symbols /\ "." \in Symbols /\ "?" \in Symbols /\ "&" \in Symbols
    /\ "=" \in Symbols /\ "HTTP" \in Symbols
BY DEF Symbols, Http!Alpha, Http!Upper

\* Pairs and triples of words: their query, and their lines.
LEMMA QueryLies ==
    ASSUME NEW P \in Seq(Seq(Symbols) \X Seq(Symbols))
    PROVE  LET all == Http!Query(P) IN
           /\ all \in Seq(Symbols)
           /\ \E o \in [1 .. Len(P) + 1 -> Nat] :
                 /\ o[1] = 0 /\ o[Len(P) + 1] = Len(all)
                 /\ \A i \in 1 .. Len(P) :
                       /\ all[o[i] + 1] = IF i = 1 THEN "?" ELSE "&"
                       /\ Has(all, o[i] + 1, P[i][1])
                       /\ all[o[i] + Len(P[i][1]) + 2] = "="
                       /\ Has(all, o[i] + Len(P[i][1]) + 2, P[i][2])
                       /\ o[i + 1] = o[i] + Len(P[i][1]) + Len(P[i][2]) + 2
<1> DEFINE Mark(i) == <<IF i = 1 THEN "?" ELSE "&">>
           s == [i \in 1 .. Len(P) |-> Mark(i) \o P[i][1] \o <<"=">> \o P[i][2]]
           all == Http!Query(P)
<1>1. Len(P) \in Nat /\ \A i \in 1 .. Len(P) : P[i][1] \in Seq(Symbols) /\ P[i][2] \in Seq(Symbols)
  <2>1. \A i \in 1 .. Len(P) : P[i] \in Seq(Symbols) \X Seq(Symbols)
    BY ElementOfSeq
  <2> QED
    BY <2>1, LenProperties
<1>2. \A i : Mark(i) \in Seq(Symbols) /\ Len(Mark(i)) = 1
  <2>1. <<"?">> \in Seq(Symbols) /\ <<"&">> \in Seq(Symbols)
    BY LiteralsAreSymbols, OneSymbol
  <2> QED
    BY <2>1
<1>3. <<"=">> \in Seq(Symbols) /\ Len(<<"=">>) = 1
  BY LiteralsAreSymbols, OneSymbol
<1>4. ASSUME NEW i \in 1 .. Len(P)
      PROVE  /\ s[i] \in Seq(Symbols)
             /\ Len(P[i][1]) \in Nat /\ Len(P[i][2]) \in Nat
             /\ Len(s[i]) = Len(P[i][1]) + Len(P[i][2]) + 2
             /\ Has(s[i], 0, Mark(i)) /\ Has(s[i], 1, P[i][1])
             /\ Has(s[i], Len(P[i][1]) + 1, <<"=">>)
             /\ Has(s[i], Len(P[i][1]) + 2, P[i][2])
  <2> DEFINE a == Mark(i)
             e == P[i][1]
             c == <<"=">>
             d == P[i][2]
             w == ((a \o e) \o c) \o d
  <2>1. /\ a \in Seq(Symbols) /\ e \in Seq(Symbols) /\ c \in Seq(Symbols) /\ d \in Seq(Symbols)
        /\ Len(a) = 1 /\ Len(c) = 1
    BY <1>1, <1>2, <1>3
  <2>2. s[i] = w
    OBVIOUS
  <2> HIDE DEF a, e, c, d
  <2>3. /\ w \in Seq(Symbols)
        /\ Len(w) = Len(a) + Len(e) + Len(c) + Len(d)
        /\ Len(e) \in Nat /\ Len(d) \in Nat
        /\ Has(w, 0, a) /\ Has(w, Len(a), e)
        /\ Has(w, Len(a) + Len(e), c) /\ Has(w, Len(a) + Len(e) + Len(c), d)
    <3>1. Four(Symbols, w, a, e, c, d)
      BY <2>1, HasFour
    <3> HIDE DEF w
    <3> QED
      BY <3>1 DEF Four
  <2> HIDE DEF w, s
  <2>4. Len(a) + Len(e) = Len(e) + 1 /\ Len(a) + Len(e) + Len(c) = Len(e) + 2
        /\ Len(w) = Len(e) + Len(d) + 2
    BY <2>1, <2>3
  <2>5. Has(w, 1, e) /\ Has(w, Len(e) + 1, c) /\ Has(w, Len(e) + 2, d)
    BY <2>1, <2>3, <2>4
  <2> QED
    BY <2>2, <2>3, <2>4, <2>5 DEF a, e, c, d
<1>5. s \in Seq(Seq(Symbols)) /\ Len(s) = Len(P)
  <2>1. s \in [1 .. Len(P) -> Seq(Symbols)]
    BY <1>4
  <2> HIDE DEF s
  <2> QED
    BY <1>1, <2>1, FunctionIsSeqOf
<1>6. all = Http!FlattenSeq(s)
  BY DEF Http!Query
<1> HIDE DEF s, all
<1>7. all \in Seq(Symbols) /\ \E o \in [1 .. Len(s) + 1 -> Nat] : Lies(o, s, all)
  BY <1>5, <1>6, FlattenLies
<1>8. PICK o \in [1 .. Len(P) + 1 -> Nat] : Lies(o, s, all)
  BY <1>5, <1>7
<1>9. ASSUME NEW i \in 1 .. Len(P)
      PROVE  /\ all[o[i] + 1] = IF i = 1 THEN "?" ELSE "&"
             /\ Has(all, o[i] + 1, P[i][1])
             /\ all[o[i] + Len(P[i][1]) + 2] = "="
             /\ Has(all, o[i] + Len(P[i][1]) + 2, P[i][2])
             /\ o[i + 1] = o[i] + Len(P[i][1]) + Len(P[i][2]) + 2
  <2> DEFINE x == o[i]
             k == Len(P[i][1])
  <2>1. x \in Nat /\ k \in Nat /\ Len(P[i][2]) \in Nat
    BY <1>1, <1>4
  <2>2. Has(all, x, s[i]) /\ o[i + 1] = x + Len(s[i])
    BY <1>5, <1>8 DEF Lies
  <2>3. s[i] \in Seq(Symbols) /\ P[i][1] \in Seq(Symbols) /\ P[i][2] \in Seq(Symbols)
    BY <1>1, <1>4
  <2>4. Has(s[i], 0, Mark(i)) /\ Has(s[i], 1, P[i][1])
        /\ Has(s[i], k + 1, <<"=">>) /\ Has(s[i], k + 2, P[i][2])
    BY <1>4
  <2> HIDE DEF x, k
  <2>5. Has(all, x + 1, P[i][1])
    BY <1>7, <2>1, <2>2, <2>3, <2>4, HasWithin
  <2>6. Has(all, x + (k + 2), P[i][2])
    <3>1. k + 2 \in Nat
      BY <2>1
    <3> QED
      BY <1>7, <2>1, <2>2, <2>3, <2>4, <3>1, HasWithin
  <2>7. Has(all, x + (k + 1), <<"=">>)
    <3>1. k + 1 \in Nat
      BY <2>1
    <3> QED
      BY <1>3, <1>7, <2>1, <2>2, <2>3, <2>4, <3>1, HasWithin
  <2>8. Has(all, x + 0, Mark(i))
    <3>1. Mark(i) \in Seq(Symbols) /\ 0 \in Nat
      BY <1>2
    <3> HIDE DEF Mark
    <3> QED
      BY <1>7, <2>1, <2>2, <2>3, <2>4, <3>1, HasWithin
  <2>9. all[(x + 0) + 1] = IF i = 1 THEN "?" ELSE "&"
    <3>1. x + 0 \in Nat
      BY <2>1
    <3> QED
      BY <2>8, <3>1, HasOne
  <2>10. all[(x + (k + 1)) + 1] = "="
    <3>1. x + (k + 1) \in Nat
      BY <2>1
    <3> QED
      BY <2>7, <3>1, HasOne
  <2>11. (x + 0) + 1 = x + 1 /\ (x + (k + 1)) + 1 = x + k + 2 /\ x + (k + 2) = x + k + 2
    BY <2>1
  <2>12. o[i + 1] = x + k + Len(P[i][2]) + 2
    <3> DEFINE l == Len(P[i][2])
    <3>1. Len(s[i]) = k + l + 2 /\ x \in Nat /\ k \in Nat /\ l \in Nat
      BY <1>4, <2>1 DEF k
    <3> HIDE DEF l
    <3>2. x + (k + l + 2) = x + k + l + 2
      BY <3>1
    <3> QED
      BY <2>2, <3>1, <3>2 DEF l
  <2>13. /\ all[x + 1] = IF i = 1 THEN "?" ELSE "&"
         /\ all[x + k + 2] = "="
         /\ Has(all, x + k + 2, P[i][2])
    BY <2>6, <2>9, <2>10, <2>11
  <2> QED
    BY <2>5, <2>12, <2>13 DEF x, k
<1>10. o[1] = 0 /\ o[Len(P) + 1] = Len(all)
  BY <1>5, <1>8 DEF Lies
<1> QED
  BY <1>7, <1>9, <1>10 DEF all

Triples == Seq(Symbols) \X Seq(Symbols) \X Seq(Symbols)

LEMMA LinesLie ==
    ASSUME NEW H \in Seq(Triples)
    PROVE  LET all == Http!HeaderLines(H) IN
           /\ all \in Seq(Symbols)
           /\ \E o \in [1 .. Len(H) + 1 -> Nat] :
                 /\ o[1] = 0 /\ o[Len(H) + 1] = Len(all)
                 /\ \A i \in 1 .. Len(H) :
                       /\ Has(all, o[i], H[i][1])
                       /\ Has(all, o[i] + Len(H[i][1]), H[i][2])
                       /\ Has(all, o[i] + Len(H[i][1]) + Len(H[i][2]), H[i][3])
                       /\ Has(all, o[i] + Len(H[i][1]) + Len(H[i][2]) + Len(H[i][3]), <<"CR", "LF">>)
                       /\ o[i + 1] = o[i] + Len(H[i][1]) + Len(H[i][2]) + Len(H[i][3]) + 2
<1> DEFINE s == [i \in 1 .. Len(H) |-> H[i][1] \o H[i][2] \o H[i][3] \o <<"CR", "LF">>]
           all == Http!HeaderLines(H)
<1>1. Len(H) \in Nat /\ \A i \in 1 .. Len(H) :
        H[i][1] \in Seq(Symbols) /\ H[i][2] \in Seq(Symbols) /\ H[i][3] \in Seq(Symbols)
  <2>1. \A i \in 1 .. Len(H) : H[i] \in Triples
    BY ElementOfSeq
  <2> QED
    BY <2>1, LenProperties DEF Triples
<1>2. <<"CR", "LF">> \in Seq(Symbols) /\ Len(<<"CR", "LF">>) = 2
  BY LiteralsAreSymbols, TwoSymbols
<1>3. ASSUME NEW i \in 1 .. Len(H)
      PROVE  /\ s[i] \in Seq(Symbols)
             /\ Len(H[i][1]) \in Nat /\ Len(H[i][2]) \in Nat /\ Len(H[i][3]) \in Nat
             /\ Len(s[i]) = Len(H[i][1]) + Len(H[i][2]) + Len(H[i][3]) + 2
             /\ Has(s[i], 0, H[i][1]) /\ Has(s[i], Len(H[i][1]), H[i][2])
             /\ Has(s[i], Len(H[i][1]) + Len(H[i][2]), H[i][3])
             /\ Has(s[i], Len(H[i][1]) + Len(H[i][2]) + Len(H[i][3]), <<"CR", "LF">>)
  <2> DEFINE a == H[i][1]
             e == H[i][2]
             c == H[i][3]
             d == <<"CR", "LF">>
             w == ((a \o e) \o c) \o d
  <2>1. /\ a \in Seq(Symbols) /\ e \in Seq(Symbols) /\ c \in Seq(Symbols) /\ d \in Seq(Symbols)
        /\ Len(d) = 2
    BY <1>1, <1>2
  <2>2. s[i] = w
    OBVIOUS
  <2> HIDE DEF a, e, c, d
  <2>3. /\ w \in Seq(Symbols)
        /\ Len(w) = Len(a) + Len(e) + Len(c) + Len(d)
        /\ Len(a) \in Nat /\ Len(e) \in Nat /\ Len(c) \in Nat
        /\ Has(w, 0, a) /\ Has(w, Len(a), e)
        /\ Has(w, Len(a) + Len(e), c) /\ Has(w, Len(a) + Len(e) + Len(c), d)
    <3>1. Four(Symbols, w, a, e, c, d)
      BY <2>1, HasFour
    <3> HIDE DEF w
    <3> QED
      BY <3>1 DEF Four
  <2> HIDE DEF w, s
  <2> QED
    BY <2>1, <2>2, <2>3 DEF a, e, c, d
<1>4. s \in Seq(Seq(Symbols)) /\ Len(s) = Len(H)
  <2>1. s \in [1 .. Len(H) -> Seq(Symbols)]
    BY <1>3
  <2> HIDE DEF s
  <2> QED
    BY <1>1, <2>1, FunctionIsSeqOf
<1>5. all = Http!FlattenSeq(s)
  BY DEF Http!HeaderLines
<1> HIDE DEF s, all
<1>6. all \in Seq(Symbols) /\ \E o \in [1 .. Len(s) + 1 -> Nat] : Lies(o, s, all)
  BY <1>4, <1>5, FlattenLies
<1>7. PICK o \in [1 .. Len(H) + 1 -> Nat] : Lies(o, s, all)
  BY <1>4, <1>6
<1>8. ASSUME NEW i \in 1 .. Len(H)
      PROVE  /\ Has(all, o[i], H[i][1])
             /\ Has(all, o[i] + Len(H[i][1]), H[i][2])
             /\ Has(all, o[i] + Len(H[i][1]) + Len(H[i][2]), H[i][3])
             /\ Has(all, o[i] + Len(H[i][1]) + Len(H[i][2]) + Len(H[i][3]), <<"CR", "LF">>)
             /\ o[i + 1] = o[i] + Len(H[i][1]) + Len(H[i][2]) + Len(H[i][3]) + 2
  <2> DEFINE x == o[i]
             a == Len(H[i][1])
             e == Len(H[i][2])
             c == Len(H[i][3])
             w == s[i]
  <2>1. /\ x \in Nat /\ a \in Nat /\ e \in Nat /\ c \in Nat
        /\ a + e \in Nat /\ a + e + c \in Nat
    <3>1. x \in Nat /\ a \in Nat /\ e \in Nat /\ c \in Nat
      <4>1. i \in 1 .. Len(H) + 1
        BY <1>1
      <4> QED
        BY <1>3, <4>1
    <3> HIDE DEF x, a, e, c
    <3> QED
      BY <3>1
  <2>2. Has(all, x, w) /\ o[i + 1] = x + Len(w) /\ Len(w) = a + e + c + 2
    BY <1>3, <1>4, <1>7 DEF Lies
  <2>3. /\ w \in Seq(Symbols) /\ H[i][1] \in Seq(Symbols) /\ H[i][2] \in Seq(Symbols)
        /\ H[i][3] \in Seq(Symbols)
    BY <1>1, <1>3
  <2>4. Has(w, 0, H[i][1]) /\ Has(w, a, H[i][2]) /\ Has(w, a + e, H[i][3])
        /\ Has(w, a + e + c, <<"CR", "LF">>)
    BY <1>3
  <2> HIDE DEF x, a, e, c, w
  <2>5. Has(all, x + 0, H[i][1]) /\ Has(all, x + a, H[i][2]) /\ Has(all, x + (a + e), H[i][3])
    BY <1>6, <2>1, <2>2, <2>3, <2>4, HasWithin
  <2>6. Has(all, x + (a + e + c), <<"CR", "LF">>)
    BY <1>2, <1>6, <2>1, <2>2, <2>3, <2>4, HasWithin
  <2>7. x + 0 = x /\ x + (a + e) = x + a + e /\ x + (a + e + c) = x + a + e + c
        /\ x + (a + e + c + 2) = x + a + e + c + 2
    BY <2>1
  <2> QED
    BY <2>2, <2>5, <2>6, <2>7 DEF x, a, e, c
<1>9. o[1] = 0 /\ o[Len(H) + 1] = Len(all)
  BY <1>4, <1>7 DEF Lies
<1> QED
  BY <1>6, <1>8, <1>9 DEF all

\* A request that is WellFormed, and not of HTTP 1.0.
Text(w, stops) ==
    w \in Seq(Symbols) /\ Len(w) \in Nat /\ Len(w) # 0 /\ \A k \in 1 .. Len(w) : w[k] \notin stops

ProperParams(P) ==
    /\ P \in Seq(Seq(Symbols) \X Seq(Symbols)) /\ Len(P) \in Nat
    /\ \A i \in 1 .. Len(P) :
          Text(P[i][1], {"SP", "CR", "LF", "="}) /\ Text(P[i][2], {"SP", "CR", "LF", "&"})

Colon(s, c) == \A j \in 1 .. Len(s) : s[j] = IF j = c THEN ":" ELSE "SP"

ProperHeaders(H, length) ==
    /\ H \in Seq(Triples) /\ Len(H) \in Nat
    /\ \A i \in 1 .. Len(H) :
          /\ Text(H[i][1], {"SP", "CR", ":"})
          /\ H[i][2] \in Seq(Symbols) /\ Len(H[i][2]) \in Nat
          /\ \E c \in 1 .. Len(H[i][2]) : Colon(H[i][2], c)
          /\ Text(H[i][3], {"CR"}) /\ H[i][3][1] # "SP"
          /\ H[i][1] = <<"CL">> => Http!IntOf(H[i][3]) = length

ProperVersion(v) ==
    \E major, minor \in Http!Digit : v = <<major, ".", minor>> /\ v # <<"1", ".", "0">>

Proper(r) ==
    /\ \E m \in Http!Upper : r.method = <<m>>
    /\ Text(r.url, {"SP", "?"}) /\ r.url[1] = "/"
    /\ ProperParams(r.params)
    /\ ProperVersion(r.version)
    /\ ProperHeaders(r.headers, Len(r.body))
    /\ r.body \in Seq(Symbols) /\ Len(r.body) \in Nat

LEMMA SeqMonotone == \A S, T : \A s \in Seq(S) : S \subseteq T => s \in Seq(T)
<1> SUFFICES ASSUME NEW S, NEW T, NEW s \in Seq(S), S \subseteq T PROVE s \in Seq(T)
  OBVIOUS
<1>1. Len(s) \in Nat /\ s \in [1 .. Len(s) -> T]
  BY LenProperties
<1> QED
  BY <1>1, SeqDef

LEMMA WordIsText ==
    ASSUME NEW w, NEW stops, Http!Word(w, stops), w # << >>
    PROVE  Text(w, stops)
<1>1. w \in Seq(STRING) /\ \A i \in 1 .. Len(w) : w[i] \notin stops
  BY DEF Http!Word
<1>2. w \in Seq(Symbols)
  BY <1>1, SeqMonotone DEF Symbols
<1>3. Len(w) \in Nat /\ Len(w) # 0
  BY <1>2, LenProperties, EmptySeq
<1> QED
  BY <1>1, <1>2, <1>3 DEF Text

LEMMA RequestIs == ASSUME NEW r \in Requests PROVE Proper(r)
<1>1. Http!WellFormed(r) /\ r.version # <<"1", ".", "0">>
  BY PartsAssumption, VersionAssumption DEF Http!HttpContextAssumption
<1>2. STRING \subseteq Symbols /\ {"SP", ":"} \subseteq Symbols
  BY DEF Symbols
<1>3. Text(r.url, {"SP", "?"}) /\ r.url[1] = "/"
  BY <1>1, WordIsText DEF Http!WellFormed, Http!Blank
<1>4. r.body \in Seq(Symbols) /\ Len(r.body) \in Nat
  <2>1. r.body \in Seq(STRING)
    BY <1>1 DEF Http!WellFormed
  <2>2. r.body \in Seq(Symbols)
    BY <1>2, <2>1, SeqMonotone
  <2> QED
    BY <2>2, LenProperties
<1>5. ProperParams(r.params)
  <2> DEFINE P == r.params
  <2>1. /\ P \in Seq(Seq(STRING) \X Seq(STRING))
        /\ \A i \in 1 .. Len(P) :
              /\ Http!Word(P[i][1], {"SP", "CR", "LF", "="}) /\ P[i][1] # << >>
              /\ Http!Word(P[i][2], {"SP", "CR", "LF", "&"}) /\ P[i][2] # << >>
    BY <1>1 DEF Http!WellFormed, Http!Blank
  <2> HIDE DEF P
  <2>2. Seq(STRING) \X Seq(STRING) \subseteq Seq(Symbols) \X Seq(Symbols)
    BY <1>2, SeqMonotone
  <2>3. P \in Seq(Seq(Symbols) \X Seq(Symbols))
    BY <2>1, <2>2, SeqMonotone
  <2>4. Len(P) \in Nat
    BY <2>1, LenProperties
  <2>5. \A i \in 1 .. Len(P) :
            Text(P[i][1], {"SP", "CR", "LF", "="}) /\ Text(P[i][2], {"SP", "CR", "LF", "&"})
    BY <2>1, WordIsText
  <2>6. ProperParams(P)
    BY <2>3, <2>4, <2>5 DEF ProperParams
  <2> QED
    BY <2>6 DEF P
<1>6. ProperHeaders(r.headers, Len(r.body))
  <2> DEFINE H == r.headers
             length == Len(r.body)
  <2>1. /\ H \in Seq(Seq(STRING) \X Seq(STRING) \X Seq(STRING))
        /\ \A i \in 1 .. Len(H) :
              /\ Http!Word(H[i][1], {"SP", "CR", ":"}) /\ H[i][1] # << >>
              /\ H[i][2] \in Seq({"SP", ":"})
              /\ \E c \in 1 .. Len(H[i][2]) : \A j \in 1 .. Len(H[i][2]) :
                    (H[i][2][j] = ":") <=> (j = c)
              /\ Http!Word(H[i][3], {"CR"}) /\ H[i][3] # << >>
              /\ H[i][3][1] # "SP"
              /\ H[i][1] = <<"CL">> => Http!IntOf(H[i][3]) = length
    BY <1>1 DEF Http!WellFormed, Http!Blank
  <2> HIDE DEF H, length
  <2>2. Seq(STRING) \X Seq(STRING) \X Seq(STRING) \subseteq Triples
    BY <1>2, SeqMonotone DEF Triples
  <2>3. H \in Seq(Triples)
    BY <2>1, <2>2, SeqMonotone
  <2>4. Len(H) \in Nat
    BY <2>3, LenProperties
  <2>5. ASSUME NEW i \in 1 .. Len(H)
        PROVE  /\ H[i][2] \in Seq(Symbols) /\ Len(H[i][2]) \in Nat
               /\ \E c \in 1 .. Len(H[i][2]) : Colon(H[i][2], c)
    <3> DEFINE s == H[i][2]
    <3>1. s \in Seq({"SP", ":"})
      BY <2>1
    <3>2. PICK c \in 1 .. Len(s) : \A j \in 1 .. Len(s) : (s[j] = ":") <=> (j = c)
      BY <2>1
    <3> HIDE DEF s
    <3>3. \A j \in 1 .. Len(s) : s[j] \in {"SP", ":"}
      BY <3>1, ElementOfSeq
    <3>4. Colon(s, c)
      BY <3>2, <3>3 DEF Colon
    <3>5. s \in Seq(Symbols) /\ Len(s) \in Nat
      BY <1>2, <3>1, SeqMonotone, LenProperties
    <3> QED
      BY <3>4, <3>5 DEF s
  <2>6. ASSUME NEW i \in 1 .. Len(H)
        PROVE  /\ Text(H[i][1], {"SP", "CR", ":"})
               /\ Text(H[i][3], {"CR"}) /\ H[i][3][1] # "SP"
               /\ H[i][1] = <<"CL">> => Http!IntOf(H[i][3]) = length
    <3>1. Http!Word(H[i][1], {"SP", "CR", ":"}) /\ H[i][1] # << >>
      BY <2>1
    <3>2. Http!Word(H[i][3], {"CR"}) /\ H[i][3] # << >> /\ H[i][3][1] # "SP"
          /\ (H[i][1] = <<"CL">> => Http!IntOf(H[i][3]) = length)
      BY <2>1
    <3>3. Text(H[i][1], {"SP", "CR", ":"}) /\ Text(H[i][3], {"CR"})
      BY <3>1, <3>2, WordIsText
    <3> QED
      BY <3>2, <3>3
  <2>7. ProperHeaders(H, length)
    BY <2>3, <2>4, <2>5, <2>6 DEF ProperHeaders
  <2> QED
    BY <2>7 DEF H, length
<1>7. ProperVersion(r.version) /\ \E m \in Http!Upper : r.method = <<m>>
  BY <1>1 DEF Http!WellFormed, ProperVersion
<1> QED
  BY <1>3, <1>4, <1>5, <1>6, <1>7 DEF Proper

\* The parts of a message, as many as are handled at once.
LEMMA MessageIs ==
    \A r : Http!MessageOf(r) =
        ((((((((r.method \o <<"SP">>) \o r.url) \o Http!Query(r.params)) \o <<"SP", "HTTP", "/">>)
            \o r.version) \o <<"CR", "LF">>) \o Http!HeaderLines(r.headers)) \o <<"CR", "LF">>)
            \o r.body
BY Zenon DEF Http!MessageOf, Http!HeadOf

LEMMA ThreeSymbols ==
    ASSUME NEW T, NEW c \in T, NEW d \in T, NEW e \in T
    PROVE  <<c, d, e>> \in Seq(T) /\ Len(<<c, d, e>>) = 3
OBVIOUS

LEMMA Shifted ==
    ASSUME NEW n, NEW o \in [1 .. n + 1 -> Nat], NEW at \in Nat
    PROVE  \A i \in 1 .. n + 1 : at + o[i] \in Nat
OBVIOUS

LEMMA MessageLaid ==
    ASSUME NEW r, Proper(r)
    PROVE  \E q, h : Layout(r, q, h, Http!MessageOf(r))
<1> DEFINE P == r.params
           H == r.headers
           blank == <<"SP">>
           protocol == <<"SP", "HTTP", "/">>
           newline == <<"CR", "LF">>
           query == Http!Query(P)
           lines == Http!HeaderLines(H)
           u == ((r.method \o blank) \o r.url) \o query
           v == ((u \o protocol) \o r.version) \o newline
           all == ((v \o lines) \o newline) \o r.body
<1>1. all = Http!MessageOf(r)
  BY MessageIs
<1>2. /\ r.method \in Seq(Symbols) /\ Len(r.method) = 1
      /\ blank \in Seq(Symbols) /\ Len(blank) = 1
      /\ r.url \in Seq(Symbols)
      /\ protocol \in Seq(Symbols) /\ Len(protocol) = 3
      /\ newline \in Seq(Symbols) /\ Len(newline) = 2
      /\ r.body \in Seq(Symbols)
  <2>1. r.method \in Seq(Symbols) /\ Len(r.method) = 1
    <3>1. PICK m \in Http!Upper : r.method = <<m>>
      BY DEF Proper
    <3>2. m \in Symbols
      BY DEF Symbols, Http!Alpha
    <3> QED
      BY <3>1, <3>2, OneSymbol
  <2>2. r.url \in Seq(Symbols) /\ r.body \in Seq(Symbols)
    BY DEF Proper, Text
  <2> QED
    BY <2>1, <2>2, LiteralsAreSymbols, OneSymbol, TwoSymbols, ThreeSymbols
<1>3. r.version \in Seq(Symbols) /\ Len(r.version) = 3
      /\ r.version = <<r.version[1], r.version[2], r.version[3]>> /\ r.version[2] = "."
  <2>1. PICK major, minor \in Http!Digit : r.version = <<major, ".", minor>>
    BY DEF Proper, ProperVersion
  <2>2. major \in Symbols /\ minor \in Symbols /\ "." \in Symbols
    BY DEF Symbols
  <2>3. <<major, ".", minor>> \in Seq(Symbols) /\ Len(<<major, ".", minor>>) = 3
    BY <2>2, ThreeSymbols
  <2> QED
    BY <2>1, <2>3
<1>4. P \in Seq(Seq(Symbols) \X Seq(Symbols)) /\ H \in Seq(Triples)
  BY DEF Proper, ProperParams, ProperHeaders
<1>5. /\ query \in Seq(Symbols)
      /\ \E o \in [1 .. Len(P) + 1 -> Nat] :
            /\ o[1] = 0 /\ o[Len(P) + 1] = Len(query)
            /\ \A i \in 1 .. Len(P) :
                  /\ query[o[i] + 1] = IF i = 1 THEN "?" ELSE "&"
                  /\ Has(query, o[i] + 1, P[i][1])
                  /\ query[o[i] + Len(P[i][1]) + 2] = "="
                  /\ Has(query, o[i] + Len(P[i][1]) + 2, P[i][2])
                  /\ o[i + 1] = o[i] + Len(P[i][1]) + Len(P[i][2]) + 2
  <2> HIDE DEF P
  <2> QED
    BY <1>4, QueryLies
<1>6. /\ lines \in Seq(Symbols)
      /\ \E o \in [1 .. Len(H) + 1 -> Nat] :
            /\ o[1] = 0 /\ o[Len(H) + 1] = Len(lines)
            /\ \A i \in 1 .. Len(H) :
                  /\ Has(lines, o[i], H[i][1])
                  /\ Has(lines, o[i] + Len(H[i][1]), H[i][2])
                  /\ Has(lines, o[i] + Len(H[i][1]) + Len(H[i][2]), H[i][3])
                  /\ Has(lines, o[i] + Len(H[i][1]) + Len(H[i][2]) + Len(H[i][3]), <<"CR", "LF">>)
                  /\ o[i + 1] = o[i] + Len(H[i][1]) + Len(H[i][2]) + Len(H[i][3]) + 2
  <2> HIDE DEF H
  <2> QED
    BY <1>4, LinesLie
<1> HIDE DEF query, lines
<1>7. Four(Symbols, u, r.method, blank, r.url, query)
  <2> HIDE DEF blank
  <2> QED
    BY <1>2, <1>5, HasFour
<1> HIDE DEF blank, protocol, newline
<1>8. Four(Symbols, v, u, protocol, r.version, newline)
  <2>1. u \in Seq(Symbols)
    BY <1>7 DEF Four
  <2> HIDE DEF u
  <2> QED
    BY <1>2, <1>3, <2>1, HasFour
<1>9. Four(Symbols, all, v, lines, newline, r.body)
  <2>1. v \in Seq(Symbols)
    BY <1>8 DEF Four
  <2> HIDE DEF v
  <2> QED
    BY <1>2, <1>6, <2>1, HasFour
<1> HIDE DEF u, v, all
<1> DEFINE U == 2 + Len(r.url)
           V == U + Len(query)
           W == V + 8
           E == W + Len(lines)
<1>10. /\ u \in Seq(Symbols) /\ v \in Seq(Symbols) /\ all \in Seq(Symbols)
       /\ Len(r.url) \in Nat /\ Len(query) \in Nat /\ Len(lines) \in Nat /\ Len(r.body) \in Nat
       /\ U \in Nat /\ V \in Nat /\ W \in Nat /\ E \in Nat
       /\ Len(u) = V /\ Len(v) = W /\ Len(all) = E + 2 + Len(r.body)
       /\ Has(u, 0, r.method) /\ Has(u, 1, blank) /\ Has(u, 2, r.url) /\ Has(u, U, query)
       /\ Has(v, 0, u) /\ Has(v, V, protocol) /\ Has(v, V + 3, r.version) /\ Has(v, V + 6, newline)
       /\ Has(all, 0, v) /\ Has(all, W, lines) /\ Has(all, E, newline) /\ Has(all, E + 2, r.body)
  <2> DEFINE a == Len(r.url)
             e == Len(query)
             l == Len(lines)
             n == Len(r.body)
  <2>1. a \in Nat /\ e \in Nat /\ l \in Nat /\ n \in Nat
    BY <1>7, <1>9 DEF Four
  <2>2. Len(u) = 1 + 1 + a + e /\ Has(u, 0, r.method) /\ Has(u, 1, blank)
        /\ Has(u, 1 + 1, r.url) /\ Has(u, 1 + 1 + a, query)
    BY <1>2, <1>7 DEF Four
  <2>3. Len(v) = Len(u) + 3 + 3 + 2 /\ Has(v, 0, u) /\ Has(v, Len(u), protocol)
        /\ Has(v, Len(u) + 3, r.version) /\ Has(v, Len(u) + 3 + 3, newline)
    BY <1>2, <1>3, <1>8 DEF Four
  <2>4. Len(all) = Len(v) + l + 2 + n /\ Has(all, 0, v) /\ Has(all, Len(v), lines)
        /\ Has(all, Len(v) + l, newline) /\ Has(all, Len(v) + l + 2, r.body)
    BY <1>2, <1>9 DEF Four
  <2>5. u \in Seq(Symbols) /\ v \in Seq(Symbols) /\ all \in Seq(Symbols)
    BY <1>7, <1>8, <1>9 DEF Four
  <2> HIDE DEF a, e, l, n
  <2>6. 1 + 1 = 2 /\ 1 + 1 + a = 2 + a /\ 1 + 1 + a + e = (2 + a) + e
    BY <2>1
  <2>7. Len(u) = (2 + a) + e /\ Len(u) \in Nat
    BY <2>1, <2>2
  <2>8. Len(u) + 3 + 3 = Len(u) + 6 /\ Len(u) + 3 + 3 + 2 = Len(u) + 8
    BY <2>7
  <2>9. Len(v) = Len(u) + 8 /\ Len(v) \in Nat /\ Len(v) + l \in Nat
    BY <2>1, <2>3, <2>7, <2>8
  <2> QED
    BY <2>1, <2>2, <2>3, <2>4, <2>5, <2>6, <2>7, <2>8, <2>9 DEF a, e, l, n
<1>11. ASSUME NEW w \in Seq(Symbols), NEW at \in Nat, Has(v, at, w) PROVE Has(all, at, w)
  <2>1. Has(all, 0 + at, w)
    BY <1>10, <1>11, HasWithin
  <2> QED
    BY <2>1
<1>12. ASSUME NEW w \in Seq(Symbols), NEW at \in Nat, Has(u, at, w) PROVE Has(all, at, w)
  <2>1. Has(v, 0 + at, w)
    BY <1>10, <1>12, HasWithin
  <2>2. Has(v, at, w)
    BY <2>1
  <2> QED
    BY <1>11, <2>2
<1> HIDE DEF U, V, W, E
<1>13. PICK o \in [1 .. Len(P) + 1 -> Nat] :
          /\ o[1] = 0 /\ o[Len(P) + 1] = Len(query)
          /\ \A i \in 1 .. Len(P) :
                /\ query[o[i] + 1] = IF i = 1 THEN "?" ELSE "&"
                /\ Has(query, o[i] + 1, P[i][1])
                /\ query[o[i] + Len(P[i][1]) + 2] = "="
                /\ Has(query, o[i] + Len(P[i][1]) + 2, P[i][2])
                /\ o[i + 1] = o[i] + Len(P[i][1]) + Len(P[i][2]) + 2
  BY <1>5
<1>14. PICK x \in [1 .. Len(H) + 1 -> Nat] :
          /\ x[1] = 0 /\ x[Len(H) + 1] = Len(lines)
          /\ \A i \in 1 .. Len(H) :
                /\ Has(lines, x[i], H[i][1])
                /\ Has(lines, x[i] + Len(H[i][1]), H[i][2])
                /\ Has(lines, x[i] + Len(H[i][1]) + Len(H[i][2]), H[i][3])
                /\ Has(lines, x[i] + Len(H[i][1]) + Len(H[i][2]) + Len(H[i][3]), <<"CR", "LF">>)
                /\ x[i + 1] = x[i] + Len(H[i][1]) + Len(H[i][2]) + Len(H[i][3]) + 2
  BY <1>6
<1> DEFINE q == [i \in 1 .. Len(P) + 1 |-> U + o[i]]
           h == [i \in 1 .. Len(H) + 1 |-> W + x[i]]
<1>15. /\ q \in [1 .. Len(P) + 1 -> Nat] /\ h \in [1 .. Len(H) + 1 -> Nat]
       /\ \A i \in 1 .. Len(P) + 1 : q[i] = U + o[i]
       /\ \A i \in 1 .. Len(H) + 1 : h[i] = W + x[i]
       /\ Len(P) \in Nat /\ Len(H) \in Nat
  <2>1. Len(P) \in Nat /\ Len(H) \in Nat
    BY <1>4, LenProperties
  <2>2. U \in Nat /\ W \in Nat
    BY <1>10
  <2>3. \A i \in 1 .. Len(P) + 1 : U + o[i] \in Nat
    BY <2>2, Shifted
  <2>4. \A i \in 1 .. Len(H) + 1 : W + x[i] \in Nat
    BY <2>2, Shifted
  <2> QED
    BY <2>1, <2>3, <2>4
<1> HIDE DEF P, H, q, h
<1>16. UrlLaid(r, q, all)
  <2>1. Has(all, 0, r.method) /\ Has(all, 1, blank) /\ Has(all, 2, r.url)
    BY <1>2, <1>10, <1>12
  <2>2. all[0 + 1] = r.method[1]
    BY <1>2, <2>1 DEF Has
  <2>3. all[1 + 1] = "SP"
    BY <2>1, HasOne DEF blank
  <2>4. q[1] = 2 + Len(r.url)
    <3>1. 1 \in 1 .. Len(P) + 1
      BY <1>15
    <3> QED
      BY <1>10, <1>13, <1>15, <3>1 DEF U
  <2> QED
    BY <2>1, <2>2, <2>3, <2>4 DEF UrlLaid
<1>17. ParamsLaid(r, q, all)
  <2>1. Has(all, U, query)
    BY <1>5, <1>10, <1>12
  <2>2. SUFFICES ASSUME NEW i \in 1 .. Len(P)
                 PROVE  /\ all[q[i] + 1] = IF i = 1 THEN "?" ELSE "&"
                        /\ Has(all, q[i] + 1, P[i][1])
                        /\ all[q[i] + Len(P[i][1]) + 2] = "="
                        /\ Has(all, q[i] + Len(P[i][1]) + 2, P[i][2])
                        /\ q[i + 1] = q[i] + Len(P[i][1]) + Len(P[i][2]) + 2
    BY DEF ParamsLaid, P
  <2> DEFINE k == Len(P[i][1])
             l == Len(P[i][2])
             s == o[i]
  <2>3. /\ i \in 1 .. Len(P) + 1 /\ i + 1 \in 1 .. Len(P) + 1
        /\ s \in Nat
        /\ P[i][1] \in Seq(Symbols) /\ P[i][2] \in Seq(Symbols)
    <3>1. P[i] \in Seq(Symbols) \X Seq(Symbols)
      BY <1>4, ElementOfSeq
    <3>2. i \in 1 .. Len(P) + 1 /\ i + 1 \in 1 .. Len(P) + 1
      BY <1>15
    <3> QED
      BY <3>1, <3>2
  <2>4. k \in Nat /\ l \in Nat
    BY <2>3, LenProperties
  <2>5. /\ query[s + 1] = IF i = 1 THEN "?" ELSE "&"
        /\ Has(query, s + 1, P[i][1])
        /\ query[s + k + 2] = "="
        /\ Has(query, s + k + 2, P[i][2])
        /\ o[i + 1] = s + k + l + 2
    BY <1>13
  <2>6. q[i] = U + s /\ q[i + 1] = U + (s + k + l + 2)
    BY <1>15, <2>3, <2>5
  <2> HIDE DEF k, l, s
  <2>7. Has(all, U + (s + 1), P[i][1])
    <3>1. s + 1 \in Nat
      BY <2>3
    <3> QED
      BY <1>5, <1>10, <2>1, <2>3, <2>5, <3>1, HasWithin
  <2>8. Has(all, U + (s + k + 2), P[i][2])
    <3>1. s + k + 2 \in Nat
      BY <2>3, <2>4
    <3> QED
      BY <1>5, <1>10, <2>1, <2>3, <2>5, <3>1, HasWithin
  <2>9. s + k + 2 + l <= Len(query)
    BY <2>5 DEF Has, l
  <2>10. all[U + (s + 1)] = query[s + 1] /\ all[U + (s + k + 2)] = query[s + k + 2]
    <3> DEFINE e == Len(query)
    <3>1. e \in Nat /\ s + k + 2 + l <= e /\ s \in Nat /\ k \in Nat /\ l \in Nat
      BY <1>10, <2>3, <2>4, <2>9
    <3> HIDE DEF e
    <3>2. s + 1 \in 1 .. e /\ s + k + 2 \in 1 .. e
      BY <3>1
    <3> QED
      BY <2>1, <3>2 DEF Has, e
  <2>11. /\ U + (s + 1) = (U + s) + 1 /\ U + (s + k + 2) = (U + s) + k + 2
         /\ U + (s + k + l + 2) = (U + s) + k + l + 2
    BY <1>10, <2>3, <2>4
  <2>12. /\ all[(U + s) + 1] = IF i = 1 THEN "?" ELSE "&"
         /\ Has(all, (U + s) + 1, P[i][1])
         /\ all[(U + s) + k + 2] = "="
         /\ Has(all, (U + s) + k + 2, P[i][2])
    BY <2>5, <2>7, <2>8, <2>10, <2>11
  <2> QED
    BY <2>6, <2>11, <2>12, Zenon DEF k, l
<1>18. VersionLaid(r, q[Len(r.params) + 1], h, all)
  <2>1. q[Len(P) + 1] = V
    <3>1. Len(P) + 1 \in 1 .. Len(P) + 1
      BY <1>15
    <3> QED
      BY <1>13, <1>15, <3>1 DEF V
  <2>2. V + 3 \in Nat /\ V + 6 \in Nat /\ V \in Nat
    <3>1. \A n \in Nat : n + 3 \in Nat /\ n + 6 \in Nat
      OBVIOUS
    <3>2. V \in Nat
      BY <1>10
    <3> QED
      BY <3>1, <3>2
  <2>3. Has(all, V, protocol) /\ Has(all, V + 3, r.version) /\ Has(all, V + 6, newline)
    BY <1>2, <1>3, <1>10, <1>11, <2>2
  <2>4. all[V + 1] = "SP" /\ all[V + 2] = "HTTP" /\ all[V + 3] = "/"
    <3>1. Has(all, V, <<"SP", "HTTP", "/">>)
      BY <2>3 DEF protocol
    <3> QED
      BY <2>2, <3>1, HasThree
  <2>5. all[(V + 6) + 1] = "CR" /\ all[(V + 6) + 2] = "LF"
    BY <2>2, <2>3, HasTwo DEF newline
  <2>6. /\ all[(V + 3) + 1] = r.version[1] /\ all[(V + 3) + 2] = "."
        /\ all[(V + 3) + 3] = r.version[3]
    BY <1>3, <2>3 DEF Has
  <2>7. /\ (V + 3) + 1 = V + 4 /\ (V + 3) + 2 = V + 5 /\ (V + 3) + 3 = V + 6
        /\ (V + 6) + 1 = V + 7 /\ (V + 6) + 2 = V + 8
    <3>1. V \in Nat
      BY <1>10
    <3> QED
      BY <3>1
  <2>8. h[1] = V + 8
    <3>1. 1 \in 1 .. Len(H) + 1
      BY <1>15
    <3> QED
      BY <1>10, <1>14, <1>15, <3>1 DEF W
  <2>9. VersionLaid(r, V, h, all)
    BY <2>4, <2>5, <2>6, <2>7, <2>8 DEF VersionLaid
  <2> QED
    BY <2>1, <2>9 DEF P
<1>19. HeadersLaid(r, h, all)
  <2>1. Has(all, W, lines)
    BY <1>10
  <2>2. SUFFICES ASSUME NEW i \in 1 .. Len(H)
                 PROVE  /\ Has(all, h[i], H[i][1])
                        /\ Has(all, h[i] + Len(H[i][1]), H[i][2])
                        /\ Has(all, h[i] + Len(H[i][1]) + Len(H[i][2]), H[i][3])
                        /\ all[h[i + 1] - 1] = "CR" /\ all[h[i + 1]] = "LF"
                        /\ h[i + 1] = h[i] + Len(H[i][1]) + Len(H[i][2]) + Len(H[i][3]) + 2
    BY DEF HeadersLaid, H
  <2> DEFINE k == Len(H[i][1])
             l == Len(H[i][2])
             m == Len(H[i][3])
             s == x[i]
  <2>3. /\ i \in 1 .. Len(H) + 1 /\ i + 1 \in 1 .. Len(H) + 1
        /\ s \in Nat
        /\ H[i][1] \in Seq(Symbols) /\ H[i][2] \in Seq(Symbols) /\ H[i][3] \in Seq(Symbols)
    <3>1. H[i] \in Triples
      BY <1>4, ElementOfSeq
    <3>2. i \in 1 .. Len(H) + 1 /\ i + 1 \in 1 .. Len(H) + 1
      BY <1>15
    <3> QED
      BY <3>1, <3>2 DEF Triples
  <2>4. k \in Nat /\ l \in Nat /\ m \in Nat
    BY <2>3, LenProperties
  <2>5. /\ Has(lines, s, H[i][1])
        /\ Has(lines, s + k, H[i][2])
        /\ Has(lines, s + k + l, H[i][3])
        /\ Has(lines, s + k + l + m, <<"CR", "LF">>)
        /\ x[i + 1] = s + k + l + m + 2
    BY <1>14
  <2>6. h[i] = W + s /\ h[i + 1] = W + (s + k + l + m + 2)
    BY <1>15, <2>3, <2>5
  <2> HIDE DEF k, l, m, s
  <2>7. /\ s + k \in Nat /\ s + k + l \in Nat /\ s + k + l + m \in Nat
        /\ W + (s + k) = W + s + k /\ W + (s + k + l) = W + s + k + l
        /\ W + (s + k + l + m + 2) = W + s + k + l + m + 2
        /\ (W + (s + k + l + m)) + 1 = (W + (s + k + l + m + 2)) - 1
        /\ (W + (s + k + l + m)) + 2 = W + (s + k + l + m + 2)
        /\ W + (s + k + l + m) \in Nat
    BY <1>10, <2>3, <2>4
  <2>8. /\ Has(all, W + s, H[i][1]) /\ Has(all, W + (s + k), H[i][2])
        /\ Has(all, W + (s + k + l), H[i][3])
    BY <1>6, <1>10, <2>1, <2>3, <2>5, <2>7, HasWithin
  <2>9. Has(all, W + (s + k + l + m), <<"CR", "LF">>)
    <3>1. <<"CR", "LF">> \in Seq(Symbols)
      BY <1>2 DEF newline
    <3> QED
      BY <1>6, <1>10, <2>1, <2>5, <2>7, <3>1, HasWithin
  <2>10. all[(W + (s + k + l + m)) + 1] = "CR" /\ all[(W + (s + k + l + m)) + 2] = "LF"
    BY <2>7, <2>9, HasTwo
  <2>11. /\ all[(W + (s + k + l + m + 2)) - 1] = "CR" /\ all[W + (s + k + l + m + 2)] = "LF"
         /\ Has(all, W + s + k, H[i][2]) /\ Has(all, W + s + k + l, H[i][3])
    BY <2>7, <2>8, <2>10
  <2> QED
    BY <2>6, <2>7, <2>8, <2>11, Zenon DEF k, l, m
<1>20. BodyLaid(r, h[Len(r.headers) + 1], all)
  <2>1. h[Len(H) + 1] = E
    <3>1. Len(H) + 1 \in 1 .. Len(H) + 1
      BY <1>15
    <3> QED
      BY <1>14, <1>15, <3>1 DEF E
  <2>2. all[E + 1] = "CR" /\ all[E + 2] = "LF"
    BY <1>10, HasTwo DEF newline
  <2>3. BodyLaid(r, E, all)
    BY <1>10, <2>2 DEF BodyLaid
  <2> QED
    BY <2>1, <2>3 DEF H
<1>21. Layout(r, q, h, all)
  BY <1>10, <1>15, <1>16, <1>17, <1>18, <1>19, <1>20 DEF Layout, P, H
<1> QED
  BY <1>1, <1>21

-----------------------------------------------------------------------------
(***************************************************************************)
(* What the parser has stored, and the words it reads.                     *)
(***************************************************************************)
\* MapOf the first n pairs.
MapTo(pairs, k, v, n) ==
    [x \in {pairs[i][k] : i \in 1 .. n} |->
        pairs[Http!Max({i \in 1 .. n : pairs[i][k] = x})][v]]

LEMMA MapOfIs == \A s, k, v : Http!MapOf(s, k, v) = MapTo(s, k, v, Len(s))
BY Zenon DEF Http!MapOf, MapTo

LEMMA MapToNone == \A s, k, v : MapTo(s, k, v, 0) = << >>
<1> SUFFICES ASSUME NEW s, NEW k, NEW v PROVE MapTo(s, k, v, 0) = << >>
  OBVIOUS
<1>1. {s[i][k] : i \in 1 .. 0} = {} /\ 1 .. 0 = {}
  OBVIOUS
<1>2. MapTo(s, k, v, 0) \in [1 .. 0 -> {}]
  BY <1>1 DEF MapTo
<1>3. \A f \in [1 .. 0 -> {}] : f = << >>
  OBVIOUS
<1> QED
  BY <1>2, <1>3

LEMMA MapToNext ==
    ASSUME NEW s, NEW k, NEW v, NEW n \in Nat, NEW f,
           f = Http!Put(MapTo(s, k, v, n), s[n + 1][k], s[n + 1][v])
    PROVE  f = MapTo(s, k, v, n + 1)
<1> DEFINE old == {s[i][k] : i \in 1 .. n}
           new == {s[i][k] : i \in 1 .. n + 1}
           at(x, m) == {i \in 1 .. m : s[i][k] = x}
           g == MapTo(s, k, v, n)
           e == MapTo(s, k, v, n + 1)
           x0 == s[n + 1][k]
<1>1. new = old \cup {x0}
  <2>1. \A i : i \in 1 .. n + 1 <=> i \in 1 .. n \/ i = n + 1
    OBVIOUS
  <2> QED
    BY <2>1
<1>2. /\ DOMAIN g = old /\ \A x \in old : g[x] = s[Http!Max(at(x, n))][v]
      /\ e = [x \in new |-> s[Http!Max(at(x, n + 1))][v]]
  BY DEF MapTo
<1>3. f = [x \in old \cup {x0} |-> IF x = x0 THEN s[n + 1][v] ELSE g[x]]
  <2>1. f = [x \in DOMAIN g \cup {x0} |-> IF x = x0 THEN s[n + 1][v] ELSE g[x]]
    BY Zenon DEF Http!Put
  <2> QED
    BY <1>2, <2>1
<1>4. Http!Max(at(x0, n + 1)) = n + 1
  <2> DEFINE A == at(x0, n + 1)
  <2>1. n + 1 \in A /\ \A y \in A : y \in 1 .. n + 1 /\ n + 1 >= y
    OBVIOUS
  <2> HIDE DEF A
  <2>2. \E x \in A : \A y \in A : x >= y
    BY <2>1
  <2>3. Http!Max(A) = CHOOSE x \in A : \A y \in A : x >= y
    BY Zenon DEF Http!Max
  <2>4. Http!Max(A) \in A /\ \A y \in A : Http!Max(A) >= y
    BY <2>2, <2>3, Zenon
  <2>5. Http!Max(A) = n + 1
    BY <2>1, <2>4
  <2> QED
    BY <2>5 DEF A
<1>5. ASSUME NEW x, x # x0 PROVE at(x, n + 1) = at(x, n)
  BY <1>5
<1> HIDE DEF old, new, at, g, e, x0
<1>6. ASSUME NEW x \in new
      PROVE  s[Http!Max(at(x, n + 1))][v] = IF x = x0 THEN s[n + 1][v] ELSE g[x]
  <2>1. CASE x = x0
    BY <1>4, <2>1
  <2>2. CASE x # x0
    <3>1. x \in old
      BY <1>1, <2>2
    <3>2. at(x, n + 1) = at(x, n)
      BY <1>5, <2>2
    <3> QED
      BY <1>2, <2>2, <3>1, <3>2
  <2> QED
    BY <2>1, <2>2
<1>7. f = e
  BY <1>1, <1>2, <1>3, <1>6
<1> QED
  BY <1>7 DEF e

\* The value of a key is overwritten: first with nothing, then with the text.
LEMMA PutTwice ==
    \A f, k, x, y : Http!Put(Http!Put(f, k, x), k, y) = Http!Put(f, k, y)
<1> SUFFICES ASSUME NEW f, NEW k, NEW x, NEW y
             PROVE  Http!Put(Http!Put(f, k, x), k, y) = Http!Put(f, k, y)
  OBVIOUS
<1> DEFINE g == Http!Put(f, k, x)
           a == Http!Put(g, k, y)
           e == Http!Put(f, k, y)
<1>1. /\ g = [z \in DOMAIN f \cup {k} |-> IF z = k THEN x ELSE f[z]]
      /\ a = [z \in DOMAIN g \cup {k} |-> IF z = k THEN y ELSE g[z]]
      /\ e = [z \in DOMAIN f \cup {k} |-> IF z = k THEN y ELSE f[z]]
  BY Zenon DEF Http!Put
<1> HIDE DEF g, a, e
<1>2. DOMAIN g = DOMAIN f \cup {k} /\ \A z \in DOMAIN f : z # k => g[z] = f[z]
  BY <1>1
<1>3. a = e
  BY <1>1, <1>2
<1> QED
  BY <1>3 DEF a, e, g

LEMMA MapToStored ==
    ASSUME NEW s, NEW k, NEW v, NEW n \in Nat, NEW x
    PROVE  Http!Put(Http!Put(MapTo(s, k, v, n), s[n + 1][k], x), s[n + 1][k], s[n + 1][v])
              = MapTo(s, k, v, n + 1)
BY PutTwice, MapToNext

\* Every value is that of a pair with this key.
LEMMA MapToFrom ==
    ASSUME NEW s, NEW k, NEW v, NEW n \in Nat, NEW x \in DOMAIN MapTo(s, k, v, n)
    PROVE  \E i \in 1 .. n : s[i][k] = x /\ MapTo(s, k, v, n)[x] = s[i][v]
<1> DEFINE Goal(m) == \A y \in DOMAIN MapTo(s, k, v, m) :
                         \E i \in 1 .. m : s[i][k] = y /\ MapTo(s, k, v, m)[y] = s[i][v]
           S == {m \in Nat : Goal(m)}
<1>1. 0 \in S
  <2>1. DOMAIN MapTo(s, k, v, 0) = {}
    BY DEF MapTo
  <2> QED
    BY <2>1
<1>2. ASSUME NEW m \in S PROVE m + 1 \in S
  <2> DEFINE g == MapTo(s, k, v, m)
             f == MapTo(s, k, v, m + 1)
             x0 == s[m + 1][k]
  <2>1. m \in Nat /\ \A y \in DOMAIN g : \E i \in 1 .. m : s[i][k] = y /\ g[y] = s[i][v]
    OBVIOUS
  <2>2. f = [y \in DOMAIN g \cup {x0} |-> IF y = x0 THEN s[m + 1][v] ELSE g[y]]
    <3>1. Http!Put(g, x0, s[m + 1][v]) = f
      BY MapToNext
    <3> HIDE DEF f, g, x0
    <3>2. Http!Put(g, x0, s[m + 1][v])
              = [y \in DOMAIN g \cup {x0} |-> IF y = x0 THEN s[m + 1][v] ELSE g[y]]
      BY Zenon DEF Http!Put
    <3> QED
      BY <3>1, <3>2, Zenon
  <2> HIDE DEF f, g
  <2>3. ASSUME NEW y \in DOMAIN f PROVE \E i \in 1 .. m + 1 : s[i][k] = y /\ f[y] = s[i][v]
    <3>1. CASE y = x0
      <4>1. m + 1 \in 1 .. m + 1 /\ f[y] = s[m + 1][v] /\ s[m + 1][k] = y
        BY <2>1, <2>2, <3>1
      <4> QED
        BY <4>1
    <3>2. CASE y # x0
      <4>1. y \in DOMAIN g /\ f[y] = g[y]
        BY <2>2, <3>2
      <4>2. PICK i \in 1 .. m : s[i][k] = y /\ g[y] = s[i][v]
        BY <2>1, <4>1
      <4>3. i \in 1 .. m + 1
        BY <2>1
      <4> QED
        BY <4>1, <4>2, <4>3
    <3> QED
      BY <3>1, <3>2
  <2>4. Goal(m + 1)
    BY <2>3 DEF f
  <2> QED
    BY <2>1, <2>4
<1>3. S = Nat
  <2>1. S \in SUBSET Nat
    OBVIOUS
  <2> HIDE DEF S
  <2> QED
    BY <1>1, <1>2, <2>1, Counting
<1> QED
  BY <1>3

LEMMA ReadWord ==
    ASSUME NEW all \in Seq(Symbols), NEW w \in Seq(Symbols), NEW s \in Nat, Has(all, s, w)
    PROVE  SubSeq(all, s + 1, s + Len(w)) = w
<1> DEFINE n == Len(w)
           m == Len(all)
           e == s + n
           z == SubSeq(all, s + 1, e)
<1>1. n \in Nat /\ m \in Nat /\ s + n <= m /\ \A k \in 1 .. n : all[s + k] = w[k]
  BY LenProperties DEF Has
<1>2. s + 1 \in Int /\ e \in Int /\ \A i \in s + 1 .. e : all[i] \in Symbols
  <2>1. \A i \in 1 .. m : all[i] \in Symbols
    BY ElementOfSeq
  <2> HIDE DEF n, m
  <2> QED
    BY <1>1, <2>1
<1>3. /\ z \in Seq(Symbols)
      /\ Len(z) = IF s + 1 <= e THEN (e - (s + 1)) + 1 ELSE 0
      /\ \A i \in 1 .. (e - (s + 1)) + 1 : z[i] = all[((s + 1) + i) - 1]
  BY <1>2, SubSeqProperties
<1> HIDE DEF n, m, z
<1>4. (e - (s + 1)) + 1 = n /\ (s + 1 <= e <=> n # 0) /\ \A i \in 1 .. n : ((s + 1) + i) - 1 = s + i
  BY <1>1
<1>5. Len(z) = n /\ \A i \in 1 .. n : z[i] = w[i]
  BY <1>1, <1>3, <1>4
<1> QED
  BY <1>3, <1>5, SeqEqual DEF n, z

\* A word that lies in all, read up to e.
LEMMA Scan ==
    ASSUME NEW all \in Seq(Symbols), NEW w, NEW stops, NEW s \in Nat, NEW e \in Nat,
           Text(w, stops), Has(all, s, w), s <= e, e <= s + Len(w)
    PROVE  /\ e # s + Len(w) => all[e + 1] \notin stops /\ e < Len(all) /\ e < s + Len(w)
           /\ e = s => all[e + 1] = w[1]
           /\ e = s + Len(w) => SubSeq(all, s + 1, e) = w
<1>1. Len(w) \in Nat /\ Len(w) # 0 /\ w \in Seq(Symbols) /\ Len(all) \in Nat
      /\ \A k \in 1 .. Len(w) : w[k] \notin stops
  BY LenProperties DEF Text
<1>2. s + Len(w) <= Len(all) /\ \A k \in 1 .. Len(w) : all[s + k] = w[k]
  BY DEF Has
<1> DEFINE n == Len(w)
           m == Len(all)
<1>3. n \in Nat /\ n # 0 /\ m \in Nat /\ s + n <= m /\ e <= s + n
      /\ \A k \in 1 .. n : all[s + k] = w[k] /\ w[k] \notin stops
  BY <1>1, <1>2
<1>4. ASSUME e = s + n PROVE SubSeq(all, s + 1, e) = w
  BY <1>1, <1>4, ReadWord
<1> HIDE DEF n, m
<1>5. ASSUME e # s + n PROVE all[e + 1] \notin stops /\ e < m /\ e < s + n
  <2> DEFINE k == (e - s) + 1
  <2>1. k \in 1 .. n /\ s + k = e + 1 /\ e < m /\ e < s + n
    BY <1>3, <1>5
  <2> HIDE DEF k
  <2> QED
    BY <1>3, <2>1
<1>6. ASSUME e = s PROVE all[e + 1] = w[1]
  BY <1>3, <1>6
<1> QED
  BY <1>4, <1>5, <1>6 DEF n, m

LEMMA ReadOne ==
    ASSUME NEW all \in Seq(Symbols), NEW s \in Nat, s < Len(all)
    PROVE  SubSeq(all, s + 1, s + 1) = <<all[s + 1]>>
<1>1. Len(all) \in Nat
  BY LenProperties
<1>2. s + 1 \in 1 .. Len(all) + 1 /\ s + 1 \in (s + 1) - 1 .. Len(all)
  BY <1>1
<1>3. /\ SubSeq(all, s + 1, s + 1) \in Seq(Symbols)
      /\ Len(SubSeq(all, s + 1, s + 1)) = ((s + 1) - (s + 1)) + 1
      /\ \A i \in 1 .. ((s + 1) - (s + 1)) + 1 :
            SubSeq(all, s + 1, s + 1)[i] = all[((s + 1) + i) - 1]
  BY <1>2, SubSeqProperties
<1>4. ((s + 1) - (s + 1)) + 1 = 1 /\ ((s + 1) + 1) - 1 = s + 1
  OBVIOUS
<1> DEFINE z == SubSeq(all, s + 1, s + 1)
<1>5. z \in Seq(Symbols) /\ Len(z) = 1 /\ \A i \in 1 .. 1 : z[i] = all[((s + 1) + i) - 1]
  BY <1>3, <1>4
<1> HIDE DEF z
<1>6. z[1] = all[s + 1]
  BY <1>4, <1>5
<1>7. z = <<z[1]>>
  BY <1>5
<1> QED
  BY <1>6, <1>7 DEF z

\* One field of a request is stored.
LEMMA FieldStored ==
    ASSUME NEW m, NEW u, NEW p, NEW pr, NEW vn, NEW hs, NEW bd, NEW x, NEW r,
           r = [method |-> m, url |-> u, params |-> p, protocol |-> pr,
                version |-> vn, headers |-> hs, body |-> bd]
    PROVE  /\ [r EXCEPT !["method"] = x]
                  = [method |-> x, url |-> u, params |-> p, protocol |-> pr,
                     version |-> vn, headers |-> hs, body |-> bd]
           /\ [r EXCEPT !["url"] = x]
                  = [method |-> m, url |-> x, params |-> p, protocol |-> pr,
                     version |-> vn, headers |-> hs, body |-> bd]
           /\ [r EXCEPT !["params"] = x]
                  = [method |-> m, url |-> u, params |-> x, protocol |-> pr,
                     version |-> vn, headers |-> hs, body |-> bd]
           /\ [r EXCEPT !["protocol"] = x]
                  = [method |-> m, url |-> u, params |-> p, protocol |-> x,
                     version |-> vn, headers |-> hs, body |-> bd]
           /\ [r EXCEPT !["version"] = x]
                  = [method |-> m, url |-> u, params |-> p, protocol |-> pr,
                     version |-> x, headers |-> hs, body |-> bd]
           /\ [r EXCEPT !["headers"] = x]
                  = [method |-> m, url |-> u, params |-> p, protocol |-> pr,
                     version |-> vn, headers |-> x, body |-> bd]
           /\ [r EXCEPT !["body"] = x]
                  = [method |-> m, url |-> u, params |-> p, protocol |-> pr,
                     version |-> vn, headers |-> hs, body |-> x]
<1>1. [r EXCEPT !["method"] = x]
        = [method |-> x, url |-> u, params |-> p, protocol |-> pr,
           version |-> vn, headers |-> hs, body |-> bd]
  OBVIOUS
<1>2. [r EXCEPT !["url"] = x]
        = [method |-> m, url |-> x, params |-> p, protocol |-> pr,
           version |-> vn, headers |-> hs, body |-> bd]
  OBVIOUS
<1>3. [r EXCEPT !["params"] = x]
        = [method |-> m, url |-> u, params |-> x, protocol |-> pr,
           version |-> vn, headers |-> hs, body |-> bd]
  OBVIOUS
<1>4. [r EXCEPT !["protocol"] = x]
        = [method |-> m, url |-> u, params |-> p, protocol |-> x,
           version |-> vn, headers |-> hs, body |-> bd]
  OBVIOUS
<1>5. [r EXCEPT !["version"] = x]
        = [method |-> m, url |-> u, params |-> p, protocol |-> pr,
           version |-> x, headers |-> hs, body |-> bd]
  OBVIOUS
<1>6. [r EXCEPT !["headers"] = x]
        = [method |-> m, url |-> u, params |-> p, protocol |-> pr,
           version |-> vn, headers |-> x, body |-> bd]
  OBVIOUS
<1>7. [r EXCEPT !["body"] = x]
        = [method |-> m, url |-> u, params |-> p, protocol |-> pr,
           version |-> vn, headers |-> hs, body |-> x]
  OBVIOUS
<1> QED
  BY <1>1, <1>2, <1>3, <1>4, <1>5, <1>6, <1>7

\* ParaseRequest has stored what the request's first parts say.
Stored(u, p, protocol, version, headers) ==
    [method |-> Http!SetMethod(sent.method), url |-> u, params |-> p, protocol |-> protocol,
     version |-> version, headers |-> headers, body |-> << >>]

Early(u, p) == Stored(u, p, << >>, "INVAILD_VERSION", << >>)
ParamsTo(n) == MapTo(sent.params, 1, 2, n)
AllParams == ParamsTo(Len(sent.params))
HeadersTo(n) == MapTo(sent.headers, 1, 3, n)
Late(headers) ==
    Stored(sent.url, AllParams, <<"HTTP">>, Http!SetVersion(sent.version), headers)

At(st, s, e) == state = st /\ start = s /\ end = e

\* Some symbols of w, which begins after s symbols, have been read.
Reading(st, s, w) == state = st /\ start = s /\ end \in s + 1 .. s + Len(w)

\* Where the parser is in each of its states.
LineStage(q) ==
    /\ vers = << >>
    /\ \/ At("START", 0, 0) /\ http_request = Http!NoRequest
       \/ At("METHOD", 0, 1) /\ http_request = Http!NoRequest
       \/ At("BEFORE_URI", 1, 2) /\ http_request = Early(<< >>, << >>)
       \/ Reading("IN_URI", 2, sent.url) /\ http_request = Early(<< >>, << >>)

ParamStage(q, i) ==
    /\ vers = << >>
    /\ \/ At("BEFORE_URI_PARAMS_KEY", q[i], q[i] + 1) /\ http_request = Early(sent.url, ParamsTo(i - 1))
       \/ /\ Reading("IN_URI_PARAMS_KEY", q[i] + 1, sent.params[i][1])
          /\ http_request = Early(sent.url, ParamsTo(i - 1))
       \/ /\ \/ At("BEFORE_URI_PARAMS_VALUE", q[i] + 1, q[i] + Len(sent.params[i][1]) + 2)
             \/ Reading("IN_URI_PARAMS_VALUE", q[i] + Len(sent.params[i][1]) + 2, sent.params[i][2])
          /\ key = sent.params[i][1]
          /\ http_request = Early(sent.url, Http!Put(ParamsTo(i - 1), sent.params[i][1], << >>))

VersionStage(V) ==
    \/ /\ At("BEFORE_PROTOCOL", V, V + 1) \/ At("IN_PROTOCOL", V + 1, V + 2)
       /\ vers = << >>
       /\ http_request = Early(sent.url, AllParams)
    \/ /\ \/ At("BEFORE_VERSION", V + 2, V + 3) /\ vers = << >>
          \/ At("IN_VERSION", V + 3, V + 4) /\ vers = << >>
          \/ At("VERSION_SPLIT", V + 4, V + 5) /\ vers = <<sent.version[1]>>
          \/ At("IN_VERSION", V + 5, V + 6) /\ vers = <<sent.version[1], ".">>
       /\ http_request = Stored(sent.url, AllParams, <<"HTTP">>, "INVAILD_VERSION", << >>)

LineEnds(h, i) ==
    /\ \/ state = "CR" /\ end = h[i] - 1
       \/ At("CRLF", h[i] - 1, h[i])
    /\ http_request = Late(HeadersTo(i - 1))

\* With n symbols before the separator.
SeparatorStage(n, separator) ==
    \E c \in 1 .. Len(separator) :
        /\ Colon(separator, c)
        /\ \/ state = "HEADER_BEFORE_COLON" /\ end \in n + 1 .. n + c - 1
           \/ state = "HEADER_AFTER_COLON" /\ end \in n + c .. n + Len(separator)

HeaderStage(h, i) ==
    \/ Reading("HEADER_KEY", h[i], sent.headers[i][1]) /\ http_request = Late(HeadersTo(i - 1))
    \/ /\ \/ SeparatorStage(h[i] + Len(sent.headers[i][1]), sent.headers[i][2])
          \/ Reading("HEADER_VALUE", h[i] + Len(sent.headers[i][1]) + Len(sent.headers[i][2]),
                     sent.headers[i][3])
       /\ key = sent.headers[i][1]
       /\ http_request = Late(Http!Put(HeadersTo(i - 1), sent.headers[i][1], << >>))

EndStage(E) ==
    /\ \/ state = "CRLFCR" /\ end = E + 1
       \/ At("BODY", E + 2, E + 2)
    /\ http_request = Late(HeadersTo(Len(sent.headers)))

Stage(q, h) ==
    \/ LineStage(q)
    \/ \E i \in 1 .. Len(sent.params) : ParamStage(q, i)
    \/ VersionStage(q[Len(sent.params) + 1])
    \/ \E i \in 1 .. Len(sent.headers) + 1 : LineEnds(h, i)
    \/ \E i \in 1 .. Len(sent.headers) : HeaderStage(h, i)
    \/ EndStage(h[Len(sent.headers) + 1])

Parsed ==
    /\ state = "COMPLETE"
    /\ http_request = [Late(HeadersTo(Len(sent.headers))) EXCEPT !["body"] = sent.body]

\* One iteration for a character, in the place of the five variables it leaves alone.
Reads(ch) ==
    \/ Http!RequestLine(ch) \/ Http!Params(ch) \/ Http!Protocol(ch)
    \/ Http!Headers(ch) \/ Http!EndOfHead(ch) \/ Http!Body(ch)

LEMMA IterateReads ==
    ASSUME Http!Iterate, end \in Nat, end < Len(bytes)
    PROVE  Reads(bytes[end + 1]) /\ UNCHANGED <<bytes, parser, sent, asked>>
BY DEF Http!Iterate, Http!CharsAt, Reads

LEMMA Which ==
    ASSUME NEW ch, Reads(ch)
    PROVE  /\ state \in {"START", "METHOD", "BEFORE_URI", "IN_URI"} => Http!RequestLine(ch)
           /\ state \in {"BEFORE_URI_PARAMS_KEY", "IN_URI_PARAMS_KEY", "BEFORE_URI_PARAMS_VALUE",
                         "IN_URI_PARAMS_VALUE"} => Http!Params(ch)
           /\ state \in {"BEFORE_PROTOCOL", "IN_PROTOCOL", "BEFORE_VERSION", "IN_VERSION",
                         "VERSION_SPLIT"} => Http!Protocol(ch)
           /\ state \in {"CR", "CRLF", "HEADER_KEY", "HEADER_BEFORE_COLON", "HEADER_AFTER_COLON",
                         "HEADER_VALUE"} => Http!Headers(ch)
           /\ state = "CRLFCR" => Http!EndOfHead(ch)
           /\ state = "BODY" => Http!Body(ch)
<1>1. Http!RequestLine(ch) => state \in {"START", "METHOD", "BEFORE_URI", "IN_URI"}
  BY DEF Http!RequestLine
<1>2. Http!Params(ch) => state \in {"BEFORE_URI_PARAMS_KEY", "IN_URI_PARAMS_KEY",
                                    "BEFORE_URI_PARAMS_VALUE", "IN_URI_PARAMS_VALUE"}
  BY DEF Http!Params, Http!ValueStarts
<1>3. Http!Protocol(ch) => state \in {"BEFORE_PROTOCOL", "IN_PROTOCOL", "BEFORE_VERSION",
                                      "IN_VERSION", "VERSION_SPLIT"}
  BY DEF Http!Protocol
<1>4. Http!Headers(ch) => state \in {"CR", "CRLF", "HEADER_KEY", "HEADER_BEFORE_COLON",
                                     "HEADER_AFTER_COLON", "HEADER_VALUE"}
  BY DEF Http!Headers
<1>5. Http!EndOfHead(ch) => state = "CRLFCR"
  BY DEF Http!EndOfHead
<1>6. Http!Body(ch) => state = "BODY"
  BY DEF Http!Body
<1> QED
  BY <1>1, <1>2, <1>3, <1>4, <1>5, <1>6 DEF Reads

Given(q, h) == Proper(sent) /\ Layout(sent, q, h, bytes)

Within == Len(bytes) \in Nat /\ start \in 0 .. Len(bytes) /\ end \in 0 .. Len(bytes)

LEMMA Places ==
    ASSUME NEW q, NEW h, Given(q, h)
    PROVE  /\ Len(sent.params) \in Nat /\ Len(sent.headers) \in Nat
           /\ bytes \in Seq(Symbols) /\ Len(bytes) \in Nat
           /\ \A i \in 1 .. Len(sent.params) + 1 : q[i] \in Nat /\ q[i] < Len(bytes)
           /\ \A i \in 1 .. Len(sent.headers) + 1 :
                 h[i] \in Nat /\ h[i] - 1 \in Nat /\ h[i] < Len(bytes)
           /\ h[1] = q[Len(sent.params) + 1] + 8
           /\ h[Len(sent.headers) + 1] + 2 <= Len(bytes)
<1> DEFINE P == sent.params
           H == sent.headers
           n == Len(P)
           m == Len(H)
           size == Len(bytes)
<1>1. /\ n \in Nat /\ m \in Nat
      /\ \A i \in 1 .. n : Len(P[i][1]) \in Nat
      /\ \A i \in 1 .. m : Len(H[i][1]) \in Nat /\ Len(H[i][1]) # 0 /\ Len(H[i][2]) \in Nat
                           /\ Len(H[i][3]) \in Nat
  BY DEF Given, Proper, ProperParams, ProperHeaders, Text
<1>2. bytes \in Seq(Symbols) /\ size \in Nat
  BY LenProperties DEF Given, Layout
<1>3. q \in [1 .. n + 1 -> Nat] /\ h \in [1 .. m + 1 -> Nat]
  BY DEF Given, Layout
<1>4. \A i \in 1 .. n : q[i] + 1 + Len(P[i][1]) <= size
  BY DEF Given, Layout, ParamsLaid, Has
<1>5. \A i \in 1 .. m :
          /\ h[i] + Len(H[i][1]) <= size
          /\ h[i + 1] = h[i] + Len(H[i][1]) + Len(H[i][2]) + Len(H[i][3]) + 2
  BY DEF Given, Layout, HeadersLaid, Has
<1>6. h[m + 1] + 2 <= size
  <2>1. size = h[m + 1] + 2 + Len(sent.body) /\ Len(sent.body) \in Nat
    BY DEF Given, Layout, BodyLaid, Proper
  <2>2. h[m + 1] \in Nat
    BY <1>1, <1>3, SMTT(30)
  <2> HIDE DEF size, m
  <2> QED
    BY <2>1, <2>2
<1>7. h[1] = q[n + 1] + 8
  BY DEF Given, Layout, VersionLaid
<1> HIDE DEF P, H, n, m, size
<1>8. ASSUME NEW i \in 1 .. m + 1 PROVE h[i] \in Nat /\ h[i] < size
  <2>1. h[i] \in Nat
    BY <1>3
  <2>2. CASE i = m + 1
    BY <1>2, <1>6, <2>1, <2>2
  <2>3. CASE i # m + 1
    <3>1. i \in 1 .. m
      BY <1>1, <2>3
    <3> DEFINE k == Len(H[i][1])
    <3>2. k \in Nat /\ k # 0 /\ h[i] + k <= size
      BY <1>1, <1>5, <3>1
    <3> HIDE DEF k
    <3> QED
      BY <1>2, <2>1, <3>2
  <2> QED
    BY <2>2, <2>3
<1>9. q[n + 1] \in Nat /\ h[1] \in Nat /\ h[1] < size
  <2>1. 1 \in 1 .. m + 1 /\ n + 1 \in 1 .. n + 1
    BY <1>1
  <2> QED
    BY <1>3, <1>8, <2>1
<1>10. ASSUME NEW i \in 1 .. n + 1 PROVE q[i] \in Nat /\ q[i] < size
  <2>1. q[i] \in Nat
    BY <1>3
  <2>2. CASE i = n + 1
    BY <1>2, <1>7, <1>9, <2>2
  <2>3. CASE i # n + 1
    <3>1. i \in 1 .. n
      BY <1>1, <2>3
    <3> DEFINE k == Len(P[i][1])
    <3>2. k \in Nat /\ q[i] + 1 + k <= size
      BY <1>1, <1>4, <3>1
    <3> HIDE DEF k
    <3> QED
      BY <1>2, <2>1, <3>2
  <2> QED
    BY <2>2, <2>3
<1>11. ASSUME NEW i \in 1 .. m + 1 PROVE h[i] - 1 \in Nat
  <2>1. CASE i = 1
    BY <1>7, <1>9, <2>1
  <2>2. CASE i # 1
    <3> DEFINE j == i - 1
    <3>1. j \in 1 .. m /\ j \in 1 .. m + 1 /\ j + 1 = i
      BY <1>1, <2>2
    <3> HIDE DEF j
    <3>2. h[i] = h[j] + Len(H[j][1]) + Len(H[j][2]) + Len(H[j][3]) + 2
      BY <1>5, <3>1
    <3> DEFINE a == Len(H[j][1])
               e == Len(H[j][2])
               c == Len(H[j][3])
    <3>3. h[j] \in Nat /\ a \in Nat /\ e \in Nat /\ c \in Nat /\ h[i] = h[j] + a + e + c + 2
      BY <1>1, <1>8, <3>1, <3>2
    <3> HIDE DEF a, e, c
    <3> QED
      BY <3>3
  <2> QED
    BY <2>1, <2>2
<1> QED
  BY <1>1, <1>2, <1>6, <1>7, <1>8, <1>10, <1>11 DEF n, m, size, P, H

\* Except at the end of the head and in the body, an iteration moves by one character.
LEMMA Moves ==
    ASSUME NEW ch, Reads(ch), state # "CRLFCR", state # "BODY"
    PROVE  end' = end + 1 /\ start' \in {start, end}
<1>1. Http!RequestLine(ch) => end' = end + 1 /\ start' \in {start, end}
  BY DEF Http!RequestLine, Http!To
<1>2. Http!Params(ch) => end' = end + 1 /\ start' \in {start, end}
  BY DEF Http!Params, Http!ValueStarts, Http!To
<1>3. Http!Protocol(ch) => end' = end + 1 /\ start' \in {start, end}
  BY DEF Http!Protocol, Http!To
<1>4. Http!Headers(ch) => end' = end + 1 /\ start' \in {start, end}
  BY DEF Http!Headers, Http!To
<1> QED
  BY <1>1, <1>2, <1>3, <1>4 DEF Reads, Http!EndOfHead, Http!Body

LEMMA SentKept ==
    ASSUME sent' = sent
    PROVE  /\ \A u, p : Early(u, p)' = Early(u, p)
           /\ \A u, p, pr, vn, hs : Stored(u, p, pr, vn, hs)' = Stored(u, p, pr, vn, hs)
           /\ \A n : ParamsTo(n)' = ParamsTo(n) /\ HeadersTo(n)' = HeadersTo(n)
           /\ AllParams' = AllParams
           /\ \A hs : Late(hs)' = Late(hs)
BY DEF Early, Stored, ParamsTo, HeadersTo, AllParams, Late

LEMMA StoredParts ==
    \A u, p, pr, vn, hs, x :
        /\ [Stored(u, p, pr, vn, hs) EXCEPT !["url"] = x] = Stored(x, p, pr, vn, hs)
        /\ [Stored(u, p, pr, vn, hs) EXCEPT !["params"] = x] = Stored(u, x, pr, vn, hs)
        /\ [Stored(u, p, pr, vn, hs) EXCEPT !["protocol"] = x] = Stored(u, p, x, vn, hs)
        /\ [Stored(u, p, pr, vn, hs) EXCEPT !["version"] = x] = Stored(u, p, pr, x, hs)
        /\ [Stored(u, p, pr, vn, hs) EXCEPT !["headers"] = x] = Stored(u, p, pr, vn, x)
        /\ Stored(u, p, pr, vn, hs)["params"] = p /\ Stored(u, p, pr, vn, hs)["headers"] = hs
<1> SUFFICES ASSUME NEW u, NEW p, NEW pr, NEW vn, NEW hs, NEW x
             PROVE  /\ [Stored(u, p, pr, vn, hs) EXCEPT !["url"] = x] = Stored(x, p, pr, vn, hs)
                    /\ [Stored(u, p, pr, vn, hs) EXCEPT !["params"] = x] = Stored(u, x, pr, vn, hs)
                    /\ [Stored(u, p, pr, vn, hs) EXCEPT !["protocol"] = x] = Stored(u, p, x, vn, hs)
                    /\ [Stored(u, p, pr, vn, hs) EXCEPT !["version"] = x] = Stored(u, p, pr, x, hs)
                    /\ [Stored(u, p, pr, vn, hs) EXCEPT !["headers"] = x] = Stored(u, p, pr, vn, x)
                    /\ Stored(u, p, pr, vn, hs)["params"] = p /\ Stored(u, p, pr, vn, hs)["headers"] = hs
  BY Zenon
<1> DEFINE m == Http!SetMethod(sent.method)
           r == Stored(u, p, pr, vn, hs)
<1>1. r = [method |-> m, url |-> u, params |-> p, protocol |-> pr, version |-> vn,
           headers |-> hs, body |-> << >>]
  BY DEF Stored
<1>2. \A a, e, c, d, f : Stored(a, e, c, d, f) =
          [method |-> m, url |-> a, params |-> e, protocol |-> c, version |-> d,
           headers |-> f, body |-> << >>]
  BY DEF Stored
<1> HIDE DEF m, r
<1>3. [r EXCEPT !["url"] = x] = Stored(x, p, pr, vn, hs)
  <2>1. [r EXCEPT !["url"] = x] = [method |-> m, url |-> x, params |-> p, protocol |-> pr, version |-> vn, headers |-> hs,
            body |-> << >>]
    BY <1>1, FieldStored, SMTT(30)
  <2> QED
    BY <1>2, <2>1, Zenon
<1>4. [r EXCEPT !["params"] = x] = Stored(u, x, pr, vn, hs)
  <2>1. [r EXCEPT !["params"] = x] = [method |-> m, url |-> u, params |-> x, protocol |-> pr, version |-> vn, headers |-> hs,
            body |-> << >>]
    BY <1>1, FieldStored, SMTT(30)
  <2> QED
    BY <1>2, <2>1, Zenon
<1>5. [r EXCEPT !["protocol"] = x] = Stored(u, p, x, vn, hs)
  <2>1. [r EXCEPT !["protocol"] = x] = [method |-> m, url |-> u, params |-> p, protocol |-> x, version |-> vn, headers |-> hs,
            body |-> << >>]
    BY <1>1, FieldStored, SMTT(30)
  <2> QED
    BY <1>2, <2>1, Zenon
<1>6. [r EXCEPT !["version"] = x] = Stored(u, p, pr, x, hs)
  <2>1. [r EXCEPT !["version"] = x] = [method |-> m, url |-> u, params |-> p, protocol |-> pr, version |-> x, headers |-> hs,
            body |-> << >>]
    BY <1>1, FieldStored, SMTT(30)
  <2> QED
    BY <1>2, <2>1, Zenon
<1>7. [r EXCEPT !["headers"] = x] = Stored(u, p, pr, vn, x)
  <2>1. [r EXCEPT !["headers"] = x] = [method |-> m, url |-> u, params |-> p, protocol |-> pr, version |-> vn, headers |-> x,
            body |-> << >>]
    BY <1>1, FieldStored, SMTT(30)
  <2> QED
    BY <1>2, <2>1, Zenon
<1>8. r["params"] = p /\ r["headers"] = hs
  BY <1>1
<1> QED
  BY <1>3, <1>4, <1>5, <1>6, <1>7, <1>8 DEF r

\* What the parser knows of a character before it reads it.
LEMMA LineReads ==
    ASSUME NEW q, NEW h, Given(q, h), LineStage(q)
    PROVE  /\ end \in Nat /\ end < Len(bytes)
           /\ (Reads(bytes[end + 1]) /\ sent' = sent) => Stage(q, h)'
<1> DEFINE ch == bytes[end + 1]
           size == Len(bytes)
           n == Len(sent.params)
<1>1. /\ Text(sent.url, {"SP", "?"}) /\ sent.url[1] = "/"
      /\ \E m \in Http!Upper : sent.method = <<m>>
      /\ bytes[1] = sent.method[1] /\ bytes[2] = "SP" /\ Has(bytes, 2, sent.url)
      /\ q[1] = 2 + Len(sent.url)
  BY DEF Given, Proper, Layout, UrlLaid
<1>2. /\ bytes \in Seq(Symbols) /\ size \in Nat /\ n \in Nat
      /\ q[1] \in Nat /\ q[1] < size
  <2>1. 1 \in 1 .. n + 1
    BY Places
  <2> QED
    BY <2>1, Places
<1>3. Len(sent.url) \in Nat /\ Len(sent.url) # 0
  BY <1>1 DEF Text
<1>4. vers = << >>
  BY DEF LineStage
<1>5. CASE At("START", 0, 0) /\ http_request = Http!NoRequest
  <2>1. end = 0 /\ start = 0 /\ state = "START" /\ ch = bytes[1]
    BY <1>5 DEF At
  <2>2. end \in Nat /\ end < size
    BY <1>2, <1>3, <2>1, <1>1
  <2>3. ch \in Http!Upper
    BY <1>1, <2>1
  <2>4. ASSUME Reads(ch), sent' = sent PROVE LineStage(q)'
    <3>1. Http!RequestLine(ch)
      BY <2>1, <2>4, Which
    <3>2. state' = "METHOD" /\ start' = 0 /\ end' = 1 /\ vers' = vers /\ http_request' = http_request
      <4> HIDE DEF ch
      <4> QED
        BY <2>1, <2>3, <3>1 DEF Http!RequestLine, Http!To, Http!Keeps
    <3> QED
      BY <1>4, <1>5, <3>2 DEF LineStage, At, Http!NoRequest
  <2> QED
    BY <2>2, <2>4 DEF Stage
<1>6. CASE At("METHOD", 0, 1) /\ http_request = Http!NoRequest
  <2>1. end = 1 /\ start = 0 /\ state = "METHOD" /\ ch = bytes[2] /\ ch = "SP"
    BY <1>1, <1>6 DEF At
  <2>2. end \in Nat /\ end < size
    BY <1>1, <1>2, <1>3, <2>1
  <2>3. Http!Text = sent.method
    <3>1. 0 < Len(bytes) /\ 0 + 1 = 1
      BY <1>1, <1>2, <1>3
    <3>2. SubSeq(bytes, 0 + 1, 0 + 1) = <<bytes[0 + 1]>>
      BY <1>2, <3>1, ReadOne
    <3>3. Http!Text = SubSeq(bytes, 0 + 1, 1)
      BY <2>1 DEF Http!Text
    <3>4. <<sent.method[1]>> = sent.method
      BY <1>1
    <3> QED
      BY <1>1, <3>1, <3>2, <3>3, <3>4
  <2>4. ASSUME Reads(ch), sent' = sent PROVE LineStage(q)'
    <3>1. Http!RequestLine(ch)
      BY <2>1, <2>4, Which
    <3>2. /\ state' = "BEFORE_URI" /\ start' = 1 /\ end' = 2 /\ vers' = vers
          /\ http_request' = [http_request EXCEPT !["method"] = Http!SetMethod(Http!Text)]
      <4> HIDE DEF ch
      <4> QED
        BY <2>1, <3>1 DEF Http!RequestLine, Http!To, Http!Keeps, Http!Stores, Http!Blank
    <3>3. http_request' = Early(<< >>, << >>)
      <4> DEFINE x == Http!SetMethod(sent.method)
      <4>1. http_request' = [http_request EXCEPT !["method"] = x]
        BY <2>3, <3>2
      <4> HIDE DEF x
      <4>2. http_request' = [method |-> x, url |-> << >>, params |-> << >>, protocol |-> << >>,
              version |-> "INVAILD_VERSION", headers |-> << >>, body |-> << >>]
        BY <1>6, <4>1, FieldStored, Zenon DEF Http!NoRequest
      <4> QED
        BY <4>2 DEF Early, Stored, x
    <3>4. http_request' = Early(<< >>, << >>)'
      BY <2>4, <3>3, SentKept
    <3> QED
      BY <1>4, <3>2, <3>4 DEF LineStage, At
  <2> QED
    BY <2>2, <2>4 DEF Stage
<1>7. CASE At("BEFORE_URI", 1, 2) /\ http_request = Early(<< >>, << >>)
  <2>1. end = 2 /\ start = 1 /\ state = "BEFORE_URI"
    BY <1>7 DEF At
  <2>2. end \in Nat /\ end < size
    BY <1>1, <1>2, <1>3, <2>1
  <2>3. ch = "/"
    <3>1. 2 <= 2 + Len(sent.url) /\ 2 \in Nat /\ 2 <= 2
      BY <1>3
    <3>2. bytes[2 + 1] = sent.url[1]
      BY <1>1, <1>2, <3>1, Scan, SMTT(30)
    <3> QED
      BY <1>1, <2>1, <3>2
  <2>4. ASSUME Reads(ch), sent' = sent PROVE LineStage(q)'
    <3>1. Http!RequestLine(ch)
      BY <2>1, <2>4, Which
    <3>2. state' = "IN_URI" /\ start' = 2 /\ end' = 3 /\ vers' = vers /\ http_request' = http_request
      <4> HIDE DEF ch
      <4> QED
        BY <2>1, <2>3, <3>1 DEF Http!RequestLine, Http!To, Http!Keeps
    <3>3. end' \in 2 + 1 .. 2 + Len(sent'.url)
      BY <1>3, <2>4, <3>2
    <3>4. http_request' = Early(<< >>, << >>)'
      BY <1>7, <2>4, <3>2, SentKept
    <3> QED
      BY <1>4, <3>2, <3>3, <3>4 DEF LineStage, Reading
  <2> QED
    BY <2>2, <2>4 DEF Stage
<1>8. CASE Reading("IN_URI", 2, sent.url) /\ http_request = Early(<< >>, << >>)
  <2>1. start = 2 /\ state = "IN_URI" /\ end \in 2 + 1 .. 2 + Len(sent.url)
    BY <1>8 DEF Reading
  <2>2. end \in Nat /\ end < size /\ end <= q[1] /\ 2 <= end /\ end <= 2 + Len(sent.url)
    BY <1>1, <1>2, <1>3, <2>1
  <2>3. /\ end # 2 + Len(sent.url) => ch \notin {"SP", "?"} /\ end < 2 + Len(sent.url)
        /\ end = 2 + Len(sent.url) => SubSeq(bytes, 2 + 1, end) = sent.url
    BY <1>1, <1>2, <2>2, Scan, SMTT(30)
  <2>4. SUFFICES ASSUME Reads(ch), sent' = sent PROVE Stage(q, h)'
    BY <2>2
  <2>5. Http!RequestLine(ch)
    BY <2>1, <2>4, Which
  <2>6. CASE end # 2 + Len(sent.url)
    <3>1. ch \notin {"SP", "?"} /\ end < 2 + Len(sent.url)
      BY <2>3, <2>6
    <3>2. state' = "IN_URI" /\ start' = 2 /\ end' = end + 1 /\ vers' = vers
          /\ http_request' = http_request
      <4> HIDE DEF ch
      <4> QED
        BY <2>1, <2>5, <3>1 DEF Http!RequestLine, Http!To, Http!Keeps, Http!Blank
    <3>3. end' \in 2 + 1 .. 2 + Len(sent'.url)
      BY <1>3, <2>1, <2>4, <3>1, <3>2
    <3>4. http_request' = Early(<< >>, << >>)'
      BY <1>8, <2>4, <3>2, SentKept
    <3>5. LineStage(q)'
      BY <1>4, <3>2, <3>3, <3>4 DEF LineStage, Reading
    <3> QED
      BY <3>5 DEF Stage
  <2>7. CASE end = 2 + Len(sent.url)
    <3>1. end = q[1] /\ ch = bytes[q[1] + 1] /\ Http!Text = sent.url
      BY <1>1, <2>1, <2>3, <2>7 DEF Http!Text
    <3>2. ch = IF n = 0 THEN "SP" ELSE "?"
      <4>1. CASE n = 0
        <5>1. bytes[q[n + 1] + 1] = "SP"
          BY DEF Given, Layout, VersionLaid
        <5> QED
          BY <3>1, <4>1, <5>1
      <4>2. CASE n # 0
        <5>1. 1 \in 1 .. n
          BY <1>2, <4>2
        <5>2. bytes[q[1] + 1] = "?"
          BY <5>1 DEF Given, Layout, ParamsLaid
        <5> QED
          BY <3>1, <4>2, <5>2
      <4> QED
        BY <4>1, <4>2
    <3>3. /\ state' = IF n = 0 THEN "BEFORE_PROTOCOL" ELSE "BEFORE_URI_PARAMS_KEY"
          /\ start' = end /\ end' = end + 1 /\ vers' = vers
          /\ http_request' = [http_request EXCEPT !["url"] = Http!Text]
      <4> HIDE DEF ch, n
      <4> QED
        BY <2>1, <2>5, <3>2 DEF Http!RequestLine, Http!To, Http!Stores, Http!Blank
    <3>4. http_request' = Early(sent.url, ParamsTo(0))
      <4>1. http_request' = [Stored(<< >>, << >>, << >>, "INVAILD_VERSION", << >>)
                                EXCEPT !["url"] = sent.url]
        BY <1>8, <3>1, <3>3 DEF Early
      <4>2. http_request' = Stored(sent.url, << >>, << >>, "INVAILD_VERSION", << >>)
        BY <4>1, StoredParts
      <4>3. ParamsTo(0) = << >>
        BY MapToNone DEF ParamsTo
      <4> QED
        BY <4>2, <4>3 DEF Early
    <3>5. CASE n = 0
      <4>1. VersionStage(q[n + 1])'
        <5>1. http_request' = Early(sent'.url, AllParams')
          <6>1. http_request' = Early(sent.url, AllParams)
            BY <3>4, <3>5 DEF AllParams
          <6> QED
            BY <2>4, <6>1, SentKept
        <5>2. http_request' = Early(sent.url, AllParams)'
          BY <2>4, <5>1, SentKept
        <5>3. At("BEFORE_PROTOCOL", q[n + 1], q[n + 1] + 1)'
          <6>1. q[n + 1] = q[1] /\ (q[n + 1])' = q[n + 1]
            BY <2>4, <3>5
          <6> QED
            BY <2>4, <3>1, <3>3, <3>5, <6>1 DEF At
        <5> QED
          BY <1>4, <3>3, <5>2, <5>3 DEF VersionStage
      <4> QED
        BY <4>1 DEF Stage
    <3>6. CASE n # 0
      <4>1. 1 \in 1 .. n
        BY <1>2, <3>6
      <4>2. http_request' = Early(sent.url, ParamsTo(1 - 1))'
        <5>1. http_request' = Early(sent.url, ParamsTo(0))'
          BY <2>4, <3>4 DEF Early, Stored, ParamsTo
        <5> QED
          BY <5>1
      <4>3. ParamStage(q, 1)'
        BY <1>4, <3>1, <3>3, <3>6, <4>2 DEF ParamStage, At
      <4> QED
        BY <2>4, <4>1, <4>3 DEF Stage
    <3> QED
      BY <3>5, <3>6
  <2> QED
    BY <2>6, <2>7
<1> QED
  BY <1>5, <1>6, <1>7, <1>8 DEF LineStage

LEMMA ParamReads ==
    ASSUME NEW q, NEW h, Given(q, h), NEW i \in 1 .. Len(sent.params), ParamStage(q, i)
    PROVE  /\ end \in Nat /\ end < Len(bytes)
           /\ (Reads(bytes[end + 1]) /\ sent' = sent) => Stage(q, h)'
<1> DEFINE ch == bytes[end + 1]
           size == Len(bytes)
           n == Len(sent.params)
           K == sent.params[i][1]
           W == sent.params[i][2]
           k == Len(K)
           l == Len(W)
           at == q[i]
           next == q[i + 1]
           before == ParamsTo(i - 1)
           half == Http!Put(before, K, << >>)
<1>1. n \in Nat /\ i \in 1 .. n + 1 /\ i + 1 \in 1 .. n + 1 /\ bytes \in Seq(Symbols) /\ size \in Nat
  <2>1. n \in Nat /\ bytes \in Seq(Symbols) /\ size \in Nat
    BY Places
  <2> HIDE DEF size
  <2> QED
    BY <2>1
<1>2. at \in Nat /\ next \in Nat /\ next < size
  BY <1>1, Places
<1>3. Text(K, {"SP", "CR", "LF", "="}) /\ Text(W, {"SP", "CR", "LF", "&"})
  BY DEF Given, Proper, ProperParams
<1>4. /\ Has(bytes, at + 1, K) /\ bytes[at + k + 2] = "=" /\ Has(bytes, at + k + 2, W)
      /\ next = at + k + l + 2
  BY DEF Given, Layout, ParamsLaid
<1>5. bytes[next + 1] = IF i = n THEN "SP" ELSE "&"
  <2>1. CASE i = n
    <3>1. bytes[q[n + 1] + 1] = "SP"
      BY DEF Given, Layout, VersionLaid
    <3> QED
      BY <2>1, <3>1
  <2>2. CASE i # n
    <3>1. i + 1 \in 1 .. n /\ i + 1 # 1
      BY <1>1, <2>2
    <3>2. bytes[q[i + 1] + 1] = "&"
      BY <3>1 DEF Given, Layout, ParamsLaid
    <3> QED
      BY <2>2, <3>2
  <2> QED
    BY <2>1, <2>2
<1>6. k \in Nat /\ k # 0 /\ l \in Nat /\ l # 0
  BY <1>3 DEF Text
<1>7. /\ vers = << >>
      /\ \/ At("BEFORE_URI_PARAMS_KEY", at, at + 1) /\ http_request = Early(sent.url, before)
         \/ Reading("IN_URI_PARAMS_KEY", at + 1, K) /\ http_request = Early(sent.url, before)
         \/ /\ \/ At("BEFORE_URI_PARAMS_VALUE", at + 1, at + k + 2)
               \/ Reading("IN_URI_PARAMS_VALUE", at + k + 2, W)
            /\ key = K
            /\ http_request = Early(sent.url, half)
  BY DEF ParamStage
<1>8. ASSUME sent' = sent, vers' = << >>,
             \/ /\ \/ At("BEFORE_URI_PARAMS_KEY", at, at + 1)' \/ Reading("IN_URI_PARAMS_KEY", at + 1, K)'
                /\ http_request' = Early(sent.url, before)
             \/ /\ \/ At("BEFORE_URI_PARAMS_VALUE", at + 1, at + k + 2)'
                   \/ Reading("IN_URI_PARAMS_VALUE", at + k + 2, W)'
                /\ key' = K
                /\ http_request' = Early(sent.url, half)
      PROVE  Stage(q, h)'
  <2>1. ParamStage(q, i)'
    <3>1. Early(sent.url, before) = Early(sent.url, ParamsTo(i - 1))'
      BY <1>8 DEF Early, Stored, ParamsTo
    <3>2. Early(sent.url, half) = Early(sent.url, Http!Put(ParamsTo(i - 1), sent.params[i][1], << >>))'
      BY <1>8 DEF Early, Stored, ParamsTo
    <3>3. sent'.params[i][1] = K /\ sent'.params[i][2] = W
      BY <1>8
    <3> HIDE DEF before, half
    <3> QED
      BY <1>8, <3>1, <3>2, <3>3 DEF ParamStage
  <2> QED
    BY <1>8, <2>1 DEF Stage
<1> HIDE DEF K, W, k, l, at, next, before, half, size, n
<1>9. CASE At("BEFORE_URI_PARAMS_KEY", at, at + 1) /\ http_request = Early(sent.url, before)
  <2>1. start = at /\ end = at + 1 /\ state = "BEFORE_URI_PARAMS_KEY"
    BY <1>9 DEF At
  <2>2. end \in Nat /\ end <= end /\ end <= end + k /\ end # end + k
    BY <1>2, <1>6, <2>1
  <2>3. ch \notin {"SP", "CR", "LF", "="} /\ end < Len(bytes)
    BY <1>1, <1>3, <1>4, <2>1, <2>2, Scan DEF k
  <2>4. SUFFICES ASSUME Reads(ch), sent' = sent PROVE Stage(q, h)'
    BY <2>2, <2>3
  <2>5. Http!Params(ch)
    BY <2>1, <2>4, Which
  <2>6. state' = "IN_URI_PARAMS_KEY" /\ start' = at + 1 /\ end' = (at + 1) + 1 /\ vers' = vers
        /\ http_request' = http_request
    <3> HIDE DEF ch
    <3> QED
      BY <2>1, <2>3, <2>5 DEF Http!Params, Http!ValueStarts, Http!To, Http!Keeps, Http!Blank
  <2>7. Reading("IN_URI_PARAMS_KEY", at + 1, K)'
    <3>1. (at + 1) + 1 \in (at + 1) + 1 .. (at + 1) + k
      BY <1>2, <1>6
    <3>2. k = Len(K) /\ K' = K
      BY <2>4 DEF k, K
    <3>3. (at + 1)' = at + 1
      BY DEF at
    <3> QED
      BY <2>6, <3>1, <3>2, <3>3 DEF Reading
  <2> QED
    BY <1>7, <1>8, <1>9, <2>4, <2>6, <2>7
<1>10. CASE Reading("IN_URI_PARAMS_KEY", at + 1, K) /\ http_request = Early(sent.url, before)
  <2>1. start = at + 1 /\ end \in (at + 1) + 1 .. (at + 1) + k /\ state = "IN_URI_PARAMS_KEY"
    BY <1>10 DEF Reading, k
  <2>2. end \in Nat /\ at + 1 \in Nat /\ at + 1 <= end /\ end <= (at + 1) + k
    BY <1>2, <1>6, <2>1
  <2>3. /\ end # (at + 1) + k => ch \notin {"SP", "CR", "LF", "="} /\ end < Len(bytes) /\ end < (at + 1) + k
        /\ end = (at + 1) + k => SubSeq(bytes, (at + 1) + 1, end) = K
    BY <1>1, <1>3, <1>4, <2>2, Scan, SMTT(30) DEF k
  <2>4. end < Len(bytes)
    <3>1. (at + 1) + k < next
      BY <1>2, <1>4, <1>6
    <3>2. end < size
      BY <1>1, <1>2, <2>2, <1>6, <3>1
    <3> QED
      BY <3>2 DEF size
  <2>5. SUFFICES ASSUME Reads(ch), sent' = sent PROVE Stage(q, h)'
    BY <2>2, <2>4
  <2>6. Http!Params(ch)
    BY <2>1, <2>5, Which
  <2>7. CASE end # (at + 1) + k
    <3>1. state' = "IN_URI_PARAMS_KEY" /\ start' = at + 1 /\ end' = end + 1 /\ vers' = vers
          /\ http_request' = http_request
      <4> HIDE DEF ch
      <4> QED
        BY <2>1, <2>3, <2>6, <2>7 DEF Http!Params, Http!ValueStarts, Http!To, Http!Keeps
    <3>2. Reading("IN_URI_PARAMS_KEY", at + 1, K)'
      <4>1. end + 1 \in (at + 1) + 1 .. (at + 1) + k
        BY <1>2, <1>6, <2>1, <2>3, <2>7
      <4>2. k = Len(K) /\ K' = K
        BY <2>5 DEF k, K
      <4>3. (at + 1)' = at + 1
        BY DEF at
      <4> QED
        BY <3>1, <4>1, <4>2, <4>3 DEF Reading
    <3> QED
      BY <1>7, <1>8, <1>10, <2>5, <3>1, <3>2
  <2>8. CASE end = (at + 1) + k
    <3>1. Http!Text = K
      BY <2>1, <2>3, <2>8 DEF Http!Text
    <3>2. ch = "="
      <4>1. end + 1 = at + k + 2
        BY <1>2, <1>6, <2>8
      <4> QED
        BY <1>4, <4>1
    <3>3. /\ state' = "BEFORE_URI_PARAMS_VALUE" /\ start' = at + 1 /\ end' = end + 1 /\ vers' = vers
          /\ http_request' = Http!With("params", Http!Text, << >>) /\ key' = Http!Text
      <4> HIDE DEF ch
      <4> QED
        BY <2>1, <2>6, <3>2 DEF Http!Params, Http!ValueStarts, Http!To, Http!Stores
    <3>4. http_request' = Early(sent.url, half)
      <4>1. http_request' = [http_request EXCEPT !["params"] = Http!Put(http_request["params"], K, << >>)]
        BY <3>1, <3>3 DEF Http!With
      <4>2. http_request["params"] = before
        BY <1>10, StoredParts DEF Early
      <4>3. http_request' = [http_request EXCEPT !["params"] = half]
        BY <4>1, <4>2 DEF half
      <4> QED
        BY <1>10, <4>3, StoredParts DEF Early
    <3>5. At("BEFORE_URI_PARAMS_VALUE", at + 1, at + k + 2)'
      <4>1. end + 1 = at + k + 2
        BY <1>2, <1>6, <2>8
      <4>2. (at + 1)' = at + 1 /\ (at + k + 2)' = at + k + 2
        BY <2>5 DEF at, k, K
      <4> QED
        BY <3>3, <4>1, <4>2 DEF At
    <3> QED
      BY <1>7, <1>8, <2>5, <3>1, <3>3, <3>4, <3>5
  <2> QED
    BY <2>7, <2>8
<1>11. CASE /\ At("BEFORE_URI_PARAMS_VALUE", at + 1, at + k + 2) /\ key = K
            /\ http_request = Early(sent.url, half)
  <2>1. start = at + 1 /\ end = at + k + 2 /\ state = "BEFORE_URI_PARAMS_VALUE"
    BY <1>11 DEF At
  <2>2. end \in Nat /\ end <= end /\ end <= end + l /\ end # end + l
    BY <1>2, <1>6, <2>1
  <2>3. ch \notin {"SP", "CR", "LF", "&"} /\ end < Len(bytes)
    BY <1>1, <1>3, <1>4, <2>1, <2>2, Scan DEF l
  <2>4. SUFFICES ASSUME Reads(ch), sent' = sent PROVE Stage(q, h)'
    BY <2>2, <2>3
  <2>5. Http!Params(ch)
    BY <2>1, <2>4, Which
  <2>6. state' = "IN_URI_PARAMS_VALUE" /\ start' = end /\ end' = end + 1 /\ vers' = vers
        /\ http_request' = http_request /\ key' = key
    <3> HIDE DEF ch
    <3> QED
      BY <2>1, <2>3, <2>5 DEF Http!Params, Http!ValueStarts, Http!To, Http!Keeps, Http!Blank
  <2>7. Reading("IN_URI_PARAMS_VALUE", at + k + 2, W)'
    <3>1. end + 1 \in (at + k + 2) + 1 .. (at + k + 2) + l
      BY <1>2, <1>6, <2>1
    <3>2. l = Len(W) /\ W' = W
      BY <2>4 DEF l, W
    <3>3. (at + k + 2)' = at + k + 2
      BY <2>4 DEF at, k, K
    <3> QED
      BY <2>1, <2>6, <3>1, <3>2, <3>3 DEF Reading
  <2> QED
    BY <1>7, <1>8, <1>11, <2>4, <2>6, <2>7
<1>12. CASE /\ Reading("IN_URI_PARAMS_VALUE", at + k + 2, W) /\ key = K
            /\ http_request = Early(sent.url, half)
  <2> DEFINE s == at + k + 2
  <2>1. start = s /\ end \in s + 1 .. s + l /\ state = "IN_URI_PARAMS_VALUE" /\ s \in Nat
    BY <1>2, <1>6, <1>12 DEF Reading, l
  <2>2. next = s + l
    BY <1>2, <1>4, <1>6
  <2>3. Has(bytes, s, W) /\ (s' = s \/ sent' # sent)
    BY <1>4 DEF at, k, K
  <2> HIDE DEF s
  <2>4. end \in Nat /\ s <= end /\ end <= s + l
    BY <1>6, <2>1
  <2>5. /\ end # s + l => ch \notin {"SP", "CR", "LF", "&"} /\ end < Len(bytes) /\ end < s + l
        /\ end = s + l => SubSeq(bytes, s + 1, end) = W
    BY <1>1, <1>3, <2>1, <2>3, <2>4, Scan DEF l
  <2>6. end < Len(bytes)
    <3>1. end < size
      BY <1>1, <1>2, <2>2, <2>4
    <3> QED
      BY <3>1 DEF size
  <2>7. SUFFICES ASSUME Reads(ch), sent' = sent PROVE Stage(q, h)'
    BY <2>4, <2>6
  <2>8. Http!Params(ch)
    BY <2>1, <2>7, Which
  <2>9. CASE end # s + l
    <3>1. ch \notin {"SP", "&"}
      BY <2>5, <2>9
    <3>2. state' = "IN_URI_PARAMS_VALUE" /\ start' = s /\ end' = end + 1 /\ vers' = vers
          /\ http_request' = http_request /\ key' = key
      <4> HIDE DEF ch
      <4> QED
        BY <2>1, <2>8, <3>1 DEF Http!Params, Http!ValueStarts, Http!To, Http!Keeps, Http!Blank
    <3>3. Reading("IN_URI_PARAMS_VALUE", s, W)'
      <4>1. end + 1 \in s + 1 .. s + l
        BY <1>6, <2>1, <2>5, <2>9
      <4>2. l = Len(W) /\ W' = W
        BY <2>7 DEF l, W
      <4> QED
        BY <2>3, <2>7, <3>2, <4>1, <4>2 DEF Reading
    <3> QED
      BY <1>7, <1>8, <1>12, <2>7, <3>2, <3>3 DEF s
  <2>10. CASE end = s + l
    <3>1. Http!Text = W
      BY <2>1, <2>5, <2>10 DEF Http!Text
    <3>2. end = next /\ ch = IF i = n THEN "SP" ELSE "&"
      BY <1>5, <2>2, <2>10
    <3>3. /\ state' = IF i = n THEN "BEFORE_PROTOCOL" ELSE "BEFORE_URI_PARAMS_KEY"
          /\ start' = end /\ end' = end + 1 /\ vers' = vers
          /\ http_request' = Http!With("params", key, Http!Text)
      <4> HIDE DEF ch
      <4> QED
        BY <2>1, <2>8, <3>2 DEF Http!Params, Http!ValueStarts, Http!To, Http!Stores, Http!Blank
    <3>4. http_request' = Early(sent.url, ParamsTo(i))
      <4>1. http_request' = [http_request EXCEPT !["params"] = Http!Put(http_request["params"], K, W)]
        BY <1>12, <3>1, <3>3 DEF Http!With
      <4>2. http_request["params"] = half
        BY <1>12, StoredParts DEF Early
      <4>3. Http!Put(half, K, W) = ParamsTo(i)
        <5>1. i - 1 \in Nat /\ (i - 1) + 1 = i
          BY <1>1
        <5> DEFINE j == i - 1
        <5>2. j \in Nat /\ j + 1 = i
          BY <5>1
        <5> HIDE DEF j
        <5>3. Http!Put(Http!Put(MapTo(sent.params, 1, 2, j), sent.params[j + 1][1], << >>),
                       sent.params[j + 1][1], sent.params[j + 1][2])
                  = MapTo(sent.params, 1, 2, j + 1)
          BY <5>2, MapToStored
        <5> QED
          BY <5>2, <5>3 DEF half, before, K, W, ParamsTo, j
      <4> QED
        BY <1>12, <4>1, <4>2, <4>3, StoredParts DEF Early
    <3>5. CASE i = n
      <4>1. http_request' = Early(sent.url, AllParams)'
        <5>1. http_request' = Early(sent.url, AllParams)
          BY <3>4, <3>5 DEF AllParams, n
        <5> QED
          BY <2>7, <5>1 DEF Early, Stored, AllParams, ParamsTo
      <4>2. At("BEFORE_PROTOCOL", q[Len(sent.params) + 1], q[Len(sent.params) + 1] + 1)'
        BY <2>7, <3>2, <3>3, <3>5 DEF At, next, n
      <4>3. VersionStage(q[Len(sent.params) + 1])'
        BY <1>7, <3>3, <4>1, <4>2 DEF VersionStage
      <4> QED
        BY <4>3 DEF Stage
    <3>6. CASE i # n
      <4>1. i + 1 \in 1 .. n /\ (i + 1) - 1 = i
        BY <1>1, <3>6
      <4>2. http_request' = Early(sent.url, ParamsTo((i + 1) - 1))'
        <5>1. http_request' = Early(sent.url, ParamsTo(i))'
          BY <2>7, <3>4 DEF Early, Stored, ParamsTo
        <5> QED
          BY <4>1, <5>1
      <4>3. ParamStage(q, i + 1)'
        BY <1>7, <3>2, <3>3, <3>6, <4>2 DEF ParamStage, At, next
      <4> QED
        BY <2>7, <4>1, <4>3 DEF Stage, n
    <3> QED
      BY <3>5, <3>6
  <2> QED
    BY <2>9, <2>10
<1> QED
  BY <1>7, <1>9, <1>10, <1>11, <1>12

LEMMA Joins ==
    ASSUME NEW c, NEW d, NEW e
    PROVE  /\ << >> \o <<c>> = <<c>> /\ <<c>> \o <<d>> = <<c, d>>
           /\ <<c, d>> \o <<e>> = <<c, d, e>>
<1>1. << >> \o <<c>> = <<c>>
  OBVIOUS
<1> DEFINE T == {c, d, e}
<1>2. /\ <<c>> \in Seq(T) /\ Len(<<c>>) = 1 /\ <<d>> \in Seq(T) /\ Len(<<d>>) = 1
      /\ <<e>> \in Seq(T) /\ Len(<<e>>) = 1 /\ <<c, d>> \in Seq(T) /\ Len(<<c, d>>) = 2
  <2>1. c \in T /\ d \in T /\ e \in T
    OBVIOUS
  <2> HIDE DEF T
  <2> QED
    BY <2>1, OneSymbol, TwoSymbols
<1> HIDE DEF T
<1>3. <<c>> \o <<d>> = <<c, d>>
  <2> DEFINE x == <<c>>
             y == <<d>>
             z == x \o y
  <2>1. x \in Seq(T) /\ y \in Seq(T) /\ Len(x) = 1 /\ Len(y) = 1 /\ x[1] = c /\ y[1] = d
    BY <1>2
  <2> HIDE DEF x, y
  <2>2. /\ z \in Seq(T) /\ Len(z) = Len(x) + Len(y) /\ Has(z, 0, x) /\ Has(z, Len(x), y)
    BY <2>1, HasConcat
  <2> HIDE DEF z
  <2>3. Len(z) = 2 /\ z[1] = c /\ z[2] = d
    BY <2>1, <2>2 DEF Has
  <2>4. z = <<c, d>>
    <3>1. <<c, d>>[1] = c /\ <<c, d>>[2] = d
      OBVIOUS
    <3>2. \A i \in 1 .. 2 : z[i] = <<c, d>>[i]
      BY <2>3, <3>1
    <3> QED
      BY <1>2, <2>2, <2>3, <3>2, SeqEqual
  <2> QED
    BY <2>4 DEF x, y, z
<1>4. <<c, d>> \o <<e>> = <<c, d, e>>
  <2> DEFINE x == <<c, d>>
             y == <<e>>
             z == x \o y
  <2>1. x \in Seq(T) /\ y \in Seq(T) /\ Len(x) = 2 /\ Len(y) = 1
        /\ x[1] = c /\ x[2] = d /\ y[1] = e
    BY <1>2
  <2> HIDE DEF x, y
  <2>2. /\ z \in Seq(T) /\ Len(z) = Len(x) + Len(y) /\ Has(z, 0, x) /\ Has(z, Len(x), y)
    BY <2>1, HasConcat
  <2> HIDE DEF z
  <2>3. Len(z) = 3 /\ z[1] = c /\ z[2] = d /\ z[3] = e
    BY <2>1, <2>2 DEF Has
  <2>4. z = <<c, d, e>>
    <3>1. <<c, d, e>>[1] = c /\ <<c, d, e>>[2] = d /\ <<c, d, e>>[3] = e
      OBVIOUS
    <3>2. \A i \in 1 .. 3 : z[i] = <<c, d, e>>[i]
      BY <2>3, <3>1
    <3>3. <<c, d, e>> \in Seq(T) /\ Len(<<c, d, e>>) = 3
      BY ThreeSymbols DEF T
    <3> QED
      BY <2>2, <2>3, <3>2, <3>3, SeqEqual
  <2> QED
    BY <2>4 DEF x, y, z
<1> QED
  BY <1>1, <1>3, <1>4

LEMMA VersionReads ==
    ASSUME NEW q, NEW h, Given(q, h), VersionStage(q[Len(sent.params) + 1])
    PROVE  /\ end \in Nat /\ end < Len(bytes)
           /\ (Reads(bytes[end + 1]) /\ sent' = sent) => Stage(q, h)'
<1> DEFINE ch == bytes[end + 1]
           size == Len(bytes)
           V == q[Len(sent.params) + 1]
           major == sent.version[1]
           minor == sent.version[3]
           early == Early(sent.url, AllParams)
           middle == Stored(sent.url, AllParams, <<"HTTP">>, "INVAILD_VERSION", << >>)
<1>1. /\ bytes \in Seq(Symbols) /\ size \in Nat /\ V \in Nat /\ V + 8 < size /\ h[1] = V + 8
  <2>1. Len(sent.params) \in Nat /\ Len(sent.headers) \in Nat
    BY Places
  <2>2. Len(sent.params) + 1 \in 1 .. Len(sent.params) + 1 /\ 1 \in 1 .. Len(sent.headers) + 1
    BY <2>1
  <2>3. V \in Nat /\ h[1] = V + 8 /\ h[1] < size
    BY <2>2, Places
  <2> QED
    BY <2>3, Places
<1>2. major \in Http!Digit /\ minor \in Http!Digit /\ sent.version = <<major, ".", minor>>
  BY DEF Given, Proper, ProperVersion
<1>3. /\ bytes[V + 1] = "SP" /\ bytes[V + 2] = "HTTP" /\ bytes[V + 3] = "/"
      /\ bytes[V + 4] = major /\ bytes[V + 5] = "." /\ bytes[V + 6] = minor
      /\ bytes[V + 7] = "CR"
  BY DEF Given, Layout, VersionLaid
<1>4. \/ /\ At("BEFORE_PROTOCOL", V, V + 1) \/ At("IN_PROTOCOL", V + 1, V + 2)
         /\ vers = << >> /\ http_request = early
      \/ /\ \/ At("BEFORE_VERSION", V + 2, V + 3) /\ vers = << >>
            \/ At("IN_VERSION", V + 3, V + 4) /\ vers = << >>
            \/ At("VERSION_SPLIT", V + 4, V + 5) /\ vers = <<major>>
            \/ At("IN_VERSION", V + 5, V + 6) /\ vers = <<major, ".">>
         /\ http_request = middle
  BY DEF VersionStage
<1>5. ASSUME sent' = sent,
             \/ At("IN_PROTOCOL", V + 1, V + 2)' /\ vers' = << >> /\ http_request' = early
             \/ /\ \/ At("BEFORE_VERSION", V + 2, V + 3)' /\ vers' = << >>
                   \/ At("IN_VERSION", V + 3, V + 4)' /\ vers' = << >>
                   \/ At("VERSION_SPLIT", V + 4, V + 5)' /\ vers' = <<major>>
                   \/ At("IN_VERSION", V + 5, V + 6)' /\ vers' = <<major, ".">>
                /\ http_request' = middle
      PROVE  Stage(q, h)'
  <2>1. early = Early(sent.url, AllParams)'
        /\ middle = Stored(sent.url, AllParams, <<"HTTP">>, "INVAILD_VERSION", << >>)'
    BY <1>5 DEF Early, Stored, AllParams, ParamsTo
  <2>2. sent'.version[1] = major /\ V' = V
    BY <1>5
  <2> HIDE DEF early, middle
  <2>3. VersionStage(q[Len(sent.params) + 1])'
    BY <1>5, <2>1, <2>2 DEF VersionStage
  <2> QED
    BY <2>3 DEF Stage
<1>6. sent' = sent => V' = V /\ \A c : (V + c)' = V + c
  OBVIOUS
<1> HIDE DEF V, size, early, middle, major, minor
<1>7. ASSUME NEW s \in Nat, start = s, end = s + 1, s < size PROVE Http!Text = <<bytes[s + 1]>>
  <2>1. s < Len(bytes)
    BY <1>7 DEF size
  <2> QED
    BY <1>1, <1>7, <2>1, ReadOne DEF Http!Text
<1>8. CASE At("BEFORE_PROTOCOL", V, V + 1) /\ vers = << >> /\ http_request = early
  <2>1. start = V /\ end = V + 1 /\ state = "BEFORE_PROTOCOL" /\ end + 1 = V + 2
        /\ end \in Nat /\ end < size
    BY <1>1, <1>8 DEF At
  <2>2. ch = "HTTP"
    BY <1>3, <2>1
  <2>3. SUFFICES ASSUME Reads(ch), sent' = sent PROVE Stage(q, h)'
    BY <2>1 DEF size
  <2>4. Http!Protocol(ch)
    BY <2>1, <2>3, Which
  <2>5. state' = "IN_PROTOCOL" /\ start' = V + 1 /\ end' = V + 2 /\ vers' = vers
        /\ http_request' = http_request
    <3>1. "HTTP" \in Http!Alpha
      BY DEF Http!Alpha, Http!Upper
    <3> HIDE DEF ch
    <3> QED
      BY <2>1, <2>2, <2>4, <3>1 DEF Http!Protocol, Http!To, Http!Keeps
  <2>6. At("IN_PROTOCOL", V + 1, V + 2)'
    BY <1>6, <2>3, <2>5 DEF At
  <2> QED
    BY <1>5, <1>8, <2>3, <2>5, <2>6
<1>9. CASE At("IN_PROTOCOL", V + 1, V + 2) /\ vers = << >> /\ http_request = early
  <2>1. start = V + 1 /\ end = (V + 1) + 1 /\ state = "IN_PROTOCOL" /\ end + 1 = V + 3
        /\ end \in Nat /\ end < size /\ V + 1 \in Nat /\ V + 1 < size /\ (V + 1) + 1 = V + 2
    BY <1>1, <1>9 DEF At
  <2>2. ch = "/" /\ Http!Text = <<"HTTP">>
    BY <1>3, <1>7, <2>1
  <2>3. SUFFICES ASSUME Reads(ch), sent' = sent PROVE Stage(q, h)'
    BY <2>1 DEF size
  <2>4. Http!Protocol(ch)
    BY <2>1, <2>3, Which
  <2>5. state' = "BEFORE_VERSION" /\ start' = V + 2 /\ end' = V + 3 /\ vers' = vers
        /\ http_request' = [http_request EXCEPT !["protocol"] = <<"HTTP">>]
    <3> HIDE DEF ch
    <3> QED
      BY <2>1, <2>2, <2>4 DEF Http!Protocol, Http!To, Http!Stores
  <2>6. http_request' = middle
    BY <1>9, <2>5, StoredParts DEF early, middle, Early
  <2>7. At("BEFORE_VERSION", V + 2, V + 3)'
    BY <1>6, <2>3, <2>5 DEF At
  <2> QED
    BY <1>5, <1>9, <2>3, <2>5, <2>6, <2>7
<1>10. CASE At("BEFORE_VERSION", V + 2, V + 3) /\ vers = << >> /\ http_request = middle
  <2>1. start = V + 2 /\ end = V + 3 /\ state = "BEFORE_VERSION" /\ end + 1 = V + 4
        /\ end \in Nat /\ end < size
    BY <1>1, <1>10 DEF At
  <2>2. ch \in Http!Digit
    BY <1>2, <1>3, <2>1
  <2>3. SUFFICES ASSUME Reads(ch), sent' = sent PROVE Stage(q, h)'
    BY <2>1 DEF size
  <2>4. Http!Protocol(ch)
    BY <2>1, <2>3, Which
  <2>5. state' = "IN_VERSION" /\ start' = V + 3 /\ end' = V + 4 /\ vers' = vers
        /\ http_request' = http_request
    <3> HIDE DEF ch
    <3> QED
      BY <2>1, <2>2, <2>4 DEF Http!Protocol, Http!To, Http!Keeps
  <2>6. At("IN_VERSION", V + 3, V + 4)'
    BY <1>6, <2>3, <2>5 DEF At
  <2> QED
    BY <1>5, <1>10, <2>3, <2>5, <2>6
<1>11. CASE At("IN_VERSION", V + 3, V + 4) /\ vers = << >> /\ http_request = middle
  <2>1. start = V + 3 /\ end = (V + 3) + 1 /\ state = "IN_VERSION" /\ end + 1 = V + 5
        /\ end \in Nat /\ end < size /\ V + 3 \in Nat /\ V + 3 < size /\ (V + 3) + 1 = V + 4
    BY <1>1, <1>11 DEF At
  <2>2. ch = "." /\ Http!Text = <<major>>
    BY <1>3, <1>7, <2>1
  <2>3. SUFFICES ASSUME Reads(ch), sent' = sent PROVE Stage(q, h)'
    BY <2>1 DEF size
  <2>4. Http!Protocol(ch)
    BY <2>1, <2>3, Which
  <2>5. state' = "VERSION_SPLIT" /\ start' = V + 4 /\ end' = V + 5 /\ vers' = vers \o Http!Text
        /\ http_request' = http_request
    <3> HIDE DEF ch
    <3> QED
      BY <2>1, <2>2, <2>4 DEF Http!Protocol, Http!To, Http!Stores
  <2>6. vers' = <<major>>
    BY <1>11, <2>2, <2>5, Joins
  <2>7. At("VERSION_SPLIT", V + 4, V + 5)'
    BY <1>6, <2>3, <2>5 DEF At
  <2> QED
    BY <1>5, <1>11, <2>3, <2>5, <2>6, <2>7
<1>12. CASE At("VERSION_SPLIT", V + 4, V + 5) /\ vers = <<major>> /\ http_request = middle
  <2>1. start = V + 4 /\ end = V + 5 /\ state = "VERSION_SPLIT" /\ end + 1 = V + 6
        /\ end \in Nat /\ end < size
    BY <1>1, <1>12 DEF At
  <2>2. ch \in Http!Digit
    BY <1>2, <1>3, <2>1
  <2>3. SUFFICES ASSUME Reads(ch), sent' = sent PROVE Stage(q, h)'
    BY <2>1 DEF size
  <2>4. Http!Protocol(ch)
    BY <2>1, <2>3, Which
  <2>5. state' = "IN_VERSION" /\ start' = V + 5 /\ end' = V + 6 /\ vers' = vers \o <<".">>
        /\ http_request' = http_request
    <3> HIDE DEF ch
    <3> QED
      BY <2>1, <2>2, <2>4 DEF Http!Protocol, Http!To, Http!Stores
  <2>6. vers' = <<major, ".">>
    BY <1>12, <2>5, Joins
  <2>7. At("IN_VERSION", V + 5, V + 6)'
    BY <1>6, <2>3, <2>5 DEF At
  <2> QED
    BY <1>5, <1>12, <2>3, <2>5, <2>6, <2>7
<1>13. CASE At("IN_VERSION", V + 5, V + 6) /\ vers = <<major, ".">> /\ http_request = middle
  <2>1. start = V + 5 /\ end = (V + 5) + 1 /\ state = "IN_VERSION" /\ end + 1 = V + 7
        /\ end \in Nat /\ end < size /\ V + 5 \in Nat /\ V + 5 < size /\ (V + 5) + 1 = V + 6
    BY <1>1, <1>13 DEF At
  <2>2. ch = "CR" /\ Http!Text = <<minor>>
    BY <1>3, <1>7, <2>1
  <2>3. SUFFICES ASSUME Reads(ch), sent' = sent PROVE Stage(q, h)'
    BY <2>1 DEF size
  <2>4. Http!Protocol(ch)
    BY <2>1, <2>3, Which
  <2>5. state' = "CR" /\ end' = V + 7
        /\ http_request' = [http_request EXCEPT !["version"] = Http!SetVersion(vers \o Http!Text)]
    <3> HIDE DEF ch
    <3> QED
      BY <2>1, <2>2, <2>4 DEF Http!Protocol, Http!To, Http!Stores
  <2>6. vers \o Http!Text = sent.version
    BY <1>2, <1>13, <2>2, Joins
  <2>7. http_request' = Late(HeadersTo(0))
    <3>1. HeadersTo(0) = << >>
      BY MapToNone DEF HeadersTo
    <3>2. http_request' = [http_request EXCEPT !["version"] = Http!SetVersion(sent.version)]
      BY <2>5, <2>6
    <3> QED
      BY <1>13, <3>1, <3>2, StoredParts DEF middle, Late
  <2>8. http_request' = Late(HeadersTo(1 - 1))'
    <3>1. http_request' = Late(HeadersTo(0))'
      BY <2>3, <2>7 DEF Late, Stored, AllParams, ParamsTo, HeadersTo
    <3> QED
      BY <3>1
  <2>9. V + 7 = h[1] - 1
    BY <1>1
  <2>10. LineEnds(h, 1)'
    BY <2>5, <2>8, <2>9 DEF LineEnds
  <2>11. 1 \in 1 .. Len(sent.headers) + 1
    BY Places
  <2> QED
    BY <2>3, <2>10, <2>11 DEF Stage
<1> QED
  BY <1>4, <1>8, <1>9, <1>10, <1>11, <1>12, <1>13

LEMMA LineEndReads ==
    ASSUME NEW q, NEW h, Given(q, h), NEW i \in 1 .. Len(sent.headers) + 1, LineEnds(h, i)
    PROVE  /\ end \in Nat /\ end < Len(bytes)
           /\ (Reads(bytes[end + 1]) /\ sent' = sent) => Stage(q, h)'
<1> DEFINE ch == bytes[end + 1]
           size == Len(bytes)
           m == Len(sent.headers)
           at == h[i]
           before == Late(HeadersTo(i - 1))
<1>1. /\ bytes \in Seq(Symbols) /\ size \in Nat /\ m \in Nat
      /\ at \in Nat /\ at - 1 \in Nat /\ at < size
  BY Places
<1>2. bytes[at] = "LF"
  <2>1. CASE i = 1
    <3> DEFINE V == q[Len(sent.params) + 1]
    <3>1. bytes[V + 8] = "LF" /\ h[1] = V + 8
      BY DEF Given, Layout, VersionLaid
    <3> HIDE DEF V
    <3> QED
      BY <2>1, <3>1
  <2>2. CASE i # 1
    <3> DEFINE j == i - 1
    <3>1. j \in 1 .. m /\ j + 1 = i
      BY <1>1, <2>2
    <3> HIDE DEF j
    <3>2. bytes[h[j + 1]] = "LF"
      BY <3>1 DEF Given, Layout, HeadersLaid
    <3> QED
      BY <3>1, <3>2
  <2> QED
    BY <2>1, <2>2
<1>3. ASSUME sent' = sent PROVE before = before'
  BY <1>3 DEF Late, Stored, AllParams, ParamsTo, HeadersTo
<1>4. /\ (state = "CR" /\ end = at - 1) \/ At("CRLF", at - 1, at)
      /\ http_request = before
  BY DEF LineEnds
<1> HIDE DEF before
<1>5. CASE state = "CR" /\ end = at - 1
  <2>1. end \in Nat /\ end < Len(bytes) /\ end + 1 = at /\ ch = "LF"
    <3>1. end \in Nat /\ end < size /\ end + 1 = at
      <4> HIDE DEF at, size
      <4> QED
        BY <1>1, <1>5
    <3> QED
      BY <1>2, <3>1
  <2>2. SUFFICES ASSUME Reads(ch), sent' = sent PROVE LineEnds(h, i)'
    BY <2>1 DEF Stage
  <2>3. Http!Headers(ch)
    BY <1>5, <2>2, Which
  <2>4. state' = "CRLF" /\ start' = at - 1 /\ end' = at /\ http_request' = http_request
    <3> HIDE DEF ch, at
    <3> QED
      BY <1>5, <2>1, <2>3 DEF Http!Headers, Http!To, Http!Keeps
  <2>5. http_request' = Late(HeadersTo(i - 1))'
    BY <1>3, <1>4, <2>2, <2>4 DEF before
  <2> QED
    BY <2>4, <2>5 DEF LineEnds, At
<1>6. CASE At("CRLF", at - 1, at)
  <2>1. state = "CRLF" /\ end = at
    BY <1>6 DEF At
  <2>2. SUFFICES ASSUME Reads(ch), sent' = sent PROVE Stage(q, h)'
    BY <1>1, <2>1
  <2>3. Http!Headers(ch)
    BY <2>1, <2>2, Which
  <2>4. CASE i = m + 1
    <3>1. ch = "CR"
      <4>1. bytes[h[m + 1] + 1] = "CR"
        BY DEF Given, Layout, BodyLaid
      <4> QED
        BY <2>1, <2>4, <4>1
    <3>2. state' = "CRLFCR" /\ end' = h[m + 1] + 1 /\ http_request' = http_request
      <4>1. state' = "CRLFCR" /\ end' = end + 1 /\ http_request' = http_request
        <5> HIDE DEF ch
        <5> QED
          BY <2>1, <2>3, <3>1 DEF Http!Headers, Http!To, Http!Keeps, Http!EmptyLine, Http!Blank
      <4> QED
        BY <2>1, <2>4, <4>1
    <3>3. http_request' = Late(HeadersTo(Len(sent.headers)))'
      <4>1. i - 1 = m
        BY <1>1, <2>4
      <4>2. before = Late(HeadersTo(Len(sent.headers)))
        BY <4>1 DEF before
      <4>3. Late(HeadersTo(Len(sent.headers)))' = Late(HeadersTo(Len(sent.headers)))
        BY <2>2 DEF Late, Stored, AllParams, ParamsTo, HeadersTo
      <4> QED
        BY <1>4, <3>2, <4>2, <4>3
    <3>4. EndStage(h[Len(sent.headers) + 1])'
      BY <2>2, <3>2, <3>3 DEF EndStage
    <3> QED
      BY <3>4 DEF Stage
  <2>5. CASE i # m + 1
    <3> DEFINE K == sent.headers[i][1]
               k == Len(K)
    <3>1. i \in 1 .. m
      BY <1>1, <2>5
    <3>2. Text(K, {"SP", "CR", ":"}) /\ Has(bytes, at, K)
      BY <3>1 DEF Given, Proper, ProperHeaders, Layout, HeadersLaid
    <3>3. k \in Nat /\ k # 0
      BY <3>2 DEF Text
    <3> HIDE DEF K, at
    <3>4. ch \notin {"SP", "CR", ":"}
      <4>1. at <= at /\ at <= at + Len(K) /\ at # at + Len(K)
        BY <1>1, <3>3
      <4> QED
        BY <1>1, <2>1, <3>2, <4>1, Scan
    <3>5. state' = "HEADER_KEY" /\ start' = at /\ end' = at + 1 /\ http_request' = http_request
      <4> HIDE DEF ch
      <4> QED
        BY <2>1, <2>3, <3>4 DEF Http!Headers, Http!To, Http!Keeps, Http!EmptyLine, Http!Blank
    <3>6. Reading("HEADER_KEY", h[i], sent.headers[i][1])'
      <4>1. at + 1 \in at + 1 .. at + k
        BY <1>1, <3>3
      <4>2. K' = K /\ at' = at
        BY <2>2 DEF K, at
      <4>3. Reading("HEADER_KEY", at, K)'
        BY <3>5, <4>1, <4>2 DEF Reading
      <4> QED
        BY <4>3 DEF at, K
    <3>7. http_request' = Late(HeadersTo(i - 1))'
      BY <1>3, <1>4, <2>2, <3>5 DEF before
    <3>8. HeaderStage(h, i)'
      BY <3>6, <3>7 DEF HeaderStage
    <3> QED
      BY <2>2, <3>1, <3>8 DEF Stage
  <2> QED
    BY <2>4, <2>5
<1> QED
  BY <1>4, <1>5, <1>6

LEMMA HeaderReads ==
    ASSUME NEW q, NEW h, Given(q, h), NEW i \in 1 .. Len(sent.headers), HeaderStage(h, i)
    PROVE  /\ end \in Nat /\ end < Len(bytes)
           /\ (Reads(bytes[end + 1]) /\ sent' = sent) => Stage(q, h)'
<1> DEFINE ch == bytes[end + 1]
           size == Len(bytes)
           K == sent.headers[i][1]
           S == sent.headers[i][2]
           W == sent.headers[i][3]
           k == Len(K)
           l == Len(S)
           w == Len(W)
           at == h[i]
           next == h[i + 1]
           n == at + k
           s == n + l
           before == HeadersTo(i - 1)
           half == Http!Put(before, K, << >>)
<1>1. /\ i + 1 \in 1 .. Len(sent.headers) + 1 /\ i \in 1 .. Len(sent.headers) + 1
      /\ i - 1 \in Nat /\ bytes \in Seq(Symbols) /\ size \in Nat
  <2>1. Len(sent.headers) \in Nat /\ bytes \in Seq(Symbols) /\ size \in Nat
    BY Places
  <2> HIDE DEF size
  <2> QED
    BY <2>1
<1>2. at \in Nat /\ next \in Nat /\ next < size
  BY <1>1, Places
<1>3. /\ Text(K, {"SP", "CR", ":"}) /\ Text(W, {"CR"}) /\ W[1] # "SP"
      /\ l \in Nat /\ \E c \in 1 .. l : Colon(S, c)
  BY DEF Given, Proper, ProperHeaders
<1>4. /\ Has(bytes, at, K) /\ Has(bytes, at + k, S) /\ Has(bytes, at + k + l, W)
      /\ bytes[next - 1] = "CR" /\ next = at + k + l + w + 2
  BY DEF Given, Layout, HeadersLaid
<1>5. k \in Nat /\ k # 0 /\ w \in Nat /\ w # 0
  BY <1>3 DEF Text
<1>6. \/ Reading("HEADER_KEY", at, K) /\ http_request = Late(before)
      \/ /\ SeparatorStage(n, S) \/ Reading("HEADER_VALUE", s, W)
         /\ key = K /\ http_request = Late(half)
  BY DEF HeaderStage
<1>7. ASSUME sent' = sent,
             \/ Reading("HEADER_KEY", at, K)' /\ http_request' = Late(before)
             \/ /\ SeparatorStage(n, S)' \/ Reading("HEADER_VALUE", s, W)'
                /\ key' = K /\ http_request' = Late(half)
      PROVE  Stage(q, h)'
  <2>1. Late(before) = Late(HeadersTo(i - 1))'
    BY <1>7 DEF Late, Stored, AllParams, ParamsTo, HeadersTo
  <2>2. Late(half) = Late(Http!Put(HeadersTo(i - 1), sent.headers[i][1], << >>))'
    BY <1>7 DEF Late, Stored, AllParams, ParamsTo, HeadersTo
  <2>3. K' = K
    BY <1>7
  <2> HIDE DEF before, half
  <2>4. HeaderStage(h, i)'
    BY <1>7, <2>1, <2>2, <2>3 DEF HeaderStage
  <2> QED
    BY <1>7, <2>4 DEF Stage
<1>8. sent' = sent => K' = K /\ S' = S /\ W' = W /\ at' = at /\ k' = k /\ l' = l /\ n' = n /\ s' = s
  OBVIOUS
<1>9. n \in Nat /\ s \in Nat /\ next = s + w + 2 /\ Has(bytes, n, S) /\ Has(bytes, s, W)
      /\ n = at + k /\ s = n + l
  <2> HIDE DEF at, k, l, w, next
  <2> QED
    BY <1>2, <1>3, <1>4, <1>5
<1> HIDE DEF K, S, W, k, l, w, at, next, n, s, before, half
<1>10. n \in Nat /\ l \in Nat /\ w \in Nat /\ w # 0 /\ s = n + l /\ s \in Nat
  BY <1>3, <1>5, <1>9
<1>11. Text(W, {"CR"}) /\ Has(bytes, s, W)
  BY <1>3, <1>9
<1>12. ASSUME end \in Nat, end <= s + w PROVE end < Len(bytes)
  <2>1. end < size
    BY <1>1, <1>2, <1>5, <1>9, <1>12
  <2> QED
    BY <2>1 DEF size
<1>13. CASE Reading("HEADER_KEY", at, K) /\ http_request = Late(before)
  <2>1. start = at /\ state = "HEADER_KEY" /\ end \in at + 1 .. at + k
    BY <1>13 DEF Reading, k
  <2>2. end \in Nat /\ at <= end /\ end <= at + k /\ end <= s + w
    BY <1>2, <1>3, <1>5, <1>9, <2>1
  <2>3. end < Len(bytes)
    BY <1>12, <2>2
  <2>4. /\ end # at + k => ch \notin {"SP", "CR", ":"} /\ end < at + k
        /\ end = at + k => SubSeq(bytes, at + 1, end) = K
    BY <1>1, <1>2, <1>3, <1>4, <2>2, Scan, SMTT(30) DEF k
  <2>5. SUFFICES ASSUME Reads(ch), sent' = sent PROVE Stage(q, h)'
    BY <2>2, <2>3
  <2>6. Http!Headers(ch)
    BY <2>1, <2>5, Which
  <2>7. CASE end # at + k
    <3>1. state' = "HEADER_KEY" /\ start' = at /\ end' = end + 1 /\ http_request' = http_request
      <4> HIDE DEF ch
      <4> QED
        BY <2>1, <2>4, <2>6, <2>7 DEF Http!Headers, Http!To, Http!Keeps, Http!Blank
    <3>2. Reading("HEADER_KEY", at, K)'
      <4>1. end + 1 \in at + 1 .. at + k
        BY <1>2, <1>5, <2>1, <2>4, <2>7
      <4> QED
        BY <1>8, <2>5, <3>1, <4>1 DEF Reading, k
    <3> QED
      BY <1>7, <1>13, <2>5, <3>1, <3>2
  <2>8. CASE end = at + k
    <3>1. Http!Text = K
      BY <2>1, <2>4, <2>8 DEF Http!Text
    <3>2. PICK c \in 1 .. l : Colon(S, c)
      BY <1>3
    <3>3. ch = IF c = 1 THEN ":" ELSE "SP"
      <4>1. 1 \in 1 .. l
        BY <1>3, <3>2
      <4>2. S[1] = IF c = 1 THEN ":" ELSE "SP"
        BY <3>2, <4>1 DEF Colon, l
      <4>3. bytes[n + 1] = S[1]
        BY <1>9, <4>1 DEF Has, l
      <4> QED
        BY <1>9, <2>8, <4>2, <4>3
    <3>4. /\ state' = IF c = 1 THEN "HEADER_AFTER_COLON" ELSE "HEADER_BEFORE_COLON"
          /\ end' = end + 1 /\ key' = Http!Text
          /\ http_request' = Http!With("headers", Http!Text, << >>)
      <4> HIDE DEF ch
      <4> QED
        BY <2>1, <2>6, <3>3 DEF Http!Headers, Http!To, Http!Stores, Http!Blank
    <3>5. http_request' = Late(half)
      <4>1. http_request' = [http_request EXCEPT !["headers"] = Http!Put(http_request["headers"], K, << >>)]
        BY <3>1, <3>4 DEF Http!With
      <4>2. http_request["headers"] = before
        BY <1>13, StoredParts DEF Late
      <4>3. http_request' = [http_request EXCEPT !["headers"] = half]
        BY <4>1, <4>2 DEF half
      <4> QED
        BY <1>13, <4>3, StoredParts DEF Late
    <3>6. SeparatorStage(n, S)'
      <4>1. c = 1 => end' \in n + c .. n + l
        BY <1>3, <1>9, <2>8, <3>2, <3>4, SMTT(30)
      <4>2. c # 1 => end' \in n + 1 .. n + c - 1
        BY <1>3, <1>9, <2>8, <3>2, <3>4, SMTT(30)
      <4> QED
        BY <1>8, <2>5, <3>2, <3>4, <4>1, <4>2 DEF SeparatorStage, l
    <3> QED
      BY <1>7, <2>5, <3>1, <3>4, <3>5, <3>6
  <2> QED
    BY <2>7, <2>8
<1>14. CASE SeparatorStage(n, S) /\ key = K /\ http_request = Late(half)
  <2>1. PICK c \in 1 .. l :
          /\ Colon(S, c)
          /\ \/ state = "HEADER_BEFORE_COLON" /\ end \in n + 1 .. n + c - 1
             \/ state = "HEADER_AFTER_COLON" /\ end \in n + c .. n + l
    BY <1>14 DEF SeparatorStage, l
  <2>2. end \in Nat /\ n <= end /\ end <= n + l /\ end <= s + w
    <3>1. c \in 1 .. l /\ (end \in n + 1 .. n + c - 1 \/ end \in n + c .. n + l)
      BY <2>1
    <3> QED
      BY <1>10, <3>1
  <2>3. end < Len(bytes)
    BY <1>12, <2>2
  <2>4. SUFFICES ASSUME Reads(ch), sent' = sent PROVE Stage(q, h)'
    BY <2>2, <2>3
  <2>5. Http!Headers(ch)
    BY <2>1, <2>4, Which
  <2> DEFINE j == (end - n) + 1
  <2>6. ASSUME end # n + l PROVE ch = IF j = c THEN ":" ELSE "SP"
    <3>1. j \in 1 .. l /\ n + j = end + 1
      BY <1>3, <1>9, <2>2, <2>6, SMTT(30)
    <3> HIDE DEF j
    <3>2. S[j] = IF j = c THEN ":" ELSE "SP"
      BY <2>1, <3>1 DEF Colon, l
    <3>3. bytes[n + j] = S[j]
      BY <1>9, <3>1 DEF Has, l
    <3> QED
      BY <3>1, <3>2, <3>3
  <2>7. ASSUME NEW st \in {"HEADER_BEFORE_COLON", "HEADER_AFTER_COLON"},
               state' = st, http_request' = http_request, key' = key,
               \/ st = "HEADER_BEFORE_COLON" /\ end' \in n + 1 .. n + c - 1
               \/ st = "HEADER_AFTER_COLON" /\ end' \in n + c .. n + l
        PROVE  Stage(q, h)'
    <3>1. SeparatorStage(n, S)'
      BY <1>8, <2>1, <2>4, <2>7 DEF SeparatorStage, l
    <3> QED
      BY <1>7, <1>14, <2>4, <2>7, <3>1
  <2>8. CASE state = "HEADER_BEFORE_COLON"
    <3>1. end \in n + 1 .. n + c - 1
      BY <2>1, <2>8
    <3>2. end # n + l
      BY <1>3, <1>9, <3>1
    <3>3. CASE j = c
      <4>1. ch = ":"
        BY <2>6, <3>2, <3>3
      <4>2. state' = "HEADER_AFTER_COLON" /\ end' = end + 1 /\ http_request' = http_request
            /\ key' = key
        <5> HIDE DEF ch
        <5> QED
          BY <2>5, <2>8, <4>1 DEF Http!Headers, Http!To, Http!Keeps, Http!Blank
      <4>3. end + 1 \in n + c .. n + l
        BY <1>10, <3>1, <3>3
      <4> QED
        BY <2>7, <4>2, <4>3
    <3>4. CASE j # c
      <4>1. ch = "SP"
        BY <2>6, <3>2, <3>4
      <4>2. state' = "HEADER_BEFORE_COLON" /\ end' = end + 1 /\ http_request' = http_request
            /\ key' = key
        <5> HIDE DEF ch
        <5> QED
          BY <2>5, <2>8, <4>1 DEF Http!Headers, Http!To, Http!Keeps, Http!Blank
      <4>3. end + 1 \in n + 1 .. n + c - 1
        BY <1>10, <3>1, <3>4
      <4> QED
        BY <2>7, <4>2, <4>3
    <3> QED
      BY <3>3, <3>4
  <2>9. CASE state = "HEADER_AFTER_COLON"
    <3>1. end \in n + c .. n + l
      BY <2>1, <2>9
    <3>2. CASE end # n + l
      <4>1. ch = "SP"
        <5>1. j # c
          BY <1>3, <1>9, <3>1
        <5> QED
          BY <2>6, <3>2, <5>1
      <4>2. state' = "HEADER_AFTER_COLON" /\ end' = end + 1 /\ http_request' = http_request
            /\ key' = key
        <5> HIDE DEF ch
        <5> QED
          BY <2>5, <2>9, <4>1 DEF Http!Headers, Http!To, Http!Keeps, Http!Blank
      <4>3. end + 1 \in n + c .. n + l
        BY <1>3, <1>9, <3>1, <3>2
      <4> QED
        BY <2>7, <4>2, <4>3
    <3>3. CASE end = n + l
      <4>1. end = s
        BY <1>9, <3>3
      <4>2. ch # "SP"
        <5>1. s \in Nat /\ s <= s /\ s <= s + Len(W)
          BY <1>10 DEF w
        <5>2. bytes[s + 1] = W[1]
          BY <1>1, <1>11, <5>1, Scan
        <5> QED
          BY <1>3, <4>1, <5>2
      <4>3. state' = "HEADER_VALUE" /\ start' = end /\ end' = end + 1 /\ http_request' = http_request
            /\ key' = key
        <5> HIDE DEF ch
        <5> QED
          BY <2>5, <2>9, <4>2 DEF Http!Headers, Http!To, Http!Keeps, Http!Blank
      <4>4. Reading("HEADER_VALUE", s, W)'
        <5>1. end + 1 \in s + 1 .. s + w
          BY <1>5, <1>9, <4>1, SMTT(30)
        <5> QED
          BY <1>8, <2>4, <4>1, <4>3, <5>1 DEF Reading, w
      <4> QED
        BY <1>7, <1>14, <2>4, <4>3, <4>4
    <3> QED
      BY <3>2, <3>3
  <2> QED
    BY <2>1, <2>8, <2>9
<1>15. CASE Reading("HEADER_VALUE", s, W) /\ key = K /\ http_request = Late(half)
  <2>1. start = s /\ state = "HEADER_VALUE" /\ end \in s + 1 .. s + w
    BY <1>15 DEF Reading, w
  <2>2. end \in Nat /\ s <= end /\ end <= s + w
    BY <1>5, <1>9, <2>1, SMTT(30)
  <2>3. end < Len(bytes)
    BY <1>12, <2>2
  <2>4. /\ end # s + w => ch \notin {"CR"} /\ end < s + w
        /\ end = s + w => SubSeq(bytes, s + 1, end) = W
    <3>1. s \in Nat /\ s <= end /\ end <= s + Len(W)
      BY <1>10, <2>2 DEF w
    <3> QED
      BY <1>1, <1>11, <2>2, <3>1, Scan DEF w
  <2>5. SUFFICES ASSUME Reads(ch), sent' = sent PROVE Stage(q, h)'
    BY <2>2, <2>3
  <2>6. Http!Headers(ch)
    BY <2>1, <2>5, Which
  <2>7. CASE end # s + w
    <3>1. state' = "HEADER_VALUE" /\ start' = s /\ end' = end + 1 /\ http_request' = http_request
          /\ key' = key
      <4> HIDE DEF ch
      <4> QED
        BY <2>1, <2>4, <2>6, <2>7 DEF Http!Headers, Http!To, Http!Keeps
    <3>2. Reading("HEADER_VALUE", s, W)'
      <4>1. end + 1 \in s + 1 .. s + w
        BY <1>10, <2>1, <2>4, <2>7
      <4> QED
        BY <1>8, <2>5, <3>1, <4>1 DEF Reading, w
    <3> QED
      BY <1>7, <1>15, <2>5, <3>1, <3>2
  <2>8. CASE end = s + w
    <3>1. Http!Text = W
      BY <2>1, <2>4, <2>8 DEF Http!Text
    <3>2. ch = "CR" /\ end + 1 = next - 1
      <4>1. end + 1 = next - 1
        BY <1>5, <1>9, <2>8
      <4> QED
        BY <1>4, <4>1
    <3>3. state' = "CR" /\ end' = end + 1 /\ http_request' = Http!With("headers", key, Http!Text)
      <4> HIDE DEF ch
      <4> QED
        BY <2>1, <2>6, <3>2 DEF Http!Headers, Http!To, Http!Stores
    <3>4. http_request' = Late(HeadersTo(i))
      <4>1. http_request' = [http_request EXCEPT !["headers"] = Http!Put(http_request["headers"], K, W)]
        BY <1>15, <3>1, <3>3 DEF Http!With
      <4>2. http_request["headers"] = half
        BY <1>15, StoredParts DEF Late
      <4>3. Http!Put(half, K, W) = HeadersTo(i)
        <5> DEFINE j == i - 1
        <5>1. j \in Nat /\ j + 1 = i
          BY <1>1
        <5> HIDE DEF j
        <5>2. Http!Put(Http!Put(MapTo(sent.headers, 1, 3, j), sent.headers[j + 1][1], << >>),
                       sent.headers[j + 1][1], sent.headers[j + 1][3])
                  = MapTo(sent.headers, 1, 3, j + 1)
          BY <5>1, MapToStored
        <5> QED
          BY <5>1, <5>2 DEF half, before, K, W, HeadersTo, j
      <4> QED
        BY <1>15, <4>1, <4>2, <4>3, StoredParts DEF Late
    <3>5. http_request' = Late(HeadersTo((i + 1) - 1))'
      <4>1. http_request' = Late(HeadersTo(i))'
        BY <2>5, <3>4 DEF Late, Stored, AllParams, ParamsTo, HeadersTo
      <4>2. (i + 1) - 1 = i
        OBVIOUS
      <4> QED
        BY <4>1, <4>2
    <3>6. LineEnds(h, i + 1)'
      BY <3>2, <3>3, <3>5 DEF LineEnds, next
    <3> QED
      BY <1>1, <2>5, <3>6 DEF Stage
  <2> QED
    BY <2>7, <2>8
<1> QED
  BY <1>6, <1>13, <1>14, <1>15

\* The Content-Length, if there is one, is the length of the body.
LEMMA LengthIsKnown ==
    ASSUME NEW q, NEW h, Given(q, h), http_request = Late(HeadersTo(Len(sent.headers)))
    PROVE  Http!ContentLength = IF Http!HasContentLength THEN Len(sent.body) ELSE 0
<1> DEFINE n == Len(sent.headers)
           H == sent.headers
           f == HeadersTo(n)
<1>1. n \in Nat
  BY Places
<1>2. http_request.headers = f
  BY StoredParts DEF Late
<1>3. ASSUME <<"CL">> \in DOMAIN f PROVE Http!IntOf(f[<<"CL">>]) = Len(sent.body)
  <2>1. PICK i \in 1 .. n : H[i][1] = <<"CL">> /\ f[<<"CL">>] = H[i][3]
    BY <1>1, <1>3, MapToFrom DEF HeadersTo
  <2>2. Http!IntOf(H[i][3]) = Len(sent.body)
    BY <2>1 DEF Given, Proper, ProperHeaders
  <2> QED
    BY <2>1, <2>2
<1> HIDE DEF f
<1> QED
  BY <1>2, <1>3, Zenon DEF Http!ContentLength, Http!HasContentLength

Whole == [Late(HeadersTo(Len(sent.headers))) EXCEPT !["body"] = sent.body]

LEMMA EmptyBody ==
    ASSUME sent.body = << >> PROVE Whole = Late(HeadersTo(Len(sent.headers)))
<1> DEFINE hs == HeadersTo(Len(sent.headers))
<1>1. \A m, u, p, pr, vn, hh, x, r :
         r = [method |-> m, url |-> u, params |-> p, protocol |-> pr, version |-> vn,
              headers |-> hh, body |-> x] => [r EXCEPT !["body"] = x] = r
  BY FieldStored, SMTT(30)
<1>2. [Late(hs) EXCEPT !["body"] = << >>] = Late(hs)
  BY <1>1 DEF Late, Stored
<1> QED
  BY <1>2 DEF Whole

LEMMA EndReads ==
    ASSUME NEW q, NEW h, Given(q, h), Within, EndStage(h[Len(sent.headers) + 1]), NEW ch,
           end < Len(bytes) => ch = bytes[end + 1],
           Reads(ch), sent' = sent, bytes' = bytes
    PROVE  /\ Within'
           /\ Stage(q, h)' \/ (state' = "COMPLETE" /\ http_request' = Whole)
<1> DEFINE E == h[Len(sent.headers) + 1]
           size == Len(bytes)
           n == Len(sent.body)
           late == Late(HeadersTo(Len(sent.headers)))
<1>1. /\ bytes \in Seq(Symbols) /\ size \in Nat /\ E \in Nat /\ n \in Nat /\ size = E + 2 + n
      /\ bytes[E + 2] = "LF" /\ Has(bytes, E + 2, sent.body) /\ sent.body \in Seq(Symbols)
  <2>1. Len(sent.headers) \in Nat
    BY Places
  <2>2. Len(sent.headers) + 1 \in 1 .. Len(sent.headers) + 1
    BY <2>1
  <2>3. E \in Nat /\ bytes \in Seq(Symbols) /\ size \in Nat
    BY <2>2, Places
  <2> QED
    BY <2>3 DEF Given, Layout, BodyLaid, Proper
<1>2. http_request = late
  BY DEF EndStage
<1>3. Http!ContentLength = IF Http!HasContentLength THEN n ELSE 0
  BY <1>2, LengthIsKnown
<1>4. sent' = sent => late' = late
  BY DEF Late, Stored, AllParams, ParamsTo, HeadersTo
<1> HIDE DEF E, size, n, late
<1>5. CASE state = "CRLFCR" /\ end = E + 1
  <2>1. end \in Nat /\ end + 1 = E + 2 /\ end < size
    BY <1>1, <1>5
  <2>2. ch = "LF"
    BY <1>1, <2>1 DEF size
  <2>3. Http!EndOfHead(ch)
    BY <1>5, Which
  <2>4. /\ http_request' = http_request
        /\ \/ state' = "BODY" /\ start' = end + 1 /\ end' = end + 1
           \/ /\ state' = "COMPLETE" /\ start' = start /\ end' = end + 1
              /\ Http!HasContentLength /\ ~(Http!ContentLength > 0)
    <3>1. http_request' = http_request
      BY <2>3 DEF Http!EndOfHead, Http!Keeps
    <3>2. Len(bytes) > end
      BY <1>1, <2>1 DEF size
    <3> QED
      BY <2>2, <2>3, <3>1, <3>2 DEF Http!EndOfHead, Http!To, Http!BodyStart
  <2>5. CASE state' = "BODY" /\ start' = end + 1 /\ end' = end + 1
    <3>1. Within'
      <4>1. end + 1 \in 0 .. size
        BY <1>1, <2>1
      <4> QED
        BY <2>5, <4>1 DEF Within, size
    <3>2. EndStage(E)'
      <4>1. At("BODY", E + 2, E + 2)'
        <5>1. E' = E
          BY DEF E
        <5> QED
          BY <2>1, <2>5, <5>1 DEF At
      <4>2. http_request' = late'
        BY <1>2, <1>4, <2>4
      <4> QED
        BY <4>1, <4>2 DEF EndStage, late
    <3>3. EndStage(h[Len(sent.headers) + 1])'
      BY <3>2 DEF E
    <3> QED
      BY <3>1, <3>3 DEF Stage
  <2>6. CASE /\ state' = "COMPLETE" /\ start' = start /\ end' = end + 1
             /\ Http!HasContentLength /\ ~(Http!ContentLength > 0)
    <3>1. n = 0
      BY <1>1, <1>3, <2>6
    <3>2. sent.body = << >>
      BY <1>1, <3>1, EmptySeq DEF n
    <3>3. http_request' = Whole
      BY <1>2, <2>4, <3>2, EmptyBody DEF late
    <3>4. Within'
      <4>1. end + 1 \in 0 .. size
        BY <1>1, <2>1
      <4>2. start \in 0 .. size
        BY DEF Within, size
      <4> QED
        BY <2>6, <4>1, <4>2 DEF Within, size
    <3> QED
      BY <2>6, <3>3, <3>4
  <2> QED
    BY <2>4, <2>5, <2>6
<1>6. CASE At("BODY", E + 2, E + 2)
  <2>1. state = "BODY" /\ start = E + 2 /\ end = E + 2
    BY <1>6 DEF At
  <2>2. Http!Body(ch)
    BY <2>1, Which
  <2>3. Len(bytes) - start = n
    BY <1>1, <2>1 DEF size
  <2>4. /\ http_request' = [http_request EXCEPT !["body"] = SubSeq(bytes, start + 1, start + n)]
        /\ state' = (IF Http!BodyDone(n) THEN "COMPLETE" ELSE state)
        /\ end' = start + n /\ start' = start
    BY <2>2, <2>3 DEF Http!Body, Http!Stores
  <2>5. Http!BodyDone(n)
    BY <1>1, <1>3 DEF Http!BodyDone
  <2>6. SubSeq(bytes, start + 1, start + n) = sent.body
    <3>1. E + 2 \in Nat
      BY <1>1
    <3> QED
      BY <1>1, <2>1, <3>1, ReadWord DEF n
  <2>7. http_request' = Whole
    BY <1>2, <2>4, <2>6 DEF Whole, late
  <2>8. Within'
    <3>1. E + 2 \in 0 .. size /\ (E + 2) + n \in 0 .. size
      BY <1>1
    <3> QED
      BY <2>1, <2>4, <3>1 DEF Within, size
  <2> QED
    BY <2>4, <2>5, <2>7, <2>8
<1> QED
  BY <1>5, <1>6 DEF EndStage, E

-----------------------------------------------------------------------------
(***************************************************************************)
(* The inductive invariant of the parser.                                  *)
(***************************************************************************)
Laid == \E q, h : Layout(sent, q, h, bytes) /\ Stage(q, h)

HttpInv ==
    /\ Within
    /\ \/ parser = "idle" /\ asked = 0 /\ state = "START" /\ http_request = Http!NoRequest
       \/ /\ asked = 1 /\ sent \in Requests
          /\ \/ parser = "parsing" /\ Laid
             \/ /\ parser \in {"parsing", "returned"}
                /\ state = "COMPLETE" /\ http_request = Whole
             \/ parser = "idle" /\ state = "START" /\ http_request = Whole

\* Before the end the loop goes on, and the character it looks at has been read.
LEMMA StageGoes ==
    ASSUME NEW q, NEW h, Given(q, h), Within, Stage(q, h)
    PROVE  /\ Http!Goes
           /\ \/ end < Len(bytes) /\ state \notin {"CRLFCR", "BODY"}
                 /\ ((Reads(bytes[end + 1]) /\ sent' = sent) => Stage(q, h)')
              \/ EndStage(h[Len(sent.headers) + 1])
<1> DEFINE Next(q0, h0) == (Reads(bytes[end + 1]) /\ sent' = sent) => Stage(q0, h0)'
           m == Len(sent.headers)
           size == Len(bytes)
<1>1. size \in Nat /\ start \in 0 .. size /\ end \in 0 .. size
  BY Places DEF Within
<1>2. CASE \/ LineStage(q) \/ \E i \in 1 .. Len(sent.params) : ParamStage(q, i)
           \/ VersionStage(q[Len(sent.params) + 1])
           \/ \E i \in 1 .. Len(sent.headers) + 1 : LineEnds(h, i)
           \/ \E i \in 1 .. Len(sent.headers) : HeaderStage(h, i)
  <2>1. end < size /\ Next(q, h)
    <3>1. LineStage(q) => end < size /\ Next(q, h)
      BY LineReads
    <3>2. VersionStage(q[Len(sent.params) + 1]) => end < size /\ Next(q, h)
      BY VersionReads
    <3>3. ASSUME NEW i \in 1 .. Len(sent.params), ParamStage(q, i) PROVE end < size /\ Next(q, h)
      BY <3>3, ParamReads
    <3>4. ASSUME NEW i \in 1 .. Len(sent.headers) + 1, LineEnds(h, i) PROVE end < size /\ Next(q, h)
      BY <3>4, LineEndReads
    <3>5. ASSUME NEW i \in 1 .. Len(sent.headers), HeaderStage(h, i) PROVE end < size /\ Next(q, h)
      BY <3>5, HeaderReads
    <3> HIDE DEF Next, size
    <3> QED
      BY <1>2, <3>1, <3>2, <3>3, <3>4, <3>5
  <2>2. state \notin {"CRLFCR", "BODY", "COMPLETE", "INVAILD"}
    <3>1. LineStage(q) => state \notin {"CRLFCR", "BODY", "COMPLETE", "INVAILD"}
      BY DEF LineStage, At, Reading
    <3>2. VersionStage(q[Len(sent.params) + 1]) => state \notin {"CRLFCR", "BODY", "COMPLETE", "INVAILD"}
      BY DEF VersionStage, At
    <3>3. \A i : ParamStage(q, i) => state \notin {"CRLFCR", "BODY", "COMPLETE", "INVAILD"}
      BY DEF ParamStage, At, Reading
    <3>4. \A i : LineEnds(h, i) => state \notin {"CRLFCR", "BODY", "COMPLETE", "INVAILD"}
      BY DEF LineEnds, At
    <3>5. \A i : HeaderStage(h, i) => state \notin {"CRLFCR", "BODY", "COMPLETE", "INVAILD"}
      BY DEF HeaderStage, SeparatorStage, Reading
    <3> QED
      BY <1>2, <3>1, <3>2, <3>3, <3>4, <3>5
  <2>3. end - start < Len(bytes)
    <3>1. end - start < size
      <4> HIDE DEF size, Next
      <4> QED
        BY <1>1, <2>1
    <3> QED
      BY <3>1
  <2> QED
    BY <2>1, <2>2, <2>3 DEF Http!Goes
<1>3. CASE EndStage(h[m + 1])
  <2> DEFINE E == h[m + 1]
  <2>1. E \in Nat /\ E + 2 <= size
    <3>1. m \in Nat
      BY Places
    <3>2. m + 1 \in 1 .. m + 1
      BY <3>1
    <3> QED
      BY <3>2, Places
  <2>2. \/ state = "CRLFCR" /\ end = E + 1
        \/ state = "BODY" /\ start = E + 2 /\ end = E + 2
    BY <1>3 DEF EndStage, At
  <2> HIDE DEF E, size
  <2>3. end - start < size
    BY <1>1, <2>1, <2>2
  <2> QED
    BY <1>3, <2>2, <2>3 DEF Http!Goes, size
<1> QED
  BY <1>2, <1>3 DEF Stage

\* The same with the places of the parts left open.
LEMMA LaidGoes == ASSUME HttpInv, parser = "parsing", state # "COMPLETE" PROVE Http!Goes
<1>1. sent \in Requests /\ Laid /\ Within
  BY DEF HttpInv
<1>2. PICK q, h : Layout(sent, q, h, bytes) /\ Stage(q, h)
  BY <1>1 DEF Laid
<1>3. Given(q, h)
  BY <1>1, <1>2, RequestIs DEF Given
<1> QED
  BY <1>1, <1>2, <1>3, StageGoes

LEMMA IterateStep == ASSUME HttpInv, Http!Iterate PROVE HttpInv'
<1>1. parser = "parsing" /\ state # "COMPLETE" /\ UNCHANGED <<bytes, parser, sent, asked>>
  BY DEF Http!Iterate, Http!Goes
<1>2. sent \in Requests /\ Laid /\ Within /\ asked = 1
  BY <1>1 DEF HttpInv
<1>3. PICK q, h : Layout(sent, q, h, bytes) /\ Stage(q, h)
  BY <1>2 DEF Laid
<1>4. Given(q, h)
  BY <1>2, <1>3, RequestIs DEF Given
<1>5. PICK ch \in Http!CharsAt(end) : Reads(ch)
  BY DEF Http!Iterate, Reads
<1>6. end < Len(bytes) => ch = bytes[end + 1]
  BY <1>5 DEF Http!CharsAt
<1>7. Within' /\ (Stage(q, h)' \/ (state' = "COMPLETE" /\ http_request' = Whole))
  <2>1. CASE EndStage(h[Len(sent.headers) + 1])
    BY <1>1, <1>2, <1>4, <1>5, <1>6, <2>1, EndReads
  <2>2. CASE /\ end < Len(bytes) /\ state \notin {"CRLFCR", "BODY"}
             /\ (Reads(bytes[end + 1]) /\ sent' = sent) => Stage(q, h)'
    <3>1. Stage(q, h)'
      BY <1>1, <1>5, <1>6, <2>2
    <3>2. end' = end + 1 /\ start' \in {start, end}
      BY <1>5, <2>2, Moves
    <3>3. Within'
      <4> DEFINE size == Len(bytes)
      <4>1. size \in Nat /\ start \in 0 .. size /\ end \in 0 .. size /\ end < size
        BY <1>2, <1>4, <2>2, Places DEF Within
      <4> HIDE DEF size
      <4>2. start' \in 0 .. size /\ end' \in 0 .. size
        BY <3>2, <4>1
      <4> QED
        BY <1>1, <4>2 DEF Within, size
    <3> QED
      BY <3>1, <3>3
  <2>3. \/ EndStage(h[Len(sent.headers) + 1])
        \/ /\ end < Len(bytes) /\ state \notin {"CRLFCR", "BODY"}
           /\ (Reads(bytes[end + 1]) /\ sent' = sent) => Stage(q, h)'
    BY <1>2, <1>3, <1>4, StageGoes
  <2> QED
    BY <2>1, <2>2, <2>3
<1>8. CASE Stage(q, h)'
  <2>1. Layout(sent, q, h, bytes)'
    BY <1>1, <1>3
  <2>2. Laid'
    BY <1>8, <2>1 DEF Laid
  <2> QED
    BY <1>1, <1>2, <1>7, <2>2 DEF HttpInv
<1>9. CASE state' = "COMPLETE" /\ http_request' = Whole
  <2>1. Whole' = Whole
    BY <1>1 DEF Whole, Late, Stored, AllParams, ParamsTo, HeadersTo
  <2> QED
    BY <1>1, <1>2, <1>7, <1>9, <2>1 DEF HttpInv
<1> QED
  BY <1>7, <1>8, <1>9

LEMMA ParaseStep ==
    ASSUME HttpInv, NEW r \in Requests, NEW n \in 1 .. Len(Http!MessageOf(r)), Http!ParaseRequest(r, n)
    PROVE  HttpInv'
<1> DEFINE all == Http!MessageOf(r)
<1>1. /\ parser = "idle" /\ asked < 1 /\ n = Len(all)
      /\ bytes' = SubSeq(all, 1, n) /\ sent' = r /\ asked' = asked + 1
      /\ start' = 0 /\ end' = 0 /\ vers' = << >> /\ parser' = "parsing"
      /\ state' = state /\ http_request' = http_request
  BY DEF Http!ParaseRequest
<1>2. asked = 0 /\ state = "START" /\ http_request = Http!NoRequest
  BY <1>1 DEF HttpInv
<1>3. Proper(r)
  BY RequestIs
<1>4. PICK q, h : Layout(r, q, h, all)
  BY <1>3, MessageLaid
<1>5. all \in Seq(Symbols) /\ Len(all) \in Nat
  BY <1>4, LenProperties DEF Layout
<1> HIDE DEF all
<1>6. bytes' = all
  <2>1. Has(all, 0, all)
    BY <1>5, HasIt
  <2>2. SubSeq(all, 0 + 1, 0 + Len(all)) = all
    BY <1>5, <2>1, ReadWord
  <2>3. 0 + 1 = 1 /\ 0 + Len(all) = Len(all)
    BY <1>5
  <2> QED
    BY <1>1, <2>2, <2>3
<1>7. LineStage(q)'
  BY <1>1, <1>2 DEF LineStage, At, Http!NoRequest
<1>8. Layout(sent, q, h, bytes)'
  BY <1>1, <1>4, <1>6
<1>9. Laid'
  BY <1>7, <1>8 DEF Laid, Stage
<1>10. Within'
  BY <1>1, <1>5, <1>6 DEF Within
<1> QED
  BY <1>1, <1>2, <1>9, <1>10 DEF HttpInv

LEMMA HttpStep == ASSUME HttpInv, Http!Next PROVE HttpInv'
<1>1. ASSUME NEW r \in Requests, NEW n \in 1 .. Len(Http!MessageOf(r)), Http!ParaseRequest(r, n)
      PROVE  HttpInv'
  BY <1>1, ParaseStep
<1>2. CASE Http!Iterate
  BY <1>2, IterateStep
<1>3. CASE Http!Return
  <2>1. /\ parser = "parsing" /\ ~Http!Goes /\ parser' = "returned"
        /\ state' = state /\ http_request' = http_request /\ sent' = sent /\ asked' = asked
        /\ bytes' = bytes /\ start' = start /\ end' = end
    BY <1>3 DEF Http!Return, Http!local
  <2>2. state = "COMPLETE"
    BY <2>1, LaidGoes
  <2>3. asked = 1 /\ sent \in Requests /\ http_request = Whole /\ Within
    <3>1. ~Laid
      <4>1. ASSUME NEW q, NEW h, Stage(q, h) PROVE FALSE
        BY <2>2, <4>1 DEF Stage, LineStage, ParamStage, VersionStage, LineEnds, HeaderStage,
                          SeparatorStage, EndStage, At, Reading
      <4> QED
        BY <4>1 DEF Laid
    <3> QED
      BY <2>1, <2>2, <3>1 DEF HttpInv
  <2>4. Whole' = Whole
    BY <2>1 DEF Whole, Late, Stored, AllParams, ParamsTo, HeadersTo
  <2>5. Within'
    BY <2>1, <2>3 DEF Within
  <2> QED
    BY <2>1, <2>2, <2>3, <2>4, <2>5 DEF HttpInv
<1>4. CASE Http!OnHttpRequest
  <2>1. /\ parser = "returned"
        /\ state' = (IF state = "COMPLETE" THEN "START" ELSE state)
        /\ parser' = (IF state \in {"COMPLETE", "BODY"} THEN "idle" ELSE "closed")
        /\ http_request' = http_request /\ sent' = sent /\ asked' = asked
        /\ bytes' = bytes /\ start' = start /\ end' = end
    BY <1>4 DEF Http!OnHttpRequest, Http!local
  <2>2. asked = 1 /\ sent \in Requests /\ http_request = Whole /\ Within /\ state = "COMPLETE"
    BY <2>1 DEF HttpInv
  <2>3. Whole' = Whole
    BY <2>1 DEF Whole, Late, Stored, AllParams, ParamsTo, HeadersTo
  <2>4. Within'
    BY <2>1, <2>2 DEF Within
  <2> QED
    BY <2>1, <2>2, <2>3, <2>4 DEF HttpInv
<1> QED
  BY <1>1, <1>2, <1>3, <1>4 DEF Http!Next

LEMMA HttpStutter == ASSUME HttpInv, UNCHANGED httpVars PROVE HttpInv'
<1>1. /\ state' = state /\ http_request' = http_request /\ bytes' = bytes /\ start' = start
      /\ end' = end /\ key' = key /\ vers' = vers /\ parser' = parser /\ sent' = sent
      /\ asked' = asked
  BY DEF httpVars
<1>2. Whole' = Whole
  BY <1>1 DEF Whole, Late, Stored, AllParams, ParamsTo, HeadersTo
<1>3. Within' = Within
  BY <1>1 DEF Within
<1>4. Laid => Laid'
  <2> SUFFICES ASSUME NEW q, NEW h, Layout(sent, q, h, bytes), Stage(q, h) PROVE Laid'
    BY DEF Laid
  <2>1. Layout(sent, q, h, bytes)'
    BY <1>1
  <2>2. Stage(q, h)'
    <3>1. LineStage(q) => LineStage(q)'
      BY <1>1 DEF LineStage, At, Reading, Early, Stored
    <3>2. \A i : ParamStage(q, i) => ParamStage(q, i)'
      BY <1>1 DEF ParamStage, At, Reading, Early, Stored, ParamsTo
    <3>3. VersionStage(q[Len(sent.params) + 1]) => VersionStage(q[Len(sent.params) + 1])'
      BY <1>1 DEF VersionStage, At, Early, Stored, AllParams, ParamsTo
    <3>4. \A i : LineEnds(h, i) => LineEnds(h, i)'
      BY <1>1 DEF LineEnds, At, Late, Stored, AllParams, ParamsTo, HeadersTo
    <3>5. \A i : HeaderStage(h, i) => HeaderStage(h, i)'
      BY <1>1 DEF HeaderStage, SeparatorStage, Reading, Late, Stored, AllParams, ParamsTo, HeadersTo
    <3>6. EndStage(h[Len(sent.headers) + 1]) => EndStage(h[Len(sent.headers) + 1])'
      BY <1>1 DEF EndStage, At, Late, Stored, AllParams, ParamsTo, HeadersTo
    <3> QED
      BY <1>1, <3>1, <3>2, <3>3, <3>4, <3>5, <3>6 DEF Stage
  <2> QED
    BY <2>1, <2>2 DEF Laid
<1> QED
  BY <1>1, <1>2, <1>3, <1>4 DEF HttpInv

LEMMA HttpAlways == MCSpec => []HttpInv
<1>1. MCInit => HttpInv
  <2>1. Len(<< >>) = 0
    BY EmptySeq
  <2> QED
    BY <2>1 DEF MCInit, PartsInit, Http!Init, HttpInv, Within
<1>2. HttpInv /\ [MCNext]_allVars => HttpInv'
  <2> SUFFICES ASSUME HttpInv, [MCNext]_allVars PROVE HttpInv'
    OBVIOUS
  <2>1. CASE HttpPart(Http!Next)
    BY <2>1, HttpStep DEF HttpPart
  <2>2. BufferPart(InputNext) \/ BufferPart(KeyboardNext) \/ ReplyPart(Output!Next)
           \/ UNCHANGED allVars => UNCHANGED httpVars
    BY DEF BufferPart, ReplyPart, allVars
  <2> QED
    BY <2>1, <2>2, HttpStutter DEF MCNext
<1> QED
  BY <1>1, <1>2, PTL DEF MCSpec

\* For every set of requests that are written as clients write them, HTTP 1.0 apart: the
\* request handed over is the one that was sent, in its method, address, parameters,
\* version, headers and body, and the loop of ParaseRequest looks at no byte beyond what
\* was read (HttpContext.cpp:10-223).
THEOREM RequestsAreParsed == MCSpec => []RequestsParsed
<1>1. HttpInv => RequestsParsed
  <2> SUFFICES ASSUME HttpInv PROVE RequestsParsed
    OBVIOUS
  <2>1. ASSUME parser = "returned" PROVE Http!ParsedAsSent
    <3> DEFINE m == Http!SetMethod(sent.method)
               vn == Http!SetVersion(sent.version)
               hs == HeadersTo(Len(sent.headers))
               ps == AllParams
    <3>1. state = "COMPLETE" /\ http_request = Whole /\ sent \in Requests
      BY <2>1 DEF HttpInv
    <3>2. Proper(sent)
      BY <3>1, RequestIs
    <3>3. http_request = [method |-> m, url |-> sent.url, params |-> ps, protocol |-> <<"HTTP">>,
                          version |-> vn, headers |-> hs, body |-> sent.body]
      <4>1. Late(hs) = [method |-> m, url |-> sent.url, params |-> ps, protocol |-> <<"HTTP">>,
                        version |-> vn, headers |-> hs, body |-> << >>]
        BY DEF Late, Stored
      <4> HIDE DEF m, ps, vn, hs
      <4>2. [Late(hs) EXCEPT !["body"] = sent.body]
              = [method |-> m, url |-> sent.url, params |-> ps, protocol |-> <<"HTTP">>,
                 version |-> vn, headers |-> hs, body |-> sent.body]
        <5> DEFINE r == Late(hs)
                   u == sent.url
                   pr == <<"HTTP">>
                   x == sent.body
        <5>1. r = [method |-> m, url |-> u, params |-> ps, protocol |-> pr, version |-> vn,
                   headers |-> hs, body |-> << >>]
          BY <4>1
        <5> HIDE DEF r, u, pr, x
        <5>2. [r EXCEPT !["body"] = x] = [method |-> m, url |-> u, params |-> ps, protocol |-> pr,
                   version |-> vn, headers |-> hs, body |-> x]
          BY <5>1, FieldStored, SMTT(30)
        <5> QED
          BY <5>2 DEF r, u, pr, x
      <4> QED
        BY <3>1, <4>2 DEF Whole, hs
    <3>4. m = IF sent.method[1] \in Http!Methods THEN sent.method[1] ELSE "INVAILD"
      <4>1. PICK x \in Http!Upper : sent.method = <<x>>
        BY <3>2 DEF Proper
      <4>2. sent.method[1] = x
        BY <4>1
      <4>3. sent.method \in {<<y>> : y \in Http!Methods} <=> x \in Http!Methods
        <5>1. \A y : <<x>> = <<y>> => x = y
          OBVIOUS
        <5> QED
          BY <4>1, <5>1
      <4> QED
        BY <4>2, <4>3 DEF Http!SetMethod
    <3>5. vn = Http!Meant(sent.version)
      <4>1. sent.version # <<"1", ".", "0">>
        BY <3>2 DEF Proper, ProperVersion
      <4> QED
        BY <4>1 DEF Http!SetVersion, Http!Meant
    <3>6. ps = Http!MapOf(sent.params, 1, 2) /\ hs = Http!MapOf(sent.headers, 1, 3)
      BY MapOfIs DEF AllParams, ParamsTo, HeadersTo
    <3> HIDE DEF m, vn, ps, hs
    <3> QED
      BY <3>1, <3>3, <3>4, <3>5, <3>6 DEF Http!ParsedAsSent
  <2>2. Http!ReadsInsideInput
    <3>1. Len(bytes) \in Nat /\ end \in 0 .. Len(bytes)
      BY DEF HttpInv, Within
    <3> QED
      BY <3>1 DEF Http!ReadsInsideInput
  <2> QED
    BY <2>1, <2>2 DEF RequestsParsed, Http!ParsedAsSent
<1> QED
  BY <1>1, HttpAlways, PTL

-----------------------------------------------------------------------------
(***************************************************************************)
(* The types of the three parts.                                           *)
(***************************************************************************)

\* Bytes of the first n replies
BytesTo(n) == [reply : 1 .. n, part : {"head", "body", "stale"}, at : Nat]

Made ==
    /\ got \in Seq(BytesTo(Len(request)))
    /\ socket \in Seq(BytesTo(Len(request)))
    /\ queued \in Seq(BytesTo(Len(request)))

LEMMA PartsMade ==
    ASSUME NEW n \in Nat, NEW r \in 1 .. n
    PROVE  /\ Output!PreBody(r) \in Seq(BytesTo(n))
           /\ \A from \in Nat : \A m \in Nat : Output!Body(r, from, m) \in Seq(BytesTo(n))
<1>1. Output!PreBody(r) \in Seq(BytesTo(n))
  BY DEF Output!PreBody, Output!Byte, BytesTo
<1>2. ASSUME NEW from \in Nat, NEW m \in Nat PROVE Output!Body(r, from, m) \in Seq(BytesTo(n))
  <2> DEFINE body == [k \in 1 .. m |-> Output!Byte(r, "body", from + k)]
  <2>1. body \in [1 .. m -> BytesTo(n)]
    BY DEF Output!Byte, BytesTo
  <2> HIDE DEF body
  <2>2. body \in Seq(BytesTo(n))
    BY <2>1, FunctionIsSeqOf
  <2> QED
    BY <2>2 DEF Output!Body, body
<1> QED
  BY <1>1, <1>2

\* Bytes of some replies are bytes of more.
LEMMA MadeMore ==
    ASSUME NEW n \in Nat, NEW s \in Seq(BytesTo(n))
    PROVE  s \in Seq(BytesTo(n + 1))
<1>1. BytesTo(n) \subseteq BytesTo(n + 1)
  BY DEF BytesTo
<1>2. Len(s) \in Nat /\ s \in [1 .. Len(s) -> BytesTo(n)]
  BY LenProperties
<1>3. s \in [1 .. Len(s) -> BytesTo(n + 1)]
  BY <1>1, <1>2
<1> QED
  BY <1>2, <1>3, FunctionIsSeqOf

LEMMA MadeStep == ASSUME StreamInv, Made, Output!Next PROVE Made'
<1> DEFINE c == Len(request)
           T == BytesTo(c)
<1>1. ReplyTypes /\ Closing
  BY DEF StreamInv
<1>2. got \in Seq(T) /\ socket \in Seq(T) /\ queued \in Seq(T) /\ c \in Nat
      /\ Len(socket) \in Nat /\ Len(queued) \in Nat
  BY <1>1, ReplyFacts DEF Made
<1>3. ASSUME NEW s \in Seq(T), NEW n \in 0 .. Len(s)
      PROVE  SubSeq(s, 1, n) \in Seq(T) /\ SubSeq(s, n + 1, Len(s)) \in Seq(T)
  BY Split
<1>4. ASSUME NEW s \in Seq(T), NEW t \in Seq(T) PROVE s \o t \in Seq(T)
  BY ConcatProperties
<1>5. pc # "idle" => /\ c \in 1 .. c /\ c \in 1 .. Len(request)
                     /\ request[c].size \in Nat
                     /\ Output!PreBody(c) \in Seq(T)
                     /\ \A from \in Nat : \A m \in Nat : Output!Body(c, from, m) \in Seq(T)
  <2> SUFFICES ASSUME pc # "idle" PROVE
          /\ c \in 1 .. c /\ c \in 1 .. Len(request)
          /\ request[c].size \in Nat
          /\ Output!PreBody(c) \in Seq(T)
          /\ \A from \in Nat : \A m \in Nat : Output!Body(c, from, m) \in Seq(T)
    OBVIOUS
  <2>1. c \in 1 .. c
    BY <1>1, <1>2 DEF Closing
  <2> QED
    BY <1>1, <1>2, <2>1, ReplyFacts, PartsMade
<1>6. ASSUME UNCHANGED request, got' \in Seq(T), socket' \in Seq(T), queued' \in Seq(T)
      PROVE  Made'
  BY <1>6 DEF Made
<1> HIDE DEF T
<1>7. ASSUME NEW reply \in Output!ReplyRecords, Output!Request(reply) PROVE Made'
  <2>1. UNCHANGED <<got, socket, queued>> /\ Len(request') = c + 1
    <3>1. request \in Seq(Output!ReplyRecords) /\ request' = Append(request, reply)
          /\ UNCHANGED <<got, socket, queued>>
      BY <1>1, <1>7 DEF Output!Request, Output!buffer, ReplyTypes
    <3> QED
      BY <3>1, AppendProperties
  <2> HIDE DEF c
  <2>2. \A s \in Seq(T) : s \in Seq(BytesTo(c + 1))
    BY <1>2, MadeMore DEF T
  <2> QED
    BY <1>2, <2>1, <2>2 DEF Made
<1>8. CASE Output!ClientReads
  <2>1. PICK n \in 1 .. Len(socket) : /\ got' = got \o SubSeq(socket, 1, n)
                                     /\ socket' = SubSeq(socket, n + 1, Len(socket))
    BY <1>8 DEF Output!ClientReads
  <2>2. n \in 0 .. Len(socket) /\ UNCHANGED <<request, queued>>
    BY <1>2, <1>8 DEF Output!ClientReads, Output!buffer
  <2> QED
    BY <1>2, <1>3, <1>4, <1>6, <2>1, <2>2
<1>9. CASE Output!Send
  <2> DEFINE data == IF request[c].type = "HTML_TYPE"
                     THEN Output!PreBody(c) \o Output!Body(c, 0, request[c].size)
                     ELSE Output!PreBody(c)
             n == IF queued = <<>> THEN Output!Taken(Len(data)) ELSE 0
  <2>1. /\ pc = "send" /\ UNCHANGED <<request, got>>
        /\ socket' = socket \o SubSeq(data, 1, n)
        /\ Output!AppendOutput(SubSeq(data, n + 1, Len(data)))
    BY Zenon, <1>9 DEF Output!Send, Output!Current, Output!WritesAtOnce
  <2>2. data \in Seq(T)
    <3>1. Output!PreBody(c) \in Seq(T) /\ Output!Body(c, 0, request[c].size) \in Seq(T)
      BY <1>5, <2>1
    <3> QED
      BY <1>4, <3>1
  <2> HIDE DEF data
  <2>3. Len(data) \in Nat
    BY <2>2, LenProperties
  <2>4. n \in 0 .. Len(data)
    BY <1>1, <2>3, TakenIs
  <2> HIDE DEF n
  <2>5. SubSeq(data, 1, n) \in Seq(T) /\ SubSeq(data, n + 1, Len(data)) \in Seq(T)
    BY <1>3, <2>2, <2>4
  <2>6. \A m \in Nat : Output!Stale(m) \in Seq(T)
    <3>1. c \in 1 .. c
      BY <1>5, <2>1
    <3>2. \A k \in Nat : Output!Byte(c, "stale", k) \in T
      BY <3>1 DEF Output!Byte, BytesTo, T
    <3> QED
      BY <3>2, StaleIs
  <2>7. read_index \in Nat /\ buffer_size \in Nat /\ compacted \in BOOLEAN
    BY <1>1 DEF ReplyTypes
  <2>8. queued' \in Seq(T)
    <3> DEFINE rest == SubSeq(data, n + 1, Len(data))
    <3>1. rest \in Seq(T) /\ Output!AppendOutput(rest)
      BY <2>1, <2>5
    <3> HIDE DEF rest
    <3> QED
      BY <1>2, <2>6, <2>7, <3>1, AppendOutputIs
  <2> QED
    BY <1>2, <1>4, <1>6, <2>1, <2>5, <2>8
<1>10. CASE Output!SendFile
  <2> DEFINE n == Output!Taken(request[c].size - send_size)
  <2>1. /\ pc = "sendfile" /\ send_size < request[c].size
        /\ socket' = socket \o Output!Body(c, send_size, n)
        /\ UNCHANGED <<request, queued, got>>
    BY Zenon, <1>10 DEF Output!SendFile, Output!Current, Output!buffer
  <2>2. send_size \in Nat /\ request[c].size \in Nat /\ n \in Nat
    <3>1. send_size \in Nat /\ request[c].size \in Nat
      BY <1>1, <1>5, <2>1 DEF ReplyTypes
    <3>2. request[c].size - send_size \in Nat
      BY <2>1, <3>1
    <3>3. n \in Nat
      <4> DEFINE left == request[c].size - send_size
      <4>1. left \in Nat
        BY <3>2
      <4> HIDE DEF left
      <4>2. Output!Taken(left) \in 0 .. left
        BY <1>1, <4>1, TakenIs
      <4>3. Output!Taken(left) \in Nat
        BY <4>1, <4>2
      <4> QED
        BY <4>3 DEF left
    <3> QED
      BY <3>1, <3>3
  <2> HIDE DEF n
  <2> QED
    BY <1>2, <1>4, <1>5, <1>6, <2>1, <2>2
<1>11. CASE Output!SendFileReturns
  BY <1>2, <1>6, <1>11 DEF Output!SendFileReturns, Output!buffer
<1>12. CASE Output!EndReply
  <2>1. UNCHANGED <<request, socket, got>> /\ (queued' = queued \/ queued' = <<>>)
    BY <1>12 DEF Output!EndReply
  <2>2. <<>> \in Seq(T)
    BY EmptySeq
  <2> QED
    BY <1>2, <1>6, <2>1, <2>2
<1>13. CASE Output!WriteNonBlocking
  <2> DEFINE n == Output!Taken(Len(queued))
  <2>1. UNCHANGED <<request, got>> /\ \/ UNCHANGED <<socket, queued>>
                                      \/ /\ socket' = socket \o SubSeq(queued, 1, n)
                                         /\ queued' = SubSeq(queued, n + 1, Len(queued))
    BY Zenon, <1>13 DEF Output!WriteNonBlocking, Output!Left
  <2>2. n \in 0 .. Len(queued)
    BY <1>1, <1>2, TakenIs
  <2> HIDE DEF n
  <2> QED
    BY <1>2, <1>3, <1>4, <1>6, <2>1, <2>2
<1> QED
  BY <1>7, <1>8, <1>9, <1>10, <1>11, <1>12, <1>13 DEF Output!Next, Output!ServerStep

LEMMA MadeIsTyped == ASSUME StreamInv, Made PROVE Output!TypeOK
<1>1. ReplyTypes
  BY DEF StreamInv
<1>2. ASSUME NEW s \in {queued, socket, got}, NEW k \in DOMAIN s
      PROVE  s[k].reply \in 1 .. Len(request) /\ s[k].part \in {"head", "body", "stale"}
  <2>1. s \in Seq(BytesTo(Len(request)))
    BY DEF Made
  <2>2. s[k] \in BytesTo(Len(request))
    BY <2>1, ElementOfSeq, LenProperties
  <2> QED
    BY <2>2 DEF BytesTo
<1>3. {writing, closed, cut, compacted} \subseteq BOOLEAN
  BY <1>1 DEF ReplyTypes
<1> QED
  BY <1>1, <1>2, <1>3 DEF ReplyTypes, Output!TypeOK, Output!Current

\* The conversions of HttpRequest have their values in the enumerations.
LEMMA Converted ==
    ASSUME NEW text
    PROVE  /\ Http!SetMethod(text) \in Http!Methods \cup {"INVAILD"}
           /\ Http!SetVersion(text) \in {"HTTP_11", "INVAILD_VERSION"}
<1>1. ASSUME NEW m, text = <<m>> PROVE text[1] = m
  BY <1>1
<1>2. text \in {<<m>> : m \in Http!Methods} => text[1] \in Http!Methods
  BY <1>1
<1> QED
  BY <1>2 DEF Http!SetMethod, Http!SetVersion

HttpTyped ==
    /\ state \in Http!States
    /\ DOMAIN http_request = DOMAIN Http!NoRequest
    /\ http_request.method \in Http!Methods \cup {"INVAILD"}
    /\ http_request.version \in {"HTTP_11", "INVAILD_VERSION"}
    /\ parser \in {"idle", "parsing", "returned", "closed"}
    /\ asked \in 0 .. 1

\* What a step does to http_request: nothing, or one field is stored.
FitsField(field, x) ==
    /\ field = "method" => x \in Http!Methods \cup {"INVAILD"}
    /\ field = "version" => x \in {"HTTP_11", "INVAILD_VERSION"}

OneStored ==
    \/ http_request' = http_request
    \/ \E field \in DOMAIN Http!NoRequest : \E x :
          FitsField(field, x) /\ http_request' = [http_request EXCEPT ![field] = x]

LEMMA OneStoredTyped ==
    ASSUME HttpTyped, OneStored
    PROVE  /\ DOMAIN http_request' = DOMAIN Http!NoRequest
           /\ http_request'.method \in Http!Methods \cup {"INVAILD"}
           /\ http_request'.version \in {"HTTP_11", "INVAILD_VERSION"}
<1>1. DOMAIN http_request = DOMAIN Http!NoRequest
      /\ "method" \in DOMAIN http_request /\ "version" \in DOMAIN http_request
  BY DEF HttpTyped, Http!NoRequest
<1>2. CASE http_request' = http_request
  BY <1>2 DEF HttpTyped
<1>3. CASE http_request' # http_request
  <2>1. PICK field \in DOMAIN Http!NoRequest : \E x :
            FitsField(field, x) /\ http_request' = [http_request EXCEPT ![field] = x]
    BY <1>3 DEF OneStored
  <2>2. PICK x : FitsField(field, x) /\ http_request' = [http_request EXCEPT ![field] = x]
    BY <2>1
  <2>3. /\ DOMAIN http_request' = DOMAIN http_request
        /\ \A f \in DOMAIN http_request : http_request'[f] = IF f = field THEN x ELSE http_request[f]
    BY <2>2
  <2>4. http_request'["method"] = IF field = "method" THEN x ELSE http_request["method"]
    BY <1>1, <2>3
  <2>5. http_request'["version"] = IF field = "version" THEN x ELSE http_request["version"]
    BY <1>1, <2>3
  <2> QED
    BY <1>1, <2>2, <2>3, <2>4, <2>5 DEF HttpTyped, FitsField
<1> QED
  BY <1>2, <1>3

LEMMA ReadStores ==
    ASSUME NEW ch,
           \/ Http!RequestLine(ch) \/ Http!Params(ch) \/ Http!Protocol(ch)
           \/ Http!Headers(ch) \/ Http!EndOfHead(ch) \/ Http!Body(ch)
    PROVE  OneStored
<1> DEFINE Plain == {"url", "params", "protocol", "headers", "body"}
           Other == \E f \in Plain : \E x : http_request' = [http_request EXCEPT ![f] = x]
           Method == \E text : http_request' = [http_request EXCEPT !["method"] = Http!SetMethod(text)]
           Version == \E text : http_request' = [http_request EXCEPT !["version"] = Http!SetVersion(text)]
<1>1. /\ \A f \in Plain : f \in DOMAIN Http!NoRequest /\ f # "method" /\ f # "version"
      /\ "method" \in DOMAIN Http!NoRequest /\ "version" \in DOMAIN Http!NoRequest
  BY DEF Http!NoRequest
<1>2. Other => OneStored
  <2> SUFFICES ASSUME NEW f \in Plain, NEW x, http_request' = [http_request EXCEPT ![f] = x]
               PROVE  OneStored
    OBVIOUS
  <2>1. FitsField(f, x)
    BY <1>1 DEF FitsField
  <2> QED
    BY <1>1, <2>1 DEF OneStored
<1>3. Method => OneStored
  <2> SUFFICES ASSUME NEW text,
                      http_request' = [http_request EXCEPT !["method"] = Http!SetMethod(text)]
               PROVE  OneStored
    OBVIOUS
  <2>1. FitsField("method", Http!SetMethod(text))
    BY Converted DEF FitsField
  <2> QED
    BY <1>1, <2>1 DEF OneStored
<1>4. Version => OneStored
  <2> SUFFICES ASSUME NEW text,
                      http_request' = [http_request EXCEPT !["version"] = Http!SetVersion(text)]
               PROVE  OneStored
    OBVIOUS
  <2>1. FitsField("version", Http!SetVersion(text))
    BY Converted DEF FitsField
  <2> QED
    BY <1>1, <2>1 DEF OneStored
<1>5. Http!RequestLine(ch) => http_request' = http_request \/ Other \/ Method
  BY DEF Http!RequestLine, Http!Stores, Http!Keeps
<1>6. ASSUME NEW f \in {"params", "headers"}, NEW k, NEW v, http_request' = Http!With(f, k, v)
      PROVE  Other
  BY <1>6 DEF Http!With
<1>7. Http!Params(ch) => http_request' = http_request \/ Other
  <2> HIDE DEF Other
  <2>1. Http!Params(ch) =>
           \/ http_request' = http_request
           \/ http_request' = Http!With("params", Http!Text, << >>)
           \/ http_request' = Http!With("params", key, Http!Text)
    BY DEF Http!Params, Http!ValueStarts, Http!Stores, Http!Keeps
  <2> QED
    BY <1>6, <2>1
<1>8. Http!Headers(ch) => http_request' = http_request \/ Other
  <2> HIDE DEF Other
  <2>1. Http!Headers(ch) =>
           \/ http_request' = http_request
           \/ http_request' = Http!With("headers", Http!Text, << >>)
           \/ http_request' = Http!With("headers", key, Http!Text)
    BY DEF Http!Headers, Http!Stores, Http!Keeps
  <2> QED
    BY <1>6, <2>1
<1>9. Http!Protocol(ch) => http_request' = http_request \/ Other \/ Version
  BY DEF Http!Protocol, Http!Stores, Http!Keeps
<1>10. Http!EndOfHead(ch) => http_request' = http_request
  BY DEF Http!EndOfHead, Http!Keeps
<1>11. Http!Body(ch) => Other
  BY DEF Http!Body, Http!Stores
<1>12. http_request' = http_request => OneStored
  BY DEF OneStored
<1> HIDE DEF Other, Method, Version
<1> QED
  BY <1>2, <1>3, <1>4, <1>5, <1>7, <1>8, <1>9, <1>10, <1>11, <1>12

LEMMA ReadMoves ==
    ASSUME HttpTyped, NEW ch,
           \/ Http!RequestLine(ch) \/ Http!Params(ch) \/ Http!Protocol(ch)
           \/ Http!Headers(ch) \/ Http!EndOfHead(ch) \/ Http!Body(ch)
    PROVE  state' \in Http!States
<1>1. Http!RequestLine(ch) => state' \in Http!States
  BY DEF HttpTyped, Http!RequestLine, Http!To, Http!States
<1>2. Http!Params(ch) => state' \in Http!States
  BY DEF HttpTyped, Http!Params, Http!ValueStarts, Http!To, Http!States
<1>3. Http!Protocol(ch) => state' \in Http!States
  BY DEF HttpTyped, Http!Protocol, Http!To, Http!States
<1>4. Http!Headers(ch) => state' \in Http!States
  BY DEF HttpTyped, Http!Headers, Http!To, Http!States
<1>5. Http!EndOfHead(ch) \/ Http!Body(ch) => state' \in Http!States
  BY DEF HttpTyped, Http!EndOfHead, Http!Body, Http!To, Http!States
<1> QED
  BY <1>1, <1>2, <1>3, <1>4, <1>5

LEMMA HttpTypedStep == ASSUME HttpTyped, Http!Next PROVE HttpTyped'
<1>1. ASSUME NEW r \in Requests, NEW n \in 1 .. Len(Http!MessageOf(r)), Http!ParaseRequest(r, n)
      PROVE  HttpTyped'
  BY <1>1 DEF HttpTyped, Http!ParaseRequest
<1>2. CASE Http!Iterate
  <2>1. UNCHANGED <<parser, asked>> /\ state' \in Http!States /\ OneStored
    BY <1>2, ReadMoves, ReadStores DEF Http!Iterate
  <2> QED
    BY <2>1, OneStoredTyped DEF HttpTyped
<1>3. CASE Http!Return \/ Http!OnHttpRequest
  BY <1>3 DEF HttpTyped, Http!Return, Http!OnHttpRequest, Http!States
<1> QED
  BY <1>1, <1>2, <1>3 DEF Http!Next

LEMMA TypesAlways == MCSpec => [](Made /\ HttpTyped)
<1>1. MCInit => Made /\ HttpTyped
  <2> SUFFICES ASSUME MCInit PROVE Made /\ HttpTyped
    OBVIOUS
  <2>1. <<>> \in Seq(BytesTo(Len(request)))
    BY EmptySeq
  <2>2. Made
    BY <2>1 DEF MCInit, PartsInit, Output!Init, Made
  <2>3. HttpTyped
    BY DEF MCInit, PartsInit, Http!Init, HttpTyped, Http!NoRequest, Http!States
  <2> QED
    BY <2>2, <2>3
<1>2. StreamInv /\ Made /\ HttpTyped /\ [MCNext]_allVars => (Made /\ HttpTyped)'
  <2> SUFFICES ASSUME StreamInv, Made, HttpTyped, [MCNext]_allVars PROVE Made' /\ HttpTyped'
    OBVIOUS
  <2>1. UNCHANGED replyVars => Made'
    BY DEF replyVars, Made
  <2>2. UNCHANGED httpVars => HttpTyped'
    BY DEF httpVars, HttpTyped
  <2>3. CASE ReplyPart(Output!Next)
    BY <2>2, <2>3, MadeStep DEF ReplyPart
  <2>4. CASE HttpPart(Http!Next)
    BY <2>1, <2>4, HttpTypedStep DEF HttpPart
  <2>5. CASE BufferPart(InputNext) \/ BufferPart(KeyboardNext) \/ UNCHANGED allVars
    BY <2>1, <2>2, <2>5 DEF BufferPart, allVars
  <2> QED
    BY <2>3, <2>4, <2>5 DEF MCNext
<1> QED
  BY <1>1, <1>2, StreamAlways, PTL DEF MCSpec

\* For every value of the constants, each part's variables have their types: a buffer's
\* indices, the bytes on their way with the replies they belong to, and the parser's
\* state, positions and request.
THEOREM PartsTyped == MCSpec => []PartsTypeOK
<1>1. BufferInv /\ StreamInv /\ Made /\ HttpInv /\ HttpTyped => PartsTypeOK
  <2> SUFFICES ASSUME BufferInv, StreamInv, Made, HttpInv, HttpTyped PROVE PartsTypeOK
    OBVIOUS
  <2>1. Output!TypeOK
    BY MadeIsTyped
  <2>2. start \in 0 .. Len(bytes) /\ end \in 0 .. Len(bytes) + 1
    <3> DEFINE size == Len(bytes)
    <3>1. size \in Nat /\ start \in 0 .. size /\ end \in 0 .. size
      BY DEF HttpInv, Within
    <3> HIDE DEF size
    <3>2. start \in 0 .. size /\ end \in 0 .. size + 1
      BY <3>1
    <3> QED
      BY <3>2 DEF size
  <2>3. Http!TypeOK
    BY <2>2 DEF HttpTyped, Http!TypeOK
  <2> QED
    BY <2>1, <2>3 DEF BufferInv, PartsTypeOK
<1> QED
  BY <1>1, BufferAlways, StreamAlways, TypesAlways, HttpAlways, PTL
=============================================================================

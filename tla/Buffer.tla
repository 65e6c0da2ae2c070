-------------------------------- MODULE Buffer --------------------------------
(***************************************************************************)
(* The byte buffer of a Connection, with the three ways it is used:        *)
(*                                                                         *)
(*   InputSpec     input_buffer_: Read() empties it and appends what the   *)
(*                 socket holds, the handler takes it all as a string;     *)
(*   KeyboardSpec  output_buffer_ of the clients: a typed line replaces    *)
(*                 the content, WriteBlocking sends it piece by piece;     *)
(*   OutputSpec    output_buffer_ of the server: Send appends what the     *)
(*                 socket did not take, WriteNonBlocking sends it piece by *)
(*                 piece, and Send may append again in between.            *)
(*                                                                         *)
(* Bytes are numbered from 1 in the order they are appended; 0 is a byte   *)
(* nobody wrote.  The C index i is position i + 1 of the sequence b.mem.   *)
(***************************************************************************)
EXTENDS Integers, Sequences

CONSTANTS
    KPREPENDINDEX,  \* 8 in the code
    MaxBytes        \* bound: bytes appended over the life of the buffer

ASSUME BufferAssumption ==
    /\ KPREPENDINDEX \in Nat
    /\ MaxBytes \in Nat

VARIABLES
    b,            \* the Buffer: mem (buffer_), read_index, write_index
    appended,     \* number of bytes appended so far (history)
    taken         \* number of bytes taken or dropped so far (history)

vars == <<b, appended, taken>>

Buffers == [mem : Seq(Nat), read_index : Nat, write_index : Nat]

TypeOK ==
    /\ b \in Buffers
    /\ KPREPENDINDEX <= b.read_index
    /\ b.read_index <= b.write_index
    /\ appended \in 0 .. MaxBytes
    /\ taken \in 0 .. appended

ReadableBytes(buf) == buf.write_index - buf.read_index
WritableBytes(buf) == Len(buf.mem) - buf.write_index
PrepenableBytes(buf) == buf.read_index

Init ==
    /\ b = [mem |-> << >>, read_index |-> KPREPENDINDEX, write_index |-> KPREPENDINDEX]
    /\ appended = 0
    /\ taken = 0

-----------------------------------------------------------------------------
(***************************************************************************)
(* Append(data, len).                                                      *)
(***************************************************************************)

\* A plausible mistake: the room for the bytes already there is forgotten.
ResizedToLen(buf, len) ==
    [buf EXCEPT !.mem = [i \in 1 .. len |->
                            IF i <= Len(buf.mem) THEN buf.mem[i] ELSE 0]]

\* buffer_.resize(write_index_ + len); new elements are value-initialised
Resized(buf, len) ==
    [buf EXCEPT !.mem = [i \in 1 .. buf.write_index + len |->
                            IF i <= Len(buf.mem) THEN buf.mem[i] ELSE 0]]

\* The readable bytes are copied down to KPREPENDINDEX; write_index_ becomes
\* read_index_ + ReadableBytes() while read_index_ is still the old one.
Compacted(buf) ==
    [mem |-> [i \in 1 .. Len(buf.mem) |->
                 IF i - KPREPENDINDEX \in 1 .. ReadableBytes(buf)
                 THEN buf.mem[i - KPREPENDINDEX + buf.read_index]
                 ELSE buf.mem[i]],
     write_index |-> buf.read_index + ReadableBytes(buf),
     read_index  |-> KPREPENDINDEX]

EnsureWritableBytes(buf, len) ==
    IF WritableBytes(buf) >= len THEN buf
    ELSE IF WritableBytes(buf) + PrepenableBytes(buf) < len + KPREPENDINDEX
         THEN Resized(buf, len)
         ELSE Compacted(buf)

\* std::copy(data, data + len, BeginWrite()), the bytes being numbered from
\* first + 1.  A byte written past size() is undefined behaviour and is not in
\* the vector.
Copied(buf, first, len) ==
    [mem |-> [i \in 1 .. Len(buf.mem) |->
                 IF i - buf.write_index \in 1 .. len
                 THEN first + i - buf.write_index
                 ELSE buf.mem[i]],
     read_index  |-> buf.read_index,
     write_index |-> buf.write_index + len]

Appended(buf, first, len) == Copied(EnsureWritableBytes(buf, len), first, len)

Append_(len) ==
    /\ appended + len <= MaxBytes
    /\ b' = Appended(b, appended, len)
    /\ appended' = appended + len
    /\ UNCHANGED taken

-----------------------------------------------------------------------------
(***************************************************************************)
(* Taking bytes out.                                                       *)
(***************************************************************************)

Emptied(buf) ==
    [mem |-> buf.mem, read_index |-> KPREPENDINDEX, write_index |-> KPREPENDINDEX]

\* RetreiveAll; RetreiveAllAsString is the same after the readable bytes have
\* been copied out.
RetreiveAll ==
    /\ b' = Emptied(b)
    /\ taken' = appended
    /\ UNCHANGED appended

\* Retreive(len) after write() has sent the first len readable bytes.
AfterRetreive(buf, len) ==
    IF len < ReadableBytes(buf)
    THEN [buf EXCEPT !.read_index = @ + len]
    ELSE Emptied(buf)

Retreive(len) ==
    /\ len <= ReadableBytes(b)
    /\ b' = AfterRetreive(b, len)
    /\ taken' = taken + len
    /\ UNCHANGED appended

\* RetreiveAll, then Append of the line that was typed.
AppendKeyBoard(len) ==
    /\ appended + len <= MaxBytes
    /\ b' = Appended(Emptied(b), appended, len)
    /\ taken' = appended
    /\ appended' = appended + len

-----------------------------------------------------------------------------
(***************************************************************************)
(* The callers.  read() and write() move between one byte and everything;  *)
(* a typed line may be empty.                                              *)
(***************************************************************************)
InputNext == RetreiveAll \/ \E len \in 1 .. MaxBytes : Append_(len)

KeyboardNext ==
    \/ \E len \in 0 .. MaxBytes : AppendKeyBoard(len)
    \/ \E len \in 1 .. MaxBytes : Retreive(len)

OutputNext == \E len \in 1 .. MaxBytes : Append_(len) \/ Retreive(len)

InputSpec == Init /\ [][InputNext]_vars
KeyboardSpec == Init /\ [][KeyboardNext]_vars

-----------------------------------------------------------------------------
\* Buffer is a byte queue: what Peek and RetreiveAllAsString can see is every
\* byte appended and not yet taken, once, in order, inside the vector
\* (Buffer.cpp, Append, EnsureWritableBytes, Retreive and RetreiveAll).
ContentIsQueue ==
    /\ ReadableBytes(b) = appended - taken
    /\ \A i \in 1 .. ReadableBytes(b) :
          /\ b.read_index + i <= Len(b.mem)
          /\ b.mem[b.read_index + i] = taken + i
===============================================================================

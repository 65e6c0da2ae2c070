----------------------------- MODULE AsyncLogging -----------------------------
(***************************************************************************)
(* The asynchronous log: front-end threads append lines to an in-memory    *)
(* buffer, one log thread swaps the full buffers out, writes them to a     *)
(* LogFile and recycles two of them.                                       *)
(*                                                                         *)
(* Lines are numbered from 1 in the order Append takes mutex_.  Every      *)
(* critical section is one step: Append holds mutex_ throughout, and       *)
(* ThreadFunc releases it only while it waits.  A buffer is the lines it   *)
(* holds and the bytes they use; NoBuffer is a null unique_ptr.            *)
(***************************************************************************)
EXTENDS Naturals, SequencesExt

CONSTANTS
    Lens,           \* lengths of the lines, all below FIXEDBUFFERSIZE
    BufferSize,     \* FIXEDLARGEBUFFFERSIZE
    FileMaximum,    \* FILEMAXIMUMSIZE
    NamedFile,      \* filepath_ can be opened: every LogFile opens that file
    MaxLines,       \* bound: lines appended
    NoBuffer

VARIABLES
    running,        \* running_
    latch,          \* count_ of latch_
    current,        \* current_buffer_
    next,           \* next_buffer_
    buffers,        \* buffers_
    phase,          \* where the log thread is in ThreadFunc
    new_current,    \* its local variables
    new_next,
    active_buffers,
    next_write,     \* index in active_buffers of the next buffer to write
    written_bytes,  \* written_bytes_ of the LogFile it has open
    file_size,      \* bytes this process has put in the file under it
    logged,         \* lines handed to LogFile::Write, in order (history)
    appended,       \* number of lines appended (history)
    exited          \* Errif called exit

front == <<running, latch, current, next, buffers, appended, exited>>
back == <<phase, new_current, new_next, active_buffers, next_write,
          written_bytes, file_size, logged>>
vars == <<front, back>>

Buffers == [lines : Seq(1 .. MaxLines), length : 0 .. BufferSize - 1]
Empty == [lines |-> << >>, length |-> 0]

ASSUME AsyncLoggingAssumption ==
    /\ BufferSize \in Nat \ {0}
    /\ Lens \subseteq 1 .. BufferSize - 1
    /\ FileMaximum \in Nat \ {0}
    /\ NamedFile \in BOOLEAN
    /\ MaxLines \in Nat
    /\ NoBuffer # Empty

Phases == {"none",      \* the thread does not exist
           "starting",  \* created, latch_->Notify() not done
           "test",      \* at while (running_)
           "lock",      \* about to take mutex_
           "waiting",   \* in cv_.wait_until
           "writing",   \* in the for loop over active_buffers
           "done"}      \* ThreadFunc has returned

TypeOK ==
    /\ running \in BOOLEAN
    /\ latch \in 0 .. 1
    /\ current \in Buffers
    /\ next \in Buffers \cup {NoBuffer}
    /\ buffers \in Seq(Buffers)
    /\ phase \in Phases
    /\ new_current \in Buffers \cup {NoBuffer}
    /\ new_next \in Buffers \cup {NoBuffer}
    /\ active_buffers \in Seq(Buffers)
    /\ next_write \in Nat
    /\ written_bytes \in Nat
    /\ file_size \in Nat
    /\ logged \in Seq(1 .. MaxLines)
    /\ appended \in 0 .. MaxLines
    /\ exited \in BOOLEAN

Init ==
    /\ running = FALSE
    /\ latch = 1
    /\ current = Empty
    /\ next = Empty
    /\ buffers = << >>
    /\ phase = "none"
    /\ new_current = NoBuffer
    /\ new_next = NoBuffer
    /\ active_buffers = << >>
    /\ next_write = 1
    /\ written_bytes = 0
    /\ file_size = 0
    /\ logged = << >>
    /\ appended = 0
    /\ exited = FALSE

-----------------------------------------------------------------------------
(***************************************************************************)
(* The owner: Start and Stop.                                              *)
(***************************************************************************)
Start ==
    /\ phase = "none"
    /\ running' = TRUE
    /\ phase' = "starting"
    /\ UNCHANGED <<latch, current, next, buffers, appended, exited, new_current,
                   new_next, active_buffers, next_write, written_bytes,
                   file_size, logged>>

\* Start() has returned once the latch is open.  The notification ends no
\* wait: the predicate of wait_until is always false.
Stop ==
    /\ running
    /\ latch = 0
    /\ running' = FALSE
    /\ UNCHANGED <<latch, current, next, buffers, appended, exited, back>>

-----------------------------------------------------------------------------
(***************************************************************************)
(* Front-end threads.                                                      *)
(***************************************************************************)
\* A plausible mistake: the end is one past what sizeof(data_) says.
GetSpacePlusOne(buffer) == BufferSize + 1 - buffer.length

GetSpace(buffer) == BufferSize - buffer.length

Rotates(len) == GetSpace(current) < len

\* The buffer a line goes to: the current one, or the one that replaces it.
Target(len) ==
    IF ~Rotates(len) THEN current
    ELSE IF next # NoBuffer THEN next
    ELSE Empty

\* FixedBuffer::Append
With(buffer, line, len) ==
    [lines |-> Append(buffer.lines, line), length |-> buffer.length + len]

AppendLine(len) ==
    /\ appended < MaxLines
    /\ buffers' = IF Rotates(len) THEN Append(buffers, current) ELSE buffers
    /\ next' = IF Rotates(len) THEN NoBuffer ELSE next
    /\ IF GetSpace(Target(len)) > len
       THEN /\ current' = With(Target(len), appended + 1, len)
            /\ appended' = appended + 1
            /\ UNCHANGED exited
       ELSE /\ current' = Target(len)
            /\ exited' = TRUE
            /\ UNCHANGED appended
    /\ UNCHANGED <<running, latch, back>>

-----------------------------------------------------------------------------
(***************************************************************************)
(* The log thread.                                                         *)
(***************************************************************************)
ThreadFunc ==
    /\ phase = "starting"
    /\ latch' = latch - 1
    /\ new_current' = Empty
    /\ new_next' = Empty
    /\ phase' = "test"
    /\ UNCHANGED <<running, current, next, buffers, appended, exited,
                   active_buffers, next_write, written_bytes, file_size, logged>>

TestRunning ==
    /\ phase = "test"
    /\ phase' = IF running THEN "lock" ELSE "done"
    /\ UNCHANGED <<front, new_current, new_next, active_buffers, next_write,
                   written_bytes, file_size, logged>>

\* A plausible mistake: the current buffer is put in front of the full ones.
PushedFirst == <<current>> \o buffers

\* buffers_.emplace_back(std::move(current_buffer_)): the newest lines last
Pushed == Append(buffers, current)

Swap ==
    /\ active_buffers' = Pushed
    /\ buffers' = active_buffers
    /\ current' = new_current
    /\ new_current' = NoBuffer
    /\ next' = IF next = NoBuffer THEN new_next ELSE next
    /\ new_next' = IF next = NoBuffer THEN NoBuffer ELSE new_next
    /\ next_write' = 1
    /\ phase' = "writing"
    /\ UNCHANGED <<running, latch, appended, exited, written_bytes, file_size, logged>>

SwapAtOnce ==
    /\ phase = "lock"
    /\ buffers # << >>
    /\ Swap

WaitUntil ==
    /\ phase = "lock"
    /\ buffers = << >>
    /\ phase' = "waiting"
    /\ UNCHANGED <<front, new_current, new_next, active_buffers, next_write,
                   written_bytes, file_size, logged>>

\* A plausible mistake: wait for a full buffer, without the timeout.
SwapWhenFull ==
    /\ phase = "waiting"
    /\ buffers # << >>
    /\ Swap

SwapAfterTimeout ==
    /\ phase = "waiting"
    /\ Swap

\* A plausible mistake: one byte too late.
MustRollAfter == written_bytes > FileMaximum

\* The LogFile is replaced before the write; fopen of a name that works opens
\* the same file again, otherwise a file named after the time.
MustRoll == written_bytes >= FileMaximum

WriteBuffer ==
    /\ phase = "writing"
    /\ next_write <= Len(active_buffers)
    /\ LET buffer == active_buffers[next_write]
       IN  /\ logged' = logged \o buffer.lines
           /\ written_bytes' = (IF MustRoll THEN 0 ELSE written_bytes) + buffer.length
           /\ file_size' = (IF MustRoll /\ ~NamedFile THEN 0 ELSE file_size) + buffer.length
    /\ next_write' = next_write + 1
    /\ UNCHANGED <<front, phase, new_current, new_next, active_buffers>>

\* A plausible mistake: the buffer is reused with its old lines.
NotCleared(buffer) == buffer

Clear(buffer) == Empty

\* At most two of the written buffers are kept: the second becomes new_current
\* and the first new_next, if that one was given away.
Recycle ==
    /\ phase = "writing"
    /\ next_write > Len(active_buffers)
    /\ LET kept == IF Len(active_buffers) > 2 THEN SubSeq(active_buffers, 1, 2)
                   ELSE active_buffers
           rest == Front(kept)
       IN  /\ new_current' = Clear(Last(kept))
           /\ new_next' = IF new_next # NoBuffer THEN new_next
                          ELSE IF rest # << >> THEN Clear(Last(rest))
                          ELSE Empty
    /\ active_buffers' = << >>
    /\ phase' = "test"
    /\ UNCHANGED <<front, next_write, written_bytes, file_size, logged>>

LogThread ==
    \/ ThreadFunc
    \/ TestRunning
    \/ SwapAtOnce
    \/ WaitUntil
    \/ SwapAfterTimeout
    \/ WriteBuffer
    \/ Recycle

Next ==
    /\ ~exited
    /\ \/ Start
       \/ Stop
       \/ \E len \in Lens : AppendLine(len)
       \/ LogThread

\* The log thread is never starved of the processor or of mutex_, and
\* wait_until times out.
Spec == Init /\ [][Next]_vars /\ WF_vars(~exited /\ LogThread)

-----------------------------------------------------------------------------
Lines(bufs) == FlattenSeq([i \in 1 .. Len(bufs) |-> bufs[i].lines])

\* What the log thread still has to write of the buffers it took.
Unwritten ==
    IF phase = "writing" THEN SubSeq(active_buffers, next_write, Len(active_buffers))
    ELSE << >>

\* No line is lost, duplicated or reordered between Append and LogFile::Write:
\* what was written, what the log thread holds, buffers_ and current_buffer_
\* are, in this order, all the lines appended (AsyncLogging::Append, ThreadFunc).
LinesInOrder ==
    logged \o Lines(Unwritten) \o Lines(buffers) \o current.lines
        = [i \in 1 .. appended |-> i]

\* Append finds an unused buffer to go on with: the spare ones are empty, and
\* the log thread has one to put in place of current_buffer_ whenever it takes
\* that away, which Append dereferences unchecked (AsyncLogging.cpp:60-65, 79-92).
SparesReady ==
    /\ next \in {Empty, NoBuffer}
    /\ new_current \in {Empty, NoBuffer}
    /\ new_next \in {Empty, NoBuffer}
    /\ phase \in {"test", "lock", "waiting"} => NoBuffer \notin {new_current, new_next}
    /\ phase # "writing" => active_buffers = << >>

\* A log file outgrows FILEMAXIMUMSIZE by less than one full buffer
\* (AsyncLogging.cpp:69-72, LogFile::WrittenBytes).
FileBounded == file_size < FileMaximum + BufferSize - 1

\* The buffer a line goes to has room for it, so that FixedBuffer::Append does not
\* end the process, unless the line is exactly as long as the space left: Append
\* does not rotate then (space < len), and FixedBuffer refuses it (space > len)
\* (AsyncLogging.cpp:30-38, LogStream.h:18).
RoomUnlessExactFit ==
    \A len \in Lens : len # GetSpace(current) => GetSpace(Target(len)) > len

\* A buffer is at hand at every rotation, empty, and the line that rotates fits into it:
\* what AsyncLogging::ThreadFunc gives back and what Append's two comparisons with the
\* space left allow, but for the exact fit that neither handles.
BuffersReady == SparesReady /\ RoomUnlessExactFit

\* While the log thread is not stopped, every line appended is written; no
\* notification is needed for that (AsyncLogging.cpp:56-73).
EveryLineIsWritten ==
    \A n \in 1 .. MaxLines :
        (running /\ appended >= n) ~> (Len(logged) >= n \/ ~running \/ exited)

\* After Stop the log thread returns, so that the jthread can be joined
\* (AsyncLogging.cpp:23-26, 53).
StopEndsThread == (phase # "none" /\ ~running) ~> (phase = "done" \/ exited)
===============================================================================

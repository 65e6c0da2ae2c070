------------------------------- MODULE Reply -------------------------------
(***************************************************************************)
(* The bytes of HTTP replies on one connection, from HttpResponse through  *)
(* Connection::Send, SendFile and the write event to the client: what is   *)
(* handed to the socket, what waits in output_buffer_, what is announced.  *)
(*                                                                         *)
(* A byte is a record of the reply it belongs to, head or body, and its    *)
(* place.  Heads have one byte; what a head says is the length it          *)
(* announces, or NoLength.  The peer neither closes nor resets, and the    *)
(* connection's life cycle is in Reactor.                                  *)
(*                                                                         *)
(* Of output_buffer_ the model has the readable bytes and the two numbers  *)
(* that decide what Append does; Buffer has the vector itself.             *)
(***************************************************************************)
EXTENDS Integers, SequencesExt

CONSTANTS
    Sizes,      \* lengths of pages and of files
    SocketRoom, \* how much the socket holds before the client has read it
    MaxReplies, \* bound: requests the client makes
    NoLength    \* no Content-Length in the head

ReplyAssumption ==
    /\ Sizes \subseteq Nat
    /\ SocketRoom \in Nat \ {0} /\ MaxReplies \in Nat
    /\ NoLength \notin Nat

VARIABLES
    request,    \* the replies asked for so far: their types, sizes and close flags
    pc,         \* where the loop's thread is in OnHttpReponse
    queued,     \* the readable bytes of output_buffer_
    read_index, \* read_index_ - KPREPENDINDEX of it
    buffer_size, \* buffer_.size() - KPREPENDINDEX of it, 0 as long as it is empty
    writing,    \* whether the channel listens for write events
    send_size,  \* the local variable of SendFile, also the file offset
    socket,     \* bytes taken by the kernel and not read by the client
    got,        \* bytes the client has read
    closed,     \* the connection was closed after a reply
    cut,        \* a socket that was full met a file (history)
    compacted   \* EnsureWritableBytes moved the readable bytes down (history)

buffer == <<queued, read_index, buffer_size, compacted>>

vars == <<request, pc, buffer, writing, send_size, socket, got, closed, cut>>

Types == {"HTML_TYPE", "FILE_TYPE"}

ReplyRecords == [type : Types, size : Sizes, close : BOOLEAN]

Byte(r, part, k) == [reply |-> r, part |-> part, at |-> k]

PreBody(r) == <<Byte(r, "head", 1)>>

Body(r, from, n) == [k \in 1 .. n |-> Byte(r, "body", from + k)]

\* All bytes of the replies 1 .. r, in order: what the client should read.
Whole[r \in 0 .. MaxReplies] ==
    IF r = 0 THEN <<>> ELSE Whole[r - 1] \o PreBody(r) \o Body(r, 0, request[r].size)

Current == Len(request)

TypeOK ==
    /\ request \in Seq(ReplyRecords) /\ Len(request) <= MaxReplies
    /\ pc \in {"idle", "send", "sendfile", "end"}
    /\ \A s \in {queued, socket, got} :
          \A k \in DOMAIN s : s[k].reply \in 1 .. Current /\ s[k].part \in {"head", "body", "stale"}
    /\ Len(socket) <= SocketRoom
    /\ send_size \in Nat /\ read_index \in Nat /\ buffer_size \in Nat
    /\ {writing, closed, cut, compacted} \subseteq BOOLEAN

Init ==
    /\ request = <<>>
    /\ pc = "idle"
    /\ queued = <<>> /\ socket = <<>> /\ got = <<>>
    /\ writing = FALSE /\ closed = FALSE /\ cut = FALSE /\ compacted = FALSE
    /\ send_size = 0 /\ read_index = 0 /\ buffer_size = 0

-----------------------------------------------------------------------------
(***************************************************************************)
(* The client.                                                             *)
(***************************************************************************)

\* A plausible mistake: the length is written before the body is set.
LengthOfNoBody(r) == IF request[r].close THEN NoLength ELSE 0

\* HttpResponse::GetPreBody: body_.size() on a connection that is kept; a file
\* is not in body_.
ContentLength(r) ==
    IF request[r].close THEN NoLength
    ELSE IF request[r].type = "HTML_TYPE" THEN request[r].size ELSE 0

\* The bytes announced by the heads of the replies 1 .. r, none of which closes.
Announced[r \in 0 .. MaxReplies] ==
    IF r = 0 THEN 0 ELSE Announced[r - 1] + 1 + ContentLength(r)

\* The client asks again when it has read what was announced; the request is
\* handled at once.
Request(reply) ==
    /\ ~closed /\ pc = "idle"
    /\ Current < MaxReplies
    /\ Len(got) >= Announced[Current]
    /\ request' = Append(request, reply)
    /\ pc' = "send"
    /\ UNCHANGED <<buffer, writing, send_size, socket, got, closed, cut>>

ClientReads ==
    /\ socket # <<>>
    /\ \E n \in 1 .. Len(socket) :
          /\ got' = got \o SubSeq(socket, 1, n)
          /\ socket' = SubSeq(socket, n + 1, Len(socket))
    /\ UNCHANGED <<request, pc, buffer, writing, send_size, closed, cut>>

-----------------------------------------------------------------------------
(***************************************************************************)
(* The loop's thread.                                                      *)
(***************************************************************************)

Least(a, b) == IF a < b THEN a ELSE b

\* A plausible mistake: without O_NONBLOCK, all of them.
TakenAll(n) == n

\* What write and sendfile take of n bytes; 0 is EAGAIN.
Taken(n) == Least(n, SocketRoom - Len(socket))

\* A plausible mistake: writing at once although earlier output waits.
AlwaysWrites == TRUE

WritesAtOnce == queued = <<>>

\* A plausible mistake: the rest is queued and nothing asks for a write event.
NotListening(rest) == writing

Listening(rest) == writing \/ rest # <<>>

WritableBytes == buffer_size - (read_index + Len(queued))

\* EnsureWritableBytes(n): the room there is in front of the readable bytes would do.
Compacts(n) == WritableBytes < n /\ WritableBytes + read_index >= n

Stale(n) == [k \in 1 .. n |-> Byte(Current, "stale", k)]

\* The vector is resized, if it must be.
AppendBehind(data) ==
    LET write_index == read_index + Len(queued) + Len(data)
    IN  /\ queued' = queued \o data
        /\ buffer_size' = IF write_index > buffer_size THEN write_index ELSE buffer_size
        /\ UNCHANGED <<read_index, compacted>>

\* The readable bytes are moved down, and write_index_ stays where it was: what lies
\* between is sent with them.  Of the new bytes those behind the end of the vector are
\* written outside of it, which is undefined; at least the others are kept.
AppendCompacted(data) ==
    /\ \E kept \in {k \in 0 .. Len(data) : k >= WritableBytes} :
          queued' = queued \o Stale(read_index)
                           \o SubSeq(data, 1, kept) \o Stale(Len(data) - kept)
    /\ read_index' = 0
    /\ compacted' = TRUE
    /\ UNCHANGED buffer_size

\* output_buffer_->Append(data + send_size, remaining) if something remains.
AppendOutput(data) ==
    IF data = <<>> THEN UNCHANGED buffer
    ELSE IF Compacts(Len(data)) THEN AppendCompacted(data)
    ELSE AppendBehind(data)

\* conn->Send(GetResponse()) for a page, conn->Send(GetPreBody()) for a file.
Send ==
    LET reply == request[Current]
        data  == IF reply.type = "HTML_TYPE"
                 THEN PreBody(Current) \o Body(Current, 0, reply.size)
                 ELSE PreBody(Current)
        n     == IF WritesAtOnce THEN Taken(Len(data)) ELSE 0
        rest  == SubSeq(data, n + 1, Len(data))
    IN  /\ pc = "send"
        /\ socket' = socket \o SubSeq(data, 1, n)
        /\ AppendOutput(rest)
        /\ writing' = Listening(rest)
        /\ cut' = (cut \/ (reply.type = "FILE_TYPE" /\ rest # <<>>))
        /\ send_size' = 0
        /\ pc' = IF reply.type = "FILE_TYPE" THEN "sendfile" ELSE "end"
        /\ UNCHANGED <<request, got, closed>>

\* sendfile(fd, &send_size, ...) reads the file from send_size and advances it,
\* and SendFile adds the count once more.  On EAGAIN it tries again at once: no
\* step until the client has read.
SendFile ==
    LET size == request[Current].size
        n    == Taken(size - send_size)
    IN  /\ pc = "sendfile"
        /\ send_size < size
        /\ n > 0
        /\ socket' = socket \o Body(Current, send_size, n)
        /\ send_size' = send_size + n + n
        /\ cut' = (cut \/ n < size - send_size)
        /\ UNCHANGED <<request, pc, buffer, writing, got, closed>>

SendFileReturns ==
    /\ pc = "sendfile"
    /\ send_size >= request[Current].size
    /\ pc' = "end"
    /\ UNCHANGED <<request, buffer, writing, send_size, socket, got, closed, cut>>

\* IfClose: SetState(Closed) and RemoveConnection.  What is queued goes with the
\* connection; what the socket has taken is still delivered.
EndReply ==
    /\ pc = "end"
    /\ pc' = "idle"
    /\ IF request[Current].close
       THEN closed' = TRUE /\ queued' = <<>> /\ writing' = FALSE
       ELSE UNCHANGED <<closed, queued, writing>>
    /\ UNCHANGED <<request, read_index, buffer_size, compacted, send_size, socket, got, cut>>

Left(n) == SubSeq(queued, n + 1, Len(queued))

\* Retreive(n)
IndexAfter(n) == IF n < Len(queued) THEN read_index + n ELSE 0

\* SendClientMessage, WriteNonBlocking: a write event, which comes when there is
\* room; with nothing to write the channel stops listening for it.
WriteNonBlocking ==
    /\ pc = "idle" /\ writing
    /\ Len(socket) < SocketRoom
    /\ IF queued = <<>>
       THEN writing' = FALSE /\ UNCHANGED <<socket, queued, read_index>>
       ELSE LET n == Taken(Len(queued))
            IN  /\ socket' = socket \o SubSeq(queued, 1, n)
                /\ queued' = Left(n)
                /\ read_index' = IndexAfter(n)
                /\ UNCHANGED writing
    /\ UNCHANGED <<request, pc, buffer_size, compacted, send_size, got, closed, cut>>

-----------------------------------------------------------------------------
ServerStep == Send \/ SendFile \/ SendFileReturns \/ EndReply \/ WriteNonBlocking

Next ==
    \/ \E reply \in ReplyRecords : Request(reply)
    \/ ClientReads
    \/ ServerStep

SafeSpec == Init /\ [][Next]_vars

\* The loop's thread runs, and the client reads what there is to be read.
Spec == SafeSpec /\ WF_vars(ServerStep) /\ WF_vars(ClientReads)

-----------------------------------------------------------------------------
\* Between replies, the client has read, the socket holds and the output buffer
\* holds exactly the replies, in order and complete; after a closing reply, a
\* beginning of them (Connection.cpp:125-166, 248-270).  The code has two exceptions.
\* A file that does not fit the socket at once overtakes the part of its head that
\* was queued, or loses the bytes that send_size skips.  A reply that is appended
\* to a partly sent buffer is corrupted if the room in front of what is left would
\* do for it (Buffer.cpp:24-26).
StreamIntact ==
    pc = "idle" /\ ~cut /\ ~compacted =>
        IF closed THEN IsPrefix(got \o socket, Whole[Current])
        ELSE got \o socket \o queued = Whole[Current]

\* When a client that goes by Content-Length makes its next request, it has read
\* every byte of the earlier replies and none is on its way, so that the next
\* answer begins where it expects it and no reply is appended to a partly sent
\* buffer; unless one of them was a file, announced with length 0
\* (HttpResponse.cpp:26-29, HttpServer.cpp:71-77).
ClientInStep ==
    \/ closed \/ pc # "idle" \/ Len(got) < Announced[Current]
    \/ got = Whole[Current] /\ queued = <<>> /\ ~compacted
    \/ \E r \in 1 .. Current : request[r].type = "FILE_TYPE"

\* Output that was queued is sent if the client goes on reading: each read is
\* followed by a write event until the buffer is empty.  It is dropped when
\* the reply closes the connection (Connection.cpp:143-146, 248-261).
QueuedOutputLeaves == (queued # <<>>) ~> (queued = <<>>)
=============================================================================

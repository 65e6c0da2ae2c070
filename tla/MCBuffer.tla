------------------------------ MODULE MCBuffer ------------------------------
(***************************************************************************)
(* Model-checking instance of what handles the bytes of a connection:      *)
(* Buffer, HttpContext and Reply, the ways output takes.  One run for the  *)
(* two uses of a buffer that never append to a partly sent one, for        *)
(* requests and for replies, and one run for the use that does.            *)
(***************************************************************************)
EXTENDS Buffer, HttpRequests

CONSTANTS
    Sizes, SocketRoom, MaxReplies, NoLength,    \* of Reply
    Requests                                    \* of HttpContext

VARIABLES
    use,        \* what this buffer is used for; "reply": a behaviour of Reply,
                \* "request": of HttpContext
    request, pc, queued, read_index, buffer_size, compacted, writing,       \* Reply
    send_size, socket, got, closed, cut,
    state, http_request, bytes, start, end, key, vers, parser, sent, asked  \* HttpContext

Output == INSTANCE Reply

Http == INSTANCE HttpContext
            WITH Arrives <- "whole", MaxRequests <- 1,
                 request <- http_request, input <- bytes, pc <- parser, count <- asked

ASSUME PartsAssumption == Output!ReplyAssumption /\ Http!HttpContextAssumption

\* Of HTTP 1.0 ParaseRequest makes an invalid version.
ASSUME VersionAssumption == \A r \in Requests : r.version # <<"1", ".", "0">>

replyVars == <<request, pc, queued, read_index, buffer_size, compacted, writing, send_size,
               socket, got, closed, cut>>
httpVars == <<state, http_request, bytes, start, end, key, vers, parser, sent, asked>>
allVars == <<vars, use, replyVars, httpVars>>

PartsInit == Init /\ Output!Init /\ Http!Init

MCInit == PartsInit /\ use \in {"input", "keyboard", "reply", "request"}

BufferPart(A) == A /\ UNCHANGED <<use, replyVars, httpVars>>
ReplyPart(A) == use = "reply" /\ A /\ UNCHANGED <<use, vars, httpVars>>
HttpPart(A) == use = "request" /\ A /\ UNCHANGED <<use, vars, replyVars>>

MCNext ==
    \/ use = "input" /\ BufferPart(InputNext)
    \/ use = "keyboard" /\ BufferPart(KeyboardNext)
    \/ ReplyPart(Output!Next)
    \/ HttpPart(Http!Next)

MCSpec ==
    /\ MCInit /\ [][MCNext]_allVars
    /\ WF_allVars(ReplyPart(Output!ServerStep))
    /\ WF_allVars(ReplyPart(Output!ClientReads))
    /\ WF_allVars(HttpPart(Http!Iterate \/ Http!Return))

\* The properties of the other two modules, by the names they have there or together.
PartsTypeOK == TypeOK /\ Output!TypeOK /\ Http!TypeOK
StreamIntact == Output!StreamIntact
ClientInStep == Output!ClientInStep

\* HttpContext::ParaseRequest hands over the request that the client wrote, and looks at
\* no byte beyond what was read.
RequestsParsed == Http!ParsedAsSent /\ Http!ReadsInsideInput

\* The two loops over bytes end: output the socket did not take leaves once the client
\* reads (Connection::WriteNonBlocking, SendFile), and ParaseRequest returns.
BytesMoveOn == Output!QueuedOutputLeaves /\ Http!ParseReturns

MCOutputInit == PartsInit /\ use = "output"

MCOutputSpec == MCOutputInit /\ [][BufferPart(OutputNext)]_allVars
=============================================================================

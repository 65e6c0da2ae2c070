------------------------------- MODULE Reactor -------------------------------
(***************************************************************************)
(* The life of a connection across the reactors: Server and Acceptor in    *)
(* the main loop's thread, Connection and its Channel in the thread of the *)
(* sub loop the connection was given to, and HttpServer's callbacks, which *)
(* run in either.  The client of a connection and the kernel (sockets,     *)
(* edge-triggered epoll) are the environment.                              *)
(*                                                                         *)
(* Each loop is used through what EventLoop is shown to promise            *)
(* (SerialExecutor): a callback queued to it is appended to todo[l], and a *)
(* loop with a nonempty todo[l] does not sleep.  todo[Main] holds calls of *)
(* Server::RemoveConnectionInLoop, todo[s] of a sub loop s calls of        *)
(* Connection::ConnectionDestructor; either is written as its connection.  *)
(*                                                                         *)
(* A Connection object lives as long as a shared_ptr to it does: Held(c)   *)
(* lists who can own one.  Its destructor closes the descriptor.           *)
(*                                                                         *)
(* Message contents, buffers and response bodies are abstracted: see       *)
(* Buffer and HttpContext.                                                 *)
(***************************************************************************)
EXTENDS Naturals, Sequences, FiniteSets, Functions

CONSTANTS
    Conns,    \* Connection objects: each is constructed at most once
    Fds,      \* descriptors the kernel can give to accepted sockets
    NumSubs,  \* number of sub loops (threads of the EventLoopThreadPool)
    auto_shutdown, \* HttpServer::auto_shutdown_
    Replies,  \* the kinds of reply the application gives, a subset of AllReplies
    Behaviour,\* what clients do, a subset of AllBehaviour
    NoConn, NoFd

\* What becomes of a request in OnHttpRequest: a 400 ("bad"), a body or a file,
\* kept alive or closed afterwards, or nothing because ParaseRequest never
\* returns ("partial": see HttpContext).  The echo callback's reply is a "page".
AllReplies == {"bad", "page", "pageclose", "file", "fileclose", "partial"}

AllBehaviour == {"send", "close", "reset", "read"}

ASSUME ReactorAssumption ==
    /\ NoConn \notin Conns
    /\ NoFd \notin Fds
    /\ NumSubs \in Nat \ {0}
    /\ auto_shutdown \in BOOLEAN
    /\ Replies \subseteq AllReplies
    /\ Behaviour \subseteq AllBehaviour

Main == 0
Subs == 1 .. NumSubs
Loops == {Main} \cup Subs
NoLoop == NumSubs + 1

VARIABLES
    conn,        \* the Connection objects and their channels
    sock,        \* their sockets, as the kernel sees them
    connections, \* Server::connections_, an unordered_map without a lock
    timer,       \* the loop whose TimeQueue holds the OverTime timer of a connection
    next,        \* EventLoopThreadPool::next_
    backlog,     \* clients that have connected and have not been accepted
    phase,       \* where each loop is: "poll", "handle" or "run"
    chs,         \* the events each loop has still to handle
    todo,        \* to_do_list_ of each loop
    functors,    \* the callbacks each loop has still to run
    owned,       \* connections owned by the functors vector of DoToDoList
    handler,     \* what each sub loop's thread is doing for a connection
    main,        \* what the main thread is doing for a connection
    exited,      \* why the process ended, "no" if it has not
    removals     \* how often RemoveConnection was called for each (history)

mapVars == <<connections, next, main>>
loopVars == <<phase, chs, functors, owned>>
vars == <<conn, sock, connections, timer, next, backlog, phase, chs,
          todo, functors, owned, handler, main, exited, removals>>

-----------------------------------------------------------------------------
(***************************************************************************)
(* Objects and their owners.                                               *)
(***************************************************************************)

NewConn == [fd |-> NoFd, loop |-> Main, state |-> "Invaild", listen |-> {},
            in_epoll |-> FALSE, tied |-> FALSE, output |-> FALSE,
            touched |-> FALSE]

NewSock == [peer |-> "open", inbox |-> FALSE, room |-> TRUE, edge |-> FALSE]

IdleHandler == [conn |-> NoConn, pc |-> "idle", ready |-> {}, reply |-> "none"]

IdleMain == [conn |-> NoConn, pc |-> "idle"]

Constructed(c) == conn[c].fd # NoFd

NotOwnedByQueue(c) == \E l \in Loops : c \in owned[l]

\* std::bind keeps a shared_ptr in each queued callback and in each callback of
\* the vector that DoToDoList runs.
OwnedByCallback(c) == \E l \in Loops : c \in Range(todo[l]) \cup owned[l]

\* Who owns a shared_ptr to the connection: the map, a queued or running
\* callback, the guard of Channel::HandleEvent (if the channel is tied), a local
\* variable of the main thread.
Held(c) ==
    \/ \E f \in Fds : connections[f] = c
    \/ OwnedByCallback(c)
    \/ \E s \in Subs : handler[s].conn = c /\ conn[c].tied
    \/ main.conn = c

Freed(c) == Constructed(c) /\ ~Held(c)

FdsInUse == {conn[c].fd : c \in {d \in Conns : Held(d)}}

Running == exited = "no"

Init ==
    /\ conn = [c \in Conns |-> NewConn]
    /\ sock = [c \in Conns |-> NewSock]
    /\ connections = [f \in Fds |-> NoConn]
    /\ timer = [c \in Conns |-> NoLoop]
    /\ next = 0
    /\ backlog = 0
    /\ phase = [l \in Loops |-> "poll"]
    /\ chs = [l \in Loops |-> {}]
    /\ todo = [l \in Loops |-> <<>>]
    /\ functors = [l \in Loops |-> <<>>]
    /\ owned = [l \in Loops |-> {}]
    /\ handler = [s \in Subs |-> IdleHandler]
    /\ main = IdleMain
    /\ exited = "no"
    /\ removals = [c \in Conns |-> 0]

-----------------------------------------------------------------------------
(***************************************************************************)
(* epoll, edge triggered.                                                  *)
(***************************************************************************)

\* An element of the vector that Poll returns.  The due timers of a TimeQueue are
\* listed one by one; in the code they are one event of its timerfd.
Event(kind, c, ready) == [kind |-> kind, conn |-> c, ready |-> ready]

AcceptEvent == Event("accept", NoConn, {})
TimerEvent(c) == Event("timer", c, {})

\* What the socket is ready for: EPOLLIN with data, an end of file or an error
\* to read, EPOLLOUT with room in the send buffer or an error to report.
ReadyFor(k) ==
    {e \in {"READ", "WRITE"} :
        \/ e = "READ" /\ (k.inbox \/ k.peer # "open")
        \/ e = "WRITE" /\ (k.room \/ k.peer = "reset")}

\* The events epoll_wait returns for the connection.
Events(c) == ReadyFor(sock[c]) \cap conn[c].listen

\* epoll_ctl ADD or MOD (Poller::UpdateChannel): it reports at once what the
\* socket is already ready for.
Rearmed(k, listen) == [k EXCEPT !.edge = @ \/ ReadyFor(k) \cap listen # {}]

\* The socket changes by itself: an edge if one of the events listened for.
Changed(c, k, e) ==
    [k EXCEPT !.edge = @ \/ (conn[c].in_epoll /\ e \in conn[c].listen)]

-----------------------------------------------------------------------------
(***************************************************************************)
(* Ending the process and removing a connection.                           *)
(***************************************************************************)

\* Two threads in connections_ at once, one of them writing.
MapIsMutating == main.pc \in {"inserting", "erasing"}

\* Connection::RemoveConnection in a sub loop's thread, that is
\* Server::RemoveConnection: the lookup, then RunOneFunc, which queues.  The
\* lookup races with the main thread's insertions and erasures: it may then also
\* miss the entry or crash.  (Lookup and queueing can be one step: the main
\* thread runs the queued call after whatever it is doing in either case.)
RemoveConnection(c) ==
    /\ removals' = [removals EXCEPT ![c] = @ + 1]
    /\ \/ /\ connections[conn[c].fd] = NoConn
          /\ exited' = "client fd not found in connection map"
          /\ UNCHANGED todo
       \/ /\ connections[conn[c].fd] # NoConn
          /\ MapIsMutating
          /\ exited' = "data race on connections_"
          /\ UNCHANGED todo
       \/ /\ connections[conn[c].fd] # NoConn
          /\ todo' = [todo EXCEPT ![Main] = Append(@, c)]
          /\ UNCHANGED exited

NoRemoval == UNCHANGED <<todo, removals, exited>>

-----------------------------------------------------------------------------
(***************************************************************************)
(* The main thread: Acceptor, Server, OnConnnectCallback.                  *)
(***************************************************************************)

MainHandles == Running /\ phase[Main] = "handle" /\ main = IdleMain

NextLoopWithoutWrap == next + 1

\* EventLoopThreadPool::NextLoop.
NextLoop == IF next = NumSubs THEN 1 ELSE next + 1

EtAndReading == {"ET", "READ"}

\* The listen_events_ with which Connection::SetET registers the channel.
EtOnly == {"ET"}

\* Acceptor::Accept and the head of Server::NewConnection: the connection is
\* constructed and UseET puts its channel into its loop's epoll, listening for
\* nothing yet; the insertion into connections_ begins.
NewConnection(c) ==
    /\ MainHandles
    /\ AcceptEvent \in chs[Main]
    /\ ~Constructed(c)
    /\ \E f \in Fds \ FdsInUse :
          conn' = [conn EXCEPT ![c] = [NewConn EXCEPT
                      !.fd = f, !.loop = NextLoop, !.state = "Connected",
                      !.listen = EtOnly, !.in_epoll = TRUE]]
    /\ next' = NextLoop
    /\ backlog' = backlog - 1
    /\ chs' = [chs EXCEPT ![Main] = @ \ {AcceptEvent}]
    /\ main' = [conn |-> c, pc |-> "inserting"]
    /\ NoRemoval
    /\ UNCHANGED <<sock, connections, timer, phase, functors, owned, handler>>

\* accept fails: no descriptor is left, no memory, the client has reset what is to
\* be accepted; whatever it is, Errif exits.
AcceptFails ==
    /\ MainHandles
    /\ AcceptEvent \in chs[Main]
    /\ exited' = "socket accept error"
    /\ UNCHANGED <<conn, sock, mapVars, timer, backlog, loopVars, todo, handler,
                   removals>>

\* connections_[cln_fd] = clnt_conn.
InsertConnection ==
    /\ Running
    /\ main.pc = "inserting"
    /\ connections' = [connections EXCEPT ![conn[main.conn].fd] = main.conn]
    /\ main' = [main EXCEPT !.pc = "establish"]
    /\ NoRemoval
    /\ UNCHANGED <<conn, sock, timer, next, backlog, loopVars, handler>>

\* Connection::ConnectionEstablished up to connnect_func_: Tie, EnableReading.
ConnectionEstablished ==
    /\ Running
    /\ main.pc = "establish"
    /\ LET c == main.conn
           listen == conn[c].listen \cup {"READ"}
       IN  /\ conn' = [conn EXCEPT ![c].tied = TRUE, ![c].listen = listen]
           /\ sock' = [sock EXCEPT ![c] = Rearmed(@, listen)]
    /\ main' = [main EXCEPT !.pc = "connect"]
    /\ NoRemoval
    /\ UNCHANGED <<connections, timer, next, backlog, loopVars, handler>>

\* The loop's thread is in TimeQueue::HandleTimers or about to call it.
TimersBusy(l) == \E c \in Conns : TimerEvent(c) \in chs[l]

\* HttpServer::OnConnnectCallback: RunAfter on the connection's loop, called by
\* the main thread.  timers_ has no lock either: the insertion may meet
\* HandleTimers of the loop's own thread.
OnConnnectCallback ==
    /\ Running
    /\ main.pc = "connect"
    /\ LET l == conn[main.conn].loop
       IN  \/ /\ timer' = [timer EXCEPT ![main.conn] = IF auto_shutdown THEN l ELSE NoLoop]
              /\ UNCHANGED exited
           \/ /\ auto_shutdown
              /\ TimersBusy(l)
              /\ exited' = "data race on timers_"
              /\ UNCHANGED timer
    /\ main' = IdleMain
    /\ UNCHANGED <<conn, sock, connections, next, backlog, loopVars, todo,
                   handler, removals>>

\* Server::RemoveConnectionInLoop run by DoToDoList: the erasure begins.
RemoveConnectionInLoop ==
    /\ Running
    /\ phase[Main] = "run"
    /\ main = IdleMain
    /\ functors[Main] # <<>>
    /\ main' = [conn |-> Head(functors[Main]), pc |-> "erasing"]
    /\ functors' = [functors EXCEPT ![Main] = Tail(@)]
    /\ NoRemoval
    /\ UNCHANGED <<conn, sock, connections, timer, next, backlog, phase, chs,
                   owned, handler>>

NothingErased(c) == UNCHANGED connections

\* connections_.erase(conn->GetFd()).
Erase(c) == connections' = [connections EXCEPT ![conn[c].fd] = NoConn]

NothingQueued(c) == UNCHANGED todo

\* loop->QueueOneFunc(ConnectionDestructor).
QueueDestructor(c) == todo' = [todo EXCEPT ![conn[c].loop] = Append(@, c)]

\* The rest of RemoveConnectionInLoop: the entry is gone, ConnectionDestructor
\* is queued on the connection's loop.
EraseConnection ==
    /\ Running
    /\ main.pc = "erasing"
    /\ Erase(main.conn)
    /\ QueueDestructor(main.conn)
    /\ main' = IdleMain
    /\ UNCHANGED <<conn, sock, timer, next, backlog, loopVars, handler, exited,
                   removals>>

-----------------------------------------------------------------------------
(***************************************************************************)
(* A sub loop's thread: the channel's callbacks.  handler[s] is the        *)
(* connection whose event is being handled, the events that were reported, *)
(* and where the callbacks are:                                            *)
(*   "read"     Connection::Read                                           *)
(*   "request"  the message callback, before its Send                      *)
(*   "sendfile" OnHttpReponse, in SendFile                                 *)
(*   "close"    after the reply, about to close                            *)
(*   "write"    Connection::Write                                          *)
(***************************************************************************)

\* Channel::HandleEvent: the guard is taken; HandleEventWithGuard calls the read
\* callback first.
HandleEvent(s, e) ==
    /\ Running
    /\ phase[s] = "handle"
    /\ handler[s] = IdleHandler
    /\ e \in chs[s]
    /\ e.kind = "io"
    /\ chs' = [chs EXCEPT ![s] = @ \ {e}]
    /\ handler' = [handler EXCEPT ![s] =
          [conn |-> e.conn, ready |-> e.ready, reply |-> "none",
           pc |-> IF "READ" \in e.ready THEN "read" ELSE "write"]]
    /\ NoRemoval
    /\ UNCHANGED <<conn, sock, mapVars, timer, backlog, phase, functors, owned>>

\* A step of a callback of the connection c.
InCallback(s, c, pc) ==
    /\ Running
    /\ handler[s].conn = c
    /\ handler[s].pc = pc
    /\ UNCHANGED <<mapVars, timer, backlog, loopVars>>

\* The read callback has returned: HandleEventWithGuard goes on to the write
\* callback if EPOLLOUT was reported too, whatever the read callback did.
AfterRead(s) ==
    handler' = [handler EXCEPT ![s] =
        IF "WRITE" \in @.ready THEN [@ EXCEPT !.pc = "write"] ELSE IdleHandler]

AfterWrite(s) == handler' = [handler EXCEPT ![s] = IdleHandler]

SetClosed(c) == conn' = [conn EXCEPT ![c].state = "Closed"]

\* Connection::Read on a connection that is not Connected.
ReadNotConnected(s, c) ==
    /\ InCallback(s, c, "read")
    /\ conn[c].state # "Connected"
    /\ RemoveConnection(c)
    /\ AfterRead(s)
    /\ UNCHANGED <<conn, sock>>

\* The read loop of Connection::ReadNonBlocking.
ReadAll(c) == sock' = [sock EXCEPT ![c].inbox = FALSE]

\* Connection::ReadNonBlocking up to EAGAIN: everything there is to read has
\* been read; ListenClientMessage goes on to the message callback.
ReadToEagain(s, c) ==
    /\ InCallback(s, c, "read")
    /\ conn[c].state = "Connected"
    /\ sock[c].peer = "open"
    /\ ReadAll(c)
    /\ conn' = [conn EXCEPT ![c].touched = TRUE]
    /\ handler' = [handler EXCEPT ![s].pc = "request"]
    /\ NoRemoval

\* ReadNonBlocking up to end of file or an error: the input is dropped, the
\* connection is Closed and removed.
ReadEof(s, c) ==
    /\ InCallback(s, c, "read")
    /\ conn[c].state = "Connected"
    /\ sock[c].peer # "open"
    /\ ReadAll(c)
    /\ SetClosed(c)
    /\ RemoveConnection(c)
    /\ AfterRead(s)

\* HttpServer::OnHttpRequest on a request whose body has not all arrived: the
\* thread stays in ParaseRequest.
OnPartialRequest(s, c) ==
    /\ InCallback(s, c, "request")
    /\ "partial" \in Replies
    /\ handler' = [handler EXCEPT ![s].pc = "parsing"]
    /\ NoRemoval
    /\ UNCHANGED <<conn, sock>>

AfterSend(s, reply) ==
    IF reply = "page" THEN AfterRead(s)
    ELSE handler' = [handler EXCEPT
            ![s].reply = reply,
            ![s].pc = IF reply \in {"file", "fileclose"} THEN "sendfile" ELSE "close"]

\* Connection::Send when nothing waits in the output buffer and the socket takes
\* everything.
SendAll(s, c, reply) ==
    /\ InCallback(s, c, "request")
    /\ ~conn[c].output
    /\ sock[c].room /\ sock[c].peer # "reset"
    /\ AfterSend(s, reply)
    /\ NoRemoval
    /\ UNCHANGED <<conn, sock>>

NoEnableWriting(c) == conn[c].listen

\* Channel::EnableWriting.
EnableWriting(c) == conn[c].listen \cup {"WRITE"}

\* Send when output waits already, or the socket takes only a part or nothing:
\* the rest is appended to the output buffer and EPOLLOUT is enabled.
SendSome(s, c, reply) ==
    LET listen == EnableWriting(c)
        left == [sock[c] EXCEPT !.room = @ /\ conn[c].output]
    IN  /\ InCallback(s, c, "request")
        /\ conn[c].output \/ sock[c].peer # "reset"
        /\ conn' = [conn EXCEPT ![c].output = TRUE, ![c].listen = listen]
        /\ sock' = [sock EXCEPT ![c] = Rearmed(left, listen)]
        /\ AfterSend(s, reply)
        /\ NoRemoval

\* Send when the write fails: the connection is Closed and removed, and the
\* caller goes on as if nothing had happened.
SendFails(s, c, reply) ==
    /\ InCallback(s, c, "request")
    /\ ~conn[c].output
    /\ sock[c].peer = "reset"
    /\ SetClosed(c)
    /\ RemoveConnection(c)
    /\ AfterSend(s, reply)
    /\ UNCHANGED sock

\* Connection::SendFile: it spins on EAGAIN until the client has made room, and
\* gives up on an error without closing the connection.
SendFile(s, c) ==
    /\ InCallback(s, c, "sendfile")
    /\ sock[c].room \/ sock[c].peer = "reset"
    /\ \/ UNCHANGED sock
       \/ sock' = [sock EXCEPT ![c].room = FALSE]
    /\ IF handler[s].reply = "fileclose"
       THEN handler' = [handler EXCEPT ![s].pc = "close"]
       ELSE AfterRead(s)
    /\ NoRemoval
    /\ UNCHANGED conn

\* The tail of OnHttpRequest (400) and of OnHttpReponse (IfClose): Closed, and
\* removed; after a 400 only if the channel is still registered.
CloseAfterReply(s, c) ==
    /\ InCallback(s, c, "close")
    /\ SetClosed(c)
    /\ IF handler[s].reply = "bad" /\ ~conn[c].in_epoll
       THEN NoRemoval
       ELSE RemoveConnection(c)
    /\ AfterRead(s)
    /\ UNCHANGED sock

\* Connection::Write on a connection that is not Connected.
WriteNotConnected(s, c) ==
    /\ InCallback(s, c, "write")
    /\ conn[c].state # "Connected"
    /\ RemoveConnection(c)
    /\ AfterWrite(s)
    /\ UNCHANGED <<conn, sock>>

\* Connection::WriteNonBlocking with nothing to write: DisableWriting (READ is
\* still listened for, so the channel stays registered).
WriteNothing(s, c) ==
    LET listen == conn[c].listen \ {"WRITE"}
    IN  /\ InCallback(s, c, "write")
        /\ conn[c].state = "Connected"
        /\ ~conn[c].output
        /\ conn' = [conn EXCEPT ![c].listen = listen]
        /\ sock' = [sock EXCEPT ![c] = Rearmed(@, listen)]
        /\ AfterWrite(s)
        /\ NoRemoval

\* WriteNonBlocking, one write: all of the output, or what there is room for.
\* EPOLLOUT stays enabled in both cases.
WriteOutput(s, c) ==
    /\ InCallback(s, c, "write")
    /\ conn[c].state = "Connected"
    /\ conn[c].output
    /\ sock[c].peer # "reset"
    /\ \/ /\ sock[c].room
          /\ conn' = [conn EXCEPT ![c].output = FALSE]
          /\ UNCHANGED sock
       \/ /\ sock' = [sock EXCEPT ![c].room = FALSE]
          /\ UNCHANGED conn
    /\ AfterWrite(s)
    /\ NoRemoval

WriteFails(s, c) ==
    /\ InCallback(s, c, "write")
    /\ conn[c].state = "Connected"
    /\ conn[c].output
    /\ sock[c].peer = "reset"
    /\ SetClosed(c)
    /\ RemoveConnection(c)
    /\ AfterWrite(s)
    /\ UNCHANGED sock

\* The process does not ignore SIGPIPE: a write on a connection the client has
\* reset can end it instead of failing.
WriteRaisesSigpipe(s, c) ==
    /\ \E pc \in {"request", "sendfile", "write"} : InCallback(s, c, pc)
    /\ sock[c].peer = "reset"
    /\ exited' = "SIGPIPE"
    /\ UNCHANGED <<conn, sock, todo, handler, removals>>

-----------------------------------------------------------------------------
(***************************************************************************)
(* HttpServer::OverTime, the callback of a connection's timer.             *)
(***************************************************************************)

\* The timer's event is taken off the batch of loop l.
TimerRuns(l, c) ==
    /\ Running
    /\ phase[l] = "handle"
    /\ IF l = Main THEN main = IdleMain ELSE handler[l] = IdleHandler
    /\ TimerEvent(c) \in chs[l]
    /\ chs' = [chs EXCEPT ![l] = @ \ {TimerEvent(c)}]
    /\ UNCHANGED <<sock, connections, next, backlog, phase, functors, owned, handler>>

\* The weak_ptr has expired.
OverTimeTooLate(l, c) ==
    /\ TimerRuns(l, c)
    /\ ~Held(c)
    /\ timer' = [timer EXCEPT ![c] = NoLoop]
    /\ NoRemoval
    /\ UNCHANGED <<conn, main>>

\* No input for AUTOCLOSETIMEOUT: the connection is removed, its state stays
\* Connected.  (With input since the timer was set, the last of it may still be
\* that old.)  In the main thread RunOneFunc calls RemoveConnectionInLoop at
\* once.
OverTimeExpired(l, c) ==
    /\ TimerRuns(l, c)
    /\ Held(c)
    /\ timer' = [timer EXCEPT ![c] = NoLoop]
    /\ IF l # Main
       THEN RemoveConnection(c) /\ UNCHANGED main
       ELSE /\ removals' = [removals EXCEPT ![c] = @ + 1]
            /\ IF connections[conn[c].fd] = NoConn
               THEN exited' = "client fd not found in connection map" /\ UNCHANGED main
               ELSE main' = [conn |-> c, pc |-> "erasing"] /\ UNCHANGED exited
            /\ UNCHANGED todo
    /\ UNCHANGED conn

\* The new timer of a callback that the main loop's HandleTimers runs is erased
\* with the timers that were due if it sorts before the first that was not, or
\* if none was left: timers_.erase(timers_.begin(), end) comes after the
\* callbacks.
SurvivesErase(l, c) ==
    l = Main => \E d \in Conns \ {c} : timer[d] = Main /\ TimerEvent(d) \notin chs[Main]

\* There was input: a new timer, always on the main loop.
OverTimeRearm(l, c) ==
    /\ TimerRuns(l, c)
    /\ Held(c)
    /\ conn[c].touched
    /\ conn' = [conn EXCEPT ![c].touched = FALSE]
    /\ \/ /\ SurvivesErase(l, c)
          /\ timer' = [timer EXCEPT ![c] = Main]
          /\ UNCHANGED exited
       \/ /\ l = Main
          /\ timer' = [timer EXCEPT ![c] = NoLoop]
          /\ UNCHANGED exited
       \/ /\ l # Main
          /\ TimersBusy(Main)
          /\ exited' = "data race on timers_"
          /\ UNCHANGED timer
    /\ UNCHANGED <<todo, removals, main>>

-----------------------------------------------------------------------------
(***************************************************************************)
(* The loops.                                                              *)
(***************************************************************************)

\* epoll_wait of loop l: all that is ready and the timers that are due; it does
\* not sleep on a nonempty to_do_list_ (EventLoop!NoLostWakeup).
Poll(l) ==
    LET io == {c \in Conns : /\ conn[c].in_epoll
                             /\ conn[c].loop = l
                             /\ sock[c].edge
                             /\ Events(c) # {}}
        accept == IF l = Main /\ backlog > 0 THEN {AcceptEvent} ELSE {}
    IN  /\ Running
        /\ phase[l] = "poll"
        /\ \E due \in SUBSET {c \in Conns : timer[c] = l} :
              LET batch == accept \cup {TimerEvent(c) : c \in due}
                                  \cup {Event("io", c, Events(c)) : c \in io}
              IN  /\ batch # {} \/ todo[l] # <<>>
                  /\ chs' = [chs EXCEPT ![l] = batch]
        /\ sock' = [c \in Conns |-> IF c \in io THEN [sock[c] EXCEPT !.edge = FALSE]
                                    ELSE sock[c]]
        /\ phase' = [phase EXCEPT ![l] = "handle"]
        /\ NoRemoval
        /\ UNCHANGED <<conn, mapVars, timer, backlog, functors, owned, handler>>

\* DoToDoList: the swap.  The vector owns its connections until DoToDoList ends.
DoToDoList(l) ==
    /\ Running
    /\ phase[l] = "handle"
    /\ chs[l] = {}
    /\ IF l = Main THEN main = IdleMain ELSE handler[l] = IdleHandler
    /\ functors' = [functors EXCEPT ![l] = todo[l]]
    /\ owned' = [owned EXCEPT ![l] = Range(todo[l])]
    /\ todo' = [todo EXCEPT ![l] = <<>>]
    /\ phase' = [phase EXCEPT ![l] = "run"]
    /\ UNCHANGED <<conn, sock, mapVars, timer, backlog, chs, handler, exited, removals>>

\* Connection::ConnectionDestructor in a sub loop: Channel::RemoveInEpoll.
ConnectionDestructor(s) ==
    LET c == Head(functors[s])
    IN  /\ Running
        /\ phase[s] = "run"
        /\ functors[s] # <<>>
        /\ functors' = [functors EXCEPT ![s] = Tail(@)]
        /\ IF conn[c].in_epoll
           THEN /\ conn' = [conn EXCEPT ![c].in_epoll = FALSE, ![c].listen = {}]
                /\ UNCHANGED exited
           ELSE exited' = "Channel::RemoveInEpoll error" /\ UNCHANGED conn
        /\ UNCHANGED <<sock, mapVars, timer, backlog, phase, chs, todo, owned,
                       handler, removals>>

\* The end of DoToDoList: the vector is destroyed, with it the connections that
\* nobody else owns.
FinishToDoList(l) ==
    /\ Running
    /\ phase[l] = "run"
    /\ functors[l] = <<>>
    /\ l = Main => main = IdleMain
    /\ owned' = [owned EXCEPT ![l] = {}]
    /\ phase' = [phase EXCEPT ![l] = "poll"]
    /\ NoRemoval
    /\ UNCHANGED <<conn, sock, mapVars, timer, backlog, chs, functors, handler>>

-----------------------------------------------------------------------------
(***************************************************************************)
(* The clients.                                                            *)
(***************************************************************************)

Client(c, k, e) ==
    /\ Running
    /\ Held(c)
    /\ sock' = [sock EXCEPT ![c] = Changed(c, k, e)]
    /\ NoRemoval
    /\ UNCHANGED <<conn, mapVars, timer, backlog, loopVars, handler>>

ClientConnects ==
    /\ Running
    /\ backlog < Cardinality({c \in Conns : ~Constructed(c)})
    /\ backlog' = backlog + 1
    /\ NoRemoval
    /\ UNCHANGED <<conn, sock, mapVars, timer, loopVars, handler>>

ClientSends(c) ==
    /\ "send" \in Behaviour
    /\ sock[c].peer = "open"
    /\ ~sock[c].inbox
    /\ Client(c, [sock[c] EXCEPT !.inbox = TRUE], "READ")

\* FIN.
ClientCloses(c) ==
    /\ "close" \in Behaviour
    /\ sock[c].peer = "open"
    /\ Client(c, [sock[c] EXCEPT !.peer = "closed"], "READ")

\* RST.
ClientResets(c) ==
    /\ "reset" \in Behaviour
    /\ sock[c].peer # "reset"
    /\ Client(c, [sock[c] EXCEPT !.peer = "reset"], "READ")

\* The client reads, the send buffer has room again.
ClientReads(c) ==
    /\ "read" \in Behaviour
    /\ ~sock[c].room
    /\ sock[c].peer # "reset"
    /\ Client(c, [sock[c] EXCEPT !.room = TRUE], "WRITE")

-----------------------------------------------------------------------------
CallbackStep(s, c) ==
    \/ ReadNotConnected(s, c)
    \/ ReadToEagain(s, c)
    \/ ReadEof(s, c)
    \/ OnPartialRequest(s, c)
    \/ \E reply \in Replies \ {"partial"} :
          SendAll(s, c, reply) \/ SendSome(s, c, reply) \/ SendFails(s, c, reply)
    \/ SendFile(s, c)
    \/ CloseAfterReply(s, c)
    \/ WriteNotConnected(s, c)
    \/ WriteNothing(s, c)
    \/ WriteOutput(s, c)
    \/ WriteFails(s, c)

LoopStep(l) ==
    \/ Poll(l)
    \/ DoToDoList(l)
    \/ FinishToDoList(l)
    \/ \E c \in Conns :
          OverTimeTooLate(l, c) \/ OverTimeExpired(l, c) \/ OverTimeRearm(l, c)

SubStep(s) ==
    \/ LoopStep(s)
    \/ \E e \in chs[s] : HandleEvent(s, e)
    \/ \E c \in Conns : CallbackStep(s, c)
    \/ ConnectionDestructor(s)

MainStep ==
    \/ LoopStep(Main)
    \/ \E c \in Conns : NewConnection(c)
    \/ AcceptFails
    \/ InsertConnection
    \/ ConnectionEstablished
    \/ OnConnnectCallback
    \/ RemoveConnectionInLoop
    \/ EraseConnection

ClientStep ==
    \/ ClientConnects
    \/ \E c \in Conns :
          ClientSends(c) \/ ClientCloses(c) \/ ClientResets(c) \/ ClientReads(c)

Next ==
    \/ MainStep
    \/ \E s \in Subs : SubStep(s)
    \/ \E s \in Subs, c \in Conns : WriteRaisesSigpipe(s, c)
    \/ ClientStep

SafeSpec == Init /\ [][Next]_vars

\* Every thread is scheduled, and time passes.  Clients owe nothing.
Fairness ==
    /\ WF_vars(MainStep)
    /\ \A s \in Subs : WF_vars(SubStep(s))

Spec == SafeSpec /\ Fairness

-----------------------------------------------------------------------------
(***************************************************************************)
(* Properties.                                                             *)
(***************************************************************************)

ExitReasons ==
    {"no", "client fd not found in connection map", "Channel::RemoveInEpoll error",
     "socket accept error", "data race on connections_", "data race on timers_",
     "SIGPIPE"}

TypeOK ==
    /\ conn \in [Conns -> [fd : Fds \cup {NoFd}, loop : Loops,
                           state : {"Invaild", "Connected", "Closed"},
                           listen : SUBSET {"READ", "WRITE", "ET"},
                           in_epoll : BOOLEAN, tied : BOOLEAN,
                           output : BOOLEAN, touched : BOOLEAN]]
    /\ sock \in [Conns -> [peer : {"open", "closed", "reset"}, inbox : BOOLEAN,
                           room : BOOLEAN, edge : BOOLEAN]]
    /\ connections \in [Fds -> Conns \cup {NoConn}]
    /\ timer \in [Conns -> Loops \cup {NoLoop}]
    /\ next \in 0 .. NumSubs
    /\ backlog \in Nat
    /\ phase \in [Loops -> {"poll", "handle", "run"}]
    /\ chs \in [Loops -> SUBSET [kind : {"io", "timer", "accept"},
                                conn : Conns \cup {NoConn},
                                ready : SUBSET {"READ", "WRITE"}]]
    /\ todo \in [Loops -> Seq(Conns)]
    /\ functors \in [Loops -> Seq(Conns)]
    /\ owned \in [Loops -> SUBSET Conns]
    /\ handler \in [Subs -> [conn : Conns \cup {NoConn},
                             pc : {"idle", "read", "request", "parsing", "sendfile",
                                   "close", "write"},
                             ready : SUBSET {"READ", "WRITE"},
                             reply : AllReplies \cup {"none"}]]
    /\ main \in [conn : Conns \cup {NoConn},
                 pc : {"idle", "inserting", "establish", "connect", "erasing"}]
    /\ exited \in ExitReasons
    /\ removals \in [Conns -> Nat]

\* A channel that epoll may report, or has reported in a batch that is still
\* being handled, belongs to a live Connection: the raw Channel* of Poller::Poll
\* never dangles, although the last shared_ptr may be dropped by either thread.
NoDanglingChannel ==
    \A c \in Conns :
        (conn[c].in_epoll \/ \E s \in Subs : \E e \in chs[s] : e.kind = "io" /\ e.conn = c)
            => Held(c)

\* Descriptor reuse is safe: an entry of connections_ disappears only through the
\* removal of that very connection, never through a late removal of an earlier
\* connection with the same descriptor, nor by being overwritten in
\* NewConnection.
OnlyOwnRemovalErases ==
    [][\A f \in Fds :
          connections[f] # NoConn /\ connections'[f] # connections[f]
              => connections'[f] = NoConn /\ main.conn = connections[f]]_vars

\* What the assertions of Server::RemoveConnection and Channel::RemoveInEpoll
\* say: the connection to remove is in connections_ and its channel in epoll.
RemovalAssertionsHold ==
    exited \notin {"client fd not found in connection map", "Channel::RemoveInEpoll error"}

\* One request to remove a connection is always carried out cleanly: the two
\* assertions on the removal path fail only if some connection was removed more
\* than once.  In particular a connection is never removed before NewConnection
\* has put it into connections_.
AssertionsFailOnlyOnDoubleRemoval ==
    ~RemovalAssertionsHold => \E c \in Conns : removals[c] > 1

\* No edge is lost: input, an end of file or an error on a connection that is
\* Connected and listens is always still to be reported, reported and not yet
\* handled, or about to be read.
NoStrandedInput ==
    \A c \in Conns :
        /\ conn[c].state = "Connected"
        /\ "READ" \in conn[c].listen
        /\ "READ" \in ReadyFor(sock[c])
        /\ Running
        => \/ sock[c].edge
           \/ \E e \in chs[conn[c].loop] : e.conn = c /\ "READ" \in e.ready
           \/ handler[conn[c].loop].conn = c /\ handler[conn[c].loop].pc = "read"

\* Output that could not be sent at once is always still going to be sent: it
\* waits with EPOLLOUT enabled, and once there is room the event is pending.
NoStrandedOutput ==
    \A c \in Conns :
        /\ conn[c].state = "Connected"
        /\ conn[c].in_epoll
        /\ conn[c].output
        /\ Running
        => /\ "WRITE" \in conn[c].listen
           /\ sock[c].room =>
                 \/ sock[c].edge
                 \/ \E e \in chs[conn[c].loop] : e.conn = c /\ "WRITE" \in e.ready
                 \/ /\ handler[conn[c].loop].conn = c
                    /\ "WRITE" \in handler[conn[c].loop].ready

\* No edge of the edge-triggered epoll is lost, in either direction: what the client sent
\* is read (Connection::ReadNonBlocking), what the socket did not take at once is sent when
\* it has room again (Connection::WriteNonBlocking).
NoStrandedData == NoStrandedInput /\ NoStrandedOutput

\* The thread of the connection's loop spins, for this connection or another, in
\* SendFile on a client that does not read or in ParaseRequest.
Stalled(c) ==
    \E s \in Subs, d \in Conns :
        /\ s = conn[c].loop
        /\ handler[s].conn = d
        /\ \/ handler[s].pc = "sendfile" /\ ~sock[d].room
           \/ handler[s].pc = "parsing"

\* A connection its client has closed is released, descriptor included, unless
\* the process ends or the connection's loop is stuck sending a file to a client
\* that does not read, or parsing half a request.
ClosedPeerIsReleased ==
    \A c \in Conns :
        (Constructed(c) /\ sock[c].peer # "open")
            ~> (Freed(c) \/ ~Running \/ Stalled(c))

\* What the comment of OnConnnectCallback says of using the connection's own
\* loop for the timer: no two threads in one TimeQueue.
NoTimerThreadConflict == exited # "data race on timers_"

=============================================================================

---------------------------- MODULE ReactorProofs ----------------------------
(***************************************************************************)
(* Proofs about Reactor, for any number of connections, descriptors and    *)
(* sub loops and whatever the clients do: type correctness,                *)
(* NoDanglingChannel, OnlyOwnRemovalErases,                                *)
(* AssertionsFailOnlyOnDoubleRemoval and NoStrandedData.                   *)
(***************************************************************************)
EXTENDS Reactor, SequenceTheorems, FiniteSetTheorems, TLAPS

-----------------------------------------------------------------------------
(***************************************************************************)
(* How often a connection is in a queue.                                   *)
(***************************************************************************)
Count(q, c) == Cardinality({i \in DOMAIN q : q[i] = c})

LEMMA FiniteIndices ==
    ASSUME NEW n \in Nat, NEW T \in SUBSET (1 .. n)
    PROVE  IsFiniteSet(T) /\ Cardinality(T) \in Nat
<1>1. IsFiniteSet(1 .. n)
  BY FS_Interval
<1>2. IsFiniteSet(T)
  BY <1>1, FS_Subset
<1> QED
  BY <1>2, FS_CardinalityType

LEMMA CountType ==
    ASSUME NEW S, NEW q \in Seq(S), NEW c
    PROVE  Count(q, c) \in Nat
<1>1. DOMAIN q = 1 .. Len(q) /\ Len(q) \in Nat
  BY LenProperties
<1>2. {i \in DOMAIN q : q[i] = c} \subseteq 1 .. Len(q)
  BY <1>1
<1> QED
  BY <1>1, <1>2, FiniteIndices DEF Count

LEMMA CountAbsent ==
    ASSUME NEW q, NEW c, c \notin Range(q)
    PROVE  Count(q, c) = 0
<1>1. {i \in DOMAIN q : q[i] = c} = {}
  BY DEF Range
<1> QED
  BY <1>1, FS_EmptySet DEF Count

LEMMA CountPresent ==
    ASSUME NEW S, NEW q \in Seq(S), NEW c \in Range(q)
    PROVE  Count(q, c) >= 1
<1>1. DOMAIN q = 1 .. Len(q) /\ Len(q) \in Nat
  BY LenProperties
<1> DEFINE T == {i \in DOMAIN q : q[i] = c}
<1>2. IsFiniteSet(T) /\ Cardinality(T) \in Nat
  <2>1. T \subseteq 1 .. Len(q)
    BY <1>1
  <2> HIDE DEF T
  <2> QED
    BY <1>1, <2>1, FiniteIndices
<1>3. T # {}
  BY DEF Range
<1> HIDE DEF T
<1>4. Cardinality(T) # 0
  BY <1>2, <1>3, FS_EmptySet
<1> QED
  BY <1>2, <1>4 DEF Count, T

LEMMA CountAppend ==
    ASSUME NEW S, NEW q \in Seq(S), NEW e \in S, NEW c
    PROVE  Count(Append(q, e), c) = Count(q, c) + (IF e = c THEN 1 ELSE 0)
<1> DEFINE n == Len(q)
           T == {i \in 1 .. n : q[i] = c}
           U == {i \in 1 .. n + 1 : Append(q, e)[i] = c}
<1>1. /\ DOMAIN q = 1 .. n /\ n \in Nat
      /\ DOMAIN Append(q, e) = 1 .. n + 1
      /\ \A i \in 1 .. n : Append(q, e)[i] = q[i]
      /\ Append(q, e)[n + 1] = e
  BY LenProperties, AppendProperties
<1>2. IsFiniteSet(T) /\ Cardinality(T) \in Nat
  <2>1. T \subseteq 1 .. n
    OBVIOUS
  <2> HIDE DEF T
  <2> QED
    BY <1>1, <2>1, FiniteIndices
<1>3. n + 1 \notin T
  BY <1>1
<1>4. U = IF e = c THEN T \cup {n + 1} ELSE T
  BY <1>1
<1> HIDE DEF T, U
<1>5. Cardinality(T \cup {n + 1}) = Cardinality(T) + 1
  BY <1>2, <1>3, FS_AddElement
<1>6. Count(q, c) = Cardinality(T) /\ Count(Append(q, e), c) = Cardinality(U)
  BY <1>1 DEF Count, T, U
<1> QED
  BY <1>2, <1>4, <1>5, <1>6

LEMMA CountTail ==
    ASSUME NEW S, NEW q \in Seq(S), q # <<>>, NEW c
    PROVE  Count(q, c) = Count(Tail(q), c) + (IF Head(q) = c THEN 1 ELSE 0)
<1> DEFINE n == Len(q)
           T == {i \in 1 .. n : q[i] = c}
           U == {i \in 1 .. n - 1 : Tail(q)[i] = c}
           f == [i \in U |-> i + 1]
<1>1. /\ DOMAIN q = 1 .. n /\ n \in Nat /\ n >= 1
      /\ DOMAIN Tail(q) = 1 .. n - 1
      /\ \A i \in 1 .. n - 1 : Tail(q)[i] = q[i + 1]
      /\ Head(q) = q[1]
  BY LenProperties, HeadTailProperties, EmptySeq
<1>2. IsFiniteSet(T) /\ Cardinality(T) \in Nat /\ IsFiniteSet(U) /\ Cardinality(U) \in Nat
  <2>1. T \subseteq 1 .. n /\ U \subseteq 1 .. n
    BY <1>1
  <2> HIDE DEF T, U
  <2> QED
    BY <1>1, <2>1, FiniteIndices
<1>3. f \in Bijection(U, T \ {1})
  <2>1. \A i \in U : i + 1 \in T \ {1}
    BY <1>1
  <2>2. \A j \in T \ {1} : j - 1 \in U /\ (j - 1) + 1 = j
    BY <1>1
  <2>3. \A i, j \in U : i + 1 = j + 1 => i = j
    OBVIOUS
  <2> HIDE DEF U, T
  <2>4. f \in Injection(U, T \ {1})
    BY <2>1, <2>3 DEF Injection, IsInjective
  <2>5. f \in Surjection(U, T \ {1})
    BY <2>1, <2>2 DEF Surjection
  <2> QED
    BY <2>4, <2>5 DEF Bijection
<1> HIDE DEF f, T, U
<1>4. Cardinality(T \ {1}) = Cardinality(U)
  <2> DEFINE V == T \ {1}
  <2>1. f \in Bijection(U, V)
    BY <1>3
  <2> HIDE DEF V
  <2>2. ExistsBijection(U, V)
    BY <2>1 DEF ExistsBijection
  <2>3. Cardinality(V) = Cardinality(U)
    BY <1>2, <2>2, FS_Bijection
  <2> QED
    BY <2>3 DEF V
<1>5. Cardinality(T \ {1}) = IF 1 \in T THEN Cardinality(T) - 1 ELSE Cardinality(T)
  BY <1>2, FS_RemoveElement
<1>6. 1 \in T <=> Head(q) = c
  BY <1>1 DEF T
<1>7. Count(q, c) = Cardinality(T) /\ Count(Tail(q), c) = Cardinality(U)
  BY <1>1 DEF Count, T, U
<1> QED
  BY <1>2, <1>4, <1>5, <1>6, <1>7

\* What appending and taking the head do to the set of queued connections.
LEMMA RangeAppend ==
    ASSUME NEW S, NEW q \in Seq(S), NEW e \in S
    PROVE  Append(q, e) \in Seq(S) /\ Range(Append(q, e)) = Range(q) \cup {e}
<1>1. /\ Append(q, e) \in Seq(S)
      /\ DOMAIN q = 1 .. Len(q) /\ Len(q) \in Nat
      /\ DOMAIN Append(q, e) = 1 .. Len(q) + 1
      /\ \A i \in 1 .. Len(q) : Append(q, e)[i] = q[i]
      /\ Append(q, e)[Len(q) + 1] = e
  BY LenProperties, AppendProperties
<1> DEFINE n == Len(q)
<1> HIDE DEF n
<1>2. \A i : i \in 1 .. n + 1 <=> i \in 1 .. n \/ i = n + 1
  BY <1>1 DEF n
<1> QED
  BY <1>1, <1>2 DEF Range, n

LEMMA RangeTail ==
    ASSUME NEW S, NEW q \in Seq(S), q # <<>>
    PROVE  /\ Tail(q) \in Seq(S) /\ Head(q) \in S
           /\ Head(q) \in Range(q) /\ Range(Tail(q)) \subseteq Range(q)
           /\ Range(q) = Range(Tail(q)) \cup {Head(q)}
<1> DEFINE n == Len(q)
<1>1. /\ DOMAIN q = 1 .. n /\ n \in Nat /\ n >= 1
      /\ Tail(q) \in Seq(S) /\ Head(q) \in S
      /\ DOMAIN Tail(q) = 1 .. n - 1
      /\ \A i \in 1 .. n - 1 : Tail(q)[i] = q[i + 1]
      /\ Head(q) = q[1]
  BY LenProperties, HeadTailProperties, EmptySeq
<1> HIDE DEF n
<1>2. 1 \in 1 .. n /\ \A i \in 1 .. n - 1 : i + 1 \in 1 .. n
  BY <1>1
<1>3. \A i \in 1 .. n : i = 1 \/ (i - 1 \in 1 .. n - 1 /\ (i - 1) + 1 = i)
  BY <1>1
<1>4. Range(Tail(q)) \subseteq Range(q)
  BY <1>1, <1>2 DEF Range
<1>5. Head(q) \in Range(q)
  BY <1>1, <1>2 DEF Range
<1>6. ASSUME NEW x \in Range(q), x # Head(q)
      PROVE  x \in Range(Tail(q))
  <2>1. PICK i \in 1 .. n : q[i] = x
    BY <1>1 DEF Range
  <2>2. i - 1 \in 1 .. n - 1 /\ (i - 1) + 1 = i
    BY <1>1, <1>3, <1>6, <2>1
  <2>3. Tail(q)[i - 1] = x
    BY <1>1, <2>1, <2>2
  <2> QED
    BY <1>1, <2>2, <2>3, Zenon DEF Range
<1> QED
  BY <1>1, <1>4, <1>5, <1>6

LEMMA RangeEmpty == Range(<<>>) = {}
  BY DEF Range

-----------------------------------------------------------------------------
(***************************************************************************)
(* The inductive invariant.                                                *)
(***************************************************************************)

\* Where things are: a loop has events only while it handles them and callbacks only
\* while it runs them, which the vector owns; a sub loop is given only its own
\* connections to release.
PlaceInv ==
    /\ AcceptEvent \in chs[Main] => backlog > 0
    /\ main.pc = "idle" => main = IdleMain
    /\ main.pc # "idle" => main.conn \in Conns
    /\ \A l \in Loops :
          /\ phase[l] # "handle" => chs[l] = {}
          /\ phase[l] # "run" => functors[l] = <<>>
          /\ Range(functors[l]) \subseteq owned[l]
    /\ \A s \in Subs : \A c \in Range(todo[s]) \cup Range(functors[s]) : conn[c].loop = s

\* A connection whose events loop l handles: registered and tied.
Served(l, c) == conn[c].in_epoll /\ conn[c].tied /\ conn[c].loop = l

\* Events listened for, reported or being handled and timers are those of connections
\* that ConnectionEstablished has tied; what is handled belongs to registered ones.
EventInv ==
    /\ \A l \in Loops : \A e \in chs[l] :
          /\ e.kind = "io" => e.conn \in Conns /\ Served(l, e.conn)
          /\ e.kind = "timer" => e.conn \in Conns /\ conn[e.conn].tied
    /\ \A s \in Subs : \A c \in Conns :
          handler[s].conn = c => phase[s] = "handle" /\ Served(s, c)
    /\ \A c \in Conns :
          timer[c] # NoLoop \/ ~(conn[c].listen \subseteq {"ET"}) => conn[c].tied
    /\ main.pc = "connect" => conn[main.conn].tied

\* The owners of a connection but for the guard of Channel::HandleEvent, which is never
\* the last one.
Owned(c) ==
    \/ \E f \in Fds : connections[f] = c
    \/ OwnedByCallback(c)
    \/ main.conn = c

\* No two connections that are alive have the same descriptor, and connections_ has each
\* under its own.
ObjectInv ==
    /\ \A c \in Conns : Owned(c) \/ conn[c].in_epoll \/ conn[c].tied => Constructed(c)
    /\ \A c \in Conns : Constructed(c) => conn[c].loop \in Subs
    /\ \A f \in Fds : connections[f] # NoConn => conn[connections[f]].fd = f
    /\ \A c, d \in Conns : Owned(c) /\ Owned(d) /\ conn[c].fd = conn[d].fd => c = d
    /\ main.pc = "inserting" => connections[conn[main.conn].fd] = NoConn
    /\ main.pc \in {"establish", "connect"} => connections[conn[main.conn].fd] = main.conn

\* Who owns a registered connection: NewConnection, connections_, or the callback that
\* will take it out of epoll.
EpollInv ==
    \A c \in Conns : conn[c].in_epoll =>
        \/ main = [conn |-> c, pc |-> "inserting"]
        \/ connections[conn[c].fd] = c
        \/ c \in Range(todo[conn[c].loop])
        \/ c \in Range(functors[conn[c].loop])

\* What a removal of a connection has become: a queued or running call of
\* RemoveConnectionInLoop or of ConnectionDestructor, or the end of the latter.
Erasing(c) == IF main = [conn |-> c, pc |-> "erasing"] THEN 1 ELSE 0

Released(c) == IF conn[c].in_epoll THEN 0 ELSE 1

Tokens(c) ==
    Count(todo[Main], c) + Count(functors[Main], c) + Erasing(c)
      + Count(todo[conn[c].loop], c) + Count(functors[conn[c].loop], c) + Released(c)

RemovalInv ==
    /\ \A c \in Conns : Constructed(c) => Tokens(c) <= removals[c]
    /\ \A c \in Conns : conn[c].tied /\ connections[conn[c].fd] # c => removals[c] > 0
    /\ AssertionsFailOnlyOnDoubleRemoval

\* Nobody asks for the removal of a connection before ConnectionEstablished.
TiedInv ==
    /\ \A c \in Conns : removals[c] > 0 => conn[c].tied
    /\ main.pc \in {"inserting", "establish"} => ~conn[main.conn].tied

\* Only a registered channel listens for input, and no edge of it is lost: NoStrandedData,
\* connection by connection.
InputSeen(c) ==
    \/ sock[c].edge
    \/ \E e \in chs[conn[c].loop] : e.conn = c /\ "READ" \in e.ready
    \/ handler[conn[c].loop].conn = c /\ handler[conn[c].loop].pc = "read"

OutputSeen(c) ==
    \/ sock[c].edge
    \/ \E e \in chs[conn[c].loop] : e.conn = c /\ "WRITE" \in e.ready
    \/ /\ handler[conn[c].loop].conn = c
       /\ "WRITE" \in handler[conn[c].loop].ready

InputSafe(c) ==
    /\ conn[c].state = "Connected"
    /\ "READ" \in conn[c].listen
    /\ "READ" \in ReadyFor(sock[c])
    /\ Running
    => InputSeen(c)

OutputSafe(c) ==
    /\ conn[c].state = "Connected"
    /\ conn[c].in_epoll
    /\ conn[c].output
    /\ Running
    => "WRITE" \in conn[c].listen /\ (sock[c].room => OutputSeen(c))

DataSafe(c) ==
    /\ "READ" \in conn[c].listen => conn[c].in_epoll
    /\ InputSafe(c)
    /\ OutputSafe(c)

DataInv == \A c \in Conns : DataSafe(c)

OwnerInv == PlaceInv /\ EventInv /\ ObjectInv /\ EpollInv /\ RemovalInv

-----------------------------------------------------------------------------
(***************************************************************************)
(* Types.                                                                  *)
(***************************************************************************)
ConnType == [fd : Fds \cup {NoFd}, loop : Loops,
             state : {"Invaild", "Connected", "Closed"},
             listen : SUBSET {"READ", "WRITE", "ET"},
             in_epoll : BOOLEAN, tied : BOOLEAN,
             output : BOOLEAN, touched : BOOLEAN]

SockType == [peer : {"open", "closed", "reset"}, inbox : BOOLEAN, room : BOOLEAN,
             edge : BOOLEAN]

HandlerType == [conn : Conns \cup {NoConn},
                pc : {"idle", "read", "request", "parsing", "sendfile", "close", "write"},
                ready : SUBSET {"READ", "WRITE"},
                reply : AllReplies \cup {"none"}]

MainType == [conn : Conns \cup {NoConn},
             pc : {"idle", "inserting", "establish", "connect", "erasing"}]

EventType == [kind : {"io", "timer", "accept"}, conn : Conns \cup {NoConn},
              ready : SUBSET {"READ", "WRITE"}]

LEMMA TypeFacts ==
    ASSUME TypeOK
    PROVE  /\ conn \in [Conns -> ConnType]
           /\ sock \in [Conns -> SockType]
           /\ connections \in [Fds -> Conns \cup {NoConn}]
           /\ handler \in [Subs -> HandlerType]
           /\ main \in MainType
           /\ chs \in [Loops -> SUBSET EventType]
  BY Zenon DEF TypeOK, ConnType, SockType, HandlerType, MainType, EventType

LEMMA LoopFacts ==
    /\ Main = 0 /\ Main \in Loops /\ Subs \subseteq Loops /\ Main \notin Subs
    /\ \A s \in Subs : s # Main
    /\ NoLoop \notin Loops
    /\ Loops \subseteq Nat /\ NumSubs \in Nat /\ NumSubs >= 1
    /\ \A l \in Loops : l = Main \/ l \in Subs
  BY ReactorAssumption DEF Main, Loops, Subs, NoLoop

\* One field of a record of the right type is set.
LEMMA SetField ==
    ASSUME NEW k \in ConnType
    PROVE  /\ \A v \in {"Invaild", "Connected", "Closed"} : [k EXCEPT !.state = v] \in ConnType
           /\ \A v \in SUBSET {"READ", "WRITE", "ET"} : [k EXCEPT !.listen = v] \in ConnType
           /\ \A v \in BOOLEAN : [k EXCEPT !.tied = v] \in ConnType
           /\ \A v \in BOOLEAN : [k EXCEPT !.in_epoll = v] \in ConnType
           /\ \A v \in BOOLEAN : [k EXCEPT !.output = v] \in ConnType
           /\ \A v \in BOOLEAN : [k EXCEPT !.touched = v] \in ConnType
  BY DEF ConnType

LEMMA SetSockField ==
    ASSUME NEW k \in SockType
    PROVE  /\ \A v \in {"open", "closed", "reset"} : [k EXCEPT !.peer = v] \in SockType
           /\ \A v \in BOOLEAN : [k EXCEPT !.inbox = v] \in SockType
           /\ \A v \in BOOLEAN : [k EXCEPT !.room = v] \in SockType
           /\ \A v \in BOOLEAN : [k EXCEPT !.edge = v] \in SockType
  BY DEF SockType

LEMMA RemovalTypes ==
    ASSUME TypeOK, NEW c \in Conns, RemoveConnection(c) \/ NoRemoval
    PROVE  /\ todo' \in [Loops -> Seq(Conns)]
           /\ removals' \in [Conns -> Nat]
           /\ exited' \in ExitReasons
<1>1. CASE NoRemoval
  BY <1>1 DEF NoRemoval, TypeOK
<1>2. CASE RemoveConnection(c)
  <2>1. removals' \in [Conns -> Nat]
    <3>1. removals' = [removals EXCEPT ![c] = removals[c] + 1]
      BY <1>2 DEF RemoveConnection
    <3>2. removals \in [Conns -> Nat]
      BY DEF TypeOK
    <3> QED
      BY <3>1, <3>2
  <2>2. exited' \in ExitReasons
    BY <1>2, Zenon DEF RemoveConnection, TypeOK, ExitReasons
  <2>3. todo' \in {todo, [todo EXCEPT ![Main] = Append(todo[Main], c)]}
    BY <1>2 DEF RemoveConnection
  <2>4. Append(todo[Main], c) \in Seq(Conns) /\ todo \in [Loops -> Seq(Conns)]
    BY LoopFacts, AppendProperties DEF TypeOK
  <2> QED
    BY <2>1, <2>2, <2>3, <2>4
<1> QED
  BY <1>1, <1>2

-----------------------------------------------------------------------------
(***************************************************************************)
(* The callbacks of a connection, which run in its loop's thread, all have *)
(* one frame: they leave its descriptor, its loop and its registration     *)
(* alone, and may ask for its removal.                                     *)
(***************************************************************************)
SameIdentity(k, j) ==
    k.fd = j.fd /\ k.loop = j.loop /\ k.in_epoll = j.in_epoll /\ k.tied = j.tied

CallbackFrame(s, c) ==
    /\ Running
    /\ handler[s].conn = c
    /\ UNCHANGED <<connections, next, main, timer, backlog, phase, chs, functors, owned>>
    /\ \E k \in ConnType : conn' = [conn EXCEPT ![c] = k] /\ SameIdentity(k, conn[c])
    /\ \E h \in HandlerType : handler' = [handler EXCEPT ![s] = h] /\ h.conn \in {c, NoConn}
    /\ sock' \in [Conns -> SockType]
    /\ RemoveConnection(c) \/ NoRemoval

LEMMA HandlerNext ==
    ASSUME TypeOK, NEW s \in Subs, NEW c \in Conns, handler[s].conn = c,
           \/ AfterRead(s)
           \/ AfterWrite(s)
           \/ \E pc \in {"request", "parsing", "sendfile", "close"} :
                 handler' = [handler EXCEPT ![s].pc = pc]
           \/ \E reply \in AllReplies : AfterSend(s, reply)
    PROVE  \E h \in HandlerType : handler' = [handler EXCEPT ![s] = h] /\ h.conn \in {c, NoConn}
<1> DEFINE h0 == handler[s]
<1>1. handler \in [Subs -> HandlerType] /\ h0 \in HandlerType
  BY TypeFacts
<1>2. IdleHandler \in HandlerType /\ IdleHandler.conn = NoConn
  BY DEF IdleHandler, HandlerType
<1>3. \A pc \in {"write", "request", "parsing", "sendfile", "close"} :
         [h0 EXCEPT !.pc = pc] \in HandlerType /\ [h0 EXCEPT !.pc = pc].conn = c
  BY <1>1 DEF HandlerType
<1>4. \A pc \in {"sendfile", "close"}, reply \in AllReplies :
         [h0 EXCEPT !.reply = reply, !.pc = pc] \in HandlerType
           /\ [h0 EXCEPT !.reply = reply, !.pc = pc].conn = c
  BY <1>1 DEF HandlerType
<1>5. ASSUME AfterRead(s)
      PROVE  \E h \in HandlerType : handler' = [handler EXCEPT ![s] = h] /\ h.conn \in {c, NoConn}
  BY <1>1, <1>2, <1>3, <1>5 DEF AfterRead
<1>6. CASE AfterWrite(s)
  BY <1>2, <1>6 DEF AfterWrite
<1>7. CASE \E pc \in {"request", "parsing", "sendfile", "close"} :
              handler' = [handler EXCEPT ![s].pc = pc]
  BY <1>3, <1>7
<1>8. ASSUME NEW reply \in AllReplies, AfterSend(s, reply)
      PROVE  \E h \in HandlerType : handler' = [handler EXCEPT ![s] = h] /\ h.conn \in {c, NoConn}
  <2>1. CASE reply = "page"
    BY <1>5, <1>8, <2>1 DEF AfterSend
  <2>2. CASE reply # "page"
    <3>1. PICK pc \in {"sendfile", "close"} :
             handler' = [handler EXCEPT ![s].reply = reply, ![s].pc = pc]
      BY <1>8, <2>2 DEF AfterSend
    <3>2. handler' = [handler EXCEPT ![s] = [h0 EXCEPT !.reply = reply, !.pc = pc]]
      BY <1>1, <3>1
    <3> QED
      BY <1>4, <3>2
  <2> QED
    BY <2>1, <2>2
<1> QED
  BY <1>5, <1>6, <1>7, <1>8

LEMMA SameConn ==
    ASSUME TypeOK, NEW c \in Conns, UNCHANGED conn
    PROVE  \E k \in ConnType : conn' = [conn EXCEPT ![c] = k] /\ SameIdentity(k, conn[c])
  BY TypeFacts DEF SameIdentity

LEMMA ClosedConn ==
    ASSUME TypeOK, NEW c \in Conns, SetClosed(c)
    PROVE  \E k \in ConnType : conn' = [conn EXCEPT ![c] = k] /\ SameIdentity(k, conn[c])
<1> DEFINE k == [conn[c] EXCEPT !.state = "Closed"]
<1>1. conn[c] \in ConnType
  BY TypeFacts
<1>2. k \in ConnType /\ SameIdentity(k, conn[c])
  BY <1>1 DEF ConnType, SameIdentity
<1>3. conn' = [conn EXCEPT ![c] = k]
  BY DEF SetClosed
<1> QED
  BY <1>2, <1>3

LEMMA ListenConn ==
    ASSUME TypeOK, NEW c \in Conns, NEW listen \in SUBSET {"READ", "WRITE", "ET"},
           NEW output \in BOOLEAN,
           conn' = [conn EXCEPT ![c].output = output, ![c].listen = listen]
    PROVE  \E k \in ConnType : conn' = [conn EXCEPT ![c] = k] /\ SameIdentity(k, conn[c])
<1> DEFINE k == [conn[c] EXCEPT !.output = output, !.listen = listen]
<1>1. conn[c] \in ConnType /\ conn \in [Conns -> ConnType]
  BY TypeFacts
<1>2. k \in ConnType /\ SameIdentity(k, conn[c])
  BY <1>1 DEF ConnType, SameIdentity
<1>3. conn' = [conn EXCEPT ![c] = k]
  BY <1>1
<1> QED
  BY <1>2, <1>3

LEMMA RearmedType ==
    ASSUME NEW k \in SockType, NEW listen
    PROVE  /\ Rearmed(k, listen) \in SockType
           /\ Rearmed(k, listen).peer = k.peer
           /\ Rearmed(k, listen).inbox = k.inbox
           /\ Rearmed(k, listen).room = k.room
           /\ Rearmed(k, listen).edge <=> k.edge \/ ReadyFor(k) \cap listen # {}
<1> DEFINE ready == ReadyFor(k) \cap listen # {}
<1>1. k.edge \in BOOLEAN /\ (k.edge \/ ready) \in BOOLEAN
  BY Zenon DEF SockType
<1> HIDE DEF ready
<1>2. [k EXCEPT !.edge = k.edge \/ ready] \in SockType
  BY <1>1, SetSockField, Zenon
<1>3. Rearmed(k, listen) = [k EXCEPT !.edge = k.edge \/ ready]
  BY DEF Rearmed, ready
<1>4. /\ [k EXCEPT !.edge = k.edge \/ ready].peer = k.peer
      /\ [k EXCEPT !.edge = k.edge \/ ready].inbox = k.inbox
      /\ [k EXCEPT !.edge = k.edge \/ ready].room = k.room
      /\ [k EXCEPT !.edge = k.edge \/ ready].edge = (k.edge \/ ready)
  BY DEF SockType
<1> QED
  BY <1>2, <1>3, <1>4, Zenon DEF ready

LEMMA CallbackIsFrame ==
    ASSUME TypeOK, NEW s \in Subs, NEW c \in Conns, CallbackStep(s, c)
    PROVE  CallbackFrame(s, c)
<1> DEFINE NextHandler ==
              \E h \in HandlerType : handler' = [handler EXCEPT ![s] = h] /\ h.conn \in {c, NoConn}
           NextConn ==
              \E k \in ConnType : conn' = [conn EXCEPT ![c] = k] /\ SameIdentity(k, conn[c])
<1>1. /\ conn \in [Conns -> ConnType] /\ conn[c] \in ConnType
      /\ sock \in [Conns -> SockType] /\ sock[c] \in SockType
      /\ handler \in [Subs -> HandlerType]
      /\ Replies \subseteq AllReplies
  BY TypeFacts, ReactorAssumption
<1>2. /\ Running /\ handler[s].conn = c
      /\ UNCHANGED <<connections, next, main, timer, backlog, phase, chs, functors, owned>>
  BY DEF CallbackStep, ReadNotConnected, ReadToEagain, ReadEof, OnPartialRequest, SendAll,
     SendSome, SendFails, SendFile, CloseAfterReply, WriteNotConnected, WriteNothing,
     WriteOutput, WriteFails, InCallback, mapVars, loopVars
<1>3. RemoveConnection(c) \/ NoRemoval
  BY DEF CallbackStep, ReadNotConnected, ReadToEagain, ReadEof, OnPartialRequest, SendAll,
     SendSome, SendFails, SendFile, CloseAfterReply, WriteNotConnected, WriteNothing,
     WriteOutput, WriteFails
<1>4. NextHandler
  <2>1. CASE \/ ReadNotConnected(s, c) \/ ReadEof(s, c) \/ CloseAfterReply(s, c)
             \/ SendFile(s, c) /\ AfterRead(s)
    <3>1. AfterRead(s)
      BY <2>1 DEF ReadNotConnected, ReadEof, CloseAfterReply
    <3> QED
      BY <1>2, <3>1, HandlerNext
  <2>2. CASE \/ WriteNotConnected(s, c) \/ WriteNothing(s, c) \/ WriteOutput(s, c)
             \/ WriteFails(s, c)
    <3>1. AfterWrite(s)
      BY <2>2 DEF WriteNotConnected, WriteNothing, WriteOutput, WriteFails
    <3> QED
      BY <1>2, <3>1, HandlerNext
  <2>3. CASE ReadToEagain(s, c) \/ OnPartialRequest(s, c) \/ (SendFile(s, c) /\ ~AfterRead(s))
    <3>1. \E pc \in {"request", "parsing", "sendfile", "close"} :
             handler' = [handler EXCEPT ![s].pc = pc]
      BY <2>3 DEF ReadToEagain, OnPartialRequest, SendFile
    <3> QED
      BY <1>2, <3>1, HandlerNext
  <2>4. CASE \E reply \in Replies \ {"partial"} :
                SendAll(s, c, reply) \/ SendSome(s, c, reply) \/ SendFails(s, c, reply)
    <3>1. PICK reply \in AllReplies : AfterSend(s, reply)
      BY <1>1, <2>4 DEF SendAll, SendSome, SendFails
    <3> QED
      BY <1>2, <3>1, HandlerNext
  <2> QED
    BY <2>1, <2>2, <2>3, <2>4 DEF CallbackStep
<1>5. NextConn
  <2>1. CASE \/ ReadNotConnected(s, c) \/ OnPartialRequest(s, c) \/ SendFile(s, c)
             \/ WriteNotConnected(s, c) \/ (\E reply \in Replies : SendAll(s, c, reply))
    <3>1. UNCHANGED conn
      BY <2>1 DEF ReadNotConnected, OnPartialRequest, SendFile, WriteNotConnected, SendAll
    <3> QED
      BY <3>1, SameConn
  <2>2. CASE \/ ReadEof(s, c) \/ CloseAfterReply(s, c) \/ WriteFails(s, c)
             \/ (\E reply \in Replies : SendFails(s, c, reply))
    <3>1. SetClosed(c)
      BY <2>2 DEF ReadEof, CloseAfterReply, WriteFails, SendFails
    <3> QED
      BY <3>1, ClosedConn
  <2>3. CASE ReadToEagain(s, c)
    <3>1. conn' = [conn EXCEPT ![c] = [conn[c] EXCEPT !.touched = TRUE]]
      BY <2>3 DEF ReadToEagain
    <3>2. /\ [conn[c] EXCEPT !.touched = TRUE] \in ConnType
          /\ SameIdentity([conn[c] EXCEPT !.touched = TRUE], conn[c])
      BY <1>1 DEF ConnType, SameIdentity
    <3> QED
      BY <3>1, <3>2
  <2>4. CASE \E reply \in Replies : SendSome(s, c, reply)
    <3>1. conn' = [conn EXCEPT ![c].output = TRUE, ![c].listen = EnableWriting(c)]
      BY <2>4 DEF SendSome
    <3>2. EnableWriting(c) \in SUBSET {"READ", "WRITE", "ET"}
      BY <1>1 DEF ConnType, EnableWriting
    <3> QED
      BY <3>1, <3>2, ListenConn
  <2>5. CASE WriteNothing(s, c)
    <3> DEFINE k == [conn[c] EXCEPT !.listen = conn[c].listen \ {"WRITE"}]
    <3>1. conn' = [conn EXCEPT ![c] = k]
      BY <2>5 DEF WriteNothing
    <3>2. k \in ConnType /\ SameIdentity(k, conn[c])
      BY <1>1 DEF ConnType, SameIdentity
    <3> QED
      BY <3>1, <3>2
  <2>6. CASE WriteOutput(s, c)
    <3> DEFINE k == [conn[c] EXCEPT !.output = FALSE]
    <3>1. UNCHANGED conn \/ conn' = [conn EXCEPT ![c] = k]
      BY <2>6 DEF WriteOutput
    <3>2. k \in ConnType /\ SameIdentity(k, conn[c])
      BY <1>1 DEF ConnType, SameIdentity
    <3> QED
      BY <3>1, <3>2, SameConn
  <2> QED
    BY <2>1, <2>2, <2>3, <2>4, <2>5, <2>6 DEF CallbackStep
<1>6. sock' \in [Conns -> SockType]
  <2>1. CASE UNCHANGED sock
    BY <1>1, <2>1
  <2>2. CASE ReadToEagain(s, c) \/ ReadEof(s, c)
    <3>1. sock' = [sock EXCEPT ![c] = [sock[c] EXCEPT !.inbox = FALSE]]
      BY <2>2 DEF ReadToEagain, ReadEof, ReadAll
    <3>2. [sock[c] EXCEPT !.inbox = FALSE] \in SockType
      BY <1>1, SetSockField
    <3> QED
      BY <1>1, <3>1, <3>2
  <2>3. CASE SendFile(s, c) \/ WriteOutput(s, c)
    <3>1. UNCHANGED sock \/ sock' = [sock EXCEPT ![c] = [sock[c] EXCEPT !.room = FALSE]]
      BY <2>3 DEF SendFile, WriteOutput
    <3>2. [sock[c] EXCEPT !.room = FALSE] \in SockType
      BY <1>1, SetSockField
    <3> QED
      BY <1>1, <3>1, <3>2
  <2>4. CASE \E reply \in Replies : SendSome(s, c, reply)
    <3> DEFINE left == [sock[c] EXCEPT !.room = @ /\ conn[c].output]
    <3>1. sock' = [sock EXCEPT ![c] = Rearmed(left, EnableWriting(c))]
      BY <2>4 DEF SendSome
    <3>2. (sock[c].room /\ conn[c].output) \in BOOLEAN
      BY Zenon
    <3>3. left \in SockType
      BY <1>1, <3>2, SetSockField, Zenon
    <3>4. Rearmed(left, EnableWriting(c)) \in SockType
      BY <3>3, RearmedType, Zenon
    <3> QED
      BY <1>1, <3>1, <3>4
  <2>5. CASE WriteNothing(s, c)
    <3>1. sock' = [sock EXCEPT ![c] = Rearmed(sock[c], conn[c].listen \ {"WRITE"})]
      BY <2>5 DEF WriteNothing
    <3>2. Rearmed(sock[c], conn[c].listen \ {"WRITE"}) \in SockType
      BY <1>1, RearmedType, Zenon
    <3> QED
      BY <1>1, <3>1, <3>2
  <2> QED
    BY <2>1, <2>2, <2>3, <2>4, <2>5
       DEF CallbackStep, ReadNotConnected, OnPartialRequest, SendAll, SendFails,
           CloseAfterReply, WriteNotConnected, WriteFails
<1> QED
  BY <1>2, <1>3, <1>4, <1>5, <1>6, Zenon DEF CallbackFrame

-----------------------------------------------------------------------------
(***************************************************************************)
(* Type correctness, action by action.                                     *)
(***************************************************************************)
LEMMA TypeInit == Init => TypeOK
<1> SUFFICES ASSUME Init PROVE TypeOK
  OBVIOUS
<1>1. <<>> \in Seq(Conns)
  BY EmptySeq
<1>2. conn \in [Conns -> ConnType] /\ sock \in [Conns -> SockType]
  BY LoopFacts DEF Init, NewConn, NewSock, ConnType, SockType
<1>3. handler \in [Subs -> HandlerType] /\ main \in MainType
  BY DEF Init, IdleHandler, IdleMain, HandlerType, MainType
<1>4. next \in 0 .. NumSubs /\ backlog \in Nat /\ removals \in [Conns -> Nat]
  BY LoopFacts DEF Init
<1>5. /\ connections \in [Fds -> Conns \cup {NoConn}]
      /\ timer \in [Conns -> Loops \cup {NoLoop}]
      /\ phase \in [Loops -> {"poll", "handle", "run"}]
      /\ chs \in [Loops -> SUBSET EventType]
      /\ todo \in [Loops -> Seq(Conns)]
      /\ functors \in [Loops -> Seq(Conns)]
      /\ owned \in [Loops -> SUBSET Conns]
      /\ exited \in ExitReasons
  BY <1>1 DEF Init, ExitReasons
<1> QED
  BY <1>2, <1>3, <1>4, <1>5, Zenon
     DEF TypeOK, ConnType, SockType, HandlerType, MainType, EventType

LEMMA TypeCallback ==
    ASSUME TypeOK, NEW s \in Subs, NEW c \in Conns, CallbackFrame(s, c)
    PROVE  TypeOK'
<1>1. PICK k \in ConnType : conn' = [conn EXCEPT ![c] = k]
  BY DEF CallbackFrame
<1>2. PICK h \in HandlerType : handler' = [handler EXCEPT ![s] = h]
  BY DEF CallbackFrame
<1>3. conn' \in [Conns -> ConnType] /\ handler' \in [Subs -> HandlerType]
  BY <1>1, <1>2, TypeFacts
<1>4. /\ todo' \in [Loops -> Seq(Conns)]
      /\ removals' \in [Conns -> Nat]
      /\ exited' \in ExitReasons
  BY RemovalTypes DEF CallbackFrame
<1>5. /\ sock' \in [Conns -> SockType]
      /\ UNCHANGED <<connections, next, main, timer, backlog, phase, chs, functors, owned>>
  BY DEF CallbackFrame
<1> QED
  BY <1>3, <1>4, <1>5, Zenon DEF TypeOK, ConnType, SockType, HandlerType

LEMMA TypeMain ==
    ASSUME TypeOK, PlaceInv,
           \/ \E c \in Conns : NewConnection(c)
           \/ AcceptFails
           \/ InsertConnection
           \/ ConnectionEstablished
           \/ OnConnnectCallback
           \/ RemoveConnectionInLoop
           \/ EraseConnection
    PROVE  TypeOK'
<1>1. /\ conn \in [Conns -> ConnType] /\ sock \in [Conns -> SockType]
      /\ connections \in [Fds -> Conns \cup {NoConn}]
      /\ main \in MainType
      /\ main.pc # "idle" => main.conn \in Conns
      /\ IdleMain \in MainType
  BY TypeFacts DEF PlaceInv, IdleMain, MainType
<1>2. ASSUME NEW c \in Conns, NewConnection(c)
      PROVE  TypeOK'
  <2>1. PICK f \in Fds :
           conn' = [conn EXCEPT ![c] = [NewConn EXCEPT !.fd = f, !.loop = NextLoop,
                       !.state = "Connected", !.listen = EtOnly, !.in_epoll = TRUE]]
    BY <1>2 DEF NewConnection
  <2>2. NextLoop \in Loops /\ NextLoop \in 0 .. NumSubs
    BY LoopFacts DEF NextLoop, TypeOK, Loops, Subs
  <2>3. conn' \in [Conns -> ConnType]
    <3>1. [NewConn EXCEPT !.fd = f, !.loop = NextLoop, !.state = "Connected",
                          !.listen = EtOnly, !.in_epoll = TRUE] \in ConnType
      BY <2>2 DEF NewConn, EtOnly, ConnType
    <3> QED
      BY <1>1, <2>1, <3>1
  <2>4. backlog' \in Nat
    <3>1. backlog > 0 /\ backlog \in Nat
      BY <1>2 DEF NewConnection, PlaceInv, TypeOK
    <3>2. backlog' = backlog - 1
      BY <1>2 DEF NewConnection
    <3> QED
      BY <3>1, <3>2
  <2>5. chs' \in [Loops -> SUBSET EventType]
    <3>1. chs' = [chs EXCEPT ![Main] = chs[Main] \ {AcceptEvent}]
      BY <1>2 DEF NewConnection
    <3> QED
      BY <3>1, TypeFacts, LoopFacts
  <2>6. main' \in MainType
    BY <1>2 DEF NewConnection, MainType
  <2>7. /\ next' = NextLoop
        /\ UNCHANGED <<sock, connections, timer, phase, functors, owned, handler, todo,
                       removals, exited>>
    BY <1>2 DEF NewConnection, NoRemoval
  <2> QED
    BY <2>2, <2>3, <2>4, <2>5, <2>6, <2>7, Zenon DEF TypeOK, ConnType, EventType, MainType
<1>3. CASE AcceptFails
  <2>1. exited' \in ExitReasons
    BY <1>3 DEF AcceptFails, ExitReasons
  <2> QED
    BY <1>3, <2>1, Zenon DEF AcceptFails, mapVars, loopVars, TypeOK
<1>4. CASE InsertConnection
  <2>1. main.conn \in Conns
    BY <1>1, <1>4 DEF InsertConnection
  <2>2. connections' \in [Fds -> Conns \cup {NoConn}]
    BY <1>1, <1>4, <2>1 DEF InsertConnection
  <2>3. main' \in MainType
    BY <1>1, <1>4 DEF InsertConnection, MainType
  <2> QED
    BY <1>4, <2>2, <2>3, Zenon DEF InsertConnection, NoRemoval, loopVars, TypeOK, MainType
<1>5. CASE ConnectionEstablished
  <2> DEFINE c == main.conn
             listen == conn[c].listen \cup {"READ"}
             k == [[conn[c] EXCEPT !.tied = TRUE] EXCEPT !.listen = listen]
  <2>1. c \in Conns /\ conn[c] \in ConnType /\ sock[c] \in SockType
    BY <1>1, <1>5 DEF ConnectionEstablished
  <2>2. conn' = [conn EXCEPT ![c].tied = TRUE, ![c].listen = listen]
    BY <1>5 DEF ConnectionEstablished
  <2>3. sock' = [sock EXCEPT ![c] = Rearmed(sock[c], listen)]
    BY <1>5 DEF ConnectionEstablished
  <2>4. conn' = [conn EXCEPT ![c] = k]
    BY <1>1, <2>1, <2>2
  <2>5. k \in ConnType
    BY <2>1 DEF ConnType
  <2>6. conn' \in [Conns -> ConnType]
    BY <1>1, <2>4, <2>5
  <2>7. sock' \in [Conns -> SockType]
    <3>1. Rearmed(sock[c], listen) \in SockType
      BY <2>1, RearmedType, Zenon
    <3> QED
      BY <1>1, <2>3, <3>1
  <2>8. main' \in MainType
    BY <1>1, <1>5 DEF ConnectionEstablished, MainType
  <2> QED
    BY <1>5, <2>6, <2>7, <2>8, Zenon
       DEF ConnectionEstablished, NoRemoval, loopVars, TypeOK, MainType, ConnType, SockType
<1>6. CASE OnConnnectCallback
  <2>1. main.conn \in Conns /\ conn[main.conn].loop \in Loops
    BY <1>1, <1>6 DEF OnConnnectCallback, ConnType
  <2>2. \/ UNCHANGED timer
        \/ \E l \in Loops \cup {NoLoop} : timer' = [timer EXCEPT ![main.conn] = l]
    BY <1>6, <2>1 DEF OnConnnectCallback
  <2>3. timer' \in [Conns -> Loops \cup {NoLoop}]
    BY <2>1, <2>2 DEF TypeOK
  <2>4. exited' \in ExitReasons
    BY <1>6, Zenon DEF OnConnnectCallback, TypeOK, ExitReasons
  <2>5. main' \in MainType
    BY <1>1, <1>6 DEF OnConnnectCallback
  <2> QED
    BY <1>6, <2>3, <2>4, <2>5, Zenon DEF OnConnnectCallback, loopVars, TypeOK, MainType
<1>7. CASE RemoveConnectionInLoop
  <2>1. /\ Head(functors[Main]) \in Conns /\ Tail(functors[Main]) \in Seq(Conns)
        /\ functors \in [Loops -> Seq(Conns)]
    BY <1>7, LoopFacts, HeadTailProperties DEF RemoveConnectionInLoop, TypeOK
  <2>2. functors' \in [Loops -> Seq(Conns)]
    BY <1>7, <2>1 DEF RemoveConnectionInLoop
  <2>3. main' \in MainType
    BY <1>7, <2>1 DEF RemoveConnectionInLoop, MainType
  <2> QED
    BY <1>7, <2>2, <2>3, Zenon DEF RemoveConnectionInLoop, NoRemoval, TypeOK, MainType
<1>8. CASE EraseConnection
  <2> DEFINE c == main.conn
  <2>1. c \in Conns /\ conn[c].loop \in Loops
    BY <1>1, <1>8 DEF EraseConnection, ConnType
  <2>2. connections' \in [Fds -> Conns \cup {NoConn}]
    BY <1>1, <1>8 DEF EraseConnection, Erase
  <2>3. todo' \in [Loops -> Seq(Conns)]
    <3>1. todo' = [todo EXCEPT ![conn[c].loop] = Append(todo[conn[c].loop], c)]
      BY <1>8 DEF EraseConnection, QueueDestructor
    <3>2. todo \in [Loops -> Seq(Conns)]
      BY DEF TypeOK
    <3>3. Append(todo[conn[c].loop], c) \in Seq(Conns)
      BY <2>1, <3>2, AppendProperties
    <3> QED
      BY <3>1, <3>2, <3>3
  <2>4. main' \in MainType
    BY <1>1, <1>8 DEF EraseConnection
  <2> QED
    BY <1>8, <2>2, <2>3, <2>4, Zenon DEF EraseConnection, loopVars, TypeOK, MainType
<1> QED
  BY <1>2, <1>3, <1>4, <1>5, <1>6, <1>7, <1>8

LEMMA TypeLoop ==
    ASSUME TypeOK, NEW l \in Loops,
           \/ Poll(l) \/ DoToDoList(l) \/ FinishToDoList(l)
           \/ \E c \in Conns :
                 OverTimeTooLate(l, c) \/ OverTimeExpired(l, c) \/ OverTimeRearm(l, c)
    PROVE  TypeOK'
<1>1. /\ conn \in [Conns -> ConnType] /\ sock \in [Conns -> SockType]
      /\ main \in MainType /\ chs \in [Loops -> SUBSET EventType]
  BY TypeFacts
<1>2. CASE Poll(l)
  <2>1. sock' \in [Conns -> SockType]
    <3>1. sock' = [c \in Conns |->
                      IF c \in {d \in Conns : /\ conn[d].in_epoll /\ conn[d].loop = l
                                              /\ sock[d].edge /\ Events(d) # {}}
                      THEN [sock[c] EXCEPT !.edge = FALSE] ELSE sock[c]]
      BY <1>2 DEF Poll
    <3>2. \A c \in Conns : [sock[c] EXCEPT !.edge = FALSE] \in SockType
      BY <1>1, SetSockField
    <3> QED
      BY <1>1, <3>1, <3>2
  <2>2. chs' \in [Loops -> SUBSET EventType]
    <3>1. AcceptEvent \in EventType
      BY DEF AcceptEvent, Event, EventType
    <3>2. \A c \in Conns : TimerEvent(c) \in EventType
      BY DEF TimerEvent, Event, EventType
    <3>3. \A c \in Conns : Event("io", c, Events(c)) \in EventType
      BY DEF Event, Events, ReadyFor, EventType
    <3> DEFINE io == {c \in Conns : /\ conn[c].in_epoll /\ conn[c].loop = l
                                    /\ sock[c].edge /\ Events(c) # {}}
               accept == IF l = Main /\ backlog > 0 THEN {AcceptEvent} ELSE {}
               Batch(due) == accept \cup {TimerEvent(c) : c \in due}
                                    \cup {Event("io", c, Events(c)) : c \in io}
    <3>4. PICK due \in SUBSET {c \in Conns : timer[c] = l} :
             chs' = [chs EXCEPT ![l] = Batch(due)]
      BY <1>2 DEF Poll
    <3>5. accept \subseteq EventType
      BY <3>1
    <3>6. {TimerEvent(c) : c \in due} \subseteq EventType
      BY <3>2
    <3>7. {Event("io", c, Events(c)) : c \in io} \subseteq EventType
      BY <3>3
    <3>8. Batch(due) \in SUBSET EventType
      BY <3>5, <3>6, <3>7, Zenon
    <3> HIDE DEF Batch
    <3> QED
      BY <1>1, <3>4, <3>8
  <2>3. phase' \in [Loops -> {"poll", "handle", "run"}]
    BY <1>2 DEF Poll, TypeOK
  <2> QED
    BY <1>2, <2>1, <2>2, <2>3, Zenon DEF Poll, NoRemoval, mapVars, TypeOK, SockType, EventType
<1>3. CASE DoToDoList(l)
  <2>1. /\ todo \in [Loops -> Seq(Conns)] /\ <<>> \in Seq(Conns)
        /\ Range(todo[l]) \subseteq Conns
    <3>1. todo[l] \in Seq(Conns)
      BY DEF TypeOK
    <3>2. Range(todo[l]) \subseteq Conns
      BY <3>1, LenProperties, ElementOfSeq DEF Range
    <3> QED
      BY <3>2, EmptySeq DEF TypeOK
  <2>2. todo' \in [Loops -> Seq(Conns)]
    BY <1>3, <2>1 DEF DoToDoList
  <2>3. functors' \in [Loops -> Seq(Conns)]
    BY <1>3, <2>1 DEF DoToDoList, TypeOK
  <2>4. owned' \in [Loops -> SUBSET Conns]
    BY <1>3, <2>1 DEF DoToDoList, TypeOK
  <2>5. phase' \in [Loops -> {"poll", "handle", "run"}]
    BY <1>3 DEF DoToDoList, TypeOK
  <2> QED
    BY <1>3, <2>2, <2>3, <2>4, <2>5, Zenon DEF DoToDoList, mapVars, TypeOK
<1>4. CASE FinishToDoList(l)
  <2>1. owned' \in [Loops -> SUBSET Conns]
    BY <1>4 DEF FinishToDoList, TypeOK
  <2>2. phase' \in [Loops -> {"poll", "handle", "run"}]
    BY <1>4 DEF FinishToDoList, TypeOK
  <2> QED
    BY <1>4, <2>1, <2>2, Zenon DEF FinishToDoList, NoRemoval, mapVars, TypeOK
<1>5. ASSUME NEW c \in Conns,
             OverTimeTooLate(l, c) \/ OverTimeExpired(l, c) \/ OverTimeRearm(l, c)
      PROVE  TypeOK'
  <2>1. /\ chs' = [chs EXCEPT ![l] = @ \ {TimerEvent(c)}]
        /\ UNCHANGED <<sock, connections, next, backlog, phase, functors, owned, handler>>
    BY <1>5 DEF OverTimeTooLate, OverTimeExpired, OverTimeRearm, TimerRuns
  <2>2. chs' \in [Loops -> SUBSET EventType]
    BY <1>1, <2>1
  <2>3. timer' \in [Conns -> Loops \cup {NoLoop}]
    <3>1. \/ UNCHANGED timer \/ timer' = [timer EXCEPT ![c] = Main]
          \/ timer' = [timer EXCEPT ![c] = NoLoop]
      BY <1>5 DEF OverTimeTooLate, OverTimeExpired, OverTimeRearm
    <3>2. timer \in [Conns -> Loops \cup {NoLoop}] /\ Main \in Loops \cup {NoLoop}
      BY LoopFacts DEF TypeOK
    <3> QED
      BY <3>1, <3>2
  <2>4. conn' \in [Conns -> ConnType]
    <3>1. UNCHANGED conn \/ conn' = [conn EXCEPT ![c] = [conn[c] EXCEPT !.touched = FALSE]]
      BY <1>5 DEF OverTimeTooLate, OverTimeExpired, OverTimeRearm
    <3>2. [conn[c] EXCEPT !.touched = FALSE] \in ConnType
      BY <1>1, SetField
    <3> QED
      BY <1>1, <3>1, <3>2
  <2>5. main' \in MainType
    <3>1. UNCHANGED main \/ main' = [conn |-> c, pc |-> "erasing"]
      BY <1>5 DEF OverTimeTooLate, OverTimeExpired, OverTimeRearm
    <3>2. [conn |-> c, pc |-> "erasing"] \in MainType
      BY DEF MainType
    <3> QED
      BY <1>1, <3>1, <3>2
  <2>6. /\ todo' \in [Loops -> Seq(Conns)]
        /\ removals' \in [Conns -> Nat]
        /\ exited' \in ExitReasons
    <3>1. CASE OverTimeTooLate(l, c)
      BY <3>1, RemovalTypes DEF OverTimeTooLate
    <3>2. CASE OverTimeExpired(l, c) /\ l # Main
      BY <3>2, RemovalTypes DEF OverTimeExpired
    <3>3. CASE OverTimeExpired(l, c) /\ l = Main
      <4>1. removals' = [removals EXCEPT ![c] = removals[c] + 1] /\ UNCHANGED todo
        BY <3>3 DEF OverTimeExpired
      <4>2. exited' \in ExitReasons
        BY <3>3, Zenon DEF OverTimeExpired, TypeOK, ExitReasons
      <4>3. removals \in [Conns -> Nat]
        BY DEF TypeOK
      <4> QED
        BY <4>1, <4>2, <4>3, SMTT(30) DEF TypeOK
    <3>4. CASE OverTimeRearm(l, c)
      <4>1. exited' \in ExitReasons
        BY <3>4, Zenon DEF OverTimeRearm, TypeOK, ExitReasons
      <4> QED
        BY <3>4, <4>1 DEF OverTimeRearm, TypeOK
    <3> QED
      BY <1>5, <3>1, <3>2, <3>3, <3>4
  <2> QED
    BY <2>1, <2>2, <2>3, <2>4, <2>5, <2>6, Zenon DEF TypeOK, ConnType, MainType, EventType
<1> QED
  BY <1>2, <1>3, <1>4, <1>5

LEMMA TypeSub ==
    ASSUME TypeOK, NEW s \in Subs,
           (\E e \in chs[s] : HandleEvent(s, e)) \/ ConnectionDestructor(s)
    PROVE  TypeOK'
<1>1. /\ conn \in [Conns -> ConnType] /\ handler \in [Subs -> HandlerType]
      /\ chs \in [Loops -> SUBSET EventType] /\ s \in Loops
  BY TypeFacts, LoopFacts
<1>2. ASSUME NEW e \in chs[s], HandleEvent(s, e)
      PROVE  TypeOK'
  <2>1. e \in EventType
    BY <1>1
  <2>2. /\ chs' = [chs EXCEPT ![s] = @ \ {e}]
        /\ handler' = [handler EXCEPT ![s] =
              [conn |-> e.conn, ready |-> e.ready, reply |-> "none",
               pc |-> IF "READ" \in e.ready THEN "read" ELSE "write"]]
    BY <1>2 DEF HandleEvent
  <2>3. handler' \in [Subs -> HandlerType]
    BY <1>1, <2>1, <2>2 DEF EventType, HandlerType
  <2>4. chs' \in [Loops -> SUBSET EventType]
    BY <1>1, <2>2
  <2> QED
    BY <1>2, <2>3, <2>4, Zenon DEF HandleEvent, NoRemoval, mapVars, TypeOK, HandlerType, EventType
<1>3. CASE ConnectionDestructor(s)
  <2> DEFINE c == Head(functors[s])
  <2>1. /\ functors \in [Loops -> Seq(Conns)]
        /\ c \in Conns /\ Tail(functors[s]) \in Seq(Conns)
    BY <1>1, <1>3, HeadTailProperties DEF ConnectionDestructor, TypeOK
  <2>2. functors' \in [Loops -> Seq(Conns)]
    BY <1>3, <2>1 DEF ConnectionDestructor
  <2>3. conn' \in [Conns -> ConnType]
    <3> DEFINE k == [[conn[c] EXCEPT !.in_epoll = FALSE] EXCEPT !.listen = {}]
    <3>1. UNCHANGED conn \/ conn' = [conn EXCEPT ![c].in_epoll = FALSE, ![c].listen = {}]
      BY <1>3 DEF ConnectionDestructor
    <3>2. UNCHANGED conn \/ conn' = [conn EXCEPT ![c] = k]
      BY <1>1, <2>1, <3>1
    <3>3. k \in ConnType
      BY <1>1, <2>1, ZenonT(60) DEF ConnType
    <3> QED
      BY <1>1, <2>1, <3>2, <3>3
  <2>4. exited' \in ExitReasons
    BY <1>3, Zenon DEF ConnectionDestructor, TypeOK, ExitReasons
  <2> QED
    BY <1>3, <2>2, <2>3, <2>4, Zenon DEF ConnectionDestructor, mapVars, TypeOK, ConnType
<1> QED
  BY <1>2, <1>3

LEMMA ClientFrame ==
    ASSUME TypeOK, ClientStep
    PROVE  /\ Running
           /\ backlog' \in Nat /\ backlog' >= backlog
           /\ sock' \in [Conns -> SockType]
           /\ UNCHANGED <<conn, connections, next, main, timer, phase, chs, todo, functors,
                          owned, handler, exited, removals>>
<1>1. sock \in [Conns -> SockType] /\ backlog \in Nat
  BY TypeFacts DEF TypeOK
<1>2. CASE ClientConnects
  BY <1>1, <1>2 DEF ClientConnects, NoRemoval, mapVars, loopVars
<1>3. ASSUME NEW c \in Conns, NEW k \in SockType, NEW e, Client(c, k, e)
      PROVE  /\ Running /\ UNCHANGED backlog
             /\ sock' \in [Conns -> SockType]
             /\ UNCHANGED <<conn, connections, next, main, timer, phase, chs, todo, functors,
                            owned, handler, exited, removals>>
  <2>1. sock' = [sock EXCEPT ![c] = Changed(c, k, e)]
    BY <1>3 DEF Client
  <2>2. Changed(c, k, e) \in SockType
    <3>1. (k.edge \/ (conn[c].in_epoll /\ e \in conn[c].listen)) \in BOOLEAN
      BY Zenon
    <3> QED
      BY <3>1, SetSockField, Zenon DEF Changed
  <2> QED
    BY <1>1, <1>3, <2>1, <2>2 DEF Client, NoRemoval, mapVars, loopVars
<1>4. ASSUME NEW c \in Conns,
             ClientSends(c) \/ ClientCloses(c) \/ ClientResets(c) \/ ClientReads(c)
      PROVE  \E k \in SockType, e \in {"READ", "WRITE"} : Client(c, k, e)
  BY <1>1, <1>4, SetSockField DEF ClientSends, ClientCloses, ClientResets, ClientReads
<1> QED
  BY <1>1, <1>2, <1>3, <1>4 DEF ClientStep

LEMMA TypeNext ==
    ASSUME TypeOK, PlaceInv, [Next]_vars
    PROVE  TypeOK'
<1>1. CASE MainStep
  BY <1>1, TypeMain, TypeLoop, LoopFacts DEF MainStep, LoopStep
<1>2. ASSUME NEW s \in Subs, SubStep(s)
      PROVE  TypeOK'
  BY <1>2, TypeSub, TypeLoop, LoopFacts, CallbackIsFrame, TypeCallback DEF SubStep, LoopStep
<1>3. ASSUME NEW s \in Subs, NEW c \in Conns, WriteRaisesSigpipe(s, c)
      PROVE  TypeOK'
  <2>1. exited' \in ExitReasons
    BY <1>3 DEF WriteRaisesSigpipe, ExitReasons
  <2> QED
    BY <1>3, <2>1, Zenon DEF WriteRaisesSigpipe, InCallback, mapVars, loopVars, TypeOK
<1>4. CASE ClientStep
  BY <1>4, ClientFrame, ZenonT(60) DEF TypeOK, SockType
<1>5. CASE UNCHANGED vars
  BY <1>5 DEF vars, TypeOK
<1> QED
  BY <1>1, <1>2, <1>3, <1>4, <1>5 DEF Next

-----------------------------------------------------------------------------
(***************************************************************************)
(* Who owns what.                                                          *)
(***************************************************************************)
LEMMA QueueFacts ==
    ASSUME TypeOK
    PROVE  /\ todo \in [Loops -> Seq(Conns)] /\ functors \in [Loops -> Seq(Conns)]
           /\ owned \in [Loops -> SUBSET Conns]
           /\ removals \in [Conns -> Nat]
           /\ phase \in [Loops -> {"poll", "handle", "run"}]
           /\ timer \in [Conns -> Loops \cup {NoLoop}]
           /\ \A l \in Loops, c \in Conns :
                 Count(todo[l], c) \in Nat /\ Count(functors[l], c) \in Nat
<1>1. /\ todo \in [Loops -> Seq(Conns)] /\ functors \in [Loops -> Seq(Conns)]
      /\ owned \in [Loops -> SUBSET Conns]
      /\ removals \in [Conns -> Nat]
      /\ phase \in [Loops -> {"poll", "handle", "run"}]
      /\ timer \in [Conns -> Loops \cup {NoLoop}]
  BY DEF TypeOK
<1> QED
  BY <1>1, CountType

\* The connections in connections_ are under a descriptor of the kernel.
LEMMA FdFacts ==
    ASSUME TypeOK, NEW c \in Conns
    PROVE  /\ conn[c].fd \in Fds \cup {NoFd} /\ conn[c].loop \in Loops
           /\ conn[c].in_epoll \in BOOLEAN /\ conn[c].tied \in BOOLEAN
           /\ Constructed(c) => conn[c].fd \in Fds
           /\ c # NoConn
<1>1. conn[c] \in ConnType
  BY TypeFacts
<1> QED
  BY <1>1, ReactorAssumption DEF ConnType, Constructed

LEMMA RegisteredIsOwned ==
    ASSUME TypeOK, PlaceInv, ObjectInv, EpollInv, NEW c \in Conns, conn[c].in_epoll
    PROVE  Owned(c) /\ Constructed(c) /\ conn[c].fd \in Fds /\ conn[c].loop \in Subs
<1>1. Constructed(c) /\ conn[c].loop \in Subs
  BY DEF ObjectInv
<1>2. conn[c].fd \in Fds
  BY <1>1, FdFacts
<1>3. conn[c].loop \in Loops
  BY <1>1, LoopFacts
<1>4. CASE main = [conn |-> c, pc |-> "inserting"]
  BY <1>1, <1>2, <1>4 DEF Owned
<1>5. CASE connections[conn[c].fd] = c
  BY <1>1, <1>2, <1>5 DEF Owned
<1>6. CASE c \in Range(todo[conn[c].loop])
  BY <1>1, <1>2, <1>3, <1>6 DEF Owned, OwnedByCallback
<1>7. CASE c \in Range(functors[conn[c].loop])
  BY <1>1, <1>2, <1>3, <1>7 DEF Owned, OwnedByCallback, PlaceInv
<1> QED
  BY <1>4, <1>5, <1>6, <1>7 DEF EpollInv

LEMMA HeldIsOwned ==
    ASSUME TypeOK, PlaceInv, EventInv, ObjectInv, EpollInv
    PROVE  \A c \in Conns : Held(c) <=> Owned(c)
<1> SUFFICES ASSUME NEW c \in Conns
             PROVE  Held(c) <=> Owned(c)
  OBVIOUS
<1>1. Owned(c) => Held(c)
  BY DEF Owned, Held
<1>2. Held(c) => Owned(c) \/ \E s \in Subs : handler[s].conn = c
  BY DEF Owned, Held
<1>3. ASSUME NEW s \in Subs, handler[s].conn = c
      PROVE  Owned(c)
  <2>1. conn[c].in_epoll
    BY <1>3 DEF EventInv, Served
  <2> QED
    BY <2>1, RegisteredIsOwned
<1> QED
  BY <1>1, <1>2, <1>3

\* A connection that waits in a loop's queues, or is in connections_, is owned.
LEMMA QueuedIsOwned ==
    ASSUME TypeOK, PlaceInv, NEW c \in Conns
    PROVE  /\ \A l \in Loops : c \in Range(todo[l]) \cup Range(functors[l]) \cup owned[l] => Owned(c)
           /\ \A f \in Fds : connections[f] = c => Owned(c)
           /\ main.conn = c => Owned(c)
<1>1. \A l \in Loops : c \in Range(functors[l]) => c \in owned[l]
  BY DEF PlaceInv
<1> QED
  BY <1>1 DEF Owned, OwnedByCallback

-----------------------------------------------------------------------------
(***************************************************************************)
(* Steps that may ask for a removal and change no other owner: every step  *)
(* but those of the main thread, of DoToDoList and of ConnectionDestructor.*)
(***************************************************************************)
OwnersFrame ==
    /\ \A c \in Conns : SameIdentity(conn'[c], conn[c])
    /\ UNCHANGED <<connections, main, functors, owned>>

Unasked == UNCHANGED <<todo, removals>> /\ (UNCHANGED exited \/ RemovalAssertionsHold')

LEMMA OwnersQueue ==
    ASSUME TypeOK, NEW c \in Conns, RemoveConnection(c) \/ Unasked, Running
    PROVE  /\ \A l \in Loops, d \in Conns :
                 d \in Range(todo'[l]) <=> d \in Range(todo[l]) \/ (d = c /\ l = Main /\ todo' # todo)
           /\ \A l \in Loops, d \in Conns :
                 Count(todo'[l], d) =
                    Count(todo[l], d) + (IF d = c /\ l = Main /\ todo' # todo THEN 1 ELSE 0)
           /\ todo' # todo => removals'[c] = removals[c] + 1
           /\ \A d \in Conns : removals'[d] >= removals[d]
<1>1. removals \in [Conns -> Nat]
  BY DEF TypeOK
<1>2. \A l \in Loops, d \in Conns : Count(todo[l], d) \in Nat
  BY QueueFacts
<1>3. CASE UNCHANGED todo
  <2>1. \A d \in Conns : removals'[d] >= removals[d]
    <3>1. CASE UNCHANGED removals
      BY <1>1, <3>1
    <3>2. CASE removals' = [removals EXCEPT ![c] = removals[c] + 1]
      BY <1>1, <3>2
    <3> QED
      BY <3>1, <3>2 DEF RemoveConnection, Unasked
  <2>2. \A l \in Loops, d \in Conns :
           Count(todo'[l], d) =
              Count(todo[l], d) + (IF d = c /\ l = Main /\ todo' # todo THEN 1 ELSE 0)
    <3>1. \A n \in Nat : n = n + 0
      OBVIOUS
    <3> QED
      BY <1>2, <1>3, <3>1, Zenon
  <2>3. \A l \in Loops, d \in Conns :
           d \in Range(todo'[l]) <=> d \in Range(todo[l]) \/ (d = c /\ l = Main /\ todo' # todo)
    BY <1>3, Zenon
  <2>4. todo' # todo => removals'[c] = removals[c] + 1
    BY <1>3
  <2> QED
    BY <2>1, <2>2, <2>3, <2>4
<1>4. CASE todo' = [todo EXCEPT ![Main] = Append(todo[Main], c)] /\ RemoveConnection(c)
  <2>1. todo \in [Loops -> Seq(Conns)] /\ Main \in Loops /\ todo[Main] \in Seq(Conns)
    BY QueueFacts, LoopFacts
  <2>2. /\ todo'[Main] = Append(todo[Main], c)
        /\ \A l \in Loops : l # Main => todo'[l] = todo[l]
    BY <1>4, <2>1
  <2>3. Range(todo'[Main]) = Range(todo[Main]) \cup {c}
    BY <2>1, <2>2, RangeAppend
  <2>4. \A d \in Conns : Count(todo'[Main], d) = Count(todo[Main], d) + (IF c = d THEN 1 ELSE 0)
    BY <2>1, <2>2, CountAppend
  <2>5. todo' # todo
    <3>1. Count(todo'[Main], c) = Count(todo[Main], c) + 1
      BY <2>4
    <3>2. Count(todo[Main], c) \in Nat
      BY <1>2, <2>1
    <3> QED
      BY <3>1, <3>2
  <2>6. removals' = [removals EXCEPT ![c] = removals[c] + 1]
    BY <1>4 DEF RemoveConnection
  <2>7. removals'[c] = removals[c] + 1 /\ \A d \in Conns : removals'[d] >= removals[d]
    BY <1>1, <2>6
  <2>8. \A l \in Loops, d \in Conns :
           d \in Range(todo'[l]) <=> d \in Range(todo[l]) \/ (d = c /\ l = Main /\ todo' # todo)
    <3>1. \A d : d \in Range(todo'[Main]) <=> d \in Range(todo[Main]) \/ d = c
      BY <2>3
    <3> QED
      BY <2>2, <2>5, <3>1, Zenon
  <2>9. \A l \in Loops, d \in Conns :
           Count(todo'[l], d) =
              Count(todo[l], d) + (IF d = c /\ l = Main /\ todo' # todo THEN 1 ELSE 0)
    <3>1. \A l \in Loops, d \in Conns : l # Main => Count(todo'[l], d) = Count(todo[l], d)
      BY <2>2, Zenon
    <3> QED
      BY <1>2, <2>4, <2>5, <3>1
  <2> QED
    BY <2>7, <2>8, <2>9, Zenon
<1> QED
  BY <1>3, <1>4 DEF RemoveConnection, Unasked

LEMMA OwnersStep ==
    ASSUME TypeOK, TypeOK', OwnerInv, OwnersFrame, Running,
           \/ Unasked
           \/ \E c \in Conns : RemoveConnection(c) /\ Owned(c) /\ conn[c].tied
    PROVE  ObjectInv' /\ EpollInv' /\ RemovalInv'
<1>1. \A c \in Conns : /\ conn'[c].fd = conn[c].fd /\ conn'[c].loop = conn[c].loop
                       /\ conn'[c].in_epoll = conn[c].in_epoll /\ conn'[c].tied = conn[c].tied
  BY DEF OwnersFrame, SameIdentity
<1>2. UNCHANGED <<connections, main, functors, owned>>
  BY DEF OwnersFrame
<1>3. /\ \A c \in Conns : (Constructed(c))' <=> Constructed(c)
      /\ \A c \in Conns : conn[c].in_epoll \/ conn[c].tied => Constructed(c)
      /\ \A c \in Conns : Owned(c) => Constructed(c)
      /\ \A c \in Conns : Constructed(c) => conn[c].loop \in Subs /\ conn[c].fd \in Fds
  BY <1>1, FdFacts DEF Constructed, OwnerInv, ObjectInv
<1>4. ASSUME NEW c \in Conns,
             Unasked \/ (RemoveConnection(c) /\ Owned(c) /\ conn[c].tied)
      PROVE  ObjectInv' /\ EpollInv' /\ RemovalInv'
  <2>1. /\ \A l \in Loops, d \in Conns :
              d \in Range(todo'[l]) <=> d \in Range(todo[l]) \/ (d = c /\ l = Main /\ todo' # todo)
        /\ \A l \in Loops, d \in Conns :
              Count(todo'[l], d) =
                 Count(todo[l], d) + (IF d = c /\ l = Main /\ todo' # todo THEN 1 ELSE 0)
        /\ todo' # todo => removals'[c] = removals[c] + 1
        /\ \A d \in Conns : removals'[d] >= removals[d]
    BY <1>4, OwnersQueue
  <2>2. \A d \in Conns : (Owned(d))' => Owned(d)
    <3>1. todo' # todo => Owned(c)
      BY <1>4 DEF Unasked
    <3>2. ASSUME NEW d \in Conns, (Owned(d))'
          PROVE  Owned(d)
      <4>1. CASE (\E f \in Fds : connections[f] = d) \/ main.conn = d
        BY <4>1 DEF Owned
      <4>2. CASE \E l \in Loops : d \in Range(todo'[l])
        BY <2>1, <3>1, <4>2 DEF Owned, OwnedByCallback
      <4>3. CASE \E l \in Loops : d \in owned[l]
        BY <4>3 DEF Owned, OwnedByCallback
      <4> QED
        BY <1>2, <3>2, <4>1, <4>2, <4>3 DEF Owned, OwnedByCallback
    <3> QED
      BY <3>2
  <2>3. ObjectInv'
    <3>1. \A d \in Conns : (Owned(d))' \/ conn'[d].in_epoll \/ conn'[d].tied => (Constructed(d))'
      BY <1>1, <1>3, <2>2
    <3>2. \A d \in Conns : (Constructed(d))' => conn'[d].loop \in Subs
      BY <1>1, <1>3
    <3>3. \A f \in Fds : connections[f] # NoConn => conn'[connections[f]].fd = f
      <4>1. \A f \in Fds : connections[f] # NoConn =>
               connections[f] \in Conns /\ conn[connections[f]].fd = f
        BY DEF OwnerInv, ObjectInv, TypeOK
      <4> QED
        BY <1>1, <4>1
    <3>4. \A d, e \in Conns : (Owned(d))' /\ (Owned(e))' /\ conn'[d].fd = conn'[e].fd => d = e
      BY <1>1, <2>2 DEF OwnerInv, ObjectInv
    <3>5. main.pc # "idle" => conn'[main.conn].fd = conn[main.conn].fd
      BY <1>1 DEF OwnerInv, PlaceInv
    <3>6. /\ main.pc = "inserting" => connections[conn'[main.conn].fd] = NoConn
          /\ main.pc \in {"establish", "connect"} => connections[conn'[main.conn].fd] = main.conn
      BY <3>5 DEF OwnerInv, ObjectInv
    <3> QED
      BY <1>2, <3>1, <3>2, <3>3, <3>4, <3>6, Zenon DEF ObjectInv
  <2>4. EpollInv'
    <3> SUFFICES ASSUME NEW d \in Conns, conn'[d].in_epoll
                 PROVE  \/ main = [conn |-> d, pc |-> "inserting"]
                        \/ connections[conn'[d].fd] = d
                        \/ d \in Range(todo'[conn'[d].loop])
                        \/ d \in Range(functors[conn'[d].loop])
      BY <1>2, Zenon DEF EpollInv
    <3>1. conn[d].in_epoll /\ conn'[d].fd = conn[d].fd /\ conn'[d].loop = conn[d].loop
      BY <1>1
    <3>2. conn[d].loop \in Loops
      BY FdFacts
    <3> QED
      BY <2>1, <3>1, <3>2 DEF OwnerInv, EpollInv
  <2>5. RemovalInv'
    <3>1. ASSUME NEW d \in Conns, Constructed(d)
          PROVE  (Tokens(d))' <= removals'[d]
      <4>1. conn[d].loop \in Subs /\ conn[d].loop \in Loops /\ conn[d].loop # Main /\ Main \in Loops
        BY <1>3, <3>1, LoopFacts
      <4>2. Count(todo'[conn[d].loop], d) = Count(todo[conn[d].loop], d)
        BY <2>1, <4>1, QueueFacts, SMTT(30)
      <4>3. Count(todo'[Main], d) =
               Count(todo[Main], d) + (IF d = c /\ todo' # todo THEN 1 ELSE 0)
        BY <2>1, <4>1
      <4>4. /\ Count(todo[Main], d) \in Nat /\ Count(functors[Main], d) \in Nat
            /\ Count(todo[conn[d].loop], d) \in Nat /\ Count(functors[conn[d].loop], d) \in Nat
            /\ removals[d] \in Nat /\ removals'[d] \in Nat
        BY <4>1, QueueFacts DEF TypeOK
      <4>5. (Erasing(d))' = Erasing(d) /\ (Released(d))' = Released(d)
            /\ Erasing(d) \in Nat /\ Released(d) \in Nat
        BY <1>1, <1>2 DEF Erasing, Released
      <4>6. /\ Tokens(d) = Count(todo[Main], d) + Count(functors[Main], d) + Erasing(d)
                  + Count(todo[conn[d].loop], d) + Count(functors[conn[d].loop], d) + Released(d)
            /\ (Tokens(d))' = Count(todo'[Main], d) + Count(functors[Main], d) + Erasing(d)
                  + Count(todo'[conn[d].loop], d) + Count(functors[conn[d].loop], d) + Released(d)
        BY <1>1, <1>2, <4>5 DEF Tokens
      <4>7. Tokens(d) <= removals[d]
        BY <3>1 DEF OwnerInv, RemovalInv
      <4>8. removals'[d] >= removals[d] + (IF d = c /\ todo' # todo THEN 1 ELSE 0)
        BY <2>1, <4>4
      <4> HIDE DEF Tokens, Erasing, Released
      <4> QED
        BY <4>2, <4>3, <4>4, <4>5, <4>6, <4>7, <4>8
    <3>2. ASSUME NEW d \in Conns, conn'[d].tied, connections[conn'[d].fd] # d
          PROVE  removals'[d] > 0
      <4>1. removals[d] > 0
        BY <1>1, <3>2 DEF OwnerInv, RemovalInv
      <4> QED
        BY <2>1, <4>1, QueueFacts DEF TypeOK
    <3>3. AssertionsFailOnlyOnDoubleRemoval'
      <4>1. CASE RemovalAssertionsHold'
        BY <4>1 DEF AssertionsFailOnlyOnDoubleRemoval
      <4>2. CASE UNCHANGED exited
        BY <4>2 DEF AssertionsFailOnlyOnDoubleRemoval, RemovalAssertionsHold, Running
      <4>3. CASE RemoveConnection(c) /\ exited' = "client fd not found in connection map"
        <5>1. connections[conn[c].fd] = NoConn
          BY <4>3 DEF RemoveConnection, Running
        <5>2. conn[c].tied
          BY <1>3, <1>4, <4>3 DEF Unasked, RemovalAssertionsHold, Running
        <5>3. removals[c] > 0
          BY <5>1, <5>2, FdFacts DEF OwnerInv, RemovalInv
        <5>4. removals'[c] = removals[c] + 1
          BY <4>3, QueueFacts DEF RemoveConnection
        <5>5. removals'[c] > 1
          BY <5>3, <5>4, QueueFacts
        <5> QED
          BY <5>5 DEF AssertionsFailOnlyOnDoubleRemoval
      <4>4. RemoveConnection(c) => UNCHANGED exited \/ RemovalAssertionsHold'
                                     \/ exited' = "client fd not found in connection map"
        BY DEF RemoveConnection, RemovalAssertionsHold
      <4> QED
        BY <1>4, <4>1, <4>2, <4>3, <4>4 DEF Unasked
    <3> QED
      BY <1>2, <1>3, <3>1, <3>2, <3>3, Zenon DEF RemovalInv
  <2> QED
    BY <2>3, <2>4, <2>5
<1>5. CASE Conns = {}
  <2>1. main.conn \in Conns \/ main.pc = "idle"
    BY DEF OwnerInv, PlaceInv
  <2>2. \A f \in Fds : connections[f] = NoConn
    BY <1>5 DEF TypeOK
  <2>3. ObjectInv'
    BY <1>2, <1>5, <2>1, <2>2 DEF ObjectInv
  <2>4. EpollInv'
    BY <1>5 DEF EpollInv
  <2>5. RemovalAssertionsHold'
    BY <1>5 DEF Unasked, RemovalAssertionsHold, Running
  <2> QED
    BY <1>5, <2>3, <2>4, <2>5 DEF RemovalInv, AssertionsFailOnlyOnDoubleRemoval
<1> QED
  BY <1>4, <1>5

LEMMA FrameStep ==
    ASSUME TypeOK, TypeOK', OwnerInv, OwnersFrame, Running,
           \/ Unasked
           \/ \E c \in Conns : RemoveConnection(c) /\ Owned(c) /\ conn[c].tied,
           UNCHANGED phase, backlog' >= backlog,
           \A l \in Loops : chs'[l] \subseteq chs[l],
           \A s \in Subs, c \in Conns :
              handler'[s].conn = c => phase[s] = "handle" /\ Served(s, c),
           \A c \in Conns :
              timer'[c] # NoLoop \/ ~(conn'[c].listen \subseteq {"ET"}) => conn[c].tied
    PROVE  OwnerInv'
<1>1. \A c \in Conns : /\ conn'[c].fd = conn[c].fd /\ conn'[c].loop = conn[c].loop
                       /\ conn'[c].in_epoll = conn[c].in_epoll /\ conn'[c].tied = conn[c].tied
  BY DEF OwnersFrame, SameIdentity
<1>2. UNCHANGED <<connections, main, functors, owned>>
  BY DEF OwnersFrame
<1>3. \A l \in Loops, c \in Conns : (Served(l, c))' <=> Served(l, c)
  BY <1>1 DEF Served
<1>4. PlaceInv /\ EventInv
  BY DEF OwnerInv
<1>5. PlaceInv'
  <2>1. AcceptEvent \in chs'[Main] => backlog' > 0
    BY <1>4, LoopFacts DEF PlaceInv, TypeOK
  <2>2. \A l \in Loops : /\ phase[l] # "handle" => chs'[l] = {}
                         /\ phase[l] # "run" => functors[l] = <<>>
                         /\ Range(functors[l]) \subseteq owned[l]
    BY <1>4 DEF PlaceInv
  <2>3. ASSUME NEW s \in Subs
        PROVE  \A c \in Range(todo'[s]) \cup Range(functors[s]) : conn'[c].loop = s
    <3>1. todo'[s] = todo[s]
      <4>1. \/ UNCHANGED todo
            \/ \E c \in Conns : todo' = [todo EXCEPT ![Main] = Append(todo[Main], c)]
        BY DEF Unasked, RemoveConnection
      <4>2. s # Main /\ s \in Loops
        BY LoopFacts
      <4> QED
        BY <4>1, <4>2, QueueFacts
    <3>2. Range(todo[s]) \cup Range(functors[s]) \subseteq Conns
      <4>1. todo[s] \in Seq(Conns) /\ functors[s] \in Seq(Conns)
        BY LoopFacts, QueueFacts
      <4> QED
        BY <4>1, LenProperties, ElementOfSeq DEF Range
    <3> QED
      BY <1>1, <1>4, <3>1, <3>2 DEF PlaceInv
  <2> QED
    BY <1>2, <1>4, <2>1, <2>2, <2>3, Zenon DEF PlaceInv
<1>6. EventInv'
  <2>1. ASSUME NEW l \in Loops, NEW e \in chs'[l]
        PROVE  /\ e.kind = "io" => e.conn \in Conns /\ (Served(l, e.conn))'
               /\ e.kind = "timer" => e.conn \in Conns /\ conn'[e.conn].tied
    <3>1. e \in chs[l]
      BY <2>1
    <3> QED
      BY <1>1, <1>3, <1>4, <3>1 DEF EventInv
  <2>2. \A s \in Subs : \A c \in Conns :
           handler'[s].conn = c => phase[s] = "handle" /\ (Served(s, c))'
    BY <1>3, LoopFacts
  <2>3. \A c \in Conns :
           timer'[c] # NoLoop \/ ~(conn'[c].listen \subseteq {"ET"}) => conn'[c].tied
    BY <1>1
  <2>4. main.pc = "connect" => conn'[main.conn].tied
    BY <1>1, <1>4 DEF EventInv, PlaceInv
  <2> QED
    BY <1>2, <2>1, <2>2, <2>3, <2>4, Zenon DEF EventInv
<1> QED
  BY <1>5, <1>6, OwnersStep DEF OwnerInv

\* What a connection whose event is being handled may do.
LEMMA CallbackOwners ==
    ASSUME TypeOK, TypeOK', OwnerInv, NEW s \in Subs, NEW c \in Conns, CallbackFrame(s, c)
    PROVE  OwnerInv'
<1>1. Served(s, c) /\ phase[s] = "handle" /\ Owned(c)
  <2>1. Served(s, c) /\ phase[s] = "handle"
    BY DEF CallbackFrame, OwnerInv, EventInv
  <2> QED
    BY <2>1, RegisteredIsOwned DEF Served, OwnerInv
<1>2. /\ Running
      /\ UNCHANGED <<connections, next, main, timer, backlog, phase, chs, functors, owned>>
      /\ RemoveConnection(c) \/ NoRemoval
  BY DEF CallbackFrame
<1>3. PICK k \in ConnType : conn' = [conn EXCEPT ![c] = k] /\ SameIdentity(k, conn[c])
  BY DEF CallbackFrame
<1>4. PICK h \in HandlerType : handler' = [handler EXCEPT ![s] = h] /\ h.conn \in {c, NoConn}
  BY DEF CallbackFrame
<1>5. conn \in [Conns -> ConnType] /\ handler \in [Subs -> HandlerType]
  BY TypeFacts
<1>6. OwnersFrame
  BY <1>2, <1>3, <1>5 DEF OwnersFrame, SameIdentity
<1>7. \/ Unasked
      \/ \E d \in Conns : RemoveConnection(d) /\ Owned(d) /\ conn[d].tied
  BY <1>1, <1>2 DEF Unasked, NoRemoval, Served
<1>8. \A r \in Subs, d \in Conns :
         handler'[r].conn = d => phase[r] = "handle" /\ Served(r, d)
  <2>1. \A r \in Subs, d \in Conns :
           handler[r].conn = d => phase[r] = "handle" /\ Served(r, d)
    BY DEF OwnerInv, EventInv
  <2>2. \A r \in Subs : handler'[r] = IF r = s THEN h ELSE handler[r]
    BY <1>4, <1>5
  <2> QED
    BY <1>1, <1>4, <2>1, <2>2, FdFacts
<1>9. \A d \in Conns :
         timer'[d] # NoLoop \/ ~(conn'[d].listen \subseteq {"ET"}) => conn[d].tied
  <2>1. conn[c].tied
    BY <1>1 DEF Served
  <2>2. \A d \in Conns : d # c => conn'[d] = conn[d]
    BY <1>3, <1>5
  <2> QED
    BY <1>2, <2>1, <2>2 DEF OwnerInv, EventInv
<1>10. backlog' >= backlog
  BY <1>2 DEF TypeOK
<1> QED
  BY <1>2, <1>6, <1>7, <1>8, <1>9, <1>10, FrameStep

LEMMA QuietOwners ==
    ASSUME TypeOK, TypeOK', OwnerInv, Running, backlog' >= backlog,
           UNCHANGED <<conn, connections, main, timer, phase, chs, todo, functors, owned,
                       handler, removals>>,
           UNCHANGED exited \/ RemovalAssertionsHold'
    PROVE  OwnerInv'
<1>1. OwnersFrame /\ Unasked
  BY DEF OwnersFrame, SameIdentity, Unasked
<1>2. \A s \in Subs, c \in Conns : handler'[s].conn = c => phase[s] = "handle" /\ Served(s, c)
  BY DEF OwnerInv, EventInv
<1>3. \A c \in Conns :
         timer'[c] # NoLoop \/ ~(conn'[c].listen \subseteq {"ET"}) => conn[c].tied
  BY DEF OwnerInv, EventInv
<1> QED
  BY <1>1, <1>2, <1>3, FrameStep

LEMMA HandleEventOwners ==
    ASSUME TypeOK, TypeOK', OwnerInv, NEW s \in Subs, NEW e \in chs[s], HandleEvent(s, e)
    PROVE  OwnerInv'
<1>1. /\ Running /\ phase[s] = "handle" /\ e.kind = "io"
      /\ chs' = [chs EXCEPT ![s] = chs[s] \ {e}]
      /\ handler' = [handler EXCEPT ![s] =
            [conn |-> e.conn, ready |-> e.ready, reply |-> "none",
             pc |-> IF "READ" \in e.ready THEN "read" ELSE "write"]]
      /\ UNCHANGED <<conn, connections, main, timer, backlog, phase, functors, owned, todo,
                     removals, exited>>
  BY DEF HandleEvent, NoRemoval, mapVars
<1>2. OwnersFrame /\ Unasked
  BY <1>1 DEF OwnersFrame, SameIdentity, Unasked
<1>3. chs \in [Loops -> SUBSET EventType] /\ handler \in [Subs -> HandlerType] /\ s \in Loops
  BY TypeFacts, LoopFacts
<1>4. Served(s, e.conn)
  BY <1>1, <1>3 DEF OwnerInv, EventInv
<1>5. \A r \in Subs, c \in Conns :
         handler'[r].conn = c => phase[r] = "handle" /\ Served(r, c)
  <2>1. \A r \in Subs, c \in Conns :
           handler[r].conn = c => phase[r] = "handle" /\ Served(r, c)
    BY DEF OwnerInv, EventInv
  <2>2. \A r \in Subs : r # s => handler'[r] = handler[r]
    BY <1>1, <1>3
  <2>3. handler'[s].conn = e.conn
    BY <1>1, <1>3
  <2> QED
    BY <1>1, <1>4, <2>1, <2>2, <2>3
<1>6. \A c \in Conns :
         timer'[c] # NoLoop \/ ~(conn'[c].listen \subseteq {"ET"}) => conn[c].tied
  BY <1>1 DEF OwnerInv, EventInv
<1>7. \A l \in Loops : chs'[l] \subseteq chs[l]
  BY <1>1, <1>3
<1>8. backlog' >= backlog
  BY <1>1 DEF TypeOK
<1> QED
  BY <1>1, <1>2, <1>5, <1>6, <1>7, <1>8, FrameStep

\* The timers of a loop: too late, rearmed, or expired in a sub loop.
LEMMA TimerOwners ==
    ASSUME TypeOK, TypeOK', OwnerInv, NEW l \in Loops, NEW c \in Conns,
           \/ OverTimeTooLate(l, c) \/ OverTimeRearm(l, c)
           \/ OverTimeExpired(l, c) /\ l # Main
    PROVE  OwnerInv'
<1>1. /\ Running /\ TimerEvent(c) \in chs[l]
      /\ chs' = [chs EXCEPT ![l] = chs[l] \ {TimerEvent(c)}]
      /\ UNCHANGED <<connections, backlog, phase, functors, owned, handler, main>>
  BY DEF OverTimeTooLate, OverTimeRearm, OverTimeExpired, TimerRuns
<1>2. conn \in [Conns -> ConnType] /\ chs \in [Loops -> SUBSET EventType]
  BY TypeFacts
<1>3. conn[c].tied
  <2>1. TimerEvent(c).kind = "timer" /\ TimerEvent(c).conn = c
    BY DEF TimerEvent, Event
  <2> QED
    BY <1>1, <2>1 DEF OwnerInv, EventInv
<1>4. UNCHANGED conn \/ conn' = [conn EXCEPT ![c] = [conn[c] EXCEPT !.touched = FALSE]]
  BY DEF OverTimeTooLate, OverTimeRearm, OverTimeExpired
<1>5. \A d \in Conns : /\ SameIdentity(conn'[d], conn[d])
                       /\ conn'[d].listen = conn[d].listen
  BY <1>2, <1>4 DEF ConnType, SameIdentity
<1>6. OwnersFrame
  BY <1>1, <1>5 DEF OwnersFrame
<1>7. \/ Unasked
      \/ \E d \in Conns : RemoveConnection(d) /\ Owned(d) /\ conn[d].tied
  <2>1. CASE OverTimeTooLate(l, c)
    BY <2>1 DEF OverTimeTooLate, NoRemoval, Unasked
  <2>2. CASE OverTimeRearm(l, c)
    BY <2>2 DEF OverTimeRearm, Unasked, RemovalAssertionsHold
  <2>3. CASE OverTimeExpired(l, c) /\ l # Main
    <3>1. RemoveConnection(c) /\ Held(c)
      BY <2>3 DEF OverTimeExpired
    <3> QED
      BY <1>3, <3>1, HeldIsOwned DEF OwnerInv
  <2> QED
    BY <2>1, <2>2, <2>3
<1>8. \A d \in Conns :
         timer'[d] # NoLoop \/ ~(conn'[d].listen \subseteq {"ET"}) => conn[d].tied
  <2>1. \A d \in Conns : d # c => timer'[d] = timer[d]
    BY QueueFacts DEF OverTimeTooLate, OverTimeRearm, OverTimeExpired
  <2> QED
    BY <1>3, <1>5, <2>1 DEF OwnerInv, EventInv
<1>9. \A r \in Loops : chs'[r] \subseteq chs[r]
  BY <1>1, <1>2
<1>10. \A s \in Subs, d \in Conns : handler'[s].conn = d => phase[s] = "handle" /\ Served(s, d)
  BY <1>1 DEF OwnerInv, EventInv
<1>11. backlog' >= backlog
  BY <1>1 DEF TypeOK
<1> QED
  BY <1>1, <1>6, <1>7, <1>8, <1>9, <1>10, <1>11, FrameStep

\* Poll changes neither owners nor channels, but the events it reports are new.
LEMMA PollOwners ==
    ASSUME TypeOK, TypeOK', OwnerInv, NEW l \in Loops, Poll(l)
    PROVE  OwnerInv'
<1> DEFINE io == {c \in Conns : /\ conn[c].in_epoll /\ conn[c].loop = l
                                /\ sock[c].edge /\ Events(c) # {}}
           accept == IF l = Main /\ backlog > 0 THEN {AcceptEvent} ELSE {}
           Batch(due) == accept \cup {TimerEvent(c) : c \in due}
                                \cup {Event("io", c, Events(c)) : c \in io}
<1>1. /\ Running /\ phase[l] = "poll"
      /\ phase' = [phase EXCEPT ![l] = "handle"]
      /\ UNCHANGED <<conn, connections, main, timer, backlog, functors, owned, handler,
                     todo, removals, exited>>
  BY DEF Poll, NoRemoval, mapVars
<1>2. PICK due \in SUBSET {c \in Conns : timer[c] = l} : chs' = [chs EXCEPT ![l] = Batch(due)]
  BY DEF Poll
<1>3. PlaceInv /\ EventInv /\ l \in Loops /\ l # NoLoop
  BY LoopFacts DEF OwnerInv
<1>4. chs \in [Loops -> SUBSET EventType] /\ conn \in [Conns -> ConnType]
  BY TypeFacts
<1>5. \A r \in Loops : /\ r # l => chs'[r] = chs[r] /\ phase'[r] = phase[r]
                       /\ phase'[l] = "handle"
  BY <1>1, <1>2, <1>4, QueueFacts
<1>6. chs'[l] = Batch(due)
  BY <1>2, <1>4
<1>7. ASSUME NEW e \in Batch(due)
      PROVE  /\ e.kind = "io" => e.conn \in Conns /\ Served(l, e.conn)
             /\ e.kind = "timer" => e.conn \in Conns /\ conn[e.conn].tied
             /\ e.kind = "accept" => l = Main /\ backlog > 0
  <2>1. CASE e \in accept
    BY <2>1 DEF AcceptEvent, Event
  <2>2. ASSUME NEW c \in due, e = TimerEvent(c)
        PROVE  e.kind = "timer" /\ e.conn \in Conns /\ conn[e.conn].tied
    BY <1>3, <2>2 DEF TimerEvent, Event, EventInv
  <2>3. ASSUME NEW c \in io, e = Event("io", c, Events(c))
        PROVE  e.kind = "io" /\ e.conn \in Conns /\ Served(l, e.conn)
    <3>1. ~(conn[c].listen \subseteq {"ET"})
      BY DEF Events, ReadyFor
    <3> QED
      BY <1>3, <2>3, <3>1 DEF Event, EventInv, Served
  <2> QED
    BY <2>1, <2>2, <2>3
<1> HIDE DEF Batch
<1>8. PlaceInv'
  <2>1. AcceptEvent \in chs'[Main] => backlog > 0
    <3>1. AcceptEvent.kind = "accept"
      BY DEF AcceptEvent, Event
    <3> QED
      BY <1>3, <1>5, <1>6, <1>7, <3>1, LoopFacts DEF PlaceInv
  <2>2. \A r \in Loops : /\ phase'[r] # "handle" => chs'[r] = {}
                         /\ phase'[r] # "run" => functors[r] = <<>>
                         /\ Range(functors[r]) \subseteq owned[r]
    BY <1>1, <1>3, <1>5 DEF PlaceInv
  <2> QED
    BY <1>1, <1>3, <2>1, <2>2, Zenon DEF PlaceInv
<1>9. EventInv'
  <2>1. ASSUME NEW r \in Loops, NEW e \in chs'[r]
        PROVE  /\ e.kind = "io" => e.conn \in Conns /\ Served(r, e.conn)
               /\ e.kind = "timer" => e.conn \in Conns /\ conn[e.conn].tied
    BY <1>3, <1>5, <1>6, <1>7, <2>1 DEF EventInv
  <2>2. \A s \in Subs : \A c \in Conns :
           handler[s].conn = c => phase'[s] = "handle" /\ Served(s, c)
    BY <1>1, <1>3, <1>5, LoopFacts DEF EventInv
  <2>3. /\ \A c \in Conns :
              timer[c] # NoLoop \/ ~(conn[c].listen \subseteq {"ET"}) => conn[c].tied
        /\ main.pc = "connect" => conn[main.conn].tied
    BY <1>3 DEF EventInv
  <2>4. \A r, c : (Served(r, c))' <=> Served(r, c)
    BY <1>1 DEF Served
  <2> QED
    BY <1>1, <2>1, <2>2, <2>3, <2>4, Zenon DEF EventInv
<1>10. OwnersFrame /\ Unasked
  BY <1>1 DEF OwnersFrame, SameIdentity, Unasked
<1> QED
  BY <1>1, <1>8, <1>9, <1>10, OwnersStep DEF OwnerInv

-----------------------------------------------------------------------------
(***************************************************************************)
(* The loops' steps that move owners: the swap and the end of DoToDoList.  *)
(***************************************************************************)
LEMMA SwapOwners ==
    ASSUME TypeOK, TypeOK', OwnerInv, NEW l \in Loops, DoToDoList(l)
    PROVE  OwnerInv'
<1>1. /\ phase[l] = "handle" /\ chs[l] = {}
      /\ IF l = Main THEN main = IdleMain ELSE handler[l] = IdleHandler
      /\ functors' = [functors EXCEPT ![l] = todo[l]]
      /\ owned' = [owned EXCEPT ![l] = Range(todo[l])]
      /\ todo' = [todo EXCEPT ![l] = <<>>]
      /\ phase' = [phase EXCEPT ![l] = "run"]
      /\ UNCHANGED <<conn, connections, main, timer, backlog, chs, handler, exited, removals>>
  BY DEF DoToDoList, mapVars
<1>2. /\ todo \in [Loops -> Seq(Conns)] /\ functors \in [Loops -> Seq(Conns)]
      /\ owned \in [Loops -> SUBSET Conns] /\ phase \in [Loops -> {"poll", "handle", "run"}]
      /\ PlaceInv /\ EventInv /\ ObjectInv /\ EpollInv /\ RemovalInv
  BY QueueFacts DEF OwnerInv
<1>3. /\ functors'[l] = todo[l] /\ owned'[l] = Range(todo[l]) /\ todo'[l] = <<>>
      /\ phase'[l] = "run"
      /\ \A r \in Loops : r # l => /\ functors'[r] = functors[r] /\ owned'[r] = owned[r]
                                   /\ todo'[r] = todo[r] /\ phase'[r] = phase[r]
  BY <1>1, <1>2
<1>4. functors[l] = <<>> /\ Range(<<>>) = {} /\ \A c : Count(<<>>, c) = 0
  BY <1>1, <1>2, RangeEmpty, CountAbsent DEF PlaceInv
<1>5. \A c \in Conns : (Owned(c))' => Owned(c)
  <2>1. \A r \in Loops, c \in Conns :
           c \in Range(todo'[r]) \cup owned'[r] => c \in Range(todo[r]) \cup owned[r]
    BY <1>3, <1>4
  <2> QED
    BY <1>1, <2>1 DEF Owned, OwnedByCallback
<1>6. PlaceInv'
  <2>1. \A r \in Loops : /\ phase'[r] # "handle" => chs[r] = {}
                         /\ phase'[r] # "run" => functors'[r] = <<>>
                         /\ Range(functors'[r]) \subseteq owned'[r]
    BY <1>1, <1>2, <1>3 DEF PlaceInv
  <2>2. \A s \in Subs : \A c \in Range(todo'[s]) \cup Range(functors'[s]) : conn[c].loop = s
    BY <1>2, <1>3, <1>4, LoopFacts DEF PlaceInv
  <2> QED
    BY <1>1, <1>2, <2>1, <2>2, Zenon DEF PlaceInv
<1>7. EventInv'
  <2>1. \A s \in Subs : \A c \in Conns :
           handler[s].conn = c => phase'[s] = "handle" /\ Served(s, c)
    <3>1. ASSUME NEW s \in Subs, NEW c \in Conns, handler[s].conn = c
          PROVE  s # l
      BY <1>1, <3>1, LoopFacts, FdFacts DEF IdleHandler
    <3> QED
      BY <1>2, <1>3, <3>1, LoopFacts DEF EventInv
  <2>2. \A r, c : (Served(r, c))' <=> Served(r, c)
    BY <1>1 DEF Served
  <2> QED
    BY <1>1, <1>2, <2>1, <2>2, Zenon DEF EventInv
<1>8. ObjectInv'
  <2>1. \A c \in Conns : (Constructed(c))' <=> Constructed(c)
    BY <1>1 DEF Constructed
  <2> QED
    BY <1>1, <1>2, <1>5, <2>1, Zenon DEF ObjectInv
<1>9. EpollInv'
  <2>1. \A r \in Loops, c \in Conns :
           c \in Range(todo[r]) \cup Range(functors[r])
             => c \in Range(todo'[r]) \cup Range(functors'[r])
    BY <1>3, <1>4
  <2>2. \A c \in Conns : conn[c].loop \in Loops
    BY FdFacts
  <2>3. \A c \in Conns : conn[c].in_epoll =>
           \/ main = [conn |-> c, pc |-> "inserting"]
           \/ connections[conn[c].fd] = c
           \/ c \in Range(todo'[conn[c].loop]) \cup Range(functors'[conn[c].loop])
    BY <1>2, <2>1, <2>2 DEF EpollInv
  <2> QED
    BY <1>1, <2>3 DEF EpollInv
<1>10. RemovalInv'
  <2>1. \A r \in Loops, c \in Conns :
           /\ Count(todo[r], c) \in Nat /\ Count(functors[r], c) \in Nat
           /\ Count(todo'[r], c) + Count(functors'[r], c)
                 = Count(todo[r], c) + Count(functors[r], c)
    <3>1. \A r \in Loops, c \in Conns :
             Count(todo[r], c) \in Nat /\ Count(functors[r], c) \in Nat
      BY QueueFacts
    <3>2. \A c \in Conns : Count(todo'[l], c) = 0 /\ Count(functors[l], c) = 0
                             /\ Count(functors'[l], c) = Count(todo[l], c)
      BY <1>3, <1>4
    <3>3. \A r \in Loops, c \in Conns : r # l =>
             Count(todo'[r], c) = Count(todo[r], c) /\ Count(functors'[r], c) = Count(functors[r], c)
      BY <1>3
    <3> QED
      BY <3>1, <3>2, <3>3
  <2>2. ASSUME NEW c \in Conns
        PROVE  (Tokens(c))' = Tokens(c)
    <3>1. conn[c].loop \in Loops /\ Main \in Loops
      BY FdFacts, LoopFacts
    <3>2. (Erasing(c))' = Erasing(c) /\ (Released(c))' = Released(c)
          /\ Erasing(c) \in Nat /\ Released(c) \in Nat
      BY <1>1 DEF Erasing, Released
    <3>3. (Tokens(c))' = Count(todo'[Main], c) + Count(functors'[Main], c) + Erasing(c)
             + Count(todo'[conn[c].loop], c) + Count(functors'[conn[c].loop], c) + Released(c)
      BY <1>1, <3>2 DEF Tokens
    <3>4. \A r \in Loops : Count(todo'[r], c) \in Nat /\ Count(functors'[r], c) \in Nat
      <4>1. \A r \in Loops : todo'[r] \in Seq(Conns) /\ functors'[r] \in Seq(Conns)
        BY DEF TypeOK
      <4> QED
        BY <4>1, CountType
    <3> HIDE DEF Erasing, Released
    <3> QED
      BY <2>1, <3>1, <3>2, <3>3, <3>4 DEF Tokens
  <2>3. \A c \in Conns : (Constructed(c))' <=> Constructed(c)
    BY <1>1 DEF Constructed
  <2>4. AssertionsFailOnlyOnDoubleRemoval'
    BY <1>1, <1>2 DEF RemovalInv, AssertionsFailOnlyOnDoubleRemoval, RemovalAssertionsHold
  <2>5. \A c \in Conns : Constructed(c) => (Tokens(c))' <= removals[c]
    BY <1>2, <2>2 DEF RemovalInv
  <2>6. \A c \in Conns : conn[c].tied /\ connections[conn[c].fd] # c => removals[c] > 0
    BY <1>2 DEF RemovalInv
  <2> QED
    BY <1>1, <2>3, <2>4, <2>5, <2>6, Zenon DEF RemovalInv
<1> QED
  BY <1>6, <1>7, <1>8, <1>9, <1>10 DEF OwnerInv

LEMMA FinishOwners ==
    ASSUME TypeOK, TypeOK', OwnerInv, NEW l \in Loops, FinishToDoList(l)
    PROVE  OwnerInv'
<1>1. /\ phase[l] = "run" /\ functors[l] = <<>>
      /\ owned' = [owned EXCEPT ![l] = {}]
      /\ phase' = [phase EXCEPT ![l] = "poll"]
      /\ UNCHANGED <<conn, connections, main, timer, backlog, chs, functors, todo, handler,
                     exited, removals>>
  BY DEF FinishToDoList, NoRemoval, mapVars
<1>2. /\ owned \in [Loops -> SUBSET Conns] /\ phase \in [Loops -> {"poll", "handle", "run"}]
      /\ PlaceInv /\ EventInv /\ ObjectInv /\ EpollInv /\ RemovalInv
  BY QueueFacts DEF OwnerInv
<1>3. /\ owned'[l] = {} /\ phase'[l] = "poll"
      /\ \A r \in Loops : r # l => owned'[r] = owned[r] /\ phase'[r] = phase[r]
  BY <1>1, <1>2
<1>4. \A c \in Conns : (Owned(c))' => Owned(c)
  BY <1>1, <1>3 DEF Owned, OwnedByCallback
<1>5. PlaceInv'
  <2>1. \A r \in Loops : /\ phase'[r] # "handle" => chs[r] = {}
                         /\ phase'[r] # "run" => functors[r] = <<>>
                         /\ Range(functors[r]) \subseteq owned'[r]
    BY <1>1, <1>2, <1>3, RangeEmpty DEF PlaceInv
  <2> QED
    BY <1>1, <1>2, <2>1, Zenon DEF PlaceInv
<1>6. EventInv'
  <2>1. \A s \in Subs : \A c \in Conns :
           handler[s].conn = c => phase'[s] = "handle" /\ Served(s, c)
    BY <1>1, <1>2, <1>3, LoopFacts DEF EventInv
  <2>2. \A r, c : (Served(r, c))' <=> Served(r, c)
    BY <1>1 DEF Served
  <2> QED
    BY <1>1, <1>2, <2>1, <2>2, Zenon DEF EventInv
<1>7. ObjectInv'
  <2>1. \A c \in Conns : (Constructed(c))' <=> Constructed(c)
    BY <1>1 DEF Constructed
  <2> QED
    BY <1>1, <1>2, <1>4, <2>1, Zenon DEF ObjectInv
<1>8. EpollInv' /\ RemovalInv'
  BY <1>1, <1>2 DEF EpollInv, RemovalInv, Tokens, Erasing, Released, Constructed,
     AssertionsFailOnlyOnDoubleRemoval, RemovalAssertionsHold
<1> QED
  BY <1>5, <1>6, <1>7, <1>8 DEF OwnerInv

-----------------------------------------------------------------------------
(***************************************************************************)
(* The main thread's steps.                                                *)
(***************************************************************************)

\* What NewConnection starts from: nobody owns the object it constructs, and the
\* descriptor of the socket it accepts has no entry in connections_.
LEMMA FreshConn ==
    ASSUME TypeOK, OwnerInv, NEW c \in Conns, ~Constructed(c)
    PROVE  /\ ~Owned(c) /\ ~conn[c].in_epoll /\ ~conn[c].tied
           /\ \A l \in Loops : /\ c \notin Range(todo[l]) /\ c \notin Range(functors[l])
                               /\ Count(todo[l], c) = 0 /\ Count(functors[l], c) = 0
           /\ \A f \in Fds : connections[f] # c
<1>1. ~Owned(c) /\ ~conn[c].in_epoll /\ ~conn[c].tied
  BY DEF OwnerInv, ObjectInv
<1>2. \A l \in Loops : c \notin Range(todo[l]) /\ c \notin Range(functors[l])
  BY <1>1, QueuedIsOwned DEF OwnerInv
<1>3. \A f \in Fds : connections[f] # c
  BY <1>1 DEF Owned
<1> QED
  BY <1>1, <1>2, <1>3, CountAbsent

LEMMA FreshFd ==
    ASSUME TypeOK, OwnerInv, NEW f \in Fds \ FdsInUse
    PROVE  /\ connections[f] = NoConn
           /\ \A c \in Conns : Owned(c) => conn[c].fd # f
<1>1. \A c \in Conns : Owned(c) => conn[c].fd # f
  <2>1. \A c \in Conns : Owned(c) => Held(c)
    BY HeldIsOwned DEF OwnerInv
  <2> QED
    BY <2>1 DEF FdsInUse
<1>2. connections[f] # NoConn => connections[f] \in Conns /\ conn[connections[f]].fd = f
  BY DEF TypeOK, OwnerInv, ObjectInv
<1>3. connections[f] \in Conns => Owned(connections[f])
  BY DEF Owned
<1> QED
  BY <1>1, <1>2, <1>3

LEMMA NewConnectionOwners ==
    ASSUME TypeOK, TypeOK', OwnerInv, NEW c \in Conns, NewConnection(c)
    PROVE  OwnerInv'
<1>1. /\ main = IdleMain /\ ~Constructed(c)
      /\ chs' = [chs EXCEPT ![Main] = chs[Main] \ {AcceptEvent}]
      /\ main' = [conn |-> c, pc |-> "inserting"]
      /\ UNCHANGED <<connections, timer, phase, functors, owned, handler, todo, removals, exited>>
  BY DEF NewConnection, MainHandles, NoRemoval
<1>2. PICK f \in Fds \ FdsInUse :
         conn' = [conn EXCEPT ![c] = [NewConn EXCEPT !.fd = f, !.loop = NextLoop,
                     !.state = "Connected", !.listen = EtOnly, !.in_epoll = TRUE]]
  BY DEF NewConnection
<1>3. /\ conn \in [Conns -> ConnType] /\ chs \in [Loops -> SUBSET EventType]
      /\ PlaceInv /\ EventInv /\ ObjectInv /\ EpollInv /\ RemovalInv
      /\ Main \in Loops
  BY TypeFacts, LoopFacts DEF OwnerInv
<1>4. NextLoop \in Subs
  BY LoopFacts DEF NextLoop, TypeOK, Subs
<1>5. /\ conn'[c].fd = f /\ conn'[c].loop = NextLoop /\ conn'[c].in_epoll
      /\ ~conn'[c].tied /\ conn'[c].listen = {"ET"}
  BY <1>2, <1>3 DEF NewConn, EtOnly
<1>6. \A d \in Conns : d # c => conn'[d] = conn[d]
  BY <1>2, <1>3
<1>7. /\ ~Owned(c) /\ ~conn[c].in_epoll /\ ~conn[c].tied
      /\ \A l \in Loops : /\ c \notin Range(todo[l]) /\ c \notin Range(functors[l])
                          /\ Count(todo[l], c) = 0 /\ Count(functors[l], c) = 0
      /\ \A g \in Fds : connections[g] # c
  BY <1>1, FreshConn
<1>8. /\ connections[f] = NoConn
      /\ \A d \in Conns : Owned(d) => conn[d].fd # f
  BY FreshFd
<1>9. \A d \in Conns : (Owned(d))' => Owned(d) \/ d = c
  BY <1>1 DEF Owned, OwnedByCallback
<1>10. main.conn = NoConn /\ main.pc = "idle"
  BY <1>1 DEF IdleMain
<1>11. f # NoFd
  BY ReactorAssumption
<1>12. /\ (Constructed(c))'
       /\ \A d \in Conns : d # c => ((Constructed(d))' <=> Constructed(d))
  BY <1>5, <1>6, <1>11 DEF Constructed
<1>13. PlaceInv'
  <2>1. AcceptEvent \notin chs'[Main]
    BY <1>1, <1>3
  <2>2. \A l \in Loops : chs'[l] \subseteq chs[l]
    BY <1>1, <1>3
  <2>3. \A s \in Subs : \A d \in Range(todo[s]) \cup Range(functors[s]) : conn'[d].loop = s
    <3>1. ASSUME NEW s \in Subs, NEW d \in Range(todo[s]) \cup Range(functors[s])
          PROVE  d \in Conns /\ d # c
      <4>1. todo[s] \in Seq(Conns) /\ functors[s] \in Seq(Conns)
        BY LoopFacts, QueueFacts
      <4>2. d \in Conns
        BY <3>1, <4>1, LenProperties, ElementOfSeq DEF Range
      <4> QED
        BY <1>7, <3>1, <4>2, LoopFacts
    <3> QED
      BY <1>3, <1>6, <3>1 DEF PlaceInv
  <2>4. \A l \in Loops : phase[l] # "handle" => chs'[l] = {}
    BY <1>3, <2>2 DEF PlaceInv
  <2>5. main'.pc = "inserting" /\ main'.conn = c
    BY <1>1
  <2>6. \A l \in Loops : /\ phase[l] # "run" => functors[l] = <<>>
                         /\ Range(functors[l]) \subseteq owned[l]
    BY <1>3 DEF PlaceInv
  <2> QED
    BY <1>1, <2>1, <2>3, <2>4, <2>5, <2>6, Zenon DEF PlaceInv
<1>14. EventInv'
  <2>1. \A l \in Loops, d \in Conns : Served(l, d) => (Served(l, d))'
    BY <1>6, <1>7 DEF Served
  <2>2. \A d \in Conns : conn[d].tied => conn'[d].tied
    BY <1>6, <1>7
  <2>3. \A l \in Loops : \A e \in chs'[l] :
           /\ e.kind = "io" => e.conn \in Conns /\ (Served(l, e.conn))'
           /\ e.kind = "timer" => e.conn \in Conns /\ conn'[e.conn].tied
    <3>1. \A l \in Loops : chs'[l] \subseteq chs[l]
      BY <1>1, <1>3
    <3> QED
      BY <1>3, <2>1, <2>2, <3>1 DEF EventInv
  <2>4. \A s \in Subs : \A d \in Conns :
           handler[s].conn = d => phase[s] = "handle" /\ (Served(s, d))'
    BY <1>3, <2>1, LoopFacts DEF EventInv
  <2>5. \A d \in Conns :
           timer[d] # NoLoop \/ ~(conn'[d].listen \subseteq {"ET"}) => conn'[d].tied
    <3>1. timer[c] = NoLoop /\ conn'[c].listen \subseteq {"ET"}
      BY <1>3, <1>5, <1>7 DEF EventInv
    <3> QED
      BY <1>3, <1>6, <3>1 DEF EventInv
  <2>6. main'.pc # "connect"
    BY <1>1
  <2> QED
    BY <1>1, <2>3, <2>4, <2>5, <2>6, Zenon DEF EventInv
<1>15. ObjectInv'
  <2>1. \A d \in Conns : (Owned(d))' \/ conn'[d].in_epoll \/ conn'[d].tied => (Constructed(d))'
    BY <1>3, <1>6, <1>9, <1>12 DEF ObjectInv
  <2>2. \A d \in Conns : (Constructed(d))' => conn'[d].loop \in Subs
    BY <1>3, <1>4, <1>5, <1>6, <1>12 DEF ObjectInv
  <2>3. \A g \in Fds : connections[g] # NoConn => conn'[connections[g]].fd = g
    <3>1. \A g \in Fds : connections[g] # NoConn => connections[g] \in Conns \ {c}
      BY <1>7 DEF TypeOK
    <3> QED
      BY <1>3, <1>6, <3>1 DEF ObjectInv
  <2>4. \A d, e \in Conns : (Owned(d))' /\ (Owned(e))' /\ conn'[d].fd = conn'[e].fd => d = e
    BY <1>3, <1>5, <1>6, <1>8, <1>9 DEF ObjectInv
  <2>5. connections[conn'[main'.conn].fd] = NoConn /\ main'.pc = "inserting"
    BY <1>1, <1>5, <1>8
  <2> QED
    BY <1>1, <2>1, <2>2, <2>3, <2>4, <2>5 DEF ObjectInv
<1>16. EpollInv'
  BY <1>1, <1>3, <1>6, <1>10 DEF EpollInv
<1>17. RemovalInv'
  <2>1. (Tokens(c))' = 0
    <3>1. NextLoop \in Loops
      BY <1>4, LoopFacts
    <3>2. (Erasing(c))' = 0 /\ (Released(c))' = 0
      BY <1>1, <1>5 DEF Erasing, Released
    <3>3. (Tokens(c))' = Count(todo[Main], c) + Count(functors[Main], c) + (Erasing(c))'
             + Count(todo[NextLoop], c) + Count(functors[NextLoop], c) + (Released(c))'
      BY <1>1, <1>5 DEF Tokens
    <3> HIDE DEF Tokens, Erasing, Released
    <3> QED
      BY <1>3, <1>7, <3>1, <3>2, <3>3
  <2>2. \A d \in Conns : d # c => (Tokens(d))' = Tokens(d)
    BY <1>1, <1>6, <1>10 DEF Tokens, Erasing, Released
  <2>3. \A d \in Conns : (Constructed(d))' => (Tokens(d))' <= removals[d]
    <3>1. removals[c] \in Nat
      BY QueueFacts
    <3>2. (Tokens(c))' <= removals[c]
      <4> HIDE DEF Tokens
      <4> QED
        BY <2>1, <3>1
    <3>3. \A d \in Conns : d # c /\ Constructed(d) => Tokens(d) <= removals[d]
      BY <1>3 DEF RemovalInv
    <3> HIDE DEF Tokens
    <3> QED
      BY <1>12, <2>2, <3>2, <3>3
  <2>4. \A d \in Conns : conn'[d].tied /\ connections[conn'[d].fd] # d => removals[d] > 0
    BY <1>3, <1>5, <1>6 DEF RemovalInv
  <2>5. AssertionsFailOnlyOnDoubleRemoval'
    BY <1>1, <1>3 DEF RemovalInv, AssertionsFailOnlyOnDoubleRemoval, RemovalAssertionsHold
  <2> QED
    BY <1>1, <2>3, <2>4, <2>5, Zenon DEF RemovalInv
<1> QED
  BY <1>13, <1>14, <1>15, <1>16, <1>17 DEF OwnerInv

LEMMA InsertConnectionOwners ==
    ASSUME TypeOK, TypeOK', OwnerInv, InsertConnection
    PROVE  OwnerInv'
<1> DEFINE c == main.conn
           f == conn[c].fd
<1>1. /\ main.pc = "inserting"
      /\ connections' = [connections EXCEPT ![f] = c]
      /\ main' = [main EXCEPT !.pc = "establish"]
      /\ UNCHANGED <<conn, timer, backlog, phase, chs, functors, owned, handler, todo,
                     removals, exited>>
  BY DEF InsertConnection, NoRemoval, loopVars
<1>2. /\ connections \in [Fds -> Conns \cup {NoConn}] /\ main \in MainType
      /\ PlaceInv /\ EventInv /\ ObjectInv /\ EpollInv /\ RemovalInv
  BY TypeFacts DEF OwnerInv
<1>3. c \in Conns /\ main = [conn |-> c, pc |-> "inserting"]
  BY <1>1, <1>2 DEF PlaceInv, MainType
<1>4. Owned(c) /\ f \in Fds /\ connections[f] = NoConn
  <2>1. Owned(c)
    BY DEF Owned
  <2>2. Constructed(c)
    BY <1>2, <1>3, <2>1 DEF ObjectInv
  <2> QED
    BY <1>1, <1>2, <1>3, <2>1, <2>2, FdFacts DEF ObjectInv
<1>5. main'.conn = c /\ main'.pc = "establish"
  BY <1>1, <1>3
<1>6. /\ connections'[f] = c
      /\ \A g \in Fds : g # f => connections'[g] = connections[g]
  BY <1>1, <1>2, <1>4
<1>7. \A d \in Conns : (Owned(d))' => Owned(d)
  BY <1>1, <1>4, <1>5, <1>6 DEF Owned, OwnedByCallback
<1>8. \A d : (Constructed(d))' <=> Constructed(d)
  BY <1>1 DEF Constructed
<1>9. PlaceInv'
  BY <1>1, <1>2, <1>3, <1>5 DEF PlaceInv
<1>10. EventInv'
  BY <1>1, <1>2, <1>5 DEF EventInv, Served
<1>11. ObjectInv'
  <2>1. \A g \in Fds : connections'[g] # NoConn => conn[connections'[g]].fd = g
    BY <1>2, <1>6 DEF ObjectInv
  <2>2. connections'[conn[main'.conn].fd] = main'.conn
    BY <1>5, <1>6
  <2> QED
    BY <1>1, <1>2, <1>5, <1>7, <1>8, <2>1, <2>2 DEF ObjectInv
<1>12. \A d \in Conns : conn[d].fd \in Fds /\ connections[conn[d].fd] = d
                          => connections'[conn[d].fd] = d
  BY <1>4, <1>6, FdFacts
<1>13. EpollInv'
  <2> SUFFICES ASSUME NEW d \in Conns, conn[d].in_epoll
               PROVE  \/ main' = [conn |-> d, pc |-> "inserting"]
                      \/ connections'[conn[d].fd] = d
                      \/ d \in Range(todo[conn[d].loop])
                      \/ d \in Range(functors[conn[d].loop])
    BY <1>1 DEF EpollInv
  <2>1. conn[d].fd \in Fds
    BY <1>2, RegisteredIsOwned
  <2>2. main = [conn |-> d, pc |-> "inserting"] => d = c
    BY <1>3
  <2> QED
    BY <1>2, <1>6, <1>12, <2>1, <2>2 DEF EpollInv
<1>14. RemovalInv'
  <2>1. \A d \in Conns : (Tokens(d))' = Tokens(d)
    <3>1. \A d : (Erasing(d))' = Erasing(d)
      BY <1>1, <1>5 DEF Erasing
    <3> QED
      BY <1>1, <3>1 DEF Tokens, Released
  <2>2. ASSUME NEW d \in Conns, conn[d].tied, connections'[conn[d].fd] # d
        PROVE  removals[d] > 0
    <3>1. conn[d].fd \in Fds
      BY <1>2, <2>2, FdFacts DEF ObjectInv
    <3> QED
      BY <1>2, <1>12, <2>2, <3>1 DEF RemovalInv
  <2>3. AssertionsFailOnlyOnDoubleRemoval'
    BY <1>1, <1>2 DEF RemovalInv, AssertionsFailOnlyOnDoubleRemoval, RemovalAssertionsHold
  <2>4. \A d \in Conns : Constructed(d) => (Tokens(d))' <= removals[d]
    BY <1>2, <2>1 DEF RemovalInv
  <2> QED
    BY <1>1, <1>8, <2>2, <2>3, <2>4, Zenon DEF RemovalInv
<1> QED
  BY <1>9, <1>10, <1>11, <1>13, <1>14 DEF OwnerInv

LEMMA ConnectionEstablishedOwners ==
    ASSUME TypeOK, TypeOK', OwnerInv, ConnectionEstablished
    PROVE  OwnerInv'
<1> DEFINE c == main.conn
           k == [[conn[c] EXCEPT !.tied = TRUE] EXCEPT !.listen = conn[c].listen \cup {"READ"}]
<1>1. /\ main.pc = "establish"
      /\ conn' = [conn EXCEPT ![c].tied = TRUE, ![c].listen = conn[c].listen \cup {"READ"}]
      /\ main' = [main EXCEPT !.pc = "connect"]
      /\ UNCHANGED <<connections, timer, backlog, phase, chs, functors, owned, handler, todo,
                     removals, exited>>
  BY DEF ConnectionEstablished, NoRemoval, loopVars
<1>2. /\ conn \in [Conns -> ConnType] /\ main \in MainType
      /\ PlaceInv /\ EventInv /\ ObjectInv /\ EpollInv /\ RemovalInv
  BY TypeFacts DEF OwnerInv
<1>3. c \in Conns /\ main = [conn |-> c, pc |-> "establish"]
  BY <1>1, <1>2 DEF PlaceInv, MainType
<1>4. main'.conn = c /\ main'.pc = "connect" /\ main' = [conn |-> c, pc |-> "connect"]
  BY <1>1, <1>3
<1>5. conn' = [conn EXCEPT ![c] = k]
  BY <1>1, <1>2, <1>3
<1>6. /\ k.fd = conn[c].fd /\ k.loop = conn[c].loop /\ k.in_epoll = conn[c].in_epoll /\ k.tied
  BY <1>2, <1>3 DEF ConnType
<1>7. /\ \A d \in Conns : /\ conn'[d].fd = conn[d].fd /\ conn'[d].loop = conn[d].loop
                          /\ conn'[d].in_epoll = conn[d].in_epoll
                          /\ conn[d].tied => conn'[d].tied
                          /\ d # c => conn'[d] = conn[d]
      /\ conn'[c].tied
  <2>1. conn'[c] = k /\ \A d \in Conns : d # c => conn'[d] = conn[d]
    BY <1>2, <1>3, <1>5
  <2> HIDE DEF k
  <2> QED
    BY <1>3, <1>6, <2>1
<1>8. \A d \in Conns : ((Constructed(d))' <=> Constructed(d)) /\ ((Owned(d))' <=> Owned(d))
  BY <1>1, <1>4, <1>7 DEF Constructed, Owned, OwnedByCallback
<1>9. connections[conn[c].fd] = c /\ Owned(c)
  BY <1>1, <1>2 DEF ObjectInv, Owned
<1>10. PlaceInv'
  <2>1. ASSUME NEW s \in Subs, NEW d \in Range(todo[s]) \cup Range(functors[s])
        PROVE  conn'[d].loop = s
    <3>1. todo[s] \in Seq(Conns) /\ functors[s] \in Seq(Conns)
      BY LoopFacts, QueueFacts
    <3>2. d \in Conns
      BY <2>1, <3>1, LenProperties, ElementOfSeq DEF Range
    <3> QED
      BY <1>2, <1>7, <2>1, <3>2 DEF PlaceInv
  <2> QED
    BY <1>1, <1>2, <1>3, <1>4, <2>1 DEF PlaceInv
<1>11. EventInv'
  <2>1. \A l \in Loops, d \in Conns : Served(l, d) => (Served(l, d))'
    BY <1>7 DEF Served
  <2>2. \A l \in Loops : \A e \in chs[l] :
           /\ e.kind = "io" => e.conn \in Conns /\ (Served(l, e.conn))'
           /\ e.kind = "timer" => e.conn \in Conns /\ conn'[e.conn].tied
    BY <1>2, <1>7, <2>1 DEF EventInv
  <2>3. \A s \in Subs : \A d \in Conns :
           handler[s].conn = d => phase[s] = "handle" /\ (Served(s, d))'
    BY <1>2, <2>1, LoopFacts DEF EventInv
  <2>4. \A d \in Conns :
           timer[d] # NoLoop \/ ~(conn'[d].listen \subseteq {"ET"}) => conn'[d].tied
    BY <1>2, <1>7 DEF EventInv
  <2> QED
    BY <1>1, <1>4, <1>7, <2>2, <2>3, <2>4 DEF EventInv
<1>12. ObjectInv'
  <2>1. \A d \in Conns : (Owned(d))' \/ conn'[d].in_epoll \/ conn'[d].tied => (Constructed(d))'
    BY <1>2, <1>7, <1>8, <1>9 DEF ObjectInv
  <2>2. \A d \in Conns : (Constructed(d))' => conn'[d].loop \in Subs
    BY <1>2, <1>7, <1>8 DEF ObjectInv
  <2>3. \A g \in Fds : connections[g] # NoConn => conn'[connections[g]].fd = g
    BY <1>2, <1>7 DEF ObjectInv, TypeOK
  <2>4. \A d, e \in Conns : (Owned(d))' /\ (Owned(e))' /\ conn'[d].fd = conn'[e].fd => d = e
    BY <1>2, <1>7, <1>8 DEF ObjectInv
  <2>5. main'.pc # "inserting" /\ connections[conn'[main'.conn].fd] = main'.conn
    BY <1>3, <1>4, <1>7, <1>9
  <2> QED
    BY <1>1, <2>1, <2>2, <2>3, <2>4, <2>5 DEF ObjectInv
<1>13. EpollInv'
  <2>1. \A d \in Conns : main # [conn |-> d, pc |-> "inserting"]
    BY <1>3
  <2> QED
    BY <1>1, <1>2, <1>7, <2>1 DEF EpollInv
<1>14. RemovalInv'
  <2>1. \A d \in Conns : (Tokens(d))' = Tokens(d)
    <3>1. \A d \in Conns : (Erasing(d))' = Erasing(d) /\ (Released(d))' = Released(d)
      BY <1>3, <1>4, <1>7 DEF Erasing, Released
    <3> QED
      BY <1>1, <1>7, <3>1 DEF Tokens
  <2>2. \A d \in Conns : conn'[d].tied /\ connections[conn'[d].fd] # d => removals[d] > 0
    BY <1>2, <1>7, <1>9 DEF RemovalInv
  <2>3. AssertionsFailOnlyOnDoubleRemoval'
    BY <1>1, <1>2 DEF RemovalInv, AssertionsFailOnlyOnDoubleRemoval, RemovalAssertionsHold
  <2>4. \A d \in Conns : Constructed(d) => (Tokens(d))' <= removals[d]
    BY <1>2, <2>1 DEF RemovalInv
  <2> QED
    BY <1>1, <1>8, <2>2, <2>3, <2>4, Zenon DEF RemovalInv
<1> QED
  BY <1>10, <1>11, <1>12, <1>13, <1>14 DEF OwnerInv

LEMMA OnConnnectCallbackOwners ==
    ASSUME TypeOK, TypeOK', OwnerInv, OnConnnectCallback
    PROVE  OwnerInv'
<1> DEFINE c == main.conn
<1>1. /\ Running /\ main.pc = "connect" /\ main' = IdleMain
      /\ \A d \in Conns : d # c => timer'[d] = timer[d]
      /\ UNCHANGED <<conn, connections, backlog, phase, chs, functors, owned, handler, todo,
                     removals>>
      /\ UNCHANGED exited \/ exited' = "data race on timers_"
  BY QueueFacts DEF OnConnnectCallback, loopVars
<1>2. /\ main \in MainType
      /\ PlaceInv /\ EventInv /\ ObjectInv /\ EpollInv /\ RemovalInv
  BY TypeFacts DEF OwnerInv
<1>3. c \in Conns /\ main = [conn |-> c, pc |-> "connect"] /\ conn[c].tied
  BY <1>1, <1>2 DEF PlaceInv, EventInv, MainType
<1>4. main'.conn = NoConn /\ main'.pc = "idle"
  BY <1>1 DEF IdleMain
<1>5. \A d \in Conns : (Owned(d))' => Owned(d)
  BY <1>1, <1>4, FdFacts DEF Owned, OwnedByCallback
<1>6. PlaceInv'
  BY <1>1, <1>2, <1>4 DEF PlaceInv
<1>7. EventInv'
  <2>1. \A d \in Conns :
           timer'[d] # NoLoop \/ ~(conn[d].listen \subseteq {"ET"}) => conn[d].tied
    BY <1>1, <1>2, <1>3 DEF EventInv
  <2>2. \A l, d : (Served(l, d))' <=> Served(l, d)
    BY <1>1 DEF Served
  <2>3. main'.pc # "connect"
    BY <1>4
  <2> QED
    BY <1>1, <1>2, <2>1, <2>2, <2>3, Zenon DEF EventInv
<1>8. ObjectInv'
  <2>1. \A d \in Conns : (Constructed(d))' <=> Constructed(d)
    BY <1>1 DEF Constructed
  <2> QED
    BY <1>1, <1>2, <1>4, <1>5, <2>1 DEF ObjectInv
<1>9. EpollInv'
  <2>1. \A d \in Conns : main # [conn |-> d, pc |-> "inserting"]
    BY <1>3
  <2> QED
    BY <1>1, <1>2, <2>1 DEF EpollInv
<1>10. RemovalInv'
  <2>1. \A d \in Conns : (Tokens(d))' = Tokens(d)
    <3>1. \A d \in Conns : (Erasing(d))' = Erasing(d)
      BY <1>3, <1>4 DEF Erasing
    <3> QED
      BY <1>1, <3>1 DEF Tokens, Released
  <2>2. AssertionsFailOnlyOnDoubleRemoval'
    BY <1>1, <1>2 DEF RemovalInv, AssertionsFailOnlyOnDoubleRemoval, RemovalAssertionsHold
  <2>3. \A d \in Conns : Constructed(d) => (Tokens(d))' <= removals[d]
    BY <1>2, <2>1 DEF RemovalInv
  <2>4. \A d : (Constructed(d))' <=> Constructed(d)
    BY <1>1 DEF Constructed
  <2>5. \A d \in Conns : conn[d].tied /\ connections[conn[d].fd] # d => removals[d] > 0
    BY <1>2 DEF RemovalInv
  <2> QED
    BY <1>1, <2>2, <2>3, <2>4, <2>5, Zenon DEF RemovalInv
<1> QED
  BY <1>6, <1>7, <1>8, <1>9, <1>10 DEF OwnerInv

\* The call of RemoveConnectionInLoop passes from the vector to the main thread.
LEMMA RemoveInLoopOwners ==
    ASSUME TypeOK, TypeOK', OwnerInv, RemoveConnectionInLoop
    PROVE  OwnerInv'
<1> DEFINE c == Head(functors[Main])
<1>1. /\ phase[Main] = "run" /\ main = IdleMain /\ functors[Main] # <<>>
      /\ main' = [conn |-> c, pc |-> "erasing"]
      /\ functors' = [functors EXCEPT ![Main] = Tail(functors[Main])]
      /\ UNCHANGED <<conn, connections, timer, backlog, phase, chs, owned, handler, todo,
                     removals, exited>>
  BY DEF RemoveConnectionInLoop, NoRemoval
<1>2. /\ functors \in [Loops -> Seq(Conns)] /\ Main \in Loops
      /\ PlaceInv /\ EventInv /\ ObjectInv /\ EpollInv /\ RemovalInv
  BY QueueFacts, LoopFacts DEF OwnerInv
<1>3. /\ c \in Conns /\ c \in Range(functors[Main])
      /\ Range(Tail(functors[Main])) \subseteq Range(functors[Main])
      /\ \A d : Count(functors[Main], d) =
                   Count(Tail(functors[Main]), d) + (IF c = d THEN 1 ELSE 0)
  BY <1>1, <1>2, RangeTail, CountTail
<1>4. /\ functors'[Main] = Tail(functors[Main])
      /\ \A l \in Loops : l # Main => functors'[l] = functors[l]
  BY <1>1, <1>2
<1>5. /\ main'.conn = c /\ main'.pc = "erasing" /\ main.conn = NoConn /\ main.pc = "idle"
      /\ Owned(c)
  BY <1>1, <1>2, <1>3, QueuedIsOwned DEF IdleMain
<1>6. \A d \in Conns : (Owned(d))' => Owned(d)
  BY <1>1, <1>5 DEF Owned, OwnedByCallback
<1>7. \A d : (Constructed(d))' <=> Constructed(d)
  BY <1>1 DEF Constructed
<1>8. PlaceInv'
  <2>1. \A l \in Loops : /\ phase[l] # "run" => functors'[l] = <<>>
                         /\ Range(functors'[l]) \subseteq owned[l]
    BY <1>1, <1>2, <1>3, <1>4 DEF PlaceInv
  <2>2. \A s \in Subs : functors'[s] = functors[s]
    BY <1>4, LoopFacts
  <2> QED
    BY <1>1, <1>2, <1>3, <1>5, <2>1, <2>2 DEF PlaceInv
<1>9. EventInv'
  BY <1>1, <1>2, <1>5 DEF EventInv, Served
<1>10. ObjectInv'
  BY <1>1, <1>2, <1>5, <1>6, <1>7 DEF ObjectInv
<1>11. EpollInv'
  <2>1. \A d \in Conns : conn[d].in_epoll => functors'[conn[d].loop] = functors[conn[d].loop]
    BY <1>2, <1>4, LoopFacts, RegisteredIsOwned
  <2>2. \A d \in Conns : main # [conn |-> d, pc |-> "inserting"]
    BY <1>1, FdFacts DEF IdleMain
  <2> QED
    BY <1>1, <1>2, <2>1, <2>2 DEF EpollInv
<1>12. RemovalInv'
  <2>1. ASSUME NEW d \in Conns, Constructed(d)
        PROVE  (Tokens(d))' = Tokens(d)
    <3>1. conn[d].loop \in Loops /\ conn[d].loop # Main
      BY <1>2, <2>1, LoopFacts DEF ObjectInv
    <3>2. (Erasing(d))' = (IF c = d THEN 1 ELSE 0) /\ Erasing(d) = 0
      BY <1>1, <1>5, FdFacts DEF Erasing
    <3>3. (Released(d))' = Released(d) /\ Released(d) \in Nat
      BY <1>1 DEF Released
    <3>4. functors'[conn[d].loop] = functors[conn[d].loop]
      BY <1>4, <3>1
    <3>5. (Tokens(d))' = Count(todo[Main], d) + Count(Tail(functors[Main]), d) + (Erasing(d))'
             + Count(todo[conn[d].loop], d) + Count(functors[conn[d].loop], d) + Released(d)
      BY <1>1, <1>4, <3>3, <3>4 DEF Tokens
    <3>6. /\ Count(todo[Main], d) \in Nat /\ Count(Tail(functors[Main]), d) \in Nat
          /\ Count(todo[conn[d].loop], d) \in Nat /\ Count(functors[conn[d].loop], d) \in Nat
          /\ Count(functors[Main], d) \in Nat
      <4>1. Tail(functors[Main]) \in Seq(Conns)
        BY <1>1, <1>2, RangeTail
      <4> QED
        BY <1>2, <3>1, <4>1, CountType, QueueFacts
    <3>7. Count(functors[Main], d) = Count(Tail(functors[Main]), d) + (IF c = d THEN 1 ELSE 0)
      BY <1>3
    <3> HIDE DEF Erasing, Released
    <3> QED
      BY <3>2, <3>3, <3>5, <3>6, <3>7 DEF Tokens
  <2>2. AssertionsFailOnlyOnDoubleRemoval'
    BY <1>1, <1>2 DEF RemovalInv, AssertionsFailOnlyOnDoubleRemoval, RemovalAssertionsHold
  <2>3. \A d \in Conns : Constructed(d) => (Tokens(d))' <= removals[d]
    BY <1>2, <2>1 DEF RemovalInv
  <2>4. \A d \in Conns : conn[d].tied /\ connections[conn[d].fd] # d => removals[d] > 0
    BY <1>2 DEF RemovalInv
  <2> QED
    BY <1>1, <1>7, <2>2, <2>3, <2>4, Zenon DEF RemovalInv
<1> QED
  BY <1>8, <1>9, <1>10, <1>11, <1>12 DEF OwnerInv

\* Only the entry of the connection that is being erased can be under its descriptor.
LEMMA OwnEntry ==
    ASSUME TypeOK, OwnerInv, main.pc = "erasing"
    PROVE  /\ main.conn \in Conns /\ main = [conn |-> main.conn, pc |-> "erasing"]
           /\ Owned(main.conn) /\ Constructed(main.conn)
           /\ conn[main.conn].fd \in Fds /\ conn[main.conn].loop \in Subs
           /\ connections[conn[main.conn].fd] \in {NoConn, main.conn}
<1> DEFINE c == main.conn
<1>1. c \in Conns /\ main = [conn |-> c, pc |-> "erasing"]
  BY TypeFacts DEF OwnerInv, PlaceInv, MainType
<1>2. Owned(c) /\ Constructed(c) /\ conn[c].loop \in Subs
  BY <1>1 DEF Owned, OwnerInv, ObjectInv
<1>3. conn[c].fd \in Fds
  BY <1>1, <1>2, FdFacts
<1>4. ASSUME NEW d \in Conns, connections[conn[c].fd] = d
      PROVE  d = c
  <2>1. Owned(d) /\ conn[d].fd = conn[c].fd
    BY <1>3, <1>4, FdFacts DEF Owned, OwnerInv, ObjectInv
  <2> QED
    BY <1>1, <1>2, <2>1 DEF OwnerInv, ObjectInv
<1>5. connections[conn[c].fd] \in Conns \cup {NoConn}
  BY <1>3 DEF TypeOK
<1> QED
  BY <1>1, <1>2, <1>3, <1>4, <1>5

LEMMA EraseConnectionOwners ==
    ASSUME TypeOK, TypeOK', OwnerInv, EraseConnection
    PROVE  OwnerInv'
<1> DEFINE c == main.conn
           f == conn[c].fd
           l == conn[c].loop
<1>1. /\ main.pc = "erasing" /\ main' = IdleMain
      /\ connections' = [connections EXCEPT ![f] = NoConn]
      /\ todo' = [todo EXCEPT ![l] = Append(todo[l], c)]
      /\ UNCHANGED <<conn, timer, backlog, phase, chs, functors, owned, handler, exited,
                     removals>>
  BY DEF EraseConnection, Erase, QueueDestructor, loopVars
<1>2. /\ connections \in [Fds -> Conns \cup {NoConn}]
      /\ todo \in [Loops -> Seq(Conns)]
      /\ PlaceInv /\ EventInv /\ ObjectInv /\ EpollInv /\ RemovalInv
  BY TypeFacts, QueueFacts DEF OwnerInv
<1>3. /\ c \in Conns /\ main = [conn |-> c, pc |-> "erasing"]
      /\ Owned(c) /\ Constructed(c) /\ f \in Fds /\ l \in Subs
      /\ connections[f] \in {NoConn, c}
  BY <1>1, OwnEntry
<1>4. main'.conn = NoConn /\ main'.pc = "idle"
  BY <1>1 DEF IdleMain
<1>5. l \in Loops /\ l # Main /\ Main \in Loops
  BY <1>3, LoopFacts
<1>6. /\ connections'[f] = NoConn
      /\ \A g \in Fds : g # f => connections'[g] = connections[g]
      /\ todo'[l] = Append(todo[l], c)
      /\ \A r \in Loops : r # l => todo'[r] = todo[r]
  BY <1>1, <1>2, <1>3, <1>5
<1>7. /\ Range(todo'[l]) = Range(todo[l]) \cup {c}
      /\ \A d : Count(todo'[l], d) = Count(todo[l], d) + (IF c = d THEN 1 ELSE 0)
  BY <1>2, <1>3, <1>5, <1>6, RangeAppend, CountAppend
<1>8. \A r \in Loops : \A d : d \in Range(todo'[r]) <=> d \in Range(todo[r]) \/ (d = c /\ r = l)
  BY <1>6, <1>7
<1>9. \A d \in Conns : (Owned(d))' => Owned(d)
  <2>1. ASSUME NEW d \in Conns, (Owned(d))'
        PROVE  Owned(d)
    <3>1. CASE \E g \in Fds : connections'[g] = d
      BY <1>6, <3>1, FdFacts DEF Owned
    <3>2. CASE \E r \in Loops : d \in Range(todo'[r])
      BY <1>3, <1>8, <3>2 DEF Owned, OwnedByCallback
    <3>3. CASE \E r \in Loops : d \in owned[r]
      BY <3>3 DEF Owned, OwnedByCallback
    <3>4. main'.conn # d
      BY <1>4, FdFacts
    <3> QED
      BY <1>1, <2>1, <3>1, <3>2, <3>3, <3>4 DEF Owned, OwnedByCallback
  <2> QED
    BY <2>1
<1>10. \A d : (Constructed(d))' <=> Constructed(d)
  BY <1>1 DEF Constructed
\* The other entries of connections_ stay.
<1>11. \A d \in Conns : d # c /\ conn[d].fd \in Fds /\ connections[conn[d].fd] = d
                           => connections'[conn[d].fd] = d
  BY <1>3, <1>6, FdFacts
<1>12. PlaceInv'
  <2>1. \A s \in Subs : \A d \in Range(todo'[s]) \cup Range(functors[s]) : conn[d].loop = s
    <3>1. \A s \in Subs : \A d \in Range(todo[s]) \cup Range(functors[s]) : conn[d].loop = s
      BY <1>2 DEF PlaceInv
    <3>2. \A s \in Subs : \A d : d \in Range(todo'[s]) => d \in Range(todo[s]) \/ (d = c /\ s = l)
      BY <1>8, LoopFacts
    <3> QED
      BY <3>1, <3>2
  <2> QED
    BY <1>1, <1>2, <1>4, <2>1 DEF PlaceInv
<1>13. EventInv'
  BY <1>1, <1>2, <1>4 DEF EventInv, Served
<1>14. ObjectInv'
  <2>1. \A g \in Fds : connections'[g] # NoConn => conn[connections'[g]].fd = g
    BY <1>2, <1>6 DEF ObjectInv
  <2> QED
    BY <1>1, <1>2, <1>4, <1>9, <1>10, <2>1 DEF ObjectInv
<1>15. EpollInv'
  <2> SUFFICES ASSUME NEW d \in Conns, conn[d].in_epoll
               PROVE  \/ connections'[conn[d].fd] = d
                      \/ d \in Range(todo'[conn[d].loop])
                      \/ d \in Range(functors[conn[d].loop])
    BY <1>1 DEF EpollInv
  <2>1. conn[d].fd \in Fds /\ conn[d].loop \in Loops
    BY <1>2, RegisteredIsOwned, LoopFacts
  <2>2. main # [conn |-> d, pc |-> "inserting"]
    BY <1>3
  <2>3. CASE d = c
    BY <1>5, <1>8, <2>3
  <2>4. CASE d # c
    <3>1. \/ connections[conn[d].fd] = d
          \/ d \in Range(todo[conn[d].loop])
          \/ d \in Range(functors[conn[d].loop])
      BY <1>2, <2>2 DEF EpollInv
    <3> QED
      BY <1>8, <1>11, <2>1, <2>4, <3>1
  <2> QED
    BY <2>3, <2>4
<1>16. RemovalInv'
  <2>1. ASSUME NEW d \in Conns, Constructed(d)
        PROVE  (Tokens(d))' = Tokens(d)
    <3>1. conn[d].loop \in Loops /\ conn[d].loop # Main
      BY <1>2, <2>1, LoopFacts DEF ObjectInv
    <3>2. Erasing(d) = (IF c = d THEN 1 ELSE 0) /\ (Erasing(d))' = 0
      BY <1>3, <1>4 DEF Erasing
    <3>3. (Released(d))' = Released(d) /\ Released(d) \in Nat
      BY <1>1 DEF Released
    <3>4. Count(todo'[conn[d].loop], d) = Count(todo[conn[d].loop], d) + (IF c = d THEN 1 ELSE 0)
      <4>1. CASE conn[d].loop = l
        BY <1>7, <4>1
      <4>2. CASE conn[d].loop # l
        <5>1. d # c /\ Count(todo[conn[d].loop], d) \in Nat
          BY <3>1, <4>2, QueueFacts
        <5> QED
          BY <1>6, <3>1, <4>2, <5>1
      <4> QED
        BY <4>1, <4>2
    <3>5. todo'[Main] = todo[Main]
      BY <1>5, <1>6
    <3>6. (Tokens(d))' = Count(todo[Main], d) + Count(functors[Main], d) + (Erasing(d))'
             + Count(todo'[conn[d].loop], d) + Count(functors[conn[d].loop], d) + Released(d)
      BY <1>1, <3>3, <3>5 DEF Tokens
    <3>7. /\ Count(todo[Main], d) \in Nat /\ Count(functors[Main], d) \in Nat
          /\ Count(todo[conn[d].loop], d) \in Nat /\ Count(functors[conn[d].loop], d) \in Nat
      BY <1>5, <3>1, QueueFacts
    <3> HIDE DEF Erasing, Released
    <3> QED
      BY <3>2, <3>3, <3>4, <3>6, <3>7 DEF Tokens
  <2>2. AssertionsFailOnlyOnDoubleRemoval'
    BY <1>1, <1>2 DEF RemovalInv, AssertionsFailOnlyOnDoubleRemoval, RemovalAssertionsHold
  <2>3. \A d \in Conns : Constructed(d) => (Tokens(d))' <= removals[d]
    BY <1>2, <2>1 DEF RemovalInv
  <2>4. removals[c] > 0
    <3>1. Tokens(c) <= removals[c]
      BY <1>2, <1>3 DEF RemovalInv
    <3>2. Erasing(c) = 1 /\ Released(c) \in Nat
      BY <1>3 DEF Erasing, Released
    <3>3. /\ Count(todo[Main], c) \in Nat /\ Count(functors[Main], c) \in Nat
          /\ Count(todo[l], c) \in Nat /\ Count(functors[l], c) \in Nat
          /\ removals[c] \in Nat
      BY <1>3, <1>5, QueueFacts
    <3>4. Tokens(c) = Count(todo[Main], c) + Count(functors[Main], c) + Erasing(c)
             + Count(todo[l], c) + Count(functors[l], c) + Released(c)
      BY DEF Tokens
    <3> HIDE DEF Tokens, Erasing, Released
    <3> QED
      BY <3>1, <3>2, <3>3, <3>4
  <2>5. ASSUME NEW d \in Conns, conn[d].tied, connections'[conn[d].fd] # d
        PROVE  removals[d] > 0
    <3>1. conn[d].fd \in Fds
      BY <1>2, <2>5, FdFacts DEF ObjectInv
    <3>2. CASE d = c
      BY <2>4, <3>2
    <3>3. CASE d # c
      BY <1>2, <1>11, <2>5, <3>1, <3>3 DEF RemovalInv
    <3> QED
      BY <3>2, <3>3
  <2> QED
    BY <1>1, <1>10, <2>2, <2>3, <2>5, Zenon DEF RemovalInv
<1> QED
  BY <1>12, <1>13, <1>14, <1>15, <1>16 DEF OwnerInv

\* A timer of the main loop that has expired: RemoveConnectionInLoop is called at once.
LEMMA MainTimerOwners ==
    ASSUME TypeOK, TypeOK', OwnerInv, NEW c \in Conns, OverTimeExpired(Main, c)
    PROVE  OwnerInv'
<1>1. /\ Running /\ main = IdleMain /\ TimerEvent(c) \in chs[Main] /\ Held(c)
      /\ chs' = [chs EXCEPT ![Main] = chs[Main] \ {TimerEvent(c)}]
      /\ timer' = [timer EXCEPT ![c] = NoLoop]
      /\ removals' = [removals EXCEPT ![c] = removals[c] + 1]
      /\ UNCHANGED <<conn, connections, backlog, phase, functors, owned, handler, todo>>
  BY DEF OverTimeExpired, TimerRuns
<1>2. /\ chs \in [Loops -> SUBSET EventType] /\ Main \in Loops
      /\ removals \in [Conns -> Nat] /\ timer \in [Conns -> Loops \cup {NoLoop}]
      /\ PlaceInv /\ EventInv /\ ObjectInv /\ EpollInv /\ RemovalInv
  BY TypeFacts, QueueFacts, LoopFacts DEF OwnerInv
<1>3. Owned(c) /\ Constructed(c) /\ conn[c].tied
  <2>1. TimerEvent(c).kind = "timer" /\ TimerEvent(c).conn = c
    BY DEF TimerEvent, Event
  <2> QED
    BY <1>1, <1>2, <2>1, HeldIsOwned DEF EventInv, ObjectInv
<1>4. /\ \A l \in Loops : chs'[l] \subseteq chs[l]
      /\ \A d \in Conns : timer'[d] # NoLoop => timer[d] # NoLoop
      /\ removals'[c] = removals[c] + 1
      /\ \A d \in Conns : d # c => removals'[d] = removals[d]
  BY <1>1, <1>2
<1>5. \/ /\ connections[conn[c].fd] = NoConn
         /\ exited' = "client fd not found in connection map" /\ UNCHANGED main
      \/ main' = [conn |-> c, pc |-> "erasing"] /\ UNCHANGED exited
  BY DEF OverTimeExpired
<1>6. /\ main'.pc \in {"idle", "erasing"}
      /\ main'.pc = "idle" => main' = IdleMain
      /\ main'.pc = "erasing" => main'.conn = c
      /\ main.conn = NoConn /\ main.pc = "idle"
  <2>1. main.conn = NoConn /\ main.pc = "idle"
    BY <1>1 DEF IdleMain
  <2>2. CASE UNCHANGED main
    BY <1>1, <2>1, <2>2
  <2>3. CASE main' = [conn |-> c, pc |-> "erasing"]
    BY <2>1, <2>3
  <2> QED
    BY <1>5, <2>2, <2>3
<1>7. \A d \in Conns : (Owned(d))' => Owned(d)
  BY <1>1, <1>3, <1>6, FdFacts DEF Owned, OwnedByCallback, IdleMain
<1>8. \A d : (Constructed(d))' <=> Constructed(d)
  BY <1>1 DEF Constructed
<1>9. PlaceInv'
  <2>1. AcceptEvent \in chs'[Main] => backlog > 0
    BY <1>2, <1>4 DEF PlaceInv
  <2>2. \A l \in Loops : phase[l] # "handle" => chs'[l] = {}
    BY <1>2, <1>4 DEF PlaceInv
  <2> QED
    BY <1>1, <1>2, <1>6, <2>1, <2>2 DEF PlaceInv
<1>10. EventInv'
  <2>1. \A l \in Loops : \A e \in chs'[l] :
           /\ e.kind = "io" => e.conn \in Conns /\ Served(l, e.conn)
           /\ e.kind = "timer" => e.conn \in Conns /\ conn[e.conn].tied
    BY <1>2, <1>4 DEF EventInv
  <2>2. \A d \in Conns :
           timer'[d] # NoLoop \/ ~(conn[d].listen \subseteq {"ET"}) => conn[d].tied
    BY <1>2, <1>4 DEF EventInv
  <2>3. \A l, d : (Served(l, d))' <=> Served(l, d)
    BY <1>1 DEF Served
  <2>4. main'.pc # "connect"
    BY <1>6
  <2> QED
    BY <1>1, <1>2, <2>1, <2>2, <2>3, <2>4, Zenon DEF EventInv
<1>11. ObjectInv'
  BY <1>1, <1>2, <1>6, <1>7, <1>8 DEF ObjectInv
<1>12. EpollInv'
  <2>1. \A d \in Conns : main # [conn |-> d, pc |-> "inserting"]
    BY <1>1, FdFacts DEF IdleMain
  <2> QED
    BY <1>1, <1>2, <2>1 DEF EpollInv
<1>13. RemovalInv'
  <2>1. ASSUME NEW d \in Conns, Constructed(d)
        PROVE  (Tokens(d))' <= removals'[d]
    <3>1. /\ Erasing(d) = 0
          /\ (Erasing(d))' \in {0, 1}
          /\ d # c => (Erasing(d))' = 0
      <4>1. \A e : main # [conn |-> e, pc |-> "erasing"]
        BY <1>6
      <4>2. d # c => main' # [conn |-> d, pc |-> "erasing"]
        BY <1>6
      <4> QED
        BY <4>1, <4>2 DEF Erasing
    <3>2. (Released(d))' = Released(d) /\ Released(d) \in Nat
      BY <1>1 DEF Released
    <3>3. (Tokens(d))' = Count(todo[Main], d) + Count(functors[Main], d) + (Erasing(d))'
             + Count(todo[conn[d].loop], d) + Count(functors[conn[d].loop], d) + Released(d)
      BY <1>1, <3>2 DEF Tokens
    <3>4. Tokens(d) = Count(todo[Main], d) + Count(functors[Main], d) + Erasing(d)
             + Count(todo[conn[d].loop], d) + Count(functors[conn[d].loop], d) + Released(d)
      BY DEF Tokens
    <3>5. conn[d].loop \in Loops /\ removals[d] \in Nat
      BY <1>2, FdFacts
    <3>6. /\ Count(todo[Main], d) \in Nat /\ Count(functors[Main], d) \in Nat
          /\ Count(todo[conn[d].loop], d) \in Nat /\ Count(functors[conn[d].loop], d) \in Nat
      BY <1>2, <3>5, QueueFacts
    <3>7. Tokens(d) <= removals[d]
      BY <1>2, <2>1 DEF RemovalInv
    <3>8. removals'[d] = removals[d] + (IF d = c THEN 1 ELSE 0)
      BY <1>4, <3>5
    <3> HIDE DEF Tokens, Erasing, Released
    <3> QED
      BY <3>1, <3>2, <3>3, <3>4, <3>5, <3>6, <3>7, <3>8
  <2>2. ASSUME NEW d \in Conns, conn[d].tied, connections[conn[d].fd] # d
        PROVE  removals[d] > 0 /\ removals'[d] > 0
    <3>1. removals[d] > 0 /\ removals[d] \in Nat
      BY <1>2, <2>2 DEF RemovalInv
    <3> QED
      BY <1>4, <3>1
  <2>3. AssertionsFailOnlyOnDoubleRemoval'
    <3>1. CASE UNCHANGED exited
      BY <1>1, <3>1 DEF Running, AssertionsFailOnlyOnDoubleRemoval, RemovalAssertionsHold
    <3>2. CASE connections[conn[c].fd] = NoConn
      <4>1. removals[c] > 0
        BY <1>3, <2>2, <3>2, FdFacts
      <4>2. removals'[c] > 1
        BY <1>2, <1>4, <4>1
      <4> QED
        BY <4>2 DEF AssertionsFailOnlyOnDoubleRemoval
    <3> QED
      BY <1>5, <3>1, <3>2
  <2> QED
    BY <1>1, <1>8, <2>1, <2>2, <2>3, Zenon DEF RemovalInv
<1> QED
  BY <1>9, <1>10, <1>11, <1>12, <1>13 DEF OwnerInv

-----------------------------------------------------------------------------
(***************************************************************************)
(* ConnectionDestructor, the end of a removal.                             *)
(***************************************************************************)
LEMMA DestructorOwners ==
    ASSUME TypeOK, TypeOK', OwnerInv, NEW s \in Subs, ConnectionDestructor(s)
    PROVE  OwnerInv'
<1> DEFINE c == Head(functors[s])
           k == [[conn[c] EXCEPT !.in_epoll = FALSE] EXCEPT !.listen = {}]
<1>1. /\ Running /\ phase[s] = "run" /\ functors[s] # <<>>
      /\ functors' = [functors EXCEPT ![s] = Tail(functors[s])]
      /\ \/ /\ conn[c].in_epoll /\ UNCHANGED exited
            /\ conn' = [conn EXCEPT ![c].in_epoll = FALSE, ![c].listen = {}]
         \/ ~conn[c].in_epoll /\ UNCHANGED conn
      /\ UNCHANGED <<connections, main, timer, backlog, phase, chs, todo, owned, handler,
                     removals>>
  BY DEF ConnectionDestructor, mapVars
<1>2. /\ functors \in [Loops -> Seq(Conns)] /\ s \in Loops /\ Main \in Loops /\ s # Main
      /\ conn \in [Conns -> ConnType] /\ removals \in [Conns -> Nat]
      /\ PlaceInv /\ EventInv /\ ObjectInv /\ EpollInv /\ RemovalInv
  BY QueueFacts, TypeFacts, LoopFacts DEF OwnerInv
<1>3. /\ c \in Conns /\ c \in Range(functors[s])
      /\ Range(functors[s]) = Range(Tail(functors[s])) \cup {c}
      /\ \A d : Count(functors[s], d) = Count(Tail(functors[s]), d) + (IF c = d THEN 1 ELSE 0)
  BY <1>1, <1>2, RangeTail, CountTail
<1>4. /\ functors'[s] = Tail(functors[s])
      /\ \A l \in Loops : l # s => functors'[l] = functors[l]
  BY <1>1, <1>2
<1>5. /\ conn[c].loop = s /\ Owned(c) /\ Constructed(c)
  BY <1>2, <1>3, QueuedIsOwned DEF PlaceInv, ObjectInv
<1>6. /\ \A d \in Conns : /\ conn'[d].fd = conn[d].fd /\ conn'[d].loop = conn[d].loop
                          /\ conn'[d].tied = conn[d].tied
                          /\ conn'[d].listen \subseteq conn[d].listen
                          /\ d # c => conn'[d] = conn[d]
      /\ ~conn'[c].in_epoll
  <2>1. CASE UNCHANGED conn /\ ~conn[c].in_epoll
    BY <2>1
  <2>2. CASE conn' = [conn EXCEPT ![c].in_epoll = FALSE, ![c].listen = {}]
    <3>1. conn' = [conn EXCEPT ![c] = k]
      BY <1>2, <1>3, <2>2
    <3>2. /\ k.fd = conn[c].fd /\ k.loop = conn[c].loop /\ k.tied = conn[c].tied
          /\ k.in_epoll = FALSE /\ k.listen = {}
      BY <1>2, <1>3 DEF ConnType
    <3>3. conn'[c] = k /\ \A d \in Conns : d # c => conn'[d] = conn[d]
      BY <1>2, <1>3, <3>1
    <3> HIDE DEF k
    <3> QED
      BY <3>2, <3>3
  <2> QED
    BY <1>1, <2>1, <2>2
<1>7. \A d \in Conns : ((Constructed(d))' <=> Constructed(d)) /\ ((Owned(d))' <=> Owned(d))
  BY <1>1, <1>6 DEF Constructed, Owned, OwnedByCallback
<1>8. \A l \in Loops, d \in Conns : Served(l, d) /\ d # c => (Served(l, d))'
  BY <1>6 DEF Served
<1>9. PlaceInv'
  <2>1. \A l \in Loops : /\ phase[l] # "run" => functors'[l] = <<>>
                         /\ Range(functors'[l]) \subseteq owned[l]
    BY <1>1, <1>2, <1>3, <1>4 DEF PlaceInv
  <2>2. ASSUME NEW r \in Subs, NEW d \in Range(todo[r]) \cup Range(functors'[r])
        PROVE  conn'[d].loop = r
    <3>1. d \in Range(todo[r]) \cup Range(functors[r])
      BY <1>3, <1>4, <2>2, LoopFacts
    <3>2. todo[r] \in Seq(Conns) /\ functors[r] \in Seq(Conns)
      BY LoopFacts, QueueFacts
    <3>3. d \in Conns
      BY <3>1, <3>2, LenProperties, ElementOfSeq DEF Range
    <3> QED
      BY <1>2, <1>6, <3>1, <3>3 DEF PlaceInv
  <2> QED
    BY <1>1, <1>2, <2>1, <2>2 DEF PlaceInv
<1>10. EventInv'
  <2>1. chs[s] = {}
    BY <1>1, <1>2 DEF PlaceInv
  <2>2. \A l \in Loops : \A e \in chs[l] :
           /\ e.kind = "io" => e.conn \in Conns /\ (Served(l, e.conn))'
           /\ e.kind = "timer" => e.conn \in Conns /\ conn'[e.conn].tied
    <3>1. \A l \in Loops : \A e \in chs[l] :
             e.kind = "io" => e.conn \in Conns /\ Served(l, e.conn) /\ e.conn # c
      BY <1>2, <1>5, <2>1 DEF EventInv, Served
    <3>2. \A l \in Loops : \A e \in chs[l] :
             e.kind = "timer" => e.conn \in Conns /\ conn[e.conn].tied
      BY <1>2 DEF EventInv
    <3> QED
      BY <1>6, <1>8, <3>1, <3>2
  <2>3. \A r \in Subs : \A d \in Conns :
           handler[r].conn = d => phase[r] = "handle" /\ (Served(r, d))'
    <3>1. \A r \in Subs : \A d \in Conns :
             handler[r].conn = d => phase[r] = "handle" /\ Served(r, d) /\ d # c
      <4>1. ASSUME NEW r \in Subs, NEW d \in Conns, handler[r].conn = d
            PROVE  phase[r] = "handle" /\ Served(r, d)
        BY <1>2, <4>1 DEF EventInv
      <4>2. \A r \in Subs : phase[r] = "handle" => ~Served(r, c)
        BY <1>1, <1>5 DEF Served
      <4> QED
        BY <4>1, <4>2
    <3> QED
      BY <1>8, <3>1, LoopFacts
  <2>4. \A d \in Conns :
           timer[d] # NoLoop \/ ~(conn'[d].listen \subseteq {"ET"}) => conn'[d].tied
    BY <1>2, <1>6 DEF EventInv
  <2>5. main.pc = "connect" => conn'[main.conn].tied
    BY <1>2, <1>6 DEF EventInv, PlaceInv
  <2> QED
    BY <1>1, <2>2, <2>3, <2>4, <2>5 DEF EventInv
<1>11. ObjectInv'
  <2>1. \A d \in Conns : (Owned(d))' \/ conn'[d].in_epoll \/ conn'[d].tied => (Constructed(d))'
    BY <1>2, <1>5, <1>6, <1>7 DEF ObjectInv
  <2>2. \A d \in Conns : (Constructed(d))' => conn'[d].loop \in Subs
    BY <1>2, <1>6, <1>7 DEF ObjectInv
  <2>3. \A g \in Fds : connections[g] # NoConn => conn'[connections[g]].fd = g
    BY <1>2, <1>6 DEF ObjectInv, TypeOK
  <2>4. \A d, e \in Conns : (Owned(d))' /\ (Owned(e))' /\ conn'[d].fd = conn'[e].fd => d = e
    BY <1>2, <1>6, <1>7 DEF ObjectInv
  <2>5. /\ main.pc = "inserting" => connections[conn'[main.conn].fd] = NoConn
        /\ main.pc \in {"establish", "connect"} => connections[conn'[main.conn].fd] = main.conn
    BY <1>2, <1>6 DEF ObjectInv, PlaceInv
  <2> QED
    BY <1>1, <2>1, <2>2, <2>3, <2>4, <2>5 DEF ObjectInv
<1>12. EpollInv'
  <2> SUFFICES ASSUME NEW d \in Conns, conn'[d].in_epoll
               PROVE  \/ main = [conn |-> d, pc |-> "inserting"]
                      \/ connections[conn[d].fd] = d
                      \/ d \in Range(todo[conn[d].loop])
                      \/ d \in Range(functors'[conn[d].loop])
    BY <1>1, <1>6 DEF EpollInv
  <2>1. d # c /\ conn[d].in_epoll
    BY <1>6
  <2>2. conn[d].loop \in Loops
    BY FdFacts
  <2>3. d \in Range(functors[conn[d].loop]) => d \in Range(functors'[conn[d].loop])
    BY <1>3, <1>4, <2>1, <2>2
  <2> QED
    BY <1>2, <2>1, <2>3 DEF EpollInv
<1>13. RemovalInv'
  <2>1. ASSUME NEW d \in Conns, Constructed(d)
        PROVE  (Tokens(d))' <= removals[d]
    <3>1. conn[d].loop \in Loops /\ conn[d].loop # Main
      BY <1>2, <2>1, LoopFacts DEF ObjectInv
    <3>2. (Erasing(d))' = Erasing(d) /\ Erasing(d) \in Nat
      BY <1>1 DEF Erasing
    <3>3. /\ Released(d) \in {0, 1} /\ (Released(d))' \in {0, 1}
          /\ d # c => (Released(d))' = Released(d)
      BY <1>6 DEF Released
    <3>4. Count(functors[conn[d].loop], d) =
             Count(functors'[conn[d].loop], d) + (IF d = c THEN 1 ELSE 0)
      <4>1. CASE conn[d].loop = s
        BY <1>3, <1>4, <4>1
      <4>2. CASE conn[d].loop # s
        <5>1. d # c /\ Count(functors[conn[d].loop], d) \in Nat
          BY <1>5, <3>1, <4>2, QueueFacts
        <5> QED
          BY <1>4, <3>1, <4>2, <5>1
      <4> QED
        BY <4>1, <4>2
    <3>5. functors'[Main] = functors[Main]
      BY <1>2, <1>4
    <3>6. (Tokens(d))' = Count(todo[Main], d) + Count(functors[Main], d) + Erasing(d)
             + Count(todo[conn[d].loop], d) + Count(functors'[conn[d].loop], d) + (Released(d))'
      BY <1>1, <1>6, <3>2, <3>5 DEF Tokens
    <3>7. Tokens(d) = Count(todo[Main], d) + Count(functors[Main], d) + Erasing(d)
             + Count(todo[conn[d].loop], d) + Count(functors[conn[d].loop], d) + Released(d)
      BY DEF Tokens
    <3>8. /\ Count(todo[Main], d) \in Nat /\ Count(functors[Main], d) \in Nat
          /\ Count(todo[conn[d].loop], d) \in Nat /\ Count(functors'[conn[d].loop], d) \in Nat
      <4>1. functors'[conn[d].loop] \in Seq(Conns)
        BY <3>1 DEF TypeOK
      <4> QED
        BY <1>2, <3>1, <4>1, QueueFacts, CountType
    <3>9. Tokens(d) <= removals[d] /\ removals[d] \in Nat
      BY <1>2, <2>1 DEF RemovalInv
    <3> HIDE DEF Tokens, Erasing, Released
    <3> QED
      BY <3>2, <3>3, <3>4, <3>6, <3>7, <3>8, <3>9
  <2>2. \A d \in Conns : conn'[d].tied /\ connections[conn'[d].fd] # d => removals[d] > 0
    BY <1>2, <1>6 DEF RemovalInv
  <2>3. AssertionsFailOnlyOnDoubleRemoval'
    <3>1. CASE UNCHANGED exited
      BY <1>1, <3>1 DEF Running, AssertionsFailOnlyOnDoubleRemoval, RemovalAssertionsHold
    <3>2. CASE ~conn[c].in_epoll
      <4>1. Tokens(c) <= removals[c]
        BY <1>2, <1>3, <1>5 DEF RemovalInv
      <4>2. Tokens(c) = Count(todo[Main], c) + Count(functors[Main], c) + Erasing(c)
               + Count(todo[s], c) + Count(functors[s], c) + Released(c)
        BY <1>5 DEF Tokens
      <4>3. Released(c) = 1 /\ Erasing(c) \in Nat
        BY <3>2 DEF Released, Erasing
      <4>4. Count(functors[s], c) >= 1
        BY <1>2, <1>3, CountPresent
      <4>5. /\ Count(todo[Main], c) \in Nat /\ Count(functors[Main], c) \in Nat
            /\ Count(todo[s], c) \in Nat /\ Count(functors[s], c) \in Nat
            /\ removals[c] \in Nat
        BY <1>2, <1>3, QueueFacts
      <4>6. removals[c] > 1
        <5> HIDE DEF Tokens, Erasing, Released
        <5> QED
          BY <4>1, <4>2, <4>3, <4>4, <4>5
      <4> QED
        BY <1>1, <1>3, <4>6 DEF AssertionsFailOnlyOnDoubleRemoval
    <3> QED
      BY <1>1, <3>1, <3>2
  <2>4. \A d \in Conns : (Constructed(d))' => (Tokens(d))' <= removals[d]
    BY <1>7, <2>1
  <2> QED
    BY <1>1, <2>2, <2>3, <2>4, Zenon DEF RemovalInv
<1> QED
  BY <1>9, <1>10, <1>11, <1>12, <1>13 DEF OwnerInv

-----------------------------------------------------------------------------
(***************************************************************************)
(* The invariant about owners is inductive.                                *)
(***************************************************************************)
LEMMA OwnerInit == Init => OwnerInv
<1> SUFFICES ASSUME Init PROVE OwnerInv
  OBVIOUS
<1>1. /\ \A c \in Conns : ~Constructed(c) /\ ~conn[c].in_epoll /\ ~conn[c].tied
                            /\ conn[c].listen = {}
      /\ \A f \in Fds : connections[f] = NoConn
      /\ \A c \in Conns : timer[c] = NoLoop /\ removals[c] = 0
      /\ \A l \in Loops : /\ chs[l] = {} /\ todo[l] = <<>> /\ functors[l] = <<>>
                          /\ owned[l] = {}
      /\ \A s \in Subs : handler[s].conn = NoConn
      /\ main = IdleMain /\ main.pc = "idle" /\ main.conn = NoConn /\ exited = "no"
  BY DEF Init, NewConn, Constructed, IdleHandler, IdleMain
<1>2. \A c \in Conns : ~Owned(c)
  BY <1>1, RangeEmpty, ReactorAssumption DEF Owned, OwnedByCallback
<1>3. PlaceInv
  BY <1>1, RangeEmpty, LoopFacts DEF PlaceInv
<1>4. EventInv
  BY <1>1, ReactorAssumption DEF EventInv
<1>5. ObjectInv
  BY <1>1, <1>2 DEF ObjectInv
<1>6. EpollInv /\ RemovalInv
  BY <1>1 DEF EpollInv, RemovalInv, AssertionsFailOnlyOnDoubleRemoval, RemovalAssertionsHold
<1> QED
  BY <1>3, <1>4, <1>5, <1>6 DEF OwnerInv

LEMMA OwnerLoopStep ==
    ASSUME TypeOK, TypeOK', OwnerInv, NEW l \in Loops, LoopStep(l)
    PROVE  OwnerInv'
<1>1. CASE Poll(l)
  BY <1>1, PollOwners
<1>2. CASE DoToDoList(l)
  BY <1>2, SwapOwners
<1>3. CASE FinishToDoList(l)
  BY <1>3, FinishOwners
<1>4. ASSUME NEW c \in Conns,
             OverTimeTooLate(l, c) \/ OverTimeExpired(l, c) \/ OverTimeRearm(l, c)
      PROVE  OwnerInv'
  <2>1. CASE OverTimeExpired(l, c) /\ l = Main
    BY <2>1, MainTimerOwners
  <2>2. CASE ~(OverTimeExpired(l, c) /\ l = Main)
    BY <1>4, <2>2, TimerOwners
  <2> QED
    BY <2>1, <2>2
<1> QED
  BY <1>1, <1>2, <1>3, <1>4 DEF LoopStep

LEMMA OwnerNext ==
    ASSUME TypeOK, TypeOK', OwnerInv, [Next]_vars
    PROVE  OwnerInv'
<1>1. CASE MainStep
  <2>1. CASE LoopStep(Main)
    BY <2>1, OwnerLoopStep, LoopFacts
  <2>2. CASE AcceptFails
    <3>1. /\ Running /\ RemovalAssertionsHold'
          /\ UNCHANGED <<conn, connections, main, timer, phase, chs, todo, functors, owned,
                         handler, removals, backlog>>
      BY <2>2 DEF AcceptFails, MainHandles, RemovalAssertionsHold, mapVars, loopVars
    <3>2. backlog' >= backlog
      BY <3>1 DEF TypeOK
    <3> QED
      BY <3>1, <3>2, QuietOwners
  <2> QED
    BY <1>1, <2>1, <2>2, NewConnectionOwners, InsertConnectionOwners,
       ConnectionEstablishedOwners, OnConnnectCallbackOwners, RemoveInLoopOwners,
       EraseConnectionOwners DEF MainStep
<1>2. ASSUME NEW s \in Subs, SubStep(s)
      PROVE  OwnerInv'
  <2>1. CASE LoopStep(s)
    BY <2>1, OwnerLoopStep, LoopFacts
  <2>2. CASE \E e \in chs[s] : HandleEvent(s, e)
    BY <2>2, HandleEventOwners
  <2>3. CASE \E c \in Conns : CallbackStep(s, c)
    BY <2>3, CallbackIsFrame, CallbackOwners
  <2>4. CASE ConnectionDestructor(s)
    BY <2>4, DestructorOwners
  <2> QED
    BY <1>2, <2>1, <2>2, <2>3, <2>4 DEF SubStep
<1>3. ASSUME NEW s \in Subs, NEW c \in Conns, WriteRaisesSigpipe(s, c)
      PROVE  OwnerInv'
  <2>1. /\ Running /\ RemovalAssertionsHold'
        /\ UNCHANGED <<conn, connections, main, timer, phase, chs, todo, functors, owned,
                       handler, removals, backlog>>
    BY <1>3 DEF WriteRaisesSigpipe, InCallback, RemovalAssertionsHold, mapVars, loopVars
  <2>2. backlog' >= backlog
    BY <2>1 DEF TypeOK
  <2> QED
    BY <2>1, <2>2, QuietOwners
<1>4. CASE ClientStep
  BY <1>4, ClientFrame, QuietOwners
<1>5. CASE UNCHANGED vars
  <2>1. UNCHANGED <<conn, connections, main, timer, phase, chs, todo, functors, owned,
                    handler, removals, backlog, exited>>
    BY <1>5 DEF vars
  <2>2. PlaceInv' /\ EventInv'
    BY <2>1 DEF OwnerInv, PlaceInv, EventInv, Served
  <2>3. ObjectInv'
    BY <2>1 DEF OwnerInv, ObjectInv, Owned, OwnedByCallback, Constructed
  <2>4. EpollInv' /\ RemovalInv'
    BY <2>1 DEF OwnerInv, EpollInv, RemovalInv, Tokens, Erasing, Released, Constructed,
       AssertionsFailOnlyOnDoubleRemoval, RemovalAssertionsHold
  <2> QED
    BY <2>2, <2>3, <2>4 DEF OwnerInv
<1> QED
  BY <1>1, <1>2, <1>3, <1>4, <1>5 DEF Next

-----------------------------------------------------------------------------
(***************************************************************************)
(* No removal before ConnectionEstablished.                                *)
(***************************************************************************)
LEMMA TiedStep ==
    ASSUME TypeOK, PlaceInv, TiedInv,
           \A c \in Conns : conn'[c].tied = conn[c].tied,
           UNCHANGED main \/ main'.pc \notin {"inserting", "establish"},
           \/ UNCHANGED removals
           \/ \E c \in Conns : conn[c].tied /\ removals' = [removals EXCEPT ![c] = removals[c] + 1]
    PROVE  TiedInv'
<1>1. \A c \in Conns : removals'[c] > 0 => conn[c].tied
  <2>1. removals \in [Conns -> Nat]
    BY DEF TypeOK
  <2>2. CASE UNCHANGED removals
    BY <2>2 DEF TiedInv
  <2>3. ASSUME NEW c \in Conns, conn[c].tied, removals' = [removals EXCEPT ![c] = removals[c] + 1]
        PROVE  \A d \in Conns : removals'[d] > 0 => conn[d].tied
    BY <2>1, <2>3 DEF TiedInv
  <2> QED
    BY <2>2, <2>3
<1>2. main'.pc \in {"inserting", "establish"} => ~conn'[main'.conn].tied
  BY DEF TiedInv, PlaceInv
<1> QED
  BY <1>1, <1>2 DEF TiedInv

LEMMA TiedLoopStep ==
    ASSUME TypeOK, OwnerInv, TiedInv, NEW l \in Loops, LoopStep(l)
    PROVE  TiedInv'
<1>1. CASE Poll(l) \/ DoToDoList(l) \/ FinishToDoList(l)
  <2>1. UNCHANGED <<conn, main, removals>>
    BY <1>1 DEF Poll, DoToDoList, FinishToDoList, NoRemoval, mapVars
  <2> QED
    BY <2>1, TiedStep DEF OwnerInv
<1>2. ASSUME NEW c \in Conns,
             OverTimeTooLate(l, c) \/ OverTimeExpired(l, c) \/ OverTimeRearm(l, c)
      PROVE  TiedInv'
  <2>1. conn[c].tied
    <3>1. TimerEvent(c) \in chs[l] /\ TimerEvent(c).kind = "timer" /\ TimerEvent(c).conn = c
      BY <1>2 DEF OverTimeTooLate, OverTimeExpired, OverTimeRearm, TimerRuns, TimerEvent, Event
    <3> QED
      BY <3>1 DEF OwnerInv, EventInv
  <2>2. \/ UNCHANGED removals
        \/ removals' = [removals EXCEPT ![c] = removals[c] + 1]
    BY <1>2 DEF OverTimeTooLate, OverTimeExpired, OverTimeRearm, NoRemoval, RemoveConnection
  <2>3. UNCHANGED main \/ main' = [conn |-> c, pc |-> "erasing"]
    BY <1>2 DEF OverTimeTooLate, OverTimeExpired, OverTimeRearm
  <2>4. UNCHANGED conn \/ conn' = [conn EXCEPT ![c].touched = FALSE]
    BY <1>2 DEF OverTimeTooLate, OverTimeExpired, OverTimeRearm
  <2>5. \A d \in Conns : conn'[d].tied = conn[d].tied
    BY <2>4, TypeFacts DEF ConnType
  <2>6. UNCHANGED main \/ main'.pc \notin {"inserting", "establish"}
    BY <2>3
  <2> QED
    BY <2>1, <2>2, <2>5, <2>6, TiedStep DEF OwnerInv
<1> QED
  BY <1>1, <1>2 DEF LoopStep

LEMMA TiedMainStep ==
    ASSUME TypeOK, OwnerInv, TiedInv, MainStep
    PROVE  TiedInv'
<1>1. CASE LoopStep(Main)
  BY <1>1, TiedLoopStep, LoopFacts
<1>2. ASSUME NEW c \in Conns, NewConnection(c)
      PROVE  TiedInv'
  <2>1. PICK f \in Fds \ FdsInUse :
           conn' = [conn EXCEPT ![c] = [NewConn EXCEPT !.fd = f, !.loop = NextLoop,
                       !.state = "Connected", !.listen = EtOnly, !.in_epoll = TRUE]]
    BY <1>2 DEF NewConnection
  <2>2. main' = [conn |-> c, pc |-> "inserting"] /\ UNCHANGED removals /\ ~Constructed(c)
    BY <1>2 DEF NewConnection, NoRemoval
  <2>3. /\ ~conn'[c].tied
        /\ \A d \in Conns : d # c => conn'[d] = conn[d]
    BY <2>1, TypeFacts DEF NewConn
  <2>4. ~conn[c].tied
    BY <2>2, FreshConn
  <2> QED
    BY <2>2, <2>3, <2>4 DEF TiedInv
<1>3. CASE InsertConnection
  <2>1. /\ UNCHANGED <<conn, removals>> /\ main.pc = "inserting"
        /\ main' = [main EXCEPT !.pc = "establish"]
    BY <1>3 DEF InsertConnection, NoRemoval
  <2>2. main'.conn = main.conn
    BY <2>1, TypeFacts DEF MainType
  <2> QED
    BY <2>1, <2>2 DEF TiedInv
<1>4. CASE ConnectionEstablished
  <2> DEFINE c == main.conn
             k == [[conn[c] EXCEPT !.tied = TRUE] EXCEPT !.listen = conn[c].listen \cup {"READ"}]
  <2>1. /\ UNCHANGED removals /\ main.pc = "establish"
        /\ conn' = [conn EXCEPT ![c].tied = TRUE, ![c].listen = conn[c].listen \cup {"READ"}]
        /\ main' = [main EXCEPT !.pc = "connect"]
    BY <1>4 DEF ConnectionEstablished, NoRemoval
  <2>2. c \in Conns /\ main'.pc = "connect"
    BY <2>1, TypeFacts DEF MainType, OwnerInv, PlaceInv
  <2>3. conn \in [Conns -> ConnType]
    BY TypeFacts
  <2>4. conn' = [conn EXCEPT ![c] = k]
    BY <2>1, <2>2, <2>3
  <2>5. k.tied
    BY <2>2, <2>3 DEF ConnType
  <2>6. \A d \in Conns : conn[d].tied => conn'[d].tied
    <3>1. conn'[c] = k /\ \A d \in Conns : d # c => conn'[d] = conn[d]
      BY <2>2, <2>3, <2>4
    <3> HIDE DEF k
    <3> QED
      BY <2>5, <3>1
  <2> QED
    BY <2>1, <2>2, <2>6 DEF TiedInv
<1>5. CASE AcceptFails \/ OnConnnectCallback \/ RemoveConnectionInLoop \/ EraseConnection
  <2>1. UNCHANGED <<conn, removals>>
    BY <1>5 DEF AcceptFails, OnConnnectCallback, RemoveConnectionInLoop, EraseConnection, NoRemoval
  <2>2. UNCHANGED main \/ main'.pc \notin {"inserting", "establish"}
    <3>1. \/ UNCHANGED main \/ main' = IdleMain
          \/ main' = [conn |-> Head(functors[Main]), pc |-> "erasing"]
      BY <1>5 DEF AcceptFails, OnConnnectCallback, RemoveConnectionInLoop, EraseConnection, mapVars
    <3>2. IdleMain.pc = "idle"
      BY DEF IdleMain
    <3> QED
      BY <3>1, <3>2
  <2> QED
    BY <2>1, <2>2, TiedStep DEF OwnerInv
<1> QED
  BY <1>1, <1>2, <1>3, <1>4, <1>5 DEF MainStep

LEMMA TiedNext ==
    ASSUME TypeOK, OwnerInv, TiedInv, [Next]_vars
    PROVE  TiedInv'
<1>1. CASE MainStep
  BY <1>1, TiedMainStep
<1>2. ASSUME NEW s \in Subs, SubStep(s)
      PROVE  TiedInv'
  <2>1. CASE LoopStep(s)
    BY <2>1, TiedLoopStep, LoopFacts
  <2>2. CASE \E e \in chs[s] : HandleEvent(s, e)
    <3>1. UNCHANGED <<conn, main, removals>>
      BY <2>2 DEF HandleEvent, NoRemoval, mapVars
    <3> QED
      BY <3>1, TiedStep DEF OwnerInv
  <2>3. ASSUME NEW c \in Conns, CallbackStep(s, c)
        PROVE  TiedInv'
    <3>1. CallbackFrame(s, c)
      BY <2>3, CallbackIsFrame
    <3>2. PICK k \in ConnType : conn' = [conn EXCEPT ![c] = k] /\ SameIdentity(k, conn[c])
      BY <3>1 DEF CallbackFrame
    <3>3. \A d \in Conns : conn'[d].tied = conn[d].tied
      BY <3>2, TypeFacts DEF SameIdentity
    <3>4. conn[c].tied
      BY <3>1 DEF CallbackFrame, OwnerInv, EventInv, Served
    <3>5. UNCHANGED main
      BY <3>1 DEF CallbackFrame
    <3>6. UNCHANGED removals \/ removals' = [removals EXCEPT ![c] = removals[c] + 1]
      BY <3>1 DEF CallbackFrame, RemoveConnection, NoRemoval
    <3> QED
      BY <3>3, <3>4, <3>5, <3>6, TiedStep DEF OwnerInv
  <2>4. CASE ConnectionDestructor(s)
    <3> DEFINE c == Head(functors[s])
               k == [[conn[c] EXCEPT !.in_epoll = FALSE] EXCEPT !.listen = {}]
    <3>1. /\ UNCHANGED conn \/ conn' = [conn EXCEPT ![c].in_epoll = FALSE, ![c].listen = {}]
          /\ UNCHANGED <<main, removals>>
      BY <2>4 DEF ConnectionDestructor, mapVars
    <3>2. c \in Conns /\ conn \in [Conns -> ConnType]
      <4>1. functors[s] \in Seq(Conns) /\ functors[s] # <<>>
        BY <2>4, LoopFacts, QueueFacts DEF ConnectionDestructor
      <4> QED
        BY <4>1, RangeTail, TypeFacts
    <3>3. UNCHANGED conn \/ conn' = [conn EXCEPT ![c] = k]
      BY <3>1, <3>2
    <3>4. k.tied = conn[c].tied
      BY <3>2 DEF ConnType
    <3>5. \A d \in Conns : conn'[d].tied = conn[d].tied
      <4>1. UNCHANGED conn \/ (conn'[c] = k /\ \A d \in Conns : d # c => conn'[d] = conn[d])
        BY <3>2, <3>3
      <4> HIDE DEF k
      <4> QED
        BY <3>4, <4>1
    <3> QED
      BY <3>1, <3>5, TiedStep DEF OwnerInv
  <2> QED
    BY <1>2, <2>1, <2>2, <2>3, <2>4 DEF SubStep
<1>3. CASE (\E s \in Subs, c \in Conns : WriteRaisesSigpipe(s, c)) \/ ClientStep \/ UNCHANGED vars
  <2>1. UNCHANGED <<conn, main, removals>>
    BY <1>3, ClientFrame DEF WriteRaisesSigpipe, InCallback, mapVars, vars
  <2> QED
    BY <2>1, TiedStep DEF OwnerInv
<1> QED
  BY <1>1, <1>2, <1>3 DEF Next

-----------------------------------------------------------------------------
(***************************************************************************)
(* No edge is lost.                                                        *)
(***************************************************************************)

\* A step that touches neither the connection nor its socket, and takes none of its events
\* off its loop's batch.
LEMMA DataKept ==
    ASSUME TypeOK, OwnerInv, NEW c \in Conns, DataSafe(c),
           Running' => Running,
           conn'[c].state = conn[c].state, conn'[c].listen = conn[c].listen,
           conn'[c].in_epoll = conn[c].in_epoll, conn'[c].output = conn[c].output,
           conn'[c].loop = conn[c].loop,
           sock'[c] = sock[c],
           conn[c].loop \in Subs =>
              /\ \A e \in chs[conn[c].loop] :
                    e.conn = c /\ e.ready # {} => e \in chs'[conn[c].loop]
              /\ handler[conn[c].loop].conn = c =>
                    handler'[conn[c].loop] = handler[conn[c].loop]
    PROVE  (DataSafe(c))'
<1>1. conn[c].in_epoll => conn[c].loop \in Subs
  BY DEF OwnerInv, ObjectInv
<1>2. "READ" \in conn[c].listen => conn[c].in_epoll
  BY DEF DataSafe
<1>3. conn[c].loop \in Subs => (InputSeen(c) => (InputSeen(c))')
  BY DEF InputSeen
<1>4. conn[c].loop \in Subs => (OutputSeen(c) => (OutputSeen(c))')
  BY DEF OutputSeen
<1>5. (InputSafe(c))'
  <2>1. ReadyFor(sock'[c]) = ReadyFor(sock[c])
    OBVIOUS
  <2> QED
    BY <1>1, <1>2, <1>3, <2>1 DEF InputSafe, DataSafe
<1>6. (OutputSafe(c))'
  BY <1>1, <1>4 DEF OutputSafe, DataSafe
<1> QED
  BY <1>2, <1>5, <1>6 DEF DataSafe

LEMMA DataHandleEvent ==
    ASSUME TypeOK, OwnerInv, DataInv, NEW s \in Subs, NEW e \in chs[s], HandleEvent(s, e)
    PROVE  DataInv'
<1>1. /\ Running /\ handler[s] = IdleHandler /\ e.kind = "io"
      /\ chs' = [chs EXCEPT ![s] = chs[s] \ {e}]
      /\ handler' = [handler EXCEPT ![s] =
            [conn |-> e.conn, ready |-> e.ready, reply |-> "none",
             pc |-> IF "READ" \in e.ready THEN "read" ELSE "write"]]
      /\ UNCHANGED <<conn, sock, exited>>
  BY DEF HandleEvent, NoRemoval
<1>2. /\ handler \in [Subs -> HandlerType] /\ chs \in [Loops -> SUBSET EventType]
      /\ s \in Loops /\ handler[s].conn = NoConn
  BY <1>1, TypeFacts, LoopFacts DEF IdleHandler
<1>3. /\ handler'[s].conn = e.conn /\ handler'[s].ready = e.ready
      /\ "READ" \in e.ready => handler'[s].pc = "read"
      /\ \A r \in Subs : r # s => handler'[r] = handler[r]
      /\ chs'[s] = chs[s] \ {e}
      /\ \A r \in Loops : r # s => chs'[r] = chs[r]
  BY <1>1, <1>2
<1>4. Served(s, e.conn)
  BY <1>1, <1>2 DEF OwnerInv, EventInv
<1>5. ASSUME NEW c \in Conns
      PROVE  (DataSafe(c))'
  <2>1. DataSafe(c) /\ c # NoConn
    BY FdFacts DEF DataInv
  <2>2. CASE c = e.conn
    <3>1. conn[c].loop = s
      BY <1>4, <2>2 DEF Served
    <3>2. InputSeen(c) => (InputSeen(c))'
      BY <1>1, <1>2, <1>3, <2>1, <2>2, <3>1 DEF InputSeen
    <3>3. OutputSeen(c) => (OutputSeen(c))'
      BY <1>1, <1>2, <1>3, <2>1, <2>2, <3>1 DEF OutputSeen
    <3> QED
      BY <1>1, <2>1, <3>2, <3>3 DEF DataSafe, InputSafe, OutputSafe, Running
  <2>3. CASE c # e.conn
    <3>1. conn[c].loop \in Subs =>
             /\ \A x \in chs[conn[c].loop] :
                   x.conn = c /\ x.ready # {} => x \in chs'[conn[c].loop]
             /\ handler[conn[c].loop].conn = c =>
                   handler'[conn[c].loop] = handler[conn[c].loop]
      BY <1>2, <1>3, <2>1, <2>3, LoopFacts
    <3> QED
      BY <1>1, <2>1, <3>1, DataKept DEF Running
  <2> QED
    BY <2>2, <2>3
<1> QED
  BY <1>5 DEF DataInv

LEMMA DataPoll ==
    ASSUME TypeOK, OwnerInv, DataInv, NEW l \in Loops, Poll(l)
    PROVE  DataInv'
<1> DEFINE io == {c \in Conns : /\ conn[c].in_epoll /\ conn[c].loop = l
                                /\ sock[c].edge /\ Events(c) # {}}
           accept == IF l = Main /\ backlog > 0 THEN {AcceptEvent} ELSE {}
           Batch(due) == accept \cup {TimerEvent(c) : c \in due}
                                \cup {Event("io", c, Events(c)) : c \in io}
<1>1. /\ Running /\ phase[l] = "poll"
      /\ sock' = [c \in Conns |-> IF c \in io THEN [sock[c] EXCEPT !.edge = FALSE] ELSE sock[c]]
      /\ UNCHANGED <<conn, handler, exited>>
  BY DEF Poll, NoRemoval
<1>2. PICK due \in SUBSET {c \in Conns : timer[c] = l} : chs' = [chs EXCEPT ![l] = Batch(due)]
  BY DEF Poll
<1>3. /\ chs \in [Loops -> SUBSET EventType] /\ sock \in [Conns -> SockType]
      /\ chs[l] = {}
  BY <1>1, TypeFacts DEF OwnerInv, PlaceInv
<1>4. chs'[l] = Batch(due) /\ \A r \in Loops : r # l => chs'[r] = chs[r]
  BY <1>2, <1>3
<1>5. ASSUME NEW c \in Conns
      PROVE  (DataSafe(c))'
  <2>1. DataSafe(c)
    BY DEF DataInv
  <2>2. CASE c \in io
    <3>1. /\ sock'[c].inbox = sock[c].inbox /\ sock'[c].peer = sock[c].peer
          /\ sock'[c].room = sock[c].room
      BY <1>1, <1>3, <2>2 DEF SockType
    <3>2. conn[c].loop = l /\ Event("io", c, Events(c)) \in chs'[l]
      BY <1>4, <2>2
    <3>3. /\ Event("io", c, Events(c)).conn = c
          /\ Event("io", c, Events(c)).ready = Events(c)
      BY DEF Event
    <3>4. (InputSafe(c))'
      <4>1. "READ" \in conn[c].listen /\ "READ" \in ReadyFor(sock'[c]) => "READ" \in Events(c)
        BY <3>1 DEF Events, ReadyFor
      <4> QED
        BY <1>1, <3>2, <3>3, <4>1 DEF InputSafe, InputSeen
    <3>5. (OutputSafe(c))'
      <4>1. "WRITE" \in conn[c].listen /\ sock'[c].room => "WRITE" \in Events(c)
        BY <3>1 DEF Events, ReadyFor
      <4> QED
        BY <1>1, <2>1, <3>2, <3>3, <4>1 DEF OutputSafe, OutputSeen, DataSafe, Running
    <3> QED
      BY <1>1, <2>1, <3>4, <3>5 DEF DataSafe
  <2>3. CASE c \notin io
    <3>1. sock'[c] = sock[c]
      BY <1>1, <2>3
    <3>2. conn[c].loop \in Subs =>
             \A x \in chs[conn[c].loop] : x.conn = c /\ x.ready # {} => x \in chs'[conn[c].loop]
      BY <1>3, <1>4, LoopFacts
    <3> QED
      BY <1>1, <2>1, <3>1, <3>2, DataKept DEF Running
  <2> QED
    BY <2>2, <2>3
<1> QED
  BY <1>5 DEF DataInv

LEMMA DataClient ==
    ASSUME TypeOK, OwnerInv, DataInv, ClientStep
    PROVE  DataInv'
<1>1. /\ Running
      /\ UNCHANGED <<conn, chs, handler, exited>>
  BY ClientFrame
<1>2. sock \in [Conns -> SockType]
  BY TypeFacts
<1>3. CASE ClientConnects
  <2>1. UNCHANGED sock
    BY <1>3 DEF ClientConnects
  <2>2. \A c \in Conns : DataSafe(c)
    BY DEF DataInv
  <2>3. ASSUME NEW c \in Conns
        PROVE  (DataSafe(c))'
    BY <1>1, <2>1, <2>2, DataKept DEF Running
  <2> QED
    BY <2>3 DEF DataInv
<1>4. ASSUME NEW c \in Conns,
             ClientSends(c) \/ ClientCloses(c) \/ ClientResets(c) \/ ClientReads(c)
      PROVE  DataInv'
  <2>1. DataSafe(c)
    BY DEF DataInv
  <2> DEFINE up(e) == conn[c].in_epoll /\ e \in conn[c].listen
  <2>2. PICK k \in SockType, e \in {"READ", "WRITE"} :
           /\ sock' = [sock EXCEPT ![c] = [k EXCEPT !.edge = k.edge \/ up(e)]]
           /\ k.edge = sock[c].edge
           /\ e = "READ" => k.room = sock[c].room
           /\ e = "WRITE" => k.inbox = sock[c].inbox /\ k.peer = sock[c].peer
    <3>1. /\ ClientSends(c) =>
                sock' = [sock EXCEPT ![c] = Changed(c, [sock[c] EXCEPT !.inbox = TRUE], "READ")]
          /\ ClientCloses(c) =>
                sock' = [sock EXCEPT ![c] = Changed(c, [sock[c] EXCEPT !.peer = "closed"], "READ")]
          /\ ClientResets(c) =>
                sock' = [sock EXCEPT ![c] = Changed(c, [sock[c] EXCEPT !.peer = "reset"], "READ")]
          /\ ClientReads(c) =>
                sock' = [sock EXCEPT ![c] = Changed(c, [sock[c] EXCEPT !.room = TRUE], "WRITE")]
      BY DEF ClientSends, ClientCloses, ClientResets, ClientReads, Client
    <3>2. /\ [sock[c] EXCEPT !.inbox = TRUE] \in SockType
          /\ [sock[c] EXCEPT !.inbox = TRUE].edge = sock[c].edge
          /\ [sock[c] EXCEPT !.inbox = TRUE].room = sock[c].room
          /\ [sock[c] EXCEPT !.peer = "closed"] \in SockType
          /\ [sock[c] EXCEPT !.peer = "closed"].edge = sock[c].edge
          /\ [sock[c] EXCEPT !.peer = "closed"].room = sock[c].room
          /\ [sock[c] EXCEPT !.peer = "reset"] \in SockType
          /\ [sock[c] EXCEPT !.peer = "reset"].edge = sock[c].edge
          /\ [sock[c] EXCEPT !.peer = "reset"].room = sock[c].room
          /\ [sock[c] EXCEPT !.room = TRUE] \in SockType
          /\ [sock[c] EXCEPT !.room = TRUE].edge = sock[c].edge
          /\ [sock[c] EXCEPT !.room = TRUE].inbox = sock[c].inbox
          /\ [sock[c] EXCEPT !.room = TRUE].peer = sock[c].peer
      BY <1>2 DEF SockType
    <3>3. \A k, e : Changed(c, k, e) = [k EXCEPT !.edge = k.edge \/ up(e)]
      BY DEF Changed
    <3> HIDE DEF up
    <3> DEFINE Goal ==
                  \E k \in SockType, e \in {"READ", "WRITE"} :
                     /\ sock' = [sock EXCEPT ![c] = [k EXCEPT !.edge = k.edge \/ up(e)]]
                     /\ k.edge = sock[c].edge
                     /\ e = "READ" => k.room = sock[c].room
                     /\ e = "WRITE" => k.inbox = sock[c].inbox /\ k.peer = sock[c].peer
    <3>4. ASSUME NEW k \in SockType, NEW e \in {"READ", "WRITE"},
                 sock' = [sock EXCEPT ![c] = Changed(c, k, e)], k.edge = sock[c].edge,
                 e = "READ" => k.room = sock[c].room,
                 e = "WRITE" => k.inbox = sock[c].inbox /\ k.peer = sock[c].peer
          PROVE  Goal
      BY <3>3, <3>4, Zenon
    <3> HIDE DEF Goal
    <3>5. ASSUME ClientSends(c) PROVE Goal
      BY <3>1, <3>2, <3>4, <3>5
    <3>6. ASSUME ClientCloses(c) PROVE Goal
      BY <3>1, <3>2, <3>4, <3>6
    <3>7. ASSUME ClientResets(c) PROVE Goal
      BY <3>1, <3>2, <3>4, <3>7
    <3>8. ASSUME ClientReads(c) PROVE Goal
      BY <3>1, <3>2, <3>4, <3>8
    <3>9. Goal
      BY <1>4, <3>5, <3>6, <3>7, <3>8
    <3> QED
      BY <3>9, Zenon DEF Goal
  <2>3. /\ sock'[c].edge <=> sock[c].edge \/ up(e)
        /\ sock'[c].room = k.room /\ sock'[c].inbox = k.inbox /\ sock'[c].peer = k.peer
        /\ \A d \in Conns : d # c => sock'[d] = sock[d]
    <3>1. sock'[c] = [k EXCEPT !.edge = k.edge \/ up(e)]
      BY <1>2, <2>2
    <3> HIDE DEF up
    <3>2. /\ [k EXCEPT !.edge = k.edge \/ up(e)].edge = (k.edge \/ up(e))
          /\ [k EXCEPT !.edge = k.edge \/ up(e)].room = k.room
          /\ [k EXCEPT !.edge = k.edge \/ up(e)].inbox = k.inbox
          /\ [k EXCEPT !.edge = k.edge \/ up(e)].peer = k.peer
      BY DEF SockType
    <3>3. \A d \in Conns : d # c => sock'[d] = sock[d]
      BY <1>2, <2>2
    <3> QED
      BY <2>2, <3>1, <3>2, <3>3, Zenon
  <2>4. (InputSafe(c))'
    <3> SUFFICES ASSUME conn[c].state = "Connected", "READ" \in conn[c].listen,
                        "READ" \in ReadyFor(sock'[c])
                 PROVE  (InputSeen(c))'
      BY <1>1 DEF InputSafe
    <3>1. CASE e = "READ"
      BY <2>1, <2>3, <3>1 DEF DataSafe, InputSeen
    <3>2. CASE e = "WRITE"
      <4>1. "READ" \in ReadyFor(sock[c])
        BY <2>2, <2>3, <3>2 DEF ReadyFor
      <4>2. InputSeen(c)
        BY <1>1, <2>1, <4>1 DEF DataSafe, InputSafe
      <4> QED
        BY <1>1, <2>3, <4>2 DEF InputSeen
    <3> QED
      BY <3>1, <3>2
  <2>5. (OutputSafe(c))'
    <3> SUFFICES ASSUME conn[c].state = "Connected", conn[c].in_epoll, conn[c].output
                 PROVE  "WRITE" \in conn[c].listen /\ (sock'[c].room => (OutputSeen(c))')
      BY <1>1 DEF OutputSafe
    <3>1. "WRITE" \in conn[c].listen /\ (sock[c].room => OutputSeen(c))
      BY <1>1, <2>1 DEF DataSafe, OutputSafe
    <3>2. OutputSeen(c) => (OutputSeen(c))'
      BY <1>1, <2>3 DEF OutputSeen
    <3>3. CASE e = "READ"
      BY <2>2, <2>3, <3>1, <3>2, <3>3
    <3>4. CASE e = "WRITE"
      BY <2>3, <3>1, <3>4 DEF OutputSeen
    <3> QED
      BY <3>3, <3>4
  <2>6. (DataSafe(c))'
    BY <1>1, <2>1, <2>4, <2>5 DEF DataSafe
  <2>7. ASSUME NEW d \in Conns, d # c
        PROVE  (DataSafe(d))'
    <3>1. DataSafe(d)
      BY DEF DataInv
    <3> QED
      BY <1>1, <2>3, <2>7, <3>1, DataKept DEF Running
  <2> QED
    BY <2>6, <2>7 DEF DataInv
<1> QED
  BY <1>3, <1>4 DEF ClientStep

\* What the callbacks of a connection do to its own data.  InputFrame: the step leaves what
\* may be read to an edge or a reported event, as the callback is not Read; OutputFrame: the
\* handler still comes to the write callback if EPOLLOUT was reported, or it was not.
LEMMA InputFrame ==
    ASSUME TypeOK, NEW s \in Subs, NEW c \in Conns, DataSafe(c), Running,
           handler[s].conn = c, handler[s].pc # "read", conn[c].loop = s,
           UNCHANGED chs, conn'[c].loop = s,
           conn'[c].state = conn[c].state,
           "READ" \in conn'[c].listen => "READ" \in conn[c].listen,
           sock'[c].inbox = sock[c].inbox, sock'[c].peer = sock[c].peer,
           sock[c].edge => sock'[c].edge
    PROVE  (InputSafe(c))'
<1> SUFFICES ASSUME conn'[c].state = "Connected", "READ" \in conn'[c].listen,
                    "READ" \in ReadyFor(sock'[c])
             PROVE  (InputSeen(c))'
  BY DEF InputSafe
<1>1. "READ" \in ReadyFor(sock[c])
  BY DEF ReadyFor
<1>2. InputSeen(c)
  BY <1>1 DEF DataSafe, InputSafe
<1>3. sock[c].edge \/ \E e \in chs[s] : e.conn = c /\ "READ" \in e.ready
  BY <1>2 DEF InputSeen
<1> QED
  BY <1>3 DEF InputSeen

LEMMA OutputFrame ==
    ASSUME TypeOK, NEW s \in Subs, NEW c \in Conns, DataSafe(c), Running,
           handler[s].conn = c, conn[c].loop = s,
           UNCHANGED chs, conn'[c].loop = s,
           conn'[c].state = conn[c].state, conn'[c].in_epoll = conn[c].in_epoll,
           conn'[c].output = conn[c].output,
           "WRITE" \in conn[c].listen => "WRITE" \in conn'[c].listen,
           sock'[c].room => sock[c].room,
           sock[c].edge => sock'[c].edge,
           "WRITE" \in handler[s].ready =>
              handler'[s].conn = c /\ "WRITE" \in handler'[s].ready
    PROVE  (OutputSafe(c))'
<1> SUFFICES ASSUME conn'[c].state = "Connected", conn'[c].in_epoll, conn'[c].output
             PROVE  "WRITE" \in conn'[c].listen /\ (sock'[c].room => (OutputSeen(c))')
  BY DEF OutputSafe
<1>1. "WRITE" \in conn[c].listen /\ (sock[c].room => OutputSeen(c))
  BY DEF DataSafe, OutputSafe
<1>2. OutputSeen(c) => (OutputSeen(c))'
  BY DEF OutputSeen
<1> QED
  BY <1>1, <1>2

\* The handler of a connection whose read callback has not returned, or has just.
LEMMA HandlerKeeps ==
    ASSUME TypeOK, NEW s \in Subs,
           \/ AfterRead(s)
           \/ \E pc : handler' = [handler EXCEPT ![s].pc = pc]
           \/ \E reply : AfterSend(s, reply)
    PROVE  "WRITE" \in handler[s].ready =>
              handler'[s].conn = handler[s].conn /\ "WRITE" \in handler'[s].ready
<1> DEFINE h == handler[s]
<1>1. handler \in [Subs -> HandlerType] /\ h \in HandlerType
  BY TypeFacts
<1>2. \A pc : [h EXCEPT !.pc = pc].conn = h.conn /\ [h EXCEPT !.pc = pc].ready = h.ready
  BY <1>1 DEF HandlerType
<1>3. \A pc, reply : /\ [h EXCEPT !.reply = reply, !.pc = pc].conn = h.conn
                     /\ [h EXCEPT !.reply = reply, !.pc = pc].ready = h.ready
  BY <1>1 DEF HandlerType
<1>4. ASSUME AfterRead(s), "WRITE" \in h.ready
      PROVE  handler'[s].conn = h.conn /\ "WRITE" \in handler'[s].ready
  BY <1>1, <1>2, <1>4 DEF AfterRead
<1>5. ASSUME NEW pc, handler' = [handler EXCEPT ![s].pc = pc], "WRITE" \in h.ready
      PROVE  handler'[s].conn = h.conn /\ "WRITE" \in handler'[s].ready
  BY <1>1, <1>2, <1>5
<1>6. ASSUME NEW reply, AfterSend(s, reply), "WRITE" \in h.ready
      PROVE  handler'[s].conn = h.conn /\ "WRITE" \in handler'[s].ready
  <2>1. CASE reply = "page"
    BY <1>4, <1>6, <2>1 DEF AfterSend
  <2>2. CASE reply # "page"
    <3>1. PICK pc : handler' = [handler EXCEPT ![s].reply = reply, ![s].pc = pc]
      BY <1>6, <2>2 DEF AfterSend
    <3>2. handler'[s] = [h EXCEPT !.reply = reply, !.pc = pc]
      BY <1>1, <3>1
    <3> QED
      BY <1>3, <1>6, <3>2
  <2> QED
    BY <2>1, <2>2
<1> QED
  BY <1>4, <1>5, <1>6

LEMMA DataOwnCallback ==
    ASSUME TypeOK, OwnerInv, NEW s \in Subs, NEW c \in Conns, DataSafe(c), CallbackStep(s, c)
    PROVE  (DataSafe(c))'
<1>1. /\ CallbackFrame(s, c) /\ Running /\ handler[s].conn = c /\ UNCHANGED chs
  BY CallbackIsFrame DEF CallbackFrame
<1>2. Served(s, c)
  BY <1>1 DEF OwnerInv, EventInv
<1>3. /\ conn \in [Conns -> ConnType] /\ sock \in [Conns -> SockType]
      /\ handler \in [Subs -> HandlerType] /\ conn[c] \in ConnType /\ sock[c] \in SockType
      /\ conn[c].loop = s /\ conn[c].in_epoll
  BY <1>2, TypeFacts DEF Served
<1>4. conn'[c].loop = s /\ conn'[c].in_epoll
  BY <1>1, <1>3 DEF CallbackFrame, SameIdentity
<1>5. conn'[c].state # "Connected" => (DataSafe(c))'
  BY <1>4 DEF DataSafe, InputSafe, OutputSafe
<1>6. CASE ReadNotConnected(s, c) \/ WriteNotConnected(s, c)
  <2>1. conn'[c].state # "Connected"
    BY <1>6 DEF ReadNotConnected, WriteNotConnected
  <2> QED
    BY <1>5, <2>1
<1>7. CASE \/ ReadEof(s, c) \/ CloseAfterReply(s, c) \/ WriteFails(s, c)
           \/ \E reply \in Replies : SendFails(s, c, reply)
  <2>1. conn' = [conn EXCEPT ![c].state = "Closed"]
    BY <1>7 DEF ReadEof, CloseAfterReply, WriteFails, SendFails, SetClosed
  <2>2. conn'[c].state # "Connected"
    BY <1>3, <2>1 DEF ConnType
  <2> QED
    BY <1>5, <2>2
<1>8. CASE ReadToEagain(s, c)
  <2>1. /\ conn' = [conn EXCEPT ![c].touched = TRUE]
        /\ sock' = [sock EXCEPT ![c].inbox = FALSE]
        /\ handler' = [handler EXCEPT ![s].pc = "request"]
        /\ sock[c].peer = "open"
    BY <1>8 DEF ReadToEagain, ReadAll
  <2>2. /\ conn'[c].state = conn[c].state /\ conn'[c].listen = conn[c].listen
        /\ conn'[c].output = conn[c].output /\ conn'[c].in_epoll = conn[c].in_epoll
    BY <1>3, <2>1 DEF ConnType
  <2>3. /\ sock'[c].room = sock[c].room /\ sock'[c].edge = sock[c].edge
        /\ sock'[c].peer = "open" /\ ~sock'[c].inbox
    BY <1>3, <2>1 DEF SockType
  <2>4. (InputSafe(c))'
    BY <2>3 DEF InputSafe, ReadyFor
  <2>5. (OutputSafe(c))'
    <3>1. "WRITE" \in handler[s].ready =>
             handler'[s].conn = c /\ "WRITE" \in handler'[s].ready
      BY <1>1, <2>1, HandlerKeeps
    <3> QED
      BY <1>1, <1>3, <1>4, <2>2, <2>3, <3>1, OutputFrame
  <2> QED
    BY <1>4, <2>4, <2>5 DEF DataSafe
<1>9. CASE \/ OnPartialRequest(s, c) \/ SendFile(s, c)
           \/ \E reply \in Replies : SendAll(s, c, reply)
  <2>1. /\ UNCHANGED conn /\ handler[s].pc # "read"
        /\ UNCHANGED sock \/ sock' = [sock EXCEPT ![c].room = FALSE]
        /\ \/ AfterRead(s)
           \/ \E pc : handler' = [handler EXCEPT ![s].pc = pc]
           \/ \E reply : AfterSend(s, reply)
    BY <1>9 DEF OnPartialRequest, SendFile, SendAll, InCallback
  <2>2. /\ sock[c].edge => sock'[c].edge
        /\ sock'[c].inbox = sock[c].inbox /\ sock'[c].peer = sock[c].peer
        /\ sock'[c].room => sock[c].room
    <3>1. CASE UNCHANGED sock
      BY <3>1
    <3>2. CASE sock' = [sock EXCEPT ![c].room = FALSE]
      BY <1>3, <3>2 DEF SockType
    <3> QED
      BY <2>1, <3>1, <3>2
  <2>3. /\ handler[s].pc # "read" /\ conn'[c] = conn[c]
        /\ conn'[c].state = conn[c].state /\ conn'[c].in_epoll = conn[c].in_epoll
        /\ conn'[c].output = conn[c].output /\ conn'[c].listen = conn[c].listen
    BY <2>1
  <2>4. (InputSafe(c))'
    BY <1>1, <1>3, <1>4, <2>2, <2>3, InputFrame
  <2>5. (OutputSafe(c))'
    <3>1. "WRITE" \in handler[s].ready =>
             handler'[s].conn = c /\ "WRITE" \in handler'[s].ready
      BY <1>1, <2>1, HandlerKeeps
    <3> QED
      BY <1>1, <1>3, <1>4, <2>2, <2>3, <3>1, OutputFrame
  <2> QED
    BY <1>4, <2>4, <2>5 DEF DataSafe
<1>10. CASE \E reply \in Replies : SendSome(s, c, reply)
  <2> DEFINE left == [sock[c] EXCEPT !.room = @ /\ conn[c].output]
             listen == conn[c].listen \cup {"WRITE"}
  <2>1. /\ conn' = [conn EXCEPT ![c].output = TRUE, ![c].listen = listen]
        /\ sock' = [sock EXCEPT ![c] = Rearmed(left, listen)]
        /\ handler[s].pc # "read"
    BY <1>10 DEF SendSome, EnableWriting, InCallback
  <2>2. /\ conn'[c].listen = listen /\ conn'[c].output /\ conn'[c].state = conn[c].state
    <3>1. conn' = [conn EXCEPT ![c] = [[conn[c] EXCEPT !.output = TRUE] EXCEPT !.listen = listen]]
      BY <1>3, <2>1
    <3>2. conn'[c] = [[conn[c] EXCEPT !.output = TRUE] EXCEPT !.listen = listen]
      BY <1>3, <3>1
    <3> HIDE DEF listen
    <3> QED
      BY <1>3, <3>2 DEF ConnType
  <2>3. left \in SockType
    <3>1. (sock[c].room /\ conn[c].output) \in BOOLEAN
      BY Zenon
    <3> QED
      BY <1>3, <3>1, SetSockField, Zenon
  <2>4. sock'[c] = Rearmed(left, listen)
    BY <1>3, <2>1
  <2>5. left.edge = sock[c].edge /\ left.inbox = sock[c].inbox /\ left.peer = sock[c].peer
    BY <1>3 DEF SockType
  <2> HIDE DEF left, listen
  <2>6. /\ sock'[c].edge <=> left.edge \/ ReadyFor(left) \cap listen # {}
        /\ sock'[c].inbox = left.inbox /\ sock'[c].peer = left.peer /\ sock'[c].room = left.room
    BY <2>3, <2>4, RearmedType
  <2>7. ReadyFor(sock'[c]) = ReadyFor(left)
    BY <2>6 DEF ReadyFor
  <2>8. \A e : e \in ReadyFor(left) /\ e \in listen => sock'[c].edge
    <3>1. \A e : e \in ReadyFor(left) /\ e \in listen => ReadyFor(left) \cap listen # {}
      OBVIOUS
    <3> QED
      BY <2>6, <3>1, Zenon
  <2>9. (InputSafe(c))'
    <3>1. "READ" \in conn'[c].listen /\ "READ" \in ReadyFor(sock'[c]) => sock'[c].edge
      BY <2>2, <2>7, <2>8
    <3> QED
      BY <3>1 DEF InputSafe, InputSeen
  <2>10. (OutputSafe(c))'
    <3>1. "WRITE" \in listen
      BY DEF listen
    <3>2. sock'[c].room => "WRITE" \in ReadyFor(left)
      BY <2>6 DEF ReadyFor
    <3>3. sock'[c].room => sock'[c].edge
      BY <2>8, <3>1, <3>2
    <3> QED
      BY <2>2, <3>1, <3>3 DEF OutputSafe, OutputSeen
  <2> QED
    BY <1>4, <2>9, <2>10 DEF DataSafe
<1>11. CASE WriteNothing(s, c)
  <2> DEFINE listen == conn[c].listen \ {"WRITE"}
  <2>1. /\ conn' = [conn EXCEPT ![c].listen = listen]
        /\ sock' = [sock EXCEPT ![c] = Rearmed(sock[c], listen)]
        /\ handler[s].pc # "read" /\ ~conn[c].output
    BY <1>11 DEF WriteNothing, InCallback
  <2>2. /\ conn'[c].listen = listen /\ conn'[c].output = conn[c].output
        /\ conn'[c].state = conn[c].state
    BY <1>3, <2>1 DEF ConnType
  <2>3. sock'[c] = Rearmed(sock[c], listen)
    BY <1>3, <2>1
  <2>4. "READ" \in listen => "READ" \in conn[c].listen
    OBVIOUS
  <2> HIDE DEF listen
  <2>5. /\ sock[c].edge => sock'[c].edge
        /\ sock'[c].inbox = sock[c].inbox /\ sock'[c].peer = sock[c].peer
    BY <1>3, <2>3, RearmedType
  <2>6. (InputSafe(c))'
    BY <1>1, <1>3, <1>4, <2>1, <2>2, <2>4, <2>5, InputFrame
  <2>7. (OutputSafe(c))'
    BY <2>1, <2>2 DEF OutputSafe
  <2> QED
    BY <1>4, <2>6, <2>7 DEF DataSafe
<1>12. CASE WriteOutput(s, c)
  <2>1. /\ handler[s].pc # "read"
        /\ \/ conn' = [conn EXCEPT ![c].output = FALSE] /\ UNCHANGED sock
           \/ sock' = [sock EXCEPT ![c].room = FALSE] /\ UNCHANGED conn
    BY <1>12 DEF WriteOutput, InCallback
  <2>2. /\ conn'[c].state = conn[c].state /\ conn'[c].listen = conn[c].listen
        /\ sock'[c].inbox = sock[c].inbox /\ sock'[c].peer = sock[c].peer
        /\ sock'[c].edge = sock[c].edge
        /\ \/ ~conn'[c].output
           \/ ~sock'[c].room /\ conn'[c].output = conn[c].output
    BY <1>3, <2>1 DEF ConnType, SockType
  <2>3. (InputSafe(c))'
    BY <1>1, <1>3, <1>4, <2>1, <2>2, InputFrame
  <2>4. (OutputSafe(c))'
    BY <1>1, <1>3, <2>2 DEF OutputSafe, DataSafe
  <2> QED
    BY <1>4, <2>3, <2>4 DEF DataSafe
<1> QED
  BY <1>6, <1>7, <1>8, <1>9, <1>10, <1>11, <1>12 DEF CallbackStep

LEMMA DataCallback ==
    ASSUME TypeOK, OwnerInv, DataInv, NEW s \in Subs, NEW c \in Conns, CallbackStep(s, c)
    PROVE  DataInv'
<1>1. CallbackFrame(s, c)
  BY CallbackIsFrame
<1>2. /\ Running /\ handler[s].conn = c /\ UNCHANGED chs
      /\ conn \in [Conns -> ConnType] /\ sock \in [Conns -> SockType]
      /\ handler \in [Subs -> HandlerType]
  BY <1>1, TypeFacts DEF CallbackFrame
<1>3. (DataSafe(c))'
  BY DataOwnCallback DEF DataInv
<1>4. ASSUME NEW d \in Conns, d # c
      PROVE  (DataSafe(d))'
  <2>1. conn'[d] = conn[d]
    <3>1. PICK k : conn' = [conn EXCEPT ![c] = k]
      BY <1>1 DEF CallbackFrame
    <3> QED
      BY <1>2, <1>4, <3>1
  <2>2. \A r \in Subs : r # s => handler'[r] = handler[r]
    <3>1. PICK h : handler' = [handler EXCEPT ![s] = h]
      BY <1>1 DEF CallbackFrame
    <3> QED
      BY <1>2, <3>1
  <2>3. sock'[d] = sock[d]
    <3>1. UNCHANGED sock \/ \E k : sock' = [sock EXCEPT ![c] = k]
      <4>1. CASE UNCHANGED sock
        BY <4>1
      <4>2. CASE ReadToEagain(s, c) \/ ReadEof(s, c)
        <5>1. sock' = [sock EXCEPT ![c] = [sock[c] EXCEPT !.inbox = FALSE]]
          BY <4>2 DEF ReadToEagain, ReadEof, ReadAll
        <5> QED
          BY <5>1
      <4>3. CASE SendFile(s, c) \/ WriteOutput(s, c)
        <5>1. UNCHANGED sock \/ sock' = [sock EXCEPT ![c] = [sock[c] EXCEPT !.room = FALSE]]
          BY <4>3 DEF SendFile, WriteOutput
        <5> QED
          BY <5>1
      <4>4. CASE \E reply \in Replies : SendSome(s, c, reply)
        BY <4>4 DEF SendSome
      <4>5. CASE WriteNothing(s, c)
        <5>1. sock' = [sock EXCEPT ![c] = Rearmed(sock[c], conn[c].listen \ {"WRITE"})]
          BY <4>5 DEF WriteNothing
        <5> QED
          BY <5>1
      <4> QED
        BY <4>1, <4>2, <4>3, <4>4, <4>5
           DEF CallbackStep, ReadNotConnected, OnPartialRequest, SendAll, SendFails,
               CloseAfterReply, WriteNotConnected, WriteFails
    <3> QED
      BY <1>2, <1>4, <3>1
  <2>4. DataSafe(d)
    BY DEF DataInv
  <2>5. conn[d].loop \in Subs =>
           /\ \A e \in chs[conn[d].loop] : e.conn = d /\ e.ready # {} => e \in chs'[conn[d].loop]
           /\ handler[conn[d].loop].conn = d => handler'[conn[d].loop] = handler[conn[d].loop]
    BY <1>2, <1>4, <2>2
  <2> QED
    BY <1>2, <2>1, <2>3, <2>4, <2>5, DataKept
<1> QED
  BY <1>3, <1>4 DEF DataInv

\* Steps that leave the sockets and what handlers do alone, and of connections change at
\* most touched.
LEMMA DataQuiet ==
    ASSUME TypeOK, OwnerInv, DataInv, Running' => Running,
           UNCHANGED <<sock, handler>>,
           \A c \in Conns :
              /\ conn'[c].state = conn[c].state /\ conn'[c].listen = conn[c].listen
              /\ conn'[c].in_epoll = conn[c].in_epoll /\ conn'[c].output = conn[c].output
              /\ conn'[c].loop = conn[c].loop,
           \A l \in Loops : \A e \in chs[l] :
              e.conn \in Conns /\ e.ready # {} => e \in chs'[l]
    PROVE  DataInv'
<1>1. ASSUME NEW c \in Conns
      PROVE  (DataSafe(c))'
  <2>1. DataSafe(c)
    BY DEF DataInv
  <2>2. conn[c].loop \in Subs =>
           /\ \A e \in chs[conn[c].loop] : e.conn = c /\ e.ready # {} => e \in chs'[conn[c].loop]
           /\ handler[conn[c].loop].conn = c => handler'[conn[c].loop] = handler[conn[c].loop]
    BY LoopFacts
  <2>3. sock'[c] = sock[c]
    OBVIOUS
  <2> QED
    BY <2>1, <2>2, <2>3, DataKept
<1> QED
  BY <1>1 DEF DataInv

LEMMA DataLoopStep ==
    ASSUME TypeOK, OwnerInv, DataInv, NEW l \in Loops, LoopStep(l)
    PROVE  DataInv'
<1>1. CASE DoToDoList(l) \/ FinishToDoList(l)
  <2>1. UNCHANGED <<conn, sock, handler, chs, exited>>
    BY <1>1 DEF DoToDoList, FinishToDoList, NoRemoval
  <2> QED
    BY <2>1, DataQuiet DEF Running
<1>2. ASSUME NEW c \in Conns,
             OverTimeTooLate(l, c) \/ OverTimeExpired(l, c) \/ OverTimeRearm(l, c)
      PROVE  DataInv'
  <2>1. /\ Running /\ UNCHANGED <<sock, handler>>
        /\ chs' = [chs EXCEPT ![l] = chs[l] \ {TimerEvent(c)}]
        /\ UNCHANGED conn \/ conn' = [conn EXCEPT ![c].touched = FALSE]
    BY <1>2 DEF OverTimeTooLate, OverTimeExpired, OverTimeRearm, TimerRuns
  <2>2. TimerEvent(c).ready = {}
    BY DEF TimerEvent, Event
  <2>3. \A r \in Loops : \A e \in chs[r] : e.conn \in Conns /\ e.ready # {} => e \in chs'[r]
    BY <2>1, <2>2, TypeFacts
  <2>4. \A d \in Conns :
           /\ conn'[d].state = conn[d].state /\ conn'[d].listen = conn[d].listen
           /\ conn'[d].in_epoll = conn[d].in_epoll /\ conn'[d].output = conn[d].output
           /\ conn'[d].loop = conn[d].loop
    BY <2>1, TypeFacts DEF ConnType
  <2> QED
    BY <2>1, <2>3, <2>4, DataQuiet
<1> QED
  BY <1>1, <1>2, DataPoll DEF LoopStep

LEMMA DataDestructor ==
    ASSUME TypeOK, OwnerInv, DataInv, NEW s \in Subs, ConnectionDestructor(s)
    PROVE  DataInv'
<1>1. /\ UNCHANGED <<sock, chs, handler>> /\ Running
      /\ \/ UNCHANGED conn
         \/ conn' = [conn EXCEPT ![Head(functors[s])].in_epoll = FALSE,
                                 ![Head(functors[s])].listen = {}]
  BY DEF ConnectionDestructor
<1>2. Head(functors[s]) \in Conns /\ conn \in [Conns -> ConnType]
  <2>1. functors[s] \in Seq(Conns) /\ functors[s] # <<>>
    BY LoopFacts, QueueFacts DEF ConnectionDestructor
  <2> QED
    BY <2>1, RangeTail, TypeFacts
<1>3. CASE UNCHANGED conn
  BY <1>1, <1>3, DataQuiet
<1>4. ASSUME NEW c \in Conns,
             conn' = [conn EXCEPT ![c].in_epoll = FALSE, ![c].listen = {}]
      PROVE  DataInv'
  <2> DEFINE k == [[conn[c] EXCEPT !.in_epoll = FALSE] EXCEPT !.listen = {}]
  <2>1. conn' = [conn EXCEPT ![c] = k]
    BY <1>2, <1>4
  <2>2. k.in_epoll = FALSE /\ k.listen = {}
    BY <1>2 DEF ConnType
  <2>3. conn'[c] = k /\ \A d \in Conns : d # c => conn'[d] = conn[d]
    BY <1>2, <2>1
  <2> HIDE DEF k
  <2>4. (DataSafe(c))'
    <3>1. ~conn'[c].in_epoll /\ conn'[c].listen = {}
      BY <2>2, <2>3
    <3> QED
      BY <3>1 DEF DataSafe, InputSafe, OutputSafe
  <2>5. ASSUME NEW d \in Conns, d # c
        PROVE  (DataSafe(d))'
    <3>1. DataSafe(d) /\ conn'[d] = conn[d] /\ sock'[d] = sock[d]
      BY <1>1, <2>3, <2>5 DEF DataInv
    <3>2. conn[d].loop \in Subs =>
             /\ \A e \in chs[conn[d].loop] : e.conn = d /\ e.ready # {} => e \in chs'[conn[d].loop]
             /\ handler[conn[d].loop].conn = d => handler'[conn[d].loop] = handler[conn[d].loop]
      BY <1>1
    <3> QED
      BY <1>1, <3>1, <3>2, DataKept
  <2>6. ASSUME NEW d \in Conns
        PROVE  (DataSafe(d))'
    BY <2>4, <2>5
  <2> QED
    BY <2>6 DEF DataInv
<1> QED
  BY <1>1, <1>2, <1>3, <1>4

\* Server::NewConnection: the channel is registered, but listens for nothing yet.
LEMMA DataNewConnection ==
    ASSUME TypeOK, OwnerInv, DataInv, NEW c \in Conns, NewConnection(c)
    PROVE  DataInv'
<1>1. PICK f \in Fds \ FdsInUse :
         conn' = [conn EXCEPT ![c] = [NewConn EXCEPT !.fd = f, !.loop = NextLoop,
                     !.state = "Connected", !.listen = EtOnly, !.in_epoll = TRUE]]
  BY DEF NewConnection
<1>2. /\ UNCHANGED <<sock, handler>> /\ Running
      /\ chs' = [chs EXCEPT ![Main] = chs[Main] \ {AcceptEvent}]
  BY DEF NewConnection, MainHandles
<1>3. /\ conn \in [Conns -> ConnType] /\ chs \in [Loops -> SUBSET EventType]
  BY TypeFacts
<1>4. (DataSafe(c))'
  <2>1. ~conn'[c].output /\ conn'[c].listen = {"ET"}
    BY <1>1, <1>3 DEF NewConn, EtOnly
  <2> QED
    BY <2>1 DEF DataSafe, InputSafe, OutputSafe
<1>5. ASSUME NEW d \in Conns, d # c
      PROVE  (DataSafe(d))'
  <2>1. DataSafe(d) /\ conn'[d] = conn[d] /\ sock'[d] = sock[d]
    BY <1>1, <1>2, <1>3, <1>5 DEF DataInv
  <2>2. conn[d].loop \in Subs => chs'[conn[d].loop] = chs[conn[d].loop]
    BY <1>2, <1>3, LoopFacts
  <2>3. conn[d].loop \in Subs =>
           /\ \A e \in chs[conn[d].loop] : e.conn = d /\ e.ready # {} => e \in chs'[conn[d].loop]
           /\ handler[conn[d].loop].conn = d => handler'[conn[d].loop] = handler[conn[d].loop]
    BY <1>2, <2>2
  <2> QED
    BY <1>2, <2>1, <2>3, DataKept
<1>6. ASSUME NEW d \in Conns
      PROVE  (DataSafe(d))'
  BY <1>4, <1>5
<1> QED
  BY <1>6 DEF DataInv

\* Channel::EnableReading in the main thread: epoll_ctl reports at once what has come in
\* since the connection was accepted.  Nobody can have removed the channel before.
LEMMA DataEstablished ==
    ASSUME TypeOK, OwnerInv, TiedInv, DataInv, NEW c \in Conns, c = main.conn,
           ConnectionEstablished
    PROVE  DataInv'
<1> DEFINE listen == conn[c].listen \cup {"READ"}
           k == [[conn[c] EXCEPT !.tied = TRUE] EXCEPT !.listen = listen]
<1>1. /\ conn' = [conn EXCEPT ![c].tied = TRUE, ![c].listen = listen]
      /\ sock' = [sock EXCEPT ![c] = Rearmed(sock[c], listen)]
      /\ UNCHANGED <<chs, handler>> /\ Running /\ main.pc = "establish"
  BY DEF ConnectionEstablished, loopVars
<1>2. /\ conn \in [Conns -> ConnType] /\ sock \in [Conns -> SockType]
      /\ conn[c] \in ConnType /\ sock[c] \in SockType
  BY TypeFacts
<1>3. conn[c].in_epoll
  <2>1. ~conn[c].tied /\ ~(removals[c] > 0)
    BY <1>1 DEF TiedInv
  <2>2. removals[c] = 0
    BY <2>1 DEF TypeOK
  <2>3. Owned(c)
    BY DEF Owned
  <2>4. Tokens(c) <= 0
    BY <2>2, <2>3 DEF OwnerInv, ObjectInv, RemovalInv
  <2>5. /\ Count(todo[Main], c) \in Nat /\ Count(functors[Main], c) \in Nat
        /\ Count(todo[conn[c].loop], c) \in Nat /\ Count(functors[conn[c].loop], c) \in Nat
        /\ Erasing(c) \in Nat
    <3>1. Main \in Loops /\ conn[c].loop \in Loops
      BY <1>2, LoopFacts DEF ConnType
    <3> QED
      BY <3>1, CountType DEF TypeOK, Erasing
  <2>6. Released(c) \in {0, 1}
    BY DEF Released
  <2>7. Released(c) = 0
    BY <2>4, <2>5, <2>6 DEF Tokens
  <2> QED
    BY <2>7 DEF Released
<1>4. conn' = [conn EXCEPT ![c] = k]
  BY <1>1, <1>2
<1>5. k.listen = listen /\ k.in_epoll = conn[c].in_epoll
  BY <1>2 DEF ConnType
<1>6. k.output = conn[c].output /\ k.state = conn[c].state
  BY <1>2 DEF ConnType
<1> HIDE DEF k
<1>7. /\ conn'[c].listen = listen /\ conn'[c].in_epoll = conn[c].in_epoll
      /\ conn'[c].output = conn[c].output /\ conn'[c].state = conn[c].state
      /\ \A d \in Conns : d # c => conn'[d] = conn[d] /\ sock'[d] = sock[d]
  BY <1>1, <1>2, <1>4, <1>5, <1>6
<1>8. sock'[c] = Rearmed(sock[c], listen)
  BY <1>1, <1>2
<1>9. "WRITE" \in listen <=> "WRITE" \in conn[c].listen
  OBVIOUS
<1>10. "READ" \in listen
  OBVIOUS
<1> HIDE DEF listen
<1>11. /\ sock[c].edge => sock'[c].edge
       /\ ReadyFor(sock[c]) \cap listen # {} => sock'[c].edge
       /\ sock'[c].inbox = sock[c].inbox /\ sock'[c].peer = sock[c].peer
       /\ sock'[c].room = sock[c].room
  BY <1>2, <1>8, RearmedType
<1>12. (InputSafe(c))'
  <2>1. "READ" \in ReadyFor(sock'[c]) => "READ" \in ReadyFor(sock[c])
    BY <1>11 DEF ReadyFor
  <2>2. "READ" \in ReadyFor(sock[c]) => ReadyFor(sock[c]) \cap listen # {}
    BY <1>10
  <2> QED
    BY <1>11, <2>1, <2>2 DEF InputSafe, InputSeen
<1>13. (OutputSafe(c))'
  <2>1. conn'[c].loop = conn[c].loop
    <3>1. k.loop = conn[c].loop
      BY <1>2 DEF ConnType, k
    <3> QED
      BY <1>2, <1>4, <3>1
  <2>2. OutputSeen(c) => (OutputSeen(c))'
    BY <1>1, <1>11, <2>1 DEF OutputSeen
  <2>3. OutputSafe(c)
    BY DEF DataInv, DataSafe
  <2> QED
    BY <1>1, <1>7, <1>9, <1>11, <2>2, <2>3 DEF OutputSafe
<1>14. (DataSafe(c))'
  BY <1>3, <1>7, <1>12, <1>13 DEF DataSafe
<1>15. ASSUME NEW d \in Conns, d # c
       PROVE  (DataSafe(d))'
  <2>1. DataSafe(d) /\ conn'[d] = conn[d] /\ sock'[d] = sock[d]
    BY <1>7, <1>15 DEF DataInv
  <2>2. conn[d].loop \in Subs =>
           /\ \A e \in chs[conn[d].loop] : e.conn = d /\ e.ready # {} => e \in chs'[conn[d].loop]
           /\ handler[conn[d].loop].conn = d => handler'[conn[d].loop] = handler[conn[d].loop]
    BY <1>1
  <2> QED
    BY <1>1, <2>1, <2>2, DataKept
<1>16. ASSUME NEW d \in Conns
       PROVE  (DataSafe(d))'
  BY <1>14, <1>15
<1> QED
  BY <1>16 DEF DataInv

LEMMA DataMainStep ==
    ASSUME TypeOK, OwnerInv, TiedInv, DataInv, MainStep
    PROVE  DataInv'
<1>1. CASE LoopStep(Main)
  BY <1>1, DataLoopStep, LoopFacts
<1>2. CASE \E c \in Conns : NewConnection(c)
  BY <1>2, DataNewConnection
<1>3. CASE ConnectionEstablished
  <2>1. main.conn \in Conns
    BY <1>3 DEF ConnectionEstablished, OwnerInv, PlaceInv
  <2> QED
    BY <1>3, <2>1, DataEstablished
<1>4. CASE \/ AcceptFails \/ InsertConnection \/ OnConnnectCallback
           \/ RemoveConnectionInLoop \/ EraseConnection
  <2>1. UNCHANGED <<conn, sock, handler, chs>> /\ Running
    BY <1>4 DEF AcceptFails, InsertConnection, OnConnnectCallback, RemoveConnectionInLoop,
                EraseConnection, MainHandles, loopVars
  <2> QED
    BY <2>1, DataQuiet
<1> QED
  BY <1>1, <1>2, <1>3, <1>4 DEF MainStep

LEMMA DataNext ==
    ASSUME TypeOK, OwnerInv, TiedInv, DataInv, [Next]_vars
    PROVE  DataInv'
<1>1. CASE MainStep
  BY <1>1, DataMainStep
<1>2. ASSUME NEW s \in Subs, SubStep(s)
      PROVE  DataInv'
  <2>1. s \in Loops
    BY LoopFacts
  <2> QED
    BY <1>2, <2>1, DataLoopStep, DataHandleEvent, DataCallback, DataDestructor DEF SubStep
<1>3. CASE \E s \in Subs, c \in Conns : WriteRaisesSigpipe(s, c)
  <2>1. UNCHANGED <<conn, sock, handler, chs>> /\ ~Running'
    BY <1>3 DEF WriteRaisesSigpipe, InCallback, loopVars, Running
  <2> QED
    BY <2>1, DataQuiet
<1>4. CASE ClientStep
  BY <1>4, DataClient
<1>5. CASE UNCHANGED vars
  <2>1. UNCHANGED <<conn, sock, handler, chs, exited>>
    BY <1>5 DEF vars
  <2> QED
    BY <2>1, DataQuiet DEF Running
<1> QED
  BY <1>1, <1>2, <1>3, <1>4, <1>5 DEF Next

LEMMA DataInit == Init => TiedInv /\ DataInv
<1> SUFFICES ASSUME Init
             PROVE  TiedInv /\ DataInv
  OBVIOUS
<1>1. \A c \in Conns : /\ conn[c].listen = {} /\ ~conn[c].in_epoll
                       /\ removals[c] = 0
  BY DEF Init, NewConn
<1>2. main.pc = "idle"
  BY DEF Init, IdleMain
<1> QED
  BY <1>1, <1>2 DEF TiedInv, DataInv, DataSafe, InputSafe, OutputSafe

LEMMA DataIsSafe == DataInv => NoStrandedData
<1> SUFFICES ASSUME DataInv, NEW c \in Conns
             PROVE  InputSafe(c) /\ OutputSafe(c)
  BY Zenon DEF NoStrandedData, NoStrandedInput, NoStrandedOutput, InputSafe, OutputSafe,
               InputSeen, OutputSeen
<1> QED
  BY DEF DataInv, DataSafe

-----------------------------------------------------------------------------
(***************************************************************************)
(* The theorems.                                                           *)
(***************************************************************************)
ReactorInv == TypeOK /\ OwnerInv /\ TiedInv /\ DataInv

LEMMA InvInit == Init => ReactorInv
  BY TypeInit, OwnerInit, DataInit DEF ReactorInv

LEMMA InvNext ==
    ASSUME ReactorInv, [Next]_vars
    PROVE  ReactorInv'
<1>1. TypeOK'
  BY TypeNext DEF ReactorInv, OwnerInv
<1> QED
  BY <1>1, OwnerNext, TiedNext, DataNext DEF ReactorInv

LEMMA AlwaysInv == SafeSpec => []ReactorInv
  BY InvInit, InvNext, PTL DEF SafeSpec

\* Whatever Server, Connection, HttpServer and the clients do, in whatever order the
\* threads run, every variable keeps its type.
THEOREM TypeCorrect == SafeSpec => []TypeOK
<1>1. ReactorInv => TypeOK
  BY DEF ReactorInv
<1> QED
  BY <1>1, AlwaysInv, PTL

\* Poller::Poll never returns the Channel* of a Connection that has been destroyed: as long
\* as a channel is registered, or an event of it is in a loop's batch, a shared_ptr to its
\* Connection is in connections_, in a queue of callbacks or in the main thread's
\* NewConnection, for any number of connections, loops and descriptors.
THEOREM ChannelsNeverDangle == SafeSpec => []NoDanglingChannel
<1>1. ReactorInv => NoDanglingChannel
  <2> SUFFICES ASSUME ReactorInv, NEW c \in Conns,
                      conn[c].in_epoll \/ \E s \in Subs : \E e \in chs[s] :
                                              e.kind = "io" /\ e.conn = c
               PROVE  Held(c)
    BY DEF NoDanglingChannel
  <2>1. conn[c].in_epoll
    BY LoopFacts DEF ReactorInv, OwnerInv, EventInv, Served
  <2> QED
    BY <2>1, RegisteredIsOwned, HeldIsOwned DEF ReactorInv, OwnerInv
<1> QED
  BY <1>1, AlwaysInv, PTL

\* The errors of Server::RemoveConnection (descriptor not in the map) and of
\* Channel::RemoveInEpoll (channel not in epoll) end the process only after some connection
\* has been removed more than once: each call of RemoveConnection has become exactly one
\* call of RemoveConnectionInLoop and one of ConnectionDestructor.
THEOREM OneRemovalIsClean == SafeSpec => []AssertionsFailOnlyOnDoubleRemoval
<1>1. ReactorInv => AssertionsFailOnlyOnDoubleRemoval
  BY DEF ReactorInv, OwnerInv, RemovalInv
<1> QED
  BY <1>1, AlwaysInv, PTL

\* Of the main thread's steps only connections_.erase of RemoveConnectionInLoop takes an
\* entry out of connections_, and the entry is that of the connection being removed.
LEMMA EraseStep ==
    ASSUME ReactorInv, [Next]_vars, NEW f \in Fds,
           connections[f] # NoConn, connections'[f] # connections[f]
    PROVE  connections'[f] = NoConn /\ main.conn = connections[f]
<1>1. connections \in [Fds -> Conns \cup {NoConn}]
  BY TypeFacts DEF ReactorInv
<1>2. CASE InsertConnection
  <2>1. /\ connections' = [connections EXCEPT ![conn[main.conn].fd] = main.conn]
        /\ main.pc = "inserting"
    BY <1>2 DEF InsertConnection
  <2>2. connections[conn[main.conn].fd] = NoConn
    BY <2>1 DEF ReactorInv, OwnerInv, ObjectInv
  <2> QED
    BY <1>1, <2>1, <2>2
<1>3. CASE EraseConnection
  <2>1. /\ connections' = [connections EXCEPT ![conn[main.conn].fd] = NoConn]
        /\ main.pc = "erasing"
    BY <1>3 DEF EraseConnection, Erase
  <2>2. connections[conn[main.conn].fd] \in {NoConn, main.conn}
    BY <2>1, OwnEntry DEF ReactorInv
  <2> QED
    BY <1>1, <2>1, <2>2
<1>4. CASE ~InsertConnection /\ ~EraseConnection
  <2>1. UNCHANGED connections
    <3>1. ASSUME NEW l \in Loops, LoopStep(l)
          PROVE  UNCHANGED connections
      BY <3>1 DEF LoopStep, Poll, DoToDoList, FinishToDoList, OverTimeTooLate,
                  OverTimeExpired, OverTimeRearm, TimerRuns, mapVars
    <3>2. ASSUME MainStep
          PROVE  UNCHANGED connections
      BY <1>4, <3>1, <3>2, LoopFacts
         DEF MainStep, NewConnection, AcceptFails, ConnectionEstablished, OnConnnectCallback,
             RemoveConnectionInLoop, mapVars
    <3>3. ASSUME NEW s \in Subs, SubStep(s)
          PROVE  UNCHANGED connections
      <4>1. ASSUME NEW c \in Conns, CallbackStep(s, c)
            PROVE  UNCHANGED connections
        BY <4>1, CallbackIsFrame DEF CallbackFrame, ReactorInv
      <4> QED
        BY <3>1, <3>3, <4>1, LoopFacts
           DEF SubStep, HandleEvent, ConnectionDestructor, mapVars
    <3>4. ASSUME \/ \E s \in Subs, c \in Conns : WriteRaisesSigpipe(s, c)
                 \/ ClientStep
                 \/ UNCHANGED vars
          PROVE  UNCHANGED connections
      BY <3>4, ClientFrame DEF WriteRaisesSigpipe, InCallback, mapVars, vars, ReactorInv
    <3> QED
      BY <3>2, <3>3, <3>4 DEF Next
  <2> QED
    BY <2>1
<1> QED
  BY <1>2, <1>3, <1>4

\* Descriptor reuse is safe: an entry of Server::connections_ goes only through the removal
\* of that very connection, neither through a late removal of an earlier connection with
\* the same descriptor nor by being overwritten in NewConnection.
THEOREM EntriesAreErasedByTheirRemoval == SafeSpec => OnlyOwnRemovalErases
<1> DEFINE Own == \A f \in Fds :
                     connections[f] # NoConn /\ connections'[f] # connections[f]
                        => connections'[f] = NoConn /\ main.conn = connections[f]
<1>1. ReactorInv /\ [Next]_vars => Own
  BY EraseStep
<1>2. SafeSpec => [][Own]_vars
  <2> HIDE DEF Own
  <2> QED
    BY <1>1, AlwaysInv, PTL DEF SafeSpec
<1> QED
  BY <1>2 DEF OnlyOwnRemovalErases

\* No edge of the edge-triggered epoll is lost, for any number of connections: input, an
\* end of file or an error of a connection that listens is still to be reported, reported,
\* or about to be read by Connection::ReadNonBlocking; output that WriteNonBlocking left
\* waits with EPOLLOUT enabled and is reported once there is room.
THEOREM DataIsNeverStranded == SafeSpec => []NoStrandedData
<1>1. ReactorInv => NoStrandedData
  BY DataIsSafe DEF ReactorInv
<1> QED
  BY <1>1, AlwaysInv, PTL
==============================================================================

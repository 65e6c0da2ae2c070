# TLA+ models of the my_socket server

`my_socket` is a multi-threaded HTTP server in C++20 on Linux: one main reactor that
accepts connections, a pool of sub reactors that serve them, timers, an asynchronous
logger and a hand-written HTTP parser. Beside it are the scripts its build runs over the
sources: `cpplint.py` and `run_clang_tidy.py`. This directory holds TLA+ modules translated
from `src/my_socket/src` and `src/my_socket/build_support`, the TLC configurations that check
them on small instances, and proofs that TLAPS checks for every value of the constants.
`PROJECT.json` relates every definition to the lines it models; each property is commented
in its module.

Run everything from this directory:

    tlc -workers 2 -config Executors.cfg MCExecutors
    tlapm EventLoopProofs.tla

## 1. The system

| Part | State | Operations | Talks to |
|---|---|---|---|
| EventLoop | `to_do_list_`, `calling_functors_`, mutex, eventfd | Loop, DoToDoList, QueueOneFunc, RunOneFunc, HandleRead, RunAt/After/Every | any thread queues; Poller, TimeQueue |
| Poller, Channel | epoll set; listened and reported events, tie to the owner | Poll, Update/DeleteChannel; EnableReading/Writing, UseET, HandleEvent, RemoveInEpoll | kernel; raw `Channel*` in epoll |
| Acceptor, Server | listening socket; `connections_` (by descriptor, no lock) | NewConnection, RemoveConnection, RemoveConnectionInLoop | main thread owns the map, sub loops look into it |
| Connection | socket, state, input and output `Buffer`, time stamp, HttpContext | ConnectionEstablished, Read, Write, Send, SendFile, ConnectionDestructor | shared_ptr in map, callbacks, handlers |
| HttpServer | callbacks, idle-timer switch | OnConnnectCallback, OnHttpRequest, OnHttpReponse, OverTime | both threads |
| EventLoopThread(Pool) | loops, round-robin index | Start, NextLoop | Server |
| TimeQueue, Timer, TimeStamp | ordered set of timers, timerfd | Insert, HandleTimers, ResetTimers | its EventLoop, and other threads through RunAfter |
| Buffer | byte vector, two indices | Append, Retreive, RetreiveAll, AppendKeyBoard | Connection |
| HttpContext, HttpRequest | parser state, parsed request | ParaseRequest, ResetState | HttpServer |
| Logger, LogStream, AsyncLogging, LogFile | per-line buffer; current/next/full buffers, file | Append, Start, Stop, ThreadFunc, Write | all threads append, one writes |
| HttpResponse | status, headers, body or file, close flag | setters, GetPreBody, GetResponse | HttpServer, then Connection |
| ThreadPool, Latch | task queue; count | Add; Wait, Notify | ThreadPool is not used by the server any more |
| run_clang_tidy.py | bounded task queue, failed files | main puts, workers run clang-tidy | threads through `queue.Queue` |
| cpplint.py | filters, settings, error count; per file: suppressions, nesting, includes, function, cleansed lines | ParseArguments, ProcessFile, ProcessConfigOverrides, ProcessLine, the checks | CPPLINT.cfg files, NOLINT comments |

What is hard here: a callback queued while the loop goes to sleep; a connection that two
threads own and several events want to remove; edge-triggered readiness that is reported
once; descriptors that are reused while old callbacks are still queued; timers inserted
while timers run, and clocks that are set; log buffers swapped under writers; requests that do
not arrive in one piece; replies that the socket takes piece by piece; in the scripts, state
that one file or one branch of a conditional leaves behind for the next, and passes over the
text each of which sees what the one before left. `PROJECT.json` lists these hazards line by line, with the properties that cover
them or the reason why none does.

What makes each part correct:

* EventLoop: queued callbacks run once, in order, eventually; it never sleeps on work.
* Reactor (Server, Connection, Channel, HttpServer): no dangling channel, a removal
  concerns its own connection only, no input or output is forgotten, a closed connection
  is released.
* TimeQueue: the timerfd is armed for the first timer; a pending timer runs.
* Buffer: a byte queue.
* AsyncLogging: lines reach the file once, in order; the thread ends after Stop.
* HttpContext: a request is stored as it was sent, within its bytes, and parsing ends.
* HttpResponse with Send and SendFile: what the client reads is the replies, in order and
  complete, and what a head announces is what follows it.
* ThreadPool, start-up: nobody sleeps on work, the destructor leaves none and returns; Start
  hands out loops that exist.
* LogStream: a line stays in its buffer and numbers can be read.
* run_clang_tidy.py: every file is run, the exit code tells the verdict, the script ends.
* cpplint.py: whether an error is printed depends on its file and the files' configuration, not
  on what was linted before; the state kept while a file is read is what a parser of C++ would
  find.

## 2. Modules

| Module | Code | Notes |
|---|---|---|
| `SerialExecutor` | — | abstract: what a loop promises to whoever queues callbacks |
| `EventLoop` | EventLoop.cpp, Poller.cpp, Channel::HandleEvent | implements SerialExecutor |
| `ParallelExecutor` | — | abstract: tasks are run once each, by anybody |
| `ThreadPool` | ThreadPool.cpp | implements ParallelExecutor |
| `Startup` | EventLoopThread.cpp, EventLoopThreadPool::Start | |
| `Reactor` | Server, Acceptor, Connection, Channel, HttpServer, NextLoop, idle timers | composes the loops through what SerialExecutor promises |
| `Reply` | HttpResponse.cpp, Connection::Send, Write, SendFile | the bytes Reactor abstracts from |
| `Buffer` | Buffer.cpp | three next-state relations, one per way the code uses a buffer |
| `AsyncLogging` | AsyncLogging.cpp, LogFile.cpp, FixedBuffer | |
| `LogStream` | Logger.cpp, LogStream.cpp | one line, whose end is an Append of AsyncLogging |
| `TimeQueue` | TimeQueue.cpp, Timer.cpp, EventLoop::RunAfter | |
| `HttpContext`, `HttpRequests` | HttpContext.cpp, HttpRequest.cpp, OnHttpRequest | HttpRequests: the requests that are sent |
| `ClangTidy` | run_clang_tidy.py | |
| `Lint` | cpplint.py: command line, configuration, filters, NOLINT, files one after the other | |
| `NestingState` | cpplint.py: NestingState | |
| `Expression` | cpplint.py: CloseExpression, ReverseCloseExpression | |
| `IncludeState` | cpplint.py: _IncludeState, CheckIncludeLine, CheckForIncludeWhatYouUse | |
| `FunctionState` | cpplint.py: _FunctionState, CheckForFunctionLengths | |
| `HeaderGuard` | cpplint.py: FileInfo, GetHeaderGuardCPPVariable, CheckForHeaderGuard | |
| `CleansedLines` | cpplint.py: comments, strings and raw strings taken out | pure functions on lines |
| `Cpplint` | cpplint.py | composes Lint and the six before |
| `MC*` | | the instances TLC checks |
| `*Proofs` | | theorems about the module of that name, section 4; `ExecutorsProofs` is about `MCExecutors`, `LintProofs` about `Lint` and `Cpplint` |

Parts that share no state are checked in one run: `MCExecutors`, `MCBuffer`, `MCAsyncLogging` and
`Cpplint` hold the variables of several modules and a variable (`part`, `use`) that says which of
them a behaviour belongs to; the others stay at their initial values. In cpplint.py one thing couples
the parts: while `nesting_state.InAsmBlock()`, ProcessLine returns before the checks of includes and
functions (6090), so the lines of IncludeState and FunctionState are those outside inline assembler. `MCExecutors` leaves every
size to its constants (workers, threads to start, files and what is done with them), so that
`ExecutorsProofs` can speak of all of them; so does `Cpplint`, to which `MCCpplint` gives values.

**EventLoop.** `phase` is the owner's place in `Loop()`/`DoToDoList()`; `mtx` is the thread
inside `QueueOneFunc` between the append and the eventfd write (the code holds the lock
for both); `chs` is the batch returned by `epoll_wait`, of at most `MaxEvents` channels;
`fresh` holds the callbacks nobody has queued yet, so each is queued at most once. Callbacks
and event handlers may themselves call QueueOneFunc or RunOneFunc.

**Reactor.** A connection is a record of its object and channel (`conn`) and of its socket as
the kernel sees it (`sock`); `Held(c)` says who owns a `shared_ptr` to it, and an object
nobody holds is destroyed, its descriptor free for the next `accept`. NewConnection is split
into steps where the other thread can interfere: registration by `SetET`, insertion into the
map, `ConnectionEstablished`, the connect callback. Handlers run step by step with `handler[s]`
as their program counter. A lookup in `connections_` or an insertion into `timers_` while
another thread writes it is undefined behaviour: the step may also end the process (`exited`).
Every `Errif` that can be reached sets `exited`. Contents of messages are abstracted to the
kind of reply, output to whether some is queued; `Buffer` and `HttpContext` have the
details. A reply of kind `partial` is a request whose body is incomplete, on which
`ParaseRequest` does not return.

**Buffer.** Bytes are numbered in the order they are appended, so that content and order are
one comparison. `KPREPENDINDEX` is a constant; `std::vector::resize` and `std::copy` are modelled by
what they do. A byte written past `size()` is dropped.

**AsyncLogging.** Lines are numbered, a line is its number and length. The back-end thread's
steps are the test of `running_`, the wait (which only times out: its predicate is constant),
the swap under the mutex, one write per buffer, and recycling.

**TimeQueue.** Time is an integer clock; `new` and `lost` record timers inserted by callbacks and
timers erased without having run. Pointers order timers of equal time, so the probe of
`lower_bound` is placed among them by any number. The wall clock, which stamps timers, can be set
(`SetClock`), the timerfd's clock cannot.

**HttpContext.** The input is a sequence of symbols, a symbol being a character the parser
distinguishes or a whole word. One iteration of the `while` loop is one step, so that an
endless loop is an infinite behaviour. SetMethod and SetVersion are modelled by what they
convert to. The requests are a constant; `WellFormed` says how a client writes them: which symbols may
not stand in a method, an address, a parameter or a header, that none of these is empty (of an empty
parameter the parser makes an error), and that a Content-Length, if there is one, is that of the body.

**ThreadPool, Startup, ClangTidy.** A condition variable is the set of threads that wait on it: a
notification wakes one of them or none, a wakeup may be spurious, and testing the condition and
beginning to wait are one step because the mutex is held. `ParallelExecutor` knows tasks that are queued,
running and done. In ClangTidy a worker may die of an exception, which the script does not catch.
At its end the script exports fixes (`-export-fixes`), applies them (`-fix`), or both; each is in a `try`, and
a raise makes the exit code 1 although no file failed. Exporting always raises when there are fixes, since the
import of `yaml` is commented out; what `clang-apply-replacements` returns is not looked at. `ExitCodeTells`
therefore says what code 1 means only where neither option is given.

**Reply.** A byte is a record of the reply it belongs to and its place, so that order and completeness
are one comparison with the replies asked for. The socket holds `SocketRoom` bytes until the client
reads; `send_size` is advanced by `sendfile` and by the code. Of the output buffer Reply keeps the readable
bytes and the two numbers that decide which branch of `EnsureWritableBytes` an Append takes: `AppendCompacted`
is the compaction branch, with the bytes it sends that nobody wrote (`"stale"`) and those written outside the
vector kept or lost. Such an append needs a page asked for while an earlier one is partly sent, which a client
that goes by Content-Length does only after a file, whose announced length is 0.

**LogStream.** The buffer of a line is a length, and how far it has been written; FormatInteger works
digit by digit with the division of C++. The end of a line is one step that tests each of its pieces
(`EndFits`).

**Lint.** Checks report any of a few errors at any moment while a file is linted; the model is of what
becomes of them. A category is the sequence of its names, so that a filter is a prefix. `reported` and
`printed` remember every verdict, and `VerdictsAreLocal` compares each with a definition that reads
the configuration and the text only. A text has its NOLINT comments by line, marks that make
ProcessGlobalSuppresions suppress a category everywhere (C files, kernel files), and the lines that
CheckForHeaderGuard looks at. `parsed` remembers which comments were parsed: those of the lines ProcessLine has
come to, and those CheckForHeaderGuard and CheckTrailingSemicolon parse ahead, before they report an error about
a line still to come (`Ahead`). Several filter lines of one CPPLINT.cfg are applied from the last to
the first, as the code does, so that the first one decides.

**NestingState, FunctionState, HeaderGuard, IncludeState.** A line is what the regular expressions
find in it. The tokens of a directive go through Update like those of any line: `Directives` has a pair of
parentheses, as of `#if defined(A)`. History variables hold what a parser of C++ makes of the same lines (`truth`, `length`,
`shape`, `inside`); the properties compare the two.

**Expression, CleansedLines.** The text is built up token by token, so that every text up to the bound
occurs. Expression runs the search along with it and has no bound on the text, only on the depth;
CleansedLines applies the functions of the script to each text and compares with what a compiler
reads of it, escaped backslashes included. Texts for which the functions are known to fail are named there (`Unusual`, `Hides`).

## 3. Runs

Passing runs:

| Run | Question and bounds |
|---|---|
| `executors` | EventLoop with 2 calling threads, 4 callbacks, 2 channels and the wakeup channel, batches of 2: no lost wakeup, the eventfd is never read empty, EventLoop refines SerialExecutor, fairness included. ThreadPool with 2 workers, 2 callers and 4 tasks refines ParallelExecutor, its destructor returns and leaves nothing. Start of 3 loops. run_clang_tidy.py with 4 files, one skipped, one perhaps not selected, 2 workers, a queue of 2, with and without `-fix` and `-export-fixes` |
| `reactor_single` | 1 connection, every kind of reply and client: no edge is lost, and a closed connection is released |
| `reactor_pair` | 2 connections at once on one loop, idle timers, closing replies: no dangling channel, a removal erases its own entry only, a single removal is clean |
| `buffer` | prefix of 2, up to 9 bytes, so that the vector grows several times: the input buffer and the clients' output buffer are byte queues. 3 replies of 0, 1 or 3 bytes as page or file through a socket of 3, appends that compact among them: the client's stream is intact but for the two cases named in `StreamIntact`. Requests of every kind arriving whole, first on their connection |
| `async_logging` | buffers of 4, lines of 1 and 2, files of 5, 7 lines: rotation with and without a spare buffer, rolling. Log lines of strings and integers in a buffer of 16 |
| `time_queue` | 4 timers, one repeating, delays 1 and 3, the wall clock set once |
| `cpplint` | 2 files in nested directories under 6 kinds of configuration file and 5 command lines, with comments parsed ahead; 19 kinds of lines with blocks 2 deep and one conditional, directives with and without parentheses; brackets 4 deep; files of 5 lines with 6 headers; functions of up to 14 lines at 3 verbosities; texts of 5 tokens out of 11; header guards in 6 lines, 5 kinds of repository |

A run of several modules checks their properties under the names they have there, or several
together under one name, defined in the MC module: `PoolServes` is `NobodySleepsOnWork` and
`DestructorLeavesNothing` of ThreadPool, `WaitsEnd` is `DestructorReturns`, `StartReturns` and
`ScriptEnds`, `NoStrandedData` speaks of input and output, `RequestsParsed` is `ParsedAsSent` and
`ReadsInsideInput`, `BytesMoveOn` is `QueuedOutputLeaves` and `ParseReturns`, and so on. The
violated runs check one property by itself.

Runs that show a disagreement between the code and what it says of itself (each is a finding
in `PROJECT.json`, with the line quoted):

| Run | What TLC shows |
|---|---|
| `reactor_double_removal` | a connection removed for two reasons trips an assertion of the removal path and the process exits |
| `reactor_timer_conflict` | the main thread inserts into a sub loop's `timers_` while that loop is in it |
| `buffer_output` | Append to a partly sent buffer takes the compaction branch, which re-exposes sent bytes |
| `http_keep_alive` | the Content-Length of an earlier request survives ResetState, and ParaseRequest loops for ever waiting for that body |
| `cpplint_settings` | an outer CPPLINT.cfg overrides the `linelength` of a nested one, and the value stays for the next file |

More deviations are in the models and are left out of the passing runs by a constant or by
the wording of a property; most are hazards in `PROJECT.json`:

* A line exactly as long as the space left is neither rotated nor accepted and ends the process;
  `RoomUnlessExactFit` says that this is the only such case.
* Rolling reopens a file that was given by name, which grows without bound. `FileBounded` is
  checked with `NamedFile = FALSE`, which is how `test/httpserver.cpp` starts the logger.
* With half a head (`Arrives = "part"`) the parser's loop runs past its input, because its bound is
  relative to `start`: `ReadsInsideInput` holds for heads that arrive whole.
* HTTP/1.0 is stored as an invalid version; the requests of `buffer` are HTTP/1.1.
* A file that does not fit the socket at once loses bytes and overtakes what is queued, and a reply
  appended to a partly sent output buffer that is compacted is corrupted (the finding of `buffer_output`):
  `StreamIntact` excepts these two. A file's announced length is 0: `ClientInStep` excepts files.
* Negative integers are not written as digits (`NumbersAreReadable` holds from 0 on).
* run_clang_tidy.py never ends when a worker dies or a file of the database is not selected;
  `ScriptEnds` excepts these two.
* cpplint's usage text says that NOLINT "suppresses errors of all categories on that line"
  (cpplint.py:94-96). An error about a line ProcessLine has not come to is printed in spite of a comment there,
  as are those of CheckEmptyBlockBody (4265, 4337) for an `if` that ends on a later line, unless its check parses
  the comment first. `VerdictsAreLocal` excepts it: the comments that count are those that were parsed.
* The usage text shows `--filter=whitespace,runtime/printf,+runtime/printf_format` and calls `FOO` the same as
  `-FOO` (cpplint.py:122-128); AddFilters raises ValueError for a filter without a sign (1074-1077), which
  nothing catches. The model dies there (`Dies`), and `TypeOK` of Lint says that no such filter is ever in force.
* The `)` of a directive such as `#if defined(A)` between the name of a class and its brace takes the class off
  the nesting stack, and the brace opens a plain block. `StackIsNesting` counts that block as what the code
  takes it for, and holds for everything else.
* run_clang_tidy.py exits with 1 when exporting or applying fixes raises, with no file failed (`ExitCodeTells`).
* After a nested `#if`, `#else` empties the wrong include list; `DuplicatesAreReal` and
  `MissingIsMissing` leave nested conditionals out, so that what is wrong there is not caught.

The passing runs of Reactor keep double removal and data races in: `AssertionsFailOnlyOnDoubleRemoval`
says that double removal is the *only* way to trip the two assertions of the removal path, so
the rest of the protocol is checked with the finding present.

**Bounds.** Two connections are the smallest number with a race for a descriptor, a loop or the
map. A third connection would add no new pair of threads: all interaction between connections is
through one map, one descriptor or one loop. `removals` is unbounded in
the module but bounded by the events of the clients, who connect once per connection.
Bytes, lines and timers are enough for each branch of the code to be taken more than once:
in Buffer each growth, in AsyncLogging each combination of spares, in TimeQueue a
repeating timer that expires with others. Two workers and two callers are the least with which a
notification can reach a worker whose task another has taken. Two files are enough for one to
leave something behind for the next, two directories for one configuration to be inside another.
In CleansedLines five tokens are two literals, or a literal and a comment, on one or two lines.
TLC fires every action.

**Symmetry and view.** `Symmetry` permutes connections and descriptors, in safety runs of Reactor
only. `View` (MCReactor) identifies states that differ only in the contents of a destroyed
connection, which nothing reads.

**Deadlock** is checked for TimeQueue. The other systems may stop: clients are done, the process
has exited, the log thread or the pool has returned, the file is read.

**Fairness.** Weak fairness of each thread's next step, and of nothing a client or a caller
does, but that the client of Reply reads what reaches it: threads are scheduled by the kernel, a
step that is enabled stays enabled until the thread takes it. For `Notify` and `NotifyOne`, a thread
inside QueueOneFunc or Add leaves it. In TimeQueue the clock and the timerfd go on; in AsyncLogging
the log thread gets the mutex and `wait_until` times out; in ClangTidy a clang-tidy that was started
ends. `ClosedPeerIsReleased` excepts a loop that spins in SendFile or in ParaseRequest: stalls the
code really has are in the properties, not assumed away. Nothing of cpplint.py needs fairness: its
loops are over finite lists.

## 4. Proofs

All theorems are for every value of the constants under the named assumptions of the modules
(`ReactorAssumption`, `TimeQueueAssumption` and so on), which TLC evaluates in the runs. The
inductive invariants were checked by TLC on the runs' instances before they were proved.

**EventLoopProofs**: any number of threads, callbacks and channels.

* `TypeCorrect`; `NeverLosesWakeup`, `WakeupReadNeverFails`: both follow from the inductive
  invariant `WakeupInv`. NoLostWakeup is not inductive: it speaks of the moment the owner polls, but
  the callbacks it could miss are queued earlier, while the owner runs the previous
  batch. WakeupInv carries "queued work comes with a wakeup" from the swap to the poll,
  ties `calling_functors_` to the phases in which it is set, and keeps the counter positive while the
  wakeup channel is in the batch. It says nothing while events are handled, where HandleRead
  zeroes the counter: DoToDoList follows.
* `RefinesExecutor`: `SafeSpec => Executor!SafeSpec`, with `pending <- functors \o to_do_list`.
  The two lemmas about concatenation say that Append on the right and Tail on the left are
  steps of the abstract queue; every other step is a stutter.

**ReactorProofs**: any number of connections, descriptors and sub loops, whatever clients do.
The inductive invariant is `ReactorInv`, in four parts, each of which needs those before it:

* `OwnerInv`: who owns what. `NoDanglingChannel` is not inductive, because dropping a `shared_ptr` in
  one thread is harmless only as long as another place still has one. `EpollInv` says which place
  that is for a registered channel: NewConnection before the insertion, then the map, then the queue or
  the running vector of the loop that will call ConnectionDestructor. `ObjectInv` says that two
  live connections never have the same descriptor and that the map has each under its own, so that
  neither an insertion nor an erasure touches another's entry; `EventInv`, that whatever is in a
  batch or being handled is registered and tied, so that the guard of `HandleEvent` is never the
  last owner (`HeldIsOwned`); `RemovalInv` counts what the calls of RemoveConnection have become
  (`Tokens`: queued or running RemoveConnectionInLoop, queued or running ConnectionDestructor, or a
  channel already out of epoll). A connection removed at most once has at most one token, so a
  ConnectionDestructor finds it registered and a RemoveConnection finds it in the map.
* `TiedInv`: nobody removes a connection before ConnectionEstablished has tied it.
* `DataInv`: NoStrandedData for each connection, and only registered channels listen for input.
  `ConnectionEstablished` needs TiedInv: it enables reading without looking whether the channel is
  still in epoll.

The theorems are `TypeCorrect`, `ChannelsNeverDangle`, `OneRemovalIsClean`,
`EntriesAreErasedByTheirRemoval` (an action property) and `DataIsNeverStranded`. Each step of the
system is reduced to one of a few frames (`OwnersStep`, `FrameStep`, `DataKept`, `DataQuiet`), which say
what it must leave alone for a part of the invariant to survive.

**AsyncLoggingProofs**: every size of buffer, file and line.

* `TypeCorrect`, and `AppendFindsRoom` (BuffersReady), from `LogInv`: the spare buffers are there in
  every phase of the log thread in which a front end may take one.
* `LinesStayInOrder`: the lines written, taken, full and current are those appended, through the
  swap. `FlattenSeq` is a recursive function; that its defining equation has a solution, and that it
  distributes over concatenation, is proved by induction for sets of numbers (`SetInduction`, from
  the theorem that a well-founded set has a least member).
* `FileStaysBounded` assumes `~NamedFile`: a file given by name is reopened by each roll and grows
  without bound, see above.
* `LineAlwaysSound` (LineIsSound): one line of LogStream, any buffer, texts and integers. `DigitsIs` shows that
  the recursion of FormatInteger has its solution, by iterating it more often than the number is large;
  `DigitsAreDecimal`, that the digits read as the number; `DigitsFit`, that a number below the k-th power of ten
  has at most k of them, so that what is kept free for an integer is enough before its length is known. The
  assumption on `Ints` says no more than that: KMAXNUMERICSIZE is 48, and no integer of C++ has 48 digits.

**TimeQueueProofs**: any set of timers and delays, clock set any number of times. `TypeCorrect`;
`TimerfdKeepsStep` from `TimerInv`, whose part `ClockInv` says that until the clock is set
an expired timerfd has a timer that is due, so that what is inserted before the read
cannot come first; `OnlyNewTimersGetLost` (an action property).

**ThreadPoolProofs**: any number of workers, callers and tasks. `TypeCorrect`; `Serves` from
`PoolInv`, which adds to NobodySleepsOnWork who is where; `RefinesExecutor`, by
counting: a worker that takes a task is not among the running ones, so fewer than `Width` are active.

**ExecutorsProofs**: the composition. Each part of `MCSpec` implements its own specification
or stutters, so the theorems of EventLoop and ThreadPool carry over (`PartsTypeCorrect`,
`PoolAlwaysServes`). `LoopsAlwaysReady` is proved from `StartInv`, which follows the thread being started.
`ExitCodeAlwaysTells` is proved from `TidyInv`: unfinished tasks are those queued and those workers hold
(`CountInv`), a file put in the queue is there, held, skipped or checked (`FilesInv`); when the count is
zero every file has its verdict, and only `Exit` can add to the exit code, for an option that was given.

**BufferProofs**: every `KPREPENDINDEX` and `MaxBytes`; for Reply, any sizes, any room in the socket and any
number of replies; for HttpContext, any set of requests that are `WellFormed` and not HTTP/1.0.

* `InputIsQueue`: from `InputInv`, whose point is that `read_index_` never leaves `KPREPENDINDEX`
  when the buffer is only emptied and appended to; the faulty compaction branch needs room before
  it and is unreachable.
* `KeyboardIsQueue`: AppendKeyBoard empties the buffer first, so again it never compacts. Lemmas
  state what growing, copying and appending do to the readable bytes. `BuffersAreQueues` says both of the
  specification that is run.
* `StreamStaysIntact` (StreamIntact): `StreamInv` says that what was read, what the socket holds and what is
  queued are, one after the other, the replies before the one being sent, and of that one what `pc` says: nothing,
  its head, or all of it. Without the place in OnHttpReponse it is not inductive. As long as no file met
  a full socket, `send_size` is 0 or past the end of the file; as long as nothing was compacted, Append is an
  append. After either, the invariant says nothing of the stream.
* `ClientStaysInStep` (ClientInStep): without a file or a closing reply, the lengths announced are those of the
  replies (`AnnouncedIsSent`), so a client that has read as many bytes leaves none on the way; the output
  buffer is then empty with `read_index_` at its beginning, so that no Append compacts.
* The replies made so far and the lengths announced are recursive functions; that they satisfy their equations
  (`WholeIs`, `AnnouncedIs`) is proved by showing that a function on `0 .. n` that does can be continued.
* `RequestsAreParsed` (RequestsParsed), in four stages. A message is a concatenation of lists of unknown length:
  `MessageLaid` says at which places of the bytes its parts lie (`Layout`: one place for each parameter and each
  header line). `Stage` says for each state of the parser in which part it is, that `start` is at its beginning and
  `end` inside it, and that the request holds what was sent up to there; lemmas such as `ParamReads` and `HeaderReads` show
  that the character read there, known from the layout, leads from one stage to the next. `MapOfIs` says that storing pairs one after
  the other gives the map of the last of each key. `HttpInv` adds the calls. ParsedAsSent by itself speaks of the
  end only; ReadsInsideInput needs the layout, because the loop's bound moves with `start`.
* `PartsTyped` (PartsTypeOK) from these invariants, with the replies each byte belongs to (`Made`).

**LintProofs**: any number of files and directories, any configuration files, comments and command
lines under `LintAssumption` (every directory leads to the root; a filter line has filters).
`LintTypes`, `OtherFilesDoNotMatter` (VerdictsAreLocal) and `ExitCodeIsHonest` (ExitCodeTells), in three stages:

* The loops of the code are folds and the search upwards is a recursive function. `Recursion` shows that
  an equation along a well-founded relation has a solution, for the folds (`FoldExists`) and for
  `ListsAbove`; lemmas such as `IsFilteredByLast`, `AfterConfigGathers` and `ListsAboveIs` say what each loop does step by
  step. `ListsAboveStays`: as these equations have one solution, it is the same after every step.
* `FiltersDecide`: going through all filters in the order in which they were added and keeping the last that
  matches gives what the nearest list that mentions the category says. This is where the reversal in
  ProcessConfigOverrides matters.
* `LintInv` says what `filters` is made of in each phase: the default filters and those of the flags between files
  (`Base`, kept in `filters_backup` while a file is processed), and these followed by the lists of all configuration
  files above the file while it is linted; during the search, the lists found and those above `dir` are
  the lists of the file. `suppressions` holds the comments of the lines in `parsed`, the marks of the file and
  nothing of an earlier file, and `parsed` has the lines up to `at`. Without the first, VerdictsAreLocal is not
  inductive: it speaks of errors already reported.

Then an inductive invariant for each part of `Cpplint` but NestingState, for any value of its constants;
`PartSteps` says that each step of `CpplintSpec` is one of that part or leaves it alone (`LintIsAPart`).

* `BracketsMatch` (BracketsFound), from `ExprInv`: the stack of the search, without its angle brackets, is the stack
  of a reader who looks at the other brackets only. `Agrees` states this by an embedding of the one in
  the other, since taking out angle brackets is a filter; the lemmas on it say what pushing, popping and
  WithoutAngles do. The bottom of the stack is never an angle bracket when the search began at another one, which is
  why a pop of an unmatched `<` cannot empty it. For angle brackets, the stack is all that is open, until
  the text stops being a template argument list.
* `LongFunctionsAreReported` (LongFunctionsShow), from `FuncInv`: the lines counted are at most those of the
  body. `ErrorLevelIs`: the limits double, so the logarithm is at least the verbosity.
* `IncludesAreJudged` (IncludesAreSound), from `InclInv`: `_section` is the furthest place of the includes
  since the last conditional (`Furthest`); outside nested conditionals list k holds what lines of the k-th
  conditional, or of none, have named (`ListsAreOfLines`), and every line's path is in a list unless an
  `#else` has cleared it (`LinesAreListed`). The last two need each other at `#else`.
  `IncludeAssumption`: the file is no header of the standard library.
* `GuardsAreSound` (GuardIsSound): `NamesArePortable` says what the search for the root of the repository
  finds in any tree, `GuardInv` that what was noted of the guard is what a preprocessor finds as long as
  all directives are inside it. `GuardAssumption` says that a working copy of Subversion has its `.svn` in every directory
  above the header or not in the header's own: versions before 1.7 or since.
* `PartsAreTyped` (PartsTypeOK) from all of them, and `TextInv` for CleansedLines.

Only model-checked:

* liveness and the fairness part of the refinements (`WaitsEnd`, `ClosedPeerIsReleased`,
  `BackEndServes`, `EveryTimerRuns`, `BytesMoveOn`), which is beyond the prover;
* `NestingIsSound`: it is about the lines of the instance. `Update` follows the blocks of lines written in the usual ways
  and not of every sequence of tokens (two classes declared on one line), and which those are is said by a table;
* `CodeIsKept`: what the recursive functions of CleansedLines make of every text is induction over data.

## 5. Not modelled

Of the server: FileUpload (multipart files), texts of status lines, headers, times and floating point
numbers, CurrentThread, Error, the page contents of `test/httpserver.cpp`, blocking sockets other than the
clients' send loop, Bind/Listen/Connect (once, before the loops). The older prototypes
`channel_socket`, `class_socket` and `temp` are not built; `build`, `static` and `files` are generated or
assets.

Of cpplint.py: the style checks proper (CheckStyle, CheckLanguage, CheckSpacing and the like, nearly
half of the file): regular expressions on a line and, in some, on the lines around it or up to the end of
an expression found by CloseExpression. They keep nothing of their own from one line to the next, so that a model
would mostly repeat the expressions; the output formats; the options
that only print. What such a check reports goes through Lint as one of `Errors`. Of identifiers and
paths, that two different ones may become the same text is left out.

`run_clang_format.py` is a loop with one flag, which each directory overwrites.

## 6. Plan

Built, in this order: EventLoop and its abstraction; Reactor; Buffer; AsyncLogging; TimeQueue;
HttpContext; ThreadPool and its abstraction, Startup; Reply; LogStream; ClangTidy; the modules of
cpplint.py.

Proved: EventLoop, ThreadPool, Startup, ClangTidy, Reactor, AsyncLogging and LogStream, TimeQueue, Buffer, Reply,
HttpContext, Lint, Expression, FunctionState, IncludeState and HeaderGuard, section 4.

Next, proofs: NestingState, with a grammar of the lines its expressions are made for in place of the table.

Then, models: an abstract connection life cycle that Reactor implements up to the
double-removal finding; FileUpload.

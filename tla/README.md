# TLA+ models of wepp

wepp is a small C++14 web framework: a server thread takes TCP connections
from a listener and hands them to a pool of worker threads, each of which
receives an HTTP request, routes it and answers. Nearly everything that is hard
in it is concurrency: three classes with a thread of their own, semaphores
that count entries of queues kept elsewhere, tasks that are completed by one
thread and waited for by others, and stops that may come at any moment. The
one hard sequential part is the receiver, which parses a request that arrives
in arbitrary pieces.

Paths below are relative to the repository; `src/` in `PROJECT.json` stands for
its root.

## 1. Inventory

| component | state | operations | talks to |
|---|---|---|---|
| `Semaphore` (`include/wepp/semaphore.*`) | `m_value`, mutex, condition variable | `wait`, `tryWait`, `notifyOne`, `reset` | used by the pool, its workers and the listener |
| `Task`, `TaskController` (`include/wepp/task.*`) | status, value, timeout flag, mutex, condition variable, shared by all copies | `wait`, `wait(timeout)`, `finish`, `fail`, queries | returned by every asynchronous call |
| `ThreadPool`, `ThreadWorker` (`include/wepp/priv/threadPool.*`) | two flags, two tasks, worker set, worker queue, work queue, two semaphores, one mutex; per worker a flag, an argument tuple and a semaphore | `start`, `stop`, `enqueue`, `returnWorker`, destructor; the pool thread; the worker threads | callers, workers |
| `ReceivePool` (`include/wepp/priv/receivePool.*`) | per worker an `HttpReceiver` and a function | `execute` | `ThreadPool`, `HttpReceiver` |
| `TcpListener` (`source/wepp/socket/tcpListener.cpp`) | `m_running`, `m_handle`, queue of listen tasks, semaphore, stop task, mutex | `start`, `stop`, `listen`, destructor; the listen thread | callers, the kernel |
| `Server` (`source/wepp/http/server.cpp`) | `m_running`, `m_stopped`, stop task, mutex, a listener, a pool, a router | `start`, `stop`, destructor; the main thread | listener, pool, router |
| `HttpReceiver`, `HttpReceiverBuffer` (`source/wepp/priv/httpReceiver.cpp`) | a buffer and five pointers; the request being filled | `receive`; `receive`, `regexSearch`, `readNewline`, `readAll`, `readLine`, `reset` | socket, router callback |
| `Router`, `RouteMethod` (`source/wepp/http/router.cpp`) | a trie per method | `operator[]`, `find` | server |
| `Socket`, `TcpSocket` | a handle | `setBlocking`, `connect`, `receive`, `send` | kernel |
| `Request`, `Response`, `Body`, `Method`, `Status`, `Uri` | data | getters, setters, one regular expression | |

How they interact: the main thread of the server calls `m_listener.listen()`
and waits for the task; the listen thread takes a token of the listener's
semaphore for it, accepts a connection and completes the task; the main thread
enqueues the connection in the pool; the pool thread takes a token for the work
and one for an idle worker, gives the work to the worker and notifies it; the
worker executes, returns itself to the pool and waits again. `stop()` of each
class clears a flag, adds a token so that its thread wakes up, and returns a
task that the thread completes at its end. Destructors do `stop().wait()` and
join.

What makes each of them correct:

- **Semaphore**: no notification is lost; it is a counting semaphore.
- **Task**: whoever waits for a completed task returns; a wait that returns
  from a pending task has a reason.
- **ThreadPool**: tokens and queues agree; only idle workers get work; no work
  is executed twice; enqueued work is executed; a stop completes; nothing runs
  after destruction.
- **TcpListener**: it is a queue of accept calls: tasks are answered in the order
  of the calls with the connections in the order of theirs, each once; tokens and
  listen tasks agree; a stop at any point ends the thread, closes the socket once
  and fails the tasks that wait; a connection of somebody else's socket is served
  to nobody.
- **Server**: no connection is lost between listener and pool; `start()` is
  decided; a stop completes.
- **Router**: an answer is a route that the path matches; a plain route is found
  whatever other routes there are; texts are cut and tags replaced as written.
- **HttpReceiverBuffer**: it is a queue of bytes with a limited room.
- **HttpReceiver**: what is accepted is what was sent, whatever the
  segmentation and whatever an earlier request left in the buffer; what should
  be accepted is; limits hold; `receive()` ends.
- **ReceivePool** with the server's function: a connection is answered as its
  request was handled, nothing of it reaches the next one, and the worker comes
  free again.

The hard behaviours, with their lines, are the `hazards` of `PROJECT.json`.

## 2. Modules

| module | models | role |
|---|---|---|
| `CountingSemaphore` | the promise of `Semaphore` | abstract specification |
| `Semaphore` | `semaphore.inl` over a condition variable | implements `CountingSemaphore` |
| `Task` | `task.inl` over a condition variable | component |
| `WorkQueue` | the promise of `ThreadPool` | abstract specification |
| `ThreadPool` | `threadPool.inl`, pool and workers | implements `WorkQueue` |
| `AcceptQueue` | the promise of `TcpListener` | abstract specification |
| `TcpListener` | `tcpListener.cpp` | implements `AcceptQueue` |
| `Server` | `server.cpp`, with what it meets of `threadPool.inl` | composes `TcpListener` (`Listener == INSTANCE TcpListener WITH ...`) |
| `ByteQueue` | the promise of `HttpReceiverBuffer` | abstract specification |
| `ReceiverBuffer` | the functions of `HttpReceiverBuffer` on a record of its members | operators |
| `BufferCalls` | a program that calls them in any order | implements `ByteQueue` |
| `HttpReceiver` | `receive()` of `httpReceiver.cpp` | component, uses `ReceiverBuffer` |
| `ReceiveWorker` | `receivePool.inl` and the function of `server.cpp:75-120` | extends `HttpReceiver` |
| `RouteTable` | the promise of `Router` | abstract specification |
| `Router` | the trees of `router.cpp` and the search in them | implements `RouteTable` |
| `RoutePath` | the loops of `router.cpp` over the text of a path | functions, used by `Router` |
| `SemaphoreProofs`, `ThreadPoolProofs`, `TcpListenerProofs`, `TaskProofs`, `ServerProofs`, `BufferProofs`, `ReceiverProofs`, `RouterProofs` | | theorems |
| `MCThreadPool` | the pool, or a semaphore, or a task (variable `part`) | values for TLC |
| `MCTcpListener`, `MCServer`, `MCRouter` | | values for TLC |
| `MCHttpReceiver` | a worker, or a program that calls a buffer (variable `user`) | values for TLC |

Conventions. Variables have the names of the members of the class. A variable
that is not a member is a control point (`poolPc`, `threadPc`, ...), a part of
the environment (marked *external*) or a history variable (marked *history*;
nothing but properties reads it). An action is named for the function or the
step of a thread it stands for. The bounds are constants named as such.

A definition whose comment begins with *Faulty* is not part of the
specification. It is a slip the code could have had; putting it in the place
of the definition below it must violate a property, and `PROJECT.json` lists
under `mutants` which one.

### What is one step

A critical section that waits for nothing while it has its mutex is one step,
taken when the mutex is free: no other thread can see or change what it
protects in between, and the atomics a critical section writes are read by
other threads at steps of their own. This is how `enqueue`, `stop`, `listen`,
`stopListen` and the functions of `Semaphore` and `Task` are modelled; a wait on
a condition variable cuts a function in two. Where a critical section does wait,
the mutex is a variable: `m_mutex` of the pool (held by `start()` while it waits
for the pool thread, by the pool thread while it allocates and while `cleanup()`
joins) and `m_stopQueueMutex` of the server (held by `handleStop()` while it
waits, and by `stop()` between stopping the listener and clearing `m_running`,
which the main thread reads without it). The notification of a semaphore
commutes with what follows it in the same critical section, because the
thread it wakes needs the mutex for all that matters or could have been woken
later.

Reads that are *not* protected are steps of their own: `m_running` and
`m_handle` in the listen thread, `m_running` in the main thread, `m_started` in
the pool thread, and the write of `m_args` in `executeVirtualHelper`.

`std::thread` cannot be assigned while it is joinable. `ThreadPool`,
`TcpListener` and `Server` join theirs in the destructor only, while their
guards let a `start()` through after a stop: that call ends the process, and
`StartAgain` models it. A run of a model is one life of the object up to there.

### ThreadPool and WorkQueue

`start()` is `Start`, `StartReturns` (it waits for the pool thread with the mutex
locked), `StartAgain` and `StartWithoutWorkers` (the exception for 0 workers, after
`m_startedTask` was replaced). The pool thread is `Boot`, `LockForAllocation`,
`Allocate`, `Allocated`, `AwaitWork`, `AwaitWorker`, `Dispatch`,
`LockForCleanup`, `Delete`, `FinishCleanup`; a worker is `Wake`, `Complete`,
`ReturnWorker`, `ResetArgs`. `executed` counts executions, `submitted` bounds the
calls of `enqueue`, and `stranded` remembers how many works were in the queue
when `start()` reset the tokens and kept the queues. The semaphores are the
counters that `Semaphore` is shown to be.

`WorkQueue` is what the user of a pool expects: works are handed out in the order of
`enqueue()`, each to one worker that has no other under way; each is begun at most
once, with the arguments it was handed out with, and stays under way until `execute()`
returns; a stop gives up the queue when no work is under way. It lets a work be
forgotten between the two (`Forget`): the code does so when a worker that was notified
is destroyed, and when `ResetArgs` overwrites what `Dispatch` has just written. In
the mapping a worker has a work when it was notified and has not woken up (`Given`) or
when it is inside `execute()` (`Doing`). The abstract queue promises no progress: a
work may wait behind workers that never return, and `BacklogDrains` says what is left.

### Semaphore and CountingSemaphore

`sleeping` are the threads inside `m_condition.wait`, `woken` those on their way
out of it. `NotifyOne` wakes an arbitrary sleeper; `SpuriousWake` wakes one
without a notification; `Resume` is the head of the loop again. The refinement
maps `value` to `m_value` and `blocked` to `sleeping \cup woken`: a thread that
was woken has not got through yet, since another may take its token.
`reset()` takes no mutex; its only caller (`ThreadPool::start`) runs it when no
other thread uses the semaphore, and it is one step.

### Task

One shared state and the threads that wait for it. `Elapse` is the moment
`now + timeout`, after which `wait_until` may report a timeout (`TimeOut`,
which does not look at the status) or, for a thread that was notified at
the same moment, not (`Resume`). The timeout flag belongs to the shared state, as
in the code, so that threads overwrite it for each other.

### TcpListener and AcceptQueue

The listen thread is `CreateSocket`, `BindSocket`, `ListenSocket`, `FinishStart`,
`AwaitTask`, `CopyHandle`, `Accept`/`AcceptClosed`/`AcceptError`/`AcceptForeign`,
`Judge`, `Reject`, `Serve`, `StopListen`, `FailStart`. The first three may fail, for
a reason of their own or because a stop has set `m_handle` to 0. The kernel is
external: the socket and its backlog of connections; a close shuts the socket
down (`WeppCloseSocket`), so that an `accept()` in progress fails. The thread
works on a copy of `m_handle`; once a stop has closed the socket its number may be
given to another one, whose `accept()` may fail (`AcceptClosed`) or return a
connection that has nothing to do with this listener (`AcceptForeign`). `wasted`
counts the tokens that an `accept()` failing on an open socket used up.

`AcceptQueue` is what a caller of `listen()` expects: calls wait in order,
connections are offered in order, the oldest call is answered with the oldest
connection. A close refuses the calls that wait, at once or one close later (a
second `stop()`, or the thread on its way out), and withdraws the connections but
for one that had been accepted already. The refinement maps what is offered to
the backlog with the connection in the hands of the thread before it (`Offered`); a
foreign connection is offered never, so that serving it would be a step the
queue does not have.

### Server

The main thread is `StartPool`, `StartListener`, `ListenerStarted` or
`ListenerFailed` and `FailStart`, `SetRunning`, `FinishStart`, `LoopOrLeave`,
`Listen` or `ListenRefused`, `ListenReturns`, `Handle`, `HandleStop`, `Stopped`. The
listener is the module above with the server as its only caller; the pool is below.
What a worker does with a connection is `ReceiveWorker`. `ListenRefused` is the
`listen()` of a listener that does not run:
it returns a failed task and changes nothing, so the task needs no number and the
loop of failed listen tasks the code can get into is a cycle of the model and not
cut off by the bound on tasks.

`~Server()` is `Destroy` (its `stop().wait()`), `DestroyJoins`, and the destructors of
its members in their order: `DestroyPool`, which clears the pool's `m_started`, and
`DestroyMembers`, which goes on to `~TcpListener()` when the pool's thread has ended. So the
server has the part of the pool these meet: its thread (`AwaitWork`, `Dispatch`,
`FinishCleanup`), and of each connection whether it waits, was given to a worker, is
executed or came back (`Execute`, `ReturnWorker`). `cleanup()` joins the workers with the mutex
that `returnWorker()` needs, so that it never ends while one executes (`CleanupHangs`);
a worker may sit in `recv()` for ever, and nothing is assumed of it. Restarts of the pool, its
tokens and the arguments of its workers are left to `ThreadPool`: the server starts its
pool once.

### ReceiverBuffer, ByteQueue and BufferCalls

A byte is a symbol: `CR`, `LF`, or a piece of text. Pointers are offsets. The bytes
themselves are kept, also those behind what was received, since the code reads
some of them: `findNewline` the byte behind a carriage return, `readNewline` two
bytes at the reading position. The byte behind the end of the buffer is arbitrary.

`ByteQueue` is what the header promises: bytes come in at the end, whole texts or
nothing; a line is taken from the front when its end is there and it is within the
limit. It leaves open what the functions do with a line exactly as long as the
limit, and that `readLine` takes a limit of 0 for none while `regexSearch` does not.
`BufferCalls` calls all the public functions in any order and maps the unread bytes
to the queue. Three things end a behaviour of it (`astray`): a move by `std::memcpy`
between ranges that overlap (`overlap`), a byte taken for the end of a line that was
never received (`stale`), and a search that starts behind its end or in front of
what is unread (`search`). The abstract queue is reset there. The last one is a
matter of the caller: `search` remembers the limit of a search that has not taken
its line, and `mixed` that something else was read, or another limit searched with,
before it had; `OnlyMixedSearchesGoAstray` says that nothing else leads there.

### HttpReceiver and ReceiveWorker

The first symbol of a line decides what the regular expressions would say of it.
TCP cuts the bytes of a request anywhere (`ReceiveSome(n)`); `makeSpace(0)` never
moves anything, so that the byte at offset i is byte i + 1 of the connection. The
buffer keeps its bytes from one request to the next, as `reset()` does, and begins with
bytes nobody has written (`Uninitialised`).

`findNewline` reads the byte behind a carriage return, and `readNewline` the two bytes at
the reading position, whether they were received or not. So a `\r\n` that an earlier
request left may end a line or the header of this one, and `m_currentPointer` passes
`m_currentReceivePointer`. The variable `stale` remembers that this has happened, and
the model goes on as the code does: it accepts the request at once when no body is
announced; it parses an earlier header field as one of this request; it searches on
with a number of unread bytes that, as a `size_t`, is huge (`UseMaxLength`). Three steps
behind that have no defined effect (`Undefined`, pc `undefined`): a search whose range ends
before it begins or that leaves the buffer, a line end at the very end of the buffer
behind which `readNewline` reads on, and `append()` of a range with a wrapped length
(`AppendsWrapped`). The last one has a second outcome in the model, that of a
`std::copy` which counts down a signed distance and copies nothing: the position moves back
to what was received and the wrapped length is added to `totalReceived`, which here is a number
below 0.

What a peer sends is cut into lines by definition (`IsCutIntoLines`): behind each
`\r\n` up to the first empty line, what follows being the rest. Any sequence of
symbols can be cut that way.

The phases of a worker are `Execute`, `Receive` (a step of the receiver), `CallBack`
or `NoCallback`, `SendStart`, `SendBody`, `Release`. `send()` takes any part of its
text, and its result is not looked at (`short` remembers that). A `send()` to a peer
that has gone may raise `SIGPIPE`, which nothing in the library handles (`Terminate`).
`Release` is the end of the function: the request, the response and the callback were
local to it, and the last reference to the socket closes it. The receiver stays.

### RouteTable, Router and RoutePath

Routes are set up before the server starts (`server.hpp:96`), so that nothing runs
concurrently here; what is hard is which of several routes answers. `Router` names
a node by the directories that lead to it, so that the trees are sets of nodes
closed under prefixes, and keeps a callback per `RouteCallback` object. `Route` is
`router[method][path]` with all the nodes it makes, `Assign` the assignment through
the reference it returned, `Find` a whole `find()` with the vector its caller
passes again and again. What a tag's regular expression finds in a directory is
the constant `Groups`. `RouteTable` is the table a user has in mind: an answer is
*some* route that the path matches, and the plain route that equals the path if
there is one. It allows "no route" otherwise, because the search does not turn
back; `MissedOnlyWhenDiverted` says when.

`RoutePath` is the text behind it, symbol by symbol. It holds no state: the loops of
`operator[]` and of `find()` are recursive functions (`Cut`, `NodeDir` with
`ReplaceTag` as one iteration), and the three regular expressions are defined by
what their greedy and lazy quantifiers do. `Router` applies them to the texts it is
given (`RouteDirs`, `PathDirs`, `SearchOf`).

## 3. Runs

| run | what it shows |
|---|---|
| `thread_pool` | `DispatchFindsBoth`: `front()` is never called on an empty queue. `QueuedWorkersAreIdle`, `DestroyedIsQuiescent`. `IsWorkQueue`: the pool implements `WorkQueue`. `BacklogDrains`: while the pool runs, work is dispatched down to what `start()` stranded. `IdlePoolStops`: a cleanup that finds no worker at work completes. What the threads wait with: `NoLostWakeup` and `IsCountingSemaphore` of the semaphore, the liveness of `CountingSemaphore` included; of a task `NobodySleepsOnACompletedTask`, `PendingMeansTimedOut` (whatever wakes a thread, it comes back from a pending task for its own timeout only) and `WaitersReturn`. |
| `thread_pool_stop` (violation) | `StopCompletes` fails: `cleanup()` joins, with the mutex, a worker that needs the mutex. |
| `thread_pool_args` (violation) | `WorkReachesWorker` fails: a worker clears the arguments it was just given. |
| `tcp_listener` | `IsAcceptQueue`: the listener implements `AcceptQueue`. `AcceptFindsTask`: `front()` is never called on an empty queue. `PendingTasksAreQueued`, `ClosedOnce`, `ExitLeavesNothing`; `StopCompletes` from every control point, `TasksAreServed` but for wasted tokens. |
| `tcp_listener_token` (violation) | `ConnectionEndsWait` fails: a failed `accept()` leaves a listen task without a token. |
| `server` | `ConnectionsReachThePool`, `StartIsDecided`, `StopOfRunningServerCompletes`, `HandleStopEndsListener`. `DestructorReturns`: `~Server()` gets through the destructors of its pool and its listener with all threads at their end, unless a worker that executes makes it hang. |
| `server_stop` (violation) | `StopIsNotLost` fails: a `stop()` during `start()` is overwritten, or its task is never finished. |
| `http_receiver` | The worker: `EarlierBytesOnlyAtLineEnd`: bytes of an earlier request come in only where what was received ends with a `\r` or a `\n`. `AcceptedAsSent`: in a call where that did not happen, what is accepted is what was sent. `RefusedForSplitEndOnly`: a well-formed request is refused for that reason, or because a segment ended at its empty line, and for no other. `OneBeyondAtMost`: the limits the code keeps. `AnsweredAsHandled`: each connection gets the one answer that belongs to it. `WorkerIsFreed`. The buffer under any calls: `IsByteQueue`, `OnlyMixedSearchesGoAstray`. |
| `http_receiver_stale` (violation) | `AcceptsWhatWasSent` fails: a request is accepted whose line end only an earlier request has sent. |
| `http_receiver_limits` (violation) | `DocumentedLimits` fails: one byte and one field more than documented are accepted, and header lines as long as a request line may be. |
| `http_receiver_full` (violation) | `DisconnectedMeansClosed` fails: a full buffer looks like a disconnected peer. |
| `router` | `IsRouteTable`: the trees and their search implement `RouteTable`. `MissedOnlyWhenDiverted`. `RoutesAreReadAsWritten`: `CutOutsideTags` and `TagsBecomeGroups`, each against a reference definition, for every short text. |

The violations are real disagreements of the code with its documentation; the
`findings` of `PROJECT.json` quote both. The passing properties are stated
around them, and say how: `IdlePoolStops` leaves out the workers of the first,
`TasksAreServed` counts the wasted tokens, `StopOfRunningServerCompletes` and
`DestructorReturns` begin with a server that has come up, and the latter names the hang of
the first finding (`CleanupHangs`). Behind bytes of an earlier request (`stale`) the code
does not keep what `AcceptsWhatWasSent` says, nor does it accept every well-formed request
or receive it to its end, so `AcceptedAsSent`, `RefusedForSplitEndOnly`, the last part of
`AnsweredAsHandled` and the second half of `WorkerIsFreed` name that case;
`EarlierBytesOnlyAtLineEnd` says when it can occur at all. `WorkerIsFreed` promises nothing
behind a step with an undefined effect. `OneBeyondAtMost` and the rest of
`AnsweredAsHandled` hold in every call.

### Bounds

- `thread_pool`: two callers, two workers, three works. A work waits while both
  workers are busy, a worker gets a second work, calls overlap. The proofs show
  the safety properties for all sizes. The pool, the semaphore and the task are three
  parts of one run that share no state: one of them moves in a behaviour, and the fairness
  of the others asks for nothing.
- `thread_pool`, the semaphore: five threads, values up to 4. Two are woken at once, a third takes
  a token before them, two go on sleeping; with fewer threads a semaphore that
  notifies only at 0 would pass. `MaxValue` bounds the state space in TLC; the
  theorems hold for every `MaxValue`.
- `thread_pool`, the task: three waiting threads, two of which can share the timeout flag. The
  proofs show the safety properties for any number.
- `tcp_listener`: three listen tasks, three connections, one failing `accept()`:
  a task behind a task behind the one being served, and a connection without a
  task. The proofs show the safety properties for all sizes.
- `server`: three listen tasks, two connections, one failing `accept()`. The
  main thread has one task pending at a time, so that while the listener runs it
  needs one task more than there are connections. The pool has one worker: one
  connection is executed while the next one waits, and a destructor may come at any moment of both.
- `http_receiver`: for the worker a buffer of 12 symbols, lines of at most 4, one
  header field allowed by the count, two requests in a row, two answers of the
  callback. The requests contain lines at the limit and beyond, a request longer
  than the buffer, equal, different and wrong content lengths, too many, too few
  and refused fields. Every segmentation of every request is explored after every
  other one, so the bytes that a first request has left meet every place where a
  segment of the second may end. A buffer that was never written holds one ordinary
  symbol, or line feeds, the one symbol that turns a carriage return at its end into
  the end of a line; `http_receiver_stale` begins without line feeds, so that the bytes
  its counterexample finds are an earlier request's. The proofs show the safety
  properties for all limits, requests and sequences of requests. For the calls a buffer of 4 symbols, the texts `x`, `CR`, `LF` and
  `CR LF`, the limits 0 and 1: bytes are moved, lines cut at the limit, searches
  resumed and mixed. The proofs show the two properties of the buffer for all
  sizes, texts and limits as well.
- `router`: up to three `RouteCallback` objects (`MaxRoutes`) of six routes and two
  methods, seven paths. A regular directory shadows a tag, a tag another tag, on
  both levels; a route ends where another goes on; a path may be a text with a tag
  in it. Shadowing is a matter of two routes, and a third one to miss.
  The loops over texts: all texts of up to six symbols (`MaxLength`) of an alphabet
  with one ordinary letter: two tags in a directory with text before one of them,
  a slash in a tag, an escaped `>`, tags that never close, empty directories.

`CHECK_DEADLOCK FALSE` stands where the system may stop for good: an object that
was destroyed, a process that was terminated, a thread that waits for a call or
for a peer. That nothing else stops is what the liveness properties say.

### Fairness

Each thread is weakly fair: the operating system schedules a thread that can take
a step. A call that has begun goes on, but no caller need make a call, no
connection need arrive, no system call need fail, nobody need complete a task
and no peer need close. `execute()` of a worker returns (`Complete` is fair): its
callback and its peer are assumed to come to an end. In `ReceiveWorker` nothing is
assumed of a peer but that the bytes it has sent arrive and that it reads its
response; `WorkerIsFreed` says when that is enough. A condition variable hands
the mutex back to a thread that was woken. `CountingSemaphore` is weakly fair to
the blocked threads together, not to each of them: the code gives no order.
In `Server` the pool's thread is fair and its workers are not: no worker need come back from
its peer. `Server` needs strong fairness for `HandleStop` alone, which locks a mutex that
callers of `stop()` may take and release for ever.

## 4. Theorems

For every value of the constants, with the assumptions the modules name
(`PoolAssumption`, `ListenerAssumption`, `ServerAssumption`,
`BufferAssumption`, `ReceiverAssumption`, `AnswersAssumption`, `CallsAssumption`,
`RouterAssumption`; `SemaphoreAssumption` is a hypothesis of the theorems about the
semaphore, and `ThreadsAssumption` of `MCThreadPool` assumes it of the run).

- **SemaphoreProofs.** `IInv` is `TypeOK /\ NoLostWakeup`: a call that takes a token
  takes it from the count, a thread that leaves `woken` takes one with it or
  finds none, and a notification adds one of each as long as someone sleeps.
  `Typing`, `NoWakeupIsLost`; `Implements`: the initial states and every step map
  to those of `CountingSemaphore` (its safety part).
- **ThreadPoolProofs.** `DispatchFindsBoth` is not inductive: it needs
  `TokensCovered` (while the pool is started, tokens including those in the
  hands of the pool thread are covered by entries of the queues; `stop()` breaks
  this, and `m_started` is read again before the queues are), `FlagsAgree`, and
  `Phases` (what each phase of the pool thread knows of the workers).
  `ExecutedAtMostOnce` needs `WorkInOnePlace`: a work is in the queue, in the
  hands of one notified worker, or executed. `IInv` is their conjunction with the
  properties; one lemma per part of it (`TypeStep`, ...), one step per action.
  From it follow `Typing`, `DispatchIsSafe`, `OnlyIdleWorkersAreDispatched`,
  `NothingIsExecutedTwice` and `DestructionLeavesNoThread`; and `Implements`, the refinement
  of `WorkQueue`, one step per action (`StepRefines`). It needs of `IInv` that a worker
  comes back without a notification, also while the workers are being deleted
  (`WorkInOnePlace`), and that a second `start()` finds no worker alive (`Phases`).
- **TcpListenerProofs.** `TokensMatch`: while the listener runs, the queue is as
  long as the tokens left, the one in the thread's hands and the wasted ones
  together; after a stop the thread may serve the token it holds and no other.
  `Phases`, `HandleIsSocket` (the handle is not 0 exactly while the socket is
  there), `CalledInOrder` and `ConnectionInOnePlace` complete `IInv`. From it follow
  `Typing`, `ServingIsSafe`, `NoTaskIsForgotten`, `ConnectionsAreNotShared`,
  `SocketIsClosedOnce`, `NothingIsLeftBehind` and, as an action property,
  `TasksAreServedInOrder`. `Implements` is the refinement of `AcceptQueue`, one lemma
  per kind of step; it needs in addition that connections wait in the backlog of an
  open socket only.
- **TaskProofs.** `TypeOK` already says that nobody sleeps through a timeout of his
  own; with it `NobodySleepsOnACompletedTask` is inductive, because every way to
  sleep looks at the status and a completion wakes all. `PendingHasAReason` is an
  action property: a thread leaves its wait by `Resume` or `TimeOut` (`ReturnStep`).
- **ServerProofs.** `UsesItsListener`: every behaviour of the server is, of its
  listener, one of module `TcpListener`. So the theorems of `TcpListenerProofs` hold of
  this listener (`ListenerKeeps`): `Proved` is an instance of them with the names `Server`
  substitutes, and the lemmas `Same...` say that its definitions are those of
  `Listener`, which the prover takes for different ones. `SInv` is `OneTaskWaits` (the
  main thread waits for the one pending task) and `PoolHoldsServed` (the pool was given
  the sockets of the served tasks, each once, but for the one being handed over).
  It is inductive beside the four invariants of the listener in `ListenerHolds`.
  `Typing` and `NoConnectionIsLost` follow, for every behaviour of the server.
- **BufferProofs.** `Implements`: a buffer of any size is a `ByteQueue`. `BInv` says what
  the two remembered pointers mean: no carriage return is unread before where the
  last search stopped, and a line end that was found is there and is the first. It
  does not say that they are ahead of the reading position, which a `readAll()` may
  pass; a search that starts there has gone astray. `SearchesStayOnTrack`: without
  mixed calls they are ahead (`SearchGoesOn`), however the bytes were moved and
  whatever was received in between. That the first carriage return exists
  (`LeastExists`) rests on the library's theorem that finite sets are well-founded
  under strict inclusion. `TypeCorrect` adds what the calls return.
- **ReceiverProofs.** What a receiver reads is compared with what its peer has sent.
  `End(r, k)` is the offset where line k of a request ends; `BytesAre` says that
  the bytes of a line and of the rest are where they should be, and
  `ReturnIsInLine` and `LineEndIs` that a carriage return with a line feed behind it
  which is received and lies behind `End(r, k)` ends line k + 1 and no other one.
  None of the properties is inductive. `ReceiverInv` is the disjunction of two. `StraightInv`
  is for calls in which every line end was received before it was taken: the reading
  position is not beyond what was received, the buffer holds a prefix of the
  stream (`Received`); a search is resumed behind bytes without a carriage return
  (`Searching`); what was read so far ends with a line, and the headers are the last
  fields of each name among the lines taken, the content length their common one
  (`LinesTaken`, `HeadersAre`, `LengthIs`); in the body, the bytes taken are a prefix of
  the rest (`BodyPhase`). Two parts are there for `RefusedForSplitEndOnly`: a receiver
  that has everything up to the empty line, or to the middle of it, has seen a
  segment end there (`SplitSeen`), and one that looks for a header field where the empty
  line is has missed it for that reason (`HeaderPhase`). `StaleInv` is for the others:
  the pointers stay in the buffer, although not in their order, the limits hold and
  the result is a proper one. A call goes from the first to the second when it takes
  a line end whose last byte is behind what was received, and with the next request the
  first holds again. `WorkerInv` says what each phase
  of the worker has done with the result. One lemma per action; `Invariance`.
  From it follow `TypeCorrect`, `AcceptedIsSent`, `RefusalsExplained`, `LimitsAreKept` and
  `EveryAnswerFits`; and `StaleOnlyAtLineEnd`, an action property: the step that takes such a
  line end reads a carriage return or a field's line feed as the last byte received.
  `ReceiverAssumption` asks that the buffer is at least twice as long as a line may be, as the constructor of the receiver provides, and that requests are
  cut as described above; the symbols are those of the model. The last section
  carries these theorems, and those of `BufferProofs`, over to `MCSpec`, which the run
  `http_receiver` checks: `TypesCorrect`, `OnlyMixedSearchesFail`, `BufferIsAQueue`.
- **RouterProofs.** `IInv` says that the tree of a method holds the way to each of its nodes
  (`TreesOK`), and that every `RouteCallback` object hangs on a node (`RoutesOK`). With it,
  `TypeCorrect` and `TreesAreATable`: every step maps to one of `RouteTable`. For `Find` this
  is an induction along the path, stated with sets (`Upward`, `Downward`): the recursive
  functions of the search and of the table's matches have the values their bodies say at
  each depth (`UpwardFunction`, `DownwardFunction`), a walk that does not fail stands on a
  node of the tree that the path up to there matches, with the groups of its tags, and a
  route without tags is walked to its end since a regular directory comes before the
  tags. `MissesExplained`: where a walk leaves a route that the path matches, it took
  another node the path matches too. `RouterAssumption` asks that upper case is idempotent,
  that every tag has a place in the order of its siblings, and that the expressions are
  given for the directories that occur.
  `EveryTextIsRead` is about the loops of `RoutePath`, for a text of any length over any
  symbols, and `RoutesRead` the property of the run. Both halves are inductions along the text.
  `CutIsOutsideTags`: in a well-formed text a run without an open tag ends at the next slash,
  and where it reaches for its last `<`, depth is 1 up to the first `>` behind it
  (`TagCloses`), so no slash outside the tags is passed (`DirEndIsNextCut`); one more iteration
  puts the directory in front of those that begin further on (`ListsOneMore`). `TagsReplaced`:
  after every iteration the text is what is written out so far and the rest of the
  directory, the position is the length of the former (`Replaced`), and in the rest tags open
  and close where they do in the whole (`TagsOfRest`). `Part`, `Rest` and `Joined` name operators
  of sequences so that the provers use the lemmas about them and not the definitions.

Only model-checked: all liveness properties (the prover does not handle fairness and
`ENABLED`) and the fairness of the refinement of `CountingSemaphore`. Every invariant of
the passing runs is proved, those of `MCThreadPool` for each of its three modules.

## 5. Not modelled

- **Socket**, **TcpSocket** beyond `receive()`, `send()` and the closing destructor:
  `connect()` and `setBlocking()` are called by programs only, and wrap single system
  calls.
- **Request**, **Response**, **Body** beyond what `receive()` fills in and a callback
  sets; **Method**, **Status**, **Uri**: tables and one regular expression, data without
  behaviour of their own.
- What the code does behind a step with an undefined effect: `HttpReceiver` ends at
  `undefined`, `BufferCalls` at `astray` (see above). `makeSpace()` without an argument is
  called by nobody.
- `m_limitHeaderFieldLine` is a constant of the model (`LimitHeaderLine`) that only
  `DocumentedLimits` reads, as nothing in the code does. The constructor keeps the limits
  from being too small, which is abstracted to the constants.
- The destruction of the members of a class derived from `ThreadWorker` before
  the base destructor joins; an `accept()` that blocks on a foreign socket; routes
  added while the server runs; overflow of counters; allocation failures.
- In `Server`, the tokens of the pool, the arguments of its workers and its restarts, which
  module `ThreadPool` is about.

## 6. Plan

Done, in this order: `ThreadPool`, `Semaphore`, `TcpListener`, `Task`,
`HttpReceiver`, `Server`, the proofs of the first three, `RoutePath`, `Router`,
`ReceiverBuffer` with `ByteQueue` and `BufferCalls`, `ReceiveWorker`, `AcceptQueue`,
the proofs of `Task`, `Server` and the buffer, those of `Router` and of the receiver,
the server's use of the theorems about its listener, `WorkQueue` with its proof, and the
proof that every text of a route is read as it is written.

Then the receiver behind bytes of an earlier request, the documented limits, and
the pool's destruction in `Server`.

Left: `Server` over a whole `WorkQueue`, and the documentation's promises behind
`WorkReachesWorker` and `AcceptsWhatWasSent` once the code keeps them.

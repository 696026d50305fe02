# KZevent: a TLA+ model of the event loop, the timer and the sockets

KZevent is a C++ library for Linux: an event loop over `epoll` with two executor
threads, a timer on one `timerfd`, and TCP, UDP and AF_UNIX sockets on top of them.
This directory holds TLA+ modules translated from its source, TLC configurations
that check them on small instances, and proofs that TLAPS checks for every value of
the constants. Paths below are relative to the repository.

## 1. The system

| Part | State it keeps | Operations |
|---|---|---|
| `Loop`, executors (`src/core.cpp`) | `exe_state_`, two `std::thread`s, for each executor a buffer queue (filled by posters) and an exe queue (being run), `io_wake_fd_`, `heavy_wake_cv_` | `start`, `stop`, `~Loop`, `post_io_task`, `post_heavy_task`, `io_executor`, `heavy_executor` |
| `Loop`, descriptors; `LoopChannel` | `events_`, a table indexed by descriptor number: `in_register`, `in_epoll`, callback; a channel owns one number | `register_fd`, `unregister_fd`, `enable_fd` (two forms), `disable_fd`, dispatch; construction, move, swap, destruction of channels |
| `StreamBuffer` (`src/stream_buffer.cpp`) | a vector, `reader_`, `writer_`, `shrink_count_` | `insert`, `push`, `pop`, `clear`, `compact`, `shrink`; `stream_recv` fills it with `readv` |
| `Timer` (`src/timer/timer.cpp`) | a priority queue of deadlines, the ids to delete, the id counter, one `timerfd` | `post_once_task`, `post_repeat_task`, `cancel_task`, `set_next_wake_time`, the `timerfd` callback |
| `StreamClientSocket`, `TcpClient`, `UnixClient` (`src/net/`) | `connected_`, `started_`, `send_buf_`, `recv_buf_`, a socket channel and a timer channel with their event types | `connect`, `start`, `stop`, `post_send_task`, the stream handler, `on_error`, `on_disconnect`, `on_split`, `on_fragment` |
| `StreamServerSocket`, `StreamSession`, `TcpServer`, `UnixServer` | `started_`, `sessions_` by descriptor number; a session has a channel, two buffers and many owners | the accept loop, `start` and `stop` of server and session, `post_send_task`, the stream handler, `on_fragment` on the heavy thread, the destructors |
| `DgramSocket`, `UdpNode`, `UdpClient`, `UdpServer` | a socket; for the server `sessions_` by address with time stamps and a `timerfd` | `start`, `stop`, the receive loop, `on_read`, sends, multicast groups, the periodic scan, the destructors |
| `InetAddr` | an address (`addr_storage_`, `socklen_`) | four factories from text, one from a `sockaddr`, `operator==`, `hash`, printing |
| Channel factories | none | a sequence of system calls that ends in a channel or closes the descriptor |
| `Log`, `sys_error` | a file, a mutex | file output, reports of `errno` |

How they interact. Anything that touches a descriptor, a timer queue or a socket
buffer is posted to the io executor as a task; user callbacks with real work are
posted to the heavy executor. An io task is pushed under a mutex, then the eventfd is
written; the io thread drains the eventfd, swaps the two queues and runs the batch
between the other events of the same `epoll_wait`. A callback registered with a
`LifeChecker` (a `weak_ptr`) is skipped once its owner is gone. All descriptors are
edge-triggered.

What is hard. Five threads of control meet here: the thread that controls the
loop, other posters, the two executors, and the kernel. A wake-up may come between a test and a wait;
a batch of events is older than the tasks that run between them; a descriptor number
may be closed and reused while tasks and events still mention it; an edge that is not
consumed does not come again; the timer and the socket of a connect attempt may become
ready together; `start()` runs on whichever thread called `connect()`; a session may
be owned by the table, the application, its own callback and queued fragments, and goes
with the last of them, on whatever thread that is.

What makes each part correct:

- executors: every posted task runs exactly once and in order while the loop runs, no
  wake-up is lost, a stopped loop is quiet, `start()` and `stop()` return and treat
  the thread handles safely;
- descriptors: a task or an event reaches only the file it was meant for, no edge is
  lost, the table covers what epoll watches, everything is closed at the end;
- buffer: a FIFO queue of bytes whose capacity stays proportional to its content;
- timer: nothing early, nothing after its cancellation, nothing forgotten;
- client: bytes in order and whole, waiting data and unread input always watched, one
  outcome for each attempt to connect, every loss of a connection reported;
- server: the table names just the sessions that are served, nobody waits unserved in
  the backlog, no connection stays open that nobody uses, streams as for the client;
- datagrams: what arrives is read; a peer keeps its session while it is heard, and a
  silent one loses it in time;
- addresses: what the kernel reports is the key under which the address was made, and
  equal addresses hash alike.

## 2. The modules

| Module | What it is |
|---|---|
| `FifoExecutor` | abstract: posted tasks run one at a time, once, in order |
| `LoopExecutor` | `start`, `stop`, `~Loop`, both posts and both executors |
| `LoopExecutor_proofs` | invariants of `LoopExecutor`, and that it implements `FifoExecutor` twice |
| `ByteQueue` | abstract: bytes enter at the back and leave at the front |
| `StreamBuffer`, `StreamBuffer_proofs` | the buffer and `stream_recv`; that it implements `ByteQueue` |
| `LoopEvents`, `LoopEvents_proofs` | `events_`, `LoopChannel` and the dispatch; their safety properties |
| `Timer`, `Timer_proofs` | the timer; that it is neither early nor late to arm, and that cancels hold |
| `StreamClient` | the stream client, with the loop and the kernel's socket as it sees them |
| `StreamClientInvariants` | two ways to use a client, and what holds in every state of each |
| `StreamClient_proofs` | the order of the stream both ways, and what a client that is up does about its events |
| `StreamServer` | the stream server and its sessions, with the loop, the sockets and the heavy queue as they see them |
| `StreamServer_proofs` | the lifetimes and the table of the sessions, their streams, events and the backlog |
| `SessionLease` | abstract: a peer that is heard keeps its session |
| `UdpSocket` | the three kinds of datagram socket, with the sessions of `UdpServer` |
| `UdpSocket_proofs` | that it implements `SessionLease`, reads what arrives and lets no session linger |
| `InetAddr`, `InetAddr_proofs` | addresses as pure operators, and two of them on their way through the kernel; that they come back and are good keys |
| `MC...` | model values, symmetry and small sets for TLC, one for each module with runs |

Definitions named `X_Something` under a comment "Mutant:" are wrong versions of `X`,
each a plausible slip in the code; replacing `X` by one of them must make TLC report
the property it is paired with in `PROJECT.json`. `PROJECT.json` also maps every
definition to the lines it models.

### LoopExecutor

One step is what a thread does between two points where another can interfere: an
access to the atomic `exe_state_`, a critical section, a system call, a join.
`call[t]` is where thread `t` is inside a method of the loop; `io_pc` and `heavy_pc`
are where the executors are. `StartSpawnIo` and `StartAssignIo` are two steps because
the new thread runs before the handle is assigned. `wake_fd` and `wake_ready` are the
eventfd's counter (zero or not) and its place on epoll's edge-triggered ready list. The
heavy executor evaluates the wait predicate (`HeavyPredicateFalse`) and blocks
(`HeavyBlock`) in two steps, holding the mutex in between: a notification without the
mutex can fall there. `HeavySpurious` is a spurious wake-up, `IoWaitOther` any other
event or EINTR. An executor may call the loop from a task or callback.
`io_posted`, `io_ran`, `heavy_posted` and `heavy_ran` are history, and are what
the refinement maps to `FifoExecutor`.

### LoopEvents

Descriptor numbers (`Fds`) are kept apart from the open files behind them (`Files`).
The kernel gives a number to a new file as soon as it is free, also to code outside
the library (`ForeignOpen`). A task and an event carry the file they were meant for as
a ghost, so that properties can compare it with what the number means when they are
executed. `epoll_wait` reports any order of the ready events, at most
`kEpollMaxWaitLen` of them. `close()` may report an error; on Linux the number is free
all the same, but the code then leaves the entry as it was. Each `epoll_ctl` falls
back from MOD to ADD or back; when it fails for good (`CtlFails`: ENOMEM, ENOSPC), the
task of `enable_fd` or `disable_fd` logs the error and returns before it touches the entry.
The modules above `LoopEvents` do not have this failure.
`FactoryFails` is a channel factory whose later system call fails: the channel it has
built already posts its register task and, as it is destroyed, its unregister task.
Event types are left to the socket modules; `kOneShot` has no user in the library.

### StreamBuffer

The vector is a sequence of bytes, so that growth, `std::copy` and shrinking are
modelled by what they do to it. `stream_recv` is the `readv` into the free tail and
the stack buffer, followed by `push` and `insert`.

### Timer

The clock counts nanoseconds (`Ms` of them are a millisecond) and may advance between
any two steps, also inside the callback, which reads the clock once at the beginning
(`handler_now`) and again for each repetition. `set_next_wake_time` truncates to
milliseconds and never sets zero, which would disarm the `timerfd`. Reading the clock
and the following `timerfd_settime` are one step. Setting the `timerfd` discards an
expiration nobody has read. Timeouts are far below 2^63 ms. `MaxTime` stands for every
later time, so that the last deadlines are still reached.

### StreamClient

Two threads, `app` and `io`, each with a stack of steps; `connect()`, `start()` and
`stop()` run on `app` or, from callbacks, on `io`. The event types of the socket are
part of the state, and so are the two forms of registration and the cached
`event_types_` that updates start from. `update_event` posts its task and stores
`event_types_` afterwards, unprotected (`include/kzevent/core.hpp:212`,
`src/core.cpp:470`): reading the old types, posting and storing are three steps (`PostUpdate`,
`WatchSock` and `StartPost` post, `StoreTypes` stores), on either thread. The ghost
`raced` notes that two updates have overlapped. `TimeoutMs` is the argument of `connect()`;
zero disarms the `timerfd`. External parts: the socket (`sk`, its pending error, a send
buffer of `Room` units, unread input) and the `timerfd`. A message and a frame are two
units long, so that a send can be partial and a frame can arrive in halves.
Conventions of Linux that the model relies on: after a failed attempt the next
`connect(2)` fails with the pending error or ECONNABORTED and leaves the socket usable;
a reset keeps input that was already received; `readv` and `send` consume the pending
error that `SO_ERROR` would report. Callbacks are set before `connect()`, and the
client object stays alive.

### StreamServer

The io thread runs one task or one phase of a callback at a time (`pc`); the
application's calls come in between. The loop is taken as `LoopExecutor` and
`LoopEvents` show it to be: tasks in order of posting, each on its own descriptor,
edge-triggered events. `start()` and `stop()` of the server, and `start()` of a session, are sequences of steps of
the thread that calls (`CallStep`): a flag, tests, a post and a store, between which
the io thread and other callers run. What is shared is explicit: `Referenced(c)` says who holds a
`shared_ptr` to a session, and every step that may drop the last one goes through
`Settle`, which runs the destructor there (`Farewell`: the disable and erase tasks of
`stop()`, then the unregister task of the channel). `server` is `"released"` while a
callback has locked the server that the application let go of; `ServerDies` runs its
destructor and takes the table along. A connection keeps its descriptor number until
its unregister task runs, and numbers are scarce, so `accept4` fails with EMFILE and
numbers are reused. Callbacks are set before `start()`, and `fragment_cb_` may keep the
session (`"hold"` in `UserCalls`). `data` is history: what each side sent, what was lost
with the connection, and whether the handler dropped received units while more were
unread (`torn`).

### UdpSocket

`kind` is `UdpNode`, `UdpClient` or `UdpServer`. Callbacks may be set at any time. The
two halves of `start()` and `stop()` of a server, each a flag and a posted task, are
separate steps of the calling thread. Instead of a clock the model keeps how long ago
a time stamp is (`sessions[p]`), up to `Long`; `Tick` adds one, also between the steps
of a callback. `idle[p]` is a ghost: the time since a datagram of `p` arrived that
was not dropped because no callback was set. A datagram is the address it comes from,
and losing, repeating and reordering datagrams is left to the network (`Arrive`).
`SessionLease` is the promise to a peer; `SessionsAreLeased` is the refinement.

### InetAddr

The factories and accessors are operators, named as in the source. A port is two
digits of a small radix, so that byte order shows; `sun_path` has a few bytes, so that
names without room for their NUL exist. `Report` and `Foreign` are the kernel:
it returns the address that was bound, or one of another program.

## 3. The runs

| Run | Instance | What it shows |
|---|---|---|
| `executor_safety` | main and a producer, two io tasks, two heavy tasks; two starts, two stops; an io task may stop the loop; `start()` also on a running loop | `IoWakeupNotLost`, `HeavyWakeupNotLost`: no task waits without a wake-up on its way. `ThreadHandlesSafe`: no executor is launched twice and no joinable handle is overwritten. `IoRunsInPostOrder`, `HeavyRunsInPostOrder`: refinement of `FifoExecutor` across stops and restarts |
| `executor_liveness` | main only, two starts and one stop, executors may post | `IoTaskRuns`, `HeavyTaskRuns`: every task runs while the loop keeps running; `StopJoinsIo`: `stop()` gets past its first join |
| `stop_lost_wakeup` | main, one start, one stop, no tasks | violated: `StopReturns` |
| `stream_buffer` | two byte values, pieces of up to three bytes, at most four unread | `CapacityBounded`, refinement of `ByteQueue` (`BytesInOrder`), `ExactBytes` |
| `events` | two files, two numbers, two channels, two queued tasks, batches of at most two events, failing `close()`, `epoll_ctl()` and factories | `TasksOwnTheirFd`, `EntriesExist`, `DispatchIsCurrent`: nothing reaches the wrong file. `EdgeNotLost`; `TableCoversKernel`; `CallbackIsWatched`: no error leaves a live callback in the table that epoll does not watch |
| `timer` | two tasks, 0 or 1 ms, four nanoseconds of two per ms | `WakeUpIsSet`, `NeverEarly`, `CancelHolds`, `DeadlinesAreMet` |
| `client_stream` | TCP, one message, one frame, two attempts to connect | `PendingDataIsWatched`, `FramesBeforeDisconnect`; under fairness `ConnectResolves`, `DataIsWritten` |
| `client_calls` | connect(2) succeeds at once, two messages, resets, `stop()` and `start()` at any time, `connect()` retried in callbacks; input only with the first message | `SendOrder`; except after overlapping updates of `event_types_`, `InputIsHandled` and `LostConnectionIsReported` |
| `timeout_races_answer` | TCP, one attempt | violated: `OneOutcome` |
| `server` | two connections, one descriptor number, resets, one calling thread. Two instances in one: little data and all calls; or one connection with two messages and up to five units of input in frames of two | `TableIsExact`, `PendingIsAccepted`, `NoLeak`, `SessionStreams`, `WaitingDataIsWatched` |
| `udp` | each kind, two peers, a group, one calling thread, socket errors | `LingerBounded`, `DatagramsAreRead`, refinement of `SessionLease` (`SessionsAreLeased`) |
| `inet_addr` | two addresses, two ips, radix 2, a `sun_path` of three bytes | `RoundTrip`, `KeysAreExact` |

Every module defines `TypeOK` (`InetAddr` excepted). It is proved where the module has
proofs; the runs of `LoopExecutor` and `StreamBuffer` check it as well. TLC also
finds the parts of the inductive invariants (section 5) to hold on these instances.

Bounds, and why they are enough. Two io tasks and two heavy tasks let a task be
posted, by three threads, before, during and after a swap, a batch and a stop, and
behind another one; two starts cover everything a
restart can inherit. Two files and two numbers give reuse of a number, by the library
or by other code, with old tasks and events pending; `kEpollMaxWaitLen = 2` makes
batches too short for what is ready, and an initial table of one entry makes it grow.
The buffer of size 2 with pieces up to 3 and 4 unread bytes grows, compacts, and, after
11 complete drains, shrinks. Two timer tasks order each other's deadlines; with two
nanoseconds to the millisecond truncation is visible, and time 4 is enough for a
repetition that is late. A kernel buffer of one unit and messages of two make every
send partial; in `client_calls` the second message arrives while the first waits.
With one number for two connections the second is accepted only after the first was
closed, and its session meets the late erase task of the first; while the first is
open, `accept4` fails with EMFILE. Its second instance lets one message wait behind
another in `send_buf_`, two frames follow each other, one of them come in halves, and
half a frame be lost to a reset. Both are constraints on states
(`Instances`), not guards: they only leave out combinations of the two. A session timeout and scan
interval of one tick, with a division that would give zero, have sessions expire in
the tick after they were heard; two peers and an inbox of two let a datagram wait behind another.
In `InetAddr` three bytes of `sun_path` hold names that are empty, fit and are too long.

`MaxCalls`, `MaxPosts`, `MaxTasks`, `MaxStarts`, `MaxStops` and `MaxPeer` bound what
the application and the peer do and sit in the guards of their steps only, and so does `MaxQueue` (a call that posts waits for room).
The one bound that holds up the library is `MaxHeavy` of `UdpSocket`: a read waits until the heavy
thread has taken a task, as if that thread were quick; the checked properties
speak of states in which no callback is running, or allow any delay.
Deadlock checking is off where an application may simply stop calling; the buffer
and the datagram socket never stop.

Fairness. The executors and any thread inside a method of the loop are weakly fair:
they are threads of an ordinary scheduler, and their steps stay enabled until taken.
Nothing is assumed of the application, of spurious wake-ups or of other events. In
`Timer`, time passes, an armed `timerfd` expires, and the io thread serves its events
and its tasks (one batch of `epoll_wait` contains both, so neither starves). In `StreamClient` (run `client_stream`) the
`timerfd` expires and the peer goes on reading; an attempt to connect need never
end by itself.

## 4. Where the code departs from its comments

Two of these are runs; the others are reproduced by giving the module the constants
in the last column (two controlling threads, say), the others as in the run of that module
(for `StreamClient`, `client_stream`), without symmetry and
the constraint `Instances`, and checking the named property, which the module defines.

| Where | What happens | Property and instance |
|---|---|---|
| `src/core.cpp:197` | `stop()` changes `exe_state_` and notifies without `heavy_queue_mtx_`; the notification can fall between the predicate and the wait, and the join never returns | `StopReturns`, run `stop_lost_wakeup` |
| `src/core.cpp:147` | `start()` on a running loop joins the running io thread and blocks, instead of returning false | `StartReturns`, `FairSpec`, `StartWhileRunning = TRUE`, `MaxStops = 0` |
| `src/core.cpp:185` | `stop()` in an io task returns before the heavy executor is notified; the next `start()` joins a sleeping thread | `StartReturns`, `FairSpec`, `StopCallers <- OnlyIo` |
| `src/core.cpp:189` | `stop()` in a heavy task and in another thread join the same `std::thread` | `JoinIsExclusive`, `StopCallers <- MainAndHeavy` |
| `src/core.cpp:129` | `~Loop()` does not close a descriptor whose register task never ran | `AllClosed`, one file, one channel |
| `src/net/inet.cpp:1188` | the timer and the socket are ready in one batch: a timeout is reported, then the client connects | `OneOutcome`, run `timeout_races_answer` |
| `src/net/inet.cpp:1182` | an expiry of an earlier attempt ends the new one | `TimeoutIsReal`, `UserCalls = {"connect"}`, `MaxCalls = 2` |
| `src/net/inet.cpp:1124` | `connected_` stays `kConnected` after a disconnect, and `connect()` is ignored | `IgnoredWhenConnected`, `Retry = TRUE`, `MaxCalls = 2` |
| `include/kzevent/core.hpp:212` | `update_event` posts and then stores `event_types_`. With a local socket, `start()` on the application's thread has posted {read, error} and not stored it when a send task computes its update from the old, empty types and posts {write}; over TCP, `connect()` stores {write} after the io thread's `start()` has stored its types. The read event is lost: input stays unread, and the write branch consumes a reset without reporting it | `InputIsHandled`, `LostConnectionIsReported` without the exception `raced`, `Immediate` either, `NetErrors = {"reset"}` |
| `src/core.cpp:46` | in the same way, once the data is written, an update with no event types is posted, against the assertion in `kz_to_local`. (A build without assertions goes on watching errors only, and so does the model.) | `UpdatesHaveTypes`, as in either client run |
| `src/net/inet.cpp:32` | `connect()` with a timeout of zero disarms the `timerfd`; an attempt that nobody answers does not end | `ConnectResolves`, `TimeoutMs = 0` |
| `src/net/inet.cpp:1334` | after an immediate connect, `start()` on the caller's thread races a send task; the data waits with no write event | `PendingDataIsWatched`, `Immediate = TRUE` |
| `src/net/inet.cpp:1233` | an error other than a reset is consumed by `readv`, and no callback is called | `LostConnectionIsReported`, `NetErrors = {"timedout"}` |
| `src/net/inet.cpp:1280` | a failed write clears `recv_buf_`; what is still unread is split in the middle of a frame | `FramesAreWhole`, `NetErrors = {"reset"}`, `MaxPeer = 3` |
| `src/net/inet.cpp:939` | the same for a session, and for its disconnect (`src/net/inet.cpp:988`): input that arrives after the clearing is handed on with a gap before it | `SessionStreams` without the exception `torn`, `Conns = {c1}`, `UserCalls = {"hold"}` |
| `src/net/inet.cpp:1206` | after an early `start()`, the `start()` of the connection returns and nothing is read | `InputIsHandled`, `UserCalls = {"early start"}`, `MaxCalls = 2` |
| `src/net/inet.cpp:1206` | an early `start()` with data in the buffer registers the stream callback while `event_types_` has `kWrite` only; once the data is gone an update with no event types is posted, which `kz_to_local` asserts against (`src/core.cpp:46`) | `UpdatesHaveTypes`, `UserCalls = {"early start"}`, `MaxCalls = 3` |
| `src/net/inet.cpp:1350` | `stop()` on the application's thread falls between the parts of the `start()` with which the io thread reports the connection; the flag and the registration then disagree, and input is not read | `InputIsHandled`, `UserCalls = {"stop"}`, `NetErrors = {}`, `MaxCalls = 3` |
| `src/net/inet.cpp:1154` | with a retry in the error callback after a timeout of the same batch, a socket whose error was consumed is taken for connected | `ConnectedIsReal`, `Retry = TRUE`, `MaxCalls = 2` |
| `src/net/inet.cpp:1330` | an event that was in the batch already calls `disconnect_cb_` a second time for one connection, whose user may rely on one call (`tests/net_tests/tcp_socket_test.cpp:188` fulfils a promise in it) | `DisconnectOnce` of `StreamClient`, as in either client run |
| `src/net/inet.cpp:1144` | a `connect()` that fails at once sets `connected_` back only after `on_error()`. On the application's thread this may come after a retry on the io thread has connected; the connect timer then takes that connection for an attempt that timed out, and its end is reported with input unread | `FramesBeforeDisconnect`, `UserCalls = {"connect"}`, `MaxCalls = 3`, `Messages = {}` |
| `src/net/inet.cpp:990` | the same as for `DisconnectOnce`, for a session | `DisconnectOnce` of `StreamServer`, as in `server` |
| `src/net/inet.cpp:868` | the callback of a session extends the life of the server, but the fragment tasks it posts use the server's callback through `this` and keep only the session | `FragmentHasServer`, as in `server` |
| `src/net/inet.cpp:1061` | after EMFILE the connections left in the backlog wait until another client connects | `PendingIsAccepted` without the exception `starved` |
| `src/net/inet.cpp:1097` | `start()` and `stop()` of the server on two threads (the application, `fragment_cb_` on the heavy thread, or the error branch at 1084 on the io thread) interleave between the flag and the task: the server is started, its listening socket disabled, and nobody accepts | `PendingIsAccepted`, `Callers = {t1, t2}` |
| `src/net/inet.cpp:894` | an error other than a reset is consumed by `readv` of a session, which stays in the table for good | `NoLeak`, `NetErrors = {"timedout"}` |
| `src/net/udp_socket.cpp:235` | `start()` and `stop()` of two threads interleave between flag and task, and a started socket is not watched, or its sessions are not scanned | `DatagramsAreRead`, `LingerBounded`, `Callers = {t1, t2}` |
| `src/net/udp_socket.cpp:315` | without a `read_cb_` the time stamp of a session is not refreshed, and a peer that is heard all the time loses it | `SessionsAreLeased` without `Drop` in `SessionLease` |
| `src/net/udp_socket.cpp:220` | the scan runs before the datagrams that are waiting are read, and may take a session whose peer has just been heard | `SessionsAreLeased` without `p \in unread` in `SessionLease` |
| `src/net/inet.cpp:805` | an error that `recvfrom` reports ends the loop with datagrams unread; they wait for the next one | `DatagramsAreRead` without the exception `cut` |
| `src/net/inet.cpp:312` | peers that differ in the IPv6 scope, or in NULs at the end of an abstract name, are one key | `KeysAreExact` without its exceptions |

The passing runs therefore say: with these exceptions, which their constants leave
out, the property holds.

## 5. The proofs

Each theorem holds for every value of the constants that satisfies the `ASSUME` of its
module, which TLC evaluates in every run; further hypotheses are named below. Each proof
that an invariant is kept has a step for every action of `Next`.

**`LoopExecutor_proofs`**, for any clients, tasks and bounds. `TypeCorrect` needs nothing
more. The others assume that one client `c` is the only thread that calls `start()` and
`stop()` (`StartCallers = {c}`, `StopCallers = {c}`), since section 4 shows what goes wrong
otherwise: `IoWakeupsReachTheExecutor`, `HeavyWakeupsReachTheExecutor`,
`StoppedLoopIsQuiet` (no executor is alive once `stop()` has returned; in no run),
`HandlesAreSafe` (`ThreadHandlesSafe`, and that no two threads join one handle), and the
refinements `IoImplementsFifo` and `HeavyImplementsFifo`. None of these is inductive.
`LifeInv(c)` ties `exe_state_` to the program point of `c`, to which threads exist and
which handles are joinable: a second io thread would swap queues under the first.
`IoQueueInv` and `HeavyQueueInv` say that the exe queue is empty outside the loop over
it, since a swap with a queue that is not empty would bring old tasks back. `IoOrder` and
`HeavyOrder` place the posted tasks: those that ran, then those in the exe queue, then
those in the buffer.

**`StreamBuffer_proofs`**, for every initial size, threshold, set of pieces and bound on
unread bytes: `TypeCorrect`, `CapacityIsBounded`, `ImplementsByteQueue`,
`OperationsAreExact`. `HeadAtMostHalf` makes the capacity inductive: a growing `insert`
makes it `reader_` plus the unread bytes, which is bounded only because the compaction in
`pop` keeps `reader_` in the first half. The refinements rest on lemmas about one
`Overlay` appending to the window of unread bytes, and on a `readv` being two of them.

**`LoopEvents_proofs`**, for any files, numbers, channels, table sizes and batches, with
failing `close()` and `epoll_ctl()` and foreign descriptors: `TypeCorrect`, `TasksActOnTheirFile`,
`TableIsLargeEnough`, `EventsReachTheirFile`, `EdgesAreKept`, `TableAgreesWithKernel`,
`CallbacksAreWatched`. The argument is about the tasks that wait, those of the batch and
those behind it, as one sequence to which a step adds at the end or from which it takes
the first (`TaskInv`): the tasks of a file begin with its register task unless that has
run, end with its unregister task, and until then the number is not free, so it cannot be
reused. `BatchInv` divides the events of a batch into current ones and outdated ones,
whose number has no live callback and gets none before the batch ends: a new owner of the
number can only post, and what it posts runs after the next `epoll_wait`. In front of the
wake event all are current, since only tasks close descriptors. `TableInv` lets an entry
that a failed `close()` left behind be wrong about the kernel, as long as its callback is
dead.

**`Timer_proofs`**, for any timeouts, clock resolution and number of tasks below the
number of ids: `TypeCorrect` (with it, `top()` is never taken of an empty queue),
`TimerIsArmed`, `UnitsAreUnique`, `TasksAreNotEarly`, `CancelsHold`. `UnitInv` says that
an id has one unit, with a time stamp not before its due time; `PostInv` that a post task
that waits is the first task of its id, so that a cancel cannot be overtaken by its own
post; `CancelInv` that a cancelled id is remembered as long as it has a unit. The last
needs the first: the id is forgotten with the first unit that is dropped.

**`StreamClient_proofs`**, for any messages, errors, bounds and room in the kernel. For
every use: `TypesAreKept` (`TypeOK`, which no run checks), `UnitsAreSentInOrder`, whatever
the two threads interleave, and `FramesAreCutRight`:
until the connection breaks (`Unbroken`), what is handed on is the peer's stream from its
beginning, the first conjunct of `FramesBeforeDisconnect`. The others are
about two ways to use a client, since section 4 shows that they fail for others: `Tcp` (the application
calls `connect()` once, callbacks may call it again, `connect(2)` takes its time) and
`Local` (`connect(2)` succeeds at once; the application calls `connect()` until it
succeeds, then `stop()` and `start()` at any time); `Usage` is either.

- `InputIsAlwaysHandled` and, with resets as the only error,
  `LostConnectionIsAlwaysReported`, for `Usage`; `WaitingDataIsWatchedOverTcp` for `Tcp`. The
  first two except what follows an overlap of two updates (`raced`), which the first
  rows of section 4 show to be necessary; the third does not need it, since no update
  that the io thread computes while data waits lacks the write event.
  The event types of the socket are in four places: the update that a thread is about to
  post or to store, `event_types_`, the tasks that wait, and the entry of the loop.
  `UpdateInv` says what an update computed on the io thread has to do with `send_buf_`,
  and that two at a time are an overlap. `UpInv` says of a client that is up what the
  tasks will make of the entry (`StreamAfter`, `MaskAfter`), with `ReadInv` for the read
  event without an overlap and `WriteInv` for the write event in any case, and, when no
  task will touch it, that what there is to read or write is being reported. That a
  client is up, or that a step that would make it so is alone, follows from the program
  points: `TcpInv` and `LocalInv` say where `app` can be while the io thread is somewhere
  (`Fresh`: nothing was registered yet), and how a stack of nested steps looks (`Shaped`:
  what may stand before what). The two uses have little in common here: over TCP the io
  thread does everything but the first part of `connect()`; with a local socket
  `start()` on `app` competes with the callbacks.
- `EndComesLast` (`FramesBeforeDisconnect` until the connection breaks) for `Usage`, and so
  `NothingIsMissing` (`FramesBeforeDisconnect` for good) where none does (`NetErrors = {}`).
  `FlowInv` keeps `frames`, `recv_buf_` and the socket's input one sequence without gaps;
  by `PhasesInv` what was read is split before the end is reported. `OutcomeInv` ties what
  was reported last to the socket and to what was read. It is inductive only as long
  as no leftover of an earlier attempt meets a new one (`Orderly`); that either use
  guarantees this is shown from its invariant.

**`StreamServer_proofs`**, for any connections, descriptor numbers, messages, errors,
calls, frame lengths and room in the kernel: `TypeCorrect`, `SessionsAreAlive`,
`TableIsRight`, `StreamsAreKept`, `SendingGoesOn` (`WaitingDataIsWatched`, which says
nothing of a session that was stopped, also when it was started again), for one thread
that calls `start()` and `stop()` of the server (`Callers = {t}`) `BacklogIsServed`, and, with
resets as the only error, `NothingLeaks` (`NoLeak`). `RefInv` and `FdInv` say that what
is referred to exists and that open connections have different numbers; `TaskInv` that an
unregister task belongs to a session that is gone and an erase task to one that was
stopped or is gone. From these `TableInv` follows through the reuse of a number: the
number is free only after the unregister task, and the queue is in order. `StreamInv`
carries the peer's units through the frames, `recv_buf_` and the socket as one ascending
sequence (`Flow`), and the sent units through the kernel and `send_buf_`. `PhaseInv` says
which phases a callback still has before it, and that it is closing only when the
connection has ended. `ListenInv` says of a started server with no thread inside a call that the listening
socket is watched or that the last task about it will watch it; `CallerInv(t)` says what
the remaining steps of the only caller have to do with the flag, so that this is so
again when the call returns. `OwnedInv` says of a session who
still refers to it, and of an open connection that it has a session or an unregister task;
`ServerInv` that the table goes with the server. `WatchInv` is what `UpInv` is for the
client: the last task that touches the entry of a served session carries the types that
`obj[c].types` has, or there is none, the entry has them, and what is ready is being
reported. An earlier form of `SessionStreams`
claimed frames without gaps in every case; its proof failed at a write error, and TLC
then gave the behaviour in section 4.

**`UdpSocket_proofs`**, for any peers, groups and timeouts: `TypeCorrect` and
`SessionsAreKept`, the refinement of `SessionLease`, for any calling threads; for one
calling thread (`Callers = {t}`) `NoDatagramIsForgotten` and `NoSessionLingers`. The
refinement needs `LeaseInv` (a time stamp is never older than the silence of its peer,
unless a datagram of the peer waits) and `GoneInv` (an object that is gone has no
sessions and is in no callback). The other two need `WatchInv(t)` (flag and tasks of a
channel agree, or `t` is between the two), `ReadyInv` and `ScanInv` (the age of a session
plus the time to the next scan stays below timeout plus interval).

**`InetAddr_proofs`**, for any ips, scopes, radix, bytes and lengths:
`AddressesComeBack`, `AddressesAreKeys`. `SlotInv` says what an address was made from;
the work is in lemmas about stripping NULs, byte order and names.

Only model-checked:

- every property that needs fairness (`IoTaskRuns`, `HeavyTaskRuns`, `StopJoinsIo`,
  `DeadlinesAreMet`, `ConnectResolves`, `DataIsWritten`, and the violated `StopReturns`):
  the prover has no rule for `ENABLED`;
- what the theorems with hypotheses leave out: a client used otherwise than `Usage` says,
  two controlling threads of the loop, of a server or of a datagram socket, errors that
  `readv` consumes. There the properties are false, and section 4 has the instances.

Every other invariant, action property and refinement that a passing run checks is also
a theorem.

## 6. Not modelled

- `Log`: file output under one mutex; rotation counts lines.
- `sys_error`: `error()` logs `errno`; `fatal()` throws `std::system_error`, which no
  executor catches, so the process ends. Steps that would end in it (a failing
  `epoll_create1` or `epoll_wait`, or a failing access to an eventfd or a `timerfd`) are taken
  to succeed.
- A failing `epoll_ctl` in `enable_fd` or `disable_fd` (`src/core.cpp:262`) is not fatal: it is
  logged, and the entry stays. `LoopEvents` has it; the socket modules and the timer take
  it, and `timerfd_settime`, to succeed, since a watch that was not installed would make
  any promise of theirs void.
- Socket options and the text of addresses: system calls without state of the library.
  A factory's effect on the loop is in `LoopEvents`.
- Callbacks that are not set, in the stream client and server: they make a handler return
  early and change nothing else. `UdpSocket` has them, since `read_cb_` decides there
  whether a time stamp is refreshed.
- The destructor and the setters of the stream client. The lifetimes that are shared
  between threads are in `StreamServer` and `UdpSocket`; the client has one owner.
- The hand-over of a client's frames to the heavy executor; `StreamServer` has that of a session.
- `user_context_` of a session: a `std::shared_ptr<void>` of the application.
- The error branch of the listening socket (`src/net/inet.cpp:1075`), which logs the
  error and calls `stop()` on the io thread. It is one more caller of `stop()`, and the
  theorem about the backlog is for one caller; section 4 has what two can do.
- `cleanup_path` of Unix sockets: files outside the process.
- Payloads of datagrams, and the loss of a datagram in `dgram_send` on EAGAIN, which
  the code accepts silently and which no property could tell from loss in the network.
- `kOneShot`, which no part of the library uses.
- Examples and tests: read as the reference for how the library is meant to be used.

## 7. Plan

Done, in this order: the executors and their proofs, the buffer and its proofs,
descriptors and channels, the timer, the stream client, the stream server, the
datagram sockets, addresses; then the proofs about all of them, the stream client last.

1. An abstract descriptor table that `LoopEvents` implements, in place of what the socket
   modules assume of the loop.
2. The client composed with a heavy queue: `disconnect_cb_` against fragments still
   queued.

----------------------------- MODULE LoopExecutor -----------------------------
(***************************************************************************)
(* The two executors of kzevent::core::Loop (src/src/core.cpp): the io     *)
(* thread that sleeps in epoll_wait, the heavy thread that sleeps on a     *)
(* condition variable, their double-buffered task queues, and start(),     *)
(* stop() and ~Loop(), which launch, wake and join the two threads.        *)
(*                                                                         *)
(* Every step is what one thread does between two points where another     *)
(* thread can interfere: an access to the atomic exe_state_, a critical    *)
(* section of a queue mutex, a system call, a join.  A thread that is not  *)
(* an executor may call the Loop at any time; an executor may call it from *)
(* inside a task or an event callback.                                     *)
(***************************************************************************)
EXTENDS Naturals, Sequences, FiniteSets

CONSTANTS
  Clients,            \* the threads of the program that are not executors
  IoTasks,            \* tasks for post_io_task, each posted at most once
  HeavyTasks,         \* tasks for post_heavy_task, each posted at most once
  StartCallers,       \* the threads that may call start()
  StopCallers,        \* the threads that may call stop()
  StartWhileRunning,  \* may start() be called on a running loop?
  MaxStarts,          \* bound on the number of start() calls
  MaxStops            \* bound on the number of stop() calls

Io    == "io_thread"
Heavy == "heavy_thread"
Threads == Clients \cup {Io, Heavy}

ASSUME ThreadsAssumption ==
  /\ Io \notin Clients /\ Heavy \notin Clients
  /\ StartCallers \subseteq Threads /\ StopCallers \subseteq Threads
ASSUME BoundsAssumption ==
  MaxStarts \in Nat /\ MaxStops \in Nat /\ StartWhileRunning \in BOOLEAN

VARIABLES
  exe_state,      \* exe_state_: "Stopped", "Running" or "Stopping"
  io_joinable,    \* io_thread_.joinable()
  heavy_joinable, \* heavy_thread_.joinable()
  io_pc,          \* where the io executor is
  heavy_pc,       \* where the heavy executor is
  call,           \* per thread: the step of the Loop method it is inside
  dying,          \* "no", "dying" inside ~Loop(), "dead" after it
  io_buffer_queue, io_exe_queue, io_next,
  heavy_buffer_queue, heavy_exe_queue, heavy_next,
  wake_fd,        \* is the counter of io_wake_fd_ above 0?
  wake_ready,     \* is io_wake_fd_ on epoll's (edge-triggered) ready list?
  io_evs,         \* events of the current epoll_wait batch not yet scanned
  starts, stops,  \* calls of start() and stop() made so far
  io_posted, io_ran, heavy_posted, heavy_ran   \* history

lifeVars  == <<exe_state, io_joinable, heavy_joinable, dying, starts, stops>>
ioVars    == <<io_pc, io_buffer_queue, io_exe_queue, io_next, wake_fd,
               wake_ready, io_evs, io_posted, io_ran>>
heavyVars == <<heavy_pc, heavy_buffer_queue, heavy_exe_queue, heavy_next,
               heavy_posted, heavy_ran>>
vars == <<lifeVars, ioVars, heavyVars, call>>

(***************************************************************************)
(* Program points.                                                         *)
(***************************************************************************)
IoPcs == {"none", "while", "epoll_wait", "scan", "drain", "swap", "run",
          "task", "callback", "exited"}
HeavyPcs == {"none", "while", "lock", "predicate", "block", "waiting", "run",
             "task", "exited"}
StartPcs == {"start_io", "start_join_io", "start_heavy", "start_join_heavy",
             "start_cas", "start_spawn_io", "start_assign_io",
             "start_spawn_heavy", "start_assign_heavy"}
StopPcs == {"stop_cas", "stop_io", "stop_wake_io", "stop_join_io",
            "stop_heavy", "stop_wake_heavy", "stop_join_heavy", "stop_end",
            "destroy"}
CallPcs == {"none", "post_io_wake", "post_heavy_notify"}
             \cup StartPcs \cup StopPcs

IoDown    == io_pc \in {"none", "exited"}
HeavyDown == heavy_pc \in {"none", "exited"}

Goto(t, pc) == call' = [call EXCEPT ![t] = pc]

\* A thread can enter a Loop method: an executor only from user code that it
\* runs, anyone else whenever the loop is not being destroyed.
MayCall(t) ==
  /\ call[t] = "none"
  /\ \/ t = Io /\ io_pc \in {"task", "callback"}
     \/ t = Heavy /\ heavy_pc = "task"
     \/ t \in Clients /\ dying = "no"

\* heavy_queue_mtx_ is held by the heavy executor from the evaluation of the
\* wait predicate until it blocks or has swapped the queues.
HeavyMtxFree == heavy_pc \notin {"predicate", "block"}

-------------------------------------------------------------------------------
(***************************************************************************)
(* Loop::Loop()                                                            *)
(***************************************************************************)
Init ==
  /\ exe_state = "Stopped"
  /\ io_joinable = FALSE /\ heavy_joinable = FALSE
  /\ io_pc = "none" /\ heavy_pc = "none"
  /\ call = [t \in Threads |-> "none"]
  /\ dying = "no"
  /\ io_buffer_queue = <<>> /\ io_exe_queue = <<>> /\ io_next = 1
  /\ heavy_buffer_queue = <<>> /\ heavy_exe_queue = <<>> /\ heavy_next = 1
  /\ wake_fd = FALSE /\ wake_ready = FALSE /\ io_evs = <<>>
  /\ starts = 0 /\ stops = 0
  /\ io_posted = <<>> /\ io_ran = <<>>
  /\ heavy_posted = <<>> /\ heavy_ran = <<>>

(***************************************************************************)
(* post_io_task: push under io_queue_mtx_, then write the eventfd.         *)
(***************************************************************************)
post_io_task(t, task) ==
  /\ MayCall(t)
  /\ \A i \in 1..Len(io_posted) : io_posted[i] # task
  /\ io_buffer_queue' = Append(io_buffer_queue, task)
  /\ io_posted' = Append(io_posted, task)
  /\ Goto(t, "post_io_wake")
  /\ UNCHANGED <<lifeVars, heavyVars, io_pc, io_exe_queue, io_next, wake_fd,
                 wake_ready, io_evs, io_ran>>

\* A write makes the counter positive and is an edge for epoll.
WriteWakeFd == wake_fd' = TRUE /\ wake_ready' = TRUE

\* Mutant: no write while the executor is busy with a batch of tasks.
wake_io_up_IfIdle(t) ==
  /\ call[t] = "post_io_wake"
  /\ IF io_exe_queue = <<>> THEN WriteWakeFd
                            ELSE UNCHANGED <<wake_fd, wake_ready>>
  /\ Goto(t, "none")
  /\ UNCHANGED <<lifeVars, heavyVars, io_pc, io_buffer_queue, io_exe_queue,
                 io_next, io_evs, io_posted, io_ran>>

wake_io_up(t) ==
  /\ call[t] = "post_io_wake"
  /\ WriteWakeFd
  /\ Goto(t, "none")
  /\ UNCHANGED <<lifeVars, heavyVars, io_pc, io_buffer_queue, io_exe_queue,
                 io_next, io_evs, io_posted, io_ran>>

(***************************************************************************)
(* post_heavy_task: push under heavy_queue_mtx_, then notify_one.          *)
(***************************************************************************)
HeavyPush(t, task) ==
  /\ heavy_buffer_queue' = Append(heavy_buffer_queue, task)
  /\ heavy_posted' = Append(heavy_posted, task)
  /\ Goto(t, "post_heavy_notify")
  /\ UNCHANGED <<lifeVars, ioVars, heavy_pc, heavy_exe_queue, heavy_next,
                 heavy_ran>>

\* Mutant: the push is not protected by heavy_queue_mtx_.
post_heavy_task_Unlocked(t, task) ==
  /\ MayCall(t)
  /\ \A i \in 1..Len(heavy_posted) : heavy_posted[i] # task
  /\ HeavyPush(t, task)

post_heavy_task(t, task) ==
  /\ MayCall(t)
  /\ \A i \in 1..Len(heavy_posted) : heavy_posted[i] # task
  /\ HeavyMtxFree
  /\ HeavyPush(t, task)

\* notify_one reaches the heavy executor only if it is already waiting.
NotifyHeavy ==
  heavy_pc' = IF heavy_pc = "waiting" THEN "lock" ELSE heavy_pc

\* Mutant: the push is not followed by notify_one.
wake_heavy_up_Missing(t) ==
  /\ call[t] = "post_heavy_notify"
  /\ Goto(t, "none")
  /\ UNCHANGED <<lifeVars, ioVars, heavyVars>>

wake_heavy_up(t) ==
  /\ call[t] = "post_heavy_notify"
  /\ NotifyHeavy
  /\ Goto(t, "none")
  /\ UNCHANGED <<lifeVars, ioVars, heavy_buffer_queue, heavy_exe_queue,
                 heavy_next, heavy_posted, heavy_ran>>

-------------------------------------------------------------------------------
(***************************************************************************)
(* Loop::start()                                                           *)
(***************************************************************************)
start(t) ==
  /\ MayCall(t) /\ t \in StartCallers
  /\ starts < MaxStarts
  /\ StartWhileRunning \/ exe_state # "Running"
  /\ starts' = starts + 1
  /\ Goto(t, "start_io")
  /\ UNCHANGED <<ioVars, heavyVars, exe_state, io_joinable, heavy_joinable,
                 dying, stops>>

\* `if (io_thread_.joinable())`; on the io thread itself start() fails.
StartTestIo(t) ==
  /\ call[t] = "start_io"
  /\ Goto(t, IF ~io_joinable THEN "start_heavy"
             ELSE IF t = Io THEN "none" ELSE "start_join_io")
  /\ UNCHANGED <<lifeVars, ioVars, heavyVars>>

StartJoinIo(t) ==
  /\ call[t] = "start_join_io"
  /\ io_joinable /\ io_pc = "exited"
  /\ io_joinable' = FALSE
  /\ exe_state' = "Stopped"
  /\ Goto(t, "start_heavy")
  /\ UNCHANGED <<ioVars, heavyVars, heavy_joinable, dying, starts, stops>>

\* Mutant: start() cleans up the io thread only.
StartTestHeavy_Skipped(t) ==
  /\ call[t] = "start_heavy"
  /\ Goto(t, "start_cas")
  /\ UNCHANGED <<lifeVars, ioVars, heavyVars>>

StartTestHeavy(t) ==
  /\ call[t] = "start_heavy"
  /\ Goto(t, IF ~heavy_joinable THEN "start_cas"
             ELSE IF t = Heavy THEN "none" ELSE "start_join_heavy")
  /\ UNCHANGED <<lifeVars, ioVars, heavyVars>>

StartJoinHeavy(t) ==
  /\ call[t] = "start_join_heavy"
  /\ heavy_joinable /\ heavy_pc = "exited"
  /\ heavy_joinable' = FALSE
  /\ exe_state' = "Stopped"
  /\ Goto(t, "start_cas")
  /\ UNCHANGED <<ioVars, heavyVars, io_joinable, dying, starts, stops>>

\* compare_exchange_strong(Stopped, Running), or return false.
StartCas(t) ==
  /\ call[t] = "start_cas"
  /\ IF exe_state = "Stopped"
       THEN exe_state' = "Running" /\ Goto(t, "start_spawn_io")
       ELSE UNCHANGED exe_state /\ Goto(t, "none")
  /\ UNCHANGED <<ioVars, heavyVars, io_joinable, heavy_joinable, dying,
                 starts, stops>>

\* `io_thread_ = std::thread{...}`: the new thread runs before the assignment
\* makes the handle joinable.
StartSpawnIo(t) ==
  /\ call[t] = "start_spawn_io"
  /\ io_pc' = "while"
  /\ Goto(t, "start_assign_io")
  /\ UNCHANGED <<lifeVars, heavyVars, io_buffer_queue, io_exe_queue, io_next,
                 wake_fd, wake_ready, io_evs, io_posted, io_ran>>

StartAssignIo(t) ==
  /\ call[t] = "start_assign_io"
  /\ io_joinable' = TRUE
  /\ Goto(t, "start_spawn_heavy")
  /\ UNCHANGED <<ioVars, heavyVars, exe_state, heavy_joinable, dying, starts,
                 stops>>

StartSpawnHeavy(t) ==
  /\ call[t] = "start_spawn_heavy"
  /\ heavy_pc' = "while"
  /\ Goto(t, "start_assign_heavy")
  /\ UNCHANGED <<lifeVars, ioVars, heavy_buffer_queue, heavy_exe_queue,
                 heavy_next, heavy_posted, heavy_ran>>

StartAssignHeavy(t) ==
  /\ call[t] = "start_assign_heavy"
  /\ heavy_joinable' = TRUE
  /\ Goto(t, "none")
  /\ UNCHANGED <<ioVars, heavyVars, exe_state, io_joinable, dying, starts,
                 stops>>

-------------------------------------------------------------------------------
(***************************************************************************)
(* Loop::stop() and Loop::~Loop()                                          *)
(***************************************************************************)
stop(t) ==
  /\ MayCall(t) /\ t \in StopCallers
  /\ stops < MaxStops
  /\ stops' = stops + 1
  /\ Goto(t, "stop_cas")
  /\ UNCHANGED <<ioVars, heavyVars, exe_state, io_joinable, heavy_joinable,
                 dying, starts>>

\* ~Loop() calls stop() first.  No other client may be using the loop.
Destroy(t) ==
  /\ MayCall(t) /\ t \in Clients \cap StopCallers
  /\ \A u \in Clients : call[u] = "none"
  /\ stops < MaxStops
  /\ stops' = stops + 1
  /\ dying' = "dying"
  /\ Goto(t, "stop_cas")
  /\ UNCHANGED <<ioVars, heavyVars, exe_state, io_joinable, heavy_joinable,
                 starts>>

\* compare_exchange_strong(Running, Stopping); a failure is only logged.
StopCas(t) ==
  /\ call[t] = "stop_cas"
  /\ exe_state' = IF exe_state = "Running" THEN "Stopping" ELSE exe_state
  /\ Goto(t, "stop_io")
  /\ UNCHANGED <<ioVars, heavyVars, io_joinable, heavy_joinable, dying,
                 starts, stops>>

StopTestIo(t) ==
  /\ call[t] = "stop_io"
  /\ Goto(t, IF ~io_joinable THEN "stop_heavy"
             ELSE IF t = Io THEN "none" ELSE "stop_wake_io")
  /\ UNCHANGED <<lifeVars, ioVars, heavyVars>>

\* Mutant: stop() joins the io thread without waking it.
StopWakeIo_Missing(t) ==
  /\ call[t] = "stop_wake_io"
  /\ Goto(t, "stop_join_io")
  /\ UNCHANGED <<lifeVars, ioVars, heavyVars>>

StopWakeIo(t) ==
  /\ call[t] = "stop_wake_io"
  /\ WriteWakeFd
  /\ Goto(t, "stop_join_io")
  /\ UNCHANGED <<lifeVars, heavyVars, io_pc, io_buffer_queue, io_exe_queue,
                 io_next, io_evs, io_posted, io_ran>>

StopJoinIo(t) ==
  /\ call[t] = "stop_join_io"
  /\ io_joinable /\ io_pc = "exited"
  /\ io_joinable' = FALSE
  /\ Goto(t, "stop_heavy")
  /\ UNCHANGED <<ioVars, heavyVars, exe_state, heavy_joinable, dying, starts,
                 stops>>

StopTestHeavy(t) ==
  /\ call[t] = "stop_heavy"
  /\ Goto(t, IF ~heavy_joinable THEN "stop_end"
             ELSE IF t = Heavy THEN "none" ELSE "stop_wake_heavy")
  /\ UNCHANGED <<lifeVars, ioVars, heavyVars>>

StopWakeHeavy(t) ==
  /\ call[t] = "stop_wake_heavy"
  /\ NotifyHeavy
  /\ Goto(t, "stop_join_heavy")
  /\ UNCHANGED <<lifeVars, ioVars, heavy_buffer_queue, heavy_exe_queue,
                 heavy_next, heavy_posted, heavy_ran>>

StopJoinHeavy(t) ==
  /\ call[t] = "stop_join_heavy"
  /\ heavy_joinable /\ heavy_pc = "exited"
  /\ heavy_joinable' = FALSE
  /\ Goto(t, "stop_end")
  /\ UNCHANGED <<ioVars, heavyVars, exe_state, io_joinable, dying, starts,
                 stops>>

StopEnd(t) ==
  /\ call[t] = "stop_end"
  /\ exe_state' = "Stopped"
  /\ Goto(t, IF dying = "dying" /\ t \in Clients THEN "destroy" ELSE "none")
  /\ UNCHANGED <<ioVars, heavyVars, io_joinable, heavy_joinable, dying,
                 starts, stops>>

\* ... then joins, without a wake-up, whatever is still joinable.
DestroyJoin(t) ==
  /\ call[t] = "destroy"
  /\ io_joinable => io_pc = "exited"
  /\ heavy_joinable => heavy_pc = "exited"
  /\ io_joinable' = FALSE /\ heavy_joinable' = FALSE
  /\ exe_state' = IF io_joinable \/ heavy_joinable THEN "Stopped"
                  ELSE exe_state
  /\ dying' = "dead"
  /\ Goto(t, "none")
  /\ UNCHANGED <<ioVars, heavyVars, starts, stops>>

-------------------------------------------------------------------------------
(***************************************************************************)
(* Loop::io_executor()                                                     *)
(***************************************************************************)
IoWhile ==
  /\ io_pc = "while"
  /\ io_pc' = IF exe_state = "Running" THEN "epoll_wait" ELSE "exited"
  /\ UNCHANGED <<lifeVars, heavyVars, call, io_buffer_queue, io_exe_queue,
                 io_next, wake_fd, wake_ready, io_evs, io_posted, io_ran>>

\* The kernel reports io_wake_fd_ when it is on the ready list and readable,
\* together with at most one event of another descriptor, in either order.
WakeReadable == wake_ready /\ wake_fd

IoWaitWake ==
  /\ io_pc = "epoll_wait" /\ WakeReadable
  /\ io_evs' \in {<<"wake">>, <<"wake", "fd">>, <<"fd", "wake">>}
  /\ wake_ready' = FALSE
  /\ io_pc' = "scan"
  /\ UNCHANGED <<lifeVars, heavyVars, call, io_buffer_queue, io_exe_queue,
                 io_next, wake_fd, io_posted, io_ran>>

\* Another descriptor alone, or EINTR (an empty batch, then `continue`).
IoWaitOther ==
  /\ io_pc = "epoll_wait" /\ ~WakeReadable
  /\ io_evs' \in {<<"fd">>, <<>>}
  /\ wake_ready' = FALSE
  /\ io_pc' = "scan"
  /\ UNCHANGED <<lifeVars, heavyVars, call, io_buffer_queue, io_exe_queue,
                 io_next, wake_fd, io_posted, io_ran>>

\* One turn of the scan: the wake event goes to the drain, any other event to
\* its callback, and the end of the batch back to the loop condition.
IoScan ==
  /\ io_pc = "scan"
  /\ io_pc' = IF io_evs = <<>> THEN "while"
              ELSE IF Head(io_evs) = "wake" THEN "drain" ELSE "callback"
  /\ io_evs' = IF io_evs = <<>> THEN <<>> ELSE Tail(io_evs)
  /\ UNCHANGED <<lifeVars, heavyVars, call, io_buffer_queue, io_exe_queue,
                 io_next, wake_fd, wake_ready, io_posted, io_ran>>

\* Read the eventfd until EAGAIN.
IoDrain ==
  /\ io_pc = "drain"
  /\ wake_fd' = FALSE
  /\ io_pc' = "swap"
  /\ UNCHANGED <<lifeVars, heavyVars, call, io_buffer_queue, io_exe_queue,
                 io_next, wake_ready, io_evs, io_posted, io_ran>>

IoSwap ==
  /\ io_pc = "swap"
  /\ io_exe_queue' = io_buffer_queue
  /\ io_buffer_queue' = io_exe_queue
  /\ io_next' = 1
  /\ io_pc' = "run"
  /\ UNCHANGED <<lifeVars, heavyVars, call, wake_fd, wake_ready, io_evs,
                 io_posted, io_ran>>

\* The range-for over io_exe_queue_: enter the next task ...
IoRun ==
  /\ io_pc = "run" /\ io_next <= Len(io_exe_queue)
  /\ io_ran' = Append(io_ran, io_exe_queue[io_next])
  /\ io_next' = io_next + 1
  /\ io_pc' = "task"
  /\ UNCHANGED <<lifeVars, heavyVars, call, io_buffer_queue, io_exe_queue,
                 wake_fd, wake_ready, io_evs, io_posted>>

\* Mutant: the eventfd is read after the tasks and not before the swap.
IoClear_Drains ==
  /\ io_pc = "run" /\ io_next > Len(io_exe_queue)
  /\ io_exe_queue' = <<>>
  /\ io_next' = 1
  /\ wake_fd' = FALSE
  /\ io_pc' = "scan"
  /\ UNCHANGED <<lifeVars, heavyVars, call, io_buffer_queue, wake_ready,
                 io_evs, io_posted, io_ran>>

\* Mutant: io_exe_queue_ is not cleared.
IoClear_Missing ==
  /\ io_pc = "run" /\ io_next > Len(io_exe_queue)
  /\ io_pc' = "scan"
  /\ UNCHANGED <<lifeVars, heavyVars, call, io_buffer_queue, io_exe_queue,
                 io_next, wake_fd, wake_ready, io_evs, io_posted, io_ran>>

\* ... or, after the last one, clear the queue.
IoClear ==
  /\ io_pc = "run" /\ io_next > Len(io_exe_queue)
  /\ io_exe_queue' = <<>>
  /\ io_next' = 1
  /\ io_pc' = "scan"
  /\ UNCHANGED <<lifeVars, heavyVars, call, io_buffer_queue, wake_fd,
                 wake_ready, io_evs, io_posted, io_ran>>

\* User code returns: a task to the range-for, a callback to the scan.
IoReturn ==
  /\ io_pc \in {"task", "callback"} /\ call[Io] = "none"
  /\ io_pc' = IF io_pc = "task" THEN "run" ELSE "scan"
  /\ UNCHANGED <<lifeVars, heavyVars, call, io_buffer_queue, io_exe_queue,
                 io_next, wake_fd, wake_ready, io_evs, io_posted, io_ran>>

-------------------------------------------------------------------------------
(***************************************************************************)
(* Loop::heavy_executor()                                                  *)
(***************************************************************************)
HeavyWhile ==
  /\ heavy_pc = "while"
  /\ heavy_pc' = IF exe_state = "Running" THEN "lock" ELSE "exited"
  /\ UNCHANGED <<lifeVars, ioVars, call, heavy_buffer_queue, heavy_exe_queue,
                 heavy_next, heavy_posted, heavy_ran>>

\* Acquire heavy_queue_mtx_: the other critical sections are single steps.
HeavyLock ==
  /\ heavy_pc = "lock"
  /\ heavy_pc' = "predicate"
  /\ UNCHANGED <<lifeVars, ioVars, call, heavy_buffer_queue, heavy_exe_queue,
                 heavy_next, heavy_posted, heavy_ran>>

\* The wait predicate holds: leave wait(), swap, unlock.
HeavySwap ==
  /\ heavy_pc = "predicate"
  /\ heavy_buffer_queue # <<>> \/ exe_state # "Running"
  /\ heavy_exe_queue' = heavy_buffer_queue
  /\ heavy_buffer_queue' = heavy_exe_queue
  /\ heavy_next' = 1
  /\ heavy_pc' = "run"
  /\ UNCHANGED <<lifeVars, ioVars, call, heavy_posted, heavy_ran>>

\* It does not hold; the thread keeps the mutex until it blocks.
HeavyPredicateFalse ==
  /\ heavy_pc = "predicate"
  /\ heavy_buffer_queue = <<>> /\ exe_state = "Running"
  /\ heavy_pc' = "block"
  /\ UNCHANGED <<lifeVars, ioVars, call, heavy_buffer_queue, heavy_exe_queue,
                 heavy_next, heavy_posted, heavy_ran>>

\* Unlock and become a waiter in one step.
HeavyBlock ==
  /\ heavy_pc = "block"
  /\ heavy_pc' = "waiting"
  /\ UNCHANGED <<lifeVars, ioVars, call, heavy_buffer_queue, heavy_exe_queue,
                 heavy_next, heavy_posted, heavy_ran>>

\* A condition variable may wake without a notification; none is promised.
HeavySpurious ==
  /\ heavy_pc = "waiting"
  /\ heavy_pc' = "lock"
  /\ UNCHANGED <<lifeVars, ioVars, call, heavy_buffer_queue, heavy_exe_queue,
                 heavy_next, heavy_posted, heavy_ran>>

\* Mutant: the tasks are taken from the back.
HeavyRun_Backwards ==
  /\ heavy_pc = "run" /\ heavy_next <= Len(heavy_exe_queue)
  /\ heavy_ran' = Append(heavy_ran,
                   heavy_exe_queue[Len(heavy_exe_queue) + 1 - heavy_next])
  /\ heavy_next' = heavy_next + 1
  /\ heavy_pc' = "task"
  /\ UNCHANGED <<lifeVars, ioVars, call, heavy_buffer_queue, heavy_exe_queue,
                 heavy_posted>>

HeavyRun ==
  /\ heavy_pc = "run" /\ heavy_next <= Len(heavy_exe_queue)
  /\ heavy_ran' = Append(heavy_ran, heavy_exe_queue[heavy_next])
  /\ heavy_next' = heavy_next + 1
  /\ heavy_pc' = "task"
  /\ UNCHANGED <<lifeVars, ioVars, call, heavy_buffer_queue, heavy_exe_queue,
                 heavy_posted>>

\* Mutant: the queue is cleared under a running range-for.
HeavyClear_Early ==
  /\ heavy_pc = "run"
  /\ heavy_exe_queue' = <<>>
  /\ heavy_pc' = "while"
  /\ UNCHANGED <<lifeVars, ioVars, call, heavy_buffer_queue, heavy_next,
                 heavy_posted, heavy_ran>>

HeavyClear ==
  /\ heavy_pc = "run" /\ heavy_next > Len(heavy_exe_queue)
  /\ heavy_exe_queue' = <<>>
  /\ heavy_next' = 1
  /\ heavy_pc' = "while"
  /\ UNCHANGED <<lifeVars, ioVars, call, heavy_buffer_queue, heavy_posted,
                 heavy_ran>>

HeavyReturn ==
  /\ heavy_pc = "task" /\ call[Heavy] = "none"
  /\ heavy_pc' = "run"
  /\ UNCHANGED <<lifeVars, ioVars, call, heavy_buffer_queue, heavy_exe_queue,
                 heavy_next, heavy_posted, heavy_ran>>

-------------------------------------------------------------------------------
\* A thread inside a method of the Loop goes on with it.
CallStep(t) ==
  \/ wake_io_up(t) \/ wake_heavy_up(t)
  \/ StartTestIo(t) \/ StartJoinIo(t) \/ StartTestHeavy(t)
  \/ StartJoinHeavy(t) \/ StartCas(t) \/ StartSpawnIo(t) \/ StartAssignIo(t)
  \/ StartSpawnHeavy(t) \/ StartAssignHeavy(t)
  \/ StopCas(t) \/ StopTestIo(t) \/ StopWakeIo(t) \/ StopJoinIo(t)
  \/ StopTestHeavy(t) \/ StopWakeHeavy(t) \/ StopJoinHeavy(t) \/ StopEnd(t)
  \/ DestroyJoin(t)

\* User code enters a method.
UserStep(t) ==
  \/ \E task \in IoTasks : post_io_task(t, task)
  \/ \E task \in HeavyTasks : post_heavy_task(t, task)
  \/ start(t) \/ stop(t) \/ Destroy(t)

IoStep == \/ IoWhile \/ IoWaitWake \/ IoScan \/ IoDrain \/ IoSwap
          \/ IoRun \/ IoClear \/ IoReturn

HeavyStep == \/ HeavyWhile \/ HeavyLock \/ HeavySwap \/ HeavyPredicateFalse
             \/ HeavyBlock \/ HeavyRun \/ HeavyClear \/ HeavyReturn

Next ==
  \/ \E t \in Threads : CallStep(t) \/ UserStep(t)
  \/ IoStep \/ IoWaitOther
  \/ HeavyStep \/ HeavySpurious

Spec == Init /\ [][Next]_vars

\* Every thread that can move does: the executors, and any thread inside a
\* method of the Loop.  User code need not call the Loop (but a task body
\* returns), the kernel need not report other events or EINTR, and the
\* condition variable need not wake spuriously.
Fairness ==
  /\ WF_vars(IoStep)
  /\ WF_vars(HeavyStep)
  /\ \A t \in Threads : WF_vars(CallStep(t))

FairSpec == Spec /\ Fairness

-------------------------------------------------------------------------------
(***************************************************************************)
(* Properties.                                                             *)
(***************************************************************************)
\* Every variable of the Loop keeps its type; in particular the range-for
\* position of each executor never leaves its queue.
TypeOK ==
  /\ exe_state \in {"Stopped", "Running", "Stopping"}
  /\ io_joinable \in BOOLEAN /\ heavy_joinable \in BOOLEAN
  /\ io_pc \in IoPcs /\ heavy_pc \in HeavyPcs
  /\ call \in [Threads -> CallPcs]
  /\ dying \in {"no", "dying", "dead"}
  /\ io_buffer_queue \in Seq(IoTasks) /\ io_exe_queue \in Seq(IoTasks)
  /\ io_next \in 1..(Len(io_exe_queue) + 1)
  /\ heavy_buffer_queue \in Seq(HeavyTasks)
  /\ heavy_exe_queue \in Seq(HeavyTasks)
  /\ heavy_next \in 1..(Len(heavy_exe_queue) + 1)
  /\ wake_fd \in BOOLEAN /\ wake_ready \in BOOLEAN
  /\ io_evs \in Seq({"wake", "fd"})
  /\ starts \in Nat /\ stops \in Nat
  /\ io_posted \in Seq(IoTasks) /\ io_ran \in Seq(IoTasks)
  /\ heavy_posted \in Seq(HeavyTasks) /\ heavy_ran \in Seq(HeavyTasks)

Elements(seq) == {seq[i] : i \in DOMAIN seq}

\* No io task is ever left without a wake-up: whenever io_buffer_queue_ holds a
\* task, its poster has yet to write the eventfd, or the eventfd is on epoll's
\* ready list, or its event is in the batch being scanned, or the executor is
\* between the event and the swap (eventfd read before the swap, core.cpp).
IoWakeupNotLost ==
  io_buffer_queue # <<>> =>
    \/ \E t \in Threads : call[t] = "post_io_wake"
    \/ WakeReadable
    \/ "wake" \in Elements(io_evs)
    \/ io_pc \in {"drain", "swap"}

\* The heavy executor never goes to sleep, or stays asleep, over a queued task:
\* when it waits on the condition variable and heavy_buffer_queue_ is not
\* empty, a poster is about to call notify_one.
HeavyWakeupNotLost ==
  /\ heavy_pc = "block" => heavy_buffer_queue = <<>>
  /\ heavy_pc = "waiting" /\ heavy_buffer_queue # <<>> =>
       \E t \in Threads : call[t] = "post_heavy_notify"

\* A loop whose state is Stopped executes nothing: with one controlling thread
\* that calls start() and stop(), Stopped means neither executor is alive
\* ("callback executed while loop stopped.", tests/core_test.cpp).
QuietWhenStopped == exe_state = "Stopped" => IoDown /\ HeavyDown

\* The executors, whatever start() and stop() do around them, run the posted
\* tasks one at a time, exactly once, in the order of the posts, also those
\* that a stop() left in the queue for the next start().
IoFifo    == INSTANCE FifoExecutor
               WITH Tasks <- IoTasks, posted <- io_posted, ran <- io_ran
HeavyFifo == INSTANCE FifoExecutor
               WITH Tasks <- HeavyTasks, posted <- heavy_posted,
                    ran <- heavy_ran
IoRunsInPostOrder    == IoFifo!FifoSpec
HeavyRunsInPostOrder == HeavyFifo!FifoSpec

\* start() never launches an executor whose previous thread is alive, and never
\* assigns over a joinable std::thread (which would terminate the program).
ThreadHandlesSafe ==
  \A t \in Threads :
    /\ call[t] = "start_spawn_io" => IoDown
    /\ call[t] = "start_spawn_heavy" => HeavyDown
    /\ call[t] = "start_assign_io" => ~io_joinable
    /\ call[t] = "start_assign_heavy" => ~heavy_joinable

\* No two threads are ever inside join() of the same std::thread.
JoinIsExclusive ==
  \A t, u \in Threads :
    t # u =>
      /\ ~ ({call[t], call[u]} \subseteq {"start_join_io", "stop_join_io"})
      /\ ~ ({call[t], call[u]} \subseteq
              {"start_join_heavy", "stop_join_heavy"})

\* An io task that has been posted runs, unless the loop stops running first;
\* after a restart the promise is renewed for the tasks still queued.
IoTaskRuns ==
  \A task \in IoTasks :
    task \in Elements(io_posted) ~>
      (task \in Elements(io_ran) \/ exe_state # "Running")

\* The same promise of post_heavy_task.
HeavyTaskRuns ==
  \A task \in HeavyTasks :
    task \in Elements(heavy_posted) ~>
      (task \in Elements(heavy_ran) \/ exe_state # "Running")

\* stop() gets past its join of the io thread: the eventfd write wakes the io
\* executor out of epoll_wait and the executor then sees Stopping.
StopJoinsIo ==
  \A t \in Threads : call[t] = "stop_join_io" ~> call[t] # "stop_join_io"

\* A stop() that has been called returns.
StopReturns == \A t \in Threads : call[t] \in StopPcs ~> call[t] \notin StopPcs

\* A start() that has been called returns.
StartReturns ==
  \A t \in Threads : call[t] \in StartPcs ~> call[t] \notin StartPcs
===============================================================================

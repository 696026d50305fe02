--------------------------------- MODULE Timer ---------------------------------
(***************************************************************************)
(* kzevent::timer::Timer (timer.hpp, timer.cpp): a priority queue of       *)
(* deadlines served by one timerfd.  Every access to the queue is an io    *)
(* task or the callback of the timerfd, both on the io thread; cancelling  *)
(* is lazy.                                                                *)
(*                                                                         *)
(* The clock counts nanoseconds, Ms of which are a millisecond.  It can    *)
(* advance between any two steps, also inside a task or the callback,      *)
(* because the code reads it more than once.                               *)
(***************************************************************************)
EXTENDS Integers, Sequences

CONSTANTS
  Ms,        \* nanoseconds per millisecond
  Timeouts,  \* the timeouts (in ms) that are posted
  IdMod,     \* timer ids are counted modulo IdMod (2^64 in the code)
  MaxPosts,  \* bound on the number of posted timer tasks
  MaxTasks,  \* bound on the io tasks waiting in the queue
  MaxTime    \* bound on the clock

ASSUME TimerAssumption ==
  /\ Ms \in Nat \ {0} /\ Timeouts \subseteq Nat
  /\ IdMod \in Nat /\ MaxPosts \in Nat /\ MaxPosts < IdMod
  /\ MaxTasks \in Nat /\ MaxTime \in Nat

VARIABLES
  now,             \* steady_clock::now(), CLOCK_MONOTONIC
  timer_id_start,  \* timer_id_start_
  io_tasks,        \* the timer's tasks in the io queue
  timer_queue,     \* timer_queue_: units [id, time, interval]
  delete_ids,      \* delete_timer_ids_
  armed,           \* when the timerfd expires, or Off
  expired,         \* the timerfd has expired: an edge for epoll
  fetched,         \* its event is in the batch of epoll events
  pc,              \* where the io thread is in the timer's code
  handler_now,     \* the local variable `now` of the callback
  alive,           \* the Timer object exists
  due,             \* ghost: the earliest time id may be executed
  fired,           \* ghost: how often id was handed to the heavy executor
  cancelled        \* ghost: the ids whose cancel task has been executed

clockVars == <<now, armed, expired>>
postVars  == <<timer_id_start, io_tasks>>
ghosts    == <<due, fired, cancelled>>
vars == <<clockVars, postVars, timer_queue, delete_ids, fetched, pc,
          handler_now, alive, ghosts>>

Ids == 1..(IdMod - 1)
Off == -1

\* timer_queue_.top(): a unit with the least time stamp.
IsTop(u) == u \in timer_queue /\ \A v \in timer_queue : u.time <= v.time

Init ==
  /\ now = 0 /\ armed = Off /\ expired = FALSE /\ fetched = FALSE
  /\ timer_id_start = 0 /\ io_tasks = <<>>
  /\ timer_queue = {} /\ delete_ids = {}
  /\ pc = "idle" /\ handler_now = 0
  /\ alive = TRUE
  /\ due = [id \in Ids |-> 0] /\ fired = [id \in Ids |-> 0]
  /\ cancelled = {}

-------------------------------------------------------------------------------
(***************************************************************************)
(* The clock and the timerfd.                                              *)
(***************************************************************************)
Tick ==
  /\ now < MaxTime
  /\ now' = now + 1
  /\ UNCHANGED <<armed, expired, postVars, timer_queue, delete_ids, fetched,
                 pc, handler_now, alive, ghosts>>

\* The timerfd expires; MaxTime stands for every later time.
Expire ==
  /\ armed # Off
  /\ armed <= now \/ now = MaxTime
  /\ armed' = Off
  /\ expired' = TRUE
  /\ UNCHANGED <<now, postVars, timer_queue, delete_ids, fetched, pc,
                 handler_now, alive, ghosts>>

\* epoll_wait reports the timerfd.
Fetch ==
  /\ pc = "idle" /\ expired /\ ~fetched
  /\ fetched' = TRUE
  /\ expired' = FALSE
  /\ UNCHANGED <<now, armed, postVars, timer_queue, delete_ids, pc,
                 handler_now, alive, ghosts>>

(***************************************************************************)
(* The interface, called by any thread: each call posts one io task.       *)
(***************************************************************************)
\* ++timer_id_start_, which skips 0.
NextId == LET id == (timer_id_start + 1) % IdMod
          IN IF id = 0 THEN 1 ELSE id

Post(timeout, interval) ==
  /\ alive
  /\ timer_id_start < MaxPosts /\ Len(io_tasks) < MaxTasks
  /\ timer_id_start' = NextId
  /\ io_tasks' = Append(io_tasks, [op |-> "post", id |-> NextId,
                                   timeout |-> timeout,
                                   interval |-> interval])
  /\ due' = [due EXCEPT ![NextId] = now + timeout * Ms]
  /\ UNCHANGED <<clockVars, timer_queue, delete_ids, fetched, pc, handler_now,
                 alive, fired, cancelled>>

post_once_task(timeout)   == Post(timeout, 0)
post_repeat_task(timeout) == Post(timeout, timeout)

\* The caller cancels an id that a post has returned.
cancel_task(id) ==
  /\ alive
  /\ id <= timer_id_start /\ Len(io_tasks) < MaxTasks
  /\ io_tasks' = Append(io_tasks, [op |-> "cancel", id |-> id,
                                   timeout |-> 0, interval |-> 0])
  /\ UNCHANGED <<clockVars, timer_id_start, timer_queue, delete_ids, fetched,
                 pc, handler_now, alive, ghosts>>

\* ~Timer(): not inside its own callback or task, which keep it alive.
Destruct ==
  /\ alive /\ pc = "idle"
  /\ alive' = FALSE
  /\ UNCHANGED <<clockVars, postVars, timer_queue, delete_ids, fetched, pc,
                 handler_now, ghosts>>

-------------------------------------------------------------------------------
(***************************************************************************)
(* The io tasks.                                                           *)
(***************************************************************************)
Task == Head(io_tasks)

TakeTask(op) ==
  /\ pc = "idle"
  /\ io_tasks # <<>>
  /\ Task.op = op
  /\ io_tasks' = Tail(io_tasks)

\* Mutant: the timerfd is set only for the first unit of the queue.
RunPost_FirstOnly ==
  /\ alive
  /\ TakeTask("post")
  /\ LET unit == [id |-> Task.id, time |-> now + Task.timeout * Ms,
                  interval |-> Task.interval * Ms]
     IN /\ timer_queue' = timer_queue \cup {unit}
        /\ pc' = IF timer_queue = {} THEN "arm" ELSE "idle"
  /\ UNCHANGED <<clockVars, timer_id_start, delete_ids, fetched, handler_now,
                 alive, ghosts>>

\* Push the unit; when it has the time stamp of the top, set the timerfd.
RunPost ==
  /\ alive
  /\ TakeTask("post")
  /\ LET unit == [id |-> Task.id, time |-> now + Task.timeout * Ms,
                  interval |-> Task.interval * Ms]
     IN /\ timer_queue' = timer_queue \cup {unit}
        /\ pc' = IF \A u \in timer_queue : unit.time <= u.time
                   THEN "arm" ELSE "idle"
  /\ UNCHANGED <<clockVars, timer_id_start, delete_ids, fetched, handler_now,
                 alive, ghosts>>

RunCancel ==
  /\ alive
  /\ TakeTask("cancel")
  /\ delete_ids' = delete_ids \cup {Task.id}
  /\ cancelled' = cancelled \cup {Task.id}
  /\ UNCHANGED <<clockVars, timer_id_start, timer_queue, fetched, pc,
                 handler_now, alive, due, fired>>

\* The LifeChecker of the task does not lock.
DropTask ==
  /\ ~alive
  /\ \E op \in {"post", "cancel"} : TakeTask(op)
  /\ UNCHANGED <<clockVars, timer_id_start, timer_queue, delete_ids, fetched,
                 pc, handler_now, alive, ghosts>>

\* The whole milliseconds of a duration (duration_cast truncates).
WholeMs(duration) == IF duration > 0 THEN duration \div Ms ELSE 0

\* Mutant: a timeout below one millisecond sets it_value to zero.
set_next_wake_time_Zero ==
  /\ pc = "arm"
  /\ \E u \in timer_queue :
       /\ IsTop(u)
       /\ armed' = IF WholeMs(u.time - now) = 0 THEN Off
                   ELSE now + WholeMs(u.time - now) * Ms
  /\ expired' = FALSE
  /\ pc' = "idle"
  /\ UNCHANGED <<now, postVars, timer_queue, delete_ids, fetched, handler_now,
                 alive, ghosts>>

\* timerfd_settime with the whole milliseconds left, or 1 ns; it also forgets
\* an expiration that was not read.
set_next_wake_time ==
  /\ pc = "arm"
  /\ \E u \in timer_queue :
       /\ IsTop(u)
       /\ armed' = now + (IF WholeMs(u.time - now) = 0 THEN 1
                          ELSE WholeMs(u.time - now) * Ms)
  /\ expired' = FALSE
  /\ pc' = "idle"
  /\ UNCHANGED <<now, postVars, timer_queue, delete_ids, fetched, handler_now,
                 alive, ghosts>>

-------------------------------------------------------------------------------
(***************************************************************************)
(* The callback of the timerfd (the task of Timer::start()).               *)
(***************************************************************************)
\* Read the timerfd until EAGAIN, return if there is no unit, read the clock.
HandlerStart ==
  /\ pc = "idle" /\ fetched /\ alive
  /\ fetched' = FALSE
  /\ expired' = FALSE
  /\ IF timer_queue = {}
       THEN UNCHANGED <<pc, handler_now>>
       ELSE pc' = "handler" /\ handler_now' = now
  /\ UNCHANGED <<now, armed, postVars, timer_queue, delete_ids, alive, ghosts>>

\* The LifeChecker of the callback does not lock.
HandlerDead ==
  /\ pc = "idle" /\ fetched /\ ~alive
  /\ fetched' = FALSE
  /\ UNCHANGED <<clockVars, postVars, timer_queue, delete_ids, pc,
                 handler_now, alive, ghosts>>

\* No unit is left: nothing is armed.
HandlerEmpty ==
  /\ pc = "handler" /\ timer_queue = {}
  /\ pc' = "idle"
  /\ UNCHANGED <<clockVars, postVars, timer_queue, delete_ids, fetched,
                 handler_now, alive, ghosts>>

\* The top is in the future.
HandlerRearm ==
  /\ pc = "handler"
  /\ timer_queue # {} /\ \A u \in timer_queue : u.time > handler_now
  /\ pc' = "arm"
  /\ UNCHANGED <<clockVars, postVars, timer_queue, delete_ids, fetched,
                 handler_now, alive, ghosts>>

HandlerTop(u) == pc = "handler" /\ IsTop(u) /\ u.time <= handler_now

\* The top was cancelled.
HandlerDrop(u) ==
  /\ HandlerTop(u)
  /\ u.id \in delete_ids
  /\ delete_ids' = delete_ids \ {u.id}
  /\ timer_queue' = timer_queue \ {u}
  /\ UNCHANGED <<clockVars, postVars, fetched, pc, handler_now, alive, ghosts>>

\* Hand u to the heavy executor; a repeating task is pushed again first.
Fire(u, again) ==
  /\ timer_queue' = (timer_queue \ {u}) \cup again
  /\ fired' = [fired EXCEPT ![u.id] = @ + 1]
  /\ due' = [due EXCEPT ![u.id] = now + u.interval]
  /\ UNCHANGED <<clockVars, postVars, delete_ids, fetched, pc, handler_now,
                 alive, cancelled>>

\* Mutant: the next time stamp is counted from the last one.
HandlerFire_FromStamp(u) ==
  /\ HandlerTop(u)
  /\ u.id \notin delete_ids
  /\ Fire(u, IF u.interval = 0 THEN {}
             ELSE {[u EXCEPT !.time = u.time + u.interval]})

\* Mutant: the cancelled ids are not looked up.
HandlerFire_Cancelled(u) ==
  /\ HandlerTop(u)
  /\ Fire(u, IF u.interval = 0 THEN {}
             ELSE {[u EXCEPT !.time = now + u.interval]})

HandlerFire(u) ==
  /\ HandlerTop(u)
  /\ u.id \notin delete_ids
  /\ Fire(u, IF u.interval = 0 THEN {}
             ELSE {[u EXCEPT !.time = now + u.interval]})

TaskStep  == RunPost \/ RunCancel \/ DropTask
EventStep == Fetch \/ HandlerStart \/ HandlerDead
InnerStep == \/ set_next_wake_time \/ HandlerEmpty \/ HandlerRearm
             \/ \E u \in timer_queue : HandlerDrop(u) \/ HandlerFire(u)

UserStep ==
  \/ \E timeout \in Timeouts :
       post_once_task(timeout) \/ post_repeat_task(timeout)
  \/ \E id \in Ids : cancel_task(id)
  \/ Destruct

Next == Tick \/ Expire \/ TaskStep \/ EventStep \/ InnerStep \/ UserStep

Spec == Init /\ [][Next]_vars

\* Time passes; the kernel reports every descriptor that is ready, and a batch
\* serves both its events and the queued tasks, so neither starves the other.
FairSpec ==
  /\ Spec
  /\ WF_vars(Tick) /\ WF_vars(Expire)
  /\ WF_vars(TaskStep) /\ WF_vars(EventStep) /\ WF_vars(InnerStep)

-------------------------------------------------------------------------------
(***************************************************************************)
(* Properties.                                                             *)
(***************************************************************************)
\* The variables of the Timer keep their types, ids are never 0, and while the
\* timerfd is being set there is a unit to set it for.
TypeOK ==
  /\ now \in 0..MaxTime /\ armed \in Nat \cup {Off}
  /\ expired \in BOOLEAN /\ fetched \in BOOLEAN /\ alive \in BOOLEAN
  /\ timer_id_start \in 0..MaxPosts
  /\ io_tasks \in Seq([op : {"post", "cancel"}, id : Ids, timeout : Nat,
                       interval : Nat])
  /\ timer_queue \subseteq [id : Ids, time : Nat, interval : Nat]
  /\ delete_ids \subseteq Ids /\ cancelled \subseteq Ids
  /\ pc \in {"idle", "arm", "handler"} /\ handler_now \in 0..now
  /\ pc = "arm" => timer_queue # {}
  /\ due \in [Ids -> Nat] /\ fired \in [Ids -> Nat]

\* The timer never falls asleep over a unit: outside of the timer's code, when
\* the queue holds a unit, the timerfd will expire no later than the first
\* deadline (or, when that has passed, within a nanosecond), or its expiration
\* is on its way to the callback.  Truncation to milliseconds, the overwriting
\* of an unread expiration and posts between the event and its callback do not
\* break it.
WakeUpIsSet ==
  pc = "idle" /\ alive =>
    \A u \in timer_queue :
      \/ expired \/ fetched
      \/ armed # Off /\ (armed <= u.time \/ armed <= now + 1)

\* No task runs early: a task is handed to the heavy executor no sooner than
\* its timeout after it was posted, and a repeating one no sooner than its
\* interval after its last execution.
NeverEarly ==
  [][\A id \in Ids : fired'[id] # fired[id] => now >= due[id]]_vars

\* Once the cancel task has been executed, the cancelled task is never handed
\* to the heavy executor again, although its unit stays in the queue.
CancelHolds ==
  [][\A id \in cancelled : fired'[id] = fired[id]]_vars

\* A unit is in the queue at most once, also a repeating one, so that a lazy
\* cancel that erases the id with the unit leaves no second unit behind; a
\* task that has fired and does not repeat has no unit.
OneUnitPerTask ==
  /\ \A u, v \in timer_queue : u.id = v.id => u = v
  /\ \A u \in timer_queue : u.interval = 0 => fired[u.id] = 0
  /\ \A u \in timer_queue, i \in DOMAIN io_tasks :
       io_tasks[i].op = "post" => io_tasks[i].id # u.id

Due(id) == \E u \in timer_queue : u.id = id /\ u.time <= now

\* A unit whose deadline has come is taken out of the queue: it is executed
\* (and, if it repeats, gets a later time) or was cancelled, unless the Timer
\* is destroyed.
DeadlinesAreMet == \A id \in Ids : Due(id) ~> ~Due(id) \/ ~alive
================================================================================

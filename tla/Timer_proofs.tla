----------------------------- MODULE Timer_proofs -----------------------------
(***************************************************************************)
(* Proofs about Timer, for any timeouts, length of a millisecond, number   *)
(* of ids and bound on the clock.                                          *)
(***************************************************************************)
EXTENDS Timer, TLAPS

IoTasks == [op : {"post", "cancel"}, id : Ids, timeout : Nat, interval : Nat]
Units   == [id : Ids, time : Nat, interval : Nat]

\* The tasks that wait are about ids that were given out.  A post is the first
\* task with its id, which has no unit yet, was not executed or cancelled, and
\* is due no later than it will be when the task runs now.
PostInv ==
  \A i \in DOMAIN io_tasks :
    /\ io_tasks[i].id <= timer_id_start
    /\ io_tasks[i].op = "post" =>
         /\ due[io_tasks[i].id] <= now + io_tasks[i].timeout * Ms
         /\ fired[io_tasks[i].id] = 0 /\ io_tasks[i].id \notin cancelled
         /\ \A u \in timer_queue : u.id # io_tasks[i].id
         /\ \A j \in DOMAIN io_tasks : j < i => io_tasks[j].id # io_tasks[i].id

\* An id has one unit, whose time stamp is not before the task may run.
UnitInv ==
  /\ \A u \in timer_queue :
       /\ u.id <= timer_id_start /\ due[u.id] <= u.time
       /\ u.interval = 0 => fired[u.id] = 0
  /\ \A u, v \in timer_queue : u.id = v.id => u = v
  /\ \A id \in Ids : id > timer_id_start => fired[id] = 0

\* A cancelled id is known as such as long as it has a unit.
CancelInv ==
  \A id \in cancelled :
    /\ id <= timer_id_start
    /\ id \in delete_ids \/ \A u \in timer_queue : u.id # id

IInv == TypeOK /\ PostInv /\ UnitInv /\ CancelInv /\ WakeUpIsSet
-------------------------------------------------------------------------------
(***************************************************************************)
(* What the operators of the model give.                                   *)
(***************************************************************************)
\* Ids are given out in order: the bound on the posts keeps ++timer_id_start_
\* from wrapping around.
LEMMA NextIdIsNew ==
  ASSUME timer_id_start \in 0..MaxPosts, timer_id_start < MaxPosts
  PROVE  NextId = timer_id_start + 1 /\ NextId \in Ids /\ NextId \in 0..MaxPosts
<1>1. MaxPosts \in Nat /\ IdMod \in Nat /\ MaxPosts < IdMod
  BY TimerAssumption
<1>2. timer_id_start + 1 \in 1..IdMod - 1
  BY <1>1
<1>3. (timer_id_start + 1) % IdMod = timer_id_start + 1
  BY <1>1, <1>2
<1> QED
  BY <1>1, <1>2, <1>3 DEF NextId, Ids

\* The timerfd is set to the deadline or before it, or a nanosecond from now.
LEMMA WholeMsBelow ==
  ASSUME NEW d \in Int
  PROVE  WholeMs(d) * Ms \in Nat /\ (WholeMs(d) # 0 => WholeMs(d) * Ms <= d)
<1>1. Ms \in Nat /\ Ms > 0
  BY TimerAssumption
<1>2. CASE d > 0
  <2>1. PICK q \in Int : q = d \div Ms
    BY <1>1
  <2>2. q >= 0 /\ q * Ms <= d
    BY <1>1, <1>2, <2>1
  <2>3. q * Ms \in Nat
    BY <1>1, <2>2
  <2> QED
    BY <1>2, <2>1, <2>2, <2>3 DEF WholeMs
<1>3. CASE ~(d > 0)
  BY <1>1, <1>3 DEF WholeMs
<1> QED
  BY <1>2, <1>3

\* A millisecond is a positive number of nanoseconds.
LEMMA Product ==
  ASSUME NEW t \in Nat PROVE t * Ms \in Nat
<1>1. Ms \in Nat
  BY TimerAssumption
<1> QED
  BY <1>1

\* The task that is taken is the first; the others move up.
LEMMA TaskTaken ==
  ASSUME io_tasks \in Seq(IoTasks), NEW op, TakeTask(op)
  PROVE  /\ Task \in IoTasks /\ Task.op = op /\ pc = "idle"
         /\ 1 \in DOMAIN io_tasks /\ io_tasks[1] = Task
         /\ io_tasks' \in Seq(IoTasks)
         /\ \A i \in DOMAIN io_tasks' : /\ i + 1 \in DOMAIN io_tasks /\ 1 < i + 1
                                        /\ io_tasks'[i] = io_tasks[i + 1]
<1>1. io_tasks # <<>> /\ io_tasks' = Tail(io_tasks)
  BY DEF TakeTask
<1>2. io_tasks' \in Seq(IoTasks) /\ Len(io_tasks') = Len(io_tasks) - 1
  BY <1>1
<1>3. \A i \in DOMAIN io_tasks' : /\ i + 1 \in DOMAIN io_tasks /\ 1 < i + 1
                                  /\ io_tasks'[i] = io_tasks[i + 1]
  BY <1>1, <1>2
<1>4. Task \in IoTasks /\ 1 \in DOMAIN io_tasks /\ io_tasks[1] = Task
  BY <1>1 DEF Task
<1> QED
  BY <1>2, <1>3, <1>4 DEF TakeTask

\* A task is posted behind the others.
LEMMA TaskPosted ==
  ASSUME io_tasks \in Seq(IoTasks), NEW task \in IoTasks,
         io_tasks' = Append(io_tasks, task)
  PROVE  /\ io_tasks' \in Seq(IoTasks)
         /\ \A i \in DOMAIN io_tasks :
              i \in DOMAIN io_tasks' /\ io_tasks'[i] = io_tasks[i]
         /\ \A i \in DOMAIN io_tasks' :
              \/ i \in DOMAIN io_tasks
              \/ /\ io_tasks'[i] = task
                 /\ \A j \in DOMAIN io_tasks' : j < i => j \in DOMAIN io_tasks
         /\ \A i \in DOMAIN io_tasks, j \in DOMAIN io_tasks' :
              j < i => j \in DOMAIN io_tasks
  OBVIOUS

-------------------------------------------------------------------------------
(***************************************************************************)
(* The inductive invariant, part by part.                                  *)
(***************************************************************************)
LEMMA TypesInductive == TypeOK /\ [Next]_vars => TypeOK'
<1> SUFFICES ASSUME TypeOK, [Next]_vars PROVE TypeOK'
  OBVIOUS
<1> USE DEF IoTasks
<1>t. /\ now \in 0..MaxTime /\ armed \in Nat \cup {Off}
      /\ expired \in BOOLEAN /\ fetched \in BOOLEAN /\ alive \in BOOLEAN
      /\ timer_id_start \in 0..MaxPosts /\ io_tasks \in Seq(IoTasks)
      /\ timer_queue \subseteq Units
      /\ delete_ids \subseteq Ids /\ cancelled \subseteq Ids
      /\ pc \in {"idle", "arm", "handler"} /\ handler_now \in 0..now
      /\ pc = "arm" => timer_queue # {}
      /\ due \in [Ids -> Nat] /\ fired \in [Ids -> Nat]
  BY DEF TypeOK, Units
<1>a. MaxTime \in Nat /\ MaxPosts \in Nat /\ Timeouts \subseteq Nat
  BY TimerAssumption
<1>1. CASE Tick
  BY <1>1, <1>t, <1>a DEF Tick, TypeOK, postVars, ghosts, Units
<1>2. CASE Expire
  BY <1>2, <1>t DEF Expire, TypeOK, postVars, ghosts, Units
<1>3. CASE Fetch
  BY <1>3, <1>t DEF Fetch, TypeOK, postVars, ghosts, Units
<1>4. ASSUME NEW timeout \in Nat, NEW interval \in Nat, Post(timeout, interval)
      PROVE  TypeOK'
  <2>1. NextId \in Ids /\ NextId \in 0..MaxPosts
    BY <1>4, <1>t, NextIdIsNew DEF Post
  <2>2. [op |-> "post", id |-> NextId, timeout |-> timeout, interval |-> interval]
          \in IoTasks
    BY <2>1
  <2>3. io_tasks' \in Seq(IoTasks)
    BY <1>4, <1>t, <2>2 DEF Post
  <2>4. now + timeout * Ms \in Nat
    BY SMTT(30), <1>t, <1>a, Product
  <2>5. due' \in [Ids -> Nat]
    BY <1>4, <1>t, <2>4 DEF Post
  <2> QED
    BY <1>4, <1>t, <2>1, <2>3, <2>5 DEF Post, TypeOK, clockVars, Units
<1>5. ASSUME NEW id \in Ids, cancel_task(id) PROVE TypeOK'
  <2>1. [op |-> "cancel", id |-> id, timeout |-> 0, interval |-> 0] \in IoTasks
    OBVIOUS
  <2>2. io_tasks' \in Seq(IoTasks)
    BY <1>5, <1>t, <2>1 DEF cancel_task
  <2> QED
    BY <1>5, <1>t, <2>2 DEF cancel_task, TypeOK, clockVars, ghosts, Units
<1>6. CASE Destruct
  BY <1>6, <1>t DEF Destruct, TypeOK, clockVars, postVars, ghosts, Units
<1>7. CASE RunPost
  <2>1. Task \in IoTasks /\ io_tasks' \in Seq(IoTasks)
    BY <1>7, <1>t, TaskTaken DEF RunPost
  <2>2. now + Task.timeout * Ms \in Nat /\ Task.interval * Ms \in Nat
    <3>1. Task.timeout \in Nat /\ Task.interval \in Nat
      BY <2>1
    <3>2. Task.timeout * Ms \in Nat /\ Task.interval * Ms \in Nat
      BY <3>1, Product
    <3> QED
      BY <1>t, <1>a, <3>2
  <2>3. PICK unit : unit = [id |-> Task.id, time |-> now + Task.timeout * Ms,
                            interval |-> Task.interval * Ms]
    OBVIOUS
  <2>4. unit \in Units
    BY <2>1, <2>2, <2>3 DEF Units
  <2>5. timer_queue' = timer_queue \cup {unit} /\ pc' \in {"idle", "arm"}
    BY <1>7, <2>3 DEF RunPost
  <2> QED
    BY <1>7, <1>t, <2>1, <2>4, <2>5 DEF RunPost, TypeOK, clockVars, ghosts, Units
<1>8. CASE RunCancel
  <2>1. Task \in IoTasks /\ io_tasks' \in Seq(IoTasks)
    BY <1>8, <1>t, TaskTaken DEF RunCancel
  <2> QED
    BY <1>8, <1>t, <2>1 DEF RunCancel, TypeOK, clockVars, Units
<1>9. CASE DropTask
  <2>1. io_tasks' \in Seq(IoTasks)
    BY <1>9, <1>t, TaskTaken DEF DropTask
  <2> QED
    BY <1>9, <1>t, <2>1 DEF DropTask, TypeOK, clockVars, ghosts, Units
<1>10. CASE set_next_wake_time
  <2>1. PICK u \in timer_queue :
          armed' = now + (IF WholeMs(u.time - now) = 0 THEN 1
                          ELSE WholeMs(u.time - now) * Ms)
    BY <1>10 DEF set_next_wake_time
  <2>2. u.time - now \in Int
    BY <1>t, <1>a DEF Units
  <2>3. WholeMs(u.time - now) * Ms \in Nat
    BY <2>2, WholeMsBelow
  <2>4. armed' \in Nat
    BY <1>t, <1>a, <2>1, <2>3
  <2> QED
    BY <1>10, <1>t, <2>4 DEF set_next_wake_time, TypeOK, postVars, ghosts, Units
<1>11. CASE HandlerStart \/ HandlerDead \/ HandlerEmpty \/ HandlerRearm
  <2>1. /\ UNCHANGED <<now, armed, postVars, timer_queue, delete_ids, alive, ghosts>>
        /\ fetched' \in BOOLEAN /\ expired' \in BOOLEAN
        /\ pc' \in {"idle", "arm", "handler"} /\ (pc' = "arm" => timer_queue # {})
        /\ handler_now' = handler_now \/ handler_now' = now
    <3>1. CASE HandlerStart
      BY <1>t, <3>1 DEF HandlerStart
    <3>2. CASE HandlerDead \/ HandlerEmpty \/ HandlerRearm
      BY <1>t, <3>2 DEF HandlerDead, HandlerEmpty, HandlerRearm, clockVars
    <3> QED
      BY <1>11, <3>1, <3>2
  <2>2. handler_now' \in 0..now
    BY <1>t, <1>a, <2>1
  <2> QED
    BY <1>t, <2>1, <2>2 DEF TypeOK, postVars, ghosts, Units
<1>12. ASSUME NEW u \in timer_queue, HandlerDrop(u) PROVE TypeOK'
  BY <1>12, <1>t DEF HandlerDrop, HandlerTop, TypeOK, clockVars, postVars, ghosts, Units
<1>13. ASSUME NEW u \in timer_queue, HandlerFire(u) PROVE TypeOK'
  <2>0. u \in Units /\ now + u.interval \in Nat
    BY <1>t, <1>a DEF Units
  <2>1. [u EXCEPT !.time = now + u.interval] \in Units
    BY <2>0 DEF Units
  <2>2. timer_queue' \subseteq Units
    BY <1>13, <1>t, <2>1 DEF HandlerFire, Fire
  <2>3. due' \in [Ids -> Nat] /\ fired' \in [Ids -> Nat]
    BY <1>13, <1>t, <2>0 DEF HandlerFire, Fire, Units
  <2> QED
    BY <1>13, <1>t, <2>2, <2>3 DEF HandlerFire, HandlerTop, Fire, TypeOK, clockVars,
                                   postVars, Units
<1>14. CASE UNCHANGED vars
  BY <1>14, <1>t DEF vars, clockVars, postVars, ghosts, TypeOK, Units
<1> QED
  BY <1>1, <1>2, <1>3, <1>4, <1>5, <1>6, <1>7, <1>8, <1>9, <1>10, <1>11,
     <1>12, <1>13, <1>14, <1>a
     DEF Next, TaskStep, EventStep, InnerStep, UserStep, post_once_task,
         post_repeat_task
\* The steps that concern neither the tasks nor the units: time does not go back.
LEMMA QuietSteps ==
  ASSUME TypeOK, Next
  PROVE  \/ /\ UNCHANGED <<io_tasks, timer_id_start, timer_queue, delete_ids, ghosts>>
            /\ now' >= now
         \/ \E timeout \in Nat, interval \in Nat : Post(timeout, interval)
         \/ \E id \in Ids : cancel_task(id)
         \/ RunPost \/ RunCancel \/ DropTask
         \/ \E u \in timer_queue : HandlerDrop(u) \/ HandlerFire(u)
<1>1. now \in Nat /\ Timeouts \subseteq Nat
  BY TimerAssumption DEF TypeOK
<1>2. CASE Tick
  BY <1>1, <1>2 DEF Tick, postVars
<1>3. CASE \/ Expire \/ Fetch \/ HandlerStart \/ HandlerDead \/ Destruct
           \/ set_next_wake_time \/ HandlerEmpty \/ HandlerRearm
  BY <1>1, <1>3 DEF Expire, Fetch, HandlerStart, HandlerDead, Destruct,
                    set_next_wake_time, HandlerEmpty, HandlerRearm, clockVars,
                    postVars
<1> QED
  BY <1>1, <1>2, <1>3 DEF Next, TaskStep, EventStep, InnerStep, UserStep,
                          post_once_task, post_repeat_task

LEMMA BooksInductive ==
  TypeOK /\ PostInv /\ UnitInv /\ CancelInv /\ [Next]_vars =>
    PostInv' /\ UnitInv' /\ CancelInv'
<1> SUFFICES ASSUME TypeOK, PostInv, UnitInv, CancelInv, [Next]_vars
             PROVE  PostInv' /\ UnitInv' /\ CancelInv'
  OBVIOUS
<1>t. /\ now \in Nat /\ timer_id_start \in Nat /\ io_tasks \in Seq(IoTasks)
      /\ timer_id_start \in 0..MaxPosts /\ timer_queue \subseteq Units
      /\ delete_ids \subseteq Ids /\ cancelled \subseteq Ids
      /\ due \in [Ids -> Nat] /\ fired \in [Ids -> Nat]
  BY TimerAssumption DEF TypeOK, Units, IoTasks
<1>i. /\ Ids \subseteq Nat /\ \A u \in timer_queue : u.id \in Ids /\ u.time \in Nat
      /\ \A i \in DOMAIN io_tasks : io_tasks[i].id \in Ids /\ io_tasks[i].timeout * Ms \in Nat
  <2>0. \A i \in DOMAIN io_tasks : io_tasks[i] \in IoTasks
    BY <1>t
  <2>1. \A i \in DOMAIN io_tasks : io_tasks[i].id \in Ids /\ io_tasks[i].timeout \in Nat
    BY <2>0 DEF IoTasks
  <2>2. Ids \subseteq Nat /\ \A u \in timer_queue : u.id \in Ids /\ u.time \in Nat
    BY <1>t, TimerAssumption DEF Ids, Units
  <2> QED
    BY <2>1, <2>2, Product
<1>0. ASSUME UNCHANGED <<io_tasks, timer_id_start, timer_queue, delete_ids, ghosts>>,
             now' \in Nat, now' >= now
      PROVE  PostInv' /\ UnitInv' /\ CancelInv'
  <2>1. ASSUME NEW i \in DOMAIN io_tasks, io_tasks[i].op = "post"
        PROVE  due[io_tasks[i].id] <= now' + io_tasks[i].timeout * Ms
    <3>1. PICK n \in Nat : n = io_tasks[i].timeout * Ms
      BY <1>i
    <3>2. due[io_tasks[i].id] \in Nat /\ due[io_tasks[i].id] <= now + n
      BY <1>t, <1>i, <2>1, <3>1 DEF PostInv
    <3>3. due[io_tasks[i].id] <= now' + n
      BY <1>0, <1>t, <3>2
    <3> QED
      BY <3>1, <3>3
  <2>2. PostInv'
    BY <1>0, <2>1 DEF PostInv, ghosts
  <2> QED
    BY <1>0, <2>2 DEF UnitInv, CancelInv, ghosts
<1>1. ASSUME NEW timeout \in Nat, NEW interval \in Nat, Post(timeout, interval)
      PROVE  PostInv' /\ UnitInv' /\ CancelInv'
  <2>1. NextId = timer_id_start + 1 /\ NextId \in Ids
    BY <1>1, <1>t, NextIdIsNew DEF Post
  <2>2. PICK new \in Ids : new = NextId /\ new = timer_id_start + 1
    BY <2>1
  <2>3. PICK task \in IoTasks :
          /\ task = [op |-> "post", id |-> new, timeout |-> timeout,
                     interval |-> interval]
    BY <2>2 DEF IoTasks
  <2>4. /\ timer_id_start' = new /\ io_tasks' = Append(io_tasks, task)
        /\ due' = [due EXCEPT ![new] = now + timeout * Ms]
        /\ UNCHANGED <<now, timer_queue, delete_ids, fired, cancelled>>
    BY <1>1, <2>2, <2>3 DEF Post, clockVars
  <2>5. /\ \A i \in DOMAIN io_tasks :
             i \in DOMAIN io_tasks' /\ io_tasks'[i] = io_tasks[i]
        /\ \A i \in DOMAIN io_tasks' :
             \/ i \in DOMAIN io_tasks
             \/ /\ io_tasks'[i] = task
                /\ \A j \in DOMAIN io_tasks' : j < i => j \in DOMAIN io_tasks
        /\ \A i \in DOMAIN io_tasks, j \in DOMAIN io_tasks' :
             j < i => j \in DOMAIN io_tasks
    BY <1>t, <2>4, TaskPosted
  <2>6. /\ \A i \in DOMAIN io_tasks : io_tasks[i].id # new
        /\ \A u \in timer_queue : u.id # new
        /\ new \notin cancelled /\ fired[new] = 0
        /\ new > timer_id_start /\ new <= new
        /\ \A id \in Ids : (id <= timer_id_start => id <= new)
                           /\ (id > new => id > timer_id_start)
    <3>1. /\ new > timer_id_start /\ new <= new /\ new \in Nat
          /\ \A id \in Ids : (id <= timer_id_start => id <= new /\ id # new)
                             /\ (id > new => id > timer_id_start)
      BY <1>t, <1>i, <2>2
    <3> QED
      BY <1>t, <1>i, <3>1 DEF PostInv, UnitInv, CancelInv
  <2>7. /\ due'[new] = now + timeout * Ms
        /\ \A id \in Ids : id # new => due'[id] = due[id]
    BY <1>t, <2>4
  <2>8. now + timeout * Ms <= now + timeout * Ms
    BY <1>t, Product
  <2>9. PostInv'
    <3>1. ASSUME NEW i \in DOMAIN io_tasks, io_tasks[i].op = "post"
          PROVE  /\ due'[io_tasks[i].id] <= now + io_tasks[i].timeout * Ms
                 /\ \A j \in DOMAIN io_tasks' : j < i => io_tasks'[j].id # io_tasks[i].id
      BY ZenonT(30), <1>i, <2>5, <2>6, <2>7, <3>1 DEF PostInv
    <3>2. ASSUME NEW i \in DOMAIN io_tasks', io_tasks'[i] = task,
                 \A j \in DOMAIN io_tasks' : j < i => j \in DOMAIN io_tasks
          PROVE  /\ due'[task.id] <= now + task.timeout * Ms
                 /\ \A j \in DOMAIN io_tasks' : j < i => io_tasks'[j].id # task.id
                 /\ task.id = new
      BY <2>3, <2>5, <2>6, <2>7, <2>8, <3>2
    <3> QED
      BY <1>i, <2>4, <2>5, <2>6, <3>1, <3>2 DEF PostInv
  <2>10. UnitInv' /\ CancelInv'
    BY <1>t, <1>i, <2>4, <2>6, <2>7 DEF UnitInv, CancelInv
  <2> QED
    BY <2>9, <2>10
<1>2. ASSUME NEW id \in Ids, cancel_task(id)
      PROVE  PostInv' /\ UnitInv' /\ CancelInv'
  <2>1. PICK task \in IoTasks :
          task = [op |-> "cancel", id |-> id, timeout |-> 0, interval |-> 0]
    BY DEF IoTasks
  <2>2. /\ io_tasks' = Append(io_tasks, task) /\ id <= timer_id_start
        /\ UNCHANGED <<now, timer_id_start, timer_queue, delete_ids, due, fired,
                       cancelled>>
    BY <1>2, <2>1 DEF cancel_task, clockVars, ghosts
  <2>3. /\ \A i \in DOMAIN io_tasks :
             i \in DOMAIN io_tasks' /\ io_tasks'[i] = io_tasks[i]
        /\ \A i \in DOMAIN io_tasks' :
             i \in DOMAIN io_tasks \/ io_tasks'[i] = task
        /\ \A i \in DOMAIN io_tasks, j \in DOMAIN io_tasks' :
             j < i => j \in DOMAIN io_tasks
    BY <1>t, <2>2, TaskPosted
  <2>4. PostInv'
    BY <2>1, <2>2, <2>3 DEF PostInv
  <2> QED
    BY <2>2, <2>4 DEF UnitInv, CancelInv
<1>3. ASSUME NEW op, TakeTask(op)
      PROVE  /\ Task \in IoTasks /\ Task.op = op
             /\ Task.id <= timer_id_start
             /\ \A i \in DOMAIN io_tasks' : io_tasks'[i].id <= timer_id_start
             /\ Task.op = "post" =>
                  /\ due[Task.id] <= now + Task.timeout * Ms
                  /\ fired[Task.id] = 0 /\ Task.id \notin cancelled
                  /\ \A u \in timer_queue : u.id # Task.id
             /\ \A i \in DOMAIN io_tasks' : io_tasks'[i].op = "post" =>
                  /\ due[io_tasks'[i].id] <= now + io_tasks'[i].timeout * Ms
                  /\ fired[io_tasks'[i].id] = 0 /\ io_tasks'[i].id \notin cancelled
                  /\ \A u \in timer_queue : u.id # io_tasks'[i].id
                  /\ io_tasks'[i].id # Task.id
                  /\ \A j \in DOMAIN io_tasks' : j < i => io_tasks'[j].id # io_tasks'[i].id
  <2>1. /\ Task \in IoTasks /\ Task.op = op
        /\ 1 \in DOMAIN io_tasks /\ io_tasks[1] = Task
        /\ io_tasks' \in Seq(IoTasks)
        /\ \A i \in DOMAIN io_tasks' : /\ i + 1 \in DOMAIN io_tasks /\ 1 < i + 1
                                       /\ io_tasks'[i] = io_tasks[i + 1]
    BY <1>3, <1>t, TaskTaken
  <2>2. \A i, j \in DOMAIN io_tasks' : j < i => j + 1 < i + 1
    BY <2>1
  <2>3. ASSUME NEW i \in DOMAIN io_tasks'
        PROVE  \E k \in DOMAIN io_tasks : k = i + 1 /\ 1 < k /\ io_tasks'[i] = io_tasks[k]
    BY <2>1
  <2>4. ASSUME NEW i \in DOMAIN io_tasks', io_tasks'[i].op = "post"
        PROVE  /\ due[io_tasks'[i].id] <= now + io_tasks'[i].timeout * Ms
               /\ fired[io_tasks'[i].id] = 0 /\ io_tasks'[i].id \notin cancelled
               /\ \A u \in timer_queue : u.id # io_tasks'[i].id
               /\ io_tasks'[i].id # Task.id
               /\ \A j \in DOMAIN io_tasks' : j < i => io_tasks'[j].id # io_tasks'[i].id
    <3>1. PICK k \in DOMAIN io_tasks : k = i + 1 /\ 1 < k /\ io_tasks'[i] = io_tasks[k]
      BY <2>3
    <3>2. \A j \in DOMAIN io_tasks' : j < i =>
            \E l \in DOMAIN io_tasks : l < k /\ io_tasks'[j] = io_tasks[l]
      BY <2>1, <2>2, <3>1
    <3> QED
      BY <2>1, <2>4, <3>1, <3>2 DEF PostInv
  <2> QED
    BY <2>1, <2>3, <2>4 DEF PostInv
<1>4. CASE RunPost
  <2>1. PICK unit : unit = [id |-> Task.id, time |-> now + Task.timeout * Ms,
                            interval |-> Task.interval * Ms]
    OBVIOUS
  <2>2. /\ TakeTask("post") /\ timer_queue' = timer_queue \cup {unit}
        /\ UNCHANGED <<now, timer_id_start, delete_ids, due, fired, cancelled>>
    BY <1>4, <2>1 DEF RunPost, clockVars, ghosts
  <2>3. /\ Task \in IoTasks /\ Task.id \in Ids /\ Task.op = "post"
        /\ Task.id <= timer_id_start
        /\ due[Task.id] <= now + Task.timeout * Ms
        /\ fired[Task.id] = 0 /\ Task.id \notin cancelled
        /\ \A u \in timer_queue : u.id # Task.id
    BY <1>3, <2>2 DEF IoTasks
  <2>4. PostInv'
    BY <1>3, <2>1, <2>2 DEF PostInv
  <2>5. unit.id = Task.id /\ due[unit.id] <= unit.time
    BY <2>1, <2>3
  <2>6. UnitInv' /\ CancelInv'
    BY <2>2, <2>3, <2>5 DEF UnitInv, CancelInv
  <2> QED
    BY <2>4, <2>6
<1>5. CASE RunCancel
  <2>1. /\ TakeTask("cancel") /\ delete_ids' = delete_ids \cup {Task.id}
        /\ cancelled' = cancelled \cup {Task.id}
        /\ UNCHANGED <<now, timer_id_start, timer_queue, due, fired>>
    BY <1>5 DEF RunCancel, clockVars
  <2>2. PostInv'
    BY <1>3, <2>1 DEF PostInv
  <2>3. Task.id <= timer_id_start
    BY <1>3, <2>1
  <2> QED
    BY <2>1, <2>2, <2>3 DEF UnitInv, CancelInv
<1>6. CASE DropTask
  <2>1. /\ \E op \in {"post", "cancel"} : TakeTask(op)
        /\ UNCHANGED <<now, timer_id_start, timer_queue, delete_ids, due, fired,
                       cancelled>>
    BY <1>6 DEF DropTask, clockVars, ghosts
  <2>2. PostInv'
    BY <1>3, <2>1 DEF PostInv
  <2> QED
    BY <2>1, <2>2 DEF UnitInv, CancelInv
<1>7. ASSUME NEW u \in timer_queue, HandlerDrop(u)
      PROVE  PostInv' /\ UnitInv' /\ CancelInv'
  BY <1>7, <1>i DEF HandlerDrop, PostInv, UnitInv, CancelInv, clockVars, postVars, ghosts
<1>8. ASSUME NEW u \in timer_queue, HandlerFire(u)
      PROVE  PostInv' /\ UnitInv' /\ CancelInv'
  <2>1. PICK again : /\ again = (IF u.interval = 0 THEN {}
                                 ELSE {[u EXCEPT !.time = now + u.interval]})
    OBVIOUS
  <2>2. /\ timer_queue' = (timer_queue \ {u}) \cup again
        /\ fired' = [fired EXCEPT ![u.id] = @ + 1]
        /\ due' = [due EXCEPT ![u.id] = now + u.interval]
        /\ u.id \notin delete_ids
        /\ UNCHANGED <<now, timer_id_start, io_tasks, delete_ids, cancelled>>
    BY <1>8, <2>1 DEF HandlerFire, Fire, clockVars, postVars
  <2>3. u \in Units /\ now + u.interval \in Nat
    BY <1>t DEF Units
  <2>4. \A v \in again : /\ v.id = u.id /\ v.time = now + u.interval
                         /\ v.interval = u.interval /\ u.interval # 0
    BY <2>1, <2>3 DEF Units
  <2>5. \A v, w \in again : v = w
    BY <2>1
  <2>6. /\ \A id \in Ids : id # u.id => due'[id] = due[id] /\ fired'[id] = fired[id]
        /\ due'[u.id] = now + u.interval /\ due'[u.id] <= now + u.interval
    BY <1>t, <1>i, <2>2, <2>3
  <2>7. u.id \notin cancelled /\ u.id <= timer_id_start
    BY <2>2 DEF CancelInv, UnitInv
  <2>8. PostInv'
    BY <1>i, <2>2, <2>4, <2>6 DEF PostInv
  <2>9. UnitInv'
    <3>0. \A v, w \in timer_queue : v.id = w.id => v = w
      BY DEF UnitInv
    <3>1. ASSUME NEW v \in timer_queue', v \notin again
          PROVE  v \in timer_queue /\ v.id # u.id
      <4>1. v \in timer_queue /\ v # u
        BY <2>2, <3>1
      <4> QED
        BY <3>0, <4>1
    <3>2. \A id \in Ids : id > timer_id_start => id # u.id
      BY <1>t, <1>i, <2>7
    <3>3. ASSUME NEW v \in timer_queue'
          PROVE  /\ v.id <= timer_id_start /\ due'[v.id] <= v.time
                 /\ v.interval = 0 => fired'[v.id] = 0
      BY <1>i, <2>4, <2>6, <2>7, <3>1 DEF UnitInv
    <3>4. \A v, w \in timer_queue' : v.id = w.id => v = w
      BY <2>4, <2>5, <3>1 DEF UnitInv
    <3>5. \A id \in Ids : id > timer_id_start' => fired'[id] = 0
      BY <2>2, <2>6, <3>2 DEF UnitInv
    <3>6. \A v \in timer_queue' : v.id <= timer_id_start'
      BY <2>2, <3>3
    <3> QED
      BY <3>3, <3>4, <3>5, <3>6 DEF UnitInv
  <2>10. CancelInv'
    BY <2>2, <2>4, <2>7 DEF CancelInv
  <2> QED
    BY <2>8, <2>9, <2>10
<1>9. CASE UNCHANGED vars
  BY <1>0, <1>9, <1>t DEF vars, clockVars, postVars, ghosts
<1>10. now' \in Nat
  BY TypesInductive, TimerAssumption DEF TypeOK
<1> QED
  BY <1>0, <1>1, <1>2, <1>4, <1>5, <1>6, <1>7, <1>8, <1>9, <1>10, QuietSteps
LEMMA WakeUpInductive == TypeOK /\ WakeUpIsSet /\ [Next]_vars => WakeUpIsSet'
<1> SUFFICES ASSUME TypeOK, WakeUpIsSet, [Next]_vars, pc' = "idle", alive',
                    NEW u \in timer_queue'
             PROVE  \/ expired' \/ fetched'
                    \/ armed' # Off /\ (armed' <= u.time \/ armed' <= now' + 1)
  BY DEF WakeUpIsSet
<1>t. /\ now \in Nat /\ armed \in Nat \cup {Off} /\ timer_queue \subseteq Units
      /\ \A v \in timer_queue : v.time \in Nat
  BY TimerAssumption DEF TypeOK, Units
<1>w. ASSUME pc = "idle", alive, NEW v \in timer_queue
      PROVE  \/ expired \/ fetched
             \/ armed # Off /\ (armed <= v.time \/ armed <= now + 1)
  BY <1>w DEF WakeUpIsSet
<1>0. ASSUME UNCHANGED <<armed, expired, fetched, timer_queue, pc, alive, now>>
      PROVE  \/ expired' \/ fetched'
             \/ armed' # Off /\ (armed' <= u.time \/ armed' <= now' + 1)
  BY <1>0, <1>w
<1>1. CASE Tick
  <2>1. /\ UNCHANGED <<armed, expired, fetched, timer_queue, pc, alive>>
        /\ now' = now + 1
    BY <1>1 DEF Tick
  <2>2. \/ expired \/ fetched
        \/ armed # Off /\ (armed <= u.time \/ armed <= now + 1)
    BY <1>w, <2>1
  <2>3. armed # Off /\ armed <= now + 1 => armed <= now' + 1
    BY <1>t, <2>1
  <2> QED
    BY <2>1, <2>2, <2>3
<1>2. CASE Expire \/ Fetch
  BY <1>2 DEF Expire, Fetch
<1>3. CASE RunPost
  <2>1. PICK unit : unit = [id |-> Task.id, time |-> now + Task.timeout * Ms,
                            interval |-> Task.interval * Ms]
    OBVIOUS
  <2>2. /\ timer_queue' = timer_queue \cup {unit} /\ pc = "idle" /\ alive
        /\ ~\A v \in timer_queue : unit.time <= v.time
        /\ UNCHANGED <<now, armed, expired, fetched>>
    BY <1>3, <2>1 DEF RunPost, TakeTask, clockVars
  <2>3. unit.time \in Nat
    <3>1. Task \in IoTasks
      BY <1>3, TaskTaken DEF RunPost, TypeOK, IoTasks
    <3>2. Task.timeout * Ms \in Nat
      BY <3>1, Product DEF IoTasks
    <3> QED
      BY <1>t, <2>1, <3>2
  <2>4. CASE u = unit
    <3>1. PICK v \in timer_queue : ~(unit.time <= v.time)
      BY <2>2
    <3>2. \/ expired \/ fetched
          \/ armed # Off /\ (armed <= v.time \/ armed <= now + 1)
      BY <1>w, <2>2
    <3>3. armed # Off /\ armed <= v.time => armed <= unit.time
      BY <1>t, <2>3, <3>1
    <3> QED
      BY <2>2, <2>4, <3>2, <3>3
  <2>5. CASE u \in timer_queue
    BY <1>w, <2>2, <2>5
  <2> QED
    BY <2>2, <2>4, <2>5
<1>4. CASE set_next_wake_time
  <2>1. PICK top \in timer_queue :
          /\ \A v \in timer_queue : top.time <= v.time
          /\ armed' = now + (IF WholeMs(top.time - now) = 0 THEN 1
                             ELSE WholeMs(top.time - now) * Ms)
    BY <1>4 DEF set_next_wake_time, IsTop
  <2>2. UNCHANGED <<now, timer_queue>>
    BY <1>4 DEF set_next_wake_time
  <2>3. PICK d \in Int : d = top.time - now
    BY <1>t
  <2>4. PICK w : w = WholeMs(d) * Ms
    OBVIOUS
  <2>5. w \in Nat /\ (WholeMs(d) # 0 => w <= d)
    BY <2>4, WholeMsBelow
  <2>6. armed' = now + 1 \/ (armed' = now + w /\ w <= d)
    BY <2>1, <2>3, <2>4, <2>5
  <2>7. top.time \in Nat /\ u.time \in Nat /\ top.time <= u.time
    BY <1>t, <2>1, <2>2
  <2>8. armed' # Off /\ (armed' <= u.time \/ armed' <= now + 1)
    BY <1>t, <2>3, <2>5, <2>6, <2>7 DEF Off
  <2> QED
    BY <2>2, <2>8
<1>5. CASE HandlerStart \/ HandlerDead \/ HandlerEmpty \/ HandlerRearm \/ Destruct
  BY <1>5 DEF HandlerStart, HandlerDead, HandlerEmpty, HandlerRearm, Destruct
<1>6. ASSUME NEW v \in timer_queue, HandlerDrop(v) \/ HandlerFire(v) PROVE FALSE
  BY <1>6 DEF HandlerDrop, HandlerFire, HandlerTop, Fire
<1>7. ASSUME NEW timeout, NEW interval, Post(timeout, interval)
      PROVE  \/ expired' \/ fetched'
             \/ armed' # Off /\ (armed' <= u.time \/ armed' <= now' + 1)
  BY <1>0, <1>7 DEF Post, clockVars
<1>8. CASE RunCancel \/ DropTask \/ \E id \in Ids : cancel_task(id)
  BY <1>0, <1>8 DEF RunCancel, DropTask, cancel_task, clockVars
<1>9. CASE UNCHANGED vars
  BY <1>0, <1>9 DEF vars, clockVars
<1> QED
  BY <1>1, <1>2, <1>3, <1>4, <1>5, <1>6, <1>7, <1>8, <1>9
     DEF Next, TaskStep, EventStep, InnerStep, UserStep, post_once_task,
         post_repeat_task

-------------------------------------------------------------------------------
(***************************************************************************)
(* The theorems.                                                           *)
(***************************************************************************)
LEMMA InitEstablishes == Init => IInv
<1> SUFFICES ASSUME Init PROVE IInv
  OBVIOUS
<1>1. TypeOK
  <2>1. now \in 0..MaxTime /\ timer_id_start \in 0..MaxPosts /\ handler_now \in 0..now
    BY TimerAssumption DEF Init
  <2>2. due \in [Ids -> Nat] /\ fired \in [Ids -> Nat] /\ io_tasks \in Seq(IoTasks)
    BY DEF Init
  <2> QED
    BY <2>1, <2>2 DEF Init, TypeOK, IoTasks
<1>2. PostInv /\ UnitInv /\ CancelInv /\ WakeUpIsSet
  BY DEF Init, PostInv, UnitInv, CancelInv, WakeUpIsSet
<1> QED
  BY <1>1, <1>2 DEF IInv

LEMMA StepPreserves == IInv /\ [Next]_vars => IInv'
  BY TypesInductive, BooksInductive, WakeUpInductive DEF IInv

LEMMA Invariance == Spec => []IInv
  BY InitEstablishes, StepPreserves, PTL DEF Spec

\* The variables of the Timer keep their types, no id is 0, and there is a unit
\* whenever set_next_wake_time runs.
THEOREM TypeCorrect == Spec => []TypeOK
<1>1. IInv => TypeOK
  BY DEF IInv
<1> QED
  BY <1>1, Invariance, PTL

\* The timerfd is set for the first deadline, or its expiration is on its way,
\* whenever the io thread is outside of the timer's code.
THEOREM TimerIsArmed == Spec => []WakeUpIsSet
<1>1. IInv => WakeUpIsSet
  BY DEF IInv
<1> QED
  BY <1>1, Invariance, PTL

\* A task has at most one unit, so that the lazy cancel of timer.cpp, which erases
\* the id with the unit, leaves no second one behind; a task that was executed
\* and does not repeat has none.
THEOREM UnitsAreUnique == Spec => []OneUnitPerTask
<1>1. IInv => OneUnitPerTask
  BY DEF IInv, PostInv, UnitInv, OneUnitPerTask
<1> QED
  BY <1>1, Invariance, PTL

\* What the callback of the timerfd can execute: a unit whose time has come and
\* that was not cancelled.
LEMMA OnlyTheHandlerFires ==
  ASSUME TypeOK, [Next]_vars, NEW id \in Ids, fired'[id] # fired[id]
  PROVE  \E u \in timer_queue :
           u.id = id /\ u.time <= now /\ u.id \notin delete_ids
<1>t. /\ now \in Nat /\ handler_now \in 0..now /\ timer_queue \subseteq Units
      /\ fired \in [Ids -> Nat]
  BY TimerAssumption DEF TypeOK, Units
<1>1. fired' # fired
  OBVIOUS
<1>2. PICK u \in timer_queue : HandlerFire(u)
  BY <1>1 DEF vars, Next, TaskStep, EventStep, InnerStep, UserStep, post_once_task,
              post_repeat_task, Tick, Expire, Fetch, HandlerStart, HandlerDead,
              HandlerEmpty, HandlerRearm, HandlerDrop, set_next_wake_time,
              RunPost, RunCancel, DropTask, Post, cancel_task, Destruct, ghosts
<1>3. u.time <= handler_now /\ u.id \notin delete_ids
      /\ fired' = [fired EXCEPT ![u.id] = @ + 1]
  BY <1>2 DEF HandlerFire, HandlerTop, Fire
<1>4. u.id = id
  BY <1>t, <1>3
<1>5. u.time <= now
  BY <1>t, <1>3 DEF Units
<1> QED
  BY <1>3, <1>4, <1>5

\* No task is executed before its timeout has passed since it was posted, nor a
\* repeating one before its interval has passed since its last execution.
THEOREM TasksAreNotEarly == Spec => NeverEarly
<1>1. IInv /\ [Next]_vars =>
        [\A id \in Ids : fired'[id] # fired[id] => now >= due[id]]_vars
  <2> SUFFICES ASSUME TypeOK, UnitInv, [Next]_vars, NEW id \in Ids,
                      fired'[id] # fired[id]
               PROVE  now >= due[id]
    BY DEF IInv
  <2>1. PICK u \in timer_queue : u.id = id /\ u.time <= now
    BY OnlyTheHandlerFires
  <2>2. due[id] <= u.time
    BY <2>1 DEF UnitInv
  <2>3. now \in Nat /\ due[id] \in Nat /\ u.time \in Nat
    BY TimerAssumption DEF TypeOK
  <2> QED
    BY <2>1, <2>2, <2>3
<1> QED
  BY <1>1, Invariance, PTL DEF Spec, NeverEarly

\* Once the task of cancel_task has run, the cancelled task is not executed.
THEOREM CancelsHold == Spec => CancelHolds
<1>1. IInv /\ [Next]_vars => [\A id \in cancelled : fired'[id] = fired[id]]_vars
  <2> SUFFICES ASSUME TypeOK, CancelInv, [Next]_vars, NEW id \in cancelled,
                      fired'[id] # fired[id]
               PROVE  FALSE
    BY DEF IInv
  <2>1. id \in Ids
    BY DEF TypeOK
  <2>2. PICK u \in timer_queue : u.id = id /\ u.id \notin delete_ids
    BY <2>1, OnlyTheHandlerFires
  <2> QED
    BY <2>2 DEF CancelInv
<1> QED
  BY <1>1, Invariance, PTL DEF Spec, CancelHolds
===============================================================================

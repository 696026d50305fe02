-------------------------- MODULE LoopExecutor_proofs --------------------------
(***************************************************************************)
(* Proofs about LoopExecutor for any number of clients and tasks, when one *)
(* client c is the only thread that calls start(), stop() and ~Loop().     *)
(***************************************************************************)
EXTENDS LoopExecutor, TLAPS

PostPcs == {"none", "post_io_wake", "post_heavy_notify"}

\* The life cycle of the two threads, as the controlling client c drives it.
\* Stopped: neither thread exists.
LifeStopped(c) ==
  /\ IoDown /\ HeavyDown /\ ~io_joinable /\ ~heavy_joinable
  /\ call[c] \in PostPcs \cup {"start_io", "start_heavy", "start_cas",
                               "stop_cas", "stop_io", "stop_heavy",
                               "stop_end", "destroy"}

\* Running: start() is launching the threads one after the other, or both run.
LifeRunning(c) ==
  \/ /\ call[c] = "start_spawn_io"
     /\ IoDown /\ HeavyDown /\ ~io_joinable /\ ~heavy_joinable
  \/ /\ call[c] = "start_assign_io"
     /\ ~IoDown /\ HeavyDown /\ ~io_joinable /\ ~heavy_joinable
  \/ /\ call[c] = "start_spawn_heavy"
     /\ ~IoDown /\ HeavyDown /\ io_joinable /\ ~heavy_joinable
  \/ /\ call[c] = "start_assign_heavy"
     /\ ~IoDown /\ ~HeavyDown /\ io_joinable /\ ~heavy_joinable
  \/ /\ call[c] \in PostPcs \cup {"start_io", "start_join_io", "stop_cas"}
     /\ ~IoDown /\ ~HeavyDown /\ io_joinable /\ heavy_joinable

\* Stopping: c is inside stop(), joining the io thread and then the heavy one.
LifeStopping(c) ==
  \/ /\ call[c] \in {"stop_io", "stop_wake_io", "stop_join_io"}
     /\ io_joinable /\ heavy_joinable
  \/ /\ call[c] \in {"stop_heavy", "stop_wake_heavy", "stop_join_heavy"}
     /\ IoDown /\ ~io_joinable /\ heavy_joinable
  \/ /\ call[c] = "stop_end"
     /\ IoDown /\ HeavyDown /\ ~io_joinable /\ ~heavy_joinable

LifeInv(c) ==
  /\ \A t \in Threads : t # c => call[t] \in PostPcs
  /\ exe_state = "Stopped" => LifeStopped(c)
  /\ exe_state = "Running" => LifeRunning(c)
  /\ exe_state = "Stopping" => LifeStopping(c)

\* The io queues: io_exe_queue_ holds tasks only while they run, events are
\* pending only during a scan, and no wake-up is lost.
IoQueueInv ==
  /\ io_pc \notin {"run", "task"} => io_exe_queue = <<>>
  /\ io_pc \in {"none", "exited", "while", "epoll_wait"} => io_evs = <<>>
  /\ IoWakeupNotLost

HeavyQueueInv ==
  /\ heavy_pc \notin {"run", "task"} => heavy_exe_queue = <<>>
  /\ HeavyWakeupNotLost

\* Where the posted tasks are: the first ones have run, the next ones are in
\* the queue being executed, the last ones in the buffer queue.
InOrder(posted, ran, exe, next, buffer) ==
  /\ Len(ran) + Len(buffer) + Len(exe) = Len(posted) + (next - 1)
  /\ \A i \in 1..Len(ran) : ran[i] = posted[i]
  /\ \A i \in 1..Len(exe) :
       next <= i => exe[i] = posted[Len(ran) + i - (next - 1)]
  /\ \A i \in 1..Len(buffer) :
       buffer[i] = posted[Len(posted) - Len(buffer) + i]

IoOrder ==
  InOrder(io_posted, io_ran, io_exe_queue, io_next, io_buffer_queue)
HeavyOrder ==
  InOrder(heavy_posted, heavy_ran, heavy_exe_queue, heavy_next,
          heavy_buffer_queue)

\* The inductive invariant.
IInv(c) ==
  /\ TypeOK
  /\ LifeInv(c)
  /\ IoQueueInv
  /\ HeavyQueueInv
  /\ IoOrder
  /\ HeavyOrder

-------------------------------------------------------------------------------
\* Every step of every thread keeps the type invariant.
LEMMA TypeInductive == TypeOK /\ [Next]_vars => TypeOK'
<1> DEFINE Goal == TypeOK'
<1> SUFFICES ASSUME TypeOK, [Next]_vars PROVE Goal
  OBVIOUS
<1> USE BoundsAssumption DEF Threads
<1>1. ASSUME NEW t \in Threads, NEW task \in IoTasks,
             post_io_task(t, task)
      PROVE  Goal
  BY <1>1
     DEF post_io_task, MayCall, TypeOK, lifeVars, ioVars, heavyVars, Goto,
         CallPcs, StartPcs, StopPcs, IoPcs, HeavyPcs
<1>2. ASSUME NEW t \in Threads, NEW task \in HeavyTasks,
             post_heavy_task(t, task)
      PROVE  Goal
  BY <1>2
     DEF post_heavy_task, MayCall, HeavyPush, TypeOK, lifeVars, ioVars,
         heavyVars, Goto, CallPcs, StartPcs, StopPcs, IoPcs, HeavyPcs
<1>3. ASSUME NEW t \in Threads, start(t) PROVE Goal
  BY <1>3
     DEF start, MayCall, TypeOK, lifeVars, ioVars, heavyVars, Goto,
         CallPcs, StartPcs, StopPcs, IoPcs, HeavyPcs
<1>4. ASSUME NEW t \in Threads, stop(t) PROVE Goal
  BY <1>4
     DEF stop, MayCall, TypeOK, lifeVars, ioVars, heavyVars, Goto, CallPcs,
         StartPcs, StopPcs, IoPcs, HeavyPcs
<1>5. ASSUME NEW t \in Threads, Destroy(t) PROVE Goal
  BY <1>5
     DEF Destroy, MayCall, TypeOK, lifeVars, ioVars, heavyVars, Goto,
         CallPcs, StartPcs, StopPcs, IoPcs, HeavyPcs
<1>6. ASSUME NEW t \in Threads, wake_io_up(t) PROVE Goal
  BY <1>6
     DEF wake_io_up, WriteWakeFd, TypeOK, lifeVars, ioVars, heavyVars,
         Goto, CallPcs, StartPcs, StopPcs, IoPcs, HeavyPcs
<1>7. ASSUME NEW t \in Threads, wake_heavy_up(t) PROVE Goal
  BY <1>7
     DEF wake_heavy_up, NotifyHeavy, TypeOK, lifeVars, ioVars, heavyVars,
         Goto, CallPcs, StartPcs, StopPcs, IoPcs, HeavyPcs
<1>8. ASSUME NEW t \in Threads, StartTestIo(t) PROVE Goal
  BY <1>8
     DEF StartTestIo, TypeOK, lifeVars, ioVars, heavyVars, Goto, CallPcs,
         StartPcs, StopPcs, IoPcs, HeavyPcs
<1>9. ASSUME NEW t \in Threads, StartJoinIo(t) PROVE Goal
  BY <1>9
     DEF StartJoinIo, TypeOK, lifeVars, ioVars, heavyVars, Goto, CallPcs,
         StartPcs, StopPcs, IoPcs, HeavyPcs
<1>10. ASSUME NEW t \in Threads, StartTestHeavy(t) PROVE Goal
  BY <1>10
     DEF StartTestHeavy, TypeOK, lifeVars, ioVars, heavyVars, Goto,
         CallPcs, StartPcs, StopPcs, IoPcs, HeavyPcs
<1>11. ASSUME NEW t \in Threads, StartJoinHeavy(t) PROVE Goal
  BY <1>11
     DEF StartJoinHeavy, TypeOK, lifeVars, ioVars, heavyVars, Goto,
         CallPcs, StartPcs, StopPcs, IoPcs, HeavyPcs
<1>12. ASSUME NEW t \in Threads, StartCas(t) PROVE Goal
  <2>1. CASE exe_state = "Stopped"
    BY <1>12, <2>1
       DEF StartCas, TypeOK, lifeVars, ioVars, heavyVars, Goto, CallPcs,
           StartPcs
  <2>2. CASE exe_state # "Stopped"
    BY <1>12, <2>2
       DEF StartCas, TypeOK, lifeVars, ioVars, heavyVars, Goto, CallPcs
  <2> QED
    BY <2>1, <2>2
<1>13. ASSUME NEW t \in Threads, StartSpawnIo(t) PROVE Goal
  BY <1>13
     DEF StartSpawnIo, TypeOK, lifeVars, ioVars, heavyVars, Goto, CallPcs,
         StartPcs, StopPcs, IoPcs, HeavyPcs
<1>14. ASSUME NEW t \in Threads, StartAssignIo(t) PROVE Goal
  BY <1>14
     DEF StartAssignIo, TypeOK, lifeVars, ioVars, heavyVars, Goto, CallPcs,
         StartPcs, StopPcs, IoPcs, HeavyPcs
<1>15. ASSUME NEW t \in Threads, StartSpawnHeavy(t) PROVE Goal
  BY <1>15
     DEF StartSpawnHeavy, TypeOK, lifeVars, ioVars, heavyVars, Goto,
         CallPcs, StartPcs, StopPcs, IoPcs, HeavyPcs
<1>16. ASSUME NEW t \in Threads, StartAssignHeavy(t) PROVE Goal
  BY <1>16
     DEF StartAssignHeavy, TypeOK, lifeVars, ioVars, heavyVars, Goto,
         CallPcs, StartPcs, StopPcs, IoPcs, HeavyPcs
<1>17. ASSUME NEW t \in Threads, StopCas(t) PROVE Goal
  BY <1>17
     DEF StopCas, TypeOK, lifeVars, ioVars, heavyVars, Goto, CallPcs,
         StartPcs, StopPcs, IoPcs, HeavyPcs
<1>18. ASSUME NEW t \in Threads, StopTestIo(t) PROVE Goal
  BY <1>18
     DEF StopTestIo, TypeOK, lifeVars, ioVars, heavyVars, Goto, CallPcs,
         StartPcs, StopPcs, IoPcs, HeavyPcs
<1>19. ASSUME NEW t \in Threads, StopWakeIo(t) PROVE Goal
  BY <1>19
     DEF StopWakeIo, WriteWakeFd, TypeOK, lifeVars, ioVars, heavyVars,
         Goto, CallPcs, StartPcs, StopPcs, IoPcs, HeavyPcs
<1>20. ASSUME NEW t \in Threads, StopJoinIo(t) PROVE Goal
  BY ZenonT(30), <1>20
     DEF StopJoinIo, TypeOK, lifeVars, ioVars, heavyVars, Goto, CallPcs,
         StartPcs, StopPcs, IoPcs, HeavyPcs
<1>21. ASSUME NEW t \in Threads, StopTestHeavy(t) PROVE Goal
  BY <1>21
     DEF StopTestHeavy, TypeOK, lifeVars, ioVars, heavyVars, Goto, CallPcs,
         StartPcs, StopPcs, IoPcs, HeavyPcs
<1>22. ASSUME NEW t \in Threads, StopWakeHeavy(t) PROVE Goal
  BY <1>22
     DEF StopWakeHeavy, NotifyHeavy, TypeOK, lifeVars, ioVars, heavyVars,
         Goto, CallPcs, StartPcs, StopPcs, IoPcs, HeavyPcs
<1>23. ASSUME NEW t \in Threads, StopJoinHeavy(t) PROVE Goal
  BY ZenonT(30), <1>23
     DEF StopJoinHeavy, TypeOK, lifeVars, ioVars, heavyVars, Goto, CallPcs,
         StartPcs, StopPcs, IoPcs, HeavyPcs
<1>24. ASSUME NEW t \in Threads, StopEnd(t) PROVE Goal
  BY <1>24
     DEF StopEnd, TypeOK, lifeVars, ioVars, heavyVars, Goto, CallPcs,
         StartPcs, StopPcs, IoPcs, HeavyPcs
<1>25. ASSUME NEW t \in Threads, DestroyJoin(t) PROVE Goal
  BY <1>25
     DEF DestroyJoin, TypeOK, lifeVars, ioVars, heavyVars, Goto, CallPcs,
         StartPcs, StopPcs, IoPcs, HeavyPcs
<1>26. CASE IoWhile
  BY <1>26
     DEF IoWhile, TypeOK, lifeVars, ioVars, heavyVars, Goto, CallPcs,
         StartPcs, StopPcs, IoPcs, HeavyPcs
<1>27. CASE IoWaitWake
  <2>1. /\ <<"wake">> \in Seq({"wake", "fd"})
        /\ <<"wake", "fd">> \in Seq({"wake", "fd"})
        /\ <<"fd", "wake">> \in Seq({"wake", "fd"})
    OBVIOUS
  <2>2. io_evs' \in Seq({"wake", "fd"})
    BY <1>27, <2>1 DEF IoWaitWake
  <2> QED
    BY <1>27, <2>2
       DEF IoWaitWake, TypeOK, lifeVars, ioVars, heavyVars, IoPcs
<1>28. CASE IoWaitOther
  <2>1. <<"fd">> \in Seq({"wake", "fd"}) /\ <<>> \in Seq({"wake", "fd"})
    OBVIOUS
  <2>2. io_evs' \in Seq({"wake", "fd"})
    BY <1>28, <2>1 DEF IoWaitOther
  <2> QED
    BY <1>28, <2>2
       DEF IoWaitOther, TypeOK, lifeVars, ioVars, heavyVars, IoPcs
<1>29. CASE IoScan
  BY <1>29
     DEF IoScan, TypeOK, lifeVars, ioVars, heavyVars, Goto, CallPcs,
         StartPcs, StopPcs, IoPcs, HeavyPcs
<1>30. CASE IoDrain
  BY ZenonT(30), <1>30
     DEF IoDrain, TypeOK, lifeVars, ioVars, heavyVars, Goto, CallPcs,
         StartPcs, StopPcs, IoPcs, HeavyPcs
<1>31. CASE IoSwap
  BY <1>31
     DEF IoSwap, TypeOK, lifeVars, ioVars, heavyVars, Goto, CallPcs,
         StartPcs, StopPcs, IoPcs, HeavyPcs
<1>32. CASE IoRun
  BY <1>32
     DEF IoRun, TypeOK, lifeVars, ioVars, heavyVars, Goto, CallPcs,
         StartPcs, StopPcs, IoPcs, HeavyPcs
<1>33. CASE IoClear
  BY <1>33
     DEF IoClear, TypeOK, lifeVars, ioVars, heavyVars, Goto, CallPcs,
         StartPcs, StopPcs, IoPcs, HeavyPcs
<1>34. CASE IoReturn
  BY <1>34
     DEF IoReturn, TypeOK, lifeVars, ioVars, heavyVars, Goto, CallPcs,
         StartPcs, StopPcs, IoPcs, HeavyPcs
<1>35. CASE HeavyWhile
  BY <1>35
     DEF HeavyWhile, TypeOK, lifeVars, ioVars, heavyVars, Goto, CallPcs,
         StartPcs, StopPcs, IoPcs, HeavyPcs
<1>36. CASE HeavyLock
  BY <1>36
     DEF HeavyLock, TypeOK, lifeVars, ioVars, heavyVars, Goto, CallPcs,
         StartPcs, StopPcs, IoPcs, HeavyPcs
<1>37. CASE HeavySwap
  BY <1>37
     DEF HeavySwap, TypeOK, lifeVars, ioVars, heavyVars, Goto, CallPcs,
         StartPcs, StopPcs, IoPcs, HeavyPcs
<1>38. CASE HeavyPredicateFalse
  BY <1>38
     DEF HeavyPredicateFalse, TypeOK, lifeVars, ioVars, heavyVars, Goto,
         CallPcs, StartPcs, StopPcs, IoPcs, HeavyPcs
<1>39. CASE HeavyBlock
  BY <1>39
     DEF HeavyBlock, TypeOK, lifeVars, ioVars, heavyVars, Goto, CallPcs,
         StartPcs, StopPcs, IoPcs, HeavyPcs
<1>40. CASE HeavySpurious
  BY <1>40
     DEF HeavySpurious, TypeOK, lifeVars, ioVars, heavyVars, Goto, CallPcs,
         StartPcs, StopPcs, IoPcs, HeavyPcs
<1>41. CASE HeavyRun
  BY <1>41
     DEF HeavyRun, TypeOK, lifeVars, ioVars, heavyVars, Goto, CallPcs,
         StartPcs, StopPcs, IoPcs, HeavyPcs
<1>42. CASE HeavyClear
  BY <1>42
     DEF HeavyClear, TypeOK, lifeVars, ioVars, heavyVars, Goto, CallPcs,
         StartPcs, StopPcs, IoPcs, HeavyPcs
<1>43. CASE HeavyReturn
  BY <1>43
     DEF HeavyReturn, TypeOK, lifeVars, ioVars, heavyVars, Goto, CallPcs,
         StartPcs, StopPcs, IoPcs, HeavyPcs
<1>44. CASE UNCHANGED vars
  BY <1>44 DEF vars, lifeVars, ioVars, heavyVars, TypeOK
<1> QED
  BY <1>1, <1>2, <1>3, <1>4, <1>5, <1>6, <1>7, <1>8, <1>9, <1>10, <1>11,
     <1>12, <1>13, <1>14, <1>15, <1>16, <1>17, <1>18, <1>19, <1>20, <1>21,
     <1>22, <1>23, <1>24, <1>25, <1>26, <1>27, <1>28, <1>29, <1>30, <1>31,
     <1>32, <1>33, <1>34, <1>35, <1>36, <1>37, <1>38, <1>39, <1>40, <1>41,
     <1>42, <1>43, <1>44
     DEF Next, CallStep, UserStep, IoStep, HeavyStep

-------------------------------------------------------------------------------
\* start(), stop() and ~Loop(), called by one client, take the two threads
\* through their life cycle whatever the executors and other clients do.
LEMMA LifeInductive ==
  ASSUME NEW c \in Clients, StartCallers = {c}, StopCallers = {c},
         TypeOK, LifeInv(c), [Next]_vars
  PROVE  LifeInv(c)'
<1> DEFINE Goal == LifeInv(c)'
<1>t. /\ call \in [Threads -> CallPcs] /\ c \in Threads
      /\ io_joinable \in BOOLEAN /\ heavy_joinable \in BOOLEAN
      /\ exe_state \in {"Stopped", "Running", "Stopping"}
      /\ c # Io /\ c # Heavy
  BY ThreadsAssumption DEF TypeOK, Threads
<1>1. ASSUME NEW t \in Threads, NEW task \in IoTasks,
             post_io_task(t, task)
      PROVE  Goal
  BY <1>1, <1>t
     DEF post_io_task, MayCall, lifeVars, ioVars, heavyVars, LifeInv,
         LifeStopped, LifeRunning, LifeStopping, PostPcs, IoDown, HeavyDown,
         Goto
<1>2. ASSUME NEW t \in Threads, NEW task \in HeavyTasks,
             post_heavy_task(t, task)
      PROVE  Goal
  BY <1>2, <1>t
     DEF post_heavy_task, MayCall, HeavyPush, lifeVars, ioVars, heavyVars,
         LifeInv, LifeStopped, LifeRunning, LifeStopping, PostPcs, IoDown,
         HeavyDown, Goto
<1>3. ASSUME NEW t \in Threads, start(t) PROVE Goal
  BY <1>3, <1>t
     DEF start, MayCall, lifeVars, ioVars, heavyVars, LifeInv, LifeStopped,
         LifeRunning, LifeStopping, PostPcs, IoDown, HeavyDown, Goto
<1>4. ASSUME NEW t \in Threads, stop(t) PROVE Goal
  BY <1>4, <1>t
     DEF stop, MayCall, lifeVars, ioVars, heavyVars, LifeInv, LifeStopped,
         LifeRunning, LifeStopping, PostPcs, IoDown, HeavyDown, Goto
<1>5. ASSUME NEW t \in Threads, Destroy(t) PROVE Goal
  BY <1>5, <1>t
     DEF Destroy, MayCall, lifeVars, ioVars, heavyVars, LifeInv,
         LifeStopped, LifeRunning, LifeStopping, PostPcs, IoDown, HeavyDown,
         Goto
<1>6. ASSUME NEW t \in Threads, wake_io_up(t) PROVE Goal
  BY <1>6, <1>t
     DEF wake_io_up, WriteWakeFd, lifeVars, ioVars, heavyVars, LifeInv,
         LifeStopped, LifeRunning, LifeStopping, PostPcs, IoDown, HeavyDown,
         Goto
<1>7. ASSUME NEW t \in Threads, wake_heavy_up(t) PROVE Goal
  BY <1>7, <1>t
     DEF wake_heavy_up, NotifyHeavy, lifeVars, ioVars, heavyVars, LifeInv,
         LifeStopped, LifeRunning, LifeStopping, PostPcs, IoDown, HeavyDown,
         Goto
<1>8. ASSUME NEW t \in Threads, StartTestIo(t) PROVE Goal
  BY <1>8, <1>t
     DEF StartTestIo, lifeVars, ioVars, heavyVars, LifeInv, LifeStopped,
         LifeRunning, LifeStopping, PostPcs, IoDown, HeavyDown, Goto
<1>9. ASSUME NEW t \in Threads, StartJoinIo(t) PROVE Goal
  BY <1>9, <1>t
     DEF StartJoinIo, lifeVars, ioVars, heavyVars, LifeInv, LifeStopped,
         LifeRunning, LifeStopping, PostPcs, IoDown, HeavyDown, Goto
<1>10. ASSUME NEW t \in Threads, StartTestHeavy(t) PROVE Goal
  BY <1>10, <1>t
     DEF StartTestHeavy, lifeVars, ioVars, heavyVars, LifeInv, LifeStopped,
         LifeRunning, LifeStopping, PostPcs, IoDown, HeavyDown, Goto
<1>11. ASSUME NEW t \in Threads, StartJoinHeavy(t) PROVE Goal
  BY <1>11, <1>t
     DEF StartJoinHeavy, lifeVars, ioVars, heavyVars, LifeInv, LifeStopped,
         LifeRunning, LifeStopping, PostPcs, IoDown, HeavyDown, Goto
<1>12. ASSUME NEW t \in Threads, StartCas(t) PROVE Goal
  BY <1>12, <1>t
     DEF StartCas, lifeVars, ioVars, heavyVars, LifeInv, LifeStopped,
         LifeRunning, LifeStopping, PostPcs, IoDown, HeavyDown, Goto
<1>13. ASSUME NEW t \in Threads, StartSpawnIo(t) PROVE Goal
  BY <1>13, <1>t
     DEF StartSpawnIo, lifeVars, ioVars, heavyVars, LifeInv, LifeStopped,
         LifeRunning, LifeStopping, PostPcs, IoDown, HeavyDown, Goto
<1>14. ASSUME NEW t \in Threads, StartAssignIo(t) PROVE Goal
  BY <1>14, <1>t
     DEF StartAssignIo, lifeVars, ioVars, heavyVars, LifeInv, LifeStopped,
         LifeRunning, LifeStopping, PostPcs, IoDown, HeavyDown, Goto
<1>15. ASSUME NEW t \in Threads, StartSpawnHeavy(t) PROVE Goal
  BY <1>15, <1>t
     DEF StartSpawnHeavy, lifeVars, ioVars, heavyVars, LifeInv,
         LifeStopped, LifeRunning, LifeStopping, PostPcs, IoDown, HeavyDown,
         Goto
<1>16. ASSUME NEW t \in Threads, StartAssignHeavy(t) PROVE Goal
  BY <1>16, <1>t
     DEF StartAssignHeavy, lifeVars, ioVars, heavyVars, LifeInv,
         LifeStopped, LifeRunning, LifeStopping, PostPcs, IoDown, HeavyDown,
         Goto
<1>17. ASSUME NEW t \in Threads, StopCas(t) PROVE Goal
  BY <1>17, <1>t
     DEF StopCas, lifeVars, ioVars, heavyVars, LifeInv, LifeStopped,
         LifeRunning, LifeStopping, PostPcs, IoDown, HeavyDown, Goto
<1>18. ASSUME NEW t \in Threads, StopTestIo(t) PROVE Goal
  BY <1>18, <1>t
     DEF StopTestIo, lifeVars, ioVars, heavyVars, LifeInv, LifeStopped,
         LifeRunning, LifeStopping, PostPcs, IoDown, HeavyDown, Goto
<1>19. ASSUME NEW t \in Threads, StopWakeIo(t) PROVE Goal
  BY <1>19, <1>t
     DEF StopWakeIo, WriteWakeFd, lifeVars, ioVars, heavyVars, LifeInv,
         LifeStopped, LifeRunning, LifeStopping, PostPcs, IoDown, HeavyDown,
         Goto
<1>20. ASSUME NEW t \in Threads, StopJoinIo(t) PROVE Goal
  BY <1>20, <1>t
     DEF StopJoinIo, lifeVars, ioVars, heavyVars, LifeInv, LifeStopped,
         LifeRunning, LifeStopping, PostPcs, IoDown, HeavyDown, Goto
<1>21. ASSUME NEW t \in Threads, StopTestHeavy(t) PROVE Goal
  BY <1>21, <1>t
     DEF StopTestHeavy, lifeVars, ioVars, heavyVars, LifeInv, LifeStopped,
         LifeRunning, LifeStopping, PostPcs, IoDown, HeavyDown, Goto
<1>22. ASSUME NEW t \in Threads, StopWakeHeavy(t) PROVE Goal
  BY <1>22, <1>t
     DEF StopWakeHeavy, NotifyHeavy, lifeVars, ioVars, heavyVars, LifeInv,
         LifeStopped, LifeRunning, LifeStopping, PostPcs, IoDown, HeavyDown,
         Goto
<1>23. ASSUME NEW t \in Threads, StopJoinHeavy(t) PROVE Goal
  BY <1>23, <1>t
     DEF StopJoinHeavy, lifeVars, ioVars, heavyVars, LifeInv, LifeStopped,
         LifeRunning, LifeStopping, PostPcs, IoDown, HeavyDown, Goto
<1>24. ASSUME NEW t \in Threads, StopEnd(t) PROVE Goal
  BY <1>24, <1>t
     DEF StopEnd, lifeVars, ioVars, heavyVars, LifeInv, LifeStopped,
         LifeRunning, LifeStopping, PostPcs, IoDown, HeavyDown, Goto
<1>25. ASSUME NEW t \in Threads, DestroyJoin(t) PROVE Goal
  BY <1>25, <1>t
     DEF DestroyJoin, lifeVars, ioVars, heavyVars, LifeInv, LifeStopped,
         LifeRunning, LifeStopping, PostPcs, IoDown, HeavyDown, Goto
<1>26. CASE IoWhile
  BY <1>26, <1>t
     DEF IoWhile, lifeVars, ioVars, heavyVars, LifeInv, LifeStopped,
         LifeRunning, LifeStopping, PostPcs, IoDown, HeavyDown, Goto
<1>27. CASE IoWaitWake
  BY <1>27, <1>t
     DEF IoWaitWake, WakeReadable, lifeVars, ioVars, heavyVars, LifeInv,
         LifeStopped, LifeRunning, LifeStopping, PostPcs, IoDown, HeavyDown,
         Goto
<1>28. CASE IoWaitOther
  BY <1>28, <1>t
     DEF IoWaitOther, WakeReadable, lifeVars, ioVars, heavyVars, LifeInv,
         LifeStopped, LifeRunning, LifeStopping, PostPcs, IoDown, HeavyDown,
         Goto
<1>29. CASE IoScan
  BY <1>29, <1>t
     DEF IoScan, lifeVars, ioVars, heavyVars, LifeInv, LifeStopped,
         LifeRunning, LifeStopping, PostPcs, IoDown, HeavyDown, Goto
<1>30. CASE IoDrain
  BY <1>30, <1>t
     DEF IoDrain, lifeVars, ioVars, heavyVars, LifeInv, LifeStopped,
         LifeRunning, LifeStopping, PostPcs, IoDown, HeavyDown, Goto
<1>31. CASE IoSwap
  BY <1>31, <1>t
     DEF IoSwap, lifeVars, ioVars, heavyVars, LifeInv, LifeStopped,
         LifeRunning, LifeStopping, PostPcs, IoDown, HeavyDown, Goto
<1>32. CASE IoRun
  BY <1>32, <1>t
     DEF IoRun, lifeVars, ioVars, heavyVars, LifeInv, LifeStopped,
         LifeRunning, LifeStopping, PostPcs, IoDown, HeavyDown, Goto
<1>33. CASE IoClear
  BY <1>33, <1>t
     DEF IoClear, lifeVars, ioVars, heavyVars, LifeInv, LifeStopped,
         LifeRunning, LifeStopping, PostPcs, IoDown, HeavyDown, Goto
<1>34. CASE IoReturn
  BY <1>34, <1>t
     DEF IoReturn, lifeVars, ioVars, heavyVars, LifeInv, LifeStopped,
         LifeRunning, LifeStopping, PostPcs, IoDown, HeavyDown, Goto
<1>35. CASE HeavyWhile
  BY <1>35, <1>t
     DEF HeavyWhile, lifeVars, ioVars, heavyVars, LifeInv, LifeStopped,
         LifeRunning, LifeStopping, PostPcs, IoDown, HeavyDown, Goto
<1>36. CASE HeavyLock
  BY <1>36, <1>t
     DEF HeavyLock, lifeVars, ioVars, heavyVars, LifeInv, LifeStopped,
         LifeRunning, LifeStopping, PostPcs, IoDown, HeavyDown, Goto
<1>37. CASE HeavySwap
  BY <1>37, <1>t
     DEF HeavySwap, lifeVars, ioVars, heavyVars, LifeInv, LifeStopped,
         LifeRunning, LifeStopping, PostPcs, IoDown, HeavyDown, Goto
<1>38. CASE HeavyPredicateFalse
  BY <1>38, <1>t
     DEF HeavyPredicateFalse, lifeVars, ioVars, heavyVars, LifeInv,
         LifeStopped, LifeRunning, LifeStopping, PostPcs, IoDown, HeavyDown,
         Goto
<1>39. CASE HeavyBlock
  BY <1>39, <1>t
     DEF HeavyBlock, lifeVars, ioVars, heavyVars, LifeInv, LifeStopped,
         LifeRunning, LifeStopping, PostPcs, IoDown, HeavyDown, Goto
<1>40. CASE HeavySpurious
  BY <1>40, <1>t
     DEF HeavySpurious, lifeVars, ioVars, heavyVars, LifeInv, LifeStopped,
         LifeRunning, LifeStopping, PostPcs, IoDown, HeavyDown, Goto
<1>41. CASE HeavyRun
  BY <1>41, <1>t
     DEF HeavyRun, lifeVars, ioVars, heavyVars, LifeInv, LifeStopped,
         LifeRunning, LifeStopping, PostPcs, IoDown, HeavyDown, Goto
<1>42. CASE HeavyClear
  BY <1>42, <1>t
     DEF HeavyClear, lifeVars, ioVars, heavyVars, LifeInv, LifeStopped,
         LifeRunning, LifeStopping, PostPcs, IoDown, HeavyDown, Goto
<1>43. CASE HeavyReturn
  BY <1>43, <1>t
     DEF HeavyReturn, lifeVars, ioVars, heavyVars, LifeInv, LifeStopped,
         LifeRunning, LifeStopping, PostPcs, IoDown, HeavyDown, Goto
<1>44. CASE UNCHANGED vars
  BY <1>44, <1>t
     DEF vars, lifeVars, ioVars, heavyVars, LifeInv, LifeStopped,
         LifeRunning, LifeStopping, IoDown, HeavyDown
<1> QED
  BY <1>1, <1>2, <1>3, <1>4, <1>5, <1>6, <1>7, <1>8, <1>9, <1>10, <1>11,
     <1>12, <1>13, <1>14, <1>15, <1>16, <1>17, <1>18, <1>19, <1>20, <1>21,
     <1>22, <1>23, <1>24, <1>25, <1>26, <1>27, <1>28, <1>29, <1>30, <1>31,
     <1>32, <1>33, <1>34, <1>35, <1>36, <1>37, <1>38, <1>39, <1>40, <1>41,
     <1>42, <1>43, <1>44
     DEF Next, CallStep, UserStep, IoStep, HeavyStep

-------------------------------------------------------------------------------
\* Every batch that epoll_wait may return with the eventfd in it does hold it.
LEMMA WakeInBatch ==
  /\ "wake" \in Elements(<<"wake">>)
  /\ "wake" \in Elements(<<"wake", "fd">>)
  /\ "wake" \in Elements(<<"fd", "wake">>)
<1>1. 1 \in DOMAIN <<"wake">> /\ <<"wake">>[1] = "wake"
  OBVIOUS
<1>2. 1 \in DOMAIN <<"wake", "fd">> /\ <<"wake", "fd">>[1] = "wake"
  OBVIOUS
<1>3. 2 \in DOMAIN <<"fd", "wake">> /\ <<"fd", "wake">>[2] = "wake"
  OBVIOUS
<1> QED
  BY <1>1, <1>2, <1>3 DEF Elements

\* Scanning an event removes no other event from the batch.
LEMMA HeadOrTail ==
  ASSUME NEW S, NEW s \in Seq(S), s # <<>>
  PROVE  Elements(s) \subseteq {Head(s)} \cup Elements(Tail(s))
<1> SUFFICES ASSUME NEW i \in 1..Len(s), i # 1
             PROVE  s[i] \in Elements(Tail(s))
  BY DEF Elements
<1>1. i - 1 \in 1..Len(Tail(s)) /\ Tail(s)[i - 1] = s[i]
  OBVIOUS
<1>2. i - 1 \in DOMAIN Tail(s)
  BY <1>1
<1> QED
  BY <1>1, <1>2 DEF Elements

\* No step loses the wake-up of a queued io task.  The swap relies on
\* io_exe_queue_ being empty, a launch on the previous io thread having ended.
LEMMA IoQueueInductive ==
  ASSUME NEW c \in Clients, TypeOK, LifeInv(c), IoQueueInv, [Next]_vars
  PROVE  IoQueueInv'
<1> DEFINE Goal == IoQueueInv'
<1>t. /\ call \in [Threads -> CallPcs] /\ c \in Threads
      /\ exe_state \in {"Stopped", "Running", "Stopping"}
      /\ io_evs \in Seq({"wake", "fd"})
      /\ io_buffer_queue \in Seq(IoTasks) /\ io_exe_queue \in Seq(IoTasks)
  BY DEF TypeOK, Threads
<1>1. ASSUME NEW t \in Threads, NEW task \in IoTasks,
             post_io_task(t, task)
      PROVE  Goal
  BY <1>1, <1>t
     DEF post_io_task, MayCall, lifeVars, ioVars, heavyVars, Goto,
         IoQueueInv, IoWakeupNotLost, Elements, WakeReadable
<1>2. ASSUME NEW t \in Threads, NEW task \in HeavyTasks,
             post_heavy_task(t, task)
      PROVE  Goal
  BY <1>2, <1>t
     DEF post_heavy_task, MayCall, HeavyPush, lifeVars, ioVars, heavyVars,
         Goto, IoQueueInv, IoWakeupNotLost, Elements, WakeReadable
<1>3. ASSUME NEW t \in Threads, start(t) PROVE Goal
  BY <1>3, <1>t
     DEF start, MayCall, lifeVars, ioVars, heavyVars, Goto, IoQueueInv,
         IoWakeupNotLost, Elements, WakeReadable
<1>4. ASSUME NEW t \in Threads, stop(t) PROVE Goal
  BY <1>4, <1>t
     DEF stop, MayCall, lifeVars, ioVars, heavyVars, Goto, IoQueueInv,
         IoWakeupNotLost, Elements, WakeReadable
<1>5. ASSUME NEW t \in Threads, Destroy(t) PROVE Goal
  BY <1>5, <1>t
     DEF Destroy, MayCall, lifeVars, ioVars, heavyVars, Goto, IoQueueInv,
         IoWakeupNotLost, Elements, WakeReadable
<1>6. ASSUME NEW t \in Threads, wake_io_up(t) PROVE Goal
  BY <1>6, <1>t
     DEF wake_io_up, WriteWakeFd, lifeVars, ioVars, heavyVars, Goto,
         IoQueueInv, IoWakeupNotLost, Elements, WakeReadable
<1>7. ASSUME NEW t \in Threads, wake_heavy_up(t) PROVE Goal
  BY <1>7, <1>t
     DEF wake_heavy_up, NotifyHeavy, lifeVars, ioVars, heavyVars, Goto,
         IoQueueInv, IoWakeupNotLost, Elements, WakeReadable
<1>8. ASSUME NEW t \in Threads, StartTestIo(t) PROVE Goal
  BY <1>8, <1>t
     DEF StartTestIo, lifeVars, ioVars, heavyVars, Goto, IoQueueInv,
         IoWakeupNotLost, Elements, WakeReadable
<1>9. ASSUME NEW t \in Threads, StartJoinIo(t) PROVE Goal
  BY <1>9, <1>t
     DEF StartJoinIo, lifeVars, ioVars, heavyVars, Goto, IoQueueInv,
         IoWakeupNotLost, Elements, WakeReadable
<1>10. ASSUME NEW t \in Threads, StartTestHeavy(t) PROVE Goal
  BY <1>10, <1>t
     DEF StartTestHeavy, lifeVars, ioVars, heavyVars, Goto, IoQueueInv,
         IoWakeupNotLost, Elements, WakeReadable
<1>11. ASSUME NEW t \in Threads, StartJoinHeavy(t) PROVE Goal
  BY <1>11, <1>t
     DEF StartJoinHeavy, lifeVars, ioVars, heavyVars, Goto, IoQueueInv,
         IoWakeupNotLost, Elements, WakeReadable
<1>12. ASSUME NEW t \in Threads, StartCas(t) PROVE Goal
  BY <1>12, <1>t
     DEF StartCas, lifeVars, ioVars, heavyVars, Goto, IoQueueInv,
         IoWakeupNotLost, Elements, WakeReadable
<1>13. ASSUME NEW t \in Threads, StartSpawnIo(t) PROVE Goal
  BY <1>13, <1>t
     DEF StartSpawnIo, lifeVars, ioVars, heavyVars, Goto, IoQueueInv,
         IoWakeupNotLost, Elements, WakeReadable, LifeInv, LifeStopped,
         LifeRunning, LifeStopping, PostPcs, IoDown
<1>14. ASSUME NEW t \in Threads, StartAssignIo(t) PROVE Goal
  BY <1>14, <1>t
     DEF StartAssignIo, lifeVars, ioVars, heavyVars, Goto, IoQueueInv,
         IoWakeupNotLost, Elements, WakeReadable
<1>15. ASSUME NEW t \in Threads, StartSpawnHeavy(t) PROVE Goal
  BY <1>15, <1>t
     DEF StartSpawnHeavy, lifeVars, ioVars, heavyVars, Goto, IoQueueInv,
         IoWakeupNotLost, Elements, WakeReadable
<1>16. ASSUME NEW t \in Threads, StartAssignHeavy(t) PROVE Goal
  BY <1>16, <1>t
     DEF StartAssignHeavy, lifeVars, ioVars, heavyVars, Goto, IoQueueInv,
         IoWakeupNotLost, Elements, WakeReadable
<1>17. ASSUME NEW t \in Threads, StopCas(t) PROVE Goal
  BY <1>17, <1>t
     DEF StopCas, lifeVars, ioVars, heavyVars, Goto, IoQueueInv,
         IoWakeupNotLost, Elements, WakeReadable
<1>18. ASSUME NEW t \in Threads, StopTestIo(t) PROVE Goal
  BY <1>18, <1>t
     DEF StopTestIo, lifeVars, ioVars, heavyVars, Goto, IoQueueInv,
         IoWakeupNotLost, Elements, WakeReadable
<1>19. ASSUME NEW t \in Threads, StopWakeIo(t) PROVE Goal
  BY <1>19, <1>t
     DEF StopWakeIo, WriteWakeFd, lifeVars, ioVars, heavyVars, Goto,
         IoQueueInv, IoWakeupNotLost, Elements, WakeReadable
<1>20. ASSUME NEW t \in Threads, StopJoinIo(t) PROVE Goal
  BY <1>20, <1>t
     DEF StopJoinIo, lifeVars, ioVars, heavyVars, Goto, IoQueueInv,
         IoWakeupNotLost, Elements, WakeReadable
<1>21. ASSUME NEW t \in Threads, StopTestHeavy(t) PROVE Goal
  BY <1>21, <1>t
     DEF StopTestHeavy, lifeVars, ioVars, heavyVars, Goto, IoQueueInv,
         IoWakeupNotLost, Elements, WakeReadable
<1>22. ASSUME NEW t \in Threads, StopWakeHeavy(t) PROVE Goal
  BY <1>22, <1>t
     DEF StopWakeHeavy, NotifyHeavy, lifeVars, ioVars, heavyVars, Goto,
         IoQueueInv, IoWakeupNotLost, Elements, WakeReadable
<1>23. ASSUME NEW t \in Threads, StopJoinHeavy(t) PROVE Goal
  BY <1>23, <1>t
     DEF StopJoinHeavy, lifeVars, ioVars, heavyVars, Goto, IoQueueInv,
         IoWakeupNotLost, Elements, WakeReadable
<1>24. ASSUME NEW t \in Threads, StopEnd(t) PROVE Goal
  BY <1>24, <1>t
     DEF StopEnd, lifeVars, ioVars, heavyVars, Goto, IoQueueInv,
         IoWakeupNotLost, Elements, WakeReadable
<1>25. ASSUME NEW t \in Threads, DestroyJoin(t) PROVE Goal
  BY <1>25, <1>t
     DEF DestroyJoin, lifeVars, ioVars, heavyVars, Goto, IoQueueInv,
         IoWakeupNotLost, Elements, WakeReadable
<1>26. CASE IoWhile
  BY <1>26, <1>t
     DEF IoWhile, lifeVars, ioVars, heavyVars, Goto, IoQueueInv,
         IoWakeupNotLost, Elements, WakeReadable
<1>27. CASE IoWaitWake
  <2>1. "wake" \in Elements(io_evs')
    <3>1. /\ "wake" \in Elements(<<"wake">>)
          /\ "wake" \in Elements(<<"wake", "fd">>)
          /\ "wake" \in Elements(<<"fd", "wake">>)
      BY WakeInBatch
    <3> QED
      BY <1>27, <3>1 DEF IoWaitWake
  <2> QED
    BY <1>27, <2>1
       DEF IoWaitWake, lifeVars, ioVars, heavyVars, IoQueueInv,
           IoWakeupNotLost
<1>28. CASE IoWaitOther
  BY <1>28, <1>t
     DEF IoWaitOther, WakeReadable, lifeVars, ioVars, heavyVars, Goto,
         IoQueueInv, IoWakeupNotLost, Elements
<1>29. CASE IoScan
  <2>1. CASE io_evs = <<>>
    <3>1. "wake" \notin Elements(io_evs)
      BY <2>1 DEF Elements
    <3> QED
      BY <1>29, <2>1, <3>1
         DEF IoScan, lifeVars, ioVars, heavyVars, IoQueueInv,
             IoWakeupNotLost, WakeReadable
  <2>2. CASE io_evs # <<>>
    <3>1. Elements(io_evs) \subseteq {Head(io_evs)} \cup Elements(Tail(io_evs))
      BY <1>t, <2>2, HeadOrTail
    <3> QED
      BY <1>29, <2>2, <3>1
         DEF IoScan, lifeVars, ioVars, heavyVars, IoQueueInv,
             IoWakeupNotLost, WakeReadable
  <2> QED
    BY <2>1, <2>2
<1>30. CASE IoDrain
  BY <1>30, <1>t
     DEF IoDrain, lifeVars, ioVars, heavyVars, Goto, IoQueueInv,
         IoWakeupNotLost, Elements, WakeReadable
<1>31. CASE IoSwap
  BY <1>31, <1>t
     DEF IoSwap, lifeVars, ioVars, heavyVars, Goto, IoQueueInv,
         IoWakeupNotLost, Elements, WakeReadable
<1>32. CASE IoRun
  BY <1>32, <1>t
     DEF IoRun, lifeVars, ioVars, heavyVars, Goto, IoQueueInv,
         IoWakeupNotLost, Elements, WakeReadable
<1>33. CASE IoClear
  BY <1>33, <1>t
     DEF IoClear, lifeVars, ioVars, heavyVars, Goto, IoQueueInv,
         IoWakeupNotLost, Elements, WakeReadable
<1>34. CASE IoReturn
  BY <1>34, <1>t
     DEF IoReturn, lifeVars, ioVars, heavyVars, Goto, IoQueueInv,
         IoWakeupNotLost, Elements, WakeReadable
<1>35. CASE HeavyWhile
  BY <1>35, <1>t
     DEF HeavyWhile, lifeVars, ioVars, heavyVars, Goto, IoQueueInv,
         IoWakeupNotLost, Elements, WakeReadable
<1>36. CASE HeavyLock
  BY <1>36, <1>t
     DEF HeavyLock, lifeVars, ioVars, heavyVars, Goto, IoQueueInv,
         IoWakeupNotLost, Elements, WakeReadable
<1>37. CASE HeavySwap
  BY <1>37, <1>t
     DEF HeavySwap, lifeVars, ioVars, heavyVars, Goto, IoQueueInv,
         IoWakeupNotLost, Elements, WakeReadable
<1>38. CASE HeavyPredicateFalse
  BY <1>38, <1>t
     DEF HeavyPredicateFalse, lifeVars, ioVars, heavyVars, Goto,
         IoQueueInv, IoWakeupNotLost, Elements, WakeReadable
<1>39. CASE HeavyBlock
  BY <1>39, <1>t
     DEF HeavyBlock, lifeVars, ioVars, heavyVars, Goto, IoQueueInv,
         IoWakeupNotLost, Elements, WakeReadable
<1>40. CASE HeavySpurious
  BY <1>40, <1>t
     DEF HeavySpurious, lifeVars, ioVars, heavyVars, Goto, IoQueueInv,
         IoWakeupNotLost, Elements, WakeReadable
<1>41. CASE HeavyRun
  BY <1>41, <1>t
     DEF HeavyRun, lifeVars, ioVars, heavyVars, Goto, IoQueueInv,
         IoWakeupNotLost, Elements, WakeReadable
<1>42. CASE HeavyClear
  BY <1>42, <1>t
     DEF HeavyClear, lifeVars, ioVars, heavyVars, Goto, IoQueueInv,
         IoWakeupNotLost, Elements, WakeReadable
<1>43. CASE HeavyReturn
  BY <1>43, <1>t
     DEF HeavyReturn, lifeVars, ioVars, heavyVars, Goto, IoQueueInv,
         IoWakeupNotLost, Elements, WakeReadable
<1>44. CASE UNCHANGED vars
  BY <1>44, <1>t
     DEF vars, lifeVars, ioVars, heavyVars, IoQueueInv, IoWakeupNotLost,
         Elements, WakeReadable
<1> QED
  BY <1>1, <1>2, <1>3, <1>4, <1>5, <1>6, <1>7, <1>8, <1>9, <1>10, <1>11,
     <1>12, <1>13, <1>14, <1>15, <1>16, <1>17, <1>18, <1>19, <1>20, <1>21,
     <1>22, <1>23, <1>24, <1>25, <1>26, <1>27, <1>28, <1>29, <1>30, <1>31,
     <1>32, <1>33, <1>34, <1>35, <1>36, <1>37, <1>38, <1>39, <1>40, <1>41,
     <1>42, <1>43, <1>44
     DEF Next, CallStep, UserStep, IoStep, HeavyStep

-------------------------------------------------------------------------------
\* No step lets the heavy executor sleep over a queued task.
LEMMA HeavyQueueInductive ==
  ASSUME NEW c \in Clients, TypeOK, LifeInv(c), HeavyQueueInv, [Next]_vars
  PROVE  HeavyQueueInv'
<1> DEFINE Goal == HeavyQueueInv'
<1>t. /\ call \in [Threads -> CallPcs] /\ c \in Threads
      /\ exe_state \in {"Stopped", "Running", "Stopping"}
      /\ heavy_buffer_queue \in Seq(HeavyTasks)
      /\ heavy_exe_queue \in Seq(HeavyTasks)
  BY DEF TypeOK, Threads
<1>1. ASSUME NEW t \in Threads, NEW task \in IoTasks,
             post_io_task(t, task)
      PROVE  Goal
  BY <1>1, <1>t
     DEF post_io_task, MayCall, lifeVars, ioVars, heavyVars, Goto,
         HeavyQueueInv, HeavyWakeupNotLost
<1>2. ASSUME NEW t \in Threads, NEW task \in HeavyTasks,
             post_heavy_task(t, task)
      PROVE  Goal
  BY <1>2, <1>t
     DEF post_heavy_task, MayCall, HeavyPush, lifeVars, ioVars, heavyVars,
         Goto, HeavyQueueInv, HeavyWakeupNotLost, HeavyMtxFree
<1>3. ASSUME NEW t \in Threads, start(t) PROVE Goal
  BY <1>3, <1>t
     DEF start, MayCall, lifeVars, ioVars, heavyVars, Goto, HeavyQueueInv,
         HeavyWakeupNotLost
<1>4. ASSUME NEW t \in Threads, stop(t) PROVE Goal
  BY <1>4, <1>t
     DEF stop, MayCall, lifeVars, ioVars, heavyVars, Goto, HeavyQueueInv,
         HeavyWakeupNotLost
<1>5. ASSUME NEW t \in Threads, Destroy(t) PROVE Goal
  BY <1>5, <1>t
     DEF Destroy, MayCall, lifeVars, ioVars, heavyVars, Goto,
         HeavyQueueInv, HeavyWakeupNotLost
<1>6. ASSUME NEW t \in Threads, wake_io_up(t) PROVE Goal
  BY <1>6, <1>t
     DEF wake_io_up, WriteWakeFd, lifeVars, ioVars, heavyVars, Goto,
         HeavyQueueInv, HeavyWakeupNotLost
<1>7. ASSUME NEW t \in Threads, wake_heavy_up(t) PROVE Goal
  BY <1>7, <1>t
     DEF wake_heavy_up, NotifyHeavy, lifeVars, ioVars, heavyVars, Goto,
         HeavyQueueInv, HeavyWakeupNotLost
<1>8. ASSUME NEW t \in Threads, StartTestIo(t) PROVE Goal
  BY <1>8, <1>t
     DEF StartTestIo, lifeVars, ioVars, heavyVars, Goto, HeavyQueueInv,
         HeavyWakeupNotLost
<1>9. ASSUME NEW t \in Threads, StartJoinIo(t) PROVE Goal
  BY <1>9, <1>t
     DEF StartJoinIo, lifeVars, ioVars, heavyVars, Goto, HeavyQueueInv,
         HeavyWakeupNotLost
<1>10. ASSUME NEW t \in Threads, StartTestHeavy(t) PROVE Goal
  BY <1>10, <1>t
     DEF StartTestHeavy, lifeVars, ioVars, heavyVars, Goto, HeavyQueueInv,
         HeavyWakeupNotLost
<1>11. ASSUME NEW t \in Threads, StartJoinHeavy(t) PROVE Goal
  BY <1>11, <1>t
     DEF StartJoinHeavy, lifeVars, ioVars, heavyVars, Goto, HeavyQueueInv,
         HeavyWakeupNotLost
<1>12. ASSUME NEW t \in Threads, StartCas(t) PROVE Goal
  BY <1>12, <1>t
     DEF StartCas, lifeVars, ioVars, heavyVars, Goto, HeavyQueueInv,
         HeavyWakeupNotLost
<1>13. ASSUME NEW t \in Threads, StartSpawnIo(t) PROVE Goal
  BY <1>13, <1>t
     DEF StartSpawnIo, lifeVars, ioVars, heavyVars, Goto, HeavyQueueInv,
         HeavyWakeupNotLost
<1>14. ASSUME NEW t \in Threads, StartAssignIo(t) PROVE Goal
  BY <1>14, <1>t
     DEF StartAssignIo, lifeVars, ioVars, heavyVars, Goto, HeavyQueueInv,
         HeavyWakeupNotLost
<1>15. ASSUME NEW t \in Threads, StartSpawnHeavy(t) PROVE Goal
  BY <1>15, <1>t
     DEF StartSpawnHeavy, lifeVars, ioVars, heavyVars, Goto, HeavyQueueInv,
         HeavyWakeupNotLost, LifeInv, LifeStopped, LifeRunning, LifeStopping,
         PostPcs, HeavyDown
<1>16. ASSUME NEW t \in Threads, StartAssignHeavy(t) PROVE Goal
  BY <1>16, <1>t
     DEF StartAssignHeavy, lifeVars, ioVars, heavyVars, Goto,
         HeavyQueueInv, HeavyWakeupNotLost
<1>17. ASSUME NEW t \in Threads, StopCas(t) PROVE Goal
  BY <1>17, <1>t
     DEF StopCas, lifeVars, ioVars, heavyVars, Goto, HeavyQueueInv,
         HeavyWakeupNotLost
<1>18. ASSUME NEW t \in Threads, StopTestIo(t) PROVE Goal
  BY <1>18, <1>t
     DEF StopTestIo, lifeVars, ioVars, heavyVars, Goto, HeavyQueueInv,
         HeavyWakeupNotLost
<1>19. ASSUME NEW t \in Threads, StopWakeIo(t) PROVE Goal
  BY <1>19, <1>t
     DEF StopWakeIo, WriteWakeFd, lifeVars, ioVars, heavyVars, Goto,
         HeavyQueueInv, HeavyWakeupNotLost
<1>20. ASSUME NEW t \in Threads, StopJoinIo(t) PROVE Goal
  BY <1>20, <1>t
     DEF StopJoinIo, lifeVars, ioVars, heavyVars, Goto, HeavyQueueInv,
         HeavyWakeupNotLost
<1>21. ASSUME NEW t \in Threads, StopTestHeavy(t) PROVE Goal
  BY <1>21, <1>t
     DEF StopTestHeavy, lifeVars, ioVars, heavyVars, Goto, HeavyQueueInv,
         HeavyWakeupNotLost
<1>22. ASSUME NEW t \in Threads, StopWakeHeavy(t) PROVE Goal
  BY <1>22, <1>t
     DEF StopWakeHeavy, NotifyHeavy, lifeVars, ioVars, heavyVars, Goto,
         HeavyQueueInv, HeavyWakeupNotLost
<1>23. ASSUME NEW t \in Threads, StopJoinHeavy(t) PROVE Goal
  BY <1>23, <1>t
     DEF StopJoinHeavy, lifeVars, ioVars, heavyVars, Goto, HeavyQueueInv,
         HeavyWakeupNotLost
<1>24. ASSUME NEW t \in Threads, StopEnd(t) PROVE Goal
  BY <1>24, <1>t
     DEF StopEnd, lifeVars, ioVars, heavyVars, Goto, HeavyQueueInv,
         HeavyWakeupNotLost
<1>25. ASSUME NEW t \in Threads, DestroyJoin(t) PROVE Goal
  BY <1>25, <1>t
     DEF DestroyJoin, lifeVars, ioVars, heavyVars, Goto, HeavyQueueInv,
         HeavyWakeupNotLost
<1>26. CASE IoWhile
  BY <1>26, <1>t
     DEF IoWhile, lifeVars, ioVars, heavyVars, Goto, HeavyQueueInv,
         HeavyWakeupNotLost
<1>27. CASE IoWaitWake
  BY <1>27, <1>t
     DEF IoWaitWake, WakeReadable, lifeVars, ioVars, heavyVars, Goto,
         HeavyQueueInv, HeavyWakeupNotLost
<1>28. CASE IoWaitOther
  BY <1>28, <1>t
     DEF IoWaitOther, WakeReadable, lifeVars, ioVars, heavyVars, Goto,
         HeavyQueueInv, HeavyWakeupNotLost
<1>29. CASE IoScan
  BY <1>29, <1>t
     DEF IoScan, lifeVars, ioVars, heavyVars, Goto, HeavyQueueInv,
         HeavyWakeupNotLost
<1>30. CASE IoDrain
  BY <1>30, <1>t
     DEF IoDrain, lifeVars, ioVars, heavyVars, Goto, HeavyQueueInv,
         HeavyWakeupNotLost
<1>31. CASE IoSwap
  BY <1>31, <1>t
     DEF IoSwap, lifeVars, ioVars, heavyVars, Goto, HeavyQueueInv,
         HeavyWakeupNotLost
<1>32. CASE IoRun
  BY <1>32, <1>t
     DEF IoRun, lifeVars, ioVars, heavyVars, Goto, HeavyQueueInv,
         HeavyWakeupNotLost
<1>33. CASE IoClear
  BY <1>33, <1>t
     DEF IoClear, lifeVars, ioVars, heavyVars, Goto, HeavyQueueInv,
         HeavyWakeupNotLost
<1>34. CASE IoReturn
  BY <1>34, <1>t
     DEF IoReturn, lifeVars, ioVars, heavyVars, Goto, HeavyQueueInv,
         HeavyWakeupNotLost
<1>35. CASE HeavyWhile
  BY <1>35, <1>t
     DEF HeavyWhile, lifeVars, ioVars, heavyVars, Goto, HeavyQueueInv,
         HeavyWakeupNotLost
<1>36. CASE HeavyLock
  BY <1>36, <1>t
     DEF HeavyLock, lifeVars, ioVars, heavyVars, Goto, HeavyQueueInv,
         HeavyWakeupNotLost
<1>37. CASE HeavySwap
  BY <1>37, <1>t
     DEF HeavySwap, lifeVars, ioVars, heavyVars, Goto, HeavyQueueInv,
         HeavyWakeupNotLost
<1>38. CASE HeavyPredicateFalse
  BY <1>38, <1>t
     DEF HeavyPredicateFalse, lifeVars, ioVars, heavyVars, Goto,
         HeavyQueueInv, HeavyWakeupNotLost
<1>39. CASE HeavyBlock
  BY <1>39, <1>t
     DEF HeavyBlock, lifeVars, ioVars, heavyVars, Goto, HeavyQueueInv,
         HeavyWakeupNotLost
<1>40. CASE HeavySpurious
  BY <1>40, <1>t
     DEF HeavySpurious, lifeVars, ioVars, heavyVars, Goto, HeavyQueueInv,
         HeavyWakeupNotLost
<1>41. CASE HeavyRun
  BY <1>41, <1>t
     DEF HeavyRun, lifeVars, ioVars, heavyVars, Goto, HeavyQueueInv,
         HeavyWakeupNotLost
<1>42. CASE HeavyClear
  BY <1>42, <1>t
     DEF HeavyClear, lifeVars, ioVars, heavyVars, Goto, HeavyQueueInv,
         HeavyWakeupNotLost
<1>43. CASE HeavyReturn
  BY <1>43, <1>t
     DEF HeavyReturn, lifeVars, ioVars, heavyVars, Goto, HeavyQueueInv,
         HeavyWakeupNotLost
<1>44. CASE UNCHANGED vars
  BY <1>44, <1>t
     DEF vars, lifeVars, ioVars, heavyVars, HeavyQueueInv,
         HeavyWakeupNotLost
<1> QED
  BY <1>1, <1>2, <1>3, <1>4, <1>5, <1>6, <1>7, <1>8, <1>9, <1>10, <1>11,
     <1>12, <1>13, <1>14, <1>15, <1>16, <1>17, <1>18, <1>19, <1>20, <1>21,
     <1>22, <1>23, <1>24, <1>25, <1>26, <1>27, <1>28, <1>29, <1>30, <1>31,
     <1>32, <1>33, <1>34, <1>35, <1>36, <1>37, <1>38, <1>39, <1>40, <1>41,
     <1>42, <1>43, <1>44
     DEF Next, CallStep, UserStep, IoStep, HeavyStep

-------------------------------------------------------------------------------
\* A post adds the task at the end of the buffer queue.
LEMMA OrderPost ==
  ASSUME NEW S, NEW p \in Seq(S), NEW r \in Seq(S), NEW e \in Seq(S),
         NEW n \in Nat, NEW b \in Seq(S), NEW x \in S, InOrder(p, r, e, n, b),
         n \in 1..(Len(e) + 1)
  PROVE  InOrder(Append(p, x), r, e, n, Append(b, x))
<1> DEFINE q == Append(p, x)
           d == Append(b, x)
<1>1. /\ q \in Seq(S) /\ Len(q) = Len(p) + 1 /\ q[Len(p) + 1] = x
      /\ \A i \in 1..Len(p) : q[i] = p[i]
  OBVIOUS
<1>2. /\ d \in Seq(S) /\ Len(d) = Len(b) + 1 /\ d[Len(b) + 1] = x
      /\ \A i \in 1..Len(b) : d[i] = b[i]
  OBVIOUS
<1> HIDE DEF q, d
<1>3. Len(r) + Len(d) + Len(e) = Len(q) + (n - 1)
  <2> DEFINE lr == Len(r)
             lb == Len(b)
             le == Len(e)
             lp == Len(p)
  <2>1. /\ lr \in Nat /\ lb \in Nat /\ le \in Nat /\ lp \in Nat
        /\ lr + lb + le = lp + (n - 1)
    BY DEF InOrder
  <2> HIDE DEF lr, lb, le, lp
  <2>2. lr + (lb + 1) + le = (lp + 1) + (n - 1)
    BY <2>1
  <2> QED
    BY <1>1, <1>2, <2>2 DEF lr, lb, le, lp
<1>4. \A i \in 1..Len(r) : r[i] = q[i]
  <2>1. \A i \in 1..Len(r) : i \in 1..Len(p)
    BY DEF InOrder
  <2> QED
    BY <1>1, <2>1 DEF InOrder
<1>5. \A i \in 1..Len(e) : n <= i => e[i] = q[Len(r) + i - (n - 1)]
  <2>1. \A i \in 1..Len(e) : n <= i => Len(r) + i - (n - 1) \in 1..Len(p)
    BY DEF InOrder
  <2> QED
    BY <1>1, <2>1 DEF InOrder
<1>6. \A i \in 1..Len(d) : d[i] = q[Len(q) - Len(d) + i]
  <2>1. Len(q) - Len(d) = Len(p) - Len(b)
    BY <1>1, <1>2
  <2>2. ASSUME NEW i \in 1..Len(b) PROVE d[i] = q[Len(p) - Len(b) + i]
    <3>1. Len(p) - Len(b) + i \in 1..Len(p)
      BY DEF InOrder
    <3> QED
      BY <1>1, <1>2, <3>1 DEF InOrder
  <2>3. d[Len(b) + 1] = q[Len(p) - Len(b) + (Len(b) + 1)]
    <3>1. Len(p) - Len(b) + (Len(b) + 1) = Len(p) + 1
      OBVIOUS
    <3> QED
      BY <1>1, <1>2, <3>1
  <2>4. \A i \in 1..Len(d) : i \in 1..Len(b) \/ i = Len(b) + 1
    BY <1>2
  <2> QED
    BY <2>1, <2>2, <2>3, <2>4
<1>7. InOrder(q, r, e, n, d)
  BY <1>3, <1>4, <1>5, <1>6 DEF InOrder
<1> QED
  BY <1>7 DEF q, d

\* The swap hands the buffer queue to the executor whose queue is empty.
LEMMA OrderSwap ==
  ASSUME NEW S, NEW p \in Seq(S), NEW r \in Seq(S), NEW b \in Seq(S),
         InOrder(p, r, <<>>, 1, b)
  PROVE  InOrder(p, r, b, 1, <<>>)
<1>1. Len(r) = Len(p) - Len(b)
  BY DEF InOrder
<1>2. \A i \in 1..Len(b) : Len(r) + i - (1 - 1) = Len(p) - Len(b) + i
  BY <1>1
<1> QED
  BY <1>1, <1>2 DEF InOrder

\* The task that the range-for takes is the oldest one that has not run.
LEMMA OrderRun ==
  ASSUME NEW S, NEW p \in Seq(S), NEW r \in Seq(S), NEW e \in Seq(S),
         NEW n \in Nat, NEW b \in Seq(S), InOrder(p, r, e, n, b),
         n \in 1..Len(e)
  PROVE  /\ Len(r) < Len(p) /\ e[n] = p[Len(r) + 1]
         /\ InOrder(p, Append(r, e[n]), e, n + 1, b)
<1> DEFINE s == Append(r, e[n])
<1>1. Len(r) < Len(p) /\ e[n] = p[Len(r) + 1]
  <2>1. Len(r) + n - (n - 1) = Len(r) + 1
    OBVIOUS
  <2> QED
    BY <2>1 DEF InOrder
<1>2. /\ Len(s) = Len(r) + 1 /\ s[Len(r) + 1] = e[n]
      /\ \A i \in 1..Len(r) : s[i] = r[i]
  OBVIOUS
<1> HIDE DEF s
<1>3. \A i \in 1..Len(s) : s[i] = p[i]
  <2>1. \A i \in 1..Len(s) : i \in 1..Len(r) \/ i = Len(r) + 1
    BY <1>2
  <2> QED
    BY <1>1, <1>2, <2>1 DEF InOrder
<1>4. \A i \in 1..Len(e) :
        n + 1 <= i => e[i] = p[Len(s) + i - ((n + 1) - 1)]
  <2>1. \A i \in 1..Len(e) :
          /\ n + 1 <= i => n <= i
          /\ Len(s) + i - ((n + 1) - 1) = Len(r) + i - (n - 1)
    BY <1>2
  <2> QED
    BY <2>1 DEF InOrder
<1>5. Len(s) + Len(b) + Len(e) = Len(p) + ((n + 1) - 1)
  <2> DEFINE lr == Len(r)
             lb == Len(b)
             le == Len(e)
             lp == Len(p)
  <2>1. /\ lr \in Nat /\ lb \in Nat /\ le \in Nat /\ lp \in Nat
        /\ lr + lb + le = lp + (n - 1)
    BY DEF InOrder
  <2> HIDE DEF lr, lb, le, lp
  <2>2. (lr + 1) + lb + le = lp + ((n + 1) - 1)
    BY <2>1
  <2> QED
    BY <1>1, <1>2, <2>2 DEF lr, lb, le, lp
<1>6. InOrder(p, s, e, n + 1, b)
  BY <1>3, <1>4, <1>5 DEF InOrder
<1> QED
  BY <1>1, <1>6 DEF s

\* After the last task the executor's queue holds nothing that has not run.
LEMMA OrderClear ==
  ASSUME NEW S, NEW p \in Seq(S), NEW r \in Seq(S), NEW e \in Seq(S),
         NEW n \in Nat, NEW b \in Seq(S), InOrder(p, r, e, n, b),
         n = Len(e) + 1
  PROVE  InOrder(p, r, <<>>, 1, b)
  BY DEF InOrder

-------------------------------------------------------------------------------
\* Every step of the program is, for the io executor, a step of the abstract
\* FIFO executor, and keeps the order of its tasks.
LEMMA IoOrderInductive ==
  ASSUME TypeOK, IoQueueInv, IoOrder, [Next]_vars
  PROVE  IoOrder' /\ [IoFifo!FifoNext]_<<io_posted, io_ran>>
<1> DEFINE Goal == IoOrder' /\ [IoFifo!FifoNext]_<<io_posted, io_ran>>
<1>t. /\ io_posted \in Seq(IoTasks) /\ io_ran \in Seq(IoTasks)
      /\ io_exe_queue \in Seq(IoTasks) /\ io_buffer_queue \in Seq(IoTasks)
      /\ io_next \in Nat /\ io_next \in 1..(Len(io_exe_queue) + 1)
  BY DEF TypeOK
<1>1. ASSUME NEW t \in Threads, NEW task \in IoTasks, post_io_task(t, task)
      PROVE  Goal
  <2>1. /\ io_posted' = Append(io_posted, task)
        /\ io_buffer_queue' = Append(io_buffer_queue, task)
        /\ UNCHANGED <<io_exe_queue, io_next, io_ran>>
    BY <1>1 DEF post_io_task
  <2>2. IoOrder'
    BY <1>t, <2>1, OrderPost DEF IoOrder
  <2>3. IoFifo!Post(task)
    BY <2>1 DEF IoFifo!Post
  <2> QED
    BY <2>2, <2>3 DEF IoFifo!FifoNext
<1>2. CASE IoSwap
  <2>1. /\ io_exe_queue = <<>> /\ io_next = 1
        /\ io_exe_queue' = io_buffer_queue /\ io_buffer_queue' = <<>>
        /\ io_next' = 1 /\ UNCHANGED <<io_posted, io_ran>>
    BY <1>2, <1>t DEF IoSwap, IoQueueInv
  <2> QED
    BY <1>t, <2>1, OrderSwap DEF IoOrder
<1>3. CASE IoRun
  <2>1. /\ io_next \in 1..Len(io_exe_queue)
        /\ io_ran' = Append(io_ran, io_exe_queue[io_next])
        /\ io_next' = io_next + 1
        /\ UNCHANGED <<io_posted, io_exe_queue, io_buffer_queue>>
    BY <1>3, <1>t DEF IoRun
  <2>2. /\ Len(io_ran) < Len(io_posted)
        /\ io_exe_queue[io_next] = io_posted[Len(io_ran) + 1]
        /\ IoOrder'
    BY <1>t, <2>1, OrderRun DEF IoOrder
  <2>3. IoFifo!Run
    BY <2>1, <2>2 DEF IoFifo!Run
  <2> QED
    BY <2>2, <2>3 DEF IoFifo!FifoNext
<1>4. CASE IoClear
  <2>1. /\ io_next = Len(io_exe_queue) + 1
        /\ io_exe_queue' = <<>> /\ io_next' = 1
        /\ UNCHANGED <<io_posted, io_ran, io_buffer_queue>>
    BY <1>4, <1>t DEF IoClear
  <2> QED
    BY <1>t, <2>1, OrderClear DEF IoOrder
<1>5. ASSUME UNCHANGED <<io_posted, io_ran, io_exe_queue, io_next,
                         io_buffer_queue>>
      PROVE  Goal
  BY <1>5 DEF IoOrder
<1>6. ASSUME NEW t \in Threads, CallStep(t) PROVE Goal
  BY <1>5, <1>6
     DEF CallStep, wake_io_up, wake_heavy_up, StartTestIo, StartJoinIo,
         StartTestHeavy, StartJoinHeavy, StartCas, StartSpawnIo, StartAssignIo,
         StartSpawnHeavy, StartAssignHeavy, StopCas, StopTestIo, StopWakeIo,
         StopJoinIo, StopTestHeavy, StopWakeHeavy, StopJoinHeavy, StopEnd,
         DestroyJoin, WriteWakeFd, NotifyHeavy, lifeVars, ioVars, heavyVars
<1>7. ASSUME NEW t \in Threads,
             start(t) \/ stop(t) \/ Destroy(t)
               \/ \E task \in HeavyTasks : post_heavy_task(t, task)
      PROVE  Goal
  BY <1>5, <1>7
     DEF start, stop, Destroy, post_heavy_task, HeavyPush, lifeVars,
         ioVars, heavyVars
<1>8. CASE HeavyStep \/ HeavySpurious
  BY <1>5, <1>8
     DEF HeavyStep, HeavyWhile, HeavyLock, HeavySwap, HeavyPredicateFalse,
         HeavyBlock, HeavySpurious, HeavyRun, HeavyClear, HeavyReturn,
         lifeVars, ioVars, heavyVars
<1>9. CASE IoWhile \/ IoWaitWake \/ IoWaitOther \/ IoScan \/ IoDrain \/
             IoReturn
  BY <1>5, <1>9
     DEF IoWhile, IoWaitWake, IoWaitOther, IoScan, IoDrain, IoReturn,
         lifeVars, ioVars, heavyVars
<1>10. CASE UNCHANGED vars
  BY <1>5, <1>10 DEF vars, ioVars, heavyVars
<1> QED
  BY <1>1, <1>2, <1>3, <1>4, <1>6, <1>7, <1>8, <1>9, <1>10
     DEF Next, UserStep, IoStep, HeavyStep

-------------------------------------------------------------------------------
\* Every step of the program is, for the heavy executor, a step of the abstract
\* FIFO executor, and keeps the order of its tasks.
LEMMA HeavyOrderInductive ==
  ASSUME TypeOK, HeavyQueueInv, HeavyOrder, [Next]_vars
  PROVE  HeavyOrder' /\ [HeavyFifo!FifoNext]_<<heavy_posted, heavy_ran>>
<1> DEFINE Goal == HeavyOrder' /\ [HeavyFifo!FifoNext]_<<heavy_posted, heavy_ran>>
<1>t. /\ heavy_posted \in Seq(HeavyTasks) /\ heavy_ran \in Seq(HeavyTasks)
      /\ heavy_exe_queue \in Seq(HeavyTasks) /\ heavy_buffer_queue \in Seq(HeavyTasks)
      /\ heavy_next \in Nat /\ heavy_next \in 1..(Len(heavy_exe_queue) + 1)
  BY DEF TypeOK
<1>1. ASSUME NEW t \in Threads, NEW task \in HeavyTasks, post_heavy_task(t, task)
      PROVE  Goal
  <2>1. /\ heavy_posted' = Append(heavy_posted, task)
        /\ heavy_buffer_queue' = Append(heavy_buffer_queue, task)
        /\ UNCHANGED <<heavy_exe_queue, heavy_next, heavy_ran>>
    BY <1>1 DEF post_heavy_task, HeavyPush
  <2>2. HeavyOrder'
    BY <1>t, <2>1, OrderPost DEF HeavyOrder
  <2>3. HeavyFifo!Post(task)
    BY <2>1 DEF HeavyFifo!Post
  <2> QED
    BY <2>2, <2>3 DEF HeavyFifo!FifoNext
<1>2. CASE HeavySwap
  <2>1. /\ heavy_exe_queue = <<>> /\ heavy_next = 1
        /\ heavy_exe_queue' = heavy_buffer_queue /\ heavy_buffer_queue' = <<>>
        /\ heavy_next' = 1 /\ UNCHANGED <<heavy_posted, heavy_ran>>
    BY <1>2, <1>t DEF HeavySwap, HeavyQueueInv
  <2> QED
    BY <1>t, <2>1, OrderSwap DEF HeavyOrder
<1>3. CASE HeavyRun
  <2>1. /\ heavy_next \in 1..Len(heavy_exe_queue)
        /\ heavy_ran' = Append(heavy_ran, heavy_exe_queue[heavy_next])
        /\ heavy_next' = heavy_next + 1
        /\ UNCHANGED <<heavy_posted, heavy_exe_queue, heavy_buffer_queue>>
    BY <1>3, <1>t DEF HeavyRun
  <2>2. /\ Len(heavy_ran) < Len(heavy_posted)
        /\ heavy_exe_queue[heavy_next] = heavy_posted[Len(heavy_ran) + 1]
        /\ HeavyOrder'
    BY <1>t, <2>1, OrderRun DEF HeavyOrder
  <2>3. HeavyFifo!Run
    BY <2>1, <2>2 DEF HeavyFifo!Run
  <2> QED
    BY <2>2, <2>3 DEF HeavyFifo!FifoNext
<1>4. CASE HeavyClear
  <2>1. /\ heavy_next = Len(heavy_exe_queue) + 1
        /\ heavy_exe_queue' = <<>> /\ heavy_next' = 1
        /\ UNCHANGED <<heavy_posted, heavy_ran, heavy_buffer_queue>>
    BY <1>4, <1>t DEF HeavyClear
  <2> QED
    BY <1>t, <2>1, OrderClear DEF HeavyOrder
<1>5. ASSUME UNCHANGED <<heavy_posted, heavy_ran, heavy_exe_queue, heavy_next,
                         heavy_buffer_queue>>
      PROVE  Goal
  BY <1>5 DEF HeavyOrder
<1>6. ASSUME NEW t \in Threads, CallStep(t) PROVE Goal
  BY <1>5, <1>6
     DEF CallStep, wake_io_up, wake_heavy_up, StartTestIo, StartJoinIo,
         StartTestHeavy, StartJoinHeavy, StartCas, StartSpawnIo, StartAssignIo,
         StartSpawnHeavy, StartAssignHeavy, StopCas, StopTestIo, StopWakeIo,
         StopJoinIo, StopTestHeavy, StopWakeHeavy, StopJoinHeavy, StopEnd,
         DestroyJoin, WriteWakeFd, NotifyHeavy, lifeVars, ioVars, heavyVars
<1>7. ASSUME NEW t \in Threads,
             start(t) \/ stop(t) \/ Destroy(t)
               \/ \E task \in IoTasks : post_io_task(t, task)
      PROVE  Goal
  BY <1>5, <1>7
     DEF start, stop, Destroy, post_io_task, lifeVars, ioVars, heavyVars
<1>8. CASE IoStep \/ IoWaitOther
  BY <1>5, <1>8
     DEF IoStep, IoWhile, IoWaitWake, IoWaitOther, IoScan, IoDrain, IoSwap,
         IoRun, IoClear, IoReturn, lifeVars, ioVars, heavyVars
<1>9. CASE HeavyWhile \/ HeavyLock \/ HeavyPredicateFalse \/ HeavyBlock
             \/ HeavySpurious \/ HeavyReturn
  BY <1>5, <1>9
     DEF HeavyWhile, HeavyLock, HeavyPredicateFalse, HeavyBlock,
         HeavySpurious, HeavyReturn, lifeVars, ioVars, heavyVars
<1>10. CASE UNCHANGED vars
  BY <1>5, <1>10 DEF vars, ioVars, heavyVars
<1> QED
  BY <1>1, <1>2, <1>3, <1>4, <1>6, <1>7, <1>8, <1>9, <1>10
     DEF Next, UserStep, IoStep, HeavyStep

-------------------------------------------------------------------------------
\* The Loop constructor leaves every variable well typed.
LEMMA InitType == Init => TypeOK
<1> SUFFICES ASSUME Init PROVE TypeOK
  OBVIOUS
<1>1. call \in [Threads -> CallPcs]
  BY DEF Init, CallPcs
<1>2. /\ io_buffer_queue \in Seq(IoTasks) /\ io_exe_queue \in Seq(IoTasks)
      /\ heavy_buffer_queue \in Seq(HeavyTasks)
      /\ heavy_exe_queue \in Seq(HeavyTasks)
      /\ io_posted \in Seq(IoTasks) /\ io_ran \in Seq(IoTasks)
      /\ heavy_posted \in Seq(HeavyTasks) /\ heavy_ran \in Seq(HeavyTasks)
      /\ io_evs \in Seq({"wake", "fd"})
  BY DEF Init
<1>3. /\ io_next \in 1..(Len(io_exe_queue) + 1)
      /\ heavy_next \in 1..(Len(heavy_exe_queue) + 1)
  BY DEF Init
<1> QED
  BY <1>1, <1>2, <1>3 DEF Init, TypeOK, IoPcs, HeavyPcs

\* The Loop constructor establishes the inductive invariant.
LEMMA InitIInv == ASSUME NEW c \in Clients PROVE Init => IInv(c)
<1> SUFFICES ASSUME Init PROVE IInv(c)
  OBVIOUS
<1>1. TypeOK
  BY InitType
<1>2. LifeInv(c)
  BY DEF Init, LifeInv, LifeStopped, PostPcs, IoDown, HeavyDown, Threads
<1>3. IoQueueInv /\ HeavyQueueInv
  BY DEF Init, IoQueueInv, HeavyQueueInv, IoWakeupNotLost, HeavyWakeupNotLost
<1>4. IoOrder /\ HeavyOrder
  BY DEF Init, IoOrder, HeavyOrder, InOrder
<1> QED
  BY <1>1, <1>2, <1>3, <1>4 DEF IInv

\* With one controlling thread, every behaviour of start(), stop(), ~Loop(), the
\* posts and the executors keeps the inductive invariant.
LEMMA SpecIInv ==
  ASSUME NEW c \in Clients, StartCallers = {c}, StopCallers = {c}
  PROVE  Spec => []IInv(c)
<1>1. Init => IInv(c)
  BY InitIInv
<1>2. IInv(c) /\ [Next]_vars => IInv(c)'
  BY TypeInductive, LifeInductive, IoQueueInductive, HeavyQueueInductive,
     IoOrderInductive, HeavyOrderInductive DEF IInv
<1> QED
  BY <1>1, <1>2, PTL DEF Spec

\* Type correctness needs no assumption on who controls the loop.
THEOREM TypeCorrect == Spec => []TypeOK
  BY InitType, TypeInductive, PTL DEF Spec

\* With one controlling client, for any number of posting threads and tasks, no
\* wake-up of the io executor is lost (eventfd, edge-triggered epoll, swap).
THEOREM IoWakeupsReachTheExecutor ==
  ASSUME NEW c \in Clients, StartCallers = {c}, StopCallers = {c}
  PROVE  Spec => []IoWakeupNotLost
<1>1. IInv(c) => IoWakeupNotLost
  BY DEF IInv, IoQueueInv
<1> QED
  BY <1>1, SpecIInv, PTL

\* The heavy executor never sleeps over a task that post_heavy_task queued.
THEOREM HeavyWakeupsReachTheExecutor ==
  ASSUME NEW c \in Clients, StartCallers = {c}, StopCallers = {c}
  PROVE  Spec => []HeavyWakeupNotLost
<1>1. IInv(c) => HeavyWakeupNotLost
  BY DEF IInv, HeavyQueueInv
<1> QED
  BY <1>1, SpecIInv, PTL

\* When exe_state_ is Stopped no executor thread is alive: stop() publishes
\* Stopped only after both joins, start() launches nothing before Running.
THEOREM StoppedLoopIsQuiet ==
  ASSUME NEW c \in Clients, StartCallers = {c}, StopCallers = {c}
  PROVE  Spec => []QuietWhenStopped
<1>1. IInv(c) => QuietWhenStopped
  BY DEF IInv, LifeInv, LifeStopped, QuietWhenStopped
<1> QED
  BY <1>1, SpecIInv, PTL

\* start() launches an executor only when its previous thread is gone, and never
\* assigns over a joinable std::thread; and no two threads, the destructor of
\* the loop included, are ever inside join() of the same one.
THEOREM HandlesAreSafe ==
  ASSUME NEW c \in Clients, StartCallers = {c}, StopCallers = {c}
  PROVE  Spec => [](ThreadHandlesSafe /\ JoinIsExclusive)
<1>1. ASSUME IInv(c) PROVE ThreadHandlesSafe /\ JoinIsExclusive
  <2> USE <1>1 DEF IInv
  <2>1. \A t \in Threads : t # c => call[t] \in PostPcs
    BY DEF LifeInv
  <2>2. ThreadHandlesSafe
    BY <2>1
       DEF ThreadHandlesSafe, TypeOK, LifeInv, LifeStopped, LifeRunning,
           LifeStopping, PostPcs
  <2>3. JoinIsExclusive
    BY <2>1 DEF JoinIsExclusive, PostPcs
  <2> QED
    BY <2>2, <2>3
<1> QED
  BY <1>1, SpecIInv, PTL

\* The io executor implements the FIFO executor: every task runs at most once
\* and in the order of the posts, across any number of stops and restarts.
THEOREM IoImplementsFifo ==
  ASSUME NEW c \in Clients, StartCallers = {c}, StopCallers = {c}
  PROVE  Spec => IoRunsInPostOrder
<1>1. Init => IoFifo!FifoInit
  BY DEF Init, IoFifo!FifoInit
<1>2. IInv(c) /\ [Next]_vars => [IoFifo!FifoNext]_<<io_posted, io_ran>>
  BY IoOrderInductive DEF IInv
<1>3. IInv(c) /\ [Next]_vars => [IoFifo!FifoNext]_(IoFifo!fifoVars)
  BY <1>2 DEF IoFifo!fifoVars
<1> QED
  BY <1>1, <1>3, SpecIInv, PTL DEF Spec, IoRunsInPostOrder, IoFifo!FifoSpec

\* The same of the heavy executor.
THEOREM HeavyImplementsFifo ==
  ASSUME NEW c \in Clients, StartCallers = {c}, StopCallers = {c}
  PROVE  Spec => HeavyRunsInPostOrder
<1>1. Init => HeavyFifo!FifoInit
  BY DEF Init, HeavyFifo!FifoInit
<1>2. IInv(c) /\ [Next]_vars => [HeavyFifo!FifoNext]_<<heavy_posted, heavy_ran>>
  BY HeavyOrderInductive DEF IInv
<1>3. IInv(c) /\ [Next]_vars => [HeavyFifo!FifoNext]_(HeavyFifo!fifoVars)
  BY <1>2 DEF HeavyFifo!fifoVars
<1> QED
  BY <1>1, <1>3, SpecIInv, PTL
     DEF Spec, HeavyRunsInPostOrder, HeavyFifo!FifoSpec
===============================================================================
